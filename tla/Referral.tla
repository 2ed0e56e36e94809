------------------------------ MODULE Referral ------------------------------
(***************************************************************************)
(* The referral network: who invited whom, the status a member buys for a  *)
(* year, and the way of a fee.  A fee waits at its payer until maintenance *)
(* or until the payer's status or referrer changes; then eight levels of   *)
(* referrers get their linear bonuses, the holders of GCWD their share,    *)
(* and the rest pays the witnesses.  A fee for a status also counts as     *)
(* volume of the referrers and earns leader bonuses.                       *)
(*                                                                         *)
(* The rules are those after block CORE_1481, with the parameters          *)
(* cashback, compression and denominator on, as they are by default.  A    *)
(* cashback that repays a credit is in Credits, the volumes of a race are  *)
(* in GreatRace.  A unit of time is a day.                                 *)
(***************************************************************************)
EXTENDS Integers, Sequences, FiniteSetsExt, SequencesExt

CONSTANTS
    Accounts,           \* 0 is the committee account
    Root,               \* root_account; the accounts below it are the blockchain's own
    Referrers,          \* the referrers of the accounts that exist from the start
    Balances, Registrars,
    Hundred,            \* GRAPHENE_100_PERCENT
    RefPercent,         \* ref_01_percent_of_fee, ...
    StatusFee, StatusLevels, StatusDenominator,     \* by referral_status_type
    BonusLevel,         \* denominator_bonus_level
    CutLinear,          \* GRAPHENE_DEFAULT_CUT_LINEAR_BONUS
    NvThreshold, NvReward, NvLevels, MinNvStatus,
    CompressionLevels, CompressionLimit, MinNotCompressed,
    StatisticPeriod,    \* referral_statistic_seconds
    Year,               \* 365 days
    Gold,               \* the GCWD of each account
    MaxSupply, PayPerBlock, BlockInterval, MaintenanceInterval, CycleRate, CycleUnit,
    Fee,                \* the fee of the other operations
    Tips,               \* what may be paid for a status above its fee
    Gaps,               \* distances of blocks in time
    MaxTime             \* bound: the time of the last block

VARIABLES
    referrer,           \* of every registered account
    status,             \* type, expiration and paid fee of every account
    volume,             \* personal and network volume with their dates
    balance,
    pendingFees,        \* pending_vested_fees
    funds,              \* cashback, witness pay, the null account, counters of the core asset
    now,                \* head_block_time
    next_maintenance,
    bonuses             \* how many linear bonuses were paid (history)

vars == <<referrer, status, volume, balance, pendingFees, funds, now, next_maintenance, bonuses>>

Registered == DOMAIN referrer
Types      == DOMAIN StatusFee

Total(f) == MapThenSumSet(LAMBDA a : f[a], DOMAIN f)

(* The percentages of a fee add up to at most all of it, and a status has  *)
(* a price.                                                                *)
PercentAssumption ==
    /\ Accounts = 0..Max(Accounts) /\ Root \in Accounts \ {0}
    /\ FoldLeft(+, 0, RefPercent) <= Hundred /\ CutLinear \in 0..Hundred
    /\ \A t \in Types : StatusFee[t] > 0
    /\ Len(NvThreshold) = Len(NvReward)

(* Nobody has a status yet, and every share belongs to somebody. *)
Init ==
    /\ referrer = Referrers
    /\ status = [a \in Accounts |-> [type |-> 0, expires |-> 0, paid |-> 0]]
    /\ volume = [a \in Accounts |-> [pv |-> 0, pvAt |-> 0, nv |-> 0, nvAt |-> 0]]
    /\ balance = Balances
    /\ pendingFees = [a \in Accounts |-> 0]
    /\ funds = [cashback |-> [a \in Accounts |-> 0], witness |-> 0, null |-> 0, budget |-> 0,
                last_budget |-> 1, supply |-> Total(Balances), accumulated |-> 0]
    /\ now = 1
    /\ next_maintenance = 1 + MaintenanceInterval
    /\ bonuses = 0

-----------------------------------------------------------------------------
(* Members, their status and their volumes *)

cut_fee(a, p) == (a * p) \div Hundred

(* What a reward depends on: d is the head time and the volumes. *)
Database == [now |-> now, volume |-> volume]

ActiveStatus(d, a) == IF d.now <= status[a].expires THEN status[a].type ELSE 0

(* A volume fades evenly over the period. *)
Faded(d, v, at) == LET gone == (v * (d.now - at)) \div StatisticPeriod
                   IN  IF v > gone /\ at > 0 THEN v - gone ELSE 0
get_pv(d, a) == Faded(d, d.volume[a].pv, d.volume[a].pvAt)
get_nv(d, a) == Faded(d, d.volume[a].nv, d.volume[a].nvAt)

update_pv(d, a, amount) ==
    [d EXCEPT !.volume[a].pv = get_pv(d, a) + (IF ActiveStatus(d, a) > 0 THEN amount ELSE 0),
              !.volume[a].pvAt = d.now]

(* Members without an active status, or with a low one and no personal     *)
(* volume, are passed over.                                                *)
Compressed(d, a) ==
    /\ a > Root
    /\ \/ ActiveStatus(d, a) = 0
       \/ get_pv(d, a) <= CompressionLimit /\ ActiveStatus(d, a) < MinNotCompressed

next_rewardable(d, a) ==
    LET up[n \in 0..CompressionLevels] ==
            IF n = 0 THEN referrer[a]
            ELSE LET ref == up[n - 1] IN IF Compressed(d, ref) THEN referrer[ref] ELSE ref
    IN  IF a <= Root \/ up[CompressionLevels] < Root THEN Root ELSE up[CompressionLevels]

-----------------------------------------------------------------------------
(* Leader bonuses: what the volume adds to one member.  The member gets    *)
(* the difference of its percentage and the highest one paid below it.     *)
LeaderLevel(s, a, amount) ==
    LET leads   == ActiveStatus(s.d, a) >= MinNvStatus
        nv      == get_nv(s.d, a) + IF leads THEN amount ELSE 0
        reached == {k \in DOMAIN NvReward : nv >= NvThreshold[k] /\ NvReward[k] > s.percent}
        earns   == leads /\ nv >= NvThreshold[1] /\ a \notin s.paid /\ reached # {}
        percent == IF earns THEN NvReward[Max(reached)] ELSE s.percent
        cut     == cut_fee(amount, percent - s.percent)
    IN  [at |-> a,
         d |-> [s.d EXCEPT !.volume[a].nv = nv, !.volume[a].nvAt = s.d.now],
         percent |-> percent,
         paid |-> IF cut > 0 THEN s.paid \cup {a} ELSE s.paid,
         reward |-> s.reward + cut]

(* update_nv from member a upwards; the bonuses go to the null account. *)
update_nv(d, a, amount) ==
    LET start == [at |-> a, d |-> d, percent |-> 0, paid |-> {}, reward |-> 0]
        up[n \in 1..NvLevels] ==
            IF n = 1 THEN LeaderLevel(start, a, amount)
            ELSE LET s == up[n - 1]
                 IN  IF s.at > Root THEN LeaderLevel(s, next_rewardable(d, s.at), amount) ELSE s
    IN  up[NvLevels]

-----------------------------------------------------------------------------
(* Linear bonuses *)

(* The committee account, as the other four accounts of the blockchain,    *)
(* gives its cashback to the reserve.                                      *)
deposit_cashback(f, a, amount) ==
    IF a = 0 THEN [f EXCEPT !.supply = @ - amount]
             ELSE [f EXCEPT !.cashback[a] = @ + amount]

(* Level n: what the denominator of a status withholds goes to the next    *)
(* member with the highest status.                                         *)
LinearBonus(d, s, n, amount) ==
    LET a      == s.at
        t      == status[a].type
        full   == cut_fee(amount, RefPercent[n])
        spare  == s.spare + cut_fee(full, Hundred - StatusDenominator[t])
        bonus  == IF ActiveStatus(d, a) = BonusLevel THEN spare ELSE 0
        cut    == cut_fee(full, StatusDenominator[t]) + bonus
        reward == cut_fee(cut, Hundred - CutLinear)
    IN  IF RefPercent[n] > 0 /\ s.net > 0 /\ StatusLevels[t] >= n
        THEN [s EXCEPT !.net = @ - cut, !.spare = spare - bonus, !.paid = @ \cup {a}, !.count = @ + 1,
                       !.funds = deposit_cashback([@ EXCEPT !.supply = @ - cut_fee(cut, CutLinear)],
                                                  a, reward)]
        ELSE s

(* pay_out_fees: the payer is the first level when it has a status.  The   *)
(* chain ends at a member that is its own next or was paid before.         *)
pay_out_fees(d, f, a, amount) ==
    LET first == IF ActiveStatus(d, a) > 0 THEN a ELSE next_rewardable(d, a)
        start == [at |-> first, net |-> amount, spare |-> 0, paid |-> {}, count |-> 0,
                  funds |-> f, ended |-> FALSE]
        level[n \in 1..Len(RefPercent)] ==
            IF n = 1 THEN LinearBonus(d, start, 1, amount)
            ELSE LET s == level[n - 1]
                     b == next_rewardable(d, s.at)
                 IN  IF s.ended \/ b = s.at \/ b \in s.paid
                     THEN [s EXCEPT !.ended = TRUE]
                     ELSE LinearBonus(d, [s EXCEPT !.at = b], n, amount)
    IN  level[Len(RefPercent)]

process_fees(d, s, a, amount) ==
    LET p == pay_out_fees(d, s.funds, a, amount)
    IN  IF amount = 0 THEN s
        ELSE [funds |-> [p.funds EXCEPT !.accumulated = @ + p.net], count |-> s.count + p.count]

-----------------------------------------------------------------------------
(* Operations.  The fee is added to the payer's pending fees before the    *)
(* operation is applied and taken from the balance after it.               *)

(* Any other operation. *)
PayFee(a) ==
    /\ balance[a] >= Fee
    /\ pendingFees' = [pendingFees EXCEPT ![a] = @ + Fee]
    /\ balance' = [balance EXCEPT ![a] = @ - Fee]
    /\ UNCHANGED <<referrer, status, volume, funds, now, next_maintenance, bonuses>>

(* account_create: the referrer may be any account. *)
AccountCreate(registrar, ref) ==
    LET new == Cardinality(Registered)
    IN  /\ registrar \in Registrars /\ balance[registrar] >= Fee
        /\ new \in Accounts
        /\ referrer' = [a \in Registered \cup {new} |-> IF a = new THEN ref ELSE referrer[a]]
        /\ pendingFees' = [pendingFees EXCEPT ![registrar] = @ + Fee]
        /\ balance' = [balance EXCEPT ![registrar] = @ - Fee]
        /\ UNCHANGED <<status, volume, funds, now, next_maintenance, bonuses>>

(* The days of a status that is given up count by what was paid for them. *)
BonusDays(s, fee) ==
    IF s.expires > now THEN (((s.paid \div Year) * (s.expires - now)) * Year) \div fee ELSE 0

Upgraded(s, t, fee) ==
    [type |-> t, paid |-> fee,
     expires |-> IF s.type = t /\ s.expires > now THEN s.expires + Year
                 ELSE now + Year + BonusDays(s, fee)]

AccountStatusUpgrade(a, t, fee) ==
    /\ status[a].type <= t
    /\ fee >= StatusFee[t]
    /\ balance[a] >= fee
    /\ LET lead == update_nv(update_pv(Database, referrer[a], fee), referrer[a], fee)
           paid == process_fees(lead.d, [funds |-> [funds EXCEPT !.null = @ + lead.reward],
                                         count |-> bonuses], a, pendingFees[a] + fee)
       IN  /\ volume' = lead.d.volume
           /\ funds' = paid.funds
           /\ bonuses' = paid.count
    /\ pendingFees' = [pendingFees EXCEPT ![a] = 0]
    /\ status' = [status EXCEPT ![a] = Upgraded(@, t, fee)]
    /\ balance' = [balance EXCEPT ![a] = @ - fee]
    /\ UNCHANGED <<referrer, now, next_maintenance>>

(* The check for a loop looks at the next CompressionLevels referrers and  *)
(* ends at the root.                                                       *)
LoopsStructure(a, ref) ==
    LET up[n \in 0..CompressionLevels] == IF n = 0 THEN ref ELSE referrer[up[n - 1]]
    IN  \E n \in 1..CompressionLevels : /\ up[n] = a
                                        /\ \A k \in 1..(n - 1) : referrer[up[k]] >= Root

ChangeReferrer(a, ref) ==
    /\ balance[a] >= Fee
    /\ ref >= Root /\ ref # referrer[a] /\ ref # a
    /\ ~LoopsStructure(a, ref)
    /\ LET paid == process_fees(Database, [funds |-> funds, count |-> bonuses], a, pendingFees[a] + Fee)
       IN  funds' = paid.funds /\ bonuses' = paid.count
    /\ referrer' = [referrer EXCEPT ![a] = ref]
    /\ pendingFees' = [pendingFees EXCEPT ![a] = 0]
    /\ balance' = [balance EXCEPT ![a] = @ - Fee]
    /\ UNCHANGED <<status, volume, now, next_maintenance>>

-----------------------------------------------------------------------------
(* The end of a block: the signing witness is paid from the budget, and    *)
(* maintenance follows when it is due.                                     *)

update_signing_witness(f) ==
    LET pay == Min({PayPerBlock, f.budget})
    IN  [f EXCEPT !.budget = @ - pay, !.witness = @ + pay]

(* perform_account_maintenance: one account after the other, in the order  *)
(* of their names.                                                         *)
PayPendingFees(d, f) ==
    LET paid[a \in Accounts] ==
            LET s == IF a = 0 THEN [funds |-> f, count |-> bonuses] ELSE paid[a - 1]
            IN  process_fees(d, s, a, pendingFees[a])
    IN  paid[Max(Accounts)]

(* 40 of 42 parts of the accumulated fees go to the holders of GCWD. *)
count_gold(f) ==
    LET split == (f.accumulated * 40) \div 42
        cut(a) == (split * Gold[a]) \div Total(Gold)
    IN  [FoldSet(LAMBDA a, g : deposit_cashback(g, a, cut(a)), f, {a \in Accounts : Gold[a] > 0})
         EXCEPT !.accumulated = @ - MapThenSumSet(cut, {a \in Accounts : Gold[a] > 0})]

(* A part of the reserve, rounded up, that grows with the time.  Unspent   *)
(* budget and fees are in the reserve from the start of the interval.      *)
TotalBudget(f, t) ==
    LET reserve == (MaxSupply - f.supply) + f.accumulated + f.budget
    IN  IF t <= f.last_budget THEN 0
        ELSE Min({reserve, (reserve * (t - f.last_budget) * CycleRate + CycleUnit - 1) \div CycleUnit})

process_budget(f, t, next) ==
    LET blocks == ((next - t) + BlockInterval - 1) \div BlockInterval
        pay    == Min({PayPerBlock * blocks, TotalBudget(f, t)})
    IN  [f EXCEPT !.supply = @ + pay - f.accumulated - f.budget, !.accumulated = 0,
                  !.budget = pay, !.last_budget = t]

NextMaintenance(t) ==
    next_maintenance + ((t - next_maintenance) \div MaintenanceInterval + 1) * MaintenanceInterval

Block(gap) ==
    LET t    == now + gap
        f    == update_signing_witness(funds)
        paid == PayPendingFees([now |-> t, volume |-> volume], f)
    IN  /\ t <= MaxTime
        /\ now' = t
        /\ \/ /\ t < next_maintenance
              /\ funds' = f
              /\ UNCHANGED <<pendingFees, next_maintenance, bonuses>>
           \/ /\ t >= next_maintenance
              /\ next_maintenance' = NextMaintenance(t)
              /\ funds' = process_budget(count_gold(paid.funds), t, NextMaintenance(t))
              /\ bonuses' = paid.count
              /\ pendingFees' = [a \in Accounts |-> 0]
        /\ UNCHANGED <<referrer, status, volume, balance>>

Next ==
    \/ \E a \in Registered : PayFee(a)
    \/ \E a, ref \in Registered : AccountCreate(a, ref)
    \/ \E a \in Registered, t \in Types, tip \in Tips : AccountStatusUpgrade(a, t, StatusFee[t] + tip)
    \/ \E a, ref \in Registered : ChangeReferrer(a, ref)
    \/ \E gap \in Gaps : Block(gap)

Spec == Init /\ [][Next]_vars

-----------------------------------------------------------------------------
(* Properties *)

TypeOK ==
    /\ Registered \subseteq Accounts /\ \A a \in Registered : referrer[a] \in Registered
    /\ \A a \in Accounts : /\ status[a] \in [type : Types \cup {0}, expires : Nat, paid : Nat]
                           /\ volume[a] \in [pv : Nat, pvAt : 0..now, nv : Nat, nvAt : 0..now]
    /\ balance \in [Accounts -> Nat] /\ pendingFees \in [Accounts -> Nat]
    /\ funds.cashback \in [Accounts -> Nat]
    /\ \A k \in DOMAIN funds \ {"cashback"} : funds[k] \in Nat
    /\ now \in 1..MaxTime /\ next_maintenance > now

(* Shares in somebody's hands, the null account left out. *)
Circulating ==
    Total(balance) + Total(pendingFees) + Total(funds.cashback)
    + funds.witness + funds.budget + funds.accumulated

(* current_supply covers every share outside the null account through all  *)
(* the splits of a fee: a linear bonus loses at most one unit by rounding, *)
(* and nothing else is made or lost.  It never passes the maximum.         *)
SupplyCovers ==
    /\ funds.supply - Circulating \in 0..bonuses
    /\ funds.supply <= MaxSupply

(* The leaders above a sale share the highest percentage of its price:     *)
(* however many there are, they get no more together.                      *)
LeadersShareOneBonus ==
    (funds'.null - funds.null) * Hundred <= (Total(balance) - Total(balance')) * Max(ToSet(NvReward))

(* While the structure is not deeper than the check for loops looks, no    *)
(* change of a referrer closes a loop: every member is below the root.     *)
EndsAtRoot ==
    Cardinality(Accounts) <= CompressionLevels =>
        ~\E S \in SUBSET {a \in Registered : a > Root} : S # {} /\ \A a \in S : referrer[a] \in S

(* Only the holders of GCWD and members whose status is active at the time *)
(* of the payment gain cashback: a chain of former partners is passed over *)
(* as long as it is not longer than the compression.                       *)
RewardsTheActive ==
    Cardinality(Accounts) <= CompressionLevels =>
        \A a \in Accounts : funds'.cashback[a] > funds.cashback[a] =>
            Gold[a] > 0 \/ a = Root \/ (status[a].type > 0 /\ now' <= status[a].expires)

(* A status is never lowered, and a renewal adds a whole year to what is   *)
(* left, also at the edge of its time.                                     *)
KeepsPaidTime ==
    \A a \in Accounts : status'[a] # status[a] =>
        /\ status'[a].type >= status[a].type
        /\ status'[a].type = status[a].type => status'[a].expires = Max({status[a].expires, now}) + Year

(* The comment on current_supply in asset_object.hpp: the number of shares *)
(* in existence, so none exists that it does not count.                    *)
CountsExistingShares == funds.supply >= Circulating + funds.null
=============================================================================
