------------------------------- MODULE Staking ------------------------------
(***************************************************************************)
(* Proof of crowd and vesting balances.  A member locks an amount for      *)
(* three, six or twelve months and gets new coins for it; its referrers,   *)
(* the holders of GCWD and the apostolos get theirs at once.  What a       *)
(* staking yields is the mean of the votes of those who have staked.       *)
(*                                                                         *)
(* What is locked is a vesting balance, as are cashback and the pay of     *)
(* witnesses.  The rules are those after CORE_1480.  A reward that repays  *)
(* a credit is in Credits, its volume in the race in GreatRace, the split  *)
(* of the fees and the size of the budget are in Referral.                 *)
(***************************************************************************)
EXTENDS Integers, Sequences, FiniteSetsExt, SequencesExt

CONSTANTS
    Accounts,           \* 0 is the committee account
    Referrer, StatusOf, \* account_object: referrer and referral_status_type
    FirstStakers,       \* accounts with had_staking at the start
    Balances, Silver,   \* core and SILVER balances at the start
    Witness, Apostolos, \* the account of the signing witness; GRAPHENE_APOSTOLOS_ACCOUNT
    Hundred, OnePercent, Precision,
    FirstPercents,      \* poc3_percent, poc6_percent, poc12_percent
    MinStake,           \* poc3_min_amount, ...
    Terms,              \* 3, 6 and 12 months
    RefPercent, StatusLevels, StatusDenominator, GcwdPercent, ApostolosPercent,
    MinVotes, FilterPercent, VoteInterval, VoteDuration, FirstVote,
    MaintenanceInterval, MaxSupply, PayPerBlock, CashbackPeriods, PayPeriod,
    Stakers, Stakes, Ballots, Policies, Withdrawals, Budgets, Gaps,      \* inputs
    MaxTime,            \* bound: the time of the last block
    MaxVests            \* bound: vesting balances ever created

VARIABLES
    balance, silver,
    staked,             \* had_staking
    votes,              \* poc3_vote, poc6_vote and poc12_vote of every account
    vests,              \* vesting_balance_object, by id, with its history: out, held
    slots,              \* cashback_vb of the apostolos, pay_vb of the witness (0: none)
    period,             \* cashback_vesting_period_seconds
    percents,
    core,               \* dynamic data: supply, accumulated fees, budget, supply of SILVER
    now,                \* head_block_time
    poll,               \* next_poc_vote_time, end_poc_vote_time, poc_vote_is_active
    next_maintenance

vars == <<balance, silver, staked, votes, vests, slots, period, percents, core, now, poll,
          next_maintenance>>

Kinds == 1..3

SumOf(s) == FoldLeft(+, 0, s)

(* A vote has something left to count, no referrer is paid more than the   *)
(* test of the supply allows for, and the apostolos get at most the stake. *)
StakingAssumption ==
    /\ Accounts = 0..Max(Accounts)
    /\ MinVotes > 0 /\ 2 * FilterPercent < Hundred
    /\ \A t \in DOMAIN StatusDenominator : StatusDenominator[t] \in 0..Hundred
    /\ ApostolosPercent \in 0..Hundred

Init ==
    /\ balance = Balances /\ silver = Silver
    /\ staked = FirstStakers
    /\ votes = [a \in Accounts |-> <<0, 0, 0>>]
    /\ vests = <<>> /\ slots = [cashback |-> 0, pay |-> 0]
    /\ period = Min(CashbackPeriods)
    /\ percents = FirstPercents
    /\ core = [supply |-> MapThenSumSet(LAMBDA a : Balances[a], Accounts), accumulated |-> 0,
               budget |-> 0, silver |-> MapThenSumSet(LAMBDA a : Silver[a], Accounts)]
    /\ now = 1
    /\ poll = [next |-> FirstVote, end |-> 0, active |-> FALSE]
    /\ next_maintenance = 1 + MaintenanceInterval

-----------------------------------------------------------------------------
(* Vesting balances.  A linear one vests evenly after its cliff; the other *)
(* kind earns a unit per coin and second, up to its vesting period.        *)

Linear(owner, amount, begin, duration) ==
    [kind |-> "linear", owner |-> owner, asset |-> "cwd", balance |-> amount,
     begin |-> begin, cliff |-> 0, duration |-> duration, total |-> amount, out |-> 0]

CoinDays(owner, amount, seconds, earned, t) ==
    [kind |-> "cdd", owner |-> owner, asset |-> "cwd", balance |-> amount,
     period |-> seconds, earned |-> earned, updated |-> t, claim |-> 0, out |-> 0, held |-> earned]

Period(v) == Max({v.period, 1})

compute_coin_seconds_earned(v, t) ==
    Min({v.earned + v.balance * (t - v.updated), v.balance * Period(v)})

TotalVested(v, t) ==
    IF t - v.begin < v.duration THEN (v.total * (t - v.begin)) \div v.duration ELSE v.total

get_allowed_withdraw(v, t) ==
    IF v.kind = "linear"
    THEN IF t > v.begin /\ t - v.begin >= v.cliff
         THEN TotalVested(v, t) - (v.total - v.balance) ELSE 0
    ELSE IF t > v.claim THEN compute_coin_seconds_earned(v, t) \div Period(v) ELSE 0

Withdraw(v, amount, t) ==
    IF v.kind = "linear" THEN [v EXCEPT !.balance = @ - amount, !.out = @ + amount]
    ELSE [v EXCEPT !.balance = @ - amount, !.out = @ + amount, !.updated = t,
                   !.earned = compute_coin_seconds_earned(v, t) - amount * Period(v)]

(* deposit and deposit_vested, into balances of the second kind only *)
Deposit(v, amount, vested, t) ==
    LET extra == IF vested THEN amount * Period(v) ELSE 0
    IN  [v EXCEPT !.balance = @ + amount, !.updated = t, !.held = @ + extra,
                  !.earned = compute_coin_seconds_earned(v, t) + extra]

(* A deposit into balance i, or into a new one when there is none or it    *)
(* has another period: the new list and the id to remember.                *)
deposit_lazy_vesting(vs, i, owner, amount, seconds, vested, t) ==
    IF amount = 0 THEN [vests |-> vs, id |-> i]
    ELSE IF i # 0 /\ vs[i].period = seconds
    THEN [vests |-> [k \in DOMAIN vs |-> IF k = i THEN Deposit(vs[i], amount, vested, t) ELSE vs[k]],
          id |-> i]
    ELSE [vests |-> Append(vs, CoinDays(owner, amount, seconds,
                                        IF vested THEN amount * seconds ELSE 0, t)),
          id |-> Len(vs) + 1]

VestingBalanceCreate(a, owner, asset, amount, policy) ==
    /\ IF asset = "cwd" THEN balance[a] >= amount ELSE silver[a] >= amount
    /\ Len(vests) < MaxVests
    /\ IF asset = "cwd"
       THEN balance' = [balance EXCEPT ![a] = @ - amount] /\ UNCHANGED <<silver, staked>>
       ELSE /\ silver' = [silver EXCEPT ![a] = @ - amount]
            /\ staked' = staked \cup {owner}
            /\ UNCHANGED balance
    /\ vests' = Append(vests,
          IF policy.kind = "linear"
          THEN [Linear(owner, amount, policy.begin, policy.duration)
                EXCEPT !.asset = asset, !.cliff = policy.cliff]
          ELSE [CoinDays(owner, amount, policy.period, 0, now)
                EXCEPT !.asset = asset, !.claim = policy.claim])
    /\ UNCHANGED <<votes, slots, period, percents, core, now, poll, next_maintenance>>

VestingBalanceWithdraw(i, amount) ==
    LET v == vests[i]
    IN  /\ amount > 0 /\ amount <= get_allowed_withdraw(v, now)
        /\ vests' = [vests EXCEPT ![i] = Withdraw(@, amount, now)]
        /\ IF v.asset = "cwd"
           THEN balance' = [balance EXCEPT ![v.owner] = @ + amount] /\ UNCHANGED silver
           ELSE silver' = [silver EXCEPT ![v.owner] = @ + amount] /\ UNCHANGED balance
        /\ UNCHANGED <<staked, votes, slots, period, percents, core, now, poll, next_maintenance>>

-----------------------------------------------------------------------------
(* Staking *)

staking_reward(amount, p) == (amount * p) \div Hundred

(* The referrer at level n is paid once, never the member itself and never *)
(* the committee account.                                                  *)
Upline(a) ==
    LET up[n \in 0..Len(RefPercent)] == IF n = 0 THEN a ELSE Referrer[up[n - 1]]
    IN  [n \in 1..Len(RefPercent) |-> up[n]]

pay_staking_reward(a, amount) ==
    LET up == Upline(a)
        reward(n) ==
            LET t == StatusOf[up[n]]
            IN  IF /\ up[n] \notin {0, a} /\ \A k \in 1..(n - 1) : up[k] # up[n]
                   /\ StatusLevels[t] >= n
                THEN staking_reward(staking_reward(amount, RefPercent[n]), StatusDenominator[t])
                ELSE 0
    IN  [b \in Accounts |-> MapThenSumSet(reward, {n \in DOMAIN up : up[n] = b})]

(* Three months: the yield vests over the term and the stake at its end.   *)
(* Six: all at the end.  Twelve: all over the term.                        *)
Locked(a, kind, amount, yield) ==
    CASE kind = 1 -> <<Linear(a, yield, now, Terms[1]), Linear(a, amount, now + Terms[1], 0)>>
      [] kind = 2 -> <<Linear(a, amount + yield, now + Terms[2], 0)>>
      [] kind = 3 -> <<Linear(a, amount + yield, now, Terms[3])>>

PocStak(a, kind, amount) ==
    LET yield  == staking_reward(amount, percents[kind])
        shares == pay_staking_reward(a, amount)
        gcwd   == staking_reward(amount, GcwdPercent)
        apo    == staking_reward(amount, ApostolosPercent)
        lazy   == deposit_lazy_vesting(vests \o Locked(a, kind, amount, yield), slots.cashback,
                                       Apostolos, apo, period, TRUE, now)
    IN  /\ amount >= MinStake[kind]
        /\ balance[a] >= amount
        /\ core.supply + amount + staking_reward(amount, percents[kind] + SumOf(RefPercent) + GcwdPercent)
               <= MaxSupply
        /\ Len(lazy.vests) <= MaxVests
        /\ staked' = staked \cup {a}
        /\ vests' = lazy.vests
        /\ slots' = [slots EXCEPT !.cashback = lazy.id]
        /\ balance' = [b \in Accounts |-> balance[b] + shares[b] - (IF b = a THEN amount ELSE 0)]
        /\ core' = [core EXCEPT !.accumulated = @ + gcwd,
                                !.supply = @ + yield + SumOf([b \in 1..Max(Accounts) |-> shares[b]])
                                             + gcwd + apo]
        /\ UNCHANGED <<silver, votes, period, percents, now, poll, next_maintenance>>

(* SILVER becomes the core asset, one for one. *)
ExchangeSilver(a, amount) ==
    /\ silver[a] >= amount
    /\ core.supply + amount <= MaxSupply
    /\ silver' = [silver EXCEPT ![a] = @ - amount]
    /\ balance' = [balance EXCEPT ![a] = @ + amount]
    /\ core' = [core EXCEPT !.supply = @ + amount, !.silver = Max({@ - amount, 0})]
    /\ UNCHANGED <<staked, votes, vests, slots, period, percents, now, poll, next_maintenance>>

-----------------------------------------------------------------------------
(* Voting *)

PocVote(a, v) ==
    /\ a \in staked
    /\ SumOf(votes[a]) = 0
    /\ poll.end >= now
    /\ balance[a] >= SumOf(v)
    /\ balance' = [balance EXCEPT ![a] = @ - SumOf(v)]
    /\ core' = [core EXCEPT !.accumulated = @ + SumOf(v)]
    /\ votes' = [votes EXCEPT ![a] = v]
    /\ UNCHANGED <<silver, staked, vests, slots, period, percents, now, poll, next_maintenance>>

(* The votes for a kind, without the lowest and the highest ones. *)
Cast(kind) == {a \in Accounts : votes[a][kind] > 0}

Filtered(kind) ==
    LET count  == Cardinality(Cast(kind))
        sorted == SortSeq([i \in 1..Cardinality(Accounts) |-> votes[i - 1][kind]], <)
        filter == (count * FilterPercent) \div Hundred
    IN  SubSeq(sorted, Len(sorted) - count + filter + 1, Len(sorted) - filter)

count_poc_votes ==
    [kind \in Kinds |->
        IF Cardinality(Cast(kind)) >= MinVotes
        THEN ((SumOf(Filtered(kind)) \div Len(Filtered(kind))) \div Precision) * OnePercent
        ELSE percents[kind]]

(* At maintenance a poll is opened when it is time, and counted when it is *)
(* over.                                                                   *)
OpenedPoll(t) ==
    IF poll.next <= t
    THEN [next |-> poll.next + VoteInterval, end |-> t + VoteDuration, active |-> TRUE]
    ELSE poll

PollMaintenance(t) ==
    LET opened == OpenedPoll(t)
    IN  IF opened.active /\ opened.end <= t
        THEN /\ percents' = count_poc_votes
             /\ votes' = [a \in Accounts |-> <<0, 0, 0>>]
             /\ poll' = [opened EXCEPT !.active = FALSE]
        ELSE poll' = opened /\ UNCHANGED <<percents, votes>>

-----------------------------------------------------------------------------
(* The end of a block: the pay of the witness has to vest.  At maintenance *)
(* the fees and what is left of the budget go back to the reserve, and the *)
(* committee may have changed the period of later cashback.                *)

Held(v, gap) == IF v.kind = "linear" THEN v ELSE [v EXCEPT !.held = @ + v.balance * gap]

Block(gap) ==
    LET t    == now + gap
        pay  == Min({PayPerBlock, core.budget})
        lazy == deposit_lazy_vesting([i \in DOMAIN vests |-> Held(vests[i], gap)], slots.pay,
                                     Witness, pay, PayPeriod, FALSE, t)
        paid == [core EXCEPT !.budget = @ - pay]
    IN  /\ t <= MaxTime
        /\ now' = t
        /\ vests' = lazy.vests
        /\ slots' = [slots EXCEPT !.pay = lazy.id]
        /\ IF t < next_maintenance
           THEN core' = paid /\ UNCHANGED <<votes, percents, poll, period, next_maintenance>>
           ELSE /\ next_maintenance' = next_maintenance
                      + ((t - next_maintenance) \div MaintenanceInterval + 1) * MaintenanceInterval
                /\ PollMaintenance(t)
                /\ period' \in CashbackPeriods
                /\ \E b \in Budgets :
                      LET rest == paid.supply - paid.accumulated - paid.budget
                      IN  /\ rest + b <= MaxSupply
                          /\ core' = [paid EXCEPT !.supply = rest + b, !.budget = b, !.accumulated = 0]
        /\ UNCHANGED <<balance, silver, staked>>

Next ==
    \/ \E a \in Stakers, k \in Kinds, n \in Stakes : PocStak(a, k, n)
    \/ \E a \in Accounts, n \in Stakes : ExchangeSilver(a, n)
    \/ \E a \in Accounts, v \in Ballots : PocVote(a, v)
    \/ \E a \in Stakers, owner \in Stakers, n \in Stakes, p \in Policies, s \in {"cwd", "silver"} :
          VestingBalanceCreate(a, owner, s, n, p)
    \/ \E i \in DOMAIN vests, n \in Withdrawals : VestingBalanceWithdraw(i, n)
    \/ \E gap \in Gaps : Block(gap)

Spec == Init /\ [][Next]_vars

-----------------------------------------------------------------------------
(* Properties *)

TypeOK ==
    /\ balance \in [Accounts -> Nat] /\ silver \in [Accounts -> Nat]
    /\ \A i \in DOMAIN vests : vests[i].balance \in Nat /\ get_allowed_withdraw(vests[i], now) \in Nat
    /\ slots.cashback \in 0..Len(vests) /\ slots.pay \in 0..Len(vests)
    /\ core \in [supply : Nat, accumulated : Nat, budget : Nat, silver : Nat]

(* The counter of the core asset is what exists of it, and stays below the *)
(* limit of the asset, although the test of a staking leaves out the share *)
(* of the apostolos.                                                       *)
SupplyAccounted ==
    /\ core.supply = MapThenSumSet(LAMBDA a : balance[a], Accounts) + core.accumulated + core.budget
                     + MapThenSumSet(LAMBDA i : IF vests[i].asset = "cwd" THEN vests[i].balance ELSE 0,
                                     DOMAIN vests)
    /\ core.supply <= MaxSupply

(* However deposits and withdrawals alternate, nothing is paid out ahead   *)
(* of the straight line, or without as many coin-seconds as it needs.      *)
PaysWhatVested ==
    \A i \in DOMAIN vests : vests[i].out > 0 =>
        LET v == vests[i]
        IN  IF v.kind = "linear"
            THEN now >= v.begin + v.cliff /\ v.out * v.duration <= v.total * (now - v.begin)
            ELSE now > v.claim /\ v.out * Period(v) <= v.held

(* What has vested stays so: no deposit, change of the period or block     *)
(* takes back what can be withdrawn, or could be without it.               *)
KeepsVested ==
    \A i \in DOMAIN vests, t \in {now, now'} :
        vests'[i].out + get_allowed_withdraw(vests'[i], now') >= vests[i].out + get_allowed_withdraw(vests[i], t)

(* A yield changes only at maintenance, to the mean of enough votes that   *)
(* were paid for, and no vote is counted twice.                            *)
YieldsAreVoted ==
    \A kind \in Kinds : percents'[kind] # percents[kind] =>
        /\ Cardinality(Cast(kind)) >= MinVotes
        /\ \E a, b \in Cast(kind) : /\ (votes[a][kind] \div Precision) * OnePercent <= percents'[kind]
                                    /\ percents'[kind] <= (votes[b][kind] \div Precision) * OnePercent
        /\ \A a \in Accounts : votes'[a][kind] = 0
=============================================================================
