-------------------------------- MODULE Bets --------------------------------
(***************************************************************************)
(* Coin flips and lotteries of the game zone (chain/gamezone_evaluator.cpp)*)
(* with the end-of-block jobs proceed_bets and proceed_lottery_goods       *)
(* (chain/db_update.cpp), by the rules in force since CWD5.                *)
(*                                                                         *)
(* The node holds the stakes and the ticket money.  A bet that nobody      *)
(* calls and a lot that is not sold out are paid back; a called bet is     *)
(* flipped and a sold lot is drawn with the id of a block, which is any    *)
(* outcome here; the lot's money waits for the winner's confirmation.      *)
(***************************************************************************)
EXTENDS Integers, FiniteSets, Sequences, Functions

CONSTANTS
    Accounts,
    Sellers,          \* accounts with referral_status_type 4
    Balances,         \* initial balances, by account and asset
    Stakes,           \* amounts that are bet
    CallAssets,       \* the assets in which bets are called
    MinBet,           \* flipcoin_min_bet_amount
    BetLife,          \* one hour
    CallLife,         \* 10 seconds
    TotalParticipants,\* lottery_goods_total_participants
    Prices,           \* ticket prices
    Latencies,        \* values of latency_sec
    LotLife,          \* lottery_goods_expiration
    Lookahead,        \* 5 seconds
    BlockGaps,        \* time from one block to the next
    MaxTime,          \* bound: the last block time
    MaxBets,          \* bound: bets ever made
    MaxLots,          \* bound: lots ever created
    None              \* no object, no account

VARIABLES
    balance,     \* balances by account and asset
    flips,       \* flipcoin objects, by id
    lots,        \* lottery_goods objects, by id
    next,        \* the next id of each
    fees,        \* paid to the fees of the winners, by asset
    flipped,     \* history: coins flipped
    mixed,       \* history: stakes of calls in another asset than the bet's
    now          \* head_block_time()

vars == <<balance, flips, lots, next, fees, flipped, mixed, now>>

Core    == "cwd"
Assets  == {"cwd", "gcwd"}
FlipIds == 1..MaxBets
LotIds  == 1..MaxLots

Start == 2

(* flipcoin_object and lottery_goods_object *)
Flips == [bettor : Accounts, caller : Accounts \cup {None}, bet : Nat, status : 0..1, expiration : Nat]
Lots  == [owner : Accounts, total : 1..TotalParticipants, price : Nat, latency : Latencies,
          participants : Seq(Accounts), winner : Accounts \cup {None}, contacts : BOOLEAN,
          status : 0..3, expiration : Nat]

AccountAssumption ==
    /\ IsFiniteSet(Accounts) /\ Sellers \subseteq Accounts
    /\ Balances \in [Accounts -> [Assets -> Nat]]
AmountAssumption ==
    /\ Stakes \subseteq Nat /\ CallAssets \subseteq Assets /\ Prices \subseteq Nat
    /\ {MinBet, TotalParticipants, MaxTime, MaxBets, MaxLots} \subseteq Nat
(* latency_sec > 0 is checked; lottery_goods_expiration is 30 days by default. *)
LifeAssumption ==
    /\ {BetLife, CallLife} \cup BlockGaps \cup Latencies \subseteq Nat \ {0}
    /\ LotLife \in Nat /\ Lookahead \in 0..LotLife
NoneAssumption == None \notin Accounts /\ None \notin Flips /\ None \notin Lots

Init ==
    /\ balance = Balances
    /\ flips = [i \in FlipIds |-> None]
    /\ lots = [i \in LotIds |-> None]
    /\ next = [flip |-> 1, lot |-> 1]
    /\ fees = [x \in Assets |-> 0]
    /\ flipped = 0
    /\ mixed = 0
    /\ now = Start

Held(tab, x) == tab[x] # None

-----------------------------------------------------------------------------
(* Coin flips *)

FlipcoinBet(a, n) ==
    /\ next.flip \in FlipIds
    /\ n >= MinBet
    /\ balance[a][Core] >= n
    /\ balance' = [balance EXCEPT ![a][Core] = @ - n]
    /\ flips' = [flips EXCEPT ![next.flip] =
          [bettor |-> a, caller |-> None, bet |-> n, status |-> 0, expiration |-> now + BetLife]]
    /\ next' = [next EXCEPT !.flip = @ + 1]
    /\ UNCHANGED <<lots, fees, flipped, mixed, now>>

(* The amount must match; the asset x is the caller's choice. *)
FlipcoinCall(i, a, x) ==
    /\ Held(flips, i)
    /\ balance[a][x] >= flips[i].bet
    /\ flips[i].status = 0
    /\ flips[i].expiration >= now
    /\ balance' = [balance EXCEPT ![a][x] = @ - flips[i].bet]
    /\ flips' = [flips EXCEPT ![i].status = 1, ![i].caller = a, ![i].expiration = now + CallLife]
    /\ mixed' = IF x = Core THEN mixed ELSE mixed + flips[i].bet
    /\ UNCHANGED <<lots, next, fees, flipped, now>>

-----------------------------------------------------------------------------
(* Lotteries *)

LotteryCreate(owner, total, price, latency) ==
    /\ next.lot \in LotIds
    /\ owner \in Sellers
    /\ total \in 1..TotalParticipants
    /\ lots' = [lots EXCEPT ![next.lot] =
          [owner |-> owner, total |-> total, price |-> price, latency |-> latency,
           participants |-> << >>, winner |-> None, contacts |-> FALSE,
           status |-> 0, expiration |-> now + LotLife]]
    /\ next' = [next EXCEPT !.lot = @ + 1]
    /\ UNCHANGED <<balance, flips, fees, flipped, mixed, now>>

(* The modifier of buy_ticket; the last ticket starts the latency. *)
WithTicket(lot, a) ==
    LET sold == Append(lot.participants, a)
    IN  IF Len(sold) >= lot.total
          THEN [lot EXCEPT !.participants = sold, !.status = 1, !.expiration = now + lot.latency]
          ELSE [lot EXCEPT !.participants = sold]

LotteryBuyTicket(i, a) ==
    /\ Held(lots, i)
    /\ balance[a][Core] >= lots[i].price
    /\ lots[i].status = 0
    /\ Len(lots[i].participants) < lots[i].total
    /\ balance' = [balance EXCEPT ![a][Core] = @ - lots[i].price]
    /\ lots' = [lots EXCEPT ![i] = WithTicket(@, a)]
    /\ UNCHANGED <<flips, next, fees, flipped, mixed, now>>

LotterySendContacts(i, a) ==
    /\ Held(lots, i)
    /\ lots[i].winner = a
    /\ ~ lots[i].contacts
    /\ lots' = [lots EXCEPT ![i].contacts = TRUE]
    /\ UNCHANGED <<balance, flips, next, fees, flipped, mixed, now>>

LotteryConfirmDelivery(i, a) ==
    /\ Held(lots, i)
    /\ lots[i].status = 2
    /\ lots[i].winner = a
    /\ balance' = [balance EXCEPT ![lots[i].owner][Core] = @ + lots[i].price * lots[i].total]
    /\ lots' = [lots EXCEPT ![i].status = 3]
    /\ UNCHANGED <<flips, next, fees, flipped, mixed, now>>

-----------------------------------------------------------------------------
(* The end of a block, at time t *)

CountPrize(n)         == (n * 18000) \div 10000
CountReferralPrize(n) == (n * 2000) \div 10000

(* The loop takes the first bet of by_expiration as long as it is due. *)
DueFlips(t) == {i \in FlipIds : Held(flips, i) /\ flips[i].expiration <= t}

Called(I)    == {i \in I : flips[i].status = 1}

(* Who is paid for bet i: the bettor who was not called, or the winner. *)
FlipWinner(i, heads) == IF flips[i].status = 0 \/ heads[i] THEN flips[i].bettor ELSE flips[i].caller
FlipPayout(i) == IF flips[i].status = 0 THEN flips[i].bet ELSE CountPrize(flips[i].bet)

(* From upper_bound(1) to lower_bound(t + 5 s): lots that were drawn have time 0. *)
DueLots(t) == {i \in LotIds : Held(lots, i) /\ lots[i].expiration > 1
                               /\ lots[i].expiration < t + Lookahead}

Unsold(I) == {i \in I : lots[i].status = 0}
Tickets(i, a) == Cardinality({k \in DOMAIN lots[i].participants : lots[i].participants[k] = a})

Refunded(i, a) == Tickets(i, a) * lots[i].price

(* draw[i] is the number the block id gives, of any size. *)
Drawn(lot, n) == [lot EXCEPT !.winner = lot.participants[(n % lot.total) + 1],
                             !.status = 2, !.expiration = 0]

(* What account a gets from the bets I that are due and the lots L that did not
   sell, and what the bets that were called add to the fees. *)
Won(I, heads, a) == SumFunctionOnSet([i \in I |-> FlipPayout(i)], {i \in I : FlipWinner(i, heads) = a})
Refund(L, a)     == SumFunctionOnSet([i \in L |-> Refunded(i, a)], L)
Rake(I)          == SumFunctionOnSet([i \in I |-> CountReferralPrize(flips[i].bet)], I)

EndOfBlock(t) ==
    \E heads \in [Called(DueFlips(t)) -> BOOLEAN], draw \in [DueLots(t) -> 0..TotalParticipants] :
       LET due  == DueFlips(t)
           over == DueLots(t)
           back == Unsold(over)
       IN  /\ t <= MaxTime
           /\ balance' = [a \in Accounts |->
                 [balance[a] EXCEPT ![Core] = @ + Won(due, heads, a) + Refund(back, a)]]
           /\ flips' = [i \in FlipIds |-> IF i \in due THEN None ELSE flips[i]]
           /\ fees' = [fees EXCEPT ![Core] = @ + Rake(Called(due))]
           /\ flipped' = flipped + Cardinality(Called(due))
           /\ lots' = [i \in LotIds |->
                 CASE i \in back -> None
                   [] i \in over \ back /\ lots[i].status = 1 -> Drawn(lots[i], draw[i])
                   [] OTHER -> lots[i]]
           /\ now' = t
           /\ UNCHANGED <<next, mixed>>

-----------------------------------------------------------------------------
Next ==
    \/ \E a \in Accounts, n \in Stakes : FlipcoinBet(a, n)
    \/ \E i \in FlipIds, a \in Accounts, x \in CallAssets : FlipcoinCall(i, a, x)
    \/ \E a \in Accounts, k \in 1..TotalParticipants, p \in Prices, l \in Latencies :
          LotteryCreate(a, k, p, l)
    \/ \E i \in LotIds, a \in Accounts : LotteryBuyTicket(i, a)
    \/ \E i \in LotIds, a \in Accounts : LotterySendContacts(i, a)
    \/ \E i \in LotIds, a \in Accounts : LotteryConfirmDelivery(i, a)
    \/ \E g \in BlockGaps : EndOfBlock(now + g)

Spec == Init /\ [][Next]_vars

-----------------------------------------------------------------------------
(* Properties *)

(* The objects have the fields and the values gamezone_object.hpp gives    *)
(* them, and no balance is negative.                                       *)
TypeOK ==
    /\ balance \in [Accounts -> [Assets -> Nat]]
    /\ flips \in [FlipIds -> Flips \cup {None}]
    /\ lots \in [LotIds -> Lots \cup {None}]
    /\ next \in [flip : 1..(MaxBets + 1), lot : 1..(MaxLots + 1)]
    /\ fees \in [Assets -> Nat]
    /\ flipped \in Nat /\ mixed \in Nat /\ now \in Nat

Total(b, x) == SumFunctionOnSet([a \in Accounts |-> b[a][x]], Accounts)

(* What the node holds for a bet and for a lot. *)
InFlip(f) == IF f # None THEN f.bet * (1 + f.status) ELSE 0
InLot(l)  == IF l # None /\ l.status < 3 THEN l.price * Len(l.participants) ELSE 0
FlipsHold == SumFunctionOnSet([i \in FlipIds |-> InFlip(flips[i])], FlipIds)
LotsHold  == SumFunctionOnSet([i \in LotIds |-> InLot(lots[i])], LotIds)

(* Every unit that was staked or paid for a ticket is in a bet, in a lot,  *)
(* in the fees or back with an account, whatever the order of bets, calls, *)
(* tickets, draws, refunds and confirmations.  Dividing the stakes into    *)
(* prize and fees loses at most one unit for every coin that was           *)
(* flipped (count_prize and count_referral_prize both round down).  A call *)
(* in another asset turns its stake into core asset, unit by unit: the     *)
(* evaluator compares only the amounts (gamezone_evaluator.cpp 91).        *)
FundsConserved ==
    /\ Total(Balances, Core) + mixed - (Total(balance, Core) + fees[Core] + FlipsHold + LotsHold)
          \in 0..flipped
    /\ \A x \in Assets \ {Core} : Total(balance, x) + mixed = Total(Balances, x)

(* proceed_bets and proceed_lottery_goods leave nothing behind: after a    *)
(* block no bet, and no lot that waits for buyers or for the draw, has a   *)
(* time that is over; a bet in the database can still be called.           *)
NothingOverdue ==
    /\ \A i \in FlipIds : Held(flips, i) => flips[i].expiration > now
    /\ \A i \in LotIds : Held(lots, i) /\ lots[i].status < 2 =>
          \/ lots[i].expiration >= now + Lookahead
          \/ lots[i].status = 1 /\ lots[i].expiration > now

(* A lot is drawn when, and only when, all its tickets are sold; the       *)
(* winner bought one of them, and only a winner leaves contacts.           *)
LotsDrawnFairly ==
    \A i \in LotIds : Held(lots, i) =>
       /\ Len(lots[i].participants) <= lots[i].total
       /\ lots[i].status > 0 <=> Len(lots[i].participants) = lots[i].total
       /\ lots[i].status \in {2, 3} <=> lots[i].winner # None
       /\ lots[i].winner # None => lots[i].winner \in Range(lots[i].participants)
       /\ lots[i].contacts => lots[i].winner # None

(* What account a can gain from the bets and lots of the database. *)
FlipClaim(i, a) == IF Held(flips, i) /\ a \in {flips[i].bettor, flips[i].caller} THEN FlipPayout(i) ELSE 0
LotClaim(i, a)  == IF Held(lots, i) /\ lots[i].status = 0 THEN Refunded(i, a) ELSE 0
Claim(a) == SumFunctionOnSet([i \in FlipIds |-> FlipClaim(i, a)], FlipIds)
            + SumFunctionOnSet([i \in LotIds |-> LotClaim(i, a)], LotIds)

(* The end of a block gives an account no more than the bets and the       *)
(* tickets it holds can pay, and takes nothing from any account.           *)
PaysOnlyPlayers ==
      now' # now => \A a \in Accounts :
          balance'[a][Core] - balance[a][Core] \in 0..Claim(a)

(* A lot that was paid out or drawn keeps its participants and its winner, *)
(* and the tickets of a lot only grow until it is sold out.                *)
KeepsDraws ==
      \A i \in LotIds : Held(lots, i) =>
          \/ ~ Held(lots', i) /\ lots[i].status = 0
          \/ /\ Held(lots', i)
             /\ lots[i].participants = SubSeq(lots'[i].participants, 1, Len(lots[i].participants))
             /\ lots[i].winner # None => lots'[i].winner = lots[i].winner
             /\ lots'[i].status >= lots[i].status

=============================================================================
