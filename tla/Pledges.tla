------------------------------- MODULE Pledges ------------------------------
(***************************************************************************)
(* Loans against a pledge, transfers that wait for approval, sales of GCWD *)
(* and mass payments (the second part of chain/financial_evaluator.cpp),   *)
(* with the end-of-block jobs proceed_pledge and proceed_approved_transfer *)
(* (chain/db_update.cpp).                                                  *)
(*                                                                         *)
(* An offer is made by the lender ("give") or by the borrower ("take");    *)
(* the other side fills it.  While it is filled the node holds the pledge: *)
(* the borrower gets it back by repaying, the lender gets it when the time *)
(* is over.  Account 0, the committee account, is also the value of the    *)
(* field debitor that says "no borrower yet".                              *)
(***************************************************************************)
EXTENDS Integers, FiniteSets, Functions

CONSTANTS
    Accounts,         \* account ids; 0 is the committee account
    Arbitrators,      \* the accounts named as arbitrators of transfers
    StatusOf,         \* StatusOf[a]: referral_status_type
    Balances,         \* initial balances, by account and asset
    Terms,            \* pledge offers: [pledge, credit, repay, days]
    Transfers,        \* amounts of approved transfers
    Payments,         \* mass payments: functions from accounts to amounts
    GcwdPrice,        \* the first gcwd_price
    GcwdStep,         \* how much it rises with every sale
    GcwdMaxSupply,    \* max_supply of asset 1.3.1
    Commission,       \* ch_parameters_arbitr_comission, in percent
    TimeWidth,        \* 2^32: a time_point_sec holds a uint32_t
    MaxTime,          \* bound: the last block time
    MaxOffers,        \* bound: offers ever created
    MaxTransfers,     \* bound: transfers ever created
    None              \* no object

VARIABLES
    balance,       \* balances by account and asset
    pledges,       \* pledge_offer objects, by id
    transfers,     \* approved_transfer objects, by id
    next,          \* the next id of each
    accumulated,   \* accumulated_fees of the core asset
    gcwd_supply,   \* current_supply of GCWD
    gcwd_price,
    now            \* head_block_time()

vars == <<balance, pledges, transfers, next, accumulated, gcwd_supply, gcwd_price, now>>

saleVars == <<accumulated, gcwd_supply, gcwd_price>>

Assets      == {"cwd", "gcwd"}
OfferIds    == 1..MaxOffers
TransferIds == 1..MaxTransfers

(* pledge_offer_object and approved_transfer_object; gives, since: history *)
PledgeOffers ==
    [creator : Accounts, gives : BOOLEAN, debitor : Accounts, creditor : Accounts,
     terms : Terms, expiration : 0..(TimeWidth - 1), status : 0..1, since : 0..MaxTime]
WaitingTransfers ==
    [from : Accounts, to : Accounts, arbitr : Accounts,
     amount : [asset : Assets, n : Transfers], expiration : 0..MaxTime, status : 0..1]

(* All that the accounts hold of an asset. *)
InBalances(b, asset) == SumFunctionOnSet([a \in Accounts |-> b[a][asset]], Accounts)

AccountAssumption ==
    /\ 0 \in Accounts /\ Accounts \subseteq Nat /\ IsFiniteSet(Accounts) /\ Arbitrators \subseteq Accounts
    /\ Balances \in [Accounts -> [Assets -> Nat]] /\ InBalances(Balances, "gcwd") <= GcwdMaxSupply
AmountAssumption ==
    /\ \A t \in Terms : /\ t.pledge \in [asset : Assets, n : Nat] /\ t.credit \in [asset : Assets, n : Nat]
                       /\ t.repay \in [asset : Assets, n : Nat] /\ t.days \in Nat
    /\ Transfers \subseteq Nat /\ Commission \in 0..100
    /\ \A p \in Payments : /\ DOMAIN p \subseteq Accounts
                          /\ p \in [DOMAIN p -> Nat]
    /\ {GcwdPrice, GcwdStep, GcwdMaxSupply} \subseteq Nat
TimeAssumption ==
    MaxTime \in Nat /\ 2 <= MaxTime /\ TimeWidth \in Nat /\ MaxTime < TimeWidth
    /\ MaxOffers \in Nat /\ MaxTransfers \in Nat
NoneAssumption == None \notin PledgeOffers /\ None \notin WaitingTransfers

Init ==
    /\ balance = Balances
    /\ pledges = [i \in OfferIds |-> None]
    /\ transfers = [i \in TransferIds |-> None]
    /\ next = [pledge |-> 1, transfer |-> 1]
    /\ accumulated = 0
    /\ gcwd_supply = InBalances(Balances, "gcwd")
    /\ gcwd_price = GcwdPrice
    /\ now = 2

(* adjust_balance: an amount is [asset, n]; taking needs enough. *)
Holds(b, a, amount) == b[a][amount.asset] >= amount.n
Give(b, a, amount)  == [b EXCEPT ![a][amount.asset] = @ + amount.n]
Take(b, a, amount)  == [b EXCEPT ![a][amount.asset] = @ - amount.n]

-----------------------------------------------------------------------------
(* Pledges *)

Offer(creator, gives, terms) ==
    [creator |-> creator, gives |-> gives,
     debitor |-> IF gives THEN 0 ELSE creator, creditor |-> IF gives THEN creator ELSE 0,
     terms |-> terms, expiration |-> 0, status |-> 0, since |-> 0]

(* pledge_offer_give_create, pledge_offer_take_create *)
PledgeOfferCreate(a, gives, terms) ==
    /\ next.pledge \in OfferIds
    /\ pledges' = [pledges EXCEPT ![next.pledge] = Offer(a, gives, terms)]
    /\ next' = [next EXCEPT !.pledge = @ + 1]
    /\ UNCHANGED <<balance, transfers, saleVars, now>>

PledgeOfferCancel(i) ==
    /\ pledges[i] # None
    /\ pledges[i].status = 0
    /\ pledges' = [pledges EXCEPT ![i] = None]
    /\ UNCHANGED <<balance, transfers, next, saleVars, now>>

(* time_point_sec( head_block_time() + fc::days(n) ) *)
Later(days) == (now + days) % TimeWidth

(* Mutant: the pledge is not taken from the borrower. *)
FillBalancesUnsecured(creditor, debitor, terms) == Give(Take(balance, creditor, terms.credit), debitor, terms.credit)

FillBalances(creditor, debitor, terms) ==
    Give(Take(Take(balance, creditor, terms.credit), debitor, terms.pledge), debitor, terms.credit)

(* Who lends and who borrows when account x fills the offer. *)
FillParties(o, x) ==
    IF o.debitor # 0 THEN [creditor |-> x, debitor |-> o.debitor]
                     ELSE [creditor |-> o.creditor, debitor |-> x]

PledgeOfferFill(i, x) ==
    LET o == pledges[i]
        p == FillParties(o, x)
    IN  /\ o # None
        /\ o.status = 0
        /\ Holds(balance, p.creditor, o.terms.credit)
        /\ Holds(balance, p.debitor, o.terms.pledge)
        /\ Holds(Take(balance, p.creditor, o.terms.credit), p.debitor, o.terms.pledge)
        /\ pledges' = [pledges EXCEPT ![i] =
              [o EXCEPT !.creditor = p.creditor, !.debitor = p.debitor, !.status = 1,
                        !.expiration = Later(o.terms.days), !.since = now]]
        /\ balance' = FillBalances(p.creditor, p.debitor, o.terms)
        /\ UNCHANGED <<transfers, next, saleVars, now>>

PledgeOfferRepay(i) ==
    LET o == pledges[i]
    IN  /\ o # None
        /\ o.status = 1
        /\ Holds(balance, o.debitor, o.terms.repay)
        /\ balance' = Give(Give(Take(balance, o.debitor, o.terms.repay),
                                o.creditor, o.terms.repay),
                           o.debitor, o.terms.pledge)
        /\ pledges' = [pledges EXCEPT ![i] = None]
        /\ UNCHANGED <<transfers, next, saleVars, now>>

-----------------------------------------------------------------------------
(* Transfers that wait for approval *)

ApprovedTransferCreate(from, to, arbitr, n, expiration) ==
    LET amount == [asset |-> "cwd", n |-> n]
    IN  /\ next.transfer \in TransferIds
        /\ from # arbitr /\ to # arbitr /\ from # to
        /\ expiration > now
        /\ Holds(balance, from, amount)
        /\ balance' = Take(balance, from, amount)
        /\ transfers' = [transfers EXCEPT ![next.transfer] =
              [from |-> from, to |-> to, arbitr |-> arbitr, amount |-> amount,
               expiration |-> expiration, status |-> 0]]
        /\ next' = [next EXCEPT !.transfer = @ + 1]
        /\ UNCHANGED <<pledges, saleVars, now>>

(* The sender may approve at any time, during a dispute too. *)
ApprovedTransferApprove(i) ==
    /\ transfers[i] # None
    /\ balance' = Give(balance, transfers[i].to, transfers[i].amount)
    /\ transfers' = [transfers EXCEPT ![i] = None]
    /\ UNCHANGED <<pledges, next, saleVars, now>>

DisputedTransfer(t) == [t EXCEPT !.status = 1, !.expiration = 0]

ApprovedTransferOpenDispute(i) ==
    /\ transfers[i] # None
    /\ transfers[i].status = 0
    /\ transfers' = [transfers EXCEPT ![i] = DisputedTransfer(@)]
    /\ UNCHANGED <<balance, pledges, next, saleVars, now>>

(* arbitr_reward *)
Reward(n) == (n * Commission) \div 100

ApprovedTransferResolveDispute(i, winner) ==
    LET t      == transfers[i]
        reward == [t.amount EXCEPT !.n = Reward(@)]
        rest   == [t.amount EXCEPT !.n = @ - Reward(@)]
    IN  /\ t # None
        /\ t.status = 1
        /\ winner \in {t.from, t.to}
        /\ balance' = Give(Give(balance, winner, rest), t.arbitr, reward)
        /\ transfers' = [transfers EXCEPT ![i] = None]
        /\ UNCHANGED <<pledges, next, saleVars, now>>

-----------------------------------------------------------------------------
(* Payments *)

BuyGcwd(a) ==
    LET price == [asset |-> "cwd", n |-> gcwd_price]
        one   == [asset |-> "gcwd", n |-> 1]
    IN  /\ Holds(balance, a, price)
        /\ gcwd_supply + 1 <= GcwdMaxSupply
        /\ balance' = Give(Take(balance, a, price), a, one)
        /\ gcwd_supply' = gcwd_supply + 1
        /\ accumulated' = accumulated + gcwd_price
        /\ gcwd_price' = gcwd_price + GcwdStep
        /\ UNCHANGED <<pledges, transfers, next, now>>

MassPayment(from, asset, payments) ==
    LET total == [asset |-> asset, n |-> SumFunction(payments)]
        less  == Take(balance, from, total)
    IN  /\ StatusOf[from] >= 2
        /\ Holds(balance, from, total)
        /\ balance' = [a \in Accounts |->
              IF a \in DOMAIN payments THEN [less[a] EXCEPT ![asset] = @ + payments[a]] ELSE less[a]]
        /\ UNCHANGED <<pledges, transfers, next, saleVars, now>>

-----------------------------------------------------------------------------
(* The end of a block *)

(* The first of ids in the order of the index; 0 is the end. *)
First(key, ids) ==
    IF ids = {} THEN 0
    ELSE CHOOSE j \in ids : \A k \in ids : key[j] < key[k] \/ (key[j] = key[k] /\ j <= k)

(* The loops walk the index by_expiration and set the expiration of an object
   they settle to 0.  That moves the object to the end of the objects with
   expiration 0, so the walk goes on with the first object after those. *)
JumpToFront(key, ids, itr) ==
    First(key, {j \in ids \ {itr} : key[j] > 0})

(* Mutant: only the first object is settled. *)
WalkedOnce(objs, active, head) ==
    LET ids == {i \in DOMAIN objs : objs[i] # None /\ objs[i].status = active
                                    /\ objs[i].expiration > 1 /\ objs[i].expiration < head}
    IN  IF ids = {} THEN {} ELSE {First([i \in ids |-> objs[i].expiration], ids)}

(* A walk over the objects from upper_bound(1) to lower_bound(head): where it is,
   the keys as they are now, and the objects it has settled. *)
Ids(objs)       == {i \in DOMAIN objs : objs[i] # None}
Keys(objs)      == [i \in Ids(objs) |-> objs[i].expiration]
End(objs, head) == First(Keys(objs), {i \in Ids(objs) : Keys(objs)[i] >= head})
WalkStart(objs) ==
    [itr |-> First(Keys(objs), {i \in Ids(objs) : Keys(objs)[i] > 1}), key |-> Keys(objs), done |-> {}]

WalkStep(objs, active, head, w) ==
    IF w.itr = End(objs, head) THEN w
    ELSE IF objs[w.itr].status = active /\ w.key[w.itr] <= head /\ w.itr \notin w.done
         THEN LET key == [w.key EXCEPT ![w.itr] = 0]
              IN  [itr |-> JumpToFront(key, Ids(objs), w.itr), key |-> key, done |-> w.done \cup {w.itr}]
         ELSE [w EXCEPT !.itr = First(w.key, {j \in Ids(objs) : \/ w.key[j] > w.key[w.itr]
                                                                \/ w.key[j] = w.key[w.itr] /\ j > w.itr})]

(* The objects that the walk settles: it meets no object more than twice. *)
Walked(objs, active, head) ==
    LET walk[n \in Nat] ==
            IF n = 0 THEN WalkStart(objs) ELSE WalkStep(objs, active, head, walk[n - 1])
    IN  walk[2 * Cardinality(Ids(objs))].done

(* What the creditors get from the settled pledges, and the senders back from
   the settled transfers. *)
Seized(done, a, asset) ==
    SumFunctionOnSet([i \in done |-> pledges[i].terms.pledge.n],
                     {i \in done : pledges[i].creditor = a /\ pledges[i].terms.pledge.asset = asset})
Returned(done, a, asset) ==
    SumFunctionOnSet([i \in done |-> transfers[i].amount.n],
                     {i \in done : transfers[i].from = a /\ transfers[i].amount.asset = asset})

(* proceed_pledge and proceed_approved_transfer at the time of the new block *)
EndOfBlock ==
    LET head   == now + 1
        seized == Walked(pledges, 1, head)
        ended  == Walked(transfers, 0, head)
    IN  /\ now < MaxTime
        /\ now' = head
        /\ balance' = [a \in Accounts |-> [s \in Assets |->
              balance[a][s] + Seized(seized, a, s) + Returned(ended, a, s)]]
        /\ pledges' = [i \in OfferIds |-> IF i \in seized THEN None ELSE pledges[i]]
        /\ transfers' = [i \in TransferIds |-> IF i \in ended THEN None ELSE transfers[i]]
        /\ UNCHANGED <<next, saleVars>>

Next ==
    \/ \E a \in Accounts, gives \in BOOLEAN, t \in Terms : PledgeOfferCreate(a, gives, t)
    \/ \E i \in OfferIds : PledgeOfferCancel(i)
    \/ \E i \in OfferIds, x \in Accounts : PledgeOfferFill(i, x)
    \/ \E i \in OfferIds : PledgeOfferRepay(i)
    \/ \E a, b \in Accounts, c \in Arbitrators, n \in Transfers, e \in 1..MaxTime :
           ApprovedTransferCreate(a, b, c, n, e)
    \/ \E i \in TransferIds : ApprovedTransferApprove(i)
    \/ \E i \in TransferIds : ApprovedTransferOpenDispute(i)
    \/ \E i \in TransferIds, w \in Accounts : ApprovedTransferResolveDispute(i, w)
    \/ \E a \in Accounts : BuyGcwd(a)
    \/ \E a \in Accounts, s \in Assets, p \in Payments : MassPayment(a, s, p)
    \/ EndOfBlock

Spec == Init /\ [][Next]_vars

-----------------------------------------------------------------------------
(* Properties *)

TypeOK ==
    /\ balance \in [Accounts -> [Assets -> Nat]]
    /\ pledges \in [OfferIds -> PledgeOffers \cup {None}]
    /\ transfers \in [TransferIds -> WaitingTransfers \cup {None}]
    /\ next \in [pledge : 1..(MaxOffers + 1), transfer : 1..(MaxTransfers + 1)]
    /\ accumulated \in Nat /\ gcwd_supply \in 0..GcwdMaxSupply /\ gcwd_price \in Nat
    /\ now \in 2..MaxTime

Filled == {i \in OfferIds : pledges[i] # None /\ pledges[i].status = 1}
Live   == {i \in TransferIds : transfers[i] # None}

InTransit(asset) ==
    SumFunctionOnSet([i \in Filled |-> pledges[i].terms.pledge.n],
                     {i \in Filled : pledges[i].terms.pledge.asset = asset})
    + SumFunctionOnSet([i \in Live |-> transfers[i].amount.n],
                       {i \in Live : transfers[i].amount.asset = asset})

(* Every unit is in a balance, in a filled pledge, in a transfer that waits or
   in the fees: a pledge is handed out once, to one side, whichever of repayment
   and expiry comes first, and so is a transfer
   (financial_evaluator.cpp 359-423, 522-625, db_update.cpp 608-693). *)
FundsConserved ==
    /\ InBalances(balance, "cwd") + InTransit("cwd") + accumulated = InBalances(Balances, "cwd")
    /\ InBalances(balance, "gcwd") + InTransit("gcwd") = gcwd_supply

(* The member who made an offer keeps the side it chose when another fills it
   (financial_evaluator.cpp 305-312).  Account 0 cannot: its "take" offer looks
   like one without a borrower. *)
CreatorKeepsItsSide ==
    \A i \in OfferIds : pledges[i] # None /\ pledges[i].creator # 0 =>
        pledges[i].creator = IF pledges[i].gives THEN pledges[i].creditor ELSE pledges[i].debitor

(* Although the loops change the key they walk by, one pass settles every object
   whose time is over (db_update.cpp 620-643, 664-686). *)
SettlesExpired ==
      now' # now =>
          /\ \A i \in OfferIds : pledges'[i] # None /\ pledges'[i].status = 1
                                 /\ pledges'[i].expiration > 1 => pledges'[i].expiration >= now'
          /\ \A i \in TransferIds : transfers'[i] # None /\ transfers'[i].status = 0
                                    => transfers'[i].expiration >= now'

(* A block takes a pledge from the borrower only after the agreed days (if they
   do not run over the 32 bits of the clock), and ends no disputed transfer. *)
TakesNothingEarly ==
      now' # now =>
          /\ \A i \in OfferIds : pledges[i] # None /\ pledges'[i] = None =>
                 /\ pledges[i].status = 1
                 /\ pledges[i].since + pledges[i].terms.days < TimeWidth
                    => now' > pledges[i].since + pledges[i].terms.days
          /\ \A i \in TransferIds : transfers[i] # None /\ transfers'[i] = None =>
                 transfers[i].status = 0 /\ now' > transfers[i].expiration

=============================================================================
