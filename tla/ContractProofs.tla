--------------------------- MODULE ContractProofs ---------------------------
(***************************************************************************)
(* Proofs about the contracts between members.                             *)
(*                                                                         *)
(* The escrow exchange: the types, that an open order's advert exists and  *)
(* its deadline is the one its time limit gives, that the clock drops only *)
(* late, unpaid orders, that no CWD is made or lost and that every order   *)
(* is settled exactly once.                                                *)
(*                                                                         *)
(* Credits, under C!: that current_supply is what the members hold, that   *)
(* no more is withheld from a debitor than it owes, that every creditor    *)
(* gets what is withheld for it, and that an open credit keeps its terms.  *)
(*                                                                         *)
(* Pledges and approved transfers, under Pl!: that no CWD or GCWD is made  *)
(* or lost, that the creator of an offer keeps its side, and that one walk *)
(* over an index whose keys it changes settles all that is over, and       *)
(* nothing else.                                                           *)
(*                                                                         *)
(* Bets and lots, under B!: that stakes and ticket money are conserved but *)
(* for what rounding loses, that lots are drawn fairly and only once, that *)
(* a block leaves nothing overdue and pays only those who played.          *)
(***************************************************************************)
EXTENDS P2PExchange, FiniteSetTheorems, WellFoundedInduction, TLAPS

(* The facts about sums; what FoldLeft folds does not matter for them. *)
Plus(a, b) == a + b
INSTANCE FoldTheorems WITH Op <- Plus


(* An open order was opened on an advert, and adverts stay. *)
AdvertsExist == \A k \in Open : advs[orders[k].p2p_adv] # None

(* The deadline that runs is the time limit of the advert, as it was when   *)
(* the order was opened or called, counted from then.                       *)
DeadlinesSet ==
  \A k \in Open :
     LET o == orders[k]
     IN  /\ o.status = 1 => o.time_for_approve = Later(o.since, o.limit)
         /\ o.status = 2 => o.time_for_reply = Later(o.since, o.limit)

(* The ids not used yet belong to no order. *)
FreshIds == \A k \in OrderIds : k >= next => orders[k] = None

(* Only an order on an advert that sells waits for the gateway's call. *)
CalledBySeller == \A k \in Open : orders[k].status = 1 => orders[k].order_type

(* What the accounts hold, and what the orders hold in escrow. *)
Held     == SumFunctionOnSet(balance, Accounts)
Escrowed == SumFunctionOnSet([k \in OrderIds |-> Escrow(orders[k])], OrderIds)

(* The statistics, added up over the accounts. *)
Completes == [a \in Accounts |-> stats[a].complete]
Cancels   == [a \in Accounts |-> stats[a].canceled]
Losses    == [a \in Accounts |-> stats[a].loose]
Completed == SumFunctionOnSet(Completes, Accounts)
Canceled  == SumFunctionOnSet(Cancels, Accounts)
Lost      == SumFunctionOnSet(Losses, Accounts)
Settled   == 2 * Cardinality(Open) + 2 * Canceled + Lost + Completed

Typed == TypeOK /\ AdvertsExist

-----------------------------------------------------------------------------
(* An open order is a record of an order, and its parties are accounts. *)
LEMMA OpenOrder ==
  ASSUME TypeOK, NEW k \in OrderIds, orders[k] # None
  PROVE  /\ orders[k] \in Orders
         /\ Buyer(orders[k]) \in Accounts
         /\ Seller(orders[k]) \in Accounts
         /\ Blamed(orders[k]) \in Accounts
         /\ orders[k].amount \in Nat
         /\ orders[k].since \in Nat
<1>1. orders[k] \in Orders
  BY DEF TypeOK
<1>2. /\ orders[k].p2p_gateway \in Accounts /\ orders[k].p2p_client \in Accounts
      /\ orders[k].amount \in Amounts /\ orders[k].since \in 0..MaxTime
  BY <1>1 DEF Orders
<1>3. orders[k].amount \in Nat
  BY <1>2, AmountAssumption
<1>4. orders[k].since \in Nat
  BY <1>2
<1> QED
  BY <1>1, <1>2, <1>3, <1>4 DEF Buyer, Seller, Blamed

(* The arbitrator's commission is a part of the amount. *)
LEMMA CutFeeBounds ==
  ASSUME NEW amount \in Nat
  PROVE  CutFee(amount) \in Nat /\ CutFee(amount) <= amount /\ amount - CutFee(amount) \in Nat
<1>1. Commission \in Nat /\ Commission <= 100
  BY AmountAssumption
<1>2. amount * Commission \in Nat
  BY <1>1
<1>3. amount * Commission <= 100 * amount
  BY <1>1
<1>4. (amount * Commission) \div 100 \in Nat /\ 100 * ((amount * Commission) \div 100) <= amount * Commission
  BY <1>2
<1> QED
  BY <1>3, <1>4, <1>2 DEF CutFee

(* A time is a time, and below the width the sum is the plain one. *)
LEMMA LaterTime ==
  ASSUME NEW t \in Nat, NEW s \in Nat
  PROVE  Later(t, s) \in Nat /\ (t + s < TimeWidth => Later(t, s) = t + s)
  BY TimeAssumption DEF Later

(* A field of an order is replaced. *)
LEMMA OrderChanged ==
  ASSUME NEW o \in Orders
  PROVE  /\ \A n \in Nat : [o EXCEPT !.time_for_approve = n] \in Orders
         /\ \A n \in Nat : [o EXCEPT !.time_for_reply = n] \in Orders
         /\ \A n \in Nat : [o EXCEPT !.limit = n] \in Orders
         /\ \A n \in 0..MaxTime : [o EXCEPT !.since = n] \in Orders
         /\ \A a \in Accounts : [o EXCEPT !.arbitrage_initiator = a] \in Orders
<1>1. \A n \in Nat : [o EXCEPT !.time_for_approve = n] \in Orders
  BY DEF Orders
<1>2. \A n \in Nat : [o EXCEPT !.time_for_reply = n] \in Orders
  BY DEF Orders
<1>3. \A n \in Nat : [o EXCEPT !.limit = n] \in Orders
  BY DEF Orders
<1>4. \A n \in 0..MaxTime : [o EXCEPT !.since = n] \in Orders
  BY DEF Orders
<1>5. \A a \in Accounts : [o EXCEPT !.arbitrage_initiator = a] \in Orders
  BY DEF Orders
<1> QED
  BY <1>1, <1>2, <1>3, <1>4, <1>5

(* The order that is created. *)
LEMMA NewOrder ==
  ASSUME TypeOK, NEW i \in AdvIds, NEW c \in Accounts, NEW x \in Amounts, CreateOrder(i, c, x)
  PROVE  /\ next \in OrderIds
         /\ orders'[next] \in Orders
         /\ orders'[next] # None
         /\ orders'[next].p2p_adv = i
<1> DEFINE adv   == advs[i]
           sells == adv.terms.adv_type
           limit == IF sells THEN adv.terms.timelimit_for_approve
                             ELSE adv.terms.timelimit_for_reply
<1>1. adv \in Adverts /\ adv.terms \in Terms /\ adv.p2p_gateway \in Accounts
  BY DEF CreateOrder, TypeOK, Adverts, Gateways
<1>2. sells \in BOOLEAN /\ limit \in Nat
  BY <1>1, TermsAssumption
<1>3. now \in Nat /\ now \in 0..MaxTime /\ Later(now, limit) \in Nat
  <2>1. now \in Nat /\ now \in 0..MaxTime
    BY DEF TypeOK
  <2> HIDE DEF limit
  <2> QED
    BY <1>2, <2>1, LaterTime
<1>4. orders'[next] \in Orders /\ next \in OrderIds /\ orders'[next].p2p_adv = i
  BY <1>1, <1>2, <1>3 DEF CreateOrder, Orders, TypeOK
<1> QED
  BY <1>4, NoneAssumption

(* An order the gateway calls. *)
LEMMA CalledOrder ==
  ASSUME Typed, NEW k \in OrderIds, CallOrder(k)
  PROVE  /\ orders'[k] \in Orders
         /\ orders'[k] # None
         /\ orders'[k].p2p_adv = orders[k].p2p_adv
<1> USE DEF Typed
<1> DEFINE o == orders[k]
           limit == advs[o.p2p_adv].terms.timelimit_for_reply
           r == [o EXCEPT !.status = 2]
           s == [r EXCEPT !.time_for_approve = 0]
           t == [s EXCEPT !.time_for_reply = Later(now, limit)]
           u == [t EXCEPT !.limit = limit]
<1>1. o # None
  BY DEF CallOrder
<1>2. o \in Orders /\ o.p2p_adv \in AdvIds
  BY <1>1, OpenOrder DEF Orders
<1>3. advs[o.p2p_adv] \in Adverts
  BY <1>1, <1>2 DEF AdvertsExist, Open, TypeOK
<1>4. limit \in Nat
  BY <1>3, TermsAssumption DEF Adverts
<1>5. now \in Nat /\ now \in 0..MaxTime /\ Later(now, limit) \in Nat
  <2>1. now \in Nat /\ now \in 0..MaxTime
    BY DEF TypeOK
  <2> HIDE DEF limit
  <2> QED
    BY <1>4, <2>1, LaterTime
<1>6. orders'[k] = [u EXCEPT !.since = now] /\ orders'[k].p2p_adv = o.p2p_adv
  BY <1>2 DEF CallOrder, TypeOK, Orders
<1>7. r \in Orders
  BY <1>2 DEF Orders
<1>8. s \in Orders
  BY <1>7, OrderChanged
<1>9. t \in Orders
  BY <1>5, <1>8, OrderChanged
<1>10. u \in Orders
  BY <1>4, <1>9, OrderChanged
<1> HIDE DEF u
<1>11. orders'[k] \in Orders
  BY <1>5, <1>6, <1>10, OrderChanged
<1> QED
  BY <1>6, <1>11, NoneAssumption

(* An order the buyer says it has paid. *)
LEMMA PaidOrder ==
  ASSUME TypeOK, NEW k \in OrderIds, PayOrder(k)
  PROVE  /\ orders'[k] \in Orders
         /\ orders'[k] # None
         /\ orders'[k].p2p_adv = orders[k].p2p_adv
<1> DEFINE o == orders[k]
           r == [o EXCEPT !.status = 3]
<1>1. o \in Orders
  BY OpenOrder DEF PayOrder
<1>2. orders'[k] = [r EXCEPT !.time_for_reply = 0] /\ orders'[k].p2p_adv = o.p2p_adv
  BY <1>1 DEF PayOrder, TypeOK, Orders
<1>3. r \in Orders
  BY <1>1 DEF Orders
<1> HIDE DEF r
<1>4. orders'[k] \in Orders
  BY <1>2, <1>3, OrderChanged
<1> QED
  BY <1>2, <1>4, NoneAssumption

(* An order about which there is a dispute. *)
LEMMA DisputedOrder ==
  ASSUME TypeOK, NEW k \in OrderIds, NEW a \in Accounts, OpenDispute(k, a) \/ ReplyDispute(k, a)
  PROVE  /\ orders'[k] \in Orders
         /\ orders'[k] # None
         /\ orders'[k].p2p_adv = orders[k].p2p_adv
<1> DEFINE o == orders[k]
           r == [o EXCEPT !.status = 4]
<1>1. o \in Orders
  BY OpenOrder DEF OpenDispute, ReplyDispute
<1>2. CASE OpenDispute(k, a)
  <2>1. orders'[k] = [r EXCEPT !.arbitrage_initiator = a] /\ orders'[k].p2p_adv = o.p2p_adv
    BY <1>1, <1>2 DEF OpenDispute, TypeOK, Orders
  <2>2. r \in Orders
    BY <1>1 DEF Orders
  <2> HIDE DEF r
  <2>3. orders'[k] \in Orders
    BY <2>1, <2>2, OrderChanged
  <2> QED
    BY <2>1, <2>3, NoneAssumption
<1>3. CASE ReplyDispute(k, a)
  <2>1. orders'[k] \in Orders /\ orders'[k].p2p_adv = o.p2p_adv
    BY <1>1, <1>3 DEF ReplyDispute, TypeOK, Orders
  <2> QED
    BY <2>1, NoneAssumption
<1> QED
  BY <1>2, <1>3

(* Adverts stay, and an order stays on its advert. *)
LEMMA AdvertsStay ==
  ASSUME Typed, \A i \in AdvIds : advs[i] # None => advs'[i] # None,
         \A k \in OrderIds : orders'[k] # None =>
            orders[k] # None /\ orders'[k].p2p_adv = orders[k].p2p_adv
  PROVE  AdvertsExist'
<1> SUFFICES ASSUME NEW k \in OrderIds, orders'[k] # None
             PROVE  advs'[orders'[k].p2p_adv] # None
  BY DEF AdvertsExist, Open
<1>1. orders[k] \in Orders /\ orders[k].p2p_adv \in AdvIds
  BY OpenOrder DEF Typed, Orders
<1>2. advs[orders[k].p2p_adv] # None
  BY DEF Typed, AdvertsExist, Open
<1> QED
  BY <1>1, <1>2

LEMMA InitTyped == Init => Typed
<1> SUFFICES ASSUME Init PROVE Typed
  OBVIOUS
<1>1. Open = {}
  BY DEF Open, Init
<1>2. TypeOK
  BY AccountAssumption, TimeAssumption, BoundAssumption DEF Init, TypeOK, Stats, OrderIds
<1> QED
  BY <1>1, <1>2 DEF Typed, AdvertsExist

(* Every step keeps the types. *)
LEMMA StepTyped == Typed /\ [Next]_vars => Typed'
<1> SUFFICES ASSUME Typed, [Next]_vars PROVE Typed'
  OBVIOUS
<1> USE DEF Typed
<1>1. ASSUME NEW i \in AdvIds, NEW g \in Gateways, NEW t \in Terms, CreateAdv(i, g, t)
      PROVE  Typed'
  <2>1. advs' \in [AdvIds -> Adverts \cup {None}]
    BY <1>1 DEF CreateAdv, TypeOK, Adverts
  <2>2. AdvertsExist'
    <3>1. [p2p_gateway |-> g, terms |-> t, status |-> 1, black_list |-> {}] \in Adverts
      BY DEF Adverts
    <3> QED
      BY <1>1, <3>1, AdvertsStay, NoneAssumption DEF CreateAdv, TypeOK
  <2> QED
    BY <1>1, <2>1, <2>2 DEF CreateAdv, TypeOK
<1>2. ASSUME NEW i \in AdvIds, NEW t \in Terms, NEW s \in 0..1, EditAdv(i, t, s)
      PROVE  Typed'
  <2>1. advs[i] \in Adverts
    BY <1>2 DEF EditAdv, TypeOK
  <2>2. advs'[i] \in Adverts /\ advs' \in [AdvIds -> Adverts \cup {None}]
    BY <1>2, <2>1 DEF EditAdv, TypeOK, Adverts
  <2>3. AdvertsExist'
    BY <1>2, <2>2, AdvertsStay, NoneAssumption DEF EditAdv, TypeOK
  <2> QED
    BY <1>2, <2>2, <2>3 DEF EditAdv, TypeOK
<1>3. ASSUME NEW i \in AdvIds, ClearBlackList(i)
      PROVE  Typed'
  <2>1. advs[i] \in Adverts
    BY <1>3 DEF ClearBlackList, TypeOK
  <2>2. advs'[i] \in Adverts /\ advs' \in [AdvIds -> Adverts \cup {None}]
    BY <1>3, <2>1 DEF ClearBlackList, TypeOK, Adverts
  <2>3. AdvertsExist'
    BY <1>3, <2>2, AdvertsStay, NoneAssumption DEF ClearBlackList, TypeOK
  <2> QED
    BY <1>3, <2>2, <2>3 DEF ClearBlackList, TypeOK
<1>4. ASSUME NEW i \in AdvIds, NEW a \in Accounts, RemoveFromBlackList(i, a)
      PROVE  Typed'
  <2>1. advs[i] \in Adverts
    BY <1>4 DEF RemoveFromBlackList, TypeOK
  <2>2. advs'[i] \in Adverts /\ advs' \in [AdvIds -> Adverts \cup {None}]
    BY <1>4, <2>1 DEF RemoveFromBlackList, TypeOK, Adverts
  <2>3. AdvertsExist'
    BY <1>4, <2>2, AdvertsStay, NoneAssumption DEF RemoveFromBlackList, TypeOK
  <2> QED
    BY <1>4, <2>2, <2>3 DEF RemoveFromBlackList, TypeOK
<1>5. ASSUME NEW i \in AdvIds, NEW c \in Accounts, NEW x \in Amounts, CreateOrder(i, c, x)
      PROVE  Typed'
  <2> DEFINE sells == advs[i].terms.adv_type
  <2>1. orders'[next] \in Orders /\ next \in OrderIds /\ orders'[next].p2p_adv = i
    BY <1>5, NewOrder
  <2>2. orders' \in [OrderIds -> Orders \cup {None}]
    BY <1>5, <2>1 DEF CreateOrder, TypeOK
  <2>3. next' \in 1..(MaxOrders + 1)
    BY <1>5, BoundAssumption DEF CreateOrder, OrderIds
  <2>4. balance' \in [Accounts -> Nat]
    <3>1. x \in Nat /\ balance[c] \in Nat
      BY AmountAssumption DEF TypeOK
    <3>2. ~sells => balance[c] >= x
      BY <1>5 DEF CreateOrder, CanOrder
    <3>3. CASE sells
      BY <1>5, <3>3 DEF CreateOrder, TypeOK
    <3>4. CASE ~sells
      <4>1. balance' = [balance EXCEPT ![c] = @ - x]
        BY <1>5, <3>4 DEF CreateOrder
      <4>2. balance[c] - x \in Nat
        BY <3>1, <3>2, <3>4
      <4> QED
        BY <4>1, <4>2 DEF TypeOK
    <3> QED
      BY <3>3, <3>4
  <2>5. AdvertsExist'
    <3> SUFFICES ASSUME NEW k \in OrderIds, orders'[k] # None
                 PROVE  advs'[orders'[k].p2p_adv] # None
      BY DEF AdvertsExist, Open
    <3>1. advs' = advs /\ advs[i] # None
      BY <1>5 DEF CreateOrder
    <3>2. CASE k = next
      BY <2>1, <3>1, <3>2
    <3>3. CASE k # next
      <4>1. orders'[k] = orders[k]
        BY <1>5, <3>3 DEF CreateOrder, TypeOK
      <4> QED
        BY <3>1, <4>1 DEF AdvertsExist, Open
    <3> QED
      BY <3>2, <3>3
  <2> QED
    BY <1>5, <2>2, <2>3, <2>4, <2>5 DEF CreateOrder, TypeOK
<1>6. ASSUME NEW k \in OrderIds, NEW b \in BOOLEAN, CancelOrder(k, b)
      PROVE  Typed'
  <2> DEFINE o == orders[k]
  <2>1. o # None
    BY <1>6 DEF CancelOrder
  <2>2. o \in Orders /\ o.p2p_gateway \in Accounts /\ o.p2p_client \in Accounts
        /\ o.amount \in Nat /\ o.p2p_adv \in AdvIds
    BY <2>1, OpenOrder DEF Orders
  <2>3. advs[o.p2p_adv] \in Adverts
    BY <2>1, <2>2 DEF AdvertsExist, Open, TypeOK
  <2>4. advs' \in [AdvIds -> Adverts \cup {None}] /\ \A i \in AdvIds : advs[i] # None => advs'[i] # None
    <3>1. CASE b
      <4>1. advs' = [advs EXCEPT ![o.p2p_adv].black_list = @ \cup {o.p2p_client}]
        BY <1>6, <3>1 DEF CancelOrder
      <4>2. advs'[o.p2p_adv] \in Adverts
        BY <4>1, <2>2, <2>3 DEF TypeOK, Adverts
      <4> QED
        BY <4>1, <4>2, <2>2, NoneAssumption DEF TypeOK
    <3>2. CASE ~b
      BY <1>6, <3>2 DEF CancelOrder, TypeOK
    <3> QED
      BY <3>1, <3>2
  <2>5. orders' \in [OrderIds -> Orders \cup {None}] /\ \A j \in OrderIds : orders'[j] \in {orders[j], None}
    BY <1>6 DEF CancelOrder, TypeOK
  <2>6. balance' \in [Accounts -> Nat]
    BY <1>6, <2>2 DEF CancelOrder, TypeOK
  <2>7. stats' \in [Accounts -> Stats]
    BY <1>6, <2>2 DEF CancelOrder, TypeOK, Stats
  <2>8. AdvertsExist'
    BY <2>4, <2>5, AdvertsStay
  <2> QED
    BY <1>6, <2>4, <2>5, <2>6, <2>7, <2>8 DEF CancelOrder, TypeOK
<1>7. ASSUME NEW k \in OrderIds, CallOrder(k)
      PROVE  Typed'
  <2> DEFINE o == orders[k]
  <2>1. o # None
    BY <1>7 DEF CallOrder
  <2>2. o.p2p_gateway \in Accounts /\ o.amount \in Nat
    BY <2>1, OpenOrder DEF Orders
  <2>3. orders'[k] \in Orders /\ orders'[k].p2p_adv = o.p2p_adv
    BY <1>7, CalledOrder
  <2>4. orders' \in [OrderIds -> Orders \cup {None}]
    BY <1>7, <2>3 DEF CallOrder, TypeOK
  <2>5. balance' \in [Accounts -> Nat]
    <3>1. balance[o.p2p_gateway] \in Nat /\ balance[o.p2p_gateway] >= o.amount
      BY <1>7, <2>2 DEF CallOrder, TypeOK
    <3>2. balance[o.p2p_gateway] - o.amount \in Nat
      BY <2>2, <3>1
    <3> QED
      BY <1>7, <3>2 DEF CallOrder, TypeOK
  <2>6. AdvertsExist'
    BY <1>7, <2>1, <2>3, AdvertsStay DEF CallOrder, TypeOK
  <2> QED
    BY <1>7, <2>4, <2>5, <2>6 DEF CallOrder, TypeOK
<1>8. ASSUME NEW k \in OrderIds, PayOrder(k)
      PROVE  Typed'
  <2>1. orders[k] \in Orders /\ orders[k] # None
    BY <1>8, OpenOrder DEF PayOrder
  <2>2. orders'[k] \in Orders /\ orders'[k].p2p_adv = orders[k].p2p_adv
    BY <1>8, PaidOrder
  <2>3. orders' \in [OrderIds -> Orders \cup {None}]
    BY <1>8, <2>2 DEF PayOrder, TypeOK
  <2>4. AdvertsExist'
    BY <1>8, <2>1, <2>2, AdvertsStay DEF PayOrder, TypeOK
  <2> QED
    BY <1>8, <2>3, <2>4 DEF PayOrder, TypeOK
<1>9. ASSUME NEW k \in OrderIds, ReleaseOrder(k)
      PROVE  Typed'
  <2>1. orders[k] # None
    BY <1>9 DEF ReleaseOrder
  <2>2. /\ Buyer(orders[k]) \in Accounts /\ orders[k].amount \in Nat
        /\ orders[k].p2p_gateway \in Accounts /\ orders[k].p2p_client \in Accounts
    BY <2>1, OpenOrder DEF Orders
  <2>3. orders' \in [OrderIds -> Orders \cup {None}]
    BY <1>9 DEF ReleaseOrder, TypeOK
  <2>4. balance' \in [Accounts -> Nat]
    BY <1>9, <2>2 DEF ReleaseOrder, TypeOK
  <2>5. stats' \in [Accounts -> Stats]
    <3> DEFINE once == Complete(stats, orders[k].p2p_gateway)
    <3>1. stats' = Complete(once, orders[k].p2p_client)
      BY <1>9 DEF ReleaseOrder
    <3>2. once \in [Accounts -> Stats]
      BY <2>2 DEF Complete, TypeOK, Stats
    <3> HIDE DEF once
    <3> QED
      BY <2>2, <3>1, <3>2 DEF Complete, Stats
  <2>6. AdvertsExist'
    BY <1>9, AdvertsStay DEF ReleaseOrder, TypeOK
  <2> QED
    BY <1>9, <2>3, <2>4, <2>5, <2>6 DEF ReleaseOrder, TypeOK
<1>10. ASSUME NEW k \in OrderIds, NEW a \in Accounts, OpenDispute(k, a)
       PROVE  Typed'
  <2>1. orders[k] \in Orders /\ orders[k] # None
    BY <1>10, OpenOrder DEF OpenDispute
  <2>2. orders'[k] \in Orders /\ orders'[k].p2p_adv = orders[k].p2p_adv
    BY <1>10, DisputedOrder
  <2>3. orders' \in [OrderIds -> Orders \cup {None}]
    BY <1>10, <2>2 DEF OpenDispute, TypeOK
  <2>4. AdvertsExist'
    BY <1>10, <2>1, <2>2, AdvertsStay DEF OpenDispute, TypeOK
  <2> QED
    BY <1>10, <2>3, <2>4 DEF OpenDispute, TypeOK
<1>11. ASSUME NEW k \in OrderIds, NEW a \in Accounts, ReplyDispute(k, a)
       PROVE  Typed'
  <2>1. orders[k] \in Orders /\ orders[k] # None
    BY <1>11, OpenOrder DEF ReplyDispute
  <2>2. orders'[k] \in Orders /\ orders'[k].p2p_adv = orders[k].p2p_adv
    BY <1>11, DisputedOrder
  <2>3. orders' \in [OrderIds -> Orders \cup {None}]
    BY <1>11, <2>2 DEF ReplyDispute, TypeOK
  <2>4. AdvertsExist'
    BY <1>11, <2>1, <2>2, AdvertsStay DEF ReplyDispute, TypeOK
  <2> QED
    BY <1>11, <2>3, <2>4 DEF ReplyDispute, TypeOK
<1>12. ASSUME NEW k \in OrderIds, NEW w \in Accounts, NEW a \in Arbitrators,
              ResolveDispute(k, w, a)
       PROVE  Typed'
  <2> DEFINE o == orders[k]
             cut == CutFee(o.amount)
             looser == IF w = o.p2p_gateway THEN o.p2p_client ELSE o.p2p_gateway
  <2>1. o # None
    BY <1>12 DEF ResolveDispute
  <2>2. o.amount \in Nat /\ looser \in Accounts /\ a \in Accounts
    BY <2>1, OpenOrder, AccountAssumption DEF Orders
  <2>3. cut \in Nat /\ o.amount - cut \in Nat
    BY <2>2, CutFeeBounds
  <2>4. orders' \in [OrderIds -> Orders \cup {None}]
    BY <1>12 DEF ResolveDispute, TypeOK
  <2>5. balance' \in [Accounts -> Nat]
    <3>1. balance' = Add(Add(balance, a, cut), w, o.amount - cut)
      BY <1>12 DEF ResolveDispute
    <3>2. Add(balance, a, cut) \in [Accounts -> Nat]
      BY <2>2, <2>3 DEF Add, TypeOK
    <3> HIDE DEF cut, o
    <3> QED
      BY <2>3, <3>1, <3>2 DEF Add
  <2>6. stats' \in [Accounts -> Stats]
    <3> DEFINE won == Complete(stats, w)
    <3>1. stats' = [won EXCEPT ![looser].loose = @ + 1]
      BY <1>12 DEF ResolveDispute
    <3>2. won \in [Accounts -> Stats]
      BY DEF TypeOK, Stats, Complete
    <3> HIDE DEF looser, won
    <3> QED
      BY <2>2, <3>1, <3>2 DEF Stats
  <2>7. AdvertsExist'
    BY <1>12, AdvertsStay DEF ResolveDispute, TypeOK
  <2> QED
    BY <1>12, <2>4, <2>5, <2>6, <2>7 DEF ResolveDispute, TypeOK
<1>13. ASSUME EndOfBlock
       PROVE  Typed'
  <2> DEFINE time == now + 1
             gone == {k \in Open : Late(orders[k], time)}
             refunds(a) == {k \in gone : orders[k].status = 2 /\ Seller(orders[k]) = a}
             faults(a)  == {k \in gone : Blamed(orders[k]) = a}
             amounts == [k \in gone |-> orders[k].amount]
  <2>1. time \in Nat /\ time + BanTime \in Nat /\ now' \in 1..MaxTime
    BY <1>13, TimeAssumption DEF EndOfBlock, TypeOK
  <2>2. IsFiniteSet(gone)
    <3>1. IsFiniteSet(OrderIds)
      BY BoundAssumption, FS_Interval DEF OrderIds
    <3>2. gone \in SUBSET OrderIds
      BY DEF Open
    <3> QED
      BY <3>1, <3>2, FS_Subset
  <2>3. orders' = [k \in OrderIds |-> IF k \in gone THEN None ELSE orders[k]]
    BY <1>13 DEF EndOfBlock, AutoCancel
  <2>4. \A a \in Accounts : SumFunctionOnSet(amounts, refunds(a)) \in Nat
    <3> TAKE a \in Accounts
    <3>1. refunds(a) \in SUBSET gone /\ IsFiniteSet(refunds(a))
      BY <2>2, FS_Subset
    <3>2. \A k \in refunds(a) : amounts[k] \in Nat
      BY <3>1, OpenOrder DEF Open
    <3> HIDE DEF refunds, amounts
    <3> QED
      BY <3>1, <3>2, SumNat
  <2>5. balance' \in [Accounts -> Nat]
    <3>1. balance' = [a \in Accounts |-> balance[a] + SumFunctionOnSet(amounts, refunds(a))]
      BY <1>13 DEF EndOfBlock, AutoCancel
    <3> HIDE DEF refunds, amounts
    <3> QED
      BY <2>4, <3>1 DEF TypeOK
  <2>6. \A a \in Accounts : Cardinality(faults(a)) \in Nat
    <3> TAKE a \in Accounts
    <3>1. faults(a) \in SUBSET gone /\ IsFiniteSet(faults(a))
      BY <2>2, FS_Subset
    <3> QED
      BY <3>1, FS_CardinalityType
  <2>7. stats' \in [Accounts -> Stats]
    <3> DEFINE banned(a)  == \E k \in faults(a) : orders[k].status = 2 /\ orders[k].order_type
    <3>1. stats' = [a \in Accounts |->
                      [stats[a] EXCEPT !.canceled = @ + Cardinality(faults(a)),
                                       !.banned = IF banned(a) THEN time + BanTime ELSE @]]
      BY <1>13 DEF EndOfBlock, AutoCancel
    <3> HIDE DEF faults, banned, time
    <3>2. ASSUME NEW a \in Accounts PROVE stats'[a] \in Stats
      <4> DEFINE x == Cardinality(faults(a))
                 y == IF banned(a) THEN time + BanTime ELSE stats[a].banned
                 r == stats[a]
                 t == [r EXCEPT !.canceled = @ + x]
      <4>1. stats'[a] = [t EXCEPT !.banned = y]
        BY <3>1 DEF TypeOK, Stats
      <4>2. r \in Stats /\ x \in Nat
        BY <2>6 DEF TypeOK
      <4>3. y \in Nat
        BY <2>1, <4>2 DEF Stats
      <4>4. t \in Stats
        <5> HIDE DEF x, r
        <5> QED
          BY <4>2 DEF Stats
      <4> HIDE DEF t, y
      <4> QED
        BY <4>1, <4>3, <4>4 DEF Stats
    <3> QED
      BY <3>1, <3>2
  <2>8. orders' \in [OrderIds -> Orders \cup {None}]
    BY <2>3 DEF TypeOK
  <2>9. AdvertsExist'
    BY <1>13, <2>3, AdvertsStay DEF EndOfBlock
  <2> QED
    BY <1>13, <2>1, <2>5, <2>7, <2>8, <2>9 DEF EndOfBlock, TypeOK
<1>14. CASE UNCHANGED vars
  BY <1>14 DEF vars, TypeOK, AdvertsExist, Open
<1> QED
  BY <1>1, <1>2, <1>3, <1>4, <1>5, <1>6, <1>7, <1>8, <1>9, <1>10, <1>11, <1>12, <1>13, <1>14
  DEF Next

(* What every variable holds, in every reachable state: balances never go   *)
(* negative, whatever orders are called, canceled, released or resolved.    *)
THEOREM TypeCorrect == Spec => []TypeOK
<1>1. Typed => TypeOK
  BY DEF Typed
<1> QED
  BY <1>1, InitTyped, StepTyped, PTL DEF Spec

-----------------------------------------------------------------------------
(* Only the end of a block moves the time. *)
LEMMA OnlyBlocksMoveTime ==
  ASSUME [Next]_vars, now' # now
  PROVE  EndOfBlock
  BY DEF Next, vars, CreateAdv, EditAdv, ClearBlackList, RemoveFromBlackList, CreateOrder,
         CancelOrder, CallOrder, PayOrder, ReleaseOrder, OpenDispute, ReplyDispute, ResolveDispute

(* The end of a block drops exactly the late orders. *)
LEMMA BlockDropsLate ==
  ASSUME EndOfBlock, NEW k \in Open, orders'[k] = None
  PROVE  Late(orders[k], now')
  BY DEF EndOfBlock, AutoCancel, Open

(* Once the buyer has said that it paid, the clock never gives the escrow   *)
(* back to the seller.                                                      *)
THEOREM PaidOrdersAreSafe == Spec => PaidOrderOutlivesClock
<1>1. ASSUME Typed, [Next]_vars, NEW k \in Open, orders[k].status >= 3, orders'[k] = None
      PROVE  now' = now
  <2> SUFFICES ASSUME now' # now PROVE FALSE
    OBVIOUS
  <2>1. Late(orders[k], now')
    BY <1>1, OnlyBlocksMoveTime, BlockDropsLate
  <2> QED
    BY <1>1, <2>1 DEF Late
<1> DEFINE A == \A k \in Open : orders[k].status >= 3 /\ orders'[k] = None => now' = now
<1>2. Typed /\ [Next]_vars => [A]_vars
  BY <1>1
<1>3. PaidOrderOutlivesClock <=> [][A]_vars
  BY PTL DEF PaidOrderOutlivesClock
<1> HIDE DEF A
<1> QED
  BY <1>2, <1>3, InitTyped, StepTyped, PTL DEF Spec

(* Every step keeps the deadlines what the time limits make them. *)
LEMMA StepDeadlines == Typed /\ DeadlinesSet /\ [Next]_vars => DeadlinesSet'
<1> SUFFICES ASSUME Typed, DeadlinesSet, [Next]_vars PROVE DeadlinesSet'
  OBVIOUS
<1> USE DEF Typed
<1> DEFINE Set(o) == /\ o.status = 1 => o.time_for_approve = Later(o.since, o.limit)
                     /\ o.status = 2 => o.time_for_reply = Later(o.since, o.limit)
<1>0. SUFFICES ASSUME NEW j \in OrderIds, orders'[j] # None PROVE Set(orders'[j])
  BY DEF DeadlinesSet, Open
<1>a. orders[j] # None => Set(orders[j])
  BY DEF DeadlinesSet, Open
<1> HIDE DEF Set
<1>b. ASSUME orders'[j] = orders[j] PROVE Set(orders'[j])
  BY <1>0, <1>a, <1>b
<1>1. ASSUME NEW i \in AdvIds, NEW g \in Gateways, NEW t \in Terms, CreateAdv(i, g, t)
      PROVE  Set(orders'[j])
  BY <1>1, <1>b DEF CreateAdv
<1>2. ASSUME NEW i \in AdvIds, NEW t \in Terms, NEW s \in 0..1, EditAdv(i, t, s)
      PROVE  Set(orders'[j])
  BY <1>2, <1>b DEF EditAdv
<1>3. ASSUME NEW i \in AdvIds, ClearBlackList(i)
      PROVE  Set(orders'[j])
  BY <1>3, <1>b DEF ClearBlackList
<1>4. ASSUME NEW i \in AdvIds, NEW a \in Accounts, RemoveFromBlackList(i, a)
      PROVE  Set(orders'[j])
  BY <1>4, <1>b DEF RemoveFromBlackList
<1>5. ASSUME NEW i \in AdvIds, NEW c \in Accounts, NEW x \in Amounts, CreateOrder(i, c, x)
      PROVE  Set(orders'[j])
  <2>1. CASE j = next
    BY <1>5, <2>1 DEF CreateOrder, TypeOK, Set
  <2>2. CASE j # next
    BY <1>5, <2>2, <1>b DEF CreateOrder, TypeOK
  <2> QED
    BY <2>1, <2>2
<1>6. ASSUME NEW k \in OrderIds, NEW b \in BOOLEAN, CancelOrder(k, b)
      PROVE  Set(orders'[j])
  BY <1>6, <1>0, <1>b DEF CancelOrder, TypeOK
<1>7. ASSUME NEW k \in OrderIds, CallOrder(k)
      PROVE  Set(orders'[j])
  <2>1. CASE j = k
    <3>1. orders[k] \in Orders
      BY <1>7, OpenOrder DEF CallOrder
    <3> QED
      BY <1>7, <2>1, <3>1, SMTT(30) DEF CallOrder, TypeOK, Orders, Set
  <2>2. CASE j # k
    BY <1>7, <2>2, <1>b DEF CallOrder, TypeOK
  <2> QED
    BY <2>1, <2>2
<1>8. ASSUME NEW k \in OrderIds, PayOrder(k)
      PROVE  Set(orders'[j])
  <2>1. CASE j = k
    <3>1. orders[k] \in Orders
      BY <1>8, OpenOrder DEF PayOrder
    <3> QED
      BY <1>8, <2>1, <3>1 DEF PayOrder, TypeOK, Orders, Set
  <2>2. CASE j # k
    BY <1>8, <2>2, <1>b DEF PayOrder, TypeOK
  <2> QED
    BY <2>1, <2>2
<1>9. ASSUME NEW k \in OrderIds, ReleaseOrder(k)
      PROVE  Set(orders'[j])
  BY <1>9, <1>0, <1>b DEF ReleaseOrder, TypeOK
<1>10. ASSUME NEW k \in OrderIds, NEW a \in Accounts, OpenDispute(k, a)
       PROVE  Set(orders'[j])
  <2>1. CASE j = k
    <3>1. orders[k] \in Orders
      BY <1>10, OpenOrder DEF OpenDispute
    <3> QED
      BY <1>10, <2>1, <3>1 DEF OpenDispute, TypeOK, Orders, Set
  <2>2. CASE j # k
    BY <1>10, <2>2, <1>b DEF OpenDispute, TypeOK
  <2> QED
    BY <2>1, <2>2
<1>11. ASSUME NEW k \in OrderIds, NEW a \in Accounts, ReplyDispute(k, a)
       PROVE  Set(orders'[j])
  <2>1. CASE j = k
    <3>1. orders[k] \in Orders
      BY <1>11, OpenOrder DEF ReplyDispute
    <3> QED
      BY <1>11, <2>1, <3>1 DEF ReplyDispute, TypeOK, Orders, Set
  <2>2. CASE j # k
    BY <1>11, <2>2, <1>b DEF ReplyDispute, TypeOK
  <2> QED
    BY <2>1, <2>2
<1>12. ASSUME NEW k \in OrderIds, NEW w \in Accounts, NEW a \in Arbitrators,
              ResolveDispute(k, w, a)
       PROVE  Set(orders'[j])
  BY <1>12, <1>0, <1>b DEF ResolveDispute, TypeOK
<1>13. ASSUME EndOfBlock
       PROVE  Set(orders'[j])
  BY <1>13, <1>0, <1>b DEF EndOfBlock, AutoCancel
<1>14. CASE UNCHANGED vars
  BY <1>14, <1>b DEF vars
<1> QED
  BY <1>1, <1>2, <1>3, <1>4, <1>5, <1>6, <1>7, <1>8, <1>9, <1>10, <1>11, <1>12, <1>13, <1>14
  DEF Next

(* The clock drops an order only when the time limit it was opened or       *)
(* called with has passed, whatever became of the advert since.             *)
THEOREM DroppedOnlyLate == Spec => NotCanceledEarly
<1>1. Init => DeadlinesSet
  BY DEF Init, DeadlinesSet, Open
<1>2. ASSUME Typed, DeadlinesSet, [Next]_vars, NEW k \in Open, orders'[k] = None, now' # now
      PROVE  LET o == orders[k]
             IN  o.since + o.limit < now' \/ o.since + o.limit >= TimeWidth
  <2> DEFINE o == orders[k]
  <2>1. o \in Orders /\ o.since \in Nat /\ o.limit \in Nat
    BY <1>2, OpenOrder DEF Typed, Open, Orders
  <2>2. Late(o, now')
    BY <1>2, OnlyBlocksMoveTime, BlockDropsLate
  <2>3. Later(o.since, o.limit) < now'
    BY <1>2, <2>2 DEF Late, DeadlinesSet
  <2>4. o.since + o.limit < TimeWidth => Later(o.since, o.limit) = o.since + o.limit
    BY <2>1, LaterTime
  <2>5. o.since + o.limit \in Nat /\ TimeWidth \in Nat
    BY <2>1, TimeAssumption
  <2> HIDE DEF o
  <2>6. o.since + o.limit < now' \/ o.since + o.limit >= TimeWidth
    BY <2>3, <2>4, <2>5
  <2> QED
    BY <2>6 DEF o
<1> DEFINE A == \A k \in Open :
                  orders'[k] = None /\ now' # now =>
                      LET o == orders[k]
                      IN  o.since + o.limit < now' \/ o.since + o.limit >= TimeWidth
<1>3. Typed /\ DeadlinesSet /\ [Next]_vars => [A]_vars
  BY <1>2
<1>4. NotCanceledEarly <=> [][A]_vars
  BY PTL DEF NotCanceledEarly
<1> HIDE DEF A
<1> QED
  BY <1>1, <1>3, <1>4, InitTyped, StepTyped, StepDeadlines, PTL DEF Spec

-----------------------------------------------------------------------------
(* Orders are created at the next id, and only there. *)
LEMMA StepFresh == Typed /\ FreshIds /\ [Next]_vars => FreshIds'
<1> SUFFICES ASSUME Typed, FreshIds, [Next]_vars, NEW j \in OrderIds, j >= next'
             PROVE  orders'[j] = None
  BY DEF FreshIds
<1> USE DEF Typed
<1>0. j \in Nat /\ next \in Nat
  BY DEF OrderIds, TypeOK
<1>1. ASSUME NEW i \in AdvIds, NEW c \in Accounts, NEW x \in Amounts, CreateOrder(i, c, x)
      PROVE  orders'[j] = None
  BY <1>0, <1>1 DEF CreateOrder, FreshIds, TypeOK
<1>2. ASSUME next' = next, orders[j] = None => orders'[j] = None
      PROVE  orders'[j] = None
  BY <1>2 DEF FreshIds
<1>3. ASSUME NEW k \in OrderIds, NEW b \in BOOLEAN, CancelOrder(k, b)
      PROVE  orders'[j] = None
  BY <1>2, <1>3 DEF CancelOrder, TypeOK
<1>4. ASSUME NEW k \in OrderIds, CallOrder(k) \/ PayOrder(k) \/ ReleaseOrder(k)
      PROVE  orders'[j] = None
  BY <1>2, <1>4 DEF CallOrder, PayOrder, ReleaseOrder, TypeOK
<1>5. ASSUME NEW k \in OrderIds, NEW a \in Accounts, OpenDispute(k, a) \/ ReplyDispute(k, a)
      PROVE  orders'[j] = None
  BY <1>2, <1>5 DEF OpenDispute, ReplyDispute, TypeOK
<1>6. ASSUME NEW k \in OrderIds, NEW w \in Accounts, NEW a \in Arbitrators,
             ResolveDispute(k, w, a)
      PROVE  orders'[j] = None
  BY <1>2, <1>6 DEF ResolveDispute, TypeOK
<1>7. ASSUME EndOfBlock
      PROVE  orders'[j] = None
  BY <1>2, <1>7 DEF EndOfBlock, AutoCancel
<1>8. ASSUME UNCHANGED <<orders, next>>
      PROVE  orders'[j] = None
  BY <1>2, <1>8
<1> QED
  BY <1>1, <1>3, <1>4, <1>5, <1>6, <1>7, <1>8
  DEF Next, vars, CreateAdv, EditAdv, ClearBlackList, RemoveFromBlackList

(* No step gives an order of a buying gateway the first status. *)
LEMMA StepCalled == Typed /\ CalledBySeller /\ [Next]_vars => CalledBySeller'
<1> SUFFICES ASSUME Typed, CalledBySeller, [Next]_vars,
                    NEW j \in OrderIds, orders'[j] # None, orders'[j].status = 1
             PROVE  orders'[j].order_type
  BY DEF CalledBySeller, Open
<1> USE DEF Typed
<1>0. ASSUME orders'[j] = orders[j] PROVE orders'[j].order_type
  BY <1>0 DEF CalledBySeller, Open
<1>1. ASSUME NEW i \in AdvIds, NEW c \in Accounts, NEW x \in Amounts, CreateOrder(i, c, x)
      PROVE  orders'[j].order_type
  BY <1>0, <1>1 DEF CreateOrder, TypeOK
<1>2. ASSUME NEW k \in OrderIds, NEW b \in BOOLEAN, CancelOrder(k, b)
      PROVE  orders'[j].order_type
  BY <1>0, <1>2 DEF CancelOrder, TypeOK
<1>3. ASSUME NEW k \in OrderIds, CallOrder(k) \/ PayOrder(k) \/ ReleaseOrder(k)
      PROVE  orders'[j].order_type
  <2>1. orders[k] \in Orders
    BY <1>3, OpenOrder DEF CallOrder, PayOrder, ReleaseOrder
  <2> QED
    BY <1>0, <1>3, <2>1 DEF CallOrder, PayOrder, ReleaseOrder, TypeOK, Orders
<1>4. ASSUME NEW k \in OrderIds, NEW a \in Accounts, OpenDispute(k, a) \/ ReplyDispute(k, a)
      PROVE  orders'[j].order_type
  <2>1. orders[k] \in Orders
    BY <1>4, OpenOrder DEF OpenDispute, ReplyDispute
  <2> QED
    BY <1>0, <1>4, <2>1 DEF OpenDispute, ReplyDispute, TypeOK, Orders
<1>5. ASSUME NEW k \in OrderIds, NEW w \in Accounts, NEW a \in Arbitrators,
             ResolveDispute(k, w, a)
      PROVE  orders'[j].order_type
  BY <1>0, <1>5 DEF ResolveDispute, TypeOK
<1>6. ASSUME EndOfBlock
      PROVE  orders'[j].order_type
  BY <1>0, <1>6 DEF EndOfBlock, AutoCancel
<1>7. ASSUME UNCHANGED orders
      PROVE  orders'[j].order_type
  BY <1>0, <1>7
<1> QED
  BY <1>1, <1>2, <1>3, <1>4, <1>5, <1>6, <1>7
  DEF Next, vars, CreateAdv, EditAdv, ClearBlackList, RemoveFromBlackList

(* One account's balance changes. *)
LEMMA HeldChange ==
  ASSUME NEW b \in [Accounts -> Int], NEW a \in Accounts, NEW x \in Int
  PROVE  SumFunctionOnSet([b EXCEPT ![a] = @ + x], Accounts) = SumFunctionOnSet(b, Accounts) + x
<1> DEFINE c == [b EXCEPT ![a] = @ + x]
<1>1. c[a] = b[a] + x /\ (b[a] + x) - b[a] = x /\ b[a] \in Int
  OBVIOUS
<1>2. \A y \in Accounts \ {a} : c[y] = b[y]
  OBVIOUS
<1>3. SumFunctionOnSet(c, Accounts) = SumFunctionOnSet(b, Accounts) + (c[a] - b[a])
  <2> HIDE DEF c
  <2>1. c[a] \in Int
    BY <1>1
  <2> QED
    BY <1>2, <2>1, AccountAssumption, SumChange
<1> HIDE DEF c
<1> QED
  BY <1>1, <1>3 DEF c

(* One order changes what it holds in escrow. *)
LEMMA EscrowedChange ==
  ASSUME TypeOK, TypeOK', NEW k \in OrderIds, \A j \in OrderIds \ {k} : orders'[j] = orders[j]
  PROVE  /\ Escrow(orders[k]) \in Nat /\ Escrow(orders'[k]) \in Nat
         /\ Escrowed \in Nat /\ Escrowed' \in Nat
         /\ Escrowed' = Escrowed + (Escrow(orders'[k]) - Escrow(orders[k]))
<1> DEFINE f == [j \in OrderIds |-> Escrow(orders[j])]
           g == [j \in OrderIds |-> Escrow(orders'[j])]
<1>1. ASSUME NEW j \in OrderIds PROVE f[j] \in Nat /\ g[j] \in Nat
  <2>1. orders[j] # None => orders[j].amount \in Nat
    BY OpenOrder
  <2>2. orders'[j] # None => orders'[j].amount \in Nat
    BY AmountAssumption DEF TypeOK, Orders
  <2> QED
    BY <2>1, <2>2 DEF Escrow
<1>2. \A j \in OrderIds \ {k} : g[j] = f[j]
  OBVIOUS
<1>3. IsFiniteSet(OrderIds)
  BY BoundAssumption, FS_Interval DEF OrderIds
<1>4. Escrowed = SumFunctionOnSet(f, OrderIds) /\ Escrowed' = SumFunctionOnSet(g, OrderIds)
  BY DEF Escrowed
<1>5. f[k] = Escrow(orders[k]) /\ g[k] = Escrow(orders'[k])
  OBVIOUS
<1> HIDE DEF f, g
<1>6. SumFunctionOnSet(g, OrderIds) = SumFunctionOnSet(f, OrderIds) + (g[k] - f[k])
  <2>1. \A j \in OrderIds : f[j] \in Int
    BY <1>1
  <2>2. g[k] \in Int
    BY <1>1
  <2> QED
    BY <1>2, <1>3, <2>1, <2>2, SumChange
<1>7. SumFunctionOnSet(f, OrderIds) \in Nat /\ SumFunctionOnSet(g, OrderIds) \in Nat
  BY <1>1, <1>3, SumNat
<1> QED
  BY <1>1, <1>4, <1>5, <1>6, <1>7

(* The end of a block: what the dropped orders held goes to their sellers. *)
LEMMA BlockConserves ==
  ASSUME TypeOK, CalledBySeller, EndOfBlock
  PROVE  Held' + Escrowed' = Held + Escrowed
<1> DEFINE time == now + 1
           gone == {k \in Open : Late(orders[k], time)}
           paid == {k \in gone : orders[k].status = 2}
           to == [k \in gone |-> Seller(orders[k])]
           amounts == [k \in gone |-> orders[k].amount]
           refund == [a \in Accounts |-> SumFunctionOnSet(amounts, {k \in paid : to[k] = a})]
           f == [k \in OrderIds |-> Escrow(orders[k])]
           g == [k \in OrderIds |-> Escrow(orders'[k])]
           h == [k \in OrderIds |-> IF k \in paid THEN orders[k].amount ELSE 0]
<1>1. IsFiniteSet(OrderIds) /\ IsFiniteSet(Accounts)
  BY BoundAssumption, AccountAssumption, FS_Interval DEF OrderIds
<1>2. paid \in SUBSET OrderIds /\ IsFiniteSet(paid)
  BY <1>1, FS_Subset DEF Open
<1>3. \A k \in paid : to[k] \in Accounts /\ amounts[k] \in Int /\ amounts[k] = h[k]
  BY OpenOrder DEF Open
<1>4. SumFunctionOnSet(refund, Accounts) = SumFunctionOnSet(amounts, paid)
  <2> DEFINE group == [a \in Accounts |-> {k \in paid : to[k] = a}]
  <2>1. \A a \in Accounts : group[a] \in SUBSET paid
    OBVIOUS
  <2>2. \A k \in paid : to[k] \in Accounts /\ \A a \in Accounts : k \in group[a] <=> to[k] = a
    BY <1>3
  <2>3. \A a \in Accounts : refund[a] = SumFunctionOnSet(amounts, group[a])
    OBVIOUS
  <2>4. \A k \in paid : amounts[k] \in Int
    BY <1>3
  <2> HIDE DEF paid, to, amounts, refund, group
  <2> QED
    BY <1>1, <1>2, <2>1, <2>2, <2>3, <2>4, SumGroups
<1>5. \A a \in Accounts : balance'[a] = balance[a] + refund[a]
  <2> TAKE a \in Accounts
  <2> DEFINE refunds == {k \in gone : orders[k].status = 2 /\ Seller(orders[k]) = a}
  <2>1. balance'[a] = balance[a] + SumFunctionOnSet(amounts, refunds)
    BY DEF EndOfBlock, AutoCancel
  <2>2. refunds = {k \in paid : to[k] = a}
    OBVIOUS
  <2> QED
    BY <2>1, <2>2
<1>6. \A a \in Accounts : balance[a] \in Int /\ refund[a] \in Int
  <2> TAKE a \in Accounts
  <2> DEFINE part == {k \in paid : to[k] = a}
  <2>1. IsFiniteSet(part) /\ part \in SUBSET paid
    BY <1>2, FS_Subset
  <2>2. SumFunctionOnSet(amounts, part) \in Int
    <3> HIDE DEF amounts, paid
    <3> QED
      BY <1>3, <2>1, SumInt
  <2> QED
    BY <2>2 DEF TypeOK
<1>7. Held' = Held + SumFunctionOnSet(refund, Accounts)
  <2> HIDE DEF refund
  <2> QED
    BY <1>1, <1>5, <1>6, SumPlus DEF Held
<1>8. ASSUME NEW k \in OrderIds
      PROVE  g[k] \in Int /\ h[k] \in Int /\ f[k] = g[k] + h[k]
  <2>1. orders[k] # None => orders[k].amount \in Nat
    BY OpenOrder
  <2>2. orders'[k] = IF k \in gone THEN None ELSE orders[k]
    BY DEF EndOfBlock, AutoCancel
  <2>3. CASE k \in gone
    <3>1. orders[k] # None /\ Late(orders[k], time) /\ orders'[k] = None
      BY <2>2, <2>3 DEF Open
    <3>2. orders[k].status = 1 => orders[k].order_type
      BY <2>3 DEF CalledBySeller
    <3> QED
      BY <2>1, <2>3, <3>1, <3>2 DEF Escrow, Late
  <2>4. CASE k \notin gone
    BY <2>1, <2>2, <2>4 DEF Escrow
  <2> QED
    BY <2>3, <2>4
<1>9. Escrowed = Escrowed' + SumFunctionOnSet(h, OrderIds)
  <2>1. Escrowed = SumFunctionOnSet(f, OrderIds) /\ Escrowed' = SumFunctionOnSet(g, OrderIds)
    BY DEF Escrowed
  <2> HIDE DEF f, g, h
  <2> QED
    BY <1>1, <1>8, <2>1, SumPlus
<1>10. SumFunctionOnSet(h, OrderIds) = SumFunctionOnSet(amounts, paid)
  <2>1. \A k \in OrderIds \ paid : h[k] = 0
    OBVIOUS
  <2>2. SumFunctionOnSet(h, OrderIds) = SumFunctionOnSet(h, paid)
    <3> HIDE DEF h, paid
    <3> QED
      BY <1>1, <1>2, <1>8, <2>1, SumPart
  <2>3. SumFunctionOnSet(amounts, paid) = SumFunctionOnSet(h, paid)
    <3> HIDE DEF h, paid, amounts
    <3> QED
      BY <1>2, <1>3, SumEqual
  <2> QED
    BY <2>2, <2>3
<1>11. Held \in Int /\ Escrowed' \in Int /\ SumFunctionOnSet(amounts, paid) \in Int
  <2>1. Held \in Int
    BY <1>1, <1>6, SumInt DEF Held
  <2>2. Escrowed' \in Int
    <3>1. Escrowed' = SumFunctionOnSet(g, OrderIds)
      BY DEF Escrowed
    <3> HIDE DEF g
    <3> QED
      BY <1>1, <1>8, <3>1, SumInt
  <2>3. SumFunctionOnSet(amounts, paid) \in Int
    <3> HIDE DEF amounts, paid
    <3> QED
      BY <1>2, <1>3, SumInt
  <2> QED
    BY <2>1, <2>2, <2>3
<1> HIDE DEF amounts, paid, h, refund
<1> QED
  BY <1>4, <1>7, <1>9, <1>10, <1>11

(* No step makes or loses any CWD. *)
LEMMA StepConserves ==
  ASSUME Typed, Typed', FreshIds, CalledBySeller, [Next]_vars
  PROVE  Held' + Escrowed' = Held + Escrowed
<1> USE DEF Typed
<1>a. balance \in [Accounts -> Int] /\ Held \in Int
  <2>1. balance \in [Accounts -> Int]
    BY DEF TypeOK
  <2> QED
    BY <2>1, AccountAssumption, SumInt DEF Held
<1>b. ASSUME UNCHANGED <<orders, balance>> PROVE Held' + Escrowed' = Held + Escrowed
  BY <1>b DEF Held, Escrowed
<1>c. ASSUME NEW k \in OrderIds, \A j \in OrderIds \ {k} : orders'[j] = orders[j],
             NEW a \in Accounts, NEW x \in Int, balance' = [balance EXCEPT ![a] = @ + x],
             Escrow(orders'[k]) + x = Escrow(orders[k])
      PROVE  Held' + Escrowed' = Held + Escrowed
  <2>1. Held' = Held + x
    BY <1>a, <1>c, HeldChange DEF Held
  <2>2. /\ Escrow(orders[k]) \in Nat /\ Escrow(orders'[k]) \in Nat /\ Escrowed \in Nat
        /\ Escrowed' = Escrowed + (Escrow(orders'[k]) - Escrow(orders[k]))
    BY <1>c, EscrowedChange
  <2> QED
    BY <1>a, <1>c, <2>1, <2>2
<1>d. ASSUME NEW k \in OrderIds, \A j \in OrderIds \ {k} : orders'[j] = orders[j],
             balance' = balance, Escrow(orders'[k]) = Escrow(orders[k])
      PROVE  Held' + Escrowed' = Held + Escrowed
  <2>1. /\ Escrow(orders[k]) \in Nat /\ Escrow(orders'[k]) \in Nat /\ Escrowed \in Nat
        /\ Escrowed' = Escrowed + (Escrow(orders'[k]) - Escrow(orders[k]))
    BY <1>d, EscrowedChange
  <2> QED
    BY <1>a, <1>d, <2>1 DEF Held
<1>1. ASSUME NEW i \in AdvIds, NEW c \in Accounts, NEW x \in Amounts, CreateOrder(i, c, x)
      PROVE  Held' + Escrowed' = Held + Escrowed
  <2> DEFINE sells == advs[i].terms.adv_type
  <2>1. next \in OrderIds /\ orders[next] = None /\ orders'[next] \in Orders \cup {None}
    <3>1. next \in OrderIds
      BY <1>1 DEF CreateOrder
    <3>2. next >= next
      BY <3>1 DEF OrderIds
    <3> QED
      BY <3>1, <3>2 DEF FreshIds, TypeOK
  <2>2. \A j \in OrderIds \ {next} : orders'[j] = orders[j]
    BY <1>1 DEF CreateOrder, TypeOK
  <2>3. /\ orders'[next].order_type = sells
        /\ orders'[next].status = IF sells THEN 1 ELSE 2
        /\ orders'[next].amount = x
    BY <1>1, <2>1 DEF CreateOrder, TypeOK
  <2>4. orders'[next] # None
    BY <1>1, NewOrder
  <2>5. x \in Nat /\ x \in Int /\ -x \in Int /\ x + (-x) = 0
    BY AmountAssumption
  <2>6. Escrow(orders[next]) = 0
    BY <2>1 DEF Escrow
  <2>7. CASE sells
    <3>1. Escrow(orders'[next]) = 0 /\ balance' = balance
      BY <1>1, <2>3, <2>7 DEF CreateOrder, Escrow
    <3> QED
      BY <1>d, <2>1, <2>2, <2>6, <3>1
  <2>8. CASE ~sells
    <3>1. Escrow(orders'[next]) = x
      BY <2>3, <2>4, <2>8 DEF Escrow
    <3>2. balance' = [balance EXCEPT ![c] = @ + (-x)]
      <4>1. balance' = [balance EXCEPT ![c] = @ - x]
        BY <1>1, <2>8 DEF CreateOrder
      <4>2. balance[c] - x = balance[c] + (-x)
        BY <1>a, <2>5
      <4> QED
        BY <4>1, <4>2
    <3> QED
      BY <1>c, <2>1, <2>2, <2>5, <2>6, <3>1, <3>2
  <2> QED
    BY <2>7, <2>8
<1>2. ASSUME NEW k \in OrderIds, NEW b \in BOOLEAN, CancelOrder(k, b)
      PROVE  Held' + Escrowed' = Held + Escrowed
  <2> DEFINE o == orders[k]
  <2>1. o # None /\ o.p2p_client \in Accounts /\ o.amount \in Nat
    BY <1>2, OpenOrder DEF CancelOrder, Orders
  <2>2. \A j \in OrderIds \ {k} : orders'[j] = orders[j]
    BY <1>2 DEF CancelOrder, TypeOK
  <2>3. Escrow(orders'[k]) = 0
    BY <1>2 DEF CancelOrder, TypeOK, Escrow
  <2>4. CASE o.order_type
    <3>1. Escrow(o) = 0 /\ balance' = balance
      BY <1>2, <2>4 DEF CancelOrder, Escrow
    <3> QED
      BY <1>d, <2>2, <2>3, <3>1
  <2>5. CASE ~o.order_type
    <3>1. Escrow(o) = o.amount /\ balance' = [balance EXCEPT ![o.p2p_client] = @ + o.amount]
      BY <1>2, <2>1, <2>5 DEF CancelOrder, Escrow
    <3>2. o.amount \in Int /\ 0 + o.amount = o.amount
      BY <2>1
    <3> QED
      BY <1>c, <2>1, <2>2, <2>3, <3>1, <3>2
  <2> QED
    BY <2>4, <2>5
<1>3. ASSUME NEW k \in OrderIds, CallOrder(k)
      PROVE  Held' + Escrowed' = Held + Escrowed
  <2> DEFINE o == orders[k]
             x == -o.amount
  <2>1. o # None /\ o \in Orders /\ o.p2p_gateway \in Accounts /\ o.amount \in Nat
    BY <1>3, OpenOrder DEF CallOrder, Orders
  <2>2. \A j \in OrderIds \ {k} : orders'[j] = orders[j]
    BY <1>3 DEF CallOrder, TypeOK
  <2>3. Escrow(o) = 0
    BY <1>3 DEF CallOrder, Escrow
  <2>4. Escrow(orders'[k]) = o.amount
    <3>1. orders'[k].status = 2 /\ orders'[k].amount = o.amount
      BY <1>3, <2>1 DEF CallOrder, TypeOK, Orders
    <3>2. orders'[k] # None
      BY <1>3, CalledOrder
    <3> QED
      BY <3>1, <3>2 DEF Escrow
  <2>5. x \in Int /\ o.amount + x = 0
    BY <2>1
  <2>6. balance' = [balance EXCEPT ![o.p2p_gateway] = @ + x]
    <3>1. balance' = [balance EXCEPT ![o.p2p_gateway] = @ - o.amount]
      BY <1>3 DEF CallOrder
    <3>2. balance[o.p2p_gateway] - o.amount = balance[o.p2p_gateway] + x
      BY <1>a, <2>1
    <3> QED
      BY <3>1, <3>2
  <2>7. Escrow(orders'[k]) + x = Escrow(orders[k])
    BY <2>3, <2>4, <2>5
  <2> HIDE DEF x
  <2> QED
    BY <1>c, <2>1, <2>2, <2>5, <2>6, <2>7
<1>4. ASSUME NEW k \in OrderIds, PayOrder(k)
      PROVE  Held' + Escrowed' = Held + Escrowed
  <2>1. orders[k] \in Orders /\ orders[k] # None
    BY <1>4, OpenOrder DEF PayOrder
  <2>2. \A j \in OrderIds \ {k} : orders'[j] = orders[j]
    BY <1>4 DEF PayOrder, TypeOK
  <2>3. orders'[k].status = 3 /\ orders'[k].amount = orders[k].amount
    BY <1>4, <2>1 DEF PayOrder, TypeOK, Orders
  <2>4. orders'[k] # None
    BY <1>4, PaidOrder
  <2>5. Escrow(orders'[k]) = Escrow(orders[k])
    BY <1>4, <2>1, <2>3, <2>4 DEF Escrow, PayOrder
  <2> QED
    BY <1>4, <1>d, <2>2, <2>5 DEF PayOrder
<1>5. ASSUME NEW k \in OrderIds, ReleaseOrder(k)
      PROVE  Held' + Escrowed' = Held + Escrowed
  <2> DEFINE o == orders[k]
  <2>1. o # None /\ Buyer(o) \in Accounts /\ o.amount \in Nat /\ o.status \in 1..5
    BY <1>5, OpenOrder DEF ReleaseOrder, Orders
  <2>2. \A j \in OrderIds \ {k} : orders'[j] = orders[j]
    BY <1>5 DEF ReleaseOrder, TypeOK
  <2>3. Escrow(orders'[k]) = 0
    BY <1>5 DEF ReleaseOrder, TypeOK, Escrow
  <2>4. Escrow(o) = o.amount
    <3>1. o.status # 1
      BY <1>5, <2>1 DEF ReleaseOrder
    <3> QED
      BY <2>1, <3>1 DEF Escrow
  <2>5. o.amount \in Int /\ 0 + o.amount = o.amount
    BY <2>1
  <2>6. balance' = [balance EXCEPT ![Buyer(o)] = @ + o.amount]
    BY <1>5 DEF ReleaseOrder
  <2> QED
    BY <1>c, <2>1, <2>2, <2>3, <2>4, <2>5, <2>6
<1>6. ASSUME NEW k \in OrderIds, NEW a \in Accounts, OpenDispute(k, a) \/ ReplyDispute(k, a)
      PROVE  Held' + Escrowed' = Held + Escrowed
  <2>1. orders[k] \in Orders /\ orders[k] # None /\ orders[k].status \in {3, 4}
    BY <1>6, OpenOrder DEF OpenDispute, ReplyDispute
  <2>2. \A j \in OrderIds \ {k} : orders'[j] = orders[j]
    BY <1>6 DEF OpenDispute, ReplyDispute, TypeOK
  <2>3. orders'[k].status \in {4, 5} /\ orders'[k].amount = orders[k].amount
    BY <1>6, <2>1 DEF OpenDispute, ReplyDispute, TypeOK, Orders
  <2>4. orders'[k] # None
    BY <1>6, DisputedOrder
  <2>5. Escrow(orders'[k]) = Escrow(orders[k])
    BY <2>1, <2>3, <2>4 DEF Escrow
  <2> QED
    BY <1>6, <1>d, <2>2, <2>5 DEF OpenDispute, ReplyDispute
<1>7. ASSUME NEW k \in OrderIds, NEW w \in Accounts, NEW a \in Arbitrators,
             ResolveDispute(k, w, a)
      PROVE  Held' + Escrowed' = Held + Escrowed
  <2> DEFINE o == orders[k]
             cut == CutFee(o.amount)
             b == Add(balance, a, cut)
  <2>1. o # None /\ o.amount \in Nat /\ o.status \in {4, 5} /\ a \in Accounts
    BY <1>7, OpenOrder, AccountAssumption DEF ResolveDispute
  <2>2. \A j \in OrderIds \ {k} : orders'[j] = orders[j]
    BY <1>7 DEF ResolveDispute, TypeOK
  <2>3. Escrow(orders'[k]) = 0 /\ Escrow(o) = o.amount
    BY <1>7, <2>1 DEF ResolveDispute, TypeOK, Escrow
  <2>4. cut \in Int /\ o.amount - cut \in Int
    BY <2>1, CutFeeBounds
  <2>5. balance' = Add(b, w, o.amount - cut)
    BY <1>7 DEF ResolveDispute
  <2>6. b \in [Accounts -> Int] /\ SumFunctionOnSet(b, Accounts) = Held + cut
    <3> HIDE DEF cut
    <3>1. SumFunctionOnSet(b, Accounts) = Held + cut
      BY <1>a, <2>1, <2>4, HeldChange DEF Add, Held
    <3>2. b \in [Accounts -> Int]
      BY <1>a, <2>1, <2>4 DEF Add
    <3> QED
      BY <3>1, <3>2
  <2>7. Held' = SumFunctionOnSet(b, Accounts) + (o.amount - cut)
    <3> HIDE DEF b, cut
    <3> QED
      BY <2>4, <2>5, <2>6, HeldChange DEF Add, Held
  <2>8. Escrowed \in Nat /\ Escrowed' = Escrowed + (Escrow(orders'[k]) - Escrow(o))
    BY <2>2, EscrowedChange
  <2> HIDE DEF b, cut, o
  <2> QED
    BY <1>a, <2>1, <2>3, <2>4, <2>6, <2>7, <2>8
<1>8. ASSUME EndOfBlock
      PROVE  Held' + Escrowed' = Held + Escrowed
  BY <1>8, BlockConserves
<1> QED
  BY <1>b, <1>1, <1>2, <1>3, <1>4, <1>5, <1>6, <1>7, <1>8
  DEF Next, vars, CreateAdv, EditAdv, ClearBlackList, RemoveFromBlackList

(* No CWD is made or lost: what the accounts hold and what is in escrow     *)
(* always add up to the initial balances.                                   *)
THEOREM EscrowConserves == Spec => []FundsConserved
<1> DEFINE Total == SumFunction(Balances)
           Inv == Typed /\ FreshIds /\ CalledBySeller /\ Held + Escrowed = Total
<1>1. Init => Inv
  <2> SUFFICES ASSUME Init PROVE Inv
    OBVIOUS
  <2>1. Typed /\ FreshIds /\ CalledBySeller
    BY InitTyped DEF Init, FreshIds, CalledBySeller, Open
  <2>2. Held = Total /\ Held \in Int
    <3>1. DOMAIN Balances = Accounts /\ \A a \in Accounts : Balances[a] \in Int
      BY AccountAssumption
    <3> QED
      BY <3>1, AccountAssumption, SumInt DEF Init, Held, SumFunction
  <2>3. Escrowed = 0
    <3>1. IsFiniteSet(OrderIds)
      BY BoundAssumption, FS_Interval DEF OrderIds
    <3> DEFINE f == [k \in OrderIds |-> Escrow(orders[k])]
    <3>2. \A k \in OrderIds : f[k] = 0
      BY DEF Init, Escrow
    <3> HIDE DEF f
    <3> QED
      BY <3>1, <3>2, SumZero DEF Escrowed, f
  <2> QED
    BY <2>1, <2>2, <2>3
<1>2. Inv /\ [Next]_vars => Inv'
  <2> SUFFICES ASSUME Inv, [Next]_vars PROVE Inv'
    OBVIOUS
  <2>1. Typed' /\ FreshIds' /\ CalledBySeller'
    BY StepTyped, StepFresh, StepCalled
  <2>2. Held' + Escrowed' = Held + Escrowed
    BY <2>1, StepConserves
  <2> QED
    BY <2>1, <2>2
<1>3. Inv => FundsConserved
  BY DEF FundsConserved, Typed, TypeOK, SumFunction, Held, Escrowed
<1> HIDE DEF Inv
<1> QED
  BY <1>1, <1>2, <1>3, PTL DEF Spec

-----------------------------------------------------------------------------
(* The counters and their sums are natural numbers. *)
LEMMA CountersAreNat ==
  ASSUME TypeOK
  PROVE  /\ Completes \in [Accounts -> Int] /\ Completed \in Nat
         /\ Cancels \in [Accounts -> Int] /\ Canceled \in Nat
         /\ Losses \in [Accounts -> Int] /\ Lost \in Nat
         /\ IsFiniteSet(Open) /\ Cardinality(Open) \in Nat
<1>1. \A a \in Accounts : /\ Completes[a] \in Nat /\ Cancels[a] \in Nat /\ Losses[a] \in Nat
  BY DEF TypeOK, Stats, Completes, Cancels, Losses
<1>2. Completed \in Nat /\ Canceled \in Nat /\ Lost \in Nat
  BY <1>1, AccountAssumption, SumNat DEF Completed, Canceled, Lost
<1>3. IsFiniteSet(OrderIds) /\ Open \in SUBSET OrderIds
  BY BoundAssumption, FS_Interval DEF OrderIds, Open
<1>4. IsFiniteSet(Open) /\ Cardinality(Open) \in Nat
  BY <1>3, FS_Subset, FS_CardinalityType
<1>5. /\ Completes \in [Accounts -> Int] /\ Cancels \in [Accounts -> Int]
      /\ Losses \in [Accounts -> Int]
  BY <1>1 DEF Completes, Cancels, Losses
<1> QED
  BY <1>2, <1>4, <1>5

(* One account's counter goes up. *)
LEMMA CountUp ==
  ASSUME NEW b \in [Accounts -> Int], NEW a \in Accounts
  PROVE  /\ [b EXCEPT ![a] = @ + 1] \in [Accounts -> Int]
         /\ SumFunctionOnSet([b EXCEPT ![a] = @ + 1], Accounts) = SumFunctionOnSet(b, Accounts) + 1
<1> DEFINE x == 1
<1>1. x \in Int
  OBVIOUS
<1> HIDE DEF x
<1>2. SumFunctionOnSet([b EXCEPT ![a] = @ + x], Accounts) = SumFunctionOnSet(b, Accounts) + x
  BY <1>1, HeldChange
<1> QED
  BY <1>2 DEF x

(* An order is removed. *)
LEMMA OpenLess ==
  ASSUME TypeOK, NEW k \in OrderIds, orders[k] # None, orders' = [orders EXCEPT ![k] = None]
  PROVE  Cardinality(Open') = Cardinality(Open) - 1
<1>1. Open' = Open \ {k} /\ k \in Open
  BY DEF Open, TypeOK
<1>2. IsFiniteSet(Open)
  BY CountersAreNat
<1> QED
  BY <1>1, <1>2, FS_RemoveElement

(* The end of a block blames one account for every order it drops. *)
LEMMA BlockSettles ==
  ASSUME TypeOK, TypeOK', EndOfBlock
  PROVE  Settled' = Settled /\ next' = next
<1> DEFINE time == now + 1
           gone == {k \in Open : Late(orders[k], time)}
           one == [k \in gone |-> 1]
           by == [k \in gone |-> Blamed(orders[k])]
           faults == [a \in Accounts |-> {k \in gone : Blamed(orders[k]) = a}]
           fault == [a \in Accounts |-> Cardinality(faults[a])]
           banned(a) == \E k \in faults[a] : orders[k].status = 2 /\ orders[k].order_type
<1>1. IsFiniteSet(Open) /\ IsFiniteSet(gone) /\ gone \in SUBSET Open
  BY CountersAreNat, FS_Subset
<1>2. \A a \in Accounts :
         stats'[a] = [stats[a] EXCEPT !.canceled = @ + fault[a],
                                      !.banned = IF banned(a) THEN time + BanTime ELSE @]
  BY DEF EndOfBlock, AutoCancel
<1>3. \A a \in Accounts : Completes'[a] = Completes[a] /\ Losses'[a] = Losses[a]
                          /\ Cancels'[a] = Cancels[a] + fault[a]
  <2> SUFFICES ASSUME NEW a \in Accounts
               PROVE  Completes'[a] = Completes[a] /\ Losses'[a] = Losses[a]
                      /\ Cancels'[a] = Cancels[a] + fault[a]
    OBVIOUS
  <2>1. stats[a] \in Stats
    BY DEF TypeOK
  <2> HIDE DEF fault, banned, time
  <2>2. /\ stats'[a].complete = stats[a].complete /\ stats'[a].loose = stats[a].loose
        /\ stats'[a].canceled = stats[a].canceled + fault[a]
    BY <1>2, <2>1 DEF Stats
  <2> QED
    BY <2>2 DEF Completes, Losses, Cancels
<1>4. SumFunctionOnSet(fault, Accounts) = Cardinality(gone)
  <2>1. ASSUME NEW a \in Accounts
        PROVE  fault[a] = SumFunctionOnSet(one, faults[a])
    <3>1. faults[a] \in SUBSET gone /\ IsFiniteSet(faults[a])
      BY <1>1, FS_Subset
    <3>2. \A k \in faults[a] : one[k] = 1
      BY <3>1
    <3>3. SumFunctionOnSet(one, faults[a]) = Cardinality(faults[a])
      <4> HIDE DEF one, faults
      <4> QED
        BY <3>1, <3>2, SumOnes
    <3> QED
      BY <3>3
  <2>2. \A a \in Accounts : faults[a] \in SUBSET gone
    OBVIOUS
  <2>3. \A k \in gone : by[k] \in Accounts /\ \A a \in Accounts : k \in faults[a] <=> by[k] = a
    BY OpenOrder DEF Open
  <2>4. \A k \in gone : one[k] \in Int /\ one[k] = 1
    OBVIOUS
  <2> HIDE DEF fault, one, faults, by, gone
  <2>5. SumFunctionOnSet(fault, Accounts) = SumFunctionOnSet(one, gone)
    BY <1>1, <2>1, <2>2, <2>3, <2>4, AccountAssumption, SumGroups
  <2> QED
    BY <1>1, <2>4, <2>5, SumOnes
<1>5. \A a \in Accounts : fault[a] \in Int
  <2> TAKE a \in Accounts
  <2>1. faults[a] \in SUBSET gone /\ IsFiniteSet(faults[a])
    BY <1>1, FS_Subset
  <2> HIDE DEF faults
  <2>2. Cardinality(faults[a]) \in Nat
    BY <2>1, FS_CardinalityType
  <2> QED
    BY <2>2
<1>6. Canceled' = Canceled + Cardinality(gone)
  <2>1. \A a \in Accounts : Cancels[a] \in Int
    BY CountersAreNat
  <2> HIDE DEF fault, gone
  <2> QED
    BY <1>3, <1>4, <1>5, <2>1, AccountAssumption, SumPlus DEF Canceled
<1>7. Completed' = Completed /\ Lost' = Lost
  <2>1. \A a \in Accounts : Completes[a] \in Int /\ Losses[a] \in Int
    BY CountersAreNat
  <2> HIDE DEF fault
  <2> QED
    BY <1>3, <2>1, AccountAssumption, SumEqual DEF Completed, Lost
<1>8. Cardinality(Open') = Cardinality(Open) - Cardinality(gone)
  <2>1. Open' = Open \ gone
    BY DEF EndOfBlock, AutoCancel, Open
  <2>2. Open \cap gone = gone
    OBVIOUS
  <2> HIDE DEF gone
  <2> QED
    BY <1>1, <2>1, <2>2, FS_Difference
<1>9. Cardinality(gone) \in Nat
  BY <1>1, FS_CardinalityType
<1> HIDE DEF gone
<1> QED
  BY <1>6, <1>7, <1>8, <1>9, CountersAreNat DEF Settled, EndOfBlock

(* Every step that creates an order adds it to the open ones, and every     *)
(* step that removes one counts it.                                         *)
LEMMA StepSettles ==
  ASSUME Typed, Typed', FreshIds, [Next]_vars, 2 * (next - 1) = Settled
  PROVE  2 * (next' - 1) = Settled'
<1> USE DEF Typed
<1>a. /\ Completes \in [Accounts -> Int] /\ Completed \in Nat
      /\ Cancels \in [Accounts -> Int] /\ Canceled \in Nat
      /\ Losses \in [Accounts -> Int] /\ Lost \in Nat
      /\ IsFiniteSet(Open) /\ Cardinality(Open) \in Nat
  BY CountersAreNat
<1>b. ASSUME UNCHANGED <<next, stats>>, Open' = Open PROVE 2 * (next' - 1) = Settled'
  BY <1>b DEF Settled, Completed, Canceled, Lost, Completes, Cancels, Losses
<1>1. ASSUME NEW i \in AdvIds, NEW c \in Accounts, NEW x \in Amounts, CreateOrder(i, c, x)
      PROVE  2 * (next' - 1) = Settled'
  <2>1. next \in OrderIds /\ orders'[next] # None
    BY <1>1, NewOrder
  <2>2. next \in Nat /\ next' = next + 1 /\ stats' = stats
    BY <1>1, <2>1 DEF CreateOrder, OrderIds
  <2>3. next \notin Open
    BY <2>1, <2>2 DEF FreshIds, Open
  <2>4. Open' = Open \cup {next}
    BY <1>1, <2>1 DEF CreateOrder, Open, TypeOK
  <2>5. Cardinality(Open') = Cardinality(Open) + 1
    BY <1>a, <2>3, <2>4, FS_AddElement
  <2>6. Completed' = Completed /\ Canceled' = Canceled /\ Lost' = Lost
    BY <2>2 DEF Completed, Canceled, Lost, Completes, Cancels, Losses
  <2> QED
    BY <1>a, <2>2, <2>5, <2>6 DEF Settled
<1>2. ASSUME NEW k \in OrderIds, NEW b \in BOOLEAN, CancelOrder(k, b)
      PROVE  2 * (next' - 1) = Settled'
  <2> DEFINE g == orders[k].p2p_gateway
  <2>1. orders[k] # None /\ g \in Accounts
    BY <1>2, OpenOrder DEF CancelOrder, Orders
  <2>2. Cardinality(Open') = Cardinality(Open) - 1
    BY <1>2, <2>1, OpenLess DEF CancelOrder
  <2>3. stats' = [stats EXCEPT ![g].canceled = @ + 1]
    BY <1>2 DEF CancelOrder
  <2> HIDE DEF g
  <2>4. Completes' = Completes /\ Losses' = Losses /\ Cancels' = [Cancels EXCEPT ![g] = @ + 1]
    BY <2>1, <2>3 DEF Completes, Losses, Cancels, TypeOK, Stats
  <2>5. Canceled' = Canceled + 1
    BY <1>a, <2>1, <2>4, CountUp DEF Canceled
  <2>6. Completed' = Completed /\ Lost' = Lost
    BY <2>4 DEF Completed, Lost
  <2>7. next' = next
    BY <1>2 DEF CancelOrder
  <2> QED
    BY <1>a, <2>2, <2>5, <2>6, <2>7 DEF Settled
<1>3. ASSUME NEW k \in OrderIds, CallOrder(k)
      PROVE  2 * (next' - 1) = Settled'
  <2>1. orders'[k] # None
    BY <1>3, CalledOrder
  <2>2. Open' = Open
    BY <1>3, <2>1 DEF CallOrder, Open, TypeOK
  <2> QED
    BY <1>3, <1>b, <2>2 DEF CallOrder
<1>4. ASSUME NEW k \in OrderIds, PayOrder(k)
      PROVE  2 * (next' - 1) = Settled'
  <2>1. orders'[k] # None
    BY <1>4, PaidOrder
  <2>2. Open' = Open
    BY <1>4, <2>1 DEF PayOrder, Open, TypeOK
  <2> QED
    BY <1>4, <1>b, <2>2 DEF PayOrder
<1>5. ASSUME NEW k \in OrderIds, ReleaseOrder(k)
      PROVE  2 * (next' - 1) = Settled'
  <2> DEFINE g == orders[k].p2p_gateway
             c == orders[k].p2p_client
             r == [Completes EXCEPT ![g] = @ + 1]
  <2>1. orders[k] # None /\ g \in Accounts /\ c \in Accounts
    BY <1>5, OpenOrder DEF ReleaseOrder, Orders
  <2>2. Cardinality(Open') = Cardinality(Open) - 1
    BY <1>5, <2>1, OpenLess DEF ReleaseOrder
  <2>3. stats' = Complete(Complete(stats, g), c)
    BY <1>5 DEF ReleaseOrder
  <2> HIDE DEF g, c
  <2>4. Cancels' = Cancels /\ Losses' = Losses
    BY <2>1, <2>3 DEF Losses, Cancels, TypeOK, Stats, Complete
  <2>5. Completes' = [r EXCEPT ![c] = @ + 1]
    <3> DEFINE once == Complete(stats, g)
    <3>1. once \in [Accounts -> Stats]
      BY <2>1 DEF Complete, TypeOK, Stats
    <3>2. r = [a \in Accounts |-> once[a].complete]
      BY <2>1 DEF Complete, TypeOK, Stats, Completes
    <3>3. stats' = Complete(once, c)
      BY <2>3
    <3> HIDE DEF once, r
    <3> QED
      BY <2>1, <3>1, <3>2, <3>3 DEF Completes, Complete, Stats
  <2>6. r \in [Accounts -> Int] /\ SumFunctionOnSet(r, Accounts) = Completed + 1
    BY <1>a, <2>1, CountUp DEF Completed
  <2>7. Completed' = Completed + 2
    <3>1. Completed' = SumFunctionOnSet(r, Accounts) + 1
      <4> HIDE DEF r
      <4> QED
        BY <2>1, <2>5, <2>6, CountUp DEF Completed
    <3> HIDE DEF r
    <3> QED
      BY <1>a, <2>6, <3>1
  <2>8. Canceled' = Canceled /\ Lost' = Lost
    BY <2>4 DEF Canceled, Lost
  <2>9. next' = next
    BY <1>5 DEF ReleaseOrder
  <2> QED
    BY <1>a, <2>2, <2>7, <2>8, <2>9 DEF Settled
<1>6. ASSUME NEW k \in OrderIds, NEW a \in Accounts, OpenDispute(k, a) \/ ReplyDispute(k, a)
      PROVE  2 * (next' - 1) = Settled'
  <2>1. orders'[k] # None
    BY <1>6, DisputedOrder
  <2>2. Open' = Open
    BY <1>6, <2>1 DEF OpenDispute, ReplyDispute, Open, TypeOK
  <2> QED
    BY <1>6, <1>b, <2>2 DEF OpenDispute, ReplyDispute
<1>7. ASSUME NEW k \in OrderIds, NEW w \in Accounts, NEW a \in Arbitrators,
             ResolveDispute(k, w, a)
      PROVE  2 * (next' - 1) = Settled'
  <2> DEFINE o == orders[k]
             l == IF w = o.p2p_gateway THEN o.p2p_client ELSE o.p2p_gateway
  <2>1. orders[k] # None /\ l \in Accounts
    BY <1>7, OpenOrder DEF ResolveDispute, Orders
  <2>2. Cardinality(Open') = Cardinality(Open) - 1
    BY <1>7, <2>1, OpenLess DEF ResolveDispute
  <2>3. stats' = [Complete(stats, w) EXCEPT ![l].loose = @ + 1]
    BY <1>7 DEF ResolveDispute
  <2> HIDE DEF l
  <2>4. ASSUME NEW b \in Accounts
        PROVE  /\ Cancels'[b] = Cancels[b]
               /\ Completes'[b] = [Completes EXCEPT ![w] = @ + 1][b]
               /\ Losses'[b] = [Losses EXCEPT ![l] = @ + 1][b]
    BY <2>1, <2>3 DEF Losses, Cancels, Completes, TypeOK, Stats, Complete
  <2>5. /\ Cancels' = Cancels
        /\ Completes' = [Completes EXCEPT ![w] = @ + 1]
        /\ Losses' = [Losses EXCEPT ![l] = @ + 1]
    BY <2>4 DEF Losses, Cancels, Completes
  <2>6. Completed' = Completed + 1 /\ Lost' = Lost + 1
    BY <1>a, <2>1, <2>5, CountUp DEF Completed, Lost
  <2>7. Canceled' = Canceled
    BY <2>5 DEF Canceled
  <2>8. next' = next
    BY <1>7 DEF ResolveDispute
  <2> QED
    BY <1>a, <2>2, <2>6, <2>7, <2>8 DEF Settled
<1>8. ASSUME EndOfBlock
      PROVE  2 * (next' - 1) = Settled'
  BY <1>8, BlockSettles
<1> QED
  BY <1>b, <1>1, <1>2, <1>3, <1>4, <1>5, <1>6, <1>7, <1>8
  DEF Next, vars, Open, CreateAdv, EditAdv, ClearBlackList, RemoveFromBlackList

(* Every order ever created is open or was settled in exactly one way, and  *)
(* the statistics of the accounts say which.                                *)
THEOREM SettledExactlyOnce == Spec => []EveryOrderSettledOnce
<1> DEFINE Inv == Typed /\ FreshIds /\ 2 * (next - 1) = Settled
<1>1. Init => Inv
  <2> SUFFICES ASSUME Init PROVE Inv
    OBVIOUS
  <2>1. Typed /\ FreshIds
    BY InitTyped DEF Init, FreshIds
  <2>2. Open = {} /\ Cardinality(Open) = 0
    BY FS_EmptySet DEF Init, Open
  <2>3. \A a \in Accounts : Completes[a] = 0 /\ Cancels[a] = 0 /\ Losses[a] = 0
    BY DEF Init, Completes, Cancels, Losses
  <2>4. Completed = 0 /\ Canceled = 0 /\ Lost = 0
    BY <2>3, AccountAssumption, SumZero DEF Completed, Canceled, Lost
  <2> QED
    BY <2>1, <2>2, <2>4 DEF Settled, Init
<1>2. Inv /\ [Next]_vars => Inv'
  <2> SUFFICES ASSUME Inv, [Next]_vars PROVE Inv'
    OBVIOUS
  <2>1. Typed' /\ FreshIds'
    BY StepTyped, StepFresh
  <2> QED
    BY <2>1, StepSettles
<1>3. Inv => EveryOrderSettledOnce
  BY DEF EveryOrderSettledOnce, SumFunction, Settled, Completed, Canceled, Lost,
         Completes, Cancels, Losses
<1> HIDE DEF Inv
<1> QED
  BY <1>1, <1>2, <1>3, PTL DEF Spec

-----------------------------------------------------------------------------
(* Credits *)

CONSTANTS Members, Lenders, Earners, Coins, Pending, CreditTerms, Incomes, Rewards, MaxCredits, MaxStakings

VARIABLES coins, vested, accounts, credit_offers, next_credit, supply, pending, credits_open, got, settled,
          stakings

C == INSTANCE Credits WITH
    Accounts <- Members, Balances <- Coins, Amounts <- Incomes, MaxOffers <- MaxCredits,
    balance <- coins, stats <- accounts, offers <- credit_offers, next <- next_credit

CreditAssumptions == C!AccountAssumption /\ C!TermsAssumption

(* What the income of a member is withheld for, and what a creditor c has  *)
(* collected of the credit of each member.                                 *)
Withheld(st)     == [a \in Members |-> st[a].credit.allowed_to_repay - st[a].credit.credit_repaid]
Collected(st, c) == [a \in Members |-> IF st[a].credit.creditor = c THEN st[a].credit.credit_repaid ELSE 0]

Statistics == [credit : C!Credits, first : Nat, second : Nat, third : Nat, current : Nat]

(* What is always true of the credit of one member. *)
CreditOK(c) ==
    /\ IF c.total_credit # 0 THEN c.credit_repaid <= c.allowed_to_repay /\ c.allowed_to_repay < c.total_credit
                             ELSE c = C!NoCredit
    /\ c.creditor = 0 => c.credit_repaid = 0

CreditsOK == \A a \in Members : CreditOK(accounts[a].credit)

AllHeld == SumFunctionOnSet(coins, Members) + SumFunctionOnSet(vested, Members)
           + SumFunctionOnSet(Withheld(accounts), Members) + pending

PaidOK(c) == got[c] = settled[c] + SumFunctionOnSet(Collected(accounts, c), Members)

CreditInv == C!TypeOK /\ CreditsOK /\ supply = AllHeld /\ \A c \in Members \ {0} : PaidOK(c)

(* The library's operators are the same in the module of credits. *)
LEMMA SameFinite ==
  ASSUME NEW S
  PROVE  C!IsFiniteSet(S) <=> IsFiniteSet(S)
  BY DEF C!IsFiniteSet, IsFiniteSet

LEMMA SameSum ==
  ASSUME NEW f, NEW S
  PROVE  C!SumFunctionOnSet(f, S) = SumFunctionOnSet(f, S)
  BY DEF C!SumFunctionOnSet, C!FoldFunctionOnSet, C!MapThenFoldSet, SumFunctionOnSet, FoldFunctionOnSet,
         MapThenFoldSet

(* An account gets or gives an amount. *)
LEMMA OneChanged ==
  ASSUME NEW S, IsFiniteSet(S), NEW f \in [S -> Int], NEW a \in S, NEW n \in Int, NEW g,
         g[a] = f[a] + n, \A x \in S \ {a} : g[x] = f[x]
  PROVE  SumFunctionOnSet(g, S) = SumFunctionOnSet(f, S) + n
<1>1. \A x \in S : f[x] \in Int
  OBVIOUS
<1>2. g[a] \in Int
  BY <1>1
<1>3. SumFunctionOnSet(g, S) = SumFunctionOnSet(f, S) + (g[a] - f[a])
  BY <1>1, <1>2, SumChange
<1>4. SumFunctionOnSet(f, S) \in Int
  BY <1>1, SumInt
<1> QED
  BY <1>1, <1>3, <1>4

(* The credit of one member changes. *)
LEMMA CreditChanged ==
  ASSUME CreditAssumptions, NEW st \in [Members -> Statistics], NEW a \in Members,
         NEW new \in [Members -> Statistics], \A b \in Members \ {a} : new[b] = st[b]
  PROVE  /\ SumFunctionOnSet(Withheld(new), Members)
            = SumFunctionOnSet(Withheld(st), Members) + (Withheld(new)[a] - Withheld(st)[a])
         /\ \A c : SumFunctionOnSet(Collected(new, c), Members)
            = SumFunctionOnSet(Collected(st, c), Members) + (Collected(new, c)[a] - Collected(st, c)[a])
<1>1. IsFiniteSet(Members)
  BY SameFinite DEF CreditAssumptions, C!AccountAssumption
<1>3. ASSUME NEW u \in [Members -> Statistics], NEW b \in Members
      PROVE  /\ Withheld(u)[b] = u[b].credit.allowed_to_repay - u[b].credit.credit_repaid
             /\ Withheld(u)[b] \in Int
             /\ \A c : /\ Collected(u, c)[b] = IF u[b].credit.creditor = c THEN u[b].credit.credit_repaid ELSE 0
                       /\ Collected(u, c)[b] \in Int
  <2>1. u[b].credit \in C!Credits
    BY DEF Statistics
  <2>2. u[b].credit.allowed_to_repay \in Nat /\ u[b].credit.credit_repaid \in Nat
    BY <2>1 DEF C!Credits
  <2> QED
    BY <2>2 DEF Withheld, Collected
<1>4. SumFunctionOnSet(Withheld(new), Members)
      = SumFunctionOnSet(Withheld(st), Members) + (Withheld(new)[a] - Withheld(st)[a])
  <2>1. \A x \in Members : Withheld(st)[x] \in Int
    BY <1>3
  <2>2. Withheld(new)[a] \in Int
    BY <1>1, <1>3
  <2>3. \A x \in Members \ {a} : Withheld(new)[x] = Withheld(st)[x]
    BY <1>3
  <2> QED
    BY <1>1, <2>1, <2>2, <2>3, SumChange
<1>5. ASSUME NEW c
      PROVE  SumFunctionOnSet(Collected(new, c), Members)
             = SumFunctionOnSet(Collected(st, c), Members) + (Collected(new, c)[a] - Collected(st, c)[a])
  <2>1. \A x \in Members : Collected(st, c)[x] \in Int
    BY <1>3
  <2>2. Collected(new, c)[a] \in Int
    BY <1>1, <1>3
  <2>3. \A x \in Members \ {a} : Collected(new, c)[x] = Collected(st, c)[x]
    BY <1>3
  <2> QED
    BY <1>1, <2>1, <2>2, <2>3, SumChange
<1> QED
  BY <1>1, <1>4, <1>5

(* The sums are numbers. *)
LEMMA CreditSums ==
  ASSUME CreditAssumptions, C!TypeOK
  PROVE  /\ IsFiniteSet(Members) /\ accounts \in [Members -> Statistics]
         /\ SumFunctionOnSet(coins, Members) \in Nat /\ SumFunctionOnSet(vested, Members) \in Nat
         /\ SumFunctionOnSet(Withheld(accounts), Members) \in Int
         /\ \A c : SumFunctionOnSet(Collected(accounts, c), Members) \in Int
<1>1. IsFiniteSet(Members) /\ accounts \in [Members -> Statistics]
  BY SameFinite DEF CreditAssumptions, C!AccountAssumption, C!TypeOK, Statistics
<1>2. \A a \in Members : coins[a] \in Nat /\ vested[a] \in Nat
  BY DEF C!TypeOK
<1>3. \A a \in Members : accounts[a].credit.allowed_to_repay \in Nat /\ accounts[a].credit.credit_repaid \in Nat
  BY <1>1 DEF Statistics, C!Credits
<1>4. \A a \in Members : Withheld(accounts)[a] \in Int
  BY <1>3 DEF Withheld
<1>5. \A c : \A a \in Members : Collected(accounts, c)[a] \in Int
  BY <1>3 DEF Collected
<1>6. SumFunctionOnSet(coins, Members) \in Nat /\ SumFunctionOnSet(vested, Members) \in Nat
  BY <1>1, <1>2, SumNat
<1>7. SumFunctionOnSet(Withheld(accounts), Members) \in Int
  BY <1>1, <1>4, SumInt
<1>8. \A c : SumFunctionOnSet(Collected(accounts, c), Members) \in Int
  BY <1>1, <1>5, SumInt
<1> QED
  BY <1>1, <1>6, <1>7, <1>8

(* The credit of a member. *)
LEMMA CreditOf ==
  ASSUME CreditAssumptions, C!TypeOK, NEW a \in Members
  PROVE  /\ accounts[a] \in Statistics /\ accounts[a].credit \in C!Credits
         /\ accounts[a].credit.total_credit \in Nat /\ accounts[a].credit.allowed_to_repay \in Nat
         /\ accounts[a].credit.credit_repaid \in Nat /\ accounts[a].credit.creditor \in Members
         /\ accounts[a].current \in Nat
<1>1. accounts[a] \in Statistics
  BY DEF C!TypeOK, Statistics
<1>2. accounts[a].credit \in C!Credits /\ accounts[a].current \in Nat
  BY <1>1 DEF Statistics
<1> QED
  BY <1>1, <1>2 DEF C!Credits

(* What an income of n does to the credit of a, and that what comes in is  *)
(* what is withheld, paid to the creditor, burnt or left.                  *)
LEMMA RepaymentFacts ==
  ASSUME CreditAssumptions, C!TypeOK, CreditsOK, NEW a \in Members, NEW n \in Nat, NEW b \in BOOLEAN,
         NEW r, r = C!Repayment(a, n, b)
  PROVE  LET old == accounts[a].credit
             new == r.stats.credit
         IN  /\ r.stats \in Statistics /\ CreditOK(new)
             /\ r.rest \in Nat /\ r.burnt \in Nat /\ r.paid \in Nat /\ r.closed \in Nat
             /\ r.creditor \in Members
             /\ n + (old.allowed_to_repay - old.credit_repaid)
                = r.paid + r.rest + r.burnt + (new.allowed_to_repay - new.credit_repaid)
             /\ \A c \in Members \ {0} :
                  (IF old.creditor = c THEN old.credit_repaid ELSE 0) + (IF r.creditor = c THEN r.paid ELSE 0)
                  = (IF r.creditor = c THEN r.closed ELSE 0) + (IF new.creditor = c THEN new.credit_repaid ELSE 0)
<1> DEFINE old     == accounts[a].credit
           new     == r.stats.credit
           missing == old.total_credit - old.allowed_to_repay
           earned  == C!Earn(a, n, b)
<1>1. /\ accounts[a] \in Statistics /\ old \in C!Credits
      /\ old.total_credit \in Nat /\ old.allowed_to_repay \in Nat /\ old.credit_repaid \in Nat
      /\ old.creditor \in Members
  BY CreditOf
<1>2. CreditOK(old) /\ 0 \in Members
  BY DEF CreditsOK, CreditAssumptions, C!AccountAssumption
<1>3. earned \in Statistics /\ earned.credit = old
  BY <1>1 DEF C!Earn, Statistics
<1>4. C!NoCredit \in C!Credits /\ CreditOK(C!NoCredit)
  BY <1>2 DEF C!NoCredit, C!OpenCredit, C!Credits, CreditOK
<1>5. CASE old.total_credit = 0
  <2>1. /\ r.stats = earned /\ r.rest = n /\ r.burnt = 0 /\ r.paid = 0 /\ r.closed = 0
        /\ r.creditor = old.creditor
    BY <1>5 DEF C!Repayment, C!HasCredit, C!Credit
  <2>2. old = C!NoCredit
    BY <1>2, <1>5 DEF CreditOK
  <2> HIDE DEF earned
  <2> QED
    BY <1>1, <1>2, <1>3, <2>1, <2>2 DEF C!NoCredit, C!OpenCredit
<1>6. CASE old.total_credit # 0 /\ missing > n
  <2>1. /\ r.stats = [earned EXCEPT !.credit.allowed_to_repay = @ + n]
        /\ r.rest = 0 /\ r.burnt = 0 /\ r.paid = 0 /\ r.closed = 0
        /\ r.creditor = old.creditor
    BY <1>1, <1>6 DEF C!Repayment, C!HasCredit, C!Credit
  <2> HIDE DEF earned
  <2>2. /\ new = [old EXCEPT !.allowed_to_repay = @ + n]
        /\ r.stats \in Statistics
    BY <1>1, <1>3, <2>1 DEF Statistics, C!Credits
  <2>3. /\ new.total_credit = old.total_credit /\ new.allowed_to_repay = old.allowed_to_repay + n
        /\ new.credit_repaid = old.credit_repaid /\ new.creditor = old.creditor
    BY <1>1, <2>2 DEF C!Credits
  <2> HIDE DEF new
  <2>4. CreditOK(new)
    BY <1>1, <1>2, <1>6, <2>3 DEF CreditOK
  <2> QED
    BY <1>1, <2>1, <2>2, <2>3, <2>4 DEF new
<1>7. CASE old.total_credit # 0 /\ missing <= n
  <2>1. /\ r.stats = [earned EXCEPT !.credit = C!NoCredit]
        /\ r.rest = n - missing /\ r.creditor = old.creditor
        /\ r.burnt = IF old.creditor = 0 THEN old.total_credit ELSE 0
        /\ r.paid = IF old.creditor = 0 THEN 0 ELSE old.total_credit - old.credit_repaid
        /\ r.closed = IF old.creditor = 0 THEN 0 ELSE old.total_credit
    BY <1>1, <1>7 DEF C!Repayment, C!HasCredit, C!Credit, C!ToCreditor
  <2> HIDE DEF earned
  <2>2. new = C!NoCredit /\ r.stats \in Statistics
    BY <1>3, <1>4, <2>1 DEF Statistics
  <2>3. new.allowed_to_repay = 0 /\ new.credit_repaid = 0 /\ new.creditor = 0
    BY <2>2 DEF C!NoCredit, C!OpenCredit
  <2>4. /\ old.credit_repaid <= old.allowed_to_repay /\ old.allowed_to_repay < old.total_credit
        /\ old.creditor = 0 => old.credit_repaid = 0
    BY <1>2, <1>7 DEF CreditOK
  <2> HIDE DEF new
  <2>5. r.rest \in Nat /\ r.burnt \in Nat /\ r.paid \in Nat /\ r.closed \in Nat
    BY <1>1, <1>7, <2>1, <2>4
  <2>6. n + (old.allowed_to_repay - old.credit_repaid)
        = r.paid + r.rest + r.burnt + (new.allowed_to_repay - new.credit_repaid)
    <3>1. CASE old.creditor = 0
      BY <1>1, <1>7, <2>1, <2>3, <2>4, <3>1
    <3>2. CASE old.creditor # 0
      BY <1>1, <1>7, <2>1, <2>3, <2>4, <3>2
    <3> QED
      BY <3>1, <3>2
  <2>7. ASSUME NEW c \in Members \ {0}
        PROVE  (IF old.creditor = c THEN old.credit_repaid ELSE 0) + (IF r.creditor = c THEN r.paid ELSE 0)
               = (IF r.creditor = c THEN r.closed ELSE 0) + (IF new.creditor = c THEN new.credit_repaid ELSE 0)
    BY <1>1, <2>1, <2>3
  <2>8. CreditOK(new)
    BY <1>4, <2>2
  <2> QED
    BY <1>1, <2>1, <2>2, <2>5, <2>6, <2>7, <2>8 DEF new
<1> QED
  BY <1>1, <1>5, <1>6, <1>7

(* The parts of the invariant after a step that changes the credit of one  *)
(* member, and what the accounts and the fees hold by d.                   *)
LEMMA CreditStep ==
  ASSUME CreditAssumptions, CreditInv, NEW a \in Members, NEW s \in Statistics, CreditOK(s.credit),
         accounts' \in [Members -> Statistics], accounts'[a] = s,
         \A x \in Members \ {a} : accounts'[x] = accounts[x],
         coins' \in [Members -> Nat], vested' \in [Members -> Nat], pending' \in Nat,
         NEW d \in Int, supply' = supply + d,
         SumFunctionOnSet(coins', Members) + SumFunctionOnSet(vested', Members) + pending'
         + (s.credit.allowed_to_repay - s.credit.credit_repaid)
         = SumFunctionOnSet(coins, Members) + SumFunctionOnSet(vested, Members) + pending
           + (accounts[a].credit.allowed_to_repay - accounts[a].credit.credit_repaid) + d,
         got' \in [Members -> Nat], settled' \in [Members -> Nat],
         \A c \in Members \ {0} :
            got'[c] - settled'[c] - (IF s.credit.creditor = c THEN s.credit.credit_repaid ELSE 0)
            = got[c] - settled[c] - (IF accounts[a].credit.creditor = c THEN accounts[a].credit.credit_repaid ELSE 0),
         credit_offers' \in [C!OfferIds -> [creditor : Members, terms : CreditTerms] \cup {None}],
         next_credit' \in 1..(MaxCredits + 1), credits_open' \in BOOLEAN, stakings' \in 0..MaxStakings
  PROVE  CreditInv'
<1>1. /\ IsFiniteSet(Members) /\ accounts \in [Members -> Statistics]
      /\ SumFunctionOnSet(coins, Members) \in Nat /\ SumFunctionOnSet(vested, Members) \in Nat
      /\ SumFunctionOnSet(Withheld(accounts), Members) \in Int
      /\ \A c : SumFunctionOnSet(Collected(accounts, c), Members) \in Int
  BY CreditSums DEF CreditInv
<1>2. /\ SumFunctionOnSet(Withheld(accounts'), Members)
         = SumFunctionOnSet(Withheld(accounts), Members) + (Withheld(accounts')[a] - Withheld(accounts)[a])
      /\ \A c : SumFunctionOnSet(Collected(accounts', c), Members)
         = SumFunctionOnSet(Collected(accounts, c), Members) + (Collected(accounts', c)[a] - Collected(accounts, c)[a])
  BY <1>1, CreditChanged
<1>4. /\ Withheld(accounts')[a] = s.credit.allowed_to_repay - s.credit.credit_repaid
      /\ Withheld(accounts)[a] = accounts[a].credit.allowed_to_repay - accounts[a].credit.credit_repaid
      /\ \A c : /\ Collected(accounts', c)[a] = IF s.credit.creditor = c THEN s.credit.credit_repaid ELSE 0
                /\ Collected(accounts, c)[a] = IF accounts[a].credit.creditor = c
                                               THEN accounts[a].credit.credit_repaid ELSE 0
  BY DEF Withheld, Collected
<1>5. s.credit.allowed_to_repay \in Nat /\ s.credit.credit_repaid \in Nat
  BY DEF Statistics, C!Credits
<1>6. accounts[a].credit.allowed_to_repay \in Nat /\ accounts[a].credit.credit_repaid \in Nat
  BY CreditOf DEF CreditInv
<1>7. SumFunctionOnSet(coins', Members) \in Nat /\ SumFunctionOnSet(vested', Members) \in Nat
  <2>1. \A x \in Members : coins'[x] \in Nat /\ vested'[x] \in Nat
    OBVIOUS
  <2> QED
    BY <1>1, <2>1, SumNat
<1>8. pending \in Nat /\ supply = AllHeld /\ supply \in Nat
  BY DEF CreditInv, C!TypeOK
<1>9. supply' = AllHeld'
  <2> DEFINE A == SumFunctionOnSet(coins, Members) + SumFunctionOnSet(vested, Members)
             B == SumFunctionOnSet(coins', Members) + SumFunctionOnSet(vested', Members)
             V == SumFunctionOnSet(Withheld(accounts), Members)
             W == SumFunctionOnSet(Withheld(accounts'), Members)
             k == s.credit.allowed_to_repay - s.credit.credit_repaid
             l == accounts[a].credit.allowed_to_repay - accounts[a].credit.credit_repaid
  <2>0. W = V + (k - l)
    <3>1. Withheld(accounts')[a] = k /\ Withheld(accounts)[a] = l
      BY <1>4
    <3> HIDE DEF k, l
    <3> QED
      BY <1>2, <3>1
  <2>1. A \in Nat /\ B \in Nat /\ V \in Int /\ k \in Int /\ l \in Int /\ W = V + (k - l)
    BY <1>1, <1>5, <1>6, <1>7, <2>0
  <2>2. B + pending' + k = A + pending + l + d
    BY <1>1, <1>7, <1>5, <1>6, <1>8
  <2>3. supply = A + V + pending
    BY <1>8 DEF AllHeld
  <2> HIDE DEF A, B, V, W, k, l
  <2>4. supply' = B + W + pending'
    BY <1>8, <2>1, <2>2, <2>3
  <2> QED
    BY <2>4 DEF AllHeld, B, W
<1>10. CreditsOK'
  <2> SUFFICES ASSUME NEW x \in Members PROVE CreditOK(accounts'[x].credit)
    BY DEF CreditsOK
  <2> QED
    BY DEF CreditInv, CreditsOK
<1>11. AllHeld' \in Nat
  <2>1. \A x \in Members : Withheld(accounts')[x] \in Nat
    <3> SUFFICES ASSUME NEW x \in Members PROVE Withheld(accounts')[x] \in Nat
      OBVIOUS
    <3>1. CreditOK(accounts'[x].credit)
      BY <1>10 DEF CreditsOK
    <3>2. accounts'[x].credit.allowed_to_repay \in Nat /\ accounts'[x].credit.credit_repaid \in Nat
      BY DEF Statistics, C!Credits
    <3>3. accounts'[x].credit.credit_repaid <= accounts'[x].credit.allowed_to_repay
      BY <3>1, <3>2 DEF CreditOK, C!NoCredit, C!OpenCredit
    <3> QED
      BY <3>2, <3>3 DEF Withheld
  <2>2. SumFunctionOnSet(Withheld(accounts'), Members) \in Nat
    BY <1>1, <2>1, SumNat
  <2> QED
    BY <1>7, <2>2 DEF AllHeld
<1>12. C!TypeOK'
  BY <1>9, <1>11 DEF C!TypeOK, Statistics
<1>13. ASSUME NEW c \in Members \ {0} PROVE PaidOK(c)'
  <2> DEFINE k == IF s.credit.creditor = c THEN s.credit.credit_repaid ELSE 0
             l == IF accounts[a].credit.creditor = c THEN accounts[a].credit.credit_repaid ELSE 0
             V == SumFunctionOnSet(Collected(accounts, c), Members)
             W == SumFunctionOnSet(Collected(accounts', c), Members)
  <2>0. W = V + (k - l)
    <3>1. Collected(accounts', c)[a] = k /\ Collected(accounts, c)[a] = l
      BY <1>4
    <3> HIDE DEF k, l
    <3> QED
      BY <1>2, <3>1
  <2>1. V \in Int /\ k \in Int /\ l \in Int /\ W = V + (k - l)
    BY <1>1, <1>5, <1>6, <2>0
  <2>2. got[c] \in Nat /\ settled[c] \in Nat /\ got'[c] \in Nat /\ settled'[c] \in Nat
    BY DEF CreditInv, C!TypeOK
  <2>3. got'[c] - settled'[c] - k = got[c] - settled[c] - l
    OBVIOUS
  <2>4. got[c] = settled[c] + V
    BY DEF CreditInv, PaidOK
  <2> HIDE DEF V, W, k, l
  <2>5. \A g, t, h, u \in Nat : h - u - k = g - t - l /\ g = t + V => h = u + W
    BY <2>1
  <2>6. got'[c] = settled'[c] + W
    BY <2>2, <2>3, <2>4, <2>5
  <2> QED
    BY <2>6 DEF PaidOK, W
<1> QED
  BY <1>9, <1>10, <1>12, <1>13 DEF CreditInv

(* A step that changes no credit and no balance. *)
LEMMA CreditSame ==
  ASSUME CreditAssumptions, CreditInv, UNCHANGED <<coins, vested, supply, pending, got, settled>>,
         accounts' \in [Members -> Statistics], \A a \in Members : accounts'[a].credit = accounts[a].credit,
         credit_offers' \in [C!OfferIds -> [creditor : Members, terms : CreditTerms] \cup {None}],
         next_credit' \in 1..(MaxCredits + 1), credits_open' \in BOOLEAN, stakings' \in 0..MaxStakings
  PROVE  CreditInv'
<1>1. Withheld(accounts') = Withheld(accounts) /\ \A c : Collected(accounts', c) = Collected(accounts, c)
  BY DEF Withheld, Collected
<1>2. C!TypeOK'
  BY DEF CreditInv, C!TypeOK, Statistics
<1>3. CreditsOK'
  BY DEF CreditInv, CreditsOK
<1>4. supply' = AllHeld'
  BY <1>1 DEF CreditInv, AllHeld
<1>5. ASSUME NEW c \in Members \ {0} PROVE PaidOK(c)'
  BY <1>1 DEF CreditInv, PaidOK
<1> QED
  BY <1>2, <1>3, <1>4, <1>5 DEF CreditInv

(* The statistics of one member are replaced. *)
LEMMA StatisticsSet ==
  ASSUME CreditAssumptions, C!TypeOK, NEW a \in Members, NEW s \in Statistics,
         accounts' = [accounts EXCEPT ![a] = s]
  PROVE  /\ accounts' \in [Members -> Statistics] /\ accounts'[a] = s
         /\ \A x \in Members \ {a} : accounts'[x] = accounts[x]
<1>1. accounts \in [Members -> Statistics]
  BY CreditSums
<1> QED
  BY <1>1

(* A new credit. *)
LEMMA OpenCreditOK ==
  ASSUME CreditAssumptions, C!TypeOK, NEW a \in Members, NEW n \in Nat, NEW c \in Members, n # 0 \/ c = 0
  PROVE  LET s == [accounts[a] EXCEPT !.credit = C!OpenCredit(n, c)]
         IN  /\ s \in Statistics /\ CreditOK(s.credit)
             /\ s.credit.allowed_to_repay = 0 /\ s.credit.credit_repaid = 0
<1> DEFINE s == [accounts[a] EXCEPT !.credit = C!OpenCredit(n, c)]
<1>1. accounts[a] \in Statistics
  BY CreditOf
<1>2. C!OpenCredit(n, c) \in C!Credits /\ CreditOK(C!OpenCredit(n, c))
  BY DEF C!Credits, CreditOK, C!NoCredit, C!OpenCredit
<1>3. s.credit = C!OpenCredit(n, c) /\ s \in Statistics
  BY <1>1, <1>2 DEF Statistics
<1> QED
  BY <1>2, <1>3 DEF C!OpenCredit

(* credit_system_get *)
LEMMA SystemGetStep ==
  ASSUME CreditAssumptions, CreditInv, NEW a \in Members, NEW n \in Incomes, C!CreditSystemGet(a, n)
  PROVE  CreditInv'
<1> DEFINE s == [accounts[a] EXCEPT !.credit = C!OpenCredit(2 * n, 0)]
<1>1. n \in Nat /\ 0 \in Members /\ C!TypeOK
  BY DEF CreditAssumptions, C!AccountAssumption, C!TermsAssumption, CreditInv
<1>2. /\ s \in Statistics /\ CreditOK(s.credit)
      /\ s.credit.allowed_to_repay = 0 /\ s.credit.credit_repaid = 0
  BY <1>1, OpenCreditOK
<1>3. accounts' = [accounts EXCEPT ![a] = s]
  BY DEF C!CreditSystemGet
<1> HIDE DEF s
<1>4. /\ accounts' \in [Members -> Statistics] /\ accounts'[a] = s
      /\ \A x \in Members \ {a} : accounts'[x] = accounts[x]
  BY <1>1, <1>2, <1>3, StatisticsSet
<1>5. accounts[a].credit = C!NoCredit
  BY DEF C!CreditSystemGet, C!HasCredit, C!Credit, CreditInv, CreditsOK, CreditOK
<1>6. /\ accounts[a].credit.allowed_to_repay = 0 /\ accounts[a].credit.credit_repaid = 0
      /\ accounts[a].credit.creditor = 0
  BY <1>5 DEF C!NoCredit, C!OpenCredit
<1>7. /\ coins' = [coins EXCEPT ![a] = @ + n] /\ vested' = vested /\ pending' = pending
      /\ supply' = supply + n /\ UNCHANGED <<credit_offers, next_credit, credits_open, got, settled, stakings>>
  BY DEF C!CreditSystemGet, C!offerVars, C!history
<1>8. /\ coins \in [Members -> Nat] /\ coins \in [Members -> Int] /\ coins' \in [Members -> Nat]
      /\ vested' \in [Members -> Nat] /\ pending' \in Nat
      /\ got' \in [Members -> Nat] /\ settled' \in [Members -> Nat]
      /\ credit_offers' \in [C!OfferIds -> [creditor : Members, terms : CreditTerms] \cup {None}]
      /\ next_credit' \in 1..(MaxCredits + 1) /\ credits_open' \in BOOLEAN /\ stakings' \in 0..MaxStakings
  BY <1>1, <1>7 DEF C!TypeOK
<1>9. /\ IsFiniteSet(Members) /\ SumFunctionOnSet(coins, Members) \in Nat
      /\ SumFunctionOnSet(vested, Members) \in Nat
  BY <1>1, CreditSums
<1>10. SumFunctionOnSet(coins', Members) = SumFunctionOnSet(coins, Members) + n
  <2>1. coins'[a] = coins[a] + n /\ \A x \in Members \ {a} : coins'[x] = coins[x]
    BY <1>7, <1>8
  <2> QED
    BY <1>1, <1>8, <1>9, <2>1, OneChanged
<1>11. SumFunctionOnSet(coins', Members) + SumFunctionOnSet(vested', Members) + pending'
       + (s.credit.allowed_to_repay - s.credit.credit_repaid)
       = SumFunctionOnSet(coins, Members) + SumFunctionOnSet(vested, Members) + pending
         + (accounts[a].credit.allowed_to_repay - accounts[a].credit.credit_repaid) + n
  BY <1>1, <1>2, <1>6, <1>7, <1>8, <1>9, <1>10
<1>12. \A c \in Members \ {0} :
          got'[c] - settled'[c] - (IF s.credit.creditor = c THEN s.credit.credit_repaid ELSE 0)
          = got[c] - settled[c] - (IF accounts[a].credit.creditor = c THEN accounts[a].credit.credit_repaid ELSE 0)
  BY <1>2, <1>6, <1>7
<1>13. n \in Int /\ supply' = supply + n
  BY <1>1, <1>7
<1> QED
  BY <1>2, <1>4, <1>8, <1>11, <1>12, <1>13, CreditStep

(* credit_offer_fill *)
LEMMA OfferFillStep ==
  ASSUME CreditAssumptions, CreditInv, NEW i \in C!OfferIds, NEW a \in Members, C!CreditOfferFill(i, a)
  PROVE  CreditInv'
<1> DEFINE c == credit_offers[i].creditor
           t == credit_offers[i].terms
           x == t.credit_amount
           s == [accounts[a] EXCEPT !.credit = C!OpenCredit(t.repay_amount, c)]
           one == [coins EXCEPT ![c] = @ - x]
           d == 0
<1>1. c \in Members /\ t \in CreditTerms /\ 0 \in Members /\ C!TypeOK
  BY DEF CreditAssumptions, C!AccountAssumption, CreditInv, C!CreditOfferFill, C!TypeOK
<1>2. x \in Nat /\ t.repay_amount \in Nat /\ t.repay_amount # 0
  BY <1>1 DEF CreditAssumptions, C!TermsAssumption
<1>3. /\ s \in Statistics /\ CreditOK(s.credit)
      /\ s.credit.allowed_to_repay = 0 /\ s.credit.credit_repaid = 0
  BY <1>1, <1>2, OpenCreditOK
<1>4. accounts' = [accounts EXCEPT ![a] = s]
  BY DEF C!CreditOfferFill
<1>5. /\ coins' = [one EXCEPT ![a] = @ + x] /\ vested' = vested /\ pending' = pending
      /\ supply' = supply /\ UNCHANGED <<next_credit, credits_open, got, settled, stakings>>
      /\ credit_offers' = [credit_offers EXCEPT ![i] = None] /\ coins[c] >= x
  BY DEF C!CreditOfferFill, C!history
<1>6. accounts[a].credit = C!NoCredit
  BY DEF C!CreditOfferFill, C!HasCredit, C!Credit, CreditInv, CreditsOK, CreditOK
<1> HIDE DEF s, c, t, x
<1>7. /\ accounts' \in [Members -> Statistics] /\ accounts'[a] = s
      /\ \A y \in Members \ {a} : accounts'[y] = accounts[y]
  BY <1>1, <1>3, <1>4, StatisticsSet
<1>8. /\ accounts[a].credit.allowed_to_repay = 0 /\ accounts[a].credit.credit_repaid = 0
      /\ accounts[a].credit.creditor = 0
  BY <1>6 DEF C!NoCredit, C!OpenCredit
<1>9. coins \in [Members -> Nat] /\ coins \in [Members -> Int]
  BY <1>1 DEF C!TypeOK
<1>10. /\ one \in [Members -> Nat] /\ one \in [Members -> Int]
       /\ one[c] = coins[c] + (0 - x) /\ \A y \in Members \ {c} : one[y] = coins[y]
  <2>1. coins[c] - x \in Nat /\ coins[c] - x = coins[c] + (0 - x)
    BY <1>1, <1>2, <1>5, <1>9
  <2> QED
    BY <1>1, <1>9, <2>1
<1> HIDE DEF one
<1>11. /\ coins' \in [Members -> Nat]
       /\ vested' \in [Members -> Nat] /\ pending' \in Nat /\ supply \in Nat
       /\ got' \in [Members -> Nat] /\ settled' \in [Members -> Nat]
       /\ credit_offers' \in [C!OfferIds -> [creditor : Members, terms : CreditTerms] \cup {None}]
       /\ next_credit' \in 1..(MaxCredits + 1) /\ credits_open' \in BOOLEAN /\ stakings' \in 0..MaxStakings
  BY <1>1, <1>2, <1>5, <1>10 DEF C!TypeOK
<1>12. /\ IsFiniteSet(Members) /\ SumFunctionOnSet(coins, Members) \in Nat
       /\ SumFunctionOnSet(vested, Members) \in Nat
  BY <1>1, CreditSums
<1>13. SumFunctionOnSet(one, Members) = SumFunctionOnSet(coins, Members) + (0 - x)
  BY <1>1, <1>2, <1>9, <1>10, <1>12, OneChanged
<1>14. SumFunctionOnSet(coins', Members) = SumFunctionOnSet(one, Members) + x
  <2>1. coins'[a] = one[a] + x /\ \A y \in Members \ {a} : coins'[y] = one[y]
    BY <1>5, <1>10
  <2> QED
    BY <1>2, <1>10, <1>12, <2>1, OneChanged
<1>15. SumFunctionOnSet(coins', Members) = SumFunctionOnSet(coins, Members)
  BY <1>2, <1>12, <1>13, <1>14
<1>16. SumFunctionOnSet(coins', Members) + SumFunctionOnSet(vested', Members) + pending'
       + (s.credit.allowed_to_repay - s.credit.credit_repaid)
       = SumFunctionOnSet(coins, Members) + SumFunctionOnSet(vested, Members) + pending
         + (accounts[a].credit.allowed_to_repay - accounts[a].credit.credit_repaid) + d
  BY <1>3, <1>5, <1>8, <1>11, <1>12, <1>15
<1>17. \A y \in Members \ {0} :
          got'[y] - settled'[y] - (IF s.credit.creditor = y THEN s.credit.credit_repaid ELSE 0)
          = got[y] - settled[y] - (IF accounts[a].credit.creditor = y THEN accounts[a].credit.credit_repaid ELSE 0)
  BY <1>3, <1>5, <1>8
<1>18. d \in Int /\ supply' = supply + d
  BY <1>5, <1>11
<1> HIDE DEF d
<1> QED
  BY <1>3, <1>7, <1>11, <1>16, <1>17, <1>18, CreditStep

(* credit_repay *)
LEMMA CreditRepayStep ==
  ASSUME CreditAssumptions, CreditInv, NEW a \in Members, NEW n \in Incomes, C!CreditRepay(a, n)
  PROVE  CreditInv'
<1> DEFINE old == accounts[a].credit
           c == old.creditor
           s == [accounts[a] EXCEPT !.credit.credit_repaid = @ + n]
           d == 0
<1>1. n \in Nat /\ C!TypeOK /\ CreditOK(old)
  BY DEF CreditAssumptions, C!TermsAssumption, CreditInv, CreditsOK
<1>2. /\ accounts[a] \in Statistics /\ old \in C!Credits /\ c \in Members
      /\ old.total_credit \in Nat /\ old.allowed_to_repay \in Nat /\ old.credit_repaid \in Nat
  BY <1>1, CreditOf
<1>3. c # 0 /\ old.allowed_to_repay - old.credit_repaid >= n /\ accounts' = [accounts EXCEPT ![a] = s]
  BY DEF C!CreditRepay, C!Credit
<1>4. /\ s.credit = [old EXCEPT !.credit_repaid = @ + n] /\ s \in Statistics
  BY <1>1, <1>2 DEF Statistics, C!Credits
<1>5. /\ s.credit.total_credit = old.total_credit /\ s.credit.allowed_to_repay = old.allowed_to_repay
      /\ s.credit.credit_repaid = old.credit_repaid + n /\ s.credit.creditor = c
  BY <1>2, <1>4 DEF C!Credits
<1>6. old.total_credit # 0
  BY <1>1, <1>3 DEF CreditOK, C!NoCredit, C!OpenCredit
<1> HIDE DEF s
<1>7. CreditOK(s.credit)
  BY <1>1, <1>2, <1>3, <1>5, <1>6 DEF CreditOK
<1>8. /\ accounts' \in [Members -> Statistics] /\ accounts'[a] = s
      /\ \A y \in Members \ {a} : accounts'[y] = accounts[y]
  BY <1>1, <1>3, <1>4, StatisticsSet
<1>9. /\ coins' = [coins EXCEPT ![c] = @ + n] /\ got' = [got EXCEPT ![c] = @ + n]
      /\ UNCHANGED <<vested, credit_offers, next_credit, supply, pending, credits_open, settled, stakings>>
  BY DEF C!CreditRepay, C!Credit, C!offerVars
<1> HIDE DEF c, old
<1>10. /\ coins \in [Members -> Nat] /\ coins \in [Members -> Int] /\ coins' \in [Members -> Nat]
       /\ vested' \in [Members -> Nat] /\ pending' \in Nat /\ supply \in Nat
       /\ got \in [Members -> Nat] /\ got' \in [Members -> Nat]
       /\ settled \in [Members -> Nat] /\ settled' \in [Members -> Nat] /\ settled' = settled
       /\ credit_offers' \in [C!OfferIds -> [creditor : Members, terms : CreditTerms] \cup {None}]
       /\ next_credit' \in 1..(MaxCredits + 1) /\ credits_open' \in BOOLEAN /\ stakings' \in 0..MaxStakings
  BY <1>1, <1>2, <1>9 DEF C!TypeOK
<1>11. /\ IsFiniteSet(Members) /\ SumFunctionOnSet(coins, Members) \in Nat
       /\ SumFunctionOnSet(vested, Members) \in Nat
  BY <1>1, CreditSums
<1>12. SumFunctionOnSet(coins', Members) = SumFunctionOnSet(coins, Members) + n
  <2>1. coins'[c] = coins[c] + n /\ \A x \in Members \ {c} : coins'[x] = coins[x]
    BY <1>2, <1>9, <1>10
  <2> QED
    BY <1>1, <1>2, <1>10, <1>11, <2>1, OneChanged
<1>13. SumFunctionOnSet(coins', Members) + SumFunctionOnSet(vested', Members) + pending'
       + (s.credit.allowed_to_repay - s.credit.credit_repaid)
       = SumFunctionOnSet(coins, Members) + SumFunctionOnSet(vested, Members) + pending
         + (old.allowed_to_repay - old.credit_repaid) + d
  BY <1>1, <1>2, <1>5, <1>9, <1>10, <1>11, <1>12
<1>14. \A y \in Members \ {0} :
          got'[y] - settled'[y] - (IF s.credit.creditor = y THEN s.credit.credit_repaid ELSE 0)
          = got[y] - settled[y] - (IF old.creditor = y THEN old.credit_repaid ELSE 0)
  <2> SUFFICES ASSUME NEW y \in Members \ {0}
               PROVE  got'[y] - settled'[y] - (IF s.credit.creditor = y THEN s.credit.credit_repaid ELSE 0)
                      = got[y] - settled[y] - (IF old.creditor = y THEN old.credit_repaid ELSE 0)
    OBVIOUS
  <2>1. c = old.creditor
    BY DEF c, old
  <2>2. got[y] \in Nat /\ settled[y] \in Nat
    BY <1>10
  <2>3. CASE y = c
    <3>1. got'[y] = got[y] + n
      BY <1>9, <1>10, <2>3
    <3> QED
      BY <1>1, <1>2, <1>5, <1>10, <2>1, <2>2, <2>3, <3>1
  <2>4. CASE y # c
    <3>1. got'[y] = got[y]
      BY <1>9, <1>10, <2>4
    <3> QED
      BY <1>5, <1>10, <2>1, <2>2, <2>4, <3>1
  <2> QED
    BY <2>3, <2>4
<1>15. d \in Int /\ supply' = supply + d
  BY <1>9, <1>10
<1> HIDE DEF d
<1> QED
  BY <1>4, <1>7, <1>8, <1>10, <1>13, <1>14, <1>15, CreditStep DEF old

(* An income of n for a, of which the rest r.rest goes to one of its       *)
(* balances: what the creditor is paid.                                    *)
LEMMA PaidStep ==
  ASSUME CreditAssumptions, CreditInv, NEW a \in Members, NEW n \in Nat, NEW b \in BOOLEAN,
         NEW r, r = C!Repayment(a, n, b),
         accounts' = [accounts EXCEPT ![a] = r.stats], C!PayCreditor(r),
         coins' \in [Members -> Nat], vested' \in [Members -> Nat], pending' \in Nat,
         NEW d \in Int, supply' = supply - r.burnt + d,
         SumFunctionOnSet(coins', Members) + SumFunctionOnSet(vested', Members) + pending' + n
         = SumFunctionOnSet(coins, Members) + SumFunctionOnSet(vested, Members) + pending + r.paid + r.rest + d,
         UNCHANGED <<credit_offers, next_credit, credits_open>>, stakings' \in 0..MaxStakings
  PROVE  CreditInv'
<1> DEFINE old == accounts[a].credit
           new == r.stats.credit
<1>1. C!TypeOK /\ CreditsOK
  BY DEF CreditInv
<1>2. /\ r.stats \in Statistics /\ CreditOK(new)
      /\ r.rest \in Nat /\ r.burnt \in Nat /\ r.paid \in Nat /\ r.closed \in Nat
      /\ r.creditor \in Members
      /\ n + (old.allowed_to_repay - old.credit_repaid)
         = r.paid + r.rest + r.burnt + (new.allowed_to_repay - new.credit_repaid)
      /\ \A c \in Members \ {0} :
           (IF old.creditor = c THEN old.credit_repaid ELSE 0) + (IF r.creditor = c THEN r.paid ELSE 0)
           = (IF r.creditor = c THEN r.closed ELSE 0) + (IF new.creditor = c THEN new.credit_repaid ELSE 0)
  BY <1>1, RepaymentFacts
<1>3. /\ old.allowed_to_repay \in Nat /\ old.credit_repaid \in Nat
      /\ new.allowed_to_repay \in Nat /\ new.credit_repaid \in Nat
  BY <1>1, <1>2, CreditOf DEF Statistics, C!Credits
<1>4. /\ accounts' \in [Members -> Statistics] /\ accounts'[a] = r.stats
      /\ \A y \in Members \ {a} : accounts'[y] = accounts[y]
  BY <1>1, <1>2, StatisticsSet
<1>5. /\ got' = [got EXCEPT ![r.creditor] = @ + r.paid]
      /\ settled' = [settled EXCEPT ![r.creditor] = @ + r.closed]
  BY DEF C!PayCreditor
<1>6. /\ got \in [Members -> Nat] /\ got' \in [Members -> Nat] /\ supply \in Nat /\ pending \in Nat
      /\ settled \in [Members -> Nat] /\ settled' \in [Members -> Nat]
      /\ credit_offers' \in [C!OfferIds -> [creditor : Members, terms : CreditTerms] \cup {None}]
      /\ next_credit' \in 1..(MaxCredits + 1) /\ credits_open' \in BOOLEAN
  BY <1>1, <1>2, <1>5 DEF C!TypeOK
<1>7. /\ IsFiniteSet(Members) /\ SumFunctionOnSet(coins, Members) \in Nat
      /\ SumFunctionOnSet(vested, Members) \in Nat
  BY <1>1, CreditSums
<1>8. SumFunctionOnSet(coins', Members) \in Nat /\ SumFunctionOnSet(vested', Members) \in Nat
  <2>1. \A x \in Members : coins'[x] \in Nat /\ vested'[x] \in Nat
    OBVIOUS
  <2> QED
    BY <1>7, <2>1, SumNat
<1>9. \A y \in Members \ {0} :
         got'[y] - settled'[y] - (IF new.creditor = y THEN new.credit_repaid ELSE 0)
         = got[y] - settled[y] - (IF old.creditor = y THEN old.credit_repaid ELSE 0)
  <2> SUFFICES ASSUME NEW y \in Members \ {0}
               PROVE  got'[y] - settled'[y] - (IF new.creditor = y THEN new.credit_repaid ELSE 0)
                      = got[y] - settled[y] - (IF old.creditor = y THEN old.credit_repaid ELSE 0)
    OBVIOUS
  <2> DEFINE k == IF new.creditor = y THEN new.credit_repaid ELSE 0
             l == IF old.creditor = y THEN old.credit_repaid ELSE 0
             p == IF r.creditor = y THEN r.paid ELSE 0
             q == IF r.creditor = y THEN r.closed ELSE 0
  <2>1. k \in Nat /\ l \in Nat /\ p \in Nat /\ q \in Nat /\ l + p = q + k
    BY <1>2, <1>3
  <2>2. got[y] \in Nat /\ settled[y] \in Nat
    BY <1>6
  <2>3. got'[y] = got[y] + p /\ settled'[y] = settled[y] + q
    BY <1>2, <1>5, <1>6, <2>2
  <2> HIDE DEF k, l, p, q
  <2>4. got'[y] - settled'[y] - k = got[y] - settled[y] - l
    BY <2>1, <2>2, <2>3
  <2> QED
    BY <2>4 DEF k, l
<1> DEFINE A == SumFunctionOnSet(coins, Members)   B == SumFunctionOnSet(vested, Members)
           D == SumFunctionOnSet(coins', Members)  E == SumFunctionOnSet(vested', Members)
           e == d - r.burnt
<1>10. e \in Int /\ supply' = supply + e
  BY <1>2, <1>6
<1>11. D + E + pending' + n = A + B + pending + r.paid + r.rest + d
  OBVIOUS
<1>12. A \in Nat /\ B \in Nat /\ D \in Nat /\ E \in Nat
  BY <1>7, <1>8
<1>13. D + E + pending' + (new.allowed_to_repay - new.credit_repaid)
       = A + B + pending + (old.allowed_to_repay - old.credit_repaid) + e
  <2> HIDE DEF A, B, D, E, old, new
  <2> QED
    BY <1>2, <1>3, <1>6, <1>11, <1>12
<1> HIDE DEF e
<1> QED
  BY <1>2, <1>4, <1>6, <1>9, <1>10, <1>13, CreditStep

(* deposit_cashback *)
LEMMA CashbackStep ==
  ASSUME CreditAssumptions, CreditInv, NEW a \in Earners, NEW n \in Incomes, NEW b \in BOOLEAN,
         C!DepositCashback(a, n, b)
  PROVE  CreditInv'
<1> DEFINE r == C!Repayment(a, n, b)
           d == IF a = 0 THEN 0 - r.rest ELSE 0
<1>1. n \in Nat /\ a \in Members /\ C!TypeOK /\ CreditsOK
  BY DEF CreditAssumptions, C!AccountAssumption, C!TermsAssumption, CreditInv
<1>2. r.rest \in Nat /\ r.burnt \in Nat /\ r.paid \in Nat /\ r.creditor \in Members
  BY <1>1, RepaymentFacts
<1>3. /\ pending >= n /\ pending' = pending - n /\ C!PayCreditor(r)
      /\ accounts' = [accounts EXCEPT ![a] = r.stats]
      /\ coins' = [coins EXCEPT ![r.creditor] = @ + r.paid]
      /\ vested' = IF a = 0 THEN vested ELSE [vested EXCEPT ![a] = @ + r.rest]
      /\ supply' = supply - r.burnt - (IF a = 0 THEN r.rest ELSE 0)
      /\ UNCHANGED <<credit_offers, next_credit, credits_open>> /\ stakings' = stakings
  BY DEF C!DepositCashback, C!offerVars
<1>4. /\ accounts' = [accounts EXCEPT ![a] = r.stats] /\ C!PayCreditor(r)
      /\ UNCHANGED <<credit_offers, next_credit, credits_open>>
  BY <1>3
<1> HIDE DEF r
<1>5. /\ coins \in [Members -> Nat] /\ coins \in [Members -> Int] /\ coins' \in [Members -> Nat]
      /\ vested \in [Members -> Nat] /\ vested \in [Members -> Int] /\ vested' \in [Members -> Nat]
      /\ pending \in Nat /\ pending' \in Nat /\ supply \in Nat /\ stakings' \in 0..MaxStakings
  BY <1>1, <1>2, <1>3 DEF C!TypeOK
<1>6. /\ IsFiniteSet(Members) /\ SumFunctionOnSet(coins, Members) \in Nat
      /\ SumFunctionOnSet(vested, Members) \in Nat
  BY <1>1, CreditSums
<1>7. SumFunctionOnSet(coins', Members) = SumFunctionOnSet(coins, Members) + r.paid
  <2>1. coins'[r.creditor] = coins[r.creditor] + r.paid /\ \A x \in Members \ {r.creditor} : coins'[x] = coins[x]
    BY <1>2, <1>3, <1>5
  <2> QED
    BY <1>2, <1>5, <1>6, <2>1, OneChanged
<1>8. SumFunctionOnSet(vested', Members) = SumFunctionOnSet(vested, Members) + (r.rest + d)
  <2>1. CASE a = 0
    BY <1>2, <1>3, <1>6, <2>1
  <2>2. CASE a # 0
    <3>1. vested'[a] = vested[a] + r.rest /\ \A x \in Members \ {a} : vested'[x] = vested[x]
      BY <1>1, <1>2, <1>3, <1>5, <2>2
    <3>2. SumFunctionOnSet(vested', Members) = SumFunctionOnSet(vested, Members) + r.rest
      BY <1>1, <1>2, <1>5, <1>6, <3>1, OneChanged
    <3> QED
      BY <1>2, <2>2, <3>2
  <2> QED
    BY <2>1, <2>2
<1>9. d \in Int /\ supply' = supply - r.burnt + d
  BY <1>2, <1>3, <1>5
<1> HIDE DEF d
<1>10. SumFunctionOnSet(coins', Members) + SumFunctionOnSet(vested', Members) + pending' + n
       = SumFunctionOnSet(coins, Members) + SumFunctionOnSet(vested, Members) + pending + r.paid + r.rest + d
  BY <1>1, <1>2, <1>3, <1>5, <1>6, <1>7, <1>8, <1>9
<1>11. r = C!Repayment(a, n, b)
  BY DEF r
<1> QED
  BY <1>1, <1>4, <1>5, <1>9, <1>10, <1>11, PaidStep

(* pay_staking_reward *)
LEMMA RewardStep ==
  ASSUME CreditAssumptions, CreditInv, NEW a \in Earners, NEW n \in Rewards, C!PayStakingReward(a, n)
  PROVE  CreditInv'
<1> DEFINE r == C!Repayment(a, n, TRUE)
           one == [coins EXCEPT ![r.creditor] = @ + r.paid]
<1>1. n \in Nat /\ a \in Members /\ C!TypeOK /\ CreditsOK
  BY DEF CreditAssumptions, C!AccountAssumption, C!TermsAssumption, CreditInv
<1>2. r.rest \in Nat /\ r.burnt \in Nat /\ r.paid \in Nat /\ r.creditor \in Members
  BY <1>1, RepaymentFacts
<1>3. /\ C!PayCreditor(r) /\ accounts' = [accounts EXCEPT ![a] = r.stats]
      /\ coins' = [one EXCEPT ![a] = @ + r.rest]
      /\ vested' = vested /\ pending' = pending /\ supply' = supply - r.burnt + n
      /\ UNCHANGED <<credit_offers, next_credit, credits_open>>
      /\ stakings < MaxStakings /\ stakings' = stakings + 1
  BY DEF C!PayStakingReward, C!offerVars
<1> HIDE DEF r
<1>4. /\ coins \in [Members -> Int] /\ one \in [Members -> Nat] /\ one \in [Members -> Int]
      /\ one[r.creditor] = coins[r.creditor] + r.paid
      /\ \A x \in Members \ {r.creditor} : one[x] = coins[x]
  BY <1>1, <1>2 DEF C!TypeOK
<1> HIDE DEF one
<1>5. /\ coins' \in [Members -> Nat] /\ vested' \in [Members -> Nat]
      /\ pending \in Nat /\ pending' \in Nat /\ supply \in Nat
      /\ stakings' \in 0..MaxStakings
  <2>1. MaxStakings \in Nat
    BY DEF CreditAssumptions, C!AccountAssumption
  <2> QED
    BY <1>1, <1>2, <1>3, <1>4, <2>1 DEF C!TypeOK
<1>6. /\ IsFiniteSet(Members) /\ SumFunctionOnSet(coins, Members) \in Nat
      /\ SumFunctionOnSet(vested, Members) \in Nat
  BY <1>1, CreditSums
<1>7. SumFunctionOnSet(one, Members) = SumFunctionOnSet(coins, Members) + r.paid
  BY <1>2, <1>4, <1>6, OneChanged
<1>8. SumFunctionOnSet(coins', Members) = SumFunctionOnSet(one, Members) + r.rest
  <2>1. coins'[a] = one[a] + r.rest /\ \A x \in Members \ {a} : coins'[x] = one[x]
    BY <1>1, <1>2, <1>3, <1>4
  <2> QED
    BY <1>1, <1>2, <1>4, <1>6, <2>1, OneChanged
<1>9. SumFunctionOnSet(coins', Members) + SumFunctionOnSet(vested', Members) + pending' + n
      = SumFunctionOnSet(coins, Members) + SumFunctionOnSet(vested, Members) + pending + r.paid + r.rest + n
  BY <1>1, <1>2, <1>3, <1>5, <1>6, <1>7, <1>8
<1>10. r = C!Repayment(a, n, TRUE)
  BY DEF r
<1>11. n \in Int /\ TRUE \in BOOLEAN
  BY <1>1
<1> QED
  BY <1>1, <1>3, <1>5, <1>9, <1>10, <1>11, PaidStep

(* The steps that move no coin: a hardfork, offers that are made and       *)
(* canceled, and the monthly maintenance.                                  *)
LEMMA QuietCreditStep ==
  ASSUME CreditAssumptions, CreditInv,
         \/ C!Hardfork145
         \/ \E c \in Lenders, t \in CreditTerms : C!CreditOfferCreate(c, t)
         \/ \E i \in C!OfferIds : C!CreditOfferCancel(i)
         \/ C!CreditMaintenance
         \/ UNCHANGED C!vars
  PROVE  CreditInv'
<1>1. C!TypeOK /\ accounts \in [Members -> Statistics] /\ MaxCredits \in Nat /\ Lenders \subseteq Members
  BY CreditSums DEF CreditInv, CreditAssumptions, C!AccountAssumption
<1>2. CASE C!Hardfork145
  BY <1>1, <1>2, CreditSame DEF C!Hardfork145, C!TypeOK, C!offerVars, C!history
<1>3. ASSUME NEW c \in Lenders, NEW t \in CreditTerms, C!CreditOfferCreate(c, t) PROVE CreditInv'
  <2>1. /\ UNCHANGED <<coins, vested, accounts, supply, pending, got, settled>>
        /\ credits_open' = credits_open /\ stakings' = stakings
        /\ credit_offers' = [credit_offers EXCEPT ![next_credit] = [creditor |-> c, terms |-> t]]
        /\ next_credit' = next_credit + 1 /\ next_credit \in 1..MaxCredits
    BY <1>3 DEF C!CreditOfferCreate, C!history, C!OfferIds
  <2>2. /\ credit_offers' \in [C!OfferIds -> [creditor : Members, terms : CreditTerms] \cup {None}]
        /\ next_credit' \in 1..(MaxCredits + 1) /\ credits_open' \in BOOLEAN /\ stakings' \in 0..MaxStakings
    <3>1. [creditor |-> c, terms |-> t] \in [creditor : Members, terms : CreditTerms]
      BY <1>1
    <3>2. next_credit' \in 1..(MaxCredits + 1)
      BY <1>1, <2>1
    <3> QED
      BY <1>1, <2>1, <3>1, <3>2 DEF C!TypeOK
  <2> QED
    BY <1>1, <2>1, <2>2, CreditSame
<1>4. ASSUME NEW i \in C!OfferIds, C!CreditOfferCancel(i) PROVE CreditInv'
  BY <1>1, <1>4, CreditSame DEF C!CreditOfferCancel, C!TypeOK, C!history
<1>5. CASE C!CreditMaintenance
  <2>1. accounts' = [a \in Members |->
          [accounts[a] EXCEPT !.first = accounts[a].second, !.second = accounts[a].third,
                              !.third = accounts[a].current, !.current = 0]]
    BY <1>5 DEF C!CreditMaintenance
  <2>2. accounts' \in [Members -> Statistics] /\ \A a \in Members : accounts'[a].credit = accounts[a].credit
    <3>1. ASSUME NEW a \in Members
          PROVE  accounts'[a] \in Statistics /\ accounts'[a].credit = accounts[a].credit
      <4>1. accounts'[a] = [accounts[a] EXCEPT !.first = accounts[a].second, !.second = accounts[a].third,
                              !.third = accounts[a].current, !.current = 0]
        BY <2>1
      <4>2. accounts[a] \in Statistics
        BY <1>1
      <4> DEFINE p == [accounts[a] EXCEPT !.first = accounts[a].second]
                 q == [p EXCEPT !.second = accounts[a].third]
                 u == [q EXCEPT !.third = accounts[a].current]
      <4>3. p \in Statistics /\ p.credit = accounts[a].credit
        BY <4>2 DEF Statistics
      <4>4. q \in Statistics /\ q.credit = accounts[a].credit
        <5> HIDE DEF p
        <5> QED
          BY <4>2, <4>3 DEF Statistics
      <4>5. u \in Statistics /\ u.credit = accounts[a].credit
        <5> HIDE DEF q
        <5> QED
          BY <4>2, <4>4 DEF Statistics
      <4>6. accounts'[a] = [u EXCEPT !.current = 0]
        BY <4>1
      <4> HIDE DEF u
      <4> QED
        BY <4>5, <4>6 DEF Statistics
    <3> QED
      BY <2>1, <3>1
  <2>3. /\ UNCHANGED <<coins, vested, supply, pending, got, settled>>
        /\ UNCHANGED <<credit_offers, next_credit, credits_open, stakings>>
    BY <1>5 DEF C!CreditMaintenance, C!offerVars, C!history
  <2> QED
    BY <1>1, <2>2, <2>3, CreditSame DEF C!TypeOK
<1>6. CASE UNCHANGED C!vars
  BY <1>1, <1>6, CreditSame DEF C!vars, C!TypeOK
<1> QED
  BY <1>2, <1>3, <1>4, <1>5, <1>6

LEMMA CreditInit ==
  ASSUME CreditAssumptions, C!Init
  PROVE  CreditInv
<1>1. /\ 0 \in Members /\ IsFiniteSet(Members) /\ Coins \in [Members -> Nat] /\ Pending \in Nat
      /\ MaxCredits \in Nat /\ MaxStakings \in Nat
  BY SameFinite DEF CreditAssumptions, C!AccountAssumption
<1>2. \A a \in Members : accounts[a] = C!NewStats
  BY DEF C!Init
<1>3. C!NewStats \in Statistics /\ C!NewStats.credit = C!NoCredit
  BY <1>1 DEF C!NewStats, Statistics, C!Credits, C!NoCredit, C!OpenCredit
<1>4. CreditsOK
  BY <1>2, <1>3 DEF CreditsOK, CreditOK, C!NoCredit, C!OpenCredit
<1>5. /\ \A a \in Members : Withheld(accounts)[a] = 0
      /\ \A c : \A a \in Members : Collected(accounts, c)[a] = 0
  BY <1>2, <1>3 DEF Withheld, Collected, C!NoCredit, C!OpenCredit
<1>6. SumFunctionOnSet(Withheld(accounts), Members) = 0
  BY <1>1, <1>5, SumZero
<1>7. \A c : SumFunctionOnSet(Collected(accounts, c), Members) = 0
  BY <1>1, <1>5, SumZero
<1>8. SumFunctionOnSet(vested, Members) = 0
  BY <1>1, SumZero DEF C!Init
<1>9. SumFunctionOnSet(coins, Members) \in Nat
  BY <1>1, SumNat DEF C!Init
<1>10. supply = SumFunctionOnSet(coins, Members) + Pending /\ pending = Pending
  BY SameSum DEF C!Init
<1>11. supply = AllHeld /\ supply \in Nat
  BY <1>1, <1>6, <1>8, <1>9, <1>10 DEF AllHeld
<1>12. C!TypeOK
  <2>1. accounts \in [Members -> Statistics]
    BY <1>3 DEF C!Init
  <2> QED
    BY <1>1, <1>11, <2>1 DEF C!Init, C!TypeOK, Statistics
<1>13. ASSUME NEW c \in Members \ {0} PROVE PaidOK(c)
  BY <1>7 DEF PaidOK, C!Init
<1> QED
  BY <1>4, <1>11, <1>12, <1>13 DEF CreditInv

LEMMA CreditNext ==
  ASSUME CreditAssumptions, CreditInv, [C!Next]_(C!vars)
  PROVE  CreditInv'
  BY SystemGetStep, OfferFillStep, CreditRepayStep, CashbackStep, RewardStep, QuietCreditStep DEF C!Next

LEMMA CreditAlways ==
  ASSUME CreditAssumptions
  PROVE  C!Spec => []CreditInv
<1>1. C!Init => CreditInv
  BY CreditInit
<1>2. CreditInv /\ [C!Next]_(C!vars) => CreditInv'
  BY CreditNext
<1> QED
  BY <1>1, <1>2, PTL DEF C!Spec

(* What the accounts hold in coins, vesting balances and withheld income,  *)
(* added up account by account as SupplyAccounted does.                    *)
LEMMA SumsOfAccounts ==
  ASSUME CreditAssumptions, CreditInv
  PROVE  C!SupplyAccounted
<1> DEFINE w == Withheld(accounts)
           h == [a \in Members |-> coins[a] + vested[a]]
           g == [a \in Members |-> coins[a] + vested[a] + C!Withheld(a)]
<1>1. IsFiniteSet(Members) /\ C!TypeOK
  BY CreditSums DEF CreditInv
<1>2. \A a \in Members : w[a] = C!Withheld(a) /\ w[a] \in Int
  <2> SUFFICES ASSUME NEW a \in Members PROVE w[a] = C!Withheld(a) /\ w[a] \in Int
    OBVIOUS
  <2>1. accounts[a].credit.allowed_to_repay \in Nat /\ accounts[a].credit.credit_repaid \in Nat
    BY <1>1, CreditOf
  <2> QED
    BY <2>1 DEF Withheld, C!Withheld, C!Credit
<1>3. \A a \in Members : coins[a] \in Int /\ vested[a] \in Int
  BY <1>1 DEF C!TypeOK
<1>4. \A a \in Members : h[a] = coins[a] + vested[a] /\ h[a] \in Int
  BY <1>3
<1>5. \A a \in Members : g[a] = h[a] + w[a]
  BY <1>2, <1>3, <1>4
<1> HIDE DEF w, h, g
<1>6. SumFunctionOnSet(h, Members) = SumFunctionOnSet(coins, Members) + SumFunctionOnSet(vested, Members)
  BY <1>1, <1>3, <1>4, SumPlus
<1>7. SumFunctionOnSet(g, Members) = SumFunctionOnSet(h, Members) + SumFunctionOnSet(w, Members)
  BY <1>1, <1>2, <1>4, <1>5, SumPlus
<1>8. supply = SumFunctionOnSet(g, Members) + pending
  BY <1>6, <1>7 DEF CreditInv, AllHeld, w
<1> QED
  BY <1>8, SameSum DEF C!SupplyAccounted, g

(* What a creditor collected, added up over its debitors. *)
LEMMA SumsOfDebitors ==
  ASSUME CreditAssumptions, CreditInv
  PROVE  C!CreditorsArePaid
<1> SUFFICES ASSUME NEW c \in Members \ {0}
             PROVE  got[c] = settled[c]
                             + C!SumFunctionOnSet([a \in Members |-> C!Credit(a).credit_repaid],
                                                  {a \in Members : C!Credit(a).creditor = c})
  BY DEF C!CreditorsArePaid
<1> DEFINE f == [a \in Members |-> C!Credit(a).credit_repaid]
           P == {a \in Members : C!Credit(a).creditor = c}
           g == Collected(accounts, c)
<1>1. IsFiniteSet(Members) /\ C!TypeOK
  BY CreditSums DEF CreditInv
<1>2. \A a \in Members : /\ accounts[a].credit.credit_repaid \in Nat
                         /\ f[a] = accounts[a].credit.credit_repaid
                         /\ g[a] = IF accounts[a].credit.creditor = c THEN accounts[a].credit.credit_repaid ELSE 0
  BY <1>1, CreditOf DEF C!Credit, Collected
<1>3. P \in SUBSET Members /\ IsFiniteSet(P)
  BY <1>1, FS_Subset
<1>4. \A a \in Members : g[a] \in Int /\ (a \notin P => g[a] = 0) /\ (a \in P => f[a] = g[a])
  BY <1>2 DEF C!Credit
<1> HIDE DEF f, g, P
<1>5. SumFunctionOnSet(g, Members) = SumFunctionOnSet(g, P)
  BY <1>1, <1>3, <1>4, SumPart
<1>6. SumFunctionOnSet(f, P) = SumFunctionOnSet(g, P)
  BY <1>3, <1>4, SumEqual
<1>7. got[c] = settled[c] + SumFunctionOnSet(f, P)
  BY <1>5, <1>6 DEF CreditInv, PaidOK, g
<1> QED
  BY <1>7, SameSum DEF f, P

(* An open credit changes by its own debitor's income, by what is          *)
(* collected of it, or not at all.                                         *)
LEMMA CreditTermsStep ==
  ASSUME CreditAssumptions, CreditInv, [C!Next]_(C!vars)
  PROVE  C!KeepsCreditTerms
<1> SUFFICES ASSUME NEW a \in Members, accounts[a].credit.total_credit # 0
             PROVE  \/ /\ accounts'[a].credit.total_credit = accounts[a].credit.total_credit
                       /\ accounts'[a].credit.creditor = accounts[a].credit.creditor
                    \/ /\ accounts'[a].credit = C!NoCredit
                       /\ \E income \in {pending - pending', accounts'[a].current - accounts[a].current} :
                             accounts[a].credit.allowed_to_repay + income >= accounts[a].credit.total_credit
  BY DEF C!KeepsCreditTerms, C!HasCredit, C!Credit
<1>1. /\ C!TypeOK /\ CreditsOK /\ accounts \in [Members -> Statistics]
      /\ Incomes \subseteq Nat /\ Rewards \subseteq Nat /\ Earners \subseteq Members
      /\ pending \in Nat /\ accounts[a].current \in Nat
  BY CreditSums, CreditOf DEF CreditInv, CreditAssumptions, C!AccountAssumption, C!TermsAssumption, C!TypeOK
<1>2. CASE accounts'[a] = accounts[a]
  BY <1>2
<1>3. ASSUME NEW e \in Members, NEW n \in Nat, NEW b \in BOOLEAN, accounts' = [accounts EXCEPT ![e] = C!Repayment(e, n, b).stats],
             pending - pending' = n \/ b
      PROVE  \/ /\ accounts'[a].credit.total_credit = accounts[a].credit.total_credit
                /\ accounts'[a].credit.creditor = accounts[a].credit.creditor
             \/ /\ accounts'[a].credit = C!NoCredit
                /\ \E income \in {pending - pending', accounts'[a].current - accounts[a].current} :
                      accounts[a].credit.allowed_to_repay + income >= accounts[a].credit.total_credit
  <2> DEFINE old     == accounts[a].credit
             earned  == C!Earn(a, n, b)
             missing == old.total_credit - old.allowed_to_repay
  <2>1. CASE e # a
    BY <1>1, <1>3, <2>1, <1>2
  <2>2. CASE e = a
    <3>1. /\ accounts[a] \in Statistics /\ old \in C!Credits
          /\ old.total_credit \in Nat /\ old.allowed_to_repay \in Nat
      BY <1>1, CreditOf
    <3>2. /\ earned \in Statistics /\ earned.credit = old
          /\ b => earned.current = accounts[a].current + n
      BY <1>1, <1>3, <3>1 DEF C!Earn, Statistics
    <3>3. accounts'[a] = C!Repayment(a, n, b).stats
      BY <1>1, <1>3, <2>2
    <3>4. CASE missing > n
      <4>1. accounts'[a] = [earned EXCEPT !.credit.allowed_to_repay = @ + n]
        BY <3>3, <3>4 DEF C!Repayment, C!HasCredit, C!Credit
      <4> HIDE DEF earned
      <4>2. accounts'[a].credit = [old EXCEPT !.allowed_to_repay = @ + n]
        BY <3>1, <3>2, <4>1 DEF Statistics, C!Credits
      <4> QED
        BY <3>1, <4>2 DEF C!Credits
    <3>5. CASE missing <= n
      <4>1. accounts'[a] = [earned EXCEPT !.credit = C!NoCredit]
        BY <1>3, <3>1, <3>3, <3>5 DEF C!Repayment, C!HasCredit, C!Credit
      <4> HIDE DEF earned
      <4>2. accounts'[a].credit = C!NoCredit /\ accounts'[a].current = earned.current
        BY <3>2, <4>1 DEF Statistics
      <4>3. pending - pending' = n \/ accounts'[a].current - accounts[a].current = n
        BY <1>1, <1>3, <3>2, <4>2
      <4>4. old.allowed_to_repay + n >= old.total_credit
        BY <1>3, <3>1, <3>5
      <4> QED
        BY <4>2, <4>3, <4>4
    <3> QED
      BY <1>3, <3>1, <3>4, <3>5
  <2> QED
    BY <2>1, <2>2
<1>4. ASSUME NEW e \in Earners, NEW n \in Incomes, NEW b \in BOOLEAN, C!DepositCashback(e, n, b)
      PROVE  accounts' = [accounts EXCEPT ![e] = C!Repayment(e, n, b).stats] /\ pending - pending' = n
  <2>1. pending' = pending - n /\ n \in Nat
    BY <1>1, <1>4 DEF C!DepositCashback
  <2> QED
    BY <1>1, <1>4, <2>1 DEF C!DepositCashback
<1>5. ASSUME NEW e \in Earners, NEW n \in Rewards, C!PayStakingReward(e, n)
      PROVE  accounts' = [accounts EXCEPT ![e] = C!Repayment(e, n, TRUE).stats]
  BY <1>5 DEF C!PayStakingReward
<1>6. ASSUME NEW e \in Members, NEW n \in Incomes, C!CreditSystemGet(e, n) PROVE accounts'[a] = accounts[a]
  BY <1>1, <1>6 DEF C!CreditSystemGet, C!HasCredit, C!Credit
<1>7. ASSUME NEW i \in C!OfferIds, NEW e \in Members, C!CreditOfferFill(i, e) PROVE accounts'[a] = accounts[a]
  BY <1>1, <1>7 DEF C!CreditOfferFill, C!HasCredit, C!Credit
<1>8. ASSUME NEW e \in Members, NEW n \in Incomes, C!CreditRepay(e, n)
      PROVE  /\ accounts'[a].credit.total_credit = accounts[a].credit.total_credit
             /\ accounts'[a].credit.creditor = accounts[a].credit.creditor
  <2> DEFINE s == [accounts[e] EXCEPT !.credit.credit_repaid = @ + n]
  <2>1. accounts' = [accounts EXCEPT ![e] = s]
    BY <1>8 DEF C!CreditRepay
  <2>2. accounts[e] \in Statistics /\ accounts[e].credit \in C!Credits
    BY <1>1, CreditOf
  <2>3. s.credit = [accounts[e].credit EXCEPT !.credit_repaid = @ + n]
    BY <2>2 DEF Statistics
  <2> HIDE DEF s
  <2>4. CASE e = a
    BY <1>1, <2>1, <2>2, <2>3, <2>4 DEF C!Credits
  <2>5. CASE e # a
    BY <1>1, <2>1, <2>5
  <2> QED
    BY <2>4, <2>5
<1>9. CASE C!CreditMaintenance
  <2>1. accounts'[a] = [accounts[a] EXCEPT !.first = accounts[a].second, !.second = accounts[a].third,
                                           !.third = accounts[a].current, !.current = 0]
    BY <1>9 DEF C!CreditMaintenance
  <2>2. accounts'[a].credit = accounts[a].credit
    BY <1>1, <2>1 DEF Statistics
  <2> QED
    BY <2>2
<1>10. CASE \/ C!Hardfork145
            \/ \E c \in Lenders, t \in CreditTerms : C!CreditOfferCreate(c, t)
            \/ \E i \in C!OfferIds : C!CreditOfferCancel(i)
            \/ UNCHANGED C!vars
  BY <1>2, <1>10 DEF C!Hardfork145, C!CreditOfferCreate, C!CreditOfferCancel, C!vars
<1>11. CASE \E e \in Earners, n \in Incomes, b \in BOOLEAN : C!DepositCashback(e, n, b)
  BY <1>1, <1>3, <1>4, <1>11
<1>12. CASE \E e \in Earners, n \in Rewards : C!PayStakingReward(e, n)
  BY <1>1, <1>3, <1>5, <1>12
<1> QED
  BY <1>2, <1>6, <1>7, <1>8, <1>9, <1>10, <1>11, <1>12 DEF C!Next

(* Balances, statistics and offers of credits keep their types: no balance *)
(* becomes negative, and current_supply does not run below zero when       *)
(* deposit_cashback burns a repaid credit of the system.                   *)
THEOREM CreditTypes ==
  ASSUME CreditAssumptions
  PROVE  C!Spec => []C!TypeOK
<1>1. CreditInv => C!TypeOK
  BY DEF CreditInv
<1> QED
  BY <1>1, CreditAlways, PTL

(* current_supply is what the accounts, the fees and the open credits hold *)
(* after any sequence of credits, repayments, incomes and stakings         *)
(* (credit_system_get, credit_offer_fill, credit_repay, deposit_cashback,  *)
(* pay_staking_reward).                                                    *)
THEOREM CreditSupply ==
  ASSUME CreditAssumptions
  PROVE  C!Spec => []C!SupplyAccounted
<1>1. CreditInv => C!SupplyAccounted
  BY SumsOfAccounts
<1> QED
  BY <1>1, CreditAlways, PTL

(* A creditor never collects more than was withheld, and a credit that is  *)
(* covered does not stay open (credit_repay, deposit_cashback).            *)
THEOREM CreditBounds ==
  ASSUME CreditAssumptions
  PROVE  C!Spec => []C!CreditsWithinBounds
<1>1. CreditInv => C!CreditsWithinBounds
  BY DEF CreditInv, CreditsOK, CreditOK, C!CreditsWithinBounds, C!HasCredit, C!Credit
<1> QED
  BY <1>1, CreditAlways, PTL

(* A creditor has got exactly the amounts of its closed credits and what   *)
(* it collected of the open ones, in whatever order credit_repay and the   *)
(* incomes of its debitors came.                                           *)
THEOREM CreditorsPaid ==
  ASSUME CreditAssumptions
  PROVE  C!Spec => []C!CreditorsArePaid
<1>1. CreditInv => C!CreditorsArePaid
  BY SumsOfDebitors
<1> QED
  BY <1>1, CreditAlways, PTL

(* No step replaces an open credit or drops it before the income of its    *)
(* debitor covers it.                                                      *)
THEOREM CreditTermsKept ==
  ASSUME CreditAssumptions
  PROVE  C!Spec => [][C!KeepsCreditTerms]_(C!vars)
<1>1. CreditInv /\ [C!Next]_(C!vars) => C!KeepsCreditTerms
  BY CreditTermsStep
<1> QED
  BY <1>1, CreditAlways, PTL DEF C!Spec

-----------------------------------------------------------------------------
(* Pledges and approved transfers *)

CONSTANTS Judges, Ranks, Purses, PledgeTerms, SentAmounts, Payrolls, GcwdPrice, GcwdStep, GcwdMaxSupply,
          JudgeShare, ClockWidth, LastTime, MaxPledges, MaxSent

VARIABLES purses, pledges, transfers, ids, accumulated, gcwd_supply, gcwd_price, clock

Pl == INSTANCE Pledges WITH
    Accounts <- Members, Arbitrators <- Judges, StatusOf <- Ranks, Balances <- Purses, Terms <- PledgeTerms,
    Transfers <- SentAmounts, Payments <- Payrolls, Commission <- JudgeShare, TimeWidth <- ClockWidth,
    MaxTime <- LastTime, MaxOffers <- MaxPledges, MaxTransfers <- MaxSent,
    balance <- purses, next <- ids, now <- clock

PledgeAssumptions == Pl!AccountAssumption /\ Pl!AmountAssumption /\ Pl!TimeAssumption /\ Pl!NoneAssumption

(* The library's operators are the same in the module of pledges. *)
LEMMA SameFinitePledges ==
  ASSUME NEW S
  PROVE  (Pl!IsFiniteSet(S) <=> IsFiniteSet(S)) /\ Pl!Cardinality(S) = Cardinality(S)
  BY DEF Pl!IsFiniteSet, IsFiniteSet, Pl!Cardinality, Cardinality

LEMMA SameSumPledges ==
  ASSUME NEW f, NEW S
  PROVE  /\ Pl!SumFunctionOnSet(f, S) = SumFunctionOnSet(f, S)
         /\ Pl!SumFunction(f) = SumFunctionOnSet(f, DOMAIN f)
  BY DEF Pl!SumFunction, Pl!SumFunctionOnSet, Pl!FoldFunction, Pl!FoldFunctionOnSet, Pl!MapThenFoldSet,
         SumFunctionOnSet, FoldFunctionOnSet, MapThenFoldSet

-----------------------------------------------------------------------------
(* The walk over an index *)

(* First is the least object of a nonempty set in the order of the index,  *)
(* and 0 of the empty one.                                                 *)
Before(key, j, k) == key[j] < key[k] \/ (key[j] = key[k] /\ j <= k)

LEMMA FirstIs ==
  ASSUME NEW S \in SUBSET (Nat \ {0}), NEW key, \A i \in S : key[i] \in Nat
  PROVE  /\ S = {} => Pl!First(key, S) = 0
         /\ S # {} => Pl!First(key, S) \in S /\ \A k \in S : Before(key, Pl!First(key, S), k)
         /\ \A j \in S : (\A k \in S : Before(key, j, k)) => j = Pl!First(key, S)
<1>1. S = {} => Pl!First(key, S) = 0
  BY DEF Pl!First
<1>2. CASE S # {}
  <2> DEFINE G == {key[i] : i \in S}
  <2>1. G \in SUBSET Nat /\ G # {}
    BY <1>2
  <2>2. PICK n \in G : \A m \in G : n <= m
    BY <2>1, NatLeast
  <2> DEFINE H == {i \in S : key[i] = n}
  <2>3. H \in SUBSET Nat /\ H # {}
    OBVIOUS
  <2> HIDE DEF H
  <2>4. PICK j \in H : \A m \in H : j <= m
    BY <2>3, NatLeast
  <2> USE DEF H
  <2>5. j \in S /\ \A k \in S : Before(key, j, k)
    <3>1. j \in S /\ key[j] = n
      BY <2>4
    <3>2. ASSUME NEW k \in S PROVE Before(key, j, k)
      <4>1. key[k] \in G /\ n <= key[k] /\ key[k] \in Nat /\ n \in Nat
        BY <2>1, <2>2
      <4>2. CASE key[k] = n
        BY <2>4, <3>1, <4>2 DEF Before
      <4>3. CASE key[k] # n
        BY <3>1, <4>1, <4>3 DEF Before
      <4> QED
        BY <4>2, <4>3
    <3> QED
      BY <3>1, <3>2
  <2>6. Pl!First(key, S) = CHOOSE x \in S : \A k \in S : Before(key, x, k)
    BY <1>2 DEF Pl!First, Before
  <2>7. Pl!First(key, S) \in S /\ \A k \in S : Before(key, Pl!First(key, S), k)
    BY <2>5, <2>6
  <2>8. ASSUME NEW x \in S, \A k \in S : Before(key, x, k) PROVE x = Pl!First(key, S)
    <3> DEFINE f == Pl!First(key, S)
    <3>1. f \in S /\ Before(key, f, x) /\ Before(key, x, f)
      BY <2>7, <2>8
    <3> HIDE DEF f
    <3>2. key[f] \in Nat /\ key[x] \in Nat /\ f \in Nat /\ x \in Nat
      BY <3>1
    <3>3. x = f
      BY <3>1, <3>2 DEF Before
    <3> QED
      BY <3>3 DEF f
  <2> QED
    BY <1>2, <2>7, <2>8
<1> QED
  BY <1>1, <1>2

(* It is a number. *)
LEMMA FirstNat ==
  ASSUME NEW S \in SUBSET (Nat \ {0}), NEW key, \A i \in S : key[i] \in Nat
  PROVE  Pl!First(key, S) \in Nat
<1>1. S = {} => Pl!First(key, S) = 0
  BY FirstIs
<1>2. S # {} => Pl!First(key, S) \in S
  BY FirstIs
<1> DEFINE f == Pl!First(key, S)
<1> HIDE DEF f
<1>3. CASE S = {}
  BY <1>1, <1>3 DEF f
<1>4. CASE S # {}
  <2>1. f \in S
    BY <1>2, <1>4 DEF f
  <2>2. f \in Nat
    BY <2>1
  <2> QED
    BY <2>2 DEF f
<1> QED
  BY <1>3, <1>4

(* A function defined by iteration exists. *)
Iterates(base, F, g) == g = [n \in Nat |-> IF n = 0 THEN base ELSE F[g[n - 1]]]

LEMMA IterationExists ==
  ASSUME NEW base, NEW F
  PROVE  \E g : Iterates(base, F, g)
<1> DEFINE Up(n, g) == g = [k \in 0..n |-> IF k = 0 THEN base ELSE F[g[k - 1]]]
           N == {n \in Nat : \E g : Up(n, g)}
           at(n) == (CHOOSE g : Up(n, g))[n]
           it == [n \in Nat |-> at(n)]
<1>1. 0 \in N
  <2>1. [k \in 0..0 |-> base] = [k \in 0..0 |-> IF k = 0 THEN base ELSE F[[m \in 0..0 |-> base][k - 1]]]
    OBVIOUS
  <2> QED
    BY <2>1
<1>2. ASSUME NEW n \in N PROVE n + 1 \in N
  <2>1. n \in Nat /\ \E g : Up(n, g)
    OBVIOUS
  <2>2. PICK g : Up(n, g)
    BY <2>1
  <2> DEFINE h == [k \in 0..(n + 1) |-> IF k = 0 THEN base ELSE F[g[k - 1]]]
  <2>3. \A k \in 0..n : h[k] = g[k]
    <3>1. ASSUME NEW k \in 0..n PROVE h[k] = g[k]
      <4>1. k \in 0..(n + 1)
        BY <2>1
      <4>2. h[k] = IF k = 0 THEN base ELSE F[g[k - 1]]
        BY <4>1
      <4>3. g[k] = IF k = 0 THEN base ELSE F[g[k - 1]]
        BY <2>2
      <4> QED
        BY <4>2, <4>3
    <3> QED
      BY <3>1
  <2> DEFINE h2 == [k \in 0..(n + 1) |-> IF k = 0 THEN base ELSE F[h[k - 1]]]
  <2>4. \A k \in 0..(n + 1) : h[k] = h2[k]
    <3>1. ASSUME NEW k \in 0..(n + 1) PROVE h[k] = h2[k]
      <4>1. k # 0 => k - 1 \in 0..n
        BY <2>1
      <4>2. h2[k] = IF k = 0 THEN base ELSE F[h[k - 1]]
        OBVIOUS
      <4>3. h[k] = IF k = 0 THEN base ELSE F[g[k - 1]]
        OBVIOUS
      <4> HIDE DEF h, h2
      <4> QED
        BY <2>3, <4>1, <4>2, <4>3
    <3> QED
      BY <3>1
  <2>5. h = h2
    BY <2>4
  <2>6. Up(n + 1, h)
    BY <2>5
  <2>7. n + 1 \in Nat /\ \E f : Up(n + 1, f)
    <3> HIDE DEF Up, h
    <3> QED
      BY <2>1, <2>6
  <2> QED
    BY <2>7
<1>3. \A n \in Nat : n \in N
  <2>1. N \in SUBSET Nat
    OBVIOUS
  <2> HIDE DEF N
  <2> QED
    BY <1>1, <1>2, <2>1, NatSetInduction
<1>4. ASSUME NEW n \in Nat, NEW g, NEW h, Up(n, g), Up(n + 1, h) PROVE g[n] = h[n]
  <2> DEFINE M == {k \in Nat : k <= n => g[k] = h[k]}
  <2>1. \A k \in 0..n : g[k] = IF k = 0 THEN base ELSE F[g[k - 1]]
    BY <1>4
  <2>2. \A k \in 0..(n + 1) : h[k] = IF k = 0 THEN base ELSE F[h[k - 1]]
    BY <1>4
  <2> HIDE DEF Up
  <2>3. 0 \in M
    <3>1. 0 \in 0..n /\ 0 \in 0..(n + 1)
      OBVIOUS
    <3>2. g[0] = base /\ h[0] = base
      BY <2>1, <2>2, <3>1
    <3> QED
      BY <3>2
  <2>4. ASSUME NEW k \in M PROVE k + 1 \in M
    <3>1. SUFFICES ASSUME k + 1 <= n PROVE g[k + 1] = h[k + 1]
      OBVIOUS
    <3>2. g[k + 1] = F[g[(k + 1) - 1]] /\ h[k + 1] = F[h[(k + 1) - 1]] /\ (k + 1) - 1 = k
      BY <2>1, <2>2, <3>1
    <3> QED
      BY <3>1, <3>2
  <2>5. \A k \in Nat : k \in M
    <3>1. M \in SUBSET Nat
      OBVIOUS
    <3> HIDE DEF M
    <3> QED
      BY <2>3, <2>4, <3>1, NatSetInduction
  <2> QED
    BY <2>5
<1>5. \A n \in Nat : Up(n, CHOOSE g : Up(n, g))
  <2>1. \A n \in Nat : \E g : Up(n, g)
    BY <1>3
  <2> HIDE DEF Up
  <2> QED
    BY <2>1
<1>6. ASSUME NEW n \in Nat PROVE it[n] = IF n = 0 THEN base ELSE F[it[n - 1]]
  <2> DEFINE g == CHOOSE f : Up(n, f)
  <2>1. Up(n, g)
    BY <1>5
  <2>2. it[n] = g[n] /\ n \in 0..n
    OBVIOUS
  <2> HIDE DEF g
  <2>3. g[n] = IF n = 0 THEN base ELSE F[g[n - 1]]
    BY <2>1, <2>2
  <2>4. CASE n = 0
    BY <2>2, <2>3, <2>4
  <2>5. CASE n # 0
    <3> DEFINE m == n - 1
               f == CHOOSE x : Up(m, x)
    <3>1. m \in Nat /\ m + 1 = n
      BY <2>5
    <3>2. Up(m, f)
      BY <1>5, <3>1
    <3>3. it[m] = f[m]
      BY <3>1
    <3> HIDE DEF m, f, it, Up
    <3>4. g[m] = f[m]
      BY <1>4, <2>1, <3>1, <3>2
    <3> QED
      BY <2>2, <2>3, <2>5, <3>1, <3>3, <3>4 DEF m
  <2> QED
    BY <2>4, <2>5
<1>7. it = [n \in Nat |-> IF n = 0 THEN base ELSE F[it[n - 1]]]
  <2> HIDE DEF at
  <2> DEFINE it2 == [n \in Nat |-> IF n = 0 THEN base ELSE F[it[n - 1]]]
  <2>1. \A n \in Nat : it[n] = it2[n]
    BY <1>6
  <2> QED
    BY <2>1
<1> QED
  BY <1>7 DEF Iterates

(* What is true at every step of a walk that has come to w: the settled    *)
(* objects have key 0, the others their own, and the walk is at the first  *)
(* object with a key (at its start: with a key over 1).                    *)
WalkOK(objs, head, w) ==
  /\ w.done \in SUBSET {i \in Pl!Ids(objs) : objs[i].expiration > 0 /\ objs[i].expiration < head}
  /\ w.key = [i \in Pl!Ids(objs) |-> IF i \in w.done THEN 0 ELSE objs[i].expiration]
  /\ \/ w.itr = Pl!First(w.key, {j \in Pl!Ids(objs) : w.key[j] > 0})
     \/ w.done = {} /\ w.itr = Pl!First(w.key, {j \in Pl!Ids(objs) : w.key[j] > 1})

Walks(objs, head) ==
  {w \in [itr : Nat, key : [Pl!Ids(objs) -> Nat], done : SUBSET Pl!Ids(objs)] : WalkOK(objs, head, w)}

(* The objects of an index: those with an expiration are of the status     *)
(* that the walk settles.                                                  *)
Indexed(objs, active, n) ==
  /\ n \in Nat /\ DOMAIN objs = 1..n
  /\ \A i \in Pl!Ids(objs) : objs[i].expiration \in Nat /\ (objs[i].expiration > 0 => objs[i].status = active)

(* The ids and the keys of an index. *)
LEMMA IndexIds ==
  ASSUME NEW objs, NEW active, NEW n, Indexed(objs, active, n)
  PROVE  /\ Pl!Ids(objs) \in SUBSET (Nat \ {0}) /\ IsFiniteSet(Pl!Ids(objs))
         /\ Cardinality(Pl!Ids(objs)) \in Nat
         /\ \A i \in Pl!Ids(objs) : i \in 1..n /\ Pl!Keys(objs)[i] = objs[i].expiration
         /\ Pl!Keys(objs) \in [Pl!Ids(objs) -> Nat]
<1>1. Pl!Ids(objs) \in SUBSET (1..n) /\ n \in Nat
  BY DEF Indexed, Pl!Ids
<1>2. IsFiniteSet(Pl!Ids(objs)) /\ Cardinality(Pl!Ids(objs)) \in Nat
  BY <1>1, IndexSets
<1> QED
  BY <1>1, <1>2 DEF Indexed, Pl!Keys

(* Between its start and its end the walk is at an object that is due and  *)
(* not settled; at its end every object that is due has been settled.      *)
LEMMA WalkAt ==
  ASSUME NEW objs, NEW active, NEW n, Indexed(objs, active, n), NEW head \in Nat, head > 1,
         NEW w \in Walks(objs, head)
  PROVE  /\ w.itr # Pl!End(objs, head) => /\ w.itr \in Pl!Ids(objs) /\ w.itr \notin w.done
                                          /\ objs[w.itr].expiration > 0 /\ objs[w.itr].expiration < head
                                          /\ w.key[w.itr] = objs[w.itr].expiration
         /\ w.itr = Pl!End(objs, head) =>
               \A i \in Pl!Ids(objs) : objs[i].expiration > 1 /\ objs[i].expiration < head => i \in w.done
<1> DEFINE I == Pl!Ids(objs)
           K == Pl!Keys(objs)
           E == {i \in I : K[i] >= head}
           e == Pl!End(objs, head)
           A == {j \in I : w.key[j] > 0}
           B == {j \in I : w.key[j] > 1}
<1>1. /\ I \in SUBSET (Nat \ {0}) /\ K \in [I -> Nat] /\ \A i \in I : K[i] = objs[i].expiration
  BY IndexIds
<1>2. w.itr \in Nat /\ w.key \in [I -> Nat] /\ w.done \in SUBSET I /\ WalkOK(objs, head, w)
  BY DEF Walks
<1>3. /\ \A i \in w.done : K[i] > 0 /\ K[i] < head /\ w.key[i] = 0
      /\ \A i \in I \ w.done : w.key[i] = K[i]
  BY <1>1, <1>2 DEF WalkOK
<1>4. e = Pl!First(K, E)
  BY DEF Pl!End
<1>5. /\ E = {} => e = 0
      /\ E # {} => e \in E
      /\ \A j \in E : (\A k \in E : Before(K, j, k)) => j = e
  <2>1. E \in SUBSET (Nat \ {0}) /\ \A i \in E : K[i] \in Nat
    BY <1>1
  <2> HIDE DEF E, K, e
  <2> QED
    BY <1>4, <2>1, FirstIs
<1>6. PICK S \in {A, B} : w.itr = Pl!First(w.key, S)
  BY <1>2 DEF WalkOK
<1>7. /\ S \in SUBSET I /\ \A i \in I : w.key[i] > 1 => i \in S
      /\ \A i \in S : w.key[i] > 0
  BY <1>1, <1>2, <1>6
<1>8. /\ S = {} => w.itr = 0
      /\ S # {} => w.itr \in S /\ \A k \in S : Before(w.key, w.itr, k)
  <2>1. S \in SUBSET (Nat \ {0}) /\ \A i \in S : w.key[i] \in Nat
    BY <1>1, <1>2, <1>7
  <2> DEFINE key == w.key
  <2> HIDE DEF key
  <2>2. S = {} => Pl!First(key, S) = 0
    BY DEF Pl!First
  <2>3. S # {} => Pl!First(key, S) \in S /\ \A k \in S : Before(key, Pl!First(key, S), k)
    <3>1. \A i \in S : key[i] \in Nat
      BY <2>1 DEF key
    <3> QED
      BY <2>1, <3>1, FirstIs
  <2> QED
    BY <1>6, <2>2, <2>3 DEF key
<1>9. E \subseteq S /\ \A i \in E : w.key[i] = K[i]
  BY <1>1, <1>3, <1>7
<1> HIDE DEF I, K, E, e, A, B
<1>10. ASSUME w.itr # e
       PROVE  w.itr \in I /\ w.itr \notin w.done /\ K[w.itr] > 0 /\ K[w.itr] < head /\ w.key[w.itr] = K[w.itr]
  <2>1. S # {}
    BY <1>5, <1>8, <1>9, <1>10
  <2>2. w.itr \in I /\ w.key[w.itr] > 0 /\ \A k \in S : Before(w.key, w.itr, k)
    BY <1>7, <1>8, <2>1
  <2>3. w.itr \notin w.done /\ w.key[w.itr] = K[w.itr]
    BY <1>2, <1>3, <2>2
  <2>4. ASSUME K[w.itr] >= head PROVE FALSE
    <3>1. w.itr \in E
      BY <2>2, <2>4 DEF E
    <3>2. \A k \in E : Before(K, w.itr, k)
      BY <1>9, <2>2, <2>3 DEF Before
    <3> QED
      BY <1>5, <1>10, <3>1, <3>2
  <2>5. K[w.itr] \in Nat
    BY <1>1, <2>2
  <2> QED
    BY <2>2, <2>3, <2>4, <2>5
<1>11. ASSUME w.itr = e, NEW i \in I, K[i] > 1, K[i] < head, i \notin w.done
       PROVE  FALSE
  <2>1. i \in S /\ w.key[i] = K[i]
    BY <1>3, <1>7, <1>11
  <2>2. e \in S /\ Before(w.key, e, i) /\ e \in I
    BY <1>7, <1>8, <1>11, <2>1
  <2>3. e # 0
    BY <1>1, <2>2
  <2>4. e \in E
    BY <1>5, <2>3
  <2>5. w.key[e] = K[e] /\ K[e] >= head /\ K[e] \in Nat /\ K[i] \in Nat
    BY <1>1, <1>9, <2>2, <2>4 DEF E
  <2> QED
    BY <1>11, <2>1, <2>2, <2>5 DEF Before
<1> QED
  BY <1>1, <1>10, <1>11 DEF I, e

(* A step settles the object the walk is at, or the walk has ended. *)
LEMMA WalkStepIs ==
  ASSUME NEW objs, NEW active, NEW n, Indexed(objs, active, n), NEW head \in Nat, head > 1,
         NEW w \in Walks(objs, head)
  PROVE  LET new == Pl!WalkStep(objs, active, head, w)
         IN  /\ new \in Walks(objs, head)
             /\ w.itr = Pl!End(objs, head) => new = w
             /\ w.itr # Pl!End(objs, head) => Cardinality(new.done) = Cardinality(w.done) + 1
<1> DEFINE I == Pl!Ids(objs)
           e == Pl!End(objs, head)
           new == Pl!WalkStep(objs, active, head, w)
           key == [w.key EXCEPT ![w.itr] = 0]
<1>1. CASE w.itr = e
  BY <1>1 DEF Pl!WalkStep
<1>2. CASE w.itr # e
  <2>1. /\ w.itr \in I /\ w.itr \notin w.done /\ w.key[w.itr] = objs[w.itr].expiration
        /\ objs[w.itr].expiration > 0 /\ objs[w.itr].expiration < head
    BY <1>2, WalkAt
  <2>2. objs[w.itr].status = active /\ objs[w.itr].expiration \in Nat
    BY <2>1 DEF Indexed
  <2>3. new = [itr |-> Pl!JumpToFront(key, I, w.itr), key |-> key, done |-> w.done \cup {w.itr}]
    BY <1>2, <2>1, <2>2 DEF Pl!WalkStep
  <2>4. w.key \in [I -> Nat] /\ w.done \in SUBSET I /\ WalkOK(objs, head, w)
    BY DEF Walks
  <2>5. key \in [I -> Nat] /\ key[w.itr] = 0 /\ \A i \in I \ {w.itr} : key[i] = w.key[i]
    BY <2>1, <2>4
  <2>6. I \in SUBSET (Nat \ {0}) /\ IsFiniteSet(I)
    BY IndexIds
  <2> HIDE DEF key, new, I, e
  <2>7. new.key = key /\ new.done = w.done \cup {w.itr} /\ new.itr = Pl!JumpToFront(key, I, w.itr)
    BY <2>3
  <2>8. {j \in I \ {w.itr} : key[j] > 0} = {j \in I : key[j] > 0}
    BY <2>1, <2>5
  <2>9. new.itr = Pl!First(key, {j \in I : key[j] > 0})
    BY <2>7, <2>8 DEF Pl!JumpToFront
  <2>10. new.itr \in Nat
    <3> DEFINE S == {j \in I : key[j] > 0}
    <3>1. S \in SUBSET (Nat \ {0}) /\ \A i \in S : key[i] \in Nat
      BY <2>5, <2>6
    <3> HIDE DEF S
    <3>2. Pl!First(key, S) \in Nat
      BY <3>1, FirstNat
    <3> QED
      BY <2>9, <3>2 DEF S
  <2>11. new.done \in SUBSET {i \in I : objs[i].expiration > 0 /\ objs[i].expiration < head}
    BY <2>1, <2>4, <2>7 DEF WalkOK, I
  <2>12. key = [i \in I |-> IF i \in new.done THEN 0 ELSE objs[i].expiration]
    <3>1. ASSUME NEW i \in I PROVE key[i] = IF i \in new.done THEN 0 ELSE objs[i].expiration
      <4>1. w.key[i] = IF i \in w.done THEN 0 ELSE objs[i].expiration
        BY <2>4, <3>1 DEF WalkOK, I
      <4> QED
        BY <2>5, <2>7, <4>1
    <3> QED
      BY <2>5, <3>1
  <2>13. WalkOK(objs, head, new)
    BY <2>7, <2>9, <2>11, <2>12 DEF WalkOK, I
  <2>14. new \in [itr : Nat, key : [I -> Nat], done : SUBSET I]
    BY <2>1, <2>3, <2>4, <2>5, <2>7, <2>10
  <2>15. Cardinality(new.done) = Cardinality(w.done) + 1
    <3>1. IsFiniteSet(w.done)
      BY <2>4, <2>6, FS_Subset
    <3> QED
      BY <2>1, <2>7, <3>1, FS_AddElement
  <2> QED
    BY <1>2, <2>13, <2>14, <2>15 DEF Walks, I, new, e
<1> QED
  BY <1>1, <1>2

(* Although settling an object changes the key the index is walked by, one *)
(* pass settles the objects whose time is over and no others (proceed_     *)
(* pledge, proceed_approved_transfer).                                     *)
LEMMA WalkSettles ==
  ASSUME NEW objs, NEW active, NEW n, Indexed(objs, active, n), NEW head \in Nat, head > 1
  PROVE  /\ Pl!Walked(objs, active, head)
            \in SUBSET {i \in Pl!Ids(objs) : objs[i].expiration > 0 /\ objs[i].expiration < head
                                             /\ objs[i].status = active}
         /\ \A i \in Pl!Ids(objs) : objs[i].expiration > 1 /\ objs[i].expiration < head
                                    => i \in Pl!Walked(objs, active, head)
<1> DEFINE I == Pl!Ids(objs)
           W == Walks(objs, head)
           S(w) == Pl!WalkStep(objs, active, head, w)
           start == Pl!WalkStart(objs)
           F == [w \in W |-> S(w)]
           Walk(g) == g = [k \in Nat |-> IF k = 0 THEN start ELSE S(g[k - 1])]
           walk == CHOOSE g : Walk(g)
           last == 2 * Cardinality(I)
<1>1. /\ I \in SUBSET (Nat \ {0}) /\ IsFiniteSet(I) /\ Cardinality(I) \in Nat
      /\ \A i \in I : Pl!Keys(objs)[i] = objs[i].expiration
      /\ Pl!Keys(objs) \in [I -> Nat]
  BY IndexIds
<1>2. start \in W /\ start.done = {}
  <2> DEFINE B == {i \in I : Pl!Keys(objs)[i] > 1}
  <2>1. start = [itr |-> Pl!First(Pl!Keys(objs), B), key |-> Pl!Keys(objs), done |-> {}]
    BY DEF Pl!WalkStart
  <2>2. B \in SUBSET (Nat \ {0}) /\ \A i \in B : Pl!Keys(objs)[i] \in Nat
    BY <1>1
  <2>3. Pl!First(Pl!Keys(objs), B) \in Nat
    <3> HIDE DEF B
    <3> QED
      BY <2>2, FirstNat
  <2>4. Pl!Keys(objs) = [i \in I |-> IF i \in {} THEN 0 ELSE objs[i].expiration]
    BY <1>1
  <2> HIDE DEF start
  <2>5. WalkOK(objs, head, start)
    BY <2>1, <2>4 DEF WalkOK
  <2> QED
    BY <1>1, <2>1, <2>3, <2>5 DEF Walks
<1>3. \A w \in W : /\ S(w) \in W
                   /\ w.itr = Pl!End(objs, head) => S(w) = w
                   /\ w.itr # Pl!End(objs, head) => Cardinality(S(w).done) = Cardinality(w.done) + 1
  BY WalkStepIs
<1> HIDE DEF W, start, S
<1>4. \E g : Walk(g)
  <2>1. PICK g : Iterates(start, F, g)
    BY IterationExists
  <2> USE DEF Iterates
  <2> DEFINE N == {k \in Nat : g[k] \in W}
  <2>2. 0 \in N
    BY <1>2, <2>1
  <2>3. ASSUME NEW k \in N PROVE k + 1 \in N
    <3>1. g[k + 1] = F[g[(k + 1) - 1]] /\ (k + 1) - 1 = k
      BY <2>1
    <3> QED
      BY <1>3, <3>1
  <2>4. \A k \in Nat : k \in N
    <3>1. N \in SUBSET Nat
      OBVIOUS
    <3> HIDE DEF N
    <3> QED
      BY <2>2, <2>3, <3>1, NatSetInduction
  <2> DEFINE h == [k \in Nat |-> IF k = 0 THEN start ELSE S(g[k - 1])]
  <2>5. \A k \in Nat : g[k] = h[k]
    <3>1. ASSUME NEW k \in Nat PROVE g[k] = h[k]
      <4>1. k # 0 => k - 1 \in Nat /\ g[k - 1] \in W
        BY <2>4
      <4>2. g[k] = IF k = 0 THEN start ELSE F[g[k - 1]]
        BY <2>1
      <4> QED
        BY <4>1, <4>2
    <3> QED
      BY <3>1
  <2>6. g = h
    BY <2>1, <2>5
  <2> QED
    BY <2>6
<1>5. Walk(walk)
  <2> HIDE DEF Walk
  <2> QED
    BY <1>4
<1>6. Pl!Walked(objs, active, head) = walk[last].done
  BY SameFinitePledges DEF Pl!Walked, S, start
<1> HIDE DEF walk
<1>7. walk[0] = start /\ \A k \in Nat : walk[k + 1] = S(walk[k])
  <2>1. ASSUME NEW k \in Nat PROVE walk[k + 1] = S(walk[k])
    <3>1. walk[k + 1] = S(walk[(k + 1) - 1]) /\ (k + 1) - 1 = k
      BY <1>5
    <3> QED
      BY <3>1
  <2>2. walk[0] = start
    BY <1>5
  <2> QED
    BY <2>1, <2>2
<1> HIDE DEF Walk
<1> DEFINE Counts(k) == walk[k].itr = Pl!End(objs, head) \/ Cardinality(walk[k].done) = k
           N == {k \in Nat : walk[k] \in W /\ Counts(k)}
<1>8. \A k \in Nat : k \in N
  <2>1. 0 \in N
    BY <1>2, <1>7, FS_EmptySet
  <2>2. ASSUME NEW k \in N PROVE k + 1 \in N
    <3>0. k \in Nat /\ walk[k] \in W
      OBVIOUS
    <3>1. k \in Nat /\ walk[k] \in W /\ walk[k + 1] = S(walk[k])
      BY <1>7, <3>0
    <3>2. CASE walk[k].itr = Pl!End(objs, head)
      BY <1>3, <3>1, <3>2
    <3>3. CASE walk[k].itr # Pl!End(objs, head)
      <4>1. Cardinality(walk[k].done) = k
        BY <3>3
      <4>2. walk[k + 1] \in W /\ Cardinality(walk[k + 1].done) = k + 1
        BY <1>3, <3>1, <3>3, <4>1
      <4> QED
        BY <3>1, <4>2
    <3> QED
      BY <3>2, <3>3
  <2>3. N \in SUBSET Nat
    OBVIOUS
  <2> HIDE DEF N
  <2> QED
    BY <2>1, <2>2, <2>3, NatSetInduction
<1>9. last \in N /\ last \in Nat
  BY <1>1, <1>8
<1> HIDE DEF last
<1> DEFINE w == walk[last]
<1>10. w \in W /\ (w.itr = Pl!End(objs, head) \/ Cardinality(w.done) = last)
  <2>1. walk[last] \in W /\ (walk[last].itr = Pl!End(objs, head) \/ Cardinality(walk[last].done) = last)
    BY <1>9
  <2> QED
    BY <2>1
<1> HIDE DEF N, w
<1>11. w.done \in SUBSET I /\ WalkOK(objs, head, w)
  BY <1>10 DEF W, Walks
<1>12. w.itr = Pl!End(objs, head)
  <2>1. ASSUME w.itr # Pl!End(objs, head) PROVE FALSE
    <3>1. Cardinality(w.done) <= Cardinality(I) /\ Cardinality(w.done) = last
      BY <1>1, <1>10, <1>11, <2>1, FS_Subset
    <3>2. Cardinality(I) = 0
      BY <1>1, <3>1, FS_CardinalityType DEF last
    <3>3. I = {}
      BY <1>1, <3>2, FS_EmptySet
    <3>4. w.itr \in I
      BY <1>10, <2>1, WalkAt DEF W
    <3> QED
      BY <3>3, <3>4
  <2> QED
    BY <2>1
<1>13. \A i \in I : objs[i].expiration > 1 /\ objs[i].expiration < head => i \in w.done
  BY <1>10, <1>12, WalkAt DEF W
<1>14. \A i \in w.done : /\ i \in I /\ objs[i].expiration > 0 /\ objs[i].expiration < head
                         /\ objs[i].status = active
  BY <1>11 DEF WalkOK, Indexed
<1> QED
  BY <1>6, <1>13, <1>14 DEF w

-----------------------------------------------------------------------------
(* The invariant of pledges and transfers *)

Money     == [asset : Pl!Assets, n : Nat]
PurseSets == [Members -> [Pl!Assets -> Nat]]

(* What is always true of an offer and of a transfer: an offer that is not *)
(* filled has the side of its creator and no time, a filled one the time   *)
(* that its days give, and only a transfer without dispute has a time.     *)
PledgeOK(o) ==
  /\ o.status = 0 => /\ o.expiration = 0
                     /\ o.debitor = IF o.gives THEN 0 ELSE o.creator
                     /\ o.creditor = IF o.gives THEN o.creator ELSE 0
  /\ o.status = 1 => o.expiration = (o.since + o.terms.days) % ClockWidth
  /\ o.creator # 0 => o.creator = IF o.gives THEN o.creditor ELSE o.debitor
TransferOK(t) == IF t.status = 0 THEN t.expiration > 1 ELSE t.expiration = 0

PledgesOK(ps, n) ==
  /\ ps \in [Pl!OfferIds -> Pl!PledgeOffers \cup {None}]
  /\ \A i \in Pl!OfferIds : ps[i] # None => i < n /\ PledgeOK(ps[i])
TransfersOK(ts, n) ==
  /\ ts \in [Pl!TransferIds -> Pl!WaitingTransfers \cup {None}]
  /\ \A i \in Pl!TransferIds : ts[i] # None => i < n /\ TransferOK(ts[i])

(* What the node holds of an asset for an offer and for a transfer. *)
PledgeHeld(o, s)   == IF o # None /\ o.status = 1 /\ o.terms.pledge.asset = s THEN o.terms.pledge.n ELSE 0
TransferHeld(t, s) == IF t # None /\ t.amount.asset = s THEN t.amount.n ELSE 0

(* All that the members have, and all that the node holds for offers and   *)
(* for transfers.                                                          *)
InPurses(b, s)     == SumFunctionOnSet([a \in Members |-> b[a][s]], Members)
InPledges(ps, s)   == SumFunctionOnSet([i \in Pl!OfferIds |-> PledgeHeld(ps[i], s)], Pl!OfferIds)
InTransfers(ts, s) == SumFunctionOnSet([i \in Pl!TransferIds |-> TransferHeld(ts[i], s)], Pl!TransferIds)

Issued(s) == IF s = "cwd" THEN InPurses(Purses, "cwd") - accumulated ELSE gcwd_supply

PledgeInv ==
  /\ Pl!TypeOK
  /\ PledgesOK(pledges, ids.pledge) /\ TransfersOK(transfers, ids.transfer)
  /\ \A s \in Pl!Assets : InPurses(purses, s) + InPledges(pledges, s) + InTransfers(transfers, s) = Issued(s)

(* The sets that the constants are taken from. *)
LEMMA PledgeConstants ==
  ASSUME PledgeAssumptions
  PROVE  /\ IsFiniteSet(Members) /\ 0 \in Members /\ Members \subseteq Nat /\ Judges \subseteq Members
         /\ Purses \in [Members -> [Pl!Assets -> Nat]]
         /\ \A t \in PledgeTerms : t.pledge \in Money /\ t.credit \in Money /\ t.repay \in Money /\ t.days \in Nat
         /\ SentAmounts \subseteq Nat /\ JudgeShare \in 0..100
         /\ \A p \in Payrolls : DOMAIN p \subseteq Members /\ p \in [DOMAIN p -> Nat]
         /\ GcwdPrice \in Nat /\ GcwdStep \in Nat /\ GcwdMaxSupply \in Nat
         /\ LastTime \in Nat /\ 2 <= LastTime /\ ClockWidth \in Nat /\ LastTime < ClockWidth
         /\ MaxPledges \in Nat /\ MaxSent \in Nat
         /\ None \notin Pl!PledgeOffers /\ None \notin Pl!WaitingTransfers
         /\ IsFiniteSet(Pl!OfferIds) /\ IsFiniteSet(Pl!TransferIds)
<1>1. MaxPledges \in Nat /\ MaxSent \in Nat
  BY DEF PledgeAssumptions, Pl!TimeAssumption
<1>2. IsFiniteSet(Pl!OfferIds) /\ IsFiniteSet(Pl!TransferIds)
  BY <1>1, IndexSets DEF Pl!OfferIds, Pl!TransferIds
<1>3. IsFiniteSet(Members)
  BY SameFinitePledges DEF PledgeAssumptions, Pl!AccountAssumption
<1>4. /\ 0 \in Members /\ Members \subseteq Nat /\ Judges \subseteq Members
      /\ Purses \in [Members -> [Pl!Assets -> Nat]]
  BY DEF PledgeAssumptions, Pl!AccountAssumption
<1>5. \A t \in PledgeTerms : t.pledge \in Money /\ t.credit \in Money /\ t.repay \in Money /\ t.days \in Nat
  BY DEF PledgeAssumptions, Pl!AmountAssumption, Money
<1>6. /\ SentAmounts \subseteq Nat /\ JudgeShare \in 0..100
      /\ GcwdPrice \in Nat /\ GcwdStep \in Nat /\ GcwdMaxSupply \in Nat
  BY DEF PledgeAssumptions, Pl!AmountAssumption
<1>7. \A p \in Payrolls : DOMAIN p \subseteq Members /\ p \in [DOMAIN p -> Nat]
  BY DEF PledgeAssumptions, Pl!AmountAssumption
<1>8. /\ LastTime \in Nat /\ 2 <= LastTime /\ ClockWidth \in Nat /\ LastTime < ClockWidth
      /\ None \notin Pl!PledgeOffers /\ None \notin Pl!WaitingTransfers
  BY DEF PledgeAssumptions, Pl!TimeAssumption, Pl!NoneAssumption
<1> QED
  BY <1>1, <1>2, <1>3, <1>4, <1>5, <1>6, <1>7, <1>8

(* The fields of an offer and of a transfer. *)
LEMMA PledgeFields ==
  ASSUME PledgeAssumptions, NEW o \in Pl!PledgeOffers
  PROVE  /\ o.terms \in PledgeTerms /\ o.terms.pledge \in Money /\ o.terms.credit \in Money
         /\ o.terms.repay \in Money /\ o.terms.days \in Nat
         /\ o.terms.pledge.n \in Nat /\ o.terms.pledge.asset \in Pl!Assets
         /\ o.creator \in Members /\ o.creditor \in Members /\ o.debitor \in Members
         /\ o.status \in 0..1 /\ o.expiration \in Nat /\ o.since \in Nat /\ o # None /\ o.gives \in BOOLEAN
<1>1. /\ o.terms \in PledgeTerms /\ o.creator \in Members /\ o.creditor \in Members /\ o.debitor \in Members
      /\ o.status \in 0..1 /\ o.gives \in BOOLEAN /\ o.expiration \in 0..(ClockWidth - 1) /\ o.since \in 0..LastTime
  BY DEF Pl!PledgeOffers
<1>2. o.expiration \in Nat /\ o.since \in Nat /\ o # None
  BY <1>1, PledgeConstants
<1>3. /\ o.terms.pledge \in Money /\ o.terms.credit \in Money /\ o.terms.repay \in Money /\ o.terms.days \in Nat
  BY <1>1, PledgeConstants
<1>4. o.terms.pledge.n \in Nat /\ o.terms.pledge.asset \in Pl!Assets
  BY <1>3 DEF Money
<1> QED
  BY <1>1, <1>2, <1>3, <1>4

LEMMA TransferFields ==
  ASSUME PledgeAssumptions, NEW t \in Pl!WaitingTransfers
  PROVE  /\ t.amount \in Money /\ t.amount.n \in Nat /\ t.amount.asset \in Pl!Assets
         /\ t.from \in Members /\ t.to \in Members /\ t.arbitr \in Members
         /\ t.status \in 0..1 /\ t.expiration \in 0..LastTime /\ t.expiration \in Nat /\ t # None
<1>1. /\ t.from \in Members /\ t.to \in Members /\ t.arbitr \in Members
      /\ t.status \in 0..1 /\ t.expiration \in 0..LastTime
      /\ t.amount \in [asset : Pl!Assets, n : SentAmounts]
  BY DEF Pl!WaitingTransfers
<1>2. t # None /\ t.expiration \in Nat
  BY <1>1, PledgeConstants
<1>3. t.amount.asset \in Pl!Assets /\ t.amount.n \in Nat
  BY <1>1, PledgeConstants
<1>4. t.amount \in Money
  BY <1>1, PledgeConstants DEF Money
<1> QED
  BY <1>1, <1>2, <1>3, <1>4

(* adjust_balance changes what one account has of one asset by k. *)
Moved(b, c, a, asset, k) ==
  \A x \in Members, s \in Pl!Assets : c[x][s] = b[x][s] + IF x = a /\ s = asset THEN k ELSE 0

LEMMA MoveSum ==
  ASSUME PledgeAssumptions, NEW b \in PurseSets, NEW a \in Members,
         NEW c \in PurseSets, NEW m \in Money, NEW k \in Int,
         Moved(b, c, a, m.asset, k)
  PROVE  \A s \in Pl!Assets : InPurses(c, s) = InPurses(b, s) + IF s = m.asset THEN k ELSE 0
<1> SUFFICES ASSUME NEW s \in Pl!Assets
             PROVE  InPurses(c, s) = InPurses(b, s) + IF s = m.asset THEN k ELSE 0
  OBVIOUS
<1> DEFINE f == [x \in Members |-> b[x][s]]
           g == [x \in Members |-> c[x][s]]
           d == IF s = m.asset THEN k ELSE 0
<1>1. f \in [Members -> Int]
  BY DEF PurseSets
<1>2. g[a] = f[a] + d /\ \A x \in Members \ {a} : g[x] = f[x]
  BY DEF Moved, PurseSets
<1>3. d \in Int
  OBVIOUS
<1> HIDE DEF f, g, d
<1>4. IsFiniteSet(Members)
  BY PledgeConstants
<1>5. SumFunctionOnSet(g, Members) = SumFunctionOnSet(f, Members) + d
  BY <1>1, <1>2, <1>3, <1>4, OneChanged
<1> QED
  BY <1>5 DEF f, g, d, InPurses

(* adjust_balance with a positive amount. *)
LEMMA GiveSum ==
  ASSUME PledgeAssumptions, NEW b \in PurseSets, NEW a \in Members, NEW m \in Money
  PROVE  /\ Pl!Give(b, a, m) \in PurseSets
         /\ \A s \in Pl!Assets : InPurses(Pl!Give(b, a, m), s) = InPurses(b, s) + IF s = m.asset THEN m.n ELSE 0
<1> DEFINE c == Pl!Give(b, a, m)
<1>1. m.asset \in Pl!Assets /\ m.n \in Nat
  BY DEF Money
<1> DEFINE k == m.n
<1>2. c \in PurseSets /\ Moved(b, c, a, m.asset, k)
  BY <1>1 DEF Pl!Give, Moved, PurseSets
<1> HIDE DEF c
<1>3. k \in Int
  BY <1>1
<1> HIDE DEF k
<1>4. \A s \in Pl!Assets : InPurses(c, s) = InPurses(b, s) + IF s = m.asset THEN k ELSE 0
  BY <1>2, <1>3, MoveSum
<1> QED
  BY <1>2, <1>4 DEF c, k

(* adjust_balance with a negative amount. *)
LEMMA TakeSum ==
  ASSUME PledgeAssumptions, NEW b \in PurseSets, NEW a \in Members, NEW m \in Money,
         Pl!Holds(b, a, m)
  PROVE  /\ Pl!Take(b, a, m) \in PurseSets
         /\ \A s \in Pl!Assets : InPurses(Pl!Take(b, a, m), s) = InPurses(b, s) - IF s = m.asset THEN m.n ELSE 0
<1> DEFINE c == Pl!Take(b, a, m)
<1>1. m.asset \in Pl!Assets /\ m.n \in Nat /\ b[a][m.asset] >= m.n
  BY DEF Money, Pl!Holds, PurseSets
<1> DEFINE k == 0 - m.n
<1>2. c \in PurseSets /\ Moved(b, c, a, m.asset, k)
  BY <1>1 DEF Pl!Take, Moved, PurseSets
<1> HIDE DEF c
<1>3. k \in Int
  BY <1>1
<1> HIDE DEF k
<1>4. \A s \in Pl!Assets : InPurses(c, s) = InPurses(b, s) + IF s = m.asset THEN k ELSE 0
  BY <1>2, <1>3, MoveSum
<1>5. \A s \in Pl!Assets : InPurses(b, s) \in Int
  <2> SUFFICES ASSUME NEW s \in Pl!Assets PROVE InPurses(b, s) \in Int
    OBVIOUS
  <2> DEFINE f == [x \in Members |-> b[x][s]]
  <2>1. \A x \in Members : f[x] \in Int
    BY DEF PurseSets
  <2> HIDE DEF f
  <2>2. SumFunctionOnSet(f, Members) \in Int
    BY <2>1, PledgeConstants, SumInt
  <2> QED
    BY <2>2 DEF f, InPurses
<1> QED
  BY <1>1, <1>2, <1>4, <1>5 DEF c, k

(* The sums are numbers. *)
LEMMA HeldInt ==
  ASSUME PledgeAssumptions, NEW s \in Pl!Assets
  PROVE  /\ \A b \in PurseSets : InPurses(b, s) \in Int
         /\ \A ps, n : PledgesOK(ps, n) => /\ InPledges(ps, s) \in Int
                                           /\ \A i \in Pl!OfferIds : PledgeHeld(ps[i], s) \in Nat
         /\ \A ts, n : TransfersOK(ts, n) => /\ InTransfers(ts, s) \in Int
                                             /\ \A i \in Pl!TransferIds : TransferHeld(ts[i], s) \in Nat
<1>0. IsFiniteSet(Members) /\ IsFiniteSet(Pl!OfferIds) /\ IsFiniteSet(Pl!TransferIds)
  BY PledgeConstants
<1>1. ASSUME NEW b \in PurseSets PROVE InPurses(b, s) \in Int
  <2> DEFINE f == [x \in Members |-> b[x][s]]
  <2>1. \A x \in Members : f[x] \in Int
    BY DEF PurseSets
  <2> HIDE DEF f
  <2>2. SumFunctionOnSet(f, Members) \in Int
    BY <1>0, <2>1, SumInt
  <2> QED
    BY <2>2 DEF f, InPurses
<1>2. ASSUME NEW ps, NEW n, PledgesOK(ps, n)
      PROVE  InPledges(ps, s) \in Int /\ \A i \in Pl!OfferIds : PledgeHeld(ps[i], s) \in Nat
  <2> DEFINE f == [i \in Pl!OfferIds |-> PledgeHeld(ps[i], s)]
  <2>1. ASSUME NEW i \in Pl!OfferIds PROVE PledgeHeld(ps[i], s) \in Nat
    <3>1. ps[i] # None => ps[i] \in Pl!PledgeOffers
      BY <1>2 DEF PledgesOK
    <3>2. ps[i] # None => ps[i].terms.pledge.n \in Nat
      BY <3>1, PledgeFields
    <3> QED
      BY <3>2 DEF PledgeHeld
  <2>2. \A i \in Pl!OfferIds : f[i] \in Int
    BY <2>1
  <2> HIDE DEF f
  <2>3. SumFunctionOnSet(f, Pl!OfferIds) \in Int
    BY <1>0, <2>2, SumInt
  <2> QED
    BY <2>1, <2>3 DEF f, InPledges
<1>3. ASSUME NEW ts, NEW n, TransfersOK(ts, n)
      PROVE  InTransfers(ts, s) \in Int /\ \A i \in Pl!TransferIds : TransferHeld(ts[i], s) \in Nat
  <2> DEFINE f == [i \in Pl!TransferIds |-> TransferHeld(ts[i], s)]
  <2>1. ASSUME NEW i \in Pl!TransferIds PROVE TransferHeld(ts[i], s) \in Nat
    <3>1. ts[i] # None => ts[i] \in Pl!WaitingTransfers
      BY <1>3 DEF TransfersOK
    <3>2. ts[i] # None => ts[i].amount.n \in Nat
      BY <3>1, TransferFields
    <3> QED
      BY <3>2 DEF TransferHeld
  <2>2. \A i \in Pl!TransferIds : f[i] \in Int
    BY <2>1
  <2> HIDE DEF f
  <2>3. SumFunctionOnSet(f, Pl!TransferIds) \in Int
    BY <1>0, <2>2, SumInt
  <2> QED
    BY <2>1, <2>3 DEF f, InTransfers
<1> QED
  BY <1>1, <1>2, <1>3

(* What the invariant says of the state. *)
LEMMA PledgeState ==
  ASSUME PledgeAssumptions, PledgeInv
  PROVE  /\ purses \in PurseSets
         /\ ids \in [pledge : 1..(MaxPledges + 1), transfer : 1..(MaxSent + 1)]
         /\ ids.pledge \in Int /\ ids.transfer \in Int
         /\ accumulated \in Nat /\ gcwd_supply \in 0..GcwdMaxSupply /\ gcwd_supply \in Nat /\ gcwd_price \in Nat
         /\ clock \in 2..LastTime /\ clock \in Nat
         /\ \A s \in Pl!Assets : /\ InPurses(purses, s) \in Int /\ InPledges(pledges, s) \in Int
                                 /\ InTransfers(transfers, s) \in Int
<1>1. Pl!TypeOK /\ PledgesOK(pledges, ids.pledge) /\ TransfersOK(transfers, ids.transfer)
  BY DEF PledgeInv
<1>2. /\ purses \in PurseSets /\ ids \in [pledge : 1..(MaxPledges + 1), transfer : 1..(MaxSent + 1)]
      /\ accumulated \in Nat /\ gcwd_supply \in 0..GcwdMaxSupply /\ gcwd_price \in Nat /\ clock \in 2..LastTime
  BY <1>1 DEF Pl!TypeOK, PurseSets
<1>3. /\ ids.pledge \in Int /\ ids.transfer \in Int /\ gcwd_supply \in Nat /\ clock \in Nat
  BY <1>2, PledgeConstants
<1> QED
  BY <1>1, <1>2, <1>3, HeldInt

(* One offer changes. *)
LEMMA PledgeChanged ==
  ASSUME PledgeAssumptions, PledgeInv, NEW i \in Pl!OfferIds, NEW m \in Int, ids.pledge <= m,
         NEW o \in Pl!PledgeOffers \cup {None}, o # None => i < m /\ PledgeOK(o),
         pledges' = [pledges EXCEPT ![i] = o]
  PROVE  /\ PledgesOK(pledges', m)
         /\ \A s \in Pl!Assets : InPledges(pledges', s)
                                 = InPledges(pledges, s) + (PledgeHeld(o, s) - PledgeHeld(pledges[i], s))
<1> DEFINE ps == pledges
           n == ids.pledge
           new == pledges'
<1>0. PledgesOK(ps, n) /\ n \in Int
  BY PledgeState DEF PledgeInv
<1>1. /\ new \in [Pl!OfferIds -> Pl!PledgeOffers \cup {None}] /\ new[i] = o
      /\ \A j \in Pl!OfferIds \ {i} : new[j] = ps[j]
  BY <1>0 DEF PledgesOK
<1> HIDE DEF new, ps, n
<1>2. ASSUME NEW j \in Pl!OfferIds, new[j] # None PROVE j < m /\ PledgeOK(new[j])
  <2>1. CASE j = i
    BY <1>1, <1>2, <2>1
  <2>2. CASE j # i
    <3>1. j < n /\ PledgeOK(new[j]) /\ j \in Int
      BY <1>0, <1>1, <1>2, <2>2 DEF PledgesOK, Pl!OfferIds
    <3> QED
      BY <1>0, <3>1 DEF n
  <2> QED
    BY <2>1, <2>2
<1>3. PledgesOK(new, m)
  BY <1>1, <1>2 DEF PledgesOK
<1>4. ASSUME NEW s \in Pl!Assets
      PROVE  InPledges(new, s) = InPledges(ps, s) + (PledgeHeld(o, s) - PledgeHeld(ps[i], s))
  <2> DEFINE f == [j \in Pl!OfferIds |-> PledgeHeld(ps[j], s)]
             g == [j \in Pl!OfferIds |-> PledgeHeld(new[j], s)]
  <2>1. /\ \A j \in Pl!OfferIds : PledgeHeld(ps[j], s) \in Nat
        /\ \A j \in Pl!OfferIds : PledgeHeld(new[j], s) \in Nat
    BY <1>0, <1>3, HeldInt
  <2>2. (\A j \in Pl!OfferIds : f[j] \in Int) /\ g[i] \in Int /\ \A j \in Pl!OfferIds \ {i} : g[j] = f[j]
    BY <1>1, <2>1
  <2>3. f[i] = PledgeHeld(ps[i], s) /\ g[i] = PledgeHeld(o, s)
    BY <1>1
  <2> HIDE DEF f, g
  <2>4. IsFiniteSet(Pl!OfferIds)
    BY PledgeConstants
  <2>5. SumFunctionOnSet(g, Pl!OfferIds) = SumFunctionOnSet(f, Pl!OfferIds) + (g[i] - f[i])
    BY <2>2, <2>4, SumChange
  <2> QED
    BY <2>3, <2>5 DEF f, g, InPledges
<1> QED
  BY <1>3, <1>4 DEF new, ps

(* One transfer changes. *)
LEMMA TransferChanged ==
  ASSUME PledgeAssumptions, PledgeInv, NEW i \in Pl!TransferIds, NEW m \in Int, ids.transfer <= m,
         NEW t \in Pl!WaitingTransfers \cup {None}, t # None => i < m /\ TransferOK(t),
         transfers' = [transfers EXCEPT ![i] = t]
  PROVE  /\ TransfersOK(transfers', m)
         /\ \A s \in Pl!Assets : InTransfers(transfers', s)
                                 = InTransfers(transfers, s) + (TransferHeld(t, s) - TransferHeld(transfers[i], s))
<1> DEFINE ts == transfers
           n == ids.transfer
           new == transfers'
<1>0. TransfersOK(ts, n) /\ n \in Int
  BY PledgeState DEF PledgeInv
<1>1. /\ new \in [Pl!TransferIds -> Pl!WaitingTransfers \cup {None}] /\ new[i] = t
      /\ \A j \in Pl!TransferIds \ {i} : new[j] = ts[j]
  BY <1>0 DEF TransfersOK
<1> HIDE DEF new, ts, n
<1>2. ASSUME NEW j \in Pl!TransferIds, new[j] # None PROVE j < m /\ TransferOK(new[j])
  <2>1. CASE j = i
    BY <1>1, <1>2, <2>1
  <2>2. CASE j # i
    <3>1. j < n /\ TransferOK(new[j]) /\ j \in Int
      BY <1>0, <1>1, <1>2, <2>2 DEF TransfersOK, Pl!TransferIds
    <3> QED
      BY <1>0, <3>1 DEF n
  <2> QED
    BY <2>1, <2>2
<1>3. TransfersOK(new, m)
  BY <1>1, <1>2 DEF TransfersOK
<1>4. ASSUME NEW s \in Pl!Assets
      PROVE  InTransfers(new, s) = InTransfers(ts, s) + (TransferHeld(t, s) - TransferHeld(ts[i], s))
  <2> DEFINE f == [j \in Pl!TransferIds |-> TransferHeld(ts[j], s)]
             g == [j \in Pl!TransferIds |-> TransferHeld(new[j], s)]
  <2>1. /\ \A j \in Pl!TransferIds : TransferHeld(ts[j], s) \in Nat
        /\ \A j \in Pl!TransferIds : TransferHeld(new[j], s) \in Nat
    BY <1>0, <1>3, HeldInt
  <2>2. (\A j \in Pl!TransferIds : f[j] \in Int) /\ g[i] \in Int /\ \A j \in Pl!TransferIds \ {i} : g[j] = f[j]
    BY <1>1, <2>1
  <2>3. f[i] = TransferHeld(ts[i], s) /\ g[i] = TransferHeld(t, s)
    BY <1>1
  <2> HIDE DEF f, g
  <2>4. IsFiniteSet(Pl!TransferIds)
    BY PledgeConstants
  <2>5. SumFunctionOnSet(g, Pl!TransferIds) = SumFunctionOnSet(f, Pl!TransferIds) + (g[i] - f[i])
    BY <2>2, <2>4, SumChange
  <2> QED
    BY <2>3, <2>5 DEF f, g, InTransfers
<1> QED
  BY <1>3, <1>4 DEF new, ts

(* A step keeps the invariant when it keeps its parts and each asset's sum. *)
LEMMA PledgeInvNext ==
  ASSUME PledgeAssumptions, purses' \in PurseSets,
         ids' \in [pledge : 1..(MaxPledges + 1), transfer : 1..(MaxSent + 1)],
         PledgesOK(pledges', ids'.pledge), TransfersOK(transfers', ids'.transfer),
         accumulated' \in Nat, gcwd_supply' \in 0..GcwdMaxSupply, gcwd_price' \in Nat, clock' \in 2..LastTime,
         \A s \in Pl!Assets : InPurses(purses', s) + InPledges(pledges', s) + InTransfers(transfers', s)
                              = IF s = "cwd" THEN InPurses(Purses, "cwd") - accumulated' ELSE gcwd_supply'
  PROVE  PledgeInv'
<1>1. Pl!TypeOK'
  BY DEF Pl!TypeOK, PurseSets, PledgesOK, TransfersOK
<1>2. \A s \in Pl!Assets : InPurses(purses', s) + InPledges(pledges', s) + InTransfers(transfers', s) = Issued(s)'
  BY DEF Issued
<1> QED
  BY <1>1, <1>2 DEF PledgeInv

(* The steps that change no fees, no supply and no price. *)
LEMMA PledgeInvKept ==
  ASSUME PledgeAssumptions, PledgeInv, UNCHANGED <<accumulated, gcwd_supply, gcwd_price>>, clock' \in 2..LastTime,
         purses' \in PurseSets, ids' \in [pledge : 1..(MaxPledges + 1), transfer : 1..(MaxSent + 1)],
         PledgesOK(pledges', ids'.pledge), TransfersOK(transfers', ids'.transfer),
         \A s \in Pl!Assets : InPurses(purses', s) + InPledges(pledges', s) + InTransfers(transfers', s)
                              = InPurses(purses, s) + InPledges(pledges, s) + InTransfers(transfers, s)
  PROVE  PledgeInv'
<1>1. /\ accumulated' = accumulated /\ gcwd_supply' = gcwd_supply /\ gcwd_price' = gcwd_price
      /\ accumulated' \in Nat /\ gcwd_supply' \in 0..GcwdMaxSupply /\ gcwd_price' \in Nat
  BY PledgeState
<1>2. \A s \in Pl!Assets : InPurses(purses', s) + InPledges(pledges', s) + InTransfers(transfers', s)
                           = IF s = "cwd" THEN InPurses(Purses, "cwd") - accumulated' ELSE gcwd_supply'
  BY <1>1 DEF PledgeInv, Issued
<1> QED
  BY <1>1, <1>2, PledgeInvNext

-----------------------------------------------------------------------------
(* The steps *)

(* An offer is made: nothing is held for it yet. *)
LEMMA OfferCreateKeeps ==
  ASSUME PledgeAssumptions, PledgeInv, NEW a \in Members, NEW gives \in BOOLEAN, NEW t \in PledgeTerms,
         Pl!PledgeOfferCreate(a, gives, t)
  PROVE  PledgeInv'
<1> DEFINE i == ids.pledge
           o == Pl!Offer(a, gives, t)
<1>1. /\ i \in Pl!OfferIds /\ pledges' = [pledges EXCEPT ![i] = o] /\ ids' = [ids EXCEPT !.pledge = @ + 1]
      /\ UNCHANGED <<purses, transfers, accumulated, gcwd_supply, gcwd_price, clock>>
  BY DEF Pl!PledgeOfferCreate, Pl!saleVars
<1>2. /\ purses \in PurseSets /\ ids \in [pledge : 1..(MaxPledges + 1), transfer : 1..(MaxSent + 1)]
      /\ clock \in 2..LastTime /\ PledgesOK(pledges, i) /\ TransfersOK(transfers, ids.transfer) /\ i \in Int
  BY PledgeState DEF PledgeInv
<1>3. ids' \in [pledge : 1..(MaxPledges + 1), transfer : 1..(MaxSent + 1)] /\ ids'.pledge = i + 1
      /\ ids'.transfer = ids.transfer
  BY <1>1, <1>2, PledgeConstants DEF Pl!OfferIds
<1>4. o \in Pl!PledgeOffers
  BY PledgeConstants DEF Pl!Offer, Pl!PledgeOffers
<1>5. PledgeOK(o) /\ o.status = 0
  BY DEF PledgeOK, Pl!Offer
<1>6. pledges[i] = None
  BY <1>1, <1>2 DEF PledgesOK
<1> HIDE DEF i, o
<1>7. /\ PledgesOK(pledges', i + 1)
      /\ \A s \in Pl!Assets : InPledges(pledges', s)
                              = InPledges(pledges, s) + (PledgeHeld(o, s) - PledgeHeld(pledges[i], s))
  <2>1. i + 1 \in Int /\ i <= i + 1 /\ i < i + 1
    BY <1>2
  <2> QED
    BY <1>1, <1>4, <1>5, <2>1, PledgeChanged DEF i
<1>8. \A s \in Pl!Assets : PledgeHeld(o, s) = 0 /\ PledgeHeld(pledges[i], s) = 0
  BY <1>5, <1>6 DEF PledgeHeld
<1>9. \A s \in Pl!Assets : InPurses(purses', s) + InPledges(pledges', s) + InTransfers(transfers', s)
                           = InPurses(purses, s) + InPledges(pledges, s) + InTransfers(transfers, s)
  <2>1. \A s \in Pl!Assets : InPledges(pledges', s) = InPledges(pledges, s) + (0 - 0) /\ InPledges(pledges, s) \in Int
    BY <1>7, <1>8, PledgeState
  <2>2. \A s \in Pl!Assets : InPledges(pledges', s) = InPledges(pledges, s)
    BY <2>1
  <2>3. purses' = purses /\ transfers' = transfers
    BY <1>1
  <2> QED
    BY <2>2, <2>3
<1> QED
  BY <1>1, <1>2, <1>3, <1>7, <1>9, PledgeInvKept

(* An offer that is not filled is canceled. *)
LEMMA OfferCancelKeeps ==
  ASSUME PledgeAssumptions, PledgeInv, NEW i \in Pl!OfferIds, Pl!PledgeOfferCancel(i)
  PROVE  PledgeInv'
<1>1. /\ pledges[i] # None /\ pledges[i].status = 0 /\ pledges' = [pledges EXCEPT ![i] = None]
      /\ UNCHANGED <<purses, transfers, ids, accumulated, gcwd_supply, gcwd_price, clock>>
  BY DEF Pl!PledgeOfferCancel, Pl!saleVars
<1>2. /\ purses \in PurseSets /\ ids \in [pledge : 1..(MaxPledges + 1), transfer : 1..(MaxSent + 1)]
      /\ clock \in 2..LastTime /\ PledgesOK(pledges, ids.pledge) /\ TransfersOK(transfers, ids.transfer)
      /\ ids.pledge \in Int
  BY PledgeState DEF PledgeInv
<1>3. /\ PledgesOK(pledges', ids.pledge)
      /\ \A s \in Pl!Assets : InPledges(pledges', s)
                              = InPledges(pledges, s) + (PledgeHeld(None, s) - PledgeHeld(pledges[i], s))
  <2>1. ids.pledge <= ids.pledge
    BY <1>2
  <2> QED
    BY <1>1, <1>2, <2>1, PledgeChanged
<1>4. \A s \in Pl!Assets : PledgeHeld(None, s) = 0 /\ PledgeHeld(pledges[i], s) = 0
  BY <1>1 DEF PledgeHeld
<1>5. \A s \in Pl!Assets : InPurses(purses', s) + InPledges(pledges', s) + InTransfers(transfers', s)
                           = InPurses(purses, s) + InPledges(pledges, s) + InTransfers(transfers, s)
  <2>1. \A s \in Pl!Assets : InPledges(pledges', s) = InPledges(pledges, s) + (0 - 0) /\ InPledges(pledges, s) \in Int
    BY <1>3, <1>4, PledgeState
  <2>2. \A s \in Pl!Assets : InPledges(pledges', s) = InPledges(pledges, s)
    BY <2>1
  <2>3. purses' = purses /\ transfers' = transfers
    BY <1>1
  <2> QED
    BY <2>2, <2>3
<1> QED
  BY <1>1, <1>2, <1>3, <1>5, PledgeInvKept

(* An offer is filled: the credit changes hands and the pledge goes to the node. *)
LEMMA OfferFillKeeps ==
  ASSUME PledgeAssumptions, PledgeInv, NEW i \in Pl!OfferIds, NEW x \in Members, Pl!PledgeOfferFill(i, x)
  PROVE  PledgeInv'
<1> DEFINE o == pledges[i]
           p == Pl!FillParties(o, x)
           c == p.creditor
           d == p.debitor
           t == o.terms
           e == Pl!Later(t.days)
           new == [o EXCEPT !.creditor = c, !.debitor = d, !.status = 1, !.expiration = e, !.since = clock]
           b1 == Pl!Take(purses, c, t.credit)
           b2 == Pl!Take(b1, d, t.pledge)
<1>1. /\ o # None /\ o.status = 0 /\ Pl!Holds(purses, c, t.credit) /\ Pl!Holds(b1, d, t.pledge)
      /\ pledges' = [pledges EXCEPT ![i] = new] /\ purses' = Pl!Give(b2, d, t.credit)
      /\ UNCHANGED <<transfers, ids, accumulated, gcwd_supply, gcwd_price, clock>>
  BY DEF Pl!PledgeOfferFill, Pl!saleVars, Pl!FillBalances
<1>2. /\ purses \in PurseSets /\ ids \in [pledge : 1..(MaxPledges + 1), transfer : 1..(MaxSent + 1)]
      /\ clock \in 2..LastTime /\ clock \in Nat
      /\ PledgesOK(pledges, ids.pledge) /\ TransfersOK(transfers, ids.transfer)
      /\ ids.pledge \in Int
  BY PledgeState DEF PledgeInv
<1>3. o \in Pl!PledgeOffers /\ PledgeOK(o) /\ i < ids.pledge
  BY <1>1, <1>2 DEF PledgesOK
<1>4. /\ t \in PledgeTerms /\ t.pledge \in Money /\ t.credit \in Money /\ t.days \in Nat
      /\ t.pledge.n \in Nat /\ t.credit.n \in Nat
      /\ o.creator \in Members /\ o.creditor \in Members /\ o.debitor \in Members /\ o.gives \in BOOLEAN
  BY <1>3, PledgeFields DEF Money
<1>5. c \in Members /\ d \in Members
  BY <1>4 DEF Pl!FillParties
<1>6. o.creator # 0 => o.creator = IF o.gives THEN c ELSE d
  BY <1>1, <1>3, <1>4 DEF Pl!FillParties, PledgeOK
<1>7. e = (clock + t.days) % ClockWidth /\ e \in 0..(ClockWidth - 1)
  BY <1>2, <1>4, PledgeConstants DEF Pl!Later
<1> HIDE DEF e, c, d, p, t, o
<1>8. new \in Pl!PledgeOffers
  <2>1. clock \in 0..LastTime
    BY <1>2, PledgeConstants
  <2> DEFINE o1 == [o EXCEPT !.creditor = c]
             o2 == [o1 EXCEPT !.debitor = d]
             o3 == [o2 EXCEPT !.status = 1]
             o4 == [o3 EXCEPT !.expiration = e]
  <2>2. o1 \in Pl!PledgeOffers
    BY <1>3, <1>5 DEF Pl!PledgeOffers
  <2>3. o2 \in Pl!PledgeOffers
    <3> HIDE DEF o1
    <3> QED
      BY <1>5, <2>2 DEF Pl!PledgeOffers
  <2>4. o3 \in Pl!PledgeOffers
    <3> HIDE DEF o2
    <3>1. 1 \in 0..1
      OBVIOUS
    <3> QED
      BY <2>3, <3>1 DEF Pl!PledgeOffers
  <2>5. o4 \in Pl!PledgeOffers
    <3> HIDE DEF o3
    <3> QED
      BY <1>7, <2>4 DEF Pl!PledgeOffers
  <2>6. [o4 EXCEPT !.since = clock] \in Pl!PledgeOffers
    <3> HIDE DEF o4
    <3> QED
      BY <2>1, <2>5 DEF Pl!PledgeOffers
  <2>7. new = [o4 EXCEPT !.since = clock]
    OBVIOUS
  <2> QED
    BY <2>6, <2>7
<1>9. /\ new.terms = t /\ new.status = 1 /\ new.creator = o.creator /\ new.gives = o.gives
      /\ new.creditor = c /\ new.debitor = d /\ new.since = clock /\ new.expiration = e
  BY <1>3 DEF Pl!PledgeOffers, t
<1> HIDE DEF new
<1>10. PledgeOK(new)
  BY <1>6, <1>7, <1>9 DEF PledgeOK
<1>11. /\ PledgesOK(pledges', ids.pledge)
       /\ \A s \in Pl!Assets : InPledges(pledges', s)
                               = InPledges(pledges, s) + (PledgeHeld(new, s) - PledgeHeld(pledges[i], s))
  <2>1. ids.pledge <= ids.pledge
    BY <1>2
  <2> QED
    BY <1>1, <1>2, <1>3, <1>8, <1>10, <2>1, PledgeChanged
<1>12. \A s \in Pl!Assets : /\ PledgeHeld(new, s) = IF s = t.pledge.asset THEN t.pledge.n ELSE 0
                            /\ PledgeHeld(pledges[i], s) = 0
  <2>1. new # None
    BY <1>8, PledgeConstants
  <2> QED
    BY <1>1, <1>9, <2>1 DEF PledgeHeld, o
<1>13. /\ b1 \in PurseSets
       /\ \A s \in Pl!Assets : InPurses(b1, s) = InPurses(purses, s) - IF s = t.credit.asset THEN t.credit.n ELSE 0
  BY <1>1, <1>2, <1>4, <1>5, TakeSum
<1> HIDE DEF b1
<1>14. /\ b2 \in PurseSets
       /\ \A s \in Pl!Assets : InPurses(b2, s) = InPurses(b1, s) - IF s = t.pledge.asset THEN t.pledge.n ELSE 0
  BY <1>1, <1>4, <1>5, <1>13, TakeSum
<1> HIDE DEF b2
<1>15. /\ purses' \in PurseSets
       /\ \A s \in Pl!Assets : InPurses(purses', s) = InPurses(b2, s) + IF s = t.credit.asset THEN t.credit.n ELSE 0
  BY <1>1, <1>4, <1>5, <1>14, GiveSum
<1>16. \A s \in Pl!Assets : InPurses(purses', s) + InPledges(pledges', s) + InTransfers(transfers', s)
                            = InPurses(purses, s) + InPledges(pledges, s) + InTransfers(transfers, s)
  <2> SUFFICES ASSUME NEW s \in Pl!Assets
               PROVE  InPurses(purses', s) + InPledges(pledges', s) + InTransfers(transfers', s)
                      = InPurses(purses, s) + InPledges(pledges, s) + InTransfers(transfers, s)
    OBVIOUS
  <2> DEFINE u == IF s = t.credit.asset THEN t.credit.n ELSE 0
             v == IF s = t.pledge.asset THEN t.pledge.n ELSE 0
  <2>1. u \in Int /\ v \in Int
    BY <1>4
  <2>2. /\ InPurses(b1, s) = InPurses(purses, s) - u /\ InPurses(b2, s) = InPurses(b1, s) - v
        /\ InPurses(purses', s) = InPurses(b2, s) + u
        /\ InPledges(pledges', s) = InPledges(pledges, s) + (v - 0) /\ transfers' = transfers
    BY <1>1, <1>11, <1>12, <1>13, <1>14, <1>15
  <2>3. InPurses(purses, s) \in Int /\ InPledges(pledges, s) \in Int /\ InTransfers(transfers, s) \in Int
    BY PledgeState
  <2> HIDE DEF u, v
  <2> QED
    BY <2>1, <2>2, <2>3
<1> QED
  BY <1>1, <1>2, <1>11, <1>15, <1>16, PledgeInvKept

(* A loan is repaid: the pledge goes back to the borrower. *)
LEMMA OfferRepayKeeps ==
  ASSUME PledgeAssumptions, PledgeInv, NEW i \in Pl!OfferIds, Pl!PledgeOfferRepay(i)
  PROVE  PledgeInv'
<1> DEFINE o == pledges[i]
           t == o.terms
           b1 == Pl!Take(purses, o.debitor, t.repay)
           b2 == Pl!Give(b1, o.creditor, t.repay)
<1>1. /\ o # None /\ o.status = 1 /\ Pl!Holds(purses, o.debitor, t.repay)
      /\ pledges' = [pledges EXCEPT ![i] = None] /\ purses' = Pl!Give(b2, o.debitor, t.pledge)
      /\ UNCHANGED <<transfers, ids, accumulated, gcwd_supply, gcwd_price, clock>>
  BY DEF Pl!PledgeOfferRepay, Pl!saleVars
<1>2. /\ purses \in PurseSets /\ ids \in [pledge : 1..(MaxPledges + 1), transfer : 1..(MaxSent + 1)]
      /\ clock \in 2..LastTime /\ PledgesOK(pledges, ids.pledge) /\ TransfersOK(transfers, ids.transfer)
      /\ ids.pledge \in Int
  BY PledgeState DEF PledgeInv
<1>3. o \in Pl!PledgeOffers
  BY <1>1, <1>2 DEF PledgesOK
<1>4. /\ t.pledge \in Money /\ t.repay \in Money /\ t.pledge.n \in Nat /\ t.repay.n \in Nat
      /\ o.creditor \in Members /\ o.debitor \in Members
  BY <1>3, PledgeFields DEF Money
<1>5. /\ PledgesOK(pledges', ids.pledge)
      /\ \A s \in Pl!Assets : InPledges(pledges', s)
                              = InPledges(pledges, s) + (PledgeHeld(None, s) - PledgeHeld(pledges[i], s))
  <2>1. ids.pledge <= ids.pledge
    BY <1>2
  <2> QED
    BY <1>1, <1>2, <2>1, PledgeChanged
<1>6. \A s \in Pl!Assets : /\ PledgeHeld(pledges[i], s) = IF s = t.pledge.asset THEN t.pledge.n ELSE 0
                           /\ PledgeHeld(None, s) = 0
  BY <1>1 DEF PledgeHeld
<1> HIDE DEF t, o
<1>7. /\ b1 \in PurseSets
      /\ \A s \in Pl!Assets : InPurses(b1, s) = InPurses(purses, s) - IF s = t.repay.asset THEN t.repay.n ELSE 0
  BY <1>1, <1>2, <1>4, TakeSum
<1> HIDE DEF b1
<1>8. /\ b2 \in PurseSets
      /\ \A s \in Pl!Assets : InPurses(b2, s) = InPurses(b1, s) + IF s = t.repay.asset THEN t.repay.n ELSE 0
  BY <1>4, <1>7, GiveSum
<1> HIDE DEF b2
<1>9. /\ purses' \in PurseSets
      /\ \A s \in Pl!Assets : InPurses(purses', s) = InPurses(b2, s) + IF s = t.pledge.asset THEN t.pledge.n ELSE 0
  BY <1>1, <1>4, <1>8, GiveSum
<1>10. \A s \in Pl!Assets : InPurses(purses', s) + InPledges(pledges', s) + InTransfers(transfers', s)
                            = InPurses(purses, s) + InPledges(pledges, s) + InTransfers(transfers, s)
  <2> SUFFICES ASSUME NEW s \in Pl!Assets
               PROVE  InPurses(purses', s) + InPledges(pledges', s) + InTransfers(transfers', s)
                      = InPurses(purses, s) + InPledges(pledges, s) + InTransfers(transfers, s)
    OBVIOUS
  <2> DEFINE u == IF s = t.repay.asset THEN t.repay.n ELSE 0
             v == IF s = t.pledge.asset THEN t.pledge.n ELSE 0
  <2>1. u \in Int /\ v \in Int
    BY <1>4
  <2>2. /\ InPurses(b1, s) = InPurses(purses, s) - u /\ InPurses(b2, s) = InPurses(b1, s) + u
        /\ InPurses(purses', s) = InPurses(b2, s) + v
        /\ InPledges(pledges', s) = InPledges(pledges, s) + (0 - v) /\ transfers' = transfers
    BY <1>1, <1>5, <1>6, <1>7, <1>8, <1>9
  <2>3. InPurses(purses, s) \in Int /\ InPledges(pledges, s) \in Int /\ InTransfers(transfers, s) \in Int
    BY PledgeState
  <2> HIDE DEF u, v
  <2> QED
    BY <2>1, <2>2, <2>3
<1> QED
  BY <1>1, <1>2, <1>5, <1>9, <1>10, PledgeInvKept

(* A transfer is made: its amount goes to the node. *)
LEMMA TransferCreateKeeps ==
  ASSUME PledgeAssumptions, PledgeInv, NEW a \in Members, NEW b \in Members, NEW c \in Judges, NEW n \in SentAmounts,
         NEW e \in 1..LastTime, Pl!ApprovedTransferCreate(a, b, c, n, e)
  PROVE  PledgeInv'
<1> DEFINE i == ids.transfer
           m == [asset |-> "cwd", n |-> n]
           t == [from |-> a, to |-> b, arbitr |-> c, amount |-> m, expiration |-> e, status |-> 0]
<1>1. /\ i \in Pl!TransferIds /\ e > clock /\ Pl!Holds(purses, a, m) /\ purses' = Pl!Take(purses, a, m)
      /\ transfers' = [transfers EXCEPT ![i] = t] /\ ids' = [ids EXCEPT !.transfer = @ + 1]
      /\ UNCHANGED <<pledges, accumulated, gcwd_supply, gcwd_price, clock>>
  BY DEF Pl!ApprovedTransferCreate, Pl!saleVars
<1>2. /\ purses \in PurseSets /\ ids \in [pledge : 1..(MaxPledges + 1), transfer : 1..(MaxSent + 1)]
      /\ clock \in 2..LastTime /\ PledgesOK(pledges, ids.pledge) /\ TransfersOK(transfers, i) /\ i \in Int
  BY PledgeState DEF PledgeInv
<1>3. ids' \in [pledge : 1..(MaxPledges + 1), transfer : 1..(MaxSent + 1)] /\ ids'.transfer = i + 1
      /\ ids'.pledge = ids.pledge
  <2>1. ids.transfer + 1 \in 1..(MaxSent + 1)
    BY <1>1, <1>2, PledgeConstants DEF Pl!TransferIds
  <2>2. ids' = [ids EXCEPT !.transfer = ids.transfer + 1]
    BY <1>1
  <2> QED
    BY <1>2, <2>1, <2>2
<1>4. m \in Money /\ m.asset = "cwd" /\ m.n = n /\ n \in Nat /\ m \in [asset : Pl!Assets, n : SentAmounts]
  BY PledgeConstants DEF Money, Pl!Assets
<1>5. t \in Pl!WaitingTransfers
  <2>1. c \in Members /\ e \in 0..LastTime /\ 0 \in 0..1
    BY PledgeConstants
  <2> HIDE DEF m
  <2> QED
    BY <1>4, <2>1 DEF Pl!WaitingTransfers
<1>6. TransferOK(t) /\ t.amount = m
  BY <1>1, <1>2, PledgeConstants DEF TransferOK
<1>7. transfers[i] = None
  BY <1>1, <1>2 DEF TransfersOK
<1> HIDE DEF i, m, t
<1>8. /\ TransfersOK(transfers', i + 1)
      /\ \A s \in Pl!Assets : InTransfers(transfers', s)
                              = InTransfers(transfers, s) + (TransferHeld(t, s) - TransferHeld(transfers[i], s))
  <2>1. i + 1 \in Int /\ i <= i + 1 /\ i < i + 1
    BY <1>2
  <2> QED
    BY <1>1, <1>5, <1>6, <2>1, TransferChanged DEF i
<1>9. \A s \in Pl!Assets : /\ TransferHeld(t, s) = IF s = m.asset THEN m.n ELSE 0
                           /\ TransferHeld(transfers[i], s) = 0
  <2>1. t # None
    BY <1>5, PledgeConstants
  <2> QED
    BY <1>6, <1>7, <2>1 DEF TransferHeld
<1>10. /\ purses' \in PurseSets
       /\ \A s \in Pl!Assets : InPurses(purses', s) = InPurses(purses, s) - IF s = m.asset THEN m.n ELSE 0
  BY <1>1, <1>2, <1>4, TakeSum
<1>11. \A s \in Pl!Assets : InPurses(purses', s) + InPledges(pledges', s) + InTransfers(transfers', s)
                            = InPurses(purses, s) + InPledges(pledges, s) + InTransfers(transfers, s)
  <2> SUFFICES ASSUME NEW s \in Pl!Assets
               PROVE  InPurses(purses', s) + InPledges(pledges', s) + InTransfers(transfers', s)
                      = InPurses(purses, s) + InPledges(pledges, s) + InTransfers(transfers, s)
    OBVIOUS
  <2> DEFINE u == IF s = m.asset THEN m.n ELSE 0
  <2>1. u \in Int
    BY <1>4
  <2>2. /\ InPurses(purses', s) = InPurses(purses, s) - u
        /\ InTransfers(transfers', s) = InTransfers(transfers, s) + (u - 0) /\ pledges' = pledges
    BY <1>1, <1>8, <1>9, <1>10
  <2>3. InPurses(purses, s) \in Int /\ InPledges(pledges, s) \in Int /\ InTransfers(transfers, s) \in Int
    BY PledgeState
  <2> HIDE DEF u
  <2> QED
    BY <2>1, <2>2, <2>3
<1> QED
  BY <1>1, <1>2, <1>3, <1>8, <1>10, <1>11, PledgeInvKept

(* A transfer that ends is paid out, in one part or in two. *)
LEMMA TransferEnds ==
  ASSUME PledgeAssumptions, PledgeInv, NEW i \in Pl!TransferIds, transfers[i] # None,
         NEW x \in Members, NEW y \in Members, NEW p \in Money, NEW q \in Money,
         p.asset = transfers[i].amount.asset, q.asset = transfers[i].amount.asset,
         p.n + q.n = transfers[i].amount.n,
         purses' = Pl!Give(Pl!Give(purses, x, p), y, q),
         transfers' = [transfers EXCEPT ![i] = None],
         UNCHANGED <<pledges, ids, accumulated, gcwd_supply, gcwd_price, clock>>
  PROVE  PledgeInv'
<1> DEFINE t == transfers[i]
           b1 == Pl!Give(purses, x, p)
<1>1. /\ purses \in PurseSets /\ ids \in [pledge : 1..(MaxPledges + 1), transfer : 1..(MaxSent + 1)]
      /\ clock \in 2..LastTime /\ PledgesOK(pledges, ids.pledge) /\ TransfersOK(transfers, ids.transfer)
      /\ ids.transfer \in Int
  BY PledgeState DEF PledgeInv
<1>2. /\ TransfersOK(transfers', ids.transfer)
      /\ \A s \in Pl!Assets : InTransfers(transfers', s)
                              = InTransfers(transfers, s) + (TransferHeld(None, s) - TransferHeld(transfers[i], s))
  <2>1. ids.transfer <= ids.transfer
    BY <1>1
  <2> QED
    BY <1>1, <2>1, TransferChanged
<1>3. \A s \in Pl!Assets : /\ TransferHeld(transfers[i], s) = IF s = t.amount.asset THEN t.amount.n ELSE 0
                           /\ TransferHeld(None, s) = 0
  BY DEF TransferHeld
<1>4. p.n \in Nat /\ q.n \in Nat
  BY DEF Money
<1>5. /\ b1 \in PurseSets
      /\ \A s \in Pl!Assets : InPurses(b1, s) = InPurses(purses, s) + IF s = p.asset THEN p.n ELSE 0
  BY <1>1, GiveSum
<1>6. purses' = Pl!Give(b1, y, q)
  OBVIOUS
<1> HIDE DEF b1, t
<1>7. /\ purses' \in PurseSets
      /\ \A s \in Pl!Assets : InPurses(purses', s) = InPurses(b1, s) + IF s = q.asset THEN q.n ELSE 0
  BY <1>5, <1>6, GiveSum
<1>8. \A s \in Pl!Assets : InPurses(purses', s) + InPledges(pledges', s) + InTransfers(transfers', s)
                           = InPurses(purses, s) + InPledges(pledges, s) + InTransfers(transfers, s)
  <2> SUFFICES ASSUME NEW s \in Pl!Assets
               PROVE  InPurses(purses', s) + InPledges(pledges', s) + InTransfers(transfers', s)
                      = InPurses(purses, s) + InPledges(pledges, s) + InTransfers(transfers, s)
    OBVIOUS
  <2> DEFINE u == IF s = p.asset THEN p.n ELSE 0
             v == IF s = q.asset THEN q.n ELSE 0
             w == IF s = t.amount.asset THEN t.amount.n ELSE 0
  <2>1. u \in Int /\ v \in Int /\ w = u + v
    BY <1>4 DEF t
  <2>2. /\ InPurses(b1, s) = InPurses(purses, s) + u /\ InPurses(purses', s) = InPurses(b1, s) + v
        /\ InTransfers(transfers', s) = InTransfers(transfers, s) + (0 - w) /\ pledges' = pledges
    BY <1>2, <1>3, <1>5, <1>7
  <2>3. InPurses(purses, s) \in Int /\ InPledges(pledges, s) \in Int /\ InTransfers(transfers, s) \in Int
    BY PledgeState
  <2> HIDE DEF u, v, w
  <2> QED
    BY <2>1, <2>2, <2>3
<1> QED
  BY <1>1, <1>2, <1>7, <1>8, PledgeInvKept

(* The sender approves: all goes to the receiver. *)
LEMMA TransferApproveKeeps ==
  ASSUME PledgeAssumptions, PledgeInv, NEW i \in Pl!TransferIds, Pl!ApprovedTransferApprove(i)
  PROVE  PledgeInv'
<1> DEFINE t == transfers[i]
           z == [asset |-> t.amount.asset, n |-> 0]
           b == Pl!Give(purses, t.to, t.amount)
<1>1. /\ t # None /\ purses' = b
      /\ transfers' = [transfers EXCEPT ![i] = None]
      /\ UNCHANGED <<pledges, ids, accumulated, gcwd_supply, gcwd_price, clock>>
  BY DEF Pl!ApprovedTransferApprove, Pl!saleVars
<1>2. t \in Pl!WaitingTransfers
  BY <1>1 DEF PledgeInv, TransfersOK
<1>3. t.amount \in Money /\ t.to \in Members /\ t.amount.n \in Nat /\ t.amount.asset \in Pl!Assets
  BY <1>2, TransferFields
<1>4. z \in Money /\ z.asset = t.amount.asset /\ z.n = 0
  BY <1>3 DEF Money
<1> HIDE DEF z
<1>5. b \in PurseSets
  BY <1>3, PledgeState, GiveSum
<1> HIDE DEF b
<1>6. Pl!Give(b, t.to, z) = b
  BY <1>3, <1>4, <1>5 DEF Pl!Give, PurseSets
<1>7. t.amount.n + z.n = t.amount.n
  BY <1>3, <1>4
<1>8. purses' = Pl!Give(Pl!Give(purses, t.to, t.amount), t.to, z)
  BY <1>1, <1>6 DEF b
<1> QED
  BY <1>1, <1>3, <1>4, <1>7, <1>8, TransferEnds

(* The arbitrator decides, and takes its part. *)
LEMMA TransferResolveKeeps ==
  ASSUME PledgeAssumptions, PledgeInv, NEW i \in Pl!TransferIds, NEW w \in Members,
         Pl!ApprovedTransferResolveDispute(i, w)
  PROVE  PledgeInv'
<1> DEFINE t == transfers[i]
           r == Pl!Reward(t.amount.n)
           p == [t.amount EXCEPT !.n = @ - Pl!Reward(@)]
           q == [t.amount EXCEPT !.n = Pl!Reward(@)]
<1>1. /\ t # None /\ purses' = Pl!Give(Pl!Give(purses, w, p), t.arbitr, q)
      /\ transfers' = [transfers EXCEPT ![i] = None]
      /\ UNCHANGED <<pledges, ids, accumulated, gcwd_supply, gcwd_price, clock>>
  BY DEF Pl!ApprovedTransferResolveDispute, Pl!saleVars
<1>2. t \in Pl!WaitingTransfers
  BY <1>1 DEF PledgeInv, TransfersOK
<1>3. t.amount \in Money /\ t.arbitr \in Members /\ t.amount.n \in Nat
  BY <1>2, TransferFields
<1>4. r \in Nat /\ r <= t.amount.n
  <2> DEFINE n == t.amount.n
  <2>1. n \in Nat /\ JudgeShare \in Nat /\ JudgeShare <= 100
    BY <1>3, PledgeConstants
  <2> HIDE DEF n
  <2>2. n * JudgeShare \in Nat /\ n * JudgeShare <= 100 * n
    BY <2>1
  <2>3. (n * JudgeShare) \div 100 \in Nat /\ 100 * ((n * JudgeShare) \div 100) <= n * JudgeShare
    BY <2>2
  <2>4. (n * JudgeShare) \div 100 <= n
    BY <2>1, <2>2, <2>3
  <2> QED
    BY <2>3, <2>4 DEF n, Pl!Reward
<1>5. /\ p \in Money /\ p.asset = t.amount.asset /\ p.n = t.amount.n - r
      /\ q \in Money /\ q.asset = t.amount.asset /\ q.n = r
  <2>1. p = [t.amount EXCEPT !.n = t.amount.n - r] /\ q = [t.amount EXCEPT !.n = r] /\ t.amount.n - r \in Nat
    BY <1>3, <1>4
  <2> HIDE DEF r
  <2> QED
    BY <1>3, <1>4, <2>1 DEF Money
<1>6. p.n + q.n = t.amount.n
  BY <1>3, <1>4, <1>5
<1> HIDE DEF p, q, r
<1> QED
  BY <1>1, <1>3, <1>5, <1>6, TransferEnds

(* A dispute stops the clock of a transfer. *)
LEMMA TransferDisputeKeeps ==
  ASSUME PledgeAssumptions, PledgeInv, NEW i \in Pl!TransferIds, Pl!ApprovedTransferOpenDispute(i)
  PROVE  PledgeInv'
<1> DEFINE t == transfers[i]
           d == Pl!DisputedTransfer(t)
<1>1. /\ t # None /\ transfers' = [transfers EXCEPT ![i] = d]
      /\ UNCHANGED <<purses, pledges, ids, accumulated, gcwd_supply, gcwd_price, clock>>
  BY DEF Pl!ApprovedTransferOpenDispute, Pl!saleVars
<1>2. /\ purses \in PurseSets /\ ids \in [pledge : 1..(MaxPledges + 1), transfer : 1..(MaxSent + 1)]
      /\ clock \in 2..LastTime /\ PledgesOK(pledges, ids.pledge) /\ TransfersOK(transfers, ids.transfer)
      /\ ids.transfer \in Int
  BY PledgeState DEF PledgeInv
<1>3. t \in Pl!WaitingTransfers /\ i < ids.transfer
  BY <1>1, <1>2 DEF TransfersOK
<1> HIDE DEF t
<1>4. d \in Pl!WaitingTransfers /\ d.status = 1 /\ d.expiration = 0 /\ d.amount = t.amount
  <2>1. 1 \in 0..1 /\ 0 \in 0..LastTime
    BY PledgeConstants
  <2> QED
    BY <1>3, <2>1 DEF Pl!WaitingTransfers, Pl!DisputedTransfer
<1> HIDE DEF d
<1>5. TransferOK(d) /\ d # None
  BY <1>4, PledgeConstants DEF TransferOK
<1>6. /\ TransfersOK(transfers', ids.transfer)
      /\ \A s \in Pl!Assets : InTransfers(transfers', s)
                              = InTransfers(transfers, s) + (TransferHeld(d, s) - TransferHeld(transfers[i], s))
  <2>1. ids.transfer <= ids.transfer
    BY <1>2
  <2> QED
    BY <1>1, <1>2, <1>3, <1>4, <1>5, <2>1, TransferChanged
<1>7. \A s \in Pl!Assets : TransferHeld(d, s) = TransferHeld(transfers[i], s) /\ TransferHeld(d, s) \in Int
  <2>1. t.amount.n \in Nat
    BY <1>3, TransferFields
  <2> QED
    BY <1>1, <1>4, <1>5, <2>1 DEF TransferHeld, t
<1>8. \A s \in Pl!Assets : InTransfers(transfers', s) = InTransfers(transfers, s)
  BY <1>6, <1>7, PledgeState
<1>9. purses' = purses /\ pledges' = pledges
  BY <1>1
<1>10. \A s \in Pl!Assets : InPurses(purses', s) + InPledges(pledges', s) + InTransfers(transfers', s)
                           = InPurses(purses, s) + InPledges(pledges, s) + InTransfers(transfers, s)
  BY <1>8, <1>9
<1> QED
  BY <1>1, <1>2, <1>6, <1>10, PledgeInvKept

(* A sale of GCWD: the price goes to the fees, one unit is issued. *)
LEMMA BuyGcwdKeeps ==
  ASSUME PledgeAssumptions, PledgeInv, NEW a \in Members, Pl!BuyGcwd(a)
  PROVE  PledgeInv'
<1> DEFINE price == [asset |-> "cwd", n |-> gcwd_price]
           one == [asset |-> "gcwd", n |-> 1]
           b1 == Pl!Take(purses, a, price)
<1>1. /\ Pl!Holds(purses, a, price) /\ gcwd_supply + 1 <= GcwdMaxSupply /\ purses' = Pl!Give(b1, a, one)
      /\ gcwd_supply' = gcwd_supply + 1 /\ accumulated' = accumulated + gcwd_price
      /\ gcwd_price' = gcwd_price + GcwdStep /\ UNCHANGED <<pledges, transfers, ids, clock>>
  BY DEF Pl!BuyGcwd
<1>2. /\ purses \in PurseSets /\ ids \in [pledge : 1..(MaxPledges + 1), transfer : 1..(MaxSent + 1)]
      /\ clock \in 2..LastTime /\ PledgesOK(pledges, ids.pledge) /\ TransfersOK(transfers, ids.transfer)
      /\ gcwd_price \in Nat /\ gcwd_supply \in Nat /\ accumulated \in Nat
  BY PledgeState DEF PledgeInv
<1>3. /\ price \in Money /\ price.asset = "cwd" /\ price.n = gcwd_price
      /\ one \in Money /\ one.asset = "gcwd" /\ one.n = 1
  BY <1>2 DEF Money, Pl!Assets
<1> HIDE DEF price, one
<1>4. /\ b1 \in PurseSets
      /\ \A s \in Pl!Assets : InPurses(b1, s) = InPurses(purses, s) - IF s = price.asset THEN price.n ELSE 0
  BY <1>1, <1>2, <1>3, TakeSum
<1> HIDE DEF b1
<1>5. /\ purses' \in PurseSets
      /\ \A s \in Pl!Assets : InPurses(purses', s) = InPurses(b1, s) + IF s = one.asset THEN one.n ELSE 0
  BY <1>1, <1>3, <1>4, GiveSum
<1>6. /\ accumulated' \in Nat /\ gcwd_supply' \in 0..GcwdMaxSupply /\ gcwd_price' \in Nat
  BY <1>1, <1>2, PledgeConstants
<1>7. ASSUME NEW s \in Pl!Assets
      PROVE  InPurses(purses', s) + InPledges(pledges', s) + InTransfers(transfers', s)
             = IF s = "cwd" THEN InPurses(Purses, "cwd") - accumulated' ELSE gcwd_supply'
  <2>1. /\ InPurses(purses, s) \in Int /\ InPledges(pledges, s) \in Int /\ InTransfers(transfers, s) \in Int
    BY PledgeState
  <2>2. InPurses(purses, s) + InPledges(pledges, s) + InTransfers(transfers, s) = Issued(s)
    BY DEF PledgeInv
  <2>3. pledges' = pledges /\ transfers' = transfers
    BY <1>1
  <2>4. Purses \in PurseSets /\ "cwd" \in Pl!Assets
    BY PledgeConstants DEF PurseSets, Pl!Assets
  <2>5. InPurses(Purses, "cwd") \in Int
    BY <2>4, HeldInt
  <2>6. CASE s = "cwd"
    <3>1. InPurses(purses', s) = InPurses(purses, s) - gcwd_price + 0
      BY <1>3, <1>4, <1>5, <2>6
    <3>2. InPurses(purses, s) + InPledges(pledges, s) + InTransfers(transfers, s)
          = InPurses(Purses, "cwd") - accumulated
      BY <2>2, <2>6 DEF Issued
    <3> QED
      BY <1>1, <1>2, <2>1, <2>3, <2>5, <2>6, <3>1, <3>2
  <2>7. CASE s = "gcwd"
    <3>1. InPurses(purses', s) = InPurses(purses, s) - 0 + 1
      BY <1>3, <1>4, <1>5, <2>7
    <3>2. InPurses(purses, s) + InPledges(pledges, s) + InTransfers(transfers, s) = gcwd_supply
      BY <2>2, <2>7 DEF Issued
    <3> QED
      BY <1>1, <1>2, <2>1, <2>3, <2>7, <3>1, <3>2
  <2> QED
    BY <2>6, <2>7 DEF Pl!Assets
<1> QED
  BY <1>1, <1>2, <1>5, <1>6, <1>7, PledgeInvNext

(* A mass payment takes the sum of its parts. *)
LEMMA MassPaymentKeeps ==
  ASSUME PledgeAssumptions, PledgeInv, NEW a \in Members, NEW asset \in Pl!Assets, NEW p \in Payrolls,
         Pl!MassPayment(a, asset, p)
  PROVE  PledgeInv'
<1> DEFINE total == [asset |-> asset, n |-> Pl!SumFunction(p)]
           less == Pl!Take(purses, a, total)
           paid == [x \in Members |-> IF x \in DOMAIN p THEN p[x] ELSE 0]
<1>1. /\ Pl!Holds(purses, a, total)
      /\ purses' = [x \in Members |->
            IF x \in DOMAIN p THEN [less[x] EXCEPT ![asset] = @ + p[x]] ELSE less[x]]
      /\ UNCHANGED <<pledges, transfers, ids, accumulated, gcwd_supply, gcwd_price, clock>>
  BY DEF Pl!MassPayment, Pl!saleVars
<1>2. /\ purses \in PurseSets /\ ids \in [pledge : 1..(MaxPledges + 1), transfer : 1..(MaxSent + 1)]
      /\ clock \in 2..LastTime /\ PledgesOK(pledges, ids.pledge) /\ TransfersOK(transfers, ids.transfer)
  BY PledgeState DEF PledgeInv
<1>3. IsFiniteSet(Members) /\ DOMAIN p \in SUBSET Members /\ p \in [DOMAIN p -> Nat]
  BY PledgeConstants
<1>4. IsFiniteSet(DOMAIN p) /\ \A x \in DOMAIN p : p[x] \in Nat
  BY <1>3, FS_Subset
<1>5. total.n = SumFunctionOnSet(p, DOMAIN p)
  BY SameSumPledges
<1>6. total.n \in Nat
  BY <1>4, <1>5, SumNat
<1>7. total \in Money /\ total.asset = asset
  BY <1>6 DEF Money
<1>8. /\ \A x \in Members : paid[x] \in Nat /\ paid[x] \in Int
      /\ \A x \in Members \ DOMAIN p : paid[x] = 0
      /\ \A x \in DOMAIN p : paid[x] = p[x] /\ p[x] \in Int
  BY <1>3, <1>4
<1> HIDE DEF total, paid
<1>9. SumFunctionOnSet(paid, Members) = total.n
  <2>1. SumFunctionOnSet(paid, Members) = SumFunctionOnSet(paid, DOMAIN p)
    BY <1>3, <1>8, SumPart
  <2>2. SumFunctionOnSet(paid, DOMAIN p) = SumFunctionOnSet(p, DOMAIN p)
    BY <1>4, <1>8, SumEqual
  <2> QED
    BY <1>5, <2>1, <2>2
<1>10. /\ less \in PurseSets
       /\ \A s \in Pl!Assets : InPurses(less, s) = InPurses(purses, s) - IF s = asset THEN total.n ELSE 0
  BY <1>1, <1>2, <1>7, TakeSum
<1> HIDE DEF less
<1>11. /\ purses' \in PurseSets
       /\ \A x \in Members, s \in Pl!Assets : purses'[x][s] = less[x][s] + IF s = asset THEN paid[x] ELSE 0
  <2>1. ASSUME NEW x \in Members
        PROVE  /\ purses'[x] \in [Pl!Assets -> Nat]
               /\ \A s \in Pl!Assets : purses'[x][s] = less[x][s] + IF s = asset THEN paid[x] ELSE 0
    <3>1. less[x] \in [Pl!Assets -> Nat] /\ paid[x] \in Nat
      BY <1>8, <1>10 DEF PurseSets
    <3>2. CASE x \in DOMAIN p
      <4>1. purses'[x] = [less[x] EXCEPT ![asset] = @ + paid[x]]
        BY <1>1, <1>8, <3>2
      <4> QED
        BY <3>1, <4>1
    <3>3. CASE x \notin DOMAIN p
      <4>1. purses'[x] = less[x] /\ paid[x] = 0
        BY <1>1, <1>8, <3>3
      <4> QED
        BY <3>1, <4>1
    <3> QED
      BY <3>2, <3>3
  <2>2. purses' = [x \in Members |-> purses'[x]]
    BY <1>1
  <2> QED
    BY <2>1, <2>2 DEF PurseSets
<1>12. ASSUME NEW s \in Pl!Assets PROVE InPurses(purses', s) = InPurses(purses, s)
  <2> DEFINE f == [x \in Members |-> less[x][s]]
             g == [x \in Members |-> IF s = asset THEN paid[x] ELSE 0]
             h == [x \in Members |-> purses'[x][s]]
  <2>1. \A x \in Members : f[x] \in Int /\ g[x] \in Int /\ h[x] = f[x] + g[x]
    BY <1>8, <1>10, <1>11 DEF PurseSets
  <2>2. s = asset => \A x \in Members : paid[x] \in Int /\ g[x] = paid[x]
    BY <1>8
  <2>3. s # asset => \A x \in Members : g[x] = 0
    OBVIOUS
  <2>4. InPurses(less, s) = SumFunctionOnSet(f, Members) /\ InPurses(purses', s) = SumFunctionOnSet(h, Members)
    BY DEF InPurses
  <2> HIDE DEF f, g, h
  <2>5. SumFunctionOnSet(h, Members) = SumFunctionOnSet(f, Members) + SumFunctionOnSet(g, Members)
    BY <1>3, <2>1, SumPlus
  <2>6. SumFunctionOnSet(g, Members) = IF s = asset THEN total.n ELSE 0
    <3>1. CASE s = asset
      BY <1>3, <1>9, <2>2, <3>1, SumEqual
    <3>2. CASE s # asset
      BY <1>3, <2>3, <3>2, SumZero
    <3> QED
      BY <3>1, <3>2
  <2>7. InPurses(purses, s) \in Int
    BY PledgeState
  <2> QED
    BY <1>6, <1>10, <2>4, <2>5, <2>6, <2>7
<1>13. pledges' = pledges /\ transfers' = transfers
  BY <1>1
<1>14. \A s \in Pl!Assets : InPurses(purses', s) + InPledges(pledges', s) + InTransfers(transfers', s)
                            = InPurses(purses, s) + InPledges(pledges, s) + InTransfers(transfers, s)
  BY <1>12, <1>13
<1> QED
  BY <1>1, <1>2, <1>11, <1>14, PledgeInvKept

(* What the walks of the end of a block settle. *)
LEMMA WalksSettle ==
  ASSUME PledgeAssumptions, PledgeInv, NEW head \in Nat, head > 1
  PROVE  /\ Pl!Walked(pledges, 1, head) \in SUBSET Pl!OfferIds
         /\ \A i \in Pl!Walked(pledges, 1, head) :
               pledges[i] # None /\ pledges[i].status = 1 /\ pledges[i].expiration < head
         /\ \A i \in Pl!OfferIds : pledges[i] # None /\ pledges[i].expiration > 1 /\ pledges[i].expiration < head
                                   => i \in Pl!Walked(pledges, 1, head)
         /\ Pl!Walked(transfers, 0, head) \in SUBSET Pl!TransferIds
         /\ \A i \in Pl!Walked(transfers, 0, head) :
               transfers[i] # None /\ transfers[i].status = 0 /\ transfers[i].expiration < head
         /\ \A i \in Pl!TransferIds :
               transfers[i] # None /\ transfers[i].expiration > 1 /\ transfers[i].expiration < head
               => i \in Pl!Walked(transfers, 0, head)
<1>1. PledgesOK(pledges, ids.pledge) /\ TransfersOK(transfers, ids.transfer)
  BY DEF PledgeInv
<1>2. DOMAIN pledges = 1..MaxPledges /\ DOMAIN transfers = 1..MaxSent /\ MaxPledges \in Nat /\ MaxSent \in Nat
  BY <1>1, PledgeConstants DEF PledgesOK, TransfersOK, Pl!OfferIds, Pl!TransferIds
<1>3. Pl!Ids(pledges) = {i \in Pl!OfferIds : pledges[i] # None}
  BY <1>2 DEF Pl!Ids, Pl!OfferIds
<1>4. Pl!Ids(transfers) = {i \in Pl!TransferIds : transfers[i] # None}
  BY <1>2 DEF Pl!Ids, Pl!TransferIds
<1>5. Indexed(pledges, 1, MaxPledges)
  <2>1. ASSUME NEW i \in Pl!Ids(pledges)
        PROVE  /\ pledges[i].expiration \in Nat
               /\ pledges[i].expiration > 0 => pledges[i].status = 1
    <3>1. pledges[i] \in Pl!PledgeOffers /\ PledgeOK(pledges[i])
      BY <1>1, <1>3 DEF PledgesOK
    <3>2. pledges[i].expiration \in Nat /\ pledges[i].status \in 0..1
      BY <3>1, PledgeFields
    <3> QED
      BY <3>1, <3>2 DEF PledgeOK
  <2> QED
    BY <1>2, <2>1 DEF Indexed
<1>6. Indexed(transfers, 0, MaxSent)
  <2>1. ASSUME NEW i \in Pl!Ids(transfers)
        PROVE  /\ transfers[i].expiration \in Nat
               /\ transfers[i].expiration > 0 => transfers[i].status = 0
    <3>1. transfers[i] \in Pl!WaitingTransfers /\ TransferOK(transfers[i])
      BY <1>1, <1>4 DEF TransfersOK
    <3>2. transfers[i].expiration \in Nat
      BY <3>1, TransferFields
    <3> QED
      BY <3>1, <3>2 DEF TransferOK
  <2> QED
    BY <1>2, <2>1 DEF Indexed
<1> DEFINE P == Pl!Walked(pledges, 1, head)
           T == Pl!Walked(transfers, 0, head)
<1>7. /\ P \in SUBSET {i \in Pl!Ids(pledges) : pledges[i].expiration > 0 /\ pledges[i].expiration < head
                                               /\ pledges[i].status = 1}
      /\ \A i \in Pl!Ids(pledges) : pledges[i].expiration > 1 /\ pledges[i].expiration < head => i \in P
  BY <1>5, WalkSettles
<1>8. /\ T \in SUBSET {i \in Pl!Ids(transfers) : transfers[i].expiration > 0 /\ transfers[i].expiration < head
                                                 /\ transfers[i].status = 0}
      /\ \A i \in Pl!Ids(transfers) : transfers[i].expiration > 1 /\ transfers[i].expiration < head => i \in T
  BY <1>6, WalkSettles
<1> HIDE DEF P, T
<1>9. /\ P \in SUBSET Pl!OfferIds
      /\ \A i \in P : pledges[i] # None /\ pledges[i].status = 1 /\ pledges[i].expiration < head
      /\ \A i \in Pl!OfferIds : pledges[i] # None /\ pledges[i].expiration > 1 /\ pledges[i].expiration < head
                                => i \in P
  BY <1>3, <1>7
<1>10. /\ T \in SUBSET Pl!TransferIds
       /\ \A i \in T : transfers[i] # None /\ transfers[i].status = 0 /\ transfers[i].expiration < head
       /\ \A i \in Pl!TransferIds :
             transfers[i] # None /\ transfers[i].expiration > 1 /\ transfers[i].expiration < head => i \in T
  BY <1>4, <1>8
<1> QED
  BY <1>9, <1>10 DEF P, T

(* Of the objects D, which hold f before and g after, those in sel pay val *)
(* to the accounts who; an account gets pay.                               *)
PaysOut(D, sel, who, val, pay, f, g) ==
  /\ IsFiniteSet(Members) /\ IsFiniteSet(D) /\ sel \in SUBSET D
  /\ \A i \in sel : who[i] \in Members /\ val[i] \in Nat
  /\ \A a \in Members : pay[a] = SumFunctionOnSet(val, {i \in sel : who[i] = a})
  /\ \A i \in D : f[i] \in Nat
  /\ \A i \in sel : f[i] = val[i] /\ g[i] = 0
  /\ \A i \in D \ sel : g[i] = f[i]

LEMMA PaidOut ==
  ASSUME NEW D, NEW sel, NEW who, NEW val, NEW pay, NEW f, NEW g, PaysOut(D, sel, who, val, pay, f, g)
  PROVE  /\ \A a \in Members : pay[a] \in Nat
         /\ SumFunctionOnSet(pay, Members) \in Int /\ SumFunctionOnSet(g, D) \in Int
         /\ SumFunctionOnSet(g, D) + SumFunctionOnSet(pay, Members) = SumFunctionOnSet(f, D)
<1> USE DEF PaysOut
<1>1. IsFiniteSet(sel)
  BY FS_Subset
<1>2. ASSUME NEW a \in Members PROVE pay[a] \in Nat
  <2> DEFINE U == {i \in sel : who[i] = a}
  <2>1. IsFiniteSet(U)
    BY <1>1, FS_Subset
  <2>2. \A i \in U : val[i] \in Nat
    OBVIOUS
  <2>3. SumFunctionOnSet(val, U) \in Nat
    <3> HIDE DEF U
    <3> QED
      BY <2>1, <2>2, SumNat
  <2> QED
    BY <2>3
<1>3. SumFunctionOnSet(pay, Members) = SumFunctionOnSet(val, sel)
  <2> DEFINE r == [a \in Members |-> SumFunctionOnSet(val, {k \in sel : who[k] = a})]
  <2>1. SumFunctionOnSet(r, Members) = SumFunctionOnSet(val, sel)
    <3>1. (\A k \in sel : who[k] \in Members) /\ \A k \in sel : val[k] \in Int
      OBVIOUS
    <3> QED
      BY <1>1, <3>1, SumFibers
  <2>2. \A a \in Members : r[a] \in Int /\ pay[a] = r[a]
    BY <1>2
  <2> HIDE DEF r
  <2>3. SumFunctionOnSet(pay, Members) = SumFunctionOnSet(r, Members)
    BY <2>2, SumEqual
  <2> QED
    BY <2>1, <2>3
<1> DEFINE h == [i \in D |-> IF i \in sel THEN val[i] ELSE 0]
<1>4. \A i \in D : h[i] \in Int /\ g[i] \in Int /\ f[i] = g[i] + h[i]
  OBVIOUS
<1>5. (\A i \in D \ sel : h[i] = 0) /\ \A i \in sel : val[i] \in Int /\ h[i] = val[i]
  OBVIOUS
<1> HIDE DEF h
<1>6. SumFunctionOnSet(f, D) = SumFunctionOnSet(g, D) + SumFunctionOnSet(h, D)
  BY <1>4, SumPlus
<1>7. SumFunctionOnSet(h, D) = SumFunctionOnSet(h, sel)
  BY <1>4, <1>5, SumPart
<1>8. SumFunctionOnSet(h, sel) = SumFunctionOnSet(val, sel)
  BY <1>1, <1>5, SumEqual
<1>9. SumFunctionOnSet(g, D) \in Int /\ SumFunctionOnSet(val, sel) \in Int
  BY <1>1, <1>4, <1>5, SumInt
<1> QED
  BY <1>2, <1>3, <1>6, <1>7, <1>8, <1>9

(* What the settled pledges bring the creditors, the node no longer holds. *)
LEMMA SeizedSum ==
  ASSUME PledgeAssumptions, PledgeInv, NEW done \in SUBSET Pl!OfferIds, NEW s \in Pl!Assets,
         \A i \in done : pledges[i] # None /\ pledges[i].status = 1,
         NEW new, new = [i \in Pl!OfferIds |-> IF i \in done THEN None ELSE pledges[i]]
  PROVE  LET pay == [a \in Members |-> Pl!Seized(done, a, s)]
         IN  /\ \A a \in Members : Pl!Seized(done, a, s) \in Nat
             /\ SumFunctionOnSet(pay, Members) \in Int /\ InPledges(new, s) \in Int
             /\ InPledges(new, s) + SumFunctionOnSet(pay, Members) = InPledges(pledges, s)
<1> DEFINE sel == {i \in done : pledges[i].terms.pledge.asset = s}
           who == [i \in done |-> pledges[i].creditor]
           val == [i \in done |-> pledges[i].terms.pledge.n]
           pay == [a \in Members |-> Pl!Seized(done, a, s)]
           f == [i \in Pl!OfferIds |-> PledgeHeld(pledges[i], s)]
           g == [i \in Pl!OfferIds |-> PledgeHeld(new[i], s)]
<1>1. IsFiniteSet(Members) /\ IsFiniteSet(Pl!OfferIds) /\ PledgesOK(pledges, ids.pledge)
  BY PledgeConstants DEF PledgeInv
<1>2. \A i \in sel : who[i] \in Members /\ val[i] \in Nat
  <2> SUFFICES ASSUME NEW i \in sel PROVE who[i] \in Members /\ val[i] \in Nat
    OBVIOUS
  <2>1. pledges[i] \in Pl!PledgeOffers
    BY <1>1 DEF PledgesOK
  <2> QED
    BY <2>1, PledgeFields
<1>3. ASSUME NEW a \in Members PROVE pay[a] = SumFunctionOnSet(val, {i \in sel : who[i] = a})
  <2>1. {i \in sel : who[i] = a} = {i \in done : pledges[i].creditor = a /\ pledges[i].terms.pledge.asset = s}
    OBVIOUS
  <2>2. pay[a] = Pl!SumFunctionOnSet(val, {i \in done : pledges[i].creditor = a /\ pledges[i].terms.pledge.asset = s})
    BY DEF Pl!Seized
  <2> HIDE DEF val, sel, who, pay
  <2> QED
    BY <2>1, <2>2, SameSumPledges
<1>4. \A i \in Pl!OfferIds : f[i] \in Nat
  BY <1>1, HeldInt
<1>5. (\A i \in sel : f[i] = val[i] /\ g[i] = 0) /\ \A i \in Pl!OfferIds \ sel : g[i] = f[i]
  BY DEF PledgeHeld
<1>6. sel \in SUBSET Pl!OfferIds
  OBVIOUS
<1>7. InPledges(new, s) = SumFunctionOnSet(g, Pl!OfferIds) /\ InPledges(pledges, s) = SumFunctionOnSet(f, Pl!OfferIds)
  BY DEF InPledges
<1>8. \A a \in Members : pay[a] = Pl!Seized(done, a, s)
  OBVIOUS
<1> HIDE DEF sel, who, val, pay, f, g
<1>9. /\ \A a \in Members : pay[a] \in Nat
      /\ SumFunctionOnSet(pay, Members) \in Int /\ SumFunctionOnSet(g, Pl!OfferIds) \in Int
      /\ SumFunctionOnSet(g, Pl!OfferIds) + SumFunctionOnSet(pay, Members) = SumFunctionOnSet(f, Pl!OfferIds)
  <2>1. PaysOut(Pl!OfferIds, sel, who, val, pay, f, g)
    BY <1>1, <1>2, <1>3, <1>4, <1>5, <1>6 DEF PaysOut
  <2> QED
    BY <2>1, PaidOut
<1> QED
  BY <1>7, <1>8, <1>9 DEF pay

(* And what the transfers that end return to their senders. *)
LEMMA ReturnedSum ==
  ASSUME PledgeAssumptions, PledgeInv, NEW done \in SUBSET Pl!TransferIds, NEW s \in Pl!Assets,
         \A i \in done : transfers[i] # None,
         NEW new, new = [i \in Pl!TransferIds |-> IF i \in done THEN None ELSE transfers[i]]
  PROVE  LET pay == [a \in Members |-> Pl!Returned(done, a, s)]
         IN  /\ \A a \in Members : Pl!Returned(done, a, s) \in Nat
             /\ SumFunctionOnSet(pay, Members) \in Int /\ InTransfers(new, s) \in Int
             /\ InTransfers(new, s) + SumFunctionOnSet(pay, Members) = InTransfers(transfers, s)
<1> DEFINE sel == {i \in done : transfers[i].amount.asset = s}
           who == [i \in done |-> transfers[i].from]
           val == [i \in done |-> transfers[i].amount.n]
           pay == [a \in Members |-> Pl!Returned(done, a, s)]
           f == [i \in Pl!TransferIds |-> TransferHeld(transfers[i], s)]
           g == [i \in Pl!TransferIds |-> TransferHeld(new[i], s)]
<1>1. IsFiniteSet(Members) /\ IsFiniteSet(Pl!TransferIds) /\ TransfersOK(transfers, ids.transfer)
  BY PledgeConstants DEF PledgeInv
<1>2. \A i \in sel : who[i] \in Members /\ val[i] \in Nat
  <2> SUFFICES ASSUME NEW i \in sel PROVE who[i] \in Members /\ val[i] \in Nat
    OBVIOUS
  <2>1. transfers[i] \in Pl!WaitingTransfers
    BY <1>1 DEF TransfersOK
  <2> QED
    BY <2>1, TransferFields
<1>3. ASSUME NEW a \in Members PROVE pay[a] = SumFunctionOnSet(val, {i \in sel : who[i] = a})
  <2>1. {i \in sel : who[i] = a} = {i \in done : transfers[i].from = a /\ transfers[i].amount.asset = s}
    OBVIOUS
  <2>2. pay[a] = Pl!SumFunctionOnSet(val, {i \in done : transfers[i].from = a /\ transfers[i].amount.asset = s})
    BY DEF Pl!Returned
  <2> HIDE DEF val, sel, who, pay
  <2> QED
    BY <2>1, <2>2, SameSumPledges
<1>4. \A i \in Pl!TransferIds : f[i] \in Nat
  BY <1>1, HeldInt
<1>5. (\A i \in sel : f[i] = val[i] /\ g[i] = 0) /\ \A i \in Pl!TransferIds \ sel : g[i] = f[i]
  BY DEF TransferHeld
<1>6. sel \in SUBSET Pl!TransferIds
  OBVIOUS
<1>7. /\ InTransfers(new, s) = SumFunctionOnSet(g, Pl!TransferIds)
      /\ InTransfers(transfers, s) = SumFunctionOnSet(f, Pl!TransferIds)
  BY DEF InTransfers
<1>8. \A a \in Members : pay[a] = Pl!Returned(done, a, s)
  OBVIOUS
<1> HIDE DEF sel, who, val, pay, f, g
<1>9. /\ \A a \in Members : pay[a] \in Nat
      /\ SumFunctionOnSet(pay, Members) \in Int /\ SumFunctionOnSet(g, Pl!TransferIds) \in Int
      /\ SumFunctionOnSet(g, Pl!TransferIds) + SumFunctionOnSet(pay, Members) = SumFunctionOnSet(f, Pl!TransferIds)
  <2>1. PaysOut(Pl!TransferIds, sel, who, val, pay, f, g)
    BY <1>1, <1>2, <1>3, <1>4, <1>5, <1>6 DEF PaysOut
  <2> QED
    BY <2>1, PaidOut
<1> QED
  BY <1>7, <1>8, <1>9 DEF pay

(* The end of a block hands out what its two walks settle. *)
LEMMA EndOfBlockKeeps ==
  ASSUME PledgeAssumptions, PledgeInv, Pl!EndOfBlock
  PROVE  PledgeInv'
<1> DEFINE head == clock + 1
           P == Pl!Walked(pledges, 1, head)
           T == Pl!Walked(transfers, 0, head)
<1>1. /\ clock < LastTime /\ clock' = head
      /\ purses' = [a \in Members |-> [s \in Pl!Assets |->
            purses[a][s] + Pl!Seized(P, a, s) + Pl!Returned(T, a, s)]]
      /\ pledges' = [i \in Pl!OfferIds |-> IF i \in P THEN None ELSE pledges[i]]
      /\ transfers' = [i \in Pl!TransferIds |-> IF i \in T THEN None ELSE transfers[i]]
      /\ UNCHANGED <<ids, accumulated, gcwd_supply, gcwd_price>>
  BY DEF Pl!EndOfBlock, Pl!saleVars
<1>2. /\ purses \in PurseSets /\ ids \in [pledge : 1..(MaxPledges + 1), transfer : 1..(MaxSent + 1)]
      /\ clock \in 2..LastTime /\ clock \in Nat
      /\ PledgesOK(pledges, ids.pledge) /\ TransfersOK(transfers, ids.transfer)
  BY PledgeState DEF PledgeInv
<1>3. head \in Nat /\ head > 1 /\ clock' \in 2..LastTime
  BY <1>1, <1>2, PledgeConstants
<1> HIDE DEF head
<1>4. /\ P \in SUBSET Pl!OfferIds /\ \A i \in P : pledges[i] # None /\ pledges[i].status = 1
      /\ T \in SUBSET Pl!TransferIds /\ \A i \in T : transfers[i] # None
  BY <1>3, WalksSettle
<1> HIDE DEF P, T
<1>5. PledgesOK(pledges', ids'.pledge)
  <2>1. \A i \in Pl!OfferIds : pledges'[i] = IF i \in P THEN None ELSE pledges[i]
    BY <1>1
  <2>2. pledges' \in [Pl!OfferIds -> Pl!PledgeOffers \cup {None}]
    BY <1>1, <1>2 DEF PledgesOK
  <2>3. \A i \in Pl!OfferIds : pledges'[i] # None => i < ids.pledge /\ PledgeOK(pledges'[i])
    BY <1>2, <2>1 DEF PledgesOK
  <2>4. ids' = ids
    BY <1>1
  <2> QED
    BY <2>2, <2>3, <2>4 DEF PledgesOK
<1>6. TransfersOK(transfers', ids'.transfer)
  <2>1. \A i \in Pl!TransferIds : transfers'[i] = IF i \in T THEN None ELSE transfers[i]
    BY <1>1
  <2>2. transfers' \in [Pl!TransferIds -> Pl!WaitingTransfers \cup {None}]
    BY <1>1, <1>2 DEF TransfersOK
  <2>3. \A i \in Pl!TransferIds : transfers'[i] # None => i < ids.transfer /\ TransferOK(transfers'[i])
    BY <1>2, <2>1 DEF TransfersOK
  <2>4. ids' = ids
    BY <1>1
  <2> QED
    BY <2>2, <2>3, <2>4 DEF TransfersOK
<1>7. ASSUME NEW s \in Pl!Assets
      PROVE  /\ \A a \in Members : /\ Pl!Seized(P, a, s) \in Nat /\ Pl!Returned(T, a, s) \in Nat
                                   /\ purses'[a][s] \in Nat
             /\ InPurses(purses', s) + InPledges(pledges', s) + InTransfers(transfers', s)
                = InPurses(purses, s) + InPledges(pledges, s) + InTransfers(transfers, s)
  <2> DEFINE u == [a \in Members |-> Pl!Seized(P, a, s)]
             v == [a \in Members |-> Pl!Returned(T, a, s)]
             f == [a \in Members |-> purses[a][s]]
             g == [a \in Members |-> purses[a][s] + Pl!Seized(P, a, s)]
             h == [a \in Members |-> purses'[a][s]]
  <2>1. /\ \A a \in Members : Pl!Seized(P, a, s) \in Nat
        /\ SumFunctionOnSet(u, Members) \in Int /\ InPledges(pledges', s) \in Int
        /\ InPledges(pledges', s) + SumFunctionOnSet(u, Members) = InPledges(pledges, s)
    BY <1>1, <1>4, SeizedSum
  <2>2. /\ \A a \in Members : Pl!Returned(T, a, s) \in Nat
        /\ SumFunctionOnSet(v, Members) \in Int /\ InTransfers(transfers', s) \in Int
        /\ InTransfers(transfers', s) + SumFunctionOnSet(v, Members) = InTransfers(transfers, s)
    BY <1>1, <1>4, ReturnedSum
  <2>3. \A a \in Members : purses'[a][s] = purses[a][s] + Pl!Seized(P, a, s) + Pl!Returned(T, a, s)
    BY <1>1
  <2>4. \A a \in Members : purses[a][s] \in Nat
    BY <1>2 DEF PurseSets
  <2>5. \A a \in Members : f[a] \in Int /\ u[a] \in Int /\ g[a] = f[a] + u[a]
    BY <2>1, <2>4
  <2>6. \A a \in Members : g[a] \in Int /\ v[a] \in Int /\ h[a] = g[a] + v[a] /\ h[a] \in Nat
    BY <2>1, <2>2, <2>3, <2>4
  <2>7. InPurses(purses, s) = SumFunctionOnSet(f, Members) /\ InPurses(purses', s) = SumFunctionOnSet(h, Members)
    BY DEF InPurses
  <2>8. \A a \in Members : purses'[a][s] \in Nat
    BY <2>1, <2>2, <2>3, <2>4
  <2> HIDE DEF u, v, f, g, h
  <2>9. IsFiniteSet(Members)
    BY PledgeConstants
  <2>10. SumFunctionOnSet(g, Members) = SumFunctionOnSet(f, Members) + SumFunctionOnSet(u, Members)
    BY <2>5, <2>9, SumPlus
  <2>11. SumFunctionOnSet(h, Members) = SumFunctionOnSet(g, Members) + SumFunctionOnSet(v, Members)
    BY <2>6, <2>9, SumPlus
  <2>12. SumFunctionOnSet(f, Members) \in Int
    BY <2>5, <2>9, SumInt
  <2>13. InPurses(purses', s) + InPledges(pledges', s) + InTransfers(transfers', s)
         = InPurses(purses, s) + InPledges(pledges, s) + InTransfers(transfers, s)
    BY <2>1, <2>2, <2>7, <2>10, <2>11, <2>12
  <2> QED
    BY <2>1, <2>2, <2>8, <2>13
<1>8. purses' \in PurseSets
  <2>1. \A a \in Members : purses'[a] = [s \in Pl!Assets |-> purses'[a][s]]
    BY <1>1
  <2>2. \A a \in Members : purses'[a] \in [Pl!Assets -> Nat]
    BY <1>7, <2>1
  <2>3. purses' = [a \in Members |-> purses'[a]]
    BY <1>1
  <2> QED
    BY <2>2, <2>3 DEF PurseSets
<1>9. ids' = ids
  BY <1>1
<1> QED
  BY <1>1, <1>2, <1>3, <1>5, <1>6, <1>7, <1>8, <1>9, PledgeInvKept

(* The invariant holds at the start, after every step, and so always. *)
LEMMA PledgeStart ==
  ASSUME PledgeAssumptions, Pl!Init
  PROVE  PledgeInv
<1>1. /\ purses = Purses /\ pledges = [i \in Pl!OfferIds |-> None] /\ transfers = [i \in Pl!TransferIds |-> None]
      /\ ids = [pledge |-> 1, transfer |-> 1] /\ accumulated = 0
      /\ gcwd_supply = Pl!InBalances(Purses, "gcwd") /\ gcwd_price = GcwdPrice /\ clock = 2
  BY DEF Pl!Init
<1>2. Purses \in PurseSets /\ "cwd" \in Pl!Assets /\ "gcwd" \in Pl!Assets
  BY PledgeConstants DEF PurseSets, Pl!Assets
<1>3. Pl!InBalances(Purses, "gcwd") = InPurses(Purses, "gcwd")
  BY SameSumPledges DEF Pl!InBalances, InPurses
<1>4. InPurses(Purses, "gcwd") \in Nat
  <2> DEFINE f == [a \in Members |-> Purses[a]["gcwd"]]
  <2>1. \A a \in Members : f[a] \in Nat
    BY <1>2 DEF PurseSets
  <2> HIDE DEF f
  <2>2. SumFunctionOnSet(f, Members) \in Nat
    BY <2>1, PledgeConstants, SumNat
  <2> QED
    BY <2>2 DEF f, InPurses
<1>5. gcwd_supply \in 0..GcwdMaxSupply
  <2>1. Pl!InBalances(Purses, "gcwd") <= GcwdMaxSupply
    BY DEF PledgeAssumptions, Pl!AccountAssumption
  <2> QED
    BY <1>1, <1>3, <1>4, <2>1, PledgeConstants
<1>6. Pl!TypeOK
  <2>1. ids \in [pledge : 1..(MaxPledges + 1), transfer : 1..(MaxSent + 1)]
    BY <1>1, PledgeConstants
  <2>2. /\ pledges \in [Pl!OfferIds -> Pl!PledgeOffers \cup {None}]
        /\ transfers \in [Pl!TransferIds -> Pl!WaitingTransfers \cup {None}]
    BY <1>1
  <2>3. accumulated \in Nat /\ gcwd_price \in Nat /\ clock \in 2..LastTime
    BY <1>1, PledgeConstants
  <2> QED
    BY <1>1, <1>2, <1>5, <2>1, <2>2, <2>3 DEF Pl!TypeOK, PurseSets
<1>7. PledgesOK(pledges, ids.pledge) /\ TransfersOK(transfers, ids.transfer)
  BY <1>1 DEF PledgesOK, TransfersOK
<1>8. ASSUME NEW s \in Pl!Assets
      PROVE  InPurses(purses, s) + InPledges(pledges, s) + InTransfers(transfers, s) = Issued(s)
  <2> DEFINE f == [i \in Pl!OfferIds |-> PledgeHeld(pledges[i], s)]
             g == [i \in Pl!TransferIds |-> TransferHeld(transfers[i], s)]
  <2>1. (\A i \in Pl!OfferIds : f[i] = 0) /\ \A i \in Pl!TransferIds : g[i] = 0
    BY <1>1 DEF PledgeHeld, TransferHeld
  <2>2. InPledges(pledges, s) = SumFunctionOnSet(f, Pl!OfferIds)
        /\ InTransfers(transfers, s) = SumFunctionOnSet(g, Pl!TransferIds)
    BY DEF InPledges, InTransfers
  <2> HIDE DEF f, g
  <2>3. IsFiniteSet(Pl!OfferIds) /\ IsFiniteSet(Pl!TransferIds)
    BY PledgeConstants
  <2>4. SumFunctionOnSet(f, Pl!OfferIds) = 0 /\ SumFunctionOnSet(g, Pl!TransferIds) = 0
    BY <2>1, <2>3, SumZero
  <2>5. InPurses(Purses, s) \in Int
    BY <1>2, HeldInt
  <2>6. Issued(s) = InPurses(Purses, s)
    <3>1. CASE s = "cwd"
      BY <1>1, <2>5, <3>1 DEF Issued
    <3>2. CASE s = "gcwd"
      BY <1>1, <1>3, <3>2 DEF Issued
    <3> QED
      BY <3>1, <3>2 DEF Pl!Assets
  <2> QED
    BY <1>1, <2>2, <2>4, <2>5, <2>6
<1> QED
  BY <1>6, <1>7, <1>8 DEF PledgeInv

LEMMA PledgeNext ==
  ASSUME PledgeAssumptions, PledgeInv, [Pl!Next]_(Pl!vars)
  PROVE  PledgeInv'
<1>1. CASE UNCHANGED Pl!vars
  <2>1. /\ purses' = purses /\ pledges' = pledges /\ transfers' = transfers /\ ids' = ids /\ clock' = clock
        /\ UNCHANGED <<accumulated, gcwd_supply, gcwd_price>>
    BY <1>1 DEF Pl!vars
  <2>2. /\ purses \in PurseSets /\ ids \in [pledge : 1..(MaxPledges + 1), transfer : 1..(MaxSent + 1)]
        /\ clock \in 2..LastTime /\ PledgesOK(pledges, ids.pledge) /\ TransfersOK(transfers, ids.transfer)
    BY PledgeState DEF PledgeInv
  <2> QED
    BY <2>1, <2>2, PledgeInvKept
<1>2. CASE Pl!Next
  BY <1>2, OfferCreateKeeps, OfferCancelKeeps, OfferFillKeeps, OfferRepayKeeps, TransferCreateKeeps,
     TransferApproveKeeps, TransferDisputeKeeps, TransferResolveKeeps, BuyGcwdKeeps, MassPaymentKeeps,
     EndOfBlockKeeps DEF Pl!Next
<1> QED
  BY <1>1, <1>2

LEMMA PledgeAlways ==
  ASSUME PledgeAssumptions
  PROVE  Pl!Spec => []PledgeInv
<1>1. Pl!Init => PledgeInv
  BY PledgeStart
<1>2. PledgeInv /\ [Pl!Next]_(Pl!vars) => PledgeInv'
  BY PledgeNext
<1> QED
  BY <1>1, <1>2, PTL DEF Pl!Spec

(* The money in filled pledges and waiting transfers, added up as the      *)
(* property does.                                                          *)
LEMMA FundsAddUp ==
  ASSUME PledgeAssumptions, PledgeInv
  PROVE  Pl!FundsConserved
<1>1. ASSUME NEW s \in Pl!Assets
      PROVE  Pl!InTransit(s) = InPledges(pledges, s) + InTransfers(transfers, s)
  <2> DEFINE P == {i \in Pl!Filled : pledges[i].terms.pledge.asset = s}
             T == {i \in Pl!Live : transfers[i].amount.asset = s}
             p == [i \in Pl!Filled |-> pledges[i].terms.pledge.n]
             t == [i \in Pl!Live |-> transfers[i].amount.n]
             f == [i \in Pl!OfferIds |-> PledgeHeld(pledges[i], s)]
             g == [i \in Pl!TransferIds |-> TransferHeld(transfers[i], s)]
  <2>1. P \in SUBSET Pl!OfferIds /\ T \in SUBSET Pl!TransferIds
    BY DEF Pl!Filled, Pl!Live
  <2>2. IsFiniteSet(Pl!OfferIds) /\ IsFiniteSet(Pl!TransferIds) /\ IsFiniteSet(P) /\ IsFiniteSet(T)
    BY <2>1, PledgeConstants, FS_Subset
  <2>3. (\A i \in Pl!OfferIds : PledgeHeld(pledges[i], s) \in Nat)
        /\ \A i \in Pl!TransferIds : TransferHeld(transfers[i], s) \in Nat
    BY HeldInt DEF PledgeInv
  <2>4. /\ \A i \in Pl!OfferIds : f[i] \in Int
        /\ \A i \in Pl!OfferIds \ P : f[i] = 0
        /\ \A i \in P : f[i] \in Int /\ p[i] = f[i]
    BY <2>1, <2>3 DEF PledgeHeld, Pl!Filled
  <2>5. /\ \A i \in Pl!TransferIds : g[i] \in Int
        /\ \A i \in Pl!TransferIds \ T : g[i] = 0
        /\ \A i \in T : g[i] \in Int /\ t[i] = g[i]
    BY <2>1, <2>3 DEF TransferHeld, Pl!Live
  <2>6. InPledges(pledges, s) = SumFunctionOnSet(f, Pl!OfferIds)
        /\ InTransfers(transfers, s) = SumFunctionOnSet(g, Pl!TransferIds)
    BY DEF InPledges, InTransfers
  <2>7. Pl!InTransit(s) = Pl!SumFunctionOnSet(p, P) + Pl!SumFunctionOnSet(t, T)
    BY DEF Pl!InTransit
  <2> HIDE DEF P, T, p, t, f, g
  <2>8. SumFunctionOnSet(f, Pl!OfferIds) = SumFunctionOnSet(p, P)
    <3>1. SumFunctionOnSet(f, Pl!OfferIds) = SumFunctionOnSet(f, P)
      BY <2>1, <2>2, <2>4, SumPart
    <3>2. SumFunctionOnSet(p, P) = SumFunctionOnSet(f, P)
      BY <2>2, <2>4, SumEqual
    <3> QED
      BY <3>1, <3>2
  <2>9. SumFunctionOnSet(g, Pl!TransferIds) = SumFunctionOnSet(t, T)
    <3>1. SumFunctionOnSet(g, Pl!TransferIds) = SumFunctionOnSet(g, T)
      BY <2>1, <2>2, <2>5, SumPart
    <3>2. SumFunctionOnSet(t, T) = SumFunctionOnSet(g, T)
      BY <2>2, <2>5, SumEqual
    <3> QED
      BY <3>1, <3>2
  <2> QED
    BY <2>6, <2>7, <2>8, <2>9, SameSumPledges
<1>2. \A b, s : Pl!InBalances(b, s) = InPurses(b, s)
  BY SameSumPledges DEF Pl!InBalances, InPurses
<1>3. "cwd" \in Pl!Assets /\ "gcwd" \in Pl!Assets /\ Purses \in PurseSets
  BY PledgeConstants DEF Pl!Assets, PurseSets
<1>4. InPurses(purses, "cwd") + InPledges(pledges, "cwd") + InTransfers(transfers, "cwd")
      = InPurses(Purses, "cwd") - accumulated
  BY <1>3 DEF PledgeInv, Issued
<1>5. InPurses(purses, "gcwd") + InPledges(pledges, "gcwd") + InTransfers(transfers, "gcwd") = gcwd_supply
  BY <1>3 DEF PledgeInv, Issued
<1>6. InPurses(Purses, "cwd") \in Int /\ accumulated \in Nat
  BY <1>3, HeldInt, PledgeState
<1>7. \A s \in {"cwd", "gcwd"} : /\ InPurses(purses, s) \in Int /\ InPledges(pledges, s) \in Int
                                 /\ InTransfers(transfers, s) \in Int
  BY <1>3, PledgeState
<1>8. Pl!InBalances(purses, "cwd") + Pl!InTransit("cwd") + accumulated = Pl!InBalances(Purses, "cwd")
  BY <1>1, <1>2, <1>3, <1>4, <1>6, <1>7
<1>9. Pl!InBalances(purses, "gcwd") + Pl!InTransit("gcwd") = gcwd_supply
  BY <1>1, <1>2, <1>3, <1>5, <1>7
<1> QED
  BY <1>8, <1>9 DEF Pl!FundsConserved

(* The end of a block settles what is over and nothing else.               *)
LEMMA WalksSettleRight ==
  ASSUME PledgeAssumptions, PledgeInv, [Pl!Next]_(Pl!vars)
  PROVE  Pl!SettlesExpired /\ Pl!TakesNothingEarly
<1>1. CASE clock' = clock
  BY <1>1 DEF Pl!SettlesExpired, Pl!TakesNothingEarly
<1>2. CASE Pl!EndOfBlock
  <2> DEFINE head == clock + 1
             P == Pl!Walked(pledges, 1, head)
             T == Pl!Walked(transfers, 0, head)
  <2>1. /\ clock' = head /\ pledges' = [i \in Pl!OfferIds |-> IF i \in P THEN None ELSE pledges[i]]
        /\ transfers' = [i \in Pl!TransferIds |-> IF i \in T THEN None ELSE transfers[i]]
    BY <1>2 DEF Pl!EndOfBlock
  <2>2. head \in Nat /\ head > 1
    BY PledgeState
  <2> HIDE DEF head
  <2>3. /\ \A i \in P : pledges[i] # None /\ pledges[i].status = 1 /\ pledges[i].expiration < head
        /\ \A i \in Pl!OfferIds : pledges[i] # None /\ pledges[i].expiration > 1 /\ pledges[i].expiration < head
                                  => i \in P
        /\ \A i \in T : transfers[i] # None /\ transfers[i].status = 0 /\ transfers[i].expiration < head
        /\ \A i \in Pl!TransferIds :
              transfers[i] # None /\ transfers[i].expiration > 1 /\ transfers[i].expiration < head => i \in T
    BY <2>2, WalksSettle
  <2> HIDE DEF P, T
  <2>4. PledgesOK(pledges, ids.pledge) /\ TransfersOK(transfers, ids.transfer)
    BY DEF PledgeInv
  <2>5. ASSUME NEW i \in Pl!OfferIds, pledges'[i] # None, pledges'[i].status = 1, pledges'[i].expiration > 1
        PROVE  pledges'[i].expiration >= clock'
    <3>1. i \notin P /\ pledges'[i] = pledges[i]
      BY <2>1, <2>5
    <3>2. pledges[i].expiration \in Nat
      BY <2>4, <2>5, <3>1, PledgeFields DEF PledgesOK
    <3> QED
      BY <2>1, <2>2, <2>3, <2>5, <3>1, <3>2
  <2>6. ASSUME NEW i \in Pl!TransferIds, transfers'[i] # None, transfers'[i].status = 0
        PROVE  transfers'[i].expiration >= clock'
    <3>1. i \notin T /\ transfers'[i] = transfers[i]
      BY <2>1, <2>6
    <3>2. transfers[i].expiration \in Nat /\ transfers[i].expiration > 1
      BY <2>4, <2>6, <3>1, TransferFields DEF TransfersOK, TransferOK
    <3> QED
      BY <2>1, <2>2, <2>3, <2>6, <3>1, <3>2
  <2>7. ASSUME NEW i \in Pl!OfferIds, pledges[i] # None, pledges'[i] = None
        PROVE  /\ pledges[i].status = 1
               /\ pledges[i].since + pledges[i].terms.days < ClockWidth
                  => clock' > pledges[i].since + pledges[i].terms.days
    <3>1. i \in P
      BY <2>1, <2>7
    <3>2. pledges[i].status = 1 /\ pledges[i].expiration < head
      BY <2>3, <3>1
    <3>3. pledges[i] \in Pl!PledgeOffers /\ PledgeOK(pledges[i])
      BY <2>4, <2>7 DEF PledgesOK
    <3>4. pledges[i].since \in Nat /\ pledges[i].terms.days \in Nat /\ ClockWidth \in Nat
      BY <3>3, PledgeFields, PledgeConstants
    <3>5. pledges[i].expiration = (pledges[i].since + pledges[i].terms.days) % ClockWidth
      BY <3>2, <3>3 DEF PledgeOK
    <3> DEFINE d == pledges[i].since + pledges[i].terms.days
    <3>6. d \in Nat
      BY <3>4
    <3> HIDE DEF d
    <3>7. d < ClockWidth => d % ClockWidth = d
      BY <3>4, <3>6
    <3>8. d < ClockWidth => clock' > d
      BY <2>1, <2>2, <3>2, <3>5, <3>6, <3>7 DEF d
    <3> QED
      BY <3>2, <3>8 DEF d
  <2>8. ASSUME NEW i \in Pl!TransferIds, transfers[i] # None, transfers'[i] = None
        PROVE  transfers[i].status = 0 /\ clock' > transfers[i].expiration
    <3>1. i \in T
      BY <2>1, <2>8
    <3>2. transfers[i].expiration \in Nat
      BY <2>4, <2>8, TransferFields DEF TransfersOK
    <3> QED
      BY <2>1, <2>2, <2>3, <3>1, <3>2
  <2>9. Pl!SettlesExpired
    BY <2>5, <2>6 DEF Pl!SettlesExpired
  <2> QED
    BY <2>7, <2>8, <2>9 DEF Pl!TakesNothingEarly
<1>3. clock' = clock \/ Pl!EndOfBlock
  BY DEF Pl!Next, Pl!vars, Pl!PledgeOfferCreate, Pl!PledgeOfferCancel, Pl!PledgeOfferFill, Pl!PledgeOfferRepay,
         Pl!ApprovedTransferCreate, Pl!ApprovedTransferApprove, Pl!ApprovedTransferOpenDispute,
         Pl!ApprovedTransferResolveDispute, Pl!BuyGcwd, Pl!MassPayment
<1> QED
  BY <1>1, <1>2, <1>3

(* Balances, offers and transfers keep their types: nothing is taken from  *)
(* an account that does not hold it, and current_supply of GCWD stays      *)
(* within max_supply.                                                      *)
THEOREM PledgeTypes ==
  ASSUME PledgeAssumptions
  PROVE  Pl!Spec => []Pl!TypeOK
<1>1. PledgeInv => Pl!TypeOK
  BY DEF PledgeInv
<1> QED
  BY <1>1, PledgeAlways, PTL

(* Of both assets, what the members, the filled pledges, the waiting       *)
(* transfers and the fees hold is what was issued, whichever of repayment, *)
(* approval, arbitration and the clock comes first.                        *)
THEOREM PledgeFunds ==
  ASSUME PledgeAssumptions
  PROVE  Pl!Spec => []Pl!FundsConserved
<1>1. PledgeInv => Pl!FundsConserved
  BY FundsAddUp
<1> QED
  BY <1>1, PledgeAlways, PTL

(* A member who offers to lend lends, and one who asks for a loan borrows, *)
(* whoever fills the offer (pledge_offer_fill).                            *)
THEOREM CreatorsSide ==
  ASSUME PledgeAssumptions
  PROVE  Pl!Spec => []Pl!CreatorKeepsItsSide
<1>1. PledgeInv => Pl!CreatorKeepsItsSide
  BY DEF PledgeInv, PledgesOK, PledgeOK, Pl!CreatorKeepsItsSide
<1> QED
  BY <1>1, PledgeAlways, PTL

(* One pass of proceed_pledge and proceed_approved_transfer settles every  *)
(* object whose time is over, for any number of objects with any times,    *)
(* although it changes the key of the index that it walks.                 *)
THEOREM ExpiredSettled ==
  ASSUME PledgeAssumptions
  PROVE  Pl!Spec => [][Pl!SettlesExpired]_(Pl!vars)
<1>1. PledgeInv /\ [Pl!Next]_(Pl!vars) => [Pl!SettlesExpired]_(Pl!vars)
  BY WalksSettleRight
<1> QED
  BY <1>1, PledgeAlways, PTL DEF Pl!Spec

(* The same pass takes a pledge only after its days, unless they run over  *)
(* the 32 bits of the clock, and ends no transfer in dispute.              *)
THEOREM NothingEarly ==
  ASSUME PledgeAssumptions
  PROVE  Pl!Spec => [][Pl!TakesNothingEarly]_(Pl!vars)
<1>1. PledgeInv /\ [Pl!Next]_(Pl!vars) => [Pl!TakesNothingEarly]_(Pl!vars)
  BY WalksSettleRight
<1> QED
  BY <1>1, PledgeAlways, PTL DEF Pl!Spec

-----------------------------------------------------------------------------
(* Bets and lots *)

CONSTANTS LotSellers, Hands, BetSizes, CallAssets, MinBet, BetLife, CallLife, TotalParticipants, Prices,
          Latencies, LotLife, Lookahead, BlockGaps, LastBlock, MaxBets, MaxLots

VARIABLES hands, flips, lots, betIds, betFees, flipped, mixed, blockTime

B == INSTANCE Bets WITH
    Accounts <- Members, Sellers <- LotSellers, Balances <- Hands, Stakes <- BetSizes, MaxTime <- LastBlock,
    balance <- hands, next <- betIds, fees <- betFees, now <- blockTime

BetAssumptions == B!AccountAssumption /\ B!AmountAssumption /\ B!LifeAssumption /\ B!NoneAssumption

(* The library's operators are the same in the module of bets. *)
LEMMA SameFiniteBets ==
  ASSUME NEW S
  PROVE  (B!IsFiniteSet(S) <=> IsFiniteSet(S)) /\ B!Cardinality(S) = Cardinality(S)
  BY DEF B!IsFiniteSet, IsFiniteSet, B!Cardinality, Cardinality

LEMMA SameSumBets ==
  ASSUME NEW f, NEW S
  PROVE  B!SumFunctionOnSet(f, S) = SumFunctionOnSet(f, S)
  BY DEF B!SumFunctionOnSet, B!FoldFunctionOnSet, B!MapThenFoldSet, SumFunctionOnSet, FoldFunctionOnSet,
         MapThenFoldSet

HandSets == [Members -> [B!Assets -> Nat]]

(* What is always true of a bet and of a lot when the head block has time  *)
(* t: the first conjuncts of LotOK are those of LotsDrawnFairly, the last  *)
(* ones say what NothingOverdue does.                                      *)
FlipOK(f, t) ==
  /\ f.status = 1 => f.caller \in Members
  /\ f.expiration > t
LotOK(l, t) ==
  /\ Len(l.participants) <= l.total
  /\ l.status > 0 <=> Len(l.participants) = l.total
  /\ l.status \in {2, 3} <=> l.winner # None
  /\ l.winner # None => \E k \in 1..Len(l.participants) : l.winner = l.participants[k]
  /\ l.contacts => l.winner # None
  /\ l.status < 2 => \/ l.expiration >= t + Lookahead
                     \/ l.status = 1 /\ l.expiration > t

BetsOK(fs, n, t) ==
  /\ fs \in [B!FlipIds -> B!Flips \cup {None}]
  /\ \A i \in B!FlipIds : fs[i] # None => i < n /\ FlipOK(fs[i], t)
LotsOK(ls, n, t) ==
  /\ ls \in [B!LotIds -> B!Lots \cup {None}]
  /\ \A i \in B!LotIds : ls[i] # None => i < n /\ LotOK(ls[i], t)

(* All that the members have, and all that the node holds for them. *)
InHands(b, x) == SumFunctionOnSet([a \in Members |-> b[a][x]], Members)
InBets(fs)    == SumFunctionOnSet([i \in B!FlipIds |-> B!InFlip(fs[i])], B!FlipIds)
InLots(ls)    == SumFunctionOnSet([i \in B!LotIds |-> B!InLot(ls[i])], B!LotIds)

(* What rounding has lost of the core asset so far. *)
Dust == InHands(Hands, "cwd") + mixed - (InHands(hands, "cwd") + betFees["cwd"] + InBets(flips) + InLots(lots))

BetShape ==
  /\ B!TypeOK
  /\ BetsOK(flips, betIds.flip, blockTime) /\ LotsOK(lots, betIds.lot, blockTime) /\ blockTime >= 2
BetInv ==
  /\ BetShape
  /\ Dust \in 0..flipped
  /\ InHands(hands, "gcwd") + mixed = InHands(Hands, "gcwd")

LEMMA BetConstants ==
  ASSUME BetAssumptions
  PROVE  /\ IsFiniteSet(Members) /\ IsFiniteSet(B!FlipIds) /\ IsFiniteSet(B!LotIds)
         /\ B!FlipIds \subseteq Nat /\ B!LotIds \subseteq Nat
         /\ Hands \in HandSets /\ LotSellers \subseteq Members
         /\ BetSizes \subseteq Nat /\ CallAssets \subseteq B!Assets /\ Prices \subseteq Nat
         /\ MinBet \in Nat /\ TotalParticipants \in Nat /\ LastBlock \in Nat /\ MaxBets \in Nat /\ MaxLots \in Nat
         /\ BetLife \in Nat \ {0} /\ CallLife \in Nat \ {0} /\ BlockGaps \subseteq Nat \ {0}
         /\ Latencies \subseteq Nat \ {0} /\ LotLife \in Nat /\ Lookahead \in Nat /\ Lookahead <= LotLife
         /\ None \notin Members /\ None \notin B!Flips /\ None \notin B!Lots
<1>1. MaxBets \in Nat /\ MaxLots \in Nat
  BY DEF BetAssumptions, B!AmountAssumption
<1>2. IsFiniteSet(B!FlipIds) /\ IsFiniteSet(B!LotIds) /\ B!FlipIds \subseteq Nat /\ B!LotIds \subseteq Nat
  BY <1>1, IndexSets DEF B!FlipIds, B!LotIds
<1>3. IsFiniteSet(Members)
  BY SameFiniteBets DEF BetAssumptions, B!AccountAssumption
<1>4. Hands \in HandSets /\ LotSellers \subseteq Members
  BY DEF BetAssumptions, B!AccountAssumption, HandSets
<1>5. /\ BetSizes \subseteq Nat /\ CallAssets \subseteq B!Assets /\ Prices \subseteq Nat
      /\ MinBet \in Nat /\ TotalParticipants \in Nat /\ LastBlock \in Nat
  BY DEF BetAssumptions, B!AmountAssumption
<1>6. /\ BetLife \in Nat \ {0} /\ CallLife \in Nat \ {0} /\ BlockGaps \subseteq Nat \ {0}
      /\ Latencies \subseteq Nat \ {0} /\ LotLife \in Nat /\ Lookahead \in Nat /\ Lookahead <= LotLife
  BY DEF BetAssumptions, B!LifeAssumption
<1>7. None \notin Members /\ None \notin B!Flips /\ None \notin B!Lots
  BY DEF BetAssumptions, B!NoneAssumption
<1> QED
  BY <1>1, <1>2, <1>3, <1>4, <1>5, <1>6, <1>7

LEMMA FlipFields ==
  ASSUME BetAssumptions, NEW f \in B!Flips
  PROVE  /\ f.bettor \in Members /\ f.caller \in Members \cup {None} /\ f.bet \in Nat /\ f.status \in {0, 1}
         /\ f.expiration \in Nat /\ f # None
<1>1. f # None
  BY BetConstants
<1> QED
  BY <1>1 DEF B!Flips

LEMMA LotFields ==
  ASSUME BetAssumptions, NEW l \in B!Lots
  PROVE  /\ l.owner \in Members /\ l.total \in Nat \ {0} /\ l.total <= TotalParticipants /\ l.price \in Nat
         /\ l.latency \in Nat \ {0} /\ l.participants \in Seq(Members) /\ l.winner \in Members \cup {None}
         /\ l.contacts \in BOOLEAN /\ l.status \in 0..3 /\ l.expiration \in Nat /\ l # None
         /\ Len(l.participants) \in Nat
<1>1. l # None /\ TotalParticipants \in Nat /\ Latencies \subseteq Nat \ {0}
  BY BetConstants
<1>2. /\ l.owner \in Members /\ l.total \in 1..TotalParticipants /\ l.price \in Nat
      /\ l.latency \in Latencies /\ l.participants \in Seq(Members) /\ l.winner \in Members \cup {None}
      /\ l.contacts \in BOOLEAN /\ l.status \in 0..3 /\ l.expiration \in Nat
  BY DEF B!Lots
<1> QED
  BY <1>1, <1>2

(* What the node holds for one bet or lot is a number, and so are the sums. *)
LEMMA BetSums ==
  ASSUME BetAssumptions
  PROVE  /\ \A b \in HandSets, x \in B!Assets : InHands(b, x) \in Int
         /\ \A fs, n, t : BetsOK(fs, n, t) => /\ InBets(fs) \in Int
                                              /\ \A i \in B!FlipIds : B!InFlip(fs[i]) \in Nat
         /\ \A ls, n, t : LotsOK(ls, n, t) => /\ InLots(ls) \in Int
                                              /\ \A i \in B!LotIds : B!InLot(ls[i]) \in Nat
<1>0. IsFiniteSet(Members) /\ IsFiniteSet(B!FlipIds) /\ IsFiniteSet(B!LotIds)
  BY BetConstants
<1>1. ASSUME NEW b \in HandSets, NEW x \in B!Assets PROVE InHands(b, x) \in Int
  <2> DEFINE f == [a \in Members |-> b[a][x]]
  <2>1. \A a \in Members : f[a] \in Int
    BY DEF HandSets
  <2> HIDE DEF f
  <2>2. SumFunctionOnSet(f, Members) \in Int
    BY <1>0, <2>1, SumInt
  <2> QED
    BY <2>2 DEF f, InHands
<1>2. ASSUME NEW fs, NEW n, NEW t, BetsOK(fs, n, t)
      PROVE  InBets(fs) \in Int /\ \A i \in B!FlipIds : B!InFlip(fs[i]) \in Nat
  <2> DEFINE f == [i \in B!FlipIds |-> B!InFlip(fs[i])]
  <2>1. ASSUME NEW i \in B!FlipIds PROVE B!InFlip(fs[i]) \in Nat
    <3>1. CASE fs[i] = None
      BY <3>1 DEF B!InFlip
    <3>2. CASE fs[i] # None
      <4>1. fs[i] \in B!Flips
        BY <1>2, <3>2 DEF BetsOK
      <4>2. fs[i].bet \in Nat /\ fs[i].status \in {0, 1}
        BY <4>1, FlipFields
      <4> QED
        BY <3>2, <4>2 DEF B!InFlip
    <3> QED
      BY <3>1, <3>2
  <2>2. \A i \in B!FlipIds : f[i] \in Int
    BY <2>1
  <2> HIDE DEF f
  <2>3. SumFunctionOnSet(f, B!FlipIds) \in Int
    BY <1>0, <2>2, SumInt
  <2> QED
    BY <2>1, <2>3 DEF f, InBets
<1>3. ASSUME NEW ls, NEW n, NEW t, LotsOK(ls, n, t)
      PROVE  InLots(ls) \in Int /\ \A i \in B!LotIds : B!InLot(ls[i]) \in Nat
  <2> DEFINE f == [i \in B!LotIds |-> B!InLot(ls[i])]
  <2>1. ASSUME NEW i \in B!LotIds PROVE B!InLot(ls[i]) \in Nat
    <3>1. CASE ls[i] = None
      BY <3>1 DEF B!InLot
    <3>2. CASE ls[i] # None
      <4>1. ls[i] \in B!Lots
        BY <1>3, <3>2 DEF LotsOK
      <4>2. ls[i].price \in Nat /\ Len(ls[i].participants) \in Nat
        BY <4>1, LotFields
      <4>3. ls[i].price * Len(ls[i].participants) \in Nat
        BY <4>2
      <4> QED
        BY <3>2, <4>3 DEF B!InLot
    <3> QED
      BY <3>1, <3>2
  <2>2. \A i \in B!LotIds : f[i] \in Int
    BY <2>1
  <2> HIDE DEF f
  <2>3. SumFunctionOnSet(f, B!LotIds) \in Int
    BY <1>0, <2>2, SumInt
  <2> QED
    BY <2>1, <2>3 DEF f, InLots
<1> QED
  BY <1>1, <1>2, <1>3

(* adjust_balance changes what one account has of one asset by k. *)
HandMoved(b, c, a, x, k) ==
  \A m \in Members, y \in B!Assets : c[m][y] = b[m][y] + IF m = a /\ y = x THEN k ELSE 0

LEMMA HandsMove ==
  ASSUME BetAssumptions, NEW b \in HandSets, NEW c \in HandSets, NEW a \in Members, NEW x \in B!Assets, NEW k \in Int,
         HandMoved(b, c, a, x, k)
  PROVE  \A y \in B!Assets : InHands(c, y) = InHands(b, y) + IF y = x THEN k ELSE 0
<1> SUFFICES ASSUME NEW y \in B!Assets PROVE InHands(c, y) = InHands(b, y) + IF y = x THEN k ELSE 0
  OBVIOUS
<1> DEFINE f == [m \in Members |-> b[m][y]]
           g == [m \in Members |-> c[m][y]]
           d == IF y = x THEN k ELSE 0
<1>1. f \in [Members -> Int]
  BY DEF HandSets
<1>2. g[a] = f[a] + d /\ \A m \in Members \ {a} : g[m] = f[m]
  BY DEF HandSets, HandMoved
<1>3. d \in Int
  OBVIOUS
<1> HIDE DEF f, g, d
<1>4. IsFiniteSet(Members)
  BY BetConstants
<1>5. SumFunctionOnSet(g, Members) = SumFunctionOnSet(f, Members) + d
  BY <1>1, <1>2, <1>3, <1>4, OneChanged
<1> QED
  BY <1>5 DEF f, g, d, InHands

(* Changing one bet or one lot changes what the node holds by the          *)
(* difference for it.                                                      *)
LEMMA FlipChanged ==
  ASSUME BetAssumptions, NEW fs, NEW n, NEW t, BetsOK(fs, n, t), NEW i \in B!FlipIds,
         NEW f \in B!Flips \cup {None}, B!InFlip(f) \in Int
  PROVE  InBets([fs EXCEPT ![i] = f]) = InBets(fs) + (B!InFlip(f) - B!InFlip(fs[i]))
<1> DEFINE u == [j \in B!FlipIds |-> B!InFlip(fs[j])]
           new == [fs EXCEPT ![i] = f]
           v == [j \in B!FlipIds |-> B!InFlip(new[j])]
<1>1. IsFiniteSet(B!FlipIds) /\ fs \in [B!FlipIds -> B!Flips \cup {None}]
  BY BetConstants DEF BetsOK
<1>2. \A j \in B!FlipIds : u[j] \in Int
  BY BetSums
<1>3. new[i] = f /\ \A j \in B!FlipIds \ {i} : new[j] = fs[j]
  BY <1>1
<1>4. v[i] \in Int /\ v[i] = B!InFlip(f) /\ u[i] = B!InFlip(fs[i]) /\ \A j \in B!FlipIds \ {i} : v[j] = u[j]
  BY <1>3
<1>5. InBets(new) = SumFunctionOnSet(v, B!FlipIds) /\ InBets(fs) = SumFunctionOnSet(u, B!FlipIds)
  BY DEF InBets
<1> HIDE DEF u, v, new
<1>6. SumFunctionOnSet(v, B!FlipIds) = SumFunctionOnSet(u, B!FlipIds) + (v[i] - u[i])
  BY <1>1, <1>2, <1>4, SumChange
<1> QED
  BY <1>4, <1>5, <1>6 DEF new

LEMMA LotChanged ==
  ASSUME BetAssumptions, NEW ls, NEW n, NEW t, LotsOK(ls, n, t), NEW i \in B!LotIds,
         NEW l \in B!Lots \cup {None}, B!InLot(l) \in Int
  PROVE  InLots([ls EXCEPT ![i] = l]) = InLots(ls) + (B!InLot(l) - B!InLot(ls[i]))
<1> DEFINE u == [j \in B!LotIds |-> B!InLot(ls[j])]
           new == [ls EXCEPT ![i] = l]
           v == [j \in B!LotIds |-> B!InLot(new[j])]
<1>1. IsFiniteSet(B!LotIds) /\ ls \in [B!LotIds -> B!Lots \cup {None}]
  BY BetConstants DEF LotsOK
<1>2. \A j \in B!LotIds : u[j] \in Int
  BY BetSums
<1>3. new[i] = l /\ \A j \in B!LotIds \ {i} : new[j] = ls[j]
  BY <1>1
<1>4. v[i] \in Int /\ v[i] = B!InLot(l) /\ u[i] = B!InLot(ls[i]) /\ \A j \in B!LotIds \ {i} : v[j] = u[j]
  BY <1>3
<1>5. InLots(new) = SumFunctionOnSet(v, B!LotIds) /\ InLots(ls) = SumFunctionOnSet(u, B!LotIds)
  BY DEF InLots
<1> HIDE DEF u, v, new
<1>6. SumFunctionOnSet(v, B!LotIds) = SumFunctionOnSet(u, B!LotIds) + (v[i] - u[i])
  BY <1>1, <1>2, <1>4, SumChange
<1> QED
  BY <1>4, <1>5, <1>6 DEF new

LEMMA FlipAdded ==
  ASSUME BetAssumptions, NEW fs, NEW n \in Nat, NEW t \in Nat, BetsOK(fs, n, t), NEW i \in B!FlipIds,
         NEW f \in B!Flips, FlipOK(f, t), NEW m \in Nat, n <= m, i < m
  PROVE  BetsOK([fs EXCEPT ![i] = f], m, t)
<1>1. B!FlipIds \subseteq Nat
  BY BetConstants
<1>2. ASSUME NEW j \in B!FlipIds, [fs EXCEPT ![i] = f][j] # None
      PROVE  j < m /\ FlipOK([fs EXCEPT ![i] = f][j], t)
  BY <1>1, <1>2 DEF BetsOK
<1> QED
  BY <1>2 DEF BetsOK

LEMMA LotAdded ==
  ASSUME BetAssumptions, NEW ls, NEW n \in Nat, NEW t \in Nat, LotsOK(ls, n, t), NEW i \in B!LotIds,
         NEW l \in B!Lots, LotOK(l, t), NEW m \in Nat, n <= m, i < m
  PROVE  LotsOK([ls EXCEPT ![i] = l], m, t)
<1>1. B!LotIds \subseteq Nat
  BY BetConstants
<1>2. ASSUME NEW j \in B!LotIds, [ls EXCEPT ![i] = l][j] # None
      PROVE  j < m /\ LotOK([ls EXCEPT ![i] = l][j], t)
  BY <1>1, <1>2 DEF LotsOK
<1> QED
  BY <1>2 DEF LotsOK

(* What the invariant says of the variables. *)
LEMMA BetState ==
  ASSUME BetAssumptions, BetInv
  PROVE  /\ hands \in HandSets /\ BetsOK(flips, betIds.flip, blockTime) /\ LotsOK(lots, betIds.lot, blockTime)
         /\ betIds \in [flip : 1..(MaxBets + 1), lot : 1..(MaxLots + 1)]
         /\ betIds.flip \in Nat /\ betIds.lot \in Nat
         /\ betFees \in [B!Assets -> Nat] /\ betFees["cwd"] \in Nat
         /\ flipped \in Nat /\ mixed \in Nat /\ blockTime \in Nat /\ blockTime >= 2
         /\ InHands(hands, "cwd") \in Int /\ InHands(hands, "gcwd") \in Int
         /\ InHands(Hands, "cwd") \in Int /\ InHands(Hands, "gcwd") \in Int
         /\ InBets(flips) \in Int /\ InLots(lots) \in Int
         /\ Dust \in 0..flipped /\ InHands(hands, "gcwd") + mixed = InHands(Hands, "gcwd")
<1>1. /\ hands \in HandSets /\ BetsOK(flips, betIds.flip, blockTime) /\ LotsOK(lots, betIds.lot, blockTime)
      /\ betIds \in [flip : 1..(MaxBets + 1), lot : 1..(MaxLots + 1)] /\ betFees \in [B!Assets -> Nat]
      /\ flipped \in Nat /\ mixed \in Nat /\ blockTime \in Nat /\ blockTime >= 2
      /\ Dust \in 0..flipped /\ InHands(hands, "gcwd") + mixed = InHands(Hands, "gcwd")
  BY DEF BetInv, BetShape, B!TypeOK, HandSets
<1>2. betFees["cwd"] \in Nat /\ "cwd" \in B!Assets /\ "gcwd" \in B!Assets
  BY <1>1 DEF B!Assets
<1>3. betIds.flip \in Nat /\ betIds.lot \in Nat
  BY <1>1, BetConstants
<1>4. Hands \in HandSets
  BY BetConstants
<1> QED
  BY <1>1, <1>2, <1>3, <1>4, BetSums

(* A step that flips no coin keeps the invariant if it keeps the shape and *)
(* what is counted.                                                        *)
LEMMA BetKept ==
  ASSUME BetAssumptions, BetInv, hands' \in HandSets,
         BetsOK(flips', betIds'.flip, blockTime'), LotsOK(lots', betIds'.lot, blockTime'),
         betIds' \in [flip : 1..(MaxBets + 1), lot : 1..(MaxLots + 1)],
         betFees' = betFees, flipped' = flipped, mixed' \in Nat, blockTime' = blockTime,
         InHands(hands', "cwd") + InBets(flips') + InLots(lots') - mixed'
         = InHands(hands, "cwd") + InBets(flips) + InLots(lots) - mixed,
         InHands(hands', "gcwd") + mixed' = InHands(hands, "gcwd") + mixed
  PROVE  BetInv'
<1>1. BetShape'
  BY BetState DEF BetShape, B!TypeOK, BetsOK, LotsOK, HandSets
<1>2. "cwd" \in B!Assets /\ "gcwd" \in B!Assets
  BY DEF B!Assets
<1>3. /\ InHands(hands', "cwd") \in Int /\ InHands(hands', "gcwd") \in Int
      /\ InBets(flips') \in Int /\ InLots(lots') \in Int
  BY <1>2, BetSums
<1>4. Dust' = Dust
  <2>1. Dust' = InHands(Hands, "cwd") + mixed' - (InHands(hands', "cwd") + betFees["cwd"] + InBets(flips') + InLots(lots'))
    BY DEF Dust, InHands, InBets, InLots, B!InFlip, B!InLot
  <2>2. Dust = InHands(Hands, "cwd") + mixed - (InHands(hands, "cwd") + betFees["cwd"] + InBets(flips) + InLots(lots))
    BY DEF Dust
  <2>3. /\ InHands(hands, "cwd") \in Int /\ InBets(flips) \in Int /\ InLots(lots) \in Int /\ mixed \in Int
        /\ InHands(Hands, "cwd") \in Int /\ betFees["cwd"] \in Int
    BY BetState
  <2> QED
    BY <1>3, <2>1, <2>2, <2>3
<1>5. Dust' \in 0..flipped'
  BY <1>4, BetState
<1>6. InHands(hands, "gcwd")' + mixed' = InHands(Hands, "gcwd")'
  <2>1. InHands(hands, "gcwd")' = InHands(hands', "gcwd") /\ InHands(Hands, "gcwd")' = InHands(Hands, "gcwd")
    BY DEF InHands
  <2> QED
    BY <2>1, BetState
<1> QED
  BY <1>1, <1>5, <1>6 DEF BetInv

(* Taking k from what account a has of asset x, and giving it. *)
Less(b, a, x, k) == [b EXCEPT ![a][x] = @ - k]
More(b, a, x, k) == [b EXCEPT ![a][x] = @ + k]

LEMMA HandsTake ==
  ASSUME BetAssumptions, NEW b \in HandSets, NEW a \in Members, NEW x \in B!Assets, NEW k \in Nat, b[a][x] >= k
  PROVE  /\ Less(b, a, x, k) \in HandSets
         /\ \A y \in B!Assets : InHands(Less(b, a, x, k), y) = InHands(b, y) - IF y = x THEN k ELSE 0
<1> DEFINE c == Less(b, a, x, k)
           d == 0 - k
<1>1. c \in HandSets
  BY DEF HandSets, Less
<1>2. HandMoved(b, c, a, x, d)
  BY DEF HandSets, HandMoved, Less
<1>3. d \in Int
  OBVIOUS
<1> HIDE DEF c, d
<1>4. \A y \in B!Assets : InHands(c, y) = InHands(b, y) + IF y = x THEN d ELSE 0
  BY <1>1, <1>2, <1>3, HandsMove
<1>5. \A y \in B!Assets : InHands(b, y) \in Int
  BY BetSums
<1> QED
  BY <1>1, <1>4, <1>5 DEF c, d

LEMMA HandsGive ==
  ASSUME BetAssumptions, NEW b \in HandSets, NEW a \in Members, NEW x \in B!Assets, NEW k \in Nat
  PROVE  /\ More(b, a, x, k) \in HandSets
         /\ \A y \in B!Assets : InHands(More(b, a, x, k), y) = InHands(b, y) + IF y = x THEN k ELSE 0
<1> DEFINE c == More(b, a, x, k)
<1>1. c \in HandSets
  BY DEF HandSets, More
<1>2. HandMoved(b, c, a, x, k)
  BY DEF HandSets, HandMoved, More
<1> HIDE DEF c
<1>4. \A y \in B!Assets : InHands(c, y) = InHands(b, y) + IF y = x THEN k ELSE 0
  BY <1>1, <1>2, HandsMove
<1> QED
  BY <1>1, <1>4 DEF c

(* flipcoin_bet *)
LEMMA FlipcoinBetKeeps ==
  ASSUME BetAssumptions, BetInv, NEW a \in Members, NEW n \in BetSizes, B!FlipcoinBet(a, n)
  PROVE  BetInv'
<1> DEFINE i == betIds.flip
           f == [bettor |-> a, caller |-> None, bet |-> n, status |-> 0, expiration |-> blockTime + BetLife]
<1>1. /\ n \in Nat /\ BetLife \in Nat \ {0} /\ MaxBets \in Nat /\ "cwd" \in B!Assets /\ "gcwd" \in B!Assets
      /\ "gcwd" # "cwd" /\ MaxLots \in Nat
  BY BetConstants DEF B!Assets
<1>2. /\ i \in B!FlipIds /\ hands[a]["cwd"] >= n /\ hands' = Less(hands, a, "cwd", n)
      /\ flips' = [flips EXCEPT ![i] = f] /\ betIds' = [betIds EXCEPT !.flip = @ + 1]
      /\ lots' = lots /\ betFees' = betFees /\ flipped' = flipped /\ mixed' = mixed /\ blockTime' = blockTime
  BY DEF B!FlipcoinBet, B!Core, Less
<1>3. /\ hands' \in HandSets
      /\ InHands(hands', "cwd") = InHands(hands, "cwd") - n /\ InHands(hands', "gcwd") = InHands(hands, "gcwd") - 0
  BY <1>1, <1>2, BetState, HandsTake
<1>4. f \in B!Flips /\ FlipOK(f, blockTime)
  BY <1>1, BetState DEF B!Flips, FlipOK
<1>5. flips[i] = None
  BY <1>2, BetState DEF BetsOK
<1>6. B!InFlip(f) = n /\ B!InFlip(flips[i]) = 0
  BY <1>1, <1>4, <1>5, FlipFields DEF B!InFlip
<1>7. betIds' \in [flip : 1..(MaxBets + 1), lot : 1..(MaxLots + 1)] /\ betIds'.flip = i + 1 /\ betIds'.lot = betIds.lot
  BY <1>1, <1>2, BetState DEF B!FlipIds
<1> HIDE DEF f
<1>8. InBets(flips') = InBets(flips) + n
  <2>1. B!InFlip(f) \in Int /\ f \in B!Flips \cup {None}
    BY <1>1, <1>4, <1>6
  <2>2. InBets([flips EXCEPT ![i] = f]) = InBets(flips) + (B!InFlip(f) - B!InFlip(flips[i]))
    BY <1>2, <2>1, BetState, FlipChanged
  <2> QED
    BY <1>1, <1>2, <1>6, <2>2
<1>9. BetsOK(flips', betIds'.flip, blockTime')
  <2>1. i \in Nat /\ i + 1 \in Nat /\ i <= i + 1 /\ i < i + 1
    BY BetState
  <2>2. BetsOK([flips EXCEPT ![i] = f], i + 1, blockTime)
    BY <1>2, <1>4, <2>1, BetState, FlipAdded
  <2> QED
    BY <1>2, <1>7, <2>2
<1> QED
  BY <1>1, <1>2, <1>3, <1>7, <1>8, <1>9, BetState, BetKept

(* flipcoin_call *)
LEMMA FlipcoinCallKeeps ==
  ASSUME BetAssumptions, BetInv, NEW i \in B!FlipIds, NEW a \in Members, NEW x \in CallAssets,
         B!FlipcoinCall(i, a, x)
  PROVE  BetInv'
<1> DEFINE n == flips[i].bet
           f == [flips[i] EXCEPT !.status = 1, !.caller = a, !.expiration = blockTime + CallLife]
<1>1. /\ CallLife \in Nat \ {0} /\ "cwd" \in B!Assets /\ "gcwd" \in B!Assets /\ x \in B!Assets
  BY BetConstants DEF B!Assets
<1>2. /\ flips[i] # None /\ flips[i].status = 0 /\ hands[a][x] >= n /\ hands' = Less(hands, a, x, n)
      /\ flips' = [flips EXCEPT ![i].status = 1, ![i].caller = a, ![i].expiration = blockTime + CallLife]
      /\ mixed' = IF x = "cwd" THEN mixed ELSE mixed + n
      /\ lots' = lots /\ betIds' = betIds /\ betFees' = betFees /\ flipped' = flipped /\ blockTime' = blockTime
  BY DEF B!FlipcoinCall, B!Core, B!Held, Less
<1>3. flips \in [B!FlipIds -> B!Flips \cup {None}] /\ flips[i] \in B!Flips /\ i < betIds.flip
  BY <1>2, BetState DEF BetsOK
<1>4. n \in Nat
  BY <1>3, FlipFields
<1>5. f \in B!Flips /\ FlipOK(f, blockTime) /\ f.bet = n /\ f.status = 1
  <2>1. blockTime \in Nat /\ blockTime + CallLife \in Nat /\ blockTime + CallLife > blockTime
    BY <1>1, BetState
  <2>2. f \in B!Flips
    <3>1. 1 \in 0..1 /\ a \in Members \cup {None}
      OBVIOUS
    <3> QED
      BY <1>3, <2>1, <3>1 DEF B!Flips
  <2>3. f.bet = n /\ f.status = 1 /\ f.caller = a /\ f.expiration = blockTime + CallLife
    BY <1>3 DEF B!Flips
  <2> QED
    BY <2>1, <2>2, <2>3 DEF FlipOK
<1>6. flips' = [flips EXCEPT ![i] = f]
  BY <1>2, <1>3 DEF B!Flips
<1>7. /\ hands' \in HandSets
      /\ InHands(hands', "cwd") = InHands(hands, "cwd") - (IF "cwd" = x THEN n ELSE 0)
      /\ InHands(hands', "gcwd") = InHands(hands, "gcwd") - (IF "gcwd" = x THEN n ELSE 0)
  BY <1>1, <1>2, <1>4, BetState, HandsTake
<1>8. B!InFlip(f) = 2 * n /\ B!InFlip(flips[i]) = n
  BY <1>2, <1>4, <1>5, FlipFields DEF B!InFlip
<1> HIDE DEF n, f
<1>9. InBets(flips') = InBets(flips) + n
  <2>1. B!InFlip(f) \in Int /\ f \in B!Flips \cup {None}
    BY <1>4, <1>5, <1>8
  <2>2. InBets([flips EXCEPT ![i] = f]) = InBets(flips) + (B!InFlip(f) - B!InFlip(flips[i]))
    BY <2>1, BetState, FlipChanged
  <2> QED
    BY <1>4, <1>6, <1>8, <2>2
<1>10. BetsOK(flips', betIds'.flip, blockTime')
  <2>1. betIds.flip \in Nat /\ betIds.flip <= betIds.flip
    BY BetState
  <2>2. BetsOK([flips EXCEPT ![i] = f], betIds.flip, blockTime)
    BY <1>3, <1>5, <2>1, BetState, FlipAdded
  <2> QED
    BY <1>2, <1>6, <2>2
<1>11. mixed' \in Nat
  BY <1>2, <1>4, BetState
<1>12. x = "cwd" \/ x = "gcwd"
  BY <1>1 DEF B!Assets
<1>13. CASE x = "cwd"
  <2>1. /\ InHands(hands', "cwd") = InHands(hands, "cwd") - n /\ InHands(hands', "gcwd") = InHands(hands, "gcwd") - 0
        /\ mixed' = mixed
    BY <1>2, <1>7, <1>13
  <2> QED
    BY <1>2, <1>4, <1>7, <1>9, <1>10, <1>11, <2>1, BetState, BetKept
<1>14. CASE x = "gcwd"
  <2>1. /\ InHands(hands', "cwd") = InHands(hands, "cwd") - 0 /\ InHands(hands', "gcwd") = InHands(hands, "gcwd") - n
        /\ mixed' = mixed + n
    BY <1>2, <1>7, <1>14
  <2> QED
    BY <1>2, <1>4, <1>7, <1>9, <1>10, <1>11, <2>1, BetState, BetKept
<1> QED
  BY <1>12, <1>13, <1>14

(* lottery_goods_create_lot *)
LEMMA LotteryCreateKeeps ==
  ASSUME BetAssumptions, BetInv, NEW a \in Members, NEW k \in 1..TotalParticipants, NEW p \in Prices,
         NEW c \in Latencies, B!LotteryCreate(a, k, p, c)
  PROVE  BetInv'
<1> DEFINE i == betIds.lot
           l == [owner |-> a, total |-> k, price |-> p, latency |-> c, participants |-> << >>, winner |-> None,
                 contacts |-> FALSE, status |-> 0, expiration |-> blockTime + LotLife]
<1>1. /\ p \in Nat /\ c \in Nat /\ LotLife \in Nat /\ Lookahead \in Nat /\ Lookahead <= LotLife
      /\ TotalParticipants \in Nat /\ MaxBets \in Nat /\ MaxLots \in Nat
  BY BetConstants
<1>2. /\ i \in B!LotIds /\ lots' = [lots EXCEPT ![i] = l] /\ betIds' = [betIds EXCEPT !.lot = @ + 1]
      /\ hands' = hands /\ flips' = flips /\ betFees' = betFees /\ flipped' = flipped /\ mixed' = mixed
      /\ blockTime' = blockTime
  BY DEF B!LotteryCreate
<1>3. blockTime \in Nat /\ blockTime + LotLife \in Nat
  BY <1>1, BetState
<1>4. l \in B!Lots
  <2>1. << >> \in Seq(Members) /\ None \in Members \cup {None} /\ 0 \in 0..3
    OBVIOUS
  <2> QED
    BY <1>1, <1>3, <2>1 DEF B!Lots
<1>5. /\ l.participants = << >> /\ Len(l.participants) = 0 /\ l.total = k /\ l.status = 0 /\ l.winner = None
      /\ l.contacts = FALSE /\ l.price = p /\ l.expiration = blockTime + LotLife
  OBVIOUS
<1>6. LotOK(l, blockTime)
  <2>1. blockTime + LotLife >= blockTime + Lookahead /\ k > 0 /\ k \in Nat
    BY <1>1, <1>3
  <2> HIDE DEF l
  <2> QED
    BY <1>5, <2>1 DEF LotOK
<1>7. lots[i] = None
  BY <1>2, BetState DEF LotsOK
<1>8. B!InLot(l) = 0 /\ B!InLot(lots[i]) = 0
  <2> HIDE DEF l
  <2> QED
    BY <1>1, <1>5, <1>7 DEF B!InLot
<1>9. betIds' \in [flip : 1..(MaxBets + 1), lot : 1..(MaxLots + 1)] /\ betIds'.lot = i + 1 /\ betIds'.flip = betIds.flip
  <2>1. betIds \in [flip : 1..(MaxBets + 1), lot : 1..(MaxLots + 1)]
    BY BetState
  <2>2. i + 1 \in 1..(MaxLots + 1)
    BY <1>1, <1>2 DEF B!LotIds
  <2> QED
    BY <1>2, <2>1, <2>2
<1> HIDE DEF l
<1>10. InLots(lots') = InLots(lots)
  <2>1. B!InLot(l) \in Int /\ l \in B!Lots \cup {None}
    BY <1>4, <1>8
  <2>2. InLots([lots EXCEPT ![i] = l]) = InLots(lots) + (B!InLot(l) - B!InLot(lots[i]))
    BY <1>2, <2>1, BetState, LotChanged
  <2> QED
    BY <1>2, <1>8, <2>2, BetState
<1>11. LotsOK(lots', betIds'.lot, blockTime')
  <2>1. i \in Nat /\ i + 1 \in Nat /\ i <= i + 1 /\ i < i + 1
    BY BetState
  <2>2. LotsOK([lots EXCEPT ![i] = l], i + 1, blockTime)
    BY <1>2, <1>3, <1>4, <1>6, <2>1, BetState, LotAdded
  <2> QED
    BY <1>2, <1>9, <2>2
<1> QED
  BY <1>2, <1>9, <1>10, <1>11, BetState, BetKept

(* A lot of the database. *)
LEMMA LotAt ==
  ASSUME BetAssumptions, BetInv, NEW i \in B!LotIds, lots[i] # None
  PROVE  /\ lots \in [B!LotIds -> B!Lots \cup {None}] /\ lots[i] \in B!Lots /\ i < betIds.lot
         /\ LotOK(lots[i], blockTime) /\ betIds.lot \in Nat /\ blockTime \in Nat
  BY BetState DEF LotsOK

(* A step that changes one lot and the hands by the same amount. *)
LEMMA LotStep ==
  ASSUME BetAssumptions, BetInv, NEW i \in B!LotIds, lots[i] # None, NEW l \in B!Lots, LotOK(l, blockTime),
         NEW k \in Int, B!InLot(l) = B!InLot(lots[i]) + k,
         hands' \in HandSets, InHands(hands', "cwd") = InHands(hands, "cwd") - k,
         InHands(hands', "gcwd") = InHands(hands, "gcwd"),
         lots' = [lots EXCEPT ![i] = l], betIds' = betIds, flips' = flips, betFees' = betFees,
         flipped' = flipped, mixed' = mixed, blockTime' = blockTime
  PROVE  BetInv'
<1>1. B!InLot(lots[i]) \in Int
  BY BetState, BetSums
<1>2. InLots(lots') = InLots(lots) + k
  <2>1. B!InLot(l) \in Int /\ l \in B!Lots \cup {None}
    BY <1>1
  <2>2. InLots([lots EXCEPT ![i] = l]) = InLots(lots) + (B!InLot(l) - B!InLot(lots[i]))
    BY <2>1, BetState, LotChanged
  <2> QED
    BY <1>1, <2>2, BetState
<1>3. LotsOK(lots', betIds'.lot, blockTime')
  <2>1. betIds.lot \in Nat /\ betIds.lot <= betIds.lot /\ i < betIds.lot /\ blockTime \in Nat
    BY LotAt
  <2>2. LotsOK([lots EXCEPT ![i] = l], betIds.lot, blockTime)
    BY <2>1, BetState, LotAdded
  <2> QED
    BY <2>2
<1>4. /\ InHands(hands', "cwd") + InBets(flips') + InLots(lots') - mixed'
         = InHands(hands, "cwd") + InBets(flips) + InLots(lots) - mixed
      /\ InHands(hands', "gcwd") + mixed' = InHands(hands, "gcwd") + mixed
  BY <1>2, BetState
<1> QED
  BY <1>3, <1>4, BetState, BetKept

LEMMA OneMore ==
  ASSUME NEW p \in Nat, NEW k \in Nat
  PROVE  p * (k + 1) = p * k + p
  OBVIOUS

(* lottery_goods_buy_ticket *)
LEMMA LotteryBuyTicketKeeps ==
  ASSUME BetAssumptions, BetInv, NEW i \in B!LotIds, NEW a \in Members, B!LotteryBuyTicket(i, a)
  PROVE  BetInv'
<1> DEFINE l == lots[i]
           n == B!WithTicket(l, a)
           sold == Append(l.participants, a)
           p == l.price
<1>1. /\ l # None /\ hands[a]["cwd"] >= p /\ l.status = 0 /\ Len(l.participants) < l.total
      /\ hands' = Less(hands, a, "cwd", p)
      /\ lots' = [lots EXCEPT ![i] = n]
      /\ betIds' = betIds /\ flips' = flips /\ betFees' = betFees /\ flipped' = flipped /\ mixed' = mixed
      /\ blockTime' = blockTime
  <2>1. lots \in [B!LotIds -> B!Lots \cup {None}]
    BY BetState DEF LotsOK
  <2> QED
    BY <2>1 DEF B!LotteryBuyTicket, B!Held, B!Core, Less
<1>2. l \in B!Lots /\ LotOK(l, blockTime) /\ blockTime \in Nat
  BY <1>1, LotAt
<1> HIDE DEF l
<1>3. /\ p \in Nat /\ l.latency \in Nat \ {0} /\ l.participants \in Seq(Members) /\ Len(l.participants) \in Nat
      /\ l.total \in Nat \ {0}
  BY <1>2, LotFields
<1>4. sold \in Seq(Members) /\ Len(sold) = Len(l.participants) + 1
  BY <1>3
<1>5. l.winner = None /\ ~ l.contacts /\ l.expiration >= blockTime + Lookahead
  BY <1>1, <1>2 DEF LotOK
<1> HIDE DEF sold
<1>8. /\ n \in B!Lots /\ LotOK(n, blockTime) /\ n # None /\ n.status < 3 /\ n.price = p
      /\ Len(n.participants) = Len(l.participants) + 1
  <2>a. CASE Len(sold) >= l.total
    <3>1. n = [l EXCEPT !.participants = sold, !.status = 1, !.expiration = blockTime + l.latency]
      BY <2>a DEF B!WithTicket, sold
    <3>2. /\ n \in B!Lots /\ n.participants = sold /\ n.status = 1 /\ n.expiration = blockTime + l.latency
          /\ n.total = l.total /\ n.winner = l.winner /\ n.contacts = l.contacts /\ n.price = p
      <4>1. 1 \in 0..3 /\ blockTime + l.latency \in Nat
        BY <1>2, <1>3
      <4> QED
        BY <1>2, <1>4, <3>1, <4>1 DEF B!Lots
    <3> HIDE DEF n
    <3>3. /\ Len(n.participants) = n.total /\ n.status = 1 /\ n.winner = None /\ ~ n.contacts
          /\ n.expiration > blockTime
      <4>1. Len(sold) = l.total
        BY <1>1, <1>3, <1>4, <2>a
      <4>2. blockTime + l.latency > blockTime
        BY <1>2, <1>3
      <4> QED
        BY <1>5, <3>2, <4>1, <4>2
    <3>4. LotOK(n, blockTime)
      BY <1>3, <3>2, <3>3 DEF LotOK
    <3>5. n # None /\ n.status < 3 /\ n.price = p /\ Len(n.participants) = Len(l.participants) + 1
      BY <1>4, <3>2, LotFields
    <3> QED
      BY <3>2, <3>4, <3>5
  <2>b. CASE ~ (Len(sold) >= l.total)
    <3>1. n = [l EXCEPT !.participants = sold]
      BY <2>b DEF B!WithTicket, sold
    <3>2. /\ n \in B!Lots /\ n.participants = sold /\ n.status = l.status /\ n.expiration = l.expiration
          /\ n.total = l.total /\ n.winner = l.winner /\ n.contacts = l.contacts /\ n.price = p
      BY <1>2, <1>4, <3>1 DEF B!Lots
    <3> HIDE DEF n
    <3>3. /\ Len(n.participants) < n.total /\ n.status = 0 /\ n.winner = None /\ ~ n.contacts
          /\ n.expiration >= blockTime + Lookahead
      BY <1>1, <1>3, <1>4, <1>5, <2>b, <3>2
    <3>4. LotOK(n, blockTime)
      BY <1>3, <1>4, <3>2, <3>3 DEF LotOK
    <3>5. n # None /\ n.status < 3 /\ n.price = p /\ Len(n.participants) = Len(l.participants) + 1
      BY <1>1, <1>4, <3>2, LotFields
    <3> QED
      BY <3>2, <3>4, <3>5
  <2> QED
    BY <2>a, <2>b
<1> HIDE DEF n
<1>9. B!InLot(n) = B!InLot(l) + p
  <2>1. B!InLot(n) = p * (Len(l.participants) + 1)
    BY <1>8 DEF B!InLot
  <2>2. B!InLot(l) = p * Len(l.participants)
    BY <1>1 DEF B!InLot
  <2>3. p * (Len(l.participants) + 1) = p * Len(l.participants) + p
    <3> HIDE DEF p
    <3> QED
      BY <1>3, OneMore
  <2> QED
    BY <2>1, <2>2, <2>3
<1>10. "cwd" \in B!Assets /\ "gcwd" \in B!Assets /\ "gcwd" # "cwd"
  BY DEF B!Assets
<1>11. /\ hands' \in HandSets
       /\ InHands(hands', "cwd") = InHands(hands, "cwd") - p /\ InHands(hands', "gcwd") = InHands(hands, "gcwd") - 0
  <2>1. hands[a]["cwd"] >= p /\ p \in Nat
    BY <1>1, <1>3
  <2> HIDE DEF p
  <2> QED
    BY <1>1, <1>10, <2>1, BetState, HandsTake
<1>12. InHands(hands', "gcwd") = InHands(hands, "gcwd")
  BY <1>11, BetState
<1> HIDE DEF p
<1>13. p \in Int
  BY <1>3 DEF p
<1> QED
  BY <1>1, <1>8, <1>9, <1>11, <1>12, <1>13, LotStep DEF l

(* lottery_goods_send_contacts *)
LEMMA LotterySendContactsKeeps ==
  ASSUME BetAssumptions, BetInv, NEW i \in B!LotIds, NEW a \in Members, B!LotterySendContacts(i, a)
  PROVE  BetInv'
<1> DEFINE l == lots[i]
           n == [l EXCEPT !.contacts = TRUE]
<1>1. /\ l # None /\ l.winner = a /\ lots' = [lots EXCEPT ![i].contacts = TRUE]
      /\ hands' = hands /\ betIds' = betIds /\ flips' = flips /\ betFees' = betFees /\ flipped' = flipped
      /\ mixed' = mixed /\ blockTime' = blockTime
  BY DEF B!LotterySendContacts, B!Held
<1>2. lots \in [B!LotIds -> B!Lots \cup {None}] /\ l \in B!Lots /\ LotOK(l, blockTime)
  BY <1>1, LotAt
<1>3. lots' = [lots EXCEPT ![i] = n]
  BY <1>1, <1>2
<1>4. /\ n \in B!Lots /\ n.participants = l.participants /\ n.status = l.status /\ n.expiration = l.expiration
      /\ n.total = l.total /\ n.winner = l.winner /\ n.price = l.price
  BY <1>2 DEF B!Lots
<1>5. n.winner # None /\ n # None
  BY <1>1, <1>4, BetConstants
<1> HIDE DEF n
<1>6. LotOK(n, blockTime)
  BY <1>2, <1>4, <1>5 DEF LotOK
<1>7. B!InLot(n) = B!InLot(l)
  BY <1>1, <1>4, <1>5 DEF B!InLot
<1>8. B!InLot(l) \in Int
  BY BetState, BetSums
<1> DEFINE k == 0
<1>9. /\ B!InLot(n) = B!InLot(lots[i]) + k /\ k \in Int
      /\ InHands(hands', "cwd") = InHands(hands, "cwd") - k /\ hands' \in HandSets
      /\ InHands(hands', "gcwd") = InHands(hands, "gcwd")
  BY <1>1, <1>7, <1>8, BetState
<1> HIDE DEF k
<1> QED
  BY <1>1, <1>3, <1>4, <1>6, <1>9, LotStep

(* lottery_goods_confirm_delivery *)
LEMMA LotteryConfirmDeliveryKeeps ==
  ASSUME BetAssumptions, BetInv, NEW i \in B!LotIds, NEW a \in Members, B!LotteryConfirmDelivery(i, a)
  PROVE  BetInv'
<1> DEFINE l == lots[i]
           n == [l EXCEPT !.status = 3]
           pay == l.price * l.total
<1>1. /\ l # None /\ l.status = 2 /\ lots' = [lots EXCEPT ![i].status = 3]
      /\ hands' = More(hands, l.owner, "cwd", pay)
      /\ betIds' = betIds /\ flips' = flips /\ betFees' = betFees /\ flipped' = flipped
      /\ mixed' = mixed /\ blockTime' = blockTime
  BY DEF B!LotteryConfirmDelivery, B!Held, B!Core, More
<1>2. lots \in [B!LotIds -> B!Lots \cup {None}] /\ l \in B!Lots /\ LotOK(l, blockTime)
  BY <1>1, LotAt
<1>3. lots' = [lots EXCEPT ![i] = n]
  BY <1>1, <1>2
<1>4. /\ n \in B!Lots /\ n.participants = l.participants /\ n.status = 3 /\ n.expiration = l.expiration
      /\ n.total = l.total /\ n.winner = l.winner /\ n.price = l.price /\ n.contacts = l.contacts
  <2>1. 3 \in 0..3
    OBVIOUS
  <2> QED
    BY <1>2, <2>1 DEF B!Lots
<1> HIDE DEF n
<1>5. LotOK(n, blockTime)
  BY <1>1, <1>2, <1>4 DEF LotOK
<1>6. /\ l.price \in Nat /\ l.total \in Nat /\ pay \in Nat /\ l.owner \in Members
  BY <1>2, LotFields
<1>7. Len(l.participants) = l.total
  BY <1>1, <1>2 DEF LotOK
<1>8. B!InLot(l) = pay /\ B!InLot(n) = 0
  BY <1>1, <1>4, <1>7 DEF B!InLot
<1> HIDE DEF pay
<1>9. "cwd" \in B!Assets /\ "gcwd" \in B!Assets /\ "gcwd" # "cwd"
  BY DEF B!Assets
<1>10. /\ hands' \in HandSets
       /\ InHands(hands', "cwd") = InHands(hands, "cwd") + pay /\ InHands(hands', "gcwd") = InHands(hands, "gcwd") + 0
  BY <1>1, <1>6, <1>9, BetState, HandsGive
<1> DEFINE k == 0 - pay
<1>11. /\ B!InLot(n) = B!InLot(lots[i]) + k /\ k \in Int
       /\ InHands(hands', "cwd") = InHands(hands, "cwd") - k
       /\ InHands(hands', "gcwd") = InHands(hands, "gcwd")
  BY <1>6, <1>8, <1>10, BetState
<1> HIDE DEF k
<1> QED
  BY <1>1, <1>3, <1>4, <1>5, <1>10, <1>11, LotStep

-----------------------------------------------------------------------------
(* The end of a block, in the game zone *)

(* Prize and fees of a coin are the two stakes, but for one unit. *)
LEMMA CoinSplit ==
  ASSUME NEW n \in Nat
  PROVE  /\ B!CountPrize(n) \in Nat /\ B!CountReferralPrize(n) \in Nat
         /\ 2 * n - B!CountPrize(n) - B!CountReferralPrize(n) \in {0, 1}
<1> DEFINE p == (n * 18000) \div 10000
           q == (n * 2000) \div 10000
<1>1. p \in Int /\ q \in Int /\ 10000 * p <= 18000 * n /\ 18000 * n < 10000 * p + 10000
  OBVIOUS
<1>2. 10000 * q <= 2000 * n /\ 2000 * n < 10000 * q + 10000
  OBVIOUS
<1> HIDE DEF p, q
<1>3. p \in Nat /\ q \in Nat /\ 2 * n - p - q \in {0, 1}
  BY <1>1, <1>2
<1> QED
  BY <1>3 DEF B!CountPrize, B!CountReferralPrize, p, q

(* A bet that is due. *)
LEMMA DueFlip ==
  ASSUME BetAssumptions, BetInv, NEW t \in Nat, NEW i \in B!DueFlips(t),
         NEW heads \in [B!Called(B!DueFlips(t)) -> BOOLEAN]
  PROVE  /\ i \in B!FlipIds /\ flips[i] \in B!Flips /\ flips[i] # None /\ flips[i].bet \in Nat
         /\ flips[i].status \in {0, 1} /\ B!FlipPayout(i) \in Nat /\ B!FlipWinner(i, heads) \in Members
         /\ B!CountReferralPrize(flips[i].bet) \in Nat
<1>1. i \in B!FlipIds /\ flips[i] # None
  BY DEF B!DueFlips, B!Held
<1>2. flips[i] \in B!Flips /\ FlipOK(flips[i], blockTime)
  BY <1>1, BetState DEF BetsOK
<1>3. flips[i].bet \in Nat /\ flips[i].status \in {0, 1} /\ flips[i].bettor \in Members
  BY <1>2, FlipFields
<1>4. B!FlipPayout(i) \in Nat /\ B!CountReferralPrize(flips[i].bet) \in Nat
  BY <1>3, CoinSplit DEF B!FlipPayout
<1>5. B!FlipWinner(i, heads) \in Members
  BY <1>2, <1>3 DEF B!FlipWinner, FlipOK
<1> QED
  BY <1>1, <1>2, <1>3, <1>4, <1>5

LEMMA DueFlipSet ==
  ASSUME BetAssumptions, NEW t
  PROVE  /\ IsFiniteSet(B!DueFlips(t)) /\ B!DueFlips(t) \in SUBSET B!FlipIds
         /\ IsFiniteSet(B!Called(B!DueFlips(t))) /\ B!Called(B!DueFlips(t)) \in SUBSET B!DueFlips(t)
<1>1. B!DueFlips(t) \in SUBSET B!FlipIds /\ B!Called(B!DueFlips(t)) \in SUBSET B!DueFlips(t)
  BY DEF B!DueFlips, B!Called
<1> QED
  BY <1>1, BetConstants, FS_Subset

(* The bets that are due pay what they hold, but for a unit for each coin. *)
LEMMA FlipsPaid ==
  ASSUME BetAssumptions, BetInv, NEW t \in Nat, NEW heads \in [B!Called(B!DueFlips(t)) -> BOOLEAN],
         NEW new, new = [i \in B!FlipIds |-> IF i \in B!DueFlips(t) THEN None ELSE flips[i]],
         NEW pay, pay = [a \in Members |-> B!Won(B!DueFlips(t), heads, a)]
  PROVE  /\ \A a \in Members : pay[a] \in Nat
         /\ SumFunctionOnSet(pay, Members) \in Int /\ B!Rake(B!Called(B!DueFlips(t))) \in Nat /\ InBets(new) \in Int
         /\ InBets(flips) - InBets(new) - SumFunctionOnSet(pay, Members) - B!Rake(B!Called(B!DueFlips(t)))
            \in 0..Cardinality(B!Called(B!DueFlips(t)))
<1> DEFINE due == B!DueFlips(t)
           called == B!Called(due)
           u == [i \in B!FlipIds |-> B!InFlip(flips[i])]
           v == [i \in B!FlipIds |-> B!InFlip(new[i])]
           w == [i \in B!FlipIds |-> IF i \in due THEN u[i] ELSE 0]
           who == [i \in due |-> B!FlipWinner(i, heads)]
           val == [i \in due |-> B!FlipPayout(i)]
           cut == [i \in called |-> B!CountReferralPrize(flips[i].bet)]
           rest == [i \in due |-> u[i] - val[i]]
           rake == [i \in due |-> IF i \in called THEN cut[i] ELSE 0]
           dust == [i \in due |-> rest[i] - rake[i]]
<1>1. /\ IsFiniteSet(Members) /\ IsFiniteSet(B!FlipIds) /\ IsFiniteSet(due) /\ due \in SUBSET B!FlipIds
      /\ IsFiniteSet(called) /\ called \in SUBSET due
  BY BetConstants, DueFlipSet
<1>2. \A i \in B!FlipIds : u[i] \in Nat
  BY BetState, BetSums
<1>3. \A i \in B!FlipIds : v[i] = IF i \in due THEN 0 ELSE u[i]
  BY DEF B!InFlip
<1>4. \A i \in due : i \in called <=> flips[i].status = 1
  BY DEF B!Called
<1>5. ASSUME NEW i \in due
      PROVE  /\ who[i] \in Members /\ val[i] \in Nat /\ rest[i] \in Int /\ rake[i] \in Nat
             /\ i \in called => cut[i] \in Nat /\ dust[i] \in {0, 1}
             /\ i \notin called => dust[i] = 0
             /\ dust[i] \in Int
  <2>1. /\ i \in B!FlipIds /\ flips[i] # None /\ flips[i].bet \in Nat /\ flips[i].status \in {0, 1}
        /\ B!FlipPayout(i) \in Nat /\ B!FlipWinner(i, heads) \in Members /\ B!CountReferralPrize(flips[i].bet) \in Nat
    BY DueFlip
  <2>2. who[i] \in Members /\ val[i] \in Nat /\ val[i] = B!FlipPayout(i)
    BY <2>1
  <2>3. u[i] = flips[i].bet * (1 + flips[i].status)
    BY <2>1 DEF B!InFlip
  <2>4. CASE i \in called
    <3>1. /\ flips[i].status = 1 /\ cut[i] = B!CountReferralPrize(flips[i].bet) /\ rake[i] = cut[i]
          /\ val[i] = B!CountPrize(flips[i].bet)
      BY <1>4, <2>2, <2>4 DEF B!FlipPayout
    <3>2. u[i] = 2 * flips[i].bet
      BY <2>1, <2>3, <3>1
    <3>3. /\ B!CountPrize(flips[i].bet) \in Nat
          /\ 2 * flips[i].bet - B!CountPrize(flips[i].bet) - B!CountReferralPrize(flips[i].bet) \in {0, 1}
      BY <2>1, CoinSplit
    <3>4. dust[i] = (u[i] - val[i]) - cut[i] /\ rest[i] = u[i] - val[i]
      BY <3>1
    <3>5. dust[i] = (2 * flips[i].bet - B!CountPrize(flips[i].bet)) - B!CountReferralPrize(flips[i].bet)
      BY <3>1, <3>2, <3>4
    <3> QED
      BY <2>1, <2>2, <2>4, <3>1, <3>2, <3>3, <3>4, <3>5
  <2>5. CASE i \notin called
    <3>1. flips[i].status = 0 /\ rake[i] = 0 /\ val[i] = flips[i].bet
      BY <1>4, <2>1, <2>2, <2>5 DEF B!FlipPayout
    <3>2. u[i] = flips[i].bet
      BY <2>1, <2>3, <3>1
    <3>3. dust[i] = (u[i] - val[i]) - 0 /\ rest[i] = u[i] - val[i]
      BY <3>1
    <3> QED
      BY <2>1, <2>2, <2>5, <3>1, <3>2, <3>3
  <2> QED
    BY <2>4, <2>5
<1>6. \A i \in due : u[i] \in Int /\ u[i] = val[i] + rest[i] /\ rest[i] = rake[i] + dust[i] /\ w[i] = u[i]
  <2> SUFFICES ASSUME NEW i \in due
               PROVE  u[i] \in Int /\ u[i] = val[i] + rest[i] /\ rest[i] = rake[i] + dust[i] /\ w[i] = u[i]
    OBVIOUS
  <2>1. rest[i] = u[i] - val[i] /\ dust[i] = rest[i] - rake[i] /\ w[i] = u[i]
    BY <1>1
  <2> HIDE DEF u, w, who, val, cut, rest, rake, dust, due, called
  <2>2. u[i] \in Int /\ val[i] \in Int /\ rest[i] \in Int /\ rake[i] \in Int
    BY <1>1, <1>2, <1>5
  <2> QED
    BY <2>1, <2>2
<1>7. \A i \in B!FlipIds : u[i] \in Int /\ v[i] \in Int /\ w[i] \in Int /\ u[i] = v[i] + w[i]
  BY <1>2, <1>3
<1>8. InBets(flips) = SumFunctionOnSet(u, B!FlipIds) /\ InBets(new) = SumFunctionOnSet(v, B!FlipIds)
  BY DEF InBets
<1>9. \A a \in Members : pay[a] = SumFunctionOnSet(val, {i \in due : who[i] = a})
  <2> SUFFICES ASSUME NEW a \in Members PROVE pay[a] = SumFunctionOnSet(val, {i \in due : who[i] = a})
    OBVIOUS
  <2>1. {i \in due : who[i] = a} = {i \in due : B!FlipWinner(i, heads) = a}
    OBVIOUS
  <2>2. pay[a] = B!SumFunctionOnSet(val, {i \in due : B!FlipWinner(i, heads) = a})
    BY DEF B!Won
  <2> HIDE DEF val, who, due
  <2> QED
    BY <2>1, <2>2, SameSumBets
<1>10. B!Rake(called) = SumFunctionOnSet(cut, called)
  BY SameSumBets DEF B!Rake
<1>11. \A i \in B!FlipIds \ due : w[i] = 0
  OBVIOUS
<1>12. (\A i \in due \ called : rake[i] = 0) /\ \A i \in called : rake[i] = cut[i]
  BY <1>1
<1> HIDE DEF u, v, w, who, val, cut, rest, rake, dust, due, called
<1>13. SumFunctionOnSet(u, B!FlipIds) = SumFunctionOnSet(v, B!FlipIds) + SumFunctionOnSet(w, B!FlipIds)
  BY <1>1, <1>7, SumPlus
<1>14. SumFunctionOnSet(w, B!FlipIds) = SumFunctionOnSet(w, due)
  BY <1>1, <1>7, <1>11, SumPart
<1>15. SumFunctionOnSet(w, due) = SumFunctionOnSet(u, due)
  BY <1>1, <1>6, SumEqual
<1>16. SumFunctionOnSet(u, due) = SumFunctionOnSet(val, due) + SumFunctionOnSet(rest, due)
  <2>1. \A i \in due : val[i] \in Int /\ rest[i] \in Int /\ u[i] = val[i] + rest[i]
    BY <1>5, <1>6
  <2> QED
    BY <1>1, <2>1, SumPlus
<1>17. SumFunctionOnSet(rest, due) = SumFunctionOnSet(rake, due) + SumFunctionOnSet(dust, due)
  <2>1. \A i \in due : rake[i] \in Int /\ dust[i] \in Int /\ rest[i] = rake[i] + dust[i]
    BY <1>5, <1>6
  <2> QED
    BY <1>1, <2>1, SumPlus
<1>18. SumFunctionOnSet(rake, due) = SumFunctionOnSet(cut, called)
  <2>1. \A i \in due : rake[i] \in Int
    BY <1>5
  <2>2. SumFunctionOnSet(rake, due) = SumFunctionOnSet(rake, called)
    BY <1>1, <1>12, <2>1, SumPart
  <2>3. \A i \in called : cut[i] \in Int
    BY <1>1, <1>5
  <2> QED
    BY <1>1, <1>12, <2>2, <2>3, SumEqual
<1>19. SumFunctionOnSet(dust, due) \in 0..Cardinality(called)
  <2>1. SumFunctionOnSet(dust, due) = SumFunctionOnSet(dust, called)
    BY <1>1, <1>5, SumPart
  <2>2. \A i \in called : dust[i] \in {0, 1}
    BY <1>1, <1>5
  <2> QED
    BY <1>1, <2>1, <2>2, SumBits
<1>20. SumFunctionOnSet(pay, Members) = SumFunctionOnSet(val, due)
  <2> DEFINE r == [a \in Members |-> SumFunctionOnSet(val, {k \in due : who[k] = a})]
  <2>1. SumFunctionOnSet(r, Members) = SumFunctionOnSet(val, due)
    <3>1. (\A k \in due : who[k] \in Members) /\ \A k \in due : val[k] \in Int
      BY <1>5
    <3> QED
      BY <1>1, <3>1, SumFibers
  <2>2. \A a \in Members : r[a] \in Int /\ pay[a] = r[a]
    <3> SUFFICES ASSUME NEW a \in Members PROVE r[a] \in Int /\ pay[a] = r[a]
      OBVIOUS
    <3> DEFINE U == {i \in due : who[i] = a}
    <3>1. IsFiniteSet(U) /\ \A i \in U : val[i] \in Int
      BY <1>1, <1>5, FS_Subset
    <3>2. SumFunctionOnSet(val, U) \in Int
      <4> HIDE DEF U
      <4> QED
        BY <3>1, SumInt
    <3> QED
      BY <1>9, <3>2
  <2> HIDE DEF r
  <2>3. SumFunctionOnSet(pay, Members) = SumFunctionOnSet(r, Members)
    BY <1>1, <2>2, SumEqual
  <2> QED
    BY <2>1, <2>3
<1>21. ASSUME NEW a \in Members PROVE pay[a] \in Nat
  <2> DEFINE U == {i \in due : who[i] = a}
  <2>1. IsFiniteSet(U) /\ \A i \in U : val[i] \in Nat
    BY <1>1, <1>5, FS_Subset
  <2>2. SumFunctionOnSet(val, U) \in Nat
    <3> HIDE DEF U
    <3> QED
      BY <2>1, SumNat
  <2> QED
    BY <1>9, <2>2
<1>22. /\ SumFunctionOnSet(val, due) \in Int /\ SumFunctionOnSet(v, B!FlipIds) \in Int
       /\ SumFunctionOnSet(cut, called) \in Nat /\ SumFunctionOnSet(dust, due) \in Int
  <2>1. \A i \in called : cut[i] \in Nat
    BY <1>1, <1>5
  <2>2. \A i \in due : val[i] \in Int /\ dust[i] \in Int
    BY <1>5
  <2> QED
    BY <1>1, <1>7, <2>1, <2>2, SumInt, SumNat
<1>23. InBets(flips) - InBets(new) - SumFunctionOnSet(pay, Members) - B!Rake(called) = SumFunctionOnSet(dust, due)
  BY <1>8, <1>10, <1>13, <1>14, <1>15, <1>16, <1>17, <1>18, <1>20, <1>22
<1> QED
  BY <1>8, <1>10, <1>19, <1>20, <1>21, <1>22, <1>23 DEF called, due

(* Every ticket was bought by one account. *)
LEMMA TicketsSold ==
  ASSUME IsFiniteSet(Members), NEW p \in Seq(Members), NEW n,
         \A a \in Members : n[a] = Cardinality({k \in DOMAIN p : p[k] = a})
  PROVE  (\A a \in Members : n[a] \in Nat) /\ SumFunctionOnSet(n, Members) = Len(p)
<1> DEFINE K == DOMAIN p
           one == [k \in K |-> 1]
           r == [a \in Members |-> SumFunctionOnSet(one, {k \in K : p[k] = a})]
<1>1. Len(p) \in Nat /\ K = 1..Len(p) /\ \A k \in K : p[k] \in Members
  OBVIOUS
<1>2. IsFiniteSet(K) /\ Cardinality(K) = Len(p)
  <2>1. 1 \in Int /\ Len(p) \in Int
    BY <1>1
  <2>2. IsFiniteSet(1..Len(p)) /\ Cardinality(1..Len(p)) = IF 1 > Len(p) THEN 0 ELSE Len(p) - 1 + 1
    BY <2>1, FS_Interval
  <2> HIDE DEF K
  <2> QED
    BY <1>1, <2>2
<1>3. \A k \in K : one[k] = 1 /\ one[k] \in Int
  OBVIOUS
<1>4. ASSUME NEW a \in Members PROVE n[a] \in Nat /\ n[a] = r[a]
  <2> DEFINE U == {k \in K : p[k] = a}
  <2>1. IsFiniteSet(U) /\ \A k \in U : one[k] = 1
    BY <1>2, FS_Subset
  <2>2. n[a] = Cardinality(U) /\ r[a] = SumFunctionOnSet(one, U)
    OBVIOUS
  <2> HIDE DEF U, r, one
  <2> QED
    BY <2>1, <2>2, SumOnes, FS_CardinalityType
<1>5. SumFunctionOnSet(one, K) = Len(p)
  <2> HIDE DEF K, one
  <2> QED
    BY <1>2, <1>3, SumOnes
<1>6. SumFunctionOnSet(r, Members) = SumFunctionOnSet(one, K)
  <2>1. (\A k \in K : p[k] \in Members) /\ \A k \in K : one[k] \in Int
    BY <1>1, <1>3
  <2> HIDE DEF K, one
  <2> QED
    BY <1>2, <2>1, SumFibers
<1>7. \A a \in Members : r[a] \in Int /\ n[a] = r[a]
  BY <1>4
<1> HIDE DEF r
<1>8. SumFunctionOnSet(n, Members) = SumFunctionOnSet(r, Members)
  BY <1>7, SumEqual
<1> QED
  BY <1>4, <1>5, <1>6, <1>8

(* The members get back what a lot that did not sell holds. *)
LEMMA LotRefunded ==
  ASSUME BetAssumptions, BetInv, NEW i \in B!LotIds, lots[i] # None, lots[i].status = 0
  PROVE  /\ \A a \in Members : B!Refunded(i, a) \in Nat
         /\ SumFunctionOnSet([a \in Members |-> B!Refunded(i, a)], Members) = B!InLot(lots[i])
<1> DEFINE p == lots[i].participants
           c == lots[i].price
           n == [a \in Members |-> Cardinality({k \in DOMAIN p : p[k] = a})]
           g == [a \in Members |-> B!Refunded(i, a)]
<1>1. p \in Seq(Members) /\ c \in Nat /\ Len(p) \in Nat
  BY LotAt, LotFields
<1>2. \A a \in Members : n[a] = Cardinality({k \in DOMAIN p : p[k] = a})
  OBVIOUS
<1>3. \A a \in Members : g[a] = n[a] * c /\ g[a] = B!Refunded(i, a)
  BY SameFiniteBets DEF B!Refunded, B!Tickets
<1>4. B!InLot(lots[i]) = c * Len(p)
  BY DEF B!InLot
<1> HIDE DEF p, c, n, g
<1>5. (\A a \in Members : n[a] \in Nat) /\ SumFunctionOnSet(n, Members) = Len(p)
  BY <1>1, <1>2, BetConstants, TicketsSold
<1>6. SumFunctionOnSet(g, Members) = SumFunctionOnSet(n, Members) * c
  <2>1. c \in Int /\ \A a \in Members : n[a] \in Int /\ g[a] = n[a] * c
    BY <1>1, <1>3, <1>5
  <2> QED
    BY <2>1, BetConstants, SumTimes
<1>7. Len(p) * c = c * Len(p)
  BY <1>1
<1>8. \A a \in Members : g[a] \in Nat
  BY <1>1, <1>3, <1>5
<1> QED
  BY <1>3, <1>4, <1>5, <1>6, <1>7, <1>8 DEF g

(* The lots after the end of a block. *)
LotsAfter(t, draw) ==
  [i \in B!LotIds |->
     CASE i \in B!Unsold(B!DueLots(t)) -> None
       [] i \in B!DueLots(t) \ B!Unsold(B!DueLots(t)) /\ lots[i].status = 1 -> B!Drawn(lots[i], draw[i])
       [] OTHER -> lots[i]]

(* A lot that is sold out is drawn for one who bought a ticket. *)
LEMMA LotDrawn ==
  ASSUME BetAssumptions, NEW l \in B!Lots, NEW s \in Nat, LotOK(l, s), l.status = 1, NEW n \in Nat
  PROVE  LET d == B!Drawn(l, n)
         IN  /\ d \in B!Lots /\ \A t \in Nat : LotOK(d, t)
             /\ d.status = 2 /\ d.participants = l.participants /\ d.price = l.price /\ d.winner # None
             /\ B!InLot(d) = B!InLot(l)
<1> DEFINE d == B!Drawn(l, n)
           k == (n % l.total) + 1
<1>1. /\ l.total \in Nat \ {0} /\ l.participants \in Seq(Members) /\ Len(l.participants) = l.total /\ l # None
      /\ Len(l.participants) \in Nat
  BY LotFields DEF LotOK
<1>2. k \in 1..Len(l.participants)
  BY <1>1
<1>3. l.participants[k] \in Members /\ l.participants[k] # None
  BY <1>1, <1>2, BetConstants
<1>4. d = [l EXCEPT !.winner = l.participants[k], !.status = 2, !.expiration = 0]
  BY DEF B!Drawn
<1> HIDE DEF k
<1>5. /\ d \in B!Lots /\ d.winner = l.participants[k] /\ d.status = 2 /\ d.expiration = 0
      /\ d.participants = l.participants /\ d.price = l.price /\ d.total = l.total /\ d.contacts = l.contacts
  <2>1. 2 \in 0..3 /\ 0 \in Nat /\ l.participants[k] \in Members \cup {None}
    BY <1>3
  <2> QED
    BY <1>4, <2>1 DEF B!Lots
<1> HIDE DEF d
<1>6. \A t \in Nat : LotOK(d, t)
  <2>1. \E j \in 1..Len(d.participants) : d.winner = d.participants[j]
    BY <1>2, <1>5
  <2>2. d.winner # None
    BY <1>3, <1>5
  <2> QED
    BY <1>1, <1>5, <2>1, <2>2 DEF LotOK
<1>7. B!InLot(d) = B!InLot(l)
  <2>1. d # None
    BY <1>5, LotFields
  <2> QED
    BY <1>1, <1>5, <2>1 DEF B!InLot
<1> QED
  BY <1>3, <1>5, <1>6, <1>7 DEF d

(* What becomes of each lot. *)
LEMMA LotAfter ==
  ASSUME BetAssumptions, BetInv, NEW t \in Nat, t >= blockTime,
         NEW draw \in [B!DueLots(t) -> 0..TotalParticipants], NEW i \in B!LotIds
  PROVE  LET n == LotsAfter(t, draw)[i]
         IN  /\ i \in B!Unsold(B!DueLots(t)) => n = None /\ lots[i] # None /\ lots[i].status = 0
             /\ i \notin B!Unsold(B!DueLots(t)) => B!InLot(n) = B!InLot(lots[i])
             /\ lots[i] = None => n = None
             /\ lots[i] # None /\ i \notin B!Unsold(B!DueLots(t)) => n # None
             /\ n # None => /\ n \in B!Lots /\ i < betIds.lot /\ LotOK(n, t)
                            /\ lots[i] # None /\ n.participants = lots[i].participants /\ n.status >= lots[i].status
                            /\ lots[i].winner # None => n.winner = lots[i].winner
<1> DEFINE n == LotsAfter(t, draw)[i]
           l == lots[i]
<1>1. n = CASE i \in B!Unsold(B!DueLots(t)) -> None
            [] i \in B!DueLots(t) \ B!Unsold(B!DueLots(t)) /\ l.status = 1 -> B!Drawn(l, draw[i])
            [] OTHER -> l
  BY DEF LotsAfter
<1>2. /\ blockTime \in Nat /\ blockTime >= 2 /\ Lookahead \in Nat /\ TotalParticipants \in Nat
  BY BetState, BetConstants
<1> HIDE DEF n
<1>3. CASE i \in B!Unsold(B!DueLots(t))
  <2>1. l # None /\ l.status = 0 /\ n = None
    BY <1>1, <1>3 DEF B!Unsold, B!DueLots, B!Held
  <2> QED
    BY <1>3, <2>1 DEF n
<1>4. CASE i \in B!DueLots(t) \ B!Unsold(B!DueLots(t)) /\ l.status = 1
  <2>1. l # None /\ n = B!Drawn(l, draw[i]) /\ draw[i] \in Nat
    BY <1>1, <1>2, <1>4 DEF B!DueLots, B!Held
  <2>2. l \in B!Lots /\ LotOK(l, blockTime) /\ i < betIds.lot
    BY <2>1, LotAt
  <2>3. /\ n \in B!Lots /\ LotOK(n, t) /\ n.status = 2 /\ n.participants = l.participants /\ B!InLot(n) = B!InLot(l)
    BY <1>2, <1>4, <2>1, <2>2, LotDrawn
  <2>4. l.winner = None
    BY <1>4, <2>2 DEF LotOK
  <2>5. n # None
    BY <2>3, LotFields
  <2> QED
    BY <1>4, <2>1, <2>2, <2>3, <2>4, <2>5 DEF n
<1>5. CASE i \notin B!Unsold(B!DueLots(t)) /\ ~ (i \in B!DueLots(t) \ B!Unsold(B!DueLots(t)) /\ l.status = 1)
  <2>1. n = l
    BY <1>1, <1>5
  <2>2. CASE l = None
    BY <1>5, <2>1, <2>2 DEF n
  <2>3. CASE l # None
    <3>1. l \in B!Lots /\ LotOK(l, blockTime) /\ i < betIds.lot
      BY <2>3, LotAt
    <3>2. l.status \in 0..3 /\ l.expiration \in Nat
      BY <3>1, LotFields
    <3>3. l.status < 2 => l.expiration > 1
      BY <1>2, <3>1, <3>2 DEF LotOK
    <3>4. l.status < 2 => ~ (i \in B!DueLots(t))
      <4>1. i \in B!DueLots(t) /\ l.status = 0 => i \in B!Unsold(B!DueLots(t))
        BY DEF B!Unsold
      <4> QED
        BY <1>5, <3>2, <4>1
    <3>5. l.status < 2 => l.expiration >= t + Lookahead
      BY <1>2, <2>3, <3>2, <3>3, <3>4 DEF B!DueLots, B!Held
    <3>6. LotOK(l, t)
      BY <3>1, <3>5 DEF LotOK
    <3> QED
      BY <1>5, <2>1, <2>3, <3>1, <3>2, <3>6 DEF n
  <2> QED
    BY <2>2, <2>3
<1> QED
  BY <1>3, <1>4, <1>5

LEMMA LotsRefunded ==
  ASSUME BetAssumptions, BetInv, NEW t \in Nat, t >= blockTime,
         NEW draw \in [B!DueLots(t) -> 0..TotalParticipants],
         NEW pay, pay = [a \in Members |-> B!Refund(B!Unsold(B!DueLots(t)), a)]
  PROVE  /\ \A a \in Members : pay[a] \in Nat
         /\ SumFunctionOnSet(pay, Members) \in Int /\ InLots(LotsAfter(t, draw)) \in Int
         /\ InLots(LotsAfter(t, draw)) + SumFunctionOnSet(pay, Members) = InLots(lots)
<1> DEFINE back == B!Unsold(B!DueLots(t))
           new == LotsAfter(t, draw)
           u == [i \in B!LotIds |-> B!InLot(lots[i])]
           v == [i \in B!LotIds |-> B!InLot(new[i])]
           w == [i \in B!LotIds |-> IF i \in back THEN u[i] ELSE 0]
           m == [a \in Members |-> [i \in back |-> B!Refunded(i, a)]]
           d == [i \in back |-> [a \in Members |-> B!Refunded(i, a)]]
           c == [i \in back |-> B!InLot(lots[i])]
<1>1. back \in SUBSET B!LotIds
  BY DEF B!Unsold, B!DueLots
<1>2. IsFiniteSet(Members) /\ IsFiniteSet(B!LotIds) /\ IsFiniteSet(back)
  BY <1>1, BetConstants, FS_Subset
<1>3. \A i \in back : lots[i] # None /\ lots[i].status = 0
  BY DEF B!Unsold, B!DueLots, B!Held
<1>4. \A i \in B!LotIds : u[i] \in Nat
  BY BetState, BetSums
<1>5. \A i \in B!LotIds : v[i] = IF i \in back THEN 0 ELSE u[i]
  <2> SUFFICES ASSUME NEW i \in B!LotIds PROVE B!InLot(new[i]) = IF i \in back THEN 0 ELSE B!InLot(lots[i])
    OBVIOUS
  <2>1. (i \in back => new[i] = None) /\ (i \notin back => B!InLot(new[i]) = B!InLot(lots[i]))
    BY LotAfter
  <2> QED
    BY <2>1 DEF B!InLot
<1>6. \A i \in B!LotIds : u[i] \in Int /\ v[i] \in Int /\ w[i] \in Int /\ u[i] = v[i] + w[i]
  BY <1>4, <1>5
<1>7. \A i \in back : c[i] = u[i] /\ w[i] = u[i] /\ c[i] \in Int
  BY <1>1, <1>4
<1>8. \A i \in B!LotIds \ back : w[i] = 0
  OBVIOUS
<1>9. InLots(lots) = SumFunctionOnSet(u, B!LotIds) /\ InLots(new) = SumFunctionOnSet(v, B!LotIds)
  BY DEF InLots
<1>10. \A a \in Members, i \in back : m[a][i] = B!Refunded(i, a) /\ m[a][i] \in Nat
  BY <1>1, <1>3, LotRefunded
<1>11. \A i \in back : c[i] = SumFunctionOnSet(d[i], Members) /\ \A a \in Members : d[i][a] = m[a][i]
  <2> SUFFICES ASSUME NEW i \in back
               PROVE  /\ B!InLot(lots[i]) = SumFunctionOnSet(d[i], Members)
                      /\ \A a \in Members : d[i][a] = m[a][i]
    OBVIOUS
  <2>1. d[i] = [a \in Members |-> B!Refunded(i, a)] /\ \A a \in Members : d[i][a] = m[a][i]
    OBVIOUS
  <2> HIDE DEF m, d
  <2> QED
    BY <1>1, <1>3, <2>1, LotRefunded
<1>12. \A a \in Members : pay[a] = SumFunctionOnSet(m[a], back)
  <2> SUFFICES ASSUME NEW a \in Members PROVE pay[a] = SumFunctionOnSet(m[a], back)
    OBVIOUS
  <2>1. m[a] = [i \in back |-> B!Refunded(i, a)]
    OBVIOUS
  <2>2. pay[a] = B!SumFunctionOnSet([i \in back |-> B!Refunded(i, a)], back)
    BY DEF B!Refund
  <2> HIDE DEF m, back
  <2> QED
    BY <2>1, <2>2, SameSumBets
<1> HIDE DEF back, new, u, v, w, m, d, c
<1>13. SumFunctionOnSet(u, B!LotIds) = SumFunctionOnSet(v, B!LotIds) + SumFunctionOnSet(w, B!LotIds)
  BY <1>2, <1>6, SumPlus
<1>14. SumFunctionOnSet(w, B!LotIds) = SumFunctionOnSet(w, back)
  BY <1>1, <1>2, <1>6, <1>8, SumPart
<1>15. SumFunctionOnSet(w, back) = SumFunctionOnSet(c, back)
  BY <1>2, <1>7, SumEqual
<1>16. SumFunctionOnSet(pay, Members) = SumFunctionOnSet(c, back)
  <2>1. IsTable(Members, back, m, d, pay, c)
    BY <1>2, <1>10, <1>11, <1>12 DEF IsTable
  <2> QED
    BY <2>1, SumSwap
<1>17. \A a \in Members : pay[a] \in Nat
  <2> SUFFICES ASSUME NEW a \in Members PROVE pay[a] \in Nat
    OBVIOUS
  <2>1. \A i \in back : m[a][i] \in Nat
    BY <1>10
  <2>2. SumFunctionOnSet(m[a], back) \in Nat
    BY <1>2, <2>1, SumNat
  <2> QED
    BY <1>12, <2>2
<1>18. SumFunctionOnSet(c, back) \in Int /\ SumFunctionOnSet(v, B!LotIds) \in Int
  BY <1>2, <1>6, <1>7, SumInt
<1> QED
  BY <1>9, <1>13, <1>14, <1>15, <1>16, <1>17, <1>18 DEF new

(* Several accounts are paid at once. *)
HandsAfter(b, p, q) == [a \in Members |-> [b[a] EXCEPT !["cwd"] = @ + p[a] + q[a]]]

LEMMA HandsPaid ==
  ASSUME BetAssumptions, NEW b \in HandSets, NEW p, NEW q,
         \A a \in Members : p[a] \in Nat /\ q[a] \in Nat,
         NEW c, c = HandsAfter(b, p, q)
  PROVE  /\ c \in HandSets /\ InHands(c, "gcwd") = InHands(b, "gcwd")
         /\ InHands(c, "cwd") = InHands(b, "cwd") + SumFunctionOnSet(p, Members) + SumFunctionOnSet(q, Members)
         /\ \A a \in Members : c[a]["cwd"] = b[a]["cwd"] + p[a] + q[a]
<1>1. "cwd" \in B!Assets /\ "gcwd" \in B!Assets /\ "gcwd" # "cwd" /\ IsFiniteSet(Members)
  BY BetConstants DEF B!Assets
<1>2. c \in HandSets
  BY <1>1 DEF HandSets, HandsAfter
<1>3. \A a \in Members : /\ c[a]["cwd"] = b[a]["cwd"] + p[a] + q[a] /\ c[a]["gcwd"] = b[a]["gcwd"]
                         /\ b[a]["cwd"] \in Int /\ b[a]["gcwd"] \in Int
  BY <1>1 DEF HandSets, HandsAfter
<1> DEFINE f == [a \in Members |-> b[a]["cwd"]]
           g == [a \in Members |-> c[a]["cwd"]]
           h == [a \in Members |-> b[a]["cwd"] + p[a]]
           y == [a \in Members |-> b[a]["gcwd"]]
           z == [a \in Members |-> c[a]["gcwd"]]
<1>4. \A a \in Members : /\ f[a] \in Int /\ p[a] \in Int /\ h[a] = f[a] + p[a] /\ h[a] \in Int /\ q[a] \in Int
                         /\ g[a] = h[a] + q[a]
  BY <1>3
<1>5. \A a \in Members : y[a] \in Int /\ z[a] = y[a]
  BY <1>3
<1> HIDE DEF f, g, h, y, z
<1>6. SumFunctionOnSet(g, Members) = SumFunctionOnSet(h, Members) + SumFunctionOnSet(q, Members)
  BY <1>1, <1>4, SumPlus
<1>7. SumFunctionOnSet(h, Members) = SumFunctionOnSet(f, Members) + SumFunctionOnSet(p, Members)
  BY <1>1, <1>4, SumPlus
<1>8. SumFunctionOnSet(z, Members) = SumFunctionOnSet(y, Members)
  BY <1>1, <1>5, SumEqual
<1> QED
  BY <1>2, <1>3, <1>6, <1>7, <1>8 DEF InHands, f, g, y, z

(* proceed_bets and proceed_lottery_goods *)
LEMMA GameBlock ==
  ASSUME BetAssumptions, BetInv, NEW g \in BlockGaps, B!EndOfBlock(blockTime + g)
  PROVE  BetInv'
<1> DEFINE t == blockTime + g
           due == B!DueFlips(t)
           called == B!Called(due)
           back == B!Unsold(B!DueLots(t))
<1>1. PICK heads \in [called -> BOOLEAN], draw \in [B!DueLots(t) -> 0..TotalParticipants] :
         /\ t <= LastBlock
         /\ hands' = [a \in Members |-> [hands[a] EXCEPT !["cwd"] = @ + B!Won(due, heads, a) + B!Refund(back, a)]]
         /\ flips' = [i \in B!FlipIds |-> IF i \in due THEN None ELSE flips[i]]
         /\ betFees' = [betFees EXCEPT !["cwd"] = @ + B!Rake(called)]
         /\ flipped' = flipped + B!Cardinality(called)
         /\ lots' = LotsAfter(t, draw)
         /\ blockTime' = t /\ betIds' = betIds /\ mixed' = mixed
  BY DEF B!EndOfBlock, B!Core, LotsAfter
<1>2. t \in Nat /\ t >= blockTime /\ t >= 2 /\ blockTime \in Nat
  BY BetState, BetConstants
<1> DEFINE won == [a \in Members |-> B!Won(due, heads, a)]
           refund == [a \in Members |-> B!Refund(back, a)]
<1> HIDE DEF t
<1>3. /\ \A a \in Members : won[a] \in Nat
      /\ SumFunctionOnSet(won, Members) \in Int /\ B!Rake(called) \in Nat /\ InBets(flips') \in Int
      /\ InBets(flips) - InBets(flips') - SumFunctionOnSet(won, Members) - B!Rake(called) \in 0..Cardinality(called)
  BY <1>1, <1>2, FlipsPaid
<1>4. /\ \A a \in Members : refund[a] \in Nat
      /\ SumFunctionOnSet(refund, Members) \in Int /\ InLots(lots') \in Int
      /\ InLots(lots') + SumFunctionOnSet(refund, Members) = InLots(lots)
  BY <1>1, <1>2, LotsRefunded
<1>5. /\ hands' \in HandSets /\ InHands(hands', "gcwd") = InHands(hands, "gcwd")
      /\ InHands(hands', "cwd") = InHands(hands, "cwd") + SumFunctionOnSet(won, Members) + SumFunctionOnSet(refund, Members)
  <2>1. hands' = HandsAfter(hands, won, refund)
    BY <1>1 DEF HandsAfter
  <2> HIDE DEF won, refund
  <2> QED
    BY <1>3, <1>4, <2>1, BetState, HandsPaid
<1> HIDE DEF won, refund
<1>6. Cardinality(called) \in Nat /\ B!Cardinality(called) = Cardinality(called)
  BY DueFlipSet, SameFiniteBets, FS_CardinalityType
<1>7. BetsOK(flips', betIds'.flip, blockTime')
  <2>1. ASSUME NEW i \in B!FlipIds, flips'[i] # None
        PROVE  flips'[i] \in B!Flips /\ i < betIds.flip /\ FlipOK(flips'[i], t)
    <3>1. flips'[i] = flips[i] /\ i \notin due /\ flips[i] # None
      BY <1>1, <2>1
    <3>2. flips[i] \in B!Flips /\ i < betIds.flip /\ FlipOK(flips[i], blockTime)
      BY <3>1, BetState DEF BetsOK
    <3>3. flips[i].expiration > t
      BY <1>2, <3>1, <3>2, FlipFields DEF B!DueFlips, B!Held
    <3> QED
      BY <3>1, <3>2, <3>3 DEF FlipOK
  <2> QED
    BY <1>1, <2>1 DEF BetsOK
<1>8. LotsOK(lots', betIds'.lot, blockTime')
  <2>1. ASSUME NEW i \in B!LotIds, lots'[i] # None
        PROVE  lots'[i] \in B!Lots /\ i < betIds.lot /\ LotOK(lots'[i], t)
    BY <1>1, <1>2, <2>1, LotAfter
  <2>2. lots' \in [B!LotIds -> B!Lots \cup {None}]
    <3>1. lots' = [i \in B!LotIds |-> lots'[i]]
      BY <1>1 DEF LotsAfter
    <3> QED
      BY <2>1, <3>1
  <2> QED
    BY <1>1, <2>1, <2>2 DEF LotsOK
<1>9. betFees' \in [B!Assets -> Nat] /\ betFees'["cwd"] = betFees["cwd"] + B!Rake(called)
  BY <1>1, <1>3, BetState DEF B!Assets
<1>10. BetShape'
  <2>1. /\ betIds' \in [flip : 1..(MaxBets + 1), lot : 1..(MaxLots + 1)] /\ flipped' \in Nat /\ mixed' \in Nat
        /\ blockTime' \in Nat /\ blockTime' >= 2
    BY <1>1, <1>2, <1>6, BetState
  <2> QED
    BY <1>5, <1>7, <1>8, <1>9, <2>1 DEF BetShape, B!TypeOK, BetsOK, LotsOK, HandSets
<1>11. Dust' \in 0..flipped'
  <2> DEFINE d == InBets(flips) - InBets(flips') - SumFunctionOnSet(won, Members) - B!Rake(called)
  <2>1. Dust' = InHands(Hands, "cwd") + mixed' - (InHands(hands', "cwd") + betFees'["cwd"] + InBets(flips') + InLots(lots'))
    BY DEF Dust, InHands, InBets, InLots, B!InFlip, B!InLot
  <2>2. Dust = InHands(Hands, "cwd") + mixed - (InHands(hands, "cwd") + betFees["cwd"] + InBets(flips) + InLots(lots))
    BY DEF Dust
  <2>3. /\ InHands(hands, "cwd") \in Int /\ InBets(flips) \in Int /\ InLots(lots) \in Int /\ mixed \in Int
        /\ InHands(Hands, "cwd") \in Int /\ betFees["cwd"] \in Int /\ flipped \in Nat /\ Dust \in 0..flipped
    BY BetState
  <2>4. d \in 0..Cardinality(called)
    BY <1>3
  <2>5. Dust' = Dust + d
    BY <1>1, <1>3, <1>4, <1>5, <1>9, <2>1, <2>2, <2>3
  <2>6. flipped' = flipped + Cardinality(called)
    BY <1>1, <1>6
  <2> HIDE DEF d
  <2> QED
    BY <1>6, <2>3, <2>4, <2>5, <2>6
<1>12. InHands(hands, "gcwd")' + mixed' = InHands(Hands, "gcwd")'
  <2>1. InHands(hands, "gcwd")' = InHands(hands', "gcwd") /\ InHands(Hands, "gcwd")' = InHands(Hands, "gcwd")
    BY DEF InHands
  <2> QED
    BY <1>1, <1>5, <2>1, BetState
<1> QED
  BY <1>10, <1>11, <1>12 DEF BetInv

LEMMA BetStart ==
  ASSUME BetAssumptions, B!Init
  PROVE  BetInv
<1>1. /\ hands = Hands /\ flips = [i \in B!FlipIds |-> None] /\ lots = [i \in B!LotIds |-> None]
      /\ betIds = [flip |-> 1, lot |-> 1] /\ betFees = [x \in B!Assets |-> 0] /\ flipped = 0 /\ mixed = 0
      /\ blockTime = 2
  BY DEF B!Init, B!Start
<1>2. BetsOK(flips, betIds.flip, blockTime) /\ LotsOK(lots, betIds.lot, blockTime)
  BY <1>1 DEF BetsOK, LotsOK
<1>3. BetShape
  <2>1. betIds \in [flip : 1..(MaxBets + 1), lot : 1..(MaxLots + 1)]
    BY <1>1, BetConstants
  <2> QED
    BY <1>1, <1>2, <2>1, BetConstants DEF BetShape, B!TypeOK, BetsOK, LotsOK, HandSets
<1>4. InBets(flips) = 0 /\ InLots(lots) = 0
  <2> DEFINE f == [i \in B!FlipIds |-> B!InFlip(flips[i])]
             l == [i \in B!LotIds |-> B!InLot(lots[i])]
  <2>1. (\A i \in B!FlipIds : f[i] = 0) /\ \A i \in B!LotIds : l[i] = 0
    BY <1>1 DEF B!InFlip, B!InLot
  <2> HIDE DEF f, l
  <2>2. SumFunctionOnSet(f, B!FlipIds) = 0 /\ SumFunctionOnSet(l, B!LotIds) = 0
    BY <2>1, BetConstants, SumZero
  <2> QED
    BY <2>2 DEF InBets, InLots, f, l
<1>5. InHands(Hands, "cwd") \in Int /\ InHands(Hands, "gcwd") \in Int /\ betFees["cwd"] = 0
  BY <1>1, BetConstants, BetSums DEF B!Assets
<1> QED
  BY <1>1, <1>3, <1>4, <1>5 DEF BetInv, Dust

LEMMA BetNext ==
  ASSUME BetAssumptions, BetInv, [B!Next]_(B!vars)
  PROVE  BetInv'
<1>1. CASE UNCHANGED B!vars
  <2>1. /\ hands' = hands /\ flips' = flips /\ lots' = lots /\ betIds' = betIds /\ betFees' = betFees
        /\ flipped' = flipped /\ mixed' = mixed /\ blockTime' = blockTime
    BY <1>1 DEF B!vars
  <2> QED
    BY <2>1, BetState, BetKept
<1>2. CASE B!Next
  BY <1>2, FlipcoinBetKeeps, FlipcoinCallKeeps, LotteryCreateKeeps, LotteryBuyTicketKeeps,
     LotterySendContactsKeeps, LotteryConfirmDeliveryKeeps, GameBlock DEF B!Next
<1> QED
  BY <1>1, <1>2

LEMMA BetAlways ==
  ASSUME BetAssumptions
  PROVE  B!Spec => []BetInv
<1>1. B!Init => BetInv
  BY BetStart
<1>2. BetInv /\ [B!Next]_(B!vars) => BetInv'
  BY BetNext
<1> QED
  BY <1>1, <1>2, PTL DEF B!Spec

(* The sums of the invariant are those of the property. *)
LEMMA BetsAddUp ==
  ASSUME BetAssumptions, BetInv
  PROVE  B!FundsConserved
<1>1. ASSUME NEW b, NEW x PROVE B!Total(b, x) = InHands(b, x)
  BY SameSumBets DEF B!Total, InHands
<1>2. B!FlipsHold = InBets(flips) /\ B!LotsHold = InLots(lots)
  BY SameSumBets DEF B!FlipsHold, B!LotsHold, InBets, InLots
<1>3. B!Assets \ {"cwd"} = {"gcwd"}
  BY DEF B!Assets
<1>4. /\ B!Total(Hands, "cwd") + mixed - (B!Total(hands, "cwd") + betFees["cwd"] + B!FlipsHold + B!LotsHold)
         \in 0..flipped
      /\ \A x \in B!Assets \ {"cwd"} : B!Total(hands, x) + mixed = B!Total(Hands, x)
  BY <1>1, <1>2, <1>3 DEF BetInv, Dust
<1> QED
  BY <1>4 DEF B!FundsConserved, B!Core

(* What an account can gain from one bet and from one lot. *)
LEMMA Claims ==
  ASSUME BetAssumptions, BetInv
  PROVE  /\ \A i \in B!FlipIds, a \in Members : B!FlipClaim(i, a) \in Nat
         /\ \A i \in B!LotIds, a \in Members : B!LotClaim(i, a) \in Nat
<1>1. ASSUME NEW i \in B!FlipIds, NEW a \in Members PROVE B!FlipClaim(i, a) \in Nat
  <2>1. CASE flips[i] = None
    BY <2>1 DEF B!FlipClaim, B!Held
  <2>2. CASE flips[i] # None
    <3>1. flips[i] \in B!Flips
      BY <2>2, BetState DEF BetsOK
    <3>2. B!FlipPayout(i) \in Nat
      BY <3>1, FlipFields, CoinSplit DEF B!FlipPayout
    <3> QED
      BY <3>2 DEF B!FlipClaim
  <2> QED
    BY <2>1, <2>2
<1>2. ASSUME NEW i \in B!LotIds, NEW a \in Members PROVE B!LotClaim(i, a) \in Nat
  BY LotRefunded DEF B!LotClaim, B!Held
<1> QED
  BY <1>1, <1>2

(* An account wins no more than the bets it is in can pay. *)
LEMMA WinsItsClaims ==
  ASSUME BetAssumptions, BetInv, NEW t \in Nat, NEW heads \in [B!Called(B!DueFlips(t)) -> BOOLEAN],
         NEW a \in Members
  PROVE  /\ B!Won(B!DueFlips(t), heads, a) \in Nat
         /\ SumFunctionOnSet([i \in B!FlipIds |-> B!FlipClaim(i, a)], B!FlipIds) \in Nat
         /\ B!Won(B!DueFlips(t), heads, a)
            <= SumFunctionOnSet([i \in B!FlipIds |-> B!FlipClaim(i, a)], B!FlipIds)
<1> DEFINE due == B!DueFlips(t)
           P == {i \in due : B!FlipWinner(i, heads) = a}
           v == [i \in due |-> B!FlipPayout(i)]
           f == [i \in B!FlipIds |-> IF i \in P THEN B!FlipPayout(i) ELSE 0]
           g == [i \in B!FlipIds |-> B!FlipClaim(i, a)]
<1>1. P \in SUBSET B!FlipIds /\ IsFiniteSet(B!FlipIds) /\ IsFiniteSet(P)
  BY DueFlipSet, BetConstants, FS_Subset
<1>2. \A i \in P : v[i] \in Nat /\ v[i] = f[i] /\ f[i] = B!FlipPayout(i)
  BY <1>1, DueFlip
<1>3. \A i \in B!FlipIds \ P : f[i] = 0
  OBVIOUS
<1>4. \A i \in B!FlipIds : g[i] \in Nat
  BY Claims
<1>5. \A i \in P : f[i] = g[i]
  <2> SUFFICES ASSUME NEW i \in P PROVE B!FlipPayout(i) = B!FlipClaim(i, a)
    BY <1>1, <1>2
  <2>1. flips[i] # None /\ B!FlipWinner(i, heads) = a
    BY DueFlip
  <2> QED
    BY <2>1 DEF B!FlipClaim, B!Held, B!FlipWinner
<1>6. B!Won(due, heads, a) = SumFunctionOnSet(v, P)
  BY SameSumBets DEF B!Won
<1> HIDE DEF due, P, v, f, g
<1>7. \A i \in B!FlipIds : f[i] \in Nat /\ f[i] \in Int /\ g[i] \in Int /\ f[i] <= g[i]
  BY <1>1, <1>2, <1>3, <1>4, <1>5
<1>8. SumFunctionOnSet(f, B!FlipIds) = SumFunctionOnSet(f, P)
  BY <1>1, <1>3, <1>7, SumPart
<1>9. SumFunctionOnSet(v, P) = SumFunctionOnSet(f, P) /\ SumFunctionOnSet(f, P) \in Nat
  <2>1. \A i \in P : f[i] \in Int /\ v[i] = f[i] /\ f[i] \in Nat
    BY <1>2
  <2> QED
    BY <1>1, <2>1, SumEqual, SumNat
<1>10. SumFunctionOnSet(f, B!FlipIds) <= SumFunctionOnSet(g, B!FlipIds) /\ SumFunctionOnSet(g, B!FlipIds) \in Nat
  BY <1>1, <1>4, <1>7, SumAtMost, SumNat
<1> QED
  BY <1>6, <1>8, <1>9, <1>10 DEF due, g

(* An account gets back no more than it paid for tickets that wait. *)
LEMMA RefundsItsClaims ==
  ASSUME BetAssumptions, BetInv, NEW t \in Nat, NEW a \in Members
  PROVE  /\ B!Refund(B!Unsold(B!DueLots(t)), a) \in Nat
         /\ SumFunctionOnSet([i \in B!LotIds |-> B!LotClaim(i, a)], B!LotIds) \in Nat
         /\ B!Refund(B!Unsold(B!DueLots(t)), a)
            <= SumFunctionOnSet([i \in B!LotIds |-> B!LotClaim(i, a)], B!LotIds)
<1> DEFINE P == B!Unsold(B!DueLots(t))
           v == [i \in P |-> B!Refunded(i, a)]
           f == [i \in B!LotIds |-> IF i \in P THEN B!Refunded(i, a) ELSE 0]
           g == [i \in B!LotIds |-> B!LotClaim(i, a)]
<1>1. P \in SUBSET B!LotIds /\ \A i \in P : lots[i] # None /\ lots[i].status = 0
  BY DEF B!Unsold, B!DueLots, B!Held
<1>2. IsFiniteSet(B!LotIds) /\ IsFiniteSet(P)
  BY <1>1, BetConstants, FS_Subset
<1>3. \A i \in P : v[i] \in Nat /\ v[i] = f[i] /\ f[i] = g[i]
  <2> SUFFICES ASSUME NEW i \in P PROVE B!Refunded(i, a) \in Nat /\ B!Refunded(i, a) = B!LotClaim(i, a)
    BY <1>1
  <2> QED
    BY <1>1, LotRefunded DEF B!LotClaim, B!Held
<1>4. \A i \in B!LotIds \ P : f[i] = 0
  OBVIOUS
<1>5. \A i \in B!LotIds : g[i] \in Nat
  BY Claims
<1>6. B!Refund(P, a) = SumFunctionOnSet(v, P)
  BY SameSumBets DEF B!Refund
<1> HIDE DEF P, v, f, g
<1>7. \A i \in B!LotIds : f[i] \in Nat /\ f[i] \in Int /\ g[i] \in Int /\ f[i] <= g[i]
  BY <1>1, <1>3, <1>4, <1>5
<1>8. SumFunctionOnSet(f, B!LotIds) = SumFunctionOnSet(f, P)
  BY <1>1, <1>2, <1>4, <1>7, SumPart
<1>9. SumFunctionOnSet(v, P) = SumFunctionOnSet(f, P) /\ SumFunctionOnSet(f, P) \in Nat
  <2>1. \A i \in P : f[i] \in Int /\ v[i] = f[i] /\ f[i] \in Nat
    BY <1>3
  <2> QED
    BY <1>2, <2>1, SumEqual, SumNat
<1>10. SumFunctionOnSet(f, B!LotIds) <= SumFunctionOnSet(g, B!LotIds) /\ SumFunctionOnSet(g, B!LotIds) \in Nat
  BY <1>2, <1>5, <1>7, SumAtMost, SumNat
<1> QED
  BY <1>6, <1>8, <1>9, <1>10 DEF P, g

LEMMA BlockPaysPlayers ==
  ASSUME BetAssumptions, BetInv, NEW g \in BlockGaps, B!EndOfBlock(blockTime + g)
  PROVE  B!PaysOnlyPlayers
<1> DEFINE t == blockTime + g
<1>1. t \in Nat
  BY BetState, BetConstants
<1>2. PICK heads \in [B!Called(B!DueFlips(t)) -> BOOLEAN] :
         hands' = [a \in Members |-> [hands[a] EXCEPT !["cwd"] = @ + B!Won(B!DueFlips(t), heads, a)
                                                                   + B!Refund(B!Unsold(B!DueLots(t)), a)]]
  BY DEF B!EndOfBlock, B!Core
<1> HIDE DEF t
<1>3. ASSUME NEW a \in Members PROVE hands'[a]["cwd"] - hands[a]["cwd"] \in 0..B!Claim(a)
  <2> DEFINE w == B!Won(B!DueFlips(t), heads, a)
             r == B!Refund(B!Unsold(B!DueLots(t)), a)
             p == SumFunctionOnSet([i \in B!FlipIds |-> B!FlipClaim(i, a)], B!FlipIds)
             q == SumFunctionOnSet([i \in B!LotIds |-> B!LotClaim(i, a)], B!LotIds)
  <2>1. w \in Nat /\ p \in Nat /\ w <= p /\ r \in Nat /\ q \in Nat /\ r <= q
    BY <1>1, WinsItsClaims, RefundsItsClaims
  <2>2. B!Claim(a) = p + q
    BY SameSumBets DEF B!Claim
  <2>3. hands'[a]["cwd"] = hands[a]["cwd"] + w + r /\ hands[a]["cwd"] \in Nat
    BY <1>2, BetState DEF HandSets, B!Assets
  <2> HIDE DEF w, r, p, q
  <2> QED
    BY <2>1, <2>2, <2>3
<1> QED
  BY <1>3 DEF B!PaysOnlyPlayers, B!Core

LEMMA TimeStandsStill ==
  ASSUME blockTime' = blockTime
  PROVE  B!PaysOnlyPlayers
  BY DEF B!PaysOnlyPlayers

(* A step changes one lot at most, or the block ends. *)
LotKept(l, n) ==
  /\ n # None /\ l.participants = SubSeq(n.participants, 1, Len(l.participants))
  /\ l.winner # None => n.winner = l.winner
  /\ n.status >= l.status

LEMMA SameLot ==
  ASSUME BetAssumptions, NEW l \in B!Lots
  PROVE  LotKept(l, l)
<1>1. l # None /\ l.participants \in Seq(Members) /\ l.status \in Int
  BY LotFields
<1>2. SubSeq(l.participants, 1, Len(l.participants)) = l.participants
  BY <1>1
<1> QED
  BY <1>1, <1>2 DEF LotKept

LEMMA OneLotKept ==
  ASSUME BetAssumptions, BetInv, NEW i \in B!LotIds, NEW l, lots' = [lots EXCEPT ![i] = l],
         lots[i] # None => LotKept(lots[i], l)
  PROVE  B!KeepsDraws
<1>1. lots \in [B!LotIds -> B!Lots \cup {None}]
  BY BetState DEF LotsOK
<1>2. ASSUME NEW j \in B!LotIds, lots[j] # None PROVE LotKept(lots[j], lots'[j])
  <2>1. CASE j = i
    BY <1>1, <1>2, <2>1
  <2>2. CASE j # i
    BY <1>1, <1>2, <2>2, SameLot
  <2> QED
    BY <2>1, <2>2
<1> QED
  BY <1>2 DEF LotKept, B!KeepsDraws, B!Held

LEMMA NoLotChanged ==
  ASSUME BetAssumptions, BetInv, lots' = lots
  PROVE  B!KeepsDraws
<1>1. ASSUME NEW j \in B!LotIds, lots[j] # None PROVE LotKept(lots[j], lots'[j])
  BY <1>1, SameLot, BetState DEF LotsOK
<1> QED
  BY <1>1 DEF LotKept, B!KeepsDraws, B!Held

LEMMA TicketKeepsDraws ==
  ASSUME BetAssumptions, BetInv, NEW i \in B!LotIds, NEW a \in Members, B!LotteryBuyTicket(i, a)
  PROVE  B!KeepsDraws
<1> DEFINE l == lots[i]
           n == B!WithTicket(l, a)
           sold == Append(l.participants, a)
<1>1. l # None /\ l.status = 0 /\ Len(l.participants) < l.total /\ lots' = [lots EXCEPT ![i] = n]
  <2>1. lots \in [B!LotIds -> B!Lots \cup {None}]
    BY BetState DEF LotsOK
  <2> QED
    BY <2>1 DEF B!LotteryBuyTicket, B!Held
<1>2. l \in B!Lots /\ LotOK(l, blockTime)
  BY <1>1, LotAt
<1>3. /\ l.participants \in Seq(Members) /\ Len(l.participants) \in Nat /\ l.total \in Nat
      /\ SubSeq(sold, 1, Len(l.participants)) = l.participants
  BY <1>2, LotFields
<1>4. l.winner = None
  BY <1>1, <1>2 DEF LotOK
<1>5. n.participants = sold /\ n.status \in {0, 1}
  BY <1>1, <1>2 DEF B!WithTicket, B!Lots
<1>6. n # None
  <2>1. n \in B!Lots
    <3>1. blockTime \in Nat /\ l.latency \in Nat
      BY <1>2, BetState, LotFields
    <3>2. blockTime + l.latency \in Nat /\ 1 \in 0..3 /\ sold \in Seq(Members)
      BY <1>3, <3>1
    <3>3. /\ [l EXCEPT !.participants = sold, !.status = 1, !.expiration = blockTime + l.latency] \in B!Lots
          /\ [l EXCEPT !.participants = sold] \in B!Lots
      <4> HIDE DEF sold
      <4> QED
        BY <1>2, <3>2 DEF B!Lots
    <3> QED
      BY <3>3 DEF B!WithTicket
  <2> QED
    BY <2>1, LotFields
<1> HIDE DEF n
<1>7. LotKept(l, n)
  BY <1>1, <1>3, <1>4, <1>5, <1>6 DEF LotKept
<1> QED
  BY <1>1, <1>7, OneLotKept

LEMMA CreateKeepsDraws ==
  ASSUME BetAssumptions, BetInv, NEW a \in Members, NEW k, NEW p, NEW c, B!LotteryCreate(a, k, p, c)
  PROVE  B!KeepsDraws
<1> DEFINE l == [owner |-> a, total |-> k, price |-> p, latency |-> c, participants |-> << >>, winner |-> None,
                 contacts |-> FALSE, status |-> 0, expiration |-> blockTime + LotLife]
<1>1. betIds.lot \in B!LotIds /\ lots' = [lots EXCEPT ![betIds.lot] = l]
  BY DEF B!LotteryCreate
<1>2. lots[betIds.lot] = None
  BY <1>1, BetState DEF LotsOK
<1> HIDE DEF l
<1> QED
  BY <1>1, <1>2, OneLotKept

(* send_contacts and confirm_delivery change a lot that was drawn. *)
LEMMA DrawnKept ==
  ASSUME BetAssumptions, BetInv, NEW i \in B!LotIds, NEW a \in Members,
         B!LotterySendContacts(i, a) \/ B!LotteryConfirmDelivery(i, a)
  PROVE  B!KeepsDraws
<1> DEFINE l == lots[i]
<1>1. l # None
  BY DEF B!LotterySendContacts, B!LotteryConfirmDelivery, B!Held
<1>2. lots \in [B!LotIds -> B!Lots \cup {None}] /\ l \in B!Lots /\ LotKept(l, l) /\ l.status \in 0..3
  BY <1>1, LotAt, LotFields, SameLot
<1>3. CASE B!LotterySendContacts(i, a)
  <2> DEFINE n == [l EXCEPT !.contacts = TRUE]
  <2>1. lots' = [lots EXCEPT ![i] = n]
    BY <1>2, <1>3 DEF B!LotterySendContacts, B!Lots
  <2>2. n \in B!Lots /\ n.participants = l.participants /\ n.winner = l.winner /\ n.status = l.status
    BY <1>2 DEF B!Lots
  <2> HIDE DEF n
  <2>3. LotKept(l, n)
    BY <1>2, <2>2, LotFields DEF LotKept
  <2> QED
    BY <2>1, <2>3, OneLotKept
<1>4. CASE B!LotteryConfirmDelivery(i, a)
  <2> DEFINE n == [l EXCEPT !.status = 3]
  <2>1. lots' = [lots EXCEPT ![i] = n]
    BY <1>2, <1>4 DEF B!LotteryConfirmDelivery, B!Lots
  <2>2. n \in B!Lots /\ n.participants = l.participants /\ n.winner = l.winner /\ n.status = 3
    BY <1>2 DEF B!Lots
  <2> HIDE DEF n
  <2>3. LotKept(l, n)
    BY <1>2, <2>2, LotFields DEF LotKept
  <2> QED
    BY <2>1, <2>3, OneLotKept
<1> QED
  BY <1>3, <1>4

LEMMA BlockKeepsDraws ==
  ASSUME BetAssumptions, BetInv, NEW g \in BlockGaps, B!EndOfBlock(blockTime + g)
  PROVE  B!KeepsDraws
<1> DEFINE t == blockTime + g
<1>1. t \in Nat /\ t >= blockTime
  BY BetState, BetConstants
<1>2. PICK draw \in [B!DueLots(t) -> 0..TotalParticipants] : lots' = LotsAfter(t, draw)
  BY DEF B!EndOfBlock, LotsAfter
<1> HIDE DEF t
<1>3. ASSUME NEW i \in B!LotIds, lots[i] # None
      PROVE  (lots'[i] = None /\ lots[i].status = 0) \/ LotKept(lots[i], lots'[i])
  <2> DEFINE n == lots'[i]
  <2>1. /\ i \in B!Unsold(B!DueLots(t)) => n = None /\ lots[i].status = 0
        /\ i \notin B!Unsold(B!DueLots(t)) => n # None
        /\ n # None => /\ n.participants = lots[i].participants /\ n.status >= lots[i].status
                       /\ lots[i].winner # None => n.winner = lots[i].winner
    BY <1>1, <1>2, <1>3, LotAfter
  <2>2. lots[i] \in B!Lots
    BY <1>3, LotAt
  <2>3. lots[i].participants = SubSeq(lots[i].participants, 1, Len(lots[i].participants))
    BY <2>2, SameLot DEF LotKept
  <2> HIDE DEF n
  <2>4. CASE n = None
    BY <2>1, <2>4 DEF n
  <2>5. CASE n # None
    BY <2>1, <2>3, <2>5 DEF n, LotKept
  <2> QED
    BY <2>4, <2>5
<1> QED
  BY <1>3 DEF B!KeepsDraws, B!Held, LotKept

LEMMA BetSteps ==
  ASSUME BetAssumptions, BetInv, [B!Next]_(B!vars)
  PROVE  [B!PaysOnlyPlayers]_(B!vars) /\ [B!KeepsDraws]_(B!vars)
<1>1. CASE UNCHANGED B!vars
  BY <1>1
<1>2. ASSUME NEW a \in Members, NEW n \in BetSizes, B!FlipcoinBet(a, n)
      PROVE  B!PaysOnlyPlayers /\ B!KeepsDraws
  <2>1. blockTime' = blockTime /\ lots' = lots
    BY <1>2 DEF B!FlipcoinBet
  <2> QED
    BY <2>1, TimeStandsStill, NoLotChanged
<1>3. ASSUME NEW i \in B!FlipIds, NEW a \in Members, NEW x \in CallAssets, B!FlipcoinCall(i, a, x)
      PROVE  B!PaysOnlyPlayers /\ B!KeepsDraws
  <2>1. blockTime' = blockTime /\ lots' = lots
    BY <1>3 DEF B!FlipcoinCall
  <2> QED
    BY <2>1, TimeStandsStill, NoLotChanged
<1>4. ASSUME NEW a \in Members, NEW k \in 1..TotalParticipants, NEW p \in Prices, NEW c \in Latencies,
             B!LotteryCreate(a, k, p, c)
      PROVE  B!PaysOnlyPlayers /\ B!KeepsDraws
  <2>1. blockTime' = blockTime
    BY <1>4 DEF B!LotteryCreate
  <2> QED
    BY <1>4, <2>1, TimeStandsStill, CreateKeepsDraws
<1>5. ASSUME NEW i \in B!LotIds, NEW a \in Members, B!LotteryBuyTicket(i, a)
      PROVE  B!PaysOnlyPlayers /\ B!KeepsDraws
  <2>1. blockTime' = blockTime
    BY <1>5 DEF B!LotteryBuyTicket
  <2> QED
    BY <1>5, <2>1, TimeStandsStill, TicketKeepsDraws
<1>6. ASSUME NEW i \in B!LotIds, NEW a \in Members, B!LotterySendContacts(i, a) \/ B!LotteryConfirmDelivery(i, a)
      PROVE  B!PaysOnlyPlayers /\ B!KeepsDraws
  <2>1. blockTime' = blockTime
    BY <1>6 DEF B!LotterySendContacts, B!LotteryConfirmDelivery
  <2> QED
    BY <1>6, <2>1, TimeStandsStill, DrawnKept
<1>7. ASSUME NEW g \in BlockGaps, B!EndOfBlock(blockTime + g)
      PROVE  B!PaysOnlyPlayers /\ B!KeepsDraws
  BY <1>7, BlockPaysPlayers, BlockKeepsDraws
<1>8. CASE B!Next
  <2>1. B!PaysOnlyPlayers /\ B!KeepsDraws
    BY <1>2, <1>3, <1>4, <1>5, <1>6, <1>7, <1>8 DEF B!Next
  <2> QED
    BY <2>1
<1> QED
  BY <1>1, <1>8

-----------------------------------------------------------------------------
(* Bets and lots have the fields that gamezone_object.hpp gives them, and  *)
(* no balance is negative.                                                 *)
THEOREM BetTypes ==
  ASSUME BetAssumptions
  PROVE  B!Spec => []B!TypeOK
<1>1. BetInv => B!TypeOK
  BY DEF BetInv, BetShape
<1> QED
  BY <1>1, BetAlways, PTL

(* What was staked or paid for tickets is in a bet, in a lot, in the fees  *)
(* or with an account, but for at most a unit for every coin flipped       *)
(* (count_prize, count_referral_prize) and for what calls in another asset *)
(* turned into core asset (flipcoin_call_evaluator).                       *)
THEOREM BetFunds ==
  ASSUME BetAssumptions
  PROVE  B!Spec => []B!FundsConserved
<1>1. BetInv => B!FundsConserved
  BY BetsAddUp
<1> QED
  BY <1>1, BetAlways, PTL

(* A lot is drawn when, and only when, its tickets are sold, and its       *)
(* winner holds one of them (proceed_lottery_goods).                       *)
THEOREM LotsFair ==
  ASSUME BetAssumptions
  PROVE  B!Spec => []B!LotsDrawnFairly
<1>1. BetInv => B!LotsDrawnFairly
  <2> SUFFICES ASSUME BetInv, NEW i \in B!LotIds, lots[i] # None
               PROVE  /\ LotOK(lots[i], blockTime)
                      /\ lots[i].winner # None => lots[i].winner \in B!Range(lots[i].participants)
    BY DEF B!LotsDrawnFairly, B!Held, LotOK
  <2>1. LotOK(lots[i], blockTime) /\ lots[i] \in B!Lots
    BY LotAt
  <2>2. DOMAIN lots[i].participants = 1..Len(lots[i].participants)
    BY <2>1, LotFields
  <2> QED
    BY <2>1, <2>2 DEF LotOK, B!Range
<1> QED
  BY <1>1, BetAlways, PTL

(* The end of a block leaves no bet and no lot whose time is over, if a    *)
(* lot lives at least as long as proceed_lottery_goods looks ahead.        *)
THEOREM BetsSettled ==
  ASSUME BetAssumptions
  PROVE  B!Spec => []B!NothingOverdue
<1>1. BetInv => B!NothingOverdue
  BY BetState DEF BetsOK, LotsOK, FlipOK, LotOK, B!NothingOverdue, B!Held
<1> QED
  BY <1>1, BetAlways, PTL

(* The end of a block pays an account no more than its bets and its        *)
(* tickets can pay, and takes nothing (proceed_bets,                       *)
(* proceed_lottery_goods).                                                 *)
THEOREM PaysPlayers ==
  ASSUME BetAssumptions
  PROVE  B!Spec => [][B!PaysOnlyPlayers]_(B!vars)
<1>1. BetInv /\ [B!Next]_(B!vars) => [B!PaysOnlyPlayers]_(B!vars)
  BY BetSteps
<1> QED
  BY <1>1, BetAlways, PTL DEF B!Spec

(* No step takes a ticket back, changes a winner or returns a lot to an    *)
(* earlier status; only a lot that did not sell is removed.                *)
THEOREM DrawsKept ==
  ASSUME BetAssumptions
  PROVE  B!Spec => [][B!KeepsDraws]_(B!vars)
<1>1. BetInv /\ [B!Next]_(B!vars) => [B!KeepsDraws]_(B!vars)
  BY BetSteps
<1> QED
  BY <1>1, BetAlways, PTL DEF B!Spec
=============================================================================
