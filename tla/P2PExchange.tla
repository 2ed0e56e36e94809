----------------------------- MODULE P2PExchange ----------------------------
(***************************************************************************)
(* The escrow exchange (chain/exchange_evaluator.cpp and                   *)
(* auto_cancel_p2p_orders in chain/db_update.cpp), with the rules in force *)
(* since the hardforks CWD3 and CWD4.                                      *)
(*                                                                         *)
(* A gateway advertises; a client opens an order on the advert.  If the    *)
(* gateway sells (order_type TRUE), the order starts at status 1 and the   *)
(* gateway's call puts its CWD in escrow; if the gateway buys, the         *)
(* client's CWD goes in escrow at once.  Then (status 2) the buyer says    *)
(* that it has paid (3), and the seller releases the escrow, or one of     *)
(* them opens a dispute (4), which the other may answer (5) and an         *)
(* arbitrator resolves.  Orders of status 1 and 2 have deadlines, which    *)
(* the end of every block enforces.                                        *)
(*                                                                         *)
(* Operations run inside a block at the time of the block before it;       *)
(* EndOfBlock moves the time on and then cancels, as _apply_block does.    *)
(***************************************************************************)
EXTENDS Naturals, FiniteSets, Functions

CONSTANTS
    Accounts,        \* accounts
    Arbitrators,     \* whitelisted by account 1.2.3334
    StatusOf,        \* StatusOf[a]: referral_status_type, not expired
    Terms,           \* what an advert can say: see Adverts
    Amounts,         \* amounts of orders
    Balances,        \* the initial balances
    BanTime,         \* first_ban_time, 12 hours
    Commission,      \* ch_parameters_arbitr_comission, in percent
    TimeWidth,       \* 2^32: a time_point_sec holds a uint32_t
    MaxTime,         \* bound: the last block time
    MaxAdverts,      \* bound: adverts
    MaxOrders,       \* bound: orders ever created
    None             \* no object

ASSUME AccountAssumption ==
    /\ IsFiniteSet(Accounts)
    /\ Arbitrators \subseteq Accounts
    /\ StatusOf \in [Accounts -> 0..4]
    /\ Balances \in [Accounts -> Nat]
ASSUME AmountAssumption == Amounts \subseteq Nat /\ Commission \in 0..100
ASSUME TermsAssumption ==
    \A t \in Terms :
        /\ t.adv_type \in BOOLEAN
        /\ t.timelimit_for_approve \in Nat
        /\ t.timelimit_for_reply \in Nat
ASSUME TimeAssumption ==
    /\ BanTime \in Nat /\ TimeWidth \in Nat /\ MaxTime \in Nat \ {0}
    /\ MaxTime < TimeWidth /\ MaxTime + BanTime < TimeWidth
ASSUME BoundAssumption == MaxAdverts \in Nat /\ MaxOrders \in Nat

VARIABLES
    advs,       \* p2p_adv objects, by id
    orders,     \* p2p_order objects, by id; None once removed or not yet created
    next,       \* the next order id
    balance,    \* CWD balances
    stats,      \* p2p statistics of every account
    now         \* head_block_time()

vars == <<advs, orders, next, balance, stats, now>>

(* The accounts whose status lets them advertise. *)
Gateways == {a \in Accounts : StatusOf[a] = 4}

AdvIds   == 1..MaxAdverts
OrderIds == 1..MaxOrders

Adverts == [p2p_gateway : Gateways, terms : Terms, status : 0..1, black_list : SUBSET Accounts]

Orders ==
    [p2p_adv : AdvIds, order_type : BOOLEAN, amount : Amounts,
     p2p_gateway : Accounts, p2p_client : Accounts, status : 1..5,
     time_for_approve : Nat, time_for_reply : Nat, arbitrage_initiator : Accounts \cup {None},
     limit : Nat, since : 0..MaxTime]   \* limit, since: history of the running deadline

ASSUME NoneAssumption == None \notin Adverts /\ None \notin Orders

Stats == [complete : Nat, canceled : Nat, loose : Nat, banned : Nat]

Init ==
    /\ advs = [i \in AdvIds |-> None]
    /\ orders = [i \in OrderIds |-> None]
    /\ next = 1
    /\ balance = Balances
    /\ stats = [a \in Accounts |-> [complete |-> 0, canceled |-> 0, loose |-> 0, banned |-> 0]]
    /\ now = 1

Open == {i \in OrderIds : orders[i] # None}

(* time_point_sec + uint32_t *)
Later(t, seconds) == (t + seconds) % TimeWidth

(* cut_fee_exchange *)
CutFee(amount) == (amount * Commission) \div 100

(* How many orders a client may have open. *)
MaxOpen(a) == StatusOf[a] + 1

-----------------------------------------------------------------------------
(* Adverts *)

CreateAdv(i, g, terms) ==
    /\ advs[i] = None
    /\ \A j \in AdvIds : j < i => advs[j] # None
    /\ advs' = [advs EXCEPT ![i] = [p2p_gateway |-> g, terms |-> terms, status |-> 1,
                                    black_list |-> {}]]
    /\ UNCHANGED <<orders, next, balance, stats, now>>

EditAdv(i, terms, status) ==
    /\ advs[i] # None
    /\ advs' = [advs EXCEPT ![i].terms = terms, ![i].status = status]
    /\ UNCHANGED <<orders, next, balance, stats, now>>

ClearBlackList(i) ==
    /\ advs[i] # None
    /\ advs' = [advs EXCEPT ![i].black_list = {}]
    /\ UNCHANGED <<orders, next, balance, stats, now>>

RemoveFromBlackList(i, a) ==
    /\ advs[i] # None
    /\ advs' = [advs EXCEPT ![i].black_list = @ \ {a}]
    /\ UNCHANGED <<orders, next, balance, stats, now>>

-----------------------------------------------------------------------------
(* Orders *)

CanOrder(adv, client, amount) ==
    LET terms == adv.terms
        payer == IF terms.adv_type THEN adv.p2p_gateway ELSE client
    IN  /\ client # adv.p2p_gateway
        /\ stats[client].banned < now
        /\ ~\E k \in Open : orders[k].p2p_client = client
                            /\ orders[k].p2p_gateway = adv.p2p_gateway
        /\ Cardinality({k \in Open : orders[k].p2p_client = client}) < MaxOpen(client)
        /\ adv.status = 1
        /\ balance[payer] >= amount
        /\ StatusOf[client] >= terms.min_account_status
        /\ stats[client].complete >= terms.min_p2p_complete_deals
        /\ terms.min_cwd <= amount /\ amount <= terms.max_cwd
        /\ client \notin adv.black_list

CreateOrder(i, client, amount) ==
    LET adv    == advs[i]
        sells  == adv.terms.adv_type
        limit  == IF sells THEN adv.terms.timelimit_for_approve
                           ELSE adv.terms.timelimit_for_reply
    IN  /\ next \in OrderIds
        /\ adv # None
        /\ CanOrder(adv, client, amount)
        /\ orders' = [orders EXCEPT ![next] =
              [p2p_adv |-> i, order_type |-> sells, amount |-> amount,
               p2p_gateway |-> adv.p2p_gateway, p2p_client |-> client,
               status |-> IF sells THEN 1 ELSE 2,
               time_for_approve |-> IF sells THEN Later(now, limit) ELSE 0,
               time_for_reply |-> IF sells THEN 0 ELSE Later(now, limit),
               arbitrage_initiator |-> None, limit |-> limit, since |-> now]]
        /\ next' = next + 1
        /\ balance' = IF sells THEN balance ELSE [balance EXCEPT ![client] = @ - amount]
        /\ UNCHANGED <<advs, stats, now>>

(* Mutant: the escrow is given back but the order stays. *)
CancelOrderKept(k, blacklist) ==
    LET o == orders[k]
    IN  /\ o # None
        /\ o.status = IF o.order_type THEN 1 ELSE 2
        /\ stats' = [stats EXCEPT ![o.p2p_gateway].canceled = @ + 1]
        /\ balance' = IF o.order_type THEN balance
                      ELSE [balance EXCEPT ![o.p2p_client] = @ + o.amount]
        /\ UNCHANGED <<advs, orders, next, now>>

(* Only the gateway cancels, and only before anything was paid. *)
CancelOrder(k, blacklist) ==
    LET o == orders[k]
    IN  /\ o # None
        /\ o.status = IF o.order_type THEN 1 ELSE 2
        /\ advs' = IF blacklist
                   THEN [advs EXCEPT ![o.p2p_adv].black_list = @ \cup {o.p2p_client}]
                   ELSE advs
        /\ stats' = [stats EXCEPT ![o.p2p_gateway].canceled = @ + 1]
        /\ balance' = IF o.order_type THEN balance
                      ELSE [balance EXCEPT ![o.p2p_client] = @ + o.amount]
        /\ orders' = [orders EXCEPT ![k] = None]
        /\ UNCHANGED <<next, now>>

(* Mutant: the gateway's balance is not checked. *)
CallOrderUnchecked(k) ==
    LET o == orders[k]
    IN  /\ o # None /\ o.order_type /\ o.status = 1
        /\ orders' = [orders EXCEPT ![k].status = 2, ![k].since = now]
        /\ balance' = [balance EXCEPT ![o.p2p_gateway] = @ - o.amount]
        /\ UNCHANGED <<advs, next, stats, now>>

(* Mutant: the time for the payment is not set. *)
CallOrderNoDeadline(k) ==
    LET o == orders[k]
    IN  /\ o # None /\ o.order_type /\ o.status = 1 /\ balance[o.p2p_gateway] >= o.amount
        /\ orders' = [orders EXCEPT ![k].status = 2, ![k].time_for_approve = 0, ![k].since = now]
        /\ balance' = [balance EXCEPT ![o.p2p_gateway] = @ - o.amount]
        /\ UNCHANGED <<advs, next, stats, now>>

(* The selling gateway accepts: its CWD goes in escrow. *)
CallOrder(k) ==
    LET o     == orders[k]
        limit == advs[o.p2p_adv].terms.timelimit_for_reply
    IN  /\ o # None
        /\ o.order_type
        /\ o.status = 1
        /\ balance[o.p2p_gateway] >= o.amount
        /\ orders' = [orders EXCEPT ![k].status = 2, ![k].time_for_approve = 0,
                                    ![k].time_for_reply = Later(now, limit),
                                    ![k].limit = limit, ![k].since = now]
        /\ balance' = [balance EXCEPT ![o.p2p_gateway] = @ - o.amount]
        /\ UNCHANGED <<advs, next, stats, now>>

(* The buyer says that it has paid; no deadline is checked here. *)
PayOrder(k) ==
    /\ orders[k] # None
    /\ orders[k].status = 2
    /\ orders' = [orders EXCEPT ![k].status = 3, ![k].time_for_reply = 0]
    /\ UNCHANGED <<advs, next, balance, stats, now>>

Buyer(o)  == IF o.order_type THEN o.p2p_client ELSE o.p2p_gateway
Seller(o) == IF o.order_type THEN o.p2p_gateway ELSE o.p2p_client

(* A deal more in the statistics of this account. *)
Complete(st, a) == [st EXCEPT ![a].complete = @ + 1]

(* The seller gives the escrow to the buyer. *)
ReleaseOrder(k) ==
    LET o == orders[k]
    IN  /\ o # None
        /\ o.status >= 2
        /\ balance' = [balance EXCEPT ![Buyer(o)] = @ + o.amount]
        /\ stats' = Complete(Complete(stats, o.p2p_gateway), o.p2p_client)
        /\ orders' = [orders EXCEPT ![k] = None]
        /\ UNCHANGED <<advs, next, now>>

OpenDispute(k, a) ==
    /\ orders[k] # None
    /\ orders[k].status = 3
    /\ a \in {orders[k].p2p_gateway, orders[k].p2p_client}
    /\ orders' = [orders EXCEPT ![k].status = 4, ![k].arbitrage_initiator = a]
    /\ UNCHANGED <<advs, next, balance, stats, now>>

ReplyDispute(k, a) ==
    /\ orders[k] # None
    /\ orders[k].status = 4
    /\ a \in {orders[k].p2p_gateway, orders[k].p2p_client}
    /\ a # orders[k].arbitrage_initiator
    /\ orders' = [orders EXCEPT ![k].status = 5]
    /\ UNCHANGED <<advs, next, balance, stats, now>>

(* adjust_balance with a positive amount *)
Add(b, a, amount) == [b EXCEPT ![a] = @ + amount]

(* Mutant: the winner gets the whole amount, the arbitrator its commission. *)
ResolveDisputeUncut(k, winner, arbitr) ==
    LET o == orders[k]
    IN  /\ o # None
        /\ o.status \in {4, 5}
        /\ winner \in {o.p2p_gateway, o.p2p_client}
        /\ balance' = Add(Add(balance, arbitr, CutFee(o.amount)), winner, o.amount)
        /\ orders' = [orders EXCEPT ![k] = None]
        /\ UNCHANGED <<advs, next, stats, now>>

(* The winner gets the escrow less the arbitrator's commission. *)
ResolveDispute(k, winner, arbitr) ==
    LET o      == orders[k]
        looser == IF winner = o.p2p_gateway THEN o.p2p_client ELSE o.p2p_gateway
        cut    == CutFee(o.amount)
    IN  /\ o # None
        /\ o.status \in {4, 5}
        /\ winner \in {o.p2p_gateway, o.p2p_client}
        /\ balance' = Add(Add(balance, arbitr, cut), winner, o.amount - cut)
        /\ stats' = [Complete(stats, winner) EXCEPT ![looser].loose = @ + 1]
        /\ orders' = [orders EXCEPT ![k] = None]
        /\ UNCHANGED <<advs, next, now>>

-----------------------------------------------------------------------------
(* Mutant: paid orders, whose reply time is cleared, are looked at too. *)
LatePaid(o, time) ==
    \/ o.status = 1 /\ o.time_for_approve < time
    \/ o.status >= 2 /\ o.time_for_reply < time

(* Mutant: orders waiting for the payment are not looked at. *)
LateApprovalOnly(o, time) == o.status = 1 /\ o.time_for_approve < time

(* auto_cancel_p2p_orders: which orders a block at this time drops. *)
Late(o, time) ==
    \/ o.status = 1 /\ o.time_for_approve < time
    \/ o.status = 2 /\ o.time_for_reply < time

(* Who kept the other waiting. *)
Blamed(o) == IF o.status = 2 /\ o.order_type THEN o.p2p_client ELSE o.p2p_gateway

(* The expired orders are dropped; the escrow of those of status 2 goes back *)
(* to the seller, and a client that did not pay is banned for a while.       *)
AutoCancel(time) ==
    LET gone == {k \in Open : Late(orders[k], time)}
        refunds(a) == {k \in gone : orders[k].status = 2 /\ Seller(orders[k]) = a}
        faults(a)  == {k \in gone : Blamed(orders[k]) = a}
        banned(a)  == \E k \in faults(a) : orders[k].status = 2 /\ orders[k].order_type
    IN  /\ orders' = [k \in OrderIds |-> IF k \in gone THEN None ELSE orders[k]]
        /\ balance' = [a \in Accounts |->
                          balance[a]
                              + SumFunctionOnSet([k \in gone |-> orders[k].amount], refunds(a))]
        /\ stats' = [a \in Accounts |->
                        [stats[a] EXCEPT !.canceled = @ + Cardinality(faults(a)),
                                         !.banned = IF banned(a) THEN time + BanTime ELSE @]]

EndOfBlock ==
    /\ now < MaxTime
    /\ now' = now + 1
    /\ AutoCancel(now + 1)
    /\ UNCHANGED <<advs, next>>

Next ==
    \/ \E i \in AdvIds, g \in Gateways, t \in Terms : CreateAdv(i, g, t)
    \/ \E i \in AdvIds, t \in Terms, s \in 0..1 : EditAdv(i, t, s)
    \/ \E i \in AdvIds : ClearBlackList(i)
    \/ \E i \in AdvIds, a \in Accounts : RemoveFromBlackList(i, a)
    \/ \E i \in AdvIds, a \in Accounts, x \in Amounts : CreateOrder(i, a, x)
    \/ \E k \in OrderIds, b \in BOOLEAN : CancelOrder(k, b)
    \/ \E k \in OrderIds : CallOrder(k)
    \/ \E k \in OrderIds : PayOrder(k)
    \/ \E k \in OrderIds : ReleaseOrder(k)
    \/ \E k \in OrderIds, a \in Accounts : OpenDispute(k, a)
    \/ \E k \in OrderIds, a \in Accounts : ReplyDispute(k, a)
    \/ \E k \in OrderIds, w \in Accounts, a \in Arbitrators : ResolveDispute(k, w, a)
    \/ EndOfBlock

Spec == Init /\ [][Next]_vars

(* Witnesses keep producing blocks. *)
LiveSpec == Spec /\ WF_vars(EndOfBlock)

-----------------------------------------------------------------------------
(* The type invariant. *)
TypeOK ==
    /\ advs \in [AdvIds -> Adverts \cup {None}]
    /\ orders \in [OrderIds -> Orders \cup {None}]
    /\ next \in 1..(MaxOrders + 1)
    /\ balance \in [Accounts -> Nat]
    /\ stats \in [Accounts -> Stats]
    /\ now \in 1..MaxTime

(* What an order holds in escrow. *)
Escrow(o) == IF o = None \/ (o.order_type /\ o.status = 1) THEN 0 ELSE o.amount

(* No CWD is made or lost: balances and escrows always add up to what there *)
(* was at the start, through calls, refunds, releases and arbitration.      *)
FundsConserved ==
    SumFunction(balance) + SumFunction([k \in OrderIds |-> Escrow(orders[k])])
    = SumFunction(Balances)

(* Every order created is open or was settled in exactly one way, and the   *)
(* statistics say which: a release completes a deal for both sides, a       *)
(* resolved dispute for one, a cancellation of any kind blames one.         *)
EveryOrderSettledOnce ==
    LET complete == SumFunction([a \in Accounts |-> stats[a].complete])
        canceled == SumFunction([a \in Accounts |-> stats[a].canceled])
        loose    == SumFunction([a \in Accounts |-> stats[a].loose])
    IN  2 * (next - 1) = 2 * Cardinality(Open) + 2 * canceled + loose + complete

(* An order is dropped by the clock only when the time limit it was opened  *)
(* or called with has passed, whatever became of the advert since, unless   *)
(* the limit runs past the last time a time_point_sec can hold.             *)
NotCanceledEarly ==
    [][\A k \in Open :
          orders'[k] = None /\ now' # now =>
              LET o == orders[k]
              IN  o.since + o.limit < now' \/ o.since + o.limit >= TimeWidth]_vars

(* Once the buyer has said that it paid, the clock never gives the escrow   *)
(* back to the seller: the order ends by release or arbitration.            *)
PaidOrderOutlivesClock ==
    [][\A k \in Open : orders[k].status >= 3 /\ orders'[k] = None => now' = now]_vars

(* The order waits for one side, and its time ends before the last block.   *)
Waiting(k) ==
    /\ k \in Open
    /\ \/ orders[k].status = 1 /\ orders[k].time_for_approve < MaxTime
       \/ orders[k].status = 2 /\ orders[k].time_for_reply < MaxTime

(* Once a block is over, no order is past its deadline; and blocks go on,   *)
(* so every order is called and paid, settled or dropped in time.           *)
DeadlinesEnforced ==
    \A k \in OrderIds : (Waiting(k) /\ now < MaxTime) ~> ~Waiting(k)
=============================================================================
