------------------------------ MODULE Proposals -----------------------------
(***************************************************************************)
(* Proposed transactions.  A proposal collects approvals and is executed   *)
(* by the update that completes them, in an undo session of its own; when  *)
(* it fails it stays, and is tried once more at its expiration.  One of    *)
(* its operations may approve, retract from or delete an older proposal,   *)
(* so executions nest.                                                     *)
(*                                                                         *)
(* The state of the database and the secondary index of the accounts that  *)
(* have to approve are kept apart: an undo restores the former, the latter *)
(* only hears of objects that are inserted and removed.  Transactions are  *)
(* applied in a block, or in a pending session that is undone before the   *)
(* next one.  Approvals are those of accounts; an account that approves    *)
(* stands for every account whose authority it satisfies.  Keys, owner     *)
(* authorities and proposals made by proposals are left out.               *)
(***************************************************************************)
EXTENDS Integers, Sequences, FiniteSetsExt, SequencesExt

CONSTANTS
    Accounts,
    Quorums,          \* for each account, the sets of accounts that act for it
    Balances,
    Signers,          \* the accounts that sign transactions of their own
    Transactions,     \* the proposed transactions, sequences of operations
    Lifetimes,        \* times until expiration
    MaxLifetime,      \* maximum_proposal_lifetime
    MaxNesting,       \* twice the number of active witnesses
    PendingTimes,     \* bound: times at which transactions are pending
    MaxDeposits,      \* bound: deposits of one unit
    MaxProposals,     \* bound: proposals ever created
    MaxTime           \* bound: the time of the last block

VARIABLES
    db,               \* proposals by id, next id, balances, deposits, what was paid
    index,            \* required_approval_index: pairs of an account and an id
    saved,            \* the database before the pending session (empty: no session)
    now               \* head_block_time

vars == <<db, index, saved, now>>

Init ==
    /\ db = [proposals |-> <<>>, balance |-> Balances, got |-> [a \in Accounts |-> 0], paid |-> 0]
    /\ index = {}
    /\ saved = <<>>
    /\ now = 1

Ids(d)  == DOMAIN d.proposals
Live(d) == {i \in Ids(d) : d.proposals[i].live}

(* Who has to approve. *)
Required(p) == {p.tx[k].by : k \in DOMAIN p.tx}

IsAuthorizedToExecute(p) ==
    \A a \in Required(p) : a \in p.approvals \/ \E q \in Quorums[a] : q \subseteq p.approvals

-----------------------------------------------------------------------------
(* Objects: s is a database with its index. *)

Parties(p, i) == (Required(p) \cup p.approvals) \X {i}

Removed(s, i) ==
    [s EXCEPT !.d.proposals[i].live = FALSE, !.index = @ \ Parties(s.d.proposals[i], i)]

(* What is new is removed, and what was removed is inserted as it was. *)
Undone(s, old) ==
    LET new  == Live(s.d) \ Live(old)
        gone == Live(old) \ Live(s.d)
    IN  [d |-> old,
         index |-> (s.index \ UNION {Parties(s.d.proposals[i], i) : i \in new})
                      \cup UNION {Parties(old.proposals[i], i) : i \in gone}]

-----------------------------------------------------------------------------
(* Operations.  The result of one is its state and whether it succeeded.   *)

RECURSIVE ApplyOperation(_, _, _)

(* remove(proposal) comes after the operations and before the merge. *)
PushProposal(s, i, depth) ==
    LET p     == s.d.proposals[i]
        apply(r, op) ==
            LET next == ApplyOperation(r.s, op, depth + 1)
            IN  IF ~r.ok THEN r
                ELSE IF ~next.ok THEN next
                ELSE [next EXCEPT !.s.d.proposals[i].applied = @ + 1]
        result == FoldLeft(apply, [s |-> s, ok |-> TRUE], p.tx)
    IN  IF depth >= MaxNesting THEN [s |-> s, ok |-> FALSE]
        ELSE IF result.ok THEN [s |-> Removed(result.s, i), ok |-> TRUE]
        ELSE [s |-> Undone(result.s, s.d), ok |-> FALSE]

(* A proposal that fails leaves the update that executed it valid. *)
Approve(s, i, approvals, depth) ==
    LET t == [s EXCEPT !.d.proposals[i].approvals = approvals]
    IN  IF IsAuthorizedToExecute(t.d.proposals[i]) THEN PushProposal(t, i, depth).s ELSE t

ApplyOperation(s, op, depth) ==
    LET p == s.d.proposals[op.id]
    IN  CASE op.kind = "transfer" ->
               [s  |-> [s EXCEPT !.d.balance[op.by] = @ - op.amount, !.d.paid = @ + op.amount],
                ok |-> s.d.balance[op.by] >= op.amount]
          [] op.kind # "transfer" /\ op.id \notin Live(s.d) -> [s |-> s, ok |-> FALSE]
          [] op.kind = "approve" /\ op.id \in Live(s.d) ->
               [s |-> Approve(s, op.id, p.approvals \cup {op.by}, depth), ok |-> TRUE]
          [] op.kind = "retract" /\ op.id \in Live(s.d) ->
               IF op.by \in p.approvals
               THEN [s |-> Approve(s, op.id, p.approvals \ {op.by}, depth), ok |-> TRUE]
               ELSE [s |-> s, ok |-> FALSE]
          [] op.kind = "delete" /\ op.id \in Live(s.d) ->
               IF op.by \in Required(p) THEN [s |-> Removed(s, op.id), ok |-> TRUE]
               ELSE [s |-> s, ok |-> FALSE]

-----------------------------------------------------------------------------
(* Transactions *)

(* An id that a proposed operation names has to exist already. *)
NamesOlder(tx, i) == \A k \in DOMAIN tx : tx[k].kind # "transfer" => tx[k].id < i

ProposalCreate(tx, lifetime) ==
    LET i == Len(db.proposals) + 1
        p == [tx |-> tx, expires |-> now + lifetime, approvals |-> {}, live |-> TRUE, applied |-> 0]
    IN  /\ i <= MaxProposals
        /\ lifetime \in 1..MaxLifetime
        /\ NamesOlder(tx, i)
        /\ db' = [db EXCEPT !.proposals = Append(@, p)]
        /\ index' = index \cup Parties(p, i)
        /\ UNCHANGED <<saved, now>>

(* An update or a deletion that its account signs. *)
PushTransaction(op) ==
    LET result == ApplyOperation([d |-> db, index |-> index], op, 0)
    IN  /\ result.ok
        /\ db' = result.s.d
        /\ index' = result.s.index
        /\ UNCHANGED <<saved, now>>

(* Any operation that adds to an account, after which a transaction that   *)
(* failed may succeed.                                                     *)
Deposit(a) ==
    /\ MapThenSumSet(LAMBDA b : db.got[b], Accounts) < MaxDeposits
    /\ db' = [db EXCEPT !.balance[a] = @ + 1, !.got[a] = @ + 1]
    /\ UNCHANGED <<index, saved, now>>

StartPending ==
    /\ saved = <<>> /\ now \in PendingTimes
    /\ saved' = <<db>>
    /\ UNCHANGED <<db, index, now>>

ClearPending ==
    /\ saved # <<>>
    /\ LET s == Undone([d |-> db, index |-> index], saved[1])
       IN  db' = s.d /\ index' = s.index
    /\ saved' = <<>>
    /\ UNCHANGED now

-----------------------------------------------------------------------------
(* The end of a block: the proposals that expire, the oldest expiration    *)
(* first.  An execution may end others too.                                *)

RECURSIVE ClearExpired(_, _)

ClearExpired(s, t) ==
    LET due    == {i \in Live(s.d) : s.d.proposals[i].expires <= t}
        first  == CHOOSE i \in due : \A j \in due :
                     \/ s.d.proposals[i].expires < s.d.proposals[j].expires
                     \/ s.d.proposals[i].expires = s.d.proposals[j].expires /\ i <= j
        result == PushProposal(s, first, 0)
        kept   == IF IsAuthorizedToExecute(s.d.proposals[first]) THEN result.s ELSE s
    IN  IF due = {} THEN s
        ELSE IF first \in Live(kept.d) THEN ClearExpired(Removed(kept, first), t)
        ELSE ClearExpired(kept, t)

Block ==
    LET s == ClearExpired([d |-> db, index |-> index], now + 1)
    IN  /\ saved = <<>>
        /\ now < MaxTime
        /\ now' = now + 1
        /\ db' = s.d
        /\ index' = s.index
        /\ UNCHANGED saved

Next ==
    \/ \E tx \in Transactions, t \in Lifetimes : ProposalCreate(tx, t)
    \/ \E a \in Signers, i \in Ids(db), kind \in {"approve", "retract", "delete"} :
          PushTransaction([kind |-> kind, by |-> a, id |-> i])
    \/ \E a \in Signers : Deposit(a)
    \/ StartPending
    \/ ClearPending
    \/ Block

Spec == Init /\ [][Next]_vars

-----------------------------------------------------------------------------
(* Properties *)

TypeOK ==
    /\ db.balance \in [Accounts -> Nat]
    /\ Len(db.proposals) <= MaxProposals
    /\ index \subseteq Accounts \X (1..MaxProposals)
    /\ now \in 1..MaxTime

(* A proposed transaction has all of its effects or none, however deep it  *)
(* is nested in others that fail later, and once it has them it is         *)
(* resolved: it is not executed again, also not at its expiration.         *)
AllOrNothing ==
    /\ \A i \in Ids(db) : LET p == db.proposals[i] IN
          p.applied = 0 \/ (~p.live /\ p.applied = Len(p.tx))
    /\ MapThenSumSet(LAMBDA a : Balances[a] + db.got[a] - db.balance[a], Accounts) = db.paid

(* What an account lost, it lost in transactions that it, or enough of     *)
(* those who act for it, had approved to the end.                          *)
PaidWithConsent ==
    \A a \in Accounts :
        Balances[a] + db.got[a] - db.balance[a] =
            MapThenSumSet(LAMBDA i : LET p == db.proposals[i] IN
                FoldLeft(LAMBDA n, op : IF op.kind = "transfer" /\ op.by = a THEN n + op.amount ELSE n,
                         0, p.tx),
                {i \in Ids(db) : LET p == db.proposals[i] IN
                    /\ p.applied > 0
                    /\ a \in p.approvals \/ \E q \in Quorums[a] : q \subseteq p.approvals})

(* Everybody who has to approve a proposal finds it, also after an undo.   *)
RequiredAreIndexed == \A i \in Live(db) : Required(db.proposals[i]) \X {i} \subseteq index

(* Nothing is left after its time, executed or not. *)
NothingOverdue == saved = <<>> => \A i \in Live(db) : db.proposals[i].expires > now
=============================================================================
