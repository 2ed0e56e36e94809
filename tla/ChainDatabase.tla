---------------------------- MODULE ChainDatabase ---------------------------
(***************************************************************************)
(* How a node moves from one chain state to the next (chain/db_block.cpp): *)
(* pushing blocks, with the switch to a longer fork and the way back from  *)
(* a bad one; pushing and validating transactions; producing blocks.       *)
(*                                                                         *)
(* The object database is reduced to what these operations tell apart: the *)
(* chain of applied blocks, the transactions applied on top of genesis and *)
(* the last irreversible block number.  The undo database is the stack of  *)
(* copies that UndoDatabase is proved to implement (SnapshotStore).        *)
(* Handlers run to completion in one thread, so each is one action; the    *)
(* loops inside are folds over the node's state, which stop at a throw.    *)
(***************************************************************************)
EXTENDS ForkDatabase, SequencesExt

CONSTANTS
    Txs,             \* transactions
    TxsOf,           \* TxsOf[b]: the transactions of block b, in order
    Conflicts,       \* pairs of transactions of which only one can apply
    ProposalTxs,     \* transactions that execute a proposal
    BadBlocks,       \* blocks that fail before update_global_dynamic_data
    LateBadBlocks,   \* blocks that fail after it
    Witnesses,       \* the active witnesses
    Signer,          \* Signer[b]: the witness of block b
    MinUndoHistory,  \* GRAPHENE_MIN_UNDO_HISTORY
    MaxUndoHistory,  \* GRAPHENE_MAX_UNDO_HISTORY
    ForkHistory,     \* the initial fork_database::_max_size
    ReplayWindow,    \* the blocks that reindex() replays with undo history
    MaxBlockTxs,     \* maximum_block_size, in transactions
    MaxPending       \* bound: transactions waiting in _pending_tx

ASSUME TxAssumption ==
    /\ TxsOf \in [Blocks -> Seq(Txs)]
    /\ ProposalTxs \subseteq Txs
    /\ BadBlocks \cup LateBadBlocks \subseteq Blocks
ASSUME WitnessAssumption ==
    Signer \in [Blocks -> Witnesses] /\ Witnesses # {} /\ IsFiniteSet(Witnesses)
ASSUME HistoryAssumption ==
    MinUndoHistory \in Nat \ {0} /\ ForkHistory \in Nat /\ ReplayWindow \in Nat

VARIABLE node
(* node.cur      the object database: chain, applied transactions, lib     *)
(* node.undo     the undo stack                                            *)
(* node.undo_max its _max_size                                             *)
(* node.session  whether _pending_tx_session is valid                      *)
(* node.pending  _pending_tx                                               *)
(* node.popped   _popped_tx                                                *)
(* node.fork     _fork_db                                                  *)
(* node.log      _block_id_to_block, by number                             *)
(* node.ok       whether the last push_block returned without an exception *)
(* node.loaded   history: the head number above which this process keeps   *)
(*               undo states: that of the state it loaded, or of the last  *)
(*               block it replayed without them                            *)
(* node.peak     history: the highest last irreversible number since then, *)
(*               or node.loaded                                            *)

GenesisState == [chain |-> <<>>, applied |-> {}, lib |-> 0]

Init ==
    node = [cur |-> GenesisState, undo |-> <<>>, undo_max |-> MinUndoHistory,
            session |-> FALSE, pending |-> <<>>, popped |-> <<>>,
            fork |-> EmptyForkDatabase(ForkHistory), log |-> <<>>, ok |-> TRUE,
            loaded |-> 0, peak |-> 0]

HeadNum(n) == Len(n.cur.chain)
HeadId(n)  == IF n.cur.chain = <<>> THEN Genesis ELSE Last(n.cur.chain)
Throw(n)   == [n EXCEPT !.ok = FALSE]

-----------------------------------------------------------------------------
(* The undo database, as SnapshotStore promises it. *)

PrunedTo(s, limit) ==
    IF Len(s) > limit THEN SubSeq(s, Len(s) - limit + 1, Len(s)) ELSE s

(* start_undo_session() *)
OpenSession(n) == [n EXCEPT !.undo = Append(PrunedTo(@, n.undo_max), n.cur)]
(* session::undo() *)
UndoSession(n) == [n EXCEPT !.cur = Last(n.undo), !.undo = Front(@)]
(* session::merge() *)
MergeSession(n) == [n EXCEPT !.undo = Front(@)]

(* Mutant: the session is forgotten, its changes stay. *)
ResetPendingKept(n) == [n EXCEPT !.session = FALSE]

(* _pending_tx_session.reset() *)
ResetPending(n) == IF n.session THEN [UndoSession(n) EXCEPT !.session = FALSE] ELSE n

(* The limit push_proposal leaves behind when it runs above stack s. *)
RaisedLimit(limit, s) == IF Len(s) >= limit THEN Len(s) + 1 ELSE limit

-----------------------------------------------------------------------------
(* Transactions *)

CanApplyTx(tx, applied) ==
    tx \notin applied /\ \A other \in applied : <<tx, other>> \notin Conflicts

(* The transactions of a block apply one after the other. *)
CanApplyTxs(txs, applied) ==
    \A k \in 1..Len(txs) : CanApplyTx(txs[k], applied \cup ToSet(SubSeq(txs, 1, k - 1)))

(* _apply_transaction in a temporary session: merged, or undone if it throws. *)
TryTx(n, tx) ==
    LET temp == OpenSession(n)
    IN  IF CanApplyTx(tx, n.cur.applied)
        THEN MergeSession([temp EXCEPT
                !.cur.applied = @ \cup {tx},
                !.undo_max = IF tx \in ProposalTxs THEN RaisedLimit(@, temp.undo) ELSE @])
        ELSE UndoSession(temp)

(* _push_transaction *)
PushTx(n, tx) ==
    LET s == IF n.session THEN n ELSE [OpenSession(n) EXCEPT !.session = TRUE]
        t == TryTx(s, tx)
    IN  IF tx \in t.cur.applied /\ tx \notin s.cur.applied
        THEN [t EXCEPT !.pending = Append(@, tx)] ELSE t

(* ~pending_transactions_restorer, for one transaction *)
RestoreTx(n, tx) == IF tx \in n.cur.applied THEN n ELSE PushTx(n, tx)

-----------------------------------------------------------------------------
(* Blocks *)

(* update_last_irreversible_block: the number that 70% of the witnesses confirmed. *)
NewLib(chain, lib) ==
    LET confirmed(w) == Max({k \in 1..Len(chain) : Signer[chain[k]] = w} \cup {0})
        offset == (3 * Cardinality(Witnesses)) \div 10
        agreed == Min({v \in {confirmed(w) : w \in Witnesses} :
                          Cardinality({w \in Witnesses : confirmed(w) <= v}) > offset})
    IN  IF agreed > lib THEN agreed ELSE lib

(* Mutant: a block is accepted for its place in the chain alone. *)
CanApplyBlockUnchecked(n, b) == Parent[b] = HeadId(n)

CanApplyBlock(n, b) ==
    /\ b \notin BadBlocks
    /\ Parent[b] = HeadId(n)
    /\ CanApplyTxs(TxsOf[b], n.cur.applied)
    /\ Num(b) - n.cur.lib < MaxUndoHistory

(* Mutant: the limit leaves no room for the blocks since the irreversible one. *)
SetMaxSizesShort(n, b) ==
    LET size == Max({1, Num(b) - n.cur.lib - 1})
    IN  [n EXCEPT !.undo_max = size, !.fork = SetForkMaxSize(@, size)]

(* set_max_size of both databases, at the end of update_global_dynamic_data: *)
(* with the irreversible number of before this block, and never undone.     *)
SetMaxSizes(n, b) ==
    LET size == Num(b) - n.cur.lib + 1
    IN  [n EXCEPT !.undo_max = size, !.fork = SetForkMaxSize(@, size)]

(* The state after block b. *)
Extended(s, b) ==
    LET chain == Append(s.chain, b)
    IN  [chain |-> chain, applied |-> s.applied \cup ToSet(TxsOf[b]), lib |-> NewLib(chain, s.lib)]

(* Mutant: the block log never overwrites the block of another fork. *)
ApplyBlockAppends(n, b) ==
    LET sized == SetMaxSizes(OpenSession(n), b)
        after == Extended(n.cur, b)
    IN  IF ~n.ok \/ ~CanApplyBlock(n, b) \/ b \in LateBadBlocks THEN Throw(n)
        ELSE [sized EXCEPT
                !.cur = after,
                !.peak = Max({@, after.lib}),
                !.log = IF Num(b) > Len(@) THEN Append(@, b) ELSE @]

(* One block in its own session: applied, stored and committed, or undone. *)
ApplyBlock(n, b) ==
    LET started == OpenSession(n)
        sized   == SetMaxSizes(started, b)
        after   == Extended(n.cur, b)
    IN  CASE ~n.ok -> n
          [] n.ok /\ ~CanApplyBlock(n, b) -> Throw(UndoSession(started))
          [] n.ok /\ CanApplyBlock(n, b) /\ b \in LateBadBlocks -> Throw(UndoSession(sized))
          [] OTHER -> [sized EXCEPT
                !.cur = after,
                !.peak = Max({@, after.lib}),
                !.log = [k \in 1..(IF Num(b) > Len(@) THEN Num(b) ELSE Len(@)) |->
                            IF k = Num(b) THEN b ELSE @[k]]]

(* Mutant: the transactions of a popped block are not kept. *)
PopBlockForgets(n) ==
    IF ~n.ok \/ HeadId(n) \notin n.fork.index \/ n.undo = <<>> THEN Throw(n)
    ELSE UndoSession([n EXCEPT !.fork = IF @.head = HeadId(n) /\ CanPop(@)
                                        THEN PopHead(@) ELSE @])

(* database::pop_block, for a node without a pending session *)
PopBlock(n) ==
    LET b == HeadId(n)
        atHead == n.fork.head = b
        popped == [n EXCEPT !.fork = IF atHead THEN PopHead(@) ELSE @]
    IN  IF \/ ~n.ok
           \/ atHead /\ ~CanPop(n.fork)
           \/ ~atHead /\ b \notin n.fork.index
        THEN Throw(n)
        ELSE IF n.undo = <<>>
        THEN Throw(popped)
        ELSE [UndoSession(popped) EXCEPT !.popped = TxsOf[b] \o @]

PopRound(n, k) == PopBlock(n)

(* while( head_block_id() != target ) pop_block(); *)
PopBlocksTo(n, target) ==
    FoldLeft(PopRound, n, [k \in 1..(HeadNum(n) - Num(target)) |-> k])

ApplyBlocks(n, bs) == FoldLeft(ApplyBlock, n, bs)

(* The blocks of bs that got applied before one of them threw. *)
AppliedOf(n, bs) == {b \in ToSet(bs) : b \in ToSet(n.cur.chain)}

(* The fork switch: to the branch of new_head, or back if a block of it is bad. *)
SwitchFork(n, new_head) ==
    LET old_head == HeadId(n)
        base   == BranchBase(new_head, old_head)
        first  == Branch(new_head, base)
        second == Branch(old_head, base)
        target == Parent[first[1]]
        rewound  == PopBlocksTo(n, target)
        switched == ApplyBlocks(rewound, first)
        bad      == ToSet(first) \ AppliedOf(switched, first)
        cleaned  == [switched EXCEPT !.ok = TRUE,
                                     !.fork = SetHead(Erase(@, bad), old_head)]
    IN  IF ~CanFetchBranches(n.fork, new_head, old_head) THEN Throw(n)
        ELSE IF ~rewound.ok \/ switched.ok THEN switched
        ELSE Throw(ApplyBlocks(PopBlocksTo(cleaned, target), second))

(* _push_block, with no pending session open *)
PushToChain(n, b) ==
    LET m == [n EXCEPT !.fork = PushItem(@, b)]
        new_head == m.fork.head
        applied == ApplyBlock(m, b)
    IN  IF ~CanPush(n.fork, b) THEN Throw(n)
        ELSE IF Parent[new_head] = HeadId(n)
        THEN IF applied.ok THEN applied ELSE [applied EXCEPT !.fork = RemoveItem(@, b)]
        ELSE IF Num(new_head) > HeadNum(n) THEN SwitchFork(m, new_head)
        ELSE m

(* Mutant: the popped transactions are pushed again but not cleared. *)
PushedBlockKeepsPopped(n, b) ==
    LET clear  == ResetPending([n EXCEPT !.pending = <<>>, !.ok = TRUE])
        pushed == PushToChain(clear, b)
    IN  FoldLeft(RestoreTx, pushed, pushed.popped \o n.pending)

(* push_block: without_pending_transactions around _push_block *)
PushedBlock(n, b) ==
    LET clear  == ResetPending([n EXCEPT !.pending = <<>>, !.ok = TRUE])
        pushed == PushToChain(clear, b)
    IN  FoldLeft(RestoreTx, [pushed EXCEPT !.popped = <<>>], pushed.popped \o n.pending)

(* A pending transaction is put into the block, unless the block is full or *)
(* the transaction throws.                                                  *)
TakeTx(acc, tx) ==
    LET t == TryTx(acc.n, tx)
    IN  IF Len(acc.txs) >= MaxBlockTxs THEN acc
        ELSE [n |-> t, txs |-> IF t.cur.applied = acc.n.cur.applied
                               THEN acc.txs ELSE Append(acc.txs, tx)]

(* _generate_block up to push_block: the pending transactions are applied again *)
(* and as many of them as the block can hold are taken.                         *)
Collect(n) ==
    LET start == [OpenSession(ResetPending(n)) EXCEPT !.session = TRUE]
        all   == FoldLeft(TakeTx, [n |-> start, txs |-> <<>>], n.pending)
    IN  [n |-> ResetPending(all.n), txs |-> all.txs]

-----------------------------------------------------------------------------
(* Stopping and starting *)

(* One round of close()'s loop: a throwing pop_block ends the rewind. *)
RewindStep(n, cutoff) ==
    IF ~n.ok \/ HeadNum(n) <= cutoff THEN n
    ELSE LET popped == PopBlock(n)
         IN  IF popped.ok THEN [popped EXCEPT !.fork = RemoveItem(@, HeadId(n))] ELSE popped

(* close(): pending transactions are dropped, the chain is rewound to the   *)
(* last irreversible block as far as the undo history goes, and flushed.    *)
Close(n) ==
    LET clear == ResetPending([n EXCEPT !.pending = <<>>, !.ok = TRUE])
    IN  FoldLeft(RewindStep, clear, [k \in 1..HeadNum(n) |-> n.cur.lib])

(* reindex() stops at the first block that throws.  Blocks far from the end *)
(* of the log are applied with the undo database disabled, the others are   *)
(* pushed.                                                                  *)
ReplayWithoutUndo(n, b) ==
    IF ~n.ok THEN n
    ELSE IF ~CanApplyBlock(n, b) \/ b \in LateBadBlocks THEN Throw(n)
    ELSE [SetMaxSizes(n, b) EXCEPT !.cur = Extended(n.cur, b), !.loaded = Num(b), !.peak = Num(b)]

Replay(n, b) == IF n.ok THEN PushedBlock(n, b) ELSE n

(* undo_point *)
UndoPoint(log) == IF Len(log) < ReplayWindow THEN 0 ELSE Len(log) - ReplayWindow

(* A new process: the flushed state, no undo history, and a fork database   *)
(* with the head block, or with none when the replay starts far from the end. *)
Started(n) ==
    LET head == HeadNum(n)
        none == EmptyForkDatabase(ForkHistory)
    IN  [n EXCEPT !.undo = <<>>, !.undo_max = MinUndoHistory, !.session = FALSE,
                  !.pending = <<>>, !.popped = <<>>, !.ok = TRUE, !.loaded = head, !.peak = head,
                  !.fork = IF head > 0 /\ Len(n.log) > head /\ head >= UndoPoint(n.log)
                           THEN StartBlock(none, n.log[head]) ELSE none]

(* Mutant: the replay stops one block short of the last one. *)
ReopenShort(n) ==
    LET next  == HeadNum(n) + 1
        first == IF next < UndoPoint(n.log) THEN UndoPoint(n.log) ELSE next
    IN  FoldLeft(Replay,
                 FoldLeft(ReplayWithoutUndo, Started(n), SubSeq(n.log, next, first - 1)),
                 SubSeq(n.log, first, Len(n.log) - 1))

(* open() and reindex(): the blocks of the log above the head are replayed. *)
Reopen(n) ==
    LET next  == HeadNum(n) + 1
        first == IF next < UndoPoint(n.log) THEN UndoPoint(n.log) ELSE next
    IN  FoldLeft(Replay,
                 FoldLeft(ReplayWithoutUndo, Started(n), SubSeq(n.log, next, first - 1)),
                 SubSeq(n.log, first, Len(n.log)))

-----------------------------------------------------------------------------
PushBlock(b) == node' = PushedBlock(node, b)

PushTransaction(tx) ==
    /\ Len(node.pending) < MaxPending
    /\ node' = PushTx(node, tx)

(* validate_transaction: applied in a session of its own, which is undone; *)
(* the limit a proposal raised stays raised.                               *)
ValidateTransaction(tx) ==
    LET tried == TryTx(node, tx)
    IN  node' = [UndoSession(OpenSession(node)) EXCEPT !.undo_max = tried.undo_max]

GenerateBlock(b) ==
    LET collected == Collect(node)
    IN  /\ Parent[b] = HeadId(node)
        /\ TxsOf[b] = collected.txs
        /\ node' = PushedBlock(collected.n, b)

(* _generate_block with the wrong signing key: the pending session is gone, *)
(* the pending transactions are not.                                        *)
GenerateBlockRefused ==
    /\ node.session
    /\ node' = ResetPending(node)

(* The process stops cleanly and starts again; when the replay throws, the  *)
(* program ends.                                                            *)
Restart ==
    LET again == Reopen(Close(node))
    IN  again.ok /\ node' = again

Next ==
    \/ \E b \in Blocks : PushBlock(b)
    \/ \E tx \in Txs : PushTransaction(tx)
    \/ \E tx \in Txs : ValidateTransaction(tx)
    \/ \E b \in Blocks : GenerateBlock(b)
    \/ GenerateBlockRefused
    \/ Restart

Spec == Init /\ [][Next]_node

-----------------------------------------------------------------------------
ChainTxs(chain) == UNION {ToSet(TxsOf[chain[k]]) : k \in 1..Len(chain)}

Committed(n) == IF n.session THEN Len(n.undo) - 1 ELSE Len(n.undo)

(* The type invariant; between two calls no popped transaction waits. *)
TypeOK ==
    /\ node.undo_max \in Nat \ {0}
    /\ node.fork \in ForkDatabases
    /\ node.fork.linked \subseteq node.fork.index
    /\ \A s \in ToSet(node.undo) \cup {node.cur} :
          s.chain \in Seq(Blocks) /\ s.applied \subseteq Txs /\ s.lib \in 0..Len(s.chain)
    /\ node.pending \in Seq(Txs) /\ node.popped = <<>>

(* The database holds the effects of the applied blocks and of pending      *)
(* transactions, nothing else; each copy on the undo stack is the state     *)
(* right after the blocks of a prefix of the chain, newest last: pop_block  *)
(* and a failed fork switch never leave pending effects in a block's state. *)
StateFollowsChain ==
    /\ ChainTxs(node.cur.chain) \subseteq node.cur.applied
    /\ node.cur.applied \subseteq ChainTxs(node.cur.chain) \cup ToSet(node.pending)
    /\ ~node.session => node.cur.applied = ChainTxs(node.cur.chain)
    /\ \A k \in 1..Len(node.undo) :
          LET s == node.undo[k]
              height == HeadNum(node) - (Committed(node) - k) - 1
          IN  /\ s.chain = SubSeq(node.cur.chain, 1, height)
              /\ s.applied = ChainTxs(s.chain)

(* The chain is a path of blocks that were all acceptable on their parents. *)
ChainIsValid ==
    \A k \in 1..HeadNum(node) :
        LET b == node.cur.chain[k]
        IN  /\ b \notin BadBlocks \cup LateBadBlocks
            /\ Parent[b] = IF k = 1 THEN Genesis ELSE node.cur.chain[k - 1]
            /\ CanApplyTxs(TxsOf[b], ChainTxs(SubSeq(node.cur.chain, 1, k - 1)))

(* The block log agrees with the chain at every number, also after a switch *)
(* to a fork that had to be taken back.                                     *)
LogFollowsChain ==
    /\ Len(node.log) >= HeadNum(node)
    /\ \A k \in 1..HeadNum(node) : node.log[k] = node.cur.chain[k]

(* The undo stack always reaches back to the last irreversible block, which *)
(* close() rewinds to, or to the state that this process started from; but  *)
(* a switch that goes below the irreversible block lowers its number and    *)
(* does not bring the history back, so that it is the highest number there  *)
(* has been that counts.                                                    *)
CanRewindToIrreversible ==
    HeadNum(node) - Committed(node) <= node.peak

(* Stopping and starting again brings back the same chain: what close()     *)
(* rewinds, the replay of the block log applies again, unless a switch was  *)
(* abandoned halfway and the log goes on above the head.                    *)
RestartKeepsChain ==
    LET again == Reopen(Close(node))
    IN  node.log = node.cur.chain => again.ok /\ again.cur.chain = node.cur.chain

(* The head of the fork database is the head of the chain, and the fork     *)
(* database still has its item.                                             *)
HeadsAgree(n) ==
    \/ n.fork.head = HeadId(n) /\ HeadId(n) \in n.fork.index
    \/ n.fork.head = None /\ n.cur.chain = <<>>

(* A node whose heads agree is not stuck: it accepts every good block on    *)
(* top of its head.                                                         *)
CanExtend ==
    HeadsAgree(node) =>
        \A b \in Blocks :
            Parent[b] = HeadId(node) /\ b \notin LateBadBlocks /\ CanApplyBlock(node, b)
                => PushedBlock(node, b).cur.chain = Append(node.cur.chain, b)

(* Pushes that succeed, among them every switch to a longer fork, and what  *)
(* is done with transactions keep the heads together.                       *)
HeadsStayTogether ==
    [][HeadsAgree(node) /\ node'.ok /\ ~Restart => HeadsAgree(node')]_node

(* A transaction that was applied or pending and is not any more cannot be  *)
(* applied: reorganisations, failed pushes and block production lose none.  *)
(* A restart may: close() drops the pending transactions.                   *)
NoTransactionLost ==
    [][~Restart =>
        \A tx \in node.cur.applied \cup ToSet(node.pending) :
          \/ tx \in node'.cur.applied \cup ToSet(node'.pending)
          \/ ~CanApplyTx(tx, node'.cur.applied)]_node

(* "Push block may fail in which case every partial change is unwound": a   *)
(* push that throws leaves the chain as it was, at least in a process that  *)
(* started from genesis and has the undo history of its whole chain.        *)
FailedPushUnwound ==
    [][node.loaded = 0 /\ ~node'.ok => node'.cur.chain = node.cur.chain]_node
=============================================================================
