---------------------------- MODULE UndoDatabase ----------------------------
(***************************************************************************)
(* The undo stack of the object database (libraries/db/undo_database) with *)
(* the three object operations that feed it (libraries/db/index.hpp).      *)
(*                                                                         *)
(* Every change to a chain object is recorded as a delta in the undo state *)
(* on top of the stack.  A session that is undone must leave the objects   *)
(* and the id counters exactly as it found them, whatever was created,     *)
(* modified, removed or merged into it meanwhile; forks, pending           *)
(* transactions, proposals and failed blocks all rest on that.             *)
(*                                                                         *)
(* The variable snaps is a history variable: snaps[k] is the database at   *)
(* the moment state k of the stack was pushed.  No action reads it.        *)
(***************************************************************************)
EXTENDS Naturals, Sequences

CONSTANTS
    Types,        \* the (space, type) pairs: one object index each
    MaxInstance,  \* bound: the largest instance number an index may hand out
    Keys,         \* values of an index's unique secondary key
    Data,         \* the rest of an object's value
    None,         \* no object, no entry
    MaxSizes,     \* the arguments of set_max_size: head - LIB + 1
    MaxNesting,   \* bound: sessions open at once (push_proposal_nesting_guard)
    MaxStack      \* bound: states on the stack (GRAPHENE_MAX_UNDO_HISTORY)

ASSUME NoneAssumption == None \notin (Keys \X Data) /\ None \notin Nat
ASSUME BoundAssumption == MaxInstance \in Nat /\ MaxNesting \in Nat /\ MaxStack \in Nat
ASSUME MaxSizeAssumption == MaxSizes \subseteq Nat \ {0} /\ MaxSizes # {}

VARIABLES
    objects,          \* every index: object id -> value, or None
    next_id,          \* _next_id of every index
    stack,            \* _stack
    active_sessions,  \* _active_sessions
    disabled,         \* _disabled
    max_size,         \* _max_size
    handles,          \* _disable_on_exit of the session objects in scope
    snaps             \* history variable

vars == <<objects, next_id, stack, active_sessions, disabled, max_size, handles, snaps>>
db == <<objects, next_id>>

Instances == 0..MaxInstance
Ids       == Types \X Instances
Values    == Keys \X Data
Entries   == [Ids -> Values \cup {None}]
Counters  == [Types -> 0..(MaxInstance + 1)]

UndoStates ==
    [old_values : Entries,
     old_index_next_ids : [Types -> (0..MaxInstance) \cup {None}],
     new_ids : SUBSET Ids,
     removed : Entries]

EmptyState ==
    [old_values |-> [i \in Ids |-> None],
     old_index_next_ids |-> [t \in Types |-> None],
     new_ids |-> {},
     removed |-> [i \in Ids |-> None]]

Snapshot == [objects : Entries, next_id : Counters]
Current  == [objects |-> objects, next_id |-> next_id]

Top(s)        == s[Len(s)]
Pop(s)        == SubSeq(s, 1, Len(s) - 1)
SetTop(s, st) == [s EXCEPT ![Len(s)] = st]

-----------------------------------------------------------------------------
(* Recording a change in the top state. *)

RecordCreate(st, i) ==
    [st EXCEPT !.old_index_next_ids[i[1]] = IF @ = None THEN i[2] ELSE @,
               !.new_ids = @ \cup {i}]

(* Mutant: the newest value before a change is kept, not the oldest. *)
RecordModifyNewest(st, i, was) ==
    IF i \in st.new_ids THEN st ELSE [st EXCEPT !.old_values[i] = was]

RecordModify(st, i, was) ==
    IF i \in st.new_ids \/ st.old_values[i] # None
    THEN st
    ELSE [st EXCEPT !.old_values[i] = was]

(* Mutant: an object created in this state and removed again stays in new_ids. *)
RecordRemoveStaysNew(st, i, was) ==
    CASE i \in st.new_ids -> st
      [] i \notin st.new_ids /\ st.old_values[i] # None ->
            [st EXCEPT !.removed[i] = st.old_values[i], !.old_values[i] = None]
      [] OTHER -> [st EXCEPT !.removed[i] = was]

RecordRemove(st, i, was) ==
    CASE i \in st.new_ids ->
            [st EXCEPT !.new_ids = @ \ {i}]
      [] i \notin st.new_ids /\ st.old_values[i] # None ->
            [st EXCEPT !.removed[i] = st.old_values[i], !.old_values[i] = None]
      [] i \notin st.new_ids /\ st.old_values[i] = None /\ st.removed[i] # None ->
            st
      [] OTHER ->
            [st EXCEPT !.removed[i] = was]

(* A change outside any session, with the stack empty, opens a state of its own. *)
Opened      == IF stack = <<>> THEN <<EmptyState>> ELSE stack
OpenedSnaps == IF stack = <<>> THEN <<Current>> ELSE snaps

(* What a change leaves on the stack, st being the delta it adds to the top state. *)
Record(st) ==
    IF disabled
    THEN UNCHANGED <<stack, snaps>>
    ELSE stack' = SetTop(Opened, st) /\ snaps' = OpenedSnaps

-----------------------------------------------------------------------------
(* Taking a state back: the four loops of undo() and pop_commit(), in order. *)

RestoreOld(st, o) ==
    [i \in Ids |-> IF st.old_values[i] # None THEN st.old_values[i] ELSE o[i]]
RemoveNew(st, o) ==
    [i \in Ids |-> IF i \in st.new_ids THEN None ELSE o[i]]
(* Mutant: the id counters are not put back. *)
RestoreNextIdsForgotten(st, n) == n

RestoreNextIds(st, n) ==
    [t \in Types |-> IF st.old_index_next_ids[t] # None
                     THEN st.old_index_next_ids[t] ELSE n[t]]
InsertRemoved(st, o) ==
    [i \in Ids |-> IF st.removed[i] # None THEN st.removed[i] ELSE o[i]]

Restored(st, o) == InsertRemoved(st, RemoveNew(st, RestoreOld(st, o)))

UniqueKeys(o) ==
    \A i, j \in Ids :
        i # j /\ i[1] = j[1] /\ o[i] # None /\ o[j] # None => o[i][1] # o[j][1]

(* None of the calls the loops make throws: get_object and remove find the *)
(* object, insert finds the id free, no unique index refuses the value.    *)
CanRestore(st, o) ==
    /\ \A i \in Ids : st.old_values[i] # None => o[i] # None
    /\ UniqueKeys(RestoreOld(st, o))
    /\ \A i \in st.new_ids : RestoreOld(st, o)[i] # None
    /\ \A i \in Ids : st.removed[i] # None => RemoveNew(st, RestoreOld(st, o))[i] = None
    /\ UniqueKeys(Restored(st, o))

(* Mutant: a value that both states have changed is taken from the newer one. *)
MergedNewerWins(a, b) ==
    [old_values |-> [i \in Ids |-> IF b.old_values[i] # None
                                   THEN b.old_values[i] ELSE a.old_values[i]],
     old_index_next_ids |-> a.old_index_next_ids,
     new_ids |-> a.new_ids \cup b.new_ids,
     removed |-> [i \in Ids |-> IF b.removed[i] # None THEN b.removed[i] ELSE a.removed[i]]]

(* merge(): b, the top state, folded into a, the one below it. *)
Merged(a, b) ==
    LET new_ids == a.new_ids \cup b.new_ids
        updated == [i \in Ids |-> IF b.old_values[i] # None /\ i \notin a.new_ids
                                        /\ a.old_values[i] = None
                                  THEN b.old_values[i] ELSE a.old_values[i]]
        gone(i) == b.removed[i] # None
    IN  [old_values |-> [i \in Ids |-> IF gone(i) /\ i \notin new_ids
                                       THEN None ELSE updated[i]],
         old_index_next_ids |->
             [t \in Types |-> IF a.old_index_next_ids[t] = None
                              THEN b.old_index_next_ids[t] ELSE a.old_index_next_ids[t]],
         new_ids |-> {i \in new_ids : ~gone(i)},
         removed |-> [i \in Ids |->
                        CASE ~gone(i) \/ i \in new_ids -> a.removed[i]
                          [] gone(i) /\ i \notin new_ids /\ updated[i] # None -> updated[i]
                          [] OTHER -> b.removed[i]]]

-----------------------------------------------------------------------------
Init ==
    /\ objects = [i \in Ids |-> None]
    /\ next_id = [t \in Types |-> 0]
    /\ stack = <<>>
    /\ active_sessions = 0
    /\ disabled = FALSE
    /\ max_size \in MaxSizes
    /\ handles = <<>>
    /\ snaps = <<>>

(* index::create: the new object takes the next id of its index. *)
Create(t, v) ==
    LET i == <<t, next_id[t]>>
        o == [objects EXCEPT ![i] = v]
    IN  /\ next_id[t] \in Instances
        /\ UniqueKeys(o)
        /\ objects' = o
        /\ next_id' = [next_id EXCEPT ![t] = @ + 1]
        /\ Record(RecordCreate(Top(Opened), i))
        /\ UNCHANGED <<active_sessions, disabled, max_size, handles>>

(* index::modify: no modifier of the chain code changes a unique key. *)
Modify(i, d) ==
    /\ objects[i] # None
    /\ objects' = [objects EXCEPT ![i] = <<@[1], d>>]
    /\ Record(RecordModify(Top(Opened), i, objects[i]))
    /\ UNCHANGED <<next_id, active_sessions, disabled, max_size, handles>>

(* index::remove *)
Remove(i) ==
    /\ objects[i] # None
    /\ objects' = [objects EXCEPT ![i] = None]
    /\ Record(RecordRemove(Top(Opened), i, objects[i]))
    /\ UNCHANGED <<next_id, active_sessions, disabled, max_size, handles>>

(* What is left of a stack after the loop "while( size() > max_size() ) pop_front". *)
Pruned(s, limit) ==
    IF Len(s) > limit THEN SubSeq(s, Len(s) - limit + 1, Len(s)) ELSE s

PushState(limit, disable_on_exit) ==
    /\ Len(Pruned(stack, limit)) < MaxStack
    /\ stack' = Append(Pruned(stack, limit), EmptyState)
    /\ snaps' = Append(Pruned(snaps, limit), Current)
    /\ max_size' = limit
    /\ handles' = Append(handles, disable_on_exit)
    /\ active_sessions' = active_sessions + 1
    /\ disabled' = FALSE
    /\ UNCHANGED db

(* start_undo_session() as blocks, pending transactions and transaction checks *)
(* call it: the undo database is enabled and at most the pending session, or   *)
(* one temporary one, is open below.                                           *)
StartSession ==
    /\ ~disabled
    /\ active_sessions <= 1
    /\ PushState(max_size, FALSE)

(* Mutant: the limit is not raised for the session of a proposal. *)
StartProposalSessionUnraised ==
    /\ Len(handles) < MaxNesting
    /\ PushState(max_size, disabled)

(* start_undo_session(true) as push_proposal calls it: the limit is raised first, *)
(* and a replay that runs with the undo database disabled is switched on.         *)
StartProposalSession ==
    /\ Len(handles) < MaxNesting
    /\ PushState(IF Len(stack) >= max_size THEN Len(stack) + 1 ELSE max_size, disabled)

(* The session object leaves its scope: ~session after undo(), merge() or commit(). *)
EndHandle(off) ==
    /\ handles # <<>>
    /\ handles' = Pop(handles)
    /\ disabled' = (off \/ Top(handles))
    /\ active_sessions' = active_sessions - 1
    /\ UNCHANGED max_size

PopAndRestore ==
    /\ objects' = Restored(Top(stack), objects)
    /\ next_id' = RestoreNextIds(Top(stack), next_id)
    /\ stack' = Pop(stack)
    /\ snaps' = Pop(snaps)

(* session::undo() or a destructor that finds _apply_undo set *)
Undo ==
    /\ ~disabled
    /\ active_sessions > 0
    /\ PopAndRestore
    /\ EndHandle(FALSE)

(* session::merge() *)
Merge ==
    /\ active_sessions > 0
    /\ stack' = IF active_sessions = 1 /\ Len(stack) = 1
                THEN <<>>
                ELSE SetTop(Pop(stack), Merged(stack[Len(stack) - 1], Top(stack)))
    /\ snaps' = Pop(snaps)
    /\ EndHandle(disabled)
    /\ UNCHANGED db

(* session::commit(), called for blocks only: the one open session. *)
Commit ==
    /\ active_sessions = 1
    /\ Top(handles) = FALSE
    /\ EndHandle(disabled)
    /\ UNCHANGED <<db, stack, snaps>>

(* pop_commit(), the undo half of database::pop_block *)
PopCommit ==
    /\ active_sessions = 0
    /\ ~disabled
    /\ stack # <<>>
    /\ PopAndRestore
    /\ UNCHANGED <<active_sessions, disabled, max_size, handles>>

(* Mutant: head - LIB, without the block being applied. *)
SetMaxSizeShort(n) ==
    /\ active_sessions <= 1
    /\ max_size' = n - 1
    /\ UNCHANGED <<db, stack, active_sessions, disabled, handles, snaps>>

(* set_max_size(), called by update_global_dynamic_data in a block's session or replay. *)
SetMaxSize(n) ==
    /\ active_sessions <= 1
    /\ max_size' = n
    /\ UNCHANGED <<db, stack, active_sessions, disabled, handles, snaps>>

(* disable(), called by init_genesis and reindex before anything is on the stack. *)
Disable ==
    /\ stack = <<>>
    /\ disabled' = TRUE
    /\ UNCHANGED <<db, stack, active_sessions, max_size, handles, snaps>>

(* enable(), called at the end of init_genesis and in reindex, between blocks. *)
Enable ==
    /\ disabled
    /\ disabled' = FALSE
    /\ UNCHANGED <<db, stack, active_sessions, max_size, handles, snaps>>

Next ==
    \/ \E t \in Types, v \in Values : Create(t, v)
    \/ \E i \in Ids, d \in Data : Modify(i, d)
    \/ \E i \in Ids : Remove(i)
    \/ StartSession
    \/ StartProposalSession
    \/ Undo
    \/ Merge
    \/ Commit
    \/ PopCommit
    \/ \E n \in MaxSizes : SetMaxSize(n)
    \/ Disable
    \/ Enable

Spec == Init /\ [][Next]_vars

-----------------------------------------------------------------------------
(* The type invariant: the deltas, the copies and the counters keep their *)
(* shape, and the size limit never reaches 0.                             *)
TypeOK ==
    /\ objects \in Entries
    /\ next_id \in Counters
    /\ stack \in Seq(UndoStates)
    /\ active_sessions \in Nat
    /\ disabled \in BOOLEAN
    /\ max_size \in Nat \ {0}
    /\ handles \in Seq(BOOLEAN)
    /\ snaps \in Seq(Snapshot)

(* The database as it was when state k + 1 was pushed; now, for the top state. *)
After(k) == IF k = Len(stack) THEN Current ELSE snaps[k + 1]

(* Taking the states back one after the other, newest first, goes through   *)
(* exactly the databases at which they were pushed: undo() and pop_commit() *)
(* are inverses of everything recorded or merged into a state.              *)
UndoRestores ==
    /\ Len(snaps) = Len(stack)
    /\ \A k \in 1..Len(stack) :
          /\ Restored(stack[k], After(k).objects) = snaps[k].objects
          /\ RestoreNextIds(stack[k], After(k).next_id) = snaps[k].next_id

(* No state on the stack can make undo() or pop_commit() throw when its turn *)
(* comes; an exception in ~session ends the process (std::terminate).        *)
UndoNeverThrows ==
    \A k \in 1..Len(stack) : CanRestore(stack[k], After(k).objects)

(* Every open session owns a state on the stack and finds the undo database *)
(* enabled: the limit on the stack drops committed states only, and undo()  *)
(* never meets an empty stack or its FC_ASSERT( !_disabled ).               *)
OpenSessionsKept ==
    /\ active_sessions = Len(handles)
    /\ active_sessions <= Len(stack)
    /\ active_sessions > 0 => ~disabled
    /\ disabled => stack = <<>>

-----------------------------------------------------------------------------
(* The inductive invariant. *)

(* Ids in use are below the counter of their index, and keys are unique. *)
WellFormed(s) ==
    /\ \A i \in Ids : s.objects[i] # None => i[2] < s.next_id[i[1]]
    /\ UniqueKeys(s.objects)

(* How an object can stand to a state that takes database b to database a: *)
(* the four rows of the table in merge().                                  *)
IsNew(st, b, a, i) ==
    /\ i \in st.new_ids /\ st.old_values[i] = None /\ st.removed[i] = None
    /\ b.objects[i] = None /\ a.objects[i] # None
    /\ i[2] >= b.next_id[i[1]]
IsUpdated(st, b, a, i) ==
    /\ i \notin st.new_ids /\ st.old_values[i] # None /\ st.removed[i] = None
    /\ b.objects[i] = st.old_values[i] /\ a.objects[i] # None
    /\ a.objects[i][1] = b.objects[i][1]
IsRemoved(st, b, a, i) ==
    /\ i \notin st.new_ids /\ st.old_values[i] = None /\ st.removed[i] # None
    /\ b.objects[i] = st.removed[i] /\ a.objects[i] = None
IsUntouched(st, b, a, i) ==
    /\ i \notin st.new_ids /\ st.old_values[i] = None /\ st.removed[i] = None
    /\ b.objects[i] = a.objects[i]

Delta(st, b, a) ==
    /\ \A i \in Ids : \/ IsNew(st, b, a, i)
                      \/ IsUpdated(st, b, a, i)
                      \/ IsRemoved(st, b, a, i)
                      \/ IsUntouched(st, b, a, i)
    /\ \A t \in Types :
          /\ b.next_id[t] <= a.next_id[t]
          /\ st.old_index_next_ids[t] = None => b.next_id[t] = a.next_id[t]
          /\ st.old_index_next_ids[t] # None => b.next_id[t] = st.old_index_next_ids[t]

(* Each state of stack s takes the copy it was pushed at to the next one. *)
Chain(s, copies, cur) ==
    /\ Len(copies) = Len(s)
    /\ WellFormed(cur)
    /\ \A k \in 1..Len(s) :
          /\ WellFormed(copies[k])
          /\ Delta(s[k], copies[k], IF k = Len(s) THEN cur ELSE copies[k + 1])

(* The deltas on the stack describe the history of the database. *)
DeltasDescribeHistory == Chain(stack, snaps, Current)

(* Only the outermost session can have switched a disabled undo database on, *)
(* and then the stack holds the states of the open sessions and no other.    *)
ForcedSession ==
    \A k \in 1..Len(handles) : handles[k] => k = 1 /\ Len(stack) = Len(handles)

IInv ==
    /\ TypeOK
    /\ OpenSessionsKept
    /\ ForcedSession
    /\ DeltasDescribeHistory

-----------------------------------------------------------------------------
(* The undo database implements the store of full copies. *)
Promise == INSTANCE SnapshotStore WITH
    States <- Snapshot, content <- Current, copies <- snaps,
    open <- active_sessions, recording <- ~disabled

(* Every behaviour of the delta stack is one of the store of full copies. *)
ImplementsSnapshotStore == Promise!Spec
=============================================================================
