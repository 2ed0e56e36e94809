------------------------- MODULE UndoDatabaseProofs -------------------------
(***************************************************************************)
(* Proofs about UndoDatabase for every value of its constants.             *)
(***************************************************************************)
EXTENDS UndoDatabase, TLAPS

(* Facts about one state of the stack. *)

(* EmptyState is an undo state, and stands for no change at all. *)
LEMMA EmptyStateType == EmptyState \in UndoStates
  BY DEF EmptyState, UndoStates, Entries

(* The empty state takes every database to itself. *)
LEMMA EmptyDelta ==
  ASSUME NEW s \in Snapshot
  PROVE  Delta(EmptyState, s, s)
<1>1. \A i \in Ids : IsUntouched(EmptyState, s, s, i)
  BY DEF EmptyState, IsUntouched
<1>2. \A t \in Types : s.next_id[t] \in Nat /\ EmptyState.old_index_next_ids[t] = None
  BY BoundAssumption DEF EmptyState, Snapshot, Counters
<1> QED
  BY <1>1, <1>2 DEF Delta

(* Taking a state back yields the database it was pushed at. *)
LEMMA RestoredObjects ==
  ASSUME NEW st \in UndoStates, NEW b \in Snapshot, NEW a \in Snapshot, Delta(st, b, a)
  PROVE  Restored(st, a.objects) = b.objects
<1>1. \A i \in Ids : Restored(st, a.objects)[i] = b.objects[i]
  BY DEF Restored, InsertRemoved, RemoveNew, RestoreOld, Delta, IsNew, IsUpdated,
         IsRemoved, IsUntouched
<1>2. Restored(st, a.objects) = [i \in Ids |-> Restored(st, a.objects)[i]]
  BY DEF Restored, InsertRemoved
<1>3. b.objects = [i \in Ids |-> b.objects[i]]
  BY DEF Snapshot, Entries
<1> QED
  BY <1>1, <1>2, <1>3

(* Taking a state back yields the id counters it was pushed at. *)
LEMMA RestoredNextIds ==
  ASSUME NEW st \in UndoStates, NEW b \in Snapshot, NEW a \in Snapshot, Delta(st, b, a)
  PROVE  RestoreNextIds(st, a.next_id) = b.next_id
<1>1. \A t \in Types : RestoreNextIds(st, a.next_id)[t] = b.next_id[t]
  BY DEF RestoreNextIds, Delta
<1>2. RestoreNextIds(st, a.next_id) = [t \in Types |-> RestoreNextIds(st, a.next_id)[t]]
  BY DEF RestoreNextIds
<1>3. b.next_id = [t \in Types |-> b.next_id[t]]
  BY DEF Snapshot, Counters
<1> QED
  BY <1>1, <1>2, <1>3

(* No modify, remove or insert of undo() meets a missing object or a taken key. *)
LEMMA RestoreIsPossible ==
  ASSUME NEW st \in UndoStates, NEW b \in Snapshot, NEW a \in Snapshot, Delta(st, b, a),
         WellFormed(a), WellFormed(b)
  PROVE  CanRestore(st, a.objects)
<1> DEFINE old == RestoreOld(st, a.objects)
<1>1. \A i \in Ids : /\ old[i] # None <=> a.objects[i] # None
                     /\ a.objects[i] # None => old[i][1] = a.objects[i][1]
  BY DEF RestoreOld, Delta, IsNew, IsUpdated, IsRemoved, IsUntouched
<1>2. UniqueKeys(old)
  BY <1>1 DEF WellFormed, UniqueKeys
<1>3. \A i \in Ids : st.old_values[i] # None => a.objects[i] # None
  BY DEF Delta, IsNew, IsUpdated, IsRemoved, IsUntouched
<1>4. \A i \in st.new_ids : old[i] # None
  <2>1. st.new_ids \subseteq Ids
    BY DEF UndoStates
  <2> QED
    BY <2>1, <1>1 DEF Delta, IsNew, IsUpdated, IsRemoved, IsUntouched
<1>5. \A i \in Ids : st.removed[i] # None => RemoveNew(st, old)[i] = None
  BY <1>1 DEF RemoveNew, Delta, IsNew, IsUpdated, IsRemoved, IsUntouched
<1>6. UniqueKeys(Restored(st, a.objects))
  BY RestoredObjects DEF WellFormed
<1> QED
  BY <1>2, <1>3, <1>4, <1>5, <1>6 DEF CanRestore

-----------------------------------------------------------------------------
(* Recording a change keeps the top state the difference between the       *)
(* database it was pushed at and the current one.                          *)

(* A creation: the new object takes the next id of its index. *)
LEMMA CreateDelta ==
  ASSUME NEW st \in UndoStates, NEW b \in Snapshot, NEW a \in Snapshot, Delta(st, b, a),
         WellFormed(a), WellFormed(b),
         NEW t \in Types, NEW v \in Values, a.next_id[t] \in Instances,
         NEW n \in Snapshot,
         n.objects = [a.objects EXCEPT ![<<t, a.next_id[t]>>] = v],
         n.next_id = [a.next_id EXCEPT ![t] = @ + 1]
  PROVE  /\ RecordCreate(st, <<t, a.next_id[t]>>) \in UndoStates
         /\ Delta(RecordCreate(st, <<t, a.next_id[t]>>), b, n)
<1> DEFINE i == <<t, a.next_id[t]>>
           r == RecordCreate(st, i)
<1>0. i \in Ids /\ i[1] = t /\ i[2] = a.next_id[t]
  BY DEF Ids
<1>1. r \in UndoStates
  BY <1>0, Zenon DEF RecordCreate, UndoStates, Instances
<1>2. /\ r.old_values = st.old_values /\ r.removed = st.removed
      /\ r.new_ids = st.new_ids \cup {i}
      /\ \A u \in Types : r.old_index_next_ids[u] =
            IF u = t /\ st.old_index_next_ids[t] = None THEN a.next_id[t]
            ELSE st.old_index_next_ids[u]
  BY <1>0 DEF RecordCreate, UndoStates
<1>3. \A u \in Types : /\ a.next_id[u] \in Nat /\ b.next_id[u] \in Nat
                       /\ n.next_id[u] = IF u = t THEN a.next_id[u] + 1 ELSE a.next_id[u]
  BY BoundAssumption DEF Snapshot, Counters
<1>4. \A j \in Ids : n.objects[j] = IF j = i THEN v ELSE a.objects[j]
  BY <1>0 DEF Snapshot, Entries
<1>5. a.objects[i] = None /\ b.objects[i] = None
  <2>1. a.objects[i] = None
    BY <1>0, <1>3 DEF WellFormed
  <2>2. b.next_id[t] <= a.next_id[t]
    BY DEF Delta
  <2> QED
    BY <1>0, <1>3, <2>1, <2>2 DEF WellFormed
<1>6. IsUntouched(st, b, a, i)
  BY <1>0, <1>5 DEF Delta, IsNew, IsUpdated, IsRemoved, IsUntouched
<1>7. IsNew(r, b, n, i)
  <2>1. v # None
    BY NoneAssumption DEF Values
  <2> QED
    BY <1>0, <1>2, <1>3, <1>4, <1>5, <1>6, <2>1 DEF IsNew, IsUntouched, Delta
<1>8. \A j \in Ids : j # i => \/ IsNew(r, b, n, j)
                              \/ IsUpdated(r, b, n, j)
                              \/ IsRemoved(r, b, n, j)
                              \/ IsUntouched(r, b, n, j)
  BY <1>2, <1>4 DEF Delta, IsNew, IsUpdated, IsRemoved, IsUntouched
<1>9. \A u \in Types :
        /\ b.next_id[u] <= n.next_id[u]
        /\ r.old_index_next_ids[u] = None => b.next_id[u] = n.next_id[u]
        /\ r.old_index_next_ids[u] # None => b.next_id[u] = r.old_index_next_ids[u]
  <2> SUFFICES ASSUME NEW u \in Types
               PROVE  /\ b.next_id[u] <= n.next_id[u]
                      /\ r.old_index_next_ids[u] = None => b.next_id[u] = n.next_id[u]
                      /\ r.old_index_next_ids[u] # None =>
                             b.next_id[u] = r.old_index_next_ids[u]
    OBVIOUS
  <2>1. /\ b.next_id[u] <= a.next_id[u]
        /\ st.old_index_next_ids[u] = None => b.next_id[u] = a.next_id[u]
        /\ st.old_index_next_ids[u] # None => b.next_id[u] = st.old_index_next_ids[u]
    BY DEF Delta
  <2>2. b.next_id[u] <= n.next_id[u]
    BY <1>3, <2>1
  <2>3. CASE u = t
    <3>1. a.next_id[t] # None
      BY <1>3, NoneAssumption
    <3> QED
      BY <1>2, <2>1, <2>2, <2>3, <3>1
  <2>4. CASE u # t
    BY <1>2, <1>3, <2>1, <2>2, <2>4
  <2> QED
    BY <2>3, <2>4
<1> QED
  BY <1>1, <1>7, <1>8, <1>9 DEF Delta

(* A modification that keeps the unique key. *)
LEMMA ModifyDelta ==
  ASSUME NEW st \in UndoStates, NEW b \in Snapshot, NEW a \in Snapshot, Delta(st, b, a),
         NEW i \in Ids, a.objects[i] # None, NEW v \in Values, v[1] = a.objects[i][1],
         NEW n \in Snapshot,
         n.objects = [a.objects EXCEPT ![i] = v], n.next_id = a.next_id
  PROVE  /\ RecordModify(st, i, a.objects[i]) \in UndoStates
         /\ Delta(RecordModify(st, i, a.objects[i]), b, n)
<1> DEFINE r == RecordModify(st, i, a.objects[i])
<1>1. r \in UndoStates
  BY DEF RecordModify, UndoStates, Snapshot, Entries
<1>2. v # None
  BY NoneAssumption DEF Values
<1>3. /\ r.removed = st.removed /\ r.new_ids = st.new_ids
      /\ r.old_index_next_ids = st.old_index_next_ids
      /\ \A j \in Ids : r.old_values[j] =
            IF j = i /\ i \notin st.new_ids /\ st.old_values[i] = None THEN a.objects[i]
            ELSE st.old_values[j]
  BY DEF RecordModify, UndoStates, Entries
<1>4. \A j \in Ids : n.objects[j] = IF j = i THEN v ELSE a.objects[j]
  BY DEF Snapshot, Entries
<1>5. \A j \in Ids : \/ IsNew(r, b, n, j)
                     \/ IsUpdated(r, b, n, j)
                     \/ IsRemoved(r, b, n, j)
                     \/ IsUntouched(r, b, n, j)
  BY <1>2, <1>3, <1>4 DEF Delta, IsNew, IsUpdated, IsRemoved, IsUntouched
<1> QED
  BY <1>1, <1>3, <1>5 DEF Delta

(* A removal. *)
LEMMA RemoveDelta ==
  ASSUME NEW st \in UndoStates, NEW b \in Snapshot, NEW a \in Snapshot, Delta(st, b, a),
         NEW i \in Ids, a.objects[i] # None,
         NEW n \in Snapshot,
         n.objects = [a.objects EXCEPT ![i] = None], n.next_id = a.next_id
  PROVE  /\ RecordRemove(st, i, a.objects[i]) \in UndoStates
         /\ Delta(RecordRemove(st, i, a.objects[i]), b, n)
<1> DEFINE r == RecordRemove(st, i, a.objects[i])
<1>1. \A j \in Ids : n.objects[j] = IF j = i THEN None ELSE a.objects[j]
  BY DEF Snapshot, Entries
<1>2. CASE i \in st.new_ids
  <2>1. r = [st EXCEPT !.new_ids = @ \ {i}]
    BY <1>2 DEF RecordRemove
  <2>2. r \in UndoStates
    BY <2>1 DEF UndoStates
  <2>3. /\ r.old_values = st.old_values /\ r.removed = st.removed
        /\ r.old_index_next_ids = st.old_index_next_ids
        /\ r.new_ids = st.new_ids \ {i}
    BY <2>1 DEF UndoStates
  <2> QED
    BY <1>1, <1>2, <2>2, <2>3 DEF Delta, IsNew, IsUpdated, IsRemoved, IsUntouched
<1>3. CASE i \notin st.new_ids /\ st.old_values[i] # None
  <2>1. r = [st EXCEPT !.removed[i] = st.old_values[i], !.old_values[i] = None]
    BY <1>3 DEF RecordRemove
  <2>2. r \in UndoStates
    <3>1. /\ [st.removed EXCEPT ![i] = st.old_values[i]] \in Entries
          /\ [st.old_values EXCEPT ![i] = None] \in Entries
      BY DEF UndoStates, Entries
    <3> QED
      BY <2>1, <3>1 DEF UndoStates
  <2>3. /\ r.new_ids = st.new_ids /\ r.old_index_next_ids = st.old_index_next_ids
        /\ \A j \in Ids : r.removed[j] = IF j = i THEN st.old_values[i] ELSE st.removed[j]
        /\ \A j \in Ids : r.old_values[j] = IF j = i THEN None ELSE st.old_values[j]
    BY <2>1 DEF UndoStates, Entries
  <2> QED
    BY <1>1, <1>3, <2>2, <2>3 DEF Delta, IsNew, IsUpdated, IsRemoved, IsUntouched
<1>4. CASE i \notin st.new_ids /\ st.old_values[i] = None
  <2>0. st.removed[i] = None
    BY <1>4 DEF Delta, IsNew, IsUpdated, IsRemoved, IsUntouched
  <2>1. r = [st EXCEPT !.removed[i] = a.objects[i]]
    BY <1>4, <2>0 DEF RecordRemove
  <2>2. r \in UndoStates
    BY <2>1 DEF UndoStates, Entries, Snapshot
  <2>3. /\ r.new_ids = st.new_ids /\ r.old_index_next_ids = st.old_index_next_ids
        /\ r.old_values = st.old_values
        /\ \A j \in Ids : r.removed[j] = IF j = i THEN a.objects[i] ELSE st.removed[j]
    BY <2>1 DEF UndoStates, Entries
  <2> QED
    BY <1>1, <1>4, <2>2, <2>3 DEF Delta, IsNew, IsUpdated, IsRemoved, IsUntouched
<1> QED
  BY <1>2, <1>3, <1>4

-----------------------------------------------------------------------------
(* Merging two neighbouring states composes what they stand for.  The cases *)
(* the table in merge() calls N/A are excluded by the two deltas together.  *)
LEMMA MergedType ==
  ASSUME NEW p \in UndoStates, NEW q \in UndoStates
  PROVE  Merged(p, q) \in UndoStates
  BY DEF Merged, UndoStates, Entries

(* The merged state takes the older database straight to the newer one. *)
LEMMA MergeDelta ==
  ASSUME NEW p \in UndoStates, NEW q \in UndoStates,
         NEW b \in Snapshot, NEW m \in Snapshot, NEW a \in Snapshot,
         WellFormed(b), Delta(p, b, m), Delta(q, m, a)
  PROVE  Delta(Merged(p, q), b, a)
<1> DEFINE r == Merged(p, q)
<1>0. \A t \in Types : b.next_id[t] \in Nat /\ m.next_id[t] \in Nat /\ a.next_id[t] \in Nat
  BY BoundAssumption DEF Snapshot, Counters
<1>1. ASSUME NEW i \in Ids
      PROVE  \/ IsNew(r, b, a, i)
             \/ IsUpdated(r, b, a, i)
             \/ IsRemoved(r, b, a, i)
             \/ IsUntouched(r, b, a, i)
  <2>0. i[1] \in Types /\ i[2] \in Nat
    BY BoundAssumption DEF Ids, Instances
  <2>1. CASE IsNew(q, m, a, i)
    <3>1. b.next_id[i[1]] <= i[2]
      BY <2>0, <2>1, <1>0 DEF Delta, IsNew
    <3>2. b.objects[i] = None
      BY <2>0, <3>1, <1>0 DEF WellFormed
    <3>3. IsUntouched(p, b, m, i)
      BY <2>1, <3>2 DEF Delta, IsNew, IsUpdated, IsRemoved, IsUntouched
    <3> QED
      BY <2>1, <3>1, <3>2, <3>3 DEF Merged, IsNew, IsUntouched
  <2>2. CASE IsUpdated(q, m, a, i)
    BY <2>2 DEF Merged, Delta, IsNew, IsUpdated, IsRemoved, IsUntouched
  <2>3. CASE IsRemoved(q, m, a, i)
    BY <2>3 DEF Merged, Delta, IsNew, IsUpdated, IsRemoved, IsUntouched
  <2>4. CASE IsUntouched(q, m, a, i)
    BY <2>4 DEF Merged, Delta, IsNew, IsUpdated, IsRemoved, IsUntouched
  <2> QED
    BY <2>1, <2>2, <2>3, <2>4 DEF Delta
<1>2. \A t \in Types :
        /\ b.next_id[t] <= a.next_id[t]
        /\ r.old_index_next_ids[t] = None => b.next_id[t] = a.next_id[t]
        /\ r.old_index_next_ids[t] # None => b.next_id[t] = r.old_index_next_ids[t]
  <2> SUFFICES ASSUME NEW t \in Types
               PROVE  /\ b.next_id[t] <= a.next_id[t]
                      /\ r.old_index_next_ids[t] = None => b.next_id[t] = a.next_id[t]
                      /\ r.old_index_next_ids[t] # None =>
                             b.next_id[t] = r.old_index_next_ids[t]
    OBVIOUS
  <2>1. r.old_index_next_ids[t] = IF p.old_index_next_ids[t] = None
                                  THEN q.old_index_next_ids[t] ELSE p.old_index_next_ids[t]
    BY DEF Merged
  <2>2. b.next_id[t] <= a.next_id[t]
    BY <1>0 DEF Delta
  <2>3. CASE p.old_index_next_ids[t] = None
    BY <2>1, <2>2, <2>3 DEF Delta
  <2>4. CASE p.old_index_next_ids[t] # None
    BY <2>1, <2>2, <2>4 DEF Delta
  <2> QED
    BY <2>3, <2>4
<1> QED
  BY <1>1, <1>2 DEF Delta

-----------------------------------------------------------------------------
(* Facts about the whole stack, from the facts about its states. *)

(* The top of the stack is taken back or merged away, the rest stays. *)
LEMMA PopType ==
  ASSUME NEW S, NEW s \in Seq(S), s # <<>>
  PROVE  /\ Pop(s) \in Seq(S)
         /\ Len(Pop(s)) = Len(s) - 1
         /\ \A k \in 1..(Len(s) - 1) : Pop(s)[k] = s[k]
         /\ Top(s) \in S
         /\ Len(s) \in 1..Len(s)
<1>1. Len(s) \in Nat \ {0} /\ s[Len(s)] \in S
  OBVIOUS
<1>2. SubSeq(s, 1, Len(s) - 1) \in Seq(S)
  BY <1>1
<1>3. /\ Len(SubSeq(s, 1, Len(s) - 1)) = Len(s) - 1
      /\ \A k \in 1..(Len(s) - 1) : SubSeq(s, 1, Len(s) - 1)[k] = s[k]
  <2> DEFINE n == Len(s) - 1
  <2>1. n \in Nat /\ n <= Len(s)
    BY <1>1
  <2> HIDE DEF n
  <2>2. Len(SubSeq(s, 1, n)) = n /\ \A k \in 1..n : SubSeq(s, 1, n)[k] = s[k]
    BY <2>1
  <2> QED
    BY <2>2 DEF n
<1> QED
  BY <1>1, <1>2, <1>3 DEF Pop, Top

(* Replacing the top state changes nothing below it. *)
LEMMA SetTopType ==
  ASSUME NEW S, NEW s \in Seq(S), s # <<>>, NEW x \in S
  PROVE  /\ SetTop(s, x) \in Seq(S)
         /\ Len(SetTop(s, x)) = Len(s)
         /\ SetTop(s, x)[Len(s)] = x
         /\ \A k \in 1..(Len(s) - 1) : SetTop(s, x)[k] = s[k]
  BY DEF SetTop

(* Pushing a state changes nothing below it. *)
LEMMA AppendType ==
  ASSUME NEW S, NEW s \in Seq(S), NEW x \in S
  PROVE  /\ Append(s, x) \in Seq(S)
         /\ Len(Append(s, x)) = Len(s) + 1
         /\ \A k \in 1..Len(s) : Append(s, x)[k] = s[k]
         /\ Append(s, x)[Len(s) + 1] = x
  OBVIOUS

(* The while loop of start_undo_session keeps the newest states. *)
LEMMA PrunedType ==
  ASSUME NEW S, NEW s \in Seq(S), NEW limit \in Nat \ {0}
  PROVE  /\ Pruned(s, limit) \in Seq(S)
         /\ Len(Pruned(s, limit)) = IF Len(s) > limit THEN limit ELSE Len(s)
         /\ \A k \in 1..Len(Pruned(s, limit)) :
               Pruned(s, limit)[k] = s[k + (Len(s) - Len(Pruned(s, limit)))]
<1>1. CASE Len(s) > limit
  <2> DEFINE lo == Len(s) - limit + 1
  <2>1. Len(s) \in Nat /\ lo \in 1..Len(s) /\ Pruned(s, limit) = SubSeq(s, lo, Len(s))
    BY <1>1 DEF Pruned
  <2>2. SubSeq(s, lo, Len(s)) \in Seq(S)
    BY <2>1
  <2>3. Len(SubSeq(s, lo, Len(s))) = limit
    BY <2>1
  <2>4. \A k \in 1..limit : SubSeq(s, lo, Len(s))[k] = s[k + (Len(s) - limit)]
    BY <2>1
  <2> QED
    BY <1>1, <2>1, <2>2, <2>3, <2>4
<1>2. CASE ~(Len(s) > limit)
  <2>1. Pruned(s, limit) = s
    BY <1>2 DEF Pruned
  <2> QED
    BY <1>2, <2>1
<1> QED
  BY <1>1, <1>2

(* undo() and pop_commit(): the copy put back is again the end of a chain. *)
LEMMA ChainPop ==
  ASSUME NEW s \in Seq(UndoStates), NEW c \in Seq(Snapshot), NEW cur \in Snapshot,
         Chain(s, c, cur), s # <<>>
  PROVE  Chain(Pop(s), Pop(c), Top(c))
<1>0. c # <<>> /\ Len(c) = Len(s) /\ Len(s) \in Nat \ {0}
  BY DEF Chain
<1>1. /\ Len(Pop(s)) = Len(s) - 1 /\ Len(Pop(c)) = Len(s) - 1
      /\ \A k \in 1..(Len(s) - 1) : Pop(s)[k] = s[k] /\ Pop(c)[k] = c[k]
  BY <1>0, PopType
<1>2. WellFormed(Top(c))
  BY <1>0 DEF Chain, Top
<1>3. ASSUME NEW k \in 1..(Len(s) - 1)
      PROVE  /\ WellFormed(Pop(c)[k])
             /\ Delta(Pop(s)[k], Pop(c)[k], IF k = Len(s) - 1 THEN Top(c) ELSE Pop(c)[k + 1])
  <2>1. /\ WellFormed(c[k]) /\ Delta(s[k], c[k], c[k + 1])
    BY <1>0 DEF Chain
  <2>2. c[k + 1] = IF k = Len(s) - 1 THEN Top(c) ELSE Pop(c)[k + 1]
    BY <1>0, <1>1 DEF Top
  <2> QED
    BY <2>1, <2>2, <1>1
<1> QED
  BY <1>1, <1>2, <1>3 DEF Chain

(* A change recorded in the top state. *)
LEMMA ChainChange ==
  ASSUME NEW s \in Seq(UndoStates), NEW c \in Seq(Snapshot), NEW cur \in Snapshot,
         Chain(s, c, cur), s # <<>>,
         NEW n \in Snapshot, WellFormed(n),
         NEW st \in UndoStates, Delta(st, Top(c), n)
  PROVE  Chain(SetTop(s, st), c, n)
<1>0. c # <<>> /\ Len(c) = Len(s) /\ Len(s) \in Nat \ {0}
  BY DEF Chain
<1>1. /\ Len(SetTop(s, st)) = Len(s)
      /\ SetTop(s, st)[Len(s)] = st
      /\ \A k \in 1..(Len(s) - 1) : SetTop(s, st)[k] = s[k]
  BY SetTopType
<1>2. ASSUME NEW k \in 1..Len(s)
      PROVE  /\ WellFormed(c[k])
             /\ Delta(SetTop(s, st)[k], c[k], IF k = Len(s) THEN n ELSE c[k + 1])
  <2>1. CASE k = Len(s)
    BY <1>0, <1>1, <2>1 DEF Chain, Top
  <2>2. CASE k # Len(s)
    BY <1>0, <1>1, <2>2 DEF Chain
  <2> QED
    BY <2>1, <2>2
<1> QED
  BY <1>0, <1>1, <1>2 DEF Chain

(* start_undo_session(): old states go, an empty one is pushed. *)
LEMMA ChainPush ==
  ASSUME NEW s \in Seq(UndoStates), NEW c \in Seq(Snapshot), NEW cur \in Snapshot,
         Chain(s, c, cur), NEW limit \in Nat \ {0}
  PROVE  Chain(Append(Pruned(s, limit), EmptyState), Append(Pruned(c, limit), cur), cur)
<1> DEFINE ps == Pruned(s, limit)
           pc == Pruned(c, limit)
           L == Len(ps)
           d == Len(s) - L
<1>0. Len(c) = Len(s) /\ Len(s) \in Nat
  BY DEF Chain
<1>1. ps \in Seq(UndoStates) /\ pc \in Seq(Snapshot)
  BY PrunedType
<1>2. /\ L \in Nat /\ d \in Nat /\ L + d = Len(s) /\ Len(pc) = L
      /\ \A k \in 1..L : ps[k] = s[k + d] /\ pc[k] = c[k + d]
  <2>1. /\ Len(ps) = IF Len(s) > limit THEN limit ELSE Len(s)
        /\ \A k \in 1..Len(ps) : ps[k] = s[k + (Len(s) - Len(ps))]
    BY PrunedType
  <2>2. /\ Len(pc) = IF Len(c) > limit THEN limit ELSE Len(c)
        /\ \A k \in 1..Len(pc) : pc[k] = c[k + (Len(c) - Len(pc))]
    BY PrunedType
  <2> HIDE DEF ps, pc
  <2>3. L \in Nat /\ d \in Nat /\ L + d = Len(s) /\ Len(pc) = L
    BY <1>0, <2>1, <2>2
  <2>4. Len(c) - Len(pc) = d
    BY <1>0, <2>3
  <2> QED
    BY <2>1, <2>2, <2>3, <2>4
<1> HIDE DEF ps, pc, L, d
<1>3. /\ Len(Append(ps, EmptyState)) = L + 1 /\ Len(Append(pc, cur)) = L + 1
      /\ \A k \in 1..L : Append(ps, EmptyState)[k] = ps[k] /\ Append(pc, cur)[k] = pc[k]
      /\ Append(ps, EmptyState)[L + 1] = EmptyState /\ Append(pc, cur)[L + 1] = cur
  BY <1>1, <1>2, EmptyStateType DEF L
<1>4. ASSUME NEW k \in 1..(L + 1)
      PROVE  /\ WellFormed(Append(pc, cur)[k])
             /\ Delta(Append(ps, EmptyState)[k], Append(pc, cur)[k],
                      IF k = L + 1 THEN cur ELSE Append(pc, cur)[k + 1])
  <2>1. CASE k = L + 1
    BY <2>1, <1>3, EmptyDelta DEF Chain
  <2>2. CASE k = L /\ k # L + 1
    <3>1. k \in 1..L /\ k + d = Len(s) /\ k + d \in 1..Len(s)
      BY <2>2, <1>2
    <3>2. WellFormed(c[k + d]) /\ Delta(s[k + d], c[k + d], cur)
      BY <3>1 DEF Chain
    <3>3. Append(pc, cur)[k + 1] = cur
      BY <2>2, <1>3
    <3> QED
      BY <2>2, <3>1, <3>2, <3>3, <1>2, <1>3
  <2>3. CASE k # L /\ k # L + 1
    <3>1. /\ k \in 1..L /\ k + d \in 1..Len(s) /\ k + d # Len(s)
          /\ k + 1 \in 1..L /\ (k + 1) + d = (k + d) + 1
      BY <2>3, <1>2
    <3>2. WellFormed(c[k + d]) /\ Delta(s[k + d], c[k + d], c[(k + d) + 1])
      BY <3>1 DEF Chain
    <3>3. Append(pc, cur)[k + 1] = c[(k + d) + 1]
      BY <3>1, <1>2, <1>3
    <3> QED
      BY <2>3, <3>1, <3>2, <3>3, <1>2, <1>3
  <2> QED
    BY <2>1, <2>2, <2>3
<1> QED
  BY <1>2, <1>3, <1>4 DEF Chain, ps, pc

(* merge(): the two top states become one. *)
LEMMA ChainMerge ==
  ASSUME NEW s \in Seq(UndoStates), NEW c \in Seq(Snapshot), NEW cur \in Snapshot,
         Chain(s, c, cur), Len(s) >= 2
  PROVE  Chain(SetTop(Pop(s), Merged(s[Len(s) - 1], Top(s))), Pop(c), cur)
<1> DEFINE p == s[Len(s) - 1]
           q == Top(s)
           b == c[Len(s) - 1]
           m == Top(c)
<1>0. Len(c) = Len(s) /\ Len(s) \in Nat /\ s # <<>> /\ c # <<>>
  BY DEF Chain
<1>1. p \in UndoStates /\ q \in UndoStates /\ b \in Snapshot /\ m \in Snapshot
  BY <1>0 DEF Top
<1>2. Chain(Pop(s), Pop(c), m)
  BY <1>0, ChainPop
<1>3. /\ Pop(s) \in Seq(UndoStates) /\ Len(Pop(s)) = Len(s) - 1 /\ Pop(s) # <<>>
      /\ Pop(c) \in Seq(Snapshot) /\ Len(Pop(c)) = Len(s) - 1 /\ Top(Pop(c)) = b
  <2>1. /\ Pop(s) \in Seq(UndoStates) /\ Len(Pop(s)) = Len(s) - 1
    BY <1>0, PopType
  <2>2. /\ Pop(c) \in Seq(Snapshot) /\ Len(Pop(c)) = Len(c) - 1
        /\ \A k \in 1..(Len(c) - 1) : Pop(c)[k] = c[k]
    BY <1>0, PopType
  <2> QED
    BY <1>0, <2>1, <2>2 DEF Top
<1>4. Delta(p, b, m) /\ Delta(q, m, cur) /\ WellFormed(b) /\ WellFormed(cur)
  BY <1>0 DEF Chain, Top
<1>5. Delta(Merged(p, q), b, cur)
  BY <1>1, <1>4, MergeDelta
<1>6. Merged(p, q) \in UndoStates
  BY <1>1, MergedType
<1> QED
  BY <1>1, <1>2, <1>3, <1>4, <1>5, <1>6, ChainChange

-----------------------------------------------------------------------------
(* The invariant of the specification. *)

(* The objects and counters together are a copy a session could keep. *)
LEMMA CurrentType ==
  ASSUME TypeOK
  PROVE  Current \in Snapshot
  BY DEF TypeOK, Current, Snapshot

(* The stack a change is recorded on: never empty, and a chain like any other. *)
LEMMA OpenedChain ==
  ASSUME IInv
  PROVE  /\ Opened \in Seq(UndoStates) /\ Opened # <<>>
         /\ OpenedSnaps \in Seq(Snapshot)
         /\ Len(Opened) >= Len(stack)
         /\ stack # <<>> => Opened = stack
         /\ Chain(Opened, OpenedSnaps, Current)
         /\ Top(Opened) \in UndoStates /\ Top(OpenedSnaps) \in Snapshot
         /\ WellFormed(Top(OpenedSnaps))
         /\ Delta(Top(Opened), Top(OpenedSnaps), Current)
<1>0. TypeOK /\ Chain(stack, snaps, Current) /\ Current \in Snapshot
  BY CurrentType DEF IInv, DeltasDescribeHistory
<1>1. stack \in Seq(UndoStates) /\ snaps \in Seq(Snapshot)
  BY <1>0 DEF TypeOK
<1>2. CASE stack = <<>>
  <2>1. Opened = <<EmptyState>> /\ OpenedSnaps = <<Current>>
    BY <1>2 DEF Opened, OpenedSnaps
  <2>2. EmptyState \in UndoStates /\ Delta(EmptyState, Current, Current) /\ WellFormed(Current)
    BY <1>0, EmptyStateType, EmptyDelta DEF Chain
  <2>3. /\ <<EmptyState>> \in Seq(UndoStates) /\ <<Current>> \in Seq(Snapshot)
        /\ Len(<<EmptyState>>) = 1 /\ Len(<<Current>>) = 1
        /\ <<EmptyState>>[1] = EmptyState /\ <<Current>>[1] = Current
    BY <1>0, <2>2
  <2>4. Chain(<<EmptyState>>, <<Current>>, Current)
    BY <2>2, <2>3 DEF Chain
  <2>5. Top(<<EmptyState>>) = EmptyState /\ Top(<<Current>>) = Current
    BY <2>3 DEF Top
  <2>6. <<EmptyState>> # <<>> /\ Len(<<EmptyState>>) >= Len(stack)
    BY <1>2, <2>3
  <2> QED
    BY <1>0, <1>2, <2>1, <2>2, <2>3, <2>4, <2>5, <2>6
<1>3. CASE stack # <<>>
  <2>1. Opened = stack /\ OpenedSnaps = snaps
    BY <1>3 DEF Opened, OpenedSnaps
  <2>2. Len(snaps) = Len(stack) /\ snaps # <<>> /\ Len(stack) \in Nat \ {0}
    BY <1>0, <1>1, <1>3 DEF Chain
  <2>3. WellFormed(Top(snaps)) /\ Delta(Top(stack), Top(snaps), Current)
    BY <1>0, <2>2 DEF Chain, Top
  <2>4. Top(stack) \in UndoStates /\ Top(snaps) \in Snapshot
    BY <1>1, <1>3, <2>2, PopType
  <2> QED
    BY <1>0, <1>1, <1>3, <2>1, <2>2, <2>3, <2>4
<1> QED
  BY <1>2, <1>3

(* A change keeps the invariant when its record describes it. *)
LEMMA RecordedChange ==
  ASSUME IInv, NEW st, Record(st),
         objects' \in Entries, next_id' \in Counters, WellFormed(Current'),
         st \in UndoStates /\ Delta(st, Top(OpenedSnaps), Current'),
         UNCHANGED <<active_sessions, disabled, max_size, handles>>
  PROVE  IInv'
<1>0. TypeOK /\ OpenSessionsKept /\ ForcedSession /\ Chain(stack, snaps, Current)
  BY DEF IInv, DeltasDescribeHistory
<1>1. Current' \in Snapshot
  BY DEF Current, Snapshot
<1>2. CASE disabled
  <2>1. stack = <<>> /\ stack' = stack /\ snaps' = snaps
    BY <1>0, <1>2 DEF OpenSessionsKept, Record
  <2>2. Len(snaps') = Len(stack') /\ 1..Len(stack') = {}
    BY <1>0, <2>1 DEF Chain
  <2>3. Chain(stack', snaps', Current')
    BY <2>2 DEF Chain
  <2>4. TypeOK'
    BY <1>0, <2>1 DEF TypeOK
  <2>5. OpenSessionsKept'
    BY <1>0, <2>1 DEF OpenSessionsKept
  <2>6. ForcedSession'
    BY <1>0, <2>1 DEF ForcedSession
  <2> QED
    BY <2>3, <2>4, <2>5, <2>6 DEF IInv, DeltasDescribeHistory
<1>3. CASE ~disabled
  <2>1. stack' = SetTop(Opened, st) /\ snaps' = OpenedSnaps
    BY <1>3 DEF Record
  <2>2. Chain(stack', snaps', Current')
    <3>1. /\ Opened \in Seq(UndoStates) /\ Opened # <<>> /\ OpenedSnaps \in Seq(Snapshot)
          /\ Chain(Opened, OpenedSnaps, Current)
      BY OpenedChain
    <3>2. Current \in Snapshot
      BY <1>0, CurrentType
    <3> QED
      BY <1>1, <2>1, <3>1, <3>2, ChainChange
  <2>3. /\ stack' \in Seq(UndoStates) /\ snaps' \in Seq(Snapshot)
        /\ Len(stack') >= Len(stack)
    BY <2>1, OpenedChain, SetTopType
  <2>4. TypeOK'
    BY <1>0, <2>3 DEF TypeOK
  <2>5. OpenSessionsKept'
    <3>1. stack \in Seq(UndoStates) /\ active_sessions \in Nat
      BY <1>0 DEF TypeOK
    <3> QED
      BY <1>0, <1>3, <2>3, <3>1 DEF OpenSessionsKept
  <2>6. ForcedSession'
    <3>1. ASSUME NEW k \in 1..Len(handles), handles[k]
          PROVE  k = 1 /\ Len(stack') = Len(handles)
      <4>1. k = 1 /\ Len(stack) = Len(handles)
        BY <1>0, <3>1 DEF ForcedSession
      <4>2. stack # <<>>
        BY <4>1
      <4>3. Len(stack') = Len(stack)
        BY <2>1, <4>2, OpenedChain, SetTopType
      <4> QED
        BY <4>1, <4>3
    <3> QED
      BY <3>1 DEF ForcedSession
  <2> QED
    BY <2>2, <2>4, <2>5, <2>6 DEF IInv, DeltasDescribeHistory
<1> QED
  BY <1>2, <1>3

(* primary_index::create keeps the invariant. *)
LEMMA CreateStep ==
  ASSUME IInv, NEW t \in Types, NEW v \in Values, Create(t, v)
  PROVE  IInv'
<1> DEFINE i == <<t, next_id[t]>>
           st == RecordCreate(Top(Opened), i)
<1>0. TypeOK /\ WellFormed(Current) /\ Current \in Snapshot
  BY CurrentType DEF IInv, DeltasDescribeHistory, Chain
<1>1. /\ next_id[t] \in Instances /\ UniqueKeys(objects')
      /\ objects' = [objects EXCEPT ![i] = v]
      /\ next_id' = [next_id EXCEPT ![t] = @ + 1]
      /\ Record(st)
      /\ UNCHANGED <<active_sessions, disabled, max_size, handles>>
  BY DEF Create
<1>2. i \in Ids /\ i[1] = t /\ i[2] = next_id[t]
  BY <1>1 DEF Ids
<1>3. objects' \in Entries
  BY <1>0, <1>1, <1>2 DEF TypeOK, Entries
<1>4. next_id' \in Counters
  BY <1>0, <1>1, BoundAssumption DEF TypeOK, Counters, Instances
<1>5. Current' \in Snapshot /\ Current'.objects = objects' /\ Current'.next_id = next_id'
  BY <1>3, <1>4 DEF Current, Snapshot
<1>6. WellFormed(Current')
  <2>1. \A u \in Types : next_id[u] \in Nat
    BY <1>0, BoundAssumption DEF TypeOK, Counters
  <2>2. \A u \in Types : next_id'[u] = IF u = t THEN next_id[u] + 1 ELSE next_id[u]
    BY <1>0, <1>1 DEF TypeOK, Counters
  <2>3. \A j \in Ids : objects'[j] = IF j = i THEN v ELSE objects[j]
    BY <1>0, <1>1, <1>2 DEF TypeOK, Entries
  <2>4. \A j \in Ids : j[1] \in Types /\ j[2] \in Nat
    BY BoundAssumption DEF Ids, Instances
  <2>5. \A j \in Ids : objects[j] # None => j[2] < next_id[j[1]]
    BY <1>0 DEF WellFormed, Current
  <2>6. \A j \in Ids : objects'[j] # None => j[2] < next_id'[j[1]]
    BY <1>2, <2>1, <2>2, <2>3, <2>4, <2>5
  <2> QED
    BY <1>1, <1>5, <2>6 DEF WellFormed
<1>7. st \in UndoStates /\ Delta(st, Top(OpenedSnaps), Current')
  <2>1. Current.objects = objects /\ Current.next_id = next_id
    BY DEF Current
  <2>2. /\ Top(Opened) \in UndoStates /\ Top(OpenedSnaps) \in Snapshot
        /\ WellFormed(Top(OpenedSnaps)) /\ Delta(Top(Opened), Top(OpenedSnaps), Current)
    BY OpenedChain
  <2>3. /\ Current.next_id[t] \in Instances
        /\ Current'.objects = [Current.objects EXCEPT ![<<t, Current.next_id[t]>>] = v]
        /\ Current'.next_id = [Current.next_id EXCEPT ![t] = Current.next_id[t] + 1]
        /\ st = RecordCreate(Top(Opened), <<t, Current.next_id[t]>>)
    BY <1>1, <1>5, <2>1
  <2> HIDE DEF st
  <2> QED
    BY <1>0, <1>5, <2>2, <2>3, CreateDelta
<1> HIDE DEF st
<1> QED
  BY <1>1, <1>3, <1>4, <1>6, <1>7, RecordedChange

(* primary_index::modify keeps the invariant. *)
LEMMA ModifyStep ==
  ASSUME IInv, NEW i \in Ids, NEW d \in Data, Modify(i, d)
  PROVE  IInv'
<1> DEFINE st == RecordModify(Top(Opened), i, objects[i])
           v == <<objects[i][1], d>>
<1>0. TypeOK /\ WellFormed(Current) /\ Current \in Snapshot
  BY CurrentType DEF IInv, DeltasDescribeHistory, Chain
<1>1. /\ objects[i] # None
      /\ objects' = [objects EXCEPT ![i] = v]
      /\ next_id' = next_id
      /\ Record(st)
      /\ UNCHANGED <<active_sessions, disabled, max_size, handles>>
  BY DEF Modify
<1>2. v \in Values /\ v[1] = objects[i][1] /\ v # None
  BY <1>0, <1>1, NoneAssumption DEF TypeOK, Entries, Values
<1>3. objects' \in Entries /\ next_id' \in Counters
  BY <1>0, <1>1, <1>2 DEF TypeOK, Entries
<1>4. Current' \in Snapshot /\ Current'.objects = objects' /\ Current'.next_id = next_id'
  BY <1>3 DEF Current, Snapshot
<1>5. WellFormed(Current')
  <2>1. \A j \in Ids : objects'[j] = IF j = i THEN v ELSE objects[j]
    BY <1>0, <1>1 DEF TypeOK, Entries
  <2>2. \A j \in Ids : /\ objects'[j] # None <=> objects[j] # None
                       /\ objects'[j] # None => objects'[j][1] = objects[j][1]
    BY <1>1, <1>2, <2>1
  <2>3. UniqueKeys(objects')
    BY <1>0, <2>2 DEF WellFormed, UniqueKeys, Current
  <2> QED
    BY <1>0, <1>1, <1>4, <2>2, <2>3 DEF WellFormed, Current
<1>6. st \in UndoStates /\ Delta(st, Top(OpenedSnaps), Current')
  <2>1. Current.objects = objects /\ Current.next_id = next_id
    BY DEF Current
  <2>2. /\ Top(Opened) \in UndoStates /\ Top(OpenedSnaps) \in Snapshot
        /\ Delta(Top(Opened), Top(OpenedSnaps), Current)
    BY OpenedChain
  <2>3. /\ Current.objects[i] # None /\ v \in Values /\ v[1] = Current.objects[i][1]
        /\ Current'.objects = [Current.objects EXCEPT ![i] = v]
        /\ Current'.next_id = Current.next_id
        /\ st = RecordModify(Top(Opened), i, Current.objects[i])
    BY <1>1, <1>2, <1>4, <2>1
  <2> HIDE DEF v, st
  <2> QED
    BY <1>0, <1>4, <2>2, <2>3, ModifyDelta
<1> HIDE DEF st
<1> QED
  BY <1>1, <1>3, <1>5, <1>6, RecordedChange

(* primary_index::remove keeps the invariant. *)
LEMMA RemoveStep ==
  ASSUME IInv, NEW i \in Ids, Remove(i)
  PROVE  IInv'
<1> DEFINE st == RecordRemove(Top(Opened), i, objects[i])
<1>0. TypeOK /\ WellFormed(Current) /\ Current \in Snapshot
  BY CurrentType DEF IInv, DeltasDescribeHistory, Chain
<1>1. /\ objects[i] # None
      /\ objects' = [objects EXCEPT ![i] = None]
      /\ next_id' = next_id
      /\ Record(st)
      /\ UNCHANGED <<active_sessions, disabled, max_size, handles>>
  BY DEF Remove
<1>3. objects' \in Entries /\ next_id' \in Counters
  BY <1>0, <1>1 DEF TypeOK, Entries
<1>4. Current' \in Snapshot /\ Current'.objects = objects' /\ Current'.next_id = next_id'
  BY <1>3 DEF Current, Snapshot
<1>5. WellFormed(Current')
  <2>1. \A j \in Ids : objects'[j] = IF j = i THEN None ELSE objects[j]
    BY <1>0, <1>1 DEF TypeOK, Entries
  <2>2. UniqueKeys(objects')
    BY <1>0, <2>1 DEF WellFormed, UniqueKeys, Current
  <2> QED
    BY <1>0, <1>1, <1>4, <2>1, <2>2 DEF WellFormed, Current
<1>6. st \in UndoStates /\ Delta(st, Top(OpenedSnaps), Current')
  <2>1. Current.objects = objects /\ Current.next_id = next_id
    BY DEF Current
  <2>2. /\ Top(Opened) \in UndoStates /\ Top(OpenedSnaps) \in Snapshot
        /\ Delta(Top(Opened), Top(OpenedSnaps), Current)
    BY OpenedChain
  <2> QED
    BY <1>0, <1>1, <1>4, <2>1, <2>2, RemoveDelta
<1> HIDE DEF st
<1> QED
  BY <1>1, <1>3, <1>5, <1>6, RecordedChange

(* A session is pushed: no open session loses its state if the limit leaves *)
(* room for all of them.                                                     *)
LEMMA PushStep ==
  ASSUME IInv, NEW limit \in Nat \ {0}, NEW flag \in BOOLEAN,
         active_sessions <= limit, flag => disabled, PushState(limit, flag)
  PROVE  IInv'
<1>0. TypeOK /\ OpenSessionsKept /\ ForcedSession /\ Chain(stack, snaps, Current) /\ Current \in Snapshot
  BY CurrentType DEF IInv, DeltasDescribeHistory
<1>1. /\ stack' = Append(Pruned(stack, limit), EmptyState)
      /\ snaps' = Append(Pruned(snaps, limit), Current)
      /\ max_size' = limit
      /\ handles' = Append(handles, flag)
      /\ active_sessions' = active_sessions + 1
      /\ disabled' = FALSE
      /\ objects' = objects /\ next_id' = next_id
  BY DEF PushState, db
<1>2. stack \in Seq(UndoStates) /\ snaps \in Seq(Snapshot)
  BY <1>0 DEF TypeOK
<1>3. /\ Pruned(stack, limit) \in Seq(UndoStates)
      /\ Len(Pruned(stack, limit)) = IF Len(stack) > limit THEN limit ELSE Len(stack)
  BY <1>2, PrunedType
<1>4. Pruned(snaps, limit) \in Seq(Snapshot)
  BY <1>2, PrunedType
<1>5. /\ stack' \in Seq(UndoStates) /\ Len(stack') = Len(Pruned(stack, limit)) + 1
      /\ snaps' \in Seq(Snapshot)
  BY <1>0, <1>1, <1>3, <1>4, EmptyStateType
<1>6. TypeOK'
  <2>1. handles' \in Seq(BOOLEAN)
    <3>1. handles \in Seq(BOOLEAN)
      BY <1>0 DEF TypeOK
    <3> QED
      BY <1>1, <3>1, AppendType, Zenon
  <2>2. active_sessions' \in Nat
    BY <1>0, <1>1 DEF TypeOK
  <2> QED
    BY <1>0, <1>1, <1>5, <2>1, <2>2 DEF TypeOK
<1>7. OpenSessionsKept'
  <2>1. active_sessions \in Nat /\ Len(stack) \in Nat /\ handles \in Seq(BOOLEAN)
    BY <1>0 DEF TypeOK
  <2>2. active_sessions <= Len(Pruned(stack, limit))
    BY <1>0, <1>3, <2>1 DEF OpenSessionsKept
  <2>3. Len(handles') = Len(handles) + 1
    BY <1>1, <2>1
  <2> QED
    BY <1>0, <1>1, <1>3, <1>5, <2>1, <2>2, <2>3 DEF OpenSessionsKept
<1>8. Chain(stack', snaps', Current')
  <2>1. Current' = Current
    BY <1>1 DEF Current
  <2> QED
    BY <1>0, <1>1, <1>2, <2>1, ChainPush
<1>9. ForcedSession'
  <2>0. /\ handles \in Seq(BOOLEAN) /\ Len(handles) \in Nat /\ Len(stack) \in Nat
        /\ active_sessions = Len(handles) /\ active_sessions <= Len(stack)
    BY <1>0, <1>2 DEF TypeOK, OpenSessionsKept
  <2>1. /\ Len(handles') = Len(handles) + 1 /\ handles'[Len(handles) + 1] = flag
        /\ \A k \in 1..Len(handles) : handles'[k] = handles[k]
    BY <1>1, <2>0, AppendType
  <2>2. ASSUME NEW k \in 1..Len(handles'), handles'[k]
        PROVE  k = 1 /\ Len(stack') = Len(handles')
    <3>1. CASE k = Len(handles) + 1
      <4>1. disabled
        BY <2>1, <2>2, <3>1
      <4>2. stack = <<>> /\ Len(stack) = 0 /\ Len(handles) = 0
        BY <1>0, <2>0, <4>1 DEF OpenSessionsKept
      <4> QED
        BY <1>3, <1>5, <2>1, <3>1, <4>2
    <3>2. CASE k # Len(handles) + 1
      <4>1. k \in 1..Len(handles) /\ handles[k]
        BY <2>0, <2>1, <2>2, <3>2
      <4>2. k = 1 /\ Len(stack) = Len(handles)
        BY <1>0, <4>1 DEF ForcedSession
      <4> QED
        BY <1>3, <1>5, <2>0, <2>1, <4>2
    <3> QED
      BY <3>1, <3>2
  <2> QED
    BY <2>2 DEF ForcedSession
<1> QED
  BY <1>6, <1>7, <1>8, <1>9 DEF IInv, DeltasDescribeHistory

(* Taking the top state back leads to the copy below, in every detail. *)
LEMMA PopRestores ==
  ASSUME IInv, stack # <<>>, PopAndRestore
  PROVE  /\ Current' = Top(snaps)
         /\ objects' \in Entries /\ next_id' \in Counters
         /\ stack' \in Seq(UndoStates) /\ Len(stack') = Len(stack) - 1
         /\ snaps' \in Seq(Snapshot)
         /\ Chain(stack', snaps', Current')
<1>0. TypeOK /\ Chain(stack, snaps, Current) /\ Current \in Snapshot
  BY CurrentType DEF IInv, DeltasDescribeHistory
<1>1. stack \in Seq(UndoStates) /\ snaps \in Seq(Snapshot)
  BY <1>0 DEF TypeOK
<1>2. Opened = stack /\ OpenedSnaps = snaps
  BY DEF Opened, OpenedSnaps
<1>3. /\ Top(stack) \in UndoStates /\ Top(snaps) \in Snapshot
      /\ Delta(Top(stack), Top(snaps), Current)
  BY <1>2, OpenedChain
<1>4. snaps # <<>>
  BY <1>0, <1>1 DEF Chain
<1>5. objects' = Top(snaps).objects
  <2>1. Restored(Top(stack), Current.objects) = Top(snaps).objects
    BY <1>0, <1>3, RestoredObjects
  <2> QED
    BY <2>1 DEF PopAndRestore, Current
<1>6. next_id' = Top(snaps).next_id
  <2>1. RestoreNextIds(Top(stack), Current.next_id) = Top(snaps).next_id
    BY <1>0, <1>3, RestoredNextIds
  <2> QED
    BY <2>1 DEF PopAndRestore, Current
<1>7. Current' = Top(snaps)
  BY <1>3, <1>5, <1>6 DEF Current, Snapshot
<1>8. objects' \in Entries /\ next_id' \in Counters
  BY <1>3, <1>5, <1>6 DEF Snapshot
<1>9. stack' = Pop(stack) /\ snaps' = Pop(snaps)
  BY DEF PopAndRestore
<1>10. stack' \in Seq(UndoStates) /\ Len(stack') = Len(stack) - 1
  BY <1>1, <1>9, PopType
<1>11. snaps' \in Seq(Snapshot)
  BY <1>1, <1>4, <1>9, PopType
<1>12. Chain(stack', snaps', Current')
  BY <1>0, <1>1, <1>7, <1>9, ChainPop
<1> QED
  BY <1>7, <1>8, <1>10, <1>11, <1>12

(* The session object goes: one handle and one active session fewer. *)
LEMMA EndHandleStep ==
  ASSUME IInv, NEW off \in BOOLEAN, EndHandle(off)
  PROVE  /\ handles' \in Seq(BOOLEAN)
         /\ disabled' \in BOOLEAN
         /\ active_sessions' \in Nat
         /\ active_sessions' = active_sessions - 1
         /\ active_sessions' = Len(handles')
         /\ max_size' = max_size
         /\ disabled' => off \/ (Len(stack) = 1 /\ Len(handles) = 1)
         /\ \A k \in 1..Len(handles') : handles'[k] => k = 1 /\ Len(stack) = Len(handles)
<1>0. /\ handles \in Seq(BOOLEAN) /\ handles # <<>> /\ active_sessions = Len(handles)
      /\ handles' = Pop(handles) /\ disabled' = (off \/ Top(handles))
      /\ active_sessions' = active_sessions - 1 /\ max_size' = max_size
  BY DEF IInv, TypeOK, OpenSessionsKept, EndHandle
<1>1. Pop(handles) \in Seq(BOOLEAN) /\ Len(Pop(handles)) = Len(handles) - 1
  BY <1>0, PopType
<1>2. Len(handles) \in Nat \ {0}
  BY <1>0
<1>3. \A k \in 1..(Len(handles) - 1) : Pop(handles)[k] = handles[k]
  BY <1>0, PopType
<1>4. \A k \in 1..Len(handles) : handles[k] => k = 1 /\ Len(stack) = Len(handles)
  BY DEF IInv, ForcedSession
<1>5. \A k \in 1..Len(handles') : handles'[k] => k = 1 /\ Len(stack) = Len(handles)
  BY <1>0, <1>1, <1>2, <1>3, <1>4
<1>6. Top(handles) => Len(stack) = 1 /\ Len(handles) = 1
  <2>1. Len(handles) \in 1..Len(handles)
    BY <1>2
  <2>2. handles[Len(handles)] => Len(handles) = 1 /\ Len(stack) = Len(handles)
    BY <1>4, <2>1, Zenon
  <2>3. Top(handles) <=> handles[Len(handles)]
    BY Zenon DEF Top
  <2> QED
    BY <2>2, <2>3
<1>7. disabled' \in BOOLEAN /\ (disabled' => off \/ (Len(stack) = 1 /\ Len(handles) = 1))
  BY <1>0, <1>6, Zenon
<1> QED
  BY <1>0, <1>1, <1>2, <1>5, <1>6, <1>7

(* start_undo_session keeps the invariant: at most one session is open. *)
LEMMA StartSessionStep ==
  ASSUME IInv, StartSession
  PROVE  IInv'
<1>1. max_size \in Nat \ {0} /\ active_sessions \in Nat
  BY DEF IInv, TypeOK
<1>2. PushState(max_size, FALSE) /\ active_sessions <= 1
  BY DEF StartSession
<1>3. active_sessions <= max_size
  BY <1>1, <1>2
<1> QED
  BY <1>1, <1>2, <1>3, PushStep

(* The session of push_proposal keeps the invariant: the limit is raised first. *)
LEMMA StartProposalSessionStep ==
  ASSUME IInv, StartProposalSession
  PROVE  IInv'
<1> DEFINE limit == IF Len(stack) >= max_size THEN Len(stack) + 1 ELSE max_size
<1>1. /\ max_size \in Nat \ {0} /\ active_sessions \in Nat /\ disabled \in BOOLEAN
      /\ Len(stack) \in Nat /\ active_sessions <= Len(stack)
  BY DEF IInv, TypeOK, OpenSessionsKept
<1>2. PushState(limit, disabled)
  BY DEF StartProposalSession
<1>3. limit \in Nat \ {0} /\ active_sessions <= limit
  BY <1>1
<1> HIDE DEF limit
<1> QED
  BY <1>1, <1>2, <1>3, PushStep

(* A session that ends by undo() keeps the invariant. *)
LEMMA UndoStep ==
  ASSUME IInv, Undo
  PROVE  IInv' /\ Current' = Top(snaps)
<1>0. TypeOK /\ OpenSessionsKept /\ active_sessions > 0
  BY DEF IInv, Undo
<1>1. stack # <<>> /\ stack \in Seq(UndoStates) /\ Len(stack) \in Nat
  BY <1>0 DEF TypeOK, OpenSessionsKept
<1>2. /\ Current' = Top(snaps)
      /\ objects' \in Entries /\ next_id' \in Counters
      /\ stack' \in Seq(UndoStates) /\ Len(stack') = Len(stack) - 1
      /\ snaps' \in Seq(Snapshot)
      /\ Chain(stack', snaps', Current')
  BY <1>1, PopRestores DEF Undo
<1>3. EndHandle(FALSE)
  BY DEF Undo
<1>4. /\ handles' \in Seq(BOOLEAN) /\ disabled' \in BOOLEAN
      /\ active_sessions' \in Nat /\ active_sessions' = active_sessions - 1
      /\ active_sessions' = Len(handles') /\ max_size' = max_size
  BY <1>3, EndHandleStep
<1>5. TypeOK'
  BY <1>0, <1>2, <1>4 DEF TypeOK
<1>6. OpenSessionsKept' /\ ForcedSession'
  <2>1. /\ disabled' => Len(stack) = 1 /\ Len(handles) = 1
        /\ \A k \in 1..Len(handles') : handles'[k] => k = 1 /\ Len(stack) = Len(handles)
    BY <1>3, EndHandleStep
  <2>2. disabled' => stack' = <<>> /\ active_sessions' = 0
    BY <1>0, <1>1, <1>2, <1>4, <2>1 DEF OpenSessionsKept
  <2>3. active_sessions' <= Len(stack')
    BY <1>0, <1>1, <1>2, <1>4 DEF OpenSessionsKept, TypeOK
  <2>4. OpenSessionsKept'
    BY <1>4, <2>2, <2>3 DEF OpenSessionsKept
  <2>5. ForcedSession'
    BY <1>0, <1>2, <1>4, <2>1 DEF ForcedSession, OpenSessionsKept
  <2> QED
    BY <2>4, <2>5
<1> QED
  BY <1>2, <1>5, <1>6 DEF IInv, DeltasDescribeHistory

(* A session that ends by merge() keeps the invariant. *)
LEMMA MergeStep ==
  ASSUME IInv, Merge
  PROVE  IInv' /\ Current' = Current
<1>0. /\ TypeOK /\ OpenSessionsKept /\ Chain(stack, snaps, Current) /\ Current \in Snapshot
      /\ active_sessions > 0 /\ ~disabled
  BY CurrentType DEF IInv, DeltasDescribeHistory, Merge, OpenSessionsKept
<1>1. /\ stack # <<>> /\ stack \in Seq(UndoStates) /\ Len(stack) \in Nat \ {0}
      /\ snaps \in Seq(Snapshot) /\ Len(snaps) = Len(stack) /\ snaps # <<>>
      /\ active_sessions \in Nat /\ active_sessions <= Len(stack)
  BY <1>0 DEF TypeOK, OpenSessionsKept, Chain
<1>2. objects' = objects /\ next_id' = next_id /\ snaps' = Pop(snaps)
  BY DEF Merge, db
<1>3. Current' = Current
  BY <1>2 DEF Current
<1>4. EndHandle(disabled)
  BY DEF Merge
<1>5. snaps' \in Seq(Snapshot) /\ Len(snaps') = Len(stack) - 1
  BY <1>1, <1>2, PopType
<1>6. /\ stack' \in Seq(UndoStates) /\ Len(stack') = Len(stack) - 1
      /\ Chain(stack', snaps', Current')
  <2>1. CASE Len(stack) = 1
    <3>1. stack' = <<>>
      BY <1>0, <1>1, <2>1 DEF Merge
    <3>2. Len(stack') = 0 /\ stack' \in Seq(UndoStates) /\ 1..Len(stack') = {}
      BY <3>1
    <3>3. WellFormed(Current')
      BY <1>0, <1>3 DEF Chain
    <3> QED
      BY <1>5, <2>1, <3>2, <3>3 DEF Chain
  <2>2. CASE Len(stack) # 1
    <3>1. Len(stack) >= 2
      BY <1>1, <2>2
    <3>2. stack' = SetTop(Pop(stack), Merged(stack[Len(stack) - 1], Top(stack)))
      BY <2>2 DEF Merge
    <3>3. Merged(stack[Len(stack) - 1], Top(stack)) \in UndoStates
      BY <1>1, <3>1, MergedType DEF Top
    <3>4. Pop(stack) \in Seq(UndoStates) /\ Len(Pop(stack)) = Len(stack) - 1
      BY <1>1, PopType
    <3>5. Pop(stack) # <<>>
      BY <3>1, <3>4
    <3>6. stack' \in Seq(UndoStates) /\ Len(stack') = Len(stack) - 1
      BY <3>2, <3>3, <3>4, <3>5, SetTopType
    <3> QED
      BY <1>0, <1>1, <1>2, <1>3, <3>1, <3>2, <3>6, ChainMerge
  <2> QED
    BY <2>1, <2>2
<1>7. disabled \in BOOLEAN
  BY <1>0 DEF TypeOK
<1>8. /\ handles' \in Seq(BOOLEAN) /\ disabled' \in BOOLEAN
      /\ active_sessions' \in Nat /\ active_sessions' = active_sessions - 1
      /\ active_sessions' = Len(handles') /\ max_size' = max_size
  BY <1>4, <1>7, EndHandleStep
<1>9. TypeOK'
  BY <1>0, <1>2, <1>5, <1>6, <1>8 DEF TypeOK
<1>10. OpenSessionsKept' /\ ForcedSession'
  <2>1. /\ disabled' => Len(stack) = 1 /\ Len(handles) = 1
        /\ \A k \in 1..Len(handles') : handles'[k] => k = 1 /\ Len(stack) = Len(handles)
    BY <1>0, <1>4, <1>7, EndHandleStep
  <2>2. disabled' => stack' = <<>> /\ active_sessions' = 0
    BY <1>0, <1>1, <1>6, <1>8, <2>1 DEF OpenSessionsKept
  <2>3. active_sessions' <= Len(stack')
    BY <1>1, <1>6, <1>8
  <2>4. OpenSessionsKept'
    BY <1>8, <2>2, <2>3 DEF OpenSessionsKept
  <2>5. ForcedSession'
    BY <1>0, <1>6, <1>8, <2>1 DEF ForcedSession, OpenSessionsKept
  <2> QED
    BY <2>4, <2>5
<1> QED
  BY <1>3, <1>6, <1>9, <1>10 DEF IInv, DeltasDescribeHistory

(* A session that ends by commit() keeps the invariant. *)
LEMMA CommitStep ==
  ASSUME IInv, Commit
  PROVE  IInv' /\ UNCHANGED <<objects, next_id, stack, snaps>> /\ disabled' = disabled
<1>0. TypeOK /\ OpenSessionsKept /\ Chain(stack, snaps, Current) /\ ~disabled
  BY DEF IInv, DeltasDescribeHistory, OpenSessionsKept, Commit
<1>1. /\ objects' = objects /\ next_id' = next_id /\ stack' = stack /\ snaps' = snaps
      /\ active_sessions = 1 /\ Top(handles) = FALSE /\ EndHandle(disabled)
  BY DEF Commit, db
<1>2. disabled \in BOOLEAN
  BY <1>0 DEF TypeOK
<1>3. /\ handles' \in Seq(BOOLEAN) /\ disabled' \in BOOLEAN
      /\ active_sessions' \in Nat /\ active_sessions' = active_sessions - 1
      /\ active_sessions' = Len(handles') /\ max_size' = max_size
  BY <1>1, <1>2, EndHandleStep
<1>4. disabled' = disabled
  <2>1. disabled' = (disabled \/ Top(handles)) /\ disabled = FALSE
    BY <1>0, <1>1, <1>2 DEF EndHandle
  <2> QED
    BY <1>1, <2>1
<1>5. TypeOK'
  BY <1>0, <1>1, <1>3 DEF TypeOK
<1>6. active_sessions' = 0 /\ Len(handles') = 0
  BY <1>1, <1>3
<1>7. OpenSessionsKept'
  BY <1>0, <1>1, <1>4, <1>6 DEF OpenSessionsKept, TypeOK
<1>8. ForcedSession'
  BY <1>6 DEF ForcedSession
<1>9. Current' = Current
  BY <1>1 DEF Current
<1> QED
  BY <1>0, <1>1, <1>4, <1>5, <1>7, <1>8, <1>9 DEF IInv, DeltasDescribeHistory

(* pop_commit() keeps the invariant. *)
LEMMA PopCommitStep ==
  ASSUME IInv, PopCommit
  PROVE  IInv' /\ Current' = Top(snaps)
<1>0. /\ TypeOK /\ OpenSessionsKept /\ stack # <<>> /\ active_sessions = 0 /\ ~disabled
      /\ active_sessions' = active_sessions /\ disabled' = disabled
      /\ max_size' = max_size /\ handles' = handles
  BY DEF IInv, PopCommit
<1>1. /\ Current' = Top(snaps)
      /\ objects' \in Entries /\ next_id' \in Counters
      /\ stack' \in Seq(UndoStates) /\ Len(stack') = Len(stack) - 1
      /\ snaps' \in Seq(Snapshot)
      /\ Chain(stack', snaps', Current')
  BY <1>0, PopRestores DEF PopCommit
<1>2. TypeOK'
  BY <1>0, <1>1 DEF TypeOK
<1>3. Len(handles') = 0 /\ active_sessions' = 0
  BY <1>0 DEF OpenSessionsKept
<1>4. OpenSessionsKept'
  <2>1. Len(stack') \in Nat
    BY <1>1
  <2>2. ~disabled'
    BY <1>0
  <2> QED
    BY <1>3, <2>1, <2>2 DEF OpenSessionsKept
<1>5. ForcedSession'
  BY <1>3 DEF ForcedSession
<1> QED
  BY <1>1, <1>2, <1>4, <1>5 DEF IInv, DeltasDescribeHistory

(* set_max_size, disable and enable leave the database and the stack alone. *)
LEMMA SwitchStep ==
  ASSUME IInv,
         (\E n \in MaxSizes : SetMaxSize(n)) \/ Disable \/ Enable
  PROVE  IInv' /\ Current' = Current
<1>0. TypeOK /\ OpenSessionsKept /\ ForcedSession /\ Chain(stack, snaps, Current)
  BY DEF IInv, DeltasDescribeHistory
<1>1. /\ objects' = objects /\ next_id' = next_id /\ stack' = stack /\ snaps' = snaps
      /\ active_sessions' = active_sessions /\ handles' = handles
  BY DEF SetMaxSize, Disable, Enable, db
<1>2. max_size' \in Nat \ {0} /\ disabled' \in BOOLEAN
  BY <1>0, MaxSizeAssumption DEF TypeOK, SetMaxSize, Disable, Enable
<1>3. TypeOK'
  BY <1>0, <1>1, <1>2 DEF TypeOK
<1>4. disabled' => stack = <<>>
  BY <1>0 DEF OpenSessionsKept, SetMaxSize, Disable, Enable
<1>5. OpenSessionsKept'
  BY <1>0, <1>1, <1>4 DEF OpenSessionsKept, TypeOK
<1>6. ForcedSession'
  BY <1>0, <1>1 DEF ForcedSession
<1>7. Current' = Current
  BY <1>1 DEF Current
<1> QED
  BY <1>0, <1>1, <1>3, <1>5, <1>6, <1>7 DEF IInv, DeltasDescribeHistory

(* The fresh database satisfies the invariant. *)
LEMMA InitIInv ==
  ASSUME Init
  PROVE  IInv
<1>1. objects \in Entries /\ next_id \in Counters
  BY BoundAssumption DEF Init, Entries, Counters
<1>2. TypeOK
  <2>1. stack \in Seq(UndoStates) /\ snaps \in Seq(Snapshot)
    BY DEF Init
  <2>2. handles \in Seq(BOOLEAN)
    BY DEF Init
  <2>3. max_size \in Nat \ {0} /\ active_sessions \in Nat /\ disabled \in BOOLEAN
    BY MaxSizeAssumption DEF Init
  <2> QED
    BY <1>1, <2>1, <2>2, <2>3 DEF TypeOK
<1>3. OpenSessionsKept /\ ForcedSession
  BY DEF Init, OpenSessionsKept, ForcedSession
<1>4. \A i \in Ids : objects[i] = None
  BY DEF Init
<1>5. WellFormed(Current)
  BY <1>4 DEF Current, WellFormed, UniqueKeys
<1>6. Len(snaps) = 0 /\ Len(stack) = 0
  BY DEF Init
<1>7. DeltasDescribeHistory
  BY <1>5, <1>6 DEF DeltasDescribeHistory, Chain
<1> QED
  BY <1>2, <1>3, <1>7 DEF IInv

(* Every step keeps the invariant. *)
LEMMA NextIInv ==
  ASSUME IInv, [Next]_vars
  PROVE  IInv'
<1>1. CASE \E t \in Types, v \in Values : Create(t, v)
  BY <1>1, CreateStep
<1>2. CASE \E i \in Ids, d \in Data : Modify(i, d)
  BY <1>2, ModifyStep
<1>3. CASE \E i \in Ids : Remove(i)
  BY <1>3, RemoveStep
<1>4. CASE StartSession
  BY <1>4, StartSessionStep
<1>5. CASE StartProposalSession
  BY <1>5, StartProposalSessionStep
<1>6. CASE Undo
  BY <1>6, UndoStep
<1>7. CASE Merge
  BY <1>7, MergeStep
<1>8. CASE Commit
  BY <1>8, CommitStep
<1>9. CASE PopCommit
  BY <1>9, PopCommitStep
<1>10. CASE (\E n \in MaxSizes : SetMaxSize(n)) \/ Disable \/ Enable
  BY <1>10, SwitchStep
<1>11. CASE UNCHANGED vars
  <2>1. /\ objects' = objects /\ next_id' = next_id /\ stack' = stack
        /\ active_sessions' = active_sessions /\ disabled' = disabled
        /\ max_size' = max_size /\ handles' = handles /\ snaps' = snaps
    BY <1>11 DEF vars
  <2> QED
    BY <2>1 DEF IInv, TypeOK, OpenSessionsKept, ForcedSession, DeltasDescribeHistory, Current
<1> QED
  BY <1>1, <1>2, <1>3, <1>4, <1>5, <1>6, <1>7, <1>8, <1>9, <1>10, <1>11 DEF Next

(* The inductive invariant holds in every reachable state. *)
THEOREM Invariance == Spec => []IInv
<1>1. Init => IInv
  BY InitIInv
<1>2. IInv /\ [Next]_vars => IInv'
  BY NextIInv
<1> QED
  BY <1>1, <1>2, PTL DEF Spec

(* The state of the undo database always has its type. *)
THEOREM TypeCorrect == Spec => []TypeOK
<1>1. IInv => TypeOK
  BY DEF IInv
<1> QED
  BY <1>1, Invariance, PTL

(* undo() and pop_commit() always lead back to the database at which the     *)
(* state was pushed, through any nesting of sessions, merges and commits.    *)
THEOREM UndoIsExact == Spec => []UndoRestores
<1>1. IInv => UndoRestores
  <2> SUFFICES ASSUME IInv PROVE UndoRestores
    OBVIOUS
  <2>0. /\ Chain(stack, snaps, Current) /\ Current \in Snapshot
        /\ stack \in Seq(UndoStates) /\ snaps \in Seq(Snapshot)
    BY CurrentType DEF IInv, DeltasDescribeHistory, TypeOK
  <2>1. Len(snaps) = Len(stack)
    BY <2>0 DEF Chain
  <2>2. ASSUME NEW k \in 1..Len(stack)
        PROVE  /\ Restored(stack[k], After(k).objects) = snaps[k].objects
               /\ RestoreNextIds(stack[k], After(k).next_id) = snaps[k].next_id
    <3>1. Delta(stack[k], snaps[k], After(k))
      BY <2>0 DEF Chain, After
    <3>2. stack[k] \in UndoStates /\ snaps[k] \in Snapshot /\ After(k) \in Snapshot
      BY <2>0, <2>1 DEF After
    <3> QED
      BY <3>1, <3>2, RestoredObjects, RestoredNextIds
  <2> QED
    BY <2>1, <2>2 DEF UndoRestores
<1> QED
  BY <1>1, Invariance, PTL

(* Taking a state back never throws: every object it names is where the loops *)
(* of undo() expect it and no unique index refuses what they put back.        *)
THEOREM UndoIsPossible == Spec => []UndoNeverThrows
<1>1. IInv => UndoNeverThrows
  <2> SUFFICES ASSUME IInv, NEW k \in 1..Len(stack)
               PROVE  CanRestore(stack[k], After(k).objects)
    BY DEF UndoNeverThrows
  <2>0. /\ Chain(stack, snaps, Current) /\ Current \in Snapshot
        /\ stack \in Seq(UndoStates) /\ snaps \in Seq(Snapshot)
    BY CurrentType DEF IInv, DeltasDescribeHistory, TypeOK
  <2>1. Len(snaps) = Len(stack)
    BY <2>0 DEF Chain
  <2>2. Delta(stack[k], snaps[k], After(k)) /\ WellFormed(snaps[k])
    BY <2>0 DEF Chain, After
  <2>3. stack[k] \in UndoStates /\ snaps[k] \in Snapshot /\ After(k) \in Snapshot
    BY <2>0, <2>1 DEF After
  <2>4. WellFormed(After(k))
    BY <2>0 DEF Chain, After
  <2> QED
    BY <2>2, <2>3, <2>4, RestoreIsPossible
<1> QED
  BY <1>1, Invariance, PTL

(* The size limit never drops the state of an open session, and no session is *)
(* open while the undo database is disabled.                                  *)
THEOREM OpenSessionsAreKept == Spec => []OpenSessionsKept
<1>1. IInv => OpenSessionsKept
  BY DEF IInv
<1> QED
  BY <1>1, Invariance, PTL

(* The deltas on the stack always describe the history of the database: each *)
(* of them leads from the copy it was pushed at to the next one.             *)
THEOREM HistoryIsDescribed == Spec => []DeltasDescribeHistory
<1>1. IInv => DeltasDescribeHistory
  BY DEF IInv
<1> QED
  BY <1>1, Invariance, PTL

-----------------------------------------------------------------------------
(* Refinement: what each step is in the store of full copies. *)

(* What the invariant says in the terms of the store of full copies. *)
LEMMA InvariantTypes ==
  ASSUME IInv
  PROVE  /\ Current \in Snapshot /\ snaps \in Seq(Snapshot)
         /\ active_sessions \in Nat /\ disabled \in BOOLEAN /\ Len(snaps) \in Nat
         /\ Len(snaps) = Len(stack) /\ active_sessions <= Len(snaps)
         /\ snaps = <<>> <=> stack = <<>>
<1>1. TypeOK /\ OpenSessionsKept /\ Len(snaps) = Len(stack)
  BY DEF IInv, DeltasDescribeHistory, Chain
<1>2. snaps \in Seq(Snapshot) /\ stack \in Seq(UndoStates)
  BY <1>1 DEF TypeOK
<1> QED
  BY <1>1, <1>2, CurrentType DEF TypeOK, OpenSessionsKept

(* Creating, modifying or removing an object is a change of the store's content. *)
LEMMA ChangeRefines ==
  ASSUME IInv, IInv', NEW st, Record(st),
         UNCHANGED <<active_sessions, disabled, max_size, handles>>
  PROVE  Promise!Change
<1>1. Current' \in Snapshot
  BY DEF IInv, TypeOK, Current, Snapshot
<1>2. snaps' = IF ~disabled /\ snaps = <<>> THEN <<Current>> ELSE snaps
  BY InvariantTypes DEF Record, OpenedSnaps
<1>3. active_sessions' = active_sessions /\ (~disabled)' = ~disabled
  OBVIOUS
<1> QED
  BY <1>1, <1>2, <1>3 DEF Promise!Change

(* Opening a session keeps a copy, after the oldest ones are dropped. *)
LEMMA PushRefines ==
  ASSUME IInv, NEW limit \in Nat \ {0}, NEW flag, active_sessions <= limit,
         PushState(limit, flag)
  PROVE  Promise!Open
<1>0. /\ snaps \in Seq(Snapshot) /\ Len(snaps) \in Nat /\ active_sessions \in Nat
      /\ active_sessions <= Len(snaps)
  BY InvariantTypes
<1>1. /\ snaps' = Append(Pruned(snaps, limit), Current)
      /\ active_sessions' = active_sessions + 1
      /\ disabled' = FALSE /\ objects' = objects /\ next_id' = next_id
  BY DEF PushState, db
<1>2. Current' = Current
  BY <1>1 DEF Current
<1>3. \E k \in 1..(Len(snaps) + 1) :
          /\ Len(snaps) - k + 1 >= active_sessions
          /\ snaps' = Append(SubSeq(snaps, k, Len(snaps)), Current)
  <2>1. CASE Len(snaps) > limit
    <3>1. /\ Len(snaps) - limit + 1 \in 1..(Len(snaps) + 1)
          /\ Len(snaps) - (Len(snaps) - limit + 1) + 1 >= active_sessions
      BY <1>0, <2>1
    <3>2. snaps' = Append(SubSeq(snaps, Len(snaps) - limit + 1, Len(snaps)), Current)
      BY <1>1, <2>1 DEF Pruned
    <3> QED
      BY <3>1, <3>2
  <2>2. CASE ~(Len(snaps) > limit)
    <3>1. SubSeq(snaps, 1, Len(snaps)) = snaps
      BY <1>0
    <3>2. snaps' = Append(SubSeq(snaps, 1, Len(snaps)), Current)
      BY <1>1, <2>2, <3>1 DEF Pruned
    <3>3. 1 \in 1..(Len(snaps) + 1) /\ Len(snaps) - 1 + 1 >= active_sessions
      BY <1>0
    <3> QED
      BY <3>2, <3>3
  <2> QED
    BY <2>1, <2>2
<1>4. (~disabled)' = TRUE
  BY <1>1
<1> QED
  BY <1>1, <1>2, <1>3, <1>4 DEF Promise!Open

(* Undoing a session puts its copy back. *)
LEMMA CloseRefines ==
  ASSUME IInv, IInv', active_sessions > 0, active_sessions' = active_sessions - 1,
         snaps' = Pop(snaps), Current' \in {Current, Top(snaps)}
  PROVE  Promise!Close
<1>1. (~disabled)' \in BOOLEAN
  BY DEF IInv, TypeOK
<1>2. active_sessions \in Nat /\ Len(snaps) >= active_sessions
  BY InvariantTypes
<1> QED
  BY <1>1, <1>2 DEF Promise!Close, Pop, Top

(* Every step of the undo database is a step of the store or a stutter. *)
LEMMA NextRefines ==
  ASSUME IInv, IInv', [Next]_vars
  PROVE  [Promise!Next]_(Promise!store)
<1>0. /\ max_size \in Nat \ {0} /\ active_sessions \in Nat /\ Len(stack) \in Nat
      /\ active_sessions <= Len(stack)
  BY DEF IInv, TypeOK, OpenSessionsKept
<1>1. CASE \E t \in Types, v \in Values : Create(t, v)
  <2>1. Promise!Change
    BY <1>1, ChangeRefines DEF Create
  <2> QED
    BY <2>1 DEF Promise!Next
<1>2. CASE \E i \in Ids, d \in Data : Modify(i, d)
  <2>1. Promise!Change
    BY <1>2, ChangeRefines DEF Modify
  <2> QED
    BY <2>1 DEF Promise!Next
<1>3. CASE \E i \in Ids : Remove(i)
  <2>1. Promise!Change
    BY <1>3, ChangeRefines DEF Remove
  <2> QED
    BY <2>1 DEF Promise!Next
<1>4. CASE StartSession
  <2>1. PushState(max_size, FALSE) /\ active_sessions <= 1
    BY <1>4 DEF StartSession
  <2>2. active_sessions <= max_size
    BY <1>0, <2>1
  <2>3. Promise!Open
    BY <1>0, <2>1, <2>2, PushRefines
  <2> QED
    BY <2>3 DEF Promise!Next
<1>5. CASE StartProposalSession
  <2> DEFINE limit == IF Len(stack) >= max_size THEN Len(stack) + 1 ELSE max_size
  <2>1. PushState(limit, disabled)
    BY <1>5 DEF StartProposalSession
  <2>2. limit \in Nat \ {0} /\ active_sessions <= limit
    BY <1>0
  <2> HIDE DEF limit
  <2>3. Promise!Open
    BY <2>1, <2>2, PushRefines
  <2> QED
    BY <2>3 DEF Promise!Next
<1>6. CASE Undo
  <2>1. /\ active_sessions > 0 /\ active_sessions' = active_sessions - 1
        /\ snaps' = Pop(snaps)
    BY <1>6 DEF Undo, EndHandle, PopAndRestore
  <2>2. Current' = Top(snaps)
    BY <1>6, UndoStep
  <2>3. Promise!Close
    BY <2>1, <2>2, CloseRefines
  <2> QED
    BY <2>3 DEF Promise!Next
<1>7. CASE Merge
  <2>1. /\ active_sessions > 0 /\ active_sessions' = active_sessions - 1
        /\ snaps' = Pop(snaps)
    BY <1>7 DEF Merge, EndHandle
  <2>2. Current' = Current
    BY <1>7, MergeStep
  <2>3. Promise!Close
    BY <2>1, <2>2, CloseRefines
  <2> QED
    BY <2>3 DEF Promise!Next
<1>8. CASE Commit
  <2>1. active_sessions = 1 /\ active_sessions' = 0
    BY <1>8 DEF Commit, EndHandle
  <2>2. /\ objects' = objects /\ next_id' = next_id /\ snaps' = snaps
        /\ disabled' = disabled
    BY <1>8, CommitStep
  <2>3. Current' = Current
    BY <2>2 DEF Current
  <2>4. (~disabled)' = ~disabled
    BY <2>2
  <2>5. Promise!Keep
    BY <2>1, <2>2, <2>3, <2>4 DEF Promise!Keep
  <2> QED
    BY <2>5 DEF Promise!Next
<1>9. CASE PopCommit
  <2>1. /\ active_sessions = 0 /\ active_sessions' = active_sessions
        /\ disabled' = disabled /\ stack # <<>> /\ snaps' = Pop(snaps)
    BY <1>9 DEF PopCommit, PopAndRestore
  <2>2. Current' = Top(snaps)
    BY <1>9, PopCommitStep
  <2>3. snaps # <<>>
    BY <2>1, InvariantTypes
  <2>4. (~disabled)' = ~disabled
    BY <2>1
  <2>5. Promise!Rewind
    BY <2>1, <2>2, <2>3, <2>4 DEF Promise!Rewind, Pop, Top
  <2> QED
    BY <2>5 DEF Promise!Next
<1>10. CASE \E n \in MaxSizes : SetMaxSize(n)
  <2>1. Current' = Current
    BY <1>10, SwitchStep
  <2>2. snaps' = snaps /\ active_sessions' = active_sessions /\ (~disabled)' = ~disabled
    BY <1>10 DEF SetMaxSize
  <2> QED
    BY <2>1, <2>2 DEF Promise!store
<1>11. CASE Disable \/ Enable
  <2>1. Current' = Current
    BY <1>11, SwitchStep
  <2>2. snaps' = snaps /\ active_sessions' = active_sessions /\ stack = <<>>
    BY <1>11 DEF Disable, Enable, IInv, OpenSessionsKept
  <2>3. snaps = <<>> /\ active_sessions = 0
    BY <1>0, <2>2, InvariantTypes
  <2>4. (~disabled)' \in BOOLEAN
    BY <1>11 DEF Disable, Enable
  <2>5. Promise!Switch
    BY <2>1, <2>2, <2>3, <2>4 DEF Promise!Switch
  <2> QED
    BY <2>5 DEF Promise!Next
<1>12. CASE UNCHANGED vars
  <2>1. /\ objects' = objects /\ next_id' = next_id /\ snaps' = snaps
        /\ active_sessions' = active_sessions /\ disabled' = disabled
    BY <1>12 DEF vars
  <2>2. Current' = Current /\ (~disabled)' = ~disabled
    BY <2>1 DEF Current
  <2> QED
    BY <2>1, <2>2 DEF Promise!store
<1> QED
  BY <1>1, <1>2, <1>3, <1>4, <1>5, <1>6, <1>7, <1>8, <1>9, <1>10, <1>11, <1>12 DEF Next

(* The undo database, a stack of deltas, implements the store of full copies. *)
THEOREM Refinement == Spec => ImplementsSnapshotStore
<1>1. Init => Promise!Init
  <2> SUFFICES ASSUME Init PROVE Promise!Init
    OBVIOUS
  <2>1. IInv
    BY InitIInv
  <2>2. Current \in Snapshot /\ snaps = <<>> /\ active_sessions = 0 /\ (~disabled) \in BOOLEAN
    BY <2>1, InvariantTypes DEF Init
  <2> QED
    BY <2>2 DEF Promise!Init
<1>2. IInv /\ IInv' /\ [Next]_vars => [Promise!Next]_(Promise!store)
  BY NextRefines
<1> QED
  BY <1>1, <1>2, Invariance, PTL DEF Spec, ImplementsSnapshotStore, Promise!Spec
=============================================================================
