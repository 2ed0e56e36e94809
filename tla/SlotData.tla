------------------------------- MODULE SlotData -------------------------------
(***************************************************************************)
(* What one block does to the part of the chain state that decides when    *)
(* and by whom the next one may be produced: the dynamic global            *)
(* properties, the witness objects and the shuffled schedule               *)
(* (db_witness_schedule.cpp, db_update.cpp, db_block.cpp).  The state is   *)
(* a record d, so that one chain (WitnessSchedule) and several nodes with  *)
(* forks (BlockProduction) use the same operators:                         *)
(*                                                                         *)
(*   num, time   head_block_number and head_block_time()                   *)
(*   maint       the maintenance flag; maintAt is next_maintenance_time    *)
(*   interval    parameters.block_interval                                 *)
(*   aslot       current_aslot                                             *)
(*   filled      recent_slots_filled, a sequence of bits, the lowest last  *)
(*   recent      recently_missed_count                                     *)
(*   active      active_witnesses                                          *)
(*   sched       current_shuffled_witnesses                                *)
(*   confirmed   last_confirmed_block_num of every witness                 *)
(*   missed      total_missed of every witness                             *)
(*   lib         last_irreversible_block_num                               *)
(***************************************************************************)
EXTENDS Naturals, Sequences, FiniteSets

CONSTANTS Witnesses,        \* witness objects, a set of numbers (their ids)
          SkipSlots,        \* parameters.maintenance_skip_slots
          MaintInterval,    \* parameters.maintenance_interval
          MaxUndo,          \* GRAPHENE_MAX_UNDO_HISTORY
          Window,           \* the width of recent_slots_filled, 128
          Checkpoint        \* number of the last checkpoint, 0 when there is none

MissedIncrement == 4
MissedDecrement == 3
IrreversibleThreshold == 70

ASSUME SlotAssumption ==
    /\ Witnesses \subseteq Nat /\ IsFiniteSet(Witnesses)
    /\ {SkipSlots, Checkpoint} \subseteq Nat
    /\ {MaintInterval, MaxUndo, Window} \subseteq Nat \ {0}

Schedules(S) == {s \in [1 .. Cardinality(S) -> S] : \A i, j \in DOMAIN s : s[i] = s[j] => i = j}

SlotRecords(Intervals) ==
    [num : Nat, time : Nat, maint : BOOLEAN, maintAt : Nat, interval : Intervals, aslot : Nat,
     filled : [1 .. Window -> {0, 1}], recent : Nat, active : SUBSET Witnesses, sched : Seq(Witnesses),
     confirmed : [Witnesses -> Nat], missed : [Witnesses -> Nat], lib : Nat]

\* The state init_genesis leaves: no block, every recent slot counted as filled, the
\* schedule in the order of the witness ids.
Genesis(time, interval, schedule) ==
    [num |-> 0, time |-> time, maint |-> FALSE, maintAt |-> 0, interval |-> interval, aslot |-> 0,
     filled |-> [i \in 1 .. Window |-> 1], recent |-> 0,
     active |-> {schedule[i] : i \in DOMAIN schedule}, sched |-> schedule,
     confirmed |-> [w \in Witnesses |-> 0], missed |-> [w \in Witnesses |-> 0], lib |-> 0]

-----------------------------------------------------------------------------
(* Slots *)

\* Slot 1 is the first one after the head block; a maintenance block is followed by skipped slots.
GetSlotTime(d, slot) ==
    IF d.num = 0 THEN d.time + slot * d.interval
    ELSE ((d.time \div d.interval) + slot + (IF d.maint THEN SkipSlots ELSE 0)) * d.interval

GetSlotAtTimeFromHead(d, when) == IF when < d.time THEN 0 ELSE (when - d.time) \div d.interval

GetSlotAtTime(d, when) ==
    IF when < GetSlotTime(d, 1) THEN 0 ELSE ((when - GetSlotTime(d, 1)) \div d.interval) + 1

GetScheduledWitness(d, slot) == d.sched[((d.aslot + slot) % Len(d.sched)) + 1]

\* witness_participation_rate, in percent
ParticipationRate(d) == (100 * Cardinality({i \in 1 .. Window : d.filled[i] = 1})) \div Window

-----------------------------------------------------------------------------
(* The steps of _apply_block that change the record *)

SkipsChecks(d) == d.num + 1 <= Checkpoint

ValidHeader(d, b) ==
    /\ d.time < b.time
    /\ b.witness \in Witnesses
    /\ SkipsChecks(d) \/ /\ GetSlotAtTime(d, b.time) > 0
                         /\ b.witness = GetScheduledWitness(d, GetSlotAtTime(d, b.time))

UpdateMissedBlocksOneLess(d, b) ==
    LET missed == GetSlotAtTime(d, b.time) - 1
        absent(w) == {i \in 1 .. missed - 1 : GetScheduledWitness(d, i) = w}
    IN  IF missed < Len(d.sched) /\ missed > 0
        THEN [d EXCEPT !.missed = [w \in Witnesses |-> @[w] + Cardinality(absent(w))]]
        ELSE d

\* A witness is charged for every slot it missed, unless a whole round is missing.
UpdateMissedBlocks(d, b) ==
    LET missed == GetSlotAtTime(d, b.time) - 1
        absent(w) == {i \in 1 .. missed : GetScheduledWitness(d, i) = w}
    IN  IF missed < Len(d.sched)
        THEN [d EXCEPT !.missed = [w \in Witnesses |-> @[w] + Cardinality(absent(w))]]
        ELSE d

ShiftLeft(bits, k) == SubSeq(bits \o [i \in 1 .. k |-> 0], k + 1, k + Window)

AddOne(bits) == [bits EXCEPT ![Window] = 1]

FilledAfter(bits, missed) == ShiftLeft(AddOne(ShiftLeft(bits, 1)), missed)

RecentAfter(d, missed) ==
    LET decrement == IF d.recent > MissedIncrement THEN MissedDecrement ELSE 1
    IN  CASE d.num = 0 \/ SkipsChecks(d) \/ (missed = 0 /\ d.recent = 0) -> 0
          [] d.num > 0 /\ ~SkipsChecks(d) /\ missed > 0 -> d.recent + MissedIncrement * missed
          [] OTHER -> d.recent - decrement

UpdateGlobalDynamicData(d, b, missed) ==
    [d EXCEPT !.recent = RecentAfter(d, missed),
              !.num = @ + 1,
              !.time = b.time,
              !.filled = FilledAfter(@, missed),
              !.aslot = @ + missed + 1]

\* The refusal in the same function: irreversibility has fallen too far behind.
EnoughUndoHistory(d) == SkipsChecks(d) \/ d.num + 1 - d.lib < MaxUndo

UpdateSigningWitness(d, b) == [d EXCEPT !.confirmed[b.witness] = d.num]

\* std::nth_element over the active witnesses' last confirmed block numbers.
NthConfirmed(d, offset) ==
    CHOOSE k \in {d.confirmed[w] : w \in d.active} :
        /\ Cardinality({w \in d.active : d.confirmed[w] < k}) <= offset
        /\ Cardinality({w \in d.active : d.confirmed[w] <= k}) > offset

IrreversibleOffsetHalf(n) == (n - 1) \div 2

IrreversibleOffset(n) == ((100 - IrreversibleThreshold) * n) \div 100

UpdateLastIrreversibleLate(d) ==
    LET new == NthConfirmed(d, IrreversibleOffset(Cardinality(d.active)))
    IN  IF new > d.lib + 1 THEN [d EXCEPT !.lib = new] ELSE d

UpdateLastIrreversible(d) ==
    LET new == NthConfirmed(d, IrreversibleOffset(Cardinality(d.active)))
    IN  IF new > d.lib THEN [d EXCEPT !.lib = new] ELSE d

NextMaintenance(d, b) ==
    IF d.num = 1 THEN ((b.time \div MaintInterval) + 1) * MaintInterval
    ELSE d.maintAt + (((b.time - d.maintAt) \div MaintInterval) + 1) * MaintInterval

\* The part of perform_chain_maintenance that the schedule depends on: the votes
\* decide the active witnesses, the committee the block interval.
PerformMaintenance(d, b, elected, interval) ==
    [d EXCEPT !.active = elected, !.interval = interval, !.maintAt = NextMaintenance(d, b)]

ShuffleDueOneLate(d) == d.num % Cardinality(d.active) = 1

ShuffleDue(d) == d.num % Cardinality(d.active) = 0

FinishBlockEmpty(d, maintenance, shuffled) ==
    [d EXCEPT !.maint = maintenance, !.sched = IF ShuffleDue(d) THEN <<>> ELSE @]

\* update_maintenance_flag and update_witness_schedule; shuffled is the order the
\* generator seeded by the head block time produces.
FinishBlock(d, maintenance, shuffled) ==
    [d EXCEPT !.maint = maintenance, !.sched = IF ShuffleDue(d) THEN shuffled ELSE @]

MaintenanceNeeded(d, b) == d.maintAt <= b.time

CanApply(d, b) ==
    /\ ValidHeader(d, b)
    /\ GetSlotAtTime(d, b.time) # 0        \* "double-produced block"
    /\ EnoughUndoHistory(d)

\* The state before the shuffle; elected and interval count only in a maintenance block.
ApplyBlock(d, b, elected, interval) ==
    LET missed  == GetSlotAtTime(d, b.time) - 1
        counted == UpdateGlobalDynamicData(UpdateMissedBlocks(d, b), b, missed)
        final   == UpdateLastIrreversible(UpdateSigningWitness(counted, b))
    IN  IF MaintenanceNeeded(d, b) THEN PerformMaintenance(final, b, elected, interval) ELSE final
=============================================================================
