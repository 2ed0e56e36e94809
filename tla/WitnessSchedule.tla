---------------------------- MODULE WitnessSchedule ----------------------------
(***************************************************************************)
(* One chain and the blocks applied to it: slots, missed blocks, the       *)
(* shuffled schedule, maintenance with its elections, irreversibility and  *)
(* the limit of the undo history (db_witness_schedule.cpp, db_update.cpp,  *)
(* db_block.cpp).  SlotData holds what a block does to the state; here the *)
(* state goes from block to block and the history the properties compare   *)
(* it with is kept beside it:                                              *)
(*                                                                         *)
(*   d       the state after the last block (SlotData)                     *)
(*   blocks  for every block: its witness, its absolute slot and the       *)
(*           witnesses that were active for it                             *)
(*   long    slots missed in gaps of a whole round or more                 *)
(*   round   who was scheduled since the last shuffle, and whether the     *)
(*           number of active witnesses stayed the same since then         *)
(***************************************************************************)
EXTENDS SlotData, Functions

CONSTANTS Intervals,        \* block intervals the committee may choose
          Elections,        \* sets of witnesses the votes may elect
          Start,            \* initial_timestamp
          First,            \* the schedule at genesis
          MaxBlocks,        \* bound: blocks of the chain
          MaxGap            \* bound: seconds between two blocks

VARIABLES d, blocks, long, round
vars == <<d, blocks, long, round>>

\* init_genesis asserts that the initial timestamp is a multiple of the interval.
ASSUME ScheduleAssumption ==
    /\ Intervals \subseteq Nat \ {0} /\ Elections \subseteq (SUBSET Witnesses) \ {{}}
    /\ {Start, MaxBlocks, MaxGap} \subseteq Nat /\ First \in Seq(Witnesses) /\ Len(First) > 0

Init ==
    /\ \E interval \in Intervals : Start % interval = 0 /\ d = Genesis(Start, interval, First)
    /\ blocks = <<>>
    /\ long = 0
    /\ round = [turns |-> {}, kept |-> TRUE]

History(before, b, applied) ==
    LET slot   == GetSlotAtTime(before, b.time)
        turns  == round.turns \cup {GetScheduledWitness(before, i) : i \in 1 .. slot}
        kept   == round.kept /\ Cardinality(applied.active) = Len(before.sched)
    IN  /\ blocks' = Append(blocks, [witness |-> b.witness, aslot |-> applied.aslot,
                                     judges |-> before.active])
        /\ long' = long + IF slot - 1 < Len(before.sched) THEN 0 ELSE slot - 1
        /\ round' = IF ShuffleDue(applied) THEN [turns |-> {}, kept |-> TRUE]
                                           ELSE [turns |-> turns, kept |-> kept]

\* _apply_block
PushBlock(b, elected, interval) ==
    LET applied == ApplyBlock(d, b, elected, interval)
    IN  /\ CanApply(d, b)
        /\ \E shuffled \in Schedules(applied.active) :
              /\ ~ShuffleDue(applied) => shuffled = CHOOSE s \in Schedules(applied.active) : TRUE
              /\ d' = FinishBlock(applied, MaintenanceNeeded(d, b), shuffled)
        /\ History(d, b, applied)

Next ==
    /\ d.num < MaxBlocks
    /\ \E t \in d.time + 1 .. d.time + MaxGap, w \in Witnesses :
          LET b == [time |-> t, witness |-> w]
          IN  IF MaintenanceNeeded(d, b)
              THEN \E elected \in Elections, interval \in Intervals : PushBlock(b, elected, interval)
              ELSE PushBlock(b, d.active, d.interval)

Spec == Init /\ [][Next]_vars

-----------------------------------------------------------------------------
(* Properties *)

TypeOK ==
    /\ d \in SlotRecords(Intervals)
    /\ d.active # {} /\ Len(d.sched) > 0
    /\ Len(blocks) = d.num

\* get_slot_time and get_slot_at_time undo each other for every slot, slot times rise by
\* one interval, and no time up to the head block's is in a slot: the assertion of
\* maybe_produce_block ("this assert should not fail", witness.cpp:279-286).  It must hold
\* for block times that are not slot times and across a change of the interval.
SlotsMatchTimes ==
    /\ \A slot \in 1 .. 4 : /\ GetSlotAtTime(d, GetSlotTime(d, slot)) = slot
                            /\ GetSlotTime(d, slot + 1) = GetSlotTime(d, slot) + d.interval
    /\ \A t \in 0 .. d.time : GetSlotAtTime(d, t) = 0

\* Every missed slot is charged to exactly one witness, except the slots of a gap in which
\* a whole round is missing: together with the blocks they are the current absolute slot.
MissesCharged ==
    d.aslot = d.num + SumFunctionOnSet(d.missed, Witnesses) + long

\* recent_slots_filled puts the bit of a block above the slots missed before it, not
\* below: the participation it gives is still within one slot of the slots filled in the
\* last Window slots (those before genesis count as filled).
ParticipationWithinOne ==
    LET actual == {s \in (d.aslot + 1) .. (d.aslot + Window) :
                      s <= Window \/ \E i \in DOMAIN blocks : blocks[i].aslot + Window = s}
        counted == {i \in 1 .. Window : d.filled[i] = 1}
    IN  /\ Cardinality(counted) <= Cardinality(actual) + 1
        /\ Cardinality(actual) <= Cardinality(counted) + 1

\* A missed slot is counted once and in one place: against a witness
\* (update_witness_missed_blocks) and, within one slot, in the participation rate
\* (update_global_dynamic_data), which the witness plugin goes by.
MissesAccounted == MissesCharged /\ ParticipationWithinOne

\* The last irreversible block is the newest one that 70 percent of the witnesses active
\* when the head block was applied have built on, or an earlier such block of witnesses
\* that have been voted out since: it is never behind that block.  The confirmations are
\* read off the blocks, not off the witness objects.
BuiltOn(k, electorate) == {w \in electorate : \E i \in k .. Len(blocks) : blocks[i].witness = w}
Confirmed(k, electorate) ==
    100 * Cardinality(BuiltOn(k, electorate)) >= IrreversibleThreshold * Cardinality(electorate)
IrreversibleByMajority ==
    /\ d.lib <= d.num
    /\ d.num > 0 => \A k \in 1 .. d.num : Confirmed(k, blocks[d.num].judges) => k <= d.lib
    /\ d.lib > 0 => \E i \in d.lib .. d.num :
                       LET e == blocks[i].judges
                       IN  100 * Cardinality({w \in e : \E j \in d.lib .. i : blocks[j].witness = w})
                              >= IrreversibleThreshold * Cardinality(e)

\* The chain stops for want of undo history only when more than 30 percent of the
\* witnesses have built none of the blocks of that history.
StopsOnlyWithoutMajority ==
    d.num > 0 /\ ~EnoughUndoHistory(d) => ~Confirmed(d.lib + 1, blocks[d.num].judges)

\* While the number of witnesses stays the same, every scheduled witness has had a slot of
\* its own before the schedule is shuffled again, however many blocks were missed.
EveryoneGetsATurn ==
    [][ LET slot  == GetSlotAtTime(d, d'.time)
            turns == round.turns \cup {GetScheduledWitness(d, i) : i \in 1 .. slot}
        IN  ShuffleDue(d') /\ round.kept /\ Cardinality(d'.active) = Len(d.sched)
              => {d.sched[i] : i \in DOMAIN d.sched} \subseteq turns ]_vars
=============================================================================
