---------------------------- MODULE BlockProduction ----------------------------
(***************************************************************************)
(* Several nodes with the witness plugin (plugins/witness/witness.cpp),    *)
(* each on its own chain: a loop wakes up every second and may produce a   *)
(* block on the node's head, blocks reach the other nodes late, out of     *)
(* order or never, and a node switches to a longer branch when it gets one *)
(* (database::_push_block).  What a block does to the schedule and to      *)
(* irreversibility is SlotData.                                            *)
(*                                                                         *)
(*   time     the clock, in seconds, the same at every node                *)
(*   known    the chains whose last block has been broadcast               *)
(*   chain    each node's own chain                                        *)
(*   enabled  _production_enabled of each node                             *)
(*   keep     the number of the oldest block each node can still rewind    *)
(*            to: the windows of its fork and undo databases               *)
(*                                                                         *)
(* A chain is the state after its last block together with the times of    *)
(* its blocks, which tell two chains apart: one witness has one key, held  *)
(* by one node.                                                            *)
(***************************************************************************)
EXTENDS SlotData

CONSTANTS Nodes,
          Keys(_),           \* the witnesses whose keys a node holds
          Required,          \* _required_witness_participation, in percent
          Lag,               \* the 2500 ms of maybe_produce_block, in seconds
          BlockInterval, Start, First,
          Shuffle(_, _),     \* the order the shuffle gives a set of witnesses at a time
          MaxTime            \* bound: when the clock stops

VARIABLES time, known, chain, enabled, keep
vars == <<time, known, chain, enabled, keep>>

ProductionAssumption ==
    /\ {Required, Lag, Start, MaxTime} \subseteq Nat /\ BlockInterval \in Nat \ {0}
    /\ \A m, n \in Nodes : Keys(m) \subseteq Witnesses /\ (m # n => Keys(m) \cap Keys(n) = {})

Empty == [state |-> Genesis(Start, BlockInterval, First), times |-> <<>>, keeps |-> 0]

Num(c) == c.state.num

\* The chain with one more block.  set_max_size is called with the last irreversible
\* block of the block before, so the windows reach back to the block before that one.
Extended(c, b) ==
    LET applied == ApplyBlock(c.state, b, c.state.active, c.state.interval)
    IN  [state |-> FinishBlock(applied, MaintenanceNeeded(c.state, b), Shuffle(b.time, applied.active)),
         times |-> Append(c.times, b.time),
         keeps |-> IF c.state.lib > 0 THEN c.state.lib - 1 ELSE 0]

Init ==
    /\ time = Start
    /\ known = {}
    /\ chain = [n \in Nodes |-> Empty]
    /\ enabled = [n \in Nodes |-> FALSE]
    /\ keep = [n \in Nodes |-> 0]

Oldest(a, b) == IF a > b THEN a ELSE b

Adopt(n, c) ==
    /\ chain' = [chain EXCEPT ![n] = c]
    /\ keep' = [keep EXCEPT ![n] = Oldest(@, c.keeps)]

-----------------------------------------------------------------------------
(* maybe_produce_block *)

Synced(n) == enabled[n] \/ GetSlotTime(chain[n].state, 1) >= time

\* The block the node would produce now.
Scheduled(n) ==
    LET s == chain[n].state
        slot == GetSlotAtTime(s, time)
    IN  [slot |-> slot, time |-> GetSlotTime(s, slot), witness |-> GetScheduledWitness(s, slot)]

MayProduceAlone(n) ==
    LET b == Scheduled(n)
    IN  Synced(n) /\ b.slot > 0 /\ b.witness \in Keys(n) /\ time - b.time <= Lag

MayProduce(n) ==
    LET b == Scheduled(n)
    IN  /\ Synced(n)
        /\ b.slot > 0
        /\ b.witness \in Keys(n)
        /\ ParticipationRate(chain[n].state) >= Required
        /\ time - b.time <= Lag

\* generate_block pushes the block on the node's own chain, then it is broadcast.
Produce(n) ==
    LET b == [time |-> Scheduled(n).time, witness |-> Scheduled(n).witness]
    IN  /\ MayProduce(n)
        /\ CanApply(chain[n].state, b)
        /\ enabled' = [enabled EXCEPT ![n] = TRUE]
        /\ Adopt(n, Extended(chain[n], b))
        /\ known' = known \cup {chain'[n]}
        /\ UNCHANGED time

\* A wake-up that produces nothing may still find that the node is synced.
WakeUp(n) ==
    /\ Synced(n) /\ ~MayProduce(n) /\ ~enabled[n]
    /\ enabled' = [enabled EXCEPT ![n] = TRUE]
    /\ UNCHANGED <<time, known, chain, keep>>

-----------------------------------------------------------------------------
(* _push_block with a block of another node *)

Agree(c, e, k) == SubSeq(c.times, 1, k) = SubSeq(e.times, 1, k)
Common(c, e) == Cardinality({k \in DOMAIN c.times : k <= Num(e) /\ Agree(c, e, k)})

\* The branch is longer and leaves the node's chain within its windows.
CanSwitch(n, c) == Num(c) > Num(chain[n]) /\ Common(c, chain[n]) >= keep[n]

Receive(n, c) ==
    /\ CanSwitch(n, c)
    /\ Adopt(n, c)
    /\ UNCHANGED <<time, known, enabled>>

Tick ==
    /\ time < MaxTime
    /\ time' = time + 1
    /\ UNCHANGED <<known, chain, enabled, keep>>

Next ==
    \/ Tick
    \/ \E n \in Nodes : Produce(n) \/ WakeUp(n)
    \/ \E n \in Nodes, c \in known : Receive(n, c)

Spec == Init /\ [][Next]_vars

-----------------------------------------------------------------------------
(* Properties *)

Late(c, t) == {i \in DOMAIN c.times : c.times[i] > t}

\* maybe_produce_block requires a participation of more than one half: of two branches
\* only one can live on.  The rate is that of the head block and does not count the slots
\* missed since, so a branch that fell silent may still get one block when it is too late,
\* but not two.
MinorityStops ==
    \A c, e \in known :
       LET k == Common(c, e)
           t == (IF k = 0 THEN Start ELSE c.times[k]) + Window * BlockInterval
       IN  \/ k = Num(c) \/ k = Num(e)
           \/ Cardinality(Late(c, t)) < 2 \/ Cardinality(Late(e, t)) < 2

\* No two nodes have different irreversible blocks: "after the undo window is past the
\* block ID is no longer relevant and its number is irreversible" (database.hpp:540-542).
IrreversibleAgree ==
    \A m, n \in Nodes :
       chain[m].state.lib <= chain[n].state.lib => Agree(chain[m], chain[n], chain[m].state.lib)
=============================================================================
