----------------------------- MODULE MCWitnesses -----------------------------
(***************************************************************************)
(* The schedule of the witnesses, in two parts: one chain with elections   *)
(* and maintenance (WitnessSchedule), or several nodes that produce and    *)
(* exchange blocks (BlockProduction).  A behaviour is about one of them;   *)
(* the chain of a behaviour of the nodes stays at genesis.                 *)
(***************************************************************************)
EXTENDS WitnessSchedule

CONSTANTS Part,             \* the parts a behaviour may be about
          Required,         \* the participation the nodes require
          RateWindow,       \* the slots their participation rate counts
          MaxTime           \* bound: when their clock stops

VARIABLES part, time, known, chain, enabled, keep
nodeVars == <<time, known, chain, enabled, keep>>

MCFirst == <<1, 2, 3>>
MCKeys(n) == {n}
\* One order of three witnesses for every time: the order of the ids, turned.
MCShuffle(t, S) == [i \in 1 .. 3 |-> ((i + t \div 4) % 3) + 1]

Nodes == INSTANCE BlockProduction WITH
    Witnesses <- 1 .. 3, SkipSlots <- 0, MaintInterval <- 100, MaxUndo <- 20, Window <- RateWindow,
    Checkpoint <- 0, Nodes <- 1 .. 3, Keys <- MCKeys, Lag <- 0, BlockInterval <- 2,
    Start <- 0, Shuffle <- MCShuffle

ASSUME NodesAssumption == Nodes!ProductionAssumption

MCInit == part \in Part /\ Init /\ Nodes!Init /\ (part = "nodes" => d.interval = 2)

WitnessesSpec ==
    /\ MCInit
    /\ [][\/ part = "nodes" /\ Nodes!Next /\ UNCHANGED <<part, vars>>
          \/ part = "chain" /\ Next /\ UNCHANGED <<part, nodeVars>>]_<<vars, part, nodeVars>>

-----------------------------------------------------------------------------
\* The properties of the nodes (see BlockProduction).
MinorityStops == Nodes!MinorityStops
IrreversibleAgree == Nodes!IrreversibleAgree
=============================================================================
