------------------------------ MODULE BlockTree -----------------------------
(***************************************************************************)
(* The blocks that exist and how they link (chain/protocol/block.cpp): a   *)
(* block names the one before it, and its number, which is part of its id, *)
(* is one more than that block's.                                          *)
(***************************************************************************)
EXTENDS Integers, Sequences

CONSTANTS
    Blocks,     \* ids of the blocks that exist
    Genesis,    \* block_id_type(): the previous id of block 1
    Parent,     \* Parent[b]: the previous id of block b
    Number      \* Number[b]: block_num() of block b

ASSUME ParentAssumption == Parent \in [Blocks -> Blocks \cup {Genesis}] /\ Genesis \notin Blocks
ASSUME NumberAssumption ==
    /\ Number \in [Blocks -> Nat]
    /\ \A b \in Blocks : Number[b] = IF Parent[b] = Genesis THEN 1 ELSE Number[Parent[b]] + 1

(* num_from_id *)
Num(b) == IF b = Genesis THEN 0 ELSE Number[b]

(* The blocks from number 1 up to b, following the previous ids. *)
PathTo[b \in Blocks] == IF Parent[b] = Genesis THEN <<b>> ELSE Append(PathTo[Parent[b]], b)

(* Every block follows the one it names. *)
IsChain(c) == \A k \in DOMAIN c : Parent[c[k]] = IF k = 1 THEN Genesis ELSE c[k - 1]
=============================================================================
