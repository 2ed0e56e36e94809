--------------------------- MODULE MCChainDatabase --------------------------
(***************************************************************************)
(* Two trees of blocks for TLC.                                            *)
(*                                                                         *)
(*   Shallow:  1a - 2a - 3a             3b is bad, so that the branch of   *)
(*                \- 2b - 3b - 4b       4b is taken back in the middle; the *)
(*                     \- 3c - 4c       branch of 1b replaces the whole    *)
(*             1b - 2d - 3d             chain, and 3d fails late, after it *)
(*                                      has changed the size limits        *)
(*                                                                         *)
(*   Deep:     1a - 2a - 3a             a branch that replaces the whole   *)
(*             1b - 2b - 3b - 4b        chain, whose last block conflicts  *)
(*                                      with its first                     *)
(***************************************************************************)
EXTENDS ChainDatabase, TLC

CONSTANTS b1a, b2a, b3a, b2b, b3b, b4b, b3c, b4c, b2d, b3d, b1b, t1, t2, w1, w2

ShallowBlocks == {b1a, b2a, b3a, b2b, b3b, b4b, b3c, b4c, b2d, b3d, b1b}
ShallowParent == b1a :> Genesis @@ b2a :> b1a @@ b3a :> b2a @@ b2b :> b1a
                 @@ b3b :> b2b @@ b4b :> b3b @@ b3c :> b2b @@ b4c :> b3c
                 @@ b1b :> Genesis @@ b2d :> b1b @@ b3d :> b2d
ShallowTxsOf == b1a :> <<>> @@ b2a :> <<t1>> @@ b3a :> <<t2>> @@ b2b :> <<t2>>
                @@ b3b :> <<>> @@ b4b :> <<t1>> @@ b3c :> <<t1>> @@ b4c :> <<>>
                @@ b1b :> <<>> @@ b2d :> <<t2>> @@ b3d :> <<t1>>
ShallowSigner == b1a :> w1 @@ b2a :> w2 @@ b3a :> w1 @@ b2b :> w1
                 @@ b3b :> w1 @@ b4b :> w2 @@ b3c :> w1 @@ b4c :> w2
                 @@ b1b :> w1 @@ b2d :> w2 @@ b3d :> w1

DeepBlocks == {b1a, b2a, b3a, b1b, b2b, b3b, b4b}
DeepParent == b1a :> Genesis @@ b2a :> b1a @@ b3a :> b2a @@ b1b :> Genesis
              @@ b2b :> b1b @@ b3b :> b2b @@ b4b :> b3b
DeepTxsOf == b1a :> <<>> @@ b2a :> <<t1>> @@ b3a :> <<>> @@ b1b :> <<t2>>
             @@ b2b :> <<>> @@ b3b :> <<>> @@ b4b :> <<t1>>
DeepSigner == [b \in DeepBlocks |-> IF b \in {b1a, b2a, b3a} THEN w1 ELSE w2]

Numbers == b1a :> 1 @@ b2a :> 2 @@ b3a :> 3 @@ b2b :> 2 @@ b3b :> 3 @@ b4b :> 4
           @@ b3c :> 3 @@ b4c :> 4 @@ b1b :> 1 @@ b2d :> 2 @@ b3d :> 3
MCNumber == [b \in Blocks |-> Numbers[b]]

NoConflicts   == {}
TwoConflicts == {<<t1, t2>>, <<t2, t1>>}
=============================================================================
