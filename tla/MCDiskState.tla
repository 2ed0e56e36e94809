----------------------------- MODULE MCDiskState ----------------------------
(*   1a - 2a - 3a      *)
(*     \- 2b - 3b - 4b *)
EXTENDS DiskState, TLC

CONSTANTS b1a, b2a, b3a, b2b, b3b, b4b

AllParents == b1a :> Genesis @@ b2a :> b1a @@ b3a :> b2a @@ b2b :> b1a @@ b3b :> b2b @@ b4b :> b3b
AllNumbers == b1a :> 1 @@ b2a :> 2 @@ b3a :> 3 @@ b2b :> 2 @@ b3b :> 3 @@ b4b :> 4
MCIdLess == {<<b2a, b2b>>, <<b3b, b3a>>} \cap (Blocks \X Blocks)
MCParent == [b \in Blocks |-> AllParents[b]]
MCNumber == [b \in Blocks |-> AllNumbers[b]]
=============================================================================
