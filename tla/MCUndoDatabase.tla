--------------------------- MODULE MCUndoDatabase ---------------------------
(* Instances of UndoDatabase for TLC.  Types, keys and data are uninterpreted *)
(* and no property orders them, so permuting each of them is a symmetry.      *)
EXTENDS UndoDatabase, TLC

Symmetry == Permutations(Types) \cup Permutations(Keys) \cup Permutations(Data)
=============================================================================
