---------------------------- MODULE ForkDatabase ----------------------------
(***************************************************************************)
(* The fork database (libraries/chain/fork_database): every recent block,  *)
(* applied or not, linked to its parent.  A fork database is a record      *)
(*   index     the ids in _index                                           *)
(*   linked    the ids in _index whose weak pointer prev can be locked     *)
(*   head      the id of _head, or None                                    *)
(*   head_linked   whether _head->prev can be locked                       *)
(*   max_size  _max_size                                                   *)
(* and the operators below are the methods, each returning the new record  *)
(* or saying that the method throws.  An erased block is gone for good for *)
(* the children that pointed to it: pushing it again makes a new item, to  *)
(* which their weak pointers do not lead.                                  *)
(***************************************************************************)
EXTENDS BlockTree, FiniteSets

CONSTANT None   \* no block

ASSUME NoneAssumption == None \notin Blocks \cup {Genesis}

ForkDatabases ==
    [index : SUBSET Blocks, linked : SUBSET Blocks, head : Blocks \cup {None},
     head_linked : BOOLEAN, max_size : Nat]

EmptyForkDatabase(size) ==
    [index |-> {}, linked |-> {}, head |-> None, head_linked |-> FALSE, max_size |-> size]

(* The items with ids S are destroyed: the weak pointers to them expire. *)
Erase(f, S) ==
    [f EXCEPT !.index = @ \ S,
              !.linked = {b \in @ \ S : Parent[b] \notin S},
              !.head_linked = @ /\ Parent[f.head] \notin S]

SetHead(f, b) == [f EXCEPT !.head = b, !.head_linked = b \in f.linked]

(* The oldest number kept next to a head with number n. *)
Oldest(n, size) == IF n > size THEN n - size ELSE 0

PruneBelow(f, n) == Erase(f, {b \in f.index : Num(b) < n})

-----------------------------------------------------------------------------
(* pop_block *)
CanPop(f)    == f.head # None /\ f.head_linked
PopHead(f)   == SetHead(f, Parent[f.head])

(* Mutant: the parent must have a parent in the index itself. *)
CanPushLinked(f, b) ==
    f.head # None =>
        /\ Num(b) > Oldest(Num(f.head), f.max_size)
        /\ Parent[b] # Genesis => Parent[b] \in f.linked

(* _push_block: too old, or no parent in the index, is refused. *)
CanPush(f, b) ==
    f.head # None =>
        /\ Num(b) > Oldest(Num(f.head), f.max_size)
        /\ Parent[b] # Genesis => Parent[b] \in f.index

(* Mutant: a block as high as the head becomes the head. *)
PushItemSameHeight(f, b) ==
    LET links  == f.head # None /\ Parent[b] # Genesis
        stored == [f EXCEPT !.index = @ \cup {b},
                            !.linked = IF links THEN @ \cup {b} ELSE @]
    IN  IF f.head = None \/ Num(b) >= Num(f.head)
        THEN [stored EXCEPT !.head = b, !.head_linked = links]
        ELSE stored

PushItem(f, b) ==
    LET links  == f.head # None /\ Parent[b] # Genesis
        stored == [f EXCEPT !.index = @ \cup {b},
                            !.linked = IF links /\ b \notin f.index THEN @ \cup {b} ELSE @]
        raised == [stored EXCEPT !.head = b, !.head_linked = links]
    IN  CASE f.head = None -> raised
          [] f.head # None /\ Num(b) > Num(f.head) ->
                PruneBelow(raised, Oldest(Num(b), f.max_size))
          [] OTHER -> stored

(* start_block: an item without a parent *)
StartBlock(f, b) == [f EXCEPT !.index = @ \cup {b}, !.head = b, !.head_linked = FALSE]

(* set_max_size *)
SetForkMaxSize(f, size) ==
    LET g == [f EXCEPT !.max_size = size]
    IN  IF f.head = None THEN g ELSE PruneBelow(g, Oldest(Num(f.head), size))

(* remove: a removed head falls back to its parent, or to none. *)
RemoveItem(f, b) ==
    LET popped == CASE f.head # b -> f
                    [] f.head = b /\ CanPop(f) -> PopHead(f)
                    [] OTHER -> [f EXCEPT !.head = None, !.head_linked = FALSE]
    IN  Erase(popped, {b})

(* fetch_branch_from: the branches of x and y down to the children of their *)
(* most recent common ancestor, which have number BranchBase(x, y).         *)
BranchBase(x, y) ==
    LET low == IF Num(x) <= Num(y) THEN Num(x) ELSE Num(y)
        meets(n) == Parent[PathTo[x][n]] = Parent[PathTo[y][n]]
    IN  CHOOSE n \in 1..low : meets(n) /\ \A m \in (n + 1)..low : ~meets(m)

(* The branch that ends in x, from number n up, oldest first. *)
Branch(x, n) == SubSeq(PathTo[x], n, Num(x))

CanFetchBranches(f, x, y) ==
    /\ x \in f.index /\ y \in f.index
    /\ \A b \in {x, y} : \A n \in (BranchBase(x, y) + 1)..Num(b) : PathTo[b][n] \in f.linked
=============================================================================
