--------------------------- MODULE SnapshotStore ----------------------------
(***************************************************************************)
(* What the undo database promises its callers, with no deltas in sight:   *)
(* opening a session takes a full copy of the database, undoing it puts    *)
(* the copy back, merging it forgets the copy and keeps the changes, and   *)
(* committing it keeps the copy for pop_block.  Only copies that no open   *)
(* session needs may be dropped to save space.                             *)
(***************************************************************************)
EXTENDS Naturals, Sequences

CONSTANT States       \* the contents the database can have

VARIABLES
    content,          \* the database
    copies,           \* the copies taken, oldest first
    open,             \* number of open sessions; theirs are the newest copies
    recording         \* FALSE while changes need not be undoable

store == <<content, copies, open, recording>>

Init ==
    /\ content \in States
    /\ copies = <<>>
    /\ open = 0
    /\ recording \in BOOLEAN

(* A change; one made while nothing is kept, but recorded, keeps a copy first. *)
Change ==
    /\ content' \in States
    /\ copies' = IF recording /\ copies = <<>> THEN <<content>> ELSE copies
    /\ UNCHANGED <<open, recording>>

(* A session opens: the oldest copies may go, never one of an open session. *)
Open ==
    /\ \E k \in 1..(Len(copies) + 1) :
          /\ Len(copies) - k + 1 >= open
          /\ copies' = Append(SubSeq(copies, k, Len(copies)), content)
    /\ open' = open + 1
    /\ recording' = TRUE
    /\ UNCHANGED content

(* The newest session ends, undone or merged. *)
Close ==
    /\ open > 0
    /\ Len(copies) >= open
    /\ open' = open - 1
    /\ copies' = SubSeq(copies, 1, Len(copies) - 1)
    /\ content' \in {content, copies[Len(copies)]}
    /\ recording' \in BOOLEAN

(* The only open session is committed: its copy stays. *)
Keep ==
    /\ open = 1
    /\ open' = 0
    /\ UNCHANGED <<content, copies, recording>>

(* The newest kept copy is put back. *)
Rewind ==
    /\ open = 0
    /\ copies # <<>>
    /\ content' = copies[Len(copies)]
    /\ copies' = SubSeq(copies, 1, Len(copies) - 1)
    /\ UNCHANGED <<open, recording>>

(* Recording may be switched only when nothing is kept. *)
Switch ==
    /\ copies = <<>>
    /\ open = 0
    /\ recording' \in BOOLEAN
    /\ UNCHANGED <<content, copies, open>>

Next == Change \/ Open \/ Close \/ Keep \/ Rewind \/ Switch

Spec == Init /\ [][Next]_store
=============================================================================
