------------------------------ MODULE DiskState -----------------------------
(***************************************************************************)
(* What a node has on disk while it runs, is killed and starts again: the  *)
(* object files that flush() replaces (db/object_database.cpp), the two    *)
(* files of the block log (chain/block_database.cpp), and open(), close()  *)
(* and the replay that put them together (chain/db_management.cpp).        *)
(*                                                                         *)
(* A kill can come between any two writes.  A stream of the block log      *)
(* keeps its last write in its buffer until the next seek, so the block    *)
(* and its index entry reach their files separately; every index of the    *)
(* object database is a file of its own.  The chain state is the sequence  *)
(* of applied blocks.                                                      *)
(***************************************************************************)
EXTENDS BlockTree, SequencesExt

CONSTANTS
    IdLess,        \* how the ids of blocks with the same number compare
    Types,         \* the indexes of the object database
    Lag,           \* how far the irreversible block is behind the head
    KillInSwitch,  \* whether kills in the middle of a fork switch are considered
    None           \* no directory, no file, nothing in a buffer

ASSUME IdAssumption == IdLess \subseteq Blocks \X Blocks /\ \A b \in Blocks : <<b, b>> \notin IdLess
ASSUME LagAssumption == Lag \in Nat \ {0} /\ KillInSwitch \in BOOLEAN
ASSUME TypesAssumption == Types # {}

VARIABLES
    phase,     \* what the process is doing
    chain,     \* the applied blocks
    floor,     \* the blocks that cannot be popped: undo and fork database start above
    todo,      \* the blocks of the fork that are still to be applied
    blocks,    \* the file "blocks"
    index,     \* the file "index": the block of every number
    buffered,  \* what the two streams hold back: [block, entry]
    cur, tmp, old,  \* the directories object_database, .tmp and .old
    refused,   \* how the last start went: "no", "open" or "replay" has thrown
    behind     \* history: a kill has left the log behind the saved state

logVars  == <<blocks, index, buffered>>
dirVars  == <<cur, tmp, old>>
vars     == <<phase, chain, floor, todo, logVars, dirVars, refused, behind>>

HeadId == IF chain = << >> THEN Genesis ELSE Last(chain)
Lib(c) == IF Len(c) > Lag THEN Len(c) - Lag ELSE 0
Nothing == [block |-> None, entry |-> None]

(* The contents of an index file, and a directory of them. *)
Files == {"torn", "saved"} \X Seq(Blocks)
Directories == [lock : BOOLEAN, files : [Types -> {None} \cup Files]]

ASSUME NoneAssumption == None \notin Blocks \cup Files \cup Directories

Init ==
    /\ phase = "run" /\ chain = << >> /\ floor = 1 /\ todo = << >>
    /\ blocks = {} /\ index = << >> /\ buffered = Nothing
    /\ cur = None /\ tmp = None /\ old = None
    /\ refused = "no" /\ behind = FALSE

-----------------------------------------------------------------------------
(* The block log *)

(* Mutant: the entries are placed by block number, counted from zero. *)
WithEntryOneLate(f, b) == IF b = None THEN f
                          ELSE [k \in 1..(IF Num(b) >= Len(f) THEN Num(b) + 1 ELSE Len(f)) |->
                                  IF k = Num(b) + 1 THEN b ELSE IF k \in DOMAIN f THEN f[k] ELSE None]

(* The file "index" with entry b at its number. *)
WithEntry(f, b) == IF b = None THEN f
                   ELSE [k \in 1..(IF Num(b) > Len(f) THEN Num(b) ELSE Len(f)) |->
                           IF k = Num(b) THEN b ELSE IF k \in DOMAIN f THEN f[k] ELSE None]

(* block_database::store: the seeks write out what was held back. *)
Store(b) ==
    /\ blocks' = blocks \cup ({buffered.block} \ {None})
    /\ index' = WithEntry(index, buffered.entry)
    /\ buffered' = [block |-> b, entry |-> b]

(* A read of the log seeks as well, and a large block does not fit the buffer. *)
WriteOutBlock ==
    /\ buffered.block # None
    /\ blocks' = blocks \cup {buffered.block}
    /\ buffered' = [buffered EXCEPT !.block = None]
    /\ UNCHANGED <<floor, phase, chain, todo, index, dirVars, refused, behind>>

WriteOutEntry ==
    /\ buffered.entry # None
    /\ index' = WithEntry(index, buffered.entry)
    /\ buffered' = [buffered EXCEPT !.entry = None]
    /\ UNCHANGED <<floor, phase, chain, todo, blocks, dirVars, refused, behind>>

(* pop_block down to the last irreversible block, or as far as it goes *)
Rewound(c) == SubSeq(c, 1, Max({Lib(c), Min({floor, Len(c)})}))

-----------------------------------------------------------------------------
(* The running node *)

(* Mutant: the parent is not compared. *)
PushBlockUnlinked(b) ==
    /\ phase = "run"
    /\ Num(b) = Len(chain) + 1
    /\ chain' = Append(chain, b)
    /\ Store(b)
    /\ UNCHANGED <<floor, phase, todo, dirVars, refused, behind>>

(* _push_block on top of the head. *)
PushBlock(b) ==
    /\ phase = "run"
    /\ Parent[b] = HeadId
    /\ chain' = Append(chain, b)
    /\ Store(b)
    /\ UNCHANGED <<floor, phase, todo, dirVars, refused, behind>>

(* _push_block of the head of a longer fork: the blocks up to the fork are popped. *)
StartSwitch(b) ==
    LET base == Len(LongestCommonPrefix({PathTo[b], chain}))
    IN  /\ phase = "run"
        /\ Num(b) > Len(chain) /\ Parent[b] # HeadId
        /\ base >= Len(Rewound(chain))
        /\ chain' = SubSeq(chain, 1, base)
        /\ todo' = SubSeq(PathTo[b], base + 1, Num(b))
        /\ phase' = "switch"
        /\ UNCHANGED <<floor, logVars, dirVars, refused, behind>>

(* The next block of the fork is applied and stored. *)
SwitchBlock ==
    /\ phase = "switch"
    /\ chain' = Append(chain, Head(todo))
    /\ Store(Head(todo))
    /\ todo' = Tail(todo)
    /\ phase' = IF Len(todo) = 1 THEN "run" ELSE "switch"
    /\ UNCHANGED <<floor, dirVars, refused, behind>>

-----------------------------------------------------------------------------
(* close(): rewind, flush(), close of the block log *)

(* create_directories( object_database.tmp/lock ) *)
LockedTmp == IF tmp = None THEN [lock |-> TRUE, files |-> [t \in Types |-> None]]
             ELSE [tmp EXCEPT !.lock = TRUE]

BeginClose ==
    /\ phase = "run"
    /\ chain' = Rewound(chain)
    /\ tmp' = LockedTmp
    /\ phase' = "save"
    /\ UNCHANGED <<floor, todo, logVars, cur, old, refused, behind>>

(* The indexes are saved in parallel; a file is truncated and then written. *)
SaveIndex(t) ==
    /\ phase = "save"
    /\ \/ tmp.files[t] # <<"torn", chain>> /\ tmp.files[t] # <<"saved", chain>>
          /\ tmp' = [tmp EXCEPT !.files[t] = <<"torn", chain>>]
       \/ tmp.files[t] = <<"torn", chain>> /\ tmp' = [tmp EXCEPT !.files[t] = <<"saved", chain>>]
    /\ UNCHANGED <<floor, phase, chain, todo, logVars, cur, old, refused, behind>>

(* Mutant: the tasks are not waited for. *)
AllSavedNot == TRUE

AllSaved == \A t \in Types : tmp.files[t] = <<"saved", chain>>

Unlock ==
    /\ phase = "save"
    /\ AllSaved
    /\ tmp' = [tmp EXCEPT !.lock = FALSE]
    /\ phase' = "unlocked"
    /\ UNCHANGED <<floor, chain, todo, logVars, cur, old, refused, behind>>

(* The first rename, if there is something to rename; it throws when a *)
(* directory object_database.old was left behind.                      *)
MoveAway ==
    /\ phase = "unlocked"
    /\ \/ cur = None /\ phase' = "moved" /\ UNCHANGED <<cur, old>>
       \/ cur # None /\ old = None /\ old' = cur /\ cur' = None /\ phase' = "moved"
       \/ cur # None /\ old # None /\ phase' = "failed" /\ UNCHANGED <<cur, old>>
    /\ UNCHANGED <<floor, chain, todo, logVars, tmp, refused, behind>>

MoveIn ==
    /\ phase = "moved"
    /\ cur' = tmp /\ tmp' = None
    /\ phase' = "placed"
    /\ UNCHANGED <<floor, chain, todo, logVars, old, refused, behind>>

RemoveOld ==
    /\ phase = "placed"
    /\ old' = None
    /\ phase' = "flushed"
    /\ UNCHANGED <<floor, chain, todo, logVars, cur, tmp, refused, behind>>

(* Mutant: the process ends without closing the log. *)
CloseLogForgotten ==
    /\ phase \in {"flushed", "failed"}
    /\ buffered' = Nothing
    /\ phase' = "down" /\ chain' = << >>
    /\ UNCHANGED <<floor, todo, blocks, index, dirVars, refused, behind>>

(* The block log is closed, by close() or when the process ends after flush() has thrown. *)
CloseLog ==
    /\ phase \in {"flushed", "failed"}
    /\ blocks' = blocks \cup ({buffered.block} \ {None})
    /\ index' = WithEntry(index, buffered.entry)
    /\ buffered' = Nothing
    /\ phase' = "down" /\ chain' = << >>
    /\ UNCHANGED <<floor, todo, dirVars, refused, behind>>

(* The blocks the saved indexes were written for; object_database::open     *)
(* ignores a locked directory, and an index whose file is missing is empty. *)
SavedStates(dir) == IF dir = None \/ dir.lock THEN {<<"saved", << >>>>}
                    ELSE {IF dir.files[t] = None THEN <<"saved", << >>>> ELSE dir.files[t] : t \in Types}

(* The state of object_database is in the block log, whose entries are f and *)
(* whose blocks are bs.                                                      *)
Covered(f, bs) == \A st \in SavedStates(cur) : IsPrefix(st[2], f) /\ ToSet(st[2]) \subseteq bs

(* What the streams hold is lost. *)
Kill ==
    /\ phase # "down"
    /\ KillInSwitch \/ phase # "switch"
    /\ phase' = "down" /\ chain' = << >> /\ todo' = << >>
    /\ buffered' = Nothing
    /\ behind' = (behind \/ ~ Covered(index, blocks))
    /\ UNCHANGED <<floor, blocks, index, dirVars, refused>>

-----------------------------------------------------------------------------
(* open() *)

(* last_index_entry: the index is cut behind the last entry whose block can be read. *)
Truncated == SubSeq(index, 1, IF \E k \in DOMAIN index : index[k] \in blocks
                                THEN Max({k \in DOMAIN index : index[k] \in blocks}) ELSE 0)

(* The blocks reindex() pushes on state c: up to the first that cannot be read. *)
ToReplay(c, log) ==
    LET gaps == {k \in (Len(c) + 1)..Len(log) : log[k] \notin blocks}
    IN  SubSeq(log, Len(c) + 1, IF gaps = {} THEN Len(log) ELSE Min(gaps) - 1)

(* open() throws when the id of the last block of the log is less than that *)
(* of the state, which begins with its number, or when a block that is      *)
(* replayed does not follow its parent.                                     *)
Refuses(c, log) ==
    \/ log # << >> /\ Len(log) < Len(c)
    \/ log # << >> /\ Len(log) = Len(c) /\ <<Last(log), Last(c)>> \in IdLess
    \/ ~ IsChain(c \o ToReplay(c, log))

(* open() from directory dir; the log is cut where a block cannot be read. *)
Open(dir, how) ==
    LET c   == (CHOOSE s \in SavedStates(dir) : TRUE)[2]
        log == Truncated
        new == ToReplay(c, log)
    IN  /\ phase = "down"
        /\ index' = IF Refuses(c, log) THEN log ELSE SubSeq(log, 1, Min({Len(log), Len(c \o new)}))
        /\ IF Refuses(c, log)
           THEN refused' = how /\ UNCHANGED <<phase, chain>>
           ELSE refused' = "no" /\ phase' = "run" /\ chain' = c \o new
        /\ floor' = IF c = << >> \/ new = << >> THEN Len(c) + 1 ELSE Len(c)
        /\ UNCHANGED <<todo, blocks, buffered, tmp, old>>

Start == Open(cur, "open") /\ UNCHANGED <<cur, behind>>

(* --replay-blockchain: the object files are wiped first. *)
StartWithReplay == Open(None, "replay") /\ cur' = None /\ behind' = FALSE

-----------------------------------------------------------------------------
Next ==
    \/ WriteOutBlock \/ WriteOutEntry
    \/ \E b \in Blocks : PushBlock(b)
    \/ \E b \in Blocks : StartSwitch(b)
    \/ SwitchBlock
    \/ BeginClose \/ \E t \in Types : SaveIndex(t)
    \/ Unlock \/ MoveAway \/ MoveIn \/ RemoveOld \/ CloseLog
    \/ Kill
    \/ Start \/ StartWithReplay

Spec == Init /\ [][Next]_vars

-----------------------------------------------------------------------------
(* Properties *)

(* Chain, directories and files are what the code writes into them. *)
TypeOK ==
    /\ phase \in {"run", "switch", "save", "unlocked", "moved", "placed", "flushed", "failed", "down"}
    /\ chain \in Seq(Blocks) /\ todo \in Seq(Blocks) /\ IsChain(chain \o todo)
    /\ floor \in Nat /\ blocks \subseteq Blocks /\ index \in Seq(Blocks \cup {None})
    /\ buffered \in [block : Blocks \cup {None}, entry : Blocks \cup {None}]
    /\ {cur, tmp, old} \subseteq Directories \cup {None}
    /\ refused \in {"no", "open", "replay"} /\ behind \in BOOLEAN

IsSingletonOf(how, S) == Cardinality(S) = 1 /\ \A s \in S : s[1] = how

(* Wherever a kill comes in flush(), a start never reads object files of   *)
(* two different states, or one that is half written: object_database is   *)
(* missing, or all its indexes were completely saved for the same chain.   *)
SavedStateIsWhole ==
    \A d \in {cur, old} \ {None} :
       ~ d.lock /\ IsSingletonOf("saved", SavedStates(d))

(* The saved state is never ahead of the block log: its blocks can all be  *)
(* read, at their numbers, from the files or the buffers of the process,   *)
(* however the chain has been switched; only a kill can take the buffers.  *)
LogCoversSavedState ==
    ~ behind => Covered(WithEntry(index, buffered.entry), blocks \cup {buffered.block})

(* open() asserts *last_block >= head_block_id(): a start throws only when *)
(* a kill came between the flush of the state and the close of the log and *)
(* took a block of that state with the buffers; every other kill, in       *)
(* flush() or between a block and its index entry, costs blocks at most.   *)
StartsAgain == refused = "open" => behind

(* "Caught exception in open(), you might want to force a replay": a start *)
(* with --replay-blockchain succeeds.                                      *)
ReplayOpens == refused # "replay"

=============================================================================
