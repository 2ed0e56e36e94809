------------------------------- MODULE Matrix -------------------------------
(***************************************************************************)
(* The matrix of the game zone: matrix_open_room_evaluator                 *)
(* (chain/gamezone_evaluator.cpp) and proceed_matrix (chain/db_update.cpp),*)
(* by the rules in force since CWD6, for a matrix after the first three.   *)
(*                                                                         *)
(* A matrix is open for a number of blocks.  A player pays for a room on a *)
(* level; the oldest open room of that level gets one more cell, and when  *)
(* its cells are full its owner is paid the prize and may play one level   *)
(* higher.  When the matrix is over, what is left goes to the accumulated  *)
(* fees and the next matrix is created.  Operations of a block see the     *)
(* number of the block before it.                                          *)
(***************************************************************************)
EXTENDS Integers, FiniteSetsExt, SequencesExt

CONSTANTS
    Players,
    StatusOf,     \* StatusOf[p]: referral_status_type
    Balances,     \* initial core balances
    LastLevel,    \* 8
    Price,        \* matrix_level_n_price, by level
    Prize,        \* matrix_level_n_prize, by level
    Cells,        \* matrix_level_n_cells, by level
    Lasts,        \* matrix_lasts_blocks
    Idle,         \* matrix_idle_blocks
    MaxBlock,     \* bound: the last block
    MaxRooms      \* bound: rooms ever opened

Levels == 1..LastLevel

BlocksAssumption == Lasts \in Nat \ {0} /\ Idle \in Nat \ {0}
PrizeAssumption == \A l \in Levels : Cells[l] > 0 /\ Prize[l] <= Price[l] * Cells[l]

VARIABLES
    balance,       \* core balances
    matrices,      \* matrix objects, by id
    rooms,         \* matrix_rooms objects, by id
    stats,         \* matrix fields of account_statistics_object
    accumulated,   \* accumulated_fees of the core asset
    head           \* head_block_num()

vars == <<balance, matrices, rooms, stats, accumulated, head>>

NewMatrix(start) == [start |-> start, finish |-> start + Lasts, status |-> 0, amount |-> 0,
                     moved |-> 0]     \* moved: history, what went to the accumulated fees

Init ==
    /\ balance = Balances
    /\ matrices = <<NewMatrix(Idle)>>
    /\ rooms = << >>
    /\ stats = [p \in Players |-> [matrix |-> 0, levels |-> 1, opened |-> 0]]
    /\ accumulated = 0
    /\ head = 0

-----------------------------------------------------------------------------
(* Opening a room *)

Larger(x, y) == IF x >= y THEN x ELSE y

(* A player who has not opened a room in matrix m is new to it. *)
IsNew(m, p) == stats[p].matrix # m \/ stats[p].opened = 0

LevelAllowed(m, p, l) ==
    \/ l <= Larger(stats[p].levels, 2 * StatusOf[p])
    \/ l = 1 /\ IsNew(m, p)

OpenRooms(m, l) == {i \in DOMAIN rooms : rooms[i].matrix = m /\ rooms[i].level = l /\ rooms[i].status = 1}

(* One open room on a level; for players without a contract one in all. *)
NoOtherRoom(m, p, l) ==
    IsNew(m, p) \/ \A i \in DOMAIN rooms :
       rooms[i].matrix = m /\ rooms[i].player = p /\ rooms[i].status = 1 =>
          rooms[i].level # l /\ StatusOf[p] # 0

(* The price of the operation must be the level's, and the player must have it. *)
CanPay(p, l) == balance[p] >= Price[l]

(* Mutant: the room is looked for from the other end of the index. *)
RoomToFillLast(m, l) == Max(OpenRooms(m, l))

(* The first of by_matrix_level_status. *)
RoomToFill(m, l) == Min(OpenRooms(m, l))

(* A closed room opens the next level to its owner. *)
WonLevel(s, l) == [s EXCEPT !.levels = Larger(@, IF l + 1 > LastLevel THEN LastLevel ELSE l + 1)]

Booked(m, l, prize) == [matrices EXCEPT ![m].amount = @ + Price[l] - prize]

MatrixOpenRoom(m, p, l) ==
    LET entered == IF IsNew(m, p)
                     THEN [stats EXCEPT ![p] = [matrix |-> m, levels |-> Larger(1, 2 * StatusOf[p]),
                                                opened |-> 0]]
                     ELSE stats
        fill    == OpenRooms(m, l) # {}
        i       == RoomToFill(m, l)
        full    == fill /\ rooms[i].cells + 1 >= rooms[i].total
        owner   == rooms[i].player
        prize   == IF full THEN Prize[l] ELSE 0
        won     == IF full THEN [entered EXCEPT ![owner] = WonLevel(@, l)] ELSE entered
        paid    == [balance EXCEPT ![p] = @ - Price[l]]
        filled  == IF fill THEN [rooms EXCEPT ![i].cells = @ + 1,
                                              ![i].status = IF full THEN 2 ELSE 1]
                           ELSE rooms
    IN  /\ Len(rooms) < MaxRooms
        /\ matrices[m].start <= head
        /\ matrices[m].finish >= head
        /\ LevelAllowed(m, p, l)
        /\ NoOtherRoom(m, p, l)
        /\ CanPay(p, l)
        /\ balance' = IF full THEN [paid EXCEPT ![owner] = @ + prize] ELSE paid
        /\ matrices' = Booked(m, l, prize)
        /\ rooms' = Append(filled, [matrix |-> m, player |-> p, level |-> l, status |-> 1,
                                    cells |-> 0, total |-> Cells[l]])
        /\ stats' = [won EXCEPT ![p].opened = @ + 1]
        /\ UNCHANGED <<accumulated, head>>

-----------------------------------------------------------------------------
(* The end of block n: the matrix with the last finish block may be over. *)

IsOver(m, n) == m.finish <= n /\ m.status = 0

EndOfBlock ==
    LET n    == head + 1
        last == matrices[Len(matrices)]
    IN  /\ n <= MaxBlock
        /\ head' = n
        /\ IF IsOver(last, n)
             THEN /\ accumulated' = accumulated + last.amount
                  /\ matrices' = Append([matrices EXCEPT ![Len(matrices)].status = 1,
                                                         ![Len(matrices)].moved = last.amount],
                                        NewMatrix(n + Idle))
             ELSE UNCHANGED <<accumulated, matrices>>
        /\ UNCHANGED <<balance, rooms, stats>>

-----------------------------------------------------------------------------
Next ==
    \/ \E m \in DOMAIN matrices, p \in Players, l \in Levels : MatrixOpenRoom(m, p, l)
    \/ EndOfBlock

Spec == Init /\ [][Next]_vars

-----------------------------------------------------------------------------
(* Properties *)

(* The objects have the fields gamezone_object.hpp gives them, no balance  *)
(* is negative, and a room has fewer cells than it needs until it closes.  *)
TypeOK ==
    /\ balance \in [Players -> Nat]
    /\ accumulated \in Int /\ head \in 0..MaxBlock
    /\ \A m \in DOMAIN matrices : matrices[m].status \in 0..1 /\ matrices[m].amount \in Int
    /\ \A i \in DOMAIN rooms :
          /\ rooms[i].matrix \in DOMAIN matrices /\ rooms[i].player \in Players
          /\ rooms[i].level \in Levels /\ rooms[i].status \in 1..2
          /\ rooms[i].status = 1 <=> rooms[i].cells < rooms[i].total
    /\ \A p \in Players : stats[p].levels \in 1..Larger(LastLevel, 8)

Sum(f) == MapThenSumSet(LAMBDA x : f[x], DOMAIN f)

(* Every unit the players had is in a balance, in an open matrix, in the   *)
(* accumulated fees, or is the difference a room opened in a closed matrix *)
(* has made to its amount.                                                 *)
FundsConserved ==
    Sum(Balances) = Sum(balance) + accumulated + Sum([m \in DOMAIN matrices |-> matrices[m].amount - matrices[m].moved])

(* An open matrix can pay its prizes: whichever rooms close in which       *)
(* order, its amount covers every cell of a room that is still open, and   *)
(* the first room of every level.                                          *)
MatrixSolvent ==
    \A m \in DOMAIN matrices : matrices[m].status = 0 =>
       matrices[m].amount >= Sum([l \in Levels |->
          IF OpenRooms(m, l) = {} THEN 0
          ELSE Price[l] * (1 + MapThenSumSet(LAMBDA i : rooms[i].cells, OpenRooms(m, l)))])

(* Rooms of a level are filled in the order in which they were opened, and *)
(* every room but the first of a level has filled one cell of another.     *)
FilledInOrder ==
    \A m \in DOMAIN matrices, l \in Levels :
       LET R == {i \in DOMAIN rooms : rooms[i].matrix = m /\ rooms[i].level = l}
       IN  /\ \A i, j \in R : i < j /\ rooms[j].cells > 0 => rooms[i].status = 2
           /\ R # {} => MapThenSumSet(LAMBDA i : rooms[i].cells, R) = Cardinality(R) - 1

(* A player has at most one open room on a level of a matrix, and one in   *)
(* the whole matrix if it has no contract.                                 *)
OneRoomPerLevel ==
    \A i, j \in DOMAIN rooms :
       /\ i # j /\ rooms[i].status = 1 /\ rooms[j].status = 1
       /\ rooms[i].matrix = rooms[j].matrix /\ rooms[i].player = rooms[j].player
       => rooms[i].level # rooms[j].level /\ StatusOf[rooms[i].player] # 0

(* A room above the levels that come with the player's contract was earned *)
(* by a closed room on the level below it, in this matrix or an earlier    *)
(* one, although the levels are reset when the player enters a matrix.     *)
LevelsEarned ==
    \A i \in DOMAIN rooms : rooms[i].level > Larger(1, 2 * StatusOf[rooms[i].player]) =>
       \E j \in DOMAIN rooms : /\ rooms[j].player = rooms[i].player /\ rooms[j].status = 2
                               /\ rooms[j].level = rooms[i].level - 1
                               /\ rooms[j].matrix <= rooms[i].matrix

(* Matrices follow one another: at most the last one is open, and rooms of *)
(* two matrices are never for sale at the same time.                       *)
OneMatrixAtATime ==
    /\ \A m \in DOMAIN matrices : matrices[m].status = 0 <=> m = Len(matrices)
    /\ \A m, k \in DOMAIN matrices : m < k => matrices[m].finish < matrices[k].start

=============================================================================
