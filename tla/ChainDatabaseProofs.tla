------------------------ MODULE ChainDatabaseProofs -------------------------
(***************************************************************************)
(* Proofs about ChainDatabase, for any tree of blocks, transactions and    *)
(* conflicts between them, witnesses and limits.                           *)
(*                                                                         *)
(* The invariant is a predicate on nodes, Sound, of which every operation  *)
(* is shown to keep its part: between two calls, and also between any two  *)
(* blocks of a fork switch, of the way back from one, of a rewind and of a *)
(* replay.  Built: the chain links, the block log covers it, the copies on *)
(* the undo stack are the states after the last prefixes of the chain, and *)
(* the stack was never cut above the irreversible block.  Explained: what  *)
(* is applied comes from the chain and the pending transactions.  The      *)
(* loops are folds, and FoldTheorems gives the induction over them.        *)
(*                                                                         *)
(* What push_block does to a node beyond keeping it sound is stated with   *)
(* sets of nodes that every step of a switch stays in (Stable), so that    *)
(* the loops of fork switching are reasoned about once.  The irreversible  *)
(* block number is a function of the chain (LibOf), so that a chain that   *)
(* was accepted once is accepted again, block by block, in a replay.       *)
(***************************************************************************)
EXTENDS ChainDatabase, BlockTreeTheorems, SequenceTheorems

USE ParentAssumption

-----------------------------------------------------------------------------
(* The fork database *)

(* Linked blocks are in the index, and have a parent that is a block. *)
ForkOK(f) ==
    /\ f \in ForkDatabases
    /\ f.linked \subseteq f.index
    /\ \A b \in f.linked : Parent[b] \in Blocks
    /\ f.head_linked => f.head \in Blocks /\ Parent[f.head] \in Blocks

LEMMA ForkEmpty ==
  ASSUME NEW size \in Nat
  PROVE  ForkOK(EmptyForkDatabase(size))
BY DEF ForkOK, ForkDatabases, EmptyForkDatabase

LEMMA ForkErase ==
  ASSUME NEW f, ForkOK(f), NEW S
  PROVE  ForkOK(Erase(f, S)) /\ Erase(f, S).head = f.head
BY DEF ForkOK, ForkDatabases, Erase

LEMMA ForkPrune ==
  ASSUME NEW f, ForkOK(f), NEW m
  PROVE  ForkOK(PruneBelow(f, m)) /\ PruneBelow(f, m).head = f.head
BY ForkErase DEF PruneBelow

LEMMA ForkSetHead ==
  ASSUME NEW f, ForkOK(f), NEW b \in Blocks
  PROVE  ForkOK(SetHead(f, b))
<1> DEFINE l == b \in f.linked
<1>1. l \in BOOLEAN /\ (l => Parent[b] \in Blocks)
  BY DEF ForkOK
<1>2. SetHead(f, b) = [f EXCEPT !.head = b, !.head_linked = l]
  BY DEF SetHead
<1> HIDE DEF l
<1> QED
  BY <1>1, <1>2 DEF ForkOK, ForkDatabases

LEMMA ForkPop ==
  ASSUME NEW f, ForkOK(f), CanPop(f)
  PROVE  ForkOK(PopHead(f))
<1>1. Parent[f.head] \in Blocks
  BY DEF ForkOK, CanPop
<1> QED
  BY <1>1, ForkSetHead DEF PopHead

LEMMA ForkPush ==
  ASSUME NEW f, ForkOK(f), NEW b \in Blocks
  PROVE  ForkOK(PushItem(f, b)) /\ PushItem(f, b).head \in Blocks
<1> DEFINE links  == f.head # None /\ Parent[b] # Genesis
           stored == [f EXCEPT !.index = @ \cup {b},
                               !.linked = IF links /\ b \notin f.index THEN @ \cup {b} ELSE @]
           raised == [stored EXCEPT !.head = b, !.head_linked = links]
<1>1. ForkOK(stored) /\ stored.head = f.head
  BY DEF ForkOK, ForkDatabases
<1>2. ForkOK(raised) /\ raised.head = b
  BY DEF ForkOK, ForkDatabases
<1>3. PushItem(f, b) = CASE f.head = None -> raised
                         [] f.head # None /\ Num(b) > Num(f.head) ->
                               PruneBelow(raised, Oldest(Num(b), f.max_size))
                         [] OTHER -> stored
  BY DEF PushItem
<1>4. f.head \in Blocks \cup {None}
  BY DEF ForkOK, ForkDatabases
<1> HIDE DEF stored, raised
<1>5. ForkOK(PruneBelow(raised, Oldest(Num(b), f.max_size)))
      /\ PruneBelow(raised, Oldest(Num(b), f.max_size)).head = b
  BY <1>2, ForkPrune
<1>6. CASE f.head = None
  BY <1>2, <1>3, <1>6
<1>7. CASE f.head # None /\ Num(b) > Num(f.head)
  BY <1>3, <1>5, <1>7
<1>8. CASE f.head # None /\ ~ (Num(b) > Num(f.head))
  BY <1>1, <1>3, <1>4, <1>8
<1> QED
  BY <1>6, <1>7, <1>8

(* A block above the head becomes the head and is not too old to be kept;   *)
(* another one is stored next to what there is.                             *)
LEMMA ForkPushHead ==
  ASSUME NEW f, ForkOK(f), NEW b \in Blocks
  PROVE  LET p == PushItem(f, b)
         IN  /\ f.head = None \/ Num(b) > Num(f.head) => p.head = b /\ b \in p.index
             /\ ~ (f.head = None \/ Num(b) > Num(f.head)) => p.head = f.head /\ f.index \subseteq p.index
<1> DEFINE links  == f.head # None /\ Parent[b] # Genesis
           stored == [f EXCEPT !.index = @ \cup {b},
                               !.linked = IF links /\ b \notin f.index THEN @ \cup {b} ELSE @]
           raised == [stored EXCEPT !.head = b, !.head_linked = links]
           old    == {x \in raised.index : Num(x) < Oldest(Num(b), f.max_size)}
<1>1. f \in ForkDatabases /\ f.max_size \in Nat
  BY DEF ForkOK, ForkDatabases
<1>2. stored.head = f.head /\ stored.index = f.index \cup {b}
  BY <1>1 DEF ForkDatabases
<1>3. raised.head = b /\ raised.index = f.index \cup {b} /\ raised \in ForkDatabases
  BY <1>1 DEF ForkDatabases
<1>4. PushItem(f, b) = CASE f.head = None -> raised
                         [] f.head # None /\ Num(b) > Num(f.head) -> Erase(raised, old)
                         [] OTHER -> stored
  BY DEF PushItem, PruneBelow
<1> HIDE DEF stored, raised
<1>5. Erase(raised, old).head = b /\ Erase(raised, old).index = raised.index \ old
  BY <1>3 DEF Erase, ForkDatabases
<1>6. b \notin old
  <2>1. Num(b) \in Nat
    BY NumberFacts DEF Num
  <2> QED
    BY <1>1, <2>1 DEF Oldest
<1> HIDE DEF old
<1>7. CASE f.head = None
  BY <1>3, <1>4, <1>7
<1>8. CASE f.head # None /\ Num(b) > Num(f.head)
  BY <1>3, <1>4, <1>5, <1>6, <1>8
<1>9. CASE f.head # None /\ ~ (Num(b) > Num(f.head))
  BY <1>2, <1>4, <1>9
<1> QED
  BY <1>7, <1>8, <1>9

LEMMA ForkStart ==
  ASSUME NEW f, ForkOK(f), NEW b \in Blocks
  PROVE  ForkOK(StartBlock(f, b))
BY DEF ForkOK, ForkDatabases, StartBlock

LEMMA ForkSize ==
  ASSUME NEW f, ForkOK(f), NEW size \in Nat
  PROVE  ForkOK(SetForkMaxSize(f, size))
<1> DEFINE g == [f EXCEPT !.max_size = size]
<1>1. ForkOK(g)
  BY DEF ForkOK, ForkDatabases
<1> HIDE DEF g
<1> QED
  BY <1>1, ForkPrune DEF SetForkMaxSize, g

(* A head that is in the index is not among the items that are too old. *)
LEMMA ForkSizeHead ==
  ASSUME NEW f, ForkOK(f), NEW size \in Nat
  PROVE  /\ SetForkMaxSize(f, size).head = f.head
         /\ f.head \in f.index => f.head \in SetForkMaxSize(f, size).index
<1> DEFINE g == [f EXCEPT !.max_size = size]
           old == {b \in g.index : Num(b) < Oldest(Num(f.head), size)}
<1>1. f \in ForkDatabases
  BY DEF ForkOK
<1>2. g.head = f.head /\ g.index = f.index
  BY <1>1 DEF ForkDatabases
<1>3. SetForkMaxSize(f, size) = IF f.head = None THEN g ELSE Erase(g, old)
  BY DEF SetForkMaxSize, PruneBelow
<1>4. g \in ForkDatabases
  BY <1>1 DEF ForkDatabases
<1> HIDE DEF g
<1>5. Erase(g, old).head = g.head /\ Erase(g, old).index = g.index \ old
  BY <1>4 DEF Erase, ForkDatabases
<1>6. f.head \in f.index => f.head \notin old
  <2> SUFFICES ASSUME f.head \in f.index PROVE f.head \notin old
    OBVIOUS
  <2>1. f.head \in Blocks
    BY <1>1 DEF ForkDatabases
  <2>2. Num(f.head) \in Nat
    BY <2>1, NumberFacts DEF Num
  <2> QED
    BY <2>2 DEF Oldest
<1> QED
  BY <1>2, <1>3, <1>5, <1>6

LEMMA ForkRemove ==
  ASSUME NEW f, ForkOK(f), NEW b
  PROVE  ForkOK(RemoveItem(f, b))
<1> DEFINE none == [f EXCEPT !.head = None, !.head_linked = FALSE]
           popped == CASE f.head # b -> f
                       [] f.head = b /\ CanPop(f) -> PopHead(f)
                       [] OTHER -> none
<1>1. ForkOK(none)
  BY DEF ForkOK, ForkDatabases
<1>2. CanPop(f) => ForkOK(PopHead(f))
  BY ForkPop
<1> HIDE DEF none
<1>3. ForkOK(popped)
  BY <1>1, <1>2
<1>4. RemoveItem(f, b) = Erase(popped, {b})
  BY DEF RemoveItem, none
<1> HIDE DEF popped
<1> QED
  BY <1>3, <1>4, ForkErase

-----------------------------------------------------------------------------
(* Chains and their transactions *)

(* The last irreversible block number is a function of the chain: the       *)
(* highest that one of its prefixes confirms.                               *)
LibOf(c) == Max({0} \cup {NewLib(SubSeq(c, 1, k), 0) : k \in 1..Len(c)})

(* Block b is acceptable on the chain c. *)
Fits(c, b) ==
    /\ b \notin BadBlocks \cup LateBadBlocks
    /\ Parent[b] = IF c = << >> THEN Genesis ELSE Last(c)
    /\ CanApplyTxs(TxsOf[b], ChainTxs(c))
    /\ (Len(c) + 1) - LibOf(c) < MaxUndoHistory

(* Every block of the chain was acceptable on the ones before it. *)
Acceptable(c) ==
    \A k \in 1..Len(c) :
        /\ c[k] \notin BadBlocks \cup LateBadBlocks
        /\ Parent[c[k]] = IF k = 1 THEN Genesis ELSE c[k - 1]
        /\ CanApplyTxs(TxsOf[c[k]], ChainTxs(SubSeq(c, 1, k - 1)))
        /\ k - LibOf(SubSeq(c, 1, k - 1)) < MaxUndoHistory

LEMMA Prefix ==
  ASSUME NEW S, NEW c \in Seq(S), NEW m \in 0..Len(c)
  PROVE  /\ SubSeq(c, 1, m) \in Seq(S) /\ Len(SubSeq(c, 1, m)) = m
         /\ \A k \in 1..m : SubSeq(c, 1, m)[k] = c[k]
OBVIOUS

LEMMA PrefixWhole ==
  ASSUME NEW S, NEW c \in Seq(S)
  PROVE  SubSeq(c, 1, Len(c)) = c
OBVIOUS

LEMMA PrefixPrefix ==
  ASSUME NEW S, NEW c \in Seq(S), NEW m \in 0..Len(c), NEW k \in 0..m
  PROVE  SubSeq(SubSeq(c, 1, m), 1, k) = SubSeq(c, 1, k)
<1>1. k \in 0..Len(c)
  OBVIOUS
<1>2. SubSeq(c, 1, m) \in Seq(S) /\ Len(SubSeq(c, 1, m)) = m /\ \A i \in 1..m : SubSeq(c, 1, m)[i] = c[i]
  BY Prefix
<1>3. SubSeq(c, 1, k) \in Seq(S) /\ Len(SubSeq(c, 1, k)) = k /\ \A i \in 1..k : SubSeq(c, 1, k)[i] = c[i]
  BY <1>1, Prefix
<1> DEFINE d == SubSeq(c, 1, m)
           e == SubSeq(c, 1, k)
<1> HIDE DEF d, e
<1>4. d \in Seq(S) /\ Len(d) = m /\ \A i \in 1..m : d[i] = c[i]
  BY <1>2 DEF d
<1>5. e \in Seq(S) /\ Len(e) = k /\ \A i \in 1..k : e[i] = c[i]
  BY <1>3 DEF e
<1>6. SubSeq(d, 1, k) \in Seq(S) /\ Len(SubSeq(d, 1, k)) = k /\ \A i \in 1..k : SubSeq(d, 1, k)[i] = d[i]
  BY <1>4
<1>7. SubSeq(d, 1, k) = e
  BY <1>4, <1>5, <1>6, SeqEqual
<1> QED
  BY <1>7 DEF d, e

LEMMA AppendPrefix ==
  ASSUME NEW S, NEW c \in Seq(S), NEW x \in S, NEW k \in 0..Len(c)
  PROVE  SubSeq(Append(c, x), 1, k) = SubSeq(c, 1, k)
<1> DEFINE d == Append(c, x)
<1>1. d \in Seq(S) /\ Len(d) = Len(c) + 1 /\ \A i \in 1..Len(c) : d[i] = c[i]
  OBVIOUS
<1> HIDE DEF d
<1>2. SubSeq(d, 1, k) \in Seq(S) /\ Len(SubSeq(d, 1, k)) = k /\ \A i \in 1..k : SubSeq(d, 1, k)[i] = d[i]
  BY <1>1
<1>3. SubSeq(c, 1, k) \in Seq(S) /\ Len(SubSeq(c, 1, k)) = k /\ \A i \in 1..k : SubSeq(c, 1, k)[i] = c[i]
  BY Prefix
<1>4. SubSeq(d, 1, k) = SubSeq(c, 1, k)
  BY <1>1, <1>2, <1>3, SeqEqual
<1> QED
  BY <1>4 DEF d

LEMMA TxsEmpty == ChainTxs(<< >>) = {}
BY DEF ChainTxs

LEMMA TxsAppend ==
  ASSUME NEW c \in Seq(Blocks), NEW b \in Blocks
  PROVE  ChainTxs(Append(c, b)) = ChainTxs(c) \cup ToSet(TxsOf[b])
<1> DEFINE d == Append(c, b)
<1>1. d \in Seq(Blocks) /\ Len(d) = Len(c) + 1 /\ d[Len(c) + 1] = b /\ \A i \in 1..Len(c) : d[i] = c[i]
  OBVIOUS
<1> HIDE DEF d
<1>2. 1..Len(d) = (1..Len(c)) \cup {Len(c) + 1}
  BY <1>1
<1>3. ChainTxs(d) = ChainTxs(c) \cup ToSet(TxsOf[b])
  BY <1>1, <1>2 DEF ChainTxs
<1> QED
  BY <1>3 DEF d

(* The transactions of the last block are what the chain without it lacks. *)
LEMMA TxsLast ==
  ASSUME NEW c \in Seq(Blocks), c # << >>
  PROVE  ChainTxs(c) = ChainTxs(SubSeq(c, 1, Len(c) - 1)) \cup ToSet(TxsOf[Last(c)])
<1> DEFINE d == SubSeq(c, 1, Len(c) - 1)
<1>1. /\ d \in Seq(Blocks) /\ Len(d) = Len(c) - 1 /\ \A k \in 1..(Len(c) - 1) : d[k] = c[k]
      /\ Len(c) \in Nat \ {0}
  OBVIOUS
<1>2. 1..Len(c) = (1..Len(d)) \cup {Len(c)}
  BY <1>1
<1> HIDE DEF d
<1>3. ChainTxs(c) = ChainTxs(d) \cup ToSet(TxsOf[c[Len(c)]])
  BY <1>1, <1>2 DEF ChainTxs
<1> QED
  BY <1>3 DEF d, Last

LEMMA ToSetConcat ==
  ASSUME NEW S, NEW s \in Seq(S), NEW t \in Seq(S)
  PROVE  s \o t \in Seq(S) /\ ToSet(s \o t) = ToSet(s) \cup ToSet(t)
<1> DEFINE c == s \o t
<1>1. /\ c \in Seq(S) /\ Len(c) = Len(s) + Len(t) /\ Len(s) \in Nat /\ Len(t) \in Nat
      /\ \A k \in 1..Len(s) : c[k] = s[k]
      /\ \A k \in 1..Len(t) : c[Len(s) + k] = t[k]
  OBVIOUS
<1>2. DOMAIN c = 1..Len(c) /\ DOMAIN s = 1..Len(s) /\ DOMAIN t = 1..Len(t)
  BY <1>1
<1> HIDE DEF c
<1>3. \A k \in 1..Len(c) : k \in 1..Len(s) \/ (k - Len(s) \in 1..Len(t) /\ k = Len(s) + (k - Len(s)))
  BY <1>1
<1>4. \A k \in 1..Len(s) : k \in 1..Len(c)
  BY <1>1
<1>5. \A k \in 1..Len(t) : Len(s) + k \in 1..Len(c)
  BY <1>1
<1>6. \A x : x \in ToSet(c) => x \in ToSet(s) \cup ToSet(t)
  <2> SUFFICES ASSUME NEW k \in 1..Len(c) PROVE c[k] \in ToSet(s) \cup ToSet(t)
    BY <1>2 DEF ToSet
  <2> DEFINE j == k - Len(s)
  <2>1. k \in 1..Len(s) \/ (j \in 1..Len(t) /\ k = Len(s) + j)
    BY <1>3
  <2> HIDE DEF j
  <2> QED
    BY <1>1, <1>2, <2>1 DEF ToSet
<1>7. \A x \in ToSet(s) \cup ToSet(t) : x \in ToSet(c)
  BY <1>1, <1>2, <1>4, <1>5 DEF ToSet
<1> QED
  BY <1>1, <1>6, <1>7 DEF c

LEMMA TxsTyped ==
  ASSUME NEW c \in Seq(Blocks)
  PROVE  ChainTxs(c) \in SUBSET Txs
<1>1. \A k \in 1..Len(c) : TxsOf[c[k]] \in Seq(Txs)
  BY TxAssumption
<1>2. \A s \in Seq(Txs) : ToSet(s) \subseteq Txs
  BY DEF ToSet
<1> QED
  BY <1>1, <1>2 DEF ChainTxs

LEMMA AcceptableEmpty == Acceptable(<< >>)
BY DEF Acceptable

LEMMA AcceptablePrefix ==
  ASSUME NEW c \in Seq(Blocks), Acceptable(c), NEW m \in 0..Len(c)
  PROVE  Acceptable(SubSeq(c, 1, m))
<1> DEFINE d == SubSeq(c, 1, m)
<1>1. d \in Seq(Blocks) /\ Len(d) = m /\ \A k \in 1..m : d[k] = c[k]
  BY Prefix
<1>2. \A k \in 1..m : SubSeq(d, 1, k - 1) = SubSeq(c, 1, k - 1)
  <2> SUFFICES ASSUME NEW k \in 1..m PROVE SubSeq(d, 1, k - 1) = SubSeq(c, 1, k - 1)
    OBVIOUS
  <2>1. k - 1 \in 0..m
    OBVIOUS
  <2> QED
    BY <2>1, PrefixPrefix
<1> HIDE DEF d
<1>3. ASSUME NEW k \in 1..m
      PROVE  /\ d[k] \notin BadBlocks \cup LateBadBlocks
             /\ Parent[d[k]] = IF k = 1 THEN Genesis ELSE d[k - 1]
             /\ CanApplyTxs(TxsOf[d[k]], ChainTxs(SubSeq(d, 1, k - 1)))
             /\ k - LibOf(SubSeq(d, 1, k - 1)) < MaxUndoHistory
  <2>1. k \in 1..Len(c) /\ (k # 1 => k - 1 \in 1..m)
    OBVIOUS
  <2> QED
    BY <1>1, <1>2, <2>1 DEF Acceptable
<1>4. Acceptable(d)
  BY <1>1, <1>3 DEF Acceptable
<1> QED
  BY <1>4 DEF d

LEMMA AcceptableAppend ==
  ASSUME NEW c \in Seq(Blocks), Acceptable(c), NEW b \in Blocks, Fits(c, b)
  PROVE  Acceptable(Append(c, b))
<1> DEFINE d == Append(c, b)
<1>1. d \in Seq(Blocks) /\ Len(d) = Len(c) + 1 /\ d[Len(c) + 1] = b /\ \A i \in 1..Len(c) : d[i] = c[i]
  OBVIOUS
<1>2. \A k \in 0..Len(c) : SubSeq(d, 1, k) = SubSeq(c, 1, k)
  BY AppendPrefix
<1> HIDE DEF d
<1>3. ASSUME NEW k \in 1..Len(d)
      PROVE  /\ d[k] \notin BadBlocks \cup LateBadBlocks
             /\ Parent[d[k]] = IF k = 1 THEN Genesis ELSE d[k - 1]
             /\ CanApplyTxs(TxsOf[d[k]], ChainTxs(SubSeq(d, 1, k - 1)))
             /\ k - LibOf(SubSeq(d, 1, k - 1)) < MaxUndoHistory
  <2>1. CASE k \in 1..Len(c)
    <3>1. k - 1 \in 0..Len(c) /\ (k # 1 => k - 1 \in 1..Len(c))
      BY <2>1
    <3> QED
      BY <1>1, <1>2, <2>1, <3>1 DEF Acceptable
  <2>2. CASE k = Len(c) + 1
    <3>1. SubSeq(d, 1, k - 1) = c
      BY <1>2, <2>2, PrefixWhole
    <3>2. Parent[b] = IF k = 1 THEN Genesis ELSE d[k - 1]
      BY <1>1, <2>2 DEF Last, Fits
    <3> QED
      BY <1>1, <2>2, <3>1, <3>2 DEF Fits
  <2> QED
    BY <1>1, <2>1, <2>2
<1>4. Acceptable(d)
  BY <1>3 DEF Acceptable
<1> QED
  BY <1>4 DEF d

LEMMA AcceptableFits ==
  ASSUME NEW c \in Seq(Blocks), Acceptable(c), NEW k \in 1..Len(c)
  PROVE  Fits(SubSeq(c, 1, k - 1), c[k])
<1> DEFINE d == SubSeq(c, 1, k - 1)
<1>1. d \in Seq(Blocks) /\ Len(d) = k - 1 /\ \A i \in 1..(k - 1) : d[i] = c[i]
  BY Prefix
<1>2. /\ c[k] \notin BadBlocks \cup LateBadBlocks
      /\ Parent[c[k]] = IF k = 1 THEN Genesis ELSE c[k - 1]
      /\ CanApplyTxs(TxsOf[c[k]], ChainTxs(d))
      /\ k - LibOf(d) < MaxUndoHistory
  BY DEF Acceptable
<1> HIDE DEF d
<1>3. Parent[c[k]] = IF d = << >> THEN Genesis ELSE Last(d)
  <2>1. CASE k = 1
    BY <1>1, <1>2, <2>1
  <2>2. CASE k # 1
    <3>1. k - 1 \in 1..(k - 1) /\ k - 1 # 0
      BY <2>2
    <3>2. d # << >> /\ Last(d) = c[k - 1]
      BY <1>1, <3>1 DEF Last
    <3> QED
      BY <1>2, <2>2, <3>2
  <2> QED
    BY <2>1, <2>2
<1>4. Len(d) + 1 = k
  BY <1>1
<1>5. Fits(d, c[k])
  BY <1>2, <1>3, <1>4 DEF Fits
<1> QED
  BY <1>5 DEF d

(* The head of an acceptable chain has its length as its number. *)
LEMMA HeadNumber ==
  ASSUME NEW n, n.cur.chain \in Seq(Blocks), Acceptable(n.cur.chain)
  PROVE  Num(HeadId(n)) = HeadNum(n)
<1> DEFINE c == n.cur.chain
<1>1. c \in Chains
  <2>1. c \in Seq(Blocks) /\ DOMAIN c = 1..Len(c)
    OBVIOUS
  <2>2. \A k \in 1..Len(c) : Parent[c[k]] = IF k = 1 THEN Genesis ELSE c[k - 1]
    BY DEF Acceptable
  <2> HIDE DEF c
  <2> QED
    BY <2>1, <2>2 DEF Chains, IsChain
<1>2. CASE c = << >>
  BY <1>2 DEF HeadId, HeadNum, Num
<1>3. CASE c # << >>
  <2>1. Len(c) \in 1..Len(c) /\ c[Len(c)] \in Blocks
    BY <1>3
  <2>2. Number[c[Len(c)]] = Len(c)
    BY <1>1, <2>1, ChainNumbers
  <2> QED
    BY <1>3, <2>1, <2>2 DEF HeadId, HeadNum, Num, Last
<1> QED
  BY <1>2, <1>3

-----------------------------------------------------------------------------
(* Nodes *)

States ==
    {s \in [chain : Seq(Blocks), applied : SUBSET Txs, lib : Nat] : s.lib = LibOf(s.chain)}

Nodes ==
    [cur : States, undo : Seq(States), undo_max : Nat \ {0}, session : BOOLEAN,
     pending : Seq(Txs), popped : Seq(Txs), fork : ForkDatabases, log : Seq(Blocks),
     ok : BOOLEAN, loaded : Nat, peak : Nat]

(* How many blocks of the chain cannot be undone. *)
Reach(n) == HeadNum(n) - Committed(n)

(* The copies on the stack are the states after the prefixes of the chain   *)
(* from Reach(n) up, the newest being that before the head block or, in a   *)
(* session, that after it.                                                  *)
Stacked(n) ==
    /\ n.session => n.undo # << >>
    /\ Reach(n) \in Nat
    /\ \A k \in 1..Len(n.undo) :
          /\ n.undo[k].chain = SubSeq(n.cur.chain, 1, Reach(n) + k - 1)
          /\ n.undo[k].applied = ChainTxs(n.undo[k].chain)

(* No state counts more blocks as irreversible than it has, or than were    *)
(* irreversible at the peak, and the size limit of the stack has room for   *)
(* the blocks since then.                                                   *)
Limited(n) ==
    /\ \A s \in {n.cur} \cup {n.undo[k] : k \in 1..Len(n.undo)} : s.lib <= Len(s.chain) /\ s.lib <= n.peak
    /\ Reach(n) <= n.peak
    /\ HeadNum(n) + 1 <= n.undo_max + n.peak

(* The block log has the blocks of the chain, and each at its number. *)
Logged(n) ==
    /\ \A k \in 1..Len(n.log) : Num(n.log[k]) = k
    /\ Len(n.log) >= HeadNum(n)
    /\ \A k \in 1..HeadNum(n) : n.log[k] = n.cur.chain[k]

Built(n) ==
    /\ n \in Nodes /\ ForkOK(n.fork)
    /\ Acceptable(n.cur.chain)
    /\ Stacked(n) /\ Limited(n) /\ Logged(n)

(* What is applied comes from the chain and the pending transactions. *)
Explained(n) ==
    /\ ChainTxs(n.cur.chain) \subseteq n.cur.applied
    /\ n.cur.applied \subseteq ChainTxs(n.cur.chain) \cup ToSet(n.pending)
    /\ ~n.session => n.cur.applied = ChainTxs(n.cur.chain)

Sound(n) == Built(n) /\ Explained(n)

(* A node without a pending session, as it is while blocks are pushed. *)
Clean(n) == Built(n) /\ ~n.session /\ n.cur.applied = ChainTxs(n.cur.chain)

LEMMA NodeFields ==
  ASSUME NEW n \in Nodes
  PROVE  /\ n.cur \in States /\ n.cur.chain \in Seq(Blocks) /\ n.cur.applied \in SUBSET Txs
         /\ n.cur.lib \in Nat /\ n.cur.lib = LibOf(n.cur.chain)
         /\ n.undo \in Seq(States) /\ n.undo_max \in Nat \ {0}
         /\ n.session \in BOOLEAN /\ n.pending \in Seq(Txs) /\ n.popped \in Seq(Txs)
         /\ n.fork \in ForkDatabases /\ n.log \in Seq(Blocks) /\ n.ok \in BOOLEAN
         /\ n.loaded \in Nat /\ n.peak \in Nat
         /\ HeadNum(n) \in Nat /\ HeadNum(n) = Len(n.cur.chain) /\ Len(n.undo) \in Nat
         /\ \A k \in 1..Len(n.undo) : /\ n.undo[k] \in States /\ n.undo[k].chain \in Seq(Blocks)
                                      /\ n.undo[k].applied \in SUBSET Txs /\ n.undo[k].lib \in Nat
<1>1. /\ n.cur \in States /\ n.undo \in Seq(States) /\ n.undo_max \in Nat \ {0}
      /\ n.session \in BOOLEAN /\ n.pending \in Seq(Txs) /\ n.popped \in Seq(Txs)
      /\ n.fork \in ForkDatabases /\ n.log \in Seq(Blocks) /\ n.ok \in BOOLEAN
      /\ n.loaded \in Nat /\ n.peak \in Nat
  BY DEF Nodes
<1>2. \A s \in States : /\ s.chain \in Seq(Blocks) /\ s.applied \in SUBSET Txs /\ s.lib \in Nat
                         /\ s.lib = LibOf(s.chain)
  BY DEF States
<1>3. Len(n.undo) \in Nat /\ \A k \in 1..Len(n.undo) : n.undo[k] \in States
  BY <1>1
<1>4. HeadNum(n) \in Nat /\ HeadNum(n) = Len(n.cur.chain)
  BY <1>1, <1>2 DEF HeadNum
<1> QED
  BY <1>1, <1>2, <1>3, <1>4

LEMMA CleanIsSound ==
  ASSUME NEW n, Clean(n)
  PROVE  Sound(n)
BY DEF Clean, Sound, Explained

(* Whether the last call threw, and what waits, does not matter. *)
LEMMA CleanFlags ==
  ASSUME NEW n, Clean(n), NEW ok \in BOOLEAN, NEW popped \in Seq(Txs), NEW f, ForkOK(f)
  PROVE  /\ Clean([n EXCEPT !.ok = ok]) /\ Clean([n EXCEPT !.popped = popped])
         /\ Clean([n EXCEPT !.fork = f])
<1>1. n \in Nodes /\ f \in ForkDatabases
  BY DEF Clean, Built, ForkOK
<1>2. ASSUME NEW m \in {[n EXCEPT !.ok = ok], [n EXCEPT !.popped = popped], [n EXCEPT !.fork = f]}
      PROVE  Clean(m)
  <2>1. /\ m \in Nodes /\ m.cur = n.cur /\ m.undo = n.undo /\ m.session = n.session /\ m.log = n.log
        /\ m.undo_max = n.undo_max /\ m.peak = n.peak /\ m.fork \in {n.fork, f}
    BY <1>1 DEF Nodes
  <2>2. HeadNum(m) = HeadNum(n) /\ Committed(m) = Committed(n) /\ Reach(m) = Reach(n)
    BY <2>1 DEF HeadNum, Committed, Reach
  <2>3. Stacked(m)
    BY <2>1, <2>2 DEF Clean, Built, Stacked
  <2>4. Limited(m) /\ Logged(m)
    BY <2>1, <2>2 DEF Clean, Built, Limited, Logged
  <2> QED
    BY <2>1, <2>3, <2>4 DEF Clean, Built
<1> QED
  BY <1>2

LEMMA CleanThrow ==
  ASSUME NEW n, Clean(n)
  PROVE  Clean(Throw(n))
<1>1. << >> \in Seq(Txs) /\ ForkOK(n.fork) /\ FALSE \in BOOLEAN
  BY DEF Clean, Built
<1> QED
  BY <1>1, CleanFlags DEF Throw

-----------------------------------------------------------------------------
(* Sessions *)

(* Cutting the stack to the limit removes its oldest copies. *)
LEMMA Pruned ==
  ASSUME NEW s \in Seq(States), NEW limit \in Nat \ {0}
  PROVE  LET cut == IF Len(s) > limit THEN Len(s) - limit ELSE 0
             r   == PrunedTo(s, limit)
         IN  /\ r \in Seq(States) /\ Len(r) = Len(s) - cut
             /\ \A k \in 1..Len(r) : k + cut \in 1..Len(s) /\ r[k] = s[k + cut]
<1>1. CASE Len(s) > limit
  <2>1. Len(s) - limit + 1 \in 1..Len(s) /\ Len(s) \in Nat
    BY <1>1
  <2> QED
    BY <1>1, <2>1 DEF PrunedTo
<1>2. CASE ~ (Len(s) > limit)
  BY <1>2 DEF PrunedTo
<1> QED
  BY <1>1, <1>2

LEMMA Appended ==
  ASSUME NEW S, NEW s \in Seq(S), NEW x \in S
  PROVE  /\ Append(s, x) \in Seq(S) /\ Len(Append(s, x)) = Len(s) + 1 /\ Len(s) \in Nat
         /\ Append(s, x)[Len(s) + 1] = x /\ \A k \in 1..Len(s) : Append(s, x)[k] = s[k]
OBVIOUS

LEMMA FrontLast ==
  ASSUME NEW S, NEW s \in Seq(S), NEW x \in S
  PROVE  /\ Append(s, x) \in Seq(S) /\ Append(s, x) # << >>
         /\ Front(Append(s, x)) = s /\ Last(Append(s, x)) = x
<1>1. Append(s, x) \in Seq(S) /\ Len(Append(s, x)) = Len(s) + 1 /\ Append(s, x)[Len(s) + 1] = x
  OBVIOUS
<1>2. SubSeq(Append(s, x), 1, Len(s)) = SubSeq(s, 1, Len(s))
  BY AppendPrefix
<1>3. (Len(s) + 1) - 1 = Len(s)
  OBVIOUS
<1> QED
  BY <1>1, <1>2, <1>3, PrefixWhole DEF Front, Last

(* A copy of a sound state on top of a stack that is cut to its limit. *)
LEMMA OpenIs ==
  ASSUME NEW n \in Nodes
  PROVE  /\ OpenSession(n) = [n EXCEPT !.undo = Append(PrunedTo(n.undo, n.undo_max), n.cur)]
         /\ OpenSession(n) \in Nodes
         /\ UndoSession(OpenSession(n)) = [n EXCEPT !.undo = PrunedTo(n.undo, n.undo_max)]
<1> DEFINE r == PrunedTo(n.undo, n.undo_max)
           a == Append(r, n.cur)
<1>1. OpenSession(n) = [n EXCEPT !.undo = a]
  BY DEF OpenSession
<1>2. n.undo \in Seq(States) /\ n.undo_max \in Nat \ {0} /\ n.cur \in States
  BY NodeFields
<1>3. r \in Seq(States)
  BY <1>2, Pruned
<1> HIDE DEF r
<1>4. a \in Seq(States) /\ Front(a) = r /\ Last(a) = n.cur
  BY <1>2, <1>3, FrontLast
<1> HIDE DEF a
<1>5. [n EXCEPT !.undo = a] \in Nodes
  BY <1>4 DEF Nodes
<1>6. UndoSession([n EXCEPT !.undo = a]) = [n EXCEPT !.undo = r]
  BY <1>4 DEF UndoSession, Nodes
<1> QED
  BY <1>1, <1>5, <1>6 DEF r, a

(* The parts of a node that its record, fork database and log do not show. *)
LEMMA CutStack ==
  ASSUME NEW n, Built(n)
  PROVE  LET m == [n EXCEPT !.undo = PrunedTo(n.undo, n.undo_max)]
         IN  Built(m) /\ Reach(m) \in Nat
<1> DEFINE cut == IF Len(n.undo) > n.undo_max THEN Len(n.undo) - n.undo_max ELSE 0
           r   == PrunedTo(n.undo, n.undo_max)
           m   == [n EXCEPT !.undo = r]
<1>1. n \in Nodes
  BY DEF Built
<1>2. /\ n.undo \in Seq(States) /\ n.undo_max \in Nat \ {0} /\ Len(n.undo) \in Nat /\ HeadNum(n) \in Nat
      /\ n.peak \in Nat /\ n.session \in BOOLEAN
  BY <1>1, NodeFields
<1>3. /\ r \in Seq(States) /\ Len(r) = Len(n.undo) - cut
      /\ \A k \in 1..Len(r) : k + cut \in 1..Len(n.undo) /\ r[k] = n.undo[k + cut]
  BY <1>2, Pruned
<1>4. cut \in Nat /\ (cut # 0 => Len(n.undo) - cut = n.undo_max) /\ (Len(n.undo) # 0 => Len(n.undo) - cut > 0)
  BY <1>2
<1> HIDE DEF r, cut
<1>5. /\ m \in Nodes /\ m.cur = n.cur /\ m.undo = r /\ m.session = n.session /\ m.log = n.log
      /\ m.undo_max = n.undo_max /\ m.peak = n.peak /\ m.fork = n.fork
  BY <1>1, <1>3 DEF Nodes
<1> HIDE DEF m
<1>6. HeadNum(m) = HeadNum(n) /\ Reach(m) = Reach(n) + cut /\ Reach(n) \in Nat
  <2>1. Reach(n) \in Nat
    BY DEF Built, Stacked
  <2>2. HeadNum(m) = HeadNum(n)
    BY <1>5 DEF HeadNum
  <2>3. Committed(m) = Committed(n) - cut /\ Committed(n) \in Int
    <3>1. Len(m.undo) = Len(n.undo) - cut /\ Len(n.undo) \in Nat /\ cut \in Nat
      BY <1>2, <1>3, <1>4, <1>5
    <3>2. CASE n.session
      BY <1>5, <3>1, <3>2 DEF Committed
    <3>3. CASE ~n.session
      BY <1>5, <3>1, <3>3 DEF Committed
    <3> QED
      BY <3>2, <3>3
  <2> QED
    BY <1>2, <1>4, <2>1, <2>2, <2>3 DEF Reach
<1>7. Stacked(m)
  <2>1. m.session => m.undo # << >>
    BY <1>2, <1>3, <1>4, <1>5 DEF Built, Stacked
  <2>2. ASSUME NEW k \in 1..Len(r)
        PROVE  /\ r[k].chain = SubSeq(m.cur.chain, 1, Reach(m) + k - 1)
               /\ r[k].applied = ChainTxs(r[k].chain)
    <3>1. k + cut \in 1..Len(n.undo) /\ r[k] = n.undo[k + cut] /\ Reach(n) + (k + cut) - 1 = Reach(m) + k - 1
      BY <1>3, <1>4, <1>6
    <3> QED
      BY <1>5, <3>1 DEF Built, Stacked
  <2> QED
    BY <1>4, <1>5, <1>6, <2>1, <2>2 DEF Stacked
<1>8. Reach(m) <= m.peak
  <2>1. CASE cut = 0
    BY <1>5, <1>6, <2>1 DEF Built, Limited
  <2>2. CASE cut # 0
    <3>1. Len(m.undo) = n.undo_max
      BY <1>3, <1>4, <1>5, <2>2
    <3>2. HeadNum(n) + 1 <= n.undo_max + n.peak
      BY DEF Built, Limited
    <3> QED
      BY <1>2, <1>5, <1>6, <3>1, <3>2 DEF Reach, Committed
  <2> QED
    BY <2>1, <2>2
<1>9. Limited(m)
  <2>1. ASSUME NEW s \in {m.cur} \cup {m.undo[k] : k \in 1..Len(m.undo)}
        PROVE  s.lib <= Len(s.chain) /\ s.lib <= m.peak
    <3>1. s \in {n.cur} \cup {n.undo[k] : k \in 1..Len(n.undo)}
      BY <1>3, <1>5
    <3> QED
      BY <1>5, <3>1 DEF Built, Limited
  <2> QED
    BY <1>5, <1>6, <1>8, <2>1 DEF Built, Limited
<1>10. Logged(m)
  BY <1>5, <1>6 DEF Built, Logged
<1>11. Built(m) /\ Reach(m) \in Nat
  BY <1>5, <1>7, <1>9, <1>10 DEF Built, Stacked
<1> QED
  BY <1>11 DEF m, r

(* A session for pending transactions opens on a clean node. *)
LEMMA OpenPending ==
  ASSUME NEW n, Clean(n)
  PROVE  LET m == [OpenSession(n) EXCEPT !.session = TRUE]
         IN  /\ Sound(m) /\ m.session /\ m.cur = n.cur /\ m.pending = n.pending /\ m.popped = n.popped
             /\ m.ok = n.ok /\ m.fork = n.fork
<1> DEFINE r == PrunedTo(n.undo, n.undo_max)
           c == [n EXCEPT !.undo = r]
           a == Append(r, n.cur)
           m == [[n EXCEPT !.undo = a] EXCEPT !.session = TRUE]
<1>1. n \in Nodes /\ n.session = FALSE /\ n.cur.applied = ChainTxs(n.cur.chain)
  BY NodeFields DEF Clean, Built
<1>2. OpenSession(n) = [n EXCEPT !.undo = a]
  BY <1>1, OpenIs
<1>3. Built(c) /\ Reach(c) \in Nat
  BY CutStack DEF Clean
<1>4. n.undo \in Seq(States) /\ n.undo_max \in Nat \ {0} /\ n.cur \in States /\ n.cur.chain \in Seq(Blocks)
  BY <1>1, NodeFields
<1>5. r \in Seq(States)
  BY <1>4, Pruned
<1> HIDE DEF r
<1>6. /\ a \in Seq(States) /\ Len(a) = Len(r) + 1 /\ Len(r) \in Nat /\ a[Len(r) + 1] = n.cur
      /\ \A k \in 1..Len(r) : a[k] = r[k]
  BY <1>4, <1>5, Appended
<1> HIDE DEF a
<1>7. /\ m \in Nodes /\ m.cur = n.cur /\ m.undo = a /\ m.session = TRUE /\ m.log = n.log /\ m.pending = n.pending
      /\ m.undo_max = n.undo_max /\ m.peak = n.peak /\ m.fork = n.fork /\ m.popped = n.popped /\ m.ok = n.ok
  BY <1>1, <1>6 DEF Nodes
<1>8. /\ c.cur = n.cur /\ c.undo = r /\ c.session = FALSE /\ c.log = n.log
      /\ c.undo_max = n.undo_max /\ c.peak = n.peak /\ c.fork = n.fork
  BY <1>1 DEF Nodes
<1> HIDE DEF m, c
<1>9. HeadNum(m) = HeadNum(c) /\ HeadNum(m) = Len(n.cur.chain) /\ Reach(m) = Reach(c) /\ Reach(c) = HeadNum(c) - Len(r)
  <2>1. HeadNum(m) = Len(n.cur.chain) /\ HeadNum(c) = Len(n.cur.chain) /\ Len(n.cur.chain) \in Nat
    BY <1>4, <1>7, <1>8 DEF HeadNum
  <2>2. Committed(m) = Len(r) /\ Committed(c) = Len(r)
    BY <1>6, <1>7, <1>8 DEF Committed
  <2> QED
    BY <2>1, <2>2 DEF Reach
<1>10. Stacked(m)
  <2>1. ASSUME NEW k \in 1..Len(a)
        PROVE  /\ a[k].chain = SubSeq(m.cur.chain, 1, Reach(m) + k - 1)
               /\ a[k].applied = ChainTxs(a[k].chain)
    <3>1. CASE k \in 1..Len(r)
      <4>1. r[k].chain = SubSeq(n.cur.chain, 1, Reach(c) + k - 1) /\ r[k].applied = ChainTxs(r[k].chain)
        BY <1>3, <1>8, <3>1 DEF Built, Stacked
      <4> QED
        BY <1>6, <1>7, <1>9, <3>1, <4>1
    <3>2. CASE k = Len(r) + 1
      <4>1. Reach(m) + k - 1 = Len(n.cur.chain)
        <5>1. Len(n.cur.chain) \in Nat
          BY <1>4
        <5>2. Reach(m) = Len(n.cur.chain) - Len(r) /\ Len(r) \in Nat
          BY <1>6, <1>9
        <5> QED
          BY <3>2, <5>1, <5>2
      <4> QED
        BY <1>1, <1>4, <1>6, <1>7, <3>2, <4>1, PrefixWhole
    <3> QED
      BY <1>5, <1>6, <3>1, <3>2
  <2> QED
    BY <1>3, <1>6, <1>7, <1>9, <2>1 DEF Stacked
<1>11. Limited(m)
  <2>1. ASSUME NEW s \in {m.cur} \cup {m.undo[k] : k \in 1..Len(m.undo)}
        PROVE  s.lib <= Len(s.chain) /\ s.lib <= m.peak
    <3>1. PICK k \in 1..Len(a) : s = m.cur \/ s = a[k]
      BY <1>5, <1>6, <1>7
    <3>2. k \in 1..Len(r) \/ k = Len(r) + 1
      BY <1>5, <1>6
    <3>3. s \in {c.cur} \cup {c.undo[j] : j \in 1..Len(c.undo)}
      BY <1>6, <1>7, <1>8, <3>1, <3>2
    <3> QED
      BY <1>3, <1>7, <1>8, <3>3 DEF Built, Limited
  <2> QED
    BY <1>3, <1>7, <1>8, <1>9, <2>1 DEF Built, Limited
<1>12. Logged(m)
  BY <1>3, <1>7, <1>8, <1>9 DEF Built, Logged
<1>13. Built(m)
  BY <1>3, <1>7, <1>8, <1>10, <1>11, <1>12 DEF Built
<1>14. Explained(m)
  BY <1>1, <1>7 DEF Explained
<1> QED
  BY <1>2, <1>7, <1>13, <1>14 DEF Sound, m

(* Dropping the session brings back the state after the head block. *)
LEMMA Reset ==
  ASSUME NEW n, Built(n), ~n.session => n.cur.applied = ChainTxs(n.cur.chain)
  PROVE  LET m == ResetPending(n)
         IN  /\ Clean(m) /\ m.cur.chain = n.cur.chain /\ m.pending = n.pending /\ m.popped = n.popped
             /\ m.ok = n.ok /\ m.fork = n.fork /\ m.log = n.log
<1>1. n \in Nodes /\ n.session \in BOOLEAN
  BY NodeFields DEF Built
<1>2. CASE ~n.session
  BY <1>1, <1>2 DEF ResetPending, Clean
<1>3. CASE n.session
  <2> DEFINE l == Len(n.undo)
             f == SubSeq(n.undo, 1, l - 1)
             s == n.undo[l]
             m == [[n EXCEPT !.cur = s, !.undo = f] EXCEPT !.session = FALSE]
  <2>1. ResetPending(n) = m
    BY <1>1, <1>3 DEF ResetPending, UndoSession, Front, Last, Nodes
  <2>2. n.undo \in Seq(States) /\ l \in 1..l /\ l \in Nat /\ s \in States /\ n.cur.chain \in Seq(Blocks)
        /\ HeadNum(n) = Len(n.cur.chain)
    BY <1>1, <1>3, NodeFields DEF Built, Stacked
  <2>3. f \in Seq(States) /\ Len(f) = l - 1 /\ \A k \in 1..(l - 1) : f[k] = n.undo[k]
    BY <2>2
  <2>4. Reach(n) = HeadNum(n) - (l - 1) /\ Reach(n) \in Nat
    BY <1>3 DEF Reach, Committed, Built, Stacked
  <2>5. s.chain = n.cur.chain /\ s.applied = ChainTxs(n.cur.chain)
    <3>1. Reach(n) + l - 1 = Len(n.cur.chain)
      BY <2>2, <2>4
    <3>2. s.chain = SubSeq(n.cur.chain, 1, Reach(n) + l - 1) /\ s.applied = ChainTxs(s.chain)
      BY <2>2 DEF Built, Stacked
    <3> QED
      BY <2>2, <3>1, <3>2, PrefixWhole
  <2> HIDE DEF f, s
  <2>6. /\ m \in Nodes /\ m.cur = s /\ m.undo = f /\ m.session = FALSE /\ m.log = n.log /\ m.pending = n.pending
        /\ m.undo_max = n.undo_max /\ m.peak = n.peak /\ m.fork = n.fork /\ m.popped = n.popped /\ m.ok = n.ok
    BY <1>1, <2>2, <2>3 DEF Nodes
  <2> HIDE DEF m, l
  <2>7. HeadNum(m) = HeadNum(n) /\ Reach(m) = Reach(n)
    BY <2>2, <2>3, <2>4, <2>5, <2>6 DEF HeadNum, Reach, Committed
  <2>8. Stacked(m)
    <3>1. ASSUME NEW k \in 1..Len(f)
          PROVE  /\ f[k].chain = SubSeq(m.cur.chain, 1, Reach(m) + k - 1)
                 /\ f[k].applied = ChainTxs(f[k].chain)
      <4>1. k \in 1..Len(n.undo) /\ f[k] = n.undo[k]
        BY <2>2, <2>3 DEF l
      <4> QED
        BY <2>5, <2>6, <2>7, <4>1 DEF Built, Stacked
    <3> QED
      BY <2>4, <2>6, <2>7, <3>1 DEF Stacked
  <2>9. Limited(m)
    <3>1. ASSUME NEW t \in {m.cur} \cup {m.undo[k] : k \in 1..Len(m.undo)}
          PROVE  t.lib <= Len(t.chain) /\ t.lib <= m.peak
      <4>1. t \in {n.cur} \cup {n.undo[j] : j \in 1..Len(n.undo)}
        <5>1. t = s \/ \E k \in 1..(l - 1) : t = n.undo[k]
          BY <2>3, <2>6
        <5>2. \A k \in 1..(l - 1) : k \in 1..Len(n.undo)
          BY <2>2 DEF l
        <5>3. s = n.undo[l] /\ l \in 1..Len(n.undo)
          BY <2>2 DEF s, l
        <5> QED
          BY <5>1, <5>2, <5>3
      <4> QED
        BY <2>6, <4>1 DEF Built, Limited
    <3> QED
      BY <2>6, <2>7, <3>1 DEF Built, Limited
  <2>10. Logged(m)
    BY <2>5, <2>6, <2>7 DEF Built, Logged
  <2>11. Clean(m)
    BY <2>5, <2>6, <2>8, <2>9, <2>10 DEF Clean, Built
  <2> QED
    BY <2>1, <2>5, <2>6, <2>11
<1> QED
  BY <1>2, <1>3

-----------------------------------------------------------------------------
(* Transactions *)

(* What else changes in a node does not matter, as long as the limit has room. *)
LEMMA BuiltSized ==
  ASSUME NEW n, Built(n), NEW m \in Nodes, m.cur.chain = n.cur.chain, m.cur.lib = n.cur.lib,
         m.undo = n.undo, m.session = n.session, m.log = n.log, m.peak = n.peak,
         HeadNum(n) + 1 <= m.undo_max + n.peak, ForkOK(m.fork)
  PROVE  Built(m)
<1>1. HeadNum(m) = HeadNum(n) /\ Committed(m) = Committed(n) /\ Reach(m) = Reach(n)
  BY DEF HeadNum, Committed, Reach
<1>2. Stacked(m)
  BY <1>1 DEF Built, Stacked
<1>3. Limited(m)
  <2>1. ASSUME NEW s \in {m.cur} \cup {m.undo[k] : k \in 1..Len(m.undo)}
        PROVE  s.lib <= Len(s.chain) /\ s.lib <= m.peak
    BY <2>1 DEF Built, Limited
  <2>2. Reach(m) <= m.peak
    BY <1>1 DEF Built, Limited
  <2> QED
    BY <1>1, <2>1, <2>2 DEF Limited
<1>4. Logged(m)
  BY <1>1 DEF Built, Logged
<1> QED
  BY <1>2, <1>3, <1>4 DEF Built

LEMMA BuiltSame ==
  ASSUME NEW n, Built(n), NEW m \in Nodes, m.cur.chain = n.cur.chain, m.cur.lib = n.cur.lib,
         m.undo = n.undo, m.session = n.session, m.log = n.log, m.peak = n.peak,
         m.undo_max >= n.undo_max, ForkOK(m.fork)
  PROVE  Built(m)
<1>1. n \in Nodes /\ n.undo_max \in Nat /\ m.undo_max \in Nat /\ n.peak \in Nat /\ HeadNum(n) \in Nat
  BY NodeFields DEF Built
<1>2. HeadNum(n) + 1 <= n.undo_max + n.peak
  BY DEF Built, Limited
<1>3. HeadNum(n) + 1 <= m.undo_max + n.peak
  BY <1>1, <1>2
<1> QED
  BY <1>3, BuiltSized

(* A transaction is applied or has no effect, apart from the limit that a   *)
(* proposal raises.                                                         *)
LEMMA Try ==
  ASSUME NEW n, Built(n), NEW tx \in Txs
  PROVE  LET t == TryTx(n, tx)
         IN  /\ Built(t) /\ t.session = n.session /\ t.pending = n.pending /\ t.popped = n.popped
             /\ t.cur.chain = n.cur.chain /\ t.ok = n.ok /\ t.undo_max >= n.undo_max
             /\ t.fork = n.fork /\ t.log = n.log
             /\ CanApplyTx(tx, n.cur.applied) => tx \in t.cur.applied
             /\ \/ t.cur.applied = n.cur.applied
                \/ t.cur.applied = n.cur.applied \cup {tx} /\ tx \notin n.cur.applied
<1> DEFINE r == PrunedTo(n.undo, n.undo_max)
           c == [n EXCEPT !.undo = r]
           a == Append(r, n.cur)
           t == TryTx(n, tx)
           u == IF tx \in ProposalTxs THEN RaisedLimit(n.undo_max, a) ELSE n.undo_max
           s == [n.cur EXCEPT !.applied = @ \cup {tx}]
           w == [n EXCEPT !.undo = a]
           d == [w EXCEPT !.cur.applied = @ \cup {tx},
                          !.undo_max = IF tx \in ProposalTxs THEN RaisedLimit(@, w.undo) ELSE @]
<1>1. n \in Nodes /\ ForkOK(n.fork)
  BY DEF Built
<1>2. /\ n.undo \in Seq(States) /\ n.undo_max \in Nat \ {0} /\ n.cur \in States /\ n.cur.applied \in SUBSET Txs
      /\ n.fork \in ForkDatabases
  BY <1>1, NodeFields
<1>3. Built(c)
  BY CutStack
<1>4. r \in Seq(States)
  BY <1>2, Pruned
<1>5. OpenSession(n) = w /\ UndoSession(OpenSession(n)) = c
  BY <1>1, OpenIs
<1>6. t = IF CanApplyTx(tx, n.cur.applied) THEN MergeSession(d) ELSE c
  BY <1>5 DEF TryTx
<1> HIDE DEF r, t
<1>7. a \in Seq(States) /\ Front(a) = r /\ Len(a) \in Nat
  BY <1>2, <1>4, FrontLast
<1>8. s \in States /\ s.chain = n.cur.chain /\ s.lib = n.cur.lib /\ s.applied = n.cur.applied \cup {tx}
  BY <1>2 DEF States
<1>9. u \in Nat \ {0} /\ u >= n.undo_max
  BY <1>2, <1>7 DEF RaisedLimit
<1> HIDE DEF a
<1>10. d = [n EXCEPT !.undo = a, !.cur = s, !.undo_max = u]
  BY <1>1 DEF Nodes
<1> HIDE DEF s, u, d, w
<1>11. MergeSession(d) = [n EXCEPT !.undo = r, !.cur = s, !.undo_max = u]
  BY <1>1, <1>7, <1>10 DEF MergeSession, Nodes
<1>12. /\ c \in Nodes /\ c.cur = n.cur /\ c.undo = r /\ c.session = n.session /\ c.log = n.log
       /\ c.undo_max = n.undo_max /\ c.peak = n.peak /\ c.fork = n.fork /\ c.popped = n.popped /\ c.ok = n.ok
       /\ c.pending = n.pending
  BY <1>1, <1>4 DEF Nodes
<1>13. CASE CanApplyTx(tx, n.cur.applied)
  <2> DEFINE m == [n EXCEPT !.undo = r, !.cur = s, !.undo_max = u]
  <2>1. /\ m \in Nodes /\ m.cur = s /\ m.undo = r /\ m.session = n.session /\ m.log = n.log
        /\ m.undo_max = u /\ m.peak = n.peak /\ m.fork = n.fork /\ m.popped = n.popped /\ m.ok = n.ok
        /\ m.pending = n.pending
    BY <1>1, <1>4, <1>8, <1>9 DEF Nodes
  <2>2. t = m
    BY <1>6, <1>11, <1>13
  <2> HIDE DEF m, c
  <2>3. Built(m)
    BY <1>1, <1>3, <1>8, <1>9, <1>12, <2>1, BuiltSame
  <2>4. tx \notin n.cur.applied
    BY <1>13 DEF CanApplyTx
  <2> QED
    BY <1>8, <1>9, <2>1, <2>2, <2>3, <2>4 DEF t
<1>14. CASE ~CanApplyTx(tx, n.cur.applied)
  <2>1. t = c
    BY <1>6, <1>14
  <2> HIDE DEF c
  <2> QED
    BY <1>2, <1>3, <1>12, <1>14, <2>1 DEF t
<1> QED
  BY <1>13, <1>14

LEMMA Pushed ==
  ASSUME NEW n, Sound(n), NEW tx \in Txs
  PROVE  LET m == PushTx(n, tx)
         IN  /\ Sound(m) /\ m.popped = n.popped /\ m.cur.chain = n.cur.chain /\ m.ok = n.ok
             /\ m.fork = n.fork /\ n.cur.applied \subseteq m.cur.applied /\ ~CanApplyTx(tx, m.cur.applied)
             /\ ToSet(n.pending) \subseteq ToSet(m.pending)
<1> DEFINE o == [OpenSession(n) EXCEPT !.session = TRUE]
           s == IF n.session THEN n ELSE o
           t == TryTx(s, tx)
           p == Append(t.pending, tx)
           m == [t EXCEPT !.pending = p]
<1>1. /\ Sound(s) /\ s.session /\ s.popped = n.popped /\ s.cur = n.cur /\ s.ok = n.ok
      /\ s.fork = n.fork /\ s.pending = n.pending
  <2>1. CASE n.session
    BY <2>1
  <2>2. CASE ~n.session
    <3>1. Clean(n)
      BY <2>2 DEF Sound, Explained, Clean
    <3>2. Sound(o) /\ o.session /\ o.cur = n.cur /\ o.popped = n.popped /\ o.ok = n.ok
          /\ o.fork = n.fork /\ o.pending = n.pending
      BY <3>1, OpenPending
    <3> HIDE DEF o
    <3> QED
      BY <2>2, <3>2
  <2> QED
    BY <2>1, <2>2
<1> HIDE DEF s
<1>2. /\ Built(t) /\ t.session = s.session /\ t.pending = s.pending /\ t.popped = s.popped
      /\ t.cur.chain = s.cur.chain /\ t.ok = s.ok /\ t.fork = s.fork
      /\ CanApplyTx(tx, s.cur.applied) => tx \in t.cur.applied
      /\ \/ t.cur.applied = s.cur.applied
         \/ t.cur.applied = s.cur.applied \cup {tx} /\ tx \notin s.cur.applied
  BY <1>1, Try DEF Sound
<1>3. PushTx(n, tx) = IF tx \in t.cur.applied /\ tx \notin s.cur.applied THEN m ELSE t
  BY DEF PushTx, s
<1> HIDE DEF t
<1>4. t \in Nodes /\ t.pending \in Seq(Txs) /\ t.undo_max \in Nat
  BY <1>2, NodeFields DEF Built
<1>5. p \in Seq(Txs) /\ ToSet(p) = ToSet(t.pending) \cup {tx}
  <2> DEFINE q == t.pending
  <2>1. q \in Seq(Txs)
    BY <1>4
  <2> HIDE DEF q
  <2>2. Append(q, tx) \in Seq(Txs) /\ Len(Append(q, tx)) = Len(q) + 1 /\ Len(q) \in Nat
        /\ Append(q, tx)[Len(q) + 1] = tx /\ \A k \in 1..Len(q) : Append(q, tx)[k] = q[k]
    BY <2>1, Appended
  <2>3. DOMAIN Append(q, tx) = (1..Len(q)) \cup {Len(q) + 1} /\ DOMAIN q = 1..Len(q)
    BY <2>1, <2>2
  <2>4. ToSet(Append(q, tx)) = ToSet(q) \cup {tx}
    BY <2>2, <2>3 DEF ToSet
  <2> QED
    BY <2>2, <2>4 DEF q
<1> HIDE DEF p
<1>6. /\ m \in Nodes /\ m.cur = t.cur /\ m.undo = t.undo /\ m.session = t.session /\ m.log = t.log
      /\ m.undo_max = t.undo_max /\ m.peak = t.peak /\ m.fork = t.fork /\ m.popped = t.popped /\ m.ok = t.ok
      /\ m.pending = p
  BY <1>4, <1>5 DEF Nodes
<1> HIDE DEF m
<1>7. Built(m)
  BY <1>2, <1>4, <1>6, BuiltSame DEF Built
<1>8. CASE tx \in t.cur.applied /\ tx \notin s.cur.applied
  <2>1. Explained(m)
    BY <1>1, <1>2, <1>5, <1>6 DEF Sound, Explained
  <2>2. ~CanApplyTx(tx, m.cur.applied) /\ s.cur.applied \subseteq m.cur.applied
    BY <1>2, <1>6, <1>8 DEF CanApplyTx
  <2>3. ToSet(s.pending) \subseteq ToSet(m.pending)
    BY <1>2, <1>5, <1>6
  <2> QED
    BY <1>1, <1>2, <1>3, <1>6, <1>7, <1>8, <2>1, <2>2, <2>3 DEF Sound
<1>9. CASE ~ (tx \in t.cur.applied /\ tx \notin s.cur.applied)
  <2>1. t.cur.applied = s.cur.applied
    BY <1>2, <1>9
  <2>2. Explained(t)
    BY <1>1, <1>2, <2>1 DEF Sound, Explained
  <2>3. ~CanApplyTx(tx, t.cur.applied)
    BY <1>2, <1>9, <2>1 DEF CanApplyTx
  <2> QED
    BY <1>1, <1>2, <1>3, <1>9, <2>1, <2>2, <2>3 DEF Sound
<1> QED
  BY <1>8, <1>9

(* A node between two calls. *)
Settled(n) == Sound(n) /\ n.popped = << >>

LEMMA Restored ==
  ASSUME NEW n, Settled(n), NEW tx \in Txs
  PROVE  Settled(RestoreTx(n, tx))
BY Pushed DEF Settled, RestoreTx

-----------------------------------------------------------------------------
(* The last irreversible block *)

LEMMA MaxIn ==
  ASSUME NEW m \in Nat, NEW S \in SUBSET (0..m), S # {}
  PROVE  Max(S) \in S /\ \A y \in S : y <= Max(S)
<1> DEFINE G == {k \in Nat : \E x \in S : k = m - x}
<1>1. G \in SUBSET Nat /\ G # {}
  <2>1. PICK x \in S : TRUE
    OBVIOUS
  <2>2. m - x \in Nat
    OBVIOUS
  <2> QED
    BY <2>1, <2>2
<1>2. PICK k \in G : \A j \in G : k <= j
  <2> HIDE DEF G
  <2> QED
    BY <1>1, NatLeast
<1>3. PICK x \in S : k = m - x
  BY <1>2
<1>4. \A y \in S : x >= y
  <2> SUFFICES ASSUME NEW y \in S PROVE x >= y
    OBVIOUS
  <2>1. m - y \in G
    OBVIOUS
  <2> QED
    BY <1>2, <1>3, <2>1
<1> QED
  BY <1>3, <1>4 DEF Max

LEMMA MinIn ==
  ASSUME NEW m \in Nat, NEW S \in SUBSET (0..m), S # {}
  PROVE  Min(S) \in S
<1>1. S \in SUBSET Nat
  OBVIOUS
<1>2. PICK x \in S : \A y \in S : x <= y
  BY <1>1, NatLeast
<1> QED
  BY <1>2 DEF Min

LEMMA MaxTwo ==
  ASSUME NEW a \in Nat, NEW b \in Nat
  PROVE  Max({a, b}) \in Nat /\ a <= Max({a, b}) /\ b <= Max({a, b})
BY DEF Max

(* The irreversible number never goes down and stays within the chain. *)
LEMMA LibWithin ==
  ASSUME NEW c \in Seq(Blocks), NEW lib \in 0..Len(c)
  PROVE  /\ NewLib(c, lib) \in 0..Len(c) /\ NewLib(c, 0) \in 0..Len(c)
         /\ NewLib(c, lib) = IF NewLib(c, 0) > lib THEN NewLib(c, 0) ELSE lib
<1> DEFINE confirmed(w) == Max({k \in 1..Len(c) : Signer[c[k]] = w} \cup {0})
           offset == (3 * Cardinality(Witnesses)) \div 10
           C == {confirmed(w) : w \in Witnesses}
           A == {v \in C : Cardinality({w \in Witnesses : confirmed(w) <= v}) > offset}
<1>1. Len(c) \in Nat
  OBVIOUS
<1>2. \A w \in Witnesses : confirmed(w) \in 0..Len(c)
  <2> SUFFICES ASSUME NEW w \in Witnesses PROVE confirmed(w) \in 0..Len(c)
    OBVIOUS
  <2> DEFINE S == {k \in 1..Len(c) : Signer[c[k]] = w} \cup {0}
  <2>1. S \in SUBSET (0..Len(c)) /\ S # {}
    BY <1>1
  <2> HIDE DEF S
  <2>2. Max(S) \in S
    BY <1>1, <2>1, MaxIn
  <2> QED
    BY <2>1, <2>2 DEF S
<1> HIDE DEF confirmed
<1>3. C \in SUBSET (0..Len(c)) /\ C # {}
  BY <1>2, WitnessAssumption
<1>4. Max(C) \in C /\ \A v \in C : v <= Max(C)
  <2> HIDE DEF C
  <2> QED
    BY <1>1, <1>3, MaxIn
<1>5. {w \in Witnesses : confirmed(w) <= Max(C)} = Witnesses
  BY <1>4
<1>6. Cardinality(Witnesses) > offset
  <2>1. Cardinality(Witnesses) \in Nat /\ Cardinality(Witnesses) # 0
    BY WitnessAssumption, FS_CardinalityType, FS_EmptySet
  <2> QED
    BY <2>1
<1>7. A \in SUBSET (0..Len(c)) /\ A # {}
  <2>1. Max(C) \in A
    BY <1>4, <1>5, <1>6
  <2> QED
    BY <1>3, <2>1
<1>8. Min(A) \in 0..Len(c)
  <2> HIDE DEF A
  <2> QED
    BY <1>1, <1>7, MinIn
<1>9. \A l : NewLib(c, l) = IF Min(A) > l THEN Min(A) ELSE l
  BY DEF NewLib, confirmed
<1> HIDE DEF A
<1>10. NewLib(c, 0) = Min(A)
  BY <1>1, <1>8, <1>9
<1>11. NewLib(c, lib) = IF Min(A) > lib THEN Min(A) ELSE lib
  BY <1>9
<1> QED
  BY <1>1, <1>8, <1>10, <1>11

LEMMA LibOfIn ==
  ASSUME NEW c \in Seq(Blocks)
  PROVE  LET L == {0} \cup {NewLib(SubSeq(c, 1, k), 0) : k \in 1..Len(c)}
         IN  /\ L \in SUBSET (0..Len(c)) /\ LibOf(c) \in L /\ \A v \in L : v <= LibOf(c)
<1> DEFINE L == {0} \cup {NewLib(SubSeq(c, 1, k), 0) : k \in 1..Len(c)}
<1>1. Len(c) \in Nat
  OBVIOUS
<1>2. ASSUME NEW k \in 1..Len(c) PROVE NewLib(SubSeq(c, 1, k), 0) \in 0..Len(c)
  <2> DEFINE d == SubSeq(c, 1, k)
  <2>1. d \in Seq(Blocks) /\ Len(d) = k
    BY Prefix
  <2> HIDE DEF d
  <2>2. 0 \in 0..Len(d)
    BY <2>1
  <2>3. NewLib(d, 0) \in 0..Len(d)
    BY <2>1, <2>2, LibWithin
  <2> QED
    BY <2>1, <2>3 DEF d
<1>3. L \in SUBSET (0..Len(c)) /\ L # {}
  BY <1>1, <1>2
<1>4. LibOf(c) = Max(L)
  BY DEF LibOf
<1> HIDE DEF L
<1>5. Max(L) \in L /\ \A v \in L : v <= Max(L)
  BY <1>1, <1>3, MaxIn
<1> QED
  BY <1>3, <1>4, <1>5 DEF L

(* What update_last_irreversible_block computes from block to block is that *)
(* function of the chain.                                                   *)
LEMMA LibAppend ==
  ASSUME NEW c \in Seq(Blocks), NEW b \in Blocks
  PROVE  LET d == Append(c, b)
         IN  LibOf(d) = NewLib(d, LibOf(c)) /\ LibOf(c) \in 0..Len(c)
<1> DEFINE d == Append(c, b)
           L == {0} \cup {NewLib(SubSeq(c, 1, k), 0) : k \in 1..Len(c)}
           M == {0} \cup {NewLib(SubSeq(d, 1, k), 0) : k \in 1..Len(d)}
<1>1. d \in Seq(Blocks) /\ Len(d) = Len(c) + 1 /\ Len(c) \in Nat
  OBVIOUS
<1>2. \A k \in 0..Len(c) : SubSeq(d, 1, k) = SubSeq(c, 1, k)
  BY AppendPrefix
<1> HIDE DEF d
<1>3. SubSeq(d, 1, Len(c) + 1) = d
  BY <1>1, PrefixWhole
<1>4. M = L \cup {NewLib(d, 0)}
  <2>1. 1..Len(d) = (1..Len(c)) \cup {Len(c) + 1} /\ \A k \in 1..Len(c) : k \in 0..Len(c)
    BY <1>1
  <2>2. \A k \in 1..Len(c) : NewLib(SubSeq(d, 1, k), 0) = NewLib(SubSeq(c, 1, k), 0)
    BY <1>2, <2>1
  <2>3. M \subseteq L \cup {NewLib(d, 0)}
    BY <1>3, <2>1, <2>2
  <2>4. L \cup {NewLib(d, 0)} \subseteq M
    BY <1>3, <2>1, <2>2
  <2> QED
    BY <2>3, <2>4
<1>5. L \in SUBSET (0..Len(c)) /\ LibOf(c) \in L /\ \A v \in L : v <= LibOf(c)
  BY LibOfIn
<1>6. M \in SUBSET (0..Len(d)) /\ LibOf(d) \in M /\ \A v \in M : v <= LibOf(d)
  BY <1>1, LibOfIn
<1> HIDE DEF L, M
<1>7. LibOf(c) \in 0..Len(c) /\ LibOf(c) \in 0..Len(d)
  <2> DEFINE y == LibOf(c)
             l == Len(c)
  <2>1. y \in 0..l
    BY <1>5
  <2>2. l \in Nat /\ Len(d) = l + 1
    BY <1>1
  <2> HIDE DEF y, l
  <2>3. y \in 0..(l + 1)
    BY <2>1, <2>2
  <2> QED
    BY <2>1, <2>2, <2>3 DEF y, l
<1>8. NewLib(d, LibOf(c)) = IF NewLib(d, 0) > LibOf(c) THEN NewLib(d, 0) ELSE LibOf(c)
  BY <1>1, <1>7, LibWithin
<1> DEFINE x == NewLib(d, 0)
           y == LibOf(c)
           z == LibOf(d)
<1>9. /\ y \in L /\ y \in Nat /\ x \in M /\ x \in Nat /\ y \in M /\ z \in M /\ z \in Nat
      /\ x <= z /\ y <= z /\ (z = x \/ z <= y)
  BY <1>1, <1>4, <1>5, <1>6
<1> HIDE DEF x, y, z
<1>10. z = IF x > y THEN x ELSE y
  BY <1>9
<1> QED
  BY <1>7, <1>8, <1>10 DEF d, x, y, z

LEMMA LibEmpty == LibOf(<< >>) = 0
<1>1. << >> \in Seq(Blocks) /\ Len(<< >>) = 0 /\ 0..0 = {0}
  OBVIOUS
<1> DEFINE e == << >>
           L == {0} \cup {NewLib(SubSeq(e, 1, k), 0) : k \in 1..Len(e)}
<1>2. L \in SUBSET (0..Len(e)) /\ LibOf(e) \in L
  BY <1>1, LibOfIn
<1> HIDE DEF L
<1> QED
  BY <1>1, <1>2

-----------------------------------------------------------------------------
(* Blocks *)

(* A clean node whose stack is cut is clean. *)
LEMMA CutClean ==
  ASSUME NEW n, Clean(n)
  PROVE  Clean([n EXCEPT !.undo = PrunedTo(n.undo, n.undo_max)])
<1> DEFINE r == PrunedTo(n.undo, n.undo_max)
<1>1. Built([n EXCEPT !.undo = r])
  BY CutStack DEF Clean
<1>2. n \in Nodes
  BY DEF Clean, Built
<1> HIDE DEF r
<1>3. [n EXCEPT !.undo = r].session = n.session /\ [n EXCEPT !.undo = r].cur = n.cur
  BY <1>2 DEF Nodes
<1>4. Clean([n EXCEPT !.undo = r])
  BY <1>1, <1>3 DEF Clean
<1> QED
  BY <1>4 DEF r

(* The size limits that a block sets leave room for the blocks above the    *)
(* irreversible one.                                                        *)
LEMMA SizeFits ==
  ASSUME NEW n, Clean(n), NEW b \in Blocks, Parent[b] = HeadId(n)
  PROVE  LET size == Num(b) - n.cur.lib + 1
         IN  /\ Num(b) = HeadNum(n) + 1 /\ size \in Nat \ {0}
             /\ HeadNum(n) + 2 <= size + n.peak
<1>1. /\ n \in Nodes /\ n.cur.chain \in Seq(Blocks) /\ n.cur.lib \in Nat /\ n.peak \in Nat
      /\ HeadNum(n) \in Nat /\ HeadNum(n) = Len(n.cur.chain)
  BY NodeFields DEF Clean, Built
<1>2. Num(HeadId(n)) = HeadNum(n)
  BY <1>1, HeadNumber DEF Clean, Built
<1>3. Num(b) = HeadNum(n) + 1
  <2>1. b # Genesis
    OBVIOUS
  <2>2. Number[b] = Num(Parent[b]) + 1
    BY NumberFacts DEF Num
  <2> QED
    BY <1>2, <2>1, <2>2 DEF Num
<1>4. n.cur.lib <= HeadNum(n) /\ n.cur.lib <= n.peak
  BY <1>1 DEF Clean, Built, Limited
<1> DEFINE hn == HeadNum(n)
           lib == n.cur.lib
           peak == n.peak
<1>5. hn \in Nat /\ lib \in Nat /\ peak \in Nat /\ lib <= hn /\ lib <= peak /\ Num(b) = hn + 1
  BY <1>1, <1>3, <1>4
<1> HIDE DEF hn, lib, peak
<1>6. /\ Num(b) - lib + 1 \in Nat \ {0}
      /\ hn + 2 <= (Num(b) - lib + 1) + peak
  BY <1>5
<1> QED
  BY <1>3, <1>6 DEF hn, lib, peak

(* The state after a block that can be applied. *)
LEMMA Extends ==
  ASSUME NEW n, Clean(n), NEW b \in Blocks, CanApplyBlock(n, b), b \notin LateBadBlocks
  PROVE  LET s == Extended(n.cur, b)
         IN  /\ s \in States /\ s.chain \in Seq(Blocks) /\ s.chain = Append(n.cur.chain, b)
             /\ Len(s.chain) = HeadNum(n) + 1 /\ s.chain[HeadNum(n) + 1] = b
             /\ \A k \in 1..HeadNum(n) : s.chain[k] = n.cur.chain[k]
             /\ \A k \in 0..HeadNum(n) : SubSeq(s.chain, 1, k) = SubSeq(n.cur.chain, 1, k)
             /\ Acceptable(s.chain) /\ s.applied = ChainTxs(s.chain)
             /\ s.lib \in Nat /\ s.lib <= Len(s.chain)
<1> DEFINE chain == Append(n.cur.chain, b)
           lib   == NewLib(chain, n.cur.lib)
           s     == [chain |-> chain, applied |-> n.cur.applied \cup ToSet(TxsOf[b]), lib |-> lib]
<1>1. n \in Nodes /\ n.cur.applied = ChainTxs(n.cur.chain) /\ Acceptable(n.cur.chain)
  BY DEF Clean, Built
<1>2. /\ n.cur.chain \in Seq(Blocks) /\ n.cur.lib \in Nat /\ n.cur.lib = LibOf(n.cur.chain)
      /\ HeadNum(n) \in Nat /\ HeadNum(n) = Len(n.cur.chain)
  BY <1>1, NodeFields
<1>3. /\ chain \in Seq(Blocks) /\ Len(chain) = HeadNum(n) + 1 /\ chain[HeadNum(n) + 1] = b
      /\ \A k \in 1..HeadNum(n) : chain[k] = n.cur.chain[k]
  BY <1>2, Appended
<1>4. \A k \in 0..HeadNum(n) : SubSeq(chain, 1, k) = SubSeq(n.cur.chain, 1, k)
  BY <1>2, AppendPrefix
<1>5. ChainTxs(chain) = n.cur.applied \cup ToSet(TxsOf[b]) /\ ChainTxs(chain) \in SUBSET Txs
  BY <1>1, <1>2, <1>3, TxsAppend, TxsTyped
<1>6. Acceptable(chain)
  <2>1. b \notin BadBlocks \cup LateBadBlocks /\ CanApplyTxs(TxsOf[b], ChainTxs(n.cur.chain))
    BY <1>1 DEF CanApplyBlock
  <2>2. Parent[b] = IF n.cur.chain = << >> THEN Genesis ELSE Last(n.cur.chain)
    BY DEF CanApplyBlock, HeadId
  <2>3. (Len(n.cur.chain) + 1) - LibOf(n.cur.chain) < MaxUndoHistory
    <3>1. Num(b) = HeadNum(n) + 1
      BY SizeFits DEF CanApplyBlock
    <3> QED
      BY <1>2, <3>1 DEF CanApplyBlock
  <2>4. Fits(n.cur.chain, b)
    BY <2>1, <2>2, <2>3 DEF Fits
  <2> QED
    BY <1>1, <1>2, <2>4, AcceptableAppend
<1>7. n.cur.lib <= HeadNum(n)
  BY <1>2 DEF Clean, Built, Limited
<1>8. Extended(n.cur, b) = s
  BY DEF Extended
<1> HIDE DEF chain
<1>9. lib \in Nat /\ lib <= Len(chain) /\ lib = LibOf(chain)
  <2>0. LibOf(chain) = NewLib(chain, LibOf(n.cur.chain))
    BY <1>2, LibAppend DEF chain
  <2>1. n.cur.lib \in 0..Len(chain)
    BY <1>2, <1>3, <1>7
  <2>2. lib \in 0..Len(chain)
    BY <1>3, <2>1, LibWithin
  <2> QED
    BY <1>2, <1>3, <2>0, <2>2
<1> HIDE DEF lib
<1>10. s \in States /\ s.chain = chain /\ s.applied = ChainTxs(chain) /\ s.lib = lib
  BY <1>3, <1>5, <1>9 DEF States
<1> HIDE DEF s
<1> QED
  BY <1>3, <1>4, <1>6, <1>8, <1>9, <1>10 DEF chain

(* A block is applied, or throws and leaves the state alone. *)
LEMMA Applied ==
  ASSUME NEW n, Clean(n), NEW b \in Blocks
  PROVE  LET e == ApplyBlock(n, b)
         IN  /\ Clean(e) /\ e.pending = n.pending /\ e.popped = n.popped
             /\ e.fork.head = n.fork.head
             /\ n.fork.head \in n.fork.index => e.fork.head \in e.fork.index
             /\ e.ok => n.ok /\ e.cur.chain = Append(n.cur.chain, b)
             /\ ~e.ok => e.cur.chain = n.cur.chain
             /\ n.ok /\ CanApplyBlock(n, b) /\ b \notin LateBadBlocks => e.ok
<1> DEFINE r == PrunedTo(n.undo, n.undo_max)
           c == [n EXCEPT !.undo = r]
           a == Append(r, n.cur)
           w == [n EXCEPT !.undo = a]
           size  == Num(b) - n.cur.lib + 1
           f     == SetForkMaxSize(n.fork, size)
           sized == [w EXCEPT !.undo_max = size, !.fork = f]
           s     == Extended(n.cur, b)
           log   == [k \in 1..(IF Num(b) > Len(n.log) THEN Num(b) ELSE Len(n.log)) |->
                       IF k = Num(b) THEN b ELSE n.log[k]]
           m     == [sized EXCEPT !.cur = s, !.peak = Max({n.peak, s.lib}), !.log = log]
<1>1. n \in Nodes /\ ForkOK(n.fork) /\ n.session = FALSE /\ n.cur.applied = ChainTxs(n.cur.chain)
  BY NodeFields DEF Clean, Built
<1>2. /\ n.undo \in Seq(States) /\ n.undo_max \in Nat \ {0} /\ n.cur \in States /\ n.cur.applied \in SUBSET Txs
      /\ n.cur.chain \in Seq(Blocks) /\ n.fork \in ForkDatabases /\ n.log \in Seq(Blocks) /\ n.cur.lib \in Nat
      /\ n.peak \in Nat /\ HeadNum(n) \in Nat /\ HeadNum(n) = Len(n.cur.chain) /\ n.ok \in BOOLEAN
  BY <1>1, NodeFields
<1>3. Clean(c)
  BY CutClean
<1>4. r \in Seq(States)
  BY <1>2, Pruned
<1>5. OpenSession(n) = w /\ UndoSession(OpenSession(n)) = c
  BY <1>1, OpenIs
<1>6. SetMaxSizes(OpenSession(n), b) = sized
  BY <1>1, <1>5 DEF SetMaxSizes, Nodes
<1>7. ApplyBlock(n, b) =
        CASE ~n.ok -> n
          [] n.ok /\ ~CanApplyBlock(n, b) -> Throw(c)
          [] n.ok /\ CanApplyBlock(n, b) /\ b \in LateBadBlocks -> Throw(UndoSession(sized))
          [] OTHER -> m
  <2>1. sized.cur = n.cur /\ sized.peak = n.peak /\ sized.log = n.log
    BY <1>1 DEF Nodes
  <2> HIDE DEF sized
  <2>2. [sized EXCEPT
           !.cur = s,
           !.peak = Max({@, s.lib}),
           !.log = [k \in 1..(IF Num(b) > Len(@) THEN Num(b) ELSE Len(@)) |->
                       IF k = Num(b) THEN b ELSE @[k]]] = m
    BY <2>1
  <2> HIDE DEF m
  <2> QED
    BY <1>5, <1>6, <2>2 DEF ApplyBlock
<1> HIDE DEF r
<1>8. /\ a \in Seq(States) /\ Len(a) = Len(r) + 1 /\ Len(r) \in Nat /\ a[Len(r) + 1] = n.cur
      /\ \A k \in 1..Len(r) : a[k] = r[k]
  BY <1>2, <1>4, Appended
<1>9. Front(a) = r /\ Last(a) = n.cur
  BY <1>2, <1>4, FrontLast
<1>10. /\ c \in Nodes /\ c.cur = n.cur /\ c.undo = r /\ c.session = FALSE /\ c.log = n.log
       /\ c.undo_max = n.undo_max /\ c.peak = n.peak /\ c.fork = n.fork /\ c.popped = n.popped /\ c.ok = n.ok
       /\ c.pending = n.pending
  BY <1>1, <1>4 DEF Nodes
<1>11. CASE ~n.ok
  BY <1>7, <1>11
<1>12. CASE n.ok /\ ~CanApplyBlock(n, b)
  <2>1. ApplyBlock(n, b) = Throw(c)
    BY <1>7, <1>12
  <2> HIDE DEF c
  <2>2. /\ Clean(Throw(c)) /\ Throw(c).pending = c.pending /\ Throw(c).popped = c.popped
        /\ Throw(c).cur = c.cur /\ Throw(c).fork = c.fork /\ ~Throw(c).ok
    BY <1>3, <1>10, CleanThrow DEF Throw, Nodes
  <2> QED
    BY <1>10, <1>12, <2>1, <2>2
<1>13. ASSUME n.ok, CanApplyBlock(n, b)
       PROVE  /\ Parent[b] = HeadId(n) /\ Num(b) = HeadNum(n) + 1 /\ size \in Nat \ {0}
              /\ HeadNum(n) + 2 <= size + n.peak /\ ForkOK(f) /\ f \in ForkDatabases
              /\ f.head = n.fork.head /\ (n.fork.head \in n.fork.index => f.head \in f.index)
  <2>1. Parent[b] = HeadId(n)
    BY <1>13 DEF CanApplyBlock
  <2>2. Num(b) = HeadNum(n) + 1 /\ size \in Nat \ {0} /\ HeadNum(n) + 2 <= size + n.peak
    BY <2>1, SizeFits
  <2>3. ForkOK(f)
    BY <1>1, <2>2, ForkSize
  <2>4. f.head = n.fork.head /\ (n.fork.head \in n.fork.index => f.head \in f.index)
    BY <1>1, <2>2, ForkSizeHead
  <2> QED
    BY <2>1, <2>2, <2>3, <2>4 DEF ForkOK
<1>14. CASE n.ok /\ CanApplyBlock(n, b) /\ b \in LateBadBlocks
  <2> DEFINE d == [c EXCEPT !.undo_max = size, !.fork = f]
  <2>1. /\ Num(b) = HeadNum(n) + 1 /\ size \in Nat \ {0} /\ HeadNum(n) + 2 <= size + n.peak
        /\ ForkOK(f) /\ f \in ForkDatabases
        /\ f.head = n.fork.head /\ (n.fork.head \in n.fork.index => f.head \in f.index)
    BY <1>13, <1>14
  <2> HIDE DEF f, size
  <2>2. UndoSession(sized) = d
    BY <1>1, <1>9 DEF UndoSession, Nodes
  <2>3. ApplyBlock(n, b) = Throw(d)
    BY <1>7, <1>14, <2>2
  <2>4. /\ d \in Nodes /\ d.cur = n.cur /\ d.undo = r /\ d.session = FALSE /\ d.log = n.log
        /\ d.undo_max = size /\ d.peak = n.peak /\ d.fork = f /\ d.popped = n.popped
        /\ d.pending = n.pending
    BY <1>10, <2>1 DEF Nodes
  <2> HIDE DEF d, c
  <2>5. HeadNum(c) + 1 <= d.undo_max + c.peak
    <3>1. HeadNum(c) = HeadNum(n)
      BY <1>10 DEF HeadNum
    <3> QED
      BY <1>2, <1>10, <2>1, <2>4, <3>1
  <2>6. Built(d)
    BY <1>3, <1>10, <2>1, <2>4, <2>5, BuiltSized DEF Clean
  <2>7. Clean(d)
    BY <1>1, <2>4, <2>6 DEF Clean
  <2>8. /\ Clean(Throw(d)) /\ Throw(d).pending = d.pending /\ Throw(d).popped = d.popped
        /\ Throw(d).cur = d.cur /\ Throw(d).fork = d.fork /\ ~Throw(d).ok
    BY <2>4, <2>7, CleanThrow DEF Throw, Nodes
  <2> QED
    BY <1>14, <2>1, <2>3, <2>4, <2>8
<1>15. CASE n.ok /\ CanApplyBlock(n, b) /\ b \notin LateBadBlocks
  <2>1. /\ Parent[b] = HeadId(n) /\ Num(b) = HeadNum(n) + 1 /\ size \in Nat \ {0}
        /\ HeadNum(n) + 2 <= size + n.peak /\ ForkOK(f) /\ f \in ForkDatabases
        /\ f.head = n.fork.head /\ (n.fork.head \in n.fork.index => f.head \in f.index)
    BY <1>13, <1>15
  <2>2. ApplyBlock(n, b) = m
    BY <1>7, <1>15
  <2> DEFINE chain == s.chain
             lib   == s.lib
  <2>3. /\ s \in States /\ chain \in Seq(Blocks) /\ Len(chain) = HeadNum(n) + 1
        /\ chain[HeadNum(n) + 1] = b /\ \A k \in 1..HeadNum(n) : chain[k] = n.cur.chain[k]
        /\ \A k \in 0..HeadNum(n) : SubSeq(chain, 1, k) = SubSeq(n.cur.chain, 1, k)
        /\ Acceptable(chain) /\ s.applied = ChainTxs(chain) /\ lib \in Nat /\ lib <= Len(chain)
        /\ chain = Append(n.cur.chain, b)
    BY <1>15, Extends
  <2>4. SubSeq(n.cur.chain, 1, HeadNum(n)) = n.cur.chain
    BY <1>2, PrefixWhole
  <2> DEFINE peak == Max({n.peak, lib})
  <2> HIDE DEF size, f, s
  <2>5. peak \in Nat /\ n.peak <= peak /\ lib <= peak
    BY <1>2, <2>3, MaxTwo
  <2>6. /\ log \in Seq(Blocks) /\ Len(log) >= Len(chain) /\ \A k \in 1..Len(chain) : log[k] = chain[k]
        /\ \A k \in 1..Len(log) : Num(log[k]) = k
    <3> DEFINE top == IF Num(b) > Len(n.log) THEN Num(b) ELSE Len(n.log)
    <3>1. /\ Len(n.log) \in Nat /\ Len(n.log) >= HeadNum(n)
          /\ \A k \in 1..HeadNum(n) : n.log[k] = n.cur.chain[k]
          /\ \A k \in 1..Len(n.log) : Num(n.log[k]) = k
      BY <1>2 DEF Clean, Built, Logged
    <3>2. top \in Nat /\ top >= Num(b) /\ \A k \in 1..top : k # Num(b) => k \in 1..Len(n.log)
      BY <1>2, <2>1, <3>1
    <3> HIDE DEF top
    <3>3. \A k \in 1..top : (IF k = Num(b) THEN b ELSE n.log[k]) \in Blocks
      BY <1>2, <3>2
    <3>4. log = [k \in 1..top |-> IF k = Num(b) THEN b ELSE n.log[k]]
      BY DEF top
    <3> HIDE DEF log
    <3>5. log \in Seq(Blocks) /\ Len(log) = top
      BY <3>2, <3>3, <3>4
    <3>6. \A k \in 1..top : log[k] = IF k = Num(b) THEN b ELSE n.log[k]
      BY <3>4
    <3>7. ASSUME NEW k \in 1..Len(chain) PROVE log[k] = chain[k]
      <4>1. Len(chain) = HeadNum(n) + 1
        BY <2>3
      <4>2. k \in 1..(HeadNum(n) + 1)
        BY <4>1
      <4>3. k \in 1..top /\ (k = Num(b) \/ k \in 1..HeadNum(n)) /\ Num(b) \notin 1..HeadNum(n)
        <5> DEFINE hn == HeadNum(n)
                   nb == Num(b)
        <5>1. hn \in Nat /\ nb = hn + 1 /\ top \in Nat /\ nb <= top /\ k \in 1..(hn + 1)
          BY <1>2, <2>1, <3>2, <4>2
        <5> HIDE DEF hn, nb, top
        <5>2. k \in 1..top /\ (k = nb \/ k \in 1..hn) /\ nb \notin 1..hn
          BY <5>1
        <5> QED
          BY <5>2 DEF hn, nb
      <4> QED
        BY <2>1, <2>3, <3>1, <3>6, <4>3
    <3>8. \A k \in 1..top : Num(log[k]) = k
      BY <3>1, <3>2, <3>6
    <3>9. Len(log) >= Len(chain)
      BY <1>2, <2>1, <2>3, <3>2, <3>5
    <3> QED
      BY <3>5, <3>7, <3>8, <3>9
  <2> HIDE DEF log, peak
  <2>7. /\ m \in Nodes /\ m.cur = s /\ m.undo = a /\ m.session = FALSE /\ m.log = log
         /\ m.undo_max = size /\ m.peak = peak /\ m.fork = f /\ m.popped = n.popped
         /\ m.pending = n.pending /\ m.ok = n.ok
    BY <1>1, <1>8, <2>1, <2>5, <2>3, <2>6 DEF Nodes, peak
  <2> HIDE DEF m, a
  <2>8. /\ HeadNum(m) = HeadNum(n) + 1 /\ HeadNum(c) = HeadNum(n)
         /\ Reach(m) = Reach(c) /\ Reach(c) = HeadNum(n) - Len(r) /\ Reach(c) \in Nat /\ Reach(c) <= c.peak
    <3>1. HeadNum(m) = HeadNum(n) + 1 /\ HeadNum(c) = HeadNum(n)
      BY <1>10, <2>3, <2>7 DEF HeadNum
    <3>2. Committed(m) = Len(r) + 1 /\ Committed(c) = Len(r)
      BY <1>8, <1>10, <2>7 DEF Committed
    <3>3. Reach(c) \in Nat /\ Reach(c) <= c.peak
      BY <1>3 DEF Clean, Built, Stacked, Limited
    <3>4. Reach(c) = HeadNum(n) - Len(r) /\ Reach(m) = (HeadNum(n) + 1) - (Len(r) + 1)
      BY <3>1, <3>2 DEF Reach
    <3>5. HeadNum(n) \in Nat /\ Len(r) \in Nat
      BY <1>2, <1>8
    <3>6. Reach(m) = Reach(c)
      BY <3>4, <3>5
    <3> QED
      BY <3>1, <3>3, <3>4, <3>6
  <2> HIDE DEF c
  <2>9. Stacked(m)
    <3>1. ASSUME NEW k \in 1..Len(a)
          PROVE  /\ a[k].chain = SubSeq(chain, 1, Reach(m) + k - 1)
                 /\ a[k].applied = ChainTxs(a[k].chain)
      <4>1. Reach(m) + k - 1 \in 0..HeadNum(n)
        BY <1>2, <1>8, <2>8
      <4>2. SubSeq(chain, 1, Reach(m) + k - 1) = SubSeq(n.cur.chain, 1, Reach(m) + k - 1)
        BY <2>3, <2>4, <4>1
      <4>3. CASE k \in 1..Len(r)
        <5>1. r[k].chain = SubSeq(n.cur.chain, 1, Reach(c) + k - 1) /\ r[k].applied = ChainTxs(r[k].chain)
          BY <1>3, <1>10, <4>3 DEF Clean, Built, Stacked
        <5> QED
          BY <1>8, <2>8, <4>2, <4>3, <5>1
      <4>4. CASE k = Len(r) + 1
        <5>1. Reach(m) + k - 1 = HeadNum(n)
          BY <1>2, <1>8, <2>8, <4>4
        <5> QED
          BY <1>1, <1>8, <2>3, <2>4, <4>2, <4>4, <5>1
      <4> QED
        BY <1>8, <4>3, <4>4
    <3> QED
      BY <2>3, <2>7, <2>8, <3>1 DEF Stacked
  <2>10. Limited(m)
    <3>1. ASSUME NEW t \in {m.cur} \cup {m.undo[k] : k \in 1..Len(m.undo)}
          PROVE  t.lib <= Len(t.chain) /\ t.lib <= m.peak
      <4>1. CASE t = s
        BY <2>3, <2>5, <2>3, <2>7, <4>1
      <4>2. CASE t # s
        <5>1. PICK k \in 1..Len(a) : t = a[k]
          BY <2>7, <4>2
        <5>2. k \in 1..Len(r) \/ k = Len(r) + 1
          BY <1>8
        <5>3. t \in {c.cur} \cup {c.undo[j] : j \in 1..Len(c.undo)}
          BY <1>8, <1>10, <5>1, <5>2
        <5>4. t.lib <= Len(t.chain) /\ t.lib <= n.peak
          BY <1>3, <1>10, <5>3 DEF Clean, Built, Limited
        <5>5. t.lib \in Nat
          <6>1. a[k] \in States
            BY <1>8
          <6> QED
            BY <5>1, <6>1 DEF States
        <5> QED
          BY <1>2, <2>5, <2>7, <5>4, <5>5
      <4> QED
        BY <4>1, <4>2
    <3>2. Reach(m) <= m.peak
      BY <1>2, <1>10, <2>5, <2>7, <2>8
    <3>3. HeadNum(m) + 1 <= m.undo_max + m.peak
      <4> DEFINE hn == HeadNum(n)
                 pn == n.peak
      <4>1. hn \in Nat /\ pn \in Nat /\ hn + 2 <= size + pn /\ size \in Nat
        BY <1>2, <2>1
      <4>2. peak \in Nat /\ pn <= peak
        BY <2>5
      <4>3. HeadNum(m) = hn + 1 /\ m.undo_max = size /\ m.peak = peak
        BY <2>7, <2>8
      <4> HIDE DEF hn, pn, peak
      <4>4. (hn + 1) + 1 <= size + peak
        BY <4>1, <4>2
      <4> QED
        BY <4>3, <4>4
    <3> QED
      BY <3>1, <3>2, <3>3 DEF Limited
  <2>11. Logged(m)
    BY <2>3, <2>6, <2>7 DEF Logged, HeadNum
  <2>12. Clean(m)
    BY <2>1, <2>3, <2>7, <2>9, <2>10, <2>11 DEF Clean, Built
  <2> QED
    BY <1>15, <2>1, <2>2, <2>3, <2>7, <2>12
<1> QED
  BY <1>11, <1>12, <1>14, <1>15

(* Undoing the last block. *)
LEMMA Undone ==
  ASSUME NEW n, Clean(n), n.undo # << >>
  PROVE  LET m == UndoSession(n)
         IN  /\ Clean(m) /\ m.pending = n.pending /\ m.popped = n.popped /\ m.ok = n.ok
             /\ m \in Nodes /\ m.fork = n.fork /\ m.log = n.log
             /\ HeadNum(n) \in Nat \ {0} /\ m.cur.chain = SubSeq(n.cur.chain, 1, HeadNum(n) - 1)
<1> DEFINE l == Len(n.undo)
           f == SubSeq(n.undo, 1, l - 1)
           s == n.undo[l]
           m == [n EXCEPT !.cur = s, !.undo = f]
<1>1. n \in Nodes /\ n.session = FALSE
  BY NodeFields DEF Clean, Built
<1>2. UndoSession(n) = m
  BY <1>1 DEF UndoSession, Front, Last
<1>3. /\ n.undo \in Seq(States) /\ l \in 1..l /\ l \in Nat /\ s \in States /\ n.cur.chain \in Seq(Blocks)
      /\ HeadNum(n) = Len(n.cur.chain) /\ HeadNum(n) \in Nat /\ n.peak \in Nat /\ n.undo_max \in Nat
  BY <1>1, NodeFields
<1>4. f \in Seq(States) /\ Len(f) = l - 1 /\ \A k \in 1..(l - 1) : f[k] = n.undo[k]
  BY <1>3
<1>5. Reach(n) = HeadNum(n) - l /\ Reach(n) \in Nat
  BY <1>1 DEF Reach, Committed, Clean, Built, Stacked
<1> DEFINE h == Reach(n) + l - 1
<1>6. h \in 0..HeadNum(n) /\ h + 1 = HeadNum(n) /\ h = HeadNum(n) - 1
  BY <1>3, <1>5
<1>7. s.chain = SubSeq(n.cur.chain, 1, h) /\ s.applied = ChainTxs(s.chain)
  BY <1>3 DEF Clean, Built, Stacked
<1> HIDE DEF h
<1>8. s.chain \in Seq(Blocks) /\ Len(s.chain) = h /\ \A k \in 1..h : s.chain[k] = n.cur.chain[k]
  BY <1>3, <1>6, <1>7, Prefix
<1>9. Acceptable(s.chain)
  BY <1>3, <1>6, <1>7, AcceptablePrefix DEF Clean, Built
<1> HIDE DEF f, s
<1>10. /\ m \in Nodes /\ m.cur = s /\ m.undo = f /\ m.session = FALSE /\ m.log = n.log /\ m.pending = n.pending
       /\ m.undo_max = n.undo_max /\ m.peak = n.peak /\ m.fork = n.fork /\ m.popped = n.popped /\ m.ok = n.ok
  BY <1>1, <1>3, <1>4 DEF Nodes
<1> HIDE DEF m
<1>11. HeadNum(m) = h /\ Reach(m) = Reach(n)
  <2>1. HeadNum(m) = h /\ Committed(m) = l - 1
    BY <1>4, <1>8, <1>10 DEF HeadNum, Committed
  <2>2. Reach(m) = h - (l - 1)
    BY <2>1 DEF Reach
  <2>3. h - (l - 1) = HeadNum(n) - l
    BY <1>3, <1>6
  <2> QED
    BY <1>5, <2>1, <2>2, <2>3
<1>12. Stacked(m)
  <2>1. ASSUME NEW k \in 1..Len(f)
        PROVE  /\ f[k].chain = SubSeq(s.chain, 1, Reach(m) + k - 1)
               /\ f[k].applied = ChainTxs(f[k].chain)
    <3>1. k \in 1..l /\ f[k] = n.undo[k]
      BY <1>3, <1>4
    <3>2. n.undo[k].chain = SubSeq(n.cur.chain, 1, Reach(n) + k - 1) /\ n.undo[k].applied = ChainTxs(n.undo[k].chain)
      BY <3>1 DEF Clean, Built, Stacked
    <3>3. Reach(n) + k - 1 \in 0..h
      <4>1. k \in Nat /\ 1 <= k /\ k <= l - 1 /\ l \in Nat
        BY <1>3, <1>4
      <4>2. h = Reach(n) + l - 1 /\ Reach(n) \in Nat
        BY <1>5 DEF h
      <4> DEFINE r == Reach(n)
      <4>3. r \in Nat /\ h = r + l - 1
        BY <4>2
      <4> HIDE DEF l, r
      <4>4. r + k - 1 \in 0..h
        BY <4>1, <4>3
      <4> QED
        BY <4>4 DEF r
    <3>4. SubSeq(s.chain, 1, Reach(n) + k - 1) = SubSeq(n.cur.chain, 1, Reach(n) + k - 1)
      <4> DEFINE i == Reach(n) + k - 1
      <4>1. i \in 0..h /\ h \in 0..Len(n.cur.chain) /\ n.cur.chain \in Seq(Blocks)
        BY <1>3, <1>6, <3>3
      <4> HIDE DEF i
      <4>2. SubSeq(s.chain, 1, i) = SubSeq(n.cur.chain, 1, i)
        BY <1>7, <4>1, PrefixPrefix
      <4> QED
        BY <4>2 DEF i
    <3> QED
      BY <1>11, <3>1, <3>2, <3>4
  <2> QED
    BY <1>5, <1>10, <1>11, <2>1 DEF Stacked
<1>13. Limited(m)
  <2>1. ASSUME NEW t \in {m.cur} \cup {m.undo[k] : k \in 1..Len(m.undo)}
        PROVE  t.lib <= Len(t.chain) /\ t.lib <= m.peak
    <3>1. t = s \/ \E k \in 1..(l - 1) : t = n.undo[k]
      BY <1>4, <1>10
    <3>2. \A k \in 1..(l - 1) : k \in 1..Len(n.undo)
      BY <1>3 DEF l
    <3>3. s = n.undo[l] /\ l \in 1..Len(n.undo)
      BY <1>3 DEF s, l
    <3>4. t \in {n.cur} \cup {n.undo[j] : j \in 1..Len(n.undo)}
      BY <3>1, <3>2, <3>3
    <3> QED
      BY <1>10, <3>4 DEF Clean, Built, Limited
  <2>2. HeadNum(n) + 1 <= n.undo_max + n.peak /\ Reach(n) <= n.peak
    BY DEF Clean, Built, Limited
  <2>3. HeadNum(m) + 1 <= m.undo_max + m.peak
    BY <1>3, <1>6, <1>10, <1>11, <2>2
  <2> QED
    BY <1>10, <1>11, <2>1, <2>2, <2>3 DEF Limited
<1>14. Logged(m)
  <2>1. Len(n.log) \in Nat /\ Len(n.log) >= HeadNum(n) /\ \A k \in 1..HeadNum(n) : n.log[k] = n.cur.chain[k]
    BY <1>1, NodeFields DEF Clean, Built, Logged
  <2>2. \A k \in 1..Len(n.log) : Num(n.log[k]) = k
    BY DEF Clean, Built, Logged
  <2>3. Len(n.log) >= h /\ \A k \in 1..h : k \in 1..HeadNum(n)
    BY <1>3, <1>6, <2>1
  <2> QED
    BY <1>8, <1>10, <1>11, <2>1, <2>2, <2>3 DEF Logged
<1>15. Clean(m)
  BY <1>7, <1>9, <1>10, <1>12, <1>13, <1>14 DEF Clean, Built
<1>16. HeadNum(n) \in Nat \ {0} /\ m.cur.chain = SubSeq(n.cur.chain, 1, HeadNum(n) - 1)
  BY <1>3, <1>6, <1>7, <1>10
<1> QED
  BY <1>2, <1>10, <1>15, <1>16

(* pop_block removes the head block and keeps its transactions, or throws   *)
(* and leaves the state alone; the fork database changes only at its head.  *)
LEMMA Popped ==
  ASSUME NEW n, Clean(n)
  PROVE  LET m == PopBlock(n)
         IN  /\ Clean(m) /\ m.log = n.log
             /\ n.fork.head # HeadId(n) => m.fork = n.fork
             /\ ~m.ok => m.cur = n.cur /\ m.popped = n.popped
             /\ m.ok => /\ n.ok /\ HeadNum(n) \in Nat \ {0}
                        /\ m.cur.chain = SubSeq(n.cur.chain, 1, HeadNum(n) - 1)
                        /\ m.popped = TxsOf[HeadId(n)] \o n.popped
<1> DEFINE b == HeadId(n)
           atHead == n.fork.head = b
           g == IF atHead THEN PopHead(n.fork) ELSE n.fork
           p == [n EXCEPT !.fork = g]
           throws == \/ ~n.ok
                     \/ atHead /\ ~CanPop(n.fork)
                     \/ ~atHead /\ b \notin n.fork.index
<1>1. n \in Nodes /\ ForkOK(n.fork)
  BY DEF Clean, Built
<1>2. p = [n EXCEPT !.fork = IF atHead THEN PopHead(@) ELSE @]
  BY <1>1 DEF Nodes
<1>3. PopBlock(n) = IF throws THEN Throw(n)
                    ELSE IF n.undo = << >> THEN Throw(p)
                    ELSE [UndoSession(p) EXCEPT !.popped = TxsOf[b] \o @]
  BY <1>2 DEF PopBlock
<1>4. CASE throws
  <2>1. /\ Throw(n).cur = n.cur /\ Throw(n).popped = n.popped /\ Throw(n).fork = n.fork
        /\ Throw(n).log = n.log /\ ~Throw(n).ok
    BY <1>1 DEF Throw, Nodes
  <2> QED
    BY <1>3, <1>4, <2>1, CleanThrow
<1>5. CASE ~throws
  <2>1. b \in Blocks /\ ForkOK(g)
    <3>1. n.fork.head \in Blocks \cup {None} /\ n.fork.index \subseteq Blocks
      BY <1>1 DEF ForkOK, ForkDatabases
    <3>2. CASE atHead
      <4>1. CanPop(n.fork)
        BY <1>5, <3>2
      <4>2. b \in Blocks
        BY <3>1, <3>2, <4>1 DEF CanPop
      <4>3. ForkOK(PopHead(n.fork))
        BY <1>1, <4>1, ForkPop
      <4> QED
        BY <3>2, <4>2, <4>3
    <3>3. CASE ~atHead
      BY <1>1, <1>5, <3>1, <3>3
    <3> QED
      BY <3>2, <3>3
  <2> HIDE DEF g, b
  <2>2. Clean(p)
    <3>1. << >> \in Seq(Txs) /\ TRUE \in BOOLEAN
      OBVIOUS
    <3> QED
      BY <2>1, <3>1, CleanFlags
  <2>3. /\ p \in Nodes /\ p.undo = n.undo /\ p.cur = n.cur /\ p.popped = n.popped /\ p.log = n.log
        /\ p.ok = n.ok /\ p.fork = g /\ HeadNum(p) = HeadNum(n) /\ (~atHead => g = n.fork)
    BY <1>1, <2>1 DEF Nodes, ForkOK, HeadNum, g
  <2> HIDE DEF p
  <2>4. CASE n.undo = << >>
    <3>1. PopBlock(n) = Throw(p)
      BY <1>3, <1>5, <2>4
    <3>2. /\ Throw(p).cur = p.cur /\ Throw(p).popped = p.popped /\ Throw(p).fork = p.fork
          /\ Throw(p).log = p.log /\ ~Throw(p).ok
      BY <2>3 DEF Throw, Nodes
    <3> QED
      BY <2>2, <2>3, <3>1, <3>2, CleanThrow DEF b
  <2>5. CASE n.undo # << >>
    <3> DEFINE u == UndoSession(p)
               q == TxsOf[b] \o u.popped
    <3>1. /\ Clean(u) /\ u \in Nodes /\ u.popped = n.popped /\ u.ok = n.ok /\ u.fork = g /\ u.log = n.log
          /\ HeadNum(n) \in Nat \ {0} /\ u.cur.chain = SubSeq(n.cur.chain, 1, HeadNum(n) - 1)
      BY <2>2, <2>3, <2>5, Undone
    <3>2. PopBlock(n) = [u EXCEPT !.popped = TxsOf[b] \o @]
      BY <1>3, <1>5, <2>5
    <3> HIDE DEF u
    <3>3. TxsOf[b] \in Seq(Txs) /\ u.popped \in Seq(Txs)
      BY <2>1, <3>1, NodeFields, TxAssumption
    <3>4. q \in Seq(Txs)
      BY <3>3, ConcatProperties
    <3>5. [u EXCEPT !.popped = TxsOf[b] \o @] = [u EXCEPT !.popped = q]
      BY <3>1 DEF Nodes
    <3> HIDE DEF q
    <3>6. TRUE \in BOOLEAN /\ ForkOK(u.fork)
      BY <3>1 DEF Clean, Built
    <3>7. Clean([u EXCEPT !.popped = q])
      BY <3>1, <3>4, <3>6, CleanFlags
    <3> DEFINE v == [u EXCEPT !.popped = q]
    <3>8. v.cur = u.cur /\ v.ok = u.ok /\ v.popped = q /\ v.fork = u.fork /\ v.log = u.log
      BY <3>1 DEF Nodes
    <3>9. PopBlock(n) = v
      BY <3>2, <3>5
    <3> HIDE DEF v
    <3>10. n.ok /\ q = TxsOf[HeadId(n)] \o n.popped
      BY <1>1, <1>5, <3>1, NodeFields DEF q, b
    <3>11. n.fork.head # HeadId(n) => g = n.fork
      BY <2>3 DEF b
    <3> QED
      BY <3>1, <3>7, <3>8, <3>9, <3>10, <3>11 DEF v
  <2> QED
    BY <2>4, <2>5
<1> QED
  BY <1>4, <1>5

-----------------------------------------------------------------------------
(* Loops over blocks, and fork switches *)

CleanNodes == {n \in Nodes : Clean(n)}

LEMMA CleanMembers == \A n : n \in CleanNodes <=> Clean(n)
BY DEF CleanNodes, Clean, Built

BlockLoop == INSTANCE FoldTheorems WITH Op <- ApplyBlock
PopLoop   == INSTANCE FoldTheorems WITH Op <- PopRound

(* A set of nodes that a switch does not leave, whatever blocks it pops and *)
(* applies, whether they throw, and whatever becomes of the fork database.  *)
Stable(K) ==
    /\ K \subseteq CleanNodes
    /\ \A n \in K : /\ PopBlock(n) \in K
                    /\ \A b \in Blocks : ApplyBlock(n, b) \in K
                    /\ \A ok \in BOOLEAN : [n EXCEPT !.ok = ok] \in K
                    /\ \A f : ForkOK(f) => [n EXCEPT !.fork = f] \in K

LEMMA StableClean == Stable(CleanNodes)
<1> SUFFICES ASSUME NEW n, Clean(n)
             PROVE  /\ Clean(PopBlock(n))
                    /\ \A b \in Blocks : Clean(ApplyBlock(n, b))
                    /\ \A ok \in BOOLEAN : Clean([n EXCEPT !.ok = ok])
                    /\ \A f : ForkOK(f) => Clean([n EXCEPT !.fork = f])
  BY CleanMembers DEF Stable
<1>1. << >> \in Seq(Txs) /\ TRUE \in BOOLEAN /\ ForkOK(n.fork)
  BY DEF Clean, Built
<1>2. \A ok \in BOOLEAN : Clean([n EXCEPT !.ok = ok])
  BY <1>1, CleanFlags
<1>3. \A f : ForkOK(f) => Clean([n EXCEPT !.fork = f])
  BY <1>1, CleanFlags
<1> QED
  BY <1>2, <1>3, Popped, Applied

LEMMA AppliedAll ==
  ASSUME NEW K, NEW n \in K, \A m \in K : \A b \in Blocks : ApplyBlock(m, b) \in K,
         NEW bs \in Seq(Blocks)
  PROVE  ApplyBlocks(n, bs) \in K
<1>1. ApplyBlocks(n, bs) = BlockLoop!Folded(n, bs)
  BY DEF BlockLoop!Folded, BlockLoop!Folds, BlockLoop!Largest, FoldLeft, MapThenFoldSet, Max, ApplyBlocks
<1>2. BlockLoop!Folded(n, bs) \in K
  BY BlockLoop!FoldKeeps
<1> QED
  BY <1>1, <1>2

LEMMA PoppedAll ==
  ASSUME NEW K, NEW n \in K, \A m \in K : PopBlock(m) \in K, HeadNum(n) \in Nat,
         NEW target, Num(target) \in Nat
  PROVE  PopBlocksTo(n, target) \in K
<1> DEFINE len == HeadNum(n) - Num(target)
           s   == [k \in 1..len |-> k]
<1>1. s \in Seq(Nat)
  <2>1. len \in Int
    OBVIOUS
  <2> HIDE DEF len
  <2>2. CASE len >= 0
    <3>1. len \in Nat /\ \A k \in 1..len : k \in Nat
      BY <2>1, <2>2
    <3> QED
      BY <3>1
  <2>3. CASE len < 0
    <3>1. 1..len = {} /\ s = [k \in 1..len |-> k]
      BY <2>1, <2>3
    <3>2. s = << >> /\ << >> \in Seq(Nat)
      BY <3>1
    <3> HIDE DEF s
    <3> QED
      BY <3>2
  <2> QED
    BY <2>1, <2>2, <2>3
<1>2. PopBlocksTo(n, target) = PopLoop!Folded(n, s)
  BY DEF PopLoop!Folded, PopLoop!Folds, PopLoop!Largest, FoldLeft, MapThenFoldSet, Max, PopBlocksTo
<1> HIDE DEF s
<1>3. \A m \in K : \A x \in Nat : PopRound(m, x) \in K
  BY DEF PopRound
<1>4. PopLoop!Folded(n, s) \in K
  BY <1>1, <1>3, PopLoop!FoldKeeps
<1> QED
  BY <1>2, <1>4

(* Two blocks have a common ancestor, if only the genesis state. *)
LEMMA BranchBaseIs ==
  ASSUME NEW x \in Blocks, NEW y \in Blocks
  PROVE  /\ BranchBase(x, y) \in Nat \ {0} /\ BranchBase(x, y) <= Number[x] /\ BranchBase(x, y) <= Number[y]
         /\ Num(x) = Number[x] /\ Num(y) = Number[y] /\ Number[x] \in Nat /\ Number[y] \in Nat
<1> DEFINE low == IF Num(x) <= Num(y) THEN Num(x) ELSE Num(y)
           meets(n) == Parent[PathTo[x][n]] = Parent[PathTo[y][n]]
           M == {n \in 1..low : meets(n)}
<1>1. Num(x) = Number[x] /\ Num(y) = Number[y] /\ Number[x] \in Nat \ {0} /\ Number[y] \in Nat \ {0}
  BY NumberFacts DEF Num
<1>2. low \in Nat \ {0} /\ low <= Number[x] /\ low <= Number[y] /\ 1 \in 1..low
  BY <1>1
<1>3. \A b \in Blocks : Parent[PathTo[b][1]] = Genesis
  <2> SUFFICES ASSUME NEW b \in Blocks PROVE Parent[PathTo[b][1]] = Genesis
    OBVIOUS
  <2>1. PathTo[b] \in Chains /\ Len(PathTo[b]) = Number[b] /\ Number[b] \in Nat \ {0}
    BY PathIsChain, NumberFacts
  <2>2. PathTo[b] \in Seq(Blocks) /\ IsChain(PathTo[b])
    BY <2>1 DEF Chains
  <2>3. 1 \in DOMAIN PathTo[b]
    BY <2>1, <2>2
  <2> QED
    BY <2>2, <2>3 DEF IsChain
<1> HIDE DEF low
<1>4. M \in SUBSET (0..low) /\ M # {}
  BY <1>2, <1>3
<1> HIDE DEF M
<1>5. Max(M) \in M /\ \A n \in M : n <= Max(M)
  BY <1>2, <1>4, MaxIn
<1>6. Max(M) \in 1..low /\ meets(Max(M)) /\ \A m \in (Max(M) + 1)..low : ~meets(m)
  <2>1. Max(M) \in 1..low /\ meets(Max(M))
    BY <1>5 DEF M
  <2>2. ASSUME NEW m \in (Max(M) + 1)..low PROVE ~meets(m)
    <3>1. m \in 1..low /\ ~ (m <= Max(M))
      BY <1>2, <2>1
    <3>2. m \notin M
      BY <1>5, <3>1
    <3> QED
      BY <3>1, <3>2 DEF M
  <2> QED
    BY <2>1, <2>2
<1>7. BranchBase(x, y) = CHOOSE n \in 1..low : meets(n) /\ \A m \in (n + 1)..low : ~meets(m)
  BY DEF BranchBase, low
<1>8. BranchBase(x, y) \in 1..low
  <2> HIDE DEF meets
  <2> QED
    BY <1>6, <1>7
<1> QED
  BY <1>1, <1>2, <1>8

LEMMA BranchIs ==
  ASSUME NEW x \in Blocks, NEW n \in Nat \ {0}, n <= Number[x]
  PROVE  LET bs == Branch(x, n)
         IN  /\ bs \in Seq(Blocks) /\ bs[1] \in Blocks
             /\ Len(bs) \in Nat \ {0} /\ bs[Len(bs)] = x
<1> DEFINE p == PathTo[x]
<1>1. /\ p \in Seq(Blocks) /\ Len(p) = Number[x] /\ Num(x) = Number[x] /\ Number[x] \in Nat
      /\ p[Number[x]] = x
  BY PathIsChain, NumberFacts DEF Chains, Num
<1> HIDE DEF p
<1> DEFINE l  == Len(p)
           k  == l - n + 1
           bs == SubSeq(p, n, l)
<1>2. /\ bs \in Seq(Blocks) /\ bs[1] = p[n] /\ p[n] \in Blocks /\ Len(bs) = k
      /\ k \in Nat \ {0} /\ bs[k] = p[l]
  <2>1. l \in Nat /\ n \in 1..l /\ k \in Nat \ {0} /\ n + k - 1 = l
    BY <1>1
  <2>2. bs \in Seq(Blocks) /\ Len(bs) = k /\ \A i \in 1..k : bs[i] = p[n + i - 1]
    BY <1>1, <2>1
  <2>3. p[n] \in Blocks
    BY <1>1, <2>1
  <2>4. 1 \in 1..k /\ k \in 1..k /\ n + 1 - 1 = n
    <3> HIDE DEF k
    <3> QED
      BY <2>1
  <2> HIDE DEF bs, k
  <2> QED
    BY <2>1, <2>2, <2>3, <2>4
<1>3. Branch(x, n) = bs
  BY <1>1 DEF Branch, p
<1> HIDE DEF bs
<1> QED
  BY <1>1, <1>2, <1>3

(* The fork switch, and the way back, do not leave a stable set. *)
LEMMA Switched ==
  ASSUME NEW K, Stable(K), NEW n \in K, NEW new_head \in Blocks
  PROVE  LET base  == BranchBase(new_head, HeadId(n))
             first == Branch(new_head, base)
             m     == SwitchFork(n, new_head)
         IN  /\ m \in K
             /\ m.ok => /\ HeadId(n) \in Blocks /\ base \in Nat \ {0} /\ base <= Number[new_head]
                        /\ Num(Parent[first[1]]) \in Nat
                        /\ m = ApplyBlocks(PopBlocksTo(n, Parent[first[1]]), first)
<1> DEFINE old_head == HeadId(n)
           base   == BranchBase(new_head, old_head)
           first  == Branch(new_head, base)
           second == Branch(old_head, base)
           target == Parent[first[1]]
           rewound  == PopBlocksTo(n, target)
           switched == ApplyBlocks(rewound, first)
           bad      == ToSet(first) \ AppliedOf(switched, first)
           f        == SetHead(Erase(switched.fork, bad), old_head)
           cleaned  == [[switched EXCEPT !.ok = TRUE] EXCEPT !.fork = f]
           back     == ApplyBlocks(PopBlocksTo(cleaned, target), second)
           can      == CanFetchBranches(n.fork, new_head, old_head)
<1>0. \A m \in K : Clean(m) /\ m \in Nodes /\ ForkOK(m.fork) /\ HeadNum(m) \in Nat /\ Throw(m) \in K
                     /\ ~Throw(m).ok
  <2> SUFFICES ASSUME NEW m \in K
               PROVE  /\ Clean(m) /\ m \in Nodes /\ ForkOK(m.fork) /\ HeadNum(m) \in Nat /\ Throw(m) \in K
                      /\ ~Throw(m).ok
    OBVIOUS
  <2>1. Clean(m) /\ m \in Nodes /\ ForkOK(m.fork) /\ HeadNum(m) \in Nat
    BY CleanMembers, NodeFields DEF Stable, Clean, Built
  <2> QED
    BY <2>1 DEF Stable, Throw, Nodes
<1>1. CASE ~can
  BY <1>0, <1>1 DEF SwitchFork
<1>2. CASE can
  <2>1. old_head \in Blocks
    BY <1>0, <1>2 DEF CanFetchBranches, ForkOK, ForkDatabases
  <2> HIDE DEF old_head
  <2>2. base \in Nat \ {0} /\ base <= Number[new_head] /\ base <= Number[old_head]
    BY <2>1, BranchBaseIs
  <2> HIDE DEF base
  <2>3. first \in Seq(Blocks) /\ first[1] \in Blocks /\ second \in Seq(Blocks)
    BY <2>1, <2>2, BranchIs
  <2> HIDE DEF first, second
  <2>4. Num(target) \in Nat
    BY <2>3, NumberAssumption DEF Num
  <2> HIDE DEF target
  <2>5. rewound \in K
    BY <1>0, <2>4, PoppedAll DEF Stable
  <2> HIDE DEF rewound
  <2>6. switched \in K
    BY <2>3, <2>5, AppliedAll DEF Stable
  <2> HIDE DEF switched
  <2>7. ForkOK(f)
    <3>1. ForkOK(Erase(switched.fork, bad))
      BY <1>0, <2>6, ForkErase
    <3> QED
      BY <2>1, <3>1, ForkSetHead
  <2> HIDE DEF f
  <2>8. cleaned \in K
    <3> DEFINE o == [switched EXCEPT !.ok = TRUE]
    <3>1. o \in K
      BY <2>6 DEF Stable
    <3> HIDE DEF o
    <3>2. [o EXCEPT !.fork = f] \in K
      BY <2>7, <3>1 DEF Stable
    <3> QED
      BY <3>2 DEF o
  <2>9. cleaned = [switched EXCEPT !.ok = TRUE, !.fork = SetHead(Erase(@, bad), old_head)]
    BY <1>0, <2>6 DEF f, Nodes
  <2>10. SwitchFork(n, new_head) = IF ~rewound.ok \/ switched.ok THEN switched ELSE Throw(back)
    <3>1. ToSet(first) \ AppliedOf(switched, first) = bad
      OBVIOUS
    <3> HIDE DEF cleaned, bad
    <3> QED
      BY <1>2, <2>9, <3>1 DEF SwitchFork, old_head, base, first, second, target, rewound, switched
  <2> HIDE DEF cleaned
  <2>11. PopBlocksTo(cleaned, target) \in K
    BY <1>0, <2>4, <2>8, PoppedAll DEF Stable
  <2>12. back \in K
    BY <2>3, <2>11, AppliedAll DEF Stable
  <2> HIDE DEF back
  <2>13. SwitchFork(n, new_head) \in K
    BY <1>0, <2>6, <2>10, <2>12
  <2>14. SwitchFork(n, new_head).ok => SwitchFork(n, new_head) = switched
    BY <1>0, <2>10, <2>12
  <2> QED
    BY <2>1, <2>2, <2>4, <2>13, <2>14 DEF old_head, base, first, target, rewound, switched
<1> QED
  BY <1>1, <1>2

(* _push_block, unfolded *)
LEMMA PushToChainIs ==
  ASSUME NEW n \in Nodes, NEW b
  PROVE  LET p == PushItem(n.fork, b)
             m == [n EXCEPT !.fork = p]
             applied == ApplyBlock(m, b)
             failed  == [applied EXCEPT !.fork = RemoveItem(@, b)]
         IN  PushToChain(n, b) =
               IF ~CanPush(n.fork, b) THEN Throw(n)
               ELSE IF Parent[p.head] = HeadId(n) THEN IF applied.ok THEN applied ELSE failed
               ELSE IF Num(p.head) > HeadNum(n) THEN SwitchFork(m, p.head) ELSE m
<1> DEFINE p == PushItem(n.fork, b)
           m == [n EXCEPT !.fork = p]
           q == [n EXCEPT !.fork = PushItem(@, b)]
           a == ApplyBlock(q, b)
           e == [a EXCEPT !.fork = RemoveItem(@, b)]
<1>1. PushToChain(n, b) =
        IF ~CanPush(n.fork, b) THEN Throw(n)
        ELSE IF Parent[q.fork.head] = HeadId(n) THEN IF a.ok THEN a ELSE e
        ELSE IF Num(q.fork.head) > HeadNum(n) THEN SwitchFork(q, q.fork.head) ELSE q
  BY DEF PushToChain
<1>2. q = m /\ q.fork = p
  BY DEF Nodes
<1> HIDE DEF q
<1> QED
  BY <1>1, <1>2

(* _push_block *)
LEMMA PushedToChain ==
  ASSUME NEW K, Stable(K), NEW n \in K, NEW b \in Blocks
  PROVE  PushToChain(n, b) \in K
<1> DEFINE p == PushItem(n.fork, b)
           m == [n EXCEPT !.fork = p]
           applied == ApplyBlock(m, b)
           g == RemoveItem(applied.fork, b)
           failed == [applied EXCEPT !.fork = g]
<1>0. \A x \in K : x \in Nodes /\ ForkOK(x.fork) /\ Throw(x) \in K
  BY CleanMembers DEF Stable, Clean, Built, Throw
<1>1. n \in Nodes /\ ForkOK(n.fork)
  BY <1>0
<1>2. ForkOK(p) /\ p.head \in Blocks
  BY <1>1, ForkPush
<1> HIDE DEF p
<1>3. m \in K
  BY <1>2 DEF Stable
<1>4. m.fork = p /\ [n EXCEPT !.fork = PushItem(@, b)] = m
  BY <1>1 DEF Nodes, p
<1> HIDE DEF m
<1>5. applied \in K
  BY <1>3 DEF Stable
<1> HIDE DEF applied
<1>6. ForkOK(g)
  BY <1>0, <1>5, ForkRemove
<1>7. failed = [applied EXCEPT !.fork = RemoveItem(@, b)]
  BY <1>0, <1>5 DEF Nodes
<1> HIDE DEF g
<1>8. failed \in K
  BY <1>5, <1>6 DEF Stable
<1> HIDE DEF failed
<1>9. SwitchFork(m, p.head) \in K
  BY <1>2, <1>3, Switched
<1>10. Throw(n) \in K
  BY <1>0
<1>11. PushToChain(n, b) =
         IF ~CanPush(n.fork, b) THEN Throw(n)
         ELSE IF Parent[p.head] = HeadId(n) THEN IF applied.ok THEN applied ELSE failed
         ELSE IF Num(p.head) > HeadNum(n) THEN SwitchFork(m, p.head) ELSE m
  BY <1>1, <1>7, PushToChainIs DEF applied, m, p
<1> QED
  BY <1>3, <1>5, <1>8, <1>9, <1>10, <1>11

-----------------------------------------------------------------------------
(* push_block, and the blocks that the node produces *)

(* What waits is set aside and the pending session dropped. *)
Clear(n) == ResetPending([n EXCEPT !.pending = << >>, !.ok = TRUE])

LEMMA Cleared ==
  ASSUME NEW n, Sound(n)
  PROVE  LET m == Clear(n)
         IN  /\ Clean(m) /\ m.cur.chain = n.cur.chain /\ m.fork = n.fork /\ m.log = n.log
             /\ m.popped = n.popped /\ m.ok
<1> DEFINE none == << >>
           m == [n EXCEPT !.pending = none, !.ok = TRUE]
<1>1. n \in Nodes /\ n.undo_max \in Nat /\ ForkOK(n.fork) /\ Built(n) /\ none \in Seq(Txs)
  BY NodeFields DEF Sound, Built
<1> HIDE DEF none
<1>2. /\ m \in Nodes /\ m.cur = n.cur /\ m.undo = n.undo /\ m.session = n.session /\ m.log = n.log
      /\ m.undo_max = n.undo_max /\ m.peak = n.peak /\ m.fork = n.fork /\ m.popped = n.popped /\ m.ok
  BY <1>1 DEF Nodes
<1> HIDE DEF m
<1>3. Built(m)
  BY <1>1, <1>2, BuiltSame
<1>4. ~m.session => m.cur.applied = ChainTxs(m.cur.chain)
  BY <1>2 DEF Sound, Explained
<1> DEFINE r == ResetPending(m)
<1>5. /\ Clean(r) /\ r.cur.chain = m.cur.chain /\ r.fork = m.fork /\ r.log = m.log /\ r.popped = m.popped
      /\ r.ok = m.ok
  BY <1>3, <1>4, Reset
<1>6. Clear(n) = r
  BY DEF m, none, Clear
<1> HIDE DEF r
<1> QED
  BY <1>2, <1>5, <1>6

SettledNodes == {n \in Nodes : Settled(n)}

LEMMA SettledMembers == \A n : n \in SettledNodes <=> Settled(n)
BY DEF SettledNodes, Settled, Sound, Built

RestoreLoop == INSTANCE FoldTheorems WITH Op <- RestoreTx

(* What cannot be applied cannot be applied either when more has been. *)
LEMMA TxBlocked ==
  ASSUME NEW tx, NEW A, NEW B, A \subseteq B, ~CanApplyTx(tx, A)
  PROVE  ~CanApplyTx(tx, B)
BY DEF CanApplyTx

(* Every transaction of the list has been applied in the end or cannot be. *)
LEMMA RestoredAll ==
  ASSUME NEW n, Settled(n), NEW txs \in Seq(Txs)
  PROVE  LET m == FoldLeft(RestoreTx, n, txs)
         IN  /\ Settled(m) /\ m.cur.chain = n.cur.chain /\ m.fork = n.fork /\ m.ok = n.ok
             /\ n.cur.applied \subseteq m.cur.applied
             /\ \A tx \in ToSet(txs) : ~CanApplyTx(tx, m.cur.applied)
<1> DEFINE Good(m) == /\ Settled(m) /\ m.cur.chain = n.cur.chain /\ m.fork = n.fork /\ m.ok = n.ok
                      /\ n.cur.applied \subseteq m.cur.applied
           Done(m, k) == \A i \in 1..k : ~CanApplyTx(txs[i], m.cur.applied)
           K == [k \in Nat |-> {m \in SettledNodes : Good(m) /\ Done(m, k)}]
<1>1. FoldLeft(RestoreTx, n, txs) = RestoreLoop!Folded(n, txs)
  BY DEF RestoreLoop!Folded, RestoreLoop!Folds, RestoreLoop!Largest, FoldLeft, MapThenFoldSet, Max
<1>2. n \in K[0]
  BY SettledMembers
<1>3. ASSUME NEW k \in 1..Len(txs), NEW m \in K[k - 1]
      PROVE  RestoreTx(m, txs[k]) \in K[k]
  <2> DEFINE r == RestoreTx(m, txs[k])
  <2>1. txs[k] \in Txs /\ k \in Nat /\ k - 1 \in Nat /\ \A i \in 1..k : i = k \/ i \in 1..(k - 1)
    OBVIOUS
  <2>2. m \in SettledNodes /\ Good(m) /\ Done(m, k - 1)
    BY <2>1
  <2> HIDE DEF Done
  <2>3. Good(r) /\ m.cur.applied \subseteq r.cur.applied /\ ~CanApplyTx(txs[k], r.cur.applied)
    <3>1. CASE txs[k] \in m.cur.applied
      BY <2>2, <3>1 DEF RestoreTx, CanApplyTx
    <3>2. CASE txs[k] \notin m.cur.applied
      <4> DEFINE q == PushTx(m, txs[k])
      <4>1. r = q
        BY <3>2 DEF RestoreTx
      <4>2. /\ Sound(q) /\ q.popped = m.popped /\ q.cur.chain = m.cur.chain /\ q.ok = m.ok
            /\ q.fork = m.fork /\ m.cur.applied \subseteq q.cur.applied /\ ~CanApplyTx(txs[k], q.cur.applied)
        BY <2>1, <2>2, Pushed DEF Settled
      <4> HIDE DEF q, r
      <4> QED
        BY <2>2, <4>1, <4>2 DEF Settled
    <3> QED
      BY <3>1, <3>2
  <2> HIDE DEF r
  <2>4. Done(r, k)
    BY <2>1, <2>2, <2>3, TxBlocked DEF Done
  <2>5. r \in SettledNodes
    BY <2>3, SettledMembers
  <2> HIDE DEF Good
  <2> QED
    BY <2>1, <2>3, <2>4, <2>5 DEF r
<1> DEFINE e == RestoreLoop!Folded(n, txs)
<1>4. e \in K[Len(txs)]
  <2> HIDE DEF K
  <2> QED
    BY <1>2, <1>3, RestoreLoop!FoldSteps
<1>5. Good(e) /\ Done(e, Len(txs))
  <2>1. Len(txs) \in Nat
    OBVIOUS
  <2> HIDE DEF e, Good, Done
  <2> QED
    BY <1>4, <2>1
<1> HIDE DEF e
<1>6. \A tx \in ToSet(txs) : ~CanApplyTx(tx, e.cur.applied)
  <2>1. DOMAIN txs = 1..Len(txs)
    OBVIOUS
  <2> QED
    BY <1>5, <2>1 DEF ToSet
<1> QED
  BY <1>1, <1>5, <1>6 DEF e

(* push_block is _push_block on the cleared node, and then what waited and  *)
(* what was popped is pushed again.                                         *)
LEMMA PushedOne ==
  ASSUME NEW n, Sound(n), NEW b \in Blocks
  PROVE  LET pushed == PushToChain(Clear(n), b)
             m      == PushedBlock(n, b)
         IN  /\ Clean(pushed) /\ Settled(m)
             /\ m.cur.chain = pushed.cur.chain /\ m.fork = pushed.fork /\ m.ok = pushed.ok
             /\ pushed.cur.applied \subseteq m.cur.applied
             /\ \A tx \in ToSet(pushed.popped) \cup ToSet(n.pending) : ~CanApplyTx(tx, m.cur.applied)
<1> DEFINE pushed == PushToChain(Clear(n), b)
           m      == [pushed EXCEPT !.popped = << >>]
           txs    == pushed.popped \o n.pending
           e      == FoldLeft(RestoreTx, m, txs)
<1>1. Clean(Clear(n))
  BY Cleared
<1>2. Clean(pushed)
  BY <1>1, CleanMembers, StableClean, PushedToChain
<1>3. PushedBlock(n, b) = e
  BY DEF PushedBlock, Clear
<1> HIDE DEF pushed
<1>4. << >> \in Seq(Txs) /\ TRUE \in BOOLEAN /\ ForkOK(pushed.fork) /\ pushed \in Nodes /\ n \in Nodes
  BY <1>2 DEF Clean, Sound, Built
<1>5. Clean(m) /\ m.popped = << >> /\ m.cur = pushed.cur /\ m.fork = pushed.fork /\ m.ok = pushed.ok
  BY <1>2, <1>4, CleanFlags DEF Nodes
<1> HIDE DEF m
<1>6. Settled(m)
  BY <1>5, CleanIsSound DEF Settled
<1>7. pushed.popped \in Seq(Txs) /\ n.pending \in Seq(Txs)
  BY <1>4, NodeFields
<1>8. txs \in Seq(Txs) /\ ToSet(txs) = ToSet(pushed.popped) \cup ToSet(n.pending)
  BY <1>7, ToSetConcat
<1> HIDE DEF txs
<1>9. /\ Settled(e) /\ e.cur.chain = m.cur.chain /\ e.fork = m.fork /\ e.ok = m.ok
      /\ m.cur.applied \subseteq e.cur.applied
      /\ \A tx \in ToSet(txs) : ~CanApplyTx(tx, e.cur.applied)
  BY <1>6, <1>8, RestoredAll
<1> HIDE DEF e
<1> QED
  BY <1>2, <1>3, <1>5, <1>8, <1>9 DEF pushed

(* A block under construction on the chain of n, in the pending session. *)
Building(n) ==
    {acc \in [n : Nodes, txs : Seq(Txs)] :
        /\ Built(acc.n) /\ acc.n.session /\ acc.n.cur.chain = n.cur.chain
        /\ acc.n.pending = n.pending /\ acc.n.popped = n.popped /\ acc.n.fork = n.fork}

TakeLoop == INSTANCE FoldTheorems WITH Op <- TakeTx

LEMMA Collected ==
  ASSUME NEW n, Sound(n)
  PROVE  LET m == Collect(n).n
         IN  /\ Sound(m) /\ m.cur.chain = n.cur.chain /\ m.pending = n.pending
             /\ m.popped = n.popped /\ m.fork = n.fork
<1> DEFINE reset == ResetPending(n)
           start == [OpenSession(reset) EXCEPT !.session = TRUE]
           acc   == [n |-> start, txs |-> << >>]
           all   == FoldLeft(TakeTx, acc, n.pending)
<1>1. /\ Clean(reset) /\ reset.cur.chain = n.cur.chain /\ reset.pending = n.pending
      /\ reset.popped = n.popped /\ reset.fork = n.fork
  BY Reset DEF Sound, Explained
<1>2. Collect(n).n = ResetPending(all.n)
  BY DEF Collect
<1> HIDE DEF reset
<1>3. /\ Sound(start) /\ start.session /\ start.cur = reset.cur /\ start.pending = reset.pending
      /\ start.popped = reset.popped /\ start.fork = reset.fork
  BY <1>1, OpenPending
<1> HIDE DEF start
<1>4. acc \in Building(n)
  <2>1. start \in Nodes /\ << >> \in Seq(Txs) /\ Built(start)
    BY <1>3 DEF Sound, Built
  <2> QED
    BY <1>1, <1>3, <2>1 DEF Building
<1>5. n.pending \in Seq(Txs)
  BY NodeFields DEF Sound, Built
<1>6. ASSUME NEW x \in Building(n), NEW tx \in Txs PROVE TakeTx(x, tx) \in Building(n)
  <2> DEFINE t == TryTx(x.n, tx)
  <2>1. /\ Built(x.n) /\ x.n.session /\ x.txs \in Seq(Txs) /\ x.n.cur.chain = n.cur.chain
        /\ x.n.pending = n.pending /\ x.n.popped = n.popped /\ x.n.fork = n.fork
    BY DEF Building
  <2>2. /\ Built(t) /\ t.session = x.n.session /\ t.cur.chain = x.n.cur.chain /\ t.pending = x.n.pending
        /\ t.popped = x.n.popped /\ t.fork = x.n.fork
    BY <2>1, Try
  <2>3. TakeTx(x, tx) = IF Len(x.txs) >= MaxBlockTxs THEN x
                        ELSE [n |-> t, txs |-> IF t.cur.applied = x.n.cur.applied
                                               THEN x.txs ELSE Append(x.txs, tx)]
    BY DEF TakeTx
  <2> HIDE DEF t
  <2> DEFINE q == IF t.cur.applied = x.n.cur.applied THEN x.txs ELSE Append(x.txs, tx)
             y == [n |-> t, txs |-> q]
  <2>4. q \in Seq(Txs) /\ t \in Nodes
    BY <2>1, <2>2 DEF Built
  <2>5. TakeTx(x, tx) = x \/ TakeTx(x, tx) = y
    BY <2>3
  <2> HIDE DEF q
  <2>6. y \in [n : Nodes, txs : Seq(Txs)] /\ y.n = t
    BY <2>4
  <2> HIDE DEF y
  <2>7. y \in Building(n)
    BY <2>1, <2>2, <2>6 DEF Building
  <2> QED
    BY <2>5, <2>7
<1> HIDE DEF acc
<1>7. all = TakeLoop!Folded(acc, n.pending)
  BY DEF TakeLoop!Folded, TakeLoop!Folds, TakeLoop!Largest, FoldLeft, MapThenFoldSet, Max
<1> HIDE DEF all
<1>8. \A x \in Building(n) : \A tx \in Txs : TakeTx(x, tx) \in Building(n)
  BY <1>6
<1>9. all \in Building(n)
  BY <1>4, <1>5, <1>7, <1>8, TakeLoop!FoldKeeps
<1>10. /\ Built(all.n) /\ all.n.session /\ all.n.cur.chain = n.cur.chain /\ all.n.pending = n.pending
       /\ all.n.popped = n.popped /\ all.n.fork = n.fork
  BY <1>9 DEF Building
<1> DEFINE m == ResetPending(all.n)
<1>11. /\ Clean(m) /\ m.cur.chain = all.n.cur.chain /\ m.pending = all.n.pending
       /\ m.popped = all.n.popped /\ m.fork = all.n.fork
  BY <1>10, Reset
<1> HIDE DEF m
<1> QED
  BY <1>2, <1>10, <1>11, CleanIsSound DEF m

-----------------------------------------------------------------------------
(* Stopping and starting *)

LEMMA RewindKeeps ==
  ASSUME NEW n, Clean(n), NEW cutoff
  PROVE  Clean(RewindStep(n, cutoff)) /\ RewindStep(n, cutoff).log = n.log
<1> DEFINE popped == PopBlock(n)
           g == RemoveItem(popped.fork, HeadId(n))
           m == [popped EXCEPT !.fork = g]
<1>1. Clean(popped) /\ popped.log = n.log
  BY Popped
<1> HIDE DEF popped
<1>2. ForkOK(g) /\ << >> \in Seq(Txs) /\ TRUE \in BOOLEAN
  BY <1>1, ForkRemove DEF Clean, Built
<1>3. m = [popped EXCEPT !.fork = RemoveItem(@, HeadId(n))]
  BY <1>1 DEF Clean, Built, Nodes
<1> HIDE DEF g
<1>4. Clean(m) /\ m.log = popped.log
  BY <1>1, <1>2, CleanFlags DEF Clean, Built, Nodes
<1> HIDE DEF m
<1> QED
  BY <1>1, <1>3, <1>4 DEF RewindStep, popped

RewindLoop == INSTANCE FoldTheorems WITH Op <- RewindStep

LEMMA Closed ==
  ASSUME NEW n, Sound(n)
  PROVE  Clean(Close(n)) /\ Close(n).log = n.log
<1> DEFINE clear == Clear(n)
           s     == [k \in 1..HeadNum(n) |-> n.cur.lib]
           K     == {m \in CleanNodes : m.log = n.log}
<1>1. Clean(clear) /\ clear.log = n.log
  BY Cleared
<1>2. HeadNum(n) \in Nat /\ n.cur.lib \in Nat
  BY NodeFields DEF Sound, Built
<1>3. s \in Seq(Nat)
  BY <1>2
<1>4. Close(n) = RewindLoop!Folded(clear, s)
  BY DEF RewindLoop!Folded, RewindLoop!Folds, RewindLoop!Largest, FoldLeft, MapThenFoldSet, Max, Close, Clear
<1> HIDE DEF s, clear
<1>5. \A m \in K : \A x \in Nat : RewindStep(m, x) \in K
  BY CleanMembers, RewindKeeps
<1>6. clear \in K
  BY <1>1, CleanMembers
<1> HIDE DEF K
<1>7. RewindLoop!Folded(clear, s) \in K
  BY <1>3, <1>5, <1>6, RewindLoop!FoldKeeps
<1> QED
  BY <1>4, <1>7, CleanMembers DEF K

(* A node that keeps no undo history yet. *)
Bare(n) == Clean(n) /\ n.undo = << >> /\ n.popped = << >>

LEMMA BareIsSettled ==
  ASSUME NEW n, Bare(n)
  PROVE  Settled(n)
BY CleanIsSound DEF Bare, Settled

(* A node without history is bare when its limits start at its head. *)
LEMMA BareFrom ==
  ASSUME NEW m \in Nodes, ForkOK(m.fork), Acceptable(m.cur.chain), m.cur.applied = ChainTxs(m.cur.chain),
         m.cur.lib <= HeadNum(m), m.undo = << >>, m.session = FALSE, m.popped = << >>, Logged(m),
         m.peak = HeadNum(m)
  PROVE  Bare(m)
<1>1. /\ HeadNum(m) \in Nat /\ HeadNum(m) = Len(m.cur.chain) /\ m.cur.lib \in Nat /\ m.undo_max \in Nat \ {0}
  BY NodeFields
<1>2. Reach(m) = HeadNum(m)
  <2>1. Committed(m) = 0
    BY DEF Committed
  <2> QED
    BY <1>1, <2>1 DEF Reach
<1>3. Stacked(m)
  BY <1>1, <1>2 DEF Stacked
<1>4. Limited(m)
  <2>1. {m.cur} \cup {m.undo[k] : k \in 1..Len(m.undo)} = {m.cur}
    OBVIOUS
  <2>2. m.cur.lib <= Len(m.cur.chain) /\ m.cur.lib <= m.peak
    BY <1>1
  <2>3. HeadNum(m) + 1 <= m.undo_max + m.peak /\ Reach(m) <= m.peak
    BY <1>1, <1>2
  <2> QED
    BY <2>1, <2>2, <2>3 DEF Limited
<1> QED
  BY <1>3, <1>4 DEF Bare, Clean, Built

LEMMA ReplayedWithoutUndo ==
  ASSUME NEW n, Bare(n), NEW b \in {n.log[k] : k \in 1..Len(n.log)}
  PROVE  LET e == ReplayWithoutUndo(n, b)
         IN  /\ Bare(e) /\ e.log = n.log
             /\ n.fork.head = None => e.fork.head = None
             /\ n.ok /\ CanApplyBlock(n, b) /\ b \notin LateBadBlocks =>
                   e.ok /\ e.cur.chain = Append(n.cur.chain, b)
<1> DEFINE size  == Num(b) - n.cur.lib + 1
           f     == SetForkMaxSize(n.fork, size)
           s     == Extended(n.cur, b)
           m     == [n EXCEPT !.undo_max = size, !.fork = f, !.cur = s, !.loaded = Num(b), !.peak = Num(b)]
<1>1. /\ Clean(n) /\ n \in Nodes /\ ForkOK(n.fork) /\ n.undo = << >> /\ n.popped = << >>
      /\ n.session = FALSE /\ HeadNum(n) \in Nat
  BY NodeFields DEF Bare, Clean, Built
<1>0. b \in Blocks
  BY <1>1, NodeFields
<1>2. CASE ~n.ok
  BY <1>2 DEF ReplayWithoutUndo
<1>3. CASE n.ok /\ (~CanApplyBlock(n, b) \/ b \in LateBadBlocks)
  <2>1. ReplayWithoutUndo(n, b) = Throw(n)
    BY <1>3 DEF ReplayWithoutUndo
  <2>2. /\ Clean(Throw(n)) /\ Throw(n).undo = n.undo /\ Throw(n).popped = n.popped /\ Throw(n).log = n.log
        /\ Throw(n).fork = n.fork
    BY <1>1, CleanThrow DEF Throw, Nodes
  <2> QED
    BY <1>1, <1>3, <2>1, <2>2 DEF Bare
<1>4. CASE n.ok /\ CanApplyBlock(n, b) /\ b \notin LateBadBlocks
  <2>1. Num(b) = HeadNum(n) + 1 /\ size \in Nat \ {0}
    BY <1>0, <1>1, <1>4, SizeFits DEF CanApplyBlock
  <2>2. ForkOK(f) /\ f \in ForkDatabases /\ f.head = n.fork.head
    BY <1>1, <2>1, ForkSize, ForkSizeHead DEF ForkOK
  <2>3. /\ s \in States /\ Len(s.chain) = HeadNum(n) + 1 /\ s.chain[HeadNum(n) + 1] = b
        /\ \A k \in 1..HeadNum(n) : s.chain[k] = n.cur.chain[k]
        /\ Acceptable(s.chain) /\ s.applied = ChainTxs(s.chain) /\ s.lib <= Len(s.chain)
        /\ s.chain = Append(n.cur.chain, b)
    BY <1>0, <1>1, <1>4, Extends
  <2>4. ReplayWithoutUndo(n, b) = m
    BY <1>1, <1>4 DEF ReplayWithoutUndo, SetMaxSizes, Nodes
  <2> HIDE DEF size, f, s
  <2>5. /\ m \in Nodes /\ m.cur = s /\ m.undo = << >> /\ m.session = FALSE /\ m.log = n.log
        /\ m.peak = Num(b) /\ m.fork = f /\ m.popped = << >> /\ m.ok = n.ok
    <3>1. s \in States /\ size \in Nat \ {0} /\ f \in ForkDatabases /\ Num(b) \in Nat
      BY <1>1, <2>1, <2>2, <2>3
    <3>2. n \in Nodes /\ n.undo = << >> /\ n.popped = << >> /\ n.session = FALSE
      BY <1>1
    <3> DEFINE k == Num(b)
    <3> HIDE DEF k
    <3>3. k = Num(b) /\ k \in Nat
      BY <3>1 DEF k
    <3>4. [n EXCEPT !.undo_max = size, !.fork = f, !.cur = s, !.loaded = k, !.peak = k] \in Nodes
      BY <3>1, <3>2, <3>3 DEF Nodes
    <3>5. m = [n EXCEPT !.undo_max = size, !.fork = f, !.cur = s, !.loaded = k, !.peak = k]
      BY <3>3
    <3> QED
      BY <3>2, <3>3, <3>4, <3>5 DEF Nodes
  <2> HIDE DEF m
  <2>6. HeadNum(m) = HeadNum(n) + 1
    BY <2>3, <2>5 DEF HeadNum
  <2>7. Logged(m)
    <3>1. /\ n.log \in Seq(Blocks) /\ Len(n.log) \in Nat /\ \A k \in 1..Len(n.log) : Num(n.log[k]) = k
          /\ \A k \in 1..HeadNum(n) : n.log[k] = n.cur.chain[k]
      BY <1>1, NodeFields DEF Clean, Built, Logged
    <3>2. PICK j \in 1..Len(n.log) : b = n.log[j]
      OBVIOUS
    <3>3. j = HeadNum(n) + 1
      BY <2>1, <3>1, <3>2
    <3>4. Len(n.log) >= HeadNum(n) + 1
      BY <1>1, <3>1, <3>2, <3>3
    <3>5. ASSUME NEW k \in 1..(HeadNum(n) + 1) PROVE n.log[k] = s.chain[k]
      <4>1. k \in 1..HeadNum(n) \/ k = HeadNum(n) + 1
        BY <1>1
      <4> QED
        BY <2>3, <3>1, <3>2, <3>3, <4>1
    <3> QED
      BY <2>5, <2>6, <3>1, <3>4, <3>5 DEF Logged
  <2>8. Bare(m)
    BY <2>1, <2>2, <2>3, <2>5, <2>6, <2>7, BareFrom
  <2> QED
    BY <1>4, <2>2, <2>3, <2>4, <2>5, <2>8
<1> QED
  BY <1>1, <1>2, <1>3, <1>4, NodeFields

(* The next block can be pushed: the fork database is empty or its head,    *)
(* which it still has, is that of the chain.                                *)
Ready(n) == n.fork.head = None \/ (n.fork.head = HeadId(n) /\ HeadId(n) \in n.fork.index)

(* A new process has no history. *)
LEMMA StartedBare ==
  ASSUME NEW n, Clean(n)
  PROVE  LET e == Started(n)
         IN  /\ Bare(e) /\ e.log = n.log /\ e.cur = n.cur /\ e.ok
             /\ HeadNum(n) < UndoPoint(n.log) => e.fork.head = None
             /\ Ready(e)
<1> DEFINE head == HeadNum(n)
           empty == EmptyForkDatabase(ForkHistory)
           f == IF head > 0 /\ Len(n.log) > head /\ head >= UndoPoint(n.log)
                THEN StartBlock(empty, n.log[head]) ELSE empty
           none == << >>
           m == [n EXCEPT !.undo = none, !.undo_max = MinUndoHistory, !.session = FALSE,
                          !.pending = none, !.popped = none, !.ok = TRUE,
                          !.loaded = head, !.peak = head, !.fork = f]
<1>1. /\ n \in Nodes /\ head \in Nat /\ head = Len(n.cur.chain) /\ n.log \in Seq(Blocks) /\ n.cur.lib \in Nat
      /\ Len(n.log) \in Nat /\ none \in Seq(Txs) /\ none \in Seq(States)
  BY NodeFields DEF Clean, Built
<1>2. MinUndoHistory \in Nat \ {0} /\ ForkHistory \in Nat
  BY HistoryAssumption
<1>3. Started(n) = m
  BY DEF Started
<1>4. ForkOK(f) /\ f \in ForkDatabases
  <2>1. ForkOK(empty)
    BY <1>2, ForkEmpty
  <2> DEFINE starts == head > 0 /\ Len(n.log) > head /\ head >= UndoPoint(n.log)
  <2>2. CASE starts
    <3>1. n.log[head] \in Blocks
      BY <1>1, <2>2
    <3>2. ForkOK(StartBlock(empty, n.log[head]))
      BY <2>1, <3>1, ForkStart
    <3> QED
      BY <2>2, <3>2 DEF ForkOK
  <2>3. CASE ~starts
    <3>1. f = empty
      BY <2>3
    <3> QED
      BY <2>1, <3>1 DEF ForkOK
  <2> QED
    BY <2>2, <2>3
<1>5. \/ f.head = None
       \/ /\ f.head = HeadId(n) /\ HeadId(n) \in f.index /\ ~ (head < UndoPoint(n.log))
  <2> DEFINE starts == head > 0 /\ Len(n.log) > head /\ head >= UndoPoint(n.log)
  <2>1. empty.head = None /\ empty \in ForkDatabases
    BY <1>2, ForkEmpty DEF ForkOK, EmptyForkDatabase
  <2>2. CASE starts
    <3>1. f = StartBlock(empty, n.log[head])
      BY <2>2
    <3>2. f.head = n.log[head] /\ n.log[head] \in f.index
      BY <2>1, <3>1 DEF StartBlock, ForkDatabases
    <3>3. n.log[head] = n.cur.chain[head] /\ HeadId(n) = n.cur.chain[head]
      BY <1>1, <2>2 DEF Clean, Built, Logged, HeadId, HeadNum, Last
    <3>4. UndoPoint(n.log) \in Int
      BY <1>1, HistoryAssumption DEF UndoPoint
    <3> QED
      BY <1>1, <2>2, <3>2, <3>3, <3>4
  <2>3. CASE ~starts
    BY <2>1, <2>3
  <2> QED
    BY <2>2, <2>3
<1> HIDE DEF f, head, none
<1>6. /\ m \in Nodes /\ m.cur = n.cur /\ m.undo = none /\ m.session = FALSE /\ m.log = n.log
      /\ m.peak = head /\ m.fork = f /\ m.popped = none /\ m.ok
  BY <1>1, <1>2, <1>4 DEF Nodes
<1> HIDE DEF m
<1>7. HeadNum(m) = head
  BY <1>1, <1>6 DEF HeadNum
<1>8. Logged(m)
  BY <1>6 DEF Clean, Built, Logged, HeadNum
<1>9. m.cur.lib <= HeadNum(m)
  BY <1>1, <1>6, <1>7 DEF Clean, Built, Limited
<1>10. Bare(m)
  BY <1>4, <1>6, <1>7, <1>8, <1>9, BareFrom DEF Clean, Built, none
<1>11. Ready(m) /\ (head < UndoPoint(n.log) => m.fork.head = None)
  BY <1>6, <1>5 DEF Ready, HeadId
<1> QED
  BY <1>3, <1>6, <1>10, <1>11 DEF head

DirectLoop == INSTANCE FoldTheorems WITH Op <- ReplayWithoutUndo
ReplayLoop == INSTANCE FoldTheorems WITH Op <- Replay

LEMMA Reopened ==
  ASSUME NEW n, Clean(n)
  PROVE  Settled(Reopen(n))
<1> DEFINE next  == HeadNum(n) + 1
           first == IF next < UndoPoint(n.log) THEN UndoPoint(n.log) ELSE next
           start == Started(n)
           early == SubSeq(n.log, next, first - 1)
           late  == SubSeq(n.log, first, Len(n.log))
           B     == {n.log[k] : k \in 1..Len(n.log)}
           K     == {m \in Nodes : Bare(m) /\ m.log = n.log}
           m     == FoldLeft(ReplayWithoutUndo, start, early)
<1>1. /\ n \in Nodes /\ HeadNum(n) \in Nat /\ n.log \in Seq(Blocks) /\ Len(n.log) \in Nat
  BY NodeFields DEF Clean, Built
<1>2. UndoPoint(n.log) \in Nat /\ UndoPoint(n.log) <= Len(n.log)
  BY <1>1, HistoryAssumption DEF UndoPoint
<1>3. next \in Nat \ {0} /\ first \in Nat \ {0} /\ (first # next => first <= Len(n.log))
  BY <1>1, <1>2
<1>4. Reopen(n) = FoldLeft(Replay, m, late)
  BY DEF Reopen
<1> HIDE DEF next, first
<1>5. early \in Seq(B)
  <2> DEFINE l == n.log
  <2>1. l \in Seq(B)
    <3>1. DOMAIN l = 1..Len(l) /\ l = [k \in 1..Len(l) |-> l[k]] /\ \A k \in 1..Len(l) : l[k] \in B
      BY <1>1
    <3> HIDE DEF B
    <3> QED
      BY <1>1, <3>1
  <2>2. CASE first = next
    <3>1. early = << >> /\ << >> \in Seq(B)
      BY <1>1, <1>3, <2>2
    <3> HIDE DEF early, B
    <3> QED
      BY <3>1
  <2>3. CASE first # next
    <3>1. next \in Nat \ {0} /\ first - 1 \in Int /\ first - 1 <= Len(l)
      BY <1>1, <1>3, <2>3
    <3> HIDE DEF B, l
    <3>2. SubSeq(l, next, first - 1) \in Seq(B)
      BY <2>1, <3>1
    <3> QED
      BY <3>2 DEF l
  <2> QED
    BY <2>2, <2>3
<1>6. late \in Seq(Blocks)
  BY <1>1, <1>3
<1>7. start \in K
  <2>1. Bare(start) /\ start.log = n.log
    BY StartedBare
  <2> QED
    BY <2>1 DEF Bare, Clean, Built
<1>8. \A x \in K : \A b \in B : ReplayWithoutUndo(x, b) \in K
  <2> SUFFICES ASSUME NEW x \in K, NEW b \in B PROVE ReplayWithoutUndo(x, b) \in K
    OBVIOUS
  <2>1. Bare(x) /\ x.log = n.log /\ b \in {x.log[k] : k \in 1..Len(x.log)}
    OBVIOUS
  <2>2. Bare(ReplayWithoutUndo(x, b)) /\ ReplayWithoutUndo(x, b).log = n.log
    BY <2>1, ReplayedWithoutUndo
  <2> QED
    BY <2>2 DEF Bare, Clean, Built
<1> HIDE DEF start, early, late, B
<1>9. m = DirectLoop!Folded(start, early)
  BY DEF DirectLoop!Folded, DirectLoop!Folds, DirectLoop!Largest, FoldLeft, MapThenFoldSet, Max
<1>10. m \in K
  <2> HIDE DEF K, m
  <2> QED
    BY <1>5, <1>7, <1>8, <1>9, DirectLoop!FoldKeeps
<1> HIDE DEF m
<1>11. m \in SettledNodes
  BY <1>10, BareIsSettled, SettledMembers
<1>12. \A x \in SettledNodes : \A b \in Blocks : Replay(x, b) \in SettledNodes
  BY SettledMembers, PushedOne DEF Replay, Settled
<1>13. Reopen(n) = ReplayLoop!Folded(m, late)
  BY <1>4 DEF ReplayLoop!Folded, ReplayLoop!Folds, ReplayLoop!Largest, FoldLeft, MapThenFoldSet, Max
<1>14. ReplayLoop!Folded(m, late) \in SettledNodes
  BY <1>6, <1>11, <1>12, ReplayLoop!FoldKeeps
<1> QED
  BY <1>13, <1>14, SettledMembers

-----------------------------------------------------------------------------
(* The specification *)

LEMMA InitSettled == Init => Settled(node)
<1> SUFFICES ASSUME Init PROVE Settled(node)
  OBVIOUS
<1> DEFINE none == << >>
           f == EmptyForkDatabase(ForkHistory)
<1>1. MinUndoHistory \in Nat \ {0} /\ ForkHistory \in Nat
  BY HistoryAssumption
<1>2. ForkOK(f) /\ f \in ForkDatabases
  BY <1>1, ForkEmpty DEF ForkOK
<1>3. none \in Seq(Txs) /\ none \in Seq(Blocks) /\ none \in Seq(States)
  OBVIOUS
<1>4. /\ node = [cur |-> [chain |-> none, applied |-> {}, lib |-> 0], undo |-> none, undo_max |-> MinUndoHistory,
                 session |-> FALSE, pending |-> none, popped |-> none, fork |-> f, log |-> none, ok |-> TRUE,
                 loaded |-> 0, peak |-> 0]
  BY DEF Init, GenesisState
<1> HIDE DEF none, f
<1>5. [chain |-> none, applied |-> {}, lib |-> 0] \in States
  <2>1. LibOf(none) = 0
    BY LibEmpty DEF none
  <2> QED
    BY <1>3, <2>1 DEF States
<1>6. node \in Nodes
  BY <1>1, <1>2, <1>3, <1>4, <1>5 DEF Nodes
<1>7. /\ node.cur.chain = << >> /\ node.cur.applied = {} /\ node.cur.lib = 0 /\ node.undo = << >> /\ node.session = FALSE
      /\ node.undo_max = MinUndoHistory /\ node.fork = f /\ node.log = << >> /\ node.peak = 0 /\ node.popped = << >>
  BY <1>4 DEF none
<1>8. HeadNum(node) = 0 /\ Reach(node) = 0
  BY <1>7 DEF HeadNum, Reach, Committed
<1>9. Stacked(node)
  BY <1>7, <1>8 DEF Stacked
<1>10. Limited(node)
  <2>1. {node.cur} \cup {node.undo[k] : k \in 1..Len(node.undo)} = {node.cur}
    BY <1>7
  <2>2. node.cur.lib <= Len(node.cur.chain) /\ node.cur.lib <= node.peak
    BY <1>7
  <2>3. HeadNum(node) + 1 <= node.undo_max + node.peak /\ Reach(node) <= node.peak
    BY <1>1, <1>7, <1>8
  <2> QED
    BY <2>1, <2>2, <2>3 DEF Limited
<1>11. Logged(node)
  BY <1>7, <1>8 DEF Logged
<1>12. Acceptable(node.cur.chain) /\ ChainTxs(node.cur.chain) = {}
  BY <1>7, AcceptableEmpty, TxsEmpty
<1> QED
  BY <1>2, <1>6, <1>7, <1>9, <1>10, <1>11, <1>12 DEF Settled, Sound, Built, Explained

LEMMA Validated ==
  ASSUME NEW tx \in Txs, Settled(node), ValidateTransaction(tx)
  PROVE  /\ Settled(node') /\ node'.cur = node.cur /\ node'.pending = node.pending
         /\ node'.fork = node.fork
<1> DEFINE r == PrunedTo(node.undo, node.undo_max)
           c == [node EXCEPT !.undo = r]
           t == TryTx(node, tx)
           m == [c EXCEPT !.undo_max = t.undo_max]
<1>1. Built(node) /\ node \in Nodes /\ node.undo_max \in Nat
  BY NodeFields DEF Settled, Sound, Built
<1>2. UndoSession(OpenSession(node)) = c
  BY <1>1, OpenIs
<1>3. node' = m
  BY <1>2 DEF ValidateTransaction
<1>4. Built(c)
  BY <1>1, CutStack
<1>5. Built(t) /\ t.undo_max >= node.undo_max
  BY <1>1, Try
<1>6. t.undo_max \in Nat \ {0}
  BY <1>5, NodeFields DEF Built
<1> HIDE DEF r, t
<1>7. c.undo_max = node.undo_max /\ c.cur = node.cur /\ c.session = node.session /\ c.pending = node.pending
      /\ c.popped = node.popped /\ c.fork = node.fork
  BY <1>1 DEF Nodes
<1> HIDE DEF c
<1>8. c \in Nodes /\ ForkOK(c.fork)
  BY <1>4 DEF Built
<1>9. /\ m \in Nodes /\ m.cur = c.cur /\ m.undo = c.undo /\ m.session = c.session /\ m.log = c.log
      /\ m.undo_max = t.undo_max /\ m.peak = c.peak /\ m.fork = c.fork /\ m.popped = c.popped
      /\ m.pending = c.pending
  BY <1>6, <1>8 DEF Nodes
<1> HIDE DEF m
<1>10. Built(m)
  BY <1>4, <1>5, <1>7, <1>8, <1>9, BuiltSame
<1>11. Explained(m) /\ m.popped = << >>
  BY <1>7, <1>9 DEF Settled, Sound, Explained
<1> QED
  BY <1>3, <1>7, <1>9, <1>10, <1>11 DEF Settled, Sound

LEMMA StepSettled ==
  ASSUME Settled(node), [Next]_node
  PROVE  Settled(node')
<1>0. Sound(node) /\ node.popped = << >>
  BY DEF Settled
<1>1. ASSUME NEW b \in Blocks, PushBlock(b) PROVE Settled(node')
  BY <1>0, <1>1, PushedOne DEF PushBlock
<1>2. ASSUME NEW tx \in Txs, PushTransaction(tx) PROVE Settled(node')
  BY <1>0, <1>2, Pushed DEF PushTransaction, Settled
<1>3. ASSUME NEW tx \in Txs, ValidateTransaction(tx) PROVE Settled(node')
  BY <1>3, Validated
<1>4. ASSUME NEW b \in Blocks, GenerateBlock(b) PROVE Settled(node')
  <2>1. Sound(Collect(node).n)
    BY <1>0, Collected
  <2> QED
    BY <1>4, <2>1, PushedOne DEF GenerateBlock
<1>5. ASSUME GenerateBlockRefused PROVE Settled(node')
  <2>1. Built(node) /\ (~node.session => node.cur.applied = ChainTxs(node.cur.chain))
    BY <1>0 DEF Sound, Explained
  <2>2. Clean(ResetPending(node)) /\ ResetPending(node).popped = node.popped
    BY <2>1, Reset
  <2> QED
    BY <1>0, <1>5, <2>2, CleanIsSound DEF GenerateBlockRefused, Settled
<1>6. ASSUME Restart PROVE Settled(node')
  BY <1>0, <1>6, Closed, Reopened DEF Restart
<1>7. CASE UNCHANGED node
  BY <1>7
<1> QED
  BY <1>1, <1>2, <1>3, <1>4, <1>5, <1>6, <1>7 DEF Next

(* Between two calls every node is sound, whatever was pushed, produced,    *)
(* switched to, taken back, rewound and replayed.                           *)
THEOREM AlwaysSettled == Spec => []Settled(node)
<1>1. Init => Settled(node)
  BY InitSettled
<1>2. Settled(node) /\ [Next]_node => Settled(node)'
  BY StepSettled
<1> QED
  BY <1>1, <1>2, PTL DEF Spec

-----------------------------------------------------------------------------
(* What the invariant says *)

LEMMA SettledFacts ==
  ASSUME Settled(node)
  PROVE  /\ node \in Nodes /\ ForkOK(node.fork) /\ Acceptable(node.cur.chain) /\ Explained(node)
         /\ Stacked(node) /\ Limited(node) /\ Logged(node) /\ node.popped = << >>
BY DEF Settled, Sound, Built

(* The type invariant of the chain database: every state on the undo stack  *)
(* too has a chain of blocks and an irreversible number within it, and no   *)
(* popped transaction waits once a call has returned.                       *)
THEOREM TypeCorrect == Spec => []TypeOK
<1>1. Settled(node) => TypeOK
  <2> SUFFICES ASSUME Settled(node) PROVE TypeOK
    OBVIOUS
  <2>1. node \in Nodes /\ ForkOK(node.fork) /\ Limited(node) /\ node.popped = << >>
    BY SettledFacts
  <2>2. /\ node.undo_max \in Nat \ {0} /\ node.pending \in Seq(Txs) /\ node.undo \in Seq(States)
        /\ node.cur \in States
    BY <2>1, NodeFields
  <2>3. node.fork \in ForkDatabases /\ node.fork.linked \subseteq node.fork.index
    BY <2>1 DEF ForkOK
  <2>4. ASSUME NEW s \in ToSet(node.undo) \cup {node.cur}
        PROVE  s.chain \in Seq(Blocks) /\ s.applied \subseteq Txs /\ s.lib \in 0..Len(s.chain)
    <3> DEFINE u == node.undo
    <3>1. u \in Seq(States) /\ DOMAIN u = 1..Len(u)
      BY <2>2
    <3>2. s \in States /\ s \in {node.cur} \cup {node.undo[k] : k \in 1..Len(node.undo)}
      BY <2>2, <3>1 DEF ToSet
    <3>3. s.chain \in Seq(Blocks) /\ s.applied \subseteq Txs /\ s.lib \in Nat
      BY <3>2 DEF States
    <3>4. s.lib <= Len(s.chain)
      BY <2>1, <3>2 DEF Limited
    <3> QED
      BY <3>3, <3>4
  <2> QED
    BY <2>1, <2>2, <2>3, <2>4 DEF TypeOK
<1> QED
  BY <1>1, AlwaysSettled, PTL

(* The database holds the effects of the applied blocks and of the pending  *)
(* transactions, and each copy on the undo stack those of a prefix of the   *)
(* chain: however pop_block, a failed fork switch, close() and the pending  *)
(* session follow each other, what they undo is what a block had done.      *)
THEOREM StateFollows == Spec => []StateFollowsChain
<1>1. Settled(node) => StateFollowsChain
  <2> SUFFICES ASSUME Settled(node) PROVE StateFollowsChain
    OBVIOUS
  <2>1. node \in Nodes /\ Explained(node) /\ Stacked(node)
    BY SettledFacts
  <2>2. HeadNum(node) \in Nat /\ Committed(node) \in Int
    BY <2>1, NodeFields DEF Committed
  <2>3. ASSUME NEW k \in 1..Len(node.undo)
        PROVE  /\ node.undo[k].chain = SubSeq(node.cur.chain, 1, HeadNum(node) - (Committed(node) - k) - 1)
               /\ node.undo[k].applied = ChainTxs(node.undo[k].chain)
    <3>1. HeadNum(node) - (Committed(node) - k) - 1 = Reach(node) + k - 1
      BY <2>2 DEF Reach
    <3> QED
      BY <2>1, <3>1 DEF Stacked
  <2> QED
    BY <2>1, <2>3 DEF StateFollowsChain, Explained
<1> QED
  BY <1>1, AlwaysSettled, PTL

(* The chain is a path of blocks that were all acceptable on their parents, *)
(* also after the way back from a switch to a bad fork and after a replay.  *)
THEOREM ChainValid == Spec => []ChainIsValid
<1>1. Settled(node) => ChainIsValid
  <2> SUFFICES ASSUME Settled(node) PROVE ChainIsValid
    OBVIOUS
  <2>1. Acceptable(node.cur.chain)
    BY SettledFacts
  <2> QED
    BY <2>1 DEF ChainIsValid, Acceptable, HeadNum
<1> QED
  BY <1>1, AlwaysSettled, PTL

(* The block log agrees with the chain at every number, although a block of *)
(* another fork overwrites the log and pop_block does not touch it.         *)
THEOREM LogFollows == Spec => []LogFollowsChain
<1>1. Settled(node) => LogFollowsChain
  BY SettledFacts DEF Logged, LogFollowsChain
<1> QED
  BY <1>1, AlwaysSettled, PTL

(* The undo stack reaches back to the highest irreversible block there has  *)
(* been, or to the state that this process started from: the size limit     *)
(* that update_global_dynamic_data sets never cuts the history above it,    *)
(* with pending sessions and proposals that raise the limit in between.     *)
THEOREM RewindsToIrreversible == Spec => []CanRewindToIrreversible
<1>1. Settled(node) => CanRewindToIrreversible
  BY SettledFacts DEF Limited, Reach, CanRewindToIrreversible
<1> QED
  BY <1>1, AlwaysSettled, PTL

-----------------------------------------------------------------------------
(* No transaction is lost *)

(* While a block is pushed, the transactions of the chain that there was are *)
(* in the chain or among those of the popped blocks.                        *)
Holding(T) == {n \in CleanNodes : T \subseteq ChainTxs(n.cur.chain) \cup ToSet(n.popped)}

LEMMA StableHolding ==
  ASSUME NEW T
  PROVE  Stable(Holding(T))
<1> SUFFICES ASSUME NEW n, Clean(n), T \subseteq ChainTxs(n.cur.chain) \cup ToSet(n.popped)
             PROVE  /\ PopBlock(n) \in Holding(T)
                    /\ \A b \in Blocks : ApplyBlock(n, b) \in Holding(T)
                    /\ \A ok \in BOOLEAN : [n EXCEPT !.ok = ok] \in Holding(T)
                    /\ \A f : ForkOK(f) => [n EXCEPT !.fork = f] \in Holding(T)
  BY CleanMembers DEF Stable, Holding
<1>1. n \in Nodes /\ n.cur.chain \in Seq(Blocks) /\ n.popped \in Seq(Txs) /\ HeadNum(n) = Len(n.cur.chain)
  BY NodeFields DEF Clean, Built
<1>2. PopBlock(n) \in Holding(T)
  <2> DEFINE m == PopBlock(n)
  <2>1. /\ Clean(m)
        /\ ~m.ok => m.cur = n.cur /\ m.popped = n.popped
        /\ m.ok => /\ HeadNum(n) \in Nat \ {0}
                   /\ m.cur.chain = SubSeq(n.cur.chain, 1, HeadNum(n) - 1)
                   /\ m.popped = TxsOf[HeadId(n)] \o n.popped
    BY Popped
  <2> HIDE DEF m
  <2>2. CASE ~m.ok
    BY <2>1, <2>2, CleanMembers DEF Holding, m
  <2>3. CASE m.ok
    <3>1. n.cur.chain # << >> /\ HeadId(n) = Last(n.cur.chain)
      BY <1>1, <2>1, <2>3 DEF HeadId
    <3>2. ChainTxs(n.cur.chain) = ChainTxs(m.cur.chain) \cup ToSet(TxsOf[HeadId(n)])
      BY <1>1, <2>1, <2>3, <3>1, TxsLast
    <3>3. TxsOf[HeadId(n)] \in Seq(Txs)
      BY <1>1, <3>1, TxAssumption DEF Last
    <3>4. ToSet(m.popped) = ToSet(TxsOf[HeadId(n)]) \cup ToSet(n.popped)
      <4> DEFINE t == TxsOf[HeadId(n)]
                 q == n.popped
      <4>1. t \in Seq(Txs) /\ q \in Seq(Txs)
        BY <1>1, <3>3
      <4>2. m.popped = t \o q
        BY <2>1, <2>3
      <4> HIDE DEF t, q
      <4>3. ToSet(t \o q) = ToSet(t) \cup ToSet(q)
        BY <4>1, ToSetConcat
      <4> QED
        BY <4>2, <4>3 DEF t, q
    <3> QED
      BY <2>1, <3>2, <3>4, CleanMembers DEF Holding, m
  <2> QED
    BY <2>2, <2>3
<1>3. ASSUME NEW b \in Blocks PROVE ApplyBlock(n, b) \in Holding(T)
  <2> DEFINE m == ApplyBlock(n, b)
  <2>1. /\ Clean(m) /\ m.popped = n.popped
        /\ m.ok => m.cur.chain = Append(n.cur.chain, b)
        /\ ~m.ok => m.cur.chain = n.cur.chain
    BY Applied
  <2> HIDE DEF m
  <2>2. ChainTxs(n.cur.chain) \subseteq ChainTxs(m.cur.chain)
    BY <1>1, <2>1, TxsAppend
  <2> QED
    BY <2>1, <2>2, CleanMembers DEF Holding, m
<1>4. ASSUME NEW ok \in BOOLEAN PROVE [n EXCEPT !.ok = ok] \in Holding(T)
  <2>1. [n EXCEPT !.ok = ok] \in CleanNodes
    BY CleanMembers, StableClean DEF Stable
  <2> QED
    BY <1>1, <2>1 DEF Holding, Nodes
<1>5. ASSUME NEW f, ForkOK(f) PROVE [n EXCEPT !.fork = f] \in Holding(T)
  <2>1. [n EXCEPT !.fork = f] \in CleanNodes
    BY <1>5, CleanMembers, StableClean DEF Stable
  <2> QED
    BY <1>1, <2>1 DEF Holding, Nodes
<1> QED
  BY <1>2, <1>3, <1>4, <1>5

(* What was in the chain or waited before push_block cannot be applied after *)
(* it: it has been, or something that it conflicts with has.                *)
LEMMA PushLosesNone ==
  ASSUME NEW n, Sound(n), n.popped = << >>, NEW b \in Blocks,
         NEW tx \in ChainTxs(n.cur.chain) \cup ToSet(n.pending)
  PROVE  ~CanApplyTx(tx, PushedBlock(n, b).cur.applied)
<1> DEFINE T == ChainTxs(n.cur.chain)
           c == Clear(n)
           p == PushToChain(c, b)
           m == PushedBlock(n, b)
<1>1. Clean(c) /\ c.cur.chain = n.cur.chain
  BY Cleared
<1>2. c \in Holding(T)
  BY <1>1, CleanMembers DEF Holding
<1> HIDE DEF c
<1>3. p \in Holding(T)
  BY <1>2, StableHolding, PushedToChain
<1>4. /\ Clean(p) /\ p.cur.applied \subseteq m.cur.applied
      /\ \A x \in ToSet(p.popped) \cup ToSet(n.pending) : ~CanApplyTx(x, m.cur.applied)
  BY PushedOne DEF c
<1> HIDE DEF p, m
<1>5. CASE tx \in ChainTxs(p.cur.chain)
  <2>1. tx \in m.cur.applied
    BY <1>4, <1>5 DEF Clean
  <2> QED
    BY <2>1 DEF CanApplyTx, m
<1>6. CASE tx \notin ChainTxs(p.cur.chain)
  <2>1. tx \in ToSet(p.popped) \cup ToSet(n.pending)
    BY <1>3, <1>6 DEF Holding
  <2> QED
    BY <1>4, <2>1 DEF m
<1> QED
  BY <1>5, <1>6

(* A transaction that was applied or pending and is not any more cannot be  *)
(* applied: what fork switches pop, what a failed push puts back and what a *)
(* produced block takes or leaves all ends in the chain, among the pending  *)
(* transactions, or in conflict with one that does.                         *)
THEOREM NoneLost == Spec => NoTransactionLost
<1> DEFINE A == ~Restart =>
                  \A tx \in node.cur.applied \cup ToSet(node.pending) :
                     \/ tx \in node'.cur.applied \cup ToSet(node'.pending)
                     \/ ~CanApplyTx(tx, node'.cur.applied)
<1>1. ASSUME Settled(node), Next, ~Restart,
             NEW tx \in node.cur.applied \cup ToSet(node.pending)
      PROVE  tx \in node'.cur.applied \cup ToSet(node'.pending) \/ ~CanApplyTx(tx, node'.cur.applied)
  <2>1. /\ Sound(node) /\ node.popped = << >> /\ Built(node)
        /\ (~node.session => node.cur.applied = ChainTxs(node.cur.chain))
        /\ tx \in ChainTxs(node.cur.chain) \cup ToSet(node.pending)
    BY <1>1 DEF Settled, Sound, Explained
  <2>2. ASSUME NEW b \in Blocks, PushBlock(b) PROVE ~CanApplyTx(tx, node'.cur.applied)
    BY <2>1, <2>2, PushLosesNone DEF PushBlock
  <2>3. ASSUME NEW b \in Blocks, GenerateBlock(b) PROVE ~CanApplyTx(tx, node'.cur.applied)
    <3> DEFINE c == Collect(node).n
    <3>1. Sound(c) /\ c.cur.chain = node.cur.chain /\ c.pending = node.pending /\ c.popped = node.popped
      BY <2>1, Collected
    <3>2. node' = PushedBlock(c, b)
      BY <2>3 DEF GenerateBlock
    <3> HIDE DEF c
    <3> QED
      BY <2>1, <3>1, <3>2, PushLosesNone
  <2>4. ASSUME NEW x \in Txs, PushTransaction(x)
        PROVE  tx \in node'.cur.applied \cup ToSet(node'.pending)
    BY <1>1, <2>1, <2>4, Pushed DEF PushTransaction
  <2>5. ASSUME NEW x \in Txs, ValidateTransaction(x)
        PROVE  tx \in node'.cur.applied \cup ToSet(node'.pending)
    BY <1>1, <2>5, Validated
  <2>6. ASSUME GenerateBlockRefused
        PROVE  tx \in node'.cur.applied \cup ToSet(node'.pending)
    <3> DEFINE m == ResetPending(node)
    <3>1. Clean(m) /\ m.cur.chain = node.cur.chain /\ m.pending = node.pending
      BY <2>1, Reset
    <3>2. node' = m
      BY <2>6 DEF GenerateBlockRefused
    <3> HIDE DEF m
    <3> QED
      BY <2>1, <3>1, <3>2 DEF Clean
  <2> QED
    BY <1>1, <2>2, <2>3, <2>4, <2>5, <2>6 DEF Next
<1>2. Settled(node) /\ [Next]_node => [A]_node
  BY <1>1
<1>3. NoTransactionLost <=> [][A]_node
  BY PTL DEF NoTransactionLost
<1> HIDE DEF A
<1> QED
  BY <1>2, <1>3, AlwaysSettled, PTL DEF Spec

-----------------------------------------------------------------------------
(* The heads of the two databases *)

LEMMA ParentNumber ==
  ASSUME NEW b \in Blocks
  PROVE  Num(b) \in Nat \ {0} /\ Num(Parent[b]) \in Nat /\ Num(b) = Num(Parent[b]) + 1
BY NumberFacts DEF Num

LEMMA HeadAppended ==
  ASSUME NEW n, NEW c \in Seq(Blocks), NEW b \in Blocks, n.cur.chain = Append(c, b)
  PROVE  HeadId(n) = b
<1>1. Append(c, b) # << >> /\ Last(Append(c, b)) = b
  BY FrontLast
<1> QED
  BY <1>1 DEF HeadId

(* A switch that succeeds ends at the head of the fork database: that is    *)
(* above every block that gets popped, so that no pop moves it.             *)
LEMMA SwitchArrives ==
  ASSUME NEW n, Clean(n), n.fork.head \in n.fork.index, Num(n.fork.head) > HeadNum(n),
         SwitchFork(n, n.fork.head).ok
  PROVE  LET m == SwitchFork(n, n.fork.head)
         IN  m.fork.head = HeadId(m) /\ HeadId(m) \in m.fork.index
<1> DEFINE h      == n.fork.head
           base   == BranchBase(h, HeadId(n))
           first  == Branch(h, base)
           target == Parent[first[1]]
           rewound == PopBlocksTo(n, target)
           m      == SwitchFork(n, h)
           Rewinding == {x \in CleanNodes : x.fork = n.fork /\ HeadNum(x) <= HeadNum(n)}
           Arriving(k) == {x \in CleanNodes : /\ x.fork.head = h /\ h \in x.fork.index
                                              /\ k # 0 /\ x.ok => HeadId(x) = first[k]}
           K == [k \in Nat |-> Arriving(k)]
<1>1. n \in Nodes /\ h \in Blocks /\ HeadNum(n) \in Nat
  BY NodeFields DEF Clean, Built, ForkOK, ForkDatabases
<1>2. /\ base \in Nat \ {0} /\ base <= Number[h] /\ Num(target) \in Nat
      /\ m = ApplyBlocks(rewound, first)
  BY <1>1, CleanMembers, StableClean, Switched
<1> HIDE DEF base
<1>3. first \in Seq(Blocks) /\ Len(first) \in Nat \ {0} /\ first[Len(first)] = h
  BY <1>1, <1>2, BranchIs
<1> HIDE DEF first, target
<1>4. ASSUME NEW x \in Rewinding PROVE PopBlock(x) \in Rewinding
  <2> DEFINE y == PopBlock(x)
  <2>1. Clean(x) /\ x.fork = n.fork /\ HeadNum(x) <= HeadNum(n)
    BY CleanMembers
  <2>2. x.cur.chain \in Seq(Blocks) /\ HeadNum(x) \in Nat /\ HeadNum(x) = Len(x.cur.chain)
        /\ Acceptable(x.cur.chain)
    BY <2>1, NodeFields DEF Clean, Built
  <2>3. Num(HeadId(x)) = HeadNum(x)
    BY <2>2, HeadNumber
  <2>4. x.fork.head # HeadId(x)
    BY <1>1, <2>1, <2>2, <2>3
  <2>5. /\ Clean(y) /\ y.fork = x.fork
        /\ ~y.ok => y.cur = x.cur
        /\ y.ok => HeadNum(x) \in Nat \ {0} /\ y.cur.chain = SubSeq(x.cur.chain, 1, HeadNum(x) - 1)
    BY <2>1, <2>4, Popped
  <2> HIDE DEF y
  <2>6. HeadNum(y) <= HeadNum(x) /\ HeadNum(y) \in Nat
    <3>1. CASE ~y.ok
      BY <2>2, <2>5, <3>1 DEF HeadNum
    <3>2. CASE y.ok
      <4>1. HeadNum(x) - 1 \in 0..Len(x.cur.chain)
        BY <2>2, <2>5, <3>2
      <4>2. Len(y.cur.chain) = HeadNum(x) - 1
        BY <2>2, <2>5, <3>2, <4>1, Prefix
      <4> QED
        BY <2>2, <2>5, <3>2, <4>2 DEF HeadNum
    <3> QED
      BY <3>1, <3>2
  <2>7. HeadNum(y) <= HeadNum(n)
    BY <1>1, <2>1, <2>2, <2>6
  <2> QED
    BY <2>1, <2>5, <2>7, CleanMembers DEF y
<1>5. rewound \in Rewinding
  <2>1. n \in Rewinding
    BY <1>1, CleanMembers
  <2> HIDE DEF Rewinding
  <2> QED
    BY <1>1, <1>2, <1>4, <2>1, PoppedAll
<1>6. rewound \in K[0]
  BY <1>5
<1>7. ASSUME NEW k \in 1..Len(first), NEW x \in K[k - 1] PROVE ApplyBlock(x, first[k]) \in K[k]
  <2> DEFINE b == first[k]
             y == ApplyBlock(x, b)
  <2>1. b \in Blocks /\ k \in Nat /\ k # 0 /\ k - 1 \in Nat
    BY <1>3
  <2>2. Clean(x) /\ x.fork.head = h /\ h \in x.fork.index
    BY <2>1, CleanMembers
  <2> HIDE DEF b
  <2>3. /\ Clean(y) /\ y.fork.head = x.fork.head
        /\ x.fork.head \in x.fork.index => y.fork.head \in y.fork.index
        /\ y.ok => y.cur.chain = Append(x.cur.chain, b)
    BY <2>1, <2>2, Applied
  <2>4. x.cur.chain \in Seq(Blocks)
    BY <2>2, NodeFields DEF Clean, Built
  <2> HIDE DEF y
  <2>5. y.ok => HeadId(y) = b
    BY <2>1, <2>3, <2>4, HeadAppended
  <2>6. y \in Arriving(k)
    BY <2>2, <2>3, <2>5, CleanMembers DEF b
  <2> QED
    BY <2>1, <2>6 DEF y, b
<1>8. m = BlockLoop!Folded(rewound, first)
  BY <1>2 DEF BlockLoop!Folded, BlockLoop!Folds, BlockLoop!Largest, FoldLeft, MapThenFoldSet, Max, ApplyBlocks
<1> HIDE DEF rewound, m, K
<1>9. BlockLoop!Folded(rewound, first) \in K[Len(first)]
  BY <1>3, <1>6, <1>7, BlockLoop!FoldSteps
<1>10. m \in Arriving(Len(first))
  BY <1>3, <1>8, <1>9 DEF K
<1> QED
  BY <1>3, <1>10 DEF m

(* _push_block keeps the heads together when it succeeds. *)
LEMMA PushTogether ==
  ASSUME NEW n, Clean(n), HeadsAgree(n), NEW b \in Blocks, PushToChain(n, b).ok
  PROVE  HeadsAgree(PushToChain(n, b))
<1> DEFINE p == PushItem(n.fork, b)
           m == [n EXCEPT !.fork = p]
           applied == ApplyBlock(m, b)
           failed  == [applied EXCEPT !.fork = RemoveItem(@, b)]
<1>1. /\ n \in Nodes /\ ForkOK(n.fork) /\ n.cur.chain \in Seq(Blocks) /\ HeadNum(n) \in Nat
      /\ HeadNum(n) = Len(n.cur.chain) /\ Acceptable(n.cur.chain)
  BY NodeFields DEF Clean, Built
<1>2. Num(HeadId(n)) = HeadNum(n)
  BY <1>1, HeadNumber
<1>3. /\ n.fork.head = None \/ Num(b) > Num(n.fork.head) => p.head = b /\ b \in p.index
      /\ ~ (n.fork.head = None \/ Num(b) > Num(n.fork.head)) =>
            p.head = n.fork.head /\ n.fork.index \subseteq p.index
      /\ ForkOK(p)
  BY <1>1, ForkPush, ForkPushHead
<1>4. PushToChain(n, b) =
         IF ~CanPush(n.fork, b) THEN Throw(n)
         ELSE IF Parent[p.head] = HeadId(n) THEN IF applied.ok THEN applied ELSE failed
         ELSE IF Num(p.head) > HeadNum(n) THEN SwitchFork(m, p.head) ELSE m
  BY <1>1, PushToChainIs
<1> HIDE DEF p
<1>5. Clean(m)
  BY <1>3, CleanMembers, StableClean DEF Stable
<1>6. m.cur = n.cur /\ m.fork = p /\ HeadId(m) = HeadId(n) /\ HeadNum(m) = HeadNum(n) /\ ~Throw(n).ok
  BY <1>1 DEF Nodes, HeadId, HeadNum, Throw
<1> HIDE DEF m
<1>7. Clean(applied)
  BY <1>5, Applied
<1>8. failed.ok = applied.ok
  BY <1>7 DEF Clean, Built, Nodes
<1> HIDE DEF failed
<1>9. n.fork.head = None => HeadNum(n) = 0
  BY <1>1, NoneAssumption DEF HeadsAgree, HeadId, Last
<1>10. n.fork.head # None => n.fork.head = HeadId(n) /\ HeadId(n) \in n.fork.index
  BY DEF HeadsAgree
<1>11. Num(b) \in Nat \ {0} /\ Num(Parent[b]) \in Nat /\ Num(b) = Num(Parent[b]) + 1
  BY ParentNumber
<1>12. CASE Parent[p.head] = HeadId(n)
  <2>1. p.head = b /\ b \in p.index
    <3> SUFFICES ASSUME p.head = n.fork.head, n.fork.head # None PROVE FALSE
      BY <1>3
    <3>1. HeadId(n) \in Blocks /\ Parent[HeadId(n)] = HeadId(n)
      BY <1>1, <1>10, <1>12 DEF ForkOK, ForkDatabases
    <3>2. Num(HeadId(n)) \in Nat /\ Num(HeadId(n)) = Num(HeadId(n)) + 1
      BY <3>1, ParentNumber
    <3> QED
      BY <3>2
  <2>2. PushToChain(n, b) = applied /\ applied.ok
    BY <1>4, <1>6, <1>8, <1>12
  <2>3. /\ applied.fork.head = m.fork.head
        /\ m.fork.head \in m.fork.index => applied.fork.head \in applied.fork.index
        /\ applied.cur.chain = Append(m.cur.chain, b)
    BY <1>5, <2>2, Applied
  <2> HIDE DEF applied
  <2>4. HeadId(applied) = b
    BY <1>1, <1>6, <2>3, HeadAppended
  <2> QED
    BY <1>6, <2>1, <2>2, <2>3, <2>4 DEF HeadsAgree
<1>13. CASE Parent[p.head] # HeadId(n) /\ Num(p.head) > HeadNum(n)
  <2>1. p.head = b /\ b \in p.index
    <3> SUFFICES ASSUME p.head = n.fork.head, n.fork.head # None PROVE FALSE
      BY <1>3
    <3> QED
      BY <1>1, <1>2, <1>10, <1>13
  <2>2. PushToChain(n, b) = SwitchFork(m, p.head)
    BY <1>4, <1>6, <1>13
  <2>3. m.fork.head \in m.fork.index /\ Num(m.fork.head) > HeadNum(m) /\ SwitchFork(m, m.fork.head).ok
    BY <1>6, <1>13, <2>1, <2>2
  <2> QED
    BY <1>5, <1>6, <2>2, <2>3, SwitchArrives DEF HeadsAgree
<1>14. CASE Parent[p.head] # HeadId(n) /\ ~ (Num(p.head) > HeadNum(n))
  <2>1. PushToChain(n, b) = m
    BY <1>4, <1>6, <1>14
  <2>2. n.fork.head # None /\ ~ (Num(b) > Num(n.fork.head))
    BY <1>1, <1>2, <1>3, <1>9, <1>10, <1>11, <1>14
  <2> QED
    BY <1>3, <1>6, <1>10, <2>1, <2>2 DEF HeadsAgree
<1> QED
  BY <1>12, <1>13, <1>14

LEMMA PushedTogether ==
  ASSUME NEW n, Sound(n), HeadsAgree(n), NEW b \in Blocks, PushedBlock(n, b).ok
  PROVE  HeadsAgree(PushedBlock(n, b))
<1> DEFINE c == Clear(n)
           p == PushToChain(c, b)
           m == PushedBlock(n, b)
<1>1. Clean(c) /\ c.cur.chain = n.cur.chain /\ c.fork = n.fork
  BY Cleared
<1>2. m.cur.chain = p.cur.chain /\ m.fork = p.fork /\ m.ok = p.ok
  BY PushedOne
<1> HIDE DEF c, m
<1>3. HeadsAgree(c)
  BY <1>1 DEF HeadsAgree, HeadId
<1>4. HeadsAgree(p)
  BY <1>1, <1>2, <1>3, PushTogether DEF m
<1> HIDE DEF p
<1> QED
  BY <1>2, <1>4 DEF HeadsAgree, HeadId, m

(* Pushes that succeed, among them every switch to a longer fork, produced  *)
(* blocks and what is done with transactions keep the head of the fork      *)
(* database and the head of the chain together.                             *)
THEOREM HeadsTogether == Spec => HeadsStayTogether
<1> DEFINE A == HeadsAgree(node) /\ node'.ok /\ ~Restart => HeadsAgree(node')
<1>1. ASSUME Settled(node), Next, HeadsAgree(node), node'.ok, ~Restart
      PROVE  HeadsAgree(node')
  <2>1. /\ Sound(node) /\ Built(node)
        /\ (~node.session => node.cur.applied = ChainTxs(node.cur.chain))
    BY <1>1 DEF Settled, Sound, Explained
  <2>2. ASSUME node'.cur.chain = node.cur.chain, node'.fork = node.fork PROVE HeadsAgree(node')
    BY <1>1, <2>2 DEF HeadsAgree, HeadId
  <2>3. ASSUME NEW b \in Blocks, PushBlock(b) PROVE HeadsAgree(node')
    BY <1>1, <2>1, <2>3, PushedTogether DEF PushBlock
  <2>4. ASSUME NEW b \in Blocks, GenerateBlock(b) PROVE HeadsAgree(node')
    <3> DEFINE c == Collect(node).n
    <3>1. Sound(c) /\ c.cur.chain = node.cur.chain /\ c.fork = node.fork
      BY <2>1, Collected
    <3>2. node' = PushedBlock(c, b)
      BY <2>4 DEF GenerateBlock
    <3> HIDE DEF c
    <3>3. HeadsAgree(c)
      BY <1>1, <3>1 DEF HeadsAgree, HeadId
    <3> QED
      BY <1>1, <3>1, <3>2, <3>3, PushedTogether
  <2>5. ASSUME NEW x \in Txs, PushTransaction(x) PROVE HeadsAgree(node')
    BY <2>1, <2>2, <2>5, Pushed DEF PushTransaction
  <2>6. ASSUME NEW x \in Txs, ValidateTransaction(x) PROVE HeadsAgree(node')
    BY <1>1, <2>2, <2>6, Validated
  <2>7. ASSUME GenerateBlockRefused PROVE HeadsAgree(node')
    BY <2>1, <2>2, <2>7, Reset DEF GenerateBlockRefused
  <2> QED
    BY <1>1, <2>3, <2>4, <2>5, <2>6, <2>7 DEF Next
<1>2. Settled(node) /\ [Next]_node => [A]_node
  BY <1>1
<1>3. HeadsStayTogether <=> [][A]_node
  BY PTL DEF HeadsStayTogether
<1> HIDE DEF A
<1> QED
  BY <1>2, <1>3, AlwaysSettled, PTL DEF Spec

-----------------------------------------------------------------------------
(* Extending the chain, and getting it back *)

(* What fits the chain of a node without pending transactions can be        *)
(* applied to it.                                                           *)
LEMMA FitsApplies ==
  ASSUME NEW n, Clean(n), NEW b \in Blocks, Fits(n.cur.chain, b)
  PROVE  CanApplyBlock(n, b) /\ b \notin LateBadBlocks
<1>1. /\ n \in Nodes /\ n.cur.applied = ChainTxs(n.cur.chain) /\ n.cur.lib = LibOf(n.cur.chain)
      /\ HeadNum(n) = Len(n.cur.chain) /\ HeadNum(n) \in Nat
  BY NodeFields DEF Clean, Built
<1>2. /\ b \notin BadBlocks \cup LateBadBlocks /\ Parent[b] = HeadId(n)
      /\ CanApplyTxs(TxsOf[b], n.cur.applied)
      /\ (Len(n.cur.chain) + 1) - n.cur.lib < MaxUndoHistory
  BY <1>1 DEF Fits, HeadId
<1>3. Num(b) = HeadNum(n) + 1
  BY <1>2, SizeFits
<1>4. Num(b) - n.cur.lib < MaxUndoHistory
  BY <1>1, <1>2, <1>3
<1> QED
  BY <1>2, <1>4 DEF CanApplyBlock

(* A good block on top of the head of a node that is ready for it is        *)
(* accepted, and the node is ready for the next one.                        *)
LEMMA PushExtends ==
  ASSUME NEW n, Sound(n), Ready(n), NEW b \in Blocks, Fits(n.cur.chain, b)
  PROVE  LET m == PushedBlock(n, b)
         IN  m.ok /\ m.cur.chain = Append(n.cur.chain, b) /\ Ready(m)
<1> DEFINE c == Clear(n)
           f == c.fork
           p == PushItem(f, b)
           o == [c EXCEPT !.fork = p]
           a == ApplyBlock(o, b)
           m == PushedBlock(n, b)
<1>1. Clean(c) /\ c.cur.chain = n.cur.chain /\ c.fork = n.fork /\ c.ok
  BY Cleared
<1> HIDE DEF c
<1>2. /\ c \in Nodes /\ ForkOK(f) /\ c.cur.chain \in Seq(Blocks) /\ HeadNum(c) = Len(c.cur.chain)
      /\ HeadNum(c) \in Nat /\ f.max_size \in Nat /\ c.cur.lib = LibOf(c.cur.chain)
  BY <1>1, NodeFields DEF Clean, Built, ForkOK, ForkDatabases
<1>3. /\ b \notin BadBlocks \cup LateBadBlocks /\ Parent[b] = HeadId(c)
      /\ CanApplyTxs(TxsOf[b], ChainTxs(c.cur.chain))
      /\ (Len(c.cur.chain) + 1) - LibOf(c.cur.chain) < MaxUndoHistory
  BY <1>1 DEF Fits, HeadId
<1>4. Num(b) = HeadNum(c) + 1
  BY <1>1, <1>3, SizeFits
<1>5. Num(b) \in Nat \ {0} /\ Num(Parent[b]) \in Nat /\ Num(b) = Num(Parent[b]) + 1
  BY ParentNumber
<1>6. f.head = None \/ (f.head = Parent[b] /\ Parent[b] \in f.index)
  BY <1>1, <1>3 DEF Ready, HeadId
<1>7. CanPush(f, b)
  <2>1. f.head # None => Num(b) > Oldest(Num(f.head), f.max_size)
    BY <1>2, <1>5, <1>6 DEF Oldest
  <2> QED
    BY <1>6, <2>1 DEF CanPush
<1>8. p.head = b /\ b \in p.index /\ ForkOK(p)
  <2>1. f.head = None \/ Num(b) > Num(f.head)
    BY <1>5, <1>6
  <2> QED
    BY <1>2, <2>1, ForkPush, ForkPushHead
<1>9. PushToChain(c, b) =
         IF ~CanPush(f, b) THEN Throw(c)
         ELSE IF Parent[p.head] = HeadId(c)
         THEN IF a.ok THEN a ELSE [a EXCEPT !.fork = RemoveItem(@, b)]
         ELSE IF Num(p.head) > HeadNum(c) THEN SwitchFork(o, p.head) ELSE o
  BY <1>2, PushToChainIs
<1> HIDE DEF p
<1>10. Clean(o)
  BY <1>1, <1>8, CleanMembers, StableClean DEF Stable
<1>11. o.cur = c.cur /\ o.fork = p /\ o.ok = c.ok
  BY <1>2 DEF Nodes
<1> HIDE DEF o
<1>12. CanApplyBlock(o, b)
  BY <1>1, <1>10, <1>11, FitsApplies
<1>13. a.ok /\ a.cur.chain = Append(c.cur.chain, b) /\ a.fork.head = b /\ b \in a.fork.index
  <2>1. o.ok /\ b \notin LateBadBlocks
    BY <1>1, <1>3, <1>11
  <2>2. /\ a.fork.head = o.fork.head
        /\ o.fork.head \in o.fork.index => a.fork.head \in a.fork.index
        /\ a.ok => a.cur.chain = Append(o.cur.chain, b)
        /\ o.ok /\ CanApplyBlock(o, b) /\ b \notin LateBadBlocks => a.ok
    BY <1>10, Applied
  <2> HIDE DEF a
  <2> QED
    BY <1>8, <1>11, <1>12, <2>1, <2>2
<1> HIDE DEF a
<1>14. PushToChain(c, b) = a
  BY <1>3, <1>7, <1>8, <1>9, <1>13
<1>15. m.cur.chain = a.cur.chain /\ m.fork = a.fork /\ m.ok = a.ok
  BY <1>14, PushedOne DEF c
<1> HIDE DEF m
<1>16. HeadId(m) = b
  BY <1>2, <1>13, <1>15, HeadAppended
<1> QED
  BY <1>1, <1>13, <1>15, <1>16 DEF Ready, m

(* What can be applied after more can be applied after less. *)
LEMMA TxsFewer ==
  ASSUME NEW txs, NEW A, NEW B, A \subseteq B, CanApplyTxs(txs, B)
  PROVE  CanApplyTxs(txs, A)
BY DEF CanApplyTxs, CanApplyTx

(* A node whose heads agree is not stuck: it accepts every good block on    *)
(* top of its head, also after failed pushes, failed switches and restarts, *)
(* with transactions pending or none.                                       *)
THEOREM AlwaysExtends == Spec => []CanExtend
<1>1. Settled(node) => CanExtend
  <2> SUFFICES ASSUME Settled(node), HeadsAgree(node), NEW b \in Blocks,
                      Parent[b] = HeadId(node), b \notin LateBadBlocks, CanApplyBlock(node, b)
               PROVE  PushedBlock(node, b).cur.chain = Append(node.cur.chain, b)
    BY DEF CanExtend
  <2>1. Sound(node) /\ Ready(node)
    BY DEF Settled, HeadsAgree, Ready
  <2>2. /\ ChainTxs(node.cur.chain) \subseteq node.cur.applied /\ node.cur.chain \in Seq(Blocks)
        /\ node.cur.lib = LibOf(node.cur.chain) /\ HeadNum(node) = Len(node.cur.chain)
        /\ Acceptable(node.cur.chain) /\ HeadNum(node) \in Nat
    BY <2>1, NodeFields DEF Sound, Built, Explained
  <2>3. Num(b) = Len(node.cur.chain) + 1
    <3>1. Num(HeadId(node)) = HeadNum(node)
      BY <2>2, HeadNumber
    <3> QED
      BY <2>2, <3>1, ParentNumber
  <2>4. CanApplyTxs(TxsOf[b], ChainTxs(node.cur.chain))
    BY <2>2, TxsFewer DEF CanApplyBlock
  <2>5. Fits(node.cur.chain, b)
    BY <2>2, <2>3, <2>4 DEF Fits, CanApplyBlock, HeadId
  <2> QED
    BY <2>1, <2>5, PushExtends
<1> QED
  BY <1>1, AlwaysSettled, PTL

LEMMA AppendNext ==
  ASSUME NEW S, NEW c \in Seq(S), NEW k \in 1..Len(c)
  PROVE  Append(SubSeq(c, 1, k - 1), c[k]) = SubSeq(c, 1, k)
<1> DEFINE d == SubSeq(c, 1, k - 1)
           e == SubSeq(c, 1, k)
           a == Append(d, c[k])
<1>1. d \in Seq(S) /\ Len(d) = k - 1 /\ \A i \in 1..(k - 1) : d[i] = c[i]
  BY Prefix
<1>2. e \in Seq(S) /\ Len(e) = k /\ \A i \in 1..k : e[i] = c[i]
  BY Prefix
<1> HIDE DEF d, e
<1>3. c[k] \in S /\ k \in Nat
  OBVIOUS
<1>4. a \in Seq(S) /\ Len(a) = k /\ a[k] = c[k] /\ \A i \in 1..(k - 1) : a[i] = c[i]
  BY <1>1, <1>3
<1> HIDE DEF a
<1>5. \A i \in 1..k : a[i] = e[i]
  BY <1>2, <1>3, <1>4
<1>6. a = e
  BY <1>2, <1>4, <1>5
<1> QED
  BY <1>6 DEF a, d, e

LEMMA Part ==
  ASSUME NEW S, NEW c \in Seq(S), NEW i \in Nat \ {0}, NEW j \in Nat, i - 1 <= j, j <= Len(c)
  PROVE  /\ SubSeq(c, i, j) \in Seq(S) /\ Len(SubSeq(c, i, j)) = j - (i - 1)
         /\ \A k \in 1..(j - (i - 1)) : SubSeq(c, i, j)[k] = c[(i - 1) + k]
OBVIOUS

LEMMA Shift ==
  ASSUME NEW a \in Nat, NEW n \in Nat, NEW k \in 1..(n - a)
  PROVE  k \in Nat /\ k - 1 \in Nat /\ a + k \in 1..n /\ (a + k) - 1 = a + (k - 1)
OBVIOUS

(* A start replays the whole log when its blocks are acceptable one after   *)
(* the other: first without undo history, with an empty fork database, and  *)
(* the last ones by pushing them.                                           *)
LEMMA ReplaysAll ==
  ASSUME NEW n, Clean(n), Acceptable(n.log)
  PROVE  Reopen(n).ok /\ Reopen(n).cur.chain = n.log
<1> DEFINE L     == n.log
           h     == HeadNum(n)
           next  == h + 1
           first == IF next < UndoPoint(L) THEN UndoPoint(L) ELSE next
           start == Started(n)
           early == SubSeq(L, next, first - 1)
           late  == SubSeq(L, first, Len(L))
           m     == FoldLeft(ReplayWithoutUndo, start, early)
           e     == Reopen(n)
           E     == [k \in Nat |-> {x \in Nodes : /\ Bare(x) /\ x.log = L /\ x.ok
                                                  /\ x.cur.chain = SubSeq(L, 1, h + k)
                                                  /\ first # next => x.fork.head = None
                                                  /\ k = 0 => Ready(x)}]
           P     == [k \in Nat |-> {x \in SettledNodes : /\ x.ok /\ Ready(x)
                                                         /\ x.cur.chain = SubSeq(L, 1, (first - 1) + k)}]
<1>1. /\ n \in Nodes /\ h \in Nat /\ L \in Seq(Blocks) /\ Len(L) \in Nat /\ h <= Len(L)
      /\ h = Len(n.cur.chain) /\ n.cur.chain \in Seq(Blocks)
      /\ \A k \in 1..h : L[k] = n.cur.chain[k]
  BY NodeFields DEF Clean, Built, Logged
<1>2. UndoPoint(L) \in Nat /\ UndoPoint(L) <= Len(L)
  BY <1>1, HistoryAssumption DEF UndoPoint
<1>3. /\ next \in Nat \ {0} /\ first \in Nat \ {0} /\ next <= first /\ first - 1 \in Nat /\ first - 1 <= Len(L)
      /\ next - 1 = h /\ h <= first - 1 /\ (first # next => h < UndoPoint(L))
  BY <1>1, <1>2
<1>4. e = FoldLeft(Replay, m, late)
  BY DEF Reopen
<1>5. \A k \in 1..Len(L) : /\ L[k] \in Blocks /\ Fits(SubSeq(L, 1, k - 1), L[k])
                            /\ Append(SubSeq(L, 1, k - 1), L[k]) = SubSeq(L, 1, k)
  BY <1>1, AcceptableFits, AppendNext
<1>6. n.cur.chain = SubSeq(L, 1, h)
  <2> DEFINE s == SubSeq(L, 1, h)
  <2>1. s \in Seq(Blocks) /\ Len(s) = h /\ \A k \in 1..h : s[k] = L[k]
    BY <1>1, Prefix
  <2> HIDE DEF s
  <2>2. n.cur.chain = s
    BY <1>1, <2>1
  <2> QED
    BY <2>2 DEF s
<1>7. /\ Bare(start) /\ start.log = L /\ start.cur = n.cur /\ start.ok /\ Ready(start)
      /\ h < UndoPoint(L) => start.fork.head = None
  BY StartedBare
<1> HIDE DEF L, h, next, first
<1>8. /\ early \in Seq(Blocks) /\ Len(early) = (first - 1) - h
      /\ \A k \in 1..((first - 1) - h) : early[k] = L[h + k]
  <2> DEFINE l == first - 1
  <2>1. l \in Nat /\ l <= Len(L) /\ next - 1 <= l
    BY <1>3
  <2> HIDE DEF l
  <2>2. LET s == SubSeq(L, next, l)
        IN  s \in Seq(Blocks) /\ Len(s) = l - (next - 1) /\ \A k \in 1..(l - (next - 1)) : s[k] = L[(next - 1) + k]
    BY <1>1, <1>3, <2>1, Part
  <2> QED
    BY <1>3, <2>2 DEF l
<1>9. /\ late \in Seq(Blocks) /\ Len(late) = Len(L) - (first - 1)
      /\ \A k \in 1..(Len(L) - (first - 1)) : late[k] = L[(first - 1) + k]
  <2>1. first - 1 <= Len(L) /\ Len(L) \in Nat /\ Len(L) <= Len(L)
    BY <1>1, <1>3
  <2> QED
    BY <1>1, <1>3, <2>1, Part
<1>10. m = DirectLoop!Folded(start, early)
  BY DEF DirectLoop!Folded, DirectLoop!Folds, DirectLoop!Largest, FoldLeft, MapThenFoldSet, Max
<1>11. e = ReplayLoop!Folded(m, late)
  BY <1>4 DEF ReplayLoop!Folded, ReplayLoop!Folds, ReplayLoop!Largest, FoldLeft, MapThenFoldSet, Max
<1> HIDE DEF start, early, late, m, e
<1>12. start \in E[0]
  <2>1. start \in Nodes /\ h + 0 = h
    BY <1>1, <1>7 DEF Bare, Clean, Built
  <2> QED
    BY <1>3, <1>6, <1>7, <2>1
<1>13. ASSUME NEW k \in 1..Len(early), NEW x \in E[k - 1] PROVE ReplayWithoutUndo(x, early[k]) \in E[k]
  <2> DEFINE j == h + k
             b == early[k]
             y == ReplayWithoutUndo(x, b)
  <2>1. /\ k \in Nat /\ k - 1 \in Nat /\ k # 0 /\ j \in 1..Len(L) /\ j - 1 = h + (k - 1) /\ b = L[j]
        /\ first # next
    <3>1. k \in 1..((first - 1) - h) /\ b = L[j]
      BY <1>8
    <3>2. j \in 1..(first - 1) /\ j - 1 = h + (k - 1)
      BY <1>1, <1>3, <3>1, Shift
    <3>3. first # next
      BY <1>1, <1>3, <3>1
    <3>4. k \in Nat /\ k - 1 \in Nat /\ k # 0
      BY <1>8
    <3>5. j \in 1..Len(L)
      BY <1>1, <1>3, <3>2
    <3> QED
      BY <3>1, <3>2, <3>3, <3>4, <3>5
  <2>2. /\ Bare(x) /\ x.log = L /\ x.ok /\ x.cur.chain = SubSeq(L, 1, j - 1) /\ x.fork.head = None
    BY <2>1
  <2> HIDE DEF j, b
  <2>3. b \in Blocks /\ Fits(x.cur.chain, b) /\ Append(x.cur.chain, b) = SubSeq(L, 1, j)
    BY <1>5, <2>1, <2>2
  <2>4. CanApplyBlock(x, b) /\ b \notin LateBadBlocks
    BY <2>2, <2>3, FitsApplies DEF Bare
  <2>5. b \in {x.log[i] : i \in 1..Len(x.log)}
    BY <2>1, <2>2
  <2>6. /\ Bare(y) /\ y.log = L /\ y.ok /\ y.cur.chain = SubSeq(L, 1, j) /\ y.fork.head = None
    <3>1. /\ Bare(y) /\ y.log = x.log
          /\ x.fork.head = None => y.fork.head = None
          /\ x.ok /\ CanApplyBlock(x, b) /\ b \notin LateBadBlocks =>
                y.ok /\ y.cur.chain = Append(x.cur.chain, b)
      BY <2>2, <2>5, ReplayedWithoutUndo
    <3> HIDE DEF y
    <3> QED
      BY <2>2, <2>3, <2>4, <3>1
  <2>7. y \in Nodes
    BY <2>6 DEF Bare, Clean, Built
  <2> HIDE DEF y
  <2>8. y \in E[k]
    BY <2>1, <2>6, <2>7 DEF j
  <2> QED
    BY <2>8 DEF y, b
<1>14. m \in E[Len(early)]
  <2> HIDE DEF E
  <2> QED
    BY <1>8, <1>10, <1>12, <1>13, DirectLoop!FoldSteps
<1>15. m \in P[0]
  <2>1. Len(early) \in Nat /\ h + Len(early) = first - 1 /\ (first - 1) + 0 = first - 1
        /\ (first = next => Len(early) = 0)
    BY <1>1, <1>3, <1>8
  <2>2. /\ Bare(m) /\ m.ok /\ m.cur.chain = SubSeq(L, 1, first - 1)
        /\ first # next => m.fork.head = None
        /\ Len(early) = 0 => Ready(m)
    BY <1>14, <2>1
  <2>3. Ready(m)
    BY <2>1, <2>2 DEF Ready
  <2>4. m \in SettledNodes
    BY <2>2, BareIsSettled, SettledMembers
  <2> QED
    BY <2>1, <2>2, <2>3, <2>4
<1>16. ASSUME NEW k \in 1..Len(late), NEW x \in P[k - 1] PROVE Replay(x, late[k]) \in P[k]
  <2> DEFINE j == (first - 1) + k
             b == late[k]
             y == PushedBlock(x, b)
  <2>1. /\ k \in Nat /\ k - 1 \in Nat /\ j \in 1..Len(L) /\ j - 1 = (first - 1) + (k - 1) /\ b = L[j]
    <3>1. k \in 1..(Len(L) - (first - 1)) /\ b = L[j]
      BY <1>9
    <3>2. j \in 1..Len(L) /\ j - 1 = (first - 1) + (k - 1)
      BY <1>1, <1>3, <3>1, Shift
    <3> QED
      BY <3>1, <3>2
  <2>2. /\ Sound(x) /\ x.ok /\ x.cur.chain = SubSeq(L, 1, j - 1) /\ Ready(x)
    BY <2>1, SettledMembers DEF Settled
  <2> HIDE DEF j, b
  <2>3. b \in Blocks /\ Fits(x.cur.chain, b) /\ Append(x.cur.chain, b) = SubSeq(L, 1, j)
    BY <1>5, <2>1, <2>2
  <2>4. y.ok /\ y.cur.chain = SubSeq(L, 1, j) /\ Ready(y)
    BY <2>2, <2>3, PushExtends
  <2>5. y \in SettledNodes
    BY <2>2, <2>3, PushedOne, SettledMembers
  <2>6. Replay(x, b) = y
    BY <2>2 DEF Replay
  <2> HIDE DEF y
  <2>7. y \in P[k]
    BY <2>1, <2>4, <2>5 DEF j
  <2> QED
    BY <2>6, <2>7 DEF b
<1>17. e \in P[Len(late)]
  <2> HIDE DEF P
  <2> QED
    BY <1>9, <1>11, <1>15, <1>16, ReplayLoop!FoldSteps
<1>18. (first - 1) + Len(late) = Len(L) /\ Len(late) \in Nat
  BY <1>1, <1>3, <1>9
<1>19. e.ok /\ e.cur.chain = SubSeq(L, 1, Len(L))
  BY <1>17, <1>18
<1>20. SubSeq(L, 1, Len(L)) = L
  BY <1>1, PrefixWhole
<1> QED
  BY <1>19, <1>20 DEF e, L

(* Stopping and starting again brings back the same chain, wherever close() *)
(* rewinds to and however much of the log is replayed without undo history, *)
(* unless an abandoned switch left the log longer than the chain.           *)
THEOREM RestartKeeps == Spec => []RestartKeepsChain
<1>1. Settled(node) => RestartKeepsChain
  <2> SUFFICES ASSUME Settled(node), node.log = node.cur.chain
               PROVE  Reopen(Close(node)).ok /\ Reopen(Close(node)).cur.chain = node.cur.chain
    BY DEF RestartKeepsChain
  <2> DEFINE c == Close(node)
  <2>1. Sound(node) /\ Acceptable(node.cur.chain)
    BY DEF Settled, Sound, Built
  <2>2. Clean(c) /\ c.log = node.log
    BY <2>1, Closed
  <2> HIDE DEF c
  <2>3. Reopen(c).ok /\ Reopen(c).cur.chain = c.log
    BY <2>1, <2>2, ReplaysAll
  <2> QED
    BY <2>2, <2>3 DEF c
<1> QED
  BY <1>1, AlwaysSettled, PTL
=============================================================================
