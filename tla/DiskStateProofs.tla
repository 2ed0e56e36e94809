-------------------------- MODULE DiskStateProofs ---------------------------
(***************************************************************************)
(* Proofs about DiskState, for any blocks, parents, object types and lag.  *)
(*                                                                         *)
(* The invariant has three parts.  Sound: the chain links, and of the      *)
(* three directories only the one that is marked may be incomplete.        *)
(* Keeping: the saved state is a beginning of the chain, which no switch   *)
(* goes below, and the log with its buffers covers the chain.  Ordered:    *)
(* outside a fork switch the log itself is a chain, of which the streams   *)
(* hold back the last block and entry at most; a log whose first block     *)
(* was lost is the one exception, and nothing of it is ever replayed.      *)
(***************************************************************************)
EXTENDS DiskState, BlockTreeTheorems, SequenceTheorems

USE ParentAssumption, TypesAssumption

-----------------------------------------------------------------------------
(* Sequences, pointwise *)

(* c is the beginning of f, entry by entry. *)
Begins(c, f) == Len(c) <= Len(f) /\ \A k \in 1..Len(c) : f[k] = c[k]

LEMMA PrefixPointwise ==
  ASSUME NEW S, NEW T, NEW c \in Seq(S), NEW f \in Seq(T)
  PROVE  IsPrefix(c, f) <=> Begins(c, f)
<1>1. SubSeq(c, 1, Len(c)) = [k \in 1..Len(c) |-> c[k]]
  OBVIOUS
<1>2. ASSUME Len(c) <= Len(f)
      PROVE  SubSeq(f, 1, Len(c)) = [k \in 1..Len(c) |-> f[k]]
  BY <1>2
<1> QED
  BY <1>1, <1>2 DEF IsPrefix, Begins

LEMMA MaxTwo ==
  ASSUME NEW a \in Int, NEW b \in Int
  PROVE  Max({a, b}) = IF a >= b THEN a ELSE b
BY DEF Max

LEMMA MinTwo ==
  ASSUME NEW a \in Int, NEW b \in Int
  PROVE  Min({a, b}) = IF a <= b THEN a ELSE b
BY DEF Min

-----------------------------------------------------------------------------
(* The longest common prefix is a prefix of both. *)
LEMMA CommonBeginning ==
  ASSUME NEW p \in Seq(Blocks), NEW c \in Seq(Blocks)
  PROVE  LET d == LongestCommonPrefix({p, c})
         IN  d \in Seq(Blocks) /\ Begins(d, p) /\ Begins(d, c)
<1> DEFINE C == CommonPrefixes({p, c})
<1>1. \A x \in C : x \in Seq(Blocks) /\ IsPrefix(x, p) /\ IsPrefix(x, c) /\ Len(x) <= Len(c)
  <2> SUFFICES ASSUME NEW x \in C
               PROVE  x \in Seq(Blocks) /\ IsPrefix(x, p) /\ IsPrefix(x, c) /\ Len(x) <= Len(c)
    OBVIOUS
  <2>1. PICK s \in {p, c} : x \in Prefixes(s)
    BY DEF CommonPrefixes
  <2>2. PICK n \in 0..Len(s) : x = SubSeq(s, 1, n)
    BY <2>1 DEF Prefixes
  <2>3. x \in Seq(Blocks)
    BY <2>2
  <2>4. IsPrefix(x, p) /\ IsPrefix(x, c)
    BY DEF CommonPrefixes
  <2> QED
    BY <2>3, <2>4 DEF IsPrefix
<1>2. << >> \in C
  <2>1. SubSeq(p, 1, 0) = << >>
    OBVIOUS
  <2>2. << >> \in Prefixes(p)
    BY <2>1 DEF Prefixes
  <2>3. IsPrefix(<< >>, p) /\ IsPrefix(<< >>, c)
    BY DEF IsPrefix
  <2> QED
    BY <2>2, <2>3 DEF CommonPrefixes
<1> HIDE DEF C
<1> DEFINE D == {n \in Nat : \E x \in C : n = Len(c) - Len(x)}
<1>3. \A x \in C : Len(x) \in Nat /\ Len(c) - Len(x) \in D
  BY <1>1
<1>4. D # {}
  BY <1>2, <1>3
<1>5. PICK n \in D : \A m \in D : n <= m
  BY <1>4, NatLeast
<1>6. PICK x \in C : n = Len(c) - Len(x)
  BY <1>5
<1>7. \A y \in C : Len(y) <= Len(x)
  <2> SUFFICES ASSUME NEW y \in C PROVE Len(y) <= Len(x)
    OBVIOUS
  <2>1. n <= Len(c) - Len(y)
    BY <1>3, <1>5
  <2>2. Len(c) \in Nat /\ Len(x) \in Nat /\ Len(y) \in Nat
    BY <1>1
  <2> QED
    BY <1>6, <2>1, <2>2
<1>8. LongestCommonPrefix({p, c}) \in C
  BY <1>7 DEF LongestCommonPrefix, C
<1> QED
  BY <1>1, <1>8, PrefixPointwise

-----------------------------------------------------------------------------
(* The object files *)

(* Every index file was completely saved for chain c. *)
SavedFor(d, c) == \A t \in Types : d.files[t] = <<"saved", c>>
Whole(d) == ~ d.lock /\ \E c \in Seq(Blocks) : SavedFor(d, c)

(* The chain a start reads from a directory that is whole, or missing. *)
SavedChain(d) == IF d = None THEN << >> ELSE CHOOSE c \in Seq(Blocks) : SavedFor(d, c)

LEMMA SavedChainIs ==
  ASSUME NEW d \in Directories \cup {None}, d # None => Whole(d)
  PROVE  /\ SavedChain(d) \in Seq(Blocks)
         /\ SavedStates(d) = {<<"saved", SavedChain(d)>>}
<1>1. CASE d = None
  BY <1>1 DEF SavedChain, SavedStates
<1>2. CASE d # None
  <2> DEFINE c == SavedChain(d)
  <2>1. c \in Seq(Blocks) /\ SavedFor(d, c) /\ ~ d.lock
    BY <1>2 DEF SavedChain, Whole
  <2> HIDE DEF c
  <2>2. \A t \in Types : d.files[t] = <<"saved", c>> /\ d.files[t] # None
    <3>1. <<"saved", c>> \in Files
      BY <2>1 DEF Files
    <3>2. <<"saved", c>> # None
      BY <3>1, NoneAssumption
    <3> QED
      BY <2>1, <3>2 DEF SavedFor
  <2>3. SavedStates(d) = {<<"saved", c>>}
    BY <1>2, <2>1, <2>2 DEF SavedStates
  <2> QED
    BY <2>1, <2>3 DEF c
<1> QED
  BY <1>1, <1>2

LEMMA SavedForIs ==
  ASSUME NEW d \in Directories, NEW c \in Seq(Blocks), SavedFor(d, c)
  PROVE  SavedChain(d) = c
<1>1. PICK t \in Types : TRUE
  OBVIOUS
<1>2. d # None
  BY NoneAssumption
<1>3. \A e \in Seq(Blocks) : SavedFor(d, e) => e = c
  BY <1>1 DEF SavedFor
<1> QED
  BY <1>2, <1>3 DEF SavedChain

-----------------------------------------------------------------------------
(* The block log *)

LEMMA NatGreatest ==
  ASSUME NEW n \in Nat, NEW G \in SUBSET (0..n), G # {}
  PROVE  \E m \in G : \A k \in G : m >= k
<1> DEFINE D == {d \in Nat : n - d \in G}
<1>1. PICK m \in G : TRUE
  OBVIOUS
<1>2. n - m \in D /\ D \in SUBSET Nat
  BY <1>1
<1>3. PICK d \in D : \A e \in D : d <= e
  BY <1>2, NatLeast
<1>4. n - d \in G
  BY <1>3
<1>5. ASSUME NEW k \in G PROVE n - d >= k
  <2>1. n - k \in D /\ k \in Nat /\ d \in Nat
    OBVIOUS
  <2>2. d <= n - k
    BY <1>3, <2>1
  <2> HIDE DEF D
  <2> QED
    BY <2>1, <2>2
<1> QED
  BY <1>4, <1>5

LEMMA MaxIs ==
  ASSUME NEW n \in Nat, NEW G \in SUBSET (0..n), G # {}
  PROVE  Max(G) \in G /\ \A k \in G : Max(G) >= k
BY NatGreatest DEF Max

LEMMA MinIs ==
  ASSUME NEW G \in SUBSET Nat, G # {}
  PROVE  Min(G) \in G /\ \A k \in G : Min(G) <= k
BY NatLeast DEF Min

Logs == Seq(Blocks \cup {None})

(* What an entry changes in the index. *)
LEMMA WithEntryIs ==
  ASSUME NEW f \in Logs, NEW b \in Blocks
  PROVE  /\ WithEntry(f, b) \in Logs
         /\ Len(WithEntry(f, b)) = IF Number[b] > Len(f) THEN Number[b] ELSE Len(f)
         /\ WithEntry(f, b)[Number[b]] = b
         /\ \A k \in 1..Len(f) : k # Number[b] => WithEntry(f, b)[k] = f[k]
         /\ \A k \in 1..Number[b] : k > Len(f) /\ k # Number[b] => WithEntry(f, b)[k] = None
<1>1. Number[b] \in Nat \ {0} /\ Len(f) \in Nat /\ b # None
  BY NumberFacts, NoneAssumption DEF Logs
<1> DEFINE n == IF Number[b] > Len(f) THEN Number[b] ELSE Len(f)
<1>2. n \in Nat /\ Number[b] \in 1..n /\ 1..Len(f) \subseteq 1..n /\ DOMAIN f = 1..Len(f)
      /\ \A k \in 1..Number[b] : k \in 1..n /\ (k > Len(f) => k \notin DOMAIN f)
  BY <1>1 DEF Logs
<1>3. WithEntry(f, b) = [k \in 1..n |-> IF k = Number[b] THEN b ELSE IF k \in DOMAIN f THEN f[k] ELSE None]
  BY <1>1 DEF WithEntry, Num
<1>4. \A k \in 1..Len(f) : f[k] \in Blocks \cup {None}
  BY DEF Logs
<1> HIDE DEF n
<1>5. WithEntry(f, b) \in [1..n -> Blocks \cup {None}]
  BY <1>2, <1>3, <1>4
<1>6. WithEntry(f, b) \in Logs /\ Len(WithEntry(f, b)) = n
  BY <1>2, <1>5 DEF Logs
<1>7. \A k \in 1..n : WithEntry(f, b)[k] = IF k = Number[b] THEN b ELSE IF k \in DOMAIN f THEN f[k] ELSE None
  BY <1>3
<1> QED
  BY <1>2, <1>6, <1>7 DEF n

LEMMA WithEntryTyped ==
  ASSUME NEW f \in Logs, NEW b \in Blocks \cup {None}
  PROVE  WithEntry(f, b) \in Logs
BY WithEntryIs DEF WithEntry

(* last_index_entry keeps what can be read. *)
LEMMA TruncatedIs ==
  ASSUME index \in Logs
  PROVE  /\ Truncated \in Logs
         /\ Len(Truncated) <= Len(index)
         /\ \A k \in 1..Len(Truncated) : Truncated[k] = index[k]
         /\ \A k \in 1..Len(index) : index[k] \in blocks => k <= Len(Truncated)
         /\ Len(Truncated) > 0 => index[Len(Truncated)] \in blocks
         /\ Truncated = SubSeq(index, 1, Len(Truncated))
<1>1. Len(index) \in Nat /\ DOMAIN index = 1..Len(index)
  BY DEF Logs
<1> DEFINE R == {k \in DOMAIN index : index[k] \in blocks}
           n == IF \E k \in DOMAIN index : index[k] \in blocks THEN Max(R) ELSE 0
<1>2. n \in 0..Len(index) /\ (n > 0 => n \in R) /\ \A k \in R : k <= n
  <2>1. CASE R = {}
    <3>1. n = 0
      BY <2>1
    <3> HIDE DEF n, R
    <3> QED
      BY <1>1, <2>1, <3>1
  <2>2. CASE R # {}
    <3>1. R \in SUBSET (0..Len(index))
      BY <1>1
    <3>2. Max(R) \in R /\ \A k \in R : Max(R) >= k
      BY <1>1, <2>2, <3>1, MaxIs
    <3>3. n = Max(R)
      BY <2>2
    <3> HIDE DEF n
    <3>4. R \subseteq 1..Len(index)
      BY <1>1
    <3> HIDE DEF R
    <3>5. Max(R) \in 1..Len(index)
      BY <3>2, <3>4
    <3>6. \A k \in R : k \in Int /\ k <= Max(R)
      BY <1>1, <3>2, <3>4, <3>5
    <3> QED
      BY <1>1, <3>2, <3>3, <3>5, <3>6
  <2> QED
    BY <2>1, <2>2
<1>3. Truncated = SubSeq(index, 1, n)
  BY DEF Truncated
<1> HIDE DEF n
<1>4. /\ Truncated \in Logs /\ Len(Truncated) = n
      /\ \A k \in 1..n : Truncated[k] = index[k]
  BY <1>1, <1>2, <1>3 DEF Logs
<1>5. \A k \in 1..Len(index) : index[k] \in blocks => k <= n
  BY <1>1, <1>2
<1>6. n > 0 => index[n] \in blocks
  BY <1>2
<1>7. n <= Len(index)
  BY <1>1, <1>2
<1> HIDE DEF R
<1> QED
  BY <1>3, <1>4, <1>5, <1>6, <1>7

(* reindex() pushes the entries above the state, up to the first gap. *)
LEMMA ToReplayIs ==
  ASSUME NEW c \in Seq(Blocks), NEW log \in Logs, blocks \subseteq Blocks
  PROVE  LET new == ToReplay(c, log)
         IN  /\ new \in Seq(Blocks)
             /\ Len(new) = 0 \/ Len(c) + Len(new) <= Len(log)
             /\ \A k \in 1..Len(new) : new[k] = log[Len(c) + k] /\ new[k] \in blocks
             /\ (\A k \in 1..Len(log) : k > Len(c) => log[k] \in blocks) /\ Len(c) <= Len(log)
                   => Len(c) + Len(new) = Len(log)
<1>1. Len(c) \in Nat /\ Len(log) \in Nat
  BY DEF Logs
<1> DEFINE gaps == {k \in (Len(c) + 1)..Len(log) : log[k] \notin blocks}
           e == IF gaps = {} THEN Len(log) ELSE Min(gaps) - 1
           new == ToReplay(c, log)
<1>2. /\ e \in 0..Len(log)
      /\ \A k \in (Len(c) + 1)..e : log[k] \in blocks
  <2>1. CASE gaps = {}
    BY <1>1, <2>1
  <2>2. CASE gaps # {}
    <3>1. gaps \in SUBSET Nat
      BY <1>1
    <3>2. Min(gaps) \in gaps /\ \A k \in gaps : Min(gaps) <= k
      BY <2>2, <3>1, MinIs
    <3>3. e = Min(gaps) - 1
      BY <2>2
    <3>4. Min(gaps) \in (Len(c) + 1)..Len(log)
      BY <3>2
    <3> HIDE DEF e
    <3>5. e \in 0..Len(log)
      BY <1>1, <3>3, <3>4
    <3>6. ASSUME NEW k \in (Len(c) + 1)..e, log[k] \notin blocks PROVE FALSE
      <4>1. k \in gaps
        BY <1>1, <3>5, <3>6
      <4> QED
        BY <1>1, <3>2, <3>3, <3>4, <4>1
    <3> QED
      BY <3>5, <3>6
  <2> QED
    BY <2>1, <2>2
<1>3. new = SubSeq(log, Len(c) + 1, e)
  BY DEF ToReplay
<1>4. (\A k \in 1..Len(log) : k > Len(c) => log[k] \in blocks) => e = Len(log)
  BY <1>1
<1> HIDE DEF e
<1>5. CASE e <= Len(c)
  <2>1. new = << >>
    BY <1>1, <1>2, <1>3, <1>5 DEF Logs
  <2> HIDE DEF new
  <2> QED
    BY <1>1, <1>2, <1>4, <1>5, <2>1 DEF new
<1>6. CASE e > Len(c)
  <2>1. /\ Len(new) = e - Len(c)
        /\ \A k \in 1..Len(new) : new[k] = log[Len(c) + k]
        /\ new \in Seq(Blocks \cup {None})
    BY <1>1, <1>2, <1>3, <1>6 DEF Logs
  <2> HIDE DEF new
  <2>2. \A k \in 1..Len(new) : new[k] \in blocks
    BY <1>1, <1>2, <1>6, <2>1
  <2>3. new \in Seq(Blocks)
    BY <2>1, <2>2
  <2> QED
    BY <1>1, <1>2, <1>4, <2>1, <2>2, <2>3 DEF new
<1> QED
  BY <1>1, <1>2, <1>5, <1>6

-----------------------------------------------------------------------------
(* The inductive invariant, first part: what the process and the disk hold *)

Phases == {"run", "switch", "save", "unlocked", "moved", "placed", "flushed", "failed", "down"}

(* The chain with what is still to be applied of a fork is a chain. *)
ChainsOK ==
    /\ phase \in Phases
    /\ chain \in Seq(Blocks) /\ todo \in Seq(Blocks)
    /\ chain \o todo \in Chains
    /\ phase = "switch" <=> todo # << >>

Buffers == [block : Blocks \cup {None}, entry : Blocks \cup {None}]

LogsOK ==
    /\ floor \in Nat
    /\ blocks \subseteq Blocks
    /\ index \in Logs
    /\ buffered \in Buffers

(* flush(): until it is unlocked the new directory is marked, from then on *)
(* it is whole; the two others always are.                                 *)
DirsOK ==
    /\ cur \in Directories \cup {None} /\ tmp \in Directories \cup {None} /\ old \in Directories \cup {None}
    /\ cur # None => Whole(cur)
    /\ old # None => Whole(old)
    /\ phase = "save" => tmp # None /\ tmp.lock
    /\ phase \in {"unlocked", "moved"} => tmp # None /\ ~ tmp.lock /\ SavedFor(tmp, chain)
    /\ phase = "moved" => cur = None

FlagsOK == refused \in {"no", "open", "replay"} /\ behind \in BOOLEAN

Sound == ChainsOK /\ LogsOK /\ DirsOK /\ FlagsOK

LEMMA SoundTyped == Sound => TypeOK
BY DEF Sound, ChainsOK, LogsOK, DirsOK, FlagsOK, TypeOK, Chains, Phases, Logs, Buffers

LEMMA FirstPart ==
  ASSUME NEW c \in Seq(Blocks), NEW t \in Seq(Blocks), c \o t \in Chains
  PROVE  c \in Chains
<1>1. Len(c) \in Nat /\ Len(t) \in Nat /\ Len(c) \in 0..Len(c \o t)
  OBVIOUS
<1>2. SubSeq(c \o t, 1, Len(c)) = c
  OBVIOUS
<1> QED
  BY <1>1, <1>2, ChainBeginning

LEMMA ChainIsChain ==
  ASSUME ChainsOK
  PROVE  chain \in Chains
BY FirstPart DEF ChainsOK

LEMMA OnlyChain ==
  ASSUME NEW c \in Chains
  PROVE  c \o << >> = c /\ c \o << >> \in Chains /\ c \in Seq(Blocks)
BY DEF Chains

(* The rewind of close() does not go below floor. *)
LEMMA RewoundIs ==
  ASSUME chain \in Chains, floor \in Nat
  PROVE  \E n \in 0..Len(chain) : /\ Rewound(chain) = SubSeq(chain, 1, n)
                                  /\ n >= floor \/ n = Len(chain)
<1>1. Len(chain) \in Nat /\ Lag \in Nat
  BY LagAssumption DEF Chains
<1>2. Lib(chain) \in 0..Len(chain)
  BY <1>1 DEF Lib
<1> DEFINE m == Min({floor, Len(chain)})
           n == Max({Lib(chain), m})
<1>3. m = IF floor <= Len(chain) THEN floor ELSE Len(chain)
  BY <1>1, MinTwo
<1>4. m \in Int
  BY <1>1, <1>3
<1> HIDE DEF m
<1>5. n = IF Lib(chain) >= m THEN Lib(chain) ELSE m
  BY <1>2, <1>4, MaxTwo
<1> HIDE DEF n
<1>6. n \in 0..Len(chain) /\ (n >= floor \/ n = Len(chain))
  BY <1>1, <1>2, <1>3, <1>5
<1>7. Rewound(chain) = SubSeq(chain, 1, n)
  BY DEF Rewound, n, m
<1> QED
  BY <1>6, <1>7

LEMMA Rejoined ==
  ASSUME NEW p \in Seq(Blocks), NEW n \in 0..Len(p)
  PROVE  SubSeq(p, 1, n) \o SubSeq(p, n + 1, Len(p)) = p
<1>1. /\ Len(p) \in Nat /\ 1 \in 1..(Len(p) + 1)
      /\ n \in (1 - 1)..Len(p) /\ Len(p) \in n..Len(p)
  OBVIOUS
<1>2. SubSeq(p, 1, n) \o SubSeq(p, n + 1, Len(p)) = SubSeq(p, 1, Len(p))
  BY <1>1, ConcatAdjacentSubSeq
<1> QED
  BY <1>2, SubSeqFull

(* A fork switch starts from the common part and ends with the fork. *)
LEMMA StartSwitchIs ==
  ASSUME ChainsOK, floor \in Nat, NEW b \in Blocks, StartSwitch(b)
  PROVE  /\ chain' \in Seq(Blocks) /\ todo' \in Seq(Blocks) /\ todo' # << >>
         /\ chain' \o todo' = PathTo[b]
         /\ Begins(chain', chain)
         /\ Len(chain') >= floor \/ Len(chain') = Len(chain)
         /\ Len(chain') + Len(todo') = Number[b]
         /\ Number[b] > Len(chain)
<1>1. chain \in Chains /\ chain \in Seq(Blocks) /\ Len(chain) \in Nat
  BY ChainIsChain DEF ChainsOK
<1> DEFINE p == PathTo[b]
           d == LongestCommonPrefix({p, chain})
           n == Len(d)
<1>2. p \in Seq(Blocks) /\ Len(p) = Number[b] /\ Number[b] \in Nat
  BY PathIsChain, NumberFacts DEF Chains
<1>3. d \in Seq(Blocks) /\ Begins(d, p) /\ Begins(d, chain)
  BY <1>1, <1>2, CommonBeginning
<1>4. /\ Number[b] > Len(chain)
      /\ n >= Len(Rewound(chain))
      /\ chain' = SubSeq(chain, 1, n)
      /\ todo' = SubSeq(p, n + 1, Number[b])
  BY DEF StartSwitch, Num
<1> HIDE DEF p, d
<1>5. n \in 0..Len(chain) /\ n <= Len(p) /\ \A k \in 1..n : p[k] = d[k] /\ chain[k] = d[k]
  BY <1>1, <1>3 DEF Begins
<1>6. /\ chain' \in Seq(Blocks) /\ Len(chain') = n
      /\ \A k \in 1..n : chain'[k] = chain[k]
  BY <1>1, <1>4, <1>5
<1>7. /\ todo' \in Seq(Blocks) /\ Len(todo') = Number[b] - n
      /\ \A k \in 1..(Number[b] - n) : todo'[k] = p[n + k]
  BY <1>1, <1>2, <1>4, <1>5
<1>8. chain' \o todo' = p
  <2>1. SubSeq(chain, 1, n) = SubSeq(p, 1, n)
    BY <1>1, <1>2, <1>5
  <2>2. SubSeq(p, 1, n) \o SubSeq(p, n + 1, Len(p)) = p
    <3>1. n \in 0..Len(p)
      BY <1>1, <1>2, <1>5
    <3> QED
      BY <1>2, <3>1, Rejoined
  <2> QED
    BY <1>2, <1>4, <2>1, <2>2
<1>9. PICK m \in 0..Len(chain) : /\ Rewound(chain) = SubSeq(chain, 1, m)
                                 /\ m >= floor \/ m = Len(chain)
  BY <1>1, RewoundIs
<1>10. Len(Rewound(chain)) = m
  BY <1>1, <1>9
<1>11. n >= floor \/ n = Len(chain)
  BY <1>1, <1>4, <1>5, <1>9, <1>10
<1>12. Begins(chain', chain)
  BY <1>1, <1>5, <1>6 DEF Begins
<1>13. todo' # << >> /\ Len(chain') + Len(todo') = Number[b]
  <2>1. n \in Nat /\ Len(todo') > 0 /\ Len(chain') + Len(todo') = Number[b]
    BY <1>1, <1>2, <1>4, <1>5, <1>6, <1>7
  <2> QED
    BY <2>1, EmptySeq
<1> QED
  BY <1>4, <1>6, <1>7, <1>8, <1>11, <1>12, <1>13 DEF p

(* What open() does, in terms of the chain that was saved. *)
LEMMA OpenIs ==
  ASSUME LogsOK, NEW dir \in Directories \cup {None}, dir # None => Whole(dir),
         NEW how, Open(dir, how)
  PROVE  LET c   == SavedChain(dir)
             new == ToReplay(c, Truncated)
         IN  /\ phase = "down"
             /\ \/ /\ Refuses(c, Truncated)
                   /\ index' = Truncated /\ refused' = how
                   /\ phase' = phase /\ chain' = chain
                \/ /\ ~ Refuses(c, Truncated)
                   /\ index' = SubSeq(Truncated, 1, Min({Len(Truncated), Len(c \o new)}))
                   /\ refused' = "no"
                   /\ phase' = "run" /\ chain' = c \o new
             /\ floor' = IF c = << >> \/ new = << >> THEN Len(c) + 1 ELSE Len(c)
             /\ UNCHANGED <<todo, blocks, buffered, tmp, old>>
<1> DEFINE s == CHOOSE x \in SavedStates(dir) : TRUE
           Opened(c) ==
             /\ phase = "down"
             /\ index' = IF Refuses(c, Truncated) THEN Truncated
                         ELSE SubSeq(Truncated, 1, Min({Len(Truncated), Len(c \o ToReplay(c, Truncated))}))
             /\ IF Refuses(c, Truncated)
                THEN refused' = how /\ UNCHANGED <<phase, chain>>
                ELSE refused' = "no" /\ phase' = "run" /\ chain' = c \o ToReplay(c, Truncated)
             /\ floor' = IF c = << >> \/ ToReplay(c, Truncated) = << >> THEN Len(c) + 1 ELSE Len(c)
             /\ UNCHANGED <<todo, blocks, buffered, tmp, old>>
<1>1. Opened(s[2])
  BY DEF Open
<1>2. s = <<"saved", SavedChain(dir)>>
  BY SavedChainIs
<1> HIDE DEF s
<1>3. s[2] = SavedChain(dir)
  BY <1>2
<1>4. Opened(SavedChain(dir))
  <2> HIDE DEF Opened
  <2> QED
    BY <1>1, <1>3
<1> QED
  BY <1>4

LEMMA InitSound == Init => Sound
<1> SUFFICES ASSUME Init PROVE Sound
  OBVIOUS
<1>1. ChainsOK
  BY ChainEmpty, OnlyChain DEF Init, ChainsOK, Phases
<1>2. LogsOK
  BY DEF Init, LogsOK, Logs, Buffers, Nothing
<1>3. DirsOK
  BY DEF Init, DirsOK
<1>4. FlagsOK
  BY DEF Init, FlagsOK
<1> QED
  BY <1>1, <1>2, <1>3, <1>4 DEF Sound

LEMMA StoreTyped ==
  ASSUME LogsOK, NEW b \in Blocks, Store(b)
  PROVE  blocks' \subseteq Blocks /\ index' \in Logs /\ buffered' \in Buffers
<1>1. buffered.block \in Blocks \cup {None} /\ buffered.entry \in Blocks \cup {None}
  BY DEF LogsOK, Buffers
<1>2. index' \in Logs
  BY <1>1, WithEntryTyped DEF LogsOK, Store
<1> QED
  BY <1>1, <1>2 DEF LogsOK, Store, Buffers

(* The actions of the block log and of the running node *)

LEMMA WriteOutSound ==
  ASSUME Sound, WriteOutBlock \/ WriteOutEntry
  PROVE  Sound'
<1>1. buffered.block \in Blocks \cup {None} /\ buffered.entry \in Blocks \cup {None}
  BY DEF Sound, LogsOK, Buffers
<1>2. UNCHANGED <<phase, chain, todo, floor, cur, tmp, old, refused, behind>>
  BY DEF WriteOutBlock, WriteOutEntry, dirVars
<1>3. ChainsOK' /\ DirsOK' /\ FlagsOK'
  BY <1>2 DEF Sound, ChainsOK, DirsOK, FlagsOK
<1>4. LogsOK'
  <2>1. CASE WriteOutBlock
    BY <1>1, <1>2, <2>1 DEF Sound, LogsOK, WriteOutBlock, Buffers
  <2>2. CASE WriteOutEntry
    <3>1. index' \in Logs
      BY <1>1, <2>2, WithEntryTyped DEF Sound, LogsOK, WriteOutEntry
    <3> QED
      BY <1>1, <1>2, <2>2, <3>1 DEF Sound, LogsOK, WriteOutEntry, Buffers
  <2> QED
    BY <2>1, <2>2
<1> QED
  BY <1>3, <1>4 DEF Sound

(* The block that is pushed has the next number. *)
LEMMA PushedNumber ==
  ASSUME NEW c \in Chains, NEW b \in Blocks,
         Parent[b] = IF c = << >> THEN Genesis ELSE c[Len(c)]
  PROVE  Number[b] = Len(c) + 1
<1>1. c \in Seq(Blocks) /\ Len(c) \in Nat
  BY DEF Chains
<1>2. CASE c = << >>
  BY <1>2, NumberFacts
<1>3. CASE c # << >>
  <2>1. Len(c) \in 1..Len(c) /\ c[Len(c)] \in Blocks
    BY <1>1, <1>3
  <2>2. Number[c[Len(c)]] = Len(c)
    BY <2>1, ChainNumbers
  <2> QED
    BY <1>3, <2>1, <2>2, NumberFacts
<1> QED
  BY <1>2, <1>3

LEMMA PushBlockSound ==
  ASSUME Sound, NEW b \in Blocks, PushBlock(b)
  PROVE  Sound'
<1>1. ChainsOK' 
  <2>1. chain \in Chains /\ todo = << >> /\ phase = "run"
    BY ChainIsChain DEF Sound, ChainsOK, PushBlock
  <2>2. Parent[b] = IF chain = << >> THEN Genesis ELSE chain[Len(chain)]
    BY DEF PushBlock, HeadId, Last
  <2>3. Append(chain, b) \in Chains
    BY <2>1, <2>2, ChainAppend
  <2>4. phase' = "run" /\ todo' = << >> /\ chain' = Append(chain, b)
    BY <2>1 DEF PushBlock
  <2>5. Append(chain, b) \o << >> \in Chains /\ Append(chain, b) \in Seq(Blocks)
    BY <2>3, OnlyChain
  <2> QED
    BY <2>4, <2>5 DEF ChainsOK, Phases
<1>2. LogsOK'
  BY StoreTyped DEF PushBlock, Sound, LogsOK
<1>3. DirsOK'
  BY DEF Sound, DirsOK, PushBlock, dirVars
<1>4. FlagsOK'
  BY DEF Sound, FlagsOK, PushBlock
<1> QED
  BY <1>1, <1>2, <1>3, <1>4 DEF Sound

LEMMA StartSwitchSound ==
  ASSUME Sound, NEW b \in Blocks, StartSwitch(b)
  PROVE  Sound'
<1>1. ChainsOK' 
  <2>1. chain' \in Seq(Blocks) /\ todo' \in Seq(Blocks) /\ todo' # << >> /\ chain' \o todo' = PathTo[b]
    BY StartSwitchIs DEF Sound, LogsOK
  <2>2. phase' = "switch"
    BY DEF StartSwitch
  <2> QED
    BY <2>1, <2>2, PathIsChain DEF ChainsOK, Phases
<1>2. LogsOK'
  BY DEF Sound, LogsOK, StartSwitch, logVars
<1>3. DirsOK'
  BY DEF Sound, DirsOK, StartSwitch, dirVars
<1>4. FlagsOK'
  BY DEF Sound, FlagsOK, StartSwitch
<1> QED
  BY <1>1, <1>2, <1>3, <1>4 DEF Sound

(* What a step of a switch does to the chain. *)
LEMMA SwitchBlockIs ==
  ASSUME ChainsOK, SwitchBlock
  PROVE  /\ Head(todo) \in Blocks
         /\ chain' \in Seq(Blocks) /\ todo' \in Seq(Blocks)
         /\ chain' = Append(chain, Head(todo))
         /\ chain' \o todo' = chain \o todo
         /\ Len(todo') = Len(todo) - 1
         /\ Parent[Head(todo)] = IF chain = << >> THEN Genesis ELSE chain[Len(chain)]
<1>1. /\ chain \in Seq(Blocks) /\ todo \in Seq(Blocks) /\ todo # << >>
      /\ chain \o todo \in Chains /\ Len(chain) \in Nat
  BY DEF ChainsOK, SwitchBlock
<1>2. chain' = Append(chain, Head(todo)) /\ todo' = Tail(todo)
  BY DEF SwitchBlock
<1>3. Head(todo) \in Blocks /\ Tail(todo) \in Seq(Blocks) /\ Len(Tail(todo)) = Len(todo) - 1
  BY <1>1
<1>4. <<Head(todo)>> \o Tail(todo) = todo
  BY <1>1
<1>5. Append(chain, Head(todo)) = chain \o <<Head(todo)>>
  BY <1>1, <1>3, AppendIsConcat
<1>6. <<Head(todo)>> \in Seq(Blocks)
  BY <1>3
<1>7. (chain \o <<Head(todo)>>) \o Tail(todo) = chain \o (<<Head(todo)>> \o Tail(todo))
  BY <1>1, <1>3, <1>6, ConcatAssociative
<1>8. Parent[Head(todo)] = IF chain = << >> THEN Genesis ELSE chain[Len(chain)]
  <2> DEFINE e == chain \o todo
             n == Len(chain) + 1
  <2>1. /\ e \in Seq(Blocks) /\ n \in 1..Len(e) /\ DOMAIN e = 1..Len(e) /\ e[n] = todo[1]
        /\ \A k \in 1..Len(chain) : e[k] = chain[k]
    BY <1>1
  <2>2. \A k \in DOMAIN e : Parent[e[k]] = IF k = 1 THEN Genesis ELSE e[k - 1]
    BY <1>1 DEF Chains, IsChain
  <2> HIDE DEF e
  <2>3. Parent[e[n]] = IF n = 1 THEN Genesis ELSE e[n - 1]
    BY <2>1, <2>2
  <2>4. n = 1 <=> chain = << >>
    BY <1>1
  <2>5. n # 1 => n - 1 = Len(chain) /\ e[n - 1] = chain[Len(chain)]
    BY <1>1, <2>1
  <2>6. todo[1] = Head(todo)
    BY <1>1
  <2> QED
    BY <2>1, <2>3, <2>4, <2>5, <2>6
<1> QED
  BY <1>1, <1>2, <1>3, <1>4, <1>5, <1>7, <1>8

LEMMA SwitchBlockSound ==
  ASSUME Sound, SwitchBlock
  PROVE  Sound'
<1>1. ChainsOK' 
  <2>1. /\ chain' \in Seq(Blocks) /\ todo' \in Seq(Blocks)
        /\ chain' \o todo' = chain \o todo
        /\ Len(todo') = Len(todo) - 1
    BY SwitchBlockIs DEF Sound
  <2>2. chain' \o todo' \in Chains /\ todo \in Seq(Blocks) /\ todo # << >>
    BY <2>1 DEF Sound, ChainsOK, SwitchBlock
  <2>3. todo' = << >> <=> Len(todo) = 1
    <3>1. todo' = << >> <=> Len(todo') = 0
      BY <2>1
    <3>2. Len(todo) \in Nat
      BY <2>2
    <3> QED
      BY <2>1, <3>1, <3>2
  <2>4. phase' = IF Len(todo) = 1 THEN "run" ELSE "switch"
    BY DEF SwitchBlock
  <2> QED
    BY <2>1, <2>2, <2>3, <2>4 DEF ChainsOK, Phases
<1>2. LogsOK'
  <2>1. Head(todo) \in Blocks
    BY SwitchBlockIs DEF Sound
  <2> QED
    BY <2>1, StoreTyped DEF SwitchBlock, Sound, LogsOK
<1>3. DirsOK'
  BY DEF Sound, DirsOK, SwitchBlock, dirVars
<1>4. FlagsOK'
  BY DEF Sound, FlagsOK, SwitchBlock
<1> QED
  BY <1>1, <1>2, <1>3, <1>4 DEF Sound

(* The actions of close() *)

LEMMA BeginCloseSound ==
  ASSUME Sound, BeginClose
  PROVE  Sound'
<1>1. ChainsOK'
  <2>1. chain \in Chains /\ todo = << >> /\ floor \in Nat
    BY ChainIsChain DEF Sound, ChainsOK, LogsOK, BeginClose
  <2>2. PICK n \in 0..Len(chain) : Rewound(chain) = SubSeq(chain, 1, n)
    BY <2>1, RewoundIs
  <2>3. Rewound(chain) \in Chains
    BY <2>1, <2>2, ChainBeginning
  <2>4. phase' = "save" /\ todo' = << >> /\ chain' = Rewound(chain)
    BY <2>1 DEF BeginClose
  <2> QED
    BY <2>3, <2>4, OnlyChain DEF ChainsOK, Phases
<1>2. LogsOK'
  BY DEF Sound, LogsOK, BeginClose, logVars
<1>3. DirsOK'
  <2>1. tmp \in Directories \cup {None}
    BY DEF Sound, DirsOK
  <2>2. LockedTmp \in Directories /\ LockedTmp.lock
    BY <2>1 DEF LockedTmp, Directories
  <2>3. LockedTmp # None
    BY <2>2, NoneAssumption
  <2>4. tmp' = LockedTmp /\ phase' = "save" /\ cur' = cur /\ old' = old
    BY DEF BeginClose
  <2> QED
    BY <2>2, <2>3, <2>4 DEF Sound, DirsOK
<1>4. FlagsOK'
  BY DEF Sound, FlagsOK, BeginClose
<1> QED
  BY <1>1, <1>2, <1>3, <1>4 DEF Sound

LEMMA SaveIndexSound ==
  ASSUME Sound, NEW t \in Types, SaveIndex(t)
  PROVE  Sound'
<1>1. ChainsOK'
  BY DEF Sound, ChainsOK, SaveIndex
<1>2. LogsOK'
  BY DEF Sound, LogsOK, SaveIndex, logVars
<1>3. DirsOK'
  <2>1. tmp \in Directories /\ tmp.lock /\ chain \in Seq(Blocks) /\ phase' = phase /\ phase = "save"
    BY DEF Sound, ChainsOK, DirsOK, SaveIndex
  <2>2. PICK x \in {"torn", "saved"} : tmp' = [tmp EXCEPT !.files[t] = <<x, chain>>]
    BY DEF SaveIndex
  <2>3. <<x, chain>> \in Files
    BY <2>1 DEF Files
  <2>4. tmp' \in Directories /\ tmp'.lock
    BY <2>1, <2>2, <2>3 DEF Directories
  <2>5. tmp' # None
    BY <2>4, NoneAssumption
  <2>6. cur' = cur /\ old' = old
    BY DEF SaveIndex
  <2> QED
    BY <2>1, <2>4, <2>5, <2>6 DEF Sound, DirsOK
<1>4. FlagsOK'
  BY DEF Sound, FlagsOK, SaveIndex
<1> QED
  BY <1>1, <1>2, <1>3, <1>4 DEF Sound

LEMMA UnlockSound ==
  ASSUME Sound, Unlock
  PROVE  Sound'
<1>1. ChainsOK'
  BY DEF Sound, ChainsOK, Unlock, Phases
<1>2. LogsOK'
  BY DEF Sound, LogsOK, Unlock, logVars
<1>3. DirsOK'
  <2>1. tmp \in Directories /\ phase' = "unlocked" /\ chain' = chain
    BY DEF Sound, DirsOK, Unlock
  <2>2. tmp' = [tmp EXCEPT !.lock = FALSE] /\ SavedFor(tmp, chain)
    BY DEF Unlock, AllSaved, SavedFor
  <2>3. tmp' \in Directories /\ ~ tmp'.lock /\ tmp'.files = tmp.files
    BY <2>1, <2>2 DEF Directories
  <2>4. tmp' # None
    BY <2>3, NoneAssumption
  <2>5. SavedFor(tmp', chain')
    BY <2>1, <2>2, <2>3 DEF SavedFor
  <2>6. cur' = cur /\ old' = old
    BY DEF Unlock
  <2> QED
    BY <2>1, <2>3, <2>4, <2>5, <2>6 DEF Sound, DirsOK
<1>4. FlagsOK'
  BY DEF Sound, FlagsOK, Unlock
<1> QED
  BY <1>1, <1>2, <1>3, <1>4 DEF Sound

LEMMA RenameSound ==
  ASSUME Sound, MoveAway \/ MoveIn \/ RemoveOld
  PROVE  Sound'
<1>1. ChainsOK'
  BY DEF Sound, ChainsOK, MoveAway, MoveIn, RemoveOld, Phases
<1>2. LogsOK'
  BY DEF Sound, LogsOK, MoveAway, MoveIn, RemoveOld, logVars
<1>3. DirsOK'
  <2>1. CASE MoveAway
    BY <2>1 DEF Sound, DirsOK, MoveAway
  <2>2. CASE MoveIn
    <3>1. tmp \in Directories /\ tmp # None /\ Whole(tmp)
      BY <2>2 DEF Sound, ChainsOK, DirsOK, MoveIn, Whole
    <3> QED
      BY <2>2, <3>1 DEF Sound, DirsOK, MoveIn
  <2>3. CASE RemoveOld
    BY <2>3 DEF Sound, DirsOK, RemoveOld
  <2> QED
    BY <2>1, <2>2, <2>3
<1>4. FlagsOK'
  BY DEF Sound, FlagsOK, MoveAway, MoveIn, RemoveOld
<1> QED
  BY <1>1, <1>2, <1>3, <1>4 DEF Sound

LEMMA DownSound ==
  ASSUME Sound, CloseLog \/ Kill
  PROVE  Sound'
<1>1. phase' = "down" /\ chain' = << >> /\ buffered' = Nothing /\ UNCHANGED <<floor, cur, tmp, old, refused>>
  BY DEF CloseLog, Kill, dirVars
<1>2. todo' = << >>
  BY DEF Sound, ChainsOK, CloseLog, Kill
<1>3. ChainsOK'
  BY <1>1, <1>2, ChainEmpty, OnlyChain DEF ChainsOK, Phases
<1>4. LogsOK'
  <2>1. buffered.block \in Blocks \cup {None} /\ buffered.entry \in Blocks \cup {None}
    BY DEF Sound, LogsOK, Buffers
  <2>2. index' \in Logs
    BY <2>1, WithEntryTyped DEF Sound, LogsOK, CloseLog, Kill
  <2>3. blocks' \subseteq Blocks
    BY <2>1 DEF Sound, LogsOK, CloseLog, Kill
  <2>4. Nothing \in Buffers
    BY DEF Nothing, Buffers
  <2> QED
    BY <1>1, <2>2, <2>3, <2>4 DEF Sound, LogsOK
<1>5. DirsOK'
  BY <1>1 DEF Sound, DirsOK
<1>6. FlagsOK'
  BY <1>1 DEF Sound, FlagsOK, CloseLog, Kill
<1> QED
  BY <1>3, <1>4, <1>5, <1>6 DEF Sound

(* A start from any directory that is whole *)

LEMMA OpenSound ==
  ASSUME Sound, NEW dir \in {cur, None}, NEW how \in {"open", "replay"}, Open(dir, how),
         cur' = dir, behind' \in BOOLEAN
  PROVE  Sound'
<1> DEFINE c == SavedChain(dir)
           new == ToReplay(c, Truncated)
<1>1. dir \in Directories \cup {None} /\ (dir # None => Whole(dir)) /\ LogsOK
  BY DEF Sound, DirsOK
<1>2. /\ phase = "down"
      /\ \/ /\ index' = Truncated /\ refused' = how
            /\ phase' = phase /\ chain' = chain
         \/ /\ ~ Refuses(c, Truncated)
            /\ index' = SubSeq(Truncated, 1, Min({Len(Truncated), Len(c \o new)}))
            /\ refused' = "no"
            /\ phase' = "run" /\ chain' = c \o new
      /\ floor' = IF c = << >> \/ new = << >> THEN Len(c) + 1 ELSE Len(c)
      /\ UNCHANGED <<todo, blocks, buffered, tmp, old>>
  BY <1>1, OpenIs
<1>3. c \in Seq(Blocks)
  BY <1>1, SavedChainIs
<1>4. Truncated \in Logs
  BY <1>1, TruncatedIs DEF LogsOK
<1>5. new \in Seq(Blocks)
  BY <1>1, <1>3, <1>4, ToReplayIs DEF LogsOK
<1>6. ~ Refuses(c, Truncated) => c \o new \in Chains
  BY <1>3, <1>5 DEF Refuses, Chains
<1> HIDE DEF c, new
<1>7. ChainsOK'
  <2>1. todo = << >> /\ todo' = << >>
    BY <1>2 DEF Sound, ChainsOK
  <2>2. CASE phase' = phase /\ chain' = chain
    BY <1>2, <2>1, <2>2 DEF Sound, ChainsOK
  <2>3. CASE phase' = "run" /\ chain' = c \o new /\ ~ Refuses(c, Truncated)
    <3>1. c \o new \in Chains
      BY <1>6, <2>3
    <3>2. (c \o new) \o << >> \in Chains /\ c \o new \in Seq(Blocks)
      BY <3>1, OnlyChain
    <3> QED
      BY <2>1, <2>3, <3>2 DEF ChainsOK, Phases
  <2> QED
    BY <1>2, <2>2, <2>3
<1>8. LogsOK'
  <2>1. index' \in Logs
    <3>1. Len(Truncated) \in Nat /\ Len(c \o new) \in Nat
      BY <1>3, <1>4, <1>5 DEF Logs
    <3> DEFINE m == Min({Len(Truncated), Len(c \o new)})
    <3>2. m \in 0..Len(Truncated)
      BY <3>1, MinTwo
    <3>3. index' = Truncated \/ index' = SubSeq(Truncated, 1, m)
      BY <1>2
    <3> HIDE DEF m
    <3>4. SubSeq(Truncated, 1, m) \in Logs
      BY <1>4, <3>1, <3>2 DEF Logs
    <3> QED
      BY <1>4, <3>3, <3>4
  <2>2. floor' \in Nat
    BY <1>2, <1>3
  <2> QED
    BY <1>1, <1>2, <2>1, <2>2 DEF LogsOK
<1>9. DirsOK'
  BY <1>1, <1>2 DEF Sound, DirsOK
<1>10. FlagsOK'
  BY <1>2 DEF Sound, FlagsOK
<1> QED
  BY <1>7, <1>8, <1>9, <1>10 DEF Sound

LEMMA NextSound == Sound /\ [Next]_vars => Sound'
<1> SUFFICES ASSUME Sound, [Next]_vars PROVE Sound'
  OBVIOUS
<1>1. CASE WriteOutBlock \/ WriteOutEntry
  BY <1>1, WriteOutSound
<1>2. CASE \E b \in Blocks : PushBlock(b)
  BY <1>2, PushBlockSound
<1>3. CASE \E b \in Blocks : StartSwitch(b)
  BY <1>3, StartSwitchSound
<1>4. CASE SwitchBlock
  BY <1>4, SwitchBlockSound
<1>5. CASE BeginClose
  BY <1>5, BeginCloseSound
<1>6. CASE \E t \in Types : SaveIndex(t)
  BY <1>6, SaveIndexSound
<1>7. CASE Unlock
  BY <1>7, UnlockSound
<1>8. CASE MoveAway \/ MoveIn \/ RemoveOld
  BY <1>8, RenameSound
<1>9. CASE CloseLog \/ Kill
  BY <1>9, DownSound
<1>10. CASE Start
  <2>1. Open(cur, "open") /\ cur' = cur /\ behind' \in BOOLEAN
    BY <1>10 DEF Start, Sound, FlagsOK
  <2> QED
    BY <2>1, OpenSound
<1>11. CASE StartWithReplay
  <2>1. Open(None, "replay") /\ cur' = None /\ behind' \in BOOLEAN
    BY <1>11 DEF StartWithReplay
  <2> QED
    BY <2>1, OpenSound
<1>12. CASE UNCHANGED vars
  BY <1>12 DEF vars, logVars, dirVars, Sound, ChainsOK, LogsOK, DirsOK, FlagsOK
<1> QED
  BY <1>1, <1>2, <1>3, <1>4, <1>5, <1>6, <1>7, <1>8, <1>9, <1>10, <1>11, <1>12 DEF Next

(* Every action of the node keeps the first part of the invariant. *)
THEOREM Soundness == Spec => []Sound
BY InitSound, NextSound, PTL DEF Spec

(* The chain of the process, the two files of the log, the three directories *)
(* and every file in them are always of the kind the code expects, and the   *)
(* applied blocks with what remains of a fork switch link to one another.    *)
THEOREM TypeCorrect == Spec => []TypeOK
BY Soundness, SoundTyped, PTL

(* Wherever flush() is cut off, object_database and object_database.old are *)
(* missing or complete, of one state.                                       *)
THEOREM FilesAreWhole == Spec => []SavedStateIsWhole
<1>1. Sound => SavedStateIsWhole
  <2> SUFFICES ASSUME Sound, NEW d \in {cur, old} \ {None}
               PROVE  ~ d.lock /\ IsSingletonOf("saved", SavedStates(d))
    BY DEF SavedStateIsWhole
  <2>1. d \in Directories \cup {None} /\ Whole(d)
    BY DEF Sound, DirsOK
  <2>2. SavedStates(d) = {<<"saved", SavedChain(d)>>}
    BY <2>1, SavedChainIs
  <2>3. Cardinality({<<"saved", SavedChain(d)>>}) = 1
    BY FS_Singleton
  <2> QED
    BY <2>1, <2>2, <2>3 DEF IsSingletonOf, Whole
<1> QED
  BY <1>1, Soundness, PTL

-----------------------------------------------------------------------------
(* The inductive invariant, second part: the log covers the chain *)

(* The index and the blocks as the process would read them, with what the *)
(* streams hold back.                                                     *)
Log == WithEntry(index, buffered.entry)
Readable == blocks \cup {buffered.block}

Logged(c) == Begins(c, Log) /\ \A k \in 1..Len(c) : c[k] \in Readable

(* The saved state is a beginning of the chain, and no fork switch goes below it. *)
ChainKeepsSaved ==
    /\ phase # "down" => Begins(SavedChain(cur), chain)
    /\ phase \in {"run", "switch"} => Len(SavedChain(cur)) <= floor
    /\ phase = "down" => buffered = Nothing

(* As long as no kill has left the log behind the saved state. *)
LogKeepsChain ==
    ~ behind => /\ phase # "down" => Logged(chain)
                /\ phase = "down" => Logged(SavedChain(cur))

LEMMA SavedTyped ==
  ASSUME DirsOK
  PROVE  SavedChain(cur) \in Seq(Blocks) /\ SavedStates(cur) = {<<"saved", SavedChain(cur)>>}
BY SavedChainIs DEF DirsOK

LEMMA LogTyped == LogsOK => Log \in Logs
BY WithEntryTyped DEF LogsOK, Log, Buffers

LEMMA BeginsTransitive ==
  ASSUME NEW S, NEW c \in Seq(S), NEW T, NEW d \in Seq(T), NEW U, NEW e \in Seq(U), Begins(c, d), Begins(d, e)
  PROVE  Begins(c, e)
<1>1. Len(c) \in Nat /\ Len(d) \in Nat /\ Len(e) \in Nat
  OBVIOUS
<1> QED
  BY <1>1 DEF Begins

LEMMA LoggedBeginning ==
  ASSUME LogsOK, NEW c \in Seq(Blocks), NEW d \in Seq(Blocks), Begins(c, d), Logged(d)
  PROVE  Logged(c)
<1>1. Log \in Seq(Blocks \cup {None})
  BY LogTyped DEF Logs
<1>2. Begins(c, Log)
  BY <1>1, BeginsTransitive DEF Logged
<1>3. Len(c) \in Nat /\ Len(d) \in Nat /\ Len(c) <= Len(d)
  BY DEF Begins
<1>4. \A k \in 1..Len(c) : c[k] \in Readable
  BY <1>3 DEF Logged, Begins
<1> QED
  BY <1>2, <1>4 DEF Logged

(* What the properties call covered. *)
LEMMA CoveredPointwise ==
  ASSUME DirsOK, NEW f \in Logs, NEW bs
  PROVE  Covered(f, bs) <=> /\ Begins(SavedChain(cur), f)
                            /\ \A k \in 1..Len(SavedChain(cur)) : SavedChain(cur)[k] \in bs
<1> DEFINE c == SavedChain(cur)
<1>1. c \in Seq(Blocks) /\ SavedStates(cur) = {<<"saved", c>>}
  BY SavedTyped
<1> HIDE DEF c
<1>2. Covered(f, bs) <=> IsPrefix(c, f) /\ ToSet(c) \subseteq bs
  BY <1>1 DEF Covered
<1>3. IsPrefix(c, f) <=> Begins(c, f)
  BY <1>1, PrefixPointwise DEF Logs
<1>4. ToSet(c) \subseteq bs <=> \A k \in 1..Len(c) : c[k] \in bs
  BY <1>1 DEF ToSet
<1> QED
  BY <1>2, <1>3, <1>4 DEF c

(* What the actions do to the log *)

LEMMA StoreIs ==
  ASSUME LogsOK, NEW b \in Blocks, Store(b)
  PROVE  /\ index' = Log
         /\ Log' = WithEntry(Log, b)
         /\ Readable' = (Readable \ {None}) \cup {b}
         /\ buffered' = [block |-> b, entry |-> b]
<1>1. b # None
  BY NoneAssumption
<1>2. blocks \subseteq Blocks /\ None \notin blocks
  BY NoneAssumption DEF LogsOK
<1>3. index' = Log /\ buffered' = [block |-> b, entry |-> b] /\ blocks' = blocks \cup ({buffered.block} \ {None})
  BY DEF Store, Log
<1>4. buffered'.block = b /\ buffered'.entry = b
  BY <1>3
<1> QED
  BY <1>2, <1>3, <1>4 DEF Log, Readable

LEMMA WriteOutIs ==
  ASSUME LogsOK, WriteOutBlock \/ WriteOutEntry
  PROVE  /\ Log' = Log
         /\ Readable \subseteq Readable'
         /\ \/ buffered'.entry = None /\ buffered'.block = buffered.block /\ index' = Log
            \/ buffered'.block = None /\ buffered'.entry = buffered.entry /\ index' = index
<1>1. CASE WriteOutBlock
  <2>1. /\ blocks' = blocks \cup {buffered.block} /\ index' = index
        /\ buffered'.block = None /\ buffered'.entry = buffered.entry
    BY <1>1 DEF WriteOutBlock, LogsOK, Buffers
  <2> QED
    BY <2>1 DEF Log, Readable
<1>2. CASE WriteOutEntry
  <2>1. /\ blocks' = blocks /\ index' = Log
        /\ buffered'.block = buffered.block /\ buffered'.entry = None
    BY <1>2 DEF WriteOutEntry, LogsOK, Buffers, Log
  <2>2. Log' = index'
    BY <2>1 DEF Log, WithEntry
  <2> QED
    BY <2>1, <2>2 DEF Readable
<1> QED
  BY <1>1, <1>2

LEMMA CloseLogIs ==
  ASSUME LogsOK, CloseLog
  PROVE  index' = Log /\ Log' = Log /\ Readable \subseteq Readable' /\ blocks' = Readable \ {None}
<1>1. buffered'.entry = None /\ buffered'.block = None
  BY DEF CloseLog, Nothing
<1>2. index' = Log /\ blocks' = blocks \cup ({buffered.block} \ {None}) /\ None \notin blocks
  BY NoneAssumption DEF CloseLog, Log, LogsOK
<1>3. Log' = index'
  BY <1>1 DEF Log, WithEntry
<1> QED
  BY <1>1, <1>2, <1>3 DEF Readable

LEMMA QuietLog ==
  ASSUME UNCHANGED <<index, blocks, buffered>>
  PROVE  Log' = Log /\ Readable' = Readable
BY DEF Log, Readable

(* An entry at the next number extends what is logged. *)
LEMMA EntryExtends ==
  ASSUME NEW f \in Logs, NEW c \in Seq(Blocks), NEW b \in Blocks, Begins(c, f), Number[b] = Len(c) + 1
  PROVE  Begins(Append(c, b), WithEntry(f, b))
<1> DEFINE d == Append(c, b)
           g == WithEntry(f, b)
<1>1. Len(c) \in Nat /\ Len(f) \in Nat /\ Len(c) <= Len(f) /\ \A k \in 1..Len(c) : f[k] = c[k]
  BY DEF Begins, Logs
<1>2. Len(d) = Len(c) + 1 /\ d[Len(c) + 1] = b /\ \A k \in 1..Len(c) : d[k] = c[k]
  OBVIOUS
<1>3. /\ Len(g) = IF Number[b] > Len(f) THEN Number[b] ELSE Len(f)
      /\ g[Number[b]] = b
      /\ \A k \in 1..Len(f) : k # Number[b] => g[k] = f[k]
  BY WithEntryIs
<1> HIDE DEF d, g
<1>4. Len(d) <= Len(g)
  BY <1>1, <1>2, <1>3
<1>5. ASSUME NEW k \in 1..Len(d) PROVE g[k] = d[k]
  <2>1. CASE k = Len(c) + 1
    BY <1>2, <1>3, <2>1
  <2>2. CASE k # Len(c) + 1
    <3>1. k \in 1..Len(c) /\ k \in 1..Len(f) /\ k # Number[b]
      BY <1>1, <1>2, <2>2
    <3> QED
      BY <1>1, <1>2, <1>3, <3>1
  <2> QED
    BY <2>1, <2>2
<1>6. Begins(d, g)
  BY <1>4, <1>5 DEF Begins
<1> QED
  BY <1>6 DEF d, g

LEMMA StoreLogged ==
  ASSUME LogsOK, NEW c \in Seq(Blocks), NEW b \in Blocks, Store(b), Logged(c), Number[b] = Len(c) + 1
  PROVE  /\ Begins(Append(c, b), Log')
         /\ \A k \in 1..Len(Append(c, b)) : Append(c, b)[k] \in Readable'
<1>1. Log' = WithEntry(Log, b) /\ Readable' = (Readable \ {None}) \cup {b}
  BY StoreIs
<1>2. Begins(Append(c, b), Log')
  BY <1>1, LogTyped, EntryExtends DEF Logged
<1>3. ASSUME NEW k \in 1..Len(Append(c, b)) PROVE Append(c, b)[k] \in Readable'
  <2>1. Len(c) \in Nat /\ Len(Append(c, b)) = Len(c) + 1
    OBVIOUS
  <2>2. CASE k = Len(c) + 1
    BY <1>1, <2>2
  <2>3. CASE k # Len(c) + 1
    <3>1. k \in 1..Len(c)
      BY <2>1, <2>3
    <3>2. Append(c, b)[k] = c[k] /\ c[k] \in Blocks /\ c[k] \in Readable /\ c[k] # None
      BY <3>1, NoneAssumption DEF Logged
    <3> QED
      BY <1>1, <3>2
  <2> QED
    BY <2>2, <2>3
<1> QED
  BY <1>2, <1>3

(* What is logged of the saved state survives the truncation of the index, *)
(* and with the replayed blocks it is the beginning of the log.            *)
LEMMA ReplayLogged ==
  ASSUME LogsOK, NEW c \in Seq(Blocks), Begins(c, index), \A k \in 1..Len(c) : c[k] \in blocks
  PROVE  LET all == c \o ToReplay(c, Truncated)
         IN  /\ Begins(c, Truncated)
             /\ all \in Seq(Blocks) /\ Begins(all, Truncated)
             /\ \A k \in 1..Len(all) : all[k] \in blocks
             /\ SubSeq(Truncated, 1, Min({Len(Truncated), Len(all)})) = all
<1> DEFINE log == Truncated
           new == ToReplay(c, log)
           all == c \o new
<1>1. /\ log \in Logs /\ Len(log) <= Len(index) /\ Len(log) \in Nat /\ Len(index) \in Nat /\ Len(c) \in Nat
      /\ \A k \in 1..Len(log) : log[k] = index[k]
      /\ \A k \in 1..Len(index) : index[k] \in blocks => k <= Len(log)
  <2>1. index \in Logs
    BY DEF LogsOK
  <2>2. log \in Logs
    BY <2>1, TruncatedIs
  <2>3. Len(log) \in Nat /\ Len(index) \in Nat /\ Len(c) \in Nat
    BY <2>1, <2>2 DEF Logs
  <2> QED
    BY <2>1, <2>2, <2>3, TruncatedIs
<1> HIDE DEF log
<1>2. Len(c) <= Len(log)
  <2>1. CASE Len(c) = 0
    BY <1>1, <2>1
  <2>2. CASE Len(c) > 0
    <3>1. Len(c) \in 1..Len(c) /\ Len(c) \in 1..Len(index)
      BY <1>1, <2>2 DEF Begins
    <3>2. index[Len(c)] \in blocks
      BY <3>1 DEF Begins
    <3> QED
      BY <1>1, <3>1, <3>2
  <2> QED
    BY <1>1, <2>1, <2>2
<1>3. \A k \in 1..Len(c) : log[k] = c[k]
  BY <1>1, <1>2 DEF Begins
<1>4. /\ new \in Seq(Blocks)
      /\ Len(new) = 0 \/ Len(c) + Len(new) <= Len(log)
      /\ \A k \in 1..Len(new) : new[k] = log[Len(c) + k] /\ new[k] \in blocks
  BY <1>1, ToReplayIs DEF LogsOK
<1> HIDE DEF new
<1>5. all \in Seq(Blocks) /\ Len(all) = Len(c) + Len(new) /\ Len(new) \in Nat /\ Len(all) \in Nat
  BY <1>4
<1>6. Len(all) <= Len(log)
  BY <1>1, <1>2, <1>4, <1>5
<1>7. ASSUME NEW k \in 1..Len(all) PROVE log[k] = all[k] /\ all[k] \in blocks
  <2>1. CASE k <= Len(c)
    <3>1. k \in 1..Len(c)
      BY <1>1, <1>5, <2>1
    <3>2. all[k] = c[k]
      BY <1>4, <3>1
    <3> QED
      BY <1>3, <3>1, <3>2
  <2>2. CASE k > Len(c)
    <3>1. k - Len(c) \in 1..Len(new) /\ Len(c) + (k - Len(c)) = k
      BY <1>1, <1>5, <2>2
    <3>2. all[k] = new[k - Len(c)]
      BY <1>4, <1>5, <2>2
    <3> QED
      BY <1>4, <3>1, <3>2
  <2> QED
    BY <1>1, <1>5, <2>1, <2>2
<1> HIDE DEF all
<1>8. Begins(all, log)
  BY <1>6, <1>7 DEF Begins
<1>9. Begins(c, log)
  BY <1>2, <1>3 DEF Begins
<1>10. Min({Len(log), Len(all)}) = Len(all)
  BY <1>1, <1>5, <1>6, MinTwo
<1>11. SubSeq(log, 1, Len(all)) = all
  <2> DEFINE s == SubSeq(log, 1, Len(all))
  <2>1. s \in Seq(Blocks \cup {None}) /\ Len(s) = Len(all) /\ \A k \in 1..Len(all) : s[k] = log[k]
    BY <1>1, <1>5, <1>6 DEF Logs
  <2>2. all \in Seq(Blocks \cup {None})
    BY <1>5
  <2> HIDE DEF s
  <2>3. \A k \in 1..Len(s) : s[k] = all[k]
    BY <1>7, <2>1
  <2>4. s = all
    BY <2>1, <2>2, <2>3, SeqEqual
  <2> QED
    BY <2>4 DEF s
<1> QED
  BY <1>5, <1>7, <1>8, <1>9, <1>10, <1>11 DEF all, new, log

(* A start finds the saved state in the log, if it was there. *)
LEMMA OpenKeeps ==
  ASSUME Sound, Sound', NEW dir \in {cur, None}, NEW how, Open(dir, how), cur' = dir,
         buffered = Nothing, behind' \in BOOLEAN,
         ~ behind' => /\ Begins(SavedChain(dir), index)
                      /\ \A k \in 1..Len(SavedChain(dir)) : SavedChain(dir)[k] \in blocks
  PROVE  ChainKeepsSaved' /\ LogKeepsChain'
<1> DEFINE c == SavedChain(dir)
           new == ToReplay(c, Truncated)
<1>1. dir \in Directories \cup {None} /\ (dir # None => Whole(dir)) /\ LogsOK
  BY DEF Sound, DirsOK
<1>2. /\ phase = "down"
      /\ \/ index' = Truncated /\ phase' = "down"
         \/ /\ index' = SubSeq(Truncated, 1, Min({Len(Truncated), Len(c \o new)}))
            /\ phase' = "run" /\ chain' = c \o new
      /\ floor' = IF c = << >> \/ new = << >> THEN Len(c) + 1 ELSE Len(c)
      /\ UNCHANGED <<todo, blocks, buffered, tmp, old>>
  BY <1>1, OpenIs
<1>3. c \in Seq(Blocks) /\ SavedChain(cur') = c
  BY <1>1, SavedChainIs
<1>4. new \in Seq(Blocks)
  BY <1>1, <1>3, TruncatedIs, ToReplayIs DEF LogsOK
<1>5. buffered'.entry = None /\ buffered'.block = None /\ buffered' = Nothing
  BY <1>2 DEF Nothing
<1>6. Log' = index' /\ Readable' = blocks \cup {None}
  BY <1>2, <1>5 DEF Log, Readable, WithEntry
<1>7. ~ behind' => Begins(c, index) /\ \A k \in 1..Len(c) : c[k] \in blocks
  OBVIOUS
<1>8. ASSUME ~ behind'
      PROVE  /\ Begins(c, Truncated)
             /\ Begins(c \o new, Truncated)
             /\ \A k \in 1..Len(c \o new) : (c \o new)[k] \in blocks
             /\ SubSeq(Truncated, 1, Min({Len(Truncated), Len(c \o new)})) = c \o new
  BY <1>1, <1>3, <1>7, <1>8, ReplayLogged
<1> HIDE DEF c, new
<1>9. Begins(c, c \o new)
  BY <1>3, <1>4 DEF Begins
<1>10. ChainKeepsSaved'
  <2>1. phase' # "down" => Begins(c, chain')
    BY <1>2, <1>9
  <2>2. Len(c) <= floor'
    BY <1>2, <1>3
  <2> QED
    BY <1>3, <1>5, <2>1, <2>2 DEF ChainKeepsSaved
<1>11. LogKeepsChain'
  <2> SUFFICES ASSUME ~ behind'
               PROVE  /\ phase' # "down" => Logged(chain)'
                      /\ phase' = "down" => Logged(SavedChain(cur))'
    BY DEF LogKeepsChain
  <2>1. CASE phase' = "down"
    BY <1>2, <1>3, <1>6, <1>7, <1>8, <2>1 DEF Logged
  <2>2. CASE phase' # "down"
    <3>1. index' = c \o new /\ chain' = c \o new
      BY <1>2, <1>8, <2>2
    <3>2. Begins(chain', Log')
      BY <1>3, <1>4, <1>6, <3>1 DEF Begins
    <3>3. \A k \in 1..Len(chain') : chain'[k] \in Readable'
      BY <1>6, <1>8, <3>1
    <3> QED
      BY <2>2, <3>2, <3>3 DEF Logged
  <2> QED
    BY <2>1, <2>2
<1> QED
  BY <1>10, <1>11

Keeping == Sound /\ ChainKeepsSaved /\ LogKeepsChain

LEMMA InitKeeping == Init => Keeping
<1> SUFFICES ASSUME Init PROVE Keeping
  OBVIOUS
<1>1. Sound
  BY InitSound
<1>2. SavedChain(cur) = << >> /\ chain = << >> /\ floor = 1 /\ phase = "run"
  BY DEF Init, SavedChain
<1>3. \A f : Len(f) \in Nat => Begins(<< >>, f)
  BY DEF Begins
<1>4. Len(Log) \in Nat
  BY <1>1, LogTyped DEF Sound, Logs
<1>5. ChainKeepsSaved
  BY <1>2, <1>3 DEF ChainKeepsSaved
<1>6. LogKeepsChain
  BY <1>2, <1>3, <1>4 DEF LogKeepsChain, Logged
<1> QED
  BY <1>1, <1>5, <1>6 DEF Keeping

(* What leaves chain, log and saved state alone, and the phase among those of a running process *)
LEMMA QuietKeeps ==
  ASSUME Keeping, Sound', Log' = Log, Readable \subseteq Readable',
         UNCHANGED <<chain, floor, cur, behind>>, phase # "down", phase' # "down",
         phase' \in {"run", "switch"} => phase \in {"run", "switch"}
  PROVE  ChainKeepsSaved' /\ LogKeepsChain'
<1>1. ChainKeepsSaved'
  BY DEF Keeping, ChainKeepsSaved
<1>2. LogKeepsChain'
  BY DEF Keeping, LogKeepsChain, Logged
<1> QED
  BY <1>1, <1>2

LEMMA PushBlockKeeps ==
  ASSUME Keeping, Sound', NEW b \in Blocks, PushBlock(b)
  PROVE  ChainKeepsSaved' /\ LogKeepsChain'
<1>1. chain \in Chains /\ chain \in Seq(Blocks) /\ SavedChain(cur) \in Seq(Blocks) /\ LogsOK
  BY ChainIsChain, SavedTyped DEF Keeping, Sound, ChainsOK
<1>2. Parent[b] = IF chain = << >> THEN Genesis ELSE chain[Len(chain)]
  BY DEF PushBlock, HeadId, Last
<1>3. Number[b] = Len(chain) + 1
  BY <1>1, <1>2, PushedNumber
<1>4. /\ chain' = Append(chain, b) /\ Store(b) /\ phase = "run" /\ phase' = "run"
      /\ cur' = cur /\ floor' = floor /\ behind' = behind
  BY DEF PushBlock, dirVars
<1>5. Begins(SavedChain(cur), chain) /\ Len(SavedChain(cur)) <= floor
  BY <1>4 DEF Keeping, ChainKeepsSaved
<1>6. Begins(chain, Append(chain, b))
  BY <1>1 DEF Begins
<1>7. Begins(SavedChain(cur), Append(chain, b))
  <2>1. Append(chain, b) \in Seq(Blocks)
    BY <1>1
  <2> QED
    BY <1>1, <1>5, <1>6, <2>1, BeginsTransitive
<1>8. ChainKeepsSaved'
  BY <1>4, <1>5, <1>7 DEF ChainKeepsSaved
<1>9. ~ behind => Logged(chain)'
  BY <1>1, <1>3, <1>4, StoreLogged DEF Keeping, LogKeepsChain, Logged
<1>10. LogKeepsChain'
  BY <1>4, <1>9 DEF LogKeepsChain
<1> QED
  BY <1>8, <1>10

LEMMA StartSwitchKeeps ==
  ASSUME Keeping, Sound', NEW b \in Blocks, StartSwitch(b)
  PROVE  ChainKeepsSaved' /\ LogKeepsChain'
<1>1. /\ chain \in Seq(Blocks) /\ SavedChain(cur) \in Seq(Blocks) /\ LogsOK
      /\ Len(chain) \in Nat /\ Len(SavedChain(cur)) \in Nat /\ floor \in Nat
  BY SavedTyped DEF Keeping, Sound, ChainsOK, LogsOK
<1>2. /\ chain' \in Seq(Blocks) /\ Begins(chain', chain)
      /\ Len(chain') >= floor \/ Len(chain') = Len(chain)
  BY <1>1, StartSwitchIs DEF Keeping, Sound
<1>3. /\ phase = "run" /\ phase' = "switch" /\ cur' = cur /\ floor' = floor /\ behind' = behind
      /\ UNCHANGED <<index, blocks, buffered>>
  BY DEF StartSwitch, dirVars, logVars
<1>4. Begins(SavedChain(cur), chain) /\ Len(SavedChain(cur)) <= floor
  BY <1>3 DEF Keeping, ChainKeepsSaved
<1>5. Begins(SavedChain(cur), chain')
  <2>1. Len(chain') \in Nat /\ Len(SavedChain(cur)) <= Len(chain')
    BY <1>1, <1>2, <1>4 DEF Begins
  <2> QED
    BY <1>1, <1>2, <1>4, <2>1 DEF Begins
<1>6. ChainKeepsSaved'
  BY <1>3, <1>4, <1>5 DEF ChainKeepsSaved
<1>7. ~ behind => Begins(chain', Log) /\ \A k \in 1..Len(chain') : chain'[k] \in Readable
  <2> SUFFICES ASSUME ~ behind
               PROVE  Begins(chain', Log) /\ \A k \in 1..Len(chain') : chain'[k] \in Readable
    OBVIOUS
  <2>1. Logged(chain)
    BY <1>3 DEF Keeping, LogKeepsChain
  <2> DEFINE d == chain'
  <2>2. d \in Seq(Blocks) /\ Begins(d, chain)
    BY <1>2
  <2> HIDE DEF d
  <2>3. Logged(d)
    BY <1>1, <2>1, <2>2, LoggedBeginning
  <2> QED
    BY <2>3 DEF Logged, d
<1>8. LogKeepsChain'
  BY <1>3, <1>7, QuietLog DEF LogKeepsChain, Logged
<1> QED
  BY <1>6, <1>8

LEMMA SwitchBlockKeeps ==
  ASSUME Keeping, Sound', SwitchBlock
  PROVE  ChainKeepsSaved' /\ LogKeepsChain'
<1> DEFINE b == Head(todo)
<1>1. chain \in Chains /\ chain \in Seq(Blocks) /\ SavedChain(cur) \in Seq(Blocks) /\ LogsOK
  BY ChainIsChain, SavedTyped DEF Keeping, Sound, ChainsOK
<1>2. /\ b \in Blocks /\ chain' = Append(chain, b)
      /\ Parent[b] = IF chain = << >> THEN Genesis ELSE chain[Len(chain)]
  BY SwitchBlockIs DEF Keeping, Sound
<1>3. Store(b) /\ phase = "switch" /\ phase' \in {"run", "switch"} /\ cur' = cur /\ floor' = floor /\ behind' = behind
  BY DEF SwitchBlock, dirVars
<1> HIDE DEF b
<1>4. Number[b] = Len(chain) + 1
  BY <1>1, <1>2, PushedNumber
<1>5. Begins(SavedChain(cur), chain) /\ Len(SavedChain(cur)) <= floor
  BY <1>3 DEF Keeping, ChainKeepsSaved
<1>6. Begins(chain, Append(chain, b))
  BY <1>1, <1>2 DEF Begins
<1>7. Begins(SavedChain(cur), Append(chain, b))
  <2>1. Append(chain, b) \in Seq(Blocks)
    BY <1>1, <1>2
  <2> QED
    BY <1>1, <1>5, <1>6, <2>1, BeginsTransitive
<1>8. ChainKeepsSaved'
  BY <1>2, <1>3, <1>5, <1>7 DEF ChainKeepsSaved
<1>9. ~ behind => Logged(chain)'
  BY <1>1, <1>2, <1>3, <1>4, StoreLogged DEF Keeping, LogKeepsChain, Logged
<1>10. LogKeepsChain'
  BY <1>3, <1>9 DEF LogKeepsChain
<1> QED
  BY <1>8, <1>10

LEMMA BeginCloseKeeps ==
  ASSUME Keeping, Sound', BeginClose
  PROVE  ChainKeepsSaved' /\ LogKeepsChain'
<1>1. /\ chain \in Chains /\ chain \in Seq(Blocks) /\ SavedChain(cur) \in Seq(Blocks) /\ LogsOK
      /\ Len(chain) \in Nat /\ Len(SavedChain(cur)) \in Nat /\ floor \in Nat
  BY ChainIsChain, SavedTyped DEF Keeping, Sound, ChainsOK, LogsOK
<1> DEFINE d == Rewound(chain)
<1>2. PICK n \in 0..Len(chain) : d = SubSeq(chain, 1, n) /\ (n >= floor \/ n = Len(chain))
  BY <1>1, RewoundIs
<1>3. d \in Seq(Blocks) /\ Len(d) = n /\ \A k \in 1..n : d[k] = chain[k]
  BY <1>1, <1>2
<1>4. /\ phase = "run" /\ phase' = "save" /\ cur' = cur /\ behind' = behind /\ chain' = d
      /\ UNCHANGED <<index, blocks, buffered>>
  BY DEF BeginClose, logVars
<1> HIDE DEF d
<1>5. Begins(SavedChain(cur), chain) /\ Len(SavedChain(cur)) <= floor
  BY <1>4 DEF Keeping, ChainKeepsSaved
<1>6. Begins(SavedChain(cur), d)
  <2>1. Len(SavedChain(cur)) <= Len(d)
    BY <1>1, <1>2, <1>3, <1>5 DEF Begins
  <2> QED
    BY <1>1, <1>3, <1>5, <2>1 DEF Begins
<1>7. Begins(d, chain)
  BY <1>1, <1>3 DEF Begins
<1>8. ChainKeepsSaved'
  BY <1>4, <1>6 DEF ChainKeepsSaved
<1>9. ~ behind => Logged(d)
  BY <1>1, <1>3, <1>4, <1>7, LoggedBeginning DEF Keeping, LogKeepsChain
<1>10. LogKeepsChain'
  BY <1>4, <1>9, QuietLog DEF LogKeepsChain, Logged
<1> QED
  BY <1>8, <1>10

LEMMA RenameKeeps ==
  ASSUME Keeping, Sound', MoveAway \/ MoveIn
  PROVE  ChainKeepsSaved' /\ LogKeepsChain'
<1>1. /\ chain' = chain /\ behind' = behind /\ phase # "down" /\ phase' \notin {"down", "run", "switch"}
      /\ UNCHANGED <<index, blocks, buffered>>
  BY DEF MoveAway, MoveIn, logVars
<1>2. LogKeepsChain'
  BY <1>1, QuietLog DEF Keeping, LogKeepsChain, Logged
<1>3. chain \in Seq(Blocks) /\ Len(chain) \in Nat
  BY DEF Keeping, Sound, ChainsOK
<1>4. Begins(SavedChain(cur'), chain)
  <2>1. CASE cur' = cur
    BY <1>1, <2>1 DEF Keeping, ChainKeepsSaved
  <2>2. CASE cur' = None
    BY <1>3, <2>2 DEF SavedChain, Begins
  <2>3. CASE MoveIn
    <3>1. tmp \in Directories /\ SavedFor(tmp, chain) /\ cur' = tmp
      BY <2>3 DEF Keeping, Sound, DirsOK, MoveIn
    <3>2. SavedChain(tmp) = chain
      BY <1>3, <3>1, SavedForIs
    <3> QED
      BY <1>3, <3>1, <3>2 DEF Begins
  <2> QED
    BY <2>1, <2>2, <2>3 DEF MoveAway
<1>5. ChainKeepsSaved'
  BY <1>1, <1>4 DEF ChainKeepsSaved
<1> QED
  BY <1>2, <1>5

LEMMA CloseLogKeeps ==
  ASSUME Keeping, Sound', CloseLog
  PROVE  ChainKeepsSaved' /\ LogKeepsChain'
<1>1. phase # "down" /\ phase' = "down" /\ cur' = cur /\ behind' = behind /\ buffered' = Nothing
  BY DEF CloseLog, dirVars
<1>2. /\ LogsOK /\ SavedChain(cur) \in Seq(Blocks) /\ chain \in Seq(Blocks)
      /\ Begins(SavedChain(cur), chain)
  BY <1>1, SavedTyped DEF Keeping, Sound, ChainsOK, ChainKeepsSaved
<1>3. Log' = Log /\ Readable \subseteq Readable'
  BY <1>2, CloseLogIs
<1>4. ~ behind => Logged(SavedChain(cur))
  BY <1>1, <1>2, LoggedBeginning DEF Keeping, LogKeepsChain
<1>5. LogKeepsChain'
  BY <1>1, <1>3, <1>4 DEF LogKeepsChain, Logged
<1>6. ChainKeepsSaved'
  BY <1>1 DEF ChainKeepsSaved
<1> QED
  BY <1>5, <1>6

LEMMA KillKeeps ==
  ASSUME Keeping, Sound', Kill
  PROVE  ChainKeepsSaved' /\ LogKeepsChain'
<1>1. /\ phase' = "down" /\ cur' = cur /\ index' = index /\ blocks' = blocks /\ buffered' = Nothing
      /\ behind' = (behind \/ ~ Covered(index, blocks))
  BY DEF Kill, dirVars
<1>2. buffered'.entry = None
  BY <1>1 DEF Nothing
<1>3. Log' = index /\ blocks \subseteq Readable'
  BY <1>1, <1>2 DEF Log, Readable, WithEntry
<1>4. DirsOK /\ index \in Logs
  BY DEF Keeping, Sound, LogsOK
<1>5. ~ behind' => /\ Begins(SavedChain(cur), index)
                   /\ \A k \in 1..Len(SavedChain(cur)) : SavedChain(cur)[k] \in blocks
  BY <1>1, <1>4, CoveredPointwise
<1>6. LogKeepsChain'
  BY <1>1, <1>3, <1>5 DEF LogKeepsChain, Logged
<1>7. ChainKeepsSaved'
  BY <1>1 DEF ChainKeepsSaved
<1> QED
  BY <1>6, <1>7

(* A stopped process holds nothing back. *)
LEMMA DownLogged ==
  ASSUME Keeping, phase = "down"
  PROVE  /\ buffered = Nothing /\ Log = index
         /\ ~ behind => /\ Begins(SavedChain(cur), index)
                        /\ \A k \in 1..Len(SavedChain(cur)) : SavedChain(cur)[k] \in blocks
<1>1. buffered = Nothing
  BY DEF Keeping, ChainKeepsSaved
<1>2. buffered.entry = None /\ buffered.block = None
  BY <1>1 DEF Nothing
<1>3. Log = index /\ Readable = blocks \cup {None}
  BY <1>2 DEF Log, Readable, WithEntry
<1>4. SavedChain(cur) \in Seq(Blocks)
  BY SavedTyped DEF Keeping, Sound
<1>5. \A k \in 1..Len(SavedChain(cur)) : SavedChain(cur)[k] # None
  BY <1>4, NoneAssumption
<1> QED
  BY <1>1, <1>3, <1>5 DEF Keeping, LogKeepsChain, Logged

LEMMA NextKeeping == Keeping /\ [Next]_vars => Keeping'
<1> SUFFICES ASSUME Keeping, [Next]_vars PROVE Keeping'
  OBVIOUS
<1>1. Sound'
  BY NextSound DEF Keeping
<1>2. SUFFICES ChainKeepsSaved' /\ LogKeepsChain'
  BY <1>1 DEF Keeping
<1>3. CASE WriteOutBlock \/ WriteOutEntry
  <2>1. Log' = Log /\ Readable \subseteq Readable'
    BY <1>3, WriteOutIs DEF Keeping, Sound
  <2>2. UNCHANGED <<chain, floor, cur, behind, phase>>
    BY <1>3 DEF WriteOutBlock, WriteOutEntry, dirVars
  <2>3. phase # "down"
    <3>1. buffered # Nothing
      BY <1>3 DEF WriteOutBlock, WriteOutEntry, Nothing
    <3> QED
      BY <3>1 DEF Keeping, ChainKeepsSaved
  <2> QED
    BY <1>1, <2>1, <2>2, <2>3, QuietKeeps
<1>4. CASE \E b \in Blocks : PushBlock(b)
  BY <1>1, <1>4, PushBlockKeeps
<1>5. CASE \E b \in Blocks : StartSwitch(b)
  BY <1>1, <1>5, StartSwitchKeeps
<1>6. CASE SwitchBlock
  BY <1>1, <1>6, SwitchBlockKeeps
<1>7. CASE BeginClose
  BY <1>1, <1>7, BeginCloseKeeps
<1>8. CASE (\E t \in Types : SaveIndex(t)) \/ Unlock \/ RemoveOld
  <2>1. /\ UNCHANGED <<chain, floor, cur, behind, index, blocks, buffered>>
        /\ phase # "down" /\ phase' \notin {"down", "run", "switch"}
    BY <1>8 DEF SaveIndex, Unlock, RemoveOld, logVars
  <2> QED
    BY <1>1, <2>1, QuietLog, QuietKeeps
<1>9. CASE MoveAway \/ MoveIn
  BY <1>1, <1>9, RenameKeeps
<1>10. CASE CloseLog
  BY <1>1, <1>10, CloseLogKeeps
<1>11. CASE Kill
  BY <1>1, <1>11, KillKeeps
<1>12. CASE Start
  <2>1. Open(cur, "open") /\ cur' = cur /\ behind' = behind /\ phase = "down"
    BY <1>12 DEF Start, Open
  <2>2. behind' \in BOOLEAN
    BY <1>1 DEF Sound, FlagsOK
  <2> QED
    BY <1>1, <2>1, <2>2, DownLogged, OpenKeeps DEF Keeping
<1>13. CASE StartWithReplay
  <2>1. Open(None, "replay") /\ cur' = None /\ behind' = FALSE /\ phase = "down"
    BY <1>13 DEF StartWithReplay, Open
  <2>2. Begins(SavedChain(None), index) /\ \A k \in 1..Len(SavedChain(None)) : SavedChain(None)[k] \in blocks
    BY DEF SavedChain, Begins, Keeping, Sound, LogsOK, Logs
  <2>3. buffered = Nothing /\ Sound
    BY <2>1, DownLogged DEF Keeping
  <2> QED
    BY <1>1, <2>1, <2>2, <2>3, OpenKeeps
<1>14. CASE UNCHANGED vars
  BY <1>14 DEF vars, logVars, dirVars, Keeping, ChainKeepsSaved, LogKeepsChain, Logged, Log, Readable
<1> QED
  BY <1>3, <1>4, <1>5, <1>6, <1>7, <1>8, <1>9, <1>10, <1>11, <1>12, <1>13, <1>14 DEF Next

(* The second part: store(), close() and open() keep the log and the saved state together. *)
THEOREM KeepsCovered == Spec => []Keeping
BY InitKeeping, NextKeeping, PTL DEF Spec

(* Until a kill takes what the streams hold back, every block of the saved *)
(* state can be read at its number, whatever forks the node has followed.  *)
THEOREM LogCovers == Spec => []LogCoversSavedState
<1>1. Keeping => LogCoversSavedState
  <2> SUFFICES ASSUME Keeping, ~ behind
               PROVE  Covered(WithEntry(index, buffered.entry), blocks \cup {buffered.block})
    BY DEF LogCoversSavedState
  <2>1. LogsOK /\ DirsOK /\ SavedChain(cur) \in Seq(Blocks) /\ chain \in Seq(Blocks)
    BY SavedTyped DEF Keeping, Sound, ChainsOK
  <2>2. Logged(SavedChain(cur))
    <3>1. CASE phase = "down"
      BY <3>1 DEF Keeping, LogKeepsChain
    <3>2. CASE phase # "down"
      BY <2>1, <3>2, LoggedBeginning DEF Keeping, LogKeepsChain, ChainKeepsSaved
    <3> QED
      BY <3>1, <3>2
  <2>3. Covered(Log, Readable)
    BY <2>1, <2>2, LogTyped, CoveredPointwise DEF Logged
  <2> QED
    BY <2>3 DEF Log, Readable
<1> QED
  BY <1>1, KeepsCovered, PTL

-----------------------------------------------------------------------------
(* The inductive invariant, third part: the log is a chain, unless a kill  *)
(* comes in the middle of a fork switch                                    *)

(* The log of a node that is not in a switch is a chain, and the streams   *)
(* hold back no more than its last block and entry.                        *)
LogIsChain ==
    /\ Log \in Chains
    /\ \A k \in 1..Len(Log) : Log[k] \in Readable
    /\ buffered.entry # None => Number[buffered.entry] = Len(index) + 1
    /\ buffered.block # None => buffered.block = Log[Len(Log)]
    /\ Begins(chain, Log)
    /\ phase = "run" => Log = chain

(* In a switch the entries of the old branch do not reach to its end. *)
LogInSwitch == Logged(chain) /\ Len(Log) < Len(chain) + Len(todo)

(* Of a stopped node, only the last block may be unreadable, and the saved *)
(* state and the log do not contradict each other.                         *)
Agree(c, f) == \A k \in 1..Len(c) : k \in 1..Len(f) => c[k] = f[k]
LogOnDisk ==
    /\ index \in Chains
    /\ \A k \in 1..Len(index) : k < Len(index) => index[k] \in blocks
    /\ Agree(SavedChain(cur), index)

(* The first block was lost: nothing of the log will ever be replayed. *)
NoFirst(f) == f = << >> \/ f[1] = None
LogLost == NoFirst(Log) /\ (phase \in {"run", "switch"} => chain # << >>)

LogInOrder ==
    /\ floor >= 1
    /\ phase \notin {"switch", "down"} => LogIsChain \/ LogLost
    /\ phase = "switch" => LogInSwitch \/ LogLost
    /\ phase = "down" => LogOnDisk \/ NoFirst(index)

(* The next block on a log that ends with the chain. *)
LEMMA EntryAtEnd ==
  ASSUME NEW f \in Logs, NEW c \in Seq(Blocks), NEW b \in Blocks, Begins(c, f), Len(f) = Len(c),
         Number[b] = Len(c) + 1
  PROVE  WithEntry(f, b) = Append(c, b)
<1> DEFINE d == Append(c, b)
           g == WithEntry(f, b)
<1>1. Len(c) \in Nat /\ Len(f) \in Nat
  BY DEF Logs
<1>2. d \in Seq(Blocks \cup {None}) /\ Len(d) = Len(c) + 1
  BY <1>1
<1>3. g \in Seq(Blocks \cup {None}) /\ Len(g) = Len(c) + 1
  BY <1>1, WithEntryIs DEF Logs
<1>4. Begins(d, g)
  BY EntryExtends
<1> HIDE DEF d, g
<1>5. \A k \in 1..Len(g) : g[k] = d[k]
  BY <1>2, <1>3, <1>4 DEF Begins
<1>6. g = d
  BY <1>2, <1>3, <1>5, SeqEqual
<1> QED
  BY <1>6 DEF d, g

(* A log without a first entry stays so when another entry is written. *)
LEMMA NoFirstStays ==
  ASSUME NEW f \in Logs, NoFirst(f), NEW b \in Blocks, Number[b] # 1
  PROVE  NoFirst(WithEntry(f, b))
<1>1. Number[b] \in Nat \ {0} /\ Len(f) \in Nat
  BY NumberFacts DEF Logs
<1>2. CASE f = << >>
  BY <1>1, <1>2, WithEntryIs DEF NoFirst
<1>3. CASE f # << >>
  <2>1. 1 \in 1..Len(f) /\ f[1] = None
    BY <1>1, <1>3 DEF NoFirst, Logs
  <2> QED
    BY <1>1, <2>1, WithEntryIs DEF NoFirst
<1> QED
  BY <1>2, <1>3

(* A block that is stored at the end of the chain. *)
LEMMA StoreInOrder ==
  ASSUME Sound, Sound', NEW b \in Blocks, Store(b), Number[b] = Len(chain) + 1,
         chain' = Append(chain, b), phase' = "run",
         Begins(chain, Log), Len(Log) = Len(chain), \A k \in 1..Len(chain) : chain[k] \in Readable
  PROVE  LogIsChain'
<1>1. /\ LogsOK /\ chain \in Seq(Blocks) /\ Len(chain) \in Nat
      /\ Log \in Logs /\ chain' \in Chains /\ b # None
  <2>1. chain' \in Chains
    BY FirstPart DEF Sound, ChainsOK
  <2> QED
    BY <2>1, LogTyped, NoneAssumption DEF Sound, ChainsOK
<1>2. /\ index' = Log /\ Log' = WithEntry(Log, b)
      /\ buffered' = [block |-> b, entry |-> b]
  BY <1>1, StoreIs
<1>3. Log' = chain'
  BY <1>1, <1>2, EntryAtEnd
<1>4. Logged(chain)
  BY DEF Logged
<1>5. \A k \in 1..Len(chain') : chain'[k] \in Readable'
  BY <1>1, <1>4, StoreLogged
<1>6. buffered'.entry = b /\ buffered'.block = b
  BY <1>2
<1>7. Number[b] = Len(index') + 1
  BY <1>2
<1>8. b = Log'[Len(Log')]
  BY <1>1, <1>3
<1>9. Begins(chain', Log')
  BY <1>1, <1>3 DEF Begins, Chains
<1> QED
  BY <1>1, <1>3, <1>5, <1>6, <1>7, <1>8, <1>9 DEF LogIsChain

(* Steps that leave the log as it would be read *)
LEMMA QuietInOrder ==
  ASSUME Keeping, LogInOrder, Log' = Log, Readable' = Readable, UNCHANGED <<floor, index, buffered>>,
         phase \notin {"switch", "down"}, phase' \notin {"run", "switch", "down"},
         chain' \in Seq(Blocks), Begins(chain', chain)
  PROVE  LogInOrder'
<1>1. LogIsChain => LogIsChain'
  <2> SUFFICES ASSUME LogIsChain PROVE LogIsChain'
    OBVIOUS
  <2>1. chain \in Seq(Blocks) /\ Log \in Seq(Blocks)
    BY DEF Keeping, Sound, ChainsOK, LogIsChain, Chains
  <2>2. Begins(chain', Log)
    BY <2>1, BeginsTransitive DEF LogIsChain
  <2> QED
    BY <2>2 DEF LogIsChain
<1>2. LogLost => LogLost'
  BY DEF LogLost
<1> QED
  BY <1>1, <1>2 DEF LogInOrder

LEMMA WriteOutInOrder ==
  ASSUME Keeping, LogInOrder, WriteOutBlock \/ WriteOutEntry
  PROVE  LogInOrder'
<1>1. /\ Log' = Log /\ Readable \subseteq Readable'
      /\ \/ buffered'.entry = None /\ buffered'.block = buffered.block /\ index' = Log
         \/ buffered'.block = None /\ buffered'.entry = buffered.entry /\ index' = index
  BY WriteOutIs DEF Keeping, Sound
<1>2. UNCHANGED <<phase, chain, todo, floor>>
  BY DEF WriteOutBlock, WriteOutEntry
<1>3. phase # "down"
  <2>1. buffered # Nothing
    BY DEF WriteOutBlock, WriteOutEntry, Nothing
  <2> QED
    BY <2>1 DEF Keeping, ChainKeepsSaved
<1>4. LogIsChain => LogIsChain'
  <2> SUFFICES ASSUME LogIsChain PROVE LogIsChain'
    OBVIOUS
  <2>1. buffered'.entry # None => Number[buffered'.entry] = Len(index') + 1
    BY <1>1 DEF LogIsChain
  <2>2. buffered'.block # None => buffered'.block = Log'[Len(Log')]
    BY <1>1 DEF LogIsChain
  <2> QED
    BY <1>1, <1>2, <2>1, <2>2 DEF LogIsChain
<1>5. LogLost => LogLost'
  BY <1>1, <1>2 DEF LogLost
<1>6. LogInSwitch => LogInSwitch'
  BY <1>1, <1>2 DEF LogInSwitch, Logged
<1> QED
  BY <1>2, <1>3, <1>4, <1>5, <1>6 DEF LogInOrder

(* The next block on a log without its first *)
LEMMA StoreLost ==
  ASSUME Sound, LogLost, NEW b \in Blocks, Store(b), Number[b] = Len(chain) + 1,
         chain' = Append(chain, b), phase \in {"run", "switch"}
  PROVE  LogLost'
<1>1. LogsOK /\ chain \in Seq(Blocks) /\ chain # << >> /\ NoFirst(Log)
  BY DEF Sound, ChainsOK, LogLost
<1>2. Log' = WithEntry(Log, b) /\ Number[b] # 1
  BY <1>1, StoreIs
<1>3. NoFirst(Log')
  BY <1>1, <1>2, LogTyped, NoFirstStays
<1>4. chain' # << >>
  BY <1>1
<1> QED
  BY <1>3, <1>4 DEF LogLost, NoFirst

LEMMA PushBlockInOrder ==
  ASSUME Keeping, Sound', LogInOrder, NEW b \in Blocks, PushBlock(b)
  PROVE  LogInOrder'
<1>1. chain \in Chains /\ Sound /\ chain \in Seq(Blocks)
  BY ChainIsChain DEF Keeping, Sound, ChainsOK
<1>2. Parent[b] = IF chain = << >> THEN Genesis ELSE chain[Len(chain)]
  BY DEF PushBlock, HeadId, Last
<1>3. Number[b] = Len(chain) + 1
  BY <1>1, <1>2, PushedNumber
<1>4. chain' = Append(chain, b) /\ Store(b) /\ phase = "run" /\ phase' = "run" /\ floor' = floor
  BY DEF PushBlock
<1>5. CASE LogIsChain
  <2>1. Log = chain /\ Begins(chain, Log) /\ \A k \in 1..Len(chain) : chain[k] \in Readable
    BY <1>1, <1>4, <1>5 DEF LogIsChain, Begins
  <2>2. LogIsChain'
    BY <1>1, <1>3, <1>4, <2>1, StoreInOrder
  <2> QED
    BY <1>4, <2>2 DEF LogInOrder
<1>6. CASE LogLost
  <2>1. LogLost'
    BY <1>1, <1>3, <1>4, <1>6, StoreLost
  <2> QED
    BY <1>4, <2>1 DEF LogInOrder
<1> QED
  BY <1>4, <1>5, <1>6 DEF LogInOrder

LEMMA StartSwitchInOrder ==
  ASSUME Keeping, Sound', LogInOrder, NEW b \in Blocks, StartSwitch(b)
  PROVE  LogInOrder'
<1>1. chain \in Seq(Blocks) /\ LogsOK /\ floor \in Nat /\ floor >= 1 /\ Len(chain) \in Nat
  BY DEF Keeping, Sound, ChainsOK, LogsOK, LogInOrder
<1>2. /\ chain' \in Seq(Blocks) /\ Begins(chain', chain)
      /\ Len(chain') >= floor \/ Len(chain') = Len(chain)
      /\ Len(chain') + Len(todo') = Number[b] /\ Number[b] > Len(chain)
  BY <1>1, StartSwitchIs DEF Keeping, Sound
<1>3. phase = "run" /\ phase' = "switch" /\ UNCHANGED <<floor, index, blocks, buffered>>
  BY DEF StartSwitch, logVars
<1>4. Log' = Log /\ Readable' = Readable
  BY <1>3, QuietLog
<1>5. CASE LogIsChain
  <2>1. Log = chain /\ Begins(chain, Log) /\ \A k \in 1..Len(chain) : chain[k] \in Readable
    BY <1>1, <1>3, <1>5 DEF LogIsChain, Begins
  <2>2. Logged(chain)
    BY <2>1 DEF Logged
  <2> DEFINE d == chain'
  <2>3. d \in Seq(Blocks) /\ Begins(d, chain)
    BY <1>2
  <2> HIDE DEF d
  <2>4. Logged(d)
    BY <1>1, <2>2, <2>3, LoggedBeginning
  <2>5. Logged(chain)'
    BY <1>4, <2>4 DEF Logged, d
  <2>6. Len(Log') < Len(chain') + Len(todo')
    BY <1>2, <1>4, <2>1
  <2>7. LogInSwitch'
    BY <2>5, <2>6 DEF LogInSwitch
  <2> QED
    BY <1>1, <1>3, <2>7 DEF LogInOrder
<1>6. CASE LogLost
  <2>1. chain # << >>
    BY <1>3, <1>6 DEF LogLost
  <2>2. Len(chain) > 0
    BY <1>1, <2>1
  <2>3. chain' # << >>
    BY <1>1, <1>2, <2>2
  <2>4. LogLost'
    BY <1>4, <1>6, <2>3 DEF LogLost
  <2> QED
    BY <1>1, <1>3, <2>4 DEF LogInOrder
<1> QED
  BY <1>3, <1>5, <1>6 DEF LogInOrder

LEMMA SwitchBlockInOrder ==
  ASSUME Keeping, Sound', LogInOrder, SwitchBlock
  PROVE  LogInOrder'
<1> DEFINE b == Head(todo)
<1>1. /\ chain \in Chains /\ chain \in Seq(Blocks) /\ todo \in Seq(Blocks) /\ todo # << >> /\ Sound /\ LogsOK
      /\ Len(chain) \in Nat /\ Len(todo) \in Nat
  BY ChainIsChain DEF Keeping, Sound, ChainsOK, SwitchBlock
<1>2. /\ b \in Blocks /\ chain' = Append(chain, b) /\ Len(todo') = Len(todo) - 1
      /\ Parent[b] = IF chain = << >> THEN Genesis ELSE chain[Len(chain)]
  BY SwitchBlockIs DEF Keeping, Sound
<1>3. /\ Store(b) /\ phase = "switch" /\ phase' = (IF Len(todo) = 1 THEN "run" ELSE "switch")
      /\ floor' = floor
  BY DEF SwitchBlock
<1> HIDE DEF b
<1>4. Number[b] = Len(chain) + 1
  BY <1>1, <1>2, PushedNumber
<1>5. CASE LogInSwitch
  <2>1. Begins(chain, Log) /\ (\A k \in 1..Len(chain) : chain[k] \in Readable) /\ Len(Log) < Len(chain) + Len(todo)
    BY <1>5 DEF LogInSwitch, Logged
  <2>2. Log \in Logs /\ Len(Log) \in Nat
    BY <1>1, LogTyped DEF Logs
  <2>3. CASE Len(todo) = 1
    <3>1. Len(Log) = Len(chain)
      BY <1>1, <2>1, <2>2, <2>3 DEF Begins
    <3>2. LogIsChain'
      BY <1>1, <1>2, <1>3, <1>4, <2>1, <2>3, <3>1, StoreInOrder
    <3> QED
      BY <1>3, <2>3, <3>2 DEF LogInOrder
  <2>4. CASE Len(todo) # 1
    <3>1. Logged(chain)'
      BY <1>1, <1>2, <1>3, <1>4, <1>5, StoreLogged DEF LogInSwitch, Logged
    <3>2. Log' = WithEntry(Log, b)
      BY <1>1, <1>2, <1>3, StoreIs
    <3>3. Len(Log') = IF Number[b] > Len(Log) THEN Number[b] ELSE Len(Log)
      BY <1>2, <2>2, <3>2, WithEntryIs
    <3>4. Len(chain') = Len(chain) + 1 /\ Len(todo) > 1
      BY <1>1, <1>2, <2>4
    <3>5. Len(Log') < Len(chain') + Len(todo')
      BY <1>1, <1>2, <1>4, <2>1, <2>2, <3>3, <3>4
    <3>6. LogInSwitch'
      BY <3>1, <3>5 DEF LogInSwitch
    <3> QED
      BY <1>3, <2>4, <3>6 DEF LogInOrder
  <2> QED
    BY <2>3, <2>4
<1>6. CASE LogLost
  <2>1. LogLost'
    BY <1>1, <1>2, <1>3, <1>4, <1>6, StoreLost
  <2> QED
    BY <1>3, <2>1 DEF LogInOrder
<1> QED
  BY <1>3, <1>5, <1>6 DEF LogInOrder

(* The saved state is part of such a log. *)
LEMMA SavedInLog ==
  ASSUME Keeping, LogIsChain, phase # "down"
  PROVE  Agree(SavedChain(cur), Log)
<1>1. /\ SavedChain(cur) \in Seq(Blocks) /\ chain \in Seq(Blocks) /\ Log \in Seq(Blocks)
      /\ Begins(SavedChain(cur), chain) /\ Begins(chain, Log)
  BY SavedTyped DEF Keeping, Sound, ChainsOK, ChainKeepsSaved, LogIsChain, Chains
<1>2. Begins(SavedChain(cur), Log)
  BY <1>1, BeginsTransitive
<1> QED
  BY <1>2 DEF Begins, Agree

LEMMA CloseLogInOrder ==
  ASSUME Keeping, LogInOrder, CloseLog
  PROVE  LogInOrder'
<1>1. LogsOK /\ phase \notin {"switch", "down", "run"} /\ phase' = "down" /\ floor' = floor
  BY DEF Keeping, Sound, CloseLog
<1>2. index' = Log /\ blocks' = Readable \ {None}
  BY <1>1, CloseLogIs
<1>3. CASE LogIsChain
  <2>1. index' \in Chains /\ index' \in Seq(Blocks)
    BY <1>2, <1>3 DEF LogIsChain, Chains
  <2>2. \A k \in 1..Len(index') : index'[k] \in Readable /\ index'[k] # None
    BY <1>2, <1>3, <2>1, NoneAssumption DEF LogIsChain
  <2>3. Agree(SavedChain(cur), Log) /\ cur' = cur
    BY <1>1, <1>3, SavedInLog DEF CloseLog, dirVars
  <2>4. LogOnDisk'
    BY <1>2, <2>1, <2>2, <2>3 DEF LogOnDisk
  <2> QED
    BY <1>1, <2>4 DEF LogInOrder
<1>4. CASE LogLost
  BY <1>1, <1>2, <1>4 DEF LogInOrder, LogLost
<1> QED
  BY <1>1, <1>3, <1>4 DEF LogInOrder

(* A kill costs no more than the last block and its entry. *)
LEMMA KillInOrder ==
  ASSUME ~ KillInSwitch, Keeping, LogInOrder, Kill
  PROVE  LogInOrder'
<1>1. /\ LogsOK /\ phase \notin {"switch", "down"} /\ phase' = "down" /\ floor' = floor
      /\ index' = index /\ blocks' = blocks /\ cur' = cur
  BY DEF Keeping, Sound, Kill, dirVars
<1>2. /\ index \in Logs /\ Len(index) \in Nat /\ Log \in Logs /\ Len(Log) \in Nat
      /\ buffered.entry \in Blocks \cup {None} /\ blocks \subseteq Blocks
  BY <1>1, LogTyped DEF LogsOK, Logs, Buffers
<1>3. buffered.entry = None => Log = index
  BY DEF Log, WithEntry
<1>4. CASE LogIsChain
  <2>1. Log \in Chains /\ Log \in Seq(Blocks)
    BY <1>4 DEF LogIsChain, Chains
  <2>2. Len(index) <= Len(Log) /\ \A k \in 1..Len(index) : Log[k] = index[k]
    <3>1. CASE buffered.entry = None
      BY <1>2, <1>3, <3>1
    <3>2. CASE buffered.entry # None
      <4>1. Number[buffered.entry] = Len(index) + 1 /\ buffered.entry \in Blocks
        BY <1>2, <1>4, <3>2 DEF LogIsChain
      <4> DEFINE b == buffered.entry
      <4>2. Log = WithEntry(index, b) /\ b \in Blocks /\ Number[b] = Len(index) + 1
        BY <4>1 DEF Log
      <4> HIDE DEF b
      <4>3. /\ Len(Log) = IF Number[b] > Len(index) THEN Number[b] ELSE Len(index)
            /\ \A k \in 1..Len(index) : k # Number[b] => Log[k] = index[k]
        <5>1. index \in Logs /\ b \in Blocks
          BY <1>2, <4>2
        <5>2. /\ Len(WithEntry(index, b)) = IF Number[b] > Len(index) THEN Number[b] ELSE Len(index)
              /\ \A k \in 1..Len(index) : k # Number[b] => WithEntry(index, b)[k] = index[k]
          BY <5>1, WithEntryIs, Zenon
        <5> QED
          BY <4>2, <5>2, Zenon
      <4> DEFINE len == Len(index)
      <4>4. len \in Nat /\ Number[b] = len + 1
        BY <1>2, <4>2
      <4>5. \A k \in 1..len : k # Number[b]
        BY <4>4
      <4>6. Len(Log) = len + 1
        BY <4>3, <4>4
      <4>7. \A k \in 1..len : Log[k] = index[k]
        BY <4>3, <4>5, Zenon
      <4> QED
        BY <4>4, <4>6, <4>7
    <3> QED
      BY <3>1, <3>2
  <2>3. index \in Chains
    <3> DEFINE s == SubSeq(Log, 1, Len(index))
    <3>1. s \in Chains /\ Len(s) = Len(index) /\ \A k \in 1..Len(index) : s[k] = Log[k]
      BY <1>2, <2>1, <2>2, ChainBeginning
    <3> HIDE DEF s
    <3>2. s \in Seq(Blocks \cup {None}) /\ index \in Seq(Blocks \cup {None})
      BY <1>2, <3>1 DEF Chains, Logs
    <3>3. \A k \in 1..Len(s) : s[k] = index[k]
      BY <2>2, <3>1
    <3>4. s = index
      BY <3>1, <3>2, <3>3, SeqEqual
    <3> QED
      BY <3>1, <3>4
  <2>4. ASSUME NEW k \in 1..Len(index), k < Len(index) PROVE index[k] \in blocks
    <3>1. k \in 1..Len(Log) /\ Log[k] = index[k] /\ k < Len(Log) /\ Len(Log) \in 1..Len(Log)
      BY <1>2, <2>2, <2>4
    <3>2. Log[k] \in Readable /\ Log[k] # None
      BY <1>4, <2>1, <3>1, NoneAssumption DEF LogIsChain
    <3>3. Log[k] # Log[Len(Log)]
      <4>1. Number[Log[k]] = k /\ Number[Log[Len(Log)]] = Len(Log)
        BY <2>1, <3>1, ChainNumbers
      <4> QED
        BY <3>1, <4>1
    <3>4. Log[k] # buffered.block
      BY <1>4, <3>2, <3>3 DEF LogIsChain
    <3> QED
      BY <3>1, <3>2, <3>4 DEF Readable
  <2>5. Agree(SavedChain(cur), index)
    <3>1. Agree(SavedChain(cur), Log)
      BY <1>1, <1>4, SavedInLog
    <3>2. \A k \in 1..Len(index) : k \in 1..Len(Log)
      BY <1>2, <2>2
    <3> QED
      BY <2>2, <3>1, <3>2 DEF Agree
  <2>6. LogOnDisk'
    BY <1>1, <2>3, <2>4, <2>5 DEF LogOnDisk
  <2> QED
    BY <1>1, <2>6 DEF LogInOrder
<1>5. CASE LogLost
  <2>1. NoFirst(index)
    <3>1. CASE buffered.entry = None
      BY <1>3, <1>5, <3>1 DEF LogLost
    <3>2. CASE buffered.entry # None
      <4> DEFINE b == buffered.entry
      <4>1. b \in Blocks /\ Log = WithEntry(index, b) /\ Number[b] \in Nat \ {0}
        BY <1>2, <3>2, NumberFacts DEF Log
      <4>2. /\ Log[Number[b]] = b /\ Len(Log) = IF Number[b] > Len(index) THEN Number[b] ELSE Len(index)
            /\ \A k \in 1..Len(index) : k # Number[b] => Log[k] = index[k]
        BY <1>2, <4>1, WithEntryIs
      <4> HIDE DEF b
      <4>3. Log # << >> /\ Log[1] = None
        BY <1>2, <1>5, <4>1, <4>2 DEF LogLost, NoFirst
      <4>4. Number[b] # 1
        BY <4>1, <4>2, <4>3, NoneAssumption
      <4>5. CASE index = << >>
        BY <4>5 DEF NoFirst
      <4>6. CASE index # << >>
        <5>1. 1 \in 1..Len(index)
          BY <1>2, <4>6 DEF Logs
        <5> QED
          BY <4>2, <4>3, <4>4, <5>1 DEF NoFirst
      <4> QED
        BY <4>5, <4>6
    <3> QED
      BY <3>1, <3>2
  <2> QED
    BY <1>1, <2>1 DEF LogInOrder
<1> QED
  BY <1>1, <1>4, <1>5 DEF LogInOrder

(* What a start can read *)
LEMMA DiskReadable ==
  ASSUME LogsOK, LogOnDisk
  PROVE  Truncated \in Chains /\ \A k \in 1..Len(Truncated) : Truncated[k] \in blocks
<1>1. index \in Logs /\ Len(index) \in Nat /\ index \in Chains
  BY DEF LogsOK, LogOnDisk, Logs
<1>2. /\ Truncated \in Logs /\ Len(Truncated) \in Nat /\ Len(Truncated) <= Len(index)
      /\ \A k \in 1..Len(Truncated) : Truncated[k] = index[k]
      /\ Len(Truncated) > 0 => index[Len(Truncated)] \in blocks
      /\ Truncated = SubSeq(index, 1, Len(Truncated))
  <2>1. Truncated \in Logs
    BY <1>1, TruncatedIs
  <2>2. Len(Truncated) \in Nat
    BY <2>1 DEF Logs
  <2> QED
    BY <1>1, <2>1, <2>2, TruncatedIs
<1>3. Len(Truncated) \in 0..Len(index)
  BY <1>1, <1>2
<1>4. Truncated \in Chains
  BY <1>1, <1>2, <1>3, ChainBeginning
<1>5. ASSUME NEW k \in 1..Len(Truncated) PROVE Truncated[k] \in blocks
  <2>1. k \in 1..Len(index) /\ Len(Truncated) > 0
    BY <1>1, <1>2
  <2>2. CASE k < Len(index)
    BY <1>2, <2>1, <2>2 DEF LogOnDisk
  <2>3. CASE k = Len(index)
    <3>1. k = Len(Truncated)
      <4> DEFINE n == Len(Truncated)
      <4>1. n \in Nat /\ n <= Len(index) /\ k \in 1..n
        BY <1>2
      <4> HIDE DEF n
      <4>2. k = n
        BY <1>1, <2>3, <4>1
      <4> QED
        BY <4>2 DEF n
    <3> QED
      BY <1>2, <2>1, <3>1
  <2> QED
    BY <1>1, <2>1, <2>2, <2>3
<1> QED
  BY <1>4, <1>5

LEMMA NoFirstCut ==
  ASSUME NEW f \in Logs, NoFirst(f), NEW n \in 0..Len(f)
  PROVE  NoFirst(SubSeq(f, 1, n))
<1>1. CASE n = 0
  BY <1>1 DEF NoFirst, Logs
<1>2. CASE n # 0
  <2>1. Len(f) \in Nat /\ f # << >> /\ 1 \in 1..n
    BY <1>2 DEF Logs
  <2>2. SubSeq(f, 1, n)[1] = f[1]
    BY <1>2, <2>1 DEF Logs
  <2> QED
    BY <2>1, <2>2 DEF NoFirst
<1> QED
  BY <1>1, <1>2

LEMMA NoFirstNothing ==
  ASSUME NEW f \in Logs, NoFirst(f), NEW c \in Seq(Blocks), Begins(c, f)
  PROVE  c = << >>
<1> SUFFICES ASSUME c # << >> PROVE FALSE
  OBVIOUS
<1>1. Len(c) \in Nat \ {0} /\ Len(f) \in Nat
  BY EmptySeq DEF Logs
<1>2. 1 \in 1..Len(c) /\ f # << >> /\ f[1] = c[1] /\ c[1] \in Blocks
  BY <1>1 DEF Begins
<1> QED
  BY <1>2, NoneAssumption DEF NoFirst

(* open() takes a state that the log covers, with everything behind it. *)
LEMMA NotRefused ==
  ASSUME LogsOK, LogOnDisk \/ NoFirst(index),
         NEW c \in Seq(Blocks), Begins(c, index), \A k \in 1..Len(c) : c[k] \in blocks
  PROVE  ~ Refuses(c, Truncated) /\ c \o ToReplay(c, Truncated) \in Chains
<1> DEFINE log == Truncated
           all == c \o ToReplay(c, log)
<1>1. all \in Seq(Blocks) /\ Begins(all, log) /\ Begins(c, log)
  BY ReplayLogged
<1>2. index \in Logs /\ log \in Logs
  BY TruncatedIs DEF LogsOK
<1>3. Len(log) \in Nat /\ Len(index) \in Nat /\ Len(c) \in Nat /\ Len(all) \in Nat /\ Len(all) <= Len(log)
  BY <1>1, <1>2 DEF Logs, Begins
<1>4. all \in Chains
  <2>1. CASE LogOnDisk
    <3>1. log \in Chains
      BY <2>1, DiskReadable
    <3> HIDE DEF log, all
    <3> DEFINE s == SubSeq(log, 1, Len(all))
    <3>2. Len(all) \in 0..Len(log)
      BY <1>3
    <3>3. s \in Chains /\ Len(s) = Len(all) /\ \A k \in 1..Len(all) : s[k] = log[k]
      BY <3>1, <3>2, ChainBeginning
    <3> HIDE DEF s
    <3>4. s \in Seq(Blocks) /\ \A k \in 1..Len(s) : s[k] = all[k]
      BY <1>1, <3>3 DEF Chains, Begins
    <3>5. s = all
      BY <1>1, <3>3, <3>4, SeqEqual
    <3> QED
      BY <3>3, <3>5
  <2>2. CASE NoFirst(index)
    <3>1. log = SubSeq(index, 1, Len(log)) /\ Len(log) <= Len(index)
      BY <1>2, TruncatedIs
    <3>2. Len(log) \in 0..Len(index)
      BY <1>3, <3>1
    <3>3. NoFirst(log)
      BY <1>2, <2>2, <3>1, <3>2, NoFirstCut
    <3> HIDE DEF log, all
    <3>4. all = << >>
      BY <1>1, <1>2, <3>3, NoFirstNothing
    <3> QED
      BY <3>4, ChainEmpty
  <2> QED
    BY <2>1, <2>2
<1> HIDE DEF log
<1>5. ~ (Len(log) < Len(c))
  BY <1>1, <1>3 DEF Begins
<1>6. log # << >> /\ Len(log) = Len(c) => <<Last(log), Last(c)>> \notin IdLess
  <2> SUFFICES ASSUME log # << >>, Len(log) = Len(c) PROVE <<Last(log), Last(c)>> \notin IdLess
    OBVIOUS
  <2>1. Len(log) # 0
    BY <1>2 DEF Logs
  <2>2. Len(c) \in 1..Len(c) /\ c[Len(c)] \in Blocks
    BY <1>3, <2>1
  <2>3. Last(log) = c[Len(c)] /\ Last(c) = c[Len(c)]
    BY <1>1, <2>2 DEF Begins, Last
  <2> QED
    BY <2>2, <2>3, IdAssumption
<1> QED
  BY <1>4, <1>5, <1>6 DEF Refuses, Chains, log

LEMMA OpenInOrder ==
  ASSUME Keeping, LogInOrder, NEW dir \in {cur, None}, NEW how, Open(dir, how), cur' = dir
  PROVE  LogInOrder'
<1> DEFINE c == SavedChain(dir)
           log == Truncated
           new == ToReplay(c, log)
           all == c \o new
           m == Min({Len(log), Len(all)})
<1>1. /\ dir \in Directories \cup {None} /\ (dir # None => Whole(dir)) /\ LogsOK
      /\ index \in Logs /\ blocks \subseteq Blocks
  BY DEF Keeping, Sound, DirsOK, LogsOK
<1>2. /\ phase = "down"
      /\ \/ index' = log /\ phase' = "down"
         \/ ~ Refuses(c, log) /\ index' = SubSeq(log, 1, m) /\ phase' = "run" /\ chain' = all
      /\ floor' = IF c = << >> \/ new = << >> THEN Len(c) + 1 ELSE Len(c)
      /\ UNCHANGED <<todo, blocks, buffered, tmp, old>>
  BY <1>1, OpenIs
<1>3. c \in Seq(Blocks) /\ Len(c) \in Nat /\ (c # << >> => Len(c) > 0)
  BY <1>1, SavedChainIs, EmptySeq
<1>4. log \in Logs /\ Len(log) \in Nat /\ log = SubSeq(index, 1, Len(log)) /\ Len(log) \in 0..Len(index)
  <2>1. log \in Logs
    BY <1>1, TruncatedIs
  <2>2. Len(log) \in Nat /\ Len(index) \in Nat
    BY <1>1, <2>1 DEF Logs
  <2> QED
    BY <1>1, <2>1, <2>2, TruncatedIs
<1>5. new \in Seq(Blocks) /\ all \in Seq(Blocks) /\ Len(all) = Len(c) + Len(new) /\ Len(new) \in Nat
  BY <1>1, <1>3, <1>4, ToReplayIs
<1>6. buffered' = Nothing
  BY <1>2, DownLogged
<1>7. buffered'.entry = None /\ buffered'.block = None
  BY <1>6 DEF Nothing
<1>8. Log' = index' /\ Readable' = blocks \cup {None}
  BY <1>2, <1>7 DEF Log, Readable, WithEntry
<1>9. floor' >= 1
  BY <1>2, <1>3
<1>10. m \in 0..Len(log)
  <2> DEFINE x == Len(log)
             y == Len(all)
  <2>1. x \in Nat /\ y \in Nat
    BY <1>3, <1>4, <1>5
  <2> HIDE DEF x, y
  <2>2. Min({x, y}) \in 0..x
    BY <2>1, MinTwo
  <2> QED
    BY <2>2 DEF x, y
<1>11. (LogOnDisk => log \in Chains /\ \A k \in 1..Len(log) : log[k] \in blocks)
  BY <1>1, DiskReadable
<1>12. NoFirst(index) => NoFirst(log)
  BY <1>1, <1>4, NoFirstCut
<1>13. ASSUME Begins(c, index), \A k \in 1..Len(c) : c[k] \in blocks
       PROVE  all \in Chains /\ SubSeq(log, 1, m) = all /\ \A k \in 1..Len(all) : all[k] \in blocks
  <2>1. LogOnDisk \/ NoFirst(index)
    BY <1>2 DEF LogInOrder
  <2>2. all \in Chains
    BY <1>1, <1>3, <1>13, <2>1, NotRefused
  <2>3. SubSeq(log, 1, m) = all /\ \A k \in 1..Len(all) : all[k] \in blocks
    BY <1>1, <1>3, <1>13, ReplayLogged
  <2> QED
    BY <2>2, <2>3
<1>14. ASSUME phase' = "run", Begins(c, index), \A k \in 1..Len(c) : c[k] \in blocks
       PROVE  LogInOrder'
  <2>1. Log' = all /\ chain' = all /\ all \in Chains /\ \A k \in 1..Len(all) : all[k] \in Readable'
    BY <1>2, <1>8, <1>13, <1>14
  <2>2. Begins(chain', Log')
    BY <1>5, <2>1 DEF Begins
  <2>3. LogIsChain'
    BY <1>7, <2>1, <2>2 DEF LogIsChain
  <2> QED
    BY <1>9, <1>14, <2>3 DEF LogInOrder
<1>15. ASSUME phase' = "run", c # << >>, NoFirst(log)
       PROVE  LogInOrder'
  <2>1. index' = SubSeq(log, 1, m) /\ chain' = all
    BY <1>2, <1>15
  <2>2. NoFirst(SubSeq(log, 1, m))
    BY <1>4, <1>10, <1>15, NoFirstCut
  <2>3. all # << >>
    BY <1>3, <1>5, <1>15
  <2>4. LogLost'
    BY <1>8, <2>1, <2>2, <2>3 DEF LogLost, NoFirst
  <2> QED
    BY <1>9, <1>15, <2>4 DEF LogInOrder
<1>16. LogOnDisk => Agree(c, index)
  <2>1. CASE dir = cur
    BY <2>1 DEF LogOnDisk
  <2>2. CASE dir = None
    BY <2>2 DEF Agree, SavedChain
  <2> QED
    BY <2>1, <2>2
<1>17. CASE phase' = "down"
  <2>1. index' = log
    BY <1>2, <1>17
  <2>2. LogOnDisk => LogOnDisk'
    <3> SUFFICES ASSUME LogOnDisk PROVE LogOnDisk'
      OBVIOUS
    <3>1. log \in Chains /\ \A k \in 1..Len(log) : log[k] \in blocks
      BY <1>11
    <3>2. Agree(c, log)
      <4>1. \A k \in 1..Len(log) : k \in 1..Len(index) /\ log[k] = index[k]
        BY <1>1, <1>4, TruncatedIs
      <4> QED
        BY <1>16, <4>1 DEF Agree
    <3> QED
      BY <1>2, <2>1, <3>1, <3>2 DEF LogOnDisk
  <2> QED
    BY <1>2, <1>9, <1>12, <1>17, <2>1, <2>2 DEF LogInOrder, NoFirst
<1>18. CASE phase' = "run"
  <2>0. Len(index) \in Nat /\ \A k \in 1..Len(log) : log[k] = index[k]
    BY <1>1, TruncatedIs DEF Logs
  <2>1. CASE c = << >>
    BY <1>14, <1>18, <2>0, <2>1 DEF Begins
  <2>2. CASE c # << >> /\ NoFirst(index)
    BY <1>12, <1>15, <1>18, <2>2
  <2>3. CASE c # << >> /\ LogOnDisk
    <3>1. ~ Refuses(c, log)
      BY <1>2, <1>18
    <3>3. CASE log = << >>
      BY <1>15, <1>18, <2>3, <3>3 DEF NoFirst
    <3>4. CASE log # << >>
      <4>1. Len(c) <= Len(log)
        BY <1>3, <1>4, <3>1, <3>4 DEF Refuses
      <4>2. \A k \in 1..Len(c) : k \in 1..Len(log) /\ k \in 1..Len(index)
        BY <1>3, <1>4, <2>0, <4>1
      <4>3. \A k \in 1..Len(c) : c[k] = index[k]
        BY <1>16, <2>3, <4>2 DEF Agree
      <4>4. \A k \in 1..Len(c) : c[k] = log[k]
        BY <2>0, <4>2, <4>3
      <4>5. Begins(c, index)
        BY <1>3, <1>4, <2>0, <4>1, <4>3 DEF Begins
      <4>6. \A k \in 1..Len(c) : c[k] \in blocks
        BY <1>11, <2>3, <4>2, <4>4
      <4> QED
        BY <1>14, <1>18, <4>5, <4>6
    <3> QED
      BY <3>3, <3>4
  <2> QED
    BY <1>2, <2>1, <2>2, <2>3 DEF LogInOrder
<1> QED
  BY <1>2, <1>17, <1>18

Ordered == Keeping /\ LogInOrder

LEMMA InitOrdered == Init => Ordered
<1> SUFFICES ASSUME Init PROVE Ordered
  OBVIOUS
<1>1. Keeping
  BY InitKeeping
<1>2. phase = "run" /\ floor = 1 /\ chain = << >> /\ buffered.entry = None /\ buffered.block = None
  BY DEF Init, Nothing
<1>3. Log = << >>
  BY <1>2 DEF Init, Log, WithEntry
<1>4. LogIsChain
  BY <1>2, <1>3, ChainEmpty DEF LogIsChain, Begins
<1> QED
  BY <1>1, <1>2, <1>4 DEF Ordered, LogInOrder

LEMMA NextOrdered ==
  ASSUME ~ KillInSwitch
  PROVE  Ordered /\ [Next]_vars => Ordered'
<1> SUFFICES ASSUME Ordered, [Next]_vars PROVE Ordered'
  OBVIOUS
<1>1. Keeping' /\ Sound'
  BY NextKeeping DEF Ordered, Keeping
<1>2. SUFFICES LogInOrder'
  BY <1>1 DEF Ordered
<1>3. Keeping /\ LogInOrder
  BY DEF Ordered
<1>4. CASE WriteOutBlock \/ WriteOutEntry
  BY <1>3, <1>4, WriteOutInOrder
<1>5. CASE \E b \in Blocks : PushBlock(b)
  BY <1>1, <1>3, <1>5, PushBlockInOrder
<1>6. CASE \E b \in Blocks : StartSwitch(b)
  BY <1>1, <1>3, <1>6, StartSwitchInOrder
<1>7. CASE SwitchBlock
  BY <1>1, <1>3, <1>7, SwitchBlockInOrder
<1>8. CASE BeginClose \/ (\E t \in Types : SaveIndex(t)) \/ Unlock \/ MoveAway \/ MoveIn \/ RemoveOld
  <2>1. /\ UNCHANGED <<floor, index, blocks, buffered>>
        /\ phase \notin {"switch", "down"} /\ phase' \notin {"run", "switch", "down"}
    BY <1>8 DEF BeginClose, SaveIndex, Unlock, MoveAway, MoveIn, RemoveOld, logVars
  <2>2. chain \in Chains /\ chain \in Seq(Blocks) /\ floor \in Nat /\ Len(chain) \in Nat
    BY <1>3, ChainIsChain DEF Keeping, Sound, ChainsOK, LogsOK
  <2>3. chain' \in Seq(Blocks) /\ Begins(chain', chain)
    <3>1. CASE BeginClose
      <4>1. PICK n \in 0..Len(chain) : Rewound(chain) = SubSeq(chain, 1, n)
        BY <2>2, RewoundIs
      <4>2. chain' = SubSeq(chain, 1, n)
        BY <3>1, <4>1 DEF BeginClose
      <4> QED
        BY <2>2, <4>2 DEF Begins
    <3>2. CASE chain' = chain
      BY <2>2, <3>2 DEF Begins
    <3> QED
      BY <1>8, <3>1, <3>2 DEF SaveIndex, Unlock, MoveAway, MoveIn, RemoveOld
  <2> QED
    BY <1>3, <2>1, <2>3, QuietLog, QuietInOrder
<1>9. CASE CloseLog
  BY <1>3, <1>9, CloseLogInOrder
<1>10. CASE Kill
  BY <1>3, <1>10, KillInOrder
<1>11. CASE Start \/ StartWithReplay
  BY <1>3, <1>11, OpenInOrder DEF Start, StartWithReplay
<1>12. CASE UNCHANGED vars
  BY <1>3, <1>12 DEF vars, logVars, dirVars, LogInOrder, LogIsChain, LogInSwitch, LogLost, LogOnDisk,
                     Agree, NoFirst, Logged, Log, Readable
<1> QED
  BY <1>4, <1>5, <1>6, <1>7, <1>8, <1>9, <1>10, <1>11, <1>12 DEF Next

(* The third part: without kills in a fork switch, the log that open() finds is a chain. *)
THEOREM KeepsOrder == ASSUME ~ KillInSwitch PROVE Spec => []Ordered
<1>1. Ordered /\ [Next]_vars => Ordered'
  BY NextOrdered
<1> QED
  BY <1>1, InitOrdered, PTL DEF Spec

(* A start is refused only when the log does not cover the saved state, and *)
(* a start that replays everything is not refused.                          *)
LEMMA NextStarts ==
  ASSUME ~ KillInSwitch
  PROVE  Ordered /\ StartsAgain /\ ReplayOpens /\ [Next]_vars => StartsAgain' /\ ReplayOpens'
<1> SUFFICES ASSUME Ordered, StartsAgain, ReplayOpens, [Next]_vars
             PROVE  StartsAgain' /\ ReplayOpens'
  OBVIOUS
<1>1. Keeping /\ LogInOrder /\ Sound /\ LogsOK /\ DirsOK
  BY DEF Ordered, Keeping, Sound
<1>2. CASE Start
  <2>1. Open(cur, "open") /\ behind' = behind
    BY <1>2 DEF Start
  <2>2. cur \in Directories \cup {None} /\ (cur # None => Whole(cur))
    BY <1>1 DEF DirsOK
  <2>3. phase = "down" /\ (refused' = "no" \/ (refused' = "open" /\ Refuses(SavedChain(cur), Truncated)))
    BY <1>1, <2>1, <2>2, OpenIs
  <2>4. ~ behind => ~ Refuses(SavedChain(cur), Truncated)
    <3>1. LogOnDisk \/ NoFirst(index)
      BY <1>1, <2>3 DEF LogInOrder
    <3>2. SavedChain(cur) \in Seq(Blocks)
      BY <1>1, SavedTyped
    <3>3. ~ behind => /\ Begins(SavedChain(cur), index)
                      /\ \A k \in 1..Len(SavedChain(cur)) : SavedChain(cur)[k] \in blocks
      BY <1>1, <2>3, DownLogged
    <3> QED
      BY <1>1, <3>1, <3>2, <3>3, NotRefused
  <2> QED
    BY <2>1, <2>3, <2>4 DEF StartsAgain, ReplayOpens
<1>3. CASE StartWithReplay
  <2>1. Open(None, "replay")
    BY <1>3 DEF StartWithReplay
  <2>2. SavedChain(None) = << >>
    BY DEF SavedChain
  <2>3. phase = "down" /\ (refused' = "no" \/ (refused' = "replay" /\ Refuses(<< >>, Truncated)))
    <3>1. phase = "down" /\ (refused' = "no" \/ (refused' = "replay" /\ Refuses(SavedChain(None), Truncated)))
      BY <1>1, <2>1, OpenIs
    <3> QED
      BY <2>2, <3>1
  <2>4. ~ Refuses(<< >>, Truncated)
    <3>1. LogOnDisk \/ NoFirst(index)
      BY <1>1, <2>3 DEF LogInOrder
    <3> DEFINE c == << >>
    <3>2. c \in Seq(Blocks) /\ Len(c) = 0
      OBVIOUS
    <3>3. Begins(c, index) /\ \A k \in 1..Len(c) : c[k] \in blocks
      BY <1>1, <3>2 DEF Begins, LogsOK, Logs
    <3> HIDE DEF c
    <3>4. ~ Refuses(c, Truncated)
      BY <1>1, <3>1, <3>2, <3>3, NotRefused
    <3> QED
      BY <3>4 DEF c
  <2> QED
    BY <2>3, <2>4 DEF StartsAgain, ReplayOpens
<1>4. CASE refused' = refused /\ (behind => behind')
  BY <1>4 DEF StartsAgain, ReplayOpens
<1>5. [Next]_vars => Start \/ StartWithReplay \/ (refused' = refused /\ (behind => behind'))
  BY DEF Next, WriteOutBlock, WriteOutEntry, PushBlock, StartSwitch, SwitchBlock, BeginClose, SaveIndex,
         Unlock, MoveAway, MoveIn, RemoveOld, CloseLog, Kill, vars
<1> QED
  BY <1>2, <1>3, <1>4, <1>5

LEMMA InitStarts == Init => StartsAgain /\ ReplayOpens
BY DEF Init, StartsAgain, ReplayOpens

(* Unless a kill comes in the middle of a fork switch: open() throws only   *)
(* when a kill took a block of the state that had already been saved; every *)
(* other kill, between a block and its index entry or anywhere in flush(),  *)
(* leaves files with which the node starts.                                 *)
THEOREM StartsUnlessBehind == ASSUME ~ KillInSwitch PROVE Spec => []StartsAgain
<1>1. Ordered /\ StartsAgain /\ ReplayOpens /\ [Next]_vars => StartsAgain' /\ ReplayOpens'
  BY NextStarts
<1>2. Ordered /\ [Next]_vars => Ordered'
  BY NextOrdered
<1> QED
  BY <1>1, <1>2, InitOrdered, InitStarts, PTL DEF Spec

(* Unless a kill comes in the middle of a fork switch, the advice to replay *)
(* helps: a start with --replay-blockchain is never refused.                *)
THEOREM ReplayAlwaysOpens == ASSUME ~ KillInSwitch PROVE Spec => []ReplayOpens
<1>1. Ordered /\ StartsAgain /\ ReplayOpens /\ [Next]_vars => StartsAgain' /\ ReplayOpens'
  BY NextStarts
<1>2. Ordered /\ [Next]_vars => Ordered'
  BY NextOrdered
<1> QED
  BY <1>1, <1>2, InitOrdered, InitStarts, PTL DEF Spec

=============================================================================
