-------------------------- MODULE BlockTreeTheorems -------------------------
(***************************************************************************)
(* Facts about the blocks and their numbers that the proofs about the      *)
(* chain database and about the files of a node share.                     *)
(***************************************************************************)
EXTENDS BlockTree, Functions, FiniteSets, FiniteSetTheorems, WellFoundedInduction, TLAPS

(* The facts about sums; what FoldLeft folds does not matter for them. *)
Plus(m, n) == m + n
INSTANCE FoldTheorems WITH Op <- Plus

USE ParentAssumption

-----------------------------------------------------------------------------
(* PathTo is well defined, since the number of a block is one more than its *)
(* parent's                                                                 *)

Onward(f, b) == IF Parent[b] = Genesis THEN <<b>> ELSE Append(f[Parent[b]], b)

(* f is right for the blocks up to this number. *)
RightUpTo(n, f) == \A b \in Blocks : Number[b] <= n => f[b] = Onward(f, b)

LEMMA NumberFacts ==
  ASSUME NEW b \in Blocks
  PROVE  /\ Number[b] \in Nat \ {0}
         /\ Parent[b] = Genesis => Number[b] = 1
         /\ Parent[b] # Genesis => /\ Parent[b] \in Blocks
                                  /\ Number[b] = Number[Parent[b]] + 1
                                  /\ Number[Parent[b]] \in Nat
BY NumberAssumption

LEMMA RightExists == \A n \in Nat : \E f \in [Blocks -> Seq(Blocks)] : RightUpTo(n, f)
<1> DEFINE G == {n \in Nat : \E f \in [Blocks -> Seq(Blocks)] : RightUpTo(n, f)}
<1>1. 0 \in G
  <2>1. [b \in Blocks |-> << >>] \in [Blocks -> Seq(Blocks)]
    OBVIOUS
  <2>2. ASSUME NEW b \in Blocks PROVE ~ (Number[b] <= 0)
    <3>1. Number[b] \in Nat \ {0}
      BY NumberFacts
    <3> QED
      BY <3>1
  <2> QED
    BY <2>1, <2>2 DEF RightUpTo
<1>2. \A n \in G : n + 1 \in G
  <2> SUFFICES ASSUME NEW n \in Nat, NEW f \in [Blocks -> Seq(Blocks)], RightUpTo(n, f)
               PROVE  \E g \in [Blocks -> Seq(Blocks)] : RightUpTo(n + 1, g)
    OBVIOUS
  <2> DEFINE g == [b \in Blocks |-> Onward(f, b)]
  <2>1. g \in [Blocks -> Seq(Blocks)]
    <3> SUFFICES ASSUME NEW b \in Blocks PROVE Onward(f, b) \in Seq(Blocks)
      OBVIOUS
    <3> QED
      BY NumberFacts DEF Onward
  <2>2. ASSUME NEW b \in Blocks, Number[b] <= n + 1
        PROVE  g[b] = Onward(g, b)
    <3>1. CASE Parent[b] = Genesis
      BY <3>1 DEF Onward
    <3>2. CASE Parent[b] # Genesis
      <4>1. Parent[b] \in Blocks /\ Number[Parent[b]] <= n
        BY <2>2, <3>2, NumberFacts
      <4>2. g[Parent[b]] = f[Parent[b]]
        BY <4>1 DEF RightUpTo
      <4> QED
        BY <3>2, <4>2 DEF Onward
    <3> QED
      BY <3>1, <3>2
  <2> QED
    BY <2>1, <2>2 DEF RightUpTo
<1> HIDE DEF G
<1>3. \A n \in Nat : n \in G
  BY <1>1, <1>2, NatSetInduction DEF G
<1> QED
  BY <1>3 DEF G

LEMMA RightAgree ==
  ASSUME NEW f, NEW g, NEW m \in Nat, NEW n \in Nat, RightUpTo(m, f), RightUpTo(n, g)
  PROVE  \A b \in Blocks : Number[b] <= m /\ Number[b] <= n => f[b] = g[b]
<1> DEFINE G == {k \in Nat : \A b \in Blocks : Number[b] <= k /\ Number[b] <= m /\ Number[b] <= n
                                               => f[b] = g[b]}
<1>1. 0 \in G
  BY NumberFacts
<1>2. \A k \in G : k + 1 \in G
  <2> SUFFICES ASSUME NEW k \in G, NEW b \in Blocks,
                      Number[b] <= k + 1, Number[b] <= m, Number[b] <= n
               PROVE  f[b] = g[b]
    OBVIOUS
  <2>1. f[b] = Onward(f, b) /\ g[b] = Onward(g, b)
    BY DEF RightUpTo
  <2>2. CASE Parent[b] = Genesis
    BY <2>1, <2>2 DEF Onward
  <2>3. CASE Parent[b] # Genesis
    <3>1. /\ Parent[b] \in Blocks
          /\ Number[Parent[b]] <= k /\ Number[Parent[b]] <= m /\ Number[Parent[b]] <= n
      BY <2>3, NumberFacts
    <3>2. f[Parent[b]] = g[Parent[b]]
      BY <3>1
    <3> QED
      BY <2>1, <2>3, <3>2 DEF Onward
  <2> QED
    BY <2>2, <2>3
<1> HIDE DEF G
<1>3. \A k \in Nat : k \in G
  BY <1>1, <1>2, NatSetInduction DEF G
<1>4. \A b \in Blocks : Number[b] \in G
  BY <1>3, NumberFacts
<1> QED
  BY <1>4, NumberFacts DEF G

(* The equation by which PathTo is defined holds. *)
LEMMA PathToDef ==
  /\ PathTo \in [Blocks -> Seq(Blocks)]
  /\ \A b \in Blocks : PathTo[b] = IF Parent[b] = Genesis THEN <<b>>
                                    ELSE Append(PathTo[Parent[b]], b)
<1> DEFINE F == [n \in Nat |-> CHOOSE f \in [Blocks -> Seq(Blocks)] : RightUpTo(n, f)]
           p == [b \in Blocks |-> F[Number[b]][b]]
<1>1. \A n \in Nat : F[n] \in [Blocks -> Seq(Blocks)] /\ RightUpTo(n, F[n])
  BY RightExists
<1> HIDE DEF F
<1>2. p \in [Blocks -> Seq(Blocks)]
  BY <1>1, NumberFacts
<1>3. ASSUME NEW b \in Blocks PROVE p[b] = Onward(p, b)
  <2>1. Number[b] \in Nat /\ Number[b] <= Number[b] /\ RightUpTo(Number[b], F[Number[b]])
    <3>1. Number[b] \in Nat
      BY NumberFacts
    <3> QED
      BY <1>1, <3>1
  <2>2. p[b] = Onward(F[Number[b]], b)
    BY <2>1 DEF RightUpTo
  <2>3. CASE Parent[b] = Genesis
    BY <2>2, <2>3 DEF Onward
  <2>4. CASE Parent[b] # Genesis
    <3>1. /\ Parent[b] \in Blocks /\ Number[Parent[b]] \in Nat
          /\ Number[Parent[b]] <= Number[b] /\ Number[Parent[b]] <= Number[Parent[b]]
          /\ RightUpTo(Number[Parent[b]], F[Number[Parent[b]]])
      BY <1>1, <2>4, NumberFacts
    <3>2. F[Number[b]][Parent[b]] = p[Parent[b]]
      BY <2>1, <3>1, RightAgree
    <3> QED
      BY <2>2, <2>4, <3>2 DEF Onward
  <2> QED
    BY <2>3, <2>4
<1>4. p = [b \in Blocks |-> Onward(p, b)]
  BY <1>3
<1> HIDE DEF p
<1>5. PathTo = [b \in Blocks |-> Onward(PathTo, b)]
  BY <1>4 DEF PathTo, Onward
<1>6. ASSUME NEW b \in Blocks PROVE PathTo[b] = Onward(PathTo, b)
  BY <1>5
<1>7. RightUpTo(0, PathTo) /\ \A n \in Nat : RightUpTo(n, PathTo)
  BY <1>6 DEF RightUpTo
<1>8. \A n \in Nat : RightUpTo(n, p)
  BY <1>3 DEF RightUpTo
<1>9. ASSUME NEW b \in Blocks PROVE PathTo[b] = p[b]
  <2>1. Number[b] \in Nat /\ Number[b] <= Number[b]
    BY NumberFacts
  <2>2. RightUpTo(Number[b], PathTo) /\ RightUpTo(Number[b], p)
    BY <1>7, <1>8, <2>1
  <2> QED
    BY <2>1, <2>2, RightAgree
<1>10. PathTo \in [Blocks -> Seq(Blocks)]
  BY <1>2, <1>5, <1>9
<1> QED
  BY <1>6, <1>10 DEF Onward

-----------------------------------------------------------------------------
(* Chains: sequences of blocks in which every block follows its parent *)

Chains == {c \in Seq(Blocks) : IsChain(c)}

(* In a chain the blocks stand at their numbers. *)
LEMMA ChainNumbers ==
  ASSUME NEW c \in Chains
  PROVE  \A k \in 1..Len(c) : Number[c[k]] = k
<1>1. c \in Seq(Blocks) /\ Len(c) \in Nat
  BY DEF Chains
<1>2. \A k \in 1..Len(c) : c[k] \in Blocks /\ Parent[c[k]] = IF k = 1 THEN Genesis ELSE c[k - 1]
  BY <1>1 DEF Chains, IsChain
<1> DEFINE G == {n \in Nat : n \in 1..Len(c) => Number[c[n]] = n}
<1>3. 0 \in G
  OBVIOUS
<1>4. \A n \in G : n + 1 \in G
  <2> SUFFICES ASSUME NEW n \in G, n + 1 \in 1..Len(c)
               PROVE  Number[c[n + 1]] = n + 1
    OBVIOUS
  <2>1. c[n + 1] \in Blocks
    BY <1>2
  <2>2. CASE n = 0
    BY <1>2, <2>1, <2>2, NumberFacts
  <2>3. CASE n # 0
    <3>1. n \in 1..Len(c) /\ (n + 1) - 1 = n /\ n + 1 # 1
      BY <1>1, <2>3
    <3>2. Parent[c[n + 1]] = c[n]
      BY <1>2, <3>1
    <3>3. c[n] \in Blocks /\ c[n] # Genesis
      BY <1>2, <3>1
    <3> QED
      BY <2>1, <3>1, <3>2, <3>3, NumberFacts
  <2> QED
    BY <2>2, <2>3
<1> HIDE DEF G
<1>5. \A n \in Nat : n \in G
  BY <1>3, <1>4, NatSetInduction DEF G
<1> QED
  BY <1>1, <1>5 DEF G

(* Every beginning of a chain is one. *)
LEMMA ChainBeginning ==
  ASSUME NEW c \in Chains, NEW n \in 0..Len(c)
  PROVE  /\ SubSeq(c, 1, n) \in Chains
         /\ Len(SubSeq(c, 1, n)) = n
         /\ \A k \in 1..n : SubSeq(c, 1, n)[k] = c[k]
<1>1. c \in Seq(Blocks) /\ Len(c) \in Nat
  BY DEF Chains
<1> DEFINE d == SubSeq(c, 1, n)
<1>2. d \in Seq(Blocks) /\ Len(d) = n /\ \A k \in 1..n : d[k] = c[k]
  BY <1>1
<1>3. \A k \in 1..n : Parent[d[k]] = IF k = 1 THEN Genesis ELSE d[k - 1]
  <2> SUFFICES ASSUME NEW k \in 1..n
               PROVE  Parent[d[k]] = IF k = 1 THEN Genesis ELSE d[k - 1]
    OBVIOUS
  <2>1. k \in DOMAIN c /\ (k # 1 => k - 1 \in 1..n)
    BY <1>1
  <2>2. Parent[c[k]] = IF k = 1 THEN Genesis ELSE c[k - 1]
    BY <2>1 DEF Chains, IsChain
  <2> QED
    BY <1>2, <2>1, <2>2
<1> HIDE DEF d
<1>4. DOMAIN d = 1..n
  BY <1>2
<1>5. d \in Chains
  BY <1>2, <1>3, <1>4 DEF Chains, IsChain
<1> QED
  BY <1>2, <1>5 DEF d

(* The empty sequence is a chain, and a block on top of one makes one. *)
LEMMA ChainEmpty == << >> \in Chains
BY DEF Chains, IsChain

LEMMA ChainAppend ==
  ASSUME NEW c \in Chains, NEW b \in Blocks,
         Parent[b] = IF c = << >> THEN Genesis ELSE c[Len(c)]
  PROVE  Append(c, b) \in Chains
<1>1. c \in Seq(Blocks) /\ Len(c) \in Nat
  BY DEF Chains
<1> DEFINE d == Append(c, b)
<1>2. /\ d \in Seq(Blocks) /\ Len(d) = Len(c) + 1 /\ d[Len(c) + 1] = b
      /\ \A k \in 1..Len(c) : d[k] = c[k]
  BY <1>1
<1> HIDE DEF d
<1>3. DOMAIN d = 1..(Len(c) + 1)
  BY <1>1, <1>2
<1>4. ASSUME NEW k \in 1..(Len(c) + 1)
      PROVE  Parent[d[k]] = IF k = 1 THEN Genesis ELSE d[k - 1]
  <2>1. CASE k \in 1..Len(c)
    <3>1. Parent[c[k]] = IF k = 1 THEN Genesis ELSE c[k - 1]
      BY <1>1, <2>1 DEF Chains, IsChain
    <3>2. k # 1 => k - 1 \in 1..Len(c)
      BY <1>1, <2>1
    <3> QED
      BY <1>2, <2>1, <3>1, <3>2
  <2>2. CASE k = Len(c) + 1
    <3>1. c = << >> <=> k = 1
      BY <1>1, <2>2
    <3>2. k # 1 => k - 1 = Len(c) /\ k - 1 \in 1..Len(c)
      BY <1>1, <2>2
    <3> QED
      BY <1>2, <2>2, <3>1, <3>2
  <2> QED
    BY <1>1, <2>1, <2>2
<1> QED
  BY <1>2, <1>3, <1>4 DEF Chains, IsChain, d

(* The path to a block is the chain that ends with it. *)
LEMMA PathIsChain ==
  ASSUME NEW b \in Blocks
  PROVE  PathTo[b] \in Chains /\ Len(PathTo[b]) = Number[b] /\ PathTo[b][Number[b]] = b
<1> DEFINE Good(x) == PathTo[x] \in Chains /\ Len(PathTo[x]) = Number[x] /\ PathTo[x][Number[x]] = x
           G == {n \in Nat : \A x \in Blocks : Number[x] = n => Good(x)}
<1>1. 0 \in G
  BY NumberFacts
<1>2. \A n \in G : n + 1 \in G
  <2> SUFFICES ASSUME NEW n \in G, NEW x \in Blocks, Number[x] = n + 1
               PROVE  Good(x)
    OBVIOUS
  <2>1. CASE Parent[x] = Genesis
    <3>1. PathTo[x] = <<x>> /\ Number[x] = 1
      BY <2>1, PathToDef, NumberFacts
    <3>2. <<x>> \in Chains
      BY <2>1 DEF Chains, IsChain
    <3> QED
      BY <3>1, <3>2
  <2>2. CASE Parent[x] # Genesis
    <3>1. Parent[x] \in Blocks /\ Number[Parent[x]] = n /\ n \in Nat
      BY <2>2, NumberFacts
    <3> DEFINE c == PathTo[Parent[x]]
    <3>2. c \in Chains /\ Len(c) = n /\ c[n] = Parent[x]
      BY <3>1
    <3>3. PathTo[x] = Append(c, x)
      BY <2>2, PathToDef
    <3> HIDE DEF c
    <3>4. c \in Seq(Blocks) /\ n # 0 /\ c # << >>
      BY <3>1, <3>2, NumberFacts DEF Chains
    <3>5. Append(c, x) \in Chains
      BY <3>2, <3>4, ChainAppend
    <3> QED
      BY <3>1, <3>2, <3>3, <3>4, <3>5
  <2> QED
    BY <2>1, <2>2
<1> HIDE DEF G
<1>3. \A n \in Nat : n \in G
  BY <1>1, <1>2, NatSetInduction DEF G
<1> QED
  BY <1>3, NumberFacts DEF G
=============================================================================
