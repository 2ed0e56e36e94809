-------------------------- MODULE BlockSyncProofs ---------------------------
(***************************************************************************)
(* Proofs about BlockSync, for every tree of blocks, every finite set of   *)
(* peers and every limit of the protocol: the node's records keep their    *)
(* types, a block counts as requested exactly while one peer owes it, and  *)
(* blocks go to the application in order.                                  *)
(*                                                                         *)
(* That blocks are pushed in order depends on everything that led to it:   *)
(* the list of ids of a peer was built from its replies, a reply starts    *)
(* with an id of the synopsis it answers, and the synopsis was made of the *)
(* chain as it was then and of the list as it was before that.  So the     *)
(* invariant speaks of all three.  A block is anchored if the application  *)
(* has it, will never have it (its branch leaves the chain below the       *)
(* blocks that can be undone), or is about to get it.  What is anchored    *)
(* stays anchored, whatever is pushed, forgotten or refused, and with a    *)
(* block its whole chain is.  The invariant then is: a list starts with a  *)
(* block that follows an anchored one and goes on from parent to child,    *)
(* and all that a synopsis names, sent or to be sent, is anchored or on    *)
(* the list.                                                               *)
(***************************************************************************)
EXTENDS BlockSync, BlockTreeTheorems, SequenceTheorems

USE NetworkAssumption

-----------------------------------------------------------------------------
(* Branches of the tree of blocks *)

(* The chain of a block has the block of every number up to its own. *)
LEMMA ChainFacts ==
  ASSUME NEW h \in Blocks \cup {Genesis}
  PROVE  /\ Num(h) \in Nat /\ (h # Genesis => Num(h) # 0)
         /\ Chain(h) \in Chains /\ Chain(h) \in Seq(Blocks)
         /\ Len(Chain(h)) = Num(h) /\ DOMAIN Chain(h) = 1..Num(h)
         /\ h # Genesis => Chain(h)[Num(h)] = h
         /\ \A k \in 1..Num(h) : Chain(h)[k] \in Blocks /\ Num(Chain(h)[k]) = k
<1>1. CASE h = Genesis
  <2>1. << >> \in Chains /\ Chain(h) = << >> /\ Num(h) = 0
    BY <1>1, ChainEmpty DEF Chain, Num
  <2> QED
    BY <1>1, <2>1
<1>2. CASE h # Genesis
  <2>1. /\ h \in Blocks /\ Num(h) = Number[h] /\ Number[h] \in Nat \ {0}
        /\ Chain(h) = PathTo[h]
    BY <1>2, NumberFacts DEF Num, Chain
  <2>2. /\ PathTo[h] \in Chains /\ Len(PathTo[h]) = Number[h] /\ PathTo[h][Number[h]] = h
    BY <2>1, PathIsChain
  <2>3. PathTo[h] \in Seq(Blocks)
    BY <2>2 DEF Chains
  <2>4. \A k \in 1..Len(PathTo[h]) : Number[PathTo[h][k]] = k
    BY <2>2, ChainNumbers
  <2>5. \A k \in 1..Len(PathTo[h]) : PathTo[h][k] \in Blocks /\ PathTo[h][k] # Genesis
    BY <2>3, ParentAssumption
  <2>6. \A k \in 1..Num(h) : Chain(h)[k] \in Blocks /\ Num(Chain(h)[k]) = k
    BY <2>1, <2>2, <2>4, <2>5 DEF Num
  <2>7. DOMAIN PathTo[h] = 1..Len(PathTo[h])
    BY <2>3
  <2> QED
    BY <1>2, <2>1, <2>2, <2>3, <2>6, <2>7
<1> QED
  BY <1>1, <1>2

(* Every block of a chain follows the one before it. *)
LEMMA ChainLinks ==
  ASSUME NEW h \in Blocks \cup {Genesis}, NEW k \in 1..Num(h)
  PROVE  Parent[Chain(h)[k]] = IF k = 1 THEN Genesis ELSE Chain(h)[k - 1]
BY ChainFacts DEF Chains, IsChain

(* Two chains that have a block in common are the same below it. *)
LEMMA AgreeBelow ==
  ASSUME NEW g \in Blocks \cup {Genesis}, NEW h \in Blocks \cup {Genesis},
         NEW n \in 1..Num(g), n <= Num(h), Chain(g)[n] = Chain(h)[n]
  PROVE  \A k \in 1..n : Chain(g)[k] = Chain(h)[k]
<1>1. Num(g) \in Nat /\ Num(h) \in Nat
  BY ChainFacts
<1> DEFINE G == {d \in Nat : d < n => Chain(g)[n - d] = Chain(h)[n - d]}
<1>2. 0 \in G
  BY <1>1
<1>3. ASSUME NEW d \in G
      PROVE  d + 1 \in G
  <2> SUFFICES ASSUME d + 1 < n
               PROVE  Chain(g)[n - (d + 1)] = Chain(h)[n - (d + 1)]
    OBVIOUS
  <2>1. n - d \in 1..Num(g) /\ n - d \in 1..Num(h) /\ n - d # 1 /\ (n - d) - 1 = n - (d + 1)
    BY <1>1
  <2>2. Chain(g)[n - d] = Chain(h)[n - d]
    BY <2>1, <1>1
  <2> QED
    BY <2>1, <2>2, ChainLinks
<1> HIDE DEF G
<1>4. \A d \in Nat : d \in G
  BY <1>2, <1>3, NatSetInduction DEF G
<1>5. ASSUME NEW k \in 1..n
      PROVE  Chain(g)[k] = Chain(h)[k]
  <2>1. n - k \in Nat /\ n - k < n /\ n - (n - k) = k
    BY <1>1
  <2> QED
    BY <1>4, <2>1 DEF G
<1> QED
  BY <1>5

(* A block is on a chain if it is the chain's block of its number. *)
LEMMA IncludedAt ==
  ASSUME NEW b \in Blocks \cup {Genesis}, NEW h \in Blocks \cup {Genesis}
  PROVE  Included(b, h) <=> /\ b \in Blocks /\ Num(b) \in 1..Num(h)
                            /\ Chain(h)[Num(b)] = b
<1>1. /\ Num(h) \in Nat /\ DOMAIN Chain(h) = 1..Num(h)
      /\ \A k \in 1..Num(h) : Chain(h)[k] \in Blocks /\ Num(Chain(h)[k]) = k
  BY ChainFacts
<1>2. Included(b, h) <=> \E k \in 1..Num(h) : b = Chain(h)[k]
  BY <1>1 DEF Included, ToSet
<1> QED
  BY <1>1, <1>2

(* What the number of common blocks says. *)
LEMMA CommonFacts ==
  ASSUME NEW b \in Blocks \cup {Genesis}, NEW h \in Blocks \cup {Genesis}
  PROVE  /\ CommonNum(b, h) \in Nat /\ CommonNum(b, h) <= Num(b) /\ CommonNum(b, h) <= Num(h)
         /\ \A k \in 1..Num(b) : k <= CommonNum(b, h) <=> k <= Num(h) /\ Chain(b)[k] = Chain(h)[k]
<1> DEFINE S == {k \in 1..Num(b) : k <= Num(h) /\ Chain(b)[k] = Chain(h)[k]}
           common == ToSet(Chain(b)) \cap ToSet(Chain(h))
<1>1. /\ Num(b) \in Nat /\ Num(h) \in Nat
      /\ DOMAIN Chain(b) = 1..Num(b) /\ DOMAIN Chain(h) = 1..Num(h)
      /\ \A k \in 1..Num(b) : Chain(b)[k] \in Blocks /\ Num(Chain(b)[k]) = k
      /\ \A k \in 1..Num(h) : Chain(h)[k] \in Blocks /\ Num(Chain(h)[k]) = k
  BY ChainFacts
<1>2. \A k \in S : \A j \in 1..k : j \in S
  BY <1>1, AgreeBelow
<1>3. PICK n \in Nat : n <= Num(b) /\ n <= Num(h) /\ S = 1..n
  <2>1. CASE S = {}
    BY <1>1, <2>1
  <2>2. CASE S # {}
    <3>1. S \in SUBSET (1..Num(b))
      OBVIOUS
    <3> HIDE DEF S
    <3>2. Largest(S) \in S /\ \A y \in S : y <= Largest(S)
      BY <1>1, <2>2, <3>1, LargestIn
    <3>3. Largest(S) \in 1..Num(b) /\ Largest(S) <= Num(h)
      BY <3>2 DEF S
    <3>4. \A k \in 1..Largest(S) : k \in S
      BY <1>2, <3>2
    <3>5. \A k \in S : k \in 1..Largest(S)
      BY <1>1, <3>1, <3>2, <3>3
    <3>6. S = 1..Largest(S)
      BY <3>4, <3>5
    <3> QED
      BY <1>1, <3>3, <3>6
  <2> QED
    BY <2>1, <2>2
<1>4. common = {Chain(b)[k] : k \in S}
  <2>1. ASSUME NEW x \in common
        PROVE  \E k \in S : x = Chain(b)[k]
    <3>1. PICK k \in 1..Num(b) : x = Chain(b)[k]
      BY <1>1 DEF ToSet
    <3>2. PICK j \in 1..Num(h) : x = Chain(h)[j]
      BY <1>1 DEF ToSet
    <3>3. j = k
      BY <1>1, <3>1, <3>2
    <3>4. k <= Num(h) /\ Chain(b)[k] = Chain(h)[k]
      BY <1>1, <3>1, <3>2, <3>3
    <3>5. k \in S
      BY <3>4
    <3> QED
      BY <3>1, <3>5
  <2>2. ASSUME NEW k \in S
        PROVE  Chain(b)[k] \in common
    <3>1. k \in DOMAIN Chain(b) /\ k \in DOMAIN Chain(h) /\ Chain(b)[k] = Chain(h)[k]
      BY <1>1
    <3> QED
      BY <3>1 DEF ToSet
  <2> QED
    BY <2>1, <2>2
<1> HIDE DEF S, common
<1>5. Cardinality(common) = n
  <2> DEFINE f == [k \in 1..n |-> Chain(b)[k]]
  <2>1. f \in Bijection(1..n, common)
    <3>1. f \in [1..n -> common]
      BY <1>3, <1>4
    <3>2. \A x \in common : \E k \in 1..n : f[k] = x
      BY <1>3, <1>4
    <3>3. IsInjective(f)
      BY <1>1, <1>3 DEF IsInjective
    <3> HIDE DEF f
    <3> QED
      BY <3>1, <3>2, <3>3 DEF Bijection, Injection, Surjection
  <2>2. Cardinality(1..n) = n /\ IsFiniteSet(1..n)
    BY <1>3, FS_Interval
  <2> HIDE DEF f
  <2> QED
    BY <2>1, <2>2, FS_Bijection DEF ExistsBijection
<1>6. CommonNum(b, h) = n
  BY <1>5 DEF CommonNum, common
<1>7. \A k \in 1..Num(b) : k <= n <=> k <= Num(h) /\ Chain(b)[k] = Chain(h)[k]
  BY <1>1, <1>3 DEF S
<1> QED
  BY <1>3, <1>6, <1>7

(* A block that is not on a chain shares no more with it than its parent does. *)
LEMMA CommonWithParent ==
  ASSUME NEW b \in Blocks, NEW h \in Blocks \cup {Genesis}
  PROVE  /\ Parent[b] \in Blocks \cup {Genesis}
         /\ CommonNum(Parent[b], h) <= CommonNum(b, h)
         /\ ~Included(b, h) => CommonNum(b, h) = CommonNum(Parent[b], h)
         /\ Included(b, h) /\ Parent[b] # Genesis => Included(Parent[b], h)
<1> DEFINE q == Parent[b]
<1>1. q \in Blocks \cup {Genesis} /\ b # Genesis
  BY ParentAssumption
<1>2. Num(b) \in Nat /\ Num(b) = Num(q) + 1 /\ Num(q) \in Nat /\ Chain(b)[Num(b)] = b
  BY <1>1, NumberFacts, ChainFacts DEF Num
<1>a. q # Genesis => Num(q) # 0
  BY <1>1, ChainFacts
<1>3. q # Genesis => Num(q) \in 1..Num(b) /\ Num(b) # 1 /\ Num(b) - 1 = Num(q)
  <2> DEFINE n == Num(q)
             k == Num(b)
  <2>1. n \in Nat /\ k = n + 1 /\ (q # Genesis => n # 0)
    BY <1>2, <1>a
  <2> HIDE DEF n, k
  <2>2. n # 0 => n \in 1..k /\ k # 1 /\ k - 1 = n
    BY <2>1
  <2> QED
    BY <2>1, <2>2 DEF n, k
<1>4. q # Genesis => Chain(b)[Num(q)] = q /\ Chain(q)[Num(q)] = q
  <2> SUFFICES ASSUME q # Genesis
               PROVE  Chain(b)[Num(q)] = q /\ Chain(q)[Num(q)] = q
    OBVIOUS
  <2>1. Num(b) \in 1..Num(b) /\ b \in Blocks \cup {Genesis}
    BY <1>2, <1>3
  <2>2. Parent[Chain(b)[Num(b)]] = IF Num(b) = 1 THEN Genesis ELSE Chain(b)[Num(b) - 1]
    BY <2>1, ChainLinks
  <2> QED
    BY <1>1, <1>2, <1>3, <2>2, ChainFacts
<1>5. \A k \in 1..Num(q) : Chain(q)[k] = Chain(b)[k]
  <2>1. CASE q = Genesis
    BY <2>1 DEF Num
  <2>2. CASE q # Genesis
    <3>1. Num(q) \in 1..Num(q) /\ Num(q) <= Num(b)
      BY <1>2, <1>3, <2>2
    <3> QED
      BY <1>1, <1>4, <2>2, <3>1, AgreeBelow
  <2> QED
    BY <2>1, <2>2
<1> HIDE DEF q
<1>6. /\ CommonNum(b, h) \in Nat /\ CommonNum(b, h) <= Num(b) /\ CommonNum(b, h) <= Num(h)
      /\ \A k \in 1..Num(b) : k <= CommonNum(b, h) <=> k <= Num(h) /\ Chain(b)[k] = Chain(h)[k]
  BY CommonFacts
<1>7. /\ CommonNum(q, h) \in Nat /\ CommonNum(q, h) <= Num(q) /\ CommonNum(q, h) <= Num(h)
      /\ \A k \in 1..Num(q) : k <= CommonNum(q, h) <=> k <= Num(h) /\ Chain(q)[k] = Chain(h)[k]
  BY <1>1, CommonFacts
<1>8. Num(h) \in Nat
  BY ChainFacts
<1> DEFINE m == CommonNum(b, h)
           n == CommonNum(q, h)
<1>9. \A k \in 1..Num(q) : k <= m <=> k <= n
  BY <1>2, <1>5, <1>6, <1>7
<1>10. Num(b) <= m <=> Included(b, h)
  <2>1. Num(b) \in 1..Num(b)
    BY <1>2
  <2>2. Num(b) <= m <=> Num(b) <= Num(h) /\ b = Chain(h)[Num(b)]
    BY <1>2, <1>6, <2>1
  <2> QED
    BY <1>2, <1>8, <2>1, <2>2, IncludedAt
<1>11. q # Genesis => (Num(q) <= n <=> Included(q, h))
  <2> SUFFICES ASSUME q # Genesis PROVE Num(q) <= n <=> Included(q, h)
    OBVIOUS
  <2>1. Num(q) \in 1..Num(q)
    BY <1>2, <1>3
  <2>2. Num(q) <= n <=> Num(q) <= Num(h) /\ q = Chain(h)[Num(q)]
    BY <1>4, <1>7, <2>1
  <2> QED
    BY <1>1, <1>2, <1>8, <2>1, <2>2, IncludedAt
<1>12. m \in Nat /\ n \in Nat /\ m <= Num(b) /\ n <= Num(q)
  BY <1>6, <1>7
<1> HIDE DEF m, n
<1>13. n <= m
  BY <1>2, <1>9, <1>12
<1>14. m <= Num(q) => m = n
  BY <1>2, <1>9, <1>12, <1>13
<1> QED
  BY <1>1, <1>2, <1>3, <1>9, <1>10, <1>11, <1>12, <1>13, <1>14 DEF m, n, q

(* A block that is not on a chain shares less with it than its number. *)
LEMMA NotIncluded ==
  ASSUME NEW b \in Blocks, NEW h \in Blocks \cup {Genesis}
  PROVE  /\ ~Included(b, h) => CommonNum(b, h) < Num(b)
         /\ Included(b, h) => CommonNum(b, h) = Num(b)
<1>1. b # Genesis /\ Num(b) \in Nat \ {0} /\ Chain(b)[Num(b)] = b /\ Num(h) \in Nat
  BY ParentAssumption, ChainFacts
<1>2. /\ CommonNum(b, h) \in Nat /\ CommonNum(b, h) <= Num(b)
      /\ \A k \in 1..Num(b) : k <= CommonNum(b, h) <=> k <= Num(h) /\ Chain(b)[k] = Chain(h)[k]
  BY CommonFacts
<1>3. Num(b) \in 1..Num(b)
  BY <1>1
<1>4. Num(b) <= CommonNum(b, h) <=> Num(b) <= Num(h) /\ b = Chain(h)[Num(b)]
  BY <1>1, <1>2, <1>3
<1>5. Included(b, h) <=> Num(b) \in 1..Num(h) /\ Chain(h)[Num(b)] = b
  BY IncludedAt
<1> QED
  BY <1>1, <1>2, <1>4, <1>5

(* A branch that leaves the chain of h below what g shares with it leaves  *)
(* the chain of g there, too.                                              *)
LEMMA CommonWithBoth ==
  ASSUME NEW x \in Blocks \cup {Genesis}, NEW g \in Blocks \cup {Genesis},
         NEW h \in Blocks \cup {Genesis}, NEW u \in Nat,
         CommonNum(g, h) >= u, CommonNum(x, h) < u
  PROVE  /\ CommonNum(x, g) < u
         /\ Included(x, g) => Included(x, h)
<1>1. Num(x) \in Nat /\ Num(g) \in Nat /\ Num(h) \in Nat
  BY ChainFacts
<1>2. /\ CommonNum(g, h) \in Nat /\ CommonNum(g, h) <= Num(g) /\ CommonNum(g, h) <= Num(h)
      /\ \A k \in 1..Num(g) : k <= CommonNum(g, h) <=> k <= Num(h) /\ Chain(g)[k] = Chain(h)[k]
  BY CommonFacts
<1>3. /\ CommonNum(x, h) \in Nat
      /\ \A k \in 1..Num(x) : k <= CommonNum(x, h) <=> k <= Num(h) /\ Chain(x)[k] = Chain(h)[k]
  BY CommonFacts
<1>4. /\ CommonNum(x, g) \in Nat /\ CommonNum(x, g) <= Num(x) /\ CommonNum(x, g) <= Num(g)
      /\ \A k \in 1..Num(x) : k <= CommonNum(x, g) <=> k <= Num(g) /\ Chain(x)[k] = Chain(g)[k]
  BY CommonFacts
<1>5. CommonNum(x, g) < u
  <2> SUFFICES ASSUME u <= CommonNum(x, g) PROVE FALSE
    BY <1>4
  <2>1. u \in 1..Num(x) /\ u \in 1..Num(g) /\ u <= CommonNum(g, h) /\ u <= Num(h)
    BY <1>1, <1>2, <1>3, <1>4
  <2>2. Chain(x)[u] = Chain(g)[u]
    BY <1>4, <2>1
  <2>3. Chain(g)[u] = Chain(h)[u]
    BY <1>2, <2>1
  <2>4. u <= CommonNum(x, h)
    BY <1>3, <2>1, <2>2, <2>3
  <2> QED
    BY <1>3, <2>4
<1>6. ASSUME Included(x, g) PROVE Included(x, h)
  <2>1. x \in Blocks /\ Num(x) \in 1..Num(g) /\ Chain(g)[Num(x)] = x
    BY <1>6, IncludedAt
  <2>2. CommonNum(x, g) = Num(x)
    BY <1>6, <2>1, NotIncluded
  <2>3. Num(x) <= CommonNum(g, h)
    BY <1>1, <1>2, <1>4, <1>5, <2>2
  <2>4. Num(x) <= Num(h) /\ Chain(g)[Num(x)] = Chain(h)[Num(x)]
    BY <1>2, <2>1, <2>3
  <2>5. Num(x) \in 1..Num(h) /\ Chain(h)[Num(x)] = x
    BY <1>1, <2>1, <2>4
  <2> QED
    BY <2>1, <2>5, IncludedAt
<1> QED
  BY <1>5, <1>6

-----------------------------------------------------------------------------
(* The synopsis of a chain *)

HalfWay(l, high) == l + (high - l + 2) \div 2

Sampled(ids, high, f, l) ==
    IF l > high THEN << >>
    ELSE (IF l \in DOMAIN ids THEN <<ids[l]>> ELSE << >>) \o f[HalfWay(l, high)]

LEMMA HalfWayFacts ==
  ASSUME NEW high \in Nat, NEW l \in Nat, l <= high
  PROVE  HalfWay(l, high) \in Nat /\ HalfWay(l, high) > l /\ (l < high => HalfWay(l, high) <= high)
BY DEF HalfWay

(* The numbers that are at most k below the first one past the end. *)
From(high, k) == {l \in Nat : l + k > high}

LEMMA PointsDef ==
  ASSUME NEW ids, NEW high \in Nat
  PROVE  \E f : /\ \A l \in Nat : f[l] = Sampled(ids, high, f, l)
                /\ \A low \in Nat : Points(ids, low, high) = f[low]
<1> DEFINE Right(k, g) == g = [l \in From(high, k) |-> Sampled(ids, high, g, l)]
           N == {k \in Nat : \E g : Right(k, g)}
<1>1. 0 \in N
  <2> DEFINE g == [l \in From(high, 0) |-> << >>]
  <2>1. \A l \in From(high, 0) : Sampled(ids, high, g, l) = << >>
    BY DEF From, Sampled
  <2>2. g = [l \in From(high, 0) |-> Sampled(ids, high, g, l)]
    BY <2>1
  <2> QED
    BY <2>2
<1>2. ASSUME NEW k \in N
      PROVE  k + 1 \in N
  <2>1. PICK g : Right(k, g)
    OBVIOUS
  <2> DEFINE D == From(high, k)
             E == From(high, k + 1)
             e == [l \in E |-> Sampled(ids, high, g, l)]
  <2>2. \A l \in D : l \in E
    BY DEF From
  <2>3. \A l \in D : e[l] = g[l]
    BY <2>1, <2>2
  <2>4. \A l \in E : l <= high => HalfWay(l, high) \in D
    BY HalfWayFacts DEF From
  <2>5. \A l \in E : Sampled(ids, high, g, l) = Sampled(ids, high, e, l)
    <3> HIDE DEF e, D
    <3> SUFFICES ASSUME NEW l \in E
                 PROVE  Sampled(ids, high, g, l) = Sampled(ids, high, e, l)
      OBVIOUS
    <3>1. l \in Nat
      BY DEF From
    <3>2. CASE l > high
      BY <3>2 DEF Sampled
    <3>3. CASE l <= high
      <4>1. e[HalfWay(l, high)] = g[HalfWay(l, high)]
        BY <2>3, <2>4, <3>3
      <4> QED
        BY <4>1 DEF Sampled
    <3> QED
      BY <3>1, <3>2, <3>3
  <2>6. e = [l \in E |-> Sampled(ids, high, e, l)]
    BY <2>5
  <2>7. k + 1 \in Nat
    OBVIOUS
  <2> HIDE DEF e
  <2> QED
    BY <2>6, <2>7
<1> HIDE DEF N
<1>3. high + 1 \in N
  BY <1>1, <1>2, NatSetInduction DEF N
<1>4. From(high, high + 1) = Nat
  BY DEF From
<1>5. \E g : g = [l \in Nat |-> Sampled(ids, high, g, l)]
  BY <1>3, <1>4 DEF N
<1> DEFINE f == CHOOSE g : g = [l \in Nat |-> Sampled(ids, high, g, l)]
<1>6. f = [l \in Nat |-> Sampled(ids, high, f, l)]
  BY <1>5
<1>7. \A low \in Nat : Points(ids, low, high) = f[low]
  BY DEF Points, Sampled, HalfWay
<1> HIDE DEF f
<1>8. \A l \in Nat : f[l] = Sampled(ids, high, f, l)
  BY <1>6
<1> QED
  BY <1>7, <1>8

(* The synopsis takes nothing but what is there; it takes the first id and *)
(* the last one ("synopsis.back() == original_ids_of_items_to_get.back()") *)
(* if there is one at all.                                                 *)
LEMMA PointsFacts ==
  ASSUME NEW ids, NEW low \in Nat, NEW high \in Nat
  PROVE  /\ Points(ids, low, high) \in Seq({ids[n] : n \in DOMAIN ids})
         /\ low <= high /\ (low \in DOMAIN ids \/ high \in DOMAIN ids)
               => Points(ids, low, high) # << >>
<1>1. PICK f : /\ \A l \in Nat : f[l] = Sampled(ids, high, f, l)
               /\ \A l \in Nat : Points(ids, l, high) = f[l]
  BY PointsDef
<1> DEFINE S == {ids[n] : n \in DOMAIN ids}
           Good(l) == /\ f[l] \in Seq(S)
                      /\ l <= high /\ (l \in DOMAIN ids \/ high \in DOMAIN ids) => f[l] # << >>
           N == {k \in Nat : \A l \in From(high, k) : Good(l)}
<1>2. 0 \in N
  <2>1. \A l \in From(high, 0) : f[l] = << >> /\ ~(l <= high)
    <3> SUFFICES ASSUME NEW l \in From(high, 0)
                 PROVE  f[l] = << >> /\ ~(l <= high)
      OBVIOUS
    <3>1. l \in Nat /\ l > high /\ ~(l <= high)
      BY DEF From
    <3>2. Sampled(ids, high, f, l) = << >>
      BY <3>1 DEF Sampled
    <3> QED
      BY <1>1, <3>1, <3>2
  <2>2. << >> \in Seq(S)
    OBVIOUS
  <2> QED
    BY <2>1, <2>2
<1>3. ASSUME NEW k \in N
      PROVE  k + 1 \in N
  <2>0. k \in Nat /\ k + 1 \in Nat /\ \A l \in From(high, k) : Good(l)
    OBVIOUS
  <2> HIDE DEF Good
  <2> SUFFICES ASSUME NEW l \in From(high, k + 1)
               PROVE  Good(l)
    BY <2>0
  <2> USE DEF Good
  <2>1. l \in Nat /\ l + (k + 1) > high
    BY <2>0 DEF From
  <2>2. CASE l > high
    <3>1. f[l] = << >>
      BY <1>1, <2>1, <2>2 DEF Sampled
    <3> QED
      BY <2>1, <2>2, <3>1
  <2>3. CASE l <= high
    <3> DEFINE n == HalfWay(l, high)
               one == IF l \in DOMAIN ids THEN <<ids[l]>> ELSE << >>
    <3>1. n \in From(high, k) /\ n \in Nat /\ (l # high => n <= high)
      <4>1. n \in Nat /\ n > l /\ (l < high => n <= high)
        BY <2>1, <2>3, HalfWayFacts
      <4> HIDE DEF n
      <4> QED
        BY <2>0, <2>1, <2>3, <4>1 DEF From
    <3>2. Good(n)
      BY <2>0, <3>1
    <3>b. ~(l > high)
      BY <2>1, <2>3
    <3>a. Sampled(ids, high, f, l) = one \o f[n]
      BY <3>b, Zenon DEF Sampled
    <3>3. f[l] = one \o f[n]
      BY <1>1, <2>1, <3>a
    <3>4. one \in Seq(S) /\ (l \in DOMAIN ids => one # << >> /\ Len(one) = 1)
      <4>1. CASE l \in DOMAIN ids
        <5>1. ids[l] \in S /\ one = <<ids[l]>>
          BY <4>1
        <5> HIDE DEF S
        <5> QED
          BY <5>1
      <4>2. CASE l \notin DOMAIN ids
        BY <4>2
      <4> QED
        BY <4>1, <4>2
    <3> HIDE DEF S, one, n
    <3>5. f[l] \in Seq(S) /\ Len(f[l]) = Len(one) + Len(f[n])
      BY <3>2, <3>3, <3>4
    <3>6. l \in DOMAIN ids \/ high \in DOMAIN ids => one # << >> \/ f[n] # << >>
      BY <3>1, <3>2, <3>4
    <3>7. one # << >> \/ f[n] # << >> => Len(f[l]) # 0
      BY <3>2, <3>4, <3>5
    <3> QED
      BY <3>5, <3>6, <3>7
  <2> QED
    BY <2>1, <2>2, <2>3
<1> HIDE DEF N
<1>4. high + 1 \in N
  BY <1>2, <1>3, NatSetInduction DEF N
<1>5. low \in From(high, high + 1)
  BY DEF From
<1> QED
  BY <1>1, <1>4, <1>5 DEF N

Tip(h, ref) == IF ref = Genesis THEN h ELSE ref

LEMMA NonUndoableFacts ==
  ASSUME NEW h \in Blocks \cup {Genesis}
  PROVE  NonUndoable(h) \in Nat /\ NonUndoable(h) <= Num(h)
<1>1. Num(h) \in Nat /\ UndoSize \in Nat
  BY ChainFacts, NetworkAssumption
<1> QED
  BY <1>1 DEF NonUndoable

LEMMA SynopsisFacts ==
  ASSUME NEW h \in Blocks \cup {Genesis}, NEW ref \in Blocks \cup {Genesis}, NEW after \in Nat
  PROVE  /\ Synopsis(h, ref, after) \in Seq(ToSet(Chain(Tip(h, ref))))
         /\ Tip(h, ref) # Genesis /\ ~ForkTooOld(h, ref) => Synopsis(h, ref, after) # << >>
<1> DEFINE tip == Tip(h, ref)
           path == Chain(tip)
           low == LowFor(h, ref)
           high == Len(path) + after
<1>1. tip \in Blocks \cup {Genesis} /\ (ref = Genesis => tip = h) /\ (ref # Genesis => tip = ref)
  BY DEF Tip
<1> HIDE DEF tip
<1>2. Len(path) = Num(tip) /\ Num(tip) \in Nat /\ DOMAIN path = 1..Num(tip) /\ (tip # Genesis => Num(tip) # 0)
  BY <1>1, ChainFacts
<1>3. NonUndoable(h) \in Nat /\ NonUndoable(h) <= Num(h) /\ Num(ref) \in Nat
  BY NonUndoableFacts, ChainFacts
<1>4. CommonNum(ref, h) \in Nat /\ CommonNum(ref, h) <= Num(ref)
  BY CommonFacts
<1>5. low \in Nat \ {0}
  BY <1>3 DEF LowFor
<1>6. tip # Genesis /\ ~ForkTooOld(h, ref) => low <= Num(tip)
  <2> SUFFICES ASSUME tip # Genesis, ~ForkTooOld(h, ref)
               PROVE  low <= Num(tip)
    OBVIOUS
  <2>1. CASE ref = Genesis
    BY <1>1, <1>2, <1>3, <2>1 DEF LowFor
  <2>2. CASE ref # Genesis
    <3>1. ~Included(ref, h) => CommonNum(ref, h) >= NonUndoable(h)
      BY <1>3, <1>4, <2>2 DEF ForkTooOld
    <3>2. ~Included(ref, h) => Num(ref) >= NonUndoable(h)
      BY <1>3, <1>4, <3>1
    <3> QED
      BY <1>1, <1>2, <1>3, <2>2, <3>2 DEF LowFor
  <2> QED
    BY <2>1, <2>2
<1>7. high \in Nat /\ (low <= Num(tip) => low <= high /\ low \in DOMAIN path)
  BY <1>2, <1>5
<1>8. Synopsis(h, ref, after) = Points(path, low, high)
  BY DEF Synopsis, tip, Tip
<1> HIDE DEF path, low, high
<1>9. /\ Points(path, low, high) \in Seq({path[n] : n \in DOMAIN path})
      /\ low <= high /\ (low \in DOMAIN path \/ high \in DOMAIN path)
               => Points(path, low, high) # << >>
  BY <1>5, <1>7, PointsFacts
<1> QED
  BY <1>6, <1>7, <1>8, <1>9 DEF path, tip, ToSet

LEMMA FullSynopsisFacts ==
  ASSUME head \in Blocks \cup {Genesis}, NEW ref \in Blocks \cup {Genesis}, NEW ids \in Seq(Blocks)
  PROVE  /\ FullSynopsis(ref, ids) \in Seq(ToSet(Chain(Tip(head, ref))) \cup ToSet(ids))
         /\ Tip(head, ref) # Genesis /\ ~ForkTooOld(head, ref) => FullSynopsis(ref, ids) # << >>
         /\ ids # << >> => FullSynopsis(ref, ids) # << >>
<1> DEFINE ours  == Synopsis(head, ref, Len(ids))
           first == Num(ids[1])
           last  == first + Len(ids) - 1
           low   == IF ours = << >> THEN 1 ELSE Num(ours[1])
           more  == Points([n \in first..last |-> ids[n - first + 1]], low, last)
           A == ToSet(Chain(Tip(head, ref)))
           B == ToSet(ids)
<1>1. ours \in Seq(A) /\ (Tip(head, ref) # Genesis /\ ~ForkTooOld(head, ref) => ours # << >>)
  <2>1. Len(ids) \in Nat
    OBVIOUS
  <2> QED
    BY <2>1, SynopsisFacts
<1>2. A \subseteq Blocks
  <2>1. Tip(head, ref) \in Blocks \cup {Genesis}
    BY DEF Tip
  <2>2. Chain(Tip(head, ref)) \in Seq(Blocks)
    BY <2>1, ChainFacts
  <2> QED
    BY <2>2 DEF ToSet
<1>3. CASE ids = << >>
  <2>1. FullSynopsis(ref, ids) = ours
    BY <1>3 DEF FullSynopsis
  <2>2. ours \in Seq(A \cup B)
    <3> HIDE DEF ours, A, B
    <3> QED
      BY <1>1
  <2> QED
    BY <1>1, <1>3, <2>1, <2>2
<1>4. CASE ids # << >>
  <2>1. FullSynopsis(ref, ids) = ours \o more
    BY <1>4 DEF FullSynopsis
  <2>2. Len(ids) \in Nat \ {0} /\ ids[1] \in Blocks
    BY <1>4
  <2>3. first \in Nat \ {0}
    BY <2>2, ChainFacts, ParentAssumption
  <2>4. last \in Nat \ {0} /\ first <= last
    <3> HIDE DEF first
    <3> QED
      BY <2>2, <2>3
  <2>5. low \in Nat /\ (ours = << >> => low = 1)
    <3>1. ours # << >> => ours[1] \in Blocks
      <4> HIDE DEF ours, A
      <4> QED
        BY <1>1, <1>2
    <3> QED
      BY <3>1, ChainFacts
  <2> HIDE DEF first, low, ours, A
  <2> DEFINE at == [n \in first..last |-> ids[n - first + 1]]
  <2>6. DOMAIN at = first..last /\ last \in DOMAIN at /\ \A n \in DOMAIN at : at[n] \in B
    <3>1. \A n \in first..last : n - first + 1 \in 1..Len(ids)
      BY <2>2, <2>3, <2>4
    <3>2. \A k \in 1..Len(ids) : ids[k] \in B
      BY DEF ToSet
    <3> QED
      BY <2>2, <2>3, <2>4, <3>1, <3>2
  <2>7. {at[n] : n \in DOMAIN at} \subseteq B
    BY <2>6
  <2> HIDE DEF at, last, B
  <2>8. Points(at, low, last) \in Seq({at[n] : n \in DOMAIN at})
    BY <2>4, <2>5, PointsFacts
  <2>9. low <= last /\ (low \in DOMAIN at \/ last \in DOMAIN at) => Points(at, low, last) # << >>
    BY <2>4, <2>5, PointsFacts
  <2> DEFINE m == Points(at, low, last)
  <2>10. m \in Seq(B)
    BY <2>7, <2>8
  <2>11. ours = << >> => m # << >>
    BY <2>4, <2>5, <2>6, <2>9
  <2>12. FullSynopsis(ref, ids) = ours \o m
    BY <2>1 DEF at, last
  <2> HIDE DEF m
  <2>13. ours \o m \in Seq(A \cup B) /\ Len(ours \o m) = Len(ours) + Len(m)
    BY <1>1, <2>10
  <2>14. ours \o m # << >>
    BY <1>1, <2>10, <2>11, <2>13
  <2> QED
    BY <1>1, <2>12, <2>13, <2>14 DEF A, B
<1> QED
  BY <1>3, <1>4

-----------------------------------------------------------------------------
(* Pieces of a chain *)

Segments == {s \in Seq(Blocks) : \A k \in 1..(Len(s) - 1) : Parent[s[k + 1]] = s[k]}

LEMMA InToSet ==
  ASSUME NEW S, NEW s \in Seq(S)
  PROVE  \A x : x \in ToSet(s) <=> \E k \in 1..Len(s) : x = s[k]
<1>1. DOMAIN s = 1..Len(s)
  OBVIOUS
<1> QED
  BY <1>1 DEF ToSet

LEMMA SegmentType ==
  ASSUME NEW s \in Segments
  PROVE  /\ s \in Seq(Blocks) /\ Len(s) \in Nat /\ DOMAIN s = 1..Len(s)
         /\ s # << >> <=> Len(s) # 0
         /\ \A k \in 1..Len(s) : s[k] \in Blocks
         /\ \A k \in 1..(Len(s) - 1) : Parent[s[k + 1]] = s[k]
BY DEF Segments

LEMMA SegmentEmpty == << >> \in Segments
BY DEF Segments

(* The numbers of a piece rise by one. *)
LEMMA SegmentNumbers ==
  ASSUME NEW s \in Segments
  PROVE  \A k \in 1..Len(s) : Number[s[k]] = Number[s[1]] + (k - 1)
<1>1. /\ Len(s) \in Nat /\ \A k \in 1..Len(s) : s[k] \in Blocks
      /\ \A k \in 1..(Len(s) - 1) : Parent[s[k + 1]] = s[k]
  BY SegmentType
<1> DEFINE G == {n \in Nat : n + 1 \in 1..Len(s) => Number[s[n + 1]] = Number[s[1]] + n}
<1>2. 0 \in G
  BY <1>1, NumberFacts
<1>3. ASSUME NEW n \in G
      PROVE  n + 1 \in G
  <2> SUFFICES ASSUME (n + 1) + 1 \in 1..Len(s)
               PROVE  Number[s[(n + 1) + 1]] = Number[s[1]] + (n + 1)
    OBVIOUS
  <2>1. n + 1 \in 1..(Len(s) - 1) /\ n + 1 \in 1..Len(s) /\ n \in Nat /\ 1 \in 1..Len(s)
    BY <1>1
  <2>2. Number[s[n + 1]] = Number[s[1]] + n
    BY <2>1
  <2>3. Parent[s[(n + 1) + 1]] = s[n + 1] /\ s[n + 1] \in Blocks /\ s[(n + 1) + 1] \in Blocks /\ s[1] \in Blocks
    BY <1>1, <2>1
  <2>4. Number[s[(n + 1) + 1]] = Number[s[n + 1]] + 1 /\ Number[s[1]] \in Nat
    BY <2>3, NumberFacts, ParentAssumption
  <2> QED
    BY <2>1, <2>2, <2>4
<1> HIDE DEF G
<1>4. \A n \in Nat : n \in G
  BY <1>2, <1>3, NatSetInduction DEF G
<1>5. ASSUME NEW k \in 1..Len(s)
      PROVE  Number[s[k]] = Number[s[1]] + (k - 1)
  <2>1. k - 1 \in Nat /\ (k - 1) + 1 = k
    BY <1>1
  <2> QED
    BY <1>4, <2>1 DEF G
<1> QED
  BY <1>5

(* No block occurs twice in a piece. *)
LEMMA SegmentInjective ==
  ASSUME NEW s \in Segments
  PROVE  IsInjective(s)
<1>1. /\ Len(s) \in Nat /\ DOMAIN s = 1..Len(s) /\ \A k \in 1..Len(s) : s[k] \in Blocks
  BY SegmentType
<1>2. \A k \in 1..Len(s) : Number[s[k]] = Number[s[1]] + (k - 1)
  BY SegmentNumbers
<1>3. Len(s) # 0 => Number[s[1]] \in Nat
  BY <1>1, NumberFacts
<1>4. ASSUME NEW j \in 1..Len(s), NEW k \in 1..Len(s), s[j] = s[k]
      PROVE  j = k
  <2> DEFINE n == Number[s[1]]
  <2>1. n + (j - 1) = n + (k - 1)
    BY <1>2, <1>4
  <2>2. n \in Nat /\ j \in Nat /\ k \in Nat
    BY <1>1, <1>3
  <2> HIDE DEF n
  <2> QED
    BY <2>1, <2>2
<1> QED
  BY <1>1, <1>4 DEF IsInjective

LEMMA SegmentPart ==
  ASSUME NEW s \in Segments, NEW m \in Nat \ {0}, NEW n \in Nat, n <= Len(s)
  PROVE  /\ SubSeq(s, m, n) \in Segments
         /\ Len(SubSeq(s, m, n)) = IF m <= n THEN n - m + 1 ELSE 0
         /\ \A k \in 1..Len(SubSeq(s, m, n)) : SubSeq(s, m, n)[k] = s[m + k - 1]
         /\ ToSet(SubSeq(s, m, n)) \subseteq ToSet(s)
<1>1. /\ s \in Seq(Blocks) /\ Len(s) \in Nat /\ DOMAIN s = 1..Len(s)
      /\ \A k \in 1..(Len(s) - 1) : Parent[s[k + 1]] = s[k]
  BY SegmentType
<1> DEFINE r == SubSeq(s, m, n)
<1>2. r \in Seq(Blocks) /\ Len(r) = IF m <= n THEN n - m + 1 ELSE 0
  BY <1>1
<1>3. ASSUME NEW k \in 1..Len(r)
      PROVE  r[k] = s[m + k - 1]
  <2>1. m <= n /\ Len(r) = n - m + 1
    BY <1>2
  <2>2. k \in 1..(n - m + 1)
    BY <2>1
  <2> QED
    BY <1>1, <2>2
<1> HIDE DEF r
<1>4. \A k \in 1..(Len(r) - 1) : Parent[r[k + 1]] = r[k]
  <2> SUFFICES ASSUME NEW k \in 1..(Len(r) - 1)
               PROVE  Parent[r[k + 1]] = r[k]
    OBVIOUS
  <2>1. k \in 1..Len(r) /\ k + 1 \in 1..Len(r) /\ m + (k + 1) - 1 = (m + k - 1) + 1
    BY <1>2
  <2>2. m + k - 1 \in 1..(Len(s) - 1)
    BY <1>1, <1>2
  <2>3. r[k + 1] = s[(m + k - 1) + 1] /\ r[k] = s[m + k - 1]
    BY <1>3, <2>1
  <2> QED
    BY <1>1, <2>2, <2>3
<1>5. DOMAIN r = 1..Len(r) /\ \A k \in 1..Len(r) : m + k - 1 \in 1..Len(s)
  BY <1>1, <1>2
<1>6. ToSet(r) \subseteq ToSet(s)
  <2> SUFFICES ASSUME NEW x \in ToSet(r) PROVE x \in ToSet(s)
    OBVIOUS
  <2>1. PICK k \in 1..Len(r) : x = r[k]
    BY <1>2, InToSet
  <2> QED
    BY <1>1, <1>3, <1>5, <2>1, InToSet
<1>7. r \in Segments
  BY <1>2, <1>4 DEF Segments
<1> QED
  BY <1>2, <1>3, <1>6, <1>7 DEF r

LEMMA SegmentTail ==
  ASSUME NEW s \in Segments, s # << >>
  PROVE  /\ Tail(s) \in Segments /\ Len(Tail(s)) = Len(s) - 1
         /\ \A k \in 1..Len(Tail(s)) : Tail(s)[k] = s[k + 1]
         /\ ToSet(s) = ToSet(Tail(s)) \cup {s[1]}
         /\ Tail(s) # << >> => Parent[Tail(s)[1]] = s[1]
<1>1. /\ s \in Seq(Blocks) /\ Len(s) \in Nat \ {0} /\ DOMAIN s = 1..Len(s)
      /\ \A k \in 1..(Len(s) - 1) : Parent[s[k + 1]] = s[k]
  BY SegmentType
<1> DEFINE r == Tail(s)
<1>2. /\ r \in Seq(Blocks) /\ Len(r) = Len(s) - 1 /\ DOMAIN r = 1..Len(r)
      /\ \A k \in 1..Len(r) : r[k] = s[k + 1]
  BY <1>1
<1> HIDE DEF r
<1>3. \A k \in 1..(Len(r) - 1) : Parent[r[k + 1]] = r[k]
  <2> SUFFICES ASSUME NEW k \in 1..(Len(r) - 1)
               PROVE  Parent[r[k + 1]] = r[k]
    OBVIOUS
  <2>1. k \in 1..Len(r) /\ k + 1 \in 1..Len(r) /\ k + 1 \in 1..(Len(s) - 1)
    BY <1>1, <1>2
  <2> QED
    BY <1>1, <1>2, <2>1
<1>4. ASSUME NEW k \in 1..Len(s)
      PROVE  s[k] \in ToSet(r) \cup {s[1]}
  <2>1. CASE k = 1
    BY <2>1
  <2>2. CASE k # 1
    <3>1. k - 1 \in 1..Len(r) /\ (k - 1) + 1 = k
      BY <1>1, <1>2, <2>2
    <3> QED
      BY <1>2, <3>1 DEF ToSet
  <2> QED
    BY <2>1, <2>2
<1>5. \A k \in 1..Len(r) : r[k] \in ToSet(s)
  <2>1. \A k \in 1..Len(r) : k + 1 \in 1..Len(s)
    BY <1>1, <1>2
  <2> QED
    BY <1>1, <1>2, <2>1, InToSet
<1>6. s[1] \in ToSet(s)
  BY <1>1 DEF ToSet
<1>7. ToSet(s) = ToSet(r) \cup {s[1]}
  <2>1. \A x \in ToSet(s) : \E k \in 1..Len(s) : x = s[k]
    BY <1>1, InToSet
  <2>2. \A x \in ToSet(r) : \E k \in 1..Len(r) : x = r[k]
    BY <1>2, InToSet
  <2> QED
    BY <1>4, <1>5, <1>6, <2>1, <2>2
<1>8. r # << >> => Parent[r[1]] = s[1]
  BY <1>1, <1>2
<1>9. r \in Segments
  BY <1>2, <1>3 DEF Segments
<1> QED
  BY <1>2, <1>7, <1>8, <1>9 DEF r

(* A piece of which the end is replaced by one that starts with the same block. *)
LEMMA SegmentReplace ==
  ASSUME NEW s \in Segments, NEW t \in Segments, t # << >>, NEW i \in 1..Len(s), s[i] = t[1]
  PROVE  /\ SubSeq(s, 1, i - 1) \o t \in Segments
         /\ SubSeq(s, 1, i - 1) \o t # << >>
         /\ (SubSeq(s, 1, i - 1) \o t)[1] = s[1]
         /\ ToSet(t) \subseteq ToSet(SubSeq(s, 1, i - 1) \o t)
<1>1. /\ s \in Seq(Blocks) /\ Len(s) \in Nat
      /\ \A k \in 1..(Len(s) - 1) : Parent[s[k + 1]] = s[k]
  BY SegmentType
<1>2. /\ t \in Seq(Blocks) /\ Len(t) \in Nat \ {0} /\ DOMAIN t = 1..Len(t)
      /\ \A k \in 1..(Len(t) - 1) : Parent[t[k + 1]] = t[k]
  BY SegmentType
<1> DEFINE a == SubSeq(s, 1, i - 1)
           r == a \o t
<1>3. a \in Seq(Blocks) /\ Len(a) = i - 1 /\ \A k \in 1..(i - 1) : a[k] = s[k]
  BY <1>1
<1> HIDE DEF a
<1>4. /\ r \in Seq(Blocks) /\ Len(r) = (i - 1) + Len(t) /\ DOMAIN r = 1..Len(r)
      /\ \A k \in 1..Len(r) : r[k] = IF k <= i - 1 THEN a[k] ELSE t[k - (i - 1)]
  <2>1. /\ r \in Seq(Blocks) /\ Len(r) = Len(a) + Len(t)
        /\ \A k \in 1..Len(r) : r[k] = IF k <= Len(a) THEN a[k] ELSE t[k - Len(a)]
    <3>1. /\ a \o t \in Seq(Blocks) /\ Len(a \o t) = Len(a) + Len(t)
          /\ \A k \in 1..(Len(a) + Len(t)) : (a \o t)[k] = IF k <= Len(a) THEN a[k] ELSE t[k - Len(a)]
      <4>1. \A u \in Seq(Blocks) : \A v \in Seq(Blocks) :
              /\ u \o v \in Seq(Blocks) /\ Len(u \o v) = Len(u) + Len(v)
              /\ \A k \in 1..(Len(u) + Len(v)) : (u \o v)[k] = IF k <= Len(u) THEN u[k] ELSE v[k - Len(u)]
        BY ConcatProperties
      <4> QED
        BY <1>2, <1>3, <4>1
    <3>2. r = a \o t
      OBVIOUS
    <3> HIDE DEF r
    <3> QED
      BY <3>1, <3>2
  <2> HIDE DEF r
  <2>2. Len(r) = (i - 1) + Len(t)
    BY <1>3, <2>1
  <2> QED
    BY <1>3, <2>1, <2>2
<1> HIDE DEF r
<1>5. \A k \in 1..i : r[k] = s[k]
  <2> SUFFICES ASSUME NEW k \in 1..i PROVE r[k] = s[k]
    OBVIOUS
  <2>1. k \in 1..Len(r)
    BY <1>1, <1>2, <1>4
  <2>2. CASE k = i
    <3>1. ~(k <= i - 1) /\ k - (i - 1) = 1
      BY <1>1, <2>2
    <3>2. r[k] = t[k - (i - 1)]
      BY <1>4, <2>1, <3>1
    <3> QED
      BY <2>2, <3>1, <3>2
  <2>3. CASE k # i
    <3>1. k <= i - 1 /\ k \in 1..(i - 1)
      BY <1>1, <2>3
    <3> QED
      BY <1>3, <1>4, <2>1, <3>1
  <2> QED
    BY <2>2, <2>3
<1>6. \A k \in 1..Len(t) : (i - 1) + k \in 1..Len(r) /\ r[(i - 1) + k] = t[k]
  <2> SUFFICES ASSUME NEW k \in 1..Len(t) PROVE (i - 1) + k \in 1..Len(r) /\ r[(i - 1) + k] = t[k]
    OBVIOUS
  <2>1. (i - 1) + k \in 1..Len(r) /\ ~((i - 1) + k <= i - 1) /\ ((i - 1) + k) - (i - 1) = k
    BY <1>1, <1>2, <1>4
  <2> QED
    BY <1>4, <2>1
<1>7. \A k \in 1..(Len(r) - 1) : Parent[r[k + 1]] = r[k]
  <2> SUFFICES ASSUME NEW k \in 1..(Len(r) - 1)
               PROVE  Parent[r[k + 1]] = r[k]
    OBVIOUS
  <2>1. CASE k < i
    <3>1. k \in 1..i /\ k + 1 \in 1..i /\ k \in 1..(Len(s) - 1)
      BY <1>1, <2>1
    <3> QED
      BY <1>1, <1>5, <3>1
  <2>2. CASE ~(k < i)
    <3> DEFINE j == k - (i - 1)
    <3>1. /\ j \in 1..(Len(t) - 1) /\ j \in 1..Len(t) /\ j + 1 \in 1..Len(t)
          /\ (i - 1) + j = k /\ (i - 1) + (j + 1) = k + 1
      BY <1>1, <1>2, <1>4, <2>2
    <3> HIDE DEF j
    <3>2. r[k] = t[j] /\ r[k + 1] = t[j + 1]
      BY <1>6, <3>1
    <3> QED
      BY <1>2, <3>1, <3>2
  <2> QED
    BY <2>1, <2>2
<1>8. ToSet(t) \subseteq ToSet(r)
  <2> SUFFICES ASSUME NEW x \in ToSet(t) PROVE x \in ToSet(r)
    OBVIOUS
  <2>1. PICK k \in 1..Len(t) : x = t[k]
    BY <1>2, InToSet
  <2> QED
    BY <1>4, <1>6, <2>1, InToSet
<1>9. r # << >> /\ r[1] = s[1]
  BY <1>1, <1>2, <1>4, <1>5
<1>10. r \in Segments
  BY <1>4, <1>7 DEF Segments
<1> QED
  BY <1>8, <1>9, <1>10 DEF r, a

(* What a peer answers is a piece of its chain. *)
LEMMA BlockIdsFacts ==
  ASSUME NEW h \in Blocks \cup {Genesis}, NEW synopsis \in Seq(Blocks)
  PROVE  BlockIds(h, synopsis) \in Segments /\ Remaining(h, BlockIds(h, synopsis)) \in Nat
<1> DEFINE on   == {i \in DOMAIN synopsis : Included(synopsis[i], h)}
           top  == CHOOSE i \in on : \A j \in on : j <= i
           from == IF synopsis = << >> THEN 1 ELSE Num(synopsis[top])
           to   == IF from + IdsPerReply - 1 < Num(h) THEN from + IdsPerReply - 1 ELSE Num(h)
           ids  == BlockIds(h, synopsis)
<1>1. /\ Num(h) \in Nat /\ Chain(h) \in Chains /\ Chain(h) \in Seq(Blocks) /\ Len(Chain(h)) = Num(h)
      /\ \A k \in 1..Num(h) : Chain(h)[k] \in Blocks /\ Num(Chain(h)[k]) = k
  BY ChainFacts
<1>2. CASE synopsis # << >> /\ on = {}
  <2>1. ids = << >>
    BY <1>2 DEF BlockIds
  <2> QED
    BY <2>1, SegmentEmpty DEF Remaining
<1>3. CASE ~(synopsis # << >> /\ on = {})
  <2>1. ids = SubSeq(Chain(h), from, to)
    BY <1>3 DEF BlockIds
  <2>2. from \in Nat \ {0}
    <3>1. CASE synopsis = << >>
      BY <3>1
    <3>2. CASE synopsis # << >>
      <4>1. on # {} /\ on \in SUBSET (1..Len(synopsis)) /\ Len(synopsis) \in Nat
        BY <1>3, <3>2
      <4> HIDE DEF on
      <4>2. \E i \in on : \A j \in on : j <= i
        BY <4>1, LargestIn
      <4>3. top \in on
        BY <4>2
      <4> HIDE DEF top
      <4>4. synopsis[top] \in Blocks
        BY <4>1, <4>3
      <4> QED
        BY <3>2, <4>4, ChainFacts, ParentAssumption
    <3> QED
      BY <3>1, <3>2
  <2> HIDE DEF from, on
  <2>3. IdsPerReply \in Nat
    BY NetworkAssumption
  <2>4. to \in Nat /\ to <= Num(h)
    BY <1>1, <2>2, <2>3
  <2> HIDE DEF to
  <2>5. Chain(h) \in Segments
    <3>1. \A k \in 1..(Len(Chain(h)) - 1) : k + 1 \in 1..Num(h) /\ k + 1 # 1 /\ (k + 1) - 1 = k
      BY <1>1
    <3>2. \A k \in 1..(Len(Chain(h)) - 1) : Parent[Chain(h)[k + 1]] = Chain(h)[k]
      BY <3>1, ChainLinks
    <3> QED
      BY <1>1, <3>2 DEF Segments
  <2> DEFINE c == Chain(h)
  <2> HIDE DEF c
  <2>6. c \in Segments /\ Len(c) = Num(h)
    BY <1>1, <2>5 DEF c
  <2>7. /\ SubSeq(c, from, to) \in Segments
        /\ Len(SubSeq(c, from, to)) = IF from <= to THEN to - from + 1 ELSE 0
        /\ \A k \in 1..Len(SubSeq(c, from, to)) : SubSeq(c, from, to)[k] = c[from + k - 1]
    BY <2>2, <2>4, <2>6, SegmentPart
  <2>8. ids = SubSeq(c, from, to)
    BY <2>1 DEF c
  <2> HIDE DEF ids
  <2>9. ids # << >> => Num(h) - Num(Last(ids)) \in Nat
    <3> SUFFICES ASSUME ids # << >> PROVE Num(h) - Num(Last(ids)) \in Nat
      OBVIOUS
    <3>1. Len(ids) # 0 /\ Len(ids) \in Nat
      BY <2>7, <2>8, SegmentType
    <3>2. from <= to /\ Len(ids) = to - from + 1
      BY <2>7, <2>8, <3>1
    <3>3. Len(ids) \in 1..Len(ids) /\ from + Len(ids) - 1 = to /\ to \in 1..Num(h)
      BY <1>1, <2>2, <2>4, <3>1, <3>2
    <3>4. Last(ids) = c[to]
      BY <2>7, <2>8, <3>3 DEF Last
    <3>5. Num(Last(ids)) = to
      BY <1>1, <3>3, <3>4 DEF c
    <3> QED
      BY <1>1, <2>4, <3>5
  <2> QED
    BY <2>7, <2>8, <2>9 DEF Remaining, ids
<1> QED
  BY <1>2, <1>3

(* What is asked of a peer is neither there nor asked of another, and no   *)
(* block is asked for twice.                                               *)
RequestLoop == INSTANCE FoldTheorems WITH Op <- Request

LEMMA ToRequestFacts ==
  ASSUME NEW c, c.toGet \in Seq(Blocks)
  PROVE  /\ ToRequest(c) \in Seq(Blocks) /\ IsInjective(ToRequest(c))
         /\ ToSet(ToRequest(c)) \cap active = {}
<1> DEFINE K == {items \in Seq(Blocks) : IsInjective(items) /\ ToSet(items) \cap active = {}}
<1>1. << >> \in K
  BY DEF IsInjective, ToSet
<1>2. ASSUME NEW items \in K, NEW b \in Blocks
      PROVE  Request(items, b) \in K
  <2>1. CASE Request(items, b) = items
    BY <2>1
  <2>2. CASE b \notin received \cup active \cup ToSet(items) /\ Request(items, b) = Append(items, b)
    <3> DEFINE r == Append(items, b)
    <3>1. items \in Seq(Blocks) /\ Len(items) \in Nat /\ DOMAIN items = 1..Len(items)
      OBVIOUS
    <3>2. /\ r \in Seq(Blocks) /\ Len(r) = Len(items) + 1 /\ DOMAIN r = 1..(Len(items) + 1)
          /\ r[Len(items) + 1] = b /\ \A k \in 1..Len(items) : r[k] = items[k]
      BY <3>1
    <3> HIDE DEF r
    <3>3. \A k \in 1..Len(items) : items[k] # b
      BY <2>2, <3>1 DEF ToSet
    <3>4. IsInjective(r)
      <4>1. \A j, k \in 1..Len(items) : items[j] = items[k] => j = k
        BY <3>1 DEF IsInjective
      <4>2. \A k \in 1..(Len(items) + 1) : k \in 1..Len(items) \/ k = Len(items) + 1
        BY <3>1
      <4> QED
        BY <3>2, <3>3, <4>1, <4>2 DEF IsInjective
    <3>5. ToSet(r) \subseteq ToSet(items) \cup {b}
      <4>1. \A k \in 1..(Len(items) + 1) : k \in 1..Len(items) \/ k = Len(items) + 1
        BY <3>1
      <4> QED
        BY <3>1, <3>2, <4>1 DEF ToSet
    <3>6. ToSet(r) \cap active = {}
      BY <2>2, <3>5
    <3> QED
      BY <2>2, <3>2, <3>4, <3>6 DEF r
  <2> QED
    BY <2>1, <2>2 DEF Request
<1> HIDE DEF K
<1>3. ToRequest(c) = RequestLoop!Folded(<< >>, c.toGet)
  BY DEF RequestLoop!Folded, RequestLoop!Folds, RequestLoop!Largest, FoldLeft, MapThenFoldSet, Max, ToRequest
<1>4. RequestLoop!Folded(<< >>, c.toGet) \in K
  BY <1>1, <1>2, RequestLoop!FoldKeeps
<1> QED
  BY <1>3, <1>4 DEF K

-----------------------------------------------------------------------------
(* The invariants *)

Fields == {"up", "toGet", "processing", "unfetched", "weNeed", "peerNeeds", "seen", "asked",
           "requested", "wanted", "theirs", "ours", "composing", "serves", "out", "in"}

PieceRequests == [ref : Blocks \cup {Genesis}, ids : Segments, here : BOOLEAN]

Incoming == [type : {"fetch_ids"}, synopsis : Seq(Blocks)]
            \cup [type : {"ids"}, ids : Segments, remaining : Nat]
            \cup [type : {"block", "inventory"}, block : Blocks]

Outgoing == [type : {"fetch_ids"}, synopsis : Seq(Blocks)]
            \cup [type : {"fetch_items"}, items : Seq(Blocks)]

(* The record of a peer, with the messages on their way; the ids to get    *)
(* are a piece of a chain.                                                 *)
RecordOK(c) ==
    /\ DOMAIN c = Fields
    /\ c.up \in BOOLEAN /\ c.weNeed \in BOOLEAN /\ c.peerNeeds \in BOOLEAN /\ c.serves \in BOOLEAN
    /\ c.toGet \in Segments
    /\ c.processing \subseteq Blocks /\ c.unfetched \in Nat
    /\ c.seen \in Blocks \cup {Genesis}
    /\ c.asked = None \/ c.asked \in Seq(Blocks)
    /\ c.requested \subseteq Blocks
    /\ c.wanted \subseteq Blocks /\ IsFiniteSet(c.wanted)
    /\ c.theirs \subseteq Blocks /\ c.ours \subseteq Blocks
    /\ c.composing \in Seq(PieceRequests)
    /\ c.in \in Seq(Incoming) /\ c.out \in Seq(Outgoing)
    /\ ~c.up => c = Closed

(* A block arrives once, if it is owed; the request for blocks that is on  *)
(* its way is the only one, and is for blocks that are owed.               *)
IsBlock(m) == m.type = "block"
AsksItems(m) == m.type = "fetch_items"

OwedOK(c) ==
    /\ \A i \in DOMAIN c.in : IsBlock(c.in[i]) => c.in[i].block \in c.requested \cup c.wanted
    /\ \A i, j \in DOMAIN c.in : IsBlock(c.in[i]) /\ IsBlock(c.in[j]) /\ i # j
                                  => c.in[i].block # c.in[j].block
    /\ \A i \in DOMAIN c.out : AsksItems(c.out[i]) =>
          /\ IsInjective(c.out[i].items) /\ c.out[i].items # << >>
          /\ ToSet(c.out[i].items) \subseteq c.requested \cup c.wanted
          /\ \A j \in DOMAIN c.in : ~IsBlock(c.in[j])
          /\ \A j \in DOMAIN c.out : j # i => ~AsksItems(c.out[j])

(* A request that waits for its synopsis, while the list of ids to get is s. *)
EntryOK(r, s, A, h) ==
    /\ r.ref \in A
    /\ ToSet(r.ids) \subseteq A \cup ToSet(s)
    /\ r.ids # << >> => r.here
    /\ h = Genesis => r.here /\ (r.ids = << >> => s = << >>)

AskedOK(q, s, A) ==
    /\ ToSet(q) \subseteq A \cup ToSet(s)
    /\ q = << >> => s = << >>

(* With A the anchored blocks and L those that follow one: the list of ids *)
(* to get starts with a block of L, and what a synopsis names is in A or   *)
(* on the list; h is the head, which is Genesis at first.                  *)
Ordered(c, A, L, h) ==
    /\ c.toGet # << >> => c.toGet[1] \in L
    /\ c.seen \in A
    /\ \A i \in DOMAIN c.composing : EntryOK(c.composing[i], c.toGet, A, h)
    /\ c.asked = None \/ Handling(c) \/ AskedOK(c.asked, c.toGet, A)

(* The blocks the application has, and those it can no longer switch to. *)
Lost(x) == ~Included(x, head) /\ CommonNum(x, head) < NonUndoable(head)
Settled == {x \in Blocks \cup {Genesis} : x \in known \cup {Genesis} \/ Lost(x)}

(* These and the ones on their way to it, and the blocks that follow one of them. *)
Anchors == Settled \cup ToSet(handling)
Links == {b \in Blocks : Parent[b] \in Anchors}

InOrder == \A i \in DOMAIN handling :
              Parent[handling[i]] \in Settled \cup {handling[j] : j \in 1..(i - 1)}

VarsOK ==
    /\ head \in Blocks \cup {Genesis} /\ known \subseteq Blocks
    /\ peerHead \in [Peers -> Blocks \cup {Genesis}]
    /\ active \subseteq Blocks /\ received \subseteq Blocks /\ recent \subseteq Blocks \cup {Genesis}
    /\ handling \in Seq(Blocks) /\ toFetch \in Seq(Blocks)
    /\ fetchDue \in BOOLEAN /\ itemsDue \in BOOLEAN /\ backlogDue \in BOOLEAN
    /\ turn \in {"none", "sync items", "items", "backlog"} /\ drops \in Nat

DbOK ==
    /\ ToSet(Chain(head)) \subseteq known
    /\ \A b \in known : Parent[b] \in Settled
    /\ recent \subseteq Settled
    /\ head = Genesis => recent \subseteq {Genesis}
    /\ InOrder

PeersOK ==
    /\ DOMAIN conn = Peers /\ conn = [p \in Peers |-> conn[p]]
    /\ \A p \in Peers : RecordOK(conn[p]) /\ OwedOK(conn[p]) /\ Ordered(conn[p], Anchors, Links, head)
    /\ active = UNION {conn[p].requested : p \in Peers}
    /\ \A p, q \in Peers : p # q => conn[p].requested \cap conn[q].requested = {}

Inv == VarsOK /\ DbOK /\ PeersOK

-----------------------------------------------------------------------------
(* What the operations on the record of a peer preserve *)

LEMMA ClosedOK ==
  /\ DOMAIN Closed = Fields /\ Closed.up = FALSE /\ Closed.toGet = << >> /\ Closed.processing = {}
  /\ Closed.unfetched = 0 /\ Closed.weNeed = FALSE /\ Closed.peerNeeds = FALSE
  /\ Closed.seen = Genesis /\ Closed.asked = None /\ Closed.requested = {} /\ Closed.wanted = {}
  /\ Closed.theirs = {} /\ Closed.ours = {} /\ Closed.composing = << >> /\ Closed.serves = FALSE
  /\ Closed.out = << >> /\ Closed.in = << >>
BY DEF Closed, Fields

LEMMA ClosedRecord ==
  /\ RecordOK(Closed) /\ OwedOK(Closed)
  /\ \A A, L, h : Genesis \in A => Ordered(Closed, A, L, h)
<1>1. RecordOK(Closed)
  <2>1. << >> \in Seq(PieceRequests) /\ << >> \in Seq(Incoming) /\ << >> \in Seq(Outgoing)
    OBVIOUS
  <2>2. IsFiniteSet({})
    BY FS_EmptySet
  <2>3. << >> \in Segments
    BY SegmentEmpty
  <2>4. /\ Closed.up \in BOOLEAN /\ Closed.weNeed \in BOOLEAN
        /\ Closed.peerNeeds \in BOOLEAN /\ Closed.serves \in BOOLEAN
    BY ClosedOK
  <2>5. /\ Closed.processing \subseteq Blocks /\ Closed.unfetched \in Nat
        /\ Closed.seen \in Blocks \cup {Genesis} /\ Closed.requested \subseteq Blocks
        /\ Closed.wanted \subseteq Blocks /\ IsFiniteSet(Closed.wanted)
        /\ Closed.theirs \subseteq Blocks /\ Closed.ours \subseteq Blocks
    BY <2>2, ClosedOK
  <2>6. /\ Closed.toGet \in Segments /\ Closed.composing \in Seq(PieceRequests)
        /\ Closed.in \in Seq(Incoming) /\ Closed.out \in Seq(Outgoing) /\ DOMAIN Closed = Fields
        /\ Closed.asked = None
    BY <2>1, <2>3, ClosedOK
  <2> QED
    BY <2>4, <2>5, <2>6 DEF RecordOK
<1>2. OwedOK(Closed)
  BY ClosedOK DEF OwedOK
<1>3. ASSUME NEW A, NEW L, NEW h, Genesis \in A
      PROVE  Ordered(Closed, A, L, h)
  BY <1>3, ClosedOK DEF Ordered
<1> QED
  BY <1>1, <1>2, <1>3

LEMMA OwedSame ==
  ASSUME NEW c, NEW d, OwedOK(c), d.in = c.in, d.out = c.out,
         d.requested = c.requested, d.wanted = c.wanted
  PROVE  OwedOK(d)
BY DEF OwedOK

LEMMA OrderedSame ==
  ASSUME NEW c, NEW d, NEW A, NEW L, NEW h, Ordered(c, A, L, h),
         d.toGet = c.toGet, d.seen = c.seen \/ d.seen \in A, d.composing = c.composing,
         d.asked = c.asked \/ d.asked = None
  PROVE  Ordered(d, A, L, h)
BY DEF Ordered, Handling

LEMMA OwedRead ==
  ASSUME NEW c, RecordOK(c), OwedOK(c), c.in # << >>, NEW d, d.in = Tail(c.in), d.out = c.out,
         \A b \in c.requested \cup c.wanted :
            b \in d.requested \cup d.wanted \/ (IsBlock(Head(c.in)) /\ b = Head(c.in).block)
  PROVE  OwedOK(d)
<1>1. /\ Head(c.in) = c.in[1] /\ DOMAIN c.in = 1..Len(c.in) /\ Len(c.in) \in Nat \ {0}
      /\ DOMAIN d.in = 1..(Len(c.in) - 1) /\ \A k \in 1..(Len(c.in) - 1) : d.in[k] = c.in[k + 1]
  BY DEF RecordOK
<1>2. \A k \in DOMAIN d.in : k + 1 \in DOMAIN c.in /\ k + 1 # 1 /\ d.in[k] = c.in[k + 1]
  BY <1>1
<1>3. 1 \in DOMAIN c.in
  BY <1>1
<1>4. \A k \in DOMAIN d.in : IsBlock(d.in[k]) => d.in[k].block \in d.requested \cup d.wanted
  <2> SUFFICES ASSUME NEW k \in DOMAIN d.in, IsBlock(d.in[k])
               PROVE  d.in[k].block \in d.requested \cup d.wanted
    OBVIOUS
  <2>1. c.in[k + 1].block \in c.requested \cup c.wanted
    BY <1>2 DEF OwedOK
  <2>2. ~(IsBlock(Head(c.in)) /\ c.in[k + 1].block = Head(c.in).block)
    BY <1>1, <1>2, <1>3 DEF OwedOK
  <2> QED
    BY <1>2, <2>1, <2>2
<1>5. \A j, k \in DOMAIN d.in : IsBlock(d.in[j]) /\ IsBlock(d.in[k]) /\ j # k => d.in[j].block # d.in[k].block
  <2> SUFFICES ASSUME NEW j \in DOMAIN d.in, NEW k \in DOMAIN d.in, IsBlock(d.in[j]), IsBlock(d.in[k]), j # k
               PROVE  d.in[j].block # d.in[k].block
    OBVIOUS
  <2>1. j + 1 # k + 1
    BY <1>1
  <2> QED
    BY <1>2, <2>1 DEF OwedOK
<1>6. ASSUME NEW k \in DOMAIN d.out, AsksItems(d.out[k])
      PROVE  /\ IsInjective(d.out[k].items) /\ d.out[k].items # << >>
             /\ ToSet(d.out[k].items) \subseteq d.requested \cup d.wanted
             /\ \A j \in DOMAIN d.in : ~IsBlock(d.in[j])
             /\ \A j \in DOMAIN d.out : j # k => ~AsksItems(d.out[j])
  <2>1. /\ IsInjective(d.out[k].items) /\ d.out[k].items # << >>
        /\ ToSet(d.out[k].items) \subseteq c.requested \cup c.wanted
        /\ \A j \in DOMAIN c.in : ~IsBlock(c.in[j])
        /\ \A j \in DOMAIN d.out : j # k => ~AsksItems(d.out[j])
    BY <1>6 DEF OwedOK
  <2> QED
    BY <1>1, <1>2, <1>3, <2>1
<1> QED
  BY <1>4, <1>5, <1>6 DEF OwedOK

LEMMA OwedWrite ==
  ASSUME NEW c, RecordOK(c), OwedOK(c), NEW m, ~IsBlock(m), NEW d, d.in = Append(c.in, m),
         d.out = c.out, d.requested = c.requested, d.wanted = c.wanted
  PROVE  OwedOK(d)
<1>1. /\ DOMAIN c.in = 1..Len(c.in) /\ Len(c.in) \in Nat
      /\ DOMAIN d.in = 1..(Len(c.in) + 1) /\ d.in[Len(c.in) + 1] = m
      /\ \A k \in 1..Len(c.in) : d.in[k] = c.in[k]
  BY DEF RecordOK
<1>2. \A k \in DOMAIN d.in : IsBlock(d.in[k]) => k \in DOMAIN c.in /\ d.in[k] = c.in[k]
  BY <1>1
<1> QED
  BY <1>2 DEF OwedOK

LEMMA OwedSend ==
  ASSUME NEW c, RecordOK(c), OwedOK(c), NEW m, ~AsksItems(m), NEW d, d.out = Append(c.out, m),
         d.in = c.in, d.requested = c.requested, d.wanted = c.wanted
  PROVE  OwedOK(d)
<1>1. /\ DOMAIN c.out = 1..Len(c.out) /\ Len(c.out) \in Nat
      /\ DOMAIN d.out = 1..(Len(c.out) + 1) /\ d.out[Len(c.out) + 1] = m
      /\ \A k \in 1..Len(c.out) : d.out[k] = c.out[k]
  BY DEF RecordOK
<1>2. \A k \in DOMAIN d.out : AsksItems(d.out[k]) => k \in DOMAIN c.out /\ d.out[k] = c.out[k]
  BY <1>1
<1> QED
  BY <1>2 DEF OwedOK

(* A peer that owes nothing is asked for blocks. *)
LEMMA OwedAsk ==
  ASSUME NEW c, RecordOK(c), OwedOK(c), c.requested = {}, c.wanted = {},
         NEW m \in Outgoing, AsksItems(m), IsInjective(m.items), m.items # << >>, NEW d, d.out = Append(c.out, m),
         d.in = c.in, ToSet(m.items) \subseteq d.requested \cup d.wanted
  PROVE  OwedOK(d)
<1>1. /\ c.out \in Seq(Outgoing) /\ DOMAIN c.out = 1..Len(c.out) /\ Len(c.out) \in Nat
      /\ DOMAIN d.out = 1..(Len(c.out) + 1) /\ d.out[Len(c.out) + 1] = m
      /\ \A k \in 1..Len(c.out) : d.out[k] = c.out[k]
  BY DEF RecordOK
<1>2. \A k \in DOMAIN c.in : ~IsBlock(c.in[k])
  BY DEF OwedOK
<1>3. ASSUME NEW k \in DOMAIN c.out
      PROVE  ~AsksItems(c.out[k])
  <2> SUFFICES ASSUME AsksItems(c.out[k]) PROVE FALSE
    OBVIOUS
  <2>1. c.out[k] \in Outgoing
    BY <1>1
  <2>2. c.out[k].items \in Seq(Blocks)
    BY <2>1 DEF Outgoing, AsksItems
  <2>3. c.out[k].items # << >> /\ ToSet(c.out[k].items) \subseteq {}
    BY DEF OwedOK
  <2>4. c.out[k].items[1] \in ToSet(c.out[k].items)
    BY <2>2, <2>3 DEF ToSet
  <2> QED
    BY <2>3, <2>4
<1>4. \A k \in DOMAIN d.out : AsksItems(d.out[k]) => k = Len(c.out) + 1 /\ d.out[k] = m
  BY <1>1, <1>3
<1> QED
  BY <1>2, <1>4 DEF OwedOK

(* The peer answers with something else than blocks. *)
LEMMA OwedReply ==
  ASSUME NEW c, RecordOK(c), OwedOK(c), c.out # << >>, NEW m, ~IsBlock(m),
         NEW d, d.out = Tail(c.out), d.in = Append(c.in, m),
         d.requested = c.requested, d.wanted = c.wanted
  PROVE  OwedOK(d)
<1>1. /\ DOMAIN c.in = 1..Len(c.in) /\ Len(c.in) \in Nat
      /\ DOMAIN d.in = 1..(Len(c.in) + 1) /\ d.in[Len(c.in) + 1] = m
      /\ \A k \in 1..Len(c.in) : d.in[k] = c.in[k]
  BY DEF RecordOK
<1>2. \A k \in DOMAIN d.in : IsBlock(d.in[k]) => k \in DOMAIN c.in /\ d.in[k] = c.in[k]
  BY <1>1
<1>3. /\ DOMAIN c.out = 1..Len(c.out) /\ Len(c.out) \in Nat \ {0}
      /\ DOMAIN d.out = 1..(Len(c.out) - 1) /\ \A k \in 1..(Len(c.out) - 1) : d.out[k] = c.out[k + 1]
  BY DEF RecordOK
<1>4. \A k \in DOMAIN d.out : k + 1 \in DOMAIN c.out /\ d.out[k] = c.out[k + 1]
  BY <1>3
<1>5. \A j, k \in DOMAIN d.out : j # k => j + 1 # k + 1
  BY <1>3
<1>6. ASSUME NEW k \in DOMAIN d.out, AsksItems(d.out[k])
      PROVE  /\ IsInjective(d.out[k].items) /\ d.out[k].items # << >>
             /\ ToSet(d.out[k].items) \subseteq d.requested \cup d.wanted
             /\ \A j \in DOMAIN c.in : ~IsBlock(c.in[j])
             /\ \A j \in DOMAIN d.out : j # k => ~AsksItems(d.out[j])
  <2>1. k + 1 \in DOMAIN c.out /\ d.out[k] = c.out[k + 1]
    BY <1>4
  <2>2. \A j \in DOMAIN c.out : j # k + 1 => ~AsksItems(c.out[j])
    BY <1>6, <2>1 DEF OwedOK
  <2> QED
    BY <1>4, <1>5, <1>6, <2>1, <2>2 DEF OwedOK
<1>7. \A k \in DOMAIN d.in : IsBlock(d.in[k]) => d.in[k].block \in d.requested \cup d.wanted
  BY <1>2 DEF OwedOK
<1>8. \A j, k \in DOMAIN d.in : IsBlock(d.in[j]) /\ IsBlock(d.in[k]) /\ j # k => d.in[j].block # d.in[k].block
  BY <1>2 DEF OwedOK
<1> QED
  BY <1>2, <1>6, <1>7, <1>8 DEF OwedOK

(* The peer sends the blocks it was asked for. *)
LEMMA OwedServe ==
  ASSUME NEW c, RecordOK(c), OwedOK(c), c.out # << >>, AsksItems(Head(c.out)),
         NEW d, d.out = Tail(c.out), d.requested = c.requested, d.wanted = c.wanted,
         d.in = c.in \o [i \in DOMAIN Head(c.out).items |-> [type |-> "block", block |-> Head(c.out).items[i]]]
  PROVE  d.in \in Seq(Incoming) /\ OwedOK(d)
<1> DEFINE m == Head(c.out)
           s == m.items
           bs == [i \in DOMAIN s |-> [type |-> "block", block |-> s[i]]]
<1>1. /\ DOMAIN c.out = 1..Len(c.out) /\ Len(c.out) \in Nat \ {0} /\ m = c.out[1] /\ m \in Outgoing
      /\ DOMAIN d.out = 1..(Len(c.out) - 1) /\ \A k \in 1..(Len(c.out) - 1) : d.out[k] = c.out[k + 1]
  BY DEF RecordOK
<1>2. s \in Seq(Blocks)
  BY <1>1 DEF Outgoing, AsksItems
<1>3. /\ IsInjective(s) /\ ToSet(s) \subseteq c.requested \cup c.wanted
      /\ \A j \in DOMAIN c.in : ~IsBlock(c.in[j])
      /\ \A j \in DOMAIN c.out : j # 1 => ~AsksItems(c.out[j])
  <2>1. 1 \in DOMAIN c.out /\ AsksItems(c.out[1]) /\ s = c.out[1].items
    BY <1>1
  <2> HIDE DEF s
  <2> QED
    BY <2>1 DEF OwedOK
<1> HIDE DEF s
<1>4. DOMAIN s = 1..Len(s) /\ Len(s) \in Nat /\ \A i \in 1..Len(s) : s[i] \in Blocks
  BY <1>2
<1>5. \A i \in 1..Len(s) : bs[i] \in Incoming /\ IsBlock(bs[i]) /\ bs[i].block = s[i]
  BY <1>4 DEF Incoming, IsBlock
<1>6. bs \in Seq(Incoming) /\ Len(bs) = Len(s)
  <2>1. DOMAIN bs = 1..Len(s)
    BY <1>4
  <2>2. bs \in [1..Len(s) -> Incoming]
    BY <1>4, <1>5
  <2>3. Len(s) \in Nat
    BY <1>4
  <2> HIDE DEF bs
  <2>4. \A n \in Nat : \A f \in [1..n -> Incoming] : f \in Seq(Incoming) /\ Len(f) = n
    OBVIOUS
  <2> QED
    BY <2>2, <2>3, <2>4
<1>7. d.in = c.in \o bs
  BY DEF s, m
<1>8. c.in \in Seq(Incoming)
  BY DEF RecordOK
<1> HIDE DEF bs
<1>a. \A a \in Seq(Incoming) : \A b \in Seq(Incoming) :
        /\ a \o b \in Seq(Incoming) /\ Len(a \o b) = Len(a) + Len(b)
        /\ \A k \in 1..(Len(a) + Len(b)) : (a \o b)[k] = IF k <= Len(a) THEN a[k] ELSE b[k - Len(a)]
  BY ConcatProperties
<1>9. /\ c.in \o bs \in Seq(Incoming) /\ Len(c.in \o bs) = Len(c.in) + Len(bs)
      /\ \A k \in 1..(Len(c.in) + Len(bs)) : (c.in \o bs)[k] = IF k <= Len(c.in) THEN c.in[k] ELSE bs[k - Len(c.in)]
  BY <1>6, <1>8, <1>a
<1>10. DOMAIN d.in = 1..(Len(c.in) + Len(s)) /\ Len(c.in) \in Nat /\ DOMAIN c.in = 1..Len(c.in)
  <2>1. d.in \in Seq(Incoming) /\ Len(d.in) = Len(c.in) + Len(s)
    BY <1>6, <1>7, <1>9
  <2> QED
    BY <1>8, <2>1
<1>11. \A k \in DOMAIN d.in : IsBlock(d.in[k]) =>
           \E i \in 1..Len(s) : k = Len(c.in) + i /\ d.in[k].block = s[i]
  <2> SUFFICES ASSUME NEW k \in DOMAIN d.in, IsBlock(d.in[k])
               PROVE  \E i \in 1..Len(s) : k = Len(c.in) + i /\ d.in[k].block = s[i]
    OBVIOUS
  <2>1. ~(k <= Len(c.in))
    <3> SUFFICES ASSUME k <= Len(c.in) PROVE FALSE
      OBVIOUS
    <3>0. k \in 1..(Len(c.in) + Len(s)) /\ k \in 1..Len(c.in)
      BY <1>4, <1>10
    <3>1. d.in[k] = c.in[k] /\ k \in DOMAIN c.in
      BY <1>6, <1>7, <1>9, <1>10, <3>0
    <3> QED
      BY <1>3, <3>1
  <2>2. k - Len(c.in) \in 1..Len(s) /\ k = Len(c.in) + (k - Len(c.in))
    <3> DEFINE n == Len(c.in)
               l == Len(s)
    <3>1. n \in Nat /\ l \in Nat /\ k \in 1..(n + l) /\ ~(k <= n)
      BY <1>4, <1>10, <2>1
    <3> HIDE DEF n, l
    <3>2. k - n \in 1..l /\ k = n + (k - n)
      BY <3>1
    <3> QED
      BY <3>2 DEF n, l
  <2>3. d.in[k] = bs[k - Len(c.in)]
    BY <1>6, <1>7, <1>9, <1>10, <2>1
  <2> QED
    BY <1>5, <2>2, <2>3
<1>12. \A k \in DOMAIN d.in : IsBlock(d.in[k]) => d.in[k].block \in d.requested \cup d.wanted
  BY <1>3, <1>4, <1>11 DEF ToSet
<1>13. \A j, k \in DOMAIN d.in : IsBlock(d.in[j]) /\ IsBlock(d.in[k]) /\ j # k => d.in[j].block # d.in[k].block
  <2> SUFFICES ASSUME NEW j \in DOMAIN d.in, NEW k \in DOMAIN d.in, IsBlock(d.in[j]), IsBlock(d.in[k]),
                      d.in[j].block = d.in[k].block
               PROVE  j = k
    OBVIOUS
  <2>1. PICK x \in 1..Len(s) : j = Len(c.in) + x /\ d.in[j].block = s[x]
    BY <1>11
  <2>2. PICK y \in 1..Len(s) : k = Len(c.in) + y /\ d.in[k].block = s[y]
    BY <1>11
  <2>3. x = y
    BY <1>3, <1>4, <2>1, <2>2 DEF IsInjective
  <2> QED
    BY <2>1, <2>2, <2>3
<1>14. \A k \in DOMAIN d.out : ~AsksItems(d.out[k])
  <2>1. \A k \in DOMAIN d.out : k + 1 \in DOMAIN c.out /\ k + 1 # 1 /\ d.out[k] = c.out[k + 1]
    BY <1>1
  <2> QED
    BY <1>3, <2>1
<1> QED
  BY <1>7, <1>9, <1>12, <1>13, <1>14 DEF OwedOK

LEMMA OrderedMore ==
  ASSUME NEW c, NEW A, NEW L, NEW h, Ordered(c, A, L, h),
         NEW B, A \subseteq B, NEW M, L \subseteq M, NEW g, g = Genesis => h = Genesis
  PROVE  Ordered(c, B, M, g)
BY DEF Ordered, EntryOK, AskedOK

LEMMA FetchIdsFields ==
  ASSUME NEW c, DOMAIN c = Fields, NEW here
  PROVE  /\ DOMAIN FetchIds(c, here) = Fields
         /\ \A f \in Fields \ {"composing"} : FetchIds(c, here)[f] = c[f]
         /\ FetchIds(c, here).composing
               = Append(c.composing, [ref |-> c.seen, ids |-> c.toGet, here |-> here])
BY DEF FetchIds, Fields

LEMMA FetchIdsKeeps ==
  ASSUME NEW c, RecordOK(c), c.up, NEW here \in BOOLEAN
  PROVE  /\ RecordOK(FetchIds(c, here))
         /\ FetchIds(c, here).up /\ FetchIds(c, here).requested = c.requested
         /\ OwedOK(c) => OwedOK(FetchIds(c, here))
         /\ \A A, L, h : Ordered(c, A, L, h) /\ (c.toGet # << >> \/ h = Genesis => here)
                               => Ordered(FetchIds(c, here), A, L, h)
<1> DEFINE d == FetchIds(c, here)
           r == [ref |-> c.seen, ids |-> c.toGet, here |-> here]
<1>0. DOMAIN c = Fields
  BY DEF RecordOK
<1>1. DOMAIN d = Fields /\ d.composing = Append(c.composing, r)
  BY <1>0, FetchIdsFields
<1>2. \A f \in Fields \ {"composing"} : d[f] = c[f]
  BY <1>0, FetchIdsFields
<1> HIDE DEF d
<1>3. /\ d.up = c.up /\ d.toGet = c.toGet /\ d.processing = c.processing /\ d.unfetched = c.unfetched
      /\ d.weNeed = c.weNeed /\ d.peerNeeds = c.peerNeeds /\ d.seen = c.seen /\ d.asked = c.asked
      /\ d.requested = c.requested /\ d.wanted = c.wanted /\ d.theirs = c.theirs /\ d.ours = c.ours
      /\ d.serves = c.serves /\ d.out = c.out /\ d.in = c.in
  BY <1>2 DEF Fields
<1>4. r \in PieceRequests /\ r.ref = c.seen /\ r.ids = c.toGet /\ r.here = here
  BY DEF RecordOK, PieceRequests
<1>5. c.composing \in Seq(PieceRequests)
  BY DEF RecordOK
<1> HIDE DEF r
<1>6. /\ d.composing \in Seq(PieceRequests) /\ DOMAIN d.composing = 1..(Len(c.composing) + 1)
      /\ Len(c.composing) \in Nat /\ d.composing[Len(c.composing) + 1] = r
      /\ \A i \in 1..Len(c.composing) : d.composing[i] = c.composing[i]
      /\ DOMAIN c.composing = 1..Len(c.composing)
  BY <1>1, <1>4, <1>5
<1>7. RecordOK(d)
  BY <1>1, <1>3, <1>6 DEF RecordOK
<1>8. OwedOK(c) => OwedOK(d)
  BY <1>3, OwedSame
<1>9. ASSUME NEW A, NEW L, NEW h, Ordered(c, A, L, h), c.toGet # << >> \/ h = Genesis => here
      PROVE  Ordered(d, A, L, h)
  <2>1. Handling(c) \/ here => Handling(d)
    <3>1. ASSUME Handling(c) PROVE Handling(d)
      <4>1. PICK i \in DOMAIN c.composing : c.composing[i].here
        BY <3>1 DEF Handling
      <4>2. i \in DOMAIN d.composing /\ d.composing[i] = c.composing[i]
        BY <1>6
      <4> QED
        BY <4>1, <4>2 DEF Handling
    <3>2. ASSUME here PROVE Handling(d)
      <4>1. Len(c.composing) + 1 \in DOMAIN d.composing
        BY <1>6
      <4>2. d.composing[Len(c.composing) + 1].here = here
        BY <1>4, <1>6
      <4> QED
        BY <3>2, <4>1, <4>2, Zenon DEF Handling
    <3> QED
      BY <3>1, <3>2
  <2>2. EntryOK(r, c.toGet, A, h)
    BY <1>4, <1>9 DEF EntryOK, Ordered
  <2>3. \A i \in DOMAIN d.composing : i \in DOMAIN c.composing \/ i = Len(c.composing) + 1
    BY <1>6
  <2>4. \A i \in DOMAIN d.composing : EntryOK(d.composing[i], d.toGet, A, h)
    BY <1>3, <1>6, <1>9, <2>2, <2>3 DEF Ordered
  <2> QED
    BY <1>3, <1>9, <2>1, <2>4 DEF Ordered
<1> QED
  BY <1>3, <1>7, <1>8, <1>9 DEF d

LEMMA StartSyncFields ==
  ASSUME NEW c, DOMAIN c = Fields, NEW here
  PROVE  /\ DOMAIN StartSync(c, here) = Fields
         /\ \A f \in Fields \ {"toGet", "unfetched", "weNeed", "seen", "composing"} : StartSync(c, here)[f] = c[f]
         /\ StartSync(c, here).toGet = << >> /\ StartSync(c, here).unfetched = 0
         /\ StartSync(c, here).weNeed = TRUE /\ StartSync(c, here).seen = Genesis
         /\ StartSync(c, here).composing
               = Append(c.composing, [ref |-> Genesis, ids |-> << >>, here |-> here])
BY DEF StartSync, FetchIds, Fields

LEMMA StartSyncKeeps ==
  ASSUME NEW c, RecordOK(c), c.up, NEW here \in BOOLEAN
  PROVE  /\ RecordOK(StartSync(c, here))
         /\ StartSync(c, here).up /\ StartSync(c, here).requested = c.requested
         /\ OwedOK(c) => OwedOK(StartSync(c, here))
         /\ \A A, L, h :
               /\ Ordered(c, A, L, h) /\ Genesis \in A /\ (h = Genesis => here)
               /\ c.toGet = << >> \/ (here /\ ~Handling(c))
               => Ordered(StartSync(c, here), A, L, h)
<1> DEFINE d == StartSync(c, here)
           none == << >>
           r == [ref |-> Genesis, ids |-> none, here |-> here]
<1>0. DOMAIN c = Fields
  BY DEF RecordOK
<1>1. /\ DOMAIN d = Fields /\ d.composing = Append(c.composing, r)
      /\ d.toGet = none /\ d.unfetched = 0 /\ d.weNeed = TRUE /\ d.seen = Genesis
  BY <1>0, StartSyncFields
<1>2. \A f \in Fields \ {"toGet", "unfetched", "weNeed", "seen", "composing"} : d[f] = c[f]
  BY <1>0 DEF StartSync, FetchIds, Fields
<1> HIDE DEF d
<1>3. /\ d.up = c.up /\ d.processing = c.processing
      /\ d.peerNeeds = c.peerNeeds /\ d.asked = c.asked
      /\ d.requested = c.requested /\ d.wanted = c.wanted /\ d.theirs = c.theirs /\ d.ours = c.ours
      /\ d.serves = c.serves /\ d.out = c.out /\ d.in = c.in
  BY <1>2 DEF Fields
<1>a. none \in Segments /\ ToSet(none) = {} /\ none = << >>
  BY SegmentEmpty DEF ToSet
<1> HIDE DEF none
<1>4. r \in PieceRequests /\ r.ref = Genesis /\ r.ids = none /\ r.here = here
  BY <1>a DEF PieceRequests
<1>5. c.composing \in Seq(PieceRequests)
  BY DEF RecordOK
<1> HIDE DEF r
<1>6. /\ d.composing \in Seq(PieceRequests) /\ DOMAIN d.composing = 1..(Len(c.composing) + 1)
      /\ Len(c.composing) \in Nat /\ d.composing[Len(c.composing) + 1] = r
      /\ \A i \in 1..Len(c.composing) : d.composing[i] = c.composing[i]
      /\ DOMAIN c.composing = 1..Len(c.composing)
  BY <1>1, <1>4, <1>5
<1>7. RecordOK(d)
  <2>1. d.weNeed \in BOOLEAN
    BY <1>1
  <2>2. d.toGet \in Segments /\ d.unfetched \in Nat /\ d.seen \in Blocks \cup {Genesis}
    BY <1>1, <1>a
  <2> QED
    BY <1>1, <1>3, <1>6, <2>1, <2>2 DEF RecordOK
<1>8. OwedOK(c) => OwedOK(d)
  BY <1>3, OwedSame
<1>9. ASSUME NEW A, NEW L, NEW h, Ordered(c, A, L, h), Genesis \in A, h = Genesis => here,
             c.toGet = << >> \/ (here /\ ~Handling(c))
      PROVE  Ordered(d, A, L, h)
  <2>1. here => Handling(d)
    <3> SUFFICES ASSUME here PROVE Handling(d)
      OBVIOUS
    <3>1. Len(c.composing) + 1 \in DOMAIN d.composing
      BY <1>6
    <3>2. d.composing[Len(c.composing) + 1].here = here
      BY <1>4, <1>6
    <3> QED
      BY <3>1, <3>2, Zenon DEF Handling
  <2>2. Handling(c) => Handling(d)
    <3> SUFFICES ASSUME Handling(c) PROVE Handling(d)
      OBVIOUS
    <3>1. PICK i \in DOMAIN c.composing : c.composing[i].here
      BY DEF Handling
    <3>2. i \in DOMAIN d.composing /\ d.composing[i] = c.composing[i]
      BY <1>6
    <3> QED
      BY <3>1, <3>2 DEF Handling
  <2>3. EntryOK(r, none, A, h)
    BY <1>4, <1>9, <1>a DEF EntryOK
  <2>4. \A i \in DOMAIN c.composing : EntryOK(c.composing[i], none, A, h)
    <3> SUFFICES ASSUME NEW i \in DOMAIN c.composing
                 PROVE  EntryOK(c.composing[i], none, A, h)
      OBVIOUS
    <3>1. EntryOK(c.composing[i], c.toGet, A, h)
      BY <1>9 DEF Ordered
    <3>2. CASE c.toGet = << >>
      BY <3>1, <3>2, <1>a
    <3>3. CASE here /\ ~Handling(c)
      <4>1. ~c.composing[i].here
        BY <3>3 DEF Handling
      <4>2. c.composing[i].ids = none
        BY <3>1, <4>1, <1>a DEF EntryOK
      <4> QED
        BY <3>1, <4>1, <4>2, <1>a DEF EntryOK
    <3> QED
      BY <1>9, <3>2, <3>3
  <2>5. \A i \in DOMAIN d.composing : i \in DOMAIN c.composing \/ i = Len(c.composing) + 1
    BY <1>6
  <2>6. \A i \in DOMAIN d.composing : EntryOK(d.composing[i], d.toGet, A, h)
    BY <1>1, <1>6, <2>3, <2>4, <2>5
  <2>7. d.asked = None \/ Handling(d) \/ AskedOK(d.asked, d.toGet, A)
    BY <1>1, <1>3, <1>9, <1>a, <2>1, <2>2 DEF Ordered
  <2> QED
    BY <1>1, <1>9, <1>a, <2>6, <2>7 DEF Ordered
<1> QED
  BY <1>3, <1>7, <1>8, <1>9 DEF d

(* The first message has been read. *)
LEMMA GotFields ==
  ASSUME NEW c, DOMAIN c = Fields
  PROVE  /\ DOMAIN Got(c) = Fields
         /\ \A f \in Fields \ {"in"} : Got(c)[f] = c[f]
         /\ Got(c).in = Tail(c.in)
BY DEF Got, Fields

LEMMA MessageFacts ==
  ASSUME NEW c, RecordOK(c), c.in # << >>
  PROVE  /\ c.up /\ Head(c.in) \in Incoming /\ Head(c.in) = c.in[1]
         /\ Tail(c.in) \in Seq(Incoming) /\ DOMAIN c.in = 1..Len(c.in) /\ Len(c.in) \in Nat \ {0}
         /\ DOMAIN Tail(c.in) = 1..(Len(c.in) - 1)
         /\ \A k \in 1..(Len(c.in) - 1) : Tail(c.in)[k] = c.in[k + 1]
<1>1. c.in \in Seq(Incoming)
  BY DEF RecordOK
<1>2. c.up
  BY ClosedOK DEF RecordOK
<1>3. /\ Head(c.in) \in Incoming /\ Head(c.in) = c.in[1]
      /\ Tail(c.in) \in Seq(Incoming) /\ DOMAIN c.in = 1..Len(c.in) /\ Len(c.in) \in Nat \ {0}
      /\ DOMAIN Tail(c.in) = 1..(Len(c.in) - 1)
      /\ \A k \in 1..(Len(c.in) - 1) : Tail(c.in)[k] = c.in[k + 1]
  BY <1>1
<1> QED
  BY <1>2, <1>3

LEMMA GotRecord ==
  ASSUME NEW c, RecordOK(c), c.in # << >>
  PROVE  /\ RecordOK(Got(c)) /\ Got(c).up
         /\ \A f \in Fields \ {"in"} : Got(c)[f] = c[f]
         /\ Got(c).in = Tail(c.in)
<1>1. /\ DOMAIN Got(c) = Fields /\ \A f \in Fields \ {"in"} : Got(c)[f] = c[f]
      /\ Got(c).in = Tail(c.in)
  BY GotFields DEF RecordOK
<1>2. Tail(c.in) \in Seq(Incoming) /\ c.up
  BY MessageFacts
<1> DEFINE d == Got(c)
<1> HIDE DEF d
<1>3. /\ d.up = c.up /\ d.toGet = c.toGet /\ d.processing = c.processing /\ d.unfetched = c.unfetched
      /\ d.weNeed = c.weNeed /\ d.peerNeeds = c.peerNeeds /\ d.seen = c.seen /\ d.asked = c.asked
      /\ d.requested = c.requested /\ d.wanted = c.wanted /\ d.theirs = c.theirs /\ d.ours = c.ours
      /\ d.serves = c.serves /\ d.out = c.out /\ d.composing = c.composing /\ d.in = Tail(c.in)
  BY <1>1 DEF Fields, d
<1>4. RecordOK(d)
  BY <1>1, <1>2, <1>3 DEF RecordOK, d
<1> QED
  BY <1>1, <1>2, <1>3, <1>4 DEF d

-----------------------------------------------------------------------------
(* The blocks the application has settled *)

(* A block the application has given up or has: so it has with its parent. *)
LEMMA SettledParents ==
  ASSUME VarsOK, DbOK, NEW x \in Blocks, x \in Settled
  PROVE  Parent[x] \in Settled
<1>1. CASE x \in known
  BY <1>1 DEF DbOK
<1>2. CASE Lost(x)
  <2>1. head \in Blocks \cup {Genesis}
    BY DEF VarsOK
  <2>2. /\ Parent[x] \in Blocks \cup {Genesis} /\ CommonNum(Parent[x], head) <= CommonNum(x, head)
    BY <2>1, CommonWithParent
  <2>3. CommonNum(x, head) < NonUndoable(head)
    BY <1>2 DEF Lost
  <2>4. CommonNum(x, head) \in Nat /\ CommonNum(Parent[x], head) \in Nat /\ NonUndoable(head) \in Nat
    BY <2>1, <2>2, CommonFacts, NonUndoableFacts
  <2>5. CommonNum(Parent[x], head) < NonUndoable(head)
    BY <2>2, <2>3, <2>4
  <2>6. Included(Parent[x], head) => Parent[x] \in known
    BY DEF DbOK, Included
  <2> QED
    BY <2>2, <2>5, <2>6 DEF Settled, Lost
<1> QED
  BY <1>1, <1>2, ParentAssumption DEF Settled

(* A block whose parent is given up is given up with it. *)
LEMMA LostChild ==
  ASSUME VarsOK, NEW x \in Blocks, Parent[x] # Genesis, Lost(Parent[x])
  PROVE  Lost(x)
<1>1. head \in Blocks \cup {Genesis}
  BY DEF VarsOK
<1>2. /\ ~Included(x, head) => CommonNum(x, head) = CommonNum(Parent[x], head)
      /\ Included(x, head) /\ Parent[x] # Genesis => Included(Parent[x], head)
  BY <1>1, CommonWithParent
<1> QED
  BY <1>2 DEF Lost

LEMMA OrderIsPushOrder ==
  ASSUME VarsOK, DbOK
  PROVE  PushedInOrder
<1> SUFFICES ASSUME NEW i \in DOMAIN handling
             PROVE  \/ Parent[handling[i]] \in known \cup {Genesis} \cup {handling[j] : j \in 1..(i - 1)}
                    \/ OutOfReach(handling[i])
  BY DEF PushedInOrder
<1>0. handling \in Seq(Blocks)
  BY DEF VarsOK
<1>1. handling[i] \in Blocks
  BY <1>0
<1>2. Parent[handling[i]] \in Settled \cup {handling[j] : j \in 1..(i - 1)}
  BY DEF DbOK, InOrder
<1>3. CASE Parent[handling[i]] # Genesis /\ Lost(Parent[handling[i]])
  BY <1>1, <1>3, LostChild DEF Lost, OutOfReach
<1> QED
  BY <1>2, <1>3 DEF Settled

(* The whole chain below an anchored block is anchored. *)
LEMMA AnchorParents ==
  ASSUME VarsOK, DbOK, NEW x \in Blocks, x \in Anchors
  PROVE  Parent[x] \in Anchors
<1>1. CASE x \in Settled
  BY <1>1, SettledParents DEF Anchors
<1>2. CASE x \in ToSet(handling)
  <2>0. handling \in Seq(Blocks)
    BY DEF VarsOK
  <2>1. DOMAIN handling = 1..Len(handling) /\ Len(handling) \in Nat
    BY <2>0
  <2>2. PICK i \in DOMAIN handling : x = handling[i]
    BY <1>2 DEF ToSet
  <2>3. Parent[x] \in Settled \cup {handling[j] : j \in 1..(i - 1)}
    BY <2>2 DEF DbOK, InOrder
  <2>4. \A j \in 1..(i - 1) : j \in DOMAIN handling
    BY <2>1
  <2> QED
    BY <2>3, <2>4 DEF Anchors, ToSet
<1> QED
  BY <1>1, <1>2 DEF Anchors

LEMMA GenesisAnchored ==
  /\ Genesis \in Settled /\ Genesis \in Anchors
  /\ \A b \in Blocks : Parent[b] \in Anchors => b \in Links
BY DEF Settled, Anchors, Links

LEMMA AnchoredChain ==
  ASSUME VarsOK, DbOK, NEW x \in Blocks \cup {Genesis}, x \in Anchors
  PROVE  ToSet(Chain(x)) \subseteq Anchors
<1>1. /\ Num(x) \in Nat /\ DOMAIN Chain(x) = 1..Num(x) /\ (x # Genesis => Chain(x)[Num(x)] = x)
      /\ \A k \in 1..Num(x) : Chain(x)[k] \in Blocks
      /\ (x # Genesis => Num(x) # 0)
  BY ChainFacts
<1> DEFINE G == {d \in Nat : d < Num(x) => Chain(x)[Num(x) - d] \in Anchors}
<1>2. 0 \in G
  BY <1>1 DEF Num
<1>3. ASSUME NEW d \in G
      PROVE  d + 1 \in G
  <2> SUFFICES ASSUME d + 1 < Num(x)
               PROVE  Chain(x)[Num(x) - (d + 1)] \in Anchors
    OBVIOUS
  <2>1. Num(x) - d \in 1..Num(x) /\ Num(x) - d # 1 /\ (Num(x) - d) - 1 = Num(x) - (d + 1)
    BY <1>1
  <2>2. Chain(x)[Num(x) - d] \in Anchors /\ Chain(x)[Num(x) - d] \in Blocks
    BY <1>1, <2>1
  <2>3. Parent[Chain(x)[Num(x) - d]] = Chain(x)[Num(x) - (d + 1)]
    BY <2>1, ChainLinks
  <2> QED
    BY <2>2, <2>3, AnchorParents
<1> HIDE DEF G
<1>4. \A d \in Nat : d \in G
  BY <1>2, <1>3, NatSetInduction DEF G
<1>5. ASSUME NEW k \in 1..Num(x)
      PROVE  Chain(x)[k] \in Anchors
  <2>1. Num(x) - k \in Nat /\ Num(x) - k < Num(x) /\ Num(x) - (Num(x) - k) = k
    BY <1>1
  <2> QED
    BY <1>4, <2>1 DEF G
<1> QED
  BY <1>1, <1>5 DEF ToSet

(* A block that cannot be pushed is on the chain or given up: nothing that *)
(* follows it can ever be pushed either.                                   *)
LEMMA FailedIsSettled ==
  ASSUME VarsOK, DbOK, NEW b \in Blocks, Parent[b] \in Settled, PushResult(b) # "ok"
  PROVE  b \in Settled
<1>1. head \in Blocks \cup {Genesis}
  BY DEF VarsOK
<1>2. /\ CommonNum(b, head) \in Nat /\ NonUndoable(head) \in Nat /\ Num(b) \in Nat /\ Num(head) \in Nat
  BY <1>1, CommonFacts, NonUndoableFacts, ChainFacts
<1>3. Included(b, head) => b \in known
  BY DEF DbOK, Included
<1>4. CASE Num(b) <= NonUndoable(head)
  <2>1. ~Included(b, head) => CommonNum(b, head) < NonUndoable(head)
    BY <1>1, <1>2, <1>4, NotIncluded
  <2> QED
    BY <1>3, <2>1 DEF Settled, Lost
<1>5. CASE Parent[b] \notin known \cup {Genesis}
  <2>1. Lost(Parent[b]) /\ Parent[b] # Genesis
    BY <1>5 DEF Settled
  <2> QED
    BY <2>1, LostChild DEF Settled
<1>6. CASE Num(b) > Num(head) /\ CommonNum(b, head) < NonUndoable(head)
  <2>1. ~Included(b, head)
    BY <1>1, <1>2, <1>6, IncludedAt
  <2> QED
    BY <1>6, <2>1 DEF Settled, Lost
<1> QED
  BY <1>4, <1>5, <1>6 DEF PushResult

LEMMA PushOK ==
  ASSUME VarsOK, DbOK, NEW b \in Blocks, PushResult(b) = "ok"
  PROVE  /\ Parent[b] \in known \cup {Genesis}
         /\ Num(b) > Num(head) => CommonNum(b, head) >= NonUndoable(head)
<1>1. head \in Blocks \cup {Genesis}
  BY DEF VarsOK
<1>2. /\ CommonNum(b, head) \in Nat /\ NonUndoable(head) \in Nat
  BY <1>1, CommonFacts, NonUndoableFacts
<1>3. Parent[b] \in known \cup {Genesis}
  BY DEF PushResult
<1>4. ~(Num(b) > Num(head) /\ CommonNum(b, head) < NonUndoable(head))
  BY DEF PushResult
<1> QED
  BY <1>2, <1>3, <1>4

(* Pushing a block keeps what is settled settled. *)
LEMMA PushSettles ==
  ASSUME VarsOK, DbOK, NEW b \in Blocks, PushResult(b) = "ok", Push(b)
  PROVE  /\ head' \in Blocks /\ known' \subseteq Blocks
         /\ Settled \subseteq Settled' /\ b \in Settled'
         /\ ToSet(Chain(head)') \subseteq known'
         /\ \A x \in known' : Parent[x] \in Settled'
<1> DEFINE h == IF Num(b) > Num(head) THEN b ELSE head
<1>1. /\ head \in Blocks \cup {Genesis} /\ known \subseteq Blocks /\ head' = h
      /\ known' = {x \in known \cup {b} : Included(x, h) \/ Num(x) >= NonUndoable(h)}
  BY DEF VarsOK, Push
<1>2. Num(b) \in Nat \ {0} /\ Num(head) \in Nat /\ (head = Genesis => Num(head) = 0) /\ b # Genesis
  BY <1>1, ChainFacts, ParentAssumption DEF Num
<1>3. h \in Blocks /\ Num(h) \in Nat /\ Num(h) >= Num(head)
  BY <1>1, <1>2
<1>4. /\ NonUndoable(head) \in Nat /\ NonUndoable(h) \in Nat /\ NonUndoable(head) <= NonUndoable(h)
  <2>1. UndoSize \in Nat
    BY NetworkAssumption
  <2> HIDE DEF h
  <2> QED
    BY <1>2, <1>3, <2>1 DEF NonUndoable
<1>5. CommonNum(h, head) >= NonUndoable(head)
  <2>1. CASE Num(b) > Num(head)
    BY <2>1, PushOK
  <2>2. CASE ~(Num(b) > Num(head))
    <3>1. h = head /\ head \in Blocks
      BY <1>3, <2>2
    <3>a. Num(head) # 0 /\ Chain(head)[Num(head)] = head
      BY <3>1, ChainFacts, ParentAssumption
    <3>b. Num(head) \in 1..Num(head)
      BY <1>2, <3>a
    <3>2. Included(head, head)
      BY <3>1, <3>a, <3>b, IncludedAt
    <3>3. CommonNum(head, head) = Num(head)
      BY <3>1, <3>2, NotIncluded
    <3>4. NonUndoable(head) <= Num(head)
      BY <1>1, NonUndoableFacts
    <3> QED
      BY <1>2, <1>4, <3>1, <3>3, <3>4
  <2> QED
    BY <2>1, <2>2
<1> HIDE DEF h
<1>6. ASSUME NEW x \in Blocks \cup {Genesis}, Lost(x)
      PROVE  ~Included(x, h) /\ CommonNum(x, h) < NonUndoable(h)
  <2>1. CommonNum(x, head) < NonUndoable(head) /\ ~Included(x, head)
    BY <1>6 DEF Lost
  <2>2. CommonNum(x, h) < NonUndoable(head) /\ (Included(x, h) => Included(x, head))
    BY <1>1, <1>3, <1>4, <1>5, <2>1, CommonWithBoth
  <2>3. CommonNum(x, h) \in Nat
    BY <1>3, CommonFacts
  <2> QED
    BY <1>4, <2>1, <2>2, <2>3
<1>7. ASSUME NEW x \in known \cup {b}
      PROVE  x \in known' \/ (~Included(x, h) /\ CommonNum(x, h) < NonUndoable(h))
  <2>1. x \in Blocks /\ Num(x) \in Nat /\ CommonNum(x, h) \in Nat /\ CommonNum(x, h) <= Num(x)
    BY <1>1, <1>3, ChainFacts, CommonFacts
  <2> QED
    BY <1>1, <1>4, <2>1
<1>8. \A x : x \in Settled' <=> /\ x \in Blocks \cup {Genesis}
                               /\ \/ x \in known' \cup {Genesis}
                                  \/ ~Included(x, h) /\ CommonNum(x, h) < NonUndoable(h)
  BY <1>1 DEF Settled, Lost, Included, CommonNum, NonUndoable, Chain
<1>9. Settled \subseteq Settled'
  <2> SUFFICES ASSUME NEW x \in Settled PROVE x \in Settled'
    OBVIOUS
  <2>1. x \in Blocks \cup {Genesis} /\ (x \in known \cup {Genesis} \/ Lost(x))
    BY DEF Settled
  <2> QED
    BY <1>6, <1>7, <1>8, <2>1
<1>10. b \in Settled'
  BY <1>7, <1>8
<1>11. Parent[b] \in known \cup {Genesis}
  BY PushOK
<1>12. \A x \in known' : Parent[x] \in Settled'
  <2> SUFFICES ASSUME NEW x \in known' PROVE Parent[x] \in Settled'
    OBVIOUS
  <2>1. x \in known \/ x = b
    BY <1>1
  <2>2. known \cup {Genesis} \subseteq Settled
    BY <1>1 DEF Settled
  <2>3. Parent[x] \in Settled
    BY <1>11, <2>1, <2>2 DEF DbOK
  <2> QED
    BY <1>9, <2>3
<1>13. \A x \in ToSet(Chain(h)) : x \in known \cup {b}
  <2>1. CASE h = head
    BY <2>1 DEF DbOK
  <2>2. CASE h # head
    <3>1. h = b /\ CommonNum(b, head) >= NonUndoable(head)
      BY <1>5, <2>2 DEF h
    <3>2. /\ DOMAIN Chain(b) = 1..Num(b) /\ Chain(b)[Num(b)] = b
          /\ \A k \in 1..Num(b) : Chain(b)[k] \in Blocks /\ Num(Chain(b)[k]) = k
      BY <1>2, ChainFacts
    <3> DEFINE G == {d \in Nat : d < Num(b) => Chain(b)[Num(b) - d] \in known \cup {b}}
    <3>3. 0 \in G
      BY <1>2, <3>2
    <3>4. ASSUME NEW d \in G
          PROVE  d + 1 \in G
      <4> DEFINE n == Num(b) - d
                 x == Chain(b)[n - 1]
      <4> SUFFICES ASSUME d + 1 < Num(b)
                   PROVE  Chain(b)[Num(b) - (d + 1)] \in known \cup {b}
        OBVIOUS
      <4>1. n \in 1..Num(b) /\ n - 1 \in 1..Num(b) /\ n # 1 /\ Num(b) - (d + 1) = n - 1
        BY <1>2
      <4>2. Chain(b)[n] \in known \cup {b}
        BY <1>2, <4>1
      <4> HIDE DEF n
      <4>3. Parent[Chain(b)[n]] = x
        BY <4>1, ChainLinks
      <4>4. x \in Blocks /\ Num(x) = n - 1 /\ x # Genesis
        BY <3>2, <4>1, ParentAssumption
      <4>5. x \in Settled
        BY <1>1, <1>11, <4>2, <4>3, <4>4 DEF DbOK, Settled
      <4>6. ~Lost(x)
        <5> HIDE DEF x
        <5> SUFFICES ASSUME Lost(x) PROVE FALSE
          OBVIOUS
        <5>1. Included(x, b)
          <6>1. Num(x) \in 1..Num(b) /\ Chain(b)[Num(x)] = x
            BY <4>1, <4>4 DEF x
          <6> QED
            BY <4>4, <6>1, IncludedAt
        <5>2. CommonNum(x, head) < NonUndoable(head) /\ ~Included(x, head)
          BY DEF Lost
        <5> QED
          BY <1>1, <1>4, <3>1, <4>4, <5>1, <5>2, CommonWithBoth
      <4>7. x \in known
        BY <4>4, <4>5, <4>6 DEF Settled
      <4> QED
        BY <4>1, <4>7
    <3> HIDE DEF G
    <3>5. \A d \in Nat : d \in G
      BY <3>3, <3>4, NatSetInduction DEF G
    <3>6. ASSUME NEW k \in 1..Num(b)
          PROVE  Chain(b)[k] \in known \cup {b}
      <4>1. Num(b) - k \in Nat /\ Num(b) - k < Num(b) /\ Num(b) - (Num(b) - k) = k
        BY <1>2
      <4> QED
        BY <3>5, <4>1 DEF G
    <3> QED
      BY <3>1, <3>2, <3>6 DEF ToSet
  <2> QED
    BY <2>1, <2>2
<1>14. ToSet(Chain(h)) \subseteq known'
  BY <1>1, <1>13 DEF Included
<1>15. Chain(head)' = Chain(h)
  BY <1>1 DEF Chain
<1> QED
  BY <1>1, <1>3, <1>9, <1>10, <1>12, <1>14, <1>15

-----------------------------------------------------------------------------
(* Blocks leave the list, and the application is done with them *)

(* b is handed to the application and leaves the front of the list. *)
LEMMA PopFrontKeeps ==
  ASSUME NEW c, RecordOK(c), NEW b \in Blocks
  PROVE  /\ RecordOK(PopFront(c, b))
         /\ PopFront(c, b).up = c.up /\ PopFront(c, b).requested = c.requested
         /\ OwedOK(c) => OwedOK(PopFront(c, b))
         /\ \A A, L, h : /\ Ordered(c, A, L, h) /\ b \in A
                         /\ \A x \in Blocks : Parent[x] \in A => x \in L
                         => Ordered(PopFront(c, b), A, L, h)
<1> DEFINE d == PopFront(c, b)
<1>1. CASE ~(c.toGet # << >> /\ c.toGet[1] = b)
  BY <1>1 DEF PopFront
<1>2. CASE c.toGet # << >> /\ c.toGet[1] = b
  <2>0. DOMAIN c = Fields /\ c.toGet \in Segments
    BY DEF RecordOK
  <2>1. /\ DOMAIN d = Fields /\ d.toGet = Tail(c.toGet) /\ d.processing = c.processing \cup {b}
        /\ \A f \in Fields \ {"toGet", "processing"} : d[f] = c[f]
    BY <1>2, <2>0 DEF PopFront, Fields
  <2> HIDE DEF d
  <2>2. /\ d.up = c.up /\ d.unfetched = c.unfetched
        /\ d.weNeed = c.weNeed /\ d.peerNeeds = c.peerNeeds /\ d.seen = c.seen /\ d.asked = c.asked
        /\ d.requested = c.requested /\ d.wanted = c.wanted /\ d.theirs = c.theirs /\ d.ours = c.ours
        /\ d.serves = c.serves /\ d.out = c.out /\ d.in = c.in /\ d.composing = c.composing
    BY <2>1 DEF Fields
  <2>3. /\ d.toGet \in Segments /\ ToSet(c.toGet) = ToSet(d.toGet) \cup {b}
        /\ d.toGet # << >> => Parent[d.toGet[1]] = b /\ d.toGet[1] \in Blocks
    <3>1. /\ Tail(c.toGet) \in Segments /\ ToSet(c.toGet) = ToSet(Tail(c.toGet)) \cup {b}
          /\ Tail(c.toGet) # << >> => Parent[Tail(c.toGet)[1]] = b
      BY <1>2, <2>0, SegmentTail
    <3>0. d.toGet \in Segments
      BY <2>1, <3>1
    <3>2. d.toGet # << >> => d.toGet[1] \in Blocks
      BY <3>0, SegmentType
    <3> QED
      BY <2>1, <3>1, <3>2
  <2>4. c.up
    BY <1>2, ClosedOK DEF RecordOK
  <2>5. RecordOK(d)
    BY <2>1, <2>2, <2>3, <2>4 DEF RecordOK
  <2>6. OwedOK(c) => OwedOK(d)
    BY <2>2, OwedSame
  <2>7. ASSUME NEW A, NEW L, NEW h, Ordered(c, A, L, h), b \in A,
               \A x \in Blocks : Parent[x] \in A => x \in L
        PROVE  Ordered(d, A, L, h)
    <3>1. d.toGet # << >> => d.toGet[1] \in L
      BY <2>3, <2>7
    <3>2. ToSet(c.toGet) \subseteq A \cup ToSet(d.toGet)
      BY <2>3, <2>7
    <3>3. \A i \in DOMAIN d.composing : EntryOK(d.composing[i], d.toGet, A, h)
      <4> SUFFICES ASSUME NEW i \in DOMAIN c.composing
                   PROVE  EntryOK(c.composing[i], d.toGet, A, h)
        BY <2>2
      <4>1. EntryOK(c.composing[i], c.toGet, A, h)
        BY <2>7 DEF Ordered
      <4> QED
        BY <1>2, <3>2, <4>1 DEF EntryOK
    <3>4. AskedOK(c.asked, c.toGet, A) => AskedOK(d.asked, d.toGet, A)
      BY <1>2, <2>2, <3>2 DEF AskedOK
    <3>5. Handling(c) => Handling(d)
      BY <2>2 DEF Handling
    <3> QED
      BY <2>2, <2>7, <3>1, <3>3, <3>4, <3>5 DEF Ordered
  <2> QED
    BY <2>2, <2>5, <2>6, <2>7 DEF d
<1> QED
  BY <1>1, <1>2

(* The application is done with b, which is the last block seen, or not. *)
LEMMA DoneKeeps ==
  ASSUME NEW c, RecordOK(c), c.up, NEW d, DOMAIN d = Fields, NEW b \in Blocks,
         d.processing = c.processing \ {b}, d.seen = c.seen \/ d.seen = b,
         \A f \in Fields \ {"processing", "seen"} : d[f] = c[f]
  PROVE  /\ RecordOK(d) /\ d.up /\ d.requested = c.requested
         /\ OwedOK(c) => OwedOK(d)
         /\ \A A, L, h : Ordered(c, A, L, h) /\ b \in A => Ordered(d, A, L, h)
<1>2. /\ d.up = c.up /\ d.unfetched = c.unfetched /\ d.toGet = c.toGet
      /\ d.weNeed = c.weNeed /\ d.peerNeeds = c.peerNeeds /\ d.asked = c.asked
      /\ d.requested = c.requested /\ d.wanted = c.wanted /\ d.theirs = c.theirs /\ d.ours = c.ours
      /\ d.serves = c.serves /\ d.out = c.out /\ d.in = c.in /\ d.composing = c.composing
  BY DEF Fields
<1>3. RecordOK(d)
  BY <1>2 DEF RecordOK
<1>4. OwedOK(c) => OwedOK(d)
  BY <1>2, OwedSame
<1>5. ASSUME NEW A, NEW L, NEW h, Ordered(c, A, L, h), b \in A
      PROVE  Ordered(d, A, L, h)
  BY <1>2, <1>5, OrderedSame
<1> QED
  BY <1>2, <1>3, <1>4, <1>5

LEMMA FetchIfAllDoneKeeps ==
  ASSUME NEW c, RecordOK(c), c.up
  PROVE  /\ RecordOK(FetchIfAllDone(c)) /\ FetchIfAllDone(c).requested = c.requested
         /\ OwedOK(c) => OwedOK(FetchIfAllDone(c))
         /\ \A A, L, h : Ordered(c, A, L, h) /\ h # Genesis => Ordered(FetchIfAllDone(c), A, L, h)
<1>1. /\ RecordOK(FetchIds(c, FALSE)) /\ FetchIds(c, FALSE).requested = c.requested
      /\ OwedOK(c) => OwedOK(FetchIds(c, FALSE))
      /\ \A A, L, h : Ordered(c, A, L, h) /\ (c.toGet # << >> \/ h = Genesis => FALSE)
                               => Ordered(FetchIds(c, FALSE), A, L, h)
  <2>1. FALSE \in BOOLEAN
    OBVIOUS
  <2> QED
    BY <2>1, FetchIdsKeeps
<1>2. FetchIfAllDone(c) = c \/ (c.toGet = << >> /\ FetchIfAllDone(c) = FetchIds(c, FALSE))
  BY DEF FetchIfAllDone
<1>3. CASE FetchIfAllDone(c) = c
  BY <1>3
<1>4. CASE c.toGet = << >> /\ FetchIfAllDone(c) = FetchIds(c, FALSE)
  BY <1>1, <1>4
<1> QED
  BY <1>2, <1>3, <1>4

LEMMA AcceptedKeeps ==
  ASSUME NEW c, RecordOK(c), NEW b \in Blocks
  PROVE  /\ RecordOK(Accepted(c, b)) /\ Accepted(c, b).requested = c.requested
         /\ OwedOK(c) => OwedOK(Accepted(c, b))
         /\ \A A, L, h : Ordered(c, A, L, h) /\ b \in A /\ Genesis \in A /\ h # Genesis
                            => Ordered(Accepted(c, b), A, L, h)
<1> DEFINE d == [c EXCEPT !.processing = @ \ {b}, !.seen = b]
<1>1. \/ Accepted(c, b) = c
      \/ c.up /\ c.toGet = << >> /\ Accepted(c, b) = StartSync(c, FALSE)
      \/ c.up /\ Accepted(c, b) = FetchIfAllDone(d)
  BY DEF Accepted
<1>2. CASE Accepted(c, b) = c
  BY <1>2
<1>3. CASE c.up /\ c.toGet = << >> /\ Accepted(c, b) = StartSync(c, FALSE)
  <2>1. FALSE \in BOOLEAN
    OBVIOUS
  <2>2. /\ RecordOK(StartSync(c, FALSE)) /\ StartSync(c, FALSE).requested = c.requested
        /\ OwedOK(c) => OwedOK(StartSync(c, FALSE))
        /\ \A A, L, h : Ordered(c, A, L, h) /\ Genesis \in A /\ h # Genesis => Ordered(StartSync(c, FALSE), A, L, h)
    BY <1>3, <2>1, StartSyncKeeps
  <2> QED
    BY <1>3, <2>2
<1>4. CASE c.up /\ Accepted(c, b) = FetchIfAllDone(d)
  <2>0. DOMAIN c = Fields
    BY DEF RecordOK
  <2>1. /\ DOMAIN d = Fields /\ d.processing = c.processing \ {b} /\ d.seen = b
        /\ \A f \in Fields \ {"processing", "seen"} : d[f] = c[f]
    BY <2>0 DEF Fields
  <2> HIDE DEF d
  <2>2. /\ RecordOK(d) /\ d.up /\ d.requested = c.requested
        /\ OwedOK(c) => OwedOK(d)
        /\ \A A, L, h : Ordered(c, A, L, h) /\ b \in A => Ordered(d, A, L, h)
    BY <1>4, <2>1, DoneKeeps
  <2>3. /\ RecordOK(FetchIfAllDone(d)) /\ FetchIfAllDone(d).requested = d.requested
        /\ OwedOK(d) => OwedOK(FetchIfAllDone(d))
        /\ \A A, L, h : Ordered(d, A, L, h) /\ h # Genesis => Ordered(FetchIfAllDone(d), A, L, h)
    BY <2>2, FetchIfAllDoneKeeps
  <2> QED
    BY <1>4, <2>2, <2>3
<1> QED
  BY <1>1, <1>2, <1>3, <1>4

-----------------------------------------------------------------------------
(* Lists *)

LEMMA SetToSeqFacts ==
  ASSUME NEW S, IsFiniteSet(S)
  PROVE  SetToSeq(S) \in Seq(S)
<1>1. Cardinality(S) \in Nat /\ ExistsBijection(1..Cardinality(S), S)
  BY FS_CardinalityType
<1>2. PICK f \in Bijection(1..Cardinality(S), S) : TRUE
  BY <1>1 DEF ExistsBijection
<1>3. f \in [1..Cardinality(S) -> S] /\ IsInjective(f)
  BY <1>2 DEF Bijection, Injection, IsInjective
<1>4. SetToSeq(S) \in [1..Cardinality(S) -> S]
  BY <1>3 DEF SetToSeq
<1> QED
  BY <1>1, <1>4

(* What the closed connections leave to be fetched from the others. *)
LEMMA LeftToFetch ==
  ASSUME NEW cn, NEW gone \in SUBSET Peers, NEW items \in Seq(Blocks), NEW K,
         \A p \in gone : cn[p].wanted \subseteq Blocks /\ IsFiniteSet(cn[p].wanted),
         K \subseteq UNION {cn[p].wanted : p \in gone}
  PROVE  items \o SetToSeq(K) \in Seq(Blocks)
<1> DEFINE T == {cn[p].wanted : p \in gone}
           f == [p \in gone |-> cn[p].wanted]
<1>1. IsFiniteSet(gone)
  BY NetworkAssumption, FS_Subset
<1>2. f \in Surjection(gone, T)
  BY DEF Surjection
<1>3. IsFiniteSet(T)
  BY <1>1, <1>2, FS_Surjection
<1>4. IsFiniteSet(UNION T) /\ UNION T \subseteq Blocks
  <2>1. \A t \in T : IsFiniteSet(t) /\ t \subseteq Blocks
    OBVIOUS
  <2> HIDE DEF T
  <2> QED
    BY <1>3, <2>1, FS_UNION
<1>5. K \in SUBSET (UNION T)
  OBVIOUS
<1> HIDE DEF T
<1>6. IsFiniteSet(K) /\ K \subseteq Blocks
  BY <1>4, <1>5, FS_Subset
<1>7. SetToSeq(K) \in Seq(K)
  BY <1>6, SetToSeqFacts
<1>8. SetToSeq(K) \in Seq(Blocks)
  BY <1>6, <1>7
<1> HIDE DEF f
<1>9. \A a, b \in Seq(Blocks) : a \o b \in Seq(Blocks)
  BY ConcatProperties
<1> QED
  BY <1>8, <1>9

LEMMA RemoveAtFacts ==
  ASSUME NEW s \in Seq(Blocks), NEW i \in 1..Len(s)
  PROVE  RemoveAt(s, i) \in Seq(Blocks)
<1>1. SubSeq(s, 1, i - 1) \in Seq(Blocks)
  <2>1. \A k \in 1..(i - 1) : s[k] \in Blocks
    OBVIOUS
  <2> QED
    BY <2>1, SubSeqProperties
<1>2. SubSeq(s, i + 1, Len(s)) \in Seq(Blocks)
  <2>1. \A k \in (i + 1)..Len(s) : s[k] \in Blocks
    OBVIOUS
  <2> QED
    BY <2>1, SubSeqProperties
<1>3. \A a, b \in Seq(Blocks) : a \o b \in Seq(Blocks)
  BY ConcatProperties
<1> QED
  BY <1>1, <1>2, <1>3 DEF RemoveAt

LEMMA LeastIndex ==
  ASSUME NEW n \in Nat, NEW I \in SUBSET (1..n), I # {}
  PROVE  Min(I) \in I /\ \A k \in I : Min(I) <= k
<1>1. \E k \in I : \A m \in I : k <= m
  BY NatLeast
<1> QED
  BY <1>1 DEF Min

LEMMA SeenBeforeFacts ==
  ASSUME NEW p, NEW ids \in Segments, ids # << >>
  PROVE  /\ SeenBefore(p, ids) \in 0..Len(ids)
         /\ \A k \in 1..SeenBefore(p, ids) : ids[k] \in known
<1>1. ids \in Seq(Blocks) /\ Len(ids) \in Nat \ {0}
  BY SegmentType
<1> DEFINE I == {i \in 1..Len(ids) : ids[i] \notin known}
           new == IF I # {} THEN Min(I) ELSE 0
<1>2. SeenBefore(p, ids) = IF FirstForOther(p, ids[1]) THEN 0 ELSE IF new = 0 THEN Len(ids) ELSE new - 1
  BY DEF SeenBefore, SelectInSeq
<1>3. CASE I = {}
  <2>1. new = 0
    BY <1>3
  <2>2. \A k \in 1..Len(ids) : ids[k] \in known
    BY <1>3
  <2> HIDE DEF new, I
  <2> QED
    BY <1>1, <1>2, <2>1, <2>2
<1>4. CASE I # {}
  <2>1. I \in SUBSET Nat /\ I \subseteq 1..Len(ids)
    BY <1>1
  <2>2. \A k \in 1..Len(ids) : k \notin I => ids[k] \in known
    OBVIOUS
  <2>a. new = Min(I)
    BY <1>4
  <2> HIDE DEF new, I
  <2>4. new \in I /\ \A m \in I : new <= m
    BY <1>1, <1>4, <2>1, <2>a, LeastIndex
  <2>5. new \in 1..Len(ids)
    BY <2>1, <2>4
  <2>6. \A k \in 1..(new - 1) : k \in 1..Len(ids) /\ k \notin I
    BY <1>1, <2>4, <2>5
  <2>7. \A k \in 1..(new - 1) : ids[k] \in known
    BY <2>2, <2>6
  <2> QED
    BY <1>1, <1>2, <2>5, <2>7
<1> QED
  BY <1>3, <1>4

LEMMA LastIndex ==
  ASSUME NEW s \in Seq(Blocks), NEW b
  PROVE  LET i == SelectLastInSeq(s, LAMBDA x : x = b)
         IN  /\ i = 0 => b \notin ToSet(s)
             /\ i # 0 => i \in 1..Len(s) /\ s[i] = b
<1> DEFINE I == {i \in 1..Len(s) : s[i] = b}
           i == SelectLastInSeq(s, LAMBDA x : x = b)
<1>1. i = IF I # {} THEN Max(I) ELSE 0
  BY DEF SelectLastInSeq
<1>2. CASE I = {}
  <2>1. b \notin ToSet(s) /\ i = 0
    BY <1>1, <1>2, InToSet
  <2> HIDE DEF i
  <2> QED
    BY <2>1 DEF i
<1>3. CASE I # {}
  <2>1. I \in SUBSET (1..Len(s)) /\ Len(s) \in Nat
    OBVIOUS
  <2>2. \A k \in I : k \in 1..Len(s) /\ s[k] = b
    OBVIOUS
  <2>3. i = Max(I)
    BY <1>1, <1>3
  <2> HIDE DEF I, i
  <2>4. Largest(I) \in I /\ \A y \in I : y <= Largest(I)
    BY <1>3, <2>1, LargestIn
  <2>a. \A y \in 1..Len(s) : y \in Nat
    OBVIOUS
  <2>5. Largest(I) \in Nat /\ \A y \in I : y \in Nat
    BY <2>2, <2>4, <2>a
  <2>6. \A y \in I : Largest(I) >= y
    BY <2>4, <2>5
  <2>7. i \in I
    BY <2>3, <2>4, <2>6 DEF Max
  <2>8. i \in 1..Len(s) /\ s[i] = b /\ i # 0
    BY <2>1, <2>2, <2>7
  <2> QED
    BY <2>8 DEF i
<1> QED
  BY <1>2, <1>3

-----------------------------------------------------------------------------
(* Replies *)

LEMMA KnownAnchored ==
  ASSUME VarsOK
  PROVE  known \cup {Genesis} \subseteq Settled /\ Settled \subseteq Anchors
BY DEF VarsOK, Settled, Anchors

(* A reply starts with a block that follows an anchored one. *)
LEMMA ReplyLinked ==
  ASSUME VarsOK, DbOK, NEW q \in Seq(Blocks), NEW s \in Segments, AskedOK(q, s, Anchors),
         NEW ids \in Segments, ids # << >>, ValidReply(ids, q)
  PROVE  /\ ids[1] \in Links \/ ids[1] \in ToSet(s)
         /\ s # << >> => ids[1] \in Anchors \cup ToSet(s)
<1>1. ids[1] \in Blocks
  BY SegmentType
<1>2. CASE q = << >>
  <2>1. Num(ids[1]) = 1 /\ s = << >>
    BY <1>2 DEF ValidReply, AskedOK
  <2>2. Chain(ids[1])[1] = ids[1]
    BY <1>1, <2>1, ChainFacts, ParentAssumption
  <2>3. Parent[ids[1]] = Genesis
    BY <1>1, <2>1, <2>2, ChainLinks
  <2> QED
    BY <1>1, <2>1, <2>3, GenesisAnchored
<1>3. CASE q # << >>
  <2>1. ids[1] \in ToSet(q)
    BY <1>3, InToSet DEF ValidReply, Contains
  <2>2. ids[1] \in Anchors \cup ToSet(s)
    BY <2>1 DEF AskedOK
  <2>3. ids[1] \in Anchors => ids[1] \in Links
    BY <1>1, AnchorParents, GenesisAnchored
  <2> QED
    BY <2>2, <2>3
<1> QED
  BY <1>2, <1>3

(* What a reply makes of the list keeps the list in order, as no handler   *)
(* of a message of this peer waits.                                        *)
LEMMA ExtendedKeeps ==
  ASSUME VarsOK, DbOK, NEW p, NEW c, RecordOK(c), Ordered(c, Anchors, Links, head), ~Handling(c),
         c.asked = None, NEW q \in Seq(Blocks), AskedOK(q, c.toGet, Anchors),
         NEW ids \in Segments, ValidReply(ids, q)
  PROVE  LET d == Extended(p, c, ids)
         IN  /\ DOMAIN d = Fields /\ \A f \in Fields \ {"toGet", "seen"} : d[f] = c[f]
             /\ d.toGet \in Segments /\ d.seen \in Blocks \cup {Genesis}
             /\ Ordered(d, Anchors, Links, head)
<1> DEFINE d == Extended(p, c, ids)
           n == SeenBefore(p, ids)
           i == SelectLastInSeq(c.toGet, LAMBDA b : b = ids[1])
<1>1. /\ DOMAIN c = Fields /\ c.toGet \in Segments /\ c.seen \in Blocks \cup {Genesis}
      /\ c.seen \in Anchors
  BY DEF RecordOK, Ordered
<1>2. \A k \in DOMAIN c.composing : \A t : EntryOK(c.composing[k], t, Anchors, head)
  <2> SUFFICES ASSUME NEW k \in DOMAIN c.composing, NEW t
               PROVE  EntryOK(c.composing[k], t, Anchors, head)
    OBVIOUS
  <2>1. EntryOK(c.composing[k], c.toGet, Anchors, head)
    BY DEF Ordered
  <2>2. ~c.composing[k].here
    BY DEF Handling
  <2>3. c.composing[k].ids = << >> /\ head # Genesis
    BY <2>1, <2>2 DEF EntryOK
  <2>4. ToSet(c.composing[k].ids) = {}
    BY <2>3 DEF ToSet
  <2> QED
    BY <2>1, <2>3, <2>4 DEF EntryOK
<1>3. ASSUME NEW e, DOMAIN e = Fields, \A f \in Fields \ {"toGet", "seen"} : e[f] = c[f],
             e.toGet # << >> => e.toGet[1] \in Links, e.seen \in Anchors
      PROVE  Ordered(e, Anchors, Links, head)
  <2>1. e.composing = c.composing /\ e.asked = None
    BY <1>3 DEF Fields
  <2> QED
    BY <1>2, <1>3, <2>1 DEF Ordered
<1>4. CASE ids = << >>
  <2>1. d = c
    BY <1>4 DEF Extended
  <2> QED
    BY <1>1, <2>1
<1>5. CASE ids # << >> /\ c.toGet = << >>
  <2>1. n \in 0..Len(ids) /\ \A k \in 1..n : ids[k] \in known
    BY <1>5, SeenBeforeFacts
  <2> DEFINE new == SubSeq(ids, n + 1, Len(ids))
             seen == IF n = 0 THEN c.seen ELSE ids[n]
  <2>2. d = [c EXCEPT !.toGet = new, !.seen = seen]
    BY <1>5 DEF Extended
  <2> HIDE DEF n
  <2>3. Len(ids) \in Nat /\ \A k \in 1..(Len(ids) - 1) : Parent[ids[k + 1]] = ids[k]
    BY SegmentType
  <2>a. \A k \in 1..Len(ids) : ids[k] \in Blocks
    BY SegmentType
  <2>b. n + 1 \in Nat \ {0} /\ Len(ids) <= Len(ids)
    BY <2>1, <2>3
  <2>4. /\ new \in Segments /\ Len(new) = (IF n + 1 <= Len(ids) THEN Len(ids) - (n + 1) + 1 ELSE 0)
        /\ \A k \in 1..Len(new) : new[k] = ids[n + 1 + k - 1]
    BY <2>3, <2>b, SegmentPart
  <2>5. seen \in Anchors /\ seen \in Blocks \cup {Genesis}
    BY <1>1, <2>1, <2>a, KnownAnchored
  <2>6. new # << >> => new[1] \in Links
    <3> SUFFICES ASSUME new # << >> PROVE new[1] \in Links
      OBVIOUS
    <3>0. Len(new) # 0 /\ Len(new) \in Nat
      BY <2>4, SegmentType
    <3>1. n + 1 <= Len(ids)
      BY <2>4, <3>0
    <3>2. n + 1 + 1 - 1 = n + 1 /\ 1 \in 1..Len(new) /\ n + 1 \in 1..Len(ids)
      BY <2>1, <2>3, <3>0, <3>1
    <3>3. new[1] = ids[n + 1] /\ ids[n + 1] \in Blocks
      BY <2>4, <2>a, <3>2
    <3>4. CASE n = 0
      <4>1. ids[1] \in Links \/ ids[1] \in ToSet(c.toGet)
        BY <1>1, <1>5, ReplyLinked
      <4>2. ToSet(c.toGet) = {}
        BY <1>5 DEF ToSet
      <4>3. n + 1 = 1
        BY <3>4
      <4> QED
        BY <3>3, <4>1, <4>2, <4>3
    <3>5. CASE n # 0
      <4>1. n \in 1..n /\ n \in 1..(Len(ids) - 1)
        BY <2>1, <2>3, <3>1, <3>5
      <4>2. Parent[ids[n + 1]] = ids[n] /\ ids[n] \in known
        BY <2>1, <2>3, <4>1
      <4> QED
        BY <3>3, <4>2, KnownAnchored, GenesisAnchored
    <3> QED
      BY <3>4, <3>5
  <2> HIDE DEF new, seen
  <2>7. /\ DOMAIN d = Fields /\ d.toGet = new /\ d.seen = seen
        /\ \A f \in Fields \ {"toGet", "seen"} : d[f] = c[f]
    BY <1>1, <2>2 DEF Fields
  <2> HIDE DEF d
  <2>8. Ordered(d, Anchors, Links, head)
    BY <1>3, <2>5, <2>6, <2>7
  <2> QED
    BY <2>4, <2>5, <2>7, <2>8 DEF d
<1>6. CASE ids # << >> /\ c.toGet # << >> /\ i = 0
  <2>1. d = [c EXCEPT !.toGet = Tail(ids), !.seen = ids[1]]
    BY <1>6 DEF Extended
  <2>2. ids[1] \notin ToSet(c.toGet)
    <3>1. c.toGet \in Seq(Blocks)
      BY <1>1, SegmentType
    <3> QED
      BY <1>6, <3>1, LastIndex
  <2> HIDE DEF i
  <2>3. ids[1] \in Anchors
    BY <1>1, <1>6, <2>2, ReplyLinked
  <2>4. Tail(ids) \in Segments /\ (Tail(ids) # << >> => Parent[Tail(ids)[1]] = ids[1])
    BY <1>6, SegmentTail
  <2>5. (Tail(ids) # << >> => Tail(ids)[1] \in Blocks) /\ ids[1] \in Blocks
    BY <1>6, <2>4, SegmentType
  <2>6. Tail(ids) # << >> => Tail(ids)[1] \in Links
    BY <2>3, <2>4, <2>5, GenesisAnchored
  <2>7. /\ DOMAIN d = Fields /\ d.toGet = Tail(ids) /\ d.seen = ids[1]
        /\ \A f \in Fields \ {"toGet", "seen"} : d[f] = c[f]
    BY <1>1, <2>1 DEF Fields
  <2> HIDE DEF d
  <2>8. Ordered(d, Anchors, Links, head)
    BY <1>3, <2>3, <2>6, <2>7
  <2> QED
    BY <2>4, <2>5, <2>7, <2>8 DEF d
<1>7. CASE ids # << >> /\ c.toGet # << >> /\ i # 0
  <2> DEFINE new == SubSeq(c.toGet, 1, i - 1) \o ids
  <2>1. d = [c EXCEPT !.toGet = new]
    BY <1>7 DEF Extended
  <2>2. i \in 1..Len(c.toGet) /\ c.toGet[i] = ids[1]
    <3>1. c.toGet \in Seq(Blocks)
      BY <1>1, SegmentType
    <3> QED
      BY <1>7, <3>1, LastIndex
  <2> HIDE DEF i
  <2>3. new \in Segments /\ new # << >> /\ new[1] = c.toGet[1]
    BY <1>1, <1>7, <2>2, SegmentReplace
  <2> HIDE DEF new
  <2>4. c.toGet[1] \in Links
    BY <1>7 DEF Ordered
  <2>7. /\ DOMAIN d = Fields /\ d.toGet = new /\ d.seen = c.seen
        /\ \A f \in Fields \ {"toGet", "seen"} : d[f] = c[f]
    BY <1>1, <2>1 DEF Fields
  <2> HIDE DEF d
  <2>8. Ordered(d, Anchors, Links, head)
    BY <1>1, <1>3, <2>3, <2>4, <2>7
  <2> QED
    BY <1>1, <2>3, <2>7, <2>8 DEF d
<1> QED
  BY <1>4, <1>5, <1>6, <1>7

(* The synopsis that is sent names anchored blocks and blocks of the list. *)
LEMMA SentKeeps ==
  ASSUME VarsOK, DbOK, NEW c, RecordOK(c), OwedOK(c), Ordered(c, Anchors, Links, head),
         c.composing # << >>, ~ForkTooOld(head, Head(c.composing).ref),
         NEW synopsis, synopsis = FullSynopsis(Head(c.composing).ref, Head(c.composing).ids),
         NEW d, d = Send([c EXCEPT !.composing = Tail(@), !.asked = synopsis],
                         [type |-> "fetch_ids", synopsis |-> synopsis])
  PROVE  /\ RecordOK(d) /\ OwedOK(d) /\ Ordered(d, Anchors, Links, head)
         /\ d.requested = c.requested
<1> DEFINE r == Head(c.composing)
           m == [type |-> "fetch_ids", synopsis |-> synopsis]
<1>1. /\ DOMAIN c = Fields /\ c.composing \in Seq(PieceRequests) /\ c.toGet \in Segments
      /\ c.out \in Seq(Outgoing) /\ head \in Blocks \cup {Genesis}
  BY DEF RecordOK, VarsOK
<1>2. /\ r = c.composing[1] /\ r \in PieceRequests /\ Len(c.composing) \in Nat \ {0}
      /\ DOMAIN c.composing = 1..Len(c.composing)
      /\ Tail(c.composing) \in Seq(PieceRequests) /\ DOMAIN Tail(c.composing) = 1..(Len(c.composing) - 1)
      /\ \A k \in 1..(Len(c.composing) - 1) : Tail(c.composing)[k] = c.composing[k + 1]
  BY <1>1
<1>3. r.ref \in Blocks \cup {Genesis} /\ r.ids \in Segments
  BY <1>2 DEF PieceRequests
<1>4. r.ids \in Seq(Blocks)
  BY <1>3, SegmentType
<1>5. EntryOK(r, c.toGet, Anchors, head)
  BY <1>2 DEF Ordered
<1>a. ~ForkTooOld(head, r.ref) /\ synopsis = FullSynopsis(r.ref, r.ids)
  OBVIOUS
<1> HIDE DEF r
<1>6. /\ synopsis \in Seq(ToSet(Chain(Tip(head, r.ref))) \cup ToSet(r.ids))
      /\ Tip(head, r.ref) # Genesis => synopsis # << >>
      /\ r.ids # << >> => synopsis # << >>
  BY <1>1, <1>3, <1>4, <1>a, FullSynopsisFacts
<1>7. Tip(head, r.ref) \in Anchors /\ Tip(head, r.ref) \in Blocks \cup {Genesis}
  <2>1. head # Genesis => head \in known
    <3> SUFFICES ASSUME head # Genesis PROVE head \in known
      OBVIOUS
    <3>1. /\ Num(head) \in Nat /\ Num(head) # 0 /\ DOMAIN Chain(head) = 1..Num(head)
          /\ Chain(head)[Num(head)] = head
      BY <1>1, ChainFacts
    <3>2. head \in ToSet(Chain(head))
      BY <3>1 DEF ToSet
    <3> QED
      BY <3>2 DEF DbOK
  <2>2. head \in Anchors
    BY <2>1, KnownAnchored
  <2> QED
    BY <1>1, <1>3, <1>5, <2>2 DEF Tip, EntryOK
<1>8. ToSet(Chain(Tip(head, r.ref))) \subseteq Anchors
  BY <1>7, AnchoredChain
<1>9. ToSet(synopsis) \subseteq Anchors \cup ToSet(c.toGet)
  <2>1. ToSet(synopsis) \subseteq ToSet(Chain(Tip(head, r.ref))) \cup ToSet(r.ids)
    BY <1>6, InToSet
  <2> QED
    BY <1>5, <1>8, <2>1 DEF EntryOK
<1>10. synopsis \in Seq(Blocks)
  <2>1. ToSet(Chain(Tip(head, r.ref))) \subseteq Blocks
    BY <1>7, ChainFacts DEF ToSet
  <2>2. ToSet(r.ids) \subseteq Blocks
    BY <1>4, InToSet
  <2> QED
    BY <1>6, <2>1, <2>2
<1>11. synopsis = << >> => c.toGet = << >>
  BY <1>5, <1>6 DEF Tip, EntryOK
<1>12. AskedOK(synopsis, c.toGet, Anchors)
  BY <1>9, <1>11 DEF AskedOK
<1>13. m \in Outgoing /\ ~AsksItems(m)
  BY <1>10 DEF Outgoing, AsksItems
<1>14. /\ DOMAIN d = Fields /\ d.composing = Tail(c.composing) /\ d.asked = synopsis
       /\ d.out = Append(c.out, m)
       /\ \A f \in Fields \ {"composing", "asked", "out"} : d[f] = c[f]
  BY <1>1 DEF Send, Fields
<1>15. /\ d.up = c.up /\ d.unfetched = c.unfetched /\ d.toGet = c.toGet /\ d.processing = c.processing
       /\ d.weNeed = c.weNeed /\ d.peerNeeds = c.peerNeeds /\ d.seen = c.seen
       /\ d.requested = c.requested /\ d.wanted = c.wanted /\ d.theirs = c.theirs /\ d.ours = c.ours
       /\ d.serves = c.serves /\ d.in = c.in
  BY <1>14 DEF Fields
<1> HIDE DEF m
<1>16. OwedOK(d)
  BY <1>13, <1>14, <1>15, OwedSend
<1>17. c.up
  BY ClosedOK DEF RecordOK
<1>18. d.out \in Seq(Outgoing)
  <2>1. \A s \in Seq(Outgoing) : \A x \in Outgoing : Append(s, x) \in Seq(Outgoing)
    OBVIOUS
  <2> QED
    BY <1>1, <1>13, <1>14, <2>1
<1>b. d.composing \in Seq(PieceRequests) /\ d.asked \in Seq(Blocks) /\ DOMAIN d = Fields
  BY <1>2, <1>10, <1>14
<1>19. RecordOK(d)
  BY <1>15, <1>17, <1>18, <1>b DEF RecordOK
<1>20. \A k \in DOMAIN d.composing : EntryOK(d.composing[k], d.toGet, Anchors, head)
  <2>a. DOMAIN d.composing = 1..(Len(c.composing) - 1) /\ d.composing = Tail(c.composing)
    BY <1>2, <1>14
  <2>b. \A k \in 1..(Len(c.composing) - 1) : k + 1 \in 1..Len(c.composing)
    BY <1>2
  <2>1. \A k \in DOMAIN d.composing : k + 1 \in DOMAIN c.composing /\ d.composing[k] = c.composing[k + 1]
    BY <1>2, <2>a, <2>b
  <2>2. \A k \in DOMAIN c.composing : EntryOK(c.composing[k], c.toGet, Anchors, head)
    BY DEF Ordered
  <2>3. d.toGet = c.toGet
    BY <1>15
  <2> QED
    BY <2>1, <2>2, <2>3
<1>21. Ordered(d, Anchors, Links, head)
  BY <1>12, <1>14, <1>15, <1>20 DEF Ordered
<1> QED
  BY <1>15, <1>16, <1>19, <1>21

-----------------------------------------------------------------------------
(* The records after a step *)

LEMMA NewRecords ==
  ASSUME NEW cn, conn' = [q \in Peers |-> cn[q]],
         \A q \in Peers : RecordOK(cn[q]) /\ OwedOK(cn[q]) /\ Ordered(cn[q], Anchors', Links', head'),
         active' = UNION {cn[q].requested : q \in Peers},
         \A p, q \in Peers : p # q => cn[p].requested \cap cn[q].requested = {}
  PROVE  PeersOK'
<1>1. \A q \in Peers : conn'[q] = cn[q]
  OBVIOUS
<1>2. DOMAIN conn' = Peers /\ conn' = [p \in Peers |-> conn'[p]]
  OBVIOUS
<1>3. active' = UNION {conn'[q].requested : q \in Peers}
  BY <1>1
<1>4. \A q \in Peers : RecordOK(conn'[q]) /\ OwedOK(conn'[q]) /\ Ordered(conn'[q], Anchors', Links', head')
  BY <1>1
<1>5. \A p, q \in Peers : p # q => conn'[p].requested \cap conn'[q].requested = {}
  BY <1>1
<1> QED
  BY <1>2, <1>3, <1>4, <1>5 DEF PeersOK

LEMMA SameDb ==
  ASSUME UNCHANGED <<head, known, handling, recent>>
  PROVE  Anchors' = Anchors /\ Links' = Links /\ head' = head /\ (DbOK => DbOK')
<1>1. Settled' = Settled
  BY DEF Settled, Lost, Included, CommonNum, NonUndoable, Chain
<1>2. Anchors' = Anchors
  BY <1>1 DEF Anchors
<1>3. Links' = Links
  BY <1>2 DEF Links
<1>4. DbOK => DbOK'
  BY <1>1 DEF DbOK, InOrder, Chain
<1> QED
  BY <1>2, <1>3, <1>4

LEMMA OneRecord ==
  ASSUME PeersOK, NEW p \in Peers, NEW d, conn' = [conn EXCEPT ![p] = d],
         RecordOK(d), OwedOK(d), Ordered(d, Anchors, Links, head),
         d.requested = conn[p].requested, active' = active,
         UNCHANGED <<head, known, handling, recent>>
  PROVE  PeersOK'
<1> DEFINE cn == [q \in Peers |-> IF q = p THEN d ELSE conn[q]]
<1>1. conn' = [q \in Peers |-> cn[q]]
  BY DEF PeersOK
<1>2. /\ Anchors' = Anchors /\ Links' = Links /\ head' = head
  BY SameDb
<1>3. \A q \in Peers : cn[q].requested = conn[q].requested
  OBVIOUS
<1>4. \A q \in Peers : RecordOK(cn[q]) /\ OwedOK(cn[q]) /\ Ordered(cn[q], Anchors', Links', head')
  <2> SUFFICES ASSUME NEW q \in Peers
               PROVE  RecordOK(cn[q]) /\ OwedOK(cn[q]) /\ Ordered(cn[q], Anchors, Links, head)
    BY <1>2
  <2>1. CASE q = p
    BY <2>1
  <2>2. CASE q # p
    BY <2>2 DEF PeersOK
  <2> QED
    BY <2>1, <2>2
<1> HIDE DEF cn
<1>5. active' = UNION {cn[q].requested : q \in Peers}
  BY <1>3 DEF PeersOK
<1>6. \A x, y \in Peers : x # y => cn[x].requested \cap cn[y].requested = {}
  BY <1>3 DEF PeersOK
<1> QED
  BY <1>1, <1>4, <1>5, <1>6, NewRecords

(* Connections are closed: what the peers owed is no longer asked for. *)
LEMMA Leaving ==
  ASSUME NEW cn, NEW gone \in SUBSET Peers, NEW act, NEW items \in Seq(Blocks),
         conn' = [p \in Peers |-> IF p \in gone THEN Closed ELSE cn[p]],
         active' = act \ UNION {cn[p].requested : p \in gone},
         toFetch' = items \o SetToSeq({b \in UNION {cn[p].wanted : p \in gone} :
                                          \E q \in Peers \ gone : b \in cn[q].theirs}),
         \A q \in Peers : RecordOK(cn[q]) /\ OwedOK(cn[q]) /\ Ordered(cn[q], Anchors', Links', head'),
         act = UNION {cn[q].requested : q \in Peers},
         \A p, q \in Peers : p # q => cn[p].requested \cap cn[q].requested = {}
  PROVE  PeersOK' /\ toFetch' \in Seq(Blocks) /\ active' \subseteq Blocks
<1> DEFINE dn == [p \in Peers |-> IF p \in gone THEN Closed ELSE cn[p]]
<1>1. conn' = [q \in Peers |-> dn[q]]
  OBVIOUS
<1>2. Genesis \in Anchors'
  BY DEF Anchors, Settled
<1>3. \A q \in Peers : RecordOK(dn[q]) /\ OwedOK(dn[q]) /\ Ordered(dn[q], Anchors', Links', head')
  <2> SUFFICES ASSUME NEW q \in Peers
               PROVE  RecordOK(dn[q]) /\ OwedOK(dn[q]) /\ Ordered(dn[q], Anchors', Links', head')
    OBVIOUS
  <2>1. CASE q \in gone
    <3>1. dn[q] = Closed
      BY <2>1
    <3> QED
      BY <1>2, <3>1, ClosedRecord
  <2>2. CASE q \notin gone
    BY <2>2
  <2> QED
    BY <2>1, <2>2
<1>4. \A q \in Peers : dn[q].requested = IF q \in gone THEN {} ELSE cn[q].requested
  BY ClosedOK
<1> HIDE DEF dn
<1>5. active' = UNION {dn[q].requested : q \in Peers}
  <2>1. \A x : x \in active' <=> /\ \E q \in Peers : x \in cn[q].requested
                                /\ ~\E q \in gone : x \in cn[q].requested
    OBVIOUS
  <2>2. \A x : x \in UNION {dn[q].requested : q \in Peers} <=> \E q \in Peers : q \notin gone /\ x \in cn[q].requested
    BY <1>4
  <2>3. ASSUME NEW x, NEW q \in Peers, x \in cn[q].requested
        PROVE  (\E p \in gone : x \in cn[p].requested) <=> q \in gone
    BY <2>3
  <2>4. ASSUME NEW x
        PROVE  x \in active' <=> x \in UNION {dn[q].requested : q \in Peers}
    <3>1. ASSUME x \in active'
          PROVE  x \in UNION {dn[q].requested : q \in Peers}
      BY <2>1, <2>2, <3>1
    <3>2. ASSUME x \in UNION {dn[q].requested : q \in Peers}
          PROVE  x \in active'
      <4>1. PICK q \in Peers : q \notin gone /\ x \in cn[q].requested
        BY <2>2, <3>2
      <4> QED
        BY <2>1, <2>3, <4>1
    <3> QED
      BY <3>1, <3>2
  <2> QED
    BY <2>4
<1>6. \A x, y \in Peers : x # y => dn[x].requested \cap dn[y].requested = {}
  BY <1>4
<1>7. PeersOK'
  BY <1>1, <1>3, <1>5, <1>6, NewRecords
<1>8. toFetch' \in Seq(Blocks)
  <2>1. \A p \in gone : cn[p].wanted \subseteq Blocks /\ IsFiniteSet(cn[p].wanted)
    BY DEF RecordOK
  <2> QED
    BY <2>1, LeftToFetch
<1>9. active' \subseteq Blocks
  BY DEF RecordOK
<1> QED
  BY <1>7, <1>8, <1>9

LEMMA OfPeer ==
  ASSUME PeersOK, NEW p \in Peers
  PROVE  RecordOK(conn[p]) /\ OwedOK(conn[p]) /\ Ordered(conn[p], Anchors, Links, head)
BY DEF PeersOK

LEMMA Closing ==
  ASSUME Inv, NEW gone \in SUBSET Peers, Leave(conn, gone, active, toFetch, fetchDue, itemsDue),
         UNCHANGED <<head, known, handling, recent>>
  PROVE  /\ PeersOK' /\ DbOK' /\ toFetch' \in Seq(Blocks) /\ active' \subseteq Blocks
         /\ fetchDue' \in BOOLEAN /\ itemsDue' \in BOOLEAN
<1>1. /\ Anchors' = Anchors /\ Links' = Links /\ head' = head /\ DbOK'
  BY SameDb DEF Inv
<1>2. /\ toFetch \in Seq(Blocks) /\ active = UNION {conn[q].requested : q \in Peers}
      /\ \A p, q \in Peers : p # q => conn[p].requested \cap conn[q].requested = {}
      /\ \A q \in Peers : RecordOK(conn[q]) /\ OwedOK(conn[q]) /\ Ordered(conn[q], Anchors, Links, head)
  BY DEF Inv, VarsOK, PeersOK
<1>3. PeersOK' /\ toFetch' \in Seq(Blocks) /\ active' \subseteq Blocks
  <2>1. /\ conn' = [p \in Peers |-> IF p \in gone THEN Closed ELSE conn[p]]
        /\ active' = active \ UNION {conn[p].requested : p \in gone}
        /\ toFetch' = toFetch \o SetToSeq({b \in UNION {conn[p].wanted : p \in gone} :
                                              \E q \in Peers \ gone : b \in conn[q].theirs})
    BY DEF Leave
  <2>2. \A q \in Peers : RecordOK(conn[q]) /\ OwedOK(conn[q]) /\ Ordered(conn[q], Anchors', Links', head')
    BY <1>1, <1>2
  <2> QED
    BY <1>2, <2>1, <2>2, Leaving
<1>4. fetchDue' \in BOOLEAN
  BY DEF Leave
<1>5. itemsDue' \in BOOLEAN
  BY DEF Leave
<1> QED
  BY <1>1, <1>3, <1>4, <1>5

-----------------------------------------------------------------------------
(* The invariant holds at first, and every action keeps it *)

LEMMA InitInv ==
  ASSUME Init
  PROVE  Inv
<1>1. Start \in Blocks \cup {Genesis}
  BY NetworkAssumption
<1>2. /\ Num(Start) \in Nat /\ DOMAIN Chain(Start) = 1..Num(Start)
      /\ \A k \in 1..Num(Start) : Chain(Start)[k] \in Blocks
      /\ Start # Genesis => Chain(Start)[Num(Start)] = Start /\ Num(Start) # 0
  BY <1>1, ChainFacts
<1>3. /\ head = Start /\ known = ToSet(Chain(Start)) /\ recent = {Start} /\ handling = << >>
      /\ conn = [p \in Peers |-> Closed] /\ active = {}
  BY DEF Init
<1>4. known \subseteq Blocks
  BY <1>2, <1>3 DEF ToSet
<1>5. VarsOK
  <2>1. peerHead \in [Peers -> Blocks \cup {Genesis}] /\ drops \in Nat
    BY NetworkAssumption DEF Init
  <2>2. handling \in Seq(Blocks) /\ toFetch \in Seq(Blocks)
    BY <1>3 DEF Init
  <2>3. fetchDue \in BOOLEAN /\ itemsDue \in BOOLEAN /\ backlogDue \in BOOLEAN
    BY DEF Init
  <2>4. active \subseteq Blocks /\ received \subseteq Blocks /\ turn = "none"
    BY DEF Init
  <2> QED
    BY <1>1, <1>3, <1>4, <2>1, <2>2, <2>3, <2>4 DEF VarsOK
<1>6. known \cup {Genesis} \subseteq Settled /\ Genesis \in Anchors
  BY <1>5, KnownAnchored DEF Anchors
<1>7. DbOK
  <2>1. \A b \in known : Parent[b] \in Settled
    <3> SUFFICES ASSUME NEW b \in known PROVE Parent[b] \in Settled
      OBVIOUS
    <3>1. PICK k \in 1..Num(Start) : b = Chain(Start)[k]
      BY <1>2, <1>3 DEF ToSet
    <3>2. Parent[b] = IF k = 1 THEN Genesis ELSE Chain(Start)[k - 1]
      BY <1>1, <3>1, ChainLinks
    <3>3. k # 1 => k - 1 \in DOMAIN Chain(Start)
      BY <1>2
    <3>4. k # 1 => Chain(Start)[k - 1] \in known
      BY <1>3, <3>3 DEF ToSet
    <3> QED
      BY <1>6, <3>2, <3>4
  <2>2. Start \in known \cup {Genesis}
    <3>1. Start # Genesis => Num(Start) \in DOMAIN Chain(Start)
      BY <1>2
    <3> QED
      BY <1>2, <1>3, <3>1 DEF ToSet
  <2>3. InOrder
    BY <1>3 DEF InOrder
  <2> QED
    BY <1>3, <1>6, <2>1, <2>2, <2>3 DEF DbOK
<1>8. PeersOK
  <2>1. \A p \in Peers : conn[p] = Closed
    BY <1>3
  <2>2. \A p \in Peers : conn[p].requested = {}
    BY <2>1, ClosedOK
  <2>3. \A p \in Peers : RecordOK(conn[p]) /\ OwedOK(conn[p]) /\ Ordered(conn[p], Anchors, Links, head)
    BY <1>6, <2>1, ClosedRecord
  <2>4. DOMAIN conn = Peers /\ conn = [p \in Peers |-> conn[p]]
    BY <1>3
  <2>5. active = UNION {conn[p].requested : p \in Peers}
    BY <1>3, <2>2
  <2> QED
    BY <2>2, <2>3, <2>4, <2>5 DEF PeersOK
<1> QED
  BY <1>5, <1>7, <1>8 DEF Inv

LEMMA CloseInv ==
  ASSUME Inv, NEW p \in Peers, Close(p), drops' \in Nat
  PROVE  Inv'
<1>1. {p} \in SUBSET Peers
  OBVIOUS
<1>2. Leave(conn, {p}, active, toFetch, fetchDue, itemsDue) /\ UNCHANGED <<head, known, handling, recent>>
  BY DEF Close, dbVars, pushVars
<1>3. /\ PeersOK' /\ DbOK' /\ toFetch' \in Seq(Blocks) /\ active' \subseteq Blocks
      /\ fetchDue' \in BOOLEAN /\ itemsDue' \in BOOLEAN
  BY <1>1, <1>2, Closing
<1>4. VarsOK'
  BY <1>3 DEF Inv, VarsOK, Close, dbVars, pushVars
<1> QED
  BY <1>3, <1>4 DEF Inv

LEMMA DropInv ==
  ASSUME Inv, NEW p \in Peers, Drop(p) \/ TerminateStalled(p)
  PROVE  Inv'
<1>1. drops \in Nat
  BY DEF Inv, VarsOK
<1>2. Close(p) /\ ((drops > 0 /\ drops' = drops - 1) \/ drops' = drops)
  BY DEF Drop, TerminateStalled
<1>3. drops' \in Nat
  BY <1>1, <1>2
<1> QED
  BY <1>2, <1>3, CloseInv

LEMMA AskFacts ==
  ASSUME NEW h \in Blocks \cup {Genesis}
  PROVE  Ask(h) \in Incoming /\ ~IsBlock(Ask(h))
<1>1. Tip(h, Genesis) = h
  BY DEF Tip
<1>2. ToSet(Chain(h)) \subseteq Blocks
  BY ChainFacts DEF ToSet
<1>3. Synopsis(h, Genesis, 0) \in Seq(ToSet(Chain(h)))
  BY <1>1, SynopsisFacts
<1>4. Synopsis(h, Genesis, 0) \in Seq(Blocks)
  BY <1>2, <1>3
<1> QED
  BY <1>4 DEF Ask, Incoming, IsBlock

LEMMA ConnectInv ==
  ASSUME Inv, NEW p \in Peers, Connect(p)
  PROVE  Inv'
<1> DEFINE ask == Ask(peerHead[p])
           none == << >>
           c == [Closed EXCEPT !.up = TRUE, !.serves = TRUE, !.peerNeeds = TRUE, !.in = <<ask>>]
           d == StartSync(c, TRUE)
<1>1. /\ conn' = [conn EXCEPT ![p] = d] /\ active' = active
      /\ UNCHANGED <<head, known, handling, recent>> /\ conn[p].up = FALSE
  <2>1. conn[p].up \in BOOLEAN
    BY OfPeer DEF Inv, RecordOK
  <2> QED
    BY <2>1 DEF Connect, Update, dbVars, pushVars
<1>2. ask \in Incoming /\ ~IsBlock(ask)
  <2>1. peerHead[p] \in Blocks \cup {Genesis}
    BY DEF Inv, VarsOK
  <2> QED
    BY <2>1, AskFacts
<1> HIDE DEF ask
<1>3. DOMAIN c = Fields /\ c.up = TRUE /\ c.serves = TRUE /\ c.peerNeeds = TRUE /\ c.in = <<ask>>
  BY DEF Closed, Fields
<1>4. \A f \in Fields \ {"up", "serves", "peerNeeds", "in"} : c[f] = Closed[f]
  BY DEF Closed, Fields
<1>5. /\ c.toGet = none /\ c.processing = {} /\ c.unfetched = 0
      /\ c.weNeed = FALSE /\ c.seen = Genesis /\ c.asked = None
      /\ c.requested = {} /\ c.wanted = {} /\ c.theirs = {} /\ c.ours = {}
      /\ c.out = none /\ c.composing = none
  BY <1>4, ClosedOK DEF Fields
<1> HIDE DEF c
<1>6. RecordOK(c)
  <2>1. none \in Seq(PieceRequests) /\ none \in Seq(Outgoing) /\ <<ask>> \in Seq(Incoming)
    BY <1>2
  <2>2. none \in Segments /\ IsFiniteSet({})
    BY SegmentEmpty, FS_EmptySet
  <2> HIDE DEF none
  <2>3. c.in \in Seq(Incoming)
    BY <1>3, <2>1
  <2>4. c.up \in BOOLEAN /\ c.weNeed \in BOOLEAN /\ c.peerNeeds \in BOOLEAN /\ c.serves \in BOOLEAN /\ c.up
    BY <1>3, <1>5
  <2>5. /\ c.toGet \in Segments /\ c.composing \in Seq(PieceRequests) /\ c.out \in Seq(Outgoing)
        /\ c.wanted \subseteq Blocks /\ IsFiniteSet(c.wanted) /\ c.asked = None
    BY <1>5, <2>1, <2>2
  <2>6. /\ c.processing \subseteq Blocks /\ c.unfetched \in Nat /\ c.seen \in Blocks \cup {Genesis}
        /\ c.requested \subseteq Blocks /\ c.theirs \subseteq Blocks /\ c.ours \subseteq Blocks
    BY <1>5
  <2> QED
    BY <1>3, <2>3, <2>4, <2>5, <2>6 DEF RecordOK
<1>7. OwedOK(c)
  <2>1. \A i \in DOMAIN c.in : c.in[i] = ask
    BY <1>3
  <2>2. DOMAIN c.out = {}
    BY <1>5
  <2> QED
    BY <1>2, <2>1, <2>2 DEF OwedOK
<1>8. Ordered(c, Anchors, Links, head)
  BY <1>5, GenesisAnchored DEF Ordered
<1>9. ~Handling(c) /\ c.toGet = << >> /\ c.up
  BY <1>3, <1>5 DEF Handling
<1>10. RecordOK(d) /\ OwedOK(d) /\ Ordered(d, Anchors, Links, head) /\ d.requested = {}
  <2>1. TRUE \in BOOLEAN
    OBVIOUS
  <2> QED
    BY <1>5, <1>6, <1>7, <1>8, <1>9, <2>1, StartSyncKeeps, GenesisAnchored
<1> HIDE DEF d
<1>11. conn[p].requested = {}
  <2>1. conn[p] = Closed
    BY <1>1, OfPeer DEF Inv, RecordOK
  <2> QED
    BY <2>1, ClosedOK
<1>12. PeersOK' /\ DbOK'
  BY <1>1, <1>10, <1>11, OneRecord, SameDb DEF Inv
<1>13. VarsOK'
  BY DEF Inv, VarsOK, Connect, dbVars, pushVars, others
<1> QED
  BY <1>12, <1>13 DEF Inv

LEMMA SendRequestInv ==
  ASSUME Inv, NEW p \in Peers, SendRequest(p)
  PROVE  Inv'
<1> DEFINE c == conn[p]
           req == Head(c.composing)
           synopsis == FullSynopsis(req.ref, req.ids)
           d == Send([c EXCEPT !.composing = Tail(@), !.asked = synopsis],
                     [type |-> "fetch_ids", synopsis |-> synopsis])
<1>1. RecordOK(c) /\ OwedOK(c) /\ Ordered(c, Anchors, Links, head) /\ VarsOK /\ DbOK /\ PeersOK
  BY OfPeer DEF Inv
<1>2. /\ UNCHANGED <<head, known, handling, recent, peerHead, drops, received, backlogDue, turn>>
      /\ c.composing # << >>
  BY DEF SendRequest, dbVars, pushVars, others
<1>3. CASE ForkTooOld(head, req.ref)
  <2>1. Leave(conn, {p}, active, toFetch, fetchDue, itemsDue) /\ {p} \in SUBSET Peers
    BY <1>3 DEF SendRequest
  <2>2. /\ PeersOK' /\ DbOK' /\ toFetch' \in Seq(Blocks) /\ active' \subseteq Blocks
        /\ fetchDue' \in BOOLEAN /\ itemsDue' \in BOOLEAN
    BY <1>2, <2>1, Closing
  <2>3. VarsOK'
    BY <1>1, <1>2, <2>2 DEF VarsOK
  <2> QED
    BY <2>2, <2>3 DEF Inv
<1>4. CASE ~ForkTooOld(head, req.ref)
  <2>1. conn' = [conn EXCEPT ![p] = d] /\ UNCHANGED <<active, toFetch, fetchDue, itemsDue>>
    BY <1>4 DEF SendRequest, Update
  <2>2. RecordOK(d) /\ OwedOK(d) /\ Ordered(d, Anchors, Links, head) /\ d.requested = c.requested
    BY <1>1, <1>2, <1>4, SentKeeps
  <2> HIDE DEF d
  <2>3. PeersOK' /\ DbOK'
    BY <1>1, <1>2, <2>1, <2>2, OneRecord, SameDb
  <2>4. VarsOK'
    BY <1>1, <1>2, <2>1 DEF VarsOK
  <2> QED
    BY <2>3, <2>4 DEF Inv
<1> QED
  BY <1>3, <1>4

(* Something other than a block is on its way from the peer. *)
LEMMA WriteKeeps ==
  ASSUME NEW c, RecordOK(c), c.up, NEW m \in Incoming, ~IsBlock(m),
         NEW d, d = [c EXCEPT !.in = Append(@, m)]
  PROVE  /\ RecordOK(d) /\ d.requested = c.requested
         /\ OwedOK(c) => OwedOK(d)
         /\ \A A, L, h : Ordered(c, A, L, h) => Ordered(d, A, L, h)
<1>1. DOMAIN c = Fields /\ c.in \in Seq(Incoming)
  BY DEF RecordOK
<1>2. /\ DOMAIN d = Fields /\ d.in = Append(c.in, m) /\ \A f \in Fields \ {"in"} : d[f] = c[f]
  BY <1>1 DEF Fields
<1>3. /\ d.up = c.up /\ d.toGet = c.toGet /\ d.processing = c.processing /\ d.unfetched = c.unfetched
      /\ d.weNeed = c.weNeed /\ d.peerNeeds = c.peerNeeds /\ d.seen = c.seen /\ d.asked = c.asked
      /\ d.requested = c.requested /\ d.wanted = c.wanted /\ d.theirs = c.theirs /\ d.ours = c.ours
      /\ d.serves = c.serves /\ d.out = c.out /\ d.composing = c.composing
  BY <1>2 DEF Fields
<1>4. d.in \in Seq(Incoming)
  BY <1>1, <1>2
<1>5. RecordOK(d)
  BY <1>2, <1>3, <1>4 DEF RecordOK
<1>6. OwedOK(c) => OwedOK(d)
  BY <1>2, <1>3, OwedWrite
<1>7. \A A, L, h : Ordered(c, A, L, h) => Ordered(d, A, L, h)
  BY <1>3, OrderedSame
<1> QED
  BY <1>3, <1>5, <1>6, <1>7

LEMMA PeerChainsInv ==
  ASSUME Inv, NEW p \in Peers,
         (\E b \in Blocks : PeerGrows(p, b) \/ PeerSwitches(p, b)) \/ PeerFollows(p)
  PROVE  Inv'
<1> DEFINE c == conn[p]
<1>0. RecordOK(c) /\ OwedOK(c) /\ Ordered(c, Anchors, Links, head) /\ VarsOK /\ DbOK /\ PeersOK
  BY OfPeer DEF Inv
<1>1. /\ UNCHANGED <<head, known, handling, recent, drops, received, backlogDue, turn,
                     active, toFetch, fetchDue, itemsDue>>
  BY DEF PeerGrows, PeerSwitches, PeerFollows, dbVars, pushVars, others
<1>2. /\ peerHead \in [Peers -> Blocks \cup {Genesis}] /\ peerHead[p] \in Blocks \cup {Genesis}
      /\ head \in Blocks \cup {Genesis}
  BY <1>0 DEF VarsOK
<1>3. \E h \in Blocks \cup {Genesis} : \E m \in Incoming :
         /\ peerHead' = [peerHead EXCEPT ![p] = h] /\ ~IsBlock(m)
         /\ \/ conn' = [conn EXCEPT ![p] = conn[p]]
            \/ conn[p].up /\ conn' = [conn EXCEPT ![p] = [conn[p] EXCEPT !.in = Append(@, m)]]
  <2>1. ASSUME NEW b \in Blocks, PeerGrows(p, b)
        PROVE  <1>3!:
    <3> DEFINE m == [type |-> "inventory", block |-> b]
    <3>1. m \in Incoming /\ ~IsBlock(m)
      BY DEF Incoming, IsBlock
    <3>2. /\ peerHead' = [peerHead EXCEPT ![p] = b]
          /\ \/ conn' = [conn EXCEPT ![p] = conn[p]]
             \/ conn[p].up /\ conn' = [conn EXCEPT ![p] = [conn[p] EXCEPT !.in = Append(@, m)]]
      BY <2>1 DEF PeerGrows, Update
    <3> HIDE DEF m
    <3> QED
      BY <3>1, <3>2
  <2>2. ASSUME NEW b \in Blocks, PeerSwitches(p, b)
        PROVE  <1>3!:
    <3>1. Ask(b) \in Incoming /\ ~IsBlock(Ask(b))
      BY AskFacts
    <3>2. /\ peerHead' = [peerHead EXCEPT ![p] = b]
          /\ \/ conn' = [conn EXCEPT ![p] = conn[p]]
             \/ conn[p].up /\ conn' = [conn EXCEPT ![p] = [conn[p] EXCEPT !.in = Append(@, Ask(b))]]
      BY <2>2 DEF PeerSwitches, Update
    <3> QED
      BY <3>1, <3>2
  <2>3. ASSUME PeerFollows(p)
        PROVE  <1>3!:
    <3> DEFINE h == IF Num(head) > Num(peerHead[p]) THEN head ELSE peerHead[p]
    <3>1. /\ peerHead' = [peerHead EXCEPT ![p] = h] /\ conn[p].up
          /\ conn' = [conn EXCEPT ![p] = [conn[p] EXCEPT !.in = Append(@, Ask(h))]]
      BY <2>3 DEF PeerFollows, Update
    <3>2. h \in Blocks \cup {Genesis}
      BY <1>2
    <3> HIDE DEF h
    <3>3. Ask(h) \in Incoming /\ ~IsBlock(Ask(h))
      BY <3>2, AskFacts
    <3> QED
      BY <3>1, <3>2, <3>3
  <2> QED
    BY <2>1, <2>2, <2>3
<1>4. PICK h \in Blocks \cup {Genesis}, m \in Incoming :
         /\ peerHead' = [peerHead EXCEPT ![p] = h] /\ ~IsBlock(m)
         /\ \/ conn' = [conn EXCEPT ![p] = conn[p]]
            \/ conn[p].up /\ conn' = [conn EXCEPT ![p] = [conn[p] EXCEPT !.in = Append(@, m)]]
  BY <1>3
<1>5. peerHead' \in [Peers -> Blocks \cup {Genesis}]
  BY <1>2, <1>4
<1>6. VarsOK'
  BY <1>0, <1>1, <1>5 DEF VarsOK
<1>7. DbOK'
  BY <1>0, <1>1, SameDb
<1>8. CASE conn' = [conn EXCEPT ![p] = conn[p]]
  <2>1. PeersOK'
    BY <1>0, <1>1, <1>8, OneRecord
  <2> QED
    BY <1>6, <1>7, <2>1 DEF Inv
<1>9. CASE conn[p].up /\ conn' = [conn EXCEPT ![p] = [conn[p] EXCEPT !.in = Append(@, m)]]
  <2> DEFINE d == [conn[p] EXCEPT !.in = Append(@, m)]
  <2>1. RecordOK(d) /\ OwedOK(d) /\ Ordered(d, Anchors, Links, head) /\ d.requested = conn[p].requested
    BY <1>0, <1>4, <1>9, WriteKeeps
  <2>2. conn' = [conn EXCEPT ![p] = d]
    BY <1>9
  <2> HIDE DEF d
  <2>3. PeersOK'
    BY <1>0, <1>1, <2>1, <2>2, OneRecord
  <2> QED
    BY <1>6, <1>7, <2>3 DEF Inv
<1> QED
  BY <1>4, <1>8, <1>9

LEMMA NeedsItemsType ==
  \A ids, synopsis : NeedsItems(ids, synopsis) \in BOOLEAN
BY Zenon DEF NeedsItems

LEMMA PeerAnswersInv ==
  ASSUME Inv, NEW p \in Peers, PeerAnswers(p)
  PROVE  Inv'
<1> DEFINE c == conn[p]
           m == Head(c.out)
           rest == [c EXCEPT !.out = Tail(@)]
           ids == BlockIds(peerHead[p], m.synopsis)
           remaining == Remaining(peerHead[p], ids)
           needs == NeedsItems(ids, m.synopsis)
           reply == [type |-> "ids", ids |-> ids, remaining |-> remaining]
           answer == [rest EXCEPT !.serves = needs, !.in = Append(@, reply)]
           bs == [i \in DOMAIN m.items |-> [type |-> "block", block |-> m.items[i]]]
           blocks == [rest EXCEPT !.in = @ \o bs]
<1>0. RecordOK(c) /\ OwedOK(c) /\ Ordered(c, Anchors, Links, head) /\ VarsOK /\ DbOK /\ PeersOK
  BY OfPeer DEF Inv
<1>1. /\ UNCHANGED <<head, known, handling, recent, peerHead, drops, received, backlogDue, turn>>
      /\ c.out # << >> /\ c.up
  BY DEF PeerAnswers, dbVars, pushVars, others
<1>2. /\ DOMAIN c = Fields /\ c.out \in Seq(Outgoing) /\ c.in \in Seq(Incoming)
  BY <1>0 DEF RecordOK
<1>3. m \in Outgoing /\ Tail(c.out) \in Seq(Outgoing)
  BY <1>1, <1>2
<1>4. \/ /\ m.type = "fetch_ids" /\ conn' = [conn EXCEPT ![p] = answer]
         /\ UNCHANGED <<active, toFetch, fetchDue, itemsDue>>
      \/ /\ m.type = "fetch_items" /\ conn' = [conn EXCEPT ![p] = blocks]
         /\ UNCHANGED <<active, toFetch, fetchDue, itemsDue>>
      \/ Leave(conn, {p}, active, toFetch, fetchDue, itemsDue)
  BY DEF PeerAnswers, Update
<1>5. ASSUME NEW d, conn' = [conn EXCEPT ![p] = d], UNCHANGED <<active, toFetch, fetchDue, itemsDue>>,
             RecordOK(d), OwedOK(d), Ordered(d, Anchors, Links, head), d.requested = c.requested
      PROVE  Inv'
  <2>1. PeersOK' /\ DbOK'
    BY <1>0, <1>1, <1>5, OneRecord, SameDb
  <2>2. VarsOK'
    BY <1>0, <1>1, <1>5 DEF VarsOK
  <2> QED
    BY <2>1, <2>2 DEF Inv
<1>6. CASE /\ m.type = "fetch_ids" /\ conn' = [conn EXCEPT ![p] = answer]
           /\ UNCHANGED <<active, toFetch, fetchDue, itemsDue>>
  <2>1. m.synopsis \in Seq(Blocks) /\ peerHead[p] \in Blocks \cup {Genesis}
    BY <1>0, <1>3, <1>6 DEF Outgoing, VarsOK
  <2>2. ids \in Segments /\ remaining \in Nat
    BY <2>1, BlockIdsFacts
  <2>3. needs \in BOOLEAN
    BY NeedsItemsType
  <2> HIDE DEF ids, remaining, needs
  <2>4. reply \in Incoming /\ ~IsBlock(reply)
    BY <2>2 DEF Incoming, IsBlock
  <2> HIDE DEF reply
  <2>5. /\ DOMAIN answer = Fields /\ answer.out = Tail(c.out) /\ answer.in = Append(c.in, reply)
        /\ answer.serves = needs
        /\ \A f \in Fields \ {"out", "in", "serves"} : answer[f] = c[f]
    BY <1>2 DEF Fields
  <2> DEFINE d == answer
  <2> HIDE DEF d
  <2>6. /\ d.up = c.up /\ d.toGet = c.toGet /\ d.processing = c.processing /\ d.unfetched = c.unfetched
        /\ d.weNeed = c.weNeed /\ d.peerNeeds = c.peerNeeds /\ d.seen = c.seen /\ d.asked = c.asked
        /\ d.requested = c.requested /\ d.wanted = c.wanted /\ d.theirs = c.theirs /\ d.ours = c.ours
        /\ d.composing = c.composing /\ DOMAIN d = Fields /\ d.out = Tail(c.out)
        /\ d.in = Append(c.in, reply) /\ d.serves = needs
    BY <2>5 DEF Fields, d
  <2>7. d.in \in Seq(Incoming) /\ d.out \in Seq(Outgoing)
    <3>1. \A s \in Seq(Incoming) : \A x \in Incoming : Append(s, x) \in Seq(Incoming)
      OBVIOUS
    <3> QED
      BY <1>2, <1>3, <2>4, <2>6, <3>1
  <2>8. d.serves \in BOOLEAN
    BY <2>3, <2>6, Zenon
  <2>9. RecordOK(d)
    BY <1>0, <1>1, <2>6, <2>7, <2>8 DEF RecordOK
  <2>10. OwedOK(d) /\ Ordered(d, Anchors, Links, head)
    BY <1>0, <1>1, <2>4, <2>6, OwedReply, OrderedSame
  <2>11. conn' = [conn EXCEPT ![p] = d]
    BY <1>6 DEF d
  <2> QED
    BY <1>5, <1>6, <2>6, <2>9, <2>10, <2>11
<1>7. CASE /\ m.type = "fetch_items" /\ conn' = [conn EXCEPT ![p] = blocks]
           /\ UNCHANGED <<active, toFetch, fetchDue, itemsDue>>
  <2> HIDE DEF bs
  <2>1. /\ DOMAIN blocks = Fields /\ blocks.out = Tail(c.out) /\ blocks.in = c.in \o bs
        /\ \A f \in Fields \ {"out", "in"} : blocks[f] = c[f]
    BY <1>2 DEF Fields
  <2> DEFINE d == blocks
  <2> HIDE DEF d
  <2>2. /\ d.up = c.up /\ d.toGet = c.toGet /\ d.processing = c.processing /\ d.unfetched = c.unfetched
        /\ d.weNeed = c.weNeed /\ d.peerNeeds = c.peerNeeds /\ d.seen = c.seen /\ d.asked = c.asked
        /\ d.requested = c.requested /\ d.wanted = c.wanted /\ d.theirs = c.theirs /\ d.ours = c.ours
        /\ d.composing = c.composing /\ DOMAIN d = Fields /\ d.out = Tail(c.out)
        /\ d.in = c.in \o bs /\ d.serves = c.serves
    BY <2>1 DEF Fields, d
  <2>3. AsksItems(m)
    BY <1>7 DEF AsksItems
  <2>4. d.in = c.in \o [i \in DOMAIN m.items |-> [type |-> "block", block |-> m.items[i]]]
    BY <2>2 DEF bs
  <2>5. d.in \in Seq(Incoming) /\ OwedOK(d)
    BY <1>0, <1>1, <2>2, <2>3, <2>4, OwedServe
  <2>6. RecordOK(d)
    BY <1>0, <1>1, <1>3, <2>2, <2>5 DEF RecordOK
  <2>7. Ordered(d, Anchors, Links, head)
    BY <1>0, <2>2, OrderedSame
  <2>8. conn' = [conn EXCEPT ![p] = d]
    BY <1>7 DEF d
  <2> QED
    BY <1>5, <1>7, <2>2, <2>5, <2>6, <2>7, <2>8
<1>8. CASE Leave(conn, {p}, active, toFetch, fetchDue, itemsDue)
  <2>1. {p} \in SUBSET Peers
    OBVIOUS
  <2>2. /\ PeersOK' /\ DbOK' /\ toFetch' \in Seq(Blocks) /\ active' \subseteq Blocks
        /\ fetchDue' \in BOOLEAN /\ itemsDue' \in BOOLEAN
    BY <1>1, <1>8, <2>1, Closing
  <2>3. VarsOK'
    BY <1>0, <1>1, <2>2 DEF VarsOK
  <2> QED
    BY <2>2, <2>3 DEF Inv
<1> HIDE DEF answer, blocks
<1> QED
  BY <1>4, <1>6, <1>7, <1>8

(* Only one record changes, and what the peer owes does not. *)
LEMMA RecordStep ==
  ASSUME Inv, NEW p \in Peers, NEW d, conn' = [conn EXCEPT ![p] = d],
         RecordOK(d), OwedOK(d), Ordered(d, Anchors, Links, head), d.requested = conn[p].requested,
         active' = active, UNCHANGED <<head, known, handling, recent, peerHead, drops, received>>,
         toFetch' \in Seq(Blocks), fetchDue' \in BOOLEAN, itemsDue' \in BOOLEAN, backlogDue' \in BOOLEAN,
         turn' \in {"none", "sync items", "items", "backlog"}
  PROVE  Inv'
<1>1. VarsOK /\ DbOK /\ PeersOK
  BY DEF Inv
<1>2. PeersOK' /\ DbOK'
  BY <1>1, OneRecord, SameDb
<1>3. VarsOK'
  BY <1>1 DEF VarsOK
<1> QED
  BY <1>2, <1>3 DEF Inv

(* A message that is not a block has been read. *)
LEMMA GotKeeps ==
  ASSUME NEW c, RecordOK(c), OwedOK(c), c.in # << >>, ~IsBlock(Head(c.in))
  PROVE  /\ RecordOK(Got(c)) /\ Got(c).up /\ OwedOK(Got(c)) /\ Got(c).requested = c.requested
         /\ \A A, L, h : Ordered(c, A, L, h) => Ordered(Got(c), A, L, h)
<1> DEFINE d == Got(c)
<1>1. /\ RecordOK(d) /\ d.up /\ d.in = Tail(c.in) /\ \A f \in Fields \ {"in"} : d[f] = c[f]
  BY GotRecord
<1> HIDE DEF d
<1>2. /\ d.toGet = c.toGet /\ d.seen = c.seen /\ d.asked = c.asked /\ d.composing = c.composing
      /\ d.requested = c.requested /\ d.wanted = c.wanted /\ d.out = c.out
  BY <1>1 DEF Fields
<1>3. OwedOK(d)
  BY <1>1, <1>2, OwedRead
<1>4. \A A, L, h : Ordered(c, A, L, h) => Ordered(d, A, L, h)
  BY <1>2, OrderedSame
<1> QED
  BY <1>1, <1>2, <1>3, <1>4 DEF d

LEMMA OnFetchIdsInv ==
  ASSUME Inv, NEW p \in Peers, ~Handling(conn[p]), OnFetchIds(p)
  PROVE  Inv'
<1> DEFINE c0 == conn[p]
           m == Head(c0.in)
           needs == NeedsItems(BlockIds(head, m.synopsis), m.synopsis)
           g == Got(c0)
           c == [g EXCEPT !.peerNeeds = needs]
<1>0. RecordOK(c0) /\ OwedOK(c0) /\ Ordered(c0, Anchors, Links, head) /\ VarsOK
  BY OfPeer DEF Inv
<1>1. /\ UNCHANGED <<head, known, handling, recent, peerHead, drops, received, backlogDue, turn,
                     active, toFetch, fetchDue, itemsDue>>
      /\ c0.in # << >> /\ m.type = "fetch_ids"
      /\ conn' = [conn EXCEPT ![p] = c] \/ conn' = [conn EXCEPT ![p] = StartSync(c, TRUE)]
  BY DEF OnFetchIds, Update, dbVars, pushVars, others
<1>2. /\ RecordOK(g) /\ g.up /\ OwedOK(g) /\ g.requested = c0.requested
      /\ Ordered(g, Anchors, Links, head)
  BY <1>0, <1>1, GotKeeps DEF IsBlock
<1>3. g.composing = c0.composing
  BY <1>0, <1>1, GotRecord DEF Fields
<1>4. needs \in BOOLEAN
  BY NeedsItemsType
<1>5. DOMAIN g = Fields
  BY <1>2 DEF RecordOK
<1> HIDE DEF needs, g, m
<1>6. /\ DOMAIN c = Fields /\ c.peerNeeds = needs /\ \A f \in Fields \ {"peerNeeds"} : c[f] = g[f]
  BY <1>5 DEF Fields
<1> HIDE DEF c
<1>7. /\ c.up = g.up /\ c.toGet = g.toGet /\ c.processing = g.processing /\ c.unfetched = g.unfetched
      /\ c.weNeed = g.weNeed /\ c.seen = g.seen /\ c.asked = g.asked
      /\ c.requested = g.requested /\ c.wanted = g.wanted /\ c.theirs = g.theirs /\ c.ours = g.ours
      /\ c.serves = g.serves /\ c.out = g.out /\ c.composing = g.composing /\ c.in = g.in
  BY <1>6 DEF Fields
<1>8. c.peerNeeds \in BOOLEAN
  BY <1>4, <1>6, Zenon
<1>9. RecordOK(c)
  BY <1>2, <1>6, <1>7, <1>8 DEF RecordOK
<1>10. OwedOK(c) /\ Ordered(c, Anchors, Links, head) /\ c.up /\ c.requested = c0.requested
  BY <1>2, <1>7, OwedSame, OrderedSame
<1>11. ~Handling(c)
  BY <1>3, <1>7 DEF Handling
<1>12. /\ toFetch' \in Seq(Blocks) /\ fetchDue' \in BOOLEAN /\ itemsDue' \in BOOLEAN
       /\ backlogDue' \in BOOLEAN /\ turn' \in {"none", "sync items", "items", "backlog"}
  BY <1>0, <1>1 DEF VarsOK
<1>13. CASE conn' = [conn EXCEPT ![p] = c]
  BY <1>1, <1>9, <1>10, <1>12, <1>13, RecordStep
<1>14. CASE conn' = [conn EXCEPT ![p] = StartSync(c, TRUE)]
  <2> DEFINE d == StartSync(c, TRUE)
  <2>0. TRUE \in BOOLEAN
    OBVIOUS
  <2>1. RecordOK(d) /\ OwedOK(d) /\ Ordered(d, Anchors, Links, head) /\ d.requested = c0.requested
    BY <1>9, <1>10, <1>11, <2>0, StartSyncKeeps, GenesisAnchored
  <2> HIDE DEF d
  <2>2. conn' = [conn EXCEPT ![p] = d]
    BY <1>14 DEF d
  <2> QED
    BY <1>1, <1>12, <2>1, <2>2, RecordStep
<1> QED
  BY <1>1, <1>13, <1>14

LEMMA OnBlockIdsInv ==
  ASSUME Inv, NEW p \in Peers, ~Handling(conn[p]), OnBlockIds(p)
  PROVE  Inv'
<1> DEFINE c0 == conn[p]
           m == Head(c0.in)
           g == Got(c0)
           c == [g EXCEPT !.asked = None]
           e == Extended(p, c, m.ids)
           new == [e EXCEPT !.unfetched = m.remaining]
           enough == IF m.remaining # 0 THEN Len(new.toGet) > MinPrefetch ELSE new.toGet # << >>
<1>0. RecordOK(c0) /\ OwedOK(c0) /\ Ordered(c0, Anchors, Links, head) /\ VarsOK /\ DbOK
  BY OfPeer DEF Inv
<1>1. /\ UNCHANGED <<head, known, handling, recent, peerHead, drops, received, backlogDue, turn>>
      /\ c0.in # << >> /\ m.type = "ids"
      /\ \/ conn' = [conn EXCEPT ![p] = g] /\ UNCHANGED <<active, toFetch, fetchDue, itemsDue>>
         \/ Leave(conn, {p}, active, toFetch, fetchDue, itemsDue)
         \/ /\ conn' = [conn EXCEPT ![p] = [c EXCEPT !.weNeed = FALSE]]
            /\ UNCHANGED <<active, toFetch, fetchDue, itemsDue>>
         \/ /\ c0.asked # None /\ ValidReply(m.ids, c0.asked)
            /\ conn' = [conn EXCEPT ![p] = new] \/ conn' = [conn EXCEPT ![p] = FetchIds(new, TRUE)]
            /\ fetchDue' = (fetchDue \/ enough)
            /\ UNCHANGED <<active, toFetch, itemsDue>>
  BY DEF OnBlockIds, Update, dbVars, pushVars, others
<1>a. fetchDue' \in BOOLEAN
  <2>1. fetchDue \in BOOLEAN
    BY <1>0 DEF VarsOK
  <2> HIDE DEF enough
  <2>2. CASE fetchDue' = fetchDue
    BY <2>1, <2>2
  <2>3. CASE fetchDue' = (fetchDue \/ enough)
    BY <2>3
  <2>4. CASE Leave(conn, {p}, active, toFetch, fetchDue, itemsDue)
    BY <2>4 DEF Leave
  <2> QED
    BY <1>1, <2>2, <2>3, <2>4
<1>2. /\ RecordOK(g) /\ g.up /\ OwedOK(g) /\ g.requested = c0.requested
      /\ Ordered(g, Anchors, Links, head)
  BY <1>0, <1>1, GotKeeps DEF IsBlock
<1>3. g.composing = c0.composing /\ g.toGet = c0.toGet
  BY <1>0, <1>1, GotRecord DEF Fields
<1>4. m \in Incoming
  BY <1>0, <1>1, MessageFacts
<1>5. m.ids \in Segments /\ m.remaining \in Nat
  BY <1>1, <1>4 DEF Incoming
<1>6. DOMAIN g = Fields
  BY <1>2 DEF RecordOK
<1>b. /\ turn' \in {"none", "sync items", "items", "backlog"} /\ backlogDue' \in BOOLEAN
      /\ toFetch \in Seq(Blocks) /\ itemsDue \in BOOLEAN
  BY <1>0, <1>1 DEF VarsOK
<1>7. CASE conn' = [conn EXCEPT ![p] = g] /\ UNCHANGED <<active, toFetch, fetchDue, itemsDue>>
  <2> HIDE DEF g
  <2> QED
    BY <1>1, <1>2, <1>7, <1>a, <1>b, RecordStep
<1>8. CASE Leave(conn, {p}, active, toFetch, fetchDue, itemsDue)
  <2>1. {p} \in SUBSET Peers
    OBVIOUS
  <2>2. /\ PeersOK' /\ DbOK' /\ toFetch' \in Seq(Blocks) /\ active' \subseteq Blocks
        /\ fetchDue' \in BOOLEAN /\ itemsDue' \in BOOLEAN
    BY <1>1, <1>8, <2>1, Closing
  <2>3. VarsOK'
    BY <1>0, <1>1, <2>2 DEF VarsOK
  <2> QED
    BY <2>2, <2>3 DEF Inv
<1> HIDE DEF g
<1>9. /\ DOMAIN c = Fields /\ c.asked = None /\ \A f \in Fields \ {"asked"} : c[f] = g[f]
  BY <1>6 DEF Fields
<1>10. CASE /\ conn' = [conn EXCEPT ![p] = [c EXCEPT !.weNeed = FALSE]]
            /\ UNCHANGED <<active, toFetch, fetchDue, itemsDue>>
  <2> HIDE DEF c
  <2> DEFINE d == [c EXCEPT !.weNeed = FALSE]
  <2>1. DOMAIN d = Fields /\ d.weNeed = FALSE /\ \A f \in Fields \ {"weNeed"} : d[f] = c[f]
    BY <1>9 DEF Fields
  <2>2. conn' = [conn EXCEPT ![p] = d]
    BY <1>10
  <2> HIDE DEF d
  <2>3. /\ d.up = g.up /\ d.toGet = g.toGet /\ d.processing = g.processing /\ d.unfetched = g.unfetched
        /\ d.peerNeeds = g.peerNeeds /\ d.seen = g.seen /\ d.asked = None
        /\ d.requested = g.requested /\ d.wanted = g.wanted /\ d.theirs = g.theirs /\ d.ours = g.ours
        /\ d.serves = g.serves /\ d.out = g.out /\ d.composing = g.composing /\ d.in = g.in
    BY <1>9, <2>1 DEF Fields
  <2>4. d.weNeed \in BOOLEAN
    BY <2>1
  <2>5. RecordOK(d)
    BY <1>2, <2>1, <2>3, <2>4 DEF RecordOK
  <2>6. OwedOK(d) /\ Ordered(d, Anchors, Links, head) /\ d.requested = c0.requested
    BY <1>2, <2>3, OwedSame, OrderedSame
  <2> QED
    BY <1>1, <1>10, <1>a, <1>b, <2>2, <2>5, <2>6, RecordStep
<1>11. CASE /\ c0.asked # None /\ ValidReply(m.ids, c0.asked)
            /\ conn' = [conn EXCEPT ![p] = new] \/ conn' = [conn EXCEPT ![p] = FetchIds(new, TRUE)]
            /\ UNCHANGED <<active, toFetch, itemsDue>>
  <2> HIDE DEF c, m
  <2>1. /\ c.up = g.up /\ c.toGet = g.toGet /\ c.processing = g.processing /\ c.unfetched = g.unfetched
        /\ c.weNeed = g.weNeed /\ c.peerNeeds = g.peerNeeds /\ c.seen = g.seen /\ c.asked = None
        /\ c.requested = g.requested /\ c.wanted = g.wanted /\ c.theirs = g.theirs /\ c.ours = g.ours
        /\ c.serves = g.serves /\ c.out = g.out /\ c.composing = g.composing /\ c.in = g.in
    BY <1>9 DEF Fields
  <2>2. RecordOK(c)
    BY <1>2, <1>9, <2>1 DEF RecordOK
  <2>3. OwedOK(c) /\ Ordered(c, Anchors, Links, head)
    BY <1>2, <2>1, OwedSame, OrderedSame
  <2>4. c0.asked \in Seq(Blocks) /\ AskedOK(c0.asked, c.toGet, Anchors)
    BY <1>0, <1>3, <1>11, <2>1 DEF RecordOK, Ordered
  <2>5. ~Handling(c)
    BY <1>3, <2>1 DEF Handling
  <2>6. /\ DOMAIN e = Fields /\ \A f \in Fields \ {"toGet", "seen"} : e[f] = c[f]
        /\ e.toGet \in Segments /\ e.seen \in Blocks \cup {Genesis}
        /\ Ordered(e, Anchors, Links, head)
    BY <1>0, <1>5, <1>11, <2>1, <2>2, <2>3, <2>4, <2>5, ExtendedKeeps
  <2> HIDE DEF e
  <2>7. /\ DOMAIN new = Fields /\ new.unfetched = m.remaining
        /\ \A f \in Fields \ {"unfetched"} : new[f] = e[f]
    BY <2>6 DEF Fields
  <2> HIDE DEF new
  <2>8. /\ new.up = c.up /\ new.toGet = e.toGet /\ new.processing = c.processing
        /\ new.weNeed = c.weNeed /\ new.peerNeeds = c.peerNeeds /\ new.seen = e.seen
        /\ new.asked = None /\ new.asked = e.asked
        /\ new.requested = c.requested /\ new.wanted = c.wanted /\ new.theirs = c.theirs /\ new.ours = c.ours
        /\ new.serves = c.serves /\ new.out = c.out /\ new.in = c.in
        /\ new.composing = c.composing /\ new.composing = e.composing
    BY <2>1, <2>6, <2>7 DEF Fields
  <2>9. RecordOK(new)
    BY <1>2, <1>5, <2>1, <2>2, <2>6, <2>7, <2>8 DEF RecordOK
  <2>10. OwedOK(new) /\ Ordered(new, Anchors, Links, head) /\ new.up /\ new.requested = c0.requested
    BY <1>2, <2>1, <2>3, <2>6, <2>8, OwedSame, OrderedSame
  <2>11. CASE conn' = [conn EXCEPT ![p] = new]
    BY <1>1, <1>11, <1>a, <1>b, <2>9, <2>10, <2>11, RecordStep
  <2>12. CASE conn' = [conn EXCEPT ![p] = FetchIds(new, TRUE)]
    <3> DEFINE d == FetchIds(new, TRUE)
    <3>0. TRUE \in BOOLEAN
      OBVIOUS
    <3>1. RecordOK(d) /\ OwedOK(d) /\ Ordered(d, Anchors, Links, head) /\ d.requested = c0.requested
      BY <2>9, <2>10, <3>0, FetchIdsKeeps
    <3> HIDE DEF d
    <3>2. conn' = [conn EXCEPT ![p] = d]
      BY <2>12 DEF d
    <3> QED
      BY <1>1, <1>11, <1>a, <1>b, <3>1, <3>2, RecordStep
  <2> QED
    BY <1>11, <2>11, <2>12
<1> HIDE DEF c, new, enough, m
<1> QED
  BY <1>1, <1>7, <1>8, <1>10, <1>11

(* What one peer owes changes, and _active_sync_requests with it. *)
LEMMA OneRequest ==
  ASSUME PeersOK, NEW p \in Peers, NEW d, conn' = [conn EXCEPT ![p] = d],
         RecordOK(d), OwedOK(d), Ordered(d, Anchors, Links, head),
         active' = (active \ conn[p].requested) \cup d.requested,
         \A q \in Peers \ {p} : conn[q].requested \cap d.requested = {},
         UNCHANGED <<head, known, handling, recent>>
  PROVE  PeersOK'
<1> DEFINE cn == [q \in Peers |-> IF q = p THEN d ELSE conn[q]]
<1>1. conn' = [q \in Peers |-> cn[q]]
  BY DEF PeersOK
<1>2. /\ Anchors' = Anchors /\ Links' = Links /\ head' = head
  BY SameDb
<1>3. \A q \in Peers : cn[q] = IF q = p THEN d ELSE conn[q]
  OBVIOUS
<1>4. \A q \in Peers : RecordOK(cn[q]) /\ OwedOK(cn[q]) /\ Ordered(cn[q], Anchors', Links', head')
  <2> SUFFICES ASSUME NEW q \in Peers
               PROVE  RecordOK(cn[q]) /\ OwedOK(cn[q]) /\ Ordered(cn[q], Anchors, Links, head)
    BY <1>2
  <2>1. CASE q = p
    BY <2>1
  <2>2. CASE q # p
    BY <2>2 DEF PeersOK
  <2> QED
    BY <2>1, <2>2
<1> HIDE DEF cn
<1>5. /\ active = UNION {conn[q].requested : q \in Peers}
      /\ \A x, y \in Peers : x # y => conn[x].requested \cap conn[y].requested = {}
  BY DEF PeersOK
<1>6. active' = UNION {cn[q].requested : q \in Peers}
  <2>1. ASSUME NEW x \in active'
        PROVE  x \in UNION {cn[q].requested : q \in Peers}
    <3>1. CASE x \in d.requested
      BY <1>3, <3>1
    <3>2. CASE x \in active /\ x \notin conn[p].requested
      <4>1. PICK q \in Peers : x \in conn[q].requested
        BY <1>5, <3>2
      <4>2. q # p
        BY <3>2, <4>1
      <4>3. cn[q] = conn[q]
        BY <1>3, <4>2
      <4> QED
        BY <4>1, <4>3
    <3> QED
      BY <3>1, <3>2
  <2>2. ASSUME NEW x \in UNION {cn[q].requested : q \in Peers}
        PROVE  x \in active'
    <3>1. PICK q \in Peers : x \in cn[q].requested
      OBVIOUS
    <3>2. CASE q = p
      BY <1>3, <3>1, <3>2
    <3>3. CASE q # p
      BY <1>3, <1>5, <3>1, <3>3
    <3> QED
      BY <3>2, <3>3
  <2> QED
    BY <2>1, <2>2
<1>7. \A x, y \in Peers : x # y => cn[x].requested \cap cn[y].requested = {}
  BY <1>3, <1>5
<1> QED
  BY <1>1, <1>4, <1>6, <1>7, NewRecords

LEMMA SamePeers ==
  ASSUME PeersOK, UNCHANGED <<conn, active, head, known, handling, recent>>
  PROVE  PeersOK'
<1>1. /\ Anchors' = Anchors /\ Links' = Links /\ head' = head
  BY SameDb
<1> QED
  BY <1>1 DEF PeersOK

(* A peer that owes nothing is asked for the blocks `items'. *)
LEMMA AskKeeps ==
  ASSUME NEW c, RecordOK(c), OwedOK(c), c.up, c.requested = {}, c.wanted = {},
         NEW items \in Seq(Blocks), IsInjective(items), items # << >>,
         NEW d, DOMAIN d = Fields, d.out = Append(c.out, [type |-> "fetch_items", items |-> items]),
         d.requested \subseteq Blocks, d.wanted \subseteq Blocks, IsFiniteSet(d.wanted),
         ToSet(items) \subseteq d.requested \cup d.wanted,
         \A f \in Fields \ {"out", "requested", "wanted"} : d[f] = c[f]
  PROVE  /\ RecordOK(d) /\ OwedOK(d)
         /\ \A A, L, h : Ordered(c, A, L, h) => Ordered(d, A, L, h)
<1> DEFINE m == [type |-> "fetch_items", items |-> items]
<1>1. m \in Outgoing /\ AsksItems(m) /\ m.items = items
  BY DEF Outgoing, AsksItems
<1>a. d.out = Append(c.out, m)
  OBVIOUS
<1> HIDE DEF m
<1>2. /\ d.up = c.up /\ d.toGet = c.toGet /\ d.processing = c.processing /\ d.unfetched = c.unfetched
      /\ d.weNeed = c.weNeed /\ d.peerNeeds = c.peerNeeds /\ d.seen = c.seen /\ d.asked = c.asked
      /\ d.theirs = c.theirs /\ d.ours = c.ours
      /\ d.serves = c.serves /\ d.in = c.in /\ d.composing = c.composing
  BY DEF Fields
<1>3. d.out \in Seq(Outgoing)
  <2>1. \A s \in Seq(Outgoing) : \A x \in Outgoing : Append(s, x) \in Seq(Outgoing)
    OBVIOUS
  <2>2. c.out \in Seq(Outgoing)
    BY DEF RecordOK
  <2> QED
    BY <1>1, <1>a, <2>1, <2>2
<1>4. RecordOK(d)
  BY <1>2, <1>3 DEF RecordOK
<1>5. OwedOK(d)
  BY <1>1, <1>2, <1>a, OwedAsk
<1>6. \A A, L, h : Ordered(c, A, L, h) => Ordered(d, A, L, h)
  BY <1>2, OrderedSame
<1> QED
  BY <1>4, <1>5, <1>6

LEMMA FetchSyncItemsInv ==
  ASSUME Inv, FetchSyncItems
  PROVE  Inv'
<1>0. VarsOK /\ DbOK /\ PeersOK
  BY DEF Inv
<1>1. UNCHANGED <<head, known, handling, recent, peerHead, drops, received, backlogDue, toFetch, itemsDue>>
  BY DEF FetchSyncItems, dbVars, pushVars
<1>2. DbOK'
  BY <1>0, <1>1, SameDb
<1>3. CASE \E p \in Up :
            LET items == ToRequest(conn[p])
            IN  /\ CanRequest(p)
                /\ Update(p, Send([conn[p] EXCEPT !.requested = ToSet(items)],
                                  [type |-> "fetch_items", items |-> items]))
                /\ active' = active \cup ToSet(items)
                /\ turn' = "sync items"
                /\ UNCHANGED fetchDue
  <2>1. PICK p \in Up :
            /\ CanRequest(p)
            /\ Update(p, Send([conn[p] EXCEPT !.requested = ToSet(ToRequest(conn[p]))],
                              [type |-> "fetch_items", items |-> ToRequest(conn[p])]))
            /\ active' = active \cup ToSet(ToRequest(conn[p]))
            /\ turn' = "sync items"
            /\ UNCHANGED fetchDue
    BY <1>3
  <2> DEFINE c == conn[p]
             items == ToRequest(c)
             d == Send([c EXCEPT !.requested = ToSet(items)], [type |-> "fetch_items", items |-> items])
  <2>2. p \in Peers /\ c.up
    BY DEF Up
  <2>3. RecordOK(c) /\ OwedOK(c) /\ Ordered(c, Anchors, Links, head)
    BY <1>0, <2>2, OfPeer
  <2>4. c.requested = {} /\ c.wanted = {} /\ items # << >>
    BY <2>1 DEF CanRequest, Idle
  <2>5. items \in Seq(Blocks) /\ IsInjective(items) /\ ToSet(items) \cap active = {}
    <3>1. c.toGet \in Segments
      BY <2>3 DEF RecordOK
    <3>2. c.toGet \in Seq(Blocks)
      BY <3>1, SegmentType
    <3> QED
      BY <3>2, ToRequestFacts
  <2>6. DOMAIN c = Fields
    BY <2>3 DEF RecordOK
  <2>7. conn' = [conn EXCEPT ![p] = d] /\ active' = active \cup ToSet(items)
    BY <2>1 DEF Update
  <2> HIDE DEF items, c
  <2>8. /\ DOMAIN d = Fields /\ d.out = Append(c.out, [type |-> "fetch_items", items |-> items])
        /\ d.requested = ToSet(items)
        /\ \A f \in Fields \ {"out", "requested"} : d[f] = c[f]
    BY <2>6 DEF Send, Fields
  <2> HIDE DEF d
  <2>9. d.wanted = {} /\ IsFiniteSet({})
    BY <2>4, <2>8, FS_EmptySet DEF Fields
  <2>10. ToSet(items) \subseteq Blocks
    BY <2>5, InToSet
  <2>a. /\ d.requested \subseteq Blocks /\ d.wanted \subseteq Blocks /\ IsFiniteSet(d.wanted)
        /\ ToSet(items) \subseteq d.requested \cup d.wanted
    BY <2>8, <2>9, <2>10
  <2>b. \A f \in Fields \ {"out", "requested", "wanted"} : d[f] = c[f]
    BY <2>8
  <2>11. RecordOK(d) /\ OwedOK(d) /\ Ordered(d, Anchors, Links, head)
    BY <2>2, <2>3, <2>4, <2>5, <2>8, <2>a, <2>b, AskKeeps
  <2>12. \A q \in Peers : conn[q].requested \subseteq active
    BY <1>0 DEF PeersOK
  <2>13. \A q \in Peers \ {p} : conn[q].requested \cap d.requested = {}
    BY <2>5, <2>8, <2>12
  <2>14. active' = (active \ conn[p].requested) \cup d.requested
    BY <2>4, <2>7, <2>8 DEF c
  <2>15. PeersOK'
    BY <1>0, <1>1, <2>2, <2>7, <2>11, <2>13, <2>14, OneRequest
  <2>16. active' \subseteq Blocks
    BY <1>0, <2>7, <2>10 DEF VarsOK
  <2>17. VarsOK'
    BY <1>0, <1>1, <2>1, <2>16 DEF VarsOK
  <2> QED
    BY <1>2, <2>15, <2>17 DEF Inv
<1>4. CASE fetchDue' = FALSE /\ turn' = "none" /\ UNCHANGED <<conn, active>>
  <2>1. PeersOK'
    BY <1>0, <1>1, <1>4, SamePeers
  <2>2. fetchDue' \in BOOLEAN
    BY <1>4
  <2>3. VarsOK'
    BY <1>0, <1>1, <1>4, <2>2 DEF VarsOK
  <2> QED
    BY <1>2, <2>1, <2>3 DEF Inv
<1> QED
  BY <1>3, <1>4 DEF FetchSyncItems

LEMMA FetchItemsInv ==
  ASSUME Inv, FetchItems
  PROVE  Inv'
<1> DEFINE I == {k \in 1..Len(toFetch) : \E p \in Up : Idle(conn[p]) /\ toFetch[k] \in conn[p].theirs}
           i == IF I # {} THEN Min(I) ELSE 0
           b == toFetch[i]
<1>0. VarsOK /\ DbOK /\ PeersOK
  BY DEF Inv
<1>1. UNCHANGED <<head, known, handling, recent, peerHead, drops, received, backlogDue, active, fetchDue>>
  BY DEF FetchItems, dbVars, pushVars
<1>2. DbOK'
  BY <1>0, <1>1, SameDb
<1>3. \/ \E p \in Up :
           /\ i # 0 /\ Idle(conn[p]) /\ b \in conn[p].theirs
           /\ conn' = [conn EXCEPT ![p] = Send([conn[p] EXCEPT !.wanted = {b}],
                                               [type |-> "fetch_items", items |-> <<b>>])]
           /\ toFetch' = RemoveAt(toFetch, i)
           /\ turn' = "items"
           /\ UNCHANGED itemsDue
      \/ itemsDue' = FALSE /\ turn' = "none" /\ UNCHANGED <<conn, toFetch>>
  BY DEF FetchItems, Update, SelectInSeq
<1>4. toFetch \in Seq(Blocks)
  BY <1>0 DEF VarsOK
<1>5. i # 0 => i \in 1..Len(toFetch)
  <2>1. I \in SUBSET (1..Len(toFetch)) /\ Len(toFetch) \in Nat
    BY <1>4
  <2> HIDE DEF I
  <2> QED
    BY <2>1, LeastIndex
<1> HIDE DEF i, I
<1>6. CASE itemsDue' = FALSE /\ turn' = "none" /\ UNCHANGED <<conn, toFetch>>
  <2>1. PeersOK'
    BY <1>0, <1>1, <1>6, SamePeers
  <2>2. itemsDue' \in BOOLEAN
    BY <1>6
  <2>3. VarsOK'
    BY <1>0, <1>1, <1>6, <2>2 DEF VarsOK
  <2> QED
    BY <1>2, <2>1, <2>3 DEF Inv
<1>7. ASSUME NEW p \in Up, i # 0, Idle(conn[p]), toFetch' = RemoveAt(toFetch, i), turn' = "items", UNCHANGED itemsDue,
             conn' = [conn EXCEPT ![p] = Send([conn[p] EXCEPT !.wanted = {b}],
                                              [type |-> "fetch_items", items |-> <<b>>])]
      PROVE  Inv'
  <2> DEFINE c == conn[p]
             items == <<b>>
             d == Send([c EXCEPT !.wanted = {b}], [type |-> "fetch_items", items |-> items])
  <2>1. b \in Blocks /\ toFetch' \in Seq(Blocks)
    BY <1>4, <1>5, <1>7, RemoveAtFacts
  <2>2. p \in Peers /\ c.up
    BY DEF Up
  <2>3. RecordOK(c) /\ OwedOK(c) /\ Ordered(c, Anchors, Links, head)
    BY <1>0, <2>2, OfPeer
  <2>4. c.requested = {} /\ c.wanted = {}
    BY <1>7 DEF Idle
  <2> HIDE DEF b
  <2>5. items \in Seq(Blocks) /\ IsInjective(items) /\ items # << >> /\ ToSet(items) = {b}
    BY <2>1 DEF IsInjective, ToSet
  <2>6. DOMAIN c = Fields
    BY <2>3 DEF RecordOK
  <2>7. conn' = [conn EXCEPT ![p] = d]
    BY <1>7
  <2> HIDE DEF items, c
  <2>8. /\ DOMAIN d = Fields /\ d.out = Append(c.out, [type |-> "fetch_items", items |-> items])
        /\ d.wanted = {b} /\ \A f \in Fields \ {"out", "wanted"} : d[f] = c[f]
    BY <2>6 DEF Send, Fields
  <2> HIDE DEF d
  <2>9. d.requested = {} /\ IsFiniteSet({b})
    BY <2>4, <2>8, FS_Singleton DEF Fields
  <2>a. /\ d.requested \subseteq Blocks /\ d.wanted \subseteq Blocks /\ IsFiniteSet(d.wanted)
        /\ ToSet(items) \subseteq d.requested \cup d.wanted
    BY <2>1, <2>5, <2>8, <2>9
  <2>b. \A f \in Fields \ {"out", "requested", "wanted"} : d[f] = c[f]
    BY <2>8
  <2>10. RecordOK(d) /\ OwedOK(d) /\ Ordered(d, Anchors, Links, head)
    BY <2>2, <2>3, <2>4, <2>5, <2>8, <2>a, <2>b, AskKeeps
  <2>11. d.requested = conn[p].requested
    BY <2>4, <2>9 DEF c
  <2>12. fetchDue' \in BOOLEAN /\ itemsDue' \in BOOLEAN /\ backlogDue' \in BOOLEAN
    BY <1>0, <1>1, <1>7 DEF VarsOK
  <2> QED
    BY <1>1, <1>7, <2>1, <2>2, <2>7, <2>10, <2>11, <2>12, RecordStep
<1> QED
  BY <1>3, <1>6, <1>7

LEMMA OnInventoryInv ==
  ASSUME Inv, NEW p \in Peers, OnInventory(p)
  PROVE  Inv'
<1> DEFINE c == conn[p]
           m == Head(c.in)
           b == m.block
           g == Got(c)
           d == [g EXCEPT !.theirs = @ \cup {b}]
<1>0. RecordOK(c) /\ OwedOK(c) /\ Ordered(c, Anchors, Links, head) /\ VarsOK
  BY OfPeer DEF Inv
<1>1. /\ UNCHANGED <<head, known, handling, recent, peerHead, drops, received, backlogDue, turn,
                     active, fetchDue>>
      /\ c.in # << >> /\ m.type = "inventory"
      /\ \/ conn' = [conn EXCEPT ![p] = g] /\ UNCHANGED <<toFetch, itemsDue>>
         \/ /\ conn' = [conn EXCEPT ![p] = d]
            /\ toFetch' = Append(toFetch, b) \/ toFetch' = toFetch
            /\ itemsDue' \in BOOLEAN
  BY DEF OnInventory, Update, dbVars, pushVars, others
<1>2. m \in Incoming
  BY <1>0, <1>1, MessageFacts
<1>3. b \in Blocks
  BY <1>1, <1>2 DEF Incoming
<1>4. /\ RecordOK(g) /\ g.up /\ OwedOK(g) /\ g.requested = c.requested
      /\ Ordered(g, Anchors, Links, head)
  BY <1>0, <1>1, GotKeeps DEF IsBlock
<1>5. DOMAIN g = Fields
  BY <1>4 DEF RecordOK
<1> HIDE DEF g, b
<1>6. toFetch' \in Seq(Blocks) /\ itemsDue' \in BOOLEAN
  <2>1. toFetch \in Seq(Blocks) /\ itemsDue \in BOOLEAN
    BY <1>0 DEF VarsOK
  <2>2. Append(toFetch, b) \in Seq(Blocks)
    BY <1>3, <2>1
  <2>3. toFetch' \in Seq(Blocks)
    BY <1>1, <2>1, <2>2
  <2>4. itemsDue' \in BOOLEAN
    BY <1>1, <2>1
  <2> QED
    BY <2>3, <2>4
<1>7. fetchDue' \in BOOLEAN /\ backlogDue' \in BOOLEAN /\ turn' \in {"none", "sync items", "items", "backlog"}
  BY <1>0, <1>1 DEF VarsOK
<1>8. CASE conn' = [conn EXCEPT ![p] = g]
  BY <1>1, <1>4, <1>6, <1>7, <1>8, RecordStep
<1>9. CASE conn' = [conn EXCEPT ![p] = d]
  <2>1. DOMAIN d = Fields /\ d.theirs = g.theirs \cup {b} /\ \A f \in Fields \ {"theirs"} : d[f] = g[f]
    BY <1>5 DEF Fields
  <2> HIDE DEF d
  <2>2. /\ d.up = g.up /\ d.toGet = g.toGet /\ d.processing = g.processing /\ d.unfetched = g.unfetched
        /\ d.weNeed = g.weNeed /\ d.peerNeeds = g.peerNeeds /\ d.seen = g.seen /\ d.asked = g.asked
        /\ d.requested = g.requested /\ d.wanted = g.wanted /\ d.ours = g.ours
        /\ d.serves = g.serves /\ d.out = g.out /\ d.composing = g.composing /\ d.in = g.in
    BY <2>1 DEF Fields
  <2>3. RecordOK(d)
    BY <1>3, <1>4, <2>1, <2>2 DEF RecordOK
  <2>4. OwedOK(d) /\ Ordered(d, Anchors, Links, head) /\ d.requested = c.requested
    BY <1>4, <2>2, OwedSame, OrderedSame
  <2> QED
    BY <1>1, <1>6, <1>7, <1>9, <2>3, <2>4, RecordStep
<1> QED
  BY <1>1, <1>8, <1>9

(* A block that was asked for has been read: it is owed no longer. *)
LEMMA BlockReadKeeps ==
  ASSUME NEW c, RecordOK(c), OwedOK(c), c.in # << >>, IsBlock(Head(c.in)),
         NEW b, b = Head(c.in).block, NEW d, DOMAIN d = Fields, d.in = Tail(c.in),
         d.requested = c.requested \/ d.requested = c.requested \ {b},
         d.wanted = c.wanted \/ d.wanted = c.wanted \ {b},
         \A f \in Fields \ {"in", "requested", "wanted"} : d[f] = c[f]
  PROVE  /\ RecordOK(d) /\ d.up /\ OwedOK(d) /\ b \in Blocks /\ d.composing = c.composing
         /\ \A A, L, h : Ordered(c, A, L, h) => Ordered(d, A, L, h)
<1>1. c.up /\ Head(c.in) \in Incoming /\ Tail(c.in) \in Seq(Incoming)
  BY MessageFacts
<1>2. b \in Blocks
  BY <1>1 DEF Incoming, IsBlock
<1>3. /\ d.up = c.up /\ d.toGet = c.toGet /\ d.processing = c.processing /\ d.unfetched = c.unfetched
      /\ d.weNeed = c.weNeed /\ d.peerNeeds = c.peerNeeds /\ d.seen = c.seen /\ d.asked = c.asked
      /\ d.theirs = c.theirs /\ d.ours = c.ours
      /\ d.serves = c.serves /\ d.out = c.out /\ d.composing = c.composing
  BY DEF Fields
<1>4. d.requested \subseteq Blocks /\ d.wanted \subseteq Blocks /\ IsFiniteSet(d.wanted)
  <2>1. c.requested \subseteq Blocks /\ c.wanted \subseteq Blocks /\ IsFiniteSet(c.wanted)
    BY DEF RecordOK
  <2>2. IsFiniteSet(c.wanted \ {b})
    BY <2>1, FS_Subset
  <2> QED
    BY <2>1, <2>2
<1>5. d.in \in Seq(Incoming)
  BY <1>1
<1>6. RecordOK(d)
  BY <1>1, <1>3, <1>4, <1>5 DEF RecordOK
<1>7. \A x \in c.requested \cup c.wanted :
         x \in d.requested \cup d.wanted \/ (IsBlock(Head(c.in)) /\ x = Head(c.in).block)
  OBVIOUS
<1>8. OwedOK(d)
  BY <1>3, <1>7, OwedRead
<1>9. \A A, L, h : Ordered(c, A, L, h) => Ordered(d, A, L, h)
  BY <1>3, OrderedSame
<1> QED
  BY <1>1, <1>2, <1>3, <1>6, <1>8, <1>9

LEMMA OnSyncBlockInv ==
  ASSUME Inv, NEW p \in Peers, OnSyncBlock(p)
  PROVE  Inv'
<1> DEFINE c0 == conn[p]
           b == Head(c0.in).block
           c == [Got(c0) EXCEPT !.requested = @ \ {b}]
           more == c.unfetched > 0 /\ Len(c.toGet) < MinPrefetch
           idle == Idle(c)
<1>0. RecordOK(c0) /\ OwedOK(c0) /\ Ordered(c0, Anchors, Links, head) /\ VarsOK /\ DbOK /\ PeersOK
  BY OfPeer DEF Inv
<1>1. /\ UNCHANGED <<head, known, handling, recent, peerHead, drops, turn, toFetch, itemsDue>>
      /\ c0.in # << >> /\ Head(c0.in).type = "block" /\ b \in c0.requested
      /\ active' = active \ {b} /\ received' = received \cup {b} /\ backlogDue' = TRUE
      /\ conn' = [conn EXCEPT ![p] = c] \/ conn' = [conn EXCEPT ![p] = FetchIds(c, TRUE)]
      /\ fetchDue' = (fetchDue \/ (idle /\ ~more))
  BY DEF OnSyncBlock, Update, dbVars, others
<1>2. fetchDue' \in BOOLEAN /\ backlogDue' \in BOOLEAN
  <2> HIDE DEF idle, more
  <2>1. fetchDue' \in BOOLEAN
    BY <1>1
  <2>2. backlogDue' \in BOOLEAN
    BY <1>1
  <2> QED
    BY <2>1, <2>2
<1> HIDE DEF idle, more, b
<1>3. /\ DOMAIN c = Fields /\ c.in = Tail(c0.in) /\ c.requested = c0.requested \ {b}
      /\ \A f \in Fields \ {"in", "requested"} : c[f] = c0[f]
  <2>1. DOMAIN c0 = Fields
    BY <1>0 DEF RecordOK
  <2> QED
    BY <2>1 DEF Got, Fields
<1> HIDE DEF c
<1>4. /\ RecordOK(c) /\ c.up /\ OwedOK(c) /\ b \in Blocks /\ Ordered(c, Anchors, Links, head)
  <2>1. c.wanted = c0.wanted /\ \A f \in Fields \ {"in", "requested", "wanted"} : c[f] = c0[f]
    BY <1>3 DEF Fields
  <2>2. IsBlock(Head(c0.in)) /\ b = Head(c0.in).block
    BY <1>1 DEF IsBlock, b
  <2> QED
    BY <1>0, <1>1, <1>3, <2>1, <2>2, BlockReadKeeps
<1>5. PICK d : /\ conn' = [conn EXCEPT ![p] = d] /\ RecordOK(d) /\ OwedOK(d)
               /\ Ordered(d, Anchors, Links, head) /\ d.requested = c0.requested \ {b}
  <2>1. CASE conn' = [conn EXCEPT ![p] = c]
    BY <1>3, <1>4, <2>1
  <2>2. CASE conn' = [conn EXCEPT ![p] = FetchIds(c, TRUE)]
    <3>0. TRUE \in BOOLEAN
      OBVIOUS
    <3> DEFINE d == FetchIds(c, TRUE)
    <3>1. RecordOK(d) /\ OwedOK(d) /\ Ordered(d, Anchors, Links, head) /\ d.requested = c.requested
      BY <1>4, <3>0, FetchIdsKeeps
    <3>2. conn' = [conn EXCEPT ![p] = d]
      BY <2>2
    <3> HIDE DEF d
    <3> QED
      BY <1>3, <3>1, <3>2
  <2> QED
    BY <1>1, <2>1, <2>2
<1>6. /\ active = UNION {conn[q].requested : q \in Peers}
      /\ \A q \in Peers \ {p} : conn[q].requested \cap c0.requested = {}
  BY <1>0 DEF PeersOK
<1>7. active' = (active \ conn[p].requested) \cup d.requested
  BY <1>1, <1>5, <1>6
<1>8. \A q \in Peers \ {p} : conn[q].requested \cap d.requested = {}
  BY <1>5, <1>6
<1>9. PeersOK'
  BY <1>0, <1>1, <1>5, <1>7, <1>8, OneRequest
<1>10. DbOK'
  BY <1>0, <1>1, SameDb
<1>11. active' \subseteq Blocks /\ received' \subseteq Blocks
  BY <1>0, <1>1, <1>4 DEF VarsOK
<1>12. VarsOK'
  BY <1>0, <1>1, <1>2, <1>11 DEF VarsOK
<1> QED
  BY <1>9, <1>10, <1>12 DEF Inv

-----------------------------------------------------------------------------
(* Steps that push a block *)

LEMMA PushStep ==
  ASSUME VarsOK, DbOK, NEW b \in Blocks, PushResult(b) = "ok", Push(b), recent' = recent \cup {b}
  PROVE  /\ head' \in Blocks /\ head' # Genesis /\ known' \subseteq Blocks
         /\ recent' \subseteq Blocks \cup {Genesis}
         /\ Settled \subseteq Settled' /\ b \in Settled'
         /\ InOrder' => DbOK'
<1>1. /\ head' \in Blocks /\ known' \subseteq Blocks
      /\ Settled \subseteq Settled' /\ b \in Settled'
      /\ ToSet(Chain(head)') \subseteq known'
      /\ \A x \in known' : Parent[x] \in Settled'
  BY PushSettles
<1>2. head' # Genesis
  BY <1>1, ParentAssumption
<1>3. recent \subseteq Blocks \cup {Genesis} /\ recent \subseteq Settled
  BY DEF VarsOK, DbOK
<1>4. InOrder' => DbOK'
  BY <1>1, <1>2, <1>3 DEF DbOK
<1> QED
  BY <1>1, <1>2, <1>3, <1>4

LEMMA SameHandling ==
  ASSUME handling' = handling, Settled \subseteq Settled'
  PROVE  /\ InOrder => InOrder'
         /\ Anchors \subseteq Anchors' /\ Links \subseteq Links'
<1>1. InOrder => InOrder'
  BY DEF InOrder
<1>2. Anchors \subseteq Anchors'
  BY DEF Anchors
<1>3. Links \subseteq Links'
  BY <1>2 DEF Links
<1> QED
  BY <1>1, <1>2, <1>3

LEMMA TailHandling ==
  ASSUME handling \in Seq(Blocks), handling # << >>, handling' = Tail(handling),
         Settled \subseteq Settled', Head(handling) \in Settled'
  PROVE  /\ InOrder => InOrder'
         /\ Anchors \subseteq Anchors' /\ Links \subseteq Links'
<1>1. /\ Len(handling) \in Nat \ {0} /\ DOMAIN handling = 1..Len(handling) /\ Head(handling) = handling[1]
      /\ DOMAIN handling' = 1..(Len(handling) - 1)
      /\ \A k \in 1..(Len(handling) - 1) : handling'[k] = handling[k + 1]
  OBVIOUS
<1>2. \A j \in DOMAIN handling : handling[j] \in Settled' \/ (j - 1 \in DOMAIN handling' /\ handling'[j - 1] = handling[j])
  <2> SUFFICES ASSUME NEW j \in DOMAIN handling, j # 1
               PROVE  j - 1 \in DOMAIN handling' /\ handling'[j - 1] = handling[j]
    BY <1>1
  <2>1. j - 1 \in 1..(Len(handling) - 1) /\ (j - 1) + 1 = j
    BY <1>1
  <2> QED
    BY <1>1, <2>1
<1>3. Anchors \subseteq Anchors'
  <2>1. ASSUME NEW x \in ToSet(handling)
        PROVE  x \in Settled' \/ x \in ToSet(handling')
    <3>1. PICK j \in DOMAIN handling : x = handling[j]
      BY DEF ToSet
    <3> QED
      BY <1>2, <3>1 DEF ToSet
  <2> QED
    BY <2>1 DEF Anchors
<1>4. Links \subseteq Links'
  BY <1>3 DEF Links
<1>5. ASSUME InOrder, NEW i \in DOMAIN handling'
      PROVE  Parent[handling'[i]] \in Settled' \cup {handling'[j] : j \in 1..(i - 1)}
  <2>1. i + 1 \in DOMAIN handling /\ handling'[i] = handling[i + 1] /\ (i + 1) - 1 = i /\ i \in Nat
    BY <1>1
  <2>2. Parent[handling[i + 1]] \in Settled \cup {handling[j] : j \in 1..i}
    BY <1>5, <2>1 DEF InOrder
  <2>3. ASSUME NEW j \in 1..i
        PROVE  handling[j] \in Settled' \cup {handling'[k] : k \in 1..(i - 1)}
    <3>1. j \in DOMAIN handling
      BY <1>1, <2>1
    <3>2. CASE j = 1
      BY <1>1, <3>2
    <3>3. CASE j # 1
      <4>1. j - 1 \in 1..(i - 1) /\ j - 1 \in 1..(Len(handling) - 1) /\ (j - 1) + 1 = j
        BY <1>1, <2>1, <3>1, <3>3
      <4>2. handling'[j - 1] = handling[j]
        BY <1>1, <4>1
      <4> QED
        BY <4>1, <4>2
    <3> QED
      BY <3>2, <3>3
  <2>4. Parent[handling[i + 1]] \in Settled' \cup {handling'[k] : k \in 1..(i - 1)}
    BY <2>2, <2>3
  <2> QED
    BY <2>1, <2>4
<1>6. InOrder => InOrder'
  BY <1>5 DEF InOrder
<1> QED
  BY <1>3, <1>4, <1>6

LEMMA FinishPushInv ==
  ASSUME Inv, FinishPush
  PROVE  Inv'
<1> DEFINE b == Head(handling)
           guilty == {p \in Up : b \in conn[p].processing}
<1>0. VarsOK /\ DbOK /\ PeersOK
  BY DEF Inv
<1>1. /\ handling # << >> /\ handling' = Tail(handling) /\ backlogDue' = TRUE
      /\ UNCHANGED <<received, peerHead, drops, turn>>
      /\ \/ /\ PushResult(b) = "ok" /\ Push(b) /\ recent' = recent \cup {b}
            /\ conn' = [p \in Peers |-> Accepted(conn[p], b)]
            /\ UNCHANGED <<active, toFetch, fetchDue, itemsDue>>
         \/ /\ PushResult(b) # "ok"
            /\ Leave(conn, guilty, active, toFetch, fetchDue, itemsDue)
            /\ UNCHANGED <<head, known, recent>>
  BY DEF FinishPush, dbVars, others
<1>2. handling \in Seq(Blocks)
  BY <1>0 DEF VarsOK
<1>3. /\ b \in Blocks /\ handling' \in Seq(Blocks) /\ b = handling[1] /\ 1 \in DOMAIN handling
  BY <1>1, <1>2
<1>4. Parent[b] \in Settled
  <2>1. Parent[handling[1]] \in Settled \cup {handling[j] : j \in 1..(1 - 1)}
    BY <1>0, <1>3 DEF DbOK, InOrder
  <2>2. 1..(1 - 1) = {}
    OBVIOUS
  <2> QED
    BY <1>3, <2>1, <2>2
<1>5. backlogDue' \in BOOLEAN
  BY <1>1
<1>6. /\ \A q \in Peers : RecordOK(conn[q]) /\ OwedOK(conn[q]) /\ Ordered(conn[q], Anchors, Links, head)
      /\ active = UNION {conn[q].requested : q \in Peers}
      /\ \A x, y \in Peers : x # y => conn[x].requested \cap conn[y].requested = {}
      /\ InOrder
  BY <1>0 DEF PeersOK, DbOK
<1>7. CASE /\ PushResult(b) = "ok" /\ Push(b) /\ recent' = recent \cup {b}
           /\ conn' = [p \in Peers |-> Accepted(conn[p], b)]
           /\ UNCHANGED <<active, toFetch, fetchDue, itemsDue>>
  <2>1. /\ head' \in Blocks /\ head' # Genesis /\ known' \subseteq Blocks
        /\ recent' \subseteq Blocks \cup {Genesis}
        /\ Settled \subseteq Settled' /\ b \in Settled'
        /\ InOrder' => DbOK'
    BY <1>0, <1>3, <1>7, PushStep
  <2>2. InOrder' /\ Anchors \subseteq Anchors' /\ Links \subseteq Links'
    BY <1>1, <1>2, <1>6, <2>1, TailHandling
  <2>3. b \in Anchors' /\ Genesis \in Anchors'
    BY <2>1 DEF Anchors, Settled
  <2> DEFINE cn == [p \in Peers |-> Accepted(conn[p], b)]
  <2> HIDE DEF b
  <2>4. ASSUME NEW q \in Peers
        PROVE  /\ RecordOK(cn[q]) /\ OwedOK(cn[q]) /\ Ordered(cn[q], Anchors', Links', head')
               /\ cn[q].requested = conn[q].requested
    <3>1. Ordered(conn[q], Anchors', Links', head')
      BY <1>6, <2>1, <2>2, OrderedMore
    <3>2. cn[q] = Accepted(conn[q], b)
      OBVIOUS
    <3> QED
      BY <1>3, <1>6, <2>1, <2>3, <3>1, <3>2, AcceptedKeeps
  <2>5. conn' = [q \in Peers |-> cn[q]]
    BY <1>7
  <2> HIDE DEF cn
  <2>6. active' = UNION {cn[q].requested : q \in Peers}
    BY <1>6, <1>7, <2>4
  <2>7. \A x, y \in Peers : x # y => cn[x].requested \cap cn[y].requested = {}
    BY <1>6, <2>4
  <2>8. PeersOK'
    BY <2>4, <2>5, <2>6, <2>7, NewRecords
  <2>9. VarsOK'
    BY <1>0, <1>1, <1>3, <1>5, <1>7, <2>1 DEF VarsOK
  <2> QED
    BY <2>1, <2>2, <2>8, <2>9 DEF Inv
<1>8. CASE /\ PushResult(b) # "ok"
           /\ Leave(conn, guilty, active, toFetch, fetchDue, itemsDue)
           /\ UNCHANGED <<head, known, recent>>
  <2>1. Settled' = Settled
    BY <1>8 DEF Settled, Lost, Included, CommonNum, NonUndoable, Chain
  <2>2. b \in Settled
    BY <1>0, <1>3, <1>4, <1>8, FailedIsSettled
  <2>3. InOrder' /\ Anchors \subseteq Anchors' /\ Links \subseteq Links'
    BY <1>1, <1>2, <1>6, <2>1, <2>2, TailHandling
  <2>4. DbOK'
    <3>1. Chain(head)' = Chain(head)
      BY <1>8 DEF Chain
    <3> QED
      BY <1>0, <1>8, <2>1, <2>3, <3>1 DEF DbOK
  <2>5. guilty \in SUBSET Peers
    BY DEF Up
  <2> HIDE DEF guilty, b
  <2>6. \A q \in Peers : RecordOK(conn[q]) /\ OwedOK(conn[q]) /\ Ordered(conn[q], Anchors', Links', head')
    <3> SUFFICES ASSUME NEW q \in Peers
                 PROVE  RecordOK(conn[q]) /\ OwedOK(conn[q]) /\ Ordered(conn[q], Anchors', Links', head')
      OBVIOUS
    <3>1. head' = head
      BY <1>8
    <3> QED
      BY <1>6, <2>3, <3>1, OrderedMore
  <2>7. PeersOK' /\ toFetch' \in Seq(Blocks) /\ active' \subseteq Blocks
    <3>1. /\ conn' = [p \in Peers |-> IF p \in guilty THEN Closed ELSE conn[p]]
          /\ active' = active \ UNION {conn[p].requested : p \in guilty}
          /\ toFetch' = toFetch \o SetToSeq({x \in UNION {conn[p].wanted : p \in guilty} :
                                                \E q \in Peers \ guilty : x \in conn[q].theirs})
      BY <1>8 DEF Leave
    <3>2. toFetch \in Seq(Blocks)
      BY <1>0 DEF VarsOK
    <3> QED
      BY <1>6, <2>5, <2>6, <3>1, <3>2, Leaving
  <2>8. fetchDue' \in BOOLEAN
    BY <1>8 DEF Leave
  <2>9. itemsDue' \in BOOLEAN
    BY <1>8 DEF Leave
  <2>10. VarsOK'
    BY <1>0, <1>1, <1>3, <1>5, <1>8, <2>7, <2>8, <2>9 DEF VarsOK
  <2> QED
    BY <2>4, <2>7, <2>10 DEF Inv
<1> QED
  BY <1>1, <1>7, <1>8

(* A block that follows an anchored one goes to the application. *)
LEMMA AppendHandling ==
  ASSUME VarsOK, DbOK, NEW b \in Links, handling' = Append(handling, b), UNCHANGED <<head, known, recent>>
  PROVE  /\ DbOK' /\ handling' \in Seq(Blocks)
         /\ Anchors \subseteq Anchors' /\ Links \subseteq Links' /\ b \in Anchors'
<1>1. b \in Blocks /\ Parent[b] \in Settled \cup ToSet(handling)
  BY DEF Links, Anchors
<1>2. handling \in Seq(Blocks)
  BY DEF VarsOK
<1>3. /\ handling' \in Seq(Blocks) /\ Len(handling) \in Nat /\ DOMAIN handling = 1..Len(handling)
      /\ DOMAIN handling' = 1..(Len(handling) + 1) /\ handling'[Len(handling) + 1] = b
      /\ \A k \in 1..Len(handling) : handling'[k] = handling[k]
  BY <1>1, <1>2
<1>4. Settled' = Settled
  BY DEF Settled, Lost, Included, CommonNum, NonUndoable, Chain
<1>5. ToSet(handling) \subseteq ToSet(handling') /\ b \in ToSet(handling')
  <2>1. \A k \in DOMAIN handling : k \in DOMAIN handling' /\ handling'[k] = handling[k]
    BY <1>3
  <2>2. Len(handling) + 1 \in DOMAIN handling'
    BY <1>3
  <2> QED
    BY <1>3, <2>1, <2>2 DEF ToSet
<1>6. Anchors \subseteq Anchors' /\ b \in Anchors'
  BY <1>4, <1>5 DEF Anchors
<1>7. Links \subseteq Links'
  BY <1>6 DEF Links
<1>8. ASSUME NEW i \in DOMAIN handling'
      PROVE  Parent[handling'[i]] \in Settled' \cup {handling'[j] : j \in 1..(i - 1)}
  <2>1. CASE i = Len(handling) + 1
    <3>1. i - 1 = Len(handling)
      BY <1>3, <2>1
    <3>2. ToSet(handling) = {handling'[j] : j \in 1..Len(handling)}
      BY <1>3 DEF ToSet
    <3> QED
      BY <1>1, <1>3, <1>4, <2>1, <3>1, <3>2
  <2>2. CASE i # Len(handling) + 1
    <3>1. i \in 1..Len(handling) /\ \A j \in 1..(i - 1) : j \in 1..Len(handling)
      BY <1>3, <2>2
    <3>2. Parent[handling[i]] \in Settled \cup {handling[j] : j \in 1..(i - 1)}
      BY <1>3, <3>1 DEF DbOK, InOrder
    <3>3. {handling[j] : j \in 1..(i - 1)} = {handling'[j] : j \in 1..(i - 1)}
      BY <1>3, <3>1
    <3> QED
      BY <1>3, <1>4, <3>1, <3>2, <3>3
  <2> QED
    BY <2>1, <2>2
<1>9. InOrder'
  BY <1>8 DEF InOrder
<1>10. DbOK'
  <2>1. Chain(head)' = Chain(head)
    BY DEF Chain
  <2> QED
    BY <1>4, <1>9, <2>1 DEF DbOK
<1> QED
  BY <1>3, <1>6, <1>7, <1>10

LEMMA ProcessBacklogInv ==
  ASSUME Inv, ProcessBacklog
  PROVE  Inv'
<1>0. VarsOK /\ DbOK /\ PeersOK
  BY DEF Inv
<1>1. UNCHANGED <<head, known, peerHead, active, recent, toFetch, itemsDue, drops>>
  BY DEF ProcessBacklog, dbVars
<1>2. /\ \A q \in Peers : RecordOK(conn[q]) /\ OwedOK(conn[q]) /\ Ordered(conn[q], Anchors, Links, head)
      /\ active = UNION {conn[q].requested : q \in Peers}
      /\ \A x, y \in Peers : x # y => conn[x].requested \cap conn[y].requested = {}
  BY <1>0 DEF PeersOK
<1>4. \/ /\ fetchDue' \in BOOLEAN /\ backlogDue' \in BOOLEAN /\ turn' = "none"
         /\ UNCHANGED <<conn, received, handling>>
      \/ \E b \in received \cap Fronts :
            /\ conn' = [p \in Peers |-> PopFront(conn[p], b)]
            /\ received' = received \ {b}
            /\ handling' = Append(handling, b)
            /\ turn' = "backlog"
            /\ UNCHANGED <<backlogDue, fetchDue>>
      \/ \E b \in received \cap Fronts :
            /\ b \in recent
            /\ conn' = [p \in Peers |->
                          LET c == PopFront(conn[p], b)
                          IN  IF b \in c.processing
                              THEN FetchIfAllDone([c EXCEPT !.processing = @ \ {b}]) ELSE c]
            /\ fetchDue' \in BOOLEAN /\ backlogDue' \in BOOLEAN /\ turn' = "none"
            /\ UNCHANGED <<received, handling>>
  <2>1. /\ EndBacklog(turn = "backlog") => fetchDue' \in BOOLEAN /\ backlogDue' \in BOOLEAN /\ turn' = "none"
        /\ EndBacklog(TRUE) => fetchDue' \in BOOLEAN /\ backlogDue' \in BOOLEAN /\ turn' = "none"
    BY DEF EndBacklog
  <2> QED
    BY <2>1 DEF ProcessBacklog
<1>5. CASE /\ fetchDue' \in BOOLEAN /\ backlogDue' \in BOOLEAN /\ turn' = "none"
           /\ UNCHANGED <<conn, received, handling>>
  <2>1. PeersOK' /\ DbOK'
    BY <1>0, <1>1, <1>5, SamePeers, SameDb
  <2>2. VarsOK'
    BY <1>0, <1>1, <1>5 DEF VarsOK
  <2> QED
    BY <2>1, <2>2 DEF Inv
<1>6. ASSUME NEW b \in received \cap Fronts
      PROVE  b \in Blocks /\ b \in Links
  <2>1. b \in Blocks
    BY <1>0 DEF VarsOK
  <2>2. PICK q \in Up : conn[q].toGet # << >> /\ b = conn[q].toGet[1]
    BY DEF Fronts
  <2>3. conn[q].toGet[1] \in Links
    BY <1>2, <2>2 DEF Up, Ordered
  <2> QED
    BY <2>1, <2>2, <2>3
<1>7. ASSUME NEW b \in received \cap Fronts,
             conn' = [p \in Peers |-> PopFront(conn[p], b)],
             received' = received \ {b}, handling' = Append(handling, b),
             turn' = "backlog", UNCHANGED <<backlogDue, fetchDue>>
      PROVE  Inv'
  <2>1. b \in Blocks /\ b \in Links
    BY <1>6
  <2>2. /\ DbOK' /\ handling' \in Seq(Blocks)
        /\ Anchors \subseteq Anchors' /\ Links \subseteq Links' /\ b \in Anchors'
    BY <1>0, <1>1, <1>7, <2>1, AppendHandling
  <2>3. \A x \in Blocks : Parent[x] \in Anchors' => x \in Links'
    BY DEF Links
  <2> DEFINE cn == [p \in Peers |-> PopFront(conn[p], b)]
  <2>4. ASSUME NEW q \in Peers
        PROVE  /\ RecordOK(cn[q]) /\ OwedOK(cn[q]) /\ Ordered(cn[q], Anchors', Links', head')
               /\ cn[q].requested = conn[q].requested
    <3>1. Ordered(conn[q], Anchors', Links', head')
      BY <1>1, <1>2, <2>2, OrderedMore
    <3>2. cn[q] = PopFront(conn[q], b)
      OBVIOUS
    <3> QED
      BY <1>2, <2>1, <2>2, <2>3, <3>1, <3>2, PopFrontKeeps
  <2>5. conn' = [q \in Peers |-> cn[q]]
    BY <1>7
  <2> HIDE DEF cn
  <2>6. active' = UNION {cn[q].requested : q \in Peers}
    BY <1>1, <1>2, <2>4
  <2>7. \A x, y \in Peers : x # y => cn[x].requested \cap cn[y].requested = {}
    BY <1>2, <2>4
  <2>8. PeersOK'
    BY <2>4, <2>5, <2>6, <2>7, NewRecords
  <2>9. VarsOK'
    BY <1>0, <1>1, <1>7, <2>2 DEF VarsOK
  <2> QED
    BY <2>2, <2>8, <2>9 DEF Inv
<1>8. ASSUME NEW b \in received \cap Fronts, b \in recent,
             conn' = [p \in Peers |->
                          LET c == PopFront(conn[p], b)
                          IN  IF b \in c.processing
                              THEN FetchIfAllDone([c EXCEPT !.processing = @ \ {b}]) ELSE c],
             fetchDue' \in BOOLEAN, backlogDue' \in BOOLEAN, turn' = "none",
             UNCHANGED <<received, handling>>
      PROVE  Inv'
  <2>1. b \in Blocks /\ b # Genesis
    BY <1>6, ParentAssumption
  <2>2. head # Genesis /\ b \in Anchors
    BY <1>0, <1>8, <2>1, KnownAnchored DEF DbOK
  <2>3. Anchors' = Anchors /\ Links' = Links /\ head' = head /\ DbOK'
    BY <1>0, <1>1, <1>8, SameDb
  <2>4. \A x \in Blocks : Parent[x] \in Anchors => x \in Links
    BY GenesisAnchored
  <2> DEFINE Done(c) == [c EXCEPT !.processing = @ \ {b}]
             cn == [p \in Peers |-> IF b \in PopFront(conn[p], b).processing
                                    THEN FetchIfAllDone(Done(PopFront(conn[p], b)))
                                    ELSE PopFront(conn[p], b)]
  <2>5. conn' = [q \in Peers |-> cn[q]]
    BY <1>8
  <2>6. ASSUME NEW q \in Peers
        PROVE  /\ RecordOK(cn[q]) /\ OwedOK(cn[q]) /\ Ordered(cn[q], Anchors', Links', head')
               /\ cn[q].requested = conn[q].requested
    <3> DEFINE c == PopFront(conn[q], b)
               d == Done(c)
    <3>1. /\ RecordOK(c) /\ OwedOK(c) /\ c.requested = conn[q].requested
          /\ Ordered(c, Anchors, Links, head)
      BY <1>2, <2>1, <2>2, <2>4, PopFrontKeeps
    <3>2. cn[q] = IF b \in c.processing THEN FetchIfAllDone(d) ELSE c
      OBVIOUS
    <3> HIDE DEF c, cn
    <3>3. CASE b \notin c.processing
      BY <2>3, <3>1, <3>2, <3>3
    <3>4. CASE b \in c.processing
      <4>1. c.up /\ DOMAIN c = Fields
        BY <3>1, <3>4, ClosedOK DEF RecordOK
      <4>2. /\ DOMAIN d = Fields /\ d.processing = c.processing \ {b} /\ d.seen = c.seen
            /\ \A f \in Fields \ {"processing", "seen"} : d[f] = c[f]
        BY <4>1 DEF Fields
      <4>3. cn[q] = FetchIfAllDone(d)
        BY <3>2, <3>4
      <4> HIDE DEF d
      <4>4. /\ RecordOK(d) /\ d.up /\ d.requested = c.requested /\ OwedOK(d)
            /\ Ordered(d, Anchors, Links, head)
        BY <2>1, <2>2, <3>1, <4>1, <4>2, DoneKeeps
      <4>5. /\ RecordOK(FetchIfAllDone(d)) /\ FetchIfAllDone(d).requested = d.requested
            /\ OwedOK(FetchIfAllDone(d)) /\ Ordered(FetchIfAllDone(d), Anchors, Links, head)
        BY <2>2, <4>4, FetchIfAllDoneKeeps
      <4> QED
        BY <2>3, <3>1, <4>3, <4>4, <4>5
    <3> QED
      BY <3>3, <3>4
  <2> HIDE DEF cn
  <2>7. active' = UNION {cn[q].requested : q \in Peers}
    BY <1>1, <1>2, <2>6
  <2>8. \A x, y \in Peers : x # y => cn[x].requested \cap cn[y].requested = {}
    BY <1>2, <2>6
  <2>9. PeersOK'
    BY <2>5, <2>6, <2>7, <2>8, NewRecords
  <2>10. VarsOK'
    BY <1>0, <1>1, <1>8 DEF VarsOK
  <2> QED
    BY <2>3, <2>9, <2>10 DEF Inv
<1> QED
  BY <1>4, <1>5, <1>7, <1>8

(* Who has advertised b is noted to have it, and others are told of it. *)
LEMMA ToldKeeps ==
  ASSUME NEW c, RecordOK(c), OwedOK(c), NEW b \in Blocks,
         NEW d, \/ b \in c.theirs /\ d = [c EXCEPT !.seen = b]
                \/ c.up /\ d = [c EXCEPT !.ours = @ \cup {b}]
                \/ d = c
  PROVE  /\ RecordOK(d) /\ OwedOK(d) /\ d.requested = c.requested
         /\ \A A, L, h : Ordered(c, A, L, h) /\ b \in A => Ordered(d, A, L, h)
<1>0. DOMAIN c = Fields
  BY DEF RecordOK
<1>1. CASE d = c
  BY <1>1
<1>2. CASE b \in c.theirs /\ d = [c EXCEPT !.seen = b]
  <2>1. c.up
    BY <1>2, ClosedOK DEF RecordOK
  <2>2. DOMAIN d = Fields /\ d.seen = b /\ \A f \in Fields \ {"seen"} : d[f] = c[f]
    BY <1>0, <1>2 DEF Fields
  <2>3. /\ d.up = c.up /\ d.toGet = c.toGet /\ d.processing = c.processing /\ d.unfetched = c.unfetched
        /\ d.weNeed = c.weNeed /\ d.peerNeeds = c.peerNeeds /\ d.asked = c.asked
        /\ d.requested = c.requested /\ d.wanted = c.wanted /\ d.theirs = c.theirs /\ d.ours = c.ours
        /\ d.serves = c.serves /\ d.out = c.out /\ d.composing = c.composing /\ d.in = c.in
    BY <2>2 DEF Fields
  <2>4. RecordOK(d)
    BY <2>1, <2>2, <2>3 DEF RecordOK
  <2>5. OwedOK(d)
    BY <2>3, OwedSame
  <2>6. \A A, L, h : Ordered(c, A, L, h) /\ b \in A => Ordered(d, A, L, h)
    BY <2>2, <2>3, OrderedSame
  <2> QED
    BY <2>3, <2>4, <2>5, <2>6
<1>3. CASE c.up /\ d = [c EXCEPT !.ours = @ \cup {b}]
  <2>2. DOMAIN d = Fields /\ d.ours = c.ours \cup {b} /\ \A f \in Fields \ {"ours"} : d[f] = c[f]
    BY <1>0, <1>3 DEF Fields
  <2>3. /\ d.up = c.up /\ d.toGet = c.toGet /\ d.processing = c.processing /\ d.unfetched = c.unfetched
        /\ d.weNeed = c.weNeed /\ d.peerNeeds = c.peerNeeds /\ d.asked = c.asked /\ d.seen = c.seen
        /\ d.requested = c.requested /\ d.wanted = c.wanted /\ d.theirs = c.theirs
        /\ d.serves = c.serves /\ d.out = c.out /\ d.composing = c.composing /\ d.in = c.in
    BY <2>2 DEF Fields
  <2>4. RecordOK(d)
    BY <1>3, <2>2, <2>3 DEF RecordOK
  <2>5. OwedOK(d)
    BY <2>3, OwedSame
  <2>6. \A A, L, h : Ordered(c, A, L, h) => Ordered(d, A, L, h)
    BY <2>3, OrderedSame
  <2> QED
    BY <2>3, <2>4, <2>5, <2>6
<1> QED
  BY <1>1, <1>2, <1>3

LEMMA OnNormalBlockInv ==
  ASSUME Inv, NEW p \in Peers, ~Handling(conn[p]), OnNormalBlock(p)
  PROVE  Inv'
<1> DEFINE c0 == conn[p]
           b == Head(c0.in).block
           c == [Got(c0) EXCEPT !.wanted = @ \ {b}]
           cn == [conn EXCEPT ![p] = c]
           idle == Idle(c)
           told == [q \in Peers |->
                      IF b \in cn[q].theirs THEN [cn[q] EXCEPT !.seen = b]
                      ELSE IF cn[q].up /\ ~cn[q].peerNeeds THEN [cn[q] EXCEPT !.ours = @ \cup {b}]
                      ELSE cn[q]]
           restarted == [cn EXCEPT ![p] = StartSync(c, TRUE)]
           guilty == {p} \cup {q \in Up : cn[q].toGet # << >> /\ cn[q].toGet[1] = b}
           none == {}
<1>0. VarsOK /\ DbOK /\ PeersOK
  BY DEF Inv
<1>1. /\ c0.in # << >> /\ Head(c0.in).type = "block"
      /\ UNCHANGED <<received, handling, backlogDue, peerHead, drops, turn>>
      /\ \/ /\ b \in recent \/ PushResult(b) = "ok"
            /\ IF b \in recent THEN UNCHANGED <<head, known>> ELSE Push(b)
            /\ recent' = recent \cup {b}
            /\ Leave(told, {}, active, toFetch, fetchDue, itemsDue \/ idle)
         \/ /\ Leave(restarted, {}, active, toFetch, fetchDue, itemsDue \/ idle)
            /\ UNCHANGED <<head, known, recent>>
         \/ /\ Leave(cn, guilty, active, toFetch, fetchDue, itemsDue)
            /\ UNCHANGED <<head, known, recent>>
  BY DEF OnNormalBlock, dbVars, others
<1>2. /\ \A q \in Peers : RecordOK(conn[q]) /\ OwedOK(conn[q]) /\ Ordered(conn[q], Anchors, Links, head)
      /\ active = UNION {conn[q].requested : q \in Peers}
      /\ \A x, y \in Peers : x # y => conn[x].requested \cap conn[y].requested = {}
      /\ DOMAIN conn = Peers
  BY <1>0 DEF PeersOK
<1>3. fetchDue' \in BOOLEAN
  <2> HIDE DEF told, restarted, cn, guilty, idle
  <2> QED
    BY <1>1 DEF Leave
<1>4. itemsDue' \in BOOLEAN
  <2> HIDE DEF told, restarted, cn, guilty, idle
  <2> QED
    BY <1>1 DEF Leave
<1>5. /\ DOMAIN c = Fields /\ c.in = Tail(c0.in) /\ c.wanted = c0.wanted \ {b}
      /\ \A f \in Fields \ {"in", "wanted"} : c[f] = c0[f]
  <2>1. DOMAIN c0 = Fields
    BY <1>2 DEF RecordOK
  <2> HIDE DEF b
  <2> QED
    BY <2>1 DEF Got, Fields
<1>6. /\ RecordOK(c) /\ c.up /\ OwedOK(c) /\ b \in Blocks /\ c.composing = c0.composing
      /\ c.requested = c0.requested /\ Ordered(c, Anchors, Links, head)
  <2> HIDE DEF c, b
  <2>1. c.requested = c0.requested /\ \A f \in Fields \ {"in", "requested", "wanted"} : c[f] = c0[f]
    BY <1>5 DEF Fields
  <2>2. IsBlock(Head(c0.in)) /\ b = Head(c0.in).block
    BY <1>1 DEF IsBlock, b
  <2>3. RecordOK(c0) /\ OwedOK(c0) /\ Ordered(c0, Anchors, Links, head) /\ c0.in # << >>
    BY <1>1, <1>2
  <2> HIDE DEF c0
  <2>4. /\ RecordOK(c) /\ c.up /\ OwedOK(c) /\ b \in Blocks /\ c.composing = c0.composing
        /\ \A A, L, h : Ordered(c0, A, L, h) => Ordered(c, A, L, h)
    BY <1>5, <2>1, <2>2, <2>3, BlockReadKeeps
  <2> QED
    BY <2>1, <2>3, <2>4
<1>7. ~Handling(c)
  <2> HIDE DEF c
  <2> QED
    BY <1>6 DEF Handling
<1>8. \A q \in Peers : cn[q] = IF q = p THEN c ELSE conn[q]
  BY <1>2
<1> HIDE DEF c, cn, b
<1>9. \A q \in Peers : /\ RecordOK(cn[q]) /\ OwedOK(cn[q]) /\ Ordered(cn[q], Anchors, Links, head)
                       /\ cn[q].requested = conn[q].requested
  <2> SUFFICES ASSUME NEW q \in Peers
               PROVE  /\ RecordOK(cn[q]) /\ OwedOK(cn[q]) /\ Ordered(cn[q], Anchors, Links, head)
                      /\ cn[q].requested = conn[q].requested
    OBVIOUS
  <2>1. CASE q = p
    BY <1>6, <1>8, <2>1
  <2>2. CASE q # p
    BY <1>2, <1>8, <2>2
  <2> QED
    BY <2>1, <2>2
<1>10. toFetch \in Seq(Blocks) /\ recent \subseteq Settled /\ InOrder /\ recent \subseteq Blocks \cup {Genesis}
  BY <1>0 DEF VarsOK, DbOK
(* Every branch leaves records that satisfy the invariant. *)
<1>11. ASSUME NEW dn, NEW gone \in SUBSET Peers, DbOK',
              head' \in Blocks \cup {Genesis}, known' \subseteq Blocks, recent' \subseteq Blocks \cup {Genesis},
              conn' = [q \in Peers |-> IF q \in gone THEN Closed ELSE dn[q]],
              active' = active \ UNION {dn[q].requested : q \in gone},
              toFetch' = toFetch \o SetToSeq({x \in UNION {dn[q].wanted : q \in gone} :
                                                 \E q \in Peers \ gone : x \in dn[q].theirs}),
              \A q \in Peers : /\ RecordOK(dn[q]) /\ OwedOK(dn[q]) /\ Ordered(dn[q], Anchors', Links', head')
                               /\ dn[q].requested = conn[q].requested
       PROVE  Inv'
  <2>0. \A q \in Peers : dn[q].requested = conn[q].requested
    BY <1>11
  <2>1. active = UNION {dn[q].requested : q \in Peers}
    BY <1>2, <2>0
  <2>2. \A x, y \in Peers : x # y => dn[x].requested \cap dn[y].requested = {}
    BY <1>2, <1>11
  <2>3. PeersOK' /\ toFetch' \in Seq(Blocks) /\ active' \subseteq Blocks
    BY <1>10, <1>11, <2>1, <2>2, Leaving
  <2>4. VarsOK'
    BY <1>0, <1>1, <1>3, <1>4, <1>11, <2>3 DEF VarsOK
  <2> QED
    BY <1>11, <2>3, <2>4 DEF Inv
<1>12. CASE /\ b \in recent \/ PushResult(b) = "ok"
            /\ IF b \in recent THEN UNCHANGED <<head, known>> ELSE Push(b)
            /\ recent' = recent \cup {b}
            /\ Leave(told, {}, active, toFetch, fetchDue, itemsDue \/ idle)
  <2>1. /\ head' \in Blocks \cup {Genesis} /\ known' \subseteq Blocks /\ recent' \subseteq Blocks \cup {Genesis}
        /\ Settled \subseteq Settled' /\ b \in Settled' /\ DbOK' /\ (head' = Genesis => head = Genesis)
    <3>1. CASE b \in recent
      <4>1. UNCHANGED <<head, known, handling, recent>>
        BY <1>1, <1>12, <3>1
      <4>2. Settled' = Settled
        BY <4>1 DEF Settled, Lost, Included, CommonNum, NonUndoable, Chain
      <4>3. DbOK'
        BY <1>0, <4>1, SameDb
      <4> QED
        BY <1>0, <1>10, <3>1, <4>1, <4>2, <4>3 DEF VarsOK
    <3>2. CASE b \notin recent
      <4>1. /\ head' \in Blocks /\ head' # Genesis /\ known' \subseteq Blocks
            /\ recent' \subseteq Blocks \cup {Genesis}
            /\ Settled \subseteq Settled' /\ b \in Settled'
            /\ InOrder' => DbOK'
        BY <1>0, <1>6, <1>12, <3>2, PushStep
      <4>2. InOrder'
        BY <1>1, <1>10, <4>1, SameHandling
      <4> QED
        BY <4>1, <4>2
    <3> QED
      BY <3>1, <3>2
  <2>2. Anchors \subseteq Anchors' /\ Links \subseteq Links' /\ b \in Anchors'
    BY <1>1, <2>1, SameHandling DEF Anchors
  <2>3. ASSUME NEW q \in Peers
        PROVE  /\ RecordOK(told[q]) /\ OwedOK(told[q]) /\ Ordered(told[q], Anchors', Links', head')
               /\ told[q].requested = conn[q].requested
    <3>1. \/ b \in cn[q].theirs /\ told[q] = [cn[q] EXCEPT !.seen = b]
          \/ cn[q].up /\ told[q] = [cn[q] EXCEPT !.ours = @ \cup {b}]
          \/ told[q] = cn[q]
      OBVIOUS
    <3> HIDE DEF told
    <3>2. Ordered(cn[q], Anchors', Links', head')
      BY <1>9, <2>1, <2>2, OrderedMore
    <3> QED
      BY <1>6, <1>9, <2>2, <3>1, <3>2, ToldKeeps
  <2> HIDE DEF told
  <2>4. /\ conn' = [q \in Peers |-> IF q \in none THEN Closed ELSE told[q]]
        /\ active' = active \ UNION {told[q].requested : q \in none}
        /\ toFetch' = toFetch \o SetToSeq({x \in UNION {told[q].wanted : q \in none} :
                                              \E q \in Peers \ none : x \in told[q].theirs})
    BY <1>12 DEF Leave
  <2>5. none \in SUBSET Peers
    OBVIOUS
  <2> HIDE DEF none
  <2> QED
    BY <1>11, <2>1, <2>3, <2>4, <2>5
<1>13. CASE /\ Leave(restarted, {}, active, toFetch, fetchDue, itemsDue \/ idle)
            /\ UNCHANGED <<head, known, recent>>
  <2>1. Anchors' = Anchors /\ Links' = Links /\ head' = head /\ DbOK'
    BY <1>0, <1>1, <1>13, SameDb
  <2>2. TRUE \in BOOLEAN
    OBVIOUS
  <2>3. /\ RecordOK(StartSync(c, TRUE)) /\ OwedOK(StartSync(c, TRUE))
        /\ Ordered(StartSync(c, TRUE), Anchors, Links, head)
        /\ StartSync(c, TRUE).requested = conn[p].requested
    BY <1>6, <1>7, <2>2, StartSyncKeeps, GenesisAnchored
  <2>4. \A q \in Peers : restarted[q] = IF q = p THEN StartSync(c, TRUE) ELSE cn[q]
    BY <1>2 DEF cn
  <2> HIDE DEF restarted
  <2>5. ASSUME NEW q \in Peers
        PROVE  /\ RecordOK(restarted[q]) /\ OwedOK(restarted[q])
               /\ Ordered(restarted[q], Anchors', Links', head')
               /\ restarted[q].requested = conn[q].requested
    <3>1. CASE q = p
      BY <2>1, <2>3, <2>4, <3>1
    <3>2. CASE q # p
      BY <1>9, <2>1, <2>4, <3>2
    <3> QED
      BY <3>1, <3>2
  <2>6. /\ conn' = [q \in Peers |-> IF q \in none THEN Closed ELSE restarted[q]]
        /\ active' = active \ UNION {restarted[q].requested : q \in none}
        /\ toFetch' = toFetch \o SetToSeq({x \in UNION {restarted[q].wanted : q \in none} :
                                              \E q \in Peers \ none : x \in restarted[q].theirs})
    BY <1>13 DEF Leave
  <2>7. none \in SUBSET Peers
    OBVIOUS
  <2> HIDE DEF none
  <2>8. head' \in Blocks \cup {Genesis} /\ known' \subseteq Blocks /\ recent' \subseteq Blocks \cup {Genesis}
    BY <1>0, <1>13 DEF VarsOK
  <2> QED
    BY <1>11, <2>1, <2>5, <2>6, <2>7, <2>8
<1>14. CASE /\ Leave(cn, guilty, active, toFetch, fetchDue, itemsDue)
            /\ UNCHANGED <<head, known, recent>>
  <2>1. Anchors' = Anchors /\ Links' = Links /\ head' = head /\ DbOK'
    BY <1>0, <1>1, <1>14, SameDb
  <2>2. guilty \in SUBSET Peers
    BY DEF Up
  <2> HIDE DEF guilty
  <2>3. /\ conn' = [q \in Peers |-> IF q \in guilty THEN Closed ELSE cn[q]]
        /\ active' = active \ UNION {cn[q].requested : q \in guilty}
        /\ toFetch' = toFetch \o SetToSeq({x \in UNION {cn[q].wanted : q \in guilty} :
                                              \E q \in Peers \ guilty : x \in cn[q].theirs})
    BY <1>14 DEF Leave
  <2>4. \A q \in Peers : /\ RecordOK(cn[q]) /\ OwedOK(cn[q]) /\ Ordered(cn[q], Anchors', Links', head')
                         /\ cn[q].requested = conn[q].requested
    BY <1>9, <2>1
  <2>5. head' \in Blocks \cup {Genesis} /\ known' \subseteq Blocks /\ recent' \subseteq Blocks \cup {Genesis}
    BY <1>0, <1>14 DEF VarsOK
  <2> QED
    BY <1>11, <2>1, <2>2, <2>3, <2>4, <2>5
<1> HIDE DEF told, restarted, guilty, idle
<1> QED
  BY <1>1, <1>12, <1>13, <1>14

-----------------------------------------------------------------------------
(* The theorems *)

(* The inductive invariant: every operation of the node and every step of  *)
(* its peers keeps the records in order.                                   *)
THEOREM SyncInvariant ==
  Spec => []Inv
<1>1. Init => Inv
  BY InitInv
<1>2. Inv /\ [Next]_vars => Inv'
  <2> SUFFICES ASSUME Inv, [Next]_vars PROVE Inv'
    OBVIOUS
  <2>1. CASE UNCHANGED vars
    <3>1. UNCHANGED <<conn, active, head, known, handling, recent>>
      BY <2>1 DEF vars
    <3>2. PeersOK' /\ DbOK'
      BY <3>1, SamePeers, SameDb DEF Inv
    <3>3. VarsOK'
      BY <2>1 DEF vars, Inv, VarsOK
    <3> QED
      BY <3>2, <3>3 DEF Inv
  <2>2. ASSUME NEW p \in Peers, Connect(p) PROVE Inv'
    BY <2>2, ConnectInv
  <2>3. ASSUME NEW p \in Peers, Drop(p) \/ TerminateStalled(p) PROVE Inv'
    BY <2>3, DropInv
  <2>4. ASSUME NEW p \in Peers, SendRequest(p) PROVE Inv'
    BY <2>4, SendRequestInv
  <2>5. ASSUME NEW p \in Peers, PeerAnswers(p) PROVE Inv'
    BY <2>5, PeerAnswersInv
  <2>6. ASSUME NEW p \in Peers, OnMessage(p) PROVE Inv'
    BY <2>6, OnBlockIdsInv, OnFetchIdsInv, OnInventoryInv, OnSyncBlockInv, OnNormalBlockInv DEF OnMessage
  <2>7. ASSUME NEW p \in Peers, (\E b \in Blocks : PeerGrows(p, b) \/ PeerSwitches(p, b)) \/ PeerFollows(p)
        PROVE  Inv'
    BY <2>7, PeerChainsInv
  <2>8. CASE FetchSyncItems
    BY <2>8, FetchSyncItemsInv
  <2>9. CASE FetchItems
    BY <2>9, FetchItemsInv
  <2>10. CASE ProcessBacklog
    BY <2>10, ProcessBacklogInv
  <2>11. CASE FinishPush
    BY <2>11, FinishPushInv
  <2> QED
    BY <2>1, <2>2, <2>3, <2>4, <2>5, <2>6, <2>7, <2>8, <2>9, <2>10, <2>11 DEF Next
<1> QED
  BY <1>1, <1>2, PTL DEF Spec

(* Every variable of the node and every field of its record of a peer      *)
(* keeps its type; in particular no block stands twice on the list of what *)
(* is to be got of a peer, however its replies overlap                     *)
(* (on_blockchain_item_ids_inventory_message_received).                    *)
THEOREM SyncTypes ==
  Spec => []TypeOK
<1>1. Inv => TypeOK
  <2> SUFFICES ASSUME Inv PROVE TypeOK
    OBVIOUS
  <2>1. \A p \in Peers : PeerRecordOK(conn[p])
    <3> SUFFICES ASSUME NEW p \in Peers PROVE PeerRecordOK(conn[p])
      OBVIOUS
    <3>1. RecordOK(conn[p])
      BY OfPeer DEF Inv
    <3>2. conn[p].toGet \in Seq(Blocks) /\ IsInjective(conn[p].toGet)
      BY <3>1, SegmentType, SegmentInjective DEF RecordOK
    <3>3. conn[p].composing \in Seq(Requests)
      <4>1. PieceRequests \subseteq Requests
        BY SegmentType DEF PieceRequests, Requests, BlockLists
      <4>2. conn[p].composing \in Seq(PieceRequests)
        BY <3>1 DEF RecordOK
      <4> QED
        BY <4>1, <4>2
    <3> QED
      BY <3>1, <3>2, <3>3 DEF RecordOK, PeerRecordOK, BlockLists
  <2>2. VarsOK
    BY DEF Inv
  <2>3. {fetchDue, itemsDue, backlogDue} \subseteq BOOLEAN
    BY <2>2 DEF VarsOK
  <2> QED
    BY <2>1, <2>2, <2>3 DEF TypeOK, VarsOK, BlockLists
<1> QED
  BY <1>1, SyncInvariant, PTL

(* A block counts as requested exactly while one connected peer owes it,   *)
(* and no peer sends a block it was not asked for: process_block_message   *)
(* never disconnects a peer that follows the protocol for one.             *)
THEOREM RequestsOwed ==
  Spec => []RequestsAreOwed
<1>1. Inv => RequestsAreOwed
  <2> SUFFICES ASSUME Inv PROVE RequestsAreOwed
    OBVIOUS
  <2>1. /\ active = UNION {conn[p].requested : p \in Peers}
        /\ \A p, q \in Peers : p # q => conn[p].requested \cap conn[q].requested = {}
    BY DEF Inv, PeersOK
  <2>2. \A p \in Peers : OwedOK(conn[p])
    BY DEF Inv, PeersOK
  <2> QED
    BY <2>1, <2>2 DEF RequestsAreOwed, OwedOK, IsBlock
<1> QED
  BY <1>1, SyncInvariant, PTL

(* Every block on its way to the application follows one it has, one ahead *)
(* of it, or belongs to a branch that has gone out of reach: the parallel  *)
(* downloads of process_backlog_of_sync_blocks never push a block before   *)
(* its parent.                                                             *)
THEOREM PushOrder ==
  Spec => []PushedInOrder
<1>1. Inv => PushedInOrder
  BY OrderIsPushOrder DEF Inv
<1> QED
  BY <1>1, SyncInvariant, PTL
=============================================================================
