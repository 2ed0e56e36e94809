---------------------------- MODULE FoldTheorems ----------------------------
(***************************************************************************)
(* Facts about the folds of the community modules.  SumFunctionOnSet: what *)
(* the proofs need that balances, escrows and counters add up.  FoldLeft:  *)
(* the loops of the code are folds over its state.                         *)
(*                                                                         *)
(* The library's induction theorems take a predicate as a parameter, which *)
(* the provers cannot instantiate.  Here induction is stated with a set    *)
(* instead: the set of the numbers, or of the subsets, for which the       *)
(* predicate holds.  For the same reason the operator that FoldLeft folds  *)
(* is a constant of this module: a proof gets the theorems for an operator *)
(* of its own by instantiating the module.                                 *)
(***************************************************************************)
EXTENDS Integers, Sequences, Functions, FiniteSets, FiniteSetTheorems, WellFoundedInduction, TLAPS

CONSTANT Op(_, _)  \* what is done to the state with every element

(* A nonempty set of natural numbers has a least element. *)
LEMMA NatLeast ==
  ASSUME NEW G \in SUBSET Nat, G # {}
  PROVE  \E n \in G : \A m \in G : n <= m
<1>1. IsWellFoundedOn(OpToRel(<, Nat), Nat)
  BY NatLessThanWellFounded
<1>2. PICK n \in G : \A m \in G : ~ (<<m, n>> \in OpToRel(<, Nat))
  BY <1>1, WFMin
<1>3. \A m \in G : ~ (m < n)
  BY <1>2 DEF OpToRel
<1> QED
  BY <1>3

(* Induction over the natural numbers. *)
LEMMA NatSetInduction ==
  ASSUME NEW G \in SUBSET Nat, 0 \in G, \A n \in G : n + 1 \in G
  PROVE  \A n \in Nat : n \in G
<1>1. SUFFICES ASSUME Nat \ G # {} PROVE FALSE
  OBVIOUS
<1>2. PICK n \in Nat \ G : \A m \in Nat \ G : n <= m
  BY <1>1, NatLeast
<1>3. n # 0 /\ n - 1 \in Nat
  BY <1>2
<1>4. n - 1 \in G
  BY <1>2, <1>3
<1> QED
  BY <1>2, <1>3, <1>4

(* Induction over the subsets of a finite set. *)
LEMMA SubsetInduction ==
  ASSUME NEW S, IsFiniteSet(S), NEW G \in SUBSET (SUBSET S), {} \in G,
         \A T \in G, x \in S : x \notin T => T \cup {x} \in G
  PROVE  S \in G
<1> DEFINE N == {n \in Nat : \A T \in SUBSET S : Cardinality(T) = n => T \in G}
<1>1. 0 \in N
  <2> SUFFICES ASSUME NEW T \in SUBSET S, Cardinality(T) = 0 PROVE T \in G
    OBVIOUS
  <2> QED
    BY FS_EmptySet, FS_Subset
<1>2. \A n \in N : n + 1 \in N
  <2> SUFFICES ASSUME NEW n \in N, NEW T \in SUBSET S, Cardinality(T) = n + 1
               PROVE  T \in G
    OBVIOUS
  <2>1. IsFiniteSet(T) /\ T # {}
    BY FS_EmptySet, FS_Subset
  <2>2. PICK x \in T : TRUE
    BY <2>1
  <2>3. Cardinality(T \ {x}) = Cardinality(T) - 1
    BY <2>1, <2>2, FS_RemoveElement
  <2>4. T \ {x} \in G
    <3>1. n \in Nat /\ (n + 1) - 1 = n
      OBVIOUS
    <3>2. \A U \in SUBSET S : Cardinality(U) = n => U \in G
      OBVIOUS
    <3> HIDE DEF N
    <3> QED
      BY <2>3, <3>1, <3>2
  <2>5. (T \ {x}) \cup {x} = T
    OBVIOUS
  <2> QED
    BY <2>4, <2>5
<1>3. Cardinality(S) \in N
  BY <1>1, <1>2, NatSetInduction, FS_CardinalityType
<1> QED
  BY <1>3

-----------------------------------------------------------------------------
(* SumFunctionOnSet is the value at the whole set of a function defined by  *)
(* recursion on the subsets, which takes out one element at a time.         *)
Sums(f, S, g) ==
  g = [s \in SUBSET S |->
         IF s = {} THEN 0
         ELSE f[CHOOSE x \in s : TRUE] + g[s \ {CHOOSE x \in s : TRUE}]]

(* The definition of SumFunctionOnSet, unfolded. *)
LEMMA SumDef ==
  ASSUME NEW f, NEW S
  PROVE  SumFunctionOnSet(f, S) = (CHOOSE g : Sums(f, S, g))[S]
  BY DEF SumFunctionOnSet, FoldFunctionOnSet, MapThenFoldSet, Sums

(* For a finite set there is such a function. *)
LEMMA SumsExist ==
  ASSUME NEW f, NEW S, IsFiniteSet(S)
  PROVE  \E g : Sums(f, S, g)
<1> DEFINE Small(n) == {s \in SUBSET S : Cardinality(s) <= n}
           Step(s, g) == IF s = {} THEN 0
                         ELSE f[CHOOSE x \in s : TRUE] + g[s \ {CHOOSE x \in s : TRUE}]
           N == {n \in Nat : \E g : g = [s \in Small(n) |-> Step(s, g)]}
<1>1. 0 \in N
  <2>1. \A s \in Small(0) : s = {}
    BY FS_EmptySet, FS_Subset, FS_CardinalityType
  <2>2. [s \in Small(0) |-> 0] = [s \in Small(0) |-> Step(s, [t \in Small(0) |-> 0])]
    BY <2>1
  <2> QED
    BY <2>2
<1>2. \A n \in N : n + 1 \in N
  <2> TAKE n \in N
  <2>0. n \in Nat /\ \E g : g = [s \in Small(n) |-> Step(s, g)]
    OBVIOUS
  <2> PICK h : h = [s \in Small(n) |-> Step(s, h)]
    BY <2>0
  <2> DEFINE g == [s \in Small(n + 1) |-> Step(s, h)]
  <2>1. ASSUME NEW s \in Small(n + 1)
        PROVE  Step(s, h) = Step(s, g)
    <3>1. CASE s = {}
      BY <3>1
    <3>2. CASE s # {}
      <4> DEFINE t == s \ {CHOOSE x \in s : TRUE}
      <4>1. (CHOOSE x \in s : TRUE) \in s
        BY <3>2
      <4>2. IsFiniteSet(s) /\ Cardinality(s) \in Nat
        BY FS_Subset, FS_CardinalityType
      <4>3. Cardinality(t) = Cardinality(s) - 1
        BY <4>1, <4>2, FS_RemoveElement
      <4>4. t \in Small(n) /\ t \in Small(n + 1)
        BY <4>2, <4>3
      <4>5. h[t] = Step(t, h)
        BY <4>4
      <4>6. g[t] = Step(t, h)
        BY <4>4
      <4> HIDE DEF g
      <4> QED
        BY <3>2, <4>5, <4>6
    <3> QED
      BY <3>1, <3>2
  <2>2. g = [s \in Small(n + 1) |-> Step(s, g)]
    <3> HIDE DEF Step, Small
    <3> QED
      BY <2>1
  <2>3. n + 1 \in Nat
    BY <2>0
  <2> QED
    BY <2>2, <2>3
<1> DEFINE c == Cardinality(S)
<1>3. c \in Nat /\ c \in N
  BY <1>1, <1>2, NatSetInduction, FS_CardinalityType
<1>4. Small(c) = SUBSET S
  BY FS_Subset
<1>5. \E g : g = [s \in Small(c) |-> Step(s, g)]
  BY <1>3
<1> QED
  BY <1>4, <1>5 DEF Sums

(* The function found for a set agrees with those found for its subsets. *)
LEMMA SumsAgree ==
  ASSUME NEW f, NEW S, IsFiniteSet(S), NEW U \in SUBSET S,
         NEW g, Sums(f, U, g), NEW h, Sums(f, S, h)
  PROVE  g[U] = h[U]
<1> DEFINE N == {n \in Nat : \A s \in SUBSET U : Cardinality(s) = n => g[s] = h[s]}
<1>0. \A s \in SUBSET U : s \in SUBSET S /\ IsFiniteSet(s) /\ Cardinality(s) \in Nat
  BY FS_Subset, FS_CardinalityType
<1>1. 0 \in N
  <2> SUFFICES ASSUME NEW s \in SUBSET U, Cardinality(s) = 0 PROVE g[s] = h[s]
    OBVIOUS
  <2>1. s = {}
    BY <1>0, FS_EmptySet
  <2> QED
    BY <1>0, <2>1 DEF Sums
<1>2. ASSUME NEW n \in N PROVE n + 1 \in N
  <2>0. n \in Nat /\ n + 1 \in Nat /\ (n + 1) - 1 = n
    OBVIOUS
  <2>1. ASSUME NEW s \in SUBSET U, Cardinality(s) = n + 1
        PROVE  g[s] = h[s]
    <3> DEFINE c == CHOOSE x \in s : TRUE
               t == s \ {c}
    <3>1. s # {}
      BY <2>0, <2>1, FS_EmptySet
    <3>2. c \in s
      BY <3>1
    <3>3. Cardinality(t) = n /\ t \in SUBSET U
      BY <1>0, <2>0, <2>1, <3>2, FS_RemoveElement
    <3>4. g[t] = h[t]
      BY <3>3
    <3>5. g[s] = f[c] + g[t]
      BY <3>1 DEF Sums
    <3>6. h[s] = f[c] + h[t]
      BY <3>1, <1>0 DEF Sums
    <3> QED
      BY <3>4, <3>5, <3>6
  <2> QED
    BY <2>0, <2>1
<1>3. Cardinality(U) \in N
  BY <1>0, <1>1, <1>2, NatSetInduction
<1> QED
  BY <1>3

(* The empty sum. *)
LEMMA SumEmpty ==
  ASSUME NEW f
  PROVE  SumFunctionOnSet(f, {}) = 0
<1>1. PICK g : Sums(f, {}, g)
  BY SumsExist, FS_EmptySet
<1>2. Sums(f, {}, CHOOSE h : Sums(f, {}, h))
  BY <1>1
<1> QED
  BY <1>2, SumDef DEF Sums

(* What the definition says of a nonempty set. *)
LEMMA SumChosen ==
  ASSUME NEW f, NEW S, IsFiniteSet(S), S # {}
  PROVE  LET c == CHOOSE x \in S : TRUE
         IN  SumFunctionOnSet(f, S) = f[c] + SumFunctionOnSet(f, S \ {c})
<1> DEFINE c == CHOOSE x \in S : TRUE
           T == S \ {c}
           g == CHOOSE k : Sums(f, S, k)
           h == CHOOSE k : Sums(f, T, k)
<1>1. Sums(f, S, g)
  BY SumsExist
<1>2. IsFiniteSet(T) /\ T \in SUBSET S
  BY FS_Subset
<1>3. Sums(f, T, h)
  BY <1>2, SumsExist
<1>4. h[T] = g[T]
  <2> HIDE DEF g, h, T
  <2> QED
    BY <1>1, <1>2, <1>3, SumsAgree
<1>5. SumFunctionOnSet(f, S) = g[S] /\ SumFunctionOnSet(f, T) = h[T]
  BY SumDef
<1>6. g[S] = f[c] + g[T]
  BY <1>1 DEF Sums
<1> QED
  BY <1>4, <1>5, <1>6

(* A sum of integers is an integer. *)
LEMMA SumInt ==
  ASSUME NEW S, IsFiniteSet(S), NEW f, \A x \in S : f[x] \in Int
  PROVE  SumFunctionOnSet(f, S) \in Int
<1> DEFINE N == {n \in Nat : \A T \in SUBSET S : Cardinality(T) = n => SumFunctionOnSet(f, T) \in Int}
<1>1. 0 \in N
  BY SumEmpty, FS_EmptySet, FS_Subset
<1>2. ASSUME NEW n \in N PROVE n + 1 \in N
  <2>0. n \in Nat /\ n + 1 \in Nat /\ (n + 1) - 1 = n
    OBVIOUS
  <2>1. ASSUME NEW T \in SUBSET S, Cardinality(T) = n + 1
        PROVE  SumFunctionOnSet(f, T) \in Int
    <3> DEFINE c == CHOOSE x \in T : TRUE
    <3>1. T # {} /\ IsFiniteSet(T)
      BY <2>0, <2>1, FS_EmptySet, FS_Subset
    <3>2. c \in T
      BY <3>1
    <3>3. Cardinality(T \ {c}) = n /\ T \ {c} \in SUBSET S
      BY <2>0, <2>1, <3>1, <3>2, FS_RemoveElement
    <3>4. SumFunctionOnSet(f, T \ {c}) \in Int
      BY <3>3
    <3>5. SumFunctionOnSet(f, T) = f[c] + SumFunctionOnSet(f, T \ {c})
      BY <3>1, SumChosen
    <3> QED
      BY <3>2, <3>4, <3>5
  <2> QED
    BY <2>0, <2>1
<1>3. Cardinality(S) \in N
  BY <1>1, <1>2, NatSetInduction, FS_CardinalityType
<1> QED
  BY <1>3

(* The order does not matter: any element can be taken out first. *)
LEMMA SumRemove ==
  ASSUME NEW S, IsFiniteSet(S), NEW f, \A x \in S : f[x] \in Int, NEW a \in S
  PROVE  SumFunctionOnSet(f, S) = f[a] + SumFunctionOnSet(f, S \ {a})
<1> DEFINE Out(T, x) == SumFunctionOnSet(f, T) = f[x] + SumFunctionOnSet(f, T \ {x})
           N == {n \in Nat : \A T \in SUBSET S : Cardinality(T) = n => \A x \in T : Out(T, x)}
<1>1. 0 \in N
  BY FS_EmptySet, FS_Subset
<1>2. ASSUME NEW n \in N PROVE n + 1 \in N
  <2>0. n \in Nat /\ n + 1 \in Nat /\ (n + 1) - 1 = n
    OBVIOUS
  <2>1. ASSUME NEW T \in SUBSET S, Cardinality(T) = n + 1, NEW x \in T
        PROVE  Out(T, x)
    <3> DEFINE c == CHOOSE y \in T : TRUE
    <3>1. T # {} /\ IsFiniteSet(T) /\ c \in T
      BY FS_Subset
    <3>2. Out(T, c)
      BY <3>1, SumChosen
    <3>3. CASE x # c
      <4>1. /\ Cardinality(T \ {c}) = n /\ T \ {c} \in SUBSET S
            /\ Cardinality(T \ {x}) = n /\ T \ {x} \in SUBSET S
        BY <2>0, <2>1, <3>1, FS_RemoveElement
      <4>2. Out(T \ {c}, x) /\ Out(T \ {x}, c)
        BY <3>1, <3>3, <4>1
      <4>3. (T \ {c}) \ {x} = (T \ {x}) \ {c}
        OBVIOUS
      <4> DEFINE r == SumFunctionOnSet(f, (T \ {x}) \ {c})
      <4>4. r \in Int
        <5>1. IsFiniteSet((T \ {x}) \ {c}) /\ (T \ {x}) \ {c} \in SUBSET S
          BY <3>1, FS_RemoveElement
        <5> QED
          BY <5>1, SumInt
      <4>5. SumFunctionOnSet(f, T \ {c}) = f[x] + r /\ SumFunctionOnSet(f, T \ {x}) = f[c] + r
        BY <4>2, <4>3
      <4>6. SumFunctionOnSet(f, T) = f[c] + SumFunctionOnSet(f, T \ {c})
        BY <3>2
      <4>7. f[x] \in Int /\ f[c] \in Int
        BY <3>1
      <4> HIDE DEF r, c
      <4> QED
        BY <4>4, <4>5, <4>6, <4>7
    <3> QED
      BY <3>2, <3>3
  <2> QED
    BY <2>0, <2>1
<1>3. Cardinality(S) \in N
  BY <1>1, <1>2, NatSetInduction, FS_CardinalityType
<1> QED
  BY <1>3

(* An element is added. *)
LEMMA SumAdd ==
  ASSUME NEW S, IsFiniteSet(S), NEW a, a \notin S,
         NEW f, \A x \in S \cup {a} : f[x] \in Int
  PROVE  SumFunctionOnSet(f, S \cup {a}) = f[a] + SumFunctionOnSet(f, S)
<1>1. IsFiniteSet(S \cup {a}) /\ (S \cup {a}) \ {a} = S
  BY FS_AddElement
<1> QED
  BY <1>1, SumRemove

-----------------------------------------------------------------------------
(* What the proofs use. *)

(* Equal summands, equal sums. *)
LEMMA SumEqual ==
  ASSUME NEW S, IsFiniteSet(S), NEW f, NEW g,
         \A x \in S : f[x] \in Int /\ g[x] = f[x]
  PROVE  SumFunctionOnSet(g, S) = SumFunctionOnSet(f, S)
<1> DEFINE G == {T \in SUBSET S : SumFunctionOnSet(g, T) = SumFunctionOnSet(f, T)}
<1>1. {} \in G
  BY SumEmpty
<1>2. ASSUME NEW T \in G, NEW x \in S, x \notin T PROVE T \cup {x} \in G
  <2>1. IsFiniteSet(T)
    BY FS_Subset
  <2>2. SumFunctionOnSet(f, T \cup {x}) = f[x] + SumFunctionOnSet(f, T)
    BY <1>2, <2>1, SumAdd
  <2>3. SumFunctionOnSet(g, T \cup {x}) = g[x] + SumFunctionOnSet(g, T)
    BY <1>2, <2>1, SumAdd
  <2> QED
    BY <2>2, <2>3
<1> QED
  BY <1>1, <1>2, SubsetInduction

(* The sum of the sums. *)
LEMMA SumPlus ==
  ASSUME NEW S, IsFiniteSet(S), NEW f, NEW g, NEW h,
         \A x \in S : f[x] \in Int /\ g[x] \in Int /\ h[x] = f[x] + g[x]
  PROVE  SumFunctionOnSet(h, S) = SumFunctionOnSet(f, S) + SumFunctionOnSet(g, S)
<1> DEFINE G == {T \in SUBSET S : SumFunctionOnSet(h, T)
                                   = SumFunctionOnSet(f, T) + SumFunctionOnSet(g, T)}
<1>1. {} \in G
  BY SumEmpty
<1>2. ASSUME NEW T \in G, NEW x \in S, x \notin T PROVE T \cup {x} \in G
  <2>1. IsFiniteSet(T)
    BY FS_Subset
  <2>2. SumFunctionOnSet(f, T) \in Int /\ SumFunctionOnSet(g, T) \in Int
    BY <2>1, SumInt
  <2>3. SumFunctionOnSet(f, T \cup {x}) = f[x] + SumFunctionOnSet(f, T)
    BY <1>2, <2>1, SumAdd
  <2>4. SumFunctionOnSet(g, T \cup {x}) = g[x] + SumFunctionOnSet(g, T)
    BY <1>2, <2>1, SumAdd
  <2>5. SumFunctionOnSet(h, T \cup {x}) = h[x] + SumFunctionOnSet(h, T)
    <3>1. \A y \in T \cup {x} : h[y] \in Int
      OBVIOUS
    <3> QED
      BY <1>2, <2>1, <3>1, SumAdd
  <2>6. SumFunctionOnSet(h, T) = SumFunctionOnSet(f, T) + SumFunctionOnSet(g, T)
    OBVIOUS
  <2>7. f[x] \in Int /\ g[x] \in Int /\ h[x] = f[x] + g[x]
    OBVIOUS
  <2>8. SumFunctionOnSet(h, T \cup {x})
          = SumFunctionOnSet(f, T \cup {x}) + SumFunctionOnSet(g, T \cup {x})
    BY <2>2, <2>3, <2>4, <2>5, <2>6, <2>7
  <2> QED
    BY <2>8
<1> QED
  BY <1>1, <1>2, SubsetInduction

(* One summand changes. *)
LEMMA SumChange ==
  ASSUME NEW S, IsFiniteSet(S), NEW a \in S, NEW f, NEW g,
         \A x \in S : f[x] \in Int, g[a] \in Int, \A x \in S \ {a} : g[x] = f[x]
  PROVE  SumFunctionOnSet(g, S) = SumFunctionOnSet(f, S) + (g[a] - f[a])
<1> DEFINE T == S \ {a}
<1>1. IsFiniteSet(T)
  BY FS_RemoveElement
<1>2. SumFunctionOnSet(f, S) = f[a] + SumFunctionOnSet(f, T)
  BY SumRemove
<1>3. SumFunctionOnSet(g, S) = g[a] + SumFunctionOnSet(g, T)
  <2>1. \A x \in S : g[x] \in Int
    OBVIOUS
  <2> QED
    BY <2>1, SumRemove
<1>4. SumFunctionOnSet(g, T) = SumFunctionOnSet(f, T)
  BY <1>1, SumEqual
<1>5. SumFunctionOnSet(f, T) \in Int /\ f[a] \in Int
  BY <1>1, SumInt
<1> HIDE DEF T
<1> QED
  BY <1>2, <1>3, <1>4, <1>5

(* Summands that are zero. *)
LEMMA SumZero ==
  ASSUME NEW S, IsFiniteSet(S), NEW f, \A x \in S : f[x] = 0
  PROVE  SumFunctionOnSet(f, S) = 0
<1> DEFINE G == {T \in SUBSET S : SumFunctionOnSet(f, T) = 0}
<1>1. {} \in G
  BY SumEmpty
<1>2. ASSUME NEW T \in G, NEW x \in S, x \notin T PROVE T \cup {x} \in G
  <2>1. IsFiniteSet(T)
    BY FS_Subset
  <2>2. SumFunctionOnSet(f, T \cup {x}) = f[x] + SumFunctionOnSet(f, T)
    <3>1. \A y \in T \cup {x} : f[y] \in Int
      OBVIOUS
    <3> QED
      BY <1>2, <2>1, <3>1, SumAdd
  <2> QED
    BY <2>2
<1> QED
  BY <1>1, <1>2, SubsetInduction

(* A sum of natural numbers is one. *)
LEMMA SumNat ==
  ASSUME NEW S, IsFiniteSet(S), NEW f, \A x \in S : f[x] \in Nat
  PROVE  SumFunctionOnSet(f, S) \in Nat
<1> DEFINE G == {T \in SUBSET S : SumFunctionOnSet(f, T) \in Nat}
<1>1. {} \in G
  BY SumEmpty
<1>2. ASSUME NEW T \in G, NEW x \in S, x \notin T PROVE T \cup {x} \in G
  <2>1. IsFiniteSet(T)
    BY FS_Subset
  <2>2. SumFunctionOnSet(f, T \cup {x}) = f[x] + SumFunctionOnSet(f, T)
    <3>1. \A y \in T \cup {x} : f[y] \in Int
      OBVIOUS
    <3> QED
      BY <1>2, <2>1, <3>1, SumAdd
  <2> QED
    BY <2>2
<1> QED
  BY <1>1, <1>2, SubsetInduction

(* The sum of as many ones as there are elements. *)
LEMMA SumOnes ==
  ASSUME NEW S, IsFiniteSet(S), NEW f, \A x \in S : f[x] = 1
  PROVE  SumFunctionOnSet(f, S) = Cardinality(S)
<1> DEFINE G == {T \in SUBSET S : SumFunctionOnSet(f, T) = Cardinality(T)}
<1>1. {} \in G
  BY SumEmpty, FS_EmptySet
<1>2. ASSUME NEW T \in G, NEW x \in S, x \notin T PROVE T \cup {x} \in G
  <2>1. IsFiniteSet(T) /\ Cardinality(T) \in Nat
    BY FS_Subset, FS_CardinalityType
  <2>2. SumFunctionOnSet(f, T \cup {x}) = f[x] + SumFunctionOnSet(f, T)
    <3>1. \A y \in T \cup {x} : f[y] \in Int
      OBVIOUS
    <3> QED
      BY <1>2, <2>1, <3>1, SumAdd
  <2>3. Cardinality(T \cup {x}) = Cardinality(T) + 1
    BY <1>2, <2>1, FS_AddElement
  <2>4. SumFunctionOnSet(f, T) = Cardinality(T) /\ f[x] = 1
    OBVIOUS
  <2>5. SumFunctionOnSet(f, T \cup {x}) = Cardinality(T \cup {x})
    BY <2>1, <2>2, <2>3, <2>4
  <2> QED
    BY <2>5
<1> QED
  BY <1>1, <1>2, SubsetInduction

(* Summands outside a part of the set that are zero. *)
LEMMA SumPart ==
  ASSUME NEW S, IsFiniteSet(S), NEW P \in SUBSET S, NEW f,
         \A x \in S : f[x] \in Int, \A x \in S \ P : f[x] = 0
  PROVE  SumFunctionOnSet(f, S) = SumFunctionOnSet(f, P)
<1> DEFINE G == {T \in SUBSET S : SumFunctionOnSet(f, T) = SumFunctionOnSet(f, T \cap P)}
<1>1. {} \in G
  <2>1. {} \cap P = {}
    OBVIOUS
  <2> QED
    BY <2>1
<1>2. ASSUME NEW T \in G, NEW x \in S, x \notin T PROVE T \cup {x} \in G
  <2>1. IsFiniteSet(T) /\ IsFiniteSet(T \cap P)
    BY FS_Subset
  <2>2. SumFunctionOnSet(f, T \cup {x}) = f[x] + SumFunctionOnSet(f, T)
    BY <1>2, <2>1, SumAdd
  <2>3. SumFunctionOnSet(f, T) \in Int
    BY <2>1, SumInt
  <2>4. CASE x \in P
    <3>1. (T \cup {x}) \cap P = (T \cap P) \cup {x}
      BY <2>4
    <3>2. SumFunctionOnSet(f, (T \cap P) \cup {x}) = f[x] + SumFunctionOnSet(f, T \cap P)
      BY <1>2, <2>1, SumAdd
    <3> QED
      BY <2>2, <3>1, <3>2
  <2>5. CASE x \notin P
    <3>1. (T \cup {x}) \cap P = T \cap P
      BY <2>5
    <3>2. f[x] = 0
      BY <2>5
    <3>3. SumFunctionOnSet(f, T \cup {x}) = SumFunctionOnSet(f, T)
      BY <2>2, <2>3, <3>2
    <3> QED
      BY <3>1, <3>3
  <2> QED
    BY <2>4, <2>5
<1>3. S \in G
  BY <1>1, <1>2, SubsetInduction
<1>4. S \cap P = P
  OBVIOUS
<1> QED
  BY <1>3, <1>4

(* The sum by groups: every k belongs to the group b[k]. *)
LEMMA SumFibers ==
  ASSUME NEW K, IsFiniteSet(K), NEW A, IsFiniteSet(A), NEW b, \A k \in K : b[k] \in A,
         NEW f, \A k \in K : f[k] \in Int
  PROVE  SumFunctionOnSet([a \in A |-> SumFunctionOnSet(f, {k \in K : b[k] = a})], A)
         = SumFunctionOnSet(f, K)
<1> DEFINE r(T) == [a \in A |-> SumFunctionOnSet(f, {k \in T : b[k] = a})]
           G == {T \in SUBSET K : SumFunctionOnSet(r(T), A) = SumFunctionOnSet(f, T)}
<1>0. ASSUME NEW T \in SUBSET K, NEW a \in A
      PROVE  IsFiniteSet({k \in T : b[k] = a}) /\ r(T)[a] \in Int
  <2>1. {k \in T : b[k] = a} \in SUBSET K
    OBVIOUS
  <2>2. IsFiniteSet({k \in T : b[k] = a})
    BY <2>1, FS_Subset
  <2> QED
    BY <2>1, <2>2, SumInt
<1>1. {} \in G
  <2>1. \A a \in A : r({})[a] = 0
    <3> SUFFICES ASSUME NEW a \in A PROVE SumFunctionOnSet(f, {k \in {} : b[k] = a}) = 0
      OBVIOUS
    <3>1. {k \in {} : b[k] = a} = {}
      OBVIOUS
    <3> QED
      BY <3>1, SumEmpty
  <2> HIDE DEF r
  <2>2. SumFunctionOnSet(r({}), A) = 0
    BY <2>1, SumZero
  <2> QED
    BY <2>2, SumEmpty
<1>2. ASSUME NEW T \in G, NEW x \in K, x \notin T PROVE T \cup {x} \in G
  <2> DEFINE U == T \cup {x}
             c == b[x]
  <2>1. c \in A /\ f[x] \in Int /\ U \in SUBSET K /\ T \in SUBSET K /\ IsFiniteSet(T)
    BY FS_Subset
  <2>2. \A a \in A \ {c} : r(U)[a] = r(T)[a]
    <3> SUFFICES ASSUME NEW a \in A \ {c}
                 PROVE  {k \in U : b[k] = a} = {k \in T : b[k] = a}
      OBVIOUS
    <3> QED
      OBVIOUS
  <2>3. r(U)[c] = f[x] + r(T)[c]
    <3>1. {k \in U : b[k] = c} = {k \in T : b[k] = c} \cup {x}
      OBVIOUS
    <3>2. SumFunctionOnSet(f, {k \in T : b[k] = c} \cup {x})
            = f[x] + SumFunctionOnSet(f, {k \in T : b[k] = c})
      <4>1. IsFiniteSet({k \in T : b[k] = c}) /\ x \notin {k \in T : b[k] = c}
        BY <1>0, <1>2, <2>1
      <4>2. \A y \in {k \in T : b[k] = c} \cup {x} : f[y] \in Int
        BY <2>1
      <4> QED
        BY <4>1, <4>2, SumAdd
    <3> QED
      BY <2>1, <3>1, <3>2
  <2>4. \A a \in A : r(T)[a] \in Int /\ r(U)[a] \in Int
    BY <1>0, <2>1
  <2>5. SumFunctionOnSet(r(U), A) = SumFunctionOnSet(r(T), A) + (r(U)[c] - r(T)[c])
    <3> HIDE DEF r, U, c
    <3> QED
      BY <2>1, <2>2, <2>4, SumChange
  <2>6. SumFunctionOnSet(f, U) = f[x] + SumFunctionOnSet(f, T)
    BY <1>2, <2>1, SumAdd
  <2>7. SumFunctionOnSet(r(T), A) = SumFunctionOnSet(f, T)
    OBVIOUS
  <2>8. SumFunctionOnSet(r(T), A) \in Int /\ r(T)[c] \in Int
    <3> HIDE DEF r, c
    <3> QED
      BY <2>1, <2>4, SumInt
  <2>9. SumFunctionOnSet(r(U), A) = SumFunctionOnSet(f, U)
    <3> HIDE DEF r, U, c
    <3> QED
      BY <2>1, <2>3, <2>5, <2>6, <2>7, <2>8
  <2> QED
    BY <2>1, <2>9
<1>3. K \in G
  BY <1>1, <1>2, SubsetInduction
<1> QED
  BY <1>3

(* The same, for groups and sums of groups given as functions. *)
LEMMA SumGroups ==
  ASSUME NEW K, IsFiniteSet(K), NEW A, IsFiniteSet(A),
         NEW group, \A a \in A : group[a] \in SUBSET K,
         NEW b, \A k \in K : b[k] \in A /\ \A a \in A : k \in group[a] <=> b[k] = a,
         NEW f, \A k \in K : f[k] \in Int,
         NEW r, \A a \in A : r[a] = SumFunctionOnSet(f, group[a])
  PROVE  SumFunctionOnSet(r, A) = SumFunctionOnSet(f, K)
<1> DEFINE q == [a \in A |-> SumFunctionOnSet(f, {k \in K : b[k] = a})]
<1>1. ASSUME NEW a \in A PROVE q[a] \in Int /\ r[a] = q[a]
  <2>1. group[a] = {k \in K : b[k] = a}
    OBVIOUS
  <2>2. IsFiniteSet(group[a])
    BY FS_Subset
  <2>3. SumFunctionOnSet(f, group[a]) \in Int
    BY <2>2, SumInt
  <2> QED
    BY <2>1, <2>3
<1>2. SumFunctionOnSet(q, A) = SumFunctionOnSet(f, K)
  BY SumFibers
<1> HIDE DEF q
<1> QED
  BY <1>1, <1>2, SumEqual
(* FoldLeft takes the largest index first out of the domain. *)
Largest(t) == CHOOSE x \in t : \A y \in t : x >= y

Folds(base, s, g) ==
  g = [t \in SUBSET DOMAIN s |->
         IF t = {} THEN base ELSE Op(g[t \ {Largest(t)}], s[Largest(t)])]

(* FoldLeft(Op, base, s), unfolded *)
Folded(base, s) == (CHOOSE g : Folds(base, s, g))[DOMAIN s]

LEMMA LargestIn ==
  ASSUME NEW n \in Nat, NEW t \in SUBSET (1..n), t # {}
  PROVE  Largest(t) \in t /\ \A y \in t : y <= Largest(t)
<1> DEFINE G == {k \in Nat : \E x \in t : k = n - x}
<1>1. G \in SUBSET Nat /\ G # {}
  <2>1. PICK x \in t : TRUE
    OBVIOUS
  <2>2. n - x \in Nat
    OBVIOUS
  <2> QED
    BY <2>1, <2>2
<1>2. PICK k \in G : \A m \in G : k <= m
  <2> HIDE DEF G
  <2> QED
    BY <1>1, NatLeast
<1>3. PICK x \in t : k = n - x
  BY <1>2
<1>4. \A y \in t : x >= y
  <2> SUFFICES ASSUME NEW y \in t PROVE x >= y
    OBVIOUS
  <2>1. n - y \in G
    OBVIOUS
  <2> QED
    BY <1>2, <1>3, <2>1
<1> QED
  BY <1>3, <1>4 DEF Largest

(* A sum of products with one factor. *)
LEMMA SumTimes ==
  ASSUME NEW S, IsFiniteSet(S), NEW c \in Int, NEW f, NEW g,
         \A x \in S : f[x] \in Int /\ g[x] = f[x] * c
  PROVE  SumFunctionOnSet(g, S) = SumFunctionOnSet(f, S) * c
<1> DEFINE G == {T \in SUBSET S : SumFunctionOnSet(g, T) = SumFunctionOnSet(f, T) * c}
<1>1. {} \in G
  BY SumEmpty
<1>2. ASSUME NEW T \in G, NEW x \in S, x \notin T PROVE T \cup {x} \in G
  <2>1. T \in SUBSET S /\ IsFiniteSet(T) /\ SumFunctionOnSet(g, T) = SumFunctionOnSet(f, T) * c
    BY FS_Subset
  <2>2. /\ f[x] \in Int /\ g[x] = f[x] * c /\ \A y \in T \cup {x} : f[y] \in Int /\ g[y] \in Int
    BY <2>1
  <2>3. /\ SumFunctionOnSet(f, T \cup {x}) = f[x] + SumFunctionOnSet(f, T)
        /\ SumFunctionOnSet(g, T \cup {x}) = g[x] + SumFunctionOnSet(g, T)
    BY <1>2, <2>1, <2>2, SumAdd
  <2>4. SumFunctionOnSet(f, T) \in Int
    BY <2>1, <2>2, SumInt
  <2>5. \A m, n \in Int : (m + n) * c = m * c + n * c
    OBVIOUS
  <2>6. (f[x] + SumFunctionOnSet(f, T)) * c = f[x] * c + SumFunctionOnSet(f, T) * c
    BY <2>2, <2>4, <2>5
  <2> QED
    BY <2>1, <2>2, <2>3, <2>6
<1>3. S \in G
  <2> HIDE DEF G
  <2>1. G \in SUBSET (SUBSET S)
    BY DEF G
  <2> QED
    BY <1>1, <1>2, <2>1, SubsetInduction
<1> QED
  BY <1>3

(* A sum of zeroes and ones counts at most the elements. *)
LEMMA SumBits ==
  ASSUME NEW S, IsFiniteSet(S), NEW f, \A x \in S : f[x] \in {0, 1}
  PROVE  SumFunctionOnSet(f, S) \in 0..Cardinality(S)
<1> DEFINE G == {T \in SUBSET S : SumFunctionOnSet(f, T) \in 0..Cardinality(T)}
<1>1. {} \in G
  BY SumEmpty, FS_EmptySet
<1>2. ASSUME NEW T \in G, NEW x \in S, x \notin T PROVE T \cup {x} \in G
  <2>1. T \in SUBSET S /\ IsFiniteSet(T) /\ SumFunctionOnSet(f, T) \in 0..Cardinality(T)
    BY FS_Subset
  <2>2. SumFunctionOnSet(f, T \cup {x}) = f[x] + SumFunctionOnSet(f, T)
    <3>1. \A y \in T \cup {x} : f[y] \in Int
      BY <2>1
    <3> QED
      BY <1>2, <2>1, <3>1, SumAdd
  <2>3. Cardinality(T \cup {x}) = Cardinality(T) + 1 /\ Cardinality(T) \in Nat
    BY <1>2, <2>1, FS_AddElement, FS_CardinalityType
  <2>4. f[x] = 0 \/ f[x] = 1
    OBVIOUS
  <2>5. SumFunctionOnSet(f, T \cup {x}) \in 0..Cardinality(T \cup {x})
    BY <2>1, <2>2, <2>3, <2>4
  <2> QED
    BY <2>1, <2>5
<1>3. S \in G
  <2> HIDE DEF G
  <2>1. G \in SUBSET (SUBSET S)
    BY DEF G
  <2> QED
    BY <1>1, <1>2, <2>1, SubsetInduction
<1> QED
  BY <1>3

(* A sum is at most that of larger numbers. *)
LEMMA SumAtMost ==
  ASSUME NEW S, IsFiniteSet(S), NEW f, NEW g, \A x \in S : f[x] \in Int /\ g[x] \in Int /\ f[x] <= g[x]
  PROVE  SumFunctionOnSet(f, S) <= SumFunctionOnSet(g, S)
<1> DEFINE h == [x \in S |-> g[x] - f[x]]
<1>1. \A x \in S : h[x] \in Nat /\ f[x] \in Int /\ h[x] \in Int /\ g[x] = f[x] + h[x]
  OBVIOUS
<1> HIDE DEF h
<1>2. SumFunctionOnSet(g, S) = SumFunctionOnSet(f, S) + SumFunctionOnSet(h, S)
  BY <1>1, SumPlus
<1>3. SumFunctionOnSet(h, S) \in Nat /\ SumFunctionOnSet(f, S) \in Int
  BY <1>1, SumNat, SumInt
<1> QED
  BY <1>2, <1>3

(* A table can be added up by rows or by columns: m[a][i] is the entry of  *)
(* row a and column i, d the same table with the columns first, r and c    *)
(* are the sums of the rows and of the columns.                            *)
IsTable(A, S, m, d, r, c) ==
  /\ IsFiniteSet(A) /\ IsFiniteSet(S)
  /\ \A a \in A, i \in S : m[a][i] \in Int /\ d[i][a] = m[a][i]
  /\ \A a \in A : r[a] = SumFunctionOnSet(m[a], S)
  /\ \A i \in S : c[i] = SumFunctionOnSet(d[i], A)

LEMMA SumSwap ==
  ASSUME NEW A, NEW S, NEW m, NEW d, NEW r, NEW c, IsTable(A, S, m, d, r, c)
  PROVE  SumFunctionOnSet(r, A) = SumFunctionOnSet(c, S)
<1>0. /\ IsFiniteSet(A) /\ IsFiniteSet(S)
      /\ \A a \in A, i \in S : m[a][i] \in Int /\ d[i][a] = m[a][i]
      /\ \A a \in A : r[a] = SumFunctionOnSet(m[a], S)
      /\ \A i \in S : c[i] = SumFunctionOnSet(d[i], A)
  BY DEF IsTable
<1> USE <1>0
<1> DEFINE row(T) == [a \in A |-> SumFunctionOnSet(m[a], T)]
           col(i) == d[i]
           G == {T \in SUBSET S : SumFunctionOnSet(row(T), A) = SumFunctionOnSet(c, T)}
<1>1. {} \in G
  <2>1. \A a \in A : row({})[a] = 0
    BY SumEmpty
  <2>2. SumFunctionOnSet(row({}), A) = 0
    <3> HIDE DEF row
    <3> QED
      BY <2>1, SumZero
  <2> QED
    BY <2>2, SumEmpty
<1>2. ASSUME NEW i \in S PROVE c[i] \in Int /\ c[i] = SumFunctionOnSet(col(i), A) /\ \A a \in A : col(i)[a] = m[a][i]
  <2>1. \A a \in A : col(i)[a] = m[a][i] /\ col(i)[a] \in Int
    OBVIOUS
  <2>2. c[i] = SumFunctionOnSet(col(i), A)
    OBVIOUS
  <2> HIDE DEF col
  <2> QED
    BY <2>1, <2>2, SumInt
<1>3. ASSUME NEW T \in SUBSET S, NEW a \in A PROVE row(T)[a] \in Int /\ row(T)[a] = SumFunctionOnSet(m[a], T)
  <2>1. IsFiniteSet(T) /\ \A i \in T : m[a][i] \in Int
    BY FS_Subset
  <2> QED
    BY <2>1, SumInt
<1>4. ASSUME NEW T \in G, NEW i \in S, i \notin T PROVE T \cup {i} \in G
  <2>1. T \in SUBSET S /\ IsFiniteSet(T) /\ SumFunctionOnSet(row(T), A) = SumFunctionOnSet(c, T)
    BY FS_Subset
  <2>2. T \cup {i} \in SUBSET S
    BY <2>1
  <2>3. SumFunctionOnSet(c, T \cup {i}) = c[i] + SumFunctionOnSet(c, T)
    <3>1. \A x \in T \cup {i} : c[x] \in Int
      BY <1>2, <2>2
    <3> QED
      BY <1>4, <2>1, <3>1, SumAdd
  <2>4. ASSUME NEW a \in A PROVE row(T \cup {i})[a] = m[a][i] + row(T)[a]
    <3>1. \A x \in T \cup {i} : m[a][x] \in Int
      BY <2>2
    <3>2. SumFunctionOnSet(m[a], T \cup {i}) = m[a][i] + SumFunctionOnSet(m[a], T)
      BY <1>4, <2>1, <3>1, SumAdd
    <3> QED
      BY <1>3, <2>1, <2>2, <3>2
  <2>5. \A a \in A : row(T)[a] \in Int /\ col(i)[a] \in Int /\ row(T \cup {i})[a] = col(i)[a] + row(T)[a]
    BY <1>2, <1>3, <2>1, <2>4
  <2> DEFINE f == col(i)
             g == row(T)
             h == row(T \cup {i})
  <2>6. \A a \in A : f[a] \in Int /\ g[a] \in Int /\ h[a] = f[a] + g[a]
    BY <2>5
  <2> HIDE DEF f, g, h
  <2>7. SumFunctionOnSet(h, A) = SumFunctionOnSet(f, A) + SumFunctionOnSet(g, A)
    BY <2>6, SumPlus
  <2> HIDE DEF row, col
  <2>8. SumFunctionOnSet(row(T \cup {i}), A) = SumFunctionOnSet(col(i), A) + SumFunctionOnSet(row(T), A)
    BY <2>7 DEF f, g, h
  <2> QED
    BY <1>2, <2>1, <2>2, <2>3, <2>8
<1>5. S \in G
  <2> HIDE DEF G
  <2>1. G \in SUBSET (SUBSET S)
    BY DEF G
  <2> QED
    BY <1>1, <1>4, <2>1, SubsetInduction
<1>6. SumFunctionOnSet(r, A) = SumFunctionOnSet(row(S), A)
  <2>1. \A a \in A : row(S)[a] \in Int /\ r[a] = row(S)[a]
    BY <1>3
  <2> HIDE DEF row
  <2> QED
    BY <2>1, SumEqual
<1> QED
  BY <1>5, <1>6

LEMMA IndexSets ==
  ASSUME NEW n \in Nat, NEW t \in SUBSET (1..n)
  PROVE  IsFiniteSet(t) /\ Cardinality(t) \in Nat /\ Cardinality(t) <= n
<1>1. 1 \in Int /\ n \in Int
  OBVIOUS
<1>2. IsFiniteSet(1..n) /\ Cardinality(1..n) = IF 1 > n THEN 0 ELSE n - 1 + 1
  BY <1>1, FS_Interval
<1>3. IsFiniteSet(t) /\ Cardinality(t) <= Cardinality(1..n)
  BY <1>2, FS_Subset
<1>4. Cardinality(t) \in Nat
  BY <1>3, FS_CardinalityType
<1> QED
  BY <1>2, <1>3, <1>4

(* The sets of indices without their largest get smaller. *)
LEMMA WithoutLargest ==
  ASSUME NEW n \in Nat, NEW t \in SUBSET (1..n), t # {}
  PROVE  /\ t \ {Largest(t)} \in SUBSET (1..n)
         /\ Cardinality(t) \in Nat /\ Cardinality(t \ {Largest(t)}) = Cardinality(t) - 1
<1>2. IsFiniteSet(t) /\ Cardinality(t) \in Nat
  BY IndexSets
<1>3. Largest(t) \in t
  BY LargestIn
<1> QED
  BY <1>2, <1>3, FS_RemoveElement

LEMMA FoldsExist ==
  ASSUME NEW base, NEW T, NEW s \in Seq(T)
  PROVE  \E g : Folds(base, s, g)
<1> DEFINE n == Len(s)
           Small(k) == {t \in SUBSET (1..n) : Cardinality(t) <= k}
           Step(t, g) == IF t = {} THEN base ELSE Op(g[t \ {Largest(t)}], s[Largest(t)])
           N == {k \in Nat : \E g : g = [t \in Small(k) |-> Step(t, g)]}
<1>0. n \in Nat /\ DOMAIN s = 1..n
  OBVIOUS
<1> HIDE DEF n
<1>1. 0 \in N
  <2>1. \A t \in Small(0) : t = {}
    <3> SUFFICES ASSUME NEW t \in SUBSET (1..n), t # {}, Cardinality(t) <= 0 PROVE FALSE
      OBVIOUS
    <3>1. IsFiniteSet(t) /\ Cardinality(t) \in Nat
      BY <1>0, IndexSets
    <3> QED
      BY <3>1, FS_EmptySet
  <2>2. [t \in Small(0) |-> base] = [t \in Small(0) |-> Step(t, [u \in Small(0) |-> base])]
    BY <2>1
  <2> QED
    BY <2>2
<1>2. \A k \in N : k + 1 \in N
  <2> SUFFICES ASSUME NEW k \in Nat, NEW h, h = [t \in Small(k) |-> Step(t, h)]
               PROVE  \E g : g = [t \in Small(k + 1) |-> Step(t, g)]
    <3> HIDE DEF Small, Step
    <3> QED
      OBVIOUS
  <2>0. k \in Nat /\ k + 1 \in Nat
    OBVIOUS
  <2> DEFINE g == [t \in Small(k + 1) |-> Step(t, h)]
  <2>1. ASSUME NEW t \in Small(k + 1)
        PROVE  Step(t, h) = Step(t, g)
    <3>1. CASE t = {}
      BY <3>1
    <3>2. CASE t # {}
      <4> DEFINE u == t \ {Largest(t)}
      <4>0. t \in SUBSET (1..n) /\ Cardinality(t) <= k + 1
        OBVIOUS
      <4>1. u \in SUBSET (1..n) /\ Cardinality(u) \in Int /\ Cardinality(u) <= k
        BY <1>0, <3>2, <4>0, WithoutLargest
      <4>11. u \in Small(k) /\ u \in Small(k + 1)
        BY <4>1
      <4>2. h[u] = Step(u, h) /\ g[u] = Step(u, h)
        BY <4>11
      <4> HIDE DEF g
      <4> QED
        BY <3>2, <4>2
    <3> QED
      BY <3>1, <3>2
  <2>2. g = [t \in Small(k + 1) |-> Step(t, g)]
    <3> HIDE DEF Step, Small
    <3> QED
      BY <2>1
  <2> HIDE DEF g
  <2> QED
    BY <2>2
<1>3. n \in N
  <2> HIDE DEF N
  <2>1. N \in SUBSET Nat
    BY DEF N
  <2> QED
    BY <1>0, <1>1, <1>2, <2>1, NatSetInduction
<1>4. Small(n) = SUBSET (1..n)
  <2> SUFFICES ASSUME NEW t \in SUBSET (1..n) PROVE Cardinality(t) <= n
    OBVIOUS
  <2> QED
    BY <1>0, IndexSets
<1>5. \E g : g = [t \in Small(n) |-> Step(t, g)]
  BY <1>3
<1> QED
  BY <1>0, <1>4, <1>5 DEF Folds

(* The function found for a sequence agrees with that found for a longer one. *)
LEMMA FoldsAgree ==
  ASSUME NEW base, NEW S, NEW s \in Seq(S), NEW r \in Seq(S), Len(r) <= Len(s),
         \A k \in 1..Len(r) : r[k] = s[k],
         NEW g, Folds(base, s, g), NEW h, Folds(base, r, h)
  PROVE  \A t \in SUBSET (1..Len(r)) : g[t] = h[t]
<1> DEFINE m == Len(r)
           N == {k \in Nat : \A t \in SUBSET (1..m) : Cardinality(t) = k => g[t] = h[t]}
<1>0. m \in Nat /\ DOMAIN r = 1..m /\ DOMAIN s = 1..Len(s) /\ 1..m \subseteq 1..Len(s)
  OBVIOUS
<1>1. ASSUME NEW k \in Nat, \A t \in SUBSET (1..m) : Cardinality(t) = k - 1 => g[t] = h[t]
      PROVE  \A t \in SUBSET (1..m) : Cardinality(t) = k => g[t] = h[t]
  <2> SUFFICES ASSUME NEW t \in SUBSET (1..m), Cardinality(t) = k PROVE g[t] = h[t]
    OBVIOUS
  <2>1. CASE t = {}
    BY <1>0, <2>1 DEF Folds
  <2>2. CASE t # {}
    <3> DEFINE u == t \ {Largest(t)}
    <3>1. u \in SUBSET (1..m) /\ Cardinality(u) = k - 1
      BY <1>0, <2>2, WithoutLargest
    <3>2. g[u] = h[u]
      BY <1>1, <3>1
    <3>3. Largest(t) \in 1..m
      BY <1>0, <2>2, LargestIn
    <3>4. s[Largest(t)] = r[Largest(t)]
      BY <3>3
    <3>5. t \in SUBSET DOMAIN s /\ t \in SUBSET DOMAIN r
      BY <1>0
    <3>6. g[t] = Op(g[u], s[Largest(t)])
      BY <2>2, <3>5 DEF Folds
    <3>7. h[t] = Op(h[u], r[Largest(t)])
      BY <2>2, <3>5 DEF Folds
    <3> QED
      BY <3>2, <3>4, <3>6, <3>7
  <2> QED
    BY <2>1, <2>2
<1>2. 0 \in N
  <2>1. \A t \in SUBSET (1..m) : Cardinality(t) # 0 - 1
    BY <1>0, IndexSets
  <2> QED
    BY <1>1, <2>1
<1>3. \A k \in N : k + 1 \in N
  <2> SUFFICES ASSUME NEW k \in Nat, \A t \in SUBSET (1..m) : Cardinality(t) = k => g[t] = h[t]
               PROVE  \A t \in SUBSET (1..m) : Cardinality(t) = k + 1 => g[t] = h[t]
    OBVIOUS
  <2>1. k + 1 \in Nat /\ (k + 1) - 1 = k
    OBVIOUS
  <2> QED
    BY <1>1, <2>1
<1>4. \A k \in Nat : k \in N
  <2> HIDE DEF N
  <2>1. N \in SUBSET Nat
    BY DEF N
  <2> QED
    BY <1>2, <1>3, <2>1, NatSetInduction
<1> SUFFICES ASSUME NEW t \in SUBSET (1..m) PROVE g[t] = h[t]
  OBVIOUS
<1>5. Cardinality(t) \in Nat
  BY <1>0, IndexSets
<1> QED
  BY <1>4, <1>5

(* Folding nothing gives the base. *)
LEMMA FoldEmpty ==
  ASSUME NEW base
  PROVE  Folded(base, << >>) = base
<1>1. << >> \in Seq({})
  OBVIOUS
<1>2. PICK g : Folds(base, << >>, g)
  BY <1>1, FoldsExist
<1> DEFINE h == CHOOSE f : Folds(base, << >>, f)
<1>3. Folds(base, << >>, h)
  BY <1>2
<1> HIDE DEF h
<1>4. h[{}] = base
  BY <1>3 DEF Folds
<1>5. DOMAIN << >> = {}
  OBVIOUS
<1> QED
  BY <1>4, <1>5 DEF Folded, h

(* The last element of the sequence is folded last. *)
LEMMA FoldLast ==
  ASSUME NEW base, NEW S, NEW s \in Seq(S), NEW k \in 1..Len(s)
  PROVE  Folded(base, SubSeq(s, 1, k)) = Op(Folded(base, SubSeq(s, 1, k - 1)), s[k])
<1> DEFINE q == SubSeq(s, 1, k)
           r == SubSeq(s, 1, k - 1)
           g == CHOOSE f : Folds(base, q, f)
           h == CHOOSE f : Folds(base, r, f)
<1>1. /\ q \in Seq(S) /\ Len(q) = k /\ DOMAIN q = 1..k /\ \A j \in 1..k : q[j] = s[j]
      /\ r \in Seq(S) /\ Len(r) = k - 1 /\ DOMAIN r = 1..(k - 1) /\ \A j \in 1..(k - 1) : r[j] = s[j]
  OBVIOUS
<1> HIDE DEF q, r
<1>2. Folds(base, q, g) /\ Folds(base, r, h)
  BY <1>1, FoldsExist
<1> HIDE DEF g, h
<1>3. g[1..(k - 1)] = h[1..(k - 1)]
  <2>1. Len(r) <= Len(q) /\ \A j \in 1..Len(r) : r[j] = q[j]
    BY <1>1
  <2>2. \A t \in SUBSET (1..Len(r)) : g[t] = h[t]
    BY <1>1, <1>2, <2>1, FoldsAgree
  <2> QED
    BY <1>1, <2>2
<1>4. Largest(1..k) = k /\ (1..k) \ {k} = 1..(k - 1)
  <2>1. 1..k \in SUBSET (1..k) /\ k \in 1..k /\ k \in Nat
    OBVIOUS
  <2>2. Largest(1..k) \in 1..k /\ k <= Largest(1..k)
    BY <2>1, LargestIn
  <2> QED
    BY <2>1, <2>2
<1>5. g[1..k] = Op(g[1..(k - 1)], q[k])
  <2>1. 1..k \in SUBSET DOMAIN q /\ 1..k # {}
    <3>1. DOMAIN q = 1..k
      BY <1>1
    <3>2. k \in 1..k
      OBVIOUS
    <3> QED
      BY <3>1, <3>2, Zenon
  <2>2. g[1..k] = Op(g[(1..k) \ {Largest(1..k)}], q[Largest(1..k)])
    BY <1>2, <2>1 DEF Folds
  <2> QED
    BY <1>4, <2>2
<1>6. q[k] = s[k]
  BY <1>1
<1>7. Folded(base, q) = g[1..k] /\ Folded(base, r) = h[1..(k - 1)]
  BY <1>1 DEF Folded, g, h
<1> QED
  BY <1>3, <1>5, <1>6, <1>7 DEF q, r

(* What holds before the first element, and holds after each element if it  *)
(* held in the form it has before that element, holds in the end.           *)
THEOREM FoldSteps ==
  ASSUME NEW S, NEW s \in Seq(S), NEW K, NEW base \in K[0],
         \A k \in 1..Len(s) : \A m \in K[k - 1] : Op(m, s[k]) \in K[k]
  PROVE  Folded(base, s) \in K[Len(s)]
<1> DEFINE G == {k \in Nat : k <= Len(s) => Folded(base, SubSeq(s, 1, k)) \in K[k]}
<1>1. 0 \in G
  <2>1. SubSeq(s, 1, 0) = << >>
    OBVIOUS
  <2> QED
    BY <2>1, FoldEmpty
<1>2. \A k \in G : k + 1 \in G
  <2> SUFFICES ASSUME NEW k \in Nat, k + 1 <= Len(s), Folded(base, SubSeq(s, 1, k)) \in K[k]
               PROVE  Folded(base, SubSeq(s, 1, k + 1)) \in K[k + 1]
    OBVIOUS
  <2> DEFINE j == k + 1
  <2>1. j \in 1..Len(s) /\ j - 1 = k
    OBVIOUS
  <2> HIDE DEF j
  <2>2. Folded(base, SubSeq(s, 1, j)) = Op(Folded(base, SubSeq(s, 1, j - 1)), s[j])
    BY <2>1, FoldLast, Zenon
  <2>3. Op(Folded(base, SubSeq(s, 1, k)), s[j]) \in K[j]
    BY <2>1
  <2> QED
    BY <2>1, <2>2, <2>3 DEF j
<1>3. \A k \in Nat : k \in G
  <2> HIDE DEF G
  <2>1. G \in SUBSET Nat
    BY DEF G
  <2> QED
    BY <1>1, <1>2, <2>1, NatSetInduction
<1>4. SubSeq(s, 1, Len(s)) = s /\ Len(s) \in Nat /\ Len(s) <= Len(s)
  OBVIOUS
<1> QED
  BY <1>3, <1>4

(* What the base satisfies and every step keeps holds in the end. *)
THEOREM FoldKeeps ==
  ASSUME NEW K, NEW base \in K, NEW S, NEW s \in Seq(S),
         \A m \in K : \A x \in S : Op(m, x) \in K
  PROVE  Folded(base, s) \in K
<1> DEFINE C == [k \in Nat |-> K]
<1>1. base \in C[0] /\ Len(s) \in Nat
  OBVIOUS
<1>2. \A k \in 1..Len(s) : \A m \in C[k - 1] : Op(m, s[k]) \in C[k]
  <2> SUFFICES ASSUME NEW k \in 1..Len(s) PROVE \A m \in C[k - 1] : Op(m, s[k]) \in C[k]
    OBVIOUS
  <2>1. k - 1 \in Nat /\ k \in Nat /\ s[k] \in S
    OBVIOUS
  <2> QED
    BY <2>1
<1>3. C[Len(s)] = K
  BY <1>1
<1> HIDE DEF C
<1>4. Folded(base, s) \in C[Len(s)]
  BY <1>1, <1>2, FoldSteps
<1> QED
  BY <1>3, <1>4
=============================================================================
