------------------------ MODULE WitnessScheduleProofs ------------------------
(***************************************************************************)
(* Every property of WitnessSchedule, for all witnesses, elections,        *)
(* intervals, gaps and lengths of the chain.                               *)
(*                                                                         *)
(* _apply_block is a chain of updates of one record; the stage lemmas turn *)
(* it into one fact for every field (Step), and the rest of the proof uses *)
(* only that.  Four inductive invariants are built on it:                  *)
(*                                                                         *)
(*   Base             types, one entry of the history for every block      *)
(*   Irreversibility  last_confirmed_block_num is the number of a          *)
(*                    witness's last block (LastSigned), so the number     *)
(*                    nth_element picks can be read off the blocks         *)
(*   Misses           the charges of a gap add up to its length, and       *)
(*                    recent_slots_filled is the history moved by one slot *)
(*   Turns            since some slot the schedule is the same, everybody  *)
(*                    scheduled since is in turns, and there have been at  *)
(*                    least as many slots as blocks                        *)
(***************************************************************************)
EXTENDS WitnessSchedule, FiniteSetTheorems, WellFoundedInduction, SequenceTheorems, TLAPS

(* The facts about sums; what FoldLeft folds does not matter for them. *)
Plus(m, n) == m + n
INSTANCE FoldTheorems WITH Op <- Plus

-----------------------------------------------------------------------------
(* Division *)

(* Quotient and remainder. *)
LEMMA DivMod ==
  ASSUME NEW a \in Nat, NEW i \in Nat \ {0}
  PROVE  a \div i \in Nat /\ a % i \in 0 .. (i - 1) /\ a = (a \div i) * i + (a % i)
  OBVIOUS

(* They are determined by their product and sum. *)
LEMMA DivUnique ==
  ASSUME NEW q \in Nat, NEW r \in Nat, NEW i \in Nat \ {0}, r < i
  PROVE  (q * i + r) % i = r /\ (q * i + r) \div i = q
  OBVIOUS

(* Zero has no remainder. *)
LEMMA ZeroMod ==
  ASSUME NEW l \in Nat \ {0}
  PROVE  0 % l = 0
  OBVIOUS

(* Counting on by one, modulo l. *)
LEMMA ModStep ==
  ASSUME NEW n \in Nat, NEW l \in Nat \ {0}
  PROVE  (n + 1) % l = IF n % l = l - 1 THEN 0 ELSE (n % l) + 1
<1> DEFINE q == n \div l
           r == n % l
<1>1. q \in Nat /\ r \in 0 .. (l - 1) /\ n = q * l + r
  BY DivMod
<1> HIDE DEF q, r
<1>2. CASE r = l - 1
  <2>1. n + 1 = (q + 1) * l + 0
    BY <1>1, <1>2
  <2>2. (n + 1) % l = 0
    BY <1>1, <2>1, DivUnique
  <2> QED
    BY <1>2, <2>2 DEF r
<1>3. CASE r # l - 1
  <2>1. n + 1 = q * l + (r + 1) /\ r + 1 \in Nat /\ r + 1 < l
    BY <1>1, <1>3
  <2>2. (n + 1) % l = r + 1
    BY <1>1, <2>1, DivUnique
  <2> QED
    BY <1>3, <2>2 DEF r
<1> QED
  BY <1>2, <1>3

(* Among l numbers in a row every remainder occurs. *)
LEMMA ModCover ==
  ASSUME NEW a \in Nat, NEW l \in Nat \ {0}, NEW r \in 0 .. (l - 1)
  PROVE  \E x \in (a + 1) .. (a + l) : x % l = r
<1> DEFINE q == (a + 1) \div l
           s == (a + 1) % l
<1>0. a + 1 \in Nat /\ r \in Nat /\ r < l
  OBVIOUS
<1>1. q \in Nat /\ s \in 0 .. (l - 1) /\ a + 1 = q * l + s
  BY <1>0, DivMod
<1> HIDE DEF q, s
<1>2. CASE r >= s
  <2>1. q * l + r \in (a + 1) .. (a + l)
    BY <1>1, <1>2
  <2>2. (q * l + r) % l = r
    BY <1>0, <1>1, DivUnique
  <2> QED
    BY <2>1, <2>2
<1>3. CASE r < s
  <2>0. (q + 1) * l = q * l + l /\ q * l \in Nat
    BY <1>1
  <2>1. (q + 1) * l + r \in (a + 1) .. (a + l)
    BY <1>1, <1>3, <2>0
  <2>2. ((q + 1) * l + r) % l = r
    <3>1. q + 1 \in Nat
      BY <1>1
    <3> QED
      BY <1>0, <3>1, DivUnique
  <2> QED
    BY <2>1, <2>2
<1> QED
  BY <1>1, <1>2, <1>3

-----------------------------------------------------------------------------
(* Slots *)

(* The records of the chain. *)
Records == SlotRecords(Intervals)

(* The fields the slots depend on. *)
LEMMA SlotFields ==
  ASSUME NEW r \in Records
  PROVE  /\ r.num \in Nat /\ r.time \in Nat /\ r.interval \in Nat \ {0} /\ r.maint \in BOOLEAN
         /\ r.aslot \in Nat /\ SkipSlots \in Nat
  BY ScheduleAssumption, SlotAssumption DEF Records, SlotRecords

(* Slot times rise by one interval, and the first is after the head block. *)
LEMMA SlotTimes ==
  ASSUME NEW r \in Records
  PROVE  /\ \A s \in Nat : GetSlotTime(r, s + 1) = GetSlotTime(r, s) + r.interval
         /\ \A s \in Nat \ {0} : GetSlotTime(r, s) = GetSlotTime(r, 1) + (s - 1) * r.interval
         /\ GetSlotTime(r, 1) \in Nat /\ GetSlotTime(r, 1) > r.time
<1> DEFINE i == r.interval
           k == IF r.maint THEN SkipSlots ELSE 0
           q == r.time \div i
<1>1. r.num \in Nat /\ r.time \in Nat /\ i \in Nat \ {0} /\ k \in Nat
  BY SlotFields
<1>2. q \in Nat /\ r.time % i \in 0 .. (i - 1) /\ r.time = q * i + (r.time % i)
  BY <1>1, DivMod
<1>3. \A s \in Nat : GetSlotTime(r, s) = IF r.num = 0 THEN r.time + s * i ELSE (q + s + k) * i
  BY DEF GetSlotTime
<1> HIDE DEF i, k, q
<1>4. \A s \in Nat : (s + 1) * i = s * i + i /\ (q + (s + 1) + k) * i = (q + s + k) * i + i
  BY <1>1, <1>2
<1>5. \A s \in Nat \ {0} : /\ s * i = 1 * i + (s - 1) * i
                           /\ (q + s + k) * i = (q + 1 + k) * i + (s - 1) * i
  BY <1>1, <1>2
<1>6. (q + 1 + k) * i = q * i + i + k * i /\ k * i \in Nat /\ q * i \in Nat
  BY <1>1, <1>2
<1>7. \A s \in Nat : s * i \in Nat /\ (q + s + k) * i \in Nat
  BY <1>1, <1>2
<1>8. \A s \in Nat : GetSlotTime(r, s + 1) = GetSlotTime(r, s) + i
  <2> SUFFICES ASSUME NEW s \in Nat PROVE GetSlotTime(r, s + 1) = GetSlotTime(r, s) + i
    OBVIOUS
  <2>1. s + 1 \in Nat
    OBVIOUS
  <2> QED
    BY <1>1, <1>3, <1>4, <1>7, <2>1
<1>9. \A s \in Nat \ {0} : GetSlotTime(r, s) = GetSlotTime(r, 1) + (s - 1) * i
  <2> SUFFICES ASSUME NEW s \in Nat \ {0} PROVE GetSlotTime(r, s) = GetSlotTime(r, 1) + (s - 1) * i
    OBVIOUS
  <2>1. s - 1 \in Nat /\ (s - 1) * i \in Nat
    BY <1>7
  <2> QED
    BY <1>1, <1>3, <1>5, <1>7, <2>1
<1>10. GetSlotTime(r, 1) \in Nat /\ GetSlotTime(r, 1) > r.time
  BY <1>1, <1>2, <1>3, <1>6
<1> QED
  BY <1>8, <1>9, <1>10 DEF i

(* The slot of a time is a natural number. *)
LEMMA SlotNat ==
  ASSUME NEW r \in Records, NEW t \in Nat
  PROVE  GetSlotAtTime(r, t) \in Nat
<1>1. GetSlotTime(r, 1) \in Nat /\ r.interval \in Nat \ {0}
  BY SlotTimes, SlotFields
<1>2. CASE t < GetSlotTime(r, 1)
  BY <1>2 DEF GetSlotAtTime
<1>3. CASE ~(t < GetSlotTime(r, 1))
  <2>1. t - GetSlotTime(r, 1) \in Nat
    BY <1>1, <1>3
  <2>2. (t - GetSlotTime(r, 1)) \div r.interval \in Nat
    BY <1>1, <2>1, DivMod
  <2> QED
    BY <1>3, <2>2 DEF GetSlotAtTime
<1> QED
  BY <1>2, <1>3

(* The slot of a slot's time is the slot; times up to the head block's have none. *)
LEMMA SlotOfTime ==
  ASSUME NEW r \in Records
  PROVE  /\ \A s \in Nat \ {0} : GetSlotAtTime(r, GetSlotTime(r, s)) = s
         /\ \A t \in 0 .. r.time : GetSlotAtTime(r, t) = 0
<1>0. GetSlotTime(r, 1) \in Nat /\ r.interval \in Nat \ {0} /\ GetSlotTime(r, 1) > r.time /\ r.time \in Nat
  BY SlotTimes, SlotFields
<1>1. ASSUME NEW s \in Nat \ {0} PROVE GetSlotAtTime(r, GetSlotTime(r, s)) = s
  <2> DEFINE k == s - 1
  <2>1. GetSlotTime(r, s) = GetSlotTime(r, 1) + k * r.interval
    BY SlotTimes
  <2>2. k \in Nat /\ s = k + 1
    OBVIOUS
  <2> HIDE DEF k
  <2>3. k * r.interval \in Nat /\ k * r.interval = k * r.interval + 0
    BY <1>0, <2>2
  <2>4. (k * r.interval + 0) \div r.interval = k
    BY <1>0, <2>2, DivUnique
  <2>5. GetSlotTime(r, s) - GetSlotTime(r, 1) = k * r.interval /\ ~(GetSlotTime(r, s) < GetSlotTime(r, 1))
    BY <1>0, <2>1, <2>3
  <2>6. (GetSlotTime(r, s) - GetSlotTime(r, 1)) \div r.interval = k
    BY <2>3, <2>4, <2>5
  <2> QED
    BY <2>2, <2>5, <2>6 DEF GetSlotAtTime
<1>2. \A t \in 0 .. r.time : GetSlotAtTime(r, t) = 0
  BY <1>0 DEF GetSlotAtTime
<1> QED
  BY <1>1, <1>2

-----------------------------------------------------------------------------
(* Recent slots *)

Bits == [1 .. Window -> {0, 1}]

(* recent_slots_filled << k: the lowest bit is the last of the sequence. *)
LEMMA ShiftedBits ==
  ASSUME NEW bits \in Bits, NEW k \in Nat
  PROVE  /\ ShiftLeft(bits, k) \in Bits
         /\ \A i \in 1 .. Window : ShiftLeft(bits, k)[i] = IF i + k <= Window THEN bits[i + k] ELSE 0
<1> DEFINE zeros == [i \in 1 .. k |-> 0]
           all == bits \o zeros
<1>0. Window \in Nat
  BY SlotAssumption
<1>1. bits \in Seq({0, 1}) /\ Len(bits) = Window
  BY <1>0 DEF Bits
<1>2. zeros \in Seq({0, 1}) /\ Len(zeros) = k
  OBVIOUS
<1>3. all \in Seq({0, 1}) /\ Len(all) = Window + k
  BY <1>0, <1>1, <1>2
<1>4. ASSUME NEW i \in 1 .. (Window + k)
      PROVE  all[i] = IF i <= Window THEN bits[i] ELSE 0
  BY <1>0, <1>1, <1>2
<1> DEFINE out == SubSeq(all, k + 1, k + Window)
<1> HIDE DEF all, zeros
<1>5. out \in Seq({0, 1}) /\ Len(out) = Window
  BY <1>0, <1>3
<1>6. \A i \in 1 .. Window : out[i] = all[i + k]
  BY <1>0, <1>3
<1>7. \A i \in 1 .. Window : out[i] = IF i + k <= Window THEN bits[i + k] ELSE 0
  <2> SUFFICES ASSUME NEW i \in 1 .. Window
               PROVE  out[i] = IF i + k <= Window THEN bits[i + k] ELSE 0
    OBVIOUS
  <2>1. i + k \in 1 .. (Window + k)
    BY <1>0
  <2> HIDE DEF out
  <2> QED
    BY <1>4, <1>6, <2>1
<1>8. out \in Bits
  <2> HIDE DEF out
  <2>1. DOMAIN out = 1 .. Window /\ \A i \in 1 .. Window : out[i] \in {0, 1}
    BY <1>0, <1>5
  <2>2. out = [i \in 1 .. Window |-> out[i]]
    BY <1>5, <2>1
  <2> QED
    BY <2>1, <2>2 DEF Bits
<1> QED
  BY <1>7, <1>8 DEF ShiftLeft, all, zeros

(* What update_global_dynamic_data leaves in the bits after m missed slots. *)
LEMMA FilledBits ==
  ASSUME NEW bits \in Bits, NEW m \in Nat
  PROVE  /\ FilledAfter(bits, m) \in Bits
         /\ \A i \in 1 .. Window :
              FilledAfter(bits, m)[i] = IF i + m + 1 <= Window THEN bits[i + m + 1]
                                        ELSE IF i + m = Window THEN 1 ELSE 0
<1> DEFINE a == ShiftLeft(bits, 1)
           c == AddOne(a)
<1>0. Window \in Nat \ {0}
  BY SlotAssumption
<1>1. a \in Bits /\ \A i \in 1 .. Window : a[i] = IF i + 1 <= Window THEN bits[i + 1] ELSE 0
  BY ShiftedBits
<1> HIDE DEF a
<1>2. c \in Bits /\ \A i \in 1 .. Window : c[i] = IF i + 1 <= Window THEN bits[i + 1] ELSE 1
  BY <1>0, <1>1 DEF AddOne, Bits
<1> HIDE DEF c
<1>3. /\ ShiftLeft(c, m) \in Bits
      /\ \A i \in 1 .. Window : ShiftLeft(c, m)[i] = IF i + m <= Window THEN c[i + m] ELSE 0
  BY <1>2, ShiftedBits
<1>4. ASSUME NEW i \in 1 .. Window, i + m <= Window
      PROVE  c[i + m] = IF i + m + 1 <= Window THEN bits[i + m + 1] ELSE 1
  <2>1. i + m \in 1 .. Window
    BY <1>0, <1>4
  <2> QED
    BY <1>2, <2>1
<1>5. \A i \in 1 .. Window : ShiftLeft(c, m)[i] = IF i + m + 1 <= Window THEN bits[i + m + 1]
                                                  ELSE IF i + m = Window THEN 1 ELSE 0
  BY <1>0, <1>3, <1>4
<1> QED
  BY <1>3, <1>5 DEF FilledAfter, c, a

-----------------------------------------------------------------------------
(* The block that enough witnesses have built on *)

(* The size of a part of a finite set and of the rest. *)
LEMMA FilterFinite ==
  ASSUME NEW S, IsFiniteSet(S), NEW T \in SUBSET S
  PROVE  IsFiniteSet(T) /\ Cardinality(T) \in Nat /\ Cardinality(T) <= Cardinality(S)
         /\ Cardinality(S \ T) = Cardinality(S) - Cardinality(T) /\ Cardinality(S) \in Nat
<1>1. IsFiniteSet(T) /\ Cardinality(T) <= Cardinality(S)
  BY FS_Subset
<1>2. S \cap T = T
  OBVIOUS
<1>3. Cardinality(S \ T) = Cardinality(S) - Cardinality(S \cap T)
  BY <1>1, FS_Difference
<1> QED
  BY <1>1, <1>2, <1>3, FS_CardinalityType

(* std::nth_element: fewer than offset + 1 elements are below the chosen one. *)
Nth(f, S, offset, k) ==
  /\ k \in {f[w] : w \in S}
  /\ Cardinality({w \in S : f[w] < k}) <= offset
  /\ Cardinality({w \in S : f[w] <= k}) > offset

(* nth_element has an answer when the offset is below the number of elements. *)
LEMMA NthExists ==
  ASSUME NEW S, IsFiniteSet(S), NEW f, \A w \in S : f[w] \in Nat,
         NEW offset \in Nat, offset < Cardinality(S)
  PROVE  \E k : Nth(f, S, offset, k)
<1> DEFINE V == {f[w] : w \in S}
           Low(k) == {w \in S : f[w] <= k}
           Below(k) == {w \in S : f[w] < k}
           G == {k \in V : Cardinality(Low(k)) > offset}
<1>0. V \in SUBSET Nat
  OBVIOUS
<1>1. S # {} /\ V # {}
  BY FS_EmptySet
<1>2. G # {}
  <2> DEFINE H == {n \in Nat : \A v \in V : v <= n}
  <2>1. H # {}
    <3> DEFINE B == {T \in SUBSET S : \E n \in Nat : \A w \in T : f[w] <= n}
    <3>1. {} \in B
      OBVIOUS
    <3>2. ASSUME NEW T \in B, NEW x \in S, x \notin T PROVE T \cup {x} \in B
      <4>1. PICK n \in Nat : \A w \in T : f[w] <= n
        OBVIOUS
      <4> DEFINE m == IF f[x] <= n THEN n ELSE f[x]
      <4>2. m \in Nat /\ n <= m /\ f[x] <= m
        OBVIOUS
      <4> HIDE DEF m
      <4>3. \A w \in T \cup {x} : f[w] <= m
        BY <4>1, <4>2
      <4> QED
        BY <4>2, <4>3
    <3>3. S \in B
      BY <3>1, <3>2, SubsetInduction
    <3> QED
      BY <3>3
  <2>2. PICK n \in H : \A m \in H : n <= m
    <3>1. H \in SUBSET Nat
      OBVIOUS
    <3> HIDE DEF H
    <3> QED
      BY <2>1, <3>1, NatLeast
  <2>3. n \in V
    <3> SUFFICES ASSUME n \notin V PROVE FALSE
      OBVIOUS
    <3>0. \A v \in V : v <= n
      BY <2>2
    <3>1. \A v \in V : v < n
      <4> HIDE DEF V
      <4> QED
        BY <1>0, <2>2, <3>0
    <3>2. n # 0
      BY <1>0, <1>1, <3>1
    <3>3. n - 1 \in H
      BY <1>0, <3>1, <3>2
    <3> QED
      BY <2>2, <3>3
  <2>4. Low(n) = S
    BY <2>2
  <2> QED
    BY <2>3, <2>4
<1>3. PICK k \in G : \A m \in G : k <= m
  <2>1. G \in SUBSET Nat
    BY <1>0
  <2> HIDE DEF G
  <2> QED
    BY <1>2, <2>1, NatLeast
<1>4. Cardinality(Below(k)) <= offset
  <2>1. CASE Below(k) = {}
    BY <2>1, FS_EmptySet
  <2>2. CASE Below(k) # {}
    <3> DEFINE H == {n \in Nat : \A w \in Below(k) : f[w] <= n}
    <3>0. k \in Nat
      BY <1>0
    <3>1. k \in H
      BY <3>0
    <3>2. PICK n \in H : \A m \in H : n <= m
      <4>1. H \in SUBSET Nat /\ H # {}
        BY <3>1
      <4> HIDE DEF H
      <4> QED
        BY <4>1, NatLeast
    <3>3. \E w \in Below(k) : f[w] = n
      <4> SUFFICES ASSUME \A w \in Below(k) : f[w] # n PROVE FALSE
        OBVIOUS
      <4>1. \A w \in Below(k) : f[w] < n
        BY <3>2
      <4>2. n # 0
        BY <2>2, <4>1
      <4>3. n - 1 \in H
        BY <4>1, <4>2
      <4> QED
        BY <3>2, <4>3
    <3>4. n \in V /\ n < k
      BY <3>3
    <3>5. Low(n) = Below(k)
      BY <3>0, <3>2, <3>4
    <3>6. n \notin G
      BY <1>3, <3>0, <3>4
    <3>7. ~(Cardinality(Low(n)) > offset)
      BY <3>4, <3>6
    <3>8. Cardinality(Low(n)) \in Nat
      BY FilterFinite
    <3> QED
      BY <3>5, <3>7, <3>8
  <2> QED
    BY <2>1, <2>2
<1> QED
  BY <1>3, <1>4 DEF Nth

-----------------------------------------------------------------------------
(* What one block does to the record, field by field *)

NewBlocks == [time : Nat, witness : Witnesses]

Slot(r, b) == GetSlotAtTime(r, b.time)

(* The witnesses' missed blocks after the block. *)
Charged(r, b) ==
  IF Slot(r, b) - 1 < Len(r.sched)
  THEN [w \in Witnesses |-> r.missed[w]
           + Cardinality({i \in 1 .. Slot(r, b) - 1 : GetScheduledWitness(r, i) = w})]
  ELSE r.missed

Signed(r, b) == [r.confirmed EXCEPT ![b.witness] = r.num + 1]

Agreed(r, b) ==
  CHOOSE k \in {Signed(r, b)[w] : w \in r.active} :
     /\ Cardinality({w \in r.active : Signed(r, b)[w] < k}) <= IrreversibleOffset(Cardinality(r.active))
     /\ Cardinality({w \in r.active : Signed(r, b)[w] <= k}) > IrreversibleOffset(Cardinality(r.active))

Good(r) == r \in Records /\ r.active # {} /\ Len(r.sched) > 0

(* A record with its fields and their types. *)
LEMMA Fields ==
  ASSUME NEW r \in Records
  PROVE  /\ r = [num |-> r.num, time |-> r.time, maint |-> r.maint, maintAt |-> r.maintAt,
                 interval |-> r.interval, aslot |-> r.aslot, filled |-> r.filled, recent |-> r.recent,
                 active |-> r.active, sched |-> r.sched, confirmed |-> r.confirmed,
                 missed |-> r.missed, lib |-> r.lib]
         /\ r.num \in Nat /\ r.time \in Nat /\ r.maint \in BOOLEAN /\ r.maintAt \in Nat
         /\ r.interval \in Intervals /\ r.aslot \in Nat /\ r.filled \in Bits /\ r.recent \in Nat
         /\ r.active \in SUBSET Witnesses /\ r.sched \in Seq(Witnesses)
         /\ r.confirmed \in [Witnesses -> Nat] /\ r.missed \in [Witnesses -> Nat] /\ r.lib \in Nat
  BY DEF Records, SlotRecords, Bits

(* The charges are natural numbers. *)
LEMMA ChargedType ==
  ASSUME NEW r, Good(r), NEW b \in NewBlocks, Slot(r, b) > 0
  PROVE  Charged(r, b) \in [Witnesses -> Nat]
<1> DEFINE m == Slot(r, b) - 1
<1>1. m \in Nat
  BY SlotNat DEF Good, Slot, NewBlocks
<1>2. r.missed \in [Witnesses -> Nat]
  BY Fields DEF Good
<1>3. ASSUME NEW w \in Witnesses
      PROVE  Cardinality({i \in 1 .. m : GetScheduledWitness(r, i) = w}) \in Nat
  <2> DEFINE T == {i \in 1 .. m : GetScheduledWitness(r, i) = w}
  <2>1. IsFiniteSet(1 .. m) /\ T \in SUBSET (1 .. m)
    BY <1>1, FS_Interval
  <2> HIDE DEF T
  <2>2. Cardinality(T) \in Nat
    BY <2>1, FilterFinite
  <2> QED
    BY <2>2 DEF T
<1> HIDE DEF m
<1>4. [w \in Witnesses |-> r.missed[w]
           + Cardinality({i \in 1 .. m : GetScheduledWitness(r, i) = w})] \in [Witnesses -> Nat]
  BY <1>2, <1>3
<1> QED
  BY <1>2, <1>4 DEF Charged, m

(* update_witness_missed_blocks *)
LEMMA Stage1 ==
  ASSUME NEW r, Good(r), NEW b \in NewBlocks, Slot(r, b) > 0
  PROVE  UpdateMissedBlocks(r, b) = [r EXCEPT !.missed = Charged(r, b)]
<1>1. r = [r EXCEPT !.missed = r.missed]
  BY Fields DEF Good
<1> QED
  BY <1>1 DEF UpdateMissedBlocks, Charged, Slot

Counted(r, b) ==
  [r EXCEPT !.missed = Charged(r, b), !.recent = RecentAfter(r, Slot(r, b) - 1),
            !.num = r.num + 1, !.time = b.time, !.filled = FilledAfter(r.filled, Slot(r, b) - 1),
            !.aslot = r.aslot + (Slot(r, b) - 1) + 1]

(* update_global_dynamic_data *)
LEMMA Stage2 ==
  ASSUME NEW r, Good(r), NEW b \in NewBlocks, Slot(r, b) > 0
  PROVE  UpdateGlobalDynamicData(UpdateMissedBlocks(r, b), b, Slot(r, b) - 1) = Counted(r, b)
<1> DEFINE s == [r EXCEPT !.missed = Charged(r, b)]
<1>1. UpdateMissedBlocks(r, b) = s
  BY Stage1
<1>2. s.num = r.num /\ s.recent = r.recent /\ s.filled = r.filled /\ s.aslot = r.aslot
  BY Fields DEF Good
<1>3. RecentAfter(s, Slot(r, b) - 1) = RecentAfter(r, Slot(r, b) - 1)
  <2> HIDE DEF s
  <2> QED
    BY <1>2 DEF RecentAfter, SkipsChecks
<1>4. UpdateGlobalDynamicData(s, b, Slot(r, b) - 1) = Counted(r, b)
  <2>1. r \in Records
    BY DEF Good
  <2>2. UpdateGlobalDynamicData(s, b, Slot(r, b) - 1)
          = [s EXCEPT !.recent = RecentAfter(r, Slot(r, b) - 1), !.num = r.num + 1, !.time = b.time,
                      !.filled = FilledAfter(r.filled, Slot(r, b) - 1),
                      !.aslot = r.aslot + (Slot(r, b) - 1) + 1]
    <3> HIDE DEF s
    <3> QED
      BY <1>2, <1>3 DEF UpdateGlobalDynamicData
  <2> QED
    BY <2>1, <2>2, Fields DEF Counted
<1> QED
  BY <1>1, <1>4

(* recently_missed_count does not fall below zero. *)
LEMMA RecentNat ==
  ASSUME NEW r \in Records, NEW m \in Nat
  PROVE  RecentAfter(r, m) \in Nat
<1>1. r.recent \in Nat /\ r.num \in Nat
  BY Fields
<1> DEFINE dec == IF r.recent > MissedIncrement THEN MissedDecrement ELSE 1
<1>2. r.recent > 0 => r.recent - dec \in Nat
  BY <1>1 DEF MissedIncrement, MissedDecrement
<1>3. r.recent + MissedIncrement * m \in Nat
  BY <1>1 DEF MissedIncrement
<1> QED
  BY <1>1, <1>2, <1>3 DEF RecentAfter

(* The fields after update_global_dynamic_data. *)
LEMMA CountedFields ==
  ASSUME NEW r, Good(r), NEW b \in NewBlocks, Slot(r, b) > 0
  PROVE  LET c == Counted(r, b)
         IN  /\ c \in Records
             /\ c.num = r.num + 1 /\ c.time = b.time /\ c.maint = r.maint /\ c.maintAt = r.maintAt
             /\ c.interval = r.interval /\ c.aslot = r.aslot + Slot(r, b)
             /\ c.filled = FilledAfter(r.filled, Slot(r, b) - 1)
             /\ c.active = r.active /\ c.sched = r.sched /\ c.confirmed = r.confirmed
             /\ c.missed = Charged(r, b) /\ c.lib = r.lib
<1> DEFINE m == Slot(r, b) - 1
<1>0. r \in Records /\ b.time \in Nat
  BY DEF Good, NewBlocks
<1>1. m \in Nat /\ r \in Records /\ Slot(r, b) = m + 1 /\ b.time \in Nat
  <2>1. Slot(r, b) \in Nat
    BY SlotNat DEF Good, Slot, NewBlocks
  <2> QED
    BY <1>0, <2>1
<1> HIDE DEF m
<1>2. RecentAfter(r, m) \in Nat /\ FilledAfter(r.filled, m) \in Bits /\ Charged(r, b) \in [Witnesses -> Nat]
  BY <1>1, RecentNat, FilledBits, ChargedType, Fields
<1>3. Counted(r, b) = [num |-> r.num + 1, time |-> b.time, maint |-> r.maint, maintAt |-> r.maintAt,
                 interval |-> r.interval, aslot |-> r.aslot + m + 1, filled |-> FilledAfter(r.filled, m),
                 recent |-> RecentAfter(r, m),
                 active |-> r.active, sched |-> r.sched, confirmed |-> r.confirmed,
                 missed |-> Charged(r, b), lib |-> r.lib]
  <2>1. Counted(r, b) = [r EXCEPT !.missed = Charged(r, b), !.recent = RecentAfter(r, m),
            !.num = r.num + 1, !.time = b.time, !.filled = FilledAfter(r.filled, m),
            !.aslot = r.aslot + m + 1]
    BY DEF Counted, m
  <2> QED
    BY <1>1, <2>1 DEF Records, SlotRecords
<1>4. r.num + 1 \in Nat /\ r.aslot + m + 1 \in Nat /\ r.aslot + m + 1 = r.aslot + Slot(r, b)
  <2>1. r.num \in Nat /\ r.aslot \in Nat
    BY <1>1, Fields
  <2> QED
    BY <1>1, <2>1
<1>5. Counted(r, b) \in Records
  BY <1>1, <1>2, <1>3, <1>4, Fields DEF Records, SlotRecords, Bits
<1> QED
  BY <1>3, <1>4, <1>5 DEF m

(* update_signing_witness *)
LEMMA Stage3 ==
  ASSUME NEW r, Good(r), NEW b \in NewBlocks, Slot(r, b) > 0
  PROVE  /\ UpdateSigningWitness(Counted(r, b), b) = [Counted(r, b) EXCEPT !.confirmed = Signed(r, b)]
         /\ Signed(r, b) \in [Witnesses -> Nat]
<1>1. Counted(r, b).num = r.num + 1 /\ Counted(r, b).confirmed = r.confirmed /\ Counted(r, b) \in Records
  BY CountedFields
<1>2. r.confirmed \in [Witnesses -> Nat] /\ r.num \in Nat
  BY Fields DEF Good
<1> QED
  BY <1>1, <1>2 DEF UpdateSigningWitness, Signed, NewBlocks

(* The offset of nth_element: 30 percent of the witnesses, rounded down. *)
LEMMA OffsetOK ==
  ASSUME NEW n \in Nat \ {0}
  PROVE  /\ IrreversibleOffset(n) \in Nat /\ IrreversibleOffset(n) < n
         /\ 100 * IrreversibleOffset(n) <= 30 * n /\ 30 * n < 100 * (IrreversibleOffset(n) + 1)
<1>1. IrreversibleOffset(n) = (30 * n) \div 100
  BY DEF IrreversibleOffset, IrreversibleThreshold
<1>2. 30 * n \in Nat
  OBVIOUS
<1> QED
  BY <1>1, <1>2

(* There are finitely many active witnesses, and at least one. *)
LEMMA ActiveFinite ==
  ASSUME NEW r, Good(r)
  PROVE  IsFiniteSet(r.active) /\ Cardinality(r.active) \in Nat \ {0} /\ r.active \in SUBSET Witnesses
<1>1. r.active \in SUBSET Witnesses /\ r.active # {} /\ IsFiniteSet(Witnesses)
  BY Fields, SlotAssumption DEF Good
<1>2. IsFiniteSet(r.active)
  BY <1>1, FS_Subset
<1> QED
  BY <1>1, <1>2, FS_CardinalityType, FS_EmptySet

(* The number update_last_irreversible_block finds is one that nth_element may give. *)
LEMMA AgreedIsNth ==
  ASSUME NEW r, Good(r), NEW b \in NewBlocks, Slot(r, b) > 0
  PROVE  /\ Nth(Signed(r, b), r.active, IrreversibleOffset(Cardinality(r.active)), Agreed(r, b))
         /\ Agreed(r, b) \in Nat
<1> DEFINE f == Signed(r, b)
           S == r.active
           o == IrreversibleOffset(Cardinality(r.active))
<1>1. f \in [Witnesses -> Nat]
  BY Stage3
<1>2. IsFiniteSet(S) /\ S \in SUBSET Witnesses /\ Cardinality(S) \in Nat \ {0}
  BY ActiveFinite
<1>3. o \in Nat /\ o < Cardinality(S)
  BY <1>2, OffsetOK
<1>4. Agreed(r, b) = CHOOSE k \in {f[w] : w \in S} :
                       /\ Cardinality({w \in S : f[w] < k}) <= o
                       /\ Cardinality({w \in S : f[w] <= k}) > o
  BY DEF Agreed
<1> HIDE DEF f, S, o
<1>5. \A w \in S : f[w] \in Nat
  BY <1>1, <1>2
<1>6. \E k : Nth(f, S, o, k)
  BY <1>2, <1>3, <1>5, NthExists
<1>7. Nth(f, S, o, Agreed(r, b))
  BY <1>4, <1>6 DEF Nth
<1>8. Agreed(r, b) \in Nat
  BY <1>5, <1>7 DEF Nth
<1> QED
  BY <1>7, <1>8 DEF f, S, o

Sealed(r, b) ==
  [Counted(r, b) EXCEPT !.confirmed = Signed(r, b),
                        !.lib = IF Agreed(r, b) > r.lib THEN Agreed(r, b) ELSE r.lib]

(* update_last_irreversible_block *)
LEMMA Stage4 ==
  ASSUME NEW r, Good(r), NEW b \in NewBlocks, Slot(r, b) > 0
  PROVE  UpdateLastIrreversible(UpdateSigningWitness(Counted(r, b), b)) = Sealed(r, b)
<1> DEFINE s == [Counted(r, b) EXCEPT !.confirmed = Signed(r, b)]
           o == IrreversibleOffset(Cardinality(r.active))
<1>1. UpdateSigningWitness(Counted(r, b), b) = s
  BY Stage3
<1>2. Counted(r, b) \in Records /\ Counted(r, b).active = r.active /\ Counted(r, b).lib = r.lib
  BY CountedFields
<1>3. s.active = r.active /\ s.confirmed = Signed(r, b) /\ s.lib = r.lib
  BY <1>2, Fields
<1>4. NthConfirmed(s, IrreversibleOffset(Cardinality(s.active))) = Agreed(r, b)
  <2> HIDE DEF s
  <2> QED
    BY <1>3 DEF NthConfirmed, Agreed
<1>5. UpdateLastIrreversible(s) = IF Agreed(r, b) > r.lib THEN [s EXCEPT !.lib = Agreed(r, b)] ELSE s
  <2> HIDE DEF s
  <2> QED
    BY <1>3, <1>4 DEF UpdateLastIrreversible
<1>6. s = [s EXCEPT !.lib = r.lib]
  BY <1>2, <1>3, Fields
<1>7. UpdateLastIrreversible(s) = [s EXCEPT !.lib = IF Agreed(r, b) > r.lib THEN Agreed(r, b) ELSE r.lib]
  <2> HIDE DEF s
  <2> QED
    BY <1>5, <1>6
<1>8. UpdateLastIrreversible(s) = Sealed(r, b)
  BY <1>2, <1>7, Fields DEF Sealed
<1> QED
  BY <1>1, <1>8

(* The fields after update_last_irreversible_block. *)
LEMMA SealedFields ==
  ASSUME NEW r, Good(r), NEW b \in NewBlocks, Slot(r, b) > 0
  PROVE  LET c == Sealed(r, b)
         IN  /\ c \in Records
             /\ c.num = r.num + 1 /\ c.time = b.time /\ c.maint = r.maint /\ c.maintAt = r.maintAt
             /\ c.interval = r.interval /\ c.aslot = r.aslot + Slot(r, b)
             /\ c.filled = FilledAfter(r.filled, Slot(r, b) - 1)
             /\ c.active = r.active /\ c.sched = r.sched /\ c.confirmed = Signed(r, b)
             /\ c.missed = Charged(r, b)
             /\ c.lib = IF Agreed(r, b) > r.lib THEN Agreed(r, b) ELSE r.lib
<1> DEFINE a == Counted(r, b)
           l == IF Agreed(r, b) > r.lib THEN Agreed(r, b) ELSE r.lib
<1>1. a \in Records
  BY CountedFields
<1>2. Signed(r, b) \in [Witnesses -> Nat] /\ l \in Nat
  BY Stage3, AgreedIsNth, Fields DEF Good
<1>3. Sealed(r, b) = [a EXCEPT !.confirmed = Signed(r, b), !.lib = l]
  BY DEF Sealed
<1> HIDE DEF a, l
<1>4. /\ Sealed(r, b) \in Records
      /\ Sealed(r, b).num = a.num /\ Sealed(r, b).time = a.time /\ Sealed(r, b).maint = a.maint
      /\ Sealed(r, b).maintAt = a.maintAt /\ Sealed(r, b).interval = a.interval
      /\ Sealed(r, b).aslot = a.aslot /\ Sealed(r, b).filled = a.filled
      /\ Sealed(r, b).active = a.active /\ Sealed(r, b).sched = a.sched
      /\ Sealed(r, b).confirmed = Signed(r, b) /\ Sealed(r, b).missed = a.missed
      /\ Sealed(r, b).lib = l
  BY <1>1, <1>2, <1>3 DEF Records, SlotRecords
<1> QED
  BY <1>4, CountedFields DEF a, l

(* The next maintenance time is a natural number. *)
LEMMA MaintenanceNat ==
  ASSUME NEW r \in Records, NEW t \in Nat, NEW b, b.time = t, r.maintAt <= t
  PROVE  NextMaintenance(r, b) \in Nat
<1>1. r.maintAt \in Nat /\ MaintInterval \in Nat \ {0} /\ t - r.maintAt \in Nat
  BY Fields, SlotAssumption
<1>2. t \div MaintInterval \in Nat /\ (t - r.maintAt) \div MaintInterval \in Nat
  BY <1>1, DivMod
<1>3. \A q \in Nat : (q + 1) * MaintInterval \in Nat
  BY <1>1
<1> QED
  BY <1>1, <1>2, <1>3 DEF NextMaintenance

(* The fields after _apply_block, before the shuffle. *)
LEMMA ApplyFields ==
  ASSUME NEW r, Good(r), NEW b \in NewBlocks, Slot(r, b) > 0,
         NEW elected \in SUBSET Witnesses, elected # {}, NEW interval \in Intervals
  PROVE  LET c == ApplyBlock(r, b, elected, interval)
         IN  /\ c \in Records
             /\ c.num = r.num + 1 /\ c.time = b.time /\ c.aslot = r.aslot + Slot(r, b)
             /\ c.filled = FilledAfter(r.filled, Slot(r, b) - 1)
             /\ c.active = IF MaintenanceNeeded(r, b) THEN elected ELSE r.active
             /\ c.sched = r.sched /\ c.confirmed = Signed(r, b) /\ c.missed = Charged(r, b)
             /\ c.lib = IF Agreed(r, b) > r.lib THEN Agreed(r, b) ELSE r.lib
<1> DEFINE a == Sealed(r, b)
<1>1. ApplyBlock(r, b, elected, interval)
        = IF MaintenanceNeeded(r, b) THEN PerformMaintenance(a, b, elected, interval) ELSE a
  <2>1. UpdateGlobalDynamicData(UpdateMissedBlocks(r, b), b, GetSlotAtTime(r, b.time) - 1) = Counted(r, b)
    BY Stage2 DEF Slot
  <2>2. UpdateLastIrreversible(UpdateSigningWitness(Counted(r, b), b)) = a
    BY Stage4
  <2> QED
    BY <2>1, <2>2 DEF ApplyBlock
<1>2. a \in Records /\ a.maintAt = r.maintAt
  BY SealedFields
<1> HIDE DEF a
<1>3. ASSUME MaintenanceNeeded(r, b)
      PROVE  LET c == PerformMaintenance(a, b, elected, interval)
             IN  /\ c \in Records
                 /\ c.num = a.num /\ c.time = a.time /\ c.aslot = a.aslot /\ c.filled = a.filled
                 /\ c.active = elected /\ c.sched = a.sched /\ c.confirmed = a.confirmed
                 /\ c.missed = a.missed /\ c.lib = a.lib
  <2>1. NextMaintenance(a, b) \in Nat
    BY <1>2, <1>3, MaintenanceNat DEF MaintenanceNeeded, NewBlocks
  <2> QED
    BY <1>2, <2>1 DEF PerformMaintenance, Records, SlotRecords
<1>4. CASE MaintenanceNeeded(r, b)
  BY <1>1, <1>3, <1>4, SealedFields DEF a
<1>5. CASE ~MaintenanceNeeded(r, b)
  BY <1>1, <1>5, SealedFields DEF a
<1> QED
  BY <1>4, <1>5

(* A shuffled schedule is a nonempty sequence of witnesses. *)
LEMMA SchedulesAreSeqs ==
  ASSUME NEW S \in SUBSET Witnesses, S # {}, NEW s \in Schedules(S)
  PROVE  s \in Seq(Witnesses) /\ Len(s) = Cardinality(S) /\ Len(s) > 0
<1>1. Cardinality(S) \in Nat \ {0}
  BY FS_Subset, FS_CardinalityType, FS_EmptySet, SlotAssumption
<1>2. s \in [1 .. Cardinality(S) -> Witnesses]
  BY DEF Schedules
<1> QED
  BY <1>1, <1>2

(* The step of a block, as the rest of the proof uses it. *)
Step(b) ==
  /\ Slot(d, b) > 0 /\ Slot(d, b) \in Nat
  /\ Good(d')
  /\ d'.num = d.num + 1 /\ d'.time = b.time /\ d'.aslot = d.aslot + Slot(d, b)
  /\ d'.filled = FilledAfter(d.filled, Slot(d, b) - 1)
  /\ d'.confirmed = Signed(d, b) /\ d'.missed = Charged(d, b)
  /\ d'.lib = IF Agreed(d, b) > d.lib THEN Agreed(d, b) ELSE d.lib
  /\ IF ShuffleDue(d') THEN d'.sched \in Schedules(d'.active) ELSE d'.sched = d.sched
  /\ blocks' = Append(blocks, [witness |-> b.witness, aslot |-> d'.aslot, judges |-> d.active])
  /\ long' = long + IF Slot(d, b) - 1 < Len(d.sched) THEN 0 ELSE Slot(d, b) - 1
  /\ round' = IF ShuffleDue(d') THEN [turns |-> {}, kept |-> TRUE]
              ELSE [turns |-> round.turns \cup {GetScheduledWitness(d, i) : i \in 1 .. Slot(d, b)},
                    kept  |-> round.kept /\ Cardinality(d'.active) = Len(d.sched)]

(* A pushed block is a step. *)
LEMMA PushIsStep ==
  ASSUME Good(d), NEW b \in NewBlocks, NEW elected \in SUBSET Witnesses, elected # {},
         NEW interval \in Intervals, PushBlock(b, elected, interval)
  PROVE  Step(b)
<1> DEFINE a == ApplyBlock(d, b, elected, interval)
<1>1. Slot(d, b) \in Nat
  BY SlotNat DEF Good, Slot, NewBlocks
<1>2. Slot(d, b) > 0
  BY <1>1 DEF PushBlock, CanApply, Slot
<1>3. /\ a \in Records
      /\ a.num = d.num + 1 /\ a.time = b.time /\ a.aslot = d.aslot + Slot(d, b)
      /\ a.filled = FilledAfter(d.filled, Slot(d, b) - 1)
      /\ a.active = IF MaintenanceNeeded(d, b) THEN elected ELSE d.active
      /\ a.sched = d.sched /\ a.confirmed = Signed(d, b) /\ a.missed = Charged(d, b)
      /\ a.lib = IF Agreed(d, b) > d.lib THEN Agreed(d, b) ELSE d.lib
  BY <1>2, ApplyFields
<1>4. PICK shuffled \in Schedules(a.active) : d' = FinishBlock(a, MaintenanceNeeded(d, b), shuffled)
  BY DEF PushBlock
<1>5. History(d, b, a)
  BY DEF PushBlock
<1> HIDE DEF a
<1>6. a.active \in SUBSET Witnesses /\ a.active # {}
  BY <1>3, Fields DEF Good
<1>7. shuffled \in Seq(Witnesses) /\ Len(shuffled) > 0
  BY <1>6, SchedulesAreSeqs
<1>8. MaintenanceNeeded(d, b) \in BOOLEAN
  BY DEF MaintenanceNeeded
<1>9. /\ d' \in Records
      /\ d'.num = a.num /\ d'.time = a.time /\ d'.aslot = a.aslot /\ d'.filled = a.filled
      /\ d'.active = a.active /\ d'.sched = IF ShuffleDue(a) THEN shuffled ELSE a.sched
      /\ d'.confirmed = a.confirmed /\ d'.missed = a.missed /\ d'.lib = a.lib
  <2> DEFINE sch == IF ShuffleDue(a) THEN shuffled ELSE a.sched
  <2>1. sch \in Seq(Witnesses)
    BY <1>3, <1>7, Fields
  <2>2. d' = [a EXCEPT !.maint = MaintenanceNeeded(d, b), !.sched = sch]
    BY <1>4 DEF FinishBlock
  <2> HIDE DEF sch
  <2>3. /\ d' \in Records
        /\ d'.num = a.num /\ d'.time = a.time /\ d'.aslot = a.aslot /\ d'.filled = a.filled
        /\ d'.active = a.active /\ d'.sched = sch
        /\ d'.confirmed = a.confirmed /\ d'.missed = a.missed /\ d'.lib = a.lib
    BY <1>3, <1>8, <2>1, <2>2 DEF Records, SlotRecords
  <2> QED
    BY <2>3 DEF sch
<1>10. ShuffleDue(d') <=> ShuffleDue(a)
  BY <1>9 DEF ShuffleDue
<1>11. Good(d')
  BY <1>3, <1>6, <1>7, <1>9 DEF Good
<1>12. /\ blocks' = Append(blocks, [witness |-> b.witness, aslot |-> d'.aslot, judges |-> d.active])
       /\ long' = long + IF Slot(d, b) - 1 < Len(d.sched) THEN 0 ELSE Slot(d, b) - 1
       /\ round' = IF ShuffleDue(d') THEN [turns |-> {}, kept |-> TRUE]
              ELSE [turns |-> round.turns \cup {GetScheduledWitness(d, i) : i \in 1 .. Slot(d, b)},
                    kept  |-> round.kept /\ Cardinality(d'.active) = Len(d.sched)]
  BY <1>5, <1>9, <1>10 DEF History, Slot
<1>13. IF ShuffleDue(d') THEN d'.sched \in Schedules(d'.active) ELSE d'.sched = d.sched
  BY <1>3, <1>4, <1>9, <1>10
<1> QED
  BY <1>1, <1>2, <1>3, <1>9, <1>11, <1>12, <1>13 DEF Step

(* Every step of the chain is the step of a block. *)
LEMMA NextIsStep ==
  ASSUME Good(d), Next
  PROVE  \E b \in NewBlocks : Step(b)
<1>1. PICK t \in d.time + 1 .. d.time + MaxGap, w \in Witnesses :
          LET b == [time |-> t, witness |-> w]
          IN  IF MaintenanceNeeded(d, b)
              THEN \E elected \in Elections, interval \in Intervals : PushBlock(b, elected, interval)
              ELSE PushBlock(b, d.active, d.interval)
  BY DEF Next
<1> DEFINE b == [time |-> t, witness |-> w]
<1>2. b \in NewBlocks
  <2>1. d.time \in Nat /\ MaxGap \in Nat
    BY Fields, ScheduleAssumption DEF Good
  <2>2. t \in Nat
    BY <2>1
  <2> QED
    BY <2>2 DEF NewBlocks
<1>3. d.active \in SUBSET Witnesses /\ d.active # {} /\ d.interval \in Intervals
  BY Fields DEF Good
<1>4. \A e \in Elections : e \in SUBSET Witnesses /\ e # {}
  BY ScheduleAssumption
<1>5. \E e \in SUBSET Witnesses, i \in Intervals : e # {} /\ PushBlock(b, e, i)
  BY <1>1, <1>3, <1>4
<1> HIDE DEF b
<1>6. Step(b)
  BY <1>2, <1>5, PushIsStep
<1> QED
  BY <1>2, <1>6

-----------------------------------------------------------------------------
(* Types *)

Entries == [witness : Witnesses, aslot : Nat, judges : (SUBSET Witnesses) \ {{}}]

Base ==
  /\ Good(d)
  /\ blocks \in Seq(Entries) /\ Len(blocks) = d.num
  /\ long \in Nat

(* init_genesis leaves a proper record. *)
LEMMA GenesisGood ==
  ASSUME Init
  PROVE  Good(d)
<1>1. PICK interval \in Intervals : d = Genesis(Start, interval, First)
  BY DEF Init
<1>2. Start \in Nat /\ First \in Seq(Witnesses) /\ Len(First) > 0
  BY ScheduleAssumption
<1>3. d \in Records
  <2>1. [i \in 1 .. Window |-> 1] \in [1 .. Window -> {0, 1}]
    OBVIOUS
  <2>2. {First[i] : i \in DOMAIN First} \in SUBSET Witnesses
    BY <1>2
  <2>3. /\ [w \in Witnesses |-> 0] \in [Witnesses -> Nat]
    OBVIOUS
  <2> QED
    BY <1>1, <1>2, <2>1, <2>2, <2>3 DEF Records, SlotRecords, Genesis
<1>4. d.active = {First[i] : i \in DOMAIN First} /\ d.sched = First
  BY <1>1 DEF Genesis
<1>5. 1 \in DOMAIN First
  BY <1>2
<1> QED
  BY <1>2, <1>3, <1>4, <1>5 DEF Good

(* The fields after init_genesis. *)
LEMMA GenesisFields ==
  ASSUME Init
  PROVE  /\ d.num = 0 /\ d.aslot = 0 /\ d.lib = 0 /\ d.sched = First
         /\ d.filled = [i \in 1 .. Window |-> 1]
         /\ d.confirmed = [w \in Witnesses |-> 0] /\ d.missed = [w \in Witnesses |-> 0]
         /\ blocks = <<>> /\ long = 0 /\ round = [turns |-> {}, kept |-> TRUE]
  BY DEF Init, Genesis

(* One block more, and the ones before it as they were. *)
LEMMA BlocksGrow ==
  ASSUME Base, NEW b \in NewBlocks, Step(b)
  PROVE  /\ blocks' \in Seq(Entries) /\ Len(blocks') = d.num + 1 /\ d'.num = d.num + 1
         /\ d.num \in Nat /\ Len(blocks) = d.num
         /\ \A i \in 1 .. d.num : blocks'[i] = blocks[i]
         /\ blocks'[d.num + 1] = [witness |-> b.witness, aslot |-> d'.aslot, judges |-> d.active]
<1>1. d.num \in Nat /\ d.active \in (SUBSET Witnesses) \ {{}} /\ d'.aslot \in Nat
  BY Fields DEF Base, Good, Step
<1> DEFINE entry == [witness |-> b.witness, aslot |-> d'.aslot, judges |-> d.active]
<1>2. entry \in Entries
  BY <1>1 DEF Entries, NewBlocks
<1>3. /\ blocks \in Seq(Entries) /\ Len(blocks) = d.num
      /\ blocks' = Append(blocks, entry) /\ d'.num = d.num + 1
  BY DEF Base, Step
<1> HIDE DEF entry
<1>4. /\ Append(blocks, entry) \in Seq(Entries) /\ Len(Append(blocks, entry)) = Len(blocks) + 1
      /\ \A i \in 1 .. Len(blocks) : Append(blocks, entry)[i] = blocks[i]
      /\ Append(blocks, entry)[Len(blocks) + 1] = entry
  BY <1>2, <1>3
<1> QED
  BY <1>1, <1>3, <1>4 DEF entry

(* The types hold at genesis. *)
LEMMA BaseInit == Init => Base
<1> SUFFICES ASSUME Init PROVE Base
  OBVIOUS
<1> QED
  BY GenesisGood, GenesisFields DEF Base

(* Every step keeps the types. *)
LEMMA BaseStep == Base /\ [Next]_vars => Base'
<1> SUFFICES ASSUME Base, [Next]_vars PROVE Base'
  OBVIOUS
<1>1. CASE UNCHANGED vars
  BY <1>1 DEF vars, Base, Good
<1>2. CASE Next
  <2>1. PICK b \in NewBlocks : Step(b)
    BY <1>2, NextIsStep DEF Base
  <2>2. blocks' \in Seq(Entries) /\ Len(blocks') = d'.num
    BY <2>1, BlocksGrow
  <2>3. long' \in Nat
    BY <2>1 DEF Base, Step
  <2> QED
    BY <2>1, <2>2, <2>3 DEF Base, Step
<1> QED
  BY <1>1, <1>2

(* The types hold always. *)
LEMMA BaseAlways == Spec => []Base
  BY BaseInit, BaseStep, PTL DEF Spec

(* The state keeps its types: the record of the chain, one entry of the     *)
(* history for every block, and always somebody to schedule.                *)
THEOREM TypeCorrect == Spec => []TypeOK
<1>1. Base => TypeOK
  BY DEF Base, Good, Records, TypeOK
<1> QED
  BY <1>1, BaseAlways, PTL

(* get_slot_time and get_slot_at_time are inverse, for every slot, interval *)
(* and time of the head block: the assertion of maybe_produce_block.        *)
THEOREM SlotsMatch == Spec => []SlotsMatchTimes
<1>1. Base => SlotsMatchTimes
  <2> SUFFICES ASSUME Base PROVE SlotsMatchTimes
    OBVIOUS
  <2>1. d \in Records
    BY DEF Base, Good
  <2>2. \A slot \in 1 .. 4 : slot \in Nat \ {0}
    OBVIOUS
  <2> QED
    BY <2>1, <2>2, SlotTimes, SlotOfTime DEF SlotsMatchTimes
<1> QED
  BY <1>1, BaseAlways, PTL

-----------------------------------------------------------------------------
(* Irreversibility *)

(* The offset of nth_element in numbers of witnesses: 70 percent have built *)
(* on the block it gives, and on no later block.                            *)
LEMMA NthMajority ==
  ASSUME NEW S, IsFiniteSet(S), Cardinality(S) \in Nat \ {0}, NEW f, \A w \in S : f[w] \in Nat,
         NEW k, Nth(f, S, IrreversibleOffset(Cardinality(S)), k)
  PROVE  /\ k \in Nat
         /\ 100 * Cardinality({w \in S : f[w] >= k}) >= 70 * Cardinality(S)
         /\ \A j \in Nat : j > k => 100 * Cardinality({w \in S : f[w] >= j}) < 70 * Cardinality(S)
<1> DEFINE n == Cardinality(S)
           o == IrreversibleOffset(n)
           Below == {w \in S : f[w] < k}
           Low == {w \in S : f[w] <= k}
<1>1. o \in Nat /\ o < n /\ 100 * o <= 30 * n /\ 30 * n < 100 * (o + 1)
  BY OffsetOK
<1>2. k \in Nat
  BY DEF Nth
<1>3. Cardinality(Below) <= o /\ Cardinality(Low) > o
  BY DEF Nth
<1>4. {w \in S : f[w] >= k} = S \ Below
  BY <1>2
<1>5. /\ Cardinality(Below) \in Nat /\ Cardinality(S \ Below) = n - Cardinality(Below)
      /\ Cardinality(Low) \in Nat /\ Cardinality(S \ Low) = n - Cardinality(Low)
  <2>1. Below \in SUBSET S /\ Low \in SUBSET S
    OBVIOUS
  <2> HIDE DEF Below, Low
  <2> QED
    BY <2>1, FilterFinite
<1>6. 100 * Cardinality({w \in S : f[w] >= k}) >= 70 * n
  <2> HIDE DEF Below, Low, o, n
  <2>1. n \in Nat
    BY DEF n
  <2>2. Cardinality({w \in S : f[w] >= k}) = n - Cardinality(Below)
    BY <1>4, <1>5
  <2>3. 100 * (n - Cardinality(Below)) >= 70 * n
    BY <1>1, <1>3, <1>5, <2>1
  <2> QED
    BY <2>2, <2>3
<1>7. ASSUME NEW j \in Nat, j > k
      PROVE  100 * Cardinality({w \in S : f[w] >= j}) < 70 * n
  <2> DEFINE Up == {w \in S : f[w] >= j}
  <2>1. Up \in SUBSET (S \ Low)
    BY <1>2, <1>7
  <2>2. IsFiniteSet(S \ Low)
    BY FS_Subset
  <2>3. Cardinality(Up) \in Nat /\ Cardinality(Up) <= Cardinality(S \ Low)
    <3> HIDE DEF Up, Low
    <3> QED
      BY <2>1, <2>2, FilterFinite
  <2> HIDE DEF Below, Low, o, n, Up
  <2>4. n \in Nat
    BY DEF n
  <2>5. 100 * Cardinality(Up) < 70 * n
    BY <1>1, <1>3, <1>5, <2>3, <2>4
  <2> QED
    BY <2>5 DEF Up
<1> QED
  BY <1>2, <1>6, <1>7

(* last_confirmed_block_num of a witness is the number of its last block. *)
LastSigned ==
  \A w \in Witnesses :
     /\ d.confirmed[w] <= d.num
     /\ d.confirmed[w] > 0 => blocks[d.confirmed[w]].witness = w
     /\ \A i \in 1 .. d.num : blocks[i].witness = w => i <= d.confirmed[w]

(* No block is signed at genesis. *)
LEMMA LastSignedInit == Init => LastSigned
  BY GenesisFields DEF LastSigned

(* A block changes the last number of its witness only. *)
LEMMA LastSignedPush ==
  ASSUME Base, LastSigned, NEW b \in NewBlocks, Step(b)
  PROVE  LastSigned'
<1>1. /\ d.num \in Nat /\ d'.num = d.num + 1
      /\ \A i \in 1 .. d.num : blocks'[i] = blocks[i]
      /\ blocks'[d.num + 1].witness = b.witness
  <2>1. blocks'[d.num + 1] = [witness |-> b.witness, aslot |-> d'.aslot, judges |-> d.active]
    BY BlocksGrow
  <2>2. blocks'[d.num + 1].witness = b.witness
    BY <2>1
  <2> QED
    BY <2>2, BlocksGrow
<1>2. d.confirmed \in [Witnesses -> Nat] /\ b.witness \in Witnesses
  BY Fields DEF Base, Good, NewBlocks
<1>3. d'.confirmed = [d.confirmed EXCEPT ![b.witness] = d.num + 1]
  BY DEF Step, Signed
<1> SUFFICES ASSUME NEW w \in Witnesses
             PROVE  /\ d'.confirmed[w] <= d'.num
                    /\ d'.confirmed[w] > 0 => blocks'[d'.confirmed[w]].witness = w
                    /\ \A i \in 1 .. d'.num : blocks'[i].witness = w => i <= d'.confirmed[w]
  BY DEF LastSigned
<1>4. CASE w = b.witness
  <2>1. d'.confirmed[w] = d.num + 1
    BY <1>2, <1>3, <1>4
  <2> QED
    BY <1>1, <1>4, <2>1
<1>5. CASE w # b.witness
  <2>1. d'.confirmed[w] = d.confirmed[w] /\ d.confirmed[w] \in Nat
    BY <1>2, <1>3, <1>5
  <2>2. /\ d.confirmed[w] <= d.num
        /\ d.confirmed[w] > 0 => blocks[d.confirmed[w]].witness = w
        /\ \A i \in 1 .. d.num : blocks[i].witness = w => i <= d.confirmed[w]
    BY DEF LastSigned
  <2>3. d.confirmed[w] > 0 => blocks'[d.confirmed[w]].witness = w
    BY <1>1, <2>1, <2>2
  <2>4. ASSUME NEW i \in 1 .. d'.num, blocks'[i].witness = w PROVE i <= d.confirmed[w]
    <3>1. i # d.num + 1
      BY <1>1, <1>5, <2>4
    <3>2. i \in 1 .. d.num
      BY <1>1, <3>1
    <3> QED
      BY <1>1, <2>2, <2>4, <3>2
  <2> QED
    BY <1>1, <2>1, <2>2, <2>3, <2>4
<1> QED
  BY <1>4, <1>5

Majority(n, e) == 100 * n >= 70 * e

(* Enough of the witnesses that were active for block i have signed blocks  *)
(* from k up to i.                                                          *)
Witnessed(bs, k, i) ==
  Majority(Cardinality({w \in bs[i].judges : \E j \in k .. i : bs[j].witness = w}),
           Cardinality(bs[i].judges))

LibSound == d.lib <= d.num /\ (d.lib > 0 => \E i \in d.lib .. d.num : Witnessed(blocks, d.lib, i))

LibNewest == d.num > 0 => \A k \in 1 .. d.num : Witnessed(blocks, k, d.num) => k <= d.lib

(* A block keeps the irreversible number right. *)
LEMMA LibPush ==
  ASSUME Base, LastSigned, LibSound, NEW b \in NewBlocks, Step(b), Base', LastSigned'
  PROVE  LibSound' /\ LibNewest'
<1> DEFINE e == d.active
           n == d'.num
           g == Agreed(d, b)
           f == d'.confirmed
<1>1. /\ d.num \in Nat /\ n = d.num + 1 /\ n \in Nat
      /\ \A i \in 1 .. d.num : blocks'[i] = blocks[i]
      /\ blocks'[n].judges = e
  <2>1. blocks'[d.num + 1] = [witness |-> b.witness, aslot |-> d'.aslot, judges |-> d.active]
    BY BlocksGrow
  <2>2. blocks'[d.num + 1].judges = e
    BY <2>1
  <2>3. d'.num = d.num + 1 /\ d.num \in Nat /\ \A i \in 1 .. d.num : blocks'[i] = blocks[i]
    BY BlocksGrow
  <2> QED
    BY <2>2, <2>3
<1>2. IsFiniteSet(e) /\ Cardinality(e) \in Nat \ {0} /\ e \in SUBSET Witnesses
  BY ActiveFinite DEF Base
<1>3. f \in [Witnesses -> Nat] /\ f = Signed(d, b) /\ Slot(d, b) > 0
  BY Fields DEF Base, Good, Step
<1>4. Nth(f, e, IrreversibleOffset(Cardinality(e)), g) /\ g \in Nat
  BY <1>3, AgreedIsNth DEF Base
<1>5. d'.lib = IF g > d.lib THEN g ELSE d.lib
  BY DEF Step
<1>6. d.lib \in Nat
  BY Fields DEF Base, Good
<1>7. ASSUME NEW k \in Nat, k > 0
      PROVE  {w \in e : \E j \in k .. n : blocks'[j].witness = w} = {w \in e : f[w] >= k}
  <2>1. \A w \in Witnesses : (\E j \in k .. d'.num : blocks'[j].witness = w) <=> d'.confirmed[w] >= k
    <3>1. ASSUME NEW w \in Witnesses, NEW c, c = d'.confirmed[w]
          PROVE  (\E j \in k .. d'.num : blocks'[j].witness = w) <=> c >= k
      <4>1. d'.num \in Nat /\ c \in Nat
        BY <1>1, <1>3, <3>1
      <4>2. /\ c <= d'.num
            /\ c > 0 => blocks'[c].witness = w
            /\ \A i \in 1 .. d'.num : blocks'[i].witness = w => i <= c
        BY <3>1 DEF LastSigned
      <4>3. ASSUME NEW i \in k .. d'.num, blocks'[i].witness = w PROVE c >= k
        <5>1. i \in 1 .. d'.num /\ k <= i
          BY <1>7, <4>1
        <5> QED
          BY <4>1, <4>2, <4>3, <5>1
      <4>4. ASSUME c >= k PROVE \E i \in k .. d'.num : blocks'[i].witness = w
        <5>1. c \in k .. d'.num /\ c > 0
          BY <1>7, <4>1, <4>2, <4>4
        <5> QED
          BY <4>2, <5>1
      <4> QED
        BY <4>3, <4>4
    <3> QED
      BY <3>1
  <2> QED
    BY <1>2, <2>1
<1> HIDE DEF e, n, g, f
<1>8. \A w \in e : f[w] \in Nat
  BY <1>2, <1>3
<1>9. /\ Majority(Cardinality({w \in e : f[w] >= g}), Cardinality(e))
      /\ \A j \in Nat : j > g => ~Majority(Cardinality({w \in e : f[w] >= j}), Cardinality(e))
  <2>1. /\ 100 * Cardinality({w \in e : f[w] >= g}) >= 70 * Cardinality(e)
        /\ \A j \in Nat : j > g => 100 * Cardinality({w \in e : f[w] >= j}) < 70 * Cardinality(e)
    BY <1>2, <1>4, <1>8, NthMajority, ZenonT(30)
  <2>2. \A j : Cardinality({w \in e : f[w] >= j}) \in Nat
    <3> SUFFICES ASSUME NEW j PROVE Cardinality({w \in e : f[w] >= j}) \in Nat
      OBVIOUS
    <3> DEFINE T == {w \in e : f[w] >= j}
    <3>1. T \in SUBSET e
      OBVIOUS
    <3> HIDE DEF T
    <3>2. Cardinality(T) \in Nat
      BY <1>2, <3>1, FilterFinite
    <3> QED
      BY <3>2 DEF T
  <2> QED
    BY <1>2, <2>1, <2>2 DEF Majority
<1>10. ASSUME NEW k \in Nat, k > 0
       PROVE  Witnessed(blocks', k, n) <=> Majority(Cardinality({w \in e : f[w] >= k}), Cardinality(e))
  BY <1>1, <1>7, <1>10 DEF Witnessed
<1>11. LibNewest'
  <2> SUFFICES ASSUME NEW k \in 1 .. n, Witnessed(blocks', k, n) PROVE k <= d'.lib
    BY DEF LibNewest, n
  <2>1. k \in Nat /\ k > 0
    BY <1>1
  <2>2. ~(k > g)
    BY <1>9, <1>10, <2>1
  <2> QED
    BY <1>4, <1>5, <1>6, <2>1, <2>2
<1>12. g <= n
  <2>1. PICK w \in e : g = f[w]
    BY <1>4 DEF Nth
  <2>2. f[w] <= n
    BY <1>2, <2>1 DEF LastSigned, f, n
  <2> QED
    BY <2>1, <2>2
<1>13. LibSound'
  <2>1. CASE g > d.lib
    <3>1. d'.lib = g /\ g > 0
      BY <1>4, <1>5, <1>6, <2>1
    <3>2. Witnessed(blocks', g, n)
      BY <1>4, <1>9, <1>10, <3>1
    <3>3. n \in g .. n
      BY <1>1, <1>4, <1>12
    <3> QED
      BY <1>12, <3>1, <3>2, <3>3 DEF LibSound, n
  <2>2. CASE ~(g > d.lib)
    <3>1. d'.lib = d.lib /\ d.lib <= d.num
      BY <1>5, <2>2 DEF LibSound
    <3>2. ASSUME d.lib > 0
          PROVE  \E i \in d.lib .. n : Witnessed(blocks', d.lib, i)
      <4>1. PICK i \in d.lib .. d.num : Witnessed(blocks, d.lib, i)
        BY <3>2 DEF LibSound
      <4>2. i \in 1 .. d.num /\ i \in d.lib .. n
        BY <1>1, <1>6, <3>2
      <4>3. \A j \in d.lib .. i : j \in 1 .. d.num
        BY <1>1, <1>6, <3>2, <4>2
      <4>4. blocks'[i] = blocks[i] /\ \A j \in d.lib .. i : blocks'[j] = blocks[j]
        BY <1>1, <4>2, <4>3
      <4>5. {w \in blocks'[i].judges : \E j \in d.lib .. i : blocks'[j].witness = w}
            = {w \in blocks[i].judges : \E j \in d.lib .. i : blocks[j].witness = w}
        BY <4>4
      <4>6. Witnessed(blocks', d.lib, i)
        BY <4>1, <4>4, <4>5 DEF Witnessed
      <4> QED
        BY <4>2, <4>6
    <3>3. d'.lib <= n
      BY <1>1, <1>6, <3>1
    <3>4. d'.lib > 0 => \E i \in d'.lib .. n : Witnessed(blocks', d'.lib, i)
      BY <3>1, <3>2
    <3> QED
      BY <3>3, <3>4 DEF LibSound, n
  <2> QED
    BY <2>1, <2>2
<1> QED
  BY <1>11, <1>13

(* Blocks, who signed them, and how far the chain is irreversible. *)
Irreversibility == Base /\ LastSigned /\ LibSound /\ LibNewest

(* The invariant about irreversibility. *)
LEMMA IrreversibilityAlways == Spec => []Irreversibility
<1>1. Init => Irreversibility
  <2> SUFFICES ASSUME Init PROVE Irreversibility
    OBVIOUS
  <2>1. d.num = 0 /\ d.lib = 0
    BY GenesisFields
  <2>2. LibSound /\ LibNewest
    BY <2>1 DEF LibSound, LibNewest
  <2> QED
    BY <2>2, BaseInit, LastSignedInit DEF Irreversibility
<1>2. Irreversibility /\ [Next]_vars => Irreversibility'
  <2> SUFFICES ASSUME Irreversibility, [Next]_vars PROVE Irreversibility'
    OBVIOUS
  <2>0. Base'
    BY BaseStep DEF Irreversibility
  <2>1. CASE UNCHANGED vars
    BY <2>0, <2>1 DEF vars, Irreversibility, LastSigned, LibSound, LibNewest
  <2>2. CASE Next
    <3>1. PICK b \in NewBlocks : Step(b)
      BY <2>2, NextIsStep DEF Irreversibility, Base
    <3>2. LastSigned'
      BY <3>1, LastSignedPush DEF Irreversibility
    <3> QED
      BY <2>0, <3>1, <3>2, LibPush DEF Irreversibility
  <2> QED
    BY <2>1, <2>2
<1> QED
  BY <1>1, <1>2, PTL DEF Spec

(* The property's count of confirmations is the invariant's. *)
LEMMA ConfirmedIsWitnessed ==
  ASSUME Base, d.num > 0, NEW k
  PROVE  Confirmed(k, blocks[d.num].judges) <=> Witnessed(blocks, k, d.num)
<1>1. Len(blocks) = d.num
  BY DEF Base
<1>2. BuiltOn(k, blocks[d.num].judges)
        = {w \in blocks[d.num].judges : \E j \in k .. d.num : blocks[j].witness = w}
  BY <1>1 DEF BuiltOn
<1> QED
  BY <1>2 DEF Confirmed, Witnessed, Majority, IrreversibleThreshold

(* The last irreversible block is the newest one that 70 percent of the     *)
(* active witnesses built on, or an older one of an earlier electorate, for *)
(* every number of witnesses and whatever elections, missed slots and       *)
(* changes of the interval came before.                                     *)
THEOREM MajorityMakesIrreversible == Spec => []IrreversibleByMajority
<1>1. Irreversibility => IrreversibleByMajority
  <2> SUFFICES ASSUME Irreversibility PROVE IrreversibleByMajority
    OBVIOUS
  <2>1. d.lib <= d.num
    BY DEF Irreversibility, LibSound
  <2>2. ASSUME d.num > 0, NEW k \in 1 .. d.num, Confirmed(k, blocks[d.num].judges)
        PROVE  k <= d.lib
    <3>1. Witnessed(blocks, k, d.num)
      BY <2>2, ConfirmedIsWitnessed DEF Irreversibility
    <3> QED
      BY <2>2, <3>1 DEF Irreversibility, LibNewest
  <2>3. ASSUME d.lib > 0
        PROVE  \E i \in d.lib .. d.num :
                  LET e == blocks[i].judges
                  IN  100 * Cardinality({w \in e : \E j \in d.lib .. i : blocks[j].witness = w})
                        >= IrreversibleThreshold * Cardinality(e)
    <3>1. PICK i \in d.lib .. d.num : Witnessed(blocks, d.lib, i)
      BY <2>3 DEF Irreversibility, LibSound
    <3> QED
      BY <3>1 DEF Witnessed, Majority, IrreversibleThreshold
  <2> QED
    BY <2>1, <2>2, <2>3 DEF IrreversibleByMajority
<1> QED
  BY <1>1, IrreversibilityAlways, PTL

(* A chain that has run out of undo history has lost more than 30 percent   *)
(* of its witnesses since the last irreversible block.                      *)
THEOREM StopsWithoutMajority == Spec => []StopsOnlyWithoutMajority
<1>1. Irreversibility => StopsOnlyWithoutMajority
  <2> SUFFICES ASSUME Irreversibility, d.num > 0, Confirmed(d.lib + 1, blocks[d.num].judges)
               PROVE  FALSE
    BY DEF StopsOnlyWithoutMajority
  <2>0. Base /\ d.num \in Nat /\ d.lib \in Nat
    BY Fields DEF Irreversibility, Base, Good
  <2>1. Witnessed(blocks, d.lib + 1, d.num)
    BY <2>0, ConfirmedIsWitnessed
  <2>2. CASE d.lib + 1 <= d.num
    <3>1. d.lib + 1 \in 1 .. d.num
      BY <2>0, <2>2
    <3>2. d.lib + 1 <= d.lib
      BY <2>1, <3>1 DEF Irreversibility, LibNewest
    <3> QED
      BY <2>0, <3>2
  <2>3. CASE ~(d.lib + 1 <= d.num)
    <3> DEFINE e == blocks[d.num].judges
               T == {w \in e : \E j \in d.lib + 1 .. d.num : blocks[j].witness = w}
    <3>1. T = {}
      BY <2>0, <2>3
    <3>2. blocks[d.num] \in Entries
      BY <2>0 DEF Base
    <3>3. e \in SUBSET Witnesses /\ e # {}
      BY <3>2 DEF Entries
    <3>4. Cardinality(e) \in Nat \ {0}
      BY <3>3, SlotAssumption, FS_Subset, FS_CardinalityType, FS_EmptySet
    <3>5. Cardinality(T) = 0
      BY <3>1, FS_EmptySet
    <3>6. 100 * 0 >= 70 * Cardinality(e)
      BY <2>1, <3>5 DEF Witnessed, Majority
    <3> QED
      BY <3>4, <3>6
  <2> QED
    BY <2>2, <2>3
<1> QED
  BY <1>1, IrreversibilityAlways, PTL

-----------------------------------------------------------------------------
(* Missed slots *)

(* Who is scheduled is a witness. *)
LEMMA ScheduledIsWitness ==
  ASSUME NEW r, Good(r), NEW i \in Nat
  PROVE  GetScheduledWitness(r, i) \in Witnesses
<1>1. r.sched \in Seq(Witnesses) /\ Len(r.sched) \in Nat \ {0} /\ r.aslot \in Nat
  BY Fields DEF Good
<1>2. (r.aslot + i) % Len(r.sched) \in 0 .. (Len(r.sched) - 1)
  <2>1. r.aslot + i \in Nat
    BY <1>1
  <2> QED
    BY <1>1, <2>1, DivMod
<1>3. ((r.aslot + i) % Len(r.sched)) + 1 \in 1 .. Len(r.sched)
  BY <1>1, <1>2
<1> QED
  BY <1>1, <1>3 DEF GetScheduledWitness

(* The slots of a gap, counted by witness, are the slots of the gap. *)
LEMMA ChargesAddUp ==
  ASSUME NEW r, Good(r), NEW m \in Nat
  PROVE  SumFunctionOnSet([w \in Witnesses |->
             Cardinality({i \in 1 .. m : GetScheduledWitness(r, i) = w})], Witnesses) = m
<1> DEFINE K == 1 .. m
           b == [i \in K |-> GetScheduledWitness(r, i)]
           group == [w \in Witnesses |-> {i \in K : GetScheduledWitness(r, i) = w}]
           ones == [i \in K |-> 1]
           g == [w \in Witnesses |-> Cardinality({i \in K : GetScheduledWitness(r, i) = w})]
<1>1. IsFiniteSet(K) /\ Cardinality(K) = m
  BY FS_Interval
<1>2. IsFiniteSet(Witnesses)
  BY SlotAssumption
<1>3. \A w \in Witnesses : group[w] \in SUBSET K
  OBVIOUS
<1>4. \A i \in K : b[i] \in Witnesses /\ \A w \in Witnesses : i \in group[w] <=> b[i] = w
  BY ScheduledIsWitness
<1>5. \A i \in K : ones[i] \in Int /\ ones[i] = 1
  OBVIOUS
<1>6. \A w \in Witnesses : g[w] = Cardinality(group[w])
  OBVIOUS
<1> HIDE DEF K, b, group, ones, g
<1>7. \A w \in Witnesses : g[w] = SumFunctionOnSet(ones, group[w])
  <2> SUFFICES ASSUME NEW w \in Witnesses PROVE Cardinality(group[w]) = SumFunctionOnSet(ones, group[w])
    BY <1>6
  <2>1. IsFiniteSet(group[w]) /\ \A i \in group[w] : ones[i] = 1
    BY <1>1, <1>3, <1>5, FS_Subset
  <2> QED
    BY <2>1, SumOnes
<1>8. SumFunctionOnSet(g, Witnesses) = SumFunctionOnSet(ones, K)
  BY <1>1, <1>2, <1>3, <1>4, <1>5, <1>7, SumGroups
<1>9. SumFunctionOnSet(ones, K) = m
  BY <1>1, <1>5, SumOnes
<1> QED
  BY <1>8, <1>9 DEF g, K

(* A block keeps the account of the missed slots. *)
LEMMA ChargedPush ==
  ASSUME Base, MissesCharged, NEW b \in NewBlocks, Step(b)
  PROVE  MissesCharged'
<1> DEFINE m == Slot(d, b) - 1
           old == SumFunctionOnSet(d.missed, Witnesses)
           g == [w \in Witnesses |-> Cardinality({i \in 1 .. m : GetScheduledWitness(d, i) = w})]
<1>1. m \in Nat /\ d'.aslot = d.aslot + m + 1 /\ d'.num = d.num + 1 /\ d'.missed = Charged(d, b)
  <2>1. d.aslot \in Nat
    BY Fields DEF Base, Good
  <2> QED
    BY <2>1 DEF Step
<1>2. /\ d.aslot \in Nat /\ d.num \in Nat /\ d.missed \in [Witnesses -> Nat] /\ long \in Nat
      /\ IsFiniteSet(Witnesses) /\ Good(d)
  BY Fields, SlotAssumption DEF Base, Good
<1>3. d.aslot = d.num + old + long
  BY DEF MissesCharged
<1>4. old \in Int
  BY <1>2, SumInt
<1>5. CASE m < Len(d.sched)
  <2>1. Charged(d, b) = [w \in Witnesses |-> d.missed[w] + g[w]]
    BY <1>5 DEF Charged
  <2>2. long' = long
    BY <1>2, <1>5 DEF Step
  <2>3. SumFunctionOnSet(g, Witnesses) = m
    BY <1>1, <1>2, ChargesAddUp
  <2>4. \A w \in Witnesses : g[w] \in Int
    <3> SUFFICES ASSUME NEW w \in Witnesses PROVE g[w] \in Int
      OBVIOUS
    <3> DEFINE T == {i \in 1 .. m : GetScheduledWitness(d, i) = w}
    <3>1. IsFiniteSet(1 .. m) /\ T \in SUBSET (1 .. m)
      BY <1>1, FS_Interval
    <3>2. g[w] = Cardinality(T)
      OBVIOUS
    <3> HIDE DEF T, g
    <3>3. Cardinality(T) \in Nat
      BY <3>1, FilterFinite
    <3> QED
      BY <3>2, <3>3
  <2> HIDE DEF g, m, old
  <2>5. SumFunctionOnSet(Charged(d, b), Witnesses) = old + m
    <3> DEFINE h == Charged(d, b)
    <3>1. \A w \in Witnesses : d.missed[w] \in Int /\ g[w] \in Int /\ h[w] = d.missed[w] + g[w]
      BY <1>2, <2>1, <2>4
    <3> HIDE DEF h
    <3>2. SumFunctionOnSet(h, Witnesses) = SumFunctionOnSet(d.missed, Witnesses) + SumFunctionOnSet(g, Witnesses)
      BY <1>2, <3>1, SumPlus
    <3> QED
      BY <2>3, <3>2 DEF h, old
  <2> QED
    BY <1>1, <1>2, <1>3, <1>4, <2>2, <2>5 DEF MissesCharged
<1>6. CASE ~(m < Len(d.sched))
  <2>1. Charged(d, b) = d.missed
    BY <1>6 DEF Charged
  <2>2. long' = long + m
    BY <1>6 DEF Step
  <2> HIDE DEF m
  <2>3. SumFunctionOnSet(d'.missed, Witnesses) = old
    BY <1>1, <2>1
  <2> HIDE DEF old
  <2> QED
    BY <1>1, <1>2, <1>3, <1>4, <2>2, <2>3 DEF MissesCharged
<1> QED
  BY <1>5, <1>6

(* A slot, moved up by Window so that it is a natural number, with a block. *)
Present(bs, s) == s <= Window \/ \E j \in DOMAIN bs : bs[j].aslot + Window = s

(* recent_slots_filled, bit by bit: the bit of a slot tells whether the     *)
(* slot before it has a block.                                              *)
BitsOneLate == \A i \in 1 .. Window : d.filled[i] = 1 <=> Present(blocks, d.aslot + i - 1)

(* The last block is in the current slot. *)
LastSlot ==
  /\ \A j \in DOMAIN blocks : blocks[j].aslot <= d.aslot
  /\ IF d.num = 0 THEN d.aslot = 0 ELSE blocks[d.num].aslot = d.aslot

(* A block keeps the meaning of the bits. *)
LEMMA BitsPush ==
  ASSUME Base, BitsOneLate, LastSlot, NEW b \in NewBlocks, Step(b)
  PROVE  BitsOneLate' /\ LastSlot'
<1> DEFINE s == Slot(d, b)
           A == d.aslot
<1>1. /\ d.num \in Nat /\ d'.num = d.num + 1 /\ DOMAIN blocks = 1 .. d.num
      /\ DOMAIN blocks' = 1 .. (d.num + 1)
      /\ \A i \in 1 .. d.num : blocks'[i] = blocks[i]
      /\ blocks'[d.num + 1].aslot = d'.aslot
  <2>1. blocks'[d.num + 1] = [witness |-> b.witness, aslot |-> d'.aslot, judges |-> d.active]
    BY BlocksGrow
  <2>2. blocks'[d.num + 1].aslot = d'.aslot
    BY <2>1
  <2>3. /\ d'.num = d.num + 1 /\ d.num \in Nat /\ \A i \in 1 .. d.num : blocks'[i] = blocks[i]
        /\ blocks \in Seq(Entries) /\ blocks' \in Seq(Entries) /\ Len(blocks) = d.num
        /\ Len(blocks') = d.num + 1
    BY BlocksGrow DEF Base
  <2> QED
    BY <2>2, <2>3
<1>2. /\ s \in Nat \ {0} /\ A \in Nat /\ d'.aslot = A + s /\ Window \in Nat \ {0}
      /\ d.filled \in Bits /\ s - 1 \in Nat
  <2>1. A \in Nat /\ d.filled \in Bits /\ Window \in Nat \ {0}
    BY Fields, SlotAssumption DEF Base, Good
  <2> QED
    BY <2>1 DEF Step
<1>3. ASSUME NEW i \in 1 .. Window
      PROVE  d'.filled[i] = IF i + s <= Window THEN d.filled[i + s]
                            ELSE IF i + s = Window + 1 THEN 1 ELSE 0
  <2> DEFINE m == s - 1
  <2>1. d'.filled = FilledAfter(d.filled, m) /\ m \in Nat /\ s = m + 1
    BY <1>2 DEF Step
  <2> HIDE DEF m, s
  <2>2. FilledAfter(d.filled, m)[i] = IF i + m + 1 <= Window THEN d.filled[i + m + 1]
                                      ELSE IF i + m = Window THEN 1 ELSE 0
    BY <1>2, <2>1, FilledBits
  <2>3. i + m + 1 = i + s /\ (i + m = Window <=> i + s = Window + 1)
    BY <1>2, <2>1
  <2> QED
    BY <2>1, <2>2, <2>3
<1>4. /\ \A j \in 1 .. d.num : blocks[j].aslot <= A /\ blocks[j].aslot \in Nat
      /\ d.num = 0 => A = 0
      /\ d.num # 0 => blocks[d.num].aslot = A
  <2>1. \A j \in 1 .. d.num : blocks[j] \in Entries
    BY <1>1 DEF Base
  <2>2. \A j \in 1 .. d.num : blocks[j].aslot \in Nat
    BY <2>1 DEF Entries
  <2> QED
    BY <1>1, <2>2 DEF LastSlot
<1> HIDE DEF s, A
<1>5. LastSlot'
  <2>1. \A j \in 1 .. (d.num + 1) : blocks'[j].aslot <= d'.aslot
    <3> SUFFICES ASSUME NEW j \in 1 .. (d.num + 1) PROVE blocks'[j].aslot <= d'.aslot
      OBVIOUS
    <3>1. CASE j = d.num + 1
      BY <1>1, <1>2, <3>1
    <3>2. CASE j # d.num + 1
      <4>1. j \in 1 .. d.num
        BY <1>1, <3>2
      <4> QED
        BY <1>1, <1>2, <1>4, <4>1
    <3> QED
      BY <3>1, <3>2
  <2>2. d'.num # 0
    BY <1>1
  <2> QED
    BY <1>1, <2>1, <2>2 DEF LastSlot
<1>6. ASSUME NEW i \in 1 .. Window
      PROVE  (d'.filled[i] = 1) <=> Present(blocks', d'.aslot + i - 1)
  <2> DEFINE x == d'.aslot + i - 1
  <2>0. x = A + s + i - 1 /\ x \in Nat
    BY <1>2
  <2>1. Present(blocks', x) <=> Present(blocks, x)
    <3>1. blocks'[d.num + 1].aslot + Window # x
      BY <1>1, <1>2, <2>0
    <3>2. (\E j \in DOMAIN blocks' : blocks'[j].aslot + Window = x)
            <=> (\E j \in DOMAIN blocks : blocks[j].aslot + Window = x)
      <4>1. ASSUME NEW j \in DOMAIN blocks', blocks'[j].aslot + Window = x
            PROVE  j \in DOMAIN blocks /\ blocks[j].aslot + Window = x
        <5>1. j # d.num + 1
          BY <3>1, <4>1
        <5>2. j \in 1 .. d.num
          BY <1>1, <5>1
        <5> QED
          BY <1>1, <4>1, <5>2
      <4>2. ASSUME NEW j \in DOMAIN blocks, blocks[j].aslot + Window = x
            PROVE  j \in DOMAIN blocks' /\ blocks'[j].aslot + Window = x
        <5>1. j \in 1 .. d.num /\ j \in 1 .. (d.num + 1)
          BY <1>1
        <5> QED
          BY <1>1, <4>2, <5>1
      <4> QED
        BY <4>1, <4>2
    <3> QED
      BY <3>2 DEF Present
  <2>2. CASE i + s <= Window
    <3>1. i + s \in 1 .. Window /\ A + (i + s) - 1 = x
      BY <1>2, <2>0, <2>2
    <3>2. (d.filled[i + s] = 1) <=> Present(blocks, A + (i + s) - 1)
      BY <3>1 DEF BitsOneLate, A
    <3>3. d'.filled[i] = d.filled[i + s]
      BY <1>3, <2>2
    <3> QED
      BY <2>1, <3>1, <3>2, <3>3
  <2>3. CASE i + s = Window + 1
    <3>1. x = A + Window
      BY <1>2, <2>0, <2>3
    <3>2. Present(blocks, x)
      <4>1. CASE d.num = 0
        BY <1>2, <1>4, <3>1, <4>1 DEF Present
      <4>2. CASE d.num # 0
        <5>1. d.num \in DOMAIN blocks /\ blocks[d.num].aslot + Window = x
          BY <1>1, <1>4, <3>1, <4>2
        <5> QED
          BY <5>1 DEF Present
      <4> QED
        BY <4>1, <4>2
    <3>3. d'.filled[i] = 1
      BY <1>2, <1>3, <2>3
    <3> QED
      BY <2>1, <3>2, <3>3
  <2>4. CASE i + s > Window + 1
    <3>1. x > A + Window
      BY <1>2, <2>0, <2>4
    <3>2. ~Present(blocks, x)
      <4>1. ~(x <= Window)
        BY <1>2, <2>0, <3>1
      <4>2. ASSUME NEW j \in DOMAIN blocks PROVE blocks[j].aslot + Window # x
        BY <1>1, <1>2, <1>4, <2>0, <3>1
      <4> QED
        BY <4>1, <4>2 DEF Present
    <3>3. d'.filled[i] = 0
      BY <1>2, <1>3, <2>4
    <3> QED
      BY <2>1, <3>2, <3>3
  <2> QED
    BY <1>2, <2>2, <2>3, <2>4
<1> QED
  BY <1>5, <1>6 DEF BitsOneLate

(* Two sets that differ only in an element each. *)
LEMMA WithinOne ==
  ASSUME NEW S, IsFiniteSet(S), NEW T, IsFiniteSet(T), NEW x, NEW y, S \ {x} = T \ {y}
  PROVE  /\ Cardinality(S) \in Nat /\ Cardinality(T) \in Nat
         /\ Cardinality(S) <= Cardinality(T) + 1 /\ Cardinality(T) <= Cardinality(S) + 1
<1>1. ASSUME NEW U, IsFiniteSet(U), NEW z
      PROVE  /\ Cardinality(U \ {z}) \in Nat /\ Cardinality(U) \in Nat
             /\ Cardinality(U \ {z}) <= Cardinality(U)
             /\ Cardinality(U) <= Cardinality(U \ {z}) + 1
  <2>1. Cardinality(U) \in Nat
    BY <1>1, FS_CardinalityType
  <2>2. CASE z \in U
    <3>1. Cardinality(U \ {z}) = Cardinality(U) - 1 /\ IsFiniteSet(U \ {z})
      BY <1>1, <2>2, FS_RemoveElement
    <3>2. Cardinality(U \ {z}) \in Nat
      BY <3>1, FS_CardinalityType
    <3> QED
      BY <2>1, <3>1, <3>2
  <2>3. CASE z \notin U
    <3>1. U \ {z} = U
      BY <2>3
    <3> QED
      BY <2>1, <3>1
  <2> QED
    BY <2>2, <2>3
<1>2. /\ Cardinality(S \ {x}) \in Nat /\ Cardinality(S) \in Nat
      /\ Cardinality(S \ {x}) <= Cardinality(S)
      /\ Cardinality(S) <= Cardinality(S \ {x}) + 1
  BY <1>1
<1>3. /\ Cardinality(T \ {y}) \in Nat /\ Cardinality(T) \in Nat
      /\ Cardinality(T \ {y}) <= Cardinality(T)
      /\ Cardinality(T) <= Cardinality(T \ {y}) + 1
  BY <1>1
<1>4. Cardinality(S \ {x}) = Cardinality(T \ {y})
  OBVIOUS
<1> QED
  BY <1>2, <1>3, <1>4

(* Bits that are one slot late count the filled slots within one. *)
LEMMA BitsGiveRate == Base /\ BitsOneLate => ParticipationWithinOne
<1> SUFFICES ASSUME Base, BitsOneLate PROVE ParticipationWithinOne
  OBVIOUS
<1> DEFINE A == d.aslot
           actual == {s \in (A + 1) .. (A + Window) : Present(blocks, s)}
           late == {s \in A .. (A + Window - 1) : Present(blocks, s)}
           counted == {i \in 1 .. Window : d.filled[i] = 1}
<1>1. A \in Nat /\ Window \in Nat \ {0}
  BY Fields, SlotAssumption DEF Base, Good
<1>2. IsFiniteSet(actual) /\ IsFiniteSet(late) /\ IsFiniteSet(counted)
  <2>1. IsFiniteSet((A + 1) .. (A + Window)) /\ IsFiniteSet(A .. (A + Window - 1)) /\ IsFiniteSet(1 .. Window)
    <3>1. {1, Window, A, A + 1, A + Window, A + Window - 1} \subseteq Int
      BY <1>1
    <3> HIDE DEF A
    <3> QED
      BY <3>1, FS_Interval
  <2>2. /\ actual \in SUBSET ((A + 1) .. (A + Window)) /\ late \in SUBSET (A .. (A + Window - 1))
        /\ counted \in SUBSET (1 .. Window)
    OBVIOUS
  <2> HIDE DEF actual, late, counted
  <2> QED
    BY <2>1, <2>2, FS_Subset
<1>3. actual \ {A + Window} = late \ {A}
  <2> HIDE DEF A
  <2>1. ASSUME NEW s PROVE (s \in actual \ {A + Window}) <=> (s \in late \ {A})
    BY <1>1
  <2> QED
    BY <2>1
<1>4. \A i \in 1 .. Window : (d.filled[i] = 1) <=> Present(blocks, A + i - 1)
  BY DEF BitsOneLate
<1>5. Cardinality(late) = Cardinality(counted)
  <2> DEFINE f == [i \in counted |-> A + i - 1]
  <2> HIDE DEF A
  <2>1. f \in [counted -> late]
    <3> SUFFICES ASSUME NEW i \in counted PROVE A + i - 1 \in late
      OBVIOUS
    <3>1. i \in 1 .. Window /\ Present(blocks, A + i - 1)
      BY <1>4
    <3>2. A + i - 1 \in A .. (A + Window - 1)
      BY <1>1, <3>1
    <3> QED
      BY <3>1, <3>2
  <2>2. \A i, j \in counted : f[i] = f[j] => i = j
    BY <1>1
  <2>3. \A s \in late : \E i \in counted : f[i] = s
    <3> SUFFICES ASSUME NEW s \in late PROVE \E i \in counted : f[i] = s
      OBVIOUS
    <3> DEFINE i == s - A + 1
    <3>1. i \in 1 .. Window /\ A + i - 1 = s
      BY <1>1
    <3>2. Present(blocks, s)
      OBVIOUS
    <3>3. i \in counted
      <4> HIDE DEF i
      <4> QED
        BY <1>4, <3>1, <3>2
    <3>4. f[i] = s
      <4> HIDE DEF i
      <4> QED
        BY <3>1, <3>3
    <3> QED
      BY <3>3, <3>4
  <2>4. f \in Bijection(counted, late)
    <3> HIDE DEF f, counted, late
    <3> QED
      BY <2>1, <2>2, <2>3 DEF Bijection, Injection, Surjection, IsInjective
  <2> HIDE DEF f, counted, late
  <2> QED
    BY <1>2, <2>4, FS_Bijection DEF ExistsBijection
<1>6. /\ Cardinality(actual) \in Nat /\ Cardinality(late) \in Nat
      /\ Cardinality(actual) <= Cardinality(late) + 1 /\ Cardinality(late) <= Cardinality(actual) + 1
  <2> HIDE DEF actual, late, A
  <2> QED
    BY <1>2, <1>3, WithinOne
<1>7. actual = {s \in (d.aslot + 1) .. (d.aslot + Window) :
                   s <= Window \/ \E i \in DOMAIN blocks : blocks[i].aslot + Window = s}
  BY DEF Present
<1> HIDE DEF actual, late
<1> QED
  BY <1>5, <1>6, <1>7 DEF ParticipationWithinOne

Misses == Base /\ MissesCharged /\ BitsOneLate /\ LastSlot

(* The invariant about missed slots. *)
LEMMA MissesAlways == Spec => []Misses
<1>1. Init => Misses
  <2> SUFFICES ASSUME Init PROVE Misses
    OBVIOUS
  <2>1. /\ d.num = 0 /\ d.aslot = 0 /\ d.filled = [i \in 1 .. Window |-> 1]
        /\ d.missed = [w \in Witnesses |-> 0] /\ blocks = <<>> /\ long = 0
    BY GenesisFields
  <2>2. MissesCharged
    <3>1. SumFunctionOnSet(d.missed, Witnesses) = 0
      BY <2>1, SlotAssumption, SumZero
    <3> QED
      BY <2>1, <3>1 DEF MissesCharged
  <2>3. BitsOneLate
    <3>1. Window \in Nat
      BY SlotAssumption
    <3> QED
      BY <2>1, <3>1 DEF BitsOneLate, Present
  <2>4. LastSlot
    BY <2>1 DEF LastSlot
  <2> QED
    BY <2>2, <2>3, <2>4, BaseInit DEF Misses
<1>2. Misses /\ [Next]_vars => Misses'
  <2> SUFFICES ASSUME Misses, [Next]_vars PROVE Misses'
    OBVIOUS
  <2>0. Base'
    BY BaseStep DEF Misses
  <2>1. CASE UNCHANGED vars
    BY <2>0, <2>1 DEF vars, Misses, MissesCharged, BitsOneLate, LastSlot
  <2>2. CASE Next
    <3>1. PICK b \in NewBlocks : Step(b)
      BY <2>2, NextIsStep DEF Misses, Base
    <3>2. MissesCharged'
      BY <3>1, ChargedPush DEF Misses
    <3>3. BitsOneLate' /\ LastSlot'
      BY <3>1, BitsPush DEF Misses
    <3> QED
      BY <2>0, <3>2, <3>3 DEF Misses
  <2> QED
    BY <2>1, <2>2
<1> QED
  BY <1>1, <1>2, PTL DEF Spec

(* Every missed slot is charged to one witness or belongs to a gap of a     *)
(* whole round, and the participation rate is right within one slot, for    *)
(* any width of recent_slots_filled and any pattern of gaps.                *)
THEOREM MissesAreAccounted == Spec => []MissesAccounted
<1>1. Misses => MissesAccounted
  BY BitsGiveRate DEF Misses, MissesAccounted
<1> QED
  BY <1>1, MissesAlways, PTL

-----------------------------------------------------------------------------
(* Turns *)

(* Since the slot a the schedule has not changed and turns has everyone who *)
(* was scheduled; there were at least as many slots as blocks.              *)
TurnsSince(r, turns, a) ==
  /\ a <= r.aslot /\ r.num % Len(r.sched) <= r.aslot - a
  /\ \A x \in (a + 1) .. r.aslot : r.sched[(x % Len(r.sched)) + 1] \in turns

Turns == round.kept => \E a \in Nat : TurnsSince(d, round.turns, a)

(* Who is scheduled in the slots of a step. *)
LEMMA TurnsOfStep ==
  ASSUME Base, NEW b \in NewBlocks, Step(b), NEW a \in Nat, TurnsSince(d, round.turns, a),
         NEW x \in (a + 1) .. d'.aslot
  PROVE  d.sched[(x % Len(d.sched)) + 1]
           \in round.turns \cup {GetScheduledWitness(d, i) : i \in 1 .. Slot(d, b)}
<1>1. d.aslot \in Nat /\ d'.aslot = d.aslot + Slot(d, b) /\ Slot(d, b) \in Nat
  BY Fields DEF Base, Good, Step
<1>2. CASE x <= d.aslot
  <2>1. x \in (a + 1) .. d.aslot
    BY <1>1, <1>2
  <2> QED
    BY <2>1 DEF TurnsSince
<1>3. CASE ~(x <= d.aslot)
  <2> DEFINE i == x - d.aslot
  <2>1. i \in 1 .. Slot(d, b) /\ d.aslot + i = x
    BY <1>1, <1>3
  <2> HIDE DEF i
  <2>2. GetScheduledWitness(d, i) = d.sched[(x % Len(d.sched)) + 1]
    BY <2>1 DEF GetScheduledWitness
  <2> QED
    BY <2>1, <2>2
<1> QED
  BY <1>2, <1>3

(* A block keeps the invariant about turns. *)
LEMMA TurnsPush ==
  ASSUME Base, Turns, NEW b \in NewBlocks, Step(b)
  PROVE  Turns'
<1>0. /\ d.num \in Nat /\ d.aslot \in Nat /\ Len(d.sched) \in Nat \ {0}
      /\ d'.aslot = d.aslot + Slot(d, b) /\ Slot(d, b) \in Nat /\ Slot(d, b) > 0 /\ d'.num = d.num + 1
      /\ d'.active \in SUBSET Witnesses /\ d'.active # {} /\ Good(d')
  <2>1. d.num \in Nat /\ d.aslot \in Nat /\ Len(d.sched) \in Nat \ {0}
    BY Fields DEF Base, Good
  <2>2. Good(d') /\ d'.active \in SUBSET Witnesses /\ d'.active # {}
    BY Fields DEF Good, Step
  <2> QED
    BY <2>1, <2>2 DEF Step
<1>1. CASE ShuffleDue(d')
  <2>1. d'.sched \in Schedules(d'.active)
    BY <1>1 DEF Step
  <2>2. Len(d'.sched) = Cardinality(d'.active)
    BY <1>0, <2>1, SchedulesAreSeqs
  <2>3. d'.num % Len(d'.sched) = 0
    BY <1>1, <2>2 DEF ShuffleDue
  <2>4. d'.aslot \in Nat
    BY <1>0
  <2>5. TurnsSince(d', round'.turns, d'.aslot)
    <3>1. \A x \in (d'.aslot + 1) .. d'.aslot : FALSE
      BY <2>4
    <3>2. d'.aslot <= d'.aslot /\ d'.num % Len(d'.sched) <= d'.aslot - d'.aslot
      BY <2>3, <2>4
    <3> QED
      BY <3>1, <3>2 DEF TurnsSince
  <2> QED
    BY <2>4, <2>5 DEF Turns
<1>2. CASE ~ShuffleDue(d')
  <2> SUFFICES ASSUME round'.kept PROVE \E a \in Nat : TurnsSince(d', round'.turns, a)
    BY DEF Turns
  <2>1. round' = [turns |-> round.turns \cup {GetScheduledWitness(d, i) : i \in 1 .. Slot(d, b)},
                  kept  |-> round.kept /\ Cardinality(d'.active) = Len(d.sched)]
    BY <1>2 DEF Step
  <2>2. round.kept /\ Cardinality(d'.active) = Len(d.sched)
    BY <2>1
  <2>3. d'.sched = d.sched
    BY <1>2 DEF Step
  <2>4. PICK a \in Nat : TurnsSince(d, round.turns, a)
    BY <2>2 DEF Turns
  <2>5. a <= d.aslot /\ d.num % Len(d.sched) <= d.aslot - a
    BY <2>4 DEF TurnsSince
  <2> DEFINE l == Len(d.sched)
  <2>6. d.num % l \in 0 .. (l - 1) /\ (d.num + 1) % l = IF d.num % l = l - 1 THEN 0 ELSE (d.num % l) + 1
    BY <1>0, DivMod, ModStep
  <2>7. a <= d'.aslot /\ d'.num % l <= d'.aslot - a
    <3>1. (d.num + 1) % l <= (d.num % l) + 1
      BY <1>0, <2>6
    <3> HIDE DEF l
    <3>2. d.num % l <= d.aslot - a
      BY <2>5 DEF l
    <3>3. d'.num % l = (d.num + 1) % l
      BY <1>0
    <3>4. (d.num + 1) % l \in Nat /\ d.num % l \in Nat
      <4>1. l \in Nat \ {0}
        BY <1>0 DEF l
      <4> QED
        BY <1>0, <2>6, <4>1
    <3> QED
      BY <1>0, <2>5, <3>1, <3>2, <3>3, <3>4
  <2>8. \A x \in (a + 1) .. d'.aslot : d'.sched[(x % Len(d'.sched)) + 1] \in round'.turns
    BY <2>1, <2>3, <2>4, TurnsOfStep
  <2>9. TurnsSince(d', round'.turns, a)
    BY <2>3, <2>7, <2>8 DEF TurnsSince
  <2> QED
    BY <2>9
<1> QED
  BY <1>1, <1>2

(* The invariant about turns. *)
LEMMA TurnsAlways == Spec => [](Base /\ Turns)
<1>1. Init => Base /\ Turns
  <2> SUFFICES ASSUME Init PROVE Turns
    BY BaseInit
  <2>1. d.num = 0 /\ d.aslot = 0 /\ Len(d.sched) \in Nat \ {0}
    <3>1. Good(d)
      BY GenesisGood
    <3> QED
      BY <3>1, GenesisFields, Fields DEF Good
  <2>2. 0 % Len(d.sched) = 0
    BY <2>1, ZeroMod
  <2>3. \A x \in (0 + 1) .. d.aslot : FALSE
    BY <2>1
  <2>4. 0 <= d.aslot /\ d.num % Len(d.sched) <= d.aslot - 0
    <3> DEFINE m == d.num % Len(d.sched)
    <3>1. m = 0
      BY <2>1, <2>2
    <3> HIDE DEF m
    <3>2. 0 <= d.aslot /\ m <= d.aslot - 0
      BY <2>1, <3>1
    <3> QED
      BY <3>2 DEF m
  <2>5. TurnsSince(d, round.turns, 0)
    BY <2>3, <2>4 DEF TurnsSince
  <2> QED
    BY <2>5 DEF Turns
<1>2. (Base /\ Turns) /\ [Next]_vars => (Base /\ Turns)'
  <2> SUFFICES ASSUME Base, Turns, [Next]_vars PROVE Turns'
    BY BaseStep
  <2>1. CASE UNCHANGED vars
    BY <2>1 DEF vars, Turns, TurnsSince
  <2>2. CASE Next
    <3>1. PICK b \in NewBlocks : Step(b)
      BY <2>2, NextIsStep DEF Base
    <3> QED
      BY <3>1, TurnsPush
  <2> QED
    BY <2>1, <2>2
<1> QED
  BY <1>1, <1>2, PTL DEF Spec

(* While the number of witnesses stays the same, no shuffle comes before    *)
(* every scheduled witness has had a slot.                                  *)
THEOREM TurnsForEveryone == Spec => EveryoneGetsATurn
<1> DEFINE turn == LET slot  == GetSlotAtTime(d, d'.time)
                       turns == round.turns \cup {GetScheduledWitness(d, i) : i \in 1 .. slot}
                   IN  ShuffleDue(d') /\ round.kept /\ Cardinality(d'.active) = Len(d.sched)
                         => {d.sched[i] : i \in DOMAIN d.sched} \subseteq turns
<1>1. Base /\ Turns /\ [Next]_vars => [turn]_vars
  <2> SUFFICES ASSUME Base, Turns, Next, ShuffleDue(d'), round.kept, Cardinality(d'.active) = Len(d.sched),
                      NEW i \in DOMAIN d.sched
               PROVE  d.sched[i] \in round.turns \cup {GetScheduledWitness(d, j) : j \in 1 .. GetSlotAtTime(d, d'.time)}
    OBVIOUS
  <2>1. PICK b \in NewBlocks : Step(b)
    BY NextIsStep DEF Base
  <2>2. GetSlotAtTime(d, d'.time) = Slot(d, b)
    BY <2>1 DEF Step, Slot
  <2>3. /\ d.num \in Nat /\ d.aslot \in Nat /\ Len(d.sched) \in Nat \ {0} /\ i \in 1 .. Len(d.sched)
        /\ d'.aslot = d.aslot + Slot(d, b) /\ Slot(d, b) \in Nat /\ Slot(d, b) > 0 /\ d'.num = d.num + 1
    <3>1. d.sched \in Seq(Witnesses) /\ Len(d.sched) > 0 /\ d.num \in Nat /\ d.aslot \in Nat
      BY Fields DEF Base, Good
    <3>2. Len(d.sched) \in Nat \ {0} /\ i \in 1 .. Len(d.sched)
      BY <3>1
    <3> QED
      BY <2>1, <3>1, <3>2 DEF Step
  <2>4. PICK a \in Nat : TurnsSince(d, round.turns, a)
    BY DEF Turns
  <2> DEFINE l == Len(d.sched)
  <2>5. (d.num + 1) % l = 0
    BY <2>3 DEF ShuffleDue
  <2>6. d.num % l = l - 1
    <3>1. d.num % l \in 0 .. (l - 1)
      BY <2>3, DivMod
    <3>2. (d.num + 1) % l = IF d.num % l = l - 1 THEN 0 ELSE (d.num % l) + 1
      BY <2>3, ModStep
    <3> QED
      BY <2>5, <3>1, <3>2
  <2>7. d.num % l <= d.aslot - a
    BY <2>4 DEF TurnsSince
  <2> HIDE DEF l
  <2>8. l \in Nat \ {0} /\ i - 1 \in 0 .. (l - 1)
    BY <2>3 DEF l
  <2>9. PICK x \in (a + 1) .. (a + l) : x % l = i - 1
    BY <2>8, ModCover
  <2>10. x \in (a + 1) .. d'.aslot
    <3>1. l - 1 <= d.aslot - a
      BY <2>6, <2>7
    <3>2. x \in Int /\ a + 1 <= x /\ x <= a + l
      BY <2>8
    <3>3. d'.aslot \in Int /\ d'.aslot >= d.aslot + 1
      BY <2>3
    <3> QED
      BY <2>3, <2>8, <3>1, <3>2, <3>3
  <2>11. d.sched[(x % l) + 1] = d.sched[i]
    <3>1. (x % l) + 1 = i
      BY <2>3, <2>9
    <3> QED
      BY <3>1
  <2> QED
    BY <2>1, <2>2, <2>4, <2>10, <2>11, TurnsOfStep DEF l
<1> QED
  BY <1>1, TurnsAlways, PTL DEF Spec, EveryoneGetsATurn
=============================================================================
