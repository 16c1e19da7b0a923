----------------------- MODULE SpectrumTimeline_proofs -----------------------
(***************************************************************************)
(* What the operators of SpectrumTimeline return, for every device, every  *)
(* request and every sequence of slots.                                    *)
(***************************************************************************)
EXTENDS SpectrumTimeline, FiniteSetTheorems, WellFoundedInduction, TLAPS

(***************************************************************************)
(* Finite sets.                                                            *)
(***************************************************************************)

(* A set of naturals has a least element: what an induction over numbers   *)
(* becomes when it is stated by its least counterexample.                  *)
LEMMA Least ==
  ASSUME NEW S \in SUBSET Nat, S # {}
  PROVE  \E n \in S : \A m \in S : n <= m
<1> DEFINE LT == OpToRel(<, Nat)
<1>1. IsWellFoundedOn(LT, Nat)
  BY NatLessThanWellFounded
<1>2. LT = {ss \in Nat \X Nat : ss[1] < ss[2]}
  BY DEF OpToRel
<1> HIDE DEF LT
<1>3. \E x \in S : \A y \in S : ~ (<<y, x>> \in LT)
  BY <1>1, WFMin
<1>4. PICK x \in S : \A y \in S : ~ (<<y, x>> \in LT)
  BY <1>3
<1>5. \A y \in S : ~ (y < x)
  BY <1>4, <1>2
<1> QED
  BY <1>5

(* A relation that is total and transitive on a finite set has a least     *)
(* element in it.                                                          *)
LEMMA FiniteLeast ==
  ASSUME NEW S, IsFiniteSet(S), S # {}, NEW Rel,
         \A x, y \in S : <<x, y>> \in Rel \/ <<y, x>> \in Rel,
         \A x, y, z \in S : <<x, y>> \in Rel /\ <<y, z>> \in Rel => <<x, z>> \in Rel
  PROVE  \E m \in S : \A x \in S : <<m, x>> \in Rel
<1> DEFINE HasLeast(T) == \E m \in T : \A x \in T : <<m, x>> \in Rel
           Bad == {n \in Nat : \E T \in SUBSET S : T # {} /\ Cardinality(T) = n /\ ~HasLeast(T)}
<1>1. SUFFICES ASSUME ~HasLeast(S) PROVE FALSE
  OBVIOUS
<1>2. \A T \in SUBSET S : IsFiniteSet(T) /\ Cardinality(T) \in Nat
  BY FS_Subset, FS_CardinalityType
<1>3. Bad \in SUBSET Nat /\ Bad # {}
  BY <1>1, <1>2
<1>4. PICK n \in Bad : \A m \in Bad : n <= m
  <2> HIDE DEF Bad
  <2> QED
    BY <1>3, Least
<1>5. PICK T \in SUBSET S : T # {} /\ Cardinality(T) = n /\ ~HasLeast(T)
  BY <1>4
<1>6. PICK a \in T : TRUE
  BY <1>5
<1>7. Cardinality(T \ {a}) = n - 1 /\ ~(n <= n - 1)
  <2>1. IsFiniteSet(T) /\ n \in Nat
    BY <1>2, <1>4
  <2>2. Cardinality(T \ {a}) = Cardinality(T) - 1
    BY <2>1, <1>6, FS_RemoveElement
  <2> QED
    BY <2>1, <2>2, <1>5
<1>8. CASE T \ {a} = {}
  <2>1. T = {a} /\ <<a, a>> \in Rel
    BY <1>6, <1>8
  <2> QED
    BY <1>5, <2>1
<1>9. CASE T \ {a} # {}
  <2>1. HasLeast(T \ {a})
    <3>1. Cardinality(T \ {a}) \in Nat /\ T \ {a} \in SUBSET S
      BY <1>2, <1>5
    <3>2. Cardinality(T \ {a}) \notin Bad
      <4> HIDE DEF Bad
      <4> QED
        BY <1>4, <1>7
    <3> QED
      BY <3>1, <3>2, <1>9
  <2>2. PICK m \in T \ {a} : \A x \in T \ {a} : <<m, x>> \in Rel
    BY <2>1
  <2>3. CASE <<m, a>> \in Rel
    BY <1>5, <2>2, <2>3
  <2>4. CASE <<a, m>> \in Rel
    <3>1. \A x \in T : <<a, x>> \in Rel
      BY <1>5, <1>6, <2>2, <2>4
    <3> QED
      BY <1>5, <1>6, <3>1
  <2> QED
    BY <1>5, <1>6, <2>2, <2>3, <2>4
<1> QED
  BY <1>8, <1>9

(* A finite set of numbers has a minimum and a maximum.                    *)
LEMMA MinIs ==
  ASSUME NEW S \in SUBSET Int, IsFiniteSet(S), S # {}
  PROVE  FSX!Min(S) \in S /\ \A x \in S : FSX!Min(S) <= x
<1> DEFINE Rel == {p \in Int \X Int : p[1] <= p[2]}
<1>1. \A x, y \in S : <<x, y>> \in Rel <=> x <= y
  OBVIOUS
<1> HIDE DEF Rel
<1>2. \E m \in S : \A x \in S : <<m, x>> \in Rel
  <2>1. \A x, y \in S : <<x, y>> \in Rel \/ <<y, x>> \in Rel
    <3>1. \A x, y \in S : x <= y \/ y <= x
      OBVIOUS
    <3> QED
      BY <1>1, <3>1
  <2>2. \A x, y, z \in S : <<x, y>> \in Rel /\ <<y, z>> \in Rel => <<x, z>> \in Rel
    <3>1. \A x, y, z \in S : x <= y /\ y <= z => x <= z
      OBVIOUS
    <3> QED
      BY <1>1, <3>1
  <2> QED
    BY <2>1, <2>2, FiniteLeast
<1>3. \E m \in S : \A x \in S : m <= x
  BY <1>1, <1>2
<1> QED
  BY <1>3 DEF FSX!Min

(* The greatest element, by the same argument with the order turned round. *)
LEMMA MaxIs ==
  ASSUME NEW S \in SUBSET Int, IsFiniteSet(S), S # {}
  PROVE  FSX!Max(S) \in S /\ \A x \in S : FSX!Max(S) >= x
<1> DEFINE Rel == {p \in Int \X Int : p[1] >= p[2]}
<1>1. \A x, y \in S : <<x, y>> \in Rel <=> x >= y
  OBVIOUS
<1> HIDE DEF Rel
<1>2. \E m \in S : \A x \in S : <<m, x>> \in Rel
  <2>1. \A x, y \in S : <<x, y>> \in Rel \/ <<y, x>> \in Rel
    <3>1. \A x, y \in S : x >= y \/ y >= x
      OBVIOUS
    <3> QED
      BY <1>1, <3>1
  <2>2. \A x, y, z \in S : <<x, y>> \in Rel /\ <<y, z>> \in Rel => <<x, z>> \in Rel
    <3>1. \A x, y, z \in S : x >= y /\ y >= z => x >= z
      OBVIOUS
    <3> QED
      BY <1>1, <3>1
  <2> QED
    BY <2>1, <2>2, FiniteLeast
<1>3. \E m \in S : \A x \in S : m >= x
  BY <1>1, <1>2
<1> QED
  BY <1>3 DEF FSX!Max

(***************************************************************************)
(* The slots kept of a timeline.                                           *)
(***************************************************************************)
Rank(I, i) == Cardinality({j \in I : j <= i})

(* The rank of a position among the positions kept: it grows with the      *)
(* position, and each rank up to the number of positions is taken.         *)
LEMMA Ranks ==
  ASSUME NEW I \in SUBSET Int, IsFiniteSet(I)
  PROVE  /\ Cardinality(I) \in Nat
         /\ \A i \in I : Rank(I, i) \in 1 .. Cardinality(I)
         /\ \A i, k \in I : i < k => Rank(I, i) < Rank(I, k)
         /\ \A n \in 1 .. Cardinality(I) : \E i \in I : Rank(I, i) = n
<1> DEFINE Upto(i) == {j \in I : j <= i}
           f == [i \in I |-> Rank(I, i)]
<1>1. Cardinality(I) \in Nat
  BY FS_CardinalityType
<1>2. \A i \in I : /\ IsFiniteSet(Upto(i)) /\ Cardinality(Upto(i)) \in Nat
                   /\ Cardinality(Upto(i)) <= Cardinality(I)
  BY FS_Subset, FS_CardinalityType
<1>3. \A i \in I : Rank(I, i) \in 1 .. Cardinality(I)
  <2> SUFFICES ASSUME NEW i \in I PROVE Rank(I, i) \in 1 .. Cardinality(I)
    OBVIOUS
  <2>1. i \in Upto(i)
    OBVIOUS
  <2>2. Cardinality(Upto(i)) # 0
    <3> HIDE DEF Upto
    <3> QED
      BY <1>2, <2>1, FS_EmptySet
  <2> QED
    BY <1>1, <1>2, <2>2 DEF Rank
<1>4. \A i, k \in I : i < k => Rank(I, i) < Rank(I, k)
  <2> SUFFICES ASSUME NEW i \in I, NEW k \in I, i < k PROVE Rank(I, i) < Rank(I, k)
    OBVIOUS
  <2>1. Upto(i) \in SUBSET Upto(k) /\ k \in Upto(k) /\ k \notin Upto(i)
    <3>1. k \in Int /\ i \in Int /\ k <= k /\ ~(k <= i)
      OBVIOUS
    <3>2. \A j \in I : j <= i => j <= k
      OBVIOUS
    <3> QED
      BY <3>1, <3>2
  <2>2. /\ Cardinality(Upto(i)) <= Cardinality(Upto(k))
        /\ Cardinality(Upto(i)) # Cardinality(Upto(k))
    <3> HIDE DEF Upto
    <3>1. IsFiniteSet(Upto(k))
      BY <1>2
    <3>2. /\ Cardinality(Upto(i)) <= Cardinality(Upto(k))
          /\ Cardinality(Upto(k)) = Cardinality(Upto(i)) => Upto(k) = Upto(i)
      BY <2>1, <3>1, FS_Subset
    <3> QED
      BY <2>1, <3>2
  <2>3. Cardinality(Upto(i)) \in Nat /\ Cardinality(Upto(k)) \in Nat
    BY <1>2
  <2> QED
    BY <2>2, <2>3 DEF Rank
<1>5. \A n \in 1 .. Cardinality(I) : \E i \in I : Rank(I, i) = n
  <2>1. f \in [I -> 1 .. Cardinality(I)] /\ \A i \in I : f[i] = Rank(I, i)
    BY <1>3
  <2>2. \A i, k \in I : f[i] = f[k] => i = k
    <3> SUFFICES ASSUME NEW i \in I, NEW k \in I, f[i] = f[k] PROVE i = k
      OBVIOUS
    <3>1. Rank(I, i) = Rank(I, k) /\ Rank(I, i) \in Int
      BY <1>3, <2>1
    <3>2. ~(i < k) /\ ~(k < i)
      BY <1>4, <3>1
    <3>3. i \in Int /\ k \in Int
      OBVIOUS
    <3> HIDE DEF f
    <3> QED
      BY <3>2, <3>3
  <2>3. f \in Injection(I, 1 .. Cardinality(I))
    <3> HIDE DEF f
    <3> QED
      BY <2>1, <2>2 DEF Injection, IsInjective
  <2>4. IsFiniteSet(1 .. Cardinality(I)) /\ Cardinality(1 .. Cardinality(I)) = Cardinality(I)
    BY <1>1, FS_Interval
  <2>5. f \in Surjection(I, 1 .. Cardinality(I))
    <3> HIDE DEF f
    <3> QED
      BY <2>3, <2>4, FS_Injection
  <2>6. \A n \in 1 .. Cardinality(I) : \E i \in I : f[i] = n
    <3> HIDE DEF f
    <3> QED
      BY <2>5 DEF Surjection
  <2> QED
    BY <2>1, <2>6
<1> QED
  BY <1>1, <1>3, <1>4, <1>5

(* The position of rank k.                                                 *)
Position(I, k) == CHOOSE i \in I : Rank(I, i) = k

(* Kept is the subsequence at the positions I: it takes each of them once, *)
(* in their order.                                                         *)
LEMMA KeptIs ==
  ASSUME NEW slots, NEW I \in SUBSET Int, IsFiniteSet(I)
  PROVE  /\ Cardinality(I) \in Nat
         /\ DOMAIN Kept(slots, I) = 1 .. Cardinality(I)
         /\ \A k \in 1 .. Cardinality(I) :
               Position(I, k) \in I /\ Kept(slots, I)[k] = slots[Position(I, k)]
         /\ \A i \in I : \E k \in 1 .. Cardinality(I) : Position(I, k) = i
         /\ \A k, l \in 1 .. Cardinality(I) : k < l => Position(I, k) < Position(I, l)
<1> DEFINE N == Cardinality(I)
<1>1. N \in Nat
  BY Ranks
<1>2. \A k \in 1 .. N : Position(I, k) \in I /\ Rank(I, Position(I, k)) = k
  BY Ranks DEF Position
<1>3. \A i \in I : \E k \in 1 .. N : Position(I, k) = i
  <2> SUFFICES ASSUME NEW i \in I PROVE \E k \in 1 .. N : Position(I, k) = i
    OBVIOUS
  <2>1. Rank(I, i) \in 1 .. N
    BY Ranks
  <2>2. PICK a \in I : a = Position(I, Rank(I, i)) /\ Rank(I, a) = Rank(I, i)
    BY <1>2, <2>1
  <2>3. ~(a < i) /\ ~(i < a)
    <3>1. ~(Rank(I, a) < Rank(I, i)) /\ ~(Rank(I, i) < Rank(I, a))
      BY <2>1, <2>2
    <3> QED
      BY <3>1, Ranks
  <2>4. a = i
    BY <2>3
  <2> QED
    BY <2>1, <2>2, <2>4
<1>4. \A k, l \in 1 .. N : k < l => Position(I, k) < Position(I, l)
  <2> SUFFICES ASSUME NEW k \in 1 .. N, NEW l \in 1 .. N, k < l
               PROVE  Position(I, k) < Position(I, l)
    OBVIOUS
  <2>1. PICK a \in I : a = Position(I, k) /\ Rank(I, a) = k
    BY <1>2
  <2>2. PICK b \in I : b = Position(I, l) /\ Rank(I, b) = l
    BY <1>2
  <2>3. ~(b < a) /\ a # b
    <3>1. Rank(I, a) < Rank(I, b) /\ ~(Rank(I, b) < Rank(I, a))
      BY <2>1, <2>2
    <3> QED
      BY <3>1, Ranks
  <2> QED
    BY <2>1, <2>2, <2>3
<1>5. /\ DOMAIN Kept(slots, I) = 1 .. N
      /\ \A k \in 1 .. N : Kept(slots, I)[k] = slots[Position(I, k)]
  BY DEF Kept, Rank, Position
<1> QED
  BY <1>1, <1>2, <1>3, <1>4, <1>5

(* The kept positions of a sequence make a sequence with the same elements *)
(* as those positions, each of them once.                                  *)
LEMMA KeptSeq ==
  ASSUME NEW A, NEW slots \in Seq(A), NEW I \in SUBSET DOMAIN slots
  PROVE  /\ Kept(slots, I) \in Seq(A)
         /\ \A k \in DOMAIN Kept(slots, I) : \E i \in I : Kept(slots, I)[k] = slots[i]
         /\ \A i \in I : \E k \in DOMAIN Kept(slots, I) : Kept(slots, I)[k] = slots[i]
         /\ \A k, l \in DOMAIN Kept(slots, I) :
               k # l => \E i, j \in I : /\ i # j
                                        /\ Kept(slots, I)[k] = slots[i]
                                        /\ Kept(slots, I)[l] = slots[j]
         /\ Kept(slots, I) = <<>> <=> I = {}
<1> DEFINE K == Kept(slots, I)
           N == Cardinality(I)
           P(k) == Position(I, k)
<1>1. DOMAIN slots = 1 .. Len(slots) /\ Len(slots) \in Nat /\ \A i \in DOMAIN slots : slots[i] \in A
  OBVIOUS
<1>2. IsFiniteSet(I) /\ I \in SUBSET Int
  <2>1. IsFiniteSet(1 .. Len(slots))
    BY <1>1, FS_Interval
  <2>2. I \in SUBSET (1 .. Len(slots))
    BY <1>1
  <2> QED
    BY <2>1, <2>2, FS_Subset
<1>3. N \in Nat /\ DOMAIN K = 1 .. N
  BY <1>2, KeptIs
<1>4. /\ \A k \in 1 .. N : P(k) \in I /\ K[k] = slots[P(k)]
      /\ \A i \in I : \E k \in 1 .. N : P(k) = i
      /\ \A k, l \in 1 .. N : k < l => P(k) < P(l)
  BY <1>2, KeptIs
<1>5. K = [k \in 1 .. N |-> K[k]]
  BY DEF Kept
<1> HIDE DEF K, N, P
<1>6. K \in Seq(A)
  <2>1. \A k \in 1 .. N : K[k] \in A
    BY <1>1, <1>4
  <2> QED
    BY <1>3, <1>5, <2>1
<1>7. /\ \A k \in DOMAIN K : \E i \in I : K[k] = slots[i]
      /\ \A i \in I : \E k \in DOMAIN K : K[k] = slots[i]
  BY <1>3, <1>4
<1>8. \A k, l \in DOMAIN K :
         k # l => \E i, j \in I : i # j /\ K[k] = slots[i] /\ K[l] = slots[j]
  <2> SUFFICES ASSUME NEW k \in 1 .. N, NEW l \in 1 .. N, k # l
               PROVE  \E i, j \in I : i # j /\ K[k] = slots[i] /\ K[l] = slots[j]
    BY <1>3
  <2>1. k < l \/ l < k
    BY <1>3
  <2>2. P(k) \in I /\ P(l) \in I /\ P(k) \in Int /\ P(l) \in Int
    BY <1>2, <1>4
  <2>3. P(k) < P(l) \/ P(l) < P(k)
    BY <1>4, <2>1
  <2>4. P(k) # P(l)
    BY <2>2, <2>3
  <2> QED
    BY <1>4, <2>2, <2>4
<1>9. K = <<>> <=> I = {}
  <2>1. K = <<>> <=> N = 0
    BY <1>3, <1>6
  <2>2. N = 0 <=> I = {}
    BY <1>2, FS_EmptySet DEF N
  <2> QED
    BY <2>1, <2>2
<1> USE DEF K
<1> QED
  BY <1>6, <1>7, <1>8, <1>9

(* The slots that overlap an interval: all of them and no other.           *)
LEMMA OverlappingIs ==
  ASSUME NEW A, NEW slots \in Seq(A), NEW from, NEW to
  PROVE  /\ SlotsOverlapping(slots, from, to) \in Seq(A)
         /\ \A k \in DOMAIN SlotsOverlapping(slots, from, to) :
               \E i \in DOMAIN slots : /\ SlotsOverlapping(slots, from, to)[k] = slots[i]
                                       /\ TimeOverlap(from, to, slots[i].from, slots[i].to)
         /\ \A i \in DOMAIN slots :
               TimeOverlap(from, to, slots[i].from, slots[i].to)
               => \E k \in DOMAIN SlotsOverlapping(slots, from, to) :
                     SlotsOverlapping(slots, from, to)[k] = slots[i]
<1> DEFINE I == {i \in DOMAIN slots : TimeOverlap(from, to, slots[i].from, slots[i].to)}
<1>1. SlotsOverlapping(slots, from, to) = Kept(slots, I)
  BY DEF SlotsOverlapping
<1>2. I \in SUBSET DOMAIN slots
  OBVIOUS
<1>3. \A i : i \in I <=> i \in DOMAIN slots /\ TimeOverlap(from, to, slots[i].from, slots[i].to)
  OBVIOUS
<1> HIDE DEF I
<1> QED
  BY <1>1, <1>2, <1>3, KeptSeq

(* The slots left when a task's are removed: all the others, each once.    *)
LEMMA RemoveIs ==
  ASSUME NEW A, NEW slots \in Seq(A), NEW task
  PROVE  /\ Remove(slots, task) \in Seq(A)
         /\ \A k \in DOMAIN Remove(slots, task) :
               \E i \in DOMAIN slots : Remove(slots, task)[k] = slots[i] /\ slots[i].task # task
         /\ \A i \in DOMAIN slots :
               slots[i].task # task
               => \E k \in DOMAIN Remove(slots, task) : Remove(slots, task)[k] = slots[i]
         /\ \A k, l \in DOMAIN Remove(slots, task) :
               k # l => \E i, j \in DOMAIN slots : /\ i # j
                                                   /\ Remove(slots, task)[k] = slots[i]
                                                   /\ Remove(slots, task)[l] = slots[j]
<1> DEFINE I == {i \in DOMAIN slots : slots[i].task # task}
<1>1. Remove(slots, task) = Kept(slots, I)
  BY DEF Remove
<1>2. I \in SUBSET DOMAIN slots
  OBVIOUS
<1>3. \A i : i \in I <=> i \in DOMAIN slots /\ slots[i].task # task
  OBVIOUS
<1> HIDE DEF I
<1> QED
  BY <1>1, <1>2, <1>3, KeptSeq

(***************************************************************************)
(* The packing of a shared window.                                         *)
(***************************************************************************)

(* The positions from x on at which a slice of width w ends by hi and is   *)
(* clear of every padded slice.                                            *)
FreeFrom(over, hi, w, x) ==
  {y \in Int : x <= y /\ y + w <= hi /\ Clashing(over, y, y + w) = {}}

Lowest(S) == {y \in S : \A z \in S : y <= z}

(* Slices are compared by both their ends: some slice in the way is first. *)
LEMMA FirstOfIs ==
  ASSUME NEW A, NEW over \in Seq(A),
         \A i \in DOMAIN over : over[i].lo \in Int /\ over[i].hi \in Int,
         NEW clash \in SUBSET DOMAIN over, clash # {}
  PROVE  FirstOf(over, clash) \in clash
<1> DEFINE Rel == {p \in clash \X clash : Below(over[p[1]], over[p[2]])}
<1>1. \A i, k \in clash : <<i, k>> \in Rel <=> Below(over[i], over[k])
  OBVIOUS
<1> HIDE DEF Rel
<1>2. IsFiniteSet(clash)
  <2>1. IsFiniteSet(1 .. Len(over)) /\ clash \in SUBSET (1 .. Len(over))
    BY FS_Interval
  <2> QED
    BY <2>1, FS_Subset
<1>3. \A i, k \in clash : <<i, k>> \in Rel \/ <<k, i>> \in Rel
  <2>1. \A i, k \in clash : Below(over[i], over[k]) \/ Below(over[k], over[i])
    BY DEF Below
  <2> QED
    BY <1>1, <2>1
<1>4. \A i, j, k \in clash : <<i, j>> \in Rel /\ <<j, k>> \in Rel => <<i, k>> \in Rel
  <2>1. \A i, j, k \in clash :
           Below(over[i], over[j]) /\ Below(over[j], over[k]) => Below(over[i], over[k])
    BY DEF Below
  <2> QED
    BY <1>1, <2>1
<1>5. \E i \in clash : \A k \in clash : <<i, k>> \in Rel
  BY <1>2, <1>3, <1>4, FiniteLeast
<1>6. \E i \in clash : \A k \in clash : Below(over[i], over[k])
  BY <1>1, <1>5
<1> QED
  BY <1>6 DEF FirstOf

(* Behind a slice in the way nothing is lost: every position up to its     *)
(* padded upper end clashes with the same slice.                           *)
LEMMA StepFree ==
  ASSUME NEW A, NEW over \in Seq(A),
         \A i \in DOMAIN over : over[i].lo \in Int /\ over[i].hi \in Int,
         Guard \in Nat, NEW hi \in Int, NEW w \in Int, NEW x \in Int,
         Clashing(over, x, x + w) # {}
  PROVE  LET next == over[FirstOf(over, Clashing(over, x, x + w))].hi + Guard
         IN /\ next \in Int /\ x < next
            /\ FreeFrom(over, hi, w, x) = FreeFrom(over, hi, w, next)
<1> DEFINE clash == Clashing(over, x, x + w)
           i == FirstOf(over, clash)
           next == over[i].hi + Guard
<1>1. clash \in SUBSET DOMAIN over /\ clash # {}
  BY DEF Clashing
<1>2. i \in clash
  <2> HIDE DEF clash
  <2> QED
    BY <1>1, FirstOfIs
<1>3. i \in DOMAIN over /\ x < over[i].hi + Guard /\ over[i].lo - Guard < x + w
  <2> HIDE DEF i
  <2> QED
    BY <1>2 DEF Clashing
<1>4. over[i].lo \in Int /\ over[i].hi \in Int /\ next \in Int /\ x < next
  BY <1>3
<1>5. \A y \in Int : x <= y /\ y < next => i \in Clashing(over, y, y + w)
  <2> SUFFICES ASSUME NEW y \in Int, x <= y, y < next PROVE i \in Clashing(over, y, y + w)
    OBVIOUS
  <2>1. y < over[i].hi + Guard /\ over[i].lo - Guard < y + w
    <3> HIDE DEF i
    <3> QED
      BY <1>3, <1>4
  <2> HIDE DEF i
  <2> QED
    BY <1>3, <2>1 DEF Clashing
<1> HIDE DEF next, i
<1>6. FreeFrom(over, hi, w, x) = FreeFrom(over, hi, w, next)
  <2>1. \A y \in Int : Clashing(over, y, y + w) = {} => (x <= y <=> next <= y)
    <3> SUFFICES ASSUME NEW y \in Int, ~(x <= y /\ y < next) PROVE x <= y <=> next <= y
      BY <1>5
    <3> QED
      BY <1>4
  <2> QED
    BY <2>1 DEF FreeFrom
<1> USE DEF next, i
<1> QED
  BY <1>4, <1>6

(* The function of the search is the one that gives the lowest free        *)
(* position from its argument on: that function solves the recursion, and  *)
(* the recursion, whose argument grows until nothing fits, has no other    *)
(* solution.                                                               *)
LEMMA TriesIs ==
  ASSUME NEW A, NEW over \in Seq(A),
         \A i \in DOMAIN over : over[i].lo \in Int /\ over[i].hi \in Int,
         Guard \in Nat, NEW hi \in Int, NEW w \in Int
  PROVE  \A x \in Int : Tries(over, hi, w)[x] = Lowest(FreeFrom(over, hi, w, x))
<1> DEFINE Clash(x) == Clashing(over, x, x + w)
           Further(x) == over[FirstOf(over, Clash(x))].hi + Guard
           Step(g) == [x \in Int |-> IF x + w > hi THEN {}
                                     ELSE IF Clash(x) = {} THEN {x}
                                     ELSE g[Further(x)]]
           Free(x) == FreeFrom(over, hi, w, x)
           G == [x \in Int |-> Lowest(Free(x))]
           T == Tries(over, hi, w)
<1>1. T = CHOOSE g : g = Step(g)
  BY DEF Tries
<1>2. \A x \in Int : Clash(x) # {} => /\ Further(x) \in Int /\ x < Further(x)
                                      /\ Free(x) = Free(Further(x))
  BY StepFree
<1>3. \A x \in Int : x + w > hi => Lowest(Free(x)) = {}
  <2> SUFFICES ASSUME NEW x \in Int, x + w > hi PROVE Free(x) = {}
    BY DEF Lowest
  <2>1. \A y \in Int : x <= y => ~(y + w <= hi)
    OBVIOUS
  <2> QED
    BY <2>1 DEF FreeFrom
<1>4. \A x \in Int : ~(x + w > hi) /\ Clash(x) = {} => Lowest(Free(x)) = {x}
  <2> SUFFICES ASSUME NEW x \in Int, ~(x + w > hi), Clash(x) = {} PROVE Lowest(Free(x)) = {x}
    OBVIOUS
  <2>1. x \in Free(x) /\ \A y \in Free(x) : y \in Int /\ x <= y
    BY DEF FreeFrom
  <2> HIDE DEF Free
  <2>2. \A y \in Lowest(Free(x)) : y = x
    BY <2>1 DEF Lowest
  <2>3. x \in Lowest(Free(x))
    BY <2>1 DEF Lowest
  <2> QED
    BY <2>2, <2>3
<1> HIDE DEF Clash, Further, Free
<1>5. G = Step(G)
  <2>1. \A x \in Int : G[x] = IF x + w > hi THEN {}
                              ELSE IF Clash(x) = {} THEN {x}
                              ELSE G[Further(x)]
    <3> SUFFICES ASSUME NEW x \in Int
                 PROVE  G[x] = IF x + w > hi THEN {}
                               ELSE IF Clash(x) = {} THEN {x}
                               ELSE G[Further(x)]
      OBVIOUS
    <3>1. CASE x + w > hi
      BY <1>3, <3>1
    <3>2. CASE ~(x + w > hi) /\ Clash(x) = {}
      BY <1>4, <3>2
    <3>3. CASE ~(x + w > hi) /\ Clash(x) # {}
      BY <1>2, <3>3
    <3> QED
      BY <3>1, <3>2, <3>3
  <2>2. G = [x \in Int |-> G[x]]
    OBVIOUS
  <2> HIDE DEF G
  <2>3. [x \in Int |-> G[x]] = Step(G)
    BY <2>1
  <2> QED
    BY <2>2, <2>3
<1>6. T = Step(T)
  <2> HIDE DEF G, T, Step
  <2> QED
    BY <1>1, <1>5
<1>7. \A x \in Int : /\ x + w > hi => T[x] = {}
                     /\ ~(x + w > hi) /\ Clash(x) = {} => T[x] = {x}
                     /\ ~(x + w > hi) /\ Clash(x) # {} => T[x] = T[Further(x)]
  <2> HIDE DEF T
  <2> QED
    BY <1>6
<1> HIDE DEF T
<1> DEFINE Wrong == {m \in Nat : \E x \in Int : m = hi - w - x /\ T[x] # Lowest(Free(x))}
<1>8. Wrong = {}
  <2>1. SUFFICES ASSUME Wrong # {} PROVE FALSE
    OBVIOUS
  <2>2. PICK m \in Wrong : \A k \in Wrong : m <= k
    <3>1. Wrong \in SUBSET Nat
      OBVIOUS
    <3> HIDE DEF Wrong
    <3> QED
      BY <2>1, <3>1, Least
  <2>3. PICK x \in Int : m = hi - w - x /\ T[x] # Lowest(Free(x))
    BY <2>2
  <2>4. ~(x + w > hi) /\ Clash(x) # {}
    <3>1. m \in Nat
      BY <2>2
    <3>2. ~(x + w > hi)
      BY <2>3, <3>1
    <3> QED
      BY <1>4, <1>7, <2>3, <3>2
  <2> DEFINE z == Further(x)
  <2>5. z \in Int /\ x < z /\ T[x] = T[z] /\ Free(x) = Free(z)
    BY <1>2, <1>7, <2>4
  <2> HIDE DEF z
  <2>6. T[z] # Lowest(Free(z))
    BY <2>3, <2>5
  <2>7. z + w <= hi
    <3> SUFFICES ASSUME z + w > hi PROVE FALSE
      BY <2>5
    <3>1. T[z] = {}
      BY <1>7, <2>5
    <3> QED
      BY <1>3, <2>5, <2>6, <3>1
  <2>8. hi - w - z \in Wrong /\ hi - w - z < m
    <3>1. hi - w - z \in Nat /\ hi - w - z < hi - w - x
      BY <2>5, <2>7
    <3> QED
      BY <2>3, <2>5, <2>6, <3>1
  <2>9. m \in Int /\ hi - w - z \in Int
    BY <2>2, <2>5
  <2> HIDE DEF Wrong
  <2> QED
    BY <2>2, <2>8, <2>9
<1>9. \A x \in Int : T[x] = Lowest(Free(x))
  <2> SUFFICES ASSUME NEW x \in Int PROVE T[x] = Lowest(Free(x))
    OBVIOUS
  <2>1. CASE x + w > hi
    BY <1>3, <1>7, <2>1
  <2>2. CASE ~(x + w > hi)
    <3>1. hi - w - x \in Nat
      BY <2>2
    <3> QED
      BY <1>8, <3>1
  <2> QED
    BY <2>1, <2>2
<1> QED
  BY <1>9 DEF T, Free

(* The places in a window that are clear of every slice.                   *)
Roomy(over, lo, hi, w) ==
  {x \in lo .. hi - w : \A i \in DOMAIN over :
      x >= over[i].hi + Guard \/ x + w <= over[i].lo - Guard}

(* The packing finds the lowest free position of the window, and none only *)
(* if there is none.                                                       *)
LEMMA PackedIs ==
  ASSUME NEW A, NEW over \in Seq(A),
         \A i \in DOMAIN over : over[i].lo \in Int /\ over[i].hi \in Int,
         Guard \in Nat, NEW lo \in Int, NEW hi \in Int, NEW w \in Int
  PROVE  Packed(over, lo, hi, w) = Lowest(Roomy(over, lo, hi, w))
<1> DEFINE Clear(x) == Clashing(over, x, x + w) = {}
           Apart(x) == \A i \in DOMAIN over :
                          x >= over[i].hi + Guard \/ x + w <= over[i].lo - Guard
           free == {x \in lo .. hi - w : Apart(x)}
<1>1. \A x \in Int : (lo <= x /\ x + w <= hi) <=> x \in lo .. hi - w
  OBVIOUS
<1>2. \A x \in Int : Clear(x) <=> Apart(x)
  <2> SUFFICES ASSUME NEW x \in Int
               PROVE  \A i \in DOMAIN over :
                         i \notin Clashing(over, x, x + w)
                         <=> x >= over[i].hi + Guard \/ x + w <= over[i].lo - Guard
    BY DEF Clashing
  <2> QED
    BY DEF Clashing
<1>3. free = FreeFrom(over, hi, w, lo)
  <2>1. FreeFrom(over, hi, w, lo) = {x \in Int : lo <= x /\ x + w <= hi /\ Clear(x)}
    BY DEF FreeFrom
  <2> HIDE DEF Clear, Apart
  <2> QED
    BY <1>1, <1>2, <2>1
<1>4. Packed(over, lo, hi, w) = Lowest(FreeFrom(over, hi, w, lo))
  BY TriesIs DEF Packed
<1> QED
  BY <1>3, <1>4 DEF Roomy

(***************************************************************************)
(* What a fit gives.                                                       *)
(***************************************************************************)

(* A slice has its bounds in order.                                        *)
LEMMA SliceIs ==
  ASSUME NEW r, r.cf \in Int, r.bw \in Int, r.bw >= 2
  PROVE  SliceLo(r) \in Int /\ SliceHi(r) \in Int /\ SliceLo(r) < SliceHi(r)
BY DEF SliceLo, SliceHi

(* The number of channels in use is one: it is zero only if none is.       *)
LEMMA UsedRxIs ==
  ASSUME NEW A, NEW over \in Seq(A), NEW n \in Nat,
         \A i \in DOMAIN over : over[i].rx \subseteq 0 .. n - 1
  PROVE  UsedRx(over) \in Nat /\ (UsedRx(over) = 0 => BusyRx(over) = {})
<1> DEFINE F(i) == {i} \X over[i].rx
           Fs == {F(i) : i \in DOMAIN over}
           U == UNION Fs
<1>1. IsFiniteSet(DOMAIN over)
  <2>1. DOMAIN over = 1 .. Len(over) /\ Len(over) \in Int
    OBVIOUS
  <2> QED
    BY <2>1, FS_Interval
<1>2. IsFiniteSet(U)
  <2>1. IsFiniteSet(0 .. n - 1)
    <3>1. 0 \in Int /\ n - 1 \in Int
      OBVIOUS
    <3> QED
      BY <3>1, FS_Interval
  <2>2. IsFiniteSet((DOMAIN over) \X (0 .. n - 1))
    BY <1>1, <2>1, FS_Product
  <2>3. U \in SUBSET ((DOMAIN over) \X (0 .. n - 1))
    OBVIOUS
  <2> HIDE DEF U
  <2> QED
    BY <2>2, <2>3, FS_Subset
<1>3. UsedRx(over) = Cardinality(U)
  BY DEF UsedRx
<1>4. U = {} => BusyRx(over) = {}
  <2> SUFFICES ASSUME NEW i \in DOMAIN over, NEW c \in over[i].rx PROVE U # {}
    BY DEF BusyRx
  <2>1. <<i, c>> \in U
    OBVIOUS
  <2> QED
    BY <2>1
<1> HIDE DEF U
<1> QED
  BY <1>2, <1>3, <1>4, FS_CardinalityType, FS_EmptySet

(* A fit has a slice with its bounds in order and channels the device has; *)
(* on a device with independent LOs they are channels that no slot has,    *)
(* and a fit that names no channel leaves room for those it asks for.      *)
LEMMA FitIs ==
  ASSUME NEW A, NEW slots \in Seq(A), NEW dev, NEW r, NEW from, NEW to,
         NEW f \in CanFit(slots, dev, r, from, to),
         Guard \in Nat, dev.rx \in Nat,
         r.cf \in Int, r.bw \in Int, r.bw >= 2, r.sr \in Int, r.rx \in Int, r.ch \in Int,
         \A i \in DOMAIN slots : slots[i].lo \in Int /\ slots[i].hi \in Int
  PROVE  LET over == SlotsOverlapping(slots, from, to)
         IN /\ f = [cf |-> r.cf, sr |-> r.sr, lo |-> f.lo, hi |-> f.hi, rx |-> f.rx]
            /\ f.lo \in Int /\ f.hi \in Int /\ f.lo < f.hi
            /\ f.rx \subseteq 0 .. dev.rx - 1
            /\ ~dev.shared => f.rx \cap BusyRx(over) = {}
            /\ r.ch < 0 => Enough(over, dev, r)
<1> DEFINE over == SlotsOverlapping(slots, from, to)
<1>1. /\ over \in Seq(A)
      /\ \A i \in DOMAIN over : over[i].lo \in Int /\ over[i].hi \in Int
  <2>1. over \in Seq(A) /\ \A k \in DOMAIN over : \E i \in DOMAIN slots : over[k] = slots[i]
    BY OverlappingIs
  <2> HIDE DEF over
  <2> QED
    BY <2>1
<1> HIDE DEF over
<1>2. SliceLo(r) \in Int /\ SliceHi(r) \in Int /\ SliceLo(r) < SliceHi(r)
  BY SliceIs
<1>3. CASE dev.shared
  <2> DEFINE g == InnerGuard(over)
             lo == r.cf - r.sr \div 2
             hi == r.cf + r.sr \div 2
             w == r.bw + 2 * g
  <2>1. f \in SharedFit(over, dev, r)
    BY <1>3 DEF CanFit, over
  <2>2. PICK x \in Packed(over, lo, hi, w) :
           f = [cf |-> r.cf, sr |-> r.sr, lo |-> x + g, hi |-> x + g + r.bw,
                rx |-> Picked(over, dev, r)]
    BY <2>1 DEF SharedFit
  <2>3. IF Pinned(r) THEN InRange(dev, r.ch) ELSE Enough(over, dev, r)
    BY <2>1 DEF SharedFit
  <2>4. g \in Int
    BY DEF InnerGuard
  <2> HIDE DEF g
  <2>5. x \in Int
    <3>1. lo \in Int /\ hi \in Int /\ w \in Int
      BY <2>4
    <3> HIDE DEF lo, hi, w
    <3>2. Packed(over, lo, hi, w) \subseteq Int
      BY <1>1, <3>1, PackedIs DEF Lowest, Roomy
    <3> QED
      BY <3>2
  <2>6. f.lo \in Int /\ f.hi \in Int /\ f.lo < f.hi
    <3>1. x + g \in Int /\ x + g + r.bw \in Int /\ x + g < x + g + r.bw
      BY <2>4, <2>5
    <3> QED
      BY <2>2, <3>1
  <2>7. f.rx \subseteq 0 .. dev.rx - 1
    <3>1. Picked(over, dev, r) \subseteq 0 .. dev.rx - 1
      BY <2>3 DEF Picked, FirstChannels, IdleRx, Pinned, InRange
    <3> QED
      BY <2>2, <3>1
  <2>8. r.ch < 0 => Enough(over, dev, r)
    BY <2>3 DEF Pinned
  <2>9. f = [cf |-> r.cf, sr |-> r.sr, lo |-> f.lo, hi |-> f.hi, rx |-> f.rx]
    BY <2>2
  <2> QED
    BY <1>3, <2>6, <2>7, <2>8, <2>9 DEF over
<1>4. CASE ~dev.shared
  <2>1. /\ Enough(over, dev, r)
        /\ Picked(over, dev, r) \subseteq IdleRx(over, dev)
        /\ f = AsAsked(r, r.cf, r.sr, Picked(over, dev, r))
    BY <1>4 DEF CanFit, IndependentFit, over
  <2>2. f = [cf |-> r.cf, sr |-> r.sr, lo |-> SliceLo(r), hi |-> SliceHi(r),
             rx |-> Picked(over, dev, r)]
    BY <2>1 DEF AsAsked
  <2>3. f.lo \in Int /\ f.hi \in Int /\ f.lo < f.hi
    BY <1>2, <2>2
  <2>4. f.rx \subseteq 0 .. dev.rx - 1 /\ f.rx \cap BusyRx(over) = {}
    BY <2>1, <2>2 DEF IdleRx
  <2>5. f = [cf |-> r.cf, sr |-> r.sr, lo |-> f.lo, hi |-> f.hi, rx |-> f.rx]
    BY <2>2
  <2> QED
    BY <1>4, <2>1, <2>3, <2>4, <2>5 DEF over
<1> QED
  BY <1>3, <1>4

(***************************************************************************)
(* The combined window.                                                    *)
(***************************************************************************)

(* A window centred between two bounds, and wider by a guard on each side, *)
(* covers them: the guard makes up for the half unit that is lost where    *)
(* the sum of the bounds is odd.                                           *)
LEMMA Centred ==
  ASSUME NEW lo \in Int, NEW hi \in Int, NEW g \in Nat,
         NEW cf, cf = (lo + hi) \div 2, NEW sr, sr = hi - lo + 2 * g
  PROVE  /\ cf \in Int /\ sr \in Int
         /\ cf - sr \div 2 <= lo
         /\ g > 0 => hi <= cf + sr \div 2
<1>1. PICK n \in Int : hi = lo + n
  <2>1. hi - lo \in Int /\ hi = lo + (hi - lo)
    OBVIOUS
  <2> QED
    BY <2>1
<1>2. cf = lo + n \div 2
  BY <1>1
<1>3. sr \div 2 = n \div 2 + g
  BY <1>1
<1>4. n \div 2 \in Int /\ n <= 2 * (n \div 2) + 1
  OBVIOUS
<1>5. sr \in Int
  OBVIOUS
<1> DEFINE m == n \div 2
           k == sr \div 2
<1> HIDE DEF m, k
<1>6. m \in Int /\ cf = lo + m /\ k = m + g /\ n <= 2 * m + 1
  BY <1>2, <1>3, <1>4 DEF m, k
<1>7. cf - k <= lo
  BY <1>6
<1>8. g > 0 => hi <= cf + k
  BY <1>1, <1>6
<1> QED
  BY <1>5, <1>6, <1>7, <1>8 DEF k

(* The window of a combination covers the slice of the request and every   *)
(* slice it was computed from.                                             *)
LEMMA WindowIs ==
  ASSUME NEW A, NEW over \in Seq(A),
         \A i \in DOMAIN over : over[i].lo \in Int /\ over[i].hi \in Int,
         Guard \in Nat, NEW r, r.cf \in Int, r.bw \in Int, r.bw >= 2,
         NEW w, w = Window(over, r)
  PROVE  /\ w.cf \in Int /\ w.sr \in Int /\ 0 < w.sr
         /\ w.cf - w.sr \div 2 <= SliceLo(r)
         /\ Guard > 0 => SliceHi(r) <= w.cf + w.sr \div 2
         /\ \A i \in DOMAIN over :
               /\ w.cf - w.sr \div 2 <= over[i].lo
               /\ Guard > 0 => over[i].hi <= w.cf + w.sr \div 2
<1> DEFINE Los == {over[i].lo : i \in DOMAIN over}
           His == {over[i].hi : i \in DOMAIN over}
           lo == FSX!Min({SliceLo(r)} \cup Los)
           hi == FSX!Max({SliceHi(r)} \cup His)
<1>1. SliceLo(r) \in Int /\ SliceHi(r) \in Int
  BY SliceIs
<1>2. IsFiniteSet(Los) /\ IsFiniteSet(His)
  <2>1. DOMAIN over = 1 .. Len(over) /\ Len(over) \in Int
    OBVIOUS
  <2>2. IsFiniteSet(DOMAIN over)
    BY <2>1, FS_Interval
  <2>3. IsFiniteSet(Los)
    <3> DEFINE F == [i \in DOMAIN over |-> over[i].lo]
    <3>1. F \in Surjection(DOMAIN over, Los)
      BY DEF Surjection
    <3> HIDE DEF F, Los
    <3> QED
      BY <2>2, <3>1, FS_Surjection
  <2>4. IsFiniteSet(His)
    <3> DEFINE F == [i \in DOMAIN over |-> over[i].hi]
    <3>1. F \in Surjection(DOMAIN over, His)
      BY DEF Surjection
    <3> HIDE DEF F, His
    <3> QED
      BY <2>2, <3>1, FS_Surjection
  <2> QED
    BY <2>3, <2>4
<1>3. /\ \A i \in DOMAIN over : over[i].lo \in Los /\ over[i].hi \in His
      /\ Los \in SUBSET Int /\ His \in SUBSET Int
  OBVIOUS
<1>4. lo \in Int /\ lo <= SliceLo(r) /\ \A x \in Los : lo <= x
  <2> DEFINE S == {SliceLo(r)} \cup Los
  <2> HIDE DEF Los
  <2>1. IsFiniteSet(S) /\ S \in SUBSET Int /\ SliceLo(r) \in S /\ \A x \in Los : x \in S
    <3>1. S = Los \cup {SliceLo(r)}
      OBVIOUS
    <3>2. IsFiniteSet(Los \cup {SliceLo(r)})
      BY <1>2, FS_AddElement
    <3> QED
      BY <1>1, <1>3, <3>1, <3>2
  <2> HIDE DEF S
  <2>2. FSX!Min(S) \in S /\ \A x \in S : FSX!Min(S) <= x
    BY <2>1, MinIs
  <2>3. lo = FSX!Min(S)
    BY DEF S
  <2> QED
    BY <2>1, <2>2, <2>3
<1>5. hi \in Int /\ SliceHi(r) <= hi /\ \A x \in His : x <= hi
  <2> DEFINE S == {SliceHi(r)} \cup His
  <2> HIDE DEF His
  <2>1. IsFiniteSet(S) /\ S \in SUBSET Int /\ SliceHi(r) \in S /\ \A x \in His : x \in S
    <3>1. S = His \cup {SliceHi(r)}
      OBVIOUS
    <3>2. IsFiniteSet(His \cup {SliceHi(r)})
      BY <1>2, FS_AddElement
    <3> QED
      BY <1>1, <1>3, <3>1, <3>2
  <2> HIDE DEF S
  <2>2. FSX!Max(S) \in S /\ \A x \in S : FSX!Max(S) >= x
    BY <2>1, MaxIs
  <2>3. hi = FSX!Max(S)
    BY DEF S
  <2> QED
    BY <2>1, <2>2, <2>3
<1>6. w.cf = (lo + hi) \div 2 /\ w.sr = hi - lo + 2 * Guard
  BY DEF Window, MinLo, MaxHi
<1> HIDE DEF lo, hi, Los, His
<1> DEFINE from == w.cf - w.sr \div 2
           upto == w.cf + w.sr \div 2
<1>7. /\ w.cf \in Int /\ w.sr \in Int
      /\ from <= lo /\ (Guard > 0 => hi <= upto)
  BY <1>4, <1>5, <1>6, Centred
<1>8. from \in Int /\ upto \in Int
  BY <1>7
<1> HIDE DEF from, upto
<1>11. 0 < w.sr
  <2>1. SliceLo(r) < SliceHi(r)
    BY SliceIs
  <2> QED
    BY <2>1, <1>1, <1>4, <1>5, <1>6
<1>9. /\ from <= SliceLo(r) /\ (Guard > 0 => SliceHi(r) <= upto)
  BY <1>1, <1>4, <1>5, <1>7, <1>8
<1>10. \A i \in DOMAIN over : from <= over[i].lo /\ (Guard > 0 => over[i].hi <= upto)
  <2> SUFFICES ASSUME NEW i \in DOMAIN over
               PROVE  from <= over[i].lo /\ (Guard > 0 => over[i].hi <= upto)
    OBVIOUS
  <2>1. over[i].lo \in Int /\ over[i].hi \in Int /\ lo <= over[i].lo /\ over[i].hi <= hi
    BY <1>3, <1>4, <1>5
  <2> QED
    BY <2>1, <1>4, <1>5, <1>7, <1>8
<1> QED
  BY <1>7, <1>9, <1>10, <1>11 DEF from, upto

(* The first channel met is one: of two channels in use one is met before  *)
(* the other.                                                              *)
LEMMA ExistingIs ==
  ASSUME NEW A, NEW over \in Seq(A), NEW n \in Nat,
         \A i \in DOMAIN over : over[i].rx \subseteq 0 .. n - 1,
         NEW b \in ExistingRx(over, 1), NEW c \in ExistingRx(over, 1)
  PROVE  b = c
<1> DEFINE At(x) == {i \in DOMAIN over : x \in over[i].rx}
<1>1. BusyRx(over) \in SUBSET (0 .. n - 1)
  BY DEF BusyRx
<1>2. b \in BusyRx(over) /\ c \in BusyRx(over) /\ b \in Int /\ c \in Int
  BY <1>1 DEF ExistingRx
<1>3. \A x \in BusyRx(over) : FirstAt(over, x) \in Int
  <2> SUFFICES ASSUME NEW x \in BusyRx(over) PROVE FirstAt(over, x) \in Int
    OBVIOUS
  <2>1. DOMAIN over = 1 .. Len(over) /\ Len(over) \in Int /\ 1 \in Int
    OBVIOUS
  <2>2. IsFiniteSet(1 .. Len(over))
    BY ONLY <2>1, FS_Interval
  <2>3. At(x) \in SUBSET (1 .. Len(over)) /\ At(x) \in SUBSET Int /\ At(x) # {}
    BY <2>1 DEF BusyRx
  <2>4. FirstAt(over, x) = FSX!Min(At(x))
    BY DEF FirstAt
  <2> HIDE DEF At
  <2>5. IsFiniteSet(At(x))
    BY <2>2, <2>3, FS_Subset
  <2>6. FSX!Min(At(x)) \in At(x)
    BY <2>3, <2>5, MinIs
  <2> QED
    BY <2>3, <2>4, <2>6
<1>4. \A x \in ExistingRx(over, 1) : MetBefore(over, x) = {}
  <2> SUFFICES ASSUME NEW x \in ExistingRx(over, 1) PROVE MetBefore(over, x) = {}
    OBVIOUS
  <2>1. Cardinality(MetBefore(over, x)) < 1
    BY DEF ExistingRx
  <2>2. MetBefore(over, x) \in SUBSET (0 .. n - 1)
    BY <1>1 DEF MetBefore
  <2>3. 0 \in Int /\ n - 1 \in Int
    OBVIOUS
  <2>4. IsFiniteSet(0 .. n - 1)
    BY ONLY <2>3, FS_Interval
  <2>5. IsFiniteSet(MetBefore(over, x))
    BY <2>2, <2>4, FS_Subset
  <2> QED
    BY <2>1, <2>5, FS_CardinalityType, FS_EmptySet
<1>5. b \notin MetBefore(over, c) /\ c \notin MetBefore(over, b)
  BY <1>4
<1> QED
  BY <1>2, <1>3, <1>5 DEF MetBefore

(* A combination puts the request's slice in a window that covers it and   *)
(* the slices in the way, on channels that are in use there.               *)
LEMMA CombineIs ==
  ASSUME NEW A, NEW slots \in Seq(A),
         \A i \in DOMAIN slots : slots[i].lo \in Int /\ slots[i].hi \in Int,
         Guard \in Nat, NEW r, r.cf \in Int, r.bw \in Int, r.bw >= 2,
         NEW dev, NEW from, NEW to,
         NEW f \in CanCombine(slots, dev, r, from, to)
  PROVE  LET over == SlotsOverlapping(slots, from, to)
         IN /\ f = [cf |-> f.cf, sr |-> f.sr, lo |-> SliceLo(r), hi |-> SliceHi(r), rx |-> f.rx]
            /\ f.cf \in Int /\ f.sr \in Int /\ 0 < f.sr
            /\ f.rx \subseteq BusyRx(over)
            /\ f.cf - f.sr \div 2 <= SliceLo(r)
            /\ Guard > 0 => SliceHi(r) <= f.cf + f.sr \div 2
            /\ \A i \in DOMAIN over :
                  /\ f.cf - f.sr \div 2 <= over[i].lo
                  /\ Guard > 0 => over[i].hi <= f.cf + f.sr \div 2
<1> DEFINE over == SlotsOverlapping(slots, from, to)
           w == Window(over, r)
           rx == ExistingRx(over, r.rx)
<1>1. /\ over \in Seq(A)
      /\ \A i \in DOMAIN over : over[i].lo \in Int /\ over[i].hi \in Int
  <2>1. over \in Seq(A) /\ \A k \in DOMAIN over : \E i \in DOMAIN slots : over[k] = slots[i]
    BY OverlappingIs
  <2> HIDE DEF over
  <2> QED
    BY <2>1
<1>2. f = [cf |-> w.cf, sr |-> w.sr, lo |-> SliceLo(r), hi |-> SliceHi(r), rx |-> rx]
  BY DEF CanCombine, AsAsked
<1>3. rx \subseteq BusyRx(over)
  BY DEF ExistingRx
<1> HIDE DEF over
<1>4. /\ w.cf \in Int /\ w.sr \in Int /\ 0 < w.sr
      /\ w.cf - w.sr \div 2 <= SliceLo(r)
      /\ Guard > 0 => SliceHi(r) <= w.cf + w.sr \div 2
      /\ \A i \in DOMAIN over :
            /\ w.cf - w.sr \div 2 <= over[i].lo
            /\ Guard > 0 => over[i].hi <= w.cf + w.sr \div 2
  BY <1>1, WindowIs
<1> HIDE DEF w, rx
<1>5. f.cf = w.cf /\ f.sr = w.sr /\ f.rx = rx
  BY <1>2
<1>6. f = [cf |-> f.cf, sr |-> f.sr, lo |-> SliceLo(r), hi |-> SliceHi(r), rx |-> f.rx]
  BY <1>2, <1>5
<1> QED
  BY <1>3, <1>4, <1>5, <1>6 DEF over
=============================================================================
