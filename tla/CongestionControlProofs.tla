---------------------- MODULE CongestionControlProofs ----------------------
(***************************************************************************)
(* Proofs that a packet is settled once and that the total is the sum of   *)
(* what is in flight, for every number of slots and all lengths of         *)
(* packets, whatever is acknowledged and whenever.                         *)
(***************************************************************************)
EXTENDS CongestionControl, FiniteSetTheorems, WellFoundedInduction, TLAPS

Flying == {inflight[i].seq : i \in Live}

SlotsInv ==
    /\ inflight \in [Slot -> [seq : Nat, size : Nat, sendTime : Nat]]
    /\ now \in Nat

(* No two slots hold the same packet.                                      *)
Distinct == \A i, j \in Live : inflight[i].seq = inflight[j].seq => i = j

SentInv == lastSentSeq \in Nat /\ \A s \in sent : s \in Nat /\ s <= lastSentSeq

Partition ==
    /\ sent = Flying \cup acked \cup lost
    /\ acked \cap lost = {} /\ Flying \cap (acked \cup lost) = {}

LossInv == IsFiniteSet(lost) /\ lossCount = Cardinality(lost)

Inv == SlotsInv /\ Distinct /\ SentInv /\ Partition /\ LossInv

-----------------------------------------------------------------------------
(* A set of naturals that is not empty has a least element.                *)
LEMMA NatMin ==
    ASSUME NEW S, S \subseteq Nat, S # {}
    PROVE  \E n \in S : \A m \in S : n <= m
<1>1. PICK n \in S : \A m \in S : ~(<<m, n>> \in OpToRel(<, Nat))
    BY NatLessThanWellFounded, WFMin
<1>2. ASSUME NEW m \in S PROVE n <= m
    <2>1. ~(m < n)
        BY <1>1 DEF OpToRel
    <2> QED BY <2>1
<1> QED BY <1>2

-----------------------------------------------------------------------------
(* Sums over sets of slots.                                                *)

(* The inductions below are over a set of naturals.                        *)
LEMMA Induction ==
    ASSUME NEW S, 0 \in S, \A n \in Nat : n \in S => n + 1 \in S
    PROVE  \A n \in Nat : n \in S
<1> SUFFICES ASSUME NEW k \in Nat, k \notin S PROVE FALSE
    OBVIOUS
<1>1. PICK T : T = {n \in Nat : n \notin S}
    OBVIOUS
<1>2. PICK n \in T : \A m \in T : n <= m
    BY <1>1, NatMin
<1>3. n - 1 \in Nat /\ n - 1 \notin T
    BY <1>1, <1>2
<1> QED BY <1>1, <1>2, <1>3

(* MapThenSumSet takes the elements of a set in some order: f is its       *)
(* iteration over the subsets of S, for the weights w.                     *)
Pick(s) == CHOOSE x \in s : TRUE
SumStep(f, w, s) == IF s = {} THEN 0 ELSE w[Pick(s)] + f[s \ {Pick(s)}]
Sums(f, w, S) == f = [s \in SUBSET S |-> SumStep(f, w, s)]
UpToSize(S, n) == {s \in SUBSET S : Cardinality(s) <= n}

LEMMA Smaller ==
    ASSUME NEW S, IsFiniteSet(S), NEW s \in SUBSET S, s # {}
    PROVE  /\ Pick(s) \in s /\ s \ {Pick(s)} \in SUBSET S
           /\ Cardinality(s) \in Nat \ {0}
           /\ Cardinality(s \ {Pick(s)}) = Cardinality(s) - 1
<1>1. PICK x : x = Pick(s)
    OBVIOUS
<1>2. x \in s
    BY <1>1 DEF Pick
<1>3. IsFiniteSet(s)
    BY FS_Subset
<1>4. Cardinality(s) \in Nat /\ Cardinality(s) # 0
    BY <1>3, FS_CardinalityType, FS_EmptySet
<1>5. Cardinality(s \ {x}) = Cardinality(s) - 1
    BY <1>2, <1>3, FS_RemoveElement
<1> QED BY <1>1, <1>2, <1>4, <1>5

(* The iteration exists, level by level.                                   *)
LEMMA SumsExist ==
    ASSUME NEW S, IsFiniteSet(S), NEW w \in [S -> Nat]
    PROVE  \E f \in [SUBSET S -> Nat] : Sums(f, w, S)
<1> DEFINE Solves(f, n) == /\ f \in [UpToSize(S, n) -> Nat]
                           /\ \A s \in UpToSize(S, n) : f[s] = SumStep(f, w, s)
<1> DEFINE Solved == {n \in Nat : \E f : Solves(f, n)}
<1>0. \A s \in SUBSET S : IsFiniteSet(s) /\ Cardinality(s) \in Nat /\ Cardinality(s) <= Cardinality(S)
    BY FS_Subset, FS_CardinalityType
<1>1. 0 \in Solved
    <2>1. UpToSize(S, 0) = {{}}
        BY <1>0, FS_EmptySet DEF UpToSize
    <2>2. PICK f : f = [s \in {{}} |-> 0]
        OBVIOUS
    <2>3. f \in [{{}} -> Nat] /\ f[{}] = 0
        BY <2>2
    <2>4. Solves(f, 0)
        BY <2>1, <2>3 DEF SumStep
    <2> QED BY <2>4
<1>2. ASSUME NEW n \in Nat, n \in Solved PROVE n + 1 \in Solved
    <2>1. PICK f : Solves(f, n)
        BY <1>2
    <2>2. ASSUME NEW s \in UpToSize(S, n + 1), s # {}
          PROVE  s \ {Pick(s)} \in UpToSize(S, n) /\ Pick(s) \in S
        BY <1>0, <2>2, Smaller DEF UpToSize
    <2>3. PICK g : g = [s \in UpToSize(S, n + 1) |-> SumStep(f, w, s)]
        OBVIOUS
    <2>4. ASSUME NEW s \in UpToSize(S, n + 1) PROVE g[s] \in Nat
        <3>1. g[s] = SumStep(f, w, s)
            BY <2>3
        <3>2. CASE s = {}
            BY <3>1, <3>2 DEF SumStep
        <3>3. CASE s # {}
            <4>1. PICK x \in S, t \in UpToSize(S, n) : x = Pick(s) /\ t = s \ {x}
                BY <2>2, <3>3
            <4>2. w[x] \in Nat /\ f[t] \in Nat
                BY <2>1, <4>1
            <4>3. g[s] = w[x] + f[t]
                BY <3>1, <3>3, <4>1 DEF SumStep
            <4> QED BY <4>2, <4>3
        <3> QED BY <3>2, <3>3
    <2>5. \A s \in UpToSize(S, n) : s \in UpToSize(S, n + 1) /\ g[s] = f[s]
        <3>1. \A s \in UpToSize(S, n) : s \in UpToSize(S, n + 1)
            BY <1>0 DEF UpToSize
        <3> QED BY <2>1, <2>3, <3>1
    <2>6. ASSUME NEW s \in UpToSize(S, n + 1) PROVE g[s] = SumStep(g, w, s)
        <3>1. g[s] = SumStep(f, w, s)
            BY <2>3
        <3>2. s # {} => g[s \ {Pick(s)}] = f[s \ {Pick(s)}]
            BY <2>2, <2>5
        <3> QED BY <3>1, <3>2 DEF SumStep
    <2>7. g \in [UpToSize(S, n + 1) -> Nat]
        BY <2>3, <2>4
    <2>8. Solves(g, n + 1)
        BY <2>6, <2>7
    <2> QED BY <2>8
<1>3. Cardinality(S) \in Solved
    <2> HIDE DEF Solved
    <2>1. \A n \in Nat : n \in Solved => n + 1 \in Solved
        BY <1>2
    <2>2. \A n \in Nat : n \in Solved
        BY <1>1, <2>1, Induction
    <2> QED BY <2>2, FS_CardinalityType
<1>4. PICK f : Solves(f, Cardinality(S))
    BY <1>3
<1>5. UpToSize(S, Cardinality(S)) = SUBSET S
    BY <1>0 DEF UpToSize
<1>6. f \in [SUBSET S -> Nat] /\ \A s \in SUBSET S : f[s] = SumStep(f, w, s)
    BY <1>4, <1>5
<1>7. Sums(f, w, S)
    BY <1>6 DEF Sums
<1> QED BY <1>6, <1>7

(* Two iterations agree on a set when the weights of its elements agree.   *)
LEMMA SumsAgree ==
    ASSUME NEW S, NEW T, NEW U, IsFiniteSet(U), U \subseteq S, U \subseteq T,
           NEW v, NEW w, NEW f, NEW g, Sums(f, v, S), Sums(g, w, T),
           \A x \in U : v[x] = w[x]
    PROVE  f[U] = g[U]
<1> DEFINE Same == {n \in Nat : \A s \in SUBSET U : Cardinality(s) = n => f[s] = g[s]}
<1>1. \A s \in SUBSET U : f[s] = SumStep(f, v, s) /\ g[s] = SumStep(g, w, s)
    BY DEF Sums
<1>2. \A s \in SUBSET U : Cardinality(s) = 0 => s = {}
    BY FS_Subset, FS_EmptySet
<1>3. 0 \in Same
    BY <1>1, <1>2 DEF SumStep
<1>4. ASSUME NEW n \in Nat, n \in Same PROVE n + 1 \in Same
    <2> SUFFICES ASSUME NEW s \in SUBSET U, Cardinality(s) = n + 1 PROVE f[s] = g[s]
        OBVIOUS
    <2>1. s # {}
        BY FS_EmptySet
    <2>2. PICK x \in s : x = Pick(s) /\ s \ {x} \in SUBSET U /\ Cardinality(s \ {x}) = n
        BY <2>1, Smaller
    <2>3. f[s \ {x}] = g[s \ {x}] /\ v[x] = w[x]
        BY <1>4, <2>2
    <2> QED BY <1>1, <2>1, <2>2, <2>3 DEF SumStep
<1>5. \A n \in Nat : n \in Same
    <2> HIDE DEF Same
    <2> QED BY <1>3, <1>4, Induction
<1> QED BY <1>5, FS_CardinalityType

(* Any element can be taken out of a sum.                                  *)
LEMMA SumsRemove ==
    ASSUME NEW S, IsFiniteSet(S), NEW w \in [S -> Nat], NEW f \in [SUBSET S -> Nat],
           Sums(f, w, S), NEW T \in SUBSET S, NEW y \in T
    PROVE  f[T] = w[y] + f[T \ {y}]
<1> DEFINE Holds == {n \in Nat : \A s \in SUBSET S : Cardinality(s) = n =>
                                   \A x \in s : f[s] = w[x] + f[s \ {x}]}
<1>1. \A s \in SUBSET S : s # {} =>
        /\ Pick(s) \in s /\ Cardinality(s \ {Pick(s)}) = Cardinality(s) - 1
        /\ f[s] = w[Pick(s)] + f[s \ {Pick(s)}]
    BY Smaller DEF Sums, SumStep
<1>2. \A s \in SUBSET S : IsFiniteSet(s) /\ Cardinality(s) \in Nat
    BY FS_Subset, FS_CardinalityType
<1>3. 0 \in Holds
    BY <1>2, FS_EmptySet
<1>4. ASSUME NEW n \in Nat, n \in Holds PROVE n + 1 \in Holds
    <2> SUFFICES ASSUME NEW s \in SUBSET S, Cardinality(s) = n + 1, NEW x \in s
                 PROVE  f[s] = w[x] + f[s \ {x}]
        OBVIOUS
    <2>1. PICK z \in s : f[s] = w[z] + f[s \ {z}] /\ Cardinality(s \ {z}) = n
        <3>1. PICK z : z = Pick(s)
            OBVIOUS
        <3>2. z \in s /\ f[s] = w[z] + f[s \ {z}] /\ Cardinality(s \ {z}) = (n + 1) - 1
            BY <1>1, <3>1
        <3>3. (n + 1) - 1 = n
            OBVIOUS
        <3> QED BY <3>2, <3>3
    <2>2. CASE x = z
        BY <2>1, <2>2
    <2>3. CASE x # z
        <3>1. Cardinality(s \ {x}) = n
            BY <1>2, FS_RemoveElement
        <3>2. f[s \ {z}] = w[x] + f[(s \ {z}) \ {x}]
            BY <1>4, <2>1, <2>3
        <3>3. f[s \ {x}] = w[z] + f[(s \ {x}) \ {z}]
            BY <1>4, <2>3, <3>1
        <3>4. PICK t \in SUBSET S : t = (s \ {z}) \ {x} /\ t = (s \ {x}) \ {z}
            OBVIOUS
        <3>5. PICK a, b, c \in Nat : a = w[x] /\ b = w[z] /\ c = f[t]
            OBVIOUS
        <3>6. f[s] = b + (a + c) /\ f[s \ {x}] = b + c
            BY <2>1, <3>2, <3>3, <3>4, <3>5
        <3>7. b + (a + c) = a + (b + c)
            OBVIOUS
        <3> QED BY <3>5, <3>6, <3>7
    <2> QED BY <2>2, <2>3
<1>5. \A n \in Nat : n \in Holds
    <2> HIDE DEF Holds
    <2> QED BY <1>3, <1>4, Induction
<1> QED BY <1>2, <1>5

(* The sum of two sets without a common element.                           *)
LEMMA SumsUnion ==
    ASSUME NEW S, IsFiniteSet(S), NEW w \in [S -> Nat], NEW f \in [SUBSET S -> Nat],
           Sums(f, w, S), NEW T \in SUBSET S, NEW U \in SUBSET T
    PROVE  f[T] = f[U] + f[T \ U]
<1>0. ASSUME NEW s \in SUBSET S, NEW x \in s PROVE f[s] = w[x] + f[s \ {x}]
    BY SumsRemove
<1> DEFINE Holds == {n \in Nat : \A s \in SUBSET T : Cardinality(s) = n =>
                                   f[T] = f[s] + f[T \ s]}
<1>1. \A s \in SUBSET T : IsFiniteSet(s) /\ Cardinality(s) \in Nat
    BY FS_Subset, FS_CardinalityType
<1>2. f[{}] = 0
    BY DEF Sums, SumStep
<1>3. 0 \in Holds
    <2>1. \A s \in SUBSET T : Cardinality(s) = 0 => s = {}
        BY <1>1, FS_EmptySet
    <2>2. T \ {} = T
        OBVIOUS
    <2>3. PICK a \in Nat : a = f[T]
        OBVIOUS
    <2>4. f[T] = f[{}] + f[T \ {}]
        BY <1>2, <2>2, <2>3
    <2> QED BY <2>1, <2>4
<1>4. ASSUME NEW n \in Nat, n \in Holds PROVE n + 1 \in Holds
    <2> SUFFICES ASSUME NEW s \in SUBSET T, Cardinality(s) = n + 1
                 PROVE  f[T] = f[s] + f[T \ s]
        OBVIOUS
    <2>1. PICK x \in s : TRUE
        BY FS_EmptySet
    <2>2. Cardinality(s \ {x}) = n
        BY <1>1, FS_RemoveElement
    <2>3. f[T] = f[s \ {x}] + f[T \ (s \ {x})]
        BY <1>4, <2>2
    <2>4. f[s] = w[x] + f[s \ {x}]
        BY <1>0
    <2>5. PICK t \in SUBSET S : t = T \ (s \ {x})
        OBVIOUS
    <2>6. x \in t /\ t \ {x} = T \ s
        BY <2>5
    <2>7. f[t] = w[x] + f[t \ {x}]
        BY <1>0, <2>6
    <2>8. PICK a, b, c \in Nat : a = w[x] /\ b = f[s \ {x}] /\ c = f[T \ s]
        OBVIOUS
    <2>9. f[T] = b + (a + c) /\ f[s] = a + b
        BY <2>3, <2>4, <2>5, <2>6, <2>7, <2>8
    <2>10. b + (a + c) = (a + b) + c
        OBVIOUS
    <2> QED BY <2>8, <2>9, <2>10
<1>5. \A n \in Nat : n \in Holds
    <2> HIDE DEF Holds
    <2> QED BY <1>3, <1>4, Induction
<1> QED BY <1>1, <1>5

(* SizeOf is such an iteration over the slots.                             *)
Summable ==
    /\ IsFiniteSet(Slot)
    /\ \E w \in [Slot -> Nat], f \in [SUBSET Slot -> Nat] :
        /\ \A i \in Slot : w[i] = inflight[i].size
        /\ Sums(f, w, Slot)
        /\ \A S \in SUBSET Slot : SizeOf(S) = f[S]

LEMMA SizeIsSum == SlotsInv => Summable
<1> SUFFICES ASSUME SlotsInv PROVE Summable
    OBVIOUS
<1>1. IsFiniteSet(Slot)
    BY CongestionAssumption, FS_Interval DEF Slot
<1>2. PICK W \in [Slot -> Nat] : \A i \in Slot : W[i] = inflight[i].size
    <2>1. [i \in Slot |-> inflight[i].size] \in [Slot -> Nat]
        BY DEF SlotsInv
    <2> QED BY <2>1
<1>3. PICK f \in [SUBSET Slot -> Nat] : Sums(f, W, Slot)
    BY <1>1, <1>2, SumsExist
<1>4. ASSUME NEW S \in SUBSET Slot PROVE SizeOf(S) = f[S]
    <2>1. PICK w : w = [i \in S |-> inflight[i].size]
        OBVIOUS
    <2>2. w \in [S -> Nat] /\ \A i \in S : w[i] = W[i]
        BY <1>2, <2>1
    <2>3. IsFiniteSet(S)
        BY <1>1, FS_Subset
    <2> DEFINE Iterate(h) == [s \in SUBSET S |->
                 IF s = {} THEN 0
                 ELSE inflight[CHOOSE x \in s : TRUE].size + h[s \ {CHOOSE x \in s : TRUE}]]
    <2>4. PICK g : g = CHOOSE h : h = Iterate(h)
        OBVIOUS
    <2>5. Sums(g, w, S)
        <3>1. ASSUME NEW h, NEW s \in SUBSET S
              PROVE  SumStep(h, w, s) =
                       IF s = {} THEN 0
                       ELSE inflight[CHOOSE x \in s : TRUE].size
                              + h[s \ {CHOOSE x \in s : TRUE}]
            BY <2>1 DEF SumStep, Pick
        <3>2. ASSUME NEW h PROVE Sums(h, w, S) <=> h = Iterate(h)
            BY <3>1 DEF Sums
        <3> HIDE DEF Iterate
        <3>3. \E h : h = Iterate(h)
            BY <2>2, <2>3, <3>2, SumsExist, Zenon
        <3>4. g = Iterate(g)
            BY <2>4, <3>3, Zenon
        <3> QED BY <3>2, <3>4
    <2>6. SizeOf(S) = g[S]
        BY <2>4 DEF SizeOf, MapThenSumSet, MapThenFoldSet
    <2> HIDE DEF Iterate
    <2> QED BY <1>3, <2>2, <2>3, <2>5, <2>6, SumsAgree
<1> QED BY <1>1, <1>2, <1>3, <1>4 DEF Summable

LEMMA SizeIsSumNext == SlotsInv' => Summable'
BY SizeIsSum, PTL

LEMMA SizeType ==
    ASSUME SlotsInv, NEW S \in SUBSET Slot
    PROVE  SizeOf(S) \in Nat
<1>1. PICK f \in [SUBSET Slot -> Nat] : \A T \in SUBSET Slot : SizeOf(T) = f[T]
    BY SizeIsSum DEF Summable
<1> QED BY <1>1

LEMMA SizeSplit ==
    ASSUME SlotsInv, NEW S \in SUBSET Slot, NEW T \in SUBSET S
    PROVE  SizeOf(S) = SizeOf(T) + SizeOf(S \ T)
<1>1. IsFiniteSet(Slot)
    BY SizeIsSum DEF Summable
<1>2. PICK w \in [Slot -> Nat], f \in [SUBSET Slot -> Nat] :
        /\ \A k \in Slot : w[k] = inflight[k].size
        /\ Sums(f, w, Slot)
        /\ \A U \in SUBSET Slot : SizeOf(U) = f[U]
    BY SizeIsSum DEF Summable
<1>3. Sums(f, w, Slot)
    BY <1>2
<1>4. f[S] = f[T] + f[S \ T]
    BY <1>1, <1>3, SumsUnion
<1>5. T \in SUBSET Slot /\ S \ T \in SUBSET Slot
    OBVIOUS
<1> QED BY <1>2, <1>4, <1>5

LEMMA SizeSingle ==
    ASSUME SlotsInv, NEW i \in Slot
    PROVE  SizeOf({i}) = inflight[i].size
<1>1. IsFiniteSet(Slot)
    BY SizeIsSum DEF Summable
<1>2. PICK w \in [Slot -> Nat], f \in [SUBSET Slot -> Nat] :
        /\ \A k \in Slot : w[k] = inflight[k].size
        /\ Sums(f, w, Slot)
        /\ \A U \in SUBSET Slot : SizeOf(U) = f[U]
    BY SizeIsSum DEF Summable
<1>3. Sums(f, w, Slot)
    BY <1>2
<1>4. f[{i}] = w[i] + f[{i} \ {i}]
    <2>1. ASSUME NEW S \in SUBSET Slot, NEW x \in S PROVE f[S] = w[x] + f[S \ {x}]
        BY <1>1, <1>3, SumsRemove
    <2>2. {i} \in SUBSET Slot
        OBVIOUS
    <2> QED BY <2>1, <2>2
<1>5. f[{}] = 0
    BY <1>2 DEF Sums, SumStep
<1>6. PICK a \in Nat : a = w[i] /\ a = inflight[i].size
    BY <1>2
<1>7. f[{i}] = a + 0
    <2>1. {i} \ {i} = {}
        OBVIOUS
    <2> QED BY <1>4, <1>5, <1>6, <2>1
<1> QED BY <1>2, <1>6, <1>7

(* The laws of sums that the proof needs, for the state and for the next.  *)
SizeLaws ==
    /\ \A S \in SUBSET Slot : SizeOf(S) \in Nat
    /\ \A S \in SUBSET Slot : \A T \in SUBSET S : SizeOf(S) = SizeOf(T) + SizeOf(S \ T)
    /\ \A i \in Slot : SizeOf({i}) = inflight[i].size
    /\ SizeOf({}) = 0

LEMMA Laws == SlotsInv => SizeLaws
<1> SUFFICES ASSUME SlotsInv PROVE SizeLaws
    OBVIOUS
<1>1. SizeOf({}) = 0
    <2>1. PICK w, f : Sums(f, w, Slot) /\ \A S \in SUBSET Slot : SizeOf(S) = f[S]
        BY SizeIsSum DEF Summable
    <2> QED BY <2>1 DEF Sums, SumStep
<1>2. \A S \in SUBSET Slot : \A T \in SUBSET S : SizeOf(S) = SizeOf(T) + SizeOf(S \ T)
    BY SizeSplit
<1> QED BY <1>1, <1>2, SizeType, SizeSingle DEF SizeLaws

LEMMA LawsNext == SlotsInv' => SizeLaws'
BY Laws, PTL

LEMMA SizeKept ==
    ASSUME SlotsInv, SlotsInv', NEW S \in SUBSET Slot,
           \A i \in S : inflight'[i].size = inflight[i].size
    PROVE  SizeOf(S)' = SizeOf(S)
<1>1. IsFiniteSet(Slot)
    BY SizeIsSum DEF Summable
<1>2. PICK v, f : /\ \A k \in Slot : v[k] = inflight[k].size
                  /\ Sums(f, v, Slot) /\ SizeOf(S) = f[S]
    BY SizeIsSum DEF Summable
<1>4. PICK w, g : /\ \A k \in Slot : w[k] = inflight'[k].size
                  /\ Sums(g, w, Slot) /\ SizeOf(S)' = g[S]
    BY SizeIsSumNext DEF Summable
<1>5. \A i \in S : v[i] = w[i]
    BY <1>2, <1>4
<1>6. IsFiniteSet(S)
    BY <1>1, FS_Subset
<1>7. f[S] = g[S]
    BY <1>2, <1>4, <1>5, <1>6, SumsAgree
<1> QED BY <1>2, <1>4, <1>7

-----------------------------------------------------------------------------
(* The loop of PacketSent finds a slot: the assertion at 114.              *)
LEMMA SlotFound == SlotsInv => SlotToUse \in Slot
<1> SUFFICES ASSUME SlotsInv PROVE SlotToUse \in Slot
    OBVIOUS
<1>1. Slot \subseteq Nat /\ 1 \in Slot
    BY CongestionAssumption DEF Slot
<1>2. CASE \E i \in Slot : Free(i)
    <2>1. {i \in Slot : Free(i)} # {} /\ {i \in Slot : Free(i)} \subseteq Nat
        BY <1>1, <1>2
    <2>2. \E i \in {k \in Slot : Free(k)} : \A j \in {k \in Slot : Free(k)} : i <= j
        BY <2>1, NatMin
    <2>3. \E i \in Slot : Free(i) /\ \A j \in Slot : Free(j) => i <= j
        BY <2>2
    <2> QED BY <1>2, <2>3 DEF SlotToUse
<1>3. CASE ~(\E i \in Slot : Free(i))
    <2>1. {inflight[i].sendTime : i \in Slot} \subseteq Nat
          /\ {inflight[i].sendTime : i \in Slot} # {}
        BY <1>1 DEF SlotsInv
    <2>2. \E n \in {inflight[i].sendTime : i \in Slot} :
            \A m \in {inflight[i].sendTime : i \in Slot} : n <= m
        BY <2>1, NatMin
    <2>3. \E i \in Slot : \A j \in Slot : inflight[i].sendTime <= inflight[j].sendTime
        BY <2>2
    <2> QED BY <1>3, <2>3 DEF SlotToUse
<1> QED BY <1>2, <1>3

(* Every set of slots is finite, and holds as many packets as it has       *)
(* slots in use.                                                           *)
LEMMA AsManyPackets ==
    ASSUME Distinct, NEW S \in SUBSET Live
    PROVE  /\ IsFiniteSet(S) /\ IsFiniteSet({inflight[i].seq : i \in S})
           /\ Cardinality({inflight[i].seq : i \in S}) = Cardinality(S)
<1>1. IsFiniteSet(Slot)
    BY CongestionAssumption, FS_Interval DEF Slot
<1>2. IsFiniteSet(S)
    BY <1>1, FS_Subset DEF Live
<1> DEFINE T == {inflight[i].seq : i \in S}
           f == [i \in S |-> inflight[i].seq]
<1>3. f \in [S -> T] /\ (\A i, j \in S : f[i] = f[j] => i = j) /\ \A t \in T : \E i \in S : f[i] = t
    BY DEF Distinct
<1> HIDE DEF f
<1>4. f \in Bijection(S, T)
    BY <1>3 DEF Bijection, Injection, Surjection, IsInjective
<1>5. ExistsBijection(S, T)
    BY <1>4 DEF ExistsBijection
<1> HIDE DEF T
<1>6. IsFiniteSet(T) /\ Cardinality(T) = Cardinality(S)
    BY <1>2, <1>5, FS_Bijection
<1> QED BY <1>2, <1>6 DEF T

LEMMA InitInv == Init => Inv
<1> SUFFICES ASSUME Init PROVE Inv
    OBVIOUS
<1>1. SlotsInv
    BY DEF Init, SlotsInv
<1>2. Live = {}
    BY DEF Init, Live, Free
<1>3. Distinct /\ SentInv /\ Partition
    BY <1>2 DEF Init, Distinct, SentInv, Partition, Flying
<1>4. LossInv
    BY FS_EmptySet DEF Init, LossInv
<1> QED BY <1>1, <1>3, <1>4 DEF Inv

(* A packet takes a slot; the packet that was there, if any, is lost.      *)
LEMMA PacketSentInv ==
    ASSUME Inv, NEW s \in 1..MaxSeq, NEW z \in Sizes, PacketSent(s, z)
    PROVE  Inv'
<1>1. PICK i \in Slot : i = SlotToUse
    BY SlotFound DEF Inv
<1>2. s \in Nat /\ z \in Nat /\ now \in Nat /\ s > lastSentSeq
    BY CongestionAssumption DEF Inv, SlotsInv, PacketSent
<1>3. /\ inflight' = [inflight EXCEPT ![i] = [seq |-> s, size |-> z, sendTime |-> now + 1]]
      /\ lost' = IF Free(i) THEN lost ELSE lost \cup {inflight[i].seq}
      /\ lossCount' = IF Free(i) THEN lossCount ELSE lossCount + 1
      /\ sent' = sent \cup {s} /\ lastSentSeq' = s /\ now' = now + 1 /\ acked' = acked
    BY <1>1 DEF PacketSent
<1>4. inflight \in [Slot -> [seq : Nat, size : Nat, sendTime : Nat]]
    BY DEF Inv, SlotsInv
<1>5. SlotsInv'
    BY <1>1, <1>2, <1>3, <1>4 DEF SlotsInv
<1>6. s \notin sent
    BY <1>2 DEF Inv, SentInv
<1>7. /\ \A j \in Slot \ {i} : inflight'[j] = inflight[j] /\ (Free(j)' <=> Free(j))
      /\ inflight'[i].seq = s /\ ~Free(i)'
    BY <1>1, <1>2, <1>3, <1>4 DEF Free
<1>8. Live' = Live \cup {i}
    BY <1>1, <1>7 DEF Live
<1>9. \A j \in Live : inflight[j].seq \in sent
    BY DEF Inv, Partition, Flying
<1>10. Distinct'
    <2> SUFFICES ASSUME NEW j \in Live', NEW k \in Live', inflight'[j].seq = inflight'[k].seq
                 PROVE  j = k
        BY DEF Distinct
    <2>1. \A x \in Live \ {i} : inflight'[x].seq = inflight[x].seq /\ inflight[x].seq # s
        BY <1>6, <1>7, <1>9 DEF Live
    <2> QED BY <1>7, <1>8, <2>1 DEF Inv, Distinct
<1>11. SentInv'
    BY <1>2, <1>3 DEF Inv, SentInv
<1>12. Flying' = {inflight[j].seq : j \in Live \ {i}} \cup {s}
    <2>1. \A j \in Live \ {i} : inflight'[j].seq = inflight[j].seq
        BY <1>7 DEF Live
    <2>2. Flying' = {inflight'[j].seq : j \in Live'}
        BY DEF Flying
    <2> QED BY <1>7, <1>8, <2>1, <2>2
<1>13. CASE Free(i)
    <2>1. i \notin Live /\ lost' = lost /\ lossCount' = lossCount
        BY <1>3, <1>13 DEF Live
    <2>2. Flying' = Flying \cup {s}
        BY <1>12, <2>1 DEF Flying
    <2>3. Partition' /\ LossInv'
        BY <1>3, <1>6, <2>1, <2>2 DEF Inv, Partition, LossInv
    <2> QED BY <1>5, <1>10, <1>11, <2>3 DEF Inv
<1>14. CASE ~Free(i)
    <2> DEFINE d == inflight[i].seq
    <2>1. i \in Live /\ lost' = lost \cup {d} /\ lossCount' = lossCount + 1
        BY <1>1, <1>3, <1>14 DEF Live
    <2>2. \A j \in Live \ {i} : inflight[j].seq # d
        BY <2>1 DEF Inv, Distinct
    <2>3. Flying = {inflight[j].seq : j \in Live \ {i}} \cup {d}
        BY <2>1 DEF Flying
    <2>4. d \notin {inflight[j].seq : j \in Live \ {i}}
        BY <2>2
    <2> HIDE DEF d
    <2>5. d \in Flying /\ d \in sent /\ d \notin acked /\ d \notin lost /\ d # s
        BY <1>6, <2>3 DEF Inv, Partition
    <2>6. Flying' = (Flying \ {d}) \cup {s}
        BY <1>12, <2>3, <2>4
    <2>7. Partition'
        BY <1>3, <1>6, <2>1, <2>5, <2>6 DEF Inv, Partition
    <2>8. LossInv'
        <3>1. IsFiniteSet(lost) /\ lossCount = Cardinality(lost)
            BY DEF Inv, LossInv
        <3>2. IsFiniteSet(lost \cup {d}) /\ Cardinality(lost \cup {d}) = Cardinality(lost) + 1
            BY <2>5, <3>1, FS_AddElement
        <3> QED BY <2>1, <3>1, <3>2 DEF LossInv
    <2> QED BY <1>5, <1>10, <1>11, <2>7, <2>8 DEF Inv
<1> QED BY <1>13, <1>14

(* Slots are emptied, and hold the packets that leave the air.             *)
LEMMA EmptiedInv ==
    ASSUME Inv, NEW S \in SUBSET Live,
           inflight' = [i \in Slot |-> IF i \in S THEN [inflight[i] EXCEPT !.sendTime = 0]
                                       ELSE inflight[i]],
           now' = now
    PROVE  /\ SlotsInv' /\ Distinct'
           /\ Flying' = Flying \ {inflight[i].seq : i \in S}
           /\ {inflight[i].seq : i \in S} \subseteq Flying
<1>1. inflight \in [Slot -> [seq : Nat, size : Nat, sendTime : Nat]] /\ S \subseteq Slot
    BY DEF Inv, SlotsInv, Live
<1>2. SlotsInv'
    <2>1. \A i \in Slot : [inflight[i] EXCEPT !.sendTime = 0]
                            \in [seq : Nat, size : Nat, sendTime : Nat]
        BY <1>1
    <2> QED BY <1>1, <2>1 DEF Inv, SlotsInv
<1>3. \A i \in Slot : inflight'[i].seq = inflight[i].seq
    BY <1>1
<1>4. \A i \in Slot : Free(i)' <=> (Free(i) \/ i \in S)
    BY <1>1 DEF Free
<1>5. Live' = Live \ S
    BY <1>4 DEF Live
<1>6. Live \subseteq Slot
    BY DEF Live
<1>7. Distinct'
    BY <1>3, <1>5, <1>6 DEF Inv, Distinct
<1>8. Flying' = {inflight[i].seq : i \in Live \ S}
    <2>1. Flying' = {inflight'[i].seq : i \in Live'}
        BY DEF Flying
    <2> QED BY <1>3, <1>5, <1>6, <2>1
<1>9. \A i \in Live, j \in S : inflight[i].seq = inflight[j].seq => i = j
    BY DEF Inv, Distinct
<1>10. Flying' = Flying \ {inflight[i].seq : i \in S}
    BY <1>8, <1>9 DEF Flying
<1> QED BY <1>2, <1>7, <1>10 DEF Flying

LEMMA PacketAcknowledgedInv ==
    ASSUME Inv, NEW s \in 1..MaxSeq, PacketAcknowledged(s)
    PROVE  Inv'
<1>1. PICK i \in Awaiting(s) : TRUE
    BY DEF PacketAcknowledged
<1>2. i \in Live /\ i \in Nat /\ inflight[i].seq = s
    BY <1>1 DEF Awaiting, Live, Slot
<1>3. Awaiting(s) = {i}
    BY <1>1 DEF Awaiting, Live, Inv, Distinct
<1>4. Min({i}) = i
    BY <1>2 DEF Min
<1>5. inflight' = [inflight EXCEPT ![i].sendTime = 0]
    BY <1>3, <1>4 DEF PacketAcknowledged
<1>6. /\ acked' = acked \cup {s}
      /\ UNCHANGED <<lossCount, lastSentSeq, now, sent, lost>>
    BY DEF PacketAcknowledged
<1>7. inflight' = [k \in Slot |-> IF k \in {i} THEN [inflight[k] EXCEPT !.sendTime = 0]
                                  ELSE inflight[k]]
    BY <1>5 DEF Inv, SlotsInv
<1>8. {i} \in SUBSET Live /\ {inflight[k].seq : k \in {i}} = {s}
    BY <1>2
<1>9. SlotsInv' /\ Distinct' /\ Flying' = Flying \ {s} /\ s \in Flying
    BY <1>6, <1>7, <1>8, EmptiedInv
<1>10. SentInv' /\ LossInv' /\ Partition'
    BY <1>6, <1>9 DEF Inv, SentInv, LossInv, Partition
<1> QED BY <1>9, <1>10 DEF Inv

LEMMA TickInv ==
    ASSUME Inv, NEW cut \in 0..now, Tick(cut)
    PROVE  Inv'
<1> DEFINE old == Expired(cut)
           gone == {inflight[i].seq : i \in old}
<1>1. old \in SUBSET Live
    BY DEF Expired
<1>2. /\ inflight' = [i \in Slot |-> IF i \in old THEN [inflight[i] EXCEPT !.sendTime = 0]
                                     ELSE inflight[i]]
      /\ lossCount' = lossCount + Cardinality(old)
      /\ lost' = lost \cup gone
      /\ UNCHANGED <<lastSentSeq, now, sent, acked>>
    BY DEF Tick
<1> HIDE DEF old
<1>3. SlotsInv' /\ Distinct' /\ Flying' = Flying \ gone /\ gone \subseteq Flying
    BY <1>1, <1>2, EmptiedInv
<1>4. IsFiniteSet(gone) /\ Cardinality(gone) = Cardinality(old)
    BY <1>1, AsManyPackets DEF Inv
<1> HIDE DEF gone
<1>5. SentInv' /\ Partition'
    BY <1>2, <1>3 DEF Inv, SentInv, Partition
<1>6. LossInv'
    <2>1. IsFiniteSet(lost) /\ lossCount = Cardinality(lost) /\ lost \cap gone = {}
        BY <1>3 DEF Inv, LossInv, Partition
    <2>2. IsFiniteSet(lost \cup gone)
          /\ Cardinality(lost \cup gone)
                = Cardinality(lost) + Cardinality(gone) - Cardinality(lost \cap gone)
        BY <1>4, <2>1, FS_Union
    <2>3. Cardinality(lost) \in Nat /\ Cardinality(gone) \in Nat /\ Cardinality({}) = 0
        BY <1>4, <2>1, FS_CardinalityType, FS_EmptySet
    <2>4. Cardinality(lost \cap gone) = 0
        BY <2>1, <2>3
    <2>5. \A a, b \in Nat : a + b - 0 = a + b
        OBVIOUS
    <2>6. Cardinality(lost \cup gone) = lossCount + Cardinality(old)
        BY <1>4, <2>1, <2>2, <2>3, <2>4, <2>5
    <2> QED BY <1>2, <2>2, <2>6 DEF LossInv
<1> QED BY <1>3, <1>5, <1>6 DEF Inv

LEMMA Invariant == Spec => []Inv
<1>1. Inv /\ [Next]_vars => Inv'
    <2> SUFFICES ASSUME Inv, [Next]_vars PROVE Inv'
        OBVIOUS
    <2>1. ASSUME NEW s \in 1..MaxSeq, NEW z \in Sizes, PacketSent(s, z) PROVE Inv'
        BY <2>1, PacketSentInv
    <2>2. ASSUME NEW s \in 1..MaxSeq, PacketAcknowledged(s) PROVE Inv'
        BY <2>2, PacketAcknowledgedInv
    <2>3. ASSUME NEW cut \in 0..now, Tick(cut) PROVE Inv'
        BY <2>3, TickInv
    <2>4. CASE UNCHANGED vars
        BY <2>4 DEF vars, Inv, SlotsInv, Distinct, SentInv, Partition, LossInv, Flying,
                    Live, Free
    <2> QED BY <2>1, <2>2, <2>3, <2>4 DEF Next
<1> QED BY <1>1, InitInv, PTL DEF Spec

(* A media packet is settled exactly once, through displacement, expiry    *)
(* and acknowledgements that come late, again or for nothing, and          *)
(* lossCount counts each lost packet once.                                 *)
THEOREM SettledSafe == Spec => []SettledOnce
<1>1. Inv => SettledOnce
    <2> SUFFICES ASSUME Inv PROVE SettledOnce
        OBVIOUS
    <2>1. Cardinality(Flying) = Cardinality(Live)
        BY AsManyPackets DEF Inv, Flying
    <2> QED BY <2>1 DEF Inv, Partition, LossInv, SettledOnce, Flying
<1> QED BY <1>1, Invariant, PTL

-----------------------------------------------------------------------------
(* The total.                                                              *)

(* Slots that are emptied give back what they held.                        *)
LEMMA EmptiedSize ==
    ASSUME Inv, Inv', SizeIsInflight, NEW S \in SUBSET Slot, S \subseteq Live,
           inflight' = [i \in Slot |-> IF i \in S THEN [inflight[i] EXCEPT !.sendTime = 0]
                                       ELSE inflight[i]],
           inflightDataSize' = inflightDataSize - SizeOf(S)
    PROVE  SizeIsInflight'
<1>1. SlotsInv /\ SlotsInv' /\ inflight \in [Slot -> [seq : Nat, size : Nat, sendTime : Nat]]
    BY DEF Inv, SlotsInv
<1>2. PICK L \in SUBSET Slot : L = Live
    BY DEF Live
<1>3. Live' = L \ S
    <2>1. \A i \in Slot : Free(i)' <=> (Free(i) \/ i \in S)
        BY <1>1 DEF Free
    <2> QED BY <1>2, <2>1 DEF Live
<1>4. PICK R \in SUBSET Slot : R = L \ S
    OBVIOUS
<1>5. SizeOf(R)' = SizeOf(R)
    <2>1. \A i \in R : inflight'[i].size = inflight[i].size
        BY <1>1, <1>4
    <2> QED BY <1>1, <2>1, SizeKept
<1>6. S \in SUBSET L
    BY <1>2
<1>7. SizeOf(L) = SizeOf(S) + SizeOf(R)
    BY <1>1, <1>4, <1>6, SizeSplit
<1>8. PICK a, b \in Nat : a = SizeOf(S) /\ b = SizeOf(R)
    BY <1>1, SizeType
<1>9. inflightDataSize' = (a + b) - a
    BY <1>2, <1>7, <1>8 DEF SizeIsInflight
<1>10. inflightDataSize' = b
    BY <1>9
<1>11. SizeIsInflight' <=> inflightDataSize' = SizeOf(R)'
    BY <1>3, <1>4 DEF SizeIsInflight
<1> QED BY <1>5, <1>8, <1>10, <1>11

LEMMA PacketSentSize ==
    ASSUME Inv, Inv', SizeIsInflight, NEW s \in 1..MaxSeq, NEW z \in Sizes, PacketSent(s, z)
    PROVE  SizeIsInflight'
<1>1. PICK i \in Slot : i = SlotToUse
    BY SlotFound DEF Inv
<1>2. SlotsInv /\ SlotsInv' /\ z \in Nat
      /\ now \in Nat /\ inflight \in [Slot -> [seq : Nat, size : Nat, sendTime : Nat]]
    BY CongestionAssumption DEF Inv, SlotsInv
<1>3. /\ inflight' = [inflight EXCEPT ![i] = [seq |-> s, size |-> z, sendTime |-> now + 1]]
      /\ inflightDataSize' = inflightDataSize - DisplacedSize(i) + z
    BY <1>1 DEF PacketSent
<1>4. PICK L \in SUBSET Slot : L = Live
    BY DEF Live
<1>5. PICK R, N \in SUBSET Slot : R = L \ {i} /\ N = L \cup {i}
    OBVIOUS
<1>6. /\ \A j \in Slot \ {i} : inflight'[j] = inflight[j] /\ (Free(j)' <=> Free(j))
      /\ inflight'[i].size = z /\ ~Free(i)'
    BY <1>1, <1>2, <1>3 DEF Free
<1>7. Live' = N
    BY <1>1, <1>4, <1>5, <1>6 DEF Live
<1>8. SizeOf(R)' = SizeOf(R)
    <2>1. \A j \in R : inflight'[j].size = inflight[j].size
        BY <1>5, <1>6
    <2> QED BY <1>2, <2>1, SizeKept
<1>9. PICK a \in Nat : a = SizeOf(R)
    BY <1>2, SizeType
<1>10. SizeOf(N)' = z + a
    <2>1. {i} \in SUBSET N /\ N \ {i} = R
        BY <1>5
    <2>2. SizeOf(N)' = SizeOf({i})' + SizeOf(R)'
        BY <1>2, <2>1, LawsNext DEF SizeLaws
    <2>3. SizeOf({i})' = z
        BY <1>2, <1>6, LawsNext DEF SizeLaws
    <2> QED BY <1>8, <1>9, <2>2, <2>3
<1>11. SizeOf(L) = DisplacedSize(i) + a /\ DisplacedSize(i) \in Nat
    <2>1. CASE Free(i)
        <3>1. R = L /\ DisplacedSize(i) = 0
            BY <1>4, <1>5, <2>1 DEF Live, DisplacedSize
        <3> QED BY <1>9, <3>1
    <2>2. CASE ~Free(i)
        <3>1. {i} \in SUBSET L /\ DisplacedSize(i) = inflight[i].size
            BY <1>4, <2>2 DEF Live, DisplacedSize
        <3>2. SizeOf(L) = SizeOf({i}) + SizeOf(R)
            BY <1>2, <1>5, <3>1, SizeSplit
        <3>3. SizeOf({i}) = inflight[i].size /\ inflight[i].size \in Nat
            BY <1>2, SizeSingle
        <3> QED BY <1>9, <3>1, <3>2, <3>3
    <2> QED BY <2>1, <2>2
<1>12. PICK d \in Nat : d = DisplacedSize(i)
    BY <1>11
<1>13. inflightDataSize' = (d + a) - d + z
    BY <1>3, <1>4, <1>11, <1>12 DEF SizeIsInflight
<1>14. inflightDataSize' = z + a
    BY <1>2, <1>13
<1> QED BY <1>7, <1>10, <1>14 DEF SizeIsInflight

LEMMA PacketAcknowledgedSize ==
    ASSUME Inv, Inv', SizeIsInflight, NEW s \in 1..MaxSeq, PacketAcknowledged(s)
    PROVE  SizeIsInflight'
<1>1. PICK i \in Awaiting(s) : TRUE
    BY DEF PacketAcknowledged
<1>2. i \in Live /\ i \in Nat /\ i \in Slot
    BY <1>1 DEF Awaiting, Live, Slot
<1>3. Awaiting(s) = {i}
    BY <1>1 DEF Awaiting, Live, Inv, Distinct
<1>4. Min({i}) = i
    BY <1>2 DEF Min
<1>5. /\ inflight' = [inflight EXCEPT ![i].sendTime = 0]
      /\ inflightDataSize' = inflightDataSize - inflight[i].size
    BY <1>3, <1>4 DEF PacketAcknowledged
<1>6. inflight' = [k \in Slot |-> IF k \in {i} THEN [inflight[k] EXCEPT !.sendTime = 0]
                                  ELSE inflight[k]]
    BY <1>5 DEF Inv, SlotsInv
<1>7. SizeOf({i}) = inflight[i].size
    BY <1>2, SizeSingle DEF Inv
<1>8. {i} \in SUBSET Slot /\ {i} \subseteq Live
    BY <1>2
<1> QED BY <1>5, <1>6, <1>7, <1>8, EmptiedSize

LEMMA TickSize ==
    ASSUME Inv, Inv', SizeIsInflight, NEW cut \in 0..now, Tick(cut)
    PROVE  SizeIsInflight'
<1>1. PICK S \in SUBSET Slot : S = Expired(cut)
    BY DEF Expired, Live
<1>2. S \subseteq Live
    BY <1>1 DEF Expired
<1>3. /\ inflight' = [i \in Slot |-> IF i \in S THEN [inflight[i] EXCEPT !.sendTime = 0]
                                     ELSE inflight[i]]
      /\ inflightDataSize' = inflightDataSize - SizeOf(S)
    BY <1>1 DEF Tick
<1> QED BY <1>2, <1>3, EmptiedSize

(* The total is the sum of the packets in flight, whichever way they leave *)
(* their slots: the code's unsigned subtractions never go below zero.      *)
THEOREM SizeSafe == Spec => []SizeIsInflight
<1>1. Init => SizeIsInflight
    <2> SUFFICES ASSUME Init PROVE SizeIsInflight
        OBVIOUS
    <2>1. Live = {} /\ inflightDataSize = 0
        BY DEF Init, Live, Free
    <2>2. SizeOf({}) = 0
        <3>1. SlotsInv
            BY InitInv DEF Inv
        <3> QED BY <3>1, Laws DEF SizeLaws
    <2> QED BY <2>1, <2>2 DEF SizeIsInflight
<1>2. Inv /\ Inv' /\ SizeIsInflight /\ [Next]_vars => SizeIsInflight'
    <2> SUFFICES ASSUME Inv, Inv', SizeIsInflight, [Next]_vars PROVE SizeIsInflight'
        OBVIOUS
    <2>1. ASSUME NEW s \in 1..MaxSeq, NEW z \in Sizes, PacketSent(s, z) PROVE SizeIsInflight'
        BY <2>1, PacketSentSize
    <2>2. ASSUME NEW s \in 1..MaxSeq, PacketAcknowledged(s) PROVE SizeIsInflight'
        BY <2>2, PacketAcknowledgedSize
    <2>3. ASSUME NEW cut \in 0..now, Tick(cut) PROVE SizeIsInflight'
        BY <2>3, TickSize
    <2>4. CASE UNCHANGED vars
        <3>1. PICK L \in SUBSET Slot : L = Live
            BY DEF Live
        <3>2. inflight' = inflight /\ inflightDataSize' = inflightDataSize /\ Live' = L
            BY <2>4, <3>1 DEF vars, Live, Free
        <3>3. SizeOf(L)' = SizeOf(L)
            BY <3>2, SizeKept DEF Inv
        <3> QED BY <3>1, <3>2, <3>3 DEF SizeIsInflight
    <2> QED BY <2>1, <2>2, <2>3, <2>4 DEF Next
<1> QED BY <1>1, <1>2, Invariant, PTL DEF Spec
=============================================================================
