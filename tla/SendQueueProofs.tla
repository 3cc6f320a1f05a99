-------------------------- MODULE SendQueueProofs --------------------------
(***************************************************************************)
(* Proofs about the threads of a call and the queue between them, for      *)
(* every size of the pool and the queue and any audio threads.             *)
(***************************************************************************)
EXTENDS SendQueue, SequenceTheorems, FiniteSetTheorems, TLAPS

(***************************************************************************)
(* RemoveFirst on a sequence in which the element occurs at most once.     *)
(***************************************************************************)
Occurs(s, e) == \E i \in 1..Len(s) : s[i] = e
Once(s, e) == \A i, j \in 1..Len(s) : s[i] = e /\ s[j] = e => i = j

(* u is s without its element e at k: what follows k moves up.             *)
Removal(S, s, e, k, u) ==
    /\ u \in Seq(S \ {e}) /\ Len(u) = Len(s) - 1
    /\ \A i \in 1..(Len(s) - 1) : u[i] = IF i < k THEN s[i] ELSE s[i + 1]

(* Nothing is removed when the element does not occur.                     *)
LEMMA RemoveNone ==
    ASSUME NEW S, NEW s \in Seq(S), NEW e, ~Occurs(s, e)
    PROVE  RemoveFirst(s, e) = s /\ s \in Seq(S \ {e})
<1>1. RemoveFirst(s, e) = s
    BY DEF RemoveFirst, Occurs
<1>2. s \in [1..Len(s) -> S] /\ Len(s) \in Nat
    BY LenProperties
<1>3. \A i \in 1..Len(s) : s[i] \in S \ {e}
    BY <1>2 DEF Occurs
<1>4. s \in [1..Len(s) -> S \ {e}]
    BY <1>2, <1>3
<1> QED BY <1>1, <1>2, <1>4

(* The one occurrence is removed.                                          *)
LEMMA RemoveOne ==
    ASSUME NEW S, NEW s \in Seq(S), NEW e, Once(s, e),
           NEW k \in 1..Len(s), s[k] = e
    PROVE  Removal(S, s, e, k, RemoveFirst(s, e))
<1> DEFINE a == SubSeq(s, 1, k - 1)
           b == SubSeq(s, k + 1, Len(s))
<1>1. Len(s) \in Nat /\ s \in [1..Len(s) -> S] /\ k \in Nat /\ k >= 1 /\ k <= Len(s)
    BY LenProperties
<1>2. \A i \in 1..Len(s) : i # k => s[i] \in S \ {e}
    BY <1>1 DEF Once
<1>3. RemoveFirst(s, e) = a \o b
    <2>1. {i \in 1..Len(s) : s[i] = e} = {k}
        BY DEF Once
    <2>2. Min({k}) = k
        BY <1>1 DEF Min
    <2>3. SelectInSeq(s, LAMBDA v : v = e) = k
        BY <2>1, <2>2 DEF SelectInSeq
    <2> QED BY <2>3 DEF RemoveFirst, RemoveAt
<1>4. /\ a \in Seq(S \ {e}) /\ Len(a) = k - 1
      /\ \A i \in 1..(k - 1) : a[i] = s[i]
    <2>1. \A i \in 1..(k - 1) : s[i] \in S \ {e}
        BY <1>1, <1>2
    <2>2. 1 \in Int /\ k - 1 \in Int
        BY <1>1
    <2>3. /\ a \in Seq(S \ {e}) /\ Len(a) = IF 1 <= k - 1 THEN k - 1 - 1 + 1 ELSE 0
          /\ \A i \in 1..(k - 1 - 1 + 1) : a[i] = s[1 + i - 1]
        BY <2>1, <2>2, SubSeqProperties
    <2> QED BY <1>1, <2>3
<1>5. /\ b \in Seq(S \ {e}) /\ Len(b) = Len(s) - k
      /\ \A i \in 1..(Len(s) - k) : b[i] = s[k + i]
    <2>1. \A i \in (k + 1)..Len(s) : s[i] \in S \ {e}
        BY <1>1, <1>2
    <2>2. k + 1 \in Int /\ Len(s) \in Int
        BY <1>1
    <2>3. /\ b \in Seq(S \ {e})
          /\ Len(b) = IF k + 1 <= Len(s) THEN Len(s) - (k + 1) + 1 ELSE 0
          /\ \A i \in 1..(Len(s) - (k + 1) + 1) : b[i] = s[(k + 1) + i - 1]
        BY <2>1, <2>2, SubSeqProperties
    <2>4. Len(s) - (k + 1) + 1 = Len(s) - k /\ Len(b) = Len(s) - k
        <3>1. \A m, n \in Nat : /\ n - (m + 1) + 1 = n - m
                                /\ m <= n /\ ~(m + 1 <= n) => n - m = 0
            OBVIOUS
        <3>2. Len(s) - (k + 1) + 1 = Len(s) - k
            BY <1>1, <3>1
        <3>3. ~(k + 1 <= Len(s)) => Len(s) - k = 0
            BY <1>1, <3>1
        <3> HIDE DEF b
        <3> QED BY <2>3, <3>2, <3>3
    <2>5. \A i \in 1..(Len(s) - k) : (k + 1) + i - 1 = k + i
        BY <1>1
    <2> HIDE DEF b
    <2> QED BY <2>3, <2>4, <2>5
<1> HIDE DEF a, b
<1>6. /\ a \o b \in Seq(S \ {e}) /\ Len(a \o b) = Len(a) + Len(b)
      /\ \A i \in 1..(Len(a) + Len(b)) :
            (a \o b)[i] = IF i <= Len(a) THEN a[i] ELSE b[i - Len(a)]
    BY <1>4, <1>5, ConcatProperties
<1>7. Len(a) + Len(b) = Len(s) - 1
    BY <1>1, <1>4, <1>5
<1>8. ASSUME NEW i \in 1..(Len(s) - 1)
      PROVE  (a \o b)[i] = IF i < k THEN s[i] ELSE s[i + 1]
    <2>1. CASE i < k
        BY <1>1, <1>4, <1>6, <1>7, <2>1
    <2>2. CASE i >= k
        <3>1. i - Len(a) \in 1..(Len(s) - k) /\ ~(i <= Len(a))
            BY <1>1, <1>4, <2>2
        <3>2. b[i - Len(a)] = s[k + (i - Len(a))]
            BY <1>5, <3>1
        <3>3. k + (i - Len(a)) = i + 1
            BY <1>1, <1>4
        <3> QED BY <1>6, <1>7, <2>2, <3>1, <3>2, <3>3
    <2>3. i < k \/ i >= k
        BY <1>1
    <2> QED BY <2>1, <2>2, <2>3
<1> QED BY <1>3, <1>6, <1>7, <1>8 DEF Removal

(* What RemoveFirst gives, whether the element occurs or not.              *)
LEMMA RemoveType ==
    ASSUME NEW S, NEW s \in Seq(S), NEW e, Once(s, e)
    PROVE  /\ RemoveFirst(s, e) \in Seq(S \ {e})
           /\ Len(RemoveFirst(s, e)) = Len(s) - (IF Occurs(s, e) THEN 1 ELSE 0)
<1>1. CASE Occurs(s, e)
    <2>1. PICK k \in 1..Len(s) : s[k] = e
        BY <1>1 DEF Occurs
    <2>2. Removal(S, s, e, k, RemoveFirst(s, e))
        BY <2>1, RemoveOne
    <2> QED BY <1>1, <2>2 DEF Removal
<1>2. CASE ~Occurs(s, e)
    <2>1. Len(s) - 0 = Len(s)
        BY LenProperties
    <2> QED BY <1>2, <2>1, RemoveNone
<1> QED BY <1>1, <1>2

(* Another element put at the end stays at the end.                        *)
LEMMA RemoveAppend ==
    ASSUME NEW S, NEW s \in Seq(S), NEW e, Once(s, e), NEW x \in S \ {e}
    PROVE  /\ RemoveFirst(Append(s, x), e) = Append(RemoveFirst(s, e), x)
           /\ Once(Append(s, x), e)
           /\ Occurs(Append(s, x), e) <=> Occurs(s, e)
<1> DEFINE t == Append(s, x)
<1>1. /\ t \in Seq(S) /\ Len(t) = Len(s) + 1 /\ Len(s) \in Nat
      /\ \A i \in 1..Len(s) : t[i] = s[i]
      /\ t[Len(s) + 1] = x
    BY AppendProperties, LenProperties
<1> HIDE DEF t
<1>2. \A i \in 1..Len(t) : t[i] = e => i \in 1..Len(s) /\ s[i] = e
    BY <1>1
<1>3. Once(t, e) /\ (Occurs(t, e) <=> Occurs(s, e))
    BY <1>1, <1>2 DEF Once, Occurs
<1>4. CASE ~Occurs(s, e)
    <2>1. RemoveFirst(s, e) = s /\ RemoveFirst(t, e) = t
        BY <1>1, <1>3, <1>4, RemoveNone
    <2> QED BY <1>3, <2>1 DEF t
<1>5. CASE Occurs(s, e)
    <2>1. PICK k \in 1..Len(s) : s[k] = e
        BY <1>5 DEF Occurs
    <2> DEFINE u == RemoveFirst(t, e)
               v == RemoveFirst(s, e)
    <2>2. /\ u \in Seq(S \ {e}) /\ Len(u) = Len(t) - 1
          /\ \A i \in 1..(Len(t) - 1) : u[i] = IF i < k THEN t[i] ELSE t[i + 1]
        <3>1. k \in 1..Len(t) /\ t[k] = e
            BY <1>1, <2>1
        <3>2. t \in Seq(S) /\ Once(t, e)
            BY <1>1, <1>3
        <3>3. Removal(S, t, e, k, u)
            BY <3>1, <3>2, RemoveOne
        <3> QED BY <3>3 DEF Removal
    <2>3. /\ v \in Seq(S \ {e}) /\ Len(v) = Len(s) - 1
          /\ \A i \in 1..(Len(s) - 1) : v[i] = IF i < k THEN s[i] ELSE s[i + 1]
        <3>1. Removal(S, s, e, k, v)
            BY <2>1, RemoveOne
        <3> QED BY <3>1 DEF Removal
    <2> HIDE DEF u, v
    <2>4. /\ Append(v, x) \in Seq(S \ {e}) /\ Len(Append(v, x)) = Len(v) + 1
          /\ \A i \in 1..Len(v) : Append(v, x)[i] = v[i]
          /\ Append(v, x)[Len(v) + 1] = x
        BY <2>3, AppendProperties
    <2> DEFINE w == Append(v, x)
    <2> HIDE DEF w
    <2>5. w \in Seq(S \ {e}) /\ Len(u) = Len(w) /\ Len(u) = Len(s) /\ Len(v) + 1 = Len(s)
        BY <1>1, <2>2, <2>3, <2>4 DEF w
    <2>6. ASSUME NEW i \in 1..Len(u)
          PROVE  u[i] = w[i]
        <3>1. CASE i = Len(s)
            <4>1. ~(i < k) /\ i \in 1..(Len(t) - 1) /\ i + 1 = Len(s) + 1 /\ i = Len(v) + 1
                BY <1>1, <2>1, <2>5, <3>1
            <4> QED BY <1>1, <2>2, <2>4, <4>1 DEF w
        <3>2. CASE i # Len(s)
            <4>1. /\ i \in 1..(Len(t) - 1) /\ i \in 1..(Len(s) - 1) /\ i \in 1..Len(v)
                  /\ i \in 1..Len(s) /\ i + 1 \in 1..Len(s)
                BY <1>1, <2>1, <2>5, <3>2
            <4>2. u[i] = v[i]
                BY <1>1, <2>2, <2>3, <4>1
            <4> QED BY <2>4, <4>1, <4>2 DEF w
        <3> QED BY <3>1, <3>2
    <2>7. u = w
        BY <2>2, <2>5, <2>6, SeqEqual
    <2> QED BY <1>3, <2>7 DEF t, u, v, w
<1> QED BY <1>4, <1>5

(* The element itself, put at the end of a sequence without it, is what is *)
(* removed.                                                                *)
LEMMA RemoveAppended ==
    ASSUME NEW S, NEW e \in S, NEW s \in Seq(S), ~Occurs(s, e)
    PROVE  /\ RemoveFirst(Append(s, e), e) = s
           /\ Once(Append(s, e), e) /\ Occurs(Append(s, e), e)
<1> DEFINE t == Append(s, e)
           u == RemoveFirst(t, e)
           k == Len(s) + 1
<1>1. /\ t \in Seq(S) /\ Len(t) = Len(s) + 1 /\ Len(s) \in Nat
      /\ \A i \in 1..Len(s) : t[i] = s[i]
      /\ t[Len(s) + 1] = e
    BY AppendProperties, LenProperties
<1> HIDE DEF t
<1>2. \A i \in 1..Len(t) : t[i] = e <=> i = k
    BY <1>1 DEF Occurs
<1>3. Once(t, e) /\ k \in 1..Len(t) /\ t[k] = e /\ Occurs(t, e)
    BY <1>1, <1>2 DEF Once, Occurs
<1>4. /\ u \in Seq(S \ {e}) /\ Len(u) = Len(t) - 1
      /\ \A i \in 1..(Len(t) - 1) : u[i] = IF i < k THEN t[i] ELSE t[i + 1]
    <2> HIDE DEF k
    <2>1. t \in Seq(S)
        BY <1>1
    <2>2. Removal(S, t, e, k, u)
        BY <1>3, <2>1, RemoveOne
    <2> QED BY <2>2 DEF Removal
<1> HIDE DEF u
<1>5. Len(u) = Len(s)
    BY <1>1, <1>4
<1>6. \A i \in 1..Len(u) : u[i] = s[i]
    BY <1>1, <1>4, <1>5
<1>7. s \in Seq(S \ {e})
    BY RemoveNone
<1>8. u = s
    BY <1>4, <1>5, <1>6, <1>7, SeqEqual
<1> QED BY <1>3, <1>8 DEF t, u

(* When the first element is taken out, it is either the one to be removed *)
(* or the first of the others.                                             *)
LEMMA RemoveTail ==
    ASSUME NEW S, NEW s \in Seq(S), s # <<>>, NEW e, Once(s, e)
    PROVE  /\ Once(Tail(s), e)
           /\ Head(s) = e => /\ ~Occurs(Tail(s), e)
                             /\ RemoveFirst(Tail(s), e) = RemoveFirst(s, e)
           /\ Head(s) # e => /\ Occurs(Tail(s), e) <=> Occurs(s, e)
                             /\ RemoveFirst(s, e) = <<Head(s)>> \o RemoveFirst(Tail(s), e)
<1> DEFINE t == Tail(s)
           h == Head(s)
           u == RemoveFirst(s, e)
           v == RemoveFirst(t, e)
<1>1. /\ t \in Seq(S) /\ Len(t) = Len(s) - 1 /\ h = s[1] /\ h \in S
      /\ \A i \in 1..Len(t) : t[i] = s[i + 1]
    BY HeadTailProperties
<1>2. Len(s) \in Nat /\ Len(s) >= 1
    BY EmptySeq, LenProperties
<1> HIDE DEF t, h
<1>3. Once(t, e)
    <2> SUFFICES ASSUME NEW i \in 1..Len(t), NEW j \in 1..Len(t), t[i] = e, t[j] = e
                 PROVE  i = j
        BY DEF Once
    <2>1. i + 1 \in 1..Len(s) /\ j + 1 \in 1..Len(s) /\ s[i + 1] = e /\ s[j + 1] = e
        BY <1>1, <1>2
    <2>2. i + 1 = j + 1
        BY <2>1 DEF Once
    <2> QED BY <1>1, <1>2, <2>2
<1>4. CASE h = e
    <2>1. ~Occurs(t, e)
        <3> SUFFICES ASSUME NEW i \in 1..Len(t), t[i] = e
                     PROVE  FALSE
            BY DEF Occurs
        <3>1. i + 1 \in 1..Len(s) /\ 1 \in 1..Len(s) /\ i + 1 # 1 /\ s[i + 1] = e
            BY <1>1, <1>2
        <3> QED BY <1>1, <1>4, <3>1 DEF Once
    <2>2. v = t /\ t \in Seq(S \ {e})
        BY <1>1, <2>1, RemoveNone
    <2>3. 1 \in 1..Len(s) /\ s[1] = e
        BY <1>1, <1>2, <1>4
    <2>4. /\ u \in Seq(S \ {e}) /\ Len(u) = Len(s) - 1
          /\ \A i \in 1..(Len(s) - 1) : u[i] = IF i < 1 THEN s[i] ELSE s[i + 1]
        <3>1. Removal(S, s, e, 1, u)
            BY <2>3, RemoveOne
        <3> QED BY <3>1 DEF Removal
    <2> HIDE DEF u, v
    <2>5. Len(u) = Len(t) /\ \A i \in 1..Len(u) : u[i] = t[i]
        BY <1>1, <1>2, <2>4
    <2>6. u = t
        BY <2>2, <2>4, <2>5, SeqEqual
    <2> QED BY <1>3, <1>4, <2>1, <2>2, <2>6 DEF t, u, v, h
<1>5. CASE h # e
    <2>1. Occurs(t, e) <=> Occurs(s, e)
        <3>1. ASSUME NEW i \in 1..Len(t), t[i] = e PROVE Occurs(s, e)
            <4>1. i + 1 \in 1..Len(s) /\ s[i + 1] = e
                BY <1>1, <1>2, <3>1
            <4> QED BY <4>1 DEF Occurs
        <3>2. ASSUME NEW i \in 1..Len(s), s[i] = e PROVE Occurs(t, e)
            <4>1. i - 1 \in 1..Len(t) /\ t[i - 1] = s[i]
                BY <1>1, <1>2, <1>5, <3>2
            <4> QED BY <3>2, <4>1 DEF Occurs
        <3> QED BY <3>1, <3>2 DEF Occurs
    <2>2. v \in Seq(S \ {e}) /\ Len(v) = Len(t) - (IF Occurs(t, e) THEN 1 ELSE 0)
        BY <1>1, <1>3, RemoveType
    <2>3. u \in Seq(S \ {e}) /\ Len(u) = Len(s) - (IF Occurs(s, e) THEN 1 ELSE 0)
        BY RemoveType
    <2> DEFINE w == <<h>> \o v
    <2>4. /\ w \in Seq(S \ {e}) /\ Len(w) = 1 + Len(v)
          /\ \A i \in 1..(1 + Len(v)) : w[i] = IF i <= 1 THEN h ELSE v[i - 1]
        <3> HIDE DEF v
        <3>1. <<h>> \in Seq(S \ {e}) /\ Len(<<h>>) = 1 /\ <<h>>[1] = h
            BY <1>1, <1>5
        <3>2. /\ w \in Seq(S \ {e}) /\ Len(w) = Len(<<h>>) + Len(v)
              /\ \A i \in 1..(Len(<<h>>) + Len(v)) :
                    w[i] = IF i <= Len(<<h>>) THEN <<h>>[i] ELSE v[i - Len(<<h>>)]
            BY <2>2, <3>1, ConcatProperties
        <3>3. \A i \in 1..(1 + Len(v)) : i <= 1 => i = 1
            OBVIOUS
        <3> HIDE DEF w
        <3> QED BY <3>1, <3>2, <3>3
    <2>5. \A i \in 1..Len(u) : u[i] = w[i]
        <3>1. CASE ~Occurs(s, e)
            <4>1. u = s /\ v = t
                BY <1>1, <2>1, <3>1, RemoveNone
            <4> HIDE DEF u, v, w
            <4>2. ASSUME NEW i \in 1..Len(s), i > 1 PROVE w[i] = s[i]
                <5>1. i \in 1..(1 + Len(v)) /\ i - 1 \in 1..Len(t) /\ ~(i <= 1)
                    BY <1>1, <1>2, <4>1, <4>2
                <5>2. w[i] = t[i - 1]
                    BY <2>4, <4>1, <5>1
                <5>3. t[i - 1] = s[(i - 1) + 1] /\ (i - 1) + 1 = i
                    BY <1>1, <5>1
                <5> QED BY <5>2, <5>3
            <4>3. w[1] = s[1]
                BY <1>1, <1>2, <2>4, <4>1
            <4> QED BY <1>2, <4>1, <4>2, <4>3
        <3>2. CASE Occurs(s, e)
            <4>1. PICK k \in 1..Len(s) : s[k] = e
                BY <3>2 DEF Occurs
            <4>2. k - 1 \in 1..Len(t) /\ t[k - 1] = e
                BY <1>1, <1>2, <1>5, <4>1
            <4>3. /\ Len(u) = Len(s) - 1
                  /\ \A i \in 1..(Len(s) - 1) : u[i] = IF i < k THEN s[i] ELSE s[i + 1]
                <5>1. Removal(S, s, e, k, u)
                    BY <4>1, RemoveOne
                <5> QED BY <5>1 DEF Removal
            <4> DEFINE m == k - 1
            <4>4. /\ Len(v) = Len(t) - 1
                  /\ \A i \in 1..(Len(t) - 1) : v[i] = IF i < m THEN t[i] ELSE t[i + 1]
                <5>1. m \in 1..Len(t) /\ t[m] = e
                    BY <4>2
                <5> HIDE DEF m
                <5>2. t \in Seq(S) /\ Once(t, e)
                    BY <1>1, <1>3
                <5>3. Removal(S, t, e, m, v)
                    BY <5>1, <5>2, RemoveOne
                <5> QED BY <5>3 DEF Removal
            <4> HIDE DEF u, v, w
            <4> SUFFICES ASSUME NEW i \in 1..Len(u)
                         PROVE  u[i] = w[i]
                OBVIOUS
            <4>5. CASE i = 1
                <5>1. 1 < k /\ u[1] = s[1]
                    BY <1>1, <1>2, <1>5, <4>1, <4>3, <4>5
                <5>2. w[1] = h
                    BY <1>1, <1>2, <2>2, <2>4, <4>4
                <5> QED BY <1>1, <4>5, <5>1, <5>2
            <4>6. CASE i > 1
                <5>1. /\ i \in 1..(1 + Len(v)) /\ i - 1 \in 1..(Len(t) - 1)
                      /\ i \in 1..(Len(s) - 1)
                    BY <1>1, <1>2, <4>3, <4>4, <4>6
                <5>2. w[i] = v[i - 1]
                    BY <2>4, <4>6, <5>1
                <5>3. v[i - 1] = IF i - 1 < m THEN t[i - 1] ELSE t[(i - 1) + 1]
                    BY <4>4, <5>1
                <5>4. (i - 1 < m <=> i < k) /\ (i - 1) + 1 = i
                    BY <1>2, <4>1, <4>6
                <5>5. t[i - 1] = s[i] /\ t[i] = s[i + 1]
                    BY <1>1, <1>2, <4>3, <4>6
                <5> QED BY <4>3, <5>1, <5>2, <5>3, <5>4, <5>5
            <4> QED BY <4>5, <4>6, <1>2, <4>3
        <3> QED BY <3>1, <3>2
    <2>6. Len(u) = Len(w)
        <3> HIDE DEF u, v, w
        <3> QED BY <1>1, <1>2, <2>1, <2>2, <2>3, <2>4
    <2>7. u = w
        <3> HIDE DEF u, w
        <3> QED BY <2>3, <2>4, <2>5, <2>6, SeqEqual
    <2> QED BY <1>3, <1>5, <2>1, <2>7 DEF t, u, v, h
<1> QED BY <1>4, <1>5

(***************************************************************************)
(* The inductive invariant.                                                *)
(***************************************************************************)

(* A producing thread holds a packet between taking a buffer and Put.      *)
MineInv == \A t \in Threads : mine[t] # Null <=> pc[t] \in {"seq", "put"}

(* The send thread holds a packet only between Pop and SendPacket.         *)
SendingInv == sending # Null => sender = "send"

(* Sequence numbers grow no faster than packets are made.                  *)
SeqInv ==
    /\ seq >= 1 /\ seq <= made + 1
    /\ \A t \in Threads : mine[t] # Null => mine[t].seq <= made

(* The null packet is put once, by Stop.                                   *)
NullInv ==
    /\ Once(queue, Null)
    /\ Occurs(queue, Null) => stop \notin {"no", "flagged", "cancelled"}

(* Threads that hold a packet.                                             *)
Making == {t \in Threads : mine[t] # Null}

(* Every buffer that is out is in one place.                               *)
CountInv == IsFiniteSet(Making) /\ BuffersAccounted

Inv ==
    /\ TypeOK /\ MineInv /\ SendingInv /\ SeqInv
    /\ NullInv /\ CountInv /\ PermitIsElement /\ NeverAborts

(* Packets and the null packet are told apart.                             *)
LEMMA NullIsNoPacket == Null \notin Packet /\ (Packet \cup {Null}) \ {Null} = Packet
<1>1. Packet \subseteq [id : Nat, seq : Nat]
    BY QueueAssumption DEF Packet
<1> QED BY <1>1, QueueAssumption

(* Stop's null packet aside, the queue holds packets.                      *)
LEMMA WaitingType ==
    ASSUME TypeOK, NullInv
    PROVE  /\ Waiting \in Seq(Packet)
           /\ Len(Waiting) = Len(queue) - (IF Occurs(queue, Null) THEN 1 ELSE 0)
           /\ Len(queue) \in Nat /\ Len(Waiting) \in Nat
<1>1. queue \in Seq(Packet \cup {Null}) /\ Once(queue, Null)
    BY DEF TypeOK, NullInv
<1>2. /\ RemoveFirst(queue, Null) \in Seq((Packet \cup {Null}) \ {Null})
      /\ Len(RemoveFirst(queue, Null))
            = Len(queue) - (IF Occurs(queue, Null) THEN 1 ELSE 0)
    BY <1>1, RemoveType
<1>3. Waiting \in Seq(Packet)
    BY <1>2, NullIsNoPacket DEF Waiting
<1> QED BY <1>1, <1>2, <1>3, LenProperties DEF Waiting

(* The send thread holds one packet at most.                               *)
LEMMA HeldType ==
    ASSUME TypeOK
    PROVE  /\ Held \in Seq(Packet)
           /\ Len(Held) = IF sending = Null THEN 0 ELSE 1
<1>1. CASE sending = Null BY <1>1 DEF Held
<1>2. CASE sending # Null
    <2>1. sending \in Packet
        BY <1>2 DEF TypeOK
    <2> QED BY <1>2, <2>1 DEF Held
<1> QED BY <1>1, <1>2

(* The same of the next state.                                             *)
LEMMA WaitingTypeNext ==
    TypeOK' /\ NullInv' => Waiting' \in Seq(Packet) /\ Len(Waiting') \in Nat
<1> SUFFICES ASSUME TypeOK', NullInv'
             PROVE  Waiting' \in Seq(Packet) /\ Len(Waiting') \in Nat
    OBVIOUS
<1>1. queue' \in Seq(Packet \cup {Null}) /\ Once(queue', Null)
    BY DEF TypeOK, NullInv
<1>2. RemoveFirst(queue', Null) \in Seq((Packet \cup {Null}) \ {Null})
    BY <1>1, RemoveType
<1> QED BY <1>2, NullIsNoPacket, LenProperties DEF Waiting

(* The same of the packet held.                                            *)
LEMMA HeldTypeNext ==
    TypeOK' => Len(Held') = IF sending' = Null THEN 0 ELSE 1
BY DEF TypeOK, Held

(* The initial state.                                                      *)
LEMMA InitHolds == Init => Inv
<1> SUFFICES ASSUME Init PROVE Inv
    OBVIOUS
<1>1. TypeOK
    <2>1. queue \in Seq(Packet \cup {Null}) /\ handled \in Seq(Packet)
        BY DEF Init
    <2>2. mine \in [Threads -> Packet \cup {Null}]
        BY DEF Init
    <2>3. pc \in [Threads -> {"loop", "select", "work", "seq", "put", "exited"}]
        BY DEF Init
    <2>4. /\ semaphore \in Nat /\ used \in 0..Buffers /\ seq \in Nat /\ wakeups \in Nat
          /\ made \in 0..MaxPackets /\ arrivals \in 0..MaxArrivals
        BY QueueAssumption DEF Init
    <2> QED BY <2>1, <2>2, <2>3, <2>4 DEF Init, TypeOK
<1>2. MineInv /\ SendingInv /\ SeqInv
    BY DEF Init, MineInv, SendingInv, SeqInv
<1>3. NullInv /\ ~Occurs(queue, Null)
    BY DEF Init, NullInv, Once, Occurs
<1>4. CountInv
    <2>1. Making = {} /\ IsFiniteSet(Making) /\ Cardinality(Making) = 0
        <3>1. Making = {}
            BY DEF Init, Making
        <3> QED BY <3>1, FS_EmptySet
    <2>2. Len(Waiting) = 0
        BY <1>1, <1>3, WaitingType DEF Init
    <2>3. Len(Held) = 0
        BY <1>1, HeldType DEF Init
    <2> QED BY <2>1, <2>2, <2>3 DEF CountInv, BuffersAccounted, Making, Init
<1>5. PermitIsElement /\ NeverAborts
    BY QueueAssumption DEF Init, PermitIsElement, NeverAborts
<1> QED BY <1>1, <1>2, <1>3, <1>4, <1>5 DEF Inv

(***************************************************************************)
(* Each kind of step keeps it.                                             *)
(***************************************************************************)

(* A step that moves no packet and no permit only has to keep the types    *)
(* and the places of the threads.                                          *)
LEMMA IdleStep ==
    ASSUME Inv, TypeOK', MineInv',
           UNCHANGED <<queue, semaphore, used, seq, mine, sending, aborted, made>>,
           sender' = "send" <=> sender = "send", sender' = "pop" <=> sender = "pop",
           stop' \in {"no", "flagged", "cancelled"} => stop \in {"no", "flagged", "cancelled"}
    PROVE  Inv'
<1>1. SendingInv' /\ SeqInv'
    BY DEF Inv, SendingInv, SeqInv
<1>2. NullInv'
    BY DEF Inv, NullInv, Once, Occurs
<1>3. Making' = Making /\ Waiting' = Waiting /\ Held' = Held
    BY DEF Making, Waiting, Held
<1>4. CountInv'
    BY <1>3 DEF Inv, CountInv, BuffersAccounted, Making
<1>5. PermitIsElement' /\ NeverAborts'
    BY DEF Inv, PermitIsElement, NeverAborts
<1> QED BY <1>1, <1>2, <1>4, <1>5 DEF Inv

(* Threads going round their loops, the select call and Stop's steps.      *)
LEMMA LoopStep ==
    ASSUME Inv,
           \/ \E t \in Threads : Round(t) \/ SendNothing(t)
           \/ SelectCanceled \/ SelectReadable \/ SenderRound
           \/ StopFlags \/ CancelSelect \/ Join \/ UNCHANGED vars
    PROVE  Inv'
<1> USE QueueAssumption DEF Inv, TypeOK, MineInv, Goto
<1>1. CASE \E t \in Threads : Round(t)
    BY <1>1, IdleStep DEF Round
<1>2. CASE \E t \in Threads : SendNothing(t)
    BY <1>2, IdleStep DEF SendNothing
<1>3. CASE SelectCanceled
    BY <1>3, IdleStep DEF SelectCanceled, Threads
<1>4. CASE SelectReadable
    BY <1>4, IdleStep DEF SelectReadable, Threads
<1>5. CASE SenderRound
    BY <1>5, IdleStep DEF SenderRound
<1>6. CASE StopFlags
    BY <1>6, IdleStep DEF StopFlags
<1>7. CASE CancelSelect
    BY <1>7, IdleStep DEF CancelSelect
<1>8. CASE Join
    BY <1>8, IdleStep DEF Join
<1>9. CASE UNCHANGED vars
    BY <1>9, IdleStep DEF vars
<1> QED BY <1>1, <1>2, <1>3, <1>4, <1>5, <1>6, <1>7, <1>8, <1>9

(* A packet put into the queue.                                            *)
LEMMA PushPacket ==
    ASSUME TypeOK, NullInv, NEW x \in Packet, queue' = Append(queue, x)
    PROVE  /\ queue' \in Seq(Packet \cup {Null}) /\ Len(queue') = Len(queue) + 1
           /\ Once(queue', Null) /\ (Occurs(queue', Null) <=> Occurs(queue, Null))
           /\ Waiting' = Append(Waiting, x) /\ Len(Waiting') = Len(Waiting) + 1
<1>1. /\ queue \in Seq(Packet \cup {Null}) /\ Once(queue, Null)
      /\ x \in (Packet \cup {Null}) \ {Null}
    BY NullIsNoPacket DEF TypeOK, NullInv
<1>2. queue' \in Seq(Packet \cup {Null}) /\ Len(queue') = Len(queue) + 1
    BY <1>1, AppendProperties
<1>3. /\ RemoveFirst(Append(queue, x), Null) = Append(RemoveFirst(queue, Null), x)
      /\ Once(Append(queue, x), Null)
      /\ Occurs(Append(queue, x), Null) <=> Occurs(queue, Null)
    BY <1>1, RemoveAppend
<1>4. Waiting' = Append(Waiting, x)
    BY <1>3 DEF Waiting
<1>5. Len(Append(Waiting, x)) = Len(Waiting) + 1
    BY WaitingType, AppendProperties
<1> QED BY <1>2, <1>3, <1>4, <1>5

(* Stop's null packet put into the queue.                                  *)
LEMMA PushNull ==
    ASSUME TypeOK, NullInv, ~Occurs(queue, Null), queue' = Append(queue, Null)
    PROVE  /\ queue' \in Seq(Packet \cup {Null}) /\ Len(queue') = Len(queue) + 1
           /\ Once(queue', Null) /\ Waiting' = Waiting
<1>1. queue \in Seq(Packet \cup {Null}) /\ Null \in Packet \cup {Null}
    BY DEF TypeOK
<1>2. queue' \in Seq(Packet \cup {Null}) /\ Len(queue') = Len(queue) + 1
    BY <1>1, AppendProperties
<1>3. RemoveFirst(Append(queue, Null), Null) = queue /\ Once(Append(queue, Null), Null)
    BY <1>1, RemoveAppended
<1>4. RemoveFirst(queue, Null) = queue
    BY <1>1, RemoveNone
<1> QED BY <1>2, <1>3, <1>4 DEF Waiting

(* The first element taken out of the queue.                               *)
LEMMA PopHead ==
    ASSUME TypeOK, NullInv, queue # <<>>, queue' = Tail(queue)
    PROVE  /\ queue' \in Seq(Packet \cup {Null}) /\ Len(queue') = Len(queue) - 1
           /\ Head(queue) \in Packet \cup {Null} /\ Once(queue', Null)
           /\ Head(queue) = Null => Waiting' = Waiting /\ ~Occurs(queue', Null)
           /\ Head(queue) # Null =>
                 /\ Occurs(queue', Null) <=> Occurs(queue, Null)
                 /\ Waiting = <<Head(queue)>> \o Waiting'
<1>1. queue \in Seq(Packet \cup {Null}) /\ Once(queue, Null)
    BY DEF TypeOK, NullInv
<1>2. /\ queue' \in Seq(Packet \cup {Null}) /\ Len(queue') = Len(queue) - 1
      /\ Head(queue) \in Packet \cup {Null}
    BY <1>1, HeadTailProperties
<1>3. /\ Once(Tail(queue), Null)
      /\ Head(queue) = Null =>
            /\ ~Occurs(Tail(queue), Null)
            /\ RemoveFirst(Tail(queue), Null) = RemoveFirst(queue, Null)
      /\ Head(queue) # Null =>
            /\ Occurs(Tail(queue), Null) <=> Occurs(queue, Null)
            /\ RemoveFirst(queue, Null) = <<Head(queue)>> \o RemoveFirst(Tail(queue), Null)
    BY <1>1, RemoveTail
<1> QED BY <1>2, <1>3 DEF Waiting

(* A producer takes a buffer.                                              *)
LEMMA GetBufferStep ==
    ASSUME Inv, NEW t \in Threads, GetBuffer(t)
    PROVE  Inv'
<1> USE QueueAssumption
<1>1. /\ mine[t] = Null /\ used < Buffers /\ made < MaxPackets
      /\ used' = used + 1 /\ made' = made + 1 /\ used \in Nat /\ made \in Nat
      /\ UNCHANGED <<queue, semaphore, seq, sender, sending, stop, aborted, handled>>
    BY DEF GetBuffer, HasBuffer, Inv, MineInv, TypeOK
<1> DEFINE x == [id |-> made + 1, seq |-> seq]
<1>2. x \in Packet /\ x # Null
    BY <1>1, NullIsNoPacket DEF Packet, Inv, SeqInv, TypeOK
<1>3. mine' = [mine EXCEPT ![t] = x] /\ pc' = [pc EXCEPT ![t] = "seq"]
    BY DEF GetBuffer, Goto
<1>4. TypeOK'
    BY <1>1, <1>2, <1>3 DEF Inv, TypeOK, GetBuffer
<1>5. MineInv' /\ SendingInv'
    <2> HIDE DEF x
    <2> QED BY <1>1, <1>2, <1>3 DEF Inv, MineInv, SendingInv, TypeOK
<1>6. SeqInv'
    <2>1. seq' = seq /\ seq \in Nat /\ seq >= 1 /\ seq <= made + 1
        BY <1>1 DEF Inv, SeqInv, TypeOK
    <2>2. ASSUME NEW u \in Threads, mine'[u] # Null PROVE mine'[u].seq <= made'
        <3>1. CASE u = t
            BY <1>1, <1>3, <2>1, <3>1 DEF Inv, TypeOK
        <3>2. CASE u # t
            <4>1. mine[u] # Null /\ mine'[u] = mine[u] /\ mine[u] \in Packet
                BY <1>3, <2>2, <3>2 DEF Inv, TypeOK
            <4>2. mine[u].seq <= made /\ mine[u].seq \in Nat
                BY <4>1 DEF Inv, SeqInv, Packet
            <4> QED BY <1>1, <4>1, <4>2
        <3> QED BY <3>1, <3>2
    <2> QED BY <1>1, <2>1, <2>2 DEF SeqInv
<1>7. NullInv' /\ PermitIsElement' /\ NeverAborts'
    BY <1>1 DEF Inv, NullInv, Once, Occurs, PermitIsElement, NeverAborts
<1>8. CountInv'
    <2>1. Making' = Making \cup {t} /\ t \notin Making
        <3> HIDE DEF x
        <3> QED BY <1>1, <1>2, <1>3 DEF Making, Inv, TypeOK
    <2>2. IsFiniteSet(Making') /\ Cardinality(Making') = Cardinality(Making) + 1
        BY <2>1, FS_AddElement DEF Inv, CountInv
    <2>3. Waiting' = Waiting /\ Held' = Held
        BY <1>1 DEF Waiting, Held
    <2>4. used = Cardinality(Making) + Len(Waiting) + Len(Held)
        BY DEF Inv, CountInv, BuffersAccounted, Making
    <2>5. Cardinality(Making) \in Nat /\ Len(Waiting) \in Nat /\ Len(Held) \in Nat
        BY WaitingType, HeldType, FS_CardinalityType DEF Inv, CountInv
    <2>6. used' = Cardinality(Making') + Len(Waiting') + Len(Held')
        BY <1>1, <2>2, <2>3, <2>4, <2>5
    <2> QED BY <2>2, <2>6 DEF CountInv, BuffersAccounted, Making
<1> QED BY <1>4, <1>5, <1>6, <1>7, <1>8 DEF Inv

(* GenerateOutSeq writes the number it read, plus one.                     *)
LEMMA GenerateStep ==
    ASSUME Inv, NEW t \in Threads, GenerateOutSeq(t)
    PROVE  Inv'
<1>1. mine[t] \in Packet /\ mine[t].seq \in Nat /\ mine[t].seq >= 1 /\ mine[t].seq <= made
    BY DEF GenerateOutSeq, Inv, MineInv, SeqInv, TypeOK, Packet
<1>2. /\ UNCHANGED <<queue, semaphore, used, mine, sender, sending, stop, aborted, made>>
      /\ seq' = mine[t].seq + 1 /\ pc' = [pc EXCEPT ![t] = "put"] /\ pc[t] = "seq"
    BY DEF GenerateOutSeq, Goto
<1>3. TypeOK'
    BY <1>1, <1>2 DEF Inv, TypeOK, GenerateOutSeq
<1>4. MineInv' /\ SendingInv'
    BY <1>2 DEF Inv, MineInv, SendingInv, TypeOK
<1>5. SeqInv'
    BY <1>1, <1>2 DEF Inv, SeqInv, TypeOK
<1>6. NullInv' /\ PermitIsElement' /\ NeverAborts'
    BY <1>2 DEF Inv, NullInv, Once, Occurs, PermitIsElement, NeverAborts
<1>7. Making' = Making /\ Waiting' = Waiting /\ Held' = Held
    BY <1>2 DEF Making, Waiting, Held
<1>8. CountInv'
    BY <1>2, <1>7 DEF Inv, CountInv, BuffersAccounted, Making
<1> QED BY <1>3, <1>4, <1>5, <1>6, <1>8 DEF Inv

(* The packets on their way, counted.                                      *)
LEMMA Counts ==
    ASSUME Inv
    PROVE  /\ used = Cardinality(Making) + Len(Waiting) + Len(Held)
           /\ IsFiniteSet(Making) /\ Cardinality(Making) \in Nat
           /\ Len(Waiting) \in Nat /\ Len(Held) \in Nat /\ Len(queue) \in Nat
           /\ used \in Nat /\ used <= Buffers
<1>1. used = Cardinality(Making) + Len(Waiting) + Len(Held)
    BY DEF Inv, CountInv, BuffersAccounted, Making
<1>2. Cardinality(Making) \in Nat /\ IsFiniteSet(Making)
    BY FS_CardinalityType DEF Inv, CountInv
<1>3. Len(Waiting) \in Nat /\ Len(Held) \in Nat /\ Len(queue) \in Nat
    BY WaitingType, HeldType DEF Inv
<1>4. used \in Nat /\ used <= Buffers
    BY QueueAssumption DEF Inv, TypeOK
<1> QED BY <1>1, <1>2, <1>3, <1>4

(* A producer puts its packet into the queue: it fits, because the packet  *)
(* itself holds one of the buffers.                                        *)
LEMMA PutRoom ==
    ASSUME Inv, NEW t \in Threads, pc[t] = "put"
    PROVE  /\ mine[t] \in Packet /\ t \in Making
           /\ Len(Held) + Len(Waiting) < Buffers
           /\ Len(queue) + 1 <= Capacity
<1>1. mine[t] \in Packet /\ t \in Making
    BY DEF Inv, MineInv, TypeOK, Making
<1>2. Cardinality(Making) >= 1
    <2>1. Cardinality(Making) # 0
        BY <1>1, Counts, FS_EmptySet
    <2> QED BY <2>1, Counts
<1>3. Len(Held) + Len(Waiting) < Buffers
    BY <1>2, Counts, QueueAssumption
<1>4. Len(queue) <= Len(Waiting) + 1
    BY WaitingType DEF Inv
<1>5. Len(queue) + 1 <= Capacity
    BY <1>3, <1>4, Counts, QueueAssumption
<1> QED BY <1>1, <1>3, <1>5

(* Put keeps the invariant.                                                *)
LEMMA PutStep ==
    ASSUME Inv, NEW t \in Threads, Put(t)
    PROVE  Inv'
<1>1. /\ pc[t] = "put" /\ queue' = Append(queue, mine[t])
      /\ aborted' = (aborted \/ Len(queue) + 1 > Capacity)
      /\ semaphore' = IF Len(queue) + 1 > Capacity THEN semaphore ELSE semaphore + 1
      /\ mine' = [mine EXCEPT ![t] = Null] /\ pc' = [pc EXCEPT ![t] = "loop"]
      /\ UNCHANGED <<used, seq, sender, sending, stop, made>>
    BY DEF Put, Push, Goto
<1>2. /\ mine[t] \in Packet /\ t \in Making /\ Len(queue) + 1 <= Capacity
    BY <1>1, PutRoom
<1>3. ~(Len(queue) + 1 > Capacity)
    BY <1>2, Counts, QueueAssumption
<1>4. /\ queue' \in Seq(Packet \cup {Null}) /\ Len(queue') = Len(queue) + 1
      /\ Once(queue', Null) /\ (Occurs(queue', Null) <=> Occurs(queue, Null))
      /\ Waiting' = Append(Waiting, mine[t]) /\ Len(Waiting') = Len(Waiting) + 1
    BY <1>1, <1>2, PushPacket DEF Inv
<1>5. semaphore' = semaphore + 1 /\ aborted' = FALSE
    BY <1>1, <1>3 DEF Inv, NeverAborts, TypeOK
<1>6. TypeOK'
    BY <1>1, <1>4, <1>5 DEF Inv, TypeOK, Put
<1>7. MineInv' /\ SendingInv' /\ SeqInv'
    BY <1>1 DEF Inv, MineInv, SendingInv, SeqInv, TypeOK
<1>8. NullInv'
    BY <1>1, <1>4 DEF Inv, NullInv
<1>9. PermitIsElement' /\ NeverAborts'
    BY <1>1, <1>2, <1>4, <1>5, Counts DEF Inv, PermitIsElement, NeverAborts, TypeOK
<1>10. CountInv'
    <2>1. Making' = Making \ {t}
        BY <1>1 DEF Making, Inv, TypeOK
    <2>2. IsFiniteSet(Making') /\ Cardinality(Making') = Cardinality(Making) - 1
        BY <1>2, <2>1, Counts, FS_RemoveElement
    <2>3. Held' = Held
        BY <1>1 DEF Held
    <2>4. used' = Cardinality(Making') + Len(Waiting') + Len(Held')
        BY <1>1, <1>4, <2>2, <2>3, Counts
    <2> QED BY <2>2, <2>4 DEF CountInv, BuffersAccounted, Making
<1> QED BY <1>6, <1>7, <1>8, <1>9, <1>10 DEF Inv

(* Stop's null packet fits beside all the buffers.                         *)
LEMMA StopPutStep == Inv /\ StopPut => Inv'
<1> SUFFICES ASSUME Inv, StopPut PROVE Inv'
    OBVIOUS
<1>1. /\ stop = "cancelled" /\ stop' = "put" /\ queue' = Append(queue, Null)
      /\ aborted' = (aborted \/ Len(queue) + 1 > Capacity)
      /\ semaphore' = IF Len(queue) + 1 > Capacity THEN semaphore ELSE semaphore + 1
      /\ UNCHANGED <<used, seq, pc, mine, sender, sending, made>>
    BY DEF StopPut, Push
<1>2. ~Occurs(queue, Null)
    BY <1>1 DEF Inv, NullInv
<1>3. Len(queue) = Len(Waiting)
    BY <1>2, WaitingType DEF Inv
<1>4. Len(queue) + 1 <= Capacity /\ ~(Len(queue) + 1 > Capacity)
    BY <1>3, Counts, QueueAssumption
<1>5. /\ queue' \in Seq(Packet \cup {Null}) /\ Len(queue') = Len(queue) + 1
      /\ Once(queue', Null) /\ Waiting' = Waiting
    BY <1>1, <1>2, PushNull DEF Inv
<1>6. semaphore' = semaphore + 1 /\ aborted' = FALSE
    BY <1>1, <1>4 DEF Inv, NeverAborts, TypeOK
<1>7. TypeOK'
    BY <1>1, <1>5, <1>6 DEF Inv, TypeOK, StopPut
<1>8. MineInv' /\ SendingInv' /\ SeqInv' /\ NullInv'
    BY <1>1, <1>5 DEF Inv, MineInv, SendingInv, SeqInv, NullInv
<1>9. PermitIsElement' /\ NeverAborts'
    BY <1>1, <1>4, <1>5, <1>6, Counts DEF Inv, PermitIsElement, NeverAborts, TypeOK
<1>10. Making' = Making /\ Held' = Held
    BY <1>1 DEF Making, Held
<1>11. CountInv'
    BY <1>1, <1>5, <1>10 DEF Inv, CountInv, BuffersAccounted, Making
<1> QED BY <1>7, <1>8, <1>9, <1>11 DEF Inv

(* The send thread takes a permit.                                         *)
LEMMA AcquireStep == Inv /\ Acquire => Inv'
<1> SUFFICES ASSUME Inv, Acquire PROVE Inv'
    OBVIOUS
<1>1. /\ sender = "acquire" /\ sender' = "pop" /\ semaphore > 0 /\ semaphore' = semaphore - 1
      /\ UNCHANGED <<queue, used, seq, pc, mine, sending, stop, aborted, made>>
    BY DEF Acquire
<1>2. TypeOK'
    BY <1>1 DEF Inv, TypeOK, Acquire
<1>3. MineInv' /\ SendingInv' /\ SeqInv'
    BY <1>1 DEF Inv, MineInv, SendingInv, SeqInv
<1>4. NullInv'
    BY <1>1 DEF Inv, NullInv, Once, Occurs
<1>5. PermitIsElement' /\ NeverAborts'
    BY <1>1 DEF Inv, PermitIsElement, NeverAborts, TypeOK
<1>6. Making' = Making /\ Waiting' = Waiting /\ Held' = Held
    BY <1>1 DEF Making, Waiting, Held
<1>7. CountInv'
    BY <1>1, <1>6 DEF Inv, CountInv, BuffersAccounted, Making
<1> QED BY <1>2, <1>3, <1>4, <1>5, <1>7 DEF Inv

(* The send thread takes the first element.                                *)
LEMMA PopStep == Inv /\ Pop => Inv'
<1> SUFFICES ASSUME Inv, Pop PROVE Inv'
    OBVIOUS
<1>1. /\ sender = "pop" /\ sender' = "send" /\ queue # <<>> /\ queue' = Tail(queue)
      /\ sending' = Head(queue)
      /\ UNCHANGED <<semaphore, used, seq, pc, mine, stop, aborted, made>>
    BY DEF Pop
<1>2. sending = Null
    BY <1>1 DEF Inv, SendingInv
<1>3. /\ queue' \in Seq(Packet \cup {Null}) /\ Len(queue') = Len(queue) - 1
      /\ Head(queue) \in Packet \cup {Null} /\ Once(queue', Null)
      /\ Occurs(queue', Null) => Occurs(queue, Null)
      /\ Head(queue) = Null => Waiting' = Waiting
      /\ Head(queue) # Null => Waiting = <<Head(queue)>> \o Waiting'
    BY <1>1, PopHead DEF Inv
<1>4. TypeOK'
    BY <1>1, <1>3 DEF Inv, TypeOK, Pop
<1>5. MineInv' /\ SendingInv' /\ SeqInv' /\ NullInv'
    BY <1>1, <1>3 DEF Inv, MineInv, SendingInv, SeqInv, NullInv
<1>6. PermitIsElement' /\ NeverAborts'
    BY <1>1, <1>3, Counts, QueueAssumption DEF Inv, PermitIsElement, NeverAborts, TypeOK
<1>7. CountInv'
    <2>1. Making' = Making
        BY <1>1 DEF Making
    <2>2. Len(Held) = 0
        BY <1>2, HeldType DEF Inv
    <2>3. Len(Held') = IF sending' = Null THEN 0 ELSE 1
        BY <1>4, <1>5, HeldTypeNext
    <2>4. Len(Waiting') \in Nat /\ Waiting' \in Seq(Packet)
        BY <1>4, <1>5, WaitingTypeNext
    <2>5. CASE Head(queue) = Null
        BY <1>1, <1>3, <2>1, <2>2, <2>3, <2>5, Counts
           DEF Inv, CountInv, BuffersAccounted, Making
    <2>6. CASE Head(queue) # Null
        <3>1. <<Head(queue)>> \in Seq(Packet) /\ Len(<<Head(queue)>>) = 1
            BY <1>3, <2>6
        <3>2. Len(Waiting) = 1 + Len(Waiting')
            BY <1>3, <2>4, <2>6, <3>1, ConcatProperties
        <3>3. used' = Cardinality(Making') + Len(Waiting') + Len(Held')
            BY <1>1, <2>1, <2>2, <2>3, <2>4, <2>6, <3>2, Counts
        <3> QED BY <2>1, <3>3, Counts DEF CountInv, BuffersAccounted, Making
    <2> QED BY <2>5, <2>6
<1> QED BY <1>4, <1>5, <1>6, <1>7 DEF Inv

(* The send thread is done with an element and gives its buffer back.      *)
LEMMA SendPacketStep == Inv /\ SendPacket => Inv'
<1> SUFFICES ASSUME Inv, SendPacket PROVE Inv'
    OBVIOUS
<1>1. /\ sender = "send" /\ sender' = "loop" /\ sending' = Null
      /\ used' = used - (IF sending = Null THEN 0 ELSE 1)
      /\ UNCHANGED <<queue, semaphore, seq, pc, mine, stop, aborted, made>>
    BY DEF SendPacket, Reused
<1>2. Making' = Making /\ Waiting' = Waiting
    BY <1>1 DEF Making, Waiting
<1>3. Len(Held) = IF sending = Null THEN 0 ELSE 1
    BY HeldType DEF Inv
<1>4. used' = Cardinality(Making) + Len(Waiting) /\ used' \in 0..Buffers
    BY <1>1, <1>3, Counts, QueueAssumption
<1>5. handled' \in Seq(Packet)
    <2>1. CASE sending = Null
        BY <2>1 DEF SendPacket, Inv, TypeOK
    <2>2. CASE sending # Null
        <3>1. sending \in Packet /\ handled \in Seq(Packet) /\ handled' = Append(handled, sending)
            BY <2>2 DEF SendPacket, Inv, TypeOK
        <3> QED BY <3>1, AppendProperties
    <2> QED BY <2>1, <2>2
<1>6. TypeOK'
    BY <1>1, <1>4, <1>5 DEF Inv, TypeOK, SendPacket
<1>7. MineInv' /\ SendingInv' /\ SeqInv'
    BY <1>1 DEF Inv, MineInv, SendingInv, SeqInv
<1>8. NullInv'
    BY <1>1 DEF Inv, NullInv, Once, Occurs
<1>9. PermitIsElement' /\ NeverAborts'
    BY <1>1 DEF Inv, PermitIsElement, NeverAborts, TypeOK
<1>10. CountInv'
    <2>1. Len(Held') = 0
        BY <1>1, <1>6, HeldTypeNext
    <2>2. used' = Cardinality(Making') + Len(Waiting') + Len(Held')
        BY <1>2, <1>4, <2>1, Counts
    <2> QED BY <1>2, <2>2, Counts DEF CountInv, BuffersAccounted, Making
<1> QED BY <1>6, <1>7, <1>8, <1>9, <1>10 DEF Inv

(* The invariant is inductive.                                             *)
LEMMA StepHolds == Inv /\ [Next]_vars => Inv'
<1> SUFFICES ASSUME Inv, [Next]_vars PROVE Inv'
    OBVIOUS
<1>1. CASE \E t \in Threads : GetBuffer(t)
    BY <1>1, GetBufferStep
<1>2. CASE \E t \in Threads : Produce(t)
    BY <1>2, GenerateStep, PutStep DEF Produce
<1>3. CASE Acquire \/ Pop \/ SendPacket
    BY <1>3, AcquireStep, PopStep, SendPacketStep
<1>4. CASE StopPut
    BY <1>4, StopPutStep
<1>5. CASE \/ \E t \in Threads : Round(t) \/ SendNothing(t)
           \/ SelectCanceled \/ SelectReadable \/ SenderRound
           \/ StopFlags \/ CancelSelect \/ Join \/ UNCHANGED vars
    BY <1>5, LoopStep
<1> QED BY <1>1, <1>2, <1>3, <1>4, <1>5 DEF Next, Sender, Stopping

(* It holds in every behaviour.                                            *)
LEMMA Invariant == Spec => []Inv
BY InitHolds, StepHolds, PTL DEF Spec

(***************************************************************************)
(* What follows.                                                           *)
(***************************************************************************)

(* The pool counts its buffers right at every point of every thread: no    *)
(* packet leaks one and none is given back twice.                          *)
THEOREM BuffersSafe == Spec => []BuffersAccounted
<1>1. Inv => BuffersAccounted
    BY DEF Inv, CountInv
<1> QED BY <1>1, Invariant, PTL

(* BlockingQueue::Put never aborts, for every pool smaller than the queue: *)
(* every packet in the queue holds a buffer, and Stop adds one element.    *)
THEOREM PutNeverAborts == Spec => []NeverAborts
<1>1. Inv => NeverAborts
    BY DEF Inv
<1> QED BY <1>1, Invariant, PTL

(* The semaphore never lets the send thread take front() of an empty list. *)
THEOREM PermitsSafe == Spec => []PermitIsElement
<1>1. Inv => PermitIsElement
    BY DEF Inv
<1> QED BY <1>1, Invariant, PTL

(***************************************************************************)
(* The queue keeps Outbox's promise, step by step.                         *)
(***************************************************************************)
Pending == Held \o Waiting

(* What is pending in the initial state.                                   *)
LEMMA InitMaps == Init => Outbox!Init
<1> SUFFICES ASSUME Init PROVE Outbox!Init
    OBVIOUS
<1>1. Inv
    BY InitHolds
<1>2. Len(Held) = 0 /\ Len(Waiting) = 0 /\ Held \in Seq(Packet) /\ Waiting \in Seq(Packet)
    <2>1. Len(queue) = 0 /\ ~Occurs(queue, Null)
        BY DEF Init, Occurs
    <2> QED BY <1>1, <2>1, HeldType, WaitingType DEF Inv, Init
<1>3. Held = <<>> /\ Waiting = <<>>
    BY <1>2, EmptySeq
<1>4. Held \o Waiting = <<>>
    BY <1>3
<1> QED BY <1>4 DEF Init, Outbox!Init

(* A step that leaves the packets where they are.                          *)
LEMMA Stutter ==
    ASSUME Pending' = Pending, UNCHANGED <<handled, stopping>>
    PROVE  [Outbox!Next]_(Outbox!vars)
BY DEF Pending, Outbox!vars

(* Put accepts a packet when fewer than all buffers are pending.           *)
LEMMA PutMaps ==
    ASSUME Inv, NEW t \in Threads, Put(t)
    PROVE  Outbox!Next
<1>1. /\ pc[t] = "put" /\ queue' = Append(queue, mine[t])
      /\ UNCHANGED <<sending, handled, stopping>>
    BY DEF Put, Push
<1>2. mine[t] \in Packet /\ Len(Held) + Len(Waiting) < Buffers
    BY <1>1, PutRoom
<1>3. Waiting' = Append(Waiting, mine[t]) /\ Held' = Held
    BY <1>1, <1>2, PushPacket DEF Inv, Held
<1>4. Held \in Seq(Packet) /\ Waiting \in Seq(Packet)
    BY HeldType, WaitingType DEF Inv
<1>5. Len(Held \o Waiting) < Buffers
    BY <1>2, <1>4, ConcatProperties
<1>6. Held \o Append(Waiting, mine[t]) = Append(Held \o Waiting, mine[t])
    <2>1. /\ Append(Waiting, mine[t]) = Waiting \o <<mine[t]>>
          /\ <<mine[t]>> \in Seq(Packet) /\ Held \o Waiting \in Seq(Packet)
        BY <1>2, <1>4, AppendIsConcat, ConcatProperties
    <2>2. Append(Held \o Waiting, mine[t]) = (Held \o Waiting) \o <<mine[t]>>
        BY <1>2, <2>1, AppendIsConcat
    <2> QED BY <1>4, <2>1, <2>2, ConcatAssociative
<1>7. Outbox!Accept(mine[t])
    BY <1>1, <1>3, <1>5, <1>6 DEF Outbox!Accept
<1> QED BY <1>2, <1>7 DEF Outbox!Next

(* Pop only moves the first packet from the queue to the send thread.      *)
LEMMA PopMaps ==
    ASSUME Inv, Pop
    PROVE  Pending' = Pending
<1>1. /\ sender = "pop" /\ queue # <<>> /\ queue' = Tail(queue) /\ sending' = Head(queue)
    BY DEF Pop
<1>2. sending = Null
    BY <1>1 DEF Inv, SendingInv
<1>3. /\ Head(queue) = Null => Waiting' = Waiting
      /\ Head(queue) # Null => Waiting = <<Head(queue)>> \o Waiting'
    BY <1>1, PopHead DEF Inv
<1>4. Held = <<>> /\ Held' = IF Head(queue) = Null THEN <<>> ELSE <<Head(queue)>>
    BY <1>1, <1>2 DEF Held
<1>5. Waiting \in Seq(Packet) /\ <<>> \o Waiting = Waiting
    BY WaitingType, ConcatEmptySeq DEF Inv
<1> QED BY <1>3, <1>4, <1>5 DEF Pending

(* SendPacket handles the packet at the head of what is pending.           *)
LEMMA SendPacketMaps ==
    ASSUME Inv, SendPacket
    PROVE  [Outbox!Next]_(Outbox!vars)
<1>1. /\ sending' = Null /\ UNCHANGED <<queue, stopping>>
      /\ handled' = IF sending = Null THEN handled ELSE Append(handled, sending)
    BY DEF SendPacket
<1>2. Waiting' = Waiting /\ Held' = <<>> /\ Waiting \in Seq(Packet)
    BY <1>1, WaitingType DEF Waiting, Held, Inv
<1>3. CASE sending = Null
    BY <1>1, <1>2, <1>3, Stutter DEF Pending, Held
<1>4. CASE sending # Null
    <2>1. sending \in Packet /\ Held = <<sending>>
        BY <1>4 DEF Inv, TypeOK, Held
    <2> DEFINE s == Held \o Waiting
    <2>2. s # <<>> /\ Head(s) = sending /\ Tail(s) = Waiting
        <3>1. s \in Seq(Packet) /\ Len(s) = 1 + Len(Waiting) /\ s[1] = sending
              /\ \A i \in 1..Len(Waiting) : s[i + 1] = Waiting[i]
            BY <1>2, <2>1, ConcatProperties
        <3>2. Len(s) > 0 /\ Len(Waiting) \in Nat
            BY <1>2, <3>1, LenProperties
        <3> HIDE DEF s
        <3>3. s # <<>>
            BY <3>2
        <3>4. /\ Tail(s) \in Seq(Packet) /\ Len(Tail(s)) = Len(Waiting)
              /\ \A i \in 1..Len(Tail(s)) : Tail(s)[i] = Waiting[i]
            BY <3>1, <3>2, <3>3, HeadTailProperties
        <3>5. Tail(s) = Waiting
            BY <1>2, <3>4, SeqEqual
        <3> QED BY <3>1, <3>3, <3>5
    <2>3. Held' \o Waiting' = Waiting
        BY <1>2, ConcatEmptySeq
    <2>4. Outbox!Handle
        BY <1>1, <1>4, <2>2, <2>3 DEF Outbox!Handle
    <2> QED BY <2>4 DEF Outbox!Next
<1> QED BY <1>3, <1>4

(* Every step is a step of Outbox or changes nothing it knows of.          *)
LEMMA StepMaps == Inv /\ [Next]_vars => [Outbox!Next]_(Outbox!vars)
<1> SUFFICES ASSUME Inv, [Next]_vars PROVE [Outbox!Next]_(Outbox!vars)
    OBVIOUS
<1>1. CASE \E t \in Threads : Put(t)
    BY <1>1, PutMaps
<1>2. CASE Pop
    BY <1>2, PopMaps, Stutter DEF Pop
<1>3. CASE SendPacket
    BY <1>3, SendPacketMaps
<1>4. CASE StopFlags
    <2>1. Outbox!Close
        BY <1>4 DEF StopFlags, Outbox!Close, Held, Waiting
    <2> QED BY <2>1 DEF Outbox!Next
<1>5. CASE StopPut
    <2>1. ~Occurs(queue, Null) /\ queue' = Append(queue, Null)
        BY <1>5 DEF StopPut, Push, Inv, NullInv
    <2>2. Waiting' = Waiting
        BY <2>1, PushNull DEF Inv
    <2> QED BY <1>5, <2>2, Stutter DEF StopPut, Pending, Held
<1>6. CASE \/ \E t \in Threads : \/ Round(t) \/ SendNothing(t) \/ GetBuffer(t)
                                 \/ GenerateOutSeq(t)
           \/ SelectCanceled \/ SelectReadable \/ SenderRound \/ Acquire
           \/ CancelSelect \/ Join \/ UNCHANGED vars
    <2>1. UNCHANGED <<queue, sending, handled, stopping>>
        BY <1>6 DEF Round, SendNothing, GetBuffer, GenerateOutSeq, SelectCanceled,
                    SelectReadable, SenderRound, Acquire, CancelSelect, Join, vars
    <2> QED BY <2>1, Stutter DEF Pending, Held, Waiting
<1> QED BY <1>1, <1>2, <1>3, <1>4, <1>5, <1>6 DEF Next, Produce, Sender, Stopping

(* The safety half of ImplementsOutbox, for every instance: the threads    *)
(* and their queue are a first-in first-out queue, bounded by the pool,    *)
(* that handles each accepted packet once and in order.                    *)
THEOREM ImplementsSafely == Spec => Outbox!Safety
<1>1. Init => Outbox!Init
    BY InitMaps
<1>2. Inv /\ [Next]_vars => [Outbox!Next]_(Outbox!vars)
    BY StepMaps
<1> QED BY <1>1, <1>2, Invariant, PTL DEF Spec, Outbox!Safety
============================================================================
