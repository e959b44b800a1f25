--------------------------- MODULE HcpFramingProofs ---------------------------
(* What holds of the frame layers whatever the sizes, the frames, the length  *)
(* of the driver's queue and the faults on the line.                          *)
EXTENDS HcpFraming, FiniteSetTheorems, SequenceTheorems, FunctionTheorems, TLAPS

-------------------------------------------------------------------------------
(* Sequences of bytes.                                                        *)

\* The smaller of two numbers.
LEMMA MinOfTwo ==
    ASSUME NEW a \in Nat, NEW b \in Nat
    PROVE  /\ Min({a, b}) \in Nat /\ Min({a, b}) <= a /\ Min({a, b}) <= b
           /\ Min({a, b}) = a \/ Min({a, b}) = b
<1>1. \E x \in {a, b} : \A y \in {a, b} : x <= y
  <2>1. CASE a <= b
    BY <2>1
  <2>2. CASE ~(a <= b)
    BY <2>2
  <2>. QED  BY <2>1, <2>2
<1>2. Min({a, b}) \in {a, b} /\ \A y \in {a, b} : Min({a, b}) <= y
  BY <1>1 DEF Min
<1>. QED  BY <1>2

\* Every byte belongs to the frame with that number.
AllOf(bytes, tag) == \A i \in 1 .. Len(bytes) : bytes[i].of = tag

\* What is left when so many are taken from the front.
LEMMA RestOf ==
    ASSUME NEW l \in Nat, NEW m \in Nat, m <= l
    PROVE  /\ l - (1 + m) + 1 = l - m /\ l - m \in Nat
           /\ 1 + m <= l \/ l - m = 0
OBVIOUS

\* What is taken of a ring and what is left of it.
LEMMA Parts ==
    ASSUME NEW S, NEW s \in Seq(S), NEW n \in Nat
    PROVE  LET m == Min({n, Len(s)})
               a == SubSeq(s, 1, m)
               b == SubSeq(s, 1 + m, Len(s))
           IN  /\ m \in Nat /\ m <= n /\ m <= Len(s)
               /\ a \in Seq(S) /\ Len(a) = m
               /\ b \in Seq(S) /\ Len(b) = Len(s) - m
               /\ \A tag : AllOf(s, tag) => AllOf(a, tag) /\ AllOf(b, tag)
<1>. DEFINE m == Min({n, Len(s)})
            a == SubSeq(s, 1, m)
            b == SubSeq(s, 1 + m, Len(s))
<1>1. Len(s) \in Nat /\ s \in [1 .. Len(s) -> S]
  BY LenProperties
<1>2. m \in Nat /\ m <= n /\ m <= Len(s)
  BY <1>1, MinOfTwo
<1>. HIDE DEF m
<1>3. a \in Seq(S) /\ Len(a) = m /\ \A i \in 1 .. m : a[i] = s[i]
  <2>1. 1 \in Int /\ m \in Int /\ (\A i \in 1 .. m : s[i] \in S) /\ m - 1 + 1 = m
        /\ (\A i \in 1 .. m : 1 + i - 1 = i) /\ (IF 1 <= m THEN m ELSE 0) = m
    BY <1>1, <1>2
  <2>2. a \in Seq(S) /\ Len(a) = (IF 1 <= m THEN m - 1 + 1 ELSE 0)
        /\ \A i \in 1 .. m - 1 + 1 : a[i] = s[1 + i - 1]
    BY <2>1, SubSeqProperties
  <2>. QED  BY <2>1, <2>2
<1>4. b \in Seq(S) /\ Len(b) = Len(s) - m /\ \A i \in 1 .. Len(s) - m : b[i] = s[m + i]
  <2>1. 1 + m \in Int /\ Len(s) \in Int /\ (\A i \in 1 + m .. Len(s) : s[i] \in S)
    BY <1>1, <1>2
  <2>. DEFINE p == 1 + m
             k == Len(s)
  <2>. HIDE DEF p, k
  <2>2. p \in Int /\ k \in Int /\ \A i \in p .. k : s[i] \in S
    BY <2>1 DEF p, k
  <2>3. SubSeq(s, p, k) \in Seq(S) /\ Len(SubSeq(s, p, k)) = (IF p <= k THEN k - p + 1 ELSE 0)
        /\ \A i \in 1 .. k - p + 1 : SubSeq(s, p, k)[i] = s[p + i - 1]
    BY <2>2, SubSeqProperties
  <2>4. SubSeq(s, p, k) = b
    BY DEF p, k
  <2>. HIDE DEF b
  <2>5. k - p + 1 = Len(s) - m /\ (p <= k \/ Len(s) - m = 0)
    BY <1>1, <1>2, RestOf DEF p, k
  <2>6. Len(b) = Len(s) - m
    BY <2>2, <2>3, <2>4, <2>5, <1>1, <1>2
  <2>7. ASSUME NEW i \in 1 .. Len(s) - m
        PROVE  b[i] = s[m + i]
    <3>1. i \in 1 .. k - p + 1
      BY <2>5
    <3>2. Len(s) - m \in Nat
      BY <1>1, <1>2, RestOf
    <3>3. i \in Int
      BY <3>2
    <3>4. p + i - 1 = m + i
      BY <1>2, <3>3 DEF p
    <3>. QED  BY <2>3, <2>4, <3>1, <3>4
  <2>8. b \in Seq(S)
    BY <2>3, <2>4
  <2>. QED  BY <2>6, <2>7, <2>8
<1>5. ASSUME NEW tag, AllOf(s, tag)
      PROVE  AllOf(a, tag) /\ AllOf(b, tag)
  <2>. HIDE DEF a, b
  <2>1. ASSUME NEW i \in 1 .. m
        PROVE  a[i].of = tag
    <3>1. i \in 1 .. Len(s)
      BY <1>1, <1>2
    <3>. QED  BY <1>3, <1>5, <3>1 DEF AllOf
  <2>2. ASSUME NEW i \in 1 .. Len(s) - m
        PROVE  b[i].of = tag
    <3>1. m + i \in 1 .. Len(s)
      BY <1>1, <1>2
    <3>. QED  BY <1>4, <1>5, <3>1 DEF AllOf
  <2>. QED  BY <1>3, <1>4, <2>1, <2>2 DEF AllOf
<1>. QED  BY <1>2, <1>3, <1>4, <1>5 DEF m

\* What is put together of two sequences.
LEMMA PutTogether ==
    ASSUME NEW S, NEW s \in Seq(S), NEW t \in Seq(S)
    PROVE  /\ s \o t \in Seq(S) /\ Len(s \o t) = Len(s) + Len(t)
           /\ \A tag : AllOf(s, tag) /\ AllOf(t, tag) => AllOf(s \o t, tag)
<1>1. /\ s \o t \in Seq(S) /\ Len(s \o t) = Len(s) + Len(t)
      /\ \A i \in 1 .. Len(s) + Len(t) :
            (s \o t)[i] = IF i <= Len(s) THEN s[i] ELSE t[i - Len(s)]
  BY ConcatProperties
<1>2. Len(s) \in Nat /\ Len(t) \in Nat
  BY LenProperties
<1>3. ASSUME NEW tag, AllOf(s, tag), AllOf(t, tag)
      PROVE  AllOf(s \o t, tag)
  <2>1. ASSUME NEW i \in 1 .. Len(s) + Len(t)
        PROVE  (s \o t)[i].of = tag
    <3>1. CASE i <= Len(s)
      BY <1>1, <1>2, <1>3, <3>1 DEF AllOf
    <3>2. CASE ~(i <= Len(s))
      <4>1. i - Len(s) \in 1 .. Len(t)
        BY <1>2, <3>2
      <4>. QED  BY <1>1, <1>3, <3>2, <4>1 DEF AllOf
    <3>. QED  BY <3>1, <3>2
  <2>. QED  BY <1>1, <2>1 DEF AllOf
<1>. QED  BY <1>1, <1>3

\* One more at the end.
LEMMA OneMore ==
    ASSUME NEW S, NEW s \in Seq(S), NEW e \in S
    PROVE  /\ Append(s, e) \in Seq(S) /\ Len(Append(s, e)) = Len(s) + 1 /\ Len(s) \in Nat
           /\ Append(s, e)[Len(s) + 1] = e
           /\ \A i \in 1 .. Len(s) : Append(s, e)[i] = s[i]
           /\ \A tag : AllOf(s, tag) /\ e.of = tag => AllOf(Append(s, e), tag)
<1>1. /\ Append(s, e) \in Seq(S) /\ Len(Append(s, e)) = Len(s) + 1 /\ Len(s) \in Nat
      /\ Append(s, e)[Len(s) + 1] = e
      /\ \A i \in 1 .. Len(s) : Append(s, e)[i] = s[i]
  BY LenProperties
<1>2. \A i \in 1 .. Len(s) + 1 : i \in 1 .. Len(s) \/ i = Len(s) + 1
  BY <1>1
<1>. QED  BY <1>1, <1>2 DEF AllOf

\* An empty sequence.
LEMMA NoBytes ==
    /\ Len(<<>>) = 0 /\ \A S : <<>> \in Seq(S)
    /\ \A tag : AllOf(<<>>, tag)
BY DEF AllOf


-------------------------------------------------------------------------------
(* What the events in the queue speak of.                                     *)

\* A queue of events, none of which speaks of more than so many bytes.
Bounded(evs, most) ==
    evs \in Seq(Event) /\ \A i \in 1 .. Len(evs) : evs[i].size <= most

\* What is in SpokenOf, and what the library knows of a sequence of events.
LEMMA WhatIsSpokenOf ==
    ASSUME NEW evs \in Seq(Event)
    PROVE  /\ Len(evs) \in Nat /\ DOMAIN evs = 1 .. Len(evs)
           /\ \A i \in 1 .. Len(evs) : evs[i] \in Event /\ evs[i].size \in Nat
           /\ \A p : p \in SpokenOf(evs) <=>
                     \E i \in 1 .. Len(evs) : p \in {i} \X (1 .. evs[i].size)
<1>1. Len(evs) \in Nat /\ DOMAIN evs = 1 .. Len(evs) /\ evs \in [1 .. Len(evs) -> Event]
  BY LenProperties
<1>2. \A i \in 1 .. Len(evs) : evs[i] \in Event
  BY <1>1
<1>3. \A e \in Event : e.size \in Nat
  BY DEF Event
<1>4. \A p : p \in SpokenOf(evs) <=>
             \E i \in 1 .. Len(evs) : p \in {i} \X (1 .. evs[i].size)
  BY <1>1, Zenon DEF SpokenOf
<1>. QED  BY <1>1, <1>2, <1>3, <1>4

\* It is a finite set.
LEMMA SpokenOfIsFinite ==
    ASSUME NEW most \in Nat, NEW evs, Bounded(evs, most)
    PROVE  IsFiniteSet(SpokenOf(evs)) /\ Cardinality(SpokenOf(evs)) \in Nat
<1>. DEFINE all == (1 .. Len(evs)) \X (1 .. most)
<1>1. evs \in Seq(Event) /\ \A i \in 1 .. Len(evs) : evs[i].size <= most
  BY DEF Bounded
<1>2. Len(evs) \in Nat /\ 1 \in Int /\ Len(evs) \in Int /\ most \in Int
  BY <1>1, WhatIsSpokenOf
<1>3. IsFiniteSet(1 .. Len(evs)) /\ IsFiniteSet(1 .. most)
  BY <1>2, FS_Interval
<1>4. IsFiniteSet(all)
  BY <1>3, FS_Product
<1>5. ASSUME NEW p \in SpokenOf(evs)
      PROVE  p \in all
  <2>1. PICK i \in 1 .. Len(evs) : p \in {i} \X (1 .. evs[i].size)
    BY <1>1, WhatIsSpokenOf
  <2>2. evs[i].size \in Nat /\ evs[i].size <= most
    BY <1>1, WhatIsSpokenOf
  <2>3. 1 .. evs[i].size \subseteq 1 .. most
    BY <2>2
  <2>. QED  BY <2>1, <2>3
<1>6. SpokenOf(evs) \in SUBSET all
  BY <1>5
<1>7. IsFiniteSet(SpokenOf(evs))
  BY <1>4, <1>6, FS_Subset
<1>. QED  BY <1>7, FS_CardinalityType

\* An event speaks of as many bytes as its size.
LEMMA OneEvent ==
    ASSUME NEW i, NEW n \in Nat
    PROVE  IsFiniteSet({i} \X (1 .. n)) /\ Cardinality({i} \X (1 .. n)) = n
<1>1. IsFiniteSet({i}) /\ Cardinality({i}) = 1
  BY FS_Singleton
<1>2. IsFiniteSet(1 .. n) /\ Cardinality(1 .. n) = n
  <2>1. 1 \in Int /\ n \in Int
    OBVIOUS
  <2>2. IsFiniteSet(1 .. n) /\ Cardinality(1 .. n) = IF 1 > n THEN 0 ELSE n - 1 + 1
    BY <2>1, FS_Interval
  <2>3. (IF 1 > n THEN 0 ELSE n - 1 + 1) = n
    OBVIOUS
  <2>. QED  BY <2>2, <2>3
<1>3. /\ IsFiniteSet({i} \X (1 .. n))
      /\ Cardinality({i} \X (1 .. n)) = Cardinality({i}) * Cardinality(1 .. n)
  BY <1>1, <1>2, FS_Product
<1>. QED  BY <1>1, <1>2, <1>3

\* One set beside another.
LEMMA SideBySide ==
    ASSUME NEW S, NEW T, IsFiniteSet(S), IsFiniteSet(T), S \cap T = {}
    PROVE  Cardinality(S \cup T) = Cardinality(S) + Cardinality(T)
<1>1. Cardinality(S \cup T) = Cardinality(S) + Cardinality(T) - Cardinality(S \cap T)
  BY FS_Union
<1>2. Cardinality(S \cap T) = 0
  BY FS_EmptySet
<1>3. Cardinality(S) \in Nat /\ Cardinality(T) \in Nat
  BY FS_CardinalityType
<1>. QED  BY <1>1, <1>2, <1>3

\* An empty queue speaks of nothing.
LEMMA NothingAnnounced ==
    SpokenOf(<<>>) = {} /\ Cardinality(SpokenOf(<<>>)) = 0 /\ \A most : Bounded(<<>>, most)
<1>1. <<>> \in Seq(Event) /\ Len(<<>>) = 0
  BY NoBytes
<1>2. \A p : p \in SpokenOf(<<>>) <=>
              \E i \in 1 .. Len(<<>>) : p \in {i} \X (1 .. <<>>[i].size)
  BY <1>1, WhatIsSpokenOf
<1>3. 1 .. Len(<<>>) = {}
  BY <1>1
<1>4. SpokenOf(<<>>) = {}
  BY <1>2, <1>3
<1>. QED  BY <1>1, <1>3, <1>4, FS_EmptySet DEF Bounded

\* An event raised adds the bytes it speaks of.
LEMMA OneEventMore ==
    ASSUME NEW most \in Nat, NEW evs, Bounded(evs, most),
           NEW e \in Event, e.size <= most
    PROVE  /\ Bounded(Append(evs, e), most)
           /\ Cardinality(SpokenOf(Append(evs, e))) = Cardinality(SpokenOf(evs)) + e.size
<1>. DEFINE more == Append(evs, e)
            n    == Len(evs)
            own  == {n + 1} \X (1 .. e.size)
<1>1. evs \in Seq(Event) /\ \A i \in 1 .. n : evs[i].size <= most
  BY DEF Bounded
<1>2. /\ more \in Seq(Event) /\ Len(more) = n + 1 /\ n \in Nat
      /\ more[n + 1] = e /\ \A i \in 1 .. n : more[i] = evs[i]
  BY <1>1, OneMore
<1>. HIDE DEF more, n
<1>3. \A i \in 1 .. n + 1 : i \in 1 .. n \/ i = n + 1
  BY <1>2
<1>4. \A i \in 1 .. n : i \in 1 .. n + 1 /\ i # n + 1
  BY <1>2
<1>5. n + 1 \in 1 .. n + 1
  BY <1>2
<1>6. Bounded(more, most)
  BY <1>1, <1>2, <1>3 DEF Bounded
<1>7. e.size \in Nat
  BY DEF Event
<1>8. \A p : p \in SpokenOf(more) <=> \E i \in 1 .. n + 1 : p \in {i} \X (1 .. more[i].size)
  BY <1>2, WhatIsSpokenOf
<1>9. \A p : p \in SpokenOf(evs) <=> \E i \in 1 .. n : p \in {i} \X (1 .. evs[i].size)
  BY <1>1, WhatIsSpokenOf DEF n
<1>10. SpokenOf(more) = SpokenOf(evs) \cup own
  <2>1. ASSUME NEW p \in SpokenOf(more)
        PROVE  p \in SpokenOf(evs) \cup own
    <3>1. PICK i \in 1 .. n + 1 : p \in {i} \X (1 .. more[i].size)
      BY <1>8
    <3>2. CASE i \in 1 .. n
      BY <1>2, <1>9, <3>1, <3>2
    <3>3. CASE i = n + 1
      BY <1>2, <3>1, <3>3
    <3>. QED  BY <1>3, <3>2, <3>3
  <2>2. ASSUME NEW p \in SpokenOf(evs)
        PROVE  p \in SpokenOf(more)
    <3>1. PICK i \in 1 .. n : p \in {i} \X (1 .. evs[i].size)
      BY <1>9
    <3>2. i \in 1 .. n + 1 /\ p \in {i} \X (1 .. more[i].size)
      BY <1>2, <1>4, <3>1
    <3>. QED  BY <1>8, <3>2
  <2>3. ASSUME NEW p \in own
        PROVE  p \in SpokenOf(more)
    <3>1. p \in {n + 1} \X (1 .. more[n + 1].size)
      BY <1>2, <2>3
    <3>. QED  BY <1>5, <1>8, <3>1
  <2>. QED  BY <2>1, <2>2, <2>3
<1>11. SpokenOf(evs) \cap own = {}
  <2>1. ASSUME NEW p \in SpokenOf(evs), p \in own
        PROVE  FALSE
    <3>1. PICK i \in 1 .. n : p \in {i} \X (1 .. evs[i].size)
      BY <1>9
    <3>2. p[1] = i /\ p[1] = n + 1
      BY <2>1, <3>1
    <3>. QED  BY <1>4, <3>2
  <2>. QED  BY <2>1
<1>12. IsFiniteSet(own) /\ Cardinality(own) = e.size
  BY <1>7, OneEvent
<1>13. IsFiniteSet(SpokenOf(evs))
  BY SpokenOfIsFinite
<1>. HIDE DEF own
<1>14. Cardinality(SpokenOf(evs) \cup own) = Cardinality(SpokenOf(evs)) + Cardinality(own)
  BY <1>11, <1>12, <1>13, SideBySide
<1>. QED  BY <1>6, <1>10, <1>12, <1>14 DEF more


\* The first event taken takes the bytes it speaks of with it.
LEMMA OneEventLess ==
    ASSUME NEW most \in Nat, NEW evs, Bounded(evs, most), evs # <<>>
    PROVE  /\ Bounded(Tail(evs), most) /\ Head(evs) \in Event /\ Head(evs).size <= most
           /\ Len(evs) \in Nat \ {0} /\ Head(evs) = evs[1] /\ Len(Tail(evs)) = Len(evs) - 1
           /\ \A i \in 1 .. Len(Tail(evs)) : Tail(evs)[i] = evs[i + 1] /\ i + 1 \in 2 .. Len(evs)
           /\ Cardinality(SpokenOf(evs))
                  = Cardinality(SpokenOf(Tail(evs))) + Head(evs).size
<1>. DEFINE rest  == Tail(evs)
            n     == Len(rest)
            own   == {1} \X (1 .. evs[1].size)
            moved == SpokenOf(evs) \ own
            f     == [p \in SpokenOf(rest) |-> <<p[1] + 1, p[2]>>]
<1>1. evs \in Seq(Event) /\ \A i \in 1 .. Len(evs) : evs[i].size <= most
  BY DEF Bounded
<1>2. Len(evs) \in Nat \ {0} /\ Head(evs) = evs[1]
  BY <1>1
<1>3. Head(evs) \in Event /\ rest \in Seq(Event) /\ n = Len(evs) - 1 /\ n \in Nat
      /\ \A i \in 1 .. n : rest[i] = evs[i + 1]
  BY <1>1, <1>2, HeadTailProperties
<1>. HIDE DEF rest, n
<1>4. \A i \in 1 .. n : i + 1 \in 2 .. Len(evs) /\ i + 1 \in 1 .. Len(evs)
  BY <1>2, <1>3
<1>5. \A i \in 1 .. Len(evs) : i = 1 \/ (i - 1 \in 1 .. n /\ (i - 1) + 1 = i)
  BY <1>2, <1>3
<1>6. 1 \in 1 .. Len(evs)
  BY <1>2
<1>7. Bounded(rest, most) /\ Head(evs).size <= most /\ evs[1].size \in Nat
  <2>1. \A i \in 1 .. n : rest[i].size <= most
    BY <1>1, <1>3, <1>4
  <2>2. evs[1].size \in Nat
    BY <1>1, <1>6, WhatIsSpokenOf
  <2>. QED  BY <1>1, <1>2, <1>3, <1>6, <2>1, <2>2 DEF Bounded, n
<1>8. \A p : p \in SpokenOf(rest) <=> \E i \in 1 .. n : p \in {i} \X (1 .. rest[i].size)
  BY <1>3, WhatIsSpokenOf DEF n
<1>9. \A p : p \in SpokenOf(evs) <=>
             \E i \in 1 .. Len(evs) : p \in {i} \X (1 .. evs[i].size)
  BY <1>1, WhatIsSpokenOf
<1>10. ASSUME NEW p \in SpokenOf(rest)
       PROVE  p[1] \in 1 .. n /\ p = <<p[1], p[2]>> /\ p[2] \in 1 .. rest[p[1]].size
  <2>1. PICK i \in 1 .. n : p \in {i} \X (1 .. rest[i].size)
    BY <1>8
  <2>. QED  BY <2>1
<1>11. f \in [SpokenOf(rest) -> moved]
  <2>1. ASSUME NEW p \in SpokenOf(rest)
        PROVE  <<p[1] + 1, p[2]>> \in moved
    <3>1. p[1] \in 1 .. n /\ p[2] \in 1 .. rest[p[1]].size
      BY <1>10
    <3>2. p[1] + 1 \in 1 .. Len(evs) /\ p[1] + 1 # 1 /\ p[2] \in 1 .. evs[p[1] + 1].size
      BY <1>3, <1>4, <3>1
    <3>3. <<p[1] + 1, p[2]>> \in {p[1] + 1} \X (1 .. evs[p[1] + 1].size)
      BY <3>2
    <3>4. <<p[1] + 1, p[2]>> \in SpokenOf(evs)
      BY <1>9, <3>2, <3>3
    <3>. QED  BY <3>2, <3>4
  <2>. QED  BY <2>1
<1>12. f \in Injection(SpokenOf(rest), moved)
  <2>1. ASSUME NEW p \in SpokenOf(rest), NEW q \in SpokenOf(rest), f[p] = f[q]
        PROVE  p = q
    <3>1. p[1] \in Int /\ q[1] \in Int /\ p = <<p[1], p[2]>> /\ q = <<q[1], q[2]>>
      BY <1>3, <1>10
    <3>2. <<p[1] + 1, p[2]>> = <<q[1] + 1, q[2]>>
      BY <2>1
    <3>3. p[1] + 1 = q[1] + 1 /\ p[2] = q[2]
      BY <3>2
    <3>4. p[1] = q[1]
      BY <3>1, <3>3
    <3>. QED  BY <3>1, <3>3, <3>4
  <2>. HIDE DEF f, moved
  <2>. QED  BY <1>11, <2>1, Fun_IsInj
<1>13. f \in Surjection(SpokenOf(rest), moved)
  <2>1. ASSUME NEW q \in moved
        PROVE  \E p \in SpokenOf(rest) : f[p] = q
    <3>1. PICK i \in 1 .. Len(evs) : q \in {i} \X (1 .. evs[i].size)
      BY <1>9, <2>1
    <3>2. q = <<i, q[2]>> /\ q[2] \in 1 .. evs[i].size
      BY <3>1
    <3>3. i # 1
      BY <2>1, <3>1
    <3>4. i - 1 \in 1 .. n /\ (i - 1) + 1 = i
      BY <1>5, <3>3
    <3>5. rest[i - 1] = evs[i]
      BY <1>3, <3>4
    <3>6. <<i - 1, q[2]>> \in {i - 1} \X (1 .. rest[i - 1].size)
      BY <3>2, <3>5
    <3>7. <<i - 1, q[2]>> \in SpokenOf(rest)
      BY <1>8, <3>4, <3>6
    <3>8. f[<<i - 1, q[2]>>] = <<(i - 1) + 1, q[2]>>
      BY <3>7
    <3>9. f[<<i - 1, q[2]>>] = q
      BY <3>2, <3>4, <3>8
    <3>. QED  BY <3>7, <3>9
  <2>. HIDE DEF f, moved
  <2>. QED  BY <1>11, <2>1, Fun_IsSurj
<1>14. f \in Bijection(SpokenOf(rest), moved)
  BY <1>12, <1>13 DEF Bijection
<1>15. ExistsBijection(SpokenOf(rest), moved)
  BY <1>14 DEF ExistsBijection
<1>16. IsFiniteSet(SpokenOf(rest))
  BY <1>7, SpokenOfIsFinite
<1>17. IsFiniteSet(moved) /\ Cardinality(moved) = Cardinality(SpokenOf(rest))
  BY <1>15, <1>16, FS_Bijection
<1>18. IsFiniteSet(own) /\ Cardinality(own) = evs[1].size
  BY <1>7, OneEvent
<1>19. SpokenOf(evs) = moved \cup own
  <2>1. ASSUME NEW p \in own
        PROVE  p \in SpokenOf(evs)
    BY <1>6, <1>9, <2>1
  <2>. QED  BY <2>1
<1>20. moved \cap own = {}
  OBVIOUS
<1>. HIDE DEF moved, own, f
<1>21. Cardinality(moved \cup own) = Cardinality(moved) + Cardinality(own)
  BY <1>17, <1>18, <1>20, SideBySide
<1>. QED  BY <1>2, <1>3, <1>4, <1>7, <1>17, <1>18, <1>19, <1>21 DEF rest, n


-------------------------------------------------------------------------------
(* The inductive invariant.                                                   *)

\* The frame on the line, or the one that was.
Lines == [tag : 0 .. Tags - 1, kind : [to : Addressee, length : Nat], sent : Nat]

\* The types, also those of the frame on the line.
TypeInv == TypeOK /\ line \in Lines

\* An event speaks of no more than fills the peripheral, and only "data" speaks
\* of anything.
QueueInv ==
    /\ \A i \in 1 .. Len(events) :
          events[i].size <= FullThreshold /\ (events[i].type = "data" \/ events[i].size = 0)
    /\ event.size <= FullThreshold

\* Where the bus task may be when rx_buf_ or the ring holds something.
PlaceInv ==
    /\ pc = "answering" => rx # <<>>
    /\ pc = "more" => protocol = "HCP2"
    /\ protocol = "HCP2" /\ rx # <<>> => pc \in {"more", "address", "handler", "answering"}
    /\ protocol = "HCP2" /\ pc = "reset" /\ ring # <<>> => slipped

\* Which bytes belong to the frame on the line.
OwnInv ==
    /\ AllOf(fifo, line.tag)
    /\ protocol = "HCP1" => AllOf(ring, line.tag)
    /\ protocol = "HCP2" /\ ~overtaken /\ ~slipped =>
          AllOf(ring, line.tag) /\ AllOf(rx, line.tag)

\* A break was announced and what came before it is still in rx_buf_.
BreakPending ==
    \/ \E i \in 1 .. Len(events) : events[i].type = "break"
    \/ pc \in {"ended", "handler", "answering"}

\* On the older bus: what is collected belongs to the frame on the line until a
\* break says otherwise; as long as the drive does not run ahead the task sees the
\* break first.
BreakInv ==
    protocol = "HCP1" =>
        /\ ~missed /\ ~BreakPending => AllOf(rx, line.tag)
        /\ ~overtaken =>
              \A i \in 1 .. Len(events) : events[i].type = "break" => i = 1 /\ pc = "wait"
        /\ ~overtaken /\ ~missed => AllOf(rx, Head(rx).of)

\* What every step keeps.
IInv == TypeInv /\ QueueInv /\ PlaceInv /\ NothingLeftBehind /\ OwnInv /\ BreakInv

\* What the sizes are.
LEMMA Sizes ==
    /\ MinFrame \in Nat \ {0} /\ FullThreshold \in Nat \ {0}
    /\ BufferSize \in [Protocols -> Nat \ {0}]
    /\ QueueLength \in Nat \ {0} /\ Tags \in Nat \ {0} /\ MaxFaults \in Nat
    /\ "HCP2" \in Protocols => FullThreshold <= BufferSize["HCP2"]
BY SizesAssumption

\* There is room for a frame on either bus.
LEMMA RoomIs ==
    ASSUME TypeInv
    PROVE  Room \in Nat \ {0} /\ (protocol = "HCP2" => FullThreshold <= Room)
<1>1. protocol \in Protocols
  BY DEF TypeInv, TypeOK
<1>. QED  BY <1>1, Sizes DEF Room

\* What the queue is, in the words of the lemmas on events.
LEMMA QueueIsBounded ==
    ASSUME TypeInv, QueueInv
    PROVE  /\ Bounded(events, FullThreshold) /\ FullThreshold \in Nat
           /\ events \in Seq(Event) /\ Len(events) \in Nat
           /\ \A i \in 1 .. Len(events) : events[i] \in Event
           /\ Cardinality(SpokenOf(events)) \in Nat
<1>1. events \in Seq(Event) /\ FullThreshold \in Nat
  BY Sizes DEF TypeInv, TypeOK
<1>2. Bounded(events, FullThreshold)
  BY <1>1 DEF Bounded, QueueInv
<1>. QED  BY <1>1, <1>2, WhatIsSpokenOf, SpokenOfIsFinite

\* An event raised goes to the end of the queue, or is lost.
LEMMA Raising ==
    ASSUME TypeInv, QueueInv, NEW type \in {"data", "break", "error"},
           NEW size \in 0 .. FullThreshold, type = "data" \/ size = 0, Raise(type, size)
    PROVE  /\ events' \in Seq(Event) /\ Len(events') <= QueueLength /\ Len(events) \in Nat
           /\ Cardinality(SpokenOf(events)) \in Nat
           /\ \A i \in 1 .. Len(events') :
                 /\ events'[i].size <= FullThreshold
                 /\ events'[i].type = "data" \/ events'[i].size = 0
                 /\ (i \in 1 .. Len(events) /\ events'[i] = events[i])
                    \/ (i = Len(events) + 1 /\ events'[i].type = type)
           /\ \A i \in 1 .. Len(events) : i \in 1 .. Len(events') /\ events'[i] = events[i]
           /\ \/ Len(events) = QueueLength /\ events' = events
              \/ /\ Len(events) < QueueLength /\ Len(events') = Len(events) + 1
                 /\ Len(events) + 1 \in 1 .. Len(events')
                 /\ events'[Len(events) + 1].type = type
                 /\ Cardinality(SpokenOf(events')) = Cardinality(SpokenOf(events)) + size
<1>. DEFINE e == [type |-> type, size |-> size]
<1>1. FullThreshold \in Nat /\ size \in Nat /\ size <= FullThreshold /\ QueueLength \in Nat
  BY Sizes
<1>2. e \in Event /\ e.size = size /\ e.type = type
  BY <1>1 DEF Event
<1>. HIDE DEF e
<1>3. /\ Bounded(events, FullThreshold) /\ events \in Seq(Event) /\ Len(events) \in Nat
      /\ Cardinality(SpokenOf(events)) \in Nat
  BY QueueIsBounded
<1>4. Len(events) <= QueueLength
  BY DEF TypeInv, TypeOK
<1>5. \A i \in 1 .. Len(events) :
         events[i].size <= FullThreshold /\ (events[i].type = "data" \/ events[i].size = 0)
  BY DEF QueueInv
<1>6. CASE Len(events) < QueueLength
  <2>1. events' = Append(events, e)
    BY <1>6 DEF Raise, e
  <2>2. /\ events' \in Seq(Event) /\ Len(events') = Len(events) + 1
        /\ events'[Len(events) + 1] = e
        /\ \A i \in 1 .. Len(events) : events'[i] = events[i]
    BY <1>2, <1>3, <2>1, OneMore
  <2>3. Cardinality(SpokenOf(events')) = Cardinality(SpokenOf(events)) + size
    BY <1>1, <1>2, <1>3, <2>1, OneEventMore
  <2>4. \A i \in 1 .. Len(events) + 1 : i \in 1 .. Len(events) \/ i = Len(events) + 1
    BY <1>3
  <2>5. Len(events) + 1 \in 1 .. Len(events) + 1 /\ Len(events) + 1 <= QueueLength
    BY <1>1, <1>3, <1>6
  <2>6. ASSUME NEW i \in 1 .. Len(events')
        PROVE  /\ events'[i].size <= FullThreshold
               /\ events'[i].type = "data" \/ events'[i].size = 0
               /\ (i \in 1 .. Len(events) /\ events'[i] = events[i])
                  \/ (i = Len(events) + 1 /\ events'[i].type = type)
    <3>1. CASE i \in 1 .. Len(events)
      BY <1>5, <2>2, <3>1
    <3>2. CASE i = Len(events) + 1
      BY <1>1, <1>2, <2>2, <3>2
    <3>. QED  BY <2>2, <2>4, <3>1, <3>2
  <2>7. \A i \in 1 .. Len(events) : i \in 1 .. Len(events') /\ events'[i] = events[i]
    BY <1>3, <2>2
  <2>. QED  BY <1>2, <1>3, <1>6, <2>2, <2>3, <2>5, <2>6, <2>7
<1>7. CASE ~(Len(events) < QueueLength)
  <2>1. events' = events
    BY <1>7 DEF Raise
  <2>2. Len(events) = QueueLength
    BY <1>1, <1>3, <1>4, <1>7
  <2>. QED  BY <1>3, <1>4, <1>5, <2>1, <2>2
<1>. QED  BY <1>6, <1>7


\* Nothing is collected when nothing was received yet.
LEMMA InvInit == Init => IInv
<1>. SUFFICES ASSUME Init PROVE IInv
  OBVIOUS
<1>1. /\ fifo = <<>> /\ ring = <<>> /\ events = <<>> /\ rx = <<>> /\ event = NoEvent
      /\ protocol \in Protocols /\ faults = 0 /\ overtaken = FALSE /\ missed = FALSE
      /\ slipped = FALSE /\ pc \in {"wait", "flush"}
      /\ line = [tag |-> 0, kind |-> [to |-> "other", length |-> 0], sent |-> 0]
  BY DEF Init
<1>2. Len(<<>>) = 0 /\ <<>> \in Seq(Bytes) /\ <<>> \in Seq(Event)
      /\ \A tag : AllOf(<<>>, tag)
  BY NoBytes
<1>3. TypeInv
  <2>1. line \in Lines /\ line.tag \in 0 .. Tags - 1
    BY <1>1, Sizes DEF Lines, Addressee
  <2>2. event \in Event
    BY <1>1 DEF Event, NoEvent
  <2>3. Len(fifo) < FullThreshold /\ Len(rx) <= Room /\ Len(events) <= QueueLength
    <3>1. Room \in Nat \ {0}
      BY <1>1, Sizes DEF Room
    <3>. QED  BY <1>1, <1>2, <3>1, Sizes
  <2>4. faults \in 0 .. MaxFaults
    BY <1>1, Sizes
  <2>. QED  BY <1>1, <1>2, <2>1, <2>2, <2>3, <2>4 DEF TypeInv, TypeOK
<1>4. QueueInv
  BY <1>1, <1>2, Sizes DEF QueueInv, NoEvent
<1>5. PlaceInv
  BY <1>1 DEF PlaceInv
<1>6. NothingLeftBehind
  <2>1. Cardinality(SpokenOf(events)) = 0
    BY <1>1, NothingAnnounced
  <2>. QED  BY <1>1, <1>2, <2>1 DEF NothingLeftBehind, Announced
<1>7. OwnInv
  BY <1>1, <1>2 DEF OwnInv
<1>8. BreakInv
  <2>1. 1 .. Len(events) = {}
    BY <1>1, <1>2
  <2>. QED  BY <1>1, <1>2, <2>1 DEF BreakInv
<1>. QED  BY <1>3, <1>4, <1>5, <1>6, <1>7, <1>8 DEF IInv

\* What the task returns with nothing collected, and not from where it takes an
\* event or reads one.
LEMMA Emptied ==
    ASSUME IInv, Returns(<<>>), pc \notin {"wait", "read"},
           UNCHANGED <<protocol, line, fifo, ring, events, historyVars>>
    PROVE  IInv'
<1>1. /\ pc' = "wait" /\ event' = NoEvent /\ rx' = <<>> /\ missed' = FALSE
      /\ protocol' = protocol /\ line' = line /\ fifo' = fifo /\ ring' = ring
      /\ events' = events /\ faults' = faults /\ overtaken' = overtaken
      /\ slipped' = slipped
  BY DEF Returns, Goto, historyVars
<1>2. Len(<<>>) = 0 /\ <<>> \in Seq(Bytes) /\ \A tag : AllOf(<<>>, tag)
  BY NoBytes
<1>3. TypeInv /\ QueueInv /\ PlaceInv /\ NothingLeftBehind /\ OwnInv /\ BreakInv
  BY DEF IInv
<1>4. TypeInv'
  <2>1. Room' = Room /\ Room \in Nat
    BY <1>1, <1>3, RoomIs DEF Room
  <2>2. NoEvent \in Event
    BY DEF NoEvent, Event
  <2>3. Len(rx') <= Room'
    BY <1>1, <1>2, <2>1
  <2>. QED  BY <1>1, <1>2, <1>3, <2>2, <2>3 DEF TypeInv, TypeOK
<1>5. QueueInv'
  BY <1>1, <1>3, Sizes DEF QueueInv, NoEvent
<1>6. PlaceInv'
  BY <1>1 DEF PlaceInv
<1>7. NothingLeftBehind'
  BY <1>1, <1>3 DEF NothingLeftBehind, Announced
<1>8. OwnInv'
  BY <1>1, <1>2, <1>3 DEF OwnInv
<1>9. BreakInv'
  BY <1>1, <1>2, <1>3 DEF BreakInv
<1>. QED  BY <1>4, <1>5, <1>6, <1>7, <1>8, <1>9 DEF IInv

\* What was collected goes on to the handler, or to an answer.
LEMMA GoesOn ==
    ASSUME IInv, NEW label \in {"handler", "answering"}, Stays(label),
           label = "handler" \/ rx # <<>>, pc \in {"address", "ended", "handler"},
           UNCHANGED <<protocol, line, fifo, ring, events, historyVars>>
    PROVE  IInv'
<1>1. /\ pc' = label /\ event' = event /\ rx' = rx /\ missed' = missed
      /\ protocol' = protocol /\ line' = line /\ fifo' = fifo /\ ring' = ring
      /\ events' = events /\ faults' = faults /\ overtaken' = overtaken
      /\ slipped' = slipped
  BY DEF Stays, Goto, historyVars
<1>2. TypeInv /\ QueueInv /\ PlaceInv /\ NothingLeftBehind /\ OwnInv /\ BreakInv
  BY DEF IInv
<1>3. TypeInv'
  <2>1. Room' = Room
    BY <1>1 DEF Room
  <2>. QED  BY <1>1, <1>2, <2>1 DEF TypeInv, TypeOK
<1>4. QueueInv'
  BY <1>1, <1>2 DEF QueueInv
<1>5. PlaceInv'
  BY <1>1 DEF PlaceInv
<1>6. NothingLeftBehind'
  BY <1>1, <1>2 DEF NothingLeftBehind, Announced
<1>7. OwnInv'
  BY <1>1, <1>2 DEF OwnInv
<1>8. BreakInv'
  <2>1. BreakPending'
    BY <1>1 DEF BreakPending
  <2>. QED  BY <1>1, <1>2, <2>1 DEF BreakInv
<1>. QED  BY <1>3, <1>4, <1>5, <1>6, <1>7, <1>8 DEF IInv

\* The calls that look at what was collected and read nothing.
LEMMA LookingStep ==
    ASSUME IInv, CheckAddress \/ BreakSeen \/ HandlerReturns \/ AnswerSent
    PROVE  IInv'
<1>. /\ "handler" \in {"handler", "answering"} /\ "answering" \in {"handler", "answering"}
     /\ \A at \in {"address", "ended", "handler", "answering"} : at \notin {"wait", "read"}
  OBVIOUS
<1>1. UNCHANGED <<protocol, line, fifo, ring, events, historyVars>>
  BY DEF CheckAddress, BreakSeen, HandlerReturns, AnswerSent, driverVars
<1>2. CASE CheckAddress
  <2>1. pc = "address" /\ (Returns(<<>>) \/ Stays("handler"))
    BY <1>2 DEF CheckAddress
  <2>. QED  BY <1>1, <2>1, Emptied, GoesOn
<1>3. CASE BreakSeen
  <2>1. pc = "ended" /\ (Returns(<<>>) \/ Stays("handler"))
    BY <1>3 DEF BreakSeen
  <2>. QED  BY <1>1, <2>1, Emptied, GoesOn
<1>4. CASE HandlerReturns
  <2>1. pc = "handler" /\ (Returns(<<>>) \/ (Stays("answering") /\ rx # <<>>))
    BY <1>4 DEF HandlerReturns, AfterFrame, Whole
  <2>. QED  BY <1>1, <2>1, Emptied, GoesOn
<1>5. CASE AnswerSent
  <2>1. pc = "answering" /\ Returns(<<>>)
    BY <1>5 DEF AnswerSent, AfterFrame
  <2>. QED  BY <1>1, <2>1, Emptied
<1>. QED  BY <1>2, <1>3, <1>4, <1>5


\* uart_flush_input empties the driver, and on the older bus that is all.
LEMMA FlushStep == ASSUME IInv, FlushInput PROVE IInv'
<1>1. /\ pc = "flush" /\ ring' = <<>> /\ fifo' = <<>> /\ protocol' = protocol
      /\ line' = line /\ events' = events /\ faults' = faults /\ overtaken' = overtaken
      /\ slipped' = slipped
  BY DEF FlushInput, historyVars
<1>2. \/ protocol = "HCP2" /\ pc' = "reset" /\ event' = event /\ rx' = rx /\ missed' = missed
      \/ protocol # "HCP2" /\ pc' = "wait" /\ event' = NoEvent /\ rx' = <<>> /\ missed' = FALSE
  BY DEF FlushInput, Stays, Returns, Goto
<1>3. Len(<<>>) = 0 /\ <<>> \in Seq(Bytes) /\ \A tag : AllOf(<<>>, tag)
  BY NoBytes
<1>4. TypeInv /\ QueueInv /\ PlaceInv /\ NothingLeftBehind /\ OwnInv /\ BreakInv
  BY DEF IInv
<1>5. TypeInv'
  <2>1. Room' = Room /\ Room \in Nat
    BY <1>1, <1>4, RoomIs DEF Room
  <2>2. NoEvent \in Event /\ event' \in Event
    BY <1>2, <1>4 DEF NoEvent, Event, TypeInv, TypeOK
  <2>3. Len(rx') <= Room' /\ Len(fifo') < FullThreshold
    BY <1>1, <1>2, <1>3, <1>4, <2>1, Sizes DEF TypeInv, TypeOK
  <2>4. rx' \in Seq(Bytes) /\ pc' \in {"wait", "reset"} /\ missed' \in BOOLEAN
    BY <1>2, <1>3, <1>4 DEF TypeInv, TypeOK
  <2>. QED  BY <1>1, <1>3, <1>4, <2>2, <2>3, <2>4 DEF TypeInv, TypeOK
<1>6. QueueInv'
  BY <1>1, <1>2, <1>4, Sizes DEF QueueInv, NoEvent
<1>7. PlaceInv'
  BY <1>1, <1>2, <1>4 DEF PlaceInv
<1>8. NothingLeftBehind'
  <2>1. Len(ring') = 0 /\ Cardinality(SpokenOf(events')) \in Nat /\ pc' # "read"
    BY <1>1, <1>2, <1>3, <1>4, QueueIsBounded
  <2>. QED  BY <2>1 DEF NothingLeftBehind, Announced
<1>9. OwnInv'
  BY <1>1, <1>2, <1>3, <1>4 DEF OwnInv
<1>10. BreakInv'
  BY <1>1, <1>2, <1>3, <1>4 DEF BreakInv
<1>. QED  BY <1>5, <1>6, <1>7, <1>8, <1>9, <1>10 DEF IInv

\* The reset of the queue ends what an error began on the newer bus.
LEMMA ResetStep == ASSUME IInv, ResetQueue PROVE IInv'
<1>1. /\ pc = "reset" /\ events' = <<>> /\ protocol' = protocol /\ line' = line
      /\ fifo' = fifo /\ ring' = ring /\ faults' = faults /\ overtaken' = overtaken
      /\ slipped' = slipped
      /\ pc' = "wait" /\ event' = NoEvent /\ rx' = <<>> /\ missed' = FALSE
  BY DEF ResetQueue, Returns, Goto, historyVars
<1>2. /\ Len(<<>>) = 0 /\ <<>> \in Seq(Bytes) /\ <<>> \in Seq(Event)
      /\ \A tag : AllOf(<<>>, tag)
  BY NoBytes
<1>3. TypeInv /\ QueueInv /\ PlaceInv /\ NothingLeftBehind /\ OwnInv /\ BreakInv
  BY DEF IInv
<1>4. TypeInv'
  <2>1. Room' = Room /\ Room \in Nat
    BY <1>1, <1>3, RoomIs DEF Room
  <2>2. NoEvent \in Event
    BY DEF NoEvent, Event
  <2>3. Len(rx') <= Room' /\ Len(events') <= QueueLength
    BY <1>1, <1>2, <2>1, Sizes
  <2>. QED  BY <1>1, <1>2, <1>3, <2>2, <2>3 DEF TypeInv, TypeOK
<1>5. 1 .. Len(events') = {}
  BY <1>1, <1>2
<1>6. QueueInv'
  BY <1>1, <1>5, Sizes DEF QueueInv, NoEvent
<1>7. PlaceInv'
  BY <1>1 DEF PlaceInv
<1>8. NothingLeftBehind'
  <2>1. protocol = "HCP2" /\ ~slipped => ring = <<>>
    BY <1>1, <1>3 DEF PlaceInv
  <2>2. Cardinality(SpokenOf(events')) = 0 /\ pc' # "read"
    BY <1>1, NothingAnnounced
  <2>. QED  BY <1>1, <1>2, <2>1, <2>2 DEF NothingLeftBehind, Announced
<1>9. OwnInv'
  BY <1>1, <1>2, <1>3 DEF OwnInv
<1>10. BreakInv'
  BY <1>1, <1>2, <1>3, <1>5 DEF BreakInv
<1>. QED  BY <1>4, <1>6, <1>7, <1>8, <1>9, <1>10 DEF IInv

\* The task takes the first event.
LEMMA TakeStep == ASSUME IInv, TakeEvent PROVE IInv'
<1>. DEFINE e == Head(events)
<1>1. /\ pc = "wait" /\ events # <<>> /\ event' = e /\ events' = Tail(events)
      /\ pc' = OnEvent(e.type) /\ protocol' = protocol /\ line' = line /\ fifo' = fifo
      /\ ring' = ring /\ rx' = rx /\ missed' = missed /\ faults' = faults
      /\ overtaken' = overtaken /\ slipped' = slipped
  BY DEF TakeEvent, Goto, historyVars
<1>2. TypeInv /\ QueueInv /\ PlaceInv /\ NothingLeftBehind /\ OwnInv /\ BreakInv
  BY DEF IInv
<1>3. Bounded(events, FullThreshold) /\ FullThreshold \in Nat /\ events \in Seq(Event)
  BY <1>2, QueueIsBounded
<1>4. /\ e \in Event /\ e.size <= FullThreshold /\ e = events[1]
      /\ Len(events) \in Nat \ {0} /\ Len(events') = Len(events) - 1
      /\ \A i \in 1 .. Len(events') : events'[i] = events[i + 1] /\ i + 1 \in 2 .. Len(events)
      /\ Cardinality(SpokenOf(events)) = Cardinality(SpokenOf(events')) + e.size
      /\ Bounded(events', FullThreshold)
  BY <1>1, <1>3, OneEventLess
<1>5. /\ events' \in Seq(Event) /\ Cardinality(SpokenOf(events')) \in Nat
      /\ 1 \in 1 .. Len(events) /\ e.size \in Nat
  BY <1>3, <1>4, SpokenOfIsFinite DEF Bounded, Event
<1>. HIDE DEF e
<1>6. /\ e.type = "data" => pc' = "read"
      /\ e.type = "error" => pc' = "flush"
      /\ e.type \in {"none", "break"} => pc' = "ended"
      /\ e.type \in {"none", "data", "break", "error"}
      /\ pc' \in {"read", "flush", "ended"}
  BY <1>1, <1>4 DEF OnEvent, Event
<1>7. \A i \in 1 .. Len(events') : i + 1 \in 1 .. Len(events) /\ i + 1 # 1
  BY <1>4
<1>8. TypeInv'
  <2>1. Room' = Room
    BY <1>1 DEF Room
  <2>2. Len(events') <= QueueLength
    BY <1>2, <1>4, Sizes DEF TypeInv, TypeOK
  <2>. QED  BY <1>1, <1>2, <1>4, <1>5, <1>6, <2>1, <2>2 DEF TypeInv, TypeOK
<1>9. QueueInv'
  BY <1>1, <1>2, <1>4, <1>7 DEF QueueInv
<1>10. PlaceInv'
  BY <1>1, <1>2, <1>6 DEF PlaceInv
<1>11. NothingLeftBehind'
  <2>1. e.type = "data" \/ e.size = 0
    BY <1>2, <1>4, <1>5 DEF QueueInv
  <2>2. (IF pc' = "read" THEN event'.size ELSE 0) = e.size
    BY <1>1, <1>6, <2>1
  <2>3. Announced' = Cardinality(SpokenOf(events')) + e.size
    BY <2>2 DEF Announced
  <2>4. Announced = Cardinality(SpokenOf(events))
    <3>1. (IF pc = "read" THEN event.size ELSE 0) = 0
      BY <1>1
    <3>2. Cardinality(SpokenOf(events)) \in Nat
      BY <1>4, <1>5
    <3>. QED  BY <3>1, <3>2 DEF Announced
  <2>. QED  BY <1>1, <1>2, <1>4, <2>3, <2>4 DEF NothingLeftBehind
<1>12. OwnInv'
  BY <1>1, <1>2 DEF OwnInv
<1>13. BreakInv'
  <2>. SUFFICES ASSUME protocol = "HCP1" PROVE BreakInv'
    BY <1>1 DEF BreakInv
  <2>1. ~BreakPending' => ~BreakPending
    <3>1. SUFFICES ASSUME ~BreakPending', NEW i \in 1 .. Len(events), events[i].type = "break"
                   PROVE  FALSE
      BY <1>1 DEF BreakPending
    <3>2. e.type # "break"
      BY <1>6, <3>1 DEF BreakPending
    <3>3. i - 1 \in 1 .. Len(events') /\ (i - 1) + 1 = i
      BY <1>4, <3>1, <3>2
    <3>4. events'[i - 1].type = "break"
      BY <1>4, <3>1, <3>3
    <3>. QED  BY <3>1, <3>3, <3>4 DEF BreakPending
  <2>2. ~missed' /\ ~BreakPending' => AllOf(rx', line'.tag)
    BY <1>1, <1>2, <2>1 DEF BreakInv
  <2>3. ASSUME ~overtaken', NEW i \in 1 .. Len(events'), events'[i].type = "break"
        PROVE  FALSE
    BY <1>1, <1>2, <1>4, <1>7, <2>3 DEF BreakInv
  <2>4. ~overtaken' /\ ~missed' => AllOf(rx', Head(rx').of)
    BY <1>1, <1>2 DEF BreakInv
  <2>. QED  BY <2>2, <2>3, <2>4 DEF BreakInv
<1>. QED  BY <1>8, <1>9, <1>10, <1>11, <1>12, <1>13 DEF IInv


\* What a read takes of the ring and what it leaves there.
LEMMA WhatIsRead ==
    ASSUME TypeInv, NEW asked \in Nat
    PROVE  /\ Taken(asked) \in Seq(Bytes) /\ Len(Taken(asked)) \in Nat
           /\ Left(asked) \in Seq(Bytes) /\ Len(Left(asked)) \in Nat /\ Len(ring) \in Nat
           /\ Len(Taken(asked)) <= asked
           /\ Len(Left(asked)) <= Len(ring)
           /\ Len(Left(asked)) = 0 \/ Len(Left(asked)) = Len(ring) - asked
           /\ \A tag : AllOf(ring, tag) => AllOf(Taken(asked), tag) /\ AllOf(Left(asked), tag)
<1>. DEFINE m == Min({asked, Len(ring)})
<1>1. ring \in Seq(Bytes) /\ Len(ring) \in Nat
  BY LenProperties DEF TypeInv, TypeOK
<1>2. /\ m \in Nat /\ m <= asked /\ m <= Len(ring)
      /\ Taken(asked) \in Seq(Bytes) /\ Len(Taken(asked)) = m
      /\ Left(asked) \in Seq(Bytes) /\ Len(Left(asked)) = Len(ring) - m
      /\ \A tag : AllOf(ring, tag) => AllOf(Taken(asked), tag) /\ AllOf(Left(asked), tag)
  BY <1>1, Parts DEF Taken, Left
<1>3. m = asked \/ m = Len(ring)
  BY <1>1, MinOfTwo
<1>. HIDE DEF m
<1>4. Len(Left(asked)) \in Nat /\ Len(Left(asked)) <= Len(ring)
  BY <1>1, <1>2
<1>5. Len(Left(asked)) = 0 \/ Len(Left(asked)) = Len(ring) - asked
  BY <1>1, <1>2, <1>3
<1>. QED  BY <1>1, <1>2, <1>4, <1>5

\* A frame of the newer bus is read, or the first piece of it.
LEMMA ReadFrameStep == ASSUME IInv, ReadFrame PROVE IInv'
<1>. DEFINE asked == Min({event.size, Room})
<1>1. /\ pc = "read" /\ protocol = "HCP2" /\ ring' = Left(asked)
      /\ protocol' = protocol /\ line' = line /\ fifo' = fifo /\ events' = events
      /\ faults' = faults /\ overtaken' = overtaken /\ slipped' = slipped
  BY DEF ReadFrame, historyVars
<1>2. \/ pc' = "wait" /\ event' = NoEvent /\ rx' = <<>> /\ missed' = FALSE
      \/ pc' \in {"more", "address"} /\ event' = event /\ rx' = Taken(asked)
         /\ missed' = missed
  BY DEF ReadFrame, Returns, Goto
<1>3. TypeInv /\ QueueInv /\ PlaceInv /\ NothingLeftBehind /\ OwnInv /\ BreakInv
  BY DEF IInv
<1>4. Len(<<>>) = 0 /\ <<>> \in Seq(Bytes) /\ \A tag : AllOf(<<>>, tag)
  BY NoBytes
<1>5. Room \in Nat /\ FullThreshold \in Nat /\ FullThreshold <= Room /\ Room' = Room
  BY <1>1, <1>3, RoomIs, Sizes DEF Room
<1>6. event.size \in Nat /\ event.size <= FullThreshold /\ event \in Event
  BY <1>3 DEF TypeInv, TypeOK, QueueInv, Event
<1>7. asked \in Nat /\ asked = event.size /\ asked <= Room
  BY <1>5, <1>6, MinOfTwo
<1>. HIDE DEF asked
<1>8. /\ Taken(asked) \in Seq(Bytes) /\ Len(Taken(asked)) \in Nat
      /\ ring' \in Seq(Bytes) /\ Len(ring') \in Nat /\ Len(ring) \in Nat
      /\ Len(Taken(asked)) <= asked
      /\ Len(ring') = 0 \/ Len(ring') = Len(ring) - asked
      /\ \A tag : AllOf(ring, tag) => AllOf(Taken(asked), tag) /\ AllOf(ring', tag)
  BY <1>1, <1>3, <1>7, WhatIsRead
<1>9. rx' \in Seq(Bytes) /\ Len(rx') <= Room
  <2>1. Len(Taken(asked)) <= Room
    BY <1>5, <1>7, <1>8
  <2>2. rx' = <<>> \/ rx' = Taken(asked)
    BY <1>2
  <2>3. CASE rx' = <<>>
    BY <1>4, <1>5, <2>3
  <2>4. CASE rx' = Taken(asked)
    BY <1>8, <2>1, <2>4
  <2>. QED  BY <2>2, <2>3, <2>4
<1>10. TypeInv'
  <2>1. NoEvent \in Event
    BY DEF NoEvent, Event
  <2>2. event' \in Event /\ missed' \in BOOLEAN /\ pc' \in {"wait", "more", "address"}
    BY <1>2, <1>3, <2>1 DEF TypeInv, TypeOK
  <2>. QED  BY <1>1, <1>3, <1>5, <1>8, <1>9, <2>2 DEF TypeInv, TypeOK
<1>11. QueueInv'
  BY <1>1, <1>2, <1>3, Sizes DEF QueueInv, NoEvent
<1>12. PlaceInv'
  BY <1>1, <1>2 DEF PlaceInv
<1>13. NothingLeftBehind'
  <2>1. Cardinality(SpokenOf(events)) \in Nat
    BY <1>3, QueueIsBounded
  <2>2. protocol = "HCP2" /\ ~slipped => Len(ring) <= Cardinality(SpokenOf(events)) + asked
    BY <1>1, <1>3, <1>7, <1>8, <2>1 DEF NothingLeftBehind, Announced
  <2>3. Announced' = Cardinality(SpokenOf(events))
    BY <1>1, <1>2, <2>1 DEF Announced
  <2>4. ~slipped => Len(ring') <= Cardinality(SpokenOf(events))
    BY <1>1, <1>7, <1>8, <2>1, <2>2
  <2>. QED  BY <1>1, <1>8, <2>1, <2>3, <2>4 DEF NothingLeftBehind
<1>14. OwnInv'
  BY <1>1, <1>2, <1>3, <1>4, <1>8 DEF OwnInv
<1>15. BreakInv'
  BY <1>1 DEF BreakInv
<1>. QED  BY <1>10, <1>11, <1>12, <1>13, <1>14, <1>15 DEF IInv

\* The rest of a long frame is read, as far as there is room for it.
LEMMA ReadMoreStep == ASSUME IInv, ReadMore PROVE IInv'
<1>. DEFINE room == Room - Len(rx)
<1>1. /\ pc = "more" /\ pc' \in {"more", "address"}
      /\ rx' = rx \o Taken(room) /\ ring' = Left(room)
      /\ protocol' = protocol /\ line' = line /\ fifo' = fifo /\ events' = events
      /\ event' = event /\ missed' = missed
      /\ faults' = faults /\ overtaken' = overtaken /\ slipped' = slipped
  BY DEF ReadMore, Goto, historyVars
<1>2. TypeInv /\ QueueInv /\ PlaceInv /\ NothingLeftBehind /\ OwnInv /\ BreakInv
  BY DEF IInv
<1>3. /\ Room \in Nat /\ Room' = Room /\ rx \in Seq(Bytes) /\ Len(rx) \in Nat
      /\ Len(rx) <= Room
  BY <1>1, <1>2, RoomIs, LenProperties DEF Room, TypeInv, TypeOK
<1>4. room \in Nat /\ Len(rx) + room = Room
  BY <1>3
<1>. HIDE DEF room
<1>5. /\ Taken(room) \in Seq(Bytes) /\ Len(Taken(room)) \in Nat
      /\ ring' \in Seq(Bytes) /\ Len(ring') \in Nat /\ Len(ring) \in Nat
      /\ Len(Taken(room)) <= room /\ Len(ring') <= Len(ring)
      /\ \A tag : AllOf(ring, tag) => AllOf(Taken(room), tag) /\ AllOf(ring', tag)
  BY <1>1, <1>2, <1>4, WhatIsRead
<1>6. /\ rx' \in Seq(Bytes) /\ Len(rx') = Len(rx) + Len(Taken(room))
      /\ \A tag : AllOf(rx, tag) /\ AllOf(Taken(room), tag) => AllOf(rx', tag)
  BY <1>1, <1>3, <1>5, PutTogether
<1>7. Len(rx') <= Room
  BY <1>3, <1>4, <1>5, <1>6
<1>8. TypeInv'
  BY <1>1, <1>2, <1>3, <1>5, <1>6, <1>7 DEF TypeInv, TypeOK
<1>9. QueueInv'
  BY <1>1, <1>2 DEF QueueInv
<1>10. PlaceInv'
  BY <1>1, <1>2 DEF PlaceInv
<1>11. NothingLeftBehind'
  <2>1. Cardinality(SpokenOf(events)) \in Nat
    BY <1>2, QueueIsBounded
  <2>2. Announced' = Cardinality(SpokenOf(events)) /\ Announced = Cardinality(SpokenOf(events))
    BY <1>1, <2>1 DEF Announced
  <2>. QED  BY <1>1, <1>2, <1>5, <2>1, <2>2 DEF NothingLeftBehind
<1>12. OwnInv'
  BY <1>1, <1>2, <1>5, <1>6 DEF OwnInv
<1>13. BreakInv'
  BY <1>1, <1>2 DEF BreakInv, PlaceInv
<1>. QED  BY <1>8, <1>9, <1>10, <1>11, <1>12, <1>13 DEF IInv


\* Bytes that all belong to one frame belong to the frame of the first.
LEMMA ToItsOwn ==
    ASSUME NEW bytes \in Seq(Bytes), NEW tag, AllOf(bytes, tag)
    PROVE  AllOf(bytes, Head(bytes).of)
<1>1. Len(bytes) \in Nat
  BY LenProperties
<1>2. CASE Len(bytes) = 0
  <2>1. 1 .. Len(bytes) = {}
    BY <1>2
  <2>. QED  BY <2>1 DEF AllOf
<1>3. CASE Len(bytes) # 0
  <2>1. 1 \in 1 .. Len(bytes) /\ Head(bytes) = bytes[1]
    BY <1>1, <1>3
  <2>. QED  BY <2>1 DEF AllOf
<1>. QED  BY <1>2, <1>3

\* A piece is read on the older bus, as far as there is room for it.
LEMMA ReadPieceStep == ASSUME IInv, ReadPiece PROVE IInv'
<1>. DEFINE kept  == IF Len(rx) = Room THEN <<>> ELSE rx
            asked == Min({event.size, Room - Len(kept)})
<1>1. /\ pc = "read" /\ protocol = "HCP1" /\ ring' = Left(asked)
      /\ pc' = "wait" /\ event' = NoEvent /\ rx' = kept \o Taken(asked)
      /\ missed' = (missed /\ rx' # <<>>)
      /\ protocol' = protocol /\ line' = line /\ fifo' = fifo /\ events' = events
      /\ faults' = faults /\ overtaken' = overtaken /\ slipped' = slipped
  BY DEF ReadPiece, Returns, Goto, Asked, historyVars
<1>2. TypeInv /\ QueueInv /\ PlaceInv /\ NothingLeftBehind /\ OwnInv /\ BreakInv
  BY DEF IInv
<1>3. Len(<<>>) = 0 /\ <<>> \in Seq(Bytes) /\ \A tag : AllOf(<<>>, tag)
  BY NoBytes
<1>4. /\ Room \in Nat /\ Room' = Room /\ rx \in Seq(Bytes) /\ Len(rx) \in Nat
      /\ Len(rx) <= Room /\ event.size \in Nat
  BY <1>1, <1>2, RoomIs, LenProperties DEF Room, TypeInv, TypeOK, Event
<1>5. /\ kept \in Seq(Bytes) /\ Len(kept) \in Nat /\ Len(kept) <= Room
      /\ \A tag : AllOf(rx, tag) => AllOf(kept, tag)
  BY <1>3, <1>4
<1>6. Room - Len(kept) \in Nat
  BY <1>4, <1>5
<1>7. asked \in Nat /\ asked <= Room - Len(kept)
  BY <1>4, <1>6, MinOfTwo
<1>. HIDE DEF kept, asked
<1>8. /\ Taken(asked) \in Seq(Bytes) /\ Len(Taken(asked)) \in Nat
      /\ ring' \in Seq(Bytes) /\ Len(Taken(asked)) <= asked
      /\ \A tag : AllOf(ring, tag) => AllOf(Taken(asked), tag) /\ AllOf(ring', tag)
  BY <1>1, <1>2, <1>7, WhatIsRead
<1>9. /\ rx' \in Seq(Bytes) /\ Len(rx') = Len(kept) + Len(Taken(asked))
      /\ \A tag : AllOf(kept, tag) /\ AllOf(Taken(asked), tag) => AllOf(rx', tag)
  BY <1>1, <1>5, <1>8, PutTogether
<1>10. Len(rx') <= Room
  BY <1>4, <1>5, <1>7, <1>8, <1>9
<1>11. TypeInv'
  <2>1. NoEvent \in Event
    BY DEF NoEvent, Event
  <2>2. missed' \in BOOLEAN
    BY <1>1
  <2>. QED  BY <1>1, <1>2, <1>4, <1>8, <1>9, <1>10, <2>1, <2>2 DEF TypeInv, TypeOK
<1>12. QueueInv'
  BY <1>1, <1>2, Sizes DEF QueueInv, NoEvent
<1>13. PlaceInv'
  BY <1>1 DEF PlaceInv
<1>14. NothingLeftBehind'
  BY <1>1 DEF NothingLeftBehind
<1>15. OwnInv'
  BY <1>1, <1>2, <1>8 DEF OwnInv
<1>16. BreakInv'
  <2>1. ~BreakPending' => ~BreakPending
    BY <1>1 DEF BreakPending
  <2>2. ~missed /\ ~BreakPending => AllOf(rx', line.tag)
    BY <1>1, <1>2, <1>5, <1>8, <1>9 DEF BreakInv, OwnInv
  <2>3. rx' = <<>> => \A tag : AllOf(rx', tag)
    BY <1>3
  <2>4. ~missed' => ~missed \/ rx' = <<>>
    BY <1>1
  <2>5. ~missed' /\ ~BreakPending' => AllOf(rx', line'.tag)
    BY <1>1, <2>1, <2>2, <2>3, <2>4
  <2>6. ~overtaken => \A i \in 1 .. Len(events) : events[i].type # "break"
    BY <1>1, <1>2 DEF BreakInv
  <2>7. ~overtaken => ~BreakPending
    BY <1>1, <2>6 DEF BreakPending
  <2>8. AllOf(rx', line.tag) => AllOf(rx', Head(rx').of)
    BY <1>9, ToItsOwn
  <2>9. ~overtaken' /\ ~missed' => AllOf(rx', Head(rx').of)
    BY <1>1, <2>2, <2>3, <2>4, <2>7, <2>8
  <2>10. ~overtaken' =>
            \A i \in 1 .. Len(events') : events'[i].type = "break" => i = 1 /\ pc' = "wait"
    BY <1>1, <2>6
  <2>. QED  BY <2>5, <2>9, <2>10 DEF BreakInv
<1>. QED  BY <1>11, <1>12, <1>13, <1>14, <1>15, <1>16 DEF IInv


\* What is raised beside a break leaves the breaks where they are.
LEMMA OtherThanABreak ==
    ASSUME BreakInv, NEW type \in {"data", "error"},
           \A i \in 1 .. Len(events) : i \in 1 .. Len(events') /\ events'[i] = events[i],
           \A i \in 1 .. Len(events') :
              (i \in 1 .. Len(events) /\ events'[i] = events[i]) \/ events'[i].type = type,
           line'.tag = line.tag, UNCHANGED <<protocol, pc, rx, missed, overtaken>>
    PROVE  BreakInv'
<1>1. /\ protocol' = protocol /\ pc' = pc /\ rx' = rx /\ missed' = missed
      /\ overtaken' = overtaken
  OBVIOUS
<1>2. \A i \in 1 .. Len(events') :
         events'[i].type = "break" => i \in 1 .. Len(events) /\ events[i].type = "break"
  OBVIOUS
<1>3. ~BreakPending' => ~BreakPending
  BY <1>1 DEF BreakPending
<1>. QED  BY <1>1, <1>2, <1>3 DEF BreakInv

\* Bytes of the frame on the line come to the ring and are announced.
LEMMA Announcing ==
    ASSUME IInv, NEW bytes \in Seq(Bytes), Len(bytes) \in 0 .. FullThreshold,
           AllOf(bytes, line.tag), Announce(bytes),
           line' \in Lines, line'.tag = line.tag, faults' \in 0 .. MaxFaults,
           UNCHANGED <<protocol, taskVars, overtaken>>
    PROVE  IInv'
<1>1. /\ protocol' = protocol /\ pc' = pc /\ event' = event /\ rx' = rx /\ missed' = missed
      /\ overtaken' = overtaken /\ ring' = ring \o bytes /\ fifo' = <<>>
      /\ slipped' = (slipped \/ Len(events) = QueueLength \/ pc = "reset")
      /\ Raise("data", Len(bytes))
  BY DEF Announce, taskVars
<1>2. TypeInv /\ QueueInv /\ PlaceInv /\ NothingLeftBehind /\ OwnInv /\ BreakInv
  BY DEF IInv
<1>3. /\ events' \in Seq(Event) /\ Len(events') <= QueueLength /\ Len(events) \in Nat
      /\ Cardinality(SpokenOf(events)) \in Nat
      /\ \A i \in 1 .. Len(events') :
            /\ events'[i].size <= FullThreshold
            /\ events'[i].type = "data" \/ events'[i].size = 0
            /\ (i \in 1 .. Len(events) /\ events'[i] = events[i])
               \/ (i = Len(events) + 1 /\ events'[i].type = "data")
      /\ \A i \in 1 .. Len(events) : i \in 1 .. Len(events') /\ events'[i] = events[i]
      /\ \/ Len(events) = QueueLength /\ events' = events
         \/ /\ Len(events) < QueueLength /\ Len(events') = Len(events) + 1
            /\ Len(events) + 1 \in 1 .. Len(events')
            /\ events'[Len(events) + 1].type = "data"
            /\ Cardinality(SpokenOf(events'))
                   = Cardinality(SpokenOf(events)) + Len(bytes)
  <2>1. "data" \in {"data", "break", "error"}
    OBVIOUS
  <2>. QED  BY <1>1, <1>2, <2>1, Raising
<1>4. ring \in Seq(Bytes) /\ Len(ring) \in Nat /\ Len(bytes) \in Nat /\ FullThreshold \in Nat
  BY <1>2, LenProperties, Sizes DEF TypeInv, TypeOK
<1>5. /\ ring' \in Seq(Bytes) /\ Len(ring') = Len(ring) + Len(bytes)
      /\ \A tag : AllOf(ring, tag) /\ AllOf(bytes, tag) => AllOf(ring', tag)
  BY <1>1, <1>4, PutTogether
<1>6. Len(fifo') = 0 /\ fifo' \in Seq(Bytes) /\ \A tag : AllOf(fifo', tag)
  BY <1>1, NoBytes
<1>7. line.tag \in 0 .. Tags - 1 /\ slipped' \in BOOLEAN
  BY <1>1, <1>2 DEF TypeInv, TypeOK
<1>8. TypeInv'
  <2>1. Room' = Room
    BY <1>1 DEF Room
  <2>2. Len(fifo') < FullThreshold
    BY <1>6, Sizes
  <2>. QED  BY <1>1, <1>2, <1>3, <1>5, <1>6, <1>7, <2>1, <2>2 DEF TypeInv, TypeOK
<1>9. QueueInv'
  BY <1>1, <1>2, <1>3 DEF QueueInv
<1>10. PlaceInv'
  <2>1. pc = "reset" => slipped'
    BY <1>1
  <2>. QED  BY <1>1, <1>2, <2>1 DEF PlaceInv
<1>11. NothingLeftBehind'
  <2>. SUFFICES ASSUME protocol = "HCP2", ~slipped' PROVE ~(Len(ring') > Announced')
    BY <1>1 DEF NothingLeftBehind
  <2>. DEFINE read == IF pc = "read" THEN event.size ELSE 0
  <2>1. read \in Nat
    BY <1>2 DEF TypeInv, TypeOK, Event
  <2>2. ~slipped /\ Len(events) # QueueLength
    BY <1>1
  <2>3. Announced' = Cardinality(SpokenOf(events')) + read
    BY <1>1 DEF Announced
  <2>4. Announced = Cardinality(SpokenOf(events)) + read
    BY DEF Announced
  <2>. HIDE DEF read
  <2>5. Cardinality(SpokenOf(events')) = Cardinality(SpokenOf(events)) + Len(bytes)
    BY <1>3, <2>2
  <2>6. ~(Len(ring) > Announced)
    BY <1>2, <2>2 DEF NothingLeftBehind
  <2>7. ~(Len(ring) > Cardinality(SpokenOf(events)) + read)
    BY <2>4, <2>6
  <2>. QED  BY <1>3, <1>4, <1>5, <2>1, <2>3, <2>5, <2>7
<1>12. OwnInv'
  <2>1. AllOf(ring, line.tag) => AllOf(ring', line'.tag)
    BY <1>5
  <2>2. AllOf(rx, line.tag) => AllOf(rx', line'.tag)
    BY <1>1
  <2>3. AllOf(fifo', line'.tag) /\ (~slipped' => ~slipped)
    BY <1>1, <1>6
  <2>. QED  BY <1>1, <1>2, <2>1, <2>2, <2>3 DEF OwnInv
<1>13. BreakInv'
  <2>1. /\ "data" \in {"data", "error"}
        /\ UNCHANGED <<protocol, pc, rx, missed, overtaken>>
        /\ \A i \in 1 .. Len(events') :
              (i \in 1 .. Len(events) /\ events'[i] = events[i]) \/ events'[i].type = "data"
    BY <1>1, <1>3
  <2>. QED  BY <1>2, <1>3, <2>1, OtherThanABreak
<1>. QED  BY <1>8, <1>9, <1>10, <1>11, <1>12, <1>13 DEF IInv

\* A byte comes to the peripheral, and with it perhaps an announcement.
LEMMA ByteStep == ASSUME IInv, ByteArrives PROVE IInv'
<1>1. /\ line' = [line EXCEPT !.sent = @ + 1] /\ protocol' = protocol
      /\ UNCHANGED taskVars /\ faults' = faults /\ overtaken' = overtaken
  BY DEF ByteArrives
<1>2. TypeInv /\ QueueInv /\ PlaceInv /\ NothingLeftBehind /\ OwnInv /\ BreakInv
  BY DEF IInv
<1>3. /\ line \in Lines /\ fifo \in Seq(Bytes) /\ AllOf(fifo, line.tag)
      /\ Len(fifo) < FullThreshold /\ faults' \in 0 .. MaxFaults
      /\ line.tag \in 0 .. Tags - 1
  BY <1>1, <1>2 DEF TypeInv, TypeOK, OwnInv
<1>4. line' \in Lines /\ line'.tag = line.tag
  BY <1>1, <1>3 DEF Lines
<1>5. NextByte \in Bytes /\ NextByte.of = line.tag
  <2>1. line.sent + 1 \in Nat /\ line.kind.to \in Addressee
    BY <1>3 DEF Lines
  <2>. QED  BY <1>3, <2>1 DEF NextByte, Bytes
<1>6. /\ Append(fifo, NextByte) \in Seq(Bytes) /\ Len(fifo) \in Nat
      /\ Len(Append(fifo, NextByte)) = Len(fifo) + 1
      /\ AllOf(Append(fifo, NextByte), line.tag)
  BY <1>3, <1>5, OneMore
<1>7. CASE Announce(Append(fifo, NextByte))
  <2>1. Len(Append(fifo, NextByte)) \in 0 .. FullThreshold
    BY <1>3, <1>6, Sizes
  <2>2. UNCHANGED <<protocol, taskVars, overtaken>>
    BY <1>1
  <2>. QED  BY <1>3, <1>4, <1>6, <1>7, <2>1, <2>2, Announcing
<1>8. CASE /\ Len(fifo) + 1 # FullThreshold /\ fifo' = Append(fifo, NextByte)
           /\ UNCHANGED <<ring, events, slipped>>
  <2>1. /\ pc' = pc /\ event' = event /\ rx' = rx /\ missed' = missed /\ ring' = ring
        /\ events' = events /\ slipped' = slipped /\ fifo' = Append(fifo, NextByte)
    BY <1>1, <1>8 DEF taskVars
  <2>2. TypeInv'
    <3>1. Room' = Room
      BY <1>1 DEF Room
    <3>2. Len(fifo') < FullThreshold
      BY <1>3, <1>6, <1>8, Sizes
    <3>. QED  BY <1>1, <1>2, <1>3, <1>4, <1>6, <2>1, <3>1, <3>2 DEF TypeInv, TypeOK
  <2>3. QueueInv'
    BY <1>2, <2>1 DEF QueueInv
  <2>4. PlaceInv'
    BY <1>1, <1>2, <2>1 DEF PlaceInv
  <2>5. NothingLeftBehind'
    BY <1>1, <1>2, <2>1 DEF NothingLeftBehind, Announced
  <2>6. OwnInv'
    BY <1>1, <1>2, <1>4, <1>6, <2>1 DEF OwnInv
  <2>7. BreakInv'
    BY <1>1, <1>2, <1>4, <2>1 DEF BreakInv, BreakPending
  <2>. QED  BY <2>2, <2>3, <2>4, <2>5, <2>6, <2>7 DEF IInv
<1>. QED  BY <1>7, <1>8 DEF ByteArrives

\* What is in the peripheral is announced when the line has been quiet.
LEMMA QuietStep == ASSUME IInv, LineFallsQuiet PROVE IInv'
<1>1. /\ Announce(fifo) /\ line' = line /\ UNCHANGED <<protocol, taskVars, overtaken>>
      /\ faults' = (IF Idle THEN faults ELSE faults + 1) /\ (Idle \/ faults < MaxFaults)
  BY DEF LineFallsQuiet
<1>2. TypeInv /\ OwnInv
  BY DEF IInv
<1>3. /\ line \in Lines /\ fifo \in Seq(Bytes) /\ AllOf(fifo, line.tag)
      /\ Len(fifo) < FullThreshold /\ faults \in 0 .. MaxFaults
  BY <1>2 DEF TypeInv, TypeOK, OwnInv
<1>4. Len(fifo) \in 0 .. FullThreshold
  BY <1>3, LenProperties, Sizes
<1>5. faults' \in 0 .. MaxFaults
  BY <1>1, <1>3, Sizes
<1>. QED  BY <1>1, <1>3, <1>4, <1>5, Announcing

\* An error is announced; what was in the peripheral may be lost.
LEMMA ErrorStep == ASSUME IInv, NEW dropped \in BOOLEAN, LineError(dropped) PROVE IInv'
<1>1. /\ faults < MaxFaults /\ faults' = faults + 1 /\ Raise("error", 0)
      /\ fifo' \in {<<>>, fifo} /\ line' = line /\ protocol' = protocol /\ ring' = ring
      /\ pc' = pc /\ event' = event /\ rx' = rx /\ missed' = missed
      /\ overtaken' = overtaken /\ slipped' = slipped
  BY DEF LineError, taskVars
<1>2. TypeInv /\ QueueInv /\ PlaceInv /\ NothingLeftBehind /\ OwnInv /\ BreakInv
  BY DEF IInv
<1>3. /\ events' \in Seq(Event) /\ Len(events') <= QueueLength
      /\ Cardinality(SpokenOf(events)) \in Nat
      /\ \A i \in 1 .. Len(events') :
            /\ events'[i].size <= FullThreshold
            /\ events'[i].type = "data" \/ events'[i].size = 0
            /\ (i \in 1 .. Len(events) /\ events'[i] = events[i])
               \/ (i = Len(events) + 1 /\ events'[i].type = "error")
      /\ \A i \in 1 .. Len(events) : i \in 1 .. Len(events') /\ events'[i] = events[i]
      /\ \/ events' = events
         \/ Cardinality(SpokenOf(events')) = Cardinality(SpokenOf(events)) + 0
  <2>1. "error" \in {"data", "break", "error"} /\ 0 \in 0 .. FullThreshold
    BY Sizes
  <2>. QED  BY <1>1, <1>2, <2>1, Raising
<1>4. /\ fifo' \in Seq(Bytes) /\ Len(fifo') < FullThreshold /\ AllOf(fifo', line.tag)
  <2>1. fifo \in Seq(Bytes) /\ Len(fifo) < FullThreshold /\ AllOf(fifo, line.tag)
    BY <1>2 DEF TypeInv, TypeOK, OwnInv
  <2>2. Len(<<>>) = 0 /\ <<>> \in Seq(Bytes) /\ AllOf(<<>>, line.tag)
    BY NoBytes
  <2>3. CASE fifo' = <<>>
    BY <2>2, <2>3, Sizes
  <2>4. CASE fifo' = fifo
    BY <2>1, <2>4
  <2>. QED  BY <1>1, <2>3, <2>4
<1>5. TypeInv'
  <2>1. Room' = Room
    BY <1>1 DEF Room
  <2>2. faults' \in 0 .. MaxFaults
    BY <1>1, <1>2, Sizes DEF TypeInv, TypeOK
  <2>. QED  BY <1>1, <1>2, <1>3, <1>4, <2>1, <2>2 DEF TypeInv, TypeOK
<1>6. QueueInv'
  BY <1>1, <1>2, <1>3 DEF QueueInv
<1>7. PlaceInv'
  BY <1>1, <1>2 DEF PlaceInv
<1>8. NothingLeftBehind'
  <2>1. Cardinality(SpokenOf(events')) = Cardinality(SpokenOf(events))
    BY <1>3
  <2>2. Announced' = Announced
    BY <1>1, <2>1 DEF Announced
  <2>. QED  BY <1>1, <1>2, <2>2 DEF NothingLeftBehind
<1>9. OwnInv'
  BY <1>1, <1>2, <1>4 DEF OwnInv
<1>10. BreakInv'
  <2>1. /\ "error" \in {"data", "error"}
        /\ UNCHANGED <<protocol, pc, rx, missed, overtaken>> /\ line'.tag = line.tag
        /\ \A i \in 1 .. Len(events') :
              (i \in 1 .. Len(events) /\ events'[i] = events[i]) \/ events'[i].type = "error"
    BY <1>1, <1>3
  <2>. QED  BY <1>2, <1>3, <2>1, OtherThanABreak
<1>. QED  BY <1>5, <1>6, <1>7, <1>8, <1>9, <1>10 DEF IInv


\* The drive begins its next frame.
LEMMA FrameStep ==
    ASSUME IInv, NEW kind \in FrameKinds[protocol], FrameBegins(kind)
    PROVE  IInv'
<1>. DEFINE prompt == pc = "wait" /\ events = <<>>
<1>1. /\ fifo = <<>> /\ fifo' = <<>> /\ (prompt \/ faults < MaxFaults)
      /\ faults' = (IF prompt THEN faults ELSE faults + 1) /\ overtaken' = ~prompt
      /\ line' = [tag |-> (line.tag + 1) % Tags, kind |-> kind, sent |-> 0]
      /\ protocol' = protocol /\ pc' = pc /\ event' = event /\ rx' = rx
      /\ slipped' = slipped
  BY DEF FrameBegins
<1>2. \/ /\ protocol = "HCP1" /\ ring' = <<>> /\ Raise("break", 0)
         /\ missed' = (missed \/ Len(events) = QueueLength)
      \/ protocol # "HCP1" /\ ring' = ring /\ events' = events /\ missed' = missed
  BY DEF FrameBegins
<1>3. TypeInv /\ QueueInv /\ PlaceInv /\ NothingLeftBehind /\ OwnInv /\ BreakInv
  BY DEF IInv
<1>4. Len(<<>>) = 0 /\ <<>> \in Seq(Bytes) /\ \A tag : AllOf(<<>>, tag)
  BY NoBytes
<1>5. line' \in Lines /\ line'.tag \in 0 .. Tags - 1
  <2>1. protocol \in Protocols /\ line.tag \in Nat
    BY <1>3, Sizes DEF TypeInv, TypeOK
  <2>2. (line.tag + 1) % Tags \in 0 .. Tags - 1
    BY <2>1, Sizes
  <2>3. kind \in [to : Addressee, length : Nat]
    BY <2>1, KindsAssumption
  <2>. QED  BY <1>1, <2>2, <2>3 DEF Lines
<1>6. faults' \in 0 .. MaxFaults
  BY <1>1, <1>3, Sizes DEF TypeInv, TypeOK
<1>7. Room' = Room
  BY <1>1 DEF Room
<1>8. CASE protocol # "HCP1"
  <2>1. ring' = ring /\ events' = events /\ missed' = missed
    BY <1>2, <1>8
  <2>2. TypeInv'
    BY <1>1, <1>3, <1>5, <1>6, <1>7, <2>1 DEF TypeInv, TypeOK
  <2>3. QueueInv'
    BY <1>1, <1>3, <2>1 DEF QueueInv
  <2>4. PlaceInv'
    BY <1>1, <1>3, <2>1 DEF PlaceInv
  <2>5. NothingLeftBehind'
    BY <1>1, <1>3, <2>1 DEF NothingLeftBehind, Announced
  <2>6. OwnInv'
    <3>. SUFFICES ASSUME protocol = "HCP2", ~overtaken', ~slipped
                  PROVE  AllOf(ring', line'.tag) /\ AllOf(rx', line'.tag)
      BY <1>1, <1>4, <1>8 DEF OwnInv
    <3>1. pc = "wait" /\ events = <<>>
      BY <1>1
    <3>2. rx = <<>>
      BY <1>3, <3>1 DEF PlaceInv
    <3>3. Announced = 0
      BY <3>1, NothingAnnounced DEF Announced
    <3>4. ring \in Seq(Bytes) /\ Len(ring) \in Nat
      BY <1>3, LenProperties DEF TypeInv, TypeOK
    <3>5. ~(Len(ring) > 0)
      BY <1>3, <3>3 DEF NothingLeftBehind
    <3>6. ring = <<>>
      BY <3>4, <3>5
    <3>. QED  BY <1>1, <1>4, <2>1, <3>2, <3>6
  <2>7. BreakInv'
    BY <1>1, <1>8 DEF BreakInv
  <2>. QED  BY <2>2, <2>3, <2>4, <2>5, <2>6, <2>7 DEF IInv
<1>9. CASE protocol = "HCP1"
  <2>1. ring' = <<>> /\ Raise("break", 0) /\ missed' = (missed \/ Len(events) = QueueLength)
    BY <1>2, <1>9
  <2>2. /\ events' \in Seq(Event) /\ Len(events') <= QueueLength /\ Len(events) \in Nat
        /\ \A i \in 1 .. Len(events') :
              /\ events'[i].size <= FullThreshold
              /\ events'[i].type = "data" \/ events'[i].size = 0
              /\ (i \in 1 .. Len(events) /\ events'[i] = events[i])
                 \/ (i = Len(events) + 1 /\ events'[i].type = "break")
        /\ \/ Len(events) = QueueLength
           \/ /\ Len(events) + 1 \in 1 .. Len(events')
              /\ events'[Len(events) + 1].type = "break"
    <3>1. "break" \in {"data", "break", "error"} /\ 0 \in 0 .. FullThreshold
      BY Sizes
    <3>. QED  BY <1>3, <2>1, <3>1, Raising
  <2>3. TypeInv'
    <3>1. missed' \in BOOLEAN /\ overtaken' \in BOOLEAN /\ Len(fifo') < FullThreshold
      BY <1>1, <1>4, <2>1, Sizes
    <3>. QED  BY <1>1, <1>3, <1>4, <1>5, <1>6, <1>7, <2>1, <2>2, <3>1 DEF TypeInv, TypeOK
  <2>4. QueueInv'
    BY <1>1, <1>3, <2>2 DEF QueueInv
  <2>5. PlaceInv'
    BY <1>1, <1>3, <1>9 DEF PlaceInv
  <2>6. NothingLeftBehind'
    BY <1>1, <1>9 DEF NothingLeftBehind
  <2>7. OwnInv'
    BY <1>1, <1>4, <1>9, <2>1 DEF OwnInv
  <2>8. BreakInv'
    <3>1. ~missed' => BreakPending'
      BY <2>1, <2>2 DEF BreakPending
    <3>2. ASSUME ~overtaken', NEW i \in 1 .. Len(events')
          PROVE  i = 1 /\ pc' = "wait"
      <4>1. pc = "wait" /\ events = <<>> /\ Len(events) = 0
        BY <1>1, <1>4, <3>2
      <4>2. 1 .. Len(events) = {} /\ Len(events) + 1 = 1
        BY <4>1
      <4>. QED  BY <1>1, <2>2, <4>1, <4>2
    <3>3. ASSUME ~overtaken', ~missed'
          PROVE  AllOf(rx', Head(rx').of)
      <4>1. pc = "wait" /\ events = <<>> /\ Len(events) = 0 /\ ~missed
        BY <1>1, <1>4, <2>1, <3>3
      <4>2. 1 .. Len(events) = {}
        BY <4>1
      <4>3. ~BreakPending
        BY <4>1, <4>2 DEF BreakPending
      <4>4. AllOf(rx, line.tag)
        BY <1>3, <1>9, <4>1, <4>3 DEF BreakInv
      <4>5. rx \in Seq(Bytes)
        BY <1>3 DEF TypeInv, TypeOK
      <4>6. AllOf(rx, Head(rx).of)
        BY <4>4, <4>5, ToItsOwn
      <4>. QED  BY <1>1, <4>6
    <3>. QED  BY <3>1, <3>2, <3>3 DEF BreakInv
  <2>. QED  BY <2>3, <2>4, <2>5, <2>6, <2>7, <2>8 DEF IInv
<1>. QED  BY <1>8, <1>9

\* Nothing happens.
LEMMA NothingHappens == ASSUME IInv, UNCHANGED vars PROVE IInv'
<1>1. /\ protocol' = protocol /\ line' = line /\ fifo' = fifo /\ ring' = ring
      /\ events' = events /\ pc' = pc /\ event' = event /\ rx' = rx /\ missed' = missed
      /\ faults' = faults /\ overtaken' = overtaken /\ slipped' = slipped
  BY DEF vars, driverVars, taskVars, historyVars
<1>2. TypeInv /\ QueueInv /\ PlaceInv /\ NothingLeftBehind /\ OwnInv /\ BreakInv
  BY DEF IInv
<1>3. TypeInv'
  <2>1. Room' = Room
    BY <1>1 DEF Room
  <2>. QED  BY <1>1, <1>2, <2>1 DEF TypeInv, TypeOK
<1>4. QueueInv' /\ PlaceInv' /\ OwnInv'
  BY <1>1, <1>2 DEF QueueInv, PlaceInv, OwnInv
<1>5. NothingLeftBehind'
  BY <1>1, <1>2 DEF NothingLeftBehind, Announced
<1>6. BreakInv'
  BY <1>1, <1>2 DEF BreakInv, BreakPending
<1>. QED  BY <1>3, <1>4, <1>5, <1>6 DEF IInv

\* Every step keeps the invariant.
LEMMA InvStep == IInv /\ [Next]_vars => IInv'
<1>. SUFFICES ASSUME IInv, [Next]_vars PROVE IInv'
  OBVIOUS
<1>1. CASE BusTask
  BY <1>1, TakeStep, FlushStep, ResetStep, ReadFrameStep, ReadMoreStep, ReadPieceStep,
     LookingStep DEF BusTask
<1>2. CASE Driver
  BY <1>2, ByteStep, QuietStep, ErrorStep DEF Driver
<1>3. CASE \E kind \in FrameKinds[protocol] : FrameBegins(kind)
  BY <1>3, FrameStep
<1>4. CASE UNCHANGED vars
  BY <1>4, NothingHappens
<1>. QED  BY <1>1, <1>2, <1>3, <1>4 DEF Next

\* The invariant holds always.
LEMMA InvAlways == Spec => []IInv
<1>. QED  BY InvInit, InvStep, PTL DEF Spec

-------------------------------------------------------------------------------
(* What follows.                                                              *)

\* rx_buf_ is never written past its end (uart_read_bytes is asked for what there
\* is room for, in poll on either bus), and the rest of the state has its types.
THEOREM TypeCorrect == Spec => []TypeOK
<1>1. IInv => TypeOK
  BY DEF IInv, TypeInv
<1>. QED  BY <1>1, InvAlways, PTL

\* On the newer bus no byte stays in the ring that no event speaks of: each read of
\* poll takes as many as its event announced, and an error empties all of it.
THEOREM NothingLeftBehindAlways == Spec => []NothingLeftBehind
<1>1. IInv => NothingLeftBehind
  BY DEF IInv
<1>. QED  BY <1>1, InvAlways, PTL

\* As long as the drive does not run ahead, the newer bus answers the frame sent
\* last and the older one hands over no frame put together out of two.
THEOREM FramesStayApartAlways == Spec => []FramesStayApart
<1>1. IInv => FramesStayApart
  <2>. SUFFICES ASSUME IInv PROVE FramesStayApart
    OBVIOUS
  <2>1. TypeInv /\ PlaceInv /\ OwnInv /\ BreakInv
    BY DEF IInv
  <2>2. rx \in Seq(Bytes) /\ Len(rx) \in Nat /\ DOMAIN rx = 1 .. Len(rx)
    BY <2>1, LenProperties DEF TypeInv, TypeOK
  <2>3. ASSUME pc = "answering", protocol = "HCP2", ~slipped, ~overtaken
        PROVE  Head(rx).of = line.tag
    <3>1. rx # <<>> /\ AllOf(rx, line.tag)
      BY <2>1, <2>3 DEF PlaceInv, OwnInv
    <3>2. 1 \in 1 .. Len(rx) /\ Head(rx) = rx[1]
      BY <2>2, <3>1
    <3>. QED  BY <3>1, <3>2 DEF AllOf
  <2>4. ASSUME protocol = "HCP1", ~overtaken, ~missed
        PROVE  \A i \in DOMAIN rx : rx[i].of = Head(rx).of
    BY <2>1, <2>2, <2>4 DEF BreakInv, AllOf
  <2>. QED  BY <2>3, <2>4 DEF FramesStayApart
<1>. QED  BY <1>1, InvAlways, PTL

===============================================================================
