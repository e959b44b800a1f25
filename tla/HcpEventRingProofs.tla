-------------------------- MODULE HcpEventRingProofs --------------------------
(* What holds of the event ring whatever its size, the number of writers and  *)
(* the width of its counters.                                                 *)
EXTENDS HcpEventRing, HcpClockProofs, Sequences, FiniteSetTheorems, TLAPS

\* The sequence numbers.
Seqs == 0 .. SeqMod - 1

\* What the assumptions say of the sizes.
LEMMA Sizes ==
    /\ N \in Nat \ {0} /\ N >= 2 /\ SeqMod \in Nat \ {0} /\ MaxOvertaken \in Nat
    /\ 2 * N < SeqMod /\ MaxOvertaken < SeqMod
    /\ MaxOvertaken + N < SeqMod
BY SizesAssumption

-------------------------------------------------------------------------------
(* Positions that wrap.                                                       *)

\* A remainder is known by what it leaves of a whole number of rounds.
LEMMA RemainderIs ==
    ASSUME NEW M \in Nat \ {0}, NEW a \in Int, NEW k \in Int, NEW s \in 0 .. M - 1,
           a = M * k + s
    PROVE  a % M = s
<1>. DEFINE q == a \div M
            r == a % M
<1>1. q \in Int /\ r \in 0 .. M - 1 /\ a = M * q + r
  OBVIOUS
<1>. HIDE DEF q, r
<1>2. M * (q - k) = M * q - M * k
  BY <1>1
<1>3. M * (q - k) = s - r
  BY <1>1, <1>2
<1>4. q - k \in Int /\ s - r \in Int /\ -M < s - r /\ s - r < M
  BY <1>1
<1>5. q - k \in {0, 1}
  <2>. DEFINE d == q - k
              e == s - r
  <2>1. d \in Int /\ e \in Int /\ M * d = e /\ -M < e /\ e < 2 * M
    BY <1>3, <1>4
  <2>2. d \in {0, 1}
    <3>. HIDE DEF d, e
    <3>. QED  BY <2>1, NoneOrOneRound
  <2>. QED  BY <2>2
<1>6. q - k # 1
  BY <1>3, <1>4
<1>. QED  BY <1>1, <1>3, <1>5, <1>6 DEF r

\* A position is a number of rounds and what it then reads, below zero too.
LEMMA ReadingOfInt ==
    ASSUME NEW M \in Nat \ {0}, NEW a \in Int
    PROVE  a % M \in 0 .. M - 1 /\ a \div M \in Int /\ a = M * (a \div M) + (a % M)
OBVIOUS

\* Rounds more or less do not change what is read.
LEMMA RoundsDoNotCount ==
    ASSUME NEW M \in Nat \ {0}, NEW a \in Int, NEW b \in Int, NEW k \in Int, a = b + M * k
    PROVE  a % M = b % M
<1>. DEFINE q == b \div M
            s == b % M
<1>1. q \in Int /\ s \in 0 .. M - 1 /\ b = M * q + s
  BY ReadingOfInt
<1>. HIDE DEF q, s
<1>2. M * (q + k) = M * q + M * k /\ q + k \in Int
  BY <1>1
<1>3. a = M * (q + k) + s
  BY <1>1, <1>2
<1>4. a % M = s
  BY <1>1, <1>2, <1>3, RemainderIs
<1>. QED  BY <1>4 DEF s

\* Two steps on from a position are one step as long as both.
LEMMA PlusPlus ==
    ASSUME NEW r \in Seqs, NEW i \in Nat, NEW j \in Nat
    PROVE  Plus(r, i) \in Seqs /\ Plus(Plus(r, i), j) = Plus(r, i + j)
<1>. DEFINE a == r + i
            k == a \div SeqMod
            s == a % SeqMod
<1>0. a \in Nat
  BY Sizes DEF Seqs
<1>1. k \in Int /\ s \in Seqs /\ a = SeqMod * k + s
  <2>. HIDE DEF a
  <2>. QED  BY <1>0, Sizes, ReadingOfInt DEF Seqs
<1>2. Plus(r, i) = s
  BY DEF Plus
<1>. HIDE DEF a, k, s
<1>3. (a + j) % SeqMod = (s + j) % SeqMod
  <2>1. a + j = (s + j) + SeqMod * k /\ a + j \in Int /\ s + j \in Int
    BY <1>0, <1>1, Sizes DEF Seqs
  <2>. QED  BY <1>1, <2>1, Sizes, RoundsDoNotCount
<1>4. a + j = r + (i + j)
  BY DEF a, Seqs
<1>. QED  BY <1>1, <1>2, <1>3, <1>4 DEF Plus

\* No step leaves a position as it is.
LEMMA PlusNothing ==
    ASSUME NEW r \in Seqs
    PROVE  Plus(r, 0) = r
BY Sizes DEF Seqs, Plus

\* Any position is reached from any other by the unsigned difference.
LEMMA PlusDifference ==
    ASSUME NEW r \in Seqs, NEW w \in Seqs
    PROVE  (w - r) % SeqMod \in 0 .. SeqMod - 1 /\ Plus(r, (w - r) % SeqMod) = w
<1>. DEFINE a == w - r
            k == a \div SeqMod
            s == a % SeqMod
<1>1. k \in Int /\ s \in Seqs /\ a = SeqMod * k + s /\ a \in Int
  BY Sizes, ReadingOfInt DEF Seqs
<1>. HIDE DEF k, s
<1>2. r + s = w + SeqMod * (-k)
  BY <1>1, Sizes DEF Seqs
<1>3. (r + s) % SeqMod = w % SeqMod
  <2>1. r + s \in Int /\ w \in Int /\ -k \in Int
    BY <1>1, Sizes DEF Seqs
  <2>. QED  BY <1>2, <2>1, Sizes, RoundsDoNotCount
<1>4. w % SeqMod = w
  BY Sizes DEF Seqs
<1>. QED  BY <1>1, <1>3, <1>4 DEF Plus, s, Seqs

\* Within a round, different steps lead to different positions.
LEMMA PlusDiffers ==
    ASSUME NEW r \in Seqs, NEW i \in 0 .. SeqMod - 1, NEW j \in 0 .. SeqMod - 1,
           Plus(r, i) = Plus(r, j)
    PROVE  i = j
<1>. DEFINE s == Plus(r, i)
            k == (r + i) \div SeqMod
            l == (r + j) \div SeqMod
<1>0. r + i \in Int /\ r + j \in Int
  BY Sizes DEF Seqs
<1>1. k \in Int /\ l \in Int /\ s \in Seqs /\ r + i = SeqMod * k + s /\ r + j = SeqMod * l + s
  <2>1. k \in Int /\ s = (r + i) % SeqMod /\ s \in Seqs /\ r + i = SeqMod * k + ((r + i) % SeqMod)
    BY <1>0, Sizes, ReadingOfInt DEF Seqs, Plus
  <2>2. l \in Int /\ s = (r + j) % SeqMod /\ r + j = SeqMod * l + ((r + j) % SeqMod)
    BY <1>0, Sizes, ReadingOfInt DEF Plus
  <2>. QED  BY <2>1, <2>2
<1>. HIDE DEF k, l, s
<1>2. SeqMod * (k - l) = i - j
  BY <1>1, Sizes DEF Seqs
<1>3. i % SeqMod = j % SeqMod
  <2>1. i = j + SeqMod * (k - l) /\ k - l \in Int /\ i \in Int /\ j \in Int
    BY <1>1, <1>2, Sizes
  <2>. QED  BY <2>1, Sizes, RoundsDoNotCount
<1>. QED  BY <1>3, Sizes

\* The unsigned difference is the number of steps, if that is less than a round.
LEMMA DifferenceIs ==
    ASSUME NEW r \in Seqs, NEW d \in 0 .. SeqMod - 1
    PROVE  (Plus(r, d) - r) % SeqMod = d
<1>. DEFINE w == Plus(r, d)
            e == (w - r) % SeqMod
<1>1. w \in Seqs
  BY PlusPlus
<1>2. e \in 0 .. SeqMod - 1 /\ Plus(r, e) = w
  BY <1>1, PlusDifference
<1>. HIDE DEF e
<1>3. e = d
  BY <1>2, PlusDiffers
<1>. QED  BY <1>3 DEF e

-------------------------------------------------------------------------------
(* Slots.                                                                     *)

\* The slot of a position does not depend on where the count wrapped.
LEMMA SlotOfPlus ==
    ASSUME NEW r \in Seqs, NEW i \in Nat
    PROVE  Slot(Plus(r, i)) = (r + i) % N
<1>. DEFINE c == SeqMod \div N
            k == (r + i) \div SeqMod
            s == Plus(r, i)
<1>1. c \in Int /\ SeqMod = N * c
  BY SizesAssumption, Sizes, ReadingOfInt
<1>2. k \in Int /\ s \in Seqs /\ r + i = SeqMod * k + s
  <2>1. r + i \in Int
    BY Sizes DEF Seqs
  <2>. QED  BY <2>1, Sizes, ReadingOfInt DEF Seqs, Plus
<1>. HIDE DEF c, k, s
<1>3. SeqMod * k = N * (c * k) /\ c * k \in Int
  BY <1>1, <1>2, Sizes
<1>4. (r + i) % N = s % N
  <2>1. r + i = s + N * (c * k) /\ r + i \in Int /\ s \in Int
    BY <1>2, <1>3, Sizes DEF Seqs
  <2>. QED  BY <1>3, <2>1, Sizes, RoundsDoNotCount
<1>. QED  BY <1>4 DEF s, Slot

\* Places less than a ring apart have slots of their own.
LEMMA SlotsDiffer ==
    ASSUME NEW r \in Seqs, NEW i \in 0 .. N - 1, NEW j \in 0 .. N - 1,
           Slot(Plus(r, i)) = Slot(Plus(r, j))
    PROVE  i = j
<1>. DEFINE s == (r + i) % N
            k == (r + i) \div N
            l == (r + j) \div N
<1>0. (r + j) % N = s
  BY SlotOfPlus, Sizes
<1>1. k \in Int /\ l \in Int /\ s \in 0 .. N - 1 /\ r + i = N * k + s /\ r + j = N * l + s
  <2>1. r + i \in Int /\ r + j \in Int
    BY Sizes DEF Seqs
  <2>2. k \in Int /\ s \in 0 .. N - 1 /\ r + i = N * k + s
    BY <2>1, Sizes, ReadingOfInt
  <2>3. l \in Int /\ r + j = N * l + ((r + j) % N)
    BY <2>1, Sizes, ReadingOfInt
  <2>. QED  BY <1>0, <2>2, <2>3
<1>. HIDE DEF k, l, s
<1>2. N * (k - l) = i - j
  BY <1>1, Sizes DEF Seqs
<1>3. i % N = j % N
  <2>1. i = j + N * (k - l) /\ k - l \in Int /\ i \in Int /\ j \in Int
    BY <1>1, <1>2, Sizes
  <2>. QED  BY <2>1, Sizes, RoundsDoNotCount
<1>. QED  BY <1>3, Sizes

\* A ring further on is the same slot.
LEMMA SlotComesRound ==
    ASSUME NEW r \in Seqs
    PROVE  Slot(r) \in 0 .. N - 1 /\ Slot(Plus(r, N)) = Slot(r)
<1>1. Slot(Plus(r, N)) = (r + N) % N
  BY SlotOfPlus, Sizes
<1>2. (r + N) % N = r % N
  <2>1. r + N = r + N * 1 /\ r + N \in Int /\ r \in Int /\ 1 \in Int
    BY Sizes DEF Seqs
  <2>. QED  BY <2>1, Sizes, RoundsDoNotCount
<1>. QED  BY <1>1, <1>2, Sizes, ReadingOfInt DEF Slot, Seqs

\* From any position on, each slot is found within a ring.
LEMMA EverySlotIsInTheWindow ==
    ASSUME NEW r \in Seqs, NEW p \in Seqs
    PROVE  \E k \in 0 .. N - 1 : Slot(Plus(r, k)) = Slot(p)
<1>. DEFINE k == (p - r) % N
            q == (p - r) \div N
<1>1. k \in 0 .. N - 1 /\ q \in Int /\ p - r = N * q + k
  BY Sizes, ReadingOfInt DEF Seqs
<1>. HIDE DEF k, q
<1>2. r + k = p + N * (-q)
  BY <1>1, Sizes DEF Seqs
<1>3. (r + k) % N = p % N
  <2>1. r + k \in Int /\ p \in Int /\ -q \in Int
    BY <1>1, Sizes DEF Seqs
  <2>. QED  BY <1>2, <2>1, Sizes, RoundsDoNotCount
<1>4. Slot(Plus(r, k)) = Slot(p)
  BY <1>1, <1>3, SlotOfPlus DEF Slot
<1>. QED  BY <1>1, <1>4

\* A signed difference of nothing is equality.
LEMMA SignedIsZero ==
    ASSUME NEW a \in Seqs, NEW b \in Seqs, Signed(a, b) = 0
    PROVE  a = b
<1>. DEFINE d == (a - b) % SeqMod
<1>1. d \in 0 .. SeqMod - 1 /\ Plus(b, d) = a
  BY PlusDifference
<1>2. Signed(a, b) = IF 2 * d < SeqMod THEN d ELSE d - SeqMod
  BY DEF Signed
<1>. HIDE DEF d
<1>3. d = 0
  BY <1>1, <1>2, Sizes
<1>. QED  BY <1>1, <1>3, PlusNothing

\* A position less than half a round ahead is not behind.
LEMMA SignedAhead ==
    ASSUME NEW b \in Seqs, NEW d \in Nat, 2 * d < SeqMod
    PROVE  Signed(Plus(b, d), b) = d
<1>1. (Plus(b, d) - b) % SeqMod = d
  BY Sizes, DifferenceIs
<1>. QED  BY <1>1 DEF Signed

-------------------------------------------------------------------------------
(* The places from the next one to be read on.                                *)

\* The place k steps further on, and how many are claimed and not freed.
Place(k) == Plus(read, k)
Waiting  == (write - read) % SeqMod

\* A task that has claimed a place has not handed it over.
Owns(t) == pc[t] \in {"fill", "hand"}

\* The types of what the places are counted with, and of what they hold. Only
\* the reader is ever in drain.
PlaceType ==
    /\ seq \in [0 .. N - 1 -> Seqs] /\ write \in Seqs /\ read \in Seqs
    /\ pos \in [Tasks -> Seqs] /\ overtaken \in [Tasks -> 0 .. MaxOvertaken]
    /\ pc \in [Tasks -> {"idle", "load", "look", "claim", "fill", "hand", "lose",
                         "check", "copy", "free", "report"}]
    /\ \A t \in Tasks : pc[t] \in {"check", "copy", "free", "report"} => t = Reader
    /\ dropped \in Nat
    /\ mine \in [Tasks -> Entries \cup {NoEntry}]
    /\ \A t \in Tasks : Pushing(t) => mine[t] \in Entries
    /\ entry \in [0 .. N - 1 -> Entries \cup {NoEntry}]

\* Those that are claimed come first, at most N of them, and are handed over or
\* not; the sequence number of the others says that they are free.
WindowInv ==
    /\ Waiting <= N
    /\ \A k \in 0 .. N - 1 :
          IF k < Waiting THEN seq[Slot(Place(k))] \in {Place(k), Place(k + 1)}
                         ELSE seq[Slot(Place(k))] = Place(k)

\* A place that is claimed and not handed over has one owner.
OwnerInv ==
    \A t \in Tasks : Owns(t) =>
        /\ \E k \in 0 .. Waiting - 1 : pos[t] = Place(k)
        /\ seq[Slot(pos[t])] = pos[t]
        /\ \A u \in Tasks \ {t} : Owns(u) => pos[u] # pos[t]

\* What the reader is at has been handed over, and its copy is what is there.
ReaderInv ==
    /\ pc[Reader] \in {"copy", "free"} => seq[Slot(read)] = Plus(read, 1)
    /\ At(Reader, "free") => out = entry[Slot(read)]

\* A task that goes for a place is no further behind than the others claimed
\* since, and if it is not behind, the place it saw free still is.
ClaimInv ==
    \A t \in Tasks :
        /\ pc[t] \in {"look", "claim"} => (write - pos[t]) % SeqMod <= overtaken[t]
        /\ At(t, "claim") /\ write = pos[t] => Waiting < N

\* The inductive invariant of the ring.
IInv == PlaceType /\ WindowInv /\ OwnerInv /\ ReaderInv /\ ClaimInv

\* The places from the next one to be read on: each is in range, they differ
\* within a round, their slots differ within a ring, the next one to be claimed
\* is the first that does not wait.
LEMMA Places ==
    ASSUME PlaceType
    PROVE  /\ Place(0) = read
           /\ \A k \in Nat : /\ Place(k) \in Seqs /\ Slot(Place(k)) \in 0 .. N - 1
                             /\ Plus(Place(k), 1) = Place(k + 1)
                             /\ Plus(Plus(read, 1), k) = Place(k + 1)
           /\ \A i, j \in 0 .. SeqMod - 1 : Place(i) = Place(j) => i = j
           /\ \A i, j \in 0 .. N - 1 : Slot(Place(i)) = Slot(Place(j)) => i = j
           /\ Slot(Place(N)) = Slot(read)
           /\ Waiting \in 0 .. SeqMod - 1 /\ write = Place(Waiting)
<1>1. read \in Seqs /\ write \in Seqs
  BY DEF PlaceType
<1>2. \A k \in Nat : Place(k) \in Seqs
  BY <1>1, PlusPlus, 0 \in Nat DEF Place
<1>3. \A k \in Nat : Plus(Place(k), 1) = Place(k + 1)
  BY <1>1, PlusPlus, 1 \in Nat DEF Place
<1>4. \A k \in Nat : Plus(Plus(read, 1), k) = Place(k + 1)
  <2>. TAKE k \in Nat
  <2>1. Plus(Plus(read, 1), k) = Plus(read, 1 + k)
    BY <1>1, PlusPlus, 1 \in Nat
  <2>. QED  BY <2>1 DEF Place
<1>5. \A k \in Nat : Slot(Place(k)) \in 0 .. N - 1
  BY <1>2, SlotComesRound
<1>6. \A i, j \in 0 .. SeqMod - 1 : Place(i) = Place(j) => i = j
  BY <1>1, PlusDiffers DEF Place
<1>7. \A i, j \in 0 .. N - 1 : Slot(Place(i)) = Slot(Place(j)) => i = j
  BY <1>1, SlotsDiffer DEF Place
<1>8. Place(0) = read /\ Slot(Place(N)) = Slot(read)
  BY <1>1, PlusNothing, SlotComesRound DEF Place
<1>9. Waiting \in 0 .. SeqMod - 1 /\ write = Place(Waiting)
  BY <1>1, PlusDifference DEF Place, Waiting
<1>. QED  BY <1>2, <1>3, <1>4, <1>5, <1>6, <1>7, <1>8, <1>9

\* The slot of a place that is not handed over belongs to that place alone.
LEMMA OwnSlot ==
    ASSUME IInv, NEW t \in Tasks, Owns(t)
    PROVE  /\ Slot(pos[t]) \in 0 .. N - 1
           /\ \A k \in 0 .. N - 1 :
                 Slot(Place(k)) = Slot(pos[t]) => Place(k) = pos[t] /\ k < Waiting
           /\ \A u \in Tasks \ {t} : Owns(u) => Slot(pos[u]) # Slot(pos[t])
           /\ pc[Reader] \in {"copy", "free"} => Slot(pos[t]) # Slot(read)
<1>. USE Places DEF IInv
<1>1. PICK k \in 0 .. Waiting - 1 : pos[t] = Place(k)
  BY DEF OwnerInv
<1>2. k \in 0 .. N - 1 /\ k < Waiting /\ Waiting \in Nat
  <2>1. Waiting \in Nat /\ Waiting <= N
    BY Sizes DEF WindowInv
  <2>. HIDE Places DEF IInv
  <2>. QED  BY <1>1, <2>1, Sizes
<1>3. \A i \in 0 .. N - 1 : Slot(Place(i)) = Slot(pos[t]) => i = k
  BY <1>1, <1>2
<1>4. ASSUME NEW u \in Tasks \ {t}, Owns(u)
      PROVE  Slot(pos[u]) # Slot(pos[t])
  <2>1. PICK i \in 0 .. Waiting - 1 : pos[u] = Place(i)
    BY <1>4 DEF OwnerInv
  <2>2. i \in 0 .. N - 1
    BY <1>2, <2>1, Sizes DEF WindowInv
  <2>3. pos[u] # pos[t]
    BY <1>4 DEF OwnerInv
  <2>. QED  BY <1>1, <1>3, <2>1, <2>2, <2>3
<1>5. ASSUME pc[Reader] \in {"copy", "free"}
      PROVE  Slot(pos[t]) # Slot(read)
  <2>1. seq[Slot(read)] = Place(1)
    BY <1>5 DEF ReaderInv, Place
  <2>2. seq[Slot(pos[t])] = pos[t]
    BY DEF OwnerInv
  <2>3. CASE Slot(pos[t]) = Slot(read)
    <3>1. k = 0
      BY <1>3, <2>3, Sizes
    <3>2. Place(0) # Place(1)
      BY Sizes
    <3>. QED  BY <1>1, <2>1, <2>2, <2>3, <3>1, <3>2
  <2>. QED  BY <2>3
<1>6. Slot(pos[t]) \in 0 .. N - 1
  BY <1>1, <1>2
<1>. QED  BY <1>1, <1>2, <1>3, <1>4, <1>5, <1>6


-------------------------------------------------------------------------------
(* Every step keeps the invariant.                                            *)

\* An action other than a claim leaves the window of every place as it is, if it
\* moves neither end and hands nothing over.
LEMMA WindowStays ==
    ASSUME WindowInv, UNCHANGED <<seq, write, read>>
    PROVE  WindowInv'
BY DEF WindowInv, Waiting, Place

\* Owners stay owners of their places.
LEMMA OwnersStay ==
    ASSUME OwnerInv, UNCHANGED <<seq, write, read>>,
           \A t \in Tasks : Owns(t)' => Owns(t) /\ pos'[t] = pos[t]
    PROVE  OwnerInv'
<1>. SUFFICES ASSUME NEW t \in Tasks, Owns(t)'
              PROVE  /\ \E k \in 0 .. Waiting' - 1 : pos'[t] = Place(k)'
                     /\ seq'[Slot(pos'[t])] = pos'[t]
                     /\ \A u \in Tasks \ {t} : Owns(u)' => pos'[u] # pos'[t]
  BY DEF OwnerInv
<1>1. Owns(t) /\ pos'[t] = pos[t] /\ Waiting' = Waiting /\ \A k : Place(k)' = Place(k)
  BY DEF Waiting, Place
<1>. QED  BY <1>1 DEF OwnerInv

\* What the reader is at stays what it is.
LEMMA ReaderStays ==
    ASSUME ReaderInv, UNCHANGED <<slotVars, read, out>>,
           pc'[Reader] \in {"copy", "free"} => pc'[Reader] = pc[Reader]
    PROVE  ReaderInv'
BY DEF ReaderInv, At, slotVars

\* Nobody who goes for a place loses ground.
LEMMA ClaimsStay ==
    ASSUME ClaimInv, UNCHANGED <<write, read>>,
           \A t \in Tasks : pc'[t] \in {"look", "claim"} =>
              /\ pc'[t] = pc[t] /\ pos'[t] = pos[t] /\ overtaken'[t] = overtaken[t]
    PROVE  ClaimInv'
BY DEF ClaimInv, At, Waiting

\* Nobody has a place and the reader is at none: the invariant of the start.
LEMMA RingInit ==
    ASSUME Init
    PROVE  IInv
<1>1. PlaceType
  BY Sizes, TasksAssumption DEF Init, PlaceType, Seqs, Pushing
<1>2. Waiting = 0 /\ \A k \in 0 .. N - 1 : Place(k) = k /\ Slot(k) = k
  <2>1. Waiting = 0
    BY Sizes DEF Init, Waiting
  <2>2. ASSUME NEW k \in 0 .. N - 1
        PROVE  Place(k) = k /\ Slot(k) = k
    <3>1. k \in Nat /\ k < SeqMod /\ k < N
      BY Sizes
    <3>2. k % SeqMod = k /\ k % N = k
      BY <3>1, Sizes, WithinARound
    <3>3. 0 + k = k
      BY <3>1
    <3>. QED  BY <3>2, <3>3 DEF Init, Place, Plus, Slot
  <2>. QED  BY <2>1, <2>2
<1>3. WindowInv
  BY <1>2, Sizes DEF WindowInv, Init
<1>4. \A t \in Tasks : pc[t] = "idle"
  BY DEF Init
<1>5. OwnerInv /\ ReaderInv /\ ClaimInv
  BY <1>4, TasksAssumption DEF OwnerInv, ReaderInv, ClaimInv, Owns, At
<1>. QED  BY <1>1, <1>3, <1>5 DEF IInv

\* Every step keeps the types.
LEMMA TypeStep ==
    ASSUME PlaceType, [Next]_vars
    PROVE  PlaceType'
<1>. USE DEF vars, slotVars, taskVars, readVars, At, Goto
<1>. USE TasksAssumption, Sizes
<1>0. \A p \in Seqs : \A k \in Nat : Plus(p, k) \in Seqs
  BY PlusPlus
<1>1. ASSUME NEW t \in Tasks, NEW e \in Entries, Push(t, e)
      PROVE  PlaceType'
  BY <1>1 DEF Push, PlaceType, Pushing
<1>2. ASSUME NEW t \in Tasks, LoadWrite(t)
      PROVE  PlaceType'
  BY <1>2 DEF LoadWrite, PlaceType, Pushing
<1>3. ASSUME NEW t \in Tasks, LookAtSlot(t)
      PROVE  PlaceType'
  <2>1. \E l \in {"claim", "lose", "load"} : pc' = [pc EXCEPT ![t] = l]
    BY <1>3 DEF LookAtSlot
  <2>. QED  BY <1>3, <2>1 DEF LookAtSlot, PlaceType, Pushing
<1>4. ASSUME NEW t \in Tasks, Claim(t)
      PROVE  PlaceType'
  <2>1. write' \in Seqs
    BY <1>0, <1>4 DEF Claim, PlaceType
  <2>2. overtaken' \in [Tasks -> 0 .. MaxOvertaken]
    BY <1>4 DEF Claim, PlaceType
  <2>. QED  BY <1>4, <2>1, <2>2 DEF Claim, PlaceType, Pushing
<1>5. ASSUME NEW t \in Tasks, ClaimFails(t)
      PROVE  PlaceType'
  BY <1>5 DEF ClaimFails, PlaceType, Pushing
<1>6. ASSUME NEW t \in Tasks, Fill(t)
      PROVE  PlaceType'
  <2>1. entry' \in [0 .. N - 1 -> Entries \cup {NoEntry}]
    BY <1>6 DEF Fill, PlaceType
  <2>. QED  BY <1>6, <2>1 DEF Fill, PlaceType, Pushing
<1>7. ASSUME NEW t \in Tasks, HandOver(t)
      PROVE  PlaceType'
  <2>1. seq' \in [0 .. N - 1 -> Seqs]
    BY <1>0, <1>7 DEF HandOver, PlaceType
  <2>2. 0 \in Seqs
    BY DEF Seqs
  <2>. QED  BY <1>7, <2>1, <2>2 DEF HandOver, Returns, PlaceType, Pushing
<1>8. ASSUME NEW t \in Tasks, CountLoss(t)
      PROVE  PlaceType'
  <2>1. 0 \in Seqs
    BY DEF Seqs
  <2>. QED  BY <1>8, <2>1 DEF CountLoss, Returns, PlaceType, Pushing
<1>9. ASSUME DrainEvents
      PROVE  PlaceType'
  BY <1>9 DEF DrainEvents, PlaceType, Pushing
<1>10. ASSUME CheckSlot
       PROVE  PlaceType'
  <2>1. \E l \in {"copy", "report"} : pc' = [pc EXCEPT ![Reader] = l]
    BY <1>10 DEF CheckSlot
  <2>. QED  BY <1>10, <2>1 DEF CheckSlot, PlaceType, Pushing
<1>11. ASSUME CopyEntry
       PROVE  PlaceType'
  BY <1>11 DEF CopyEntry, PlaceType, Pushing
<1>12. ASSUME FreeSlot
       PROVE  PlaceType'
  <2>1. seq' \in [0 .. N - 1 -> Seqs] /\ read' \in Seqs
    BY <1>0, <1>12 DEF FreeSlot, PlaceType
  <2>. QED  BY <1>12, <2>1 DEF FreeSlot, PlaceType, Pushing
<1>13. ASSUME TakeDropped
       PROVE  PlaceType'
  BY <1>13 DEF TakeDropped, PlaceType, Pushing
<1>14. ASSUME UNCHANGED vars
       PROVE  PlaceType'
  BY <1>14 DEF PlaceType, Pushing
<1>. QED  BY <1>1, <1>2, <1>3, <1>4, <1>5, <1>6, <1>7, <1>8, <1>9, <1>10, <1>11, <1>12,
            <1>13, <1>14 DEF Next, PushStep, DrainStep


\* A claim takes the first place that is free, and only the task whose place it
\* is goes on with it.
LEMMA ClaimStep ==
    ASSUME IInv, NEW t \in Tasks, Claim(t)
    PROVE  /\ WindowInv' /\ OwnerInv' /\ ReaderInv' /\ ClaimInv'
           /\ Waiting < N /\ Waiting' = Waiting + 1
<1>. USE DEF IInv
<1>1. /\ pc[t] = "claim" /\ write = pos[t] /\ write' = Plus(write, 1)
      /\ pc' = [pc EXCEPT ![t] = "fill"]
      /\ \A u \in Tasks \ {t} : Pushing(u) => overtaken[u] < MaxOvertaken
      /\ \A u \in Tasks : overtaken'[u] = IF u # t /\ Pushing(u) THEN overtaken[u] + 1
                                                                 ELSE overtaken[u]
      /\ seq' = seq /\ entry' = entry /\ read' = read /\ pos' = pos /\ out' = out
  BY DEF Claim, At, Goto, slotVars, readVars
<1>2. Waiting \in Nat /\ Waiting < N /\ write = Place(Waiting)
  BY <1>1, Places, Sizes DEF ClaimInv, At
<1>3. \A k : Place(k)' = Place(k)
  BY <1>1 DEF Place
<1>4. Waiting' = Waiting + 1
  <2>1. write' = Plus(read, Waiting + 1)
    BY <1>1, <1>2, Places DEF Place
  <2>2. Waiting + 1 \in 0 .. SeqMod - 1 /\ read \in Seqs
    BY <1>2, Sizes DEF PlaceType
  <2>3. (write' - read) % SeqMod = Waiting + 1
    BY <2>1, <2>2, DifferenceIs
  <2>. QED  BY <1>1, <2>3 DEF Waiting
<1>5. WindowInv'
  <2>1. Waiting' <= N
    BY <1>2, <1>4, Sizes
  <2>2. ASSUME NEW k \in 0 .. N - 1
        PROVE  IF k < Waiting' THEN seq'[Slot(Place(k)')] \in {Place(k)', Place(k + 1)'}
                               ELSE seq'[Slot(Place(k)')] = Place(k)'
    <3>1. IF k < Waiting THEN seq[Slot(Place(k))] \in {Place(k), Place(k + 1)}
                         ELSE seq[Slot(Place(k))] = Place(k)
      BY DEF WindowInv
    <3>2. CASE k < Waiting
      BY <1>1, <1>2, <1>3, <1>4, <3>1, <3>2
    <3>3. CASE ~(k < Waiting)
      BY <1>1, <1>3, <3>1, <3>3
    <3>. QED  BY <3>2, <3>3
  <2>. QED  BY <2>1, <2>2 DEF WindowInv
<1>6. OwnerInv'
  <2>1. ASSUME NEW u \in Tasks, Owns(u)
        PROVE  pos[u] # write /\ (\E k \in 0 .. Waiting : pos[u] = Place(k))
    <3>1. PICK k \in 0 .. Waiting - 1 : pos[u] = Place(k)
      BY <2>1 DEF OwnerInv
    <3>2. k \in 0 .. SeqMod - 1 /\ Waiting \in 0 .. SeqMod - 1 /\ k # Waiting /\ k \in 0 .. Waiting
      BY <1>2, <3>1, Sizes
    <3>. QED  BY <1>2, <3>1, <3>2, Places
  <2>2. seq[Slot(write)] = write
    <3>1. Waiting \in 0 .. N - 1 /\ ~(Waiting < Waiting)
      BY <1>2, Sizes
    <3>. QED  BY <1>2, <3>1 DEF WindowInv
  <2>3. \A u \in Tasks \ {t} : Owns(u)' <=> Owns(u)
    BY <1>1 DEF Owns, PlaceType
  <2>4. ASSUME NEW u \in Tasks, Owns(u)'
        PROVE  /\ \E k \in 0 .. Waiting : pos[u] = Place(k)
               /\ seq[Slot(pos[u])] = pos[u]
               /\ \A v \in Tasks \ {u} : Owns(v)' => pos[v] # pos[u]
    <3>1. CASE u = t
      <4>1. Waiting \in 0 .. Waiting
        BY <1>2
      <4>. QED  BY <1>1, <1>2, <2>1, <2>2, <2>3, <3>1, <4>1
    <3>2. CASE u # t
      BY <1>1, <2>1, <2>3, <2>4, <3>2 DEF OwnerInv
    <3>. QED  BY <3>1, <3>2
  <2>5. Waiting' - 1 = Waiting
    BY <1>2, <1>4
  <2>. QED  BY <1>1, <1>3, <2>4, <2>5 DEF OwnerInv
<1>7. ReaderInv'
  <2>1. pc'[Reader] \in {"copy", "free"} => pc'[Reader] = pc[Reader]
    BY <1>1, TasksAssumption DEF PlaceType
  <2>. QED  BY <1>1, <2>1, ReaderStays DEF slotVars
<1>8. ClaimInv'
  <2>1. SUFFICES ASSUME NEW u \in Tasks, pc'[u] \in {"look", "claim"}
                 PROVE  (write' - pos[u]) % SeqMod <= overtaken'[u] /\ write' # pos[u]
    BY <1>1 DEF ClaimInv, At
  <2>2. u # t /\ pc[u] \in {"look", "claim"} /\ Pushing(u)
    BY <1>1, <2>1 DEF PlaceType, Pushing
  <2>. DEFINE g == (write - pos[u]) % SeqMod
  <2>3. overtaken[u] \in 0 .. MaxOvertaken /\ overtaken[u] < MaxOvertaken
        /\ overtaken'[u] = overtaken[u] + 1 /\ pos[u] \in Seqs /\ write \in Seqs
    BY <1>1, <2>2 DEF PlaceType
  <2>4. g <= overtaken[u]
    BY <2>2 DEF ClaimInv
  <2>5. g \in 0 .. SeqMod - 1 /\ Plus(pos[u], g) = write
    BY <2>3, PlusDifference
  <2>. HIDE DEF g
  <2>6. g + 1 \in 0 .. SeqMod - 1 /\ g + 1 <= overtaken'[u] /\ g + 1 # 0 /\ g \in Nat
    BY <2>3, <2>4, <2>5, Sizes
  <2>7. write' = Plus(pos[u], g + 1)
    <3>1. Plus(Plus(pos[u], g), 1) = Plus(pos[u], g + 1)
      BY <2>3, <2>6, PlusPlus, 1 \in Nat
    <3>. QED  BY <1>1, <2>5, <3>1
  <2>8. (write' - pos[u]) % SeqMod = g + 1
    BY <2>3, <2>6, <2>7, DifferenceIs
  <2>9. write' # pos[u]
    <3>1. Plus(pos[u], 0) = pos[u] /\ 0 \in 0 .. SeqMod - 1
      BY <2>3, PlusNothing, Sizes
    <3>. QED  BY <2>3, <2>6, <2>7, <3>1, PlusDiffers
  <2>. QED  BY <2>6, <2>8, <2>9
<1>. QED  BY <1>2, <1>4, <1>5, <1>6, <1>7, <1>8

\* Handing over touches the slot of the task's own place and no other.
LEMMA HandOverStep ==
    ASSUME IInv, NEW t \in Tasks, HandOver(t)
    PROVE  WindowInv' /\ OwnerInv' /\ ReaderInv' /\ ClaimInv'
<1>1. /\ pc[t] = "hand" /\ pc' = [pc EXCEPT ![t] = "idle"]
      /\ pos' = [pos EXCEPT ![t] = 0] /\ overtaken' = [overtaken EXCEPT ![t] = 0]
      /\ seq' = [seq EXCEPT ![Slot(pos[t])] = Plus(pos[t], 1)]
      /\ entry' = entry /\ write' = write /\ read' = read /\ out' = out
  BY DEF HandOver, Returns, At, Goto, readVars
<1>2. Owns(t) /\ PlaceType
  BY <1>1 DEF Owns, IInv
<1>3. \A i \in 0 .. N - 1 : i # Slot(pos[t]) => seq'[i] = seq[i]
  BY <1>1 DEF IInv, PlaceType
<1>4. seq'[Slot(pos[t])] = Plus(pos[t], 1)
  BY <1>1, <1>2, OwnSlot DEF PlaceType
<1>5. Waiting' = Waiting /\ \A k : Place(k)' = Place(k)
  BY <1>1 DEF Waiting, Place
<1>6. WindowInv'
  <2>1. ASSUME NEW k \in 0 .. N - 1
        PROVE  IF k < Waiting THEN seq'[Slot(Place(k))] \in {Place(k), Place(k + 1)}
                              ELSE seq'[Slot(Place(k))] = Place(k)
    <3>1. CASE Slot(Place(k)) = Slot(pos[t])
      <4>1. Place(k) = pos[t] /\ k < Waiting
        BY <1>2, <3>1, OwnSlot
      <4>2. k \in Nat
        BY Sizes
      <4>3. Plus(Place(k), 1) = Place(k + 1)
        BY <1>2, <4>2, Places
      <4>. QED  BY <1>4, <4>1, <4>3
    <3>2. CASE Slot(Place(k)) # Slot(pos[t])
      <4>1. k \in Nat
        BY Sizes
      <4>2. seq'[Slot(Place(k))] = seq[Slot(Place(k))]
        BY <1>2, <1>3, <3>2, <4>1, Places
      <4>. QED  BY <4>2 DEF IInv, WindowInv
    <3>. QED  BY <3>1, <3>2
  <2>. QED  BY <1>5, <2>1 DEF IInv, WindowInv
<1>7. OwnerInv'
  <2>1. ASSUME NEW u \in Tasks, Owns(u)'
        PROVE  /\ u # t /\ Owns(u) /\ pos'[u] = pos[u]
               /\ seq'[Slot(pos[u])] = seq[Slot(pos[u])]
    <3>1. u # t /\ Owns(u) /\ pos'[u] = pos[u]
      BY <1>1, <2>1 DEF Owns, IInv, PlaceType
    <3>2. Slot(pos[u]) # Slot(pos[t]) /\ Slot(pos[u]) \in 0 .. N - 1
      BY <1>2, <3>1, OwnSlot
    <3>. QED  BY <1>3, <3>1, <3>2
  <2>. QED  BY <1>5, <2>1 DEF IInv, OwnerInv
<1>8. ReaderInv'
  <2>1. ASSUME pc'[Reader] \in {"copy", "free"}
        PROVE  pc'[Reader] = pc[Reader] /\ seq'[Slot(read)] = seq[Slot(read)]
    <3>1. pc'[Reader] = pc[Reader]
      BY <1>1, <2>1, TasksAssumption DEF IInv, PlaceType
    <3>2. Slot(pos[t]) # Slot(read) /\ Slot(read) \in 0 .. N - 1
      BY <1>2, <2>1, <3>1, OwnSlot, SlotComesRound DEF PlaceType
    <3>. QED  BY <1>3, <3>1, <3>2
  <2>2. pc'[Reader] = "free" => pc'[Reader] \in {"copy", "free"}
    OBVIOUS
  <2>. QED  BY <1>1, <2>1, <2>2 DEF IInv, ReaderInv, At
<1>9. ClaimInv'
  <2>1. \A u \in Tasks : pc'[u] \in {"look", "claim"} =>
              /\ pc'[u] = pc[u] /\ pos'[u] = pos[u] /\ overtaken'[u] = overtaken[u]
    BY <1>1 DEF IInv, PlaceType
  <2>. QED  BY <1>1, <2>1, ClaimsStay DEF IInv
<1>. QED  BY <1>6, <1>7, <1>8, <1>9


\* Freeing a slot moves the window on by one place: the slot is the last of the
\* new window and free, and the places still waiting are the ones that waited.
LEMMA FreeSlotStep ==
    ASSUME IInv, FreeSlot
    PROVE  /\ WindowInv' /\ OwnerInv' /\ ReaderInv' /\ ClaimInv'
           /\ Waiting >= 1 /\ Waiting' = Waiting - 1
<1>1. /\ pc[Reader] = "free" /\ pc' = [pc EXCEPT ![Reader] = "check"]
      /\ seq' = [seq EXCEPT ![Slot(read)] = Place(N)]
      /\ read' = Plus(read, 1) /\ write' = write /\ entry' = entry
      /\ pos' = pos /\ overtaken' = overtaken
  BY DEF FreeSlot, At, Goto, taskVars, Place
<1>2. PlaceType /\ Waiting \in Nat /\ Waiting <= N /\ Waiting < SeqMod
  BY Places, Sizes DEF IInv, WindowInv
<1>3. seq[Slot(Place(0))] = Place(1) /\ Place(0) # Place(1) /\ Place(0) = read
  BY <1>1, <1>2, Places, Sizes DEF IInv, ReaderInv, Place
<1>4. Waiting >= 1
  <2>1. CASE Waiting = 0
    <3>1. 0 \in 0 .. N - 1 /\ ~(0 < Waiting)
      BY <2>1, Sizes
    <3>. QED  BY <1>3, <3>1 DEF IInv, WindowInv
  <2>. QED  BY <1>2, <2>1
<1>5. \A k \in Nat : Place(k)' = Place(k + 1)
  BY <1>1, <1>2, Places DEF Place
<1>6. Waiting' = Waiting - 1
  <2>1. Waiting - 1 \in Nat /\ Waiting - 1 \in 0 .. SeqMod - 1 /\ (Waiting - 1) + 1 = Waiting
    BY <1>2, <1>4, Sizes
  <2>2. Plus(read', Waiting - 1) = write
    BY <1>1, <1>2, <2>1, Places
  <2>3. read' \in Seqs
    BY <1>1, <1>2, PlusPlus, 1 \in Nat DEF PlaceType
  <2>4. (write - read') % SeqMod = Waiting - 1
    BY <2>1, <2>2, <2>3, DifferenceIs
  <2>. QED  BY <1>1, <2>4 DEF Waiting
<1>7. \A i \in 0 .. N - 1 : i # Slot(read) => seq'[i] = seq[i]
  BY <1>1, <1>2 DEF PlaceType
<1>8. seq'[Slot(read)] = Place(N)
  BY <1>1, <1>2, SlotComesRound DEF PlaceType
<1>9. WindowInv'
  <2>1. ASSUME NEW k \in 0 .. N - 1
        PROVE  IF k < Waiting - 1 THEN seq'[Slot(Place(k + 1))] \in {Place(k + 1), Place(k + 2)}
                                  ELSE seq'[Slot(Place(k + 1))] = Place(k + 1)
    <3>1. CASE k = N - 1
      <4>1. k + 1 = N /\ ~(k < Waiting - 1)
        BY <1>2, <3>1, Sizes
      <4>2. Slot(Place(N)) = Slot(read)
        BY <1>2, Places
      <4>. QED  BY <1>8, <4>1, <4>2
    <3>2. CASE k # N - 1
      <4>1. k + 1 \in 0 .. N - 1 /\ 0 \in 0 .. N - 1 /\ k + 1 # 0 /\ (k + 1) + 1 = k + 2
            /\ (k < Waiting - 1 <=> k + 1 < Waiting) /\ k + 1 \in Nat
        BY <1>2, <3>2, Sizes
      <4>2. Slot(Place(k + 1)) # Slot(read) /\ Slot(Place(k + 1)) \in 0 .. N - 1
        BY <1>2, <4>1, Places
      <4>3. seq'[Slot(Place(k + 1))] = seq[Slot(Place(k + 1))]
        BY <1>7, <4>2
      <4>4. IF k + 1 < Waiting THEN seq[Slot(Place(k + 1))] \in {Place(k + 1), Place((k + 1) + 1)}
                               ELSE seq[Slot(Place(k + 1))] = Place(k + 1)
        BY <4>1 DEF IInv, WindowInv
      <4>. QED  BY <4>1, <4>3, <4>4
    <3>. QED  BY <3>1, <3>2
  <2>2. Waiting' <= N
    BY <1>2, <1>6, Sizes
  <2>3. \A k \in 0 .. N - 1 : Place(k)' = Place(k + 1) /\ Place(k + 1)' = Place(k + 2)
    <3>1. TAKE k \in 0 .. N - 1
    <3>2. k \in Nat /\ k + 1 \in Nat /\ (k + 1) + 1 = k + 2
      BY Sizes
    <3>3. Place(k + 1)' = Place((k + 1) + 1)
      BY <1>5, <3>2
    <3>. QED  BY <1>5, <3>2, <3>3
  <2>. QED  BY <1>6, <2>1, <2>2, <2>3 DEF WindowInv
<1>10. OwnerInv'
  <2>1. ASSUME NEW t \in Tasks, Owns(t)'
        PROVE  /\ Owns(t) /\ seq'[Slot(pos[t])] = seq[Slot(pos[t])]
               /\ \E k \in 0 .. Waiting' - 1 : pos[t] = Place(k)'
    <3>1. Owns(t)
      BY <1>1, <1>2, <2>1 DEF Owns, PlaceType
    <3>2. Slot(pos[t]) # Slot(read) /\ Slot(pos[t]) \in 0 .. N - 1
      BY <1>1, <3>1, OwnSlot
    <3>3. PICK k \in 0 .. Waiting - 1 : pos[t] = Place(k)
      BY <3>1 DEF IInv, OwnerInv
    <3>4. k # 0
      BY <1>3, <3>2, <3>3
    <3>5. k - 1 \in 0 .. Waiting' - 1 /\ k - 1 \in Nat /\ (k - 1) + 1 = k
      BY <1>2, <1>6, <3>3, <3>4
    <3>6. pos[t] = Place(k - 1)'
      BY <1>5, <3>3, <3>5
    <3>. QED  BY <1>7, <3>1, <3>2, <3>5, <3>6
  <2>. QED  BY <1>1, <2>1 DEF IInv, OwnerInv
<1>11. ReaderInv'
  BY <1>1, <1>2, TasksAssumption DEF ReaderInv, PlaceType, At
<1>12. ClaimInv'
  <2>1. \A t \in Tasks : pc'[t] \in {"look", "claim"} => pc'[t] = pc[t]
    BY <1>1, <1>2 DEF PlaceType
  <2>2. Waiting < N => Waiting' < N
    BY <1>2, <1>6, Sizes
  <2>. QED  BY <1>1, <2>1, <2>2 DEF IInv, ClaimInv, At
<1>. QED  BY <1>4, <1>6, <1>9, <1>10, <1>11, <1>12

\* Whoever finds the sequence number of its place in the slot finds it free, if
\* nobody claimed the place in the meantime.
LEMMA LookStep ==
    ASSUME IInv, NEW t \in Tasks, LookAtSlot(t)
    PROVE  WindowInv' /\ OwnerInv' /\ ReaderInv' /\ ClaimInv'
<1>1. PICK l \in {"claim", "lose", "load"} :
            /\ pc[t] = "look" /\ pc' = [pc EXCEPT ![t] = l]
            /\ l = "claim" => Signed(seq[Slot(pos[t])], pos[t]) = 0
  BY DEF LookAtSlot, At, Goto
<1>2. /\ seq' = seq /\ entry' = entry /\ write' = write /\ read' = read /\ out' = out
      /\ pos' = pos /\ overtaken' = overtaken
  BY DEF LookAtSlot, slotVars, readVars, taskVars
<1>3. PlaceType
  BY DEF IInv
<1>4. WindowInv'
  BY <1>2, WindowStays DEF IInv
<1>5. OwnerInv'
  <2>1. \A u \in Tasks : Owns(u)' => Owns(u) /\ pos'[u] = pos[u]
    BY <1>1, <1>2, <1>3 DEF Owns, PlaceType
  <2>. QED  BY <1>2, <2>1, OwnersStay DEF IInv
<1>6. ReaderInv'
  <2>1. pc'[Reader] \in {"copy", "free"} => pc'[Reader] = pc[Reader]
    BY <1>1, <1>3, TasksAssumption DEF PlaceType
  <2>. QED  BY <1>2, <2>1, ReaderStays DEF IInv, slotVars
<1>7. ASSUME l = "claim", write = pos[t]
      PROVE  Waiting < N
  <2>1. pos[t] \in Seqs /\ seq[Slot(pos[t])] \in Seqs
    BY <1>3, SlotComesRound DEF PlaceType
  <2>2. seq[Slot(pos[t])] = pos[t]
    BY <1>1, <1>7, <2>1, SignedIsZero
  <2>3. Waiting \in Nat /\ Waiting <= N /\ write = Place(Waiting)
    BY <1>3, Places, Sizes DEF IInv, WindowInv
  <2>4. CASE Waiting = N
    <3>1. seq[Slot(Place(0))] = Place(N)
      BY <1>3, <1>7, <2>2, <2>3, <2>4, Places
    <3>2. 0 \in 0 .. N - 1 /\ 0 < Waiting
      BY <2>4, Sizes
    <3>3. seq[Slot(Place(0))] \in {Place(0), Place(0 + 1)}
      BY <3>2 DEF IInv, WindowInv
    <3>4. {0, 0 + 1, N} \subseteq 0 .. SeqMod - 1 /\ N # 0 /\ N # 0 + 1
      BY Sizes
    <3>. QED  BY <1>3, <3>1, <3>3, <3>4, Places
  <2>. QED  BY <2>3, <2>4, Sizes
<1>8. ClaimInv'
  <2>1. Waiting' = Waiting
    BY <1>2 DEF Waiting
  <2>2. \A u \in Tasks \ {t} : pc'[u] = pc[u]
    BY <1>1, <1>3 DEF PlaceType
  <2>3. pc'[t] = l /\ pc[t] = "look"
    BY <1>1, <1>3 DEF PlaceType
  <2>. QED  BY <1>2, <1>7, <2>1, <2>2, <2>3 DEF IInv, ClaimInv, At
<1>. QED  BY <1>4, <1>5, <1>6, <1>8


\* A task starts over from the place that is next to be claimed.
LEMMA LoadStep ==
    ASSUME IInv, NEW t \in Tasks, LoadWrite(t) \/ ClaimFails(t)
    PROVE  WindowInv' /\ OwnerInv' /\ ReaderInv' /\ ClaimInv'
<1>1. /\ pc[t] \in {"load", "claim"} /\ pc' = [pc EXCEPT ![t] = "look"]
      /\ pos' = [pos EXCEPT ![t] = write]
      /\ seq' = seq /\ entry' = entry /\ write' = write /\ read' = read /\ out' = out
      /\ overtaken' = overtaken
  BY DEF LoadWrite, ClaimFails, At, Goto, slotVars, readVars
<1>2. PlaceType
  BY DEF IInv
<1>3. WindowInv'
  BY <1>1, WindowStays DEF IInv
<1>4. OwnerInv'
  <2>1. \A u \in Tasks : Owns(u)' => Owns(u) /\ pos'[u] = pos[u]
    BY <1>1, <1>2 DEF Owns, PlaceType
  <2>. QED  BY <1>1, <2>1, OwnersStay DEF IInv
<1>5. ReaderInv'
  <2>1. pc'[Reader] \in {"copy", "free"} => pc'[Reader] = pc[Reader]
    BY <1>1, <1>2, TasksAssumption DEF PlaceType
  <2>. QED  BY <1>1, <2>1, ReaderStays DEF IInv, slotVars
<1>6. ClaimInv'
  <2>1. pos'[t] = write /\ pc'[t] = "look"
    BY <1>1, <1>2 DEF PlaceType
  <2>2. (write - write) % SeqMod = 0
    BY <1>2, Sizes DEF PlaceType, Seqs
  <2>3. 0 <= overtaken[t]
    BY <1>2 DEF PlaceType
  <2>4. \A u \in Tasks \ {t} : pc'[u] = pc[u] /\ pos'[u] = pos[u]
    BY <1>1, <1>2 DEF PlaceType
  <2>. QED  BY <1>1, <2>1, <2>2, <2>3, <2>4 DEF IInv, ClaimInv, At, Waiting
<1>. QED  BY <1>3, <1>4, <1>5, <1>6

\* Filling touches the slot of the task's own place and no other.
LEMMA FillStep ==
    ASSUME IInv, NEW t \in Tasks, Fill(t)
    PROVE  WindowInv' /\ OwnerInv' /\ ReaderInv' /\ ClaimInv'
<1>1. /\ pc[t] = "fill" /\ pc' = [pc EXCEPT ![t] = "hand"]
      /\ entry' = [entry EXCEPT ![Slot(pos[t])] = mine[t]]
      /\ seq' = seq /\ write' = write /\ read' = read /\ out' = out
      /\ pos' = pos /\ overtaken' = overtaken
  BY DEF Fill, At, Goto, readVars, taskVars
<1>2. PlaceType /\ Owns(t)
  BY <1>1 DEF IInv, Owns
<1>3. WindowInv'
  BY <1>1, WindowStays DEF IInv
<1>4. OwnerInv'
  <2>1. \A u \in Tasks : Owns(u)' => Owns(u) /\ pos'[u] = pos[u]
    BY <1>1, <1>2 DEF Owns, PlaceType
  <2>. QED  BY <1>1, <2>1, OwnersStay DEF IInv
<1>5. ReaderInv'
  <2>1. pc'[Reader] \in {"copy", "free"} => pc'[Reader] = pc[Reader]
    BY <1>1, <1>2, TasksAssumption DEF PlaceType
  <2>2. ASSUME pc[Reader] \in {"copy", "free"}
        PROVE  entry'[Slot(read)] = entry[Slot(read)]
    <3>1. Slot(pos[t]) # Slot(read) /\ Slot(read) \in 0 .. N - 1
      BY <1>2, <2>2, OwnSlot, SlotComesRound DEF PlaceType
    <3>. QED  BY <1>1, <1>2, <3>1 DEF PlaceType
  <2>3. pc'[Reader] = "free" => pc'[Reader] \in {"copy", "free"}
    OBVIOUS
  <2>. QED  BY <1>1, <2>1, <2>2, <2>3 DEF IInv, ReaderInv, At
<1>6. ClaimInv'
  <2>1. \A u \in Tasks : pc'[u] \in {"look", "claim"} =>
              /\ pc'[u] = pc[u] /\ pos'[u] = pos[u] /\ overtaken'[u] = overtaken[u]
    BY <1>1, <1>2 DEF PlaceType
  <2>. QED  BY <1>1, <2>1, ClaimsStay DEF IInv
<1>. QED  BY <1>3, <1>4, <1>5, <1>6

\* The reader goes on to copy what is handed over, and nothing else.
LEMMA CheckStep ==
    ASSUME IInv, CheckSlot
    PROVE  WindowInv' /\ OwnerInv' /\ ReaderInv' /\ ClaimInv'
<1>1. PICK l \in {"copy", "report"} :
            /\ pc[Reader] = "check" /\ pc' = [pc EXCEPT ![Reader] = l]
            /\ l = "copy" => HandedOver
  BY DEF CheckSlot, At, Goto
<1>2. /\ seq' = seq /\ entry' = entry /\ write' = write /\ read' = read /\ out' = out
      /\ pos' = pos /\ overtaken' = overtaken
  BY DEF CheckSlot, slotVars, readVars, taskVars
<1>3. PlaceType
  BY DEF IInv
<1>4. WindowInv'
  BY <1>2, WindowStays DEF IInv
<1>5. OwnerInv'
  <2>1. \A u \in Tasks : Owns(u)' => Owns(u) /\ pos'[u] = pos[u]
    BY <1>1, <1>2, <1>3 DEF Owns, PlaceType
  <2>. QED  BY <1>2, <2>1, OwnersStay DEF IInv
<1>6. ReaderInv'
  <2>1. pc'[Reader] = l
    BY <1>1, <1>3, TasksAssumption DEF PlaceType
  <2>2. ASSUME HandedOver
        PROVE  seq[Slot(read)] = Plus(read, 1)
    <3>1. seq[Slot(read)] \in Seqs /\ Plus(read, 1) \in Seqs
      BY <1>3, SlotComesRound, PlusPlus, 1 \in Nat DEF PlaceType
    <3>. QED  BY <2>2, <3>1, SignedIsZero DEF HandedOver
  <2>. QED  BY <1>1, <1>2, <2>1, <2>2 DEF ReaderInv, At
<1>7. ClaimInv'
  <2>1. \A u \in Tasks : pc'[u] \in {"look", "claim"} =>
              /\ pc'[u] = pc[u] /\ pos'[u] = pos[u] /\ overtaken'[u] = overtaken[u]
    BY <1>1, <1>2, <1>3 DEF PlaceType
  <2>. QED  BY <1>2, <2>1, ClaimsStay DEF IInv
<1>. QED  BY <1>4, <1>5, <1>6, <1>7

\* The steps that touch neither the places nor their slots.
LEMMA OtherSteps ==
    ASSUME IInv,
           \/ \E t \in Tasks : CountLoss(t) \/ \E e \in Entries : Push(t, e)
           \/ DrainEvents \/ CopyEntry \/ TakeDropped
           \/ UNCHANGED vars
    PROVE  WindowInv' /\ OwnerInv' /\ ReaderInv' /\ ClaimInv'
<1>. USE DEF vars, slotVars, taskVars, readVars, At, Goto, Returns
<1>0. PlaceType
  BY DEF IInv
<1>1. seq' = seq /\ entry' = entry /\ write' = write /\ read' = read
  BY DEF CountLoss, Push, DrainEvents, CopyEntry, TakeDropped
<1>2. \A t \in Tasks : Owns(t)' => Owns(t) /\ pos'[t] = pos[t]
  BY <1>0 DEF CountLoss, Push, DrainEvents, CopyEntry, TakeDropped, Owns, PlaceType
<1>3. \A t \in Tasks : pc'[t] \in {"look", "claim"} =>
         /\ pc'[t] = pc[t] /\ pos'[t] = pos[t] /\ overtaken'[t] = overtaken[t]
  BY <1>0 DEF CountLoss, Push, DrainEvents, CopyEntry, TakeDropped, PlaceType
<1>4. WindowInv'
  BY <1>1, WindowStays DEF IInv
<1>5. OwnerInv'
  BY <1>1, <1>2, OwnersStay DEF IInv
<1>6. ClaimInv'
  BY <1>1, <1>3, ClaimsStay DEF IInv
<1>7. ReaderInv'
  <2>1. CASE CopyEntry
    BY <1>0, <1>1, <2>1, TasksAssumption DEF CopyEntry, PlaceType, IInv, ReaderInv
  <2>2. CASE ~CopyEntry
    <3>1. out' = out /\ (pc'[Reader] \in {"copy", "free"} => pc'[Reader] = pc[Reader])
      BY <1>0, <2>2, TasksAssumption
         DEF CountLoss, Push, DrainEvents, TakeDropped, PlaceType
    <3>. QED  BY <1>1, <3>1, ReaderStays DEF IInv
  <2>. QED  BY <2>1, <2>2
<1>. QED  BY <1>4, <1>5, <1>6, <1>7

\* Every step keeps the invariant.
LEMMA RingStep ==
    ASSUME IInv, [Next]_vars
    PROVE  IInv'
<1>1. PlaceType'
  BY TypeStep DEF IInv
<1>2. WindowInv' /\ OwnerInv' /\ ReaderInv' /\ ClaimInv'
  BY ClaimStep, HandOverStep, FreeSlotStep, LookStep, LoadStep, FillStep, CheckStep, OtherSteps
     DEF Next, PushStep, DrainStep
<1>. QED  BY <1>1, <1>2 DEF IInv

\* The ring keeps its invariant.
LEMMA RingInvariant == Spec => []IInv
<1>1. Init => IInv
  BY RingInit
<1>2. IInv /\ [Next]_vars => IInv'
  BY RingStep
<1>. QED  BY <1>1, <1>2, PTL DEF Spec

-------------------------------------------------------------------------------
(* What the invariant gives.                                                  *)

\* No entry is torn (NoEntryIsTorn), whatever the size of the ring, the width of
\* its counters and the number of tasks that push (hcp_events.h:72-113): a task
\* fills the slot of a place it alone has claimed, places that are claimed and
\* not freed have slots of their own, and the reader copies only what was handed
\* over.
THEOREM NoEntryIsTornAlways == Spec => []NoEntryIsTorn
<1>1. ASSUME IInv
      PROVE  NoEntryIsTorn
  <2>1. SUFFICES ASSUME NEW t \in Tasks, At(t, "fill")
                 PROVE  /\ \A u \in Tasks \ {t} : At(u, "fill") => Slot(pos[u]) # Slot(pos[t])
                        /\ At(Reader, "copy") => Slot(read) # Slot(pos[t])
    BY DEF NoEntryIsTorn
  <2>2. \A u \in Tasks : At(u, "fill") => Owns(u)
    BY DEF At, Owns
  <2>. QED  BY <1>1, <2>1, <2>2, OwnSlot DEF At
<1>. QED  BY <1>1, RingInvariant, PTL


-------------------------------------------------------------------------------
(* The ring is a queue.                                                       *)

\* A function on 1 .. n is a sequence of length n.
LEMMA LengthIs ==
    ASSUME NEW S, NEW n \in Nat, NEW f \in [1 .. n -> S]
    PROVE  f \in Seq(S) /\ Len(f) = n
OBVIOUS

\* One entry more at the end.
LEMMA AppendIs ==
    ASSUME NEW S, NEW n \in Nat, NEW f \in [1 .. n -> S], NEW g \in [1 .. n + 1 -> S],
           \A i \in 1 .. n : g[i] = f[i]
    PROVE  g = Append(f, g[n + 1])
<1>1. Len(f) = n /\ f \in Seq(S)
  BY LengthIs
<1>2. n + 1 \in Nat /\ n + 1 \in 1 .. n + 1
  OBVIOUS
<1>3. Append(f, g[n + 1]) \in Seq(S) /\ Len(Append(f, g[n + 1])) = n + 1
  BY <1>1, <1>2
<1>4. \A i \in 1 .. n + 1 : Append(f, g[n + 1])[i] = g[i]
  <2>1. TAKE i \in 1 .. n + 1
  <2>2. CASE i = n + 1
    BY <1>1, <2>2
  <2>3. CASE i \in 1 .. n
    BY <1>1, <2>3
  <2>. QED  BY <2>2, <2>3
<1>5. g \in Seq(S) /\ Len(g) = n + 1
  BY <1>2, LengthIs
<1>. QED  BY <1>3, <1>4, <1>5

\* One entry less at the beginning.
LEMMA TailIs ==
    ASSUME NEW S, NEW n \in Nat, NEW f \in [1 .. n + 1 -> S], NEW g \in [1 .. n -> S],
           \A i \in 1 .. n : g[i] = f[i + 1]
    PROVE  f # <<>> /\ Head(f) = f[1] /\ g = Tail(f)
<1>1. n + 1 \in Nat /\ 1 \in 1 .. n + 1
  OBVIOUS
<1>2. Len(f) = n + 1 /\ f \in Seq(S)
  BY <1>1, LengthIs
<1>3. f # <<>> /\ Head(f) = f[1]
  BY <1>2
<1>4. Tail(f) \in Seq(S) /\ Len(Tail(f)) = n /\ \A i \in 1 .. n : Tail(f)[i] = f[i + 1]
  BY <1>2, <1>3
<1>5. g \in Seq(S) /\ Len(g) = n
  BY LengthIs
<1>. QED  BY <1>3, <1>4, <1>5

\* What is or will be in the places that are claimed, in their order.
QueueNow == [i \in 1 .. Waiting |-> Kept(Place(i - 1))]

\* What a place that is being filled will hold.
LEMMA KeptByItsWriter ==
    ASSUME OwnerInv, NEW t \in Tasks, At(t, "fill")
    PROVE  Kept(pos[t]) = mine[t]
<1>1. \A u \in Tasks : At(u, "fill") /\ pos[u] = pos[t] => u = t
  BY DEF OwnerInv, Owns, At
<1>2. (CHOOSE u \in Tasks : At(u, "fill") /\ pos[u] = pos[t]) = t
  BY <1>1
<1>. QED  BY <1>2 DEF Kept

\* What a place that is not being filled holds.
LEMMA KeptInItsSlot ==
    ASSUME NEW p, \A t \in Tasks : ~(At(t, "fill") /\ pos[t] = p)
    PROVE  Kept(p) = entry[Slot(p)]
BY DEF Kept

\* And what a place whose writer has just claimed it will hold.
LEMMA KeptByItsNewWriter ==
    ASSUME OwnerInv', NEW p, NEW t \in Tasks, At(t, "fill")', pos'[t] = p
    PROVE  Kept(p)' = mine'[t]
<1>1. \A u \in Tasks : At(u, "fill")' /\ pos'[u] = p => u = t
  BY DEF OwnerInv, Owns, At
<1>2. (CHOOSE u \in Tasks : At(u, "fill")' /\ pos'[u] = p) = t
  BY <1>1
<1>. QED  BY <1>2 DEF Kept

\* A place keeps what it holds while nobody begins or ends filling it.
LEMMA KeptStays ==
    ASSUME OwnerInv, OwnerInv', NEW p, entry'[Slot(p)] = entry[Slot(p)],
           \A t \in Tasks : (At(t, "fill") /\ pos[t] = p) <=> (At(t, "fill")' /\ pos'[t] = p),
           \A t \in Tasks : At(t, "fill") => mine'[t] = mine[t]
    PROVE  Kept(p)' = Kept(p)
<1>1. CASE \E t \in Tasks : At(t, "fill") /\ pos[t] = p
  <2>1. PICK t \in Tasks : At(t, "fill") /\ pos[t] = p
    BY <1>1
  <2>2. At(t, "fill")' /\ pos'[t] = p /\ mine'[t] = mine[t]
    BY <2>1
  <2>3. Kept(p) = mine[t]
    BY <2>1, KeptByItsWriter
  <2>4. Kept(p)' = mine'[t]
    BY <2>2, KeptByItsNewWriter
  <2>. QED  BY <2>2, <2>3, <2>4
<1>2. CASE ~\E t \in Tasks : At(t, "fill") /\ pos[t] = p
  <2>1. Kept(p) = entry[Slot(p)]
    BY <1>2, KeptInItsSlot
  <2>2. ~\E t \in Tasks : At(t, "fill")' /\ pos'[t] = p
    BY <1>2
  <2>3. Kept(p)' = entry'[Slot(p)]
    BY <2>2 DEF Kept
  <2>. QED  BY <2>1, <2>3
<1>. QED  BY <1>1, <1>2

\* What the places hold is an entry, or nothing.
LEMMA QueueType ==
    ASSUME IInv
    PROVE  QueueNow \in [1 .. Waiting -> Entries \cup {NoEntry}] /\ Waiting \in 0 .. N
<1>1. PlaceType /\ Waiting \in 0 .. N
  BY Places, Sizes DEF IInv, WindowInv
<1>2. ASSUME NEW i \in 1 .. Waiting
      PROVE  Kept(Place(i - 1)) \in Entries \cup {NoEntry}
  <2>1. CASE \E t \in Tasks : At(t, "fill") /\ pos[t] = Place(i - 1)
    <3>1. PICK t \in Tasks : At(t, "fill") /\ pos[t] = Place(i - 1)
      BY <2>1
    <3>. QED  BY <1>1, <3>1, KeptByItsWriter DEF IInv, PlaceType
  <2>2. CASE ~\E t \in Tasks : At(t, "fill") /\ pos[t] = Place(i - 1)
    <3>1. i - 1 \in Nat
      BY <1>1
    <3>2. Slot(Place(i - 1)) \in 0 .. N - 1
      BY <1>1, <3>1, Places
    <3>. QED  BY <1>1, <2>2, <3>2, KeptInItsSlot DEF PlaceType
  <2>. QED  BY <2>1, <2>2
<1>. QED  BY <1>1, <1>2 DEF QueueNow

\* A step that moves neither end of the queue and keeps what its places hold
\* keeps the queue.
LEMMA QueueStays ==
    ASSUME IInv, UNCHANGED <<write, read>>,
           \A k \in 0 .. Waiting - 1 : Kept(Place(k))' = Kept(Place(k))
    PROVE  QueueNow' = QueueNow
<1>1. Waiting' = Waiting /\ Waiting \in Nat
  BY QueueType DEF Waiting
<1>2. \A i \in 1 .. Waiting : i - 1 \in 0 .. Waiting - 1
  BY <1>1
<1>3. \A i \in 1 .. Waiting : Kept(Place(i - 1))' = Kept(Place(i - 1))
  BY <1>2
<1>. QED  BY <1>1, <1>3 DEF QueueNow


\* A task that finds the slot of its place behind has found the ring full. The
\* place it goes for is at most as far behind the next one to be claimed as others
\* have claimed, so it is one of the window, or the first after a full one, or one
\* that has been freed since; and the slot of a freed place is ahead of it.
LEMMA OnlyAFullRingTurnsAway ==
    ASSUME IInv, NEW t \in Tasks, At(t, "look"), Signed(seq[Slot(pos[t])], pos[t]) < 0
    PROVE  Waiting = N
<1>. DEFINE p == pos[t]
            g == (write - p) % SeqMod
            k == (p - read) % SeqMod
<1>1. PlaceType /\ p \in Seqs /\ write \in Seqs /\ read \in Seqs
  BY DEF IInv, PlaceType
<1>2. g <= MaxOvertaken
  <2>1. g <= overtaken[t] /\ overtaken[t] \in 0 .. MaxOvertaken
    BY <1>1 DEF IInv, ClaimInv, At, PlaceType
  <2>2. g \in 0 .. SeqMod - 1
    BY <1>1, PlusDifference
  <2>. HIDE DEF g
  <2>. QED  BY <2>1, <2>2, Sizes
<1>3. g \in 0 .. SeqMod - 1 /\ Plus(p, g) = write
  BY <1>1, PlusDifference
<1>4. k \in 0 .. SeqMod - 1 /\ Place(k) = p
  BY <1>1, PlusDifference DEF Place
<1>5. Waiting \in 0 .. SeqMod - 1 /\ write = Place(Waiting) /\ Waiting <= N
  BY <1>1, Places DEF IInv, WindowInv
<1>6. Signed(seq[Slot(p)], p) < 0
  OBVIOUS
<1>. HIDE DEF p, g, k
<1>7. g \in Nat /\ k \in Nat /\ Waiting \in Nat
  BY <1>3, <1>4, <1>5, Sizes
<1>8. write = Place(k + g)
  BY <1>1, <1>3, <1>4, <1>7, PlusPlus DEF Place
<1>9. 0 \in Int /\ 1 \in Int /\ 2 * 0 < SeqMod /\ 2 * 1 < SeqMod
  BY Sizes
<1>10. \A i \in 0 .. N - 1 : seq[Slot(Place(i))] \in {Place(i), Place(i + 1)}
  BY DEF IInv, WindowInv
<1>11. CASE k + g < SeqMod
  <2>1. k + g = Waiting
    <3>1. k + g \in 0 .. SeqMod - 1
      BY <1>7, <1>11, Sizes
    <3>. QED  BY <1>1, <1>5, <1>8, <3>1, Places
  <2>2. CASE k < N
    <3>1. k \in 0 .. N - 1
      BY <1>7, <2>2, Sizes
    <3>2. Place(k + 1) = Plus(p, 1) /\ p = Plus(p, 0)
      BY <1>1, <1>4, <1>7, Places, PlusNothing
    <3>3. seq[Slot(p)] \in {Plus(p, 0), Plus(p, 1)}
      BY <1>4, <1>10, <3>1, <3>2
    <3>4. Signed(Plus(p, 0), p) = 0 /\ Signed(Plus(p, 1), p) = 1
      BY <1>1, <1>9, SignedAhead, 0 \in Nat, 1 \in Nat
    <3>5. Signed(seq[Slot(p)], p) \in {0, 1}
      BY <3>3, <3>4
    <3>. QED  BY <1>6, <3>5
  <2>3. CASE ~(k < N)
    BY <1>5, <1>7, <2>1, <2>3, Sizes
  <2>. QED  BY <2>2, <2>3
<1>12. CASE ~(k + g < SeqMod)
  <2>. DEFINE j == SeqMod - k
  <2>1. j \in Nat /\ j <= g /\ k + j = SeqMod
    BY <1>4, <1>7, <1>12, Sizes
  <2>. HIDE DEF j
  <2>2. Plus(p, j) = read
    <3>1. Plus(p, j) = Plus(read, SeqMod)
      BY <1>1, <1>4, <1>7, <2>1, PlusPlus DEF Place
    <3>2. (read + SeqMod) % SeqMod = read % SeqMod
      <4>1. read + SeqMod = read + SeqMod * 1 /\ read + SeqMod \in Int /\ read \in Int /\ 1 \in Int
        BY <1>1, Sizes DEF Seqs
      <4>. QED  BY <4>1, Sizes, RoundsDoNotCount
    <3>3. read % SeqMod = read
      BY <1>1, Sizes DEF Seqs
    <3>. QED  BY <3>1, <3>2, <3>3 DEF Plus
  <2>3. PICK i \in 0 .. N - 1 : Slot(Place(i)) = Slot(p)
    BY <1>1, EverySlotIsInTheWindow DEF Place
  <2>4. i \in Nat /\ i + 1 \in Nat /\ j + i \in Nat /\ j + (i + 1) \in Nat
        /\ 2 * (j + i) < SeqMod /\ 2 * (j + (i + 1)) < SeqMod
    BY <1>2, <1>7, <2>1, Sizes, SizesAssumption
  <2>5. Place(i) = Plus(p, j + i) /\ Place(i + 1) = Plus(p, j + (i + 1))
    BY <1>1, <2>1, <2>2, <2>4, PlusPlus DEF Place
  <2>6. Signed(Plus(p, j + i), p) = j + i /\ Signed(Plus(p, j + (i + 1)), p) = j + (i + 1)
    BY <1>1, <2>4, SignedAhead
  <2>7. seq[Slot(p)] \in {Plus(p, j + i), Plus(p, j + (i + 1))}
    BY <1>10, <2>3, <2>5
  <2>8. Signed(seq[Slot(p)], p) \in {j + i, j + (i + 1)}
    BY <2>6, <2>7
  <2>. QED  BY <1>6, <2>4, <2>8
<1>. QED  BY <1>11, <1>12


\* A claim records the entry at the end of the queue.
LEMMA ClaimRecords ==
    ASSUME IInv, IInv', NEW t \in Tasks, Claim(t)
    PROVE  /\ mine[t] \in Entries /\ Len(QueueNow) < N
           /\ QueueNow' = Append(QueueNow, mine[t])
<1>1. /\ pc[t] = "claim" /\ write = pos[t] /\ pc' = [pc EXCEPT ![t] = "fill"]
      /\ entry' = entry /\ read' = read /\ pos' = pos /\ mine' = mine
  BY DEF Claim, At, Goto, slotVars, readVars
<1>2. PlaceType /\ OwnerInv /\ OwnerInv'
  BY DEF IInv
<1>3. mine[t] \in Entries
  BY <1>1, <1>2 DEF PlaceType, Pushing
<1>4. Waiting < N /\ Waiting' = Waiting + 1 /\ Waiting \in Nat /\ Waiting \in 0 .. SeqMod - 1
  BY ClaimStep, QueueType, Places, <1>2
<1>5. write = Place(Waiting) /\ \A k : Place(k)' = Place(k)
  BY <1>1, <1>2, Places DEF Place
<1>6. ASSUME NEW k \in 0 .. Waiting - 1
      PROVE  Kept(Place(k))' = Kept(Place(k))
  <2>1. Place(k) # pos[t]
    <3>1. k \in 0 .. SeqMod - 1 /\ k # Waiting
      BY <1>4, Sizes
    <3>. QED  BY <1>1, <1>2, <1>4, <1>5, <3>1, Places
  <2>2. \A u \in Tasks : (At(u, "fill") /\ pos[u] = Place(k))
                            <=> (At(u, "fill")' /\ pos'[u] = Place(k))
    BY <1>1, <1>2, <2>1 DEF At, PlaceType
  <2>. QED  BY <1>1, <1>2, <1>5, <2>2, KeptStays
<1>7. ASSUME NEW k, k = Waiting
      PROVE  Kept(Place(k))' = mine[t]
  <2>1. At(t, "fill")' /\ pos'[t] = Place(k)
    BY <1>1, <1>2, <1>5, <1>7 DEF At, PlaceType
  <2>. QED  BY <1>1, <1>2, <1>5, <2>1, KeptByItsNewWriter
<1>. DEFINE S == Entries \cup {NoEntry}
            q == QueueNow
            r == QueueNow'
            n == Waiting
<1>8. q \in [1 .. n -> S] /\ n \in Nat
  BY <1>4, QueueType
<1>9. r = [i \in 1 .. n + 1 |-> Kept(Place(i - 1))']
  BY <1>4 DEF QueueNow
<1>10. \A i \in 1 .. n : r[i] = q[i]
  <2>1. TAKE i \in 1 .. n
  <2>2. i - 1 \in 0 .. n - 1 /\ i \in 1 .. n + 1
    BY <1>8
  <2>3. Kept(Place(i - 1))' = Kept(Place(i - 1))
    BY <1>6, <2>2
  <2>. QED  BY <1>9, <2>2, <2>3 DEF QueueNow
<1>11. r[n + 1] = mine[t]
  <2>1. (n + 1) - 1 = Waiting /\ n + 1 \in 1 .. n + 1
    BY <1>8
  <2>. QED  BY <1>7, <1>9, <2>1
<1>12. r \in [1 .. n + 1 -> S]
  <2>1. \A i \in 1 .. n + 1 : r[i] \in S
    <3>1. TAKE i \in 1 .. n + 1
    <3>2. i \in 1 .. n \/ i = n + 1
      BY <1>8
    <3>. QED  BY <1>3, <1>8, <1>10, <1>11, <3>2
  <2>. QED  BY <1>9, <2>1
<1>13. r = Append(q, mine[t]) /\ Len(q) = n
  <2>. HIDE DEF S, q, r, n
  <2>. QED  BY <1>8, <1>10, <1>11, <1>12, AppendIs, LengthIs
<1>. QED  BY <1>3, <1>4, <1>13

\* Filling a place keeps the queue: what was to come is now there.
LEMMA FillKeepsTheQueue ==
    ASSUME IInv, IInv', NEW t \in Tasks, Fill(t)
    PROVE  QueueNow' = QueueNow
<1>1. /\ pc[t] = "fill" /\ pc' = [pc EXCEPT ![t] = "hand"]
      /\ entry' = [entry EXCEPT ![Slot(pos[t])] = mine[t]]
      /\ write' = write /\ read' = read /\ pos' = pos /\ mine' = mine
  BY DEF Fill, At, Goto, readVars, taskVars
<1>2. PlaceType /\ OwnerInv /\ OwnerInv' /\ Owns(t) /\ At(t, "fill")
  BY <1>1 DEF IInv, Owns, At
<1>3. \A k : Place(k)' = Place(k)
  BY <1>1 DEF Place
<1>4. \A u \in Tasks : At(u, "fill")' <=> (At(u, "fill") /\ u # t)
  BY <1>1, <1>2 DEF At, PlaceType
<1>5. ASSUME NEW k \in 0 .. Waiting - 1
      PROVE  Kept(Place(k))' = Kept(Place(k))
  <2>1. Waiting \in 0 .. N
    BY QueueType
  <2>2. k \in 0 .. N - 1
    BY <2>1, Sizes
  <2>3. CASE Place(k) = pos[t]
    <3>1. ~\E u \in Tasks : At(u, "fill")' /\ pos'[u] = Place(k)
      BY <1>1, <1>2, <1>4, <2>3 DEF OwnerInv, Owns, At
    <3>2. Kept(Place(k))' = entry'[Slot(Place(k))]
      BY <1>3, <3>1 DEF Kept
    <3>3. entry'[Slot(pos[t])] = mine[t]
      BY <1>1, <1>2, OwnSlot DEF PlaceType
    <3>4. Kept(Place(k)) = mine[t]
      BY <1>2, <2>3, KeptByItsWriter
    <3>. QED  BY <2>3, <3>2, <3>3, <3>4
  <2>4. CASE Place(k) # pos[t]
    <3>1. Slot(Place(k)) # Slot(pos[t])
      BY <1>2, <2>2, <2>4, OwnSlot
    <3>2. Slot(Place(k)) \in 0 .. N - 1
      <4>1. k \in Nat
        BY <2>2, Sizes
      <4>. QED  BY <1>2, <4>1, Places
    <3>3. entry'[Slot(Place(k))] = entry[Slot(Place(k))]
      BY <1>1, <1>2, <3>1, <3>2 DEF PlaceType
    <3>4. \A u \in Tasks : (At(u, "fill") /\ pos[u] = Place(k))
                              <=> (At(u, "fill")' /\ pos'[u] = Place(k))
      BY <1>1, <1>4, <2>4
    <3>. QED  BY <1>1, <1>2, <1>3, <3>3, <3>4, KeptStays
  <2>. QED  BY <2>3, <2>4
<1>. QED  BY <1>1, <1>5, QueueStays

\* Freeing the slot takes the first of the queue, and that is what was copied.
LEMMA FreeSlotTakes ==
    ASSUME IInv, IInv', FreeSlot
    PROVE  QueueNow # <<>> /\ out = Head(QueueNow) /\ QueueNow' = Tail(QueueNow)
<1>1. /\ pc[Reader] = "free" /\ pc' = [pc EXCEPT ![Reader] = "check"]
      /\ read' = Plus(read, 1) /\ write' = write /\ entry' = entry
      /\ pos' = pos /\ mine' = mine
  BY DEF FreeSlot, At, Goto, taskVars
<1>2. PlaceType /\ OwnerInv /\ OwnerInv' /\ out = entry[Slot(read)]
  BY <1>1 DEF IInv, ReaderInv, At
<1>. DEFINE S == Entries \cup {NoEntry}
            q == QueueNow
            r == QueueNow'
<1>3. PICK n \in Nat : Waiting' = n /\ Waiting = n + 1
  <2>. DEFINE m == Waiting'
  <2>1. Waiting >= 1 /\ m = Waiting - 1 /\ Waiting \in 0 .. N
    BY FreeSlotStep, QueueType
  <2>. HIDE DEF m
  <2>2. m \in Nat /\ Waiting = m + 1
    BY <2>1, Sizes
  <2>. QED  BY <2>2 DEF m
<1>4. \A k \in Nat : Place(k)' = Place(k + 1)
  BY <1>1, <1>2, Places DEF Place
<1>5. \A u \in Tasks : At(u, "fill")' <=> At(u, "fill")
  BY <1>1, <1>2 DEF At, PlaceType
<1>6. \A p : Kept(p)' = Kept(p)
  <2>1. TAKE p
  <2>. QED  BY <1>1, <1>2, <1>5, KeptStays
<1>7. q \in [1 .. n + 1 -> S]
  BY <1>3, QueueType
<1>8. r = [i \in 1 .. n |-> Kept(Place(i - 1))']
  BY <1>3 DEF QueueNow
<1>9. \A i \in 1 .. n : r[i] = q[i + 1]
  <2>1. TAKE i \in 1 .. n
  <2>2. i - 1 \in Nat /\ (i - 1) + 1 = i /\ i + 1 \in 1 .. n + 1 /\ (i + 1) - 1 = i
    BY <1>3
  <2>3. Place(i - 1)' = Place(i)
    BY <1>4, <2>2
  <2>4. Kept(Place(i - 1))' = Kept(Place(i))
    BY <1>6, <2>3
  <2>5. q[i + 1] = Kept(Place(i))
    BY <1>3, <2>2 DEF QueueNow
  <2>. QED  BY <1>8, <2>4, <2>5
<1>10. r \in [1 .. n -> S]
  <2>1. ASSUME NEW i \in 1 .. n
        PROVE  r[i] \in S
    <3>1. i + 1 \in 1 .. n + 1
      BY <1>3
    <3>. QED  BY <1>7, <1>9, <3>1
  <2>. QED  BY <1>8, <2>1
<1>11. q[1] = out
  <2>1. q[1] = Kept(Place(0))
    <3>1. 1 \in 1 .. Waiting /\ 1 - 1 = 0
      BY <1>3
    <3>. QED  BY <3>1 DEF QueueNow
  <2>2. Place(0) = read
    BY <1>2, Places
  <2>3. \A u \in Tasks : ~(At(u, "fill") /\ pos[u] = read)
    BY <1>1, OwnSlot DEF At, Owns
  <2>. QED  BY <1>2, <2>1, <2>2, <2>3, KeptInItsSlot
<1>. HIDE DEF S, q, r
<1>12. q # <<>> /\ Head(q) = q[1] /\ r = Tail(q)
  BY <1>3, <1>7, <1>9, <1>10, TailIs
<1>. QED  BY <1>11, <1>12 DEF q, r

\* The steps by which no entry joins or leaves the queue.
LEMMA OthersKeepTheQueue ==
    ASSUME IInv, IInv',
           \/ \E t \in Tasks : \/ LoadWrite(t) \/ LookAtSlot(t) \/ ClaimFails(t)
                               \/ HandOver(t) \/ CountLoss(t) \/ \E e \in Entries : Push(t, e)
           \/ DrainEvents \/ CheckSlot \/ CopyEntry \/ TakeDropped
           \/ UNCHANGED vars
    PROVE  QueueNow' = QueueNow /\ got' = got
<1>. USE DEF vars, slotVars, taskVars, readVars, At, Goto, Returns
<1>1. PlaceType /\ OwnerInv /\ OwnerInv'
  BY DEF IInv
<1>2. entry' = entry /\ write' = write /\ read' = read /\ got' = got
  BY DEF LoadWrite, LookAtSlot, ClaimFails, HandOver, CountLoss, Push, DrainEvents, CheckSlot,
         CopyEntry, TakeDropped
<1>3. \A u \in Tasks : /\ At(u, "fill")' <=> At(u, "fill")
                       /\ At(u, "fill") => pos'[u] = pos[u] /\ mine'[u] = mine[u]
  BY <1>1, TasksAssumption
     DEF LoadWrite, LookAtSlot, ClaimFails, HandOver, CountLoss, Push, DrainEvents, CheckSlot,
         CopyEntry, TakeDropped, PlaceType
<1>. HIDE DEF At
<1>4. \A p : Kept(p)' = Kept(p)
  <2>1. TAKE p
  <2>. QED  BY <1>1, <1>2, <1>3, KeptStays
<1>5. \A k : Place(k)' = Place(k)
  BY <1>2 DEF Place
<1>. QED  BY <1>2, <1>4, <1>5, QueueStays


\* The tasks that are about to count a loss.
Losing == {t \in Tasks : At(t, "lose")}

\* There are finitely many of them, and their number is the rest of what is unreported.
LEMMA LosingType ==
    /\ IsFiniteSet(Losing) /\ Cardinality(Losing) \in Nat
    /\ Unreported = dropped + Cardinality(Losing)
<1>1. Losing \in SUBSET Tasks
  BY DEF Losing
<1>2. IsFiniteSet(Losing)
  BY <1>1, TasksAssumption, FS_Subset
<1>. QED  BY <1>2, FS_CardinalityType DEF Unreported, Losing

\* Who is turned away counts as a loss from the look on.
LEMMA LossesAreKept ==
    ASSUME PlaceType, NEW t \in Tasks, LookAtSlot(t) \/ CountLoss(t)
    PROVE  \/ Unreported' = Unreported
           \/ LookAtSlot(t) /\ Signed(seq[Slot(pos[t])], pos[t]) < 0 /\ Unreported' = Unreported + 1
<1>. DEFINE n == Cardinality(Losing)
            m == Cardinality(Losing)'
<1>1. n \in Nat /\ IsFiniteSet(Losing) /\ Unreported = dropped + n /\ dropped \in Nat
  BY LosingType DEF PlaceType
<1>2. Unreported' = dropped' + m
  BY DEF Unreported, Losing
<1>3. CASE LookAtSlot(t) /\ pc'[t] = "lose"
  <2>1. /\ pc[t] = "look" /\ pc' = [pc EXCEPT ![t] = "lose"] /\ dropped' = dropped
        /\ Signed(seq[Slot(pos[t])], pos[t]) < 0
    BY <1>3 DEF LookAtSlot, At, Goto, PlaceType
  <2>2. Losing' = Losing \cup {t} /\ t \notin Losing
    BY <2>1 DEF Losing, At, PlaceType
  <2>3. m = n + 1
    BY <1>1, <2>2, FS_AddElement
  <2>. HIDE DEF n, m
  <2>. QED  BY <1>1, <1>2, <1>3, <2>1, <2>3
<1>4. CASE LookAtSlot(t) /\ pc'[t] # "lose"
  <2>1. /\ pc[t] = "look" /\ (\A u \in Tasks \ {t} : pc'[u] = pc[u]) /\ dropped' = dropped
    BY <1>4 DEF LookAtSlot, At, Goto, PlaceType
  <2>2. Losing' = Losing
    BY <1>4, <2>1 DEF Losing, At
  <2>. QED  BY <1>1, <1>2, <2>1, <2>2
<1>5. CASE CountLoss(t)
  <2>1. /\ pc[t] = "lose" /\ pc' = [pc EXCEPT ![t] = "idle"] /\ dropped' = dropped + 1
    BY <1>5 DEF CountLoss, Returns, At, Goto
  <2>2. Losing' = Losing \ {t} /\ t \in Losing
    BY <2>1 DEF Losing, At, PlaceType
  <2>3. m = n - 1
    BY <1>1, <2>2, FS_RemoveElement
  <2>. HIDE DEF n, m
  <2>. QED  BY <1>1, <1>2, <2>1, <2>3
<1>. QED  BY <1>3, <1>4, <1>5

\* Taking the count leaves the losses that are still being counted.
LEMMA LossesAreReported ==
    ASSUME PlaceType, TakeDropped
    PROVE  dropped \in 0 .. Unreported /\ Unreported' = Unreported - dropped
<1>. DEFINE n == Cardinality(Losing)
<1>1. n \in Nat /\ Unreported = dropped + n /\ dropped \in Nat
  BY LosingType DEF PlaceType
<1>2. Losing' = Losing /\ dropped' = 0
  BY TasksAssumption DEF TakeDropped, Losing, At, Goto, PlaceType
<1>3. Unreported' = dropped' + n
  BY <1>2 DEF Unreported, Losing
<1>. HIDE DEF n
<1>. QED  BY <1>1, <1>2, <1>3

\* The other steps leave the count of losses as it is.
LEMMA LossesStay ==
    ASSUME PlaceType,
           \/ \E t \in Tasks : \/ LoadWrite(t) \/ Claim(t) \/ ClaimFails(t) \/ Fill(t)
                               \/ HandOver(t) \/ \E e \in Entries : Push(t, e)
           \/ DrainEvents \/ CheckSlot \/ CopyEntry \/ FreeSlot
           \/ UNCHANGED vars
    PROVE  Unreported' = Unreported
<1>. USE DEF vars, slotVars, taskVars, readVars, At, Goto, Returns
<1>1. dropped' = dropped
  BY DEF LoadWrite, Claim, ClaimFails, Fill, HandOver, Push, DrainEvents, CheckSlot,
         CopyEntry, FreeSlot
<1>2. \A u \in Tasks : pc'[u] = "lose" <=> pc[u] = "lose"
  BY TasksAssumption
     DEF LoadWrite, Claim, ClaimFails, Fill, HandOver, Push, DrainEvents, CheckSlot,
         CopyEntry, FreeSlot, PlaceType
<1>3. Losing' = Losing
  BY <1>2 DEF Losing
<1>. QED  BY <1>1, <1>3 DEF Unreported, Losing

\* The ring is the queue it promises to be (hcp_events.h:8-23, 72-132): each entry
\* joins it where its place is claimed and is handed out once, whole and in that
\* order; only a full ring turns one away; each one turned away is counted. For
\* every size of the ring, any number of writers, and counters that wrap while a
\* writer sleeps, as long as not half a round is claimed in that time.
THEOREM QueueIsImplemented == Spec => ImplementsQueue
<1>. USE DEF Queue!Next, Queue!vars
<1>1. Init => Queue!Init
  <2>1. SUFFICES ASSUME Init
                 PROVE  QueueNow = <<>> /\ Unreported = 0 /\ got = NoEntry
    BY DEF Queue!Init, QueueNow, Waiting, Place
  <2>2. Waiting = 0
    BY <2>1, Sizes DEF Init, Waiting
  <2>3. QueueNow = <<>>
    BY <2>2 DEF QueueNow
  <2>4. Losing = {}
    BY <2>1 DEF Init, Losing, At
  <2>5. Unreported = 0
    BY <2>1, <2>4, FS_EmptySet, LosingType DEF Init
  <2>. QED  BY <2>1, <2>3, <2>5 DEF Init
<1>2. ASSUME IInv, IInv', [Next]_vars
      PROVE  [Queue!Next]_(Queue!vars)
  <2>0. PlaceType
    BY <1>2 DEF IInv
  <2>1. CASE \E t \in Tasks : Claim(t)
    <3>1. PICK t \in Tasks : Claim(t)
      BY <2>1
    <3>2. mine[t] \in Entries /\ Len(QueueNow) < N /\ QueueNow' = Append(QueueNow, mine[t])
      BY <1>2, <3>1, ClaimRecords
    <3>3. Unreported' = Unreported /\ got' = got
      BY <2>0, <3>1, LossesStay DEF Claim, readVars
    <3>4. Queue!Record(mine[t])
      BY <3>2, <3>3 DEF Queue!Record, QueueNow, Waiting, Place
    <3>. QED  BY <3>2, <3>4
  <2>2. CASE \E t \in Tasks : Fill(t)
    <3>1. PICK t \in Tasks : Fill(t)
      BY <2>2
    <3>2. QueueNow' = QueueNow /\ Unreported' = Unreported /\ got' = got
      BY <1>2, <2>0, <3>1, FillKeepsTheQueue, LossesStay DEF Fill, readVars
    <3>. QED  BY <3>2 DEF QueueNow, Waiting, Place
  <2>3. CASE FreeSlot
    <3>1. QueueNow # <<>> /\ out = Head(QueueNow) /\ QueueNow' = Tail(QueueNow)
      BY <1>2, <2>3, FreeSlotTakes
    <3>2. Unreported' = Unreported /\ got' = out
      BY <2>0, <2>3, LossesStay DEF FreeSlot
    <3>3. Queue!Take
      BY <3>1, <3>2 DEF Queue!Take, QueueNow, Waiting, Place
    <3>. QED  BY <3>3
  <2>4. CASE TakeDropped
    <3>1. QueueNow' = QueueNow /\ got' = got
      BY <1>2, <2>4, OthersKeepTheQueue
    <3>2. dropped \in 0 .. Unreported /\ Unreported' = Unreported - dropped
      BY <2>0, <2>4, LossesAreReported
    <3>3. Queue!Report(dropped)
      BY <3>1, <3>2 DEF Queue!Report, QueueNow, Waiting, Place
    <3>. QED  BY <3>2, <3>3
  <2>5. CASE \E t \in Tasks : LookAtSlot(t) \/ CountLoss(t)
    <3>1. PICK t \in Tasks : LookAtSlot(t) \/ CountLoss(t)
      BY <2>5
    <3>2. QueueNow' = QueueNow /\ got' = got
      BY <1>2, <3>1, OthersKeepTheQueue
    <3>3. CASE Unreported' = Unreported
      BY <3>2, <3>3 DEF QueueNow, Waiting, Place
    <3>4. CASE /\ LookAtSlot(t) /\ Signed(seq[Slot(pos[t])], pos[t]) < 0
               /\ Unreported' = Unreported + 1
      <4>1. Waiting = N
        BY <1>2, <3>4, OnlyAFullRingTurnsAway DEF LookAtSlot
      <4>2. Len(QueueNow) = N
        BY <1>2, <4>1, QueueType, LengthIs, Sizes
      <4>3. Queue!Lose
        BY <3>2, <3>4, <4>2 DEF Queue!Lose, QueueNow, Waiting, Place
      <4>. QED  BY <4>3
    <3>. QED  BY <2>0, <3>1, <3>3, <3>4, LossesAreKept
  <2>6. CASE \/ \E t \in Tasks : \/ LoadWrite(t) \/ ClaimFails(t) \/ HandOver(t)
                                 \/ \E e \in Entries : Push(t, e)
             \/ DrainEvents \/ CheckSlot \/ CopyEntry \/ UNCHANGED vars
    <3>1. QueueNow' = QueueNow /\ got' = got
      BY <1>2, <2>6, OthersKeepTheQueue
    <3>2. Unreported' = Unreported
      BY <2>0, <2>6, LossesStay
    <3>. QED  BY <3>1, <3>2 DEF QueueNow, Waiting, Place
  <2>. QED  BY <1>2, <2>1, <2>2, <2>3, <2>4, <2>5, <2>6 DEF Next, PushStep, DrainStep
<1>3. IInv /\ [Next]_vars => IInv'
  BY RingStep
<1>4. Init => IInv
  BY RingInit
<1>. QED  BY <1>1, <1>2, <1>3, <1>4, PTL DEF Spec, ImplementsQueue, Queue!Spec


===============================================================================
