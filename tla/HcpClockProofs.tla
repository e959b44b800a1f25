---------------------------- MODULE HcpClockProofs ----------------------------
(* Arithmetic of a clock that wraps: the unsigned difference of two readings  *)
(* of millis(), as every timeout of the codecs takes it.                      *)
EXTENDS Integers, TLAPS

\* A number is a whole number of rounds of the clock, and what it then reads.
LEMMA Reading ==
    ASSUME NEW M \in Nat \ {0}, NEW a \in Nat
    PROVE  a % M \in 0 .. M - 1 /\ a \div M \in Int /\ a = M * (a \div M) + (a % M)
OBVIOUS

\* A difference within one round reads as itself, and so does one taken across
\* the end of a round.
LEMMA WithinARound ==
    ASSUME NEW M \in Nat \ {0}, NEW d \in Nat, d < M
    PROVE  d % M = d /\ (d - M) % M = d
<1>1. d % M = d        OBVIOUS
<1>2. (d - M) % M = d  OBVIOUS
<1>. QED  BY <1>1, <1>2

\* A whole number of rounds that lies between minus one and two rounds is none
\* or one.
LEMMA NoneOrOneRound ==
    ASSUME NEW M \in Nat \ {0}, NEW k \in Int, NEW r \in Int, M * k = r, -M < r, r < 2 * M
    PROVE  k \in {0, 1}
<1>1. k >= 0
  <2>1. CASE k <= -1
    <3>1. M * (-1 - k) >= 0        BY <2>1
    <3>2. M * (-1 - k) = -M - M * k  OBVIOUS
    <3>. QED  BY <3>1, <3>2
  <2>. QED  BY <2>1
<1>2. k <= 1
  <2>1. CASE k >= 2
    <3>1. M * (k - 2) >= 0             BY <2>1
    <3>2. M * (k - 2) = M * k - 2 * M  OBVIOUS
    <3>. QED  BY <3>1, <3>2
  <2>. QED  BY <2>1
<1>. QED  BY <1>1, <1>2

\* The unsigned difference of two readings less than a round apart is the time
\* between them, wherever the clock wrapped.
LEMMA UnsignedDifference ==
    ASSUME NEW M \in Nat \ {0}, NEW a \in Nat, NEW b \in Nat, a <= b, b - a < M
    PROVE  ((b % M) - (a % M)) % M = b - a
<1>. DEFINE ra == a % M
            rb == b % M
            k  == (b \div M) - (a \div M)
            r  == (b - a) - (rb - ra)
<1>1. ra \in 0 .. M - 1 /\ rb \in 0 .. M - 1 /\ k \in Int
  BY Reading
<1>2. a = M * (a \div M) + ra /\ b = M * (b \div M) + rb /\ a \div M \in Int /\ b \div M \in Int
  BY Reading
<1>3. M * k = M * (b \div M) - M * (a \div M)
  BY <1>2
<1>4. M * k = r
  BY <1>1, <1>2, <1>3
<1>. HIDE DEF ra, rb, k
<1>5. r \in Int /\ -M < r /\ r < 2 * M
  BY <1>1
<1>6. k \in {0, 1}
  <2>. HIDE DEF r
  <2>. QED  BY <1>1, <1>4, <1>5, NoneOrOneRound
<1>7. rb - ra = b - a \/ rb - ra = (b - a) - M
  <2>1. CASE k = 0
    BY <1>1, <1>4, <2>1
  <2>2. CASE k = 1
    BY <1>1, <1>4, <2>2
  <2>. QED  BY <1>6, <2>1, <2>2
<1>8. (rb - ra) % M = b - a
  BY <1>1, <1>7, WithinARound
<1>. QED  BY <1>8 DEF ra, rb

===============================================================================
