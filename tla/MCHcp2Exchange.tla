---------------------------- MODULE MCHcp2Exchange ----------------------------
EXTENDS Hcp2Exchange

Counting(holds, zero) == [holds |-> holds, zero |-> zero]

\* One that counts as the code expects, one that counts through zero, and one
\* that repeats and skips as it likes.
EveryDrive == {Counting(TRUE, FALSE), Counting(TRUE, TRUE), Counting(FALSE, TRUE)}

\* Three for the first, so that two presses meet a pause or a restart.
Events == [d \in EveryDrive |-> IF d.holds /\ ~d.zero THEN 3 ELSE 2]
===============================================================================
