----------------------------- MODULE HcpDelivery -----------------------------
(* What the exchange with the drive promises for a press: it reaches the      *)
(* drive at most MaxCopies times, and never after one that was made later.    *)
EXTENDS Naturals

CONSTANT MaxCopies

VARIABLES accepted,     \* presses accepted so far, numbered from 1
          received,     \* the one the drive received last, or 0
          copies        \* how often it received that one

vars == <<accepted, received, copies>>

Init == accepted = 0 /\ received = 0 /\ copies = 0

Accept == accepted' = accepted + 1 /\ UNCHANGED <<received, copies>>

Receive(id) ==
    /\ received < id /\ id <= accepted
    /\ received' = id /\ copies' = 1 /\ UNCHANGED accepted

ReceiveAgain ==
    /\ received # 0 /\ copies < MaxCopies
    /\ copies' = copies + 1 /\ UNCHANGED <<accepted, received>>

Next == Accept \/ (\E id \in 1 .. accepted : Receive(id)) \/ ReceiveAgain

Spec == Init /\ [][Next]_vars
==============================================================================
