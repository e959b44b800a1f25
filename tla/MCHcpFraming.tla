----------------------------- MODULE MCHcpFraming -----------------------------
(* Instances of HcpFraming for TLC. Sizes are scaled down and keep their      *)
(* order: MinFrame 4 < RX_FULL_THRESHOLD 120 < HCP2_MAX_FRAME 256 on the newer *)
(* bus. On the older one no frame reaches the threshold: HCP1_MAX_FRAME is 16. *)
EXTENDS HcpFraming

Frame(addressee, bytes) == [to |-> addressee, length |-> bytes]

\* A poll and a broadcast that comes in pieces; a request on the older bus.
PollsAndBroadcasts ==
    [p \in Protocols |-> IF p = "HCP2" THEN {Frame("us", 2), Frame("all", 4)}
                                       ELSE {Frame("us", 2)}]

\* Longer than any frame, and not a multiple of one.
Buffers == [p \in Protocols |-> IF p = "HCP2" THEN 5 ELSE 3]
===============================================================================
