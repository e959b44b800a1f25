---------------------------- MODULE HcpEventQueue ----------------------------
(* What the event ring promises: a queue that never holds more than Capacity  *)
(* entries, keeps the oldest when it is full, hands every entry it keeps to   *)
(* the reader once and in order, and counts each one it does not keep.        *)
EXTENDS Naturals, Sequences

CONSTANTS Entries, Capacity, NoEntry

VARIABLES queue,        \* the entries kept and not read yet, oldest first
          unreported,   \* the entries not kept since the count was last asked for
          got           \* what the reader got last

vars == <<queue, unreported, got>>

Init == queue = <<>> /\ unreported = 0 /\ got = NoEntry

Record(e) ==
    /\ Len(queue) < Capacity
    /\ queue' = Append(queue, e)
    /\ UNCHANGED <<unreported, got>>

\* Only a full queue turns an entry away.
Lose ==
    /\ Len(queue) = Capacity
    /\ unreported' = unreported + 1
    /\ UNCHANGED <<queue, got>>

Take ==
    /\ queue # <<>>
    /\ got' = Head(queue) /\ queue' = Tail(queue)
    /\ UNCHANGED unreported

\* The count handed out leaves out only the losses still being counted.
Report(counted) ==
    /\ unreported' = unreported - counted
    /\ UNCHANGED <<queue, got>>

Next == (\E e \in Entries : Record(e)) \/ Lose \/ Take
           \/ \E counted \in 0 .. unreported : Report(counted)

Spec == Init /\ [][Next]_vars
==============================================================================
