----------------------------- MODULE HcpEventRing -----------------------------
(* The ring the protocol path records its events in (hcp_events.h): several   *)
(* writers claim a place, fill it and hand it over; one reader takes what is  *)
(* handed over, in order; nobody waits. Positions and sequence numbers are    *)
(* unsigned and wrap; they are compared as signed differences. Each action is *)
(* one access to shared memory, sequentially consistent: acquire and release  *)
(* on the sequence numbers order the entries, and a value of write_ staler    *)
(* than that is not modelled.                                                 *)
EXTENDS Integers, FiniteSets

CONSTANTS
    Tasks, Reader,      \* who calls push; which of them also calls drain
    Entries, NoEntry,   \* what is recorded
    N,                  \* the capacity, a power of two
    SeqMod,             \* uint32_t wraps at this; a multiple of N
    MaxOvertaken,       \* bound: places others claim while one task is in a push
    MaxDropped          \* bound: losses counted and not reported

ASSUME TasksAssumption == IsFiniteSet(Tasks) /\ Reader \in Tasks /\ NoEntry \notin Entries
ASSUME SizesAssumption ==
    /\ N \in Nat \ {0, 1} /\ SeqMod \in Nat /\ MaxOvertaken \in Nat /\ MaxDropped \in Nat
    /\ SeqMod % N = 0
    /\ 2 * (MaxOvertaken + N) < SeqMod     \* a signed difference keeps its sign

VARIABLES
    seq, entry,         \* the slots
    write, read, dropped,
    pc, pos, mine,      \* where each task is in its call, the place it goes for,
                        \* the entry it pushes
    out,                \* the entry the reader has copied
    overtaken, got      \* history: places claimed by others since a push began;
                        \* what drain handed out last

slotVars == <<seq, entry>>
taskVars == <<pos, mine, overtaken>>
readVars == <<read, out, got>>
vars     == <<slotVars, write, dropped, pc, taskVars, readVars>>

Slot(p)   == p % N
Plus(p,k) == (p + k) % SeqMod
\* (int32_t) (a - b)
Signed(a, b) ==
    LET d == (a - b) % SeqMod IN IF 2 * d < SeqMod THEN d ELSE d - SeqMod

At(t, label)   == pc[t] = label
Goto(t, label) == pc' = [pc EXCEPT ![t] = label]

\* push returns, and its locals are gone.
Returns(t) ==
    /\ Goto(t, "idle")
    /\ pos' = [pos EXCEPT ![t] = 0]
    /\ mine' = [mine EXCEPT ![t] = NoEntry]
    /\ overtaken' = [overtaken EXCEPT ![t] = 0]

Pushing(t) == pc[t] \in {"load", "look", "claim", "fill", "hand", "lose"}

Init ==
    /\ seq = [i \in 0 .. N - 1 |-> i]
    /\ entry = [i \in 0 .. N - 1 |-> NoEntry]
    /\ write = 0 /\ read = 0 /\ dropped = 0
    /\ pc = [t \in Tasks |-> "idle"]
    /\ pos = [t \in Tasks |-> 0]
    /\ mine = [t \in Tasks |-> NoEntry]
    /\ overtaken = [t \in Tasks |-> 0]
    /\ out = NoEntry /\ got = NoEntry

-------------------------------------------------------------------------------
(* push                                                                       *)

\* Losses counted, and losses a task is about to count.
Unreported == dropped + Cardinality({t \in Tasks : At(t, "lose")})

Push(t, e) ==
    /\ At(t, "idle") /\ Goto(t, "load")
    /\ dropped + Cardinality({u \in Tasks : Pushing(u)}) < MaxDropped
    /\ mine' = [mine EXCEPT ![t] = e]
    /\ UNCHANGED <<slotVars, write, dropped, pos, overtaken, readVars>>

LoadWrite(t) ==
    /\ At(t, "load") /\ Goto(t, "look")
    /\ pos' = [pos EXCEPT ![t] = write]
    /\ UNCHANGED <<slotVars, write, dropped, mine, overtaken, readVars>>

\* The slot's sequence number says whether it is free, still to be read, or
\* whether somebody else was faster.
LookAtSlot(t) ==
    /\ At(t, "look")
    /\ LET free == Signed(seq[Slot(pos[t])], pos[t])
       IN  \/ free = 0 /\ Goto(t, "claim")
           \/ free < 0 /\ Goto(t, "lose")
           \/ free > 0 /\ Goto(t, "load")
    /\ UNCHANGED <<slotVars, write, dropped, taskVars, readVars>>

\* Mutant: the place is taken without asking whether somebody else has it.
ClaimBlindly(t) ==
    /\ At(t, "claim") /\ Goto(t, "fill")
    /\ write' = Plus(pos[t], 1)
    /\ UNCHANGED <<slotVars, dropped, taskVars, readVars>>

Claim(t) ==
    /\ At(t, "claim") /\ Goto(t, "fill")
    /\ write = pos[t]
    /\ \A u \in Tasks \ {t} : Pushing(u) => overtaken[u] < MaxOvertaken
    /\ write' = Plus(write, 1)
    /\ overtaken' = [u \in Tasks |->
                        IF u # t /\ Pushing(u) THEN overtaken[u] + 1 ELSE overtaken[u]]
    /\ UNCHANGED <<slotVars, dropped, pos, mine, readVars>>

\* compare_exchange_weak fails because the place is gone, or for no reason.
ClaimFails(t) ==
    /\ At(t, "claim") /\ Goto(t, "look")
    /\ pos' = [pos EXCEPT ![t] = write]
    /\ UNCHANGED <<slotVars, write, dropped, mine, overtaken, readVars>>

Fill(t) ==
    /\ At(t, "fill") /\ Goto(t, "hand")
    /\ entry' = [entry EXCEPT ![Slot(pos[t])] = mine[t]]
    /\ UNCHANGED <<seq, write, dropped, taskVars, readVars>>

\* Mutant: the place is filled and never handed over.
KeepPlace(t) ==
    /\ At(t, "hand") /\ Returns(t)
    /\ UNCHANGED <<slotVars, write, dropped, readVars>>

HandOver(t) ==
    /\ At(t, "hand") /\ Returns(t)
    /\ seq' = [seq EXCEPT ![Slot(pos[t])] = Plus(pos[t], 1)]
    /\ UNCHANGED <<entry, write, dropped, readVars>>

CountLoss(t) ==
    /\ At(t, "lose") /\ Returns(t)
    /\ dropped' = dropped + 1
    /\ UNCHANGED <<slotVars, write, readVars>>

-------------------------------------------------------------------------------
(* drain, until nothing more is handed over (drain_events asks again after a  *)
(* full batch), then takeDropped                                              *)

DrainEvents ==
    /\ At(Reader, "idle") /\ Goto(Reader, "check")
    /\ UNCHANGED <<slotVars, write, dropped, taskVars, readVars>>

\* Mutant: a place that was claimed is read before it is handed over.
Claimed == read # write

HandedOver == Signed(seq[Slot(read)], Plus(read, 1)) = 0

CheckSlot ==
    /\ At(Reader, "check")
    /\ Goto(Reader, IF HandedOver THEN "copy" ELSE "report")
    /\ UNCHANGED <<slotVars, write, dropped, taskVars, readVars>>

CopyEntry ==
    /\ At(Reader, "copy") /\ Goto(Reader, "free")
    /\ out' = entry[Slot(read)]
    /\ UNCHANGED <<slotVars, write, dropped, taskVars, read, got>>

FreeSlot ==
    /\ At(Reader, "free") /\ Goto(Reader, "check")
    /\ seq' = [seq EXCEPT ![Slot(read)] = Plus(read, N)]
    /\ read' = Plus(read, 1)
    /\ got' = out /\ out' = NoEntry
    /\ UNCHANGED <<entry, write, dropped, taskVars>>

TakeDropped ==
    /\ At(Reader, "report") /\ Goto(Reader, "idle")
    /\ dropped' = 0
    /\ UNCHANGED <<slotVars, write, taskVars, readVars>>

-------------------------------------------------------------------------------
PushStep(t) ==
    \/ LoadWrite(t) \/ LookAtSlot(t) \/ Claim(t) \/ ClaimFails(t)
    \/ Fill(t) \/ HandOver(t) \/ CountLoss(t)

DrainStep == CheckSlot \/ CopyEntry \/ FreeSlot \/ TakeDropped

Next ==
    \/ \E t \in Tasks : PushStep(t) \/ \E e \in Entries : Push(t, e)
    \/ DrainEvents \/ DrainStep

Spec == Init /\ [][Next]_vars

\* Both tasks are scheduled, the loop calls update again and again, and a weak
\* compare-and-swap does not fail for ever without a reason.
FairSpec ==
    /\ Spec
    /\ \A t \in Tasks : WF_vars(PushStep(t)) /\ SF_vars(Claim(t))
    /\ SF_vars(DrainEvents) /\ WF_vars(DrainStep)

-------------------------------------------------------------------------------
(* Properties.                                                                *)

\* No entry is torn: nobody writes to a slot while another task writes to it or
\* while the reader copies from it.
NoEntryIsTorn ==
    \A t \in Tasks : At(t, "fill") =>
        /\ \A u \in Tasks \ {t} : At(u, "fill") => Slot(pos[u]) # Slot(pos[t])
        /\ At(Reader, "copy") => Slot(read) # Slot(pos[t])

\* The places claimed and not yet freed, with what is or will be in them.
Kept(p) ==
    IF \E t \in Tasks : At(t, "fill") /\ pos[t] = p
    THEN mine[CHOOSE t \in Tasks : At(t, "fill") /\ pos[t] = p]
    ELSE entry[Slot(p)]

Queue == INSTANCE HcpEventQueue WITH
            Capacity   <- N,
            queue      <- [i \in 1 .. (write - read) % SeqMod |-> Kept(Plus(read, i - 1))],
            unreported <- Unreported,
            got        <- got

\* The ring is that queue: entries reach the reader whole, once and in the order
\* their places were claimed, only a full ring turns one away, and every one
\* turned away is counted.
ImplementsQueue == Queue!Spec

\* The reader is never stuck: an entry whose place was claimed is read, also
\* when its writer is overtaken by others before it hands it over.
EntriesAreRead == []<><<FreeSlot>>_vars \/ <>[](read = write)
===============================================================================
