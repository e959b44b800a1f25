-------------------------- MODULE Hcp2ExchangeProofs --------------------------
(* Theorems about Hcp2Exchange, for every choice of its constants.            *)
EXTENDS Hcp2Exchange, TLAPS

\* What the codec knows, in the middle of a poll too, where a repeat may wait.
Codec ==
    [slot : PressInfo, cancel : BOOLEAN,
     counting : BOOLEAN, counter : Counter, previous : Counter,
     lastSent : PressInfo, awaited : PressInfo, repeat : PressInfo,
     acted : BOOLEAN, repeatsSent : 0 .. LostAnswerRepeats,
     confirmRepeats : 0 .. UnactedRepeats]

\* A poll shows the loss of an answer, and its command is to be made good.
Noticed(b, rx) ==
    /\ b.counting /\ rx # b.counter /\ rx = b.previous
    /\ b.lastSent # Nothing /\ b.slot = Nothing /\ b.repeatsSent < LostAnswerRepeats

\* SyncCounter and the reset of lastSent, field by field.
LEMMA BeginFields ==
    ASSUME NEW b \in Codec, b.repeat = Nothing, NEW rx \in Counter, NEW kind \in {"status", "other"}
    PROVE  LET h == Begin(b, rx, kind) IN
           /\ h \in Codec /\ h.lastSent = Nothing /\ h.counter = rx /\ h.counting
           /\ h.slot = b.slot /\ h.cancel = b.cancel /\ h.acted = b.acted
           /\ h.confirmRepeats = b.confirmRepeats
           /\ IF Noticed(b, rx) /\ kind = "status"
              THEN h.repeat = b.lastSent /\ h.awaited = Nothing /\ h.repeatsSent = b.repeatsSent + 1
              ELSE h.repeat = Nothing /\ h.awaited = b.awaited /\ h.repeatsSent = b.repeatsSent
<1> DEFINE s == SyncCounter(b, rx, kind)
           r == RearmLostCommand(b)
<1>1. Nothing \in PressInfo
  BY DEF Nothing, PressInfo
<1>2. b.repeatsSent \in Nat /\ LostAnswerRepeats \in Nat
  BY ExchangeAssumption DEF Codec
<1>3. /\ r \in Codec /\ r.slot = b.slot /\ r.cancel = b.cancel /\ r.acted = b.acted
      /\ r.confirmRepeats = b.confirmRepeats /\ r.counting = b.counting
      /\ IF b.lastSent # Nothing /\ b.slot = Nothing /\ b.repeatsSent < LostAnswerRepeats
         THEN r.repeat = b.lastSent /\ r.awaited = Nothing /\ r.repeatsSent = b.repeatsSent + 1
         ELSE r.repeat = Nothing /\ r.awaited = b.awaited /\ r.repeatsSent = b.repeatsSent
  <2>1. CASE b.lastSent = Nothing \/ b.slot # Nothing
    BY <2>1 DEF RearmLostCommand
  <2>2. CASE b.lastSent # Nothing /\ b.slot = Nothing /\ ~(b.repeatsSent < LostAnswerRepeats)
    <3>1. r = [b EXCEPT !.lastSent = Nothing]
      BY <2>2, Zenon DEF RearmLostCommand, RepeatsLeft
    <3>. HIDE DEF r
    <3>. QED  BY <1>1, <2>2, <3>1, Zenon DEF Codec
  <2>3. CASE b.lastSent # Nothing /\ b.slot = Nothing /\ b.repeatsSent < LostAnswerRepeats
    <3>1. r = [b EXCEPT !.repeatsSent = @ + 1, !.repeat = b.lastSent,
                        !.awaited = Nothing, !.lastSent = Nothing]
      BY <2>3, Zenon DEF RearmLostCommand, RepeatsLeft
    <3>2. b.repeatsSent + 1 \in 0 .. LostAnswerRepeats
      BY <1>2, <2>3
    <3>. HIDE DEF r
    <3>. QED  BY <1>1, <2>3, <3>1, <3>2, Zenon DEF Codec
  <2>. QED  BY <2>1, <2>2, <2>3
<1>4. /\ s \in Codec /\ s.counter = rx /\ s.counting
      /\ s.slot = b.slot /\ s.cancel = b.cancel /\ s.acted = b.acted
      /\ s.confirmRepeats = b.confirmRepeats
      /\ IF Noticed(b, rx) /\ kind = "status"
         THEN s.repeat = b.lastSent /\ s.awaited = Nothing /\ s.repeatsSent = b.repeatsSent + 1
         ELSE s.repeat = Nothing /\ s.awaited = b.awaited /\ s.repeatsSent = b.repeatsSent
  <2>1. CASE ~b.counting
    <3>1. s = [b EXCEPT !.counter = rx, !.counting = TRUE]
      BY <2>1 DEF SyncCounter
    <3>2. ~Noticed(b, rx)
      BY <2>1 DEF Noticed
    <3>. HIDE DEF s
    <3>3. s.counting = TRUE
      BY <3>1, Zenon DEF Codec
    <3>. QED  BY <3>1, <3>2, <3>3, Zenon DEF Codec
  <2>2. CASE b.counting /\ b.counter = rx
    BY <2>2 DEF SyncCounter, Noticed
  <2>3. CASE b.counting /\ b.counter # rx
    <3>1. s = [(IF rx = b.previous /\ kind = "status" THEN r ELSE b) EXCEPT !.counter = rx]
      BY <2>3 DEF SyncCounter, Follow
    <3>. HIDE DEF s, r
    <3>2. CASE rx = b.previous /\ kind = "status"
      <4>1. s = [r EXCEPT !.counter = rx]
        BY <3>1, <3>2
      <4>2. /\ s \in Codec /\ s.counter = rx /\ s.counting = r.counting /\ s.slot = r.slot
            /\ s.cancel = r.cancel /\ s.acted = r.acted /\ s.confirmRepeats = r.confirmRepeats
            /\ s.repeat = r.repeat /\ s.awaited = r.awaited /\ s.repeatsSent = r.repeatsSent
        BY <1>3, <4>1, Zenon DEF Codec
      <4>. QED  BY <1>3, <2>3, <3>2, <4>2, Zenon DEF Noticed
    <3>3. CASE ~(rx = b.previous /\ kind = "status")
      <4>1. s = [b EXCEPT !.counter = rx]
        BY <3>1, <3>3
      <4>. QED  BY <2>3, <3>3, <4>1, Zenon DEF Codec, Noticed
    <3>. QED  BY <3>2, <3>3
  <2>. QED  BY <2>1, <2>2, <2>3
<1>5. Begin(b, rx, kind) = [s EXCEPT !.lastSent = Nothing]
  BY DEF Begin
<1>. HIDE DEF s, r
<1>. QED  BY <1>1, <1>4, <1>5, Zenon DEF Codec

\* CheckCommandEffect and CancelWatch: the watch goes on, ends, or repeats.
LEMMA WatchFields ==
    ASSUME NEW h \in Codec, NEW timing \in Timing, h.repeat = Nothing \/ h.awaited = Nothing
    PROVE  LET w == CancelWatch(CheckCommandEffect(h, timing)) IN
           /\ w \in Codec /\ w.counter = h.counter /\ w.slot = h.slot /\ ~w.cancel
           /\ w.counting = h.counting /\ w.acted = h.acted /\ w.repeatsSent = h.repeatsSent
           /\ \/ /\ ~h.cancel
                 /\ h.awaited # Nothing => h.slot = Nothing
                 /\ w.awaited = h.awaited /\ w.repeat = h.repeat
                 /\ w.confirmRepeats = h.confirmRepeats
              \/ /\ ~h.cancel /\ h.slot = Nothing /\ h.awaited # Nothing /\ ~TookEffect(h)
                 /\ h.confirmRepeats < UnactedRepeats
                 /\ w.awaited = h.awaited /\ w.repeat = h.awaited
                 /\ w.confirmRepeats = h.confirmRepeats + 1
              \/ /\ \/ h.cancel
                    \/ h.awaited # Nothing /\ (TookEffect(h) \/ h.slot # Nothing \/ timing = "giveup")
                 /\ w.awaited = Nothing /\ w.repeat = Nothing
<1> DEFINE c == CheckCommandEffect(h, timing)
           w == CancelWatch(c)
           Ends == TookEffect(h) \/ h.slot # Nothing \/ timing = "giveup"
           Repeats == timing = "confirm" /\ h.confirmRepeats < UnactedRepeats
<1>1. Nothing \in PressInfo
  BY DEF Nothing, PressInfo
<1>2. /\ c \in Codec /\ c.counter = h.counter /\ c.slot = h.slot /\ c.cancel = h.cancel
      /\ c.counting = h.counting /\ c.acted = h.acted /\ c.repeatsSent = h.repeatsSent
      /\ \/ /\ h.awaited # Nothing => ~Ends
            /\ c.awaited = h.awaited /\ c.repeat = h.repeat /\ c.confirmRepeats = h.confirmRepeats
         \/ /\ h.awaited # Nothing /\ ~Ends /\ h.confirmRepeats < UnactedRepeats
            /\ c.awaited = h.awaited /\ c.repeat = h.awaited
            /\ c.confirmRepeats = h.confirmRepeats + 1
         \/ /\ h.awaited # Nothing /\ Ends
            /\ c.awaited = Nothing /\ c.repeat = Nothing
  <2>1. CASE h.awaited = Nothing \/ (~Ends /\ ~Repeats)
    <3>1. c = h
      BY <2>1 DEF CheckCommandEffect
    <3>. QED  BY <2>1, <3>1
  <2>2. CASE h.awaited # Nothing /\ Ends
    <3>1. c = [h EXCEPT !.awaited = Nothing, !.repeat = Nothing]
      BY <2>2 DEF CheckCommandEffect, StopWatching
    <3>. HIDE DEF c, Ends
    <3>. QED  BY <1>1, <2>2, <3>1, Zenon DEF Codec
  <2>3. CASE h.awaited # Nothing /\ ~Ends /\ Repeats
    <3>1. c = [h EXCEPT !.confirmRepeats = @ + 1, !.repeat = h.awaited]
      BY <2>3 DEF CheckCommandEffect
    <3>2. h.confirmRepeats + 1 \in 0 .. UnactedRepeats
      BY <2>3, ExchangeAssumption DEF Codec
    <3>. HIDE DEF c, Ends
    <3>. QED  BY <2>3, <3>1, <3>2, Zenon DEF Codec
  <2>. QED  BY <2>1, <2>2, <2>3, Zenon
<1>3. CASE c.cancel
  <2>1. w = [c EXCEPT !.awaited = Nothing, !.repeat = Nothing, !.cancel = FALSE]
    BY <1>3 DEF CancelWatch, StopWatching
  <2>. HIDE DEF c, w, Ends
  <2>2. /\ w \in Codec /\ w.counter = c.counter /\ w.slot = c.slot /\ w.cancel = FALSE
        /\ w.counting = c.counting /\ w.acted = c.acted /\ w.repeatsSent = c.repeatsSent
        /\ w.awaited = Nothing /\ w.repeat = Nothing
    BY <1>1, <1>2, <2>1, Zenon DEF Codec
  <2>. QED  BY <1>2, <1>3, <2>2, Zenon DEF w, c, Ends
<1>4. CASE ~c.cancel
  <2>1. w = [c EXCEPT !.cancel = FALSE]
    BY <1>4 DEF CancelWatch
  <2>. HIDE DEF c, w, Ends
  <2>2. /\ w \in Codec /\ w.counter = c.counter /\ w.slot = c.slot /\ w.cancel = FALSE
        /\ w.counting = c.counting /\ w.acted = c.acted /\ w.repeatsSent = c.repeatsSent
        /\ w.awaited = c.awaited /\ w.repeat = c.repeat /\ w.confirmRepeats = c.confirmRepeats
    BY <1>2, <2>1, Zenon DEF Codec
  <2>. QED  BY <1>2, <1>4, <2>2, Zenon DEF w, c, Ends
<1>. QED  BY <1>3, <1>4

\* Send: a press out of the slot, a repeat, or nothing.
LEMMA SendFields ==
    ASSUME NEW w \in Codec, NEW press \in PressInfo
    PROVE  LET s == Send(w, press) IN
           /\ s \in Codec /\ s.slot = Nothing /\ s.repeat = Nothing /\ s.cancel = w.cancel
           /\ s.counter = w.counter /\ s.counting = w.counting
           /\ IF press # Nothing
              THEN /\ s.lastSent = press /\ s.awaited = press
                   /\ ~s.acted /\ s.repeatsSent = 0 /\ s.confirmRepeats = 0
              ELSE /\ s.lastSent = IF RepeatMakesSense(w) THEN w.repeat ELSE Nothing
                   /\ s.awaited = w.awaited /\ s.acted = w.acted
                   /\ s.repeatsSent = w.repeatsSent /\ s.confirmRepeats = w.confirmRepeats
<1> DEFINE s == Send(w, press)
           again == IF RepeatMakesSense(w) THEN w.repeat ELSE Nothing
<1>1. Nothing \in PressInfo /\ again \in PressInfo
  BY DEF Nothing, PressInfo, Codec
<1>2. 0 \in 0 .. LostAnswerRepeats /\ 0 \in 0 .. UnactedRepeats
  BY ExchangeAssumption
<1>3. CASE press # Nothing
  <2>1. s = [w EXCEPT !.slot = Nothing, !.repeat = Nothing, !.lastSent = press, !.awaited = press,
                      !.acted = FALSE, !.repeatsSent = 0, !.confirmRepeats = 0]
    BY <1>3, Zenon DEF Send
  <2>. HIDE DEF s
  <2>2. s.acted = FALSE
    BY <2>1, Zenon DEF Codec
  <2>. QED  BY <1>1, <1>2, <1>3, <2>1, <2>2, Zenon DEF Codec, s
<1>4. CASE press = Nothing
  <2>1. s = [w EXCEPT !.slot = Nothing, !.repeat = Nothing, !.lastSent = again]
    BY <1>4, Zenon DEF Send
  <2>. HIDE DEF s, again
  <2>2. /\ s \in Codec /\ s.slot = Nothing /\ s.repeat = Nothing /\ s.cancel = w.cancel
        /\ s.counter = w.counter /\ s.counting = w.counting /\ s.lastSent = again
        /\ s.awaited = w.awaited /\ s.acted = w.acted
        /\ s.repeatsSent = w.repeatsSent /\ s.confirmRepeats = w.confirmRepeats
    BY <1>1, <2>1, Zenon DEF Codec
  <2>. QED  BY <1>4, <2>2, Zenon DEF s, again
<1>. QED  BY <1>3, <1>4

\* AdvanceCounter: what is not read again is forgotten, and the counter goes on.
LEMMA AdvanceFields ==
    ASSUME NEW s \in Codec
    PROVE  LET a == AdvanceCounter(s) IN
           /\ a \in Codec /\ a.slot = s.slot /\ a.repeat = s.repeat /\ a.cancel = s.cancel
           /\ a.counting = s.counting /\ a.previous = s.counter /\ a.counter # s.counter
           /\ a.counter = (IF s.counter = CounterMax THEN 1 ELSE s.counter + 1)
           /\ a.lastSent = s.lastSent /\ a.awaited = s.awaited
           /\ ~Idle(s) => /\ a.acted = s.acted /\ a.repeatsSent = s.repeatsSent
                          /\ a.confirmRepeats = s.confirmRepeats
<1> DEFINE t == Tidy(s)
           next == IF s.counter = CounterMax THEN 1 ELSE s.counter + 1
           a == AdvanceCounter(s)
<1>1. next \in Counter /\ next # s.counter /\ s.counter \in Counter
  BY ExchangeAssumption DEF Codec, Counter
<1>2. 0 \in 0 .. LostAnswerRepeats /\ 0 \in 0 .. UnactedRepeats
  BY ExchangeAssumption
<1>3. /\ t \in Codec /\ t.slot = s.slot /\ t.repeat = s.repeat /\ t.cancel = s.cancel
      /\ t.counting = s.counting /\ t.lastSent = s.lastSent /\ t.awaited = s.awaited
      /\ ~Idle(s) => /\ t.acted = s.acted /\ t.repeatsSent = s.repeatsSent
                     /\ t.confirmRepeats = s.confirmRepeats
  <2>1. CASE Idle(s)
    <3>1. t = [s EXCEPT !.acted = FALSE, !.repeatsSent = 0, !.confirmRepeats = 0]
      BY <2>1, Zenon DEF Tidy
    <3>. HIDE DEF t
    <3>. QED  BY <1>2, <2>1, <3>1, Zenon DEF Codec
  <2>2. CASE ~Idle(s)
    BY <2>2, Zenon DEF Tidy
  <2>. QED  BY <2>1, <2>2
<1>4. a = [t EXCEPT !.previous = s.counter, !.counter = next]
  BY Zenon DEF AdvanceCounter
<1>. HIDE DEF a, t, next
<1>5. /\ a \in Codec /\ a.slot = t.slot /\ a.repeat = t.repeat /\ a.cancel = t.cancel
      /\ a.counting = t.counting /\ a.previous = s.counter /\ a.counter = next
      /\ a.lastSent = t.lastSent /\ a.awaited = t.awaited /\ a.acted = t.acted
      /\ a.repeatsSent = t.repeatsSent /\ a.confirmRepeats = t.confirmRepeats
  BY <1>1, <1>3, <1>4, Zenon DEF Codec
<1>. QED  BY <1>1, <1>3, <1>5, Zenon DEF a, next

-------------------------------------------------------------------------------
(* What one status poll makes of the codec: b before, a after.                 *)

\* A press out of the slot goes out, a stop as an impulse.
Fresh(b, a) ==
    /\ b.slot # Nothing /\ a.lastSent # Nothing /\ a.lastSent.id = b.slot.id
    /\ a.lastSent.cmd = (IF b.slot.cmd = "STOP" THEN "IMPULSE" ELSE b.slot.cmd)
    /\ a.awaited = a.lastSent /\ ~a.acted /\ a.repeatsSent = 0 /\ a.confirmRepeats = 0

\* A lost answer is made good, and its command no longer watched.
MadeGood(b, rx, a) ==
    /\ Noticed(b, rx) /\ ~b.cancel
    /\ a.lastSent = b.lastSent /\ a.awaited = Nothing /\ a.acted = b.acted
    /\ a.repeatsSent = b.repeatsSent + 1 /\ a.confirmRepeats = b.confirmRepeats

\* The drive did not act: the command goes out again.
Again(b, rx, a) ==
    /\ ~Noticed(b, rx) /\ b.slot = Nothing /\ ~b.cancel
    /\ b.awaited # Nothing /\ b.confirmRepeats < UnactedRepeats
    /\ a.lastSent = b.awaited /\ a.awaited = b.awaited /\ a.acted = b.acted
    /\ a.repeatsSent = b.repeatsSent /\ a.confirmRepeats = b.confirmRepeats + 1

\* Nothing goes out, and the watch goes on.
Watched(b, rx, a) ==
    /\ ~Noticed(b, rx) /\ b.slot = Nothing /\ ~b.cancel
    /\ b.awaited # Nothing /\ a.awaited = b.awaited /\ a.lastSent = Nothing /\ a.acted = b.acted
    /\ a.repeatsSent = b.repeatsSent /\ a.confirmRepeats = b.confirmRepeats

\* Nothing goes out, and nothing is watched: for one of the reasons there are.
Done(b, rx, timing, stale, a) ==
    /\ a.lastSent = Nothing /\ a.awaited = Nothing
    /\ \/ b.slot # Nothing /\ (stale \/ (b.slot.cmd = "STOP" /\ ~Moving(door)))
       \/ b.slot = Nothing /\ (b.cancel \/ timing = "giveup" \/ b.acted)
       \/ b.slot = Nothing /\ b.lastSent # Nothing /\ Reached(b.lastSent.cmd, door, FALSE)
       \/ b.slot = Nothing /\ b.awaited # Nothing /\ Reached(b.awaited.cmd, door, FALSE)
       \/ b.slot = Nothing /\ b.awaited = Nothing /\ ~Noticed(b, rx)

\* A status poll from the request to the answer: one of the five, and the counter of
\* the request is the one a repeat would be known by.
LEMMA PollFields ==
    ASSUME NEW b \in Codec, b.repeat = Nothing, NEW rx \in Counter,
           NEW timing \in Timing, NEW stale \in BOOLEAN
    PROVE  LET s == SetCommandValuesToRead(Begin(b, rx, "status"), timing, stale)
               a == AdvanceCounter(s)
           IN  /\ a.lastSent = s.lastSent
               /\ a \in Codec /\ a.slot = Nothing /\ a.repeat = Nothing /\ ~a.cancel
               /\ a.counting /\ a.previous = rx /\ a.counter # rx
               /\ \/ Fresh(b, a) \/ MadeGood(b, rx, a) \/ Again(b, rx, a)
                  \/ Watched(b, rx, a) \/ Done(b, rx, timing, stale, a)
<1> DEFINE h == Begin(b, rx, "status")
           w == CancelWatch(CheckCommandEffect(h, timing))
           p == Taken(w, stale)
           s == Send(w, p)
           a == AdvanceCounter(s)
<1>1. /\ h \in Codec /\ h.lastSent = Nothing /\ h.counter = rx /\ h.counting
      /\ h.slot = b.slot /\ h.cancel = b.cancel /\ h.acted = b.acted
      /\ h.confirmRepeats = b.confirmRepeats
      /\ IF Noticed(b, rx)
         THEN h.repeat = b.lastSent /\ h.awaited = Nothing /\ h.repeatsSent = b.repeatsSent + 1
         ELSE h.repeat = Nothing /\ h.awaited = b.awaited /\ h.repeatsSent = b.repeatsSent
  BY BeginFields
<1>. HIDE DEF h
<1>2. /\ w \in Codec /\ w.counter = rx /\ w.slot = b.slot /\ ~w.cancel
      /\ w.counting /\ w.acted = b.acted /\ w.repeatsSent = h.repeatsSent
      /\ \/ /\ ~b.cancel
            /\ h.awaited # Nothing => b.slot = Nothing
            /\ w.awaited = h.awaited /\ w.repeat = h.repeat
            /\ w.confirmRepeats = b.confirmRepeats
         \/ /\ ~b.cancel /\ b.slot = Nothing /\ h.awaited # Nothing /\ ~TookEffect(h)
            /\ b.confirmRepeats < UnactedRepeats
            /\ w.awaited = h.awaited /\ w.repeat = h.awaited
            /\ w.confirmRepeats = b.confirmRepeats + 1
         \/ /\ \/ b.cancel
               \/ h.awaited # Nothing /\ (TookEffect(h) \/ b.slot # Nothing \/ timing = "giveup")
            /\ w.awaited = Nothing /\ w.repeat = Nothing
  BY <1>1, WatchFields
<1>. HIDE DEF w
<1>3. /\ p \in PressInfo
      /\ p # Nothing => /\ b.slot # Nothing /\ p.id = b.slot.id
                        /\ p.cmd = (IF b.slot.cmd = "STOP" THEN "IMPULSE" ELSE b.slot.cmd)
      /\ p = Nothing => \/ b.slot = Nothing
                        \/ stale \/ (b.slot.cmd = "STOP" /\ ~Moving(door))
  <2>1. b.slot \in PressInfo /\ Nothing \in PressInfo /\ Nothing.cmd = "NONE"
    BY DEF Codec, Nothing, PressInfo
  <2>2. CASE b.slot.cmd = "STOP" /\ ~stale /\ Moving(door)
    <3>1. p = [b.slot EXCEPT !.cmd = "IMPULSE"]
      BY <1>2, <2>2 DEF Taken
    <3>2. p \in PressInfo /\ p.id = b.slot.id /\ p.cmd = "IMPULSE"
      BY <2>1, <3>1 DEF PressInfo, Press, Command
    <3>. QED  BY <2>1, <2>2, <3>2
  <2>3. CASE stale \/ (b.slot.cmd = "STOP" /\ ~Moving(door))
    <3>1. p = Nothing
      BY <1>2, <2>3, Zenon DEF Taken
    <3>. QED  BY <2>1, <2>3, <3>1, Zenon
  <2>4. CASE ~stale /\ b.slot.cmd # "STOP"
    <3>1. p = b.slot
      BY <1>2, <2>4, Zenon DEF Taken
    <3>. QED  BY <2>1, <2>4, <3>1, Zenon
  <2>. QED  BY <2>2, <2>3, <2>4
<1>. HIDE DEF p
<1>4. /\ s \in Codec /\ s.slot = Nothing /\ s.repeat = Nothing /\ ~s.cancel
      /\ s.counter = rx /\ s.counting
      /\ IF p # Nothing
         THEN /\ s.lastSent = p /\ s.awaited = p
              /\ ~s.acted /\ s.repeatsSent = 0 /\ s.confirmRepeats = 0
         ELSE /\ s.lastSent = IF RepeatMakesSense(w) THEN w.repeat ELSE Nothing
              /\ s.awaited = w.awaited /\ s.acted = w.acted
              /\ s.repeatsSent = w.repeatsSent /\ s.confirmRepeats = w.confirmRepeats
  BY <1>2, <1>3, SendFields
<1>. HIDE DEF s
<1>5. /\ a \in Codec /\ a.slot = Nothing /\ a.repeat = Nothing /\ ~a.cancel
      /\ a.counting /\ a.previous = rx /\ a.counter # rx
      /\ a.lastSent = s.lastSent /\ a.awaited = s.awaited
      /\ ~Idle(s) => /\ a.acted = s.acted /\ a.repeatsSent = s.repeatsSent
                     /\ a.confirmRepeats = s.confirmRepeats
  BY <1>4, AdvanceFields
<1>. HIDE DEF a
<1>6. \/ Fresh(b, a) \/ MadeGood(b, rx, a) \/ Again(b, rx, a)
      \/ Watched(b, rx, a) \/ Done(b, rx, timing, stale, a)
  <2>1. CASE p # Nothing
    <3>1. Fresh(b, a)
      BY <1>3, <1>4, <1>5, <2>1, Zenon DEF Fresh, Idle
    <3>. QED  BY <3>1
  <2>2. CASE p = Nothing /\ b.slot # Nothing
    <3>1. s.awaited = Nothing /\ s.lastSent = Nothing
      BY <1>1, <1>2, <1>4, <2>2, Zenon DEF Noticed, RepeatMakesSense
    <3>2. Done(b, rx, timing, stale, a)
      BY <1>3, <1>5, <2>2, <3>1, Zenon DEF Done
    <3>. QED  BY <3>2
  <2>3. CASE p = Nothing /\ b.slot = Nothing /\ Noticed(b, rx)
    <3>1. w.awaited = Nothing
      BY <1>1, <1>2, <2>3, Zenon
    <3>2. CASE RepeatMakesSense(w)
      <4>1. w.repeat = b.lastSent /\ ~b.cancel /\ w.confirmRepeats = b.confirmRepeats
        BY <1>1, <1>2, <2>3, <3>2, Zenon DEF RepeatMakesSense
      <4>2. b.lastSent # Nothing
        BY <2>3 DEF Noticed
      <4>3. MadeGood(b, rx, a)
        BY <1>1, <1>2, <1>4, <1>5, <2>3, <3>1, <3>2, <4>1, <4>2, Zenon DEF MadeGood, Idle
      <4>. QED  BY <4>3
    <3>3. CASE ~RepeatMakesSense(w)
      <4>1. b.lastSent # Nothing
        BY <2>3 DEF Noticed
      <4>2. b.cancel \/ b.acted \/ Reached(b.lastSent.cmd, door, FALSE)
        BY <1>1, <1>2, <2>3, <3>3, <4>1, Zenon DEF RepeatMakesSense
      <4>3. Done(b, rx, timing, stale, a)
        BY <1>4, <1>5, <2>3, <3>1, <3>3, <4>1, <4>2, Zenon DEF Done
      <4>. QED  BY <4>3
    <3>. QED  BY <3>2, <3>3
  <2>4. CASE p = Nothing /\ b.slot = Nothing /\ ~Noticed(b, rx)
    <3>1. h.repeat = Nothing /\ h.awaited = b.awaited /\ h.repeatsSent = b.repeatsSent
      BY <1>1, <2>4
    <3>2. CASE w.repeat = Nothing /\ w.awaited = b.awaited /\ ~b.cancel /\ b.awaited # Nothing
               /\ w.confirmRepeats = b.confirmRepeats
      <4>1. Watched(b, rx, a)
        BY <1>2, <1>4, <1>5, <2>4, <3>1, <3>2, Zenon DEF Watched, Idle, RepeatMakesSense
      <4>. QED  BY <4>1
    <3>3. CASE /\ ~b.cancel /\ b.awaited # Nothing /\ ~TookEffect(h)
               /\ b.confirmRepeats < UnactedRepeats
               /\ w.awaited = b.awaited /\ w.repeat = b.awaited
               /\ w.confirmRepeats = b.confirmRepeats + 1
      <4>1. RepeatMakesSense(w)
        BY <1>1, <1>2, <3>1, <3>3, Zenon DEF RepeatMakesSense, TookEffect
      <4>2. Again(b, rx, a)
        BY <1>2, <1>4, <1>5, <2>4, <3>1, <3>3, <4>1, Zenon DEF Again, Idle
      <4>. QED  BY <4>2
    <3>4. CASE /\ \/ b.cancel
                  \/ b.awaited # Nothing /\ (TookEffect(h) \/ timing = "giveup")
                  \/ b.awaited = Nothing
               /\ w.awaited = Nothing /\ w.repeat = Nothing
      <4>1. Done(b, rx, timing, stale, a)
        BY <1>1, <1>4, <1>5, <2>4, <3>1, <3>4, Zenon DEF Done, TookEffect, RepeatMakesSense
      <4>. QED  BY <4>1
    <3>. QED  BY <1>2, <2>4, <3>1, <3>2, <3>3, <3>4, Zenon
  <2>. QED  BY <2>1, <2>2, <2>3, <2>4, Zenon
<1>. QED  BY <1>5, <1>6, Zenon DEF a, s, p, w, h, SetCommandValuesToRead

\* What any other poll makes of it: the watch goes on, the last answer is forgotten.
LEMMA OtherFields ==
    ASSUME NEW b \in Codec, b.repeat = Nothing, NEW rx \in Counter
    PROVE  LET a == AdvanceCounter(Begin(b, rx, "other")) IN
           /\ a \in Codec /\ a.slot = b.slot /\ a.repeat = Nothing /\ a.cancel = b.cancel
           /\ a.counting /\ a.previous = rx /\ a.counter # rx
           /\ a.lastSent = Nothing /\ a.awaited = b.awaited
           /\ b.awaited # Nothing => /\ a.acted = b.acted /\ a.repeatsSent = b.repeatsSent
                                    /\ a.confirmRepeats = b.confirmRepeats
<1> DEFINE h == Begin(b, rx, "other")
           a == AdvanceCounter(h)
<1>1. /\ h \in Codec /\ h.lastSent = Nothing /\ h.counter = rx /\ h.counting
      /\ h.slot = b.slot /\ h.cancel = b.cancel /\ h.acted = b.acted
      /\ h.confirmRepeats = b.confirmRepeats
      /\ h.repeat = Nothing /\ h.awaited = b.awaited /\ h.repeatsSent = b.repeatsSent
  BY BeginFields
<1>. HIDE DEF h
<1>2. /\ a \in Codec /\ a.slot = h.slot /\ a.repeat = h.repeat /\ a.cancel = h.cancel
      /\ a.counting = h.counting /\ a.previous = rx /\ a.counter # rx
      /\ a.lastSent = h.lastSent /\ a.awaited = h.awaited
      /\ ~Idle(h) => /\ a.acted = h.acted /\ a.repeatsSent = h.repeatsSent
                     /\ a.confirmRepeats = h.confirmRepeats
  BY <1>1, AdvanceFields
<1>. HIDE DEF a
<1>. QED  BY <1>1, <1>2, Zenon DEF a, h, Idle

\* What a status poll makes of it while a pause is announced: nothing is watched.
LEMMA PausedFields ==
    ASSUME NEW b \in Codec, b.repeat = Nothing, NEW rx \in Counter
    PROVE  LET a == AdvanceCounter(PausedAnswer(Begin(b, rx, "status"))) IN
           /\ a \in Codec /\ a.slot = b.slot /\ a.repeat = Nothing /\ a.cancel = b.cancel
           /\ a.lastSent = Nothing /\ a.awaited = Nothing
<1> DEFINE h == Begin(b, rx, "status")
           s == PausedAnswer(h)
           a == AdvanceCounter(s)
<1>1. /\ h \in Codec /\ h.lastSent = Nothing /\ h.slot = b.slot /\ h.cancel = b.cancel
  BY BeginFields
<1>2. Nothing \in PressInfo
  BY DEF Nothing, PressInfo
<1>3. s = [h EXCEPT !.awaited = Nothing, !.repeat = Nothing]
  BY DEF PausedAnswer, StopWatching
<1>. HIDE DEF h, s
<1>4. /\ s \in Codec /\ s.lastSent = Nothing /\ s.awaited = Nothing /\ s.repeat = Nothing
      /\ s.slot = b.slot /\ s.cancel = b.cancel
  BY <1>1, <1>2, <1>3, Zenon DEF Codec
<1>5. /\ a \in Codec /\ a.slot = s.slot /\ a.repeat = s.repeat /\ a.cancel = s.cancel
      /\ a.lastSent = s.lastSent /\ a.awaited = s.awaited
  BY <1>4, AdvanceFields
<1>. QED  BY <1>4, <1>5, Zenon DEF a, s, h

\* Between polls no repeat waits.
LEMMA AtRest ==
    ASSUME NEW b
    PROVE  (b \in Codec /\ b.repeat = Nothing) <=>
           b \in [slot : PressInfo, cancel : BOOLEAN,
                  counting : BOOLEAN, counter : Counter, previous : Counter,
                  lastSent : PressInfo, awaited : PressInfo, repeat : {Nothing},
                  acted : BOOLEAN, repeatsSent : 0 .. LostAnswerRepeats,
                  confirmRepeats : 0 .. UnactedRepeats]
<1>1. Nothing \in PressInfo
  BY DEF Nothing, PressInfo
<1>. QED  BY <1>1, Zenon DEF Codec

-------------------------------------------------------------------------------
(* The inductive invariants.                                                   *)

\* The presses there are: what can wait, and what can be sent, which is never a stop.
Queued  == {Nothing} \cup [id : 1 .. accepted, cmd : Press]
Carried == {Nothing} \cup [id : 1 .. accepted, cmd : Command]

\* What can still reach the drive out of what the codec remembers.
Remembered == {bridge.lastSent, bridge.awaited}
Live(id) == \E p \in Remembered : p # Nothing /\ p.id = id

\* What waits is newer than what was sent, what was sent is no older than what
\* arrived, and one press at most is remembered of those that were sent.
OrderInv ==
    /\ bridge.slot \in Queued /\ bridge.lastSent \in Carried /\ bridge.awaited \in Carried
    /\ bridge.slot # Nothing => /\ bridge.slot.id > received
                               /\ bridge.slot.id > bridge.lastSent.id
                               /\ bridge.slot.id > bridge.awaited.id
    /\ \A p \in Remembered : p # Nothing => p.id >= received
    /\ bridge.lastSent # Nothing /\ bridge.awaited # Nothing => bridge.lastSent = bridge.awaited

\* Each copy of a press that can still be repeated was paid for by a repeat.
CopiesInv ==
    /\ copies <= 1 + LostAnswerRepeats + UnactedRepeats
    /\ Live(received) => copies <= 1 + bridge.repeatsSent + bridge.confirmRepeats

\* With a drive that holds its counter the repeats that make good a lost answer
\* pay for no copy: it stands where the last answer left it only if that answer
\* was lost.
ReceiptInv ==
    drive.kind.holds /\ driveRestarts = 0 =>
        /\ copies <= 1 + UnactedRepeats
        /\ Live(received) => copies <= 1 + bridge.confirmRepeats
        /\ (/\ bridge.lastSent # Nothing /\ bridge.lastSent.id = received
            /\ drive.counter = bridge.previous) => copies <= bridge.confirmRepeats

\* What can still be sent is newer than the last pause that was told, and no older
\* than the last stop, unless that stop waits and will end the watch.
OutdatedInv ==
    /\ bridge.slot # Nothing => bridge.slot.id >= stopped /\ bridge.slot.id > quieted
    /\ \A p \in Remembered : p # Nothing =>
          /\ p.id > quieted
          /\ p.id >= stopped \/ bridge.slot.cmd = "STOP"
    /\ pauseRequested => loop # "idle"
    /\ loop # "idle" => bridge.slot = Nothing

\* What is sent is watched until it is made good, a stop ends the watch of older
\* presses only, and between polls the two counters differ.
SentInv ==
    /\ bridge.cancel => bridge.lastSent.id < accepted /\ bridge.awaited.id < accepted
    /\ bridge.lastSent # Nothing => bridge.counting /\ bridge.counter # bridge.previous
    /\ bridge.lastSent # Nothing /\ bridge.repeatsSent = 0 => bridge.awaited = bridge.lastSent

\* The newest press waits, or it was in the answer just lost, or it is watched.
Waits   == /\ bridge.slot.id = accepted
           /\ loss.answers = 0 /\ ~loss.unnoticed /\ loss.counter = NoCounter
WasLost == /\ bridge.lastSent.id = accepted
           /\ loss.answers <= LostAnswerRepeats /\ loss.counter = bridge.previous
IsWatched == /\ bridge.lastSent = Nothing /\ bridge.awaited.id = accepted
             /\ loss.unnoticed /\ loss.counter = NoCounter

\* Sent, it has been lost as often as it was sent, and the door has not shown it.
LostEachTime ==
    /\ \A p \in {bridge.slot} \cup Remembered : p.id = accepted => ~Reached(p.cmd, door, FALSE)
    /\ Live(accepted) =>
          /\ ~bridge.acted
          /\ loss.answers = 1 + bridge.repeatsSent + bridge.confirmRepeats
          /\ loss.unnoticed => loss.answers <= UnactedRepeats

\* The newest press, when it has not arrived and there is no reason for that.
LossInv ==
    received < accepted /\ ~loss.excused => LostEachTime /\ (Waits \/ WasLost \/ IsWatched)

\* A pause in progress has no acknowledgement but its own, or is marked late.
PauseInv ==
    /\ loop = "waiting" /\ ~late => drive.owes \in {0, pauses}
    /\ loop = "acknowledged" => pauseConfirmed

\* The inductive invariant.
IInv ==
    /\ TypeOK /\ OrderInv /\ CopiesInv /\ ReceiptInv /\ OutdatedInv
    /\ SentInv /\ LossInv /\ PauseInv /\ AcknowledgedByItsOwn

-------------------------------------------------------------------------------
(* The actions, in terms of the fields.                                        *)

\* A status poll that is not told of a pause.
LEMMA StatusBridge ==
    ASSUME TypeOK, NEW timing \in Timing, NEW stale \in BOOLEAN, NEW answered \in BOOLEAN,
           StatusPoll(timing, stale, answered)
    PROVE  /\ bridge' \in Codec /\ bridge'.slot = Nothing /\ bridge'.repeat = Nothing
           /\ ~bridge'.cancel /\ bridge'.counting
           /\ bridge'.previous = drive.counter /\ bridge'.counter # drive.counter
           /\ \/ Fresh(bridge, bridge') \/ MadeGood(bridge, drive.counter, bridge')
              \/ Again(bridge, drive.counter, bridge') \/ Watched(bridge, drive.counter, bridge')
              \/ Done(bridge, drive.counter, timing, stale, bridge')
           /\ Receives(bridge'.lastSent, answered)
           /\ Reckon(bridge'.lastSent, "status", answered,
                     \/ stale \/ timing = "giveup"
                     \/ bridge.slot.cmd = "STOP" /\ ~Moving(door))
<1> DEFINE s == SetCommandValuesToRead(Begin(bridge, drive.counter, "status"), timing, stale)
<1>1. bridge \in Codec /\ bridge.repeat = Nothing /\ drive.counter \in Counter
  BY AtRest DEF TypeOK
<1>2. /\ bridge' = AdvanceCounter(s)
      /\ Receives(s.lastSent, answered)
      /\ Reckon(s.lastSent, "status", answered,
                \/ stale \/ timing = "giveup"
                \/ bridge.slot.cmd = "STOP" /\ ~Moving(door))
  BY Zenon DEF StatusPoll
<1>3. LET a == AdvanceCounter(s) IN
      /\ a.lastSent = s.lastSent
      /\ a \in Codec /\ a.slot = Nothing /\ a.repeat = Nothing /\ ~a.cancel
      /\ a.counting /\ a.previous = drive.counter /\ a.counter # drive.counter
      /\ \/ Fresh(bridge, a) \/ MadeGood(bridge, drive.counter, a)
         \/ Again(bridge, drive.counter, a) \/ Watched(bridge, drive.counter, a)
         \/ Done(bridge, drive.counter, timing, stale, a)
  BY <1>1, PollFields
<1>. HIDE DEF s
<1>. QED  BY <1>2, <1>3, Zenon

\* A poll that carries no command forgets what was sent, and goes on watching.
LEMMA OtherBridge ==
    ASSUME TypeOK, bridge' = AdvanceCounter(Begin(bridge, drive.counter, "other"))
    PROVE  /\ bridge' \in Codec /\ bridge'.slot = bridge.slot /\ bridge'.repeat = Nothing
           /\ bridge'.cancel = bridge.cancel /\ bridge'.counting
           /\ bridge'.previous = drive.counter /\ bridge'.counter # drive.counter
           /\ bridge'.lastSent = Nothing /\ bridge'.awaited = bridge.awaited
           /\ bridge.awaited # Nothing => /\ bridge'.acted = bridge.acted
                                         /\ bridge'.repeatsSent = bridge.repeatsSent
                                         /\ bridge'.confirmRepeats = bridge.confirmRepeats
<1>1. bridge \in Codec /\ bridge.repeat = Nothing /\ drive.counter \in Counter
  BY AtRest DEF TypeOK
<1>. QED  BY <1>1, OtherFields

\* A status poll that is told of a pause forgets what was sent, and the watch.
LEMMA PausedBridge ==
    ASSUME TypeOK, NEW answered \in BOOLEAN, PausedPoll(answered)
    PROVE  /\ bridge' \in Codec /\ bridge'.slot = bridge.slot /\ bridge'.repeat = Nothing
           /\ bridge'.cancel = bridge.cancel
           /\ bridge'.lastSent = Nothing /\ bridge'.awaited = Nothing
<1>1. bridge \in Codec /\ bridge.repeat = Nothing /\ drive.counter \in Counter
  BY AtRest DEF TypeOK
<1>2. bridge' = AdvanceCounter(PausedAnswer(Begin(bridge, drive.counter, "status")))
  BY DEF PausedPoll
<1>. QED  BY <1>1, <1>2, PausedFields

\* A press takes the slot; a stop ends the watch with the next poll.
LEMMA AcceptBridge ==
    ASSUME TypeOK, NEW press \in PressInfo,
           bridge' = [bridge EXCEPT !.slot = press, !.cancel = @ \/ press.cmd = "STOP"]
    PROVE  /\ bridge' \in Codec /\ bridge'.slot = press /\ bridge'.repeat = Nothing
           /\ bridge'.cancel <=> (bridge.cancel \/ press.cmd = "STOP")
           /\ bridge'.counting = bridge.counting /\ bridge'.counter = bridge.counter
           /\ bridge'.previous = bridge.previous /\ bridge'.acted = bridge.acted
           /\ bridge'.lastSent = bridge.lastSent /\ bridge'.awaited = bridge.awaited
           /\ bridge'.repeatsSent = bridge.repeatsSent
           /\ bridge'.confirmRepeats = bridge.confirmRepeats
<1>1. bridge \in Codec /\ bridge.repeat = Nothing
  BY AtRest DEF TypeOK
<1> DEFINE cancel == bridge.cancel \/ press.cmd = "STOP"
<1>2. cancel \in BOOLEAN
  OBVIOUS
<1>3. bridge' = [bridge EXCEPT !.slot = press, !.cancel = cancel]
  OBVIOUS
<1>. HIDE DEF cancel
<1>4. /\ bridge' \in Codec /\ bridge'.slot = press /\ bridge'.repeat = Nothing
      /\ bridge'.cancel = cancel
      /\ bridge'.counting = bridge.counting /\ bridge'.counter = bridge.counter
      /\ bridge'.previous = bridge.previous /\ bridge'.acted = bridge.acted
      /\ bridge'.lastSent = bridge.lastSent /\ bridge'.awaited = bridge.awaited
      /\ bridge'.repeatsSent = bridge.repeatsSent
      /\ bridge'.confirmRepeats = bridge.confirmRepeats
  BY <1>1, <1>2, <1>3, Zenon DEF Codec
<1>. QED  BY <1>4, Zenon DEF cancel

\* The slot is emptied, and nothing else.
LEMMA DropBridge ==
    ASSUME TypeOK, bridge' = [bridge EXCEPT !.slot = Nothing]
    PROVE  /\ bridge' \in Codec /\ bridge'.slot = Nothing /\ bridge'.repeat = Nothing
           /\ bridge'.cancel = bridge.cancel
           /\ bridge'.counting = bridge.counting /\ bridge'.counter = bridge.counter
           /\ bridge'.previous = bridge.previous /\ bridge'.acted = bridge.acted
           /\ bridge'.lastSent = bridge.lastSent /\ bridge'.awaited = bridge.awaited
           /\ bridge'.repeatsSent = bridge.repeatsSent
           /\ bridge'.confirmRepeats = bridge.confirmRepeats
<1>1. bridge \in Codec /\ bridge.repeat = Nothing /\ Nothing \in PressInfo
  BY AtRest DEF TypeOK, Nothing, PressInfo
<1>. QED  BY <1>1, Zenon DEF Codec

\* A door that changed is noted while a command is remembered.
LEMMA BroadcastBridge ==
    ASSUME TypeOK, NEW state \in Doors, NEW noise \in BOOLEAN, Broadcast(state, noise)
    PROVE  /\ bridge' \in Codec /\ bridge'.slot = bridge.slot /\ bridge'.repeat = Nothing
           /\ bridge'.cancel = bridge.cancel
           /\ bridge'.counting = bridge.counting /\ bridge'.counter = bridge.counter
           /\ bridge'.previous = bridge.previous
           /\ bridge'.lastSent = bridge.lastSent /\ bridge'.awaited = bridge.awaited
           /\ bridge'.repeatsSent = bridge.repeatsSent
           /\ bridge'.confirmRepeats = bridge.confirmRepeats
           /\ noise \/ state # door \/ (bridge'.acted = bridge.acted)
<1>1. bridge \in Codec /\ bridge.repeat = Nothing
  BY AtRest DEF TypeOK
<1> DEFINE acted == bridge.acted \/ ((noise \/ state # door) /\ ~Idle(bridge))
<1>2. acted \in BOOLEAN /\ bridge.acted \in BOOLEAN
  BY <1>1 DEF Codec
<1>3. bridge' = [bridge EXCEPT !.acted = acted]
  BY DEF Broadcast
<1>4. noise \/ state # door \/ (acted = bridge.acted)
  BY <1>2, Zenon
<1>. HIDE DEF acted
<1>. QED  BY <1>1, <1>2, <1>3, <1>4, Zenon DEF Codec

-------------------------------------------------------------------------------
(* The types.                                                                  *)

\* The history of the newest press.
LossInfo == [answers : Nat, counter : 0 .. NoCounter, unnoticed : BOOLEAN, excused : BOOLEAN]

\* As the history begins nothing was lost, and settled it has an excuse.
LEMMA LossFields ==
    /\ NoLoss \in LossInfo /\ NoLoss.answers = 0 /\ NoLoss.counter = NoCounter
    /\ NoLoss.unnoticed = FALSE /\ NoLoss.excused = FALSE
    /\ Settled \in LossInfo /\ Settled.excused = TRUE
<1>1. NoCounter \in 0 .. NoCounter /\ 0 \in Nat
  BY ExchangeAssumption DEF NoCounter
<1>2. /\ NoLoss \in LossInfo /\ NoLoss.answers = 0 /\ NoLoss.counter = NoCounter
      /\ NoLoss.unnoticed = FALSE /\ NoLoss.excused = FALSE
  BY <1>1, Zenon DEF NoLoss, LossInfo
<1>3. Settled = [NoLoss EXCEPT !.excused = TRUE]
  BY DEF Settled
<1>4. Settled \in LossInfo /\ Settled.excused = TRUE
  BY <1>2, <1>3, Zenon DEF LossInfo
<1>. QED  BY <1>2, <1>4

\* A drive counts within its range.
LEMMA CountsOn ==
    ASSUME TypeOK, NEW answered \in BOOLEAN, NEW c \in CounterAfter(answered)
    PROVE  /\ c \in Counter
           /\ drive.kind.holds => c = IF answered THEN CountOn(drive.counter) ELSE drive.counter
           /\ CountOn(drive.counter) # drive.counter
<1>1. drive.counter \in Counter /\ CounterMax \in Nat \ {0, 1}
  BY ExchangeAssumption DEF TypeOK
<1>2. CountOn(drive.counter) \in Counter /\ CountOn(drive.counter) # drive.counter
  BY <1>1 DEF CountOn, Counter
<1>. QED  BY <1>1, <1>2 DEF CounterAfter

\* The history of the newest press has its type whatever an exchange adds to it.
LEMMA ReckonType ==
    ASSUME TypeOK, NEW sent, NEW kind, NEW answered \in BOOLEAN, NEW excuse \in BOOLEAN,
           Reckon(sent, kind, answered, excuse)
    PROVE  loss' \in LossInfo
<1> DEFINE lost      == sent.id = accepted /\ sent # Nothing /\ ~answered
           answers   == loss.answers + (IF lost THEN 1 ELSE 0)
           unnoticed == loss.unnoticed \/ Overlooked(kind)
           counter   == IF lost THEN drive.counter ELSE NoCounter
           new       == [answers |-> answers, unnoticed |-> unnoticed, excused |-> FALSE,
                         counter |-> counter]
<1>1. loss \in LossInfo /\ drive.counter \in Counter /\ CounterMax \in Nat
  BY ExchangeAssumption DEF TypeOK, LossInfo
<1>2. answers \in Nat /\ counter \in 0 .. NoCounter
  BY <1>1 DEF LossInfo, Counter, NoCounter
<1>3. unnoticed \in BOOLEAN
  BY Zenon
<1>4. Settled \in LossInfo
  BY LossFields
<1>5. loss' = Settled \/ loss' = new
  BY Zenon DEF Reckon
<1>. HIDE DEF answers, unnoticed, counter
<1>6. new \in LossInfo
  BY <1>2, <1>3, Zenon DEF LossInfo
<1>. QED  BY <1>4, <1>5, <1>6, Zenon

\* What a press reaching the drive does to the count of copies.
LEMMA ReceivesType ==
    ASSUME TypeOK, NEW press \in PressInfo, press.id <= accepted, NEW answered \in BOOLEAN,
           Receives(press, answered)
    PROVE  received' \in 0 .. accepted /\ copies' \in Nat
<1>1. /\ received \in 0 .. accepted /\ copies \in Nat /\ accepted \in Nat
      /\ press.id \in Nat
  BY DEF TypeOK, PressInfo
<1>. QED  BY <1>1 DEF Receives, arrivalVars

\* The exchange as the codec is constructed has the types.
LEMMA TypeInit == Init => TypeOK
<1>. SUFFICES ASSUME Init PROVE TypeOK  OBVIOUS
<1>1. /\ 0 \in Counter /\ 0 \in Nat /\ 0 \in 0 .. 0 /\ NoCounter \in 0 .. NoCounter
      /\ 0 \in 0 .. LostAnswerRepeats /\ 0 \in 0 .. UnactedRepeats
      /\ Nothing \in PressInfo /\ Nothing.cmd = "NONE"
  BY ExchangeAssumption DEF Counter, NoCounter, Nothing, PressInfo
<1>2. bridge = Bridge
  BY DEF Init
<1>3. /\ bridge \in Codec /\ bridge.repeat = Nothing
      /\ "STOP" \notin {bridge.lastSent.cmd, bridge.awaited.cmd}
  <2>1. /\ bridge \in Codec /\ bridge.repeat = Nothing
        /\ bridge.lastSent = Nothing /\ bridge.awaited = Nothing
    BY <1>1, <1>2, Zenon DEF Codec, Bridge
  <2>. QED  BY <1>1, <2>1
<1>4. loss \in LossInfo
  BY LossFields DEF Init
<1>5. drive \in [counter : Counter, kind : Drives, owes : 0 .. pauses]
  BY <1>1 DEF Init
<1>6. door \in DoorState
  BY ExchangeAssumption DEF Init
<1>. QED  BY <1>1, <1>3, <1>4, <1>5, <1>6, AtRest DEF TypeOK, Init, LossInfo

\* The type invariant in parts, so that a step can keep one at a time.
CodecTypes ==
    /\ bridge \in Codec /\ bridge.repeat = Nothing
    /\ "STOP" \notin {bridge.lastSent.cmd, bridge.awaited.cmd}

DriveTypes == drive \in [counter : Counter, kind : Drives, owes : 0 .. pauses]

LossTypes == loss \in LossInfo

OtherTypes ==
    /\ door \in DoorState /\ valid \in BOOLEAN
    /\ loop \in {"idle", "request", "clear", "waiting", "acknowledged", "timedOut"}
    /\ pauseRequested \in BOOLEAN /\ pauseConfirmed \in BOOLEAN
    /\ accepted \in Nat /\ received \in 0 .. accepted /\ copies \in Nat
    /\ stopped \in 0 .. accepted /\ quieted \in 0 .. accepted
    /\ pauses \in Nat /\ confirmedBy \in 0 .. pauses /\ late \in BOOLEAN
    /\ driveRestarts \in Nat

\* The parts are the whole, before a step and after it.
LEMMA TypeParts ==
    /\ TypeOK <=> CodecTypes /\ DriveTypes /\ LossTypes /\ OtherTypes
    /\ TypeOK' <=> CodecTypes' /\ DriveTypes' /\ LossTypes' /\ OtherTypes'
<1>1. TypeOK <=> CodecTypes /\ DriveTypes /\ LossTypes /\ OtherTypes
  BY AtRest, Zenon DEF TypeOK, CodecTypes, DriveTypes, LossTypes, LossInfo, OtherTypes
<1>2. TypeOK' <=> CodecTypes' /\ DriveTypes' /\ LossTypes' /\ OtherTypes'
  BY AtRest, Zenon DEF TypeOK, CodecTypes, DriveTypes, LossTypes, LossInfo, OtherTypes
<1>. QED  BY <1>1, <1>2

\* A drive that counts or owes something else is still one.
LEMMA DriveKept ==
    ASSUME DriveTypes, pauses' = pauses, NEW c \in Counter, NEW owes \in 0 .. pauses,
           drive' = [drive EXCEPT !.counter = c, !.owes = owes]
    PROVE  DriveTypes' /\ drive'.counter = c /\ drive'.kind = drive.kind /\ drive'.owes = owes
BY Zenon DEF DriveTypes

\* A drive that keeps its counter until it is answered counts on only then.
LEMMA DriveCounts ==
    ASSUME TypeOK, pauses' = pauses, NEW answered \in BOOLEAN,
           \E c \in CounterAfter(answered) : drive' = [drive EXCEPT !.counter = c]
    PROVE  /\ DriveTypes' /\ drive'.kind = drive.kind /\ drive'.owes = drive.owes
           /\ drive.kind.holds =>
                drive'.counter = IF answered THEN CountOn(drive.counter) ELSE drive.counter
<1>1. PICK c \in CounterAfter(answered) : drive' = [drive EXCEPT !.counter = c]
  OBVIOUS
<1>2. DriveTypes
  BY TypeParts
<1>3. /\ c \in Counter
      /\ drive.kind.holds => c = IF answered THEN CountOn(drive.counter) ELSE drive.counter
  BY CountsOn
<1>4. DriveTypes' /\ drive'.counter = c /\ drive'.kind = drive.kind /\ drive'.owes = drive.owes
  BY <1>1, <1>2, <1>3, Zenon DEF DriveTypes
<1>. QED  BY <1>3, <1>4

\* So does one that owes something else once it is answered.
LEMMA DriveAnswers ==
    ASSUME TypeOK, pauses' = pauses, NEW answered \in BOOLEAN, NEW owes \in 0 .. pauses,
           \E c \in CounterAfter(answered) :
              drive' = [drive EXCEPT !.counter = c, !.owes = IF answered THEN owes ELSE @]
    PROVE  /\ DriveTypes' /\ drive'.kind = drive.kind
           /\ drive'.owes = (IF answered THEN owes ELSE drive.owes)
           /\ drive.kind.holds =>
                drive'.counter = IF answered THEN CountOn(drive.counter) ELSE drive.counter
<1>1. PICK c \in CounterAfter(answered) :
         drive' = [drive EXCEPT !.counter = c, !.owes = IF answered THEN owes ELSE drive.owes]
  OBVIOUS
<1>2. DriveTypes
  BY TypeParts
<1>3. /\ c \in Counter
      /\ drive.kind.holds => c = IF answered THEN CountOn(drive.counter) ELSE drive.counter
  BY CountsOn
<1>4. (IF answered THEN owes ELSE drive.owes) \in 0 .. pauses
  BY <1>2 DEF DriveTypes
<1>5. /\ DriveTypes' /\ drive'.counter = c /\ drive'.kind = drive.kind
      /\ drive'.owes = (IF answered THEN owes ELSE drive.owes)
  BY <1>1, <1>2, <1>3, <1>4, DriveKept
<1>. QED  BY <1>3, <1>5

\* What the codec remembers are presses that were accepted, and no stop among those sent.
LEMMA KnownPresses ==
    ASSUME TypeOK, OrderInv
    PROVE  /\ \A p \in {bridge.slot} \cup Remembered :
                p \in PressInfo /\ p.id \in 0 .. accepted /\ (p # Nothing => p.id > 0)
           /\ \A p \in Remembered : p.cmd # "STOP"
<1>1. accepted \in Nat
  BY DEF TypeOK
<1>2. /\ bridge.slot \in Queued /\ bridge.lastSent \in Carried /\ bridge.awaited \in Carried
  BY DEF OrderInv
<1>3. /\ \A p \in Queued : p \in PressInfo /\ p.id \in 0 .. accepted /\ (p # Nothing => p.id > 0)
      /\ \A p \in Carried : p \in Queued /\ p.cmd # "STOP"
  BY <1>1 DEF Queued, Carried, Nothing, PressInfo, Press, Command
<1>. QED  BY <1>2, <1>3 DEF Remembered

\* A status poll keeps the types.
LEMMA TypeStatus ==
    ASSUME TypeOK, OrderInv,
           NEW timing \in Timing, NEW stale \in BOOLEAN, NEW answered \in BOOLEAN,
           StatusPoll(timing, stale, answered)
    PROVE  TypeOK'
<1> DEFINE excuse == \/ stale \/ timing = "giveup"
                     \/ bridge.slot.cmd = "STOP" /\ ~Moving(door)
<1>1. /\ bridge' \in Codec /\ bridge'.repeat = Nothing
      /\ \/ Fresh(bridge, bridge') \/ MadeGood(bridge, drive.counter, bridge')
         \/ Again(bridge, drive.counter, bridge') \/ Watched(bridge, drive.counter, bridge')
         \/ Done(bridge, drive.counter, timing, stale, bridge')
      /\ Receives(bridge'.lastSent, answered)
      /\ Reckon(bridge'.lastSent, "status", answered, excuse)
  BY StatusBridge
<1>. HIDE DEF excuse
<1>2. /\ bridge.slot.id \in 0 .. accepted
      /\ bridge.lastSent.id \in 0 .. accepted /\ bridge.lastSent.cmd # "STOP"
      /\ bridge.awaited.id \in 0 .. accepted /\ bridge.awaited.cmd # "STOP"
      /\ Nothing.id = 0 /\ Nothing.cmd = "NONE" /\ accepted \in Nat
  BY KnownPresses DEF Remembered, Nothing, TypeOK
<1>3. /\ bridge'.lastSent.id <= accepted
      /\ "STOP" \notin {bridge'.lastSent.cmd, bridge'.awaited.cmd}
  <2>1. CASE Fresh(bridge, bridge')
    BY <1>2, <2>1 DEF Fresh
  <2>2. CASE MadeGood(bridge, drive.counter, bridge')
    BY <1>2, <2>2 DEF MadeGood
  <2>3. CASE Again(bridge, drive.counter, bridge')
    BY <1>2, <2>3 DEF Again
  <2>4. CASE Watched(bridge, drive.counter, bridge')
    BY <1>2, <2>4 DEF Watched
  <2>5. CASE Done(bridge, drive.counter, timing, stale, bridge')
    BY <1>2, <2>5 DEF Done
  <2>. QED  BY <1>1, <2>1, <2>2, <2>3, <2>4, <2>5
<1>4. LossTypes'
  <2>1. excuse \in BOOLEAN
    BY Zenon DEF excuse
  <2>. QED  BY <1>1, <2>1, ReckonType DEF LossTypes
<1>5. received' \in 0 .. accepted /\ copies' \in Nat
  <2>1. bridge'.lastSent \in PressInfo
    BY <1>1 DEF Codec
  <2>. QED  BY <1>1, <1>3, <2>1, ReceivesType
<1>6. /\ \E c \in CounterAfter(answered) : drive' = [drive EXCEPT !.counter = c]
      /\ valid' = TRUE /\ UNCHANGED <<door, pauseVars, pressVars, pauseHist, driveRestarts>>
  BY Zenon DEF StatusPoll
<1>7. DriveTypes'
  BY <1>6, DriveCounts DEF pauseHist
<1>8. OtherTypes'
  BY <1>5, <1>6, TypeParts DEF OtherTypes, pauseVars, pressVars, pauseHist
<1>. QED  BY <1>1, <1>3, <1>4, <1>7, <1>8, TypeParts DEF CodecTypes

\* So does any other exchange, and what the loop does.
LEMMA TypeStep == TypeOK /\ OrderInv /\ [Next]_vars => TypeOK'
<1>. SUFFICES ASSUME TypeOK, OrderInv, [Next]_vars PROVE TypeOK'  OBVIOUS
<1>0. CodecTypes /\ DriveTypes /\ LossTypes /\ OtherTypes
  BY TypeParts
<1>1. ASSUME CodecTypes', DriveTypes', LossTypes', OtherTypes'
      PROVE  TypeOK'
  BY <1>1, TypeParts
<1>2. /\ UNCHANGED bridge => CodecTypes'
      /\ UNCHANGED <<drive, pauses>> => DriveTypes'
      /\ UNCHANGED loss => LossTypes'
  BY <1>0 DEF CodecTypes, DriveTypes, LossTypes
<1> USE DEF vars, pauseVars, pressVars, pauseHist, arrivalVars, codecVars
<1>3. CASE UNCHANGED vars
  BY <1>0, <1>1, <1>2, <1>3 DEF OtherTypes
<1>4. CASE RequestLost
  <2>1. DriveTypes'
    BY <1>4, DriveCounts DEF RequestLost
  <2>. QED  BY <1>0, <1>1, <1>2, <1>4, <2>1 DEF RequestLost, OtherTypes
<1>5. ASSUME NEW timing \in Timing, NEW stale \in BOOLEAN, NEW answered \in BOOLEAN,
             StatusPoll(timing, stale, answered)
      PROVE  TypeOK'
  BY <1>5, TypeStatus
<1>6. ASSUME NEW answered \in BOOLEAN, PausedPoll(answered)
      PROVE  TypeOK'
  <2>1. CodecTypes'
    BY <1>6, PausedBridge DEF Nothing, CodecTypes
  <2>2. LossTypes'
    BY <1>6, ReckonType DEF PausedPoll, LossTypes
  <2>3. DriveTypes'
    <3>1. pauses \in 0 .. pauses /\ pauses' = pauses
      BY <1>0, <1>6 DEF OtherTypes, PausedPoll
    <3>2. \E c \in CounterAfter(answered) :
             drive' = [drive EXCEPT !.counter = c, !.owes = IF answered THEN pauses ELSE @]
      BY <1>6, Zenon DEF PausedPoll
    <3>. QED  BY <3>1, <3>2, DriveAnswers
  <2>. QED  BY <1>0, <1>1, <1>6, <2>1, <2>2, <2>3 DEF PausedPoll, OtherTypes
<1>7. ASSUME NEW answered \in BOOLEAN, OtherPoll(answered)
      PROVE  TypeOK'
  <2>1. CodecTypes'
    BY <1>0, <1>7, OtherBridge DEF OtherPoll, Nothing, CodecTypes
  <2>2. LossTypes'
    BY <1>7, ReckonType DEF OtherPoll, LossTypes
  <2>3. DriveTypes'
    BY <1>7, DriveCounts DEF OtherPoll
  <2>. QED  BY <1>0, <1>1, <1>7, <2>1, <2>2, <2>3 DEF OtherPoll, OtherTypes
<1>8. ASSUME NEW answered \in BOOLEAN, PauseAck(answered)
      PROVE  TypeOK'
  <2>1. CodecTypes'
    BY <1>0, <1>8, OtherBridge DEF PauseAck, Nothing, CodecTypes
  <2>2. LossTypes'
    BY <1>8, ReckonType DEF PauseAck, LossTypes
  <2>3. DriveTypes'
    <3>1. 0 \in 0 .. pauses /\ pauses' = pauses
      BY <1>0, <1>8 DEF OtherTypes, PauseAck
    <3>2. \E c \in CounterAfter(answered) :
             drive' = [drive EXCEPT !.counter = c, !.owes = IF answered THEN 0 ELSE @]
      BY <1>8, Zenon DEF PauseAck
    <3>. QED  BY <3>1, <3>2, DriveAnswers
  <2>4. confirmedBy' \in 0 .. pauses
    BY <1>0, <1>8 DEF PauseAck, OtherTypes, DriveTypes
  <2>. QED  BY <1>0, <1>1, <1>8, <2>1, <2>2, <2>3, <2>4 DEF PauseAck, OtherTypes
<1>9. ASSUME NEW state \in Doors, NEW noise \in BOOLEAN, Broadcast(state, noise)
      PROVE  TypeOK'
  <2>1. CodecTypes'
    BY <1>0, <1>9, BroadcastBridge DEF CodecTypes
  <2>2. LossTypes'
    BY <1>0, <1>9, LossFields DEF Broadcast, LossTypes
  <2>3. OtherTypes'
    BY <1>0, <1>9, ExchangeAssumption DEF Broadcast, OtherTypes
  <2>. QED  BY <1>1, <1>2, <1>9, <2>1, <2>2, <2>3 DEF Broadcast
<1>10. CASE DriveRestarts
  <2>1. DriveTypes'
    <3>1. PICK c \in Counter : drive' = [drive EXCEPT !.counter = c, !.owes = 0]
      BY <1>10 DEF DriveRestarts
    <3>2. 0 \in 0 .. pauses
      BY <1>0 DEF OtherTypes
    <3>. QED  BY <1>0, <1>10, <3>1, <3>2, DriveKept DEF DriveRestarts
  <2>. QED  BY <1>0, <1>1, <1>2, <1>10, <2>1 DEF DriveRestarts, OtherTypes
<1>11. ASSUME NEW press \in PressInfo, press.id = accepted + 1, Accept(press),
              stopped' \in {stopped, press.id}
       PROVE  TypeOK'
  <2>1. CodecTypes'
    BY <1>0, <1>11, AcceptBridge DEF Accept, CodecTypes
  <2>2. LossTypes'
    BY <1>11, LossFields DEF Accept, LossTypes
  <2>3. OtherTypes'
    BY <1>0, <1>11 DEF Accept, OtherTypes
  <2>. QED  BY <1>1, <1>2, <1>11, <2>1, <2>2, <2>3 DEF Accept
<1>12. ASSUME NEW c \in Presses, PressCommand(c)
       PROVE  TypeOK'
  <2>1. [id |-> accepted + 1, cmd |-> c] \in PressInfo
    BY <1>0, ExchangeAssumption DEF PressInfo, OtherTypes
  <2>. QED  BY <1>11, <1>12, <2>1 DEF PressCommand
<1>13. CASE PressStop
  <2>1. [id |-> accepted + 1, cmd |-> "STOP"] \in PressInfo
    BY <1>0 DEF PressInfo, OtherTypes, Press
  <2>. QED  BY <1>11, <1>13, <2>1 DEF PressStop
<1>14. ASSUME DropQueued
       PROVE  CodecTypes' /\ LossTypes' /\ stopped' \in {0, stopped}
  <2>1. CodecTypes'
    BY <1>0, <1>14, DropBridge DEF DropQueued, CodecTypes
  <2>2. LossTypes'
    BY <1>0, <1>14, LossFields DEF DropQueued, LossTypes
  <2>. QED  BY <1>14, <2>1, <2>2 DEF DropQueued
<1>15. CASE LinkCalledDead
  <2>1. OtherTypes'
    <3>1. stopped' \in 0 .. accepted
      BY <1>0, <1>14, <1>15 DEF LinkCalledDead, OtherTypes
    <3>. QED  BY <1>0, <1>15, <3>1, Zenon DEF LinkCalledDead, OtherTypes
  <2>. QED  BY <1>1, <1>2, <1>14, <1>15, <2>1 DEF LinkCalledDead
<1>16. CASE AnnouncePause
  <2>1. OtherTypes'
    BY <1>0, <1>14, <1>16 DEF AnnouncePause, OtherTypes
  <2>. QED  BY <1>1, <1>2, <1>14, <1>16, <2>1 DEF AnnouncePause
<1>17. CASE RequestPause
  <2>1. DriveTypes'
    BY <1>0, <1>17 DEF RequestPause, DriveTypes, OtherTypes
  <2>. QED  BY <1>0, <1>1, <1>2, <1>17, <2>1 DEF RequestPause, OtherTypes
<1>18. CASE ClearConfirmed
  BY <1>0, <1>1, <1>2, <1>18 DEF ClearConfirmed, Cleared, OtherTypes
<1>19. CASE Acknowledged
  BY <1>0, <1>1, <1>2, <1>19 DEF Acknowledged, OtherTypes
<1>20. CASE TimedOut
  BY <1>0, <1>1, <1>2, <1>20 DEF TimedOut, OtherTypes
<1>21. CASE EndPause
  <2>1. OtherTypes'
    <3>1. 0 \in 0 .. pauses
      BY <1>0 DEF OtherTypes
    <3>. QED  BY <1>0, <1>21, <3>1, Zenon DEF EndPause, OtherTypes
  <2>. QED  BY <1>1, <1>2, <1>21, <2>1 DEF EndPause
<1>22. CASE BridgeRestarts
  <2>1. CodecTypes'
    <3>1. 0 \in Counter /\ 0 \in 0 .. LostAnswerRepeats /\ 0 \in 0 .. UnactedRepeats
      BY ExchangeAssumption DEF Counter
    <3>2. Nothing \in PressInfo /\ Nothing.cmd = "NONE"
      BY DEF Nothing, PressInfo
    <3>3. bridge' = Bridge
      BY <1>22 DEF BridgeRestarts
    <3>4. /\ bridge' \in Codec /\ bridge'.repeat = Nothing
          /\ bridge'.lastSent = Nothing /\ bridge'.awaited = Nothing
      BY <3>1, <3>2, <3>3, Zenon DEF Codec, Bridge
    <3>. QED  BY <3>2, <3>4 DEF CodecTypes
  <2>2. LossTypes'
    BY <1>22, LossFields DEF BridgeRestarts, LossTypes
  <2>. QED  BY <1>0, <1>1, <1>2, <1>22, <2>1, <2>2 DEF BridgeRestarts, OtherTypes
<1>. QED
  BY <1>3, <1>4, <1>5, <1>6, <1>7, <1>8, <1>9, <1>10, <1>12, <1>13, <1>15, <1>16, <1>17, <1>18,
     <1>19, <1>20, <1>21, <1>22, Zenon
  DEF Next, Exchange, LoopContinues

-------------------------------------------------------------------------------
(* Three kinds of steps: a status poll, a press, and all the others, which put *)
(* nothing new before the drive.                                               *)

\* A status poll that is not told of a pause; only it brings a press to the drive.
Polls ==
    \E timing \in Timing, stale \in BOOLEAN, answered \in BOOLEAN :
       StatusPoll(timing, stale, answered)

\* setCommand or stopDoor: a press takes the slot, and a stop takes it over.
NewPress ==
    \E press \in [id : {accepted + 1}, cmd : Press] :
       /\ Accept(press) /\ MayPress
       /\ IF press.cmd = "STOP" THEN stopped' = press.id
          ELSE bridge.slot = Nothing /\ stopped' = stopped

\* Whatever else happens, what is remembered is kept or dropped.
Forgets ==
    /\ UNCHANGED <<accepted, received, copies>>
    /\ bridge'.slot \in {bridge.slot, Nothing}
    /\ bridge'.lastSent \in {bridge.lastSent, Nothing}
    /\ bridge'.awaited \in {bridge.awaited, Nothing}
    /\ bridge'.lastSent # Nothing \/ bridge'.awaited # Nothing =>
          /\ bridge'.repeatsSent = bridge.repeatsSent
          /\ bridge'.confirmRepeats = bridge.confirmRepeats
    /\ bridge'.lastSent # Nothing => bridge'.previous = bridge.previous
    /\ drive'.kind = drive.kind
    /\ driveRestarts' = 0 => driveRestarts = 0
    /\ (drive.kind.holds /\ driveRestarts' = 0 /\ bridge'.lastSent # Nothing) =>
          drive'.counter = drive.counter

\* Both kinds of press, as one.
LEMMA PressKinds ==
    TypeOK /\ (PressStop \/ (\E c \in Presses : PressCommand(c))) => NewPress
<1>1. ASSUME NEW c \in Presses, PressCommand(c)
      PROVE  NewPress
  <2> DEFINE press == [id |-> accepted + 1, cmd |-> c]
  <2>1. press \in [id : {accepted + 1}, cmd : Press] /\ press.cmd # "STOP"
    BY <1>1, ExchangeAssumption DEF PressCommand
  <2>2. Accept(press) /\ MayPress /\ bridge.slot = Nothing /\ stopped' = stopped
    BY <1>1 DEF PressCommand
  <2>. HIDE DEF press
  <2>. QED  BY <2>1, <2>2 DEF NewPress
<1>2. ASSUME PressStop
      PROVE  NewPress
  <2> DEFINE press == [id |-> accepted + 1, cmd |-> "STOP"]
  <2>1. press \in [id : {accepted + 1}, cmd : Press] /\ press.cmd = "STOP"
    BY DEF Press
  <2>2. Accept(press) /\ MayPress /\ stopped' = press.id
    BY <1>2 DEF PressStop
  <2>. HIDE DEF press
  <2>. QED  BY <2>1, <2>2 DEF NewPress
<1>. QED  BY <1>1, <1>2

\* There are no other steps.
LEMMA StepKinds == TypeOK /\ OrderInv /\ [Next]_vars => Polls \/ NewPress \/ Forgets
<1>. SUFFICES ASSUME TypeOK, OrderInv, [Next]_vars, ~Polls, ~NewPress PROVE Forgets
  OBVIOUS
<1> USE DEF arrivalVars, pressVars, codecVars
<1>1. ASSUME UNCHANGED <<bridge, drive, accepted, received, copies, driveRestarts>>
      PROVE  Forgets
  BY <1>1 DEF Forgets
<1>2. CASE UNCHANGED vars
  BY <1>1, <1>2 DEF vars
<1>3. CASE RequestLost
  <2>1. drive'.kind = drive.kind /\ (drive.kind.holds => drive'.counter = drive.counter)
    BY <1>3, DriveCounts DEF RequestLost, pauseHist
  <2>. QED  BY <1>3, <2>1 DEF RequestLost, Forgets
<1>4. ASSUME NEW answered \in BOOLEAN, PausedPoll(answered)
      PROVE  Forgets
  <2>1. bridge'.slot = bridge.slot /\ bridge'.lastSent = Nothing /\ bridge'.awaited = Nothing
    BY <1>4, PausedBridge
  <2>2. drive'.kind = drive.kind
    BY <1>4 DEF PausedPoll, TypeOK
  <2>. QED  BY <1>4, <2>1, <2>2 DEF PausedPoll, Forgets
<1>5. ASSUME NEW answered \in BOOLEAN, OtherPoll(answered) \/ PauseAck(answered)
      PROVE  Forgets
  <2>1. /\ bridge'.slot = bridge.slot /\ bridge'.lastSent = Nothing
        /\ bridge'.awaited = bridge.awaited
        /\ bridge.awaited # Nothing => /\ bridge'.repeatsSent = bridge.repeatsSent
                                      /\ bridge'.confirmRepeats = bridge.confirmRepeats
    BY <1>5, OtherBridge DEF OtherPoll, PauseAck
  <2>2. drive'.kind = drive.kind
    BY <1>5 DEF OtherPoll, PauseAck, TypeOK
  <2>. QED  BY <1>5, <2>1, <2>2 DEF OtherPoll, PauseAck, Forgets
<1>6. ASSUME NEW state \in Doors, NEW noise \in BOOLEAN, Broadcast(state, noise)
      PROVE  Forgets
  BY <1>6, BroadcastBridge DEF Broadcast, Forgets
<1>7. CASE DriveRestarts
  <2>1. drive'.kind = drive.kind /\ driveRestarts' # 0
    BY <1>7 DEF DriveRestarts, TypeOK
  <2>. QED  BY <1>7, <2>1 DEF DriveRestarts, Forgets
<1>8. CASE PressStop \/ (\E c \in Presses : PressCommand(c))
  BY <1>8, PressKinds
<1>9. CASE LinkCalledDead \/ AnnouncePause
  BY <1>9, DropBridge DEF LinkCalledDead, AnnouncePause, DropQueued, Forgets
<1>10. CASE LoopContinues
  BY <1>1, <1>10
  DEF LoopContinues, RequestPause, ClearConfirmed, Acknowledged, TimedOut, EndPause
<1>11. CASE BridgeRestarts
  <2>1. bridge'.slot = Nothing /\ bridge'.lastSent = Nothing /\ bridge'.awaited = Nothing
    BY <1>11 DEF BridgeRestarts, Bridge
  <2>. QED  BY <1>11, <2>1 DEF BridgeRestarts, Forgets
<1>. QED
  BY <1>2, <1>3, <1>4, <1>5, <1>6, <1>7, <1>8, <1>9, <1>10, <1>11, Zenon
  DEF Next, Exchange, Polls

-------------------------------------------------------------------------------
(* The order of the presses, and how often one arrives.                        *)

\* What a status poll does to them, by what goes out.
LEMMA PollArrivals ==
    ASSUME TypeOK, OrderInv, NEW answered \in BOOLEAN, Receives(bridge'.lastSent, answered)
    PROVE  IF answered /\ bridge'.lastSent # Nothing
           THEN /\ received' = bridge'.lastSent.id
                /\ copies' = IF bridge'.lastSent.id = received THEN copies + 1 ELSE 1
           ELSE received' = received /\ copies' = copies
BY DEF Receives, arrivalVars

\* What a status poll sends is newer than what arrived, or was sent before.
LEMMA OrderPoll ==
    ASSUME TypeOK, OrderInv,
           NEW timing \in Timing, NEW stale \in BOOLEAN, NEW answered \in BOOLEAN,
           StatusPoll(timing, stale, answered)
    PROVE  OrderInv'
<1>1. /\ bridge'.slot = Nothing
      /\ \/ Fresh(bridge, bridge') \/ MadeGood(bridge, drive.counter, bridge')
         \/ Again(bridge, drive.counter, bridge') \/ Watched(bridge, drive.counter, bridge')
         \/ Done(bridge, drive.counter, timing, stale, bridge')
      /\ Receives(bridge'.lastSent, answered) /\ bridge' \in Codec
  BY StatusBridge
<1>2. accepted' = accepted
  BY DEF StatusPoll, pressVars
<1>3. received' \in {received, bridge'.lastSent.id} /\ received \in Nat /\ accepted \in Nat
  BY <1>1, PollArrivals DEF TypeOK
<1>. USE DEF OrderInv, Remembered
<1>4. CASE Fresh(bridge, bridge')
  <2>1. /\ bridge.slot.id \in 1 .. accepted /\ bridge.slot.cmd \in Press
        /\ bridge.slot.id > received
    BY <1>4 DEF Fresh, Queued
  <2>2. bridge'.lastSent \in PressInfo
    BY <1>1 DEF Codec
  <2>3. bridge'.lastSent.cmd \in Command
    BY <1>4, <2>1 DEF Fresh, Press, Command
  <2>4. bridge'.lastSent \in Carried
    BY <1>4, <2>1, <2>2, <2>3 DEF Fresh, Carried, PressInfo
  <2>5. bridge'.lastSent.id >= received'
    BY <1>3, <1>4, <2>1 DEF Fresh
  <2>. QED  BY <1>1, <1>2, <1>4, <2>4, <2>5 DEF Fresh, Queued, Carried
<1>5. CASE MadeGood(bridge, drive.counter, bridge') \/ Again(bridge, drive.counter, bridge')
  <2>1. /\ bridge'.lastSent \in Remembered /\ bridge'.awaited \in {Nothing, bridge'.lastSent}
        /\ bridge'.lastSent # Nothing
    BY <1>5 DEF MadeGood, Again, Noticed
  <2>2. bridge'.lastSent.id >= received'
    BY <1>3, <2>1 DEF Carried
  <2>. QED  BY <1>1, <1>2, <2>1, <2>2 DEF Queued, Carried
<1>6. CASE \/ Watched(bridge, drive.counter, bridge')
           \/ Done(bridge, drive.counter, timing, stale, bridge')
  <2>1. bridge'.lastSent = Nothing /\ bridge'.awaited \in {Nothing, bridge.awaited}
    BY <1>6 DEF Watched, Done
  <2>2. received' = received
    BY <1>1, <2>1, PollArrivals
  <2>. QED  BY <1>1, <1>2, <2>1, <2>2 DEF Queued, Carried
<1>. QED  BY <1>1, <1>4, <1>5, <1>6

\* No step puts an older press before a newer one.
LEMMA OrderStep == TypeOK /\ OrderInv /\ [Next]_vars => OrderInv'
<1>. SUFFICES ASSUME TypeOK, OrderInv, [Next]_vars PROVE OrderInv'  OBVIOUS
<1>1. accepted \in Nat /\ received \in 0 .. accepted
  BY DEF TypeOK
<1>2. CASE Polls
  BY <1>2, OrderPoll DEF Polls
<1>3. CASE NewPress
  <2>1. PICK press \in [id : {accepted + 1}, cmd : Press] : Accept(press)
    BY <1>3 DEF NewPress
  <2>2. press \in PressInfo
    BY <1>1, <2>1 DEF PressInfo
  <2>3. /\ bridge'.slot = press /\ bridge'.lastSent = bridge.lastSent
        /\ bridge'.awaited = bridge.awaited
    BY <2>1, <2>2, AcceptBridge DEF Accept
  <2>4. accepted' = accepted + 1 /\ received' = received
    BY <2>1 DEF Accept, arrivalVars
  <2>5. bridge'.slot \in Queued'
    BY <1>1, <2>1, <2>3, <2>4 DEF Queued
  <2>6. bridge'.lastSent \in Carried' /\ bridge'.awaited \in Carried'
    BY <1>1, <2>3, <2>4 DEF OrderInv, Carried
  <2>7. \A p \in Remembered : p.id <= accepted
    BY <1>1 DEF OrderInv, Remembered, Carried, Nothing
  <2>8. /\ \A p \in Remembered' : p # Nothing => p.id >= received'
        /\ bridge'.lastSent # Nothing /\ bridge'.awaited # Nothing =>
              bridge'.lastSent = bridge'.awaited
    BY <2>3, <2>4 DEF OrderInv, Remembered
  <2>9. /\ bridge'.slot.id > received' /\ bridge'.slot.id > bridge'.lastSent.id
        /\ bridge'.slot.id > bridge'.awaited.id
    <3>1. bridge.lastSent.id \in Nat /\ bridge.awaited.id \in Nat /\ press.id = accepted + 1
      BY <1>1, <2>1 DEF OrderInv, Carried, Nothing
    <3>. QED  BY <1>1, <2>3, <2>4, <2>7, <3>1 DEF Remembered
  <2>. QED  BY <2>5, <2>6, <2>8, <2>9 DEF OrderInv
<1>4. CASE Forgets
  <2>1. accepted' = accepted /\ received' = received
    BY <1>4 DEF Forgets
  <2>2. bridge'.slot \in Queued' /\ bridge'.lastSent \in Carried' /\ bridge'.awaited \in Carried'
    BY <1>4, <2>1 DEF Forgets, OrderInv, Queued, Carried
  <2>3. \A p \in {bridge'.lastSent, bridge'.awaited} : p \in Remembered \/ p.id = 0
    BY <1>4 DEF Forgets, Remembered, Nothing
  <2>4. bridge'.slot # Nothing => /\ bridge'.slot = bridge.slot /\ bridge.slot.id > 0
    BY <1>1, <1>4 DEF Forgets, OrderInv, Queued
  <2>. QED  BY <1>1, <1>4, <2>1, <2>2, <2>3, <2>4 DEF Forgets, OrderInv, Remembered
<1>. QED  BY <1>2, <1>3, <1>4, StepKinds

\* The numbers the two counts are made of.
LEMMA RepeatsType ==
    ASSUME TypeOK
    PROVE  /\ copies \in Nat /\ received \in Nat /\ accepted \in Nat
           /\ bridge.repeatsSent \in 0 .. LostAnswerRepeats
           /\ bridge.confirmRepeats \in 0 .. UnactedRepeats
           /\ LostAnswerRepeats \in Nat /\ UnactedRepeats \in Nat
BY ExchangeAssumption DEF TypeOK

\* A press can still be repeated if it was sent last or is watched.
LEMMA LiveOne ==
    ASSUME NEW id
    PROVE  /\ Live(id) <=> \/ bridge.lastSent # Nothing /\ bridge.lastSent.id = id
                           \/ bridge.awaited # Nothing /\ bridge.awaited.id = id
           /\ Live(id)' <=> \/ bridge'.lastSent # Nothing /\ bridge'.lastSent.id = id'
                            \/ bridge'.awaited # Nothing /\ bridge'.awaited.id = id'
BY DEF Live, Remembered

\* Each repeat is counted before it goes out, by the loss it makes good or by the watch.
LEMMA CopiesStep ==
    TypeOK /\ TypeOK' /\ OrderInv /\ CopiesInv /\ [Next]_vars => CopiesInv'
<1>. SUFFICES ASSUME TypeOK, TypeOK', OrderInv, CopiesInv, [Next]_vars PROVE CopiesInv'
  OBVIOUS
<1>1. /\ copies \in Nat /\ received \in Nat /\ accepted \in Nat
      /\ bridge.repeatsSent \in 0 .. LostAnswerRepeats
      /\ bridge.confirmRepeats \in 0 .. UnactedRepeats
      /\ LostAnswerRepeats \in Nat /\ UnactedRepeats \in Nat
  BY RepeatsType
<1>2. /\ copies' \in Nat /\ received' \in Nat /\ accepted' \in Nat
      /\ bridge'.repeatsSent \in 0 .. LostAnswerRepeats
      /\ bridge'.confirmRepeats \in 0 .. UnactedRepeats
  BY ExchangeAssumption DEF TypeOK
<1>3. /\ Live(received) <=> \/ bridge.lastSent # Nothing /\ bridge.lastSent.id = received
                            \/ bridge.awaited # Nothing /\ bridge.awaited.id = received
      /\ Live(received)' <=> \/ bridge'.lastSent # Nothing /\ bridge'.lastSent.id = received'
                             \/ bridge'.awaited # Nothing /\ bridge'.awaited.id = received'
  BY LiveOne
<1>4. /\ copies <= 1 + LostAnswerRepeats + UnactedRepeats
      /\ Live(received) => copies <= 1 + bridge.repeatsSent + bridge.confirmRepeats
  BY DEF CopiesInv
<1>5. SUFFICES /\ copies' <= 1 + LostAnswerRepeats + UnactedRepeats
               /\ Live(received)' => copies' <= 1 + bridge'.repeatsSent + bridge'.confirmRepeats
  BY DEF CopiesInv
<1>6. ASSUME NEW timing \in Timing, NEW stale \in BOOLEAN, NEW answered \in BOOLEAN,
             StatusPoll(timing, stale, answered)
      PROVE  /\ copies' <= 1 + LostAnswerRepeats + UnactedRepeats
             /\ Live(received)' => copies' <= 1 + bridge'.repeatsSent + bridge'.confirmRepeats
  <2>1. /\ \/ Fresh(bridge, bridge') \/ MadeGood(bridge, drive.counter, bridge')
           \/ Again(bridge, drive.counter, bridge') \/ Watched(bridge, drive.counter, bridge')
           \/ Done(bridge, drive.counter, timing, stale, bridge')
        /\ Receives(bridge'.lastSent, answered)
    BY <1>6, StatusBridge
  <2>2. IF answered /\ bridge'.lastSent # Nothing
        THEN /\ received' = bridge'.lastSent.id
             /\ copies' = IF bridge'.lastSent.id = received THEN copies + 1 ELSE 1
        ELSE received' = received /\ copies' = copies
    BY <2>1, PollArrivals
  <2>3. CASE Fresh(bridge, bridge')
    <3>1. bridge'.lastSent.id # received
      BY <1>1, <2>3 DEF Fresh, OrderInv, Queued
    <3>. QED  BY <1>1, <1>2, <1>3, <1>4, <2>2, <2>3, <3>1 DEF Fresh
  <2>4. CASE MadeGood(bridge, drive.counter, bridge')
    BY <1>1, <1>2, <1>3, <1>4, <2>2, <2>4 DEF MadeGood, Noticed
  <2>5. CASE Again(bridge, drive.counter, bridge')
    BY <1>1, <1>2, <1>3, <1>4, <2>2, <2>5 DEF Again
  <2>6. CASE Watched(bridge, drive.counter, bridge')
    BY <1>3, <1>4, <2>2, <2>6 DEF Watched
  <2>7. CASE Done(bridge, drive.counter, timing, stale, bridge')
    BY <1>3, <1>4, <2>2, <2>7 DEF Done
  <2>. QED  BY <2>1, <2>3, <2>4, <2>5, <2>6, <2>7
<1>7. CASE NewPress
  <2>1. PICK press \in [id : {accepted + 1}, cmd : Press] : Accept(press)
    BY <1>7 DEF NewPress
  <2>2. press \in PressInfo
    BY <1>1, <2>1 DEF PressInfo
  <2>3. /\ bridge'.lastSent = bridge.lastSent /\ bridge'.awaited = bridge.awaited
        /\ bridge'.repeatsSent = bridge.repeatsSent
        /\ bridge'.confirmRepeats = bridge.confirmRepeats
        /\ received' = received /\ copies' = copies
    BY <2>1, <2>2, AcceptBridge DEF Accept, arrivalVars
  <2>. QED  BY <1>3, <1>4, <2>3
<1>8. CASE Forgets
  BY <1>3, <1>4, <1>8 DEF Forgets
<1>. QED  BY <1>6, <1>7, <1>8, StepKinds DEF Polls

\* A drive that holds its counter makes good only what it did not get.
LEMMA ReceiptStep ==
    TypeOK /\ TypeOK' /\ OrderInv /\ ReceiptInv /\ [Next]_vars => ReceiptInv'
<1>. SUFFICES ASSUME TypeOK, TypeOK', OrderInv, ReceiptInv, [Next]_vars,
                     drive'.kind.holds, driveRestarts' = 0
              PROVE  /\ copies' <= 1 + UnactedRepeats
                     /\ Live(received)' => copies' <= 1 + bridge'.confirmRepeats
                     /\ (/\ bridge'.lastSent # Nothing /\ bridge'.lastSent.id = received'
                         /\ drive'.counter = bridge'.previous) => copies' <= bridge'.confirmRepeats
  BY DEF ReceiptInv
<1>1. /\ copies \in Nat /\ received \in Nat /\ accepted \in Nat
      /\ bridge.confirmRepeats \in 0 .. UnactedRepeats /\ UnactedRepeats \in Nat
  BY RepeatsType
<1>2. copies' \in Nat /\ received' \in Nat /\ bridge'.confirmRepeats \in 0 .. UnactedRepeats
  BY ExchangeAssumption DEF TypeOK
<1>3. /\ Live(received) <=> \/ bridge.lastSent # Nothing /\ bridge.lastSent.id = received
                            \/ bridge.awaited # Nothing /\ bridge.awaited.id = received
      /\ Live(received)' <=> \/ bridge'.lastSent # Nothing /\ bridge'.lastSent.id = received'
                             \/ bridge'.awaited # Nothing /\ bridge'.awaited.id = received'
  BY LiveOne
<1>4. ASSUME drive.kind.holds, driveRestarts = 0
      PROVE  /\ copies <= 1 + UnactedRepeats
             /\ Live(received) => copies <= 1 + bridge.confirmRepeats
             /\ (/\ bridge.lastSent # Nothing /\ bridge.lastSent.id = received
                 /\ drive.counter = bridge.previous) => copies <= bridge.confirmRepeats
  BY <1>4 DEF ReceiptInv
<1>5. ASSUME NEW timing \in Timing, NEW stale \in BOOLEAN, NEW answered \in BOOLEAN,
             StatusPoll(timing, stale, answered)
      PROVE  /\ copies' <= 1 + UnactedRepeats
             /\ Live(received)' => copies' <= 1 + bridge'.confirmRepeats
             /\ (/\ bridge'.lastSent # Nothing /\ bridge'.lastSent.id = received'
                 /\ drive'.counter = bridge'.previous) => copies' <= bridge'.confirmRepeats
  <2>1. /\ \/ Fresh(bridge, bridge') \/ MadeGood(bridge, drive.counter, bridge')
           \/ Again(bridge, drive.counter, bridge') \/ Watched(bridge, drive.counter, bridge')
           \/ Done(bridge, drive.counter, timing, stale, bridge')
        /\ Receives(bridge'.lastSent, answered) /\ bridge'.previous = drive.counter
    BY <1>5, StatusBridge
  <2>2. IF answered /\ bridge'.lastSent # Nothing
        THEN /\ received' = bridge'.lastSent.id
             /\ copies' = IF bridge'.lastSent.id = received THEN copies + 1 ELSE 1
        ELSE received' = received /\ copies' = copies
    BY <2>1, PollArrivals
  <2>3. /\ \E c \in CounterAfter(answered) : drive' = [drive EXCEPT !.counter = c]
        /\ pauses' = pauses /\ driveRestarts' = driveRestarts
    BY <1>5, Zenon DEF StatusPoll, pauseHist
  <2>4. /\ drive'.kind = drive.kind
        /\ drive.kind.holds =>
              drive'.counter = IF answered THEN CountOn(drive.counter) ELSE drive.counter
    BY <2>3, DriveCounts
  <2>5. answered => drive'.counter # bridge'.previous
    <3>1. ASSUME answered PROVE CountOn(drive.counter) # drive.counter
      <4>1. drive.counter \in Counter /\ CounterMax \in Nat \ {0, 1}
        BY ExchangeAssumption DEF TypeOK
      <4>. QED  BY <4>1 DEF CountOn, Counter
    <3>. QED  BY <2>1, <2>4, <3>1
  <2>6. /\ copies <= 1 + UnactedRepeats
        /\ Live(received) => copies <= 1 + bridge.confirmRepeats
        /\ (/\ bridge.lastSent # Nothing /\ bridge.lastSent.id = received
            /\ drive.counter = bridge.previous) => copies <= bridge.confirmRepeats
    BY <1>4, <2>3, <2>4
  <2>7. CASE Fresh(bridge, bridge')
    <3>1. bridge'.lastSent.id # received
      BY <1>1, <2>7 DEF Fresh, OrderInv, Queued
    <3>. QED  BY <1>1, <1>2, <1>3, <2>2, <2>5, <2>6, <2>7, <3>1 DEF Fresh
  <2>8. CASE MadeGood(bridge, drive.counter, bridge')
    BY <1>1, <1>2, <1>3, <2>2, <2>5, <2>6, <2>8 DEF MadeGood, Noticed
  <2>9. CASE Again(bridge, drive.counter, bridge')
    BY <1>1, <1>2, <1>3, <2>2, <2>5, <2>6, <2>9 DEF Again
  <2>10. CASE Watched(bridge, drive.counter, bridge')
    BY <1>3, <2>2, <2>6, <2>10 DEF Watched
  <2>11. CASE Done(bridge, drive.counter, timing, stale, bridge')
    BY <1>3, <2>2, <2>6, <2>11 DEF Done
  <2>. QED  BY <2>1, <2>7, <2>8, <2>9, <2>10, <2>11
<1>6. CASE NewPress
  <2>1. PICK press \in [id : {accepted + 1}, cmd : Press] : Accept(press)
    BY <1>6 DEF NewPress
  <2>2. press \in PressInfo
    BY <1>1, <2>1 DEF PressInfo
  <2>3. /\ bridge'.lastSent = bridge.lastSent /\ bridge'.awaited = bridge.awaited
        /\ bridge'.confirmRepeats = bridge.confirmRepeats /\ bridge'.previous = bridge.previous
        /\ received' = received /\ copies' = copies
        /\ drive' = drive /\ driveRestarts' = driveRestarts
    BY <2>1, <2>2, AcceptBridge DEF Accept, arrivalVars
  <2>. QED  BY <1>3, <1>4, <2>3
<1>7. CASE Forgets
  BY <1>3, <1>4, <1>7 DEF Forgets
<1>. QED  BY <1>5, <1>6, <1>7, StepKinds DEF Polls

-------------------------------------------------------------------------------
(* A stop and a pause.                                                         *)

\* What a step needs to keep what is remembered up to date, whatever the step.
LEMMA OutdatedKept ==
    ASSUME TypeOK, OutdatedInv,
           bridge'.slot \in {bridge.slot, Nothing},
           bridge'.lastSent \in {bridge.lastSent, Nothing},
           bridge'.awaited \in {bridge.awaited, Nothing},
           quieted' = quieted,
           stopped' \in {stopped, 0},
           bridge'.slot = bridge.slot \/ stopped' = 0 \/ bridge.slot.cmd # "STOP"
              \/ (bridge'.lastSent = Nothing /\ bridge'.awaited = Nothing),
           pauseRequested' => loop' # "idle",
           loop' # "idle" => bridge'.slot = Nothing
    PROVE  OutdatedInv'
<1>1. stopped \in Nat /\ quieted \in Nat
  BY DEF TypeOK
<1>2. \A p \in {bridge.slot, bridge.lastSent, bridge.awaited} : p.id \in Nat
  BY DEF TypeOK, PressInfo
<1>3. bridge'.slot # Nothing => bridge'.slot.id >= stopped' /\ bridge'.slot.id > quieted'
  BY <1>1, <1>2 DEF OutdatedInv
<1>4. \A p \in Remembered' : p # Nothing =>
         /\ p \in Remembered /\ p.id > quieted'
         /\ p.id >= stopped' \/ bridge'.slot.cmd = "STOP"
  BY <1>1, <1>2 DEF OutdatedInv, Remembered
<1>. QED  BY <1>3, <1>4 DEF OutdatedInv

\* No step brings back what was pressed before a stop or a pause.
LEMMA OutdatedStep ==
    TypeOK /\ OrderInv /\ OutdatedInv /\ [Next]_vars => OutdatedInv'
<1>. SUFFICES ASSUME TypeOK, OrderInv, OutdatedInv, [Next]_vars PROVE OutdatedInv'
  OBVIOUS
<1>1. /\ accepted \in Nat /\ stopped \in 0 .. accepted /\ quieted \in 0 .. accepted
      /\ Nothing.cmd = "NONE"
  BY DEF TypeOK, Nothing
<1>2. /\ pauseRequested => loop # "idle"
      /\ loop # "idle" => bridge.slot = Nothing
  BY DEF OutdatedInv
<1> USE DEF pressVars, pauseVars, pauseHist, codecVars
<1>3. ASSUME UNCHANGED <<bridge, stopped, quieted>>,
             pauseRequested' => loop' # "idle", loop' # "idle" => loop # "idle"
      PROVE  OutdatedInv'
  BY <1>2, <1>3, OutdatedKept
<1>4. CASE UNCHANGED vars
  BY <1>2, <1>3, <1>4 DEF vars
<1>5. CASE RequestLost \/ DriveRestarts
  BY <1>2, <1>3, <1>5 DEF RequestLost, DriveRestarts
<1>6. ASSUME NEW timing \in Timing, NEW stale \in BOOLEAN, NEW answered \in BOOLEAN,
             StatusPoll(timing, stale, answered)
      PROVE  OutdatedInv'
  <2>1. /\ \/ Fresh(bridge, bridge') \/ MadeGood(bridge, drive.counter, bridge')
           \/ Again(bridge, drive.counter, bridge') \/ Watched(bridge, drive.counter, bridge')
           \/ Done(bridge, drive.counter, timing, stale, bridge')
        /\ bridge'.slot = Nothing
    BY <1>6, StatusBridge
  <2>2. /\ UNCHANGED <<stopped, quieted, loop, pauseRequested>> /\ ~pauseRequested
    BY <1>6 DEF StatusPoll
  <2>3. CASE Fresh(bridge, bridge')
    <3>1. bridge.slot.id >= stopped /\ bridge.slot.id > quieted
      BY <2>3 DEF OutdatedInv, Fresh
    <3>. QED  BY <2>1, <2>2, <2>3, <3>1 DEF OutdatedInv, Fresh, Remembered
  <2>4. CASE MadeGood(bridge, drive.counter, bridge') \/ Again(bridge, drive.counter, bridge')
    <3>1. /\ bridge'.lastSent \in Remembered /\ bridge'.awaited \in {Nothing, bridge'.lastSent}
          /\ bridge.slot = Nothing
      BY <2>4 DEF MadeGood, Again, Noticed, Remembered
    <3>. QED  BY <1>1, <2>1, <2>2, <3>1 DEF OutdatedInv, Remembered
  <2>5. CASE \/ Watched(bridge, drive.counter, bridge')
             \/ Done(bridge, drive.counter, timing, stale, bridge')
    <3>1. /\ bridge'.lastSent = Nothing
          /\ bridge'.awaited = Nothing \/ (bridge'.awaited = bridge.awaited /\ bridge.slot = Nothing)
      BY <2>5 DEF Watched, Done
    <3>. QED  BY <1>1, <2>1, <2>2, <3>1 DEF OutdatedInv, Remembered
  <2>. QED  BY <2>1, <2>3, <2>4, <2>5
<1>7. ASSUME NEW answered \in BOOLEAN, PausedPoll(answered)
      PROVE  OutdatedInv'
  <2>1. bridge'.slot = bridge.slot /\ bridge'.lastSent = Nothing /\ bridge'.awaited = Nothing
    BY <1>7, PausedBridge
  <2>2. bridge.slot = Nothing /\ UNCHANGED <<loop, pauseRequested>>
    BY <1>2, <1>7 DEF PausedPoll
  <2>. QED  BY <1>2, <2>1, <2>2 DEF OutdatedInv, Remembered
<1>8. ASSUME NEW answered \in BOOLEAN, OtherPoll(answered) \/ PauseAck(answered)
      PROVE  OutdatedInv'
  <2>1. /\ bridge'.slot = bridge.slot /\ bridge'.lastSent = Nothing
        /\ bridge'.awaited = bridge.awaited
    BY <1>8, OtherBridge DEF OtherPoll, PauseAck
  <2>2. UNCHANGED <<stopped, quieted, loop, pauseRequested>>
    BY <1>8 DEF OtherPoll, PauseAck
  <2>. QED  BY <1>2, <2>1, <2>2, OutdatedKept
<1>9. ASSUME NEW state \in Doors, NEW noise \in BOOLEAN, Broadcast(state, noise)
      PROVE  OutdatedInv'
  <2>1. /\ bridge'.slot = bridge.slot /\ bridge'.lastSent = bridge.lastSent
        /\ bridge'.awaited = bridge.awaited
    BY <1>9, BroadcastBridge
  <2>2. UNCHANGED <<stopped, quieted, loop, pauseRequested>>
    BY <1>9 DEF Broadcast
  <2>. QED  BY <1>2, <2>1, <2>2, OutdatedKept
<1>10. CASE NewPress
  <2>1. PICK press \in [id : {accepted + 1}, cmd : Press] :
           /\ Accept(press) /\ MayPress
           /\ IF press.cmd = "STOP" THEN stopped' = press.id
              ELSE bridge.slot = Nothing /\ stopped' = stopped
    BY <1>10 DEF NewPress
  <2>2. press \in PressInfo
    BY <1>1, <2>1 DEF PressInfo
  <2>3. /\ bridge'.slot = press /\ bridge'.lastSent = bridge.lastSent
        /\ bridge'.awaited = bridge.awaited
    BY <2>1, <2>2, AcceptBridge DEF Accept
  <2>4. UNCHANGED <<loop, pauseRequested, quieted>> /\ loop = "idle"
    BY <2>1 DEF Accept, MayPress
  <2>5. press.id = accepted + 1
    BY <2>1
  <2>6. bridge'.slot.id >= stopped' /\ bridge'.slot.id > quieted'
    BY <1>1, <2>1, <2>3, <2>4, <2>5
  <2>7. \A p \in Remembered' : p # Nothing =>
           /\ p.id > quieted'
           /\ p.id >= stopped' \/ bridge'.slot.cmd = "STOP"
    BY <1>1, <2>1, <2>3, <2>4 DEF OutdatedInv, Remembered
  <2>. QED  BY <1>2, <2>4, <2>6, <2>7 DEF OutdatedInv
<1>11. ASSUME DropQueued
       PROVE  /\ bridge'.slot = Nothing /\ bridge'.lastSent = bridge.lastSent
              /\ bridge'.awaited = bridge.awaited
              /\ stopped' \in {stopped, 0} /\ (stopped' = 0 \/ bridge.slot.cmd # "STOP")
  BY <1>11, DropBridge DEF DropQueued
<1>12. CASE LinkCalledDead
  BY <1>2, <1>11, <1>12, OutdatedKept DEF LinkCalledDead
<1>13. CASE AnnouncePause
  BY <1>2, <1>11, <1>13, OutdatedKept DEF AnnouncePause
<1>14. CASE RequestPause
  BY <1>2, <1>3, <1>14 DEF RequestPause
<1>15. CASE ClearConfirmed
  BY <1>2, <1>3, <1>15 DEF ClearConfirmed
<1>16. CASE Acknowledged
  BY <1>2, <1>3, <1>16 DEF Acknowledged
<1>17. CASE TimedOut
  BY <1>2, <1>3, <1>17 DEF TimedOut
<1>18. CASE EndPause
  BY <1>2, <1>3, <1>18 DEF EndPause
<1>19. CASE BridgeRestarts
  <2>1. bridge'.slot = Nothing /\ bridge'.lastSent = Nothing /\ bridge'.awaited = Nothing
    BY <1>19 DEF BridgeRestarts, Bridge
  <2>. QED  BY <1>19, <2>1, OutdatedKept DEF BridgeRestarts
<1>20. CASE PressStop \/ (\E c \in Presses : PressCommand(c))
  BY <1>10, <1>20, PressKinds
<1>. QED
  BY <1>4, <1>5, <1>6, <1>7, <1>8, <1>9, <1>12, <1>13, <1>14, <1>15, <1>16, <1>17, <1>18, <1>19,
     <1>20, Zenon
  DEF Next, Exchange, LoopContinues

\* A pause in progress: what the drive owes, and whose acknowledgement stands.
LEMMA PauseStep ==
    TypeOK /\ PauseInv /\ AcknowledgedByItsOwn /\ [Next]_vars => (PauseInv /\ AcknowledgedByItsOwn)'
<1>. SUFFICES ASSUME TypeOK, PauseInv, AcknowledgedByItsOwn, [Next]_vars
              PROVE  PauseInv' /\ AcknowledgedByItsOwn'
  OBVIOUS
<1>1. DriveTypes /\ OtherTypes
  BY TypeParts
<1>2. late \in BOOLEAN /\ pauseConfirmed \in BOOLEAN
  BY <1>1 DEF OtherTypes
<1> USE DEF codecVars, pauseVars, pauseHist, PauseInv, AcknowledgedByItsOwn
<1>3. ASSUME drive'.owes = drive.owes, UNCHANGED <<loop, pauseConfirmed, pauses, confirmedBy, late>>
      PROVE  PauseInv' /\ AcknowledgedByItsOwn'
  BY <1>3
<1>4. CASE UNCHANGED vars
  BY <1>3, <1>4 DEF vars
<1>5. CASE RequestLost
  <2>1. drive'.owes = drive.owes
    BY <1>5, DriveCounts DEF RequestLost
  <2>. QED  BY <1>3, <1>5, <2>1 DEF RequestLost
<1>6. ASSUME NEW timing \in Timing, NEW stale \in BOOLEAN, NEW answered \in BOOLEAN,
             StatusPoll(timing, stale, answered)
      PROVE  PauseInv' /\ AcknowledgedByItsOwn'
  <2>1. /\ \E c \in CounterAfter(answered) : drive' = [drive EXCEPT !.counter = c]
        /\ UNCHANGED <<loop, pauseConfirmed, pauses, confirmedBy, late>>
    BY <1>6, Zenon DEF StatusPoll
  <2>2. drive'.owes = drive.owes
    BY <2>1, DriveCounts
  <2>. QED  BY <1>3, <2>1, <2>2
<1>7. ASSUME NEW answered \in BOOLEAN, OtherPoll(answered)
      PROVE  PauseInv' /\ AcknowledgedByItsOwn'
  <2>1. drive'.owes = drive.owes
    BY <1>7, DriveCounts DEF OtherPoll
  <2>. QED  BY <1>3, <1>7, <2>1 DEF OtherPoll
<1>8. ASSUME NEW answered \in BOOLEAN, PausedPoll(answered)
      PROVE  PauseInv' /\ AcknowledgedByItsOwn'
  <2>1. /\ \E c \in CounterAfter(answered) :
              drive' = [drive EXCEPT !.counter = c, !.owes = IF answered THEN pauses ELSE @]
        /\ UNCHANGED <<loop, pauseConfirmed, pauses, confirmedBy, late>>
    BY <1>8, Zenon DEF PausedPoll
  <2>2. pauses \in 0 .. pauses
    BY <1>1 DEF OtherTypes
  <2>3. drive'.owes = IF answered THEN pauses ELSE drive.owes
    BY <2>1, <2>2, DriveAnswers
  <2>. QED  BY <2>1, <2>3
<1>9. ASSUME NEW answered \in BOOLEAN, PauseAck(answered)
      PROVE  PauseInv' /\ AcknowledgedByItsOwn'
  <2>1. /\ \E c \in CounterAfter(answered) :
              drive' = [drive EXCEPT !.counter = c, !.owes = IF answered THEN 0 ELSE @]
        /\ UNCHANGED <<loop, pauses, late>> /\ pauseConfirmed' = TRUE /\ drive.owes # 0
        /\ confirmedBy' = IF loop = "waiting" THEN drive.owes ELSE confirmedBy
    BY <1>9, Zenon DEF PauseAck
  <2>2. 0 \in 0 .. pauses
    BY <1>1 DEF OtherTypes
  <2>3. drive'.owes = IF answered THEN 0 ELSE drive.owes
    BY <2>1, <2>2, DriveAnswers
  <2>. QED  BY <2>1, <2>3
<1>10. ASSUME NEW state \in Doors, NEW noise \in BOOLEAN, Broadcast(state, noise)
       PROVE  PauseInv' /\ AcknowledgedByItsOwn'
  BY <1>3, <1>10 DEF Broadcast
<1>11. CASE DriveRestarts
  <2>1. PICK c \in Counter : drive' = [drive EXCEPT !.counter = c, !.owes = 0]
    BY <1>11 DEF DriveRestarts
  <2>2. drive'.owes = 0
    BY <1>1, <2>1, Zenon DEF DriveTypes
  <2>. QED  BY <1>11, <2>2 DEF DriveRestarts
<1>12. CASE PressStop \/ (\E c \in Presses : PressCommand(c))
  BY <1>3, <1>12 DEF PressStop, PressCommand, Accept
<1>13. CASE LinkCalledDead
  BY <1>3, <1>13 DEF LinkCalledDead
<1>14. CASE AnnouncePause
  BY <1>14 DEF AnnouncePause
<1>15. CASE RequestPause
  BY <1>15 DEF RequestPause
<1>16. CASE ClearConfirmed
  BY <1>16 DEF ClearConfirmed, Cleared
<1>17. CASE Acknowledged
  BY <1>2, <1>17 DEF Acknowledged
<1>18. CASE TimedOut
  BY <1>18 DEF TimedOut
<1>19. CASE EndPause
  BY <1>19 DEF EndPause
<1>20. CASE BridgeRestarts
  BY <1>20 DEF BridgeRestarts
<1>. QED
  BY <1>4, <1>5, <1>6, <1>7, <1>8, <1>9, <1>10, <1>11, <1>12, <1>13, <1>14, <1>15, <1>16, <1>17,
     <1>18, <1>19, <1>20, Zenon
  DEF Next, Exchange, LoopContinues

-------------------------------------------------------------------------------
(* What becomes of a press that has not arrived.                               *)

\* A step that keeps or clears what was sent keeps what is known of it.
LEMMA SentKept ==
    ASSUME TypeOK, OrderInv, SentInv,
           accepted' = accepted, bridge'.cancel = bridge.cancel,
           bridge'.awaited \in {bridge.awaited, Nothing},
           \/ bridge'.lastSent = Nothing
           \/ /\ bridge'.lastSent = bridge.lastSent /\ bridge'.awaited = bridge.awaited
              /\ bridge'.counting = bridge.counting /\ bridge'.counter = bridge.counter
              /\ bridge'.previous = bridge.previous /\ bridge'.repeatsSent = bridge.repeatsSent
    PROVE  SentInv'
<1>1. /\ bridge.lastSent.id \in Nat /\ bridge.awaited.id \in Nat /\ Nothing.id = 0
      /\ accepted \in Nat
  BY KnownPresses DEF Remembered, Nothing, TypeOK
<1>2. bridge'.cancel => bridge'.lastSent.id < accepted' /\ bridge'.awaited.id < accepted'
  BY <1>1 DEF SentInv
<1>. QED  BY <1>2 DEF SentInv

\* The watch and the counters agree with what was sent, whatever the step.
LEMMA SentStep == TypeOK /\ OrderInv /\ SentInv /\ [Next]_vars => SentInv'
<1>. SUFFICES ASSUME TypeOK, OrderInv, SentInv, [Next]_vars PROVE SentInv'
  OBVIOUS
<1> USE DEF codecVars, pressVars
<1>1. ASSUME UNCHANGED <<bridge, accepted>>
      PROVE  SentInv'
  BY <1>1 DEF SentInv
<1>2. CASE UNCHANGED vars \/ RequestLost \/ DriveRestarts \/ LoopContinues
  BY <1>1, <1>2
  DEF vars, RequestLost, DriveRestarts, LoopContinues, RequestPause, ClearConfirmed,
      Acknowledged, TimedOut, EndPause
<1>3. ASSUME NEW timing \in Timing, NEW stale \in BOOLEAN, NEW answered \in BOOLEAN,
             StatusPoll(timing, stale, answered)
      PROVE  SentInv'
  <2>1. /\ ~bridge'.cancel /\ bridge'.counting /\ bridge'.counter # bridge'.previous
        /\ \/ Fresh(bridge, bridge') \/ MadeGood(bridge, drive.counter, bridge')
           \/ Again(bridge, drive.counter, bridge') \/ Watched(bridge, drive.counter, bridge')
           \/ Done(bridge, drive.counter, timing, stale, bridge')
    BY <1>3, StatusBridge
  <2>2. bridge.repeatsSent \in Nat
    BY RepeatsType
  <2>3. bridge'.lastSent # Nothing /\ bridge'.repeatsSent = 0 => bridge'.awaited = bridge'.lastSent
    <3>1. MadeGood(bridge, drive.counter, bridge') => bridge'.repeatsSent # 0
      BY <2>2 DEF MadeGood
    <3>. QED  BY <2>1, <3>1, Zenon DEF Fresh, Again, Watched, Done
  <2>. QED  BY <2>1, <2>3 DEF SentInv
<1>4. ASSUME NEW answered \in BOOLEAN, PausedPoll(answered)
      PROVE  SentInv'
  BY <1>4, PausedBridge, SentKept DEF PausedPoll
<1>5. ASSUME NEW answered \in BOOLEAN, OtherPoll(answered) \/ PauseAck(answered)
      PROVE  SentInv'
  BY <1>5, OtherBridge, SentKept DEF OtherPoll, PauseAck
<1>6. ASSUME NEW state \in Doors, NEW noise \in BOOLEAN, Broadcast(state, noise)
      PROVE  SentInv'
  BY <1>6, BroadcastBridge, SentKept DEF Broadcast
<1>7. CASE NewPress
  <2>1. PICK press \in [id : {accepted + 1}, cmd : Press] : Accept(press)
    BY <1>7 DEF NewPress
  <2>2. press \in PressInfo /\ press.id = accepted + 1 /\ accepted \in Nat
    BY <2>1 DEF PressInfo, TypeOK
  <2>3. /\ bridge'.lastSent = bridge.lastSent /\ bridge'.awaited = bridge.awaited
        /\ bridge'.counting = bridge.counting /\ bridge'.counter = bridge.counter
        /\ bridge'.previous = bridge.previous /\ bridge'.repeatsSent = bridge.repeatsSent
        /\ accepted' = accepted + 1
    BY <2>1, <2>2, AcceptBridge DEF Accept
  <2>4. bridge.lastSent.id \in 0 .. accepted /\ bridge.awaited.id \in 0 .. accepted
    BY KnownPresses DEF Remembered
  <2>5. bridge'.lastSent.id < accepted' /\ bridge'.awaited.id < accepted'
    BY <2>2, <2>3, <2>4
  <2>. QED  BY <2>3, <2>5 DEF SentInv
<1>8. CASE LinkCalledDead \/ AnnouncePause
  BY <1>8, DropBridge, SentKept DEF LinkCalledDead, AnnouncePause, DropQueued
<1>9. CASE BridgeRestarts
  <2>1. /\ ~bridge'.cancel /\ bridge'.lastSent = Nothing /\ bridge'.awaited = Nothing
    BY <1>9, Zenon DEF BridgeRestarts, Bridge
  <2>. QED  BY <2>1 DEF SentInv
<1>10. CASE PressStop \/ (\E c \in Presses : PressCommand(c))
  BY <1>7, <1>10, PressKinds
<1>. QED
  BY <1>2, <1>3, <1>4, <1>5, <1>6, <1>7, <1>8, <1>9, <1>10, Zenon
  DEF Next, Exchange

\* What Reckon makes of the newest press, unless it is settled.
LEMMA ReckonFields ==
    ASSUME TypeOK, NEW sent \in PressInfo, NEW kind, NEW answered \in BOOLEAN,
           NEW excuse \in BOOLEAN, Reckon(sent, kind, answered, excuse), ~loss'.excused
    PROVE  LET lost == sent.id = accepted /\ sent # Nothing /\ ~answered IN
           /\ ~loss.excused /\ ~excuse /\ ~(sent.id = accepted /\ answered)
           /\ loss'.answers = loss.answers + (IF lost THEN 1 ELSE 0)
           /\ loss'.answers <= LostAnswerRepeats
           /\ loss'.unnoticed <=> (loss.unnoticed \/ Overlooked(kind))
           /\ loss'.unnoticed => loss'.answers <= UnactedRepeats
           /\ Overlooked(kind) => bridge.repeatsSent = 0
           /\ loss'.counter = IF lost THEN drive.counter ELSE NoCounter
<1> DEFINE lost      == sent.id = accepted /\ sent # Nothing /\ ~answered
           answers   == loss.answers + (IF lost THEN 1 ELSE 0)
           unnoticed == loss.unnoticed \/ Overlooked(kind)
           settled   == \/ loss.excused \/ (sent.id = accepted /\ answered) \/ excuse
                        \/ answers > LostAnswerRepeats
                        \/ (unnoticed /\ answers > UnactedRepeats)
                        \/ (Overlooked(kind) /\ bridge.repeatsSent > 0)
<1>1. loss' = IF settled THEN Settled
              ELSE [answers |-> answers, unnoticed |-> unnoticed, excused |-> FALSE,
                    counter |-> IF lost THEN drive.counter ELSE NoCounter]
  BY DEF Reckon
<1>2. ~settled
  BY <1>1, LossFields
<1>3. /\ loss'.answers = answers /\ (loss'.unnoticed <=> unnoticed)
      /\ loss'.counter = IF lost THEN drive.counter ELSE NoCounter
  BY <1>1, <1>2
<1>4. answers \in Nat /\ LostAnswerRepeats \in Nat /\ UnactedRepeats \in Nat /\ bridge.repeatsSent \in Nat
  BY ExchangeAssumption DEF TypeOK
<1>. QED  BY <1>2, <1>3, <1>4

\* A status poll and the newest press, when it has not arrived before or after and
\* nothing has settled it.
LEMMA LossPoll ==
    ASSUME TypeOK, TypeOK', OrderInv, SentInv, LossInv,
           NEW timing \in Timing, NEW stale \in BOOLEAN, NEW answered \in BOOLEAN,
           StatusPoll(timing, stale, answered)
    PROVE  LossInv'
<1> DEFINE excuse == \/ stale \/ timing = "giveup"
                     \/ bridge.slot.cmd = "STOP" /\ ~Moving(door)
           lost == bridge'.lastSent.id = accepted /\ bridge'.lastSent # Nothing /\ ~answered
           fresh   == Fresh(bridge, bridge')
           made    == MadeGood(bridge, drive.counter, bridge')
           again   == Again(bridge, drive.counter, bridge')
           watched == Watched(bridge, drive.counter, bridge')
           done    == Done(bridge, drive.counter, timing, stale, bridge')
<1>. SUFFICES ASSUME received' < accepted', ~loss'.excused
              PROVE  LostEachTime' /\ (Waits \/ WasLost \/ IsWatched)'
  BY DEF LossInv
<1>1. /\ bridge' \in Codec /\ bridge'.slot = Nothing /\ bridge'.previous = drive.counter
      /\ fresh \/ made \/ again \/ watched \/ done
      /\ Receives(bridge'.lastSent, answered)
      /\ Reckon(bridge'.lastSent, "status", answered, excuse)
  BY StatusBridge
<1>2. /\ door' = door /\ accepted' = accepted
  BY DEF StatusPoll, pressVars
<1>3. bridge'.lastSent \in PressInfo /\ excuse \in BOOLEAN
  <2>1. bridge'.lastSent \in PressInfo
    BY <1>1 DEF Codec
  <2>. QED  BY <2>1, Zenon
<1>4. /\ ~loss.excused /\ ~excuse /\ ~(bridge'.lastSent.id = accepted /\ answered)
      /\ loss'.answers = loss.answers + (IF lost THEN 1 ELSE 0)
      /\ loss'.answers <= LostAnswerRepeats
      /\ loss'.unnoticed <=> (loss.unnoticed \/ Overlooked("status"))
      /\ loss'.unnoticed => loss'.answers <= UnactedRepeats
      /\ Overlooked("status") => bridge.repeatsSent = 0
      /\ loss'.counter = IF lost THEN drive.counter ELSE NoCounter
  <2>. HIDE DEF excuse
  <2>. QED  BY <1>1, <1>3, ReckonFields
<1>5. /\ accepted \in Nat /\ received \in 0 .. accepted /\ received' \in Nat
      /\ bridge.repeatsSent \in 0 .. LostAnswerRepeats
      /\ bridge.confirmRepeats \in 0 .. UnactedRepeats
      /\ LostAnswerRepeats \in Nat /\ UnactedRepeats \in Nat /\ loss.answers \in Nat
      /\ drive.counter \in Counter /\ bridge.previous \in Counter /\ NoCounter \notin Counter
      /\ Nothing.id = 0 /\ Nothing.cmd = "NONE"
  BY ExchangeAssumption DEF TypeOK, Counter, NoCounter, Nothing
<1>6. /\ \A p \in {bridge.slot, bridge.lastSent, bridge.awaited} :
            p.id \in 0 .. accepted /\ (p # Nothing => p.id > 0)
      /\ bridge.slot # Nothing => bridge.slot.id > bridge.lastSent.id
                                  /\ bridge.slot.id > bridge.awaited.id
      /\ bridge.slot # Nothing => bridge.slot.id > received
      /\ \A p \in {bridge.lastSent, bridge.awaited} : p # Nothing => p.id >= received
      /\ bridge.lastSent # Nothing /\ bridge.awaited # Nothing => bridge.lastSent = bridge.awaited
  BY KnownPresses DEF Remembered, OrderInv
<1>7. received < accepted
  <2>1. IF answered /\ bridge'.lastSent # Nothing
        THEN received' = bridge'.lastSent.id ELSE received' = received
    BY <1>1, PollArrivals
  <2>2. ASSUME bridge'.lastSent # Nothing PROVE bridge'.lastSent.id >= received
    <3>1. \/ bridge.slot # Nothing /\ bridge'.lastSent.id = bridge.slot.id
          \/ bridge'.lastSent = bridge.lastSent \/ bridge'.lastSent = bridge.awaited
      BY <1>1, <2>2, Zenon DEF Fresh, MadeGood, Again, Watched, Done
    <3>. QED  BY <1>5, <1>6, <2>2, <3>1
  <2>. QED  BY <1>2, <1>5, <2>1, <2>2
<1>8. /\ \A p \in {bridge.slot, bridge.lastSent, bridge.awaited} :
            p.id = accepted => ~Reached(p.cmd, door, FALSE)
      /\ (bridge.lastSent.id = accepted \/ bridge.awaited.id = accepted) =>
            /\ ~bridge.acted
            /\ loss.answers = 1 + bridge.repeatsSent + bridge.confirmRepeats
            /\ loss.unnoticed => loss.answers <= UnactedRepeats
      /\ Waits \/ WasLost \/ IsWatched
  <2>1. bridge.lastSent.id = accepted => bridge.lastSent # Nothing
    BY <1>5, <1>7
  <2>2. bridge.awaited.id = accepted => bridge.awaited # Nothing
    BY <1>5, <1>7
  <2>3. LostEachTime /\ (Waits \/ WasLost \/ IsWatched)
    BY <1>4, <1>7 DEF LossInv
  <2>4. (bridge.lastSent.id = accepted \/ bridge.awaited.id = accepted) => Live(accepted)
    BY <2>1, <2>2, LiveOne
  <2>. QED  BY <2>3, <2>4 DEF LostEachTime, Remembered
<1>9. SUFFICES /\ \A p \in {bridge'.lastSent, bridge'.awaited} :
                     p.id = accepted => ~Reached(p.cmd, door, FALSE)
               /\ ~bridge'.acted
               /\ loss'.answers = 1 + bridge'.repeatsSent + bridge'.confirmRepeats
               /\ \/ bridge'.lastSent.id = accepted
                  \/ /\ bridge'.lastSent = Nothing /\ bridge'.awaited.id = accepted
                     /\ loss'.unnoticed
  <2>1. bridge'.lastSent.id = accepted => lost
    BY <1>4, <1>5, <1>7
  <2>2. LostEachTime'
    <3>1. \A p \in {bridge'.slot} \cup {bridge'.lastSent, bridge'.awaited} :
             p.id = accepted' => ~Reached(p.cmd, door', FALSE)
      <4>1. bridge'.slot.id # accepted
        BY <1>1, <1>5, <1>7
      <4>. QED  BY <1>2, <1>9, <4>1, Zenon
    <3>. QED  BY <1>4, <1>9, <3>1, Zenon DEF LostEachTime, Remembered
  <2>3. (WasLost \/ IsWatched)'
    BY <1>1, <1>2, <1>4, <1>5, <1>9, <2>1 DEF WasLost, IsWatched
  <2>. QED  BY <2>2, <2>3
<1>. HIDE DEF excuse
<1>10. CASE Waits
  <2>1. bridge.slot # Nothing /\ bridge.slot.id = accepted /\ ~loss.unnoticed /\ loss.answers = 0
    BY <1>5, <1>7, <1>10 DEF Waits
  <2>2. fresh
    BY <1>1, <1>4, <2>1 DEF MadeGood, Again, Watched, Done, Noticed, excuse
  <2>3. lost
    BY <1>4, <2>1, <2>2 DEF Fresh
  <2>4. ~Reached(bridge'.lastSent.cmd, door, FALSE)
    BY <1>8, <2>1, <2>2 DEF Fresh, Reached
  <2>5. /\ bridge'.awaited = bridge'.lastSent /\ ~bridge'.acted
        /\ bridge'.repeatsSent = 0 /\ bridge'.confirmRepeats = 0
    BY <2>2 DEF Fresh
  <2>6. loss'.answers = 1 + bridge'.repeatsSent + bridge'.confirmRepeats
    BY <1>4, <2>1, <2>3, <2>5
  <2>. QED  BY <2>3, <2>4, <2>5, <2>6
<1>11. CASE WasLost
  <2>1. /\ bridge.lastSent.id = accepted /\ bridge.lastSent # Nothing /\ bridge.slot = Nothing
        /\ loss.answers <= LostAnswerRepeats /\ loss.counter = bridge.previous
    BY <1>5, <1>6, <1>7, <1>11 DEF WasLost
  <2>2. ~bridge.cancel /\ bridge.counting /\ bridge.counter # bridge.previous
    BY <1>5, <2>1 DEF SentInv
  <2>3. CASE made
    <3>1. lost /\ bridge'.lastSent = bridge.lastSent /\ bridge'.awaited = Nothing
      BY <1>4, <2>1, <2>3 DEF MadeGood
    <3>2. /\ bridge'.acted = bridge.acted /\ bridge'.repeatsSent = bridge.repeatsSent + 1
          /\ bridge'.confirmRepeats = bridge.confirmRepeats
      BY <2>3 DEF MadeGood
    <3>3. loss'.answers = 1 + bridge'.repeatsSent + bridge'.confirmRepeats
      BY <1>4, <1>5, <1>8, <2>1, <3>1, <3>2
    <3>4. ~Reached(bridge.lastSent.cmd, door, FALSE) /\ ~bridge.acted
      BY <1>8, <2>1
    <3>5. Nothing.id # accepted
      BY <1>5, <1>7
    <3>. QED  BY <2>1, <3>1, <3>2, <3>3, <3>4, <3>5
  <2>4. CASE ~made
    <3>1. ~Reached(bridge.lastSent.cmd, door, FALSE) /\ ~bridge.acted
      BY <1>8, <2>1
    <3>2. again \/ watched \/ (bridge.awaited = Nothing /\ ~Noticed(bridge, drive.counter))
      BY <1>1, <1>4, <1>6, <2>1, <2>2, <2>4, <3>1 DEF Fresh, Done, excuse
    <3>3. ~Noticed(bridge, drive.counter)
      BY <3>2 DEF Again, Watched
    <3>4. drive.counter # bridge.previous
      <4>1. bridge.repeatsSent < LostAnswerRepeats
        BY <1>5, <1>8, <2>1
      <4>. QED  BY <2>1, <2>2, <3>3, <4>1 DEF Noticed
    <3>5. Overlooked("status")
      BY <1>5, <2>1, <3>4 DEF Overlooked
    <3>6. bridge.awaited = bridge.lastSent
      BY <1>4, <2>1, <3>5 DEF SentInv
    <3>7. CASE again
      <4>1. lost /\ bridge'.lastSent = bridge.lastSent /\ bridge'.awaited = bridge.lastSent
        BY <1>4, <2>1, <3>6, <3>7 DEF Again
      <4>2. /\ bridge'.acted = bridge.acted /\ bridge'.repeatsSent = bridge.repeatsSent
            /\ bridge'.confirmRepeats = bridge.confirmRepeats + 1
        BY <3>7 DEF Again
      <4>3. loss'.answers = 1 + bridge'.repeatsSent + bridge'.confirmRepeats
        BY <1>4, <1>5, <1>8, <2>1, <4>1, <4>2
      <4>. QED  BY <2>1, <3>1, <4>1, <4>2, <4>3
    <3>8. CASE watched
      <4>1. ~lost /\ bridge'.lastSent = Nothing /\ bridge'.awaited = bridge.lastSent
        BY <3>6, <3>8 DEF Watched
      <4>2. /\ bridge'.acted = bridge.acted /\ bridge'.repeatsSent = bridge.repeatsSent
            /\ bridge'.confirmRepeats = bridge.confirmRepeats
        BY <3>8 DEF Watched
      <4>3. loss'.answers = 1 + bridge'.repeatsSent + bridge'.confirmRepeats
        BY <1>4, <1>5, <1>8, <2>1, <4>1, <4>2
      <4>4. loss'.unnoticed /\ Nothing.id # accepted
        BY <1>4, <1>5, <1>7, <3>5
      <4>. QED  BY <2>1, <3>1, <4>1, <4>2, <4>3, <4>4
    <3>. QED  BY <2>1, <3>2, <3>6, <3>7, <3>8
  <2>. QED  BY <2>3, <2>4
<1>12. CASE IsWatched
  <2>1. /\ bridge.lastSent = Nothing /\ bridge.awaited.id = accepted
        /\ bridge.awaited # Nothing /\ bridge.slot = Nothing /\ loss.unnoticed
    BY <1>5, <1>6, <1>7, <1>12 DEF IsWatched
  <2>2. ~bridge.cancel
    BY <1>5, <2>1 DEF SentInv
  <2>3. ~Reached(bridge.awaited.cmd, door, FALSE) /\ ~bridge.acted
    BY <1>8, <2>1
  <2>4. again \/ watched
    BY <1>1, <1>4, <2>1, <2>2, <2>3 DEF Fresh, MadeGood, Noticed, Done, excuse
  <2>5. CASE again
    <3>1. lost /\ bridge'.lastSent = bridge.awaited /\ bridge'.awaited = bridge.awaited
      BY <1>4, <2>1, <2>5 DEF Again
    <3>2. /\ bridge'.acted = bridge.acted /\ bridge'.repeatsSent = bridge.repeatsSent
          /\ bridge'.confirmRepeats = bridge.confirmRepeats + 1
      BY <2>5 DEF Again
    <3>3. loss'.answers = 1 + bridge'.repeatsSent + bridge'.confirmRepeats
      BY <1>4, <1>5, <1>8, <2>1, <3>1, <3>2
    <3>. QED  BY <2>1, <2>3, <3>1, <3>2, <3>3
  <2>6. CASE watched
    <3>1. ~lost /\ bridge'.lastSent = Nothing /\ bridge'.awaited = bridge.awaited
      BY <2>6 DEF Watched
    <3>2. /\ bridge'.acted = bridge.acted /\ bridge'.repeatsSent = bridge.repeatsSent
          /\ bridge'.confirmRepeats = bridge.confirmRepeats
      BY <2>6 DEF Watched
    <3>3. loss'.answers = 1 + bridge'.repeatsSent + bridge'.confirmRepeats
      BY <1>4, <1>5, <1>8, <2>1, <3>1, <3>2
    <3>4. loss'.unnoticed /\ Nothing.id # accepted
      BY <1>4, <1>5, <1>7, <2>1
    <3>. QED  BY <2>1, <2>3, <3>1, <3>2, <3>3, <3>4
  <2>. QED  BY <2>4, <2>5, <2>6
<1>. QED  BY <1>8, <1>10, <1>11, <1>12

\* A bus scan, an empty command or an acknowledged pause comes in between: a loss
\* just noticed by nobody is one that the watch has to make good.
LEMMA LossOther ==
    ASSUME TypeOK, TypeOK', OrderInv, SentInv, LossInv, NEW answered \in BOOLEAN,
           bridge' = AdvanceCounter(Begin(bridge, drive.counter, "other")),
           Reckon(Nothing, "other", answered, FALSE),
           UNCHANGED <<door, accepted, received>>
    PROVE  LossInv'
<1>. SUFFICES ASSUME received < accepted, ~loss'.excused
              PROVE  LostEachTime' /\ (Waits \/ WasLost \/ IsWatched)'
  BY DEF LossInv
<1>1. /\ bridge'.slot = bridge.slot /\ bridge'.lastSent = Nothing
      /\ bridge'.awaited = bridge.awaited
      /\ bridge.awaited # Nothing => /\ bridge'.acted = bridge.acted
                                    /\ bridge'.repeatsSent = bridge.repeatsSent
                                    /\ bridge'.confirmRepeats = bridge.confirmRepeats
  BY OtherBridge
<1>2. /\ accepted \in Nat /\ received \in 0 .. accepted /\ loss.answers \in Nat
      /\ bridge.previous \in Counter /\ NoCounter \notin Counter
      /\ Nothing.id = 0 /\ Nothing \in PressInfo
  BY ExchangeAssumption DEF TypeOK, Counter, NoCounter, Nothing, PressInfo
<1>3. /\ ~loss.excused /\ loss'.answers = loss.answers
      /\ loss'.answers <= LostAnswerRepeats
      /\ loss'.unnoticed <=> (loss.unnoticed \/ Overlooked("other"))
      /\ loss'.unnoticed => loss'.answers <= UnactedRepeats
      /\ Overlooked("other") => bridge.repeatsSent = 0
      /\ loss'.counter = NoCounter
  <2>1. LET lost == Nothing.id = accepted /\ Nothing # Nothing /\ ~answered IN
        /\ ~loss.excused /\ ~FALSE /\ ~(Nothing.id = accepted /\ answered)
        /\ loss'.answers = loss.answers + (IF lost THEN 1 ELSE 0)
        /\ loss'.answers <= LostAnswerRepeats
        /\ loss'.unnoticed <=> (loss.unnoticed \/ Overlooked("other"))
        /\ loss'.unnoticed => loss'.answers <= UnactedRepeats
        /\ Overlooked("other") => bridge.repeatsSent = 0
        /\ loss'.counter = IF lost THEN drive.counter ELSE NoCounter
    BY <1>2, ReckonFields, Zenon
  <2>. QED  BY <1>2, <2>1
<1>4. LostEachTime /\ (Waits \/ WasLost \/ IsWatched)
  BY <1>3 DEF LossInv
<1>5. Overlooked("other") <=> loss.counter # NoCounter
  BY DEF Overlooked
<1>6. LostEachTime'
  <2>1. \A p \in {bridge'.slot} \cup Remembered' :
           p.id = accepted' => ~Reached(p.cmd, door', FALSE)
    <3>1. bridge'.lastSent.id # accepted
      BY <1>1, <1>2
    <3>. QED  BY <1>1, <1>4, <3>1, Zenon DEF LostEachTime, Remembered
  <2>2. ASSUME Live(accepted)' PROVE bridge.awaited # Nothing /\ Live(accepted)
    BY <1>1, <2>2, LiveOne
  <2>3. Live(accepted)' => /\ ~bridge'.acted
                           /\ loss'.answers = 1 + bridge'.repeatsSent + bridge'.confirmRepeats
    BY <1>1, <1>3, <1>4, <2>2 DEF LostEachTime
  <2>. QED  BY <1>3, <2>1, <2>3 DEF LostEachTime
<1>7. CASE Waits
  BY <1>1, <1>3, <1>5, <1>6, <1>7 DEF Waits
<1>8. CASE WasLost
  <2>1. Overlooked("other") /\ bridge.lastSent # Nothing
    BY <1>2, <1>5, <1>8 DEF WasLost
  <2>2. bridge.awaited.id = accepted
    BY <1>3, <1>8, <2>1 DEF WasLost, SentInv
  <2>. QED  BY <1>1, <1>3, <1>6, <2>1, <2>2 DEF IsWatched
<1>9. CASE IsWatched
  BY <1>1, <1>3, <1>6, <1>9 DEF IsWatched
<1>. QED  BY <1>4, <1>6, <1>7, <1>8, <1>9

\* A press that was accepted waits.
LEMMA LossPress ==
    ASSUME TypeOK, OrderInv, LossInv, NewPress
    PROVE  LossInv'
<1>. SUFFICES ASSUME ~loss'.excused
              PROVE  LostEachTime' /\ (Waits \/ WasLost \/ IsWatched)'
  BY DEF LossInv
<1>1. PICK press \in [id : {accepted + 1}, cmd : Press] : Accept(press)
  BY DEF NewPress
<1>2. press \in PressInfo /\ press.id = accepted + 1 /\ accepted \in Nat
  BY <1>1 DEF PressInfo, TypeOK
<1>3. /\ bridge'.slot = press
      /\ bridge'.lastSent = bridge.lastSent /\ bridge'.awaited = bridge.awaited
      /\ accepted' = accepted + 1 /\ door' = door
  BY <1>1, <1>2, AcceptBridge DEF Accept
<1>4. loss' = NoLoss /\ ~Reached(press.cmd, door, FALSE)
  BY <1>1, LossFields DEF Accept
<1>5. bridge'.lastSent.id # accepted' /\ bridge'.awaited.id # accepted'
  BY <1>2, <1>3, KnownPresses DEF Remembered
<1>6. Waits'
  BY <1>2, <1>3, <1>4, LossFields DEF Waits
<1>7. LostEachTime'
  <2>1. ~Live(accepted)'
    BY <1>5, LiveOne
  <2>. QED  BY <1>3, <1>4, <1>5, <2>1 DEF LostEachTime, Remembered
<1>. QED  BY <1>6, <1>7

\* No step forgets the newest press without a reason.
LEMMA LossStep == TypeOK /\ TypeOK' /\ OrderInv /\ SentInv /\ LossInv /\ [Next]_vars => LossInv'
<1>. SUFFICES ASSUME TypeOK, TypeOK', OrderInv, SentInv, LossInv, [Next]_vars PROVE LossInv'
  OBVIOUS
<1> USE DEF codecVars, pressVars, arrivalVars
<1>1. ASSUME loss'.excused
      PROVE  LossInv'
  BY <1>1 DEF LossInv
<1>2. ASSUME UNCHANGED <<door, accepted, received, loss>>,
             bridge'.slot = bridge.slot, bridge'.lastSent = bridge.lastSent,
             bridge'.awaited = bridge.awaited, bridge'.previous = bridge.previous,
             bridge'.acted = bridge.acted, bridge'.repeatsSent = bridge.repeatsSent,
             bridge'.confirmRepeats = bridge.confirmRepeats
      PROVE  LossInv'
  <2>1. Live(accepted)' <=> Live(accepted)
    BY <1>2, LiveOne
  <2>. QED  BY <1>2, <2>1
       DEF LossInv, LostEachTime, Remembered, Waits, WasLost, IsWatched
<1>3. CASE UNCHANGED vars \/ RequestLost \/ DriveRestarts \/ LoopContinues
  <2>1. UNCHANGED <<bridge, door, accepted, received, loss>>
    BY <1>3
    DEF vars, RequestLost, DriveRestarts, LoopContinues, RequestPause, ClearConfirmed,
        Acknowledged, TimedOut, EndPause
  <2>. QED  BY <1>2, <2>1
<1>4. ASSUME NEW timing \in Timing, NEW stale \in BOOLEAN, NEW answered \in BOOLEAN,
             StatusPoll(timing, stale, answered)
      PROVE  LossInv'
  BY <1>4, LossPoll
<1>5. ASSUME NEW answered \in BOOLEAN, PausedPoll(answered)
      PROVE  LossInv'
  <2>1. Reckon(Nothing, "status", answered, TRUE)
    BY <1>5 DEF PausedPoll
  <2>. QED  BY <1>1, <2>1, LossFields DEF Reckon
<1>6. ASSUME NEW answered \in BOOLEAN, OtherPoll(answered) \/ PauseAck(answered)
      PROVE  LossInv'
  <2>1. /\ bridge' = AdvanceCounter(Begin(bridge, drive.counter, "other"))
        /\ Reckon(Nothing, "other", answered, FALSE)
        /\ UNCHANGED <<door, accepted, received>>
    BY <1>6 DEF OtherPoll, PauseAck
  <2>. QED  BY <2>1, LossOther
<1>7. ASSUME NEW state \in Doors, NEW noise \in BOOLEAN, Broadcast(state, noise)
      PROVE  LossInv'
  <2>1. CASE noise \/ state # door
    BY <1>1, <1>7, <2>1, LossFields DEF Broadcast
  <2>2. CASE ~(noise \/ state # door)
    BY <1>2, <1>7, <2>2, BroadcastBridge DEF Broadcast
  <2>. QED  BY <2>1, <2>2
<1>8. CASE PressStop \/ (\E c \in Presses : PressCommand(c))
  BY <1>8, PressKinds, LossPress
<1>9. CASE LinkCalledDead \/ AnnouncePause
  <2>1. DropQueued /\ UNCHANGED <<door, accepted, received>>
    BY <1>9 DEF LinkCalledDead, AnnouncePause
  <2>2. CASE bridge.slot # Nothing
    BY <1>1, <2>1, <2>2, LossFields DEF DropQueued
  <2>3. CASE bridge.slot = Nothing
    BY <1>2, <2>1, <2>3, DropBridge DEF DropQueued
  <2>. QED  BY <2>2, <2>3
<1>10. CASE BridgeRestarts
  BY <1>1, <1>10, LossFields DEF BridgeRestarts
<1>. QED
  BY <1>3, <1>4, <1>5, <1>6, <1>7, <1>8, <1>9, <1>10, Zenon DEF Next, Exchange

-------------------------------------------------------------------------------
(* The theorems.                                                               *)

\* As the codec starts, nothing was pressed, sent or received.
LEMMA InvInit == Init => IInv
<1>. SUFFICES ASSUME Init PROVE IInv  OBVIOUS
<1>1. TypeOK
  BY TypeInit
<1>2. /\ bridge.slot = Nothing /\ bridge.lastSent = Nothing /\ bridge.awaited = Nothing
      /\ ~bridge.cancel
  BY DEF Init, Bridge
<1>3. accepted = 0 /\ received = 0 /\ copies = 0 /\ loss.excused
  BY LossFields DEF Init
<1>4. \A p \in Remembered : p = Nothing
  BY <1>2 DEF Remembered
<1>5. OrderInv
  BY <1>2, <1>4 DEF OrderInv, Queued, Carried
<1>6. CopiesInv /\ ReceiptInv
  <2>1. ~Live(received)
    BY <1>4 DEF Live
  <2>. QED  BY <1>2, <1>3, <2>1, ExchangeAssumption DEF CopiesInv, ReceiptInv
<1>7. OutdatedInv
  BY <1>2, <1>4 DEF OutdatedInv, Init
<1>8. SentInv /\ LossInv
  BY <1>2, <1>3 DEF SentInv, LossInv
<1>9. PauseInv /\ AcknowledgedByItsOwn
  BY DEF Init, PauseInv, AcknowledgedByItsOwn
<1>. QED  BY <1>1, <1>5, <1>6, <1>7, <1>8, <1>9 DEF IInv

\* Every step of the codec, the loop and the drive keeps the inductive invariant.
LEMMA InvStep == IInv /\ [Next]_vars => IInv'
<1>. SUFFICES ASSUME IInv, [Next]_vars PROVE IInv'  OBVIOUS
<1>1. TypeOK'
  BY TypeStep DEF IInv
<1>2. OrderInv'
  BY OrderStep DEF IInv
<1>3. CopiesInv' /\ ReceiptInv'
  BY <1>1, CopiesStep, ReceiptStep DEF IInv
<1>4. OutdatedInv' /\ SentInv'
  BY OutdatedStep, SentStep DEF IInv
<1>5. LossInv'
  BY <1>1, LossStep DEF IInv
<1>6. PauseInv' /\ AcknowledgedByItsOwn'
  BY PauseStep DEF IInv
<1>. QED  BY <1>1, <1>2, <1>3, <1>4, <1>5, <1>6 DEF IInv

\* What the codec keeps between two polls has its types: no stop goes out as one,
\* and no repeat is left for the next poll.
THEOREM TypeCorrect == Spec => []TypeOK
<1>1. IInv => TypeOK
  BY DEF IInv
<1>. QED  BY <1>1, InvInit, InvStep, PTL DEF Spec

\* A drive that holds its counter until it is answered receives a press again only
\* because it did not act on it, whatever was lost and polled in between.
THEOREM ReceiptIsReliableAlways == Spec => []ReceiptIsReliable
<1>1. IInv => ReceiptIsReliable
  BY DEF IInv, ReceiptInv, ReceiptIsReliable
<1>. QED  BY <1>1, InvInit, InvStep, PTL DEF Spec

\* A press that has not arrived, with no reason for that, waits in the slot, was in
\* the answer just lost and will be made good, or is watched with a repeat left.
THEOREM NoPressIsForgottenAlways == Spec => []NoPressIsForgotten
<1>1. IInv => NoPressIsForgotten
  <2>. SUFFICES ASSUME IInv, received < accepted, ~loss.excused
                PROVE  \/ bridge.slot.id = accepted
                       \/ bridge.lastSent.id = accepted /\ bridge.repeatsSent < LostAnswerRepeats
                       \/ bridge.awaited.id = accepted /\ bridge.confirmRepeats < UnactedRepeats
    BY DEF NoPressIsForgotten
  <2>1. LostEachTime /\ (Waits \/ WasLost \/ IsWatched)
    BY DEF IInv, LossInv
  <2>2. /\ bridge.repeatsSent \in Nat /\ bridge.confirmRepeats \in Nat
        /\ LostAnswerRepeats \in Nat /\ UnactedRepeats \in Nat
        /\ accepted \in Nat /\ received \in Nat
    BY RepeatsType DEF IInv
  <2>3. CASE WasLost
    <3>1. Live(accepted)
      BY <2>2, <2>3, LiveOne DEF WasLost, Nothing
    <3>2. loss.answers = 1 + bridge.repeatsSent + bridge.confirmRepeats
      BY <2>1, <3>1 DEF LostEachTime
    <3>. QED  BY <2>2, <2>3, <3>2 DEF WasLost
  <2>4. CASE IsWatched
    <3>1. Live(accepted)
      BY <2>2, <2>4, LiveOne DEF IsWatched, Nothing
    <3>2. /\ loss.answers = 1 + bridge.repeatsSent + bridge.confirmRepeats
          /\ loss.answers <= UnactedRepeats
      BY <2>1, <2>4, <3>1 DEF LostEachTime, IsWatched
    <3>. QED  BY <2>2, <2>4, <3>2 DEF IsWatched
  <2>. QED  BY <2>1, <2>3, <2>4 DEF Waits
<1>. QED  BY <1>1, InvInit, InvStep, PTL DEF Spec

\* A pause counts as acknowledged by an acknowledgement of its own, unless the drive
\* still owed one for an earlier pause when this one began.
THEOREM AcknowledgedByItsOwnAlways == Spec => []AcknowledgedByItsOwn
<1>1. IInv => AcknowledgedByItsOwn
  BY DEF IInv
<1>. QED  BY <1>1, InvInit, InvStep, PTL DEF Spec

\* Only a status poll that is answered brings a press to the drive: the one that
\* went out, which was not received after a later one.
LEMMA Arrives ==
    ASSUME IInv, IInv', [Next]_vars, arrivalVars' # arrivalVars
    PROVE  /\ bridge'.lastSent # Nothing /\ received' = bridge'.lastSent.id
           /\ copies' = IF received' = received THEN copies + 1 ELSE 1
           /\ received' >= received /\ bridge'.slot = Nothing
           /\ UNCHANGED <<accepted, stopped, quieted>>
<1>1. TypeOK /\ OrderInv
  BY DEF IInv
<1>2. PICK timing \in Timing, stale \in BOOLEAN, answered \in BOOLEAN :
         StatusPoll(timing, stale, answered)
  <2>1. ~Forgets
    BY DEF Forgets, arrivalVars
  <2>2. ~NewPress
    BY DEF NewPress, Accept, arrivalVars
  <2>. QED  BY <1>1, <2>1, <2>2, StepKinds DEF Polls
<1>3. /\ bridge'.slot = Nothing /\ Receives(bridge'.lastSent, answered)
      /\ \/ Fresh(bridge, bridge') \/ MadeGood(bridge, drive.counter, bridge')
         \/ Again(bridge, drive.counter, bridge') \/ Watched(bridge, drive.counter, bridge')
         \/ Done(bridge, drive.counter, timing, stale, bridge')
  BY <1>1, <1>2, StatusBridge
<1>4. UNCHANGED <<accepted, stopped, quieted>>
  BY <1>2 DEF StatusPoll, pressVars, pauseHist
<1>5. /\ bridge'.lastSent # Nothing /\ received' = bridge'.lastSent.id
      /\ copies' = IF received' = received THEN copies + 1 ELSE 1
  BY <1>3 DEF Receives, arrivalVars
<1>6. received' >= received
  <2>1. /\ received \in Nat
        /\ bridge.slot # Nothing => bridge.slot.id > received /\ bridge.slot.id \in Nat
        /\ \A p \in Remembered : p # Nothing => p.id >= received
    BY <1>1, KnownPresses DEF TypeOK, OrderInv
  <2>2. \/ bridge.slot # Nothing /\ bridge'.lastSent.id = bridge.slot.id
        \/ bridge'.lastSent \in Remembered
    BY <1>3, <1>5, Zenon DEF Fresh, MadeGood, Again, Watched, Done, Remembered
  <2>. QED  BY <1>5, <2>1, <2>2
<1>. QED  BY <1>3, <1>4, <1>5, <1>6

\* Nothing pressed before an accepted stop, or before a pause the drive was told of,
\* reaches the drive afterwards.
THEOREM NothingOutdatedArrivesAlways == Spec => NothingOutdatedArrives
<1>1. ASSUME IInv, IInv', [Next]_vars, arrivalVars' # arrivalVars
      PROVE  received' >= stopped /\ received' > quieted
  <2>1. /\ bridge'.lastSent # Nothing /\ received' = bridge'.lastSent.id
        /\ bridge'.slot = Nothing /\ UNCHANGED <<stopped, quieted>>
    BY <1>1, Arrives
  <2>2. \A p \in Remembered' : p # Nothing =>
           p.id > quieted' /\ (p.id >= stopped' \/ bridge'.slot.cmd = "STOP")
    BY <1>1 DEF IInv, OutdatedInv
  <2>3. bridge'.slot.cmd # "STOP"
    BY <2>1 DEF Nothing
  <2>. QED  BY <2>1, <2>2, <2>3 DEF Remembered
<1>2. IInv /\ IInv' /\ [Next]_vars =>
         [arrivalVars' # arrivalVars => received' >= stopped /\ received' > quieted]_vars
  BY <1>1
<1>. QED  BY <1>2, InvInit, InvStep, PTL DEF Spec, NothingOutdatedArrives

\* The exchange implements what it promises of a press: it arrives a bounded number
\* of times, and never after a later one. A press is accepted, an answer that
\* arrives brings one or brings it again, and all else is a stuttering step.
THEOREM DeliveryIsImplemented == Spec => ImplementsDelivery
<1>1. Init => Promise!Init
  BY DEF Init, Promise!Init
<1>2. ASSUME IInv, IInv', [Next]_vars
      PROVE  [Promise!Next]_(Promise!vars)
  <2>1. CASE arrivalVars' # arrivalVars
    <3>1. /\ bridge'.lastSent # Nothing /\ received' = bridge'.lastSent.id
          /\ copies' = IF received' = received THEN copies + 1 ELSE 1
          /\ received' >= received /\ accepted' = accepted
      BY <1>2, <2>1, Arrives
    <3>2. /\ received \in Nat /\ received' \in 1 .. accepted /\ copies \in Nat
          /\ copies' <= 1 + LostAnswerRepeats + UnactedRepeats
          /\ LostAnswerRepeats \in Nat /\ UnactedRepeats \in Nat
      <4>1. received' \in 1 .. accepted
        BY <1>2, <3>1 DEF IInv, OrderInv, Carried
      <4>. QED  BY <1>2, <4>1, RepeatsType DEF IInv, CopiesInv
    <3>3. CASE received' = received
      BY <3>1, <3>2, <3>3 DEF Promise!Next, Promise!ReceiveAgain
    <3>4. CASE received' # received
      BY <3>1, <3>2, <3>4 DEF Promise!Next, Promise!Receive
    <3>. QED  BY <3>3, <3>4
  <2>2. CASE arrivalVars' = arrivalVars
    <3>1. Polls \/ NewPress \/ Forgets
      BY <1>2, StepKinds DEF IInv
    <3>2. accepted' = accepted + 1 \/ accepted' = accepted
      BY <3>1, Zenon DEF Polls, StatusPoll, NewPress, Accept, Forgets, pressVars
    <3>. QED  BY <2>2, <3>2 DEF Promise!Next, Promise!Accept, Promise!vars, arrivalVars
  <2>. QED  BY <2>1, <2>2
<1>. QED  BY <1>1, <1>2, InvInit, InvStep, PTL DEF Spec, ImplementsDelivery, Promise!Spec
===============================================================================
