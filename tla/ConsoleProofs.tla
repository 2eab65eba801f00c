--------------------------- MODULE ConsoleProofs ---------------------------
(***************************************************************************)
(* The two ends of the console, for every size of buffer and of screen and *)
(* any number of bytes and of printed characters.                          *)
(*                                                                         *)
(* Keyboard: the scancode buffer implements LossyQueue, and the modifier   *)
(* bits follow the keys. Screen: the cursor stays on the screen, what was  *)
(* printed is shown, and what ALT holds is what was on the screen. The two *)
(* specifications share no variable; neither argument uses the other.      *)
(***************************************************************************)
EXTENDS Keyboard, Screen, FiniteSetTheorems, WellFoundedInduction, TLAPS

(***************************************************************************)
(* Keyboard.                                                               *)
(***************************************************************************)

\* The slots of KBD_BUF.
Slots == 0..(BUF_LEN - 1)

\* The variables the buffer's argument is about.
BufferTypeOK ==
    /\ sent \in Seq(AllBytes)
    /\ KBD_BUF \in [Slots -> 0..Len(sent)]
    /\ KBD_RPTR \in Slots /\ KBD_WPTR \in Slots /\ write_ptr \in Slots
    /\ pc \in Pc /\ handled \in 0..Len(sent) /\ taken \in 0..handled

\* The byte before the one in slot 0 of the lap that is being written.
Lap == Len(sent) - KBD_WPTR

\* Slots below the write index hold this lap's bytes in order, the others
\* older ones.
LapWritten ==
    /\ Lap >= 0
    /\ \A i \in Slots : IF i < KBD_WPTR THEN KBD_BUF[i] = Lap + i + 1
                                        ELSE KBD_BUF[i] <= Lap

\* Nothing of this lap from the read index on was handled yet; the same is true
\* of the write index poll_keyboard has loaded, where the read index may jump.
NotAhead ==
    /\ handled <= Lap + KBD_RPTR
    /\ pc = "compare" => /\ handled <= Lap + write_ptr
                         /\ KBD_RPTR < write_ptr => handled < KBD_BUF[KBD_RPTR]

\* The inductive invariant of the buffer.
QInv == BufferTypeOK /\ LapWritten /\ NotAhead

\* The key events. One code after the other is reported as down or as up, so outside
\* an event a key has either all of its codes reported as down or none.
AllDown(k, d) == \A i \in DOMAIN k : <<k, i>> \in d
NoneDown(k, d) == \A i \in DOMAIN k : <<k, i>> \notin d

OthersWhole(e, d) == \A k \in Keys : k = e.key \/ AllDown(k, d) \/ NoneDown(k, d)
MadeSoFar(e, d) ==
    e.way = "make" => \A j \in DOMAIN e.key : j < e.i => <<e.key, j>> \in d
BrokenSoFar(e, d) ==
    e.way = "break" => \A j \in DOMAIN e.key : j > e.i => <<e.key, j>> \notin d

DeviceInv ==
    /\ down \subseteq Parts /\ event \in Events \cup {Idle} /\ stage \in Stages
    /\ OthersWhole(event, down) /\ MadeSoFar(event, down) /\ BrokenSoFar(event, down)

\* Increasing a u8 index: one further, or back to the first slot.
LEMMA NextIndex ==
    ASSUME NEW i \in Slots
    PROVE  (i + 1) % BUF_LEN = IF i + 1 = BUF_LEN THEN 0 ELSE i + 1
  BY KeyboardConstants DEF Slots

\* What a key event is.
LEMMA EventParts ==
    ASSUME NEW e \in Events
    PROVE  /\ e.key \in Keys /\ e.i \in DOMAIN e.key /\ e.way \in {"make", "break"}
           /\ Len(e.key) \in Nat \ {0} /\ DOMAIN e.key = 1..Len(e.key)
           /\ e.key[e.i] \in Codes /\ e = [key |-> e.key, i |-> e.i, way |-> e.way]
           /\ <<e.key, e.i>> \in Parts /\ e # Idle
<1>1. PICK k \in Keys : e \in [key : {k}, i : DOMAIN k, way : {"make", "break"}]
  BY DEF Events
<1>2. k \in Seq(Codes) /\ k # <<>>
  BY KeyboardConstants
<1>3. Len(k) \in Nat \ {0} /\ DOMAIN k = 1..Len(k)
  BY <1>2
<1>4. e.key = k /\ e.i \in DOMAIN k /\ k[e.i] \in Codes
  BY <1>1, <1>2, <1>3
<1>5. e # Idle
  BY <1>1 DEF Idle
<1>6. <<e.key, e.i>> \in Parts
  BY <1>4 DEF Parts
<1> QED
  BY <1>1, <1>3, <1>4, <1>5, <1>6

\* A code is a pair of a prefix and a byte, which is no prefix.
LEMMA CodeIsPair ==
    ASSUME NEW c \in Codes
    PROVE  /\ c = <<c[1], c[2]>> /\ c[1] \in {"none", "E0"} /\ c[2] \in Bytes
           /\ c[2] # "E0" /\ c[2] # "F0"
<1>1. {"11", "12", "14", "5A", "7C"} \subseteq Bytes /\ "E0" \notin Bytes /\ "F0" \notin Bytes
  BY DEF Bytes, ShiftBytes, SysRqBytes, Answers
<1>2. PICK a \in {"none", "E0"}, b \in Bytes : c = <<a, b>>
  <2>1. CASE c \in {"none"} \X Bytes
    <3>1. PICK b \in Bytes : c = <<"none", b>>
      BY <2>1
    <3> QED
      BY <3>1
  <2>2. CASE c \in {"E0"} \X {"11", "12", "14", "5A", "7C"}
    <3>1. PICK b \in {"11", "12", "14", "5A", "7C"} : c = <<"E0", b>>
      BY <2>2
    <3> QED
      BY <1>1, <3>1
  <2> QED
    BY <2>1, <2>2 DEF Codes
<1>3. c[1] = a /\ c[2] = b
  BY <1>2
<1> QED
  BY <1>1, <1>2, <1>3

\* A combination of a key, one of its codes and a direction is an event.
LEMMA IsEvent ==
    ASSUME NEW k \in Keys, NEW i \in DOMAIN k, NEW way \in {"make", "break"}
    PROVE  [key |-> k, i |-> i, way |-> way] \in Events
<1>1. [key |-> k, i |-> i, way |-> way] \in [key : {k}, i : DOMAIN k, way : {"make", "break"}]
  OBVIOUS
<1> QED
  BY <1>1 DEF Events

\* The code the keyboard goes on with belongs to an event, that of the first or the
\* last code of a key if none was under way.
LEMMA CodeSent ==
    ASSUME DeviceInv, NEW e \in IF event = Idle THEN FirstCodes ELSE {event}
    PROVE  /\ e \in Events
           /\ event = Idle \/ e = event
           /\ event = Idle => e.i = IF e.way = "make" THEN 1 ELSE Len(e.key)
<1>1. CASE event # Idle
  BY <1>1 DEF DeviceInv
<1>2. CASE event = Idle
  <2>1. PICK k \in Keys : \/ e = [key |-> k, i |-> 1, way |-> "make"]
                          \/ e = [key |-> k, i |-> Len(k), way |-> "break"]
    BY <1>2 DEF FirstCodes, Held
  <2>2. k \in Seq(Codes) /\ k # <<>>
    BY KeyboardConstants
  <2>3. 1 \in DOMAIN k /\ Len(k) \in DOMAIN k
    BY <2>2
  <2>4. e \in Events
    BY <2>1, <2>3, IsEvent
  <2> QED
    BY <1>2, <2>1, <2>4
<1> QED
  BY <1>1, <1>2

\* The empty buffer satisfies the invariant.
LEMMA InitQInv == Init => QInv
  BY KeyboardConstants DEF Init, QInv, BufferTypeOK, LapWritten, NotAhead, Lap,
       Slots, Pc

\* Each step of the keyboard sends one byte.
LEMMA SomeByteSent ==
    ASSUME DeviceInv, KeyboardSends
    PROVE  \E c \in AllBytes : Send(c)
<1>1. PICK e \in IF event = Idle THEN FirstCodes ELSE {event} :
               SendExtended(e) \/ SendRelease(e) \/ SendLast(e)
  BY DEF KeyboardSends
<1>2. e.key[e.i][2] \in Bytes
  BY CodeSent, EventParts, CodeIsPair
<1> QED
  BY <1>1, <1>2 DEF SendExtended, SendRelease, SendLast, AllBytes

\* Every step keeps the invariant.
LEMMA NextQInv == QInv /\ DeviceInv /\ [Next]_vars => QInv'
<1> SUFFICES ASSUME QInv, DeviceInv, [Next]_vars PROVE QInv'
  OBVIOUS
<1> USE KeyboardConstants DEF QInv, BufferTypeOK, LapWritten, NotAhead, Slots, Pc
<1>0. Lap \in Nat
  BY DEF Lap
<1>1. CASE KeyboardSends
  <2>1. PICK c \in AllBytes : Send(c)
    BY <1>1, SomeByteSent
  <2>2. /\ sent' \in Seq(AllBytes) /\ Len(sent') = Len(sent) + 1
        /\ UNCHANGED <<KBD_RPTR, pc, write_ptr, handled, taken>>
    BY <2>1 DEF Send, hist
  <2>3. KBD_WPTR' = IF KBD_WPTR + 1 = BUF_LEN THEN 0 ELSE KBD_WPTR + 1
    BY <2>1, NextIndex DEF Send, kbd_handler
  <2>4. KBD_BUF' = [KBD_BUF EXCEPT ![KBD_WPTR] = Len(sent) + 1]
    BY <2>1, <2>2 DEF Send, kbd_handler
  <2>5. BufferTypeOK'
    BY <2>2, <2>3, <2>4
  <2>6. Lap' = IF KBD_WPTR + 1 = BUF_LEN THEN Lap + BUF_LEN ELSE Lap
    BY <2>2, <2>3 DEF Lap
  <2>7. KBD_BUF'[KBD_WPTR] = Lap + KBD_WPTR + 1
    BY <2>4 DEF Lap
  <2>8. \A i \in Slots : i # KBD_WPTR => KBD_BUF'[i] = KBD_BUF[i]
    BY <2>4
  <2>9. LapWritten'
    <3>1. ASSUME NEW i \in Slots
          PROVE  IF i < KBD_WPTR' THEN KBD_BUF'[i] = Lap' + i + 1
                                  ELSE KBD_BUF'[i] <= Lap'
      <4>1. CASE i = KBD_WPTR
        BY <1>0, <2>3, <2>6, <2>7, <4>1
      <4>2. CASE i # KBD_WPTR
        <5>1. KBD_BUF'[i] = KBD_BUF[i]
          BY <2>8, <4>2
        <5> QED
          BY <1>0, <2>3, <2>6, <4>2, <5>1
      <4> QED
        BY <4>1, <4>2
    <3> QED
      BY <1>0, <2>6, <3>1
  <2>10. NotAhead'
    <3>1. KBD_BUF[KBD_RPTR] <= KBD_BUF'[KBD_RPTR]
      BY <2>4
    <3>2. handled' <= Lap' + KBD_RPTR'
      BY <1>0, <2>2, <2>6
    <3>3. pc' = "compare" => handled' <= Lap' + write_ptr'
      BY <1>0, <2>2, <2>6
    <3>4. pc' = "compare" /\ KBD_RPTR' < write_ptr' => handled' < KBD_BUF'[KBD_RPTR']
      BY <2>2, <2>4, <3>1
    <3> QED
      BY <3>2, <3>3, <3>4
  <2> QED
    BY <2>5, <2>9, <2>10
<1>2. CASE init \/ kbd_wait_for_response \/ wait_for_response \/ StartupDone
  BY <1>2 DEF init, kbd_wait_for_response, wait_for_response, StartupDone, buf, dev,
       keys, hist, Lap
<1>3. CASE PollLoad
  BY <1>3 DEF PollLoad, buf, dev, keys, hist, Lap
<1>4. CASE PollEmpty
  BY <1>4 DEF PollEmpty, buf, dev, keys, hist, Lap
<1>5. CASE PollTake
  <2>1. /\ UNCHANGED <<sent, KBD_BUF, KBD_WPTR, write_ptr>>
        /\ pc' \in {"poll", "stopped"}
        /\ handled' = KBD_BUF[KBD_RPTR] /\ taken' = taken + 1
    BY <1>5 DEF PollTake, add_byte, keyboard_input, buf, dev
  <2>2. KBD_RPTR' = KBD_RPTR + 1 /\ KBD_RPTR + 1 \in Slots
    BY <1>5, NextIndex DEF PollTake
  <2>3. handled < handled' /\ handled' <= Lap + KBD_RPTR + 1
    <3>1. KBD_BUF[KBD_RPTR] <= Lap + KBD_RPTR + 1
      BY <1>0
    <3> QED
      BY <1>5, <2>1, <3>1 DEF PollTake
  <2> QED
    BY <2>1, <2>2, <2>3 DEF Lap
<1>6. CASE UNCHANGED vars
  BY <1>6 DEF vars, Lap
<1> QED
  BY <1>1, <1>2, <1>3, <1>4, <1>5, <1>6 DEF Next, poll_keyboard

\* Nothing is down at first.
LEMMA InitDeviceInv == Init => DeviceInv
  BY DEF Init, DeviceInv, Idle, Stages, OthersWhole, NoneDown, MadeSoFar, BrokenSoFar

\* Every byte of a key event keeps the invariant of the events.
LEMMA NextDeviceInv == DeviceInv /\ [Next]_vars => DeviceInv'
<1> SUFFICES ASSUME DeviceInv, [Next]_vars PROVE DeviceInv'
  OBVIOUS
<1>1. CASE KeyboardSends
  <2>1. PICK e \in IF event = Idle THEN FirstCodes ELSE {event} :
                 SendExtended(e) \/ SendRelease(e) \/ SendLast(e)
    BY <1>1 DEF KeyboardSends
  <2>2. /\ e \in Events /\ (event = Idle \/ e = event)
        /\ event = Idle => e.i = IF e.way = "make" THEN 1 ELSE Len(e.key)
    BY CodeSent
  <2>3. /\ e.key \in Keys /\ e.i \in DOMAIN e.key /\ e.way \in {"make", "break"}
        /\ Len(e.key) \in Nat \ {0} /\ DOMAIN e.key = 1..Len(e.key)
        /\ e = [key |-> e.key, i |-> e.i, way |-> e.way]
        /\ <<e.key, e.i>> \in Parts /\ e # Idle
    BY <2>2, EventParts
  <2>4. OthersWhole(e, down) /\ MadeSoFar(e, down) /\ BrokenSoFar(e, down)
    <3>1. CASE e = event
      BY <3>1 DEF DeviceInv
    <3>2. CASE event = Idle
      <4>1. \A k \in Keys : k # event.key
        BY <3>2, KeyboardConstants DEF Idle
      <4>2. OthersWhole(e, down)
        BY <4>1 DEF DeviceInv, OthersWhole
      <4>3. MadeSoFar(e, down)
        BY <2>2, <2>3, <3>2 DEF MadeSoFar
      <4>4. BrokenSoFar(e, down)
        BY <2>2, <2>3, <3>2 DEF BrokenSoFar
      <4> QED
        BY <4>2, <4>3, <4>4
    <3> QED
      BY <2>2, <3>1, <3>2
  <2>5. CASE SendExtended(e) \/ SendRelease(e)
    <3>1. event' = e /\ down' = down /\ stage' \in Stages
      BY <2>5 DEF SendExtended, SendRelease, Stages, Released
    <3> QED
      BY <2>2, <2>4, <3>1 DEF DeviceInv
  <2>6. CASE SendLast(e)
    <3>1. /\ stage' \in Stages /\ event' = NextCode(e)
          /\ down' = IF e.way = "make" THEN down \cup {<<e.key, e.i>>}
                                       ELSE down \ {<<e.key, e.i>>}
      BY <2>6 DEF SendLast, Stages
    <3>2. down' \subseteq Parts
      BY <2>3, <3>1 DEF DeviceInv
    <3>3. \A k \in Keys : k # e.key => AllDown(k, down') \/ NoneDown(k, down')
      <4>1. \A k \in Keys : k # e.key =>
              \A i \in DOMAIN k : <<k, i>> \in down' <=> <<k, i>> \in down
        BY <3>1
      <4> QED
        BY <2>4, <4>1 DEF OthersWhole, AllDown, NoneDown
    <3>4. /\ e.way = "make" => \A j \in DOMAIN e.key : j <= e.i => <<e.key, j>> \in down'
          /\ e.way = "break" => \A j \in DOMAIN e.key : j >= e.i => <<e.key, j>> \notin down'
      BY <2>3, <2>4, <3>1 DEF MadeSoFar, BrokenSoFar
    <3>5. CASE e.i = IF e.way = "make" THEN Len(e.key) ELSE 1
      <4>1. event' = Idle
        BY <3>1, <3>5 DEF NextCode
      <4>2. AllDown(e.key, down') \/ NoneDown(e.key, down')
        <5>1. CASE e.way = "make"
          <6>1. \A j \in DOMAIN e.key : j <= e.i
            BY <2>3, <3>5, <5>1
          <6> QED
            BY <3>4, <5>1, <6>1 DEF AllDown
        <5>2. CASE e.way = "break"
          <6>1. \A j \in DOMAIN e.key : j >= e.i
            BY <2>3, <3>5, <5>2
          <6> QED
            BY <3>4, <5>2, <6>1 DEF NoneDown
        <5> QED
          BY <2>3, <5>1, <5>2
      <4>3. OthersWhole(Idle, down')
        BY <3>3, <4>2 DEF OthersWhole
      <4>4. MadeSoFar(Idle, down') /\ BrokenSoFar(Idle, down')
        BY DEF MadeSoFar, BrokenSoFar, Idle
      <4> QED
        BY <3>1, <3>2, <4>1, <4>3, <4>4 DEF DeviceInv
    <3>6. CASE e.i # IF e.way = "make" THEN Len(e.key) ELSE 1
      <4>1. PICK n : n = IF e.way = "make" THEN e.i + 1 ELSE e.i - 1
        OBVIOUS
      <4> DEFINE f == [key |-> e.key, i |-> n, way |-> e.way]
      <4>2. event' = f /\ n \in DOMAIN e.key
        <5>1. event' = [e EXCEPT !.i = n]
          BY <3>1, <3>6, <4>1 DEF NextCode
        <5>2. n \in DOMAIN e.key
          BY <2>3, <3>6, <4>1
        <5> QED
          BY <2>3, <5>1, <5>2
      <4>3. f \in Events
        BY <2>3, <4>2, IsEvent
      <4>4. OthersWhole(f, down')
        BY <3>3 DEF OthersWhole
      <4>5. MadeSoFar(f, down')
        <5>1. e.way = "make" => \A j \in DOMAIN e.key : j < n => j <= e.i
          BY <2>3, <4>1
        <5> QED
          BY <3>4, <5>1 DEF MadeSoFar
      <4>6. BrokenSoFar(f, down')
        <5>1. e.way = "break" => \A j \in DOMAIN e.key : j > n => j >= e.i
          BY <2>3, <4>1
        <5> QED
          BY <3>4, <5>1 DEF BrokenSoFar
      <4> HIDE DEF f
      <4> QED
        BY <3>1, <3>2, <4>2, <4>3, <4>4, <4>5, <4>6 DEF DeviceInv
    <3> QED
      BY <3>5, <3>6
  <2> QED
    BY <2>1, <2>5, <2>6
<1>2. CASE ~KeyboardSends
  <2>1. UNCHANGED <<down, event, stage>>
    BY <1>2 DEF Next, poll_keyboard, init, kbd_wait_for_response, wait_for_response,
         StartupDone, PollLoad, PollEmpty, PollTake, dev, vars
  <2> QED
    BY <2>1 DEF DeviceInv
<1> QED
  BY <1>1, <1>2

\* Both invariants hold in every reachable state.
THEOREM QInvariance == Spec => [](QInv /\ DeviceInv)
  BY InitQInv, NextQInv, InitDeviceInv, NextDeviceInv, PTL DEF Spec

\* Every step is a step of the lossy queue or leaves it alone.
LEMMA QueueStep ==
    QInv /\ DeviceInv /\ [Next]_vars => [Queue!Next]_<<Len(sent), handled, taken>>
<1> SUFFICES ASSUME QInv, DeviceInv, [Next]_vars
             PROVE  [Queue!Next]_<<Len(sent), handled, taken>>
  OBVIOUS
<1> USE DEF QInv, BufferTypeOK, Slots
<1>1. CASE KeyboardSends
  <2>1. PICK c \in AllBytes : Send(c)
    BY <1>1, SomeByteSent
  <2> QED
    BY <2>1 DEF Send, hist, Queue!Next, Queue!Send
<1>2. CASE PollTake
  <2>1. handled' \in (handled + 1)..Len(sent) /\ taken' = taken + 1 /\ sent' = sent
    BY <1>2 DEF PollTake, NotAhead, dev
  <2> QED
    BY <2>1 DEF Queue!Next, Queue!Handle
<1>3. CASE ~KeyboardSends /\ ~PollTake
  BY <1>3 DEF Next, poll_keyboard, init, kbd_wait_for_response, wait_for_response,
       StartupDone, PollLoad, PollEmpty, dev, hist, vars
<1> QED
  BY <1>1, <1>2, <1>3

\* poll_keyboard implements the lossy queue: bytes reach the decoder in the
\* order in which the handler stored them and never twice, for every BUF_LEN and
\* however often the handler laps the reader (keyboard.rs:204-223, 376-402).
THEOREM BufferInOrder == Spec => InOrderAtMostOnce
<1>1. Init => Queue!Init
  BY DEF Init, Queue!Init
<1> QED
  BY <1>1, QInvariance, QueueStep, PTL DEF Spec, InOrderAtMostOnce, Queue!Spec

----------------------------------------------------------------------------
(* The modifier flags. *)

\* The code of one part of a key, and what is down once it was reported.
CodeOf(p) == p[1][p[2]]
Reported(d, p, way) == IF way = "make" THEN d \cup {p} ELSE d \ {p}

\* What the keyboard does with one byte: with d reported as down and s sent of a code
\* it sends c, and then it is d2 and s2.
KeySends(d, s, c, d2, s2) ==
    \/ c = "E0" /\ s = "start" /\ s2 = "extended" /\ d2 = d
    \/ c = "F0" /\ s \in {"start", "extended"} /\ s2 = Released(s) /\ d2 = d
    \/ \E p \in Parts, way \in {"make", "break"} :
          /\ s = LastStage(CodeOf(p)[1], way) /\ c = CodeOf(p)[2]
          /\ s2 = "start" /\ d2 = Reported(d, p, way)

\* The parts that share a flag: it is set only while one of them is down, and surely
\* while all of them are.
FlagAgrees(flag, P, d) ==
    /\ flag => d \cap P # {}
    /\ P # {} /\ P \subseteq d => flag

BytePart(B) == {p \in Parts : CodeOf(p)[2] \in B}
CodePart(c) == {p \in Parts : CodeOf(p) = c}

\* The flags and the decoder say that d are down and s was sent.
ShiftAgrees(d) == \A b \in ShiftBytes : FlagAgrees(b \in SHIFT, BytePart({b}), d)
SysRqAgrees(d) == FlagAgrees(SYSRQ, BytePart(SysRqBytes), d)
ModsAgree(d)   == \A c \in Ctrl \cup Alt : FlagAgrees(c \in mods, CodePart(c), d)
Agrees(d, s)   == decoder = s /\ ShiftAgrees(d) /\ SysRqAgrees(d) /\ ModsAgree(d)

\* There is a history of the keyboard, what was down and sent after each byte, that
\* led from nothing to the present; and as long as no byte was lost, the flags agree
\* with it at the last one that was handled.
KeyHistory ==
    \E D \in [0..Len(sent) -> SUBSET Parts], S \in [0..Len(sent) -> Stages] :
      /\ D[0] = {} /\ S[0] = "start"
      /\ \A n \in 1..Len(sent) : KeySends(D[n - 1], S[n - 1], sent[n], D[n], S[n])
      /\ D[Len(sent)] = down /\ S[Len(sent)] = stage
      /\ taken = handled => Agrees(D[handled], S[handled])

\* No key is down at first.
LEMMA InitKeyHistory == Init => KeyHistory
<1> SUFFICES ASSUME Init PROVE KeyHistory
  OBVIOUS
<1> DEFINE D == [n \in 0..0 |-> {}]
           S == [n \in 0..0 |-> "start"]
<1>1. ~SYSRQ
  BY Zenon DEF Init
<1>2. /\ Len(sent) = 0 /\ D \in [0..Len(sent) -> SUBSET Parts] /\ D[0] = {}
      /\ S \in [0..Len(sent) -> Stages] /\ S[0] = "start"
  BY DEF Init, Stages
<1>3. Agrees({}, "start")
  <2>1. ShiftAgrees({}) /\ ModsAgree({}) /\ decoder = "start"
    BY DEF Init, ShiftAgrees, ModsAgree, FlagAgrees
  <2>2. SysRqAgrees({})
    BY <1>1 DEF SysRqAgrees, FlagAgrees
  <2> QED
    BY <2>1, <2>2 DEF Agrees
<1>4. D[Len(sent)] = down /\ S[Len(sent)] = stage
  BY <1>2 DEF Init
<1>5. handled = 0 /\ \A n \in 1..Len(sent) : FALSE
  BY <1>2 DEF Init
<1> HIDE DEF D, S
<1> QED
  BY <1>2, <1>3, <1>4, <1>5 DEF KeyHistory

\* A part that is reported takes its flag along, any other leaves the flag.
LEMMA FlagStep ==
    ASSUME NEW flag, NEW flag2, NEW P, NEW d, NEW p, NEW way \in {"make", "break"},
           FlagAgrees(flag, P, d),
           p \in P => (flag2 <=> way = "make"),
           p \notin P => (flag2 <=> flag)
    PROVE  FlagAgrees(flag2, P, Reported(d, p, way))
<1>1. CASE p \in P /\ way = "make"
  <2>1. p \in Reported(d, p, way) /\ flag2
    BY <1>1 DEF Reported
  <2> QED
    BY <1>1, <2>1 DEF FlagAgrees
<1>2. CASE p \in P /\ way = "break"
  <2>1. p \notin Reported(d, p, way) /\ ~flag2
    BY <1>2 DEF Reported
  <2> QED
    BY <1>2, <2>1 DEF FlagAgrees
<1>3. CASE p \notin P
  <2>1. Reported(d, p, way) \cap P = d \cap P
    BY <1>3 DEF Reported
  <2>2. P \subseteq Reported(d, p, way) <=> P \subseteq d
    BY <1>3 DEF Reported
  <2> QED
    BY <1>3, <2>1, <2>2 DEF FlagAgrees
<1> QED
  BY <1>1, <1>2, <1>3

\* Handling the byte the keyboard sent brings the flags to what was down after it.
LEMMA FlagsFollow ==
    ASSUME NEW d \in SUBSET Parts, NEW s \in Stages, NEW c,
           NEW d2 \in SUBSET Parts, NEW s2 \in Stages,
           KeySends(d, s, c, d2, s2), Agrees(d, s), add_byte(c)
    PROVE  Agrees(d2, s2)'
<1>1. CASE c = "E0" /\ s = "start" /\ s2 = "extended" /\ d2 = d
  <2>1. decoder' = "extended" /\ UNCHANGED <<SHIFT, SYSRQ, mods>>
    BY <1>1 DEF add_byte, Agrees
  <2> QED
    BY <1>1, <2>1 DEF Agrees, ShiftAgrees, SysRqAgrees, ModsAgree, FlagAgrees
<1>2. CASE c = "F0" /\ s \in {"start", "extended"} /\ s2 = Released(s) /\ d2 = d
  <2>1. decoder' = Released(decoder) /\ UNCHANGED <<SHIFT, SYSRQ, mods>>
    BY <1>2 DEF add_byte, Agrees
  <2> QED
    BY <1>2, <2>1 DEF Agrees, ShiftAgrees, SysRqAgrees, ModsAgree, FlagAgrees
<1>3. ASSUME NEW p \in Parts, NEW way \in {"make", "break"},
             s = LastStage(CodeOf(p)[1], way), c = CodeOf(p)[2],
             s2 = "start", d2 = Reported(d, p, way)
      PROVE  Agrees(d2, s2)'
  <2>1. CodeOf(p) \in Codes
    <3>1. PICK k \in Keys : p \in {k} \X DOMAIN k
      BY DEF Parts
    <3>2. k \in Seq(Codes) /\ p[1] = k /\ p[2] \in DOMAIN k
      BY <3>1, KeyboardConstants
    <3> QED
      BY <3>2 DEF CodeOf
  <2>2. /\ CodeOf(p) = <<CodeOf(p)[1], c>> /\ CodeOf(p)[1] \in {"none", "E0"}
        /\ c # "E0" /\ c # "F0"
    BY <1>3, <2>1, CodeIsPair
  <2>3. /\ decoder = s /\ Prefix(s) = CodeOf(p)[1]
        /\ way = IF s \in {"start", "extended"} THEN "make" ELSE "break"
    BY <1>3, <2>2 DEF Agrees, LastStage, Prefix
  <2>4. decoder' = "start" /\ keyboard_input(CodeOf(p), way)
    BY <2>1, <2>2, <2>3 DEF add_byte
  <2>5. ShiftAgrees(d2)'
    <3> SUFFICES ASSUME NEW b \in ShiftBytes
                 PROVE  FlagAgrees(b \in SHIFT', BytePart({b}), d2)
      BY DEF ShiftAgrees, FlagAgrees
    <3>1. p \in BytePart({b}) <=> b = c
      BY <1>3 DEF BytePart
    <3>2. (b = c => (b \in SHIFT' <=> way = "make")) /\ (b # c => (b \in SHIFT' <=> b \in SHIFT))
      BY <1>3, <2>4 DEF keyboard_input
    <3>3. FlagAgrees(b \in SHIFT, BytePart({b}), d)
      BY DEF Agrees, ShiftAgrees
    <3> QED
      BY <1>3, <3>1, <3>2, <3>3, FlagStep
  <2>6. SysRqAgrees(d2)'
    <3>1. p \in BytePart(SysRqBytes) <=> c \in SysRqBytes
      BY <1>3 DEF BytePart
    <3>2. /\ c \in SysRqBytes => (SYSRQ' <=> way = "make")
          /\ c \notin SysRqBytes => (SYSRQ' <=> SYSRQ)
      BY <1>3, <2>4 DEF keyboard_input
    <3>3. FlagAgrees(SYSRQ, BytePart(SysRqBytes), d)
      BY DEF Agrees, SysRqAgrees
    <3>4. FlagAgrees(SYSRQ', BytePart(SysRqBytes), d2)
      BY <1>3, <3>1, <3>2, <3>3, FlagStep
    <3> QED
      BY <3>4 DEF SysRqAgrees, FlagAgrees
  <2>7. ModsAgree(d2)'
    <3> SUFFICES ASSUME NEW m \in Ctrl \cup Alt
                 PROVE  FlagAgrees(m \in mods', CodePart(m), d2)
      BY DEF ModsAgree, FlagAgrees
    <3>1. p \in CodePart(m) <=> m = CodeOf(p)
      BY DEF CodePart
    <3>2. /\ m = CodeOf(p) => (m \in mods' <=> way = "make")
          /\ m # CodeOf(p) => (m \in mods' <=> m \in mods)
      BY <1>3, <2>4 DEF keyboard_input, process_keyevent
    <3>3. FlagAgrees(m \in mods, CodePart(m), d)
      BY DEF Agrees, ModsAgree
    <3> QED
      BY <1>3, <3>1, <3>2, <3>3, FlagStep
  <2> QED
    BY <1>3, <2>4, <2>5, <2>6, <2>7 DEF Agrees
<1> QED
  BY <1>1, <1>2, <1>3 DEF KeySends

\* Every step extends the history or moves the reader along it.
LEMMA NextKeyHistory == 
    QInv /\ QInv' /\ DeviceInv /\ DeviceInv' /\ KeyHistory /\ [Next]_vars => KeyHistory'
<1> SUFFICES ASSUME QInv, QInv', DeviceInv, DeviceInv', KeyHistory, [Next]_vars PROVE KeyHistory'
  OBVIOUS
<1> USE KeyboardConstants DEF QInv, BufferTypeOK
<1>1. PICK D \in [0..Len(sent) -> SUBSET Parts], R \in [0..Len(sent) -> Stages] :
        /\ D[0] = {} /\ R[0] = "start"
        /\ \A n \in 1..Len(sent) : KeySends(D[n - 1], R[n - 1], sent[n], D[n], R[n])
        /\ D[Len(sent)] = down /\ R[Len(sent)] = stage
        /\ taken = handled => Agrees(D[handled], R[handled])
  BY DEF KeyHistory
<1>2. CASE KeyboardSends
  <2>1. PICK c : Send(c) /\ KeySends(down, stage, c, down', stage')
    <3>1. PICK e \in IF event = Idle THEN FirstCodes ELSE {event} :
                   SendExtended(e) \/ SendRelease(e) \/ SendLast(e)
      BY <1>2 DEF KeyboardSends
    <3>2. <<e.key, e.i>> \in Parts /\ e.way \in {"make", "break"} /\ e.key[e.i][1] \in {"none", "E0"}
      BY CodeSent, EventParts, CodeIsPair
    <3>3. CASE SendExtended(e)
      BY <3>3 DEF SendExtended, KeySends
    <3>4. CASE SendRelease(e)
      BY <3>2, <3>4 DEF SendRelease, KeySends, LastStage
    <3>5. CASE SendLast(e)
      <4> DEFINE p == <<e.key, e.i>>
      <4>1. CodeOf(p) = e.key[e.i]
        BY DEF CodeOf
      <4>2. down' = Reported(down, p, e.way)
        BY <3>5 DEF SendLast, Reported
      <4>3. KeySends(down, stage, e.key[e.i][2], down', stage')
        BY <3>2, <3>5, <4>1, <4>2 DEF SendLast, KeySends
      <4> QED
        BY <3>5, <4>3 DEF SendLast
    <3> QED
      BY <3>1, <3>3, <3>4, <3>5
  <2>2. /\ Len(sent) \in Nat /\ Len(sent') = Len(sent) + 1
        /\ sent'[Len(sent) + 1] = c
        /\ \A n \in 1..Len(sent) : sent'[n] = sent[n]
    BY <2>1 DEF Send
  <2>3. UNCHANGED <<keys, handled, taken>>
    BY <2>1 DEF Send, hist
  <2>4. down' \in SUBSET Parts /\ stage' \in Stages
    BY DEF DeviceInv
  <2>6. PICK D2 \in [0..(Len(sent) + 1) -> SUBSET Parts],
             R2 \in [0..(Len(sent) + 1) -> Stages] :
          /\ \A n \in 0..Len(sent) : D2[n] = D[n] /\ R2[n] = R[n]
          /\ D2[Len(sent) + 1] = down' /\ R2[Len(sent) + 1] = stage'
    <3> DEFINE f == [n \in 0..(Len(sent) + 1) |-> IF n <= Len(sent) THEN D[n] ELSE down']
               g == [n \in 0..(Len(sent) + 1) |-> IF n <= Len(sent) THEN R[n]
                                                                  ELSE stage']
    <3>1. \A n \in 0..(Len(sent) + 1) : n <= Len(sent) => n \in 0..Len(sent)
      BY <2>2
    <3>2. f \in [0..(Len(sent) + 1) -> SUBSET Parts] /\ g \in [0..(Len(sent) + 1) -> Stages]
      BY <1>1, <2>4, <3>1
    <3>3. /\ \A n \in 0..Len(sent) : f[n] = D[n] /\ g[n] = R[n]
          /\ f[Len(sent) + 1] = down' /\ g[Len(sent) + 1] = stage'
      BY <2>2
    <3> HIDE DEF f, g
    <3> QED
      BY <3>2, <3>3
  <2>7. ASSUME NEW n \in 1..(Len(sent) + 1)
        PROVE  KeySends(D2[n - 1], R2[n - 1], sent'[n], D2[n], R2[n])
    <3>1. CASE n = Len(sent) + 1
      <4>1. n - 1 = Len(sent) /\ n - 1 \in 0..Len(sent)
        BY <2>2, <3>1
      <4>2. D2[n - 1] = down /\ R2[n - 1] = stage
        BY <1>1, <2>6, <4>1
      <4> QED
        BY <2>1, <2>2, <2>6, <3>1, <4>2
    <3>2. CASE n # Len(sent) + 1
      <4>1. n \in 1..Len(sent) /\ n - 1 \in 0..Len(sent) /\ n \in 0..Len(sent)
        <5>1. PICK l \in Nat : l = Len(sent)
          BY <2>2
        <5>2. n \in 1..(l + 1) /\ n # l + 1
          BY <3>2, <5>1
        <5>3. n \in 1..l /\ n - 1 \in 0..l /\ n \in 0..l
          BY <5>2
        <5> QED
          BY <5>1, <5>3
      <4>2. D2[n - 1] = D[n - 1] /\ R2[n - 1] = R[n - 1] /\ D2[n] = D[n] /\ R2[n] = R[n]
        BY <2>6, <4>1
      <4>3. KeySends(D[n - 1], R[n - 1], sent[n], D[n], R[n]) /\ sent'[n] = sent[n]
        BY <1>1, <2>2, <4>1
      <4> QED
        BY <4>2, <4>3
    <3> QED
      BY <3>1, <3>2
  <2>8. taken' = handled' => Agrees(D2[handled], R2[handled])'
    <3>1. D2[handled] = D[handled] /\ R2[handled] = R[handled]
      BY <2>6
    <3> QED
      BY <1>1, <2>3, <3>1 DEF Agrees, ShiftAgrees, SysRqAgrees, ModsAgree, FlagAgrees, keys
  <2>9. D2[0] = {} /\ R2[0] = "start"
    BY <1>1, <2>2, <2>6
  <2> QED
    BY <2>2, <2>6, <2>7, <2>8, <2>9 DEF KeyHistory
<1>3. CASE PollTake
  <2>1. /\ UNCHANGED <<sent, down, stage>>
        /\ handled' = KBD_BUF[KBD_RPTR] /\ taken' = taken + 1
        /\ add_byte(sent[handled']) /\ handled < handled'
    BY <1>3 DEF PollTake, dev, NotAhead
  <2>2. ASSUME taken' = handled'
        PROVE  Agrees(D[handled], R[handled])'
    <3>1. taken = handled /\ handled' = handled + 1 /\ handled' \in 1..Len(sent)
      BY <2>1, <2>2
    <3>2. KeySends(D[handled], R[handled], sent[handled'], D[handled'], R[handled'])
      BY <1>1, <3>1
    <3> QED
      BY <1>1, <2>1, <3>1, <3>2, FlagsFollow
  <2> QED
    BY <1>1, <2>1, <2>2 DEF KeyHistory
<1>4. CASE ~KeyboardSends /\ ~PollTake
  <2>1. UNCHANGED <<sent, down, stage, SHIFT, SYSRQ, mods, decoder, handled, taken>>
    BY <1>4 DEF Next, poll_keyboard, init, kbd_wait_for_response, wait_for_response,
         StartupDone, PollLoad, PollEmpty, dev, keys, hist, vars
  <2> QED
    BY <1>1, <2>1 DEF KeyHistory, Agrees, ShiftAgrees, SysRqAgrees, ModsAgree, FlagAgrees
<1> QED
  BY <1>2, <1>3, <1>4

\* Outside an event a key is held if one of its codes is down.
LEMMA PartsOfHeld ==
    ASSUME DeviceInv, event = Idle, NEW flag, NEW K \in SUBSET Keys, NEW P \in SUBSET Parts,
           \A k \in Keys : k \in K <=> \E i \in DOMAIN k : <<k, i>> \in P,
           FlagAgrees(flag, P, down)
    PROVE  Follows(flag, K)
<1>1. \A k \in Keys : k # event.key
  BY KeyboardConstants DEF Idle
<1>2. \A k \in Keys : \A i \in DOMAIN k : <<k, i>> \in down => k \in Held
  BY <1>1 DEF DeviceInv, OthersWhole, AllDown, NoneDown, Held
<1>3. \A p \in P : \E k \in K : \E i \in DOMAIN k : p = <<k, i>>
  BY DEF Parts
<1>4. flag => K \cap Held # {}
  BY <1>2, <1>3 DEF FlagAgrees
<1>5. ASSUME K # {}, K \subseteq Held PROVE flag
  <2>1. P # {}
    BY <1>5
  <2>2. P \subseteq down
    BY <1>3, <1>5 DEF Held
  <2> QED
    BY <2>1, <2>2 DEF FlagAgrees
<1> QED
  BY <1>4, <1>5 DEF Follows

\* When every byte was handled the shift, SysRq, control and alt flags are those of
\* the keys held, for every set of keys, keys of several codes and keys that share a
\* byte included, and every buffer (keyboard.rs:282-326).
THEOREM ModifiersTrack == Spec => []ModifiersTrackKeys
<1>1. QInv /\ DeviceInv /\ KeyHistory => ModifiersTrackKeys
  <2> SUFFICES ASSUME QInv, DeviceInv, KeyHistory, taken = Len(sent), event = Idle
               PROVE  /\ \A b \in ShiftBytes : Follows(b \in SHIFT, WithByte({b}))
                      /\ Follows(SYSRQ, WithByte(SysRqBytes))
                      /\ \A c \in Ctrl \cup Alt :
                            Follows(c \in mods, {k \in Keys : \E i \in DOMAIN k : k[i] = c})
    BY DEF ModifiersTrackKeys, CaughtUp
  <2>1. handled = Len(sent) /\ taken = handled
    BY DEF QInv, BufferTypeOK
  <2>2. Agrees(down, stage)
    BY <2>1 DEF KeyHistory
  <2>3. \A k \in Keys : \A i \in DOMAIN k : <<k, i>> \in Parts /\ CodeOf(<<k, i>>) = k[i]
    BY DEF Parts, CodeOf
  <2>4. \A B : \A k \in Keys :
          k \in WithByte(B) <=> \E i \in DOMAIN k : <<k, i>> \in BytePart(B)
    BY <2>3 DEF WithByte, BytePart
  <2>5. \A b \in ShiftBytes : Follows(b \in SHIFT, WithByte({b}))
    <3> SUFFICES ASSUME NEW b \in ShiftBytes PROVE Follows(b \in SHIFT, WithByte({b}))
      OBVIOUS
    <3>1. /\ WithByte({b}) \in SUBSET Keys /\ BytePart({b}) \in SUBSET Parts
          /\ FlagAgrees(b \in SHIFT, BytePart({b}), down)
      BY <2>2 DEF WithByte, BytePart, Agrees, ShiftAgrees
    <3> QED
      BY <2>4, <3>1, PartsOfHeld
  <2>6. Follows(SYSRQ, WithByte(SysRqBytes))
    <3>1. /\ WithByte(SysRqBytes) \in SUBSET Keys /\ BytePart(SysRqBytes) \in SUBSET Parts
          /\ FlagAgrees(SYSRQ, BytePart(SysRqBytes), down)
      BY <2>2 DEF WithByte, BytePart, Agrees, SysRqAgrees
    <3> QED
      BY <2>4, <3>1, PartsOfHeld
  <2>7. \A c \in Ctrl \cup Alt :
          Follows(c \in mods, {k \in Keys : \E i \in DOMAIN k : k[i] = c})
    <3> SUFFICES ASSUME NEW c \in Ctrl \cup Alt
                 PROVE  Follows(c \in mods, {k \in Keys : \E i \in DOMAIN k : k[i] = c})
      OBVIOUS
    <3> DEFINE K == {k \in Keys : \E i \in DOMAIN k : k[i] = c}
    <3>1. /\ K \in SUBSET Keys /\ CodePart(c) \in SUBSET Parts
          /\ FlagAgrees(c \in mods, CodePart(c), down)
      BY <2>2 DEF CodePart, Agrees, ModsAgree
    <3>2. \A k \in Keys : k \in K <=> \E i \in DOMAIN k : <<k, i>> \in CodePart(c)
      BY <2>3 DEF CodePart
    <3> QED
      BY <3>1, <3>2, PartsOfHeld
  <2> QED
    BY <2>5, <2>6, <2>7
<1>2. Spec => [](QInv /\ DeviceInv /\ KeyHistory)
  BY InitQInv, NextQInv, InitDeviceInv, NextDeviceInv, InitKeyHistory, NextKeyHistory,
     PTL DEF Spec
<1> QED
  BY <1>1, <1>2, PTL

\* The flags, and the other variables the buffer's argument leaves out.
KeyFlags == KBD_INIT \in BOOLEAN /\ SYSRQ \in BOOLEAN

KeyTypes ==
    /\ Len(sent) <= MaxSent /\ PREV_RESPONSE \in 0..Len(sent)
    /\ SHIFT \subseteq ShiftBytes /\ mods \subseteq Ctrl \cup Alt
    /\ decoder \in Stages /\ asked \in Nat /\ answer \in Nat

\* Every step keeps the flags' type.
LEMMA NextKeyFlags == KeyFlags /\ [Next]_vars => KeyFlags'
<1> SUFFICES ASSUME KeyFlags, [Next]_vars PROVE KeyFlags'
  OBVIOUS
<1>1. CASE KeyboardSends
  BY <1>1, Zenon DEF KeyboardSends, SendExtended, SendRelease, SendLast, Send, keys, KeyFlags
<1>2. CASE init \/ kbd_wait_for_response \/ wait_for_response \/ StartupDone
  BY <1>2, Zenon DEF init, kbd_wait_for_response, wait_for_response, StartupDone, keys,
       KeyFlags
<1>3. CASE PollLoad \/ PollEmpty \/ UNCHANGED vars
  BY <1>3, Zenon DEF PollLoad, PollEmpty, vars, keys, KeyFlags
<1>4. CASE PollTake
  <2>1. PICK c : add_byte(c)
    BY <1>4, Zenon DEF PollTake
  <2>2. KBD_INIT' = KBD_INIT
    BY <1>4 DEF PollTake
  <2>3. SYSRQ' \in BOOLEAN
    BY <2>1, Zenon DEF add_byte, keyboard_input, KeyFlags
  <2> QED
    BY <2>2, <2>3, Zenon DEF KeyFlags
<1> QED
  BY <1>1, <1>2, <1>3, <1>4 DEF Next, poll_keyboard

\* Every step keeps the other types.
LEMMA NextKeyTypes == QInv /\ DeviceInv /\ KeyTypes /\ [Next]_vars => KeyTypes'
<1> SUFFICES ASSUME QInv, DeviceInv, KeyTypes, [Next]_vars PROVE KeyTypes'
  OBVIOUS
<1>1. sent \in Seq(AllBytes) /\ Len(sent) \in Nat
  BY DEF QInv, BufferTypeOK
<1>2. CASE KeyboardSends
  <2>1. PICK c \in AllBytes : Send(c)
    BY <1>2, SomeByteSent
  <2>2. /\ Len(sent) < MaxSent /\ Len(sent') = Len(sent) + 1
        /\ PREV_RESPONSE' = Len(sent') /\ UNCHANGED <<SHIFT, mods, decoder, asked, answer>>
    BY <1>1, <2>1 DEF Send, kbd_handler, keys, hist
  <2> QED
    BY <1>1, <2>2, KeyboardConstants DEF KeyTypes
<1>3. CASE PollTake
  <2>1. PICK c : add_byte(c)
    BY <1>3 DEF PollTake
  <2>2. /\ SHIFT' \subseteq ShiftBytes /\ mods' \subseteq Ctrl \cup Alt
        /\ decoder' \in Stages
    BY <2>1 DEF add_byte, keyboard_input, process_keyevent, KeyTypes, Stages, Released
  <2>3. UNCHANGED <<sent, PREV_RESPONSE, asked, answer>>
    BY <1>3 DEF PollTake, buf, dev
  <2> QED
    BY <2>2, <2>3 DEF KeyTypes
<1>4. CASE ~KeyboardSends /\ ~PollTake
  <2>1. UNCHANGED <<sent, PREV_RESPONSE, SHIFT, mods, decoder>>
    BY <1>4 DEF Next, poll_keyboard, init, kbd_wait_for_response, wait_for_response,
         StartupDone, PollLoad, PollEmpty, dev, keys, buf, vars
  <2>2. /\ asked' = asked \/ asked' = Len(sent)
        /\ answer' = answer \/ answer' = 0 \/ answer' = PREV_RESPONSE
    BY <1>4 DEF Next, poll_keyboard, init, kbd_wait_for_response, wait_for_response,
         StartupDone, PollLoad, PollEmpty, hist, vars
  <2> QED
    BY <1>1, <2>1, <2>2 DEF KeyTypes
<1> QED
  BY <1>2, <1>3, <1>4

\* Every variable keeps its type, the u8 indices stay inside KBD_BUF when they wrap,
\* and a slot never names a byte that has not been sent (keyboard.rs:204-222).
THEOREM KeyboardTypeCorrect == Spec => []TypeOK
<1>1. Init => KeyFlags /\ KeyTypes
  <2>1. Init => KeyFlags
    BY Zenon DEF Init, KeyFlags
  <2>2. Init => KeyTypes
    BY KeyboardConstants DEF Init, KeyTypes, Stages
  <2> QED
    BY <2>1, <2>2
<1>2. ASSUME QInv, DeviceInv, KeyFlags, KeyTypes PROVE TypeOK
  <2>1. down \subseteq Parts /\ event \in Events \cup {Idle} /\ stage \in Stages
    BY <1>2 DEF DeviceInv
  <2>2. /\ sent \in Seq(AllBytes) /\ Len(sent) <= MaxSent
        /\ KBD_BUF \in [0..(BUF_LEN - 1) -> 0..Len(sent)]
        /\ KBD_RPTR \in 0..(BUF_LEN - 1) /\ KBD_WPTR \in 0..(BUF_LEN - 1)
        /\ write_ptr \in 0..(BUF_LEN - 1) /\ pc \in Pc
        /\ handled \in Nat /\ taken \in Nat
    BY <1>2 DEF QInv, BufferTypeOK, Slots, KeyTypes
  <2>3. /\ PREV_RESPONSE \in 0..Len(sent) /\ SHIFT \subseteq ShiftBytes
        /\ mods \subseteq Ctrl \cup Alt /\ decoder \in Stages /\ asked \in Nat /\ answer \in Nat
    BY <1>2 DEF KeyTypes
  <2> QED
    BY <1>2, <2>1, <2>2, <2>3, Zenon DEF KeyFlags, TypeOK
<1> QED
  BY <1>1, <1>2, InitQInv, NextQInv, InitDeviceInv, NextDeviceInv, NextKeyFlags,
     NextKeyTypes, PTL DEF Spec

(***************************************************************************)
(* Screen.                                                                 *)
(***************************************************************************)

\* A set of natural numbers that has a member has a least one.
LEMMA LeastOne ==
    ASSUME NEW S \in SUBSET Nat, S # {}
    PROVE  \E m \in S : \A n \in S : ~(n < m)
<1> DEFINE R == OpToRel(<, Nat)
<1>1. IsWellFoundedOn(R, Nat)
  BY NatLessThanWellFounded
<1>2. PICK m \in S : \A n \in Nat : <<n, m>> \in R => n \notin S
  BY <1>1, WFMin, Zenon
<1>3. \A n \in Nat : n < m <=> <<n, m>> \in R
  BY DEF OpToRel
<1> QED
  BY <1>2, <1>3

\* h is the screen and the lines of the log after each of the first n characters.
TextRun(h, s, lines, str, n) ==
    h = [i \in 0..n |-> IF i = 0 THEN <<s, lines>>
                        ELSE <<write_char(h[i - 1][1], str[i]),
                               AppendChar(h[i - 1][2], str[i])>>]

\* There is such an h for every text.
LEMMA TextSteps ==
    ASSUME NEW s, NEW lines, NEW str, Len(str) \in Nat
    PROVE  \E h : TextRun(h, s, lines, str, Len(str))
<1> USE DEF TextRun
<1> DEFINE P(n) == \E h : TextRun(h, s, lines, str, n)
           Bad == {n \in Nat : ~P(n)}
<1>1. P(0)
  <2> DEFINE f == [i \in 0..0 |-> <<s, lines>>]
  <2>1. f = [i \in 0..0 |-> IF i = 0 THEN <<s, lines>>
                            ELSE <<write_char(f[i - 1][1], str[i]),
                                   AppendChar(f[i - 1][2], str[i])>>]
    OBVIOUS
  <2> QED
    BY <2>1
<1>2. ASSUME NEW n \in Nat, P(n) PROVE P(n + 1)
  <2>1. PICK f : f = [i \in 0..n |->
                        IF i = 0 THEN <<s, lines>>
                         ELSE <<write_char(f[i - 1][1], str[i]),
                                AppendChar(f[i - 1][2], str[i])>>]
    BY <1>2
  <2> DEFINE g == [i \in 0..(n + 1) |->
                     IF i = n + 1 THEN <<write_char(f[n][1], str[n + 1]),
                                         AppendChar(f[n][2], str[n + 1])>>
                                  ELSE f[i]]
  <2>2. \A i \in 0..(n + 1) :
           g[i] = IF i = 0 THEN <<s, lines>>
                  ELSE <<write_char(g[i - 1][1], str[i]),
                         AppendChar(g[i - 1][2], str[i])>>
    <3> SUFFICES ASSUME NEW i \in 0..(n + 1)
                 PROVE  g[i] = IF i = 0 THEN <<s, lines>>
                               ELSE <<write_char(g[i - 1][1], str[i]),
                                      AppendChar(g[i - 1][2], str[i])>>
      OBVIOUS
    <3>1. CASE i = n + 1
      <4>1. i # 0 /\ i - 1 = n /\ n \in 0..(n + 1) /\ n # n + 1
        BY <3>1
      <4>2. g[n] = f[n] /\ g[i] = <<write_char(f[n][1], str[n + 1]),
                                   AppendChar(f[n][2], str[n + 1])>>
        BY <3>1, <4>1
      <4> HIDE DEF g
      <4> QED
        BY <3>1, <4>1, <4>2
    <3>2. CASE i # n + 1
      <4>1. g[i] = f[i] /\ i \in 0..n
        BY <3>2
      <4>2. i # 0 => i - 1 \in 0..(n + 1) /\ i - 1 # n + 1 /\ g[i - 1] = f[i - 1]
        BY <3>2
      <4> HIDE DEF g
      <4>3. f[i] = IF i = 0 THEN <<s, lines>>
                   ELSE <<write_char(f[i - 1][1], str[i]), AppendChar(f[i - 1][2], str[i])>>
        BY <2>1, <4>1
      <4> QED
        BY <4>1, <4>2, <4>3
    <3> QED
      BY <3>1, <3>2
  <2>3. g = [i \in 0..(n + 1) |->
               IF i = 0 THEN <<s, lines>>
               ELSE <<write_char(g[i - 1][1], str[i]), AppendChar(g[i - 1][2], str[i])>>]
    BY <2>2
  <2> QED
    BY <2>3
<1>3. Bad = {}
  <2> SUFFICES ASSUME Bad # {} PROVE FALSE
    OBVIOUS
  <2>1. PICK m \in Bad : \A n \in Bad : ~(n < m)
    BY LeastOne
  <2> HIDE DEF P
  <2>2. m \in Nat /\ m # 0 /\ ~P(m)
    BY <1>1, <2>1
  <2>3. P(m - 1)
    BY <2>1, <2>2
  <2>4. P((m - 1) + 1)
    BY <1>2, <2>2, <2>3
  <2> QED
    BY <2>2, <2>4
<1> QED
  BY <1>3

\* The steps of print and of AppendText, one by one.
TextSequence(f, g, s, lines, str) ==
    /\ f[0] = s /\ g[0] = lines
    /\ \A i \in 0..(Len(str) - 1) : /\ f[i + 1] = write_char(f[i], str[i + 1])
                                    /\ g[i + 1] = AppendChar(g[i], str[i + 1])
    /\ print(s, str) = f[Len(str)] /\ AppendText(lines, str) = g[Len(str)]

\* print and AppendText satisfy the equations that define them.
LEMMA TextEquations ==
    ASSUME NEW s, NEW lines, NEW str, Len(str) \in Nat
    PROVE  \E f, g : TextSequence(f, g, s, lines, str)
<1>1. PICK h : TextRun(h, s, lines, str, Len(str))
  BY TextSteps
<1> DEFINE F(f) == [i \in 0..Len(str) |-> IF i = 0 THEN s ELSE write_char(f[i - 1], str[i])]
           G(g) == [i \in 0..Len(str) |-> IF i = 0 THEN lines ELSE AppendChar(g[i - 1], str[i])]
           f == CHOOSE f : f = F(f)
           g == CHOOSE g : g = G(g)
<1>2. \E e : e = F(e)
  <2> DEFINE e == [i \in 0..Len(str) |-> h[i][1]]
  <2>1. e = F(e)
    BY <1>1 DEF TextRun
  <2> QED
    BY <2>1
<1>3. \E e : e = G(e)
  <2> DEFINE e == [i \in 0..Len(str) |-> h[i][2]]
  <2>1. e = G(e)
    BY <1>1 DEF TextRun
  <2> QED
    BY <2>1
<1>4. print(s, str) = f[Len(str)] /\ AppendText(lines, str) = g[Len(str)]
  BY DEF print, AppendText
<1>5. f = F(f)
  BY <1>2
<1>6. g = G(g)
  BY <1>3
<1> HIDE DEF f, g
<1>7. TextSequence(f, g, s, lines, str)
  BY <1>4, <1>5, <1>6 DEF TextSequence
<1> QED
  BY <1>7

\* What is true of a screen before a text, and after a character if it was true
\* before it, is true after the text. A member of S is a position in the text and
\* a screen.
LEMMA PrintInduction ==
    ASSUME NEW s, NEW str, Len(str) \in Nat, NEW S,
           <<0, s>> \in S,
           \A i \in 0..(Len(str) - 1) : \A t :
              <<i, t>> \in S => <<i + 1, write_char(t, str[i + 1])>> \in S
    PROVE  <<Len(str), print(s, str)>> \in S
<1>1. PICK f, g : TextSequence(f, g, s, NoLog, str)
  BY TextEquations
<1> USE DEF TextSequence
<1> DEFINE Bad == {i \in 0..Len(str) : <<i, f[i]>> \notin S}
<1>2. Bad = {}
  <2> SUFFICES ASSUME Bad # {} PROVE FALSE
    OBVIOUS
  <2>0. Bad \in SUBSET Nat
    OBVIOUS
  <2> HIDE DEF Bad
  <2>1. PICK m \in Bad : \A n \in Bad : ~(n < m)
    BY <2>0, LeastOne
  <2> USE DEF Bad
  <2>2. m \in 1..Len(str) /\ <<m, f[m]>> \notin S
    BY <1>1, <2>1
  <2>3. <<m - 1, f[m - 1]>> \in S /\ m - 1 \in 0..(Len(str) - 1)
    BY <2>1, <2>2
  <2>4. f[(m - 1) + 1] = write_char(f[m - 1], str[(m - 1) + 1])
    BY <1>1, <2>3
  <2>5. <<(m - 1) + 1, f[(m - 1) + 1]>> \in S
    BY <2>3, <2>4
  <2> QED
    BY <2>2, <2>5
<1> QED
  BY <1>1, <1>2

\* The same for a screen and the lines of the log.
LEMMA TextInduction ==
    ASSUME NEW s, NEW lines, NEW str, Len(str) \in Nat, NEW S,
           <<s, lines>> \in S,
           \A i \in 1..Len(str) : \A t, k :
              <<t, k>> \in S => <<write_char(t, str[i]), AppendChar(k, str[i])>> \in S
    PROVE  <<print(s, str), AppendText(lines, str)>> \in S
<1>1. PICK f, g : TextSequence(f, g, s, lines, str)
  BY TextEquations
<1> USE DEF TextSequence
<1> DEFINE Bad == {i \in 0..Len(str) : <<f[i], g[i]>> \notin S}
<1>2. Bad = {}
  <2> SUFFICES ASSUME Bad # {} PROVE FALSE
    OBVIOUS
  <2>0. Bad \in SUBSET Nat
    OBVIOUS
  <2> HIDE DEF Bad
  <2>1. PICK m \in Bad : \A n \in Bad : ~(n < m)
    BY <2>0, LeastOne
  <2> USE DEF Bad
  <2>2. m \in 1..Len(str) /\ <<f[m], g[m]>> \notin S
    BY <1>1, <2>1
  <2>3. <<f[m - 1], g[m - 1]>> \in S /\ m - 1 \in 0..(Len(str) - 1)
    BY <2>1, <2>2
  <2>4. /\ f[(m - 1) + 1] = write_char(f[m - 1], str[(m - 1) + 1])
        /\ g[(m - 1) + 1] = AppendChar(g[m - 1], str[(m - 1) + 1])
    BY <1>1, <2>3
  <2>5. (m - 1) + 1 = m
    BY <2>2
  <2>6. <<f[m], g[m]>> \in S
    BY <2>2, <2>3, <2>4, <2>5
  <2> QED
    BY <2>2, <2>6
<1>3. Len(str) \in 0..Len(str) /\ Len(str) \notin Bad
  <2>1. Len(str) \in 0..Len(str)
    OBVIOUS
  <2> HIDE DEF Bad
  <2> QED
    BY <1>2, <2>1
<1>4. <<f[Len(str)], g[Len(str)]>> \in S
  BY <1>3
<1> QED
  BY <1>1, <1>4

----------------------------------------------------------------------------
(* The operations on a screen. *)

\* The characters of the model's texts.
Chars   == {NL, SPACE, WAITING, "a", "d", "h", "s", "t", "=", "K", "P"}

\* Rows of characters, and what the kernel keeps about the screen.
Buffers == [Rows -> [Columns -> Chars]]
Screens == [row : Rows, col : Columns, row0 : BOOLEAN, held : BOOLEAN,
            buf : Buffers, alt : Buffers]

\* The cursor is in row 0 only while that is allowed.
Proper(s) == s.row0 \/ s.row >= 1

\* Cursor operations and printing leave this of a screen alone.
Same(t, s) == t.row0 = s.row0 /\ t.held = s.held /\ t.alt = s.alt


\* The row clamp_row_col chooses.
RowFor(s, r) == IF r > H - 1 THEN H - 1 ELSE IF r = 0 /\ ~s.row0 THEN 1 ELSE r
ColFor(c)    == IF c > W - 1 THEN W - 1 ELSE c

\* It is on the screen.
LEMMA RowOnScreen ==
    ASSUME NEW s, s.row0 \in BOOLEAN, NEW r \in Nat, NEW c \in Nat
    PROVE  /\ RowFor(s, r) \in Rows /\ (s.row0 \/ RowFor(s, r) >= 1)
           /\ ColFor(c) \in Columns
  BY ScreenConstants DEF RowFor, ColFor, Rows, Columns

\* set_row puts any row on the screen.
LEMMA SetRow ==
    ASSUME NEW s \in Screens, NEW r \in Nat, NEW t, t = set_row(s, r)
    PROVE  /\ t \in Screens /\ Proper(t) /\ Same(t, s) /\ t.buf = s.buf
           /\ t.row = RowFor(s, r) /\ t.col = s.col
<1> DEFINE u == [s EXCEPT !.row = r]
<1>a. u.row = r /\ u.col = s.col /\ u.row0 = s.row0 /\ s.col \in 0..(W - 1)
  BY DEF Screens, Columns
<1>b. t = clamp_row_col(u)
  BY DEF set_row
<1>1. t = [s EXCEPT !.row = RowFor(s, r), !.col = s.col]
  <2>1. t = [u EXCEPT !.row = RowFor(s, r), !.col = s.col]
    <3> HIDE DEF u
    <3>1. (IF u.col > W - 1 THEN W - 1 ELSE u.col) = s.col
      BY <1>a, ScreenConstants
    <3>2. (CASE u.row > H - 1 -> H - 1 [] u.row = 0 /\ ~u.row0 -> 1 [] OTHER -> u.row)
             = RowFor(s, r)
      BY <1>a, ScreenConstants DEF RowFor
    <3> QED
      BY <1>b, <3>1, <3>2 DEF clamp_row_col
  <2> QED
    BY <2>1 DEF Screens
<1>2. s.row0 \in BOOLEAN /\ s.col \in Columns
  BY DEF Screens
<1>3. RowFor(s, r) \in Rows /\ (s.row0 \/ RowFor(s, r) >= 1)
  BY <1>2, RowOnScreen
<1> QED
  BY <1>1, <1>2, <1>3 DEF Screens, Proper, Same

\* set_col puts any column on the screen, and the row where it is allowed.
LEMMA SetCol ==
    ASSUME NEW s \in Screens, NEW c \in Nat, NEW t, t = set_col(s, c)
    PROVE  /\ t \in Screens /\ Proper(t) /\ Same(t, s) /\ t.buf = s.buf
           /\ t.row = RowFor(s, s.row) /\ t.col = ColFor(c)
<1> DEFINE u == [s EXCEPT !.col = c]
<1>a. u.row = s.row /\ u.col = c /\ u.row0 = s.row0 /\ s.row \in 0..(H - 1)
  BY DEF Screens, Rows
<1>b. t = clamp_row_col(u)
  BY DEF set_col
<1>1. t = [s EXCEPT !.row = RowFor(s, s.row), !.col = ColFor(c)]
  <2>1. t = [u EXCEPT !.row = RowFor(s, s.row), !.col = ColFor(c)]
    <3> HIDE DEF u
    <3>1. (IF u.col > W - 1 THEN W - 1 ELSE u.col) = ColFor(c)
      BY <1>a DEF ColFor
    <3>2. (CASE u.row > H - 1 -> H - 1 [] u.row = 0 /\ ~u.row0 -> 1 [] OTHER -> u.row)
             = RowFor(s, s.row)
      BY <1>a, ScreenConstants DEF RowFor
    <3> QED
      BY <1>b, <3>1, <3>2 DEF clamp_row_col
  <2> QED
    BY <2>1 DEF Screens
<1>2. s.row0 \in BOOLEAN /\ s.row \in Nat
  BY ScreenConstants DEF Screens, Rows
<1>3. /\ RowFor(s, s.row) \in Rows /\ (s.row0 \/ RowFor(s, s.row) >= 1)
      /\ ColFor(c) \in Columns
  BY <1>2, RowOnScreen
<1> QED
  BY <1>1, <1>2, <1>3 DEF Screens, Proper, Same

\* A row that is allowed stays.
LEMMA RowStays ==
    ASSUME NEW s \in Screens, Proper(s)
    PROVE  RowFor(s, s.row) = s.row
  BY ScreenConstants DEF RowFor, Screens, Rows, Proper

\* A cell can be written.
LEMMA Put ==
    ASSUME NEW s \in Screens, NEW r \in Rows, NEW c \in Columns, NEW char \in Chars,
           NEW t, t = put(s, r, c, char)
    PROVE  /\ t \in Screens /\ Same(t, s) /\ t.row = s.row /\ t.col = s.col
           /\ \A q \in Rows, d \in Columns :
                 t.buf[q][d] = IF q = r /\ d = c THEN char ELSE s.buf[q][d]
           /\ \A q \in Rows \ {r} : t.buf[q] = s.buf[q]
<1>1. t = [s EXCEPT !.buf = [s.buf EXCEPT ![r][c] = char]]
  BY DEF put, Screens
<1>2. s.buf \in Buffers /\ [s.buf EXCEPT ![r][c] = char] \in Buffers
  BY DEF Screens, Buffers
<1>3. /\ t \in Screens /\ Same(t, s) /\ t.row = s.row /\ t.col = s.col
      /\ t.buf = [s.buf EXCEPT ![r][c] = char]
  BY <1>1, <1>2 DEF Screens, Same
<1> QED
  BY <1>2, <1>3 DEF Buffers

\* The end of newline: one row further, or everything one row up.
LEMMA NewlineEndOf ==
    ASSUME NEW s \in Screens, Proper(s), NEW row \in Rows, NEW t, t = newline_end(s, row)
    PROVE  /\ t \in Screens /\ Proper(t) /\ Same(t, s) /\ t.col = s.col
           /\ row >= H - 1 =>
                /\ t.row = s.row
                /\ \A r \in Rows : t.buf[r] = IF r = H - 1 THEN [c \in Columns |-> SPACE]
                                              ELSE IF r = 0 /\ ~s.row0 THEN s.buf[r]
                                              ELSE s.buf[r + 1]
           /\ row < H - 1 => t.row = row + 1 /\ t.buf = s.buf
<1>1. CASE row >= H - 1
  <2> DEFINE b == [r \in Rows |-> CASE r = H - 1             -> empty_buffer[r]
                                    [] r = 0 /\ ~s.row0      -> s.buf[r]
                                    [] OTHER                 -> s.buf[r + 1]]
  <2>1. t = [s EXCEPT !.buf = b]
    BY <1>1 DEF newline_end
  <2>2. s.buf \in Buffers /\ s.row0 \in BOOLEAN
    BY DEF Screens
  <2>3. \A r \in Rows : b[r] = IF r = H - 1 THEN [c \in Columns |-> SPACE]
                               ELSE IF r = 0 /\ ~s.row0 THEN s.buf[r]
                               ELSE s.buf[r + 1]
    BY ScreenConstants DEF empty_buffer, Rows
  <2>4. \A r \in Rows : r # H - 1 => r + 1 \in Rows
    BY ScreenConstants DEF Rows
  <2>5. [c \in Columns |-> SPACE] \in [Columns -> Chars]
    <3>1. SPACE \in Chars
      BY DEF Chars
    <3> QED
      BY <3>1
  <2>6. \A r \in Rows : b[r] \in [Columns -> Chars]
    BY <2>2, <2>3, <2>4, <2>5 DEF Buffers
  <2>7. b \in Buffers
    BY <2>6 DEF Buffers
  <2> HIDE DEF b
  <2>8. t \in Screens /\ Same(t, s) /\ t.col = s.col /\ t.row = s.row /\ t.buf = b
    BY <2>1, <2>7 DEF Screens, Same
  <2>9. ~(row < H - 1)
    BY <1>1, ScreenConstants DEF Rows
  <2> QED
    BY <2>3, <2>8, <2>9 DEF Proper, Same
<1>2. CASE ~(row >= H - 1)
  <2>1. row + 1 \in Nat /\ row + 1 \in Rows /\ RowFor(s, row + 1) = row + 1
    BY <1>2, ScreenConstants DEF Rows, RowFor
  <2>2. t = set_row(s, row + 1)
    BY <1>2 DEF newline_end
  <2> QED
    BY <1>2, <2>1, <2>2, SetRow
<1> QED
  BY <1>1, <1>2

\* newline does nothing while somebody else holds the buffer.
LEMMA NewlineOf ==
    ASSUME NEW s \in Screens, Proper(s), NEW t, t = newline(s)
    PROVE  /\ t \in Screens /\ Proper(t) /\ Same(t, s)
           /\ s.held => t = s
           /\ ~s.held =>
                /\ t.col = 0
                /\ s.row >= H - 1 =>
                     /\ t.row = s.row
                     /\ \A r \in Rows : t.buf[r] = IF r = H - 1
                                                   THEN [c \in Columns |-> SPACE]
                                                   ELSE IF r = 0 /\ ~s.row0 THEN s.buf[r]
                                                   ELSE s.buf[r + 1]
                /\ s.row < H - 1 => t.row = s.row + 1 /\ t.buf = s.buf
<1> DEFINE u == set_col(s, 0)
<1>1. /\ u \in Screens /\ Proper(u) /\ Same(u, s) /\ u.buf = s.buf
      /\ u.row = s.row /\ u.col = 0 /\ s.row \in Rows /\ s.held \in BOOLEAN
  <2>1. ColFor(0) = 0
    BY ScreenConstants DEF ColFor
  <2> QED
    BY <2>1, SetCol, RowStays DEF Screens
<1>2. CASE s.held
  BY <1>2 DEF newline, Same
<1>3. CASE ~s.held
  <2>1. t = newline_end(u, s.row)
    BY <1>3 DEF newline
  <2> HIDE DEF u
  <2>2. /\ t \in Screens /\ Proper(t) /\ Same(t, u) /\ t.col = u.col
        /\ s.row >= H - 1 =>
                /\ t.row = u.row
                /\ \A r \in Rows : t.buf[r] = IF r = H - 1 THEN [c \in Columns |-> SPACE]
                                              ELSE IF r = 0 /\ ~u.row0 THEN u.buf[r]
                                              ELSE u.buf[r + 1]
        /\ s.row < H - 1 => t.row = s.row + 1 /\ t.buf = u.buf
    BY <1>1, <2>1, NewlineEndOf
  <2>3. Same(t, s)
    BY <1>1, <2>2 DEF Same
  <2> QED
    BY <1>1, <1>3, <2>2, <2>3 DEF Same
<1> QED
  BY <1>2, <1>3

\* What write_char does to the cell under the cursor.
Written(s, char) == IF s.held THEN s ELSE put(s, s.row, s.col, char)

\* It keeps everything but that cell.
LEMMA WrittenIs ==
    ASSUME NEW s \in Screens, Proper(s), NEW char \in Chars, NEW t, t = Written(s, char)
    PROVE  /\ t \in Screens /\ Proper(t) /\ Same(t, s) /\ t.row = s.row /\ t.col = s.col
           /\ \A q \in Rows \ {s.row} : t.buf[q] = s.buf[q]
           /\ ~s.held => \A q \in Rows, d \in Columns :
                 t.buf[q][d] = IF q = s.row /\ d = s.col THEN char ELSE s.buf[q][d]
<1>1. s.row \in Rows /\ s.col \in Columns
  BY DEF Screens
<1>2. CASE s.held
  BY <1>2 DEF Written, Same
<1>3. CASE ~s.held
  <2>1. t = put(s, s.row, s.col, char)
    BY <1>3 DEF Written
  <2>2. /\ t \in Screens /\ Same(t, s) /\ t.row = s.row /\ t.col = s.col
        /\ \A q \in Rows, d \in Columns :
               t.buf[q][d] = IF q = s.row /\ d = s.col THEN char ELSE s.buf[q][d]
        /\ \A q \in Rows \ {s.row} : t.buf[q] = s.buf[q]
    BY <1>1, <2>1, Put
  <2> QED
    BY <2>2 DEF Proper, Same
<1> QED
  BY <1>2, <1>3

\* write_char is one of three things.
LEMMA WriteCharIs ==
    ASSUME NEW s \in Screens, NEW char, NEW t, t = write_char(s, char)
    PROVE  /\ char = NL => t = newline(s)
           /\ char # NL /\ s.col >= W - 1 => t = newline(Written(s, char))
           /\ char # NL /\ ~(s.col >= W - 1) => t = set_col(Written(s, char), s.col + 1)
<1>1. CASE char = NL
  BY <1>1 DEF write_char
<1>2. CASE char # NL /\ s.col >= W - 1
  BY <1>2 DEF write_char, Written
<1>3. CASE char # NL /\ ~(s.col >= W - 1)
  BY <1>3 DEF write_char, Written
<1> QED
  BY <1>1, <1>2, <1>3

\* A character keeps the cursor on the screen, the topbar and the alt buffer.
LEMMA WriteCharKeeps ==
    ASSUME NEW s \in Screens, Proper(s), NEW char \in Chars, NEW t, t = write_char(s, char)
    PROVE  /\ t \in Screens /\ Proper(t) /\ Same(t, s)
           /\ ~s.row0 => t.buf[0] = s.buf[0]
<1> DEFINE u == Written(s, char)
<1>1. /\ u \in Screens /\ Proper(u) /\ Same(u, s) /\ u.row = s.row /\ u.col = s.col
      /\ \A q \in Rows \ {s.row} : u.buf[q] = s.buf[q]
  BY WrittenIs
<1>2. s.row \in Rows /\ s.col \in Nat /\ s.row0 \in BOOLEAN /\ 0 \in Rows /\ H - 1 # 0
  BY ScreenConstants DEF Screens, Rows, Columns
<1>3. ~s.row0 => u.buf[0] = s.buf[0]
  BY <1>1, <1>2 DEF Proper
<1> HIDE DEF u
<1>4. CASE char = NL
  <2>1. t = newline(s)
    BY <1>4, WriteCharIs
  <2>2. t \in Screens /\ Proper(t) /\ Same(t, s)
    BY <2>1, NewlineOf
  <2>3. ~s.row0 => t.buf[0] = s.buf[0]
    BY <1>2, <2>1, NewlineOf, ScreenConstants DEF Rows
  <2> QED
    BY <2>2, <2>3
<1>5. CASE char # NL /\ s.col >= W - 1
  <2>1. t = newline(u)
    BY <1>5, WriteCharIs DEF u
  <2>2. t \in Screens /\ Proper(t) /\ Same(t, u)
    BY <1>1, <2>1, NewlineOf
  <2>3. ~u.row0 => t.buf[0] = u.buf[0]
    BY <1>1, <1>2, <2>1, NewlineOf, ScreenConstants DEF Rows
  <2> QED
    BY <1>1, <1>3, <2>2, <2>3 DEF Same
<1>6. CASE char # NL /\ ~(s.col >= W - 1)
  <2>1. t = set_col(u, s.col + 1)
    BY <1>6, WriteCharIs DEF u
  <2>2. t \in Screens /\ Proper(t) /\ Same(t, u) /\ t.buf = u.buf
    <3>1. s.col + 1 \in Nat
      BY <1>2
    <3> QED
      BY <1>1, <2>1, <3>1, SetCol
  <2> QED
    BY <1>1, <1>3, <2>2 DEF Same
<1> QED
  BY <1>4, <1>5, <1>6

\* And so does a text.
LEMMA PrintKeeps ==
    ASSUME NEW s \in Screens, Proper(s), NEW str \in Seq(Chars), NEW t, t = print(s, str)
    PROVE  /\ t \in Screens /\ Proper(t) /\ Same(t, s)
           /\ ~s.row0 => t.buf[0] = s.buf[0]
<1> DEFINE Good(u) == /\ u \in Screens /\ Proper(u) /\ Same(u, s)
                      /\ ~s.row0 => u.buf[0] = s.buf[0]
           S == Nat \X {u \in Screens : Good(u)}
<1>1. Len(str) \in Nat /\ \A i \in 1..Len(str) : str[i] \in Chars
  OBVIOUS
<1>2. <<0, s>> \in S
  BY DEF Same
<1>3. ASSUME NEW i \in 0..(Len(str) - 1), NEW u, <<i, u>> \in S
      PROVE  <<i + 1, write_char(u, str[i + 1])>> \in S
  <2>1. i + 1 \in 1..Len(str) /\ i + 1 \in Nat
    BY <1>1
  <2>2. str[i + 1] \in Chars
    BY <1>1, <2>1
  <2>3. u \in Screens /\ Good(u)
    BY <1>3
  <2> DEFINE v == write_char(u, str[i + 1])
  <2>4. v \in Screens /\ Proper(v) /\ Same(v, u) /\ (~u.row0 => v.buf[0] = u.buf[0])
    BY <2>2, <2>3, WriteCharKeeps
  <2> HIDE DEF v
  <2>5. Good(v)
    BY <2>3, <2>4 DEF Same
  <2>6. <<i + 1, v>> \in S
    BY <2>1, <2>4, <2>5
  <2> QED
    BY <2>6 DEF v
<1> HIDE DEF S
<1>4. <<Len(str), t>> \in S
  BY <1>1, <1>2, <1>3, PrintInduction
<1> QED
  BY <1>4 DEF S

\* clamp_row_col puts the row where it is allowed.
LEMMA ClampOf ==
    ASSUME NEW s \in Screens
    PROVE  clamp_row_col(s).row = RowFor(s, s.row) /\ clamp_row_col(s).col = s.col
<1>1. s.row \in 0..(H - 1) /\ s.col \in 0..(W - 1)
  BY DEF Screens, Rows, Columns
<1>2. (IF s.col > W - 1 THEN W - 1 ELSE s.col) = s.col
  BY <1>1, ScreenConstants
<1>3. (CASE s.row > H - 1 -> H - 1 [] s.row = 0 /\ ~s.row0 -> 1 [] OTHER -> s.row)
         = RowFor(s, s.row)
  BY <1>1, ScreenConstants DEF RowFor
<1>4. clamp_row_col(s) = [s EXCEPT !.row = RowFor(s, s.row), !.col = s.col]
  BY <1>2, <1>3 DEF clamp_row_col
<1> QED
  BY <1>4 DEF Screens

\* What an arrow stores is on the screen, if only in the topbar's row.
LEMMA ShiftStore ==
    ASSUME NEW s \in Screens, Proper(s), ~s.row0,
           NEW direction \in {"Left", "Right", "Up", "Down"},
           NEW t, t = shift_store(s, direction)
    PROVE  t \in Screens /\ Same(t, s) /\ t.buf = s.buf
<1>1. s.row \in 1..(H - 1) /\ s.col \in 0..(W - 1)
  BY ScreenConstants DEF Screens, Rows, Columns, Proper
<1>2. CASE direction = "Left"
  <2> DEFINE c == IF s.col = 0 THEN W - 1 ELSE s.col - 1
  <2>1. c \in Columns /\ t = [s EXCEPT !.col = c]
    BY <1>1, <1>2, ScreenConstants DEF shift_store, Columns
  <2> HIDE DEF c
  <2> QED
    BY <2>1 DEF Screens, Same
<1>3. CASE direction = "Right"
  <2> DEFINE c == IF s.col < W - 1 THEN s.col + 1 ELSE 0
  <2>1. c \in Columns /\ t = [s EXCEPT !.col = c]
    BY <1>1, <1>3, ScreenConstants DEF shift_store, Columns
  <2> HIDE DEF c
  <2> QED
    BY <2>1 DEF Screens, Same
<1>4. CASE direction = "Up"
  <2> DEFINE r == IF s.row = 1 THEN H - 1 ELSE s.row - 1
  <2>1. r \in Rows /\ t = [s EXCEPT !.row = r]
    BY <1>1, <1>4, ScreenConstants DEF shift_store, Rows
  <2> HIDE DEF r
  <2> QED
    BY <2>1 DEF Screens, Same
<1>5. CASE direction = "Down"
  <2> DEFINE r == IF s.row < H - 1 THEN s.row + 1 ELSE 0
  <2>1. r \in Rows /\ t = [s EXCEPT !.row = r]
    BY <1>1, <1>5, ScreenConstants DEF shift_store, Rows
  <2> HIDE DEF r
  <2> QED
    BY <2>1 DEF Screens, Same
<1> QED
  BY <1>2, <1>3, <1>4, <1>5

\* With the clamp, the cursor stays below the topbar.
LEMMA ShiftCursor ==
    ASSUME NEW s \in Screens, Proper(s), ~s.row0,
           NEW direction \in {"Left", "Right", "Up", "Down"},
           NEW t, t = shift_cursor(s, direction)
    PROVE  /\ t \in Screens /\ Proper(t) /\ Same(t, s) /\ t.buf = s.buf
           /\ direction = "Left" /\ s.col > 0 => t.row = s.row /\ t.col = s.col - 1
<1> DEFINE u == shift_store(s, direction)
<1>1. u \in Screens /\ Same(u, s) /\ u.buf = s.buf
  BY ShiftStore
<1>2. u.row \in Nat /\ t = clamp_row_col(u)
  BY <1>1, ScreenConstants DEF shift_cursor, Screens, Rows
<1>3. direction = "Left" /\ s.col > 0 => u.row = s.row /\ u.col = s.col - 1
  <2> SUFFICES ASSUME direction = "Left", s.col > 0 PROVE u.row = s.row /\ u.col = s.col - 1
    OBVIOUS
  <2>1. u = [s EXCEPT !.col = IF s.col = 0 THEN W - 1 ELSE s.col - 1] /\ s.col # 0
    BY DEF shift_store, Screens, Columns
  <2> QED
    BY <2>1 DEF Screens
<1> HIDE DEF u
<1>4. u = [u EXCEPT !.row = u.row]
  BY <1>1 DEF Screens
<1>5. t = set_row(u, u.row)
  BY <1>2, <1>4 DEF set_row
<1>6. /\ t \in Screens /\ Proper(t) /\ Same(t, u) /\ t.buf = u.buf
      /\ t.row = RowFor(u, u.row) /\ t.col = u.col
  BY <1>1, <1>2, <1>5, SetRow
<1>7. direction = "Left" /\ s.col > 0 => RowFor(u, u.row) = u.row
  <2> SUFFICES ASSUME u.row = s.row PROVE RowFor(u, u.row) = u.row
    BY <1>3
  <2>1. Proper(u)
    BY <1>1 DEF Proper, Same
  <2> QED
    BY <1>1, <2>1, RowStays
<1> QED
  BY <1>1, <1>3, <1>6, <1>7 DEF Same

\* Backspace blanks the cell before the cursor.
LEMMA DeletePrevChar ==
    ASSUME NEW s \in Screens, Proper(s), ~s.row0, NEW t, t = delete_prev_char(s)
    PROVE  /\ t \in Screens /\ Proper(t) /\ Same(t, s)
           /\ s.col > 0 =>
                /\ t.row = s.row /\ t.col = s.col - 1
                /\ \A q \in Rows, d \in Columns :
                      t.buf[q][d] = IF q = s.row /\ d = s.col - 1 THEN SPACE ELSE s.buf[q][d]
<1>1. s.row \in 1..(H - 1) /\ s.col \in 0..(W - 1) /\ SPACE \in Chars
  BY ScreenConstants DEF Screens, Rows, Columns, Proper, Chars
<1>2. CASE s.col = 0
  <2> DEFINE u == put(s, s.row - 1, W - 1, SPACE)
             v == shift_cursor(u, "Left")
  <2>1. s.row - 1 \in Rows /\ W - 1 \in Columns
    BY <1>1, ScreenConstants DEF Rows, Columns
  <2>2. u \in Screens /\ Same(u, s) /\ u.row = s.row
    BY <1>1, <2>1, Put
  <2>3. t = shift_cursor(v, "Up")
    BY <1>2 DEF delete_prev_char
  <2> HIDE DEF u
  <2>4. Proper(u) /\ ~u.row0
    BY <2>2 DEF Proper, Same
  <2>5. v \in Screens /\ Proper(v) /\ Same(v, u)
    BY <2>2, <2>4, ShiftCursor
  <2> HIDE DEF v
  <2>6. ~v.row0
    BY <2>4, <2>5 DEF Same
  <2>7. t \in Screens /\ Proper(t) /\ Same(t, v)
    BY <2>3, <2>5, <2>6, ShiftCursor
  <2> QED
    BY <1>2, <2>2, <2>5, <2>7 DEF Same
<1>3. CASE s.col # 0
  <2> DEFINE u == put(s, s.row, s.col - 1, SPACE)
  <2>1. s.row \in Rows /\ s.col - 1 \in Columns
    BY <1>1, <1>3, ScreenConstants DEF Rows, Columns
  <2>2. /\ u \in Screens /\ Same(u, s) /\ u.row = s.row /\ u.col = s.col
        /\ \A q \in Rows, d \in Columns :
              u.buf[q][d] = IF q = s.row /\ d = s.col - 1 THEN SPACE ELSE s.buf[q][d]
    BY <1>1, <2>1, Put
  <2>3. t = shift_cursor(u, "Left")
    BY <1>3 DEF delete_prev_char
  <2> HIDE DEF u
  <2>4. Proper(u) /\ ~u.row0
    BY <2>2 DEF Proper, Same
  <2>5. /\ t \in Screens /\ Proper(t) /\ Same(t, u) /\ t.buf = u.buf
        /\ u.col > 0 => t.row = u.row /\ t.col = u.col - 1
    BY <2>2, <2>3, <2>4, ShiftCursor
  <2> QED
    BY <2>2, <2>5 DEF Same
<1> QED
  BY <1>2, <1>3

\* clear, and swap, which leaves the cursor.
LEMMA ClearOf ==
    ASSUME NEW s \in Screens, NEW t, t = clear(s)
    PROVE  /\ t \in Screens /\ Proper(t) /\ Same(t, s) /\ t.row = 1 /\ t.col = 0
           /\ ~s.held => t.buf = empty_buffer
<1> DEFINE u == set_col(s, 0)
           v == set_row(u, 1)
<1>1. u \in Screens /\ Same(u, s) /\ u.col = 0
  <2>1. ColFor(0) = 0
    BY ScreenConstants DEF ColFor
  <2> QED
    BY <2>1, SetCol
<1> HIDE DEF u
<1>2. v \in Screens /\ Proper(v) /\ Same(v, u) /\ v.row = 1 /\ v.col = 0
  <2>1. RowFor(u, 1) = 1
    BY ScreenConstants DEF RowFor
  <2> QED
    BY <1>1, <2>1, SetRow
<1>3. empty_buffer \in Buffers
  <2>1. SPACE \in Chars
    BY DEF Chars
  <2> QED
    BY <2>1 DEF Buffers, empty_buffer
<1>4. t = IF s.held THEN v ELSE [v EXCEPT !.buf = empty_buffer]
  BY DEF clear, u
<1> HIDE DEF v
<1>5. CASE s.held
  BY <1>1, <1>2, <1>4, <1>5 DEF Same
<1>6. CASE ~s.held
  <2>1. t = [v EXCEPT !.buf = empty_buffer]
    BY <1>4, <1>6
  <2>2. t \in Screens /\ t.row = 1 /\ t.col = 0 /\ t.buf = empty_buffer /\ Same(t, v)
    BY <1>2, <1>3, <2>1 DEF Screens, Same
  <2> QED
    BY <1>1, <1>2, <2>2 DEF Same, Proper
<1> QED
  BY <1>5, <1>6

\* swap exchanges the two buffers.
LEMMA SwapOf ==
    ASSUME NEW s \in Screens, Proper(s), ~s.held, NEW t, t = swap(s)
    PROVE  /\ t \in Screens /\ Proper(t) /\ t.row0 = s.row0 /\ t.held = s.held
           /\ t.buf = s.alt /\ t.alt = s.buf
<1>1. t = [s EXCEPT !.buf = s.alt, !.alt = s.buf]
  BY DEF swap
<1> QED
  BY <1>1 DEF Screens, Proper

----------------------------------------------------------------------------
(* The topbar. *)

\* Printing it on row 0 leaves the rows below alone: it is exactly one row.
LEMMA TopbarIsOneRow ==
    ASSUME NEW s \in Screens, s.row0, ~s.held, s.row = 0, s.col = 0
    PROVE  \A r \in Rows \ {0} : print(s, Topbar).buf[r] = s.buf[r]
<1> DEFINE Good(i, u) == /\ Proper(u) /\ Same(u, s)
                         /\ \A r \in Rows \ {0} : u.buf[r] = s.buf[r]
                         /\ i < W => u.row = 0 /\ u.col = i
           S == {p \in Nat \X Screens : Good(p[1], p[2])}
<1>1. Len(Topbar) = W /\ W \in Nat /\ \A i \in 1..W : Topbar[i] = "t"
  BY ScreenConstants DEF Topbar
<1>2. "t" \in Chars /\ "t" # NL
  BY DEF Chars, NL
<1>3. <<0, s>> \in S
  <2>1. Good(0, s)
    BY DEF Same, Proper
  <2> QED
    BY <2>1
<1>4. ASSUME NEW i \in 0..(W - 1), NEW u, <<i, u>> \in S
      PROVE  <<i + 1, write_char(u, "t")>> \in S
  <2>1. u \in Screens /\ Good(i, u) /\ i \in Nat /\ i < W /\ i + 1 \in Nat
    BY <1>1, <1>4
  <2>2. u.row = 0 /\ u.col = i /\ u.row0 /\ ~u.held
    BY <2>1 DEF Same
  <2> DEFINE v == Written(u, "t")
             x == write_char(u, "t")
  <2>3. /\ v \in Screens /\ Proper(v) /\ Same(v, u) /\ v.row = 0 /\ v.col = i
        /\ \A r \in Rows \ {0} : v.buf[r] = u.buf[r]
    BY <1>2, <2>1, <2>2, WrittenIs
  <2>4. x = IF i >= W - 1 THEN newline(v) ELSE set_col(v, i + 1)
    BY <1>2, <2>1, <2>2, WriteCharIs
  <2> HIDE DEF v, x
  <2>5. CASE i >= W - 1
    <3>1. x = newline(v) /\ ~v.held /\ v.row < H - 1
      BY <2>2, <2>3, <2>4, <2>5, ScreenConstants DEF Same
    <3>2. x \in Screens /\ Proper(x) /\ Same(x, v) /\ x.buf = v.buf
      BY <2>3, <3>1, NewlineOf
    <3>3. ~(i + 1 < W)
      BY <1>1, <2>5
    <3>4. Good(i + 1, x)
      BY <2>1, <2>3, <3>2, <3>3 DEF Same
    <3> QED
      BY <2>1, <3>2, <3>4 DEF x
  <2>6. CASE ~(i >= W - 1)
    <3>1. x = set_col(v, i + 1) /\ ColFor(i + 1) = i + 1
      BY <1>1, <2>4, <2>6 DEF ColFor
    <3>2. /\ x \in Screens /\ Proper(x) /\ Same(x, v) /\ x.buf = v.buf
          /\ x.row = 0 /\ x.col = i + 1
      <4>1. RowFor(v, v.row) = 0
        BY <2>3, RowStays
      <4>2. i + 1 \in Nat /\ v \in Screens
        BY <2>1, <2>3
      <4> QED
        BY <3>1, <4>1, <4>2, SetCol
    <3>4. Good(i + 1, x)
      BY <2>1, <2>3, <3>2 DEF Same
    <3> QED
      BY <2>1, <3>2, <3>4 DEF x
  <2> QED
    BY <2>5, <2>6
<1> HIDE DEF S
<1>5. <<W, print(s, Topbar)>> \in S
  <2>1. \A i \in 0..(Len(Topbar) - 1) : Topbar[i + 1] = "t"
    BY <1>1
  <2> QED
    BY <1>1, <1>3, <1>4, <2>1, PrintInduction
<1> QED
  BY <1>5 DEF S

\* draw_topbar begins at the start of row 0.
LEMMA TopbarBegins ==
    ASSUME NEW s \in Screens, NEW t, t = topbar_begin(s)
    PROVE  /\ t \in Screens /\ t.row0 /\ t.held = s.held /\ t.alt = s.alt
           /\ t.buf = s.buf /\ t.row = 0 /\ t.col = 0
<1> DEFINE u == [s EXCEPT !.row0 = TRUE]
           v == set_row(u, 0)
<1>1. u \in Screens /\ u.row0 = TRUE /\ u.held = s.held /\ u.alt = s.alt /\ u.buf = s.buf
  BY DEF Screens
<1>2. t = set_col(v, 0)
  BY DEF topbar_begin
<1> HIDE DEF u
<1>3. v \in Screens /\ Same(v, u) /\ v.buf = u.buf /\ v.row = 0 /\ Proper(v)
  <2>1. RowFor(u, 0) = 0
    BY <1>1, ScreenConstants DEF RowFor
  <2> QED
    BY <1>1, <2>1, SetRow
<1> HIDE DEF v
<1>4. t \in Screens /\ Same(t, v) /\ t.buf = v.buf /\ t.row = 0 /\ t.col = 0
  <2>1. ColFor(0) = 0
    BY ScreenConstants DEF ColFor
  <2> QED
    BY <1>2, <1>3, <2>1, SetCol, RowStays
<1> QED
  BY <1>1, <1>3, <1>4 DEF Same

\* draw_topbar puts the cursor back below the topbar.
LEMMA TopbarEnds ==
    ASSUME NEW s \in Screens, Proper(s), NEW row \in Rows \ {0}, NEW col \in Columns,
           NEW t, t = topbar_end(s, row, col)
    PROVE  /\ t \in Screens /\ Proper(t) /\ ~t.row0 /\ t.held = s.held /\ t.alt = s.alt
           /\ t.buf = print(s, Topbar).buf /\ t.row = row /\ t.col = col
<1> DEFINE u == print(s, Topbar)
           v == [u EXCEPT !.row0 = FALSE]
           w == set_row(v, row)
<1>1. u \in Screens /\ Same(u, s)
  <2>1. "t" \in Chars /\ W \in Nat
    BY ScreenConstants DEF Chars
  <2>2. Topbar \in Seq(Chars)
    BY <2>1 DEF Topbar
  <2> QED
    BY <2>2, PrintKeeps
<1>2. t = set_col(w, col)
  BY DEF topbar_end
<1> HIDE DEF u
<1>3. v \in Screens /\ v.row0 = FALSE /\ v.held = u.held /\ v.alt = u.alt /\ v.buf = u.buf
  BY <1>1 DEF Screens
<1> HIDE DEF v
<1>4. w \in Screens /\ Proper(w) /\ Same(w, v) /\ w.buf = v.buf /\ w.row = row
  <2>1. RowFor(v, row) = row /\ row \in Nat
    BY ScreenConstants DEF RowFor, Rows
  <2> QED
    BY <1>3, <2>1, SetRow
<1> HIDE DEF w
<1>5. t \in Screens /\ Proper(t) /\ Same(t, w) /\ t.buf = w.buf /\ t.row = row /\ t.col = col
  <2>1. ColFor(col) = col /\ col \in Nat
    BY ScreenConstants DEF ColFor, Columns
  <2> QED
    BY <1>2, <1>4, <2>1, SetCol, RowStays
<1> QED
  BY <1>1, <1>3, <1>4, <1>5 DEF Same, u

----------------------------------------------------------------------------
(* The last lines printed. *)

\* At least one line, and never more than there are rows under the topbar.
Lines == {k \in Seq(Seq(Chars)) : Len(k) \in 1..(H - 1)}

\* The rows under the topbar show the lines k and are blank after them.
Shown(b, k) ==
    \A r \in 1..(H - 1), c \in Columns :
        b[r][c] = IF r <= Len(k) /\ c < Len(k[r]) THEN k[r][c + 1] ELSE SPACE

\* The cursor is where the next character of k goes.
AtEnd(s, k) == s.row = Len(k) /\ s.col = Len(k[Len(k)])

\* Both, on a screen that nobody is writing to.
TailShown(s, k) ==
    k \in Lines /\ AtEnd(s, k) /\ Shown(s.buf, k) /\ ~s.row0 /\ ~s.held

\* A character at the end of the last line, and an open line after it.
Full(k, char) == [k EXCEPT ![Len(k)] = Append(@, char)]
Kept(k)       == IF Len(k) > H - 1 THEN Tail(k) ELSE k
Opened(k)     == Kept(Append(k, <<>>))

\* Full changes the last line only.
LEMMA FullOf ==
    ASSUME NEW k \in Lines, NEW char \in Chars
    PROVE  /\ Full(k, char) \in Lines /\ Len(Full(k, char)) = Len(k)
           /\ \A i \in 1..(Len(k) - 1) : Full(k, char)[i] = k[i]
           /\ Full(k, char)[Len(k)] = Append(k[Len(k)], char)
<1>1. Len(k) \in 1..(H - 1) /\ k \in Seq(Seq(Chars)) /\ Len(k) \in 1..Len(k)
  BY ScreenConstants DEF Lines
<1>2. k[Len(k)] \in Seq(Chars)
  BY <1>1
<1>3. Append(k[Len(k)], char) \in Seq(Chars)
  BY <1>2
<1>4. Full(k, char) \in Seq(Seq(Chars)) /\ Len(Full(k, char)) = Len(k)
  BY <1>1, <1>3 DEF Full
<1>5. DOMAIN k = 1..Len(k) /\ Full(k, char) = [k EXCEPT ![Len(k)] = Append(k[Len(k)], char)]
  BY <1>1 DEF Full
<1>6. \A i \in 1..(Len(k) - 1) : Full(k, char)[i] = k[i]
  <2> TAKE i \in 1..(Len(k) - 1)
  <2>1. Len(k) \in Nat
    BY <1>1
  <2>2. i \in 1..Len(k) /\ i # Len(k)
    BY <2>1
  <2> QED
    BY <1>5, <2>2
<1>7. Full(k, char)[Len(k)] = Append(k[Len(k)], char)
  BY <1>1, <1>5
<1> QED
  BY <1>1, <1>4, <1>6, <1>7 DEF Lines

\* Opened adds an empty line, at the price of the first one when there is no room.
LEMMA OpenedOf ==
    ASSUME NEW k \in Lines
    PROVE  /\ Opened(k) \in Lines
           /\ Len(k) < H - 1 => /\ Len(Opened(k)) = Len(k) + 1
                                /\ \A i \in 1..Len(k) : Opened(k)[i] = k[i]
                                /\ Opened(k)[Len(k) + 1] = <<>>
           /\ Len(k) = H - 1 => /\ Len(Opened(k)) = H - 1
                                /\ \A i \in 1..(H - 2) : Opened(k)[i] = k[i + 1]
                                /\ Opened(k)[H - 1] = <<>>
<1> DEFINE a == Append(k, <<>>)
<1>1. Len(k) \in 1..(H - 1) /\ k \in Seq(Seq(Chars)) /\ <<>> \in Seq(Chars) /\ H \in Nat
  BY ScreenConstants DEF Lines
<1>2. /\ a \in Seq(Seq(Chars)) /\ Len(a) = Len(k) + 1
      /\ \A i \in 1..Len(k) : a[i] = k[i]
      /\ a[Len(k) + 1] = <<>>
  BY <1>1
<1>3. Opened(k) = IF Len(a) > H - 1 THEN Tail(a) ELSE a
  BY DEF Opened, Kept
<1> HIDE DEF a
<1>4. CASE Len(k) < H - 1
  BY <1>1, <1>2, <1>3, <1>4 DEF Lines
<1>5. CASE Len(k) = H - 1
  <2>1. Opened(k) = Tail(a) /\ a # <<>>
    BY <1>1, <1>2, <1>3, <1>5
  <2>2. /\ Tail(a) \in Seq(Seq(Chars)) /\ Len(Tail(a)) = H - 1
        /\ \A i \in 1..(H - 1) : Tail(a)[i] = a[i + 1]
    BY <1>1, <1>2, <1>5, <2>1
  <2>3. \A i \in 1..(H - 2) : a[i + 1] = k[i + 1]
    <3>1. \A i \in 1..(H - 2) : i + 1 \in 1..Len(k)
      BY <1>1, <1>5
    <3> QED
      BY <1>2, <3>1
  <2>4. a[(H - 1) + 1] = <<>>
    BY <1>1, <1>2, <1>5
  <2>5. H - 1 \in 1..(H - 1)
    BY ScreenConstants
  <2> QED
    BY <1>1, <1>5, <2>1, <2>2, <2>3, <2>4, <2>5 DEF Lines
<1> QED
  BY <1>1, <1>4, <1>5

\* What the log makes of a character is one of these.
LEMMA AppendCharIs ==
    ASSUME NEW k \in Lines, NEW char \in Chars
    PROVE  /\ char = NL => AppendChar(k, char) = Opened(k)
           /\ char # NL /\ Len(k[Len(k)]) = W - 1 =>
                AppendChar(k, char) = Opened(Full(k, char))
           /\ char # NL /\ Len(k[Len(k)]) # W - 1 => AppendChar(k, char) = Full(k, char)
<1>1. /\ Full(k, char) \in Lines /\ Len(Full(k, char)) = Len(k)
      /\ Full(k, char)[Len(k)] = Append(k[Len(k)], char)
  BY FullOf
<1>2. Len(k) \in 1..(H - 1) /\ k \in Seq(Seq(Chars)) /\ Len(k) \in 1..Len(k)
  BY ScreenConstants DEF Lines
<1>3. k[Len(k)] \in Seq(Chars)
  BY <1>2
<1>4. Len(Append(k[Len(k)], char)) = W <=> Len(k[Len(k)]) = W - 1
  BY <1>3, ScreenConstants
<1> DEFINE full == Full(k, char)
           kept == CASE char = NL          -> Append(k, <<>>)
                     [] char # NL /\ Len(full[Len(k)]) = W -> Append(full, <<>>)
                     [] OTHER              -> full
<1>5. AppendChar(k, char) = Kept(kept)
  BY DEF AppendChar, Full, Kept
<1> HIDE DEF full
<1>6. CASE char = NL
  BY <1>5, <1>6 DEF Opened
<1>7. CASE char # NL /\ Len(k[Len(k)]) = W - 1
  <2>1. kept = Append(full, <<>>)
    BY <1>1, <1>4, <1>7 DEF full
  <2> HIDE DEF kept
  <2> QED
    BY <1>5, <1>7, <2>1 DEF Opened, full
<1>8. CASE char # NL /\ Len(k[Len(k)]) # W - 1
  <2>1. kept = full
    BY <1>1, <1>4, <1>8 DEF full
  <2>2. ~(Len(full) > H - 1)
    BY <1>1, <1>2, ScreenConstants DEF full
  <2> HIDE DEF kept
  <2> QED
    BY <1>5, <1>8, <2>1, <2>2 DEF Kept, full
<1> QED
  BY <1>6, <1>7, <1>8

\* A character written at the end of the lines extends them.
LEMMA PutShown ==
    ASSUME NEW k \in Lines, NEW char \in Chars, NEW b, NEW d,
           Shown(b, k), Len(k[Len(k)]) \in Columns,
           \A q \in Rows, c \in Columns :
              d[q][c] = IF q = Len(k) /\ c = Len(k[Len(k)]) THEN char ELSE b[q][c]
    PROVE  Shown(d, Full(k, char))
<1> DEFINE n == Len(k)
           f == Full(k, char)
           m == Len(k[n])
<1>1. /\ f \in Lines /\ Len(f) = n /\ \A i \in 1..(n - 1) : f[i] = k[i]
      /\ f[n] = Append(k[n], char)
  BY FullOf
<1>2. n \in 1..(H - 1) /\ k \in Seq(Seq(Chars)) /\ n \in 1..n /\ n \in Nat
  BY ScreenConstants DEF Lines
<1>3. k[n] \in Seq(Chars) /\ m \in Nat
  BY <1>2
<1>4. /\ Len(Append(k[n], char)) = m + 1 /\ Append(k[n], char)[m + 1] = char
      /\ \A i \in 1..m : Append(k[n], char)[i] = k[n][i]
  BY <1>3
<1> HIDE DEF f, m, n
<1>5. ASSUME NEW r \in 1..(H - 1), NEW c \in Columns
      PROVE  d[r][c] = IF r <= Len(f) /\ c < Len(f[r]) THEN f[r][c + 1] ELSE SPACE
  <2>1. r \in Rows /\ r \in Nat /\ c \in Nat /\ H \in Nat
    BY ScreenConstants DEF Rows, Columns
  <2>2. b[r][c] = IF r <= n /\ c < Len(k[r]) THEN k[r][c + 1] ELSE SPACE
    BY DEF Shown, n
  <2>3. d[r][c] = IF r = n /\ c = m THEN char ELSE b[r][c]
    BY <2>1 DEF n, m
  <2>4. CASE r # n
    <3>1. r <= n => r \in 1..(n - 1)
      BY <1>2, <2>1, <2>4
    <3>2. r <= n => f[r] = k[r]
      BY <1>1, <3>1
    <3> QED
      BY <1>1, <2>2, <2>3, <2>4, <3>2
  <2>5. CASE r = n /\ c = m
    BY <1>1, <1>2, <1>3, <1>4, <2>3, <2>5
  <2>6. CASE r = n /\ c # m
    <3>1. b[r][c] = IF c < m THEN k[n][c + 1] ELSE SPACE
      BY <1>2, <2>2, <2>6 DEF m
    <3>2. c < m => c + 1 \in 1..m
      BY <1>3, <2>1
    <3>3. c < m => Append(k[n], char)[c + 1] = k[n][c + 1]
      BY <1>4, <3>2
    <3>4. c < m + 1 <=> c < m
      BY <1>3, <2>1, <2>6
    <3>5. d[r][c] = b[r][c]
      BY <2>3, <2>6
    <3>6. r <= Len(f) /\ Len(f[r]) = m + 1
      BY <1>1, <1>2, <1>4, <2>6
    <3>7. c < m => f[r][c + 1] = k[n][c + 1]
      BY <1>1, <2>6, <3>3
    <3> QED
      BY <3>1, <3>4, <3>5, <3>6, <3>7
  <2> QED
    BY <2>4, <2>5, <2>6
<1> QED
  BY <1>5 DEF Shown, f

\* A newline at the end of the lines opens the next one, with the screen scrolled
\* when they fill it.
LEMMA NewlineShown ==
    ASSUME NEW k \in Lines, NEW s \in Screens, NEW t \in Screens,
           Shown(s.buf, k), s.row = Len(k), t.col = 0, ~s.row0,
           s.row >= H - 1 =>
             /\ t.row = s.row
             /\ \A r \in Rows : t.buf[r] = IF r = H - 1 THEN [c \in Columns |-> SPACE]
                                           ELSE IF r = 0 /\ ~s.row0 THEN s.buf[r]
                                           ELSE s.buf[r + 1],
           s.row < H - 1 => t.row = s.row + 1 /\ t.buf = s.buf
    PROVE  Shown(t.buf, Opened(k)) /\ AtEnd(t, Opened(k)) /\ Opened(k) \in Lines
<1> DEFINE n == Len(k)
           o == Opened(k)
<1>1. n \in 1..(H - 1) /\ n \in Nat /\ H \in Nat /\ H > 2
  BY ScreenConstants DEF Lines
<1>2. Len(<<>>) = 0
  OBVIOUS
<1>3. o \in Lines
  BY OpenedOf
<1>4. CASE n < H - 1
  <2>1. Len(o) = n + 1 /\ (\A i \in 1..n : o[i] = k[i]) /\ o[n + 1] = <<>>
    BY <1>4, OpenedOf
  <2>2. t.row = n + 1 /\ t.buf = s.buf
    BY <1>4
  <2> HIDE DEF o, n
  <2>3. AtEnd(t, o)
    BY <1>2, <2>1, <2>2 DEF AtEnd
  <2>4. ASSUME NEW r \in 1..(H - 1), NEW c \in Columns
        PROVE  t.buf[r][c] = IF r <= Len(o) /\ c < Len(o[r]) THEN o[r][c + 1] ELSE SPACE
    <3>1. s.buf[r][c] = IF r <= n /\ c < Len(k[r]) THEN k[r][c + 1] ELSE SPACE
      BY DEF Shown, n
    <3>2. c \in Nat /\ r \in Nat
      BY ScreenConstants DEF Columns
    <3>3. CASE r <= n
      <4>1. o[r] = k[r] /\ r <= Len(o)
        BY <1>1, <2>1, <3>2, <3>3
      <4> QED
        BY <2>2, <3>1, <3>3, <4>1
    <3>4. CASE r = n + 1
      BY <1>1, <1>2, <2>1, <2>2, <3>1, <3>2, <3>4
    <3>5. CASE r > n + 1
      BY <1>1, <2>1, <2>2, <3>1, <3>2, <3>5
    <3> QED
      BY <1>1, <3>2, <3>3, <3>4, <3>5
  <2> QED
    BY <1>3, <2>3, <2>4 DEF Shown, o
<1>5. CASE n = H - 1
  <2>1. Len(o) = H - 1 /\ (\A i \in 1..(H - 2) : o[i] = k[i + 1]) /\ o[H - 1] = <<>>
    BY <1>5, OpenedOf
  <2>2. /\ t.row = n
        /\ \A r \in Rows : t.buf[r] = IF r = H - 1 THEN [c \in Columns |-> SPACE]
                                      ELSE IF r = 0 /\ ~s.row0 THEN s.buf[r]
                                      ELSE s.buf[r + 1]
    BY <1>1, <1>5
  <2> HIDE DEF o, n
  <2>3. AtEnd(t, o)
    BY <1>2, <1>5, <2>1, <2>2 DEF AtEnd
  <2>4. ASSUME NEW r \in 1..(H - 1), NEW c \in Columns
        PROVE  t.buf[r][c] = IF r <= Len(o) /\ c < Len(o[r]) THEN o[r][c + 1] ELSE SPACE
    <3>1. c \in Nat /\ r \in Nat /\ r \in Rows /\ r # 0
      BY ScreenConstants DEF Columns, Rows
    <3>2. CASE r = H - 1
      <4>1. t.buf[r] = [x \in Columns |-> SPACE]
        BY <2>2, <3>1, <3>2
      <4>2. t.buf[r][c] = SPACE
        BY <4>1
      <4> QED
        BY <1>2, <2>1, <3>1, <3>2, <4>2
    <3>3. CASE r # H - 1
      <4>1. r + 1 \in 1..(H - 1) /\ r \in 1..(H - 2) /\ r + 1 <= n /\ r <= H - 1
        BY <1>1, <1>5, <3>1, <3>3
      <4>2. t.buf[r] = s.buf[r + 1]
        BY <2>2, <3>1, <3>3
      <4>3. s.buf[r + 1][c] = IF r + 1 <= n /\ c < Len(k[r + 1]) THEN k[r + 1][c + 1]
                                                                ELSE SPACE
        BY <4>1 DEF Shown, n
      <4>4. o[r] = k[r + 1]
        BY <2>1, <4>1
      <4> QED
        BY <2>1, <4>1, <4>2, <4>3, <4>4
    <3> QED
      BY <3>2, <3>3
  <2> QED
    BY <1>3, <2>3, <2>4 DEF Shown, o
<1> QED
  BY <1>1, <1>4, <1>5

\* write_char keeps the screen in step with the lines.
LEMMA WriteCharShown ==
    ASSUME NEW s \in Screens, NEW k, TailShown(s, k), NEW char \in Chars
    PROVE  /\ write_char(s, char) \in Screens
           /\ TailShown(write_char(s, char), AppendChar(k, char))
<1> DEFINE t == write_char(s, char)
           v == Written(s, char)
<1>1. /\ k \in Lines /\ s.row = Len(k) /\ s.col = Len(k[Len(k)]) /\ Shown(s.buf, k)
      /\ ~s.row0 /\ ~s.held
  BY DEF TailShown, AtEnd
<1>2. Len(k) \in 1..(H - 1) /\ s.col \in Columns /\ s.col \in 0..(W - 1)
  BY <1>1 DEF Lines, Screens, Columns
<1>3. Proper(s)
  BY <1>1, <1>2, ScreenConstants DEF Proper
<1>4. t \in Screens /\ Same(t, s)
  BY <1>3, WriteCharKeeps
<1>5. ~t.row0 /\ ~t.held
  BY <1>1, <1>4 DEF Same
<1>6. /\ v \in Screens /\ Proper(v) /\ Same(v, s) /\ v.row = s.row /\ v.col = s.col
      /\ \A q \in Rows, d \in Columns :
            v.buf[q][d] = IF q = Len(k) /\ d = Len(k[Len(k)]) THEN char ELSE s.buf[q][d]
  BY <1>1, <1>3, WrittenIs
<1>7. char = NL => t = newline(s)
  BY WriteCharIs
<1>8. char # NL /\ s.col >= W - 1 => t = newline(v)
  BY WriteCharIs
<1>9. char # NL /\ ~(s.col >= W - 1) => t = set_col(v, s.col + 1)
  BY WriteCharIs
<1> HIDE DEF t, v
<1>10. Shown(v.buf, Full(k, char))
  BY <1>1, <1>2, <1>6, PutShown
<1>11. Full(k, char) \in Lines /\ Len(Full(k, char)) = Len(k)
       /\ Full(k, char)[Len(k)] = Append(k[Len(k)], char)
  BY <1>1, FullOf
<1>12. CASE char = NL
  <2>1. AppendChar(k, char) = Opened(k) /\ t = newline(s)
    BY <1>1, <1>7, <1>12, AppendCharIs
  <2>2. Shown(t.buf, Opened(k)) /\ AtEnd(t, Opened(k)) /\ Opened(k) \in Lines
    BY <1>1, <1>3, <1>4, <2>1, NewlineOf, NewlineShown
  <2> QED
    BY <1>4, <1>5, <2>1, <2>2 DEF TailShown, t
<1>13. CASE char # NL /\ s.col >= W - 1
  <2> DEFINE f == Full(k, char)
  <2>1. Len(k[Len(k)]) = W - 1
    BY <1>1, <1>2, <1>13, ScreenConstants
  <2>2. AppendChar(k, char) = Opened(f) /\ t = newline(v)
    BY <1>1, <1>8, <1>13, <2>1, AppendCharIs
  <2>3. ~v.row0 /\ ~v.held /\ v.row = Len(f) /\ f \in Lines /\ Shown(v.buf, f)
    BY <1>1, <1>6, <1>10, <1>11 DEF Same
  <2> HIDE DEF f
  <2>4. Shown(t.buf, Opened(f)) /\ AtEnd(t, Opened(f)) /\ Opened(f) \in Lines
    BY <1>4, <1>6, <2>2, <2>3, NewlineOf, NewlineShown
  <2> QED
    BY <1>4, <1>5, <2>2, <2>4 DEF TailShown, t
<1>14. CASE char # NL /\ ~(s.col >= W - 1)
  <2>1. Len(k[Len(k)]) # W - 1 /\ s.col + 1 \in Nat /\ ColFor(s.col + 1) = s.col + 1
    BY <1>1, <1>2, <1>14, ScreenConstants DEF ColFor
  <2>2. AppendChar(k, char) = Full(k, char) /\ t = set_col(v, s.col + 1)
    BY <1>1, <1>9, <1>14, <2>1, AppendCharIs
  <2>3. RowFor(v, v.row) = v.row
    BY <1>6, RowStays
  <2>4. t.buf = v.buf /\ t.row = s.row /\ t.col = s.col + 1
    BY <1>6, <2>1, <2>2, <2>3, SetCol
  <2>5. Len(Append(k[Len(k)], char)) = Len(k[Len(k)]) + 1
    <3>1. k[Len(k)] \in Seq(Chars)
      BY <1>1, <1>2, ScreenConstants DEF Lines
    <3> QED
      BY <3>1
  <2>6. AtEnd(t, Full(k, char))
    BY <1>1, <1>11, <2>4, <2>5 DEF AtEnd
  <2> QED
    BY <1>4, <1>5, <1>10, <1>11, <2>2, <2>4, <2>6 DEF TailShown, t
<1> QED
  BY <1>12, <1>13, <1>14

\* And so does print.
LEMMA PrintShown ==
    ASSUME NEW s \in Screens, NEW k, TailShown(s, k), NEW str \in Seq(Chars)
    PROVE  TailShown(print(s, str), AppendText(k, str))
<1> DEFINE S == {p \in Screens \X Lines : TailShown(p[1], p[2])}
<1>1. Len(str) \in Nat /\ \A i \in 1..Len(str) : str[i] \in Chars
  OBVIOUS
<1>2. <<s, k>> \in S
  BY DEF TailShown
<1>3. ASSUME NEW i \in 1..Len(str), NEW u, NEW j, <<u, j>> \in S
      PROVE  <<write_char(u, str[i]), AppendChar(j, str[i])>> \in S
  <2>1. u \in Screens /\ TailShown(u, j)
    BY <1>3
  <2>2. /\ write_char(u, str[i]) \in Screens
        /\ TailShown(write_char(u, str[i]), AppendChar(j, str[i]))
    BY <1>1, <2>1, WriteCharShown
  <2>3. AppendChar(j, str[i]) \in Lines
    BY <2>2 DEF TailShown
  <2> QED
    BY <2>2, <2>3
<1> HIDE DEF S
<1>4. <<print(s, str), AppendText(k, str)>> \in S
  BY <1>1, <1>2, <1>3, TextInduction
<1> QED
  BY <1>4 DEF S

----------------------------------------------------------------------------
(* The last message. *)

\* Its last two lines stand at the start of the last two rows used.
Readable(s) == s.row >= 1 /\ s.buf[s.row][0] = "P" /\ s.buf[s.row - 1][0] = "K"

\* A character in column 0 stays there, the cursor in its row.
LEMMA FirstCharStays ==
    ASSUME NEW s \in Screens, Proper(s), ~s.held, s.col = 0,
           NEW char \in Chars, char # NL, NEW t, t = write_char(s, char)
    PROVE  /\ t \in Screens /\ Proper(t) /\ Same(t, s) /\ t.row = s.row
           /\ t.buf[s.row][0] = char
           /\ \A r \in Rows \ {s.row} : t.buf[r] = s.buf[r]
<1> DEFINE v == Written(s, char)
<1>1. s.row \in Rows /\ 0 \in Columns /\ ~(s.col >= W - 1) /\ s.col + 1 = 1
  BY ScreenConstants DEF Screens, Columns
<1>2. /\ v \in Screens /\ Proper(v) /\ Same(v, s) /\ v.row = s.row
      /\ \A q \in Rows \ {s.row} : v.buf[q] = s.buf[q]
      /\ \A q \in Rows, d \in Columns :
            v.buf[q][d] = IF q = s.row /\ d = s.col THEN char ELSE s.buf[q][d]
  BY WrittenIs
<1>3. t = set_col(v, 1)
  BY <1>1, WriteCharIs
<1> HIDE DEF v
<1>4. RowFor(v, v.row) = s.row
  BY <1>2, RowStays
<1>5. t \in Screens /\ Proper(t) /\ Same(t, v) /\ t.buf = v.buf /\ t.row = s.row
  BY <1>2, <1>3, <1>4, SetCol
<1>6. v.buf[s.row][0] = char
  BY <1>1, <1>2
<1> QED
  BY <1>2, <1>5, <1>6 DEF Same

\* A newline starts a row below the first.
LEMMA NewlineStartsRow ==
    ASSUME NEW s \in Screens, Proper(s), ~s.held, NEW t, t = write_char(s, NL)
    PROVE  t \in Screens /\ Proper(t) /\ ~t.held /\ t.col = 0 /\ t.row >= 1
<1>1. t = newline(s)
  BY WriteCharIs
<1>2. s.row \in 0..(H - 1)
  BY DEF Screens, Rows
<1>3. t \in Screens /\ Proper(t) /\ Same(t, s) /\ t.col = 0
  BY <1>1, NewlineOf
<1>4. s.row >= H - 1 => t.row = s.row
  BY <1>1, NewlineOf
<1>5. s.row < H - 1 => t.row = s.row + 1
  BY <1>1, NewlineOf
<1> QED
  BY <1>2, <1>3, <1>4, <1>5, ScreenConstants DEF Same

\* The two lines of a message that begins at the start of a row.
LEMMA TwoLines ==
    ASSUME NEW s \in Screens, Proper(s), ~s.held, s.col = 0, s.row >= 1
    PROVE  Readable(write_char(write_char(write_char(s, "K"), NL), "P"))
<1> DEFINE a == write_char(s, "K")
           b == write_char(a, NL)
           c == write_char(b, "P")
<1>1. "K" \in Chars /\ "P" \in Chars /\ NL \in Chars /\ "K" # NL /\ "P" # NL
  BY DEF Chars, NL
<1>2. s.row \in 1..(H - 1)
  BY ScreenConstants DEF Screens, Rows
<1>3. a \in Screens /\ Proper(a) /\ Same(a, s) /\ a.row = s.row /\ a.buf[s.row][0] = "K"
  BY <1>1, FirstCharStays
<1> HIDE DEF a
<1>4. ~a.held
  BY <1>3 DEF Same
<1>5. b \in Screens /\ Proper(b) /\ ~b.held /\ b.col = 0 /\ b.row >= 1
  BY <1>3, <1>4, NewlineStartsRow
<1>6. b = newline(a)
  BY <1>3, WriteCharIs
<1> HIDE DEF b
<1>7. b.row \in 1..(H - 1) /\ b.buf[b.row - 1][0] = "K"
  <2>1. CASE s.row = H - 1
    <3>1. /\ b.row = s.row
          /\ \A r \in Rows : b.buf[r] = IF r = H - 1 THEN [x \in Columns |-> SPACE]
                                        ELSE IF r = 0 /\ ~a.row0 THEN a.buf[r]
                                        ELSE a.buf[r + 1]
      BY <1>2, <1>3, <1>4, <1>6, <2>1, NewlineOf
    <3>2. H - 2 \in Rows /\ H - 2 # H - 1 /\ H - 2 # 0 /\ (H - 2) + 1 = H - 1
      BY ScreenConstants DEF Rows
    <3>3. b.buf[H - 2] = a.buf[H - 1]
      BY <3>1, <3>2
    <3>4. b.row - 1 = H - 2
      BY <2>1, <3>1, ScreenConstants
    <3> QED
      BY <1>2, <1>3, <2>1, <3>1, <3>3, <3>4
  <2>2. CASE s.row # H - 1
    <3>1. a.row < H - 1
      BY <1>2, <1>3, <2>2, ScreenConstants
    <3>2. b.row = s.row + 1 /\ b.buf = a.buf
      BY <1>3, <1>4, <1>6, <3>1, NewlineOf
    <3>3. b.row - 1 = s.row /\ b.row \in 1..(H - 1)
      BY <1>2, <2>2, <3>2, ScreenConstants
    <3> QED
      BY <1>3, <3>2, <3>3
  <2> QED
    BY <2>1, <2>2
<1>8. /\ c.row = b.row /\ c.buf[b.row][0] = "P"
      /\ \A r \in Rows \ {b.row} : c.buf[r] = b.buf[r]
  BY <1>1, <1>5, FirstCharStays
<1> HIDE DEF c
<1>9. b.row - 1 \in Rows /\ b.row - 1 # b.row
  BY <1>7, ScreenConstants DEF Rows
<1>10. Readable(c)
  BY <1>5, <1>7, <1>8, <1>9 DEF Readable
<1> QED
  BY <1>10 DEF a, b, c

\* The message of print_df_info, printed from the start of a row,
LEMMA DoubleReadable ==
    ASSUME NEW s \in Screens, Proper(s), ~s.held, s.col = 0, s.row >= 1
    PROVE  Readable(print(s, DoubleText))
<1>1. /\ Len(DoubleText) = 3
      /\ DoubleText[1] = "K" /\ DoubleText[2] = NL /\ DoubleText[3] = "P"
  BY DEF DoubleText
<1>a. Len(DoubleText) \in Nat
  BY <1>1
<1>2. PICK f, g : TextSequence(f, g, s, NoLog, DoubleText)
  BY <1>a, TextEquations, Zenon
<1>3. /\ f[0] = s /\ print(s, DoubleText) = f[3]
      /\ \A i \in 0..2 : f[i + 1] = write_char(f[i], DoubleText[i + 1])
  BY <1>1, <1>2 DEF TextSequence
<1>4. f[1] = write_char(s, "K") /\ f[2] = write_char(f[1], NL) /\ f[3] = write_char(f[2], "P")
  <2>1. f[0 + 1] = write_char(f[0], DoubleText[0 + 1])
    BY <1>3
  <2>2. f[1 + 1] = write_char(f[1], DoubleText[1 + 1])
    BY <1>3
  <2>3. f[2 + 1] = write_char(f[2], DoubleText[2 + 1])
    BY <1>3
  <2> QED
    BY <1>1, <1>3, <2>1, <2>2, <2>3
<1> QED
  BY <1>3, <1>4, TwoLines

\* and that of kpanic, printed from anywhere.
LEMMA PanicReadable ==
    ASSUME NEW s \in Screens, Proper(s), ~s.held
    PROVE  Readable(print(s, PanicText))
<1>1. /\ Len(PanicText) = 5
      /\ PanicText[1] = "=" /\ PanicText[2] = NL /\ PanicText[3] = "K"
      /\ PanicText[4] = NL /\ PanicText[5] = "P"
  BY DEF PanicText
<1>a. Len(PanicText) \in Nat
  BY <1>1
<1>2. PICK f, g : TextSequence(f, g, s, NoLog, PanicText)
  BY <1>a, TextEquations, Zenon
<1>3. /\ f[0] = s /\ print(s, PanicText) = f[5]
      /\ \A i \in 0..4 : f[i + 1] = write_char(f[i], PanicText[i + 1])
  BY <1>1, <1>2 DEF TextSequence
<1>4. /\ f[1] = write_char(s, "=") /\ f[2] = write_char(f[1], NL)
      /\ f[3] = write_char(f[2], "K") /\ f[4] = write_char(f[3], NL)
      /\ f[5] = write_char(f[4], "P")
  <2>1. f[0 + 1] = write_char(f[0], PanicText[0 + 1])
    BY <1>3
  <2>2. f[1 + 1] = write_char(f[1], PanicText[1 + 1])
    BY <1>3
  <2>3. f[2 + 1] = write_char(f[2], PanicText[2 + 1])
    BY <1>3
  <2>4. f[3 + 1] = write_char(f[3], PanicText[3 + 1])
    BY <1>3
  <2>5. f[4 + 1] = write_char(f[4], PanicText[4 + 1])
    BY <1>3
  <2> QED
    BY <1>1, <1>3, <2>1, <2>2, <2>3, <2>4, <2>5
<1>5. f[1] \in Screens /\ Proper(f[1]) /\ Same(f[1], s)
  <2>1. "=" \in Chars
    BY DEF Chars
  <2> QED
    BY <1>4, <2>1, WriteCharKeeps
<1>6. ~f[1].held
  BY <1>5 DEF Same
<1>7. f[2] \in Screens /\ Proper(f[2]) /\ ~f[2].held /\ f[2].col = 0 /\ f[2].row >= 1
  BY <1>4, <1>5, <1>6, NewlineStartsRow
<1> QED
  BY <1>3, <1>4, <1>7, TwoLines

----------------------------------------------------------------------------
(* The inductive invariant. *)

\* The locals of the operation the main thread is in.
Locals == [char : Chars, row : Rows, col : Columns, text : Seq(Chars),
           then : {"idle", "newline", "drop", "visual"}, new_row : Rows, new_col : Columns]

\* The types of the variables the argument is about.
ScreenTypes ==
    /\ scr \in Screens
    /\ at \in {"idle", "read", "held", "put", "newline", "drop", "visual", "topbar", "wait",
              "stored", "loaded", "rowed"}
    /\ phase \in {"startup", "loop", "last"}
    /\ pend \in Locals
    /\ bar \in [Columns -> Chars]

\* What the label of the main thread says about the flags and its locals. The
\* timer handler changes neither.
LabelInStep ==
    phase # "last" =>
        /\ scr.row0 <=> at = "topbar"
        /\ scr.held <=> Place \in {"held", "newline", "drop"}
        /\ at \in {"read", "held", "put", "topbar"} \/ Place = "newline" => pend.row >= 1
        /\ at \in {"loaded", "rowed"} => pend.new_row >= 1
        /\ at = "wait" => pend.char = bar[W - 1]
        /\ at = "idle" => pend.then = "idle"

\* The cursor is below the topbar, except where an arrow has stored a row that is
\* not clamped yet.
RowAllowed ==
    \/ Proper(scr)
    \/ at \in {"stored", "loaded"} /\ pend.then = "idle" /\ ~intact /\ phase # "last"

\* How far the lines of the log are on the screen at each label, unless something
\* came between.
TailInStep ==
    intact /\ phase # "last" =>
        /\ log \in Lines
        /\ Place \in {"idle", "wait", "read", "held", "drop", "visual"} =>
              AtEnd(scr, log) /\ Shown(scr.buf, log)
        /\ at \in {"read", "held", "put"} =>
              pend.row = scr.row /\ pend.col = scr.col /\ pend.char # NL
        /\ at = "put" => AtEnd(scr, log) /\ Shown(scr.buf, Full(log, pend.char))
        /\ Place = "newline" =>
              /\ scr.row = Len(log) /\ pend.row = scr.row /\ scr.col = 0
              /\ \/ pend.char = NL /\ Shown(scr.buf, log)
                 \/ /\ pend.char # NL /\ Len(log[Len(log)]) = W - 1
                    /\ Shown(scr.buf, Full(log, pend.char))
        /\ at = "topbar" =>
              /\ scr.row = 0 /\ scr.col = 0 /\ Shown(scr.buf, log)
              /\ pend.row = Len(log) /\ pend.col = Len(log[Len(log)])
        /\ at \in {"loaded", "rowed"} =>
              pend.new_row = scr.row /\ pend.new_col = scr.col

\* The inductive invariant: none of the properties holds by itself, as the lines
\* on the screen depend on the flags, the flags on the label and the locals.
ScreenInv ==
    /\ ScreenTypes /\ RowAllowed /\ LabelInStep /\ BarKept
    /\ PrevScreenKept /\ TailInStep /\ LastMessageReadable

\* Outside a clamp the cursor is where it is allowed.
LEMMA ProperOutside ==
    ASSUME ScreenInv, at \notin {"stored", "loaded"} \/ intact \/ phase = "last"
    PROVE  Proper(scr)
  BY DEF ScreenInv, RowAllowed

USE DEF Place

\* The locals of an idle main thread,
LEMMA NoLocals == NoPend \in Locals /\ NoPend.then = "idle"
<1>1. SPACE \in Chars /\ 0 \in Rows /\ 0 \in Columns /\ <<>> \in Seq(Chars)
  BY ScreenConstants DEF Rows, Columns, Chars
<1> QED
  BY <1>1 DEF NoPend, Locals

\* and those an operation starts with.
LEMMA LocalsOf ==
    ASSUME NEW char \in Chars, NEW r \in Rows, NEW c \in Columns, NEW text \in Seq(Chars),
           NEW then \in {"idle", "newline", "drop", "visual"}
    PROVE  [char |-> char, row |-> r, col |-> c, text |-> text,
            then |-> then, new_row |-> 0, new_col |-> 0] \in Locals
<1>1. 0 \in Rows /\ 0 \in Columns
  BY ScreenConstants DEF Rows, Columns
<1> QED
  BY <1>1 DEF Locals

\* write_char, step by step: it reads the cursor,
LEMMA PrintReadInv == ScreenInv /\ PrintRead => ScreenInv'
<1> SUFFICES ASSUME ScreenInv, PrintRead PROVE ScreenInv'
  OBVIOUS
<1>1. /\ at = "idle" /\ phase # "last" /\ at' = "read"
      /\ pend' = [NoPend EXCEPT !.char = "a", !.row = scr.row, !.col = scr.col]
      /\ UNCHANGED <<scr, phase, log, intact, bar, prev>>
  BY DEF PrintRead, Starts
<1>2. ScreenTypes /\ scr \in Screens /\ scr.row \in Rows /\ scr.col \in Columns
  BY DEF ScreenInv, ScreenTypes, Screens
<1>3. "a" \in Chars /\ "a" # NL /\ <<>> \in Seq(Chars)
  BY DEF Chars, NL
<1>4. pend' = [char |-> "a", row |-> scr.row, col |-> scr.col, text |-> <<>>,
              then |-> "idle", new_row |-> 0, new_col |-> 0]
  BY <1>1 DEF NoPend
<1>5. pend' \in Locals
  BY <1>2, <1>3, <1>4, LocalsOf
<1>6. pend'.char = "a" /\ pend'.row = scr.row /\ pend'.col = scr.col
  BY <1>4
<1>7. ScreenTypes'
  BY <1>1, <1>2, <1>5 DEF ScreenTypes
<1>8. Proper(scr)'
  BY <1>1, ProperOutside DEF Proper
<1>9. LabelInStep'
  BY <1>1, <1>6, ProperOutside DEF ScreenInv, LabelInStep, Proper
<1>10. BarKept' /\ PrevScreenKept' /\ LastMessageReadable'
  BY <1>1 DEF ScreenInv, BarKept, PrevScreenKept, LastMessageReadable
<1>11. TailInStep'
  BY <1>1, <1>3, <1>6 DEF ScreenInv, TailInStep
<1> QED
  BY <1>7, <1>8, <1>9, <1>10, <1>11 DEF ScreenInv, RowAllowed

\* takes the buffer,
LEMMA PrintHoldInv == ScreenInv /\ PrintHold => ScreenInv'
<1> SUFFICES ASSUME ScreenInv, PrintHold PROVE ScreenInv'
  OBVIOUS
<1>1. /\ at = "read" /\ phase # "last" /\ at' = "held" /\ scr' = [scr EXCEPT !.held = TRUE]
      /\ UNCHANGED <<pend, phase, log, intact, bar, prev>>
  BY DEF PrintHold, Running
<1>2. ScreenTypes /\ scr \in Screens
  BY DEF ScreenInv, ScreenTypes
<1>3. /\ scr' \in Screens /\ scr'.row = scr.row /\ scr'.col = scr.col /\ scr'.buf = scr.buf
      /\ scr'.alt = scr.alt /\ scr'.row0 = scr.row0 /\ scr'.held = TRUE
  BY <1>1, <1>2 DEF Screens
<1>7. ScreenTypes'
  BY <1>1, <1>2, <1>3 DEF ScreenTypes
<1>8. Proper(scr)'
  BY <1>1, <1>3, ProperOutside DEF Proper
<1>9. LabelInStep'
  BY <1>1, <1>3 DEF ScreenInv, LabelInStep
<1>10. BarKept' /\ PrevScreenKept' /\ LastMessageReadable'
  BY <1>1, <1>3 DEF ScreenInv, BarKept, PrevScreenKept, LastMessageReadable
<1>11. TailInStep'
  BY <1>1, <1>3 DEF ScreenInv, TailInStep, AtEnd
<1> QED
  BY <1>7, <1>8, <1>9, <1>10, <1>11 DEF ScreenInv, RowAllowed

\* writes the cell it read the position of and drops the buffer,
LEMMA PrintPutInv == ScreenInv /\ PrintPut => ScreenInv'
<1> SUFFICES ASSUME ScreenInv, PrintPut PROVE ScreenInv'
  OBVIOUS
<1> DEFINE t == put(scr, pend.row, pend.col, pend.char)
<1>1. /\ at = "held" /\ phase # "last" /\ at' = "put" /\ scr' = [t EXCEPT !.held = FALSE]
      /\ UNCHANGED <<pend, phase, log, intact, bar, prev>>
  BY DEF PrintPut, Running
<1>2. /\ ScreenTypes /\ scr \in Screens
      /\ pend.row \in Rows /\ pend.col \in Columns /\ pend.char \in Chars
  BY DEF ScreenInv, ScreenTypes, Locals
<1>3. /\ t \in Screens /\ Same(t, scr) /\ t.row = scr.row /\ t.col = scr.col
      /\ \A q \in Rows, d \in Columns :
            t.buf[q][d] = IF q = pend.row /\ d = pend.col THEN pend.char ELSE scr.buf[q][d]
      /\ \A q \in Rows \ {pend.row} : t.buf[q] = scr.buf[q]
  BY <1>2, Put
<1> HIDE DEF t
<1>4. /\ scr' \in Screens /\ scr'.row = t.row /\ scr'.col = t.col /\ scr'.buf = t.buf
      /\ scr'.alt = t.alt /\ scr'.row0 = t.row0 /\ scr'.held = FALSE
  BY <1>1, <1>3 DEF Screens
<1>5. pend.row >= 1 /\ ~scr.row0 /\ 0 \in Rows
  BY <1>1, ScreenConstants DEF ScreenInv, LabelInStep, Rows
<1>6. scr'.buf[0] = scr.buf[0]
  BY <1>3, <1>4, <1>5
<1>7. ScreenTypes'
  BY <1>1, <1>2, <1>4 DEF ScreenTypes
<1>8. Proper(scr)'
  BY <1>1, <1>3, <1>4, ProperOutside DEF Proper, Same
<1>9. LabelInStep'
  BY <1>1, <1>3, <1>4 DEF ScreenInv, LabelInStep, Same
<1>10. BarKept' /\ PrevScreenKept' /\ LastMessageReadable'
  BY <1>1, <1>3, <1>4, <1>6 DEF ScreenInv, BarKept, PrevScreenKept, LastMessageReadable, Same
<1>11. TailInStep'
  <2> SUFFICES ASSUME intact PROVE TailInStep'
    BY <1>1 DEF TailInStep
  <2>1. log \in Lines /\ AtEnd(scr, log) /\ Shown(scr.buf, log)
        /\ pend.row = scr.row /\ pend.col = scr.col /\ pend.char # NL
    BY <1>1 DEF ScreenInv, TailInStep
  <2>2. Len(log[Len(log)]) \in Columns
    BY <1>2, <2>1 DEF AtEnd
  <2>3. \A q \in Rows, c \in Columns :
           t.buf[q][c] = IF q = Len(log) /\ c = Len(log[Len(log)]) THEN pend.char
                         ELSE scr.buf[q][c]
    BY <1>3, <2>1 DEF AtEnd
  <2>4. Shown(t.buf, Full(log, pend.char))
    BY <1>2, <2>1, <2>2, <2>3, PutShown
  <2> QED
    BY <1>1, <1>3, <1>4, <2>1, <2>4 DEF TailInStep, AtEnd
<1> QED
  BY <1>7, <1>8, <1>9, <1>10, <1>11 DEF ScreenInv, RowAllowed

\* and moves on in its row, where the column is clamped afterwards,
LEMMA PrintMoveInv == ScreenInv /\ PrintMove => ScreenInv'
<1> SUFFICES ASSUME ScreenInv, PrintMove PROVE ScreenInv'
  OBVIOUS
<1>1. /\ at = "put" /\ phase # "last" /\ at' = "stored"
      /\ scr' = [scr EXCEPT !.col = pend.col + 1]
      /\ pend.col < W - 1 /\ pend' = NoPend /\ log' = AppendChar(log, pend.char)
      /\ UNCHANGED <<phase, intact, bar, prev>>
  BY DEF PrintMove, Running
<1>2. /\ ScreenTypes /\ scr \in Screens /\ Proper(scr) /\ pend.char \in Chars
      /\ pend.col \in 0..(W - 1)
  BY <1>1, ProperOutside DEF ScreenInv, ScreenTypes, Locals, Columns
<1>3. pend' \in Locals
  BY <1>1, NoLocals
<1>4. pend.col + 1 \in Columns /\ pend'.then = "idle"
  BY <1>1, <1>2, ScreenConstants DEF Columns, NoPend
<1>5. /\ scr' \in Screens /\ Proper(scr') /\ Same(scr', scr) /\ scr'.buf = scr.buf
      /\ scr'.row = scr.row /\ scr'.col = pend.col + 1
  BY <1>1, <1>2, <1>4 DEF Screens, Proper, Same
<1>6. ScreenTypes'
  BY <1>1, <1>2, <1>3, <1>5 DEF ScreenTypes
<1>7. LabelInStep'
  BY <1>1, <1>4, <1>5 DEF ScreenInv, LabelInStep, Same
<1>8. BarKept' /\ PrevScreenKept' /\ LastMessageReadable'
  BY <1>1, <1>5 DEF ScreenInv, BarKept, PrevScreenKept, LastMessageReadable, Same
<1>9. TailInStep'
  <2> SUFFICES ASSUME intact PROVE TailInStep'
    BY <1>1 DEF TailInStep
  <2>1. /\ log \in Lines /\ AtEnd(scr, log) /\ Shown(scr.buf, Full(log, pend.char))
        /\ pend.col = scr.col /\ pend.char # NL
    BY <1>1 DEF ScreenInv, TailInStep
  <2>2. Len(log[Len(log)]) = pend.col /\ Len(log[Len(log)]) # W - 1
    BY <1>1, <1>2, <2>1, ScreenConstants DEF AtEnd
  <2>3. log' = Full(log, pend.char)
    BY <1>1, <1>2, <2>1, <2>2, AppendCharIs
  <2>4. /\ Full(log, pend.char) \in Lines /\ Len(Full(log, pend.char)) = Len(log)
        /\ Full(log, pend.char)[Len(log)] = Append(log[Len(log)], pend.char)
    BY <1>2, <2>1, FullOf
  <2>5. Len(Append(log[Len(log)], pend.char)) = Len(log[Len(log)]) + 1
    <3>1. log[Len(log)] \in Seq(Chars)
      BY <2>1, ScreenConstants DEF Lines
    <3> QED
      BY <3>1
  <2>6. AtEnd(scr', Full(log, pend.char))
    BY <1>5, <2>1, <2>2, <2>4, <2>5 DEF AtEnd
  <2> QED
    BY <1>1, <1>4, <1>5, <2>1, <2>3, <2>4, <2>6 DEF TailInStep
<1> QED
  BY <1>5, <1>6, <1>7, <1>8, <1>9 DEF ScreenInv, RowAllowed, Proper

\* or to the next row.
LEMMA NewlineHoldInv == ScreenInv /\ NewlineHold => ScreenInv'
<1> SUFFICES ASSUME ScreenInv, NewlineHold PROVE ScreenInv'
  OBVIOUS
<1>1. /\ phase # "last" /\ at' = "stored" /\ scr' = [scr EXCEPT !.col = 0, !.held = TRUE]
      /\ UNCHANGED <<phase, log, intact, bar, prev>>
      /\ \/ /\ at = "put" /\ pend.col >= W - 1
            /\ pend' = [pend EXCEPT !.row = scr.row, !.then = "newline"]
         \/ /\ at = "idle"
            /\ pend' = [NoPend EXCEPT !.char = NL, !.row = scr.row, !.then = "newline"]
  BY DEF NewlineHold, Running, Starts
<1>2. /\ ScreenTypes /\ scr \in Screens /\ Proper(scr) /\ pend \in Locals
      /\ scr.row \in Rows /\ pend.col \in 0..(W - 1)
  BY <1>1, ProperOutside DEF ScreenInv, ScreenTypes, Screens, Locals, Columns
<1>4. /\ scr' \in Screens /\ scr'.row = scr.row /\ scr'.col = 0 /\ scr'.buf = scr.buf
      /\ scr'.alt = scr.alt /\ scr'.row0 = scr.row0 /\ scr'.held = TRUE
  <2>1. 0 \in Columns
    BY ScreenConstants DEF Columns
  <2> QED
    BY <1>1, <1>2, <2>1 DEF Screens
<1>5. /\ pend' \in Locals /\ pend'.row = scr.row /\ pend'.then = "newline"
      /\ pend'.char = IF at = "put" THEN pend.char ELSE NL
  <2>1. CASE at = "put" /\ pend' = [pend EXCEPT !.row = scr.row, !.then = "newline"]
    BY <1>2, <2>1 DEF Locals
  <2>2. CASE /\ at = "idle"
             /\ pend' = [NoPend EXCEPT !.char = NL, !.row = scr.row, !.then = "newline"]
    <3>1. pend' = [char |-> NL, row |-> scr.row, col |-> 0, text |-> <<>>,
                  then |-> "newline", new_row |-> 0, new_col |-> 0]
      BY <2>2 DEF NoPend
    <3>2. NL \in Chars /\ 0 \in Columns /\ <<>> \in Seq(Chars)
      BY ScreenConstants DEF Chars, Columns
    <3>3. pend' \in Locals
      BY <1>2, <3>1, <3>2, LocalsOf
    <3> QED
      BY <2>2, <3>1, <3>3
  <2> QED
    BY <1>1, <2>1, <2>2
<1>6. ScreenTypes'
  BY <1>1, <1>2, <1>4, <1>5 DEF ScreenTypes
<1>7. Proper(scr)' /\ scr.row >= 1 /\ ~scr.row0
  BY <1>1, <1>2, <1>4 DEF Proper, ScreenInv, LabelInStep
<1>8. LabelInStep'
  BY <1>1, <1>4, <1>5, <1>7 DEF ScreenInv, LabelInStep
<1>9. BarKept' /\ PrevScreenKept' /\ LastMessageReadable'
  BY <1>1, <1>4 DEF ScreenInv, BarKept, PrevScreenKept, LastMessageReadable
<1>10. TailInStep'
  <2> SUFFICES ASSUME intact PROVE TailInStep'
    BY <1>1 DEF TailInStep
  <2>1. log \in Lines /\ AtEnd(scr, log)
    BY <1>1 DEF ScreenInv, TailInStep
  <2>2. CASE at = "put"
    <3>1. Shown(scr.buf, Full(log, pend.char)) /\ pend.col = scr.col /\ pend.char # NL
      BY <1>1, <2>2 DEF ScreenInv, TailInStep
    <3>2. Len(log[Len(log)]) = W - 1
      BY <1>1, <1>2, <2>1, <2>2, <3>1, ScreenConstants DEF AtEnd
    <3> QED
      BY <1>1, <1>4, <1>5, <2>1, <2>2, <3>1, <3>2 DEF TailInStep, AtEnd
  <2>3. CASE at = "idle"
    <3>1. Shown(scr.buf, log)
      BY <1>1, <2>3 DEF ScreenInv, TailInStep
    <3> QED
      BY <1>1, <1>4, <1>5, <2>1, <2>3, <3>1 DEF TailInStep, AtEnd
  <2> QED
    BY <1>1, <2>2, <2>3
<1> QED
  BY <1>6, <1>7, <1>8, <1>9, <1>10 DEF ScreenInv, RowAllowed

\* The log that newline's character leaves is the lines on the screen with a new one
\* opened.
LEMMA NewlineLog ==
    ASSUME ScreenInv, at = "newline", phase # "last", intact
    PROVE  \E k \in Lines : /\ Len(k) = Len(log) /\ Shown(scr.buf, k)
                            /\ AppendChar(log, pend.char) = Opened(k)
<1>1. pend.char \in Chars
  BY DEF ScreenInv, ScreenTypes, Locals
<1>2. /\ log \in Lines /\ scr.row = Len(log) /\ pend.row = scr.row /\ scr.col = 0
      /\ \/ pend.char = NL /\ Shown(scr.buf, log)
         \/ /\ pend.char # NL /\ Len(log[Len(log)]) = W - 1
            /\ Shown(scr.buf, Full(log, pend.char))
  BY DEF ScreenInv, TailInStep
<1>3. CASE pend.char = NL /\ Shown(scr.buf, log)
  <2>1. AppendChar(log, pend.char) = Opened(log)
    BY <1>1, <1>2, <1>3, AppendCharIs
  <2> QED
    BY <1>2, <1>3, <2>1
<1>4. CASE /\ pend.char # NL /\ Len(log[Len(log)]) = W - 1
           /\ Shown(scr.buf, Full(log, pend.char))
  <2>1. AppendChar(log, pend.char) = Opened(Full(log, pend.char))
    BY <1>1, <1>2, <1>4, AppendCharIs
  <2>2. Full(log, pend.char) \in Lines /\ Len(Full(log, pend.char)) = Len(log)
    BY <1>1, <1>2, FullOf
  <2> QED
    BY <1>4, <2>1, <2>2
<1> QED
  BY <1>2, <1>3, <1>4

\* where newline scrolls and drops the buffer,
LEMMA NewlineScrollInv == ScreenInv /\ NewlineScroll => ScreenInv'
<1> SUFFICES ASSUME ScreenInv, NewlineScroll PROVE ScreenInv'
  OBVIOUS
<1> DEFINE t == newline_end(scr, pend.row)
<1>1. /\ at = "newline" /\ phase # "last" /\ at' = "idle" /\ scr' = [t EXCEPT !.held = FALSE]
      /\ pend.row >= H - 1 /\ pend' = NoPend /\ log' = AppendChar(log, pend.char)
      /\ UNCHANGED <<phase, intact, bar, prev>>
  BY DEF NewlineScroll, Running
<1>2. /\ ScreenTypes /\ scr \in Screens /\ Proper(scr) /\ pend.char \in Chars
      /\ pend.row \in Rows
  BY <1>1, ProperOutside DEF ScreenInv, ScreenTypes, Locals
<1>3. pend' \in Locals
  BY <1>1, NoLocals
<1>4. /\ t \in Screens /\ Proper(t) /\ Same(t, scr) /\ t.col = scr.col /\ t.row = scr.row
      /\ \A r \in Rows : t.buf[r] = IF r = H - 1 THEN [c \in Columns |-> SPACE]
                                    ELSE IF r = 0 /\ ~scr.row0 THEN scr.buf[r]
                                    ELSE scr.buf[r + 1]
  BY <1>1, <1>2, NewlineEndOf
<1> HIDE DEF t
<1>5. /\ scr' \in Screens /\ scr'.row = t.row /\ scr'.col = t.col /\ scr'.buf = t.buf
      /\ scr'.alt = t.alt /\ scr'.row0 = t.row0 /\ scr'.held = FALSE
  BY <1>1, <1>4 DEF Screens
<1>6. ~scr.row0 /\ 0 \in Rows /\ 0 # H - 1 /\ pend.row \in 0..(H - 1)
  BY <1>1, <1>2, ScreenConstants DEF ScreenInv, LabelInStep, Rows
<1>7. t.buf[0] = scr.buf[0]
  BY <1>4, <1>6
<1>8. ScreenTypes' /\ Proper(scr)'
  BY <1>1, <1>2, <1>3, <1>4, <1>5 DEF ScreenTypes, Proper
<1>9. LabelInStep'
  BY <1>1, <1>4, <1>5, NoLocals DEF ScreenInv, LabelInStep, Same
<1>10. BarKept' /\ PrevScreenKept' /\ LastMessageReadable'
  BY <1>1, <1>4, <1>5, <1>7 DEF ScreenInv, BarKept, PrevScreenKept, LastMessageReadable, Same
<1>11. TailInStep'
  <2> SUFFICES ASSUME intact PROVE TailInStep'
    BY <1>1 DEF TailInStep
  <2>1. scr.row = Len(log) /\ pend.row = scr.row /\ scr.col = 0
    BY <1>1 DEF ScreenInv, TailInStep
  <2>2. PICK k \in Lines : Len(k) = Len(log) /\ Shown(scr.buf, k) /\ log' = Opened(k)
    BY <1>1, NewlineLog
  <2>3. ~(scr.row < H - 1)
    BY <1>1, <1>6, <2>1, ScreenConstants
  <2>4. Shown(t.buf, Opened(k)) /\ AtEnd(t, Opened(k)) /\ Opened(k) \in Lines
    BY <1>2, <1>4, <1>6, <2>1, <2>2, <2>3, NewlineShown
  <2> QED
    BY <1>1, <1>5, <2>2, <2>4 DEF TailInStep, AtEnd
<1> QED
  BY <1>8, <1>9, <1>10, <1>11 DEF ScreenInv, RowAllowed

\* or stores the next row,
LEMMA NewlineMoveInv == ScreenInv /\ NewlineMove => ScreenInv'
<1> SUFFICES ASSUME ScreenInv, NewlineMove PROVE ScreenInv'
  OBVIOUS
<1>1. /\ at = "newline" /\ phase # "last" /\ at' = "stored"
      /\ scr' = [scr EXCEPT !.row = pend.row + 1] /\ pend.row < H - 1
      /\ pend' = [NoPend EXCEPT !.then = "drop"] /\ log' = AppendChar(log, pend.char)
      /\ UNCHANGED <<phase, intact, bar, prev>>
  BY DEF NewlineMove, Running
<1>2. ScreenTypes /\ scr \in Screens /\ pend.row \in 0..(H - 1)
  BY <1>1 DEF ScreenInv, ScreenTypes, Locals, Rows
<1>3. pend' \in Locals /\ pend'.then = "drop"
  BY <1>1, NoLocals DEF Locals
<1>4. pend.row + 1 \in Rows /\ pend.row + 1 >= 1
  BY <1>1, <1>2, ScreenConstants DEF Rows
<1>5. /\ scr' \in Screens /\ scr'.row = pend.row + 1 /\ scr'.col = scr.col
      /\ scr'.buf = scr.buf /\ Same(scr', scr)
  BY <1>1, <1>2, <1>4 DEF Screens, Same
<1>6. ScreenTypes' /\ Proper(scr)'
  BY <1>1, <1>2, <1>3, <1>4, <1>5 DEF ScreenTypes, Proper
<1>7. LabelInStep'
  BY <1>1, <1>3, <1>5 DEF ScreenInv, LabelInStep, Same
<1>8. BarKept' /\ PrevScreenKept' /\ LastMessageReadable'
  BY <1>1, <1>5 DEF ScreenInv, BarKept, PrevScreenKept, LastMessageReadable, Same
<1>9. TailInStep'
  <2> SUFFICES ASSUME intact PROVE TailInStep'
    BY <1>1 DEF TailInStep
  <2>1. scr.row = Len(log) /\ pend.row = scr.row /\ scr.col = 0 /\ ~scr.row0
    BY <1>1 DEF ScreenInv, TailInStep, LabelInStep
  <2>2. PICK k \in Lines : Len(k) = Len(log) /\ Shown(scr.buf, k) /\ log' = Opened(k)
    BY <1>1, NewlineLog
  <2>3. ~(scr.row >= H - 1)
    BY <1>1, <1>2, <2>1, ScreenConstants
  <2>4. Shown(scr'.buf, Opened(k)) /\ AtEnd(scr', Opened(k)) /\ Opened(k) \in Lines
    BY <1>2, <1>5, <2>1, <2>2, <2>3, NewlineShown
  <2> QED
    BY <1>1, <1>3, <2>2, <2>4 DEF TailInStep
<1> QED
  BY <1>6, <1>7, <1>8, <1>9 DEF ScreenInv, RowAllowed

\* and drops the buffer once it is clamped.
LEMMA NewlineDropInv == ScreenInv /\ NewlineDrop => ScreenInv'
<1> SUFFICES ASSUME ScreenInv, NewlineDrop PROVE ScreenInv'
  OBVIOUS
<1>1. /\ at = "drop" /\ phase # "last" /\ at' = "idle" /\ scr' = [scr EXCEPT !.held = FALSE]
      /\ pend' = NoPend /\ UNCHANGED <<phase, log, intact, bar, prev>>
  BY DEF NewlineDrop, Running
<1>2. ScreenTypes /\ scr \in Screens /\ Proper(scr)
  BY <1>1, ProperOutside DEF ScreenInv, ScreenTypes
<1>3. /\ scr' \in Screens /\ scr'.row = scr.row /\ scr'.col = scr.col /\ scr'.buf = scr.buf
      /\ scr'.alt = scr.alt /\ scr'.row0 = scr.row0 /\ scr'.held = FALSE
  BY <1>1, <1>2 DEF Screens
<1>4. ScreenTypes' /\ Proper(scr)'
  BY <1>1, <1>2, <1>3, NoLocals DEF ScreenTypes, Proper
<1>5. LabelInStep'
  BY <1>1, <1>3, NoLocals DEF ScreenInv, LabelInStep
<1>6. BarKept' /\ PrevScreenKept' /\ LastMessageReadable'
  BY <1>1, <1>3 DEF ScreenInv, BarKept, PrevScreenKept, LastMessageReadable
<1>7. TailInStep'
  BY <1>1, <1>3 DEF ScreenInv, TailInStep, AtEnd
<1> QED
  BY <1>4, <1>5, <1>6, <1>7 DEF ScreenInv, RowAllowed

\* clamp_row_col loads a position that is allowed,
LEMMA ClampLoadInv == ScreenInv /\ ClampLoad => ScreenInv'
<1> SUFFICES ASSUME ScreenInv, ClampLoad PROVE ScreenInv'
  OBVIOUS
<1>1. /\ at = "stored" /\ phase # "last" /\ at' = "loaded"
      /\ pend' = [pend EXCEPT !.new_row = clamp_row_col(scr).row,
                              !.new_col = clamp_row_col(scr).col]
      /\ UNCHANGED <<scr, phase, log, intact, bar, prev>>
  BY DEF ClampLoad, Running
<1>2. ScreenTypes /\ scr \in Screens /\ pend \in Locals /\ ~scr.row0
  BY <1>1 DEF ScreenInv, ScreenTypes, LabelInStep
<1>3. clamp_row_col(scr).row = RowFor(scr, scr.row) /\ clamp_row_col(scr).col = scr.col
  BY <1>2, ClampOf
<1>4. /\ RowFor(scr, scr.row) \in Rows /\ RowFor(scr, scr.row) >= 1 /\ scr.col \in Columns
  <2>1. scr.row0 \in BOOLEAN /\ scr.row \in Nat /\ scr.col \in Columns
    BY <1>2, ScreenConstants DEF Screens, Rows
  <2>2. 0 \in Nat
    OBVIOUS
  <2> QED
    BY <1>2, <2>1, <2>2, RowOnScreen
<1>5. /\ pend' \in Locals /\ pend'.new_row = RowFor(scr, scr.row) /\ pend'.new_col = scr.col
      /\ pend'.char = pend.char /\ pend'.row = pend.row /\ pend'.then = pend.then
  BY <1>1, <1>2, <1>3, <1>4 DEF Locals
<1>6. ScreenTypes'
  BY <1>1, <1>2, <1>5 DEF ScreenTypes
<1>7. RowAllowed'
  BY <1>1, <1>5 DEF ScreenInv, RowAllowed, Proper
<1>8. LabelInStep'
  BY <1>1, <1>4, <1>5 DEF ScreenInv, LabelInStep
<1>9. BarKept' /\ PrevScreenKept' /\ LastMessageReadable'
  BY <1>1 DEF ScreenInv, BarKept, PrevScreenKept, LastMessageReadable
<1>10. TailInStep'
  <2> SUFFICES ASSUME intact PROVE TailInStep'
    BY <1>1 DEF TailInStep
  <2>1. RowFor(scr, scr.row) = scr.row
    BY <1>2, ProperOutside, RowStays
  <2> QED
    BY <1>1, <1>5, <2>1 DEF ScreenInv, TailInStep
<1> QED
  BY <1>6, <1>7, <1>8, <1>9, <1>10 DEF ScreenInv

\* stores its row,
LEMMA ClampRowInv == ScreenInv /\ ClampRow => ScreenInv'
<1> SUFFICES ASSUME ScreenInv, ClampRow PROVE ScreenInv'
  OBVIOUS
<1>1. /\ at = "loaded" /\ phase # "last" /\ at' = "rowed"
      /\ scr' = [scr EXCEPT !.row = pend.new_row]
      /\ UNCHANGED <<pend, phase, log, intact, bar, prev>>
  BY DEF ClampRow, Running
<1>2. ScreenTypes /\ scr \in Screens /\ pend.new_row \in Rows /\ pend.new_row >= 1
  BY <1>1 DEF ScreenInv, ScreenTypes, LabelInStep, Locals
<1>3. /\ scr' \in Screens /\ scr'.row = pend.new_row /\ scr'.col = scr.col
      /\ scr'.buf = scr.buf /\ Same(scr', scr)
  BY <1>1, <1>2 DEF Screens, Same
<1>4. ScreenTypes' /\ Proper(scr)'
  BY <1>1, <1>2, <1>3 DEF ScreenTypes, Proper
<1>5. LabelInStep'
  BY <1>1, <1>3 DEF ScreenInv, LabelInStep, Same
<1>6. BarKept' /\ PrevScreenKept' /\ LastMessageReadable'
  BY <1>1, <1>3 DEF ScreenInv, BarKept, PrevScreenKept, LastMessageReadable, Same
<1>7. TailInStep'
  <2> SUFFICES ASSUME intact PROVE TailInStep'
    BY <1>1 DEF TailInStep
  <2>1. scr'.row = scr.row
    BY <1>1, <1>3 DEF ScreenInv, TailInStep
  <2> QED
    BY <1>1, <1>3, <2>1 DEF ScreenInv, TailInStep, AtEnd
<1> QED
  BY <1>4, <1>5, <1>6, <1>7 DEF ScreenInv, RowAllowed

\* and its column.
LEMMA ClampColInv == ScreenInv /\ ClampCol => ScreenInv'
<1> SUFFICES ASSUME ScreenInv, ClampCol PROVE ScreenInv'
  OBVIOUS
<1>1. /\ at = "rowed" /\ phase # "last" /\ at' = pend.then
      /\ scr' = [scr EXCEPT !.col = pend.new_col]
      /\ pend' = IF pend.then = "idle" THEN NoPend ELSE pend
      /\ UNCHANGED <<phase, log, intact, bar, prev>>
  BY DEF ClampCol, Running
<1>2. /\ ScreenTypes /\ scr \in Screens /\ Proper(scr) /\ pend \in Locals
      /\ pend.then \in {"idle", "newline", "drop", "visual"} /\ pend.new_col \in Columns
  BY <1>1, ProperOutside DEF ScreenInv, ScreenTypes, Locals
<1>3. /\ scr' \in Screens /\ scr'.row = scr.row /\ scr'.col = pend.new_col
      /\ scr'.buf = scr.buf /\ Same(scr', scr)
  BY <1>1, <1>2 DEF Screens, Same
<1>4. pend' \in Locals /\ (pend.then # "idle" => pend' = pend)
  BY <1>1, <1>2, NoLocals
<1>5. ScreenTypes' /\ Proper(scr)'
  BY <1>1, <1>2, <1>3, <1>4 DEF ScreenTypes, Proper, Same
<1>6. LabelInStep'
  BY <1>1, <1>2, <1>3, <1>4, NoLocals DEF ScreenInv, LabelInStep, Same
<1>7. BarKept' /\ PrevScreenKept' /\ LastMessageReadable'
  BY <1>1, <1>2, <1>3 DEF ScreenInv, BarKept, PrevScreenKept, LastMessageReadable, Same
<1>8. TailInStep'
  <2> SUFFICES ASSUME intact PROVE TailInStep'
    BY <1>1 DEF TailInStep
  <2>1. scr'.col = scr.col
    BY <1>1, <1>3 DEF ScreenInv, TailInStep
  <2> QED
    BY <1>1, <1>2, <1>3, <1>4, <2>1 DEF ScreenInv, TailInStep, AtEnd
<1> QED
  BY <1>5, <1>6, <1>7, <1>8 DEF ScreenInv, RowAllowed

\* Row 0 of a screen has the type of the topbar.
LEMMA RowZero ==
    ASSUME NEW s \in Screens
    PROVE  s.buf[0] \in [Columns -> Chars]
  BY ScreenConstants DEF Screens, Buffers, Rows

\* The arrows move the cursor, and the log is no longer at its end.
LEMMA check_arrowsInv == ScreenInv /\ check_arrows => ScreenInv'
<1> SUFFICES ASSUME ScreenInv, check_arrows PROVE ScreenInv'
  OBVIOUS
<1>1. /\ at = "idle" /\ phase # "last" /\ ~intact' /\ at' = "stored"
      /\ UNCHANGED <<pend, phase, log, bar, prev>>
  BY DEF check_arrows, Starts
<1>2. PICK direction \in {"Left", "Right", "Up", "Down"} : scr' = shift_store(scr, direction)
  BY DEF check_arrows
<1>3. ScreenTypes /\ scr \in Screens /\ Proper(scr) /\ ~scr.row0 /\ pend.then = "idle"
  BY <1>1, ProperOutside DEF ScreenInv, ScreenTypes, LabelInStep
<1>4. scr' \in Screens /\ Same(scr', scr) /\ scr'.buf = scr.buf
  BY <1>2, <1>3, ShiftStore
<1>5. ScreenTypes' /\ RowAllowed'
  BY <1>1, <1>3, <1>4 DEF ScreenTypes, RowAllowed
<1>6. LabelInStep'
  BY <1>1, <1>3, <1>4 DEF ScreenInv, LabelInStep, Same
<1>7. BarKept' /\ PrevScreenKept' /\ LastMessageReadable' /\ TailInStep'
  BY <1>1, <1>4 DEF ScreenInv, BarKept, PrevScreenKept, LastMessageReadable, Same, TailInStep
<1> QED
  BY <1>5, <1>6, <1>7 DEF ScreenInv

\* The last line without its last character.
Shorter(k) == [k EXCEPT ![Len(k)] = SubSeq(@, 1, Len(@) - 1)]

\* Its cell is blank in d, which is otherwise b.
Blanked(b, d, k) ==
    \A q \in Rows, c \in Columns :
        d[q][c] = IF q = Len(k) /\ c = Len(k[Len(k)]) - 1 THEN SPACE ELSE b[q][c]

\* Then the shorter line is shown.
LEMMA ShorterShown ==
    ASSUME NEW k \in Lines, NEW b, NEW d, Shown(b, k),
           Len(k[Len(k)]) \in 1..(W - 1), Blanked(b, d, k)
    PROVE  /\ Shown(d, Shorter(k)) /\ Shorter(k) \in Lines /\ Len(Shorter(k)) = Len(k)
           /\ Len(Shorter(k)[Len(k)]) = Len(k[Len(k)]) - 1
<1> DEFINE n == Len(k)
           m == Len(k[n])
           line == SubSeq(k[n], 1, m - 1)
           f == Shorter(k)
<1>1. n \in 1..(H - 1) /\ k \in Seq(Seq(Chars)) /\ n \in 1..n /\ n \in Nat /\ m \in Nat
  BY ScreenConstants DEF Lines
<1>2. k[n] \in Seq(Chars)
  BY <1>1
<1>3. /\ line \in Seq(Chars) /\ Len(line) = m - 1
      /\ \A i \in 1..(m - 1) : line[i] = k[n][i]
  BY <1>1, <1>2
<1>4. DOMAIN k = 1..n /\ f = [k EXCEPT ![n] = line]
  BY <1>1 DEF Shorter
<1> HIDE DEF line, f, m, n
<1>5. f \in Seq(Seq(Chars)) /\ Len(f) = n /\ f[n] = line
  BY <1>1, <1>3, <1>4 DEF n
<1>6. \A i \in 1..n : i # n => f[i] = k[i]
  BY <1>4
<1>7. ASSUME NEW r \in 1..(H - 1), NEW c \in Columns
      PROVE  d[r][c] = IF r <= Len(f) /\ c < Len(f[r]) THEN f[r][c + 1] ELSE SPACE
  <2>1. r \in Rows /\ r \in Nat /\ c \in Nat /\ H \in Nat
    BY ScreenConstants DEF Rows, Columns
  <2>2. b[r][c] = IF r <= n /\ c < Len(k[r]) THEN k[r][c + 1] ELSE SPACE
    BY DEF Shown, n
  <2>3. d[r][c] = IF r = n /\ c = m - 1 THEN SPACE ELSE b[r][c]
    BY <2>1 DEF n, m, Blanked
  <2>4. CASE r # n
    <3>1. r <= n => f[r] = k[r]
      BY <1>6, <2>1, <2>4, <1>1
    <3> QED
      BY <1>5, <2>2, <2>3, <2>4, <3>1
  <2>5. CASE r = n
    <3>1. d[r][c] = IF c < m - 1 THEN k[n][c + 1] ELSE SPACE
      <4>1. b[r][c] = IF c < m THEN k[n][c + 1] ELSE SPACE
        BY <1>1, <2>2, <2>5 DEF m
      <4> QED
        BY <1>1, <2>1, <2>3, <2>5, <4>1
    <3>2. c < m - 1 => c + 1 \in 1..(m - 1)
      BY <1>1, <2>1
    <3>3. c < m - 1 => line[c + 1] = k[n][c + 1]
      BY <1>3, <3>2
    <3>4. r <= Len(f) /\ f[r] = line
      BY <1>1, <1>5, <2>5
    <3> QED
      BY <1>3, <3>1, <3>3, <3>4
  <2> QED
    BY <2>4, <2>5
<1>8. f \in Lines
  BY <1>1, <1>5 DEF Lines
<1> QED
  BY <1>3, <1>5, <1>7, <1>8 DEF Shown, f, n, m

\* Backspace takes the last character of the last line with it.
LEMMA BackspaceInv == ScreenInv /\ Backspace => ScreenInv'
<1> SUFFICES ASSUME ScreenInv, Backspace PROVE ScreenInv'
  OBVIOUS
<1>1. /\ at = "idle" /\ phase # "last" /\ scr' = delete_prev_char(scr)
      /\ bar' = scr'.buf[0] /\ intact' = (intact /\ scr.col > 0)
      /\ UNCHANGED <<at, pend, phase, prev>>
      /\ scr.col > 0 => log' = Shorter(log)
  BY DEF Backspace, Starts, Shorter
<1>2. ScreenTypes /\ scr \in Screens /\ Proper(scr) /\ ~scr.row0
  BY <1>1, ProperOutside DEF ScreenInv, ScreenTypes, LabelInStep
<1>3. /\ scr' \in Screens /\ Proper(scr') /\ Same(scr', scr)
      /\ scr.col > 0 =>
           /\ scr'.row = scr.row /\ scr'.col = scr.col - 1
           /\ \A q \in Rows, d \in Columns :
                 scr'.buf[q][d] = IF q = scr.row /\ d = scr.col - 1 THEN SPACE
                                  ELSE scr.buf[q][d]
  BY <1>1, <1>2, DeletePrevChar
<1>4. bar' \in [Columns -> Chars]
  BY <1>1, <1>3, RowZero
<1>5. ScreenTypes' /\ Proper(scr)'
  BY <1>1, <1>2, <1>3, <1>4 DEF ScreenTypes, Proper
<1>6. LabelInStep'
  BY <1>1, <1>3 DEF ScreenInv, LabelInStep, Same
<1>7. BarKept' /\ PrevScreenKept' /\ LastMessageReadable'
  BY <1>1, <1>3 DEF ScreenInv, BarKept, PrevScreenKept, LastMessageReadable, Same
<1>8. TailInStep'
  <2> SUFFICES ASSUME intact, scr.col > 0 PROVE TailInStep'
    BY <1>1 DEF TailInStep
  <2>1. log \in Lines /\ AtEnd(scr, log) /\ Shown(scr.buf, log)
    BY <1>1 DEF ScreenInv, TailInStep
  <2>2. scr.col \in 1..(W - 1) /\ scr.row = Len(log) /\ scr.col = Len(log[Len(log)])
    BY <1>2, <2>1, ScreenConstants DEF AtEnd, Screens, Columns
  <2>3. Blanked(scr.buf, scr'.buf, log)
    BY <1>3, <2>2 DEF Blanked
  <2>4. /\ Shown(scr'.buf, Shorter(log)) /\ Shorter(log) \in Lines
        /\ Len(Shorter(log)) = Len(log)
        /\ Len(Shorter(log)[Len(log)]) = Len(log[Len(log)]) - 1
    <3>1. Len(log[Len(log)]) \in 1..(W - 1)
      BY <2>2
    <3> QED
      BY <2>1, <2>3, <3>1, ShorterShown, Zenon
  <2>5. AtEnd(scr', log')
    BY <1>1, <1>3, <2>2, <2>4 DEF AtEnd
  <2> QED
    BY <1>1, <2>4, <2>5 DEF TailInStep
<1> QED
  BY <1>5, <1>6, <1>7, <1>8 DEF ScreenInv, RowAllowed

\* update_visual_pos clamps, like an arrow that moves nowhere, and writes registers.
LEMMA PollVisualInv == ScreenInv /\ (PollClamp \/ PollVisual) => ScreenInv'
<1> SUFFICES ASSUME ScreenInv, PollClamp \/ PollVisual PROVE ScreenInv'
  OBVIOUS
<1>1. /\ phase # "last" /\ pend' \in {NoPend, [NoPend EXCEPT !.then = "visual"]}
      /\ \/ at = "idle" /\ at' = "stored" /\ pend' = [NoPend EXCEPT !.then = "visual"]
         \/ at = "visual" /\ at' = "idle" /\ pend' = NoPend
      /\ UNCHANGED <<scr, phase, log, intact, bar, prev>>
  BY DEF PollClamp, PollVisual, Running
<1>2. ScreenTypes /\ Proper(scr)
  BY <1>1, ProperOutside DEF ScreenInv
<1>3. pend' \in Locals /\ (at = "idle" => pend'.then = "visual")
  BY <1>1, NoLocals DEF Locals
<1>4. ScreenTypes' /\ Proper(scr)'
  BY <1>1, <1>2, <1>3 DEF ScreenTypes, Proper
<1>5. LabelInStep'
  BY <1>1, <1>3, NoLocals DEF ScreenInv, LabelInStep
<1>6. BarKept' /\ PrevScreenKept' /\ LastMessageReadable'
  BY <1>1 DEF ScreenInv, BarKept, PrevScreenKept, LastMessageReadable
<1>7. TailInStep'
  BY <1>1, <1>3 DEF ScreenInv, TailInStep
<1> QED
  BY <1>4, <1>5, <1>6, <1>7 DEF ScreenInv, RowAllowed

\* SysCmd 6.
LEMMA SwapBuffersInv == ScreenInv /\ SwapBuffers => ScreenInv'
<1> SUFFICES ASSUME ScreenInv, SwapBuffers PROVE ScreenInv'
  OBVIOUS
<1>1. /\ at = "idle" /\ phase # "last" /\ scr' = swap(scr) /\ bar' = scr'.buf[0]
      /\ ~intact' /\ prev' = NoScreen
      /\ UNCHANGED <<at, pend, phase, log>>
  BY DEF SwapBuffers, Starts
<1>2. ScreenTypes /\ scr \in Screens /\ Proper(scr) /\ ~scr.held
  BY <1>1, ProperOutside DEF ScreenInv, ScreenTypes, LabelInStep
<1>3. scr' \in Screens /\ Proper(scr') /\ scr'.row0 = scr.row0 /\ scr'.held = scr.held
  BY <1>1, <1>2, SwapOf
<1>4. bar' \in [Columns -> Chars]
  BY <1>1, <1>3, RowZero
<1>5. ScreenTypes' /\ Proper(scr)'
  BY <1>1, <1>2, <1>3, <1>4 DEF ScreenTypes, Proper
<1>6. LabelInStep'
  BY <1>1, <1>3 DEF ScreenInv, LabelInStep
<1>7. BarKept' /\ PrevScreenKept' /\ LastMessageReadable' /\ TailInStep'
  BY <1>1 DEF BarKept, PrevScreenKept, LastMessageReadable, TailInStep
<1> QED
  BY <1>5, <1>6, <1>7 DEF ScreenInv, RowAllowed

\* A cleared screen shows one empty line.
LEMMA ClearShown ==
    ASSUME NEW s \in Screens, ~s.held, ~s.row0
    PROVE  clear(s) \in Screens /\ Proper(clear(s)) /\ TailShown(clear(s), NoLog)
<1> DEFINE t == clear(s)
<1>1. /\ t \in Screens /\ Proper(t) /\ Same(t, s) /\ t.row = 1 /\ t.col = 0
      /\ t.buf = empty_buffer
  BY ClearOf
<1> HIDE DEF t
<1>2. Len(NoLog) = 1 /\ NoLog[1] = <<>> /\ Len(<<>>) = 0 /\ NoLog \in Seq(Seq(Chars))
  BY DEF NoLog
<1>3. NoLog \in Lines
  <2>1. Len(NoLog) \in 1..(H - 1)
    BY <1>2, ScreenConstants
  <2> QED
    BY <1>2, <2>1 DEF Lines
<1>4. ASSUME NEW r \in 1..(H - 1), NEW c \in Columns
      PROVE  t.buf[r][c] = IF r <= Len(NoLog) /\ c < Len(NoLog[r]) THEN NoLog[r][c + 1]
                           ELSE SPACE
  <2>1. r \in Rows /\ r \in Nat /\ c \in Nat
    BY ScreenConstants DEF Rows, Columns
  <2>2. t.buf[r][c] = SPACE
    BY <1>1, <2>1 DEF empty_buffer
  <2>3. ~(r <= Len(NoLog) /\ c < Len(NoLog[r]))
    <3>1. CASE r = 1
      BY <1>2, <2>1, <3>1
    <3>2. CASE r # 1
      BY <1>2, <2>1, <3>2
    <3> QED
      BY <3>1, <3>2
  <2> QED
    BY <2>2, <2>3
<1>5. Shown(t.buf, NoLog)
  BY <1>4 DEF Shown
<1>6. AtEnd(t, NoLog)
  BY <1>1, <1>2 DEF AtEnd
<1>7. TailShown(t, NoLog)
  BY <1>1, <1>3, <1>5, <1>6 DEF TailShown, Same
<1> QED
  BY <1>1, <1>7 DEF t

\* The initial state satisfies the invariant: vga::init cleared the screen and
\* printed a text.
LEMMA ScreenInitInv == ScreenInit => ScreenInv
<1> SUFFICES ASSUME ScreenInit PROVE ScreenInv
  OBVIOUS
<1> DEFINE b == [row |-> 0, col |-> 0, row0 |-> FALSE, held |-> FALSE,
                 buf |-> empty_buffer, alt |-> empty_buffer]
           s == clear(b)
<1>1. /\ scr = print(s, Hello) /\ at = "idle" /\ pend = NoPend /\ phase = "startup"
      /\ log = AppendText(NoLog, Hello) /\ bar = empty_buffer[0] /\ prev = NoScreen
  BY DEF ScreenInit
<1>2. SPACE \in Chars /\ 0 \in Rows /\ 0 \in Columns /\ <<>> \in Seq(Chars)
  BY ScreenConstants DEF Rows, Columns, Chars
<1>3. empty_buffer \in Buffers /\ empty_buffer[0] \in [Columns -> Chars]
  BY <1>2 DEF Buffers, empty_buffer
<1>4. b \in Screens /\ ~b.held /\ ~b.row0
  BY <1>2, <1>3 DEF Screens
<1> HIDE DEF b
<1>5. s \in Screens /\ Proper(s) /\ TailShown(s, NoLog) /\ s.buf = empty_buffer /\ Same(s, b)
  BY <1>4, ClearShown, ClearOf
<1>6. ~s.row0 /\ ~s.held
  BY <1>4, <1>5 DEF Same
<1> HIDE DEF s
<1>7. Hello \in Seq(Chars)
  <2>1. NL \in Chars /\ "h" \in Chars
    BY DEF Chars
  <2> QED
    BY <2>1 DEF Hello
<1>8. scr \in Screens /\ Proper(scr) /\ Same(scr, s) /\ scr.buf[0] = s.buf[0]
  BY <1>1, <1>5, <1>6, <1>7, PrintKeeps
<1>9. TailShown(scr, log)
  BY <1>1, <1>5, <1>7, PrintShown
<1>10. ScreenTypes
  BY <1>1, <1>3, <1>8, NoLocals DEF ScreenTypes
<1>11. LabelInStep
  BY <1>1, <1>6, <1>8, NoLocals DEF LabelInStep, Same
<1>12. BarKept /\ PrevScreenKept /\ LastMessageReadable
  BY <1>1, <1>5, <1>8 DEF BarKept, PrevScreenKept, LastMessageReadable
<1>13. TailInStep
  BY <1>1, <1>9 DEF TailInStep, TailShown
<1> QED
  BY <1>8, <1>10, <1>11, <1>12, <1>13 DEF ScreenInv, RowAllowed

\* draw_topbar moves the cursor to row 0 and keeps the position it had.
LEMMA BeginTopbarInv ==
    ASSUME ScreenInv, at = "idle", phase # "last", phase' \in {"startup", "loop"},
           NEW s \in Screens, ~s.row0, ~s.held, Proper(s),
           NEW text \in Seq(Chars), BeginTopbar(s, text), bar' = bar,
           prev' # NoScreen => s.alt = prev',
           intact' => log' \in Lines /\ AtEnd(s, log') /\ Shown(s.buf, log')
    PROVE  ScreenInv'
<1>1. /\ scr' = topbar_begin(s) /\ at' = "topbar"
      /\ pend' = [NoPend EXCEPT !.row = s.row, !.col = s.col, !.text = text]
  BY DEF BeginTopbar
<1>2. /\ scr' \in Screens /\ scr'.row0 /\ scr'.held = s.held /\ scr'.alt = s.alt
      /\ scr'.buf = s.buf /\ scr'.row = 0 /\ scr'.col = 0
  BY <1>1, TopbarBegins
<1>3. SPACE \in Chars /\ s.row \in Rows /\ s.col \in Columns /\ s.row >= 1
  BY DEF Chars, Screens, Proper
<1>4. pend' = [char |-> SPACE, row |-> s.row, col |-> s.col, text |-> text,
              then |-> "idle", new_row |-> 0, new_col |-> 0]
  BY <1>1 DEF NoPend
<1>5. pend' \in Locals
  BY <1>3, <1>4, LocalsOf
<1>6. pend'.row = s.row /\ pend'.col = s.col
  BY <1>4
<1>7. ScreenTypes' /\ Proper(scr)'
  BY <1>1, <1>2, <1>5 DEF ScreenInv, ScreenTypes, Proper
<1>8. LabelInStep'
  BY <1>1, <1>2, <1>3, <1>6 DEF LabelInStep
<1>9. BarKept' /\ PrevScreenKept' /\ LastMessageReadable'
  BY <1>1, <1>2 DEF BarKept, PrevScreenKept, LastMessageReadable
<1>10. TailInStep'
  BY <1>1, <1>2, <1>6 DEF TailInStep, AtEnd
<1> QED
  BY <1>7, <1>8, <1>9, <1>10 DEF ScreenInv, RowAllowed

\* The texts that follow a topbar, and the timer handler's line.
LEMMA Texts ==
    /\ <<>> \in Seq(Chars) /\ <<NL>> \in Seq(Chars) /\ HelpText \in Seq(Chars)
    /\ MotorOff \in Seq(Chars) /\ PanicText \in Seq(Chars) /\ DoubleText \in Seq(Chars)
    /\ <<"s">> \in Seq(Chars)
<1>1. /\ NL \in Chars /\ "s" \in Chars /\ "d" \in Chars /\ "=" \in Chars
      /\ "K" \in Chars /\ "P" \in Chars
  BY DEF Chars
<1>2. <<>> \in Seq(Chars) /\ <<NL>> \in Seq(Chars) /\ <<"s">> \in Seq(Chars)
  BY <1>1
<1>3. HelpText \in Seq(Chars)
  BY <1>1 DEF HelpText
<1>4. MotorOff \in Seq(Chars)
  BY <1>1 DEF MotorOff
<1>5. PanicText \in Seq(Chars)
  BY <1>1 DEF PanicText
<1>6. DoubleText \in Seq(Chars)
  BY <1>1 DEF DoubleText
<1> QED
  BY <1>2, <1>3, <1>4, <1>5, <1>6

\* The topbar after startup,
LEMMA StartupTopbarInv == ScreenInv /\ StartupTopbar => ScreenInv'
<1> SUFFICES ASSUME ScreenInv, StartupTopbar PROVE ScreenInv'
  OBVIOUS
<1>1. /\ at = "idle" /\ phase # "last" /\ phase' \in {"startup", "loop"}
      /\ BeginTopbar(scr, <<NL>>) /\ UNCHANGED <<log, intact, bar, prev>>
  BY DEF StartupTopbar
<1>2. scr \in Screens /\ ~scr.row0 /\ ~scr.held /\ Proper(scr)
  BY <1>1, ProperOutside DEF ScreenInv, ScreenTypes, LabelInStep
<1>3. prev' # NoScreen => scr.alt = prev'
  BY <1>1 DEF ScreenInv, PrevScreenKept
<1>4. intact' => log' \in Lines /\ AtEnd(scr, log') /\ Shown(scr.buf, log')
  BY <1>1 DEF ScreenInv, TailInStep
<1> QED
  BY <1>1, <1>2, <1>3, <1>4, Texts, BeginTopbarInv

\* after SysCmd 2,
LEMMA ClearScreenInv == ScreenInv /\ ClearScreen => ScreenInv'
<1> SUFFICES ASSUME ScreenInv, ClearScreen PROVE ScreenInv'
  OBVIOUS
<1> DEFINE s == clear(scr)
<1>1. /\ at = "idle" /\ phase # "last" /\ phase' = phase /\ BeginTopbar(s, <<>>)
      /\ log' = NoLog /\ UNCHANGED <<bar, prev>>
  BY DEF ClearScreen, Starts
<1>2. scr \in Screens /\ ~scr.row0 /\ ~scr.held /\ Proper(scr) /\ phase \in {"startup", "loop"}
  BY <1>1, ProperOutside DEF ScreenInv, ScreenTypes, LabelInStep
<1>3. s \in Screens /\ Proper(s) /\ TailShown(s, NoLog) /\ Same(s, scr)
  BY <1>2, ClearShown, ClearOf
<1> HIDE DEF s
<1>4. ~s.row0 /\ ~s.held /\ s.alt = scr.alt
  BY <1>2, <1>3 DEF Same
<1>5. prev' # NoScreen => s.alt = prev'
  BY <1>1, <1>4 DEF ScreenInv, PrevScreenKept
<1>6. log' \in Lines /\ AtEnd(s, log') /\ Shown(s.buf, log')
  BY <1>1, <1>3 DEF TailShown
<1> QED
  BY <1>1, <1>2, <1>3, <1>4, <1>5, <1>6, Texts, BeginTopbarInv

\* and after SysCmds 1 and 7.
LEMMA PrintHelpInv == ScreenInv /\ PrintHelp => ScreenInv'
<1> SUFFICES ASSUME ScreenInv, PrintHelp PROVE ScreenInv'
  OBVIOUS
<1> DEFINE u == swap(scr)
           s == clear(u)
<1>1. /\ at = "idle" /\ phase # "last" /\ phase' = phase /\ BeginTopbar(s, HelpText)
      /\ log' = NoLog /\ prev' = scr.buf /\ bar' = bar
  BY DEF PrintHelp, Starts
<1>2. scr \in Screens /\ ~scr.row0 /\ ~scr.held /\ Proper(scr) /\ phase \in {"startup", "loop"}
  BY <1>1, ProperOutside DEF ScreenInv, ScreenTypes, LabelInStep
<1>3. u \in Screens /\ ~u.row0 /\ ~u.held /\ u.alt = scr.buf
  BY <1>2, SwapOf
<1> HIDE DEF u
<1>4. s \in Screens /\ Proper(s) /\ TailShown(s, NoLog) /\ Same(s, u)
  BY <1>3, ClearShown, ClearOf
<1> HIDE DEF s
<1>5. ~s.row0 /\ ~s.held /\ s.alt = prev'
  BY <1>1, <1>3, <1>4 DEF Same
<1>6. log' \in Lines /\ AtEnd(s, log') /\ Shown(s.buf, log')
  BY <1>1, <1>4 DEF TailShown
<1> QED
  BY <1>1, <1>2, <1>4, <1>5, <1>6, Texts, BeginTopbarInv

\* The rest of draw_topbar and of its caller.
LEMMA TopbarEndInv == ScreenInv /\ TopbarEnd => ScreenInv'
<1> SUFFICES ASSUME ScreenInv, TopbarEnd PROVE ScreenInv'
  OBVIOUS
<1> DEFINE t == topbar_end(scr, pend.row, pend.col)
           s == print(t, pend.text)
           u == set_col(s, 0)
           v == set_row(u, H - 1)
           w == print(v, <<"s">>)
<1>1. /\ at = "topbar" /\ phase # "last" /\ at' = "idle" /\ pend' = NoPend
      /\ bar' = scr'.buf[0] /\ UNCHANGED <<phase, prev>>
      /\ \/ scr' = s /\ log' = AppendText(log, pend.text) /\ UNCHANGED intact
         \/ scr' = w /\ ~intact'
  BY DEF TopbarEnd, Running
<1>2. /\ ScreenTypes /\ scr \in Screens /\ Proper(scr) /\ pend.row \in Rows
      /\ pend.col \in Columns /\ pend.text \in Seq(Chars)
  BY <1>1, ProperOutside DEF ScreenInv, ScreenTypes, Locals
<1>3. scr.row0 /\ ~scr.held /\ pend.row \in Rows \ {0}
  BY <1>1, <1>2 DEF ScreenInv, LabelInStep
<1>4. /\ t \in Screens /\ Proper(t) /\ ~t.row0 /\ t.held = scr.held /\ t.alt = scr.alt
      /\ t.buf = print(scr, Topbar).buf /\ t.row = pend.row /\ t.col = pend.col
  BY <1>2, <1>3, TopbarEnds
<1> HIDE DEF t
<1>5. s \in Screens /\ Proper(s) /\ Same(s, t)
  BY <1>2, <1>4, PrintKeeps
<1>6. ~s.row0 /\ ~s.held /\ s.alt = scr.alt
  BY <1>3, <1>4, <1>5 DEF Same
<1>7. w \in Screens /\ Proper(w) /\ Same(w, s)
  <2> HIDE DEF s
  <2>1. u \in Screens /\ Same(u, s)
    BY <1>5, SetCol
  <2> HIDE DEF u
  <2>2. H - 1 \in Nat
    BY ScreenConstants
  <2>3. v \in Screens /\ Proper(v) /\ Same(v, u)
    BY <2>1, <2>2, SetRow
  <2> HIDE DEF v
  <2>4. w \in Screens /\ Proper(w) /\ Same(w, v)
    BY <2>3, Texts, PrintKeeps
  <2> QED
    BY <2>1, <2>3, <2>4 DEF Same
<1> HIDE DEF w
<1>8. scr' \in Screens /\ Proper(scr') /\ ~scr'.row0 /\ ~scr'.held /\ scr'.alt = scr.alt
  <2> HIDE DEF s
  <2> QED
    BY <1>1, <1>5, <1>6, <1>7 DEF Same
<1>9. bar' \in [Columns -> Chars] /\ pend' \in Locals
  BY <1>1, <1>8, RowZero, NoLocals
<1>10. ScreenTypes' /\ Proper(scr)'
  BY <1>1, <1>2, <1>8, <1>9 DEF ScreenTypes, Proper
<1>11. LabelInStep'
  BY <1>1, <1>8, NoLocals DEF LabelInStep
<1>12. BarKept' /\ PrevScreenKept' /\ LastMessageReadable'
  BY <1>1, <1>8 DEF ScreenInv, BarKept, PrevScreenKept, LastMessageReadable
<1>13. TailInStep'
  <2> SUFFICES ASSUME intact, scr' = s, log' = AppendText(log, pend.text)
               PROVE  TailInStep'
    BY <1>1 DEF TailInStep
  <2>1. /\ log \in Lines /\ scr.row = 0 /\ scr.col = 0 /\ Shown(scr.buf, log)
        /\ pend.row = Len(log) /\ pend.col = Len(log[Len(log)])
    BY <1>1 DEF ScreenInv, TailInStep
  <2>2. \A r \in Rows \ {0} : t.buf[r] = scr.buf[r]
    BY <1>2, <1>3, <1>4, <2>1, TopbarIsOneRow
  <2>3. \A r \in 1..(H - 1) : r \in Rows \ {0}
    BY ScreenConstants DEF Rows
  <2>4. Shown(t.buf, log)
    BY <2>1, <2>2, <2>3 DEF Shown
  <2>5. TailShown(t, log)
    BY <1>3, <1>4, <2>1, <2>4 DEF TailShown, AtEnd
  <2>6. TailShown(scr', log')
    BY <1>2, <1>4, <2>5, PrintShown
  <2> QED
    BY <1>1, <2>6 DEF TailInStep, TailShown
<1> QED
  BY <1>10, <1>11, <1>12, <1>13 DEF ScreenInv, RowAllowed

\* wait puts its character into row 0 and the old one back.
LEMMA WaitBeginInv == ScreenInv /\ WaitBegin => ScreenInv'
<1> SUFFICES ASSUME ScreenInv, WaitBegin PROVE ScreenInv'
  OBVIOUS
<1>1. /\ at = "idle" /\ phase # "last" /\ at' = "wait"
      /\ pend' = [NoPend EXCEPT !.char = scr.buf[0][W - 1]]
      /\ scr' = put(scr, 0, W - 1, WAITING)
      /\ UNCHANGED <<phase, log, intact, bar, prev>>
  BY DEF WaitBegin, Starts
<1>2. /\ ScreenTypes /\ scr \in Screens /\ Proper(scr) /\ ~scr.row0 /\ ~scr.held
      /\ scr.buf[0] = bar /\ bar \in [Columns -> Chars]
  BY <1>1, ProperOutside DEF ScreenInv, ScreenTypes, LabelInStep, BarKept
<1>3. /\ 0 \in Rows /\ 0 \in Columns /\ W - 1 \in Columns
      /\ WAITING \in Chars /\ <<>> \in Seq(Chars)
  BY ScreenConstants DEF Rows, Columns, Chars
<1>4. /\ scr' \in Screens /\ Same(scr', scr) /\ scr'.row = scr.row /\ scr'.col = scr.col
      /\ \A q \in Rows, d \in Columns :
            scr'.buf[q][d] = IF q = 0 /\ d = W - 1 THEN WAITING ELSE scr.buf[q][d]
      /\ \A q \in Rows \ {0} : scr'.buf[q] = scr.buf[q]
  <2>1. scr' = put(scr, 0, W - 1, WAITING) /\ scr \in Screens
    BY <1>1, <1>2
  <2>2. 0 \in Rows /\ W - 1 \in Columns /\ WAITING \in Chars
    BY <1>3
  <2> QED
    BY <2>1, <2>2, Put
<1>5. scr'.buf[0] = [bar EXCEPT ![W - 1] = WAITING]
  <2>1. scr'.buf[0] \in [Columns -> Chars]
    BY <1>4, RowZero
  <2>2. \A d \in Columns : scr'.buf[0][d] = [bar EXCEPT ![W - 1] = WAITING][d]
    BY <1>2, <1>3, <1>4
  <2> QED
    BY <1>2, <2>1, <2>2
<1>6. pend' = [char |-> bar[W - 1], row |-> 0, col |-> 0, text |-> <<>>,
              then |-> "idle", new_row |-> 0, new_col |-> 0]
  BY <1>1, <1>2 DEF NoPend
<1>7. pend' \in Locals /\ pend'.char = bar[W - 1]
  <2>1. bar[W - 1] \in Chars
    BY <1>2, <1>3
  <2> QED
    BY <1>3, <1>6, <2>1, LocalsOf
<1>8. ScreenTypes' /\ Proper(scr)'
  BY <1>1, <1>2, <1>4, <1>7 DEF ScreenTypes, Proper, Same
<1>9. LabelInStep'
  BY <1>1, <1>2, <1>4, <1>7 DEF LabelInStep, Same
<1>10. BarKept' /\ PrevScreenKept' /\ LastMessageReadable'
  BY <1>1, <1>4, <1>5 DEF ScreenInv, BarKept, PrevScreenKept, LastMessageReadable, Same
<1>11. TailInStep'
  <2> SUFFICES ASSUME intact PROVE TailInStep'
    BY <1>1 DEF TailInStep
  <2>1. log \in Lines /\ AtEnd(scr, log) /\ Shown(scr.buf, log)
    BY <1>1 DEF ScreenInv, TailInStep
  <2>2. \A r \in 1..(H - 1) : r \in Rows \ {0}
    BY ScreenConstants DEF Rows
  <2>3. Shown(scr'.buf, log)
    BY <1>4, <2>1, <2>2 DEF Shown
  <2>4. AtEnd(scr', log)
    BY <1>4, <2>1 DEF AtEnd
  <2> QED
    BY <1>1, <2>1, <2>3, <2>4 DEF TailInStep
<1> QED
  BY <1>8, <1>9, <1>10, <1>11 DEF ScreenInv, RowAllowed

\* The character that comes back is the one wait took.
LEMMA WaitEndInv == ScreenInv /\ WaitEnd => ScreenInv'
<1> SUFFICES ASSUME ScreenInv, WaitEnd PROVE ScreenInv'
  OBVIOUS
<1>1. /\ at = "wait" /\ phase # "last" /\ at' = "idle" /\ pend' = NoPend
      /\ scr' = put(scr, 0, W - 1, pend.char)
      /\ UNCHANGED <<phase, log, intact, bar, prev>>
  BY DEF WaitEnd, Running
<1>2. /\ ScreenTypes /\ scr \in Screens /\ Proper(scr) /\ ~scr.row0 /\ ~scr.held
      /\ scr.buf[0] = [bar EXCEPT ![W - 1] = WAITING] /\ bar \in [Columns -> Chars]
      /\ pend.char = bar[W - 1] /\ pend.char \in Chars
  BY <1>1, ProperOutside DEF ScreenInv, ScreenTypes, LabelInStep, BarKept, Locals
<1>3. 0 \in Rows /\ W - 1 \in Columns
  BY ScreenConstants DEF Rows, Columns
<1>4. /\ scr' \in Screens /\ Same(scr', scr) /\ scr'.row = scr.row /\ scr'.col = scr.col
      /\ \A q \in Rows, d \in Columns :
            scr'.buf[q][d] = IF q = 0 /\ d = W - 1 THEN pend.char ELSE scr.buf[q][d]
      /\ \A q \in Rows \ {0} : scr'.buf[q] = scr.buf[q]
  BY <1>1, <1>2, <1>3, Put
<1>5. scr'.buf[0] = bar
  <2>1. scr'.buf[0] \in [Columns -> Chars]
    BY <1>4, RowZero
  <2>2. \A d \in Columns : scr'.buf[0][d] = bar[d]
    BY <1>2, <1>3, <1>4
  <2> QED
    BY <1>2, <2>1, <2>2
<1>6. pend' \in Locals
  BY <1>1, NoLocals
<1>7. ScreenTypes' /\ Proper(scr)'
  BY <1>1, <1>2, <1>4, <1>6 DEF ScreenTypes, Proper, Same
<1>8. LabelInStep'
  BY <1>1, <1>2, <1>4, NoLocals DEF LabelInStep, Same
<1>9. BarKept' /\ PrevScreenKept' /\ LastMessageReadable'
  BY <1>1, <1>4, <1>5 DEF ScreenInv, BarKept, PrevScreenKept, LastMessageReadable, Same
<1>10. TailInStep'
  <2> SUFFICES ASSUME intact PROVE TailInStep'
    BY <1>1 DEF TailInStep
  <2>1. log \in Lines /\ AtEnd(scr, log) /\ Shown(scr.buf, log)
    BY <1>1 DEF ScreenInv, TailInStep
  <2>2. \A r \in 1..(H - 1) : r \in Rows \ {0}
    BY ScreenConstants DEF Rows
  <2>3. Shown(scr'.buf, log)
    BY <1>4, <2>1, <2>2 DEF Shown
  <2>4. AtEnd(scr', log)
    BY <1>4, <2>1 DEF AtEnd
  <2> QED
    BY <1>1, <2>1, <2>3, <2>4 DEF TailInStep
<1> QED
  BY <1>7, <1>8, <1>9, <1>10 DEF ScreenInv, RowAllowed

\* The timer handler's line ends below the topbar, wherever it begins.
LEMMA LineKeeps ==
    ASSUME NEW s \in Screens, Proper(s) \/ ~s.held, NEW t, t = print(s, MotorOff)
    PROVE  /\ t \in Screens /\ Proper(t) /\ Same(t, s)
           /\ Proper(s) /\ ~s.row0 => t.buf[0] = s.buf[0]
<1>1. CASE Proper(s)
  BY <1>1, Texts, PrintKeeps
<1>2. CASE ~Proper(s)
  <2>1. "d" \in Chars /\ NL \in Chars /\ "d" # NL
    BY DEF Chars, NL
  <2>2. Len(MotorOff) = 2 /\ MotorOff[1] = "d" /\ MotorOff[2] = NL
    BY DEF MotorOff
  <2>3. PICK f, g : TextSequence(f, g, s, <<>>, MotorOff)
    <3>1. Len(MotorOff) \in Nat
      BY <2>2
    <3> QED
      BY <3>1, TextEquations
  <2>4. f[1] = write_char(s, "d") /\ f[2] = write_char(f[1], NL) /\ t = f[2]
    <3>1. /\ f[0] = s /\ f[0 + 1] = write_char(f[0], MotorOff[0 + 1])
          /\ f[1 + 1] = write_char(f[1], MotorOff[1 + 1]) /\ t = f[Len(MotorOff)]
      BY <2>2, <2>3 DEF TextSequence
    <3> QED
      BY <2>2, <3>1
  <2> DEFINE u == put(s, s.row, s.col, "d")
  <2>5. s.row \in Rows /\ s.col \in Columns /\ s.col + 1 \in Nat /\ 0 \in Nat
    BY ScreenConstants DEF Screens, Columns
  <2>6. u \in Screens /\ Same(u, s) /\ u = Written(s, "d") /\ u.row \in Rows
    <3>1. u \in Screens /\ Same(u, s)
      BY <2>1, <2>5, Put
    <3> QED
      BY <1>2, <3>1 DEF Written, Screens
  <2> HIDE DEF u
  <2>7. f[1] \in Screens /\ Proper(f[1]) /\ Same(f[1], u)
    <3>1. CASE s.col >= W - 1
      <4> DEFINE v == set_col(u, 0)
      <4>1. v \in Screens /\ Proper(v) /\ Same(v, u)
        BY <2>5, <2>6, SetCol
      <4>2. f[1] = newline(u)
        BY <2>1, <2>4, <2>6, <3>1, WriteCharIs
      <4>3. f[1] = newline_end(v, u.row)
        BY <1>2, <2>6, <4>2 DEF newline, Same
      <4> HIDE DEF v
      <4>4. f[1] \in Screens /\ Proper(f[1]) /\ Same(f[1], v)
        BY <2>6, <4>1, <4>3, NewlineEndOf
      <4> QED
        BY <4>1, <4>4 DEF Same
    <3>2. CASE ~(s.col >= W - 1)
      <4>1. f[1] = set_col(u, s.col + 1)
        BY <2>1, <2>4, <2>6, <3>2, WriteCharIs
      <4> QED
        BY <2>5, <2>6, <4>1, SetCol
    <3> QED
      BY <3>1, <3>2
  <2>8. t \in Screens /\ Proper(t) /\ Same(t, f[1])
    BY <2>1, <2>4, <2>7, WriteCharKeeps
  <2> QED
    BY <1>2, <2>6, <2>7, <2>8 DEF Same
<1> QED
  BY <1>1, <1>2

\* Where the row is not clamped yet, nobody holds the buffer.
LEMMA HeldIsProper ==
    ASSUME ScreenInv
    PROVE  /\ Proper(scr) \/ (~scr.held /\ ~scr.row0)
           /\ ~Proper(scr) => at \in {"stored", "loaded"} /\ phase # "last" /\ ~intact
<1>1. CASE Proper(scr)
  BY <1>1
<1>2. CASE ~Proper(scr)
  <2>1. at \in {"stored", "loaded"} /\ pend.then = "idle" /\ ~intact /\ phase # "last"
    BY <1>2 DEF ScreenInv, RowAllowed
  <2>2. ~scr.held /\ ~scr.row0
    BY <2>1 DEF ScreenInv, LabelInStep
  <2> QED
    BY <1>2, <2>1, <2>2
<1> QED
  BY <1>1, <1>2

\* It is printed over whatever the main thread was doing.
LEMMA MotorOffLineInv == ScreenInv /\ MotorOffLine => ScreenInv'
<1> SUFFICES ASSUME ScreenInv, MotorOffLine PROVE ScreenInv'
  OBVIOUS
<1>1. /\ phase # "last" /\ scr' = print(scr, MotorOff) /\ log' = AppendText(log, MotorOff)
      /\ intact' = (intact /\ at \in {"idle", "wait"})
      /\ bar' = IF scr.row = 0 /\ ~scr.row0 THEN scr'.buf[0] ELSE bar
      /\ UNCHANGED <<at, pend, phase, prev>>
  BY DEF MotorOffLine
<1>2. ScreenTypes /\ scr \in Screens
  BY DEF ScreenInv, ScreenTypes
<1>3. /\ scr' \in Screens /\ Proper(scr') /\ Same(scr', scr)
      /\ Proper(scr) /\ ~scr.row0 => scr'.buf[0] = scr.buf[0]
  BY <1>1, <1>2, HeldIsProper, LineKeeps
<1>4. bar' \in [Columns -> Chars] /\ (Proper(scr) => bar' = bar)
  <2>1. scr'.buf[0] \in [Columns -> Chars] /\ bar \in [Columns -> Chars]
    BY <1>2, <1>3, RowZero DEF ScreenTypes
  <2>2. Proper(scr) => ~(scr.row = 0 /\ ~scr.row0)
    BY DEF Proper
  <2> QED
    BY <1>1, <2>1, <2>2
<1>5. ~Proper(scr) => at \in {"stored", "loaded"} /\ bar' = scr'.buf[0]
  <2> SUFFICES ASSUME ~Proper(scr) PROVE bar' = scr'.buf[0]
    BY HeldIsProper
  <2>1. scr.row = 0 /\ ~scr.row0
    BY <1>2, ScreenConstants DEF Proper, Screens, Rows
  <2> QED
    BY <1>1, <2>1
<1>6. ScreenTypes' /\ Proper(scr)'
  BY <1>1, <1>2, <1>3, <1>4 DEF ScreenTypes, Proper
<1>7. LabelInStep'
  BY <1>1, <1>3, <1>4, <1>5 DEF ScreenInv, LabelInStep, Same
<1>8. BarKept'
  <2>1. CASE Proper(scr)
    BY <1>1, <1>3, <1>4, <2>1 DEF ScreenInv, BarKept, LabelInStep
  <2>2. CASE ~Proper(scr)
    BY <1>1, <1>5, <2>2 DEF BarKept
  <2> QED
    BY <2>1, <2>2
<1>9. PrevScreenKept' /\ LastMessageReadable'
  BY <1>1, <1>3 DEF ScreenInv, PrevScreenKept, LastMessageReadable, Same
<1>10. TailInStep'
  <2> SUFFICES ASSUME intact, at \in {"idle", "wait"} PROVE TailInStep'
    BY <1>1 DEF TailInStep
  <2>1. TailShown(scr, log) /\ Proper(scr)
    BY <1>1, ProperOutside DEF ScreenInv, TailInStep, TailShown, LabelInStep
  <2>2. TailShown(scr', log')
    BY <1>1, <1>2, <2>1, Texts, PrintShown
  <2> QED
    BY <1>1, <2>2 DEF TailInStep, TailShown
<1> QED
  BY <1>6, <1>7, <1>8, <1>9, <1>10 DEF ScreenInv, RowAllowed

\* The last message, whatever it interrupts.
LEMMA KpanicInv == ScreenInv /\ Kpanic => ScreenInv'
<1> SUFFICES ASSUME ScreenInv, Kpanic PROVE ScreenInv'
  OBVIOUS
<1>1. phase' = "last" /\ UNCHANGED <<at, pend, log, intact, bar, prev>>
  BY DEF Kpanic
<1>2. PICK first \in {<<>>, MotorOff} :
         scr' = print([print(scr, first) EXCEPT !.row0 = TRUE, !.held = FALSE], PanicText)
  BY DEF Kpanic
<1>3. ScreenTypes /\ scr \in Screens /\ (Proper(scr) \/ ~scr.held)
  BY HeldIsProper DEF ScreenInv, ScreenTypes
<1> DEFINE s == print(scr, first)
           t == [s EXCEPT !.row0 = TRUE, !.held = FALSE]
<1>4. s \in Screens /\ Same(s, scr)
  <2>1. CASE first = MotorOff
    BY <1>3, <2>1, LineKeeps
  <2>2. CASE first = <<>>
    <3>1. Len(<<>>) = 0 /\ Len(<<>>) \in Nat
      OBVIOUS
    <3>2. PICK f, g : TextSequence(f, g, scr, <<>>, <<>>)
      BY <3>1, TextEquations
    <3>3. s = scr
      BY <2>2, <3>1, <3>2 DEF TextSequence
    <3> QED
      BY <1>3, <3>3 DEF Same
  <2> QED
    BY <2>1, <2>2
<1> HIDE DEF s
<1>5. t \in Screens /\ t.row0 = TRUE /\ t.held = FALSE /\ t.alt = scr.alt
  BY <1>4 DEF Screens, Same
<1>6. scr' = print(t, PanicText)
  BY <1>2 DEF s
<1> HIDE DEF t
<1>7. Proper(t) /\ ~t.held
  BY <1>5 DEF Proper
<1>8. scr' \in Screens /\ Proper(scr') /\ Same(scr', t)
  BY <1>5, <1>6, <1>7, Texts, PrintKeeps
<1>9. Readable(scr')
  BY <1>5, <1>6, <1>7, PanicReadable
<1>10. ScreenTypes' /\ Proper(scr)'
  BY <1>1, <1>3, <1>8 DEF ScreenTypes, Proper
<1>11. LabelInStep' /\ BarKept' /\ TailInStep'
  BY <1>1 DEF LabelInStep, BarKept, TailInStep
<1>12. PrevScreenKept'
  BY <1>1, <1>5, <1>8 DEF ScreenInv, PrevScreenKept, Same
<1>13. LastMessageReadable'
  BY <1>9 DEF LastMessageReadable, Readable
<1> QED
  BY <1>10, <1>11, <1>12, <1>13 DEF ScreenInv, RowAllowed

\* The double fault handler clears the screen first.
LEMMA print_df_infoInv == ScreenInv /\ print_df_info => ScreenInv'
<1> SUFFICES ASSUME ScreenInv, print_df_info PROVE ScreenInv'
  OBVIOUS
<1> DEFINE u == [scr EXCEPT !.held = FALSE]
           s == clear(u)
<1>1. phase' = "last" /\ UNCHANGED <<at, pend, log, intact, bar, prev>>
  BY DEF print_df_info
<1>2. scr' = print(s, DoubleText)
  BY DEF print_df_info
<1>3. ScreenTypes /\ scr \in Screens
  BY DEF ScreenInv, ScreenTypes
<1>4. u \in Screens /\ u.held = FALSE /\ u.alt = scr.alt
  BY <1>3 DEF Screens
<1> HIDE DEF u
<1>5. s \in Screens /\ Proper(s) /\ Same(s, u) /\ s.row = 1 /\ s.col = 0
  BY <1>4, ClearOf
<1> HIDE DEF s
<1>6. ~s.held /\ s.alt = scr.alt /\ s.row >= 1
  BY <1>4, <1>5 DEF Same
<1>7. scr' \in Screens /\ Proper(scr') /\ Same(scr', s)
  BY <1>2, <1>5, Texts, PrintKeeps
<1>8. Readable(scr')
  BY <1>2, <1>5, <1>6, DoubleReadable
<1>9. ScreenTypes' /\ Proper(scr)'
  BY <1>1, <1>3, <1>7 DEF ScreenTypes, Proper
<1>10. LabelInStep' /\ BarKept' /\ TailInStep'
  BY <1>1 DEF LabelInStep, BarKept, TailInStep
<1>11. PrevScreenKept'
  BY <1>1, <1>6, <1>7 DEF ScreenInv, PrevScreenKept, Same
<1>12. LastMessageReadable'
  BY <1>8 DEF LastMessageReadable, Readable
<1> QED
  BY <1>9, <1>10, <1>11, <1>12 DEF ScreenInv, RowAllowed

----------------------------------------------------------------------------

\* Every step keeps the invariant.
LEMMA ScreenNextInv == ScreenInv /\ [ScreenNext]_screenVars => ScreenInv'
<1>1. ScreenInv /\ UNCHANGED screenVars => ScreenInv'
  BY DEF screenVars, ScreenInv, ScreenTypes, RowAllowed, Proper, LabelInStep, BarKept,
     PrevScreenKept, TailInStep, LastMessageReadable
<1> QED
  BY <1>1, PrintReadInv, PrintHoldInv, PrintPutInv, PrintMoveInv, NewlineHoldInv,
     NewlineScrollInv, NewlineMoveInv, NewlineDropInv, ClampLoadInv, ClampRowInv,
     ClampColInv, check_arrowsInv, BackspaceInv, PollVisualInv, SwapBuffersInv,
     ClearScreenInv, PrintHelpInv, StartupTopbarInv, TopbarEndInv, WaitBeginInv,
     WaitEndInv, MotorOffLineInv, KpanicInv, print_df_infoInv
     DEF ScreenNext, PrintStep, clamp, check_syscmd_draws

\* The invariant holds in every state of a behaviour.
THEOREM ScreenInvariance == ScreenSpec => []ScreenInv
  BY ScreenInitInv, ScreenNextInv, PTL DEF ScreenSpec

\* Every index into the buffer is valid: the cursor and the positions that
\* write_char, newline, draw_topbar and clamp_row_col keep are on the screen after each
\* of their stores, and without ALLOW_ROW_0 the cursor is in the topbar's row only
\* until clamp_row_col has stored the row it loaded.
THEOREM CursorOnScreen == ScreenSpec => []OnScreen
<1>1. ScreenInv => OnScreen
  BY ScreenConstants
     DEF ScreenInv, ScreenTypes, Screens, Rows, Locals, RowAllowed, Proper, OnScreen
<1> QED
  BY <1>1, ScreenInvariance, PTL

\* newline and write_char lose and repeat nothing on a screen of any size: the rows
\* under the topbar show the last lines printed, and the cursor is at their end.
THEOREM TailOnScreen == ScreenSpec => []ShowsTail
<1>1. ScreenInv => ShowsTail
  BY DEF ScreenInv, TailInStep, ShowsTail, Shown, AtEnd
<1> QED
  BY <1>1, ScreenInvariance, PTL

\* Printing, scrolling, the arrows and waits leave the topbar alone, but for a line of
\* the timer handler that finds the cursor in it.
THEOREM TopbarKept == ScreenSpec => []BarKept
<1>1. ScreenInv => BarKept
  BY DEF ScreenInv
<1> QED
  BY <1>1, ScreenInvariance, PTL

\* What the screen showed before SysCmd 1 or 7 stays in ALT until the next swap.
THEOREM AltKept == ScreenSpec => []PrevScreenKept
<1>1. ScreenInv => PrevScreenKept
  BY DEF ScreenInv
<1> QED
  BY <1>1, ScreenInvariance, PTL

\* The last message of kpanic and of print_df_info is readable whatever it
\* interrupted.
THEOREM LastMessageShown == ScreenSpec => []LastMessageReadable
<1>1. ScreenInv => LastMessageReadable
  BY DEF ScreenInv
<1> QED
  BY <1>1, ScreenInvariance, PTL

=============================================================================
