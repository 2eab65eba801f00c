------------------------- MODULE InterruptsProofs -------------------------
(***************************************************************************)
(* Nested handlers and the PICs' in-service bits, at any nesting depth.    *)
(*                                                                         *)
(* The argument is about the frames that have not been acknowledged: their *)
(* lines are in service, and from the innermost outwards they are of       *)
(* falling priority. The bit a non-specific EOI clears is therefore that   *)
(* of the handler that sends it or one that no running handler owns: a     *)
(* spurious IRQ 15 leaves such a bit in the main PIC and is never          *)
(* acknowledged. Bits above such a one, the timer's and the keyboard's,    *)
(* are always those of running handlers.                                   *)
(***************************************************************************)
EXTENDS Interrupts, SequenceTheorems, FiniteSetTheorems, TLAPS

Frames == [irq : Devices \cup Spurious, at : Labels]

Pending(f) == f.irq \in Devices /\ f.at \in Unacknowledged

PendingFrames(s) == {s[i] : i \in {j \in DOMAIN s : Pending(s[j])}}

FallingPriority(s) ==
    \A i, j \in DOMAIN s :
        i < j /\ Pending(s[i]) /\ Pending(s[j]) => Line(s[i].irq) < Line(s[j].irq)

\* The in-service bits the PICs have for a set of pending frames.
MainBits(F)      == {Line(f.irq) : f \in F}
SecondaryBits(F) == {f.irq : f \in {g \in F : g.irq = 8 /\ g.at # "eoi1"}}

PicInv ==
    /\ stack \in Seq(Frames) /\ FallingPriority(stack)
    /\ MainBits(PendingFrames(stack)) \subseteq isr1 /\ isr1 \subseteq 0..7
    /\ isr1 \cap {0, 1} \subseteq MainBits(PendingFrames(stack))
    /\ isr2 = SecondaryBits(PendingFrames(stack))
    /\ \A f \in PendingFrames(stack) : f.irq # 8 => f.at \in {"enter", "eoi1"}

\* rtc_handler: an update that has been seen is not forgotten while the clock is
\* being read, and after the sync the handler stays away from the CMOS.
RtcInv ==
    /\ \A f \in PendingFrames(stack) : f.irq = 8 /\ f.at = "sync" => RTC_UPDATE_ENDED
    /\ RTC_SYNC_DONE =>
         /\ RTC_UPDATE_ENDED
         /\ \A f \in PendingFrames(stack) :
              f.irq = 8 => f.at \notin {"select", "read", "sync"}
    /\ pc \in {"cmos_select", "cmos_read"} => RTC_SYNC_DONE
    /\ pc = "wait_sync" => RTC_IRQ_INIT
    /\ CmosPairIntact

IInv == PicInv /\ RtcInv

\* A stack with one more frame.
LEMMA PushFrame ==
    ASSUME NEW s \in Seq(Frames), NEW f \in Frames
    PROVE  /\ <<f>> \o s \in Seq(Frames) /\ <<f>> \o s # <<>>
           /\ PendingFrames(<<f>> \o s) = PendingFrames(s) \cup {g \in {f} : Pending(g)}
           /\ FallingPriority(<<f>> \o s) <=>
                /\ FallingPriority(s)
                /\ Pending(f) => \A g \in PendingFrames(s) : Line(f.irq) < Line(g.irq)
<1> DEFINE t == <<f>> \o s
<1>1. <<f>> \in Seq(Frames) /\ Len(<<f>>) = 1 /\ <<f>>[1] = f
  OBVIOUS
<1>2. /\ t \in Seq(Frames) /\ Len(t) = Len(s) + 1
      /\ \A i \in 1..(Len(s) + 1) : t[i] = IF i <= 1 THEN f ELSE s[i - 1]
  BY <1>1, ConcatProperties
<1>3. /\ DOMAIN t = 1..(Len(s) + 1) /\ DOMAIN s = 1..Len(s) /\ Len(s) \in Nat
      /\ t # <<>>
  BY <1>2, LenProperties, EmptySeq
<1> HIDE DEF t
<1>4. 1 \in DOMAIN t /\ t[1] = f
  BY <1>2, <1>3
<1>5. \A i \in DOMAIN s : i + 1 \in DOMAIN t /\ t[i + 1] = s[i]
  BY <1>2, <1>3
<1>6. \A i \in DOMAIN t : i = 1 \/ (i - 1 \in DOMAIN s /\ t[i] = s[i - 1] /\ i > 1)
  BY <1>2, <1>3
<1>7. PendingFrames(t) = PendingFrames(s) \cup {g \in {f} : Pending(g)}
  BY <1>4, <1>5, <1>6 DEF PendingFrames
<1>8. FallingPriority(t) =>
        /\ FallingPriority(s)
        /\ Pending(f) => \A g \in PendingFrames(s) : Line(f.irq) < Line(g.irq)
  <2> SUFFICES ASSUME FallingPriority(t)
               PROVE  /\ FallingPriority(s)
                      /\ Pending(f) => \A g \in PendingFrames(s) : Line(f.irq) < Line(g.irq)
    OBVIOUS
  <2>1. \A i, j \in DOMAIN s : i < j => i + 1 < j + 1
    BY <1>3
  <2>2. FallingPriority(s)
    BY <1>5, <2>1 DEF FallingPriority
  <2>3. \A j \in DOMAIN s : 1 < j + 1
    BY <1>3
  <2>4. ASSUME Pending(f), NEW j \in DOMAIN s, Pending(s[j])
        PROVE  Line(f.irq) < Line(s[j].irq)
    BY <1>4, <1>5, <2>3, <2>4 DEF FallingPriority
  <2> QED
    BY <2>2, <2>4 DEF PendingFrames
<1>9. ASSUME FallingPriority(s),
             Pending(f) => \A g \in PendingFrames(s) : Line(f.irq) < Line(g.irq)
      PROVE  FallingPriority(t)
  <2> SUFFICES ASSUME NEW i \in DOMAIN t, NEW j \in DOMAIN t, i < j,
                      Pending(t[i]), Pending(t[j])
               PROVE  Line(t[i].irq) < Line(t[j].irq)
    BY DEF FallingPriority
  <2>1. j - 1 \in DOMAIN s /\ t[j] = s[j - 1]
    BY <1>3, <1>6
  <2>2. CASE i = 1
    BY <1>4, <1>9, <2>1, <2>2 DEF PendingFrames
  <2>3. CASE i # 1
    <3>1. i - 1 \in DOMAIN s /\ t[i] = s[i - 1] /\ i - 1 < j - 1
      BY <1>3, <1>6, <2>3
    <3> QED
      BY <1>9, <2>1, <3>1 DEF FallingPriority
  <2> QED
    BY <2>2, <2>3
<1> QED
  BY <1>2, <1>3, <1>7, <1>8, <1>9 DEF t

\* A stack that is not empty is its innermost frame on the rest.
LEMMA TopFrame ==
    ASSUME NEW s \in Seq(Frames), s # <<>>
    PROVE  /\ Head(s) \in Frames /\ Tail(s) \in Seq(Frames)
           /\ s = <<Head(s)>> \o Tail(s)
<1>1. /\ Head(s) \in Frames /\ Tail(s) \in Seq(Frames) /\ Len(Tail(s)) = Len(s) - 1
      /\ \A i \in 1..Len(Tail(s)) : Tail(s)[i] = s[i + 1]
  BY HeadTailProperties
<1>2. Head(s) = s[1] /\ Len(s) \in Nat \ {0}
  BY EmptySeq
<1>3. <<Head(s)>> \in Seq(Frames) /\ Len(<<Head(s)>>) = 1 /\ <<Head(s)>>[1] = Head(s)
  BY <1>1
<1>4. /\ <<Head(s)>> \o Tail(s) \in Seq(Frames)
      /\ Len(<<Head(s)>> \o Tail(s)) = Len(s)
      /\ \A i \in 1..Len(s) : (<<Head(s)>> \o Tail(s))[i] =
                                IF i <= 1 THEN Head(s) ELSE Tail(s)[i - 1]
  BY <1>1, <1>2, <1>3, ConcatProperties
<1>5. \A i \in 1..Len(s) : (<<Head(s)>> \o Tail(s))[i] = s[i]
  BY <1>1, <1>2, <1>4
<1> QED
  BY <1>1, <1>4, <1>5, SeqEqual

\* Before anything is set up.
LEMMA InitIInv == Init => IInv
<1> SUFFICES ASSUME Init PROVE IInv
  OBVIOUS
<1>1. ~RTC_SYNC_DONE
  BY Zenon DEF Init
<1>2. stack \in Seq(Frames) /\ DOMAIN stack = {} /\ PendingFrames(stack) = {}
  BY DEF Init, PendingFrames
<1>3. PicInv
  BY <1>2 DEF Init, PicInv, FallingPriority, MainBits, SecondaryBits
<1>4. RtcInv
  BY <1>1, <1>2 DEF Init, RtcInv, CmosPairIntact
<1> QED
  BY <1>3, <1>4 DEF IInv

\* Delivering an interrupt puts a frame of higher priority than all others on top.
LEMMA DeliverPicInv ==
    ASSUME IInv, NEW irq \in Devices, Deliver(irq)
    PROVE  /\ PicInv'
           /\ PendingFrames(stack') = PendingFrames(stack) \cup {Frame(irq, "enter")}
<1> DEFINE f == Frame(irq, "enter")
<1>1. f \in Frames /\ Pending(f) /\ f.irq = irq /\ f.at = "enter"
  BY DEF Frame, Frames, Pending, Unacknowledged, Labels
<1> HIDE DEF f
<1>2. stack \in Seq(Frames) /\ stack' = <<f>> \o stack
  BY DEF IInv, PicInv, Deliver, f
<1>3. /\ stack' \in Seq(Frames)
      /\ PendingFrames(stack') = PendingFrames(stack) \cup {f}
      /\ FallingPriority(stack') <=>
           /\ FallingPriority(stack)
           /\ \A g \in PendingFrames(stack) : Line(irq) < Line(g.irq)
  BY <1>1, <1>2, PushFrame
<1>4. \A g \in PendingFrames(stack) : Line(irq) < Line(g.irq)
  BY DEF IInv, PicInv, MainBits, Deliver, Unblocked
<1>5. /\ MainBits(PendingFrames(stack')) \subseteq isr1' /\ isr1' \subseteq 0..7
      /\ isr1' \cap {0, 1} \subseteq MainBits(PendingFrames(stack'))
  <2>1. MainBits(PendingFrames(stack')) = MainBits(PendingFrames(stack)) \cup {Line(irq)}
    BY <1>1, <1>3 DEF MainBits
  <2>2. Line(irq) \in 0..7 /\ isr1' = isr1 \cup {Line(irq)}
    BY DEF Line, Devices, Deliver
  <2> QED
    BY <2>1, <2>2 DEF IInv, PicInv
<1>6. isr2' = SecondaryBits(PendingFrames(stack'))
  BY <1>1, <1>3 DEF IInv, PicInv, SecondaryBits, Deliver, Devices
<1> QED
  BY <1>1, <1>3, <1>4, <1>5, <1>6 DEF IInv, PicInv, f

\* What the innermost frame, the rest of the stack and the in-service bits have to
\* do with one another.
LEMMA TopPending ==
    ASSUME PicInv, stack # <<>>
    PROVE  LET f == Head(stack)  t == Tail(stack)
           IN  /\ f \in Frames /\ t \in Seq(Frames)
               /\ FallingPriority(t)
               /\ PendingFrames(stack) = PendingFrames(t) \cup {g \in {f} : Pending(g)}
               /\ Pending(f) => \A g \in PendingFrames(t) : Line(f.irq) < Line(g.irq)
<1>1. stack = <<Head(stack)>> \o Tail(stack) /\ Head(stack) \in Frames
        /\ Tail(stack) \in Seq(Frames)
  BY TopFrame DEF PicInv
<1> QED
  BY <1>1, PushFrame DEF PicInv

\* A handler that goes on without touching the PICs, between labels with the same
\* in-service bits.
LEMMA GotoPicInv ==
    ASSUME PicInv, stack # <<>>, NEW at \in Labels, Goto(at), UNCHANGED pic,
           Pending(Head(stack)) <=> at \in Unacknowledged /\ Head(stack).irq \in Devices,
           (Head(stack).at # "eoi1" /\ at # "eoi1") \/ Head(stack).irq # 8,
           Head(stack).irq # 8 /\ at \in Unacknowledged => at \in {"enter", "eoi1"}
    PROVE  /\ PicInv'
           /\ PendingFrames(stack')
                = PendingFrames(Tail(stack))
                    \cup {g \in {Frame(Head(stack).irq, at)} : Pending(g)}
<1> DEFINE f == Head(stack)
           t == Tail(stack)
           f2 == Frame(f.irq, at)
<1>1. /\ f \in Frames /\ t \in Seq(Frames)
      /\ FallingPriority(t)
      /\ PendingFrames(stack) = PendingFrames(t) \cup {g \in {f} : Pending(g)}
      /\ Pending(f) => \A g \in PendingFrames(t) : Line(f.irq) < Line(g.irq)
  BY TopPending
<1>2. f2 \in Frames /\ f2.irq = f.irq /\ f2.at = at /\ stack' = <<f2>> \o t
  BY <1>1 DEF Frames, Frame, Goto
<1>3. Pending(f2) <=> Pending(f)
  BY <1>2 DEF Pending
<1> HIDE DEF f, t, f2
<1>4. /\ stack' \in Seq(Frames)
      /\ PendingFrames(stack') = PendingFrames(t) \cup {g \in {f2} : Pending(g)}
      /\ FallingPriority(stack')
  BY <1>1, <1>2, <1>3, PushFrame
<1>5. MainBits(PendingFrames(stack')) = MainBits(PendingFrames(stack))
  BY <1>1, <1>2, <1>3, <1>4 DEF MainBits
<1>6. SecondaryBits(PendingFrames(stack')) = SecondaryBits(PendingFrames(stack))
  BY <1>1, <1>2, <1>3, <1>4 DEF SecondaryBits, f
<1>7. \A g \in PendingFrames(stack') : g.irq # 8 => g.at \in {"enter", "eoi1"}
  BY <1>1, <1>2, <1>4 DEF PicInv, Pending, f
<1> QED
  BY <1>4, <1>5, <1>6, <1>7 DEF PicInv, pic, f, t, f2

\* A non-specific EOI of the innermost handler clears no other handler's bit, and
\* its own if that is the timer's or the keyboard's: a bit above it has no owner.
LEMMA EoiPicInv ==
    ASSUME PicInv, stack # <<>>, Pending(Head(stack))
    PROVE  /\ MainBits(PendingFrames(Tail(stack))) \subseteq isr1 \ Lowest(isr1)
           /\ Line(Head(stack).irq) \in isr1
           /\ Line(Head(stack).irq) < 2 => Lowest(isr1) = {Line(Head(stack).irq)}
           /\ (isr1 \ Lowest(isr1)) \cap {0, 1} \subseteq MainBits(PendingFrames(Tail(stack)))
           /\ Head(stack).irq = 8 => \A g \in PendingFrames(Tail(stack)) : g.irq # 8
<1> DEFINE f == Head(stack)
           t == Tail(stack)
<1>1. /\ f \in Frames /\ t \in Seq(Frames)
      /\ PendingFrames(stack) = PendingFrames(t) \cup {f}
      /\ \A g \in PendingFrames(t) : Line(f.irq) < Line(g.irq)
  BY TopPending
<1>2. \A g \in PendingFrames(t) : Line(g.irq) \in Int
  BY DEF PendingFrames, Pending, Line, Devices
<1>3. Line(f.irq) \in {0, 1, 2, 6}
  BY DEF Pending, Line, Devices
<1> HIDE DEF f, t
<1>4. /\ MainBits(PendingFrames(t)) \cup {Line(f.irq)} \subseteq isr1
      /\ isr1 \subseteq 0..7
      /\ isr1 \cap {0, 1} \subseteq MainBits(PendingFrames(t)) \cup {Line(f.irq)}
  BY <1>1 DEF PicInv, MainBits
<1>5. \A b \in MainBits(PendingFrames(t)) : b \in Int /\ Line(f.irq) < b
  BY <1>1, <1>2 DEF MainBits
<1>6. MainBits(PendingFrames(t)) \subseteq isr1 \ Lowest(isr1)
  <2> SUFFICES ASSUME NEW b \in MainBits(PendingFrames(t)), b <= Line(f.irq)
               PROVE  FALSE
    BY <1>4 DEF Lowest
  <2> QED
    BY <1>3, <1>5
<1>7. ASSUME Line(f.irq) < 2 PROVE Lowest(isr1) = {Line(f.irq)}
  <2>1. \A b \in isr1 : b \in Int /\ Line(f.irq) <= b
    <3> SUFFICES ASSUME NEW b \in isr1, b < Line(f.irq) PROVE FALSE
      BY <1>3, <1>4
    <3>1. b \in isr1 \cap {0, 1} /\ b # Line(f.irq)
      BY <1>3, <1>4, <1>7
    <3>2. b \in MainBits(PendingFrames(t))
      BY <1>4, <3>1
    <3> QED
      BY <1>3, <1>5, <3>2
  <2>2. Line(f.irq) \in Lowest(isr1)
    BY <1>4, <2>1 DEF Lowest
  <2>3. ASSUME NEW b \in Lowest(isr1) PROVE b = Line(f.irq)
    <3>1. b \in isr1 /\ b <= Line(f.irq)
      BY <1>4 DEF Lowest
    <3> QED
      BY <1>3, <2>1, <3>1
  <2> QED
    BY <2>2, <2>3
<1>8. (isr1 \ Lowest(isr1)) \cap {0, 1} \subseteq MainBits(PendingFrames(t))
  <2> SUFFICES ASSUME NEW b \in (isr1 \ Lowest(isr1)) \cap {0, 1},
                      b \notin MainBits(PendingFrames(t))
               PROVE  FALSE
    OBVIOUS
  <2>1. b = Line(f.irq) /\ b < 2
    BY <1>4
  <2> QED
    BY <1>7, <2>1
<1>9. f.irq = 8 => \A g \in PendingFrames(t) : g.irq # 8
  BY <1>1, <1>3
<1> QED
  BY <1>4, <1>6, <1>7, <1>8, <1>9 DEF f, t

\* Steps that leave the RTC's state alone and put no handler on its way to the CMOS
\* keep what is known of it.
LEMMA RtcFrame ==
    ASSUME RtcInv, UNCHANGED <<rtc, main>>,
           \A g \in PendingFrames(stack') :
             g \in PendingFrames(stack)
               \/ g.irq # 8 \/ g.at \notin {"select", "read", "sync"}
    PROVE  RtcInv'
  BY DEF RtcInv, CmosPairIntact, rtc, main

\* Every step of a handler keeps the invariant.
LEMMA HandlerIInv == IInv /\ Handler => IInv'
<1> SUFFICES ASSUME IInv, Handler PROVE IInv'
  OBVIOUS
<1> DEFINE f == Head(stack)
           t == Tail(stack)
<1>1. stack # <<>> /\ PicInv /\ RtcInv
  BY DEF IInv, Handler, savestate, RtcTest, RtcSelect, RtcRead, sync_time_to_rtc,
       dummy_handler, eoi, EoiSecondary, EoiMain, restore_state, iretq, At
<1>2. /\ f \in Frames /\ t \in Seq(Frames)
      /\ FallingPriority(t)
      /\ PendingFrames(stack) = PendingFrames(t) \cup {g \in {f} : Pending(g)}
      /\ Pending(f) => \A g \in PendingFrames(t) : Line(f.irq) < Line(g.irq)
  BY <1>1, TopPending
<1>3. PendingFrames(t) \subseteq PendingFrames(stack)
  BY <1>2
<1>4. \A g \in PendingFrames(t) : Pending(f) /\ f.irq = 8 => g.irq # 8
  BY <1>1, EoiPicInv
<1>5. UNCHANGED main
  BY DEF Handler, savestate, RtcTest, RtcSelect, RtcRead, sync_time_to_rtc,
       dummy_handler, eoi, EoiSecondary, EoiMain, restore_state, iretq
<1> USE DEF Labels, Unacknowledged
<1>6. CASE savestate
  <2>1. /\ f.irq \in Devices /\ f.at = "enter" /\ Goto(AfterSave)
        /\ UNCHANGED <<pic, rtc>> /\ AfterSave = IF f.irq = 8 THEN "body" ELSE "eoi1"
    BY <1>6 DEF savestate, At, Frame, AfterSave
  <2>2. /\ PicInv'
        /\ PendingFrames(stack')
             = PendingFrames(t) \cup {g \in {Frame(f.irq, AfterSave)} : Pending(g)}
    BY <1>1, <2>1, GotoPicInv DEF Pending
  <2>3. RtcInv'
    BY <1>1, <1>3, <1>5, <2>1, <2>2, RtcFrame DEF Frame
  <2> QED
    BY <2>2, <2>3 DEF IInv
<1>7. CASE RtcTest
  <2> DEFINE at == IF RTC_UPDATE_ENDED THEN "eoi2" ELSE "select"
  <2>1. f.irq = 8 /\ f.at = "body" /\ Goto(at) /\ UNCHANGED <<pic, rtc>>
    BY <1>7 DEF RtcTest, At, Frame
  <2>2. at \in {"eoi2", "select"}
    OBVIOUS
  <2>3. /\ PicInv'
        /\ PendingFrames(stack') = PendingFrames(t) \cup {g \in {Frame(8, at)} : Pending(g)}
    <3> HIDE DEF at
    <3> QED
      BY <1>1, <2>1, <2>2, GotoPicInv DEF Pending, Devices
  <2>4. RtcInv'
    BY <1>1, <1>2, <1>5, <2>1, <2>3 DEF RtcInv, CmosPairIntact, Frame, rtc, main
  <2> QED
    BY <2>3, <2>4 DEF IInv
<1>8. CASE RtcSelect
  <2>1. f.irq = 8 /\ f.at = "select" /\ Goto("read") /\ UNCHANGED pic
    BY <1>8 DEF RtcSelect, At, Frame
  <2>2. /\ PicInv'
        /\ PendingFrames(stack') = PendingFrames(t) \cup {g \in {Frame(8, "read")} : Pending(g)}
    BY <1>1, <2>1, GotoPicInv DEF Pending, Devices
  <2>3. f \in PendingFrames(stack)
    BY <1>2, <2>1 DEF Pending, Devices
  <2>4. ~RTC_SYNC_DONE /\ pc # "cmos_read"
    BY <1>1, <2>1, <2>3 DEF RtcInv
  <2>5. RtcInv'
    BY <1>1, <1>3, <1>5, <1>8, <2>2, <2>4
       DEF RtcInv, CmosPairIntact, RtcSelect, Frame, main
  <2> QED
    BY <2>2, <2>5 DEF IInv
<1>9. CASE RtcRead
  <2> DEFINE at == IF uf THEN "sync" ELSE "eoi2"
  <2>1. /\ f.irq = 8 /\ f.at = "read" /\ Goto(at) /\ UNCHANGED <<pic, RTC_SYNC_DONE, cmosIndex>>
        /\ RTC_UPDATE_ENDED' = uf
    BY <1>9 DEF RtcRead, At, Frame
  <2>2. at \in {"sync", "eoi2"}
    OBVIOUS
  <2>3. /\ PicInv'
        /\ PendingFrames(stack') = PendingFrames(t) \cup {g \in {Frame(8, at)} : Pending(g)}
    <3> HIDE DEF at
    <3> QED
      BY <1>1, <2>1, <2>2, GotoPicInv DEF Pending, Devices
  <2>4. Pending(f) /\ f \in PendingFrames(stack)
    BY <1>2, <2>1 DEF Pending, Devices
  <2>5. ~RTC_SYNC_DONE
    BY <1>1, <2>1, <2>4 DEF RtcInv
  <2>6. \A g \in PendingFrames(stack') : g.irq = 8 => g.at = at
    BY <1>4, <2>1, <2>3, <2>4 DEF Frame
  <2>7. RtcInv'
    BY <1>1, <1>5, <2>1, <2>5, <2>6 DEF RtcInv, CmosPairIntact, main
  <2> QED
    BY <2>3, <2>7 DEF IInv
<1>10. CASE sync_time_to_rtc
  <2>1. f.irq = 8 /\ f.at = "sync" /\ Goto("eoi2") /\ UNCHANGED <<pic, RTC_UPDATE_ENDED>>
    BY <1>10 DEF sync_time_to_rtc, At, Frame
  <2>2. /\ PicInv'
        /\ PendingFrames(stack') = PendingFrames(t) \cup {g \in {Frame(8, "eoi2")} : Pending(g)}
    BY <1>1, <2>1, GotoPicInv DEF Pending, Devices
  <2>3. Pending(f) /\ f \in PendingFrames(stack)
    BY <1>2, <2>1 DEF Pending, Devices
  <2>4. RTC_UPDATE_ENDED /\ pc \notin {"cmos_select", "cmos_read"}
    BY <1>1, <2>1, <2>3 DEF RtcInv
  <2>5. \A g \in PendingFrames(stack') : g.irq = 8 => g.at = "eoi2"
    BY <1>4, <2>1, <2>2, <2>3 DEF Frame
  <2>6. RtcInv'
    BY <1>1, <1>5, <2>1, <2>4, <2>5 DEF RtcInv, CmosPairIntact, main
  <2> QED
    BY <2>2, <2>6 DEF IInv
<1>11. CASE dummy_handler \/ iretq
  <2>1. ~Pending(f) /\ stack' = t /\ UNCHANGED <<pic, rtc>>
    BY <1>11, InterruptConstants
       DEF dummy_handler, iretq, At, Frame, Pending, Devices
  <2>2. PendingFrames(stack') = PendingFrames(stack)
    BY <1>2, <2>1
  <2>3. PicInv'
    BY <1>1, <1>2, <2>1, <2>2 DEF PicInv, pic
  <2>4. RtcInv'
    BY <1>1, <1>5, <2>1, <2>2, RtcFrame
  <2> QED
    BY <2>3, <2>4 DEF IInv
<1>12. CASE eoi
  <2> DEFINE at == IF f.at = "eoi2" THEN "eoi1" ELSE "restore"
             f2 == Frame(f.irq, at)
  <2>1. /\ f.irq \in Devices /\ f.at \in {"eoi1", "eoi2"} /\ Pending(f) /\ UNCHANGED rtc
        /\ f.at = "eoi2" => f.irq = 8 /\ EoiSecondary
        /\ f.at = "eoi1" => EoiMain
        /\ Goto(at)
    BY <1>12 DEF eoi, EoiSecondary, EoiMain, At, Frame, Pending, Devices
  <2>2. f2 \in Frames /\ f2.irq = f.irq /\ f2.at = at /\ stack' = <<f2>> \o t
    BY <1>2, <2>1 DEF Frames, Frame, Goto
  <2>3. /\ Pending(f2) <=> f.at = "eoi2"
        /\ at \in {"eoi1", "restore"}
    BY <2>1, <2>2 DEF Pending
  <2> HIDE DEF f2, at
  <2>4. /\ stack' \in Seq(Frames) /\ FallingPriority(stack')
        /\ PendingFrames(stack') = PendingFrames(t) \cup {g \in {f2} : Pending(g)}
    BY <1>2, <2>1, <2>2, PushFrame
  <2>5. \A g \in PendingFrames(stack') : g.irq # 8 => g.at \in {"enter", "eoi1"}
    BY <1>1, <1>3, <2>1, <2>2, <2>3, <2>4 DEF PicInv
  <2>6. /\ MainBits(PendingFrames(stack')) \subseteq isr1' /\ isr1' \subseteq 0..7
        /\ isr1' \cap {0, 1} \subseteq MainBits(PendingFrames(stack'))
    <3>1. CASE f.at = "eoi1"
      <4>1. isr1' = isr1 \ Lowest(isr1)
        BY <2>1, <3>1 DEF EoiMain
      <4>2. PendingFrames(stack') = PendingFrames(t)
        BY <2>3, <2>4, <3>1
      <4> QED
        BY <1>1, <2>1, <4>1, <4>2, EoiPicInv DEF PicInv
    <3>2. CASE f.at = "eoi2"
      <4>1. isr1' = isr1
        BY <2>1, <3>2 DEF EoiSecondary
      <4>2. MainBits(PendingFrames(stack')) = MainBits(PendingFrames(stack))
        BY <1>2, <2>1, <2>2, <2>3, <2>4, <3>2 DEF MainBits
      <4> QED
        BY <1>1, <4>1, <4>2 DEF PicInv
    <3> QED
      BY <2>1, <3>1, <3>2
  <2>7. isr2' = SecondaryBits(PendingFrames(stack'))
    <3>1. CASE f.at = "eoi1"
      <4>1. isr2' = isr2
        BY <2>1, <3>1 DEF EoiMain
      <4> QED
        BY <1>1, <1>2, <2>1, <2>3, <2>4, <3>1, <4>1 DEF PicInv, SecondaryBits
    <3>2. CASE f.at = "eoi2"
      <4>1. isr2 = {8}
        BY <1>1, <1>2, <1>4, <2>1, <3>2 DEF PicInv, SecondaryBits
      <4>2. Lowest(isr2) = {8}
        BY <4>1 DEF Lowest
      <4>3. isr2' = {}
        BY <2>1, <3>2, <4>1, <4>2 DEF EoiSecondary
      <4>4. \A g \in PendingFrames(stack') : ~(g.irq = 8 /\ g.at # "eoi1")
        BY <1>4, <2>1, <2>2, <2>3, <2>4, <3>2 DEF at
      <4> QED
        BY <4>3, <4>4 DEF SecondaryBits
    <3> QED
      BY <2>1, <3>1, <3>2
  <2>8. RtcInv'
    BY <1>1, <1>3, <1>5, <2>1, <2>2, <2>3, <2>4, RtcFrame
  <2> QED
    BY <2>4, <2>5, <2>6, <2>7, <2>8 DEF IInv, PicInv
<1>13. CASE restore_state
  <2>1. f.irq \in Devices /\ f.at = "restore" /\ Goto("iret") /\ UNCHANGED <<pic, rtc>>
    BY <1>13 DEF restore_state, At, Frame
  <2>2. /\ PicInv'
        /\ PendingFrames(stack')
             = PendingFrames(t) \cup {g \in {Frame(f.irq, "iret")} : Pending(g)}
    BY <1>1, <2>1, GotoPicInv DEF Pending
  <2>3. RtcInv'
    BY <1>1, <1>3, <1>5, <2>1, <2>2, RtcFrame DEF Frame
  <2> QED
    BY <2>2, <2>3 DEF IInv
<1> QED
  BY <1>6, <1>7, <1>8, <1>9, <1>10, <1>11, <1>12, <1>13 DEF Handler

\* Every step keeps the invariant.
LEMMA NextIInv == IInv /\ [Next]_vars => IInv'
<1> SUFFICES ASSUME IInv, [Next]_vars PROVE IInv'
  OBVIOUS
<1>0. PicInv /\ RtcInv
  BY DEF IInv
<1>1. CASE Handler
  BY <1>1, HandlerIInv
<1>2. CASE \E irq \in Devices : Deliver(irq)
  <2>1. PICK irq \in Devices : Deliver(irq)
    BY <1>2
  <2>2. /\ PicInv'
        /\ PendingFrames(stack') = PendingFrames(stack) \cup {Frame(irq, "enter")}
    BY <2>1, DeliverPicInv
  <2>3. RtcInv'
    BY <1>0, <2>1, <2>2, RtcFrame DEF Deliver, Frame
  <2> QED
    BY <2>2, <2>3 DEF IInv
<1>3. CASE \E irq \in Spurious : DeliverSpurious(irq)
  <2>0. PICK irq \in Spurious : DeliverSpurious(irq)
    BY <1>3
  <2> DEFINE f == Frame(irq, "body")
  <2>1. /\ stack' = <<f>> \o stack
        /\ UNCHANGED <<main, irr, isr2, rtc>>
        /\ isr1' = IF irq = 7 THEN isr1 ELSE isr1 \cup {2}
    BY <2>0 DEF DeliverSpurious
  <2>2. f \in Frames /\ ~Pending(f)
    BY InterruptConstants DEF Frame, Frames, Labels, Unacknowledged, Pending, Devices
  <2> HIDE DEF f
  <2>3. /\ stack' \in Seq(Frames) /\ FallingPriority(stack')
        /\ PendingFrames(stack') = PendingFrames(stack)
    <3>1. {g \in {f} : Pending(g)} = {}
      BY <2>2
    <3>2. stack \in Seq(Frames) /\ FallingPriority(stack)
      BY <1>0 DEF PicInv
    <3>3. /\ <<f>> \o stack \in Seq(Frames) /\ FallingPriority(<<f>> \o stack)
          /\ PendingFrames(<<f>> \o stack)
               = PendingFrames(stack) \cup {g \in {f} : Pending(g)}
      BY <2>2, <3>2, PushFrame
    <3> QED
      BY <2>1, <3>1, <3>3
  <2>4. RtcInv'
    BY <1>0, <2>1, <2>3, RtcFrame
  <2>5. PicInv'
    BY <1>0, <2>1, <2>2, <2>3 DEF PicInv
  <2> QED
    BY <2>4, <2>5 DEF IInv
<1>4. CASE kmain
  <2>1. UNCHANGED <<stack, isr1, isr2>>
    BY <1>4 DEF kmain, init_pic, setup_rtc_int, wait_for_rtc_sync, read_cmos_reg,
         CmosSelect, CmosRead, pic
  <2>2. PicInv'
    BY <1>0, <2>1 DEF PicInv
  <2>3. UNCHANGED <<RTC_UPDATE_ENDED, RTC_SYNC_DONE>>
    BY <1>4 DEF kmain, init_pic, setup_rtc_int, wait_for_rtc_sync, read_cmos_reg,
         CmosSelect, CmosRead, rtc
  <2>4. pc' \in {"cmos_select", "cmos_read"} => RTC_SYNC_DONE
    BY <1>0, <1>4 DEF kmain, init_pic, setup_rtc_int, wait_for_rtc_sync,
         read_cmos_reg, CmosSelect, CmosRead, Step, RtcInv
  <2>5. pc' = "wait_sync" => RTC_IRQ_INIT'
    BY <1>4 DEF kmain, init_pic, setup_rtc_int, wait_for_rtc_sync, read_cmos_reg,
         CmosSelect, CmosRead, Step
  <2>6. CmosPairIntact'
    BY <1>4 DEF kmain, init_pic, setup_rtc_int, wait_for_rtc_sync, read_cmos_reg,
         CmosSelect, CmosRead, Step, CmosPairIntact
  <2> QED
    BY <1>0, <2>1, <2>2, <2>3, <2>4, <2>5, <2>6 DEF IInv, RtcInv
<1>5. CASE \/ \E irq \in Devices : DeviceRaises(irq)
           \/ RtcRaises \/ RtcUpdateEnds \/ UNCHANGED vars
  <2>1. UNCHANGED <<main, stack, isr1, isr2, RTC_UPDATE_ENDED, RTC_SYNC_DONE, cmosIndex>>
    BY <1>5 DEF DeviceRaises, RtcRaises, RtcUpdateEnds, vars, main, pic, rtc
  <2> QED
    BY <1>0, <2>1 DEF IInv, PicInv, RtcInv, CmosPairIntact, main
<1> QED
  BY <1>1, <1>2, <1>3, <1>4, <1>5 DEF Next

\* The invariant holds in every reachable state.
THEOREM Invariance == Spec => []IInv
  BY InitIInv, NextIInv, PTL DEF Spec

\* A handler that sends its EOI has its bit in service and takes no other handler's
\* (pic.rs:37-56), at any nesting depth and whatever spurious interrupts come.
THEOREM EoiClearsOwn == Spec => []OwnEoi
<1>1. IInv => OwnEoi
  <2> SUFFICES ASSUME IInv, NEW irq \in Devices
               PROVE  /\ At(irq, "eoi1") =>
                           /\ Line(irq) \in isr1 /\ (irq < 2 => Lowest(isr1) = {irq})
                           /\ \A i \in 2..Len(stack) :
                                  Unserved(i) => Line(stack[i].irq) \notin Lowest(isr1)
                      /\ At(irq, "eoi2") => Lowest(isr2) = {irq}
    BY DEF OwnEoi
  <2>1. At(irq, "eoi1") \/ At(irq, "eoi2") =>
          stack # <<>> /\ Head(stack).irq = irq /\ Pending(Head(stack))
    BY DEF At, Frame, Pending, Unacknowledged
  <2>2. ASSUME At(irq, "eoi1")
        PROVE  /\ Line(irq) \in isr1 /\ (irq < 2 => Lowest(isr1) = {irq})
               /\ \A i \in 2..Len(stack) :
                      Unserved(i) => Line(stack[i].irq) \notin Lowest(isr1)
    <3>1. /\ Line(irq) \in isr1 /\ (Line(irq) < 2 => Lowest(isr1) = {Line(irq)})
          /\ MainBits(PendingFrames(Tail(stack))) \subseteq isr1 \ Lowest(isr1)
      BY <2>1, <2>2, EoiPicInv DEF IInv
    <3>2. irq < 2 => Line(irq) = irq
      BY DEF Line, Devices
    <3>3. ASSUME NEW i \in 2..Len(stack), Unserved(i)
          PROVE  Line(stack[i].irq) \notin Lowest(isr1)
      <4>1. stack \in Seq(Frames) /\ stack # <<>>
        BY <2>1, <2>2 DEF IInv, PicInv
      <4>2. /\ Len(Tail(stack)) = Len(stack) - 1 /\ Len(stack) \in Nat
            /\ \A j \in 1..Len(Tail(stack)) : Tail(stack)[j] = stack[j + 1]
            /\ DOMAIN Tail(stack) = 1..Len(Tail(stack))
        BY <4>1, HeadTailProperties, LenProperties
      <4>3. i - 1 \in DOMAIN Tail(stack) /\ Tail(stack)[i - 1] = stack[i]
        BY <4>2
      <4>4. stack[i] \in PendingFrames(Tail(stack))
        BY <3>3, <4>3 DEF PendingFrames, Pending, Unserved
      <4> QED
        BY <3>1, <4>4 DEF MainBits
    <3> QED
      BY <3>1, <3>2, <3>3
  <2>3. ASSUME At(irq, "eoi2") PROVE Lowest(isr2) = {irq}
    <3>1. Head(stack) \in PendingFrames(stack) /\ Head(stack).at = "eoi2"
      BY <2>1, <2>3, TopPending DEF IInv, At, Frame
    <3>2. irq = 8
      BY <2>1, <2>3, <3>1 DEF IInv, PicInv
    <3>3. isr2 = {8}
      BY <2>1, <2>3, <3>1, <3>2 DEF IInv, PicInv, SecondaryBits
    <3> QED
      BY <3>2, <3>3 DEF Lowest
  <2> QED
    BY <2>2, <2>3
<1> QED
  BY Invariance, <1>1, PTL

\* No handler is entered again before it has sent its EOI, although trap gates
\* leave interrupts on (idt.rs:196-211), whatever spurious interrupts come.
THEOREM HandlersNotReentrant == Spec => []NotReentrant
<1>1. IInv => NotReentrant
  <2> SUFFICES ASSUME IInv, NEW i \in DOMAIN stack, NEW j \in DOMAIN stack,
                      stack[i].irq = stack[j].irq, Pending(stack[i]), Pending(stack[j])
               PROVE  i = j
    BY DEF NotReentrant, Unserved, Pending
  <2>1. Line(stack[i].irq) \in Int
    BY DEF Pending, Line, Devices
  <2>2. ~(i < j) /\ ~(j < i)
    BY <2>1 DEF IInv, PicInv, FallingPriority
  <2>3. i \in Nat /\ j \in Nat
    BY LenProperties DEF IInv, PicInv
  <2> QED
    BY <2>2, <2>3
<1> QED
  BY Invariance, <1>1, PTL

\* Whatever spurious interrupts come, the in-service bits of the timer, of the
\* keyboard and of the secondary PIC are those of handlers that are still to
\* acknowledge (idt.rs:226-229, pic.rs:37-56): when none runs they are clear.
THEOREM TimerAndKeyboardHeard == Spec => []NeverDeaf
<1>1. IInv => NeverDeaf
  <2> SUFFICES ASSUME IInv PROVE NeverDeaf
    OBVIOUS
  <2>1. ASSUME NEW irq \in isr1 \cap {0, 1}
        PROVE  \E i \in DOMAIN stack : Unserved(i) /\ stack[i].irq = irq
    <3>1. PICK f \in PendingFrames(stack) : Line(f.irq) = irq
      BY DEF IInv, PicInv, MainBits
    <3>2. PICK i \in DOMAIN stack : stack[i] = f /\ Pending(stack[i])
      BY DEF PendingFrames
    <3>3. f.irq = irq
      BY <3>1, <3>2 DEF Line, Pending, Devices
    <3> QED
      BY <3>2, <3>3 DEF Pending, Unserved
  <2>2. ASSUME NEW irq \in isr2
        PROVE  \E i \in DOMAIN stack :
                  Unserved(i) /\ stack[i].irq = irq /\ stack[i].at # "eoi1"
    <3>1. PICK f \in PendingFrames(stack) : f.irq = irq /\ f.at # "eoi1"
      BY DEF IInv, PicInv, SecondaryBits
    <3>2. PICK i \in DOMAIN stack : stack[i] = f /\ Pending(stack[i])
      BY DEF PendingFrames
    <3> QED
      BY <3>1, <3>2 DEF Pending, Unserved
  <2> QED
    BY <2>1, <2>2 DEF NeverDeaf
<1> QED
  BY Invariance, <1>1, PTL

\* The RTC handler never comes between the two halves of a read of the CMOS in
\* floppy::init (time.rs:198-203), whatever spurious interrupts come.
THEOREM CmosPairKept == Spec => []CmosPairIntact
<1>1. IInv => CmosPairIntact
  BY DEF IInv, RtcInv
<1> QED
  BY Invariance, <1>1, PTL

----------------------------------------------------------------------------
(* The handler count. *)

Counted(f) == f.irq \in Devices /\ f.at \notin {"enter", "iret"}

CountedAt(s) == {i \in DOMAIN s : Counted(s[i])}

CountInv == stack \in Seq(Frames) /\ INTERRUPT_DEPTH = Cardinality(CountedAt(stack))

\* One more frame counts for itself.
LEMMA PushCount ==
    ASSUME NEW s \in Seq(Frames), NEW f \in Frames
    PROVE  /\ Cardinality(CountedAt(s)) \in Nat
           /\ Cardinality(CountedAt(<<f>> \o s)) =
                IF Counted(f) THEN Cardinality(CountedAt(s)) + 1
                              ELSE Cardinality(CountedAt(s))
<1> DEFINE t == <<f>> \o s
           moved == CountedAt(t) \ {1}
           up == [i \in CountedAt(s) |-> i + 1]
<1>1. <<f>> \in Seq(Frames) /\ Len(<<f>>) = 1 /\ <<f>>[1] = f
  OBVIOUS
<1>2. /\ t \in Seq(Frames) /\ Len(t) = Len(s) + 1
      /\ \A i \in 1..(Len(s) + 1) : t[i] = IF i <= 1 THEN f ELSE s[i - 1]
  BY <1>1, ConcatProperties
<1>3. DOMAIN t = 1..(Len(s) + 1) /\ DOMAIN s = 1..Len(s) /\ Len(s) \in Nat
  BY <1>2, LenProperties
<1> HIDE DEF t
<1>4. 1 \in DOMAIN t /\ t[1] = f
  BY <1>2, <1>3
<1>5. \A i \in DOMAIN s : i + 1 \in DOMAIN t /\ i + 1 # 1 /\ t[i + 1] = s[i]
  BY <1>2, <1>3
<1>6. \A i \in DOMAIN t : i # 1 => i - 1 \in DOMAIN s /\ t[i] = s[i - 1] /\ (i - 1) + 1 = i
  BY <1>2, <1>3
<1>7. IsFiniteSet(CountedAt(s)) /\ IsFiniteSet(CountedAt(t))
  <2>1. IsFiniteSet(DOMAIN s) /\ IsFiniteSet(DOMAIN t)
    BY <1>3, FS_Interval
  <2> QED
    BY <2>1, FS_Subset DEF CountedAt
<1>8. up \in Bijection(CountedAt(s), moved)
  <2>1. up \in [CountedAt(s) -> moved]
    BY <1>5 DEF CountedAt
  <2>2. \A i, j \in CountedAt(s) : up[i] = up[j] => i = j
    BY <1>3 DEF CountedAt
  <2>3. \A j \in moved : \E i \in CountedAt(s) : up[i] = j
    <3> SUFFICES ASSUME NEW j \in moved PROVE \E i \in CountedAt(s) : up[i] = j
      OBVIOUS
    <3>1. j - 1 \in CountedAt(s) /\ (j - 1) + 1 = j
      BY <1>6 DEF CountedAt
    <3> QED
      BY <3>1
  <2> HIDE DEF up, moved
  <2> QED
    BY <2>1, <2>2, <2>3 DEF Bijection, Injection, IsInjective, Surjection
<1>9. Cardinality(moved) = Cardinality(CountedAt(s))
  BY <1>7, <1>8, FS_Bijection DEF ExistsBijection
<1>10. Cardinality(CountedAt(s)) \in Nat /\ Cardinality(CountedAt(t)) \in Nat
  BY <1>7, FS_CardinalityType
<1>11. 1 \in CountedAt(t) <=> Counted(f)
  BY <1>4 DEF CountedAt
<1>12. Cardinality(moved) = IF Counted(f) THEN Cardinality(CountedAt(t)) - 1
                                          ELSE Cardinality(CountedAt(t))
  BY <1>7, <1>11, FS_RemoveElement
<1> QED
  BY <1>9, <1>10, <1>12 DEF t

\* savestate! and restore_state! keep INTERRUPT_DEPTH in step with the stack.
LEMMA CountInvariance == Spec => []CountInv
<1>1. Init => CountInv
  <2> SUFFICES ASSUME Init PROVE CountInv
    OBVIOUS
  <2>1. CountedAt(stack) = {} /\ stack \in Seq(Frames)
    BY DEF Init, CountedAt
  <2> QED
    BY <2>1, FS_EmptySet DEF Init, CountInv
<1>2. CountInv /\ [Next]_vars => CountInv'
  <2> SUFFICES ASSUME CountInv, [Next]_vars PROVE CountInv'
    OBVIOUS
  <2> USE DEF CountInv
  <2>1. CASE \/ \E irq \in Devices : Deliver(irq)
             \/ \E irq \in Spurious : DeliverSpurious(irq)
    <3>1. PICK f \in Frames : ~Counted(f) /\ stack' = <<f>> \o stack
                                /\ UNCHANGED INTERRUPT_DEPTH
      <4>1. CASE \E irq \in Devices : Deliver(irq)
        <5>1. PICK irq \in Devices : Deliver(irq)
          BY <4>1
        <5> QED
          BY <5>1 DEF Deliver, Frame, Frames, Labels, Unacknowledged, Counted
      <4>2. CASE \E irq \in Spurious : DeliverSpurious(irq)
        <5>1. PICK irq \in Spurious : DeliverSpurious(irq)
          BY <4>2
        <5>2. Frame(irq, "body") \in Frames /\ ~Counted(Frame(irq, "body"))
          BY InterruptConstants DEF Frame, Frames, Labels, Unacknowledged, Counted, Devices
        <5> QED
          BY <5>1, <5>2 DEF DeliverSpurious
      <4> QED
        BY <2>1, <4>1, <4>2
    <3> QED
      BY <3>1, PushCount, PushFrame
  <2>2. CASE Handler
    <3> DEFINE f == Head(stack)
               t == Tail(stack)
    <3>1. stack # <<>>
      BY <2>2 DEF Handler, savestate, RtcTest, RtcSelect, RtcRead, sync_time_to_rtc,
           dummy_handler, eoi, EoiSecondary, EoiMain, restore_state, iretq, At
    <3>2. f \in Frames /\ t \in Seq(Frames) /\ stack = <<f>> \o t
      BY <3>1, TopFrame
    <3>3. /\ Cardinality(CountedAt(t)) \in Nat
          /\ INTERRUPT_DEPTH = IF Counted(f) THEN Cardinality(CountedAt(t)) + 1
                                             ELSE Cardinality(CountedAt(t))
      BY <3>2, PushCount
    <3>4. CASE dummy_handler \/ iretq
      <4>1. ~Counted(f) /\ stack' = t /\ UNCHANGED INTERRUPT_DEPTH
        BY <3>4, InterruptConstants DEF dummy_handler, iretq, At, Frame, Counted, Devices
      <4> QED
        BY <3>2, <3>3, <4>1
    <3>5. CASE ~(dummy_handler \/ iretq)
      <4>1. PICK at \in Labels :
              /\ Goto(at) /\ f.irq \in Devices
              /\ INTERRUPT_DEPTH' = IF savestate THEN INTERRUPT_DEPTH + 1
                                    ELSE IF restore_state THEN INTERRUPT_DEPTH - 1
                                    ELSE INTERRUPT_DEPTH
              /\ Counted(f) <=> ~savestate
              /\ Counted(Frame(f.irq, at)) <=> ~restore_state
        BY <2>2, <3>5 DEF Handler, savestate, AfterSave, RtcTest, RtcSelect, RtcRead,
             sync_time_to_rtc, eoi, EoiSecondary, EoiMain, restore_state, At, Frame,
             Counted, Labels, Unacknowledged, Devices
      <4>2. Frame(f.irq, at) \in Frames /\ stack' = <<Frame(f.irq, at)>> \o t
        BY <4>1 DEF Goto, Frames, Frame
      <4>3. /\ stack' \in Seq(Frames)
            /\ Cardinality(CountedAt(stack')) =
                 IF ~restore_state THEN Cardinality(CountedAt(t)) + 1
                                   ELSE Cardinality(CountedAt(t))
        BY <3>2, <4>1, <4>2, PushCount, PushFrame
      <4>4. ~(savestate /\ restore_state)
        BY DEF savestate, restore_state, At, Frame
      <4> QED
        BY <3>3, <4>1, <4>3, <4>4
    <3> QED
      BY <3>4, <3>5
  <2>3. CASE kmain
    <3>1. UNCHANGED <<stack, INTERRUPT_DEPTH>>
      BY <2>3 DEF kmain, init_pic, setup_rtc_int, wait_for_rtc_sync, read_cmos_reg,
           CmosSelect, CmosRead
    <3> QED
      BY <3>1
  <2>4. CASE \/ \E irq \in Devices : DeviceRaises(irq)
             \/ RtcRaises \/ RtcUpdateEnds \/ UNCHANGED vars
    <3>1. UNCHANGED <<stack, INTERRUPT_DEPTH>>
      BY <2>4 DEF DeviceRaises, RtcRaises, RtcUpdateEnds, vars
    <3> QED
      BY <3>1
  <2> QED
    BY <2>1, <2>2, <2>3, <2>4 DEF Next
<1> QED
  BY <1>1, <1>2, PTL DEF Spec

\* INTERRUPT_DEPTH is the number of handlers between savestate! and restore_state!,
\* so ContAccess sees zero exactly when the main thread runs (idt.rs:37-70,
\* cont_access.rs:81); no assumption on spurious interrupts is needed.
THEOREM DepthCounts == Spec => []DepthInStep
<1>1. CountInv => DepthInStep
  BY DEF CountInv, DepthInStep, CountedAt, Counted
<1> QED
  BY CountInvariance, <1>1, PTL

----------------------------------------------------------------------------
(* Types. *)

Flags ==
    /\ intFlag \in BOOLEAN /\ RTC_IRQ_INIT \in BOOLEAN
    /\ RTC_UPDATE_ENDED \in BOOLEAN /\ RTC_SYNC_DONE \in BOOLEAN
    /\ irqf \in BOOLEAN /\ uf \in BOOLEAN

Registers ==
    /\ irr \subseteq Devices /\ isr1 \subseteq 0..7 /\ isr2 \subseteq 8..15
    /\ cmosIndex \in {"none", "B", "C", "floppy"} /\ pc \in Pc

\* Every variable keeps its type, whatever spurious interrupts come: in
\* particular the handler count never drops below zero (idt.rs:37-70).
THEOREM TypeCorrect == Spec => []TypeOK
<1>1. Init => Flags
  BY Zenon DEF Init, Flags
<1>2. Init => Registers
  BY DEF Init, Registers, Pc
<1>3. Flags /\ [Next]_vars => Flags'
  <2> SUFFICES ASSUME Flags, [Next]_vars PROVE Flags'
    OBVIOUS
  <2> USE DEF Flags
  <2>1. CASE kmain
    BY <2>1, Zenon DEF kmain, init_pic, setup_rtc_int, wait_for_rtc_sync, read_cmos_reg,
         CmosSelect, CmosRead, rtc
  <2>2. CASE Handler
    BY <2>2, Zenon DEF Handler, savestate, RtcTest, RtcSelect, RtcRead,
         sync_time_to_rtc, dummy_handler, eoi, EoiSecondary, EoiMain, restore_state,
         iretq, main, rtc
  <2>3. CASE RtcRaises \/ RtcUpdateEnds \/ UNCHANGED vars
    BY <2>3, Zenon DEF RtcRaises, RtcUpdateEnds, vars, main
  <2>4. CASE \/ \E irq \in Devices : DeviceRaises(irq) \/ Deliver(irq)
             \/ \E irq \in Spurious : DeliverSpurious(irq)
    BY <2>4, Zenon DEF DeviceRaises, Deliver, DeliverSpurious, main, rtc
  <2> QED
    BY <2>1, <2>2, <2>3, <2>4 DEF Next
<1>4. Registers /\ [Next]_vars => Registers'
  <2> SUFFICES ASSUME Registers, [Next]_vars PROVE Registers'
    OBVIOUS
  <2> USE DEF Registers
  <2>1. CASE kmain
    BY <2>1 DEF kmain, init_pic, setup_rtc_int, wait_for_rtc_sync, read_cmos_reg,
         CmosSelect, CmosRead, Step, pic, rtc, Pc
  <2>2. CASE Handler
    BY <2>2 DEF Handler, savestate, RtcTest, RtcSelect, RtcRead,
         sync_time_to_rtc, dummy_handler, eoi, EoiSecondary, EoiMain, restore_state,
         iretq, main, pic, rtc, Lowest
  <2>3. CASE RtcRaises \/ RtcUpdateEnds \/ UNCHANGED vars
    BY <2>3 DEF RtcRaises, RtcUpdateEnds, vars, main, pic, Devices
  <2>4. ASSUME NEW irq \in Devices, DeviceRaises(irq) \/ Deliver(irq)
        PROVE  Registers'
    <3>1. Line(irq) \in 0..7 /\ (irq < 8 \/ irq \in 8..15) /\ {irq} \subseteq Devices
      BY DEF Line, Devices
    <3>2. CASE DeviceRaises(irq)
      BY <3>1, <3>2 DEF DeviceRaises, main, rtc
    <3>3. CASE Deliver(irq)
      BY <3>1, <3>3 DEF Deliver, main, rtc
    <3> QED
      BY <2>4, <3>2, <3>3
  <2>5. ASSUME NEW irq \in Spurious, DeliverSpurious(irq)
        PROVE  Registers'
    BY <2>5 DEF DeliverSpurious, main, rtc
  <2> QED
    BY <2>1, <2>2, <2>3, <2>4, <2>5 DEF Next
<1>5. CountInv => INTERRUPT_DEPTH \in Nat
  <2> SUFFICES ASSUME CountInv PROVE INTERRUPT_DEPTH \in Nat
    OBVIOUS
  <2>1. Frame(0, "enter") \in Frames
    BY DEF Frame, Frames, Devices, Labels, Unacknowledged
  <2> QED
    BY <2>1, PushCount DEF CountInv
<1>6. Flags /\ Registers /\ CountInv => TypeOK
  BY <1>5, Zenon DEF Flags, Registers, CountInv, TypeOK, Frames
<1> QED
  BY CountInvariance, <1>1, <1>2, <1>3, <1>4, <1>6, PTL DEF Spec

=============================================================================
