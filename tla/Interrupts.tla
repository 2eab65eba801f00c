---------------------------- MODULE Interrupts ----------------------------
(***************************************************************************)
(* Interrupt delivery during startup: the handlers of                      *)
(* kernel/src/interrupts/idt.rs, eoi and init of pic.rs, the RTC sync of   *)
(* time.rs and the order in which kmain starts them.                       *)
(*                                                                         *)
(* Every gate is a trap gate, so handlers run with interrupts enabled and  *)
(* nest: only the innermost runs. What keeps a handler from interrupting   *)
(* itself is the in-service bit of the PIC, which the handler's EOI        *)
(* clears. The EOI is the non-specific one: it clears whichever bit has    *)
(* the highest priority.                                                   *)
(***************************************************************************)
EXTENDS Naturals, Sequences, FiniteSets

CONSTANTS
    Spurious,  \* spurious IRQs the PICs may raise: a subset of {7, 15}
    MaxDepth   \* bound on nested handlers; the stack has no check

ASSUME InterruptConstants == Spurious \subseteq {7, 15} /\ MaxDepth \in Nat

Devices == {0, 1, 6, 8}  \* PIT, keyboard, floppy controller, RTC

VARIABLES
    intFlag,           \* the CPU's interrupt flag
    irr, isr1, isr2,   \* requests; in-service bits of the main, secondary PIC
    stack,             \* running handlers, innermost first
    INTERRUPT_DEPTH,   \* int_handler_count
    RTC_IRQ_INIT, RTC_UPDATE_ENDED, RTC_SYNC_DONE,
    cmosIndex,         \* the CMOS register last selected
    irqf, uf,          \* register C: IRQ 8 is asserted; an update has ended
    pc                 \* the main thread, inside kmain

pic  == <<irr, isr1, isr2>>
rtc  == <<RTC_UPDATE_ENDED, RTC_SYNC_DONE, cmosIndex, irqf, uf>>
main == <<intFlag, RTC_IRQ_INIT, pc>>
vars == <<intFlag, irr, isr1, isr2, stack, INTERRUPT_DEPTH, RTC_IRQ_INIT,
          RTC_UPDATE_ENDED, RTC_SYNC_DONE, cmosIndex, irqf, uf, pc>>

Frame(irq, at) == [irq |-> irq, at |-> at]

\* Labels of a handler that has not acknowledged its interrupt yet.
Unacknowledged == {"enter", "body", "select", "read", "sync", "eoi2", "eoi1"}
Labels == Unacknowledged \cup {"restore", "iret"}
Pc == {"init_pic", "setup_rtc", "wait_sync", "cmos_select", "cmos_read",
       "running"}

Init ==
    /\ intFlag = FALSE /\ irr = {} /\ isr1 = {} /\ isr2 = {}
    /\ stack = <<>> /\ INTERRUPT_DEPTH = 0
    /\ RTC_IRQ_INIT = FALSE
    /\ RTC_UPDATE_ENDED = FALSE /\ RTC_SYNC_DONE = FALSE
    /\ cmosIndex = "none" /\ irqf = FALSE /\ uf = FALSE
    /\ pc = "init_pic"

----------------------------------------------------------------------------
(* The devices and the two PICs. *)

\* Where the main PIC sees an IRQ: the secondary is cascaded through line 2.
Line(irq) == IF irq < 8 THEN irq ELSE 2

Unblocked(irq) ==
    /\ \A i \in isr1 : Line(irq) < i
    /\ irq >= 8 => \A i \in isr2 : irq < i

Lowest(S) == {i \in S : \A j \in S : i <= j}

DeviceRaises(irq) ==
    /\ pc # "init_pic" /\ irq \in {0, 1, 6} \ irr
    /\ irr' = irr \cup {irq}
    /\ UNCHANGED <<main, isr1, isr2, stack, INTERRUPT_DEPTH, rtc>>

\* A periodic RTC interrupt is an edge: none comes while register C is unread.
RtcRaises ==
    /\ RTC_IRQ_INIT /\ ~irqf
    /\ irqf' = TRUE /\ irr' = irr \cup {8}
    /\ UNCHANGED <<main, isr1, isr2, stack, INTERRUPT_DEPTH, RTC_UPDATE_ENDED,
                   RTC_SYNC_DONE, cmosIndex, uf>>

RtcUpdateEnds ==
    /\ ~uf /\ uf' = TRUE
    /\ UNCHANGED <<main, pic, stack, INTERRUPT_DEPTH, RTC_UPDATE_ENDED,
                   RTC_SYNC_DONE, cmosIndex, irqf>>

Accepting == intFlag /\ Len(stack) < MaxDepth

\* The PICs deliver the unblocked request of the highest priority.
Deliver(irq) ==
    /\ Accepting /\ irq \in irr /\ Unblocked(irq)
    /\ \A i \in irr : Unblocked(i) => Line(irq) <= Line(i)
    /\ irr' = irr \ {irq}
    /\ isr1' = isr1 \cup {Line(irq)}
    /\ isr2' = IF irq < 8 THEN isr2 ELSE isr2 \cup {irq}
    /\ stack' = <<Frame(irq, "enter")>> \o stack
    /\ UNCHANGED <<main, INTERRUPT_DEPTH, rtc>>

\* A request that went away: the PIC that raised it sets no in-service bit, but
\* the main PIC has seen a real request from the secondary.
DeliverSpurious(irq) ==
    /\ Accepting /\ irq \in Spurious
    /\ irq = 7 => 0 \notin isr1
    /\ irq = 15 => Unblocked(15)
    /\ isr1' = IF irq = 7 THEN isr1 ELSE isr1 \cup {2}
    /\ stack' = <<Frame(irq, "body")>> \o stack
    /\ UNCHANGED <<main, irr, isr2, INTERRUPT_DEPTH, rtc>>

----------------------------------------------------------------------------
(* The handlers. *)

At(irq, at) == stack # <<>> /\ Head(stack) = Frame(irq, at)
Goto(at)    == stack' = <<Frame(Head(stack).irq, at)>> \o Tail(stack)

\* timer_handler, kbd_wrapper and floppy_handler go on to eoi: what they call
\* before it belongs to other modules. rtc_handler has a body here.
AfterSave == IF Head(stack).irq = 8 THEN "body" ELSE "eoi1"

\* Mutant: the interrupt is acknowledged on entry.
savestate_acknowledges ==
    /\ \E irq \in Devices : At(irq, "enter")
    /\ INTERRUPT_DEPTH' = INTERRUPT_DEPTH + 1
    /\ isr1' = isr1 \ Lowest(isr1)
    /\ Goto(AfterSave)
    /\ UNCHANGED <<main, irr, isr2, rtc>>

savestate ==
    /\ \E irq \in Devices : At(irq, "enter")
    /\ INTERRUPT_DEPTH' = INTERRUPT_DEPTH + 1
    /\ Goto(AfterSave)
    /\ UNCHANGED <<main, pic, rtc>>

\* rtc_handler: nothing to do once an update has been seen.
RtcTest ==
    /\ At(8, "body")
    /\ Goto(IF RTC_UPDATE_ENDED THEN "eoi2" ELSE "select")
    /\ UNCHANGED <<main, pic, INTERRUPT_DEPTH, rtc>>

RtcSelect ==
    /\ At(8, "select") /\ Goto("read")
    /\ cmosIndex' = "C"
    /\ UNCHANGED <<main, pic, INTERRUPT_DEPTH, RTC_UPDATE_ENDED, RTC_SYNC_DONE,
                   irqf, uf>>

\* Mutant: register C is left unread.
RtcReadSkipped ==
    /\ At(8, "read") /\ Goto("eoi2")
    /\ UNCHANGED <<main, pic, INTERRUPT_DEPTH, rtc>>

\* Reading register C clears its flags.
RtcRead ==
    /\ At(8, "read")
    /\ irqf' = FALSE /\ uf' = FALSE
    /\ RTC_UPDATE_ENDED' = uf
    /\ Goto(IF uf THEN "sync" ELSE "eoi2")
    /\ UNCHANGED <<main, pic, INTERRUPT_DEPTH, RTC_SYNC_DONE, cmosIndex>>

\* sync_time_to_rtc reads the clock and, last, register B; handlers that nest
\* inside it do not touch the CMOS.
sync_time_to_rtc ==
    /\ At(8, "sync") /\ Goto("eoi2")
    /\ cmosIndex' = "B" /\ RTC_SYNC_DONE' = TRUE
    /\ UNCHANGED <<main, pic, INTERRUPT_DEPTH, RTC_UPDATE_ENDED, irqf, uf>>

\* Mutant: the spurious handlers acknowledge.
dummy_handler_eoi ==
    /\ \E irq \in Spurious : At(irq, "body")
    /\ isr1' = isr1 \ Lowest(isr1)
    /\ stack' = Tail(stack)
    /\ UNCHANGED <<main, irr, isr2, INTERRUPT_DEPTH, rtc>>

dummy_handler ==
    /\ \E irq \in Spurious : At(irq, "body")
    /\ stack' = Tail(stack)
    /\ UNCHANGED <<main, pic, INTERRUPT_DEPTH, rtc>>

\* Mutant: the first IRQ of the secondary PIC counts as one of the main's.
EoiSecondaryMissed ==
    /\ At(8, "eoi2") /\ Goto("eoi1")
    /\ UNCHANGED <<main, pic, INTERRUPT_DEPTH, rtc>>

\* eoi: to the secondary PIC for its own IRQs, then to the main one.
EoiSecondary ==
    /\ At(8, "eoi2") /\ Goto("eoi1")
    /\ isr2' = isr2 \ Lowest(isr2)
    /\ UNCHANGED <<main, irr, isr1, INTERRUPT_DEPTH, rtc>>

EoiMain ==
    /\ \E irq \in Devices : At(irq, "eoi1")
    /\ Goto("restore")
    /\ isr1' = isr1 \ Lowest(isr1)
    /\ UNCHANGED <<main, irr, isr2, INTERRUPT_DEPTH, rtc>>

eoi == EoiSecondary \/ EoiMain

restore_state ==
    /\ \E irq \in Devices : At(irq, "restore")
    /\ INTERRUPT_DEPTH' = INTERRUPT_DEPTH - 1
    /\ Goto("iret")
    /\ UNCHANGED <<main, pic, rtc>>

iretq ==
    /\ \E irq \in Devices : At(irq, "iret")
    /\ stack' = Tail(stack)
    /\ UNCHANGED <<main, pic, INTERRUPT_DEPTH, rtc>>

Handler ==
    \/ savestate \/ RtcTest \/ RtcSelect \/ RtcRead
    \/ sync_time_to_rtc \/ dummy_handler \/ eoi \/ restore_state \/ iretq

----------------------------------------------------------------------------
(* The main thread: the startup tasks of kmain that matter here. It runs when *)
(* no handler does.                                                           *)

Step(from, to) == stack = <<>> /\ pc = from /\ pc' = to

init_pic ==
    /\ Step("init_pic", "setup_rtc")
    /\ UNCHANGED <<intFlag, RTC_IRQ_INIT, pic, stack, INTERRUPT_DEPTH, rtc>>

\* setup_rtc_int selects and rewrites register B between cli and sti. The tasks
\* up to wait_for_rtc_sync run with interrupts on and leave this state alone.
setup_rtc_int ==
    /\ Step("setup_rtc", "wait_sync")
    /\ RTC_IRQ_INIT' = TRUE /\ intFlag' = TRUE /\ cmosIndex' = "B"
    /\ UNCHANGED <<pic, stack, INTERRUPT_DEPTH, RTC_UPDATE_ENDED, RTC_SYNC_DONE,
                   irqf, uf>>

\* Mutant: the task only checks that the IRQ is set up.
wait_for_rtc_sync_check ==
    /\ Step("wait_sync", "cmos_select") /\ RTC_IRQ_INIT
    /\ UNCHANGED <<intFlag, RTC_IRQ_INIT, pic, stack, INTERRUPT_DEPTH, rtc>>

wait_for_rtc_sync ==
    /\ Step("wait_sync", "cmos_select")
    /\ RTC_IRQ_INIT => RTC_SYNC_DONE
    /\ UNCHANGED <<intFlag, RTC_IRQ_INIT, pic, stack, INTERRUPT_DEPTH, rtc>>

\* floppy::init reads the drive types: read_cmos_reg selects, then reads.
CmosSelect ==
    /\ Step("cmos_select", "cmos_read")
    /\ cmosIndex' = "floppy"
    /\ UNCHANGED <<intFlag, RTC_IRQ_INIT, pic, stack, INTERRUPT_DEPTH,
                   RTC_UPDATE_ENDED, RTC_SYNC_DONE, irqf, uf>>

CmosRead ==
    /\ Step("cmos_read", "running")
    /\ UNCHANGED <<intFlag, RTC_IRQ_INIT, pic, stack, INTERRUPT_DEPTH, rtc>>

read_cmos_reg == CmosSelect \/ CmosRead

kmain == init_pic \/ setup_rtc_int \/ wait_for_rtc_sync \/ read_cmos_reg

----------------------------------------------------------------------------

Next ==
    \/ kmain \/ Handler
    \/ RtcRaises \/ RtcUpdateEnds
    \/ \E irq \in Devices : DeviceRaises(irq) \/ Deliver(irq)
    \/ \E irq \in Spurious : DeliverSpurious(irq)

Spec == Init /\ [][Next]_vars

\* Handlers run on, and so does the main thread if it gets the CPU again and
\* again; the clock ticks; a request that is deliverable again and again is
\* delivered.
FairSpec ==
    /\ Spec
    /\ SF_vars(kmain) /\ WF_vars(Handler)
    /\ WF_vars(RtcRaises) /\ WF_vars(RtcUpdateEnds) /\ SF_vars(Deliver(8))

----------------------------------------------------------------------------
(* Properties. *)

\* Every variable keeps its type; the handler count never drops below zero.
TypeOK ==
    /\ intFlag \in BOOLEAN /\ RTC_IRQ_INIT \in BOOLEAN
    /\ RTC_UPDATE_ENDED \in BOOLEAN /\ RTC_SYNC_DONE \in BOOLEAN
    /\ irqf \in BOOLEAN /\ uf \in BOOLEAN
    /\ irr \subseteq Devices /\ isr1 \subseteq 0..7 /\ isr2 \subseteq 8..15
    /\ stack \in Seq([irq : Devices \cup Spurious, at : Labels])
    /\ INTERRUPT_DEPTH \in Nat
    /\ cmosIndex \in {"none", "B", "C", "floppy"} /\ pc \in Pc

\* A running handler that has not acknowledged its interrupt yet.
Unserved(i) == stack[i].irq \in Devices /\ stack[i].at \in Unacknowledged

\* A handler that sends its non-specific EOI still has its in-service bit, and the
\* EOI takes no bit away from a handler below it, however handlers and spurious
\* interrupts have nested before it (idt.rs:310, pic.rs:50). The timer's, the
\* keyboard's and the secondary PIC's bits are cleared by their own handlers; the
\* EOI of floppy_handler may clear the bit that a spurious IRQ 15 has left instead.
OwnEoi ==
    \A irq \in Devices :
        /\ At(irq, "eoi1") =>
             /\ Line(irq) \in isr1 /\ (irq < 2 => Lowest(isr1) = {irq})
             /\ \A i \in 2..Len(stack) :
                    Unserved(i) => Line(stack[i].irq) \notin Lowest(isr1)
        /\ At(irq, "eoi2") => Lowest(isr2) = {irq}

\* No handler interrupts itself before it has acknowledged, although trap gates
\* leave interrupts on: the bodies need no locks against themselves.
NotReentrant ==
    \A i, j \in DOMAIN stack :
        stack[i].irq = stack[j].irq /\ Unserved(i) /\ Unserved(j) => i = j

\* INTERRUPT_DEPTH counts exactly the handlers between savestate and
\* restore_state, so it is zero whenever the main thread runs and
\* ContAccess::check_access does not stop the kernel (cont_access.rs:81).
DepthInStep ==
    INTERRUPT_DEPTH =
        Cardinality({i \in DOMAIN stack : stack[i].irq \in Devices
                                            /\ stack[i].at \notin {"enter", "iret"}})

\* The index/data pair of read_cmos_reg in floppy::init is never split by the
\* RTC handler, which selects registers of its own (time.rs:198).
CmosPairIntact == pc = "cmos_read" => cmosIndex = "floppy"

\* The timer and the keyboard are never shut out for good: their in-service bits,
\* which block every IRQ of their priority and below, and those of the secondary PIC
\* belong to handlers that are still to acknowledge, whatever spurious interrupts
\* came (idt.rs:226-229, pic.rs:37-56). Bits 2 and 6 of the main PIC may be left
\* behind by a spurious IRQ 15.
NeverDeaf ==
    /\ \A irq \in isr1 \cap {0, 1} :
           \E i \in DOMAIN stack : Unserved(i) /\ stack[i].irq = irq
    /\ \A irq \in isr2 :
           \E i \in DOMAIN stack :
               Unserved(i) /\ stack[i].irq = irq /\ stack[i].at # "eoi1"

\* "Since IRQs 7 & 15 aren't used by sunflower though, it's not that bad."
\* (idt.rs:227): when no handler runs nothing is left in service, which would
\* block all IRQs of its priority and below.
NothingLeftInService == stack = <<>> => isr1 = {} /\ isr2 = {}

\* wait_for_rtc_sync ends, provided the interrupt load lets the main thread run
\* with the higher priorities quiet, and with no bit left over from a spurious
\* IRQ 15, again and again.
SyncFinishes ==
    []<>(stack = <<>> /\ irr \cap {0, 1} = {} /\ isr1 = {})
        => (pc = "wait_sync" ~> pc # "wait_sync")

=============================================================================
