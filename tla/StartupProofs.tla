-------------------------- MODULE StartupProofs --------------------------
(***************************************************************************)
(* Startup for every set of times, sounds and bounds. Two facts about the  *)
(* world are hypotheses of the theorems that need them: the bootloader's   *)
(* code segment selector is the kernel's own, and the clock shows a time   *)
(* of this century.                                                        *)
(***************************************************************************)
EXTENDS Startup, TLAPS

----------------------------------------------------------------------------
(* Exceptions. *)

\* The IDT that Idt::new makes while CS is the bootloader's.
BootIdt == [v \in Vectors |->
              [selector |-> BootCS, ist |-> IF v \in {8, 14} THEN 1 ELSE 0]]

LtrPassed == task > 5 /\ "ltr" \notin failed

\* The loaded tables, as far as the tasks have got: the gates refer to the
\* bootloader's selector, the GDT that replaced the bootloader's has code there,
\* and ltr passed only with both the GDT and the TSS in place.
TablesInv ==
    /\ task \in 1..(Len(Tasks) + 1)
    /\ task <= 4 => cs = BootCS
    /\ task > 2 => gates = BootIdt
    /\ "GDT" \in inits => CODE_SEGMENT_OFFSET \in DOMAIN gdt
                            /\ gdt[CODE_SEGMENT_OFFSET] = "code"
    /\ LtrPassed => "GDT" \in inits

TaskRegister == LtrPassed => tr

\* The interrupt flag waits for the PIC.
PicFirst ==
    /\ task > 6 => "PIC" \in inits
    /\ intr => "PIC" \in inits

\* An exception that finds no gate, or a double fault, is the end.
Ends ==
    /\ lost => mode = "reset" /\ ~LtrPassed
    /\ mode = "hung" => doubled

BootInv == TablesInv /\ TaskRegister /\ PicFirst /\ Ends

\* The places of the tasks that the invariant is about.
LEMMA TaskNumbers ==
    /\ Len(Tasks) = 13
    /\ \A i \in 1..13 : /\ Tasks[i] = "idt" <=> i = 2
                        /\ Tasks[i] = "tss" <=> i = 3
                        /\ Tasks[i] = "gdt" <=> i = 4
                        /\ Tasks[i] = "ltr" <=> i = 5
                        /\ Tasks[i] = "pic" <=> i = 6
                        /\ Tasks[i] = "vga" <=> i = 1
  BY DEF Tasks

\* ltr has passed when the tasks are beyond it and it printed no ERR.
LEMMA PassedLtr ==
    ASSUME task \in 1..(Len(Tasks) + 1)
    PROVE  Passed("ltr") <=> LtrPassed
<1>1. \A i \in 1..(task - 1) : i \in 1..13
  BY TaskNumbers
<1>2. (\E i \in 1..(task - 1) : Tasks[i] = "ltr") <=> task > 5
  BY <1>1, TaskNumbers
<1> QED
  BY <1>2 DEF Passed, LtrPassed

\* The state the bootloader leaves.
LEMMA InitBootInv == Init => BootInv
<1> SUFFICES ASSUME Init PROVE BootInv
  OBVIOUS
<1>1. ~intr /\ ~lost
  BY Zenon DEF Init
<1>2. TablesInv /\ TaskRegister
  BY TaskNumbers DEF Init, TablesInv, TaskRegister, LtrPassed
<1> QED
  BY <1>1, <1>2 DEF BootInv, PicFirst, Ends, Init

\* The step of a task, before or after it exits: it is alive, and if it is not one
\* of those that load tables it leaves them alone.
Quiet ==
    /\ mode # "reset" /\ mode' # "hung"
    /\ UNCHANGED <<gates, gdt, cs, tr, lost, doubled>> /\ inits \subseteq inits'
    /\ intr' => intr \/ "PIC" \in inits \/ task > 6
    /\ "GDT" \in inits' => "GDT" \in inits
    /\ \/ UNCHANGED <<task, failed>>
       \/ /\ task \in 1..Len(Tasks) /\ Tasks[task] \notin {"idt", "gdt", "ltr", "pic"}
          /\ task' = task + 1 /\ failed' \in {failed, failed \cup {Tasks[task]}}

\* Quiet steps keep the invariant.
LEMMA QuietBootInv == BootInv /\ Quiet => BootInv'
<1> SUFFICES ASSUME BootInv, Quiet PROVE BootInv'
  OBVIOUS
<1> USE TaskNumbers DEF BootInv, Quiet
<1>1. TablesInv'
  BY DEF TablesInv, LtrPassed
<1>2. LtrPassed' => LtrPassed
  BY DEF TablesInv, LtrPassed
<1>3. TaskRegister'
  BY <1>2 DEF TaskRegister
<1>4. PicFirst'
  BY DEF PicFirst, TablesInv
<1>5. Ends'
  BY DEF Ends
<1> QED
  BY <1>1, <1>3, <1>4, <1>5

\* Most of the startup tasks are quiet.
LEMMA TasksQuiet ==
    ASSUME BootInv,
           \/ vga_init \/ setup_tss \/ setup_rtc_int \/ set_timer_interval
           \/ init_kbd \/ kbd_step \/ kbd_error \/ check_cpuid \/ wait_for_rtc_sync
           \/ init_floppy \/ init_floppy_end \/ init_floppyfs \/ Answer
    PROVE  Quiet
<1>1. task \in Nat /\ Len(Tasks) = 13
  BY TaskNumbers DEF BootInv, TablesInv
<1>2. \A t, s : At(t, s) => task \in 1..Len(Tasks) /\ Tasks[task] = t /\ mode = "boot"
  BY <1>1 DEF At, BootInv, TablesInv
<1> USE DEF Quiet, Exit, errs, cpu
<1>3. CASE vga_init \/ setup_tss
  BY <1>2, <1>3 DEF vga_init, setup_tss
<1>4. CASE setup_rtc_int \/ set_timer_interval
  <2>1. PICK t \in {"rtc_int", "pit"}, flag \in {"RTC_IRQ", "PIT"} : NeedsPic(t, flag)
    BY <1>4 DEF setup_rtc_int, set_timer_interval
  <2>2. intr' => intr \/ "PIC" \in inits
    BY <2>1, Zenon DEF NeedsPic
  <2> QED
    BY <1>2, <2>1, <2>2 DEF NeedsPic
<1>5. CASE init_kbd
  <2>1. task > 6
    BY <1>2, <1>5, TaskNumbers DEF init_kbd, Tasks
  <2> QED
    BY <1>2, <1>5, <2>1 DEF init_kbd
<1>6. CASE kbd_step \/ kbd_error
  <2>1. Tasks[task] = "kbd" /\ task \in 1..Len(Tasks) /\ mode = "boot"
    BY <1>2, <1>6 DEF kbd_step, kbd_error
  <2>2. CASE kbd_step
    <3>1. /\ UNCHANGED <<intr, gates, gdt, cs, tr, lost, doubled>>
          /\ inits' \in {inits, inits \cup {"KBD"}} /\ mode' = mode
      BY <2>2 DEF kbd_step
    <3>2. UNCHANGED <<task, failed>> \/ Exit(TRUE)
      BY <2>2 DEF kbd_step
    <3> QED
      BY <2>1, <3>1, <3>2
  <2>3. CASE kbd_error
    BY <2>1, <2>3 DEF kbd_error
  <2> QED
    BY <1>6, <2>2, <2>3
<1>7. CASE check_cpuid \/ wait_for_rtc_sync
  BY <1>2, <1>7 DEF check_cpuid, wait_for_rtc_sync
<1>8. CASE init_floppy \/ init_floppy_end
  BY <1>2, <1>8 DEF init_floppy, init_floppy_end
<1>9. CASE init_floppyfs \/ Answer
  BY <1>2, <1>9 DEF init_floppyfs, Answer, Asking
<1> QED
  BY <1>3, <1>4, <1>5, <1>6, <1>7, <1>8, <1>9

\* So are the sounds, the poll loop, the panic and the user.
LEMMA OthersQuiet ==
    ASSUME BootInv,
           \/ load_idt_stop \/ play_chime \/ play \/ stop \/ sound_wait \/ check_syscmd
           \/ PanicPoll \/ Tick \/ RtcUpdate
           \/ \E k \in {"F3", "F4", "F5", "esc"} : KeyPress(k)
    PROVE  Quiet
<1> USE DEF Quiet, errs, cpu
<1>1. CASE load_idt_stop
  <2>1. ~intr'
    BY <1>1, Zenon DEF load_idt_stop, badbug
  <2> QED
    BY <1>1, <2>1 DEF load_idt_stop, badbug, kpanic, At
<1>2. CASE play_chime
  BY <1>2 DEF play_chime
<1>3. CASE play \/ stop \/ sound_wait
  BY <1>3 DEF play, stop, sound_wait, Running
<1>4. CASE check_syscmd
  <2>1. /\ UNCHANGED <<task, failed, inits, gates, gdt, cs, tr, lost, doubled>>
        /\ mode = "run"
    BY <1>4 DEF check_syscmd
  <2>2. mode' # "hung" /\ (intr' => intr)
    <3>1. CASE Head(buffer) = "F4"
      <4>1. badbug
        BY <1>4, <3>1 DEF check_syscmd
      <4>2. ~intr'
        BY <4>1, Zenon DEF badbug
      <4> QED
        BY <4>1, <4>2 DEF badbug, kpanic
    <3>2. CASE Head(buffer) # "F4"
      BY <1>4, <3>2 DEF check_syscmd, triple_fault
    <3> QED
      BY <3>1, <3>2
  <2> QED
    BY <2>1, <2>2
<1>5. CASE PanicPoll
  BY <1>5 DEF PanicPoll, triple_fault
<1>6. CASE Tick
  BY <1>6 DEF Tick, Live, BootInv, PicFirst
<1>7. CASE RtcUpdate
  BY <1>7 DEF RtcUpdate, Live
<1>8. CASE \E k \in {"F3", "F4", "F5", "esc"} : KeyPress(k)
  BY <1>8 DEF KeyPress, Live
<1> QED
  BY <1>1, <1>2, <1>3, <1>4, <1>5, <1>6, <1>7, <1>8

\* Every step keeps the invariant, if the kernel's code segment is where the
\* bootloader's was.
LEMMA NextBootInv ==
    ASSUME BootCS = CODE_SEGMENT_OFFSET
    PROVE  BootInv /\ [Next]_vars => BootInv'
<1> SUFFICES ASSUME BootInv, [Next]_vars PROVE BootInv'
  OBVIOUS
<1>0. task \in Nat /\ Len(Tasks) = 13
  BY TaskNumbers DEF BootInv, TablesInv
<1>1. \A t, s : At(t, s) => task \in 1..13 /\ Tasks[task] = t /\ mode = "boot"
  BY <1>0 DEF At, BootInv, TablesInv
<1> USE TaskNumbers DEF BootInv, TablesInv, TaskRegister, PicFirst, Ends, LtrPassed,
      Exit, errs, cpu
<1>2. CASE load_idt
  <2>1. task = 2 /\ mode = "boot" /\ cs = BootCS
    BY <1>1, <1>2 DEF load_idt
  <2>2. gates' = BootIdt
    BY <1>2, <2>1 DEF load_idt, NewIdt, BootIdt
  <2> QED
    BY <1>2, <2>1, <2>2 DEF load_idt
<1>3. CASE load_gdt
  <2>1. task = 4 /\ mode = "boot"
    BY <1>1, <1>3 DEF load_gdt
  <2>2. CODE_SEGMENT_OFFSET \in DOMAIN gdt' /\ gdt'[CODE_SEGMENT_OFFSET] = "code"
    BY <1>3 DEF load_gdt, KernelGdt, CODE_SEGMENT_OFFSET, TSS_SEGMENT_OFFSET
  <2>3. ~intr'
    BY <1>3, Zenon DEF load_gdt
  <2> QED
    BY <1>3, <2>1, <2>2, <2>3 DEF load_gdt
<1>4. CASE load_gdt_error
  <2>1. task = 4 /\ mode = "boot"
    BY <1>1, <1>4 DEF load_gdt_error
  <2>2. ~intr'
    BY <1>4, Zenon DEF load_gdt_error
  <2> QED
    BY <1>4, <2>1, <2>2 DEF load_gdt_error
<1>5. CASE load_tss
  <2>1. task = 5 /\ mode = "boot"
    BY <1>1, <1>5 DEF load_tss
  <2>2. LtrPassed' => tr' /\ "GDT" \in inits
    <3>1. tr' = TRUE => tr'
      BY Zenon
    <3> QED
      BY <1>5, <2>1, <3>1 DEF load_tss
  <2> QED
    BY <1>5, <2>1, <2>2 DEF load_tss
<1>6. CASE init_pic
  <2>1. task = 6 /\ mode = "boot"
    BY <1>1, <1>6 DEF init_pic
  <2> QED
    BY <1>6, <2>1 DEF init_pic
<1>7. CASE \E v \in {8, 13, 14} : Fault(v)
  <2>1. PICK v \in {8, 13, 14} : Fault(v)
    BY <1>7
  <2>2. UNCHANGED <<task, failed, inits, gates, gdt, cs, tr>> /\ mode # "reset"
    BY <2>1 DEF Fault, Live
  <2>3. LtrPassed => Usable(v)
    BY DEF Usable, BootIdt, Vectors
  <2>4. CASE ~Usable(v)
    BY <2>1, <2>2, <2>3, <2>4 DEF Fault, triple_fault
  <2>5. CASE Usable(v) /\ v = 8
    <3>1. ~intr' /\ doubled'
      BY <2>1, <2>5, Zenon DEF Fault
    <3> QED
      BY <2>1, <2>2, <2>5, <3>1 DEF Fault
  <2>6. CASE Usable(v) /\ v # 8
    BY <2>1, <2>2, <2>6 DEF Fault, kpanic
  <2> QED
    BY <2>4, <2>5, <2>6
<1>8. CASE UNCHANGED vars
  BY <1>8 DEF vars
<1> QED
  BY <1>2, <1>3, <1>4, <1>5, <1>6, <1>7, <1>8, TasksQuiet, OthersQuiet, QuietBootInv
     DEF Next, kmain

\* After ltr has passed every exception finds a usable gate, although the gates
\* were made with the selector of the bootloader (idt.rs:206, gdt.rs:238); and the
\* hang of the double fault handler is only reached through a double fault, not by
\* a timer interrupt before the PIC is set up (keyboard.rs:100).
THEOREM ExceptionsReported ==
    ASSUME BootCS = CODE_SEGMENT_OFFSET
    PROVE  Spec => []FaultsReported
<1>1. BootInv => FaultsReported
  BY PassedLtr DEF BootInv, TablesInv, Ends, FaultsReported
<1>2. Spec => []BootInv
  BY InitBootInv, NextBootInv, PTL DEF Spec
<1> QED
  BY <1>1, <1>2, PTL

----------------------------------------------------------------------------
(* The launch time. *)

\* What a real time clock can tell in the century that time.rs assumes.
ClockTimes ==
    [year : (CENTURY * 100)..(CENTURY * 100 + 99), month : 1..12, day : 1..31,
     hour : 0..23, min : 0..59, sec : 0..59]

TimeInv ==
    RTC_SYNC_DONE =>
        \E m \in Modes, t \in Times :
            /\ clock = [mode |-> m, time |-> t]
            /\ LAUNCH_TIME = sync_time_to_rtc(m, now(m, t))

\* bcd_to_bin undoes the binary coded decimals of the clock.
LEMMA BcdRoundTrip ==
    ASSUME NEW n \in 0..99
    PROVE  bcd_to_bin((n \div 10) * 16 + (n % 10)) = n
<1>1. /\ n \div 10 \in 0..9 /\ n % 10 \in 0..9
      /\ n = 10 * (n \div 10) + (n % 10)
  OBVIOUS
<1>2. \A a, b \in 0..9 : (a * 16 + b) \div 16 = a /\ (a * 16 + b) % 16 = b
  OBVIOUS
<1> QED
  BY <1>1, <1>2 DEF bcd_to_bin

\* Reading the clock gives the time it told, apart from the hour, which is right in
\* the 24 hour binary mode.
LEMMA ReadsClock ==
    ASSUME NEW m \in Modes, NEW t \in ClockTimes, NEW f \in Fields,
           f # "hour" \/ m = [binary |-> TRUE, h24 |-> TRUE]
    PROVE  sync_time_to_rtc(m, now(m, t))[f] = t[f]
<1> DEFINE bin(n) == IF m.binary THEN n ELSE bcd_to_bin(n)
<1>1. \A n \in 0..99 : bin(Shown(m, n)) = n
  BY BcdRoundTrip DEF Shown
<1>2. CASE f = "hour"
  <2>1. m.binary /\ m.h24
    BY <1>2
  <2>2. launch_hour(m, ShownHour(m, t.hour)) = t.hour
    BY <2>1 DEF launch_hour, ShownHour, Shown
  <2> QED
    BY <1>2, <2>2 DEF sync_time_to_rtc, now, Fields
<1>3. CASE f = "year"
  <2>1. t.year % 100 \in 0..99 /\ t.year = (t.year % 100) + CENTURY * 100
    BY DEF ClockTimes, CENTURY
  <2>2. sync_time_to_rtc(m, now(m, t)).year = bin(Shown(m, t.year % 100)) + CENTURY * 100
    BY DEF sync_time_to_rtc, now, Fields
  <2> QED
    BY <1>1, <1>3, <2>1, <2>2
<1>4. CASE f \in {"month", "day", "min", "sec"}
  <2>1. t[f] \in 0..99
    BY <1>4 DEF ClockTimes
  <2>2. sync_time_to_rtc(m, now(m, t))[f] = bin(Shown(m, t[f]))
    BY <1>4 DEF sync_time_to_rtc, now, Fields
  <2> QED
    BY <1>1, <2>1, <2>2
<1> QED
  BY <1>2, <1>3, <1>4 DEF Fields

\* The launch time is what the clock told, in each of its four modes and for every
\* time of the century, apart from the hour outside the 24 hour binary mode
\* (time.rs:262-298).
THEOREM LaunchTimeFaithful ==
    ASSUME Times \subseteq ClockTimes
    PROVE  Spec => []TimeFaithful
<1>1. Init => TimeInv
  <2> SUFFICES ASSUME Init PROVE ~RTC_SYNC_DONE
    BY DEF TimeInv
  <2> QED
    BY Zenon DEF Init
<1>2. TimeInv /\ [Next]_vars => TimeInv'
  <2> SUFFICES ASSUME TimeInv, [Next]_vars PROVE TimeInv'
    OBVIOUS
  <2>1. CASE RtcUpdate
    BY <2>1 DEF RtcUpdate, TimeInv
  <2>2. CASE UNCHANGED rtc
    BY <2>2 DEF rtc, TimeInv
  <2>3. RtcUpdate \/ UNCHANGED rtc
    <3>1. CASE kmain
      BY <3>1 DEF kmain, vga_init, load_idt, load_idt_stop, setup_tss, load_gdt,
           load_gdt_error, load_tss, init_pic, setup_rtc_int, set_timer_interval,
           NeedsPic, init_kbd, kbd_step, kbd_error, check_cpuid, wait_for_rtc_sync,
           init_floppy, init_floppy_end, init_floppyfs, play_chime, play, stop,
           sound_wait, check_syscmd, PanicPoll
    <3>2. CASE ~kmain
      BY <3>2 DEF Next, Answer, Tick, KeyPress, Fault, vars
    <3> QED
      BY <3>1, <3>2
  <2> QED
    BY <2>1, <2>2, <2>3
<1>3. TimeInv => TimeFaithful
  <2> SUFFICES ASSUME TimeInv, RTC_SYNC_DONE, NEW f \in Fields,
                      f # "hour" \/ clock.mode = [binary |-> TRUE, h24 |-> TRUE]
               PROVE  LAUNCH_TIME[f] = clock.time[f]
    BY DEF TimeFaithful
  <2>1. PICK m \in Modes, t \in Times :
          /\ clock = [mode |-> m, time |-> t]
          /\ LAUNCH_TIME = sync_time_to_rtc(m, now(m, t))
    BY DEF TimeInv
  <2>2. clock.mode = m /\ clock.time = t
    BY <2>1
  <2>3. sync_time_to_rtc(m, now(m, t))[f] = t[f]
    BY <2>2, ReadsClock
  <2> QED
    BY <2>1, <2>2, <2>3
<1> QED
  BY <1>1, <1>2, <1>3, PTL DEF Spec

=============================================================================
