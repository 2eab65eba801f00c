------------------------------ MODULE Startup ------------------------------
(***************************************************************************)
(* One run of the machine from the bootloader to a restart: the startup    *)
(* tasks of main.rs in their order, the poll loop with the system commands *)
(* for the song, the panic and the restart, the speaker, kpanic, and the   *)
(* CPU's view of it: interrupt flag, gates, segments, task register.       *)
(*                                                                         *)
(* Timer and clock interrupts come between any two steps while the         *)
(* interrupt flag is set, key presses and exceptions at any time. Drivers  *)
(* that have modules of their own appear as their exit codes.              *)
(***************************************************************************)
EXTENDS Rtc, Sequences, FiniteSets

CONSTANTS
    BootCS,     \* the code segment selector the bootloader enters with
    Times,      \* times of day the clock may tell
    Chime,      \* notes [ticks, repeat] of play_chime
    Song,       \* and of play_song
    PULSE,      \* PULSE_LENGTH
    MaxKeys,    \* bound on key presses
    MaxFaults   \* bound on exceptions

ASSUME StartupConstants ==
    /\ BootCS \in Nat /\ PULSE \in Nat \ {0}
    /\ MaxKeys \in Nat /\ MaxFaults \in Nat

Modes == [binary : BOOLEAN, h24 : BOOLEAN]

\* Mutant: the GDT, which clears the interrupt flag, is loaded after the keyboard.
TasksGdtLate == <<"vga", "idt", "tss", "pic", "rtc_int", "pit", "kbd", "gdt", "ltr",
                  "cpuid", "rtc_wait", "floppy", "floppyfs">>

\* The startup tasks in the order of kmain.
Tasks == <<"vga", "idt", "tss", "gdt", "ltr", "pic", "rtc_int", "pit", "kbd",
           "cpuid", "rtc_wait", "floppy", "floppyfs">>

VARIABLES
    mode,       \* "boot", "run", "panic", "hung" or "reset"
    task, step, \* the startup task, and how far it has got
    failed,     \* history: the tasks that printed ERR
    inits,      \* the *_INIT flags of startup.rs that are set
    intr,       \* the interrupt flag
    gates,      \* the loaded IDT: vector -> [selector, ist]
    TSS,        \* the static is initialised
    gdt,        \* the loaded GDT: selector -> kind of descriptor
    cs, tr,     \* code segment selector; the task register is loaded
    kbd,        \* the PS/2 controller lets the keyboard send
    port,       \* what port 0x60 shows: the last byte
    buffer,     \* key presses waiting for the poll loop
    RTC_SYNC_DONE, LAUNCH_TIME,
    clock,      \* history: mode and time that were read
    todo,       \* what a sound still does
    left,       \* ticks until time::wait returns
    speaker,
    esc,        \* history: ESC was pressed since the panic
    doubled,    \* history: the CPU raised a double fault
    lost,       \* history: an exception found no usable gate
    keys, faults

cpu  == <<intr, gates, TSS, gdt, cs, tr>>
rtc  == <<RTC_SYNC_DONE, LAUNCH_TIME, clock>>
snd  == <<todo, left, speaker>>
user == <<kbd, port, buffer, esc, keys>>
errs == <<doubled, lost, faults>>
vars == <<mode, task, step, failed, inits, cpu, rtc, snd, user, errs>>

NoTime == [f \in Fields |-> 0]
NoKey  == "none"

\* The bootloader's GDT and its state: interrupts off, no handlers, no task.
BootGdt == [selector \in {BootCS} |-> "code"]

Init ==
    /\ mode = "boot" /\ task = 1 /\ step = 0 /\ failed = {} /\ inits = {}
    /\ intr = FALSE /\ gates = <<>> /\ TSS = FALSE
    /\ gdt = BootGdt /\ cs = BootCS /\ tr = FALSE
    /\ kbd = TRUE /\ port = NoKey /\ buffer = <<>> /\ esc = FALSE /\ keys = 0
    /\ RTC_SYNC_DONE = FALSE /\ LAUNCH_TIME = NoTime
    /\ clock = [mode |-> [binary |-> TRUE, h24 |-> TRUE], time |-> NoTime]
    /\ todo = <<>> /\ left = 0 /\ speaker = FALSE
    /\ doubled = FALSE /\ lost = FALSE /\ faults = 0

----------------------------------------------------------------------------
(* Panics. *)

\* Mutant: the speaker is left as it is.
kpanic_keeps_sound ==
    /\ mode' = "panic" /\ esc' = FALSE
    /\ UNCHANGED <<speaker, todo, left>>

\* What kpanic does before it waits for the user: the speaker is stopped; the
\* motor and the screen are in FloppyMotor and Screen.
kpanic ==
    /\ mode' = "panic" /\ speaker' = FALSE /\ esc' = FALSE
    /\ UNCHANGED <<todo, left>>

\* PANIC!(badbug ...) clears the interrupt flag, an exception's gate does not.
badbug == intr' = FALSE /\ kpanic

triple_fault == mode' = "reset"

\* Mutant: the key must come through the keyboard handler.
PanicPollPress ==
    /\ mode = "panic" /\ port = "esc" /\ "KBD" \in inits /\ triple_fault
    /\ UNCHANGED <<task, step, failed, inits, cpu, rtc, snd, user, errs>>

\* The loop of kpanic: whatever byte port 0x60 shows is compared with ESC.
PanicPoll ==
    /\ mode = "panic" /\ port = "esc" /\ triple_fault
    /\ UNCHANGED <<task, step, failed, inits, cpu, rtc, snd, user, errs>>

----------------------------------------------------------------------------
(* Startup tasks. *)

At(t, s) ==
    /\ mode = "boot" /\ task <= Len(Tasks) /\ Tasks[task] = t /\ step = s
    /\ left = 0

\* startup::run: the box of the exit code, then the next task.
Exit(ok) ==
    /\ task' = task + 1 /\ step' = 0 /\ UNCHANGED mode
    /\ failed' = IF ok THEN failed ELSE failed \cup {Tasks[task]}

vga_init ==
    /\ At("vga", 0) /\ Exit(TRUE)
    /\ UNCHANGED <<inits, cpu, rtc, snd, user, errs>>

\* Idt::new: the selector of every gate is CS at this time; double and page
\* faults switch to stack 1 of the TSS.
Vectors == {8, 13, 14, 32, 33, 38, 39, 40, 47}
NewIdt  == [v \in Vectors |->
              [selector |-> cs, ist |-> IF v \in {8, 14} THEN 1 ELSE 0]]

load_idt ==
    /\ At("idt", 0) /\ gates' = NewIdt /\ Exit(TRUE)
    /\ UNCHANGED <<inits, intr, TSS, gdt, cs, tr, rtc, snd, user, errs>>

\* The register did not take the table: STOP.
load_idt_stop ==
    /\ At("idt", 0) /\ badbug
    /\ UNCHANGED <<task, step, failed, inits, gates, TSS, gdt, cs, tr, rtc, kbd,
                   port, buffer, keys, errs>>

\* TSS.init refuses a second call.
setup_tss ==
    /\ At("tss", 0) /\ TSS' = TRUE /\ Exit(~TSS)
    /\ UNCHANGED <<inits, intr, gates, gdt, cs, tr, rtc, snd, user, errs>>

CODE_SEGMENT_OFFSET == 8
TSS_SEGMENT_OFFSET  == 24

\* Mutant: the data segment comes first.
KernelGdtSwapped ==
    [selector \in {8, 16, 24} |->
       CASE selector = 8  -> "data"
         [] selector = 16 -> "code"
         [] selector = 24 -> IF TSS THEN "tss" ELSE "null"]

\* The table load_gdt fills in, without its null descriptor.
KernelGdt ==
    [selector \in {CODE_SEGMENT_OFFSET, 16, TSS_SEGMENT_OFFSET} |->
       CASE selector = CODE_SEGMENT_OFFSET -> "code"
         [] selector = 16                  -> "data"
         [] selector = TSS_SEGMENT_OFFSET  -> IF TSS THEN "tss" ELSE "null"]

load_gdt ==
    /\ At("gdt", 0) /\ intr' = FALSE
    /\ gdt' = KernelGdt /\ cs' = CODE_SEGMENT_OFFSET
    /\ inits' = inits \cup {"GDT"} /\ Exit(TRUE)
    /\ UNCHANGED <<gates, TSS, tr, rtc, snd, user, errs>>

\* The register did not take the table; the interrupt flag stays clear.
load_gdt_error ==
    /\ At("gdt", 0) /\ intr' = FALSE /\ Exit(FALSE)
    /\ UNCHANGED <<inits, gates, TSS, gdt, cs, tr, rtc, snd, user, errs>>

load_tss ==
    /\ At("ltr", 0)
    /\ \/ /\ "GDT" \in inits /\ gdt[TSS_SEGMENT_OFFSET] = "tss"
          /\ tr' = TRUE /\ Exit(TRUE)
       \/ \* no GDT, or the stored offset differs
          UNCHANGED tr /\ Exit(FALSE)
    /\ UNCHANGED <<inits, intr, gates, TSS, gdt, cs, rtc, snd, user, errs>>

init_pic ==
    /\ At("pic", 0) /\ inits' = inits \cup {"PIC"} /\ Exit(TRUE)
    /\ UNCHANGED <<cpu, rtc, snd, user, errs>>

\* setup_rtc_int and set_timer_interval set the interrupt flag, unless the PIC
\* is missing.
NeedsPic(t, flag) ==
    /\ At(t, 0) /\ Exit("PIC" \in inits)
    /\ inits' = IF "PIC" \in inits THEN inits \cup {flag} ELSE inits
    /\ intr'  = IF "PIC" \in inits THEN TRUE ELSE intr
    /\ UNCHANGED <<gates, TSS, gdt, cs, tr, rtc, snd, user, errs>>

setup_rtc_int      == NeedsPic("rtc_int", "RTC_IRQ")
set_timer_interval == NeedsPic("pit", "PIT")

\* init_kbd sets the flag before it asks for the PIC.
init_kbd ==
    /\ At("kbd", 0) /\ intr' = TRUE
    /\ IF "PIC" \in inits THEN step' = 1 /\ UNCHANGED <<mode, task, failed>>
                          ELSE Exit(FALSE)
    /\ UNCHANGED <<inits, gates, TSS, gdt, cs, tr, rtc, snd, user, errs>>

\* Its exchanges with the controller, in order; all but the flush may fail.
KbdSteps == <<"disable_keyboard", "disable_mouse", "flush", "test_controller",
              "test_keyboard", "write_config", "echo", "set_scancode_set",
              "set_leds", "reset_and_self_test">>

kbd_step ==
    /\ step \in DOMAIN KbdSteps /\ At("kbd", step)
    /\ kbd' = CASE KbdSteps[step] = "disable_keyboard" -> FALSE
                [] KbdSteps[step] = "write_config"     -> TRUE
                [] OTHER                               -> kbd
    /\ port' = "response"
    /\ IF step = Len(KbdSteps)
         THEN inits' = inits \cup {"KBD"} /\ Exit(TRUE)
         ELSE step' = step + 1 /\ UNCHANGED <<mode, task, failed, inits>>
    /\ UNCHANGED <<cpu, rtc, snd, buffer, esc, keys, errs>>

kbd_error ==
    /\ step \in DOMAIN KbdSteps /\ At("kbd", step) /\ KbdSteps[step] # "flush"
    /\ Exit(FALSE)
    /\ UNCHANGED <<inits, cpu, rtc, snd, user, errs>>

check_cpuid ==
    /\ At("cpuid", 0) /\ \E ok \in BOOLEAN : Exit(ok)
    /\ UNCHANGED <<inits, cpu, rtc, snd, user, errs>>

\* Spins until the handler of the clock is done, if the clock interrupts at all, and
\* checks that it has left a time.
wait_for_rtc_sync ==
    /\ At("rtc_wait", 0)
    /\ IF "RTC_IRQ" \in inits THEN RTC_SYNC_DONE /\ Exit(LAUNCH_TIME # NoTime)
                              ELSE Exit(FALSE)
    /\ UNCHANGED <<inits, cpu, rtc, snd, user, errs>>

\* time::wait, whose caller goes on when left is zero again.
wait(ticks) == left' = IF "PIT" \in inits THEN ticks + 1 ELSE 0

\* floppy::init: no drive, or the motor is enabled and given time to spin up.
init_floppy ==
    /\ At("floppy", 0)
    /\ \/ Exit(FALSE) /\ UNCHANGED left
       \/ step' = 1 /\ wait(1) /\ UNCHANGED <<mode, task, failed>>
    /\ UNCHANGED <<inits, cpu, rtc, todo, speaker, user, errs>>

init_floppy_end ==
    /\ At("floppy", 1)
    /\ \/ inits' = inits \cup {"FLOPPY"} /\ Exit(TRUE)
       \/ UNCHANGED inits /\ Exit(FALSE)
    /\ UNCHANGED <<cpu, rtc, snd, user, errs>>

init_floppyfs ==
    /\ At("floppyfs", 0)
    /\ \/ "FLOPPY" \in inits /\ Exit(TRUE)
       \/ Exit(FALSE)
       \/ "FLOPPY" \in inits /\ step' = 1 /\ UNCHANGED <<mode, task, failed>>
    /\ UNCHANGED <<inits, cpu, rtc, snd, user, errs>>

\* The answer to its prompt comes through the keyboard handler.
Asking == At("floppyfs", 1)
Answer ==
    /\ Asking /\ "KBD" \in inits /\ intr /\ \E ok \in BOOLEAN : Exit(ok)
    /\ UNCHANGED <<inits, cpu, rtc, snd, user, errs>>

----------------------------------------------------------------------------
(* Sounds. *)

Play    == [op |-> "play", ticks |-> 0]
Stop    == [op |-> "stop", ticks |-> 0]
Wait(n) == [op |-> "wait", ticks |-> n]

Pulse == <<Play, Wait(PULSE), Stop, Wait(PULSE)>>

\* play_special: nothing without the PIT, pulses, or one note.
play_special(note) ==
    IF "PIT" \notin inits THEN <<>>
    ELSE IF note.repeat
         THEN [i \in 1..(4 * (note.ticks \div (2 * PULSE))) |-> Pulse[((i - 1) % 4) + 1]]
         ELSE <<Play, Wait(note.ticks), Stop>>

\* The operations of a list of notes, one after the other.
Sound(notes) ==
    LET upto[i \in 0..Len(notes)] ==
            IF i = 0 THEN <<>> ELSE upto[i - 1] \o play_special(notes[i])
    IN  upto[Len(notes)]

play_chime ==
    /\ mode = "boot" /\ task = Len(Tasks) + 1
    /\ mode' = "run" /\ todo' = Sound(Chime)
    /\ UNCHANGED <<task, step, failed, inits, cpu, rtc, left, speaker, user, errs>>

Running(op) == mode = "run" /\ left = 0 /\ todo # <<>> /\ Head(todo).op = op

play ==
    /\ Running("play") /\ todo' = Tail(todo) /\ speaker' = TRUE
    /\ UNCHANGED <<mode, task, step, failed, inits, cpu, rtc, left, user, errs>>

stop ==
    /\ Running("stop") /\ todo' = Tail(todo) /\ speaker' = FALSE
    /\ UNCHANGED <<mode, task, step, failed, inits, cpu, rtc, left, user, errs>>

sound_wait ==
    /\ Running("wait") /\ todo' = Tail(todo) /\ wait(Head(todo).ticks)
    /\ UNCHANGED <<mode, task, step, failed, inits, cpu, rtc, speaker, user, errs>>

----------------------------------------------------------------------------
(* The poll loop. *)

check_syscmd ==
    /\ mode = "run" /\ left = 0 /\ todo = <<>> /\ buffer # <<>>
    /\ buffer' = Tail(buffer)
    /\ CASE Head(buffer) = "F3" -> todo' = Sound(Song)
                                   /\ UNCHANGED <<mode, left, speaker, intr, esc>>
         [] Head(buffer) = "F4" -> badbug
         [] Head(buffer) = "F5" -> triple_fault /\ UNCHANGED <<snd, intr, esc>>
         [] OTHER               -> UNCHANGED <<mode, snd, intr, esc>>
    /\ UNCHANGED <<task, step, failed, inits, gates, TSS, gdt, cs, tr, rtc, kbd,
                   port, keys, errs>>

----------------------------------------------------------------------------
(* The world around the main thread. *)

Live == mode \in {"boot", "run", "panic"}

\* A timer interrupt; without the PIC's offsets it arrives as a double fault.
Tick ==
    /\ Live /\ intr
    /\ IF "PIC" \in inits
         THEN left > 0 /\ left' = left - 1 /\ UNCHANGED <<mode, intr>>
         ELSE mode' = "hung" /\ intr' = FALSE /\ UNCHANGED left
    /\ UNCHANGED <<task, step, failed, inits, gates, TSS, gdt, cs, tr, rtc, todo,
                   speaker, user, errs>>

\* The first update ended interrupt of the clock.
RtcUpdate ==
    /\ Live /\ intr /\ "RTC_IRQ" \in inits /\ ~RTC_SYNC_DONE
    /\ \E m \in Modes, t \in Times :
           /\ clock' = [mode |-> m, time |-> t]
           /\ LAUNCH_TIME' = sync_time_to_rtc(m, now(m, t))
    /\ RTC_SYNC_DONE' = TRUE
    /\ UNCHANGED <<mode, task, step, failed, inits, cpu, snd, user, errs>>

\* A key. The handler buffers it once KBD_INIT is set; the panic loop reads the
\* port far more often than a hand can press keys.
KeyPress(k) ==
    /\ Live /\ kbd /\ keys < MaxKeys /\ keys' = keys + 1
    /\ mode = "panic" => port # "esc"
    /\ port' = k
    /\ buffer' = IF "KBD" \in inits /\ intr THEN Append(buffer, k) ELSE buffer
    /\ esc' = (mode = "panic" /\ (esc \/ k = "esc"))
    /\ UNCHANGED <<mode, task, step, failed, inits, cpu, rtc, snd, kbd, errs>>

\* A gate works if its selector is a code segment and its stack can be found.
Usable(v) ==
    /\ v \in DOMAIN gates /\ gates[v].selector \in DOMAIN gdt
    /\ gdt[gates[v].selector] = "code"
    /\ gates[v].ist # 0 => tr

\* An exception in the main thread: kpanic for most, the message of the double
\* fault handler and hang for vector 8, a restart if there is no usable gate.
Fault(v) ==
    /\ Live /\ faults < MaxFaults /\ faults' = faults + 1
    /\ \/ ~Usable(v) /\ triple_fault /\ lost' = TRUE
          /\ UNCHANGED <<snd, esc, intr, doubled>>
       \/ Usable(v) /\ v = 8 /\ mode' = "hung" /\ intr' = FALSE /\ doubled' = TRUE
          /\ UNCHANGED <<snd, esc, lost>>
       \/ Usable(v) /\ v # 8 /\ kpanic /\ UNCHANGED <<intr, doubled, lost>>
    /\ UNCHANGED <<task, step, failed, inits, gates, TSS, gdt, cs, tr, rtc, kbd,
                   port, buffer, keys>>

----------------------------------------------------------------------------

kmain ==
    \/ vga_init \/ load_idt \/ load_idt_stop \/ setup_tss \/ load_gdt
    \/ load_gdt_error \/ load_tss \/ init_pic \/ setup_rtc_int
    \/ set_timer_interval \/ init_kbd \/ kbd_step \/ kbd_error \/ check_cpuid
    \/ wait_for_rtc_sync \/ init_floppy \/ init_floppy_end \/ init_floppyfs
    \/ play_chime \/ play \/ stop \/ sound_wait \/ check_syscmd \/ PanicPoll

Next ==
    \/ kmain \/ Answer \/ Tick \/ RtcUpdate
    \/ \E k \in {"F3", "F4", "F5", "esc"} : KeyPress(k)
    \/ \E v \in {8, 13, 14} : Fault(v)

\* The CPU goes on, timer and clock interrupt again and again. Nothing is assumed
\* of the user or of exceptions.
Spec ==
    Init /\ [][Next]_vars /\ WF_vars(kmain) /\ WF_vars(Tick) /\ WF_vars(RtcUpdate)

----------------------------------------------------------------------------
(* Properties. *)

\* A task that has printed OK or INF.
Passed(t) == t \notin failed /\ \E i \in 1..(task - 1) : Tasks[i] = t

\* No exception restarts the machine silently once the task register was loaded,
\* although the gates were made before the GDT they now refer to (idt.rs:206,
\* gdt.rs:238); and the double fault handler is never run by
\* a timer interrupt that arrives before the PIC is set up (keyboard.rs:100).
FaultsReported ==
    /\ lost => ~Passed("ltr")
    /\ mode = "hung" => doubled

\* The launch time has the date, minutes and seconds of the clock in each of its
\* modes, and its hour in the 24 hour binary mode (time.rs:271-291).
TimeFaithful ==
    RTC_SYNC_DONE =>
        \A f \in Fields :
            \/ LAUNCH_TIME[f] = clock.time[f]
            \/ f = "hour" /\ clock.mode # [binary |-> TRUE, h24 |-> TRUE]

\* "assert!(time.hour < 24);" (time.rs:340).
HourSane == RTC_SYNC_DONE => LAUNCH_TIME.hour < 24

\* "Press ESC to restart device" (panic.rs:249): a panic stays on the screen until
\* the user presses ESC.
PanicWaits == [][PanicPoll => esc]_vars

\* Whatever fails during startup, it reaches the poll loop, a panic or the prompt:
\* no task waits for a tick or an update with the interrupt flag clear
\* (time.rs:135, time.rs:236, gdt.rs:199).
BootFinishes == mode = "boot" ~> (mode # "boot" \/ Asking)

\* A sound ends, by itself or because of a panic; only the double fault handler
\* leaves the speaker as it is (speaker.rs:67-90, panic.rs:184).
SpeakerSilenced == speaker ~> (~speaker \/ mode \in {"hung", "reset"})

\* A panic ends with a restart when the user presses ESC, whether its interrupts
\* are on or off and whether the keyboard was initialised (panic.rs:251-261).
PanicRestarts == (mode = "panic" /\ esc) ~> (mode \in {"hung", "reset"} \/ ~esc)

=============================================================================
