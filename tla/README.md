# A TLA+ model of the sunflower kernel

Sunflower is a small x86_64 kernel in Rust: a single CPU, one main thread,
interrupt handlers that nest, a PS/2 keyboard, a floppy controller driven by
programmed I/O, a small filesystem on the floppy and a VGA text screen. This
directory holds TLA+ modules that model its core, TLC configurations that check
them, and TLAPS proofs of what holds for every value of the constants.
`PROJECT.json` says which lines of the source each definition stands for.

## Running it

    tlc -config FloppyMotor.cfg FloppyMotor         # any run of PROJECT.json
    tlc -config KeyboardRing.cfg MCKeyboard
    tlapm FloppyMotorProofs.tla                      # exits 0 when all is proved

## Inventory

| Component | State it keeps | Operations | Meets | What makes it correct |
|---|---|---|---|---|
| motor (`floppy/motor.rs`) | `MOTOR_STATE`, `MOTOR_TIME_LEFT`, the DOR | `enable_motor`, `disable_motor`, `force_disable`, `decrease_motor_time` | main thread, timer handler, panic | nobody leaves it spinning, the grace period is kept, a reset pulse is not disturbed |
| controller driver (`floppy.rs`, `fifo.rs`, `reset.rs`, `disk.rs`) | `FLOPPY_INIT`, the controller's phase and head | `init`, `read`, `write`, `seek`, `sense_int`, `send_command`, `init_fdc` | filesystem above, motor below | bounded retries, seek before transfer, in step with the controller |
| sector runs (`floppyfs.rs`, `disk.rs`) | the disk's contents | `read`, `write` | libfs above | exactly the requested sectors |
| filesystem (`libfs`) | inode table and bitmap, in memory and on disk | `reformat_drive`, `read_table`, `alloc_inode`, `alloc_bmp`, `alloc_next_bmp` | restarts | one user per block, table and disk agree |
| keyboard (`interrupts/keyboard.rs`) | scancode buffer and its indices, modifiers, last response | `kbd_handler`, `poll_keyboard`, `wait_for_response` | IRQ 1, poll loop | in order, at most once, modifiers follow the keys |
| interrupts (`idt.rs`, `pic.rs`) | in-service bits, handler count | handlers, `eoi`, `init` | all devices | own EOI, no re-entrance |
| time (`time.rs`) | `TIME`, `LAUNCH_TIME`, RTC flags, CMOS index | `wait`, `setup_rtc_int`, `wait_for_rtc_sync`, `sync_time_to_rtc` | timer and RTC handlers | the sync ends; index and data accesses stay paired |
| text buffer lock (`vga/buffers.rs`) | `BUFFER_HELD` | `try_yoink`, drop | every context that prints | one holder, never left held |
| printing, cursor (`vga.rs`, `vga/print.rs`, `vga/cursor.rs`) | cursor position, screen, alternate screen | `write_char`, `newline`, `delete_prev_char`, `clear`, `swap`, `draw_topbar` | buffer lock, timer handler, panic | position stays on the screen, no text lost or repeated |
| panic (`panic.rs`) | none of its own | `kpanic` | motor, buffer lock, speaker | hardware left safe, message readable, ESC restarts |
| startup (`main.rs`, `startup.rs`) | `*_INIT` flags | the task list of `kmain` | everything | every task ends, whichever others failed |
| segments and gates (`gdt.rs`, `idt.rs`) | GDT, TSS, IDT, the registers that point to them | `setup_tss`, `load_gdt`, `load_tss`, `load_idt` | startup order, exceptions | an exception always finds a usable gate |
| speaker (`speaker.rs`) | the speaker's gate bits | `play`, `stop`, `play_special`, `play_chime`, `play_song` | timer, panic | no sound without end |
| `libutil`, `cont_access.rs` | `InitLater`, `ExclusiveMap`, `UnsafeFlag`, `ContAccess` | `init`, `read`, `map`, `btemap`, `write` | every static | no access to uninitialised or aliased data |
| ports, sysinfo, tests, build tools | constants or output | | | |

The hard behaviours are: handlers that interrupt the main thread between any two
instructions, and each other, because every gate is a trap gate; loads and stores
of shared words that are not one atomic step; a controller that may answer late,
wrongly or not at all, met by retry loops nested three deep and a reset that
itself sends commands; 8- and 16-bit arithmetic that wraps (the kernel is built
with `--release`, so without overflow checks); a disk that outlives a restart; a
panic anywhere. `PROJECT.json` lists each of these hazards at its line.

## Modules

**FloppyMotor** has one step per access to a shared word or port in `motor.rs`,
with the callers of `fifo.rs`, `reset.rs`, `disk.rs`, `floppy.rs` and `panic.rs`
reduced to the calls they make. `Tick` is the whole timer handler: nothing that
nests inside it touches the motor. `pc` labels follow the code: `en_*` is
`enable_motor`, `dis_*` `disable_motor`, `by_*` the polling loop of `send_byte` and
`read_byte`, `rst_*` the pulse of `init_fdc`, `fd_*` `force_disable`. "owe" is the
point after an `enable_motor` of `init` or `init_fdc`, where the code always goes on
to send a byte. `Wait` may end at once, because `wait` returns when the PIT is not
initialised. `elapsed`, `waitLeft` and `sinceDisable` are distances to `TIME`.

**FloppyController** is the driver's call graph with an explicit stack, because
`send_command`, `init_fdc`, `sense_int` and `seek` call each other in a cycle and
each has its own retry count. The controller is nondeterministic: every command
may be taken or time out, every status may come back. Bytes are grouped: a command
with its parameters, the two bytes of a sense interrupt, and the data phase of a
transfer each succeed or fail as a whole. `head` is what the controller has proved
about its position, `phase` whether it is idle, executing, or offering results.
A command that fails resets the controller, the reset sends commands, and they may
fail in turn: `MaxResets` is how many calls of `init_fdc` the kernel's stack holds, and
the failure after that ends the call in a fault (`CommandOverflows`).

**FloppyFs** covers `floppyfs::read`/`write` and the checks and address arithmetic
of `disk.rs`, over an image of logical sectors. A part of a run works, is refused,
or fails with some of its sectors transferred.

**InodeTable** covers `libfs` and `init_floppyfs` over a disk that survives
`Restart`. An inode is free or has an identity and the raw bytes of its block
pointers, which `read_table` decodes; the header is its magic number and release.
`read_table` is a loop with a step per active inode (`ScanNod`), because that is how
the bitmap and the cached table come about and where a block used twice ends it.
It extends **FsCodecs**, the arithmetic of `DualBlockPtr`, `BlockPtr` and
`FsRelease`. `Nibble` scales the layout of the three bytes down: 16 in the code.

**Keyboard** covers the scancode path; a byte in the buffer is its number in order of
arrival, so that loss, duplication and reordering are visible. `LossyQueue` is what the
buffer promises: entries come out in order, each at most once. A key is the sequence
of codes that it sends and a code is a byte with or without the prefix E0 (PrtScr has
two, E0 12 and E0 7C); the decoder of `pc_keyboard` tells codes apart,
`keyboard_input` only their last bytes. Of the system commands only panic and restart appear, as the end of the poll loop; the others
are in Screen and Startup.

**Interrupts** covers startup up to the first CMOS read of the floppy driver: the
two PICs with their in-service bits and non-specific EOI, handlers as a stack, the
RTC's register C, the CMOS index. `irr` is the request latch.

**BufferLock** is the try-lock of the text buffer with contexts that nest, return
in order, or panic and never return. **Sync** extends it: the same contexts also
use one `InitLater`, one `ExclusiveMap` and one `ContAccess`, with a step for each
load and store of their state words. A value being written by `init` is `Torn`; the
value of a map is a counter, so a lost update shows. A context is inside at most
one primitive, because none of them calls another.

**Screen** is the text screen: cursor, `ALLOW_ROW_0`, the buffer, the alternate
buffer, as one record; every function of `vga/` is an operator on it. The main
thread prints in steps (read the cursor, hold, write, move), because a line
of the timer handler (`dbg_info!("floppy: motor off!")`, debug build), a panic or
a double fault can come between them. Moving the cursor, by a print or an arrow, is
four steps: the store of `set_row` or `set_col`, and the load and the two stores of
`clamp_row_col`; so is the clamp of `update_visual_pos`. The other operations store
positions that need no clamping and move the cursor in one step. `log`, `bar` and `prev` record what a reader
should see. `draw_topbar` and `wait` are split where they can be interrupted with
effect. Colours and most of the wording are left out; texts are as long as it
takes to scroll.

**Startup** follows one run of the machine: the thirteen tasks of `kmain` with
every exit code, then the poll loop with its sounds, panic and restart. It keeps
the CPU's side: interrupt flag, gates with the selector and stack they were made
with, the GDT by kinds of descriptors, CS and the task register. `Fault` is an
exception in the main thread, answered as the CPU would: through the gate if it is
usable, else by a reset. Controllers with modules of their own are their exit
codes here. Sounds are lists of `play`, `stop` and `wait`. It extends **Rtc**, the
conversion of the clock's registers by `sync_time_to_rtc`; the clock, in each of
its four modes, is external.

The `MC*` modules only define sets of inputs and sample values; `*Proofs` modules only prove.

## Runs

| Run | Shows | Bounds |
|---|---|---|
| FloppyMotor | No leak, undisturbed reset pulse, grace period, panic stops the motor, `MOTOR_ON` wrong only after a lost OFF; an idle driver ends with the motor off | grace 3, poll 2, spin-up 2, reset 1 ticks, counter modulo 6: a tick fits between any two steps, and the counter wraps |
| FloppyController | Retry budgets, seek before transfer, in step after a read, every call returns unless its resets overflow the stack | 2 retries each, a stack of 2 nested resets, 2 operations: every retry loop fails, retries and gives up, one inside another |
| FloppyFs | Reads of any length and writes of up to two tracks from the first track are faithful, other sectors untouched | 3 sectors, 2 heads, 3 cylinders, 2 calls; reads past the end included |
| KeyboardRing | The buffer implements `LossyQueue` and is drained | 3 slots, 9 scancodes: the handler laps the reader |
| KeyboardModifiers | Flags follow the keys while nothing is lost; one that two keys share is clear when neither is held and set when both are | left shift, PrtScr and SysRq, which share bit 0 of `SHIFT` and the SysRq flag; 10 bytes, 11 slots: PrtScr alone sends 4 and 6, and nothing wraps, since a wrap drops bytes. The right shift, control and alt keys are in the theorem, and in KeyboardShift.cfg |
| InodeTable | One user per block, exact bitmap, pointers survive their encoding, a mount has every inode of its disk, once and in order | every table of 4 inodes, 2 to a block, over six files whose pointers (three nibbles of 2 values) include the edges of the encoding, a null pointer between others and shared blocks; 3 allocations, 1 restart, 4 releases around the kernel's |
| InodeTableFormat | violated: the magic number on an unformatted table | as InodeTable, one release |
| Sync | One holder, never left held; initialised values whole and kept; no update lost; a `btemap` closure undisturbed | 4 nested contexts: a load, a nested whole call and a nested panic all fit; 2 updates |
| Interrupts | No EOI takes another handler's bit, no re-entrance, CMOS pair intact, timer and keyboard never shut out, the RTC sync ends | 2 nested handlers: every pair of interrupts, one within the other; spurious IRQs 7 and 15. With 3 it passes too, in some minutes |
| Screen | Positions valid after each store of the cursor, a line of the timer handler between any two; text neither lost nor repeated, with such lines between operations; previous screen kept, last message readable | 2 columns, 3 text rows and the topbar, 4 operations, 1 nested line: enough to wrap a row, scroll and delete backwards over an edge |
| Startup | Exceptions are reported once the task register is loaded, the launch time has the clock's date, startup ends, sounds end, ESC leaves a panic | bootloader selector 8, 2 times in 4 clock modes, a chime of 2 notes, a song with a repeated note, pulse 1 tick, 2 keys, 2 exceptions: an exception within a panic |
| StartupHour | violated: a launch hour of 24 or more | as Startup, 1 exception |

The type invariants and a few properties that others imply in practice are checked
by further configurations, `*More.cfg`, all of which pass: `TypeOK` (FloppyMotor,
FloppyController, FloppyFs, InodeTable), `CallsReturn` (FloppyMotor, FloppyFs),
`DisabledForGood`, `BarKept`, `NewerNoticed`, `FormattedIsEmpty`,
`ServedFromFirstTrack`. All of them but `CallsReturn` are theorems too. `TypeOK` of
Keyboard is a theorem and in KeyboardShift.cfg; `TypeOK` of BufferLock and of
Interrupts, and `DepthInStep`, are theorems only.

The mutants in `PROJECT.json` are small, plausible mistakes in the mapped
definitions; each of them makes TLC report the property it is paired with.

### Fairness

Safety needs none. `FloppyMotor`: the PIT keeps interrupting while interrupts are
enabled (`WF(Tick)`) and the main thread executes its next instruction
(`WF(Running)`, calls already begun; whether to call is free).
`FloppyController` and `FloppyFs`: the main thread goes on. `Keyboard`: the poll
loop is woken from `hlt` by the timer for ever. `Interrupts`: a running handler
goes on; the RTC keeps updating and interrupting; the PIC delivers IRQ 8, and the
main thread runs, if again and again they can (strong fairness, because interrupts
of higher priority disable them in between). `SyncFinishes` also assumes that, again and
again, the timer and the keyboard leave the CPU idle and the main PIC has no bit in
service: a storm of interrupts would starve the rest on the real machine too, and a bit
left by a spurious IRQ 15 shuts the RTC out, so that `wait_for_rtc_sync` would spin. `Startup`: the main thread goes on
(`WF(kmain)`), the timer and the clock interrupt again and again while the
interrupt flag is set (`WF(Tick)`, `WF(RtcUpdate)`). Nothing is assumed of the user
or of exceptions; `BootFinishes` therefore ends at the prompt of `init_floppyfs`.
`KeyPress` waits while a panic shows ESC in the port, because the panic loop reads
the port far more often than a hand can type.

### Where the code and its documentation differ

The two violation runs are listed as findings. The properties below are stated in
the modules and are violated as well; each cfg reproduces its counterexample but is
not a run of `PROJECT.json`:

| Property (cfg) | What happens |
|---|---|
| `OnMeansSpinning` (FloppyMotorOn) | `enable_motor` loads the state and stores ON without a compare-and-swap: an OFF of the timer in between is overwritten, against "The floppy's motor is on." (motor.rs:39). |
| `NothingDropped` (KeyboardDropped) | `poll_keyboard` takes `read_ptr >= write_ptr` for empty, so after the u8 index wraps the pending scancodes are skipped, and slot 255 is never handled, against "Circular scancode buffer" (keyboard.rs:47). |
| `WriteFaithful` (FloppyFsLongWrite) | `write` advances its block by `idx * CYL_BOUNDARY`, bytes instead of sectors: from the third part on it returns Ok with the data misplaced, against "allows writing over cylinder" boundaries (floppyfs.rs:63). |
| `PanicWaits` (StartupPanicWaits) | The panic loop compares whatever byte port 0x60 shows: if the last key before the panic was ESC it restarts at once, against "Press ESC to restart device" (panic.rs:249). |
| `ShiftBitsAreShifts` (KeyboardShift) | `keyboard_input` compares the last byte of a code, whatever its prefix: the E0 12 of PrtScr sets bit 0 of `SHIFT` with no shift held, against "Bit 0 - Left shift held" (keyboard.rs:63). |
| `LinesMissTopbar` (ScreenTopbar) | Down on the last row stores row 0 and clamps it afterwards (cursor.rs:147): a line of the timer handler in between begins in the topbar, against "Used to prevent overwriting topbar" (cursor.rs:32). TLC needs `-continue` to report this one and the next. |
| `TopbarShown` (ScreenTopbar) | A backspace at the start of row 1 deletes the topbar's last character, a swap shows the other buffer, and nothing redraws it, against "ran every second by kbd_poll_loop" (vga.rs:74). |
| `InitOnce` (SyncInitOnce) | An `init` nested between the load and the store of another succeeds, and so does the other, against "can only be initialised once" (sync.rs:203). The kernel initialises one static from a handler, `LAUNCH_TIME` (`rtc_handler`), and nothing else initialises it, so no `init` of it is nested in another. |
| `AnswerFollowsPrompt` (KeyboardPrompt) | `wait_for_response` accepts a key pressed before the prompt: `PREV_RESPONSE` is never cleared. |
| `ResetBetweenTransfers` (FloppyControllerReset) | A failed data byte leads to a retry whose first command times out, so `init_fdc` resets a controller that is executing a transfer. |
| `AnnouncedMeansFail` (FloppyControllerLockup) | A lockup during a reset disables the driver and announces it, but an outer retry goes on and may return Ok; `init` then sets `FLOPPY_INIT` again. |
| `NothingLeftInService` (InterruptsSpurious) | After a spurious IRQ 15 `dummy_handler` never acknowledges the cascade line of the main PIC: its bit 2 stays in service and the PIC delivers neither the RTC nor the floppy controller again, until the EOI of another handler happens to clear it, against "it's not that bad" (idt.rs:227). The timer and the keyboard are still served (`NeverDeaf`) and no handler is re-entered; both are proved. |
| `ServedAcrossTracks` (FloppyFsLaterRead) | `SECTORS - block` wraps for a run from a later track; if it crosses a boundary it is refused and the driver disabled. `ServedFromFirstTrack` is what does hold, and is proved. |
| `PastEndRefused` (FloppyFsPastEnd) | The cylinder is truncated to 8 bits, so far sectors alias existing ones. |
| `AllocPersists` (InodeTablePersist) | `write_inode_block` rounds the index where it should divide, and starts at the inode instead of at its block. |
| `ReturnsPointer` (InodeTablePointer) | `alloc_inode` returns a pointer one too small, null for the first inode. |
| `EveryInodeUsable` (InodeTableLast) | The slice `ptr..ptr + 4` is out of range for the last inodes. |

Seen while reading, and outside the models: `check_cpuid` (`sysinfo.rs`) saves its
registers at byte offsets 0, 1, 2 and 4 of one buffer, so they overlap and are not
all restored, and it executes `cpuid` with `eax = 0x200000` rather than leaf 0, so
the vendor it stores is not the vendor string. `BlockPtr::MAX_VAL` is 2^12, one more
than the twelve bits that `encode` keeps: a pointer cut to it becomes null on disk;
`PointersSurvive` excludes it, and no allocation reaches it.

## Proofs

Each `*Proofs` module has one inductive invariant, most of them called `IInv`, a lemma
that the initial states satisfy it, one that every step keeps it (a case per action),
and the theorems that follow. TLC checked each invariant on the bounds of the
component's run before it was proved. Hypotheses of a theorem on constants are
stated in the theorem, as facts about the machine that the code relies on.

| Module | For every | Given | Theorems about |
|---|---|---|---|
| FloppyMotorProofs | grace period, timeout, wait, counter width | `TIMEOUT < U16` | types and all five safety properties of the run |
| SyncProofs | nesting depth, number of updates | | of BufferLock types, `OneHolder`, `HeldByLive`; that Sync implements it; all six properties of the run |
| ConsoleProofs | buffer length, set of keys and of codes of a key, number of bytes; width and height of the screen, number of operations | | of Keyboard types, `InOrderAtMostOnce` (refinement of LossyQueue), `ModifiersTrackKeys`; of Screen `OnScreen`, `ShowsTail`, `PrevScreenKept`, `LastMessageReadable`, `BarKept` |
| InterruptsProofs | nesting depth, spurious interrupts | | types, `DepthInStep`, `OwnEoi`, `NotReentrant`, `CmosPairIntact`, `NeverDeaf` |
| StartupProofs | sounds, keys, bounds; times | the bootloader's CS is 8; times of 2000 to 2099 | `FaultsReported`; `TimeFaithful` |
| FloppyControllerProofs | retry count, nested resets the stack holds, operations | | types, `RetryBudget`, `ReadOkInSync`, `TransferOnCylinder`, `DisabledForGood` |
| FloppyFsProofs | geometry, set of requests | `RunsFit`, below | types, `ReadFaithful`, `WriteFaithful`, `OthersUntouched`, `ServedFromFirstTrack` |
| InodeTableProofs | table and block size, `Nibble`, set of files and of tables on the disk | pointers below `MAX_VAL` (an assumption of InodeTable); for `NewerNoticed` release dates in 64 years from 2025 and days below 512 | types, all four properties of the run, `FormattedIsEmpty`, `NewerNoticed`, and that `decode` inverts `encode` |

**FloppyMotorProofs.** The parts of `IInv` are needed because:

- the properties speak of the DOR and of `MOTOR_STATE` at some labels only, so
  `StateAtPc` and `DorAtPc` say what both are at the others (in particular that the
  state is ON during the whole reset pulse, which is what keeps the timer out);
- `SpinsUnlessLostOff` extends `OnUnlessLostOff` to DISABLING, from which
  `enable_motor` goes to ON without touching the DOR;
- `CountdownInStep` relates the counter to the ticks since the last
  `disable_motor`, which gives the grace period;
- `PanicAtPc` says what remains to be done at each label of `force_disable`, with a
  tick possible before each.

**SyncProofs.** For the buffer alone, `Shadowed` says that above a live holder everyone
is idle and `HolderSetsFlag` that a holder implies the flag: the load and the store of
`try_yoink` are not one step, but what nests between them has dropped the buffer
again before the outer context goes on. `ImplementsBufferLock` shows that steps of the
other primitives leave the buffer's variables alone, so this holds of the composition.
The rest of `SyncIInv` is one part per primitive. For `InitLater` it tracks what each unfinished `init` has loaded and will put back: `INIT` only over a
whole value, `INITIALISING` only above an `init` that has stored and not ended, and
never `UNINIT` once a call has succeeded; no property mentions these local copies, but
without them a call that fails could put an old state back. For `ExclusiveMap` and
`ContAccess` one live context at most is inside, and the flag is set while it is; for
`ContAccess` this needs `DepthCounted`, since the depth decides whether a handler
may enter.

**ConsoleProofs.** Of the keyboard, `QInv` describes the buffer by the lap that is being
written: slots below the write index hold this lap in order, the others older
scancodes, and nothing at or after the read index has been handled, also counted from
the write index that `poll_keyboard` loaded earlier. A lapped reader therefore skips
but never goes back. `ModifiersTrack` adds `KeyHistory`: the codes reported as down, and
what was sent of the code under way, after each byte sent so far; the flags and the
decoder agree with that history at the last byte handled. A flag agrees with a set of
codes if it is set only while one of them is down and surely while all are; this, not
equality, is what a press or a release of one key keeps when several share the flag.

Of the screen, `print` and what it appends to the text are recursive functions of the
position in the text. `PrintInduction` and `TextInduction` say what holds at every
position if it holds at the first and each character keeps it; they are proved by the
smallest position at which it fails, from the well-foundedness of the natural
numbers. `ScreenInv` joins the properties with three parts that none of them mentions:
`RowAllowed` (without `ALLOW_ROW_0` the cursor is in row 0 only where an arrow has stored
it and the clamp has not, so never where a print goes on), `LabelInStep` (at
which labels row 0 is allowed and the buffer is held, and what the locals hold there)
and `TailInStep` (how much of the log is on the screen at each label, as long as nothing
printed in between). What the screen shows depends on the flags, and the flags on the
label and the locals, so no part is kept without the others.

**InterruptsProofs.** The frames on the stack that have not sent their EOI have their
in-service bits set, and their priorities rise towards the innermost. A non-specific EOI
clears the highest bit, which is its sender's or one above it that no pending frame
owns; either way the others keep theirs. An interrupt is delivered only above all bits,
so two pending frames never have the same line. What a spurious interrupt leaves in
service is bit 2 or, when an EOI has cleared that instead of its own, bit 6 of the main
PIC: bits 0 and 1 and those of the secondary PIC are exactly those of the pending
frames. That gives `OwnEoi` and `NeverDeaf` with no assumption on spurious interrupts.
`RtcInv` adds that a handler that is past its test has not been overtaken by
a finished sync, which keeps it away from the CMOS while `floppy::init` reads. The
handler count is an argument of its own, by the cardinality of the frames between
`savestate!` and `restore_state!`.

**StartupProofs.** `BootInv` ties each table to the task that loads it: gates made in
task 2 carry the bootloader's selector, the GDT of task 4 has code at selector 8, and
`ltr` passes only with GDT and TSS in place. With another bootloader selector the
theorem is false, and so is the code's assumption. `LaunchTimeFaithful` rests on
`BcdRoundTrip` for numbers below 100 and on the registers' fields in each mode; the
years are those of `CENTURY`, a constant of the code.

**FloppyControllerProofs.** The frames are counted from the outermost call. `CallGraph`
says which function may wait for which, at which label, and that a frame inside a
retry loop has a retry left; `Budget` that the transfers issued and the retries left
add up to at most the limit, plus one between issuing a transfer and hearing of
it; `HeadProved` that from the RQM wait of `send_read_write` on the head is on the
target: resets of any depth may come in between, and none of them moves it. That they
do not is where the call graph is needed: a `seek` never waits below an `init_fdc`.
`StaysDisabled` needs only that the driver's functions run on a stack that is not empty.
The depth of resets is the cardinality of the `init_fdc` frames. Only `CommandFails`
nests one in another, below the bound; at the bound the call overflows, and the one of
a lockup after a seek and the one of `init` find no other on the stack.

**FloppyFsProofs.** `RunsFit` says that a geometry fits the bytes of a CHS address (fewer
sectors than a byte counts, as they start at 1), that requests end below what the
cylinder's byte and the 16 bits of `disk.rs` can name, and that a write which starts
on the first track spans two tracks at most. The last two are the limits beyond
which `PastEndRefused` and `WriteFaithful` of FloppyFsLongWrite fail; reads have any
length, and may start anywhere. `ChsInverse` shows that the controller's reading of
`lba_to_chs(l)` is sector `l`. The invariant adds that every part but the first starts
on a track boundary and that the sectors before the current part are already in place.
`TrackAccepted` shows that the checks of `disk.rs` pass for any existing sectors on one
track, and `PartOnTrack` that every part of a run from the first track, or of one within
a track, is of that kind: `ServedFromFirstTrack` is the complement of the
counterexample to `ServedAcrossTracks`.

**InodeTableProofs.** The properties speak of a mounted filesystem; `IInv` extends them to
the loop that mounts it. Between two inodes the bitmap is exact for the inodes kept so
far and no block has two users (`Exact`), the slots behind them are still zeroed and
fewer inodes were kept than read (`Loop`), and before the loop the statics are as
they were made (`Untouched`), which is why the loop may start from them after a
restart. `AddNod` is the step all of it turns on: an inode whose pointers `alloc_bmp`
accepted one after the other takes a zeroed slot. `MinIsIn`, that the first free slot and the
first free block are free, is proved from the well-foundedness of the natural
numbers. `MountComplete` counts the inodes in use: between two inodes of the loop as many
were kept as were in use before (`Placed`), so each goes to its rank among them, where no
later one can overwrite it. `ReleasesOrdered` shows that the sixteen bits of a release compare as its date
does; `Compared` carries the outcome of that comparison from the header to the mounted
filesystem, through the format that replaces it.

Only model-checked:

- liveness (`MotorEventuallyOff`, `EventuallyDrained`, `CallsReturn`, `SyncFinishes`,
  `BootFinishes`, `SpeakerSilenced`, `PanicRestarts`): it needs fairness and ENABLED,
  which the proof system does not handle.

Every invariant and every action property that a run or a `*More.cfg` checks is a
theorem. The two violated properties, and those of the table above, have none.

## Not modelled

Ports (single instructions, their effects are in the modules of the devices), the
fields of system information (read and formatted), the build tools and the test
harness. Which character a scancode prints and the bytes of the PS/2 dialogue of
`keyboard::init` belong to a library; Startup keeps the order of its steps and the
failure of each. Exceptions that continue (`cont_wrapper`) print and return. The
bits of descriptors and gates, frequencies and colours are constants that no control
depends on. The empty buffer of `disk::read`/`write` returns Ok with a warning;
FloppyFs has that case, FloppyController leaves it out. How deep `send_command`,
`init_fdc`, `sense_int` and `seek` can recurse is not bounded by the code;
in FloppyController it ends in the overflow at `MaxResets`, whatever follows a stack
overflow being left out. Scancodes that arrive before `KBD_INIT`
are acknowledged unread; whether the controller then interrupts again depends on its
output buffer, which the models do not represent. A failed write in `alloc_inode`
leaves the new inode in the cached table; InodeTable takes that step, and nothing in
the code says whether it is meant. Compiler reordering of relaxed atomics is not
modelled: each access is taken in program order, as the kernel's build emits it.

## Plan

What is left is beyond the proof system or outside the models:

1. The liveness properties, for every value of the constants. A variant for `CallsReturn`
   (labels and retries left in each frame, compared from the outermost) would leave
   only the fairness of the main thread to TLC.
2. A model of the keyboard controller's output buffer, for the scancodes that arrive
   before `KBD_INIT`.
