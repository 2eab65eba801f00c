------------------------------ MODULE Screen ------------------------------
(***************************************************************************)
(* The VGA text screen: kernel/src/vga.rs, vga/print.rs, vga/cursor.rs and *)
(* vga/buffers.rs, with the keys that draw on it (interrupts/keyboard.rs), *)
(* the waiting character (time.rs) and the two last writers, kpanic and    *)
(* print_df_info.                                                          *)
(*                                                                         *)
(* The main thread prints one character in the steps an interrupt can come *)
(* between: it reads the cursor, yoinks the buffer, writes, moves on. To   *)
(* move the cursor it stores a row or a column, loads both to clamp them   *)
(* and stores both again; so does an arrow key. What comes between is a    *)
(* panic, or in a debug_info build the timer handler's "motor off" line,   *)
(* printed over whatever the main thread was doing. The system commands,   *)
(* backspace and the topbar move the cursor in one step each: what they    *)
(* store needs no clamping.                                                *)
(*                                                                         *)
(* The screen is one record, so that an operation is a function from       *)
(* screens to screens and a system command is their composition. A cell is *)
(* its character; colours are left out.                                    *)
(***************************************************************************)
EXTENDS Naturals, Sequences

CONSTANTS
    W, H,        \* BUFFER_WIDTH and BUFFER_HEIGHT
    MaxOps,      \* bound on the operations of the main thread
    MaxNested    \* bound on the lines printed by the timer handler

ASSUME ScreenConstants ==
    W \in Nat \ {0, 1} /\ H \in Nat \ {0, 1, 2}

VARIABLES
    scr,     \* the cursor, ALLOW_ROW_0, BUFFER_HELD, BUFFER and ALT
    visual,  \* the position in the cursor registers of the VGA
    at,      \* where the main thread is
    pend,    \* the locals of write_char, newline, draw_topbar, wait and clamp_row_col
    phase,   \* startup, the poll loop, or the last message is on the screen
    ops, nested,
    log,     \* history: the lines printed since the last clear
    intact,  \* history: nothing but printing has happened since
    bar,     \* history: row 0 as the last operation that owns it left it
    prev     \* history: the screen that was stored in ALT, if still there

screenVars == <<scr, visual, at, pend, phase, ops, nested, log, intact, bar, prev>>

NL      == "\n"
SPACE   == " "
WAITING == "w"
Rows    == 0..(H - 1)
Columns == 0..(W - 1)

empty_buffer == [r \in Rows |-> [c \in Columns |-> SPACE]]

----------------------------------------------------------------------------
(* vga/cursor.rs *)

\* Mutant: the topbar row is not kept from the cursor.
clamp_row_col_any(s) ==
    [s EXCEPT !.row = IF s.row > H - 1 THEN H - 1 ELSE s.row,
              !.col = IF s.col > W - 1 THEN W - 1 ELSE s.col]

clamp_row_col(s) ==
    [s EXCEPT !.row = CASE s.row > H - 1             -> H - 1
                        [] s.row = 0 /\ ~s.row0      -> 1
                        [] OTHER                     -> s.row,
              !.col = IF s.col > W - 1 THEN W - 1 ELSE s.col]

set_row(s, r) == clamp_row_col([s EXCEPT !.row = r])
set_col(s, c) == clamp_row_col([s EXCEPT !.col = c])

\* The value update_visual_pos writes to the cursor registers.
update_visual_pos(s) == s.row * W + s.col

\* What shift_cursor has set_col or set_row store, before it is clamped.
shift_store(s, direction) ==
    CASE direction = "Left"  -> [s EXCEPT !.col = IF s.col = 0 THEN W - 1 ELSE s.col - 1]
      [] direction = "Right" -> [s EXCEPT !.col = IF s.col < W - 1 THEN s.col + 1 ELSE 0]
      [] direction = "Up"    -> [s EXCEPT !.row = IF s.row = 1 THEN H - 1 ELSE s.row - 1]
      [] direction = "Down"  -> [s EXCEPT !.row = IF s.row < H - 1 THEN s.row + 1 ELSE 0]

shift_cursor(s, direction) == clamp_row_col(shift_store(s, direction))

----------------------------------------------------------------------------
(* vga/print.rs and vga/buffers.rs, each operation as a whole *)

\* A write to the buffer, for the holder of it.
put(s, r, c, char) == [s EXCEPT !.buf[r][c] = char]

\* The end of newline: row is what it read before it moved the cursor.
newline_end(s, row) ==
    IF row >= H - 1
    THEN [s EXCEPT !.buf =
            [r \in Rows |-> CASE r = H - 1             -> empty_buffer[r]
                              [] r = 0 /\ ~s.row0      -> s.buf[r]
                              [] OTHER                 -> s.buf[r + 1]]]
    ELSE set_row(s, row + 1)

newline(s) == IF s.held THEN s ELSE newline_end(set_col(s, 0), s.row)

write_char(s, char) ==
    LET t == IF s.held THEN s ELSE put(s, s.row, s.col, char)
    IN  CASE char = NL                      -> newline(s)
          [] char # NL /\ s.col >= W - 1    -> newline(t)
          [] OTHER                          -> set_col(t, s.col + 1)

\* _print: a string, character by character.
print(s, str) ==
    LET after[i \in 0..Len(str)] == IF i = 0 THEN s ELSE write_char(after[i - 1], str[i])
    IN  after[Len(str)]

\* delete_prev_char at column 0 blanks the end of the row above, the topbar's
\* when the cursor is in row 1, and then wraps in both directions.
delete_prev_char(s) ==
    IF s.col = 0
    THEN shift_cursor(shift_cursor(put(s, s.row - 1, W - 1, SPACE), "Left"), "Up")
    ELSE shift_cursor(put(s, s.row, s.col - 1, SPACE), "Left")

clear(s) ==
    LET t == set_row(set_col(s, 0), 1)
    IN  IF s.held THEN t ELSE [t EXCEPT !.buf = empty_buffer]

\* swap exchanges the buffers and leaves the cursor.
swap(s) == IF s.held THEN s ELSE [s EXCEPT !.buf = s.alt, !.alt = s.buf]

\* draw_topbar up to its print, and its print with what restores the cursor. The
\* text is exactly one row.
topbar_begin(s) == set_col(set_row([s EXCEPT !.row0 = TRUE], 0), 0)

Topbar == [i \in 1..W |-> "t"]

topbar_end(s, row, col) ==
    set_col(set_row([print(s, Topbar) EXCEPT !.row0 = FALSE], row), col)

\* The text of the commands, of the messages and of vga::init, shortened to what
\* scrolls a screen of three rows.
Hello      == <<NL, "h", NL>>
HelpText   == <<NL, "s", NL, "s">>
MotorOff   == <<"d", NL>>
PanicText  == <<"=", NL, "K", NL, "P">>
DoubleText == <<"K", NL, "P">>

----------------------------------------------------------------------------
(* History: what a reader of the screen expects *)

\* The log keeps as many lines as fit under the topbar, the last one open.
AppendChar(lines, char) ==
    LET last == Len(lines)
        full == [lines EXCEPT ![last] = Append(@, char)]
        kept == CASE char = NL          -> Append(lines, <<>>)
                  [] char # NL /\ Len(full[last]) = W -> Append(full, <<>>)
                  [] OTHER              -> full
    IN  IF Len(kept) > H - 1 THEN Tail(kept) ELSE kept

AppendText(lines, str) ==
    LET after[i \in 0..Len(str)] ==
            IF i = 0 THEN lines ELSE AppendChar(after[i - 1], str[i])
    IN  after[Len(str)]

NoLog    == << <<>> >>
NoPend   == [char |-> SPACE, row |-> 0, col |-> 0, text |-> <<>>,
             then |-> "idle", new_row |-> 0, new_col |-> 0]
NoScreen == <<>>

----------------------------------------------------------------------------
ScreenInit ==
    \* vga::init has run: kmain's first task.
    /\ scr = print(clear([row |-> 0, col |-> 0, row0 |-> FALSE, held |-> FALSE,
                          buf |-> empty_buffer, alt |-> empty_buffer]), Hello)
    /\ visual = W
    /\ at = "idle" /\ pend = NoPend /\ phase = "startup"
    /\ ops = 0 /\ nested = 0
    /\ log = AppendText(NoLog, Hello) /\ intact = TRUE
    /\ bar = empty_buffer[0] /\ prev = NoScreen

\* The main thread starts an operation.
Starts ==
    /\ at = "idle" /\ phase # "last" /\ ops < MaxOps
    /\ ops' = ops + 1
    /\ UNCHANGED nested

Running(here) == at = here /\ phase # "last" /\ UNCHANGED <<ops, nested>>

(* set_row and set_col: the store is in the step that calls them, which says where *)
(* the main thread goes on; clamp_row_col follows.                                *)

\* Where the main thread is, but for the clamp.
Place == IF at \in {"stored", "loaded", "rowed"} THEN pend.then ELSE at

\* Both atomics are loaded, and clamped in registers,
ClampLoad ==
    /\ Running("stored")
    /\ pend' = [pend EXCEPT !.new_row = clamp_row_col(scr).row,
                            !.new_col = clamp_row_col(scr).col]
    /\ at' = "loaded"
    /\ UNCHANGED <<scr, visual, phase, log, intact, bar, prev>>

\* then the row is stored,
ClampRow ==
    /\ Running("loaded")
    /\ scr' = [scr EXCEPT !.row = pend.new_row] /\ at' = "rowed"
    /\ UNCHANGED <<visual, pend, phase, log, intact, bar, prev>>

\* and the column.
ClampCol ==
    /\ Running("rowed")
    /\ scr' = [scr EXCEPT !.col = pend.new_col] /\ at' = pend.then
    /\ pend' = IF pend.then = "idle" THEN NoPend ELSE pend
    /\ UNCHANGED <<visual, phase, log, intact, bar, prev>>

clamp == ClampLoad \/ ClampRow \/ ClampCol

(* print! and println! of the startup tasks and of print_char *)

PrintRead ==
    /\ Starts
    /\ at' = "read" /\ pend' = [NoPend EXCEPT !.char = "a", !.row = scr.row,
                                              !.col = scr.col]
    /\ UNCHANGED <<scr, visual, phase, log, intact, bar, prev>>

PrintHold ==
    /\ Running("read")
    /\ scr' = [scr EXCEPT !.held = TRUE] /\ at' = "held"
    /\ UNCHANGED <<visual, pend, phase, log, intact, bar, prev>>

PrintPut ==
    /\ Running("held")
    /\ scr' = [put(scr, pend.row, pend.col, pend.char) EXCEPT !.held = FALSE]
    /\ at' = "put"
    /\ UNCHANGED <<visual, pend, phase, log, intact, bar, prev>>

PrintMove ==
    /\ Running("put") /\ pend.col < W - 1
    /\ scr' = [scr EXCEPT !.col = pend.col + 1]
    /\ at' = "stored" /\ pend' = NoPend /\ log' = AppendChar(log, pend.char)
    /\ UNCHANGED <<visual, phase, intact, bar, prev>>

\* newline, for a full row and for a newline character. It holds the buffer
\* while it moves the cursor.
NewlineHold ==
    /\ \/ /\ Running("put") /\ pend.col >= W - 1
          /\ pend' = [pend EXCEPT !.row = scr.row, !.then = "newline"]
       \/ /\ Starts
          /\ pend' = [NoPend EXCEPT !.char = NL, !.row = scr.row, !.then = "newline"]
    /\ scr' = [scr EXCEPT !.col = 0, !.held = TRUE]
    /\ at' = "stored"
    /\ UNCHANGED <<visual, phase, log, intact, bar, prev>>

NewlineScroll ==
    /\ Running("newline") /\ pend.row >= H - 1
    /\ scr' = [newline_end(scr, pend.row) EXCEPT !.held = FALSE]
    /\ at' = "idle" /\ pend' = NoPend /\ log' = AppendChar(log, pend.char)
    /\ UNCHANGED <<visual, phase, intact, bar, prev>>

NewlineMove ==
    /\ Running("newline") /\ pend.row < H - 1
    /\ scr' = [scr EXCEPT !.row = pend.row + 1]
    /\ at' = "stored" /\ pend' = [NoPend EXCEPT !.then = "drop"]
    /\ log' = AppendChar(log, pend.char)
    /\ UNCHANGED <<visual, phase, intact, bar, prev>>

NewlineDrop ==
    /\ Running("drop")
    /\ scr' = [scr EXCEPT !.held = FALSE]
    /\ at' = "idle" /\ pend' = NoPend
    /\ UNCHANGED <<visual, phase, log, intact, bar, prev>>

(* The poll loop: arrows, backspace and the system commands *)

check_arrows ==
    /\ Starts /\ phase = "loop"
    /\ \E direction \in {"Left", "Right", "Up", "Down"} :
          scr' = shift_store(scr, direction)
    /\ at' = "stored" /\ intact' = FALSE
    /\ UNCHANGED <<visual, pend, phase, log, bar, prev>>

Backspace ==
    /\ Starts /\ phase = "loop"
    /\ scr' = delete_prev_char(scr) /\ bar' = scr'.buf[0]
    /\ intact' = (intact /\ scr.col > 0)
    /\ log' = IF scr.col > 0 THEN [log EXCEPT ![Len(log)] = SubSeq(@, 1, Len(@) - 1)]
                             ELSE log
    /\ UNCHANGED <<visual, at, pend, phase, prev>>

\* update_visual_pos in kbd_poll_loop, every tenth tick: it clamps, then it writes
\* the registers.
PollClamp ==
    /\ at = "idle" /\ phase = "loop"
    /\ at' = "stored" /\ pend' = [NoPend EXCEPT !.then = "visual"]
    /\ UNCHANGED <<scr, visual, phase, ops, nested, log, intact, bar, prev>>

PollVisual ==
    /\ Running("visual")
    /\ visual' = update_visual_pos(scr)
    /\ at' = "idle" /\ pend' = NoPend
    /\ UNCHANGED <<scr, phase, log, intact, bar, prev>>

\* SysCmd 6.
SwapBuffers ==
    /\ Starts /\ phase = "loop"
    /\ scr' = swap(scr) /\ bar' = scr'.buf[0]
    /\ intact' = FALSE /\ prev' = NoScreen
    /\ UNCHANGED <<visual, at, pend, phase, log>>

\* draw_topbar begins on screen s and text follows it.
BeginTopbar(s, text) ==
    /\ scr' = topbar_begin(s)
    /\ at' = "topbar"
    /\ pend' = [NoPend EXCEPT !.row = s.row, !.col = s.col, !.text = text]

\* kmain after the startup tasks.
StartupTopbar ==
    /\ at = "idle" /\ phase = "startup" /\ phase' = "loop"
    /\ BeginTopbar(scr, <<NL>>)
    /\ UNCHANGED <<visual, ops, nested, log, intact, bar, prev>>

\* SysCmd 2.
ClearScreen ==
    /\ Starts /\ phase = "loop"
    /\ LET s == clear(scr) IN BeginTopbar(s, <<>>) /\ visual' = update_visual_pos(s)
    /\ log' = NoLog /\ intact' = TRUE
    /\ UNCHANGED <<phase, bar, prev>>

\* Mutant: the screen is cleared before it is stored.
PrintHelpClearsFirst ==
    /\ Starts /\ phase = "loop"
    /\ LET s == swap(clear(scr)) IN BeginTopbar(s, HelpText) /\ visual' = update_visual_pos(s)
    /\ log' = NoLog /\ intact' = TRUE /\ prev' = scr.buf
    /\ UNCHANGED <<phase, bar>>

\* SysCmds 1 and 7: print_sysinfo and print_help. The first ends on the last row.
PrintHelp ==
    /\ Starts /\ phase = "loop"
    /\ LET s == clear(swap(scr)) IN BeginTopbar(s, HelpText) /\ visual' = update_visual_pos(s)
    /\ log' = NoLog /\ intact' = TRUE /\ prev' = scr.buf
    /\ UNCHANGED <<phase, bar>>

\* Mutant: the cursor is not put back.
TopbarEndStays ==
    /\ Running("topbar")
    /\ LET s == print([print(scr, Topbar) EXCEPT !.row0 = FALSE], pend.text)
       IN  scr' = s /\ bar' = s.buf[0]
    /\ at' = "idle" /\ pend' = NoPend /\ log' = AppendText(log, pend.text)
    /\ UNCHANGED <<visual, phase, intact, prev>>

\* The rest of draw_topbar and of the command that called it.
TopbarEnd ==
    /\ Running("topbar")
    /\ LET s == print(topbar_end(scr, pend.row, pend.col), pend.text)
       IN  \/ scr' = s /\ log' = AppendText(log, pend.text) /\ UNCHANGED intact
           \/ /\ pend.text = HelpText       \* print_sysinfo's last line
              /\ scr' = print(set_row(set_col(s, 0), H - 1), <<"s">>)
              /\ intact' = FALSE /\ UNCHANGED log
    /\ bar' = scr'.buf[0]
    /\ at' = "idle" /\ pend' = NoPend
    /\ UNCHANGED <<visual, phase, prev>>

(* wait: the waiting character in the top right corner *)

WaitBegin ==
    /\ Starts
    /\ pend' = [NoPend EXCEPT !.char = scr.buf[0][W - 1]]
    /\ scr' = put(scr, 0, W - 1, WAITING)
    /\ at' = "wait"
    /\ UNCHANGED <<visual, phase, log, intact, bar, prev>>

WaitEnd ==
    /\ Running("wait")
    /\ scr' = put(scr, 0, W - 1, pend.char)
    /\ at' = "idle" /\ pend' = NoPend
    /\ UNCHANGED <<visual, phase, log, intact, bar, prev>>

----------------------------------------------------------------------------
(* What comes between *)

\* decrease_motor_time reports that the motor is off, in a debug_info build. When
\* the last row's Down has stored row 0 and not clamped it yet the line begins in
\* the topbar's row.
MotorOffLine ==
    /\ phase # "last" /\ nested < MaxNested
    /\ nested' = nested + 1
    /\ scr' = print(scr, MotorOff)
    /\ log' = AppendText(log, MotorOff)
    /\ intact' = (intact /\ at \in {"idle", "wait"})
    /\ bar' = IF scr.row = 0 /\ ~scr.row0 THEN scr'.buf[0] ELSE bar
    /\ UNCHANGED <<visual, at, pend, phase, ops, prev>>

\* Mutant: the panic leaves the buffer to whoever held it.
KpanicHeld ==
    /\ phase # "last"
    /\ \E first \in {<<>>, MotorOff} :
          scr' = print([print(scr, first) EXCEPT !.row0 = TRUE], PanicText)
    /\ visual' = update_visual_pos(scr') /\ phase' = "last"
    /\ UNCHANGED <<at, pend, ops, nested, log, intact, bar, prev>>

\* kpanic from any point; force_disable may report the motor first.
Kpanic ==
    /\ phase # "last"
    /\ \E first \in {<<>>, MotorOff} :
          scr' = print([print(scr, first) EXCEPT !.row0 = TRUE, !.held = FALSE],
                       PanicText)
    /\ visual' = update_visual_pos(scr') /\ phase' = "last"
    /\ UNCHANGED <<at, pend, ops, nested, log, intact, bar, prev>>

print_df_info ==
    /\ phase # "last"
    /\ LET s == clear([scr EXCEPT !.held = FALSE])
       IN  scr' = print(s, DoubleText) /\ visual' = update_visual_pos(s)
    /\ phase' = "last"
    /\ UNCHANGED <<at, pend, ops, nested, log, intact, bar, prev>>

PrintStep == PrintRead \/ PrintHold \/ PrintPut \/ PrintMove
               \/ NewlineHold \/ NewlineScroll \/ NewlineMove \/ NewlineDrop

check_syscmd_draws == SwapBuffers \/ ClearScreen \/ PrintHelp

ScreenNext == PrintStep \/ clamp \/ check_arrows \/ Backspace
          \/ PollClamp \/ PollVisual \/ check_syscmd_draws
          \/ StartupTopbar \/ TopbarEnd \/ WaitBegin \/ WaitEnd
          \/ MotorOffLine \/ Kpanic \/ print_df_info

ScreenSpec == ScreenInit /\ [][ScreenNext]_screenVars

----------------------------------------------------------------------------

\* Every index into the buffer is valid: the cursor and the positions that
\* write_char, newline, draw_topbar and clamp_row_col keep are on the screen, at each
\* of their steps and although the timer handler moves the cursor between any two
\* (cursor.rs:64-90). Without ALLOW_ROW_0 the cursor is in the topbar's row only
\* until clamp_row_col has stored the row it loaded; delete_prev_char, which begins
\* when no other operation runs, relies on row - 1 (print.rs:223).
OnScreen ==
    /\ scr.row \in Rows /\ scr.col \in Columns
    /\ scr.row = 0 /\ ~scr.row0 => at \in {"stored", "loaded"}
    /\ pend.row \in Rows /\ pend.col \in Columns
    /\ pend.new_row \in Rows /\ pend.new_col \in Columns

\* While nothing but printing has happened since the last clear, the rows under
\* the topbar show the last lines printed, blank after their ends, and the cursor
\* stands at the end of the last one: newline's scrolling (print.rs:191-213) and
\* the wrapping of write_char lose and repeat nothing, with draw_topbar, waits and
\* whole lines of the timer handler in between.
ShowsTail ==
    intact /\ at \in {"idle", "wait"} /\ phase # "last" =>
        /\ scr.row = Len(log) /\ scr.col = Len(log[Len(log)])
        /\ \A r \in 1..(H - 1), c \in Columns :
              scr.buf[r][c] = IF r <= Len(log) /\ c < Len(log[r])
                              THEN log[r][c + 1] ELSE SPACE

\* Only draw_topbar, clear, swap, the backspace that reaches it and a line of the
\* timer handler that finds the cursor in it change row 0: printing, scrolling and
\* the arrows leave it alone ("Used to prevent overwriting topbar", cursor.rs:32),
\* and so does a wait, but for its character while it lasts.
BarKept ==
    phase # "last" /\ at # "topbar" =>
        scr.buf[0] = IF at = "wait" THEN [bar EXCEPT ![W - 1] = WAITING] ELSE bar

\* "Previous screen stored in alt buffer (Use SysCmd 6)" (keyboard.rs:255): what
\* the screen showed when SysCmd 1 or 7 was pressed stays in ALT until the next
\* swap, whatever is printed, cleared or deleted meanwhile.
PrevScreenKept == prev # NoScreen => scr.alt = prev

\* The last message is readable whatever it interrupted: a print that held the
\* buffer, a scroll, the topbar, a wait. Its lines after the first stand at the
\* start of the last two rows used ("Whoever was using the buffer is long gone
\* now", panic.rs:187).
LastMessageReadable ==
    phase = "last" => /\ scr.row >= 1
                      /\ scr.buf[scr.row][0] = "P" /\ scr.buf[scr.row - 1][0] = "K"

\* Expected of ALLOW_ROW_0, "Used to prevent overwriting topbar" (cursor.rs:32),
\* and not true: once the startup has drawn it, the topbar is on the screen.
TopbarShown ==
    phase = "loop" /\ at = "idle" /\ nested = 0 => scr.buf[0] = [c \in Columns |-> "t"]

\* Expected of ALLOW_ROW_0 as well, and not true between Down's store of row 0 and
\* its clamp (cursor.rs:147): a line of the timer handler leaves row 0 alone.
LinesMissTopbar ==
    [][nested' # nested /\ at # "topbar" => scr'.buf[0] = scr.buf[0]]_screenVars

============================================================================
