----------------------------- MODULE Keyboard -----------------------------
(***************************************************************************)
(* The PS/2 keyboard path: kernel/src/interrupts/keyboard.rs and the poll  *)
(* loop and yes/no prompt of kernel/src/interrupts.rs.                     *)
(*                                                                         *)
(* kbd_handler (an interrupt, masked by its own cli) writes the circular   *)
(* buffer; the main thread polls it. A byte in the buffer is represented   *)
(* by its number in the order of arrival, 0 standing for the zeroed        *)
(* static; which byte it is, is sent[number].                              *)
(*                                                                         *)
(* A key is the sequence of codes that it sends, a code is a byte with or  *)
(* without the prefix E0. Most keys have one code; PrtScr has two, E0 12   *)
(* and E0 7C.                                                              *)
(***************************************************************************)
EXTENDS Naturals, Sequences

CONSTANTS
    Keys,      \* keys of the keyboard
    BUF_LEN,   \* slots of KBD_BUF and modulus of its two u8 indices (256)
    MaxSent    \* bound on the bytes the keyboard sends

ShiftBytes == {"12", "59"}          \* left, right
SysRqBytes == {"7F", "7C"}
Answers    == {"35", "31", "5A"}    \* y, n, enter
Bytes      == ShiftBytes \cup SysRqBytes \cup Answers
                \cup {"11", "14", "03", "0C", "1C"}    \* alt, ctrl, F5, F4, any other

AllBytes   == Bytes \cup {"E0", "F0"}

\* The codes pc_keyboard knows: each is a key of its own to it.
Codes == ({"none"} \X Bytes) \cup ({"E0"} \X {"11", "12", "14", "5A", "7C"})

ASSUME KeyboardConstants ==
    /\ BUF_LEN \in Nat \ {0} /\ MaxSent \in Nat
    /\ \A k \in Keys : k \in Seq(Codes) /\ k # <<>>

Ctrl  == {<<"none", "14">>, <<"E0", "14">>}
Alt   == {<<"none", "11">>, <<"E0", "11">>}
Fatal == {<<"none", "0C">>, <<"none", "03">>}    \* F4 panics, F5 is a triple fault

VARIABLES
    KBD_INIT,      \* the startup flag that kbd_handler checks
    KBD_BUF, KBD_RPTR, KBD_WPTR, PREV_RESPONSE,
    SHIFT,         \* the bytes of ShiftBytes whose bit is set
    SYSRQ,
    mods,          \* the modifier codes pc_keyboard takes for held
    decoder,       \* what pc_keyboard's decoder has seen of a code
    sent,          \* the bytes the keyboard has sent, in order
    down,          \* the codes it has reported as down: <<key, index>>
    event,         \* the code it is sending, of which key and in which direction
    stage,         \* what it has sent of that code
    pc, write_ptr, \* the main thread and poll_keyboard's local copy
    handled,       \* history: number of the last byte taken off the buffer
    taken,         \* history: how many bytes were taken off the buffer
    asked,         \* history: bytes sent before the prompt was printed
    answer         \* history: number of the byte the prompt returned on

buf  == <<KBD_BUF, KBD_WPTR, PREV_RESPONSE>>
dev  == <<sent, down, event, stage>>
keys == <<SHIFT, SYSRQ, mods, decoder>>
hist == <<handled, taken, asked, answer>>
vars == <<KBD_INIT, KBD_BUF, KBD_RPTR, KBD_WPTR, PREV_RESPONSE, SHIFT, SYSRQ,
          mods, decoder, sent, down, event, stage, pc, write_ptr, handled,
          taken, asked, answer>>

Pc == {"startup", "ask", "poll", "compare", "stopped"}

\* How far a code has been sent, or decoded.
Stages == {"start", "extended", "release", "extended_release"}
Prefix(s) == IF s \in {"extended", "extended_release"} THEN "E0" ELSE "none"
Released(s) == IF s = "extended" THEN "extended_release" ELSE "release"

Idle   == [key |-> <<>>, i |-> 0, way |-> "none"]
Events == UNION {[key : {k}, i : DOMAIN k, way : {"make", "break"}] : k \in Keys}
Parts  == UNION {{k} \X DOMAIN k : k \in Keys}

Init ==
    /\ KBD_INIT = FALSE
    /\ KBD_BUF = [i \in 0..(BUF_LEN - 1) |-> 0]
    /\ KBD_RPTR = 0 /\ KBD_WPTR = 0 /\ PREV_RESPONSE = 0
    /\ SHIFT = {} /\ SYSRQ = FALSE /\ mods = {}
    /\ decoder = "start"
    /\ sent = <<>> /\ down = {} /\ event = Idle /\ stage = "start"
    /\ pc = "startup" /\ write_ptr = 0
    /\ handled = 0 /\ taken = 0 /\ asked = 0 /\ answer = 0

----------------------------------------------------------------------------
(* The keyboard and its interrupt. *)

\* kbd_handler: store the byte at the old write index, which has advanced.
\* A slot still ahead of the reader is overwritten without a check.
kbd_handler(n) ==
    /\ KBD_BUF' = [KBD_BUF EXCEPT ![KBD_WPTR] = n]
    /\ KBD_WPTR' = (KBD_WPTR + 1) % BUF_LEN
    /\ PREV_RESPONSE' = n

\* One byte arrives and interrupts.
Send(c) ==
    /\ KBD_INIT /\ Len(sent) < MaxSent
    /\ sent' = Append(sent, c)
    /\ kbd_handler(Len(sent'))
    /\ UNCHANGED <<KBD_INIT, KBD_RPTR, keys, pc, write_ptr, hist>>

\* The keys all of whose codes are reported as down.
Held == {k \in Keys : \A i \in DOMAIN k : <<k, i>> \in down}

\* A key sends its codes in order when it goes down and while it is held, and
\* in the opposite order, each with the prefix F0, when it is released.
FirstCodes == {[key |-> k, i |-> 1, way |-> "make"] : k \in Keys} \cup
              {[key |-> k, i |-> Len(k), way |-> "break"] : k \in Held}

NextCode(e) ==
    IF e.i = (IF e.way = "make" THEN Len(e.key) ELSE 1) THEN Idle
    ELSE [e EXCEPT !.i = IF e.way = "make" THEN @ + 1 ELSE @ - 1]

LastStage(prefix, way) ==
    IF way = "make" THEN IF prefix = "E0" THEN "extended" ELSE "start"
                    ELSE IF prefix = "E0" THEN "extended_release" ELSE "release"

\* The next byte of the code: E0, F0 and the byte itself, as far as it has them.
SendExtended(e) ==
    /\ stage = "start" /\ e.key[e.i][1] = "E0"
    /\ Send("E0") /\ stage' = "extended" /\ event' = e
    /\ UNCHANGED down

SendRelease(e) ==
    /\ e.way = "break" /\ stage = LastStage(e.key[e.i][1], "make")
    /\ Send("F0") /\ stage' = Released(stage) /\ event' = e
    /\ UNCHANGED down

SendLast(e) ==
    /\ stage = LastStage(e.key[e.i][1], e.way)
    /\ Send(e.key[e.i][2]) /\ stage' = "start" /\ event' = NextCode(e)
    /\ down' = IF e.way = "make" THEN down \cup {<<e.key, e.i>>}
                                 ELSE down \ {<<e.key, e.i>>}

KeyboardSends ==
    \E e \in IF event = Idle THEN FirstCodes ELSE {event} :
        SendExtended(e) \/ SendRelease(e) \/ SendLast(e)

----------------------------------------------------------------------------
(* The main thread during startup. *)

\* init ran to its end: the handler starts to accept scancodes.
init ==
    /\ pc = "startup" /\ ~KBD_INIT
    /\ KBD_INIT' = TRUE
    /\ UNCHANGED <<buf, KBD_RPTR, dev, keys, pc, write_ptr, hist>>

\* kbd_wait_for_response prints its prompt.
kbd_wait_for_response ==
    /\ pc = "startup" /\ KBD_INIT /\ pc' = "ask"
    /\ asked' = Len(sent) /\ answer' = 0
    /\ UNCHANGED <<KBD_INIT, buf, KBD_RPTR, dev, keys, write_ptr,
                   handled, taken>>

\* wait_for_response spins until the last byte is that of an answer.
wait_for_response ==
    /\ pc = "ask" /\ pc' = "startup"
    /\ PREV_RESPONSE # 0 /\ sent[PREV_RESPONSE] \in Answers
    /\ answer' = PREV_RESPONSE
    /\ UNCHANGED <<KBD_INIT, buf, KBD_RPTR, dev, keys, write_ptr, handled,
                   asked, taken>>

StartupDone ==
    /\ pc = "startup" /\ pc' = "poll"
    /\ UNCHANGED <<KBD_INIT, buf, KBD_RPTR, dev, keys, write_ptr, hist>>

----------------------------------------------------------------------------
(* kbd_poll_loop: one byte per round. *)

\* poll_keyboard loads both indices; only the write index can change under it.
PollLoad ==
    /\ pc = "poll" /\ pc' = "compare"
    /\ write_ptr' = KBD_WPTR
    /\ UNCHANGED <<KBD_INIT, buf, KBD_RPTR, dev, keys, hist>>

\* Mutant: the read index starts over when the write index has wrapped.
PollEmptyToZero ==
    /\ pc = "compare" /\ KBD_RPTR >= write_ptr
    /\ KBD_RPTR' = 0
    /\ pc' = "poll"
    /\ UNCHANGED <<KBD_INIT, buf, dev, keys, write_ptr, hist>>

\* Mutant: the read index stays where it is.
PollEmptyStays ==
    /\ pc = "compare" /\ KBD_RPTR >= write_ptr
    /\ pc' = "poll"
    /\ UNCHANGED <<KBD_INIT, buf, KBD_RPTR, dev, keys, write_ptr, hist>>

\* read_ptr >= write_ptr: the read index jumps to the write index. kbd.clear
\* resets the bit register, which add_byte does not use.
PollEmpty ==
    /\ pc = "compare" /\ KBD_RPTR >= write_ptr
    /\ KBD_RPTR' = write_ptr
    /\ pc' = "poll"
    /\ UNCHANGED <<KBD_INIT, buf, dev, keys, write_ptr, hist>>

\* process_keyevent of pc_keyboard tracks the control and alt keys.
process_keyevent(code, way) ==
    mods' = IF way = "break" THEN mods \ {code}
                             ELSE mods \cup ({code} \cap (Ctrl \cup Alt))

\* check_syscmd: of the system commands only panic and restart matter here.
check_syscmd(code, way) ==
    /\ way = "make" /\ code \in Fatal
    /\ SYSRQ \/ (mods \cap Ctrl # {} /\ mods \cap Alt # {})

\* Mutant: the shift bit is flipped by every code that has its byte.
keyboard_input_flips(code, way) ==
    /\ SHIFT' = IF code[2] \in SHIFT THEN SHIFT \ {code[2]}
                                      ELSE SHIFT \cup ({code[2]} \cap ShiftBytes)
    /\ SYSRQ' = IF code[2] \in SysRqBytes THEN way = "make" ELSE SYSRQ
    /\ process_keyevent(code, way)
    /\ pc' = IF check_syscmd(code, way) THEN "stopped" ELSE "poll"

\* keyboard_input: the shift and SysRq flags follow the last byte of the code,
\* whatever its prefix; pc_keyboard's modifiers follow the code.
keyboard_input(code, way) ==
    /\ SHIFT' = IF way = "make" THEN SHIFT \cup ({code[2]} \cap ShiftBytes)
                                ELSE SHIFT \ {code[2]}
    /\ SYSRQ' = IF code[2] \in SysRqBytes THEN way = "make" ELSE SYSRQ
    /\ process_keyevent(code, way)
    /\ pc' = IF check_syscmd(code, way) THEN "stopped" ELSE "poll"

\* kbd.add_byte of pc_keyboard: a prefix yields no event, and neither does a
\* code it does not know, which can only be left by lost bytes.
add_byte(c) ==
    \/ /\ \/ c = "E0" /\ decoder = "start" /\ decoder' = "extended"
          \/ c = "F0" /\ decoder \in {"start", "extended"} /\ decoder' = Released(decoder)
       /\ pc' = "poll" /\ UNCHANGED <<SHIFT, SYSRQ, mods>>
    \/ LET code == <<Prefix(decoder), c>> IN
       /\ ~(c = "E0" /\ decoder = "start")
       /\ ~(c = "F0" /\ decoder \in {"start", "extended"})
       /\ decoder' = "start"
       /\ \/ code \in Codes
             /\ keyboard_input(code, IF decoder \in {"start", "extended"} THEN "make"
                                                                        ELSE "break")
          \/ code \notin Codes /\ pc' = "poll" /\ UNCHANGED <<SHIFT, SYSRQ, mods>>

\* Otherwise one byte is taken off the buffer and decoded.
PollTake ==
    /\ pc = "compare" /\ KBD_RPTR < write_ptr
    /\ LET n == KBD_BUF[KBD_RPTR] IN
         /\ add_byte(sent[n])
         /\ handled' = n
         /\ taken' = taken + 1
    /\ KBD_RPTR' = (KBD_RPTR + 1) % BUF_LEN
    /\ UNCHANGED <<KBD_INIT, buf, dev, write_ptr, asked, answer>>

poll_keyboard == PollLoad \/ PollEmpty \/ PollTake

----------------------------------------------------------------------------

Next ==
    \/ KeyboardSends
    \/ init \/ kbd_wait_for_response \/ wait_for_response \/ StartupDone
    \/ poll_keyboard

Spec == Init /\ [][Next]_vars

\* The poll loop runs for ever: the timer ends every hlt.
FairSpec == Spec /\ WF_vars(poll_keyboard) /\ WF_vars(wait_for_response)

----------------------------------------------------------------------------
(* Properties. *)

\* Every variable keeps its type; the indices stay inside KBD_BUF when the u8
\* arithmetic wraps.
TypeOK ==
    /\ KBD_INIT \in BOOLEAN /\ SYSRQ \in BOOLEAN
    /\ sent \in Seq(AllBytes) /\ Len(sent) <= MaxSent
    /\ KBD_BUF \in [0..(BUF_LEN - 1) -> 0..Len(sent)]
    /\ KBD_RPTR \in 0..(BUF_LEN - 1) /\ KBD_WPTR \in 0..(BUF_LEN - 1)
    /\ write_ptr \in 0..(BUF_LEN - 1)
    /\ PREV_RESPONSE \in 0..Len(sent)
    /\ SHIFT \subseteq ShiftBytes /\ mods \subseteq Ctrl \cup Alt
    /\ decoder \in Stages /\ pc \in Pc
    /\ down \subseteq Parts /\ event \in Events \cup {Idle} /\ stage \in Stages
    /\ handled \in Nat /\ taken \in Nat /\ asked \in Nat /\ answer \in Nat

\* poll_keyboard hands bytes to the decoder in order and never twice,
\* however far the handler runs ahead of it or laps it.
Queue == INSTANCE LossyQueue WITH sent <- Len(sent), last <- handled
InOrderAtMostOnce == Queue!Spec

\* The keys with a code whose byte is one of B.
WithByte(B) == {k \in Keys : \E i \in DOMAIN k : k[i][2] \in B}

\* A flag that the keys of K share: some of them is held while it is set, and it
\* is set while all of them are held.
Follows(flag, K) ==
    /\ flag => K \cap Held # {}
    /\ K # {} /\ K \subseteq Held => flag

\* Every byte so far was handled, and no key event is half sent.
CaughtUp == pc = "poll" /\ taken = Len(sent) /\ event = Idle

\* The modifier flags agree with the keys that are really held whenever every
\* byte so far was handled: no interleaving of presses, repeats and releases with
\* the poll loop leaves a modifier stuck. keyboard_input looks at the last byte of
\* a code only, so all keys with that byte share the flag: left shift and PrtScr
\* bit 0 of SHIFT, SysRq, PrtScr and the keypad's * the SysRq flag.
ModifiersTrackKeys ==
    CaughtUp =>
        /\ \A b \in ShiftBytes : Follows(b \in SHIFT, WithByte({b}))
        /\ Follows(SYSRQ, WithByte(SysRqBytes))
        /\ \A c \in Ctrl \cup Alt :
              Follows(c \in mods, {k \in Keys : \E i \in DOMAIN k : k[i] = c})

\* "Bit 0 - Left shift held", "Bit 1 - Right shift held" (keyboard.rs:63): the
\* bits of SHIFT are those of the two shift keys.
ShiftBitsAreShifts ==
    CaughtUp => SHIFT = {b \in ShiftBytes : << <<"none", b>> >> \in Held}

\* Once the keyboard pauses, the poll loop catches up with the handler.
EventuallyDrained ==
    <>[][~KeyboardSends]_vars =>
        <>[](pc \in {"poll", "compare"} => KBD_RPTR = KBD_WPTR)

\* "Circular scancode buffer" (keyboard.rs:47): while fewer than BUF_LEN
\* bytes are unhandled none can have been overwritten, so equal indices
\* mean that all of them were handled.
NothingDropped ==
    pc = "poll" /\ KBD_RPTR = KBD_WPTR /\ Len(sent) - handled < BUF_LEN =>
        handled = Len(sent)

\* "Waits for the user to type either `y` or `n`." (interrupts.rs:127): the
\* prompt is answered by a key typed after it was printed.
AnswerFollowsPrompt == answer # 0 => answer > asked

=============================================================================
