------------------------- MODULE FloppyController -------------------------
(***************************************************************************)
(* The floppy driver's conversation with the 82077AA controller:           *)
(* kernel/src/floppy.rs (init) and fifo.rs, reset.rs and disk.rs below it. *)
(*                                                                         *)
(* The driver runs on the main thread only; what is nondeterministic is    *)
(* the controller. The call stack is explicit because the functions call   *)
(* each other in a cycle (send_command resets, the reset sends commands)   *)
(* and because each keeps its own retry budget. Bytes are grouped: sending *)
(* a command with its parameters, reading a sense interrupt's two bytes    *)
(* and the data phase of a sector run succeed or fail as a whole.          *)
(***************************************************************************)
EXTENDS Naturals, Sequences, FiniteSets

CONSTANTS
    RETRIES,       \* of send_command and seek (5)
    SEEK_RETRIES,  \* of send_read_write (5)
    DISK_RETRIES,  \* of read and write (8)
    MaxResets,     \* nested init_fdc calls that the kernel's stack holds
    MaxOps         \* bound on the disk operations of a behaviour

ASSUME ControllerConstants ==
    /\ RETRIES \in Nat \ {0} /\ SEEK_RETRIES \in Nat \ {0}
    /\ DISK_RETRIES \in Nat \ {0} /\ MaxResets \in Nat \ {0} /\ MaxOps \in Nat

VARIABLES
    FLOPPY_INIT,  \* the startup flag that guards floppy::disk
    stack,        \* the driver's calls, innermost first
    ret,          \* what the call that has just returned returned
    result,       \* what the last disk operation or init returned
    phase,        \* the controller: idle, executing a transfer, result bytes
    head,         \* where the controller last proved the head to be
    inRange,      \* the operation's sectors exist and lie on one track
    space,        \* FLOPPY_SPACE is a capacity that init_fdc supports
    booted,       \* floppy::init has returned
    ops,          \* history: disk operations begun
    issued,       \* history: transfer commands sent for this operation
    announced     \* history: "All following floppy operations will fail"

ctl  == <<phase, head>>
env  == <<inRange, space>>
hist == <<ops, issued>>
vars == <<FLOPPY_INIT, stack, ret, result, phase, head, inRange, space,
          booted, ops, issued, announced>>

Transfers == {"read", "write"}
Targets   == {"home", "target"}
Exec      == [read |-> "exec_read", write |-> "exec_write"]
Executing == phase \in {"exec_read", "exec_write"}

\* A call in progress: function, argument, label and remaining retries.
Frame(fn, arg, at, n) == [fn |-> fn, arg |-> arg, at |-> at, n |-> n]

Top == Head(stack)
On(fn, at) == stack # <<>> /\ Top.fn = fn /\ Top.at = at

Call(at, f)  == stack' = <<f, [Top EXCEPT !.at = at]>> \o Tail(stack)
                  /\ ret' = "none"
Jump(at, n)  == stack' = <<[Top EXCEPT !.at = at, !.n = n]>> \o Tail(stack)
                  /\ ret' = "none"
Return(r)    == stack' = Tail(stack) /\ ret' = r

Init ==
    /\ FLOPPY_INIT = FALSE /\ booted = FALSE /\ announced = FALSE
    /\ stack = <<Frame("init", "boot", "version", 0)>>
    /\ ret = "none" /\ result = <<"init", "none">>
    /\ phase \in {"idle", "result"} /\ head = "unknown"
    /\ space \in BOOLEAN /\ inRange = TRUE
    /\ ops = 0 /\ issued = 0

----------------------------------------------------------------------------
(* fifo.rs *)

NestedResets == Cardinality({i \in DOMAIN stack : stack[i].fn = "init_fdc"})

\* What an accepted command does to the controller.
Accept(cmd) ==
    \/ cmd \in Transfers /\ phase' = Exec[cmd] /\ UNCHANGED head
    \/ cmd = "version" /\ phase' = "result" /\ UNCHANGED head
    \/ cmd \in Targets /\ head' = "unknown" /\ UNCHANGED phase
    \/ cmd \in {"configure", "specify"} /\ UNCHANGED ctl

\* All bytes of the command were taken. During a write's data phase the
\* controller takes them for data.
CommandTaken ==
    /\ On("send_command", "send") /\ Top.n > 0
    /\ \/ phase = "idle" /\ Accept(Top.arg)
       \/ phase = Exec["write"] /\ UNCHANGED ctl
    /\ Return("ok")
    /\ issued' = IF Top.arg \in Transfers THEN issued + 1 ELSE issued
    /\ UNCHANGED <<FLOPPY_INIT, result, env, booted, ops, announced>>

\* A byte timed out: cmd_err and param_err reset the controller. The reset sends
\* commands, which fail and reset in turn, to any depth.
CommandFails ==
    /\ On("send_command", "send") /\ Top.n > 0
    /\ NestedResets < MaxResets
    /\ Call("reset", Frame("init_fdc", "fdc", "pulse", 0))
    /\ UNCHANGED <<FLOPPY_INIT, result, ctl, env, booted, hist, announced>>

\* One reset more than the kernel's stack holds: the call ends here, in a fault.
CommandOverflows ==
    /\ On("send_command", "send") /\ Top.n > 0
    /\ NestedResets = MaxResets
    /\ Jump("overflow", Top.n)
    /\ UNCHANGED <<FLOPPY_INIT, result, ctl, env, booted, hist, announced>>

\* Mutant: a retry after a reset costs nothing.
CommandAfterResetFree ==
    /\ On("send_command", "reset")
    /\ \/ ret = "ok" /\ Jump("send", Top.n)
       \/ ret = "err" /\ Return("err")
    /\ UNCHANGED <<FLOPPY_INIT, result, ctl, env, booted, hist, announced>>

\* After a reset that worked the command is tried again; a failed one is final.
CommandAfterReset ==
    /\ On("send_command", "reset")
    /\ \/ ret = "ok" /\ Jump("send", Top.n - 1)
       \/ ret = "err" /\ Return("err")
    /\ UNCHANGED <<FLOPPY_INIT, result, ctl, env, booted, hist, announced>>

CommandGivesUp ==
    /\ On("send_command", "send") /\ Top.n = 0
    /\ Return("err")
    /\ UNCHANGED <<FLOPPY_INIT, result, ctl, env, booted, hist, announced>>

send_command == CommandTaken \/ CommandFails \/ CommandOverflows
                  \/ CommandAfterReset \/ CommandGivesUp

\* sense_int: the bytes fail (the command byte or, with it taken, a result
\* byte), or ST0 passes, or it reports anything else.
SenseBytesFail ==
    /\ On("sense_int", "read")
    /\ UNCHANGED phase \/ (phase = "idle" /\ phase' = "result")
    /\ Return("err")
    /\ UNCHANGED <<FLOPPY_INIT, result, head, env, booted, hist, announced>>

SensePasses ==
    /\ On("sense_int", "read") /\ phase = "idle"
    /\ head' = IF Top.arg \in Targets THEN Top.arg ELSE head
    /\ Return("ok")
    /\ UNCHANGED <<FLOPPY_INIT, result, phase, env, booted, hist, announced>>

\* ResendCommand, CommandFailed or UnknownError; the later sense interrupts of
\* a reset accept every ST0 but a lockup.
SenseRejects ==
    /\ On("sense_int", "read") /\ phase = "idle" /\ Top.arg # "other_reset"
    /\ Return("err")
    /\ UNCHANGED <<FLOPPY_INIT, result, ctl, env, booted, hist, announced>>

\* controller_lockup after a reset: the driver is locked up as well.
SenseLockupInReset ==
    /\ On("sense_int", "read") /\ phase = "idle"
    /\ Top.arg \in {"first_reset", "other_reset"}
    /\ FLOPPY_INIT' = FALSE /\ announced' = TRUE
    /\ Return("err")
    /\ UNCHANGED <<result, ctl, env, booted, hist>>

\* controller_lockup after a seek: reset, and report an error either way. No
\* reset seeks, so this one is never nested in another.
SenseLockupInSeek ==
    /\ On("sense_int", "read") /\ phase = "idle" /\ Top.arg \in Targets
    /\ Call("lockup", Frame("init_fdc", "fdc", "pulse", 0))
    /\ UNCHANGED <<FLOPPY_INIT, result, ctl, env, booted, hist, announced>>

SenseAfterLockup ==
    /\ On("sense_int", "lockup") /\ ret # "none"
    /\ Return("err")
    /\ UNCHANGED <<FLOPPY_INIT, result, ctl, env, booted, hist, announced>>

sense_int == SenseBytesFail \/ SensePasses \/ SenseRejects
               \/ SenseLockupInReset \/ SenseLockupInSeek \/ SenseAfterLockup

\* seek: a failed send_command is returned, a failed sense_int retried.
seek ==
    /\ \/ /\ On("seek", "start") /\ Top.n > 0
          /\ Call("sent", Frame("send_command", Top.arg, "send", RETRIES))
       \/ On("seek", "start") /\ Top.n = 0 /\ Return("err")
       \/ On("seek", "sent") /\ ret = "err" /\ Return("err")
       \/ /\ On("seek", "sent") /\ ret = "ok"
          /\ Call("sensed", Frame("sense_int", Top.arg, "read", 0))
       \/ On("seek", "sensed") /\ ret = "ok" /\ Return("ok")
       \/ On("seek", "sensed") /\ ret = "err" /\ Jump("start", Top.n - 1)
    /\ UNCHANGED <<FLOPPY_INIT, result, ctl, env, booted, hist, announced>>

----------------------------------------------------------------------------
(* reset.rs *)

\* The DOR pulse stops whatever the controller was doing; four sense
\* interrupts must follow.
ResetPulse ==
    /\ On("init_fdc", "pulse")
    /\ phase' = "idle"
    /\ Jump("sense", 4)
    /\ UNCHANGED <<FLOPPY_INIT, result, head, env, booted, hist, announced>>

\* The rest of init_fdc: configure, check the capacity, specify.
ResetRest ==
    /\ \/ /\ On("init_fdc", "sense") /\ Top.n > 0
          /\ Call("sensed", Frame("sense_int",
                    IF Top.n = 4 THEN "first_reset" ELSE "other_reset", "read", 0))
       \/ On("init_fdc", "sensed") /\ ret = "ok" /\ Jump("sense", Top.n - 1)
       \/ On("init_fdc", "sense") /\ Top.n = 0 /\ Jump("configure", 0)
       \/ /\ On("init_fdc", "configure")
          /\ Call("configured", Frame("send_command", "configure", "send", RETRIES))
       \/ /\ On("init_fdc", "configured") /\ ret = "ok" /\ space
          /\ Call("specified", Frame("send_command", "specify", "send", RETRIES))
       \/ On("init_fdc", "configured") /\ ret = "ok" /\ ~space /\ Return("err")
       \/ On("init_fdc", "specified") /\ ret = "ok" /\ Return("ok")
       \/ /\ Top.fn = "init_fdc" /\ Top.at \in {"sensed", "configured", "specified"}
          /\ ret = "err" /\ Return("err")
    /\ UNCHANGED <<FLOPPY_INIT, result, ctl, env, booted, hist, announced>>

init_fdc == ResetPulse \/ (stack # <<>> /\ ResetRest)

----------------------------------------------------------------------------
(* disk.rs *)

\* Mutant: the seek to the cylinder is left out.
send_read_write_no_seek ==
    /\ \/ On("send_read_write", "check") /\ ~FLOPPY_INIT /\ Return("err")
       \/ /\ On("send_read_write", "check") /\ FLOPPY_INIT
          /\ Jump("recal", SEEK_RETRIES)
       \/ On("send_read_write", "recal") /\ Top.n = 0 /\ Return("err")
       \/ /\ On("send_read_write", "recal") /\ Top.n > 0
          /\ Call("seeked", Frame("seek", "home", "start", RETRIES))
       \/ On("send_read_write", "seeked") /\ ret = "err" /\ Return("err")
       \/ On("send_read_write", "seeked") /\ ret = "ok" /\ Jump("rqm", Top.n)
       \/ On("send_read_write", "rqm") /\ Return("err")
       \/ /\ On("send_read_write", "rqm")
          /\ Call("sent", Frame("send_command", Top.arg, "send", RETRIES))
       \/ On("send_read_write", "sent") /\ ret = "ok" /\ Return("ok")
       \/ On("send_read_write", "sent") /\ ret = "err" /\ Jump("recal", Top.n - 1)
    /\ UNCHANGED <<FLOPPY_INIT, result, ctl, env, booted, hist, announced>>

\* send_read_write: check the flag, then recalibrate, seek, wait for RQM (which
\* may time out) and send the command. A sector run that crosses a track or the
\* end of the drive fails its checks.
send_read_write ==
    /\ \/ /\ On("send_read_write", "check") /\ ~(FLOPPY_INIT /\ inRange)
          /\ Return("err")
       \/ /\ On("send_read_write", "check") /\ FLOPPY_INIT /\ inRange
          /\ Jump("recal", SEEK_RETRIES)
       \/ On("send_read_write", "recal") /\ Top.n = 0 /\ Return("err")
       \/ /\ On("send_read_write", "recal") /\ Top.n > 0
          /\ Call("homed", Frame("seek", "home", "start", RETRIES))
       \/ On("send_read_write", "homed") /\ ret = "err" /\ Return("err")
       \/ /\ On("send_read_write", "homed") /\ ret = "ok"
          /\ Call("seeked", Frame("seek", "target", "start", RETRIES))
       \/ On("send_read_write", "seeked") /\ ret = "err" /\ Return("err")
       \/ On("send_read_write", "seeked") /\ ret = "ok" /\ Jump("rqm", Top.n)
       \/ On("send_read_write", "rqm") /\ Return("err")
       \/ /\ On("send_read_write", "rqm")
          /\ Call("sent", Frame("send_command", Top.arg, "send", RETRIES))
       \/ On("send_read_write", "sent") /\ ret = "ok" /\ Return("ok")
       \/ On("send_read_write", "sent") /\ ret = "err" /\ Jump("recal", Top.n - 1)
    /\ UNCHANGED <<FLOPPY_INIT, result, ctl, env, booted, hist, announced>>

\* read or write is called: without the driver, or with a buffer that is not a
\* number of sectors, it fails at once. (An empty buffer is a caller's slip that
\* returns Ok with a warning; it is left out.)
DiskCall(op) ==
    /\ booted /\ stack = <<>> /\ ops < MaxOps
    /\ ops' = ops + 1 /\ issued' = 0
    /\ \/ /\ FLOPPY_INIT
          /\ stack' = <<Frame("disk", op, "attempt", DISK_RETRIES)>>
          /\ result' = <<op, "none">>
          /\ head' = "unknown" \* this operation's cylinder is another
       \/ result' = <<op, "err">> /\ UNCHANGED <<stack, head>>
    /\ ret' = "none"
    /\ inRange' \in BOOLEAN
    /\ UNCHANGED <<FLOPPY_INIT, phase, space, booted, announced>>

\* The retry loop: send_read_write, then the data phase.
DiskAttempt ==
    /\ \/ /\ On("disk", "attempt") /\ Top.n > 0
          /\ Call("sent", Frame("send_read_write", Top.arg, "check", 0))
       \/ On("disk", "sent") /\ ret = "ok" /\ Jump("data", Top.n)
       \/ On("disk", "sent") /\ ret = "err" /\ Jump("attempt", Top.n - 1)
    /\ UNCHANGED <<FLOPPY_INIT, result, ctl, env, booted, hist, announced>>

DiskReturns(r) ==
    /\ stack' = <<>> /\ ret' = "none"
    /\ result' = <<Top.arg, r>>

\* All data bytes went through; the controller then offers result bytes, which
\* read collects and write does not.
DataDone ==
    /\ On("disk", "data") /\ phase = Exec[Top.arg]
    /\ phase' = "result"
    /\ \/ Top.arg = "read" /\ Jump("status", Top.n) /\ UNCHANGED result
       \/ Top.arg = "write" /\ DiskReturns("ok")
    /\ UNCHANGED <<FLOPPY_INIT, head, env, booted, hist, announced>>

\* Mutant: a failed byte does not cost a retry.
DataByteFailsFree ==
    /\ On("disk", "data")
    /\ Jump("attempt", Top.n)
    /\ UNCHANGED <<FLOPPY_INIT, result, ctl, env, booted, hist, announced>>

\* read_byte or send_byte timed out in the data phase: continue 'retry.
DataByteFails ==
    /\ On("disk", "data")
    /\ Jump("attempt", Top.n - 1)
    /\ UNCHANGED <<FLOPPY_INIT, result, ctl, env, booted, hist, announced>>

\* wait_for_rqm timed out in the data phase: returned with ?, no retry.
DataRqmFails ==
    /\ On("disk", "data")
    /\ DiskReturns("err")
    /\ UNCHANGED <<FLOPPY_INIT, ctl, env, booted, hist, announced>>

\* Mutant: the status of the result bytes is taken without reading them.
read_write_status_unread ==
    /\ On("disk", "status")
    /\ DiskReturns("ok")
    /\ UNCHANGED <<FLOPPY_INIT, ctl, env, booted, hist, announced>>

\* read_write_status: RQM or a byte times out, or the seven bytes are read and
\* their bits say whether the command passed.
read_write_status ==
    /\ On("disk", "status")
    /\ \/ DiskReturns("err") /\ UNCHANGED phase
       \/ phase = "result" /\ phase' = "idle" /\ \E r \in {"ok", "err"} : DiskReturns(r)
    /\ UNCHANGED <<FLOPPY_INIT, head, env, booted, hist, announced>>

\* Out of retries: the driver is disabled for good.
DiskGivesUp ==
    /\ On("disk", "attempt") /\ Top.n = 0
    /\ FLOPPY_INIT' = FALSE /\ announced' = TRUE
    /\ DiskReturns("err")
    /\ UNCHANGED <<ctl, env, booted, hist>>

disk == DiskAttempt \/ DataDone \/ DataByteFails \/ DataRqmFails
          \/ read_write_status \/ DiskGivesUp

----------------------------------------------------------------------------
(* floppy.rs *)

InitReturns(r) ==
    /\ stack' = <<>> /\ ret' = "none" /\ booted' = TRUE
    /\ result' = <<"init", r>>

\* init: version, configure, init_fdc and a recalibrate, each checked with ?.
InitCalls ==
    /\ \/ /\ On("init", "version")
          /\ Call("read", Frame("send_command", "version", "send", RETRIES))
       \/ /\ On("init", "configure")
          /\ Call("reset", Frame("send_command", "configure", "send", RETRIES))
       \/ /\ On("init", "reset") /\ ret = "ok"
          /\ Call("recal", Frame("init_fdc", "fdc", "pulse", 0))
       \/ /\ On("init", "recal") /\ ret = "ok"
          /\ Call("done", Frame("seek", "home", "start", RETRIES))
    /\ UNCHANGED <<FLOPPY_INIT, result, ctl, env, booted, hist, announced>>

\* read_byte returns the version of a 82077AA.
InitVersion ==
    /\ On("init", "read") /\ ret = "ok" /\ phase = "result"
    /\ phase' = "idle"
    /\ Jump("configure", 0)
    /\ UNCHANGED <<FLOPPY_INIT, result, head, env, booted, hist, announced>>

\* The CMOS names no drive, a call failed, or the version byte did not come or
\* was the wrong one.
InitFails ==
    /\ stack # <<>> /\ Top.fn = "init"
    /\ Top.at = "version" \/ ret = "err" \/ (Top.at = "read" /\ ret = "ok")
    /\ InitReturns("err")
    /\ UNCHANGED <<FLOPPY_INIT, ctl, env, hist, announced>>

InitDone ==
    /\ On("init", "done") /\ ret = "ok"
    /\ FLOPPY_INIT' = TRUE
    /\ InitReturns("ok")
    /\ UNCHANGED <<ctl, env, hist, announced>>

init == InitCalls \/ InitVersion \/ InitFails \/ InitDone

----------------------------------------------------------------------------
(* The controller on its own: a transfer ends early with result bytes. *)

TransferAborts ==
    /\ Executing /\ phase' = "result"
    /\ UNCHANGED <<FLOPPY_INIT, stack, ret, result, head, env, booted, hist,
                   announced>>

Driver == send_command \/ sense_int \/ seek \/ init_fdc \/ send_read_write
            \/ disk \/ init

Next == Driver \/ TransferAborts \/ \E op \in Transfers : DiskCall(op)

Spec == Init /\ [][Next]_vars

\* The driver's code runs on; operations are optional.
FairSpec == Spec /\ WF_vars(Driver)

----------------------------------------------------------------------------
(* Properties. *)

\* Every variable keeps its type, and the stack stays within the nesting that
\* the bound on resets allows.
TypeOK ==
    /\ FLOPPY_INIT \in BOOLEAN /\ space \in BOOLEAN /\ inRange \in BOOLEAN
    /\ booted \in BOOLEAN /\ announced \in BOOLEAN
    /\ ret \in {"none", "ok", "err"}
    /\ phase \in {"idle", "result", "exec_read", "exec_write"}
    /\ head \in Targets \cup {"unknown"}
    /\ ops \in 0..MaxOps /\ issued \in Nat
    /\ NestedResets <= MaxResets
    /\ \A i \in DOMAIN stack : stack[i].n \in Nat

\* A transfer command starts only with the head proved to be on its cylinder,
\* whatever resets and retries send_command went through in between.
TransferOnCylinder == [][Executing' /\ ~Executing => head = "target"]_vars

\* An operation issues its transfer command at most DISK_RETRIES times, across
\* the nested retry loops of disk.rs and fifo.rs.
RetryBudget == issued <= DISK_RETRIES

\* A read that returned Ok has left the controller ready for a command: the
\* result bytes were collected and nothing is in progress.
ReadOkInSync == stack = <<>> /\ result = <<"read", "ok">> => phase = "idle"

Overflowed == stack # <<>> /\ Top.at = "overflow"

\* Every init, read and write returns, whatever the controller answers, unless its
\* resets have nested until the stack overflowed: the retry loops all end, and the
\* recursion of send_command through init_fdc (fifo.rs:203, reset.rs:84) is the only
\* way not to come back.
CallsReturn == stack # <<>> ~> (stack = <<>> \/ Overflowed)

\* Between operations a disabled driver stays disabled and leaves the
\* controller alone for good.
DisabledForGood ==
    [][booted /\ stack = <<>> /\ ~FLOPPY_INIT =>
         ~FLOPPY_INIT' /\ stack' = <<>> /\ (UNCHANGED phase \/ Executing)]_vars

\* "Calling this function while disk operations are in progress may corrupt the
\* data on the disk and CRC." (reset.rs:50): init_fdc never interrupts one.
ResetBetweenTransfers == On("init_fdc", "pulse") => ~Executing

\* "All following floppy operations will fail" (fifo.rs:310): once it was
\* printed, no operation that returns does so with Ok.
AnnouncedMeansFail == [][announced /\ result' # result => result'[2] # "ok"]_vars

=============================================================================
