--------------------------- MODULE FloppyMotor ---------------------------
(***************************************************************************)
(* The floppy motor of the sunflower kernel: kernel/src/floppy/motor.rs,   *)
(* the calls that fifo.rs, reset.rs, disk.rs, floppy.rs and panic.rs make  *)
(* to it, and the timer interrupt that counts the motor down.              *)
(*                                                                         *)
(* One CPU runs the main thread (pc, one label per access to a shared      *)
(* word or port) and the timer handler, which may fire between any two     *)
(* main steps and runs to completion: no other handler touches the motor.  *)
(***************************************************************************)
EXTENDS Integers

CONSTANTS
    TIMEOUT,      \* grace period of disable_motor, in kernel ticks (50)
    FIFO_TIMEOUT, \* how long send_byte and read_byte poll (30)
    SPIN_UP,      \* ticks waited for after switching the motor on (50)
    RESET_WAIT,   \* ticks for which init_fdc holds the reset bit low (1)
    U16           \* MOTOR_TIME_LEFT wraps modulo this number (2^16)

ASSUME MotorConstants ==
    /\ TIMEOUT \in Nat /\ FIFO_TIMEOUT \in Nat
    /\ SPIN_UP \in Nat /\ RESET_WAIT \in Nat
    /\ U16 \in Nat /\ TIMEOUT < U16

VARIABLES
    MOTOR_STATE,     \* "ON", "DISABLING" or "OFF", shared with the handler
    MOTOR_TIME_LEFT, \* shared with the handler
    dor,             \* the controller's digital output register
    baseInit,        \* BASE_OFFSET holds a port, so the DOR can be reached
    gaveUp,          \* disk.rs ran out of retries and cleared FLOPPY_INIT
    irq,             \* the interrupt flag; a badbug panic clears it
    pc,              \* the main thread's next step
    ret,             \* where enable_motor returns to; "idle": no tail call
    prev,            \* the DOR init_fdc saved before clearing it
    waitLeft,        \* ticks until time::wait returns
    elapsed,         \* ticks since send_byte or read_byte read start_time
    sinceDisable,    \* history: ticks since disable_motor was last entered
    lostOff          \* history: a main-thread store has overwritten an OFF

hw     == <<dor, baseInit, gaveUp, irq>>
shared == <<MOTOR_STATE, MOTOR_TIME_LEFT>>
frame  == <<ret, prev, waitLeft, elapsed>>
hist   == <<sinceDisable, lostOff>>
vars   == <<MOTOR_STATE, MOTOR_TIME_LEFT, dor, baseInit, gaveUp, irq, pc, ret,
            prev, waitLeft, elapsed, sinceDisable, lostOff>>

States == {"ON", "DISABLING", "OFF"}

\* The values of the DOR that the code distinguishes: reset bit low; reset bit
\* high with the motor off; reset bit high with the motor on.
Dor == {"reset", "standby", "running"}

EnablePc  == {"en_load", "en_dor", "en_on", "en_wait", "en_store"}
BytePc    == {"by_test", "by_poll"}
ResetPc   == {"rst_read", "rst_clear", "rst_wait", "rst_restore"}
DisablePc == {"dis_time", "dis_state"}
PanicPc   == {"fd_state", "fd_time", "fd_load", "fd_sub", "fd_dor", "fd_off",
              "halted"}
Pc == {"boot", "idle", "owe", "tail"} \cup EnablePc \cup BytePc \cup ResetPc
        \cup DisablePc \cup PanicPc

\* The static initialisers. The firmware may leave the drive spinning.
Init ==
    /\ MOTOR_STATE = "OFF" /\ MOTOR_TIME_LEFT = 0
    /\ dor \in {"standby", "running"}
    /\ baseInit = FALSE /\ gaveUp = FALSE /\ irq = TRUE
    /\ pc = "boot" /\ ret = "owe" /\ prev = "standby"
    /\ waitLeft = 0 /\ elapsed = 0
    /\ sinceDisable = 0 /\ lostOff = FALSE

----------------------------------------------------------------------------
(* The timer interrupt. *)

PredTime == IF MOTOR_TIME_LEFT = 0 THEN U16 - 1 ELSE MOTOR_TIME_LEFT - 1

\* Not disabling: the short-circuited condition leaves the counter alone.
MotorNotDisabling ==
    /\ MOTOR_STATE # "DISABLING"
    /\ UNCHANGED <<MOTOR_STATE, MOTOR_TIME_LEFT, dor>>

\* fetch_sub wraps; a port that is not known yet stops the third conjunct.
MotorCountsDown ==
    /\ MOTOR_STATE = "DISABLING"
    /\ MOTOR_TIME_LEFT # 0 \/ ~baseInit
    /\ MOTOR_TIME_LEFT' = PredTime
    /\ UNCHANGED <<MOTOR_STATE, dor>>

\* Mutant: the handler records OFF without switching the motor off.
send_disable_cmd_no_dor ==
    /\ MOTOR_STATE = "DISABLING" /\ MOTOR_TIME_LEFT = 0 /\ baseInit
    /\ MOTOR_TIME_LEFT' = PredTime
    /\ MOTOR_STATE' = "OFF"
    /\ UNCHANGED dor

send_disable_cmd ==
    /\ MOTOR_STATE = "DISABLING" /\ MOTOR_TIME_LEFT = 0 /\ baseInit
    /\ MOTOR_TIME_LEFT' = PredTime
    /\ dor' = "standby"
    /\ MOTOR_STATE' = "OFF"

\* Mutant: the handler counts down whatever the state is.
decrease_motor_time_any_state ==
    /\ MOTOR_TIME_LEFT' = PredTime
    /\ IF MOTOR_TIME_LEFT = 0 /\ baseInit
       THEN dor' = "standby" /\ MOTOR_STATE' = "OFF"
       ELSE UNCHANGED <<dor, MOTOR_STATE>>

decrease_motor_time == MotorNotDisabling \/ MotorCountsDown \/ send_disable_cmd

\* timer_handler: TIME advances (seen here through the three distances to it
\* that the code and the properties use), then the motor is counted down.
Tick ==
    /\ irq
    /\ waitLeft' = IF waitLeft > 0 THEN waitLeft - 1 ELSE 0
    /\ elapsed' = IF elapsed < FIFO_TIMEOUT THEN elapsed + 1 ELSE elapsed
    /\ sinceDisable' = IF sinceDisable < TIMEOUT + 1 THEN sinceDisable + 1
                       ELSE sinceDisable
    /\ decrease_motor_time
    /\ UNCHANGED <<baseInit, gaveUp, irq, pc, ret, prev, lostOff>>

----------------------------------------------------------------------------
(* The main thread. *)

Goto(from, to) == pc = from /\ pc' = to

\* time::wait returns at once while PIT_INIT is not set.
Wait(ticks) == waitLeft' \in {0, ticks + 1}

\* enable_motor reads the state once and acts on what it read.
EnableLoad ==
    /\ pc = "en_load"
    /\ \/ MOTOR_STATE = "OFF" /\ pc' = "en_dor"
       \/ MOTOR_STATE = "DISABLING" /\ pc' = "en_store"
       \/ MOTOR_STATE = "ON" /\ pc' = ret
    /\ UNCHANGED <<hw, shared, frame, hist>>

\* MOTOR_DISABLING => MOTOR_STATE.store(MOTOR_ON): the DOR is not written.
EnableStore ==
    /\ Goto("en_store", ret)
    /\ MOTOR_STATE' = "ON"
    /\ lostOff' = (lostOff \/ MOTOR_STATE = "OFF")
    /\ UNCHANGED <<MOTOR_TIME_LEFT, hw, frame, sinceDisable>>

\* send_enable_cmd: the DOR, then the state, then the wait.
EnableDor ==
    /\ Goto("en_dor", "en_on")
    /\ dor' = "running"
    /\ UNCHANGED <<baseInit, gaveUp, irq, shared, frame, hist>>

EnableOn ==
    /\ Goto("en_on", "en_wait")
    /\ MOTOR_STATE' = "ON"
    /\ Wait(SPIN_UP)
    /\ UNCHANGED <<MOTOR_TIME_LEFT, hw, ret, prev, elapsed, hist>>

EnableWait ==
    /\ Goto("en_wait", ret)
    /\ waitLeft = 0
    /\ UNCHANGED <<hw, shared, frame, hist>>

\* disable_motor: the full grace period is stored before the state.
DisableTime ==
    /\ Goto("dis_time", "dis_state")
    /\ MOTOR_TIME_LEFT' = TIMEOUT
    /\ sinceDisable' = 0
    /\ UNCHANGED <<MOTOR_STATE, hw, frame, lostOff>>

\* What follows a byte transfer may be a second disable_motor ("tail"): the
\* last line of init_fdc, of init and of a successful disk operation.
DisableState ==
    /\ pc = "dis_state" /\ pc' \in {"idle", "tail"}
    /\ ret = "idle" => pc' = "idle"
    /\ MOTOR_STATE' = "DISABLING"
    /\ lostOff' = (lostOff \/ MOTOR_STATE = "OFF")
    /\ UNCHANGED <<MOTOR_TIME_LEFT, hw, frame, sinceDisable>>

TailDisable ==
    /\ Goto("tail", "dis_time")
    /\ ret' = "idle"
    /\ UNCHANGED <<hw, shared, prev, waitLeft, elapsed, hist>>

\* Mutant: the state is stored before the grace period.
disable_motor_state_first ==
    /\ UNCHANGED <<hw, prev, waitLeft, elapsed, lostOff>>
    /\ \/ /\ Goto("tail", "dis_time") /\ ret' = "idle"
          /\ UNCHANGED <<shared, sinceDisable>>
       \/ /\ Goto("dis_time", "dis_state") /\ UNCHANGED ret
          /\ MOTOR_STATE' = "DISABLING" /\ sinceDisable' = 0
          /\ UNCHANGED MOTOR_TIME_LEFT
       \/ /\ pc = "dis_state" /\ pc' \in {"idle", "tail"} /\ UNCHANGED ret
          /\ MOTOR_TIME_LEFT' = TIMEOUT
          /\ UNCHANGED <<MOTOR_STATE, sinceDisable>>

disable_motor == DisableTime \/ DisableState \/ TailDisable

\* send_byte and read_byte read start_time; either is called when the driver
\* is between two calls, and must follow the enable_motor of init and init_fdc.
ByteStart ==
    /\ pc = "owe" \/ (pc = "idle" /\ ~gaveUp)
    /\ pc' = "by_test"
    /\ elapsed' = 0
    /\ UNCHANGED <<hw, shared, ret, prev, waitLeft, hist>>

\* Mutant: a timeout returns without releasing the motor.
ByteTestKeepsMotor ==
    /\ pc = "by_test"
    /\ \/ /\ elapsed < FIFO_TIMEOUT
          /\ pc' = "en_load" /\ ret' = "by_poll"
       \/ /\ elapsed >= FIFO_TIMEOUT
          /\ pc' = "idle" /\ UNCHANGED ret
    /\ UNCHANGED <<hw, shared, prev, waitLeft, elapsed, hist>>

\* The loop condition: poll once more, or give up with FifoTimeout.
ByteTest ==
    /\ pc = "by_test"
    /\ \/ /\ elapsed < FIFO_TIMEOUT
          /\ pc' = "en_load" /\ ret' = "by_poll"
       \/ /\ elapsed >= FIFO_TIMEOUT
          /\ pc' = "dis_time" /\ UNCHANGED ret
    /\ UNCHANGED <<hw, shared, prev, waitLeft, elapsed, hist>>

\* The MSR either allows the access, after which the motor is released, or not.
BytePoll ==
    /\ pc = "by_poll"
    /\ pc' \in {"dis_time", "by_test"}
    /\ UNCHANGED <<hw, shared, frame, hist>>

\* A disk operation whose retries all failed, possibly without touching the
\* controller: FLOPPY_INIT is cleared, so no later call gets past its checks.
DiskGivesUp ==
    /\ Goto("idle", "dis_time") /\ ~gaveUp
    /\ gaveUp' = TRUE /\ ret' = "idle"
    /\ UNCHANGED <<dor, baseInit, irq, shared, prev, waitLeft, elapsed, hist>>

\* floppy::init stores BASE_OFFSET and switches the motor on.
InitBase ==
    /\ Goto("boot", "en_load")
    /\ baseInit' = TRUE /\ ret' = "owe"
    /\ UNCHANGED <<dor, gaveUp, irq, shared, prev, waitLeft, elapsed, hist>>

\* Mutant: init_fdc clears the DOR without holding the motor on.
ResetCallNoEnable ==
    /\ Goto("idle", "rst_read") /\ ~gaveUp
    /\ ret' = "rst_read"
    /\ UNCHANGED <<hw, shared, prev, waitLeft, elapsed, hist>>

\* init_fdc: hold the motor on, then pulse the reset bit of the DOR.
ResetCall ==
    /\ Goto("idle", "en_load") /\ ~gaveUp
    /\ ret' = "rst_read"
    /\ UNCHANGED <<hw, shared, prev, waitLeft, elapsed, hist>>

ResetRead ==
    /\ Goto("rst_read", "rst_clear")
    /\ prev' = dor
    /\ UNCHANGED <<hw, shared, ret, waitLeft, elapsed, hist>>

ResetClear ==
    /\ Goto("rst_clear", "rst_wait")
    /\ dor' = "reset"
    /\ Wait(RESET_WAIT)
    /\ UNCHANGED <<baseInit, gaveUp, irq, shared, ret, prev, elapsed, hist>>

ResetWait ==
    /\ Goto("rst_wait", "rst_restore")
    /\ waitLeft = 0
    /\ UNCHANGED <<hw, shared, frame, hist>>

ResetRestore ==
    /\ Goto("rst_restore", "owe")
    /\ dor' = prev
    /\ UNCHANGED <<baseInit, gaveUp, irq, shared, frame, hist>>

----------------------------------------------------------------------------
(* kpanic: never returns, so it simply replaces the main thread. A badbug    *)
(* clears the interrupt flag first; a CPU exception comes through a trap     *)
(* gate and leaves it set.                                                   *)

PanicStart ==
    /\ pc \notin PanicPc
    /\ pc' = "fd_state"
    /\ UNCHANGED irq \/ irq' = FALSE
    /\ UNCHANGED <<dor, baseInit, gaveUp, shared, frame, hist>>

ForceState ==
    /\ Goto("fd_state", "fd_time")
    /\ MOTOR_STATE' = "DISABLING"
    /\ UNCHANGED <<MOTOR_TIME_LEFT, hw, frame, hist>>

\* Mutant: the grace period is left running.
ForceTimeKept ==
    /\ Goto("fd_time", "fd_load")
    /\ UNCHANGED <<shared, hw, frame, hist>>

ForceTime ==
    /\ Goto("fd_time", "fd_load")
    /\ MOTOR_TIME_LEFT' = 0
    /\ UNCHANGED <<MOTOR_STATE, hw, frame, hist>>

\* decrease_motor_time again, this time interruptible by the handler.
ForceLoad ==
    /\ pc = "fd_load"
    /\ pc' = IF MOTOR_STATE = "DISABLING" THEN "fd_sub" ELSE "halted"
    /\ UNCHANGED <<hw, shared, frame, hist>>

ForceSub ==
    /\ pc = "fd_sub"
    /\ pc' = IF MOTOR_TIME_LEFT = 0 /\ baseInit THEN "fd_dor" ELSE "halted"
    /\ MOTOR_TIME_LEFT' = PredTime
    /\ UNCHANGED <<MOTOR_STATE, hw, frame, hist>>

ForceDor ==
    /\ Goto("fd_dor", "fd_off")
    /\ dor' = "standby"
    /\ UNCHANGED <<baseInit, gaveUp, irq, shared, frame, hist>>

ForceOff ==
    /\ Goto("fd_off", "halted")
    /\ MOTOR_STATE' = "OFF"
    /\ UNCHANGED <<MOTOR_TIME_LEFT, hw, frame, hist>>

force_disable == ForceState \/ ForceTime \/ ForceLoad \/ ForceSub \/ ForceDor
                   \/ ForceOff

----------------------------------------------------------------------------

enable_motor == EnableLoad \/ EnableStore \/ EnableDor \/ EnableOn \/ EnableWait
send_byte    == ByteTest \/ BytePoll
init_fdc     == ResetRead \/ ResetClear \/ ResetWait \/ ResetRestore

\* Steps of a call that has begun: the main thread runs whenever no handler
\* does, so a call makes progress.
Running ==
    \/ enable_motor \/ disable_motor \/ send_byte \/ init_fdc \/ force_disable
    \/ pc = "owe" /\ ByteStart

\* Calls the driver is free to make or not.
Calls == ByteStart \/ DiskGivesUp \/ InitBase \/ ResetCall \/ PanicStart

Next == Tick \/ Running \/ Calls

Spec == Init /\ [][Next]_vars

\* The PIT keeps interrupting while interrupts are enabled.
FairSpec == Spec /\ WF_vars(Tick) /\ WF_vars(Running)

----------------------------------------------------------------------------
(* Properties. *)

\* Every variable keeps its type: in particular MOTOR_TIME_LEFT stays a u16
\* although fetch_sub wraps below zero (motor.rs:112).
TypeOK ==
    /\ MOTOR_STATE \in States
    /\ MOTOR_TIME_LEFT \in 0..(U16 - 1)
    /\ dor \in Dor /\ prev \in Dor
    /\ baseInit \in BOOLEAN /\ gaveUp \in BOOLEAN /\ irq \in BOOLEAN
    /\ lostOff \in BOOLEAN
    /\ pc \in Pc /\ ret \in {"by_poll", "rst_read", "owe", "idle"}
    /\ waitLeft \in Nat /\ elapsed \in Nat /\ sinceDisable \in Nat

\* Once the driver runs, a spinning motor is never recorded as off (nothing
\* would ever stop it): MOTOR_OFF with the motor on exists only inside
\* send_enable_cmd, between its DOR write and its store, and before the first
\* enable_motor when the firmware left the drive spinning.
NoMotorLeak ==
    MOTOR_STATE = "OFF" /\ dor = "running" =>
        pc \in {"boot", "en_load", "en_dor", "en_on", "fd_state"}

\* While init_fdc holds the reset bit low nobody else writes the DOR: the timer
\* cannot end the reset pulse early, and what is restored is what was read.
ResetHeldLow ==
    /\ pc \in {"rst_wait", "rst_restore"} => dor = "reset"
    /\ pc \in {"rst_clear"} => dor = prev
    /\ dor = "reset" => pc \in {"rst_wait", "rst_restore"} \cup PanicPc

\* The handler switches the motor off only when the whole grace period of the
\* last disable_motor has passed, whichever of its two stores a tick hit.
GracePeriod ==
    [][ send_disable_cmd /\ pc \notin PanicPc => sinceDisable >= TIMEOUT ]_vars

\* When kpanic has run force_disable the motor is off, wherever the panic hit
\* and however the timer interrupted it (panic.rs:185).
PanicStopsMotor == pc = "halted" /\ baseInit => dor = "standby"

\* MOTOR_ON is wrong about the hardware only after the main thread overwrote an
\* OFF of the handler: enable_motor with ON, having read DISABLING before, or
\* disable_motor with DISABLING, which a later enable_motor takes for spinning.
OnUnlessLostOff ==
    MOTOR_STATE = "ON" /\ pc \notin {"rst_wait", "rst_restore"} \cup PanicPc =>
        dor = "running" \/ lostOff

\* "The floppy's motor is on." (motor.rs:39), outside the reset pulse.
OnMeansSpinning ==
    MOTOR_STATE = "ON" /\ pc \notin {"rst_wait", "rst_restore"} \cup PanicPc =>
        dor = "running"

\* Every byte transfer, reset pulse and spin-up wait ends: the bounded polling
\* loop cannot spin for ever while the timer runs.
CallsReturn == pc \notin {"boot", "idle"} ~> pc \in {"idle", "halted"}

\* A driver that is left alone ends up with the motor stopped and known to be.
MotorEventuallyOff ==
    <>[](pc = "idle") => <>[](MOTOR_STATE = "OFF" /\ dor = "standby")

=============================================================================
