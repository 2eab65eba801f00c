------------------------ MODULE FloppyMotorProofs ------------------------
(***************************************************************************)
(* Proofs about FloppyMotor for every timeout and every counter width.     *)
(* IInv is inductive: each of its parts says what the handler, which may   *)
(* run at any label, can have done to the state by then.                   *)
(***************************************************************************)
EXTENDS FloppyMotor, TLAPS

\* Labels at which MOTOR_STATE is ON, so that the handler is locked out.
HoldsMotor == ResetPc \cup {"by_poll", "owe", "en_wait"}

\* What is known about MOTOR_STATE at each label of the main thread.
StateAtPc ==
    /\ pc \in HoldsMotor => MOTOR_STATE = "ON"
    /\ pc \in {"boot", "en_dor", "en_on"} => MOTOR_STATE = "OFF"
    /\ pc = "en_store" => MOTOR_STATE # "ON"
    /\ pc \in EnablePc => ret # "idle"
    /\ pc = "boot" \/ pc \in PanicPc \/ baseInit

\* What is known about the DOR and the copy of it that init_fdc saved.
DorAtPc ==
    /\ pc = "en_on" => dor = "running"
    /\ dor = "reset" => pc \in {"rst_wait", "rst_restore"} \cup PanicPc
    /\ pc \in {"rst_wait", "rst_restore"} => dor = "reset"
    /\ pc = "rst_clear" => dor = prev
    /\ pc \in {"rst_clear", "rst_wait", "rst_restore"} =>
         prev # "reset" /\ (prev = "running" \/ lostOff)

\* Unless an OFF was overwritten, ON and DISABLING mean that the motor spins.
SpinsUnlessLostOff ==
    MOTOR_STATE # "OFF" /\ pc \notin {"rst_wait", "rst_restore"} \cup PanicPc =>
        dor = "running" \/ lostOff

\* The countdown never gets ahead of the ticks since disable_motor was entered.
CountdownInStep ==
    pc \notin PanicPc /\ (MOTOR_STATE = "DISABLING" \/ pc = "dis_state") =>
        MOTOR_TIME_LEFT + sinceDisable >= TIMEOUT

\* How far force_disable has got, or the handler in its place.
PanicAtPc ==
    /\ pc \in {"fd_time", "fd_load", "fd_sub", "fd_dor"} =>
         MOTOR_STATE = "DISABLING" \/ (MOTOR_STATE = "OFF" /\ dor = "standby")
    /\ pc \in {"fd_load", "fd_sub"} /\ baseInit =>
         MOTOR_TIME_LEFT = 0 \/ (MOTOR_STATE = "OFF" /\ dor = "standby")
    /\ pc = "fd_off" => dor = "standby"
    /\ pc = "fd_dor" => baseInit

IInv ==
    /\ TypeOK /\ StateAtPc /\ DorAtPc /\ SpinsUnlessLostOff /\ CountdownInStep
    /\ PanicAtPc /\ NoMotorLeak /\ PanicStopsMotor

----------------------------------------------------------------------------

\* The static initialisers satisfy the invariant.
LEMMA InitIInv == Init => IInv
<1> SUFFICES ASSUME Init PROVE IInv
  OBVIOUS
<1>1. /\ baseInit \in BOOLEAN /\ gaveUp \in BOOLEAN
      /\ irq \in BOOLEAN /\ lostOff \in BOOLEAN
  BY Zenon DEF Init
<1>2. /\ MOTOR_STATE = "OFF" /\ pc = "boot" /\ ret = "owe" /\ prev = "standby"
      /\ dor \in {"standby", "running"}
      /\ MOTOR_TIME_LEFT = 0 /\ waitLeft = 0 /\ elapsed = 0 /\ sinceDisable = 0
  BY DEF Init
<1>3. TypeOK
  BY <1>1, <1>2, MotorConstants DEF TypeOK, States, Dor, Pc
<1>4. StateAtPc /\ DorAtPc /\ SpinsUnlessLostOff /\ CountdownInStep
  BY <1>2 DEF StateAtPc, DorAtPc, SpinsUnlessLostOff, CountdownInStep,
     HoldsMotor, ResetPc, EnablePc, PanicPc
<1>5. PanicAtPc /\ NoMotorLeak /\ PanicStopsMotor
  BY <1>2 DEF PanicAtPc, NoMotorLeak, PanicStopsMotor
<1> QED
  BY <1>3, <1>4, <1>5 DEF IInv

\* A step that changes nothing keeps it.
LEMMA StutterIInv == IInv /\ UNCHANGED vars => IInv'
BY DEF vars, IInv, TypeOK, StateAtPc, DorAtPc, SpinsUnlessLostOff,
   CountdownInStep, PanicAtPc, NoMotorLeak, PanicStopsMotor

\* The timer interrupt keeps IInv, whichever label it interrupts.
LEMMA TickIInv == IInv /\ Tick => IInv'
<1> SUFFICES ASSUME IInv, Tick PROVE IInv'
  OBVIOUS
<1> USE MotorConstants DEF IInv, TypeOK, StateAtPc, DorAtPc,
      SpinsUnlessLostOff, CountdownInStep, PanicAtPc, NoMotorLeak,
      PanicStopsMotor, HoldsMotor, States, Dor, Pc, EnablePc, BytePc, ResetPc,
      DisablePc, PanicPc, Tick
<1>1. CASE MotorNotDisabling
  BY <1>1 DEF MotorNotDisabling
<1>2. CASE MotorCountsDown
  BY <1>2 DEF MotorCountsDown, PredTime
<1>3. CASE send_disable_cmd
  BY <1>3 DEF send_disable_cmd, PredTime
<1> QED
  BY <1>1, <1>2, <1>3 DEF decrease_motor_time

\* Every step of the main thread keeps IInv.
LEMMA MainIInv == IInv /\ (Running \/ Calls) => IInv'
<1> SUFFICES ASSUME IInv, Running \/ Calls PROVE IInv'
  OBVIOUS
<1> USE MotorConstants DEF IInv, TypeOK, StateAtPc, DorAtPc,
      SpinsUnlessLostOff, CountdownInStep, PanicAtPc, NoMotorLeak,
      PanicStopsMotor, HoldsMotor, States, Dor, Pc, EnablePc, BytePc, ResetPc,
      DisablePc, PanicPc, Goto, hw, shared, frame, hist
<1>1. CASE EnableLoad
  BY <1>1 DEF EnableLoad
<1>2. CASE EnableStore
  BY <1>2 DEF EnableStore
<1>3. CASE EnableDor
  BY <1>3 DEF EnableDor
<1>4. CASE EnableOn
  BY <1>4 DEF EnableOn, Wait
<1>5. CASE EnableWait
  BY <1>5 DEF EnableWait
<1>6. CASE DisableTime
  BY <1>6 DEF DisableTime
<1>7. CASE DisableState
  BY <1>7 DEF DisableState
<1>8. CASE TailDisable
  BY <1>8 DEF TailDisable
<1>9. CASE ByteStart
  BY <1>9 DEF ByteStart
<1>10. CASE ByteTest
  BY <1>10 DEF ByteTest
<1>11. CASE BytePoll
  BY <1>11 DEF BytePoll
<1>12. CASE DiskGivesUp
  BY <1>12 DEF DiskGivesUp
<1>13. CASE InitBase
  BY <1>13 DEF InitBase
<1>14. CASE ResetCall
  BY <1>14 DEF ResetCall
<1>15. CASE ResetRead
  BY <1>15 DEF ResetRead
<1>16. CASE ResetClear
  BY <1>16 DEF ResetClear, Wait
<1>17. CASE ResetWait
  BY <1>17 DEF ResetWait
<1>18. CASE ResetRestore
  BY <1>18 DEF ResetRestore
<1>19. CASE PanicStart
  <2>1. irq' \in BOOLEAN
    BY <1>19, Zenon DEF PanicStart
  <2>2. /\ pc \notin PanicPc /\ pc' = "fd_state"
        /\ UNCHANGED <<dor, baseInit, gaveUp, shared, frame, hist>>
    BY <1>19 DEF PanicStart
  <2> QED
    BY <2>1, <2>2
<1>20. CASE ForceState
  BY <1>20 DEF ForceState
<1>21. CASE ForceTime
  BY <1>21 DEF ForceTime
<1>22. CASE ForceLoad
  BY <1>22 DEF ForceLoad
<1>23. CASE ForceSub
  BY <1>23 DEF ForceSub, PredTime
<1>24. CASE ForceDor
  BY <1>24 DEF ForceDor
<1>25. CASE ForceOff
  BY <1>25 DEF ForceOff
<1> HIDE DEF IInv
<1> QED
  BY <1>1, <1>2, <1>3, <1>4, <1>5, <1>6, <1>7, <1>8, <1>9, <1>10, <1>11, <1>12, <1>13, <1>14, <1>15, <1>16, <1>17, <1>18, <1>19, <1>20, <1>21, <1>22, <1>23, <1>24, <1>25
  DEF Running, Calls, enable_motor, disable_motor, send_byte, init_fdc,
      force_disable

\* IInv holds in every reachable state.
THEOREM Invariance == Spec => []IInv
<1>1. IInv /\ [Next]_vars => IInv'
  BY StutterIInv, TickIInv, MainIInv DEF Next
<1> QED
  BY InitIInv, <1>1, PTL DEF Spec

\* Every variable keeps its type; MOTOR_TIME_LEFT stays within a u16 although
\* fetch_sub wraps (motor.rs:112).
THEOREM TypeCorrect == Spec => []TypeOK
<1>1. IInv => TypeOK
  BY DEF IInv
<1> QED
  BY Invariance, <1>1, PTL

\* A spinning motor is never recorded as off (motor.rs:49-130), for all timeouts.
THEOREM MotorNotLeaked == Spec => []NoMotorLeak
<1>1. IInv => NoMotorLeak
  BY DEF IInv
<1> QED
  BY Invariance, <1>1, PTL

\* The timer never touches the DOR during the reset pulse (reset.rs:64-74).
THEOREM ResetPulse == Spec => []ResetHeldLow
<1>1. IInv => ResetHeldLow
  BY DEF IInv, DorAtPc, ResetHeldLow
<1> QED
  BY Invariance, <1>1, PTL

\* force_disable stops the motor wherever a panic strikes and whatever the
\* timer does meanwhile (motor.rs:95-99, panic.rs:185).
THEOREM PanicSafe == Spec => []PanicStopsMotor
<1>1. IInv => PanicStopsMotor
  BY DEF IInv
<1> QED
  BY Invariance, <1>1, PTL

\* The two races that overwrite an OFF are the only ways in which MOTOR_ON can
\* be wrong about the hardware (motor.rs:56-58, 90-91).
THEOREM OnAccurate == Spec => []OnUnlessLostOff
<1>1. IInv => OnUnlessLostOff
  BY DEF IInv, SpinsUnlessLostOff, OnUnlessLostOff
<1> QED
  BY Invariance, <1>1, PTL

\* The motor is never cut before the grace period is over (motor.rs:86-92).
THEOREM GraceRespected == Spec => GracePeriod
<1>1. IInv /\ [Next]_vars =>
        [send_disable_cmd /\ pc \notin PanicPc => sinceDisable >= TIMEOUT]_vars
  BY MotorConstants DEF IInv, TypeOK, CountdownInStep, send_disable_cmd
<1> QED
  BY Invariance, <1>1, PTL DEF Spec, GracePeriod

=============================================================================
