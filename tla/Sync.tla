------------------------------- MODULE Sync -------------------------------
(***************************************************************************)
(* The other synchronisation primitives of the kernel, in the contexts of  *)
(* BufferLock: InitLater and ExclusiveMap (libutil/src/sync.rs) and        *)
(* ContAccess (kernel/src/interrupts/cont_access.rs).                      *)
(*                                                                         *)
(* Each primitive is used by every context. A context is inside at most    *)
(* one of them, and an interrupt can come between any two of its steps; a  *)
(* panic leaves whatever it interrupted unfinished for good.               *)
(***************************************************************************)
EXTENDS BufferLock

CONSTANT MaxUpdates   \* bound on the updates of each value

VARIABLES
    in,          \* what each context is inside of
    local,       \* what each context loaded: the state, the value it maps
    state,       \* InitLater: its state word
    cell,        \* InitLater: who wrote the value, or that it is half written
    wins,        \* history: how often init returned Ok
    access,      \* ExclusiveMap: the flag
    mapped,      \* ExclusiveMap: the value, a counter the closures increase
    somes,       \* history: how often map returned Some
    locked,      \* ContAccess: the flag
    data,        \* ContAccess: the value
    INTERRUPT_DEPTH

syncVars == <<in, local, state, cell, wins, access, mapped, somes, locked, data,
              INTERRUPT_DEPTH>>

UNINIT       == 0
INITIALISING == 1
INIT         == 2

Nothing == MaxDepth + 1
Torn    == MaxDepth + 2

SyncInit ==
    /\ Init
    /\ in = [c \in Contexts |-> "none"] /\ local = [c \in Contexts |-> 0]
    /\ state = UNINIT /\ cell = Nothing /\ wins = 0
    /\ access = FALSE /\ mapped = 0 /\ somes = 0
    /\ locked = FALSE /\ data = 0 /\ INTERRUPT_DEPTH = 0

\* The running context enters a primitive with what it loaded, and leaves it.
Idle == at[depth] = "idle" /\ in[depth] = "none"

Enters(what, value) ==
    /\ Idle
    /\ in' = [in EXCEPT ![depth] = what]
    /\ local' = [local EXCEPT ![depth] = value]

Leaves(what) ==
    /\ in[depth] = what
    /\ in' = [in EXCEPT ![depth] = "none"]
    /\ local' = [local EXCEPT ![depth] = 0]

----------------------------------------------------------------------------
(* InitLater *)

InitLoad ==
    /\ Enters("loaded", state)
    /\ UNCHANGED <<vars, state, cell, wins, access, mapped, somes, locked, data,
                   INTERRUPT_DEPTH>>

\* Mutant: the value is written before the state says so.
InitStoreLate ==
    /\ in[depth] = "loaded" /\ in' = [in EXCEPT ![depth] = "stored"]
    /\ cell' = IF local[depth] = UNINIT THEN Torn ELSE cell
    /\ UNCHANGED <<vars, state, local, wins, access, mapped, somes, locked, data,
                   INTERRUPT_DEPTH>>

\* The store of INITIALISING, and the beginning of the write when the state was
\* UNINIT.
InitStore ==
    /\ in[depth] = "loaded" /\ in' = [in EXCEPT ![depth] = "stored"]
    /\ state' = INITIALISING
    /\ cell' = IF local[depth] = UNINIT THEN Torn ELSE cell
    /\ UNCHANGED <<vars, local, wins, access, mapped, somes, locked, data,
                   INTERRUPT_DEPTH>>

\* Mutant: the error path forgets to put the state back.
InitEndKeeps ==
    /\ Leaves("stored")
    /\ IF local[depth] = UNINIT
       THEN cell' = depth /\ state' = INIT /\ wins' = wins + 1
       ELSE UNCHANGED <<cell, state, wins>>
    /\ UNCHANGED <<vars, access, mapped, somes, locked, data, INTERRUPT_DEPTH>>

\* The end of the write and INIT, or the old state again and an error.
InitEnd ==
    /\ Leaves("stored")
    /\ IF local[depth] = UNINIT
       THEN cell' = depth /\ state' = INIT /\ wins' = wins + 1
       ELSE state' = local[depth] /\ UNCHANGED <<cell, wins>>
    /\ UNCHANGED <<vars, access, mapped, somes, locked, data, INTERRUPT_DEPTH>>

----------------------------------------------------------------------------
(* ExclusiveMap *)

\* Mutant: the flag is set without being compared.
MapEnterBlind ==
    /\ Enters("map", mapped) /\ somes < MaxUpdates
    /\ access' = TRUE
    /\ UNCHANGED <<vars, state, cell, wins, mapped, somes, locked, data,
                   INTERRUPT_DEPTH>>

\* map with the flag clear: one compare_exchange. With the flag set it returns
\* None and nothing changes.
MapEnter ==
    /\ Enters("map", mapped) /\ somes < MaxUpdates
    /\ ~access /\ access' = TRUE
    /\ UNCHANGED <<vars, state, cell, wins, mapped, somes, locked, data,
                   INTERRUPT_DEPTH>>

MapLeave ==
    /\ Leaves("map")
    /\ mapped' = local[depth] + 1 /\ access' = FALSE
    /\ somes' = somes + 1
    /\ UNCHANGED <<vars, state, cell, wins, locked, data, INTERRUPT_DEPTH>>

----------------------------------------------------------------------------
(* ContAccess *)

\* Mutant: the flag is not looked at.
check_access_depth == INTERRUPT_DEPTH = 0

\* check_access returns; otherwise it panics.
check_access == ~locked /\ INTERRUPT_DEPTH = 0

BtemapEnter ==
    /\ Enters("btemap", data) /\ check_access /\ data < MaxUpdates
    /\ locked' = TRUE
    /\ UNCHANGED <<vars, state, cell, wins, access, mapped, somes, data,
                   INTERRUPT_DEPTH>>

BtemapLeave ==
    /\ Leaves("btemap")
    /\ data' = local[depth] + 1 /\ locked' = FALSE
    /\ UNCHANGED <<vars, state, cell, wins, access, mapped, somes, INTERRUPT_DEPTH>>

\* write, also from inside the closure of btemap.
ContWrite ==
    /\ at[depth] = "idle" /\ in[depth] \in {"none", "btemap"} /\ check_access
    /\ data < MaxUpdates /\ data' = data + 1
    /\ UNCHANGED <<vars, in, local, state, cell, wins, access, mapped, somes,
                   locked, INTERRUPT_DEPTH>>

----------------------------------------------------------------------------
(* BufferLock and the contexts *)

Buffer ==
    /\ in[depth] = "none" /\ (try_yoink \/ Drop \/ PanicRelease)
    /\ UNCHANGED syncVars

\* savestate! and restore_state! count the handlers.
Enter ==
    /\ Interrupt
    /\ in' = [in EXCEPT ![depth + 1] = "none"]
    /\ INTERRUPT_DEPTH' = INTERRUPT_DEPTH + 1
    /\ UNCHANGED <<local, state, cell, wins, access, mapped, somes, locked, data>>

Leave ==
    /\ InterruptReturn /\ in[depth] = "none"
    /\ INTERRUPT_DEPTH' = INTERRUPT_DEPTH - 1
    /\ UNCHANGED <<in, local, state, cell, wins, access, mapped, somes, locked, data>>

\* A panic of any kind, that of check_access among them; its wrappers count
\* nothing.
Dies ==
    /\ Panic
    /\ in' = [in EXCEPT ![depth + 1] = "none"]
    /\ UNCHANGED <<local, state, cell, wins, access, mapped, somes, locked, data,
                   INTERRUPT_DEPTH>>

InitLater    == InitLoad \/ InitStore \/ InitEnd
ExclusiveMap == MapEnter \/ MapLeave
ContAccess   == BtemapEnter \/ BtemapLeave \/ ContWrite

SyncNext == Buffer \/ InitLater \/ ExclusiveMap \/ ContAccess
              \/ Enter \/ Leave \/ Dies

SyncSpec == SyncInit /\ [][SyncNext]_<<vars, syncVars>>

----------------------------------------------------------------------------

\* A read that returns Ok returns a whole value, wherever the interrupt that reads
\* came in: INIT is never the state while the value is missing or half written
\* ("No mutations are able to happen if the value is initialised", sync.rs:88).
ReadsWhole == state = INIT => cell \in Contexts

\* An initialised value stays readable: between calls, and until a panic leaves one
\* unfinished, init has left INIT behind once it has returned Ok, also when calls
\* that fail are nested in calls that succeed.
InitKept ==
    wins > 0 /\ alive = 0 /\ (\A c \in Live : in[c] \notin {"loaded", "stored"})
        => state = INIT

\* No update through map is lost: every closure that returned Some is in the
\* value, and the flag of a finished call is never left set (sync.rs:149).
MapUpdatesKept ==
    /\ mapped = somes
    /\ access /\ alive = 0 => \E c \in Live : in[c] = "map"

\* "if this function returns, it's guaranteed that this CA will never be accessed
\* from anywhere else" (cont_access.rs:74): the value a closure of btemap works on
\* is still the value when it ends.
BtemapUndisturbed == \A c \in Live : in[c] = "btemap" => data = local[c]

\* Expected of InitLater by its test, "can only be initialised once"
\* (sync.rs:203), and not true when an init is nested between the load and the
\* store of another: both return Ok.
InitOnce == wins <= 1

=============================================================================
