---------------------------- MODULE BufferLock ----------------------------
(***************************************************************************)
(* YoinkedBuffer (kernel/src/vga/buffers.rs), the try-lock around the VGA  *)
(* text buffer, under nested interrupt handlers and panics.                *)
(*                                                                         *)
(* Context 0 is the main thread and context c + 1 has interrupted context  *)
(* c: only the innermost one runs, and a handler returns only when it has  *)
(* finished printing. try_yoink loads and stores BUFFER_HELD in two steps. *)
(* A panic is a context that never returns, so those below it are gone.    *)
(***************************************************************************)
EXTENDS Naturals

CONSTANT MaxDepth   \* bound on nested contexts; the stack has no check

ASSUME LockConstants == MaxDepth \in Nat

VARIABLES
    BUFFER_HELD,
    at,        \* where each context is: idle, past the load, holding
    depth,     \* the running context
    alive,     \* the outermost context that can still run
    released   \* kpanic has got to its store to BUFFER_HELD

vars == <<BUFFER_HELD, at, depth, alive, released>>

Contexts == 0..MaxDepth
Live     == alive..depth

Init ==
    /\ BUFFER_HELD = FALSE
    /\ at = [c \in Contexts |-> "idle"]
    /\ depth = 0 /\ alive = 0 /\ released = TRUE

\* Mutant: the flag is not looked at.
YoinkLoadBlind ==
    /\ at[depth] = "idle"
    /\ at' = [at EXCEPT ![depth] = "store"]
    /\ UNCHANGED <<BUFFER_HELD, depth, alive, released>>

\* try_yoink with the flag clear; with the flag set it returns None and the
\* caller skips its access, which changes nothing.
YoinkLoad ==
    /\ at[depth] = "idle" /\ ~BUFFER_HELD
    /\ at' = [at EXCEPT ![depth] = "store"]
    /\ UNCHANGED <<BUFFER_HELD, depth, alive, released>>

YoinkStore ==
    /\ at[depth] = "store"
    /\ BUFFER_HELD' = TRUE
    /\ at' = [at EXCEPT ![depth] = "holding"]
    /\ UNCHANGED <<depth, alive, released>>

\* Mutant: the guard is forgotten instead of dropped.
DropForgotten ==
    /\ at[depth] = "holding"
    /\ at' = [at EXCEPT ![depth] = "idle"]
    /\ UNCHANGED <<BUFFER_HELD, depth, alive, released>>

\* write_char, newline, clear, swap or delete_prev_char is done with the buffer.
Drop ==
    /\ at[depth] = "holding"
    /\ BUFFER_HELD' = FALSE
    /\ at' = [at EXCEPT ![depth] = "idle"]
    /\ UNCHANGED <<depth, alive, released>>

\* Trap gates leave interrupts enabled: a handler may start anywhere.
Interrupt ==
    /\ depth < MaxDepth
    /\ depth' = depth + 1
    /\ at' = [at EXCEPT ![depth + 1] = "idle"]
    /\ UNCHANGED <<BUFFER_HELD, alive, released>>

InterruptReturn ==
    /\ depth > alive /\ at[depth] = "idle"
    /\ depth' = depth - 1
    /\ UNCHANGED <<BUFFER_HELD, at, alive, released>>

\* kpanic and double_fault_handler never return. Until their store to
\* BUFFER_HELD is reached (force_disable may print before) handlers may come
\* and go on top of them.
Panic ==
    /\ depth < MaxDepth
    /\ depth' = depth + 1 /\ alive' = depth + 1
    /\ at' = [at EXCEPT ![depth + 1] = "idle"]
    /\ released' = FALSE
    /\ UNCHANGED BUFFER_HELD

PanicRelease ==
    /\ ~released /\ depth = alive /\ at[depth] = "idle"
    /\ BUFFER_HELD' = FALSE /\ released' = TRUE
    /\ UNCHANGED <<at, depth, alive>>

try_yoink == YoinkLoad \/ YoinkStore

Next == try_yoink \/ Drop \/ Interrupt \/ InterruptReturn \/ Panic
          \/ PanicRelease

Spec == Init /\ [][Next]_vars

----------------------------------------------------------------------------

\* Every variable keeps its type; the running context is a live one.
TypeOK ==
    /\ BUFFER_HELD \in BOOLEAN /\ released \in BOOLEAN
    /\ at \in [Contexts -> {"idle", "store", "holding"}]
    /\ depth \in Contexts /\ alive \in Nat /\ alive <= depth

\* No two live contexts hold the buffer, although the load and the store of
\* try_yoink can be interrupted ("there'll probably be only one copy of BUFFER",
\* buffers.rs:52).
OneHolder ==
    \A c, d \in Live : at[c] = "holding" /\ at[d] = "holding" => c = d

\* The flag is never left set with nobody holding the buffer, which would turn
\* every later print into a silent no-op; a panic that has not yet reached its
\* own store is the exception.
HeldByLive ==
    BUFFER_HELD => ~released \/ \E c \in Live : at[c] = "holding"

=============================================================================
