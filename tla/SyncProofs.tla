---------------------------- MODULE SyncProofs ----------------------------
(***************************************************************************)
(* The synchronisation primitives for every nesting depth and every bound  *)
(* on the updates: first YoinkedBuffer alone, the specification of         *)
(* BufferLock; then all of them, SyncSpec, which implements it, so what    *)
(* was shown of the buffer holds beside the other primitives. All argue    *)
(* that contexts nest: a context goes on only when the contexts above it   *)
(* are gone.                                                               *)
(***************************************************************************)
EXTENDS Sync, TLAPS

----------------------------------------------------------------------------
(* YoinkedBuffer. The try-lock is safe without an atomic exchange: Shadowed   *)
(* says that above a holder nobody gets past the load, and whoever did get    *)
(* past it while an outer context stood between its load and its store has    *)
(* dropped the buffer again before that context goes on.                      *)

\* A live holder has set the flag.
HolderSetsFlag == \A c \in Live : at[c] = "holding" => BUFFER_HELD

\* Contexts above a live holder are idle as far as the buffer goes.
Shadowed ==
    \A c, d \in Live : c < d /\ at[c] = "holding" => at[d] = "idle"

IInv == TypeOK /\ HolderSetsFlag /\ Shadowed /\ HeldByLive

\* The initial state satisfies the invariant.
LEMMA InitIInv == Init => IInv
<1> SUFFICES ASSUME Init PROVE IInv
  OBVIOUS
<1>1. BUFFER_HELD \in BOOLEAN /\ released \in BOOLEAN
  BY Zenon DEF Init
<1>2. ~BUFFER_HELD
  BY Zenon DEF Init
<1>3. TypeOK
  BY <1>1, LockConstants DEF Init, TypeOK, Contexts
<1>4. \A c \in Live : at[c] = "idle"
  BY LockConstants DEF Init, Live, Contexts
<1> QED
  BY <1>2, <1>3, <1>4 DEF IInv, HolderSetsFlag, Shadowed, HeldByLive

\* Every step keeps the invariant.
LEMMA NextIInv == IInv /\ [Next]_vars => IInv'
<1> SUFFICES ASSUME IInv, [Next]_vars PROVE IInv'
  OBVIOUS
<1>0. BUFFER_HELD' \in BOOLEAN /\ released' \in BOOLEAN
  BY Zenon DEF IInv, TypeOK, Next, try_yoink, YoinkLoad, YoinkStore, Drop,
       Interrupt, InterruptReturn, Panic, PanicRelease, vars
<1> USE LockConstants DEF IInv, TypeOK, HolderSetsFlag, Shadowed, HeldByLive,
      Live, Contexts
<1>1. CASE YoinkLoad
  BY <1>1 DEF YoinkLoad
<1>2. CASE YoinkStore
  <2> USE <1>2 DEF YoinkStore
  <2>1. BUFFER_HELD' = TRUE
    BY Zenon
  <2>2. TypeOK'
    BY <1>0
  <2>3. HolderSetsFlag'
    BY Zenon, <2>1
  <2>4. Shadowed'
    OBVIOUS
  <2>5. HeldByLive'
    <3>1. depth \in Live /\ at'[depth] = "holding"
      OBVIOUS
    <3>2. Live' = Live
      OBVIOUS
    <3> QED
      BY Zenon, <3>1, <3>2 DEF HeldByLive
  <2> QED
    BY Zenon, <2>2, <2>3, <2>4, <2>5
<1>3. CASE Drop
  <2> USE <1>3 DEF Drop
  <2>1. BUFFER_HELD' = FALSE
    BY Zenon
  <2>2. TypeOK'
    BY <1>0
  <2>3. \A c \in Live : at'[c] # "holding"
    OBVIOUS
  <2>4. Live' = Live
    OBVIOUS
  <2>5. HolderSetsFlag' /\ Shadowed'
    BY Zenon, <2>3, <2>4 DEF HolderSetsFlag, Shadowed
  <2>6. HeldByLive'
    BY Zenon, <2>1
  <2> QED
    BY Zenon, <2>2, <2>5, <2>6
<1>4. CASE Interrupt
  BY <1>4 DEF Interrupt
<1>5. CASE InterruptReturn
  <2> USE <1>5 DEF InterruptReturn
  <2>1. TypeOK' /\ HolderSetsFlag' /\ Shadowed'
    OBVIOUS
  <2>2. HeldByLive'
    <3> SUFFICES ASSUME BUFFER_HELD, released
                 PROVE  \E c \in Live' : at'[c] = "holding"
      OBVIOUS
    <3>1. PICK c \in Live : at[c] = "holding"
      OBVIOUS
    <3>2. c \in Live' /\ at'[c] = "holding"
      BY <3>1
    <3> QED
      BY <3>2
  <2> QED
    BY <2>1, <2>2
<1>6. CASE Panic
  <2> USE <1>6 DEF Panic
  <2>1. released' = FALSE
    BY Zenon
  <2>2. TypeOK'
    BY <1>0
  <2>3. HolderSetsFlag' /\ Shadowed'
    OBVIOUS
  <2>4. HeldByLive'
    BY Zenon, <2>1
  <2> QED
    BY Zenon, <2>2, <2>3, <2>4
<1>7. CASE PanicRelease
  <2> USE <1>7 DEF PanicRelease
  <2>1. BUFFER_HELD' = FALSE
    BY Zenon
  <2>2. TypeOK'
    BY <1>0
  <2>3. Live' = Live /\ at' = at
    OBVIOUS
  <2>4. \A c \in Live : at[c] # "holding"
    OBVIOUS
  <2>5. HolderSetsFlag' /\ Shadowed'
    BY Zenon, <2>3, <2>4 DEF HolderSetsFlag, Shadowed
  <2>6. HeldByLive'
    BY Zenon, <2>1
  <2> QED
    BY Zenon, <2>2, <2>5, <2>6
<1>8. CASE UNCHANGED vars
  BY <1>8 DEF vars
<1> QED
  BY <1>1, <1>2, <1>3, <1>4, <1>5, <1>6, <1>7, <1>8 DEF Next, try_yoink

\* The invariant holds in every reachable state.
THEOREM Invariance == Spec => []IInv
  BY InitIInv, NextIInv, PTL DEF Spec

\* Every variable keeps its type, at any nesting depth.
THEOREM TypeCorrect == Spec => []TypeOK
<1>1. IInv => TypeOK
  BY DEF IInv
<1> QED
  BY Invariance, <1>1, PTL

\* YoinkedBuffer is exclusive among live contexts (buffers.rs:50-62), however
\* deeply handlers nest.
THEOREM Exclusive == Spec => []OneHolder
<1>1. IInv => OneHolder
  BY LockConstants DEF IInv, TypeOK, Shadowed, OneHolder, Live, Contexts
<1> QED
  BY Invariance, <1>1, PTL

\* The flag is not left set behind the last holder (buffers.rs:75-82).
THEOREM NotLeaked == Spec => []HeldByLive
<1>1. IInv => HeldByLive
  BY DEF IInv
<1> QED
  BY Invariance, <1>1, PTL

----------------------------------------------------------------------------
(* InitLater, ExclusiveMap and ContAccess beside it, an invariant for each. *)

SyncTypeOK ==
    /\ in \in [Contexts -> {"none", "loaded", "stored", "map", "btemap"}]
    /\ local \in [Contexts -> Nat]
    /\ state \in {UNINIT, INITIALISING, INIT}
    /\ cell \in Nat /\ wins \in Nat /\ mapped \in Nat /\ somes \in Nat /\ data \in Nat
    /\ access \in BOOLEAN /\ locked \in BOOLEAN
    /\ INTERRUPT_DEPTH \in Nat

\* The counter of ContAccess is never behind the handlers that are live, so the
\* decrement of restore_state! does not wrap.
DepthCounted == depth <= alive + INTERRUPT_DEPTH

Initialising(c) == in[c] \in {"loaded", "stored"}

\* InitLater. What a live init will put back is justified: INIT by a whole value,
\* INITIALISING by an init further out that has stored and not ended. An init
\* above one that did not see UNINIT does not see UNINIT either.
InitInv ==
    /\ ReadsWhole
    /\ wins > 0 => state # UNINIT
    /\ \A c \in Live : Initialising(c) /\ local[c] = INIT => cell \in Contexts
    /\ \A c \in Live : Initialising(c) => local[c] \in {UNINIT, INITIALISING, INIT}
    /\ \A c \in Live : Initialising(c) /\ local[c] # UNINIT => state # UNINIT
    /\ \A c, d \in Live :
         c < d /\ Initialising(c) /\ Initialising(d) /\ local[c] # UNINIT
            => local[d] # UNINIT

\* InitLater until a panic: INITIALISING is the state, or what a live init loaded,
\* only above an init that has stored and not ended.
InitialisingHeld ==
    alive = 0 =>
      /\ state = INITIALISING => \E e \in Live : in[e] = "stored"
      /\ \A c \in Live : Initialising(c) /\ local[c] = INITIALISING
            => \E e \in Live : e < c /\ in[e] = "stored"

\* ExclusiveMap: one live context is inside, with the flag set and the current
\* value in its hands.
MapInv ==
    /\ mapped = somes
    /\ \A c \in Live : in[c] = "map" => local[c] = mapped
    /\ \A c, d \in Live : in[c] = "map" /\ in[d] = "map" => c = d

MapFlag == \A c \in Live : in[c] = "map" => access
MapFlagHeld == access /\ alive = 0 => \E c \in Live : in[c] = "map"

\* ContAccess: likewise.
BtemapInv ==
    /\ BtemapUndisturbed
    /\ \A c, d \in Live : in[c] = "btemap" /\ in[d] = "btemap" => c = d

BtemapFlag == \A c \in Live : in[c] = "btemap" => locked

SyncIInv ==
    /\ IInv /\ SyncTypeOK /\ DepthCounted
    /\ InitInv /\ InitialisingHeld
    /\ MapInv /\ MapFlag /\ MapFlagHeld
    /\ BtemapInv /\ BtemapFlag

\* What the buffer's operations and the contexts' comings and goings do to
\* BufferLock's state is what BufferLock lets them do; the other primitives leave
\* it alone.
LEMMA SyncStep == [SyncNext]_<<vars, syncVars>> => [Next]_vars
  BY Zenon DEF SyncNext, Buffer, InitLater, ExclusiveMap, ContAccess, InitLoad,
       InitStore, InitEnd, MapEnter, MapLeave, BtemapEnter, BtemapLeave,
       ContWrite, Enter, Leave, Dies, Next, vars

\* The composition implements the specification of YoinkedBuffer.
THEOREM ImplementsBufferLock == SyncSpec => Spec
<1>1. SyncInit => Init
  BY DEF SyncInit
<1> QED
  BY <1>1, SyncStep, PTL DEF SyncSpec, Spec

\* The initial state satisfies the invariant.
LEMMA SyncInitIInv == SyncInit => SyncIInv
<1> SUFFICES ASSUME SyncInit PROVE SyncIInv
  OBVIOUS
<1> USE LockConstants
<1>1. IInv
  BY InitIInv DEF SyncInit
<1>2. access \in BOOLEAN /\ locked \in BOOLEAN /\ ~access
  BY Zenon DEF SyncInit
<1>3. Live \subseteq Contexts /\ \A c \in Live : in[c] = "none"
  BY DEF SyncInit, Init, Live, Contexts
<1>4. SyncTypeOK /\ DepthCounted
  BY <1>2 DEF SyncInit, Init, SyncTypeOK, DepthCounted, UNINIT, Nothing, Contexts
<1>5. InitInv /\ InitialisingHeld
  BY <1>3 DEF SyncInit, InitInv, InitialisingHeld, ReadsWhole, Initialising,
       UNINIT, INIT, INITIALISING
<1>6. MapInv /\ MapFlag /\ BtemapInv /\ BtemapFlag
  BY <1>3 DEF SyncInit, MapInv, MapFlag, BtemapInv, BtemapUndisturbed, BtemapFlag
<1>7. MapFlagHeld
  BY <1>2 DEF MapFlagHeld
<1> QED
  BY <1>1, <1>4, <1>5, <1>6, <1>7 DEF SyncIInv

\* The steps of InitLater keep the invariant.
LEMMA InitLaterIInv == SyncIInv /\ IInv' /\ InitLater => SyncIInv'
<1> SUFFICES ASSUME SyncIInv, IInv', InitLater PROVE SyncIInv'
  OBVIOUS
<1> USE LockConstants DEF SyncIInv, IInv, TypeOK, SyncTypeOK, Live, Contexts, vars
<1>1. /\ UNCHANGED <<BUFFER_HELD, at, depth, alive, released>>
      /\ UNCHANGED <<access, mapped, somes, locked, data, INTERRUPT_DEPTH>>
  BY DEF InitLater, InitLoad, InitStore, InitEnd
<1>2. Live' = Live /\ depth \in Live /\ Live \subseteq Contexts
  BY <1>1
<1>3. in[depth] \notin {"map", "btemap"} /\ in'[depth] \notin {"map", "btemap"}
  BY <1>2 DEF InitLater, InitLoad, InitStore, InitEnd, Enters, Leaves, Idle
<1>4. \A c \in Contexts : c # depth => in'[c] = in[c] /\ local'[c] = local[c]
  BY DEF InitLater, InitLoad, InitStore, InitEnd, Enters, Leaves, Idle
<1>5. MapInv' /\ BtemapInv'
  <2>1. \A c \in Live : in'[c] \in {"map", "btemap"} => c # depth
    BY <1>3
  <2>2. \A c \in Live : in'[c] \in {"map", "btemap"}
                          => in[c] = in'[c] /\ local'[c] = local[c]
    BY <1>2, <1>4, <2>1
  <2>3. MapInv'
    BY <1>1, <1>2, <2>2 DEF MapInv
  <2>4. BtemapInv'
    BY <1>1, <1>2, <2>2 DEF BtemapInv, BtemapUndisturbed
  <2> QED
    BY <2>3, <2>4
<1>6. MapFlag' /\ BtemapFlag'
  BY <1>1, <1>2, <1>3, <1>4 DEF MapFlag, BtemapFlag
<1>7. MapFlagHeld'
  BY <1>1, <1>2, <1>3, <1>4 DEF MapFlagHeld
<1>8. SyncTypeOK' /\ DepthCounted'
  <2>1. access' \in BOOLEAN /\ locked' \in BOOLEAN
    BY <1>1, Zenon
  <2> USE DEF UNINIT, INITIALISING, INIT
  <2>2. CASE InitLoad
    BY <1>1, <2>1, <2>2 DEF DepthCounted, InitLoad, Enters
  <2>3. CASE InitStore
    BY <1>1, <2>1, <2>3 DEF DepthCounted, InitStore, Nothing, Torn
  <2>4. CASE InitEnd
    <3>1. Initialising(depth) /\ local[depth] \in {UNINIT, INITIALISING, INIT}
      BY <1>2, <2>4 DEF InitEnd, Leaves, Initialising, InitInv
    <3> QED
      BY <1>1, <2>1, <2>4, <3>1 DEF DepthCounted, InitEnd, Leaves
  <2> QED
    BY <2>2, <2>3, <2>4 DEF InitLater
<1> USE DEF InitInv, InitialisingHeld, ReadsWhole, Initialising, UNINIT,
      INITIALISING, INIT
<1>9. CASE InitLoad
  BY <1>1, <1>2, <1>5, <1>6, <1>7, <1>8, <1>9 DEF InitLoad, Enters, Idle
<1>10. CASE InitStore
  BY <1>1, <1>2, <1>5, <1>6, <1>7, <1>8, <1>10 DEF InitStore
<1>11. CASE InitEnd
  <2> USE <1>11 DEF InitEnd, Leaves
  <2>1. in[depth] = "stored" /\ in'[depth] = "none"
    BY <1>2
  <2>2. \A c \in Live : Initialising(c)' => c < depth /\ Initialising(c)
    BY <1>1, <1>2, <1>4, <2>1
  <2>3. state' # UNINIT
    BY <1>2
  <2>4. InitInv'
    BY <1>1, <1>2, <1>4, <2>1, <2>2, <2>3
  <2>5. InitialisingHeld'
    <3> SUFFICES ASSUME alive = 0 PROVE InitialisingHeld'
      BY <1>1
    <3>1. state' = INITIALISING => \E e \in Live : in'[e] = "stored"
      <4> SUFFICES ASSUME state' = INITIALISING
                   PROVE  \E e \in Live : in'[e] = "stored"
        OBVIOUS
      <4>1. PICK e \in Live : e < depth /\ in[e] = "stored"
        BY <1>2
      <4> QED
        BY <1>2, <1>4, <4>1
    <3>2. ASSUME NEW c \in Live, Initialising(c)', local'[c] = INITIALISING
          PROVE  \E e \in Live : e < c /\ in'[e] = "stored"
      <4>1. c < depth /\ Initialising(c) /\ local[c] = INITIALISING
        BY <1>2, <1>4, <2>2, <3>2
      <4>2. PICK e \in Live : e < c /\ in[e] = "stored"
        BY <4>1
      <4> QED
        BY <1>2, <1>4, <4>1, <4>2
    <3> QED
      BY <1>1, <1>2, <3>1, <3>2
  <2> QED
    BY <1>5, <1>6, <1>7, <1>8, <2>4, <2>5
<1> QED
  BY <1>9, <1>10, <1>11 DEF InitLater

\* A step of the running context that stays away from InitLater, in the same
\* context, leaves what is known of InitLater as it was.
LEMMA InitLaterFrame ==
    ASSUME SyncIInv, UNCHANGED <<depth, alive, state, cell, wins>>,
           ~Initialising(depth), ~Initialising(depth)',
           \A c \in Contexts : c # depth => in'[c] = in[c] /\ local'[c] = local[c]
    PROVE  InitInv' /\ InitialisingHeld'
<1> USE LockConstants DEF SyncIInv, IInv, TypeOK, Live, Contexts
<1>1. Live' = Live /\ Live \subseteq Contexts
  OBVIOUS
<1>2. \A c \in Live : /\ Initialising(c)' <=> Initialising(c)
                      /\ in'[c] = "stored" <=> in[c] = "stored"
                      /\ Initialising(c) => local'[c] = local[c]
  BY <1>1 DEF Initialising
<1>3. InitInv'
  BY <1>1, <1>2 DEF InitInv, ReadsWhole
<1>4. InitialisingHeld'
  BY <1>1, <1>2 DEF InitialisingHeld
<1> QED
  BY <1>3, <1>4

\* The steps of ExclusiveMap keep the invariant.
LEMMA ExclusiveMapIInv == SyncIInv /\ IInv' /\ ExclusiveMap => SyncIInv'
<1> SUFFICES ASSUME SyncIInv, IInv', ExclusiveMap PROVE SyncIInv'
  OBVIOUS
<1> USE LockConstants DEF SyncIInv, IInv, TypeOK, SyncTypeOK, Live, Contexts, vars
<1>1. /\ UNCHANGED <<BUFFER_HELD, at, depth, alive, released>>
      /\ UNCHANGED <<state, cell, wins, locked, data, INTERRUPT_DEPTH>>
  BY DEF ExclusiveMap, MapEnter, MapLeave
<1>2. Live' = Live /\ depth \in Live /\ Live \subseteq Contexts
  BY <1>1
<1>3. in[depth] \in {"none", "map"} /\ in'[depth] \in {"none", "map"}
  BY <1>2 DEF ExclusiveMap, MapEnter, MapLeave, Enters, Leaves, Idle
<1>4. \A c \in Contexts : c # depth => in'[c] = in[c] /\ local'[c] = local[c]
  BY DEF ExclusiveMap, MapEnter, MapLeave, Enters, Leaves
<1>5. InitInv' /\ InitialisingHeld'
  BY <1>1, <1>3, <1>4, InitLaterFrame DEF Initialising
<1>6. BtemapInv' /\ BtemapFlag'
  <2>1. \A c \in Live : in'[c] = "btemap" => in[c] = "btemap" /\ local'[c] = local[c]
    BY <1>2, <1>3, <1>4
  <2>2. BtemapInv'
    BY <1>1, <1>2, <2>1 DEF BtemapInv, BtemapUndisturbed
  <2> QED
    BY <1>1, <1>2, <2>1, <2>2 DEF BtemapFlag
<1>7. access' \in BOOLEAN /\ locked' \in BOOLEAN
  BY <1>1, Zenon DEF ExclusiveMap, MapEnter, MapLeave
<1>8. CASE MapEnter
  <2> USE <1>8 DEF MapEnter, Enters, Idle
  <2>1. ~access /\ access'
    BY Zenon
  <2>2. \A c \in Live : in[c] # "map"
    BY <2>1 DEF MapFlag
  <2>3. SyncTypeOK' /\ DepthCounted'
    BY <1>1, <1>7 DEF DepthCounted
  <2>4. in'[depth] = "map" /\ local'[depth] = mapped /\ UNCHANGED <<mapped, somes>>
    BY <1>2
  <2>5. \A c \in Live : in'[c] = "map" => c = depth
    BY <1>2, <1>4, <2>2
  <2>6. MapInv'
    BY <1>2, <2>4, <2>5 DEF MapInv
  <2>7. MapFlag' /\ MapFlagHeld'
    BY <1>2, <2>1, <2>4 DEF MapFlag, MapFlagHeld
  <2> QED
    BY <1>5, <1>6, <2>3, <2>6, <2>7
<1>9. CASE MapLeave
  <2> USE <1>9 DEF MapLeave, Leaves
  <2>1. ~access'
    BY Zenon
  <2>2. \A c \in Live : in'[c] # "map"
    BY <1>2, <1>4 DEF MapInv
  <2>3. SyncTypeOK' /\ DepthCounted'
    BY <1>1, <1>2, <1>7 DEF DepthCounted
  <2>4. mapped' = somes'
    BY <1>2 DEF MapInv
  <2>5. MapInv' /\ MapFlag'
    BY <1>2, <2>2, <2>4 DEF MapInv, MapFlag
  <2>6. MapFlagHeld'
    BY <2>1 DEF MapFlagHeld
  <2> QED
    BY <1>5, <1>6, <2>3, <2>5, <2>6
<1> QED
  BY <1>8, <1>9 DEF ExclusiveMap

\* The steps of ContAccess keep the invariant.
LEMMA ContAccessIInv == SyncIInv /\ IInv' /\ ContAccess => SyncIInv'
<1> SUFFICES ASSUME SyncIInv, IInv', ContAccess PROVE SyncIInv'
  OBVIOUS
<1> USE LockConstants DEF SyncIInv, IInv, TypeOK, SyncTypeOK, Live, Contexts, vars
<1>1. /\ UNCHANGED <<BUFFER_HELD, at, depth, alive, released>>
      /\ UNCHANGED <<state, cell, wins, access, mapped, somes, INTERRUPT_DEPTH>>
  BY DEF ContAccess, BtemapEnter, BtemapLeave, ContWrite
<1>2. Live' = Live /\ depth \in Live /\ Live \subseteq Contexts
  BY <1>1
<1>3. in[depth] \in {"none", "btemap"} /\ in'[depth] \in {"none", "btemap"}
  BY <1>2 DEF ContAccess, BtemapEnter, BtemapLeave, ContWrite, Enters, Leaves, Idle
<1>4. \A c \in Contexts : c # depth => in'[c] = in[c] /\ local'[c] = local[c]
  BY DEF ContAccess, BtemapEnter, BtemapLeave, ContWrite, Enters, Leaves
<1>5. InitInv' /\ InitialisingHeld'
  BY <1>1, <1>3, <1>4, InitLaterFrame DEF Initialising
<1>6. MapInv' /\ MapFlag' /\ MapFlagHeld'
  <2>1. \A c \in Live : /\ in'[c] = "map" <=> in[c] = "map"
                        /\ in[c] = "map" => local'[c] = local[c]
    BY <1>2, <1>3, <1>4
  <2>2. MapInv'
    BY <1>1, <1>2, <2>1 DEF MapInv
  <2> QED
    BY <1>1, <1>2, <2>1, <2>2 DEF MapFlag, MapFlagHeld
<1>7. access' \in BOOLEAN /\ locked' \in BOOLEAN
  BY <1>1, Zenon DEF ContAccess, BtemapEnter, BtemapLeave, ContWrite
<1>8. SyncTypeOK' /\ DepthCounted'
  <2>1. data' \in Nat
    BY <1>2 DEF ContAccess, BtemapEnter, BtemapLeave, ContWrite
  <2>2. /\ in' \in [Contexts -> {"none", "loaded", "stored", "map", "btemap"}]
        /\ local' \in [Contexts -> Nat]
    <3>1. CASE BtemapEnter
      BY <3>1 DEF BtemapEnter, Enters
    <3>2. CASE BtemapLeave
      BY <3>2 DEF BtemapLeave, Leaves
    <3>3. CASE ContWrite
      BY <3>3 DEF ContWrite
    <3> QED
      BY <3>1, <3>2, <3>3 DEF ContAccess
  <2> QED
    BY <1>1, <1>7, <2>1, <2>2 DEF DepthCounted
<1>9. CASE BtemapEnter
  <2> USE <1>9 DEF BtemapEnter, Enters, Idle
  <2>1. ~locked /\ locked'
    BY Zenon DEF check_access
  <2>2. \A c \in Live : in[c] # "btemap"
    BY <2>1 DEF BtemapFlag
  <2>3. in'[depth] = "btemap" /\ local'[depth] = data /\ data' = data
    BY <1>2
  <2>4. \A c \in Live : in'[c] = "btemap" => c = depth
    BY <1>2, <1>4, <2>2
  <2>5. BtemapInv' /\ BtemapFlag'
    BY <1>2, <2>1, <2>3, <2>4 DEF BtemapInv, BtemapUndisturbed, BtemapFlag
  <2> QED
    BY <1>5, <1>6, <1>8, <2>5
<1>10. CASE BtemapLeave
  <2> USE <1>10 DEF BtemapLeave, Leaves
  <2>1. \A c \in Live : in'[c] # "btemap"
    BY <1>2, <1>4 DEF BtemapInv
  <2>2. BtemapInv' /\ BtemapFlag'
    BY <1>2, <2>1 DEF BtemapInv, BtemapUndisturbed, BtemapFlag
  <2> QED
    BY <1>5, <1>6, <1>8, <2>2
<1>11. CASE ContWrite
  <2>1. ~locked
    BY <1>11, Zenon DEF ContWrite, check_access
  <2>2. \A c \in Live : in'[c] # "btemap"
    BY <1>11, <2>1 DEF ContWrite, BtemapFlag
  <2>3. BtemapInv' /\ BtemapFlag'
    BY <1>2, <2>2 DEF BtemapInv, BtemapUndisturbed, BtemapFlag
  <2> QED
    BY <1>5, <1>6, <1>8, <2>3
<1> QED
  BY <1>9, <1>10, <1>11 DEF ContAccess

\* A handler that comes or goes, and a panic, keep the invariant: a context that
\* comes is inside nothing, and one that goes has left what it was inside of.
LEMMA ContextsIInv == SyncIInv /\ IInv' /\ (Enter \/ Leave \/ Dies) => SyncIInv'
<1> SUFFICES ASSUME SyncIInv, IInv', Enter \/ Leave \/ Dies PROVE SyncIInv'
  OBVIOUS
<1> USE LockConstants DEF SyncIInv, IInv, TypeOK, SyncTypeOK, Live, Contexts
<1>1. UNCHANGED <<local, state, cell, wins, access, mapped, somes, locked, data>>
  BY DEF Enter, Leave, Dies
<1>2. /\ \A c \in Live' : /\ in'[c] # "none" => c \in Live
                          /\ c \in Live => in'[c] = in[c]
      /\ alive' = 0 =>
           /\ alive = 0
           /\ \A c \in Live : in[c] # "none" => c \in Live' /\ in'[c] = in[c]
  <2>1. CASE Enter
    BY <2>1 DEF Enter, Interrupt
  <2>2. CASE Leave
    BY <2>2 DEF Leave, InterruptReturn
  <2>3. CASE Dies
    BY <2>3 DEF Dies, Panic
  <2> QED
    BY <2>1, <2>2, <2>3
<1>3. SyncTypeOK' /\ DepthCounted'
  <2>1. access' \in BOOLEAN /\ locked' \in BOOLEAN
    BY <1>1, Zenon
  <2>2. CASE Enter
    BY <1>1, <2>1, <2>2 DEF DepthCounted, Enter, Interrupt
  <2>3. CASE Leave
    BY <1>1, <2>1, <2>3 DEF DepthCounted, Leave, InterruptReturn
  <2>4. CASE Dies
    BY <1>1, <2>1, <2>4 DEF DepthCounted, Dies, Panic
  <2> QED
    BY <2>2, <2>3, <2>4
<1>4. InitInv'
  BY <1>1, <1>2 DEF InitInv, ReadsWhole, Initialising
<1>5. InitialisingHeld'
  <2> SUFFICES ASSUME alive' = 0 PROVE InitialisingHeld'
    BY DEF InitialisingHeld
  <2>1. state' = INITIALISING => \E e \in Live' : in'[e] = "stored"
    BY <1>1, <1>2 DEF InitialisingHeld
  <2>2. ASSUME NEW c \in Live', Initialising(c)', local'[c] = INITIALISING
        PROVE  \E e \in Live' : e < c /\ in'[e] = "stored"
    <3>1. c \in Live /\ Initialising(c) /\ local[c] = INITIALISING
      BY <1>1, <1>2, <2>2 DEF Initialising
    <3>2. PICK e \in Live : e < c /\ in[e] = "stored"
      BY <1>2, <3>1 DEF InitialisingHeld
    <3> QED
      BY <1>2, <3>2
  <2> QED
    BY <2>1, <2>2 DEF InitialisingHeld
<1>6. MapInv' /\ BtemapInv'
  BY <1>1, <1>2 DEF MapInv, BtemapInv, BtemapUndisturbed
<1>7. MapFlag' /\ BtemapFlag'
  BY <1>1, <1>2 DEF MapFlag, BtemapFlag
<1>8. MapFlagHeld'
  BY <1>1, <1>2 DEF MapFlagHeld
<1> QED
  BY <1>3, <1>4, <1>5, <1>6, <1>7, <1>8

\* Every step keeps the invariant.
LEMMA SyncNextIInv == SyncIInv /\ [SyncNext]_<<vars, syncVars>> => SyncIInv'
<1> SUFFICES ASSUME SyncIInv, [SyncNext]_<<vars, syncVars>> PROVE SyncIInv'
  OBVIOUS
<1>1. IInv'
  BY SyncStep, NextIInv DEF SyncIInv
<1>2. CASE Buffer \/ UNCHANGED <<vars, syncVars>>
  <2>1. UNCHANGED <<syncVars, depth, alive>>
    BY <1>2 DEF Buffer, try_yoink, YoinkLoad, YoinkStore, Drop, PanicRelease, vars
  <2>2. Live' = Live /\ Contexts' = Contexts
    BY <2>1 DEF Live, Contexts
  <2>3. SyncTypeOK' /\ DepthCounted'
    BY <2>1, <2>2, Zenon DEF SyncIInv, SyncTypeOK, DepthCounted, syncVars
  <2>4. InitInv' /\ InitialisingHeld'
    BY <2>1, <2>2 DEF SyncIInv, InitInv, InitialisingHeld, ReadsWhole, Initialising,
         syncVars
  <2>5. MapInv' /\ MapFlag' /\ MapFlagHeld' /\ BtemapInv' /\ BtemapFlag'
    BY <2>1, <2>2 DEF SyncIInv, MapInv, MapFlag, MapFlagHeld, BtemapInv, BtemapFlag,
         BtemapUndisturbed, syncVars
  <2> QED
    BY <1>1, <2>3, <2>4, <2>5 DEF SyncIInv
<1> QED
  BY <1>1, <1>2, InitLaterIInv, ExclusiveMapIInv, ContAccessIInv, ContextsIInv
     DEF SyncNext

\* The invariant holds in every reachable state.
THEOREM SyncInvariance == SyncSpec => []SyncIInv
  BY SyncInitIInv, SyncNextIInv, PTL DEF SyncSpec

\* The buffer stays exclusive and its flag is not leaked while its holders also use
\* the other primitives (buffers.rs:50-83).
THEOREM BufferBeside == SyncSpec => [](OneHolder /\ HeldByLive)
  BY ImplementsBufferLock, Exclusive, NotLeaked, PTL

\* read never returns a value that is missing or half written, however deeply
\* the calls of init nest and wherever a panic stops them (sync.rs:67-92).
THEOREM InitLaterReadsWhole == SyncSpec => []ReadsWhole
<1>1. SyncIInv => ReadsWhole
  BY DEF SyncIInv, InitInv
<1> QED
  BY SyncInvariance, <1>1, PTL

\* Once init has returned Ok the value can be read between calls for good, until a
\* panic leaves a call unfinished (sync.rs:67-83).
THEOREM InitLaterKept == SyncSpec => []InitKept
<1>1. SyncIInv => InitKept
  <2> SUFFICES ASSUME SyncIInv, wins > 0, alive = 0,
                      \A c \in Live : in[c] \notin {"loaded", "stored"}
               PROVE  state = INIT
    BY DEF InitKept
  <2> QED
    BY DEF SyncIInv, InitInv, InitialisingHeld, SyncTypeOK
<1> QED
  BY SyncInvariance, <1>1, PTL

\* map loses no update and leaves its flag set only while a closure runs
\* (sync.rs:148-168).
THEOREM ExclusiveMapUpdates == SyncSpec => []MapUpdatesKept
<1>1. SyncIInv => MapUpdatesKept
  BY DEF SyncIInv, MapInv, MapFlagHeld, MapUpdatesKept
<1> QED
  BY SyncInvariance, <1>1, PTL

\* Nobody changes the value a closure of btemap works on (cont_access.rs:108-127).
THEOREM ContAccessUndisturbed == SyncSpec => []BtemapUndisturbed
<1>1. SyncIInv => BtemapUndisturbed
  BY DEF SyncIInv, BtemapInv
<1> QED
  BY SyncInvariance, <1>1, PTL

=============================================================================
