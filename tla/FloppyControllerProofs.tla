---------------------- MODULE FloppyControllerProofs ----------------------
(***************************************************************************)
(* The floppy driver's nested retries, for every retry count, any number   *)
(* of nested resets and any number of operations.                          *)
(*                                                                         *)
(* The argument rests on the driver's call graph. Counted from the         *)
(* outermost call, frame 1 is read, write or init, frame 2 of an operation *)
(* is send_read_write, and only what send_read_write calls directly issues *)
(* a transfer or moves the head: the resets that a failing command nests,  *)
(* however deep, do neither.                                               *)
(***************************************************************************)
EXTENDS FloppyController, SequenceTheorems, FiniteSetTheorems, TLAPS

Fns    == {"init", "disk", "send_read_write", "seek", "send_command", "sense_int",
           "init_fdc"}
Args   == Transfers \cup Targets
            \cup {"boot", "fdc", "version", "configure", "specify", "first_reset",
                  "other_reset"}
Labels == {"version", "read", "configure", "reset", "recal", "done",
           "attempt", "sent", "data", "status",
           "check", "homed", "seeked", "rqm", "start", "sensed", "send", "lockup",
           "pulse", "sense", "configured", "specified", "overflow"}
Frames == [fn : Fns, arg : Args, at : Labels, n : Nat]

\* The k-th call, counted from the outermost.
Nth(s, k) == s[Len(s) + 1 - k]

\* A call inside a retry loop has a retry to spend.
InLoop(f) ==
    \/ f.fn = "disk" /\ f.at \in {"sent", "data", "status"}
    \/ f.fn = "send_read_write" /\ f.at \in {"homed", "seeked", "rqm", "sent"}
    \/ f.fn = "seek" /\ f.at \in {"sent", "sensed"}
    \/ f.fn = "send_command" /\ f.at = "reset"
    \/ f.fn = "init_fdc" /\ f.at = "sensed"

\* The call graph: what a call that waits at a label has called.
Calls(c, f) ==
    \/ /\ c.fn = "disk" /\ c.at = "sent"
       /\ f.fn = "send_read_write" /\ f.arg = c.arg
    \/ /\ c.fn = "send_read_write"
       /\ \/ c.at = "homed" /\ f.fn = "seek" /\ f.arg = "home"
          \/ c.at = "seeked" /\ f.fn = "seek" /\ f.arg = "target"
          \/ c.at = "sent" /\ f.fn = "send_command" /\ f.arg = c.arg
    \/ /\ c.fn = "seek" /\ f.arg = c.arg
       /\ \/ c.at = "sent" /\ f.fn = "send_command"
          \/ c.at = "sensed" /\ f.fn = "sense_int"
    \/ c.fn = "send_command" /\ c.at = "reset" /\ f.fn = "init_fdc" /\ f.arg = "fdc"
    \/ c.fn = "sense_int" /\ c.at = "lockup" /\ f.fn = "init_fdc" /\ f.arg = "fdc"
    \/ /\ c.fn = "init_fdc"
       /\ \/ /\ c.at = "sensed" /\ f.fn = "sense_int"
             /\ f.arg \in {"first_reset", "other_reset"}
          \/ c.at = "configured" /\ f.fn = "send_command" /\ f.arg = "configure"
          \/ c.at = "specified" /\ f.fn = "send_command" /\ f.arg = "specify"
    \/ /\ c.fn = "init"
       /\ \/ c.at = "read" /\ f.fn = "send_command" /\ f.arg = "version"
          \/ c.at = "reset" /\ f.fn = "send_command" /\ f.arg = "configure"
          \/ c.at = "recal" /\ f.fn = "init_fdc" /\ f.arg = "fdc"
          \/ c.at = "done" /\ f.fn = "seek" /\ f.arg = "home"

Outermost(f) == f.fn = "init" \/ (f.fn = "disk" /\ f.arg \in Transfers)

CallGraph ==
    /\ stack \in Seq(Frames)
    /\ \A k \in 1..Len(stack) : InLoop(Nth(stack, k)) => Nth(stack, k).n > 0
    /\ stack # <<>> => Outermost(Nth(stack, 1))
    /\ \A k \in 2..Len(stack) : Calls(Nth(stack, k - 1), Nth(stack, k))

\* send_read_write is waiting for RQM, or for its transfer command.
Aimed(s) ==
    /\ Len(s) >= 2 /\ Nth(s, 2).fn = "send_read_write"
    /\ Nth(s, 2).at \in {"rqm", "sent"}

\* The transfer command of this attempt was taken, and disk is yet to hear of it.
Taken ==
    /\ ret = "ok"
    /\ \/ Len(stack) = 1 /\ Nth(stack, 1).at = "sent"
       \/ Len(stack) = 2 /\ Nth(stack, 2).fn = "send_read_write"
            /\ Nth(stack, 2).at = "sent"

\* This attempt's transfer command has been issued.
Spent ==
    \/ Len(stack) = 1 /\ Nth(stack, 1).at \in {"data", "status"}
    \/ Taken

Budget ==
    /\ issued \in Nat /\ issued <= DISK_RETRIES
    /\ stack # <<>> /\ Nth(stack, 1).fn = "disk" =>
         issued + Nth(stack, 1).n <= DISK_RETRIES + (IF Spent THEN 1 ELSE 0)

HeadProved ==
    /\ Aimed(stack) => head = "target"
    /\ On("seek", "sensed") /\ ret = "ok" => head = Top.arg
    /\ On("send_read_write", "seeked") /\ ret = "ok" => head = "target"

ReadReady ==
    /\ stack # <<>> => result # <<"read", "ok">>
    /\ ReadOkInSync

IInv == CallGraph /\ Budget /\ HeadProved /\ ReadReady

----------------------------------------------------------------------------
(* Frames counted from the outermost keep their number when the stack grows. *)

\* A natural number that is not zero.
LEMMA OneOrMore == \A m \in Nat : m >= 1 => m = 1 \/ m > 1
OBVIOUS

\* A frame on top of a stack.
LEMMA Push ==
    ASSUME NEW s \in Seq(Frames), NEW f \in Frames
    PROVE  /\ <<f>> \o s \in Seq(Frames) /\ Len(<<f>> \o s) = Len(s) + 1
           /\ <<f>> \o s # <<>> /\ Head(<<f>> \o s) = f /\ Tail(<<f>> \o s) = s
           /\ Nth(<<f>> \o s, Len(s) + 1) = f
           /\ \A k \in 1..Len(s) : Nth(<<f>> \o s, k) = Nth(s, k)
<1> DEFINE t == <<f>> \o s
<1>1. <<f>> \in Seq(Frames) /\ Len(<<f>>) = 1 /\ <<f>>[1] = f
  OBVIOUS
<1>2. /\ t \in Seq(Frames) /\ Len(t) = Len(s) + 1
      /\ \A i \in 1..(Len(s) + 1) : t[i] = IF i <= 1 THEN f ELSE s[i - 1]
  BY <1>1, ConcatProperties
<1>3. Len(s) \in Nat /\ t # <<>>
  BY <1>2, LenProperties, EmptySeq
<1> HIDE DEF t
<1>4. t[1] = f /\ Head(t) = f
  BY <1>2, <1>3
<1>5. /\ Tail(t) \in Seq(Frames) /\ Len(Tail(t)) = Len(s)
      /\ \A i \in 1..Len(Tail(t)) : Tail(t)[i] = t[i + 1]
  BY <1>2, <1>3, HeadTailProperties
<1>6. \A i \in 1..Len(s) : Tail(t)[i] = s[i]
  BY <1>2, <1>3, <1>5
<1>7. Tail(t) = s
  BY <1>5, <1>6, SeqEqual
<1>8. Nth(t, Len(s) + 1) = f
  BY <1>2, <1>3, <1>4 DEF Nth
<1>9. ASSUME NEW k \in 1..Len(s)
      PROVE  Nth(t, k) = Nth(s, k)
  <2>1. /\ Len(t) + 1 - k \in 1..(Len(s) + 1) /\ ~(Len(t) + 1 - k <= 1)
        /\ (Len(t) + 1 - k) - 1 = Len(s) + 1 - k
    BY <1>2, <1>3
  <2> QED
    BY <1>2, <2>1 DEF Nth
<1> QED
  BY <1>2, <1>3, <1>4, <1>7, <1>8, <1>9 DEF t

\* The innermost frame of a stack, and the rest of it.
LEMMA Pop ==
    ASSUME NEW s \in Seq(Frames), s # <<>>
    PROVE  /\ Head(s) \in Frames /\ Tail(s) \in Seq(Frames)
           /\ Len(s) \in Nat /\ Len(s) >= 1 /\ Len(Tail(s)) = Len(s) - 1
           /\ Head(s) = Nth(s, Len(s))
           /\ \A k \in 1..Len(s) : Nth(s, k) \in Frames
           /\ \A k \in 1..(Len(s) - 1) : Nth(Tail(s), k) = Nth(s, k)
<1>1. /\ Head(s) \in Frames /\ Tail(s) \in Seq(Frames) /\ Len(Tail(s)) = Len(s) - 1
      /\ \A i \in 1..Len(Tail(s)) : Tail(s)[i] = s[i + 1]
  BY HeadTailProperties
<1>2. Head(s) = s[1] /\ Len(s) \in Nat /\ Len(s) >= 1
  BY EmptySeq
<1>3. Head(s) = Nth(s, Len(s))
  BY <1>2 DEF Nth
<1>4. \A k \in 1..Len(s) : Len(s) + 1 - k \in 1..Len(s)
  BY <1>2
<1>5. \A i \in 1..Len(s) : s[i] \in Frames
  BY ElementOfSeq
<1>6. \A k \in 1..Len(s) : Nth(s, k) \in Frames
  BY <1>4, <1>5 DEF Nth
<1>7. ASSUME NEW k \in 1..(Len(s) - 1)
      PROVE  Nth(Tail(s), k) = Nth(s, k)
  <2>1. /\ Len(Tail(s)) + 1 - k \in 1..Len(Tail(s))
        /\ (Len(Tail(s)) + 1 - k) + 1 = Len(s) + 1 - k
    BY <1>1, <1>2
  <2> QED
    BY <1>1, <2>1 DEF Nth
<1> QED
  BY <1>1, <1>2, <1>3, <1>6, <1>7

\* A call: the caller waits at a label, and the frame it calls is on top.
LEMMA CallFrames ==
    ASSUME stack \in Seq(Frames), stack # <<>>,
           NEW at \in Labels, NEW f \in Frames, Call(at, f)
    PROVE  /\ stack' \in Seq(Frames) /\ stack' # <<>> /\ Head(stack') = f
           /\ Len(stack) \in Nat /\ Len(stack) >= 1 /\ Len(stack') = Len(stack) + 1
           /\ Top = Nth(stack, Len(stack)) /\ Top \in Frames
           /\ Nth(stack', Len(stack) + 1) = f
           /\ Nth(stack', Len(stack)) = [Top EXCEPT !.at = at]
           /\ \A k \in 1..(Len(stack) - 1) : Nth(stack', k) = Nth(stack, k)
           /\ ret' = "none"
<1> DEFINE c == [Top EXCEPT !.at = at]
           t == <<c>> \o Tail(stack)
<1>1. /\ Top \in Frames /\ Tail(stack) \in Seq(Frames)
      /\ Len(stack) \in Nat /\ Len(stack) >= 1 /\ Len(Tail(stack)) = Len(stack) - 1
      /\ Top = Nth(stack, Len(stack))
      /\ \A k \in 1..(Len(stack) - 1) : Nth(Tail(stack), k) = Nth(stack, k)
  BY Pop DEF Top
<1>2. c \in Frames
  BY <1>1 DEF Frames
<1>3. stack' = <<f>> \o t /\ ret' = "none"
  <2>1. stack' = <<f, c>> \o Tail(stack) /\ ret' = "none"
    BY DEF Call
  <2>2. <<f, c>> = <<f>> \o <<c>>
    BY <1>2
  <2>3. /\ <<f>> \in Seq(Frames) /\ <<c>> \in Seq(Frames)
    BY <1>2
  <2>4. (<<f>> \o <<c>>) \o Tail(stack) = <<f>> \o (<<c>> \o Tail(stack))
    BY <1>1, <2>3, ConcatAssociative
  <2> QED
    BY <2>1, <2>2, <2>4
<1> HIDE DEF c
<1>4. /\ t \in Seq(Frames) /\ Len(t) = Len(stack)
      /\ Nth(t, Len(stack)) = c
      /\ \A k \in 1..(Len(stack) - 1) : Nth(t, k) = Nth(stack, k)
  <2>1. /\ t \in Seq(Frames) /\ Len(t) = Len(Tail(stack)) + 1
        /\ Nth(t, Len(Tail(stack)) + 1) = c
        /\ \A k \in 1..Len(Tail(stack)) : Nth(t, k) = Nth(Tail(stack), k)
    BY <1>1, <1>2, Push
  <2>2. Len(Tail(stack)) + 1 = Len(stack)
    BY <1>1
  <2> QED
    BY <1>1, <2>1, <2>2
<1> HIDE DEF t
<1>5. /\ <<f>> \o t \in Seq(Frames) /\ Len(<<f>> \o t) = Len(stack) + 1
      /\ <<f>> \o t # <<>> /\ Head(<<f>> \o t) = f
      /\ Nth(<<f>> \o t, Len(stack) + 1) = f
      /\ \A k \in 1..Len(stack) : Nth(<<f>> \o t, k) = Nth(t, k)
  BY <1>4, Push
<1>6. /\ Len(stack) \in 1..Len(stack)
      /\ \A k \in 1..(Len(stack) - 1) : k \in 1..Len(stack)
  BY <1>1
<1> QED
  BY <1>1, <1>3, <1>4, <1>5, <1>6 DEF c

\* A step within a call.
LEMMA JumpFrames ==
    ASSUME stack \in Seq(Frames), stack # <<>>,
           NEW at \in Labels, NEW n \in Nat, Jump(at, n)
    PROVE  /\ stack' \in Seq(Frames) /\ stack' # <<>>
           /\ Len(stack) \in Nat /\ Len(stack) >= 1 /\ Len(stack') = Len(stack)
           /\ Top = Nth(stack, Len(stack)) /\ Top \in Frames
           /\ Head(stack') = [Top EXCEPT !.at = at, !.n = n]
           /\ Nth(stack', Len(stack)) = [Top EXCEPT !.at = at, !.n = n]
           /\ \A k \in 1..(Len(stack) - 1) : Nth(stack', k) = Nth(stack, k)
           /\ ret' = "none"
<1> DEFINE c == [Top EXCEPT !.at = at, !.n = n]
<1>1. /\ Top \in Frames /\ Tail(stack) \in Seq(Frames)
      /\ Len(stack) \in Nat /\ Len(stack) >= 1 /\ Len(Tail(stack)) = Len(stack) - 1
      /\ Top = Nth(stack, Len(stack))
      /\ \A k \in 1..(Len(stack) - 1) : Nth(Tail(stack), k) = Nth(stack, k)
  BY Pop DEF Top
<1>2. c \in Frames
  BY <1>1 DEF Frames
<1>3. stack' = <<c>> \o Tail(stack) /\ ret' = "none"
  BY DEF Jump
<1> HIDE DEF c
<1>4. /\ stack' \in Seq(Frames) /\ Len(stack') = Len(Tail(stack)) + 1
      /\ stack' # <<>> /\ Head(stack') = c
      /\ Nth(stack', Len(Tail(stack)) + 1) = c
      /\ \A k \in 1..Len(Tail(stack)) : Nth(stack', k) = Nth(Tail(stack), k)
  BY <1>1, <1>2, <1>3, Push
<1>5. Len(Tail(stack)) + 1 = Len(stack)
  BY <1>1
<1> QED
  BY <1>1, <1>3, <1>4, <1>5 DEF c

\* A return.
LEMMA ReturnFrames ==
    ASSUME stack \in Seq(Frames), stack # <<>>, NEW r, Return(r)
    PROVE  /\ stack' \in Seq(Frames) /\ ret' = r
           /\ Len(stack) \in Nat /\ Len(stack) >= 1 /\ Len(stack') = Len(stack) - 1
           /\ Top = Nth(stack, Len(stack)) /\ Top \in Frames
           /\ \A k \in 1..(Len(stack) - 1) : Nth(stack', k) = Nth(stack, k)
           /\ stack' # <<>> => Head(stack') = Nth(stack', Len(stack) - 1)
BY Pop DEF Top, Return

----------------------------------------------------------------------------
(* The call graph. *)

\* The running call has a retry to spend if it is in a loop, and a caller unless
\* it is read, write or init.
LEMMA TopFacts ==
    ASSUME CallGraph, stack # <<>>
    PROVE  /\ Top \in Frames /\ Top = Nth(stack, Len(stack))
           /\ Len(stack) \in Nat /\ Len(stack) >= 1
           /\ InLoop(Top) => Top.n > 0
           /\ Len(stack) = 1 => Outermost(Top)
           /\ Len(stack) > 1 => Calls(Nth(stack, Len(stack) - 1), Top)
           /\ Top.fn \in {"init", "disk"} <=> Len(stack) = 1
<1>1. /\ Top \in Frames /\ Top = Nth(stack, Len(stack))
      /\ Len(stack) \in Nat /\ Len(stack) >= 1
  BY Pop DEF CallGraph, Top
<1>2. InLoop(Top) => Top.n > 0
  BY <1>1 DEF CallGraph
<1>3. Len(stack) = 1 => Outermost(Top)
  BY <1>1 DEF CallGraph
<1>4. Len(stack) > 1 => Calls(Nth(stack, Len(stack) - 1), Top)
  BY <1>1 DEF CallGraph
<1>5. Top.fn \in {"init", "disk"} <=> Len(stack) = 1
  <2>1. Len(stack) = 1 \/ Len(stack) > 1
    BY <1>1, OneOrMore, Zenon
  <2>2. Len(stack) = 1 => Top.fn \in {"init", "disk"}
    BY <1>3 DEF Outermost
  <2>3. ASSUME Len(stack) > 1 PROVE Top.fn \notin {"init", "disk"}
    <3>1. PICK c : Calls(c, Top)
      BY <1>4, <2>3
    <3>2. Top.fn \in {"send_read_write", "seek", "send_command", "sense_int",
                      "init_fdc"}
      BY <3>1, Zenon DEF Calls
    <3> QED
      BY <3>2
  <2> QED
    BY <2>1, <2>2, <2>3
<1> QED
  BY <1>1, <1>2, <1>3, <1>4, <1>5

\* A call along the call graph keeps it.
LEMMA CallKeepsGraph ==
    ASSUME CallGraph, stack # <<>>,
           NEW at \in Labels, NEW f \in Frames, Call(at, f),
           InLoop(f) => f.n > 0, InLoop([Top EXCEPT !.at = at]) => Top.n > 0,
           Calls([Top EXCEPT !.at = at], f)
    PROVE  CallGraph'
<1> DEFINE c == [Top EXCEPT !.at = at]
<1>1. /\ stack' \in Seq(Frames) /\ stack' # <<>>
      /\ Len(stack) \in Nat /\ Len(stack) >= 1 /\ Len(stack') = Len(stack) + 1
      /\ Top = Nth(stack, Len(stack)) /\ Top \in Frames
      /\ Nth(stack', Len(stack) + 1) = f
      /\ Nth(stack', Len(stack)) = c
      /\ \A k \in 1..(Len(stack) - 1) : Nth(stack', k) = Nth(stack, k)
  BY CallFrames DEF CallGraph
<1>2. c.fn = Top.fn /\ c.arg = Top.arg /\ c.n = Top.n
  BY <1>1 DEF Frames
<1>3. (InLoop(c) => c.n > 0) /\ Calls(c, f)
  BY <1>2
<1> HIDE DEF c
<1>4. ASSUME NEW k \in 1..Len(stack'), InLoop(Nth(stack', k))
      PROVE  Nth(stack', k).n > 0
  <2>1. k = Len(stack) + 1 \/ k = Len(stack) \/ k \in 1..(Len(stack) - 1)
    BY <1>1
  <2>2. CASE k \in 1..(Len(stack) - 1)
    <3>1. k \in 1..Len(stack)
      BY <1>1, <2>2
    <3> QED
      BY <1>1, <1>4, <2>2, <3>1 DEF CallGraph
  <2> QED
    BY <1>1, <1>3, <1>4, <2>1, <2>2
<1>5. Outermost(Nth(stack', 1))
  <2>1. CASE Len(stack) = 1
    BY <1>1, <1>2, <2>1 DEF CallGraph, Outermost
  <2>2. CASE Len(stack) > 1
    BY <1>1, <2>2 DEF CallGraph
  <2>3. Len(stack) = 1 \/ Len(stack) > 1
    BY <1>1, OneOrMore, Zenon
  <2> QED
    BY <2>1, <2>2, <2>3
<1>6. ASSUME NEW k \in 2..Len(stack')
      PROVE  Calls(Nth(stack', k - 1), Nth(stack', k))
  <2>1. CASE k = Len(stack) + 1
    BY <1>1, <1>3, <2>1
  <2>2. CASE k = Len(stack)
    <3>1. k - 1 \in 1..(Len(stack) - 1) /\ k \in 2..Len(stack)
      BY <1>1, <2>2
    <3>2. Calls(Nth(stack, k - 1), Top)
      BY <1>1, <2>2, <3>1 DEF CallGraph
    <3>3. Calls(Nth(stack, k - 1), c)
      BY <1>2, <3>2 DEF Calls
    <3> QED
      BY <1>1, <2>2, <3>1, <3>3
  <2>3. CASE k \in 2..(Len(stack) - 1)
    BY <1>1, <2>3 DEF CallGraph
  <2> QED
    BY <1>1, <2>1, <2>2, <2>3
<1> QED
  BY <1>1, <1>4, <1>5, <1>6 DEF CallGraph

\* So does a step within a call.
LEMMA JumpKeepsGraph ==
    ASSUME CallGraph, stack # <<>>,
           NEW at \in Labels, NEW n \in Nat, Jump(at, n),
           InLoop([Top EXCEPT !.at = at, !.n = n]) => n > 0
    PROVE  CallGraph'
<1> DEFINE c == [Top EXCEPT !.at = at, !.n = n]
<1>1. /\ stack' \in Seq(Frames) /\ stack' # <<>>
      /\ Len(stack) \in Nat /\ Len(stack) >= 1 /\ Len(stack') = Len(stack)
      /\ Top = Nth(stack, Len(stack)) /\ Top \in Frames
      /\ Nth(stack', Len(stack)) = c
      /\ \A k \in 1..(Len(stack) - 1) : Nth(stack', k) = Nth(stack, k)
  BY JumpFrames DEF CallGraph
<1>2. c.fn = Top.fn /\ c.arg = Top.arg /\ c.n = n
  BY <1>1 DEF Frames
<1>3. InLoop(c) => c.n > 0
  BY <1>2
<1> HIDE DEF c
<1>4. ASSUME NEW k \in 1..Len(stack'), InLoop(Nth(stack', k))
      PROVE  Nth(stack', k).n > 0
  <2>1. k = Len(stack) \/ k \in 1..(Len(stack) - 1)
    BY <1>1
  <2>2. CASE k \in 1..(Len(stack) - 1)
    BY <1>1, <1>4, <2>2 DEF CallGraph
  <2> QED
    BY <1>1, <1>3, <1>4, <2>1, <2>2
<1>5. Outermost(Nth(stack', 1))
  <2>1. CASE Len(stack) = 1
    BY <1>1, <1>2, <2>1 DEF CallGraph, Outermost
  <2>2. CASE Len(stack) > 1
    BY <1>1, <2>2 DEF CallGraph
  <2> QED
    BY <1>1, <2>1, <2>2
<1>6. ASSUME NEW k \in 2..Len(stack')
      PROVE  Calls(Nth(stack', k - 1), Nth(stack', k))
  <2>1. CASE k = Len(stack)
    <3>1. k - 1 \in 1..(Len(stack) - 1) /\ k \in 2..Len(stack)
      BY <1>1, <2>1
    <3>2. Calls(Nth(stack, k - 1), Top)
      BY <1>1, <2>1, <3>1 DEF CallGraph
    <3>3. Calls(Nth(stack, k - 1), c)
      BY <1>2, <3>2 DEF Calls
    <3> QED
      BY <1>1, <2>1, <3>1, <3>3
  <2>2. CASE k \in 2..(Len(stack) - 1)
    BY <1>1, <2>2 DEF CallGraph
  <2> QED
    BY <1>1, <2>1, <2>2
<1> QED
  BY <1>1, <1>4, <1>5, <1>6 DEF CallGraph

\* So does a return.
LEMMA ReturnKeepsGraph ==
    ASSUME CallGraph, stack # <<>>, NEW r, Return(r)
    PROVE  CallGraph'
<1>1. /\ stack' \in Seq(Frames)
      /\ Len(stack) \in Nat /\ Len(stack) >= 1 /\ Len(stack') = Len(stack) - 1
      /\ \A k \in 1..(Len(stack) - 1) : Nth(stack', k) = Nth(stack, k)
  BY ReturnFrames DEF CallGraph
<1>2. stack' # <<>> => Len(stack') # 0
  BY <1>1, EmptySeq
<1> QED
  BY <1>1, <1>2 DEF CallGraph

\* Between operations the stack is empty.
LEMMA EmptyGraph ==
    ASSUME stack' = <<>>
    PROVE  CallGraph'
<1>1. <<>> \in Seq(Frames) /\ Len(<<>>) = 0
  OBVIOUS
<1> QED
  BY <1>1 DEF CallGraph

\* One frame alone, of an operation.
LEMMA OneFrame ==
    ASSUME NEW f \in Frames
    PROVE  /\ <<f>> \in Seq(Frames) /\ <<f>> # <<>> /\ Len(<<f>>) = 1
           /\ Nth(<<f>>, 1) = f /\ Head(<<f>>) = f
BY DEF Nth

\* The steps of the driver on its stack. A call starts at its beginning.
CallStep == \E at \in Labels, f \in Frames :
    /\ Call(at, f)
    /\ InLoop(f) => f.n > 0
    /\ InLoop([Top EXCEPT !.at = at]) => Top.n > 0
    /\ Calls([Top EXCEPT !.at = at], f)
    /\ f.at \notin {"rqm", "sent"}
    /\ Top.fn = "send_read_write" /\ at \in {"rqm", "sent"} => Top.at = "rqm"

JumpStep == \E at \in Labels, n \in Nat :
    /\ Jump(at, n)
    /\ InLoop([Top EXCEPT !.at = at, !.n = n]) => n > 0
    /\ Top.fn = "send_read_write" /\ at \in {"rqm", "sent"} =>
         Top.at = "seeked" /\ ret = "ok"

ReturnStep == Top.fn \notin {"init", "disk"} /\ \E r : Return(r)

StackStep == CallStep \/ JumpStep \/ ReturnStep

\* Every frame the driver calls is one.
LEMMA FrameType ==
    ASSUME NEW fn \in Fns, NEW arg \in Args, NEW at \in Labels, NEW n \in Nat
    PROVE  /\ Frame(fn, arg, at, n) \in Frames
           /\ Frame(fn, arg, at, n).fn = fn /\ Frame(fn, arg, at, n).arg = arg
           /\ Frame(fn, arg, at, n).at = at /\ Frame(fn, arg, at, n).n = n
BY DEF Frame, Frames

\* The kernel starts in init of floppy.rs.
LEMMA InitGraph == Init => CallGraph
<1> SUFFICES ASSUME Init PROVE CallGraph
  OBVIOUS
<1> DEFINE f == Frame("init", "boot", "version", 0)
<1>1. f \in Frames /\ f.fn = "init"
  BY DEF Frame, Frames, Fns, Args, Labels
<1>2. stack = <<f>>
  BY DEF Init
<1> HIDE DEF f
<1> QED
  BY <1>1, <1>2, OneFrame DEF CallGraph, InLoop, Outermost

\* The functions of fifo.rs step on the stack along the call graph.
LEMMA FifoSteps ==
    ASSUME CallGraph, send_command \/ sense_int \/ seek
    PROVE  StackStep
<1>0. stack # <<>>
  BY DEF send_command, CommandTaken, CommandFails, CommandOverflows,
       CommandAfterReset, CommandGivesUp,
         sense_int, SenseBytesFail, SensePasses, SenseRejects, SenseLockupInReset,
         SenseLockupInSeek, SenseAfterLockup, seek, On
<1>1. /\ Top \in Frames /\ (InLoop(Top) => Top.n > 0)
      /\ Top.arg \in Args /\ Top.n \in Nat
  BY <1>0, TopFacts DEF Frames
<1>2. CASE \E r : Return(r)
  <2>1. Top.fn \in {"send_command", "sense_int", "seek"}
    BY DEF send_command, CommandTaken, CommandFails, CommandOverflows, CommandAfterReset,
           CommandGivesUp, sense_int, SenseBytesFail, SensePasses, SenseRejects,
           SenseLockupInReset, SenseLockupInSeek, SenseAfterLockup, seek, On
  <2>2. Top.fn \notin {"init", "disk"}
    BY <2>1
  <2> QED
    BY <1>2, <2>2, Zenon DEF StackStep, ReturnStep
<1>3. ASSUME On("send_command", "send"), Top.n > 0,
             Call("reset", Frame("init_fdc", "fdc", "pulse", 0))
      PROVE  StackStep
  <2>1. Frame("init_fdc", "fdc", "pulse", 0) \in Frames
    BY DEF Frame, Frames, Fns, Args, Labels
  <2>2. Calls([Top EXCEPT !.at = "reset"], Frame("init_fdc", "fdc", "pulse", 0))
    BY <1>1, <1>3 DEF Calls, Frame, Frames, On
  <2> QED
    BY <1>0, <1>3, <2>1, <2>2 DEF StackStep, CallStep, On, Labels, InLoop, Frame
<1>4. ASSUME On("send_command", "reset"), Jump("send", Top.n - 1)
      PROVE  StackStep
  <2>1. Top.n - 1 \in Nat
    BY <1>1, <1>4 DEF InLoop, On
  <2>2. ~InLoop([Top EXCEPT !.at = "send", !.n = Top.n - 1])
    BY <1>1, <1>4 DEF InLoop, On, Frames
  <2> QED
    BY <1>0, <1>4, <2>1, <2>2 DEF StackStep, JumpStep, On, Labels
<1>5. ASSUME On("sense_int", "read"),
             Call("lockup", Frame("init_fdc", "fdc", "pulse", 0))
      PROVE  StackStep
  <2>1. Frame("init_fdc", "fdc", "pulse", 0) \in Frames
    BY DEF Frame, Frames, Fns, Args, Labels
  <2>2. Calls([Top EXCEPT !.at = "lockup"], Frame("init_fdc", "fdc", "pulse", 0))
    BY <1>1, <1>5 DEF Calls, Frame, Frames, On
  <2>3. ~InLoop([Top EXCEPT !.at = "lockup"])
    BY <1>1, <1>5 DEF InLoop, Frames, On
  <2> QED
    BY <1>0, <1>5, <2>1, <2>2, <2>3 DEF StackStep, CallStep, On, Labels, InLoop, Frame
<1>6. ASSUME On("seek", "start"), Top.n > 0,
             Call("sent", Frame("send_command", Top.arg, "send", RETRIES))
      PROVE  StackStep
  <2>1. Frame("send_command", Top.arg, "send", RETRIES) \in Frames
    BY <1>1, FrameType, ControllerConstants DEF Fns, Labels
  <2>2. Calls([Top EXCEPT !.at = "sent"],
              Frame("send_command", Top.arg, "send", RETRIES))
    BY <1>1, <1>6 DEF Calls, Frame, Frames, On
  <2> QED
    BY <1>0, <1>6, <2>1, <2>2 DEF StackStep, CallStep, On, Labels, InLoop, Frame
<1>7. ASSUME On("seek", "sent"),
             Call("sensed", Frame("sense_int", Top.arg, "read", 0))
      PROVE  StackStep
  <2>1. Frame("sense_int", Top.arg, "read", 0) \in Frames
    BY <1>1, FrameType DEF Fns, Labels
  <2>2. Calls([Top EXCEPT !.at = "sensed"], Frame("sense_int", Top.arg, "read", 0))
    BY <1>1, <1>7 DEF Calls, Frame, Frames, On
  <2>3. Top.n > 0
    BY <1>1, <1>7 DEF InLoop, On
  <2> QED
    BY <1>0, <1>7, <2>1, <2>2, <2>3 DEF StackStep, CallStep, On, Labels, InLoop, Frame
<1>8. ASSUME On("seek", "sensed"), Jump("start", Top.n - 1)
      PROVE  StackStep
  <2>1. Top.n - 1 \in Nat
    BY <1>1, <1>8 DEF InLoop, On
  <2>2. ~InLoop([Top EXCEPT !.at = "start", !.n = Top.n - 1])
    BY <1>1, <1>8 DEF InLoop, On, Frames
  <2> QED
    BY <1>0, <1>8, <2>1, <2>2 DEF StackStep, JumpStep, On, Labels
<1>9. CASE send_command
  <2>1. ASSUME On("send_command", "send"), Jump("overflow", Top.n)
        PROVE  StackStep
    <3>1. ~InLoop([Top EXCEPT !.at = "overflow", !.n = Top.n])
      BY <1>1, <2>1 DEF InLoop, On, Frames
    <3> QED
      BY <1>0, <1>1, <2>1, <3>1 DEF StackStep, JumpStep, On, Labels
  <2> QED
    BY <1>2, <1>3, <1>4, <1>9, <2>1, Zenon
     DEF send_command, CommandTaken, CommandFails, CommandOverflows,
          CommandAfterReset, CommandGivesUp
<1>10. CASE sense_int
  BY <1>2, <1>5, <1>10, Zenon
     DEF sense_int, SenseBytesFail, SensePasses, SenseRejects, SenseLockupInReset,
         SenseLockupInSeek, SenseAfterLockup
<1>11. CASE seek
  BY <1>2, <1>6, <1>7, <1>8, <1>11, Zenon DEF seek
<1> QED
  BY <1>9, <1>10, <1>11

\* init_fdc does too.
LEMMA ResetSteps ==
    ASSUME CallGraph, init_fdc
    PROVE  StackStep
<1>0. stack # <<>>
  BY DEF init_fdc, ResetPulse, On
<1>1. /\ Top \in Frames /\ (InLoop(Top) => Top.n > 0) /\ Top.n \in Nat
  BY <1>0, TopFacts DEF Frames
<1>2. CASE \E r : Return(r)
  <2>1. Top.fn = "init_fdc"
    BY DEF init_fdc, ResetPulse, ResetRest, On
  <2>2. Top.fn \notin {"init", "disk"}
    BY <2>1
  <2> QED
    BY <1>2, <2>2, Zenon DEF StackStep, ReturnStep
<1>3. ASSUME NEW at \in {"sense", "configure"}, NEW n \in Nat, Jump(at, n),
             Top.fn = "init_fdc"
      PROVE  StackStep
  <2>1. ~InLoop([Top EXCEPT !.at = at, !.n = n])
    BY <1>1, <1>3 DEF InLoop, Frames
  <2> QED
    BY <1>0, <1>3, <2>1 DEF StackStep, JumpStep, On, Labels
<1>4. ASSUME On("init_fdc", "sense"), Top.n > 0,
             NEW arg \in {"first_reset", "other_reset"},
             Call("sensed", Frame("sense_int", arg, "read", 0))
      PROVE  StackStep
  <2>1. Frame("sense_int", arg, "read", 0) \in Frames
    BY DEF Frame, Frames, Fns, Args, Labels
  <2>2. Calls([Top EXCEPT !.at = "sensed"], Frame("sense_int", arg, "read", 0))
    BY <1>1, <1>4 DEF Calls, Frame, Frames, On
  <2> QED
    BY <1>0, <1>4, <2>1, <2>2 DEF StackStep, CallStep, On, Labels, InLoop, Frame
<1>5. ASSUME Top.fn = "init_fdc",
             Call("configured", Frame("send_command", "configure", "send", RETRIES))
      PROVE  StackStep
  <2>1. Frame("send_command", "configure", "send", RETRIES) \in Frames
    BY FrameType, ControllerConstants DEF Fns, Args, Labels
  <2>2. Calls([Top EXCEPT !.at = "configured"],
              Frame("send_command", "configure", "send", RETRIES))
    BY <1>1, <1>5 DEF Calls, Frame, Frames
  <2>3. ~InLoop([Top EXCEPT !.at = "configured"])
    BY <1>1, <1>5 DEF InLoop, Frames
  <2> QED
    BY <1>0, <1>5, <2>1, <2>2, <2>3 DEF StackStep, CallStep, On, Labels, InLoop, Frame
<1>6. ASSUME Top.fn = "init_fdc",
             Call("specified", Frame("send_command", "specify", "send", RETRIES))
      PROVE  StackStep
  <2>1. Frame("send_command", "specify", "send", RETRIES) \in Frames
    BY FrameType, ControllerConstants DEF Fns, Args, Labels
  <2>2. Calls([Top EXCEPT !.at = "specified"],
              Frame("send_command", "specify", "send", RETRIES))
    BY <1>1, <1>6 DEF Calls, Frame, Frames
  <2>3. ~InLoop([Top EXCEPT !.at = "specified"])
    BY <1>1, <1>6 DEF InLoop, Frames
  <2> QED
    BY <1>0, <1>6, <2>1, <2>2, <2>3 DEF StackStep, CallStep, On, Labels, InLoop, Frame
<1>7. CASE ResetPulse
  BY <1>3, <1>7 DEF ResetPulse, On
<1>8. CASE ResetRest
  <2>1. On("init_fdc", "sensed") => Top.n - 1 \in Nat
    BY <1>1 DEF InLoop, On
  <2>2. CASE On("init_fdc", "sensed") /\ Jump("sense", Top.n - 1)
    BY <1>3, <2>1, <2>2 DEF On
  <2>3. CASE On("init_fdc", "sense") /\ Jump("configure", 0)
    BY <1>3, <2>3 DEF On
  <2>4. CASE /\ On("init_fdc", "sense") /\ Top.n > 0
             /\ Call("sensed", Frame("sense_int",
                    IF Top.n = 4 THEN "first_reset" ELSE "other_reset", "read", 0))
    BY <1>4, <2>4
  <2> QED
    BY <1>2, <1>5, <1>6, <1>8, <2>2, <2>3, <2>4, Zenon DEF ResetRest, On
<1> QED
  BY <1>7, <1>8 DEF init_fdc

\* The functions of disk.rs step on the stack along the call graph.
LEMMA DiskSteps ==
    ASSUME CallGraph, send_read_write \/ disk
    PROVE  StackStep \/ stack' = <<>>
<1>0. stack # <<>>
  BY DEF send_read_write, disk, DiskAttempt, DataDone, DataByteFails, DataRqmFails,
         read_write_status, DiskGivesUp, On
<1>1. /\ Top \in Frames /\ (InLoop(Top) => Top.n > 0)
      /\ Top.arg \in Args /\ Top.n \in Nat
  BY <1>0, TopFacts DEF Frames
<1>2. ASSUME Top.fn = "send_read_write", NEW r, Return(r)
      PROVE  StackStep
  <2>1. Top.fn \notin {"init", "disk"}
    BY <1>2
  <2> QED
    BY <1>2, <2>1, Zenon DEF StackStep, ReturnStep
<1>3. CASE stack' = <<>>
  BY <1>3
<1>4. ASSUME Top.fn = "send_read_write", NEW n \in Nat, Jump("recal", n)
      PROVE  StackStep
  <2>1. ~InLoop([Top EXCEPT !.at = "recal", !.n = n])
    BY <1>1, <1>4 DEF InLoop, Frames
  <2> QED
    BY <1>0, <1>4, <2>1 DEF StackStep, JumpStep, On, Labels
<1>5. ASSUME On("send_read_write", "recal"), Top.n > 0,
             Call("homed", Frame("seek", "home", "start", RETRIES))
      PROVE  StackStep
  <2>1. Frame("seek", "home", "start", RETRIES) \in Frames
    BY ControllerConstants DEF Frame, Frames, Fns, Args, Targets, Labels
  <2>2. Calls([Top EXCEPT !.at = "homed"], Frame("seek", "home", "start", RETRIES))
    BY <1>1, <1>5 DEF Calls, Frame, Frames, On
  <2> QED
    BY <1>0, <1>5, <2>1, <2>2 DEF StackStep, CallStep, On, Labels, InLoop, Frame
<1>6. ASSUME On("send_read_write", "homed"),
             Call("seeked", Frame("seek", "target", "start", RETRIES))
      PROVE  StackStep
  <2>1. Frame("seek", "target", "start", RETRIES) \in Frames
    BY ControllerConstants DEF Frame, Frames, Fns, Args, Targets, Labels
  <2>2. Calls([Top EXCEPT !.at = "seeked"], Frame("seek", "target", "start", RETRIES))
    BY <1>1, <1>6 DEF Calls, Frame, Frames, On
  <2>3. Top.n > 0
    BY <1>1, <1>6 DEF InLoop, On
  <2> QED
    BY <1>0, <1>6, <2>1, <2>2, <2>3 DEF StackStep, CallStep, On, Labels, InLoop, Frame
<1>7. ASSUME On("send_read_write", "seeked"), ret = "ok", Jump("rqm", Top.n)
      PROVE  StackStep
  <2>1. Top.n > 0
    BY <1>1, <1>7 DEF InLoop, On
  <2> QED
    BY <1>0, <1>1, <1>7, <2>1 DEF StackStep, JumpStep, On, Labels
<1>8. ASSUME On("send_read_write", "rqm"),
             Call("sent", Frame("send_command", Top.arg, "send", RETRIES))
      PROVE  StackStep
  <2>1. Frame("send_command", Top.arg, "send", RETRIES) \in Frames
    BY <1>1, FrameType, ControllerConstants DEF Fns, Labels
  <2>2. Calls([Top EXCEPT !.at = "sent"],
              Frame("send_command", Top.arg, "send", RETRIES))
    BY <1>1, <1>8 DEF Calls, Frame, Frames, On
  <2>3. Top.n > 0
    BY <1>1, <1>8 DEF InLoop, On
  <2> QED
    BY <1>0, <1>8, <2>1, <2>2, <2>3 DEF StackStep, CallStep, On, Labels, InLoop, Frame
<1>9. CASE send_read_write
  <2>1. SEEK_RETRIES \in Nat
    BY ControllerConstants
  <2>2. On("send_read_write", "sent") => Top.n - 1 \in Nat
    BY <1>1 DEF InLoop, On
  <2> QED
    BY <1>2, <1>4, <1>5, <1>6, <1>7, <1>8, <1>9, <2>1, <2>2, Zenon
       DEF send_read_write, On
<1>10. ASSUME On("disk", "attempt"), Top.n > 0,
              Call("sent", Frame("send_read_write", Top.arg, "check", 0))
       PROVE  StackStep
  <2>1. Frame("send_read_write", Top.arg, "check", 0) \in Frames
    BY <1>1, FrameType DEF Fns, Labels
  <2>2. Calls([Top EXCEPT !.at = "sent"],
              Frame("send_read_write", Top.arg, "check", 0))
    BY <1>1, <1>10 DEF Calls, Frame, Frames, On
  <2> QED
    BY <1>0, <1>10, <2>1, <2>2 DEF StackStep, CallStep, On, Labels, InLoop, Frame
<1>11. ASSUME On("disk", "sent") \/ On("disk", "data"),
              NEW at \in {"data", "status"}, Jump(at, Top.n)
       PROVE  StackStep
  <2>1. Top.n > 0
    BY <1>1, <1>11 DEF InLoop, On
  <2> QED
    BY <1>0, <1>1, <1>11, <2>1 DEF StackStep, JumpStep, On, Labels
<1>12. ASSUME On("disk", "sent") \/ On("disk", "data"), Jump("attempt", Top.n - 1)
       PROVE  StackStep
  <2>1. Top.n - 1 \in Nat
    BY <1>1, <1>12 DEF InLoop, On
  <2>2. ~InLoop([Top EXCEPT !.at = "attempt", !.n = Top.n - 1])
    BY <1>1, <1>12 DEF InLoop, On, Frames
  <2> QED
    BY <1>0, <1>12, <2>1, <2>2 DEF StackStep, JumpStep, On, Labels
<1>13. CASE disk
  BY <1>3, <1>10, <1>11, <1>12, <1>13, Zenon
     DEF disk, DiskAttempt, DataDone, DataByteFails, DataRqmFails,
         read_write_status, DiskGivesUp, DiskReturns
<1> QED
  BY <1>9, <1>13

\* So do the calls of init in floppy.rs.
LEMMA InitSteps ==
    ASSUME CallGraph, init
    PROVE  StackStep \/ stack' = <<>>
<1>1. CASE stack' = <<>>
  BY <1>1
<1>2. CASE InitCalls
  <2>0. stack # <<>>
    BY <1>2 DEF InitCalls, On
  <2>1. Top \in Frames /\ Top.fn = "init"
    BY <1>2, <2>0, TopFacts DEF InitCalls, On
  <2>2. \A at \in Labels : ~InLoop([Top EXCEPT !.at = at])
    BY <2>1 DEF InLoop, Frames
  <2>3. PICK at \in {"read", "reset", "recal", "done"} :
          \/ /\ at = "read"
             /\ Call(at, Frame("send_command", "version", "send", RETRIES))
          \/ /\ at = "reset"
             /\ Call(at, Frame("send_command", "configure", "send", RETRIES))
          \/ at = "recal" /\ Call(at, Frame("init_fdc", "fdc", "pulse", 0))
          \/ at = "done" /\ Call(at, Frame("seek", "home", "start", RETRIES))
    BY <1>2 DEF InitCalls
  <2>4. PICK f \in Frames : /\ Call(at, f) /\ ~InLoop(f)
                            /\ f.at \notin {"rqm", "sent"}
                            /\ Calls([Top EXCEPT !.at = at], f)
    <3>1. /\ Frame("send_command", "version", "send", RETRIES) \in Frames
          /\ Frame("send_command", "configure", "send", RETRIES) \in Frames
          /\ Frame("init_fdc", "fdc", "pulse", 0) \in Frames
          /\ Frame("seek", "home", "start", RETRIES) \in Frames
      BY ControllerConstants DEF Frame, Frames, Fns, Args, Targets, Labels
    <3> QED
      BY <2>1, <2>3, <3>1 DEF Calls, Frame, Frames, InLoop
  <2>5. at \in Labels
    BY DEF Labels
  <2> QED
    BY <2>1, <2>2, <2>4, <2>5 DEF StackStep, CallStep
<1>3. CASE InitVersion
  <2>0. stack # <<>>
    BY <1>3 DEF InitVersion, On
  <2>1. Top \in Frames /\ Top.fn = "init"
    BY <1>3, <2>0, TopFacts DEF InitVersion, On
  <2>2. ~InLoop([Top EXCEPT !.at = "configure", !.n = 0])
    BY <2>1 DEF InLoop, Frames
  <2> QED
    BY <1>3, <2>1, <2>2 DEF StackStep, JumpStep, Labels, InitVersion
<1> QED
  BY <1>1, <1>2, <1>3 DEF init, InitFails, InitDone, InitReturns

\* The driver steps along its call graph until an operation returns.
LEMMA DriverSteps ==
    ASSUME CallGraph, Driver
    PROVE  stack # <<>> /\ (StackStep \/ stack' = <<>>)
<1>1. StackStep \/ stack' = <<>>
  BY FifoSteps, ResetSteps, DiskSteps, InitSteps DEF Driver
<1>2. stack # <<>>
  BY DEF Driver, send_command, CommandTaken, CommandFails, CommandOverflows,
       CommandAfterReset,
         CommandGivesUp, sense_int, SenseBytesFail, SensePasses, SenseRejects,
         SenseLockupInReset, SenseLockupInSeek, SenseAfterLockup, seek, init_fdc,
         ResetPulse, send_read_write, disk, DiskAttempt, DataDone, DataByteFails,
         DataRqmFails, read_write_status, DiskGivesUp, init, InitCalls, InitVersion,
         InitFails, InitDone, On
<1> QED
  BY <1>1, <1>2

\* Every step keeps the call graph.
LEMMA NextGraph == CallGraph /\ [Next]_vars => CallGraph'
<1> SUFFICES ASSUME CallGraph, [Next]_vars PROVE CallGraph'
  OBVIOUS
<1>1. CASE UNCHANGED stack
  BY <1>1 DEF CallGraph
<1>2. CASE stack' = <<>>
  BY <1>2, EmptyGraph
<1>3. CASE Driver
  <2>1. stack # <<>> /\ (StackStep \/ stack' = <<>>)
    BY <1>3, DriverSteps
  <2>2. CASE CallStep
    BY <2>1, <2>2, CallKeepsGraph DEF CallStep
  <2>3. CASE JumpStep
    BY <2>1, <2>3, JumpKeepsGraph DEF JumpStep
  <2>4. CASE ReturnStep
    BY <2>1, <2>4, ReturnKeepsGraph DEF ReturnStep
  <2> QED
    BY <1>2, <2>1, <2>2, <2>3, <2>4 DEF StackStep
<1>4. ASSUME NEW op \in Transfers, DiskCall(op)
      PROVE  CallGraph'
  <2> DEFINE f == Frame("disk", op, "attempt", DISK_RETRIES)
  <2>1. f \in Frames /\ f.fn = "disk" /\ f.arg = op /\ f.at = "attempt"
    BY FrameType, ControllerConstants DEF Fns, Args, Labels
  <2>2. stack' = <<f>> \/ stack' = <<>>
    BY <1>4 DEF DiskCall
  <2> HIDE DEF f
  <2>3. CASE stack' = <<f>>
    BY <2>1, <2>3, OneFrame DEF CallGraph, InLoop, Outermost
  <2> QED
    BY <1>2, <2>2, <2>3
<1> QED
  BY <1>1, <1>3, <1>4 DEF Next, TransferAborts, vars

----------------------------------------------------------------------------
(* Where a call can be on the stack. *)

\* send_read_write is called by read and write only, which nothing calls.
LEMMA SecondCall ==
    ASSUME CallGraph, NEW k \in 1..Len(stack), Nth(stack, k).fn = "send_read_write"
    PROVE  /\ k = 2 /\ Nth(stack, 1).fn = "disk" /\ Nth(stack, 1).at = "sent"
           /\ Nth(stack, 2).arg \in Transfers
<1>1. stack # <<>> /\ Len(stack) \in Nat
  <2>1. stack \in Seq(Frames)
    BY DEF CallGraph
  <2> QED
    BY <2>1, EmptySeq, LenProperties
<1>2. Outermost(Nth(stack, 1))
  BY <1>1 DEF CallGraph
<1>3. k # 1
  BY <1>2 DEF Outermost
<1>4. k \in 2..Len(stack) /\ k - 1 \in 1..Len(stack)
  BY <1>1, <1>3
<1>5. Calls(Nth(stack, k - 1), Nth(stack, k))
  BY <1>4 DEF CallGraph
<1>6. /\ Nth(stack, k - 1).fn = "disk" /\ Nth(stack, k - 1).at = "sent"
      /\ Nth(stack, k).arg = Nth(stack, k - 1).arg
  BY <1>5 DEF Calls
<1>7. k - 1 = 1
  <2> SUFFICES ASSUME k - 1 # 1 PROVE FALSE
    OBVIOUS
  <2>1. k - 1 \in 2..Len(stack)
    BY <1>1, <1>4
  <2>2. Calls(Nth(stack, k - 1 - 1), Nth(stack, k - 1))
    BY <2>1 DEF CallGraph
  <2> QED
    BY <1>6, <2>2 DEF Calls
<1>8. k = 2
  BY <1>1, <1>7
<1> QED
  BY <1>2, <1>6, <1>8 DEF Outermost

\* What runs is not what seeks while send_read_write waits for its command.
LEMMA SeekNotAimed ==
    ASSUME CallGraph, NEW k \in 1..Len(stack), Nth(stack, k).fn = "seek"
    PROVE  Nth(stack, k).arg \in Targets /\ ~Aimed(stack)
<1>1. stack # <<>> /\ Len(stack) \in Nat
  <2>1. stack \in Seq(Frames)
    BY DEF CallGraph
  <2> QED
    BY <2>1, EmptySeq, LenProperties
<1>2. Outermost(Nth(stack, 1))
  BY <1>1 DEF CallGraph
<1>3. k # 1
  BY <1>2 DEF Outermost
<1>4. k \in 2..Len(stack) /\ k - 1 \in 1..Len(stack)
  BY <1>1, <1>3
<1>5. Calls(Nth(stack, k - 1), Nth(stack, k))
  BY <1>4 DEF CallGraph
<1>6. /\ Nth(stack, k).arg \in Targets
      /\ \/ /\ Nth(stack, k - 1).fn = "send_read_write"
            /\ Nth(stack, k - 1).at \in {"homed", "seeked"}
         \/ Nth(stack, k - 1).fn = "init"
  BY <1>5 DEF Calls, Targets
<1>7. CASE Nth(stack, k - 1).fn = "send_read_write"
  <2>1. k - 1 = 2
    BY <1>4, <1>7, SecondCall
  <2> QED
    BY <1>6, <1>7, <2>1 DEF Aimed
<1>8. CASE Nth(stack, k - 1).fn = "init"
  <2>1. k - 1 = 1
    <3> SUFFICES ASSUME k - 1 # 1 PROVE FALSE
      OBVIOUS
    <3>1. k - 1 \in 2..Len(stack)
      BY <1>1, <1>4
    <3>2. Calls(Nth(stack, k - 1 - 1), Nth(stack, k - 1))
      BY <3>1 DEF CallGraph
    <3> QED
      BY <1>8, <3>2 DEF Calls
  <2>2. k = 2
    BY <1>1, <2>1
  <2> QED
    BY <1>6, <2>2 DEF Aimed
<1> QED
  BY <1>6, <1>7, <1>8

\* A command that moves the head, or a sense interrupt that proves its place, is
\* a seek's.
LEMMA MovesNotAimed ==
    ASSUME CallGraph, stack # <<>>, Top.fn \in {"send_command", "sense_int"},
           Top.arg \in Targets
    PROVE  ~Aimed(stack)
<1>1. /\ Len(stack) \in Nat /\ Len(stack) >= 1 /\ Len(stack) # 1
      /\ Len(stack) > 1 => Calls(Nth(stack, Len(stack) - 1), Top)
  BY TopFacts
<1>2. Len(stack) > 1
  BY <1>1, OneOrMore, Zenon
<1>3. Len(stack) - 1 \in 1..Len(stack)
  BY <1>1, <1>2
<1>4. Nth(stack, Len(stack) - 1).fn \in {"seek", "send_read_write"}
        /\ Nth(stack, Len(stack) - 1).arg = Top.arg
  BY <1>1, <1>2 DEF Calls, Targets
<1>5. Nth(stack, Len(stack) - 1).fn # "send_read_write"
  <2> SUFFICES ASSUME Nth(stack, Len(stack) - 1).fn = "send_read_write" PROVE FALSE
    OBVIOUS
  <2>1. Len(stack) - 1 = 2 /\ Nth(stack, 2).arg \in Transfers
    BY <1>3, SecondCall
  <2> QED
    BY <1>4, <2>1 DEF Targets, Transfers
<1> QED
  BY <1>3, <1>4, <1>5, SeekNotAimed

\* A transfer command is the third call, sent by send_read_write.
LEMMA TransferCommand ==
    ASSUME CallGraph, stack # <<>>, Top.fn = "send_command", Top.arg \in Transfers
    PROVE  /\ Len(stack) = 3 /\ Nth(stack, 2).fn = "send_read_write"
           /\ Nth(stack, 2).at = "sent" /\ Nth(stack, 1).fn = "disk"
           /\ Nth(stack, 1).at = "sent"
<1>1. /\ Len(stack) \in Nat /\ Len(stack) >= 1 /\ Len(stack) # 1
      /\ Len(stack) > 1 => Calls(Nth(stack, Len(stack) - 1), Top)
  BY TopFacts
<1>2. Len(stack) > 1
  BY <1>1, OneOrMore, Zenon
<1>3. Len(stack) - 1 \in 1..Len(stack)
  BY <1>1, <1>2
<1>4. \/ /\ Nth(stack, Len(stack) - 1).fn = "send_read_write"
         /\ Nth(stack, Len(stack) - 1).at = "sent"
      \/ /\ Nth(stack, Len(stack) - 1).fn = "seek"
         /\ Nth(stack, Len(stack) - 1).arg = Top.arg
  BY <1>1, <1>2 DEF Calls, Transfers
<1>5. Nth(stack, Len(stack) - 1).fn # "seek"
  <2> SUFFICES ASSUME Nth(stack, Len(stack) - 1).fn = "seek" PROVE FALSE
    OBVIOUS
  <2>1. Nth(stack, Len(stack) - 1).arg \in Targets
    BY <1>3, SeekNotAimed
  <2> QED
    BY <1>4, <2>1 DEF Targets, Transfers
<1>6. Len(stack) - 1 = 2 /\ Nth(stack, 1).fn = "disk" /\ Nth(stack, 1).at = "sent"
  BY <1>3, <1>4, <1>5, SecondCall
<1>7. Len(stack) = 3
  BY <1>1, <1>6
<1> QED
  BY <1>4, <1>5, <1>6, <1>7

\* Returning from a call: the caller runs, and waits where it made the call.
LEMMA ReturnTop ==
    ASSUME CallGraph, stack # <<>>, Top.fn \notin {"init", "disk"}, NEW r, Return(r)
    PROVE  /\ stack' # <<>> /\ Len(stack) > 1
           /\ Head(stack') \in Frames /\ Calls(Head(stack'), Top)
           /\ Head(stack') = Nth(stack, Len(stack) - 1)
<1>1. /\ Len(stack) \in Nat /\ Len(stack) >= 1 /\ Len(stack) # 1
      /\ Len(stack) > 1 => Calls(Nth(stack, Len(stack) - 1), Top)
  BY TopFacts
<1>2. Len(stack) > 1
  BY <1>1, OneOrMore, Zenon
<1>3. /\ stack' \in Seq(Frames) /\ Len(stack') = Len(stack) - 1
      /\ \A k \in 1..(Len(stack) - 1) : Nth(stack', k) = Nth(stack, k)
      /\ stack' # <<>> => Head(stack') = Nth(stack', Len(stack) - 1)
  BY ReturnFrames DEF CallGraph
<1>4. Len(stack') # 0 /\ Len(stack) - 1 \in 1..(Len(stack) - 1)
  BY <1>1, <1>2, <1>3
<1>5. stack' # <<>>
  BY <1>3, <1>4, EmptySeq
<1>6. Head(stack') \in Frames
  BY <1>3, <1>5, Pop
<1> QED
  BY <1>1, <1>2, <1>3, <1>4, <1>5, <1>6

----------------------------------------------------------------------------
(* The retry budget. *)

\* While the command of this attempt counts as issued, disk itself runs, or
\* send_read_write is about to return to it.
LEMMA SpentTop ==
    ASSUME CallGraph, Spent
    PROVE  /\ stack # <<>>
           /\ \/ Top.fn \in {"disk", "init"} /\ Top.at \in {"sent", "data", "status"}
              \/ Top.fn = "send_read_write" /\ Top.at = "sent" /\ ret = "ok"
<1>1. Len(stack) = 1 \/ Len(stack) = 2
  BY DEF Spent, Taken
<1>2. stack # <<>> /\ stack \in Seq(Frames)
  BY <1>1, EmptySeq DEF CallGraph
<1>3. Top = Nth(stack, Len(stack)) /\ (Len(stack) = 1 => Outermost(Top))
  BY <1>2, TopFacts
<1> QED
  BY <1>1, <1>2, <1>3 DEF Spent, Taken, Outermost

\* The outermost call counts its retries.
LEMMA OutermostRetries ==
    ASSUME CallGraph, stack # <<>>
    PROVE  Nth(stack, 1).n \in Nat
<1>1. /\ Len(stack) \in Nat /\ Len(stack) >= 1
      /\ \A k \in 1..Len(stack) : Nth(stack, k) \in Frames
  BY Pop DEF CallGraph
<1>2. Nth(stack, 1) \in Frames
  BY <1>1
<1> QED
  BY <1>2 DEF Frames

\* A call issues nothing.
LEMMA CallBudget ==
    ASSUME CallGraph, Budget, stack # <<>>, ~Spent,
           NEW at \in Labels, NEW f \in Frames, Call(at, f), issued' = issued
    PROVE  Budget'
<1>1. /\ Len(stack) \in Nat /\ Len(stack) >= 1 /\ Len(stack') = Len(stack) + 1
      /\ Top = Nth(stack, Len(stack)) /\ Top \in Frames
      /\ Nth(stack', Len(stack)) = [Top EXCEPT !.at = at]
      /\ \A k \in 1..(Len(stack) - 1) : Nth(stack', k) = Nth(stack, k)
  BY CallFrames DEF CallGraph
<1>2. Nth(stack', 1).fn = Nth(stack, 1).fn /\ Nth(stack', 1).n = Nth(stack, 1).n
  <2>1. CASE Len(stack) = 1
    BY <1>1, <2>1 DEF Frames
  <2>2. CASE Len(stack) > 1
    <3>1. 1 \in 1..(Len(stack) - 1)
      BY <1>1, <2>2
    <3> QED
      BY <1>1, <3>1
  <2>3. Len(stack) = 1 \/ Len(stack) > 1
    BY <1>1, OneOrMore, Zenon
  <2> QED
    BY <2>1, <2>2, <2>3
<1>3. Nth(stack, 1).fn = "disk" => issued + Nth(stack, 1).n <= DISK_RETRIES
  BY ControllerConstants DEF Budget
<1>4. issued \in Nat /\ DISK_RETRIES \in Nat /\ Nth(stack, 1).n \in Nat
  BY OutermostRetries, ControllerConstants DEF Budget
<1> QED
  BY <1>2, <1>3, <1>4 DEF Budget

\* A step within a call issues nothing; disk gives up a retry, or goes on with the
\* attempt whose command was taken.
LEMMA JumpBudget ==
    ASSUME CallGraph, Budget, stack # <<>>,
           NEW at \in Labels, NEW n \in Nat, Jump(at, n), issued' = issued,
           \/ ~Spent /\ Len(stack) > 1
           \/ Len(stack) = 1 /\ Top.fn = "init"
           \/ Len(stack) = 1 /\ n < Top.n
           \/ Len(stack) = 1 /\ n = Top.n /\ at \in {"data", "status"}
    PROVE  Budget'
<1>1. /\ Len(stack) \in Nat /\ Len(stack) >= 1 /\ Len(stack') = Len(stack)
      /\ Top = Nth(stack, Len(stack)) /\ Top \in Frames
      /\ Nth(stack', Len(stack)) = [Top EXCEPT !.at = at, !.n = n]
      /\ \A k \in 1..(Len(stack) - 1) : Nth(stack', k) = Nth(stack, k)
  BY JumpFrames DEF CallGraph
<1>2. issued \in Nat /\ DISK_RETRIES \in Nat /\ Top.n \in Nat
  BY <1>1, ControllerConstants DEF Budget, Frames
<1>3. CASE ~Spent /\ Len(stack) > 1
  <2>1. 1 \in 1..(Len(stack) - 1)
    BY <1>1, <1>3
  <2>2. Nth(stack', 1) = Nth(stack, 1)
    BY <1>1, <2>1
  <2>3. Nth(stack, 1).fn = "disk" => issued + Nth(stack, 1).n <= DISK_RETRIES
    BY <1>2, <1>3 DEF Budget
  <2> QED
    BY <1>2, <2>2, <2>3, OutermostRetries DEF Budget
<1>4. CASE Len(stack) = 1 /\ n < Top.n
  <2>1. Nth(stack', 1).fn = Top.fn /\ Nth(stack', 1).n = n
    BY <1>1, <1>4 DEF Frames
  <2>2. Top.fn = "disk" => issued + Top.n <= DISK_RETRIES + 1
    BY <1>1, <1>2, <1>4 DEF Budget
  <2>3. Top.fn = "disk" => issued + n <= DISK_RETRIES
    BY <1>2, <1>4, <2>2
  <2> QED
    BY <1>2, <2>1, <2>3 DEF Budget
<1>5. CASE Len(stack) = 1 /\ n = Top.n /\ at \in {"data", "status"}
  <2>1. Nth(stack', 1).fn = Top.fn /\ Nth(stack', 1).n = n /\ Nth(stack', 1).at = at
    BY <1>1, <1>5 DEF Frames
  <2>2. Top.fn = "disk" => issued + Top.n <= DISK_RETRIES + 1
    BY <1>1, <1>2, <1>5 DEF Budget
  <2>3. Spent'
    BY <1>1, <1>5, <2>1 DEF Spent
  <2> QED
    BY <1>2, <1>5, <2>1, <2>2, <2>3 DEF Budget
<1>6. CASE Len(stack) = 1 /\ Top.fn = "init"
  <2>1. Nth(stack', 1).fn = "init"
    BY <1>1, <1>6 DEF Frames
  <2> QED
    BY <2>1 DEF Budget
<1> QED
  BY <1>3, <1>4, <1>5, <1>6

\* A return other than that of a transfer command issues nothing.
LEMMA ReturnBudget ==
    ASSUME CallGraph, Budget, stack # <<>>, Top.fn \notin {"init", "disk"},
           NEW r, Return(r), issued' = issued, Spent => r = "ok"
    PROVE  Budget'
<1>1. /\ Len(stack) \in Nat /\ Len(stack') = Len(stack) - 1 /\ ret' = r
      /\ \A k \in 1..(Len(stack) - 1) : Nth(stack', k) = Nth(stack, k)
  BY ReturnFrames DEF CallGraph
<1>2. Len(stack) > 1
  BY ReturnTop
<1>3. 1 \in 1..(Len(stack) - 1)
  BY <1>1, <1>2
<1>4. Nth(stack', 1) = Nth(stack, 1)
  BY <1>1, <1>3
<1>5. issued \in Nat /\ DISK_RETRIES \in Nat
  BY ControllerConstants DEF Budget
<1>6. CASE ~Spent
  <2>1. Nth(stack, 1).fn = "disk" => issued + Nth(stack, 1).n <= DISK_RETRIES
    BY <1>5, <1>6 DEF Budget
  <2> QED
    BY <1>4, <1>5, <2>1, OutermostRetries DEF Budget
<1>7. CASE Spent
  <2>1. /\ Len(stack) = 2 /\ Nth(stack, 2).fn = "send_read_write"
    BY <1>1, <1>2, <1>7 DEF Spent, Taken
  <2>2. 2 \in 1..Len(stack)
    BY <2>1
  <2>3. Nth(stack, 1).at = "sent"
    BY <2>1, <2>2, SecondCall
  <2>4. Len(stack') = 1
    BY <1>1, <2>1
  <2>5. Spent'
    BY <1>1, <1>4, <1>7, <2>3, <2>4 DEF Spent, Taken
  <2> QED
    BY <1>4, <1>5, <1>7, <2>5 DEF Budget
<1> QED
  BY <1>6, <1>7

\* Only a transfer command's acceptance spends: disk cannot have spent this
\* attempt before, and send_read_write returns at once.
LEMMA CommandTakenBudget ==
    ASSUME CallGraph, Budget, CommandTaken
    PROVE  Budget'
<1>1. stack # <<>> /\ Top.fn = "send_command" /\ Return("ok")
  BY DEF CommandTaken, On
<1>2. ~Spent
  BY <1>1, SpentTop
<1>3. CASE Top.arg \notin Transfers
  BY <1>1, <1>2, <1>3, ReturnBudget DEF CommandTaken
<1>4. CASE Top.arg \in Transfers
  <2>1. issued' = issued + 1
    BY <1>4 DEF CommandTaken
  <2>2. /\ Len(stack) = 3 /\ Nth(stack, 2).fn = "send_read_write"
        /\ Nth(stack, 2).at = "sent" /\ Nth(stack, 1).fn = "disk"
        /\ Nth(stack, 1).at = "sent"
    BY <1>1, <1>4, TransferCommand
  <2>3. /\ Len(stack') = 2 /\ ret' = "ok"
        /\ Nth(stack', 1) = Nth(stack, 1) /\ Nth(stack', 2) = Nth(stack, 2)
    BY <1>1, <2>2, ReturnFrames DEF CallGraph
  <2>4. Spent'
    BY <2>2, <2>3 DEF Spent, Taken
  <2>5. Nth(stack, 1) \in Frames /\ Nth(stack, 1).n > 0
    <3>1. 1 \in 1..Len(stack)
      BY <2>2
    <3> QED
      BY <1>1, <2>2, <3>1, Pop DEF CallGraph, InLoop
  <2>6. issued \in Nat /\ DISK_RETRIES \in Nat /\ Nth(stack, 1).n \in Nat
    BY <2>5, ControllerConstants DEF Budget, Frames
  <2>7. issued + Nth(stack, 1).n <= DISK_RETRIES
    BY <1>1, <1>2, <2>2, <2>6 DEF Budget
  <2>8. /\ issued' \in Nat /\ issued' <= DISK_RETRIES
        /\ issued' + Nth(stack, 1).n <= DISK_RETRIES + 1
    BY <2>1, <2>5, <2>6, <2>7
  <2> QED
    BY <2>3, <2>4, <2>8 DEF Budget
<1> QED
  BY <1>3, <1>4

\* Every step keeps the budget.
LEMMA NextBudget == CallGraph /\ Budget /\ [Next]_vars => Budget'
<1> SUFFICES ASSUME CallGraph, Budget, [Next]_vars PROVE Budget'
  OBVIOUS
<1>1. CASE UNCHANGED <<stack, ret, issued>>
  BY <1>1 DEF Budget, Spent, Taken
<1>2. ASSUME stack' = <<>>, issued' = issued \/ issued' = 0
      PROVE  Budget'
  BY <1>2, ControllerConstants DEF Budget
<1>3. ASSUME stack # <<>>, StackStep, issued' = issued, ~Spent, Top.fn # "disk"
      PROVE  Budget'
  <2>1. /\ Len(stack) \in Nat /\ Len(stack) >= 1
        /\ (Len(stack) = 1 => Outermost(Top))
    BY <1>3, TopFacts
  <2>2. Len(stack) > 1 \/ (Len(stack) = 1 /\ Top.fn = "init")
    <3>1. Len(stack) = 1 \/ Len(stack) > 1
      BY <2>1, OneOrMore, Zenon
    <3> QED
      BY <1>3, <2>1, <3>1, Zenon DEF Outermost
  <2>3. CASE CallStep
    BY <1>3, <2>3, CallBudget DEF CallStep
  <2>4. CASE JumpStep
    BY <1>3, <2>2, <2>4, JumpBudget DEF JumpStep
  <2>5. CASE ReturnStep
    BY <1>3, <2>5, ReturnBudget DEF ReturnStep
  <2> QED
    BY <1>3, <2>3, <2>4, <2>5 DEF StackStep
<1>4. CASE send_command \/ sense_int \/ seek \/ init_fdc
  <2>1. StackStep
    BY <1>4, FifoSteps, ResetSteps
  <2>2. stack # <<>>
    BY <1>4, DriverSteps DEF Driver
  <2>3. Top.fn \in {"send_command", "sense_int", "seek", "init_fdc"}
    BY <1>4 DEF send_command, CommandTaken, CommandFails, CommandOverflows,
         CommandAfterReset,
           CommandGivesUp, sense_int, SenseBytesFail, SensePasses, SenseRejects,
           SenseLockupInReset, SenseLockupInSeek, SenseAfterLockup, seek, init_fdc,
           ResetPulse, ResetRest, On
  <2>4. ~Spent
    BY <2>3, SpentTop
  <2>5. CASE CommandTaken
    BY <2>5, CommandTakenBudget
  <2>6. CASE ~CommandTaken
    <3>1. issued' = issued
      BY <1>4, <2>6 DEF send_command, CommandFails, CommandOverflows, CommandAfterReset,
             CommandGivesUp, sense_int, SenseBytesFail, SensePasses, SenseRejects,
             SenseLockupInReset, SenseLockupInSeek, SenseAfterLockup, seek, init_fdc,
             ResetPulse, ResetRest, hist
    <3> QED
      BY <1>3, <2>1, <2>2, <2>3, <2>4, <3>1
  <2> QED
    BY <2>5, <2>6
<1>5. CASE send_read_write
  <2>1. stack # <<>> /\ (StackStep \/ stack' = <<>>) /\ issued' = issued
    BY <1>5, DriverSteps DEF Driver, send_read_write, hist
  <2>2. Top.fn = "send_read_write"
    BY <1>5 DEF send_read_write, On
  <2>3. CASE Spent
    <3>1. Top.at = "sent" /\ ret = "ok"
      BY <2>2, <2>3, SpentTop
    <3>2. Return("ok")
      BY <1>5, <3>1 DEF send_read_write, On
    <3> QED
      BY <2>1, <2>2, <3>2, ReturnBudget
  <2> QED
    BY <1>2, <1>3, <2>1, <2>2, <2>3
<1>6. CASE disk
  <2>1. stack # <<>> /\ issued' = issued /\ Top.fn = "disk"
    BY <1>6, DriverSteps
       DEF Driver, disk, DiskAttempt, DataDone, DataByteFails, DataRqmFails,
           read_write_status, DiskGivesUp, On, hist
  <2>2. Top \in Frames /\ Len(stack) = 1 /\ (InLoop(Top) => Top.n > 0)
    BY <2>1, TopFacts
  <2>3. Top.n \in Nat /\ Top.arg \in Args
    BY <2>2 DEF Frames
  <2>4. CASE On("disk", "attempt") /\ Call("sent",
                            Frame("send_read_write", Top.arg, "check", 0))
    <3>1. Frame("send_read_write", Top.arg, "check", 0) \in Frames
      BY <2>3, FrameType DEF Fns, Labels
    <3>2. ~Spent
      BY <2>1, <2>4, SpentTop DEF On
    <3> QED
      BY <2>1, <2>4, <3>1, <3>2, CallBudget DEF Labels
  <2>5. ASSUME NEW at \in {"data", "status"}, Jump(at, Top.n)
        PROVE  Budget'
    BY <2>1, <2>2, <2>3, <2>5, JumpBudget DEF Labels
  <2>6. ASSUME Top.at \in {"sent", "data"}, Jump("attempt", Top.n - 1)
        PROVE  Budget'
    <3>1. Top.n - 1 \in Nat /\ Top.n - 1 < Top.n
      BY <2>1, <2>2, <2>3, <2>6 DEF InLoop
    <3> QED
      BY <2>1, <2>2, <2>6, <3>1, JumpBudget DEF Labels
  <2>7. CASE DiskAttempt
    BY <2>4, <2>5, <2>6, <2>7 DEF DiskAttempt, On
  <2>8. CASE DataDone
    BY <1>2, <2>1, <2>5, <2>8 DEF DataDone, DiskReturns
  <2>9. CASE DataByteFails
    BY <2>6, <2>9 DEF DataByteFails, On
  <2> QED
    BY <1>2, <1>6, <2>1, <2>7, <2>8, <2>9
       DEF disk, DataRqmFails, read_write_status, DiskGivesUp, DiskReturns
<1>7. CASE init
  <2>1. stack # <<>> /\ (StackStep \/ stack' = <<>>) /\ issued' = issued
    BY <1>7, DriverSteps
       DEF Driver, init, InitCalls, InitVersion, InitFails, InitDone, hist
  <2>2. CASE stack' = <<>>
    BY <1>2, <2>1, <2>2
  <2>3. CASE InitCalls \/ InitVersion
    <3>1. Top.fn = "init" /\ Top.at \in {"version", "configure", "reset", "recal", "read"}
      BY <2>3 DEF InitCalls, InitVersion, On
    <3>2. ~Spent
      BY <3>1, SpentTop
    <3> QED
      BY <1>3, <2>1, <2>2, <3>1, <3>2
  <2> QED
    BY <1>7, <2>2, <2>3 DEF init, InitFails, InitDone, InitReturns
<1>8. ASSUME NEW op \in Transfers, DiskCall(op)
      PROVE  Budget'
  <2> DEFINE f == Frame("disk", op, "attempt", DISK_RETRIES)
  <2>1. f \in Frames /\ f.n = DISK_RETRIES
    BY FrameType, ControllerConstants DEF Fns, Args, Labels
  <2>2. (stack' = <<f>> \/ stack' = <<>>) /\ issued' = 0
    BY <1>8 DEF DiskCall
  <2> HIDE DEF f
  <2>3. CASE stack' = <<f>>
    BY <2>1, <2>2, <2>3, OneFrame, ControllerConstants DEF Budget
  <2> QED
    BY <1>2, <2>2, <2>3
<1> QED
  BY <1>1, <1>4, <1>5, <1>6, <1>7, <1>8
     DEF Next, Driver, TransferAborts, vars, hist

----------------------------------------------------------------------------
(* The head. *)

\* A call never aims send_read_write: it waits for RQM first.
LEMMA CallHead ==
    ASSUME CallGraph, HeadProved, stack # <<>>, CallStep, head' = head
    PROVE  HeadProved'
<1>1. PICK at \in Labels, f \in Frames :
        /\ Call(at, f)
        /\ f.at \notin {"rqm", "sent"}
        /\ Top.fn = "send_read_write" /\ at \in {"rqm", "sent"} => Top.at = "rqm"
  BY DEF CallStep
<1>2. /\ Len(stack) \in Nat /\ Len(stack) >= 1 /\ Len(stack') = Len(stack) + 1
      /\ Top = Nth(stack, Len(stack)) /\ Top \in Frames
      /\ Nth(stack', Len(stack) + 1) = f
      /\ Nth(stack', Len(stack)) = [Top EXCEPT !.at = at]
      /\ \A k \in 1..(Len(stack) - 1) : Nth(stack', k) = Nth(stack, k)
      /\ ret' = "none"
  BY <1>1, CallFrames DEF CallGraph
<1>3. ASSUME Aimed(stack') PROVE Aimed(stack)
  <2>1. CASE Len(stack) = 1
    BY <1>1, <1>2, <1>3, <2>1 DEF Aimed
  <2>2. CASE Len(stack) = 2
    BY <1>1, <1>2, <1>3, <2>2 DEF Aimed, Frames
  <2>3. CASE Len(stack) >= 3
    <3>1. 2 \in 1..(Len(stack) - 1) /\ Len(stack) >= 2
      BY <1>2, <2>3
    <3> QED
      BY <1>2, <1>3, <3>1 DEF Aimed
  <2>4. \A m \in Nat : m >= 1 => m = 1 \/ m = 2 \/ m >= 3
    OBVIOUS
  <2>5. Len(stack) = 1 \/ Len(stack) = 2 \/ Len(stack) >= 3
    BY <1>2, <2>4, Zenon
  <2> QED
    BY <2>1, <2>2, <2>3, <2>5
<1> QED
  BY <1>2, <1>3 DEF HeadProved

\* A step within send_read_write aims it when the seek to its cylinder is over.
LEMMA JumpHead ==
    ASSUME CallGraph, HeadProved, stack # <<>>, JumpStep, head' = head
    PROVE  HeadProved'
<1>1. PICK at \in Labels, n \in Nat :
        /\ Jump(at, n)
        /\ Top.fn = "send_read_write" /\ at \in {"rqm", "sent"} =>
             Top.at = "seeked" /\ ret = "ok"
  BY DEF JumpStep
<1>2. /\ Len(stack) \in Nat /\ Len(stack) >= 1 /\ Len(stack') = Len(stack)
      /\ Top = Nth(stack, Len(stack)) /\ Top \in Frames
      /\ Nth(stack', Len(stack)) = [Top EXCEPT !.at = at, !.n = n]
      /\ \A k \in 1..(Len(stack) - 1) : Nth(stack', k) = Nth(stack, k)
      /\ ret' = "none"
  BY <1>1, JumpFrames DEF CallGraph
<1>3. ASSUME Aimed(stack') PROVE head = "target"
  <2>1. CASE Len(stack) = 1
    BY <1>2, <1>3, <2>1 DEF Aimed
  <2>2. CASE Len(stack) = 2
    <3>1. Top.fn = "send_read_write" /\ at \in {"rqm", "sent"}
      BY <1>2, <1>3, <2>2 DEF Aimed, Frames
    <3>2. On("send_read_write", "seeked") /\ ret = "ok"
      BY <1>1, <3>1 DEF On
    <3> QED
      BY <3>2 DEF HeadProved
  <2>3. CASE Len(stack) >= 3
    <3>1. 2 \in 1..(Len(stack) - 1) /\ Len(stack) >= 2
      BY <1>2, <2>3
    <3> QED
      BY <1>2, <1>3, <3>1 DEF Aimed, HeadProved
  <2>4. \A m \in Nat : m >= 1 => m = 1 \/ m = 2 \/ m >= 3
    OBVIOUS
  <2>5. Len(stack) = 1 \/ Len(stack) = 2 \/ Len(stack) >= 3
    BY <1>2, <2>4, Zenon
  <2> QED
    BY <2>1, <2>2, <2>3, <2>5
<1> QED
  BY <1>2, <1>3 DEF HeadProved

\* A return: only the sense interrupt of a seek answers it with Ok, and then the
\* head is where the seek wants it.
LEMMA ReturnHead ==
    ASSUME CallGraph, HeadProved, stack # <<>>, Top.fn \notin {"init", "disk"},
           NEW r, Return(r),
           \/ head' = head
           \/ Top.fn \in {"send_command", "sense_int"} /\ Top.arg \in Targets,
           r = "ok" /\ Top.fn = "sense_int" /\ Top.arg \in Targets => head' = Top.arg,
           r = "ok" /\ Top.fn = "seek" => head' = Top.arg
    PROVE  HeadProved'
<1>1. /\ Len(stack) \in Nat /\ Len(stack') = Len(stack) - 1 /\ ret' = r
      /\ \A k \in 1..(Len(stack) - 1) : Nth(stack', k) = Nth(stack, k)
  BY ReturnFrames DEF CallGraph
<1>2. /\ stack' # <<>> /\ Len(stack) > 1 /\ Calls(Head(stack'), Top)
      /\ Head(stack') = Nth(stack, Len(stack) - 1)
  BY ReturnTop
<1>3. ASSUME Aimed(stack') PROVE head' = "target"
  <2>1. 2 \in 1..(Len(stack) - 1) /\ Len(stack) >= 2
    BY <1>1, <1>3 DEF Aimed
  <2>2. Aimed(stack)
    BY <1>1, <1>3, <2>1 DEF Aimed
  <2>3. head' = head
    BY <2>2, MovesNotAimed
  <2> QED
    BY <2>2, <2>3 DEF HeadProved
<1>4. ASSUME Head(stack').fn = "seek", Head(stack').at = "sensed", r = "ok"
      PROVE  head' = Head(stack').arg
  <2>1. Top.fn = "sense_int" /\ Top.arg = Head(stack').arg
    BY <1>2, <1>4 DEF Calls
  <2>2. Len(stack) - 1 \in 1..Len(stack)
    BY <1>1, <1>2
  <2>3. Head(stack').arg \in Targets
    BY <1>2, <1>4, <2>2, SeekNotAimed
  <2> QED
    BY <1>4, <2>1, <2>3
<1>5. ASSUME Head(stack').fn = "send_read_write", Head(stack').at = "seeked", r = "ok"
      PROVE  head' = "target"
  <2>1. Top.fn = "seek" /\ Top.arg = "target"
    BY <1>2, <1>5 DEF Calls
  <2> QED
    BY <1>5, <2>1
<1> QED
  BY <1>1, <1>3, <1>4, <1>5 DEF HeadProved, On, Top

\* Every step keeps what is known of the head.
LEMMA NextHead == CallGraph /\ HeadProved /\ [Next]_vars => HeadProved'
<1> SUFFICES ASSUME CallGraph, HeadProved, [Next]_vars PROVE HeadProved'
  OBVIOUS
<1>1. CASE UNCHANGED <<stack, ret, head>>
  BY <1>1 DEF HeadProved, Aimed, On, Top
<1>2. CASE stack' = <<>>
  BY <1>2 DEF HeadProved, Aimed, On
<1>3. ASSUME stack # <<>>, StackStep, head' = head,
             \A r : Return(r) /\ Top.fn = "seek" /\ r = "ok" => head = Top.arg,
             \A r : Return(r) /\ Top.fn = "sense_int" => r # "ok"
      PROVE  HeadProved'
  <2>1. CASE CallStep
    BY <1>3, <2>1, CallHead
  <2>2. CASE JumpStep
    BY <1>3, <2>2, JumpHead
  <2>3. CASE ReturnStep
    BY <1>3, <2>3, ReturnHead DEF ReturnStep
  <2> QED
    BY <1>3, <2>1, <2>2, <2>3 DEF StackStep
<1>4. CASE CommandTaken
  <2>1. stack # <<>> /\ Top.fn = "send_command" /\ Return("ok")
    BY <1>4 DEF CommandTaken, On
  <2>2. head' = head \/ Top.arg \in Targets
    BY <1>4 DEF CommandTaken, Accept, ctl
  <2> QED
    BY <2>1, <2>2, ReturnHead
<1>5. CASE SensePasses
  <2>1. /\ stack # <<>> /\ Top.fn = "sense_int" /\ Return("ok")
        /\ head' = IF Top.arg \in Targets THEN Top.arg ELSE head
    BY <1>5 DEF SensePasses, On
  <2> QED
    BY <2>1, ReturnHead
<1>6. CASE CommandFails \/ CommandOverflows \/ CommandAfterReset \/ CommandGivesUp
  <2>1. stack # <<>> /\ Top.fn = "send_command" /\ head' = head
    BY <1>6 DEF CommandFails, CommandOverflows, CommandAfterReset, CommandGivesUp, On, ctl
  <2>2. StackStep
    BY <1>6, FifoSteps DEF send_command
  <2> QED
    BY <1>3, <2>1, <2>2
<1>7. CASE SenseBytesFail \/ SenseRejects \/ SenseLockupInReset \/ SenseAfterLockup
  <2>1. stack # <<>> /\ Top.fn = "sense_int" /\ head' = head /\ Return("err")
    BY <1>7 DEF SenseBytesFail, SenseRejects, SenseLockupInReset, SenseAfterLockup,
                On, ctl
  <2> QED
    BY <2>1, ReturnHead
<1>8. CASE SenseLockupInSeek
  <2>1. /\ stack # <<>> /\ Top.fn = "sense_int" /\ head' = head
        /\ stack \in Seq(Frames) /\ Top.at = "read"
        /\ Call("lockup", Frame("init_fdc", "fdc", "pulse", 0))
    BY <1>8 DEF SenseLockupInSeek, On, ctl, CallGraph
  <2>2. Frame("init_fdc", "fdc", "pulse", 0) \in Frames
    BY DEF Frame, Frames, Fns, Args, Labels
  <2>3. Len(stack') = Len(stack) + 1
    BY <2>1, <2>2, CallFrames DEF Labels
  <2>4. ~\E r : Return(r)
    <3>1. ASSUME NEW r, Return(r) PROVE Len(stack') = Len(stack) - 1 /\ Len(stack) \in Nat
      BY <2>1, <3>1, ReturnFrames
    <3> QED
      BY <2>3, <3>1
  <2>5. StackStep
    BY <1>8, FifoSteps DEF sense_int
  <2> QED
    BY <1>3, <2>1, <2>4, <2>5
<1>9. CASE seek
  <2>1. stack # <<>> /\ Top.fn = "seek" /\ head' = head
    BY <1>9 DEF seek, On, ctl
  <2>2. StackStep
    BY <1>9, FifoSteps
  <2>3. CASE On("seek", "sensed") /\ ret = "ok"
    BY <1>3, <2>1, <2>2, <2>3 DEF HeadProved
  <2>4. CASE ~(On("seek", "sensed") /\ ret = "ok")
    <3>1. ret' # "ok"
      BY <1>9, <2>4 DEF seek, Call, Jump, Return
    <3>2. \A r : Return(r) => r # "ok"
      BY <3>1 DEF Return
    <3> QED
      BY <1>3, <2>1, <2>2, <3>2
  <2> QED
    BY <2>3, <2>4
<1>10. CASE init_fdc \/ send_read_write
  <2>1. head' = head /\ Top.fn \in {"init_fdc", "send_read_write"}
    BY <1>10 DEF init_fdc, ResetPulse, ResetRest, send_read_write, On, ctl
  <2>2. stack # <<>> /\ (StackStep \/ stack' = <<>>)
    BY <1>10, DriverSteps DEF Driver
  <2> QED
    BY <1>2, <1>3, <2>1, <2>2
<1>11. CASE disk \/ init
  <2>1. head' = head
    BY <1>11 DEF disk, DiskAttempt, DataDone, DataByteFails, DataRqmFails,
           read_write_status, DiskGivesUp, init, InitCalls, InitVersion, InitFails,
           InitDone, ctl
  <2>2. Top.fn \in {"disk", "init"}
    BY <1>11 DEF disk, DiskAttempt, DataDone, DataByteFails, DataRqmFails,
           read_write_status, DiskGivesUp, init, InitCalls, InitVersion, InitFails,
           InitDone, On
  <2>3. stack # <<>> /\ (StackStep \/ stack' = <<>>)
    BY <1>11, DriverSteps DEF Driver
  <2> QED
    BY <1>2, <1>3, <2>1, <2>2, <2>3
<1>12. ASSUME NEW op \in Transfers, DiskCall(op)
       PROVE  HeadProved'
  <2> DEFINE f == Frame("disk", op, "attempt", DISK_RETRIES)
  <2>1. f \in Frames /\ f.fn = "disk"
    BY FrameType, ControllerConstants DEF Fns, Args, Labels
  <2>2. (stack' = <<f>> \/ stack' = <<>>)
    BY <1>12 DEF DiskCall
  <2> HIDE DEF f
  <2>3. CASE stack' = <<f>>
    BY <2>1, <2>3, OneFrame DEF HeadProved, Aimed, On, Top
  <2> QED
    BY <1>2, <2>2, <2>3
<1>13. CASE TransferAborts
  BY <1>1, <1>13 DEF TransferAborts
<1>14. CASE UNCHANGED vars
  BY <1>1, <1>14 DEF vars
<1> QED
  BY <1>4, <1>5, <1>6, <1>7, <1>8, <1>9, <1>10, <1>11, <1>12, <1>13, <1>14
     DEF Next, Driver, send_command, sense_int

----------------------------------------------------------------------------
(* The controller's phase after a read. *)

\* Every step keeps the state of a finished read.
LEMMA NextRead == CallGraph /\ ReadReady /\ [Next]_vars => ReadReady'
<1> SUFFICES ASSUME CallGraph, ReadReady, [Next]_vars PROVE ReadReady'
  OBVIOUS
<1>1. CASE result' # <<"read", "ok">>
  BY <1>1 DEF ReadReady, ReadOkInSync
<1>2. CASE stack # <<>> /\ result' = result
  BY <1>1, <1>2 DEF ReadReady
<1>3. CASE send_command \/ sense_int \/ seek \/ init_fdc \/ send_read_write
  <2>1. result' = result
    BY <1>3 DEF send_command, CommandTaken, CommandFails, CommandOverflows,
         CommandAfterReset,
         CommandGivesUp, sense_int, SenseBytesFail, SensePasses, SenseRejects,
         SenseLockupInReset, SenseLockupInSeek, SenseAfterLockup, seek, init_fdc,
         ResetPulse, ResetRest, send_read_write
  <2> QED
    BY <1>2, <1>3, <2>1, DriverSteps DEF Driver
<1>4. CASE init
  BY <1>1, <1>2, <1>4 DEF init, InitCalls, InitVersion, InitFails, InitDone,
       InitReturns, On
<1>5. CASE disk
  <2>1. CASE DiskAttempt \/ DataByteFails
    BY <1>2, <2>1 DEF DiskAttempt, DataByteFails, On
  <2>2. CASE DataDone
    BY <1>1, <1>2, <2>2 DEF DataDone, DiskReturns, On
  <2>3. CASE DataRqmFails \/ DiskGivesUp
    BY <1>1, <2>3 DEF DataRqmFails, DiskGivesUp, DiskReturns
  <2>4. CASE read_write_status
    <3>1. stack' = <<>> /\ (phase' = "idle" \/ result' = <<Top.arg, "err">>)
      BY <2>4 DEF read_write_status, DiskReturns
    <3> QED
      BY <1>1, <3>1 DEF ReadReady, ReadOkInSync
  <2> QED
    BY <1>5, <2>1, <2>2, <2>3, <2>4 DEF disk
<1>6. ASSUME NEW op \in Transfers, DiskCall(op)
      PROVE  ReadReady'
  BY <1>1, <1>6 DEF DiskCall
<1>7. CASE TransferAborts
  BY <1>7 DEF TransferAborts, ReadReady, ReadOkInSync, Executing
<1>8. CASE UNCHANGED vars
  BY <1>8 DEF vars, ReadReady, ReadOkInSync
<1> QED
  BY <1>3, <1>4, <1>5, <1>6, <1>7, <1>8 DEF Next, Driver

----------------------------------------------------------------------------
(* Theorems. *)

\* At startup nothing has been issued or read.
LEMMA InitIInv == Init => IInv
<1> SUFFICES ASSUME Init PROVE IInv
  OBVIOUS
<1> DEFINE f == Frame("init", "boot", "version", 0)
<1>1. f \in Frames /\ f.fn = "init"
  BY DEF Frame, Frames, Fns, Args, Labels
<1>2. stack = <<f>>
  BY DEF Init
<1> HIDE DEF f
<1>3. /\ Len(stack) = 1 /\ Nth(stack, 1) = f /\ Head(stack) = f
  BY <1>1, <1>2, OneFrame
<1>4. Budget
  BY <1>1, <1>3, ControllerConstants DEF Init, Budget
<1>5. HeadProved
  BY <1>1, <1>3 DEF HeadProved, Aimed, On, Top
<1>6. ReadReady
  BY DEF Init, ReadReady, ReadOkInSync
<1> QED
  BY <1>4, <1>5, <1>6, InitGraph DEF IInv

\* The call graph, what is left of the retries, what is known of the head and the
\* state of a finished read are kept by every step of floppy.rs, fifo.rs, reset.rs
\* and disk.rs, however its controller answers.
THEOREM Invariance == Spec => []IInv
<1>1. IInv /\ [Next]_vars => IInv'
  BY NextGraph, NextBudget, NextHead, NextRead DEF IInv
<1> QED
  BY <1>1, InitIInv, PTL DEF Spec

\* read and write of disk.rs issue at most DISK_RETRIES transfer commands, for
\* every number of retries of the loops nested in theirs.
THEOREM RetriesBounded == Spec => []RetryBudget
<1>1. IInv => RetryBudget
  BY DEF IInv, Budget, RetryBudget
<1> QED
  BY <1>1, Invariance, PTL

\* A read that returned Ok has collected its result bytes, whatever operations and
\* resets came before it (disk.rs, read_write_status).
THEOREM ReadsInSync == Spec => []ReadOkInSync
<1>1. IInv => ReadOkInSync
  BY DEF IInv, ReadReady
<1> QED
  BY <1>1, Invariance, PTL

\* The controller starts a transfer only with the head on its cylinder: no reset
\* that send_command nests, however deep, moves the head (disk.rs, fifo.rs).
THEOREM TransfersOnCylinder == Spec => TransferOnCylinder
<1>1. IInv /\ [Next]_vars => [Executing' /\ ~Executing => head = "target"]_vars
  <2> SUFFICES ASSUME IInv, Next, Executing', ~Executing
               PROVE  head = "target"
    OBVIOUS
  <2>1. CommandTaken
    <3>1. phase' # phase /\ phase' \in {"exec_read", "exec_write"}
      BY DEF Executing
    <3> QED
      BY <3>1 DEF Next, Driver, send_command, CommandFails, CommandOverflows,
           CommandAfterReset,
           CommandGivesUp, sense_int, SenseBytesFail, SensePasses, SenseRejects,
           SenseLockupInReset, SenseLockupInSeek, SenseAfterLockup, seek, init_fdc,
           ResetPulse, ResetRest, send_read_write, disk, DiskAttempt, DataDone,
           DataByteFails, DataRqmFails, read_write_status, DiskGivesUp, init,
           InitCalls, InitVersion, InitFails, InitDone, TransferAborts, DiskCall, ctl
  <2>2. /\ stack # <<>> /\ Top.fn = "send_command" /\ Top.arg \in Transfers
    BY <2>1 DEF CommandTaken, On, Accept, ctl, Executing, Exec
  <2>3. /\ Len(stack) = 3 /\ Nth(stack, 2).fn = "send_read_write"
        /\ Nth(stack, 2).at = "sent"
    BY <2>2, TransferCommand DEF IInv
  <2>4. Aimed(stack)
    BY <2>3 DEF Aimed
  <2> QED
    BY <2>4 DEF IInv, HeadProved
<1> QED
  BY <1>1, Invariance, PTL DEF Spec, TransferOnCylinder

\* A driver that is disabled between two operations stays disabled: no call of
\* disk.rs sets the flag or sends the controller a byte after that.
THEOREM StaysDisabled == Spec => DisabledForGood
<1>1. ASSUME CallGraph, Next, stack = <<>>, ~FLOPPY_INIT
      PROVE  ~FLOPPY_INIT' /\ stack' = <<>> /\ (UNCHANGED phase \/ Executing)
  <2>1. ~Driver
    BY <1>1, DriverSteps
  <2>2. CASE TransferAborts
    BY <1>1, <2>2, Zenon DEF TransferAborts
  <2>3. ASSUME NEW op \in Transfers, DiskCall(op)
        PROVE  ~FLOPPY_INIT' /\ stack' = <<>> /\ UNCHANGED phase
    BY <1>1, <2>3, Zenon DEF DiskCall
  <2> QED
    BY <1>1, <2>1, <2>2, <2>3 DEF Next
<1>2. IInv /\ [Next]_vars =>
        [booted /\ stack = <<>> /\ ~FLOPPY_INIT =>
           ~FLOPPY_INIT' /\ stack' = <<>> /\ (UNCHANGED phase \/ Executing)]_vars
  BY <1>1, Zenon DEF IInv
<1> QED
  BY <1>2, Invariance, PTL DEF Spec, DisabledForGood

----------------------------------------------------------------------------
(* Types, and the bound on nested resets. *)

Flags ==
    /\ FLOPPY_INIT \in BOOLEAN /\ space \in BOOLEAN /\ inRange \in BOOLEAN
    /\ booted \in BOOLEAN /\ announced \in BOOLEAN

Registers ==
    /\ ret \in {"none", "ok", "err"}
    /\ phase \in {"idle", "result", "exec_read", "exec_write"}
    /\ head \in Targets \cup {"unknown"}
    /\ ops \in 0..MaxOps

\* The calls of init_fdc, counted from the outermost frame.
ResetsOn(s) == {k \in 1..Len(s) : Nth(s, k).fn = "init_fdc"}

ResetBound == NestedResets <= MaxResets

\* They are as many as counted from the innermost one.
LEMMA ResetCount ==
    ASSUME NEW s \in Seq(Frames)
    PROVE  /\ IsFiniteSet(ResetsOn(s)) /\ Cardinality(ResetsOn(s)) \in Nat
           /\ Cardinality({i \in DOMAIN s : s[i].fn = "init_fdc"})
                = Cardinality(ResetsOn(s))
<1> DEFINE S == {i \in DOMAIN s : s[i].fn = "init_fdc"}
           T == ResetsOn(s)
           m == [i \in S |-> Len(s) + 1 - i]
<1>1. Len(s) \in Nat /\ DOMAIN s = 1..Len(s)
  BY LenProperties
<1>2. IsFiniteSet(S) /\ IsFiniteSet(T)
  <2>1. IsFiniteSet(1..Len(s))
    BY <1>1, FS_Interval
  <2>2. S \subseteq 1..Len(s) /\ T \subseteq 1..Len(s)
    BY <1>1 DEF ResetsOn
  <2> QED
    BY <2>1, <2>2, FS_Subset
<1>3. \A i \in 1..Len(s) : Len(s) + 1 - i \in 1..Len(s) /\ Len(s) + 1 - (Len(s) + 1 - i) = i
  BY <1>1
<1>4. m \in Bijection(S, T)
  <2>1. m \in [S -> T]
    BY <1>1, <1>3 DEF ResetsOn, Nth
  <2>2. \A i, j \in S : m[i] = m[j] => i = j
    BY <1>1
  <2>3. \A k \in T : \E i \in S : m[i] = k
    <3> SUFFICES ASSUME NEW k \in T PROVE \E i \in S : m[i] = k
      OBVIOUS
    <3>1. Len(s) + 1 - k \in S /\ Len(s) + 1 - (Len(s) + 1 - k) = k
      BY <1>1, <1>3 DEF ResetsOn, Nth
    <3> QED
      BY <3>1
  <2> HIDE DEF m, S, T
  <2> QED
    BY <2>1, <2>2, <2>3 DEF Bijection, Injection, IsInjective, Surjection
<1>5. Cardinality(S) = Cardinality(T)
  BY <1>2, <1>4, FS_Bijection DEF ExistsBijection
<1>6. Cardinality(T) \in Nat
  BY <1>2, FS_CardinalityType
<1> QED
  BY <1>2, <1>5, <1>6

\* What senses the end of a seek runs in no reset.
LEMMA SeekNotInReset ==
    ASSUME CallGraph, stack # <<>>, Top.fn = "sense_int", Top.arg \in Targets
    PROVE  ResetsOn(stack) = {}
<1>1. /\ Len(stack) \in Nat /\ Len(stack) >= 1 /\ Len(stack) # 1
      /\ Len(stack) > 1 => Calls(Nth(stack, Len(stack) - 1), Top)
      /\ Top = Nth(stack, Len(stack))
  BY TopFacts
<1>2. Len(stack) > 1
  BY <1>1, OneOrMore, Zenon
<1>3. PICK k \in 1..Len(stack) : k = Len(stack) - 1
  BY <1>1, <1>2
<1>4. Nth(stack, k).fn = "seek"
  BY <1>1, <1>2, <1>3 DEF Calls, Targets
<1>5. k # 1
  BY <1>4 DEF CallGraph, Outermost
<1>6. k \in 2..Len(stack) /\ k - 1 \in 1..Len(stack)
  BY <1>1, <1>5
<1>7. Calls(Nth(stack, k - 1), Nth(stack, k))
  BY <1>6 DEF CallGraph
<1>8. Nth(stack, k - 1).fn \in {"send_read_write", "init"}
  BY <1>4, <1>7 DEF Calls
<1>9. CASE Nth(stack, k - 1).fn = "send_read_write"
  <2>1. k - 1 = 2 /\ Nth(stack, 1).fn = "disk"
    BY <1>6, <1>9, SecondCall
  <2>2. \A j \in 1..Len(stack) : j = 1 \/ j = 2 \/ j = k \/ j = Len(stack)
    <3>1. k = 3
      BY <2>1
    <3>2. Len(stack) = 4
      BY <1>1, <1>3, <3>1
    <3>3. \A j \in 1..4 : j = 1 \/ j = 2 \/ j = 3 \/ j = 4
      OBVIOUS
    <3> QED
      BY <3>1, <3>2, <3>3
  <2>3. Nth(stack, 2).fn = "send_read_write"
    BY <1>9, <2>1
  <2> QED
    BY <1>1, <1>4, <2>1, <2>2, <2>3 DEF ResetsOn
<1>10. CASE Nth(stack, k - 1).fn = "init"
  <2>1. k - 1 = 1
    <3> SUFFICES ASSUME k - 1 # 1 PROVE FALSE
      OBVIOUS
    <3>1. k - 1 \in 2..Len(stack)
      BY <1>1, <1>6
    <3>2. Calls(Nth(stack, k - 1 - 1), Nth(stack, k - 1))
      BY <3>1 DEF CallGraph
    <3> QED
      BY <1>10, <3>2 DEF Calls
  <2>2. \A j \in 1..Len(stack) : j = k - 1 \/ j = k \/ j = Len(stack)
    <3>1. k = 2
      BY <2>1
    <3>2. Len(stack) = 3
      BY <1>1, <1>3, <3>1
    <3>3. \A j \in 1..3 : j = 1 \/ j = 2 \/ j = 3
      OBVIOUS
    <3> QED
      BY <2>1, <3>1, <3>2, <3>3
  <2> QED
    BY <1>1, <1>4, <1>10, <2>2 DEF ResetsOn
<1> QED
  BY <1>8, <1>9, <1>10

\* A command that resets the controller, and a lockup after a seek, are the only
\* calls of init_fdc but that of init, and all are within the bound.
LEMMA ResetCalls ==
    ASSUME CallGraph, Driver, stack # <<>>,
           NEW at \in Labels, NEW f \in Frames, Call(at, f),
           Calls([Top EXCEPT !.at = at], f), f.fn = "init_fdc"
    PROVE  NestedResets < MaxResets
<1>1. /\ Top \in Frames /\ Top.n \in Nat /\ Len(stack) \in Nat /\ Len(stack) >= 1
      /\ InLoop(Top) => Top.n > 0
      /\ Top.fn = "init" => Len(stack) = 1
      /\ Top = Nth(stack, Len(stack)) /\ stack \in Seq(Frames)
  BY TopFacts DEF Frames, CallGraph
<1>2. Top.fn \in {"send_command", "sense_int", "init"}
  <2>1. [Top EXCEPT !.at = at].fn = Top.fn
    BY <1>1 DEF Frames
  <2> QED
    BY <2>1 DEF Calls
<1>3. Len(stack') = Len(stack) + 1
  BY <1>1, CallFrames
<1>4. \A r : ~Return(r)
  BY <1>1, <1>3, ReturnFrames
<1>5. CASE Top.fn = "init"
  <2>1. Len(stack) = 1
    BY <1>1, <1>5
  <2>2. ResetsOn(stack) = {}
    BY <1>1, <1>5, <2>1 DEF ResetsOn
  <2>3. NestedResets = 0
    BY <1>1, <2>2, ResetCount, FS_EmptySet DEF NestedResets
  <2> QED
    BY <2>3, ControllerConstants
<1>6. CASE Top.fn = "send_command"
  <2>1. send_command
    BY <1>6 DEF Driver, sense_int, SenseBytesFail, SensePasses, SenseRejects,
         SenseLockupInReset, SenseLockupInSeek, SenseAfterLockup, seek, init_fdc,
         ResetPulse, ResetRest, send_read_write, disk, DiskAttempt, DataDone,
         DataByteFails, DataRqmFails, read_write_status, DiskGivesUp, init, InitCalls,
         InitVersion, InitFails, InitDone, On
  <2>2. ~(On("send_command", "reset") /\ Jump("send", Top.n - 1))
    <3> SUFFICES ASSUME On("send_command", "reset"), Jump("send", Top.n - 1)
                 PROVE  FALSE
      OBVIOUS
    <3>1. Top.n - 1 \in Nat /\ "send" \in Labels
      BY <1>1 DEF InLoop, On, Labels
    <3>2. Len(stack') = Len(stack)
      BY <1>1, <3>1, JumpFrames
    <3> QED
      BY <1>1, <1>3, <3>2
  <2>3. ~(On("send_command", "send") /\ Jump("overflow", Top.n))
    <3> SUFFICES ASSUME On("send_command", "send"), Jump("overflow", Top.n)
                 PROVE  FALSE
      OBVIOUS
    <3>1. Top.n \in Nat /\ "overflow" \in Labels
      BY <1>1 DEF Labels
    <3>2. Len(stack') = Len(stack)
      BY <1>1, <3>1, JumpFrames
    <3> QED
      BY <1>1, <1>3, <3>2
  <2> QED
    BY <1>4, <2>1, <2>2, <2>3 DEF send_command, CommandTaken, CommandFails, CommandOverflows,
         CommandAfterReset, CommandGivesUp
<1>7. CASE Top.fn = "sense_int"
  <2>1. sense_int
    BY <1>7 DEF Driver, send_command, CommandTaken, CommandFails, CommandOverflows,
         CommandAfterReset,
         CommandGivesUp, seek, init_fdc, ResetPulse, ResetRest, send_read_write, disk,
         DiskAttempt, DataDone, DataByteFails, DataRqmFails, read_write_status,
         DiskGivesUp, init, InitCalls, InitVersion, InitFails, InitDone, On
  <2>2. Top.arg \in Targets
    BY <1>4, <2>1 DEF sense_int, SenseBytesFail, SensePasses, SenseRejects,
         SenseLockupInReset, SenseLockupInSeek, SenseAfterLockup
  <2>3. NestedResets = 0
    BY <1>1, <1>7, <2>2, SeekNotInReset, ResetCount, FS_EmptySet DEF NestedResets
  <2> QED
    BY <2>3, ControllerConstants
<1> QED
  BY <1>2, <1>5, <1>6, <1>7


\* The guard on a call of init_fdc is all that the bound needs: nothing else puts a
\* frame of its on the stack.
LEMMA NextResets == CallGraph /\ ResetBound /\ [Next]_vars => ResetBound'
<1> SUFFICES ASSUME CallGraph, ResetBound, [Next]_vars PROVE ResetBound'
  OBVIOUS
<1>0. CallGraph' /\ stack \in Seq(Frames) /\ stack' \in Seq(Frames) /\ MaxResets \in Nat
  BY NextGraph, ControllerConstants DEF CallGraph
<1>1. /\ NestedResets = Cardinality(ResetsOn(stack))
      /\ NestedResets' = Cardinality(ResetsOn(stack'))
      /\ IsFiniteSet(ResetsOn(stack)) /\ NestedResets \in Nat
  <2>1. NestedResets' = Cardinality({i \in DOMAIN stack' : stack'[i].fn = "init_fdc"})
    BY DEF NestedResets
  <2> QED
    BY <1>0, <2>1, ResetCount DEF NestedResets
<1>2. ASSUME ResetsOn(stack') \subseteq ResetsOn(stack)
      PROVE  ResetBound'
  <2>1. Cardinality(ResetsOn(stack')) <= Cardinality(ResetsOn(stack))
        /\ Cardinality(ResetsOn(stack')) \in Nat
    BY <1>0, <1>1, <1>2, FS_Subset, ResetCount
  <2> QED
    BY <1>0, <1>1, <2>1 DEF ResetBound
<1>3. CASE stack' = <<>>
  <2>1. ResetsOn(stack') = {}
    BY <1>3 DEF ResetsOn
  <2> QED
    BY <1>2, <2>1
<1>4. CASE UNCHANGED stack
  BY <1>2, <1>4
<1>5. ASSUME NEW op \in Transfers, DiskCall(op)
      PROVE  ResetBound'
  <2> DEFINE f == Frame("disk", op, "attempt", DISK_RETRIES)
  <2>1. f \in Frames /\ f.fn = "disk"
    BY FrameType, ControllerConstants DEF Fns, Args, Labels
  <2>2. stack' = <<f>> \/ stack' = stack
    BY <1>5 DEF DiskCall
  <2> HIDE DEF f
  <2>3. CASE stack' = <<f>>
    <3>1. Len(stack') = 1 /\ Nth(stack', 1) = f
      BY <2>1, <2>3, OneFrame
    <3>2. ResetsOn(stack') = {}
      BY <2>1, <3>1 DEF ResetsOn
    <3> QED
      BY <1>2, <3>2
  <2> QED
    BY <1>4, <2>2, <2>3
<1>6. ASSUME Driver, CallStep
      PROVE  ResetBound'
  <2>0. stack # <<>>
    BY <1>6, DriverSteps
  <2>1. PICK at \in Labels, f \in Frames : Call(at, f) /\ Calls([Top EXCEPT !.at = at], f)
    BY <1>6, Zenon DEF CallStep
  <2>2. /\ Len(stack) \in Nat /\ Len(stack) >= 1 /\ Len(stack') = Len(stack) + 1
        /\ Top = Nth(stack, Len(stack)) /\ Top \in Frames
        /\ Nth(stack', Len(stack) + 1) = f
        /\ Nth(stack', Len(stack)) = [Top EXCEPT !.at = at]
        /\ \A k \in 1..(Len(stack) - 1) : Nth(stack', k) = Nth(stack, k)
    BY <1>0, <2>0, <2>1, CallFrames
  <2>3. \A k \in 1..Len(stack) : Nth(stack', k).fn = Nth(stack, k).fn
    <3>1. [Top EXCEPT !.at = at].fn = Top.fn
      BY <2>2 DEF Frames
    <3>2. \A k \in 1..Len(stack) : k = Len(stack) \/ k \in 1..(Len(stack) - 1)
      BY <2>2
    <3> QED
      BY <2>2, <3>1, <3>2
  <2>4. \A k \in 1..Len(stack') : k \in 1..Len(stack) \/ k = Len(stack) + 1
    BY <2>2
  <2>5. CASE f.fn # "init_fdc"
    <3>1. ResetsOn(stack') \subseteq ResetsOn(stack)
      BY <2>2, <2>3, <2>4, <2>5 DEF ResetsOn
    <3> QED
      BY <1>2, <3>1
  <2>6. CASE f.fn = "init_fdc"
    <3>1. ResetsOn(stack') = ResetsOn(stack) \cup {Len(stack) + 1}
      <4>1. Len(stack) + 1 \in 1..Len(stack') /\ 1..Len(stack) \subseteq 1..Len(stack')
        BY <2>2
      <4> QED
        BY <2>2, <2>3, <2>4, <2>6, <4>1 DEF ResetsOn
    <3>2. Len(stack) + 1 \notin ResetsOn(stack)
      BY <2>2 DEF ResetsOn
    <3>3. NestedResets' = NestedResets + 1
      BY <1>1, <3>1, <3>2, FS_AddElement
    <3>4. NestedResets < MaxResets
      BY <1>6, <2>0, <2>1, <2>6, ResetCalls
    <3> QED
      BY <1>0, <1>1, <3>3, <3>4 DEF ResetBound
  <2> QED
    BY <2>5, <2>6
<1>7. ASSUME Driver, JumpStep
      PROVE  ResetBound'
  <2>0. stack # <<>>
    BY <1>7, DriverSteps
  <2>1. PICK at \in Labels, n \in Nat : Jump(at, n)
    BY <1>7, Zenon DEF JumpStep
  <2>2. /\ Len(stack) \in Nat /\ Len(stack) >= 1 /\ Len(stack') = Len(stack)
        /\ Top = Nth(stack, Len(stack)) /\ Top \in Frames
        /\ Nth(stack', Len(stack)) = [Top EXCEPT !.at = at, !.n = n]
        /\ \A k \in 1..(Len(stack) - 1) : Nth(stack', k) = Nth(stack, k)
    BY <1>0, <2>0, <2>1, JumpFrames
  <2>3. [Top EXCEPT !.at = at, !.n = n].fn = Top.fn
    BY <2>2 DEF Frames
  <2>4. \A k \in 1..Len(stack) : k = Len(stack) \/ k \in 1..(Len(stack) - 1)
    BY <2>2
  <2>5. ResetsOn(stack') \subseteq ResetsOn(stack)
    BY <2>2, <2>3, <2>4 DEF ResetsOn
  <2> QED
    BY <1>2, <2>5
<1>8. ASSUME Driver, ReturnStep
      PROVE  ResetBound'
  <2>0. stack # <<>>
    BY <1>8, DriverSteps
  <2>1. PICK r : Return(r)
    BY <1>8, Zenon DEF ReturnStep
  <2>2. /\ Len(stack) \in Nat /\ Len(stack) >= 1 /\ Len(stack') = Len(stack) - 1
        /\ \A k \in 1..(Len(stack) - 1) : Nth(stack', k) = Nth(stack, k)
    BY <1>0, <2>0, <2>1, ReturnFrames
  <2>3. 1..(Len(stack) - 1) \subseteq 1..Len(stack)
    BY <2>2
  <2>4. ResetsOn(stack') \subseteq ResetsOn(stack)
    BY <2>2, <2>3 DEF ResetsOn
  <2> QED
    BY <1>2, <2>4
<1>9. CASE Driver
  <2>1. StackStep \/ stack' = <<>>
    BY <1>9, DriverSteps
  <2> QED
    BY <1>3, <1>6, <1>7, <1>8, <1>9, <2>1, Zenon DEF StackStep
<1> QED
  BY <1>4, <1>5, <1>9 DEF Next, TransferAborts, vars

\* Every variable keeps its type, for any number of retries and operations, and
\* resets nest no deeper than the model's bound (floppy.rs, fifo.rs, reset.rs,
\* disk.rs).
THEOREM TypeCorrect == Spec => []TypeOK
<1>1. Init => Flags
  BY Zenon DEF Init, Flags
<1>2. Init => Registers /\ ResetBound
  <2> SUFFICES ASSUME Init PROVE Registers /\ ResetBound
    OBVIOUS
  <2>1. Registers
    BY ControllerConstants DEF Init, Registers
  <2>2. stack # <<>> /\ Top.fn = "init" /\ stack = <<Frame("init", "boot", "version", 0)>>
    BY DEF Init, Top, Frame
  <2>3. Frame("init", "boot", "version", 0) \in Frames
    BY DEF Frame, Frames, Fns, Args, Labels
  <2>4. Len(stack) = 1 /\ Nth(stack, 1).fn = "init" /\ stack \in Seq(Frames)
    BY <2>2, <2>3, OneFrame DEF Frame
  <2>5. ResetsOn(stack) = {}
    BY <2>4 DEF ResetsOn
  <2>6. NestedResets = 0
    BY <2>4, <2>5, ResetCount, FS_EmptySet DEF NestedResets
  <2> QED
    BY <2>1, <2>6, ControllerConstants DEF ResetBound
<1>3. Flags /\ [Next]_vars => Flags'
  BY Zenon DEF Flags, Next, Driver, send_command, CommandTaken, CommandFails, CommandOverflows,
       CommandAfterReset, CommandGivesUp, sense_int, SenseBytesFail, SensePasses,
       SenseRejects, SenseLockupInReset, SenseLockupInSeek, SenseAfterLockup, seek,
       init_fdc, ResetPulse, ResetRest, send_read_write, disk, DiskAttempt, DataDone,
       DataByteFails, DataRqmFails, read_write_status, DiskGivesUp, init, InitCalls,
       InitVersion, InitFails, InitDone, InitReturns, TransferAborts, DiskCall, env, vars
<1>4. Registers /\ [Next]_vars => Registers'
  <2> SUFFICES ASSUME Registers, [Next]_vars PROVE Registers'
    OBVIOUS
  <2> USE DEF Registers, ctl, hist
  <2>1. CASE send_command
    <3>1. \A c \in Transfers : Exec[c] \in {"exec_read", "exec_write"}
      BY DEF Transfers, Exec
    <3> QED
      BY <2>1, <3>1 DEF send_command, CommandTaken, CommandFails, CommandOverflows,
           CommandAfterReset,
           CommandGivesUp, Accept, Call, Jump, Return
  <2>2. CASE sense_int
    BY <2>2 DEF sense_int, SenseBytesFail, SensePasses, SenseRejects,
         SenseLockupInReset, SenseLockupInSeek, SenseAfterLockup, Call, Return
  <2>3. CASE seek
    BY <2>3 DEF seek, Call, Jump, Return
  <2>4. CASE init_fdc
    BY <2>4 DEF init_fdc, ResetPulse, ResetRest, Call, Jump, Return
  <2>5. CASE send_read_write
    BY <2>5 DEF send_read_write, Call, Jump, Return
  <2>6. CASE disk
    BY <2>6 DEF disk, DiskAttempt, DataDone, DataByteFails, DataRqmFails,
         read_write_status, DiskGivesUp, DiskReturns, Call, Jump, Return
  <2>7. CASE init
    BY <2>7 DEF init, InitCalls, InitVersion, InitFails, InitDone, InitReturns, Call,
         Jump, Return
  <2>8. CASE TransferAborts \/ UNCHANGED vars
    BY <2>8 DEF TransferAborts, vars
  <2>9. ASSUME NEW op \in Transfers, DiskCall(op)
        PROVE  Registers'
    BY <2>9, ControllerConstants DEF DiskCall
  <2> QED
    BY <2>1, <2>2, <2>3, <2>4, <2>5, <2>6, <2>7, <2>8, <2>9 DEF Next, Driver
<1>5. ASSUME IInv, Flags, Registers, ResetBound
      PROVE  TypeOK
  <2>1. \A i \in DOMAIN stack : stack[i].n \in Nat
    <3>1. stack \in Seq(Frames)
      BY <1>5 DEF IInv, CallGraph
    <3>2. \A i \in DOMAIN stack : stack[i] \in Frames
      BY <3>1, ElementOfSeq, LenProperties
    <3> QED
      BY <3>2 DEF Frames
  <2>2. issued \in Nat
    BY <1>5 DEF IInv, Budget
  <2> QED
    BY <1>5, <2>1, <2>2, Zenon DEF Flags, Registers, ResetBound, TypeOK
<1>6. CallGraph /\ ResetBound /\ [Next]_vars => ResetBound'
  BY NextResets
<1>7. IInv => CallGraph
  BY DEF IInv
<1> QED
  BY Invariance, <1>1, <1>2, <1>3, <1>4, <1>5, <1>6, <1>7, PTL DEF Spec


=============================================================================
