---------------------------- MODULE LossyQueue ----------------------------
(***************************************************************************)
(* What the scancode buffer promises: scancodes, numbered in the order in  *)
(* which the keyboard sent them, reach keyboard_input in that order and at *)
(* most once. Some may be lost on the way.                                 *)
(***************************************************************************)
EXTENDS Naturals

VARIABLES sent,     \* how many scancodes the keyboard has sent
          last,     \* the number of the last one that was handled
          taken     \* how many were handled

Init == sent = 0 /\ last = 0 /\ taken = 0

Send == sent' = sent + 1 /\ UNCHANGED <<last, taken>>

\* Handling a scancode skips those before it for good.
Handle ==
    /\ last' \in (last + 1)..sent
    /\ taken' = taken + 1
    /\ UNCHANGED sent

Next == Send \/ Handle

Spec == Init /\ [][Next]_<<sent, last, taken>>

=============================================================================
