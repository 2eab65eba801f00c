---------------------------- MODULE MCKeyboard ----------------------------
(* Instances of Keyboard for TLC. *)
EXTENDS Keyboard

Key(b)   == << <<"none", b>> >>
Right(b) == << <<"E0", b>> >>
PrtScr   == << <<"E0", "12">>, <<"E0", "7C">> >>

OneKey    == {Key("35")}
FlagKeys  == {Key("12"), PrtScr, Key("7F")}
BoardKeys == FlagKeys \cup {Key("59"), Key("14"), Right("14"), Key("11"), Key("0C")}

=============================================================================
