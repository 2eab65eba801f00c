----------------------------- MODULE MCStartup -----------------------------
(* Small sounds and times for Startup. *)
EXTENDS Startup

Note(ticks, repeat) == [ticks |-> ticks, repeat |-> repeat]

TwoNotes  == <<Note(0, FALSE), Note(1, FALSE)>>
OneRepeat == <<Note(1, FALSE), Note(2, TRUE)>>

\* Before a change of year, and noon of a day with one digit everywhere.
SomeTimes ==
    {[year |-> 2026, month |-> 12, day |-> 31, hour |-> 23, min |-> 59, sec |-> 58],
     [year |-> 2030, month |-> 2,  day |-> 9,  hour |-> 12, min |-> 0,  sec |-> 7]}

=============================================================================
