------------------------------- MODULE Rtc -------------------------------
(***************************************************************************)
(* The launch time: how sync_time_to_rtc (time.rs) reads the bytes that    *)
(* the real time clock shows in one of its four modes. The clock itself is *)
(* external: binary or BCD values, 24 or 12 hours with a flag for the      *)
(* afternoon.                                                              *)
(***************************************************************************)
EXTENDS Naturals

CENTURY    == 20
FLAG_24_HR == 128

Fields == {"year", "month", "day", "hour", "min", "sec"}

\* What the clock shows of a number, and of the hour.
Shown(mode, n) == IF mode.binary THEN n ELSE (n \div 10) * 16 + (n % 10)

ShownHour(mode, h) ==
    IF mode.h24 THEN Shown(mode, h)
    ELSE Shown(mode, ((h + 11) % 12) + 1) + (IF h < 12 THEN 0 ELSE FLAG_24_HR)

\* Time::now: the six registers, the year without its century.
now(mode, t) ==
    [f \in Fields |-> CASE f = "hour" -> ShownHour(mode, t.hour)
                        [] f = "year" -> Shown(mode, t.year % 100)
                        [] OTHER      -> Shown(mode, t[f])]

\* Mutant: the tens are counted in sixteens.
bcd_to_bin_hex(bcd) == (bcd \div 16) * 16 + (bcd % 16)

bcd_to_bin(bcd) == (bcd \div 16) * 10 + (bcd % 16)

\* The hour converted with the flag preserved, in a variable of its own.
hour_kept(mode, hour) ==
    IF mode.binary THEN hour
    ELSE (hour % 16) + ((hour % 128) \div 16) * 10 + (hour \div 128) * FLAG_24_HR

\* hour & FLAG_24_HR = hour leaves only 0 and the flag itself; any other hour
\* stays as the register had it.
launch_hour(mode, hour) ==
    LET h == hour_kept(mode, hour) IN
    IF ~mode.h24 /\ h \in {0, FLAG_24_HR} THEN ((h % 128) + 12) % 24 ELSE hour

sync_time_to_rtc(mode, raw) ==
    LET bin(n) == IF mode.binary THEN n ELSE bcd_to_bin(n) IN
    [f \in Fields |-> CASE f = "hour" -> launch_hour(mode, raw.hour)
                        [] f = "year" -> bin(raw.year) + CENTURY * 100
                        [] OTHER      -> bin(raw[f])]

=============================================================================
