----------------------------- MODULE FsCodecs -----------------------------
(***************************************************************************)
(* The encodings of libfs: two block pointers in three bytes (lib.rs) and  *)
(* the release of a filesystem in sixteen bits (header.rs).                *)
(*                                                                         *)
(* A pointer has three nibbles and a byte has two. Nibble is the number of *)
(* values of one, 16 in the code; a smaller one keeps the layout. Shifts   *)
(* and masks are divisions and remainders by powers of it.                 *)
(***************************************************************************)
EXTENDS Integers, Sequences

CONSTANT Nibble

ASSUME NibbleAssumption == Nibble \in Nat /\ Nibble > 1

Byte    == Nibble * Nibble
MAX_VAL == Nibble * Byte

\* BlockPtr::new and get_nullable: null is 0, and what is too large is cut to
\* MAX_VAL, which is one more than three nibbles hold.
BlockPtr(ptr) == IF ptr < MAX_VAL THEN ptr ELSE MAX_VAL

is_valid(ptr) == ptr # 0

encode(fst, snd) ==
    << (fst \div Nibble) % Byte,
       (fst % Nibble) * Nibble + ((snd \div Byte) % Nibble),
       snd % Byte >>

\* Mutant: the nibbles of the shared byte are taken the wrong way round.
decode_swapped(raw) ==
    << BlockPtr(raw[1] * Nibble + (raw[2] % Nibble)),
       BlockPtr((raw[2] \div Nibble) * Byte + raw[3]) >>

decode(raw) ==
    << BlockPtr(raw[1] * Nibble + (raw[2] \div Nibble)),
       BlockPtr((raw[2] % Nibble) * Byte + raw[3]) >>

YEAR_START == 2025

\* FsRelease::new, for days below 1024 and years the u16 subtraction accepts.
FsRelease(day, year) == (((year - YEAR_START) * 1024) % 65536) + day

\* Nine bits of the day are read back.
year_day(release) == << release \div 1024, release % 512 >>

\* a > b by partial_cmp: what is neither equal nor less is greater.
newer(a, b) ==
    /\ a # b
    /\ ~\/ year_day(b)[1] > year_day(a)[1]
        \/ year_day(a)[1] = year_day(b)[1] /\ year_day(b)[2] > year_day(a)[2]

=============================================================================
