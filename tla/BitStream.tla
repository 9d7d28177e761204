----------------------------- MODULE BitStream ------------------------------
(***************************************************************************)
(* What the parsers of the library take a bs_t for: a place in a list of   *)
(* bits.  BitReader is the code of bs.h and implements this specification; *)
(* the parsers are written with the operators of Bits.                     *)
(***************************************************************************)
EXTENDS Bits

CONSTANTS Buffers, Widths, Counts, Numbers

VARIABLES bytes, at, got

Cursor == [buf |-> bytes, at |-> at]

Read(n) == got' = <<Value(Cursor, n)>> /\ at' = Skip(Cursor, n).at /\ UNCHANGED bytes

Pass(n) == at' = Skip(Cursor, n).at /\ got' = <<>> /\ UNCHANGED bytes

Look(n) == got' = <<Value(Cursor, n)>> /\ UNCHANGED <<bytes, at>>

Write(n, v) ==
    /\ bytes' = IF AtEnd(Cursor) THEN bytes ELSE Replace(bytes, at, n, v)
    /\ at' = Skip(Cursor, n).at
    /\ got' = <<>>

ReadWhole(k) ==
    /\ got' = NextBytes(Cursor, k)
    /\ at' = SkipBytes(Cursor, k).at
    /\ UNCHANGED bytes

WriteWhole(k, v) ==
    LET from == BytePos(Cursor)
    IN /\ bytes' = [i \in DOMAIN bytes |-> IF i > from /\ i <= from + k THEN v ELSE bytes[i]]
       /\ at' = SkipBytes(Cursor, k).at
       /\ got' = <<>>

Move(k) == at' = SkipBytes(Cursor, k).at /\ got' = <<>> /\ UNCHANGED bytes

ReadGolomb ==
    \* A number that does not end within the bytes has no meaning.
    \/ /\ \A i \in at .. Size(Cursor) - 1 : BitOf(bytes, i) = 0
       /\ at' = Skip(Cursor, Size(Cursor)).at
       /\ UNCHANGED bytes
    \/ /\ \E i \in at .. Size(Cursor) - 1 : BitOf(bytes, i) = 1
       /\ got' = <<Golomb(Cursor).value>>
       /\ at' = Golomb(Cursor).to.at
       /\ UNCHANGED bytes

Init == bytes \in Buffers /\ at = 0 /\ got = <<>>

Next ==
    \/ \E n \in Widths : Read(n) \/ Pass(n) \/ Look(n) \/ \E v \in Numbers : Write(n, v)
    \/ \E k \in Counts : ReadWhole(k) \/ Move(k) \/ \E v \in Numbers : WriteWhole(k, v)
    \/ ReadGolomb

Spec == Init /\ [][Next]_<<bytes, at, got>>
=============================================================================
