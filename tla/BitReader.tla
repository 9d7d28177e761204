----------------------------- MODULE BitReader ------------------------------
(***************************************************************************)
(* bs_t, the cursor every parser of the tool reads with: a byte and the    *)
(* number of bits of it that are left.  Bits are taken one at a time; when *)
(* the cursor is at the start of a byte, whole bytes are taken at once.    *)
(***************************************************************************)
EXTENDS Integers, Sequences

CONSTANTS
    Buffers,      \* the bytes to start with; bound: one write to them
    Widths,       \* widths of numbers, in bits
    Counts,       \* lengths of byte copies and skips, also negative
    Numbers       \* the numbers written

VARIABLES
    b,            \* the cursor: the bytes, p (from 0) and bits_left
    got           \* what the last read returned: one number, or the bytes copied

bs_init(buf) == [buf |-> buf, p |-> 0, bits_left |-> 8]

End(c) == Len(c.buf)
bs_eof(c) == c.p >= End(c)
bs_bytes_left(c) == End(c) - c.p
bs_pos(c) == IF c.p > End(c) THEN End(c) ELSE c.p

\* --bits_left, and on to the next byte after the last.
PassBit(c) ==
    IF c.bits_left = 1 THEN [c EXCEPT !.p = @ + 1, !.bits_left = 8] ELSE [c EXCEPT !.bits_left = @ - 1]

bs_peek_u1(c) == IF bs_eof(c) THEN 0 ELSE (c.buf[c.p + 1] \div 2^(c.bits_left - 1)) % 2

bs_skip_u1(c) == IF bs_eof(c) THEN c ELSE PassBit(c)

\* The loops: n more bits or bytes after the number r.v, each as the lowest, or at its own place.
RECURSIVE BitsAfter(_, _), BytesAfter(_, _), BitsInPlace(_, _)
BitsAfter(r, n) ==
    IF n = 0 THEN r ELSE BitsAfter([v |-> 2 * r.v + bs_peek_u1(r.b), b |-> bs_skip_u1(r.b)], n - 1)
BitsInPlace(r, n) ==
    IF n = 0 THEN r
    ELSE BitsInPlace([v |-> r.v + bs_peek_u1(r.b) * 2^(n - 1), b |-> bs_skip_u1(r.b)], n - 1)

\* A read of n bits: the number and the cursor after it.
bs_read_u(c, n) == IF bs_eof(c) THEN [v |-> 0, b |-> c] ELSE BitsAfter([v |-> 0, b |-> c], n)

bs_read_u1(c) == [v |-> bs_peek_u1(c), b |-> bs_skip_u1(c)]

bs_read_u8(c) ==
    IF ~bs_eof(c) /\ c.bits_left = 8
    THEN [v |-> c.buf[c.p + 1], b |-> [c EXCEPT !.p = @ + 1]]
    ELSE bs_read_u(c, 8)

\* n bytes, the first the highest (u16, u24, u32, u64).
BytesAfter(r, n) ==
    LET next == bs_read_u8(r.b)
    IN IF n = 0 THEN r ELSE BytesAfter([v |-> r.v + next.v * 2^(8 * (n - 1)), b |-> next.b], n - 1)
bs_read_uN(c, n) == IF bs_eof(c) THEN [v |-> 0, b |-> c] ELSE BytesAfter([v |-> 0, b |-> c], n)

bs_read_ull(c, n) ==
    IF bs_eof(c) \/ n < 1 THEN [v |-> 0, b |-> c] ELSE BitsInPlace([v |-> 0, b |-> c], n)

RECURSIVE bs_skip_u(_, _)
bs_skip_u(c, n) == IF bs_eof(c) \/ n = 0 THEN c ELSE bs_skip_u(bs_skip_u1(c), n - 1)

\* The zeros before the first one, no more than 32 and none at the end.
RECURSIVE LeadingZeros(_, _)
LeadingZeros(c, i) ==
    LET after == bs_skip_u1(c)
    IN IF bs_peek_u1(c) = 0 /\ i < 32 /\ ~bs_eof(after) THEN LeadingZeros(after, i + 1)
       ELSE [v |-> i, b |-> after]

bs_read_ue(c) ==
    LET zeros == LeadingZeros(c, 0)
        rest == bs_read_u(zeros.b, zeros.v)
    IN [v |-> rest.v + 2^zeros.v - 1, b |-> rest.b]

SetBit(c, v) ==
    LET at == 2^(c.bits_left - 1)
        others == c.buf[c.p + 1] - bs_peek_u1(c) * at
    IN [c EXCEPT !.buf[c.p + 1] = others + (v % 2) * at]

bs_write_u1(c, v) == IF bs_eof(c) THEN c ELSE PassBit(SetBit(c, v))

\* Also bs_write_ull.
RECURSIVE bs_write_u(_, _, _)
bs_write_u(c, n, v) ==
    IF bs_eof(c) \/ n = 0 THEN c ELSE bs_write_u(bs_write_u1(c, v \div 2^(n - 1)), n - 1, v)

bs_write_u8(c, v) ==
    IF ~bs_eof(c) /\ c.bits_left = 8
    THEN [c EXCEPT !.buf[c.p + 1] = v % 256, !.p = @ + 1]
    ELSE bs_write_u(c, 8, v)

RECURSIVE bs_write_uN(_, _, _)
bs_write_uN(c, n, v) ==
    IF bs_eof(c) \/ n = 0 THEN c ELSE bs_write_uN(bs_write_u8(c, v \div 2^(8 * (n - 1))), n - 1, v)

\* Mutant: nothing is copied when not all of it is there.
AllOrNothing(c, len) == IF len <= bs_bytes_left(c) THEN len ELSE 0

\* How many whole bytes are copied or skipped; a negative length goes back.
bytes2copy(c, len) == IF len <= bs_bytes_left(c) THEN len ELSE bs_bytes_left(c)

bs_read_bytes(c, len) ==
    [v |-> SubSeq(c.buf, c.p + 1, c.p + bytes2copy(c, len)), b |-> [c EXCEPT !.p = @ + bytes2copy(c, len)]]

bs_write_bytes(c, len, v) ==
    [c EXCEPT !.buf = [i \in 1 .. End(c) |-> IF i > c.p /\ i <= c.p + bytes2copy(c, len) THEN v ELSE @[i]],
              !.p = @ + bytes2copy(c, len)]

bs_skip_bytes(c, len) == [c EXCEPT !.p = @ + bytes2copy(c, len)]

-----------------------------------------------------------------------------
\* A number, and how the code reads and writes one of that width.
ReadsOf(n) ==
    {bs_read_u(b, n), bs_read_ull(b, n)}
        \cup (IF n = 1 THEN {bs_read_u1(b)} ELSE {})
        \cup (IF n % 8 = 0 THEN {bs_read_uN(b, n \div 8)} ELSE {})
        \cup (IF n = 8 THEN {bs_read_u8(b)} ELSE {})

Read(n) == \E r \in ReadsOf(n) : b' = r.b /\ got' = <<r.v>>

WritesOf(n, v) ==
    {bs_write_u(b, n, v)} \cup (IF n % 8 = 0 THEN {bs_write_uN(b, n \div 8, v)} ELSE {})
        \cup (IF n = 1 THEN {bs_write_u1(b, v)} ELSE {})

Write(n, v) == b.buf \in Buffers /\ b' \in WritesOf(n, v) /\ got' = <<>>

SkipBits(n) == b' \in {bs_skip_u(b, n)} \cup (IF n = 1 THEN {bs_skip_u1(b)} ELSE {}) /\ got' = <<>>

\* bs_next_bits reads with a copy of the cursor.
bs_next_bits(n) == got' = <<bs_read_u(b, n).v>> /\ UNCHANGED b

ReadBytes(len) == got' = bs_read_bytes(b, len).v /\ b' = bs_read_bytes(b, len).b
WriteBytes(len, v) == b.buf \in Buffers /\ b' = bs_write_bytes(b, len, v) /\ got' = <<>>

\* Back by no more than what was read.
SkipBytes(len) == b.p + len >= 0 /\ b' = bs_skip_bytes(b, len) /\ got' = <<>>

ReadGolomb == b' = bs_read_ue(b).b /\ got' = <<bs_read_ue(b).v>>

Init == (\E buf \in Buffers : b = bs_init(buf)) /\ got = <<>>

Next ==
    \/ \E n \in Widths : Read(n) \/ SkipBits(n) \/ bs_next_bits(n) \/ \E v \in Numbers : Write(n, v)
    \/ \E k \in Counts : (k >= 0 /\ (ReadBytes(k) \/ \E v \in Numbers : WriteBytes(k, v))) \/ SkipBytes(k)
    \/ ReadGolomb

BitsRead == INSTANCE BitStream WITH bytes <- b.buf, at <- 8 * b.p + (8 - b.bits_left), got <- got

\* A cursor, through any sequence of reads, skips and writes of bits, of aligned and unaligned
\* bytes and across the end, is a place in one list of bits: reads give the bits at that place,
\* writes change these bits and no others, and nothing beyond the end is touched.
BitStreamStep == BitsRead!Next
=============================================================================
