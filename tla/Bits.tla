-------------------------------- MODULE Bits --------------------------------
(***************************************************************************)
(* A list of bits and a place in it, as every parser uses one.  What is    *)
(* read past the end is zero.                                              *)
(***************************************************************************)
EXTENDS Integers, Sequences

Lesser(m, n) == IF m <= n THEN m ELSE n

\* A cursor: the bytes, and the number of bits before the next one.
AtStart(bytes) == [buf |-> bytes, at |-> 0]

Size(c) == 8 * Len(c.buf)
BytePos(c) == c.at \div 8
AtEnd(c) == BytePos(c) >= Len(c.buf)
BytesLeft(c) == Len(c.buf) - BytePos(c)

\* Bit i, counted from 0, first the highest of the first byte.
BitOf(bytes, i) == (bytes[(i \div 8) + 1] \div 2^(7 - (i % 8))) % 2
BitAt(c, i) == IF i >= Size(c) THEN 0 ELSE BitOf(c.buf, i)

\* The number the next n bits are.
RECURSIVE Value(_, _)
Value(c, n) == IF AtEnd(c) \/ n = 0 THEN 0 ELSE 2 * Value(c, n - 1) + BitAt(c, c.at + n - 1)

\* The cursor after n bits: no further than the end.
Skip(c, n) == IF AtEnd(c) THEN c ELSE [c EXCEPT !.at = Lesser(@ + n, Size(c))]

\* The cursor k bytes on or back, no further than the end; a bit position within a byte stays.
SkipBytes(c, k) == [c EXCEPT !.at = @ + 8 * Lesser(k, BytesLeft(c))]

\* The next k whole bytes, fewer at the end.
NextBytes(c, k) == SubSeq(c.buf, BytePos(c) + 1, BytePos(c) + Lesser(k, BytesLeft(c)))

\* The numbers that consecutive fields of the given widths are.
RECURSIVE Fields(_, _)
Fields(c, widths) ==
    IF widths = <<>> THEN <<>>
    ELSE <<Value(c, Head(widths))>> \o Fields(Skip(c, Head(widths)), Tail(widths))

\* All the bits of some bytes, and the bytes with n of them, from place i, replaced by those of v.
Replace(bytes, i, n, v) ==
    LET bit(j) == IF j >= i /\ j < i + n THEN (v \div 2^(n - 1 - (j - i))) % 2 ELSE BitOf(bytes, j)
        number[k \in Nat] == IF k % 8 = 0 THEN bit(k) ELSE 2 * number[k - 1] + bit(k)
    IN [k \in 1 .. Len(bytes) |-> number[8 * k - 1]]

\* The number in exponential Golomb code at the cursor, one that ends within the bytes.
Golomb(c) ==
    LET zeros == CHOOSE z \in 0 .. Size(c) - c.at - 1 :
                    /\ \A i \in 0 .. z - 1 : BitAt(c, c.at + i) = 0
                    /\ BitAt(c, c.at + z) = 1
    IN [value |-> 2^zeros - 1 + Value(Skip(c, zeros + 1), zeros), to |-> Skip(c, 2 * zeros + 1)]
=============================================================================
