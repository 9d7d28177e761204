----------------------------- MODULE ByteStream -----------------------------
(***************************************************************************)
(* What the circular buffer of EBPStreamBuffer.c promises its three        *)
(* callers, with no buffer in it: a bounded stream of bytes in which a     *)
(* byte is named by its position.  A read returns the oldest bytes not yet *)
(* read, in order and once; a peek looks ahead and consumes nothing; a     *)
(* read puts the peek position back to the read position.                  *)
(***************************************************************************)
EXTENDS Integers

CONSTANTS Capacity,  \* bytes the stream may hold unread
          MaxRequest \* bound on the bytes one call asks for

VARIABLES written,   \* bytes accepted so far
          read,      \* bytes consumed so far
          peeked,    \* position of the next byte a peek returns
          closed,    \* the stream accepts nothing more
          ret        \* what the last call returned

vars == <<written, read, peeked, closed, ret>>

NoBytes == [j \in {} |-> 0]
Return(op, code, bytes) == [op |-> op, code |-> code, bytes |-> bytes]
Least(a, b) == IF a <= b THEN a ELSE b

Init == /\ written = 0 /\ read = 0 /\ peeked = 0
        /\ closed = FALSE
        /\ ret = Return("none", 0, NoBytes)

\* Accept n more bytes, or refuse all of them.
Write(n) ==
    /\ \/ /\ ret' = Return("write", 0, NoBytes)
          /\ ~closed /\ n <= Capacity - (written - read)
          /\ written' = written + n
       \/ /\ ret' = Return("write", -1, NoBytes)
          /\ ~closed /\ n > Capacity - (written - read)
          /\ UNCHANGED written
       \/ /\ ret' = Return("write", -99, NoBytes)
          /\ closed
          /\ UNCHANGED written
    /\ UNCHANGED <<read, peeked, closed>>

\* The k bytes that start at position `from`.
Bytes(from, k) == [j \in 0 .. k - 1 |-> from + j]

Read(n) ==
    LET k == Least(n, written - read)
    IN  /\ ret' = Return("read", k, Bytes(read, k))
        /\ read' = read + k
        /\ peeked' = read + k
        /\ UNCHANGED <<written, closed>>

Peek(n) ==
    LET k == Least(n, written - peeked)
    IN  /\ ret' = Return("peek", k, Bytes(peeked, k))
        /\ peeked' = peeked + k
        /\ UNCHANGED <<written, read, closed>>

\* Only a closed stream with nothing left reports its end.
EndOfStream(op) ==
    /\ ret' = Return(op, -99, NoBytes)
    /\ closed
    /\ written = IF op = "peek" THEN peeked ELSE read
    /\ UNCHANGED <<written, read, peeked, closed>>

Close == /\ ret' = Return("disable", 0, NoBytes)
         /\ closed' = TRUE
         /\ UNCHANGED <<written, read, peeked>>

Next == \/ \E n \in 0 .. Capacity + 1 : Write(n)
        \/ \E n \in 0 .. MaxRequest : Read(n) \/ Peek(n)
        \/ \E op \in {"peek", "read"} : EndOfStream(op)
        \/ Close

Spec == Init /\ [][Next]_vars
=============================================================================
