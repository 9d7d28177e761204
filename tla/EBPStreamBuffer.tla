-------------------------- MODULE EBPStreamBuffer --------------------------
(***************************************************************************)
(* The circular buffer between a socket receive thread and the thread that *)
(* parses its transport stream (EBPStreamBuffer.c).  One writer, one       *)
(* reader (first the preread thread, which peeks, then the stream ingest   *)
(* thread, which reads) and the main thread, which disables the buffer.    *)
(*                                                                         *)
(* Every operation holds the buffer's mutex from its first access to its   *)
(* return, pthread_cond_wait excepted, so an operation is one step and a   *)
(* call that waits is two: the wait and the return.  A byte is named by    *)
(* its position in the stream, a pointer by its offset from buf.           *)
(***************************************************************************)
EXTENDS Integers

CONSTANTS BufSz,      \* bytes malloc'ed by cb_init
          Width,      \* values of an unsigned int traversal counter (2^32)
          MaxRequest, \* bound on the bytesSz of a read or a peek
          MaxBytes,   \* bound on the bytes written in a behaviour
          MayWakeSpuriously \* may pthread_cond_wait return without a signal?

ASSUME BufferAssumption ==
    /\ BufSz \in Nat \ {0}
    /\ Width \in Nat \ {0, 1}
    /\ MaxRequest \in Nat \ {0}
    /\ MaxBytes \in Nat
    /\ MayWakeSpuriously \in BOOLEAN

VARIABLES buf,                    \* slot -> byte; malloc does not clear it
          writePtr, readPtr, peekPtr,
          writeBufferTraversals, readBufferTraversals, peekBufferTraversals,
          disabled,
          call,                   \* the reader's call parked in pthread_cond_wait
          ret,                    \* what the last call returned
          nWritten                \* bytes written so far: names the next one

pointers == <<writePtr, readPtr, peekPtr, writeBufferTraversals,
              readBufferTraversals, peekBufferTraversals>>
bufferVars == <<buf, pointers, disabled, call, ret, nWritten>>

Slots    == 0 .. BufSz - 1
Counters == 0 .. Width - 1
Garbage  == -1
NoBytes  == [j \in {} |-> 0]
NoParkedCall   == [op |-> "none", sz |-> 0, woken |-> FALSE]
Return(op, code, bytes) == [op |-> op, code |-> code, bytes |-> bytes]
Least(a, b) == IF a <= b THEN a ELSE b

-----------------------------------------------------------------------------
\* Bytes from (pointer p in lap t) up to the write pointer: the counters are
\* unsigned, so their difference is taken modulo Width.
SizeFrom(p, t) == BufSz * ((writeBufferTraversals - t) % Width) + writePtr - p

ReadSize == SizeFrom(readPtr, readBufferTraversals)  \* cb_read_size_internal
PeekSize == SizeFrom(peekPtr, peekBufferTraversals)  \* cb_peek_size_internal
Used(op) == IF op = "peek" THEN PeekSize ELSE ReadSize
\* Mutation: the room left is counted from the peek position.
AvailableWriteSizePastPeek == BufSz - PeekSize
AvailableWriteSize == BufSz - ReadSize

\* Moving n bytes on from offset p in two pieces: sz1 bytes up to the end of
\* the buffer at most, then the rest from its start.
Piece1(p, n)  == Least(BufSz - p, n)
AtEnd(p, n)   == p + Piece1(p, n) >= BufSz
Piece2At(p, n) == IF AtEnd(p, n) THEN 0 ELSE p + Piece1(p, n)
NextPtr(p, n) == Piece2At(p, n) + (n - Piece1(p, n))
NextLap(p, n, t) == IF AtEnd(p, n) THEN (t + 1) % Width ELSE t

\* The bytes memcpy takes out of the buffer, and the buffer after memcpy put
\* the next n bytes of the stream into it.
Fetched(p, n) ==
    [j \in 0 .. n - 1 |->
        buf[IF j < Piece1(p, n) THEN p + j ELSE Piece2At(p, n) + j - Piece1(p, n)]]
Stored(p, n) ==
    [i \in Slots |->
        IF p <= i /\ i < p + Piece1(p, n) THEN nWritten + (i - p)
        ELSE IF Piece2At(p, n) <= i /\ i < NextPtr(p, n)
        THEN nWritten + Piece1(p, n) + (i - Piece2At(p, n))
        ELSE buf[i]]

\* pthread_cond_signal: wakes the one thread that can be parked.
Signal == call' = IF call.op = "none" THEN call ELSE [call EXCEPT !.woken = TRUE]

-----------------------------------------------------------------------------
BufferInit ==
    /\ buf = [i \in Slots |-> Garbage]
    /\ writePtr = 0 /\ readPtr = 0 /\ peekPtr = 0
    /\ writeBufferTraversals = 0
    /\ readBufferTraversals = 0
    /\ peekBufferTraversals = 0
    /\ disabled = FALSE
    /\ call = NoParkedCall
    /\ ret = Return("none", 0, NoBytes)
    /\ nWritten = 0

WriteDisabled ==
    /\ disabled
    /\ ret' = Return("write", -99, NoBytes)
    /\ UNCHANGED <<buf, pointers, disabled, call, nWritten>>

WriteNoRoom(n) ==
    /\ ~disabled
    /\ n > AvailableWriteSize
    /\ ret' = Return("write", -1, NoBytes)
    /\ UNCHANGED <<buf, pointers, disabled, call, nWritten>>

WriteBytes(n) ==
    /\ ~disabled
    /\ n <= AvailableWriteSize
    /\ nWritten + n <= MaxBytes
    /\ buf' = Stored(writePtr, n)
    /\ writePtr' = NextPtr(writePtr, n)
    /\ writeBufferTraversals' = NextLap(writePtr, n, writeBufferTraversals)
    /\ nWritten' = nWritten + n
    /\ Signal
    /\ ret' = Return("write", 0, NoBytes)
    /\ UNCHANGED <<readPtr, peekPtr, readBufferTraversals, peekBufferTraversals, disabled>>

cb_write(n) == WriteDisabled \/ WriteNoRoom(n) \/ WriteBytes(n)

\* Mutation: cb_disable without its pthread_cond_signal.
cb_disable_silent ==
    /\ disabled' = TRUE
    /\ ret' = Return("disable", 0, NoBytes)
    /\ UNCHANGED <<buf, pointers, call, nWritten>>

cb_disable ==
    /\ disabled' = TRUE
    /\ Signal
    /\ ret' = Return("disable", 0, NoBytes)
    /\ UNCHANGED <<buf, pointers, nWritten>>

\* The tail of cb_read_or_peek: copy at most sz bytes out and advance.  A read
\* takes the peek position with it.
CopyPeek(sz) ==
    LET n == Least(PeekSize, sz)
    IN  /\ ret' = Return("peek", n, Fetched(peekPtr, n))
        /\ peekPtr' = NextPtr(peekPtr, n)
        /\ peekBufferTraversals' = NextLap(peekPtr, n, peekBufferTraversals)
        /\ UNCHANGED <<buf, writePtr, readPtr, writeBufferTraversals,
                       readBufferTraversals, disabled, nWritten>>

\* Mutations: a read leaves the peek position behind, a read copies from it.
CopyReadKeepsPeek(sz) ==
    LET n == Least(ReadSize, sz)
    IN  /\ ret' = Return("read", n, Fetched(readPtr, n))
        /\ readPtr' = NextPtr(readPtr, n)
        /\ readBufferTraversals' = NextLap(readPtr, n, readBufferTraversals)
        /\ UNCHANGED <<buf, writePtr, peekPtr, writeBufferTraversals,
                       peekBufferTraversals, disabled, nWritten>>

CopyReadAtPeek(sz) ==
    LET n == Least(ReadSize, sz)
    IN  /\ ret' = Return("read", n, Fetched(peekPtr, n))
        /\ readPtr' = NextPtr(readPtr, n)
        /\ readBufferTraversals' = NextLap(readPtr, n, readBufferTraversals)
        /\ peekPtr' = readPtr'
        /\ peekBufferTraversals' = readBufferTraversals'
        /\ UNCHANGED <<buf, writePtr, writeBufferTraversals, disabled, nWritten>>

CopyRead(sz) ==
    LET n == Least(ReadSize, sz)
    IN  /\ ret' = Return("read", n, Fetched(readPtr, n))
        /\ readPtr' = NextPtr(readPtr, n)
        /\ readBufferTraversals' = NextLap(readPtr, n, readBufferTraversals)
        /\ peekPtr' = readPtr'
        /\ peekBufferTraversals' = readBufferTraversals'
        /\ UNCHANGED <<buf, writePtr, writeBufferTraversals, disabled, nWritten>>

Copy(op, sz) == \/ op = "peek" /\ CopyPeek(sz)
                \/ op = "read" /\ CopyRead(sz)

CallCopies(op, sz) == /\ Used(op) # 0
                      /\ Copy(op, sz)
                      /\ UNCHANGED call

CallEnds(op) ==
    /\ Used(op) = 0
    /\ disabled
    /\ ret' = Return(op, -99, NoBytes)
    /\ UNCHANGED <<buf, pointers, disabled, call, nWritten>>

CallWaits(op, sz) ==
    /\ Used(op) = 0
    /\ ~disabled
    /\ call' = [op |-> op, sz |-> sz, woken |-> FALSE]
    /\ UNCHANGED <<buf, pointers, disabled, ret, nWritten>>

cb_read_or_peek(op, sz) ==
    /\ call = NoParkedCall
    /\ CallCopies(op, sz) \/ CallEnds(op) \/ CallWaits(op, sz)

\* A woken reader has the mutex again.  There is no loop around the wait: it
\* copies what it finds, which may be nothing.
CallReturns ==
    /\ call.op # "none"
    /\ call.woken
    /\ Copy(call.op, call.sz)
    /\ call' = NoParkedCall

WakesSpuriously ==
    /\ MayWakeSpuriously
    /\ call.op # "none"
    /\ ~call.woken
    /\ call' = [call EXCEPT !.woken = TRUE]
    /\ UNCHANGED <<buf, pointers, disabled, ret, nWritten>>

BufferNext ==
    \/ \E n \in 0 .. BufSz + 1 : cb_write(n)
    \/ \E op \in {"peek", "read"}, sz \in 1 .. MaxRequest : cb_read_or_peek(op, sz)
    \/ CallReturns
    \/ WakesSpuriously
    \/ cb_disable

BufferSpec == BufferInit /\ [][BufferNext]_bufferVars

-----------------------------------------------------------------------------
BufferTypeOK ==
    /\ buf \in [Slots -> Int]
    /\ writePtr \in Slots /\ readPtr \in Slots /\ peekPtr \in Slots
    /\ writeBufferTraversals \in Counters
    /\ readBufferTraversals \in Counters
    /\ peekBufferTraversals \in Counters
    /\ disabled \in BOOLEAN
    /\ call \in [op : {"none", "peek", "read"}, sz : 0 .. MaxRequest, woken : BOOLEAN]
    /\ nWritten \in 0 .. MaxBytes

\* The three positions stay in order across every wrap of the pointers and of
\* the counters (EBPStreamBuffer.c:390-404): the unread bytes fit the buffer
\* and a peek is never behind the reader.
SizesInOrder == 0 <= PeekSize /\ PeekSize <= ReadSize /\ ReadSize <= BufSz

\* How far slot i lies after the read pointer, around the end of the buffer.
Offset(i) == IF i >= readPtr THEN i - readPtr ELSE i - readPtr + BufSz

\* No write reaches a byte before it was read (EBPStreamBuffer.c:293-334):
\* every slot of the unread part holds the byte of its place in the stream.
UnreadIntact ==
    \A i \in Slots : Offset(i) < ReadSize => buf[i] = nWritten - ReadSize + Offset(i)

\* A reader parked with no signal pending has nothing to return for, so no
\* interleaving of write, disable and wait leaves it asleep over bytes or over
\* a disabled buffer (EBPStreamBuffer.c:175-202 against 107-109 and 336).
NoLostWakeup ==
    call.op # "none" /\ ~call.woken => Used(call.op) = 0 /\ ~disabled

\* The buffer is the byte stream its callers take it for: what cb_read and
\* cb_peek copy out is what cb_write took in, in order, nothing lost by a peek,
\* nothing read twice, and refusals change nothing (EBPStreamBuffer.c:155-353).
Stream == INSTANCE ByteStream WITH
              Capacity <- BufSz,
              written  <- nWritten,
              read     <- nWritten - ReadSize,
              peeked   <- nWritten - PeekSize,
              closed   <- disabled
ImplementsByteStream == Stream!Spec
=============================================================================
