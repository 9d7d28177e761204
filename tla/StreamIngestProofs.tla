------------------------- MODULE StreamIngestProofs -------------------------
(***************************************************************************)
(* Proofs about EBPStreamBuffer, for every buffer size, request size and   *)
(* counter width, and about StreamIngest, for every size of the buffer, of *)
(* a request, of a datagram and of the stream: the three threads and the   *)
(* buffer together.  What a call does to the buffer is taken from the      *)
(* lemmas of the first part; the second adds where the threads stand.      *)
(***************************************************************************)
EXTENDS StreamIngest, TLAPS

-----------------------------------------------------------------------------
(* The buffer.                                                              *)

USE DEF Slots, Counters, Least

\* The lap counter that follows t.
Succ(t) == (t + 1) % Width

\* Position (p, t) is behind the writer, by at most one turn of the buffer.
Behind(p, t) ==
    \/ writeBufferTraversals = t /\ p <= writePtr
    \/ writeBufferTraversals = Succ(t) /\ writePtr <= p

\* A counter that is incremented is a counter, and wraps at Width.
LEMMA SuccRange == ASSUME NEW t \in Counters
                   PROVE  /\ Succ(t) \in Counters
                          /\ Succ(t) # t
                          /\ Succ(t) = IF t + 1 = Width THEN 0 ELSE t + 1
  BY BufferAssumption, SMT DEF Succ

\* The unsigned difference of two neighbouring laps is 1 even where the counter
\* wrapped in between.
LEMMA LapDifference ==
    ASSUME NEW t \in Counters
    PROVE  /\ (t - t) % Width = 0
           /\ (Succ(t) - t) % Width = 1
  <1>1. Width \in Nat /\ Width > 1 /\ t \in Int
    BY BufferAssumption
  <1>2. 0 % Width = 0
    BY <1>1, SMT
  <1>3. 1 % Width = 1
    BY <1>1, SMT
  <1>4. (1 - Width) % Width = 1
    <2>1. ASSUME NEW w \in Nat, w > 1
          PROVE  (1 - w) % w = 1
      <3>1. PICK q \in Int, r \in 0 .. w - 1 : 1 - w = q * w + r /\ (1 - w) % w = r
        BY <2>1, SMT
      <3>2. CASE q = -1
        BY <3>1, <3>2, <2>1, SMT
      <3>3. CASE q >= 0
        BY <3>1, <3>3, <2>1, SMT
      <3>4. CASE q =< -2
        BY <3>1, <3>4, <2>1, SMT
      <3>5. QED
        BY <3>1, <3>2, <3>3, <3>4, SMT
    <2>2. QED
      BY <1>1, <2>1
  <1>5. CASE t + 1 = Width
    BY <1>1, <1>2, <1>4, <1>5, SuccRange
  <1>6. CASE t + 1 # Width
    BY <1>1, <1>2, <1>3, <1>6, SuccRange
  <1>7. QED
    BY <1>5, <1>6

\* The size the code computes, without the product and the modulo.
LEMMA SizeOfBehind ==
    ASSUME writePtr \in Slots, writeBufferTraversals \in Counters,
           NEW p \in Slots, NEW t \in Counters, Behind(p, t)
    PROVE  /\ SizeFrom(p, t) \in 0 .. BufSz
           /\ writeBufferTraversals = t => SizeFrom(p, t) = writePtr - p
           /\ writeBufferTraversals = Succ(t) => SizeFrom(p, t) = BufSz + writePtr - p
  <1>1. CASE writeBufferTraversals = t /\ p <= writePtr
    <2>1. SizeFrom(p, t) = BufSz * 0 + writePtr - p
      BY <1>1, LapDifference DEF SizeFrom
    <2>2. QED
      BY <1>1, <2>1, SuccRange, BufferAssumption
  <1>2. CASE writeBufferTraversals = Succ(t) /\ writePtr <= p
    <2>1. SizeFrom(p, t) = BufSz * 1 + writePtr - p
      BY <1>2, LapDifference DEF SizeFrom
    <2>2. QED
      BY <1>2, <2>1, SuccRange, BufferAssumption
  <1>3. QED
    BY <1>1, <1>2 DEF Behind

\* The two pieces of a copy of n bytes at offset p: where they meet and end.
LEMMA Pieces ==
    ASSUME NEW p \in Slots, NEW n \in 0 .. BufSz, NEW t \in Counters
    PROVE  /\ p + n < BufSz => /\ Piece1(p, n) = n
                               /\ ~AtEnd(p, n)
                               /\ Piece2At(p, n) = p + n
                               /\ NextPtr(p, n) = p + n
                               /\ NextLap(p, n, t) = t
           /\ p + n >= BufSz => /\ Piece1(p, n) = BufSz - p
                                /\ AtEnd(p, n)
                                /\ Piece2At(p, n) = 0
                                /\ NextPtr(p, n) = p + n - BufSz
                                /\ NextLap(p, n, t) = Succ(t)
           /\ NextPtr(p, n) \in Slots
           /\ NextLap(p, n, t) \in Counters
  BY BufferAssumption, SuccRange DEF Piece1, AtEnd, Piece2At, NextPtr, NextLap, Succ

\* A reader that advances by n of the bytes ahead of it has n fewer ahead.
LEMMA ReaderAdvance ==
    ASSUME writePtr \in Slots, writeBufferTraversals \in Counters,
           NEW p \in Slots, NEW t \in Counters, Behind(p, t),
           NEW n \in 0 .. SizeFrom(p, t)
    PROVE  /\ Behind(NextPtr(p, n), NextLap(p, n, t))
           /\ SizeFrom(NextPtr(p, n), NextLap(p, n, t)) = SizeFrom(p, t) - n
  <1> DEFINE q == NextPtr(p, n)
             u == NextLap(p, n, t)
  <1>1. n \in 0 .. BufSz /\ SizeFrom(p, t) \in 0 .. BufSz
    BY SizeOfBehind, BufferAssumption
  <1>2. q \in Slots /\ u \in Counters
    BY <1>1, Pieces
  <1>3. CASE p + n < BufSz
    <2>1. q = p + n /\ u = t
      BY <1>1, <1>3, Pieces
    <2>2. Behind(q, u)
      BY <1>1, <2>1, SizeOfBehind, BufferAssumption DEF Behind
    <2>3. SizeFrom(q, u) = SizeFrom(p, t) - n
      <3>1. CASE writeBufferTraversals = t
        BY <1>1, <1>2, <2>1, <2>2, <3>1, SizeOfBehind, BufferAssumption
      <3>2. CASE writeBufferTraversals = Succ(t)
        BY <1>1, <1>2, <2>1, <2>2, <3>2, SizeOfBehind, BufferAssumption
      <3>3. QED
        BY <3>1, <3>2 DEF Behind
    <2>4. QED
      BY <2>2, <2>3
  <1>4. CASE p + n >= BufSz
    <2>1. q = p + n - BufSz /\ u = Succ(t)
      BY <1>1, <1>4, Pieces
    <2>2. writeBufferTraversals = Succ(t)
      BY <1>1, <1>4, SizeOfBehind, BufferAssumption DEF Behind
    <2>3. SizeFrom(p, t) = BufSz + writePtr - p
      BY <2>2, SizeOfBehind
    <2>4. Behind(q, u)
      BY <1>1, <2>1, <2>2, <2>3, BufferAssumption DEF Behind
    <2>5. SizeFrom(q, u) = writePtr - q
      BY <1>2, <2>1, <2>2, <2>4, SizeOfBehind
    <2>6. QED
      BY <1>1, <2>1, <2>3, <2>4, <2>5, BufferAssumption
  <1>5. QED
    BY <1>1, <1>3, <1>4, BufferAssumption

\* A write of n bytes puts n more ahead of a position it has room behind.
LEMMA WriterAdvance ==
    ASSUME writePtr \in Slots, writeBufferTraversals \in Counters,
           NEW p \in Slots, NEW t \in Counters, Behind(p, t),
           NEW n \in 0 .. BufSz - SizeFrom(p, t),
           writePtr' = NextPtr(writePtr, n),
           writeBufferTraversals' = NextLap(writePtr, n, writeBufferTraversals)
    PROVE  /\ Behind(p, t)'
           /\ SizeFrom(p, t)' = SizeFrom(p, t) + n
  <1>1. n \in 0 .. BufSz /\ SizeFrom(p, t) \in 0 .. BufSz
    BY SizeOfBehind, BufferAssumption
  <1>2. writePtr' \in Slots /\ writeBufferTraversals' \in Counters
    BY <1>1, Pieces
  <1>3. CASE writePtr + n < BufSz
    <2>1. writePtr' = writePtr + n /\ writeBufferTraversals' = writeBufferTraversals
      BY <1>1, <1>3, Pieces
    <2>2. CASE writeBufferTraversals = t
      <3>1. SizeFrom(p, t) = writePtr - p /\ p <= writePtr
        BY <2>2, SizeOfBehind, SuccRange DEF Behind
      <3>2. Behind(p, t)'
        BY <1>1, <2>1, <2>2, <3>1 DEF Behind
      <3>3. SizeFrom(p, t)' = (BufSz * ((t - t) % Width)) + writePtr' - p
        BY <2>1, <2>2 DEF SizeFrom
      <3>4. QED
        BY <1>1, <2>1, <3>1, <3>2, <3>3, LapDifference, BufferAssumption
    <2>3. CASE writeBufferTraversals = Succ(t)
      <3>1. SizeFrom(p, t) = BufSz + writePtr - p
        BY <2>3, SizeOfBehind
      <3>2. Behind(p, t)'
        BY <1>1, <2>1, <2>3, <3>1, BufferAssumption DEF Behind
      <3>3. SizeFrom(p, t)' = (BufSz * ((Succ(t) - t) % Width)) + writePtr' - p
        BY <2>1, <2>3 DEF SizeFrom
      <3>4. QED
        BY <1>1, <2>1, <3>1, <3>2, <3>3, LapDifference, BufferAssumption
    <2>4. QED
      BY <2>2, <2>3 DEF Behind
  <1>4. CASE writePtr + n >= BufSz
    <2>1. writePtr' = writePtr + n - BufSz /\ writeBufferTraversals' = Succ(writeBufferTraversals)
      BY <1>1, <1>4, Pieces
    <2>2. writeBufferTraversals = t /\ p <= writePtr
      BY <1>1, <1>4, SizeOfBehind, BufferAssumption DEF Behind
    <2>3. SizeFrom(p, t) = writePtr - p
      BY <2>2, SizeOfBehind
    <2>4. Behind(p, t)'
      BY <1>1, <2>1, <2>2, <2>3, BufferAssumption DEF Behind
    <2>5. SizeFrom(p, t)' = (BufSz * ((Succ(t) - t) % Width)) + writePtr' - p
      BY <2>1, <2>2 DEF SizeFrom
    <2>6. QED
      BY <1>1, <2>1, <2>2, <2>3, <2>4, <2>5, LapDifference, BufferAssumption
  <1>5. QED
    BY <1>1, <1>3, <1>4, BufferAssumption

-----------------------------------------------------------------------------
\* The inductive invariant: where the pointers and the laps stand to each
\* other, from which the computed sizes follow, and what the slots hold.
IInv ==
    /\ BufferTypeOK
    /\ Behind(readPtr, readBufferTraversals)
    /\ Behind(peekPtr, peekBufferTraversals)
    /\ PeekSize <= ReadSize
    /\ ReadSize <= nWritten
    /\ UnreadIntact
    /\ NoLostWakeup

\* The sizes the code computes are the distances of the positions.
LEMMA Sizes ==
    ASSUME IInv
    PROVE  /\ ReadSize \in 0 .. BufSz
           /\ PeekSize \in 0 .. BufSz
           /\ PeekSize <= ReadSize
           /\ ReadSize <= nWritten
  BY SizeOfBehind DEF IInv, BufferTypeOK, ReadSize, PeekSize

\* An empty buffer satisfies the invariant.
LEMMA InitInv == BufferInit => IInv
  <1> SUFFICES ASSUME BufferInit PROVE IInv
    OBVIOUS
  <1>1. BufferTypeOK
    <2>1. buf \in [Slots -> Int]
      BY DEF BufferInit, Garbage
    <2>2. call \in [op : {"none", "peek", "read"}, sz : 0 .. MaxRequest, woken : BOOLEAN]
      BY BufferAssumption DEF BufferInit, NoParkedCall
    <2>3. /\ 0 \in Slots /\ 0 \in Counters /\ 0 \in 0 .. MaxBytes
          /\ FALSE \in BOOLEAN
      BY BufferAssumption
    <2>4. QED
      BY <2>1, <2>2, <2>3, Zenon DEF BufferInit, BufferTypeOK
  <1>2. /\ Behind(readPtr, readBufferTraversals)
        /\ Behind(peekPtr, peekBufferTraversals)
    BY BufferAssumption DEF BufferInit, Behind
  <1>3. ReadSize = 0 /\ PeekSize = 0
    BY <1>1, <1>2, SizeOfBehind, BufferAssumption DEF BufferInit, BufferTypeOK, ReadSize, PeekSize
  <1>4. UnreadIntact
    BY <1>1, <1>3, BufferAssumption DEF BufferInit, UnreadIntact, Offset, BufferTypeOK
  <1>5. NoLostWakeup
    BY DEF BufferInit, NoLostWakeup, NoParkedCall
  <1>6. QED
    BY <1>1, <1>2, <1>3, <1>4, <1>5, BufferAssumption DEF IInv, BufferInit

\* The memcpy of a write: the slots of the unread part keep their bytes, the
\* next n slots receive the new ones.
LEMMA StoredBytes ==
    ASSUME IInv, NEW n \in 0 .. BufSz - ReadSize, NEW i \in Slots
    PROVE  /\ Offset(i) < ReadSize => Stored(writePtr, n)[i] = buf[i]
           /\ Offset(i) >= ReadSize /\ Offset(i) < ReadSize + n =>
                 Stored(writePtr, n)[i] = nWritten + Offset(i) - ReadSize
  <1> DEFINE wp == writePtr
             rp == readPtr
  <1>1. /\ n \in 0 .. BufSz /\ ReadSize \in 0 .. BufSz /\ nWritten \in Int
        /\ wp \in Slots /\ rp \in Slots /\ i \in Slots /\ BufSz \in Nat
    <2>1. nWritten \in Int /\ wp \in Slots /\ rp \in Slots
      BY BufferAssumption DEF IInv, BufferTypeOK
    <2>2. ReadSize \in 0 .. BufSz
      BY Sizes
    <2>3. QED
      BY <2>1, <2>2, BufferAssumption
  <1>2. \/ ReadSize = wp - rp /\ rp <= wp
        \/ ReadSize = BufSz + wp - rp /\ wp <= rp
    BY <1>1, SizeOfBehind, SuccRange DEF IInv, BufferTypeOK, Behind, ReadSize
  <1>3. Offset(i) = IF i >= rp THEN i - rp ELSE i - rp + BufSz
    BY DEF Offset
  <1>4. CASE wp + n < BufSz
    <2>1. /\ Piece1(wp, n) = n /\ Piece2At(wp, n) = wp + n
          /\ NextPtr(wp, n) = wp + n
      BY <1>1, <1>4, Pieces, BufferAssumption DEF IInv, BufferTypeOK
    <2>2. Stored(wp, n)[i] = IF wp <= i /\ i < wp + n THEN nWritten + (i - wp) ELSE buf[i]
      BY <1>1, <2>1 DEF Stored
    <2>3. QED
      BY <1>1, <1>2, <1>3, <1>4, <2>2
  <1>5. CASE wp + n >= BufSz
    <2>1. /\ Piece1(wp, n) = BufSz - wp /\ Piece2At(wp, n) = 0
          /\ NextPtr(wp, n) = wp + n - BufSz
      BY <1>1, <1>5, Pieces, BufferAssumption DEF IInv, BufferTypeOK
    <2>2. Stored(wp, n)[i] =
            IF wp <= i THEN nWritten + (i - wp)
            ELSE IF i < wp + n - BufSz THEN nWritten + (BufSz - wp) + i
            ELSE buf[i]
      BY <1>1, <2>1 DEF Stored
    <2>3. QED
      BY <1>1, <1>2, <1>3, <1>5, <2>2
  <1>6. QED
    BY <1>1, <1>4, <1>5

\* A write keeps it: the slots it fills are free and hold the next bytes.
LEMMA WriteInv == ASSUME IInv, NEW n \in 0 .. BufSz + 1, WriteBytes(n)
                  PROVE  IInv' /\ ReadSize' = ReadSize + n /\ PeekSize' = PeekSize + n
  <1>1. /\ n \in 0 .. BufSz - ReadSize
        /\ ReadSize \in 0 .. BufSz /\ PeekSize \in 0 .. BufSz
        /\ PeekSize <= ReadSize /\ ReadSize <= nWritten
    BY Sizes, BufferAssumption DEF WriteBytes, AvailableWriteSize
  <1>2. /\ Behind(readPtr, readBufferTraversals)'
        /\ ReadSize' = ReadSize + n
        /\ Behind(peekPtr, peekBufferTraversals)'
        /\ PeekSize' = PeekSize + n
    <2>1. /\ writePtr \in Slots /\ readPtr \in Slots /\ peekPtr \in Slots
          /\ writeBufferTraversals \in Counters
          /\ readBufferTraversals \in Counters
          /\ peekBufferTraversals \in Counters
          /\ Behind(readPtr, readBufferTraversals)
          /\ Behind(peekPtr, peekBufferTraversals)
      BY DEF IInv, BufferTypeOK
    <2>2. /\ writePtr' = NextPtr(writePtr, n)
          /\ writeBufferTraversals' = NextLap(writePtr, n, writeBufferTraversals)
          /\ UNCHANGED <<readPtr, peekPtr, readBufferTraversals, peekBufferTraversals>>
      BY DEF WriteBytes
    <2>3. /\ n \in 0 .. BufSz - SizeFrom(readPtr, readBufferTraversals)
          /\ n \in 0 .. BufSz - SizeFrom(peekPtr, peekBufferTraversals)
      BY <1>1, BufferAssumption DEF ReadSize, PeekSize
    <2>4. ASSUME NEW p \in Slots, NEW t \in Counters, Behind(p, t),
                 n \in 0 .. BufSz - SizeFrom(p, t)
          PROVE  Behind(p, t)' /\ SizeFrom(p, t)' = SizeFrom(p, t) + n
      BY <2>1, <2>2, <2>4, WriterAdvance
    <2>5. /\ Behind(readPtr, readBufferTraversals)'
          /\ SizeFrom(readPtr, readBufferTraversals)'
               = SizeFrom(readPtr, readBufferTraversals) + n
      BY <2>1, <2>2, <2>3, <2>4 DEF Behind, SizeFrom
    <2>6. /\ Behind(peekPtr, peekBufferTraversals)'
          /\ SizeFrom(peekPtr, peekBufferTraversals)'
               = SizeFrom(peekPtr, peekBufferTraversals) + n
      BY <2>1, <2>2, <2>3, <2>4 DEF Behind, SizeFrom
    <2>7. QED
      BY <2>5, <2>6 DEF ReadSize, PeekSize
  <1>4. BufferTypeOK'
    <2>1. n \in 0 .. BufSz
      BY <1>1, BufferAssumption
    <2>2. writePtr' \in Slots /\ writeBufferTraversals' \in Counters
      BY <2>1, Pieces DEF IInv, BufferTypeOK, WriteBytes
    <2>3. buf' \in [Slots -> Int]
      <3>1. /\ Piece1(writePtr, n) \in Int /\ Piece2At(writePtr, n) \in Int
            /\ writePtr \in Int /\ nWritten \in Int /\ BufSz \in Int
        <4>1. /\ writePtr \in Slots /\ nWritten \in Int
              /\ writeBufferTraversals \in Counters
          BY DEF IInv, BufferTypeOK
        <4>2. writePtr + n < BufSz \/ writePtr + n >= BufSz
          BY <2>1, <4>1, BufferAssumption
        <4>3. /\ Piece1(writePtr, n) \in Int /\ Piece2At(writePtr, n) \in Int
          BY <2>1, <4>1, <4>2, BufferAssumption DEF Piece1, Piece2At, AtEnd, Least, Slots
        <4>4. QED
          BY <4>1, <4>3, BufferAssumption
      <3>2. ASSUME NEW i \in Slots PROVE Stored(writePtr, n)[i] \in Int
        <4>1. buf[i] \in Int
          BY <3>2 DEF IInv, BufferTypeOK
        <4>2. i \in Int
          BY <3>1, <3>2 DEF Slots
        <4>3. /\ nWritten + (i - writePtr) \in Int
              /\ nWritten + Piece1(writePtr, n) + (i - Piece2At(writePtr, n)) \in Int
          BY <3>1, <4>2
        <4>4. Stored(writePtr, n)[i] \in {nWritten + (i - writePtr), buf[i],
                  nWritten + Piece1(writePtr, n) + (i - Piece2At(writePtr, n))}
          BY <3>2, Zenon DEF Stored
        <4>5. QED
          BY <4>1, <4>3, <4>4, Zenon
      <3>3. buf' = Stored(writePtr, n)
        BY DEF WriteBytes
      <3>4. QED
        BY <3>2, <3>3 DEF Stored
    <2>4. call' \in [op : {"none", "peek", "read"}, sz : 0 .. MaxRequest, woken : BOOLEAN]
      BY DEF IInv, BufferTypeOK, WriteBytes, Signal
    <2>5. QED
      BY <2>1, <2>2, <2>3, <2>4, BufferAssumption DEF IInv, BufferTypeOK, WriteBytes
  <1>5. UnreadIntact'
    <2> SUFFICES ASSUME NEW i \in Slots, Offset(i)' < ReadSize'
                 PROVE  buf'[i] = nWritten' - ReadSize' + Offset(i)'
      BY DEF UnreadIntact
    <2>1. Offset(i)' = Offset(i) /\ Offset(i) \in Int
      BY BufferAssumption DEF WriteBytes, Offset, IInv, BufferTypeOK
    <2>2. buf'[i] = Stored(writePtr, n)[i] /\ nWritten' = nWritten + n /\ nWritten \in Int
      BY DEF WriteBytes, IInv, BufferTypeOK
    <2>3. CASE Offset(i) < ReadSize
      BY <1>1, <1>2, <2>1, <2>2, <2>3, StoredBytes DEF IInv, UnreadIntact
    <2>4. CASE Offset(i) >= ReadSize
      BY <1>1, <1>2, <2>1, <2>2, <2>4, StoredBytes
    <2>5. QED
      BY <1>1, <2>1, <2>3, <2>4
  <1>6. NoLostWakeup'
    BY DEF WriteBytes, Signal, NoLostWakeup, IInv, BufferTypeOK
  <1>7. QED
    BY <1>1, <1>2, <1>4, <1>5, <1>6, BufferAssumption DEF IInv, WriteBytes, BufferTypeOK

\* A peek moves the peek position only, by what it returns.
LEMMA PeekInv == ASSUME IInv, NEW sz \in 0 .. MaxRequest, CopyPeek(sz),
                        call' = NoParkedCall
                 PROVE  /\ IInv'
                        /\ PeekSize' = PeekSize - Least(PeekSize, sz)
                        /\ ReadSize' = ReadSize
  <1> DEFINE n == Least(PeekSize, sz)
  <1>1. /\ n \in 0 .. PeekSize
        /\ ReadSize \in 0 .. BufSz /\ PeekSize \in 0 .. BufSz
        /\ PeekSize <= ReadSize /\ ReadSize <= nWritten
        /\ nWritten \in Int
    BY Sizes, BufferAssumption, SMTT(30) DEF IInv, BufferTypeOK
  <1>2. /\ writePtr \in Slots /\ readPtr \in Slots /\ peekPtr \in Slots
        /\ writeBufferTraversals \in Counters /\ readBufferTraversals \in Counters
        /\ peekBufferTraversals \in Counters
        /\ Behind(readPtr, readBufferTraversals)
        /\ Behind(peekPtr, peekBufferTraversals)
    BY DEF IInv, BufferTypeOK
  <1>3. /\ peekPtr' = NextPtr(peekPtr, n)
        /\ peekBufferTraversals' = NextLap(peekPtr, n, peekBufferTraversals)
        /\ UNCHANGED <<buf, writePtr, readPtr, writeBufferTraversals,
                       readBufferTraversals, disabled, nWritten>>
    BY DEF CopyPeek
  <1>4. n \in 0 .. SizeFrom(peekPtr, peekBufferTraversals)
    BY <1>1 DEF PeekSize
  <1>5. /\ Behind(NextPtr(peekPtr, n), NextLap(peekPtr, n, peekBufferTraversals))
        /\ SizeFrom(NextPtr(peekPtr, n), NextLap(peekPtr, n, peekBufferTraversals))
             = PeekSize - n
    BY <1>2, <1>4, ReaderAdvance DEF PeekSize
  <1>6. Behind(peekPtr, peekBufferTraversals)' /\ PeekSize' = PeekSize - n
    BY <1>3, <1>5 DEF Behind, PeekSize, SizeFrom
  <1>7. Behind(readPtr, readBufferTraversals)' /\ ReadSize' = ReadSize
    BY <1>2, <1>3 DEF Behind, ReadSize, SizeFrom
  <1>8. UnreadIntact'
    BY <1>3, <1>7 DEF IInv, UnreadIntact, Offset
  <1>9. BufferTypeOK'
    <2>1. peekPtr' \in Slots /\ peekBufferTraversals' \in Counters
      <3>1. n \in 0 .. BufSz
        BY <1>1, BufferAssumption
      <3>2. QED
        BY <3>1, <1>2, <1>3, Pieces
    <2>2. call' \in [op : {"none", "peek", "read"}, sz : 0 .. MaxRequest, woken : BOOLEAN]
      BY BufferAssumption DEF NoParkedCall
    <2>3. QED
      BY <1>3, <2>1, <2>2, Zenon DEF IInv, BufferTypeOK
  <1>10. NoLostWakeup'
    BY DEF NoLostWakeup, NoParkedCall
  <1>11. QED
    BY <1>1, <1>3, <1>6, <1>7, <1>8, <1>9, <1>10 DEF IInv

\* A read moves the read position by what it returns, and the peek position to
\* it; the slots it leaves behind are free to be overwritten.
LEMMA ReadInv == ASSUME IInv, NEW sz \in 0 .. MaxRequest, CopyRead(sz),
                        call' = NoParkedCall
                 PROVE  /\ IInv'
                        /\ ReadSize' = ReadSize - Least(ReadSize, sz)
                        /\ PeekSize' = ReadSize'
  <1> DEFINE n == Least(ReadSize, sz)
  <1>1. /\ n \in 0 .. ReadSize /\ n \in 0 .. BufSz
        /\ ReadSize \in 0 .. BufSz
        /\ ReadSize <= nWritten
        /\ nWritten \in Int /\ BufSz \in Nat
    BY Sizes, BufferAssumption, SMTT(30) DEF IInv, BufferTypeOK
  <1>2. /\ writePtr \in Slots /\ readPtr \in Slots
        /\ writeBufferTraversals \in Counters /\ readBufferTraversals \in Counters
        /\ Behind(readPtr, readBufferTraversals)
    BY DEF IInv, BufferTypeOK
  <1>3. /\ readPtr' = NextPtr(readPtr, n)
        /\ readBufferTraversals' = NextLap(readPtr, n, readBufferTraversals)
        /\ peekPtr' = readPtr'
        /\ peekBufferTraversals' = readBufferTraversals'
        /\ UNCHANGED <<buf, writePtr, writeBufferTraversals, disabled, nWritten>>
    BY DEF CopyRead
  <1>4. n \in 0 .. SizeFrom(readPtr, readBufferTraversals)
    BY <1>1 DEF ReadSize
  <1>5. /\ Behind(NextPtr(readPtr, n), NextLap(readPtr, n, readBufferTraversals))
        /\ SizeFrom(NextPtr(readPtr, n), NextLap(readPtr, n, readBufferTraversals))
             = ReadSize - n
    BY <1>2, <1>4, ReaderAdvance DEF ReadSize
  <1>6. Behind(readPtr, readBufferTraversals)' /\ ReadSize' = ReadSize - n
    BY <1>3, <1>5 DEF Behind, ReadSize, SizeFrom
  <1>7. Behind(peekPtr, peekBufferTraversals)' /\ PeekSize' = ReadSize - n
    BY <1>3, <1>5 DEF Behind, PeekSize, SizeFrom
  <1>8. readPtr' \in Slots /\ readBufferTraversals' \in Counters
    BY <1>1, <1>2, <1>3, Pieces
  <1>9. BufferTypeOK'
    <2>1. call' \in [op : {"none", "peek", "read"}, sz : 0 .. MaxRequest, woken : BOOLEAN]
      BY BufferAssumption DEF NoParkedCall
    <2>2. QED
      BY <1>3, <1>8, <2>1, Zenon DEF IInv, BufferTypeOK
  <1>10. UnreadIntact'
    <2> SUFFICES ASSUME NEW i \in Slots, Offset(i)' < ReadSize'
                 PROVE  buf'[i] = nWritten' - ReadSize' + Offset(i)'
      BY DEF UnreadIntact
    <2>1. /\ i \in Int /\ 0 <= i /\ i < BufSz
          /\ readPtr \in Int /\ 0 <= readPtr /\ readPtr < BufSz
      BY <1>1, <1>2
    <2>2. readPtr' = IF readPtr + n < BufSz THEN readPtr + n ELSE readPtr + n - BufSz
      <3> HIDE DEF n
      <3>1. CASE readPtr + n < BufSz
        BY <1>1, <1>2, <1>3, <3>1, Pieces
      <3>2. CASE readPtr + n >= BufSz
        BY <1>1, <1>2, <1>3, <2>1, <3>2, Pieces
      <3>3. QED
        BY <1>1, <2>1, <3>1, <3>2
    <2>3. Offset(i) = Offset(i)' + n
      BY <1>1, <1>6, <2>1, <2>2 DEF Offset
    <2>4. Offset(i)' \in Int
      BY <1>1, <2>1, <2>2 DEF Offset
    <2>5. buf[i] = nWritten - ReadSize + Offset(i)
      BY <1>1, <1>6, <2>3, <2>4 DEF IInv, UnreadIntact
    <2>6. QED
      BY <1>1, <1>3, <1>6, <2>3, <2>4, <2>5
  <1>11. NoLostWakeup'
    BY DEF NoLostWakeup, NoParkedCall
  <1>12. QED
    BY <1>1, <1>3, <1>6, <1>7, <1>9, <1>10, <1>11 DEF IInv

\* A call that is refused changes what it returns only.
LEMMA RefusalInv == ASSUME IInv, UNCHANGED <<buf, pointers, disabled, call, nWritten>>
                    PROVE  IInv'
  BY DEF pointers, IInv, BufferTypeOK, Behind, ReadSize, PeekSize, SizeFrom, UnreadIntact, Offset,
         NoLostWakeup, Used

\* Every step keeps it.
LEMMA NextInv == IInv /\ [BufferNext]_bufferVars => IInv'
  <1> SUFFICES ASSUME IInv, [BufferNext]_bufferVars PROVE IInv'
    OBVIOUS
  <1>1. ASSUME NEW n \in 0 .. BufSz + 1, cb_write(n) PROVE IInv'
    <2>1. CASE WriteDisabled \/ WriteNoRoom(n)
      BY <2>1, RefusalInv DEF WriteDisabled, WriteNoRoom
    <2>2. CASE WriteBytes(n)
      BY <2>2, WriteInv
    <2>3. QED
      BY <1>1, <2>1, <2>2 DEF cb_write
  <1>2. ASSUME NEW op \in {"peek", "read"}, NEW sz \in 1 .. MaxRequest, cb_read_or_peek(op, sz)
        PROVE  IInv'
    <2>1. call = NoParkedCall /\ sz \in 0 .. MaxRequest
      BY <1>2, BufferAssumption DEF cb_read_or_peek
    <2>2. CASE CallCopies(op, sz)
      BY <2>1, <2>2, PeekInv, ReadInv DEF CallCopies, Copy
    <2>3. CASE CallEnds(op)
      BY <2>3, RefusalInv DEF CallEnds
    <2>4. CASE CallWaits(op, sz)
      <3>1. call' \in [op : {"none", "peek", "read"}, sz : 0 .. MaxRequest, woken : BOOLEAN]
        BY <2>1, <2>4 DEF CallWaits
      <3>2. NoLostWakeup'
        BY <2>4 DEF CallWaits, NoLostWakeup, Used, ReadSize, PeekSize, SizeFrom, pointers
      <3>3. QED
        BY <2>4, <3>1, <3>2 DEF CallWaits, pointers, IInv, BufferTypeOK, Behind, ReadSize, PeekSize,
                  SizeFrom, UnreadIntact, Offset
    <2>5. QED
      BY <1>2, <2>2, <2>3, <2>4 DEF cb_read_or_peek
  <1>3. CASE CallReturns
    <2>1. call.sz \in 0 .. MaxRequest
      BY DEF IInv, BufferTypeOK
    <2>2. QED
      BY <1>3, <2>1, PeekInv, ReadInv DEF CallReturns, Copy
  <1>4. CASE WakesSpuriously
    <2>1. call' \in [op : {"none", "peek", "read"}, sz : 0 .. MaxRequest, woken : BOOLEAN]
      BY <1>4 DEF WakesSpuriously, IInv, BufferTypeOK
    <2>2. NoLostWakeup'
      BY <1>4 DEF WakesSpuriously, NoLostWakeup, IInv, BufferTypeOK
    <2>3. QED
      BY <1>4, <2>1, <2>2 DEF WakesSpuriously, pointers, IInv, BufferTypeOK, Behind, ReadSize, PeekSize,
                  SizeFrom, UnreadIntact, Offset
  <1>5. CASE cb_disable
    <2>1. call' \in [op : {"none", "peek", "read"}, sz : 0 .. MaxRequest, woken : BOOLEAN]
      BY <1>5 DEF cb_disable, Signal, IInv, BufferTypeOK
    <2>2. NoLostWakeup'
      BY <1>5 DEF cb_disable, Signal, NoLostWakeup, IInv, BufferTypeOK
    <2>3. QED
      BY <1>5, <2>1, <2>2 DEF cb_disable, pointers, IInv, BufferTypeOK, Behind, ReadSize, PeekSize,
                  SizeFrom, UnreadIntact, Offset
  <1>6. CASE UNCHANGED bufferVars
    BY <1>6, RefusalInv DEF bufferVars
  <1>7. QED
    BY <1>1, <1>2, <1>3, <1>4, <1>5, <1>6 DEF BufferNext

\* The buffer's state keeps the inductive invariant in every behaviour.
THEOREM Invariance == BufferSpec => []IInv
  BY InitInv, NextInv, PTL DEF BufferSpec

\* cb_read_size and the peek size stay within the buffer, in order, across
\* every wrap (EBPStreamBuffer.c:390-404).
THEOREM SizesStayInOrder == BufferSpec => []SizesInOrder
  <1>1. IInv => SizesInOrder
    BY Sizes, BufferAssumption DEF SizesInOrder
  <1>2. QED
    BY <1>1, Invariance, PTL

\* The types of the buffer's variables.
THEOREM TypeCorrect == BufferSpec => []BufferTypeOK
  <1>1. IInv => BufferTypeOK
    BY DEF IInv
  <1>2. QED
    BY <1>1, Invariance, PTL

\* No byte is overwritten before it was read (EBPStreamBuffer.c:293-334).
THEOREM UnreadStaysIntact == BufferSpec => []UnreadIntact
  <1>1. IInv => UnreadIntact
    BY DEF IInv
  <1>2. QED
    BY <1>1, Invariance, PTL

\* The reader is never asleep over bytes or over a disabled buffer with no
\* signal pending (EBPStreamBuffer.c:175-202).
THEOREM WakeupsAreNotLost == BufferSpec => []NoLostWakeup
  <1>1. IInv => NoLostWakeup
    BY DEF IInv
  <1>2. QED
    BY <1>1, Invariance, PTL

-----------------------------------------------------------------------------
\* What memcpy takes from the unread part are the bytes of their places in the
\* stream, starting at the position of the pointer.
LEMMA FetchedBytes ==
    ASSUME IInv, NEW p \in Slots, NEW t \in Counters, Behind(p, t),
           SizeFrom(p, t) <= ReadSize,
           NEW n \in 0 .. SizeFrom(p, t)
    PROVE  Fetched(p, n) = [j \in 0 .. n - 1 |-> nWritten - SizeFrom(p, t) + j]
  <1> SUFFICES ASSUME NEW j \in 0 .. n - 1
               PROVE  buf[IF j < Piece1(p, n) THEN p + j ELSE Piece2At(p, n) + j - Piece1(p, n)]
                        = nWritten - SizeFrom(p, t) + j
    BY DEF Fetched
  <1> DEFINE i == IF p + j < BufSz THEN p + j ELSE p + j - BufSz
  <1>1. /\ ReadSize \in 0 .. BufSz /\ SizeFrom(p, t) \in 0 .. BufSz
        /\ BufSz \in Nat \ {0} /\ nWritten \in Int
        /\ writePtr \in Slots /\ readPtr \in Slots
    <2>1. writePtr \in Slots /\ readPtr \in Slots /\ writeBufferTraversals \in Counters
      BY DEF IInv, BufferTypeOK
    <2>2. nWritten \in Int
      BY DEF IInv, BufferTypeOK
    <2>3. QED
      BY <2>1, <2>2, Sizes, SizeOfBehind, BufferAssumption
  <1>2. n \in 0 .. BufSz /\ j \in 0 .. BufSz - 1
    BY <1>1
  <1>3. i = IF j < Piece1(p, n) THEN p + j ELSE Piece2At(p, n) + j - Piece1(p, n)
    <2>1. CASE p + n < BufSz
      BY <1>1, <1>2, <2>1, Pieces
    <2>2. CASE p + n >= BufSz
      <3>1. Piece1(p, n) = BufSz - p /\ Piece2At(p, n) = 0
        BY <1>2, <2>2, Pieces
      <3>2. QED
        BY <1>1, <1>2, <3>1
    <2>3. QED
      BY <1>1, <1>2, <2>1, <2>2
  <1>4. i \in Slots
    BY <1>1, <1>2
  <1>5. \/ SizeFrom(p, t) = writePtr - p /\ p <= writePtr
        \/ SizeFrom(p, t) = BufSz + writePtr - p /\ writePtr <= p
    BY <1>1, SizeOfBehind DEF Behind, IInv, BufferTypeOK
  <1>6. \/ ReadSize = writePtr - readPtr /\ readPtr <= writePtr
        \/ ReadSize = BufSz + writePtr - readPtr /\ writePtr <= readPtr
    BY <1>1, SizeOfBehind DEF Behind, IInv, BufferTypeOK, ReadSize
  <1>7. Offset(i) = ReadSize - SizeFrom(p, t) + j
    <2> DEFINE size == SizeFrom(p, t)
    <2>1. /\ size \in Int /\ ReadSize \in Int /\ size <= ReadSize
          /\ j \in Int /\ 0 <= j /\ j < size
      BY <1>1, <1>2
    <2> SUFFICES Offset(i) = ReadSize - size + j
      OBVIOUS
    <2> HIDE DEF size
    <2>2. Offset(i) = IF i >= readPtr THEN i - readPtr ELSE i - readPtr + BufSz
      BY DEF Offset
    <2>3. CASE size = writePtr - p /\ p <= writePtr
      <3>1. i = p + j
        BY <1>1, <2>1, <2>3
      <3>2. QED
        BY <1>1, <1>6, <2>1, <2>2, <2>3, <3>1
    <2>4. CASE size = BufSz + writePtr - p /\ writePtr <= p
      BY <1>1, <1>6, <2>1, <2>2, <2>4
    <2>5. QED
      BY <1>5, <2>3, <2>4 DEF size
  <1>8. Offset(i) < ReadSize
    BY <1>1, <1>2, <1>7
  <1>9. buf[i] = nWritten - ReadSize + Offset(i)
    BY <1>4, <1>8 DEF IInv, UnreadIntact
  <1>10. QED
    BY <1>1, <1>2, <1>3, <1>7, <1>9

\* A step that leaves the pointers and the ghost count alone leaves the
\* stream's positions alone.
LEMMA SamePositions == ASSUME UNCHANGED <<pointers, nWritten>>
                       PROVE  ReadSize' = ReadSize /\ PeekSize' = PeekSize
  BY DEF pointers, ReadSize, PeekSize, SizeFrom

\* The abstract positions are counts of bytes.
LEMMA Types ==
    ASSUME IInv
    PROVE  /\ nWritten \in Int /\ disabled \in BOOLEAN /\ BufSz \in Int
           /\ readPtr \in Slots /\ readBufferTraversals \in Counters
           /\ peekPtr \in Slots /\ peekBufferTraversals \in Counters
           /\ Behind(readPtr, readBufferTraversals)
           /\ Behind(peekPtr, peekBufferTraversals)
  BY BufferAssumption DEF IInv, BufferTypeOK

\* A cb_write is a Write of the stream, accepted or refused.
LEMMA WriteRefines == ASSUME IInv, NEW n \in 0 .. BufSz + 1, cb_write(n)
                      PROVE  Stream!Write(n)
  <1>1. /\ ReadSize \in Int /\ PeekSize \in Int /\ nWritten \in Int /\ BufSz \in Int
        /\ disabled \in BOOLEAN
        /\ nWritten - (nWritten - ReadSize) = ReadSize
    BY Sizes, Types, BufferAssumption
  <1>2. CASE WriteDisabled
    BY <1>1, <1>2, SamePositions
       DEF WriteDisabled, Stream!Write, Return, Stream!Return, NoBytes, Stream!NoBytes
  <1>3. CASE WriteNoRoom(n)
    BY <1>1, <1>3, SamePositions
       DEF WriteNoRoom, AvailableWriteSize, Stream!Write, Return, Stream!Return, NoBytes, Stream!NoBytes
  <1>4. CASE WriteBytes(n)
    <2>1. ReadSize' = ReadSize + n /\ PeekSize' = PeekSize + n
      BY <1>4, WriteInv
    <2>2. nWritten' - ReadSize' = nWritten - ReadSize /\ nWritten' - PeekSize' = nWritten - PeekSize
      BY <1>1, <1>4, <2>1 DEF WriteBytes
    <2>3. QED
      BY <1>1, <1>4, <2>2
         DEF WriteBytes, AvailableWriteSize, Stream!Write, Return, Stream!Return, NoBytes, Stream!NoBytes
  <1>5. QED
    BY <1>2, <1>3, <1>4 DEF cb_write

\* The copy of a peek or a read is a Peek or a Read of the stream.
LEMMA CopyRefines == ASSUME IInv, NEW op \in {"peek", "read"}, NEW sz \in 0 .. MaxRequest,
                            Copy(op, sz), call' = NoParkedCall
                     PROVE  Stream!Read(sz) \/ Stream!Peek(sz)
  <1>1. /\ ReadSize \in 0 .. BufSz /\ PeekSize \in 0 .. BufSz /\ PeekSize <= ReadSize
        /\ nWritten \in Int /\ BufSz \in Int
        /\ nWritten - (nWritten - ReadSize) = ReadSize
        /\ nWritten - (nWritten - PeekSize) = PeekSize
    BY Sizes, Types, BufferAssumption
  <1>2. CASE op = "peek"
    <2> DEFINE n == Least(PeekSize, sz)
    <2>1. CopyPeek(sz) /\ UNCHANGED <<disabled, nWritten>>
      BY <1>2 DEF Copy, CopyPeek
    <2>2. PeekSize' = PeekSize - n /\ ReadSize' = ReadSize
      BY <2>1, PeekInv
    <2>3. Fetched(peekPtr, n) = [j \in 0 .. n - 1 |-> nWritten - PeekSize + j]
      <3>1. n \in 0 .. PeekSize
        BY <1>1
      <3>2. QED
        BY <1>1, <3>1, Types, FetchedBytes DEF PeekSize
    <2>4. ret' = Stream!Return("peek", n, Stream!Bytes(nWritten - PeekSize, n))
      BY <2>1, <2>3 DEF CopyPeek, Return, Stream!Return, Stream!Bytes
    <2>5. n = Stream!Least(sz, nWritten - (nWritten - PeekSize))
      BY <1>1 DEF Stream!Least
    <2>6. nWritten' - PeekSize' = nWritten - PeekSize + n
      BY <1>1, <2>1, <2>2
    <2>7. Stream!Peek(sz)
      BY <2>1, <2>2, <2>4, <2>5, <2>6 DEF Stream!Peek
    <2>8. QED
      BY <2>7
  <1>3. CASE op = "read"
    <2> DEFINE n == Least(ReadSize, sz)
    <2>1. CopyRead(sz) /\ UNCHANGED <<disabled, nWritten>>
      BY <1>3 DEF Copy, CopyRead
    <2>2. ReadSize' = ReadSize - n /\ PeekSize' = ReadSize'
      BY <2>1, ReadInv
    <2>3. Fetched(readPtr, n) = [j \in 0 .. n - 1 |-> nWritten - ReadSize + j]
      <3>1. n \in 0 .. ReadSize
        BY <1>1
      <3>2. /\ SizeFrom(readPtr, readBufferTraversals) = ReadSize
            /\ SizeFrom(readPtr, readBufferTraversals) <= ReadSize
        BY <1>1 DEF ReadSize
      <3>3. n \in 0 .. SizeFrom(readPtr, readBufferTraversals)
        BY <3>1, <3>2
      <3>4. /\ readPtr \in Slots /\ readBufferTraversals \in Counters
            /\ Behind(readPtr, readBufferTraversals)
        BY Types
      <3> HIDE DEF n
      <3>5. Fetched(readPtr, n)
              = [j \in 0 .. n - 1 |-> nWritten - SizeFrom(readPtr, readBufferTraversals) + j]
        BY <3>2, <3>3, <3>4, FetchedBytes
      <3>6. QED
        BY <3>2, <3>5
    <2>4. ret' = Stream!Return("read", n, Stream!Bytes(nWritten - ReadSize, n))
      BY <2>1, <2>3 DEF CopyRead, Return, Stream!Return, Stream!Bytes
    <2>5. n = Stream!Least(sz, nWritten - (nWritten - ReadSize))
      BY <1>1 DEF Stream!Least
    <2>6. nWritten' - ReadSize' = nWritten - ReadSize + n
      BY <1>1, <2>1, <2>2
    <2>7. Stream!Read(sz)
      BY <2>1, <2>2, <2>4, <2>5, <2>6 DEF Stream!Read
    <2>8. QED
      BY <2>7
  <1>4. QED
    BY <1>2, <1>3

\* Every step is a step of the stream or leaves it unchanged.
LEMMA StepRefines == IInv /\ [BufferNext]_bufferVars => [Stream!Next]_(Stream!vars)
  <1> SUFFICES ASSUME IInv, [BufferNext]_bufferVars PROVE Stream!Next \/ UNCHANGED Stream!vars
    OBVIOUS
  <1>1. ASSUME NEW n \in 0 .. BufSz + 1, cb_write(n) PROVE Stream!Next
    BY <1>1, WriteRefines DEF Stream!Next
  <1>2. ASSUME NEW op \in {"peek", "read"}, NEW sz \in 0 .. MaxRequest,
               Copy(op, sz), call' = NoParkedCall
        PROVE  Stream!Next
    BY <1>2, CopyRefines DEF Stream!Next
  <1>3. ASSUME NEW op \in {"peek", "read"}, NEW sz \in 1 .. MaxRequest, cb_read_or_peek(op, sz)
        PROVE  Stream!Next \/ UNCHANGED Stream!vars
    <2>1. CASE CallCopies(op, sz)
      BY <1>2, <1>3, <2>1, BufferAssumption DEF CallCopies, cb_read_or_peek
    <2>2. CASE CallEnds(op)
      <3>1. nWritten \in Int /\ ReadSize \in Int /\ PeekSize \in Int
        BY Sizes, Types, BufferAssumption
      <3>2. Stream!EndOfStream(op)
        BY <2>2, <3>1, SamePositions
           DEF CallEnds, Used, Stream!EndOfStream, Return, Stream!Return, NoBytes, Stream!NoBytes
      <3>3. QED
        BY <3>2 DEF Stream!Next
    <2>3. CASE CallWaits(op, sz)
      BY <2>3, SamePositions DEF CallWaits, Stream!vars
    <2>4. QED
      BY <1>3, <2>1, <2>2, <2>3 DEF cb_read_or_peek
  <1>4. CASE CallReturns
    <2>1. call.op \in {"peek", "read"} /\ call.sz \in 0 .. MaxRequest
      BY <1>4 DEF CallReturns, IInv, BufferTypeOK
    <2>2. QED
      BY <1>2, <1>4, <2>1 DEF CallReturns
  <1>5. CASE WakesSpuriously
    BY <1>5, SamePositions DEF WakesSpuriously, Stream!vars
  <1>6. CASE cb_disable
    <2>1. Stream!Close
      BY <1>6, SamePositions
         DEF cb_disable, Stream!Close, Return, Stream!Return, NoBytes, Stream!NoBytes
    <2>2. QED
      BY <2>1 DEF Stream!Next
  <1>7. CASE UNCHANGED bufferVars
    BY <1>7, SamePositions DEF bufferVars, Stream!vars
  <1>8. QED
    BY <1>1, <1>3, <1>4, <1>5, <1>6, <1>7 DEF BufferNext

\* An empty buffer is an empty stream.
LEMMA InitRefines == BufferInit => Stream!Init
  <1> SUFFICES ASSUME BufferInit PROVE Stream!Init
    OBVIOUS
  <1>1. IInv
    BY InitInv
  <1>2. ReadSize = 0 /\ PeekSize = 0
    BY <1>1, Sizes DEF BufferInit
  <1>3. QED
    BY <1>2 DEF BufferInit, Stream!Init, Return, Stream!Return, NoBytes, Stream!NoBytes

\* The circular buffer implements the byte stream: bytes come out as they went
\* in, whatever the sizes, the wraps and the interleaving of peeks, reads,
\* writes and the disabling (EBPStreamBuffer.c:155-353).
THEOREM Refinement == BufferSpec => ImplementsByteStream
  BY InitRefines, StepRefines, Invariance, PTL DEF BufferSpec, ImplementsByteStream, Stream!Spec

-----------------------------------------------------------------------------
(* The threads.                                                             *)

\* The inductive invariant.

\* Where the threads are.
PlacesOK ==
    /\ main \in {"preread", "menu", "joining", "freed"}
    /\ socket \in [pc : {"loop", "select", "write", "exited"},
                   availableSpace : 0 .. BufSz, received : 0 .. BufSz]
    /\ reader \in {"preread", "preread_over", "ingest", "ingest_over"}
    /\ emptyWrite \in BOOLEAN

\* The space the socket thread counts on is there: a reader only adds to it.
SpaceIsThere ==
    /\ socket.pc = "select" => socket.availableSpace <= AvailableWriteSize
    /\ SpaceStillThere

\* The preread thread lives before the menu, and nothing is read before it.
PrereadFirst ==
    /\ main = "preread" <=> reader \in {"preread", "preread_over"}
    /\ PrereadTakesNothing

\* The buffer is disabled by the user's "x" only.
DisabledByExit == disabled <=> main \in {"joining", "freed"}

\* The call that is parked is that of the thread that lives.
CallIsOfReader ==
    \/ call = NoParkedCall
    \/ /\ call.sz = MaxRequest
       /\ \/ call.op = "peek" /\ reader = "preread"
          \/ call.op = "read" /\ reader = "ingest"

\* A read is woken for data or for the end, or by an empty write.
WokenForAReason ==
    call.op = "read" /\ call.woken /\ ~emptyWrite => disabled \/ ReadSize > 0

IngestIInv ==
    /\ IInv
    /\ PlacesOK
    /\ SpaceIsThere
    /\ PrereadFirst
    /\ DisabledByExit
    /\ CallIsOfReader
    /\ WokenForAReason
    /\ EndsWhenDisabled

-----------------------------------------------------------------------------
\* What the calls of the threads do to the buffer.

\* What the proofs need to know of the buffer between the steps.
LEMMA BufferFacts ==
    ASSUME IInv
    PROVE  /\ ReadSize \in 0 .. BufSz
           /\ AvailableWriteSize = BufSz - ReadSize
           /\ nWritten \in Int
           /\ disabled \in BOOLEAN
           /\ call \in [op : {"none", "peek", "read"}, sz : 0 .. MaxRequest, woken : BOOLEAN]
  <1>1. /\ nWritten \in Int /\ disabled \in BOOLEAN
        /\ call \in [op : {"none", "peek", "read"}, sz : 0 .. MaxRequest, woken : BOOLEAN]
    BY BufferAssumption DEF IInv, BufferTypeOK
  <1>2. QED
    BY <1>1, Sizes DEF AvailableWriteSize

\* A step that leaves the buffer alone leaves all that depends on it alone.
LEMMA BufferAlone ==
    ASSUME IInv, UNCHANGED bufferVars
    PROVE  /\ IInv'
           /\ ReadSize' = ReadSize
           /\ AvailableWriteSize' = AvailableWriteSize
           /\ UNCHANGED <<call, disabled, nWritten>>
  <1>1. IInv'
    BY NextInv
  <1>2. QED
    BY <1>1, SamePositions DEF bufferVars, pointers, AvailableWriteSize

\* pthread_cond_signal changes nothing but that a parked call is woken.
LEMMA SignalStep ==
    ASSUME call \in [op : {"none", "peek", "read"}, sz : 0 .. MaxRequest, woken : BOOLEAN],
           Signal
    PROVE  /\ call'.op = call.op /\ call'.sz = call.sz
           /\ call = NoParkedCall => call' = NoParkedCall
           /\ call.op # "none" => call'.woken
  <1>1. CASE call.op = "none"
    BY <1>1 DEF Signal
  <1>2. CASE call.op # "none"
    <2>1. call' = [call EXCEPT !.woken = TRUE]
      BY <1>2, Zenon DEF Signal
    <2>2. call # NoParkedCall
      BY <1>2 DEF NoParkedCall
    <2>3. QED
      BY <2>1, <2>2
  <1>3. QED
    BY <1>1, <1>2

\* cb_write of what there is room for: refused once the buffer is disabled, else
\* it adds to the unread part and wakes the reader.
LEMMA WriteStep ==
    ASSUME IInv, NEW n \in 0 .. BufSz, n <= AvailableWriteSize, cb_write(n)
    PROVE  /\ IInv'
           /\ disabled' = disabled
           /\ \/ /\ disabled
                 /\ ret'.code < 0
                 /\ UNCHANGED <<call, nWritten>>
                 /\ ReadSize' = ReadSize
              \/ /\ ~disabled
                 /\ ret'.code = 0
                 /\ nWritten' = nWritten + n
                 /\ ReadSize' = ReadSize + n
                 /\ Signal
  <1>1. n \in 0 .. BufSz + 1
    BY BufferAssumption
  <1>2. IInv'
    BY <1>1, NextInv DEF BufferNext
  <1>3. CASE WriteDisabled
    <2>1. UNCHANGED <<pointers, disabled, call, nWritten>> /\ disabled
      BY <1>3 DEF WriteDisabled
    <2>2. ret'.code < 0
      BY <1>3 DEF WriteDisabled, Return
    <2>3. QED
      BY <1>2, <2>1, <2>2, SamePositions
  <1>4. CASE WriteNoRoom(n)
    BY <1>4, BufferFacts, BufferAssumption DEF WriteNoRoom
  <1>5. CASE WriteBytes(n)
    <2>1. ReadSize' = ReadSize + n
      BY <1>1, <1>5, WriteInv
    <2>2. /\ ~disabled /\ disabled' = disabled /\ nWritten' = nWritten + n /\ Signal
          /\ ret'.code = 0
      BY <1>5 DEF WriteBytes, Return
    <2>3. QED
      BY <1>2, <2>1, <2>2
  <1>6. QED
    BY <1>3, <1>4, <1>5 DEF cb_write

\* What a peek or a read copies out: a peek takes nothing; a read that returns
\* nothing found nothing.
LEMMA CopyStep ==
    ASSUME IInv, NEW op \in {"peek", "read"}, Copy(op, MaxRequest), call' = NoParkedCall
    PROVE  /\ IInv'
           /\ UNCHANGED <<disabled, nWritten>>
           /\ op = "peek" => ReadSize' = ReadSize
           /\ op = "read" => /\ ReadSize' \in 0 .. ReadSize
                             /\ ~(ret'.code > 0) => ReadSize = 0
  <1>1. MaxRequest \in 0 .. MaxRequest /\ MaxRequest > 0 /\ MaxRequest \in Int
    BY BufferAssumption
  <1>2. CASE op = "peek"
    <2>1. CopyPeek(MaxRequest)
      BY <1>2 DEF Copy
    <2>2. IInv' /\ ReadSize' = ReadSize
      BY <1>1, <2>1, PeekInv
    <2>3. UNCHANGED <<disabled, nWritten>>
      BY <2>1 DEF CopyPeek
    <2>4. QED
      BY <1>2, <2>2, <2>3
  <1>3. CASE op = "read"
    <2>1. CopyRead(MaxRequest)
      BY <1>3 DEF Copy
    <2>2. IInv' /\ ReadSize' = ReadSize - Least(ReadSize, MaxRequest)
      BY <1>1, <2>1, ReadInv
    <2>3. ret'.code = Least(ReadSize, MaxRequest) /\ UNCHANGED <<disabled, nWritten>>
      BY <2>1 DEF CopyRead, Return
    <2>4. /\ ReadSize' \in 0 .. ReadSize
          /\ ~(ret'.code > 0) => ReadSize = 0
      BY <1>1, <2>2, <2>3, BufferFacts DEF Least
    <2>5. QED
      BY <1>3, <2>2, <2>3, <2>4
  <1>4. QED
    BY <1>2, <1>3

-----------------------------------------------------------------------------
\* The threads start with an empty buffer.
LEMMA IngestInitInv == IngestInit => IngestIInv
  <1> SUFFICES ASSUME IngestInit PROVE IngestIInv
    OBVIOUS
  <1>1. IInv
    BY InitInv DEF IngestInit
  <1>2. ReadSize = 0 /\ AvailableWriteSize = BufSz /\ nWritten = 0 /\ call = NoParkedCall /\ ~disabled
    BY <1>1, BufferFacts, Sizes, BufferAssumption DEF IngestInit, BufferInit
  <1>3. PlacesOK
    <2>1. socket \in [pc : {"loop", "select", "write", "exited"},
                     availableSpace : 0 .. BufSz, received : 0 .. BufSz]
      BY BufferAssumption DEF IngestInit
    <2>2. QED
      BY <2>1, Zenon DEF IngestInit, PlacesOK
  <1>4. QED
    BY <1>1, <1>2, <1>3 DEF IngestInit, IngestIInv, SpaceIsThere, SpaceStillThere, PrereadFirst,
       PrereadTakesNothing, DisabledByExit, CallIsOfReader, WokenForAReason, NoParkedCall,
       EndsWhenDisabled

\* The steps of the socket thread that leave the buffer alone: it asks for the
\* space there is, and receives no more than it asked for.
LEMMA SocketInv ==
    ASSUME IngestIInv, UNCHANGED <<bufferVars, main, reader, emptyWrite>>,
           socket' \in [pc : {"loop", "select", "write", "exited"},
                        availableSpace : 0 .. BufSz, received : 0 .. BufSz],
           socket'.pc = "select" => socket'.availableSpace <= AvailableWriteSize,
           socket'.pc = "write" => socket'.received <= AvailableWriteSize
    PROVE  IngestIInv'
  BY BufferAlone
     DEF IngestIInv, PlacesOK, SpaceIsThere, SpaceStillThere, PrereadFirst, PrereadTakesNothing,
         DisabledByExit, CallIsOfReader, NoParkedCall, WokenForAReason, EndsWhenDisabled

\* The write finds the room, and wakes the reader over what it wrote.
LEMMA SocketWritesInv == ASSUME IngestIInv, SocketWrites PROVE IngestIInv'
  <1> DEFINE n == socket.received
  <1>1. n \in 0 .. BufSz /\ n <= AvailableWriteSize /\ cb_write(n)
    BY DEF IngestIInv, PlacesOK, SpaceIsThere, SpaceStillThere, SocketWrites
  <1>2. IInv /\ IInv' /\ disabled' = disabled
    BY <1>1, WriteStep DEF IngestIInv
  <1>3. /\ UNCHANGED <<main, reader>>
        /\ emptyWrite' = (emptyWrite \/ (n = 0 /\ ret'.code = 0))
        /\ socket' = [socket EXCEPT !.pc = IF ret'.code < 0 THEN "exited" ELSE "loop"]
    BY DEF SocketWrites
  <1>4. PlacesOK' /\ SpaceIsThere'
    BY <1>3 DEF IngestIInv, PlacesOK, SpaceIsThere, SpaceStillThere
  <1>5. CASE disabled /\ UNCHANGED <<call, nWritten>> /\ ReadSize' = ReadSize /\ ret'.code < 0
    <2>1. emptyWrite' = emptyWrite
      BY <1>3, <1>5 DEF IngestIInv, PlacesOK
    <2>2. QED
      BY <1>2, <1>3, <1>4, <1>5, <2>1 DEF IngestIInv, PrereadFirst, PrereadTakesNothing,
         DisabledByExit, CallIsOfReader, NoParkedCall, WokenForAReason, EndsWhenDisabled
  <1>6. CASE /\ ~disabled /\ ret'.code = 0 /\ Signal
             /\ nWritten' = nWritten + n /\ ReadSize' = ReadSize + n
    <2>1. /\ call'.op = call.op /\ call'.sz = call.sz
          /\ call = NoParkedCall => call' = NoParkedCall
      BY <1>2, <1>6, BufferFacts, SignalStep
    <2>2. PrereadFirst' /\ DisabledByExit' /\ CallIsOfReader'
      BY <1>2, <1>3, <1>6, <2>1 DEF IngestIInv, PrereadFirst, PrereadTakesNothing,
         DisabledByExit, CallIsOfReader
    <2>3. n > 0 \/ emptyWrite'
      <3>1. n = 0 => emptyWrite'
        BY <1>3, <1>6, Zenon
      <3>2. QED
        BY <1>1, <3>1, BufferAssumption
    <2>4. ReadSize' > 0 \/ emptyWrite'
      BY <1>1, <1>2, <1>6, <2>3, BufferFacts
    <2>5. EndsWhenDisabled'
      BY <1>3, <1>6 DEF IngestIInv, EndsWhenDisabled
    <2>6. QED
      BY <1>2, <1>4, <2>2, <2>4, <2>5 DEF IngestIInv, WokenForAReason
  <1>7. QED
    BY <1>1, <1>2, <1>5, <1>6, WriteStep

\* What is left of a call that copies, when the thread acts on what it returned.
LEMMA CopyInv ==
    ASSUME IngestIInv, NEW op \in {"peek", "read"},
           reader = IF op = "peek" THEN "preread" ELSE "ingest",
           Copy(op, MaxRequest), call' = NoParkedCall,
           op = "read" /\ ReadSize = 0 /\ ~emptyWrite => disabled,
           reader' \in After(op, ret'.code),
           UNCHANGED <<main, socket, emptyWrite>>
    PROVE  IngestIInv'
  <1>1. /\ IInv /\ IInv' /\ UNCHANGED <<disabled, nWritten>>
        /\ op = "peek" => ReadSize' = ReadSize
        /\ op = "read" => /\ ReadSize' \in 0 .. ReadSize
                          /\ ~(ret'.code > 0) => ReadSize = 0
    BY CopyStep DEF IngestIInv
  <1>2. ReadSize \in 0 .. BufSz /\ ReadSize' \in 0 .. ReadSize /\ BufSz \in Nat
    BY <1>1, BufferFacts, BufferAssumption
  <1>3. PlacesOK'
    BY DEF IngestIInv, PlacesOK, After
  <1>4. SpaceIsThere'
    <2>1. ASSUME NEW a \in 0 .. BufSz, NEW b \in 0 .. a
          PROVE  BufSz - a <= BufSz - b /\ BufSz - a \in Int /\ BufSz - b \in Int
      BY <1>2
    <2>2. /\ AvailableWriteSize <= AvailableWriteSize'
          /\ AvailableWriteSize \in Int /\ AvailableWriteSize' \in Int
      BY <1>2, <2>1, Zenon DEF AvailableWriteSize
    <2>3. socket.availableSpace \in Int /\ socket.received \in Int
      BY <1>2 DEF IngestIInv, PlacesOK
    <2>4. QED
      BY <2>2, <2>3 DEF IngestIInv, SpaceIsThere, SpaceStillThere
  <1>5. CASE op = "peek"
    <2>1. reader = "preread" /\ reader' \in {"preread", "preread_over"}
      BY <1>5 DEF After
    <2>2. QED
      BY <1>1, <1>3, <1>4, <1>5, <2>1 DEF IngestIInv, PrereadFirst, PrereadTakesNothing,
         DisabledByExit, CallIsOfReader, NoParkedCall, WokenForAReason, EndsWhenDisabled
  <1>6. CASE op = "read"
    <2>1. reader = "ingest" /\ reader' \in {"ingest", "ingest_over"} /\ main # "preread"
      BY <1>6 DEF After, IngestIInv, PrereadFirst
    <2>2. EndsWhenDisabled'
      BY <1>1, <1>2, <1>6 DEF After, EndsWhenDisabled
    <2>3. QED
      BY <1>1, <1>3, <1>4, <2>1, <2>2 DEF IngestIInv, PrereadFirst, PrereadTakesNothing,
         DisabledByExit, CallIsOfReader, NoParkedCall, WokenForAReason
  <1>7. QED
    BY <1>5, <1>6

\* A peek or a read of the thread whose turn it is.
LEMMA CallsInv ==
    ASSUME IngestIInv, NEW op \in {"peek", "read"},
           reader = IF op = "peek" THEN "preread" ELSE "ingest", Calls(op)
    PROVE  IngestIInv'
  <1>1. /\ call = NoParkedCall
        /\ UNCHANGED <<main, socket, emptyWrite>>
        /\ reader' \in IF call'.op = "none" THEN After(op, ret'.code) ELSE {reader}
    BY DEF Calls, cb_read_or_peek
  <1>2. IInv /\ IInv'
    <2>1. MaxRequest \in 1 .. MaxRequest
      BY BufferAssumption
    <2>2. QED
      BY <2>1, NextInv DEF IngestIInv, Calls, BufferNext
  <1>3. CASE CallCopies(op, MaxRequest)
    <2>1. Copy(op, MaxRequest) /\ call' = NoParkedCall /\ Used(op) # 0
      BY <1>1, <1>3 DEF CallCopies
    <2>2. reader' \in After(op, ret'.code)
      BY <1>1, <2>1 DEF NoParkedCall
    <2>3. QED
      BY <1>1, <2>1, <2>2, CopyInv DEF Used
  <1>4. CASE CallEnds(op)
    <2>1. /\ disabled /\ disabled' = disabled /\ call' = NoParkedCall /\ UNCHANGED nWritten
          /\ ReadSize' = ReadSize /\ AvailableWriteSize' = AvailableWriteSize
          /\ Used(op) = 0
      BY <1>1, <1>4, SamePositions DEF CallEnds, AvailableWriteSize
    <2>2. ~(ret'.code > 0)
      BY <1>4 DEF CallEnds, Return
    <2>3. reader' = IF op = "peek" THEN "preread_over" ELSE "ingest_over"
      BY <1>1, <2>1, <2>2 DEF NoParkedCall, After
    <2>4. QED
      BY <1>1, <1>2, <2>1, <2>3 DEF IngestIInv, PlacesOK, SpaceIsThere, SpaceStillThere,
         PrereadFirst, PrereadTakesNothing, DisabledByExit, CallIsOfReader, NoParkedCall,
         WokenForAReason, EndsWhenDisabled, Used
  <1>5. CASE CallWaits(op, MaxRequest)
    <2>1. /\ call' = [op |-> op, sz |-> MaxRequest, woken |-> FALSE]
          /\ UNCHANGED <<disabled, nWritten>>
          /\ ReadSize' = ReadSize /\ AvailableWriteSize' = AvailableWriteSize
      BY <1>5, SamePositions DEF CallWaits, AvailableWriteSize
    <2>2. reader' = reader
      BY <1>1, <2>1
    <2>3. QED
      BY <1>1, <1>2, <2>1, <2>2 DEF IngestIInv, PlacesOK, SpaceIsThere, SpaceStillThere,
         PrereadFirst, PrereadTakesNothing, DisabledByExit, CallIsOfReader,
         WokenForAReason, EndsWhenDisabled
  <1>6. QED
    BY <1>3, <1>4, <1>5 DEF Calls, cb_read_or_peek

\* A parked call that comes back: a read was woken for a reason.
LEMMA ReaderReturnsInv == ASSUME IngestIInv, ReaderReturns PROVE IngestIInv'
  <1>1. call.op # "none" /\ call.woken /\ Copy(call.op, call.sz) /\ call' = NoParkedCall
    BY DEF ReaderReturns, CallReturns
  <1>2. /\ call.op \in {"peek", "read"} /\ call.sz = MaxRequest
        /\ reader = IF call.op = "peek" THEN "preread" ELSE "ingest"
    BY <1>1 DEF IngestIInv, CallIsOfReader, NoParkedCall
  <1>3. call.op = "read" /\ ReadSize = 0 /\ ~emptyWrite => disabled
    BY <1>1 DEF IngestIInv, WokenForAReason
  <1>4. QED
    BY <1>1, <1>2, <1>3, CopyInv DEF ReaderReturns

\* A step that leaves the buffer alone and moves no thread the invariant tells of.
LEMMA MainInv ==
    ASSUME IngestIInv, UNCHANGED <<bufferVars, socket>>, PlacesOK',
           PrereadFirst' /\ DisabledByExit' /\ CallIsOfReader' /\ WokenForAReason',
           EndsWhenDisabled'
    PROVE  IngestIInv'
  BY BufferAlone DEF IngestIInv, SpaceIsThere, SpaceStillThere

\* The ingest thread starts with nothing parked on the buffer.
LEMMA StartsIngestInv == ASSUME IngestIInv, StartsIngest PROVE IngestIInv'
  <1>1. call = NoParkedCall /\ call' = NoParkedCall /\ disabled' = disabled
    BY DEF IngestIInv, CallIsOfReader, StartsIngest, bufferVars
  <1>2. PlacesOK'
    <2>1. emptyWrite' \in BOOLEAN
      BY Zenon DEF StartsIngest
    <2>2. QED
      BY <2>1 DEF StartsIngest, IngestIInv, PlacesOK
  <1>3. QED
    BY <1>1, <1>2, MainInv DEF StartsIngest, IngestIInv, PrereadFirst, PrereadTakesNothing,
       DisabledByExit, CallIsOfReader, WokenForAReason, NoParkedCall, EndsWhenDisabled

\* "x" disables the buffer and wakes the reader, whatever it waits for.
LEMMA ExitsInv == ASSUME IngestIInv, Exits PROVE IngestIInv'
  <1>1. /\ main = "menu" /\ main' = "joining" /\ cb_disable
        /\ UNCHANGED <<socket, reader, emptyWrite>>
    BY DEF Exits
  <1>2. /\ IInv /\ IInv' /\ disabled' /\ Signal
        /\ UNCHANGED <<pointers, nWritten>>
    BY <1>1, NextInv DEF IngestIInv, BufferNext, cb_disable
  <1>3. ReadSize' = ReadSize /\ AvailableWriteSize' = AvailableWriteSize
    BY <1>2, SamePositions DEF AvailableWriteSize
  <1>4. /\ call'.op = call.op /\ call'.sz = call.sz
        /\ call = NoParkedCall => call' = NoParkedCall
    BY <1>2, BufferFacts, SignalStep
  <1>5. EndsWhenDisabled'
    BY <1>1, <1>2, <1>3 DEF IngestIInv, EndsWhenDisabled
  <1>6. QED
    BY <1>1, <1>2, <1>3, <1>4, <1>5 DEF IngestIInv, PlacesOK, SpaceIsThere, SpaceStillThere,
       PrereadFirst, PrereadTakesNothing, DisabledByExit, CallIsOfReader, WokenForAReason

\* Every step of every thread keeps the invariant.
LEMMA IngestNextInv == IngestIInv /\ [IngestNext]_ingestVars => IngestIInv'
  <1> SUFFICES ASSUME IngestIInv, [IngestNext]_ingestVars PROVE IngestIInv'
    OBVIOUS
  <1>1. CASE SocketAsks
    <2>1. AvailableWriteSize \in 0 .. BufSz
      BY BufferFacts, BufferAssumption DEF IngestIInv
    <2>2. /\ socket' = [socket EXCEPT !.pc = "select", !.availableSpace = AvailableWriteSize]
          /\ UNCHANGED <<bufferVars, main, reader, emptyWrite>>
          /\ AvailableWriteSize <= AvailableWriteSize
      BY <1>1, <2>1, BufferAssumption DEF SocketAsks
    <2>3. QED
      BY <2>1, <2>2, SocketInv DEF IngestIInv, PlacesOK
  <1>2. ASSUME NEW n \in 1 .. MaxDatagram, SocketReceives(n) PROVE IngestIInv'
    <2>1. /\ socket.availableSpace \in 0 .. BufSz
          /\ socket.availableSpace <= AvailableWriteSize
          /\ AvailableWriteSize \in 0 .. BufSz
      BY <1>2, BufferFacts, BufferAssumption DEF SocketReceives, IngestIInv, PlacesOK, SpaceIsThere
    <2> DEFINE received == Least(n, socket.availableSpace)
    <2>2. received \in 0 .. BufSz /\ received <= AvailableWriteSize
      BY <2>1, IngestAssumption, BufferAssumption DEF Least
    <2>3. /\ socket' = [socket EXCEPT !.pc = "write", !.received = received]
          /\ UNCHANGED <<bufferVars, main, reader, emptyWrite>>
      BY <1>2, Zenon DEF SocketReceives
    <2> HIDE DEF received
    <2>4. QED
      BY <2>2, <2>3, SocketInv DEF IngestIInv, PlacesOK
  <1>3. CASE SocketTimesOut
    BY <1>3, SocketInv DEF SocketTimesOut, IngestIInv, PlacesOK
  <1>4. CASE SocketWrites
    BY <1>4, SocketWritesInv
  <1>5. CASE SocketFails
    BY <1>5, SocketInv DEF SocketFails, IngestIInv, PlacesOK
  <1>6. CASE Preread
    BY <1>6, CallsInv DEF Preread
  <1>7. CASE Ingest
    BY <1>7, CallsInv DEF Ingest
  <1>8. CASE ReaderReturns
    BY <1>8, ReaderReturnsInv
  <1>9. CASE StartsIngest
    BY <1>9, StartsIngestInv
  <1>10. CASE Exits
    BY <1>10, ExitsInv
  <1>11. CASE Frees
    BY <1>11, MainInv DEF Frees, bufferVars, pointers, IngestIInv, PlacesOK, PrereadFirst,
       PrereadTakesNothing, ReadSize, SizeFrom, DisabledByExit, CallIsOfReader, NoParkedCall,
       WokenForAReason, EndsWhenDisabled
  <1>12. CASE UNCHANGED ingestVars
    BY <1>12, SocketInv DEF ingestVars, IngestIInv, PlacesOK, SpaceIsThere, SpaceStillThere
  <1>13. QED
    BY <1>1, <1>2, <1>3, <1>4, <1>5, <1>6, <1>7, <1>8, <1>9, <1>10, <1>11, <1>12
       DEF IngestNext, Socket, Receives, Reads

-----------------------------------------------------------------------------
\* The threads and the buffer keep the inductive invariant in every behaviour.
THEOREM IngestInvariance == IngestSpec => []IngestIInv
  BY IngestInitInv, IngestNextInv, PTL DEF IngestSpec

\* The types of the variables of the threads and of the buffer.
THEOREM IngestTypeCorrect == IngestSpec => []IngestTypeOK
  <1>1. IngestIInv => IngestTypeOK
    BY DEF IngestIInv, IInv, PlacesOK, IngestTypeOK
  <1>2. QED
    BY <1>1, IngestInvariance, PTL

\* The socket thread always finds the space it saw before it waited
\* (EBPSocketReceiveThread.c:214 and 267), for every size of the buffer and of
\* a datagram: it never gives up on a full buffer.
THEOREM SpaceStaysThere == IngestSpec => []SpaceStillThere
  <1>1. IngestIInv => SpaceStillThere
    BY DEF IngestIInv, SpaceIsThere
  <1>2. QED
    BY <1>1, IngestInvariance, PTL

\* The ingest thread starts with the first packet and does not give up before
\* all is read (EBPPreReadStreamIngestThread.c:111-142, EBPStreamIngestThread.c:98).
THEOREM AllIsRead == IngestSpec => []IngestReadsItAll
  <1>1. IngestIInv => IngestReadsItAll
    BY DEF IngestIInv, PrereadFirst, IngestReadsItAll
  <1>2. QED
    BY <1>1, IngestInvariance, PTL

\* Whatever the three threads do to the buffer is a call it provides, with room
\* for what is written and one call of one reader at a time: all that is proved
\* of the buffer holds of it in the program.
THEOREM ThreadsUseTheBuffer == IngestSpec => BufferSpec
  <1>1. IngestInit => BufferInit
    BY DEF IngestInit
  <1>2. IngestIInv /\ [IngestNext]_ingestVars => [BufferNext]_bufferVars
    <2> SUFFICES ASSUME IngestIInv, [IngestNext]_ingestVars PROVE [BufferNext]_bufferVars
      OBVIOUS
    <2>1. CASE SocketWrites
      <3>1. socket.received \in 0 .. BufSz + 1
        BY BufferAssumption DEF IngestIInv, PlacesOK
      <3>2. QED
        BY <2>1, <3>1 DEF SocketWrites, BufferNext
    <2>2. CASE Preread \/ Ingest
      <3>1. MaxRequest \in 1 .. MaxRequest
        BY BufferAssumption
      <3>2. ASSUME NEW op \in {"peek", "read"}, Calls(op) PROVE BufferNext
        BY <3>1, <3>2, Zenon DEF Calls, BufferNext
      <3>3. QED
        BY <2>2, <3>2 DEF Preread, Ingest
    <2>3. CASE ReaderReturns \/ Exits
      BY <2>3 DEF ReaderReturns, Exits, BufferNext
    <2>4. CASE SocketAsks \/ Receives \/ SocketTimesOut \/ SocketFails \/ StartsIngest \/ Frees
      BY <2>4 DEF SocketAsks, Receives, SocketReceives, SocketTimesOut, SocketFails,
         StartsIngest, Frees
    <2>5. CASE UNCHANGED ingestVars
      BY <2>5 DEF ingestVars
    <2>6. QED
      BY <2>1, <2>2, <2>3, <2>4, <2>5 DEF IngestNext, Socket, Reads
  <1>3. QED
    BY <1>1, <1>2, IngestInvariance, PTL DEF IngestSpec, BufferSpec

\* From the socket to the ingest thread the packets are a byte stream, in order
\* and none lost (EBPStreamBuffer.c:155-353).
THEOREM ThreadsShareAByteStream == IngestSpec => ImplementsByteStream
  BY ThreadsUseTheBuffer, Refinement, PTL
=============================================================================
