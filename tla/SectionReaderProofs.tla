------------------------ MODULE SectionReaderProofs ------------------------
(***************************************************************************)
(* Proofs about SectionReader for every set of tables, every length of     *)
(* table, every packet size and any number of losses.                      *)
(***************************************************************************)
EXTENDS SectionReader, SequenceTheorems, TLAPS

\* A prefix has the elements of the sequence, as many as asked for if there are so
\* many.
LEMMA PrefixFacts ==
    ASSUME NEW S, NEW s \in Seq(S), NEW n \in Nat
    PROVE  /\ Prefix(s, n) \in Seq(S)
           /\ Len(Prefix(s, n)) = IF n < Len(s) THEN n ELSE Len(s)
           /\ \A i \in 1..Len(Prefix(s, n)) : Prefix(s, n)[i] = s[i]
  <1> DEFINE m == IF n < Len(s) THEN n ELSE Len(s)
  <1>1. m \in Nat /\ m <= Len(s)
    BY LenProperties
  <1>2. \A i \in 1..m : s[i] \in S
    BY <1>1, ElementOfSeq, LenProperties
  <1>3. /\ SubSeq(s, 1, m) \in Seq(S)
        /\ Len(SubSeq(s, 1, m)) = IF 1 <= m THEN m - 1 + 1 ELSE 0
        /\ \A i \in 1..(m - 1 + 1) : SubSeq(s, 1, m)[i] = s[1 + i - 1]
    <2> HIDE DEF m
    <2> QED BY <1>1, <1>2, SubSeqProperties
  <1>4. Prefix(s, n) = SubSeq(s, 1, m)
    BY DEF Prefix
  <1>5. QED
    BY <1>1, <1>3, <1>4, LenProperties

\* The units of a table.
LEMMA UnitsFacts ==
    ASSUME NEW t \in Tables
    PROVE  /\ UnitsOf(t) \in Seq(Unit)
           /\ Len(UnitsOf(t)) = Length[t]
           /\ Length[t] \in Nat \ {0}
           /\ \A i \in 1..Length[t] : UnitsOf(t)[i] = <<t, i>>
  <1>1. Length[t] \in Nat \ {0}
    BY LinkAssumption
  <1>2. \A i \in 1..Length[t] : <<t, i>> \in Unit
    BY <1>1 DEF Unit
  <1>3. QED
    BY <1>1, <1>2 DEF UnitsOf

\* The rest of a packet.
LEMMA StuffingFacts ==
    ASSUME NEW n \in Nat
    PROVE  /\ Stuffing(n) \in Seq(Unit)
           /\ Len(Stuffing(n)) = n
  <1>1. <<"stuffing", 0>> \in Unit
    BY DEF Unit
  <1>2. QED
    BY <1>1 DEF Stuffing

\* A packet is full, and where it says that a table begins one begins.
WellFormed(p) == /\ p \in [pusi : BOOLEAN, pointer : Nat, bytes : Seq(Unit)]
                 /\ Len(p.bytes) = Capacity
                 /\ p.pusi => /\ p.pointer < Capacity
                              /\ \E t \in Tables : p.bytes[p.pointer + 1] = <<t, 1>>

\* What is left of the table that is being sent.
LEMMA RestFacts ==
    ASSUME SectionTypeOK
    PROVE  /\ Rest \in Seq(Unit)
           /\ Len(Rest) = Length[sending.table] - sending.units
           /\ \A i \in 1..Len(Rest) : Rest[i] = <<sending.table, sending.units + i>>
  <1> DEFINE n == sending.units
             t == sending.table
  <1>1. t \in Tables /\ n \in Nat /\ n <= Length[t] /\ Length[t] \in Nat
    BY UnitsFacts DEF SectionTypeOK
  <1>2. \A i \in (n + 1)..Length[t] : UnitsOf(t)[i] \in Unit
    BY <1>1, UnitsFacts, ElementOfSeq
  <1> HIDE DEF n, t
  <1>3. /\ Rest \in Seq(Unit)
        /\ Len(Rest) = IF n + 1 <= Length[t] THEN Length[t] - (n + 1) + 1 ELSE 0
        /\ \A i \in 1..(Length[t] - (n + 1) + 1) : Rest[i] = UnitsOf(t)[n + 1 + i - 1]
    <2>1. Rest = SubSeq(UnitsOf(t), n + 1, Length[t])
      BY DEF Rest, n, t
    <2> QED BY <1>1, <1>2, <2>1, SubSeqProperties
  <1>4. \A i \in 1..(Length[t] - n) : Rest[i] = <<t, n + i>>
    <2> TAKE i \in 1..(Length[t] - n)
    <2>1. Rest[i] = UnitsOf(t)[n + i] /\ n + i \in 1..Length[t]
      BY <1>1, <1>3
    <2>2. QED
      BY <1>1, <2>1, UnitsFacts
  <1>5. Len(Rest) = Length[t] - n
    BY <1>1, <1>3
  <1>6. QED
    BY <1>3, <1>4, <1>5 DEF n, t

\* The packets the multiplexer sends are well-formed.
LEMMA PacketFacts ==
    ASSUME SectionTypeOK, NEW ps \in NextPackets
    PROVE  /\ WellFormed(ps[1])
           /\ ps[2] \in [table : Tables, units : Nat]
           /\ ps[2].units <= Length[ps[2].table]
  <1> DEFINE stuffing == Stuffing(Capacity)
  <1>0. Capacity \in Nat \ {0} /\ stuffing \in Seq(Unit) /\ Len(stuffing) = Capacity
    BY LinkAssumption, StuffingFacts
  <1>t. sending.table \in Tables /\ sending.units \in Nat
    BY DEF SectionTypeOK
  <1> HIDE DEF stuffing
  <1>1. CASE \E t \in Tables : ps = <<FirstPacket(t), SentOf(t, Capacity)>>
    <2>1. PICK t \in Tables : ps = <<FirstPacket(t), SentOf(t, Capacity)>>
      BY <1>1
    <2> DEFINE all == UnitsOf(t) \o stuffing
    <2>u. /\ UnitsOf(t) \in Seq(Unit) /\ Len(UnitsOf(t)) = Length[t]
          /\ Length[t] \in Nat \ {0} /\ UnitsOf(t)[1] = <<t, 1>>
      BY UnitsFacts
    <2>2. /\ all \in Seq(Unit) /\ Len(all) = Length[t] + Capacity
          /\ all[1] = <<t, 1>>
      <3>1. /\ all \in Seq(Unit) /\ Len(all) = Len(UnitsOf(t)) + Len(stuffing)
            /\ \A i \in 1..(Len(UnitsOf(t)) + Len(stuffing)) :
                  all[i] = IF i <= Len(UnitsOf(t)) THEN UnitsOf(t)[i]
                           ELSE stuffing[i - Len(UnitsOf(t))]
        BY <1>0, <2>u, ConcatProperties
      <3> HIDE DEF all
      <3>2. QED
        BY <1>0, <2>u, <3>1
    <2>3. FirstPacket(t) = [pusi |-> TRUE, pointer |-> 0, bytes |-> Prefix(all, Capacity)]
      BY DEF FirstPacket, stuffing
    <2> HIDE DEF all
    <2>l. Length[t] + Capacity > Capacity /\ Capacity \in Nat /\ 1 \in 1..Capacity
      BY <1>0, <2>u
    <2>p. /\ Prefix(all, Capacity) \in Seq(Unit)
          /\ Len(Prefix(all, Capacity)) = IF Capacity < Len(all) THEN Capacity ELSE Len(all)
          /\ \A i \in 1..Len(Prefix(all, Capacity)) : Prefix(all, Capacity)[i] = all[i]
      BY <2>l, <2>2, PrefixFacts
    <2>4. /\ Prefix(all, Capacity) \in Seq(Unit)
          /\ Len(Prefix(all, Capacity)) = Capacity
          /\ Prefix(all, Capacity)[1] = <<t, 1>>
      BY <2>l, <2>2, <2>p
    <2>5. WellFormed(FirstPacket(t))
      BY <1>0, <2>3, <2>4 DEF WellFormed
    <2>6. /\ SentOf(t, Capacity) \in [table : Tables, units : Nat]
          /\ SentOf(t, Capacity).units <= Length[SentOf(t, Capacity).table]
      BY <1>0, <2>u DEF SentOf
    <2>7. QED
      BY <2>1, <2>5, <2>6
  <1>2. CASE ps = <<NextPacket, SentOf(sending.table, sending.units + Capacity)>>
    <2> DEFINE all == Rest \o stuffing
    <2>1. all \in Seq(Unit) /\ Len(all) = Len(Rest) + Capacity /\ Len(Rest) \in Nat
      BY <1>0, RestFacts, ConcatProperties, LenProperties
    <2>2. NextPacket = [pusi |-> FALSE, pointer |-> 0, bytes |-> Prefix(all, Capacity)]
      BY DEF NextPacket, stuffing
    <2> HIDE DEF all
    <2>3. Prefix(all, Capacity) \in Seq(Unit) /\ Len(Prefix(all, Capacity)) = Capacity
      BY <1>0, <2>1, PrefixFacts
    <2>4. WellFormed(NextPacket)
      BY <2>2, <2>3 DEF WellFormed
    <2>5. /\ SentOf(sending.table, sending.units + Capacity) \in [table : Tables, units : Nat]
          /\ SentOf(sending.table, sending.units + Capacity).units <= Length[sending.table]
          /\ SentOf(sending.table, sending.units + Capacity).table = sending.table
      BY <1>0, <1>t, UnitsFacts DEF SentOf
    <2>6. QED
      BY <1>2, <2>4, <2>5
  <1>3. CASE \E t \in Tables : /\ Len(Rest) < Capacity
                              /\ ps = <<PackedPacket(t), SentOf(t, Capacity - Len(Rest))>>
    <2>1. PICK t \in Tables : /\ Len(Rest) < Capacity
                             /\ ps = <<PackedPacket(t), SentOf(t, Capacity - Len(Rest))>>
      BY <1>3
    <2> DEFINE front == Rest \o UnitsOf(t)
               all == front \o stuffing
    <2>2. Rest \in Seq(Unit) /\ Len(Rest) \in Nat /\ Length[t] \in Nat \ {0}
      BY RestFacts, LenProperties, UnitsFacts
    <2>3. /\ front \in Seq(Unit) /\ Len(front) = Len(Rest) + Length[t]
          /\ front[Len(Rest) + 1] = <<t, 1>>
      <3>1. UnitsOf(t) \in Seq(Unit) /\ Len(UnitsOf(t)) = Length[t] /\ UnitsOf(t)[1] = <<t, 1>>
        BY UnitsFacts
      <3>2. /\ front \in Seq(Unit) /\ Len(front) = Len(Rest) + Len(UnitsOf(t))
            /\ \A i \in 1..(Len(Rest) + Len(UnitsOf(t))) :
                  front[i] = IF i <= Len(Rest) THEN Rest[i] ELSE UnitsOf(t)[i - Len(Rest)]
        BY <2>2, <3>1, ConcatProperties
      <3> HIDE DEF front
      <3>3. /\ Len(Rest) + 1 \in 1..(Len(Rest) + Len(UnitsOf(t)))
            /\ ~(Len(Rest) + 1 <= Len(Rest))
            /\ (Len(Rest) + 1) - Len(Rest) = 1
        BY <2>2, <3>1
      <3>4. front[Len(Rest) + 1] = UnitsOf(t)[(Len(Rest) + 1) - Len(Rest)]
        BY <3>2, <3>3
      <3>5. QED
        BY <3>1, <3>2, <3>3, <3>4
    <2>4. PackedPacket(t) = [pusi |-> TRUE, pointer |-> Len(Rest),
                             bytes |-> Prefix(all, Capacity)]
      BY DEF PackedPacket, stuffing
    <2> HIDE DEF front
    <2>5. /\ all \in Seq(Unit) /\ Len(all) = Len(front) + Capacity
          /\ all[Len(Rest) + 1] = <<t, 1>>
      <3>1. /\ all \in Seq(Unit) /\ Len(all) = Len(front) + Len(stuffing)
            /\ \A i \in 1..(Len(front) + Len(stuffing)) :
                  all[i] = IF i <= Len(front) THEN front[i] ELSE stuffing[i - Len(front)]
        BY <1>0, <2>3, ConcatProperties
      <3> HIDE DEF all
      <3>n. Len(front) = Len(Rest) + Length[t] /\ Len(stuffing) = Capacity
        BY <1>0, <2>3
      <3>2. /\ Len(Rest) + 1 \in 1..(Len(front) + Len(stuffing))
            /\ Len(Rest) + 1 <= Len(front)
        BY <1>0, <2>2, <3>n
      <3>3. all[Len(Rest) + 1] = front[Len(Rest) + 1]
        BY <3>1, <3>2
      <3>4. QED
        BY <1>0, <2>3, <3>1, <3>3
    <2> HIDE DEF all
    <2>6. /\ Prefix(all, Capacity) \in Seq(Unit)
          /\ Len(Prefix(all, Capacity)) = Capacity
          /\ Prefix(all, Capacity)[Len(Rest) + 1] = <<t, 1>>
      <3>1. /\ Capacity < Len(all) /\ Capacity \in Nat
            /\ Len(Rest) + 1 \in 1..Capacity
        <4>1. Len(all) = Len(Rest) + Length[t] + Capacity
          BY <1>0, <2>2, <2>3, <2>5
        <4>2. QED
          BY <1>0, <2>1, <2>2, <4>1
      <3>2. /\ Prefix(all, Capacity) \in Seq(Unit)
            /\ Len(Prefix(all, Capacity)) = IF Capacity < Len(all) THEN Capacity ELSE Len(all)
            /\ \A i \in 1..Len(Prefix(all, Capacity)) : Prefix(all, Capacity)[i] = all[i]
        BY <2>5, <3>1, PrefixFacts
      <3>3. QED
        BY <2>5, <3>1, <3>2
    <2>7. WellFormed(PackedPacket(t))
      BY <1>0, <2>1, <2>2, <2>4, <2>6 DEF WellFormed
    <2>8. /\ SentOf(t, Capacity - Len(Rest)) \in [table : Tables, units : Nat]
          /\ SentOf(t, Capacity - Len(Rest)).units <= Length[t]
          /\ SentOf(t, Capacity - Len(Rest)).table = t
      BY <1>0, <2>1, <2>2 DEF SentOf
    <2>9. QED
      BY <2>1, <2>7, <2>8
  <1>4. QED
    BY <1>1, <1>2, <1>3 DEF NextPackets

\* What a reader is given is not empty, and begins with the start of a table if the
\* packet says so.
LEMMA PayloadFacts ==
    ASSUME NEW p, WellFormed(p)
    PROVE  /\ Payload(p) \in Seq(Unit)
           /\ Len(Payload(p)) \in 1..Capacity
           /\ p.pusi => \E t \in Tables : Payload(p)[1] = <<t, 1>>
  <1>0. Capacity \in Nat \ {0}
    BY LinkAssumption
  <1>1. CASE p.pusi
    <2> DEFINE k == p.pointer + 1
    <2>1. k \in 1..Capacity /\ p.bytes \in Seq(Unit) /\ Len(p.bytes) = Capacity
      BY <1>0, <1>1 DEF WellFormed
    <2>2. Payload(p) = SubSeq(p.bytes, k, Capacity)
      BY <1>1, <2>1 DEF Payload
    <2>3. \E t \in Tables : p.bytes[k] = <<t, 1>>
      BY <1>1 DEF WellFormed
    <2>4. \A i \in k..Capacity : p.bytes[i] \in Unit
      BY <2>1, ElementOfSeq
    <2> HIDE DEF k
    <2>5. /\ Payload(p) \in Seq(Unit)
          /\ Len(Payload(p)) = IF k <= Capacity THEN Capacity - k + 1 ELSE 0
          /\ \A i \in 1..(Capacity - k + 1) : Payload(p)[i] = p.bytes[k + i - 1]
      BY <1>0, <2>1, <2>2, <2>4, SubSeqProperties
    <2>6. QED
      BY <1>0, <2>1, <2>3, <2>5
  <1>2. CASE ~p.pusi
    BY <1>0, <1>2 DEF WellFormed, Payload
  <1>3. QED
    BY <1>1, <1>2

-----------------------------------------------------------------------------
IInv == SectionTypeOK /\ BufferFitsItsTable

USE DEF NoBuffer, HeaderOf

\* The buffer is one of no room or holds the start of a table.
LEMMA BufferFacts ==
    ASSUME IInv
    PROVE  /\ buffer \in [alloc : Nat, bytes : Seq(Unit)]
           /\ buffer # NoBuffer =>
                /\ Len(buffer.bytes) \in 1..(buffer.alloc - 1)
                /\ \E t \in Readable : buffer.bytes[1] = <<t, 1>> /\ buffer.alloc = Length[t]
  <1>1. buffer \in [alloc : Nat, bytes : Seq(Unit)]
    BY DEF IInv, SectionTypeOK
  <1>2. ASSUME buffer # NoBuffer
        PROVE  /\ Len(buffer.bytes) \in 1..(buffer.alloc - 1)
               /\ \E t \in Readable : buffer.bytes[1] = <<t, 1>> /\ buffer.alloc = Length[t]
    <2>1. /\ buffer.bytes # <<>> /\ Len(buffer.bytes) < buffer.alloc
          /\ HeaderAccepted(buffer.bytes) /\ buffer.alloc = SectionLength(buffer.bytes)
      BY <1>2 DEF IInv, SectionTypeOK, BufferFitsItsTable
    <2>2. Len(buffer.bytes) \in Nat \ {0} /\ buffer.alloc \in Nat
      BY <1>1, <2>1, EmptySeq
    <2>3. buffer.bytes[1] \in Unit
      BY <1>1, <2>2, ElementOfSeq
    <2>4. "stuffing" \notin Readable
      BY LinkAssumption
    <2>5. buffer.bytes[1] \in Tables \X Nat
      BY <2>1, <2>3, <2>4 DEF HeaderAccepted, Unit
    <2>6. buffer.bytes[1] = <<buffer.bytes[1][1], 1>> /\ buffer.bytes[1][1] \in Readable
      BY <2>1, <2>5 DEF HeaderAccepted
    <2>7. QED
      BY <2>1, <2>2, <2>6 DEF SectionLength
  <1>3. QED
    BY <1>1, <1>2

\* What is parsed begins with the start of a table: of the one in the buffer, if
\* there is one.
LEMMA GatheredFacts ==
    ASSUME IInv, NEW p, WellFormed(p), ~Ignores(p)
    PROVE  /\ Gathered(p) \in Seq(Unit)
           /\ Len(Gathered(p)) \in Nat \ {0}
           /\ \E t \in Tables : Gathered(p)[1] = <<t, 1>>
           /\ buffer = NoBuffer => Gathered(p) = Payload(p)
           /\ buffer # NoBuffer => /\ Gathered(p)[1] = buffer.bytes[1]
                                  /\ Len(Gathered(p)) <= buffer.alloc
  <1>0. Capacity \in Nat \ {0} /\ Readable \subseteq Tables
    BY LinkAssumption
  <1>1. CASE buffer = NoBuffer
    <2>1. Gathered(p) = Payload(p) /\ p.pusi
      BY <1>1 DEF Gathered, Ignores
    <2>2. QED
      BY <1>0, <1>1, <2>1, PayloadFacts
  <1>2. CASE buffer # NoBuffer
    <2> DEFINE have == buffer.bytes
               room == buffer.alloc - Len(have)
               more == Prefix(Payload(p), room)
    <2>1. /\ have \in Seq(Unit) /\ Len(have) \in 1..(buffer.alloc - 1) /\ buffer.alloc \in Nat
          /\ \E t \in Readable : have[1] = <<t, 1>>
      BY <1>2, BufferFacts
    <2>2. room \in Nat /\ Payload(p) \in Seq(Unit) /\ Len(Payload(p)) \in Nat
      BY <1>0, <2>1, PayloadFacts
    <2>3. Gathered(p) = have \o more
      BY <1>2 DEF Gathered
    <2>4. room = buffer.alloc - Len(have)
      OBVIOUS
    <2> HIDE DEF have, room
    <2>5. more \in Seq(Unit) /\ Len(more) \in Nat /\ Len(more) <= room
      BY <2>2, PrefixFacts
    <2> HIDE DEF more
    <2>6. /\ Gathered(p) \in Seq(Unit)
          /\ Len(Gathered(p)) = Len(have) + Len(more)
          /\ \A i \in 1..(Len(have) + Len(more)) :
                Gathered(p)[i] = IF i <= Len(have) THEN have[i] ELSE more[i - Len(have)]
      BY <2>1, <2>3, <2>5, ConcatProperties
    <2>7. Gathered(p)[1] = have[1] /\ Len(Gathered(p)) \in Nat \ {0}
      BY <2>1, <2>5, <2>6
    <2>8. Len(Gathered(p)) <= buffer.alloc
      BY <2>1, <2>2, <2>4, <2>5, <2>6
    <2>9. QED
      BY <1>0, <1>2, <2>1, <2>6, <2>7, <2>8 DEF have
  <1>3. QED
    BY <1>1, <1>2

\* The header of a table that was gathered in a buffer is accepted, and the table
\* does not go on after the buffer: no call gets where none should.
LEMMA FullBufferFinishes ==
    ASSUME IInv, NEW p, WellFormed(p), Parses(p), buffer # NoBuffer
    PROVE  HeaderAccepted(Gathered(p)) /\ ~Spans(p)
  <1>1. PICK t \in Readable : buffer.bytes[1] = <<t, 1>> /\ buffer.alloc = Length[t]
    BY BufferFacts
  <1>2. /\ Gathered(p)[1] = <<t, 1>> /\ Len(Gathered(p)) \in Nat
        /\ Len(Gathered(p)) <= Length[t]
    BY <1>1, GatheredFacts DEF Parses
  <1>3. ~(Len(Gathered(p)) < Length[t])
    BY <1>1 DEF Parses, Waits
  <1>4. Length[t] \in Nat
    BY UnitsFacts, LinkAssumption
  <1>5. QED
    BY <1>2, <1>3, <1>4 DEF HeaderAccepted, Spans, SectionLength

\* A call keeps the buffer as it must be.
LEMMA CallInv ==
    ASSUME IInv, NEW p, WellFormed(p), Call(p)
    PROVE  /\ buffer' \in [alloc : Nat, bytes : Seq(Unit)]
           /\ buffer' = NoBuffer \/ Len(buffer'.bytes) < buffer'.alloc
           /\ outcome' \in [code : {"ignored", "gathering", "rejected", "read"},
                            bytes : Seq(Unit)]
           /\ BufferFitsItsTable'
  <1> DEFINE Outcomes == [code : {"ignored", "gathering", "rejected", "read"}, bytes : Seq(Unit)]
  <1>0. <<>> \in Seq(Unit) /\ NoBuffer \in [alloc : Nat, bytes : Seq(Unit)]
    BY EmptySeq
  <1>e. \A c \in {"ignored", "gathering", "rejected", "read"} :
            [code |-> c, bytes |-> <<>>] \in Outcomes
    BY <1>0
  <1>b. /\ buffer \in [alloc : Nat, bytes : Seq(Unit)]
        /\ buffer = NoBuffer \/ Len(buffer.bytes) < buffer.alloc
        /\ BufferFitsItsTable
    BY DEF IInv, SectionTypeOK
  <1>1. CASE Ignore(p)
    BY <1>1, <1>b, <1>e DEF Ignore, Returns, BufferFitsItsTable
  <1>2. CASE Gather(p)
    <2>1. /\ buffer # NoBuffer /\ Len(Gathered(p)) < buffer.alloc /\ ~Ignores(p)
          /\ buffer' = [buffer EXCEPT !.bytes = Gathered(p)]
          /\ outcome' = [code |-> "gathering", bytes |-> <<>>]
      BY <1>2 DEF Gather, Waits, Ignores, Returns
    <2>2. /\ Gathered(p) \in Seq(Unit) /\ Len(Gathered(p)) \in Nat \ {0}
          /\ Gathered(p)[1] = buffer.bytes[1]
      BY <2>1, GatheredFacts
    <2>3. /\ buffer'.bytes = Gathered(p) /\ buffer'.alloc = buffer.alloc
          /\ buffer' \in [alloc : Nat, bytes : Seq(Unit)]
      BY <1>b, <2>1, <2>2
    <2>4. HeaderAccepted(buffer.bytes) /\ buffer.alloc = SectionLength(buffer.bytes)
      BY <1>b, <2>1 DEF BufferFitsItsTable
    <2>5. Gathered(p) # <<>>
      BY <2>2, EmptySeq
    <2>6. BufferFitsItsTable'
      BY <2>2, <2>3, <2>4, <2>5 DEF BufferFitsItsTable, HeaderAccepted, SectionLength
    <2>7. QED
      BY <1>e, <2>1, <2>3, <2>6
  <1>3. CASE RejectHeader(p)
    <2>1. buffer' = buffer \/ buffer' = NoBuffer
      BY <1>3 DEF RejectHeader
    <2>2. BufferFitsItsTable'
      BY <1>b, <2>1 DEF BufferFitsItsTable
    <2>3. QED
      BY <1>0, <1>3, <1>b, <1>e, <2>1, <2>2 DEF RejectHeader, Returns
  <1>4. CASE Allocate(p)
    <2>1. /\ ~Ignores(p) /\ HeaderAccepted(Gathered(p)) /\ Spans(p)
          /\ buffer' = [alloc |-> SectionLength(Gathered(p)), bytes |-> Payload(p)]
          /\ outcome' = [code |-> "gathering", bytes |-> <<>>]
      BY <1>4 DEF Allocate, Parses, Returns
    <2>2. buffer = NoBuffer
      BY <1>4, FullBufferFinishes DEF Allocate
    <2>3. /\ Payload(p) = Gathered(p) /\ Gathered(p) \in Seq(Unit)
          /\ Len(Gathered(p)) \in Nat \ {0}
      BY <2>1, <2>2, GatheredFacts
    <2>4. PICK t \in Tables : Gathered(p)[1] = <<t, 1>>
      BY <2>1, GatheredFacts
    <2>5. SectionLength(Gathered(p)) \in Nat
      BY <2>4, UnitsFacts DEF SectionLength
    <2>6. Len(Gathered(p)) < SectionLength(Gathered(p)) /\ Gathered(p) # <<>>
      BY <2>1, <2>3, <2>5, EmptySeq DEF Spans
    <2>7. BufferFitsItsTable'
      BY <2>1, <2>3, <2>6 DEF BufferFitsItsTable, HeaderAccepted, SectionLength
    <2>8. QED
      BY <1>e, <2>1, <2>3, <2>5, <2>6, <2>7
  <1>5. CASE Finish(p)
    <2>1. ~Ignores(p) /\ ~Spans(p) /\ buffer' = NoBuffer /\ Result(p)
      BY <1>5 DEF Finish, Finishes, Parses
    <2>2. Gathered(p) \in Seq(Unit)
      BY <2>1, GatheredFacts
    <2>3. PICK t \in Tables : Gathered(p)[1] = <<t, 1>>
      BY <2>1, GatheredFacts
    <2>4. SectionLength(Gathered(p)) \in Nat
      BY <2>3, UnitsFacts DEF SectionLength
    <2>5. Prefix(Gathered(p), SectionLength(Gathered(p))) \in Seq(Unit)
      BY <2>2, <2>4, PrefixFacts
    <2>6. outcome' \in Outcomes
      <3>1. CASE Accepted(p)
        BY <2>1, <2>5, <3>1 DEF Result, Returns
      <3>2. CASE ~Accepted(p)
        BY <1>e, <2>1, <3>2 DEF Result, Returns
      <3>3. QED
        BY <3>1, <3>2
    <2>7. BufferFitsItsTable'
      BY <2>1 DEF BufferFitsItsTable
    <2>8. QED
      BY <1>0, <2>1, <2>6, <2>7
  <1>6. QED
    BY <1>1, <1>2, <1>3, <1>4, <1>5 DEF Call

\* Every delivery is a call of a reader with a well-formed packet.
LEMMA DeliverFacts ==
    ASSUME SectionTypeOK, Deliver
    PROVE  \E ps \in NextPackets : WellFormed(ps[1]) /\ Call(ps[1]) /\ sending' = ps[2]
  BY PacketFacts DEF Deliver, program_association_section_read,
     conditional_access_section_read, program_map_section_read, scte35_splice_info_section_read

LEMMA InitInv == SectionInit => IInv
  <1> SUFFICES ASSUME SectionInit PROVE IInv
    OBVIOUS
  <1>1. \A t \in Tables : Length[t] \in Nat
    BY UnitsFacts
  <1>2. <<>> \in Seq(Unit)
    BY EmptySeq
  <1>3. 0 \in 0..MaxLosses
    BY LinkAssumption
  <1>4. SectionTypeOK
    BY <1>1, <1>2, <1>3 DEF SectionInit, SectionTypeOK
  <1>5. QED
    BY <1>4 DEF SectionInit, IInv, BufferFitsItsTable

LEMMA NextInv == IInv /\ [SectionNext]_sectionVars => IInv'
  <1> SUFFICES ASSUME IInv, [SectionNext]_sectionVars PROVE IInv'
    OBVIOUS
  <1>0. SectionTypeOK /\ MaxLosses \in Nat
    BY LinkAssumption DEF IInv
  <1>1. CASE Deliver
    <2>1. PICK ps \in NextPackets : WellFormed(ps[1]) /\ Call(ps[1]) /\ sending' = ps[2]
      BY <1>0, <1>1, DeliverFacts
    <2>2. sending' \in [table : Tables, units : Nat] /\ sending'.units <= Length[sending'.table]
      BY <1>0, <2>1, PacketFacts
    <2>3. link' = link /\ losses' = losses
      BY <1>1 DEF Deliver
    <2>4. QED
      BY <1>0, <2>1, <2>2, <2>3, CallInv DEF IInv, SectionTypeOK
  <1>2. CASE LoseNext
    <2>1. PICK ps \in NextPackets : sending' = ps[2]
      BY <1>2 DEF LoseNext
    <2>2. sending' \in [table : Tables, units : Nat] /\ sending'.units <= Length[sending'.table]
      BY <1>0, <2>1, PacketFacts
    <2>3. losses' \in 0..MaxLosses
      BY <1>0, <1>2 DEF LoseNext, SectionTypeOK
    <2>4. UNCHANGED <<link, buffer, outcome>>
      BY <1>2 DEF LoseNext
    <2>5. QED
      BY <1>0, <2>2, <2>3, <2>4 DEF IInv, SectionTypeOK, BufferFitsItsTable
  <1>3. CASE UNCHANGED sectionVars
    BY <1>3 DEF sectionVars, IInv, SectionTypeOK, BufferFitsItsTable
  <1>4. QED
    BY <1>1, <1>2, <1>3 DEF SectionNext

\* Every behaviour keeps the types and the buffer as they must be.
LEMMA Invariance == SectionSpec => []IInv
  BY InitInv, NextInv, PTL DEF SectionSpec

\* The variables of a reader keep their types, and a buffer has room (psi.h:59-64).
THEOREM TypeCorrect == SectionSpec => []SectionTypeOK
  <1>1. IInv => SectionTypeOK
    BY DEF IInv
  <1>2. QED
    BY <1>1, Invariance, PTL

\* A buffer begins with the header that announces its room, whatever is lost: the
\* branch that "should never" be reached is not reached (psi.c:225, 562, 815 and
\* scte35.c:216).
THEOREM BufferAlwaysFits == SectionSpec => []BufferFitsItsTable
  <1>1. IInv => BufferFitsItsTable
    BY DEF IInv
  <1>2. QED
    BY <1>1, Invariance, PTL

-----------------------------------------------------------------------------
\* What is read of a stream without losses in which every table begins a packet of
\* its own: between tables the buffer is empty, and in a table the reader accepts
\* it holds what was sent of it.
InStep ==
    (losses = 0 /\ ~link.packed) =>
        IF sending.table \in Readable /\ sending.units < Length[sending.table]
        THEN /\ buffer.alloc = Length[sending.table]
             /\ Len(buffer.bytes) = sending.units
             /\ \A i \in 1..sending.units : buffer.bytes[i] = <<sending.table, i>>
             /\ sending.units >= Capacity
        ELSE buffer = NoBuffer

\* A table that begins a packet fills it, or is in it as a whole.
LEMMA FirstPacketFacts ==
    ASSUME NEW t \in Tables
    PROVE  LET p == FirstPacket(t)
           IN  /\ p.pusi
               /\ Payload(p) \in Seq(Unit)
               /\ Len(Payload(p)) = Capacity
               /\ \A i \in 1..Capacity : i <= Length[t] => Payload(p)[i] = <<t, i>>
  <1> DEFINE p == FirstPacket(t)
             all == UnitsOf(t) \o Stuffing(Capacity)
  <1>0. Capacity \in Nat \ {0} /\ Stuffing(Capacity) \in Seq(Unit)
        /\ Len(Stuffing(Capacity)) = Capacity
    BY LinkAssumption, StuffingFacts
  <1>1. /\ all \in Seq(Unit) /\ Len(all) = Length[t] + Capacity
        /\ \A i \in 1..Length[t] : all[i] = <<t, i>>
    <2>1. /\ UnitsOf(t) \in Seq(Unit) /\ Len(UnitsOf(t)) = Length[t] /\ Length[t] \in Nat
          /\ \A i \in 1..Length[t] : UnitsOf(t)[i] = <<t, i>>
      BY UnitsFacts
    <2>2. /\ all \in Seq(Unit) /\ Len(all) = Len(UnitsOf(t)) + Len(Stuffing(Capacity))
          /\ \A i \in 1..(Len(UnitsOf(t)) + Len(Stuffing(Capacity))) :
                all[i] = IF i <= Len(UnitsOf(t)) THEN UnitsOf(t)[i]
                         ELSE Stuffing(Capacity)[i - Len(UnitsOf(t))]
      BY <1>0, <2>1, ConcatProperties
    <2> HIDE DEF all
    <2>3. \A i \in 1..Length[t] : all[i] = <<t, i>>
      <3> TAKE i \in 1..Length[t]
      <3>1. i \in 1..(Len(UnitsOf(t)) + Len(Stuffing(Capacity))) /\ i <= Len(UnitsOf(t))
        BY <1>0, <2>1
      <3>2. all[i] = UnitsOf(t)[i]
        BY <2>2, <3>1
      <3>3. QED
        BY <2>1, <3>2
    <2>4. QED
      BY <1>0, <2>1, <2>2, <2>3
  <1>2. p = [pusi |-> TRUE, pointer |-> 0, bytes |-> Prefix(all, Capacity)]
    BY DEF FirstPacket
  <1> HIDE DEF all, p
  <1>3. Length[t] \in Nat \ {0}
    BY UnitsFacts
  <1>4. /\ p.bytes \in Seq(Unit) /\ Len(p.bytes) = Capacity
        /\ \A i \in 1..Capacity : p.bytes[i] = all[i]
    <2>1. p.bytes = Prefix(all, Capacity) /\ Capacity < Len(all)
      BY <1>0, <1>1, <1>2, <1>3
    <2>2. /\ p.bytes \in Seq(Unit)
          /\ Len(p.bytes) = IF Capacity < Len(all) THEN Capacity ELSE Len(all)
          /\ \A i \in 1..Len(p.bytes) : p.bytes[i] = all[i]
      BY <1>0, <1>1, <2>1, PrefixFacts
    <2>3. QED
      BY <2>1, <2>2
  <1>5. Payload(p) = p.bytes
    <2>1. Payload(p) = SubSeq(p.bytes, 1, Len(p.bytes))
      BY <1>2, <1>4 DEF Payload
    <2>2. QED
      BY <1>4, <2>1, SubSeqFull
  <1>6. \A i \in 1..Capacity : i <= Length[t] => Payload(p)[i] = <<t, i>>
    <2> SUFFICES ASSUME NEW i \in 1..Capacity, i <= Length[t]
                 PROVE  Payload(p)[i] = <<t, i>>
      OBVIOUS
    <2>1. i \in 1..Length[t]
      BY <1>0, <1>3
    <2>2. QED
      BY <1>1, <1>4, <1>5, <2>1
  <1>7. p.pusi /\ Payload(p) \in Seq(Unit) /\ Len(Payload(p)) = Capacity
    BY <1>2, <1>4, <1>5
  <1>8. QED
    BY <1>6, <1>7 DEF p

\* A packet within a table carries its next units.
LEMMA NextPacketFacts ==
    ASSUME SectionTypeOK
    PROVE  LET p == NextPacket
               n == Length[sending.table] - sending.units
           IN  /\ ~p.pusi
               /\ Payload(p) \in Seq(Unit)
               /\ Len(Payload(p)) = Capacity
               /\ \A i \in 1..Capacity :
                     i <= n => Payload(p)[i] = <<sending.table, sending.units + i>>
  <1> DEFINE p == NextPacket
             n == Length[sending.table] - sending.units
             all == Rest \o Stuffing(Capacity)
  <1>0. Capacity \in Nat \ {0} /\ Stuffing(Capacity) \in Seq(Unit)
        /\ Len(Stuffing(Capacity)) = Capacity
    BY LinkAssumption, StuffingFacts
  <1>1. /\ Rest \in Seq(Unit) /\ Len(Rest) = n /\ n \in Nat
        /\ \A i \in 1..n : Rest[i] = <<sending.table, sending.units + i>>
    <2>1. n \in Nat
      BY UnitsFacts DEF SectionTypeOK
    <2> HIDE DEF n
    <2>2. Len(Rest) = n
      BY RestFacts DEF n
    <2>3. QED
      BY <2>1, <2>2, RestFacts
  <1> HIDE DEF n
  <1>2. /\ all \in Seq(Unit) /\ Len(all) = n + Capacity
        /\ \A i \in 1..n : all[i] = <<sending.table, sending.units + i>>
    <2>1. /\ all \in Seq(Unit) /\ Len(all) = Len(Rest) + Len(Stuffing(Capacity))
          /\ \A i \in 1..(Len(Rest) + Len(Stuffing(Capacity))) :
                all[i] = IF i <= Len(Rest) THEN Rest[i] ELSE Stuffing(Capacity)[i - Len(Rest)]
      BY <1>0, <1>1, ConcatProperties
    <2> HIDE DEF all
    <2>2. QED
      BY <1>0, <1>1, <2>1
  <1>3. p = [pusi |-> FALSE, pointer |-> 0, bytes |-> Prefix(all, Capacity)]
    BY DEF NextPacket
  <1> HIDE DEF all, p
  <1>4. /\ p.bytes \in Seq(Unit) /\ Len(p.bytes) = Capacity
        /\ \A i \in 1..Capacity : p.bytes[i] = all[i]
    <2>1. /\ p.bytes = Prefix(all, Capacity)
          /\ p.bytes \in Seq(Unit)
          /\ Len(p.bytes) = IF Capacity < n + Capacity THEN Capacity ELSE n + Capacity
          /\ \A i \in 1..Len(p.bytes) : p.bytes[i] = all[i]
      BY <1>0, <1>2, <1>3, PrefixFacts
    <2>2. Len(p.bytes) = Capacity
      BY <1>0, <1>1, <2>1
    <2>3. QED
      BY <2>1, <2>2
  <1>5. Payload(p) = p.bytes /\ ~p.pusi
    BY <1>3 DEF Payload
  <1>6. \A i \in 1..Capacity : i <= n => Payload(p)[i] = <<sending.table, sending.units + i>>
    BY <1>0, <1>1, <1>2, <1>4, <1>5
  <1>7. QED
    BY <1>4, <1>5, <1>6 DEF p, n

\* A sequence that begins with a table passes its CRC, and is read as the table.
LEMMA WholeTable ==
    ASSUME NEW t \in Tables, NEW g \in Seq(Unit), Length[t] <= Len(g),
           \A i \in 1..Length[t] : g[i] = <<t, i>>
    PROVE  /\ Append(Prefix(g, Length[t] - 1), g[Length[t]]) = UnitsOf(t)
           /\ Prefix(g, Length[t]) = UnitsOf(t)
  <1> DEFINE n == Length[t]
             front == Prefix(g, n - 1)
             whole == Prefix(g, n)
  <1>0. n \in Nat \ {0} /\ n - 1 \in Nat /\ n <= Len(g) /\ Len(g) \in Nat
    BY UnitsFacts, LenProperties
  <1>1. /\ UnitsOf(t) \in Seq(Unit) /\ Len(UnitsOf(t)) = n
        /\ \A i \in 1..n : UnitsOf(t)[i] = g[i]
    BY UnitsFacts
  <1> HIDE DEF n
  <1>2. /\ front \in Seq(Unit) /\ Len(front) = n - 1
        /\ \A i \in 1..(n - 1) : front[i] = g[i]
    BY <1>0, PrefixFacts
  <1>3. whole \in Seq(Unit) /\ Len(whole) = n /\ \A i \in 1..n : whole[i] = g[i]
    BY <1>0, PrefixFacts
  <1>4. g[n] \in Unit
    BY <1>0, ElementOfSeq
  <1> HIDE DEF front, whole
  <1>5. /\ Append(front, g[n]) \in Seq(Unit)
        /\ Len(Append(front, g[n])) = n
        /\ \A i \in 1..n : Append(front, g[n])[i] = g[i]
    <2>1. /\ Append(front, g[n]) \in Seq(Unit)
          /\ Len(Append(front, g[n])) = n - 1 + 1
          /\ \A i \in 1..(n - 1) : Append(front, g[n])[i] = front[i]
          /\ Append(front, g[n])[n - 1 + 1] = g[n]
      BY <1>2, <1>4, AppendProperties
    <2>2. QED
      BY <1>0, <1>2, <2>1
  <1>6. Append(front, g[n]) = UnitsOf(t)
    BY <1>1, <1>5, SeqEqual
  <1>7. whole = UnitsOf(t)
    BY <1>1, <1>3, SeqEqual
  <1>8. QED
    BY <1>6, <1>7 DEF n, front, whole

\* A call that finishes a table that is gathered as a whole reads it, if the CRC is
\* computed over what was gathered or not at all.
LEMMA FinishReads ==
    ASSUME NEW p, NEW t \in Tables \ Faulty, Finish(p), link.reader \in Readers,
           Gathered(p) \in Seq(Unit), Length[t] <= Len(Gathered(p)),
           \A i \in 1..Length[t] : Gathered(p)[i] = <<t, i>>,
           link.reader \in {"PMT", "SCTE35"} \/ Payload(p) = Gathered(p)
    PROVE  Reads(t)
  <1>1. Gathered(p)[1] = <<t, 1>>
    BY UnitsFacts
  <1>2. SectionLength(Gathered(p)) = Length[t]
    BY <1>1 DEF SectionLength
  <1>3. CRCMatches(p, Gathered(p))
    BY <1>1, <1>2, WholeTable DEF CRCMatches
  <1>4. Accepted(p)
    BY <1>1, <1>3 DEF Accepted, FieldsRejected, PATChecksOver, CATChecksOver, PMTChecksOver, Readers
  <1>5. Prefix(Gathered(p), SectionLength(Gathered(p))) = UnitsOf(t)
    BY <1>2, WholeTable
  <1>6. QED
    BY <1>4, <1>5 DEF Finish, Result, Returns, Reads

\* What the last packet of the table t is to bring about.
ReadsWhenEnded(t) ==
    (t \notin Faulty /\ Ends(t) /\ (Split(t) => link.reader \in {"PMT", "SCTE35"})) => Reads(t)

\* A table begins a packet while nothing is in the buffer.
LEMMA FirstPacketRead ==
    ASSUME IInv, buffer = NoBuffer, NEW t \in Tables, Call(FirstPacket(t)),
           sending' = SentOf(t, Capacity), losses' = losses, link' = link
    PROVE  InStep' /\ \A u \in Readable : ReadsWhenEnded(u)
  <1> DEFINE p == FirstPacket(t)
  <1>0. /\ Capacity \in Nat \ {0} /\ Length[t] \in Nat \ {0} /\ Readable \subseteq Tables
        /\ link.reader \in Readers
    BY LinkAssumption, UnitsFacts DEF IInv, SectionTypeOK
  <1>1. /\ p.pusi /\ Payload(p) \in Seq(Unit) /\ Len(Payload(p)) = Capacity
        /\ \A i \in 1..Capacity : i <= Length[t] => Payload(p)[i] = <<t, i>>
    BY FirstPacketFacts
  <1> HIDE DEF p
  <1>2. Gathered(p) = Payload(p) /\ Parses(p) /\ ~Ignores(p) /\ ~Waits(p)
    BY <1>1 DEF Gathered, Parses, Ignores, Waits
  <1>3. Gathered(p)[1] = <<t, 1>>
    BY <1>0, <1>1, <1>2
  <1>4. SectionLength(Gathered(p)) = Length[t] /\ (HeaderAccepted(Gathered(p)) <=> t \in Readable)
    BY <1>3 DEF SectionLength, HeaderAccepted
  <1>5. Call(p)
    BY DEF p
  <1>6. Spans(p) <=> Capacity < Length[t]
    BY <1>0, <1>1, <1>2, <1>4 DEF Spans
  <1>7. sending' = [table |-> t, units |-> IF Capacity < Length[t] THEN Capacity ELSE Length[t]]
    BY DEF SentOf
  <1>8. CASE t \notin Readable
    <2>1. RejectHeader(p)
      BY <1>2, <1>4, <1>5, <1>8 DEF Call, Ignore, Gather, Allocate, Finish, Finishes
    <2>2. buffer' = NoBuffer
      BY <2>1 DEF RejectHeader
    <2>3. InStep'
      BY <1>7, <1>8, <2>2 DEF InStep
    <2>4. \A u \in Readable : ~Ends(u)
      BY <1>7, <1>8 DEF Ends
    <2>5. QED
      BY <2>3, <2>4 DEF ReadsWhenEnded
  <1>9. CASE t \in Readable /\ Capacity < Length[t]
    <2>1. Allocate(p)
      BY <1>2, <1>4, <1>5, <1>6, <1>9 DEF Call, Ignore, Gather, RejectHeader, Finish, Finishes
    <2>2. buffer' = [alloc |-> Length[t], bytes |-> Payload(p)]
      BY <1>4, <2>1 DEF Allocate
    <2>3. sending' = [table |-> t, units |-> Capacity]
      BY <1>7, <1>9
    <2>4. \A i \in 1..Capacity : Payload(p)[i] = <<t, i>>
      BY <1>0, <1>1, <1>9
    <2>5. InStep'
      BY <1>0, <1>1, <1>9, <2>2, <2>3, <2>4 DEF InStep
    <2>6. \A u \in Readable : ~Ends(u)
      BY <1>0, <1>9, <2>3 DEF Ends
    <2>7. QED
      BY <2>5, <2>6 DEF ReadsWhenEnded
  <1>10. CASE t \in Readable /\ ~(Capacity < Length[t])
    <2>1. Finish(p)
      BY <1>2, <1>4, <1>5, <1>6, <1>10 DEF Call, Ignore, Gather, RejectHeader, Allocate
    <2>2. sending' = [table |-> t, units |-> Length[t]] /\ buffer' = NoBuffer
      BY <1>7, <1>10, <2>1 DEF Finish
    <2>3. InStep'
      BY <1>0, <2>2 DEF InStep
    <2>4. \A i \in 1..Length[t] : Gathered(p)[i] = <<t, i>>
      BY <1>0, <1>1, <1>2, <1>10
    <2>5. Length[t] <= Len(Gathered(p))
      BY <1>0, <1>1, <1>2, <1>10
    <2>6. t \notin Faulty => Reads(t)
      BY <1>0, <1>1, <1>2, <2>1, <2>4, <2>5, FinishReads
    <2>7. \A u \in Readable : Ends(u) => u = t
      BY <2>2 DEF Ends
    <2>8. QED
      BY <2>3, <2>6, <2>7 DEF ReadsWhenEnded
  <1>11. QED
    BY <1>8, <1>9, <1>10

\* A packet of a table the reader does not accept is ignored.
LEMMA OtherPacketIgnored ==
    ASSUME IInv, buffer = NoBuffer, sending.table \notin Readable, Call(NextPacket),
           sending' = SentOf(sending.table, sending.units + Capacity)
    PROVE  InStep' /\ \A u \in Readable : ReadsWhenEnded(u)
  <1>1. ~NextPacket.pusi
    BY DEF NextPacket
  <1>2. Ignores(NextPacket)
    BY <1>1 DEF Ignores
  <1>3. buffer' = buffer
    BY <1>2 DEF Call, Ignore, Gather, RejectHeader, Allocate, Finish, Finishes, Parses, Waits, Ignores
  <1>4. sending'.table = sending.table
    BY DEF SentOf
  <1>5. InStep'
    BY <1>3, <1>4 DEF InStep
  <1>6. \A u \in Readable : ~Ends(u)
    BY <1>4 DEF Ends
  <1>7. QED
    BY <1>5, <1>6 DEF ReadsWhenEnded

\* What the buffer holds of a table and its next packet make up what was sent of it.
LEMMA NextGathered ==
    ASSUME IInv, sending.table \in Readable, sending.units < Length[sending.table],
           buffer.alloc = Length[sending.table], Len(buffer.bytes) = sending.units,
           \A i \in 1..sending.units : buffer.bytes[i] = <<sending.table, i>>
    PROVE  LET g == Gathered(NextPacket)
               n == sending.units + Capacity
           IN  /\ g \in Seq(Unit)
               /\ Len(g) = IF n < Length[sending.table] THEN n ELSE Length[sending.table]
               /\ \A i \in 1..Len(g) : g[i] = <<sending.table, i>>
  <1> DEFINE p == NextPacket
             t == sending.table
             n == sending.units
             room == Length[t] - n
             more == Prefix(Payload(p), room)
  <1>0. /\ Capacity \in Nat \ {0} /\ Length[t] \in Nat \ {0} /\ t \in Tables /\ n \in Nat
        /\ Readable \subseteq Tables /\ link.reader \in Readers /\ buffer.bytes \in Seq(Unit)
        /\ room \in Nat \ {0} /\ n < Length[t] /\ t \in Readable
    BY LinkAssumption, UnitsFacts DEF IInv, SectionTypeOK
  <1>n. /\ buffer # NoBuffer /\ buffer.alloc = Length[t] /\ Len(buffer.bytes) = n
        /\ \A i \in 1..n : buffer.bytes[i] = <<t, i>>
    BY <1>0
  <1>1. /\ ~p.pusi /\ Payload(p) \in Seq(Unit) /\ Len(Payload(p)) = Capacity
        /\ \A i \in 1..Capacity : i <= room => Payload(p)[i] = <<t, n + i>>
    BY NextPacketFacts DEF IInv
  <1>r. room = Length[t] - n
    OBVIOUS
  <1>g. Gathered(p) = buffer.bytes \o more
    BY <1>n DEF Gathered
  <1> HIDE DEF p, t, n, room
  <1>2. /\ more \in Seq(Unit)
        /\ Len(more) = IF room < Capacity THEN room ELSE Capacity
        /\ \A i \in 1..Len(more) : more[i] = Payload(p)[i]
    BY <1>0, <1>1, PrefixFacts
  <1> HIDE DEF more
  <1>3. \A i \in 1..Len(more) : more[i] = <<t, n + i>>
    BY <1>0, <1>1, <1>2
  <1>4. /\ Gathered(p) \in Seq(Unit)
        /\ Len(Gathered(p)) = n + Len(more)
        /\ \A i \in 1..(n + Len(more)) :
              Gathered(p)[i] = IF i <= n THEN buffer.bytes[i] ELSE more[i - n]
    <2> DEFINE have == buffer.bytes
    <2>1. have \in Seq(Unit) /\ more \in Seq(Unit) /\ Gathered(p) = have \o more
      BY <1>0, <1>2, <1>g
    <2>2. Len(have) = n
      BY <1>n
    <2> HIDE DEF have
    <2>3. /\ have \o more \in Seq(Unit)
          /\ Len(have \o more) = Len(have) + Len(more)
          /\ \A i \in 1..(Len(have) + Len(more)) :
                (have \o more)[i] = IF i <= Len(have) THEN have[i] ELSE more[i - Len(have)]
      BY <2>1, ConcatProperties
    <2>4. QED
      BY <2>1, <2>2, <2>3 DEF have
  <1>5. \A i \in 1..Len(Gathered(p)) : Gathered(p)[i] = <<t, i>>
    <2> TAKE i \in 1..Len(Gathered(p))
    <2>1. i \in 1..(n + Len(more)) /\ Len(more) \in Nat
      BY <1>0, <1>2, <1>4
    <2>2. CASE i <= n
      BY <1>0, <1>n, <1>4, <2>1, <2>2
    <2>3. CASE ~(i <= n)
      <3>1. i - n \in 1..Len(more) /\ n + (i - n) = i
        BY <1>0, <2>1, <2>3
      <3>2. Gathered(p)[i] = more[i - n]
        BY <1>4, <2>1, <2>3
      <3>3. QED
        BY <1>3, <3>1, <3>2
    <2>4. QED
      BY <2>2, <2>3
  <1>6. Len(Gathered(p)) = IF n + Capacity < Length[t] THEN n + Capacity ELSE Length[t]
    BY <1>0, <1>2, <1>4, <1>r
  <1>7. QED
    BY <1>4, <1>5, <1>6 DEF p, n, t

\* A packet of a table whose start is in the buffer.
LEMMA NextPacketRead ==
    ASSUME IInv, sending.table \in Readable, sending.units < Length[sending.table],
           sending.units >= Capacity,
           buffer.alloc = Length[sending.table], Len(buffer.bytes) = sending.units,
           \A i \in 1..sending.units : buffer.bytes[i] = <<sending.table, i>>,
           Call(NextPacket), sending' = SentOf(sending.table, sending.units + Capacity),
           losses' = losses, link' = link
    PROVE  InStep' /\ \A u \in Readable : ReadsWhenEnded(u)
  <1> DEFINE p == NextPacket
             t == sending.table
             n == sending.units
  <1>0. /\ Capacity \in Nat \ {0} /\ Length[t] \in Nat \ {0} /\ t \in Tables /\ n \in Nat
        /\ Readable \subseteq Tables /\ link.reader \in Readers
        /\ n < Length[t] /\ t \in Readable /\ n >= Capacity
    BY LinkAssumption, UnitsFacts DEF IInv, SectionTypeOK
  <1>n. /\ buffer # NoBuffer /\ buffer.alloc = Length[t] /\ Call(p)
        /\ sending' = SentOf(t, n + Capacity)
    BY <1>0
  <1>g. /\ Gathered(p) \in Seq(Unit)
        /\ Len(Gathered(p)) = IF n + Capacity < Length[t] THEN n + Capacity ELSE Length[t]
        /\ \A i \in 1..Len(Gathered(p)) : Gathered(p)[i] = <<t, i>>
    BY NextGathered
  <1> HIDE DEF p, t, n
  <1>6. ~Ignores(p)
    BY <1>n DEF Ignores
  <1>7. CASE n + Capacity < Length[t]
    <2>1. Len(Gathered(p)) = n + Capacity
      BY <1>7, <1>g
    <2>2. Waits(p)
      BY <1>n, <1>7, <2>1 DEF Waits
    <2>3. Gather(p)
      BY <1>n, <1>6, <2>2 DEF Call, Ignore, RejectHeader, Allocate, Finish, Finishes, Parses
    <2>4. buffer'.alloc = Length[t] /\ buffer'.bytes = Gathered(p)
      <3>1. buffer \in [alloc : Nat, bytes : Seq(Unit)]
        BY DEF IInv, SectionTypeOK
      <3>2. QED
        BY <1>n, <2>3, <3>1 DEF Gather
    <2>5. sending' = [table |-> t, units |-> n + Capacity]
      BY <1>n, <1>7 DEF SentOf
    <2>6. n + Capacity >= Capacity
      BY <1>0
    <2>7. InStep'
      BY <1>0, <1>g, <1>7, <2>1, <2>4, <2>5, <2>6 DEF InStep
    <2>8. \A u \in Readable : ~Ends(u)
      BY <1>0, <1>7, <2>5 DEF Ends
    <2>9. QED
      BY <2>7, <2>8 DEF ReadsWhenEnded
  <1>8. CASE ~(n + Capacity < Length[t])
    <2>1. Len(Gathered(p)) = Length[t]
      BY <1>8, <1>g
    <2>2. Parses(p)
      BY <1>0, <1>n, <1>6, <2>1 DEF Parses, Waits
    <2>3. Gathered(p)[1] = <<t, 1>>
      BY <1>0, <1>g, <2>1
    <2>4. HeaderAccepted(Gathered(p)) /\ ~Spans(p)
      BY <1>0, <2>1, <2>3 DEF HeaderAccepted, Spans, SectionLength
    <2>5. Finish(p)
      BY <1>n, <1>6, <2>2, <2>4 DEF Call, Ignore, Gather, RejectHeader, Allocate, Parses
    <2>6. sending' = [table |-> t, units |-> Length[t]] /\ buffer' = NoBuffer
      BY <1>n, <1>8, <2>5 DEF SentOf, Finish
    <2>7. InStep'
      BY <1>0, <2>6 DEF InStep
    <2>8. ASSUME t \notin Faulty, link.reader \in {"PMT", "SCTE35"} PROVE Reads(t)
      <3>0. \A i \in 1..Len(Gathered(p)) : Gathered(p)[i] = <<t, i>>
        BY <1>g
      <3>1. Length[t] <= Len(Gathered(p)) /\ \A i \in 1..Length[t] : Gathered(p)[i] = <<t, i>>
        BY <1>0, <2>1, <3>0
      <3>2. QED
        BY <1>0, <1>g, <2>5, <2>8, <3>1, FinishReads
    <2>9. Split(t)
      BY <1>0 DEF Split
    <2>10. \A u \in Readable : Ends(u) => u = t
      BY <2>6 DEF Ends
    <2>11. QED
      BY <2>7, <2>8, <2>9, <2>10 DEF ReadsWhenEnded
  <1>9. QED
    BY <1>7, <1>8

LEMMA InStepInit == SectionInit => InStep
  <1> SUFFICES ASSUME SectionInit PROVE InStep
    OBVIOUS
  <1>1. \A t \in Tables : Length[t] \in Nat
    BY UnitsFacts
  <1>2. QED
    BY <1>1 DEF SectionInit, InStep

\* Every step keeps the reader in step with what is sent, and reads what it ends.
LEMMA InStepNext ==
    ASSUME IInv, InStep, [SectionNext]_sectionVars
    PROVE  /\ InStep'
           /\ (Deliver /\ losses = 0 /\ ~link.packed) => \A u \in Readable : ReadsWhenEnded(u)
  <1>1. CASE Deliver /\ losses = 0 /\ ~link.packed
    <2>1. PICK ps \in NextPackets : Call(ps[1]) /\ sending' = ps[2]
      BY <1>1, DeliverFacts DEF IInv
    <2>2. losses' = losses /\ link' = link
      BY <1>1 DEF Deliver
    <2>3. sending.table \in Tables /\ sending.units \in Nat /\ sending.units <= Length[sending.table]
          /\ Length[sending.table] \in Nat
      BY UnitsFacts DEF IInv, SectionTypeOK
    <2>4. CASE sending.units = Length[sending.table]
      <3>1. buffer = NoBuffer
        BY <1>1, <2>3, <2>4 DEF InStep
      <3>2. PICK t \in Tables : ps = <<FirstPacket(t), SentOf(t, Capacity)>>
        BY <2>1, <2>4 DEF NextPackets
      <3>3. QED
        BY <2>1, <2>2, <3>1, <3>2, FirstPacketRead
    <2>5. CASE sending.units # Length[sending.table]
      <3>1. ps = <<NextPacket, SentOf(sending.table, sending.units + Capacity)>>
        BY <1>1, <2>1, <2>5 DEF NextPackets
      <3>2. sending.units < Length[sending.table]
        BY <2>3, <2>5
      <3>3. CASE sending.table \in Readable
        BY <1>1, <2>1, <2>2, <3>1, <3>2, <3>3, NextPacketRead DEF InStep
      <3>4. CASE sending.table \notin Readable
        <4>1. buffer = NoBuffer
          BY <1>1, <3>4 DEF InStep
        <4>2. QED
          BY <2>1, <3>1, <3>4, <4>1, OtherPacketIgnored
      <3>5. QED
        BY <3>3, <3>4
    <2>6. QED
      BY <2>4, <2>5
  <1>2. CASE Deliver /\ ~(losses = 0 /\ ~link.packed)
    <2>1. losses' = losses /\ link' = link
      BY <1>2 DEF Deliver
    <2>2. QED
      BY <1>2, <2>1 DEF InStep
  <1>3. CASE LoseNext
    <2>1. losses' # 0 /\ losses' # losses
      BY <1>3, LinkAssumption DEF LoseNext, IInv, SectionTypeOK
    <2>2. ~Deliver
      BY <2>1 DEF Deliver
    <2>3. QED
      BY <2>1, <2>2 DEF InStep
  <1>4. CASE UNCHANGED sectionVars
    <2>1. InStep'
      BY <1>4 DEF sectionVars, InStep
    <2>2. QED
      BY <1>1, <2>1
  <1>5. QED
    BY <1>1, <1>2, <1>3, <1>4 DEF SectionNext

\* As long as nothing is lost and tables begin packets of their own, every table is
\* read when its last packet comes, whatever its length and the size of packets - by
\* PAT and CAT only if it is in one packet (psi.c:494-572, scte35.c:169-226).
THEOREM EveryTableIsRead == SectionSpec => TablesAreRead
  <1> DEFINE A == \A t \in Readable \ Faulty :
                    (/\ Ends(t) /\ losses = 0 /\ ~link.packed
                     /\ Split(t) => link.reader \in {"PMT", "SCTE35"}) => Reads(t)
  <1>1. IInv /\ InStep /\ [SectionNext]_sectionVars => InStep'
    BY InStepNext
  <1>2. IInv /\ InStep /\ [SectionNext]_sectionVars => [A]_sectionVars
    <2> SUFFICES ASSUME IInv, InStep, SectionNext PROVE A
      OBVIOUS
    <2>1. CASE Deliver
      <3> SUFFICES ASSUME NEW t \in Readable \ Faulty, Ends(t), losses = 0, ~link.packed,
                          Split(t) => link.reader \in {"PMT", "SCTE35"}
                   PROVE  Reads(t)
        OBVIOUS
      <3>1. ReadsWhenEnded(t)
        BY <2>1, InStepNext
      <3>2. QED
        BY <3>1 DEF ReadsWhenEnded
    <2>2. CASE LoseNext
      <3>1. losses' # losses
        BY <2>2, LinkAssumption DEF LoseNext, IInv, SectionTypeOK
      <3>2. QED
        BY <3>1 DEF Ends
    <2>3. QED
      BY <2>1, <2>2 DEF SectionNext
  <1>3. QED
    BY <1>1, <1>2, InStepInit, Invariance, PTL DEF SectionSpec, TablesAreRead

-----------------------------------------------------------------------------
\* What is read is a table the stream carries.

\* The header of what was gathered, and how much of it the table is.
LEMMA GatheredHeader ==
    ASSUME IInv, NEW p, WellFormed(p), Finishes(p)
    PROVE  \E t \in Readable : /\ t \in Tables
                              /\ Gathered(p) \in Seq(Unit)
                              /\ Gathered(p)[1] = <<t, 1>>
                              /\ SectionLength(Gathered(p)) = Length[t]
                              /\ Length[t] \in 1..Len(Gathered(p))
  <1>1. /\ ~Ignores(p) /\ HeaderAccepted(Gathered(p)) /\ ~Spans(p)
        /\ Readable \subseteq Tables
    BY LinkAssumption DEF Finishes, Parses
  <1>2. PICK t \in Tables : Gathered(p)[1] = <<t, 1>>
    BY <1>1, GatheredFacts
  <1>3. Gathered(p) \in Seq(Unit) /\ Len(Gathered(p)) \in Nat
    BY <1>1, GatheredFacts
  <1>4. t \in Readable /\ SectionLength(Gathered(p)) = Length[t]
    BY <1>1, <1>2 DEF HeaderAccepted, SectionLength
  <1>5. Length[t] \in Nat \ {0}
    BY UnitsFacts
  <1>6. QED
    BY <1>1, <1>2, <1>3, <1>4, <1>5 DEF Spans

\* A CRC that is computed over what was gathered is right for the table only.
LEMMA CRCOfGathered ==
    ASSUME NEW g \in Seq(Unit), NEW n \in 1..Len(g), NEW u,
           Append(Prefix(g, n - 1), g[n]) = u
    PROVE  Prefix(g, n) = u
  <1> DEFINE front == Prefix(g, n - 1)
             whole == Prefix(g, n)
  <1>0. n \in Nat /\ n - 1 \in Nat /\ n <= Len(g) /\ Len(g) \in Nat /\ g[n] \in Unit
    BY LenProperties, ElementOfSeq
  <1>1. /\ front \in Seq(Unit) /\ Len(front) = n - 1
        /\ \A i \in 1..(n - 1) : front[i] = g[i]
    BY <1>0, PrefixFacts
  <1>2. whole \in Seq(Unit) /\ Len(whole) = n /\ \A i \in 1..n : whole[i] = g[i]
    BY <1>0, PrefixFacts
  <1> HIDE DEF front, whole
  <1>3. /\ Append(front, g[n]) \in Seq(Unit)
        /\ Len(Append(front, g[n])) = n
        /\ \A i \in 1..n : Append(front, g[n])[i] = g[i]
    <2>1. /\ Append(front, g[n]) \in Seq(Unit)
          /\ Len(Append(front, g[n])) = n - 1 + 1
          /\ \A i \in 1..(n - 1) : Append(front, g[n])[i] = front[i]
          /\ Append(front, g[n])[n - 1 + 1] = g[n]
      BY <1>0, <1>1, AppendProperties
    <2>2. QED
      BY <1>0, <1>1, <2>1
  <1>4. Append(front, g[n]) = whole
    BY <1>2, <1>3, SeqEqual
  <1>5. QED
    BY <1>4 DEF front, whole

\* A CRC that is computed over the packet is never right for a table of which the
\* start is in the buffer: the last unit of the table would have to be one that the
\* packet has before it.
LEMMA CRCOfPacket ==
    ASSUME IInv, NEW p, WellFormed(p), Finishes(p), CRCMatches(p, Payload(p))
    PROVE  buffer = NoBuffer
  <1> SUFFICES ASSUME buffer # NoBuffer PROVE FALSE
    OBVIOUS
  <1>1. PICK t \in Readable : /\ t \in Tables
                             /\ Gathered(p) \in Seq(Unit)
                             /\ Gathered(p)[1] = <<t, 1>>
                             /\ SectionLength(Gathered(p)) = Length[t]
                             /\ Length[t] \in 1..Len(Gathered(p))
    BY GatheredHeader
  <1> DEFINE g == Gathered(p)
             n == Length[t]
             have == buffer.bytes
             m == Len(have)
             over == Payload(p)
             front == Prefix(over, n - 1)
             more == Prefix(over, buffer.alloc - m)
  <1>2. /\ buffer.alloc = n /\ m \in 1..(n - 1) /\ have \in Seq(Unit) /\ n \in Nat
        /\ g = have \o more /\ g[1] = <<t, 1>> /\ n \in 1..Len(g)
    <2>1. PICK u \in Readable : have[1] = <<u, 1>> /\ buffer.alloc = Length[u]
      BY BufferFacts
    <2>2. g[1] = have[1]
      BY GatheredFacts DEF Finishes, Parses
    <2>3. u = t
      BY <1>1, <2>1, <2>2
    <2>4. m \in 1..(buffer.alloc - 1) /\ have \in Seq(Unit) /\ buffer.alloc \in Nat
      BY BufferFacts
    <2>5. QED
      BY <1>1, <2>1, <2>3, <2>4 DEF Gathered
  <1>3. over \in Seq(Unit) /\ Len(over) \in Nat
    BY LinkAssumption, PayloadFacts
  <1>4. Append(front, g[n]) = UnitsOf(t)
    BY <1>1 DEF CRCMatches
  <1>5. /\ Len(UnitsOf(t)) = n /\ \A i \in 1..n : UnitsOf(t)[i] = <<t, i>>
    BY <1>1, UnitsFacts
  <1>a. more = Prefix(over, n - m)
    BY <1>2
  <1> HIDE DEF g, n, have, m, over
  <1>6. /\ front \in Seq(Unit) /\ Len(front) = IF n - 1 < Len(over) THEN n - 1 ELSE Len(over)
        /\ \A i \in 1..Len(front) : front[i] = over[i]
    BY <1>2, <1>3, PrefixFacts
  <1>7. /\ more \in Seq(Unit) /\ Len(more) = IF n - m < Len(over) THEN n - m ELSE Len(over)
        /\ \A i \in 1..Len(more) : more[i] = over[i]
    <2>1. n - m \in Nat
      BY <1>2
    <2>2. QED
      BY <1>3, <1>a, <2>1, PrefixFacts
  <1> HIDE DEF front, more
  <1>8. g \in Seq(Unit) /\ g[n] \in Unit
    BY <1>1, <1>2, ElementOfSeq DEF g, n
  <1>9. /\ Len(Append(front, g[n])) = Len(front) + 1
        /\ \A i \in 1..Len(front) : Append(front, g[n])[i] = front[i]
        /\ Append(front, g[n])[Len(front) + 1] = g[n]
    BY <1>6, <1>8, AppendProperties
  <1>10. /\ Len(front) = n - 1 /\ g[n] = <<t, n>>
         /\ \A i \in 1..(n - 1) : over[i] = <<t, i>>
    <2>1. Len(front) = n - 1
      BY <1>2, <1>4, <1>5, <1>6, <1>9, LenProperties
    <2>2. g[n] = <<t, n>>
      <3>1. Len(front) + 1 = n /\ n \in 1..n
        BY <1>2, <2>1
      <3>2. g[n] = UnitsOf(t)[n]
        BY <1>4, <1>9, <3>1
      <3>3. QED
        BY <1>5, <3>1, <3>2
    <2>3. \A i \in 1..(n - 1) : over[i] = UnitsOf(t)[i] /\ i \in 1..n
      BY <1>2, <1>4, <1>6, <1>9, <2>1
    <2>4. QED
      BY <1>5, <2>1, <2>2, <2>3
  <1>11. /\ Len(g) = m + Len(more)
         /\ \A i \in 1..(m + Len(more)) : g[i] = IF i <= m THEN have[i] ELSE more[i - m]
    <2>1. m = Len(have)
      BY DEF m
    <2>2. /\ Len(have \o more) = Len(have) + Len(more)
          /\ \A i \in 1..(Len(have) + Len(more)) :
                (have \o more)[i] = IF i <= Len(have) THEN have[i] ELSE more[i - Len(have)]
      <3>1. have \in Seq(Unit) /\ more \in Seq(Unit)
        BY <1>2, <1>7
      <3>2. QED
        BY <3>1, ConcatProperties
    <2>3. QED
      BY <1>2, <2>1, <2>2
  <1>12. n \in 1..(m + Len(more)) /\ ~(n <= m) /\ n - m \in 1..Len(more) /\ n - m \in 1..(n - 1)
    BY <1>2, <1>3, <1>7, <1>11
  <1>13. g[n] = <<t, n - m>>
    BY <1>7, <1>10, <1>11, <1>12
  <1>14. n = n - m
    BY <1>10, <1>13
  <1>15. QED
    BY <1>2, <1>14

\* Whatever is lost and however tables are packed, a reader that looks at the CRC
\* accepts tables the stream carries only.
LEMMA CheckedReads ==
    ASSUME IInv, NEW p, WellFormed(p), Finishes(p), Accepted(p), link.reader # "SCTE35"
    PROVE  Prefix(Gathered(p), SectionLength(Gathered(p))) \in {UnitsOf(t) : t \in Readable}
  <1>1. PICK t \in Readable : /\ t \in Tables
                             /\ Gathered(p) \in Seq(Unit)
                             /\ Gathered(p)[1] = <<t, 1>>
                             /\ SectionLength(Gathered(p)) = Length[t]
                             /\ Length[t] \in 1..Len(Gathered(p))
    BY GatheredHeader
  <1>2. \/ CRCMatches(p, Gathered(p))
        \/ CRCMatches(p, Payload(p))
    <2>1. link.reader \in {"PAT", "CAT", "PMT"}
      BY LinkAssumption DEF IInv, SectionTypeOK, Readers
    <2>2. QED
      BY <2>1 DEF Accepted, PATChecksOver, CATChecksOver, PMTChecksOver
  <1>3. CRCMatches(p, Gathered(p))
    <2>1. ASSUME CRCMatches(p, Payload(p)) PROVE Gathered(p) = Payload(p)
      <3>1. buffer = NoBuffer
        BY <2>1, CRCOfPacket
      <3>2. QED
        BY <3>1, GatheredFacts DEF Finishes, Parses
    <2>2. QED
      BY <1>2, <2>1
  <1>4. Append(Prefix(Gathered(p), Length[t] - 1), Gathered(p)[Length[t]]) = UnitsOf(t)
    BY <1>1, <1>3 DEF CRCMatches
  <1>5. Prefix(Gathered(p), Length[t]) = UnitsOf(t)
    BY <1>1, <1>4, CRCOfGathered
  <1>6. QED
    BY <1>1, <1>5

\* Without losses, and with tables that begin packets of their own, nothing but a table
\* is gathered: the SCTE 35 reader takes no harm from leaving out the CRC.
LEMMA UncheckedReads ==
    ASSUME IInv, InStep, losses = 0, ~link.packed, NEW ps \in NextPackets,
           WellFormed(ps[1]), Finishes(ps[1])
    PROVE  Prefix(Gathered(ps[1]), SectionLength(Gathered(ps[1]))) \in {UnitsOf(t) : t \in Readable}
  <1> DEFINE p == ps[1]
  <1>0. /\ sending.table \in Tables /\ sending.units \in Nat /\ sending.units <= Length[sending.table]
        /\ Length[sending.table] \in Nat /\ Capacity \in Nat \ {0}
    BY LinkAssumption, UnitsFacts DEF IInv, SectionTypeOK
  <1>1. PICK t \in Readable : /\ t \in Tables
                             /\ Gathered(p) \in Seq(Unit)
                             /\ Gathered(p)[1] = <<t, 1>>
                             /\ SectionLength(Gathered(p)) = Length[t]
                             /\ Length[t] \in 1..Len(Gathered(p))
    BY GatheredHeader
  <1>2. \A i \in 1..Length[t] : Gathered(p)[i] = <<t, i>>
    <2>1. CASE sending.units = Length[sending.table]
      <3>1. buffer = NoBuffer
        BY <1>0, <2>1 DEF InStep
      <3>2. PICK u \in Tables : p = FirstPacket(u)
        BY <2>1 DEF NextPackets
      <3>3. Gathered(p) = Payload(p)
        BY <3>1 DEF Gathered
      <3>4. /\ Len(Gathered(p)) = Capacity
            /\ \A i \in 1..Capacity : i <= Length[u] => Gathered(p)[i] = <<u, i>>
        BY <3>2, <3>3, FirstPacketFacts
      <3>5. Length[u] \in Nat \ {0}
        BY UnitsFacts
      <3>6. u = t
        <4>1. Gathered(p)[1] = <<u, 1>>
          BY <1>0, <3>4, <3>5
        <4>2. QED
          BY <1>1, <4>1
      <3>7. QED
        BY <1>0, <1>1, <3>4, <3>5, <3>6
    <2>2. CASE sending.units # Length[sending.table]
      <3>1. p = NextPacket
        BY <2>2 DEF NextPackets
      <3>2. sending.units < Length[sending.table]
        BY <1>0, <2>2
      <3>3. buffer # NoBuffer
        <4>1. ~p.pusi
          BY <3>1 DEF NextPacket
        <4>2. QED
          BY <4>1 DEF Finishes, Parses, Ignores
      <3>4. /\ sending.table \in Readable
            /\ buffer.alloc = Length[sending.table] /\ Len(buffer.bytes) = sending.units
            /\ \A i \in 1..sending.units : buffer.bytes[i] = <<sending.table, i>>
        BY <3>2, <3>3 DEF InStep
      <3>5. \A i \in 1..Len(Gathered(p)) : Gathered(p)[i] = <<sending.table, i>>
        BY <3>1, <3>2, <3>4, NextGathered
      <3>6. sending.table = t
        <4>1. Gathered(p)[1] = <<sending.table, 1>>
          BY <1>1, <3>5, LenProperties
        <4>2. QED
          BY <1>1, <4>1
      <3>7. QED
        BY <1>1, <3>5, <3>6
    <2>3. QED
      BY <2>1, <2>2
  <1>3. Prefix(Gathered(p), Length[t]) = UnitsOf(t)
    BY <1>1, <1>2, WholeTable
  <1>4. QED
    BY <1>1, <1>3

\* Every step reads tables of the stream only.
LEMMA ReadsNext == IInv /\ InStep /\ ReadAsSent /\ [SectionNext]_sectionVars => ReadAsSent'
  <1> SUFFICES ASSUME IInv, InStep, ReadAsSent, [SectionNext]_sectionVars PROVE ReadAsSent'
    OBVIOUS
  <1>1. CASE Deliver
    <2>1. PICK ps \in NextPackets : WellFormed(ps[1]) /\ Call(ps[1])
      BY <1>1, DeliverFacts DEF IInv
    <2>2. losses' = losses /\ link' = link
      BY <1>1 DEF Deliver
    <2> DEFINE p == ps[1]
    <2>3. CASE ~Finish(p)
      <3>1. outcome'.code # "read"
        BY <2>1, <2>3 DEF Call, Ignore, Gather, RejectHeader, Allocate, Returns
      <3>2. QED
        BY <3>1 DEF ReadAsSent
    <2>4. CASE Finish(p) /\ ~Accepted(p)
      <3>1. outcome'.code # "read"
        BY <2>4 DEF Finish, Result, Returns
      <3>2. QED
        BY <3>1 DEF ReadAsSent
    <2>5. CASE Finish(p) /\ Accepted(p)
      <3>1. /\ Finishes(p)
            /\ outcome'.bytes = Prefix(Gathered(p), SectionLength(Gathered(p)))
        BY <2>5 DEF Finish, Result, Returns
      <3>2. CASE link.reader # "SCTE35"
        BY <2>1, <2>5, <3>1, <3>2, CheckedReads DEF ReadAsSent
      <3>3. CASE losses = 0 /\ ~link.packed
        BY <2>1, <3>1, <3>3, UncheckedReads DEF ReadAsSent
      <3>4. QED
        BY <2>2, <3>2, <3>3 DEF ReadAsSent
    <2>6. QED
      BY <2>3, <2>4, <2>5
  <1>2. CASE LoseNext
    <2>1. losses' # 0 /\ UNCHANGED <<link, outcome>>
      BY <1>2, LinkAssumption DEF LoseNext, IInv, SectionTypeOK
    <2>2. QED
      BY <2>1 DEF ReadAsSent
  <1>3. CASE UNCHANGED sectionVars
    BY <1>3 DEF sectionVars, ReadAsSent
  <1>4. QED
    BY <1>1, <1>2, <1>3 DEF SectionNext

\* What is handed on as a table is one the stream carries, whole and unmixed: for PAT,
\* CAT and PMT whatever is lost and however tables are packed, for SCTE 35, whose CRC
\* is not looked at, as long as nothing is lost and tables begin packets of their own
\* (psi.c:300 and 653, scte35.c:286-290).
THEOREM TablesReadAreSent == SectionSpec => []ReadAsSent
  <1>1. SectionInit => ReadAsSent
    BY DEF SectionInit, ReadAsSent
  <1>2. IInv /\ InStep /\ [SectionNext]_sectionVars => InStep'
    BY InStepNext
  <1>3. QED
    BY <1>1, <1>2, InStepInit, ReadsNext, Invariance, PTL DEF SectionSpec
=============================================================================
