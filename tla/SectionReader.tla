---------------------------- MODULE SectionReader ----------------------------
(***************************************************************************)
(* The readers of the tables of a transport stream: PAT, CAT and PMT       *)
(* (tslib/psi.c) and SCTE 35 (atstest/scte35.c), four functions with one   *)
(* control.  A table comes in packets; one that does not fit a packet is   *)
(* gathered in a psi_table_buffer_t of the size its header announces.      *)
(* Packets are UDP payload or a recording of it: some are lost.            *)
(*                                                                         *)
(* A table is a sequence of units: the first stands for the header up to   *)
(* section_length, the last one ends with the CRC.  A packet carries       *)
(* Capacity units.                                                         *)
(***************************************************************************)
EXTENDS Integers, Sequences

CONSTANTS Tables,    \* the tables a stream may carry on the PID of the reader
          Length,    \* table -> its number of units
          Readable,  \* the tables whose header the reader accepts
          Faulty,    \* those of them with fields the PMT reader rejects
          Capacity,  \* units in a packet
          Links,     \* the readers, and how the multiplexer feeds them
          MaxLosses  \* bound on the packets lost

Readers == {"PAT", "CAT", "PMT", "SCTE35"}

ASSUME LinkAssumption ==
    /\ Length \in [Tables -> Nat \ {0}]
    /\ Readable \subseteq Tables
    /\ Faulty \subseteq Readable
    /\ "stuffing" \notin Tables
    /\ Capacity \in Nat \ {0}
    /\ Links \subseteq [reader : Readers, packed : BOOLEAN]
    /\ MaxLosses \in Nat

VARIABLES link,    \* the reader, and whether a table may begin where another ends
          sending, \* the table that is being sent and the units of it sent so far
          buffer,  \* psi_table_buffer_t
          outcome, \* what the last call returned
          losses

sectionVars == <<link, sending, buffer, outcome, losses>>

UnitsOf(t) == [i \in 1..Length[t] |-> <<t, i>>]
Stuffing(n) == [i \in 1..n |-> <<"stuffing", 0>>]
Prefix(s, n) == SubSeq(s, 1, IF n < Len(s) THEN n ELSE Len(s))

NoBuffer == [alloc |-> 0, bytes |-> <<>>]

-----------------------------------------------------------------------------
(* The multiplexer.  A packet with payload_unit_start_indicator says in its *)
(* pointer field how many units of the table before come first.             *)

FirstPacket(t) ==
    [pusi |-> TRUE, pointer |-> 0,
     bytes |-> Prefix(UnitsOf(t) \o Stuffing(Capacity), Capacity)]

Rest == SubSeq(UnitsOf(sending.table), sending.units + 1, Length[sending.table])

NextPacket == [pusi |-> FALSE, pointer |-> 0,
               bytes |-> Prefix(Rest \o Stuffing(Capacity), Capacity)]

PackedPacket(t) ==
    [pusi |-> TRUE, pointer |-> Len(Rest),
     bytes |-> Prefix(Rest \o UnitsOf(t) \o Stuffing(Capacity), Capacity)]

SentOf(t, n) == [table |-> t, units |-> IF n < Length[t] THEN n ELSE Length[t]]

\* The packets that may come next, each with what is then sent.
NextPackets ==
    IF sending.units = Length[sending.table]
    THEN {<<FirstPacket(t), SentOf(t, Capacity)>> : t \in Tables}
    ELSE {<<NextPacket, SentOf(sending.table, sending.units + Capacity)>>} \cup
         {<<PackedPacket(t), SentOf(t, Capacity - Len(Rest))>> :
             t \in {u \in Tables : link.packed /\ Len(Rest) < Capacity}}

-----------------------------------------------------------------------------
(* A call of a reader with a packet p.                                      *)

Payload(p) == IF p.pusi THEN SubSeq(p.bytes, p.pointer + 1, Len(p.bytes)) ELSE p.bytes

\* What the reader parses: the buffer if there is one, or else the packet.
Gathered(p) ==
    IF buffer = NoBuffer THEN Payload(p)
    ELSE buffer.bytes \o Prefix(Payload(p), buffer.alloc - Len(buffer.bytes))

HeaderOf(bytes) == bytes[1]
HeaderAccepted(bytes) == HeaderOf(bytes)[1] \in Readable /\ HeaderOf(bytes)[2] = 1
SectionLength(bytes) == Length[HeaderOf(bytes)[1]]

Ignores(p) == ~p.pusi /\ buffer = NoBuffer

Waits(p) == buffer # NoBuffer /\ Len(Gathered(p)) < buffer.alloc

Parses(p) == ~Ignores(p) /\ ~Waits(p)

\* The units the CRC is computed over, all but the last one of the section: PAT
\* and CAT take them from the packet, PMT from what was gathered.
PATChecksOver(p) == Payload(p)
CATChecksOver(p) == Payload(p)

\* Mutant: as for the PAT and the CAT.
PMTChecksOverPacket(p) == Payload(p)

PMTChecksOver(p) == Gathered(p)

\* The CRC is right exactly if what it was computed over and the unit it was
\* read from make up the table.
CRCMatches(p, over) ==
    LET n == SectionLength(Gathered(p))
    IN  Append(Prefix(over, n - 1), Gathered(p)[n]) = UnitsOf(HeaderOf(Gathered(p))[1])

\* A PMT of several sections, or with a PCR PID or a length out of range.
FieldsRejected(p) == HeaderOf(Gathered(p))[1] \in Faulty

\* A SCTE 35 table is taken without a look at its CRC.
Accepted(p) ==
    CASE link.reader = "PAT" -> CRCMatches(p, PATChecksOver(p))
      [] link.reader = "CAT" -> CRCMatches(p, CATChecksOver(p))
      [] link.reader = "PMT" -> ~FieldsRejected(p) /\ CRCMatches(p, PMTChecksOver(p))
      [] OTHER -> TRUE

Returns(code, bytes) == outcome' = [code |-> code, bytes |-> bytes]

Ignore(p) == /\ Ignores(p)
             /\ Returns("ignored", <<>>)
             /\ UNCHANGED buffer

Gather(p) == /\ Waits(p)
             /\ buffer' = [buffer EXCEPT !.bytes = Gathered(p)]
             /\ Returns("gathering", <<>>)

\* The SCTE 35 reader returns without a reset of its buffer.
RejectHeader(p) == /\ Parses(p)
                   /\ ~HeaderAccepted(Gathered(p))
                   /\ buffer' = IF link.reader = "SCTE35" THEN buffer ELSE NoBuffer
                   /\ Returns("rejected", <<>>)

Spans(p) == SectionLength(Gathered(p)) > Len(Gathered(p))

\* Mutant: the room is section_length, without the header.
AllocateBody(p) ==
    /\ Parses(p)
    /\ HeaderAccepted(Gathered(p))
    /\ Spans(p)
    /\ buffer' = [alloc |-> SectionLength(Gathered(p)) - 1, bytes |-> Payload(p)]
    /\ Returns("gathering", <<>>)

Allocate(p) == /\ Parses(p)
               /\ HeaderAccepted(Gathered(p))
               /\ Spans(p)
               /\ buffer' = [alloc |-> SectionLength(Gathered(p)), bytes |-> Payload(p)]
               /\ Returns("gathering", <<>>)

Result(p) == IF Accepted(p)
             THEN Returns("read", Prefix(Gathered(p), SectionLength(Gathered(p))))
             ELSE Returns("rejected", <<>>)

Finishes(p) == Parses(p) /\ HeaderAccepted(Gathered(p)) /\ ~Spans(p)

\* Mutant: the buffer is not reset after a table was read.
FinishWithoutReset(p) == /\ Finishes(p)
                         /\ buffer' = IF Accepted(p) THEN buffer ELSE NoBuffer
                         /\ Result(p)

\* Mutant: the buffer is not reset when the CRC is wrong.
FinishKeepsRejected(p) ==
    /\ Finishes(p)
    /\ buffer' = IF Accepted(p) \/ buffer = NoBuffer THEN NoBuffer
                 ELSE [buffer EXCEPT !.bytes = Gathered(p)]
    /\ Result(p)

Finish(p) == Finishes(p) /\ buffer' = NoBuffer /\ Result(p)

Call(p) == Ignore(p) \/ Gather(p) \/ RejectHeader(p) \/ Allocate(p) \/ Finish(p)

program_association_section_read(p) == link.reader = "PAT" /\ Call(p)
conditional_access_section_read(p) == link.reader = "CAT" /\ Call(p)
program_map_section_read(p) == link.reader = "PMT" /\ Call(p)
scte35_splice_info_section_read(p) == link.reader = "SCTE35" /\ Call(p)

-----------------------------------------------------------------------------
SectionInit ==
    /\ link \in Links
    /\ sending \in {[table |-> t, units |-> Length[t]] : t \in Tables}
    /\ buffer = NoBuffer
    /\ outcome = [code |-> "ignored", bytes |-> <<>>]
    /\ losses = 0

Deliver == \E ps \in NextPackets :
               /\ sending' = ps[2]
               /\ \/ program_association_section_read(ps[1])
                  \/ conditional_access_section_read(ps[1])
                  \/ program_map_section_read(ps[1])
                  \/ scte35_splice_info_section_read(ps[1])
               /\ UNCHANGED <<link, losses>>

LoseNext ==
    /\ losses < MaxLosses
    /\ \E ps \in NextPackets : sending' = ps[2]
    /\ losses' = losses + 1
    /\ UNCHANGED <<link, buffer, outcome>>

SectionNext == Deliver \/ LoseNext

SectionSpec == SectionInit /\ [][SectionNext]_sectionVars

-----------------------------------------------------------------------------
Unit == (Tables \X Nat) \cup {<<"stuffing", 0>>}

SectionTypeOK ==
    /\ link \in Links
    /\ sending \in [table : Tables, units : Nat] /\ sending.units <= Length[sending.table]
    /\ buffer \in [alloc : Nat, bytes : Seq(Unit)]
    /\ buffer = NoBuffer \/ Len(buffer.bytes) < buffer.alloc
    /\ outcome \in [code : {"ignored", "gathering", "rejected", "read"}, bytes : Seq(Unit)]
    /\ losses \in 0..MaxLosses

\* A buffer begins with a header the reader accepts and has the room that this
\* header announces, whatever was lost and however tables are packed: no call finds
\* that the table of a full buffer goes on after it, the branch commented "should
\* never get here" (psi.c:225, 562 and 815, scte35.c:216).
BufferFitsItsTable ==
    buffer # NoBuffer =>
        /\ buffer.bytes # <<>>
        /\ HeaderAccepted(buffer.bytes)
        /\ buffer.alloc = SectionLength(buffer.bytes)

\* What is handed on as a table is one the stream carries: always, if the CRC is
\* looked at; for SCTE 35 as long as no packet is lost and every table begins a
\* packet of its own (psi.c:653, scte35.c:286-290).
ReadAsSent ==
    (/\ outcome.code = "read"
     /\ link.reader = "SCTE35" => losses = 0 /\ ~link.packed) =>
        outcome.bytes \in {UnitsOf(t) : t \in Readable}

\* The packet that ends the table t has arrived.
Ends(t) == sending' = [table |-> t, units |-> Length[t]] /\ losses' = losses

Reads(t) == outcome' = [code |-> "read", bytes |-> UnitsOf(t)]

Split(t) == Length[t] > Capacity

\* As long as nothing is lost and every table begins a packet of its own, each
\* table is read when its last packet comes - a table that is split over packets by
\* the PMT and SCTE 35 readers only (psi.c:494-513 and 556-572).
TablesAreRead ==
    [][\A t \in Readable \ Faulty :
          (/\ Ends(t) /\ losses = 0 /\ ~link.packed
           /\ Split(t) => link.reader \in {"PMT", "SCTE35"}) => Reads(t)]_sectionVars

\* The readers that gather recover from losses: a stream that goes on sending tables
\* of theirs has tables read again and again, whatever the buffer held when the last
\* packet was lost (psi.c:455-464, 494-513).
Recovers ==
    (/\ link.reader \in {"PMT", "SCTE35"} /\ ~link.packed
     /\ []<>(sending.table \in Readable \ Faulty /\ sending.units = Length[sending.table]))
        => []<>(outcome.code = "read")
=============================================================================
