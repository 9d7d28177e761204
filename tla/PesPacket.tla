----------------------------- MODULE PesPacket ------------------------------
(***************************************************************************)
(* Reading a PES packet (tslib/pes.c) out of the payloads of its transport *)
(* packets: the header with its optional fields and the payload after it.  *)
(***************************************************************************)
EXTENDS Bits, SequencesExt

CONSTANTS Junk    \* what a cursor that was never set gives

NOT_ENOUGH_DATA == -1
WRONG_START_CODE == -2

\* Stream map, padding, private 2, ECM, EMM, DSMCC, H.222.1 type E, stream directory.
Headerless == {188, 190, 191, 240, 241, 242, 248, 255}
HAS_PES_HEADER(stream_id) == stream_id \notin Headerless

pos(c) == Lesser(BytePos(c), Len(c.buf))

\* Mutant: the marker bits are taken for a part of the time.
NoMarkers(c) == LET f == Fields(c, <<4, 3, 15, 15>>) IN <<f[2], f[3], f[4]>>

\* bs_read_90khz_timestamp after 4 bits: three parts with a marker bit after each.
Timestamp(c) == LET f == Fields(c, <<4, 3, 1, 15, 1, 15, 1>>) IN <<f[2], f[4], f[6]>>

\* After the second extension as many bytes are skipped as were read of it, whatever it announced.
SkipExtension2(c, from) == SkipBytes(c, pos(c) - from)

ReadExtension2(c) ==
    LET f == Fields(c, <<1, 7, 1, 6, 1>>)
        tref == f[3] = 1 /\ f[5] = 1
    IN SkipExtension2(Skip(c, IF tref THEN 56 ELSE 16), pos(c))

\* Private data, pack header, sequence counter, P-STD buffer, second extension.
ReadExtension(c) ==
    LET has == Fields(c, <<1, 1, 1, 1, 3, 1>>)
        private == SkipBytes(Skip(c, 8), 16 * has[1])
        pack == IF has[2] = 1 THEN SkipBytes(Skip(private, 8), Value(private, 8)) ELSE private
        buffer == Skip(pack, 16 * (has[3] + has[4]))
    IN IF has[6] = 1 THEN ReadExtension2(buffer) ELSE buffer

\* ESCR, ES rate, trick mode, copy info, CRC.
MiddleBits(has) == 48 * has[1] + 24 * has[2] + 8 * has[3] + 8 * has[4] + 16 * has[5]

\* Bytes 6 to 8 and the optional fields.
ReadOptional(c) ==
    LET f == Fields(c, <<8, 1, 1, 1, 1, 1, 1, 1, 1, 8>>)
        length == f[10]
        from == Skip(c, 24)
        dts == Skip(from, 40 * f[2])
        middle == Skip(dts, 40 * f[3])
        extension == Skip(middle, MiddleBits(<<f[4], f[5], f[6], f[7], f[8]>>))
        to == IF f[9] = 1 THEN ReadExtension(extension) ELSE extension
        stuffing == length - (pos(to) - pos(from))
    IN IF BytesLeft(c) < 3 \/ BytesLeft(from) < length THEN [res |-> NOT_ENOUGH_DATA]
       ELSE [res |-> pos(IF stuffing > 0 THEN SkipBytes(to, stuffing) ELSE to),
             PTS |-> IF f[2] = 1 THEN Timestamp(from) ELSE <<0, 0, 0>>]

pes_read_header(c) ==
    LET f == Fields(c, <<24, 8, 16>>)
    IN IF BytesLeft(c) < 6 THEN [res |-> NOT_ENOUGH_DATA]
       ELSE IF f[1] # 1 THEN [res |-> WRONG_START_CODE]
       ELSE (IF HAS_PES_HEADER(f[2]) THEN ReadOptional(Skip(c, 48))
             ELSE [res |-> 6, PTS |-> <<0, 0, 0>>])
            @@ [PES_packet_length |-> f[3]]

\* A packet whose header is broken is left as it was made, with a status of 0 and no payload; one
\* that is shorter than it announces keeps what there is.
Empty == [status |-> 0, PTS |-> <<0, 0, 0>>, payload |-> <<>>]

pes_read_vec(vec) ==
    LET buf == FlattenSeq(vec)
        header == pes_read_header(AtStart(buf))
    IN IF buf = <<>> THEN Junk
       ELSE IF header.res < 3 THEN Empty
       ELSE [status |-> IF header.PES_packet_length > 0 /\ header.PES_packet_length + 6 > Len(buf)
                        THEN NOT_ENOUGH_DATA ELSE 0,
             PTS |-> header.PTS,
             payload |-> SubSeq(buf, header.res + 1, Len(buf))]
=============================================================================
