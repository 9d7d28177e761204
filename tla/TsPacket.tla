------------------------------ MODULE TsPacket ------------------------------
(***************************************************************************)
(* Reading a transport packet (tslib/ts.c): the header, the adaptation     *)
(* field with its optional fields, each announced by a flag, its private   *)
(* data, and the payload that is left.                                     *)
(***************************************************************************)
EXTENDS Bits

CONSTANTS
    TsSize,       \* TS_SIZE
    Junk          \* a byte of memory nobody wrote

SyncByte == 71
NO_SYNC_BYTE == -2

\* bs_pos: the byte the cursor is at, or the end.
bs_pos(c) == Lesser(BytePos(c), Len(c.buf))

\* The first flag is the first bit.
AfFlags == {"discontinuity", "random_access", "es_priority", "PCR", "OPCR", "splicing_point",
            "private_data", "extension"}
FlagsAt(c) ==
    LET f == Fields(c, <<1, 1, 1, 1, 1, 1, 1, 1>>)
    IN [discontinuity |-> f[1], random_access |-> f[2], es_priority |-> f[3], PCR |-> f[4], OPCR |-> f[5],
        splicing_point |-> f[6], private_data |-> f[7], extension |-> f[8]]
NoFlags == [f \in AfFlags |-> 0]

\* The private data: its announced length, of which no more is copied than the packet holds.
PaddedTo(copied, len, byte) == copied \o [i \in 1 .. len - Len(copied) |-> byte]

PrivateOf(from, len) == [bytes |-> PaddedTo(NextBytes(from, len), len, Junk), to |-> SkipBytes(from, len)]

ReadPrivate(c) == PrivateOf(Skip(c, 8), Value(c, 8))

\* After the extension the cursor is moved by its length once more than what was read of it.
SkipOnce(to, from, len) == SkipBytes(to, len + bs_pos(to) - bs_pos(from))

\* The fields: ltw, piecewise rate, seamless splice.
PastExtension(from, has) == Skip(from, 8 + 16 * has[1] + 24 * has[2] + 40 * has[3])

SkipExtension(c) ==
    LET from == Skip(c, 8)
    IN SkipOnce(PastExtension(from, Fields(from, <<1, 1, 1>>)), from, Value(c, 8))

\* To the end of the field, also back when what was read is longer.
SkipStuffing(c, start, len) == SkipBytes(c, len - (bs_pos(c) - start))

\* The optional fields are looked at when the length says that there is more than the flags.
PastTimes(from, has) == Skip(from, 8 + 48 * has.PCR + 48 * has.OPCR + 8 * has.splicing_point)

FieldsAfter(private, from, flags, has, len) ==
    [flags |-> flags, private |-> private.bytes,
     to |-> SkipStuffing(IF has.extension = 1 THEN SkipExtension(private.to) ELSE private.to, bs_pos(from), len)]

FieldsFrom(from, flags, has, len) ==
    LET private == IF has.private_data = 1 THEN ReadPrivate(PastTimes(from, has))
                   ELSE [bytes |-> <<>>, to |-> PastTimes(from, has)]
    IN FieldsAfter(private, from, flags, has, len)

NoField(c) == [flags |-> NoFlags, private |-> <<>>, to |-> c]

FieldOf(from, flags, len) ==
    IF len = 0 THEN NoField(from) ELSE FieldsFrom(from, flags, IF len > 1 THEN flags ELSE NoFlags, len)

ts_read_adaptation_field(c) == FieldOf(Skip(c, 8), FlagsAt(Skip(c, 8)), Value(c, 8))

PacketOf(h, af, has_payload) ==
    [res |-> IF has_payload THEN TsSize ELSE bs_pos(af.to),
     transport_error |-> h[2], unit_start |-> h[3], PID |-> h[5], continuity_counter |-> h[8],
     flags |-> af.flags, private |-> af.private,
     payload |-> IF has_payload THEN NextBytes(af.to, TsSize - bs_pos(af.to)) ELSE <<>>]

AfterHeader(h, c) ==
    IF h[1] # SyncByte THEN [res |-> NO_SYNC_BYTE]
    ELSE PacketOf(h, IF h[7] >= 2 THEN ts_read_adaptation_field(c) ELSE NoField(c), h[7] % 2 = 1)

ts_read(buf) ==
    LET c == AtStart(buf)
    IN AfterHeader(Fields(c, <<8, 1, 1, 1, 13, 2, 2, 4>>), Skip(c, 32))

-----------------------------------------------------------------------------
\* ts_parse_scte128_af_private: elements of a tag, a length and that many bytes; the length of
\* an element with a format identifier counts the identifier and wraps around when it is less.
FormatTag == 223

\* Mutant: the identifier is read and not taken off.
WholeLength(named, announced) == announced

DataLength(named, announced) == IF named THEN announced - 4 ELSE announced

ElementOf(tag, format, data, datalen) ==
    [tag |-> tag, format |-> format, datalen |-> datalen, data |-> NextBytes(data, datalen), from |-> data,
     to |-> SkipBytes(data, datalen)]

ElementAt(c) ==
    LET tag == Value(c, 8)
        announced == Value(Skip(c, 8), 8)
    IN IF tag = FormatTag
       THEN ElementOf(tag, Fields(Skip(c, 16), <<16, 16>>), Skip(c, 48), DataLength(TRUE, announced))
       ELSE ElementOf(tag, <<0, 0>>, Skip(c, 16), DataLength(FALSE, announced))

\* A copied element is padded with the zeros of calloc.
Element(e) == [tag |-> e.tag, format |-> e.format, data |-> PaddedTo(e.data, e.datalen, 0)]

RECURSIVE ElementsFrom(_, _), ElementThen(_, _)
ElementThen(e, list) ==
    IF e.datalen < 0 THEN [res |-> Junk, list |-> list]
    ELSE IF e.datalen = 0 THEN ElementsFrom(e.from, list)
    ELSE IF e.data = <<>> THEN [res |-> 0, list |-> list]
    ELSE ElementsFrom(e.to, Append(list, Element(e)))

ElementsFrom(c, list) ==
    IF BytesLeft(c) = 0 THEN [res |-> 1, list |-> list] ELSE ElementThen(ElementAt(c), list)

ts_parse_scte128_af_private(private) ==
    IF private = <<>> THEN [res |-> 0, list |-> <<>>] ELSE ElementsFrom(AtStart(private), <<>>)
=============================================================================
