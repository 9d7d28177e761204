---------------------------- MODULE Descriptors -----------------------------
(***************************************************************************)
(* The descriptors of a program map (tslib/descriptors.c, the EBP          *)
(* descriptor of ebp.c): a list of a tag, a length and a body.  The reader *)
(* registered for the tag reads the body by its own syntax and need not    *)
(* stop where the length says.                                             *)
(***************************************************************************)
EXTENDS Bits, TLC

CONSTANTS
    NULL,
    Junk          \* what becomes of a copy of a negative length

bs_pos(c) == Lesser(BytePos(c), Len(c.buf))

CA == 9
ISO_639_LANGUAGE == 10
MAXIMUM_BITRATE == 14
AC3 == 129
COMPONENT_NAME == 163
EBP == 233

\* init_descriptors, and what main adds.
Registered == {CA, ISO_639_LANGUAGE, MAXIMUM_BITRATE, AC3, COMPONENT_NAME, EBP}

\* n numbers, each of the fields of some widths.
RECURSIVE Repeat(_, _, _)
Repeat(c, n, bits) == IF n = 0 THEN <<>> ELSE <<Fields(c, bits)>> \o Repeat(Skip(c, 32), n - 1, bits)

num_languages(length) == length \div 4

\* Codes of three letters and a type, as many as fit; what is left of the length is not skipped.
language_descriptor_read(c, length) ==
    [body |-> Repeat(c, num_languages(length), <<24, 8>>), to |-> Skip(c, 32 * num_languages(length))]

\* A list that is read so far, with what was read behind it, and where that ends.
With(list, e) == [body |-> Append(list.body, e.body), to |-> e.to]

\* One name is the bytes of its segments, each after two bytes of coding and its length.
Segment(name, bytes, len) == [body |-> name.body \o NextBytes(bytes, len), to |-> SkipBytes(bytes, len)]

RECURSIVE Segments(_, _)
Segments(name, n) ==
    IF n = 0 THEN name
    ELSE Segments(Segment(name, Skip(name.to, 24), Value(Skip(name.to, 16), 8)), n - 1)

Name(language, segments) == [body |-> <<language, segments.body>>, to |-> segments.to]

NameAt(c) == Name(Value(c, 24), Segments([body |-> <<>>, to |-> Skip(c, 32)], Value(Skip(c, 24), 8)))

RECURSIVE Names(_, _)
Names(names, n) == IF n = 0 THEN names ELSE Names(With(names, NameAt(names.to)), n - 1)

\* The number of names and of segments are those in the body, whatever length it has.
component_name_descriptor_read(c, length) == Names([body |-> <<>>, to |-> Skip(c, 8)], Value(c, 8))

\* The length of what is left once the four bytes are read.
ca_descriptor_read(c, length) ==
    LET f == Fields(c, <<16, 3, 13>>)
        data == Skip(c, 32)
    IN IF length < 4 THEN [body |-> Junk, to |-> data]
       ELSE [body |-> <<f[1], f[3], NextBytes(data, length - 4)>>, to |-> SkipBytes(data, length - 4)]

max_bitrate_descriptor_read(c, length) == [body |-> <<Value(Skip(c, 2), 22)>>, to |-> Skip(c, 24)]

\* The parts of the body that come one after the other, in bytes: the codes, langcod, langcod2 for
\* one channel in two, mainid or asvcflags, the text with its length, the flags, two languages.
LanguageParts(flags) == <<1, 3 * flags[1], 3 * flags[2]>>

TextParts(text, textlen) ==
    <<1 + textlen>> \o LanguageParts(Fields(SkipBytes(Skip(text, 8), textlen), <<1, 1>>))

AC3Parts(c) ==
    LET langcod2 == IF Value(Skip(c, 19), 4) = 0 THEN 1 ELSE 0
        text == Skip(c, 40 + 8 * langcod2)
    IN <<3, 1, langcod2, 1>> \o TextParts(text, Value(text, 7))

Total(parts, k) == LET sum[i \in 0 .. k] == IF i = 0 THEN 0 ELSE sum[i - 1] + parts[i] IN sum[k]

\* remainingBytes has 8 bits and no sign: reading ends after a part that leaves 0 of it, and what
\* is left after all of them is skipped.
Remaining(parts, k, length) == (length - Total(parts, k)) % 256

LastRead(ends) == IF ends = {} THEN 8 ELSE CHOOSE k \in ends : \A j \in ends : k <= j

ReadParts(c, parts, last, length) ==
    [body |-> last, to |-> SkipBytes(Skip(c, 8 * Total(parts, last)), Remaining(parts, last, length))]

ReadAC3(c, parts, length) ==
    ReadParts(c, parts, LastRead({k \in 1 .. 8 : Remaining(parts, k, length) = 0}), length)

ac3_descriptor_read(c, length) == ReadAC3(c, AC3Parts(c), length)

-----------------------------------------------------------------------------
\* The EBP descriptor: its partitions, each with the PID that carries its boundaries or with a
\* distance of width bits, of which bs_read_u keeps the last 32.
ebp_distance(c, width) == IF width > 32 THEN Value(Skip(c, width - 32), 32) ELSE Value(c, width)

Explicit(f, c, width) ==
    [boundary |-> f[4], distance |-> ebp_distance(c, width), sap_max |-> f[4] * Value(Skip(c, width), 3),
     acquisition |-> Value(Skip(c, width + 7), 1), pid |-> 0]

Implicit(c) == [boundary |-> 0, distance |-> 0, sap_max |-> 0, acquisition |-> 0, pid |-> Value(c, 13)]

\* After the flags and the id, and once more after what is of one kind or the other.
Represented(f, body, to) ==
    [body |-> body @@ [explicit |-> f[1], id |-> f[3],
                       representation |-> IF f[2] = 1 THEN Fields(to, <<16, 16, 16, 16>>) ELSE <<>>],
     to |-> Skip(to, 64 * f[2])]

AfterFlags(f, c, width) ==
    IF f[1] = 1 THEN Represented(f, Explicit(f, c, width), Skip(c, width + 8))
    ELSE Represented(f, Implicit(c), Skip(c, 16))

Partition(c, width) == AfterFlags(Fields(c, <<1, 1, 5, 1>>), Skip(c, 8), width)

RECURSIVE Partitions(_, _, _)
Partitions(list, n, width) ==
    IF n = 0 THEN list ELSE Partitions(With(list, Partition(list.to, width)), n - 1, width)

\* Mutant: the announced number is taken for the width.
WidthAnnounced(minus_1) == 8 * minus_1

DistanceWidth(minus_1) == 8 * (minus_1 + 1)

\* The explicit flag's bit is followed by its boundary flag, the implicit one's by a reserved bit.
EbpDescriptor(f, list) ==
    [body |-> [ticks_per_second |-> IF f[2] = 1 THEN f[4] ELSE 1,
               partitions |-> IF f[1] = 0 THEN NULL ELSE list.body],
     to |-> list.to]

PartitionsAfter(c, f) ==
    EbpDescriptor(f, Partitions([body |-> <<>>, to |-> Skip(c, 8 + 24 * f[2])], f[1],
                                IF f[2] = 1 THEN DistanceWidth(f[5]) ELSE 8))

ebp_descriptor_read(c, length) == PartitionsAfter(c, Fields(c, <<5, 1, 2, 21, 3>>))

ebp_descriptor_copy(d) ==
    [ticks_per_second |-> d.ticks_per_second,
     partitions |-> IF d.partitions = NULL THEN NULL
                    ELSE [i \in DOMAIN d.partitions |-> d.partitions[i]]]

\* The first partition of that id; without a list the code reads through a null pointer.
get_partition(d, id) ==
    IF d.partitions = NULL THEN Junk
    ELSE LET of == {i \in DOMAIN d.partitions : d.partitions[i].id = id}
         IN IF of = {} THEN NULL ELSE d.partitions[CHOOSE i \in of : \A j \in of : i <= j]

\* does_fragment_mark_boundary, does_segment_mark_boundary.
MarksBoundary(d, id) ==
    LET p == get_partition(d, id)
    IN IF p = Junk THEN Junk ELSE p # NULL /\ p.explicit = 1 /\ p.boundary = 1

\* get_fragment_SAP_max, get_segment_SAP_max.
SAPMax(d, id) ==
    LET p == get_partition(d, id)
    IN IF p = Junk THEN Junk ELSE IF p = NULL THEN 0 ELSE p.sap_max

-----------------------------------------------------------------------------
BodyOf(tag, c, length) ==
    CASE tag = CA -> ca_descriptor_read(c, length)
      [] tag = ISO_639_LANGUAGE -> language_descriptor_read(c, length)
      [] tag = MAXIMUM_BITRATE -> max_bitrate_descriptor_read(c, length)
      [] tag = AC3 -> ac3_descriptor_read(c, length)
      [] tag = COMPONENT_NAME -> component_name_descriptor_read(c, length)
      [] tag = EBP -> ebp_descriptor_read(c, length)

\* A descriptor nobody is registered for is skipped; its place in the list holds nothing.
Tagged(tag, read) == [body |-> [tag |-> tag, body |-> read.body], to |-> read.to]

descriptor_read(c) ==
    LET tag == Value(c, 8)
        length == Value(Skip(c, 8), 8)
        body == Skip(c, 16)
    IN IF tag \in Registered THEN Tagged(tag, BodyOf(tag, body, length))
       ELSE [body |-> NULL, to |-> SkipBytes(body, length)]

\* While the place is less than length bytes from the start: at the end of the bytes nothing moves
\* the place, and the loop adds descriptors of tag 0 for ever.
RECURSIVE LoopFrom(_, _)
LoopFrom(list, end) ==
    IF bs_pos(list.to) >= end \/ AtEnd(list.to)
    THEN [ends |-> bs_pos(list.to) >= end, list |-> list.body, at |-> bs_pos(list.to)]
    ELSE LoopFrom(With(list, descriptor_read(list.to)), end)

read_descriptor_loop(c, length) == LoopFrom([body |-> <<>>, to |-> c], bs_pos(c) + length)

\* The first EBP descriptor of a stream, the places that hold nothing passed over.
getEBPDescriptor(list) ==
    LET of == {i \in DOMAIN list : list[i] # NULL /\ list[i].tag = EBP}
    IN IF of = {} THEN NULL ELSE list[CHOOSE i \in of : \A j \in of : i <= j].body
=============================================================================
