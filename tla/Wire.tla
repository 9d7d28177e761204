-------------------------------- MODULE Wire --------------------------------
(***************************************************************************)
(* The sender's side: what a transport packet, a PES packet, a descriptor, *)
(* a boundary point and a splice section look like when they are written   *)
(* as the syntax tables of the standards lay them out.  The parsers are    *)
(* compared with it.                                                       *)
(***************************************************************************)
EXTENDS Integers, SequencesExt

\* A layout is a list of fields <<width, number>>; its bytes, the highest bit first.
BitsOf(field) ==
    [i \in 1 .. field[1] |-> IF field[1] - i > 30 THEN 0 ELSE (field[2] \div 2^(field[1] - i)) % 2]

Pack(fields) ==
    LET bits == FlattenSeq([k \in DOMAIN fields |-> BitsOf(fields[k])])
        byte(k) == LET from(i) == bits[8 * (k - 1) + i]
                   IN 128 * from(1) + 64 * from(2) + 32 * from(3) + 16 * from(4)
                      + 8 * from(5) + 4 * from(6) + 2 * from(7) + from(8)
    IN [k \in 1 .. Len(bits) \div 8 |-> byte(k)]

Octets(bytes) == [k \in DOMAIN bytes |-> <<8, bytes[k]>>]
Flags(f) == [k \in DOMAIN f |-> <<1, f[k]>>]
Each(list, layout(_)) == FlattenSeq([k \in DOMAIN list |-> layout(list[k])])
If(flag, fields) == IF flag = 1 THEN fields ELSE <<>>
Filler(n, byte) == [k \in 1 .. n |-> byte]

-----------------------------------------------------------------------------
\* A boundary point, from its flags on.
EbpBytes(e) ==
    Pack(Flags(<<e.fragment, e.segment, e.sap, e.grouping, e.time, e.concealment>>) \o <<<<1, 1>>, <<1, e.extension>>>>
         \o If(e.extension, <<<<1, e.partition_flag>>, <<7, 127>>>>)
         \o If(e.sap, <<<<3, e.sap_type>>, <<5, 31>>>>)
         \o If(e.grouping, FlattenSeq([k \in DOMAIN e.ids |->
                <<<<1, IF k < Len(e.ids) THEN 1 ELSE 0>>, <<7, e.ids[k]>>>>]))
         \o If(e.time, <<<<32, e.seconds>>, <<32, e.fraction>>>>)
         \o If(e.partition_flag, <<<<8, e.partitions>>>>))

\* An element of the private data: one of a registered format has its identifier in front of its bytes.
ElementBytes(e) ==
    IF e.tag = 223 THEN <<e.tag, Len(e.bytes) + 4>> \o e.format \o e.bytes
    ELSE <<e.tag, Len(e.bytes)>> \o e.bytes

\* A transport packet with a clock reference, private data, stuffing and a payload, the length of the field
\* counted from after itself.
PacketBytes(p) ==
    LET private == FlattenSeq([k \in DOMAIN p.elements |-> ElementBytes(p.elements[k])])
        has == IF p.elements = <<>> THEN 0 ELSE 1
        field == Pack(Flags(<<0, p.random, 0, p.clock, 0, 0, has, 0>>) \o If(p.clock, <<<<48, 1>>>>)
                      \o If(has, <<<<8, Len(private)>>>> \o Octets(private))) \o Filler(p.stuffing, 255)
    IN Pack(<<<<8, 71>>, <<1, 0>>, <<1, p.unit_start>>, <<1, 0>>, <<13, p.PID>>, <<2, 0>>, <<2, 3>>,
              <<4, p.counter>>, <<8, Len(field)>>>>) \o field \o p.payload

-----------------------------------------------------------------------------
\* A PES packet: a time of three parts, each with its marker; the other optional fields announced by a flag.
Time33(prefix, t) == <<<<4, prefix>>, <<3, t[1]>>, <<1, 1>>, <<15, t[2]>>, <<1, 1>>, <<15, t[3]>>, <<1, 1>>>>

\* A private stream of the second kind has no optional header.
PrivateStream2 == 191

PesBytes(p) ==
    LET ext2 == p.second >= 0
        extension == Flags(<<0, 0, p.sequence, 0>>) \o <<<<3, 7>>, <<1, IF ext2 THEN 1 ELSE 0>>>>
                     \o If(p.sequence, <<<<16, 32896>>>>)
                     \o (IF ext2 THEN <<<<1, 1>>, <<7, p.second>>>> \o Octets(Filler(p.second, 0)) ELSE <<>>)
        fields == Pack(If(p.pts, Time33(2 + p.dts, p.time)) \o If(p.dts, Time33(1, p.time))
                       \o If(p.trick, <<<<8, 255>>>>) \o If(p.crc, <<<<16, 257>>>>) \o If(p.extension, extension))
                  \o Filler(p.stuffing, 255)
        header == Pack(<<<<2, 2>>, <<6, 0>>>> \o Flags(<<p.pts, p.dts, 0, 0, p.trick, 0, p.crc, p.extension>>)
                       \o <<<<8, Len(fields)>>>>) \o fields
    IN Pack(<<<<24, 1>>, <<8, p.stream_id>>, <<16, 0>>>>)
       \o (IF p.stream_id = PrivateStream2 THEN <<>> ELSE header) \o p.payload

-----------------------------------------------------------------------------
\* The bodies of the descriptors.
LanguageBytes(list) == Pack(Each(list, LAMBDA l : <<<<24, l[1]>>, <<8, l[2]>>>>))
CABytes(d) == Pack(<<<<16, d[1]>>, <<3, 7>>, <<13, d[2]>>>>) \o d[3]
BitrateBytes(rate) == Pack(<<<<2, 3>>, <<22, rate>>>>)
NameBytes(list) ==
    Pack(<<<<8, Len(list)>>>> \o Each(list, LAMBDA n : <<<<24, n[1]>>, <<8, 1>>, <<16, 0>>, <<8, Len(n[2])>>>> \o Octets(n[2])))

\* Of audio: as many of the optional parts, from the second language of one channel in two on, as there are.
AC3Bytes(mono, text, languages) ==
    Pack(<<<<8, 8>>, <<8, 40>>, <<3, 0>>, <<4, IF mono THEN 0 ELSE 2>>, <<1, 1>>, <<8, 255>>>>
         \o (IF mono THEN <<<<8, 255>>>> ELSE <<>>)
         \o <<<<8, 0>>, <<7, Len(text)>>, <<1, 1>>>> \o Octets(text)
         \o <<<<1, IF languages > 0 THEN 1 ELSE 0>>, <<1, IF languages > 1 THEN 1 ELSE 0>>, <<6, 63>>>>
         \o Octets(Filler(3 * languages, 97)))

\* Partitions: the flag for a representation comes before the id, a distance has the announced width.
PartitionLayout(p, width) ==
    <<<<1, p.explicit>>, <<1, p.represented>>, <<5, p.id>>, <<1, p.boundary>>>>
    \o (IF p.explicit = 1
        THEN <<<<width, p.distance>>>> \o If(p.boundary, <<<<3, p.sap_max>>, <<4, 15>>>>)
             \o (IF p.boundary = 0 THEN <<<<7, 127>>>> ELSE <<>>) \o <<<<1, p.acquisition>>>>
        ELSE <<<<13, p.pid>>, <<3, 7>>>>)
    \o If(p.represented, <<<<64, p.representation>>>>)

EbpDescriptorBytes(d) ==
    LET timescale == IF d.ticks = 1 THEN 0 ELSE 1
        width == IF timescale = 1 THEN d.width ELSE 8
    IN Pack(<<<<5, Len(d.partitions)>>, <<1, timescale>>, <<2, 3>>>>
            \o If(timescale, <<<<21, d.ticks>>, <<3, width \div 8 - 1>>>>)
            \o Each(d.partitions, LAMBDA p : PartitionLayout(p, width)))

DescriptorBytes(d) == <<d.tag, Len(d.bytes)>> \o d.bytes

-----------------------------------------------------------------------------
\* A splice section from after its length; times of 33 bits follow 6 reserved ones.
SpliceTime(t) == IF t.specified = 1 THEN <<<<1, 1>>, <<6, 63>>, <<33, t.pts>>>> ELSE <<<<1, 0>>, <<7, 127>>>>
Break(d) == <<<<1, d.auto_return>>, <<6, 63>>, <<33, d.duration>>>>
Avails(a) == <<<<16, a[1]>>, <<8, a[2]>>, <<8, a[3]>>>>

SpliceHead(x) == <<<<32, x.id>>, <<1, x.cancel>>, <<7, 127>>>>
Cancelled(x) == x.cancel = 1

\* Whether a component has a time is what the sender says.
InsertLayout(x, none) ==
    SpliceHead(x)
    \o (IF Cancelled(x) THEN <<>>
        ELSE Flags(x.flags) \o <<<<4, 15>>>>
             \o (IF x.time # none THEN SpliceTime(x.time) ELSE <<>>)
             \o (IF x.flags[2] = 1 THEN <<>>
                 ELSE IF x.components = none THEN <<<<8, 0>>>>
                 ELSE <<<<8, Len(x.components)>>>>
                      \o Each(x.components, LAMBDA k : <<<<8, k.tag>>>> \o (IF k.time = none THEN <<>> ELSE SpliceTime(k.time))))
             \o (IF x.break # none THEN Break(x.break) ELSE <<>>))
    \o Avails(x.avails)

EventLayout(x, none) ==
    SpliceHead(x)
    \o (IF Cancelled(x) THEN <<>>
        ELSE Flags(x.flags) \o <<<<5, 31>>>>
             \o (IF x.flags[2] = 1 THEN <<<<32, x.time>>>>
                 ELSE IF x.components = none THEN <<<<8, 0>>>>
                 ELSE <<<<8, Len(x.components)>>>> \o Each(x.components, LAMBDA k : <<<<8, k.tag>>, <<32, k.time>>>>))
             \o (IF x.break # none THEN Break(x.break) ELSE <<>>))
    \o Avails(x.avails)

CommandLayout(type, x, none) ==
    CASE type = 4 -> <<<<8, Len(x)>>>> \o Each(x, LAMBDA e : EventLayout(e, none))
      [] type = 5 -> InsertLayout(x, none)
      [] type = 6 -> SpliceTime(x)
      [] type = 255 -> <<<<32, x.identifier>>>> \o Octets(x.bytes)
      [] OTHER -> <<>>

SectionBytes(s, none) ==
    LET command == CommandLayout(s.type, s.command, none)
        length == Len(Pack(command))
    IN Pack(<<<<8, 0>>, <<1, s.encrypted>>, <<6, 0>>, <<33, s.pts_adjustment>>, <<8, 0>>, <<12, 4095>>, <<12, length>>,
              <<8, s.type>>>> \o command \o <<<<16, 0>>>>
            \o (IF s.encrypted = 1 THEN <<<<32, 1>>>> ELSE <<>>) \o <<<<32, s.crc>>>>)
=============================================================================
