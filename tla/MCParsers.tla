----------------------------- MODULE MCParsers ------------------------------
(***************************************************************************)
(* The parsers on what a sender writes (module Wire), on packets of any    *)
(* content, and on messages that are cut short.  Every state is a message  *)
(* with what the program makes of it.  The packets are shorter than in the *)
(* standard, otherwise the numbers of the formats are real ones.           *)
(***************************************************************************)
EXTENDS Integers, Sequences, FiniteSets, TLC

CONSTANTS Nil, Junk, Forever

VARIABLES
    meant,        \* what the sender meant: a record with its kind
    read          \* what the program made of it

TsSize == 64

W == INSTANCE Wire
T == INSTANCE TsPacket
E == INSTANCE EbpParser WITH NULL <- Nil
P == INSTANCE PesPacket
A == INSTANCE AccessUnit
D == INSTANCE Descriptors WITH NULL <- Nil
S == INSTANCE SpliceInfo WITH NULL <- Nil

Bit == 0 .. 1
ListsOf(set, n) == UNION {[1 .. k -> set] : k \in 0 .. n}
FirstOf(set) == CHOOSE i \in set : \A j \in set : i <= j

-----------------------------------------------------------------------------
\* Transport packets with private data.
Ebps ==
    {e \in [fragment : {1}, segment : {0}, sap : Bit, grouping : Bit, time : Bit, concealment : {1},
            extension : Bit, partition_flag : Bit, sap_type : {5}, ids : {<<35>>, <<1, 126, 127>>},
            seconds : {65543}, fraction : {131081}, partitions : {3}] :
        e.partition_flag <= e.extension /\ (e.grouping = 0 => e.ids = <<35>>)}

EbpElement(e) == [tag |-> 223, format |-> <<69, 66, 80, 48>>, bytes |-> W!EbpBytes(e)]
Other == [tag |-> 223, format |-> <<1, 2, 3, 4>>, bytes |-> <<8>>]
Plain(n) == [tag |-> 2, format |-> <<0, 0, 0, 0>>, bytes |-> [k \in 1 .. n |-> 223]]

ElementLists(e) ==
    {<<>>, <<Plain(2)>>, <<EbpElement(e)>>, <<Plain(1), EbpElement(e)>>, <<EbpElement(e), Plain(0), Other>>,
     <<EbpElement(e), EbpElement(e)>>}

\* The payload fills the packet.
Filled(p) == [p EXCEPT !.payload = [k \in 1 .. TsSize - Len(W!PacketBytes(p)) |-> k]]

TsOf(e, list, clock, unit_start, stuffing) ==
    Filled([kind |-> "packet", ebp |-> e, elements |-> list, random |-> 1, clock |-> clock, stuffing |-> stuffing,
            unit_start |-> unit_start, PID |-> 300, counter |-> 9, payload |-> <<>>])

TsPackets ==
    UNION {{TsOf(e, list, clock, unit_start, stuffing) :
                list \in ElementLists(e), clock \in Bit, unit_start \in Bit, stuffing \in {0, 2}} : e \in Ebps}

PacketRead(wire) ==
    LET ts == T!ts_read(wire)
        private == T!ts_parse_scte128_af_private(ts.private)
        found == E!getEBP(private.list, ts.unit_start)
    IN [ts |-> ts, list |-> private.list, ebp |-> found,
        copy |-> IF found.ebp = Nil THEN Nil ELSE E!ebp_copy(found.ebp)]

\* A packet of any field length and flags, everything after them the same byte.
AnyPackets ==
    {[kind |-> "bytes", afc |-> afc, len |-> len,
      wire |-> <<71, 0, 33, 16 * afc + 5, len, flags>> \o [k \in 1 .. TsSize - 6 |-> fill]] :
        afc \in 0 .. 3, len \in {0, 1, 2, 7, 8, 20, 59, 60, 200}, flags \in {0, 1, 2, 16, 27, 255},
        fill \in {0, 3, 32, 255}}

\* The grouping ids of a boundary point: 77 is in none of the ranges the comment of the check gives.
Groups == {[kind |-> "groups", ids |-> ids] : ids \in ListsOf({0, 35, 77, 126, 127}, 4) \ {<<>>}}
GroupsRead(g) == E!ebp_validate_groups([flags |-> [grouping |-> 1], grouping_ids |-> g.ids])

-----------------------------------------------------------------------------
\* PES packets of one access unit: a slice of an IDR picture, another slice, one with an escaped byte,
\* a delimiter.
Nal(code, type, rest) == [type |-> type, bytes |-> code \o <<96 + type>> \o rest]
Nals == {Nal(<<0, 0, 1>>, 5, <<7>>), Nal(<<0, 0, 0, 1>>, 1, <<128>>), Nal(<<0, 0, 1>>, 1, <<0, 0, 3, 1, 128>>),
         Nal(<<0, 0, 1>>, 9, <<240>>)}
PayloadOf(units) == W!FlattenSeq([k \in DOMAIN units |-> units[k].bytes])

\* Whole, or in two parts, of which the second may be lost.
PesPackets ==
    {p \in [kind : {"pes"}, stream_id : {224, W!PrivateStream2}, pts : Bit, dts : Bit, trick : Bit, crc : Bit,
            extension : Bit, sequence : Bit, second : {-1, 1, 6}, stuffing : {0, 3}, time : {<<1, 32767, 3>>},
            units : ListsOf(Nals, 2), split : {8, 1000}, lost : Bit] :
        /\ p.dts <= p.pts /\ p.trick = p.crc /\ p.sequence <= p.extension /\ (p.extension = 0 => p.second = -1)
        /\ p.lost = 1 => p.split < 1000
        /\ p.stream_id # 224 => p.pts + p.trick + p.crc + p.extension + p.stuffing = 0}

Vec(p) ==
    LET bytes == W!PesBytes(p @@ [payload |-> PayloadOf(p.units)])
    IN IF p.split >= Len(bytes) THEN <<bytes>>
       ELSE IF p.lost = 1 THEN <<SubSeq(bytes, 1, p.split)>>
       ELSE <<SubSeq(bytes, 1, p.split), SubSeq(bytes, p.split + 1, Len(bytes))>>

\* Past the payload the memory holds one byte again and again.
PesRead(wire) ==
    LET pes == P!pes_read_vec(wire)
    IN [pes |-> pes, saps |-> {A!getSAPType("AVC", pes.payload, TRUE, beyond) : beyond \in {0, 1, 255}}]

-----------------------------------------------------------------------------
\* Descriptor loops: what was meant, the bytes that say it, and the body the program should hold.
Meant(tag, bytes, body) == [tag |-> tag, bytes |-> bytes, body |-> body]

Partition(explicit, id, boundary, represented) ==
    [explicit |-> explicit, id |-> id, boundary |-> boundary * explicit, represented |-> represented,
     distance |-> 300 * explicit, sap_max |-> 2 * boundary * explicit, acquisition |-> explicit,
     pid |-> 300 * (1 - explicit), representation |-> 5]
Held(p) ==
    [f \in {"explicit", "id", "boundary", "distance", "sap_max", "acquisition", "pid"} |-> p[f]]
    @@ [representation |-> IF p.represented = 1 THEN <<0, 0, 0, 5>> ELSE <<>>]

EbpDescriptors ==
    {[ticks |-> 90, width |-> width, partitions |-> list] :
        width \in {16, 40}, list \in {<<>>} \cup {<<Partition(x, 1, m, r)>> : x, m, r \in Bit}
                                    \cup {<<Partition(x, 1, 1, 0), Partition(1, 2, m, 0)>> : x, m \in Bit}}
HeldEbp(d) ==
    [ticks_per_second |-> d.ticks,
     partitions |-> IF d.partitions = <<>> THEN Nil ELSE [i \in DOMAIN d.partitions |-> Held(d.partitions[i])]]

Languages == {<<<<6647393, 0>>>>, <<<<6647393, 0>>, <<7565921, 3>>>>}
Names == {<<>>, <<<<6647393, <<83, 68>>>>, <<7565921, <<>>>>>>}

\* Audio says nothing about its languages, or stops after its codes.
AC3s ==
    {Meant(129, W!AC3Bytes(mono, text, n), 6 + n) : mono \in BOOLEAN, text \in {<<>>, <<65, 67>>}, n \in 0 .. 2}
    \cup {Meant(129, SubSeq(W!AC3Bytes(FALSE, <<>>, 0), 1, 3), 1)}

Unknown(n) == Meant(5, [k \in 1 .. n |-> 233], Nil)

Messages ==
    {Meant(10, W!LanguageBytes(list), list) : list \in Languages}
    \cup {Meant(9, W!CABytes(<<2, 300, data>>), <<2, 300, data>>) : data \in {<<>>, <<9, 10>>}}
    \cup {Meant(14, W!BitrateBytes(70000), <<70000>>), Unknown(0), Unknown(3)}
    \cup {Meant(163, W!NameBytes(list), list) : list \in Names}
    \cup AC3s
    \cup {Meant(233, W!EbpDescriptorBytes(d), HeldEbp(d)) : d \in EbpDescriptors}

LoopBytes(list) == W!FlattenSeq([k \in DOMAIN list |-> W!DescriptorBytes(list[k])])

\* One byte short, or with others behind it.
Loops ==
    {[kind |-> "loop", list |-> list, cut |-> cut] : list \in ListsOf(Messages, 2) \ {<<>>}, cut \in Bit}

LoopRead(l, wire) ==
    LET there == IF l.cut = 1 THEN SubSeq(wire, 1, Len(wire) - 1) ELSE wire \o <<255, 255>>
        loop == D!read_descriptor_loop(T!AtStart(there), Len(wire))
    IN loop @@ [ebp |-> IF loop.ends THEN D!getEBPDescriptor(loop.list) ELSE Nil]

-----------------------------------------------------------------------------
\* Splice sections.
Times == {[specified |-> 1, pts |-> 300000], [specified |-> 0, pts |-> 0]}
Breaks == {[auto_return |-> 1, duration |-> 5000]}

\* A component has a time when the splice is immediate, as the reader takes it.
Components(immediate) ==
    LET one == {[tag |-> 9, time |-> t] : t \in IF immediate = 1 THEN Times ELSE {Nil}}
    IN {Nil} \cup (ListsOf(one, 2) \ {<<>>})

EventComponents == {Nil, <<[tag |-> 9, time |-> 70000]>>, <<[tag |-> 9, time |-> 1], [tag |-> 8, time |-> 2]>>}

Cancelled(n) == [id |-> 77, cancel |-> 1, flags |-> [k \in 1 .. n |-> 0], components |-> Nil, break |-> Nil,
                 avails |-> <<258, 1, 2>>]

Inserts ==
    {Cancelled(4) @@ [time |-> Nil]} \cup
    UNION {[id : {77}, cancel : {0}, flags : {f}, time : IF f[2] = 1 /\ f[4] = 0 THEN Times ELSE {Nil},
            components : IF f[2] = 1 THEN {Nil} ELSE Components(f[4]), break : IF f[3] = 1 THEN Breaks ELSE {Nil},
            avails : {<<258, 1, 2>>}] : f \in [1 .. 4 -> Bit]}

Events ==
    {Cancelled(3) @@ [time |-> 0]} \cup
    UNION {[id : {77}, cancel : {0}, flags : {f}, time : IF f[2] = 1 THEN {70000} ELSE {0},
            components : IF f[2] = 1 THEN {Nil} ELSE EventComponents, break : IF f[3] = 1 THEN Breaks ELSE {Nil},
            avails : {<<258, 1, 2>>}] : f \in [1 .. 3 -> Bit]}

Commands ==
    {<<type, Nil>> : type \in {0, 7}} \cup {<<4, list>> : list \in ListsOf(Events, 2)} \cup {<<5, x>> : x \in Inserts}
    \cup {<<6, t>> : t \in Times} \cup {<<255, [identifier |-> 7, bytes |-> bytes]>> : bytes \in {<<>>, <<5, 6>>}}

Splices ==
    {[kind |-> "splice", type |-> command[1], command |-> command[2], encrypted |-> encrypted,
      pts_adjustment |-> 400000, crc |-> 65537] : command \in Commands, encrypted \in Bit}

SpliceRead(wire) ==
    LET sis == S!scte35_splice_info_section_read(T!AtStart(wire))
    IN [section |-> sis, copies |-> S!scte35_splice_info_section_copy(sis)]

-----------------------------------------------------------------------------
With(message, reading) == [meant |-> message, read |-> reading]
OnWire(message, wire) == message @@ [wire |-> wire]

Cases ==
    {With(p, PacketRead(p.wire)) : p \in {OnWire(x, W!PacketBytes(x)) : x \in TsPackets}}
    \cup {With(p, T!ts_read(p.wire)) : p \in AnyPackets}
    \cup {With(g, GroupsRead(g)) : g \in Groups}
    \cup {With(p, PesRead(p.wire)) : p \in {OnWire(x, Vec(x)) : x \in PesPackets}}
    \cup {With(l, LoopRead(l, l.wire)) : l \in {OnWire(x, LoopBytes(x.list)) : x \in Loops}}
    \cup {With(s, SpliceRead(s.wire)) : s \in {OnWire(x, W!SectionBytes(x, Nil)) : x \in Splices}}

Read == \E case \in Cases : meant = case.meant /\ read = case.read

(***************************************************************************)
(* What is read is what was sent.                                          *)
(***************************************************************************)
\* A packet: its header, its payload and the elements of its private data, those without bytes left
\* out; its boundary point only when there is one and a PES packet starts, and the copy that is posted is
\* the same (ts_read, ts_parse_scte128_af_private, getEBP, ebp_read, ebp_copy).
EbpMeant(e) ==
    [flags |-> [f \in {"fragment", "segment", "sap", "grouping", "time", "concealment", "extension"} |-> e[f]],
     partition_flag |-> e.partition_flag, sap_type |-> e.sap * e.sap_type,
     grouping_ids |-> IF e.grouping = 1 THEN e.ids ELSE <<>>,
     acquisition_time |-> IF e.time = 1 THEN <<1, 7, 2, 9>> ELSE <<0, 0, 0, 0>>,
     partitions |-> e.partition_flag * e.partitions]

PacketAsSent ==
    meant.kind = "packet" =>
        LET points == {i \in DOMAIN meant.elements : meant.elements[i] = EbpElement(meant.ebp)}
            full == SelectSeq(meant.elements, LAMBDA e : e.bytes # <<>>)
        IN /\ read.ts.res = TsSize /\ read.ts.payload = meant.payload
           /\ <<read.ts.unit_start, read.ts.PID, read.ts.continuity_counter>> = <<meant.unit_start, meant.PID, meant.counter>>
           /\ read.ts.flags.random_access = 1 /\ read.ts.flags.PCR = meant.clock
           /\ [i \in DOMAIN read.list |-> <<read.list[i].tag, read.list[i].data>>] =
                  [i \in DOMAIN full |-> <<full[i].tag, full[i].bytes>>]
           /\ read.ebp = IF points = {} THEN [ebp |-> Nil, passes |-> TRUE]
                         ELSE IF Cardinality(points) = 1 /\ meant.unit_start = 1
                         THEN [ebp |-> EbpMeant(meant.ebp), passes |-> TRUE]
                         ELSE [ebp |-> Nil, passes |-> FALSE]
           /\ read.copy = read.ebp.ebp

\* Whatever a packet holds, its payload is what follows the length its adaptation field announces, also
\* when the fields the flags announce need more room, and nothing outside of the packet (ts_read).
PayloadIsWhatIsLeft ==
    meant.kind = "bytes" =>
        read.payload = CASE meant.afc = 1 -> SubSeq(meant.wire, 5, TsSize)
                         [] meant.afc = 3 -> SubSeq(meant.wire, 6 + meant.len, TsSize)
                         [] OTHER -> <<>>

\* Both: what is sent in a packet is what is read from it, and no more.
PacketsAsSent == PacketAsSent /\ PayloadIsWhatIsLeft

\* Groups, each with an optional start and then an optional end after its id; a group is there once.
StartAndEnd == {126, 127}
AfterOptional(ids, id) == IF ids # <<>> /\ Head(ids) = id THEN Tail(ids) ELSE ids
RECURSIVE AreGroups(_)
AreGroups(ids) ==
    IF ids = <<>> THEN TRUE
    ELSE Head(ids) \notin StartAndEnd /\ AreGroups(AfterOptional(AfterOptional(Tail(ids), 126), 127))
GroupsOnce(ids) == \A i, j \in DOMAIN ids : i # j /\ ids[i] = ids[j] => ids[i] \in StartAndEnd


\* What the comment of the check says: "except for 126/127, group id cannot appear more than once" (ebp.c:123).
\* The code compares every id with every other, the starts and the ends too.
StartsAndEndsMayRepeat ==
    meant.kind = "groups" /\ AreGroups(meant.ids) /\ GroupsOnce(meant.ids) => read = 0

\* A PES packet in any number of parts: its time and its payload; nothing of either when the header is
\* not complete.  Only a second extension of fewer than three bytes costs the payload its first bytes
\* (pes_read_vec, pes_read_header).
HeaderThere(p) ==
    LET whole == W!PesBytes(p @@ [payload |-> <<>>])
    IN p.lost = 0 \/ Len(W!FlattenSeq(p.wire)) >= Len(whole)

PesAsSent ==
    meant.kind = "pes" =>
        IF ~HeaderThere(meant) THEN read.pes = [status |-> 0, PTS |-> <<0, 0, 0>>, payload |-> <<>>]
        ELSE /\ read.pes.PTS = IF meant.pts = 1 THEN meant.time ELSE <<0, 0, 0>>
             /\ LET payload == PayloadOf(meant.units)
                    late == IF meant.second \in 0 .. 2 /\ meant.stuffing = 0 THEN 3 - meant.second ELSE 0
                IN meant.lost = 0 => read.pes.payload = SubSeq(payload, late + 1, Len(payload))

\* An access unit is judged by the first slice among its units, whatever lies behind it in memory
\* (getSAPType_AVC, find_nal_unit, nal_to_rbsp).
SliceDecides ==
    meant.kind = "pes" /\ read.pes.payload = PayloadOf(meant.units) =>
        LET slices == {i \in DOMAIN meant.units : meant.units[i].type \in {1, 5}}
        IN read.saps = {IF slices = {} THEN A!ERROR ELSE IF meant.units[FirstOf(slices)].type = 5 THEN 1 ELSE 2}

\* Both: what a PES packet holds is read from it, and its access unit is judged by it.
UnitsAsSent == PesAsSent /\ SliceDecides

\* The descriptors of a loop are read one by one to its end, although each reader goes by its own syntax
\* and not by the announced length; a loop that is cut short never ends.  The first boundary descriptor
\* is found, its copy is the same, and the first partition of an id answers for it
\* (read_descriptor_loop, the readers, getEBPDescriptor, ebp_descriptor_copy, get_partition).
Marks(list, id) ==
    LET of == {i \in DOMAIN list : list[i].id = id}
    IN of # {} /\ list[FirstOf(of)].boundary = 1

QueriesAnswered(d) ==
    /\ D!ebp_descriptor_copy(d) = d
    /\ \A id \in 1 .. 2 :
          d.partitions # Nil => /\ D!MarksBoundary(d, id) = Marks(d.partitions, id)
                                 /\ D!SAPMax(d, id) = IF Marks(d.partitions, id) THEN 2 ELSE 0

DescriptorsAsSent ==
    meant.kind = "loop" =>
        /\ read.ends <=> meant.cut = 0
        /\ read.ends =>
              /\ read.at = Len(meant.wire)
              /\ read.list = [i \in DOMAIN meant.list |->
                                IF meant.list[i].tag = 5 THEN Nil
                                ELSE [tag |-> meant.list[i].tag, body |-> meant.list[i].body]]
              /\ LET ebps == {i \in DOMAIN meant.list : meant.list[i].tag = 233}
                 IN /\ read.ebp = IF ebps = {} THEN Nil ELSE meant.list[FirstOf(ebps)].body
                    /\ ebps # {} => QueriesAnswered(read.ebp)

\* A section without descriptors is read to its last byte and as it was sent.  A copy of it is what was
\* sent, but for two things: of the components of an insertion the tags alone are sure, not their times;
\* and a schedule with an event that has no duration cannot be copied, the attempt ends the process.
\* The checks of the tool copy insertions and time signals (scte35_splice_info_section_read and _copy,
\* the getters).
WithoutTimes(command) ==
    IF command.components = Nil THEN command
    ELSE [command EXCEPT !.components = [i \in DOMAIN command.components |-> command.components[i].tag]]

SpliceAsSent ==
    meant.kind = "splice" =>
        LET s == meant
            expected == [pts_adjustment |-> s.pts_adjustment, type |-> s.type, command |-> s.command,
                         descriptors |-> Nil, crc |-> s.crc, ends |-> Len(s.wire)]
        IN /\ read.section = expected
           /\ S!get_splice_insert(read.section) = (IF s.type = 5 THEN s.command ELSE Nil)
           /\ S!get_splice_insert_eventID(read.section) = (IF s.type = 5 THEN s.command.id ELSE 0)
           /\ S!get_time_signal(read.section) = (IF s.type = 6 THEN s.command ELSE Nil)
           /\ S!get_splice_insert_PTS(read.section) =
                 IF s.type = 5 /\ s.command.time # Nil /\ s.command.time.specified = 1 THEN 700000 ELSE 0
           /\ \A copy \in read.copies :
                 IF s.type = 5
                 THEN [copy EXCEPT !.command = WithoutTimes(@)] = [expected EXCEPT !.command = WithoutTimes(@)]
                 ELSE IF s.type = 4 /\ \E i \in DOMAIN s.command : s.command[i].break = Nil
                 THEN copy = S!Crash
                 ELSE copy = expected
=============================================================================
