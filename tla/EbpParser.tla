----------------------------- MODULE EbpParser ------------------------------
(***************************************************************************)
(* The encoder boundary point (EBP) of a transport packet: found among its *)
(* private data by getEBP, read by ebp_read (atstest/ebp.c), its grouping  *)
(* ids checked.                                                            *)
(***************************************************************************)
EXTENDS Bits, FiniteSets

CONSTANT NULL

Tag == 223
EBP0 == <<17730, 20528>>     \* the format identifier, 0x4542 0x5030

\* Grouping ids, while the bit before each says that there is another one.
RECURSIVE GroupsFrom(_, _)
GroupsFrom(c, ids) ==
    LET all == Append(ids, Value(Skip(c, 1), 7))
        to == Skip(c, 8)
    IN IF Value(c, 1) = 1 THEN GroupsFrom(to, all) ELSE [ids |-> all, to |-> to]

ebp_read(bytes) ==
    LET c == AtStart(bytes)
        f == Fields(c, <<1, 1, 1, 1, 1, 1, 1, 1>>)
        flags == [fragment |-> f[1], segment |-> f[2], sap |-> f[3], grouping |-> f[4], time |-> f[5],
                  concealment |-> f[6], extension |-> f[8]]
        extension == Skip(c, 8)
        sap == IF flags.extension = 1 THEN Skip(extension, 8) ELSE extension
        partition == IF flags.extension = 1 THEN Value(extension, 1) ELSE 0
        grouping == IF flags.sap = 1 THEN Skip(sap, 8) ELSE sap
        groups == IF flags.grouping = 1 THEN GroupsFrom(grouping, <<>>) ELSE [ids |-> <<>>, to |-> grouping]
        partitions == IF flags.time = 1 THEN Skip(groups.to, 64) ELSE groups.to
    IN [flags |-> flags, partition_flag |-> partition,
        sap_type |-> IF flags.sap = 1 THEN Value(sap, 3) ELSE 0,
        grouping_ids |-> groups.ids,
        acquisition_time |-> IF flags.time = 1 THEN Fields(groups.to, <<16, 16, 16, 16>>) ELSE <<0, 0, 0, 0>>,
        partitions |-> IF partition = 1 THEN Value(partitions, 8) ELSE 0]

\* The copy keeps the elements of the list, the numbers themselves.
ebp_copy(ebp) == [ebp EXCEPT !.grouping_ids = IF ebp.flags.grouping = 1 THEN @ ELSE <<>>]


\* A start after no id of a group, an end after neither that nor a start.
Orphan(ids, i) ==
    \/ ids[i] = 126 /\ (i = 1 \/ ids[i - 1] \in {126, 127})
    \/ ids[i] = 127 /\ (i = 1 \/ ids[i - 1] = 127)

\* 0 when the ids are in order, -1 otherwise.
ebp_validate_groups(ebp) ==
    LET ids == ebp.grouping_ids
        twice == \E i, j \in DOMAIN ids : i # j /\ ids[i] = ids[j]
        orphan == \E i \in DOMAIN ids : Orphan(ids, i)
    IN IF ebp.flags.grouping = 1 /\ (twice \/ orphan) THEN -1 ELSE 0

\* The EBP of a packet, from the elements of its private data; the stream fails when there are
\* several or when the packet does not start a PES packet.
getEBP(list, unit_start) ==
    LET ebps == {i \in DOMAIN list : list[i].tag = Tag /\ list[i].format = EBP0}
    IN IF ebps = {} THEN [ebp |-> NULL, passes |-> TRUE]
       ELSE IF unit_start = 0 \/ Cardinality(ebps) > 1 THEN [ebp |-> NULL, passes |-> FALSE]
       ELSE [ebp |-> ebp_read(list[CHOOSE i \in ebps : TRUE].data), passes |-> TRUE]
=============================================================================
