----------------------------- MODULE MCLibrary ------------------------------
(***************************************************************************)
(* The parts that others are built from, one of them at a time: the        *)
(* circular buffer, the queues, a growing array, the array that is cheap   *)
(* at both ends, the hash table with its iterator, the binary heap, the    *)
(* bit reader, the parsers, the readers of tables, and the demultiplexer.  *)
(***************************************************************************)
EXTENDS EBPStreamBuffer, FifoHistory, HashTable, MCParsers, SectionReader, Demux

CONSTANTS Elem, MaxLength, MaxHeap, Start, Block,
          Video, Scte35, Video2, Map1, Map2

VARIABLES kind, arr, heap, least, b, got

-----------------------------------------------------------------------------
\* Hash table and bit reader: two keys share a chain in the small table, two others
\* in the larger one.
KeyHash == [k \in Key |-> CASE k = "a" -> 1 [] k = "b" -> 3 [] k = "c" -> 4 [] OTHER -> 8]
Lengths == <<2, 3, 5>>

Buffers == {<<1, 130>>}
Counts == {-1, 1, 3}

V == INSTANCE VArray WITH varray_start_length <- Start, varray_block_length <- Block
Q == INSTANCE VQArray WITH vqarray_start_length <- Start, vqarray_block_length <- Block
B == INSTANCE BinHeap
R == INSTANCE BitReader WITH Widths <- {1, 3, 8, 16}, Numbers <- {165}

\* Tables, with two units a packet: "one" leaves no stuffing, "two" and "three" end in the
\* middle of a packet, the PMT reader rejects "faulty", and "other" is for none of the readers.
MCLength == [t \in Tables |-> CASE t = "one" -> 2 [] t = "two" -> 3
                                [] t = "three" -> 5 [] OTHER -> 3]
AllLinks == [reader : Readers, packed : BOOLEAN]

\* Streams: a program with a video and a SCTE35 stream, its PMT in two versions, and a
\* second program that a new PAT announces, with the first one again.
MCStreams == {Video, Scte35}
MCTypeOf == [pid \in {Video, Scte35, Video2} |-> IF pid = Scte35 THEN "scte35" ELSE "video"]
MCMapPids == {Map1, Map2}

Table(version, current, content) == [version |-> version, current |-> current] @@ content
MCPats == {Table(1, TRUE, [programs |-> <<Map1>>]),
           Table(2, TRUE, [programs |-> <<Map1, Map2>>])}
MCCats == {Table(1, TRUE, <<>>)}
MCPmts == (Map1 :> {Table(1, TRUE, [es_info |-> <<Video, Scte35>>]),
                    Table(2, TRUE, [es_info |-> <<Video>>]),
                    Table(2, FALSE, [es_info |-> <<Video>>])})
       @@ (Map2 :> {Table(1, TRUE, [es_info |-> <<Scte35>>])})

-----------------------------------------------------------------------------
threadVars  == <<bufferVars, historyVars>>
heapVars    == <<heap, least>>
bitVars     == <<b, got>>
listVars    == <<arr, heapVars, hashVars, bitVars>>
parserVars  == <<meant, read>>
streamVars  == <<parserVars, sectionVars, vars>>
libraryVars == <<kind, threadVars, listVars, streamVars>>

Nothing == [kind |-> "nothing"]

LibraryInit ==
    /\ kind \in {"buffer", "fifo", "varray", "vqarray", "heap", "table", "bits",
                 "parser", "sections", "demux"}
    /\ BufferInit
    /\ HistoryInit
    /\ IF kind = "vqarray" THEN Q!Init ELSE V!Init
    /\ B!Init
    /\ HashInit
    /\ R!Init
    /\ IF kind = "parser" THEN Read ELSE meant = Nothing /\ read = Nothing
    /\ SectionInit
    /\ kind # "sections" => link = [reader |-> "PAT", packed |-> FALSE] /\ sending.table = "one"
    /\ Init
    /\ kind # "demux" => side = "ingest"

LibraryNext ==
    /\ UNCHANGED <<kind, parserVars>>
    /\ \/ kind = "buffer" /\ BufferNext /\ UNCHANGED <<historyVars, listVars, sectionVars, vars>>
       \/ kind = "fifo" /\ HistoryNext /\ UNCHANGED <<bufferVars, listVars, sectionVars, vars>>
       \/ /\ UNCHANGED <<threadVars, sectionVars, vars>>
          /\ \/ kind = "varray" /\ V!Next /\ UNCHANGED <<heapVars, hashVars, bitVars>>
             \/ kind = "vqarray" /\ Q!Next /\ UNCHANGED <<heapVars, hashVars, bitVars>>
             \/ kind = "heap" /\ B!Next /\ UNCHANGED <<arr, hashVars, bitVars>>
             \/ kind = "table" /\ HashNext /\ UNCHANGED <<arr, heapVars, bitVars>>
             \/ kind = "bits" /\ R!Next /\ UNCHANGED <<arr, heapVars, hashVars>>
       \/ kind = "sections" /\ SectionNext /\ UNCHANGED <<threadVars, listVars, vars>>
       \/ kind = "demux" /\ Next /\ UNCHANGED <<threadVars, listVars, sectionVars>>

\* A source goes on sending, and what is not lost is read.
LibrarySpec ==
    /\ LibraryInit /\ [][LibraryNext]_libraryVars
    /\ HistoryFairness
    /\ WF_sectionVars(kind = "sections" /\ Deliver)

-----------------------------------------------------------------------------
(***************************************************************************)
(* The promises of the structures that are instances, while it is the one  *)
(* in use.                                                                 *)
(***************************************************************************)
\* Both growing arrays are lists to their callers, see ArrayOps.
ArraysAreLists ==
    /\ kind = "varray" => V!ArrayIsList /\ V!SortsAndFinds /\ V!LookupsAgree
    /\ kind = "vqarray" => Q!ArrayIsList /\ Q!SortsAndFinds /\ Q!LookupsAgree /\ Q!InsertsInOrder

\* Every step of the heap takes an element or gives the least, see BinHeap.
GivesTheLeast == [][kind = "heap" => B!TakesOrGivesLeast]_heapVars

\* Every step of a cursor is one on a place in a list of bits, see BitReader.
ReadsBitsInOrder == [][kind = "bits" => R!BitStreamStep]_bitVars
=============================================================================
