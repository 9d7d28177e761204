------------------------------- MODULE Demux -------------------------------
(***************************************************************************)
(* The demultiplexer of the transport stream library (mpeg2ts_demux.c) and *)
(* the collector of PES packets it hands the packets of a stream to        *)
(* (tpes.c), driven as the ingest threads and the preread drive it: one    *)
(* call of mpeg2ts_stream_read_ts_packet per packet, with their own        *)
(* processors for a new PAT and PMT.                                       *)
(*                                                                         *)
(* An entry of the list "pids" of a program points to the description of   *)
(* its stream in the PMT.  A new version of the PMT frees the old one and  *)
(* appends entries for the new one; the old entries stay, with pointers to *)
(* freed memory.  What is read through them is any PID and any type.       *)
(*                                                                         *)
(* A table is abstracted to the packet that completes it: SectionReader    *)
(* models how it is put together.  The memory of the packets is followed   *)
(* by their numbers: "frees" counts how often each was freed.              *)
(***************************************************************************)
EXTENDS Naturals, Sequences, FiniteSets, FiniteSetsExt

CONSTANTS
    Streams,     \* the PIDs of elementary streams
    TypeOf,      \* the type of each: "video", "scte35" or "other"
    MapPids,     \* the PIDs a PAT may give for PMTs
    Unused,      \* a PID of no table and no stream
    Pats,        \* the PATs that may be sent: [version, current, programs]
    Cats,        \* the CATs: [version, current]
    Pmts,        \* for each of MapPids the PMTs: [version, current, es_info]
    Sides,       \* who reads: "ingest" or "preread"
    MaxPackets,  \* bound: packets that arrive
    MaxMaps,     \* bound: PMTs that come into force
    MaxLost      \* bound: packets of streams that are lost on the way

Types == {"video", "scte35", "other"}

(***************************************************************************)
(* PMTs list streams, at PIDs that are not those of tables; a PID of no    *)
(* stream exists.  A video stream is listed by one program only, which the *)
(* code takes for granted too (mpeg2ts_demux.c:532).                       *)
(***************************************************************************)
ASSUME DemuxAssumption ==
    /\ MaxPackets \in Nat
    /\ Sides \subseteq {"ingest", "preread"}
    /\ Unused \notin Streams
    /\ MapPids \cap Streams = {}
    /\ Pats \subseteq [version : Nat \ {0}, current : BOOLEAN, programs : Seq(MapPids)]
    /\ Cats \subseteq [version : Nat \ {0}, current : BOOLEAN]
    /\ Pmts \in [MapPids -> SUBSET [version : Nat \ {0}, current : BOOLEAN, es_info : Seq(Streams)]]
    /\ \A p, q \in MapPids : \A s \in Pmts[p], t \in Pmts[q] :
          \A i \in DOMAIN s.es_info, j \in DOMAIN t.es_info :
             s.es_info[i] = t.es_info[j] /\ TypeOf[s.es_info[i]] = "video" => p = q

PatPid == 0
CatPid == 1
NullPid == 8191

VARIABLES
    side,      \* who drives the demultiplexer
    pat,       \* version of the PAT in force, 0 if none was read
    cat,       \* version of the CAT in force, 0 if none was read
    programs,  \* the programs, in the order they were announced
    gens,      \* number of PMTs that came into force
    stopped,   \* the stream object was freed
    handed,    \* for each stream the PES packets handed on for it;
               \* recorded, as seen is, until a freed description is read
    frees,     \* for each packet how often it was freed
    leaked,    \* packets the reader let go of without freeing them
    count,     \* packets that arrived
    sent,      \* for each stream the access unit it is in
    lost,      \* packets of streams that did not arrive
    watched,   \* streams some PMT announced by the time
    seen,      \* the packets of each watched stream, in order of arrival
    stale      \* a freed description was read

vars == <<side, pat, cat, programs, gens, stopped, handed, frees, leaked,
          count, sent, lost, watched, seen, stale>>
network == <<sent, lost>>

NoPmt == [gen |-> 0, version |-> 0, es_info |-> <<>>]
mpeg2ts_program_new(PID) == [PID |-> PID, pmt |-> NoPmt, pids |-> <<>>]
pid_info_new(es) == [es_info |-> es, handled |-> FALSE, queue |-> <<>>]

(***************************************************************************)
(* What may be read through the es_info of an entry: the description, or   *)
(* anything when the PMT it belongs to was freed.                          *)
(***************************************************************************)
Dangling(m2p, pi) == pi.es_info.gen # m2p.pmt.gen
PidsRead(m2p, pi) == IF Dangling(m2p, pi)
                     THEN Streams \cup MapPids \cup {Unused}
                     ELSE {pi.es_info.pid}
TypesRead(m2p, pi) == IF Dangling(m2p, pi) THEN Types ELSE {TypeOf[pi.es_info.pid]}

(***************************************************************************)
(* The places where the search for the first entry of a PID may end, 0     *)
(* when it may find none.                                                  *)
(***************************************************************************)
get_pid_info(m2p, pid) ==
    LET MayBe(i) == pid \in PidsRead(m2p, m2p.pids[i])
        MayDiffer(i) == PidsRead(m2p, m2p.pids[i]) # {pid}
    IN {i \in 1 .. Len(m2p.pids) : MayBe(i) /\ \A j \in 1 .. i - 1 : MayDiffer(j)}
       \cup {i \in {0} : \A j \in 1 .. Len(m2p.pids) : MayDiffer(j)}

\* A search that ends at i (0: at the end) read a freed description.
ReadsFreed(m2p, i) ==
    \E j \in 1 .. (IF i = 0 THEN Len(m2p.pids) ELSE i) : Dangling(m2p, m2p.pids[j])

\* Where the PMT in force lists a PID, and an entry with a handler for it.
Listed(m2p, pid) == {j \in DOMAIN m2p.pmt.es_info : m2p.pmt.es_info[j].pid = pid}
handler_new(m2p, pid) ==
    [es_info |-> m2p.pmt.es_info[Min(Listed(m2p, pid))], handled |-> TRUE, queue |-> <<>>]

\* Mutant: a handler is added after the entry of its stream instead of in its place.
register_appends(m2p, pid) ==
    {[m2p |-> IF Listed(m2p, pid) = {} THEN m2p
              ELSE [m2p EXCEPT !.pids = Append(@, handler_new(m2p, pid))],
      freed |-> <<>>]}

(***************************************************************************)
(* Registering a handler: the entry for it replaces the first one of the   *)
(* PID, whose handler is freed with the packets in its queue.  A result is *)
(* the program and the packets that were freed.                            *)
(***************************************************************************)
register_pid_processor(m2p, pid) ==
    LET new == handler_new(m2p, pid)
    IN IF Listed(m2p, pid) = {} THEN {[m2p |-> m2p, freed |-> <<>>]}
       ELSE {IF i = 0 THEN [m2p |-> [m2p EXCEPT !.pids = Append(@, new)], freed |-> <<>>]
             ELSE [m2p |-> [m2p EXCEPT !.pids[i] = new], freed |-> m2p.pids[i].queue]
             : i \in get_pid_info(m2p, pid)}

Handles(type) == type \in {"video", "scte35"}

(***************************************************************************)
(* The PMT processors go over the entries, the old ones too, and register  *)
(* a handler for each stream they are for.  All results for entry i, from  *)
(* one for those before it.  Each stream of the PMT in force has an entry, *)
(* so that a handler takes the place of one and the list does not grow.    *)
(***************************************************************************)
ProcessEntry(r, i) ==
    LET pi == r.m2p.pids[i]
        Ignored == IF \A t \in TypesRead(r.m2p, pi) : Handles(t) THEN {} ELSE {r}
        Handled == IF \A t \in TypesRead(r.m2p, pi) : ~Handles(t) THEN {}
                   ELSE UNION {register_pid_processor(r.m2p, pid) :
                                 pid \in PidsRead(r.m2p, pi)}
    IN Ignored \cup {[m2p |-> x.m2p, freed |-> r.freed \o x.freed] : x \in Handled}

pmt_processor(m2p) ==
    LET results[i \in 0 .. Len(m2p.pids)] ==
            IF i = 0 THEN {[m2p |-> m2p, freed |-> <<>>]}
            ELSE UNION {ProcessEntry(r, i) : r \in results[i - 1]}
    IN results[Len(m2p.pids)]

(***************************************************************************)
(* A table comes into force when it is the first one, or has a new version *)
(* and is not one announced for later.                                     *)
(***************************************************************************)
InForce(version, section) ==
    version = 0 \/ (section.version # version /\ section.current)

\* The places of packet n in a sequence of packets, and in all the queues.
PlacesIn(packets, n) == {j \in DOMAIN packets : packets[j].no = n}
Places(n) == UNION {UNION {{<<k, i, j>> : j \in PlacesIn(programs[k].pids[i].queue, n)} :
                           i \in DOMAIN programs[k].pids} : k \in DOMAIN programs}

Free(packets) == frees' = [n \in DOMAIN frees |-> frees[n] + Cardinality(PlacesIn(packets, n))]
FreeQueues == frees' = [n \in DOMAIN frees |-> frees[n] + Cardinality(Places(n))]

ReadPat(ts, section) ==
    /\ IF InForce(pat, section)
       THEN /\ pat' = section.version
            /\ programs' = programs \o [i \in DOMAIN section.programs |->
                                          mpeg2ts_program_new(section.programs[i])]
       ELSE UNCHANGED <<pat, programs>>
    /\ Free(<<ts>>)
    /\ UNCHANGED <<cat, gens, stopped, handed, leaked, watched, seen, stale>>

ReadCat(ts, section) ==
    /\ cat' = IF InForce(cat, section) THEN section.version ELSE cat
    /\ Free(<<ts>>)
    /\ UNCHANGED <<pat, programs, gens, stopped, handed, leaked, watched, seen, stale>>

\* Packets that carry nothing of interest: stuffing, parts of tables, and
\* everything before the first PAT.
Discard(ts) ==
    /\ Free(<<ts>>)
    /\ UNCHANGED <<pat, cat, programs, gens, stopped, handed, leaked, watched, seen, stale>>

(***************************************************************************)
(* The search through the programs ends at the first one whose PMT has the *)
(* PID, or at the first one with an entry for it.                          *)
(***************************************************************************)
MapOf(pid) == {k \in DOMAIN programs : programs[k].PID = pid}
Searched(pid) == IF MapOf(pid) = {} THEN DOMAIN programs
                 ELSE {k \in DOMAIN programs : k < Min(MapOf(pid))}
Passes(pid, k) == \A j \in Searched(pid) : j < k => 0 \in get_pid_info(programs[j], pid)
StaleAfter(pid, k) == \E j \in Searched(pid) : j < k /\ ReadsFreed(programs[j], 0)

\* A program with a new PMT, and entries for what it lists after the old ones.
ListedBy(section, gen) ==
    [i \in DOMAIN section.es_info |-> [gen |-> gen, pid |-> section.es_info[i]]]
WithPmt(m2p, section, gen) ==
    LET es == ListedBy(section, gen)
    IN [m2p EXCEPT !.pmt = [gen |-> gen, version |-> section.version, es_info |-> es],
                   !.pids = @ \o [i \in DOMAIN es |-> pid_info_new(es[i])]]

ReadPmt(ts, section) ==
    LET k == Min(MapOf(ts.pid))
    IN /\ MapOf(ts.pid) # {}
       /\ Passes(ts.pid, k)
       /\ IF InForce(programs[k].pmt.version, section)
          THEN /\ gens' = gens + 1
               /\ stale' = (stale \/ StaleAfter(ts.pid, k) \/ programs[k].pids # <<>>)
               /\ watched' = watched \cup {section.es_info[i] : i \in DOMAIN section.es_info}
               /\ \E r \in pmt_processor(WithPmt(programs[k], section, gens + 1)) :
                     /\ programs' = [programs EXCEPT ![k] = r.m2p]
                     /\ Free(r.freed \o <<ts>>)
          ELSE /\ Free(<<ts>>)
               /\ stale' = (stale \/ StaleAfter(ts.pid, k))
               /\ UNCHANGED <<programs, gens, watched>>
       /\ UNCHANGED <<pat, cat, stopped, handed, leaked, seen>>

(***************************************************************************)
(* The collector: a packet that starts a unit, or the end of the stream,   *)
(* closes the PES packet in the queue.  A queue that does not begin with a *)
(* start is dropped; the packets of the queue are freed in both cases.     *)
(***************************************************************************)

\* Mutant: what is in the queue is taken for a unit, however it begins.
ClosesAny(queue, type) == IF queue # <<>> THEN <<queue>> ELSE <<>>

\* The handler is given the PES packet with the packets it was made of, the
\* queue.  The one of the preread passes over those of SCTE35 streams.
Closes(queue, type) ==
    IF queue # <<>> /\ Head(queue).start /\ ~(side = "preread" /\ type = "scte35")
    THEN <<queue>> ELSE <<>>

\* Mutant: the packets of a queue that is dropped are not freed.
FreesOnlyUnits(ts, k, i, pid, type) ==
    LET queue == programs[k].pids[i].queue
    IN IF ts.start
       THEN /\ handed' = IF stale' THEN handed ELSE [handed EXCEPT ![pid] = @ \o Closes(queue, type)]
            /\ Free(IF Closes(queue, type) = <<>> THEN <<>> ELSE queue)
            /\ programs' = [programs EXCEPT ![k].pids[i].queue = <<ts>>]
       ELSE /\ programs' = [programs EXCEPT ![k].pids[i].queue = Append(@, ts)]
            /\ UNCHANGED <<handed, frees>>

pes_demux_process_ts_packet(ts, k, i, pid, type) ==
    LET queue == programs[k].pids[i].queue
    IN IF ts.start
       THEN /\ handed' = IF stale' THEN handed ELSE [handed EXCEPT ![pid] = @ \o Closes(queue, type)]
            /\ Free(queue)
            /\ programs' = [programs EXCEPT ![k].pids[i].queue = <<ts>>]
       ELSE /\ programs' = [programs EXCEPT ![k].pids[i].queue = Append(@, ts)]
            /\ UNCHANGED <<handed, frees>>

\* The validator of the ingest threads takes the tables of a SCTE35 stream and
\* keeps their packets from the handler.
Refuses(type) == side = "ingest" /\ type = "scte35"

\* A packet of a PID that some entry is for, or seems to be for.
ReadStream(ts) ==
    \E k \in Searched(ts.pid) : \E i \in get_pid_info(programs[k], ts.pid) \ {0} :
        LET pi == programs[k].pids[i]
        IN /\ Passes(ts.pid, k)
           /\ stale' = (stale \/ StaleAfter(ts.pid, k) \/ ReadsFreed(programs[k], i))
           /\ \E type \in TypesRead(programs[k], pi) :
                IF ~pi.handled
                THEN Free(<<ts>>) /\ UNCHANGED <<programs, handed, leaked>>
                ELSE IF Refuses(type)
                THEN leaked' = leaked \cup {ts.no} /\ UNCHANGED <<programs, handed, frees>>
                ELSE /\ \E pid \in IF Dangling(programs[k], pi)
                                   THEN PidsRead(programs[k], pi) ELSE {ts.pid} :
                           pes_demux_process_ts_packet(ts, k, i, pid, type)
                     /\ UNCHANGED leaked
           /\ UNCHANGED <<pat, cat, gens, stopped, watched>>

\* A PID no program knows.
ReadUnknown(ts) ==
    /\ MapOf(ts.pid) = {}
    /\ Passes(ts.pid, Len(programs) + 1)
    /\ Free(<<ts>>)
    /\ stale' = (stale \/ StaleAfter(ts.pid, Len(programs) + 1))
    /\ UNCHANGED <<pat, cat, programs, gens, stopped, handed, leaked, watched>>

(***************************************************************************)
(* The packets that arrive.                                                *)
(***************************************************************************)
Packet(pid) == [no |-> count + 1, pid |-> pid, unit |-> 0, start |-> TRUE, payload |-> TRUE]

Arrive == /\ ~stopped
          /\ count < MaxPackets
          /\ count' = count + 1
          /\ UNCHANGED side

ArrivePat == /\ Arrive
             /\ \E section \in Pats : ReadPat(Packet(PatPid), section)
             /\ UNCHANGED network

ArriveCat == /\ Arrive
             /\ \E section \in Cats : ReadCat(Packet(CatPid), section)
             /\ UNCHANGED network

\* A table may need several packets: those before the last only fill its buffer.
ArrivePart == /\ Arrive
              /\ \/ Discard(Packet(PatPid))
                 \/ Discard(Packet(NullPid))
              /\ UNCHANGED network

ArriveMap == /\ Arrive
             /\ gens < MaxMaps
             /\ \E pid \in MapPids : \E section \in Pmts[pid] :
                   LET ts == Packet(pid)
                   IN IF pat = 0 THEN Discard(ts)
                      ELSE /\ \/ ReadPmt(ts, section)
                              \/ ReadStream(ts)
                              \/ ReadUnknown(ts)
                           /\ UNCHANGED seen
             /\ UNCHANGED network

\* A stream sends the first packet of a unit, or another packet of it, which
\* may carry an adaptation field only.  A packet may be lost.
Sends(pid, ts) ==
    \E start, payload \in BOOLEAN :
        /\ start \/ sent[pid] > 0
        /\ start => payload
        /\ ts = [no |-> count + 1, pid |-> pid, unit |-> sent[pid] + (IF start THEN 1 ELSE 0),
                 start |-> start, payload |-> payload]
PacketsOf(pid) == {[no |-> count + 1, pid |-> pid, unit |-> u, start |-> s, payload |-> p] :
                     u \in {sent[pid], sent[pid] + 1}, s \in BOOLEAN, p \in BOOLEAN}

ArriveStream == /\ Arrive
                /\ \E pid \in Streams : \E ts \in PacketsOf(pid) :
                      /\ Sends(pid, ts)
                      /\ sent' = [sent EXCEPT ![pid] = ts.unit]
                      /\ IF pat = 0 THEN Discard(ts)
                         ELSE /\ ReadStream(ts) \/ ReadUnknown(ts)
                              /\ seen' = IF pid \in watched /\ ~stale' THEN [seen EXCEPT ![pid] = Append(@, ts)] ELSE seen
                /\ UNCHANGED lost

Lose == /\ ~stopped
        /\ Cardinality(lost) < MaxLost
        /\ \E pid \in Streams : \E ts \in PacketsOf(pid) :
              /\ Sends(pid, ts)
              /\ sent' = [sent EXCEPT ![pid] = ts.unit]
              /\ lost' = lost \cup {ts}
        /\ UNCHANGED <<side, pat, cat, programs, gens, stopped, handed, frees, leaked,
                       count, watched, seen, stale>>

\* The stream object is freed, with the programs, their handlers and queues.
mpeg2ts_stream_free ==
    /\ ~stopped
    /\ stopped' = TRUE
    /\ FreeQueues
    /\ programs' = <<>>
    /\ pat' = 0
    /\ UNCHANGED <<side, cat, gens, handed, leaked, count, network, watched, seen, stale>>

Init == /\ side \in Sides
        /\ pat = 0 /\ cat = 0
        /\ programs = <<>> /\ gens = 0 /\ stopped = FALSE
        /\ handed = [p \in Streams |-> <<>>] /\ frees = [n \in 1 .. MaxPackets |-> 0]
        /\ leaked = {} /\ count = 0
        /\ sent = [p \in Streams |-> 0] /\ lost = {}
        /\ watched = {} /\ seen = [p \in Streams |-> <<>>] /\ stale = FALSE

Next == \/ ArrivePat \/ ArriveCat \/ ArrivePart \/ ArriveMap \/ ArriveStream \/ Lose
        \/ mpeg2ts_stream_free

Spec == Init /\ [][Next]_vars
-----------------------------------------------------------------------------
Packets == [no : Nat, pid : Streams \cup MapPids, unit : Nat, start : BOOLEAN, payload : BOOLEAN]
EsInfos == [gen : Nat, pid : Streams]
Entries == [es_info : EsInfos, handled : BOOLEAN, queue : Seq(Packets)]
Programs == [PID : MapPids, pmt : [gen : Nat, version : Nat, es_info : Seq(EsInfos)],
             pids : Seq(Entries)]

TypeOK ==
    /\ side \in Sides
    /\ pat \in Nat /\ cat \in Nat
    /\ programs \in Seq(Programs) /\ gens \in Nat
    /\ stopped \in BOOLEAN /\ stale \in BOOLEAN
    /\ handed \in [Streams -> Seq(Seq(Packets))]
    /\ frees \in [1 .. MaxPackets -> Nat]
    /\ count \in 0 .. MaxPackets /\ leaked \subseteq 1 .. MaxPackets
    /\ sent \in [Streams -> Nat]
    /\ watched \subseteq Streams
    /\ seen \in [Streams -> Seq(Packets)]

(***************************************************************************)
(* Every packet that arrived is in one place: freed once, in one queue, or *)
(* let go of by the validator of the ingest threads, which nobody frees    *)
(* (mpeg2ts_demux.c:542).  Handlers are replaced with packets in their     *)
(* queues, and entries are found through freed memory.                     *)
(***************************************************************************)
OwnedOnce ==
    \A n \in 1 .. MaxPackets :
        frees[n] + Cardinality(Places(n)) + Cardinality({n} \cap leaked)
            = IF n <= count THEN 1 ELSE 0

(***************************************************************************)
(* As long as no freed description was read: what is handed on for a video *)
(* stream is, in order and once, every unit that began since its PMT was   *)
(* read, with all its packets that arrived, but for the last unit, which   *)
(* is never handed on, not even when the stream object is freed.           *)
(***************************************************************************)
Starts(S) == {x \in DOMAIN S : S[x].start}
NthStart(S, j) == CHOOSE x \in Starts(S) : Cardinality({y \in Starts(S) : y <= x}) = j
Units(S) == [j \in 1 .. Cardinality(Starts(S)) - 1 |->
                SubSeq(S, NthStart(S, j), NthStart(S, j + 1) - 1)]
HandedOn ==
    ~stale => \A pid \in Streams :
                 handed[pid] = IF TypeOf[pid] = "video" THEN Units(seen[pid]) ELSE <<>>

(***************************************************************************)
(* The streams of the PMT in force are handled, also after new versions of *)
(* it and with old entries in the list: what a search finds for one of     *)
(* them, unless it is an old entry, has a handler.                         *)
(***************************************************************************)
InForceIsHandled ==
    \A k \in DOMAIN programs : \A j \in DOMAIN programs[k].pmt.es_info :
        LET m2p == programs[k]
            pid == m2p.pmt.es_info[j].pid
        IN Handles(TypeOf[pid]) =>
              \A i \in get_pid_info(m2p, pid) :
                  i # 0 /\ (Dangling(m2p, m2p.pids[i]) \/ m2p.pids[i].handled)
=============================================================================
