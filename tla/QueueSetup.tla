----------------------------- MODULE QueueSetup -----------------------------
(***************************************************************************)
(* From the peek phase to the queues (EBPPreReadStreamIngestThread.c and   *)
(* ATSTestApp.c): the streams of each source are read from its PMT, their  *)
(* EBPs are looked for until the search ends, and setupQueues makes the    *)
(* table of queues, one row for each source and one column for each        *)
(* analysis thread: the video, then every audio stream some source has.    *)
(*                                                                         *)
(* A descriptor is a function from the partitions it lists to Explicit or  *)
(* to the PID the partition follows, an EBP the set of its partitions.     *)
(***************************************************************************)
EXTENDS Integers, Sequences, FiniteSets, FiniteSetsExt, BoundaryKinds

CONSTANTS NumIngests,
          Programs,   \* what a PMT may list: sequences of streams; <<>>: no PMT came
          EBPs,       \* the EBPs that may be met
          MaxEBPs,    \* bound on the EBPs a search records
          Garbage

Ingests == 1..NumIngests

\* What a stream is tested for: of each partition NULL if it has no boundaries,
\* Explicit, or the stream its boundaries follow.
Boundary == {NULL, Explicit} \cup [file : Ingests, PID : Int]
Queue == [PID : Int, boundaries : [Partitions -> Boundary]]

\* A PMT lists a PID once; streams that are neither video nor audio are left out
\* (EBPPreReadStreamIngestThread.c:387).
IsProgram(info) ==
    /\ info \in Seq({info[i] : i \in DOMAIN info})
    /\ \A i \in DOMAIN info :
          /\ info[i].PID \in Int
          /\ info[i].type \in {"video", "audio"}
          /\ info[i].descriptor # Garbage
          /\ info[i].descriptor # NULL =>
                \A p \in DOMAIN info[i].descriptor :
                    info[i].descriptor[p] \in Int \cup {Explicit}
    /\ \A i, j \in DOMAIN info : info[i].PID = info[j].PID => i = j

ASSUME SetupAssumption ==
    /\ NumIngests \in Nat \ {0}
    /\ \A info \in Programs : IsProgram(info)
    /\ Partitions # {}
    /\ EBPs \subseteq SUBSET Partitions
    /\ MaxEBPs \in Nat
    /\ NULL \notin Int
    /\ NULL \notin EBPs
    /\ NULL \notin Queue
    /\ NULL \notin [file : Ingests, PID : Int]
    /\ Explicit \notin [file : Ingests, PID : Int]
    /\ Garbage \notin EBPs
    /\ Garbage \notin {"video", "audio", "other"}
    /\ NULL # Explicit /\ NULL # Garbage

VARIABLES programs,    \* program_stream_info_t: the streams of each source
          ebps,        \* its ebps: the last EBP met of each stream
          found,       \* EBPs recorded
          searchEnded, \* the preread of the source has ended
          queues,      \* the rows of streamInfoArray, as far as they are made
          status       \* of the main program

setupVars == <<programs, ebps, found, searchEnded, queues, status>>

IsVideo(stream) == stream.type = "video"
IsAudio(stream) == stream.type = "audio"

-----------------------------------------------------------------------------
(* The peek phase.                                                          *)

HasAllDescriptors(f) == \A i \in DOMAIN programs[f] : programs[f][i].descriptor # NULL

\* A PES packet of stream i: its EBP replaces the one before.  The packet may be
\* late, past the time of the search.
preread_handle_pes_packet(f) ==
    /\ ~searchEnded[f]
    /\ \E i \in DOMAIN programs[f], e \in EBPs \cup {NULL}, late \in BOOLEAN :
          /\ e # NULL => found < MaxEBPs
          /\ ebps' = IF e = NULL THEN ebps ELSE [ebps EXCEPT ![f][i] = e]
          /\ found' = IF e = NULL THEN found ELSE found + 1
          /\ searchEnded' = [searchEnded EXCEPT ![f] = late \/ HasAllDescriptors(f)]
    /\ UNCHANGED <<programs, queues, status>>

\* The source has no more to read.
SourceEnds(f) == /\ ~searchEnded[f]
                 /\ searchEnded' = [searchEnded EXCEPT ![f] = TRUE]
                 /\ UNCHANGED <<programs, ebps, found, queues, status>>

-----------------------------------------------------------------------------
(* The columns.  "infos" is programStreamInfo, "info" that of one source.   *)

Videos(info) == {i \in DOMAIN info : IsVideo(info[i])}
Audios(info) == {i \in DOMAIN info : IsAudio(info[i])}

useLanguageAsID(infos) ==
    \A f \in Ingests : \A i, j \in Audios(infos[f]) :
        infos[f][i].language = infos[f][j].language => i = j

IDOf(infos, stream) == IF useLanguageAsID(infos) THEN stream.language ELSE stream.PID

\* The audio streams of some sources, and the order in which they are gone over.
AudioPlaces(infos, sources) == UNION {{<<f, i>> : i \in Audios(infos[f])} : f \in sources}
IDAt(infos, x) == IDOf(infos, infos[x[1]][x[2]])
NotAfter(x, y) == x[1] < y[1] \/ (x[1] = y[1] /\ x[2] <= y[2])

\* A stream adds its ID if no stream before it has the same.  The IDs are in the order
\* of the streams that add them.
Adding(infos, sources) ==
    {x \in AudioPlaces(infos, sources) :
        \A y \in AudioPlaces(infos, sources) :
            IDAt(infos, y) = IDAt(infos, x) => NotAfter(x, y)}
UniqueIDs(infos, sources) ==
    LET adding == Adding(infos, sources)
    IN  [k \in 1..Cardinality(adding) |->
            IDAt(infos, CHOOSE x \in adding : Cardinality({y \in adding : NotAfter(y, x)}) = k)]

\* Mutant: the audio streams of the first source only.
FirstAudioIDArray(infos) == UniqueIDs(infos, {1})

getUniqueAudioIDArray(infos) == UniqueIDs(infos, Ingests)

numStreams(infos) == Len(getUniqueAudioIDArray(infos)) + 1

\* A source with several videos counts as one without.
getVideoPID(info) == IF \E i \in DOMAIN info : Videos(info) = {i}
                     THEN info[Min(Videos(info))].PID ELSE NULL

getAudioPID(infos, f, id) ==
    LET hits == {i \in Audios(infos[f]) : IDOf(infos, infos[f][i]) = id}
    IN  IF hits = {} THEN NULL ELSE infos[f][Min(hits)].PID

\* Column 1 is the video.
PIDInColumn(infos, f, s) == IF s = 1 THEN getVideoPID(infos[f])
                            ELSE getAudioPID(infos, f, getUniqueAudioIDArray(infos)[s - 1])

-----------------------------------------------------------------------------
(* modBoundaryInfoArray.  FAILED is a return of -1.                         *)

FAILED == <<>>

HasPID(info, PID) == \E i \in DOMAIN info : info[i].PID = PID

\* The first source that has the PID, or NULL.
getFileWithPID(infos, PID) ==
    LET files == {g \in Ingests : HasPID(infos[g], PID)}
    IN  IF files = {} THEN NULL ELSE Min(files)

\* The source itself comes before the others.
SourceOfPID(infos, f, PID) == IF HasPID(infos[f], PID) THEN f ELSE getFileWithPID(infos, PID)

Follows(infos, f, PID) == [file |-> SourceOfPID(infos, f, PID), PID |-> PID]

OfDescriptor(infos, f, d) ==
    IF \/ ~(DOMAIN d \subseteq Partitions)
       \/ \E p \in DOMAIN d : d[p] # Explicit /\ SourceOfPID(infos, f, d[p]) = NULL
    THEN FAILED
    ELSE [p \in Partitions |-> IF p \notin DOMAIN d THEN NULL
                               ELSE IF d[p] = Explicit THEN Explicit ELSE Follows(infos, f, d[p])]

OfEBP(e) == [p \in Partitions |-> IF p \in e THEN Explicit ELSE NULL]

\* The boundaries of the video, in the row of queues made so far.  The video has none
\* while its own are determined.
VideoBoundaries(row) == IF row = <<>> THEN [p \in Partitions |-> NULL] ELSE row[1].boundaries

OfVideo(infos, f, row) ==
    [p \in Partitions |-> IF VideoBoundaries(row)[p] = NULL THEN NULL
                          ELSE [file |-> f, PID |-> getVideoPID(infos[f])]]

\* Mutant: an EBP that was met is believed more than the descriptor.
EBPBeforeDescriptor(infos, f, d, e, type, row) ==
    IF e # NULL THEN OfEBP(e)
    ELSE IF d # NULL THEN OfDescriptor(infos, f, d)
    ELSE IF type = "audio" /\ getVideoPID(infos[f]) # NULL THEN OfVideo(infos, f, row)
    ELSE FAILED

modBoundaryInfoArray(infos, f, d, e, type, row) ==
    IF d # NULL THEN OfDescriptor(infos, f, d)
    ELSE IF e # NULL THEN OfEBP(e)
    ELSE IF type = "audio" /\ getVideoPID(infos[f]) # NULL THEN OfVideo(infos, f, row)
    ELSE FAILED

-----------------------------------------------------------------------------
(* setupQueues.  The arrays of a source are read at the index of the column; *)
(* past their end lies NULL, or something that is not a pointer.            *)

DescriptorAt(info, s) == IF s \in DOMAIN info THEN {info[s].descriptor} ELSE {NULL, Garbage}
EBPAt(es, s) == IF s \in DOMAIN es THEN {es[s]} ELSE {NULL, Garbage}

\* The types are those of the first source, which has no array without a PMT.
TypesAt(infos, s) == IF s \in DOMAIN infos[1] THEN {infos[1][s].type}
                     ELSE IF infos[1] = <<>> THEN {Garbage}
                     ELSE {"other", "audio"}

\* The first of the three that is not NULL is used.
Crashes(d, e, type) == \/ d = Garbage
                       \/ d = NULL /\ e = Garbage
                       \/ d = NULL /\ e = NULL /\ type = Garbage

InRow(f) == /\ Len(queues[f]) < numStreams(programs)
            /\ \A g \in 1..(f - 1) : Len(queues[g]) = numStreams(programs)

\* One turn of the loops over the sources and the columns.
SetupQueue(f) ==
    /\ status = "setup"
    /\ \A g \in Ingests : searchEnded[g]
    /\ InRow(f)
    /\ LET s == Len(queues[f]) + 1
           PID == PIDInColumn(programs, f, s)
       IN  IF PID = NULL
           THEN queues' = [queues EXCEPT ![f] = Append(@, NULL)] /\ UNCHANGED status
           ELSE \E d \in DescriptorAt(programs[f], s), e \in EBPAt(ebps[f], s),
                   type \in TypesAt(programs, s) :
                  IF Crashes(d, e, type) THEN status' = "crashed" /\ UNCHANGED queues
                  ELSE LET boundaries == modBoundaryInfoArray(programs, f, d, e, type, queues[f])
                       IN  IF boundaries = FAILED THEN status' = "failed" /\ UNCHANGED queues
                           ELSE /\ queues' = [queues EXCEPT ![f] =
                                       Append(@, [PID |-> PID, boundaries |-> boundaries])]
                                /\ UNCHANGED status
    /\ UNCHANGED <<programs, ebps, found, searchEnded>>

SetupDone == /\ status = "setup"
             /\ \A f \in Ingests : searchEnded[f] /\ Len(queues[f]) = numStreams(programs)
             /\ status' = "running"
             /\ UNCHANGED <<programs, ebps, found, searchEnded, queues>>

\* After the threads have ended, every entry of the table is dereferenced.
teardownQueues ==
    /\ status = "running"
    /\ status' = IF \E f \in Ingests : \E s \in DOMAIN queues[f] : queues[f][s] = NULL
                 THEN "crashed" ELSE "ended"
    /\ UNCHANGED <<programs, ebps, found, searchEnded, queues>>

-----------------------------------------------------------------------------
SetupInit ==
    /\ programs \in [Ingests -> Programs]
    /\ ebps = [f \in Ingests |-> [i \in DOMAIN programs[f] |-> NULL]]
    /\ found = 0
    /\ searchEnded = [f \in Ingests |-> FALSE]
    /\ queues = [f \in Ingests |-> <<>>]
    /\ status = "setup"

SetupNext ==
    \/ \E f \in Ingests : preread_handle_pes_packet(f) \/ SourceEnds(f) \/ SetupQueue(f)
    \/ SetupDone
    \/ teardownQueues

SetupSpec == SetupInit /\ [][SetupNext]_setupVars

-----------------------------------------------------------------------------
SetupTypeOK ==
    /\ programs \in [Ingests -> Programs]
    /\ ebps \in [Ingests -> Seq(EBPs \cup {NULL})]
    /\ queues \in [Ingests -> Seq(Queue \cup {NULL})]
    /\ \A f \in Ingests : /\ DOMAIN ebps[f] = DOMAIN programs[f]
                          /\ Len(queues[f]) <= numStreams(programs)
    /\ found \in 0..MaxEBPs
    /\ searchEnded \in [Ingests -> BOOLEAN]
    /\ status \in {"setup", "failed", "crashed", "running", "ended"}

Columns == 1..numStreams(programs)
QueueAt(f, s) == s \in DOMAIN queues[f] /\ queues[f][s] # NULL

\* The place of the stream of a queue among those of its source.
PlaceOf(f, s) == CHOOSE i \in DOMAIN programs[f] : programs[f][i].PID = queues[f][s].PID
StreamOf(f, s) == programs[f][PlaceOf(f, s)]

\* The queues of an analysis thread carry the same stream of each source: the video,
\* or audio with the same languages - or with the same PID, if languages do not tell
\* the audio streams of a source apart (ATSTestApp.c:1002-1012).
ColumnsAreOneStream ==
    \A f, g \in Ingests : \A s \in Columns :
        (QueueAt(f, s) /\ QueueAt(g, s)) =>
            \/ s = 1 /\ IsVideo(StreamOf(f, s)) /\ IsVideo(StreamOf(g, s))
            \/ /\ s # 1 /\ IsAudio(StreamOf(f, s)) /\ IsAudio(StreamOf(g, s))
               /\ IDOf(programs, StreamOf(f, s)) = IDOf(programs, StreamOf(g, s))

\* When the threads start, every stream of a source is tested: it has one queue and
\* not two, which is what findFIFO looks for - but for the videos of a source that
\* has several of them (ATSTestApp.c:771-800).
EveryStreamHasOneQueue ==
    status = "running" =>
        \A f \in Ingests : \A i \in DOMAIN programs[f] :
            (IsAudio(programs[f][i]) \/ getVideoPID(programs[f]) # NULL) =>
                \E s \in Columns :
                    /\ QueueAt(f, s) /\ queues[f][s].PID = programs[f][i].PID
                    /\ \A t \in Columns \ {s} :
                          QueueAt(f, t) => queues[f][t].PID # programs[f][i].PID

\* A boundary that follows another stream follows one of the same source, unless no
\* stream there has the PID; and in the source it follows there is a queue for that
\* stream, so that the boundary can be triggered (ATSTestApp.c:195-226).
FollowsATestedStream ==
    status = "running" =>
        \A f \in Ingests : \A s \in Columns : QueueAt(f, s) =>
            \A p \in Partitions :
                LET b == queues[f][s].boundaries[p]
                IN  b \notin {NULL, Explicit} =>
                        /\ HasPID(programs[f], b.PID) => b.file = f
                        /\ (\A g \in Ingests : getVideoPID(programs[g]) # NULL) =>
                               \E t \in Columns : /\ QueueAt(b.file, t)
                                                  /\ queues[b.file][t].PID = b.PID

\* Whether stream i of a source announces boundaries of partition p, by its descriptor
\* or else its EBPs; and what it is to be tested for, which is what it announces, or
\* else what the video of its source does.
StreamAnnounces(f, i, p) ==
    IF programs[f][i].descriptor # NULL THEN p \in DOMAIN programs[f][i].descriptor
    ELSE ebps[f][i] # NULL /\ p \in ebps[f][i]
OwnBoundary(f, i, p) ==
    LET d == programs[f][i].descriptor
    IN  IF StreamAnnounces(f, i, p)
        THEN IF d = NULL \/ d[p] = Explicit THEN Explicit ELSE Follows(programs, f, d[p])
        ELSE IF /\ d = NULL /\ ebps[f][i] = NULL
                /\ \E v \in Videos(programs[f]) : StreamAnnounces(f, v, p)
        THEN [file |-> f, PID |-> getVideoPID(programs[f])]
        ELSE NULL

\* The boundaries a queue is tested for are those of its stream (README.md:6 and 22).
BoundariesOfItsStream ==
    status = "running" =>
        \A f \in Ingests : \A s \in Columns :
            QueueAt(f, s) =>
                \A p \in Partitions :
                    queues[f][s].boundaries[p] = OwnBoundary(f, PlaceOf(f, s), p)

\* Every source lists its video first and then its audio streams in the order of the
\* columns.
ListedInOrder ==
    \A f \in Ingests : \A s \in Columns :
        QueueAt(f, s) => /\ s \in DOMAIN programs[f]
                         /\ programs[f][s].PID = queues[f][s].PID

\* The same as BoundariesOfItsStream for the sources that list their streams in the
\* order of the columns.
BoundariesIfInOrder == ListedInOrder => BoundariesOfItsStream

\* Only sources that differ in their streams, or have no video, are a way to crash the
\* program; others are set up, run and torn down (ATSTestApp.c:1018-1024).
CrashesOnlyIfStreamsAreAbsent ==
    status = "crashed" =>
        \E f \in Ingests : \E s \in Columns : PIDInColumn(programs, f, s) = NULL

\* Each stream of each source is compared to the same stream of the others, exactly
\* once, and sources that have the same streams are set up and torn down.
StreamsAreMatched ==
    ColumnsAreOneStream /\ EveryStreamHasOneQueue /\ CrashesOnlyIfStreamsAreAbsent

\* What a queue is tested for is what its own stream announces, and can be met.
BoundariesAreOfTheStream == BoundariesIfInOrder /\ FollowsATestedStream
=============================================================================
