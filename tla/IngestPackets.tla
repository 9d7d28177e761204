--------------------------- MODULE IngestPackets ---------------------------
(***************************************************************************)
(* What an ingest thread does with the packets of its source               *)
(* (EBPIngestThreadCommon.c): it keeps, for each stream and partition, the *)
(* SCTE 35 sections whose splices are to come, answers them with the EBPs  *)
(* it meets, fails the stream for splices that have passed, lets boundaries*)
(* of one stream trigger those of the streams that follow it, and posts    *)
(* every boundary to the queue of its stream.                              *)
(*                                                                         *)
(* The streams are those of one source, and boundaries follow streams of   *)
(* the same source.  PTSs are small numbers; a section is a record         *)
(* with the fields of splice_insert or time_signal that the code reads.    *)
(***************************************************************************)
EXTENDS Integers, SequencesExt, FiniteSetsExt, BoundaryKinds

CONSTANTS Streams, Video, \* PIDs of the source, and that of its video
          Boundaries, \* of each stream and partition: NULL, Explicit or the PID it follows
          EventIds,
          Packets,    \* the packets that may come
          MaxPackets, \* bound on their number
          Delta,      \* ebpSCTE35PTSJitterSecs
          Preroll,    \* scte35MinimumPrerollSeconds
          TimeToLive, \* scte35SpliceEventTimeToLiveSecs
          Lag         \* the 3 seconds of audio

\* The packets of PES streams; the others complete a section of SCTE 35.
IsPES(x) == "stream" \in DOMAIN x

IsInsert(x) == x.command = "splice_insert"
IsSignal(x) == x.command = "time_signal"

\* What the sections say.  One that cancels an event says nothing else (scte35.c:623).
TimeSignals == [command : {"time_signal"}, time : Nat, pts_adjustment : Nat]
IsSplice(x) ==
    /\ IsInsert(x)
    /\ x.id \in EventIds /\ x.cancel \in BOOLEAN /\ x.program \in BOOLEAN
    /\ x.time \in Nat \cup {NULL} /\ x.pts_adjustment \in Nat
    /\ IsFiniteSet(DOMAIN x.components)
    /\ \A s \in DOMAIN x.components :
          x.components[s] \in Nat /\ (x.cancel => x.components[s] = 0)
    /\ x.cancel => ~x.program

ASSUME PacketsAssumption ==
    /\ Video \in Streams
    /\ Boundaries \in [Streams -> [Partitions -> Streams \cup {NULL, Explicit}]]
    /\ {NULL, Explicit} \cap Streams = {} /\ NULL \notin Nat /\ NULL # "ingestPassFails"
    /\ {Delta, Preroll, TimeToLive, Lag, MaxPackets} \subseteq Nat
    /\ \A x \in Packets :
          IF IsPES(x) THEN x.stream \in Streams /\ x.PTS \in Nat /\ x.valid \in BOOLEAN
          ELSE x \in TimeSignals \/ IsSplice(x)

VARIABLES listSCTE35,           \* the splices to come of each stream and partition
          queueLastImplicitPTS, \* the triggers of each stream and partition, oldest first
          mapOldSCTE35SpliceInserts, \* event id -> latest PTS of the event, or NULL
          currentVideoPTS,
          lastVideoChunkPTS,    \* as all streams but the video have it; 0: none yet
          streamPassFail,
          ingestPassFail,       \* the pointer to the verdict of the ingest
          ingestPassFails,      \* that verdict, as the main program reports it
          posts,                \* history: what was posted of each stream and partition
          reused, tooClose,     \* history: the packets a failure was reported with, by its message
          received              \* history: the packets

reported == <<reused, tooClose>>
vars == <<listSCTE35, queueLastImplicitPTS, mapOldSCTE35SpliceInserts, currentVideoPTS,
          lastVideoChunkPTS, streamPassFail, ingestPassFail, ingestPassFails, posts, reported,
          received>>

HasBoundary(s, p) == Boundaries[s][p] # NULL
IsImplicit(s, p)  == Boundaries[s][p] \in Streams

-----------------------------------------------------------------------------
(* Sections.                                                                *)

get_splice_insert_PTS(x) == IF x.time = NULL THEN 0 ELSE x.time + x.pts_adjustment

\* The splice PTS of a section for a stream, 0 if it has none.
getSCTE35PTS(x, s) ==
    CASE IsSignal(x)                       -> x.time
      [] IsInsert(x) /\ x.program          -> get_splice_insert_PTS(x)
      [] IsInsert(x) /\ ~x.program         -> IF s \in DOMAIN x.components THEN x.components[s] ELSE 0

\* The streams a splice of single components names.
Components(x) == {s \in DOMAIN x.components : x.components[s] # 0}

\* The streams whose lists a section is added to.
AddedTo(x) ==
    CASE IsSignal(x)              -> IF x.time + x.pts_adjustment = 0 THEN {} ELSE Streams
      [] IsInsert(x) /\ x.program -> IF get_splice_insert_PTS(x) = 0 THEN {} ELSE Streams
      [] OTHER                    -> Components(x)

scte35_get_latest_PTS(x) ==
    IF x.program THEN get_splice_insert_PTS(x)
    ELSE Max({0} \cup {x.components[s] + x.pts_adjustment : s \in Components(x)})

\* An event replaces, or cancels, the one of its id.  A time signal is compared with those that
\* are there, to whose times its own adjustment is added.
addSCTE35Point(list, x) ==
    IF IsInsert(x)
    THEN LET i == SelectInSeq(list, LAMBDA y : IsInsert(y) /\ y.id = x.id)
         IN  CASE i = 0    -> Append(list, x)
               [] i # 0 /\ x.cancel  -> RemoveAt(list, i)
               [] i # 0 /\ ~x.cancel -> ReplaceAt(list, i, x)
    ELSE LET i == SelectInSeq(list, LAMBDA y : IsSignal(y) /\ x.time <= y.time + x.pts_adjustment)
         IN  IF i = 0 THEN Append(list, x)
             ELSE IF x.time = list[i].time + x.pts_adjustment THEN list
             ELSE InsertAt(list, i, x)

\* A splice reported as too close to the video that is played; that of single components
\* has its comparison the other way round.
TooClose(x, videoPTS) ==
    IF x.program
    THEN AddedTo(x) # {} /\ get_splice_insert_PTS(x) < videoPTS + Preroll
    ELSE \E s \in Components(x) : x.components[s] + x.pts_adjustment > videoPTS + Preroll

\* Mutant: an event id is forgotten as soon as the video has passed it.
pruneWithoutTimeToLive ==
    [id \in EventIds |->
        IF /\ mapOldSCTE35SpliceInserts[id] # NULL
           /\ currentVideoPTS > mapOldSCTE35SpliceInserts[id]
        THEN NULL ELSE mapOldSCTE35SpliceInserts[id]]

pruneOldSCTE35Map ==
    [id \in EventIds |->
        IF /\ mapOldSCTE35SpliceInserts[id] # NULL
           /\ currentVideoPTS > mapOldSCTE35SpliceInserts[id] + TimeToLive
        THEN NULL ELSE mapOldSCTE35SpliceInserts[id]]

\* The number of the packet, when there is a failure to report with it.
ReportedIf(failure) == IF failure THEN {Len(received) + 1} ELSE {}

\* A packet that completes a section.  A failure of the ingest is reported, and assigned to
\* the pointer and not to the verdict.
validate_ts_packet(x) ==
    /\ mapOldSCTE35SpliceInserts' = pruneOldSCTE35Map
    /\ reused' = reused \cup ReportedIf(IsInsert(x) /\ pruneOldSCTE35Map[x.id] # NULL)
    /\ tooClose' = tooClose \cup ReportedIf(IsInsert(x) /\ TooClose(x, currentVideoPTS))
    /\ ingestPassFail' = IF reported' # reported THEN NULL ELSE ingestPassFail
    /\ listSCTE35' = [s \in Streams |-> [p \in Partitions |->
          IF s \in AddedTo(x) /\ HasBoundary(s, p) THEN addSCTE35Point(listSCTE35[s][p], x)
          ELSE listSCTE35[s][p]]]
    /\ UNCHANGED <<queueLastImplicitPTS, currentVideoPTS, lastVideoChunkPTS, streamPassFail,
                   ingestPassFails, posts>>

-----------------------------------------------------------------------------
(* PES packets.                                                             *)

\* Mutant: a trigger and the packet that made it may have one PTS.
TriggeredAtOnce(s, pts) ==
    {p \in Partitions : /\ IsImplicit(s, p) /\ queueLastImplicitPTS[s][p] # <<>>
                        /\ pts >= Head(queueLastImplicitPTS[s][p])}

Triggered(s, pts) ==
    {p \in Partitions : /\ IsImplicit(s, p) /\ queueLastImplicitPTS[s][p] # <<>>
                        /\ pts > Head(queueLastImplicitPTS[s][p])}

\* An EBP for a partition that is not explicit is only logged.
detectBoundary(s, pts, ebp) ==
    Triggered(s, pts) \cup
    {p \in Partitions : ebp # NULL /\ p \in ebp /\ Boundaries[s][p] = Explicit}

\* SCTE35PTS - deltaSCTE35PTS is unsigned: below 0 nothing is as large.
Near(x, s, pts) == LET SCTE35PTS == getSCTE35PTS(x, s)
                   IN  SCTE35PTS >= Delta /\ pts \in SCTE35PTS - Delta .. SCTE35PTS + Delta

Passed(x, s, pts) == pts > getSCTE35PTS(x, s) + Delta

\* Mutant: a boundary long before the splice answers it as well.
checkEBPHoweverEarly(list, s, pts) ==
    LET i == SelectInSeq(list, LAMBDA x : ~Passed(x, s, pts))
    IN  IF i = 0 THEN list ELSE RemoveAt(list, i)

\* The first splice that is near is answered.
checkEBPAgainstSCTE35Points(list, s, pts) ==
    LET i == SelectInSeq(list, LAMBDA x : Near(x, s, pts))
    IN  IF i = 0 THEN list ELSE RemoveAt(list, i)

\* A boundary is checked when it is triggered, and when the packet has an EBP.
AfterBoundary(s, pts, ebp, p) ==
    LET list == listSCTE35[s][p]
        once == IF p \in Triggered(s, pts) THEN checkEBPAgainstSCTE35Points(list, s, pts) ELSE list
    IN  IF ebp # NULL /\ p \in detectBoundary(s, pts, ebp)
        THEN checkEBPAgainstSCTE35Points(once, s, pts) ELSE once

\* All that have passed are removed.
checkPTSAgainstSCTE35Points(list, s, pts) ==
    LET kept     == {i \in DOMAIN list : ~Passed(list[i], s, pts)}
        place(k) == CHOOSE i \in kept : Cardinality({j \in kept : j <= i}) = k
    IN  [k \in 1 .. Cardinality(kept) |-> list[place(k)]]

\* An event that has left a list is old, with the PTS it had first.
OldWith(gone) ==
    [id \in EventIds |->
        LET events == {x \in gone : IsInsert(x) /\ x.id = id}
        IN  IF mapOldSCTE35SpliceInserts[id] # NULL \/ events = {}
            THEN mapOldSCTE35SpliceInserts[id]
            ELSE scte35_get_latest_PTS(CHOOSE x \in events : TRUE)]

\* The triggers taken by the packet, and those it leaves for the streams that follow.
triggerImplicitBoundaries(s, pts, boundaries) ==
    [t \in Streams |-> [p \in Partitions |->
        IF t = s THEN IF p \in Triggered(s, pts) THEN Tail(queueLastImplicitPTS[t][p])
                      ELSE queueLastImplicitPTS[t][p]
        ELSE IF Boundaries[t][p] = s /\ p \in boundaries
             THEN Append(queueLastImplicitPTS[t][p], pts)
             ELSE queueLastImplicitPTS[t][p]]]

Lags(s, pts, boundaries) == /\ s # Video /\ boundaries # {}
                            /\ lastVideoChunkPTS # 0
                            /\ pts > lastVideoChunkPTS + Lag

validate_pes_packet(x) ==
    LET s   == x.stream
        pts == x.PTS
        boundaries == detectBoundary(s, pts, x.ebp)
        answered == [p \in Partitions |-> AfterBoundary(s, pts, x.ebp, p)]
        left == [p \in Partitions |-> checkPTSAgainstSCTE35Points(answered[p], s, pts)]
        gone == UNION {Range(listSCTE35[s][p]) \ Range(left[p]) : p \in Partitions}
    IN  /\ listSCTE35' = [listSCTE35 EXCEPT ![s] = left]
        /\ queueLastImplicitPTS' = triggerImplicitBoundaries(s, pts, boundaries)
        /\ mapOldSCTE35SpliceInserts' = OldWith(gone)
        /\ currentVideoPTS' = IF s = Video THEN pts ELSE currentVideoPTS
        /\ lastVideoChunkPTS' = IF s = Video /\ boundaries # {} THEN pts ELSE lastVideoChunkPTS
        /\ streamPassFail' = [streamPassFail EXCEPT ![s] =
              @ /\ x.valid /\ ~Lags(s, pts, boundaries) /\ left = answered]
        /\ posts' = [posts EXCEPT ![s] = [p \in Partitions |->
              IF p \in boundaries THEN Append(@[p], [at |-> Len(received) + 1, PTS |-> pts])
              ELSE @[p]]]
        /\ UNCHANGED <<ingestPassFail, ingestPassFails, reported>>

-----------------------------------------------------------------------------
Init ==
    /\ listSCTE35 = [s \in Streams |-> [p \in Partitions |-> <<>>]]
    /\ queueLastImplicitPTS = [s \in Streams |-> [p \in Partitions |-> <<>>]]
    /\ mapOldSCTE35SpliceInserts = [id \in EventIds |-> NULL]
    /\ currentVideoPTS = 0
    /\ lastVideoChunkPTS = 0
    /\ streamPassFail = [s \in Streams |-> TRUE]
    /\ ingestPassFail = "ingestPassFails"
    /\ ingestPassFails = TRUE
    /\ reused = {} /\ tooClose = {}
    /\ posts = [s \in Streams |-> [p \in Partitions |-> <<>>]]
    /\ received = <<>>

Receive(x) == /\ Len(received) < MaxPackets
              /\ received' = Append(received, x)
              /\ \/ IsPES(x) /\ validate_pes_packet(x)
                 \/ ~IsPES(x) /\ validate_ts_packet(x)

Next == \E x \in Packets : Receive(x)

Spec == Init /\ [][Next]_vars

-----------------------------------------------------------------------------
Events == {x \in Packets : ~IsPES(x)}

TypeOK ==
    /\ \A s \in Streams, p \in Partitions :
          /\ \A x \in Range(listSCTE35[s][p]) : x \in Events /\ s \in AddedTo(x) /\ HasBoundary(s, p)
          /\ Range(queueLastImplicitPTS[s][p]) \subseteq Nat
          /\ queueLastImplicitPTS[s][p] # <<>> => IsImplicit(s, p)
          /\ \A post \in Range(posts[s][p]) : post.at \in DOMAIN received /\ post.PTS \in Nat
    /\ mapOldSCTE35SpliceInserts \in [EventIds -> Nat \cup {NULL}]
    /\ currentVideoPTS \in Nat /\ lastVideoChunkPTS \in Nat
    /\ streamPassFail \in [Streams -> BOOLEAN]
    /\ ingestPassFail \in {"ingestPassFails", NULL} /\ ingestPassFails \in BOOLEAN
    /\ reused \cup tooClose \subseteq DOMAIN received

IsSection(k)  == ~IsPES(received[k])
IsPESOf(k, s) == IsPES(received[k]) /\ received[k].stream = s

\* Packet k is a time signal with an adjustment.
IsAdjusted(k) == IsSection(k) /\ IsSignal(received[k]) /\ received[k].pts_adjustment # 0

\* An event is on a list once, however often it is announced, and while no time signal
\* came with an adjustment, time signals are in order and none is there twice
\* (EBPIngestThreadCommon.c:1250-1255).
ListsInOrder ==
    \A s \in Streams, p \in Partitions :
        LET list == listSCTE35[s][p]
        IN  \A i, j \in DOMAIN list : i < j =>
                /\ IsInsert(list[i]) /\ IsInsert(list[j]) => list[i].id # list[j].id
                /\ IsSignal(list[i]) /\ IsSignal(list[j]) /\ (\A k \in DOMAIN received : ~IsAdjusted(k))
                      => list[i].time < list[j].time

\* What of the packets k + 1 to m was posted for stream s and partition p near a splice.
Answers(x, s, p, k, m) ==
    {post \in Range(posts[s][p]) : post.at \in k + 1 .. m /\ Near(x, s, post.PTS)}

\* Packet k announces a splice for the partition.
Announces(k, s, p) == IsSection(k) /\ s \in AddedTo(received[k]) /\ HasBoundary(s, p)

\* Another announcement or a cancellation of the event of packet k comes later.
AnnouncedAgain(k) ==
    IsInsert(received[k]) /\
    \E j \in k + 1 .. Len(received) :
        IsSection(j) /\ IsInsert(received[j]) /\ received[j].id = received[k].id

PassedAt(k, s, m) == IsPESOf(m, s) /\ Passed(received[k], s, received[m].PTS)

\* A splice that was announced, and has passed without a boundary near it, fails the
\* stream (README.md:13, EBPIngestThreadCommon.c:1370).  Of time signals with an adjustment
\* this is not said: the signal they are taken to repeat is one of another time.
MissIsNoticed ==
    \A k \in DOMAIN received, s \in Streams, p \in Partitions :
        Announces(k, s, p) /\ ~AnnouncedAgain(k) /\ ~IsAdjusted(k) =>
            \A m \in k + 1 .. Len(received) :
                PassedAt(k, s, m) /\ Answers(received[k], s, p, k, m) = {} => ~streamPassFail[s]

\* The announcements for one partition, up to packet m, that a boundary near the splice
\* of packet k could answer as well.
Rivals(k, s, p, m) ==
    {j \in 1 .. m : /\ Announces(j, s, p)
                    /\ getSCTE35PTS(received[j], s) - getSCTE35PTS(received[k], s)
                          \in -2 * Delta .. 2 * Delta}

\* A splice has passed, and there were not enough boundaries near it.
Missed(s) ==
    \E k \in DOMAIN received, p \in Partitions, m \in DOMAIN received :
        /\ k < m /\ Announces(k, s, p) /\ PassedAt(k, s, m)
        /\ Cardinality(Answers(received[k], s, p, k, m)) < Cardinality(Rivals(k, s, p, m))

BadGroups(s) == \E k \in DOMAIN received : IsPESOf(k, s) /\ ~received[k].valid

LagsBehind(s) ==
    /\ s # Video
    /\ \E p, q \in Partitions : \E post \in Range(posts[s][p]), v \in Range(posts[Video][q]) :
           v.at < post.at /\ post.PTS > v.PTS + Lag

\* A stream fails for a reason: a splice for which there was no boundary left, groups
\* that are wrong, or audio that lags.
FailureHasAReason ==
    \A s \in Streams : ~streamPassFail[s] => Missed(s) \/ BadGroups(s) \/ LagsBehind(s)

\* A stream fails for each splice that passes unmet, but for those that only a time signal
\* with an adjustment announced, and only for a reason.
SplicesAreJudged == ListsInOrder /\ MissIsNoticed /\ FailureHasAReason

PTSsOf(s, p) == [k \in DOMAIN posts[s][p] |-> posts[s][p][k].PTS]

\* Each boundary of a stream makes one boundary, of a later PTS and in order, of each
\* stream that follows it, or still waits to (EBPIngestThreadCommon.c:942-956, 989-993).
TriggersAnswered ==
    \A s \in Streams, p \in Partitions : IsImplicit(s, p) =>
        LET made     == PTSsOf(s, p)
            triggers == PTSsOf(Boundaries[s][p], p)
        IN  /\ Len(made) <= Len(triggers)
            /\ \A k \in DOMAIN made : made[k] > triggers[k]
            /\ queueLastImplicitPTS[s][p] = SubSeq(triggers, Len(made) + 1, Len(triggers))

\* The PTS of the last video packet before packet k.
VideoPTSAt(k) ==
    LET before == {j \in 1 .. k - 1 : IsPESOf(j, Video)}
    IN  IF before = {} THEN 0 ELSE received[Max(before)].PTS

\* Packet k announces a splice of the program, or one of single components, and the PTSs of it.
ProgramSplice(k) == IsSection(k) /\ IsInsert(received[k]) /\ received[k].program
ComponentSplice(k) == IsSection(k) /\ IsInsert(received[k]) /\ ~received[k].program
SplicePTSs(k) ==
    LET x == received[k]
    IN  IF x.program THEN {get_splice_insert_PTS(x)} \ {0}
        ELSE {x.components[s] + x.pts_adjustment : s \in Components(x)}

SameEvent(j, k) == /\ j < k /\ IsSection(j) /\ IsSection(k)
                   /\ IsInsert(received[j]) /\ IsInsert(received[k])
                   /\ received[j].id = received[k].id

\* Packet k takes the id of an event that has met a boundary or has passed.
MayReuse(k) ==
    \E j \in DOMAIN received : SameEvent(j, k) /\
        \E n \in j + 1 .. k - 1, s \in AddedTo(received[j]) :
            /\ IsPESOf(n, s)
            /\ received[n].PTS >= getSCTE35PTS(received[j], s) - Delta

\* The same of an event that has certainly passed and is not old enough to be forgotten,
\* as it was announced last or, since the id is kept with the PTS of the first splice of
\* its that was over (EBPIngestThreadCommon.c:1387), before.
Reuses(k) ==
    \E j \in DOMAIN received :
        /\ SameEvent(j, k) /\ \A i \in j + 1 .. k - 1 : ~SameEvent(j, i)
        /\ \E n \in j + 1 .. k - 1, s \in AddedTo(received[j]) :
              PassedAt(j, s, n) /\ \E p \in Partitions : HasBoundary(s, p)
        /\ \A e \in 1 .. j : SameEvent(e, k) =>
              \A i \in j + 1 .. k :
                 VideoPTSAt(i) <= scte35_get_latest_PTS(received[e]) + TimeToLive

\* Splice of packet k is announced less than the preroll before it is due.
IsLate(k) == \E PTS \in SplicePTSs(k) : PTS < VideoPTSAt(k) + Preroll

\* The report has a failure for each id that is used again too early, with the packet that
\* does so, and for each splice of the program that is announced too late, and for no other
\* packet, but for splices of single components (EBPIngestThreadCommon.c:96-144).
FailuresAreReported ==
    \A k \in DOMAIN received :
        /\ k \in reused => MayReuse(k)
        /\ Reuses(k) => k \in reused
        /\ ~ComponentSplice(k) => (k \in tooClose <=> ProgramSplice(k) /\ IsLate(k))

\* What the message of the report says of all of them: "current PTS is too close to SCTE35 PTS"
\* (EBPIngestThreadCommon.c:166).  Of single components it is those far ahead that get it (164).
TooCloseIsLate == \A k \in tooClose : IsLate(k)

\* A "FAIL" in the report is one of the ingest: "creates a report detailing the pass/fail status as
\* well as details of any errors found" (README.md:68); splices of single components left aside.
ReportedIsFailed == (\E k \in reused \cup tooClose : ~ComponentSplice(k)) => ~ingestPassFails

=============================================================================
