-------------------------- MODULE SegmentAnalysis --------------------------
(***************************************************************************)
(* The pipeline from the ingest threads to the segment analysis threads    *)
(* (EBPSegmentAnalysisThread.c; the posting and the end of an ingest from  *)
(* EBPIngestThreadCommon.c and EBP*IngestThread.c).  One ingest thread per *)
(* file or multicast source posts the EBPs it finds, in the order of its   *)
(* packets, on the queue of the stream they belong to, then NULL on each   *)
(* of its queues.  One analysis thread per stream takes that stream's      *)
(* queues of all the ingests, row by row: it waits for the first EBP of    *)
(* each, prunes them to a common start, and then compares one EBP of each  *)
(* per round.                                                              *)
(*                                                                         *)
(* An EBP is a record: what of it the analysis compares.  A queue          *)
(* operation and the computation that follows it, on the thread's own      *)
(* data, are one step.                                                     *)
(***************************************************************************)
EXTENDS Integers, Sequences, FiniteSets, FiniteSetsExt

CONSTANTS NumFiles,   \* ingests: the rows
          NumStreams, \* streams of an ingest: the columns
          Partitions, \* the partition ids in use
          EBPs,       \* the EBPs an ingest can find
          Arrivals,   \* what the ingests may find: sequences of [stream, ebp], one per row
          Jitter,     \* ebpAllowedPTSJitterSecs, in PTS ticks
          NULL        \* no element, no EBP structure, no acquisition time

Rows    == 1 .. NumFiles
Streams == 1 .. NumStreams
Queues  == Rows \X Streams

ASSUME AnalysisAssumption ==
    /\ NumFiles \in Nat \ {0} /\ NumStreams \in Nat \ {0}
    /\ Arrivals \subseteq [Rows -> Seq([stream : Streams, ebp : EBPs])]
    /\ \A e \in EBPs : e.PTS \in Nat /\ e.partitionId \in Partitions
    /\ Jitter \in Nat
    /\ NULL \notin EBPs

VARIABLES fifo,          \* the queues, of ThreadSafeFIFO
          arrivals,      \* what each ingest thread finds
          posted,        \* how much of it it has posted
          ended,         \* on how many of its queues it has pushed NULL
          analysis,      \* stream -> the state of its analysis thread
          lastPTS,       \* queue -> partition -> PTS of the last EBP checked, or 0
          streamPassFail \* queue -> the verdict on its stream

vars == <<fifo, arrivals, posted, ended, analysis, lastPTS, streamPassFail>>
ingestVars == <<arrivals, posted, ended>>

INSTANCE ThreadSafeFIFO WITH Fifos <- Queues, Elements <- EBPs, Spurious <- {}

-----------------------------------------------------------------------------
\* The ingest threads

\* postToFIFO.  detectBoundary, which found the EBP to match an SCTE35 splice
\* point, has set lastPTS to 0 just before: the analysis thread is not held.
Post(r) ==
    /\ posted[r] < Len(arrivals[r])
    /\ LET a == arrivals[r][posted[r] + 1]
           q == <<r, a.stream>>
       IN  /\ fifo_push(q, a.ebp)
           /\ lastPTS' = IF a.ebp.splice
                         THEN [lastPTS EXCEPT ![q][a.ebp.partitionId] = 0] ELSE lastPTS
    /\ posted' = [posted EXCEPT ![r] = @ + 1]
    /\ UNCHANGED <<arrivals, ended, analysis, streamPassFail>>

\* One turn of the loop of streamIngestCleanup and of cleanupAndExit.
CleanUp(r) ==
    /\ posted[r] = Len(arrivals[r])
    /\ ended[r] < NumStreams
    /\ fifo_push(<<r, ended[r] + 1>>, NULL)
    /\ ended' = [ended EXCEPT ![r] = @ + 1]
    /\ UNCHANGED <<arrivals, posted, analysis, lastPTS, streamPassFail>>

-----------------------------------------------------------------------------
\* The checks on one EBP

SAP_STREAM_TYPE_NOT_SUPPORTED == 99
SAP_STREAM_TYPE_ERROR         == 100

\* The SAP type of the EBP structure against the one of the elementary stream
\* and against the maximum of the partition's descriptor.
SAPFails(e) ==
    \/ e.SAPType = SAP_STREAM_TYPE_ERROR
    \/ /\ e.SAPType # SAP_STREAM_TYPE_NOT_SUPPORTED
       /\ e.EBP # NULL
       /\ \/ /\ e.EBP.ebp_sap_flag
             /\ \/ e.EBP.ebp_sap_type # e.SAPType
                \/ e.partition # NULL /\ e.EBP.ebp_sap_type > e.partition.sap_type_max
          \/ ~e.EBP.ebp_sap_flag /\ e.SAPType \notin {1, 2}

AcquisitionTime(e) == IF e.EBP = NULL THEN NULL ELSE e.EBP.ebp_acquisition_time

\* checkDistanceFromLastPTS, for the PTS checked before: no check without a
\* descriptor that has the partition, nor from PTS 0.
OffDistance(e, last) ==
    /\ e.partition # NULL
    /\ last # 0
    /\ LET expectedPTS == last + e.partition.distance
       IN  expectedPTS - e.PTS > Jitter \/ e.PTS - expectedPTS > Jitter

DiffersFrom(e, first) == \/ e.PTS # first.PTS
                         \/ e.partitionId # first.partitionId
                         \/ AcquisitionTime(e) # AcquisitionTime(first)

-----------------------------------------------------------------------------
\* The analysis threads.  A thread is at a row of a pass over its queues: "sync"
\* peeks for the start, "prune" drops what lies before it, "round" compares.

\* The next row of the pass whose queue is still active.
RowAfter(i, off) == LET active == {j \in Rows : j > i /\ j \notin off}
                    IN  IF active = {} THEN NumFiles + 1 ELSE Min(active)

\* Mutation: that the round before had EBPs is not forgotten.
StartPassRemembers(a, pass) ==
    [a EXCEPT !.pc = pass, !.row = RowAfter(0, a.fifoNotActive), !.first = NULL]

\* A pass over the active rows starts; nothing is compared yet.
StartPass(a, pass) ==
    [a EXCEPT !.pc = pass, !.row = RowAfter(0, a.fifoNotActive), !.first = NULL, !.more = FALSE]

At(c, pc)  == analysis[c].pc = pc /\ analysis[c].row \in Rows
PassEnds(c, pc) == analysis[c].pc = pc /\ analysis[c].row > NumFiles
Queue(c)   == <<analysis[c].row, c>>
NextRow(a) == [a EXCEPT !.row = RowAfter(a.row, a.fifoNotActive)]
Set(c, a)  == analysis' = [analysis EXCEPT ![c] = a]

Unchecked == UNCHANGED <<ingestVars, lastPTS, streamPassFail>>

OpOf(pc) == IF pc \in {"sync", "prune"} THEN "peek" ELSE "pop"

\* A peek or a pop of an empty queue waits for the ingest thread.
Waits(c) ==
    /\ analysis[c].row \in Rows
    /\ fifo_waits(Queue(c), OpOf(analysis[c].pc))
    /\ UNCHANGED analysis /\ Unchecked

\* The first peek at a queue: the latest PTS becomes the start.
SyncPeek(c) ==
    /\ At(c, "sync")
    /\ fifo_pop_peek(Queue(c), "peek")
    /\ LET a == analysis[c]
           e == Oldest(Queue(c))
       IN  IF e = NULL THEN Set(c, [a EXCEPT !.pc = "sync_end"])
           ELSE Set(c, NextRow([a EXCEPT !.startPTS = IF e.PTS > @ THEN e.PTS ELSE @]))
    /\ Unchecked

SyncDone(c) ==
    /\ PassEnds(c, "sync")
    /\ Set(c, StartPass(analysis[c], "prune"))
    /\ UNCHANGED fifo /\ Unchecked

\* Mutation: an EBP at the start is pruned with those before it.
BeforeOrAtStart(e, start) == e.PTS <= start

BeforeStart(e, start) == e.PTS < start

PrunePeek(c) ==
    /\ At(c, "prune")
    /\ fifo_pop_peek(Queue(c), "peek")
    /\ LET a == analysis[c]
           e == Oldest(Queue(c))
       IN  IF e = NULL THEN Set(c, [a EXCEPT !.pc = "prune_end"])
           ELSE IF BeforeStart(e, a.startPTS) THEN Set(c, [a EXCEPT !.pc = "prune_pop"])
           ELSE Set(c, NextRow(a))
    /\ Unchecked

PrunePop(c) ==
    /\ At(c, "prune_pop")
    /\ fifo_pop_peek(Queue(c), "pop")
    /\ Set(c, [analysis[c] EXCEPT !.pc = "prune"])
    /\ Unchecked

\* Mutation: the NULL that was peeked stays in the queue.
EndRowWithoutPop(c, pc, pass) ==
    /\ At(c, pc)
    /\ LET a == [analysis[c] EXCEPT !.pc = pass, !.fifoNotActive = @ \cup {analysis[c].row}]
       IN  Set(c, NextRow(a))
    /\ UNCHANGED fifo /\ Unchecked

\* A NULL was peeked: pop it, to keep the counters symmetrical, and leave the
\* row out from now on.
EndRow(c, pc, pass) ==
    /\ At(c, pc)
    /\ fifo_pop_peek(Queue(c), "pop")
    /\ LET a == [analysis[c] EXCEPT !.pc = pass, !.fifoNotActive = @ \cup {analysis[c].row}]
       IN  Set(c, NextRow(a))
    /\ Unchecked

SyncEnd(c)  == EndRow(c, "sync_end", "sync")
PruneEnd(c) == EndRow(c, "prune_end", "prune")

PruneDone(c) ==
    /\ PassEnds(c, "prune")
    /\ Set(c, StartPass(analysis[c], "round"))
    /\ UNCHANGED fifo /\ Unchecked

\* One EBP of the round: compared to the first of the round and checked alone.
Compare(c) ==
    /\ At(c, "round")
    /\ Oldest(Queue(c)) # NULL
    /\ fifo_pop_peek(Queue(c), "pop")
    /\ LET a == analysis[c]
           q == Queue(c)
           e == Oldest(q)
       IN  /\ streamPassFail' = [streamPassFail EXCEPT ![q] =
                  /\ @
                  /\ ~(a.first # NULL /\ DiffersFrom(e, a.first))
                  /\ ~OffDistance(e, lastPTS[q][e.partitionId])
                  /\ ~SAPFails(e)]
           /\ lastPTS' = IF e.partition = NULL THEN lastPTS
                         ELSE [lastPTS EXCEPT ![q][e.partitionId] = e.PTS]
           /\ Set(c, NextRow([a EXCEPT !.first = IF @ = NULL THEN e ELSE @, !.more = TRUE]))
    /\ UNCHANGED ingestVars

RoundEndsRow(c) ==
    /\ At(c, "round")
    /\ Oldest(Queue(c)) = NULL
    /\ fifo_pop_peek(Queue(c), "pop")
    /\ LET a == [analysis[c] EXCEPT !.fifoNotActive = @ \cup {analysis[c].row}]
       IN  Set(c, NextRow(a))
    /\ Unchecked

\* exitThread: a round in which no queue had an EBP is the last.
RoundDone(c) ==
    /\ PassEnds(c, "round")
    /\ LET a == analysis[c]
       IN  Set(c, IF a.more THEN StartPass(a, "round") ELSE [a EXCEPT !.pc = "done"])
    /\ UNCHANGED fifo /\ Unchecked

-----------------------------------------------------------------------------
Init ==
    /\ fifo = [q \in Queues |-> fifo_create]
    /\ arrivals \in Arrivals
    /\ posted = [r \in Rows |-> 0]
    /\ ended = [r \in Rows |-> 0]
    /\ analysis = [c \in Streams |-> [pc |-> "sync", row |-> 1, startPTS |-> 0,
                                      fifoNotActive |-> {}, first |-> NULL, more |-> FALSE]]
    /\ lastPTS = [q \in Queues |-> [p \in Partitions |-> 0]]
    /\ streamPassFail = [q \in Queues |-> TRUE]

Ingest(r) == Post(r) \/ CleanUp(r)

Analyse(c) == \/ Waits(c)
              \/ SyncPeek(c) \/ SyncEnd(c) \/ SyncDone(c)
              \/ PrunePeek(c) \/ PrunePop(c) \/ PruneEnd(c) \/ PruneDone(c)
              \/ Compare(c) \/ RoundEndsRow(c) \/ RoundDone(c)

\* Everything has been joined.
Finished == /\ \A r \in Rows : ended[r] = NumStreams
            /\ \A c \in Streams : analysis[c].pc = "done"

Next == \/ \E r \in Rows : Ingest(r)
        \/ \E c \in Streams : Analyse(c)
        \/ Finished /\ UNCHANGED vars

Spec == Init /\ [][Next]_vars

\* Every thread that can run is scheduled.
FairSpec == /\ Spec
            /\ \A r \in Rows : WF_vars(Ingest(r))
            /\ \A c \in Streams : WF_vars(Analyse(c))

-----------------------------------------------------------------------------
PassState == [pc : {"sync", "sync_end", "prune", "prune_pop", "prune_end", "round", "done"},
              row : 1 .. NumFiles + 1, startPTS : Nat, fifoNotActive : SUBSET Rows,
              first : EBPs \cup {NULL}, more : BOOLEAN]

TypeOK ==
    /\ FifoTypeOK
    /\ arrivals \in Arrivals
    /\ posted \in [Rows -> Nat] /\ \A r \in Rows : posted[r] <= Len(arrivals[r])
    /\ ended \in [Rows -> 0 .. NumStreams]
    /\ analysis \in [Streams -> PassState]
    /\ lastPTS \in [Queues -> [Partitions -> Nat]]
    /\ streamPassFail \in [Queues -> BOOLEAN]

\* A row is left out only when its ingest thread is done and nothing of it is
\* left in the queue (EBPSegmentAnalysisThread.c:117, 351, 400 "worker thread is
\* done"): else EBPs would go unchecked and the verdict would be a guess.
InactiveMeansDone ==
    \A c \in Streams : \A r \in analysis[c].fifoNotActive :
        ended[r] >= c /\ fifo[<<r, c>>].queue = <<>>

\* When all threads have been joined every queue is empty and its counters
\* agree, so teardownQueues frees no queue that still holds an EBP
\* (ATSTestApp.c:720-755; EBPSegmentAnalysisThread.c:352 and 401).
DrainedAtTheEnd ==
    Finished => \A q \in Queues : /\ fifo[q].queue = <<>>
                                  /\ fifo[q].push_counter = fifo[q].pop_counter
                                  /\ fifo[q].call = NoCall

\* A row that is left out has nothing left, and neither has any row at the end.
QueuesAreDrained == InactiveMeansDone /\ DrainedAtTheEnd

-----------------------------------------------------------------------------
\* The verdict on a stream, from what the ingests found and no schedule.

Found(r, c) ==
    LET on       == {k \in DOMAIN arrivals[r] : arrivals[r][k].stream = c}
        place(n) == CHOOSE k \in on : Cardinality({j \in on : j <= k}) = n
    IN  [n \in 1 .. Cardinality(on) |-> arrivals[r][place(n)].ebp]

\* The latest of the first PTSs, and what each ingest has from there on.
StartOf(c) == Max({0} \cup {Found(r, c)[1].PTS : r \in {r \in Rows : Found(r, c) # <<>>}})
Kept(r, c) ==
    LET s    == Found(r, c)
        from == {k \in DOMAIN s : s[k].PTS >= StartOf(c)}
    IN  IF from = {} THEN <<>> ELSE SubSeq(s, Min(from), Len(s))

\* The PTS that element k of s is measured from: the one before it in its
\* partition; none for an EBP of a splice.
Previous(s, k) ==
    LET before == {j \in 1 .. k - 1 : /\ s[j].partition # NULL
                                      /\ s[j].partitionId = s[k].partitionId}
    IN  IF s[k].splice \/ before = {} THEN 0 ELSE s[Max(before)].PTS

Passes(r, c) ==
    LET s == Kept(r, c)
    IN  \A k \in DOMAIN s :
            LET first == Min({i \in Rows : k <= Len(Kept(i, c))})
            IN  /\ ~DiffersFrom(s[k], Kept(first, c)[k])
                /\ ~OffDistance(s[k], Previous(s, k))
                /\ ~SAPFails(s[k])

\* However the threads are scheduled, the report is that of the input: an EBP is
\* compared to the one of the same place in the first ingest that has one, and
\* measured from the one before it (EBPSegmentAnalysisThread.c:70-305, 442-488),
\* and a splice starts a new measure (EBPIngestThreadCommon.c:1118).
VerdictIsOfTheInputs ==
    \A c \in Streams : analysis[c].pc = "done" =>
        \A r \in Rows : streamPassFail[<<r, c>>] = Passes(r, c)

\* All the analysis threads end, and so does the join of the main thread: no
\* schedule leaves a thread waiting for an EBP that does not come.
AnalysisEnds == <>Finished
=============================================================================
