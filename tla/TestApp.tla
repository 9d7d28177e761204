------------------------------ MODULE TestApp -------------------------------
(***************************************************************************)
(* The tool as a whole (main, runFileIngestMode and runStreamIngestMode in *)
(* ATSTestApp.c): what the main thread allocates, starts, joins and frees, *)
(* in which order, what the threads do with it meanwhile, and the menu of  *)
(* the stream mode, from which the user prints and clears the report while *)
(* everything runs.                                                        *)
(*                                                                         *)
(* What the threads do with the data is in the other modules.  Here a      *)
(* thread is what it uses, when it may end and what it frees.  Memory that *)
(* is used after it was freed is recorded in "stale", and the program goes *)
(* on as if it were still there, which is one of the things it may do.     *)
(***************************************************************************)
EXTENDS Integers, FiniteSets

CONSTANTS NumIngests,  \* files, or multicast sources
          NumStreams,  \* streams of each of them
          Reporters,   \* bound: the threads that report
          MaxReports, MaxAdders,  \* bounds: of Report
          StartLength,            \* of Report
          MaxAbsent,              \* bound: streams that some source lacks
          MaxFailing              \* bound: streams that fail between two clears

ASSUME TestAppAssumption ==
    /\ NumIngests \in Nat \ {0}
    /\ NumStreams \in Nat \ {0}
    /\ MaxReports \in Nat \ {0} /\ MaxAdders \in Nat
    /\ StartLength \in Nat \ {0}
    /\ MaxAbsent \in Nat /\ MaxFailing \in Nat

VARIABLES mode, peek,   \* the options of the command line
          main, next,   \* where the main thread is, and the index of its loop
          pc,           \* where each thread is
          there,        \* what is allocated
          stale,        \* <<who, what>>: uses of what was not there: history
          queue,        \* of ingest i and stream s: "open", "null" was pushed, "over",
                        \* or "absent" when i lacks s
          disabled,     \* the circular buffer of each source
          found,        \* what the preread of each source found
          pass,         \* streamPassFail, by index in streamInfoArray
          due, since,   \* failures after, and since the start of, the last clear: history
          verdict,      \* the overall results in "TEST RESULTS"
          slots, length, room, adding, growing, met  \* of Report

Ingests == 0 .. NumIngests - 1
Streams == 0 .. NumStreams - 1
Threads == ({"socket", "preread", "ingest"} \X Ingests) \cup ({"analysis"} \X Streams)
Main    == <<"main", 0>>

ASSUME ReportersAssumption == Reporters \subseteq Threads

Log == INSTANCE Report

options    == <<mode, peek>>
mainVars   == <<main, next>>
memory     == <<there, stale>>
flags      == <<pass, due, since>>
reportVars == <<slots, length, room, adding, growing, met>>
shared     == <<queue, disabled, found, flags, verdict, reportVars>>
vars == <<options, mainVars, pc, memory, shared>>

\* What is allocated, by who owns it.
Lists       == <<"lists">>
Verdicts    == <<"verdicts">>
Programs    == <<"programs">>
Buffer(i)   == <<"buffer", i>>
Params(t)   == <<"params", t[1], t[2]>>
Queue(i, s) == <<"queue", i, s>>
Storage     == <<"storage">>  \* of the lists
Entry       == <<"entry">>    \* of the EBP descriptor in the table of descriptors
Queues      == {Queue(i, s) : i \in Ingests, s \in Streams}
Buffers     == {Buffer(i) : i \in Ingests}
SocketParams == {Params(<<"socket", i>>) : i \in Ingests}

\* The index of a stream in streamInfoArray, in the threads and in the report.
get2DArrayIndex(i, s) == i * NumStreams + s
reportGet2DArrayIndex(i, s) == i * NumStreams + s
StreamInfos == 0 .. NumIngests * NumStreams - 1

\* A stream that a source lacks has no queue, and NULL in streamInfoArray.
Absent(i, s) == queue[<<i, s>>] = "absent"
SomeAbsent   == \E i \in Ingests, s \in Streams : Absent(i, s)
Carried      == {q \in Queues : ~ Absent(q[2], q[3])}

Uses(who, things) ==
    /\ stale' = stale \cup {<<who, x>> : x \in things \ there}
    /\ UNCHANGED there

\* Freeing what is not there is a use of it too.
UsesAndFrees(who, used, freed) ==
    /\ stale' = stale \cup {<<who, x>> : x \in (used \cup freed) \ there}
    /\ there' = there \ freed

\* The threads that parse a stream, and look for the entry of the table.
Parse(t) == t[1] \in {"preread", "ingest"} /\ pc[t] \in {"starting", "running", "unstopped"}

\* The entry that is registered is removed from the table and freed, and a new one
\* is inserted, whoever else has found the old one.  (The table itself, and who
\* finds nothing between the two, is not followed; nor are the prereads that both
\* find that there is no table yet and make one each.)
register_descriptor(who, used) ==
    /\ \E finders \in SUBSET {t \in Threads : t # who /\ Parse(t) /\ Entry \in there} :
          stale' = stale \cup {<<t, Entry>> : t \in finders}
                         \cup {<<who, x>> : x \in used \ there}
    /\ there' = there \cup {Entry}

-----------------------------------------------------------------------------
Init ==
    /\ mode \in {"file", "stream"}
    /\ peek \in BOOLEAN
    /\ main = "start" /\ next = 0
    /\ pc = [t \in Threads |-> "none"]
    /\ there = {Lists, Storage}
    /\ stale = {}
    /\ queue = [p \in Ingests \X Streams |-> "none"]
    /\ disabled = [i \in Ingests |-> FALSE]
    /\ found = [i \in Ingests |-> "nothing"]
    /\ pass = [k \in StreamInfos |-> TRUE]
    /\ due = {} /\ since = {}
    /\ verdict = [i \in Ingests |-> "none"]
    /\ Log!reportInit

\* The process is there: a thread lives until main returns or someone exits.
Alive == main \notin {"returned", "exited", "crashed"}

\* The loop of the main thread goes on to its next index, or to the next step.
Advance(n, step) ==
    IF next + 1 < n THEN next' = next + 1 /\ UNCHANGED main
                    ELSE next' = 0 /\ main' = step

Goes(from, to) == main = from /\ main' = to /\ UNCHANGED next

-----------------------------------------------------------------------------
\* The main thread.

RunMode ==
    /\ IF mode = "file" THEN Goes("start", "read files") ELSE Goes("start", "start sockets")
    /\ there' = there \cup {Verdicts, Programs} \cup (IF mode = "stream" THEN Buffers ELSE {})
    /\ UNCHANGED <<options, pc, stale, shared>>

\* A file that cannot be opened, an address that is none, a thread that is not
\* created, or queues that cannot be set up: exit(-1).
FatalError ==
    /\ main \in {"read files", "start sockets", "start prereads", "set up",
                 "start analyses", "start ingests"}
    /\ main' = "exited"
    /\ UNCHANGED <<options, next, pc, memory, shared>>

\* The files are read up to what is looked for, each by a demultiplexer of its own.
prereadFiles ==
    /\ Goes("read files", "set up")
    /\ register_descriptor(Main, {Programs})
    /\ UNCHANGED <<options, pc, shared>>

\* One turn of a loop that starts n threads of a kind, each with its parameters.
Starts(kind, n, from, to) ==
    /\ main = from
    /\ Advance(n, to)
    /\ LET t == <<kind, next>>
       IN  /\ pc' = [pc EXCEPT ![t] = IF kind \notin {"preread", "ingest"} THEN "running"
                                      ELSE IF kind = "ingest" /\ mode = "file" THEN "opening"
                                      ELSE "starting"]
           /\ there' = there \cup {Params(t)}
    /\ UNCHANGED <<options, stale, shared>>

startSocketReceiveThreads == Starts("socket", NumIngests, "start sockets", "start prereads")
startThreads_PreReadStreamIngest ==
    Starts("preread", NumIngests, "start prereads", "join prereads")

\* startThreads_FileIngest and startThreads_StreamIngest, which differ in the
\* parameters of the ingest threads.
startThreads ==
    \/ Starts("analysis", NumStreams, "start analyses", "start ingests")
    \/ Starts("ingest", NumIngests, "start ingests",
              IF mode = "file" THEN "join analyses" ELSE "menu")

\* One turn of a loop that joins n threads of a kind.
Joins(kind, n, from, to) ==
    /\ main = from
    /\ pc[<<kind, next>>] = "ended"
    /\ Advance(n, to)
    /\ UNCHANGED <<options, pc, memory, shared>>

\* Mutation: the preread threads are started and left to themselves.
PrereadsNotAwaited ==
    /\ Goes("join prereads", "free prereads")
    /\ UNCHANGED <<options, pc, memory, shared>>

waitForPreReadStreamIngestToExit ==
    Joins("preread", NumIngests, "join prereads", "free prereads")

waitForSocketReceiveThreadsToExit ==
    Joins("socket", NumIngests, "join sockets", "join analyses")

\* Mutation: only the ingest threads are waited for.
WaitsForIngests ==
    \/ Joins("ingest", NumIngests, "join analyses", "analyze")
    \/ Joins("ingest", NumIngests, "join ingests", "analyze")

waitForThreadsToExit ==
    \/ Joins("analysis", NumStreams, "join analyses", "join ingests")
    \/ Joins("ingest", NumIngests, "join ingests", "analyze")

\* What the preread of a source has left is freed.  Without a PMT its lists do
\* not exist, and the elements of the list of PIDs without an EBP descriptor are
\* the PIDs themselves and not pointers to them: both end the process.
prereadIngestStreams ==
    /\ main = "free prereads"
    /\ IF found[next] = "all described"
       THEN /\ UsesAndFrees(Main, {}, {Params(<<"preread", next>>)})
            /\ Advance(NumIngests, "set up")
       ELSE main' = "crashed" /\ UNCHANGED <<next, memory>>
    /\ UNCHANGED <<options, pc, shared>>

\* The streams are those of any source: video, which all may lack, and every audio
\* stream that one of them has.
setupQueues ==
    /\ Goes("set up", "print streams")
    /\ \E absent \in SUBSET (Ingests \X Streams) :
          /\ Cardinality(absent) <= MaxAbsent
          /\ \A s \in Streams \ {0} : \E i \in Ingests : <<i, s>> \notin absent
          /\ queue' = [p \in Ingests \X Streams |-> IF p \in absent THEN "absent" ELSE "open"]
    /\ stale' = stale \cup {<<Main, x>> : x \in {Programs} \ there}
    /\ there' = there \cup {q \in Queues : queue'[<<q[2], q[3]>>] = "open"}
    /\ UNCHANGED <<options, pc, disabled, found, flags, verdict, reportVars>>

\* What is known of the streams, which -p asks for and nothing else.
printStreamInfo ==
    /\ Goes("print streams", IF peek THEN "clean up" ELSE "start analyses")
    /\ Uses(Main, {Programs} \cup Carried)
    /\ UNCHANGED <<options, pc, shared>>

-----------------------------------------------------------------------------
\* The menu of the stream mode.

\* r: the report is written to a file: the streams and what is known of their
\* programs, then the lists and the results.
reportPrintStreamInfo == {Programs} \cup Carried

reportPrint ==
    /\ main = "menu"
    /\ Uses(Main, reportPrintStreamInfo \cup {Lists, Storage, Verdicts})
    /\ UNCHANGED <<options, mainVars, pc, shared>>

\* s: how much each source has received, and how much of it is processed, of a
\* stream that is absent as well.
printIngestStatus ==
    /\ main = "menu"
    /\ Uses(Main, SocketParams \cup Buffers \cup Carried)
    /\ main' = IF SomeAbsent THEN "crashed" ELSE main
    /\ UNCHANGED <<options, next, pc, shared>>

\* c: the entries are freed, the list is emptied, and the flags of one source
\* after the other are set back.
ClearBegins ==
    /\ Goes("menu", "empty list")
    /\ Log!FreeEntries
    /\ due' = {} /\ since' = {}
    /\ Uses(Main, {Lists, Storage})
    /\ UNCHANGED <<options, pc, queue, disabled, found, pass, verdict>>

ClearEmpties ==
    /\ Goes("empty list", "reset flags")
    /\ Log!EmptyList
    /\ UNCHANGED <<options, pc, memory, queue, disabled, found, flags, verdict>>

ClearResets ==
    /\ main = "reset flags"
    /\ Advance(NumIngests, "menu")
    /\ pass' = [k \in StreamInfos |->
                   pass[k] \/ \E s \in Streams : k = reportGet2DArrayIndex(next, s)]
    /\ Uses(Main, {Verdicts} \cup Carried)
    /\ UNCHANGED <<options, pc, queue, disabled, found, due, since, verdict, reportVars>>

reportClearData == ClearBegins \/ ClearEmpties \/ ClearResets
Clearing == main \in {"empty list", "reset flags"}

ChooseExit ==
    /\ Goes("menu", "disable")
    /\ UNCHANGED <<options, pc, memory, shared>>

DisableBuffers ==
    /\ main = "disable"
    /\ Advance(NumIngests, "join sockets")
    /\ disabled' = [disabled EXCEPT ![next] = TRUE]
    /\ Uses(Main, {Buffer(next)})
    /\ UNCHANGED <<options, pc, queue, found, flags, verdict, reportVars>>

-----------------------------------------------------------------------------
\* The end.

analyzeResults ==
    /\ Goes("analyze", "tear down")
    /\ verdict' = [i \in Ingests |->
                     IF \A s \in Streams : pass[get2DArrayIndex(i, s)] THEN "PASS" ELSE "FAIL"]
    /\ Uses(Main, {Verdicts} \cup Carried)
    /\ UNCHANGED <<options, pc, queue, disabled, found, flags, reportVars>>

teardownQueues ==
    /\ Goes("tear down", IF SomeAbsent THEN "crashed" ELSE "free")
    /\ UsesAndFrees(Main, {}, Carried)
    /\ UNCHANGED <<options, pc, shared>>

freeProgramStreamInfo ==
    /\ Goes("free", "free buffers")
    /\ UsesAndFrees(Main, {}, {Programs})
    /\ UNCHANGED <<options, pc, shared>>

\* The results, and in stream mode the buffers (cb_free).
FreeBuffers ==
    /\ Goes("free buffers", "clean up")
    /\ UsesAndFrees(Main, {}, {Verdicts} \cup IF mode = "stream" THEN Buffers ELSE {})
    /\ UNCHANGED <<options, pc, shared>>

\* The lists are cleared and freed: main still closes the log file after it.
reportCleanup ==
    /\ Goes("clean up", "close log")
    /\ UsesAndFrees(Main, {}, {Lists, Storage})
    /\ Log!FreeAndEmpty
    /\ UNCHANGED <<options, pc, queue, disabled, found, flags, verdict>>

MainReturns ==
    /\ Goes("close log", "returned")
    /\ UNCHANGED <<options, pc, memory, shared>>

-----------------------------------------------------------------------------
\* The threads.

\* Thread t runs and is not in the middle of adding to the report.
Free(t) == t \in Reporters => adding[t] = Log!Idle
Runs(t) == Alive /\ pc[t] = "running" /\ Free(t)

\* Thread t, which has a demultiplexer now, registers the reader of the descriptor.
Registers(t) ==
    /\ Alive
    /\ pc[t] = "starting"
    /\ pc' = [pc EXCEPT ![t] = "running"]
    /\ register_descriptor(t, {Params(t)})
    /\ UNCHANGED <<options, mainVars, shared>>

\* A thread of any kind reports what it sees, in the steps of Report.
BeginsReport(t) ==
    /\ Alive /\ pc[t] \in {"running", "unopened"}
    /\ Log!BeginAdd(t)
    /\ Uses(t, {Lists, Params(t)})
    /\ UNCHANGED <<options, mainVars, pc, queue, disabled, found, flags, verdict>>

MovesStorage(t) ==
    /\ Alive
    /\ Log!BeginGrow(t)
    /\ UsesAndFrees(t, {Lists}, {Storage})
    /\ UNCHANGED <<options, mainVars, pc, queue, disabled, found, flags, verdict>>

StorageMoved(t) ==
    /\ Alive
    /\ Log!EndGrow(t)
    /\ stale' = stale \cup {<<t, x>> : x \in {Lists} \ there}
    /\ there' = there \cup {Storage}
    /\ UNCHANGED <<options, mainVars, pc, queue, disabled, found, flags, verdict>>

EndsReport(t) ==
    /\ Alive
    /\ Log!EndAdd(t)
    /\ Uses(t, {Lists, Storage})
    /\ UNCHANGED <<options, mainVars, pc, queue, disabled, found, flags, verdict>>

\* Where thread t ends, and what it uses and frees last.
Ends(t, used, freed) ==
    /\ pc' = [pc EXCEPT ![t] = "ended"]
    /\ UsesAndFrees(t, used, freed)
    /\ UNCHANGED <<options, mainVars, queue, disabled, flags, verdict, reportVars>>

SocketReceives(i) ==
    LET t == <<"socket", i>>
    IN  /\ Runs(t)
        /\ ~ disabled[i]
        /\ Uses(t, {Params(t), Buffer(i)})
        /\ UNCHANGED <<options, mainVars, pc, shared>>

\* The thread ends when it sees the buffer disabled.  Its parameters are for
\* the main thread to free.
SocketSeesDisabled(i) ==
    LET t == <<"socket", i>>
    IN  Runs(t) /\ disabled[i] /\ Ends(t, {Params(t), Buffer(i)}, {}) /\ UNCHANGED found

\* Or when something fails, and then nobody is told.
SocketFails(i) ==
    LET t == <<"socket", i>>
    IN  Runs(t) /\ Ends(t, {Params(t), Buffer(i)}, {}) /\ UNCHANGED found

\* The preread ends when it has seen the program and searched it for EBPs, or
\* earlier, when it cannot go on: without a PMT, or with streams that have no
\* EBP descriptor in it, which are never taken off the list of the unfinished.
PrereadEnds(i) ==
    LET t == <<"preread", i>>
    IN  /\ Runs(t)
        /\ \E f \in {"all described", "undescribed", "no map"} : found' = [found EXCEPT ![i] = f]
        /\ Ends(t, {Params(t), Buffer(i), Programs}, {})

\* A file was opened by the preread and is opened again here.
IngestOpens(i) ==
    LET t == <<"ingest", i>>
    IN  /\ Alive
        /\ pc[t] = "opening"
        /\ \E p \in {"starting", "unopened"} : pc' = [pc EXCEPT ![t] = p]
        /\ Uses(t, {Params(t)})
        /\ UNCHANGED <<options, mainVars, shared>>

\* The file is read to its end, or the buffer is found disabled.  Until then
\* the thread used the queues of all sources (implicit boundaries).
IngestReadsAll(i) ==
    LET t == <<"ingest", i>>
    IN  /\ Runs(t)
        /\ mode = "stream" => disabled[i]
        /\ pc' = [pc EXCEPT ![t] = "ending"]
        /\ Uses(t, {Params(t)} \cup Carried \cup IF mode = "stream" THEN {Buffer(i)} ELSE {})
        /\ UNCHANGED <<options, mainVars, shared>>

\* A read that returns nothing, after an empty datagram, is taken for the end.
IngestTakesForEnd(i) ==
    LET t == <<"ingest", i>>
    IN  /\ Runs(t)
        /\ mode = "stream"
        /\ pc' = [pc EXCEPT ![t] = "ending"]
        /\ Uses(t, {Params(t), Buffer(i)})
        /\ UNCHANGED <<options, mainVars, shared>>

\* A splice is given to all streams of its source, the time of a video unit and an
\* implicit boundary to those of all sources: an absent one ends the process.
IngestMeetsAbsent(i) ==
    LET t == <<"ingest", i>>
    IN  /\ Runs(t)
        /\ SomeAbsent
        /\ main' = "crashed"
        /\ Uses(t, {Params(t)})
        /\ UNCHANGED <<options, next, pc, shared>>

\* Stream s is the next of ingest i to be told the end.
InTurn(i, s) == \A r \in Streams : r < s => queue[<<i, r>>] \in {"null", "over"}

\* Mutation: the last queue gets no NULL (i < numStreams - 1).
PushNullButLast(i, s) ==
    /\ Alive
    /\ s < NumStreams - 1
    /\ pc[<<"ingest", i>>] \in {"ending", "unopened"}
    /\ queue[<<i, s>>] = "open" /\ InTurn(i, s)
    /\ queue' = [queue EXCEPT ![<<i, s>>] = "null"]
    /\ Uses(<<"ingest", i>>, {Params(<<"ingest", i>>), Queue(i, s)})
    /\ UNCHANGED <<options, mainVars, pc, disabled, found, flags, verdict, reportVars>>

\* cleanupAndExit and streamIngestCleanup: NULL for the queues in their order ...
PushNull(i, s) ==
    /\ Alive
    /\ pc[<<"ingest", i>>] \in {"ending", "unopened"} /\ Free(<<"ingest", i>>)
    /\ queue[<<i, s>>] = "open" /\ InTurn(i, s)
    /\ queue' = [queue EXCEPT ![<<i, s>>] = "null"]
    /\ Uses(<<"ingest", i>>, {Params(<<"ingest", i>>), Queue(i, s)})
    /\ UNCHANGED <<options, mainVars, pc, disabled, found, flags, verdict, reportVars>>

\* ... which an absent stream has not, and that ends the process ...
PushNullToAbsent(i, s) ==
    /\ Alive
    /\ pc[<<"ingest", i>>] \in {"ending", "unopened"} /\ Free(<<"ingest", i>>)
    /\ Absent(i, s) /\ InTurn(i, s)
    /\ main' = "crashed"
    /\ Uses(<<"ingest", i>>, {Params(<<"ingest", i>>)})
    /\ UNCHANGED <<options, next, pc, shared>>

\* ... and the thread frees its parameters.  Of a file that could not be opened
\* it then goes on to read.
IngestFrees(i) ==
    LET t == <<"ingest", i>>
    IN  /\ Alive
        /\ pc[t] \in {"ending", "unopened"} /\ Free(t)
        /\ \A s \in Streams : queue[<<i, s>>] \in {"null", "over"}
        /\ pc' = [pc EXCEPT ![t] = IF pc[t] = "ending" THEN "ended" ELSE "unstopped"]
        /\ UsesAndFrees(t, {}, {Params(t)})
        /\ UNCHANGED <<options, mainVars, shared>>

\* cleanupAndExit has returned: the reader of the descriptor is registered, the
\* freed parameters are given to the demultiplexer and a file that is NULL is
\* read, which ends the process.
IngestGoesOn(i) ==
    LET t == <<"ingest", i>>
    IN  /\ Alive
        /\ pc[t] = "unstopped"
        /\ main' = "crashed"
        /\ register_descriptor(t, {Params(t)})
        /\ UNCHANGED <<options, next, pc, shared>>

\* The analysis takes what is in its queues, here only their ends, in any order.
AnalysisTakesNull(s) ==
    LET t == <<"analysis", s>>
    IN  /\ Runs(t)
        /\ \E i \in Ingests :
              /\ queue[<<i, s>>] = "null"
              /\ queue' = [queue EXCEPT ![<<i, s>>] = "over"]
              /\ Uses(t, {Params(t), Queue(i, s)})
        /\ UNCHANGED <<options, mainVars, pc, disabled, found, flags, verdict, reportVars>>

AnalysisEnds(s) ==
    LET t == <<"analysis", s>>
    IN  /\ Runs(t)
        /\ \A i \in Ingests : queue[<<i, s>>] \in {"over", "absent"}
        /\ Ends(t, {}, {Params(t)})
        /\ UNCHANGED found

\* A stream fails: an ingest thread finds fault with one of its streams, or an
\* analysis thread with its stream of a source that is not at its end.
StreamFails(t, i, s) ==
    /\ Runs(t)
    /\ t \in {<<"ingest", i>>, <<"analysis", s>>}
    /\ queue[<<i, s>>] \in {"open", "null"}
    /\ pass' = [pass EXCEPT ![get2DArrayIndex(i, s)] = FALSE]
    /\ since' = since \cup {get2DArrayIndex(i, s)}
    /\ Cardinality(since') <= MaxFailing
    /\ due' = IF Clearing THEN due ELSE due \cup {get2DArrayIndex(i, s)}
    /\ Uses(t, {Queue(i, s)})
    /\ UNCHANGED <<options, mainVars, pc, queue, disabled, found, verdict, reportVars>>

-----------------------------------------------------------------------------
\* What the main thread does on its own, and what waits for the user.
MainGoesOn ==
    \/ RunMode \/ prereadFiles \/ startSocketReceiveThreads
    \/ startThreads_PreReadStreamIngest \/ startThreads
    \/ waitForPreReadStreamIngestToExit \/ waitForSocketReceiveThreadsToExit
    \/ waitForThreadsToExit \/ prereadIngestStreams \/ setupQueues
    \/ printStreamInfo
    \/ ClearEmpties \/ ClearResets \/ DisableBuffers
    \/ analyzeResults \/ teardownQueues \/ freeProgramStreamInfo \/ FreeBuffers
    \/ reportCleanup \/ MainReturns

Menu == reportPrint \/ printIngestStatus \/ ClearBegins \/ ChooseExit

IngestGoesToItsEnd(i) ==
    \/ IngestOpens(i) \/ IngestReadsAll(i) \/ IngestFrees(i) \/ IngestGoesOn(i)
    \/ \E s \in Streams : PushNull(i, s) \/ PushNullToAbsent(i, s)
AnalysisGoesToItsEnd(s) == AnalysisTakesNull(s) \/ AnalysisEnds(s)

Next ==
    \/ MainGoesOn \/ Menu \/ FatalError
    \/ \E t \in Reporters : BeginsReport(t) \/ MovesStorage(t) \/ StorageMoved(t) \/ EndsReport(t)
    \/ \E t \in Threads : Registers(t)
    \/ \E t \in Threads, i \in Ingests, s \in Streams : StreamFails(t, i, s)
    \/ \E i \in Ingests : SocketReceives(i) \/ SocketSeesDisabled(i) \/ SocketFails(i)
    \/ \E i \in Ingests : PrereadEnds(i) \/ IngestTakesForEnd(i) \/ IngestMeetsAbsent(i)
    \/ \E i \in Ingests : IngestGoesToItsEnd(i)
    \/ \E s \in Streams : AnalysisGoesToItsEnd(s)

\* While some thread can go on towards its end, some thread does: less than
\* that every thread is scheduled.  The user owes no choice, and the sources no
\* data.
GoesOn ==
    \/ MainGoesOn
    \/ \E t \in Reporters : MovesStorage(t) \/ StorageMoved(t) \/ EndsReport(t)
    \/ \E t \in Threads : Registers(t)
    \/ \E i \in Ingests : SocketSeesDisabled(i) \/ IngestGoesToItsEnd(i)
    \/ \E s \in Streams : AnalysisGoesToItsEnd(s)

Spec == Init /\ [][Next]_vars /\ WF_vars(GoesOn)

-----------------------------------------------------------------------------
\* What main allocates and frees around its threads (their parameters, the buffers,
\* the programs, the queues, the lists and the results) is used while it is there
\* and freed once, in any order of the threads, and a run that comes to its end has
\* freed all of it but the parameters of the socket threads.  What is used after it
\* was freed is one of these:
\*   - the lists, by the socket threads, which with -p still run, and report, when
\*     main frees them;
\*   - the parameters of a file that cannot be opened, by its thread, which goes on;
\*   - the entry of the EBP descriptor, when there is more than one source, by a
\*     thread that parses while another one registers its own;
\*   - the storage of the lists, moved by one thread under another, or, in stream
\*     mode, under main.
\* A crash has its reason: a file that cannot be opened, a source whose preread
\* found no PMT or a stream without an EBP descriptor, or a stream that a source
\* lacks.
ThingsStillThere ==
    /\ \A u \in stale :
          \/ u[2] = Lists /\ u[1][1] = "socket" /\ mode = "stream" /\ peek
          \/ u[2] = Params(u[1]) /\ u[1][1] = "ingest" /\ pc[u[1]] = "unstopped"
          \/ u[2] = Entry /\ u[1][1] \in {"preread", "ingest"} /\ NumIngests > 1
          \/ u[2] = Storage /\ (u[1] = Main => mode = "stream")
    /\ main = "returned" /\ ~ peek => there \subseteq SocketParams \cup {Entry}
    /\ main = "crashed" => \/ \E i \in Ingests : \/ found[i] \in {"undescribed", "no map"}
                                                \/ pc[<<"ingest", i>>] = "unstopped"
                           \/ SomeAbsent

\* A source without video "is legal" (ATSTestApp.c:1045), and so is one without an
\* audio stream that another one has: it is no reason for a crash.  This is NOT so.
AbsentStreamIsLegal ==
    main = "crashed" => \E i \in Ingests : \/ found[i] \in {"undescribed", "no map"}
                                             \/ pc[<<"ingest", i>>] = "unstopped"

\* The report of a program that runs never lists an entry that was freed, but for
\* the moment between the two steps of a clear, unless a thread was adding one at
\* the moment a clear emptied the list (that thread then stores at the index it had
\* read, and the length it sets brings the freed entries back), or at the moment
\* another thread moved the storage of the list (what it stores is then lost).
EntriesStillThere == Log!Dangling => met \/ main \in {"empty list", "crashed"}

\* A failure found outside a clear is in the flags until the next clear, none
\* from before a clear is left after it, and the results at the end are those
\* of the streams that failed: no thread reports one after they are read.
FlagsSinceClear ==
    /\ \A k \in due : ~ pass[k]
    /\ Clearing \/ main = "crashed" \/ \A k \in StreamInfos : ~ pass[k] => k \in since
    /\ \A i \in Ingests : verdict[i] # "none" =>
          LET failing(set) == \E s \in Streams : get2DArrayIndex(i, s) \in set
          IN  /\ failing(due) => verdict[i] = "FAIL"
              /\ verdict[i] = "FAIL" => failing(since)

\* A file run ends, one way or another, and so does a stream run once the user
\* has chosen to leave: no thread waits for one that is gone.
ToolEnds == (mode = "file" \/ main = "disable") ~> ~ Alive
=============================================================================
