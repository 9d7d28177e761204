--------------------------- MODULE TestAppProofs ----------------------------
(***************************************************************************)
(* Proofs about TestApp, for any number of sources and streams.            *)
(***************************************************************************)
EXTENDS TestApp, TLAPS

Places == {"none", "opening", "starting", "running", "unopened", "ending", "unstopped", "ended"}

Types ==
    /\ next \in Nat
    /\ pc \in [Threads -> Places]
    /\ pass \in [StreamInfos -> BOOLEAN]
    /\ due \subseteq StreamInfos
    /\ since \subseteq StreamInfos
    /\ verdict \in [Ingests -> {"none", "PASS", "FAIL"}]

\* The flags while they are cleared, one source after the other.
ClearOK ==
    /\ main \in {"menu", "empty list"} => next = 0
    /\ Clearing => due = {}
    /\ \A k \in due : ~ pass[k]
    /\ main = "reset flags" =>
          \A i \in Ingests, s \in Streams :
              i < next /\ ~ pass[get2DArrayIndex(i, s)] => get2DArrayIndex(i, s) \in since
    /\ Clearing \/ main = "crashed" \/ \A k \in StreamInfos : ~ pass[k] => k \in since

\* The main thread joins the analysis threads, and then the ingest threads.
Judged == {"tear down", "free", "free buffers", "clean up", "close log", "returned", "crashed"}
JoinOK ==
    /\ main = "join analyses" => \A s \in Streams : s < next => pc[<<"analysis", s>>] = "ended"
    /\ main = "join ingests" =>
          /\ \A s \in Streams : pc[<<"analysis", s>>] = "ended"
          /\ \A i \in Ingests : i < next => pc[<<"ingest", i>>] = "ended"
    /\ (main = "analyze" \/ \E i \in Ingests : verdict[i] # "none") =>
          /\ main \in {"analyze"} \cup Judged
          /\ \A s \in Streams : pc[<<"analysis", s>>] = "ended"
          /\ \A i \in Ingests : pc[<<"ingest", i>>] = "ended"

Failing(i, set) == \E s \in Streams : get2DArrayIndex(i, s) \in set
VerdictOK ==
    \A i \in Ingests : verdict[i] # "none" =>
        /\ Failing(i, due) => verdict[i] = "FAIL"
        /\ verdict[i] = "FAIL" => Failing(i, since)

\* The menu is one of the stream mode, and the files are those of the file mode.
ModeOK ==
    /\ main \in {"menu", "empty list", "reset flags"} => mode # "file"
    /\ \A t \in Threads : pc[t] \in {"opening", "unopened", "unstopped"} => mode = "file"

IInv == Types /\ ClearOK /\ JoinOK /\ VerdictOK /\ ModeOK

-----------------------------------------------------------------------------
\* The indexes of streamInfoArray are those of the streams of all sources.
LEMMA IndexInRange ==
    \A i \in Ingests, s \in Streams :
        /\ get2DArrayIndex(i, s) \in StreamInfos
        /\ reportGet2DArrayIndex(i, s) = get2DArrayIndex(i, s)
  <1> SUFFICES ASSUME NEW i \in Ingests, NEW s \in Streams
               PROVE  get2DArrayIndex(i, s) \in StreamInfos
    BY DEF get2DArrayIndex, reportGet2DArrayIndex
  <1>1. /\ NumIngests \in Nat \ {0} /\ NumStreams \in Nat \ {0}
        /\ i \in Nat /\ s \in Nat /\ i + 1 <= NumIngests /\ s + 1 <= NumStreams
    BY TestAppAssumption DEF Ingests, Streams
  <1>2. (i + 1) * NumStreams <= NumIngests * NumStreams
    BY <1>1
  <1>3. (i + 1) * NumStreams = i * NumStreams + NumStreams
    BY <1>1
  <1>4. i * NumStreams \in Nat /\ NumIngests * NumStreams \in Nat
    BY <1>1
  <1> QED
    BY <1>1, <1>2, <1>3, <1>4 DEF get2DArrayIndex, StreamInfos

LEMMA IndexOfAStream ==
    \A k \in StreamInfos : \E i \in Ingests, s \in Streams : k = get2DArrayIndex(i, s)
  <1> SUFFICES ASSUME NEW k \in StreamInfos
               PROVE  \E i \in Ingests, s \in Streams : k = get2DArrayIndex(i, s)
    OBVIOUS
  <1> DEFINE i == k \div NumStreams
             s == k % NumStreams
  <1>1. NumIngests \in Nat \ {0} /\ NumStreams \in Nat \ {0}
    BY TestAppAssumption
  <1>2. NumIngests * NumStreams \in Nat
    BY <1>1
  <1>3. k \in Nat /\ k < NumIngests * NumStreams
    BY <1>2 DEF StreamInfos
  <1>4. i \in Nat /\ s \in Nat /\ s < NumStreams /\ k = i * NumStreams + s
    BY <1>1, <1>3
  <1> HIDE DEF i, s
  <1>5. i < NumIngests
    <2> SUFFICES ASSUME i >= NumIngests PROVE FALSE
      BY <1>1, <1>4
    <2>1. i * NumStreams >= NumIngests * NumStreams
      BY <1>1, <1>4
    <2>2. i * NumStreams \in Nat
      BY <1>1, <1>4
    <2> QED
      BY <1>2, <1>3, <1>4, <2>1, <2>2
  <1>6. i \in Ingests /\ s \in Streams
    BY <1>1, <1>4, <1>5 DEF Ingests, Streams
  <1> QED
    BY <1>4, <1>6 DEF get2DArrayIndex

-----------------------------------------------------------------------------
\* The main thread starts threads.
Starting == {"start sockets", "start prereads", "start analyses", "start ingests"}

\* What the invariant is about.
watched == <<options, mainVars, pc, flags, verdict>>

LEMMA NothingWatched == IInv /\ UNCHANGED watched => IInv'
  BY DEF IInv, Types, ClearOK, JoinOK, VerdictOK, ModeOK, Failing, Clearing,
         watched, options, mainVars, flags

LEMMA StartUp == Init => IInv
  <1> SUFFICES ASSUME Init PROVE IInv
    OBVIOUS
  <1>1. Types
    BY DEF Init, Types, Places
  <1>2. ClearOK /\ JoinOK /\ VerdictOK /\ ModeOK
    BY DEF Init, ClearOK, JoinOK, VerdictOK, ModeOK, Clearing
  <1> QED
    BY <1>1, <1>2 DEF IInv

LEMMA StreamsAreNumbers == \A s \in Streams : ~ (s < 0)
  BY TestAppAssumption DEF Streams

LEMMA Advances ==
    ASSUME NEW n, NEW step, next \in Nat, Advance(n, step)
    PROVE  next' \in Nat /\ (UNCHANGED main \/ (main' = step /\ next' = 0))
  <1>1. CASE next + 1 < n
    BY <1>1 DEF Advance
  <1>2. CASE ~ (next + 1 < n)
    BY <1>2 DEF Advance
  <1> QED
    BY <1>1, <1>2

\* The main thread goes from one step to the next, or to the next turn of a loop, and
\* starts threads at most; flags and results are left alone.
LEMMA MainMoves ==
    ASSUME IInv, next' \in Nat, pc' \in [Threads -> Places],
           UNCHANGED <<options, flags, verdict>>,
           main \in Starting \/ UNCHANGED pc,
           \A t \in Threads : pc'[t] \in {"opening", "unopened", "unstopped"} => mode = "file",
           main \notin {"empty list", "reset flags", "crashed"},
           main' \notin {"empty list", "reset flags", "join ingests", "analyze"},
           main' \in {"menu", "join analyses"} => next' = 0,
           main' = "menu" => mode # "file",
           main \in {"analyze"} \cup Judged => main' \in Judged
    PROVE  IInv'
  <1>1. Types'
    BY DEF IInv, Types, flags
  <1>2. ClearOK'
    BY DEF IInv, ClearOK, Clearing, flags
  <1>3. JoinOK'
    <2>1. \A s \in Streams : ~ (s < 0)
      BY StreamsAreNumbers
    <2>2. CASE main \in Starting
      <3>1. \A i \in Ingests : verdict[i] = "none"
        BY <2>2 DEF IInv, JoinOK, Starting, Judged
      <3> QED
        BY <2>1, <3>1 DEF JoinOK
    <2>3. CASE UNCHANGED pc
      BY <2>1, <2>3 DEF IInv, JoinOK
    <2> QED
      BY <2>2, <2>3
  <1>4. VerdictOK'
    BY DEF IInv, VerdictOK, Failing, flags
  <1>5. ModeOK'
    BY DEF IInv, ModeOK, options
  <1> QED
    BY <1>1, <1>2, <1>3, <1>4, <1>5 DEF IInv

\* A thread that has ended stays so, and the rest is left alone.
LEMMA ThreadMoves ==
    ASSUME IInv, pc' \in [Threads -> Places],
           \A t \in Threads : pc[t] = "ended" => pc'[t] = "ended",
           \A t \in Threads : pc'[t] \in {"opening", "unopened", "unstopped"} => mode = "file",
           UNCHANGED <<options, mainVars, flags, verdict>>
    PROVE  IInv'
  <1>1. \A s \in Streams : <<"analysis", s>> \in Threads
    BY DEF Threads
  <1>2. \A i \in Ingests : <<"ingest", i>> \in Threads
    BY DEF Threads
  <1>3. Types'
    BY DEF IInv, Types, flags, mainVars
  <1>4. ClearOK'
    BY DEF IInv, ClearOK, Clearing, flags, mainVars
  <1>5. JoinOK'
    BY <1>1, <1>2 DEF IInv, JoinOK, flags, mainVars
  <1>6. VerdictOK' /\ ModeOK'
    BY DEF IInv, VerdictOK, Failing, ModeOK, flags, options, mainVars
  <1> QED
    BY <1>3, <1>4, <1>5, <1>6 DEF IInv

-----------------------------------------------------------------------------
\* The steps of the main thread that start threads, and those in which it neither
\* joins the last ones nor clears or reads results.
LEMMA StartsKeep ==
    ASSUME IInv, startSocketReceiveThreads \/ startThreads_PreReadStreamIngest \/ startThreads
    PROVE  IInv'
  <1>1. \A kind \in {"socket", "preread", "ingest"} : \A i \in Ingests : <<kind, i>> \in Threads
    BY DEF Threads
  <1>2. ASSUME NEW kind, NEW n, NEW from, NEW to, Starts(kind, n, from, to),
               from \in Starting,
               to \in Starting \cup {"join prereads", "menu", "join analyses"},
               to = "menu" => mode # "file"
        PROVE  IInv'
    <2> DEFINE p == IF kind \notin {"preread", "ingest"} THEN "running"
                    ELSE IF kind = "ingest" /\ mode = "file" THEN "opening"
                    ELSE "starting"
    <2>1. /\ main = from /\ next' \in Nat
          /\ main' = from \/ (main' = to /\ next' = 0)
      BY <1>2, Advances DEF Starts, IInv, Types
    <2>2. UNCHANGED <<options, flags, verdict>> /\ pc' = [pc EXCEPT ![<<kind, next>>] = p]
      BY <1>2 DEF Starts, shared
    <2>3. pc' \in [Threads -> Places]
      BY <2>2 DEF IInv, Types, Places
    <2>4. \A t \in Threads : pc'[t] \in {"opening", "unopened", "unstopped"} => mode = "file"
      BY <2>2 DEF IInv, Types, ModeOK
    <2> QED
      BY <1>2, <2>1, <2>2, <2>3, <2>4, MainMoves DEF Starting, Judged
  <1>3. CASE startSocketReceiveThreads
    BY <1>2, <1>3 DEF startSocketReceiveThreads, Starting
  <1>4. CASE startThreads_PreReadStreamIngest
    BY <1>2, <1>4 DEF startThreads_PreReadStreamIngest, Starting
  <1>5. CASE startThreads
    BY <1>2, <1>5 DEF startThreads, Starting
  <1> QED
    BY <1>3, <1>4, <1>5

LEMMA GoesKeep ==
    ASSUME IInv, NEW from, NEW to, Goes(from, to), UNCHANGED <<options, pc, flags, verdict>>,
           from \notin {"empty list", "reset flags", "crashed"},
           to \notin {"empty list", "reset flags", "join ingests", "analyze",
                      "menu", "join analyses"},
           from \in {"analyze"} \cup Judged => to \in Judged
    PROVE  IInv'
  BY MainMoves DEF Goes, IInv, Types, ModeOK

LEMMA MainKeeps ==
    ASSUME IInv, RunMode \/ FatalError \/ prereadFiles \/ waitForPreReadStreamIngestToExit
                 \/ waitForSocketReceiveThreadsToExit \/ prereadIngestStreams \/ setupQueues
                 \/ printStreamInfo \/ ChooseExit \/ DisableBuffers \/ teardownQueues
                 \/ freeProgramStreamInfo \/ FreeBuffers \/ reportCleanup \/ MainReturns
    PROVE  IInv'
  <1>1. CASE RunMode
    <2>1. UNCHANGED <<options, pc, flags, verdict>>
      BY <1>1 DEF RunMode, shared
    <2>2. Goes("start", "read files") \/ Goes("start", "start sockets")
      BY <1>1 DEF RunMode
    <2> QED
      BY <2>1, <2>2, GoesKeep DEF Judged
  <1>2. CASE FatalError
    <2>1. /\ UNCHANGED <<options, next, pc, flags, verdict>> /\ main' = "exited"
          /\ main \in {"read files", "start sockets", "start prereads", "set up",
                       "start analyses", "start ingests"}
      BY <1>2 DEF FatalError, shared
    <2> QED
      BY <2>1, MainMoves DEF Judged, IInv, Types, ModeOK
  <1>3. CASE prereadFiles
    BY <1>3, GoesKeep DEF prereadFiles, shared, Judged
  <1>4. CASE waitForPreReadStreamIngestToExit
    <2>1. /\ main = "join prereads" /\ UNCHANGED <<options, pc, flags, verdict>>
          /\ Advance(NumIngests, "free prereads")
      BY <1>4 DEF waitForPreReadStreamIngestToExit, Joins, shared
    <2>2. next \in Nat /\ pc \in [Threads -> Places]
          /\ \A t \in Threads : pc[t] \in {"opening", "unopened", "unstopped"} => mode = "file"
      BY DEF IInv, Types, ModeOK
    <2>3. /\ next' \in Nat
          /\ UNCHANGED main \/ (main' = "free prereads" /\ next' = 0)
      BY <2>1, <2>2, Advances
    <2> QED
      BY <2>1, <2>2, <2>3, MainMoves DEF Judged
  <1>5. CASE waitForSocketReceiveThreadsToExit
    <2>1. /\ main = "join sockets" /\ UNCHANGED <<options, pc, flags, verdict>>
          /\ Advance(NumIngests, "join analyses")
      BY <1>5 DEF waitForSocketReceiveThreadsToExit, Joins, shared
    <2>2. next \in Nat /\ pc \in [Threads -> Places]
          /\ \A t \in Threads : pc[t] \in {"opening", "unopened", "unstopped"} => mode = "file"
      BY DEF IInv, Types, ModeOK
    <2>3. /\ next' \in Nat
          /\ UNCHANGED main \/ (main' = "join analyses" /\ next' = 0)
      BY <2>1, <2>2, Advances
    <2> QED
      BY <2>1, <2>2, <2>3, MainMoves DEF Judged
  <1>6. CASE prereadIngestStreams
    <2>1. /\ main = "free prereads" /\ UNCHANGED <<options, pc, flags, verdict>>
          /\ Advance(NumIngests, "set up") \/ (main' = "crashed" /\ UNCHANGED next)
      BY <1>6 DEF prereadIngestStreams, shared
    <2>2. next \in Nat /\ pc \in [Threads -> Places]
          /\ \A t \in Threads : pc[t] \in {"opening", "unopened", "unstopped"} => mode = "file"
      BY DEF IInv, Types, ModeOK
    <2>3. /\ next' \in Nat
          /\ UNCHANGED main \/ (main' = "set up" /\ next' = 0) \/ main' = "crashed"
      BY <2>1, <2>2, Advances
    <2> QED
      BY <2>1, <2>2, <2>3, MainMoves DEF Judged
  <1>7. CASE setupQueues
    BY <1>7, GoesKeep DEF setupQueues, flags, Judged
  <1>8. CASE printStreamInfo
    <2>1. UNCHANGED <<options, pc, flags, verdict>>
      BY <1>8 DEF printStreamInfo, shared
    <2>2. Goes("print streams", "clean up") \/ Goes("print streams", "start analyses")
      BY <1>8 DEF printStreamInfo
    <2> QED
      BY <2>1, <2>2, GoesKeep DEF Judged
  <1>9. CASE ChooseExit
    BY <1>9, GoesKeep DEF ChooseExit, shared, Judged
  <1>10. CASE DisableBuffers
    <2>1. /\ main = "disable" /\ UNCHANGED <<options, pc, flags, verdict>>
          /\ Advance(NumIngests, "join sockets")
      BY <1>10 DEF DisableBuffers, flags
    <2>2. next \in Nat /\ pc \in [Threads -> Places]
          /\ \A t \in Threads : pc[t] \in {"opening", "unopened", "unstopped"} => mode = "file"
      BY DEF IInv, Types, ModeOK
    <2>3. /\ next' \in Nat
          /\ UNCHANGED main \/ (main' = "join sockets" /\ next' = 0)
      BY <2>1, <2>2, Advances
    <2> QED
      BY <2>1, <2>2, <2>3, MainMoves DEF Judged
  <1>11. CASE teardownQueues
    <2>1. UNCHANGED <<options, pc, flags, verdict>>
      BY <1>11 DEF teardownQueues, shared
    <2>2. Goes("tear down", "crashed") \/ Goes("tear down", "free")
      BY <1>11 DEF teardownQueues
    <2> QED
      BY <2>1, <2>2, GoesKeep DEF Judged
  <1>12. CASE freeProgramStreamInfo
    BY <1>12, GoesKeep DEF freeProgramStreamInfo, shared, Judged
  <1>13. CASE FreeBuffers
    BY <1>13, GoesKeep DEF FreeBuffers, shared, Judged
  <1>14. CASE reportCleanup
    BY <1>14, GoesKeep DEF reportCleanup, Judged
  <1>15. CASE MainReturns
    BY <1>15, GoesKeep DEF MainReturns, shared, Judged
  <1> QED
    BY <1>1, <1>2, <1>3, <1>4, <1>5, <1>6, <1>7, <1>8, <1>9, <1>10, <1>11, <1>12, <1>13,
       <1>14, <1>15

-----------------------------------------------------------------------------
\* The clear: what was reported before it is forgotten source by source.
LEMMA ClearKeeps ==
    ASSUME IInv, reportClearData
    PROVE  IInv'
  <1>0. /\ next \in Nat /\ pass \in [StreamInfos -> BOOLEAN]
        /\ \A i \in Ingests : i < NumIngests /\ i \in Nat
    BY TestAppAssumption DEF IInv, Types, Ingests
  <1>1. CASE ClearBegins
    <2>1. /\ main = "menu" /\ main' = "empty list" /\ due' = {} /\ since' = {}
          /\ UNCHANGED <<options, next, pc, pass, verdict>>
      BY <1>1 DEF ClearBegins, Goes
    <2>2. \A i \in Ingests : verdict[i] = "none"
      BY <2>1 DEF IInv, JoinOK, Judged
    <2>3. Types' /\ ClearOK'
      BY <2>1 DEF IInv, Types, ClearOK, Clearing
    <2>4. JoinOK' /\ VerdictOK'
      BY <2>1, <2>2 DEF JoinOK, VerdictOK
    <2>5. ModeOK'
      BY <2>1 DEF IInv, ModeOK, options
    <2> QED
      BY <2>3, <2>4, <2>5 DEF IInv
  <1>2. CASE ClearEmpties
    <2>1. /\ main = "empty list" /\ main' = "reset flags"
          /\ UNCHANGED <<options, next, pc, pass, due, since, verdict>>
      BY <1>2 DEF ClearEmpties, Goes, flags
    <2>2. \A i \in Ingests : verdict[i] = "none"
      BY <2>1 DEF IInv, JoinOK, Judged
    <2>3. Types'
      BY <2>1 DEF IInv, Types
    <2>4. ClearOK'
      <3>1. next = 0 /\ due = {}
        BY <2>1 DEF IInv, ClearOK, Clearing
      <3>2. \A i \in Ingests : ~ (i < 0)
        BY <1>0
      <3> QED
        BY <2>1, <3>1, <3>2 DEF ClearOK, Clearing
    <2>5. JoinOK' /\ VerdictOK'
      BY <2>1, <2>2 DEF JoinOK, VerdictOK
    <2>6. ModeOK'
      BY <2>1 DEF IInv, ModeOK, options
    <2> QED
      BY <2>3, <2>4, <2>5, <2>6 DEF IInv
  <1>3. CASE ClearResets
    <2>1. /\ main = "reset flags" /\ Advance(NumIngests, "menu")
          /\ pass' = [k \in StreamInfos |->
                         pass[k] \/ \E s \in Streams : k = reportGet2DArrayIndex(next, s)]
          /\ UNCHANGED <<options, pc, due, since, verdict>>
      BY <1>3 DEF ClearResets
    <2>2. \A i \in Ingests : verdict[i] = "none"
      BY <2>1 DEF IInv, JoinOK, Judged
    <2>3. next' \in Nat /\ (UNCHANGED main \/ (main' = "menu" /\ next' = 0))
      BY <1>0, <2>1, Advances
    <2>4. Types'
      BY <2>1, <2>3 DEF IInv, Types
    <2>5. due = {}
      BY <2>1 DEF IInv, ClearOK, Clearing
    <2>6. \A i \in Ingests, s \in Streams :
              i <= next /\ ~ pass'[get2DArrayIndex(i, s)] => get2DArrayIndex(i, s) \in since
      <3> SUFFICES ASSUME NEW i \in Ingests, NEW s \in Streams, i <= next,
                          ~ pass'[get2DArrayIndex(i, s)]
                   PROVE  get2DArrayIndex(i, s) \in since
        OBVIOUS
      <3>1. get2DArrayIndex(i, s) \in StreamInfos /\ ~ pass[get2DArrayIndex(i, s)]
        BY <2>1, IndexInRange
      <3>2. i # next
        BY <2>1, <3>1, IndexInRange
      <3>3. i < next
        BY <1>0, <3>2
      <3> QED
        BY <2>1, <3>1, <3>3 DEF IInv, ClearOK
    <2>7. ClearOK'
      <3>1. CASE next + 1 < NumIngests
        <4>1. next' = next + 1 /\ main' = main
          BY <2>1, <3>1 DEF Advance
        <4>2. \A i \in Ingests : i < next' => i <= next
          BY <1>0, <4>1
        <4> QED
          BY <2>1, <2>5, <2>6, <4>1, <4>2 DEF ClearOK, Clearing
      <3>2. CASE ~ (next + 1 < NumIngests)
        <4>1. next' = 0 /\ main' = "menu"
          BY <2>1, <3>2 DEF Advance
        <4>2. \A i \in Ingests : i <= next
          BY <1>0, <3>2, TestAppAssumption
        <4>3. \A k \in StreamInfos : ~ pass'[k] => k \in since
          BY <2>6, <4>2, IndexOfAStream
        <4> QED
          BY <2>1, <2>5, <4>1, <4>3 DEF ClearOK, Clearing
      <3> QED
        BY <3>1, <3>2
    <2>8. JoinOK' /\ VerdictOK'
      BY <2>1, <2>2, <2>3 DEF JoinOK, VerdictOK
    <2>9. ModeOK'
      BY <2>1, <2>3 DEF IInv, ModeOK, options
    <2> QED
      BY <2>4, <2>7, <2>8, <2>9 DEF IInv
  <1> QED
    BY <1>1, <1>2, <1>3 DEF reportClearData

-----------------------------------------------------------------------------
\* The last joins, and the results.
LEMMA JoinsKeep ==
    ASSUME IInv, waitForThreadsToExit
    PROVE  IInv'
  <1>0. /\ next \in Nat
        /\ \A s \in Streams : s \in Nat /\ s < NumStreams
        /\ \A i \in Ingests : i \in Nat /\ i < NumIngests
        /\ NumStreams \in Nat /\ NumIngests \in Nat
    BY TestAppAssumption DEF IInv, Types, Ingests, Streams
  <1>1. \A i \in Ingests : ~ (i < 0)
    BY <1>0
  <1>2. CASE Joins("analysis", NumStreams, "join analyses", "join ingests")
    <2>1. /\ main = "join analyses" /\ pc[<<"analysis", next>>] = "ended"
          /\ Advance(NumStreams, "join ingests") /\ UNCHANGED <<options, pc, flags, verdict>>
      BY <1>2 DEF Joins, shared
    <2>2. next' \in Nat /\ (UNCHANGED main \/ (main' = "join ingests" /\ next' = 0))
      BY <1>0, <2>1, Advances
    <2>3. \A i \in Ingests : verdict[i] = "none"
      BY <2>1 DEF IInv, JoinOK, Judged
    <2>4. \A s \in Streams : s <= next => pc[<<"analysis", s>>] = "ended"
      <3>1. \A s \in Streams : s < next => pc[<<"analysis", s>>] = "ended"
        BY <2>1 DEF IInv, JoinOK
      <3>2. \A s \in Streams : s <= next => s < next \/ s = next
        BY <1>0
      <3> QED
        BY <2>1, <3>1, <3>2
    <2>5. JoinOK'
      <3>1. CASE next + 1 < NumStreams
        <4>1. next' = next + 1 /\ main' = main
          BY <2>1, <3>1 DEF Advance
        <4>2. \A s \in Streams : s < next' => s <= next
          BY <1>0, <4>1
        <4> QED
          BY <2>1, <2>3, <2>4, <4>1, <4>2 DEF JoinOK
      <3>2. CASE ~ (next + 1 < NumStreams)
        <4>1. next' = 0 /\ main' = "join ingests"
          BY <2>1, <3>2 DEF Advance
        <4>2. \A s \in Streams : s <= next
          BY <1>0, <3>2
        <4> QED
          BY <1>1, <2>1, <2>3, <2>4, <4>1, <4>2 DEF JoinOK
      <3> QED
        BY <3>1, <3>2
    <2>6. Types' /\ ClearOK'
      BY <2>1, <2>2 DEF IInv, Types, ClearOK, Clearing, flags
    <2>7. VerdictOK' /\ ModeOK'
      BY <2>1, <2>2, <2>3 DEF IInv, VerdictOK, ModeOK, options
    <2> QED
      BY <2>5, <2>6, <2>7 DEF IInv
  <1>3. CASE Joins("ingest", NumIngests, "join ingests", "analyze")
    <2>1. /\ main = "join ingests" /\ pc[<<"ingest", next>>] = "ended"
          /\ Advance(NumIngests, "analyze") /\ UNCHANGED <<options, pc, flags, verdict>>
      BY <1>3 DEF Joins, shared
    <2>2. next' \in Nat /\ (UNCHANGED main \/ (main' = "analyze" /\ next' = 0))
      BY <1>0, <2>1, Advances
    <2>3. \A i \in Ingests : verdict[i] = "none"
      BY <2>1 DEF IInv, JoinOK, Judged
    <2>4. /\ \A i \in Ingests : i <= next => pc[<<"ingest", i>>] = "ended"
          /\ \A s \in Streams : pc[<<"analysis", s>>] = "ended"
      <3>1. /\ \A i \in Ingests : i < next => pc[<<"ingest", i>>] = "ended"
            /\ \A s \in Streams : pc[<<"analysis", s>>] = "ended"
        BY <2>1 DEF IInv, JoinOK
      <3>2. \A i \in Ingests : i <= next => i < next \/ i = next
        BY <1>0
      <3> QED
        BY <2>1, <3>1, <3>2
    <2>5. JoinOK'
      <3>1. CASE next + 1 < NumIngests
        <4>1. next' = next + 1 /\ main' = main
          BY <2>1, <3>1 DEF Advance
        <4>2. \A i \in Ingests : i < next' => i <= next
          BY <1>0, <4>1
        <4> QED
          BY <2>1, <2>3, <2>4, <4>1, <4>2 DEF JoinOK
      <3>2. CASE ~ (next + 1 < NumIngests)
        <4>1. next' = 0 /\ main' = "analyze"
          BY <2>1, <3>2 DEF Advance
        <4>2. \A i \in Ingests : i <= next
          BY <1>0, <3>2
        <4> QED
          BY <2>1, <2>3, <2>4, <4>1, <4>2 DEF JoinOK
      <3> QED
        BY <3>1, <3>2
    <2>6. Types' /\ ClearOK'
      BY <2>1, <2>2 DEF IInv, Types, ClearOK, Clearing, flags
    <2>7. VerdictOK' /\ ModeOK'
      BY <2>1, <2>2, <2>3 DEF IInv, VerdictOK, ModeOK, options
    <2> QED
      BY <2>5, <2>6, <2>7 DEF IInv
  <1> QED
    BY <1>2, <1>3 DEF waitForThreadsToExit

LEMMA ResultsKeep ==
    ASSUME IInv, analyzeResults
    PROVE  IInv'
  <1>1. /\ main = "analyze" /\ main' = "tear down"
        /\ verdict' = [i \in Ingests |->
                         IF \A s \in Streams : pass[get2DArrayIndex(i, s)] THEN "PASS" ELSE "FAIL"]
        /\ UNCHANGED <<options, next, pc, pass, due, since>>
    BY DEF analyzeResults, Goes, flags
  <1>2. Types' /\ ClearOK' /\ ModeOK'
    BY <1>1 DEF IInv, Types, ClearOK, ModeOK, Clearing, options
  <1>3. JoinOK'
    BY <1>1 DEF IInv, JoinOK, Judged
  <1>4. VerdictOK'
    <2> SUFFICES ASSUME NEW i \in Ingests
                 PROVE  /\ Failing(i, due)' => verdict'[i] = "FAIL"
                        /\ verdict'[i] = "FAIL" => Failing(i, since)'
      BY DEF VerdictOK
    <2>1. /\ \A k \in due : ~ pass[k]
          /\ \A k \in StreamInfos : ~ pass[k] => k \in since
      BY <1>1 DEF IInv, ClearOK, Clearing
    <2>2. Failing(i, due)' => verdict'[i] = "FAIL"
      BY <1>1, <2>1 DEF Failing
    <2>3. verdict'[i] = "FAIL" => Failing(i, since)'
      BY <1>1, <2>1, IndexInRange DEF Failing
    <2> QED
      BY <2>2, <2>3
  <1> QED
    BY <1>2, <1>3, <1>4 DEF IInv

-----------------------------------------------------------------------------
\* The threads.

\* What neither moves a thread nor touches the flags.
Looks ==
    \/ reportPrint
    \/ \E t \in Reporters : BeginsReport(t) \/ MovesStorage(t) \/ StorageMoved(t) \/ EndsReport(t)
    \/ \E i \in Ingests : SocketReceives(i) \/ \E s \in Streams : PushNull(i, s)
    \/ \E s \in Streams : AnalysisTakesNull(s)

LEMMA LooksKeep == ASSUME IInv, Looks PROVE IInv'
  <1>1. ASSUME reportPrint PROVE UNCHANGED watched
    BY <1>1 DEF reportPrint, watched, shared
  <1>2. ASSUME NEW t \in Reporters, MovesStorage(t) \/ StorageMoved(t) PROVE UNCHANGED watched
    BY <1>2 DEF MovesStorage, StorageMoved, watched
  <1>3. ASSUME NEW t \in Reporters, BeginsReport(t) PROVE UNCHANGED watched
    BY <1>3 DEF BeginsReport, watched
  <1>4. ASSUME NEW t \in Reporters, EndsReport(t) PROVE UNCHANGED watched
    BY <1>4 DEF EndsReport, watched
  <1>5. ASSUME NEW i \in Ingests, SocketReceives(i) PROVE UNCHANGED watched
    BY <1>5 DEF SocketReceives, watched, shared
  <1>6. ASSUME NEW i \in Ingests, NEW s \in Streams, PushNull(i, s) PROVE UNCHANGED watched
    BY <1>6 DEF PushNull, watched
  <1>7. ASSUME NEW s \in Streams, AnalysisTakesNull(s) PROVE UNCHANGED watched
    BY <1>7 DEF AnalysisTakesNull, watched
  <1> QED
    BY <1>1, <1>2, <1>3, <1>4, <1>5, <1>6, <1>7, NothingWatched DEF Looks

\* Thread t, which has not ended, goes to place p.
LEMMA ThreadGoes ==
    ASSUME IInv, NEW t \in Threads, pc[t] # "ended", NEW p \in Places,
           pc' = [pc EXCEPT ![t] = p],
           p \in {"opening", "unopened", "unstopped"} => mode = "file",
           UNCHANGED <<options, mainVars, flags, verdict>>
    PROVE  IInv'
  <1>1. pc' \in [Threads -> Places]
    BY DEF IInv, Types
  <1>2. \A u \in Threads : pc[u] = "ended" => pc'[u] = "ended"
    BY DEF IInv, Types
  <1>3. \A u \in Threads : pc'[u] \in {"opening", "unopened", "unstopped"} => mode = "file"
    BY DEF IInv, Types, ModeOK
  <1> QED
    BY <1>1, <1>2, <1>3, ThreadMoves

LEMMA ThreadsKeep ==
    ASSUME IInv, NEW i \in Ingests, NEW s \in Streams,
           \/ SocketSeesDisabled(i) \/ SocketFails(i) \/ PrereadEnds(i) \/ IngestOpens(i)
           \/ IngestReadsAll(i) \/ IngestTakesForEnd(i) \/ IngestFrees(i) \/ AnalysisEnds(s)
    PROVE  IInv'
  <1>1. /\ <<"socket", i>> \in Threads /\ <<"preread", i>> \in Threads
        /\ <<"ingest", i>> \in Threads /\ <<"analysis", s>> \in Threads
    BY DEF Threads
  <1>2. ASSUME NEW t \in Threads, NEW used, NEW freed, Runs(t), Ends(t, used, freed)
        PROVE  IInv'
    BY <1>2, ThreadGoes DEF Runs, Ends, Places
  <1>3. CASE SocketSeesDisabled(i)
    BY <1>1, <1>2, <1>3 DEF SocketSeesDisabled
  <1>4. CASE SocketFails(i)
    BY <1>1, <1>2, <1>4 DEF SocketFails
  <1>5. CASE PrereadEnds(i)
    BY <1>1, <1>2, <1>5 DEF PrereadEnds
  <1>6. CASE AnalysisEnds(s)
    BY <1>1, <1>2, <1>6 DEF AnalysisEnds
  <1>7. CASE IngestOpens(i)
    <2>1. PICK p \in {"starting", "unopened"} : pc' = [pc EXCEPT ![<<"ingest", i>>] = p]
      BY <1>7 DEF IngestOpens
    <2>2. pc[<<"ingest", i>>] = "opening" /\ UNCHANGED <<options, mainVars, flags, verdict>>
      BY <1>7 DEF IngestOpens, shared
    <2>3. mode = "file"
      BY <1>1, <2>2 DEF IInv, ModeOK
    <2> QED
      BY <1>1, <2>1, <2>2, <2>3, ThreadGoes DEF Places
  <1>8. CASE IngestReadsAll(i)
    BY <1>1, <1>8, ThreadGoes DEF IngestReadsAll, Runs, shared, Places
  <1>9. CASE IngestTakesForEnd(i)
    BY <1>1, <1>9, ThreadGoes DEF IngestTakesForEnd, Runs, shared, Places
  <1>10. CASE IngestFrees(i)
    <2> DEFINE p == IF pc[<<"ingest", i>>] = "ending" THEN "ended" ELSE "unstopped"
    <2>1. /\ pc[<<"ingest", i>>] \in {"ending", "unopened"}
          /\ pc' = [pc EXCEPT ![<<"ingest", i>>] = p]
          /\ UNCHANGED <<options, mainVars, flags, verdict>>
      BY <1>10 DEF IngestFrees, shared
    <2>2. p \in Places /\ (p = "unstopped" => mode = "file")
      BY <1>1, <2>1 DEF IInv, ModeOK, Places
    <2>3. p # "opening" /\ p # "unopened"
      OBVIOUS
    <2> HIDE DEF p
    <2> QED
      BY <1>1, <2>1, <2>2, <2>3, ThreadGoes
  <1> QED
    BY <1>3, <1>4, <1>5, <1>6, <1>7, <1>8, <1>9, <1>10

\* A thread registers the reader of the descriptor, and then reads.
LEMMA RegistersKeep == ASSUME IInv, NEW t \in Threads, Registers(t) PROVE IInv'
  <1>1. /\ pc[t] = "starting" /\ pc' = [pc EXCEPT ![t] = "running"]
        /\ UNCHANGED <<options, mainVars, flags, verdict>>
    BY DEF Registers, shared
  <1> QED
    BY <1>1, ThreadGoes DEF Places

\* The process ends, wherever it is: the results that were read are as they were.
LEMMA CrashKeeps ==
    ASSUME IInv, main' = "crashed", UNCHANGED <<options, next, pc, flags, verdict>>
    PROVE  IInv'
  <1>1. Types' /\ ClearOK' /\ ModeOK'
    BY DEF IInv, Types, ClearOK, ModeOK, Clearing, flags, options
  <1>2. JoinOK' /\ VerdictOK'
    BY DEF IInv, JoinOK, VerdictOK, Judged, Failing, flags
  <1> QED
    BY <1>1, <1>2 DEF IInv

\* What may end it: a thread, or the main thread when it prints its status.
LEMMA CrashesKeep ==
    ASSUME IInv,
           \/ printIngestStatus
           \/ \E i \in Ingests : IngestGoesOn(i) \/ IngestMeetsAbsent(i)
           \/ \E i \in Ingests, s \in Streams : PushNullToAbsent(i, s)
    PROVE  IInv'
  <1>1. CASE printIngestStatus
    <2>1. /\ main' = "crashed" \/ UNCHANGED main
          /\ UNCHANGED <<options, next, pc, flags, verdict>>
      BY <1>1 DEF printIngestStatus, shared
    <2> QED
      BY <2>1, CrashKeeps, NothingWatched DEF watched, mainVars
  <1>2. ASSUME NEW i \in Ingests, IngestGoesOn(i) \/ IngestMeetsAbsent(i) PROVE IInv'
    BY <1>2, CrashKeeps DEF IngestGoesOn, IngestMeetsAbsent, shared
  <1>3. ASSUME NEW i \in Ingests, NEW s \in Streams, PushNullToAbsent(i, s) PROVE IInv'
    BY <1>3, CrashKeeps DEF PushNullToAbsent, shared
  <1> QED
    BY <1>1, <1>2, <1>3

LEMMA FailureKeeps ==
    ASSUME IInv, NEW t \in Threads, NEW i \in Ingests, NEW s \in Streams, StreamFails(t, i, s)
    PROVE  IInv'
  <1> DEFINE k == get2DArrayIndex(i, s)
  <1>1. /\ pc[t] = "running" /\ t \in {<<"ingest", i>>, <<"analysis", s>>}
        /\ pass' = [pass EXCEPT ![k] = FALSE]
        /\ since' = since \cup {k}
        /\ due' = IF Clearing THEN due ELSE due \cup {k}
        /\ UNCHANGED <<options, mainVars, pc, verdict>>
    BY DEF StreamFails, Runs
  <1>2. k \in StreamInfos
    BY IndexInRange
  <1> HIDE DEF k
  <1>3. main # "analyze" /\ \A f \in Ingests : verdict[f] = "none"
    BY <1>1 DEF IInv, JoinOK
  <1>4. Types'
    BY <1>1, <1>2 DEF IInv, Types, mainVars
  <1>5. ClearOK'
    <2>1. \A j \in StreamInfos : ~ pass'[j] => ~ pass[j] \/ j = k
      BY <1>1, <1>2 DEF IInv, Types
    <2>2. \A j \in StreamInfos : (~ pass[j] \/ j = k) => ~ pass'[j]
      BY <1>1, <1>2 DEF IInv, Types
    <2>3. due \subseteq StreamInfos /\ \A j \in due : ~ pass[j]
      BY DEF IInv, Types, ClearOK
    <2>4. Clearing' = Clearing /\ next' = next /\ main' = main
      BY <1>1 DEF Clearing, mainVars
    <2>5. \A j \in due' : ~ pass'[j]
      BY <1>1, <1>2, <2>2, <2>3
    <2>6. Clearing => due' = {}
      BY <1>1 DEF IInv, ClearOK
    <2>7. main = "reset flags" =>
              \A f \in Ingests, r \in Streams :
                  f < next /\ ~ pass'[get2DArrayIndex(f, r)] => get2DArrayIndex(f, r) \in since'
      BY <1>1, <2>1, IndexInRange DEF IInv, ClearOK
    <2>8. Clearing \/ main = "crashed" \/ \A j \in StreamInfos : ~ pass'[j] => j \in since'
      BY <1>1, <2>1 DEF IInv, ClearOK
    <2> QED
      BY <2>4, <2>5, <2>6, <2>7, <2>8 DEF IInv, ClearOK
  <1>6. JoinOK' /\ ModeOK'
    BY <1>1, <1>3 DEF IInv, JoinOK, ModeOK, mainVars, options
  <1>7. VerdictOK'
    BY <1>1, <1>3 DEF VerdictOK
  <1> QED
    BY <1>4, <1>5, <1>6, <1>7 DEF IInv

-----------------------------------------------------------------------------
LEMMA Step == IInv /\ [Next]_vars => IInv'
  <1> SUFFICES ASSUME IInv, [Next]_vars PROVE IInv'
    OBVIOUS
  <1>0. NumStreams \in Nat \ {0} /\ \E s \in Streams : TRUE
    BY TestAppAssumption DEF Streams
  <1>1. CASE UNCHANGED vars
    BY <1>1, NothingWatched DEF vars, watched, shared
  <1>2. CASE MainGoesOn
    BY <1>2, MainKeeps, StartsKeep, ClearKeeps, JoinsKeep, ResultsKeep
       DEF MainGoesOn, reportClearData
  <1>3. CASE Menu
    BY <1>3, MainKeeps, ClearKeeps, LooksKeep, CrashesKeep DEF Menu, reportClearData, Looks
  <1>4. CASE FatalError
    BY <1>4, MainKeeps
  <1>5. ASSUME NEW t \in Reporters,
               BeginsReport(t) \/ MovesStorage(t) \/ StorageMoved(t) \/ EndsReport(t)
        PROVE  IInv'
    BY <1>5, LooksKeep DEF Looks
  <1>6. ASSUME NEW t \in Threads, NEW i \in Ingests, NEW s \in Streams, StreamFails(t, i, s)
        PROVE  IInv'
    BY <1>6, FailureKeeps
  <1>7. ASSUME NEW i \in Ingests, \/ SocketReceives(i) \/ SocketSeesDisabled(i) \/ SocketFails(i)
                                  \/ PrereadEnds(i) \/ IngestTakesForEnd(i) \/ IngestMeetsAbsent(i)
        PROVE  IInv'
    BY <1>0, <1>7, ThreadsKeep, LooksKeep, CrashesKeep DEF Looks
  <1>8. ASSUME NEW i \in Ingests, IngestGoesToItsEnd(i) PROVE IInv'
    BY <1>0, <1>8, ThreadsKeep, LooksKeep, CrashesKeep DEF IngestGoesToItsEnd, Looks
  <1>9. ASSUME NEW s \in Streams, AnalysisGoesToItsEnd(s) PROVE IInv'
    <2>1. \E i \in Ingests : TRUE
      BY TestAppAssumption DEF Ingests
    <2> QED
      BY <1>9, <2>1, ThreadsKeep, LooksKeep DEF AnalysisGoesToItsEnd, Looks
  <1>10. ASSUME NEW t \in Threads, Registers(t) PROVE IInv'
    BY <1>10, RegistersKeep
  <1> QED
    BY <1>1, <1>2, <1>3, <1>4, <1>5, <1>6, <1>7, <1>8, <1>9, <1>10 DEF Next

\* The flags at the end of a run are those of the failures since the last clear,
\* for any number of sources and streams and whatever reports and clears meet
\* (ATSTestReport.c, reportClearData; ATSTestApp.c, analyzeResults).
THEOREM ResultsAreOfTheRun == Spec => []FlagsSinceClear
  <1>1. IInv => FlagsSinceClear
    BY DEF IInv, ClearOK, VerdictOK, Failing, FlagsSinceClear, Types
  <1> QED
    BY StartUp, Step, <1>1, PTL DEF Spec

-----------------------------------------------------------------------------
\* The report.

\* The storage of the list, its length, and the lengths that threads have read.
EntryTypes ==
    /\ slots \in [Log!Slots -> {"entry", "gone"}]
    /\ length \in 0 .. MaxReports
    /\ adding \in [Reporters -> 0 .. MaxReports]
    /\ growing \subseteq {t \in Reporters : adding[t] # Log!Idle}
    /\ met \in BOOLEAN

\* As long as no thread was adding when the list was emptied or its storage moved by
\* another one, no thread is going to store beyond its end, and what the list holds is
\* there but for the moment between the two steps of a clear.
EntriesOK ==
    ~ met => /\ \A t \in Reporters : adding[t] # Log!Idle => adding[t] <= length
             /\ main \notin {"empty list", "crashed"} =>
                    \A k \in Log!Slots : k < length => slots[k] = "entry"

EntryInv == EntryTypes /\ EntriesOK

\* A thread stores its entry at the end of the list or before it: the list has
\* no hole.
LEMMA EntryIsStored ==
    ASSUME EntryInv, NEW t \in Reporters, Log!EndAdd(t), UNCHANGED main
    PROVE  EntryInv'
  <1> DEFINE a == adding[t]
  <1>1. /\ a \in 0 .. MaxReports - 1 /\ MaxReports \in Nat
        /\ slots' = [slots EXCEPT ![a] = "entry"] \/ (growing # {} /\ UNCHANGED slots)
        /\ length' = IF length > a THEN length ELSE a + 1
        /\ adding' = [adding EXCEPT ![t] = MaxReports]
        /\ t \notin growing /\ UNCHANGED growing
    BY TestAppAssumption DEF EntryInv, EntryTypes, Log!EndAdd, Log!Idle
  <1>0. met' \in BOOLEAN /\ (met => met') /\ (growing # {} => met')
    BY Zenon DEF Log!EndAdd
  <1>2. a \in Log!Slots /\ \A k \in Log!Slots : k \in Nat
    BY <1>1 DEF Log!Slots
  <1> HIDE DEF a
  <1>3. length' \in 0 .. MaxReports /\ length <= length' /\ length \in Nat
    BY <1>1 DEF EntryInv, EntryTypes
  <1>4. EntryTypes'
    <2>1. /\ slots' \in [Log!Slots -> {"entry", "gone"}] /\ length' \in 0 .. MaxReports
          /\ adding' \in [Reporters -> 0 .. MaxReports] /\ met' \in BOOLEAN
      BY <1>0, <1>1, <1>2, <1>3 DEF EntryInv, EntryTypes
    <2>2. growing' \subseteq {u \in Reporters : adding'[u] # MaxReports}
      BY <1>1 DEF EntryInv, EntryTypes, Log!Idle
    <2> QED
      BY <2>1, <2>2 DEF EntryTypes, Log!Slots, Log!Idle
  <1>5. EntriesOK'
    <2> SUFFICES ASSUME ~ met'
                 PROVE  /\ \A u \in Reporters : adding'[u] # MaxReports => adding'[u] <= length'
                        /\ main \notin {"empty list", "crashed"} =>
                               \A k \in Log!Slots : k < length' => slots'[k] = "entry"
      BY <1>1 DEF EntriesOK, Log!Slots, Log!Idle
    <2>0. ~ met /\ slots' = [slots EXCEPT ![a] = "entry"]
      BY <1>0, <1>1
    <2>1. /\ \A u \in Reporters : adding[u] # MaxReports => adding[u] <= length
          /\ main \notin {"empty list", "crashed"} =>
                 \A k \in Log!Slots : k < length => slots[k] = "entry"
      BY <2>0 DEF EntryInv, EntriesOK, Log!Idle
    <2>2. ASSUME NEW u \in Reporters, adding'[u] # MaxReports PROVE adding'[u] <= length'
      <3>1. u # t /\ adding'[u] = adding[u] /\ adding[u] \in Nat
        BY <1>1, <2>2 DEF EntryInv, EntryTypes
      <3>2. adding[u] <= length
        BY <2>1, <2>2, <3>1
      <3>3. QED
        BY <1>3, <3>1, <3>2
    <2>3. ASSUME main \notin {"empty list", "crashed"}, NEW k \in Log!Slots, k < length' PROVE slots'[k] = "entry"
      <3>1. a <= length
        <4>1. adding[t] # MaxReports
          BY <1>1 DEF a
        <4>2. QED
          BY <2>1, <4>1 DEF a
      <3>2. k < length \/ k = a
        <4>1. k \in Nat /\ a \in Nat /\ length \in Nat
          BY <1>1, <1>2, <1>3
        <4>2. CASE length > a
          BY <1>1, <2>3, <4>2
        <4>3. CASE ~ (length > a)
          <5>1. k < a + 1
            BY <1>1, <2>3, <4>3
          <5>2. QED
            BY <4>1, <5>1, <3>1
        <4>4. QED
          BY <4>2, <4>3
      <3>3. QED
        BY <1>2, <2>0, <2>1, <2>3, <3>2 DEF EntryInv, EntryTypes
    <2>4. QED
      BY <2>2, <2>3
  <1>6. QED
    BY <1>4, <1>5 DEF EntryInv

\* The storage is moved: the list is as it was, and so are those who add to it.
LEMMA StorageIsMoved ==
    ASSUME EntryInv, NEW t \in Reporters, Log!BeginGrow(t) \/ Log!EndGrow(t), UNCHANGED main
    PROVE  EntryInv'
  <1>1. /\ UNCHANGED <<slots, length, adding, main>>
        /\ growing' \subseteq {u \in Reporters : adding[u] # Log!Idle}
        /\ met' \in BOOLEAN /\ (met => met')
    BY DEF EntryInv, EntryTypes, Log!BeginGrow, Log!EndGrow
  <1>2. EntryTypes' /\ EntriesOK'
    BY <1>1 DEF EntryInv, EntryTypes, EntriesOK, Log!Slots, Log!Idle
  <1> QED
    BY <1>2 DEF EntryInv

\* An entry can only be dropped by a thread that was adding it when the list was
\* emptied.
LEMMA ListIsEmptied ==
    ASSUME EntryInv, UNCHANGED <<adding, growing>>, length' = 0,
           slots' \in [Log!Slots -> {"entry", "gone"}],
           met' = (met \/ \E t \in Reporters : adding[t] # Log!Idle)
    PROVE  EntryInv'
  <1>1. 0 \in 0 .. MaxReports /\ \A k \in Log!Slots : ~ (k < 0)
    BY TestAppAssumption DEF Log!Slots
  <1>2. met' \in BOOLEAN
    BY Zenon
  <1>3. EntryTypes'
    BY <1>1, <1>2 DEF EntryInv, EntryTypes, Log!Slots, Log!Idle
  <1>4. EntriesOK'
    BY <1>1 DEF EntriesOK, Log!Slots, Log!Idle
  <1>5. QED
    BY <1>3, <1>4 DEF EntryInv

\* What the steps of the tool do to the list.
LEMMA EntryStep == IInv /\ EntryInv /\ [Next]_vars => EntryInv'
  <1> SUFFICES ASSUME IInv, EntryInv, [Next]_vars PROVE EntryInv'
    OBVIOUS
  <1>1. ASSUME UNCHANGED reportVars,
               main \notin {"empty list", "crashed"} \/ UNCHANGED main \/ main' = "crashed"
        PROVE  EntryInv'
    BY <1>1 DEF EntryInv, EntryTypes, EntriesOK, reportVars, Log!Slots, Log!Idle
  <1>2. CASE UNCHANGED vars
    BY <1>1, <1>2 DEF vars, mainVars, shared
  <1>3. CASE MainGoesOn
    <2>1. CASE ClearEmpties
      BY <2>1, ListIsEmptied DEF ClearEmpties, Log!EmptyList, EntryInv, EntryTypes
    <2>2. CASE reportCleanup
      BY <2>2, ListIsEmptied DEF reportCleanup, Log!FreeAndEmpty, EntryInv, EntryTypes
    <2>3. CASE ClearResets
      BY <1>1, <2>3 DEF ClearResets
    <2>4. CASE RunMode \/ prereadFiles \/ setupQueues \/ printStreamInfo \/ analyzeResults
               \/ teardownQueues \/ freeProgramStreamInfo \/ FreeBuffers \/ MainReturns
      <3>1. CASE RunMode
        BY <1>1, <3>1 DEF RunMode, Goes, shared
      <3>2. CASE prereadFiles
        BY <1>1, <3>2 DEF prereadFiles, Goes, shared
      <3>3. CASE setupQueues
        BY <1>1, <3>3 DEF setupQueues, Goes, shared
      <3>4. CASE printStreamInfo
        BY <1>1, <3>4 DEF printStreamInfo, Goes, shared
      <3>5. CASE analyzeResults
        BY <1>1, <3>5 DEF analyzeResults, Goes, shared
      <3>6. CASE teardownQueues
        BY <1>1, <3>6 DEF teardownQueues, Goes, shared
      <3>7. CASE freeProgramStreamInfo
        BY <1>1, <3>7 DEF freeProgramStreamInfo, Goes, shared
      <3>8. CASE FreeBuffers
        BY <1>1, <3>8 DEF FreeBuffers, Goes, shared
      <3>9. CASE MainReturns
        BY <1>1, <3>9 DEF MainReturns, Goes, shared
      <3>10. QED
        BY <2>4, <3>1, <3>2, <3>3, <3>4, <3>5, <3>6, <3>7, <3>8, <3>9
    <2>5. CASE waitForPreReadStreamIngestToExit \/ waitForSocketReceiveThreadsToExit
               \/ waitForThreadsToExit
      BY <1>1, <2>5 DEF waitForPreReadStreamIngestToExit, shared,
         waitForSocketReceiveThreadsToExit, waitForThreadsToExit, Joins
    <2>6. CASE startSocketReceiveThreads \/ startThreads_PreReadStreamIngest
               \/ startThreads
      BY <1>1, <2>6 DEF startSocketReceiveThreads, shared,
         startThreads_PreReadStreamIngest, startThreads, Starts
    <2>7. CASE prereadIngestStreams
      BY <1>1, <2>7 DEF prereadIngestStreams, shared
    <2>8. CASE DisableBuffers
      BY <1>1, <2>8 DEF DisableBuffers
    <2>9. QED
      BY <1>3, <2>1, <2>2, <2>3, <2>4, <2>5, <2>6, <2>7, <2>8 DEF MainGoesOn
  <1>4. CASE Menu
    <2>1. CASE ClearBegins
      <3>1. /\ main' = "empty list" /\ UNCHANGED <<length, adding, growing, met>>
            /\ slots' = [k \in Log!Slots |-> IF k < length THEN "gone" ELSE slots[k]]
        BY <2>1 DEF ClearBegins, Goes, Log!FreeEntries
      <3>2. EntryTypes'
        BY <3>1 DEF EntryInv, EntryTypes, Log!Slots, Log!Idle
      <3>3. QED
        BY <3>1, <3>2 DEF EntryInv, EntriesOK, Log!Idle, Log!Slots
    <2>2. CASE reportPrint \/ printIngestStatus
      BY <1>1, <2>2 DEF reportPrint, printIngestStatus, mainVars, shared
    <2>3. CASE ChooseExit
      BY <1>1, <2>3 DEF ChooseExit, Goes, shared
    <2>4. QED
      BY <1>4, <2>1, <2>2, <2>3 DEF Menu
  <1>5. CASE FatalError
    BY <1>1, <1>5 DEF FatalError, shared
  <1>6. ASSUME NEW t \in Reporters, BeginsReport(t) PROVE EntryInv'
    <2>1. /\ length < MaxReports /\ adding' = [adding EXCEPT ![t] = length]
          /\ UNCHANGED <<main, slots, length, growing, met>>
      BY <1>6 DEF BeginsReport, Log!BeginAdd, mainVars
    <2>2. length \in 0 .. MaxReports /\ length <= length /\ length # MaxReports
      BY <2>1, TestAppAssumption DEF EntryInv, EntryTypes
    <2>3. EntryTypes'
      <3>1. growing' \subseteq {u \in Reporters : adding'[u] # MaxReports}
        BY <2>1, <2>2 DEF EntryInv, EntryTypes, Log!Idle
      <3> QED
        BY <2>1, <2>2, <3>1 DEF EntryInv, EntryTypes, Log!Slots, Log!Idle
    <2>4. \A u \in Reporters : adding'[u] = adding[u] \/ adding'[u] = length
      BY <2>1 DEF EntryInv, EntryTypes
    <2>5. QED
      BY <2>1, <2>2, <2>3, <2>4 DEF EntryInv, EntriesOK, Log!Idle, Log!Slots
  <1>7. ASSUME NEW t \in Reporters, EndsReport(t) PROVE EntryInv'
    BY <1>7, EntryIsStored DEF EndsReport, mainVars
  <1>8. ASSUME NEW i \in Ingests, IngestGoesOn(i) \/ IngestMeetsAbsent(i) PROVE EntryInv'
    BY <1>1, <1>8 DEF IngestGoesOn, IngestMeetsAbsent, shared
  <1>9. ASSUME UNCHANGED <<mainVars, reportVars>> PROVE EntryInv'
    BY <1>1, <1>9 DEF mainVars
  <1>10. ASSUME NEW t \in Threads, NEW i \in Ingests, NEW s \in Streams, StreamFails(t, i, s)
         PROVE  EntryInv'
    BY <1>9, <1>10 DEF StreamFails
  <1>11. ASSUME NEW i \in Ingests, \/ SocketReceives(i) \/ SocketSeesDisabled(i) \/ SocketFails(i)
                                   \/ PrereadEnds(i) \/ IngestTakesForEnd(i)
                                   \/ IngestOpens(i) \/ IngestReadsAll(i) \/ IngestFrees(i)
         PROVE  EntryInv'
    BY <1>9, <1>11 DEF SocketReceives, SocketSeesDisabled, SocketFails, PrereadEnds, Ends,
       IngestTakesForEnd, IngestOpens, IngestReadsAll, IngestFrees, shared
  <1>12. ASSUME NEW i \in Ingests, NEW s \in Streams, PushNull(i, s) \/ PushNullToAbsent(i, s)
         PROVE  EntryInv'
    BY <1>1, <1>9, <1>12 DEF PushNull, PushNullToAbsent, shared
  <1>13. ASSUME NEW s \in Streams, AnalysisGoesToItsEnd(s) PROVE EntryInv'
    BY <1>9, <1>13 DEF AnalysisGoesToItsEnd, AnalysisTakesNull, AnalysisEnds, Ends
  <1>14. ASSUME NEW t \in Reporters, MovesStorage(t) \/ StorageMoved(t) PROVE EntryInv'
    BY <1>14, StorageIsMoved DEF MovesStorage, StorageMoved, mainVars
  <1>15. ASSUME NEW t \in Threads, Registers(t) PROVE EntryInv'
    BY <1>9, <1>15 DEF Registers, shared
  <1>16. QED
    BY <1>2, <1>3, <1>4, <1>5, <1>6, <1>7, <1>8, <1>10, <1>11, <1>12, <1>13, <1>14, <1>15
       DEF Next, IngestGoesToItsEnd

\* In the beginning the list is empty and nobody adds to it.
LEMMA EntryStart == Init => EntryInv
  <1> SUFFICES ASSUME Init PROVE EntryInv
    OBVIOUS
  <1>1. 0 \in 0 .. MaxReports /\ MaxReports \in 0 .. MaxReports /\ \A k \in Log!Slots : ~ (k < 0)
    BY TestAppAssumption DEF Log!Slots
  <1>2. QED
    BY <1>1 DEF Init, EntryInv, EntryTypes, EntriesOK, Log!reportInit, Log!Idle, Log!Slots

\* The report lists no entry that was freed, unless a thread was adding one when
\* the list was emptied or while another thread moved its storage (ATSTestReport.c,
\* reportClearData; varray.c, varray_add and _varray_expand_to_length).
THEOREM ReportListsWhatIsThere == Spec => []EntriesStillThere
  <1>1. EntryInv => EntriesStillThere
    BY DEF EntryInv, EntriesOK, EntryTypes, EntriesStillThere, Log!Dangling
  <1>2. QED
    BY StartUp, Step, EntryStart, EntryStep, <1>1, PTL DEF Spec
-----------------------------------------------------------------------------
(***************************************************************************)
(* Proof that TestApp uses nothing that was freed, but where it is known   *)
(* to.  The inductive invariant has two parts: where every thread is for   *)
(* each place of the main thread (PlaceInv), and what exactly is allocated *)
(* then (MemInv).                                                          *)
(***************************************************************************)
\* Where the threads are.

\* Where the main thread may be, by the options of the command line.
StreamOnly == {"start sockets", "start prereads", "join prereads", "free prereads",
               "menu", "empty list", "reset flags", "disable", "join sockets"}
Working == {"start analyses", "start ingests", "menu", "empty list", "reset flags",
            "disable", "join sockets", "join analyses", "join ingests"}
Joined  == {"join analyses", "join ingests", "analyze", "tear down", "free", "free buffers"}
Freed   == {"clean up", "close log", "returned"}
Early   == {"start", "read files", "start sockets", "start prereads", "join prereads",
            "free prereads", "set up", "print streams", "start analyses"}
Stopped == main \in {"exited", "crashed"}

WhereOK ==
    /\ mode \in {"file", "stream"} /\ peek \in BOOLEAN
    /\ main \in StreamOnly => mode = "stream"
    /\ main \in Working \cup Joined => ~ peek

\* The loops of the main thread are at an index of theirs.
IngestLoops == {"start sockets", "start prereads", "join prereads", "free prereads",
                "start ingests", "reset flags", "disable", "join sockets", "join ingests"}
StreamLoops == {"start analyses", "join analyses"}

TurnsOK ==
    /\ main \in IngestLoops => next \in Ingests
    /\ main \in StreamLoops => next \in Streams
    /\ ~ Stopped /\ main \notin IngestLoops \cup StreamLoops => next = 0

\* The socket threads are started before the prereads and joined before the
\* ingest threads; with -p they are left running.
SocketOK(i) ==
    LET p == pc[<<"socket", i>>]
    IN  /\ p \in {"none", "running", "ended"}
        /\ p # "none" => mode = "stream" /\ main # "start"
        /\ mode = "stream" /\ main \notin {"start", "start sockets"} /\ ~ Stopped => p # "none"
        /\ main = "start sockets" /\ i < next => p # "none"
        /\ main = "join sockets" /\ i < next => p # "running"
        /\ main \in Joined \/ (main \in Freed /\ ~ peek) => p # "running"

\* The preread threads run until they are joined, and have found something then.
PrereadOK(i) ==
    LET p == pc[<<"preread", i>>]
    IN  /\ p \in {"none", "starting", "running", "ended"}
        /\ p # "none" => mode = "stream" /\ main \notin {"start", "start sockets"}
        /\ p \in {"starting", "running"} /\ ~ Stopped =>
               main \in {"start prereads", "join prereads"}
        /\ main = "start prereads" => (p # "none" <=> i < next)
        /\ main = "join prereads" => p # "none" /\ (i < next => p = "ended")
        /\ main = "free prereads" => p = "ended"
        /\ p = "ended" => found[i] # "nothing"

\* The ingest and analysis threads run between their start and their join.
Owning == {"opening", "starting", "running", "unopened", "ending"}
WorkerOK(t) == pc[t] \in Owning \cup {"unstopped"} /\ ~ Stopped => main \in Working

\* An ingest thread is not there before it is started.
NotYet(i) == main \in Early \/ (main = "start ingests" /\ ~ (i < next)) =>
                pc[<<"ingest", i>>] = "none"

\* A thread does not end while it adds to the report.
AddingOK == \A t \in Reporters : adding[t] # Log!Idle => pc[t] \in {"running", "unopened"}

\* A crash has a reason that stays.
CrashOK == main = "crashed" => \/ \E i \in Ingests : \/ found[i] \in {"undescribed", "no map"}
                                                     \/ pc[<<"ingest", i>>] = "unstopped"
                               \/ SomeAbsent

PlaceInv ==
    /\ WhereOK /\ TurnsOK /\ AddingOK /\ CrashOK
    /\ found \in [Ingests -> {"nothing", "all described", "undescribed", "no map"}]
    /\ \A i \in Ingests : SocketOK(i) /\ PrereadOK(i) /\ WorkerOK(<<"ingest", i>>) /\ NotYet(i)
    /\ \A s \in Streams : WorkerOK(<<"analysis", s>>)
                          /\ pc[<<"analysis", s>>] \in {"none", "running", "ended"}

\* One turn of a loop of the main thread.
LEMMA Turn ==
    ASSUME NEW n \in Nat \ {0}, NEW to, next \in 0 .. n - 1, Advance(n, to)
    PROVE  \/ /\ next' = next + 1 /\ main' = main /\ next' \in 0 .. n - 1
              /\ \A i \in 0 .. n - 1 : i < next' => i < next \/ i = next
           \/ /\ next' = 0 /\ main' = to /\ \A i \in 0 .. n - 1 : i < next \/ i = next
  <1>1. CASE next + 1 < n
    <2>1. next' = next + 1 /\ main' = main
      BY <1>1 DEF Advance
    <2>2. next + 1 \in 0 .. n - 1 /\ \A i \in 0 .. n - 1 : i < next + 1 => i < next \/ i = next
      BY <1>1
    <2>3. QED
      BY <2>1, <2>2
  <1>2. CASE ~ (next + 1 < n)
    <2>1. next' = 0 /\ main' = to
      BY <1>2 DEF Advance
    <2>2. \A i \in 0 .. n - 1 : i < next \/ i = next
      BY <1>2
    <2>3. QED
      BY <2>1, <2>2
  <1>3. QED
    BY <1>1, <1>2

\* An index of a loop is a number, and 0 is the first.
LEMMA ZeroIsFirst == \A n \in Nat \ {0} : 0 \in 0 .. n - 1 /\ 0 .. n - 1 \subseteq Int
  OBVIOUS

\* What is not before the next index is not before this one either.
LEMMA NotBeforeNext == \A i, n \in Int : ~ (n < n) /\ (~ (i < n + 1) => i # n /\ ~ (i < n))
  OBVIOUS

\* Loops begin at their first index.
LEMMA FirstIndex == /\ 0 \in Ingests /\ 0 \in Streams
                    /\ \A i \in Ingests : ~ (i < 0)
                    /\ \A s \in Streams : ~ (s < 0)
                    /\ Ingests \subseteq Int
  BY TestAppAssumption DEF Ingests, Streams

\* The steps of the main thread that are no loops.
Straight == {<<"start", "read files">>, <<"start", "start sockets">>, <<"read files", "set up">>,
             <<"set up", "print streams">>, <<"print streams", "clean up">>,
             <<"print streams", "start analyses">>, <<"menu", "empty list">>,
             <<"empty list", "reset flags">>, <<"menu", "disable">>, <<"analyze", "tear down">>,
             <<"tear down", "free">>, <<"free", "free buffers">>, <<"free buffers", "clean up">>,
             <<"clean up", "close log">>, <<"close log", "returned">>}

\* A step of the main thread to its next place leaves everyone where the invariant has them.
LEMMA StraightOn ==
    ASSUME IInv, PlaceInv, UNCHANGED <<options, pc, found, adding>>,
           NEW from, NEW to, <<from, to>> \in Straight, Goes(from, to),
           to = "read files" => mode = "file", to = "start sockets" => mode = "stream",
           from = "print streams" => (to = "clean up" <=> peek)
    PROVE  PlaceInv'
  <1>1. main = from /\ main' = to /\ next' = next
    BY DEF Goes
  <1>2. UNCHANGED <<mode, peek, pc, found, adding>>
    BY DEF options
  <1>3. ~ Stopped /\ ~ Stopped' /\ main \notin IngestLoops \cup StreamLoops /\ next = 0
    BY <1>1 DEF Straight, Stopped, IngestLoops, StreamLoops, PlaceInv, TurnsOK
  <1>4. WhereOK'
    BY <1>1, <1>2 DEF PlaceInv, WhereOK, Straight, StreamOnly, Working, Joined
  <1>5. TurnsOK'
    BY <1>1, <1>3, FirstIndex DEF TurnsOK, Straight, IngestLoops, StreamLoops
  <1>6. AddingOK' /\ CrashOK'
    BY <1>1, <1>2, <1>3 DEF PlaceInv, AddingOK, CrashOK, Stopped, Log!Idle
  <1>7. ASSUME NEW i \in Ingests PROVE SocketOK(i)' /\ PrereadOK(i)' /\ NotYet(i)'
    <2>1. SocketOK(i) /\ PrereadOK(i) /\ NotYet(i) /\ ~ (i < 0)
      BY FirstIndex DEF PlaceInv
    <2>2. SocketOK(i)'
      BY <1>1, <1>2, <1>3, <2>1 DEF SocketOK, Straight, Joined, Freed
    <2>3. PrereadOK(i)'
      BY <1>1, <1>2, <1>3, <2>1 DEF PrereadOK, Straight
    <2>4. NotYet(i)'
      BY <1>1, <1>2, <1>3, <2>1 DEF NotYet, Straight, Early
    <2>5. QED
      BY <2>2, <2>3, <2>4
  <1>8. ASSUME NEW t, WorkerOK(t) PROVE WorkerOK(t)'
    BY <1>1, <1>2, <1>3, <1>8 DEF WorkerOK, Straight, Working
  <1>9. QED
    BY <1>2, <1>4, <1>5, <1>6, <1>7, <1>8 DEF PlaceInv

\* The loops of the main thread that start no thread.
Rounds == {<<"join prereads", "free prereads">>, <<"free prereads", "set up">>,
           <<"reset flags", "menu">>, <<"disable", "join sockets">>,
           <<"join sockets", "join analyses">>, <<"join analyses", "join ingests">>,
           <<"join ingests", "analyze">>}

\* So does a turn of a loop in which it joins threads or resets flags,
LEMMA RoundAndRound ==
    ASSUME IInv, IInv', PlaceInv, UNCHANGED <<options, pc, found, adding>>,
           NEW from, NEW to, <<from, to>> \in Rounds, main = from,
           NEW n, Advance(n, to), from = "join analyses" => n = NumStreams,
           from # "join analyses" => n = NumIngests,
           from = "join prereads" => pc[<<"preread", next>>] = "ended",
           from = "join sockets" => pc[<<"socket", next>>] = "ended"
    PROVE  PlaceInv'
  <1> DEFINE Turns == next' = next + 1 /\ main' = main
                      /\ \A i \in 0 .. n - 1 : i < next' => i < next \/ i = next
             Leaves == next' = 0 /\ main' = to /\ \A i \in 0 .. n - 1 : i < next \/ i = next
  <1>1. UNCHANGED <<mode, peek, pc, found, adding>> /\ main # "exited" /\ main # "crashed"
    BY DEF options, Rounds
  <1>2. next \in 0 .. n - 1 /\ n \in Nat \ {0}
    BY TestAppAssumption DEF PlaceInv, TurnsOK, Rounds, IngestLoops, StreamLoops, Ingests, Streams
  <1>3. next' \in 0 .. n - 1 /\ (Turns \/ Leaves)
    BY <1>2, ZeroIsFirst, Turn
  <1>4. from # "join analyses" => next \in Ingests /\ Ingests = 0 .. n - 1
    BY <1>2 DEF Ingests
  <1>5. WhereOK'
    BY <1>1, <1>3 DEF PlaceInv, WhereOK, Rounds, StreamOnly, Working, Joined
  <1>6. TurnsOK'
    <2>1. CASE Turns
      BY <1>3, <2>1 DEF TurnsOK, Rounds, IngestLoops, StreamLoops, Ingests, Streams
    <2>2. CASE Leaves
      BY <2>2, FirstIndex DEF TurnsOK, Rounds, IngestLoops, StreamLoops
    <2>3. QED
      BY <1>3, <2>1, <2>2
  <1>7. AddingOK' /\ CrashOK'
    BY <1>1, <1>3 DEF PlaceInv, AddingOK, CrashOK, Log!Idle, Rounds
  <1>8. ASSUME NEW i \in Ingests PROVE SocketOK(i)' /\ PrereadOK(i)' /\ NotYet(i)'
    <2>1. SocketOK(i) /\ PrereadOK(i) /\ NotYet(i) /\ ~ (i < 0)
      BY FirstIndex DEF PlaceInv
    <2>2. from # "join analyses" => /\ Turns /\ i < next' => i < next \/ i = next
                                    /\ Leaves => i < next \/ i = next
      BY <1>4
    <2>3. SocketOK(i)'
      BY <1>1, <1>3, <2>1, <2>2 DEF SocketOK, Rounds, Joined, Freed, Stopped
    <2>4. PrereadOK(i)'
      BY <1>1, <1>3, <2>1, <2>2 DEF PrereadOK, Rounds, Stopped
    <2>5. NotYet(i)'
      BY <1>1, <1>3, <2>1 DEF NotYet, Rounds, Early
    <2>6. QED
      BY <2>3, <2>4, <2>5
  <1>9. ASSUME NEW t, WorkerOK(t), main' = "analyze" => pc[t] = "ended" PROVE WorkerOK(t)'
    BY <1>1, <1>3, <1>9 DEF WorkerOK, Rounds, Working, Stopped, Owning
  <1>10. main' = "analyze" => /\ \A i \in Ingests : pc[<<"ingest", i>>] = "ended"
                              /\ \A s \in Streams : pc[<<"analysis", s>>] = "ended"
    BY <1>1 DEF IInv, JoinOK
  <1>11. QED
    BY <1>1, <1>5, <1>6, <1>7, <1>8, <1>9, <1>10 DEF PlaceInv

\* Where a thread begins.
Begun == {"opening", "starting", "running"}

\* The loops that start threads.
Kinds == {<<"socket", "start sockets", "start prereads">>,
          <<"preread", "start prereads", "join prereads">>,
          <<"analysis", "start analyses", "start ingests">>,
          <<"ingest", "start ingests", "join analyses">>, <<"ingest", "start ingests", "menu">>}

\* and one in which it starts a thread.
LEMMA StartsOn ==
    ASSUME IInv, PlaceInv, UNCHANGED <<options, found, adding>>,
           NEW kind, NEW from, NEW to, <<kind, from, to>> \in Kinds, main = from,
           NEW n, Advance(n, to), kind = "analysis" => n = NumStreams,
           kind # "analysis" => n = NumIngests,
           NEW p \in Begun, p = "opening" => kind = "ingest",
           p = "starting" => kind \in {"preread", "ingest"},
           pc' = [pc EXCEPT ![<<kind, next>>] = p],
           to = "menu" => mode = "stream", to = "join analyses" => mode = "file"
    PROVE  /\ PlaceInv'
           /\ <<kind, next>> \in Threads
  <1> USE DEF Begun
  <1> DEFINE u == <<kind, next>>
             Turns == next' = next + 1 /\ main' = main
                      /\ \A k \in 0 .. n - 1 : k < next' => k < next \/ k = next
             Leaves == next' = 0 /\ main' = to /\ \A k \in 0 .. n - 1 : k < next \/ k = next
  <1>1. UNCHANGED <<mode, peek, found, adding>> /\ main # "exited" /\ main # "crashed"
    BY DEF options, Kinds
  <1>2. next \in 0 .. n - 1 /\ n \in Nat \ {0}
    BY TestAppAssumption DEF PlaceInv, TurnsOK, Kinds, IngestLoops, StreamLoops, Ingests, Streams
  <1>3. next' \in 0 .. n - 1 /\ (Turns \/ Leaves)
    BY <1>2, ZeroIsFirst, Turn
  <1>4. u \in Threads /\ (kind # "analysis" => next \in Ingests /\ Ingests = 0 .. n - 1)
    BY <1>2 DEF Ingests, Streams, Threads, Kinds
  <1>5. /\ pc \in [Threads -> Places] /\ pc'[u] = p
        /\ \A t \in Threads : t # u => pc'[t] = pc[t]
    BY <1>4 DEF IInv, Types
  <1>6. WhereOK'
    BY <1>1, <1>3 DEF PlaceInv, WhereOK, Kinds, StreamOnly, Working, Joined
  <1>7. TurnsOK'
    <2>1. CASE Turns
      BY <1>3, <2>1 DEF TurnsOK, Kinds, IngestLoops, StreamLoops, Ingests, Streams
    <2>2. CASE Leaves
      BY <2>2, FirstIndex DEF TurnsOK, Kinds, IngestLoops, StreamLoops
    <2>3. QED
      BY <1>3, <2>1, <2>2
  <1>8. p \in {"opening", "starting"} => pc[u] = "none"
    <2> SUFFICES ASSUME p \in {"opening", "starting"} PROVE pc[<<kind, next>>] = "none"
      OBVIOUS
    <2>1. /\ kind # "analysis"
          /\ \/ kind = "ingest" /\ main = "start ingests"
             \/ kind = "preread" /\ main = "start prereads"
      BY DEF Kinds
    <2>2. \A i \in Ingests : main = "start ingests" /\ ~ (i < next) => pc[<<"ingest", i>>] = "none"
      BY DEF PlaceInv, NotYet
    <2>3. ~ (next < next)
      BY <1>2, ZeroIsFirst, NotBeforeNext, Zenon
    <2>4. next \in Ingests
      BY <1>4, <2>1, Zenon
    <2>5. main = "start ingests" => pc[<<"ingest", next>>] = "none"
      BY <2>2, <2>3, <2>4
    <2>6. main = "start prereads" => pc[<<"preread", next>>] = "none"
      BY <2>3, <2>4 DEF PlaceInv, PrereadOK
    <2>7. QED
      BY <2>1, <2>5, <2>6
  <1>9. AddingOK'
    <2>1. ASSUME NEW t \in Reporters, adding'[t] # Log!Idle PROVE pc'[t] \in {"running", "unopened"}
      <3>1. t \in Threads /\ pc[t] \in {"running", "unopened"}
        BY <1>1, <2>1, ReportersAssumption DEF PlaceInv, AddingOK
      <3>2. QED
        BY <1>5, <1>8, <3>1
    <2>2. QED
      BY <2>1 DEF AddingOK, Log!Idle
  <1>10. CrashOK'
    BY <1>1, <1>3 DEF CrashOK, Kinds
  <1>11. ASSUME NEW i \in Ingests PROVE SocketOK(i)' /\ PrereadOK(i)' /\ NotYet(i)'
    <2>1. /\ SocketOK(i) /\ PrereadOK(i) /\ NotYet(i) /\ ~ (i < 0)
          /\ <<"socket", i>> \in Threads /\ <<"preread", i>> \in Threads
          /\ <<"ingest", i>> \in Threads
      BY FirstIndex DEF PlaceInv, Threads
    <2>2. kind # "analysis" => /\ Turns /\ i < next' => i < next \/ i = next
                               /\ Leaves => i < next \/ i = next
      BY <1>4
    <2>3. Turns /\ ~ (i < next') => i # next /\ ~ (i < next)
      <3>1. i \in Int /\ next \in Int
        BY <1>2, FirstIndex, ZeroIsFirst, Zenon
      <3>2. ASSUME Turns, ~ (i < next') PROVE i # next /\ ~ (i < next)
        <4>1. ~ (i < next + 1)
          BY <3>2
        <4>2. QED
          BY <3>1, <4>1, NotBeforeNext, Zenon
      <3>3. QED
        BY <3>2
    <2>4. main \in StreamOnly => mode = "stream"
      BY DEF PlaceInv, WhereOK
    <2>5. pc'[<<"socket", i>>] = IF kind = "socket" /\ i = next THEN "running" ELSE pc[<<"socket", i>>]
      BY <1>5, <2>1
    <2>6. pc'[<<"preread", i>>] = IF kind = "preread" /\ i = next THEN p ELSE pc[<<"preread", i>>]
      BY <1>5, <2>1
    <2>7. (kind = "ingest" /\ i = next) \/ pc'[<<"ingest", i>>] = pc[<<"ingest", i>>]
      BY <1>5, <2>1
    <2>8. SocketOK(i)'
      <3>1. CASE kind = "socket"
        <4>1. from = "start sockets" /\ to = "start prereads" /\ mode = "stream"
          BY <2>4, <3>1 DEF Kinds, StreamOnly
        <4>2. main' \in {"start sockets", "start prereads"}
          BY <1>3, <4>1
        <4>3. i < next' \/ main' = "start prereads" => pc'[<<"socket", i>>] # "none"
          <5>1. i < next \/ i = next => pc'[<<"socket", i>>] # "none"
            BY <2>1, <2>5, <3>1, <4>1 DEF SocketOK
          <5>2. i < next' \/ main' = "start prereads" => i < next \/ i = next
            BY <1>3, <2>2, <3>1, <4>1
          <5>3. QED
            BY <5>1, <5>2
        <4>4. QED
          BY <1>1, <2>1, <2>5, <4>1, <4>2, <4>3 DEF SocketOK, Joined, Freed, Stopped
      <3>2. CASE kind # "socket"
        <4>1. pc'[<<"socket", i>>] = pc[<<"socket", i>>] /\ main \notin {"start", "start sockets"}
          BY <2>5, <3>2 DEF Kinds
        <4>2. main' = main \/ <<main, main'>> \in {<<"start prereads", "join prereads">>,
                  <<"start analyses", "start ingests">>, <<"start ingests", "join analyses">>,
                  <<"start ingests", "menu">>}
          BY <1>3, <3>2 DEF Kinds
        <4>3. main' = "join analyses" => pc[<<"socket", i>>] # "running"
          <5>1. ASSUME main' = "join analyses" PROVE main = "join analyses" \/ mode = "file"
            BY <1>3, <5>1
          <5>2. QED
            BY <2>1, <5>1 DEF SocketOK, Joined
        <4>4. QED
          BY <1>1, <2>1, <4>1, <4>2, <4>3 DEF SocketOK, Joined, Freed, Stopped, Kinds
      <3>3. QED
        BY <3>1, <3>2
    <2>9. PrereadOK(i)'
      <3>1. CASE kind = "preread"
        <4>1. from = "start prereads" /\ to = "join prereads" /\ mode = "stream"
          BY <2>4, <3>1 DEF Kinds, StreamOnly
        <4>2. /\ main' \in {"start prereads", "join prereads"}
              /\ main' = "join prereads" => next' = 0
          BY <1>3, <4>1
        <4>3. i < next' \/ main' = "join prereads" => pc'[<<"preread", i>>] # "none"
          <5>1. i < next \/ i = next => pc'[<<"preread", i>>] # "none"
            BY <2>1, <2>6, <3>1, <4>1 DEF PrereadOK
          <5>2. i < next' \/ main' = "join prereads" => i < next \/ i = next
            BY <1>3, <2>2, <3>1, <4>1
          <5>3. QED
            BY <5>1, <5>2
        <4>4. main' = "start prereads" /\ ~ (i < next') => pc'[<<"preread", i>>] = "none"
          BY <1>3, <2>1, <2>3, <2>6, <4>1 DEF PrereadOK
        <4>5. p \in {"starting", "running"}
          BY <3>1
        <4>6. QED
          BY <1>1, <2>1, <2>6, <4>1, <4>2, <4>3, <4>4, <4>5 DEF PrereadOK
      <3>2. CASE kind # "preread"
        <4>1. pc'[<<"preread", i>>] = pc[<<"preread", i>>]
          BY <2>6, <3>2
        <4>2. \/ main' = main /\ main \notin {"start prereads", "join prereads", "free prereads"}
              \/ <<main, main'>> \in {<<"start sockets", "start prereads">>,
                     <<"start analyses", "start ingests">>, <<"start ingests", "join analyses">>,
                     <<"start ingests", "menu">>}
          BY <1>3, <3>2 DEF Kinds
        <4>3. main' = "start prereads" => next' = 0
          BY <1>3, <4>2
        <4>4. QED
          BY <1>1, <2>1, <4>1, <4>2, <4>3 DEF PrereadOK, Stopped
      <3>3. QED
        BY <3>1, <3>2
    <2>10. NotYet(i)'
      BY <1>1, <1>3, <2>1, <2>3, <2>7 DEF NotYet, Kinds, Early
    <2>11. QED
      BY <2>8, <2>9, <2>10
  <1>12. ASSUME NEW t \in Threads, WorkerOK(t), t[1] \in {"ingest", "analysis"} PROVE WorkerOK(t)'
    <2>1. t = u => kind \in {"ingest", "analysis"}
      <3>1. u[1] = kind
        OBVIOUS
      <3>2. QED
        BY <1>12, <3>1, Zenon
    <2>2. kind \in {"ingest", "analysis"} => main' \in Working
      BY <1>3 DEF Kinds, Working
    <2>3. main \in Working => main' \in Working
      BY <1>3 DEF Kinds, Working
    <2>4. QED
      BY <1>1, <1>5, <1>12, <2>1, <2>2, <2>3 DEF WorkerOK, Stopped
  <1>13. ASSUME NEW s \in Streams PROVE pc'[<<"analysis", s>>] \in {"none", "running", "ended"}
    <2>1. <<"analysis", s>> \in Threads /\ pc[<<"analysis", s>>] \in {"none", "running", "ended"}
      BY DEF Threads, PlaceInv
    <2>2. kind = "analysis" => p = "running"
      BY DEF Kinds
    <2>3. <<"analysis", s>> = u => kind = "analysis"
      OBVIOUS
    <2>4. QED
      BY <1>5, <2>1, <2>2, <2>3
  <1>14. /\ \A i \in Ingests : <<"ingest", i>> \in Threads
         /\ \A s \in Streams : <<"analysis", s>> \in Threads
    BY DEF Threads
  <1>15. QED
    BY <1>1, <1>4, <1>6, <1>7, <1>9, <1>10, <1>11, <1>12, <1>13, <1>14 DEF PlaceInv

\* The process ends before its time.
LEMMA StopsHere ==
    ASSUME IInv, PlaceInv, UNCHANGED <<options, next, pc, found, adding>>,
           main' \in {"exited", "crashed"}, CrashOK'
    PROVE  PlaceInv'
  <1>1. UNCHANGED <<mode, peek, next, pc, found, adding>> /\ Stopped'
    BY DEF options, Stopped
  <1>2. WhereOK' /\ TurnsOK' /\ AddingOK'
    BY <1>1 DEF PlaceInv, WhereOK, TurnsOK, AddingOK, Log!Idle, StreamOnly, Working, Joined,
       IngestLoops, StreamLoops
  <1>3. ASSUME NEW i \in Ingests PROVE SocketOK(i)' /\ PrereadOK(i)' /\ NotYet(i)'
    <2>1. SocketOK(i) /\ PrereadOK(i)
      BY DEF PlaceInv
    <2>2. QED
      BY <1>1, <2>1 DEF SocketOK, PrereadOK, NotYet, Joined, Freed, Early
  <1>4. \A t : WorkerOK(t)'
    BY <1>1 DEF WorkerOK
  <1>5. QED
    BY <1>1, <1>2, <1>3, <1>4 DEF PlaceInv

\* Thread t goes on, from where it owns its parameters, or ends.
LEMMA ThreadOn ==
    ASSUME IInv, PlaceInv, Alive, UNCHANGED <<options, mainVars, adding>>,
           NEW t \in Threads, NEW p, pc' = [pc EXCEPT ![t] = p], pc[t] \in Owning,
           \A i \in Ingests : t = <<"socket", i>> => pc[t] = "running" /\ p = "ended",
           \A i \in Ingests : t = <<"preread", i>> =>
               \/ pc[t] = "running" /\ p = "ended"
               \/ pc[t] = "starting" /\ p = "running",
           \A s \in Streams : t = <<"analysis", s>> => pc[t] = "running" /\ p = "ended",
           t \in Reporters /\ adding[t] # Log!Idle => p \in {"running", "unopened"},
           found' \in [Ingests -> {"nothing", "all described", "undescribed", "no map"}],
           \A i \in Ingests : found'[i] = "nothing" => found[i] = "nothing",
           \A i \in Ingests : t = <<"preread", i>> /\ p = "ended" => found'[i] # "nothing"
    PROVE  PlaceInv'
  <1>1. UNCHANGED <<mode, peek, main, next, adding>> /\ ~ Stopped /\ ~ Stopped'
    BY DEF options, mainVars, Alive, Stopped
  <1>2. /\ pc \in [Threads -> Places] /\ pc'[t] = p
        /\ \A u \in Threads : u # t => pc'[u] = pc[u]
    BY DEF IInv, Types
  <1>3. WhereOK' /\ TurnsOK' /\ CrashOK'
    BY <1>1 DEF PlaceInv, WhereOK, TurnsOK, CrashOK, Stopped
  <1>4. AddingOK'
    <2>1. ASSUME NEW u \in Reporters, adding'[u] # Log!Idle PROVE pc'[u] \in {"running", "unopened"}
      <3>1. u \in Threads /\ pc[u] \in {"running", "unopened"} /\ adding[u] # Log!Idle
        BY <1>1, <2>1, ReportersAssumption DEF PlaceInv, AddingOK
      <3>2. QED
        BY <1>2, <3>1
    <2>2. QED
      BY <2>1 DEF AddingOK, Log!Idle
  <1>5. ASSUME NEW i \in Ingests PROVE SocketOK(i)' /\ PrereadOK(i)' /\ NotYet(i)'
    <2>1. /\ SocketOK(i) /\ PrereadOK(i) /\ NotYet(i)
          /\ <<"socket", i>> \in Threads /\ <<"preread", i>> \in Threads
          /\ <<"ingest", i>> \in Threads
      BY DEF PlaceInv, Threads
    <2>2. SocketOK(i)'
      <3>1. \/ pc'[<<"socket", i>>] = pc[<<"socket", i>>]
            \/ pc[<<"socket", i>>] = "running" /\ pc'[<<"socket", i>>] = "ended"
        BY <1>2, <2>1
      <3>2. QED
        BY <1>1, <2>1, <3>1 DEF SocketOK, Stopped
    <2>3. PrereadOK(i)'
      <3>1. \/ pc'[<<"preread", i>>] = pc[<<"preread", i>>] /\ t # <<"preread", i>>
            \/ /\ pc[<<"preread", i>>] = "running" /\ pc'[<<"preread", i>>] = "ended"
               /\ t = <<"preread", i>> /\ p = "ended"
            \/ pc[<<"preread", i>>] = "starting" /\ pc'[<<"preread", i>>] = "running"
        BY <1>2, <2>1
      <3>2. QED
        BY <1>1, <2>1, <3>1 DEF PrereadOK, Stopped
    <2>4. NotYet(i)'
      BY <1>1, <1>2, <2>1 DEF NotYet, Owning
    <2>5. QED
      BY <2>2, <2>3, <2>4
  <1>6. ASSUME NEW u \in Threads, WorkerOK(u) PROVE WorkerOK(u)'
    BY <1>1, <1>2, <1>6 DEF WorkerOK, Owning, Stopped
  <1>7. ASSUME NEW s \in Streams PROVE pc'[<<"analysis", s>>] \in {"none", "running", "ended"}
    <2>1. <<"analysis", s>> \in Threads /\ pc[<<"analysis", s>>] \in {"none", "running", "ended"}
      BY DEF Threads, PlaceInv
    <2>2. QED
      BY <1>2, <2>1
  <1>8. /\ \A i \in Ingests : <<"ingest", i>> \in Threads
        /\ \A s \in Streams : <<"analysis", s>> \in Threads
    BY DEF Threads
  <1>9. QED
    BY <1>3, <1>4, <1>5, <1>6, <1>7, <1>8 DEF PlaceInv

\* Nobody goes anywhere.
LEMMA StaysHere ==
    ASSUME PlaceInv, UNCHANGED <<options, mainVars, pc, found>>, AddingOK',
           Alive \/ UNCHANGED queue
    PROVE  PlaceInv'
  <1>1. UNCHANGED <<mode, peek, main, next, pc, found>>
    BY DEF options, mainVars
  <1>2. WhereOK' /\ TurnsOK' /\ CrashOK'
    BY <1>1 DEF PlaceInv, WhereOK, TurnsOK, CrashOK, Stopped, Alive, SomeAbsent, Absent
  <1>3. ASSUME NEW i \in Ingests PROVE SocketOK(i)' /\ PrereadOK(i)' /\ NotYet(i)'
    BY <1>1 DEF PlaceInv, SocketOK, PrereadOK, NotYet, Stopped
  <1>4. ASSUME NEW t, WorkerOK(t) PROVE WorkerOK(t)'
    BY <1>1, <1>4 DEF WorkerOK, Stopped
  <1>5. QED
    BY <1>1, <1>2, <1>3, <1>4 DEF PlaceInv

\* The steps of the main thread, one after the other.
LEMMA StraightPlaces ==
    ASSUME IInv, PlaceInv,
           \/ RunMode \/ printStreamInfo \/ prereadFiles \/ setupQueues \/ ClearBegins
           \/ ClearEmpties \/ ChooseExit \/ analyzeResults \/ teardownQueues
           \/ freeProgramStreamInfo \/ FreeBuffers \/ reportCleanup \/ MainReturns
    PROVE  PlaceInv'
  <1>1. ASSUME RunMode PROVE PlaceInv'
    <2>1. UNCHANGED <<options, pc, found, adding>>
      BY <1>1 DEF RunMode, shared, reportVars
    <2>2. CASE mode = "file"
      <3>1. Goes("start", "read files") /\ <<"start", "read files">> \in Straight
        BY <1>1, <2>2 DEF RunMode, Straight
      <3>2. QED
        BY <2>1, <2>2, <3>1, StraightOn, Zenon
    <2>3. CASE mode # "file"
      <3>1. /\ Goes("start", "start sockets") /\ <<"start", "start sockets">> \in Straight
            /\ mode = "stream"
        BY <1>1, <2>3 DEF RunMode, PlaceInv, WhereOK, Straight
      <3>2. QED
        BY <2>1, <3>1, StraightOn, Zenon
    <2>4. QED
      BY <2>2, <2>3
  <1>2. ASSUME printStreamInfo PROVE PlaceInv'
    <2>1. UNCHANGED <<options, pc, found, adding>>
      BY <1>2 DEF printStreamInfo, shared, reportVars
    <2>2. CASE peek
      <3>1. Goes("print streams", "clean up") /\ <<"print streams", "clean up">> \in Straight
        BY <1>2, <2>2 DEF printStreamInfo, Straight
      <3>2. QED
        BY <2>1, <2>2, <3>1, StraightOn, Zenon
    <2>3. CASE ~ peek
      <3>1. /\ Goes("print streams", "start analyses")
            /\ <<"print streams", "start analyses">> \in Straight
        BY <1>2, <2>3 DEF printStreamInfo, Straight
      <3>2. QED
        BY <2>1, <2>3, <3>1, StraightOn, Zenon
    <2>4. QED
      BY <2>2, <2>3
  <1>3. ASSUME prereadFiles PROVE PlaceInv'
    <2>1. /\ Goes("read files", "set up") /\ UNCHANGED <<options, pc, found, adding>>
          /\ <<"read files", "set up">> \in Straight
      BY <1>3 DEF prereadFiles, shared, reportVars, Straight
    <2>2. QED
      BY <2>1, StraightOn, Zenon
  <1>4. ASSUME setupQueues PROVE PlaceInv'
    <2>1. /\ Goes("set up", "print streams") /\ UNCHANGED <<options, pc, found, adding>>
          /\ <<"set up", "print streams">> \in Straight
      BY <1>4 DEF setupQueues, reportVars, Straight
    <2>2. QED
      BY <2>1, StraightOn, Zenon
  <1>5. ASSUME ClearBegins PROVE PlaceInv'
    <2>1. /\ Goes("menu", "empty list") /\ UNCHANGED <<options, pc, found, adding>>
          /\ <<"menu", "empty list">> \in Straight
      BY <1>5 DEF ClearBegins, Log!FreeEntries, Straight
    <2>2. QED
      BY <2>1, StraightOn, Zenon
  <1>6. ASSUME ClearEmpties PROVE PlaceInv'
    <2>1. /\ Goes("empty list", "reset flags") /\ UNCHANGED <<options, pc, found, adding>>
          /\ <<"empty list", "reset flags">> \in Straight
      BY <1>6 DEF ClearEmpties, Log!EmptyList, Straight
    <2>2. QED
      BY <2>1, StraightOn, Zenon
  <1>7. ASSUME ChooseExit PROVE PlaceInv'
    <2>1. /\ Goes("menu", "disable") /\ UNCHANGED <<options, pc, found, adding>>
          /\ <<"menu", "disable">> \in Straight
      BY <1>7 DEF ChooseExit, shared, reportVars, Straight
    <2>2. QED
      BY <2>1, StraightOn, Zenon
  <1>8. ASSUME analyzeResults PROVE PlaceInv'
    <2>1. /\ Goes("analyze", "tear down") /\ UNCHANGED <<options, pc, found, adding>>
          /\ <<"analyze", "tear down">> \in Straight
      BY <1>8 DEF analyzeResults, reportVars, Straight
    <2>2. QED
      BY <2>1, StraightOn, Zenon
  <1>9. ASSUME teardownQueues PROVE PlaceInv'
    <2>1. UNCHANGED <<options, pc, found, adding>> /\ UNCHANGED queue
      BY <1>9 DEF teardownQueues, shared, reportVars
    <2>2. CASE SomeAbsent
      <3>1. main' = "crashed" /\ UNCHANGED next
        BY <1>9, <2>2 DEF teardownQueues, Goes
      <3>2. QED
        BY <2>1, <2>2, <3>1, StopsHere DEF CrashOK, SomeAbsent, Absent
    <2>3. CASE ~ SomeAbsent
      <3>1. Goes("tear down", "free") /\ <<"tear down", "free">> \in Straight
        BY <1>9, <2>3 DEF teardownQueues, Straight
      <3>2. QED
        BY <2>1, <3>1, StraightOn, Zenon
    <2>4. QED
      BY <2>2, <2>3
  <1>10. ASSUME freeProgramStreamInfo PROVE PlaceInv'
    <2>1. /\ Goes("free", "free buffers") /\ UNCHANGED <<options, pc, found, adding>>
          /\ <<"free", "free buffers">> \in Straight
      BY <1>10 DEF freeProgramStreamInfo, shared, reportVars, Straight
    <2>2. QED
      BY <2>1, StraightOn, Zenon
  <1>11. ASSUME FreeBuffers PROVE PlaceInv'
    <2>1. /\ Goes("free buffers", "clean up") /\ UNCHANGED <<options, pc, found, adding>>
          /\ <<"free buffers", "clean up">> \in Straight
      BY <1>11 DEF FreeBuffers, shared, reportVars, Straight
    <2>2. QED
      BY <2>1, StraightOn, Zenon
  <1>12. ASSUME reportCleanup PROVE PlaceInv'
    <2>1. /\ Goes("clean up", "close log") /\ UNCHANGED <<options, pc, found, adding>>
          /\ <<"clean up", "close log">> \in Straight
      BY <1>12 DEF reportCleanup, Log!FreeAndEmpty, Straight
    <2>2. QED
      BY <2>1, StraightOn, Zenon
  <1>13. ASSUME MainReturns PROVE PlaceInv'
    <2>1. /\ Goes("close log", "returned") /\ UNCHANGED <<options, pc, found, adding>>
          /\ <<"close log", "returned">> \in Straight
      BY <1>13 DEF MainReturns, shared, reportVars, Straight
    <2>2. QED
      BY <2>1, StraightOn, Zenon
  <1>14. QED
    BY <1>1, <1>2, <1>3, <1>4, <1>5, <1>6, <1>7, <1>8, <1>9, <1>10, <1>11, <1>12, <1>13

\* The loops are at different places.
LEMMA RoundNames ==
    /\ "join prereads" # "join analyses" /\ "free prereads" # "join analyses"
    /\ "reset flags" # "join analyses" /\ "disable" # "join analyses"
    /\ "join sockets" # "join analyses" /\ "join ingests" # "join analyses"
    /\ "free prereads" # "join prereads" /\ "reset flags" # "join prereads"
    /\ "disable" # "join prereads" /\ "join sockets" # "join prereads"
    /\ "join ingests" # "join prereads" /\ "join prereads" # "join sockets"
    /\ "free prereads" # "join sockets" /\ "reset flags" # "join sockets"
    /\ "disable" # "join sockets" /\ "join ingests" # "join sockets"
  OBVIOUS

\* The loops of the main thread that start no thread.
LEMMA RoundPlaces ==
    ASSUME IInv, IInv', PlaceInv,
           \/ waitForPreReadStreamIngestToExit \/ waitForSocketReceiveThreadsToExit
           \/ ClearResets \/ DisableBuffers \/ waitForThreadsToExit
           \/ prereadIngestStreams
    PROVE  PlaceInv'
  <1>1. ASSUME waitForPreReadStreamIngestToExit PROVE PlaceInv'
    <2>1. /\ main = "join prereads" /\ Advance(NumIngests, "free prereads") /\ pc[<<"preread", next>>] = "ended"
          /\ UNCHANGED <<options, pc, found, adding>> /\ <<"join prereads", "free prereads">> \in Rounds
      BY <1>1 DEF waitForPreReadStreamIngestToExit, Joins, shared, reportVars, Rounds
    <2>2. QED
      BY <2>1, RoundNames, RoundAndRound, Zenon
  <1>2. ASSUME waitForSocketReceiveThreadsToExit PROVE PlaceInv'
    <2>1. /\ main = "join sockets" /\ Advance(NumIngests, "join analyses") /\ pc[<<"socket", next>>] = "ended"
          /\ UNCHANGED <<options, pc, found, adding>> /\ <<"join sockets", "join analyses">> \in Rounds
      BY <1>2 DEF waitForSocketReceiveThreadsToExit, Joins, shared, reportVars, Rounds
    <2>2. QED
      BY <2>1, RoundNames, RoundAndRound, Zenon
  <1>3. ASSUME ClearResets PROVE PlaceInv'
    <2>1. /\ main = "reset flags" /\ Advance(NumIngests, "menu")
          /\ UNCHANGED <<options, pc, found, adding>> /\ <<"reset flags", "menu">> \in Rounds
      BY <1>3 DEF ClearResets, reportVars, Rounds
    <2>2. QED
      BY <2>1, RoundNames, RoundAndRound, Zenon
  <1>4. ASSUME DisableBuffers PROVE PlaceInv'
    <2>1. /\ main = "disable" /\ Advance(NumIngests, "join sockets")
          /\ UNCHANGED <<options, pc, found, adding>> /\ <<"disable", "join sockets">> \in Rounds
      BY <1>4 DEF DisableBuffers, reportVars, Rounds
    <2>2. QED
      BY <2>1, RoundNames, RoundAndRound, Zenon
  <1>5. ASSUME waitForThreadsToExit PROVE PlaceInv'
    <2>1. UNCHANGED <<options, pc, found, adding>>
      BY <1>5 DEF waitForThreadsToExit, Joins, shared, reportVars
    <2>2. <<"join analyses", "join ingests">> \in Rounds /\ <<"join ingests", "analyze">> \in Rounds
      BY DEF Rounds
    <2>3. \/ main = "join analyses" /\ Advance(NumStreams, "join ingests")
          \/ main = "join ingests" /\ Advance(NumIngests, "analyze")
      BY <1>5 DEF waitForThreadsToExit, Joins
    <2>4. CASE main = "join analyses" /\ Advance(NumStreams, "join ingests")
      BY <2>1, <2>4, <2>2, RoundAndRound, Zenon
    <2>5. CASE main = "join ingests" /\ Advance(NumIngests, "analyze")
      BY <2>1, <2>5, <2>2, RoundNames, RoundAndRound, Zenon
    <2>6. QED
      BY <2>3, <2>4, <2>5
  <1>6. ASSUME prereadIngestStreams PROVE PlaceInv'
    <2>1. main = "free prereads" /\ UNCHANGED <<options, pc, found, adding>>
      BY <1>6 DEF prereadIngestStreams, shared, reportVars
    <2>2. CASE found[next] = "all described"
      <3>1. Advance(NumIngests, "set up") /\ <<"free prereads", "set up">> \in Rounds
        BY <1>6, <2>2 DEF prereadIngestStreams, Rounds
      <3>2. QED
        BY <2>1, <3>1, RoundNames, RoundAndRound, Zenon
    <2>3. CASE found[next] # "all described"
      <3>1. main' = "crashed" /\ next' = next
        BY <1>6, <2>3 DEF prereadIngestStreams
      <3>2. next \in Ingests
        BY <2>1 DEF PlaceInv, TurnsOK, IngestLoops
      <3>3. found[next] # "nothing"
        BY <2>1, <3>2 DEF PlaceInv, PrereadOK
      <3>4. found[next] \in {"undescribed", "no map"}
        BY <2>3, <3>2, <3>3 DEF PlaceInv
      <3>5. CrashOK'
        BY <2>1, <3>2, <3>4 DEF CrashOK
      <3>6. QED
        BY <2>1, <3>1, <3>5, StopsHere
    <2>4. QED
      BY <2>2, <2>3
  <1>7. QED
    BY <1>1, <1>2, <1>3, <1>4, <1>5, <1>6

\* What starting a thread does to it.
LEMMA WhatStarts ==
    ASSUME NEW kind, NEW n, NEW from, NEW to, Starts(kind, n, from, to)
    PROVE  /\ UNCHANGED <<options, found, adding>> /\ main = from /\ Advance(n, to)
           /\ \E p \in Begun :
                  /\ p = "opening" => kind = "ingest"
                  /\ p = "starting" => kind \in {"preread", "ingest"}
                  /\ pc' = [pc EXCEPT ![<<kind, next>>] = p]
  <1> USE DEF Begun
  <1>1. UNCHANGED <<options, found, adding>> /\ main = from /\ Advance(n, to)
    BY DEF Starts, shared, reportVars
  <1>2. CASE kind = "ingest" /\ mode = "file"
    <2>1. pc' = [pc EXCEPT ![<<kind, next>>] = "opening"]
      BY <1>2 DEF Starts
    <2>2. QED
      BY <1>1, <1>2, <2>1
  <1>3. CASE kind \notin {"preread", "ingest"}
    <2>1. pc' = [pc EXCEPT ![<<kind, next>>] = "running"]
      BY <1>3 DEF Starts
    <2>2. QED
      BY <1>1, <1>3, <2>1
  <1>4. CASE kind \in {"preread", "ingest"} /\ ~ (kind = "ingest" /\ mode = "file")
    <2>1. pc' = [pc EXCEPT ![<<kind, next>>] = "starting"]
      BY <1>4 DEF Starts
    <2>2. QED
      BY <1>1, <1>4, <2>1
  <1>5. QED
    BY <1>2, <1>3, <1>4

\* The steps that start threads, and the errors that end the process.
LEMMA StartPlaces ==
    ASSUME IInv, PlaceInv,
           \/ startSocketReceiveThreads \/ startThreads_PreReadStreamIngest \/ startThreads
           \/ FatalError
    PROVE  PlaceInv'
  <1>1. ASSUME FatalError PROVE PlaceInv'
    <2>1. main' = "exited" /\ UNCHANGED <<options, next, pc, found, adding>>
      BY <1>1 DEF FatalError, shared, reportVars
    <2>2. CrashOK'
      BY <2>1 DEF CrashOK
    <2>3. QED
      BY <2>1, <2>2, StopsHere
  <1>2. ASSUME NEW kind, NEW n, NEW from, NEW to, Starts(kind, n, from, to),
               <<kind, from, to>> \in Kinds, kind = "analysis" => n = NumStreams,
               kind # "analysis" => n = NumIngests,
               to = "menu" => mode = "stream", to = "join analyses" => mode = "file"
        PROVE  PlaceInv'
    <2>1. /\ UNCHANGED <<options, found, adding>> /\ main = from /\ Advance(n, to)
          /\ \E p \in Begun :
                 /\ p = "opening" => kind = "ingest"
                 /\ p = "starting" => kind \in {"preread", "ingest"}
                 /\ pc' = [pc EXCEPT ![<<kind, next>>] = p]
      BY <1>2, WhatStarts
    <2>2. PICK p \in Begun :
                 /\ p = "opening" => kind = "ingest"
                 /\ p = "starting" => kind \in {"preread", "ingest"}
                 /\ pc' = [pc EXCEPT ![<<kind, next>>] = p]
      BY <2>1
    <2>3. QED
      BY <1>2, <2>1, <2>2, StartsOn, Zenon
  <1>3. ASSUME startSocketReceiveThreads PROVE PlaceInv'
    BY <1>2, <1>3 DEF startSocketReceiveThreads, Kinds
  <1>4. ASSUME startThreads_PreReadStreamIngest PROVE PlaceInv'
    BY <1>2, <1>4 DEF startThreads_PreReadStreamIngest, Kinds
  <1>5. ASSUME Starts("analysis", NumStreams, "start analyses", "start ingests") PROVE PlaceInv'
    BY <1>2, <1>5 DEF Kinds
  <1>6. ASSUME Starts("ingest", NumIngests, "start ingests",
                      IF mode = "file" THEN "join analyses" ELSE "menu")
        PROVE  PlaceInv'
    <2>1. CASE mode = "file"
      <3>1. Starts("ingest", NumIngests, "start ingests", "join analyses")
        BY <1>6, <2>1
      <3>2. QED
        BY <1>2, <2>1, <3>1 DEF Kinds
    <2>2. CASE mode # "file"
      <3>1. Starts("ingest", NumIngests, "start ingests", "menu")
        BY <1>6, <2>2
      <3>2. mode = "stream"
        BY <2>2 DEF PlaceInv, WhereOK
      <3>3. QED
        BY <1>2, <3>1, <3>2 DEF Kinds
    <2>3. QED
      BY <2>1, <2>2
  <1>7. QED
    BY <1>1, <1>3, <1>4, <1>5, <1>6 DEF startThreads

\* A thread of a source or of a stream is no other thread.
LEMMA ThreadsAreDistinct ==
    \A i, j : /\ <<"ingest", i>> # <<"socket", j>> /\ <<"ingest", i>> # <<"preread", j>>
              /\ <<"ingest", i>> # <<"analysis", j>> /\ <<"socket", i>> # <<"preread", j>>
              /\ <<"analysis", i>> # <<"socket", j>> /\ <<"analysis", i>> # <<"preread", j>>
              /\ <<"socket", i>> # <<"analysis", j>> /\ <<"preread", i>> # <<"analysis", j>>
  OBVIOUS

\* What a preread finds is something.
LEMMA EndsOn ==
    ASSUME IInv, PlaceInv, NEW t \in Threads, NEW used, NEW freed, Runs(t), Ends(t, used, freed),
           \/ UNCHANGED found /\ \A i \in Ingests : t # <<"preread", i>>
           \/ \E i \in Ingests, f \in {"all described", "undescribed", "no map"} :
                  t = <<"preread", i>> /\ found' = [found EXCEPT ![i] = f]
    PROVE  PlaceInv'
  <1>1. /\ Alive /\ pc[t] = "running" /\ pc[t] \in Owning /\ pc' = [pc EXCEPT ![t] = "ended"]
        /\ UNCHANGED <<options, mainVars, adding>>
    BY DEF Runs, Ends, Owning, reportVars
  <1>2. t \in Reporters /\ adding[t] # Log!Idle => FALSE
    BY DEF Runs, Free
  <1>3. found \in [Ingests -> {"nothing", "all described", "undescribed", "no map"}]
    BY DEF PlaceInv
  <1>4. /\ found' \in [Ingests -> {"nothing", "all described", "undescribed", "no map"}]
        /\ \A i \in Ingests : found'[i] = "nothing" => found[i] = "nothing"
        /\ \A i \in Ingests : t = <<"preread", i>> => found'[i] # "nothing"
    <2>1. CASE UNCHANGED found /\ \A i \in Ingests : t # <<"preread", i>>
      BY <1>3, <2>1
    <2>2. ASSUME NEW i \in Ingests, NEW f \in {"all described", "undescribed", "no map"},
                 t = <<"preread", i>>, found' = [found EXCEPT ![i] = f]
          PROVE  /\ found' \in [Ingests -> {"nothing", "all described", "undescribed", "no map"}]
                 /\ \A j \in Ingests : found'[j] = "nothing" => found[j] = "nothing"
                 /\ \A j \in Ingests : t = <<"preread", j>> => found'[j] # "nothing"
      BY <1>3, <2>2
    <2>3. QED
      BY <2>1, <2>2
  <1> DEFINE p == "ended"
  <1>5. /\ \A i \in Ingests : t = <<"socket", i>> => pc[t] = "running" /\ p = "ended"
        /\ \A i \in Ingests : t = <<"preread", i>> =>
               \/ pc[t] = "running" /\ p = "ended"
               \/ pc[t] = "starting" /\ p = "running"
        /\ \A s \in Streams : t = <<"analysis", s>> => pc[t] = "running" /\ p = "ended"
        /\ t \in Reporters /\ adding[t] # Log!Idle => p \in {"running", "unopened"}
        /\ \A i \in Ingests : t = <<"preread", i>> /\ p = "ended" => found'[i] # "nothing"
        /\ pc' = [pc EXCEPT ![t] = p]
    BY <1>1, <1>2, <1>4
  <1> HIDE DEF p
  <1>6. Alive /\ pc[t] \in Owning /\ UNCHANGED <<options, mainVars, adding>>
    BY <1>1
  <1>7. QED
    BY <1>4, <1>5, <1>6, ThreadOn, Zenon

\* An ingest thread goes on.
LEMMA IngestOn ==
    ASSUME IInv, PlaceInv, NEW i \in Ingests, Alive, pc[<<"ingest", i>>] \in Owning,
           NEW p, pc' = [pc EXCEPT ![<<"ingest", i>>] = p], UNCHANGED <<options, mainVars, shared>>,
           p \in {"running", "unopened"} \/ Free(<<"ingest", i>>)
    PROVE  PlaceInv'
  <1> DEFINE t == <<"ingest", i>>
  <1>1. t \in Threads /\ UNCHANGED <<options, mainVars, adding>> /\ UNCHANGED found
    BY DEF Threads, shared, reportVars
  <1>2. t \in Reporters /\ adding[t] # Log!Idle => p \in {"running", "unopened"}
    BY DEF Free
  <1>3. /\ \A j \in Ingests : t # <<"socket", j>> /\ t # <<"preread", j>>
        /\ \A s \in Streams : t # <<"analysis", s>>
    BY ThreadsAreDistinct
  <1>4. /\ found' \in [Ingests -> {"nothing", "all described", "undescribed", "no map"}]
        /\ \A j \in Ingests : found'[j] = "nothing" => found[j] = "nothing"
    BY <1>1 DEF PlaceInv
  <1> HIDE DEF t
  <1>5. pc[t] \in Owning /\ pc' = [pc EXCEPT ![t] = p]
    BY DEF t
  <1>6. /\ \A j \in Ingests : t = <<"socket", j>> => pc[t] = "running" /\ p = "ended"
        /\ \A j \in Ingests : t = <<"preread", j>> =>
               \/ pc[t] = "running" /\ p = "ended"
               \/ pc[t] = "starting" /\ p = "running"
        /\ \A j \in Ingests : t = <<"preread", j>> /\ p = "ended" => found'[j] # "nothing"
        /\ \A s \in Streams : t = <<"analysis", s>> => pc[t] = "running" /\ p = "ended"
    BY <1>3
  <1>7. QED
    BY <1>1, <1>2, <1>4, <1>5, <1>6, ThreadOn, Zenon

\* The steps in which a thread goes on towards its end.
LEMMA ThreadPlaces ==
    ASSUME IInv, PlaceInv, NEW i \in Ingests, NEW s \in Streams,
           \/ SocketSeesDisabled(i) \/ SocketFails(i) \/ PrereadEnds(i) \/ IngestOpens(i)
           \/ IngestReadsAll(i) \/ IngestTakesForEnd(i) \/ IngestFrees(i) \/ AnalysisEnds(s)
    PROVE  PlaceInv'
  <1>1. /\ <<"socket", i>> \in Threads /\ <<"preread", i>> \in Threads
        /\ <<"analysis", s>> \in Threads
    BY DEF Threads
  <1>2. ASSUME NEW t \in Threads, NEW used, NEW freed, Runs(t), Ends(t, used, freed),
               UNCHANGED found, \A j \in Ingests : t # <<"preread", j>>
        PROVE  PlaceInv'
    BY <1>2, EndsOn
  <1>3. /\ \A j \in Ingests : <<"socket", i>> # <<"preread", j>>
        /\ \A j \in Ingests : <<"analysis", s>> # <<"preread", j>>
    BY ThreadsAreDistinct
  <1>4. CASE SocketSeesDisabled(i)
    BY <1>1, <1>2, <1>3, <1>4 DEF SocketSeesDisabled
  <1>5. CASE SocketFails(i)
    BY <1>1, <1>2, <1>3, <1>5 DEF SocketFails
  <1>6. CASE AnalysisEnds(s)
    BY <1>1, <1>2, <1>3, <1>6 DEF AnalysisEnds
  <1>7. CASE PrereadEnds(i)
    <2> DEFINE t == <<"preread", i>>
    <2>1. Runs(t) /\ Ends(t, {Params(t), Buffer(i), Programs}, {})
      BY <1>7 DEF PrereadEnds
    <2>2. \E j \in Ingests, f \in {"all described", "undescribed", "no map"} :
              t = <<"preread", j>> /\ found' = [found EXCEPT ![j] = f]
      BY <1>7 DEF PrereadEnds
    <2>3. QED
      BY <1>1, <2>1, <2>2, EndsOn
  <1>8. CASE IngestOpens(i)
    <2>1. PICK p \in {"starting", "unopened"} : pc' = [pc EXCEPT ![<<"ingest", i>>] = p]
      BY <1>8 DEF IngestOpens
    <2>2. Alive /\ pc[<<"ingest", i>>] = "opening" /\ UNCHANGED <<options, mainVars, shared>>
      BY <1>8 DEF IngestOpens
    <2>3. pc[<<"ingest", i>>] \in Owning /\ Free(<<"ingest", i>>)
      BY <2>2 DEF Owning, Free, PlaceInv, AddingOK
    <2>4. QED
      BY <2>1, <2>2, <2>3, IngestOn
  <1>9. CASE IngestReadsAll(i)
    <2>1. /\ Alive /\ pc[<<"ingest", i>>] \in Owning /\ UNCHANGED <<options, mainVars, shared>>
          /\ pc' = [pc EXCEPT ![<<"ingest", i>>] = "ending"] /\ Free(<<"ingest", i>>)
      BY <1>9 DEF IngestReadsAll, Owning, Runs
    <2>2. QED
      BY <2>1, IngestOn
  <1>10. CASE IngestTakesForEnd(i)
    <2>1. /\ Alive /\ pc[<<"ingest", i>>] \in Owning /\ UNCHANGED <<options, mainVars, shared>>
          /\ pc' = [pc EXCEPT ![<<"ingest", i>>] = "ending"] /\ Free(<<"ingest", i>>)
      BY <1>10 DEF IngestTakesForEnd, Owning, Runs
    <2>2. QED
      BY <2>1, IngestOn
  <1>11. CASE IngestFrees(i)
    <2> DEFINE p == IF pc[<<"ingest", i>>] = "ending" THEN "ended" ELSE "unstopped"
    <2>1. /\ Alive /\ pc[<<"ingest", i>>] \in Owning /\ UNCHANGED <<options, mainVars, shared>>
          /\ pc' = [pc EXCEPT ![<<"ingest", i>>] = p] /\ Free(<<"ingest", i>>)
      BY <1>11 DEF IngestFrees, Owning
    <2> HIDE DEF p
    <2>2. QED
      BY <2>1, IngestOn
  <1>12. QED
    BY <1>4, <1>5, <1>6, <1>7, <1>8, <1>9, <1>10, <1>11

\* A thread that adds to the report is not at its end.
LEMMA ReportPlaces ==
    ASSUME IInv, EntryInv, PlaceInv, NEW t \in Reporters,
           BeginsReport(t) \/ MovesStorage(t) \/ StorageMoved(t) \/ EndsReport(t)
    PROVE  PlaceInv'
  <1>1. UNCHANGED <<options, mainVars, pc, found>> /\ UNCHANGED queue
    BY DEF BeginsReport, MovesStorage, StorageMoved, EndsReport
  <1>2. \/ adding' = [adding EXCEPT ![t] = length] /\ pc[t] \in {"running", "unopened"}
        \/ adding' = [adding EXCEPT ![t] = Log!Idle]
        \/ adding' = adding
    BY DEF BeginsReport, MovesStorage, StorageMoved, EndsReport, Log!BeginAdd, Log!BeginGrow,
       Log!EndGrow, Log!EndAdd
  <1>3. \A u \in Reporters : adding'[u] # Log!Idle => \/ adding[u] # Log!Idle
                                                      \/ pc[u] \in {"running", "unopened"}
    BY <1>2 DEF EntryInv, EntryTypes
  <1>4. AddingOK'
    BY <1>1, <1>3 DEF PlaceInv, AddingOK, Log!Idle
  <1>5. QED
    BY <1>1, <1>4, StaysHere

\* What leaves the places of all alone.
placed == <<options, mainVars, pc, found, adding>>
\* So does a step in which nobody goes anywhere.
LEMMA NobodyMoves ==
    ASSUME PlaceInv, UNCHANGED placed, Alive \/ UNCHANGED queue
    PROVE  PlaceInv'
  <1>1. UNCHANGED <<options, mainVars, pc, found>> /\ UNCHANGED <<pc, adding>>
    BY DEF placed
  <1>2. AddingOK'
    BY <1>1 DEF PlaceInv, AddingOK, Log!Idle
  <1>3. QED
    BY <1>1, <1>2, StaysHere

\* A thread that has a demultiplexer runs.
LEMMA RegisterPlaces ==
    ASSUME IInv, PlaceInv, NEW t \in Threads, Registers(t)
    PROVE  PlaceInv' /\ \E i \in Ingests : t = <<"preread", i>> \/ t = <<"ingest", i>>
  <1>1. /\ Alive /\ pc[t] = "starting" /\ pc[t] \in Owning /\ pc' = [pc EXCEPT ![t] = "running"]
        /\ UNCHANGED <<options, mainVars, adding>> /\ UNCHANGED found
    BY DEF Registers, Owning, shared, reportVars
  <1>2. /\ \A i \in Ingests : t # <<"socket", i>>
        /\ \A s \in Streams : t # <<"analysis", s>>
    BY <1>1 DEF PlaceInv, SocketOK
  <1>3. /\ found' \in [Ingests -> {"nothing", "all described", "undescribed", "no map"}]
        /\ \A i \in Ingests : found'[i] = "nothing" => found[i] = "nothing"
    BY <1>1 DEF PlaceInv
  <1> DEFINE p == "running"
  <1>4. /\ \A i \in Ingests : t = <<"socket", i>> => pc[t] = "running" /\ p = "ended"
        /\ \A i \in Ingests : t = <<"preread", i>> =>
               \/ pc[t] = "running" /\ p = "ended"
               \/ pc[t] = "starting" /\ p = "running"
        /\ t \in Reporters /\ adding[t] # Log!Idle => p \in {"running", "unopened"}
        /\ \A i \in Ingests : t = <<"preread", i>> /\ p = "ended" => found'[i] # "nothing"
        /\ \A s \in Streams : t = <<"analysis", s>> => pc[t] = "running" /\ p = "ended"
        /\ pc' = [pc EXCEPT ![t] = p]
    BY <1>1, <1>2
  <1>5. PlaceInv'
    <2> HIDE DEF p
    <2>1. QED
      BY <1>1, <1>3, <1>4, ThreadOn, Zenon
  <1>6. QED
    BY <1>2, <1>5 DEF Threads

\* What a stream that a source lacks leads to.
LEMMA AbsentPlaces ==
    ASSUME IInv, PlaceInv, SomeAbsent, main' = "crashed",
           UNCHANGED <<options, next, pc, shared>>
    PROVE  PlaceInv'
  <1>1. UNCHANGED <<options, next, pc, found, adding>> /\ UNCHANGED queue
    BY DEF shared, reportVars
  <1>2. CrashOK'
    BY <1>1 DEF CrashOK, SomeAbsent, Absent
  <1>3. QED
    BY <1>1, <1>2, StopsHere

\* Every step leaves everyone where the invariant has them.
LEMMA PlaceStep == ASSUME IInv, IInv', EntryInv, PlaceInv, [Next]_vars PROVE PlaceInv'
  <1>0. (\E s \in Streams : TRUE) /\ (\E i \in Ingests : TRUE)
    BY TestAppAssumption DEF Streams, Ingests
  <1>1. CASE UNCHANGED vars
    BY <1>1, NobodyMoves DEF vars, placed, shared, reportVars
  <1>2. CASE MainGoesOn
    BY <1>2, StraightPlaces, RoundPlaces, StartPlaces DEF MainGoesOn
  <1>3. CASE Menu
    <2>1. ASSUME reportPrint PROVE PlaceInv'
      <3>1. UNCHANGED placed /\ UNCHANGED queue
        BY <2>1 DEF reportPrint, placed, shared, reportVars
      <3>2. QED
        BY <3>1, NobodyMoves
    <2>2. ASSUME printIngestStatus PROVE PlaceInv'
      <3>1. CASE SomeAbsent
        BY <2>2, <3>1, AbsentPlaces DEF printIngestStatus
      <3>2. CASE ~ SomeAbsent
        <4>1. UNCHANGED placed /\ UNCHANGED queue
          BY <2>2, <3>2 DEF printIngestStatus, placed, mainVars, shared, reportVars
        <4>2. QED
          BY <4>1, NobodyMoves
      <3>3. QED
        BY <3>1, <3>2
    <2>3. QED
      BY <1>3, <2>1, <2>2, StraightPlaces DEF Menu
  <1>4. CASE FatalError
    BY <1>4, StartPlaces
  <1>5. ASSUME NEW t \in Reporters,
               BeginsReport(t) \/ MovesStorage(t) \/ StorageMoved(t) \/ EndsReport(t)
        PROVE  PlaceInv'
    BY <1>5, ReportPlaces
  <1>6. ASSUME NEW t \in Threads, NEW i \in Ingests, NEW s \in Streams, StreamFails(t, i, s)
        PROVE  PlaceInv'
    BY <1>6, NobodyMoves DEF StreamFails, Runs, placed, reportVars
  <1>7. ASSUME NEW i \in Ingests, SocketReceives(i) PROVE PlaceInv'
    BY <1>7, NobodyMoves DEF SocketReceives, Runs, placed, shared, reportVars
  <1>8. ASSUME NEW i \in Ingests, NEW s \in Streams, PushNull(i, s) PROVE PlaceInv'
    BY <1>8, NobodyMoves DEF PushNull, placed, reportVars
  <1>9. ASSUME NEW i \in Ingests, IngestGoesOn(i) PROVE PlaceInv'
    <2>1. /\ pc[<<"ingest", i>>] = "unstopped" /\ main' = "crashed"
          /\ UNCHANGED <<options, next, pc, found, adding>>
      BY <1>9 DEF IngestGoesOn, shared, reportVars
    <2>2. CrashOK'
      BY <2>1 DEF CrashOK
    <2>3. QED
      BY <2>1, <2>2, StopsHere
  <1>10. ASSUME NEW i \in Ingests,
                \/ SocketSeesDisabled(i) \/ SocketFails(i) \/ PrereadEnds(i) \/ IngestOpens(i)
                \/ IngestReadsAll(i) \/ IngestTakesForEnd(i) \/ IngestFrees(i)
         PROVE  PlaceInv'
    BY <1>0, <1>10, ThreadPlaces
  <1>11. ASSUME NEW s \in Streams, AnalysisTakesNull(s) PROVE PlaceInv'
    BY <1>11, NobodyMoves DEF AnalysisTakesNull, Runs, placed, reportVars
  <1>12. ASSUME NEW s \in Streams, AnalysisEnds(s) PROVE PlaceInv'
    BY <1>0, <1>12, ThreadPlaces
  <1>13. ASSUME NEW t \in Threads, Registers(t) PROVE PlaceInv'
    BY <1>13, RegisterPlaces
  <1>14. ASSUME NEW i \in Ingests, IngestMeetsAbsent(i) PROVE PlaceInv'
    BY <1>14, AbsentPlaces DEF IngestMeetsAbsent
  <1>15. ASSUME NEW i \in Ingests, NEW s \in Streams, PushNullToAbsent(i, s) PROVE PlaceInv'
    BY <1>15, AbsentPlaces DEF PushNullToAbsent, SomeAbsent
  <1>16. QED
    BY <1>1, <1>2, <1>3, <1>4, <1>5, <1>6, <1>7, <1>8, <1>9, <1>10, <1>11, <1>12, <1>13, <1>14,
       <1>15
       DEF Next, IngestGoesToItsEnd, AnalysisGoesToItsEnd

\* In the beginning no thread is started.
LEMMA PlaceStart == Init => PlaceInv
  <1> SUFFICES ASSUME Init PROVE PlaceInv
    OBVIOUS
  <1>1. /\ \A i \in Ingests : /\ <<"socket", i>> \in Threads /\ <<"preread", i>> \in Threads
                              /\ <<"ingest", i>> \in Threads
        /\ \A s \in Streams : <<"analysis", s>> \in Threads
    BY DEF Threads
  <1>2. WhereOK /\ TurnsOK /\ CrashOK
    BY DEF Init, WhereOK, TurnsOK, CrashOK, StreamOnly, Working, Joined, IngestLoops, StreamLoops
  <1>3. AddingOK
    BY DEF Init, AddingOK, Log!reportInit, Log!Idle
  <1>4. \A i \in Ingests : SocketOK(i) /\ PrereadOK(i) /\ WorkerOK(<<"ingest", i>>) /\ NotYet(i)
    BY <1>1 DEF Init, SocketOK, PrereadOK, WorkerOK, NotYet, Joined, Freed, Owning
  <1>5. \A s \in Streams : WorkerOK(<<"analysis", s>>)
                           /\ pc[<<"analysis", s>>] \in {"none", "running", "ended"}
    BY <1>1 DEF Init, WorkerOK, Owning
  <1>6. QED
    BY <1>2, <1>3, <1>4, <1>5 DEF PlaceInv, Init

-----------------------------------------------------------------------------
\* What is allocated.

Things == {Lists, Verdicts, Programs} \cup Queues \cup Buffers \cup {Params(t) : t \in Threads}
          \cup {Storage, Entry}

\* No two things are one.
LEMMA ParamsAre == /\ \A k, i : Params(<<k, i>>) = <<"params", k, i>>
                   /\ \A k, i, l, j : Params(<<k, i>>) = Params(<<l, j>>) <=> k = l /\ i = j
  BY DEF Params

\* The things that are one of a kind are no others,
LEMMA ListsAreDistinct ==
    /\ Lists # Verdicts /\ Lists # Programs /\ Verdicts # Programs
    /\ \A k, i : Params(<<k, i>>) \notin {Lists, Verdicts, Programs}
    /\ \A i : Buffer(i) \notin {Lists, Verdicts, Programs}
    /\ \A i, s : Queue(i, s) \notin {Lists, Verdicts, Programs}
  <1>1. /\ Lists # Verdicts /\ Lists # Programs /\ Verdicts # Programs
    BY DEF Lists, Verdicts, Programs
  <1>2. \A k, i : Params(<<k, i>>) \notin {Lists, Verdicts, Programs}
    BY DEF Params, Lists, Verdicts, Programs
  <1>3. \A i : Buffer(i) \notin {Lists, Verdicts, Programs}
    BY DEF Lists, Verdicts, Programs, Buffer
  <1>4. \A i, s : Queue(i, s) \notin {Lists, Verdicts, Programs}
    BY DEF Lists, Verdicts, Programs, Queue
  <1>5. QED
    BY <1>1, <1>2, <1>3, <1>4

\* and the buffers, queues and parameters are no others either.
LEMMA ThingsAreDistinct ==
    /\ \A i, j : Buffer(i) = Buffer(j) => i = j
    /\ \A i, j, s : Buffer(i) # Queue(j, s)
    /\ \A i, k, j : Buffer(i) # Params(<<k, j>>)
    /\ \A i, s, k, j : Queue(i, s) # Params(<<k, j>>)
  <1>1. \A i, j : Buffer(i) = Buffer(j) => i = j
    BY DEF Buffer
  <1>2. \A i, j, s : Buffer(i) # Queue(j, s)
    BY DEF Buffer, Queue
  <1>3. \A i, k, j : Buffer(i) # Params(<<k, j>>)
    BY DEF Params, Buffer
  <1>4. \A i, s, k, j : Queue(i, s) # Params(<<k, j>>)
    BY DEF Params, Queue
  <1>5. QED
    BY <1>1, <1>2, <1>3, <1>4

\* Nor are the storage of the lists and the entry of the table.
LEMMA OthersAreDistinct ==
    /\ Storage # Entry
    /\ \A x \in {Storage, Entry} :
          /\ x \notin {Lists, Verdicts, Programs}
          /\ \A k, i : x # Params(<<k, i>>)
          /\ \A i : x # Buffer(i)
          /\ \A i, s : x # Queue(i, s)
  <1>1. Storage # Entry
    BY DEF Storage, Entry
  <1>2. \A x \in {Storage, Entry} : x \notin {Lists, Verdicts, Programs}
    BY DEF Storage, Entry, Lists, Verdicts, Programs
  <1>3. \A x \in {Storage, Entry} : \A k, i : x # Params(<<k, i>>)
    BY DEF Storage, Entry, Params
  <1>4. \A x \in {Storage, Entry} : \A i : x # Buffer(i)
    BY DEF Storage, Entry, Buffer
  <1>5. \A x \in {Storage, Entry} : \A i, s : x # Queue(i, s)
    BY DEF Storage, Entry, Queue
  <1>6. QED
    BY <1>1, <1>2, <1>3, <1>4, <1>5

\* Which streams are absent is settled when the queues are set up.
QueueOK == queue \in [Ingests \X Streams -> {"none", "open", "null", "over", "absent"}]
SameStreams == \A i \in Ingests, s \in Streams : Absent(i, s)' <=> Absent(i, s)

\* What is allocated stays allocated but for the storage and the entry, which come and go.
SameThings == \A x : x \notin {Storage, Entry} => (x \in there' <=> x \in there)

\* When what is held.
ListsHeld    == main \notin {"close log", "returned"}
ResultsHeld  == main # "start" /\ (peek \/ main \notin Freed)
ProgramsHeld == main # "start" /\ (peek \/ main \notin Freed \cup {"free buffers"})
QueuesHeld   == main \in Working \cup {"print streams", "analyze", "tear down"} \/ (peek /\ main \in Freed)
PrereadHeld(i) ==
    /\ pc[<<"preread", i>>] # "none"
    /\ main \in {"start prereads", "join prereads"} \/ (main = "free prereads" /\ ~ (i < next))

MainMemory ==
    /\ Lists \in there <=> ListsHeld
    /\ Verdicts \in there <=> ResultsHeld
    /\ Programs \in there <=> ProgramsHeld
    /\ \A i \in Ingests, s \in Streams : Queue(i, s) \in there <=> QueuesHeld /\ ~ Absent(i, s)
    /\ \A i \in Ingests : Buffer(i) \in there <=> mode = "stream" /\ ResultsHeld

ThreadMemory ==
    /\ \A i \in Ingests : /\ Params(<<"socket", i>>) \in there <=> pc[<<"socket", i>>] # "none"
                          /\ Params(<<"preread", i>>) \in there <=> PrereadHeld(i)
                          /\ Params(<<"ingest", i>>) \in there <=> pc[<<"ingest", i>>] \in Owning
    /\ \A s \in Streams : Params(<<"analysis", s>>) \in there <=> pc[<<"analysis", s>>] = "running"

\* What is allocated, exactly, as long as the process goes on.
MemoryOK == there \subseteq Things /\ (~ Stopped => MainMemory /\ ThreadMemory)

\* While nobody moves the storage of the lists it is there, and not after it was freed.
StorageOK ==
    ~ Stopped => /\ ListsHeld /\ growing = {} => Storage \in there
                 /\ ~ ListsHeld /\ ~ peek => Storage \notin there

\* The uses of what is not there that the program does make.
Excused(u) ==
    \/ \E i \in Ingests :
          \/ u = <<<<"socket", i>>, Lists>> /\ mode = "stream" /\ peek
          \/ u = <<<<"ingest", i>>, Params(<<"ingest", i>>)>> /\ pc[<<"ingest", i>>] = "unstopped"
    \/ \E t \in Threads : u = <<t, Entry>> /\ t[1] \in {"preread", "ingest"} /\ NumIngests > 1
    \/ \E t \in Threads \cup {Main} : u = <<t, Storage>> /\ (t = Main => mode = "stream")
StaleOK == \A u \in stale : Excused(u)

MemInv == QueueOK /\ MemoryOK /\ StorageOK /\ StaleOK

\* The moves of the main thread that neither allocate nor free.
Quiet == {<<"read files", "set up">>, <<"print streams", "clean up">>,
          <<"print streams", "start analyses">>, <<"menu", "empty list">>,
          <<"empty list", "reset flags">>, <<"menu", "disable">>, <<"analyze", "tear down">>,
          <<"close log", "returned">>, <<"join prereads", "free prereads">>,
          <<"reset flags", "menu">>, <<"disable", "join sockets">>,
          <<"join sockets", "join analyses">>, <<"join analyses", "join ingests">>,
          <<"join ingests", "analyze">>}

\* Such a move, or none, leaves what is held held.
LEMMA QuietMove ==
    ASSUME PlaceInv, MemoryOK, UNCHANGED <<options, pc>>, SameThings, SameStreams,
           \/ main' = main /\ (main = "free prereads" => next' = next)
           \/ <<main, main'>> \in Quiet,
           main = "print streams" => main' # "start analyses" \/ ~ peek,
           main = "print streams" => main' # "clean up" \/ peek,
           main' = "free prereads" /\ main # "free prereads" => next' = 0
    PROVE  MemoryOK'
  <1>1. UNCHANGED <<mode, peek, pc>> /\ peek \in BOOLEAN
    BY DEF options, PlaceInv, WhereOK
  <1>2. there' \subseteq Things'
    BY DEF MemoryOK, Things, SameThings
  <1>3. /\ \A x \in {Lists, Verdicts, Programs} : x \in there' <=> x \in there
        /\ \A k, i : Params(<<k, i>>) \in there' <=> Params(<<k, i>>) \in there
        /\ \A i : Buffer(i) \in there' <=> Buffer(i) \in there
        /\ \A i, s : Queue(i, s) \in there' <=> Queue(i, s) \in there
    <2>1. QED
      BY OthersAreDistinct DEF SameThings
  <1>4. Stopped \/ Stopped' \/ (~ Stopped /\ ~ Stopped')
    OBVIOUS
  <1>5. CASE main' = main /\ (main = "free prereads" => next' = next)
    <2>1. UNCHANGED <<ListsHeld, ResultsHeld, ProgramsHeld, QueuesHeld>>
      BY <1>1, <1>5 DEF ListsHeld, ResultsHeld, ProgramsHeld, QueuesHeld
    <2>2. \A i : PrereadHeld(i)' <=> PrereadHeld(i)
      BY <1>1, <1>5 DEF PrereadHeld
    <2>3. MainMemory => MainMemory'
      BY <1>1, <1>3, <2>1 DEF MainMemory, SameStreams
    <2>4. ThreadMemory => ThreadMemory'
      BY <1>1, <1>3, <2>2 DEF ThreadMemory
    <2>5. QED
      BY <1>2, <1>5, <2>3, <2>4 DEF MemoryOK, Stopped
  <1>6. CASE <<main, main'>> \in Quiet
    <2>1. ~ Stopped /\ ~ Stopped'
      BY <1>6 DEF Quiet, Stopped
    <2>2. main \in Working \cup Joined => ~ peek
      BY DEF PlaceInv, WhereOK
    <2>3. MainMemory'
      <3>1. ListsHeld' = ListsHeld
        BY <1>6 DEF Quiet, ListsHeld
      <3>2. ResultsHeld' = ResultsHeld
        BY <1>1, <1>6, <2>2 DEF Quiet, ResultsHeld, Freed
      <3>3. ProgramsHeld' = ProgramsHeld
        BY <1>1, <1>6, <2>2 DEF Quiet, ProgramsHeld, Freed
      <3>4. QueuesHeld' = QueuesHeld
        BY <1>1, <1>6, <2>2 DEF Quiet, QueuesHeld, Freed, Working
      <3>5. QED
        BY <1>1, <1>3, <2>1, <3>1, <3>2, <3>3, <3>4 DEF MemoryOK, MainMemory, SameStreams
    <2>4. ASSUME NEW i \in Ingests PROVE PrereadHeld(i)' <=> PrereadHeld(i)
      <3>1. ~ (i < 0)
        BY FirstIndex
      <3>2. QED
        BY <1>1, <1>6, <3>1 DEF Quiet, PrereadHeld
    <2>5. ThreadMemory'
      <3>1. QED
        BY <1>1, <1>3, <2>1, <2>4 DEF MemoryOK, ThreadMemory
    <2>6. QED
      BY <1>1, <1>2, <2>1, <2>3, <2>5 DEF MemoryOK
  <1>7. QED
    BY <1>5, <1>6

\* What a thread owns is its parameters, and nothing else.
LEMMA MainKept ==
    ASSUME MainMemory, UNCHANGED options, SameStreams, NEW t \in Threads,
           there' \in {there, there \ {Params(t)}, there \cup {Params(t)}, there \cup {Entry}},
           UNCHANGED <<ListsHeld, ResultsHeld, ProgramsHeld, QueuesHeld>>
    PROVE  MainMemory'
  <1>1. PICK k, j : t = <<k, j>>
    BY DEF Threads
  <1>2. Params(t) \notin {Lists, Verdicts, Programs}
    BY <1>1, ListsAreDistinct
  <1>3. \A i : Params(t) # Buffer(i) /\ \A s : Params(t) # Queue(i, s)
    BY <1>1, ThingsAreDistinct
  <1>4. mode' = mode
    BY DEF options
  <1>5. \A x : x # Params(t) /\ x # Entry => (x \in there' <=> x \in there)
    OBVIOUS
  <1>6. /\ Entry \notin {Lists, Verdicts, Programs}
        /\ \A i : Entry # Buffer(i) /\ \A s : Entry # Queue(i, s)
    BY OthersAreDistinct
  <1> HIDE DEF Params, Lists, Verdicts, Programs, Buffer, Queue, Entry
  <1>7. QED
    BY <1>2, <1>3, <1>4, <1>5, <1>6 DEF MainMemory, SameStreams

\* Two threads have two sets of parameters.
LEMMA ParamsDiffer ==
    \A k, j, l, i : <<l, i>> # <<k, j>> => Params(<<l, i>>) # Params(<<k, j>>)
  BY ParamsAre

\* A thread owns its parameters from its start on: the socket threads to the end,
\* the others until they are freed.
LEMMA StartMemory ==
    ASSUME IInv, PlaceInv, MemoryOK, SameStreams,
           NEW kind, NEW n, NEW from, NEW to, Starts(kind, n, from, to),
           <<kind, from, to>> \in Kinds, <<kind, next>> \in Threads,
           (next' = next + 1 /\ main' = main) \/ main' = to
    PROVE  MemoryOK'
  <1> DEFINE u == <<kind, next>>
  <1>1. PICK p \in Begun : /\ p = "opening" => kind = "ingest"
                           /\ p = "starting" => kind \in {"preread", "ingest"}
                           /\ pc' = [pc EXCEPT ![u] = p]
    BY WhatStarts
  <1> USE DEF Begun
  <1>2. UNCHANGED options /\ there' = there \cup {Params(u)} /\ main = from /\ ~ Stopped
    BY DEF Starts, Kinds, Stopped
  <1>3. pc'[u] = p /\ \A t \in Threads : t # u => pc'[t] = pc[t]
    BY <1>1 DEF IInv, Types
  <1>4. there' \subseteq Things'
    BY <1>2 DEF MemoryOK, Things
  <1>5. MainMemory'
    <2>1. UNCHANGED ListsHeld /\ UNCHANGED ResultsHeld /\ UNCHANGED ProgramsHeld
      BY <1>2 DEF Kinds, ListsHeld, ResultsHeld, ProgramsHeld, Freed
    <2>2. UNCHANGED QueuesHeld
      BY <1>2 DEF Kinds, QueuesHeld, Working, Freed
    <2>3. MainMemory
      BY <1>2 DEF MemoryOK
    <2>4. QED
      BY <1>2, <2>1, <2>2, <2>3, MainKept
  <1>6. \A l, i : <<l, i>> # u => (Params(<<l, i>>) \in there' <=> Params(<<l, i>>) \in there)
    <2>1. \A x : x # Params(u) => (x \in there' <=> x \in there)
      BY <1>2
    <2>2. \A l, i : <<l, i>> # u => Params(<<l, i>>) # Params(u)
      BY ParamsDiffer
    <2>3. QED
      BY <2>1, <2>2
  <1>7. Params(u) \in there'
    BY <1>2
  <1>8. ThreadMemory
    BY <1>2 DEF MemoryOK
  <1>9. ASSUME NEW i \in Ingests
        PROVE  /\ Params(<<"socket", i>>) \in there' <=> pc'[<<"socket", i>>] # "none"
               /\ Params(<<"preread", i>>) \in there' <=> PrereadHeld(i)'
               /\ Params(<<"ingest", i>>) \in there' <=> pc'[<<"ingest", i>>] \in Owning
    <2>1. /\ <<"socket", i>> \in Threads /\ <<"preread", i>> \in Threads
          /\ <<"ingest", i>> \in Threads
      BY DEF Threads
    <2>2. /\ Params(<<"socket", i>>) \in there <=> pc[<<"socket", i>>] # "none"
          /\ Params(<<"preread", i>>) \in there <=> PrereadHeld(i)
          /\ Params(<<"ingest", i>>) \in there <=> pc[<<"ingest", i>>] \in Owning
      BY <1>8 DEF ThreadMemory
    <2>3. Params(<<"socket", i>>) \in there' <=> pc'[<<"socket", i>>] # "none"
      BY <1>1, <1>3, <1>6, <1>7, <2>1, <2>2
    <2>4. Params(<<"ingest", i>>) \in there' <=> pc'[<<"ingest", i>>] \in Owning
      <3>1. CASE <<"ingest", i>> = u
        BY <1>1, <1>3, <1>7, <3>1 DEF Owning
      <3>2. CASE <<"ingest", i>> # u
        BY <1>3, <1>6, <2>1, <2>2, <3>2
      <3>3. QED
        BY <3>1, <3>2
    <2>5. Params(<<"preread", i>>) \in there' <=> PrereadHeld(i)'
      <3>1. CASE <<"preread", i>> = u
        <4>1. kind = "preread"
          BY <3>1
        <4>2. main' \in {"start prereads", "join prereads"}
          BY <1>2, <4>1 DEF Kinds
        <4>3. QED
          BY <1>1, <1>3, <1>7, <3>1, <4>2 DEF PrereadHeld
      <3>2. CASE <<"preread", i>> # u
        <4>1. pc[<<"preread", i>>] # "none" => main \notin {"start", "start sockets"}
          BY DEF PlaceInv, PrereadOK
        <4>2. pc'[<<"preread", i>>] = pc[<<"preread", i>>]
          BY <1>3, <2>1, <3>2
        <4>3. PrereadHeld(i)' <=> PrereadHeld(i)
          BY <1>2, <4>1, <4>2 DEF PrereadHeld, Kinds
        <4>4. QED
          BY <1>6, <2>2, <3>2, <4>3
      <3>3. QED
        BY <3>1, <3>2
    <2>6. QED
      BY <2>3, <2>4, <2>5
  <1>10. ASSUME NEW s \in Streams
         PROVE  Params(<<"analysis", s>>) \in there' <=> pc'[<<"analysis", s>>] = "running"
    <2>1. <<"analysis", s>> \in Threads
      BY DEF Threads
    <2>2. Params(<<"analysis", s>>) \in there <=> pc[<<"analysis", s>>] = "running"
      BY <1>8 DEF ThreadMemory
    <2>3. CASE <<"analysis", s>> = u
      <3>1. kind = "analysis"
        BY <2>3
      <3>2. QED
        BY <1>1, <1>3, <1>7, <2>3, <3>1
    <2>4. CASE <<"analysis", s>> # u
      BY <1>3, <1>6, <2>1, <2>2, <2>4
    <2>5. QED
      BY <2>3, <2>4
  <1>11. ThreadMemory'
    BY <1>9, <1>10 DEF ThreadMemory
  <1>12. QED
    BY <1>4, <1>5, <1>11 DEF MemoryOK

\* A thread goes to another place, and the parameters go with it.
LEMMA ThreadMemoryMoves ==
    ASSUME IInv, PlaceInv, MemoryOK, SameStreams, Alive, UNCHANGED <<options, mainVars>>,
           NEW k, NEW j, <<k, j>> \in Threads, NEW p, pc' = [pc EXCEPT ![<<k, j>>] = p],
           \/ /\ k \in {"socket", "preread"} /\ pc[<<k, j>>] # "none" /\ p # "none"
              /\ there' \in {there, there \cup {Entry}}
           \/ /\ k = "ingest" /\ pc[<<k, j>>] \in Owning /\ p \in Owning
              /\ there' \in {there, there \cup {Entry}}
           \/ k = "ingest" /\ p \notin Owning /\ there' = there \ {Params(<<k, j>>)}
           \/ k = "analysis" /\ p = "ended" /\ there' = there \ {Params(<<k, j>>)}
    PROVE  MemoryOK'
  <1> DEFINE u == <<k, j>>
  <1>1. UNCHANGED <<mode, peek, main, next>> /\ ~ Stopped
    BY DEF options, mainVars, Stopped, Alive
  <1>2. pc'[u] = p /\ \A t \in Threads : t # u => pc'[t] = pc[t]
    BY DEF IInv, Types
  <1>3. there' \in {there, there \ {Params(u)}, there \cup {Entry}}
    OBVIOUS
  <1>4. there' \subseteq Things'
    BY <1>3 DEF MemoryOK, Things
  <1>5. MainMemory'
    <2>1. UNCHANGED <<ListsHeld, ResultsHeld, ProgramsHeld, QueuesHeld>>
      BY <1>1 DEF ListsHeld, ResultsHeld, ProgramsHeld, QueuesHeld
    <2>2. MainMemory
      BY <1>1 DEF MemoryOK
    <2>3. QED
      BY <1>3, <2>1, <2>2, MainKept
  <1>6. /\ \A l, i : <<l, i>> # u => (Params(<<l, i>>) \in there' <=> Params(<<l, i>>) \in there)
        /\ Params(u) # Entry
    <2>1. \A x : x # Params(u) /\ x # Entry => (x \in there' <=> x \in there)
      BY <1>3
    <2>2. \A l, i : (<<l, i>> # u => Params(<<l, i>>) # Params(u)) /\ Params(<<l, i>>) # Entry
      BY ParamsDiffer, OthersAreDistinct
    <2>3. QED
      BY <2>1, <2>2
  <1>7. ThreadMemory
    BY <1>1 DEF MemoryOK
  <1>8. ASSUME NEW i \in Ingests
        PROVE  /\ Params(<<"socket", i>>) \in there' <=> pc'[<<"socket", i>>] # "none"
               /\ Params(<<"preread", i>>) \in there' <=> PrereadHeld(i)'
               /\ Params(<<"ingest", i>>) \in there' <=> pc'[<<"ingest", i>>] \in Owning
    <2>1. /\ <<"socket", i>> \in Threads /\ <<"preread", i>> \in Threads
          /\ <<"ingest", i>> \in Threads
      BY DEF Threads
    <2>2. /\ Params(<<"socket", i>>) \in there <=> pc[<<"socket", i>>] # "none"
          /\ Params(<<"preread", i>>) \in there <=> PrereadHeld(i)
          /\ Params(<<"ingest", i>>) \in there <=> pc[<<"ingest", i>>] \in Owning
      BY <1>7 DEF ThreadMemory
    <2>3. Params(<<"socket", i>>) \in there' <=> pc'[<<"socket", i>>] # "none"
      <3>1. CASE <<"socket", i>> = u
        BY <1>2, <1>6, <2>2, <3>1
      <3>2. CASE <<"socket", i>> # u
        BY <1>2, <1>6, <2>1, <2>2, <3>2
      <3>3. QED
        BY <3>1, <3>2
    <2>4. Params(<<"ingest", i>>) \in there' <=> pc'[<<"ingest", i>>] \in Owning
      <3>1. CASE <<"ingest", i>> = u
        BY <1>2, <1>6, <2>2, <3>1
      <3>2. CASE <<"ingest", i>> # u
        BY <1>2, <1>6, <2>1, <2>2, <3>2
      <3>3. QED
        BY <3>1, <3>2
    <2>5. Params(<<"preread", i>>) \in there' <=> PrereadHeld(i)'
      <3>1. CASE <<"preread", i>> = u
        BY <1>1, <1>2, <1>6, <2>2, <3>1 DEF PrereadHeld
      <3>2. CASE <<"preread", i>> # u
        BY <1>1, <1>2, <1>6, <2>1, <2>2, <3>2 DEF PrereadHeld
      <3>3. QED
        BY <3>1, <3>2
    <2>6. QED
      BY <2>3, <2>4, <2>5
  <1>9. ASSUME NEW s \in Streams
        PROVE  Params(<<"analysis", s>>) \in there' <=> pc'[<<"analysis", s>>] = "running"
    <2>1. <<"analysis", s>> \in Threads
      BY DEF Threads
    <2>2. Params(<<"analysis", s>>) \in there <=> pc[<<"analysis", s>>] = "running"
      BY <1>7 DEF ThreadMemory
    <2>3. CASE <<"analysis", s>> = u
      BY <1>2, <2>2, <2>3
    <2>4. CASE <<"analysis", s>> # u
      BY <1>2, <1>6, <2>1, <2>2, <2>4
    <2>5. QED
      BY <2>3, <2>4
  <1>10. ThreadMemory'
    BY <1>8, <1>9 DEF ThreadMemory
  <1>11. QED
    BY <1>4, <1>5, <1>10 DEF MemoryOK

\* The main thread allocates and frees nothing that is a thread's, but for the
\* parameters of the preread threads.
LEMMA ThreadsKept ==
    ASSUME ThreadMemory, UNCHANGED pc, \A k, j : <<k, j>> \in Threads =>
               (Params(<<k, j>>) \in there' <=> Params(<<k, j>>) \in there),
           \A i \in Ingests : PrereadHeld(i)' <=> PrereadHeld(i)
    PROVE  ThreadMemory'
  <1>1. /\ \A i \in Ingests : /\ <<"socket", i>> \in Threads /\ <<"preread", i>> \in Threads
                              /\ <<"ingest", i>> \in Threads
        /\ \A s \in Streams : <<"analysis", s>> \in Threads
    BY DEF Threads
  <1>2. QED
    BY <1>1 DEF ThreadMemory

\* The queues of the streams that are not absent.
LEMMA CarriedQueues ==
    /\ \A i \in Ingests, s \in Streams : Queue(i, s) \in Carried <=> ~ Absent(i, s)
    /\ Carried \subseteq Queues
    /\ \A q \in Queues : \E i \in Ingests, s \in Streams : q = Queue(i, s)
    /\ (\A i \in Ingests, s \in Streams : ~ Absent(i, s)) => Carried = Queues
  <1>1. ASSUME NEW i \in Ingests, NEW s \in Streams
        PROVE  Queue(i, s) \in Queues /\ Queue(i, s)[2] = i /\ Queue(i, s)[3] = s
    BY DEF Queue, Queues
  <1>2. \A i \in Ingests, s \in Streams : Queue(i, s) \in Carried <=> ~ Absent(i, s)
    BY <1>1 DEF Carried
  <1>3. /\ Carried \subseteq Queues
        /\ \A q \in Queues : \E i \in Ingests, s \in Streams : q = Queue(i, s)
    BY DEF Carried, Queues
  <1>4. QED
    BY <1>2, <1>3

\* The steps in which the main thread allocates or frees.
LEMMA MainMemoryMoves ==
    ASSUME PlaceInv, MemoryOK, setupQueues \/ SameStreams,
           \/ RunMode \/ setupQueues \/ teardownQueues \/ freeProgramStreamInfo \/ FreeBuffers
           \/ reportCleanup
    PROVE  MemoryOK'
  <1>0. CASE main' = "crashed"
    <2>1. there' \subseteq Things'
      BY <1>0 DEF MemoryOK, Things, RunMode, setupQueues, teardownQueues, freeProgramStreamInfo,
         FreeBuffers, reportCleanup, Goes, UsesAndFrees
    <2>2. QED
      BY <1>0, <2>1 DEF MemoryOK, Stopped
  <1> SUFFICES ASSUME main' # "crashed" PROVE MemoryOK'
    BY <1>0
  <1>1. /\ UNCHANGED <<options, pc>> /\ ~ Stopped
        /\ \/ main = "start" /\ main' \in {"read files", "start sockets"}
           \/ main = "set up" /\ main' = "print streams"
           \/ main = "tear down" /\ main' = "free"
           \/ main = "free" /\ main' = "free buffers"
           \/ main = "free buffers" /\ main' = "clean up"
           \/ main = "clean up" /\ main' = "close log"
    <2>1. CASE RunMode
      BY <2>1 DEF RunMode, Goes, Stopped
    <2>2. CASE setupQueues
      BY <2>2 DEF setupQueues, Goes, Stopped
    <2>3. CASE teardownQueues
      BY <2>3 DEF teardownQueues, Goes, Stopped
    <2>4. CASE freeProgramStreamInfo
      BY <2>4 DEF freeProgramStreamInfo, Goes, Stopped
    <2>5. CASE FreeBuffers
      BY <2>5 DEF FreeBuffers, Goes, Stopped
    <2>6. CASE reportCleanup
      BY <2>6 DEF reportCleanup, Goes, Stopped
    <2>7. QED
      BY <2>1, <2>2, <2>3, <2>4, <2>5, <2>6
  <1>2. UNCHANGED <<mode, peek>> /\ mode \in {"file", "stream"} /\ MainMemory /\ ThreadMemory
    BY <1>1 DEF options, MemoryOK, PlaceInv, WhereOK
  <1>3. \/ main = "start" /\ there' = there \cup {Verdicts, Programs}
                                    \cup (IF mode = "stream" THEN Buffers ELSE {})
        \/ main = "set up" /\ \E opened \in SUBSET Queues : there' = there \cup opened
        \/ main = "tear down" /\ there' = there \ Queues
        \/ main = "free" /\ there' = there \ {Programs}
        \/ main = "free buffers" /\ there' = there \ ({Verdicts}
                                    \cup (IF mode = "stream" THEN Buffers ELSE {}))
        \/ main = "clean up" /\ there' = there \ {Lists, Storage}
    <2>1. CASE RunMode
      BY <2>1 DEF RunMode, Goes
    <2>2. CASE setupQueues
      BY <2>2 DEF setupQueues, Goes
    <2>3. CASE teardownQueues
      <3>1. ~ SomeAbsent /\ main = "tear down" /\ there' = there \ Carried
        BY <2>3 DEF teardownQueues, Goes, UsesAndFrees
      <3>2. Carried = Queues
        BY <3>1, CarriedQueues DEF SomeAbsent
      <3>3. QED
        BY <3>1, <3>2
    <2>4. CASE freeProgramStreamInfo
      BY <2>4 DEF freeProgramStreamInfo, Goes, UsesAndFrees
    <2>5. CASE FreeBuffers
      BY <2>5 DEF FreeBuffers, Goes, UsesAndFrees
    <2>6. CASE reportCleanup
      BY <2>6 DEF reportCleanup, Goes, UsesAndFrees
    <2>7. QED
      BY <2>1, <2>2, <2>3, <2>4, <2>5, <2>6
  <1>4. there' \subseteq Things' /\ Things' = Things
    BY <1>3 DEF MemoryOK, Things
  <1>5. ThreadMemory'
    <2>1. ASSUME NEW k, NEW j
          PROVE  Params(<<k, j>>) \in there' <=> Params(<<k, j>>) \in there
      <3>1. Params(<<k, j>>) \notin {Lists, Verdicts, Programs, Storage}
        BY ListsAreDistinct, OthersAreDistinct
      <3>2. Params(<<k, j>>) \notin Queues /\ Params(<<k, j>>) \notin Buffers
        BY ThingsAreDistinct DEF Queues, Buffers
      <3>3. QED
        BY <1>3, <3>1, <3>2
    <2>2. ASSUME NEW i \in Ingests PROVE PrereadHeld(i)' <=> PrereadHeld(i)
      BY <1>1 DEF PrereadHeld
    <2>3. QED
      BY <1>1, <1>2, <2>1, <2>2, ThreadsKept
  <1>6. ~ Stopped'
    BY <1>1 DEF Stopped
  <1>7. /\ \A i \in Ingests : Buffer(i) \in Buffers
        /\ \A i \in Ingests, s \in Streams : Queue(i, s) \in Queues
        /\ \A i \in Ingests : Buffer(i) \notin Queues /\ Buffer(i) \notin {Lists, Verdicts, Programs}
        /\ \A i \in Ingests, s \in Streams : Queue(i, s) \notin Buffers
                                             /\ Queue(i, s) \notin {Lists, Verdicts, Programs}
        /\ {Lists, Verdicts, Programs} \cap (Queues \cup Buffers) = {}
    <2>1. /\ \A i \in Ingests : Buffer(i) \in Buffers
          /\ \A i \in Ingests, s \in Streams : Queue(i, s) \in Queues
      BY DEF Buffers, Queues
    <2>2. \A i \in Ingests : Buffer(i) \notin Queues /\ Buffer(i) \notin {Lists, Verdicts, Programs}
      BY ThingsAreDistinct, ListsAreDistinct DEF Queues
    <2>3. \A i \in Ingests, s \in Streams : Queue(i, s) \notin Buffers
                                            /\ Queue(i, s) \notin {Lists, Verdicts, Programs}
      BY ThingsAreDistinct, ListsAreDistinct DEF Buffers
    <2>4. {Lists, Verdicts, Programs} \cap (Queues \cup Buffers) = {}
      BY ListsAreDistinct DEF Queues, Buffers
    <2>5. QED
      BY <2>1, <2>2, <2>3, <2>4
  <1>8. /\ Lists # Verdicts /\ Lists # Programs /\ Verdicts # Programs
        /\ Storage \notin {Lists, Verdicts, Programs}
        /\ \A i : Storage # Buffer(i) /\ \A s : Storage # Queue(i, s)
    BY ListsAreDistinct, OthersAreDistinct
  <1>9. (Lists \in there <=> ListsHeld)'
    BY <1>1, <1>2, <1>3, <1>7, <1>8 DEF MainMemory, ListsHeld
  <1>10. (Verdicts \in there <=> ResultsHeld)'
    BY <1>1, <1>2, <1>3, <1>7, <1>8 DEF MainMemory, ResultsHeld, Freed, PlaceInv, WhereOK, Joined
  <1>11. (Programs \in there <=> ProgramsHeld)'
    BY <1>1, <1>2, <1>3, <1>7, <1>8 DEF MainMemory, ProgramsHeld, Freed, PlaceInv, WhereOK, Joined
  <1>12. ASSUME NEW i \in Ingests, NEW s \in Streams
         PROVE  (Queue(i, s) \in there <=> QueuesHeld /\ ~ Absent(i, s))'
    <2>1. CASE setupQueues
      <3>1. /\ main = "set up" /\ main' = "print streams" /\ Queue(i, s) \notin there
        BY <1>2, <2>1 DEF setupQueues, Goes, MainMemory, QueuesHeld, Working, Freed
      <3>2. Queue(i, s) \in there' <=> queue'[<<i, s>>] = "open"
        <4>1. there' = there \cup {q \in Queues : queue'[<<q[2], q[3]>>] = "open"}
          BY <2>1 DEF setupQueues
        <4>2. Queue(i, s)[2] = i /\ Queue(i, s)[3] = s /\ Queue(i, s) \in Queues
          BY DEF Queue, Queues
        <4>3. QED
          BY <3>1, <4>1, <4>2
      <3>3. queue'[<<i, s>>] \in {"open", "absent"}
        BY <2>1 DEF setupQueues
      <3>4. QED
        BY <3>1, <3>2, <3>3 DEF QueuesHeld, Absent
    <2>2. CASE SameStreams /\ main # "set up"
      BY <1>1, <1>2, <1>3, <1>7, <1>8, <2>2 DEF MainMemory, QueuesHeld, Freed, Working, PlaceInv,
         WhereOK, Joined, SameStreams
    <2>3. setupQueues \/ (SameStreams /\ main # "set up")
      BY DEF RunMode, teardownQueues, freeProgramStreamInfo, FreeBuffers, reportCleanup, Goes
    <2>4. QED
      BY <2>1, <2>2, <2>3
  <1>13. ASSUME NEW i \in Ingests
         PROVE  (Buffer(i) \in there <=> mode = "stream" /\ ResultsHeld)'
    BY <1>1, <1>2, <1>3, <1>7, <1>8 DEF MainMemory, ResultsHeld, Freed, PlaceInv, WhereOK, Joined
  <1>14. QED
    BY <1>4, <1>5, <1>6, <1>9, <1>10, <1>11, <1>12, <1>13 DEF MemoryOK, MainMemory

\* The parameters of the preread threads are freed one after the other.
LEMMA PrereadMemory ==
    ASSUME PlaceInv, MemoryOK, SameStreams, prereadIngestStreams
    PROVE  MemoryOK'
  <1>1. main = "free prereads" /\ UNCHANGED <<options, pc>> /\ next \in Ingests /\ ~ Stopped
    BY DEF prereadIngestStreams, PlaceInv, TurnsOK, IngestLoops, Stopped
  <1>2. CASE found[next] # "all described"
    <2>1. main' = "crashed" /\ UNCHANGED there
      BY <1>2 DEF prereadIngestStreams, memory
    <2>2. QED
      BY <2>1 DEF MemoryOK, Stopped, Things
  <1>3. CASE found[next] = "all described"
    <2> DEFINE u == <<"preread", next>>
    <2>1. there' = there \ {Params(u)} /\ Advance(NumIngests, "set up") /\ u \in Threads
      BY <1>1, <1>3 DEF prereadIngestStreams, UsesAndFrees, Threads
    <2>2. MainMemory /\ ThreadMemory /\ there' \subseteq Things'
      BY <1>1, <2>1 DEF MemoryOK, Things
    <2>3. NumIngests \in Nat \ {0} /\ next \in 0 .. NumIngests - 1
      BY <1>1, TestAppAssumption DEF Ingests
    <2>4. \/ next' = next + 1 /\ main' = main
          \/ main' = "set up" /\ next' = 0 /\ \A i \in 0 .. NumIngests - 1 : i < next \/ i = next
      BY <2>1, <2>3, Turn
    <2>5. MainMemory'
      <3>1. UNCHANGED <<ListsHeld, ResultsHeld, ProgramsHeld, QueuesHeld>>
        BY <1>1, <2>4 DEF options, ListsHeld, ResultsHeld, ProgramsHeld, QueuesHeld, Freed, Working
      <3>2. QED
        BY <1>1, <2>1, <2>2, <3>1, MainKept
    <2>6. \A l, i : <<l, i>> # u => (Params(<<l, i>>) \in there' <=> Params(<<l, i>>) \in there)
      <3>1. \A x : x # Params(u) => (x \in there' <=> x \in there)
        BY <2>1
      <3>2. \A l, i : <<l, i>> # u => Params(<<l, i>>) # Params(u)
        BY ParamsDiffer
      <3>3. QED
        BY <3>1, <3>2
    <2>7. ASSUME NEW i \in Ingests
          PROVE  Params(<<"preread", i>>) \in there' <=> PrereadHeld(i)'
      <3>1. /\ Params(<<"preread", i>>) \in there <=> PrereadHeld(i)
            /\ pc[<<"preread", i>>] = "ended" /\ pc'[<<"preread", i>>] = "ended"
        BY <1>1, <2>2 DEF ThreadMemory, PlaceInv, PrereadOK
      <3>2. i \in Int /\ next \in Int /\ (i < next + 1 <=> i < next \/ i = next) /\ ~ (next < next)
        BY <2>3 DEF Ingests
      <3>3. PrereadHeld(i)' <=> PrereadHeld(i) /\ i # next
        <4>1. CASE next' = next + 1 /\ main' = main
          BY <1>1, <3>1, <3>2, <4>1 DEF PrereadHeld
        <4>2. CASE main' = "set up" /\ \A n \in 0 .. NumIngests - 1 : n < next \/ n = next
          <5>1. i < next \/ i = next
            BY <4>2 DEF Ingests
          <5>2. QED
            BY <1>1, <3>1, <4>2, <5>1 DEF PrereadHeld
        <4>3. QED
          BY <2>4, <4>1, <4>2
      <3>4. CASE i = next
        BY <2>1, <3>3, <3>4
      <3>5. CASE i # next
        BY <2>6, <3>1, <3>3, <3>5
      <3>6. QED
        BY <3>4, <3>5
    <2>8. /\ \A l : l # next => <<"preread", l>> # u
          /\ \A l : <<"socket", l>> # u /\ <<"ingest", l>> # u /\ <<"analysis", l>> # u
      OBVIOUS
    <2>9. ThreadMemory'
      BY <1>1, <2>2, <2>6, <2>7, <2>8 DEF ThreadMemory
    <2>10. QED
      BY <2>2, <2>5, <2>9 DEF MemoryOK
  <1>4. QED
    BY <1>2, <1>3

-----------------------------------------------------------------------------
\* What is used is there.

\* The thread of a file that could not be opened is never stopped.
LEMMA UnstoppedStays ==
    ASSUME IInv, PlaceInv, [Next]_vars, NEW i \in Ingests, pc[<<"ingest", i>>] = "unstopped"
    PROVE  pc'[<<"ingest", i>>] = "unstopped"
  <1> DEFINE u == <<"ingest", i>>
  <1>1. u \in Threads /\ pc[u] = "unstopped" /\ pc \in [Threads -> Places]
    BY DEF Threads, IInv, Types
  <1>2. ASSUME NEW t, NEW p, t # u, pc' = [pc EXCEPT ![t] = p] PROVE pc'[u] = "unstopped"
    BY <1>1, <1>2
  <1>3. ASSUME NEW t, NEW p, pc[t] # "unstopped", pc' = [pc EXCEPT ![t] = p]
        PROVE  pc'[u] = "unstopped"
    BY <1>1, <1>3
  <1>4. ASSUME UNCHANGED pc PROVE pc'[u] = "unstopped"
    BY <1>1, <1>4
  <1>5. ASSUME NEW kind, NEW n, NEW from, NEW to, Starts(kind, n, from, to),
               kind = "ingest" => from = "start ingests"
        PROVE  pc'[u] = "unstopped"
    <2>1. PICK p : pc' = [pc EXCEPT ![<<kind, next>>] = p]
      BY <1>5, WhatStarts
    <2>2. u # <<kind, next>>
      <3>1. kind = "ingest" => main = "start ingests" /\ next \in Ingests
        BY <1>5 DEF Starts, PlaceInv, TurnsOK, IngestLoops
      <3>2. main = "start ingests" => i < next
        BY <1>1 DEF PlaceInv, NotYet
      <3>3. next \in Ingests => ~ (next < next)
        BY FirstIndex, NotBeforeNext
      <3>4. u = <<kind, next>> => kind = "ingest" /\ i = next
        OBVIOUS
      <3>5. QED
        BY <3>1, <3>2, <3>3, <3>4, Zenon
    <2>3. QED
      BY <1>2, <2>1, <2>2
  <1>6. CASE UNCHANGED vars
    BY <1>4, <1>6 DEF vars
  <1>7. CASE MainGoesOn
    <2>1. CASE startSocketReceiveThreads \/ startThreads_PreReadStreamIngest
      BY <1>5, <2>1 DEF startSocketReceiveThreads, startThreads_PreReadStreamIngest
    <2>2. CASE startThreads
      BY <1>5, <2>2 DEF startThreads
    <2>3. CASE RunMode \/ prereadFiles \/ setupQueues \/ printStreamInfo \/ analyzeResults
               \/ teardownQueues \/ freeProgramStreamInfo \/ FreeBuffers \/ MainReturns
               \/ reportCleanup \/ ClearEmpties \/ ClearResets \/ DisableBuffers
               \/ prereadIngestStreams
      <3>1. CASE RunMode
        BY <1>4, <3>1 DEF RunMode
      <3>2. CASE prereadFiles
        BY <1>4, <3>2 DEF prereadFiles
      <3>3. CASE setupQueues
        BY <1>4, <3>3 DEF setupQueues
      <3>4. CASE printStreamInfo
        BY <1>4, <3>4 DEF printStreamInfo
      <3>5. CASE analyzeResults
        BY <1>4, <3>5 DEF analyzeResults
      <3>6. CASE teardownQueues
        BY <1>4, <3>6 DEF teardownQueues
      <3>7. CASE freeProgramStreamInfo
        BY <1>4, <3>7 DEF freeProgramStreamInfo
      <3>8. CASE FreeBuffers
        BY <1>4, <3>8 DEF FreeBuffers
      <3>9. CASE MainReturns
        BY <1>4, <3>9 DEF MainReturns
      <3>10. CASE reportCleanup
        BY <1>4, <3>10 DEF reportCleanup
      <3>11. CASE ClearEmpties
        BY <1>4, <3>11 DEF ClearEmpties
      <3>12. CASE ClearResets
        BY <1>4, <3>12 DEF ClearResets
      <3>13. CASE DisableBuffers
        BY <1>4, <3>13 DEF DisableBuffers
      <3>14. CASE prereadIngestStreams
        BY <1>4, <3>14 DEF prereadIngestStreams
      <3>15. QED
        BY <2>3, <3>1, <3>2, <3>3, <3>4, <3>5, <3>6, <3>7, <3>8, <3>9, <3>10, <3>11, <3>12, <3>13, <3>14
    <2>4. CASE waitForPreReadStreamIngestToExit \/ waitForSocketReceiveThreadsToExit
               \/ waitForThreadsToExit
      BY <1>4, <2>4 DEF waitForPreReadStreamIngestToExit, waitForSocketReceiveThreadsToExit,
         waitForThreadsToExit, Joins
    <2>5. QED
      BY <1>7, <2>1, <2>2, <2>3, <2>4 DEF MainGoesOn
  <1>8. CASE Menu \/ FatalError
    BY <1>4, <1>8 DEF Menu, FatalError, reportPrint, printIngestStatus, ClearBegins, ChooseExit,
       mainVars
  <1>9. ASSUME NEW t \in Reporters,
               BeginsReport(t) \/ MovesStorage(t) \/ StorageMoved(t) \/ EndsReport(t)
        PROVE  pc'[u] = "unstopped"
    BY <1>4, <1>9 DEF BeginsReport, MovesStorage, StorageMoved, EndsReport
  <1>10. ASSUME NEW t \in Threads, NEW j \in Ingests, NEW s \in Streams, StreamFails(t, j, s)
         PROVE  pc'[u] = "unstopped"
    BY <1>4, <1>10 DEF StreamFails
  <1>11. ASSUME NEW j \in Ingests, NEW s \in Streams, \/ SocketReceives(j) \/ PushNull(j, s)
                                                      \/ IngestGoesOn(j) \/ AnalysisTakesNull(s)
                                                      \/ IngestMeetsAbsent(j)
                                                      \/ PushNullToAbsent(j, s)
         PROVE  pc'[u] = "unstopped"
    BY <1>4, <1>11 DEF SocketReceives, PushNull, IngestGoesOn, AnalysisTakesNull,
       IngestMeetsAbsent, PushNullToAbsent
  <1>12. ASSUME NEW j \in Ingests, NEW s \in Streams,
                \/ SocketSeesDisabled(j) \/ SocketFails(j) \/ PrereadEnds(j) \/ AnalysisEnds(s)
         PROVE  pc'[u] = "unstopped"
    BY <1>3, <1>12 DEF SocketSeesDisabled, SocketFails, PrereadEnds, AnalysisEnds, Ends, Runs
  <1>13. ASSUME NEW j \in Ingests,
                IngestOpens(j) \/ IngestReadsAll(j) \/ IngestTakesForEnd(j) \/ IngestFrees(j)
         PROVE  pc'[u] = "unstopped"
    BY <1>3, <1>13 DEF IngestOpens, IngestReadsAll, IngestTakesForEnd, IngestFrees, Runs
  <1>14. (\E s \in Streams : TRUE) /\ (\E j \in Ingests : TRUE)
    BY TestAppAssumption DEF Streams, Ingests
  <1>15. ASSUME NEW t \in Threads, Registers(t) PROVE pc'[u] = "unstopped"
    BY <1>3, <1>15 DEF Registers
  <1>16. QED
    BY <1>6, <1>7, <1>8, <1>9, <1>10, <1>11, <1>12, <1>13, <1>14, <1>15
       DEF Next, IngestGoesToItsEnd, AnalysisGoesToItsEnd

\* While the ingest and analysis threads work, everything is there.
LEMMA WorkersHold ==
    ASSUME PlaceInv, MemoryOK, Alive,
           \/ \E i \in Ingests : pc[<<"ingest", i>>] \in Owning
           \/ \E s \in Streams : pc[<<"analysis", s>>] = "running"
    PROVE  /\ Carried \subseteq there /\ Lists \in there
           /\ mode = "stream" => \A i \in Ingests : Buffer(i) \in there
  <1>1. main \in Working /\ ~ Stopped
    BY DEF PlaceInv, WorkerOK, Owning, Alive, Stopped
  <1>2. ListsHeld /\ ResultsHeld /\ QueuesHeld
    BY <1>1 DEF ListsHeld, ResultsHeld, QueuesHeld, Working, Freed
  <1>3. QED
    BY <1>1, <1>2, CarriedQueues DEF MemoryOK, MainMemory

\* A thread that runs has its parameters, and the lists unless it is a socket
\* thread that -p has left running.
LEMMA ReportersHold ==
    ASSUME PlaceInv, MemoryOK, Alive, NEW t \in Threads, pc[t] \in {"running", "unopened"}
    PROVE  /\ Params(t) \in there
           /\ Lists \in there \/ Excused(<<t, Lists>>)
  <1>1. ~ Stopped /\ ThreadMemory /\ MainMemory
    BY DEF Alive, Stopped, MemoryOK
  <1>2. ASSUME NEW i \in Ingests, t = <<"socket", i>>
        PROVE  Params(t) \in there /\ (Lists \in there \/ Excused(<<t, Lists>>))
    <2>1. Params(t) \in there
      BY <1>1, <1>2 DEF ThreadMemory
    <2>2. /\ mode = "stream"
          /\ main \in Freed => peek
      BY <1>2 DEF PlaceInv, WhereOK, SocketOK
    <2>3. main \in {"close log", "returned"} => Excused(<<t, Lists>>)
      BY <1>2, <2>2 DEF Excused, Freed
    <2>4. QED
      BY <1>1, <2>1, <2>3 DEF MainMemory, ListsHeld
  <1>3. ASSUME NEW i \in Ingests, t = <<"preread", i>>
        PROVE  Params(t) \in there /\ Lists \in there
    <2>1. main \in {"start prereads", "join prereads"}
      BY <1>1, <1>3 DEF PlaceInv, PrereadOK
    <2>2. QED
      BY <1>1, <1>3, <2>1 DEF ThreadMemory, PrereadHeld, MainMemory, ListsHeld
  <1>4. ASSUME NEW i \in Ingests, t = <<"ingest", i>>
        PROVE  Params(t) \in there /\ Lists \in there
    <2>1. pc[<<"ingest", i>>] \in Owning
      BY <1>4 DEF Owning
    <2>2. QED
      BY <1>1, <1>4, <2>1, WorkersHold DEF ThreadMemory
  <1>5. ASSUME NEW s \in Streams, t = <<"analysis", s>>
        PROVE  Params(t) \in there /\ Lists \in there
    <2>1. pc[<<"analysis", s>>] = "running"
      BY <1>5 DEF PlaceInv
    <2>2. QED
      BY <1>1, <1>5, <2>1, WorkersHold DEF ThreadMemory
  <1>6. QED
    BY <1>2, <1>3, <1>4, <1>5 DEF Threads

\* A use of what is there leaves no trace.
LEMMA NothingStale ==
    ASSUME NEW who, NEW things, things \subseteq there,
           stale' = stale \cup {<<who, x>> : x \in things \ there}
    PROVE  stale' = stale
  OBVIOUS

\* When the lists are freed only the socket threads that -p has left may still report.
LEMMA NobodyAdds ==
    ASSUME EntryInv, PlaceInv, main \in Freed, ~ peek \/ mode = "file"
    PROVE  growing = {}
  <1>1. ASSUME NEW t \in Reporters PROVE adding[t] = Log!Idle
    <2> SUFFICES ASSUME pc[t] \in {"running", "unopened"} PROVE FALSE
      BY DEF PlaceInv, AddingOK
    <2>1. ~ Stopped /\ main \notin Working /\ main \notin {"start prereads", "join prereads"}
      BY DEF Stopped, Working, Freed
    <2>2. \A i \in Ingests : t # <<"socket", i>>
      BY DEF PlaceInv, SocketOK
    <2>3. \A i \in Ingests : t # <<"preread", i>> /\ t # <<"ingest", i>>
      BY <2>1 DEF PlaceInv, PrereadOK, WorkerOK, Owning
    <2>4. \A s \in Streams : t # <<"analysis", s>>
      BY <2>1 DEF PlaceInv, WorkerOK, Owning
    <2>5. QED
      BY <2>2, <2>3, <2>4, ReportersAssumption DEF Threads
  <1>2. QED
    BY <1>1 DEF EntryInv, EntryTypes

\* The threads that parse are those of a source.
LEMMA Parsers ==
    \A t \in Threads : t[1] \in {"preread", "ingest"} =>
        \E j \in Ingests : t = <<"preread", j>> \/ t = <<"ingest", j>>
  <1> SUFFICES ASSUME NEW t \in Threads, t[1] \in {"preread", "ingest"}
               PROVE  \E j \in Ingests : t = <<"preread", j>> \/ t = <<"ingest", j>>
    OBVIOUS
  <1>1. CASE t \in {"socket", "preread", "ingest"} \X Ingests
    <2>1. PICK k, j : t = <<k, j>> /\ j \in Ingests
      BY <1>1
    <2>2. t[1] = k
      BY <2>1
    <2>3. QED
      BY <2>1, <2>2
  <1>2. CASE t \in {"analysis"} \X Streams
    BY <1>2
  <1>3. QED
    BY <1>1, <1>2 DEF Threads

\* Two sources are more than one.
LEMMA TwoSources == \A i, j \in Ingests : i # j => NumIngests > 1
  BY TestAppAssumption DEF Ingests

\* The entry of the table is all that the registration changes.
LEMMA RegisterThings ==
    ASSUME NEW who, NEW used, register_descriptor(who, used)
    PROVE  /\ SameThings /\ (Storage \in there' <=> Storage \in there)
           /\ there' = there \cup {Entry}
  BY OthersAreDistinct DEF register_descriptor, SameThings

\* Who registers the reader of the descriptor, and when.
MayRegister(who) ==
    \/ who = Main /\ main = "read files"
    \/ \E i \in Ingests : \/ who = <<"preread", i>> /\ pc[who] = "starting"
                          \/ who = <<"ingest", i>> /\ pc[who] \in {"starting", "unstopped"}

\* No thread is a source's only one that parses while another one registers its own.
LEMMA RegisterStale ==
    ASSUME PlaceInv, ~ Stopped, NEW who, NEW used, register_descriptor(who, used),
           MayRegister(who)
    PROVE  \A u \in stale' : u \in stale \/ Excused(u) \/ \E x \in used \ there : u = <<who, x>>
  <1>1. ASSUME NEW t \in Threads, t # who, Parse(t)
        PROVE  t[1] \in {"preread", "ingest"} /\ NumIngests > 1
    <2>1. /\ t[1] \in {"preread", "ingest"}
          /\ pc[t] \in {"starting", "running", "unstopped"}
      BY <1>1 DEF Parse
    <2>2. PICK j \in Ingests : t = <<"preread", j>> \/ t = <<"ingest", j>>
      BY <2>1, Parsers
    <2>3. /\ t = <<"preread", j>> => main \in {"start prereads", "join prereads"}
          /\ t = <<"ingest", j>> => main \in Working
      <3>1. ASSUME t = <<"preread", j>> PROVE main \in {"start prereads", "join prereads"}
        <4>1. PrereadOK(j) /\ pc[<<"preread", j>>] \in {"starting", "running", "unstopped"}
          BY <2>1, <3>1 DEF PlaceInv
        <4>2. QED
          BY <4>1 DEF PrereadOK
      <3>2. ASSUME t = <<"ingest", j>> PROVE main \in Working
        <4>1. /\ WorkerOK(<<"ingest", j>>)
              /\ pc[<<"ingest", j>>] \in {"starting", "running", "unstopped"}
          BY <2>1, <3>2 DEF PlaceInv
        <4>2. QED
          BY <4>1 DEF WorkerOK, Owning
      <3>3. QED
        BY <3>1, <3>2
    <2>4. ASSUME NEW i \in Ingests, i # j PROVE NumIngests > 1
      BY <2>4, TwoSources
    <2>5. who = Main => main # "read files"
      <3>1. main \in {"start prereads", "join prereads"} => main # "read files"
        OBVIOUS
      <3>2. main \in Working => main # "read files"
        BY DEF Working
      <3>3. QED
        BY <2>2, <2>3, <3>1, <3>2
    <2>6. ASSUME NEW i \in Ingests, who = <<"preread", i>>, pc[who] = "starting"
          PROVE  NumIngests > 1
      <3>1. main \in {"start prereads", "join prereads"}
        BY <2>6 DEF PlaceInv, PrereadOK
      <3>2. t = <<"preread", j>>
        BY <2>2, <2>3, <3>1 DEF Working
      <3>3. QED
        BY <1>1, <2>4, <2>6, <3>2
    <2>7. ASSUME NEW i \in Ingests, who = <<"ingest", i>>, pc[who] \in {"starting", "unstopped"}
          PROVE  NumIngests > 1
      <3>1. main \in Working
        BY <2>7 DEF PlaceInv, WorkerOK, Owning
      <3>2. t = <<"ingest", j>>
        BY <2>2, <2>3, <3>1 DEF Working
      <3>3. QED
        BY <1>1, <2>4, <2>7, <3>2
    <2>8. QED
      BY <2>1, <2>5, <2>6, <2>7 DEF MayRegister
  <1>2. PICK finders \in SUBSET {t \in Threads : t # who /\ Parse(t) /\ Entry \in there} :
            stale' = stale \cup {<<t, Entry>> : t \in finders}
                           \cup {<<who, x>> : x \in used \ there}
    BY DEF register_descriptor
  <1>3. \A t \in finders : Excused(<<t, Entry>>)
    BY <1>1, <1>2 DEF Excused
  <1>4. QED
    BY <1>2, <1>3

\* The main thread uses and frees only what is there, but for the storage of the lists
\* under the menu of the stream mode, and with -p.
LEMMA MainUsesWhatIsThere ==
    ASSUME EntryInv, PlaceInv, MemoryOK, StorageOK, MainGoesOn \/ Menu \/ FatalError
    PROVE  \A u \in stale' : u \in stale \/ Excused(u)
  <1>1. ~ Stopped => MainMemory /\ ThreadMemory
    BY DEF MemoryOK
  <1>2. ~ Stopped /\ QueuesHeld => Carried \subseteq there
    BY <1>1, CarriedQueues DEF MainMemory
  <1>3. ~ Stopped /\ ResultsHeld => /\ Verdicts \in there
                                    /\ mode = "stream" => Buffers \subseteq there
    BY <1>1 DEF MainMemory, Buffers
  <1>4. ~ Stopped => (ListsHeld => Lists \in there) /\ (ProgramsHeld => Programs \in there)
    BY <1>1 DEF MainMemory
  <1>5. ASSUME UNCHANGED memory PROVE stale' = stale
    BY <1>5 DEF memory
  <1>6. ASSUME prereadFiles PROVE \A u \in stale' : u \in stale \/ Excused(u)
    <2>1. ProgramsHeld /\ ~ Stopped /\ main = "read files"
      BY <1>6 DEF prereadFiles, Goes, ProgramsHeld, Freed, Stopped
    <2>2. {Programs} \ there = {} /\ register_descriptor(Main, {Programs})
      BY <1>4, <1>6, <2>1 DEF prereadFiles
    <2>3. MayRegister(Main)
      BY <2>1 DEF MayRegister
    <2>4. QED
      BY <2>1, <2>2, <2>3, RegisterStale
  <1>7. CASE setupQueues
    <2>1. ProgramsHeld /\ ~ Stopped
      BY <1>7 DEF setupQueues, Goes, ProgramsHeld, Freed, Stopped
    <2>2. {Programs} \subseteq there
      BY <1>4, <2>1
    <2>3. QED
      BY <1>7, <2>2, NothingStale DEF setupQueues
  <1>8. CASE printStreamInfo
    <2>1. ProgramsHeld /\ QueuesHeld /\ ~ Stopped
      BY <1>8 DEF printStreamInfo, Goes, ProgramsHeld, QueuesHeld, Freed, Stopped
    <2>2. {Programs} \cup Carried \subseteq there /\ Uses(Main, {Programs} \cup Carried)
      BY <1>2, <1>4, <1>8, <2>1 DEF printStreamInfo
    <2>3. QED
      BY <2>2, NothingStale DEF Uses
  <1>9. ASSUME reportPrint PROVE \A u \in stale' : u \in stale \/ Excused(u)
    <2>1. /\ ProgramsHeld /\ QueuesHeld /\ ResultsHeld /\ ListsHeld /\ ~ Stopped
          /\ mode = "stream"
      BY <1>9 DEF reportPrint, ProgramsHeld, QueuesHeld, ResultsHeld, ListsHeld, Freed, Stopped,
         Working, PlaceInv, WhereOK, StreamOnly
    <2>2. reportPrintStreamInfo \cup {Lists, Verdicts} \subseteq there
      BY <1>2, <1>3, <1>4, <2>1 DEF reportPrintStreamInfo
    <2>3. Excused(<<Main, Storage>>)
      BY <2>1 DEF Excused
    <2>4. QED
      BY <1>9, <2>2, <2>3 DEF reportPrint, Uses
  <1>10. CASE printIngestStatus
    <2>1. main = "menu" /\ ~ Stopped /\ mode = "stream"
      BY <1>10 DEF printIngestStatus, Stopped, PlaceInv, WhereOK, StreamOnly
    <2>2. QueuesHeld /\ ResultsHeld
      BY <2>1 DEF QueuesHeld, ResultsHeld, Freed, Working
    <2>3. \A i \in Ingests : Params(<<"socket", i>>) \in there
      BY <1>1, <2>1 DEF ThreadMemory, PlaceInv, SocketOK
    <2>4. SocketParams \cup Buffers \cup Carried \subseteq there
      BY <1>2, <1>3, <2>1, <2>2, <2>3 DEF SocketParams
    <2>5. QED
      BY <1>10, <2>4, NothingStale DEF printIngestStatus, Uses
  <1>11. CASE ClearResets
    <2>1. QueuesHeld /\ ResultsHeld /\ ~ Stopped
      BY <1>11 DEF ClearResets, QueuesHeld, ResultsHeld, Freed, Working, Stopped
    <2>2. {Verdicts} \cup Carried \subseteq there /\ Uses(Main, {Verdicts} \cup Carried)
      BY <1>2, <1>3, <1>11, <2>1 DEF ClearResets
    <2>3. QED
      BY <2>2, NothingStale DEF Uses
  <1>12. CASE DisableBuffers
    <2>1. main = "disable" /\ ~ Stopped /\ mode = "stream" /\ next \in Ingests
      BY <1>12 DEF DisableBuffers, Stopped, PlaceInv, WhereOK, StreamOnly, TurnsOK, IngestLoops
    <2>2. {Buffer(next)} \subseteq there /\ Uses(Main, {Buffer(next)})
      BY <1>3, <1>12, <2>1 DEF DisableBuffers, ResultsHeld, Freed, Buffers
    <2>3. QED
      BY <2>2, NothingStale DEF Uses
  <1>13. CASE analyzeResults
    <2>1. QueuesHeld /\ ResultsHeld /\ ~ Stopped
      BY <1>13 DEF analyzeResults, Goes, QueuesHeld, ResultsHeld, Freed, Stopped
    <2>2. {Verdicts} \cup Carried \subseteq there /\ Uses(Main, {Verdicts} \cup Carried)
      BY <1>2, <1>3, <1>13, <2>1 DEF analyzeResults
    <2>3. QED
      BY <2>2, NothingStale DEF Uses
  <1>14. ASSUME NEW freed, freed \subseteq there, UsesAndFrees(Main, {}, freed)
         PROVE  stale' = stale
    BY <1>14 DEF UsesAndFrees
  <1>15. CASE teardownQueues
    <2>1. QueuesHeld /\ ~ Stopped
      BY <1>15 DEF teardownQueues, Goes, QueuesHeld, Stopped
    <2>2. QED
      BY <1>2, <1>14, <1>15, <2>1 DEF teardownQueues
  <1>16. CASE freeProgramStreamInfo
    <2>1. ProgramsHeld /\ ~ Stopped
      BY <1>16 DEF freeProgramStreamInfo, Goes, ProgramsHeld, Freed, Stopped
    <2>2. {Programs} \subseteq there /\ UsesAndFrees(Main, {}, {Programs})
      BY <1>4, <1>16, <2>1 DEF freeProgramStreamInfo
    <2>3. QED
      BY <2>2 DEF UsesAndFrees
  <1>17. CASE FreeBuffers
    <2>1. ResultsHeld /\ ~ Stopped
      BY <1>17 DEF FreeBuffers, Goes, ResultsHeld, Freed, Stopped
    <2>2. {Verdicts} \cup (IF mode = "stream" THEN Buffers ELSE {}) \subseteq there
      BY <1>3, <2>1
    <2>3. QED
      BY <1>14, <1>17, <2>2 DEF FreeBuffers
  <1>18. ASSUME reportCleanup PROVE \A u \in stale' : u \in stale \/ Excused(u)
    <2>1. ListsHeld /\ ~ Stopped /\ main \in Freed /\ mode \in {"file", "stream"}
      BY <1>18 DEF reportCleanup, Goes, ListsHeld, Stopped, Freed, PlaceInv, WhereOK
    <2>2. Storage \in there \/ Excused(<<Main, Storage>>)
      <3>1. CASE mode = "file"
        BY <2>1, <3>1, NobodyAdds DEF StorageOK
      <3>2. CASE mode = "stream"
        BY <3>2 DEF Excused
      <3>3. QED
        BY <2>1, <3>1, <3>2
    <2>3. Lists \in there /\ UsesAndFrees(Main, {}, {Lists, Storage})
      BY <1>4, <1>18, <2>1 DEF reportCleanup
    <2>4. QED
      BY <2>2, <2>3 DEF UsesAndFrees
  <1>19. CASE prereadIngestStreams
    <2>1. main = "free prereads" /\ ~ Stopped /\ next \in Ingests
      BY <1>19 DEF prereadIngestStreams, Stopped, PlaceInv, TurnsOK, IngestLoops
    <2>2. ~ (next < next)
      BY <2>1, FirstIndex, NotBeforeNext
    <2>3. {Params(<<"preread", next>>)} \subseteq there
      BY <1>1, <2>1, <2>2 DEF ThreadMemory, PrereadHeld, PlaceInv, PrereadOK
    <2>4. \/ UsesAndFrees(Main, {}, {Params(<<"preread", next>>)})
          \/ UNCHANGED stale
      BY <1>19 DEF prereadIngestStreams, memory
    <2>5. QED
      BY <2>3, <2>4 DEF UsesAndFrees
  <1>20. CASE startSocketReceiveThreads \/ startThreads_PreReadStreamIngest \/ startThreads
    BY <1>20 DEF startSocketReceiveThreads, startThreads_PreReadStreamIngest, startThreads, Starts
  <1>21. CASE waitForPreReadStreamIngestToExit \/ waitForSocketReceiveThreadsToExit
              \/ waitForThreadsToExit
    BY <1>5, <1>21 DEF waitForPreReadStreamIngestToExit, waitForSocketReceiveThreadsToExit,
       waitForThreadsToExit, Joins
  <1>22. CASE RunMode \/ MainReturns \/ ClearEmpties
    BY <1>5, <1>22 DEF RunMode, MainReturns, ClearEmpties
  <1>23. CASE ChooseExit \/ FatalError
    BY <1>5, <1>23 DEF ChooseExit, FatalError
  <1>24. ASSUME ClearBegins PROVE \A u \in stale' : u \in stale \/ Excused(u)
    <2>1. ListsHeld /\ ~ Stopped /\ mode = "stream"
      BY <1>24 DEF ClearBegins, Goes, ListsHeld, Stopped, PlaceInv, WhereOK, StreamOnly
    <2>2. Lists \in there /\ Excused(<<Main, Storage>>)
      BY <1>4, <2>1 DEF Excused
    <2>3. QED
      BY <1>24, <2>2 DEF ClearBegins, Uses
  <1>25. QED
    BY <1>6, <1>7, <1>8, <1>9, <1>10, <1>11, <1>12, <1>13, <1>15, <1>16, <1>17, <1>18, <1>19,
       <1>20, <1>21, <1>22, <1>23, <1>24 DEF MainGoesOn, Menu

\* So do the other threads, but for what they report and for a file that was not opened.
LEMMA ThreadsUseWhatIsThere ==
    ASSUME PlaceInv, MemoryOK, NEW i \in Ingests, NEW s \in Streams,
           \/ SocketReceives(i) \/ SocketSeesDisabled(i) \/ SocketFails(i) \/ PrereadEnds(i)
           \/ IngestOpens(i) \/ IngestReadsAll(i) \/ IngestTakesForEnd(i) \/ PushNull(i, s)
           \/ IngestFrees(i) \/ AnalysisTakesNull(s) \/ AnalysisEnds(s)
           \/ IngestMeetsAbsent(i) \/ PushNullToAbsent(i, s)
    PROVE  stale' = stale
  <1>1. Alive => ~ Stopped /\ ThreadMemory /\ MainMemory
    BY DEF Alive, Stopped, MemoryOK
  <1>2. ASSUME NEW t, NEW things, things \subseteq there,
               Uses(t, things) \/ UsesAndFrees(t, things, {}) \/ UsesAndFrees(t, {}, things)
        PROVE  stale' = stale
    BY <1>2 DEF Uses, UsesAndFrees
  <1>3. CASE SocketReceives(i) \/ SocketSeesDisabled(i) \/ SocketFails(i)
    <2> DEFINE t == <<"socket", i>>
    <2>1. Runs(t)
      BY <1>3 DEF SocketReceives, SocketSeesDisabled, SocketFails
    <2>2. Alive /\ pc[t] = "running"
      BY <2>1 DEF Runs
    <2>3. mode = "stream" /\ ResultsHeld
      BY <2>2 DEF PlaceInv, SocketOK, WhereOK, ResultsHeld, Freed
    <2>4. {Params(t), Buffer(i)} \subseteq there
      BY <1>1, <2>2, <2>3 DEF ThreadMemory, MainMemory
    <2>5. \/ Uses(t, {Params(t), Buffer(i)}) \/ UsesAndFrees(t, {Params(t), Buffer(i)}, {})
      BY <1>3 DEF SocketReceives, SocketSeesDisabled, SocketFails, Ends
    <2>6. QED
      BY <2>4, <2>5 DEF Uses, UsesAndFrees
  <1>4. CASE PrereadEnds(i)
    <2> DEFINE t == <<"preread", i>>
    <2>1. Alive /\ pc[t] = "running" /\ UsesAndFrees(t, {Params(t), Buffer(i), Programs}, {})
      BY <1>4 DEF PrereadEnds, Runs, Ends
    <2>2. main \in {"start prereads", "join prereads"} /\ mode = "stream"
      BY <1>1, <2>1 DEF PlaceInv, PrereadOK
    <2>3. ResultsHeld /\ ProgramsHeld /\ PrereadHeld(i)
      BY <2>1, <2>2 DEF ResultsHeld, ProgramsHeld, PrereadHeld, Freed
    <2>4. {Params(t), Buffer(i), Programs} \subseteq there
      BY <1>1, <2>1, <2>2, <2>3 DEF ThreadMemory, MainMemory
    <2>5. QED
      BY <2>1, <2>4 DEF UsesAndFrees
  <1>5. CASE IngestOpens(i) \/ IngestReadsAll(i) \/ IngestTakesForEnd(i) \/ PushNull(i, s)
             \/ IngestFrees(i) \/ IngestMeetsAbsent(i) \/ PushNullToAbsent(i, s)
    <2> DEFINE t == <<"ingest", i>>
    <2>1. Alive /\ pc[t] \in Owning
      BY <1>5 DEF IngestOpens, IngestReadsAll, IngestTakesForEnd, PushNull, IngestFrees,
         IngestMeetsAbsent, PushNullToAbsent, Runs, Owning
    <2>2. Params(t) \in there
      BY <1>1, <2>1 DEF ThreadMemory
    <2>3. Carried \subseteq there /\ (mode = "stream" => Buffer(i) \in there)
      BY <2>1, WorkersHold
    <2>4. CASE IngestOpens(i)
      BY <2>2, <2>4 DEF IngestOpens, Uses
    <2>5. CASE IngestReadsAll(i)
      <3>1. Uses(t, {Params(t)} \cup Carried \cup IF mode = "stream" THEN {Buffer(i)} ELSE {})
        BY <2>5 DEF IngestReadsAll
      <3>2. {Params(t)} \cup Carried \cup (IF mode = "stream" THEN {Buffer(i)} ELSE {}) \subseteq there
        BY <2>2, <2>3
      <3>3. QED
        BY <3>1, <3>2, NothingStale DEF Uses
    <2>6. CASE IngestTakesForEnd(i)
      BY <2>2, <2>3, <2>6 DEF IngestTakesForEnd, Uses
    <2>7. CASE PushNull(i, s)
      <3>1. ~ Absent(i, s) /\ Uses(t, {Params(t), Queue(i, s)})
        BY <2>7 DEF PushNull, Absent
      <3>2. Queue(i, s) \in there
        BY <2>3, <3>1, CarriedQueues
      <3>3. QED
        BY <2>2, <3>1, <3>2 DEF Uses
    <2>8. CASE IngestFrees(i)
      BY <2>2, <2>8 DEF IngestFrees, UsesAndFrees
    <2>9. CASE IngestMeetsAbsent(i) \/ PushNullToAbsent(i, s)
      BY <2>2, <2>9 DEF IngestMeetsAbsent, PushNullToAbsent, Uses
    <2>10. QED
      BY <1>5, <2>4, <2>5, <2>6, <2>7, <2>8, <2>9
  <1>6. CASE AnalysisTakesNull(s) \/ AnalysisEnds(s)
    <2> DEFINE t == <<"analysis", s>>
    <2>1. Alive /\ pc[t] = "running"
      BY <1>6 DEF AnalysisTakesNull, AnalysisEnds, Runs
    <2>2. Params(t) \in there
      BY <1>1, <2>1 DEF ThreadMemory
    <2>3. \A j \in Ingests : ~ Absent(j, s) => Queue(j, s) \in there
      BY <2>1, WorkersHold, CarriedQueues
    <2>4. CASE AnalysisTakesNull(s)
      BY <2>2, <2>3, <2>4 DEF AnalysisTakesNull, Absent, Uses
    <2>5. CASE AnalysisEnds(s)
      BY <2>2, <2>5 DEF AnalysisEnds, Ends, UsesAndFrees
    <2>6. QED
      BY <1>6, <2>4, <2>5
  <1>7. QED
    BY <1>3, <1>4, <1>5, <1>6

\* The main thread is none of the threads it starts.
LEMMA MainIsNoThread == \A t \in Threads : t # Main
  BY DEF Threads, Main

\* The uses that are no others than the excused ones.
LEMMA StaleStep ==
    ASSUME IInv, EntryInv, PlaceInv, MemInv, [Next]_vars
    PROVE  \A u \in stale' : u \in stale \/ Excused(u)
  <1>0. /\ MemoryOK /\ StorageOK
        /\ (\E s \in Streams : TRUE) /\ (\E i \in Ingests : TRUE)
    BY TestAppAssumption DEF Streams, Ingests, MemInv
  <1>1. CASE UNCHANGED vars
    BY <1>1 DEF vars, memory
  <1>2. CASE MainGoesOn \/ Menu \/ FatalError
    BY <1>0, <1>2, MainUsesWhatIsThere
  <1>3. ASSUME NEW t \in Reporters, BeginsReport(t) PROVE \A u \in stale' : u \in stale \/ Excused(u)
    <2>1. Alive /\ t \in Threads /\ pc[t] \in {"running", "unopened"}
      BY <1>3, ReportersAssumption DEF BeginsReport
    <2>2. Params(t) \in there /\ (Lists \in there \/ Excused(<<t, Lists>>))
      BY <1>0, <2>1, ReportersHold
    <2>3. Uses(t, {Lists, Params(t)})
      BY <1>3 DEF BeginsReport
    <2>4. QED
      BY <2>2, <2>3 DEF Uses
  <1>4. ASSUME NEW t \in Reporters, MovesStorage(t) \/ StorageMoved(t) \/ EndsReport(t)
        PROVE  \A u \in stale' : u \in stale \/ Excused(u)
    <2>1. Alive /\ t \in Threads
      BY <1>4, ReportersAssumption DEF MovesStorage, StorageMoved, EndsReport
    <2>2. adding[t] # Log!Idle
      BY <1>4 DEF MovesStorage, StorageMoved, EndsReport, Log!BeginGrow, Log!EndGrow, Log!EndAdd,
         EntryInv, EntryTypes
    <2>3. pc[t] \in {"running", "unopened"}
      BY <2>2 DEF PlaceInv, AddingOK
    <2>4. Lists \in there \/ Excused(<<t, Lists>>)
      BY <1>0, <2>1, <2>3, ReportersHold
    <2>5. Excused(<<t, Storage>>)
      BY <2>1, MainIsNoThread DEF Excused
    <2>6. PICK used \in SUBSET {Lists, Storage} :
              stale' = stale \cup {<<t, x>> : x \in used \ there}
      <3>1. CASE MovesStorage(t)
        <4>1. stale' = stale \cup {<<t, x>> : x \in ({Lists} \cup {Storage}) \ there}
          BY <3>1 DEF MovesStorage, UsesAndFrees
        <4>2. QED
          BY <4>1
      <3>2. CASE StorageMoved(t)
        BY <3>2 DEF StorageMoved
      <3>3. CASE EndsReport(t)
        BY <3>3 DEF EndsReport, Uses
      <3>4. QED
        BY <1>4, <3>1, <3>2, <3>3
    <2>7. QED
      BY <2>4, <2>5, <2>6
  <1>5. ASSUME NEW t \in Threads, NEW i \in Ingests, NEW s \in Streams, StreamFails(t, i, s)
        PROVE  stale' = stale
    <2>1. /\ Alive /\ Uses(t, {Queue(i, s)}) /\ ~ Absent(i, s)
          /\ pc[<<"ingest", i>>] = "running" \/ pc[<<"analysis", s>>] = "running"
      BY <1>5 DEF StreamFails, Runs, Absent
    <2>2. Queue(i, s) \in there
      BY <1>0, <2>1, WorkersHold, CarriedQueues DEF Owning
    <2>3. QED
      BY <2>1, <2>2 DEF Uses
  <1>6. ASSUME NEW i \in Ingests, IngestGoesOn(i) PROVE \A u \in stale' : u \in stale \/ Excused(u)
    <2> DEFINE t == <<"ingest", i>>
    <2>1. /\ pc[t] = "unstopped" /\ register_descriptor(t, {Params(t)})
          /\ ~ Stopped
      BY <1>6 DEF IngestGoesOn, Alive, Stopped
    <2>2. Excused(<<t, Params(t)>>)
      BY <2>1 DEF Excused
    <2>3. \A u \in stale' : u \in stale \/ Excused(u) \/ \E x \in {Params(t)} \ there : u = <<t, x>>
      <3>1. MayRegister(t)
        BY <2>1 DEF MayRegister
      <3> HIDE DEF t
      <3>2. QED
        BY <2>1, <3>1, RegisterStale
    <2>4. QED
      BY <2>2, <2>3
  <1>7. ASSUME NEW i \in Ingests, NEW s \in Streams,
               \/ SocketReceives(i) \/ SocketSeesDisabled(i) \/ SocketFails(i) \/ PrereadEnds(i)
               \/ IngestOpens(i) \/ IngestReadsAll(i) \/ IngestTakesForEnd(i) \/ PushNull(i, s)
               \/ IngestFrees(i) \/ AnalysisTakesNull(s) \/ AnalysisEnds(s)
               \/ IngestMeetsAbsent(i) \/ PushNullToAbsent(i, s)
        PROVE  stale' = stale
    BY <1>0, <1>7, ThreadsUseWhatIsThere
  <1>8. ASSUME NEW t \in Threads, Registers(t) PROVE \A u \in stale' : u \in stale \/ Excused(u)
    <2>1. pc[t] = "starting" /\ register_descriptor(t, {Params(t)}) /\ Alive
      BY <1>8 DEF Registers
    <2>2. ~ Stopped /\ ThreadMemory
      BY <1>0, <2>1 DEF Alive, Stopped, MemoryOK
    <2>3. PICK i \in Ingests : t = <<"preread", i>> \/ t = <<"ingest", i>>
      BY <1>8, RegisterPlaces
    <2>4. Params(t) \in there
      <3>1. CASE t = <<"preread", i>>
        <4>1. PrereadHeld(i)
          BY <2>1, <2>2, <3>1 DEF PlaceInv, PrereadOK, PrereadHeld
        <4>2. QED
          BY <2>2, <3>1, <4>1 DEF ThreadMemory
      <3>2. CASE t = <<"ingest", i>>
        BY <2>1, <2>2, <3>2 DEF ThreadMemory, Owning
      <3>3. QED
        BY <2>3, <3>1, <3>2
    <2>5. {Params(t)} \ there = {}
      BY <2>4
    <2>6. \A u \in stale' : u \in stale \/ Excused(u) \/ \E x \in {Params(t)} \ there : u = <<t, x>>
      <3>1. MayRegister(t)
        BY <2>1, <2>3 DEF MayRegister
      <3>2. QED
        BY <2>1, <2>2, <3>1, RegisterStale
    <2>7. QED
      BY <2>5, <2>6
  <1>9. QED
    BY <1>0, <1>1, <1>2, <1>3, <1>4, <1>5, <1>6, <1>7, <1>8
       DEF Next, IngestGoesToItsEnd, AnalysisGoesToItsEnd

\* The options are those of the command line.
LEMMA OptionsStay == [Next]_vars => UNCHANGED options
  <1> SUFFICES ASSUME [Next]_vars PROVE UNCHANGED options
    OBVIOUS
  <1>1. CASE UNCHANGED vars
    BY <1>1 DEF vars
  <1>2. CASE MainGoesOn
    <2>1. CASE \/ startSocketReceiveThreads \/ startThreads_PreReadStreamIngest \/ startThreads
               \/ waitForPreReadStreamIngestToExit \/ waitForSocketReceiveThreadsToExit
               \/ waitForThreadsToExit
      BY <2>1 DEF startSocketReceiveThreads, startThreads_PreReadStreamIngest, startThreads, Starts,
         waitForPreReadStreamIngestToExit, waitForSocketReceiveThreadsToExit,
         waitForThreadsToExit, Joins
    <2>2. CASE RunMode \/ prereadFiles \/ prereadIngestStreams
      BY <2>2 DEF RunMode, prereadFiles, prereadIngestStreams
    <2>3. CASE setupQueues
      BY <2>3 DEF setupQueues
    <2>4. CASE printStreamInfo
      BY <2>4 DEF printStreamInfo
    <2>5. CASE ClearEmpties \/ ClearResets \/ DisableBuffers
      BY <2>5 DEF ClearEmpties, ClearResets, DisableBuffers
    <2>6. CASE analyzeResults \/ teardownQueues \/ freeProgramStreamInfo
      BY <2>6 DEF analyzeResults, teardownQueues, freeProgramStreamInfo
    <2>7. CASE FreeBuffers \/ reportCleanup \/ MainReturns
      BY <2>7 DEF FreeBuffers, reportCleanup, MainReturns
    <2>8. QED
      BY <1>2, <2>1, <2>2, <2>3, <2>4, <2>5, <2>6, <2>7 DEF MainGoesOn
  <1>3. CASE Menu \/ FatalError
    BY <1>3 DEF Menu, FatalError, reportPrint, printIngestStatus, ClearBegins, ChooseExit
  <1>4. ASSUME NEW t, \/ BeginsReport(t) \/ MovesStorage(t) \/ StorageMoved(t) \/ EndsReport(t)
                      \/ Registers(t) \/ \E i, s : StreamFails(t, i, s)
        PROVE  UNCHANGED options
    BY <1>4 DEF BeginsReport, MovesStorage, StorageMoved, EndsReport, Registers, StreamFails
  <1>5. ASSUME NEW i, \/ SocketReceives(i) \/ SocketSeesDisabled(i) \/ SocketFails(i)
                      \/ PrereadEnds(i) \/ IngestTakesForEnd(i) \/ IngestGoesToItsEnd(i)
                      \/ IngestMeetsAbsent(i)
        PROVE  UNCHANGED options
    BY <1>5 DEF SocketReceives, SocketSeesDisabled, SocketFails, PrereadEnds, IngestTakesForEnd,
       IngestMeetsAbsent, PushNullToAbsent, IngestGoesToItsEnd, Ends, IngestOpens,
       IngestReadsAll, IngestFrees, IngestGoesOn, PushNull
  <1>6. ASSUME NEW s, AnalysisGoesToItsEnd(s) PROVE UNCHANGED options
    BY <1>6 DEF AnalysisGoesToItsEnd, AnalysisTakesNull, AnalysisEnds, Ends
  <1>7. QED
    BY <1>1, <1>2, <1>3, <1>4, <1>5, <1>6 DEF Next

\* Once a queue is there, its stream is not absent, whatever the queue goes through.
LEMMA QueueMoves == ASSUME QueueOK, [Next]_vars PROVE QueueOK' /\ (setupQueues \/ SameStreams)
  <1>1. ASSUME UNCHANGED queue PROVE QueueOK' /\ SameStreams
    BY <1>1 DEF QueueOK, SameStreams, Absent
  <1>2. ASSUME NEW i \in Ingests, NEW s \in Streams, queue[<<i, s>>] # "absent",
               NEW v \in {"null", "over"}, queue' = [queue EXCEPT ![<<i, s>>] = v]
        PROVE  QueueOK' /\ SameStreams
    <2>1. \A p \in Ingests \X Streams : p # <<i, s>> => queue'[p] = queue[p]
      BY <1>2 DEF QueueOK
    <2>2. queue'[<<i, s>>] = v
      BY <1>2 DEF QueueOK
    <2>3. SameStreams
      BY <1>2, <2>1, <2>2 DEF SameStreams, Absent
    <2>4. QED
      BY <1>2, <2>3 DEF QueueOK
  <1>3. CASE UNCHANGED vars
    BY <1>1, <1>3 DEF vars, shared
  <1>4. CASE MainGoesOn
    <2>1. CASE \/ startSocketReceiveThreads \/ startThreads_PreReadStreamIngest \/ startThreads
               \/ waitForPreReadStreamIngestToExit \/ waitForSocketReceiveThreadsToExit
               \/ waitForThreadsToExit
      BY <1>1, <2>1 DEF startSocketReceiveThreads, startThreads_PreReadStreamIngest, startThreads,
         Starts, waitForPreReadStreamIngestToExit, waitForSocketReceiveThreadsToExit,
         waitForThreadsToExit, Joins, shared
    <2>2. CASE RunMode \/ prereadFiles \/ prereadIngestStreams
      BY <1>1, <2>2 DEF RunMode, prereadFiles, prereadIngestStreams, shared
    <2>3. ASSUME setupQueues PROVE QueueOK'
      BY <2>3 DEF setupQueues, QueueOK
    <2>4. CASE printStreamInfo
      BY <1>1, <2>4 DEF printStreamInfo, shared
    <2>5. CASE ClearEmpties \/ ClearResets \/ DisableBuffers
      BY <1>1, <2>5 DEF ClearEmpties, ClearResets, DisableBuffers
    <2>6. CASE analyzeResults \/ teardownQueues \/ freeProgramStreamInfo
      BY <1>1, <2>6 DEF analyzeResults, teardownQueues, freeProgramStreamInfo, shared
    <2>7. CASE FreeBuffers \/ reportCleanup \/ MainReturns
      BY <1>1, <2>7 DEF FreeBuffers, reportCleanup, MainReturns, shared
    <2>8. QED
      BY <1>4, <2>1, <2>2, <2>3, <2>4, <2>5, <2>6, <2>7 DEF MainGoesOn
  <1>5. CASE Menu \/ FatalError
    BY <1>1, <1>5 DEF Menu, FatalError, reportPrint, printIngestStatus, ClearBegins, ChooseExit,
       shared
  <1>6. ASSUME NEW t, \/ BeginsReport(t) \/ MovesStorage(t) \/ StorageMoved(t) \/ EndsReport(t)
                      \/ Registers(t) \/ \E i \in Ingests, s \in Streams : StreamFails(t, i, s)
        PROVE  QueueOK' /\ SameStreams
    BY <1>1, <1>6 DEF BeginsReport, MovesStorage, StorageMoved, EndsReport, Registers, StreamFails,
       shared
  <1>7. ASSUME NEW i \in Ingests, NEW s \in Streams, PushNull(i, s) PROVE QueueOK' /\ SameStreams
    BY <1>2, <1>7 DEF PushNull
  <1>8. ASSUME NEW s \in Streams, AnalysisTakesNull(s) PROVE QueueOK' /\ SameStreams
    BY <1>2, <1>8 DEF AnalysisTakesNull
  <1>9. ASSUME NEW i \in Ingests, \/ SocketReceives(i) \/ SocketSeesDisabled(i) \/ SocketFails(i)
                                  \/ PrereadEnds(i) \/ IngestOpens(i) \/ IngestReadsAll(i)
                                  \/ IngestTakesForEnd(i) \/ IngestMeetsAbsent(i)
                                  \/ IngestFrees(i) \/ IngestGoesOn(i)
        PROVE  QueueOK' /\ SameStreams
    BY <1>1, <1>9 DEF SocketReceives, SocketSeesDisabled, SocketFails, PrereadEnds, IngestOpens,
       IngestReadsAll, IngestTakesForEnd, IngestMeetsAbsent, IngestFrees, IngestGoesOn, Ends, shared
  <1>10. ASSUME NEW i \in Ingests, NEW s \in Streams, PushNullToAbsent(i, s) \/ AnalysisEnds(s)
         PROVE  QueueOK' /\ SameStreams
    BY <1>1, <1>10 DEF PushNullToAbsent, AnalysisEnds, Ends, shared
  <1>11. (\E s \in Streams : TRUE) /\ (\E i \in Ingests : TRUE)
    BY TestAppAssumption DEF Streams, Ingests
  <1>12. QED
    BY <1>3, <1>4, <1>5, <1>6, <1>7, <1>8, <1>9, <1>10, <1>11
       DEF Next, IngestGoesToItsEnd, AnalysisGoesToItsEnd

\* A step that leaves the storage of the lists, and who moves it, as they are.
StorageAside ==
    /\ Storage \in there' <=> Storage \in there
    /\ UNCHANGED growing
    /\ Stopped' \/ UNCHANGED main \/ (~ Stopped /\ (ListsHeld' <=> ListsHeld))

\* The main thread leaves them but when it frees the lists.
LEMMA MainStorage ==
    ASSUME MainGoesOn \/ Menu \/ FatalError, ~ reportCleanup
    PROVE  StorageAside
  <1> DEFINE Walks == \/ /\ main \notin {"close log", "returned", "exited", "crashed"}
                         /\ main' \notin {"close log", "returned"}
                      \/ main = "close log" /\ main' = "returned"
  <1>1. ASSUME Walks, UNCHANGED growing, Storage \in there' <=> Storage \in there
        PROVE  StorageAside
    BY <1>1 DEF StorageAside, ListsHeld, Stopped
  <1>2. ASSUME Walks, UNCHANGED growing, UNCHANGED there PROVE StorageAside
    BY <1>1, <1>2
  <1>3. ASSUME NEW n, NEW to, Advance(n, to) PROVE main' \in {main, to}
    BY <1>3 DEF Advance
  <1>4. CASE RunMode
    <2>1. Storage \notin {Verdicts, Programs} \cup Buffers
      BY OthersAreDistinct DEF Buffers
    <2>2. Walks /\ UNCHANGED growing
      BY <1>4 DEF RunMode, Goes, shared, reportVars
    <2>3. Storage \in there' <=> Storage \in there
      BY <1>4, <2>1 DEF RunMode
    <2>4. QED
      BY <1>1, <2>2, <2>3
  <1>5. CASE FatalError
    BY <1>2, <1>5 DEF FatalError, memory, shared, reportVars
  <1>6. CASE prereadFiles
    <2>1. Walks /\ UNCHANGED growing
      BY <1>6 DEF prereadFiles, Goes, shared, reportVars
    <2>2. Storage \in there' <=> Storage \in there
      BY <1>6, RegisterThings DEF prereadFiles
    <2>3. QED
      BY <1>1, <2>1, <2>2
  <1>7. ASSUME NEW kind, NEW n, NEW from, NEW to, Starts(kind, n, from, to),
               from \in {"start sockets", "start prereads", "start analyses", "start ingests"},
               to \in {"start prereads", "join prereads", "start ingests", "join analyses", "menu"}
        PROVE  StorageAside
    <2>1. main = from /\ main' \in {from, to} /\ UNCHANGED growing
      BY <1>3, <1>7 DEF Starts, shared, reportVars
    <2>2. there' = there \cup {Params(<<kind, next>>)}
      BY <1>7 DEF Starts
    <2>3. Storage # Params(<<kind, next>>)
      BY OthersAreDistinct
    <2>4. QED
      BY <1>1, <1>7, <2>1, <2>2, <2>3
  <1>8. CASE startSocketReceiveThreads \/ startThreads_PreReadStreamIngest
    BY <1>7, <1>8 DEF startSocketReceiveThreads, startThreads_PreReadStreamIngest
  <1>9. CASE startThreads
    BY <1>7, <1>9 DEF startThreads
  <1>10. ASSUME NEW kind, NEW n, NEW from, NEW to, Joins(kind, n, from, to),
                from \in {"join prereads", "join sockets", "join analyses", "join ingests"},
                to \in {"free prereads", "join analyses", "join ingests", "analyze"}
         PROVE  StorageAside
    <2>1. main = from /\ main' \in {from, to} /\ UNCHANGED growing /\ UNCHANGED there
      BY <1>3, <1>10 DEF Joins, memory, shared, reportVars
    <2>2. QED
      BY <1>2, <1>10, <2>1
  <1>11. CASE waitForPreReadStreamIngestToExit
    BY <1>10, <1>11 DEF waitForPreReadStreamIngestToExit
  <1>12. CASE waitForSocketReceiveThreadsToExit
    BY <1>10, <1>12 DEF waitForSocketReceiveThreadsToExit
  <1>13. CASE waitForThreadsToExit
    BY <1>10, <1>13 DEF waitForThreadsToExit
  <1>14. CASE prereadIngestStreams
    <2>1. /\ main = "free prereads" /\ main' \in {"free prereads", "set up", "crashed"}
          /\ UNCHANGED growing
          /\ there' \in {there, there \ {Params(<<"preread", next>>)}}
      BY <1>3, <1>14 DEF prereadIngestStreams, UsesAndFrees, memory, shared, reportVars
    <2>2. Storage # Params(<<"preread", next>>)
      BY OthersAreDistinct
    <2>3. QED
      BY <1>1, <2>1, <2>2
  <1>15. CASE setupQueues
    <2>1. Walks /\ UNCHANGED growing
      BY <1>15 DEF setupQueues, Goes, reportVars
    <2>2. Storage \notin Queues
      BY OthersAreDistinct DEF Queues
    <2>3. Storage \in there' <=> Storage \in there
      BY <1>15, <2>2 DEF setupQueues
    <2>4. QED
      BY <1>1, <2>1, <2>3
  <1>16. CASE printStreamInfo
    BY <1>2, <1>16 DEF printStreamInfo, Goes, Uses, shared, reportVars
  <1>17. CASE ClearEmpties
    BY <1>2, <1>17 DEF ClearEmpties, Goes, memory, Log!EmptyList
  <1>18. CASE ClearResets \/ DisableBuffers
    <2>1. /\ main \in {"reset flags", "disable"}
          /\ main' \in {main, "menu", "join sockets"} /\ UNCHANGED growing /\ UNCHANGED there
      BY <1>3, <1>18 DEF ClearResets, DisableBuffers, Uses, reportVars
    <2>2. QED
      BY <1>2, <2>1
  <1>19. CASE analyzeResults
    BY <1>2, <1>19 DEF analyzeResults, Goes, Uses, reportVars
  <1>20. ASSUME NEW freed, UsesAndFrees(Main, {}, freed), Storage \notin freed
         PROVE  Storage \in there' <=> Storage \in there
    BY <1>20 DEF UsesAndFrees
  <1>21. CASE teardownQueues
    <2>1. Walks /\ UNCHANGED growing
      BY <1>21 DEF teardownQueues, Goes, shared, reportVars
    <2>2. Storage \notin Carried
      BY OthersAreDistinct, CarriedQueues DEF Queues
    <2>3. QED
      BY <1>1, <1>20, <1>21, <2>1, <2>2 DEF teardownQueues
  <1>22. CASE freeProgramStreamInfo
    <2>1. Walks /\ UNCHANGED growing
      BY <1>22 DEF freeProgramStreamInfo, Goes, shared, reportVars
    <2>2. Storage \notin {Programs}
      BY OthersAreDistinct
    <2>3. QED
      BY <1>1, <1>20, <1>22, <2>1, <2>2 DEF freeProgramStreamInfo
  <1>23. CASE FreeBuffers
    <2>1. Walks /\ UNCHANGED growing
      BY <1>23 DEF FreeBuffers, Goes, shared, reportVars
    <2>2. Storage \notin {Verdicts} \cup IF mode = "stream" THEN Buffers ELSE {}
      BY OthersAreDistinct DEF Buffers
    <2>3. UsesAndFrees(Main, {}, {Verdicts} \cup IF mode = "stream" THEN Buffers ELSE {})
      BY <1>23 DEF FreeBuffers
    <2>4. QED
      BY <1>1, <1>20, <2>1, <2>2, <2>3
  <1>24. CASE MainReturns
    BY <1>2, <1>24 DEF MainReturns, Goes, memory, shared, reportVars
  <1>25. CASE reportPrint
    BY <1>2, <1>25 DEF reportPrint, Uses, mainVars, shared, reportVars
  <1>26. CASE printIngestStatus
    BY <1>2, <1>26 DEF printIngestStatus, Uses, shared, reportVars
  <1>27. CASE ClearBegins
    BY <1>2, <1>27 DEF ClearBegins, Goes, Uses, Log!FreeEntries
  <1>28. CASE ChooseExit
    BY <1>2, <1>28 DEF ChooseExit, Goes, memory, shared, reportVars
  <1>29. QED
    BY <1>4, <1>5, <1>6, <1>8, <1>9, <1>11, <1>12, <1>13, <1>14, <1>15, <1>16, <1>17, <1>18, <1>19,
       <1>21, <1>22, <1>23, <1>24, <1>25, <1>26, <1>27, <1>28 DEF MainGoesOn, Menu

\* The other threads leave them but when they move the storage.
LEMMA ThreadStorage ==
    ASSUME NEW i \in Ingests, NEW s \in Streams, NEW t \in Threads,
           \/ SocketReceives(i) \/ SocketSeesDisabled(i) \/ SocketFails(i) \/ PrereadEnds(i)
           \/ IngestOpens(i) \/ IngestReadsAll(i) \/ IngestTakesForEnd(i) \/ PushNull(i, s)
           \/ IngestFrees(i) \/ AnalysisTakesNull(s) \/ AnalysisEnds(s)
           \/ IngestMeetsAbsent(i) \/ PushNullToAbsent(i, s) \/ IngestGoesOn(i)
           \/ Registers(t) \/ BeginsReport(t) \/ EndsReport(t)
           \/ \E j \in Ingests, r \in Streams : StreamFails(t, j, r)
    PROVE  StorageAside
  <1>1. ASSUME UNCHANGED mainVars \/ main' = "crashed", UNCHANGED growing,
               Storage \in there' <=> Storage \in there
        PROVE  StorageAside
    BY <1>1 DEF StorageAside, Stopped, mainVars
  <1>2. ASSUME UNCHANGED mainVars \/ main' = "crashed", UNCHANGED growing, UNCHANGED there
        PROVE  StorageAside
    BY <1>1, <1>2
  <1>3. ASSUME NEW k, NEW j, NEW used, NEW freed, freed \in {{}, {Params(<<k, j>>)}},
               UsesAndFrees(<<k, j>>, used, freed)
        PROVE  Storage \in there' <=> Storage \in there
    <2>1. Storage # Params(<<k, j>>)
      BY OthersAreDistinct
    <2>2. QED
      BY <1>3, <2>1 DEF UsesAndFrees
  <1>4. ASSUME NEW k, NEW j, NEW used, NEW freed, freed \in {{}, {Params(<<k, j>>)}},
               Ends(<<k, j>>, used, freed)
        PROVE  StorageAside
    BY <1>1, <1>3, <1>4 DEF Ends, reportVars
  <1>5. CASE SocketReceives(i) \/ IngestOpens(i) \/ IngestReadsAll(i) \/ IngestTakesForEnd(i)
    BY <1>2, <1>5 DEF SocketReceives, IngestOpens, IngestReadsAll, IngestTakesForEnd, Uses, shared,
       reportVars
  <1>6. CASE SocketSeesDisabled(i) \/ SocketFails(i) \/ PrereadEnds(i)
    BY <1>4, <1>6 DEF SocketSeesDisabled, SocketFails, PrereadEnds
  <1>7. CASE PushNull(i, s) \/ AnalysisTakesNull(s)
    BY <1>2, <1>7 DEF PushNull, AnalysisTakesNull, Uses, reportVars
  <1>8. CASE IngestFrees(i)
    BY <1>1, <1>3, <1>8 DEF IngestFrees, shared, reportVars
  <1>9. CASE AnalysisEnds(s)
    BY <1>4, <1>9 DEF AnalysisEnds
  <1>10. CASE IngestMeetsAbsent(i) \/ PushNullToAbsent(i, s)
    BY <1>2, <1>10 DEF IngestMeetsAbsent, PushNullToAbsent, Uses, shared, reportVars
  <1>11. CASE IngestGoesOn(i)
    <2>1. main' = "crashed" /\ UNCHANGED growing
      BY <1>11 DEF IngestGoesOn, shared, reportVars
    <2>2. Storage \in there' <=> Storage \in there
      BY <1>11, RegisterThings DEF IngestGoesOn
    <2>3. QED
      BY <1>1, <2>1, <2>2
  <1>12. CASE Registers(t)
    <2>1. UNCHANGED mainVars /\ UNCHANGED growing
      BY <1>12 DEF Registers, shared, reportVars
    <2>2. Storage \in there' <=> Storage \in there
      BY <1>12, RegisterThings DEF Registers
    <2>3. QED
      BY <1>1, <2>1, <2>2
  <1>13. CASE BeginsReport(t) \/ EndsReport(t)
    BY <1>2, <1>13 DEF BeginsReport, EndsReport, Uses, Log!BeginAdd, Log!EndAdd
  <1>14. ASSUME NEW j \in Ingests, NEW r \in Streams, StreamFails(t, j, r) PROVE StorageAside
    BY <1>2, <1>14 DEF StreamFails, Uses, reportVars
  <1>15. QED
    BY <1>5, <1>6, <1>7, <1>8, <1>9, <1>10, <1>11, <1>12, <1>13, <1>14

\* The storage of the lists is there when nobody moves it, and freed with the lists.
LEMMA StorageStep == ASSUME EntryInv, PlaceInv, StorageOK, [Next]_vars PROVE StorageOK'
  <1>1. UNCHANGED peek
    BY OptionsStay DEF options
  <1>2. ASSUME StorageAside PROVE StorageOK'
    BY <1>1, <1>2 DEF StorageAside, StorageOK, ListsHeld, Stopped
  <1>3. CASE UNCHANGED vars
    BY <1>2, <1>3 DEF vars, mainVars, memory, shared, reportVars, StorageAside
  <1>4. CASE reportCleanup
    <2>1. ~ Stopped /\ main' = "close log" /\ there' = there \ {Lists, Storage}
      BY <1>4 DEF reportCleanup, Goes, UsesAndFrees, Stopped
    <2>2. QED
      BY <2>1 DEF StorageOK, ListsHeld
  <1>5. ASSUME NEW t \in Reporters, MovesStorage(t) PROVE StorageOK'
    <2>1. growing' = growing \cup {t} /\ there' = there \ {Storage}
      BY <1>5 DEF MovesStorage, Log!BeginGrow, UsesAndFrees
    <2>2. QED
      BY <2>1 DEF StorageOK
  <1>6. ASSUME NEW t \in Reporters, StorageMoved(t) PROVE StorageOK'
    <2>1. growing # {} /\ there' = there \cup {Storage} /\ UNCHANGED main /\ Alive
      BY <1>6 DEF StorageMoved, Log!EndGrow, mainVars
    <2>2. ASSUME ~ ListsHeld, ~ peek PROVE FALSE
      BY <2>1, <2>2, NobodyAdds DEF ListsHeld, Freed
    <2>3. QED
      BY <1>1, <2>1, <2>2 DEF StorageOK, ListsHeld
  <1>7. (\E s \in Streams : TRUE) /\ (\E i \in Ingests : TRUE) /\ (\E t \in Threads : TRUE)
    <2>1. 0 \in Ingests /\ 0 \in Streams
      BY FirstIndex
    <2>2. <<"socket", 0>> \in Threads
      BY <2>1 DEF Threads
    <2>3. QED
      BY <2>1, <2>2
  <1>8. CASE MainGoesOn \/ Menu \/ FatalError
    BY <1>2, <1>4, <1>8, MainStorage
  <1>9. ASSUME NEW i \in Ingests, NEW s \in Streams, NEW t \in Threads,
               \/ SocketReceives(i) \/ SocketSeesDisabled(i) \/ SocketFails(i) \/ PrereadEnds(i)
               \/ IngestOpens(i) \/ IngestReadsAll(i) \/ IngestTakesForEnd(i) \/ PushNull(i, s)
               \/ IngestFrees(i) \/ AnalysisTakesNull(s) \/ AnalysisEnds(s)
               \/ IngestMeetsAbsent(i) \/ PushNullToAbsent(i, s) \/ IngestGoesOn(i)
               \/ Registers(t) \/ BeginsReport(t) \/ EndsReport(t)
               \/ \E j \in Ingests, r \in Streams : StreamFails(t, j, r)
        PROVE  StorageOK'
    BY <1>2, <1>9, ThreadStorage
  <1>10. QED
    BY <1>3, <1>5, <1>6, <1>7, <1>8, <1>9, ReportersAssumption
       DEF Next, IngestGoesToItsEnd, AnalysisGoesToItsEnd

\* What is excused stays so.
LEMMA StaleKept == ASSUME IInv, EntryInv, PlaceInv, MemInv, [Next]_vars PROVE StaleOK'
  <1>1. UNCHANGED <<mode, peek>>
    BY OptionsStay DEF options
  <1>2. \A i \in Ingests : pc[<<"ingest", i>>] = "unstopped" => pc'[<<"ingest", i>>] = "unstopped"
    BY UnstoppedStays
  <1>3. \A u : Excused(u) => Excused(u)'
    BY <1>1, <1>2 DEF Excused, Lists, Params, Storage, Entry
  <1>4. \A u \in stale' : u \in stale \/ Excused(u)
    BY StaleStep
  <1>5. QED
    BY <1>3, <1>4 DEF MemInv, StaleOK

-----------------------------------------------------------------------------
\* What is allocated stays what it should be.

\* The steps of the main thread that neither allocate nor free.
LEMMA QuietMemory ==
    ASSUME IInv, PlaceInv, MemoryOK, SameStreams,
           \/ prereadFiles \/ printStreamInfo \/ ClearBegins \/ ClearEmpties \/ ChooseExit
           \/ analyzeResults \/ MainReturns \/ waitForPreReadStreamIngestToExit
           \/ waitForSocketReceiveThreadsToExit \/ waitForThreadsToExit \/ ClearResets
           \/ DisableBuffers
    PROVE  MemoryOK'
  <1>0. UNCHANGED there => SameThings
    BY DEF SameThings
  <1>1. next \in Nat
    BY DEF IInv, Types
  <1>2. ASSUME NEW from, NEW to, <<from, to>> \in Quiet, from # "free prereads",
               from = "print streams" => (to = "clean up" <=> peek),
               UNCHANGED <<options, pc>>, SameThings, main = from,
               main' = main \/ (main' = to /\ (to = "free prereads" => next' = 0))
        PROVE  MemoryOK'
    <2>1. main = "print streams" => main' # "start analyses" \/ ~ peek
      BY <1>2 DEF Quiet
    <2>2. main = "print streams" => main' # "clean up" \/ peek
      BY <1>2 DEF Quiet
    <2>3. main' = "free prereads" /\ main # "free prereads" => next' = 0
      BY <1>2
    <2>4. \/ main' = main /\ (main = "free prereads" => next' = next)
          \/ <<main, main'>> \in Quiet
      BY <1>2
    <2>5. QED
      BY <1>2, <2>1, <2>2, <2>3, <2>4, QuietMove
  <1>3. ASSUME NEW from, NEW to, <<from, to>> \in Quiet, from \notin {"free prereads", "print streams"},
               to # "free prereads", Goes(from, to), UNCHANGED <<options, pc, there>>
        PROVE  MemoryOK'
    BY <1>0, <1>2, <1>3 DEF Goes
  <1>4. ASSUME NEW from, NEW to, NEW n, <<from, to>> \in Quiet,
               from \notin {"free prereads", "print streams"},
               main = from, Advance(n, to), UNCHANGED <<options, pc, there>>
        PROVE  MemoryOK'
    <2>1. main' = main \/ (main' = to /\ next' = 0)
      BY <1>1, <1>4, Advances
    <2>2. QED
      BY <1>0, <1>2, <1>4, <2>1
  <1>5. CASE printStreamInfo
    <2>1. UNCHANGED <<options, pc, there>> /\ main = "print streams"
      BY <1>5 DEF printStreamInfo, Uses, Goes
    <2>2. main' = IF peek THEN "clean up" ELSE "start analyses"
      BY <1>5 DEF printStreamInfo, Goes
    <2>3. <<main, main'>> \in Quiet
      BY <2>1, <2>2 DEF Quiet
    <2>4. QED
      BY <1>0, <2>1, <2>2, <2>3, QuietMove
  <1>6. CASE prereadFiles
    <2>1. /\ main = "read files" /\ main' = "set up" /\ UNCHANGED <<options, pc>>
          /\ <<main, main'>> \in Quiet
      BY <1>6 DEF prereadFiles, Goes, Quiet
    <2>2. SameThings
      BY <1>6, RegisterThings DEF prereadFiles
    <2>3. QED
      BY <2>1, <2>2, QuietMove
  <1>7. CASE ClearBegins
    <2>1. /\ Goes("menu", "empty list") /\ UNCHANGED <<options, pc, there>>
          /\ <<"menu", "empty list">> \in Quiet
      BY <1>7 DEF ClearBegins, Uses, Quiet
    <2>2. QED
      BY <1>3, <2>1
  <1>8. CASE ClearEmpties
    <2>1. /\ Goes("empty list", "reset flags") /\ UNCHANGED <<options, pc, there>>
          /\ <<"empty list", "reset flags">> \in Quiet
      BY <1>8 DEF ClearEmpties, memory, Quiet
    <2>2. QED
      BY <1>3, <2>1
  <1>9. CASE ChooseExit
    <2>1. /\ Goes("menu", "disable") /\ UNCHANGED <<options, pc, there>>
          /\ <<"menu", "disable">> \in Quiet
      BY <1>9 DEF ChooseExit, memory, Quiet
    <2>2. QED
      BY <1>3, <2>1
  <1>10. CASE analyzeResults
    <2>1. /\ Goes("analyze", "tear down") /\ UNCHANGED <<options, pc, there>>
          /\ <<"analyze", "tear down">> \in Quiet
      BY <1>10 DEF analyzeResults, Uses, Quiet
    <2>2. QED
      BY <1>3, <2>1
  <1>11. CASE MainReturns
    <2>1. /\ Goes("close log", "returned") /\ UNCHANGED <<options, pc, there>>
          /\ <<"close log", "returned">> \in Quiet
      BY <1>11 DEF MainReturns, memory, Quiet
    <2>2. QED
      BY <1>3, <2>1
  <1>12. CASE waitForPreReadStreamIngestToExit
    <2>1. main = "join prereads" /\ Advance(NumIngests, "free prereads") /\ UNCHANGED <<options, pc, there>>
      BY <1>12 DEF waitForPreReadStreamIngestToExit, Joins, memory
    <2>2. main' = main \/ (main' = "free prereads" /\ next' = 0)
      BY <1>1, <2>1, Advances
    <2>3. main' = main \/ <<main, main'>> \in Quiet
      BY <2>1, <2>2 DEF Quiet
    <2>4. QED
      BY <1>0, <2>1, <2>2, <2>3, QuietMove
  <1>13. CASE waitForSocketReceiveThreadsToExit
    <2>1. main = "join sockets" /\ Advance(NumIngests, "join analyses") /\ UNCHANGED <<options, pc, there>>
      BY <1>13 DEF waitForSocketReceiveThreadsToExit, Joins, memory
    <2>2. main' = main \/ (main' = "join analyses" /\ next' = 0)
      BY <1>1, <2>1, Advances
    <2>3. main' = main \/ <<main, main'>> \in Quiet
      BY <2>1, <2>2 DEF Quiet
    <2>4. QED
      BY <1>0, <2>1, <2>2, <2>3, QuietMove
  <1>14. CASE ClearResets
    <2>1. main = "reset flags" /\ Advance(NumIngests, "menu") /\ UNCHANGED <<options, pc, there>>
      BY <1>14 DEF ClearResets, Uses
    <2>2. main' = main \/ (main' = "menu" /\ next' = 0)
      BY <1>1, <2>1, Advances
    <2>3. main' = main \/ <<main, main'>> \in Quiet
      BY <2>1, <2>2 DEF Quiet
    <2>4. QED
      BY <1>0, <2>1, <2>2, <2>3, QuietMove
  <1>15. CASE DisableBuffers
    <2>1. main = "disable" /\ Advance(NumIngests, "join sockets") /\ UNCHANGED <<options, pc, there>>
      BY <1>15 DEF DisableBuffers, Uses
    <2>2. main' = main \/ (main' = "join sockets" /\ next' = 0)
      BY <1>1, <2>1, Advances
    <2>3. main' = main \/ <<main, main'>> \in Quiet
      BY <2>1, <2>2 DEF Quiet
    <2>4. QED
      BY <1>0, <2>1, <2>2, <2>3, QuietMove
  <1>16. CASE waitForThreadsToExit
    <2>1. UNCHANGED <<options, pc, there>>
      BY <1>16 DEF waitForThreadsToExit, Joins, memory
    <2>2. <<"join analyses", "join ingests">> \in Quiet /\ <<"join ingests", "analyze">> \in Quiet
      BY DEF Quiet
    <2>3. \/ main = "join analyses" /\ Advance(NumStreams, "join ingests")
          \/ main = "join ingests" /\ Advance(NumIngests, "analyze")
      BY <1>16 DEF waitForThreadsToExit, Joins
    <2>4. QED
      BY <1>4, <2>1, <2>2, <2>3
  <1>17. QED
    BY <1>5, <1>6, <1>7, <1>8, <1>9, <1>10, <1>11, <1>12, <1>13, <1>14, <1>15, <1>16

\* The steps in which the main thread starts threads.
LEMMA StartsMemory ==
    ASSUME IInv, PlaceInv, MemoryOK, SameStreams,
           startSocketReceiveThreads \/ startThreads_PreReadStreamIngest \/ startThreads
    PROVE  MemoryOK'
  <1>1. ASSUME NEW kind, NEW n, NEW from, NEW to, Starts(kind, n, from, to),
               <<kind, from, to>> \in Kinds, <<kind, next>> \in Threads,
               n \in Nat \ {0}, next \in 0 .. n - 1
        PROVE  MemoryOK'
    <2>1. Advance(n, to)
      BY <1>1 DEF Starts
    <2>2. (next' = next + 1 /\ main' = main) \/ main' = to
      BY <2>1, <1>1, Turn
    <2>3. QED
      BY <1>1, <2>2, StartMemory, Zenon
  <1>2. NumIngests \in Nat \ {0} /\ NumStreams \in Nat \ {0}
    BY TestAppAssumption
  <1>3. main \in IngestLoops => /\ next \in 0 .. NumIngests - 1
                                /\ <<"socket", next>> \in Threads
                                /\ <<"preread", next>> \in Threads
                                /\ <<"ingest", next>> \in Threads
    BY DEF PlaceInv, TurnsOK, Ingests, Threads
  <1>4. main \in StreamLoops => next \in 0 .. NumStreams - 1 /\ <<"analysis", next>> \in Threads
    BY DEF PlaceInv, TurnsOK, Streams, Threads
  <1>5. ASSUME startSocketReceiveThreads PROVE MemoryOK'
    <2>1. /\ Starts("socket", NumIngests, "start sockets", "start prereads")
          /\ <<"socket", "start sockets", "start prereads">> \in Kinds /\ main \in IngestLoops
      BY <1>5 DEF startSocketReceiveThreads, Kinds, Starts, IngestLoops
    <2>2. QED
      BY <1>1, <1>2, <1>3, <2>1, Zenon
  <1>6. ASSUME startThreads_PreReadStreamIngest PROVE MemoryOK'
    <2>1. /\ Starts("preread", NumIngests, "start prereads", "join prereads")
          /\ <<"preread", "start prereads", "join prereads">> \in Kinds /\ main \in IngestLoops
      BY <1>6 DEF startThreads_PreReadStreamIngest, Kinds, Starts, IngestLoops
    <2>2. QED
      BY <1>1, <1>2, <1>3, <2>1, Zenon
  <1>7. ASSUME startThreads PROVE MemoryOK'
    <2>1. CASE Starts("analysis", NumStreams, "start analyses", "start ingests")
      <3>1. /\ <<"analysis", "start analyses", "start ingests">> \in Kinds /\ main \in StreamLoops
        BY <2>1 DEF Kinds, Starts, StreamLoops
      <3>2. QED
        BY <1>1, <1>2, <1>4, <2>1, <3>1, Zenon
    <2>2. ASSUME NEW to \in {"join analyses", "menu"},
                 Starts("ingest", NumIngests, "start ingests", to)
          PROVE  MemoryOK'
      <3>1. <<"ingest", "start ingests", to>> \in Kinds /\ main \in IngestLoops
        BY <2>2 DEF Kinds, Starts, IngestLoops
      <3>2. QED
        BY <1>1, <1>2, <1>3, <2>2, <3>1, Zenon
    <2>3. CASE mode = "file"
      BY <1>7, <2>1, <2>2, <2>3 DEF startThreads
    <2>4. CASE mode # "file"
      BY <1>7, <2>1, <2>2, <2>4 DEF startThreads
    <2>5. QED
      BY <2>3, <2>4
  <1>8. QED
    BY <1>5, <1>6, <1>7

\* The steps in which a thread goes on towards its end.
LEMMA ThreadsMemory ==
    ASSUME IInv, PlaceInv, MemoryOK, SameStreams, NEW i \in Ingests, NEW s \in Streams,
           \/ SocketSeesDisabled(i) \/ SocketFails(i) \/ PrereadEnds(i) \/ IngestOpens(i)
           \/ IngestReadsAll(i) \/ IngestTakesForEnd(i) \/ IngestFrees(i) \/ AnalysisEnds(s)
    PROVE  MemoryOK'
  <1>1. /\ <<"socket", i>> \in Threads /\ <<"preread", i>> \in Threads
        /\ <<"ingest", i>> \in Threads /\ <<"analysis", s>> \in Threads
    BY DEF Threads
  <1>2. ASSUME NEW k, NEW used, <<k, i>> \in Threads, k \in {"socket", "preread"},
               Runs(<<k, i>>), Ends(<<k, i>>, used, {})
        PROVE  MemoryOK'
    <2>1. /\ Alive /\ pc[<<k, i>>] = "running" /\ pc' = [pc EXCEPT ![<<k, i>>] = "ended"]
          /\ UNCHANGED <<options, mainVars>>
      BY <1>2 DEF Runs, Ends
    <2>2. UNCHANGED there
      BY <1>2 DEF Ends, UsesAndFrees
    <2>3. "running" # "none" /\ "ended" # "none"
      OBVIOUS
    <2>4. QED
      BY <1>2, <2>1, <2>2, <2>3, ThreadMemoryMoves, Zenon
  <1>3. CASE SocketSeesDisabled(i)
    BY <1>1, <1>2, <1>3 DEF SocketSeesDisabled
  <1>4. CASE SocketFails(i)
    BY <1>1, <1>2, <1>4 DEF SocketFails
  <1>5. CASE PrereadEnds(i)
    BY <1>1, <1>2, <1>5 DEF PrereadEnds
  <1>6. ASSUME Alive, UNCHANGED <<options, mainVars, there>>, pc[<<"ingest", i>>] \in Owning,
               NEW p, p \in Owning, pc' = [pc EXCEPT ![<<"ingest", i>>] = p]
        PROVE  MemoryOK'
    <2>1. UNCHANGED <<options, mainVars>> /\ UNCHANGED there
      BY <1>6
    <2>2. QED
      BY <1>1, <1>6, <2>1, ThreadMemoryMoves, Zenon
  <1>7. CASE IngestOpens(i)
    <2>1. PICK p \in {"starting", "unopened"} : pc' = [pc EXCEPT ![<<"ingest", i>>] = p]
      BY <1>7 DEF IngestOpens
    <2>2. /\ Alive /\ UNCHANGED <<options, mainVars, there>>
          /\ pc[<<"ingest", i>>] \in Owning /\ p \in Owning
      BY <1>7 DEF IngestOpens, Uses, Owning
    <2>3. QED
      BY <1>6, <2>1, <2>2
  <1>8. CASE IngestReadsAll(i)
    <2>1. /\ Alive /\ UNCHANGED <<options, mainVars, there>>
          /\ pc[<<"ingest", i>>] \in Owning /\ "ending" \in Owning
          /\ pc' = [pc EXCEPT ![<<"ingest", i>>] = "ending"]
      BY <1>8 DEF IngestReadsAll, Runs, Uses, Owning
    <2>2. QED
      BY <1>6, <2>1
  <1>9. CASE IngestTakesForEnd(i)
    <2>1. /\ Alive /\ UNCHANGED <<options, mainVars, there>>
          /\ pc[<<"ingest", i>>] \in Owning /\ "ending" \in Owning
          /\ pc' = [pc EXCEPT ![<<"ingest", i>>] = "ending"]
      BY <1>9 DEF IngestTakesForEnd, Runs, Uses, Owning
    <2>2. QED
      BY <1>6, <2>1
  <1>10. CASE IngestFrees(i)
    <2> DEFINE p == IF pc[<<"ingest", i>>] = "ending" THEN "ended" ELSE "unstopped"
    <2>1. /\ Alive /\ UNCHANGED <<options, mainVars>> /\ p \notin Owning
          /\ there' = there \ {Params(<<"ingest", i>>)}
          /\ pc' = [pc EXCEPT ![<<"ingest", i>>] = p]
      BY <1>10 DEF IngestFrees, UsesAndFrees, Owning
    <2> HIDE DEF p
    <2>2. QED
      BY <1>1, <2>1, ThreadMemoryMoves, Zenon
  <1>11. CASE AnalysisEnds(s)
    <2>1. /\ Alive /\ UNCHANGED <<options, mainVars>>
          /\ there' = there \ {Params(<<"analysis", s>>)}
          /\ pc' = [pc EXCEPT ![<<"analysis", s>>] = "ended"]
      BY <1>11 DEF AnalysisEnds, Ends, Runs, UsesAndFrees
    <2>2. QED
      BY <1>1, <2>1, ThreadMemoryMoves, Zenon
  <1>12. QED
    BY <1>3, <1>4, <1>5, <1>7, <1>8, <1>9, <1>10, <1>11

\* The step in which a thread registers its reader.
LEMMA RegisterMemory ==
    ASSUME IInv, PlaceInv, MemoryOK, SameStreams, NEW t \in Threads, Registers(t)
    PROVE  MemoryOK'
  <1>1. PICK i \in Ingests : t = <<"preread", i>> \/ t = <<"ingest", i>>
    BY RegisterPlaces
  <1>2. /\ Alive /\ UNCHANGED <<options, mainVars>> /\ pc[t] = "starting"
        /\ pc' = [pc EXCEPT ![t] = "running"] /\ register_descriptor(t, {Params(t)})
    BY DEF Registers
  <1>3. there' \in {there, there \cup {Entry}}
    BY <1>2, RegisterThings
  <1>4. ASSUME NEW k, k = "preread", t = <<k, i>>, NEW p, p = "running" PROVE MemoryOK'
    <2>1. /\ k \in {"socket", "preread"} /\ pc[<<k, i>>] # "none" /\ p # "none"
          /\ there' \in {there, there \cup {Entry}}
      BY <1>2, <1>3, <1>4
    <2>2. <<k, i>> \in Threads /\ pc' = [pc EXCEPT ![<<k, i>>] = p]
      BY <1>2, <1>4
    <2>3. Alive /\ UNCHANGED <<options, mainVars>>
      BY <1>2
    <2>4. QED
      BY <2>1, <2>2, <2>3, ThreadMemoryMoves, Zenon
  <1>5. ASSUME t = <<"ingest", i>> PROVE MemoryOK'
    <2>1. /\ pc[<<"ingest", i>>] \in Owning /\ "running" \in Owning
          /\ pc' = [pc EXCEPT ![<<"ingest", i>>] = "running"]
      BY <1>2, <1>5 DEF Owning
    <2>2. <<"ingest", i>> \in Threads
      BY DEF Threads
    <2>3. QED
      BY <1>2, <1>3, <2>1, <2>2, ThreadMemoryMoves, Zenon
  <1>6. QED
    BY <1>1, <1>4, <1>5

\* Every step leaves allocated what should be, and excused what is used without being there.
LEMMA MemoryStep == ASSUME IInv, EntryInv, PlaceInv, MemInv, [Next]_vars PROVE MemInv'
  <1>0. /\ MemoryOK /\ QueueOK
        /\ (\E s \in Streams : TRUE) /\ (\E i \in Ingests : TRUE)
    BY TestAppAssumption DEF Streams, Ingests, MemInv
  <1>1. QueueOK' /\ (setupQueues \/ SameStreams)
    BY <1>0, QueueMoves
  <1>2. ASSUME setupQueues PROVE MemoryOK'
    BY <1>0, <1>2, MainMemoryMoves
  <1>3. ASSUME SameStreams PROVE MemoryOK'
    <2>1. ASSUME UNCHANGED <<options, mainVars, pc>>, SameThings PROVE MemoryOK'
      <3>1. UNCHANGED <<options, pc>> /\ main' = main /\ next' = next
        BY <2>1 DEF mainVars
      <3>2. QED
        BY <1>0, <1>3, <2>1, <3>1, QuietMove
    <2>2. ASSUME UNCHANGED <<options, mainVars, pc>>, UNCHANGED there PROVE MemoryOK'
      BY <2>1, <2>2 DEF SameThings
    <2>3. ASSUME main' = "crashed" \/ main' = "exited",
                 there' = there \/ there' = there \cup {Entry}
          PROVE  MemoryOK'
      BY <1>0, <2>3 DEF MemoryOK, Things, Stopped
    <2>4. ASSUME UNCHANGED vars PROVE MemoryOK'
      BY <2>2, <2>4 DEF vars, memory
    <2>5. ASSUME MainGoesOn PROVE MemoryOK'
      BY <1>0, <1>3, <2>5, QuietMemory, StartsMemory, MainMemoryMoves, PrereadMemory DEF MainGoesOn
    <2>6. ASSUME Menu PROVE MemoryOK'
      <3>1. ASSUME reportPrint PROVE MemoryOK'
        BY <2>2, <3>1 DEF reportPrint, Uses
      <3>2. ASSUME printIngestStatus PROVE MemoryOK'
        <4>1. CASE SomeAbsent
          BY <2>3, <3>2, <4>1 DEF printIngestStatus, Uses
        <4>2. CASE ~ SomeAbsent
          BY <2>2, <3>2, <4>2 DEF printIngestStatus, Uses, mainVars
        <4>3. QED
          BY <4>1, <4>2
      <3>3. QED
        BY <1>0, <1>3, <2>6, <3>1, <3>2, QuietMemory DEF Menu
    <2>7. ASSUME FatalError PROVE MemoryOK'
      BY <2>3, <2>7 DEF FatalError, memory
    <2>8. ASSUME NEW t \in Reporters,
                 BeginsReport(t) \/ MovesStorage(t) \/ StorageMoved(t) \/ EndsReport(t)
          PROVE  MemoryOK'
      <3>1. CASE BeginsReport(t) \/ EndsReport(t)
        BY <2>2, <3>1 DEF BeginsReport, EndsReport, Uses
      <3>2. CASE MovesStorage(t) \/ StorageMoved(t)
        <4>1. SameThings
          BY <3>2 DEF MovesStorage, StorageMoved, UsesAndFrees, SameThings
        <4>2. QED
          BY <2>1, <3>2, <4>1 DEF MovesStorage, StorageMoved
      <3>3. QED
        BY <2>8, <3>1, <3>2
    <2>9. ASSUME NEW t \in Threads, NEW i \in Ingests, NEW s \in Streams, StreamFails(t, i, s)
          PROVE  MemoryOK'
      BY <2>2, <2>9 DEF StreamFails, Uses
    <2>10. ASSUME NEW i \in Ingests, NEW s \in Streams,
                  SocketReceives(i) \/ PushNull(i, s) \/ AnalysisTakesNull(s)
           PROVE  MemoryOK'
      BY <2>2, <2>10 DEF SocketReceives, PushNull, AnalysisTakesNull, Uses
    <2>11. ASSUME NEW i \in Ingests, NEW s \in Streams,
                  \/ SocketSeesDisabled(i) \/ SocketFails(i) \/ PrereadEnds(i) \/ IngestOpens(i)
                  \/ IngestReadsAll(i) \/ IngestTakesForEnd(i) \/ IngestFrees(i) \/ AnalysisEnds(s)
           PROVE  MemoryOK'
      BY <1>0, <1>3, <2>11, ThreadsMemory
    <2>12. ASSUME NEW i \in Ingests, NEW s \in Streams,
                  IngestMeetsAbsent(i) \/ PushNullToAbsent(i, s)
           PROVE  MemoryOK'
      BY <2>3, <2>12 DEF IngestMeetsAbsent, PushNullToAbsent, Uses
    <2>13. ASSUME NEW i \in Ingests, IngestGoesOn(i) PROVE MemoryOK'
      <3>1. main' = "crashed" /\ there' = there \cup {Entry}
        BY <2>13, RegisterThings DEF IngestGoesOn
      <3>2. QED
        BY <2>3, <3>1
    <2>14. ASSUME NEW t \in Threads, Registers(t) PROVE MemoryOK'
      BY <1>0, <1>3, <2>14, RegisterMemory
    <2>15. QED
      BY <1>0, <2>4, <2>5, <2>6, <2>7, <2>8, <2>9, <2>10, <2>11, <2>12, <2>13, <2>14
         DEF Next, IngestGoesToItsEnd, AnalysisGoesToItsEnd
  <1>4. QED
    BY <1>1, <1>2, <1>3, StorageStep, StaleKept DEF MemInv

\* What main allocates and frees around its threads is used while it is there, but for
\* four things the program is known to use after they were freed, each by the threads
\* that do it: the lists by socket threads that -p leaves, the parameters of a file that
\* cannot be opened, the shared entry of the EBP descriptor when there is more than one
\* source, and the storage of the lists while a thread moves it.  A run that comes to its
\* end has freed all but the parameters of the socket threads and that entry, and a crash
\* has its reason.  For any number of sources and streams, whichever of them are absent,
\* and whatever the threads do meanwhile (ATSTestApp.c, main, runFileIngestMode and
\* runStreamIngestMode; descriptors.c:46-50; varray.c:519-570).
THEOREM MemoryIsThere == Spec => []ThingsStillThere
  <1>1. Init => MemInv
    <2> SUFFICES ASSUME Init PROVE MemInv
      OBVIOUS
    <2>1. PlaceInv /\ there = {Lists, Storage} /\ main = "start" /\ stale = {}
      BY PlaceStart DEF Init
    <2>2. \A t \in Threads : pc[t] = "none"
      BY DEF Init
    <2>3. MainMemory
      BY <2>1, ListsAreDistinct, OthersAreDistinct
         DEF MainMemory, ListsHeld, ResultsHeld, ProgramsHeld, QueuesHeld, Working, Freed
    <2>4. \A k, i : Params(<<k, i>>) \notin there
      BY <2>1, ListsAreDistinct, OthersAreDistinct
    <2>5. ThreadMemory
      <3>1. /\ \A i \in Ingests : /\ <<"socket", i>> \in Threads /\ <<"preread", i>> \in Threads
                                  /\ <<"ingest", i>> \in Threads
            /\ \A s \in Streams : <<"analysis", s>> \in Threads
        BY DEF Threads
      <3>2. "none" \notin Owning
        BY DEF Owning
      <3>3. QED
        BY <2>2, <2>4, <3>1, <3>2 DEF ThreadMemory, PrereadHeld
    <2>6. QueueOK
      <3>1. queue = [p \in Ingests \X Streams |-> "none"]
        BY DEF Init
      <3>2. QED
        BY <3>1 DEF QueueOK
    <2>7. StorageOK
      BY <2>1 DEF StorageOK, ListsHeld
    <2>8. QED
      BY <2>1, <2>3, <2>5, <2>6, <2>7 DEF MemInv, MemoryOK, StaleOK, Things
  <1>2. PlaceInv /\ MemInv => ThingsStillThere
    <2> SUFFICES ASSUME PlaceInv, MemInv PROVE ThingsStillThere
      OBVIOUS
    <2>1. ASSUME NEW u \in stale
          PROVE  \/ u[2] = Lists /\ u[1][1] = "socket" /\ mode = "stream" /\ peek
                 \/ u[2] = Params(u[1]) /\ u[1][1] = "ingest" /\ pc[u[1]] = "unstopped"
                 \/ u[2] = Entry /\ u[1][1] \in {"preread", "ingest"} /\ NumIngests > 1
                 \/ u[2] = Storage /\ (u[1] = Main => mode = "stream")
      <3>1. Excused(u)
        BY DEF MemInv, StaleOK
      <3>2. ASSUME NEW i \in Ingests, u = <<<<"socket", i>>, Lists>>
            PROVE  u[2] = Lists /\ u[1][1] = "socket"
        <4>1. u[1] = <<"socket", i>> /\ u[2] = Lists
          BY <3>2
        <4>2. QED
          BY <4>1
      <3>3. ASSUME NEW i \in Ingests, u = <<<<"ingest", i>>, Params(<<"ingest", i>>)>>
            PROVE  u[1] = <<"ingest", i>> /\ u[2] = Params(u[1]) /\ u[1][1] = "ingest"
        <4>1. u[1] = <<"ingest", i>> /\ u[2] = Params(<<"ingest", i>>)
          BY <3>3
        <4>2. QED
          BY <4>1
      <3>4. ASSUME NEW t, NEW x, u = <<t, x>> PROVE u[1] = t /\ u[2] = x
        BY <3>4
      <3>5. QED
        BY <3>1, <3>2, <3>3, <3>4 DEF Excused
    <2>2. ASSUME main = "returned", ~ peek PROVE there \subseteq SocketParams \cup {Entry}
      <3>1. MainMemory /\ ThreadMemory /\ there \subseteq Things
        BY <2>2 DEF MemInv, MemoryOK, Stopped
      <3>2. /\ Lists \notin there /\ Verdicts \notin there /\ Programs \notin there
            /\ \A q \in Queues \cup Buffers : q \notin there
        BY <2>2, <3>1 DEF MainMemory, ListsHeld, ResultsHeld, ProgramsHeld, QueuesHeld, Working,
           Freed, Queues, Buffers
      <3>3. /\ \A i \in Ingests : /\ Params(<<"preread", i>>) \notin there
                                  /\ Params(<<"ingest", i>>) \notin there
            /\ \A s \in Streams : Params(<<"analysis", s>>) \notin there
        BY <2>2, <3>1 DEF ThreadMemory, PrereadHeld, PlaceInv, WorkerOK, Owning, Working, Stopped
      <3>4. Storage \notin there
        BY <2>2 DEF MemInv, StorageOK, ListsHeld, Stopped
      <3>5. ASSUME NEW t \in Threads, Params(t) \in there PROVE Params(t) \in SocketParams
        <4>1. \/ \E i \in Ingests : t \in {<<"socket", i>>, <<"preread", i>>, <<"ingest", i>>}
              \/ \E s \in Streams : t = <<"analysis", s>>
          BY DEF Threads
        <4>2. PICK i \in Ingests : t = <<"socket", i>>
          BY <3>3, <3>5, <4>1
        <4>3. QED
          BY <4>2 DEF SocketParams
      <3>6. QED
        BY <3>1, <3>2, <3>4, <3>5 DEF Things
    <2>3. CrashOK
      BY DEF PlaceInv
    <2>4. QED
      BY <2>1, <2>2, <2>3 DEF ThingsStillThere, CrashOK
  <1>3. IInv /\ IInv' /\ EntryInv /\ PlaceInv /\ [Next]_vars => PlaceInv'
    BY PlaceStep
  <1>4. IInv /\ EntryInv /\ PlaceInv /\ MemInv /\ [Next]_vars => MemInv'
    BY MemoryStep
  <1>5. QED
    BY StartUp, Step, EntryStart, EntryStep, PlaceStart, <1>1, <1>2, <1>3, <1>4, PTL DEF Spec

=============================================================================
