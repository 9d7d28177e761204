----------------------- MODULE SegmentAnalysisProofs -----------------------
(***************************************************************************)
(* Proofs about SegmentAnalysis, for any number of ingests and streams and *)
(* whatever the ingests find: no analysis thread leaves out a queue that   *)
(* something is still to come from, every queue is drained, and the        *)
(* verdict on a stream is the one on what the ingests found, whatever the  *)
(* schedule.                                                               *)
(***************************************************************************)
EXTENDS SegmentAnalysis, SequenceTheorems, FiniteSetTheorems, WellFoundedInduction, TLAPS

Any == EBPs \cup {NULL}
PassPcs == {"sync", "prune", "round"}

-----------------------------------------------------------------------------
\* The inductive invariant.

\* An ingest thread ends its queues when it has posted all it found.
EndsAfterPosts == \A r \in Rows : ended[r] > 0 => posted[r] = Len(arrivals[r])

\* NULL is in a queue once it was pushed and as long as the analysis thread has
\* not left the row out; it is the last element, and after it comes no other.
EndIsLast(r, c) ==
    LET s == fifo[<<r, c>>].queue
    IN  /\ \A k \in 1 .. Len(s) - 1 : s[k] # NULL
        /\ ended[r] < c => r \notin analysis[c].fifoNotActive
        /\ ended[r] < c /\ s # <<>> => s[Len(s)] # NULL
        /\ ended[r] >= c /\ r \notin analysis[c].fifoNotActive => s # <<>> /\ s[Len(s)] = NULL
        /\ r \in analysis[c].fifoNotActive => s = <<>>

\* Each element is counted when it is pushed and when it is popped.
Counted(r, c) ==
    LET q == fifo[<<r, c>>]
    IN  q.push_counter = q.pop_counter + Len(q.queue)

\* A call waits on the queue of the row the thread is at, and is woken when an
\* element came.
CallIsAtRow(r, c) ==
    LET q == fifo[<<r, c>>]
    IN  /\ q.call = NoCall \/ (/\ analysis[c].row = r
                               /\ analysis[c].pc \in PassPcs
                               /\ q.call.op = OpOf(analysis[c].pc))
        /\ q.call.woken => q.queue # <<>>

\* The row a thread is at is active, and what it peeked at is still there.
RowIsActive(c) ==
    LET a == analysis[c]
        s == fifo[<<a.row, c>>].queue
    IN  /\ a.row \in Rows => a.row \notin a.fifoNotActive
        /\ a.pc \in {"sync_end", "prune_end"} => a.row \in Rows /\ s # <<>> /\ s[1] = NULL
        /\ a.pc = "prune_pop" => a.row \in Rows /\ s # <<>> /\ s[1] # NULL
        /\ a.pc = "done" => a.row \notin Rows

\* In a round without an EBP every row passed so far is left out.
RoundSkipsNone(c) ==
    LET a == analysis[c]
    IN  /\ a.pc = "round" /\ ~a.more => \A r \in Rows : r < a.row => r \in a.fifoNotActive
        /\ a.pc = "done" => Rows \subseteq a.fifoNotActive

IInv == /\ TypeOK
        /\ EndsAfterPosts
        /\ \A r \in Rows, c \in Streams : EndIsLast(r, c) /\ Counted(r, c) /\ CallIsAtRow(r, c)
        /\ \A c \in Streams : RowIsActive(c) /\ RoundSkipsNone(c)

-----------------------------------------------------------------------------
\* The next row.

\* A set of numbers that is not empty has a least one.
LEMMA HasMin == ASSUME NEW T, T \subseteq Nat, T # {}
                PROVE  \E x \in T : \A y \in T : x <= y
  <1> DEFINE R == OpToRel(<, Nat)
  <1>1. IsWellFoundedOn(R, Nat)
    BY NatLessThanWellFounded, Zenon
  <1>2. R = {ss \in Nat \X Nat : ss[1] < ss[2]}
    BY Zenon DEF OpToRel
  <1> HIDE DEF R
  <1>3. \A x, y \in Nat : <<y, x>> \in R <=> y < x
    BY <1>2
  <1>4. PICK x \in T : \A y \in T : ~(<<y, x>> \in R)
    BY <1>1, WFMin, Zenon
  <1>5. ASSUME NEW y \in T PROVE x <= y
    <2>1. ~(y < x) /\ x \in Nat /\ y \in Nat
      BY <1>3, <1>4
    <2>2. QED
      BY <2>1
  <1>6. QED
    BY <1>5

\* RowAfter goes to the next active row and passes over none.
LEMMA NextActive ==
    ASSUME NEW i \in 0 .. NumFiles, NEW off \in SUBSET Rows
    PROVE  /\ RowAfter(i, off) \in i + 1 .. NumFiles + 1
           /\ RowAfter(i, off) \in Rows => RowAfter(i, off) \notin off
           /\ \A j \in Rows : i < j /\ j < RowAfter(i, off) => j \in off
  <1> DEFINE active == {j \in Rows : j > i /\ j \notin off}
             next == RowAfter(i, off)
  <1>0. NumFiles \in Nat /\ i \in Nat
    BY AnalysisAssumption
  <1>1. CASE active = {}
    <2>1. next = NumFiles + 1
      BY <1>1 DEF RowAfter
    <2>2. next \notin Rows /\ next \in i + 1 .. NumFiles + 1
      BY <1>0, <2>1 DEF Rows
    <2>3. \A j \in Rows : i < j => j \in off
      BY <1>0, <1>1 DEF Rows
    <2>4. QED
      BY <2>2, <2>3
  <1>2. CASE active # {}
    <2>1. next = Min(active)
      BY <1>2 DEF RowAfter
    <2>2. \E x \in active : \A y \in active : x <= y
      <3>1. active \subseteq Nat
        BY DEF Rows
      <3> HIDE DEF active
      <3>2. QED
        BY <1>2, <3>1, HasMin
    <2>3. next \in active /\ \A y \in active : next <= y
      <3> HIDE DEF active, next
      <3>1. QED
        BY <2>1, <2>2 DEF Min
    <2>4. next \in Rows /\ next > i /\ next \notin off
      BY <2>3
    <2>5. next \in Nat
      BY <2>4 DEF Rows
    <2>6. ASSUME NEW j \in Rows, i < j, j < next PROVE j \in off
      <3>1. j \in active => next <= j
        BY <2>3
      <3>2. j \in Nat
        BY DEF Rows
      <3> HIDE DEF next
      <3>3. QED
        BY <1>0, <2>5, <2>6, <3>1, <3>2
    <2>7. next \in i + 1 .. NumFiles + 1
      <3> HIDE DEF next
      <3>1. QED
        BY <1>0, <2>4, <2>5 DEF Rows
    <2>8. QED
      BY <2>4, <2>6, <2>7
  <1>3. QED
    BY <1>1, <1>2

-----------------------------------------------------------------------------
\* What the operations do to a queue.

QueueState == [queue : Seq(Any), push_counter : Nat, pop_counter : Nat, call : Calls]

\* A queue of a row and a stream, and what is in it.
LEMMA QueueFacts ==
    ASSUME TypeOK, NEW q \in Queues
    PROVE  /\ fifo \in [Queues -> QueueState]
           /\ fifo[q] \in QueueState
           /\ fifo[q].queue \in Seq(Any)
           /\ Len(fifo[q].queue) \in Nat
           /\ fifo[q].queue # <<>> => /\ Len(fifo[q].queue) > 0
                                      /\ fifo[q].queue[1] \in Any
           /\ fifo[q].queue = <<>> => Len(fifo[q].queue) = 0
           /\ fifo[q].push_counter \in Nat /\ fifo[q].pop_counter \in Nat
           /\ fifo[q].call \in Calls
  <1>1. fifo \in [Queues -> QueueState]
    BY DEF TypeOK, FifoTypeOK, QueueState, Any
  <1>2. fifo[q] \in QueueState
    BY <1>1
  <1>3. fifo[q].queue \in Seq(Any)
    BY <1>2 DEF QueueState
  <1>4. Len(fifo[q].queue) \in Nat
    BY <1>3, LenProperties
  <1>5. fifo[q].queue # <<>> => Len(fifo[q].queue) > 0
    BY <1>3, <1>4, EmptySeq
  <1>6. fifo[q].queue # <<>> => fifo[q].queue[1] \in Any
    <2>1. fifo[q].queue # <<>> => 1 \in 1 .. Len(fifo[q].queue)
      BY <1>4, <1>5
    <2>2. QED
      BY <1>3, <2>1, ElementOfSeq
  <1>7. QED
    BY <1>1, <1>2, <1>3, <1>4, <1>5, <1>6, EmptySeq DEF QueueState

\* A push adds one element at the end of its queue, counts it and wakes the
\* call that waits there.
LEMMA PushStep ==
    ASSUME TypeOK, NEW q \in Queues, NEW e \in Any, fifo_push(q, e)
    PROVE  /\ FifoTypeOK'
           /\ \A p \in Queues : p # q => fifo'[p] = fifo[p]
           /\ fifo'[q].queue = Append(fifo[q].queue, e)
           /\ fifo'[q].queue # <<>>
           /\ fifo'[q].push_counter = fifo[q].push_counter + 1
           /\ fifo'[q].pop_counter = fifo[q].pop_counter
           /\ fifo'[q].call = NoCall <=> fifo[q].call = NoCall
           /\ fifo'[q].call.op = fifo[q].call.op
  <1>1. /\ fifo \in [Queues -> QueueState] /\ fifo[q].queue \in Seq(Any)
        /\ fifo[q].push_counter \in Nat /\ fifo[q].pop_counter \in Nat
        /\ fifo[q].call \in Calls
    BY QueueFacts
  <1>2. Append(fifo[q].queue, e) \in Seq(Any) /\ Append(fifo[q].queue, e) # <<>>
    BY <1>1, AppendProperties
  <1>3. /\ CallAfterSignal(fifo[q].call) \in Calls
        /\ CallAfterSignal(fifo[q].call) = NoCall <=> fifo[q].call = NoCall
        /\ CallAfterSignal(fifo[q].call).op = fifo[q].call.op
    BY <1>1 DEF CallAfterSignal, Calls, NoCall
  <1>4. AfterPush(fifo[q], e) \in QueueState
    BY <1>1, <1>2, <1>3 DEF AfterPush, Queued, QueueState
  <1>5. fifo' = [fifo EXCEPT ![q] = AfterPush(fifo[q], e)]
    BY DEF fifo_push
  <1>6. fifo' \in [Queues -> QueueState] /\ fifo'[q] = AfterPush(fifo[q], e)
    BY <1>1, <1>4, <1>5
  <1>7. FifoTypeOK'
    BY <1>6 DEF FifoTypeOK, QueueState, Any
  <1>8. \A p \in Queues : p # q => fifo'[p] = fifo[p]
    BY <1>1, <1>5
  <1>9. QED
    BY <1>2, <1>3, <1>6, <1>7, <1>8 DEF AfterPush, Queued

\* A peek or a pop that goes on delivers the first element, which is there when
\* a woken call has something to take; a pop takes it and counts it.
LEMMA TakeStep ==
    ASSUME TypeOK, NEW q \in Queues, NEW op \in {"peek", "pop"}, fifo_pop_peek(q, op),
           fifo[q].call.woken => fifo[q].queue # <<>>
    PROVE  /\ FifoTypeOK'
           /\ \A p \in Queues : p # q => fifo'[p] = fifo[p]
           /\ fifo[q].queue # <<>>
           /\ Oldest(q) = fifo[q].queue[1]
           /\ fifo'[q].queue = IF op = "peek" THEN fifo[q].queue ELSE Tail(fifo[q].queue)
           /\ fifo'[q].push_counter = fifo[q].push_counter
           /\ fifo'[q].pop_counter = IF op = "peek" THEN fifo[q].pop_counter
                                     ELSE fifo[q].pop_counter + 1
           /\ fifo'[q].call = NoCall
  <1>1. /\ fifo \in [Queues -> QueueState] /\ fifo[q].queue \in Seq(Any)
        /\ fifo[q].push_counter \in Nat /\ fifo[q].pop_counter \in Nat
    BY QueueFacts
  <1>2. fifo[q].queue # <<>> /\ fifo' = [fifo EXCEPT ![q] = AfterCall(fifo[q], op)]
    BY DEF fifo_pop_peek, Proceeds
  <1>3. Oldest(q) = fifo[q].queue[1]
    BY <1>1, <1>2 DEF Oldest
  <1>4. Tail(fifo[q].queue) \in Seq(Any)
    BY <1>1, <1>2, HeadTailProperties
  <1>5. NoCall \in Calls
    BY DEF Calls
  <1>6. AfterCall(fifo[q], op) \in QueueState
    BY <1>1, <1>4, <1>5 DEF AfterCall, CountPop, QueueState
  <1>7. fifo' \in [Queues -> QueueState] /\ fifo'[q] = AfterCall(fifo[q], op)
    BY <1>1, <1>2, <1>6
  <1>8. FifoTypeOK'
    BY <1>7 DEF FifoTypeOK, QueueState, Any
  <1>9. \A p \in Queues : p # q => fifo'[p] = fifo[p]
    BY <1>1, <1>2
  <1>10. QED
    BY <1>2, <1>3, <1>7, <1>8, <1>9 DEF AfterCall, CountPop

\* A call on an empty queue waits there and changes nothing else.
LEMMA WaitStep ==
    ASSUME TypeOK, NEW q \in Queues, NEW op \in {"peek", "pop"}, fifo_waits(q, op)
    PROVE  /\ FifoTypeOK'
           /\ \A p \in Queues : p # q => fifo'[p] = fifo[p]
           /\ fifo[q].queue = <<>> /\ fifo'[q].queue = <<>>
           /\ fifo'[q].push_counter = fifo[q].push_counter
           /\ fifo'[q].pop_counter = fifo[q].pop_counter
           /\ fifo'[q].call = [op |-> op, woken |-> FALSE]
  <1>1. /\ fifo \in [Queues -> QueueState] /\ fifo[q].queue \in Seq(Any)
        /\ fifo[q].push_counter \in Nat /\ fifo[q].pop_counter \in Nat
    BY QueueFacts
  <1> DEFINE call == [op |-> op, woken |-> FALSE]
  <1>2. call \in Calls
    BY DEF Calls
  <1>3. fifo' = [fifo EXCEPT ![q] = WithCall(fifo[q], call)] /\ fifo[q].queue = <<>>
    BY DEF fifo_waits
  <1>4. WithCall(fifo[q], call) \in QueueState
    BY <1>1, <1>2 DEF WithCall, QueueState
  <1>5. fifo' \in [Queues -> QueueState] /\ fifo'[q] = WithCall(fifo[q], call)
    BY <1>1, <1>3, <1>4
  <1>6. FifoTypeOK'
    BY <1>5 DEF FifoTypeOK, QueueState, Any
  <1>7. \A p \in Queues : p # q => fifo'[p] = fifo[p]
    BY <1>1, <1>3
  <1>8. QED
    BY <1>3, <1>5, <1>6, <1>7 DEF WithCall

-----------------------------------------------------------------------------
\* The parts of the invariant about one queue and about one thread.

QueueOK(r, c)  == EndIsLast(r, c) /\ Counted(r, c) /\ CallIsAtRow(r, c)
ThreadOK(c)    == RowIsActive(c) /\ RoundSkipsNone(c)

\* What the invariant says of them one by one.
LEMMA InvParts ==
    ASSUME IInv
    PROVE  /\ TypeOK /\ EndsAfterPosts
           /\ \A r \in Rows, c \in Streams : QueueOK(r, c) /\ <<r, c>> \in Queues
           /\ \A c \in Streams : ThreadOK(c)
  BY DEF IInv, QueueOK, ThreadOK, Queues

\* A queue that no step touches, of a thread that does not move, stays as it is.
LEMMA Elsewhere ==
    ASSUME NEW r, NEW c, QueueOK(r, c), fifo'[<<r, c>>] = fifo[<<r, c>>],
           analysis'[c] = analysis[c], (ended'[r] < c) = (ended[r] < c),
           (ended'[r] >= c) = (ended[r] >= c)
    PROVE  QueueOK(r, c)'
  BY DEF QueueOK, EndIsLast, Counted, CallIsAtRow

\* All threads start at their first rows with empty queues.
LEMMA InitInv == Init => IInv
  <1> SUFFICES ASSUME Init PROVE IInv
    OBVIOUS
  <1>1. /\ 1 \in 1 .. NumFiles + 1 /\ 1 \in Rows /\ 0 \in 0 .. NumStreams
        /\ NULL \in EBPs \cup {NULL} /\ {} \in SUBSET Rows /\ FALSE \in BOOLEAN
    BY AnalysisAssumption DEF Rows
  <1>2. <<>> \in Seq(EBPs \cup {NULL}) /\ Len(<<>>) = 0 /\ NoCall \in Calls
    BY EmptySeq DEF Calls
  <1>3. TypeOK
    <2>1. FifoTypeOK
      BY <1>2 DEF Init, FifoTypeOK, fifo_create
    <2>2. arrivals \in Arrivals /\ arrivals \in [Rows -> Seq([stream : Streams, ebp : EBPs])]
      BY AnalysisAssumption DEF Init
    <2>3. \A r \in Rows : Len(arrivals[r]) \in Nat
      BY <2>2, LenProperties
    <2>4. posted \in [Rows -> Nat] /\ \A r \in Rows : posted[r] <= Len(arrivals[r])
      BY <2>3 DEF Init
    <2>5. ended \in [Rows -> 0 .. NumStreams] /\ analysis \in [Streams -> PassState]
      BY <1>1 DEF Init, PassState
    <2>6. /\ lastPTS \in [Queues -> [Partitions -> Nat]]
          /\ streamPassFail \in [Queues -> BOOLEAN]
      BY <1>1 DEF Init
    <2>7. QED
      BY <2>1, <2>2, <2>4, <2>5, <2>6 DEF TypeOK
  <1>4. EndsAfterPosts
    BY DEF Init, EndsAfterPosts
  <1>5. ASSUME NEW r \in Rows, NEW c \in Streams
        PROVE  EndIsLast(r, c) /\ Counted(r, c) /\ CallIsAtRow(r, c)
    <2>1. fifo[<<r, c>>] = fifo_create /\ ended[r] = 0 /\ analysis[c].fifoNotActive = {}
      BY DEF Init, Queues
    <2>2. c > 0 /\ c \in Nat
      BY DEF Streams
    <2>3. fifo[<<r, c>>].queue = <<>> /\ fifo[<<r, c>>].call = NoCall /\ ~NoCall.woken
      BY <2>1 DEF fifo_create, NoCall
    <2>4. EndIsLast(r, c)
      BY <1>2, <2>1, <2>2, <2>3 DEF EndIsLast
    <2>5. Counted(r, c)
      BY <1>2, <2>1 DEF Counted, fifo_create
    <2>6. CallIsAtRow(r, c)
      BY <2>3 DEF CallIsAtRow
    <2>7. QED
      BY <2>4, <2>5, <2>6
  <1>6. ASSUME NEW c \in Streams PROVE RowIsActive(c) /\ RoundSkipsNone(c)
    BY DEF Init, RowIsActive, RoundSkipsNone
  <1>7. QED
    BY <1>3, <1>4, <1>5, <1>6 DEF IInv

-----------------------------------------------------------------------------
\* The ingest threads.

\* A push on a queue leaves what its analysis thread knows of its head true.
LEMMA PushKeepsThreads ==
    ASSUME TypeOK, NEW q \in Queues, NEW e \in Any, fifo_push(q, e), UNCHANGED analysis,
           NEW c \in Streams, ThreadOK(c)
    PROVE  ThreadOK(c)'
  <1> DEFINE p == <<analysis[c].row, c>>
  <1>1. RoundSkipsNone(c)'
    BY DEF ThreadOK, RoundSkipsNone
  <1>2. CASE analysis[c].row \in Rows
    <2>1. p \in Queues
      BY <1>2 DEF Queues
    <2>2. fifo[p].queue # <<>> => fifo'[p].queue # <<>> /\ fifo'[p].queue[1] = fifo[p].queue[1]
      <3>1. CASE p = q
        <4>1. fifo[q].queue \in Seq(Any) /\ Len(fifo[q].queue) \in Nat
              /\ (fifo[q].queue # <<>> => Len(fifo[q].queue) > 0)
          BY QueueFacts
        <4>2. fifo'[q].queue = Append(fifo[q].queue, e) /\ fifo'[q].queue # <<>>
          BY PushStep
        <4>3. fifo[q].queue # <<>> => Append(fifo[q].queue, e)[1] = fifo[q].queue[1]
          BY <4>1, AppendProperties
        <4>4. QED
          BY <3>1, <4>2, <4>3
      <3>2. CASE p # q
        BY <2>1, <3>2, PushStep
      <3>3. QED
        BY <3>1, <3>2
    <2>3. QED
      BY <1>1, <1>2, <2>2 DEF ThreadOK, RowIsActive
  <1>3. CASE analysis[c].row \notin Rows
    BY <1>1, <1>3 DEF ThreadOK, RowIsActive
  <1>4. QED
    BY <1>2, <1>3

\* A push keeps the count and the call of its queue in order.
LEMMA PushKeepsQueue ==
    ASSUME TypeOK, NEW r \in Rows, NEW c \in Streams, NEW e \in Any, fifo_push(<<r, c>>, e),
           UNCHANGED analysis, QueueOK(r, c)
    PROVE  Counted(r, c)' /\ CallIsAtRow(r, c)'
  <1> DEFINE q == <<r, c>>
  <1>1. q \in Queues
    BY DEF Queues
  <1>2. /\ fifo[q].queue \in Seq(Any) /\ Len(fifo[q].queue) \in Nat
        /\ fifo[q].push_counter \in Nat /\ fifo[q].pop_counter \in Nat
    BY <1>1, QueueFacts
  <1>3. Len(Append(fifo[q].queue, e)) = Len(fifo[q].queue) + 1
    BY <1>2, AppendProperties
  <1>4. /\ fifo'[q].queue = Append(fifo[q].queue, e)
        /\ fifo'[q].queue # <<>>
        /\ fifo'[q].push_counter = fifo[q].push_counter + 1
        /\ fifo'[q].pop_counter = fifo[q].pop_counter
        /\ fifo'[q].call = NoCall <=> fifo[q].call = NoCall
        /\ fifo'[q].call.op = fifo[q].call.op
    BY <1>1, PushStep
  <1>5. fifo[q].push_counter = fifo[q].pop_counter + Len(fifo[q].queue)
    BY DEF QueueOK, Counted
  <1>6. Counted(r, c)'
    <2>1. fifo[q].push_counter + 1 = fifo[q].pop_counter + (Len(fifo[q].queue) + 1)
      BY <1>2, <1>5
    <2>2. QED
      BY <1>3, <1>4, <2>1 DEF Counted
  <1>7. CallIsAtRow(r, c)'
    BY <1>4 DEF QueueOK, CallIsAtRow
  <1>8. QED
    BY <1>6, <1>7

\* An EBP goes on its queue before the queue was ended.
LEMMA PostInv == ASSUME IInv, NEW r \in Rows, Post(r) PROVE IInv'
  <1> DEFINE a == arrivals[r][posted[r] + 1]
             d == a.stream
             q == <<r, d>>
  <1>1. TypeOK /\ EndsAfterPosts
    BY InvParts
  <1>2. /\ arrivals[r] \in Seq([stream : Streams, ebp : EBPs])
        /\ Len(arrivals[r]) \in Nat /\ posted[r] \in Nat /\ posted[r] < Len(arrivals[r])
    <2>1. arrivals \in [Rows -> Seq([stream : Streams, ebp : EBPs])]
      BY <1>1, AnalysisAssumption DEF TypeOK
    <2>2. Len(arrivals[r]) \in Nat
      BY <2>1, LenProperties
    <2>3. QED
      BY <1>1, <2>1, <2>2 DEF TypeOK, Post
  <1>3. a \in [stream : Streams, ebp : EBPs]
    <2>1. posted[r] + 1 \in 1 .. Len(arrivals[r])
      BY <1>2
    <2>2. QED
      BY <1>2, <2>1, ElementOfSeq
  <1>4. /\ d \in Streams /\ a.ebp \in EBPs /\ a.ebp \in Any /\ a.ebp # NULL
        /\ a.ebp.partitionId \in Partitions /\ q \in Queues
    BY <1>3, AnalysisAssumption DEF Any, Queues
  <1>5. /\ fifo_push(q, a.ebp)
        /\ lastPTS' = IF a.ebp.splice THEN [lastPTS EXCEPT ![q][a.ebp.partitionId] = 0] ELSE lastPTS
        /\ posted' = [posted EXCEPT ![r] = @ + 1]
        /\ UNCHANGED <<arrivals, ended, analysis, streamPassFail>>
    BY DEF Post
  <1> HIDE DEF a
  <1>6. /\ FifoTypeOK'
        /\ \A p \in Queues : p # q => fifo'[p] = fifo[p]
        /\ fifo'[q].queue = Append(fifo[q].queue, a.ebp)
    BY <1>1, <1>4, <1>5, PushStep
  <1>7. TypeOK'
    <2>1. posted' \in [Rows -> Nat] /\ \A i \in Rows : posted'[i] <= Len(arrivals[i])
      BY <1>1, <1>2, <1>5 DEF TypeOK
    <2>2. lastPTS' \in [Queues -> [Partitions -> Nat]]
      BY <1>1, <1>4, <1>5 DEF TypeOK
    <2>3. QED
      BY <1>1, <1>5, <1>6, <2>1, <2>2 DEF TypeOK
  <1>8. ended[r] = 0
    BY <1>1, <1>2 DEF TypeOK, EndsAfterPosts
  <1>9. EndsAfterPosts'
    BY <1>1, <1>5, <1>8 DEF EndsAfterPosts, TypeOK
  <1>10. ASSUME NEW i \in Rows, NEW c \in Streams PROVE QueueOK(i, c)'
    <2>1. QueueOK(i, c) /\ <<i, c>> \in Queues
      BY InvParts
    <2>2. CASE <<i, c>> # q
      BY <1>5, <1>6, <2>1, <2>2, Elsewhere
    <2>3. CASE <<i, c>> = q
      <3>1. i = r /\ c = d /\ c \in Nat /\ c > 0
        BY <2>3 DEF Streams
      <3>2. Counted(r, c)' /\ CallIsAtRow(r, c)'
        BY <1>1, <1>4, <1>5, <2>1, <3>1, PushKeepsQueue
      <3>3. EndIsLast(r, c)'
        <4>1. /\ fifo[q].queue \in Seq(Any) /\ Len(fifo[q].queue) \in Nat
              /\ fifo[q].queue # <<>> => Len(fifo[q].queue) > 0
              /\ fifo[q].queue = <<>> => Len(fifo[q].queue) = 0
          BY <1>1, <1>4, QueueFacts
        <4> DEFINE s == fifo[q].queue
                   t == Append(s, a.ebp)
        <4>2. /\ Len(t) = Len(s) + 1
              /\ \A k \in 1 .. Len(s) : t[k] = s[k]
              /\ t[Len(s) + 1] = a.ebp
          BY <1>4, <4>1, AppendProperties
        <4>3. /\ r \notin analysis[c].fifoNotActive
              /\ \A k \in 1 .. Len(s) - 1 : s[k] # NULL
              /\ s # <<>> => s[Len(s)] # NULL
          BY <1>8, <2>1, <3>1 DEF QueueOK, EndIsLast
        <4>4. \A k \in 1 .. Len(s) : s[k] # NULL
          BY <4>1, <4>3
        <4>5. \A k \in 1 .. Len(t) : t[k] # NULL
          BY <1>4, <4>1, <4>2, <4>4
        <4>6. fifo'[q].queue = t /\ analysis' = analysis /\ ended'[r] = 0
          BY <1>5, <1>6, <1>8
        <4>7. Len(t) \in Nat /\ Len(t) > 0
          BY <4>1, <4>2
        <4> HIDE DEF t
        <4>8. QED
          BY <3>1, <4>3, <4>5, <4>6, <4>7 DEF EndIsLast
      <3>4. QED
        BY <3>1, <3>2, <3>3 DEF QueueOK
    <2>4. QED
      BY <2>2, <2>3
  <1>11. ASSUME NEW c \in Streams PROVE ThreadOK(c)'
    <2>1. ThreadOK(c)
      BY InvParts
    <2>2. QED
      BY <1>1, <1>4, <1>5, <2>1, PushKeepsThreads
  <1>12. QED
    BY <1>7, <1>9, <1>10, <1>11 DEF IInv, QueueOK, ThreadOK

\* NULL goes on a queue once, after all that was posted.
LEMMA CleanUpInv == ASSUME IInv, NEW r \in Rows, CleanUp(r) PROVE IInv'
  <1> DEFINE d == ended[r] + 1
             q == <<r, d>>
  <1>1. TypeOK /\ EndsAfterPosts
    BY InvParts
  <1>2. ended[r] \in Nat /\ ended[r] < NumStreams /\ ended \in [Rows -> 0 .. NumStreams]
    BY <1>1, AnalysisAssumption DEF TypeOK, CleanUp
  <1>3. d \in Streams /\ d \in 0 .. NumStreams /\ q \in Queues /\ NULL \in Any
    BY <1>2, AnalysisAssumption DEF Streams, Queues, Any
  <1>4. /\ fifo_push(q, NULL)
        /\ ended' = [ended EXCEPT ![r] = d]
        /\ posted[r] = Len(arrivals[r])
        /\ UNCHANGED <<arrivals, posted, analysis, lastPTS, streamPassFail>>
    BY DEF CleanUp
  <1>5. /\ FifoTypeOK'
        /\ \A p \in Queues : p # q => fifo'[p] = fifo[p]
        /\ fifo'[q].queue = Append(fifo[q].queue, NULL)
    BY <1>1, <1>3, <1>4, PushStep
  <1>6. ended' \in [Rows -> 0 .. NumStreams] /\ ended'[r] = d
        /\ \A i \in Rows : i # r => ended'[i] = ended[i]
    BY <1>2, <1>3, <1>4
  <1>7. TypeOK'
    BY <1>1, <1>4, <1>5, <1>6 DEF TypeOK
  <1>8. EndsAfterPosts'
    BY <1>1, <1>4, <1>6 DEF EndsAfterPosts
  <1>9. ASSUME NEW i \in Rows, NEW c \in Streams PROVE QueueOK(i, c)'
    <2>1. QueueOK(i, c) /\ <<i, c>> \in Queues /\ c \in Nat
      BY InvParts DEF Streams
    <2>2. CASE <<i, c>> # q
      <3>1. (ended'[i] < c) = (ended[i] < c) /\ (ended'[i] >= c) = (ended[i] >= c)
        <4>1. CASE i = r
          <5>1. c # ended[r] + 1
            BY <2>2, <4>1
          <5>2. (d < c) = (ended[r] < c) /\ (d >= c) = (ended[r] >= c)
            BY <1>2, <2>1, <5>1
          <5>3. QED
            BY <1>6, <4>1, <5>2
        <4>2. CASE i # r
          BY <1>6, <4>2
        <4>3. QED
          BY <4>1, <4>2
      <3>2. QED
        BY <1>4, <1>5, <2>1, <2>2, <3>1, Elsewhere
    <2>3. CASE <<i, c>> = q
      <3>1. i = r /\ c = d /\ ended[r] < c
        BY <1>2, <2>3
      <3>2. Counted(r, c)' /\ CallIsAtRow(r, c)'
        BY <1>1, <1>3, <1>4, <2>1, <3>1, PushKeepsQueue
      <3>3. EndIsLast(r, c)'
        <4>1. /\ fifo[q].queue \in Seq(Any) /\ Len(fifo[q].queue) \in Nat
              /\ fifo[q].queue # <<>> => Len(fifo[q].queue) > 0
              /\ fifo[q].queue = <<>> => Len(fifo[q].queue) = 0
          BY <1>1, <1>3, QueueFacts
        <4> DEFINE s == fifo[q].queue
                   t == Append(s, NULL)
        <4>2. /\ Len(t) = Len(s) + 1
              /\ \A k \in 1 .. Len(s) : t[k] = s[k]
              /\ t[Len(s) + 1] = NULL
          BY <1>3, <4>1, AppendProperties
        <4>3. /\ r \notin analysis[c].fifoNotActive
              /\ \A k \in 1 .. Len(s) - 1 : s[k] # NULL
              /\ s # <<>> => s[Len(s)] # NULL
          BY <2>1, <3>1 DEF QueueOK, EndIsLast
        <4>4. \A k \in 1 .. Len(s) : s[k] # NULL
          BY <4>1, <4>3
        <4>5. \A k \in 1 .. Len(t) - 1 : t[k] # NULL
          BY <4>1, <4>2, <4>4
        <4>6. t # <<>> /\ t[Len(t)] = NULL
          BY <1>3, <4>1, <4>2, AppendProperties
        <4>7. fifo'[q].queue = t /\ analysis' = analysis /\ ended'[r] = c /\ ~(c < c)
          BY <1>4, <1>5, <1>6, <2>1, <3>1
        <4> HIDE DEF t
        <4>8. QED
          BY <2>1, <3>1, <4>3, <4>5, <4>6, <4>7 DEF EndIsLast
      <3>4. QED
        BY <3>1, <3>2, <3>3 DEF QueueOK
    <2>4. QED
      BY <2>2, <2>3
  <1>10. ASSUME NEW c \in Streams PROVE ThreadOK(c)'
    <2>1. ThreadOK(c)
      BY InvParts
    <2>2. QED
      BY <1>1, <1>3, <1>4, <2>1, PushKeepsThreads
  <1>11. QED
    BY <1>7, <1>8, <1>9, <1>10 DEF IInv, QueueOK, ThreadOK

-----------------------------------------------------------------------------
\* The analysis threads.

\* A step of one analysis thread has to keep what is about its own queues and
\* itself.
LEMMA ConsumerInv ==
    ASSUME IInv, NEW c \in Streams, NEW a \in PassState, Set(c, a), UNCHANGED ingestVars,
           FifoTypeOK', \A q \in Queues : q[2] # c => fifo'[q] = fifo[q],
           lastPTS' \in [Queues -> [Partitions -> Nat]], streamPassFail' \in [Queues -> BOOLEAN],
           \A r \in Rows : QueueOK(r, c)', ThreadOK(c)'
    PROVE  IInv'
  <1>1. TypeOK /\ EndsAfterPosts
    BY InvParts
  <1>2. analysis \in [Streams -> PassState] /\ analysis' = [analysis EXCEPT ![c] = a]
    BY <1>1 DEF TypeOK, Set
  <1>3. /\ analysis' \in [Streams -> PassState]
        /\ \A d \in Streams : d # c => analysis'[d] = analysis[d]
    BY <1>2
  <1>4. TypeOK'
    BY <1>1, <1>3 DEF TypeOK, ingestVars
  <1>5. EndsAfterPosts'
    BY <1>1 DEF EndsAfterPosts, ingestVars
  <1>6. ASSUME NEW r \in Rows, NEW d \in Streams PROVE QueueOK(r, d)'
    <2>1. CASE d # c
      <3>1. QueueOK(r, d) /\ fifo'[<<r, d>>] = fifo[<<r, d>>]
        BY <2>1, InvParts
      <3>2. QED
        BY <1>3, <2>1, <3>1, Elsewhere DEF ingestVars
    <2>2. QED
      BY <2>1
  <1>7. ASSUME NEW d \in Streams PROVE ThreadOK(d)'
    <2>1. CASE d # c
      <3>1. ThreadOK(d) /\ analysis'[d] = analysis[d]
        BY <1>3, <2>1, InvParts
      <3>2. CASE analysis[d].row \in Rows
        <4>1. fifo'[<<analysis[d].row, d>>] = fifo[<<analysis[d].row, d>>]
          BY <2>1, <3>2 DEF Queues
        <4>2. QED
          BY <3>1, <4>1 DEF ThreadOK, RowIsActive, RoundSkipsNone
      <3>3. CASE analysis[d].row \notin Rows
        BY <3>1, <3>3 DEF ThreadOK, RowIsActive, RoundSkipsNone
      <3>4. QED
        BY <3>2, <3>3
    <2>2. QED
      BY <2>1
  <1>8. QED
    BY <1>4, <1>5, <1>6, <1>7 DEF IInv, QueueOK, ThreadOK

\* What the thread knows of a row it is not at does not change.
LEMMA OtherRow ==
    ASSUME NEW i, NEW c, QueueOK(i, c), i # analysis[c].row, fifo'[<<i, c>>] = fifo[<<i, c>>],
           UNCHANGED ended,
           i \in analysis'[c].fifoNotActive <=> i \in analysis[c].fifoNotActive
    PROVE  QueueOK(i, c)'
  BY DEF QueueOK, EndIsLast, Counted, CallIsAtRow

\* A peek or a pop is of the queue of the row the thread is at; no other queue
\* changes, and no call of the thread is left.
LEMMA TakenFacts ==
    ASSUME IInv, NEW c \in Streams, analysis[c].row \in Rows, NEW op \in {"peek", "pop"},
           fifo_pop_peek(Queue(c), op)
    PROVE  /\ Queue(c) \in Queues /\ fifo[Queue(c)].queue # <<>>
           /\ Oldest(Queue(c)) = fifo[Queue(c)].queue[1]
           /\ Oldest(Queue(c)) \in Any
           /\ FifoTypeOK'
           /\ \A q \in Queues : q # Queue(c) => fifo'[q] = fifo[q]
           /\ \A q \in Queues : q[2] # c => fifo'[q] = fifo[q]
           /\ fifo'[Queue(c)].queue = IF op = "peek" THEN fifo[Queue(c)].queue
                                      ELSE Tail(fifo[Queue(c)].queue)
           /\ fifo'[Queue(c)].push_counter = fifo[Queue(c)].push_counter
           /\ fifo'[Queue(c)].pop_counter = IF op = "peek" THEN fifo[Queue(c)].pop_counter
                                            ELSE fifo[Queue(c)].pop_counter + 1
           /\ fifo'[Queue(c)].call = NoCall
  <1>1. Queue(c) = <<analysis[c].row, c>> /\ Queue(c) \in Queues
    BY DEF Queue, Queues
  <1>2. fifo[Queue(c)].call.woken => fifo[Queue(c)].queue # <<>>
    BY <1>1, InvParts DEF QueueOK, CallIsAtRow
  <1>3. /\ FifoTypeOK'
        /\ \A p \in Queues : p # Queue(c) => fifo'[p] = fifo[p]
        /\ fifo[Queue(c)].queue # <<>>
        /\ Oldest(Queue(c)) = fifo[Queue(c)].queue[1]
        /\ fifo'[Queue(c)].queue = IF op = "peek" THEN fifo[Queue(c)].queue
                                   ELSE Tail(fifo[Queue(c)].queue)
        /\ fifo'[Queue(c)].push_counter = fifo[Queue(c)].push_counter
        /\ fifo'[Queue(c)].pop_counter = IF op = "peek" THEN fifo[Queue(c)].pop_counter
                                         ELSE fifo[Queue(c)].pop_counter + 1
        /\ fifo'[Queue(c)].call = NoCall
    BY <1>1, <1>2, InvParts, TakeStep
  <1>4. Oldest(Queue(c)) \in Any
    BY <1>1, <1>3, InvParts, QueueFacts
  <1>5. \A q \in Queues : q[2] # c => q # Queue(c)
    BY <1>1
  <1>6. QED
    BY <1>1, <1>3, <1>4, <1>5

\* A peek leaves all the queues in order.
LEMMA PeekKeepsQueues ==
    ASSUME IInv, NEW c \in Streams, analysis[c].row \in Rows, fifo_pop_peek(Queue(c), "peek"),
           UNCHANGED ingestVars, analysis'[c].fifoNotActive = analysis[c].fifoNotActive
    PROVE  \A r \in Rows : QueueOK(r, c)'
  <1> SUFFICES ASSUME NEW r \in Rows PROVE QueueOK(r, c)'
    OBVIOUS
  <1>1. QueueOK(r, c) /\ <<r, c>> \in Queues /\ Queue(c) = <<analysis[c].row, c>>
    BY InvParts DEF Queue
  <1>2. CASE r = analysis[c].row
    <2>1. /\ fifo'[<<r, c>>].queue = fifo[<<r, c>>].queue
          /\ fifo'[<<r, c>>].push_counter = fifo[<<r, c>>].push_counter
          /\ fifo'[<<r, c>>].pop_counter = fifo[<<r, c>>].pop_counter
          /\ fifo'[<<r, c>>].call = NoCall
      BY <1>1, <1>2, TakenFacts
    <2>2. EndIsLast(r, c)' /\ Counted(r, c)'
      BY <1>1, <2>1 DEF QueueOK, EndIsLast, Counted, ingestVars
    <2>3. CallIsAtRow(r, c)'
      BY <2>1 DEF CallIsAtRow, NoCall
    <2>4. QED
      BY <2>2, <2>3 DEF QueueOK
  <1>3. CASE r # analysis[c].row
    <2>1. fifo'[<<r, c>>] = fifo[<<r, c>>]
      BY <1>1, <1>3, TakenFacts
    <2>2. QED
      BY <1>1, <1>3, <2>1, OtherRow DEF ingestVars
  <1>4. QED
    BY <1>2, <1>3

\* What a pop leaves: nothing, or the elements after the first.
LEMMA PopLeaves ==
    ASSUME NEW s \in Seq(Any), s # <<>>
    PROVE  /\ Len(s) \in Nat /\ Len(s) > 0
           /\ Tail(s) \in Seq(Any) /\ Len(Tail(s)) = Len(s) - 1
           /\ \A k \in 1 .. Len(s) - 1 : Tail(s)[k] = s[k + 1]
           /\ Tail(s) = <<>> <=> Len(s) = 1
  <1>1. Len(s) \in Nat /\ Len(s) > 0
    BY EmptySeq, LenProperties
  <1>2. /\ Tail(s) \in Seq(Any) /\ Len(Tail(s)) = Len(s) - 1
        /\ \A k \in 1 .. Len(Tail(s)) : Tail(s)[k] = s[k + 1]
    BY HeadTailProperties
  <1>3. Tail(s) = <<>> <=> Len(Tail(s)) = 0
    BY <1>2, EmptySeq
  <1>4. QED
    BY <1>1, <1>2, <1>3

\* A pop of an EBP leaves all the queues in order: the end of the queue stays.
LEMMA PopKeepsQueues ==
    ASSUME IInv, NEW c \in Streams, analysis[c].row \in Rows, fifo_pop_peek(Queue(c), "pop"),
           Oldest(Queue(c)) # NULL, analysis[c].row \notin analysis[c].fifoNotActive,
           UNCHANGED ingestVars, analysis'[c].fifoNotActive = analysis[c].fifoNotActive
    PROVE  \A r \in Rows : QueueOK(r, c)'
  <1> SUFFICES ASSUME NEW r \in Rows PROVE QueueOK(r, c)'
    OBVIOUS
  <1>1. QueueOK(r, c) /\ <<r, c>> \in Queues /\ Queue(c) = <<analysis[c].row, c>>
    BY InvParts DEF Queue
  <1>2. CASE r = analysis[c].row
    <2> DEFINE q == <<r, c>>
               s == fifo[q].queue
               t == Tail(s)
    <2>1. /\ fifo'[q].queue = t /\ s # <<>> /\ s[1] # NULL
          /\ fifo'[q].push_counter = fifo[q].push_counter
          /\ fifo'[q].pop_counter = fifo[q].pop_counter + 1
          /\ fifo'[q].call = NoCall
      BY <1>1, <1>2, TakenFacts
    <2>2. s \in Seq(Any) /\ fifo[q].pop_counter \in Nat
      BY <1>1, InvParts, QueueFacts
    <2>3. /\ Len(s) \in Nat /\ Len(s) > 0
          /\ t \in Seq(Any) /\ Len(t) = Len(s) - 1
          /\ \A k \in 1 .. Len(s) - 1 : t[k] = s[k + 1]
          /\ t = <<>> <=> Len(s) = 1
      BY <2>1, <2>2, PopLeaves
    <2>4. fifo[q].push_counter = fifo[q].pop_counter + Len(s)
      BY <1>1 DEF QueueOK, Counted
    <2>5. Counted(r, c)'
      <3>1. fifo[q].pop_counter + Len(s) = (fifo[q].pop_counter + 1) + Len(t)
        BY <2>2, <2>3
      <3>2. QED
        BY <2>1, <2>4, <3>1 DEF Counted
    <2>6. EndIsLast(r, c)'
      <3>1. /\ \A k \in 1 .. Len(s) - 1 : s[k] # NULL
            /\ ended[r] < c => s[Len(s)] # NULL
            /\ ended[r] >= c => s[Len(s)] = NULL
        BY <1>1, <1>2, <2>1 DEF QueueOK, EndIsLast
      <3>2. ASSUME NEW k \in 1 .. Len(t) - 1 PROVE t[k] # NULL
        <4>1. k \in 1 .. Len(s) - 1 /\ k + 1 \in 1 .. Len(s) - 1
          BY <2>3
        <4>2. QED
          BY <2>3, <3>1, <4>1, Zenon
      <3>3. t # <<>> => t[Len(t)] = s[Len(s)]
        <4>1. \A n \in Nat : n > 0 /\ n # 1 => n - 1 \in 1 .. n - 1 /\ (n - 1) + 1 = n
          OBVIOUS
        <4>2. ASSUME t # <<>> PROVE t[Len(s) - 1] = s[Len(s)]
          <5>1. Len(s) - 1 \in 1 .. Len(s) - 1 /\ (Len(s) - 1) + 1 = Len(s)
            BY <2>3, <4>1, <4>2, Zenon
          <5>2. t[Len(s) - 1] = s[(Len(s) - 1) + 1]
            BY <2>3, <5>1, Zenon
          <5>3. QED
            BY <5>1, <5>2, Zenon
        <4>3. Len(t) = Len(s) - 1
          BY <2>3
        <4>4. QED
          BY <4>2, <4>3, Zenon
      <3>4. ended[r] >= c => t # <<>>
        BY <2>1, <2>3, <3>1
      <3>5. ended' = ended
        BY DEF ingestVars
      <3> HIDE DEF t, s
      <3>6. QED
        BY <1>2, <2>1, <3>1, <3>2, <3>3, <3>4, <3>5 DEF EndIsLast
    <2>7. CallIsAtRow(r, c)'
      BY <2>1 DEF CallIsAtRow, NoCall
    <2>8. QED
      BY <2>5, <2>6, <2>7 DEF QueueOK
  <1>3. CASE r # analysis[c].row
    <2>1. fifo'[<<r, c>>] = fifo[<<r, c>>]
      BY <1>1, <1>3, TakenFacts
    <2>2. QED
      BY <1>1, <1>3, <2>1, OtherRow DEF ingestVars
  <1>4. QED
    BY <1>2, <1>3

\* A pop of NULL empties the queue for good: nothing comes after it.
LEMMA PopOfEndKeepsQueues ==
    ASSUME IInv, NEW c \in Streams, analysis[c].row \in Rows, fifo_pop_peek(Queue(c), "pop"),
           Oldest(Queue(c)) = NULL, UNCHANGED ingestVars,
           analysis'[c].fifoNotActive = analysis[c].fifoNotActive \cup {analysis[c].row}
    PROVE  \A r \in Rows : QueueOK(r, c)'
  <1> SUFFICES ASSUME NEW r \in Rows PROVE QueueOK(r, c)'
    OBVIOUS
  <1>1. QueueOK(r, c) /\ <<r, c>> \in Queues /\ Queue(c) = <<analysis[c].row, c>>
    BY InvParts DEF Queue
  <1>2. CASE r = analysis[c].row
    <2> DEFINE q == <<r, c>>
               s == fifo[q].queue
    <2>1. /\ fifo'[q].queue = Tail(s) /\ s # <<>> /\ s[1] = NULL
          /\ fifo'[q].push_counter = fifo[q].push_counter
          /\ fifo'[q].pop_counter = fifo[q].pop_counter + 1
          /\ fifo'[q].call = NoCall
      BY <1>1, <1>2, TakenFacts
    <2>2. s \in Seq(Any) /\ fifo[q].pop_counter \in Nat
      BY <1>1, InvParts, QueueFacts
    <2>3. /\ Len(s) \in Nat /\ Len(s) > 0
          /\ Tail(s) = <<>> <=> Len(s) = 1
      BY <2>1, <2>2, PopLeaves
    <2>4. Len(s) = 1 /\ Tail(s) = <<>>
      <3>1. \A k \in 1 .. Len(s) - 1 : s[k] # NULL
        BY <1>1 DEF QueueOK, EndIsLast
      <3>2. ~(1 \in 1 .. Len(s) - 1)
        BY <2>1, <3>1
      <3>3. QED
        BY <2>3, <3>2
    <2>5. ~(ended[r] < c)
      BY <1>1, <2>1, <2>4 DEF QueueOK, EndIsLast
    <2>6. Counted(r, c)'
      <3>1. fifo[q].push_counter = fifo[q].pop_counter + 1
        BY <1>1, <2>4 DEF QueueOK, Counted
      <3>2. Len(Tail(s)) = 0
        BY <2>4, EmptySeq
      <3>3. fifo[q].pop_counter + 1 = (fifo[q].pop_counter + 1) + 0
        BY <2>2
      <3>4. QED
        BY <2>1, <3>1, <3>2, <3>3 DEF Counted
    <2>7. EndIsLast(r, c)'
      <3>1. fifo'[q].queue = <<>> /\ r \in analysis'[c].fifoNotActive /\ ended' = ended
        BY <1>2, <2>1, <2>4 DEF ingestVars
      <3>2. \A k \in 1 .. Len(<<>>) - 1 : FALSE
        OBVIOUS
      <3>3. QED
        BY <2>5, <3>1, <3>2 DEF EndIsLast
    <2>8. CallIsAtRow(r, c)'
      BY <2>1 DEF CallIsAtRow, NoCall
    <2>9. QED
      BY <2>6, <2>7, <2>8 DEF QueueOK
  <1>3. CASE r # analysis[c].row
    <2>1. fifo'[<<r, c>>] = fifo[<<r, c>>]
      BY <1>1, <1>3, TakenFacts
    <2>2. QED
      BY <1>1, <1>3, <2>1, OtherRow DEF ingestVars
  <1>4. QED
    BY <1>2, <1>3

-----------------------------------------------------------------------------
\* How a thread moves from row to row.

\* The thread of a stream has a state of a pass, and a step that sets it gives it
\* the new one.
LEMMA ThreadState ==
    ASSUME IInv, NEW c \in Streams
    PROVE  /\ analysis[c] \in PassState
           /\ \A a : Set(c, a) => analysis'[c] = a
  <1>1. analysis \in [Streams -> PassState]
    BY InvParts DEF TypeOK
  <1>2. QED
    BY <1>1 DEF Set

\* The next row is active, and every row passed over is left out.
LEMMA NextRowFacts ==
    ASSUME NEW b \in PassState, b.row \in Rows
    PROVE  /\ NextRow(b) \in PassState
           /\ NextRow(b).row \in Rows => NextRow(b).row \notin b.fifoNotActive
           /\ \A j \in Rows : b.row < j /\ j < NextRow(b).row => j \in b.fifoNotActive
           /\ NextRow(b).pc = b.pc /\ NextRow(b).more = b.more
           /\ NextRow(b).fifoNotActive = b.fifoNotActive
  <1> DEFINE next == RowAfter(b.row, b.fifoNotActive)
  <1>1. NumFiles \in Nat /\ b.row \in 0 .. NumFiles /\ b.fifoNotActive \in SUBSET Rows
    BY AnalysisAssumption DEF Rows, PassState
  <1>2. /\ next \in b.row + 1 .. NumFiles + 1
        /\ next \in Rows => next \notin b.fifoNotActive
        /\ \A j \in Rows : b.row < j /\ j < next => j \in b.fifoNotActive
    BY <1>1, NextActive
  <1>3. next \in 1 .. NumFiles + 1
    <2> HIDE DEF next
    <2>1. QED
      BY <1>1, <1>2
  <1> HIDE DEF next
  <1>4. NextRow(b) = [b EXCEPT !.row = next]
    BY DEF NextRow, next
  <1>5. NextRow(b) \in PassState /\ NextRow(b).row = next
    BY <1>3, <1>4 DEF PassState
  <1>6. /\ NextRow(b).pc = b.pc /\ NextRow(b).more = b.more
        /\ NextRow(b).fifoNotActive = b.fifoNotActive
    BY <1>4 DEF PassState
  <1>7. QED
    BY <1>2, <1>5, <1>6

\* A pass starts at the first active row.
LEMMA StartPassFacts ==
    ASSUME NEW b \in PassState, NEW pass \in PassPcs
    PROVE  LET a == StartPass(b, pass)
           IN  /\ a \in PassState
               /\ a.row \in Rows => a.row \notin a.fifoNotActive
               /\ \A j \in Rows : j < a.row => j \in a.fifoNotActive
               /\ a.pc = pass /\ a.fifoNotActive = b.fifoNotActive
  <1> DEFINE next == RowAfter(0, b.fifoNotActive)
             a == StartPass(b, pass)
  <1>1. NumFiles \in Nat /\ 0 \in 0 .. NumFiles /\ b.fifoNotActive \in SUBSET Rows
    BY AnalysisAssumption DEF PassState
  <1>2. /\ next \in 0 + 1 .. NumFiles + 1
        /\ next \in Rows => next \notin b.fifoNotActive
        /\ \A j \in Rows : 0 < j /\ j < next => j \in b.fifoNotActive
    BY <1>1, NextActive
  <1>3. next \in 1 .. NumFiles + 1 /\ \A j \in Rows : 0 < j
    <2> HIDE DEF next
    <2>1. QED
      BY <1>1, <1>2 DEF Rows
  <1> HIDE DEF next
  <1>4. a = [b EXCEPT !.pc = pass, !.row = next, !.first = NULL, !.more = FALSE]
    BY DEF StartPass, next
  <1>5. a \in PassState
    BY <1>3, <1>4 DEF PassState, PassPcs
  <1>6. a.row = next /\ a.pc = pass /\ a.fifoNotActive = b.fifoNotActive
    BY <1>4 DEF PassState
  <1> HIDE DEF a
  <1>7. QED
    BY <1>2, <1>3, <1>5, <1>6 DEF a

\* A thread between two queue operations of a pass is at an active row; in a
\* round without an EBP it has passed no row that is active.
LEMMA ThreadInPass ==
    ASSUME NEW c, NEW a, analysis'[c] = a, a.pc \in PassPcs,
           a.row \in Rows => a.row \notin a.fifoNotActive,
           a.pc = "round" /\ ~a.more => \A r \in Rows : r < a.row => r \in a.fifoNotActive
    PROVE  ThreadOK(c)'
  BY DEF ThreadOK, RowIsActive, RoundSkipsNone, PassPcs

\* A step of the thread between two passes touches no queue and keeps them in order.
LEMMA PassEndKeepsQueues ==
    ASSUME IInv, NEW c \in Streams, analysis[c].row > NumFiles,
           UNCHANGED fifo, UNCHANGED ingestVars,
           analysis'[c].fifoNotActive = analysis[c].fifoNotActive
    PROVE  /\ FifoTypeOK' /\ \A r \in Rows : QueueOK(r, c)'
  <1>1. FifoTypeOK'
    BY InvParts DEF TypeOK, FifoTypeOK
  <1>2. ASSUME NEW r \in Rows PROVE QueueOK(r, c)'
    <2>1. QueueOK(r, c)
      BY InvParts
    <2>2. r # analysis[c].row
      BY AnalysisAssumption DEF Rows
    <2>3. QED
      BY <2>1, <2>2, OtherRow DEF ingestVars
  <1>3. QED
    BY <1>1, <1>2

\* A thread starts the next pass.
LEMMA StartPassInv ==
    ASSUME IInv, NEW c \in Streams, analysis[c].row > NumFiles, NEW pass \in PassPcs,
           Set(c, StartPass(analysis[c], pass)), UNCHANGED fifo, Unchecked
    PROVE  IInv'
  <1> DEFINE a == StartPass(analysis[c], pass)
  <1>1. /\ a \in PassState
        /\ a.row \in Rows => a.row \notin a.fifoNotActive
        /\ \A j \in Rows : j < a.row => j \in a.fifoNotActive
        /\ a.pc = pass /\ a.fifoNotActive = analysis[c].fifoNotActive
    BY ThreadState, StartPassFacts
  <1> HIDE DEF a
  <1>2. Set(c, a) /\ analysis'[c] = a
    BY ThreadState DEF a
  <1>3. UNCHANGED ingestVars /\ UNCHANGED lastPTS /\ UNCHANGED streamPassFail
    BY DEF Unchecked
  <1>4. FifoTypeOK' /\ \A r \in Rows : QueueOK(r, c)'
    BY <1>1, <1>2, <1>3, PassEndKeepsQueues
  <1>5. ThreadOK(c)'
    BY <1>1, <1>2, ThreadInPass
  <1>6. /\ lastPTS' \in [Queues -> [Partitions -> Nat]]
        /\ streamPassFail' \in [Queues -> BOOLEAN]
    BY <1>3, InvParts DEF TypeOK
  <1>7. QED
    BY <1>1, <1>2, <1>3, <1>4, <1>5, <1>6, ConsumerInv

-----------------------------------------------------------------------------
\* The actions of an analysis thread.

\* A thread that waits is at the queue it waits for.
LEMMA WaitsInv == ASSUME IInv, NEW c \in Streams, Waits(c) PROVE IInv'
  <1> DEFINE op == OpOf(analysis[c].pc)
             row == analysis[c].row
             q == Queue(c)
  <1>1. /\ row \in Rows /\ fifo_waits(q, op) /\ analysis' = analysis
        /\ UNCHANGED ingestVars /\ UNCHANGED lastPTS /\ UNCHANGED streamPassFail
    BY DEF Waits, Unchecked
  <1>2. q = <<row, c>> /\ q \in Queues /\ op \in {"peek", "pop"}
    BY <1>1 DEF Queue, Queues, OpOf
  <1>3. /\ FifoTypeOK'
        /\ \A p \in Queues : p # q => fifo'[p] = fifo[p]
        /\ fifo[q].queue = <<>> /\ fifo'[q].queue = <<>>
        /\ fifo'[q].push_counter = fifo[q].push_counter
        /\ fifo'[q].pop_counter = fifo[q].pop_counter
        /\ fifo'[q].call = [op |-> op, woken |-> FALSE]
    BY <1>1, <1>2, InvParts, WaitStep
  <1>4. ThreadOK(c) /\ analysis[c] \in PassState
    BY InvParts, ThreadState
  <1>5. analysis[c].pc \in PassPcs
    BY <1>1, <1>2, <1>3, <1>4 DEF ThreadOK, RowIsActive, PassState, PassPcs
  <1>6. Set(c, analysis[c])
    <2>1. analysis \in [Streams -> PassState]
      BY InvParts DEF TypeOK
    <2>2. QED
      BY <1>1, <2>1 DEF Set
  <1>7. ThreadOK(c)'
    <2>1. /\ analysis[c].row \in Rows => analysis[c].row \notin analysis[c].fifoNotActive
          /\ analysis[c].pc = "round" /\ ~analysis[c].more =>
                 \A r \in Rows : r < analysis[c].row => r \in analysis[c].fifoNotActive
      BY <1>4 DEF ThreadOK, RowIsActive, RoundSkipsNone
    <2>2. QED
      BY <1>1, <1>5, <2>1, ThreadInPass
  <1>8. ASSUME NEW r \in Rows PROVE QueueOK(r, c)'
    <2>1. QueueOK(r, c) /\ <<r, c>> \in Queues
      BY InvParts
    <2>2. CASE r = row
      <3>1. EndIsLast(r, c)' /\ Counted(r, c)'
        BY <1>1, <1>2, <1>3, <2>1, <2>2 DEF QueueOK, EndIsLast, Counted, ingestVars
      <3>2. CallIsAtRow(r, c)'
        BY <1>1, <1>2, <1>3, <1>5, <2>2 DEF CallIsAtRow
      <3>3. QED
        BY <3>1, <3>2 DEF QueueOK
    <2>3. CASE r # row
      BY <1>1, <1>2, <1>3, <2>1, <2>3, OtherRow DEF ingestVars
    <2>4. QED
      BY <2>2, <2>3
  <1>9. /\ lastPTS' \in [Queues -> [Partitions -> Nat]]
        /\ streamPassFail' \in [Queues -> BOOLEAN]
    BY <1>1, InvParts DEF TypeOK
  <1>10. \A p \in Queues : p[2] # c => fifo'[p] = fifo[p]
    BY <1>2, <1>3
  <1>11. QED
    BY <1>1, <1>3, <1>4, <1>6, <1>7, <1>8, <1>9, <1>10, ConsumerInv

\* What the three peeks and pops that check nothing share.
LEMMA TakeInv ==
    ASSUME IInv, NEW c \in Streams, analysis[c].row \in Rows, NEW op \in {"peek", "pop"},
           fifo_pop_peek(Queue(c), op), NEW a \in PassState, Set(c, a), Unchecked,
           \A r \in Rows : QueueOK(r, c)', ThreadOK(c)'
    PROVE  IInv'
  <1>1. UNCHANGED ingestVars /\ UNCHANGED lastPTS /\ UNCHANGED streamPassFail
    BY DEF Unchecked
  <1>2. /\ lastPTS' \in [Queues -> [Partitions -> Nat]]
        /\ streamPassFail' \in [Queues -> BOOLEAN]
    BY <1>1, InvParts DEF TypeOK
  <1>3. FifoTypeOK' /\ \A q \in Queues : q[2] # c => fifo'[q] = fifo[q]
    BY TakenFacts
  <1>4. QED
    BY <1>1, <1>2, <1>3, ConsumerInv

\* The first peek at a queue.
LEMMA SyncPeekInv == ASSUME IInv, NEW c \in Streams, SyncPeek(c) PROVE IInv'
  <1> DEFINE b == analysis[c]
             e == Oldest(Queue(c))
             later == [b EXCEPT !.startPTS = IF e.PTS > @ THEN e.PTS ELSE @]
             a == IF e = NULL THEN [b EXCEPT !.pc = "sync_end"] ELSE NextRow(later)
  <1>1. b.pc = "sync" /\ b.row \in Rows /\ fifo_pop_peek(Queue(c), "peek") /\ Unchecked /\ Set(c, a)
    BY DEF SyncPeek, At
  <1>2. b \in PassState /\ analysis'[c] = a /\ ThreadOK(c)
    BY <1>1, InvParts, ThreadState
  <1>3. /\ fifo[Queue(c)].queue # <<>> /\ e = fifo[Queue(c)].queue[1] /\ e \in Any
        /\ fifo'[Queue(c)].queue = fifo[Queue(c)].queue
    BY <1>1, TakenFacts
  <1> HIDE DEF e
  <1>4. CASE e = NULL
    <2>1. a = [b EXCEPT !.pc = "sync_end"]
      BY <1>4
    <2>2. /\ a \in PassState /\ a.pc = "sync_end" /\ a.row = b.row
          /\ a.fifoNotActive = b.fifoNotActive
      BY <1>2, <2>1 DEF PassState
    <2> HIDE DEF a
    <2>3. \A r \in Rows : QueueOK(r, c)'
      BY <1>1, <1>2, <2>2, PeekKeepsQueues DEF Unchecked
    <2>4. ThreadOK(c)'
      <3>1. fifo'[<<a.row, c>>].queue # <<>> /\ fifo'[<<a.row, c>>].queue[1] = NULL
        BY <1>3, <1>4, <2>2 DEF Queue
      <3>2. b.row \notin b.fifoNotActive
        BY <1>1, <1>2 DEF ThreadOK, RowIsActive
      <3>3. QED
        BY <1>1, <1>2, <2>2, <3>1, <3>2 DEF ThreadOK, RowIsActive, RoundSkipsNone
    <2>5. QED
      BY <1>1, <2>2, <2>3, <2>4, TakeInv
  <1>5. CASE e # NULL
    <2>1. a = NextRow(later)
      BY <1>5
    <2>2. e.PTS \in Nat
      BY <1>3, <1>5, AnalysisAssumption DEF Any
    <2>3. (IF e.PTS > b.startPTS THEN e.PTS ELSE b.startPTS) \in Nat
      BY <1>2, <2>2 DEF PassState
    <2>4. /\ later \in PassState /\ later.row = b.row /\ later.pc = "sync"
          /\ later.fifoNotActive = b.fifoNotActive
      BY <1>1, <1>2, <2>3 DEF PassState
    <2> HIDE DEF later
    <2>5. /\ a \in PassState /\ a.pc = "sync" /\ a.fifoNotActive = b.fifoNotActive
          /\ a.row \in Rows => a.row \notin a.fifoNotActive
      BY <1>1, <2>1, <2>4, NextRowFacts
    <2> HIDE DEF a
    <2>6. \A r \in Rows : QueueOK(r, c)'
      BY <1>1, <1>2, <2>5, PeekKeepsQueues DEF Unchecked
    <2>7. ThreadOK(c)'
      BY <1>2, <2>5, ThreadInPass DEF PassPcs
    <2>8. QED
      BY <1>1, <2>5, <2>6, <2>7, TakeInv
  <1>6. QED
    BY <1>4, <1>5

\* A peek that looks for the start.
LEMMA PrunePeekInv == ASSUME IInv, NEW c \in Streams, PrunePeek(c) PROVE IInv'
  <1> DEFINE b == analysis[c]
             e == Oldest(Queue(c))
             stop == IF e = NULL THEN "prune_end" ELSE "prune_pop"
  <1>1. b.pc = "prune" /\ b.row \in Rows /\ fifo_pop_peek(Queue(c), "peek") /\ Unchecked
    BY DEF PrunePeek, At
  <1>2. b \in PassState /\ ThreadOK(c) /\ \A a : Set(c, a) => analysis'[c] = a
    BY InvParts, ThreadState
  <1>3. /\ fifo[Queue(c)].queue # <<>> /\ e = fifo[Queue(c)].queue[1]
        /\ fifo'[Queue(c)].queue = fifo[Queue(c)].queue
    BY <1>1, TakenFacts
  <1>4. \/ Set(c, [b EXCEPT !.pc = stop])
        \/ Set(c, NextRow(b))
    BY DEF PrunePeek
  <1> HIDE DEF e
  <1>5. b.row \notin b.fifoNotActive
    BY <1>1, <1>2 DEF ThreadOK, RowIsActive
  <1>6. CASE Set(c, [b EXCEPT !.pc = stop])
    <2> DEFINE a == [b EXCEPT !.pc = stop]
    <2>1. /\ a \in PassState /\ a.pc = stop /\ a.row = b.row
          /\ a.fifoNotActive = b.fifoNotActive
      BY <1>2 DEF PassState
    <2>2. Set(c, a) /\ analysis'[c] = a
      BY <1>2, <1>6
    <2> HIDE DEF a
    <2>3. \A r \in Rows : QueueOK(r, c)'
      BY <1>1, <2>1, <2>2, PeekKeepsQueues DEF Unchecked
    <2>4. ThreadOK(c)'
      <3>1. /\ fifo'[<<a.row, c>>].queue # <<>>
            /\ fifo'[<<a.row, c>>].queue[1] = NULL <=> e = NULL
        BY <1>3, <2>1 DEF Queue
      <3>2. QED
        BY <1>1, <1>5, <2>1, <2>2, <3>1 DEF ThreadOK, RowIsActive, RoundSkipsNone
    <2>5. QED
      BY <1>1, <2>1, <2>2, <2>3, <2>4, TakeInv
  <1>7. CASE Set(c, NextRow(b))
    <2> DEFINE a == NextRow(b)
    <2>1. /\ a \in PassState /\ a.pc = "prune" /\ a.fifoNotActive = b.fifoNotActive
          /\ a.row \in Rows => a.row \notin a.fifoNotActive
      BY <1>1, <1>2, NextRowFacts
    <2>2. Set(c, a) /\ analysis'[c] = a
      BY <1>2, <1>7
    <2> HIDE DEF a
    <2>3. \A r \in Rows : QueueOK(r, c)'
      BY <1>1, <2>1, <2>2, PeekKeepsQueues DEF Unchecked
    <2>4. ThreadOK(c)'
      BY <2>1, <2>2, ThreadInPass DEF PassPcs
    <2>5. QED
      BY <1>1, <2>1, <2>2, <2>3, <2>4, TakeInv
  <1>8. QED
    BY <1>4, <1>6, <1>7

\* The pop of an EBP before the start: what was peeked at is still the head.
LEMMA PrunePopInv == ASSUME IInv, NEW c \in Streams, PrunePop(c) PROVE IInv'
  <1> DEFINE b == analysis[c]
             a == [b EXCEPT !.pc = "prune"]
  <1>1. /\ b.pc = "prune_pop" /\ b.row \in Rows /\ fifo_pop_peek(Queue(c), "pop")
        /\ Unchecked /\ Set(c, a)
    BY DEF PrunePop, At
  <1>2. b \in PassState /\ ThreadOK(c) /\ analysis'[c] = a
    BY <1>1, InvParts, ThreadState
  <1>3. a \in PassState /\ a.pc = "prune" /\ a.row = b.row /\ a.fifoNotActive = b.fifoNotActive
    BY <1>2 DEF PassState
  <1> HIDE DEF a
  <1>4. b.row \notin b.fifoNotActive /\ fifo[Queue(c)].queue[1] # NULL
    BY <1>1, <1>2 DEF ThreadOK, RowIsActive, Queue
  <1>5. Oldest(Queue(c)) # NULL
    BY <1>1, <1>4, TakenFacts
  <1>6. \A r \in Rows : QueueOK(r, c)'
    BY <1>1, <1>2, <1>3, <1>4, <1>5, PopKeepsQueues DEF Unchecked
  <1>7. ThreadOK(c)'
    BY <1>2, <1>3, <1>4, ThreadInPass DEF PassPcs
  <1>8. QED
    BY <1>1, <1>3, <1>6, <1>7, TakeInv

\* The pop of a NULL that was peeked at: it is still the head.
LEMMA EndRowInv ==
    ASSUME IInv, NEW c \in Streams, NEW pc \in {"sync_end", "prune_end"},
           NEW pass \in {"sync", "prune"}, EndRow(c, pc, pass)
    PROVE  IInv'
  <1> DEFINE b == analysis[c]
             off == b.fifoNotActive \cup {b.row}
             left == [b EXCEPT !.pc = pass, !.fifoNotActive = off]
             a == NextRow(left)
  <1>1. /\ b.pc = pc /\ b.row \in Rows /\ fifo_pop_peek(Queue(c), "pop")
        /\ Unchecked /\ Set(c, a)
    BY DEF EndRow, At
  <1>2. b \in PassState /\ ThreadOK(c) /\ analysis'[c] = a
    BY <1>1, InvParts, ThreadState
  <1>3. /\ left \in PassState /\ left.pc = pass /\ left.row = b.row /\ left.fifoNotActive = off
    BY <1>1, <1>2 DEF PassState
  <1> HIDE DEF left
  <1>4. /\ a \in PassState /\ a.pc = pass /\ a.fifoNotActive = off
        /\ a.row \in Rows => a.row \notin a.fifoNotActive
    BY <1>1, <1>3, NextRowFacts
  <1> HIDE DEF a
  <1>5. fifo[Queue(c)].queue[1] = NULL
    BY <1>1, <1>2 DEF ThreadOK, RowIsActive, Queue
  <1>6. Oldest(Queue(c)) = NULL
    BY <1>1, <1>5, TakenFacts
  <1>7. \A r \in Rows : QueueOK(r, c)'
    BY <1>1, <1>2, <1>4, <1>6, PopOfEndKeepsQueues DEF Unchecked
  <1>8. ThreadOK(c)'
    BY <1>2, <1>4, ThreadInPass DEF PassPcs
  <1>9. QED
    BY <1>1, <1>4, <1>7, <1>8, TakeInv

\* The pop of an EBP of a round, and the checks on it.
LEMMA CompareInv == ASSUME IInv, NEW c \in Streams, Compare(c) PROVE IInv'
  <1> DEFINE b == analysis[c]
             q == Queue(c)
             e == Oldest(q)
             more == [b EXCEPT !.first = IF @ = NULL THEN e ELSE @, !.more = TRUE]
             a == NextRow(more)
             verdict == /\ streamPassFail[q]
                        /\ ~(b.first # NULL /\ DiffersFrom(e, b.first))
                        /\ ~OffDistance(e, lastPTS[q][e.partitionId])
                        /\ ~SAPFails(e)
  <1>1. /\ b.pc = "round" /\ b.row \in Rows /\ e # NULL /\ fifo_pop_peek(q, "pop")
        /\ streamPassFail' = [streamPassFail EXCEPT ![q] = verdict]
        /\ lastPTS' = IF e.partition = NULL THEN lastPTS
                      ELSE [lastPTS EXCEPT ![q][e.partitionId] = e.PTS]
        /\ Set(c, a) /\ UNCHANGED ingestVars
    BY DEF Compare, At
  <1>2. b \in PassState /\ ThreadOK(c) /\ analysis'[c] = a
    BY <1>1, InvParts, ThreadState
  <1>3. /\ q \in Queues /\ e \in Any /\ FifoTypeOK'
        /\ \A p \in Queues : p[2] # c => fifo'[p] = fifo[p]
    BY <1>1, TakenFacts
  <1>4. e \in EBPs /\ e.PTS \in Nat /\ e.partitionId \in Partitions
    BY <1>1, <1>3, AnalysisAssumption DEF Any
  <1> HIDE DEF e
  <1>5. (IF b.first = NULL THEN e ELSE b.first) \in EBPs \cup {NULL} /\ TRUE \in BOOLEAN
    BY <1>2, <1>4 DEF PassState
  <1>6. /\ more \in PassState /\ more.pc = "round" /\ more.row = b.row /\ more.more = TRUE
        /\ more.fifoNotActive = b.fifoNotActive
    BY <1>1, <1>2, <1>5 DEF PassState
  <1> HIDE DEF more
  <1>7. /\ a \in PassState /\ a.pc = "round" /\ a.more = TRUE /\ a.fifoNotActive = b.fifoNotActive
        /\ a.row \in Rows => a.row \notin a.fifoNotActive
    BY <1>1, <1>6, NextRowFacts
  <1> HIDE DEF a, verdict
  <1>8. b.row \notin b.fifoNotActive
    BY <1>1, <1>2 DEF ThreadOK, RowIsActive
  <1>9. \A r \in Rows : QueueOK(r, c)'
    BY <1>1, <1>2, <1>7, <1>8, PopKeepsQueues DEF e
  <1>10. ThreadOK(c)'
    BY <1>2, <1>7, ThreadInPass DEF PassPcs
  <1>11. /\ lastPTS \in [Queues -> [Partitions -> Nat]]
         /\ streamPassFail \in [Queues -> BOOLEAN]
    BY InvParts DEF TypeOK
  <1>12. lastPTS' \in [Queues -> [Partitions -> Nat]]
    <2>1. CASE e.partition = NULL
      BY <1>1, <1>11, <2>1
    <2>2. CASE e.partition # NULL
      BY <1>1, <1>3, <1>4, <1>11, <2>2
    <2>3. QED
      BY <2>1, <2>2
  <1>13. streamPassFail' \in [Queues -> BOOLEAN]
    <2>1. verdict \in BOOLEAN
      BY DEF verdict
    <2>2. QED
      BY <1>1, <1>3, <1>11, <2>1
  <1>14. QED
    BY <1>1, <1>3, <1>7, <1>9, <1>10, <1>12, <1>13, ConsumerInv

\* The pop of the NULL of a row in a round.
LEMMA RoundEndsRowInv == ASSUME IInv, NEW c \in Streams, RoundEndsRow(c) PROVE IInv'
  <1> DEFINE b == analysis[c]
             off == b.fifoNotActive \cup {b.row}
             left == [b EXCEPT !.fifoNotActive = off]
             a == NextRow(left)
  <1>1. /\ b.pc = "round" /\ b.row \in Rows /\ fifo_pop_peek(Queue(c), "pop")
        /\ Oldest(Queue(c)) = NULL /\ Unchecked /\ Set(c, a)
    BY DEF RoundEndsRow, At
  <1>2. b \in PassState /\ ThreadOK(c) /\ analysis'[c] = a
    BY <1>1, InvParts, ThreadState
  <1>3. /\ left \in PassState /\ left.pc = "round" /\ left.row = b.row
        /\ left.more = b.more /\ left.fifoNotActive = off
    BY <1>1, <1>2 DEF PassState
  <1> HIDE DEF left
  <1>4. /\ a \in PassState /\ a.pc = "round" /\ a.more = b.more /\ a.fifoNotActive = off
        /\ a.row \in Rows => a.row \notin a.fifoNotActive
        /\ \A j \in Rows : b.row < j /\ j < a.row => j \in off
    BY <1>1, <1>3, NextRowFacts
  <1> HIDE DEF a
  <1>5. \A r \in Rows : QueueOK(r, c)'
    BY <1>1, <1>2, <1>4, PopOfEndKeepsQueues DEF Unchecked
  <1>6. ~a.more => \A j \in Rows : j < a.row => j \in a.fifoNotActive
    <2> SUFFICES ASSUME ~a.more, NEW j \in Rows, j < a.row PROVE j \in off
      BY <1>4
    <2>1. j < b.row => j \in b.fifoNotActive
      BY <1>1, <1>2, <1>4 DEF ThreadOK, RoundSkipsNone
    <2>2. j \in Nat /\ b.row \in Nat
      BY <1>1 DEF Rows
    <2>3. j < b.row \/ j = b.row \/ b.row < j
      BY <2>2
    <2>4. QED
      BY <1>4, <2>1, <2>3
  <1>7. ThreadOK(c)'
    BY <1>2, <1>4, <1>6, ThreadInPass DEF PassPcs
  <1>8. QED
    BY <1>1, <1>4, <1>5, <1>7, TakeInv

\* A round is over: another, or the thread is done when it saw no EBP.
LEMMA RoundDoneInv == ASSUME IInv, NEW c \in Streams, RoundDone(c) PROVE IInv'
  <1> DEFINE b == analysis[c]
             a == [b EXCEPT !.pc = "done"]
  <1>1. /\ b.pc = "round" /\ b.row > NumFiles /\ UNCHANGED fifo /\ Unchecked
        /\ Set(c, IF b.more THEN StartPass(b, "round") ELSE a)
    BY DEF RoundDone, PassEnds
  <1>2. CASE b.more
    BY <1>1, <1>2, StartPassInv DEF PassPcs
  <1>3. CASE ~b.more
    <2>1. b \in PassState /\ ThreadOK(c) /\ Set(c, a) /\ analysis'[c] = a
      BY <1>1, <1>3, InvParts, ThreadState
    <2>2. /\ a \in PassState /\ a.pc = "done" /\ a.row = b.row
          /\ a.fifoNotActive = b.fifoNotActive
      BY <2>1 DEF PassState
    <2> HIDE DEF a
    <2>3. UNCHANGED ingestVars /\ UNCHANGED lastPTS /\ UNCHANGED streamPassFail
      BY <1>1 DEF Unchecked
    <2>4. FifoTypeOK' /\ \A r \in Rows : QueueOK(r, c)'
      BY <1>1, <2>1, <2>2, <2>3, PassEndKeepsQueues
    <2>5. ThreadOK(c)'
      <3>1. \A r \in Rows : r < b.row
        BY <1>1, <2>1, AnalysisAssumption DEF Rows, PassState
      <3>2. b.row \notin Rows
        BY <1>1, AnalysisAssumption DEF Rows
      <3>3. Rows \subseteq b.fifoNotActive
        BY <1>1, <1>3, <2>1, <3>1 DEF ThreadOK, RoundSkipsNone
      <3>4. QED
        BY <2>1, <2>2, <3>2, <3>3 DEF ThreadOK, RowIsActive, RoundSkipsNone
    <2>6. /\ lastPTS' \in [Queues -> [Partitions -> Nat]]
          /\ streamPassFail' \in [Queues -> BOOLEAN]
      BY <2>3, InvParts DEF TypeOK
    <2>7. \A q \in Queues : q[2] # c => fifo'[q] = fifo[q]
      BY <1>1
    <2>8. QED
      BY <2>1, <2>2, <2>3, <2>4, <2>5, <2>6, <2>7, ConsumerInv
  <1>4. QED
    BY <1>2, <1>3

\* No step of any thread breaks the invariant.
LEMMA NextInv == IInv /\ [Next]_vars => IInv'
  <1> SUFFICES ASSUME IInv, [Next]_vars PROVE IInv'
    OBVIOUS
  <1>1. ASSUME NEW r \in Rows, Post(r) PROVE IInv'
    BY <1>1, PostInv
  <1>2. ASSUME NEW r \in Rows, CleanUp(r) PROVE IInv'
    BY <1>2, CleanUpInv
  <1>3. ASSUME NEW c \in Streams, Analyse(c) PROVE IInv'
    <2>1. CASE Waits(c)
      BY <2>1, WaitsInv
    <2>2. CASE SyncPeek(c)
      BY <2>2, SyncPeekInv
    <2>3. CASE SyncEnd(c)
      BY <2>3, EndRowInv DEF SyncEnd
    <2>4. CASE SyncDone(c)
      BY <2>4, StartPassInv DEF SyncDone, PassEnds, PassPcs
    <2>5. CASE PrunePeek(c)
      BY <2>5, PrunePeekInv
    <2>6. CASE PrunePop(c)
      BY <2>6, PrunePopInv
    <2>7. CASE PruneEnd(c)
      BY <2>7, EndRowInv DEF PruneEnd
    <2>8. CASE PruneDone(c)
      BY <2>8, StartPassInv DEF PruneDone, PassEnds, PassPcs
    <2>9. CASE Compare(c)
      BY <2>9, CompareInv
    <2>10. CASE RoundEndsRow(c)
      BY <2>10, RoundEndsRowInv
    <2>11. CASE RoundDone(c)
      BY <2>11, RoundDoneInv
    <2>12. QED
      BY <1>3, <2>1, <2>2, <2>3, <2>4, <2>5, <2>6, <2>7, <2>8, <2>9, <2>10, <2>11 DEF Analyse
  <1>4. CASE UNCHANGED vars
    <2>1. /\ TypeOK' /\ EndsAfterPosts'
      BY <1>4, InvParts DEF vars, TypeOK, FifoTypeOK, EndsAfterPosts
    <2>2. ASSUME NEW r \in Rows, NEW c \in Streams PROVE QueueOK(r, c)'
      BY <1>4, InvParts, Elsewhere DEF vars
    <2>3. ASSUME NEW c \in Streams PROVE ThreadOK(c)'
      BY <1>4, InvParts DEF vars, ThreadOK, RowIsActive, RoundSkipsNone
    <2>4. QED
      BY <2>1, <2>2, <2>3 DEF IInv, QueueOK, ThreadOK
  <1>5. QED
    BY <1>1, <1>2, <1>3, <1>4 DEF Next, Ingest

-----------------------------------------------------------------------------
\* The invariant holds of every behaviour.
THEOREM Invariance == Spec => []IInv
  BY InitInv, NextInv, PTL DEF Spec

\* The state of the threads and of the queues is of its type.
THEOREM TypeCorrect == Spec => []TypeOK
  <1>1. IInv => TypeOK
    BY DEF IInv
  <1>2. QED
    BY <1>1, Invariance, PTL

\* At the end of all threads nothing is in the queues and no call waits there.
LEMMA DrainedLemma == IInv => QueuesAreDrained
  <1> SUFFICES ASSUME IInv PROVE InactiveMeansDone /\ DrainedAtTheEnd
    BY DEF QueuesAreDrained
  <1>1. ASSUME NEW c \in Streams, NEW r \in analysis[c].fifoNotActive
        PROVE  ended[r] >= c /\ fifo[<<r, c>>].queue = <<>>
    <2>1. r \in Rows /\ c \in Nat
      BY ThreadState DEF PassState, Streams
    <2>2. ended[r] \in Nat
      BY <2>1, InvParts, AnalysisAssumption DEF TypeOK
    <2>3. ~(ended[r] < c) /\ fifo[<<r, c>>].queue = <<>>
      BY <2>1, InvParts DEF QueueOK, EndIsLast
    <2>4. QED
      BY <2>1, <2>2, <2>3
  <1>2. ASSUME Finished, NEW q \in Queues
        PROVE  /\ fifo[q].queue = <<>>
               /\ fifo[q].push_counter = fifo[q].pop_counter
               /\ fifo[q].call = NoCall
    <2>1. PICK r \in Rows, c \in Streams : q = <<r, c>>
      BY DEF Queues
    <2>2. analysis[c].pc = "done" /\ r \in analysis[c].fifoNotActive
      BY <1>2, InvParts DEF Finished, ThreadOK, RoundSkipsNone
    <2>3. /\ fifo[q].queue = <<>>
          /\ fifo[q].push_counter = fifo[q].pop_counter + Len(fifo[q].queue)
          /\ fifo[q].call = NoCall
      BY <2>1, <2>2, InvParts DEF QueueOK, EndIsLast, Counted, CallIsAtRow, PassPcs
    <2>4. Len(fifo[q].queue) = 0 /\ fifo[q].pop_counter \in Nat
      BY <2>3, InvParts, QueueFacts
    <2>5. QED
      BY <2>3, <2>4
  <1>3. QED
    BY <1>1, <1>2 DEF InactiveMeansDone, DrainedAtTheEnd

\* An analysis thread leaves out a queue only when its ingest thread has ended it
\* and all of it was taken; when all threads have ended, every queue is empty,
\* its counters agree and no call waits on it (EBPSegmentAnalysisThread.c:117,
\* 351-352, 400-401; ATSTestApp.c:720-755).
THEOREM QueuesDrained == Spec => []QueuesAreDrained
  BY Invariance, DrainedLemma, PTL

-----------------------------------------------------------------------------
\* What an ingest found on a stream, and how much of it came before a place.

OnStream(A, c, n)  == {k \in 1 .. n : A[k].stream = c}
Before(r, c, n)    == Cardinality(OnStream(arrivals[r], c, n))

\* Counting the places of a stream, one by one.
LEMMA Counting ==
    ASSUME NEW A, NEW c, NEW n \in Nat
    PROVE  /\ IsFiniteSet(OnStream(A, c, n))
           /\ Cardinality(OnStream(A, c, n)) \in Nat
           /\ Cardinality(OnStream(A, c, 0)) = 0
           /\ A[n + 1].stream = c => 
                Cardinality(OnStream(A, c, n + 1)) = Cardinality(OnStream(A, c, n)) + 1
           /\ A[n + 1].stream # c => OnStream(A, c, n + 1) = OnStream(A, c, n)
           /\ \A m \in 0 .. n : Cardinality(OnStream(A, c, m)) <= Cardinality(OnStream(A, c, n))
  <1>1. IsFiniteSet(1 .. n)
    BY FS_Interval
  <1>2. \A m \in 0 .. n : OnStream(A, c, m) \in SUBSET OnStream(A, c, n)
    BY DEF OnStream
  <1>3. OnStream(A, c, n) \in SUBSET (1 .. n)
    BY DEF OnStream
  <1>4. IsFiniteSet(OnStream(A, c, n))
    BY <1>1, <1>3, FS_Subset
  <1>5. OnStream(A, c, 0) = {}
    BY DEF OnStream
  <1>6. ASSUME A[n + 1].stream = c
        PROVE  Cardinality(OnStream(A, c, n + 1)) = Cardinality(OnStream(A, c, n)) + 1
    <2>1. OnStream(A, c, n + 1) = OnStream(A, c, n) \cup {n + 1}
      BY <1>6 DEF OnStream
    <2>2. n + 1 \notin OnStream(A, c, n)
      BY DEF OnStream
    <2>3. QED
      BY <1>4, <2>1, <2>2, FS_AddElement
  <1>7. A[n + 1].stream # c => OnStream(A, c, n + 1) = OnStream(A, c, n)
    BY DEF OnStream
  <1>8. \A m \in 0 .. n : Cardinality(OnStream(A, c, m)) <= Cardinality(OnStream(A, c, n))
    BY <1>2, <1>4, FS_Subset
  <1>9. Cardinality(OnStream(A, c, n)) \in Nat
    BY <1>4, FS_CardinalityType
  <1>10. QED
    BY <1>4, <1>5, <1>6, <1>7, <1>8, <1>9, FS_EmptySet

\* Each number up to the count is the rank of a place on the stream.
LEMMA RankExists ==
    ASSUME NEW A, NEW c, NEW n \in Nat
    PROVE  \A m \in 1 .. Cardinality(OnStream(A, c, n)) :
              \E k \in OnStream(A, c, n) : Cardinality(OnStream(A, c, k)) = m
  <1> DEFINE C(i) == Cardinality(OnStream(A, c, i))
             Fine(i) == \A m \in 1 .. C(i) : \E k \in OnStream(A, c, i) : C(k) = m
             Bad == {i \in Nat : ~Fine(i)}
  <1>1. SUFFICES ASSUME Bad # {} PROVE FALSE
    OBVIOUS
  <1>2. PICK i \in Bad : \A j \in Bad : i <= j
    <2>1. Bad \subseteq Nat
      OBVIOUS
    <2> HIDE DEF Bad
    <2>2. QED
      BY <1>1, <2>1, HasMin
  <1>3. C(0) = 0 /\ \A j \in Nat : C(j) \in Nat
    BY Counting
  <1>4. Fine(0)
    BY <1>3
  <1>5. i # 0 /\ i \in Nat /\ ~Fine(i)
    BY <1>2, <1>4
  <1>6. PICK j \in Nat : i = j + 1
    BY <1>5
  <1>7. Fine(j)
    BY <1>2, <1>6
  <1>8. ASSUME NEW m \in 1 .. C(i) PROVE \E k \in OnStream(A, c, i) : C(k) = m
    <2>1. OnStream(A, c, j) \subseteq OnStream(A, c, i)
      BY <1>6 DEF OnStream
    <2>2. CASE m \in 1 .. C(j)
      BY <1>7, <2>1, <2>2
    <2>3. CASE m \notin 1 .. C(j)
      <3>1. /\ A[i].stream = c => C(i) = C(j) + 1
            /\ A[i].stream # c => C(i) = C(j)
        BY <1>6, Counting
      <3>2. C(j) \in Nat /\ C(i) \in Nat
        BY <1>3, <1>5
      <3> HIDE DEF C
      <3>3. A[i].stream = c /\ m = C(i)
        BY <2>3, <3>1, <3>2
      <3>4. i \in OnStream(A, c, i)
        BY <1>5, <3>3 DEF OnStream
      <3>5. QED
        BY <3>3, <3>4
    <2>4. QED
      BY <2>2, <2>3
  <1>9. QED
    BY <1>5, <1>8

\* What was found is what arrived on the stream, in the order in which it did.
LEMMA FoundFacts ==
    ASSUME TypeOK, NEW r \in Rows, NEW c \in Streams
    PROVE  /\ Found(r, c) \in Seq(EBPs)
           /\ Len(arrivals[r]) \in Nat
           /\ Len(Found(r, c)) = Before(r, c, Len(arrivals[r]))
           /\ \A n \in Nat : n < Len(arrivals[r]) /\ arrivals[r][n + 1].stream = c =>
                 Found(r, c)[Before(r, c, n) + 1] = arrivals[r][n + 1].ebp
  <1> DEFINE A == arrivals[r]
             N == Len(A)
             on == OnStream(A, c, N)
             C(k) == Cardinality(OnStream(A, c, k))
             place(n) == CHOOSE k \in on : C(k) = n
             f == [n \in 1 .. C(N) |-> A[place(n)].ebp]
  <1>1. A \in Seq([stream : Streams, ebp : EBPs]) /\ N \in Nat
    BY AnalysisAssumption, LenProperties DEF TypeOK
  <1>2. {k \in DOMAIN A : A[k].stream = c} = on /\ DOMAIN A = 1 .. N
    BY <1>1, LenProperties DEF OnStream
  <1>3. \A k \in on : {j \in on : j <= k} = OnStream(A, c, k)
    BY <1>1 DEF OnStream
  <1>4. Found(r, c) = f
    <2>1. \A n : (CHOOSE k \in on : Cardinality({j \in on : j <= k}) = n) = place(n)
      <3> TAKE n
      <3>1. \A k \in on : Cardinality({j \in on : j <= k}) = n <=> C(k) = n
        BY <1>3
      <3> HIDE DEF on, C
      <3>2. QED
        BY <3>1
    <2> DEFINE g(S) == [n \in 1 .. Cardinality(S) |->
                            A[CHOOSE k \in S : Cardinality({j \in S : j <= k}) = n].ebp]
    <2>2. Found(r, c) = g({k \in DOMAIN A : A[k].stream = c})
      BY DEF Found
    <2>3. Found(r, c) = g(on)
      <3>1. {k \in DOMAIN A : A[k].stream = c} = on
        BY <1>2
      <3> HIDE DEF g, on
      <3>2. QED
        BY <2>2, <3>1, Zenon
    <2>4. Cardinality(on) = C(N)
      OBVIOUS
    <2> HIDE DEF place, on, A, C
    <2>5. QED
      BY <2>1, <2>3, <2>4
  <1>5. C(N) \in Nat
    BY <1>1, Counting
  <1>6. ASSUME NEW n \in 1 .. C(N) PROVE place(n) \in on /\ C(place(n)) = n
    BY <1>1, RankExists
  <1>7. ASSUME NEW n \in 1 .. C(N) PROVE A[place(n)].ebp \in EBPs
    <2>1. place(n) \in 1 .. N
      BY <1>6 DEF OnStream
    <2>2. A[place(n)] \in [stream : Streams, ebp : EBPs]
      BY <1>1, <2>1, ElementOfSeq
    <2>3. QED
      BY <2>2
  <1>8. f \in Seq(EBPs) /\ Len(f) = C(N)
    <2> HIDE DEF place, A, C
    <2>1. f \in [1 .. C(N) -> EBPs]
      BY <1>7
    <2> HIDE DEF f
    <2>2. QED
      BY <1>5, <2>1, IsASeq, SeqDef, LenProperties
  <1>9. ASSUME NEW n \in Nat, n < N, A[n + 1].stream = c
        PROVE  f[C(n) + 1] = A[n + 1].ebp
    <2>1. n + 1 \in on /\ C(n + 1) = C(n) + 1 /\ C(n) \in Nat
      <3>1. n + 1 \in on
        BY <1>1, <1>9 DEF OnStream
      <3>2. QED
        BY <1>9, <3>1, Counting
    <2>2. C(n + 1) <= C(N)
      BY <1>1, <1>9, Counting
    <2>3. C(n) + 1 \in 1 .. C(N)
      <3> HIDE DEF C
      <3>1. QED
        BY <1>5, <2>1, <2>2
    <2>4. \A k \in on : C(k) = C(n) + 1 => k = n + 1
      <3> TAKE k \in on
      <3>1. k \in 1 .. N /\ A[k].stream = c
        BY DEF OnStream
      <3>2. PICK i \in Nat : k = i + 1
        BY <3>1
      <3>3. C(k) = C(i) + 1 /\ C(i) \in Nat
        BY <3>1, <3>2, Counting
      <3>4. i < n => C(k) <= C(n)
        BY <3>2, Counting
      <3>5. n < i => C(n + 1) <= C(i)
        BY <3>2, Counting
      <3> HIDE DEF C
      <3>6. QED
        BY <2>1, <3>2, <3>3, <3>4, <3>5
    <2>5. place(C(n) + 1) = n + 1
      BY <1>6, <2>3, <2>4
    <2> HIDE DEF place, C, A
    <2>6. QED
      BY <2>3, <2>5
  <1>10. QED
    BY <1>1, <1>4, <1>8, <1>9 DEF Before

-----------------------------------------------------------------------------
\* What is in a queue.

\* Element n of what was found on the stream, and NULL after the last.
IsNth(F, n, e) == /\ n <= Len(F) => e = F[n]
                  /\ n > Len(F) => e = NULL

\* What was posted of a stream was pushed on its queue, and what was not popped is there.
QueueIs(r, c) ==
    LET q == fifo[<<r, c>>]
    IN  /\ ended[r] < c => q.push_counter = Before(r, c, posted[r])
        /\ ended[r] >= c => q.push_counter = Before(r, c, posted[r]) + 1
        /\ \A k \in 1 .. Len(q.queue) : IsNth(Found(r, c), q.pop_counter + k, q.queue[k])

\* What the ingests find does not change.
LEMMA InputStays ==
    ASSUME UNCHANGED arrivals, NEW r, NEW c
    PROVE  Found(r, c)' = Found(r, c) /\ \A n : Before(r, c, n)' = Before(r, c, n)
  BY DEF Found, Before

\* How much can have been posted.
LEMMA CountFacts ==
    ASSUME TypeOK, NEW r \in Rows, NEW c \in Streams
    PROVE  /\ Len(Found(r, c)) \in Nat /\ posted[r] \in Nat
           /\ Before(r, c, posted[r]) \in Nat
           /\ Before(r, c, posted[r]) <= Len(Found(r, c))
  <1>1. posted[r] \in Nat /\ posted[r] <= Len(arrivals[r])
    BY DEF TypeOK
  <1>2. Len(arrivals[r]) \in Nat /\ Len(Found(r, c)) = Before(r, c, Len(arrivals[r]))
    BY FoundFacts
  <1>3. posted[r] \in 0 .. Len(arrivals[r])
    BY <1>1, <1>2
  <1>4. Before(r, c, posted[r]) <= Before(r, c, Len(arrivals[r]))
    BY <1>2, <1>3, Counting DEF Before
  <1>5. Before(r, c, posted[r]) \in Nat /\ Before(r, c, Len(arrivals[r])) \in Nat
    BY <1>1, <1>2, Counting DEF Before
  <1>6. QED
    BY <1>1, <1>2, <1>4, <1>5

\* The head of a queue is what comes after what was popped.
LEMMA HeadIs ==
    ASSUME IInv, NEW r \in Rows, NEW c \in Streams, QueueIs(r, c), fifo[<<r, c>>].queue # <<>>
    PROVE  /\ fifo[<<r, c>>].pop_counter \in Nat /\ Len(Found(r, c)) \in Nat
           /\ fifo[<<r, c>>].pop_counter <= Len(Found(r, c))
           /\ fifo[<<r, c>>].queue[1] = NULL => fifo[<<r, c>>].pop_counter = Len(Found(r, c))
           /\ fifo[<<r, c>>].queue[1] # NULL =>
                 /\ fifo[<<r, c>>].pop_counter < Len(Found(r, c))
                 /\ fifo[<<r, c>>].queue[1] = Found(r, c)[fifo[<<r, c>>].pop_counter + 1]
  <1> DEFINE q == fifo[<<r, c>>]
             F == Found(r, c)
  <1>1. /\ q.queue \in Seq(Any) /\ Len(q.queue) \in Nat /\ Len(q.queue) > 0
        /\ q.pop_counter \in Nat /\ q.push_counter \in Nat
    BY InvParts, QueueFacts
  <1>2. q.push_counter = q.pop_counter + Len(q.queue)
    BY InvParts DEF QueueOK, Counted
  <1>3. /\ Len(F) \in Nat /\ Before(r, c, posted[r]) \in Nat /\ Before(r, c, posted[r]) <= Len(F)
    BY InvParts, CountFacts
  <1>4. ended[r] \in Nat /\ c \in Nat
    BY InvParts, AnalysisAssumption DEF TypeOK, Streams
  <1>5. q.push_counter <= Before(r, c, posted[r]) + 1
    BY <1>1, <1>3, <1>4 DEF QueueIs
  <1>6. q.pop_counter <= Len(F)
    <2> HIDE DEF q, F
    <2>1. QED
      BY <1>1, <1>2, <1>3, <1>5
  <1>7. IsNth(Found(r, c), q.pop_counter + 1, q.queue[1])
    <2>1. 1 \in 1 .. Len(q.queue)
      BY <1>1
    <2>2. QED
      BY <2>1 DEF QueueIs
  <1>8. q.pop_counter < Len(F) => q.queue[1] = F[q.pop_counter + 1] /\ q.queue[1] # NULL
    <2> SUFFICES ASSUME q.pop_counter < Len(F)
                 PROVE  q.queue[1] = F[q.pop_counter + 1] /\ q.queue[1] # NULL
      OBVIOUS
    <2>1. q.pop_counter + 1 \in 1 .. Len(F)
      BY <1>1, <1>3
    <2>2. F \in Seq(EBPs)
      BY InvParts, FoundFacts
    <2>3. F[q.pop_counter + 1] \in EBPs
      <3> HIDE DEF F, q
      <3>1. QED
        BY <2>1, <2>2, ElementOfSeq
    <2>4. q.queue[1] = F[q.pop_counter + 1]
      BY <1>7, <2>1 DEF IsNth
    <2>5. QED
      BY <2>3, <2>4, AnalysisAssumption
  <1>9. q.pop_counter = Len(F) => q.queue[1] = NULL
    <2> SUFFICES ASSUME q.pop_counter = Len(F) PROVE q.queue[1] = NULL
      OBVIOUS
    <2>1. q.pop_counter + 1 > Len(F)
      BY <1>1, <1>3
    <2>2. QED
      BY <1>7, <2>1 DEF IsNth
  <1> HIDE DEF q, F
  <1>10. q.pop_counter < Len(F) \/ q.pop_counter = Len(F)
    BY <1>1, <1>3, <1>6
  <1>11. QED
    BY <1>1, <1>3, <1>6, <1>8, <1>9, <1>10 DEF q, F

\* An element that comes next is pushed behind what is there.
LEMMA PushIsNth ==
    ASSUME IInv, NEW r \in Rows, NEW c \in Streams, QueueIs(r, c), UNCHANGED arrivals,
           NEW e \in Any, fifo_push(<<r, c>>, e),
           IsNth(Found(r, c), fifo[<<r, c>>].push_counter + 1, e)
    PROVE  \A k \in 1 .. Len(fifo'[<<r, c>>].queue) :
              IsNth(Found(r, c), fifo'[<<r, c>>].pop_counter + k, fifo'[<<r, c>>].queue[k])
  <1> DEFINE q == fifo[<<r, c>>]
             t == fifo'[<<r, c>>]
  <1>1. q.queue \in Seq(Any) /\ Len(q.queue) \in Nat /\ q.pop_counter \in Nat
    BY InvParts, QueueFacts
  <1>2. q.push_counter = q.pop_counter + Len(q.queue)
    BY InvParts DEF QueueOK, Counted
  <1>3. t.queue = Append(q.queue, e) /\ t.pop_counter = q.pop_counter
    BY InvParts, PushStep
  <1>4. /\ Len(t.queue) = Len(q.queue) + 1 /\ t.queue[Len(q.queue) + 1] = e
        /\ \A k \in 1 .. Len(q.queue) : t.queue[k] = q.queue[k]
    BY <1>1, <1>3, AppendProperties
  <1>5. \A k \in 1 .. Len(q.queue) : IsNth(Found(r, c), q.pop_counter + k, q.queue[k])
    BY DEF QueueIs
  <1> SUFFICES ASSUME NEW k \in 1 .. Len(t.queue)
               PROVE  IsNth(Found(r, c), t.pop_counter + k, t.queue[k])
    OBVIOUS
  <1> HIDE DEF q, t
  <1>7. CASE k = Len(q.queue) + 1
    <2>1. t.pop_counter + k = q.push_counter + 1
      <3>1. t.pop_counter = q.pop_counter
        BY <1>3
      <3>2. QED
        BY <1>1, <1>2, <1>7, <3>1
    <2>4. t.queue[k] = e
      BY <1>4, <1>7
    <2>2. IsNth(Found(r, c), q.push_counter + 1, e)
      BY DEF q
    <2>3. QED
      BY <2>1, <2>2, <2>4
  <1>8. CASE k # Len(q.queue) + 1
    <2>1. k \in 1 .. Len(q.queue)
      BY <1>1, <1>4, <1>8
    <2>2. QED
      BY <1>3, <1>4, <1>5, <2>1
  <1>9. QED
    BY <1>7, <1>8

\* A post brings the queue of its stream one further, and no other.
LEMMA PostQueueIs ==
    ASSUME IInv, NEW r \in Rows, Post(r), NEW i \in Rows, NEW c \in Streams, QueueIs(i, c)
    PROVE  QueueIs(i, c)'
  <1> DEFINE a == arrivals[r][posted[r] + 1]
             n == posted[r]
  <1>1. TypeOK /\ EndsAfterPosts
    BY InvParts
  <1>2. /\ Len(arrivals[r]) \in Nat /\ n \in Nat /\ n < Len(arrivals[r])
    BY <1>1, FoundFacts DEF TypeOK, Post
  <1>3. a \in [stream : Streams, ebp : EBPs]
    <2>1. n + 1 \in 1 .. Len(arrivals[r])
      BY <1>2
    <2>2. arrivals \in [Rows -> Seq([stream : Streams, ebp : EBPs])]
      BY <1>1, AnalysisAssumption DEF TypeOK
    <2>3. arrivals[r] \in Seq([stream : Streams, ebp : EBPs])
      BY <2>2
    <2>4. QED
      BY <2>1, <2>3, ElementOfSeq
  <1>4. /\ a.stream \in Streams /\ a.ebp \in Any /\ <<r, a.stream>> \in Queues
    BY <1>3 DEF Any, Queues
  <1>5. /\ fifo_push(<<r, a.stream>>, a.ebp) /\ posted' = [posted EXCEPT ![r] = @ + 1]
        /\ UNCHANGED <<arrivals, ended>>
    BY DEF Post
  <1>6. posted'[r] = n + 1 /\ \A j \in Rows : j # r => posted'[j] = posted[j]
    BY <1>1, <1>5 DEF TypeOK
  <1>7. ended[r] = 0 /\ c \in Nat /\ c > 0
    <2>1. ~(ended[r] > 0)
      BY <1>1, <1>2 DEF EndsAfterPosts
    <2>2. ended[r] \in Nat
      BY <1>1, AnalysisAssumption DEF TypeOK
    <2>3. c \in Nat /\ c > 0
      BY DEF Streams
    <2>4. QED
      BY <2>1, <2>2, <2>3
  <1>8. <<i, c>> \in Queues
    BY DEF Queues
  <1> HIDE DEF a, n
  <1>9. CASE <<i, c>> # <<r, a.stream>>
    <2>1. fifo'[<<i, c>>] = fifo[<<i, c>>]
      BY <1>1, <1>4, <1>5, <1>8, <1>9, PushStep
    <2>2. Before(i, c, posted'[i]) = Before(i, c, posted[i])
      <3>1. CASE i # r
        BY <1>6, <3>1
      <3>2. CASE i = r
        <4>1. a.stream # c
          BY <1>9, <3>2
        <4>2. OnStream(arrivals[r], c, n + 1) = OnStream(arrivals[r], c, n)
          BY <1>2, <4>1, Counting DEF a, n
        <4>3. QED
          BY <1>6, <3>2, <4>2 DEF Before, n
      <3>3. QED
        BY <3>1, <3>2
    <2>3. Before(i, c, posted[i])' = Before(i, c, posted'[i])
      BY <1>5 DEF Before
    <2>4. Found(i, c)' = Found(i, c)
      BY <1>5, InputStays
    <2>5. QED
      BY <1>5, <2>1, <2>2, <2>3, <2>4 DEF QueueIs
  <1>10. CASE <<i, c>> = <<r, a.stream>>
    <2>1. i = r /\ c = a.stream
      BY <1>10
    <2>2. fifo[<<r, c>>].push_counter = Before(r, c, n) /\ Before(r, c, n) \in Nat
      BY <1>1, <1>7, <2>1, CountFacts DEF QueueIs, n
    <2>3. Before(r, c, n + 1) = Before(r, c, n) + 1
      BY <1>2, <2>1, Counting DEF Before, a, n
    <2>4. IsNth(Found(r, c), fifo[<<r, c>>].push_counter + 1, a.ebp)
      <3>1. Found(r, c)[Before(r, c, n) + 1] = a.ebp
        BY <1>1, <1>2, <2>1, FoundFacts DEF a, n
      <3>2. /\ Before(r, c, n + 1) <= Before(r, c, Len(arrivals[r]))
            /\ Len(Found(r, c)) = Before(r, c, Len(arrivals[r])) /\ Len(Found(r, c)) \in Nat
        <4>1. n + 1 \in 0 .. Len(arrivals[r])
          BY <1>2
        <4>2. QED
          BY <1>1, <1>2, <4>1, Counting, FoundFacts, CountFacts DEF Before
      <3>3. ~(Before(r, c, n) + 1 > Len(Found(r, c)))
        BY <2>2, <2>3, <3>2
      <3>4. QED
        BY <2>2, <3>1, <3>3 DEF IsNth
    <2>5. \A k \in 1 .. Len(fifo'[<<r, c>>].queue) :
             IsNth(Found(r, c), fifo'[<<r, c>>].pop_counter + k, fifo'[<<r, c>>].queue[k])
      BY <1>4, <1>5, <2>1, <2>4, PushIsNth
    <2>6. fifo'[<<r, c>>].push_counter = fifo[<<r, c>>].push_counter + 1
      BY <1>1, <1>4, <1>5, <2>1, PushStep
    <2>7. Before(r, c, posted[r])' = Before(r, c, n + 1)
      BY <1>5, <1>6 DEF Before
    <2>8. ~(ended'[r] >= c)
      BY <1>5, <1>7
    <2>9. fifo'[<<r, c>>].push_counter = Before(r, c, posted[r])'
      BY <2>2, <2>3, <2>6, <2>7
    <2>10. Found(r, c)' = Found(r, c)
      BY <1>5, InputStays
    <2>11. QED
      BY <2>1, <2>5, <2>8, <2>9, <2>10 DEF QueueIs
  <1>11. QED
    BY <1>9, <1>10

\* The NULL comes after all that was found.
LEMMA CleanUpQueueIs ==
    ASSUME IInv, NEW r \in Rows, CleanUp(r), NEW i \in Rows, NEW c \in Streams, QueueIs(i, c)
    PROVE  QueueIs(i, c)'
  <1> DEFINE d == ended[r] + 1
  <1>1. TypeOK
    BY InvParts
  <1>2. ended[r] \in Nat /\ ended[r] < NumStreams /\ ended \in [Rows -> 0 .. NumStreams]
    BY <1>1, AnalysisAssumption DEF TypeOK, CleanUp
  <1>3. d \in Streams /\ <<r, d>> \in Queues /\ NULL \in Any /\ <<i, c>> \in Queues /\ c \in Nat
    BY <1>2, AnalysisAssumption DEF Streams, Queues, Any
  <1>4. /\ fifo_push(<<r, d>>, NULL)
        /\ ended' = [ended EXCEPT ![r] = d]
        /\ posted[r] = Len(arrivals[r])
        /\ UNCHANGED <<arrivals, posted>>
    BY DEF CleanUp
  <1>5. ended'[r] = d /\ \A j \in Rows : j # r => ended'[j] = ended[j]
    BY <1>2, <1>4
  <1>6. \A n : Before(i, c, n)' = Before(i, c, n)
    BY <1>4, InputStays
  <1>7. Found(i, c)' = Found(i, c)
    BY <1>4, InputStays
  <1>8. Before(i, c, posted[i])' = Before(i, c, posted[i])
    BY <1>4 DEF Before
  <1>9. CASE <<i, c>> # <<r, d>>
    <2>1. fifo'[<<i, c>>] = fifo[<<i, c>>]
      BY <1>1, <1>3, <1>4, <1>9, PushStep
    <2>2. (ended'[i] < c <=> ended[i] < c) /\ (ended'[i] >= c <=> ended[i] >= c)
      <3>1. CASE i = r
        <4>1. c # d
          BY <1>9, <3>1
        <4>2. QED
          BY <1>2, <1>3, <1>5, <3>1, <4>1
      <3>2. CASE i # r
        BY <1>5, <3>2
      <3>3. QED
        BY <3>1, <3>2
    <2>3. QED
      BY <1>7, <1>8, <2>1, <2>2 DEF QueueIs
  <1>10. CASE <<i, c>> = <<r, d>>
    <2>1. i = r /\ c = d /\ ended[r] < c
      BY <1>2, <1>10
    <2>2. /\ fifo[<<r, c>>].push_counter = Before(r, c, posted[r])
          /\ Before(r, c, posted[r]) = Len(Found(r, c)) /\ Len(Found(r, c)) \in Nat
      BY <1>1, <1>4, <2>1, FoundFacts, CountFacts DEF QueueIs
    <2>3. IsNth(Found(r, c), fifo[<<r, c>>].push_counter + 1, NULL)
      BY <2>2 DEF IsNth
    <2>4. \A k \in 1 .. Len(fifo'[<<r, c>>].queue) :
             IsNth(Found(r, c), fifo'[<<r, c>>].pop_counter + k, fifo'[<<r, c>>].queue[k])
      BY <1>3, <1>4, <2>1, <2>3, PushIsNth
    <2>5. fifo'[<<r, c>>].push_counter = fifo[<<r, c>>].push_counter + 1
      BY <1>1, <1>3, <1>4, <2>1, PushStep
    <2>6. ~(ended'[r] < c)
      BY <1>3, <1>5, <2>1
    <2>7. Found(r, c)' = Found(r, c)
      BY <1>4, InputStays
    <2>8. fifo'[<<r, c>>].push_counter = Before(r, c, posted[r])' + 1
      BY <1>8, <2>1, <2>2, <2>5
    <2>9. QED
      BY <2>1, <2>4, <2>6, <2>7, <2>8 DEF QueueIs
  <1>11. QED
    BY <1>9, <1>10

\* A peek or a pop takes the first of what is there.
LEMMA TakeQueueIs ==
    ASSUME IInv, NEW c \in Streams, analysis[c].row \in Rows, NEW op \in {"peek", "pop"},
           fifo_pop_peek(Queue(c), op), UNCHANGED ingestVars,
           NEW r \in Rows, NEW d \in Streams, QueueIs(r, d)
    PROVE  QueueIs(r, d)'
  <1>1. UNCHANGED <<arrivals, posted, ended>>
    BY DEF ingestVars
  <1>2. Found(r, d)' = Found(r, d)
    BY <1>1, InputStays
  <1>3. Before(r, d, posted[r])' = Before(r, d, posted[r])
    BY <1>1 DEF Before
  <1>4. <<r, d>> \in Queues
    BY DEF Queues
  <1>5. CASE <<r, d>> # Queue(c)
    <2>1. fifo'[<<r, d>>] = fifo[<<r, d>>]
      BY <1>4, <1>5, TakenFacts
    <2>2. QED
      BY <1>1, <1>2, <1>3, <2>1 DEF QueueIs
  <1>6. CASE <<r, d>> = Queue(c)
    <2> DEFINE q == fifo[<<r, d>>]
               t == fifo'[<<r, d>>]
    <2>1. /\ q.queue # <<>> /\ t.push_counter = q.push_counter
          /\ t.queue = IF op = "peek" THEN q.queue ELSE Tail(q.queue)
          /\ t.pop_counter = IF op = "peek" THEN q.pop_counter ELSE q.pop_counter + 1
      BY <1>6, TakenFacts
    <2>2. q.queue \in Seq(Any) /\ q.pop_counter \in Nat
      BY <1>4, InvParts, QueueFacts
    <2>3. \A k \in 1 .. Len(q.queue) : IsNth(Found(r, d), q.pop_counter + k, q.queue[k])
      BY DEF QueueIs
    <2>4. \A k \in 1 .. Len(t.queue) : IsNth(Found(r, d), t.pop_counter + k, t.queue[k])
      <3>1. CASE op = "peek"
        BY <2>1, <2>3, <3>1
      <3>2. CASE op # "peek"
        <4>1. /\ Len(q.queue) \in Nat /\ Len(t.queue) = Len(q.queue) - 1
              /\ \A k \in 1 .. Len(q.queue) - 1 : t.queue[k] = q.queue[k + 1]
              /\ t.pop_counter = q.pop_counter + 1
          BY <2>1, <2>2, <3>2, PopLeaves
        <4> HIDE DEF q, t
        <4>2. ASSUME NEW k \in 1 .. Len(t.queue)
              PROVE  IsNth(Found(r, d), t.pop_counter + k, t.queue[k])
          <5> PICK n \in Nat, p \in Nat : n = Len(q.queue) /\ p = q.pop_counter
            BY <2>2, <4>1
          <5>3. k \in 1 .. n - 1 /\ t.pop_counter = p + 1
            BY <4>1
          <5>4. k + 1 \in 1 .. n /\ (p + 1) + k = p + (k + 1)
            BY <5>3
          <5>1. /\ k \in 1 .. Len(q.queue) - 1 /\ k + 1 \in 1 .. Len(q.queue)
                /\ t.pop_counter + k = q.pop_counter + (k + 1)
            BY <5>3, <5>4
          <5>2. IsNth(Found(r, d), q.pop_counter + (k + 1), q.queue[k + 1])
            BY <2>3, <5>1
          <5>5. QED
            BY <4>1, <5>1, <5>2
        <4>3. QED
          BY <4>2
      <3>3. QED
        BY <3>1, <3>2
    <2>5. QED
      BY <1>1, <1>2, <1>3, <2>1, <2>4 DEF QueueIs
  <1>7. QED
    BY <1>5, <1>6

-----------------------------------------------------------------------------
\* What is kept of what was found.

\* An upper bound that is in a set is its maximum.
LEMMA MaxIs ==
    ASSUME NEW S \in SUBSET Nat, NEW x \in S, \A y \in S : y <= x
    PROVE  Max(S) = x
  <1>1. \A y \in S : x >= y
    OBVIOUS
  <1>2. Max(S) \in S /\ \A y \in S : Max(S) >= y
    BY <1>1 DEF Max
  <1>3. Max(S) \in Nat /\ x \in Nat /\ Max(S) >= x /\ Max(S) <= x
    BY <1>2
  <1>4. QED
    BY <1>3

\* A lower bound that is in a set is its minimum.
LEMMA MinIs ==
    ASSUME NEW S \in SUBSET Nat, NEW x \in S, \A y \in S : x <= y
    PROVE  Min(S) = x
  <1>1. Min(S) \in S /\ \A y \in S : Min(S) <= y
    BY DEF Min
  <1>2. Min(S) \in Nat /\ x \in Nat /\ Min(S) <= x /\ x <= Min(S)
    BY <1>1
  <1>3. QED
    BY <1>2

\* How much of what was found comes before the common start.
Dropped(r, c) == Len(Found(r, c)) - Len(Kept(r, c))

\* What is kept is what was found from the first EBP on that is not before the start.
LEMMA KeptFacts ==
    ASSUME TypeOK, NEW r \in Rows, NEW c \in Streams
    PROVE  /\ Found(r, c) \in Seq(EBPs) /\ Len(Found(r, c)) \in Nat
           /\ Len(Kept(r, c)) \in Nat /\ Dropped(r, c) \in Nat
           /\ DOMAIN Kept(r, c) = 1 .. Len(Kept(r, c))
           /\ Len(Found(r, c)) = Dropped(r, c) + Len(Kept(r, c))
           /\ \A k \in 1 .. Len(Kept(r, c)) : /\ Kept(r, c)[k] = Found(r, c)[Dropped(r, c) + k]
                                              /\ Kept(r, c)[k] \in EBPs
           /\ \A n \in 1 .. Dropped(r, c) : ~(Found(r, c)[n].PTS >= StartOf(c))
           /\ Dropped(r, c) < Len(Found(r, c)) =>
                 Found(r, c)[Dropped(r, c) + 1].PTS >= StartOf(c)
  <1> DEFINE F == Found(r, c)
             K == Kept(r, c)
             from == {k \in DOMAIN F : F[k].PTS >= StartOf(c)}
  <1>1. F \in Seq(EBPs) /\ Len(F) \in Nat /\ DOMAIN F = 1 .. Len(F)
    BY FoundFacts, LenProperties
  <1>2. CASE from = {}
    <2>1. K = <<>>
      BY <1>2 DEF Kept
    <2>2. Len(K) = 0 /\ DOMAIN K = 1 .. 0
      BY <2>1
    <2>3. Dropped(r, c) = Len(F)
      BY <1>1, <2>2 DEF Dropped
    <2>4. \A n \in 1 .. Len(F) : ~(F[n].PTS >= StartOf(c))
      BY <1>1, <1>2
    <2> HIDE DEF F, K, from
    <2>5. ~(Dropped(r, c) < Len(F)) /\ Dropped(r, c) + Len(K) = Len(F)
      BY <1>1, <2>2, <2>3
    <2>6. QED
      BY <1>1, <2>2, <2>3, <2>4, <2>5 DEF F, K
  <1>3. CASE from # {}
    <2>1. K = SubSeq(F, Min(from), Len(F))
      BY <1>3 DEF Kept
    <2>2. from \in SUBSET (1 .. Len(F))
      BY <1>1
    <2>3. PICK x \in from : \A y \in from : x <= y
      <3> HIDE DEF from, F
      <3>1. from \subseteq Nat
        BY <1>1, <2>2
      <3>2. QED
        BY <1>3, <3>1, HasMin
    <2>4. Min(from) = x /\ x \in 1 .. Len(F)
      <3> HIDE DEF from, F
      <3>1. from \in SUBSET Nat
        BY <1>1, <2>2
      <3>2. QED
        BY <2>2, <2>3, <3>1, MinIs
    <2>5. F[x].PTS >= StartOf(c)
      BY <2>3
    <2>6. \A n \in 1 .. Len(F) : n < x => ~(F[n].PTS >= StartOf(c))
      <3> SUFFICES ASSUME NEW n \in 1 .. Len(F), n < x, n \in from PROVE FALSE
        BY <1>1
      <3>1. x <= n
        BY <2>3
      <3> HIDE DEF F, from
      <3>2. QED
        BY <1>1, <2>4, <3>1
    <2> HIDE DEF F, K, from
    <2>7. /\ K \in Seq(EBPs) /\ Len(K) = Len(F) - x + 1
          /\ \A k \in 1 .. Len(F) - x + 1 : K[k] = F[x + k - 1]
      BY <1>1, <2>1, <2>4, SubSeqProperties
    <2>8. Len(K) \in Nat /\ DOMAIN K = 1 .. Len(K) /\ \A k \in 1 .. Len(K) : K[k] \in EBPs
      BY <2>7, LenProperties, ElementOfSeq
    <2>9. Dropped(r, c) = x - 1 /\ Dropped(r, c) \in Nat /\ Dropped(r, c) + Len(K) = Len(F)
      BY <1>1, <2>4, <2>7 DEF Dropped, F, K
    <2>10. PICK d \in Nat : d = Dropped(r, c) /\ x = d + 1
      BY <1>1, <2>4, <2>9
    <2>11. \A k \in 1 .. Len(K) : K[k] = F[d + k]
      <3> TAKE k \in 1 .. Len(K)
      <3>1. x + k - 1 = d + k /\ k \in 1 .. Len(F) - x + 1
        BY <1>1, <2>4, <2>7, <2>8, <2>10
      <3>2. QED
        BY <2>7, <3>1
    <2>12. \A n \in 1 .. d : ~(F[n].PTS >= StartOf(c))
      <3> TAKE n \in 1 .. d
      <3>1. n \in 1 .. Len(F) /\ n < x
        BY <1>1, <2>4, <2>10
      <3>2. QED
        BY <2>6, <3>1
    <2>13. QED
      BY <1>1, <2>5, <2>8, <2>9, <2>10, <2>11, <2>12 DEF F, K
  <1>4. QED
    BY <1>2, <1>3

\* What the verdict is of does not change.
LEMMA KeptStays ==
    ASSUME UNCHANGED arrivals
    PROVE  /\ \A r, c : /\ Found(r, c)' = Found(r, c) /\ Kept(r, c)' = Kept(r, c)
                        /\ Dropped(r, c)' = Dropped(r, c) /\ Passes(r, c)' = Passes(r, c)
           /\ \A c : StartOf(c)' = StartOf(c)
  <1>1. \A r, c : Found(r, c)' = Found(r, c)
    BY DEF Found
  <1>2. \A c : StartOf(c)' = StartOf(c)
    BY <1>1 DEF StartOf
  <1>3. \A r, c : Kept(r, c)' = Kept(r, c)
    BY <1>1, <1>2 DEF Kept
  <1>4. \A r, c : Passes(r, c)' = Passes(r, c)
    BY <1>3 DEF Passes
  <1>5. QED
    BY <1>1, <1>2, <1>3, <1>4 DEF Dropped

-----------------------------------------------------------------------------
\* The invariant about the verdict.

Pop(r, c) == fifo[<<r, c>>].pop_counter

\* In the first pass: what was peeked at so far.
SyncKnows(c) ==
    LET a == analysis[c]
        Peeked(i) == i < a.row /\ Found(i, c) # <<>>
    IN  a.pc \in {"sync", "sync_end"} =>
            /\ \A i \in Rows : /\ i \in a.fifoNotActive => Found(i, c) = <<>>
                               /\ i \notin a.fifoNotActive => Pop(i, c) = 0
                               /\ Peeked(i) => Found(i, c)[1].PTS <= a.startPTS
            /\ \/ a.startPTS = 0
               \/ \E i \in Rows : Peeked(i) /\ Found(i, c)[1].PTS = a.startPTS

\* In the second: no row is pruned beyond the start.
PruneKnows(c) ==
    LET a == analysis[c]
    IN  /\ a.pc \in {"prune", "prune_pop", "prune_end"} => 
              \A i \in Rows :
                 /\ i \in a.fifoNotActive => Len(Kept(i, c)) = 0
                 /\ i \notin a.fifoNotActive => Pop(i, c) <= Dropped(i, c)
                 /\ i \notin a.fifoNotActive /\ i < a.row => Pop(i, c) = Dropped(i, c)
        /\ a.pc = "prune_pop" => Pop(a.row, c) < Dropped(a.row, c)
        /\ a.pc \notin {"sync", "sync_end"} => a.startPTS = StartOf(c)

\* In round m + 1: the active rows passed are one ahead of the others, and the
\* first of them that has an EBP of this place is compared to.
RoundKnows(c, m) ==
    LET a == analysis[c]
    IN  /\ \A i \in Rows :
              /\ i \in a.fifoNotActive => Len(Kept(i, c)) <= m
              /\ i \notin a.fifoNotActive =>
                    Pop(i, c) = IF i < a.row THEN Dropped(i, c) + m + 1 ELSE Dropped(i, c) + m
        /\ a.first = NULL => \A i \in Rows : i < a.row => Len(Kept(i, c)) <= m
        /\ a.first # NULL =>
              \E j \in Rows : /\ j < a.row /\ m < Len(Kept(j, c))
                              /\ \A i \in Rows : i < j => Len(Kept(i, c)) <= m
                              /\ a.first = Kept(j, c)[m + 1]

\* A row that is left out was taken to its end.
OffKnows(c) == \A i \in analysis[c].fifoNotActive : Pop(i, c) = Len(Found(i, c)) + 1

ThreadKnows(c) == /\ SyncKnows(c) /\ PruneKnows(c) /\ OffKnows(c)
                  /\ analysis[c].pc = "round" => \E m \in Nat : RoundKnows(c, m)

\* The EBPs that were checked, by their places.
Seen(r, c) == {k \in 1 .. Len(Kept(r, c)) : Dropped(r, c) + k <= Pop(r, c)}

OfPartition(s, S, p) == {j \in S : s[j].partition # NULL /\ s[j].partitionId = p}
IsLast(s, S, p, x) ==
    /\ OfPartition(s, S, p) = {} => x = 0
    /\ OfPartition(s, S, p) # {} =>
          \E j \in OfPartition(s, S, p) : /\ \A i \in OfPartition(s, S, p) : i <= j
                                          /\ x = s[j].PTS

\* What the report says of one EBP.
Holds(r, c, k) ==
    LET s == Kept(r, c)
        first == Min({i \in Rows : k <= Len(Kept(i, c))})
    IN  /\ ~DiffersFrom(s[k], Kept(first, c)[k])
        /\ ~OffDistance(s[k], Previous(s, k))
        /\ ~SAPFails(s[k])

\* The verdict is that on the EBPs that were checked.
Checked(r, c) ==
    /\ streamPassFail[<<r, c>>] <=> \A k \in Seen(r, c) : Holds(r, c, k)
    /\ \A p \in Partitions : IsLast(Kept(r, c), Seen(r, c), p, lastPTS[<<r, c>>][p])

VerdictInv ==
    /\ IInv
    /\ \A r \in Rows, c \in Streams : QueueIs(r, c) /\ Checked(r, c)
    /\ \A c \in Streams : ThreadKnows(c)

-----------------------------------------------------------------------------
\* What the report says of an EBP does not depend on the state of the threads.
LEMMA HoldStays ==
    ASSUME UNCHANGED arrivals
    PROVE  \A r, c, k : Holds(r, c, k)' <=> Holds(r, c, k)
  <1>1. \A r, c : Kept(r, c)' = Kept(r, c)
    BY KeptStays
  <1>2. QED
    BY <1>1 DEF Holds

\* The verdict changes only when an EBP was checked.
LEMMA CheckedStays ==
    ASSUME NEW r, NEW c, Checked(r, c), UNCHANGED arrivals, Seen(r, c)' = Seen(r, c),
           streamPassFail'[<<r, c>>] = streamPassFail[<<r, c>>],
           lastPTS'[<<r, c>>] = lastPTS[<<r, c>>]
    PROVE  Checked(r, c)'
  <1>1. Kept(r, c)' = Kept(r, c) /\ \A k : Holds(r, c, k)' <=> Holds(r, c, k)
    BY KeptStays, HoldStays
  <1>2. QED
    BY <1>1 DEF Checked

\* A step of another thread changes nothing of what this one knows.
LEMMA KnowsStays ==
    ASSUME NEW c, ThreadKnows(c), UNCHANGED arrivals, analysis'[c] = analysis[c],
           \A r \in Rows : Pop(r, c)' = Pop(r, c), analysis[c] \in PassState,
           ThreadOK(c)
    PROVE  ThreadKnows(c)'
  <1>1. /\ \A r : /\ Found(r, c)' = Found(r, c) /\ Kept(r, c)' = Kept(r, c)
                  /\ Dropped(r, c)' = Dropped(r, c)
        /\ StartOf(c)' = StartOf(c)
    BY KeptStays
  <1>2. SyncKnows(c)'
    BY <1>1 DEF ThreadKnows, SyncKnows
  <1>3. PruneKnows(c)'
    BY <1>1 DEF ThreadKnows, PruneKnows, ThreadOK, RowIsActive
  <1>4. OffKnows(c)'
    BY <1>1 DEF ThreadKnows, OffKnows, PassState
  <1>5. ASSUME NEW m \in Nat, RoundKnows(c, m) PROVE RoundKnows(c, m)'
    BY <1>1, <1>5 DEF RoundKnows
  <1>6. QED
    BY <1>2, <1>3, <1>4, <1>5 DEF ThreadKnows

\* Which EBPs were checked, from how much was popped.
LEMMA SeenFacts ==
    ASSUME VerdictInv, NEW r \in Rows, NEW c \in Streams
    PROVE  /\ Pop(r, c) \in Nat
           /\ Pop(r, c) <= Dropped(r, c) => Seen(r, c) = {}
           /\ Pop(r, c) >= Len(Found(r, c)) => Seen(r, c) = 1 .. Len(Kept(r, c))
           /\ \A m \in 0 .. Len(Kept(r, c)) :
                 Pop(r, c) = Dropped(r, c) + m => Seen(r, c) = 1 .. m
  <1>1. Pop(r, c) \in Nat
    BY InvParts, QueueFacts DEF VerdictInv, Pop
  <1>2. /\ Len(Found(r, c)) \in Nat /\ Len(Kept(r, c)) \in Nat /\ Dropped(r, c) \in Nat
        /\ Len(Found(r, c)) = Dropped(r, c) + Len(Kept(r, c))
    BY KeptFacts, InvParts DEF VerdictInv
  <1> PICK p \in Nat, f \in Nat, n \in Nat, d \in Nat :
           p = Pop(r, c) /\ f = Len(Found(r, c)) /\ n = Len(Kept(r, c)) /\ d = Dropped(r, c)
    BY <1>1, <1>2
  <1>3. Seen(r, c) = {k \in 1 .. n : d + k <= p} /\ f = d + n
    BY <1>2 DEF Seen
  <1>4. p <= d => Seen(r, c) = {}
    BY <1>3
  <1>5. p >= f => Seen(r, c) = 1 .. n
    BY <1>3
  <1>6. \A m \in 0 .. n : p = d + m => Seen(r, c) = 1 .. m
    BY <1>3
  <1>7. QED
    BY <1>1, <1>4, <1>5, <1>6

-----------------------------------------------------------------------------
\* Pushes, peeks and pops, and what was checked.

\* An EBP of a splice sets back what its stream is measured from
\* (EBPIngestThreadCommon.c:1118) when it is posted, not when it is checked: then
\* the verdict is one of the schedule.
NoSplices == \A e \in EBPs : ~e.splice

\* What the invariant says of one row and one stream.
LEMMA VerdictParts ==
    ASSUME VerdictInv, NEW r \in Rows, NEW c \in Streams
    PROVE  /\ TypeOK /\ QueueIs(r, c) /\ Checked(r, c) /\ ThreadKnows(c)
           /\ analysis[c] \in PassState /\ ThreadOK(c) /\ <<r, c>> \in Queues
           /\ c \in Nat /\ r \in Nat
  BY InvParts, ThreadState DEF VerdictInv, Rows, Streams

\* A step that pops nothing and changes no verdict leaves what was checked.
LEMMA SeenStays ==
    ASSUME UNCHANGED arrivals, NEW r, NEW c, Pop(r, c)' = Pop(r, c)
    PROVE  Seen(r, c)' = Seen(r, c)
  BY KeptStays DEF Seen

\* What was pushed does not matter until it is taken.
LEMMA PushKnows ==
    ASSUME VerdictInv, NEW q \in Queues, NEW e \in Any, fifo_push(q, e),
           UNCHANGED <<arrivals, analysis, lastPTS, streamPassFail>>,
           NEW c \in Streams
    PROVE  ThreadKnows(c)' /\ \A r \in Rows : Checked(r, c)'
  <1>1. ASSUME NEW r \in Rows PROVE Pop(r, c)' = Pop(r, c)
    <2>1. TypeOK /\ <<r, c>> \in Queues
      BY VerdictParts
    <2>2. QED
      BY <2>1, PushStep DEF Pop
  <1>2. ThreadKnows(c) /\ analysis[c] \in PassState /\ ThreadOK(c)
    <2>1. 1 \in Rows
      BY AnalysisAssumption DEF Rows
    <2>2. QED
      BY <2>1, VerdictParts
  <1>3. ASSUME NEW r \in Rows PROVE Checked(r, c)'
    <2>1. Checked(r, c) /\ Seen(r, c)' = Seen(r, c)
      BY <1>1, VerdictParts, SeenStays
    <2>2. QED
      BY <2>1, CheckedStays
  <1>4. QED
    BY <1>1, <1>2, <1>3, KnowsStays

\* A peek or a pop: what it takes and what it leaves.
LEMMA TakeKnows ==
    ASSUME VerdictInv, NEW c \in Streams, analysis[c].row \in Rows, NEW op \in {"peek", "pop"},
           fifo_pop_peek(Queue(c), op)
    PROVE  LET i == analysis[c].row
               e == Oldest(Queue(c))
               p == Pop(i, c)
           IN  /\ p \in Nat /\ Len(Found(i, c)) \in Nat
               /\ e = NULL => p = Len(Found(i, c))
               /\ e # NULL => /\ p < Len(Found(i, c)) /\ e = Found(i, c)[p + 1]
                              /\ e \in EBPs /\ e.PTS \in Nat /\ e.partitionId \in Partitions
               /\ \A j \in Rows : /\ j = i /\ op = "pop" => Pop(j, c)' = Pop(j, c) + 1
                                  /\ j # i \/ op = "peek" => Pop(j, c)' = Pop(j, c)
               /\ \A j \in Rows, d \in Streams : d # c => Pop(j, d)' = Pop(j, d)
  <1> DEFINE i == analysis[c].row
             e == Oldest(Queue(c))
  <1>1. /\ fifo[<<i, c>>].queue # <<>> /\ e = fifo[<<i, c>>].queue[1] /\ e \in Any
        /\ \A q \in Queues : q # <<i, c>> => fifo'[q] = fifo[q]
        /\ fifo'[<<i, c>>].pop_counter = IF op = "peek" THEN fifo[<<i, c>>].pop_counter
                                         ELSE fifo[<<i, c>>].pop_counter + 1
    BY TakenFacts DEF VerdictInv, Queue
  <1>2. QueueIs(i, c) /\ IInv
    BY VerdictParts DEF VerdictInv
  <1>3. /\ Pop(i, c) \in Nat /\ Len(Found(i, c)) \in Nat
        /\ e = NULL => Pop(i, c) = Len(Found(i, c))
        /\ e # NULL => Pop(i, c) < Len(Found(i, c)) /\ e = Found(i, c)[Pop(i, c) + 1]
    BY <1>1, <1>2, HeadIs DEF Pop
  <1>4. e # NULL => e \in EBPs /\ e.PTS \in Nat /\ e.partitionId \in Partitions
    BY <1>1, AnalysisAssumption DEF Any
  <1>5. ASSUME NEW j \in Rows
        PROVE  /\ j = i /\ op = "pop" => Pop(j, c)' = Pop(j, c) + 1
               /\ j # i \/ op = "peek" => Pop(j, c)' = Pop(j, c)
    BY <1>1 DEF Pop, Queues
  <1>6. \A j \in Rows, d \in Streams : d # c => Pop(j, d)' = Pop(j, d)
    BY <1>1 DEF Pop, Queues
  <1>7. QED
    BY <1>3, <1>4, <1>5, <1>6

\* A pop of what is not checked: an EBP before the start, or the NULL at the end.
LEMMA UncheckedPop ==
    ASSUME VerdictInv, NEW r \in Rows, NEW c \in Streams, UNCHANGED arrivals, Unchecked,
           Pop(r, c)' \in {Pop(r, c), Pop(r, c) + 1},
           Pop(r, c)' # Pop(r, c) => Pop(r, c) < Dropped(r, c) \/ Pop(r, c) >= Len(Found(r, c))
    PROVE  Checked(r, c)'
  <1>1. Checked(r, c) /\ UNCHANGED <<streamPassFail, lastPTS>>
    BY VerdictParts DEF Unchecked
  <1>2. /\ Len(Found(r, c)) \in Nat /\ Len(Kept(r, c)) \in Nat /\ Dropped(r, c) \in Nat
        /\ Len(Found(r, c)) = Dropped(r, c) + Len(Kept(r, c)) /\ Pop(r, c) \in Nat
    BY VerdictParts, KeptFacts, SeenFacts
  <1>3. Seen(r, c)' = {k \in 1 .. Len(Kept(r, c)) : Dropped(r, c) + k <= Pop(r, c)'}
    BY KeptStays DEF Seen
  <1>4. \A k \in 1 .. Len(Kept(r, c)) :
           Dropped(r, c) + k <= Pop(r, c)' <=> Dropped(r, c) + k <= Pop(r, c)
    <2> PICK p \in Nat, f \in Nat, n \in Nat, d \in Nat :
           p = Pop(r, c) /\ f = Len(Found(r, c)) /\ n = Len(Kept(r, c)) /\ d = Dropped(r, c)
      BY <1>2
    <2>1. f = d + n /\ Pop(r, c)' \in {p, p + 1} /\ (Pop(r, c)' # p => p < d \/ p >= f)
      BY <1>2
    <2>2. \A k \in 1 .. n : d + k <= Pop(r, c)' <=> d + k <= p
      BY <2>1
    <2>3. QED
      BY <2>2
  <1>5. Seen(r, c)' = Seen(r, c)
    BY <1>3, <1>4 DEF Seen
  <1>6. QED
    BY <1>1, <1>5, CheckedStays

\* Then every verdict is that on what was checked.
LEMMA UncheckedStep ==
    ASSUME VerdictInv, NEW c \in Streams, analysis[c].row \in Rows, NEW op \in {"peek", "pop"},
           fifo_pop_peek(Queue(c), op), Unchecked,
           op = "pop" => \/ Oldest(Queue(c)) = NULL
                         \/ Pop(analysis[c].row, c) < Dropped(analysis[c].row, c)
    PROVE  \A r \in Rows : Checked(r, c)'
  <1>1. UNCHANGED arrivals
    BY DEF Unchecked, ingestVars
  <1>2. ASSUME NEW r \in Rows PROVE Checked(r, c)'
    <2>1. /\ Pop(r, c)' \in {Pop(r, c), Pop(r, c) + 1}
          /\ Pop(r, c)' # Pop(r, c) => Pop(r, c) < Dropped(r, c) \/ Pop(r, c) >= Len(Found(r, c))
      <3>1. CASE r # analysis[c].row
        BY <3>1, TakeKnows
      <3>2. CASE r = analysis[c].row /\ op = "peek"
        BY <3>2, TakeKnows
      <3>3. CASE r = analysis[c].row /\ op = "pop"
        <4>1. Pop(r, c)' = Pop(r, c) + 1 /\ Pop(r, c) \in Nat
          BY <3>3, TakeKnows
        <4>2. Oldest(Queue(c)) = NULL => Pop(r, c) = Len(Found(r, c)) /\ Len(Found(r, c)) \in Nat
          BY <3>3, TakeKnows
        <4>3. QED
          BY <3>3, <4>1, <4>2
      <3>4. QED
        BY <3>1, <3>2, <3>3
    <2>2. QED
      BY <1>1, <2>1, UncheckedPop
  <1>3. QED
    BY <1>2

-----------------------------------------------------------------------------
\* The passes.

\* The next row: which rows are passed.
LEMMA AdvanceFacts ==
    ASSUME NEW b \in PassState, b.row \in Rows
    PROVE  LET a == NextRow(b)
           IN  /\ a \in PassState /\ a.pc = b.pc /\ a.fifoNotActive = b.fifoNotActive
               /\ a.startPTS = b.startPTS /\ a.first = b.first
               /\ \A j \in Rows : /\ j < b.row \/ j = b.row => j < a.row
                                  /\ j < a.row => j < b.row \/ j = b.row \/ j \in b.fifoNotActive
  <1> DEFINE a == NextRow(b)
             n == RowAfter(b.row, b.fifoNotActive)
  <1>1. /\ NumFiles \in Nat /\ b.row \in 0 .. NumFiles /\ b.row \in Nat
        /\ b.fifoNotActive \in SUBSET Rows
    BY AnalysisAssumption DEF Rows, PassState
  <1>2. /\ n \in b.row + 1 .. NumFiles + 1
        /\ \A j \in Rows : b.row < j /\ j < n => j \in b.fifoNotActive
    BY <1>1, NextActive
  <1>3. n \in 1 .. NumFiles + 1 /\ n \in Nat /\ b.row < n
    <2> HIDE DEF n
    <2>1. QED
      BY <1>1, <1>2
  <1>4. a = [b EXCEPT !.row = n]
    BY DEF NextRow
  <1> HIDE DEF n, a
  <1>5. /\ a \in PassState /\ a.row = n /\ a.pc = b.pc /\ a.fifoNotActive = b.fifoNotActive
        /\ a.startPTS = b.startPTS /\ a.first = b.first
    BY <1>3, <1>4 DEF PassState
  <1>6. ASSUME NEW j \in Rows
        PROVE  /\ j < b.row \/ j = b.row => j < n
               /\ j < n => j < b.row \/ j = b.row \/ j \in b.fifoNotActive
    <2>1. j \in Nat
      BY DEF Rows
    <2>2. QED
      BY <1>1, <1>2, <1>3, <2>1
  <1>7. QED
    BY <1>5, <1>6 DEF a

\* A pass starts: what it does not change.
LEMMA StartFacts ==
    ASSUME NEW b \in PassState, NEW pass \in PassPcs
    PROVE  LET a == StartPass(b, pass)
           IN  /\ a \in PassState /\ a.pc = pass /\ a.fifoNotActive = b.fifoNotActive
               /\ a.startPTS = b.startPTS /\ a.first = NULL
               /\ \A j \in Rows : j < a.row => j \in a.fifoNotActive
  <1>1. StartPass(b, pass).startPTS = b.startPTS /\ StartPass(b, pass).first = NULL
    BY DEF StartPass, PassState
  <1>2. QED
    BY <1>1, StartPassFacts

\* What a thread knows, from the state it goes to.
LEMMA KnowsInSync ==
    ASSUME NEW c, NEW a, analysis'[c] = a, UNCHANGED arrivals, a.pc \in {"sync", "sync_end"},
           \A i \in Rows :
              /\ i \in a.fifoNotActive => Found(i, c) = <<>>
              /\ i \notin a.fifoNotActive => Pop(i, c)' = 0
              /\ i < a.row /\ Found(i, c) # <<>> => Found(i, c)[1].PTS <= a.startPTS,
           \/ a.startPTS = 0
           \/ \E i \in Rows : /\ i < a.row /\ Found(i, c) # <<>>
                              /\ Found(i, c)[1].PTS = a.startPTS,
           \A i \in a.fifoNotActive : Pop(i, c)' = Len(Found(i, c)) + 1
    PROVE  ThreadKnows(c)'
  <1>1. \A r : Found(r, c)' = Found(r, c)
    BY KeptStays
  <1>2. SyncKnows(c)'
    BY <1>1 DEF SyncKnows
  <1>3. PruneKnows(c)'
    BY DEF PruneKnows
  <1>4. OffKnows(c)'
    BY <1>1 DEF OffKnows
  <1>5. QED
    BY <1>2, <1>3, <1>4 DEF ThreadKnows

\* The same in the second pass.
LEMMA KnowsInPrune ==
    ASSUME NEW c, NEW a, analysis'[c] = a, UNCHANGED arrivals,
           a.pc \in {"prune", "prune_pop", "prune_end"},
           \A i \in Rows :
              /\ i \in a.fifoNotActive => Len(Kept(i, c)) = 0
              /\ i \notin a.fifoNotActive => Pop(i, c)' <= Dropped(i, c)
              /\ i \notin a.fifoNotActive /\ i < a.row => Pop(i, c)' = Dropped(i, c),
           a.pc = "prune_pop" =>
              a.row \in Rows /\ fifo'[<<a.row, c>>].pop_counter < Dropped(a.row, c),
           a.startPTS = StartOf(c),
           \A i \in a.fifoNotActive : Pop(i, c)' = Len(Found(i, c)) + 1
    PROVE  ThreadKnows(c)'
  <1>1. /\ \A r : /\ Found(r, c)' = Found(r, c) /\ Kept(r, c)' = Kept(r, c)
                  /\ Dropped(r, c)' = Dropped(r, c)
        /\ StartOf(c)' = StartOf(c)
    BY KeptStays
  <1>2. SyncKnows(c)'
    BY DEF SyncKnows
  <1>3. PruneKnows(c)'
    BY <1>1 DEF PruneKnows, Pop
  <1>4. OffKnows(c)'
    BY <1>1 DEF OffKnows
  <1>5. QED
    BY <1>2, <1>3, <1>4 DEF ThreadKnows

\* The same in a round.
LEMMA KnowsInRound ==
    ASSUME NEW c, NEW a, analysis'[c] = a, UNCHANGED arrivals, a.pc = "round", NEW m \in Nat,
           \A i \in Rows :
              /\ i \in a.fifoNotActive => Len(Kept(i, c)) <= m
              /\ i \notin a.fifoNotActive =>
                    Pop(i, c)' = IF i < a.row THEN Dropped(i, c) + m + 1 ELSE Dropped(i, c) + m,
           a.first = NULL => \A i \in Rows : i < a.row => Len(Kept(i, c)) <= m,
           a.first # NULL =>
              \E j \in Rows : /\ j < a.row /\ m < Len(Kept(j, c))
                              /\ \A i \in Rows : i < j => Len(Kept(i, c)) <= m
                              /\ a.first = Kept(j, c)[m + 1],
           a.startPTS = StartOf(c),
           \A i \in a.fifoNotActive : Pop(i, c)' = Len(Found(i, c)) + 1
    PROVE  ThreadKnows(c)'
  <1>1. /\ \A r : /\ Found(r, c)' = Found(r, c) /\ Kept(r, c)' = Kept(r, c)
                  /\ Dropped(r, c)' = Dropped(r, c)
        /\ StartOf(c)' = StartOf(c)
    BY KeptStays
  <1>2. SyncKnows(c)'
    BY DEF SyncKnows
  <1>3. PruneKnows(c)'
    BY <1>1 DEF PruneKnows
  <1>4. OffKnows(c)'
    BY <1>1 DEF OffKnows
  <1>5. RoundKnows(c, m)'
    BY <1>1 DEF RoundKnows
  <1>6. QED
    BY <1>2, <1>3, <1>4, <1>5 DEF ThreadKnows

-----------------------------------------------------------------------------
\* The first pass.

\* What the invariant says of one thread.
LEMMA ThreadParts ==
    ASSUME VerdictInv, NEW c \in Streams
    PROVE  /\ IInv /\ TypeOK /\ ThreadKnows(c) /\ analysis[c] \in PassState /\ ThreadOK(c)
           /\ \A a : Set(c, a) => analysis'[c] = a
           /\ Unchecked => UNCHANGED arrivals
  <1>1. 1 \in Rows
    BY AnalysisAssumption DEF Rows
  <1>2. QED
    BY <1>1, VerdictParts, ThreadState DEF VerdictInv, Unchecked, ingestVars

\* The first peek at a queue finds the first of its EBPs, or that it has none.
LEMMA SyncPeekKnows ==
    ASSUME VerdictInv, NEW c \in Streams, SyncPeek(c)
    PROVE  ThreadKnows(c)' /\ \A r \in Rows : Checked(r, c)'
  <1> DEFINE b == analysis[c]
             e == Oldest(Queue(c))
             later == [b EXCEPT !.startPTS = IF e.PTS > @ THEN e.PTS ELSE @]
             end == [b EXCEPT !.pc = "sync_end"]
  <1>1. /\ b.pc = "sync" /\ b.row \in Rows /\ fifo_pop_peek(Queue(c), "peek") /\ Unchecked
        /\ Set(c, IF e = NULL THEN end ELSE NextRow(later))
    BY DEF SyncPeek, At
  <1>2. /\ b \in PassState /\ UNCHANGED arrivals /\ SyncKnows(c) /\ OffKnows(c)
        /\ b.row \notin b.fifoNotActive
    BY <1>1, ThreadParts DEF ThreadKnows, ThreadOK, RowIsActive
  <1>3. /\ e # NULL => /\ Found(b.row, c) # <<>> /\ e = Found(b.row, c)[1] /\ e.PTS \in Nat
        /\ \A j \in Rows : Pop(j, c)' = Pop(j, c)
    <2>1. Pop(b.row, c) = 0
      BY <1>1, <1>2 DEF SyncKnows
    <2>2. /\ e # NULL => /\ 0 < Len(Found(b.row, c)) /\ e = Found(b.row, c)[0 + 1] /\ e.PTS \in Nat
          /\ \A j \in Rows : Pop(j, c)' = Pop(j, c)
      BY <1>1, <2>1, TakeKnows
    <2> HIDE DEF e
    <2>3. QED
      BY <2>2
  <1>4. \A r \in Rows : Checked(r, c)'
    BY <1>1, UncheckedStep
  <1>5. /\ \A i \in b.fifoNotActive : Pop(i, c)' = Len(Found(i, c)) + 1
        /\ \A i \in Rows : /\ i \in b.fifoNotActive => Found(i, c) = <<>>
                           /\ i \notin b.fifoNotActive => Pop(i, c)' = 0
                           /\ i < b.row /\ Found(i, c) # <<>> => Found(i, c)[1].PTS <= b.startPTS
        /\ \/ b.startPTS = 0
           \/ \E i \in Rows : /\ i < b.row /\ Found(i, c) # <<>>
                              /\ Found(i, c)[1].PTS = b.startPTS
    BY <1>1, <1>2, <1>3 DEF SyncKnows, OffKnows, PassState
  <1>6. CASE e = NULL
    <2>1. /\ analysis'[c] = end /\ end.pc = "sync_end" /\ end.row = b.row
          /\ end.startPTS = b.startPTS /\ end.fifoNotActive = b.fifoNotActive
      BY <1>1, <1>2, <1>6, ThreadParts DEF PassState
    <2> HIDE DEF b, e, end
    <2>2. ThreadKnows(c)'
      BY <1>2, <1>5, <2>1, KnowsInSync
    <2>3. QED
      BY <1>4, <2>2
  <1>7. CASE e # NULL
    <2> DEFINE a == NextRow(later)
    <2>1. b.startPTS \in Nat /\ b.row \in Nat
      BY <1>1, <1>2 DEF PassState, Rows
    <2>2. /\ later \in PassState /\ later.pc = "sync" /\ later.row = b.row
          /\ later.fifoNotActive = b.fifoNotActive
          /\ later.startPTS = IF e.PTS > b.startPTS THEN e.PTS ELSE b.startPTS
      BY <1>1, <1>2, <1>3, <1>7 DEF PassState
    <2> HIDE DEF later
    <2>3. /\ a.pc = "sync" /\ a.fifoNotActive = b.fifoNotActive
          /\ a.startPTS = IF e.PTS > b.startPTS THEN e.PTS ELSE b.startPTS
          /\ \A j \in Rows : /\ j < b.row \/ j = b.row => j < a.row
                             /\ j < a.row => j < b.row \/ j = b.row \/ j \in b.fifoNotActive
          /\ analysis'[c] = a
      BY <1>1, <1>7, <2>2, AdvanceFacts, ThreadParts
    <2>4. /\ e.PTS <= a.startPTS /\ a.startPTS \in {e.PTS, b.startPTS} /\ a.startPTS \in Nat
          /\ b.startPTS <= a.startPTS
      BY <1>3, <1>7, <2>1, <2>3
    <2> HIDE DEF a, b, e
    <2>5. ASSUME NEW i \in Rows, i < a.row, Found(i, c) # <<>>
          PROVE  Found(i, c)[1].PTS <= a.startPTS
      <3>1. i < b.row \/ i = b.row
        BY <1>5, <2>3, <2>5
      <3>2. CASE i = b.row
        BY <1>3, <1>7, <2>4, <3>2
      <3>3. CASE i < b.row
        <4>1. Found(i, c)[1] \in EBPs
          <5>1. Found(i, c) \in Seq(EBPs)
            BY ThreadParts, FoundFacts
          <5>2. 1 \in 1 .. Len(Found(i, c))
            BY <2>5, <5>1, EmptySeq, LenProperties
          <5>3. QED
            BY <5>1, <5>2, ElementOfSeq
        <4>2. Found(i, c)[1].PTS \in Nat
          BY <4>1, AnalysisAssumption
        <4>3. Found(i, c)[1].PTS <= b.startPTS
          BY <1>5, <2>5, <3>3
        <4>4. QED
          BY <2>1, <2>4, <4>2, <4>3
      <3>4. QED
        BY <3>1, <3>2, <3>3
    <2>6. \/ a.startPTS = 0
          \/ \E i \in Rows : i < a.row /\ Found(i, c) # <<>> /\ Found(i, c)[1].PTS = a.startPTS
      <3>1. CASE a.startPTS = e.PTS
        BY <1>1, <1>3, <1>7, <2>3, <3>1
      <3>2. CASE a.startPTS = b.startPTS
        BY <1>5, <2>3, <3>2
      <3>3. QED
        BY <2>4, <3>1, <3>2
    <2>7. ThreadKnows(c)'
      BY <1>2, <1>5, <2>3, <2>5, <2>6, KnowsInSync
    <2>8. QED
      BY <1>4, <2>7
  <1>8. QED
    BY <1>6, <1>7

\* The pop of a NULL leaves a row out, taken to its end.
LEMMA EndKnows ==
    ASSUME VerdictInv, NEW c \in Streams, analysis[c].row \in Rows, fifo_pop_peek(Queue(c), "pop"),
           Oldest(Queue(c)) = NULL, NEW off, off = analysis[c].fifoNotActive \cup {analysis[c].row}
    PROVE  /\ off \in SUBSET Rows
           /\ Pop(analysis[c].row, c) = Len(Found(analysis[c].row, c))
           /\ \A i \in off : Pop(i, c)' = Len(Found(i, c)) + 1
           /\ \A i \in Rows : i \notin off => /\ i \notin analysis[c].fifoNotActive
                                             /\ Pop(i, c)' = Pop(i, c)
  <1> DEFINE b == analysis[c]
  <1>1. /\ b \in PassState /\ OffKnows(c) /\ b.row \notin b.fifoNotActive
    BY ThreadParts DEF ThreadKnows, ThreadOK, RowIsActive
  <1>2. /\ Pop(b.row, c) = Len(Found(b.row, c))
        /\ \A i \in Rows : /\ i = b.row => Pop(i, c)' = Pop(i, c) + 1
                           /\ i # b.row => Pop(i, c)' = Pop(i, c)
    BY TakeKnows
  <1>3. off \in SUBSET Rows
    BY <1>1 DEF PassState
  <1> HIDE DEF b
  <1>4. ASSUME NEW i \in off PROVE Pop(i, c)' = Len(Found(i, c)) + 1
    BY <1>1, <1>2, <1>3 DEF OffKnows, b
  <1>5. QED
    BY <1>2, <1>3, <1>4 DEF b

\* A row without EBPs is left out of the first pass.
LEMMA SyncEndKnows ==
    ASSUME VerdictInv, NEW c \in Streams, SyncEnd(c)
    PROVE  ThreadKnows(c)' /\ \A r \in Rows : Checked(r, c)'
  <1> DEFINE b == analysis[c]
             off == b.fifoNotActive \cup {b.row}
             left == [b EXCEPT !.pc = "sync", !.fifoNotActive = off]
             a == NextRow(left)
  <1>1. /\ b.pc = "sync_end" /\ b.row \in Rows /\ fifo_pop_peek(Queue(c), "pop") /\ Unchecked
        /\ Set(c, a)
    BY DEF SyncEnd, EndRow, At
  <1>2. /\ b \in PassState /\ UNCHANGED arrivals /\ SyncKnows(c) /\ IInv
        /\ b.row \notin b.fifoNotActive /\ fifo[Queue(c)].queue[1] = NULL /\ analysis'[c] = a
    BY <1>1, ThreadParts DEF ThreadKnows, ThreadOK, RowIsActive, Queue
  <1>3. Oldest(Queue(c)) = NULL
    BY <1>1, <1>2, TakenFacts
  <1>4. \A r \in Rows : Checked(r, c)'
    BY <1>1, <1>3, UncheckedStep
  <1>5. /\ off \in SUBSET Rows /\ Pop(b.row, c) = Len(Found(b.row, c))
        /\ \A i \in off : Pop(i, c)' = Len(Found(i, c)) + 1
        /\ \A i \in Rows : i \notin off => i \notin b.fifoNotActive /\ Pop(i, c)' = Pop(i, c)
    BY <1>1, <1>3, EndKnows
  <1>6. Found(b.row, c) = <<>>
    <2>1. Len(Found(b.row, c)) = 0
      BY <1>1, <1>2, <1>5 DEF SyncKnows
    <2>2. Found(b.row, c) \in Seq(EBPs)
      BY <1>1, ThreadParts, FoundFacts
    <2>3. QED
      BY <2>1, <2>2, EmptySeq
  <1>7. /\ left \in PassState /\ left.pc = "sync" /\ left.row = b.row
        /\ left.fifoNotActive = off /\ left.startPTS = b.startPTS
    BY <1>2, <1>5 DEF PassState
  <1> HIDE DEF left
  <1>8. /\ a.pc = "sync" /\ a.fifoNotActive = off /\ a.startPTS = b.startPTS
        /\ \A j \in Rows : /\ j < b.row \/ j = b.row => j < a.row
                           /\ j < a.row => j < b.row \/ j = b.row \/ j \in off
    BY <1>1, <1>7, AdvanceFacts
  <1> HIDE DEF a
  <1>9. /\ \A i \in Rows : /\ i \in off => Found(i, c) = <<>>
                           /\ i \notin off => Pop(i, c)' = 0
                           /\ i < a.row /\ Found(i, c) # <<>> => Found(i, c)[1].PTS <= a.startPTS
        /\ \/ a.startPTS = 0
           \/ \E i \in Rows : i < a.row /\ Found(i, c) # <<>> /\ Found(i, c)[1].PTS = a.startPTS
    BY <1>1, <1>2, <1>5, <1>6, <1>8 DEF SyncKnows
  <1> HIDE DEF b, off
  <1>10. ThreadKnows(c)'
    BY <1>2, <1>5, <1>8, <1>9, KnowsInSync
  <1>11. QED
    BY <1>4, <1>10

-----------------------------------------------------------------------------
\* The second pass.

\* Between two passes nothing is popped and nothing is checked.
LEMMA PassEndChecked ==
    ASSUME VerdictInv, NEW c \in Streams, UNCHANGED fifo, Unchecked
    PROVE  /\ \A r \in Rows : Checked(r, c)'
           /\ \A r, d : Pop(r, d)' = Pop(r, d)
  <1>1. UNCHANGED <<arrivals, streamPassFail, lastPTS>>
    BY DEF Unchecked, ingestVars
  <1>2. \A r, d : Pop(r, d)' = Pop(r, d)
    BY DEF Pop
  <1>3. ASSUME NEW r \in Rows PROVE Checked(r, c)'
    BY <1>1, <1>2, VerdictParts, SeenStays, CheckedStays
  <1>4. QED
    BY <1>2, <1>3

\* When every queue was peeked at, the latest PTS seen is the common start.
LEMMA SyncDoneKnows ==
    ASSUME VerdictInv, NEW c \in Streams, SyncDone(c)
    PROVE  ThreadKnows(c)' /\ \A r \in Rows : Checked(r, c)'
  <1> DEFINE b == analysis[c]
             a == StartPass(b, "prune")
  <1>1. /\ b.pc = "sync" /\ b.row > NumFiles /\ Set(c, a) /\ UNCHANGED fifo /\ Unchecked
    BY DEF SyncDone, PassEnds
  <1>2. /\ b \in PassState /\ UNCHANGED arrivals /\ SyncKnows(c) /\ OffKnows(c) /\ TypeOK
        /\ analysis'[c] = a
    BY <1>1, ThreadParts DEF ThreadKnows
  <1>3. /\ \A r \in Rows : Checked(r, c)'
        /\ \A r : Pop(r, c)' = Pop(r, c)
    BY <1>1, PassEndChecked
  <1>4. /\ a.pc = "prune" /\ a.fifoNotActive = b.fifoNotActive /\ a.startPTS = b.startPTS
        /\ \A j \in Rows : j < a.row => j \in a.fifoNotActive
    BY <1>2, StartFacts DEF PassPcs
  <1>5. \A i \in Rows : i < b.row
    BY <1>1, <1>2, AnalysisAssumption DEF Rows, PassState
  <1>6. ASSUME NEW i \in Rows, Found(i, c) # <<>>
        PROVE  Found(i, c)[1].PTS \in Nat
    <2>1. Found(i, c) \in Seq(EBPs)
      BY <1>2, FoundFacts
    <2>2. 1 \in 1 .. Len(Found(i, c))
      BY <1>6, <2>1, EmptySeq, LenProperties
    <2>3. QED
      BY <2>1, <2>2, ElementOfSeq, AnalysisAssumption
  <1>7. b.startPTS = StartOf(c)
    <2> DEFINE S == {0} \cup {Found(r, c)[1].PTS : r \in {r \in Rows : Found(r, c) # <<>>}}
    <2>1. S \in SUBSET Nat
      BY <1>6
    <2>2. b.startPTS \in S
      BY <1>1, <1>2 DEF SyncKnows
    <2>3. \A y \in S : y <= b.startPTS
      <3>1. 0 <= b.startPTS
        BY <1>2 DEF PassState
      <3>2. ASSUME NEW i \in Rows, Found(i, c) # <<>> PROVE Found(i, c)[1].PTS <= b.startPTS
        BY <1>1, <1>2, <1>5, <3>2 DEF SyncKnows
      <3>3. QED
        BY <3>1, <3>2
    <2>4. StartOf(c) = Max(S)
      BY DEF StartOf
    <2> HIDE DEF S, b
    <2>5. QED
      BY <2>1, <2>2, <2>3, <2>4, MaxIs
  <1>8. ASSUME NEW i \in Rows
        PROVE  /\ i \in a.fifoNotActive => Len(Kept(i, c)) = 0
               /\ i \notin a.fifoNotActive => Pop(i, c)' <= Dropped(i, c)
               /\ i \notin a.fifoNotActive /\ i < a.row => Pop(i, c)' = Dropped(i, c)
    <2>1. /\ Len(Kept(i, c)) \in Nat /\ Dropped(i, c) \in Nat
          /\ Len(Found(i, c)) = Dropped(i, c) + Len(Kept(i, c))
      BY <1>2, KeptFacts
    <2>2. i \in a.fifoNotActive => Len(Found(i, c)) = 0
      BY <1>1, <1>2, <1>4, EmptySeq DEF SyncKnows
    <2>3. i \notin a.fifoNotActive => Pop(i, c)' = 0
      BY <1>1, <1>2, <1>3, <1>4 DEF SyncKnows
    <2> HIDE DEF a
    <2>4. i \in a.fifoNotActive => Len(Kept(i, c)) = 0
      BY <2>1, <2>2
    <2>5. i \notin a.fifoNotActive => Pop(i, c)' <= Dropped(i, c)
      BY <2>1, <2>3
    <2>6. QED
      BY <1>4, <2>4, <2>5
  <1>9. \A i \in a.fifoNotActive : Pop(i, c)' = Len(Found(i, c)) + 1
    BY <1>2, <1>3, <1>4 DEF OffKnows
  <1> HIDE DEF a, b
  <1>10. ThreadKnows(c)'
    BY <1>2, <1>4, <1>7, <1>8, <1>9, KnowsInPrune
  <1>11. QED
    BY <1>3, <1>10

\* What lies before the start is not at the place of the first that is kept.
LEMMA BeforeStartFacts ==
    ASSUME TypeOK, NEW r \in Rows, NEW c \in Streams, NEW p \in Nat, p < Len(Found(r, c)),
           p <= Dropped(r, c), StartOf(c) \in Nat
    PROVE  Found(r, c)[p + 1].PTS < StartOf(c) <=> p < Dropped(r, c)
  <1>1. /\ Found(r, c) \in Seq(EBPs) /\ Len(Found(r, c)) \in Nat /\ Dropped(r, c) \in Nat
        /\ \A n \in 1 .. Dropped(r, c) : ~(Found(r, c)[n].PTS >= StartOf(c))
        /\ Dropped(r, c) < Len(Found(r, c)) => Found(r, c)[Dropped(r, c) + 1].PTS >= StartOf(c)
    BY KeptFacts
  <1>2. p + 1 \in 1 .. Len(Found(r, c))
    BY <1>1
  <1>3. Found(r, c)[p + 1] \in EBPs
    BY <1>1, <1>2, ElementOfSeq
  <1>4. Found(r, c)[p + 1].PTS \in Nat
    BY <1>3, AnalysisAssumption
  <1>5. CASE p < Dropped(r, c)
    <2>1. p + 1 \in 1 .. Dropped(r, c)
      BY <1>1, <1>5
    <2>2. ~(Found(r, c)[p + 1].PTS >= StartOf(c))
      BY <1>1, <2>1
    <2>3. QED
      BY <1>4, <1>5, <2>2
  <1>6. CASE ~(p < Dropped(r, c))
    <2>1. p = Dropped(r, c)
      BY <1>1, <1>6
    <2>2. Found(r, c)[p + 1].PTS >= StartOf(c)
      BY <1>1, <2>1
    <2>3. QED
      BY <1>4, <1>6, <2>2
  <1>7. QED
    BY <1>5, <1>6

\* A peek in the second pass: the EBP at the head is pruned exactly if it is not kept.
LEMMA PrunePeekKnows ==
    ASSUME VerdictInv, NEW c \in Streams, PrunePeek(c)
    PROVE  ThreadKnows(c)' /\ \A r \in Rows : Checked(r, c)'
  <1> DEFINE b == analysis[c]
             e == Oldest(Queue(c))
             end == [b EXCEPT !.pc = "prune_end"]
             pop == [b EXCEPT !.pc = "prune_pop"]
             next == NextRow(b)
  <1>1. /\ b.pc = "prune" /\ b.row \in Rows /\ fifo_pop_peek(Queue(c), "peek") /\ Unchecked
        /\ Set(c, IF e = NULL THEN end ELSE IF BeforeStart(e, b.startPTS) THEN pop ELSE next)
    BY DEF PrunePeek, At
  <1>2. /\ b \in PassState /\ UNCHANGED arrivals /\ PruneKnows(c) /\ OffKnows(c) /\ TypeOK
        /\ b.row \notin b.fifoNotActive
    BY <1>1, ThreadParts DEF ThreadKnows, ThreadOK, RowIsActive
  <1>3. \A r \in Rows : Checked(r, c)'
    BY <1>1, UncheckedStep
  <1>4. /\ \A j \in Rows : Pop(j, c)' = Pop(j, c)
        /\ Pop(b.row, c) \in Nat
        /\ e # NULL => /\ Pop(b.row, c) < Len(Found(b.row, c))
                       /\ e = Found(b.row, c)[Pop(b.row, c) + 1]
    BY <1>1, TakeKnows
  <1>5. /\ \A i \in b.fifoNotActive : Pop(i, c)' = Len(Found(i, c)) + 1
        /\ \A i \in Rows :
              /\ i \in b.fifoNotActive => Len(Kept(i, c)) = 0
              /\ i \notin b.fifoNotActive => Pop(i, c)' <= Dropped(i, c)
              /\ i \notin b.fifoNotActive /\ i < b.row => Pop(i, c)' = Dropped(i, c)
        /\ b.startPTS = StartOf(c) /\ b.startPTS \in Nat
        /\ Pop(b.row, c) <= Dropped(b.row, c)
    BY <1>1, <1>2, <1>4 DEF PruneKnows, OffKnows, PassState
  <1>6. e # NULL => (BeforeStart(e, b.startPTS) <=> Pop(b.row, c) < Dropped(b.row, c))
    <2> SUFFICES ASSUME e # NULL
                 PROVE  BeforeStart(e, b.startPTS) <=> Pop(b.row, c) < Dropped(b.row, c)
      OBVIOUS
    <2>1. Found(b.row, c)[Pop(b.row, c) + 1].PTS < StartOf(c) <=> Pop(b.row, c) < Dropped(b.row, c)
      BY <1>1, <1>2, <1>4, <1>5, BeforeStartFacts
    <2>2. QED
      BY <1>4, <1>5, <2>1 DEF BeforeStart
  <1>7. CASE e = NULL
    <2>1. /\ analysis'[c] = end /\ end.pc = "prune_end" /\ end.row = b.row
          /\ end.startPTS = b.startPTS /\ end.fifoNotActive = b.fifoNotActive
      BY <1>1, <1>2, <1>7, ThreadParts DEF PassState
    <2> HIDE DEF b, e, end
    <2>2. ThreadKnows(c)'
      BY <1>2, <1>5, <2>1, KnowsInPrune
    <2>3. QED
      BY <1>3, <2>2
  <1>8. CASE e # NULL /\ BeforeStart(e, b.startPTS)
    <2>1. /\ analysis'[c] = pop /\ pop.pc = "prune_pop" /\ pop.row = b.row
          /\ pop.startPTS = b.startPTS /\ pop.fifoNotActive = b.fifoNotActive
      BY <1>1, <1>2, <1>8, ThreadParts DEF PassState
    <2>2. fifo'[<<b.row, c>>].pop_counter < Dropped(b.row, c)
      BY <1>1, <1>4, <1>6, <1>8 DEF Pop
    <2> HIDE DEF b, e, pop
    <2>3. ThreadKnows(c)'
      BY <1>1, <1>2, <1>5, <2>1, <2>2, KnowsInPrune
    <2>4. QED
      BY <1>3, <2>3
  <1>9. CASE e # NULL /\ ~BeforeStart(e, b.startPTS)
    <2>1. /\ next.pc = "prune" /\ next.fifoNotActive = b.fifoNotActive
          /\ next.startPTS = b.startPTS
          /\ \A j \in Rows : j < next.row => j < b.row \/ j = b.row \/ j \in b.fifoNotActive
          /\ analysis'[c] = next
      BY <1>1, <1>2, <1>9, AdvanceFacts, ThreadParts
    <2>2. Pop(b.row, c) = Dropped(b.row, c)
      <3>1. Dropped(b.row, c) \in Nat
        BY <1>1, <1>2, KeptFacts
      <3>2. ~(Pop(b.row, c) < Dropped(b.row, c))
        BY <1>6, <1>9
      <3>3. QED
        BY <1>4, <1>5, <3>1, <3>2
    <2>3. \A i \in Rows : i \notin next.fifoNotActive /\ i < next.row => Pop(i, c)' = Dropped(i, c)
      BY <1>4, <1>5, <2>1, <2>2
    <2> HIDE DEF b, e, next
    <2>4. ThreadKnows(c)'
      BY <1>2, <1>5, <2>1, <2>3, KnowsInPrune
    <2>5. QED
      BY <1>3, <2>4
  <1>10. QED
    BY <1>7, <1>8, <1>9

\* An EBP before the start is dropped.
LEMMA PrunePopKnows ==
    ASSUME VerdictInv, NEW c \in Streams, PrunePop(c)
    PROVE  ThreadKnows(c)' /\ \A r \in Rows : Checked(r, c)'
  <1> DEFINE b == analysis[c]
             a == [b EXCEPT !.pc = "prune"]
  <1>1. /\ b.pc = "prune_pop" /\ b.row \in Rows /\ fifo_pop_peek(Queue(c), "pop") /\ Unchecked
        /\ Set(c, a)
    BY DEF PrunePop, At
  <1>2. /\ b \in PassState /\ UNCHANGED arrivals /\ PruneKnows(c) /\ OffKnows(c) /\ TypeOK
        /\ b.row \notin b.fifoNotActive /\ analysis'[c] = a
    BY <1>1, ThreadParts DEF ThreadKnows, ThreadOK, RowIsActive
  <1>3. Pop(b.row, c) < Dropped(b.row, c)
    BY <1>1, <1>2 DEF PruneKnows
  <1>4. \A r \in Rows : Checked(r, c)'
    BY <1>1, <1>3, UncheckedStep
  <1>5. /\ \A j \in Rows : /\ j = b.row => Pop(j, c)' = Pop(j, c) + 1
                           /\ j # b.row => Pop(j, c)' = Pop(j, c)
        /\ Pop(b.row, c) \in Nat
    BY <1>1, TakeKnows
  <1>6. /\ a.pc = "prune" /\ a.row = b.row /\ a.startPTS = b.startPTS
        /\ a.fifoNotActive = b.fifoNotActive
    BY <1>2 DEF PassState
  <1>7. /\ b.startPTS = StartOf(c)
        /\ \A i \in b.fifoNotActive : Pop(i, c)' = Len(Found(i, c)) + 1
    BY <1>1, <1>2, <1>5 DEF PruneKnows, OffKnows, PassState
  <1>8. ASSUME NEW i \in Rows
        PROVE  /\ i \in b.fifoNotActive => Len(Kept(i, c)) = 0
               /\ i \notin b.fifoNotActive => Pop(i, c)' <= Dropped(i, c)
               /\ i \notin b.fifoNotActive /\ i < b.row => Pop(i, c)' = Dropped(i, c)
    <2>1. /\ i \in b.fifoNotActive => Len(Kept(i, c)) = 0
          /\ i \notin b.fifoNotActive => Pop(i, c) <= Dropped(i, c)
          /\ i \notin b.fifoNotActive /\ i < b.row => Pop(i, c) = Dropped(i, c)
      BY <1>1, <1>2 DEF PruneKnows
    <2>2. CASE i # b.row
      BY <1>5, <2>1, <2>2
    <2>3. CASE i = b.row
      <3>1. Dropped(i, c) \in Nat /\ ~(i < b.row)
        BY <1>2, <2>3, KeptFacts DEF Rows
      <3>2. Pop(i, c)' <= Dropped(i, c)
        BY <1>3, <1>5, <2>3, <3>1
      <3>3. QED
        BY <1>2, <2>3, <3>1, <3>2
    <2>4. QED
      BY <2>2, <2>3
  <1> HIDE DEF a, b
  <1>9. ThreadKnows(c)'
    BY <1>2, <1>6, <1>7, <1>8, KnowsInPrune
  <1>10. QED
    BY <1>4, <1>9

\* A row that has nothing after the start is left out of the second pass.
LEMMA PruneEndKnows ==
    ASSUME VerdictInv, NEW c \in Streams, PruneEnd(c)
    PROVE  ThreadKnows(c)' /\ \A r \in Rows : Checked(r, c)'
  <1> DEFINE b == analysis[c]
             off == b.fifoNotActive \cup {b.row}
             left == [b EXCEPT !.pc = "prune", !.fifoNotActive = off]
             a == NextRow(left)
  <1>1. /\ b.pc = "prune_end" /\ b.row \in Rows /\ fifo_pop_peek(Queue(c), "pop") /\ Unchecked
        /\ Set(c, a)
    BY DEF PruneEnd, EndRow, At
  <1>2. /\ b \in PassState /\ UNCHANGED arrivals /\ PruneKnows(c) /\ IInv /\ TypeOK
        /\ b.row \notin b.fifoNotActive /\ fifo[Queue(c)].queue[1] = NULL /\ analysis'[c] = a
    BY <1>1, ThreadParts DEF ThreadKnows, ThreadOK, RowIsActive, Queue
  <1>3. Oldest(Queue(c)) = NULL
    BY <1>1, <1>2, TakenFacts
  <1>4. \A r \in Rows : Checked(r, c)'
    BY <1>1, <1>3, UncheckedStep
  <1>5. /\ off \in SUBSET Rows /\ Pop(b.row, c) = Len(Found(b.row, c))
        /\ \A i \in off : Pop(i, c)' = Len(Found(i, c)) + 1
        /\ \A i \in Rows : i \notin off => i \notin b.fifoNotActive /\ Pop(i, c)' = Pop(i, c)
    BY <1>1, <1>3, EndKnows
  <1>6. Len(Kept(b.row, c)) = 0
    <2>1. Pop(b.row, c) <= Dropped(b.row, c)
      BY <1>1, <1>2 DEF PruneKnows
    <2>2. /\ Len(Kept(b.row, c)) \in Nat /\ Dropped(b.row, c) \in Nat
          /\ Len(Found(b.row, c)) = Dropped(b.row, c) + Len(Kept(b.row, c))
      BY <1>1, <1>2, KeptFacts
    <2>3. QED
      BY <1>5, <2>1, <2>2
  <1>7. /\ left \in PassState /\ left.pc = "prune" /\ left.row = b.row
        /\ left.fifoNotActive = off /\ left.startPTS = b.startPTS
    BY <1>2, <1>5 DEF PassState
  <1> HIDE DEF left
  <1>8. /\ a.pc = "prune" /\ a.fifoNotActive = off /\ a.startPTS = b.startPTS
        /\ \A j \in Rows : j < a.row => j < b.row \/ j = b.row \/ j \in off
    BY <1>1, <1>7, AdvanceFacts
  <1> HIDE DEF a
  <1>9. /\ \A i \in Rows : /\ i \in off => Len(Kept(i, c)) = 0
                           /\ i \notin off => Pop(i, c)' <= Dropped(i, c)
                           /\ i \notin off /\ i < a.row => Pop(i, c)' = Dropped(i, c)
        /\ b.startPTS = StartOf(c)
    BY <1>1, <1>2, <1>5, <1>6, <1>8 DEF PruneKnows
  <1> HIDE DEF b, off
  <1>10. ThreadKnows(c)'
    BY <1>2, <1>5, <1>8, <1>9, KnowsInPrune
  <1>11. QED
    BY <1>4, <1>10

-----------------------------------------------------------------------------
\* The rounds.

\* Every active row is at the common start: the first round.
LEMMA PruneDoneKnows ==
    ASSUME VerdictInv, NEW c \in Streams, PruneDone(c)
    PROVE  ThreadKnows(c)' /\ \A r \in Rows : Checked(r, c)'
  <1> DEFINE b == analysis[c]
             a == StartPass(b, "round")
  <1>1. /\ b.pc = "prune" /\ b.row > NumFiles /\ Set(c, a) /\ UNCHANGED fifo /\ Unchecked
    BY DEF PruneDone, PassEnds
  <1>2. /\ b \in PassState /\ UNCHANGED arrivals /\ PruneKnows(c) /\ OffKnows(c) /\ TypeOK
        /\ analysis'[c] = a
    BY <1>1, ThreadParts DEF ThreadKnows
  <1>3. /\ \A r \in Rows : Checked(r, c)'
        /\ \A r : Pop(r, c)' = Pop(r, c)
    BY <1>1, PassEndChecked
  <1>4. /\ a.pc = "round" /\ a.fifoNotActive = b.fifoNotActive /\ a.startPTS = b.startPTS
        /\ a.first = NULL /\ \A j \in Rows : j < a.row => j \in a.fifoNotActive
    BY <1>2, StartFacts DEF PassPcs
  <1>5. \A i \in Rows : i < b.row
    BY <1>1, <1>2, AnalysisAssumption DEF Rows, PassState
  <1>6. /\ a.startPTS = StartOf(c)
        /\ \A i \in a.fifoNotActive : Pop(i, c)' = Len(Found(i, c)) + 1
    BY <1>1, <1>2, <1>3, <1>4 DEF PruneKnows, OffKnows
  <1>7. ASSUME NEW i \in Rows
        PROVE  /\ i \in a.fifoNotActive => Len(Kept(i, c)) <= 0
               /\ i \notin a.fifoNotActive =>
                    Pop(i, c)' = IF i < a.row THEN Dropped(i, c) + 0 + 1 ELSE Dropped(i, c) + 0
    <2>1. i \in a.fifoNotActive => Len(Kept(i, c)) = 0
      BY <1>1, <1>2, <1>4 DEF PruneKnows
    <2>2. i \notin a.fifoNotActive => Pop(i, c)' = Dropped(i, c) /\ ~(i < a.row)
      BY <1>1, <1>2, <1>3, <1>4, <1>5 DEF PruneKnows
    <2>3. Dropped(i, c) \in Nat
      BY <1>2, KeptFacts
    <2> HIDE DEF a
    <2>4. QED
      BY <2>1, <2>2, <2>3
  <1>8. \A i \in Rows : i < a.row => Len(Kept(i, c)) <= 0
    BY <1>4, <1>7
  <1> HIDE DEF a, b
  <1>9. ThreadKnows(c)'
    BY <1>2, <1>4, <1>6, <1>7, <1>8, KnowsInRound
  <1>10. QED
    BY <1>3, <1>9

\* The round a thread is in.
LEMMA InRound ==
    ASSUME VerdictInv, NEW c \in Streams, analysis[c].pc = "round"
    PROVE  \E m \in Nat : RoundKnows(c, m)
  BY ThreadParts DEF ThreadKnows

\* A row has no EBP of the round: it is left out.
LEMMA RoundEndsRowKnows ==
    ASSUME VerdictInv, NEW c \in Streams, RoundEndsRow(c)
    PROVE  ThreadKnows(c)' /\ \A r \in Rows : Checked(r, c)'
  <1> DEFINE b == analysis[c]
             off == b.fifoNotActive \cup {b.row}
             left == [b EXCEPT !.fifoNotActive = off]
             a == NextRow(left)
  <1>1. /\ b.pc = "round" /\ b.row \in Rows /\ fifo_pop_peek(Queue(c), "pop") /\ Unchecked
        /\ Oldest(Queue(c)) = NULL /\ Set(c, a)
    BY DEF RoundEndsRow, At
  <1>2. /\ b \in PassState /\ UNCHANGED arrivals /\ PruneKnows(c) /\ TypeOK
        /\ b.row \notin b.fifoNotActive /\ analysis'[c] = a
    BY <1>1, ThreadParts DEF ThreadKnows, ThreadOK, RowIsActive
  <1>3. \A r \in Rows : Checked(r, c)'
    BY <1>1, UncheckedStep
  <1>4. /\ off \in SUBSET Rows /\ Pop(b.row, c) = Len(Found(b.row, c))
        /\ \A i \in off : Pop(i, c)' = Len(Found(i, c)) + 1
        /\ \A i \in Rows : i \notin off => i \notin b.fifoNotActive /\ Pop(i, c)' = Pop(i, c)
    BY <1>1, EndKnows
  <1>5. PICK m \in Nat : RoundKnows(c, m)
    BY <1>1, InRound
  <1>6. Len(Kept(b.row, c)) = m
    <2>1. Pop(b.row, c) = Dropped(b.row, c) + m
      <3>1. ~(b.row < b.row)
        BY <1>1 DEF Rows
      <3>2. QED
        BY <1>1, <1>2, <1>5, <3>1 DEF RoundKnows
    <2>2. /\ Len(Kept(b.row, c)) \in Nat /\ Dropped(b.row, c) \in Nat
          /\ Len(Found(b.row, c)) = Dropped(b.row, c) + Len(Kept(b.row, c))
      BY <1>1, <1>2, KeptFacts
    <2>3. PICK k \in Nat, d \in Nat : k = Len(Kept(b.row, c)) /\ d = Dropped(b.row, c)
      BY <2>2
    <2>4. d + k = d + m
      BY <1>4, <2>1, <2>2, <2>3
    <2>5. QED
      BY <2>3, <2>4
  <1>7. /\ left \in PassState /\ left.pc = "round" /\ left.row = b.row /\ left.first = b.first
        /\ left.fifoNotActive = off /\ left.startPTS = b.startPTS
    BY <1>1, <1>2, <1>4 DEF PassState
  <1> HIDE DEF left
  <1>8. /\ a.pc = "round" /\ a.fifoNotActive = off /\ a.startPTS = b.startPTS /\ a.first = b.first
        /\ \A j \in Rows : /\ j < b.row \/ j = b.row => j < a.row
                           /\ j < a.row => j < b.row \/ j = b.row \/ j \in off
    BY <1>1, <1>7, AdvanceFacts
  <1> HIDE DEF a
  <1>9. a.startPTS = StartOf(c)
    BY <1>1, <1>2, <1>8 DEF PruneKnows
  <1>10. \A i \in Rows : i \in off => Len(Kept(i, c)) <= m
    BY <1>5, <1>6 DEF RoundKnows
  <1>11. ASSUME NEW i \in Rows, i \notin off
         PROVE  Pop(i, c)' = IF i < a.row THEN Dropped(i, c) + m + 1 ELSE Dropped(i, c) + m
    <2>1. /\ i \notin b.fifoNotActive /\ i # b.row /\ Pop(i, c)' = Pop(i, c)
          /\ i < b.row <=> i < a.row
      BY <1>4, <1>8, <1>11
    <2>2. QED
      BY <1>5, <2>1 DEF RoundKnows
  <1>12. a.first = NULL => \A i \in Rows : i < a.row => Len(Kept(i, c)) <= m
    BY <1>5, <1>6, <1>8, <1>10 DEF RoundKnows
  <1>13. a.first # NULL =>
            \E j \in Rows : /\ j < a.row /\ m < Len(Kept(j, c))
                            /\ \A i \in Rows : i < j => Len(Kept(i, c)) <= m
                            /\ a.first = Kept(j, c)[m + 1]
    <2> SUFFICES ASSUME a.first # NULL
                 PROVE  \E j \in Rows : /\ j < a.row /\ m < Len(Kept(j, c))
                                        /\ \A i \in Rows : i < j => Len(Kept(i, c)) <= m
                                        /\ a.first = Kept(j, c)[m + 1]
      OBVIOUS
    <2>1. PICK j \in Rows : /\ j < b.row /\ m < Len(Kept(j, c))
                            /\ \A i \in Rows : i < j => Len(Kept(i, c)) <= m
                            /\ b.first = Kept(j, c)[m + 1]
      BY <1>5, <1>8 DEF RoundKnows
    <2>2. j < a.row
      BY <1>8, <2>1
    <2>3. QED
      BY <1>8, <2>1, <2>2
  <1> HIDE DEF b, off
  <1>14. ThreadKnows(c)'
    BY <1>2, <1>4, <1>8, <1>9, <1>10, <1>11, <1>12, <1>13, KnowsInRound
  <1>15. QED
    BY <1>3, <1>14

\* A round is over: every row that is left is one EBP further on.
LEMMA RoundDoneKnows ==
    ASSUME VerdictInv, NEW c \in Streams, RoundDone(c)
    PROVE  ThreadKnows(c)' /\ \A r \in Rows : Checked(r, c)'
  <1> DEFINE b == analysis[c]
             a == StartPass(b, "round")
             end == [b EXCEPT !.pc = "done"]
  <1>1. /\ b.pc = "round" /\ b.row > NumFiles /\ UNCHANGED fifo /\ Unchecked
        /\ Set(c, IF b.more THEN a ELSE end)
    BY DEF RoundDone, PassEnds
  <1>2. /\ b \in PassState /\ UNCHANGED arrivals /\ PruneKnows(c) /\ OffKnows(c) /\ TypeOK
    BY <1>1, ThreadParts DEF ThreadKnows
  <1>3. /\ \A r \in Rows : Checked(r, c)'
        /\ \A r : Pop(r, c)' = Pop(r, c)
    BY <1>1, PassEndChecked
  <1>4. /\ b.startPTS = StartOf(c)
        /\ \A i \in b.fifoNotActive : Pop(i, c)' = Len(Found(i, c)) + 1
    BY <1>1, <1>2, <1>3 DEF PruneKnows, OffKnows
  <1>5. CASE ~b.more
    <2>1. /\ analysis'[c] = end /\ end.pc = "done" /\ end.fifoNotActive = b.fifoNotActive
          /\ end.startPTS = b.startPTS
      BY <1>1, <1>2, <1>5, ThreadParts DEF PassState
    <2> HIDE DEF b, end
    <2>2. SyncKnows(c)'
      BY <2>1 DEF SyncKnows
    <2>3. /\ \A r : Found(r, c)' = Found(r, c)
          /\ StartOf(c)' = StartOf(c)
      BY <1>2, KeptStays
    <2>4. PruneKnows(c)'
      BY <1>4, <2>1, <2>3 DEF PruneKnows
    <2>5. OffKnows(c)'
      BY <1>4, <2>1, <2>3 DEF OffKnows
    <2>6. QED
      BY <1>3, <2>1, <2>2, <2>4, <2>5 DEF ThreadKnows
  <1>6. CASE b.more
    <2>1. /\ a.pc = "round" /\ a.fifoNotActive = b.fifoNotActive /\ a.startPTS = b.startPTS
          /\ a.first = NULL /\ \A j \in Rows : j < a.row => j \in a.fifoNotActive
          /\ analysis'[c] = a
      BY <1>1, <1>2, <1>6, StartFacts, ThreadParts DEF PassPcs
    <2>2. \A i \in Rows : i < b.row
      BY <1>1, <1>2, AnalysisAssumption DEF Rows, PassState
    <2>3. PICK m \in Nat : RoundKnows(c, m)
      BY <1>1, InRound
    <2>4. PICK n \in Nat : n = m + 1
      OBVIOUS
    <2>5. ASSUME NEW i \in Rows
          PROVE  /\ i \in a.fifoNotActive => Len(Kept(i, c)) <= n
                 /\ i \notin a.fifoNotActive =>
                      Pop(i, c)' = IF i < a.row THEN Dropped(i, c) + n + 1 ELSE Dropped(i, c) + n
      <3>1. i \in a.fifoNotActive => Len(Kept(i, c)) <= m
        BY <2>1, <2>3 DEF RoundKnows
      <3>2. i \notin a.fifoNotActive => Pop(i, c)' = Dropped(i, c) + m + 1 /\ ~(i < a.row)
        BY <1>3, <2>1, <2>2, <2>3 DEF RoundKnows
      <3>3. Dropped(i, c) \in Nat /\ Len(Kept(i, c)) \in Nat
        BY <1>2, KeptFacts
      <3> HIDE DEF a
      <3>4. i \in a.fifoNotActive => Len(Kept(i, c)) <= n
        BY <2>4, <3>1, <3>3
      <3>5. Dropped(i, c) + m + 1 = Dropped(i, c) + n
        BY <2>4, <3>3
      <3>6. QED
        BY <3>2, <3>4, <3>5
    <2>6. \A i \in Rows : i < a.row => Len(Kept(i, c)) <= n
      BY <2>1, <2>5
    <2> HIDE DEF a, b
    <2>7. ThreadKnows(c)'
      BY <1>2, <1>4, <2>1, <2>5, <2>6, KnowsInRound
    <2>8. QED
      BY <1>3, <2>7
  <1>7. QED
    BY <1>5, <1>6

\* The PTS an EBP is measured from, and the last one after it.
LEMMA PreviousIsLast ==
    ASSUME NEW s, NEW m \in Nat, NEW x, ~s[m + 1].splice,
           IsLast(s, 1 .. m, s[m + 1].partitionId, x)
    PROVE  Previous(s, m + 1) = x
  <1> DEFINE before == OfPartition(s, 1 .. m, s[m + 1].partitionId)
  <1>1. Previous(s, m + 1) = IF before = {} THEN 0 ELSE s[Max(before)].PTS
    <2>1. 1 .. (m + 1) - 1 = 1 .. m
      OBVIOUS
    <2>2. {j \in 1 .. (m + 1) - 1 : /\ s[j].partition # NULL
                                    /\ s[j].partitionId = s[m + 1].partitionId} = before
      BY <2>1 DEF OfPartition
    <2> HIDE DEF before
    <2>3. QED
      BY <2>2 DEF Previous
  <1>2. CASE before = {}
    BY <1>1, <1>2 DEF IsLast
  <1>3. CASE before # {}
    <2>1. PICK j \in before : (\A i \in before : i <= j) /\ x = s[j].PTS
      BY <1>3 DEF IsLast
    <2>2. before \in SUBSET Nat
      BY DEF OfPartition
    <2> HIDE DEF before
    <2>3. Max(before) = j
      BY <2>1, <2>2, MaxIs
    <2>4. QED
      BY <1>1, <1>3, <2>1, <2>3
  <1>4. QED
    BY <1>2, <1>3

\* One more EBP is the last of its partition, and of no other.
LEMMA LastMoves ==
    ASSUME NEW s, NEW m \in Nat, NEW p, NEW x, IsLast(s, 1 .. m, p, x)
    PROVE  /\ s[m + 1].partition # NULL /\ s[m + 1].partitionId = p =>
                 IsLast(s, 1 .. m + 1, p, s[m + 1].PTS)
           /\ s[m + 1].partition = NULL \/ s[m + 1].partitionId # p => IsLast(s, 1 .. m + 1, p, x)
  <1>1. 1 .. m + 1 = (1 .. m) \cup {m + 1}
    OBVIOUS
  <1>2. ASSUME s[m + 1].partition # NULL, s[m + 1].partitionId = p
        PROVE  IsLast(s, 1 .. m + 1, p, s[m + 1].PTS)
    <2>1. m + 1 \in OfPartition(s, 1 .. m + 1, p)
      BY <1>2 DEF OfPartition
    <2>2. \A i \in OfPartition(s, 1 .. m + 1, p) : i <= m + 1
      BY DEF OfPartition
    <2>3. QED
      BY <2>1, <2>2 DEF IsLast
  <1>3. ASSUME s[m + 1].partition = NULL \/ s[m + 1].partitionId # p
        PROVE  IsLast(s, 1 .. m + 1, p, x)
    <2>1. OfPartition(s, 1 .. m + 1, p) = OfPartition(s, 1 .. m, p)
      BY <1>1, <1>3 DEF OfPartition
    <2>2. QED
      BY <2>1 DEF IsLast
  <1>4. QED
    BY <1>2, <1>3

\* The EBP a round takes from a row is the one of the round's place, and it is
\* compared to that of the first row that has one.
LEMMA CompareTakes ==
    ASSUME VerdictInv, NEW c \in Streams, analysis[c].pc = "round", analysis[c].row \in Rows,
           fifo_pop_peek(Queue(c), "pop"), Oldest(Queue(c)) # NULL,
           NEW m \in Nat, RoundKnows(c, m), NEW i \in Rows, i = analysis[c].row
    PROVE  /\ Pop(i, c) = Dropped(i, c) + m /\ m < Len(Kept(i, c)) /\ m + 1 \in 1 .. Len(Kept(i, c))
           /\ Oldest(Queue(c)) = Kept(i, c)[m + 1] /\ Oldest(Queue(c)) \in EBPs
           /\ (analysis[c].first # NULL /\ DiffersFrom(Oldest(Queue(c)), analysis[c].first)) <=>
                 DiffersFrom(Kept(i, c)[m + 1],
                             Kept(Min({j \in Rows : m + 1 <= Len(Kept(j, c))}), c)[m + 1])
  <1> DEFINE b == analysis[c]
             e == Oldest(Queue(c))
             T == {j \in Rows : m + 1 <= Len(Kept(j, c))}
  <1>1. TypeOK /\ b.row \notin b.fifoNotActive
    BY ThreadParts DEF ThreadOK, RowIsActive
  <1>2. Pop(i, c) = Dropped(i, c) + m
    <2>1. ~(i < i)
      BY DEF Rows
    <2>2. QED
      BY <1>1, <2>1 DEF RoundKnows
  <1>3. /\ Pop(i, c) < Len(Found(i, c)) /\ e = Found(i, c)[Pop(i, c) + 1] /\ e \in EBPs
    BY TakeKnows
  <1>4. /\ Len(Kept(i, c)) \in Nat /\ Dropped(i, c) \in Nat
        /\ Len(Found(i, c)) = Dropped(i, c) + Len(Kept(i, c))
        /\ \A k \in 1 .. Len(Kept(i, c)) : Kept(i, c)[k] = Found(i, c)[Dropped(i, c) + k]
    <2> HIDE DEF b, e, T
    <2>1. TypeOK
      BY <1>1
    <2>2. /\ Len(Kept(i, c)) \in Nat /\ Dropped(i, c) \in Nat
          /\ Len(Found(i, c)) = Dropped(i, c) + Len(Kept(i, c))
      BY <2>1, KeptFacts
    <2>3. \A k \in 1 .. Len(Kept(i, c)) : Kept(i, c)[k] = Found(i, c)[Dropped(i, c) + k]
      BY ONLY <2>1, KeptFacts, i \in Rows, c \in Streams
    <2>4. QED
      BY <2>2, <2>3
  <1>5. PICK n \in Nat, d \in Nat : n = Len(Kept(i, c)) /\ d = Dropped(i, c)
    BY <1>4
  <1>6. m < n /\ m + 1 \in 1 .. n /\ Pop(i, c) + 1 = d + (m + 1)
    <2>1. d + m < d + n
      BY <1>2, <1>3, <1>4, <1>5
    <2>2. QED
      BY <1>2, <1>5, <2>1
  <1>7. e = Kept(i, c)[m + 1]
    BY <1>3, <1>4, <1>5, <1>6
  <1>8. \A j \in Rows : j \in Nat /\ Len(Kept(j, c)) \in Nat
    BY <1>1, KeptFacts DEF Rows
  <1>9. T \in SUBSET Nat
    BY <1>8
  <1>10. ASSUME NEW j \in Rows, m < Len(Kept(j, c)),
                \A l \in Rows : l < j => Len(Kept(l, c)) <= m
         PROVE  Min(T) = j
    <2>1. j \in T
      BY <1>8, <1>10
    <2>2. ASSUME NEW l \in T PROVE j <= l
      <3>1. /\ l \in Rows /\ l \in Nat /\ j \in Nat
            /\ m + 1 <= Len(Kept(l, c)) /\ Len(Kept(l, c)) \in Nat
        BY <1>8, <2>2
      <3>2. l < j => Len(Kept(l, c)) <= m
        BY <1>10, <3>1
      <3>3. QED
        BY <3>1, <3>2
    <2> HIDE DEF T
    <2>3. QED
      BY <1>9, <2>1, <2>2, MinIs
  <1>11. (b.first # NULL /\ DiffersFrom(e, b.first)) <=>
            DiffersFrom(Kept(i, c)[m + 1], Kept(Min(T), c)[m + 1])
    <2>1. CASE b.first = NULL
      <3>1. Min(T) = i
        <4>1. \A l \in Rows : l < i => Len(Kept(l, c)) <= m
          BY <2>1 DEF RoundKnows
        <4> HIDE DEF T
        <4>2. QED
          BY <1>5, <1>6, <1>10, <4>1
      <3>2. ~DiffersFrom(Kept(i, c)[m + 1], Kept(i, c)[m + 1])
        BY DEF DiffersFrom
      <3>3. QED
        BY <2>1, <3>1, <3>2
    <2>2. CASE b.first # NULL
      <3>1. PICK j \in Rows : /\ m < Len(Kept(j, c))
                              /\ \A l \in Rows : l < j => Len(Kept(l, c)) <= m
                              /\ b.first = Kept(j, c)[m + 1]
        BY <2>2 DEF RoundKnows
      <3>2. Min(T) = j
        BY <1>10, <3>1
      <3> HIDE DEF T, b, e
      <3>3. QED
        BY <1>7, <2>2, <3>1, <3>2
    <2>3. QED
      BY <2>1, <2>2
  <1>12. QED
    BY <1>2, <1>3, <1>5, <1>6, <1>7, <1>11

\* The check of an EBP settles what the report says of it.
LEMMA CompareChecks ==
    ASSUME VerdictInv, NoSplices, NEW c \in Streams, Compare(c), NEW m \in Nat, RoundKnows(c, m),
           NEW i \in Rows, i = analysis[c].row
    PROVE  Checked(i, c)'
  <1> DEFINE b == analysis[c]
             q == <<i, c>>
             e == Oldest(Queue(c))
             K == Kept(i, c)
             p == e.partitionId
  <1>1. /\ b.pc = "round" /\ b.row \in Rows /\ e # NULL /\ fifo_pop_peek(Queue(c), "pop")
        /\ streamPassFail' = [streamPassFail EXCEPT ![q] =
              /\ @
              /\ ~(b.first # NULL /\ DiffersFrom(e, b.first))
              /\ ~OffDistance(e, lastPTS[q][p])
              /\ ~SAPFails(e)]
        /\ lastPTS' = IF e.partition = NULL THEN lastPTS
                      ELSE [lastPTS EXCEPT ![q][p] = e.PTS]
        /\ UNCHANGED arrivals
    BY DEF Compare, At, Queue, ingestVars
  <1>2. /\ Pop(i, c) = Dropped(i, c) + m /\ m < Len(K) /\ m + 1 \in 1 .. Len(K)
        /\ e = K[m + 1] /\ e \in EBPs
        /\ (b.first # NULL /\ DiffersFrom(e, b.first)) <=>
              DiffersFrom(K[m + 1], Kept(Min({j \in Rows : m + 1 <= Len(Kept(j, c))}), c)[m + 1])
    BY <1>1, CompareTakes
  <1>3. Checked(i, c) /\ TypeOK /\ q \in Queues
    BY VerdictParts
  <1>4. /\ Len(K) \in Nat /\ Dropped(i, c) \in Nat
    BY <1>3, KeptFacts
  <1>5. Seen(i, c) = 1 .. m
    <2>1. m \in 0 .. Len(K)
      BY <1>2, <1>4
    <2>2. QED
      BY <1>2, <2>1, SeenFacts
  <1>6. Seen(i, c)' = 1 .. m + 1
    <2>1. Pop(i, c)' = Dropped(i, c) + m + 1
      BY <1>1, <1>2, TakeKnows
    <2>2. Seen(i, c)' = {k \in 1 .. Len(K) : Dropped(i, c) + k <= Pop(i, c)'}
      BY <1>1, KeptStays DEF Seen
    <2>3. PICK n \in Nat, d \in Nat : n = Len(K) /\ d = Dropped(i, c)
      BY <1>4
    <2>4. {k \in 1 .. n : d + k <= d + m + 1} = 1 .. m + 1
      BY <1>2, <2>3
    <2>5. QED
      BY <2>1, <2>2, <2>3, <2>4
  <1>7. /\ \A k : Holds(i, c, k)' <=> Holds(i, c, k)
        /\ Kept(i, c)' = K
    BY <1>1, HoldStays, KeptStays
  <1>8. /\ streamPassFail[q] <=> \A k \in 1 .. m : Holds(i, c, k)
        /\ \A r \in Partitions : IsLast(K, 1 .. m, r, lastPTS[q][r])
    BY <1>3, <1>5 DEF Checked
  <1>9. ~e.splice /\ p \in Partitions /\ e.PTS \in Nat
    BY <1>2, AnalysisAssumption DEF NoSplices
  <1>10. lastPTS[q][p] = Previous(K, m + 1)
    <2>1. IsLast(K, 1 .. m, K[m + 1].partitionId, lastPTS[q][p]) /\ ~K[m + 1].splice
      BY <1>2, <1>8, <1>9
    <2> HIDE DEF K
    <2>2. QED
      BY <2>1, PreviousIsLast
  <1>11. Holds(i, c, m + 1) <=> /\ ~(b.first # NULL /\ DiffersFrom(e, b.first))
                                /\ ~OffDistance(e, lastPTS[q][p])
                                /\ ~SAPFails(e)
    <2>1. Holds(i, c, m + 1) <=>
             /\ ~DiffersFrom(K[m + 1], Kept(Min({j \in Rows : m + 1 <= Len(Kept(j, c))}), c)[m + 1])
             /\ ~OffDistance(K[m + 1], Previous(K, m + 1))
             /\ ~SAPFails(K[m + 1])
      BY DEF Holds
    <2> HIDE DEF K, b, e, q
    <2>2. QED
      BY <1>2, <1>10, <2>1
  <1>12. streamPassFail'[q] <=> streamPassFail[q] /\ Holds(i, c, m + 1)
    <2>1. streamPassFail \in [Queues -> BOOLEAN]
      BY <1>3 DEF TypeOK
    <2>2. streamPassFail'[q] = (/\ streamPassFail[q]
                                /\ ~(b.first # NULL /\ DiffersFrom(e, b.first))
                                /\ ~OffDistance(e, lastPTS[q][p])
                                /\ ~SAPFails(e))
      <3> HIDE DEF b, e, q, p
      <3>1. QED
        BY <1>1, <1>3, <2>1
    <2>3. QED
      BY <1>11, <2>2
  <1>13. 1 .. m + 1 = (1 .. m) \cup {m + 1}
    OBVIOUS
  <1>14. streamPassFail'[q] <=> \A k \in 1 .. m + 1 : Holds(i, c, k)
    BY <1>8, <1>12, <1>13
  <1>15. ASSUME NEW r \in Partitions PROVE IsLast(K, 1 .. m + 1, r, lastPTS'[q][r])
    <2>1. lastPTS \in [Queues -> [Partitions -> Nat]]
      BY <1>3 DEF TypeOK
    <2>2. lastPTS'[q][r] = IF e.partition # NULL /\ p = r THEN e.PTS ELSE lastPTS[q][r]
      <3> HIDE DEF e, q, p
      <3>1. CASE e.partition = NULL
        BY <1>1, <3>1
      <3>2. CASE e.partition # NULL
        BY <1>1, <1>3, <1>9, <2>1, <3>2
      <3>3. QED
        BY <3>1, <3>2
    <2>3. IsLast(K, 1 .. m, r, lastPTS[q][r])
      BY <1>8
    <2>4. e = K[m + 1]
      BY <1>2
    <2> HIDE DEF K, e, q
    <2>5. QED
      BY <2>2, <2>3, <2>4, LastMoves
  <1> HIDE DEF K, b, e
  <1>16. streamPassFail'[<<i, c>>] <=> \A k \in Seen(i, c)' : Holds(i, c, k)'
    BY <1>6, <1>7, <1>14
  <1>17. \A r \in Partitions : IsLast(Kept(i, c)', Seen(i, c)', r, lastPTS'[<<i, c>>][r])
    BY <1>6, <1>7, <1>15
  <1>18. QED
    BY <1>16, <1>17 DEF Checked

\* One EBP of a round: the row is one ahead.
LEMMA CompareKnows ==
    ASSUME VerdictInv, NoSplices, NEW c \in Streams, Compare(c)
    PROVE  ThreadKnows(c)' /\ \A r \in Rows : Checked(r, c)'
  <1> DEFINE b == analysis[c]
             e == Oldest(Queue(c))
             more == [b EXCEPT !.first = IF @ = NULL THEN e ELSE @, !.more = TRUE]
             a == NextRow(more)
  <1>1. /\ b.pc = "round" /\ b.row \in Rows /\ e # NULL /\ fifo_pop_peek(Queue(c), "pop")
        /\ UNCHANGED arrivals /\ Set(c, a)
    BY DEF Compare, At, ingestVars
  <1>2. /\ b \in PassState /\ PruneKnows(c) /\ OffKnows(c) /\ TypeOK
        /\ b.row \notin b.fifoNotActive /\ analysis'[c] = a
    BY <1>1, ThreadParts DEF ThreadKnows, ThreadOK, RowIsActive
  <1>3. PICK i \in Rows, m \in Nat : i = b.row /\ RoundKnows(c, m)
    BY <1>1, InRound
  <1>4. /\ Pop(i, c) = Dropped(i, c) + m /\ m < Len(Kept(i, c))
        /\ e = Kept(i, c)[m + 1] /\ e \in EBPs
    BY <1>1, <1>3, CompareTakes
  <1>5. \A j \in Rows : /\ j = i => Pop(j, c)' = Pop(j, c) + 1
                        /\ j # i => Pop(j, c)' = Pop(j, c)
    BY <1>1, <1>3, TakeKnows
  <1>6. Checked(i, c)'
    BY <1>3, CompareChecks
  <1>7. ASSUME NEW r \in Rows, r # i PROVE Checked(r, c)'
    <2>1. Checked(r, c) /\ <<r, c>> \in Queues /\ <<i, c>> \in Queues /\ Queue(c) = <<i, c>>
      BY <1>3, VerdictParts DEF Queue
    <2>2. /\ streamPassFail'[<<r, c>>] = streamPassFail[<<r, c>>]
          /\ lastPTS'[<<r, c>>] = lastPTS[<<r, c>>]
      BY <1>2, <1>7, <2>1 DEF Compare, TypeOK
    <2>3. Seen(r, c)' = Seen(r, c)
      BY <1>1, <1>5, <1>7, SeenStays
    <2>4. QED
      BY <1>1, <2>1, <2>2, <2>3, CheckedStays
  <1>8. (IF b.first = NULL THEN e ELSE b.first) \in EBPs \cup {NULL} /\ TRUE \in BOOLEAN
    BY <1>2, <1>4 DEF PassState
  <1>9. /\ more \in PassState /\ more.pc = "round" /\ more.row = i
        /\ more.first = (IF b.first = NULL THEN e ELSE b.first)
        /\ more.fifoNotActive = b.fifoNotActive /\ more.startPTS = b.startPTS
    BY <1>1, <1>2, <1>3, <1>8 DEF PassState
  <1> HIDE DEF more
  <1>10. /\ a.pc = "round" /\ a.fifoNotActive = b.fifoNotActive /\ a.startPTS = b.startPTS
         /\ a.first = (IF b.first = NULL THEN e ELSE b.first)
         /\ \A j \in Rows : /\ j < i \/ j = i => j < a.row
                            /\ j < a.row => j < i \/ j = i \/ j \in b.fifoNotActive
    BY <1>9, AdvanceFacts
  <1> HIDE DEF a
  <1>11. /\ a.startPTS = StartOf(c)
         /\ \A j \in b.fifoNotActive : Pop(j, c)' = Len(Found(j, c)) + 1
    BY <1>1, <1>2, <1>3, <1>5, <1>10 DEF PruneKnows, OffKnows, PassState
  <1>12. ASSUME NEW j \in Rows
         PROVE  /\ j \in b.fifoNotActive => Len(Kept(j, c)) <= m
                /\ j \notin b.fifoNotActive =>
                     Pop(j, c)' = IF j < a.row THEN Dropped(j, c) + m + 1 ELSE Dropped(j, c) + m
    <2>1. j \in b.fifoNotActive => Len(Kept(j, c)) <= m
      BY <1>3 DEF RoundKnows
    <2>2. CASE j = i
      <3>1. j < a.row /\ Pop(j, c)' = Dropped(j, c) + m + 1
        BY <1>4, <1>5, <1>10, <2>2
      <3>2. QED
        BY <2>1, <3>1
    <2>3. CASE j # i /\ j \notin b.fifoNotActive
      <3>1. j < a.row <=> j < b.row
        BY <1>3, <1>10, <2>3
      <3>2. Pop(j, c)' = IF j < b.row THEN Dropped(j, c) + m + 1 ELSE Dropped(j, c) + m
        BY <1>3, <1>5, <2>3 DEF RoundKnows
      <3>3. QED
        BY <2>3, <3>1, <3>2
    <2>4. QED
      BY <2>1, <2>2, <2>3
  <1>13. a.first # NULL
    BY <1>1, <1>10
  <1>14. \E j \in Rows : /\ j < a.row /\ m < Len(Kept(j, c))
                         /\ \A l \in Rows : l < j => Len(Kept(l, c)) <= m
                         /\ a.first = Kept(j, c)[m + 1]
    <2>1. CASE b.first = NULL
      <3>1. \A l \in Rows : l < i => Len(Kept(l, c)) <= m
        BY <1>3, <2>1 DEF RoundKnows
      <3>2. i < a.row /\ a.first = e
        BY <1>10, <2>1
      <3>3. QED
        BY <1>4, <3>1, <3>2
    <2>2. CASE b.first # NULL
      <3>1. PICK j \in Rows : /\ j < b.row /\ m < Len(Kept(j, c))
                              /\ \A l \in Rows : l < j => Len(Kept(l, c)) <= m
                              /\ b.first = Kept(j, c)[m + 1]
        BY <1>3, <2>2 DEF RoundKnows
      <3>2. j < a.row /\ a.first = b.first
        BY <1>3, <1>10, <2>2, <3>1
      <3>3. QED
        BY <3>1, <3>2
    <2>3. QED
      BY <2>1, <2>2
  <1> HIDE DEF b, e
  <1>15. ThreadKnows(c)'
    BY <1>1, <1>2, <1>10, <1>11, <1>12, <1>13, <1>14, KnowsInRound
  <1>16. QED
    BY <1>6, <1>7, <1>15

-----------------------------------------------------------------------------
\* All steps.

\* A queue to which nothing is added and from which nothing is taken.
LEMMA QueueStays ==
    ASSUME NEW r, NEW c, QueueIs(r, c), UNCHANGED ingestVars,
           fifo'[<<r, c>>].queue = fifo[<<r, c>>].queue,
           fifo'[<<r, c>>].push_counter = fifo[<<r, c>>].push_counter,
           fifo'[<<r, c>>].pop_counter = fifo[<<r, c>>].pop_counter
    PROVE  QueueIs(r, c)'
  <1>1. UNCHANGED <<arrivals, posted, ended>>
    BY DEF ingestVars
  <1>2. Found(r, c)' = Found(r, c) /\ Before(r, c, posted[r])' = Before(r, c, posted[r])
    BY <1>1, InputStays DEF Before
  <1>3. QED
    BY <1>1, <1>2 DEF QueueIs

\* A step that takes nothing from the queues of a stream and checks none of its EBPs.
LEMMA StreamStays ==
    ASSUME VerdictInv, NEW d \in Streams, UNCHANGED arrivals, analysis'[d] = analysis[d],
           \A r \in Rows : /\ Pop(r, d)' = Pop(r, d)
                           /\ streamPassFail'[<<r, d>>] = streamPassFail[<<r, d>>]
                           /\ lastPTS'[<<r, d>>] = lastPTS[<<r, d>>]
    PROVE  ThreadKnows(d)' /\ \A r \in Rows : Checked(r, d)'
  <1>1. ThreadKnows(d)'
    BY ThreadParts, KnowsStays
  <1>2. ASSUME NEW r \in Rows PROVE Checked(r, d)'
    BY VerdictParts, SeenStays, CheckedStays
  <1>3. QED
    BY <1>1, <1>2

StreamsOK == \A d \in Streams : /\ ThreadKnows(d)
                                /\ \A r \in Rows : Checked(r, d) /\ QueueIs(r, d)

\* A post is seen by no thread until it takes it; it would be, were it of a splice.
LEMMA PostKnows == ASSUME VerdictInv, NoSplices, NEW r \in Rows, Post(r) PROVE StreamsOK'
  <1> DEFINE a == arrivals[r][posted[r] + 1]
  <1>1. IInv /\ TypeOK
    BY InvParts DEF VerdictInv
  <1>2. a \in [stream : Streams, ebp : EBPs]
    <2>1. posted[r] \in Nat /\ posted[r] < Len(arrivals[r]) /\ Len(arrivals[r]) \in Nat
      <3>1. 1 \in Streams
        BY AnalysisAssumption DEF Streams
      <3>2. QED
        BY <1>1, <3>1, FoundFacts DEF TypeOK, Post
    <2>2. posted[r] + 1 \in 1 .. Len(arrivals[r])
      BY <2>1
    <2>3. arrivals \in [Rows -> Seq([stream : Streams, ebp : EBPs])]
      BY <1>1, AnalysisAssumption DEF TypeOK
    <2>4. arrivals[r] \in Seq([stream : Streams, ebp : EBPs])
      BY <2>3
    <2>5. QED
      BY <2>2, <2>4, ElementOfSeq
  <1>3. /\ fifo_push(<<r, a.stream>>, a.ebp) /\ UNCHANGED <<arrivals, analysis, streamPassFail>>
        /\ lastPTS' = IF a.ebp.splice
                      THEN [lastPTS EXCEPT ![<<r, a.stream>>][a.ebp.partitionId] = 0] ELSE lastPTS
    BY DEF Post
  <1> HIDE DEF a
  <1>4. <<r, a.stream>> \in Queues /\ a.ebp \in Any /\ ~a.ebp.splice
    BY <1>2 DEF Any, Queues, NoSplices
  <1>5. UNCHANGED <<arrivals, analysis, lastPTS, streamPassFail>>
    BY <1>3, <1>4
  <1>6. ASSUME NEW d \in Streams PROVE ThreadKnows(d)' /\ \A i \in Rows : Checked(i, d)'
    BY <1>3, <1>4, <1>5, PushKnows
  <1>7. ASSUME NEW d \in Streams, NEW i \in Rows PROVE QueueIs(i, d)'
    BY <1>1, VerdictParts, PostQueueIs
  <1>8. QED
    BY <1>6, <1>7 DEF StreamsOK

\* Nor is the NULL.
LEMMA CleanUpKnows == ASSUME VerdictInv, NEW r \in Rows, CleanUp(r) PROVE StreamsOK'
  <1>1. IInv /\ TypeOK
    BY InvParts DEF VerdictInv
  <1>2. ended[r] \in Nat /\ ended[r] < NumStreams /\ NumStreams \in Nat
    BY <1>1, AnalysisAssumption DEF TypeOK, CleanUp
  <1>3. <<r, ended[r] + 1>> \in Queues /\ NULL \in Any
    BY <1>2 DEF Queues, Streams, Any
  <1>4. /\ fifo_push(<<r, ended[r] + 1>>, NULL)
        /\ UNCHANGED <<arrivals, analysis, lastPTS, streamPassFail>>
    BY DEF CleanUp
  <1>5. ASSUME NEW d \in Streams PROVE ThreadKnows(d)' /\ \A i \in Rows : Checked(i, d)'
    BY <1>3, <1>4, PushKnows
  <1>6. ASSUME NEW d \in Streams, NEW i \in Rows PROVE QueueIs(i, d)'
    BY <1>1, VerdictParts, CleanUpQueueIs
  <1>7. QED
    BY <1>5, <1>6 DEF StreamsOK

\* A step of a thread that keeps what it knows keeps what all know.
LEMMA ThreadStepKnows ==
    ASSUME VerdictInv, NEW c \in Streams, UNCHANGED ingestVars,
           ThreadKnows(c)', \A r \in Rows : Checked(r, c)',
           \A r \in Rows, d \in Streams : QueueIs(r, d)',
           \E a : Set(c, a),
           \A r \in Rows, d \in Streams : d # c =>
               /\ Pop(r, d)' = Pop(r, d)
               /\ streamPassFail'[<<r, d>>] = streamPassFail[<<r, d>>]
               /\ lastPTS'[<<r, d>>] = lastPTS[<<r, d>>]
    PROVE  StreamsOK'
  <1>1. UNCHANGED arrivals
    BY DEF ingestVars
  <1>2. analysis \in [Streams -> PassState]
    BY InvParts DEF VerdictInv, TypeOK
  <1>3. \A d \in Streams : d # c => analysis'[d] = analysis[d]
    BY <1>2 DEF Set
  <1>4. ASSUME NEW d \in Streams, d # c PROVE ThreadKnows(d)' /\ \A r \in Rows : Checked(r, d)'
    BY <1>1, <1>3, <1>4, StreamStays
  <1>5. QED
    BY <1>4 DEF StreamsOK

\* A peek or a pop without a check.
LEMMA TakenKnows ==
    ASSUME VerdictInv, NEW c \in Streams, analysis[c].row \in Rows, NEW op \in {"peek", "pop"},
           fifo_pop_peek(Queue(c), op), Unchecked, \E a : Set(c, a),
           ThreadKnows(c)', \A r \in Rows : Checked(r, c)'
    PROVE  StreamsOK'
  <1>1. UNCHANGED ingestVars /\ UNCHANGED <<lastPTS, streamPassFail>>
    BY DEF Unchecked
  <1>2. \A r \in Rows, d \in Streams : QueueIs(r, d)'
    <2> TAKE r \in Rows, d \in Streams
    <2>1. IInv /\ QueueIs(r, d)
      BY DEF VerdictInv
    <2>2. QED
      BY <1>1, <2>1, TakeQueueIs
  <1>3. \A r \in Rows, d \in Streams : d # c => Pop(r, d)' = Pop(r, d)
    BY TakeKnows
  <1>4. QED
    BY <1>1, <1>2, <1>3, ThreadStepKnows

\* A step between two passes.
LEMMA PassEndKnows ==
    ASSUME VerdictInv, NEW c \in Streams, UNCHANGED fifo, Unchecked, \E a : Set(c, a),
           ThreadKnows(c)', \A r \in Rows : Checked(r, c)'
    PROVE  StreamsOK'
  <1>1. UNCHANGED ingestVars /\ UNCHANGED <<lastPTS, streamPassFail>>
    BY DEF Unchecked
  <1>2. \A r \in Rows, d \in Streams : QueueIs(r, d)'
    <2> TAKE r \in Rows, d \in Streams
    <2>1. QueueIs(r, d)
      BY DEF VerdictInv
    <2>2. QED
      BY <1>1, <2>1, QueueStays
  <1>3. \A r \in Rows, d \in Streams : d # c => Pop(r, d)' = Pop(r, d)
    BY DEF Pop
  <1>4. QED
    BY <1>1, <1>2, <1>3, ThreadStepKnows

\* The checks of a round, for all threads.
LEMMA CompareStepKnows ==
    ASSUME VerdictInv, NoSplices, NEW c \in Streams, Compare(c) PROVE StreamsOK'
  <1>1. /\ analysis[c].row \in Rows /\ fifo_pop_peek(Queue(c), "pop") /\ UNCHANGED ingestVars
        /\ \E a : Set(c, a)
    BY DEF Compare, At
  <1>2. \A r \in Rows, d \in Streams : QueueIs(r, d)'
    <2> TAKE r \in Rows, d \in Streams
    <2>1. IInv /\ QueueIs(r, d)
      BY DEF VerdictInv
    <2>2. QED
      BY <1>1, <2>1, TakeQueueIs
  <1>3. ASSUME NEW r \in Rows, NEW d \in Streams, d # c
        PROVE  /\ Pop(r, d)' = Pop(r, d)
               /\ streamPassFail'[<<r, d>>] = streamPassFail[<<r, d>>]
               /\ lastPTS'[<<r, d>>] = lastPTS[<<r, d>>]
    <2>1. Pop(r, d)' = Pop(r, d)
      BY <1>1, <1>3, TakeKnows
    <2>2. <<r, d>> \in Queues /\ Queue(c) \in Queues /\ <<r, d>> # Queue(c) /\ TypeOK
      BY <1>1, <1>3, ThreadParts DEF Queues, Queue
    <2>3. streamPassFail'[<<r, d>>] = streamPassFail[<<r, d>>]
      BY <2>2 DEF Compare, TypeOK
    <2>4. lastPTS'[<<r, d>>] = lastPTS[<<r, d>>]
      BY <2>2 DEF Compare, TypeOK
    <2>5. QED
      BY <2>1, <2>3, <2>4
  <1>4. ThreadKnows(c)' /\ \A r \in Rows : Checked(r, c)'
    BY CompareKnows
  <1>5. QED
    BY <1>1, <1>2, <1>3, <1>4, ThreadStepKnows

\* A wait takes nothing.
LEMMA WaitsKnows == ASSUME VerdictInv, NEW c \in Streams, Waits(c) PROVE StreamsOK'
  <1>1. /\ analysis[c].row \in Rows /\ fifo_waits(Queue(c), OpOf(analysis[c].pc))
        /\ UNCHANGED analysis /\ UNCHANGED ingestVars /\ UNCHANGED <<lastPTS, streamPassFail>>
    BY DEF Waits, Unchecked
  <1>2. Queue(c) \in Queues /\ OpOf(analysis[c].pc) \in {"peek", "pop"} /\ TypeOK
    BY <1>1, ThreadParts DEF Queue, Queues, OpOf
  <1>3. ASSUME NEW q \in Queues
        PROVE  /\ fifo'[q].queue = fifo[q].queue
               /\ fifo'[q].push_counter = fifo[q].push_counter
               /\ fifo'[q].pop_counter = fifo[q].pop_counter
    BY <1>1, <1>2, WaitStep
  <1>4. ASSUME NEW r \in Rows, NEW d \in Streams PROVE QueueIs(r, d)' /\ Pop(r, d)' = Pop(r, d)
    <2>1. <<r, d>> \in Queues /\ QueueIs(r, d)
      BY VerdictParts
    <2>2. QED
      BY <1>1, <1>3, <2>1, QueueStays DEF Pop
  <1>5. ASSUME NEW d \in Streams PROVE ThreadKnows(d)' /\ \A r \in Rows : Checked(r, d)'
    BY <1>1, <1>4, StreamStays DEF ingestVars
  <1>6. QED
    BY <1>4, <1>5 DEF StreamsOK

\* Each step of an analysis thread.
LEMMA AnalyseKnows == ASSUME VerdictInv, NoSplices, NEW c \in Streams, Analyse(c) PROVE StreamsOK'
  <1>1. CASE Waits(c)
    BY <1>1, WaitsKnows
  <1>2. CASE SyncPeek(c)
    BY <1>2, SyncPeekKnows, TakenKnows DEF SyncPeek, At
  <1>3. CASE SyncEnd(c)
    BY <1>3, SyncEndKnows, TakenKnows DEF SyncEnd, EndRow, At
  <1>4. CASE SyncDone(c)
    BY <1>4, SyncDoneKnows, PassEndKnows DEF SyncDone
  <1>5. CASE PrunePeek(c)
    BY <1>5, PrunePeekKnows, TakenKnows DEF PrunePeek, At
  <1>6. CASE PrunePop(c)
    BY <1>6, PrunePopKnows, TakenKnows DEF PrunePop, At
  <1>7. CASE PruneEnd(c)
    BY <1>7, PruneEndKnows, TakenKnows DEF PruneEnd, EndRow, At
  <1>8. CASE PruneDone(c)
    BY <1>8, PruneDoneKnows, PassEndKnows DEF PruneDone
  <1>9. CASE Compare(c)
    BY <1>9, CompareStepKnows
  <1>10. CASE RoundEndsRow(c)
    BY <1>10, RoundEndsRowKnows, TakenKnows DEF RoundEndsRow, At
  <1>11. CASE RoundDone(c)
    BY <1>11, RoundDoneKnows, PassEndKnows DEF RoundDone
  <1>12. QED
    BY <1>1, <1>2, <1>3, <1>4, <1>5, <1>6, <1>7, <1>8, <1>9, <1>10, <1>11 DEF Analyse

\* At the start nothing was taken.
LEMMA InitVerdictInv == Init => VerdictInv
  <1> SUFFICES ASSUME Init PROVE VerdictInv
    OBVIOUS
  <1>1. IInv
    BY InitInv
  <1>2. ASSUME NEW r \in Rows, NEW c \in Streams PROVE QueueIs(r, c) /\ Checked(r, c)
    <2>1. /\ fifo[<<r, c>>] = fifo_create /\ posted[r] = 0 /\ ended[r] = 0
          /\ streamPassFail[<<r, c>>] = TRUE /\ \A p \in Partitions : lastPTS[<<r, c>>][p] = 0
      BY DEF Init, Queues
    <2>2. /\ fifo[<<r, c>>].queue = <<>> /\ fifo[<<r, c>>].push_counter = 0
          /\ fifo[<<r, c>>].pop_counter = 0
      BY <2>1 DEF fifo_create
    <2>3. Before(r, c, 0) = 0
      BY Counting DEF Before
    <2>4. c \in Nat /\ c > 0 /\ TypeOK
      BY <1>1, InvParts DEF Streams
    <2>5. QueueIs(r, c)
      <3>1. ~(ended[r] >= c) /\ fifo[<<r, c>>].push_counter = Before(r, c, posted[r])
        BY <2>1, <2>2, <2>3, <2>4
      <3>2. Len(fifo[<<r, c>>].queue) = 0
        BY <2>2
      <3>3. QED
        BY <3>1, <3>2 DEF QueueIs
    <2>6. Seen(r, c) = {}
      <3>1. Dropped(r, c) \in Nat
        BY <2>4, KeptFacts
      <3>2. QED
        BY <2>2, <3>1 DEF Seen, Pop
    <2>7. Checked(r, c)
      BY <2>1, <2>6 DEF Checked, IsLast, OfPartition
    <2>8. QED
      BY <2>5, <2>7
  <1>3. ASSUME NEW c \in Streams PROVE ThreadKnows(c)
    <2>1. /\ analysis[c].pc = "sync" /\ analysis[c].row = 1 /\ analysis[c].startPTS = 0
          /\ analysis[c].fifoNotActive = {}
      BY DEF Init
    <2>2. \A i \in Rows : Pop(i, c) = 0 /\ ~(i < 1)
      BY DEF Init, Queues, Pop, fifo_create, Rows
    <2>3. QED
      BY <2>1, <2>2 DEF ThreadKnows, SyncKnows, PruneKnows, OffKnows
  <1>4. QED
    BY <1>1, <1>2, <1>3 DEF VerdictInv

\* No step breaks the invariant, when no EBP is of a splice.
LEMMA NextVerdictInv == ASSUME NoSplices PROVE VerdictInv /\ [Next]_vars => VerdictInv'
  <1> SUFFICES ASSUME VerdictInv, [Next]_vars PROVE VerdictInv'
    OBVIOUS
  <1>1. IInv'
    BY NextInv DEF VerdictInv
  <1>2. ASSUME NEW r \in Rows, Ingest(r) PROVE StreamsOK'
    BY <1>2, PostKnows, CleanUpKnows DEF Ingest
  <1>3. ASSUME NEW c \in Streams, Analyse(c) PROVE StreamsOK'
    BY <1>3, AnalyseKnows
  <1>4. ASSUME UNCHANGED vars PROVE StreamsOK'
    <2>1. /\ UNCHANGED <<arrivals, analysis, lastPTS, streamPassFail, fifo>> /\ UNCHANGED ingestVars
      BY <1>4 DEF vars, ingestVars
    <2>2. \A r, d : Pop(r, d)' = Pop(r, d)
      BY <2>1 DEF Pop
    <2>3. ASSUME NEW d \in Streams PROVE ThreadKnows(d)' /\ \A r \in Rows : Checked(r, d)'
      BY <2>1, <2>2, StreamStays
    <2>4. ASSUME NEW d \in Streams, NEW r \in Rows PROVE QueueIs(r, d)'
      BY <2>1, VerdictParts, QueueStays
    <2>5. QED
      BY <2>3, <2>4 DEF StreamsOK
  <1>5. StreamsOK'
    BY <1>2, <1>3, <1>4 DEF Next
  <1>6. QED
    BY <1>1, <1>5 DEF VerdictInv, StreamsOK

\* A thread that is done has checked all that is kept.
LEMMA VerdictLemma == VerdictInv => VerdictIsOfTheInputs
  <1> SUFFICES ASSUME VerdictInv, NEW c \in Streams, analysis[c].pc = "done", NEW r \in Rows
               PROVE  streamPassFail[<<r, c>>] = Passes(r, c)
    BY DEF VerdictIsOfTheInputs
  <1>1. /\ TypeOK /\ Checked(r, c) /\ <<r, c>> \in Queues
        /\ r \in analysis[c].fifoNotActive /\ OffKnows(c)
    BY VerdictParts DEF ThreadKnows, ThreadOK, RoundSkipsNone
  <1>2. Pop(r, c) = Len(Found(r, c)) + 1
    BY <1>1 DEF OffKnows
  <1>3. Seen(r, c) = 1 .. Len(Kept(r, c)) /\ DOMAIN Kept(r, c) = 1 .. Len(Kept(r, c))
    <2>1. Len(Found(r, c)) \in Nat /\ DOMAIN Kept(r, c) = 1 .. Len(Kept(r, c))
      BY <1>1, KeptFacts
    <2>2. Pop(r, c) >= Len(Found(r, c))
      BY <1>2, <2>1
    <2>3. QED
      BY <2>1, <2>2, SeenFacts
  <1>4. streamPassFail[<<r, c>>] <=> \A k \in DOMAIN Kept(r, c) : Holds(r, c, k)
    BY <1>1, <1>3 DEF Checked
  <1>5. Passes(r, c) <=> \A k \in DOMAIN Kept(r, c) : Holds(r, c, k)
    BY DEF Passes, Holds
  <1>6. streamPassFail[<<r, c>>] \in BOOLEAN /\ Passes(r, c) \in BOOLEAN
    BY <1>1 DEF TypeOK, Passes
  <1>7. QED
    BY <1>4, <1>5, <1>6

\* Whatever the ingests find that is not of a splice, and however the threads are
\* scheduled, the verdict of a thread that is done is that on the inputs: each
\* EBP was compared to the one of its place in the first ingest that has one, and
\* measured from the one before it (EBPSegmentAnalysisThread.c:70-305, 442-488).
THEOREM VerdictJudged ==
    ASSUME NoSplices
    PROVE  Spec => []VerdictIsOfTheInputs
  BY InitVerdictInv, NextVerdictInv, VerdictLemma, PTL DEF Spec
=============================================================================
