-------------------------- MODULE ContainerProofs --------------------------
(***************************************************************************)
(* Proofs about the two containers the threads share their findings in:    *)
(* ThreadSafeFIFO, for any queues, elements and bounds, and the hash table *)
(* with its iterator, for any keys, values, hash and list of lengths.      *)
(***************************************************************************)
EXTENDS FifoHistory, HashTable, SequenceTheorems, FiniteSetTheorems, WellFoundedInduction, TLAPS

(***************************************************************************)
(* ThreadSafeFIFO.                                                         *)
(***************************************************************************)
Any == Elements \cup {NULL}

\* The inductive invariant, of one queue and its history.  What the properties
\* leave out is the last part: where no wakeup is spurious, a call that was
\* woken has something to take.
QueueOK(f) ==
    /\ fifo[f] \in [queue : Seq(Any), push_counter : Nat, pop_counter : Nat, call : Calls]
    /\ pushed[f] \in Seq(Any) /\ popped[f] \in Seq(Any) /\ misses[f] \in Nat
    /\ pushed[f] = popped[f] \o fifo[f].queue
    /\ misses[f] # 0 => f \in Spurious
    /\ fifo[f].push_counter + misses[f] = fifo[f].pop_counter + Len(fifo[f].queue)
    /\ fifo[f].call # NoCall /\ ~fifo[f].call.woken => fifo[f].queue = <<>>
    /\ fifo[f].call.woken /\ f \notin Spurious => fifo[f].queue # <<>>

IInv == /\ fifo = [f \in Fifos |-> fifo[f]]
        /\ pushed = [f \in Fifos |-> pushed[f]]
        /\ popped = [f \in Fifos |-> popped[f]]
        /\ misses = [f \in Fifos |-> misses[f]]
        /\ \A f \in Fifos : QueueOK(f)

\* The invariant says what the properties say.
LEMMA InvImplies ==
    IInv => HistoryTypeOK /\ NothingLost /\ EmptyHandedOnlyIfSpurious /\ CountersSymmetrical
                   /\ NoPushUnnoticed
  <1> SUFFICES ASSUME IInv
               PROVE HistoryTypeOK /\ NothingLost /\ EmptyHandedOnlyIfSpurious
                            /\ CountersSymmetrical /\ NoPushUnnoticed
    OBVIOUS
  <1>1. HistoryTypeOK
    BY DEF IInv, QueueOK, HistoryTypeOK, FifoTypeOK, Any
  <1>2. QED
    BY <1>1 DEF IInv, QueueOK, NothingLost, EmptyHandedOnlyIfSpurious, CountersSymmetrical,
                NoPushUnnoticed

\* An element appended to the right part of a sequence ends the sequence.
LEMMA AppendToRight ==
    \A s, t \in Seq(Any), x \in Any : Append(s \o t, x) = s \o Append(t, x)
  <1> SUFFICES ASSUME NEW s \in Seq(Any), NEW t \in Seq(Any), NEW x \in Any
               PROVE  Append(s \o t, x) = s \o Append(t, x)
    OBVIOUS
  <1>1. s \o t \in Seq(Any) /\ <<x>> \in Seq(Any)
    BY ConcatProperties
  <1>2. Append(s \o t, x) = (s \o t) \o <<x>> /\ Append(t, x) = t \o <<x>>
    BY <1>1, AppendIsConcat
  <1>3. (s \o t) \o <<x>> = s \o (t \o <<x>>)
    BY <1>1, ConcatAssociative
  <1>4. QED
    BY <1>2, <1>3

\* The first element of the right part can move to the left part.
LEMMA MoveHead ==
    ASSUME NEW S, NEW s \in Seq(S), NEW t \in Seq(S), t # <<>>
    PROVE  Append(s, Head(t)) \o Tail(t) = s \o t
  <1>1. Head(t) \in S /\ Tail(t) \in Seq(S)
    BY HeadTailProperties
  <1>2. <<Head(t)>> \in Seq(S) /\ Append(s, Head(t)) = s \o <<Head(t)>>
    BY <1>1, AppendIsConcat
  <1>3. (s \o <<Head(t)>>) \o Tail(t) = s \o (<<Head(t)>> \o Tail(t))
    BY <1>1, <1>2, ConcatAssociative
  <1>4. <<Head(t)>> \o Tail(t) = t
    OBVIOUS
  <1>5. QED
    BY <1>2, <1>3, <1>4

\* The queues start empty.
LEMMA InitInv == HistoryInit => IInv
  <1> SUFFICES ASSUME HistoryInit, NEW f \in Fifos PROVE IInv
    BY DEF IInv, HistoryInit
  <1>1. <<>> \o <<>> = <<>>
    BY EmptySeq, ConcatEmptySeq
  <1>2. QED
    BY <1>1 DEF IInv, QueueOK, HistoryInit, fifo_create, NoCall, Calls

\* What the invariant says of the counters of a queue.
LEMMA Counts ==
    ASSUME NEW f, QueueOK(f)
    PROVE  /\ fifo[f].push_counter \in Nat /\ fifo[f].pop_counter \in Nat
           /\ misses[f] \in Nat /\ Len(fifo[f].queue) \in Nat
           /\ fifo[f].push_counter + misses[f] = fifo[f].pop_counter + Len(fifo[f].queue)
  <1>1. fifo[f].queue \in Seq(Any)
    BY DEF QueueOK
  <1>2. Len(fifo[f].queue) \in Nat
    BY <1>1, LenProperties
  <1>3. QED
    BY <1>2 DEF QueueOK

\* A push adds its element at the end of what was pushed and of what is queued.
LEMMA PushOK == ASSUME IInv, NEW f \in Fifos, NEW e \in Any, Push(f, e)
                PROVE  QueueOK(f)'
  <1> DEFINE q == fifo[f]
  <1>1. fifo'[f] = AfterPush(q, e) /\ pushed'[f] = Append(pushed[f], e)
        /\ popped'[f] = popped[f] /\ misses'[f] = misses[f]
    BY DEF Push, fifo_push, IInv
  <1>2. QueueOK(f) /\ q.queue \in Seq(Any) /\ popped[f] \in Seq(Any) /\ q.call \in Calls
    BY DEF QueueOK, IInv
  <1>3. /\ Append(q.queue, e) \in Seq(Any)
        /\ Append(q.queue, e) # <<>>
        /\ Len(Append(q.queue, e)) = Len(q.queue) + 1
        /\ Len(q.queue) \in Nat
    BY <1>2, AppendProperties, LenProperties
  <1>4. Append(popped[f] \o q.queue, e) = popped[f] \o Append(q.queue, e)
    <2>1. e \in Any /\ popped[f] \in Seq(Any) /\ q.queue \in Seq(Any)
      BY <1>2
    <2> HIDE DEF q
    <2>2. QED
      BY <2>1, AppendToRight, Zenon
  <1>5. Append(pushed[f], e) \in Seq(Any)
    BY <1>2, AppendProperties DEF QueueOK
  <1>6. CallAfterSignal(q.call) \in Calls
        /\ (CallAfterSignal(q.call) = NoCall \/ CallAfterSignal(q.call).woken)
    BY <1>2 DEF CallAfterSignal, Calls, NoCall
  <1>7. /\ fifo'[f].queue = Append(q.queue, e)
        /\ fifo'[f].push_counter = q.push_counter + 1
        /\ fifo'[f].pop_counter = q.pop_counter
        /\ fifo'[f].call = CallAfterSignal(q.call)
    BY <1>1 DEF AfterPush, Queued
  <1>8. fifo'[f] \in [queue : Seq(Any), push_counter : Nat, pop_counter : Nat, call : Calls]
    BY <1>1, <1>2, <1>3, <1>6 DEF AfterPush, Queued, QueueOK
  <1>9. pushed'[f] = popped'[f] \o fifo'[f].queue
    BY <1>1, <1>2, <1>4, <1>7 DEF QueueOK
  <1>10. fifo'[f].push_counter + misses'[f] = fifo'[f].pop_counter + Len(fifo'[f].queue)
    <2> DEFINE left == Len(fifo[f].queue)
    <2>1. /\ q.push_counter \in Nat /\ q.pop_counter \in Nat /\ misses[f] \in Nat
          /\ left \in Nat
          /\ q.push_counter + misses[f] = q.pop_counter + left
      BY <1>2, Counts
    <2>2. left' = left + 1
      BY <1>3, <1>7
    <2>3. /\ fifo'[f].push_counter = q.push_counter + 1
          /\ fifo'[f].pop_counter = q.pop_counter /\ misses'[f] = misses[f]
      BY <1>1, <1>7
    <2> HIDE DEF left
    <2>4. fifo'[f].push_counter + misses'[f] = fifo'[f].pop_counter + left'
      BY <2>1, <2>2, <2>3
    <2>5. QED
      BY <2>4 DEF left
  <1>11. fifo'[f].queue # <<>> /\ (fifo'[f].call = NoCall \/ fifo'[f].call.woken)
    BY <1>3, <1>6, <1>7
  <1>12. pushed'[f] \in Seq(Any) /\ popped'[f] \in Seq(Any) /\ misses'[f] \in Nat
         /\ (misses'[f] # 0 => f \in Spurious)
    BY <1>1, <1>2, <1>5 DEF QueueOK
  <1>13. QED
    BY <1>8, <1>9, <1>10, <1>11, <1>12 DEF QueueOK

\* A pop moves the oldest element from what is queued to what was popped.
LEMMA PopOK == ASSUME IInv, NEW f \in Fifos, Pop(f)
               PROVE  QueueOK(f)'
  <1> DEFINE q == fifo[f]
  <1>1. fifo'[f] = AfterCall(q, "pop") /\ popped'[f] = Append(popped[f], Head(q.queue))
        /\ pushed'[f] = pushed[f] /\ misses'[f] = misses[f] /\ q.queue # <<>>
    BY DEF Pop, fifo_pop_peek, Oldest, IInv
  <1>2. QueueOK(f) /\ q.queue \in Seq(Any) /\ popped[f] \in Seq(Any)
    BY DEF QueueOK, IInv
  <1>3. Head(q.queue) \in Any /\ Tail(q.queue) \in Seq(Any)
        /\ Len(Tail(q.queue)) = Len(q.queue) - 1 /\ Len(q.queue) \in Nat
    BY <1>1, <1>2, HeadTailProperties, LenProperties
  <1>4. Append(popped[f], Head(q.queue)) \o Tail(q.queue) = popped[f] \o q.queue
    BY <1>1, <1>2, MoveHead
  <1>5. Append(popped[f], Head(q.queue)) \in Seq(Any)
    BY <1>2, <1>3, AppendProperties
  <1>6. /\ fifo'[f].queue = Tail(q.queue)
        /\ fifo'[f].push_counter = q.push_counter
        /\ fifo'[f].pop_counter = q.pop_counter + 1
        /\ fifo'[f].call = NoCall
    BY <1>1 DEF AfterCall, CountPop
  <1>7. fifo'[f] \in [queue : Seq(Any), push_counter : Nat, pop_counter : Nat, call : Calls]
    <2>1. q.push_counter \in Nat /\ q.pop_counter + 1 \in Nat
      BY <1>2 DEF QueueOK
    <2>2. Tail(q.queue) \in Seq(Any) /\ NoCall \in Calls
      BY <1>3 DEF Calls, NoCall
    <2>3. AfterCall(q, "pop") = [queue |-> Tail(q.queue), push_counter |-> q.push_counter,
                                 pop_counter |-> q.pop_counter + 1, call |-> NoCall]
      BY <1>1 DEF AfterCall, CountPop
    <2>4. fifo'[f] = AfterCall(q, "pop")
      BY <1>1
    <2> HIDE DEF q
    <2>5. [queue |-> Tail(q.queue), push_counter |-> q.push_counter,
           pop_counter |-> q.pop_counter + 1, call |-> NoCall]
            \in [queue : Seq(Any), push_counter : Nat, pop_counter : Nat, call : Calls]
      BY <2>1, <2>2
    <2>6. QED
      BY <2>3, <2>4, <2>5, Zenon
  <1>8. fifo'[f].push_counter + misses'[f] = fifo'[f].pop_counter + Len(fifo'[f].queue)
    <2> DEFINE left == Len(fifo[f].queue)
    <2>1. /\ q.push_counter \in Nat /\ q.pop_counter \in Nat /\ misses[f] \in Nat
          /\ left \in Nat
          /\ q.push_counter + misses[f] = q.pop_counter + left
      BY <1>2, Counts
    <2>2. left' = left - 1
      BY <1>3, <1>6
    <2>3. /\ fifo'[f].push_counter = q.push_counter
          /\ fifo'[f].pop_counter = q.pop_counter + 1 /\ misses'[f] = misses[f]
      BY <1>1, <1>6
    <2> HIDE DEF left
    <2>4. fifo'[f].push_counter + misses'[f] = fifo'[f].pop_counter + left'
      BY <2>1, <2>2, <2>3
    <2>5. QED
      BY <2>4 DEF left
  <1>9. pushed'[f] = popped'[f] \o fifo'[f].queue
    BY <1>1, <1>2, <1>4, <1>6 DEF QueueOK
  <1>10. fifo'[f].call = NoCall /\ ~fifo'[f].call.woken
    BY <1>6 DEF NoCall
  <1>11. pushed'[f] \in Seq(Any) /\ popped'[f] \in Seq(Any) /\ misses'[f] \in Nat
         /\ (misses'[f] # 0 => f \in Spurious)
    BY <1>1, <1>2, <1>5 DEF QueueOK
  <1>12. QED
    BY <1>7, <1>8, <1>9, <1>10, <1>11 DEF QueueOK

\* A pop that comes back to an empty queue was woken for nothing.
LEMMA PopOfNothingOK == ASSUME IInv, NEW f \in Fifos, PopOfNothing(f)
                        PROVE  QueueOK(f)'
  <1>1. fifo'[f] = AfterCall(fifo[f], "pop") /\ misses'[f] = misses[f] + 1
        /\ pushed'[f] = pushed[f] /\ popped'[f] = popped[f] /\ fifo[f].queue = <<>>
    BY DEF PopOfNothing, fifo_pop_peek, IInv
  <1>2. f \in Spurious
    BY <1>1 DEF PopOfNothing, fifo_pop_peek, Proceeds, IInv, QueueOK
  <1>3. /\ fifo'[f] = [queue |-> <<>>, push_counter |-> fifo[f].push_counter,
                       pop_counter |-> fifo[f].pop_counter + 1, call |-> NoCall]
        /\ NoCall \in Calls
    BY <1>1 DEF AfterCall, CountPop, Calls, NoCall
  <1>4. QueueOK(f)
    BY DEF IInv
  <1>5. fifo[f].push_counter \in Nat /\ fifo[f].pop_counter + 1 \in Nat
    BY <1>4 DEF QueueOK
  <1>6. fifo'[f] \in [queue : Seq(Any), push_counter : Nat, pop_counter : Nat, call : Calls]
    BY <1>3, <1>5, EmptySeq
  <1>7. fifo'[f].push_counter + misses'[f] = fifo'[f].pop_counter + Len(fifo'[f].queue)
    <2> DEFINE left == Len(fifo[f].queue)
    <2>1. /\ fifo[f].push_counter \in Nat /\ fifo[f].pop_counter \in Nat
          /\ misses[f] \in Nat /\ left = 0
          /\ fifo[f].push_counter + misses[f] = fifo[f].pop_counter + left
      BY <1>1, <1>4, EmptySeq DEF QueueOK
    <2>2. /\ fifo'[f].push_counter = fifo[f].push_counter
          /\ fifo'[f].pop_counter = fifo[f].pop_counter + 1
          /\ left' = 0 /\ misses'[f] = misses[f] + 1
      BY <1>1, <1>3, EmptySeq
    <2> HIDE DEF left
    <2>3. fifo'[f].push_counter + misses'[f] = fifo'[f].pop_counter + left'
      BY <2>1, <2>2
    <2>4. QED
      BY <2>3 DEF left
  <1>8. pushed'[f] = popped'[f] \o fifo'[f].queue /\ ~fifo'[f].call.woken
        /\ fifo'[f].call = NoCall
    <2>1. fifo'[f].queue = fifo[f].queue /\ fifo'[f].call = NoCall /\ ~NoCall.woken
      <3>1. fifo[f].queue = <<>>
        BY <1>1
      <3>2. fifo'[f].queue = <<>> /\ fifo'[f].call = NoCall
        BY <1>3
      <3>3. ~NoCall.woken
        BY DEF NoCall
      <3>4. QED
        BY <3>1, <3>2, <3>3, Zenon
    <2>2. pushed[f] = popped[f] \o fifo[f].queue
      BY <1>4 DEF QueueOK
    <2>3. QED
      BY <1>1, <2>1, <2>2, Zenon
  <1>9. pushed'[f] \in Seq(Any) /\ popped'[f] \in Seq(Any) /\ misses'[f] \in Nat
    BY <1>1, <1>4 DEF QueueOK
  <1>10. QED
    BY <1>2, <1>6, <1>7, <1>8, <1>9 DEF QueueOK

\* A peek, a wait and a wakeup change the parked call only.
LEMMA CallOK == ASSUME IInv, NEW f \in Fifos,
                       \/ Peek(f)
                       \/ Wait(f, "pop")
                       \/ Wait(f, "peek")
                       \/ Wake(f)
                PROVE  QueueOK(f)'
  <1>1. misses'[f] = misses[f] /\ pushed'[f] = pushed[f] /\ popped'[f] = popped[f]
    BY DEF Peek, Wait, Wake
  <1>2. CASE Peek(f)
    <2>1. fifo'[f] = AfterCall(fifo[f], "peek")
      BY <1>2 DEF Peek, fifo_pop_peek, IInv
    <2>2. QED
      BY <1>1, <2>1 DEF IInv, QueueOK, AfterCall, Calls, NoCall
  <1>3. ASSUME NEW op \in {"pop", "peek"}, Wait(f, op)
        PROVE  QueueOK(f)'
    <2>1. fifo'[f] = WithCall(fifo[f], [op |-> op, woken |-> FALSE])
          /\ fifo[f].queue = <<>>
      BY <1>3 DEF Wait, fifo_waits, IInv
    <2>2. WithCall(fifo[f], [op |-> op, woken |-> FALSE]) \in
              [queue : Seq(Any), push_counter : Nat, pop_counter : Nat, call : Calls]
      BY <1>3 DEF IInv, QueueOK, WithCall, Calls
    <2>3. QED
      BY <1>1, <2>1, <2>2 DEF IInv, QueueOK, WithCall
  <1>4. CASE Wake(f)
    <2>1. fifo'[f] = WithCall(fifo[f], [op |-> fifo[f].call.op, woken |-> TRUE])
          /\ f \in Spurious /\ fifo[f].call # NoCall
      BY <1>4 DEF Wake, SpuriousWakeup, IInv
    <2>2. WithCall(fifo[f], [op |-> fifo[f].call.op, woken |-> TRUE]) \in
              [queue : Seq(Any), push_counter : Nat, pop_counter : Nat, call : Calls]
      BY <2>1 DEF IInv, QueueOK, WithCall, Calls
    <2>3. QED
      BY <1>1, <2>1, <2>2 DEF IInv, QueueOK, WithCall
  <1>5. QED
    BY <1>2, <1>3, <1>4

\* An operation on one queue leaves the others alone.
LEMMA NextInv == IInv /\ [HistoryNext]_historyVars => IInv'
  <1> SUFFICES ASSUME IInv, [HistoryNext]_historyVars PROVE IInv'
    OBVIOUS
  <1>1. CASE UNCHANGED historyVars
    BY <1>1 DEF historyVars, IInv, QueueOK
  <1>2. CASE HistoryNext
    <2>1. PICK f \in Fifos :
            \/ \E e \in Any : Push(f, e)
            \/ Pop(f)
            \/ PopOfNothing(f)
            \/ Peek(f) \/ Wait(f, "pop") \/ Wait(f, "peek") \/ Wake(f)
      BY <1>2 DEF HistoryNext, Any
    <2>2. QueueOK(f)'
      BY <2>1, PushOK, PopOK, PopOfNothingOK, CallOK
    <2>3. /\ fifo' = [fifo EXCEPT ![f] = fifo'[f]]
          /\ pushed' = [pushed EXCEPT ![f] = pushed'[f]]
          /\ popped' = [popped EXCEPT ![f] = popped'[f]]
          /\ misses' = [misses EXCEPT ![f] = misses'[f]]
      BY <2>1 DEF Push, Pop, PopOfNothing, Peek, Wait, Wake, fifo_push, fifo_pop_peek,
                  fifo_waits, SpuriousWakeup, IInv
    <2>4. ASSUME NEW g \in Fifos, g # f
          PROVE  QueueOK(g)'
      <3>1. fifo'[g] = fifo[g] /\ pushed'[g] = pushed[g] /\ popped'[g] = popped[g]
            /\ misses'[g] = misses[g]
        BY <2>3, <2>4 DEF IInv
      <3>2. QED
        BY <3>1 DEF IInv, QueueOK
    <2>5. QED
      BY <2>2, <2>3, <2>4 DEF IInv
  <1>3. QED
    BY <1>1, <1>2

\* Every queue keeps the inductive invariant.
THEOREM Invariance == HistorySpec => []IInv
  BY InitInv, NextInv, PTL DEF HistorySpec

\* The types of the queues and their histories.
THEOREM TypeCorrect == HistorySpec => []HistoryTypeOK
  BY Invariance, InvImplies, PTL

\* Elements come out once each and in the order they went in, whatever the
\* interleaving and the wakeups (ThreadSafeFIFO.c:95 and 149-178).
THEOREM QueuesLoseNothing == HistorySpec => []NothingLost
  BY Invariance, InvImplies, PTL

\* The single check before the wait suffices where no wakeup is spurious
\* (ThreadSafeFIFO.c:150-166).
THEOREM PopsFindSomething == HistorySpec => []EmptyHandedOnlyIfSpurious
  BY Invariance, InvImplies, PTL

\* The counters tell what is still queued (ThreadSafeFIFO.c:97 and 172).
THEOREM CountersAgree == HistorySpec => []CountersSymmetrical
  BY Invariance, InvImplies, PTL

\* No push leaves a waiting call asleep (ThreadSafeFIFO.c:103 and 157).
THEOREM WakeupsAreNotLost == HistorySpec => []NoPushUnnoticed
  BY Invariance, InvImplies, PTL

(***************************************************************************)
(* The hash table.  Its chains are compared with the map by the set of     *)
(* their entries, AllOf; the updates of the table are facts about that     *)
(* set, and those of the iterator about the keys from its entry on.        *)
(***************************************************************************)
-----------------------------------------------------------------------------
(* Numbers and sets.                                                        *)

\* A set of numbers that is not empty has a least element.
LEMMA HasMin == ASSUME NEW T, T \subseteq Nat, T # {}
                PROVE  \E x \in T : \A y \in T : x <= y
  <1> DEFINE R == OpToRel(<, Nat)
  <1>1. IsWellFoundedOn(R, Nat)
    BY NatLessThanWellFounded, Zenon
  <1>2. R = {ss \in Nat \X Nat : ss[1] < ss[2]}
    BY Zenon DEF OpToRel
  <1> HIDE DEF R
  <1>3. \A x, y \in Nat : <<y, x>> \in R <=> y < x
    BY <1>2
  <1>4. PICK x \in T : \A y \in T : ~(<<y, x>> \in R)
    BY <1>1, WFMin, Zenon
  <1>5. ASSUME NEW y \in T PROVE x <= y
    <2>1. ~(y < x) /\ x \in Nat /\ y \in Nat
      BY <1>3, <1>4
    <2>2. QED
      BY <2>1
  <1>6. QED
    BY <1>5

LEMMA MinIsLeast == ASSUME NEW T, T \subseteq Nat, T # {}
                    PROVE  Min(T) \in T /\ \A y \in T : Min(T) <= y
  <1>1. \E x \in T : \A y \in T : x <= y
    BY HasMin
  <1>2. QED
    BY <1>1 DEF Min

\* The image of a finite set under a function is finite.
LEMMA ImageFinite == ASSUME NEW S, IsFiniteSet(S), NEW g, DOMAIN g = S
                     PROVE  IsFiniteSet({g[x] : x \in S})
  <1> DEFINE T == {g[x] : x \in S}
             h == [x \in S |-> g[x]]
  <1>1. h \in Surjection(S, T)
    BY DEF Surjection
  <1>2. QED
    BY <1>1, FS_Surjection

-----------------------------------------------------------------------------
(* Places by rank.                                                          *)

LEMMA PairsInOrder ==
    ASSUME NEW x \in Nat \X Nat, NEW y \in Nat \X Nat
    PROVE  /\ NotAfter(x, x) /\ (NotAfter(x, y) \/ NotAfter(y, x))
           /\ NotAfter(x, y) /\ NotAfter(y, x) => x = y
           /\ \A z \in Nat \X Nat : NotAfter(x, y) /\ NotAfter(y, z) => NotAfter(x, z)
  <1>1. \A z \in Nat \X Nat : z = <<z[1], z[2]>> /\ z[1] \in Nat /\ z[2] \in Nat
    OBVIOUS
  <1>2. NotAfter(x, x) /\ (NotAfter(x, y) \/ NotAfter(y, x))
    BY <1>1 DEF NotAfter
  <1>3. ASSUME NotAfter(x, y), NotAfter(y, x) PROVE x = y
    <2>1. x[1] = y[1] /\ x[2] = y[2]
      BY <1>1, <1>3 DEF NotAfter
    <2>2. QED
      BY <1>1, <2>1
  <1>4. ASSUME NEW z \in Nat \X Nat, NotAfter(x, y), NotAfter(y, z) PROVE NotAfter(x, z)
    BY <1>1, <1>4 DEF NotAfter
  <1>5. QED
    BY <1>2, <1>3, <1>4

UpTo(S, x) == {y \in S : NotAfter(y, x)}

\* Each place of a finite set has a rank of its own, from 1 to their number.
LEMMA Ranks ==
    ASSUME NEW A, A \subseteq Nat \X Nat, IsFiniteSet(A)
    PROVE  LET N == Cardinality(A)
           IN  /\ N \in Nat
               /\ \A x \in A : Cardinality(UpTo(A, x)) \in 1 .. N
               /\ \A x, y \in A : Cardinality(UpTo(A, x)) = Cardinality(UpTo(A, y)) => x = y
               /\ \A k \in 1 .. N : \E x \in A : Cardinality(UpTo(A, x)) = k
  <1> DEFINE N == Cardinality(A)
             C(x) == Cardinality(UpTo(A, x))
             r == [x \in A |-> C(x)]
  <1>1. N \in Nat
    BY FS_CardinalityType
  <1>2. ASSUME NEW x \in A PROVE C(x) \in 1 .. N
    <2>1. UpTo(A, x) \in SUBSET A /\ x \in UpTo(A, x)
      BY PairsInOrder DEF UpTo
    <2>2. IsFiniteSet(UpTo(A, x)) /\ C(x) <= N
      BY <2>1, FS_Subset
    <2>3. C(x) \in Nat /\ C(x) # 0
      BY <2>1, <2>2, FS_CardinalityType, FS_EmptySet
    <2> HIDE DEF C, N
    <2>4. QED
      BY <1>1, <2>2, <2>3
  <1>3. ASSUME NEW x \in A, NEW y \in A, C(x) = C(y), NotAfter(x, y) PROVE x = y
    <2>1. UpTo(A, x) \subseteq UpTo(A, y)
      BY <1>3, PairsInOrder DEF UpTo
    <2>2. UpTo(A, y) \in SUBSET A /\ y \in UpTo(A, y)
      BY PairsInOrder DEF UpTo
    <2>3. IsFiniteSet(UpTo(A, y))
      BY <2>2, FS_Subset
    <2>4. UpTo(A, x) = UpTo(A, y)
      BY <1>3, <2>1, <2>3, FS_Subset
    <2>5. NotAfter(y, x)
      BY <2>2, <2>4 DEF UpTo
    <2>6. QED
      BY <1>3, <2>5, PairsInOrder
  <1>4. ASSUME NEW x \in A, NEW y \in A, C(x) = C(y) PROVE x = y
    <2>1. NotAfter(x, y) \/ NotAfter(y, x)
      BY PairsInOrder
    <2>2. QED
      BY <1>3, <1>4, <2>1
  <1>5. r \in Injection(A, 1 .. N)
    <2> HIDE DEF N, C
    <2>1. r \in [A -> 1 .. N]
      BY <1>2
    <2>2. \A x, y \in A : r[x] = r[y] => x = y
      BY <1>4
    <2>3. QED
      BY <2>1, <2>2 DEF Injection, IsInjective
  <1>6. IsFiniteSet(1 .. N) /\ Cardinality(1 .. N) = N
    <2> HIDE DEF N
    <2>1. 1 \in Int /\ N \in Int
      BY <1>1
    <2>2. IsFiniteSet(1 .. N) /\ Cardinality(1 .. N) = IF 1 > N THEN 0 ELSE N - 1 + 1
      BY <2>1, FS_Interval
    <2>3. QED
      BY <1>1, <2>2
  <1>7. r \in Surjection(A, 1 .. N)
    <2> HIDE DEF r
    <2>1. Cardinality(A) = Cardinality(1 .. N)
      BY <1>6
    <2>2. QED
      BY <1>5, <1>6, <2>1, FS_Injection
  <1>8. \A k \in 1 .. N : \E x \in A : C(x) = k
    <2> HIDE DEF N, C
    <2>1. QED
      BY <1>7 DEF Surjection
  <1>9. QED
    BY <1>1, <1>2, <1>4, <1>8

\* The list l holds what is at the places A of t, each place once.
IsListOf(l, t, A) ==
    /\ Len(l) \in Nat /\ DOMAIN l = 1 .. Len(l)
    /\ \A r \in DOMAIN l : \E x \in A : l[r] = At(t, x)
    /\ \A x \in A : \E r \in DOMAIN l : l[r] = At(t, x)
    /\ (\A x, y \in A : At(t, x).k = At(t, y).k => x = y) =>
          \A r, q \in DOMAIN l : l[r].k = l[q].k => r = q

LEMMA ListedFacts ==
    ASSUME NEW t, NEW A, A \subseteq Nat \X Nat, IsFiniteSet(A)
    PROVE  IsListOf(ListedFrom(t, A), t, A)
  <1> DEFINE N == Cardinality(A)
             l == ListedFrom(t, A)
             Place(r) == CHOOSE x \in A : Cardinality(UpTo(A, x)) = r
  <1>1. N \in Nat
    BY Ranks
  <1>2. l = [r \in 1 .. N |-> At(t, Place(r))]
    BY DEF ListedFrom, UpTo
  <1>3. \A r \in 1 .. N : Place(r) \in A /\ Cardinality(UpTo(A, Place(r))) = r
    BY Ranks
  <1> HIDE DEF l, Place, N
  <1>4. DOMAIN l = 1 .. N /\ Len(l) = N /\ \A r \in 1 .. N : l[r] = At(t, Place(r))
    BY <1>1, <1>2
  <1>5. ASSUME NEW x \in A PROVE \E r \in 1 .. N : l[r] = At(t, x)
    <2>1. Cardinality(UpTo(A, x)) \in 1 .. N
      BY Ranks DEF N
    <2>2. Place(Cardinality(UpTo(A, x))) = x
      BY <1>3, <2>1, Ranks
    <2>3. QED
      BY <1>4, <2>1, <2>2
  <1>6. ASSUME \A x, y \in A : At(t, x).k = At(t, y).k => x = y,
               NEW r \in 1 .. N, NEW q \in 1 .. N, l[r].k = l[q].k
        PROVE  r = q
    <2>1. Place(r) = Place(q)
      BY <1>3, <1>4, <1>6
    <2>2. QED
      BY <1>3, <2>1
  <1>7. \A r \in 1 .. N : \E x \in A : l[r] = At(t, x)
    BY <1>3, <1>4
  <1>8. (\A x, y \in A : At(t, x).k = At(t, y).k => x = y) =>
           \A r, q \in 1 .. N : l[r].k = l[q].k => r = q
    BY <1>6
  <1>9. IsListOf(l, t, A)
    BY <1>1, <1>4, <1>5, <1>7, <1>8 DEF IsListOf
  <1>10. QED
    BY <1>9 DEF l

-----------------------------------------------------------------------------
(* Chains and tables.                                                       *)

EntriesOf(c) == {c[n] : n \in DOMAIN c}

\* Each key is in a chain once.
ChainOK(c) == c \in Seq(Entry) /\ \A n, m \in DOMAIN c : c[n].k = c[m].k => n = m

\* Every entry is in the chain of its key.
TableOK(t, size) ==
    /\ size \in Nat \ {0}
    /\ t = [i \in 0 .. size - 1 |-> t[i]]
    /\ \A i \in 0 .. size - 1 :
         /\ ChainOK(t[i])
         /\ \A e \in EntriesOf(t[i]) : indexFor(size, e.k) = i

AllOf(t, size) == UNION {EntriesOf(t[i]) : i \in 0 .. size - 1}

Dict(t, size) == [k \in Key |-> SearchIn(t[indexFor(size, k)], k)]

LEMMA IndexIs == ASSUME NEW size \in Nat \ {0}, NEW k \in Key
                 PROVE  indexFor(size, k) \in 0 .. size - 1
  <1> DEFINE h == Hash[k]
  <1>1. h \in Nat
    BY HashAssumption
  <1> HIDE DEF h
  <1>2. h % size \in 0 .. size - 1
    BY <1>1
  <1>3. QED
    BY <1>2 DEF h, indexFor

LEMMA ChainType == ASSUME NEW c, ChainOK(c)
                   PROVE  /\ Len(c) \in Nat /\ DOMAIN c = 1 .. Len(c)
                          /\ \A n \in DOMAIN c : c[n] \in Entry /\ c[n].k \in Key /\ c[n].v \in Val
  <1>1. c \in Seq(Entry)
    BY DEF ChainOK
  <1>2. Len(c) \in Nat /\ DOMAIN c = 1 .. Len(c) /\ \A n \in DOMAIN c : c[n] \in Entry
    BY <1>1
  <1>3. \A e \in Entry : e.k \in Key /\ e.v \in Val
    BY DEF Entry
  <1>4. QED
    BY <1>2, <1>3

LEMMA PlaceFound == ASSUME NEW c, ChainOK(c), NEW n \in DOMAIN c
                    PROVE  /\ PlaceOf(c, c[n].k) = n
                           /\ SearchIn(c, c[n].k) = c[n].v
  <1> DEFINE hits == {m \in DOMAIN c : c[m].k = c[n].k}
  <1>1. hits = {n}
    BY DEF ChainOK
  <1>2. n \in Nat /\ n # 0
    BY ChainType
  <1>3. {n} \subseteq Nat /\ {n} # {}
    BY <1>2
  <1>4. Min({n}) = n
    BY <1>3, MinIsLeast
  <1>5. PlaceOf(c, c[n].k) = n
    BY <1>1, <1>4, Zenon DEF PlaceOf
  <1>6. QED
    BY <1>2, <1>5 DEF SearchIn

LEMMA PlaceMissing == ASSUME NEW c, ChainOK(c), NEW k, k \notin KeysOf(c)
                      PROVE  PlaceOf(c, k) = 0 /\ SearchIn(c, k) = None
  <1>1. {m \in DOMAIN c : c[m].k = k} = {}
    BY DEF KeysOf
  <1>2. PlaceOf(c, k) = 0
    BY <1>1, Zenon DEF PlaceOf
  <1>3. QED
    BY <1>2 DEF SearchIn

\* What a search finds, by the entries of the chain.
LEMMA SearchFinds ==
    ASSUME NEW c, ChainOK(c), NEW k \in Key
    PROVE  /\ \A v : [k |-> k, v |-> v] \in EntriesOf(c) <=> SearchIn(c, k) = v /\ v # None
           /\ k \in KeysOf(c) <=> SearchIn(c, k) # None
  <1>1. CASE k \in KeysOf(c)
    <2>1. PICK n \in DOMAIN c : c[n].k = k
      BY <1>1 DEF KeysOf
    <2>2. SearchIn(c, k) = c[n].v
      BY <2>1, PlaceFound
    <2>3. c[n] \in Entry /\ c[n].v \in Val
      BY ChainType
    <2>4. c[n].v # None
      BY <2>3, HashAssumption
    <2>5. c[n] = [k |-> k, v |-> c[n].v]
      BY <2>1, <2>3 DEF Entry
    <2>6. ASSUME NEW v, [k |-> k, v |-> v] \in EntriesOf(c) PROVE v = c[n].v
      <3>1. PICK m \in DOMAIN c : c[m] = [k |-> k, v |-> v]
        BY <2>6 DEF EntriesOf
      <3>2. c[m].k = k /\ c[m].v = v
        BY <3>1
      <3>3. m = n
        BY <2>1, <3>2 DEF ChainOK
      <3>4. QED
        BY <3>2, <3>3
    <2>7. c[n] \in EntriesOf(c)
      BY DEF EntriesOf
    <2>8. QED
      BY <1>1, <2>2, <2>4, <2>5, <2>6, <2>7
  <1>2. CASE k \notin KeysOf(c)
    <2>1. SearchIn(c, k) = None
      BY <1>2, PlaceMissing
    <2>2. ASSUME NEW v PROVE [k |-> k, v |-> v] \notin EntriesOf(c)
      <3>1. ASSUME NEW m \in DOMAIN c, c[m] = [k |-> k, v |-> v] PROVE FALSE
        <4>1. c[m].k = k
          BY <3>1
        <4>2. QED
          BY <1>2, <4>1 DEF KeysOf
      <3>2. QED
        BY <3>1 DEF EntriesOf
    <2>3. QED
      BY <1>2, <2>1, <2>2
  <1>3. QED
    BY <1>1, <1>2

\* An entry is in the table when a search for its key finds it.
LEMMA DictHolds ==
    ASSUME NEW t, NEW size, TableOK(t, size), NEW k \in Key
    PROVE  \A v : [k |-> k, v |-> v] \in AllOf(t, size) <=> Dict(t, size)[k] = v /\ v # None
  <1> DEFINE i == indexFor(size, k)
  <1>1. size \in Nat \ {0}
    BY DEF TableOK
  <1>2. i \in 0 .. size - 1
    BY <1>1, IndexIs
  <1> HIDE DEF i
  <1>3. ChainOK(t[i])
    BY <1>2 DEF TableOK
  <1>4. Dict(t, size)[k] = SearchIn(t[i], k)
    BY DEF Dict, i
  <1>5. ASSUME NEW v PROVE [k |-> k, v |-> v] \in AllOf(t, size) <=> [k |-> k, v |-> v] \in EntriesOf(t[i])
    <2> DEFINE e == [k |-> k, v |-> v]
    <2>1. e.k = k
      OBVIOUS
    <2> HIDE DEF e
    <2>2. ASSUME NEW j \in 0 .. size - 1, e \in EntriesOf(t[j]) PROVE j = i
      BY <2>1, <2>2 DEF TableOK, i
    <2>3. e \in AllOf(t, size) <=> e \in EntriesOf(t[i])
      BY <1>2, <2>2 DEF AllOf
    <2>4. QED
      BY <2>3 DEF e
  <1>6. QED
    BY <1>3, <1>4, <1>5, SearchFinds

\* Two tables with the same entries for a key answer alike.
LEMMA SameAnswer ==
    ASSUME NEW t, NEW size, TableOK(t, size), NEW u, NEW wide, TableOK(u, wide),
           NEW k \in Key,
           \A v : [k |-> k, v |-> v] \in AllOf(t, size) <=> [k |-> k, v |-> v] \in AllOf(u, wide)
    PROVE  Dict(t, size)[k] = Dict(u, wide)[k]
  <1>1. \A v : (Dict(t, size)[k] = v /\ v # None) <=> (Dict(u, wide)[k] = v /\ v # None)
    BY DictHolds
  <1>2. QED
    BY <1>1

LEMMA DictIs == ASSUME NEW t, NEW size
                PROVE  Dict(t, size) = [k \in Key |-> Dict(t, size)[k]]
  BY DEF Dict

LEMMA EntriesAre == ASSUME NEW t, NEW size, TableOK(t, size)
                    PROVE  AllOf(t, size) \subseteq Entry
  <1>1. ASSUME NEW i \in 0 .. size - 1 PROVE EntriesOf(t[i]) \subseteq Entry
    <2>1. ChainOK(t[i])
      BY DEF TableOK
    <2>2. QED
      BY <2>1, ChainType DEF EntriesOf
  <1>2. QED
    BY <1>1 DEF AllOf

\* What the two updates of a table do to its map.
LEMMA DictPut ==
    ASSUME NEW t, NEW size, TableOK(t, size), NEW u, NEW wide, TableOK(u, wide),
           NEW k \in Key, NEW v \in Val, Dict(t, size)[k] = None,
           AllOf(u, wide) = AllOf(t, size) \cup {[k |-> k, v |-> v]}
    PROVE  Dict(u, wide) = [Dict(t, size) EXCEPT ![k] = v]
  <1>1. Dict(u, wide)[k] = v
    <2>1. [k |-> k, v |-> v] \in AllOf(u, wide) /\ v # None
      BY HashAssumption
    <2>2. QED
      BY <2>1, DictHolds
  <1>2. ASSUME NEW c \in Key, c # k PROVE Dict(u, wide)[c] = Dict(t, size)[c]
    <2>1. ASSUME NEW w PROVE [k |-> c, v |-> w] # [k |-> k, v |-> v]
      <3>1. [k |-> c, v |-> w].k = c /\ [k |-> k, v |-> v].k = k
        OBVIOUS
      <3>2. QED
        BY <1>2, <3>1
    <2>2. \A w : [k |-> c, v |-> w] \in AllOf(t, size) <=> [k |-> c, v |-> w] \in AllOf(u, wide)
      BY <2>1
    <2>3. QED
      BY <2>2, SameAnswer
  <1>3. QED
    BY <1>1, <1>2, DictIs

LEMMA DictDrop ==
    ASSUME NEW t, NEW size, TableOK(t, size), NEW u, NEW wide, TableOK(u, wide),
           NEW k \in Key, AllOf(u, wide) = {e \in AllOf(t, size) : e.k # k}
    PROVE  Dict(u, wide) = [Dict(t, size) EXCEPT ![k] = None]
  <1>1. Dict(u, wide)[k] = None
    <2>1. ASSUME NEW w PROVE [k |-> k, v |-> w] \notin AllOf(u, wide)
      <3>1. [k |-> k, v |-> w].k = k
        OBVIOUS
      <3>2. QED
        BY <3>1
    <2>2. \A w : ~(Dict(u, wide)[k] = w /\ w # None)
      BY <2>1, DictHolds
    <2>3. QED
      BY <2>2
  <1>2. ASSUME NEW c \in Key, c # k PROVE Dict(u, wide)[c] = Dict(t, size)[c]
    <2>1. ASSUME NEW w PROVE [k |-> c, v |-> w].k # k
      BY <1>2
    <2>2. \A w : [k |-> c, v |-> w] \in AllOf(t, size) <=> [k |-> c, v |-> w] \in AllOf(u, wide)
      BY <2>1
    <2>3. QED
      BY <2>2, SameAnswer
  <1>3. QED
    BY <1>1, <1>2, DictIs

-----------------------------------------------------------------------------
(* The places of a table.                                                   *)

LEMMA PlaceIs == ASSUME NEW t, NEW size, TableOK(t, size)
                 PROVE  \A x : x \in ChainPlaces(t) <=>
                               \E i \in 0 .. size - 1 : \E n \in DOMAIN t[i] : x = <<i, n>>
  <1> DEFINE D == 0 .. size - 1
             Row(i) == {<<i, n>> : n \in DOMAIN t[i]}
  <1>1. DOMAIN t = D
    BY DEF TableOK
  <1>2. ChainPlaces(t) = UNION {Row(i) : i \in D}
    BY <1>1 DEF ChainPlaces
  <1> HIDE DEF D
  <1>3. \A x : x \in ChainPlaces(t) <=> \E i \in D : x \in Row(i)
    BY <1>2
  <1>4. \A i \in D : \A x : x \in Row(i) <=> \E n \in DOMAIN t[i] : x = <<i, n>>
    OBVIOUS
  <1> HIDE DEF Row
  <1>5. \A x : x \in ChainPlaces(t) <=> \E i \in D : \E n \in DOMAIN t[i] : x = <<i, n>>
    BY <1>3, <1>4
  <1>6. QED
    BY <1>5 DEF D

LEMMA PlacesFinite == ASSUME NEW t, NEW size, TableOK(t, size)
                      PROVE  ChainPlaces(t) \subseteq Nat \X Nat /\ IsFiniteSet(ChainPlaces(t))
  <1> DEFINE Row(i) == {<<i, n>> : n \in DOMAIN t[i]}
             rows == [i \in 0 .. size - 1 |-> Row(i)]
  <1>1. DOMAIN t = 0 .. size - 1 /\ size \in Nat \ {0}
    BY DEF TableOK
  <1>2. ASSUME NEW i \in 0 .. size - 1
        PROVE  Row(i) \subseteq Nat \X Nat /\ IsFiniteSet(Row(i))
    <2>1. DOMAIN t[i] = 1 .. Len(t[i]) /\ Len(t[i]) \in Nat
      BY ChainType DEF TableOK
    <2>2. i \in Nat
      BY <1>1
    <2>3. Row(i) \subseteq Nat \X Nat
      BY <2>1, <2>2
    <2> DEFINE L == Len(t[i])
               pair == [n \in 1 .. L |-> <<i, n>>]
    <2>4. IsFiniteSet(1 .. L)
      <3> HIDE DEF L
      <3>1. 1 \in Int /\ L \in Int
        BY <2>1 DEF L
      <3>2. QED
        BY <3>1, FS_Interval
    <2>5. IsFiniteSet({pair[n] : n \in 1 .. L})
      <3> HIDE DEF L
      <3>1. DOMAIN pair = 1 .. L
        OBVIOUS
      <3> HIDE DEF pair
      <3>2. QED
        BY <2>4, <3>1, ImageFinite
    <2>6. {pair[n] : n \in 1 .. L} = Row(i)
      BY <2>1
    <2>7. QED
      BY <2>3, <2>5, <2>6
  <1>3. ChainPlaces(t) = UNION {rows[i] : i \in 0 .. size - 1}
    BY <1>1 DEF ChainPlaces
  <1>4. IsFiniteSet(0 .. size - 1)
    <2>1. 0 \in Int /\ size - 1 \in Int
      BY <1>1
    <2>2. QED
      BY <2>1, FS_Interval
  <1>5. DOMAIN rows = 0 .. size - 1 /\ \A i \in 0 .. size - 1 : rows[i] = Row(i)
    OBVIOUS
  <1> HIDE DEF rows, Row
  <1>6. IsFiniteSet({rows[i] : i \in 0 .. size - 1})
    BY <1>4, <1>5, ImageFinite
  <1>7. IsFiniteSet(UNION {rows[i] : i \in 0 .. size - 1})
    BY <1>2, <1>5, <1>6, FS_UNION
  <1>8. QED
    BY <1>2, <1>3, <1>5, <1>7

LEMMA PlacesHold ==
    ASSUME NEW t, NEW size, TableOK(t, size)
    PROVE  /\ \A x \in ChainPlaces(t) : At(t, x) \in AllOf(t, size)
           /\ \A e \in AllOf(t, size) : \E x \in ChainPlaces(t) : At(t, x) = e
           /\ \A x, y \in ChainPlaces(t) : At(t, x).k = At(t, y).k => x = y
  <1>1. ASSUME NEW x \in ChainPlaces(t) PROVE At(t, x) \in AllOf(t, size)
    <2>1. PICK i \in 0 .. size - 1 : \E n \in DOMAIN t[i] : x = <<i, n>>
      BY PlaceIs
    <2>2. PICK n \in DOMAIN t[i] : x = <<i, n>>
      BY <2>1
    <2>3. At(t, x) = t[i][n]
      BY <2>2 DEF At
    <2>4. QED
      BY <2>3 DEF AllOf, EntriesOf
  <1>2. ASSUME NEW e \in AllOf(t, size) PROVE \E x \in ChainPlaces(t) : At(t, x) = e
    <2>1. PICK i \in 0 .. size - 1 : e \in EntriesOf(t[i])
      BY DEF AllOf
    <2>2. PICK n \in DOMAIN t[i] : e = t[i][n]
      BY <2>1 DEF EntriesOf
    <2>3. <<i, n>> \in ChainPlaces(t)
      BY PlaceIs
    <2>4. At(t, <<i, n>>) = e
      BY <2>2 DEF At
    <2>5. QED
      BY <2>3, <2>4
  <1>3. ASSUME NEW x \in ChainPlaces(t), NEW y \in ChainPlaces(t), At(t, x).k = At(t, y).k PROVE x = y
    <2>1. PICK i \in 0 .. size - 1 : \E n \in DOMAIN t[i] : x = <<i, n>>
      BY PlaceIs
    <2>2. PICK n \in DOMAIN t[i] : x = <<i, n>>
      BY <2>1
    <2>3. PICK j \in 0 .. size - 1 : \E m \in DOMAIN t[j] : y = <<j, m>>
      BY PlaceIs
    <2>4. PICK m \in DOMAIN t[j] : y = <<j, m>>
      BY <2>3
    <2>5. t[i][n].k = t[j][m].k
      BY <1>3, <2>2, <2>4 DEF At
    <2>6. t[i][n] \in EntriesOf(t[i]) /\ t[j][m] \in EntriesOf(t[j])
      BY DEF EntriesOf
    <2>7. i = j
      BY <2>5, <2>6 DEF TableOK
    <2>8. n = m
      BY <2>5, <2>7 DEF TableOK, ChainOK
    <2>9. QED
      BY <2>2, <2>4, <2>7, <2>8
  <1>4. QED
    BY <1>1, <1>2, <1>3

-----------------------------------------------------------------------------
(* The updates of a table.                                                  *)

\* A list turned round.
LEMMA TurnedRound ==
    ASSUME NEW l, Len(l) \in Nat, DOMAIN l = 1 .. Len(l), \A n \in DOMAIN l : l[n] \in Entry,
           \A n, m \in DOMAIN l : l[n].k = l[m].k => n = m
    PROVE  LET d == [n \in DOMAIN l |-> l[Len(l) + 1 - n]]
           IN  ChainOK(d) /\ EntriesOf(d) = EntriesOf(l)
  <1> DEFINE L == Len(l)
             d == [n \in 1 .. L |-> l[L + 1 - n]]
  <1>1. L \in Nat /\ DOMAIN l = 1 .. L
    OBVIOUS
  <1> HIDE DEF L
  <1>2. \A n \in 1 .. L : L + 1 - n \in 1 .. L /\ L + 1 - (L + 1 - n) = n
    BY <1>1
  <1>3. d \in Seq(Entry) /\ DOMAIN d = 1 .. L
    BY <1>1, <1>2
  <1>4. ASSUME NEW n \in 1 .. L, NEW m \in 1 .. L, d[n].k = d[m].k PROVE n = m
    <2>1. l[L + 1 - n].k = l[L + 1 - m].k
      BY <1>4
    <2>2. L + 1 - n = L + 1 - m
      BY <1>1, <1>2, <2>1
    <2>3. QED
      BY <1>1, <2>2
  <1>5. \A n \in 1 .. L : d[n] \in EntriesOf(l)
    BY <1>1, <1>2 DEF EntriesOf
  <1>6. ASSUME NEW n \in 1 .. L PROVE l[n] \in EntriesOf(d)
    <2>1. d[L + 1 - n] = l[n] /\ L + 1 - n \in DOMAIN d
      BY <1>2, <1>3
    <2> HIDE DEF d
    <2>2. QED
      BY <2>1 DEF EntriesOf
  <1>7. ChainOK(d)
    BY <1>3, <1>4 DEF ChainOK
  <1>8. EntriesOf(d) = EntriesOf(l)
    <2>1. EntriesOf(d) \subseteq EntriesOf(l)
      BY <1>3, <1>5 DEF EntriesOf
    <2>2. EntriesOf(l) \subseteq EntriesOf(d)
      BY <1>1, <1>6 DEF EntriesOf
    <2>3. QED
      BY <2>1, <2>2
  <1>9. d = [n \in DOMAIN l |-> l[Len(l) + 1 - n]]
    BY <1>1 DEF L
  <1> HIDE DEF d
  <1>10. QED
    BY <1>7, <1>8, <1>9

\* A larger table holds what the smaller one held.
LEMMA ExpandKeeps ==
    ASSUME NEW t, NEW size, TableOK(t, size), NEW wide \in Nat \ {0}
    PROVE  /\ TableOK(hashtable_expand(t, wide), wide)
           /\ AllOf(hashtable_expand(t, wide), wide) = AllOf(t, size)
  <1> DEFINE u == hashtable_expand(t, wide)
             Mine(i) == {x \in ChainPlaces(t) : indexFor(wide, At(t, x).k) = i}
             l(i) == ListedFrom(t, Mine(i))
  <1>1. ASSUME NEW i \in 0 .. wide - 1
        PROVE  /\ IsListOf(l(i), t, Mine(i))
               /\ ChainOK(u[i]) /\ EntriesOf(u[i]) = EntriesOf(l(i))
    <2>1. Mine(i) \in SUBSET ChainPlaces(t)
      OBVIOUS
    <2>2. Mine(i) \subseteq Nat \X Nat /\ IsFiniteSet(Mine(i))
      <3> HIDE DEF Mine
      <3>1. QED
        BY <2>1, PlacesFinite, FS_Subset
    <2>3. IsListOf(l(i), t, Mine(i))
      <3> HIDE DEF Mine
      <3>1. QED
        BY <2>2, ListedFacts
    <2>4. u[i] = [n \in DOMAIN l(i) |-> l(i)[Len(l(i)) + 1 - n]]
      BY DEF hashtable_expand
    <2>5. \A n \in DOMAIN l(i) : l(i)[n] \in Entry
      <3>1. \A x \in Mine(i) : At(t, x) \in Entry
        BY <2>1, PlacesHold, EntriesAre
      <3> HIDE DEF Mine
      <3>2. QED
        BY <2>3, <3>1 DEF IsListOf
    <2>6. \A n, m \in DOMAIN l(i) : l(i)[n].k = l(i)[m].k => n = m
      <3>1. \A x, y \in Mine(i) : At(t, x).k = At(t, y).k => x = y
        BY <2>1, PlacesHold
      <3> HIDE DEF Mine
      <3>2. QED
        BY <2>3, <3>1 DEF IsListOf
    <2>7. Len(l(i)) \in Nat /\ DOMAIN l(i) = 1 .. Len(l(i))
      <3> HIDE DEF Mine
      <3>1. QED
        BY <2>3 DEF IsListOf
    <2> HIDE DEF u, l
    <2>8. ChainOK(u[i]) /\ EntriesOf(u[i]) = EntriesOf(l(i))
      <3> DEFINE w == l(i)
                 d == [n \in DOMAIN w |-> w[Len(w) + 1 - n]]
      <3>1. /\ u[i] = d
            /\ \A n \in DOMAIN w : w[n] \in Entry
            /\ \A n, m \in DOMAIN w : w[n].k = w[m].k => n = m
            /\ Len(w) \in Nat /\ DOMAIN w = 1 .. Len(w)
        BY <2>4, <2>5, <2>6, <2>7
      <3> HIDE DEF w
      <3>2. ChainOK(d) /\ EntriesOf(d) = EntriesOf(w)
        BY <3>1, TurnedRound, Zenon
      <3>3. QED
        BY <3>1, <3>2 DEF w
    <2>9. QED
      BY <2>3, <2>8
  <1>2. u = [i \in 0 .. wide - 1 |-> u[i]]
    BY DEF hashtable_expand
  <1> HIDE DEF u, l
  <1>3. ASSUME NEW i \in 0 .. wide - 1
        PROVE  EntriesOf(u[i]) = {At(t, x) : x \in Mine(i)}
    <2> HIDE DEF Mine
    <2>1. EntriesOf(l(i)) = {At(t, x) : x \in Mine(i)}
      BY <1>1 DEF IsListOf, EntriesOf
    <2>2. QED
      BY <1>1, <2>1
  <1>4. TableOK(u, wide)
    <2>1. ASSUME NEW i \in 0 .. wide - 1, NEW e \in EntriesOf(u[i]) PROVE indexFor(wide, e.k) = i
      BY <1>3
    <2>2. QED
      BY <1>1, <1>2, <2>1 DEF TableOK
  <1>5. ASSUME NEW e \in AllOf(u, wide) PROVE e \in AllOf(t, size)
    <2>1. PICK i \in 0 .. wide - 1 : e \in EntriesOf(u[i])
      BY DEF AllOf
    <2>2. PICK x \in Mine(i) : e = At(t, x)
      BY <1>3, <2>1
    <2>3. QED
      BY <2>2, PlacesHold
  <1>6. ASSUME NEW e \in AllOf(t, size) PROVE e \in AllOf(u, wide)
    <2>1. PICK x \in ChainPlaces(t) : At(t, x) = e
      BY PlacesHold
    <2>2. e.k \in Key
      BY EntriesAre DEF Entry
    <2>3. PICK i \in 0 .. wide - 1 : indexFor(wide, e.k) = i
      BY <2>2, IndexIs
    <2>4. x \in Mine(i)
      BY <2>1, <2>3
    <2>5. e \in EntriesOf(u[i])
      BY <1>3, <2>1, <2>4
    <2>6. QED
      BY <2>5 DEF AllOf
  <1>7. AllOf(u, wide) = AllOf(t, size)
    BY <1>5, <1>6
  <1>8. QED
    BY <1>4, <1>7 DEF u

\* An entry put before a chain.
LEMMA PutBefore ==
    ASSUME NEW c, ChainOK(c), NEW e \in Entry, e.k \notin KeysOf(c)
    PROVE  ChainOK(<<e>> \o c) /\ EntriesOf(<<e>> \o c) = EntriesOf(c) \cup {e}
  <1> DEFINE L == Len(c)
             d == <<e>> \o c
  <1>1. L \in Nat /\ DOMAIN c = 1 .. L /\ c \in Seq(Entry) /\ \A n \in 1 .. L : c[n] \in Entry
    BY ChainType DEF ChainOK
  <1>2. <<e>> \in Seq(Entry) /\ Len(<<e>>) = 1 /\ <<e>>[1] = e
    OBVIOUS
  <1>3. /\ d \in Seq(Entry) /\ Len(d) = 1 + L
        /\ \A n \in 1 .. 1 + L : d[n] = IF n <= 1 THEN <<e>>[n] ELSE c[n - 1]
    BY <1>1, <1>2, ConcatProperties
  <1>4. DOMAIN d = 1 .. 1 + L
    BY <1>3
  <1> HIDE DEF d, L
  <1>5. d[1] = e /\ \A n \in 1 .. L : n + 1 \in DOMAIN d /\ d[n + 1] = c[n]
    BY <1>1, <1>2, <1>3, <1>4
  <1>6. \A n \in DOMAIN d : n # 1 => n - 1 \in 1 .. L /\ d[n] = c[n - 1]
    BY <1>1, <1>3, <1>4
  <1>7. \A n \in 1 .. L : c[n].k # e.k
    BY <1>1 DEF KeysOf
  <1>8. ASSUME NEW n \in DOMAIN d, NEW m \in DOMAIN d, d[n].k = d[m].k PROVE n = m
    <2>1. CASE n = 1 /\ m = 1
      BY <2>1
    <2>2. CASE n = 1 /\ m # 1
      BY <1>5, <1>6, <1>7, <1>8, <2>2
    <2>3. CASE n # 1 /\ m = 1
      BY <1>5, <1>6, <1>7, <1>8, <2>3
    <2>4. CASE n # 1 /\ m # 1
      <3>1. n - 1 \in DOMAIN c /\ m - 1 \in DOMAIN c /\ c[n - 1].k = c[m - 1].k
        BY <1>1, <1>6, <1>8, <2>4
      <3>2. n - 1 = m - 1
        BY <3>1 DEF ChainOK
      <3>3. n \in Int /\ m \in Int
        BY <1>1, <1>4
      <3>4. QED
        BY <3>2, <3>3
    <2>5. QED
      BY <2>1, <2>2, <2>3, <2>4
  <1>9. ChainOK(d)
    BY <1>3, <1>8 DEF ChainOK
  <1>10. EntriesOf(d) \subseteq EntriesOf(c) \cup {e}
    <2>1. ASSUME NEW n \in DOMAIN d PROVE d[n] \in EntriesOf(c) \cup {e}
      BY <1>1, <1>5, <1>6 DEF EntriesOf
    <2>2. QED
      BY <2>1 DEF EntriesOf
  <1>11. e \in EntriesOf(d)
    BY <1>1, <1>4, <1>5 DEF EntriesOf
  <1>12. EntriesOf(c) \subseteq EntriesOf(d)
    <2>1. ASSUME NEW n \in 1 .. L PROVE c[n] \in EntriesOf(d)
      BY <1>5 DEF EntriesOf
    <2>2. QED
      BY <1>1, <2>1 DEF EntriesOf
  <1>13. QED
    BY <1>9, <1>10, <1>11, <1>12 DEF d

\* A chain without one of its entries.
LEMMA TakeOut ==
    ASSUME NEW c, ChainOK(c), NEW at \in DOMAIN c
    PROVE  /\ ChainOK(Without(c, at)) /\ Len(Without(c, at)) = Len(c) - 1
           /\ EntriesOf(Without(c, at)) = {e \in EntriesOf(c) : e.k # c[at].k}
           /\ \A n \in 1 .. Len(c) - 1 :
                 Without(c, at)[n] = IF n < at THEN c[n] ELSE c[n + 1]
  <1> DEFINE L == Len(c)
             d == Without(c, at)
  <1>1. L \in Nat /\ DOMAIN c = 1 .. L /\ \A n \in 1 .. L : c[n] \in Entry
    BY ChainType
  <1>2. d = [n \in 1 .. L - 1 |-> IF n < at THEN c[n] ELSE c[n + 1]]
    BY DEF Without
  <1> HIDE DEF d, L
  <1>3. at \in 1 .. L /\ L - 1 \in Nat
    BY <1>1
  <1> DEFINE f(n) == IF n < at THEN n ELSE n + 1
  <1>4. \A n \in 1 .. L - 1 : f(n) \in 1 .. L /\ f(n) # at
    BY <1>1, <1>3
  <1>5. \A n, m \in 1 .. L - 1 : f(n) = f(m) => n = m
    BY <1>1, <1>3
  <1>6. ASSUME NEW n \in 1 .. L, n # at PROVE \E m \in 1 .. L - 1 : f(m) = n
    <2>1. CASE n < at
      <3>1. n \in 1 .. L - 1 /\ f(n) = n
        BY <1>1, <1>3, <2>1
      <3>2. QED
        BY <3>1
    <2>2. CASE ~(n < at)
      <3>1. n - 1 \in 1 .. L - 1 /\ f(n - 1) = n
        BY <1>1, <1>3, <1>6, <2>2
      <3>2. QED
        BY <3>1
    <2>3. QED
      BY <2>1, <2>2
  <1>7. \A n \in 1 .. L - 1 : d[n] = c[f(n)]
    BY <1>2
  <1> HIDE DEF f
  <1>8. d \in Seq(Entry) /\ DOMAIN d = 1 .. L - 1 /\ Len(d) = L - 1
    <2>1. \A n \in 1 .. L - 1 : d[n] \in Entry
      BY <1>1, <1>4, <1>7
    <2>2. d = [n \in 1 .. L - 1 |-> d[n]]
      BY <1>2
    <2> HIDE DEF d
    <2>3. d \in [1 .. L - 1 -> Entry]
      BY <2>1, <2>2, Zenon
    <2>4. QED
      BY <1>3, <2>3
  <1>9. ChainOK(d)
    <2>1. ASSUME NEW n \in 1 .. L - 1, NEW m \in 1 .. L - 1, d[n].k = d[m].k PROVE n = m
      <3>1. c[f(n)].k = c[f(m)].k
        BY <1>7, <2>1
      <3>2. f(n) = f(m)
        BY <1>1, <1>4, <3>1 DEF ChainOK
      <3>3. QED
        BY <1>5, <3>2
    <2>2. QED
      BY <1>8, <2>1 DEF ChainOK
  <1>10. \A n \in 1 .. L - 1 : d[n] \in EntriesOf(c) /\ d[n].k # c[at].k
    <2>1. ASSUME NEW n \in 1 .. L - 1 PROVE d[n] \in EntriesOf(c) /\ d[n].k # c[at].k
      <3>1. d[n] = c[f(n)] /\ f(n) \in DOMAIN c /\ f(n) # at
        BY <1>1, <1>4, <1>7
      <3>2. QED
        BY <3>1 DEF EntriesOf, ChainOK
    <2>2. QED
      BY <2>1
  <1>11. ASSUME NEW e \in EntriesOf(c), e.k # c[at].k PROVE e \in EntriesOf(d)
    <2>1. PICK n \in 1 .. L : e = c[n]
      BY <1>1 DEF EntriesOf
    <2>2. n # at
      BY <1>11, <2>1
    <2>3. PICK m \in 1 .. L - 1 : f(m) = n
      BY <1>6, <2>2
    <2>4. QED
      BY <1>7, <1>8, <2>1, <2>3 DEF EntriesOf
  <1>12. EntriesOf(d) = {e \in EntriesOf(c) : e.k # c[at].k}
    <2>1. EntriesOf(d) \subseteq {e \in EntriesOf(c) : e.k # c[at].k}
      BY <1>8, <1>10 DEF EntriesOf
    <2>2. QED
      BY <1>11, <2>1
  <1>13. QED
    BY <1>2, <1>8, <1>9, <1>12 DEF d, L

\* A table with one of its chains replaced.
Replaced(u, t, i, d) == u = [t EXCEPT ![i] = d]

LEMMA ChainReplaced ==
    ASSUME NEW t, NEW size, TableOK(t, size), NEW i \in 0 .. size - 1,
           NEW d, ChainOK(d), \A e \in EntriesOf(d) : indexFor(size, e.k) = i,
           NEW u, Replaced(u, t, i, d)
    PROVE  /\ TableOK(u, size)
           /\ AllOf(u, size) = EntriesOf(d) \cup {e \in AllOf(t, size) : indexFor(size, e.k) # i}
           /\ EntriesOf(t[i]) = {e \in AllOf(t, size) : indexFor(size, e.k) = i}
  <1> DEFINE D == 0 .. size - 1
  <1>1. DOMAIN t = D /\ size \in Nat \ {0}
    BY DEF TableOK
  <1>2. \A j \in D : ChainOK(t[j]) /\ \A e \in EntriesOf(t[j]) : indexFor(size, e.k) = j
    BY DEF TableOK
  <1> HIDE DEF D
  <1>3. i \in D
    BY DEF D
  <1>4. u = [j \in D |-> u[j]] /\ u[i] = d /\ \A j \in D : j # i => u[j] = t[j]
    BY <1>1, <1>3 DEF Replaced
  <1>5. \A j \in D : ChainOK(u[j]) /\ \A e \in EntriesOf(u[j]) : indexFor(size, e.k) = j
    BY <1>2, <1>4
  <1>6. TableOK(u, size)
    BY <1>1, <1>4, <1>5 DEF TableOK, D
  <1>7. EntriesOf(t[i]) = {e \in AllOf(t, size) : indexFor(size, e.k) = i}
    BY <1>2, <1>3 DEF AllOf, D
  <1>8. ASSUME NEW e PROVE e \in AllOf(u, size) <=>
                              e \in EntriesOf(d) \/ (e \in AllOf(t, size) /\ indexFor(size, e.k) # i)
    <2>1. e \in AllOf(u, size) <=> \E j \in D : e \in EntriesOf(u[j])
      BY DEF AllOf, D
    <2>2. e \in AllOf(t, size) <=> \E j \in D : e \in EntriesOf(t[j])
      BY DEF AllOf, D
    <2>3. QED
      BY <1>2, <1>3, <1>4, <2>1, <2>2
  <1>9. AllOf(u, size) = EntriesOf(d) \cup {e \in AllOf(t, size) : indexFor(size, e.k) # i}
    BY <1>8
  <1>10. QED
    BY <1>6, <1>7, <1>9

-----------------------------------------------------------------------------
(* The iterator.                                                            *)

\* The key before a place of a chain.
Before(c, at) == IF at = 1 THEN NoEntry ELSE c[at - 1].k

\* The iterator stands in the chain c, its parent on the entry before its own.
StandsIn(it, c) == it.e \in KeysOf(c) /\ it.parent = Before(c, PlaceOf(c, it.e))

ItrOK(it, t, size) ==
    /\ it = [index |-> it.index, e |-> it.e, parent |-> it.parent]
    /\ it.e # NoEntry => it.index \in 0 .. size - 1 /\ StandsIn(it, t[it.index])

\* The keys of a chain from a place on.
TailOf(c, at) == {c[n].k : n \in at .. Len(c)}

LEMMA TailFacts ==
    ASSUME NEW c, ChainOK(c), NEW at \in DOMAIN c
    PROVE  /\ c[at].k \in TailOf(c, at)
           /\ TailOf(c, at + 1) = TailOf(c, at) \ {c[at].k}
           /\ TailOf(c, Len(c) + 1) = {}
           /\ TailOf(c, 1) = KeysOf(c)
           /\ TailOf(c, at) \subseteq KeysOf(c)
           /\ TailOf(Without(c, at), at) = TailOf(c, at + 1)
  <1> DEFINE L == Len(c)
             d == Without(c, at)
  <1>1. L \in Nat /\ DOMAIN c = 1 .. L
    BY ChainType
  <1>2. Len(d) = L - 1 /\ \A n \in 1 .. L - 1 : d[n] = IF n < at THEN c[n] ELSE c[n + 1]
    BY TakeOut
  <1> HIDE DEF d, L
  <1>3. TailOf(c, at) = {c[n].k : n \in at .. L} /\ TailOf(c, at + 1) = {c[n].k : n \in at + 1 .. L}
        /\ TailOf(d, at) = {d[n].k : n \in at .. L - 1}
    BY <1>2 DEF TailOf, L
  <1>4. c[at].k \in TailOf(c, at)
    BY <1>1, <1>3
  <1>5. TailOf(c, at + 1) = TailOf(c, at) \ {c[at].k}
    <2>1. \A n \in at + 1 .. L : n \in at .. L /\ n \in DOMAIN c /\ n # at
      BY <1>1
    <2>2. \A n \in at + 1 .. L : c[n].k # c[at].k
      BY <2>1 DEF ChainOK
    <2>3. \A n \in at .. L : n = at \/ n \in at + 1 .. L
      BY <1>1
    <2>4. QED
      BY <1>3, <2>1, <2>2, <2>3
  <1>6. TailOf(c, L + 1) = {} /\ TailOf(c, 1) = KeysOf(c)
    <2>1. L + 1 .. L = {} /\ TailOf(c, L + 1) = {c[n].k : n \in L + 1 .. L}
      BY <1>1 DEF TailOf, L
    <2>2. TailOf(c, 1) = {c[n].k : n \in 1 .. L}
      BY DEF TailOf, L
    <2>3. KeysOf(c) = {c[n].k : n \in 1 .. L}
      BY <1>1 DEF KeysOf
    <2>4. QED
      BY <2>1, <2>2, <2>3
  <1>7. TailOf(c, at) \subseteq KeysOf(c)
    BY <1>1, <1>3 DEF KeysOf
  <1>8. TailOf(d, at) = TailOf(c, at + 1)
    <2>1. \A n \in at .. L - 1 : n + 1 \in at + 1 .. L /\ d[n] = c[n + 1]
      BY <1>1, <1>2
    <2>2. \A n \in at + 1 .. L : n - 1 \in at .. L - 1 /\ d[n - 1] = c[n]
      BY <1>1, <1>2
    <2>3. QED
      BY <1>3, <2>1, <2>2
  <1>9. QED
    BY <1>4, <1>5, <1>6, <1>7, <1>8 DEF d, L

LEMMA AheadIs ==
    ASSUME NEW it, NEW t, NEW size
    PROVE  /\ it.e = NoEntry => AheadOf(it, t, size) = {}
           /\ it.e # NoEntry =>
                 AheadOf(it, t, size) = TailOf(t[it.index], PlaceOf(t[it.index], it.e))
                                            \cup KeysFrom(t, size, it.index + 1)
  BY Zenon DEF AheadOf, TailOf

\* The first entry from an index on has all the keys from there on ahead.
LEMMA FirstFromFacts ==
    ASSUME NEW t, NEW size, TableOK(t, size), NEW i \in Nat
    PROVE  /\ ItrOK(FirstFrom(t, size, i), t, size)
           /\ AheadOf(FirstFrom(t, size, i), t, size) = KeysFrom(t, size, i)
           /\ FirstFrom(t, size, i).parent = NoEntry
  <1> DEFINE used == {j \in i .. size - 1 : t[j] # <<>>}
             w == FirstFrom(t, size, i)
             m == Min(used)
  <1>1. size \in Nat \ {0} /\ \A j \in i .. size - 1 : j \in 0 .. size - 1 /\ ChainOK(t[j])
    BY DEF TableOK
  <1>2. CASE used = {}
    <2>1. w = Nowhere(size)
      BY <1>2, Zenon DEF FirstFrom
    <2>2. w.e = NoEntry /\ w.parent = NoEntry /\ w = [index |-> w.index, e |-> w.e, parent |-> w.parent]
      BY <2>1 DEF Nowhere
    <2>3. \A j \in i .. size - 1 : KeysOf(t[j]) = {}
      BY <1>2 DEF KeysOf
    <2>4. KeysFrom(t, size, i) = {}
      BY <2>3 DEF KeysFrom
    <2> HIDE DEF w
    <2>5. AheadOf(w, t, size) = {}
      BY <2>2, AheadIs
    <2>6. QED
      BY <2>2, <2>4, <2>5 DEF ItrOK, w
  <1>3. CASE used # {}
    <2>1. used \subseteq Nat
      BY <1>1
    <2>2. m \in used /\ \A j \in used : m <= j
      <3> HIDE DEF used
      <3>1. QED
        BY <1>3, <2>1, MinIsLeast
    <2>3. w = [index |-> m, e |-> t[m][1].k, parent |-> NoEntry]
      BY <1>3, Zenon DEF FirstFrom
    <2> HIDE DEF m, w
    <2>4. m \in i .. size - 1 /\ t[m] # <<>> /\ m \in 0 .. size - 1 /\ ChainOK(t[m])
      BY <1>1, <2>2
    <2> DEFINE c == t[m]
    <2>5. Len(c) \in Nat /\ DOMAIN c = 1 .. Len(c) /\ c \in Seq(Entry)
      BY <2>4, ChainType DEF ChainOK
    <2>6. 1 \in DOMAIN c
      BY <2>4, <2>5
    <2>7. PlaceOf(c, c[1].k) = 1 /\ TailOf(c, 1) = KeysOf(c) /\ c[1].k \in Key
      BY <2>4, <2>6, PlaceFound, TailFacts, ChainType
    <2>8. c[1].k \in KeysOf(c)
      BY <2>6 DEF KeysOf
    <2>9. c[1].k # NoEntry
      BY <2>7, HashAssumption DEF NoEntry
    <2>10. ItrOK(w, t, size)
      <3>1. StandsIn(w, c)
        BY <2>3, <2>7, <2>8 DEF StandsIn, Before
      <3>2. QED
        BY <2>3, <2>4, <3>1 DEF ItrOK
    <2>11. AheadOf(w, t, size) = KeysOf(c) \cup KeysFrom(t, size, m + 1)
      <3>1. w.e = c[1].k /\ w.index = m
        BY <2>3
      <3> HIDE DEF c
      <3>2. AheadOf(w, t, size) = TailOf(t[w.index], PlaceOf(t[w.index], w.e))
                                    \cup KeysFrom(t, size, w.index + 1)
        BY <2>9, <3>1, AheadIs
      <3>3. QED
        BY <2>7, <3>1, <3>2 DEF c
    <2>12. KeysFrom(t, size, i) = KeysOf(c) \cup KeysFrom(t, size, m + 1)
      <3>1. \A j \in i .. size - 1 : j = m \/ j \in m + 1 .. size - 1 \/ KeysOf(t[j]) = {}
        <4>1. ASSUME NEW j \in i .. size - 1, j \notin m .. size - 1 PROVE KeysOf(t[j]) = {}
          <5>1. j \notin used
            BY <1>1, <2>2, <2>4, <4>1
          <5>2. t[j] = <<>>
            BY <5>1
          <5>3. QED
            BY <5>2 DEF KeysOf
        <4>2. \A j \in i .. size - 1 : j \in m .. size - 1 => j = m \/ j \in m + 1 .. size - 1
          BY <1>1, <2>4
        <4>3. QED
          BY <4>1, <4>2
      <3>2. \A j \in m + 1 .. size - 1 : j \in i .. size - 1
        BY <1>1, <2>4
      <3>3. QED
        BY <2>4, <3>1, <3>2 DEF KeysFrom
    <2>13. QED
      BY <2>3, <2>10, <2>11, <2>12 DEF w
  <1>4. QED
    BY <1>2, <1>3

\* The keys of the later chains are not in this one.
LEMMA OtherChains ==
    ASSUME NEW t, NEW size, TableOK(t, size), NEW i \in 0 .. size - 1
    PROVE  /\ KeysFrom(t, size, i + 1) \cap KeysOf(t[i]) = {}
           /\ \A u, d : Replaced(u, t, i, d) => KeysFrom(u, size, i + 1) = KeysFrom(t, size, i + 1)
  <1>1. size \in Nat \ {0} /\ DOMAIN t = 0 .. size - 1
    BY DEF TableOK
  <1>2. \A j \in i + 1 .. size - 1 : j \in 0 .. size - 1 /\ j # i
    BY <1>1
  <1>3. ASSUME NEW j \in 0 .. size - 1, NEW k \in KeysOf(t[j]) PROVE indexFor(size, k) = j
    BY <1>3 DEF TableOK, KeysOf, EntriesOf
  <1>4. KeysFrom(t, size, i + 1) \cap KeysOf(t[i]) = {}
    BY <1>2, <1>3 DEF KeysFrom
  <1>5. ASSUME NEW u, NEW d, Replaced(u, t, i, d)
        PROVE  KeysFrom(u, size, i + 1) = KeysFrom(t, size, i + 1)
    <2>1. \A j \in i + 1 .. size - 1 : u[j] = t[j]
      BY <1>1, <1>2, <1>5 DEF Replaced
    <2>2. QED
      BY <2>1 DEF KeysFrom
  <1>6. QED
    BY <1>4, <1>5

\* Where an iterator that stands in a chain is.
LEMMA StandsAt ==
    ASSUME NEW t, NEW size, TableOK(t, size), NEW it, ItrOK(it, t, size),
           it.e # NoEntry
    PROVE  LET c  == t[it.index]
               at == PlaceOf(c, it.e)
           IN  /\ it.index \in 0 .. size - 1 /\ size \in Nat /\ ChainOK(c)
               /\ at \in DOMAIN c /\ DOMAIN c = 1 .. Len(c) /\ Len(c) \in Nat
               /\ c[at].k = it.e /\ it.e \in Key /\ indexFor(size, it.e) = it.index
               /\ it.parent = Before(c, at)
               /\ it.e \in AheadOf(it, t, size)
               /\ AheadOf(it, t, size) \ {it.e} = TailOf(c, at + 1) \cup KeysFrom(t, size, it.index + 1)
  <1> DEFINE i == it.index
             c == t[i]
             at == PlaceOf(c, it.e)
  <1>1. i \in 0 .. size - 1 /\ StandsIn(it, c)
    BY DEF ItrOK
  <1>2. ChainOK(c) /\ size \in Nat
    BY <1>1 DEF TableOK
  <1>3. PICK n \in DOMAIN c : c[n].k = it.e
    BY <1>1 DEF StandsIn, KeysOf
  <1> HIDE DEF c
  <1>4. at = n
    BY <1>2, <1>3, PlaceFound
  <1>5. DOMAIN c = 1 .. Len(c) /\ Len(c) \in Nat /\ it.e \in Key
    BY <1>2, <1>3, ChainType
  <1>6. indexFor(size, it.e) = i
    BY <1>1, <1>3 DEF TableOK, EntriesOf, c
  <1>7. it.parent = Before(c, at)
    BY <1>1 DEF StandsIn
  <1>8. AheadOf(it, t, size) = TailOf(c, at) \cup KeysFrom(t, size, i + 1)
    BY AheadIs DEF c
  <1>9. /\ it.e \in TailOf(c, at) /\ TailOf(c, at + 1) = TailOf(c, at) \ {it.e}
        /\ it.e \in KeysOf(c)
    <2>1. at \in DOMAIN c /\ c[at].k = it.e
      BY <1>3, <1>4
    <2> HIDE DEF at
    <2>2. QED
      BY <1>2, <2>1, TailFacts DEF KeysOf
  <1>10. it.e \notin KeysFrom(t, size, i + 1)
    BY <1>1, <1>9, OtherChains DEF c
  <1>11. AheadOf(it, t, size) \ {it.e} = TailOf(c, at + 1) \cup KeysFrom(t, size, i + 1)
    BY <1>8, <1>9, <1>10
  <1>12. at \in DOMAIN c /\ c[at].k = it.e
    BY <1>3, <1>4
  <1>13. it.e \in AheadOf(it, t, size)
    BY <1>8, <1>9
  <1> HIDE DEF at, i
  <1>14. QED
    BY <1>1, <1>2, <1>5, <1>6, <1>7, <1>11, <1>12, <1>13, Zenon DEF c, at, i

\* An advance moves to the next entry and leaves only the entry it was on behind.
LEMMA AdvanceFacts ==
    ASSUME NEW t, NEW size, TableOK(t, size), NEW it, ItrOK(it, t, size),
           it.e # NoEntry
    PROVE  LET w == After(it, t[it.index], t, size)
           IN  /\ ItrOK(w, t, size)
               /\ AheadOf(w, t, size) = AheadOf(it, t, size) \ {it.e}
  <1> DEFINE i == it.index
             c == t[i]
             at == PlaceOf(c, it.e)
             w == After(it, c, t, size)
  <1>1. /\ i \in 0 .. size - 1 /\ size \in Nat /\ ChainOK(c)
        /\ at \in DOMAIN c /\ DOMAIN c = 1 .. Len(c) /\ Len(c) \in Nat
        /\ c[at].k = it.e
        /\ AheadOf(it, t, size) \ {it.e} = TailOf(c, at + 1) \cup KeysFrom(t, size, i + 1)
    BY StandsAt, Zenon
  <1>2. CASE at < Len(c)
    <2>1. it = [index |-> it.index, e |-> it.e, parent |-> it.parent]
      BY DEF ItrOK
    <2>2. w = [it EXCEPT !.parent = it.e, !.e = c[at + 1].k]
      BY <1>2, Zenon DEF After
    <2> HIDE DEF w, at, c
    <2>3. w.index = i /\ w.e = c[at + 1].k /\ w.parent = it.e
          /\ w = [index |-> w.index, e |-> w.e, parent |-> w.parent]
      BY <2>1, <2>2
    <2>4. at + 1 \in DOMAIN c /\ at + 1 # 1 /\ (at + 1) - 1 = at
      BY <1>1, <1>2
    <2>5. PlaceOf(c, w.e) = at + 1 /\ w.e \in KeysOf(c) /\ w.e \in Key
      BY <1>1, <2>3, <2>4, PlaceFound, ChainType DEF KeysOf
    <2>6. w.e # NoEntry
      BY <2>5, HashAssumption DEF NoEntry
    <2>7. w.parent = Before(c, at + 1)
      BY <1>1, <2>3, <2>4 DEF Before
    <2>8. ItrOK(w, t, size)
      BY <1>1, <2>3, <2>5, <2>7 DEF ItrOK, StandsIn, c
    <2>9. AheadOf(w, t, size) = TailOf(c, at + 1) \cup KeysFrom(t, size, i + 1)
      <3>1. AheadOf(w, t, size) = TailOf(t[w.index], PlaceOf(t[w.index], w.e)) \cup KeysFrom(t, size, w.index + 1)
        BY <2>6, AheadIs
      <3>2. QED
        BY <2>3, <2>5, <3>1 DEF c
    <2>10. QED
      BY <1>1, <2>8, <2>9 DEF w, c
  <1>3. CASE ~(at < Len(c))
    <2>1. w = FirstFrom(t, size, i + 1)
      BY <1>3, Zenon DEF After
    <2> HIDE DEF w, at, c
    <2>2. at = Len(c) /\ i + 1 \in Nat
      BY <1>1, <1>3
    <2>3. TailOf(c, at + 1) = {}
      BY <1>1, <2>2, TailFacts
    <2>4. ItrOK(w, t, size) /\ AheadOf(w, t, size) = KeysFrom(t, size, i + 1)
      BY <2>1, <2>2, FirstFromFacts
    <2>5. QED
      BY <1>1, <2>3, <2>4 DEF w, c
  <1>4. QED
    BY <1>2, <1>3

\* What the iterator unlinks is its own entry, and nothing else.
LEMMA UnlinkedIs ==
    ASSUME NEW c, ChainOK(c), NEW it, NEW at \in DOMAIN c, at = PlaceOf(c, it.e),
           it.parent = Before(c, at)
    PROVE  Unlinked(it, c) = Without(c, at)
  <1> DEFINE L == Len(c)
             d == Without(c, at)
  <1>1. L \in Nat /\ DOMAIN c = 1 .. L /\ c \in Seq(Entry)
    BY ChainType DEF ChainOK
  <1>2. d = [n \in 1 .. L - 1 |-> IF n < at THEN c[n] ELSE c[n + 1]] /\ Len(d) = L - 1 /\ d \in Seq(Entry)
    BY TakeOut DEF Without, ChainOK
  <1> DEFINE after == SubSeq(c, at + 1, L)
  <1>3. /\ after \in Seq(Entry) /\ Len(after) = L - at
        /\ after = [n \in 1 .. L - at |-> c[at + n]]
    <2> HIDE DEF d, L
    <2>1. at \in 1 .. L /\ at + 1 \in 1 .. L + 1
      BY <1>1
    <2>2. after = [n \in 1 .. L - at |-> c[at + n]]
      BY <1>1, <2>1 DEF L
    <2>3. \A n \in 1 .. L - at : at + n \in 1 .. L
      BY <1>1
    <2>4. L - at \in Nat
      BY <1>1, <2>1
    <2> DEFINE M == L - at
    <2> HIDE DEF after, M
    <2>5. M \in Nat /\ after = [n \in 1 .. M |-> c[at + n]] /\ \A n \in 1 .. M : c[at + n] \in Entry
      BY <1>1, <2>2, <2>3, <2>4 DEF M
    <2>6. after \in [1 .. M -> Entry]
      BY <2>5, Zenon
    <2>7. after \in Seq(Entry) /\ Len(after) = M
      BY <2>5, <2>6
    <2>8. QED
      BY <2>2, <2>7 DEF M
  <1> HIDE DEF d, L, after
  <1>4. CASE at = 1
    <2>1. it.parent = NoEntry
      BY <1>4 DEF Before
    <2>2. Unlinked(it, c) = after
      BY <2>1, Zenon DEF Unlinked, after, L
    <2>3. after = d
      BY <1>1, <1>2, <1>3, <1>4
    <2>4. QED
      BY <2>2, <2>3 DEF d
  <1>5. CASE at # 1
    <2>1. at - 1 \in DOMAIN c
      BY <1>1, <1>5
    <2>2. it.parent = c[at - 1].k
      BY <1>5 DEF Before
    <2>3. it.parent # NoEntry /\ PlaceOf(c, it.parent) = at - 1 /\ at - 1 # 0
      <3>1. c[at - 1].k \in Key
        BY <2>1, ChainType
      <3>2. PlaceOf(c, c[at - 1].k) = at - 1
        BY <2>1, PlaceFound
      <3>3. at - 1 # 0
        BY <1>1, <1>5
      <3>4. QED
        BY <2>2, <3>1, <3>2, <3>3, HashAssumption DEF NoEntry
    <2> DEFINE front == SubSeq(c, 1, at - 1)
    <2>4. Unlinked(it, c) = front \o after
      BY <2>3, Zenon DEF Unlinked, after, L
    <2>5. front \in Seq(Entry) /\ Len(front) = at - 1 /\ \A n \in 1 .. at - 1 : front[n] = c[n]
      <3>1. front = [n \in 1 .. at - 1 |-> c[n]]
        BY <1>1, <2>1 DEF L
      <3>2. at - 1 \in Nat /\ \A n \in 1 .. at - 1 : n \in DOMAIN c
        BY <1>1
      <3> HIDE DEF front
      <3>3. QED
        BY <1>1, <3>1, <3>2
    <2> DEFINE j == front \o after
    <2> HIDE DEF front
    <2>6. /\ j \in Seq(Entry) /\ Len(j) = at - 1 + (L - at)
          /\ \A n \in 1 .. at - 1 + (L - at) : j[n] = IF n <= at - 1 THEN front[n] ELSE after[n - (at - 1)]
      <3>1. /\ j \in Seq(Entry) /\ Len(j) = Len(front) + Len(after)
            /\ \A n \in 1 .. Len(front) + Len(after) :
                  j[n] = IF n <= Len(front) THEN front[n] ELSE after[n - Len(front)]
        <4>1. front \in Seq(Entry) /\ after \in Seq(Entry)
          BY <1>3, <2>5
        <4>2. QED
          BY <4>1, ConcatProperties
      <3> HIDE DEF j
      <3>2. QED
        BY <1>3, <2>5, <3>1
    <2> HIDE DEF j
    <2>7. Len(j) = L - 1 /\ Len(j) \in Nat
      BY <1>1, <2>6
    <2>8. \A n \in 1 .. L - 1 : j[n] = d[n]
      <3> TAKE n \in 1 .. L - 1
      <3>1. CASE n < at
        BY <1>1, <1>2, <2>5, <2>6, <3>1
      <3>2. CASE ~(n < at)
        <4>1. n - (at - 1) \in 1 .. L - at /\ at + (n - (at - 1)) = n + 1
          BY <1>1, <3>2
        <4>2. j[n] = after[n - (at - 1)]
          BY <1>1, <2>6, <3>2
        <4>3. QED
          BY <1>2, <1>3, <3>2, <4>1, <4>2
      <3>3. QED
        BY <3>1, <3>2
    <2>9. j = d
      BY <1>2, <2>6, <2>7, <2>8
    <2>10. QED
      BY <2>4, <2>9 DEF d, j
  <1>6. QED
    BY <1>4, <1>5

\* A table without one of its entries.
LEMMA TableWithout ==
    ASSUME NEW t, NEW size, TableOK(t, size), NEW i \in 0 .. size - 1, NEW at \in DOMAIN t[i],
           NEW u, Replaced(u, t, i, Without(t[i], at))
    PROVE  /\ TableOK(u, size)
           /\ AllOf(u, size) = {e \in AllOf(t, size) : e.k # t[i][at].k}
  <1> DEFINE d == Without(t[i], at)
             k == t[i][at].k
  <1>1. ChainOK(t[i])
    BY DEF TableOK
  <1>2. ChainOK(d) /\ EntriesOf(d) = {e \in EntriesOf(t[i]) : e.k # k}
    BY <1>1, TakeOut
  <1>3. \A e \in EntriesOf(t[i]) : indexFor(size, e.k) = i
    BY DEF TableOK
  <1>4. indexFor(size, k) = i
    BY <1>3 DEF EntriesOf
  <1> HIDE DEF d, k
  <1>5. \A e \in EntriesOf(d) : indexFor(size, e.k) = i
    BY <1>2, <1>3
  <1>6. /\ TableOK(u, size)
        /\ AllOf(u, size)
              = EntriesOf(d) \cup {e \in AllOf(t, size) : indexFor(size, e.k) # i}
        /\ EntriesOf(t[i]) = {e \in AllOf(t, size) : indexFor(size, e.k) = i}
    BY <1>2, <1>5, ChainReplaced DEF d
  <1>7. AllOf(u, size) = {e \in AllOf(t, size) : e.k # k}
    BY <1>2, <1>4, <1>6
  <1>8. QED
    BY <1>6, <1>7 DEF d, k

\* An entry at the head of its chain.
LEMMA TableWith ==
    ASSUME NEW t, NEW size, TableOK(t, size), NEW k \in Key, NEW v \in Val,
           Dict(t, size)[k] = None
    PROVE  LET e == [k |-> k, v |-> v]
           IN  /\ TableOK(PushFront(t, size, e), size)
               /\ AllOf(PushFront(t, size, e), size) = AllOf(t, size) \cup {e}
  <1> DEFINE e == [k |-> k, v |-> v]
             i == indexFor(size, k)
             c == t[i]
             d == <<e>> \o c
             u == [t EXCEPT ![i] = d]
  <1>1. e \in Entry /\ e.k = k
    BY DEF Entry
  <1>2. PushFront(t, size, e) = u
    BY DEF PushFront
  <1>3. i \in 0 .. size - 1
    BY IndexIs DEF TableOK
  <1>4. SearchIn(c, k) = None
    BY DEF Dict
  <1> HIDE DEF e, i
  <1>5. ChainOK(c) /\ \A x \in EntriesOf(c) : indexFor(size, x.k) = i
    BY <1>3 DEF TableOK
  <1>6. e.k \notin KeysOf(c)
    BY <1>1, <1>4, <1>5, SearchFinds
  <1> HIDE DEF c
  <1>7. ChainOK(d) /\ EntriesOf(d) = EntriesOf(c) \cup {e}
    BY <1>1, <1>5, <1>6, PutBefore
  <1>8. \A x \in EntriesOf(d) : indexFor(size, x.k) = i
    BY <1>1, <1>5, <1>7 DEF i
  <1> HIDE DEF d
  <1>9. Replaced(u, t, i, d)
    BY DEF Replaced
  <1> HIDE DEF u
  <1>10. /\ TableOK(u, size)
        /\ AllOf(u, size) = EntriesOf(d) \cup {x \in AllOf(t, size) : indexFor(size, x.k) # i}
        /\ EntriesOf(t[i]) = {x \in AllOf(t, size) : indexFor(size, x.k) = i}
    BY <1>9, <1>3, <1>7, <1>8, ChainReplaced
  <1>11. AllOf(u, size) = AllOf(t, size) \cup {e}
    BY <1>7, <1>10 DEF c
  <1>12. QED
    BY <1>2, <1>10, <1>11 DEF e, u

\* The position after a removal by the iterator, which takes its own entry out.
MovedOn(it, t, u, size) ==
    LET moved == After(it, t[it.index], u, size)
    IN [moved EXCEPT !.parent = Parent(it, moved)]

LEMMA RemoveHereFacts ==
    ASSUME NEW t, NEW size, TableOK(t, size), NEW it, ItrOK(it, t, size),
           it.e # NoEntry, NEW u, Replaced(u, t, it.index, Unlinked(it, t[it.index]))
    PROVE  /\ TableOK(u, size)
           /\ AllOf(u, size) = {e \in AllOf(t, size) : e.k # it.e}
           /\ ItrOK(MovedOn(it, t, u, size), u, size)
           /\ AheadOf(MovedOn(it, t, u, size), u, size) = AheadOf(it, t, size) \ {it.e}
  <1> DEFINE i == it.index
             c == t[i]
             at == PlaceOf(c, it.e)
             d == Without(c, at)
             moved == After(it, c, u, size)
             w == MovedOn(it, t, u, size)
  <1>1. /\ i \in 0 .. size - 1 /\ size \in Nat /\ ChainOK(c)
        /\ at \in DOMAIN c /\ DOMAIN c = 1 .. Len(c) /\ Len(c) \in Nat
        /\ c[at].k = it.e /\ it.e \in Key /\ it.parent = Before(c, at)
        /\ AheadOf(it, t, size) \ {it.e} = TailOf(c, at + 1) \cup KeysFrom(t, size, i + 1)
    BY StandsAt, Zenon
  <1>2. Replaced(u, t, i, d)
    <2> HIDE DEF at, c
    <2>1. Unlinked(it, c) = Without(c, at)
      BY <1>1, UnlinkedIs DEF at
    <2>2. QED
      BY <2>1 DEF c
  <1>3. TableOK(u, size) /\ AllOf(u, size) = {e \in AllOf(t, size) : e.k # it.e}
    <2> HIDE DEF at
    <2>1. QED
      BY <1>1, <1>2, TableWithout
  <1>4. u[i] = d
    BY <1>1, <1>2 DEF TableOK, Replaced
  <1>5. KeysFrom(u, size, i + 1) = KeysFrom(t, size, i + 1)
    <2> HIDE DEF d
    <2>1. QED
      BY <1>1, <1>2, OtherChains
  <1>6. w = [moved EXCEPT !.parent = Parent(it, moved)]
    BY DEF MovedOn
  <1>7. it.e # None /\ it.e # NoEntry
    BY DEF NoEntry
  <1>8. CASE at < Len(c)
    <2>1. it = [index |-> it.index, e |-> it.e, parent |-> it.parent]
      BY DEF ItrOK
    <2>2. moved = [it EXCEPT !.parent = it.e, !.e = c[at + 1].k]
      BY <1>8, Zenon DEF After
    <2>3. moved.parent = it.e /\ moved = [index |-> i, e |-> c[at + 1].k, parent |-> it.e]
      BY <2>1, <2>2
    <2> HIDE DEF w, moved
    <2>4. Parent(it, moved) = it.parent
      BY <2>3 DEF Parent
    <2>5. w.index = i /\ w.e = c[at + 1].k /\ w.parent = it.parent
          /\ w = [index |-> w.index, e |-> w.e, parent |-> w.parent]
      BY <1>6, <2>3, <2>4
    <2> HIDE DEF at, c
    <2>6. /\ ChainOK(d) /\ Len(d) = Len(c) - 1 /\ DOMAIN d = 1 .. Len(d)
          /\ \A n \in 1 .. Len(c) - 1 : d[n] = IF n < at THEN c[n] ELSE c[n + 1]
      BY <1>1, TakeOut, ChainType
    <2> HIDE DEF d
    <2>7. at \in DOMAIN d /\ d[at] = c[at + 1]
      BY <1>1, <1>8, <2>6
    <2>8. PlaceOf(d, w.e) = at /\ w.e \in KeysOf(d) /\ w.e \in Key
      BY <2>5, <2>6, <2>7, PlaceFound, ChainType DEF KeysOf
    <2>9. w.e # NoEntry
      BY <2>8, HashAssumption DEF NoEntry
    <2>10. Before(d, at) = Before(c, at)
      <3>1. at # 1 => d[at - 1] = c[at - 1]
        BY <1>1, <1>8, <2>6
      <3>2. QED
        BY <3>1 DEF Before
    <2>11. ItrOK(w, u, size)
      BY <1>1, <1>4, <2>5, <2>8, <2>10 DEF ItrOK, StandsIn
    <2>12. AheadOf(w, u, size) = TailOf(d, at) \cup KeysFrom(u, size, i + 1)
      <3>1. AheadOf(w, u, size) = TailOf(u[w.index], PlaceOf(u[w.index], w.e)) \cup KeysFrom(u, size, w.index + 1)
        BY <2>9, AheadIs
      <3>2. QED
        BY <1>4, <2>5, <2>8, <3>1
    <2>13. TailOf(d, at) = TailOf(c, at + 1)
      BY <1>1, TailFacts DEF d
    <2>14. QED
      BY <1>1, <1>3, <1>5, <2>11, <2>12, <2>13 DEF w
  <1>9. CASE ~(at < Len(c))
    <2>1. moved = FirstFrom(u, size, i + 1)
      BY <1>9, Zenon DEF After
    <2> HIDE DEF w, moved, at, c
    <2>2. at = Len(c) /\ i + 1 \in Nat
      BY <1>1, <1>9
    <2>3. TailOf(c, at + 1) = {}
      BY <1>1, <2>2, TailFacts
    <2>4. /\ ItrOK(moved, u, size) /\ AheadOf(moved, u, size) = KeysFrom(u, size, i + 1)
          /\ moved.parent = NoEntry
      BY <1>3, <2>1, <2>2, FirstFromFacts
    <2>5. Parent(it, moved) = moved.parent
      BY <1>7, <2>4 DEF Parent
    <2>6. w = moved
      <3>1. moved = [index |-> moved.index, e |-> moved.e, parent |-> moved.parent]
        BY <2>4 DEF ItrOK
      <3>2. QED
        BY <1>6, <2>5, <3>1
    <2>7. QED
      BY <1>1, <1>3, <1>5, <2>3, <2>4, <2>6 DEF w
  <1>10. QED
    BY <1>8, <1>9

-----------------------------------------------------------------------------
(* The inductive invariant.                                                 *)

Contents == Dict(table, tablelength)

KeysIn(d) == {k \in Key : d[k] # None}

\* What the map does not say: where the entries are, that the iterator knows the entry before
\* its own, and that entrycount counts.
TableInv ==
    /\ primeindex \in DOMAIN primes
    /\ TableOK(table, tablelength)
    /\ ItrOK(itr, table, tablelength)
    /\ IsFiniteSet(KeysIn(Contents)) /\ entrycount = Cardinality(KeysIn(Contents))

LEMMA Lengths == ASSUME NEW n \in DOMAIN primes
                 PROVE  primes[n] \in Nat \ {0} /\ n \in 1 .. Len(primes) /\ Len(primes) \in Nat
  <1>1. primes \in Seq(Nat \ {0})
    BY HashAssumption
  <1>2. QED
    BY <1>1

LEMMA NowhereOK == ASSUME NEW t, NEW size, NEW any
                   PROVE  ItrOK(Nowhere(any), t, size) /\ AheadOf(Nowhere(any), t, size) = {}
  <1> DEFINE w == Nowhere(any)
  <1>1. w = [index |-> w.index, e |-> w.e, parent |-> w.parent] /\ w.e = NoEntry
    BY DEF Nowhere
  <1> HIDE DEF w
  <1>2. ItrOK(w, t, size) /\ AheadOf(w, t, size) = {}
    BY <1>1, AheadIs DEF ItrOK
  <1>3. QED
    BY <1>2 DEF w

LEMMA CountPut ==
    ASSUME NEW d, d = [c \in Key |-> d[c]], IsFiniteSet(KeysIn(d)),
           NEW k \in Key, NEW v \in Val, d[k] = None, NEW n, n = [d EXCEPT ![k] = v]
    PROVE  IsFiniteSet(KeysIn(n)) /\ Cardinality(KeysIn(n)) = Cardinality(KeysIn(d)) + 1
  <1>1. v # None
    BY HashAssumption
  <1>2. KeysIn(n) = KeysIn(d) \cup {k} /\ k \notin KeysIn(d)
    BY <1>1 DEF KeysIn
  <1> DEFINE S == KeysIn(d)
  <1> HIDE DEF S
  <1>3. IsFiniteSet(S) /\ k \notin S /\ KeysIn(n) = S \cup {k}
    BY <1>2 DEF S
  <1>4. QED
    BY <1>3, FS_AddElement DEF S

LEMMA CountDrop ==
    ASSUME NEW d, d = [c \in Key |-> d[c]], IsFiniteSet(KeysIn(d)),
           NEW k \in Key, d[k] # None, NEW n, n = [d EXCEPT ![k] = None]
    PROVE  IsFiniteSet(KeysIn(n)) /\ Cardinality(KeysIn(n)) = Cardinality(KeysIn(d)) - 1
  <1>1. KeysIn(n) = KeysIn(d) \ {k} /\ k \in KeysIn(d)
    BY DEF KeysIn
  <1> DEFINE S == KeysIn(d)
  <1> HIDE DEF S
  <1>2. IsFiniteSet(S) /\ k \in S /\ KeysIn(n) = S \ {k}
    BY <1>1 DEF S
  <1>3. QED
    BY <1>2, FS_RemoveElement DEF S

LEMMA Reads ==
    /\ [k \in Key |-> hashtable_search(k)] = Contents
    /\ [k \in Key |-> hashtable_search(k)]' = Contents'
  BY DEF hashtable_search, Chain, Contents, Dict

\* The keys in the map are those of the chains.
LEMMA KeysInIs ==
    ASSUME NEW t, NEW size, TableOK(t, size)
    PROVE  KeysIn(Dict(t, size)) = KeysFrom(t, size, 0)
  <1>1. size \in Nat \ {0} /\ \A i \in 0 .. size - 1 : ChainOK(t[i])
    BY DEF TableOK
  <1>2. ASSUME NEW k \in Key PROVE Dict(t, size)[k] # None <=> k \in KeysOf(t[indexFor(size, k)])
    <2>1. indexFor(size, k) \in 0 .. size - 1
      BY <1>1, IndexIs
    <2>2. ChainOK(t[indexFor(size, k)])
      BY <1>1, <2>1
    <2>3. Dict(t, size)[k] = SearchIn(t[indexFor(size, k)], k)
      BY DEF Dict
    <2>4. QED
      BY <2>2, <2>3, SearchFinds
  <1>3. ASSUME NEW j \in 0 .. size - 1, NEW k \in KeysOf(t[j])
        PROVE  k \in Key /\ indexFor(size, k) = j
    <2>1. k \in Key
      BY <1>1, ChainType DEF KeysOf
    <2>2. QED
      BY <1>3, <2>1 DEF TableOK, KeysOf, EntriesOf
  <1>4. \A k \in Key : indexFor(size, k) \in 0 .. size - 1
    BY <1>1, IndexIs
  <1>5. QED
    BY <1>2, <1>3, <1>4 DEF KeysIn, KeysFrom

LEMMA InitInvHash == ASSUME HashInit PROVE TableInv /\ Map!Init
  <1>1. primeindex = 1 /\ 1 \in DOMAIN primes
    <2>1. primes \in Seq(Nat \ {0}) /\ primes # <<>>
      BY HashAssumption
    <2>2. QED
      BY <2>1 DEF HashInit
  <1> DEFINE size == tablelength
  <1>2. size \in Nat \ {0}
    BY <1>1, Lengths DEF tablelength
  <1> HIDE DEF size
  <1>3. table = [i \in 0 .. size - 1 |-> <<>>]
    BY DEF HashInit, size
  <1>4. ChainOK(<<>>) /\ EntriesOf(<<>>) = {} /\ KeysOf(<<>>) = {}
    BY DEF ChainOK, EntriesOf, KeysOf
  <1>5. TableOK(table, size)
    BY <1>2, <1>3, <1>4 DEF TableOK
  <1>6. KeysIn(Contents) = {}
    <2>1. KeysFrom(table, size, 0) = {}
      BY <1>3, <1>4 DEF KeysFrom
    <2>2. QED
      BY <1>5, <2>1, KeysInIs DEF Contents, size
  <1>7. itr = Nowhere(size) /\ entrycount = 0 /\ removed = None
    BY DEF HashInit, size
  <1>8. ItrOK(itr, table, size) /\ AheadOf(itr, table, size) = {}
    BY <1>7, NowhereOK
  <1>9. IsFiniteSet(KeysIn(Contents)) /\ entrycount = Cardinality(KeysIn(Contents))
    BY <1>6, <1>7, FS_EmptySet
  <1>10. TableInv
    BY <1>1, <1>5, <1>8, <1>9 DEF TableInv, size
  <1>11. Contents = [k \in Key |-> None]
    BY <1>6, DictIs DEF KeysIn, Contents
  <1>12. Map!Init
    BY <1>7, <1>8, <1>11, Reads DEF Map!Init, size
  <1>13. QED
    BY <1>10, <1>12

-----------------------------------------------------------------------------
(* The steps.                                                               *)

LEMMA InsertPuts ==
    ASSUME TableInv, NEW k \in Key, NEW v \in Val, hashtable_insert(k, v)
    PROVE  TableInv' /\ Map!Put(k, v)
  <1> DEFINE full == entrycount + 1 > loadlimit /\ primeindex < Len(primes)
             next == IF full THEN primeindex + 1 ELSE primeindex
             size == tablelength
             wide == primes[next]
             e == [k |-> k, v |-> v]
             t == IF full THEN hashtable_expand(table, wide) ELSE table
             u == PushFront(t, wide, e)
  <1>1. next \in DOMAIN primes /\ size \in Nat \ {0} /\ wide \in Nat \ {0}
    <2>1. primeindex \in DOMAIN primes
      BY DEF TableInv
    <2>2. primeindex \in 1 .. Len(primes) /\ Len(primes) \in Nat /\ DOMAIN primes = 1 .. Len(primes)
      BY <2>1, Lengths, HashAssumption
    <2>3. next \in DOMAIN primes
      BY <2>1, <2>2
    <2> HIDE DEF next
    <2>4. QED
      BY <2>1, <2>3, Lengths DEF tablelength
  <1>2. /\ Contents[k] = None /\ entrycount' = entrycount + 1 /\ primeindex' = next
        /\ table' = u /\ itr' = Nowhere(wide) /\ removed' = None
    BY Reads DEF hashtable_insert
  <1>3. TableOK(table, size) /\ (~full => wide = size)
    BY DEF TableInv, tablelength
  <1>4. TableOK(t, wide) /\ AllOf(t, wide) = AllOf(table, size)
    <2>1. CASE full
      <3> HIDE DEF full, wide
      <3>1. t = hashtable_expand(table, wide)
        BY <2>1
      <3>2. QED
        BY <1>1, <1>3, <3>1, ExpandKeeps
    <2>2. CASE ~full
      <3> HIDE DEF full, wide
      <3>1. t = table
        BY <2>2
      <3>2. QED
        BY <1>3, <2>2, <3>1
    <2>3. QED
      BY <2>1, <2>2
  <1> HIDE DEF full, next, t, wide, size
  <1>5. Dict(t, wide)[k] = None
    <2>1. Dict(table, size)[k] = Dict(t, wide)[k]
      BY <1>3, <1>4, SameAnswer
    <2>2. QED
      BY <1>2, <2>1 DEF Contents, size
  <1>6. TableOK(u, wide) /\ AllOf(u, wide) = AllOf(t, wide) \cup {e}
    BY <1>4, <1>5, TableWith
  <1> HIDE DEF u
  <1>7. Dict(u, wide) = [Dict(table, size) EXCEPT ![k] = v]
    <2>1. Dict(table, size)[k] = None
      BY <1>2 DEF Contents, size
    <2>2. AllOf(u, wide) = AllOf(table, size) \cup {e}
      BY <1>4, <1>6
    <2>3. QED
      BY <1>3, <1>6, <2>1, <2>2, DictPut
  <1>8. tablelength' = wide /\ Contents' = [Contents EXCEPT ![k] = v]
    <2>1. tablelength' = wide
      BY <1>2 DEF tablelength, wide
    <2>2. QED
      BY <1>2, <1>7, <2>1 DEF Contents, size
  <1>9. IsFiniteSet(KeysIn(Contents')) /\ entrycount' = Cardinality(KeysIn(Contents'))
    <2>1. Contents = [c \in Key |-> Contents[c]]
      BY DictIs DEF Contents
    <2>2. QED
      BY <1>2, <1>8, <2>1, CountPut DEF TableInv
  <1>10. ItrOK(itr, table, tablelength)' /\ AheadOf(itr, table, tablelength)' = {}
    BY <1>2, NowhereOK
  <1>11. TableInv'
    BY <1>1, <1>2, <1>6, <1>8, <1>9, <1>10 DEF TableInv
  <1>12. Map!Put(k, v)
    <2>1. k \notin Map!Present
      BY <1>2, Reads DEF Map!Present
    <2>2. QED
      BY <1>2, <1>8, <1>10, <2>1, Reads DEF Map!Put
  <1>13. QED
    BY <1>11, <1>12

LEMMA PlaceHit ==
    ASSUME NEW c, ChainOK(c), NEW k
    PROVE  /\ PlaceOf(c, k) # 0 => PlaceOf(c, k) \in DOMAIN c /\ c[PlaceOf(c, k)].k = k
           /\ PlaceOf(c, k) = 0 => SearchIn(c, k) = None
  <1>1. CASE k \in KeysOf(c)
    <2>1. PICK n \in DOMAIN c : c[n].k = k
      BY <1>1 DEF KeysOf
    <2>2. PlaceOf(c, k) = n
      BY <2>1, PlaceFound
    <2>3. QED
      BY <2>1, <2>2 DEF SearchIn
  <1>2. CASE k \notin KeysOf(c)
    BY <1>2, PlaceMissing
  <1>3. QED
    BY <1>1, <1>2

\* The chain of a key, as the invariant has it.
LEMMA ChainIs ==
    ASSUME TableInv, NEW k \in Key
    PROVE  /\ indexFor(tablelength, k) \in 0 .. tablelength - 1
           /\ Chain(k) = table[indexFor(tablelength, k)] /\ ChainOK(Chain(k))
           /\ Contents[k] = SearchIn(Chain(k), k)
  <1> DEFINE size == tablelength
  <1>1. TableOK(table, size)
    BY DEF TableInv
  <1>2. Chain(k) = table[indexFor(size, k)] /\ Contents[k] = SearchIn(table[indexFor(size, k)], k)
    BY DEF Chain, Contents, Dict
  <1> HIDE DEF size
  <1>3. indexFor(size, k) \in 0 .. size - 1
    BY <1>1, IndexIs DEF TableOK
  <1>4. ChainOK(Chain(k))
    BY <1>1, <1>2, <1>3 DEF TableOK
  <1>5. QED
    BY <1>2, <1>3, <1>4 DEF size

\* A table that stays as it is, with another position of the iterator.
LEMMA OnlyTheIterator ==
    ASSUME TableInv, UNCHANGED <<table, primeindex, entrycount>>, ItrOK(itr', table, tablelength)
    PROVE  TableInv' /\ Contents' = Contents /\ tablelength' = tablelength
  <1>1. tablelength' = tablelength
    BY DEF tablelength
  <1>2. Contents' = Contents
    BY <1>1 DEF Contents
  <1>3. QED
    BY <1>1, <1>2 DEF TableInv

LEMMA RemoveDrops ==
    ASSUME TableInv, NEW k \in Key, hashtable_remove(k)
    PROVE  TableInv' /\ Map!Drop(k)
  <1> DEFINE size == tablelength
             i == indexFor(size, k)
             c == Chain(k)
             at == PlaceOf(c, k)
  <1>1. i \in 0 .. size - 1 /\ c = table[i] /\ ChainOK(c) /\ Contents[k] = SearchIn(c, k)
    BY ChainIs
  <1>2. /\ removed' = Contents[k]
        /\ itr' = Nowhere(size)
        /\ primeindex' = primeindex
        /\ at = 0 => table' = table /\ entrycount' = entrycount
        /\ at # 0 => table' = [table EXCEPT ![i] = Without(@, at)] /\ entrycount' = entrycount - 1
    BY <1>1 DEF hashtable_remove, hashtable_search
  <1>3. TableOK(table, size) /\ tablelength' = size
    BY <1>2 DEF TableInv, tablelength
  <1>4. Contents = [x \in Key |-> Contents[x]]
    BY DictIs DEF Contents
  <1>5. Contents' = Dict(table', size)
    BY <1>3 DEF Contents
  <1>6. ItrOK(itr', table', size) /\ AheadOf(itr', table', size) = {}
    BY <1>2, NowhereOK
  <1> HIDE DEF size, c, i, at
  <1>7. /\ Contents' = [Contents EXCEPT ![k] = None]
        /\ TableOK(table', size)
        /\ IsFiniteSet(KeysIn(Contents')) /\ entrycount' = Cardinality(KeysIn(Contents'))
    <2>1. CASE at = 0
      <3>1. Contents[k] = None
        BY <1>1, <2>1, PlaceHit DEF at
      <3>2. table' = table /\ entrycount' = entrycount
        BY <1>2, <2>1
      <3>3. Contents' = Contents
        BY <1>5, <3>2 DEF Contents, size
      <3>4. [Contents EXCEPT ![k] = None] = Contents
        BY <1>4, <3>1
      <3>5. QED
        BY <1>3, <3>2, <3>3, <3>4 DEF TableInv
    <2>2. CASE at # 0
      <3>1. at \in DOMAIN c /\ c[at].k = k
        BY <1>1, <2>2, PlaceHit DEF at
      <3>2. entrycount' = entrycount - 1 /\ Replaced(table', table, i, Without(table[i], at))
        BY <1>2, <2>2 DEF Replaced
      <3>3. /\ TableOK(table', size)
            /\ AllOf(table', size) = {e \in AllOf(table, size) : e.k # k}
        BY <1>1, <1>3, <3>1, <3>2, TableWithout
      <3>4. Dict(table', size) = [Dict(table, size) EXCEPT ![k] = None]
        BY <1>3, <3>3, DictDrop
      <3>5. Contents' = [Contents EXCEPT ![k] = None]
        BY <1>5, <3>4 DEF Contents, size
      <3>6. Contents[k] # None
        <4>1. SearchIn(c, k) = c[at].v /\ c[at].v \in Val
          BY <1>1, <3>1, PlaceFound, ChainType
        <4>2. QED
          BY <1>1, <4>1, HashAssumption
      <3>7. IsFiniteSet(KeysIn(Contents)) /\ entrycount = Cardinality(KeysIn(Contents))
        BY DEF TableInv
      <3>8. IsFiniteSet(KeysIn(Contents')) /\ entrycount' = Cardinality(KeysIn(Contents'))
        BY <1>4, <3>2, <3>5, <3>6, <3>7, CountDrop
      <3>9. QED
        BY <3>3, <3>5, <3>8
    <2>3. QED
      BY <2>1, <2>2
  <1>8. primeindex' \in DOMAIN primes
    BY <1>2 DEF TableInv
  <1>9. TableInv'
    BY <1>3, <1>6, <1>7, <1>8 DEF TableInv
  <1>10. AheadOf(itr, table, tablelength)' = {}
    BY <1>3, <1>6
  <1>11. Map!Drop(k)
    BY <1>2, <1>7, <1>10, Reads DEF Map!Drop
  <1>12. QED
    BY <1>9, <1>11

LEMMA NewBegins ==
    ASSUME TableInv, hashtable_iterator_new
    PROVE  TableInv' /\ Map!Begin
  <1> DEFINE size == tablelength
  <1>1. TableOK(table, size)
    BY DEF TableInv
  <1>2. removed' = None /\ UNCHANGED <<table, primeindex, entrycount>>
    BY DEF hashtable_iterator_new
  <1>3. Map!Present = KeysIn(Contents)
    BY Reads DEF Map!Present, KeysIn
  <1>4. KeysIn(Contents) = KeysFrom(table, size, 0)
    BY <1>1, KeysInIs DEF Contents
  <1>5. ItrOK(itr', table, size) /\ AheadOf(itr', table, size) = KeysIn(Contents)
    <2>1. CASE entrycount = 0
      <3>1. itr' = Nowhere(size)
        BY <2>1 DEF hashtable_iterator_new
      <3>2. KeysIn(Contents) = {}
        BY <2>1, FS_EmptySet DEF TableInv
      <3>3. QED
        BY <3>1, <3>2, NowhereOK
    <2>2. CASE entrycount # 0
      <3>1. itr' = FirstFrom(table, size, 0)
        BY <2>2 DEF hashtable_iterator_new
      <3>2. QED
        BY <1>1, <1>4, <3>1, FirstFromFacts
    <2>3. QED
      BY <2>1, <2>2
  <1>6. TableInv' /\ Contents' = Contents /\ tablelength' = size
    BY <1>2, <1>5, OnlyTheIterator
  <1>7. AheadOf(itr, table, tablelength)' = Map!Present
    BY <1>2, <1>3, <1>5, <1>6
  <1>8. Map!Begin
    BY <1>2, <1>6, <1>7, Reads DEF Map!Begin
  <1>9. QED
    BY <1>6, <1>8

LEMMA AdvancePasses ==
    ASSUME TableInv, hashtable_iterator_advance
    PROVE  TableInv' /\ (Map!Look \/ \E k \in Key : Map!Pass(k))
  <1> DEFINE size == tablelength
  <1>1. TableOK(table, size) /\ ItrOK(itr, table, size)
    BY DEF TableInv
  <1>2. removed' = None /\ UNCHANGED <<table, primeindex, entrycount>>
    BY DEF hashtable_iterator_advance
  <1>3. CASE itr.e = NoEntry
    <2>1. itr' = itr
      BY <1>3 DEF hashtable_iterator_advance
    <2>2. TableInv' /\ Contents' = Contents /\ tablelength' = size
      BY <1>1, <1>2, <2>1, OnlyTheIterator
    <2>3. AheadOf(itr, table, tablelength)' = AheadOf(itr, table, tablelength)
      BY <1>2, <2>1, <2>2
    <2>4. Map!Look
      BY <1>2, <2>2, <2>3, Reads DEF Map!Look
    <2>5. QED
      BY <2>2, <2>4
  <1>4. CASE itr.e # NoEntry
    <2>1. itr' = After(itr, table[itr.index], table, size)
      BY <1>4 DEF hashtable_iterator_advance
    <2>2. ItrOK(itr', table, size) /\ AheadOf(itr', table, size) = AheadOf(itr, table, size) \ {itr.e}
      BY <1>1, <1>4, <2>1, AdvanceFacts
    <2>3. itr.e \in Key /\ itr.e \in AheadOf(itr, table, size)
      BY <1>1, <1>4, StandsAt, Zenon
    <2>4. TableInv' /\ Contents' = Contents /\ tablelength' = size
      BY <1>2, <2>2, OnlyTheIterator
    <2>5. AheadOf(itr, table, tablelength)' = AheadOf(itr, table, tablelength) \ {itr.e}
      BY <1>2, <2>2, <2>4
    <2>6. Map!Pass(itr.e)
      BY <1>2, <2>3, <2>4, <2>5, Reads DEF Map!Pass
    <2>7. QED
      BY <2>3, <2>4, <2>6
  <1>5. QED
    BY <1>3, <1>4

LEMMA IteratorRemoveDrops ==
    ASSUME TableInv, hashtable_iterator_remove
    PROVE  TableInv' /\ \E k \in Key : Map!DropHere(k)
  <1> DEFINE size == tablelength
  <1>1. TableOK(table, size) /\ ItrOK(itr, table, size)
    BY DEF TableInv
  <1>2. /\ itr.e # NoEntry /\ removed' = None /\ primeindex' = primeindex
        /\ entrycount' = entrycount - 1
        /\ Replaced(table', table, itr.index, Unlinked(itr, table[itr.index]))
        /\ itr' = MovedOn(itr, table, table', size)
    BY DEF hashtable_iterator_remove, Replaced, MovedOn
  <1>3. tablelength' = size
    BY <1>2 DEF tablelength
  <1>4. Contents' = Dict(table', size) /\ Contents = Dict(table, size)
    BY <1>3 DEF Contents
  <1>5. /\ itr.e \in Key /\ itr.e \in AheadOf(itr, table, size)
        /\ itr.index \in 0 .. size - 1 /\ ChainOK(table[itr.index])
        /\ itr.e \in KeysOf(table[itr.index]) /\ indexFor(size, itr.e) = itr.index
    <2>1. /\ itr.e \in Key /\ itr.e \in AheadOf(itr, table, size)
          /\ itr.index \in 0 .. size - 1 /\ ChainOK(table[itr.index])
          /\ indexFor(size, itr.e) = itr.index
      BY <1>1, <1>2, StandsAt, Zenon
    <2>2. QED
      BY <1>1, <1>2, <2>1 DEF ItrOK, StandsIn
  <1> HIDE DEF size
  <1>6. /\ TableOK(table', size)
        /\ AllOf(table', size) = {e \in AllOf(table, size) : e.k # itr.e}
        /\ ItrOK(itr', table', size)
        /\ AheadOf(itr', table', size) = AheadOf(itr, table, size) \ {itr.e}
    BY <1>1, <1>2, RemoveHereFacts
  <1>7. Contents' = [Contents EXCEPT ![itr.e] = None]
    BY <1>1, <1>4, <1>5, <1>6, DictDrop
  <1>8. Contents[itr.e] # None
    <2>1. Contents[itr.e] = SearchIn(table[itr.index], itr.e)
      BY <1>4, <1>5 DEF Dict
    <2>2. QED
      BY <1>5, <2>1, SearchFinds
  <1>9. IsFiniteSet(KeysIn(Contents')) /\ entrycount' = Cardinality(KeysIn(Contents'))
    <2>1. IsFiniteSet(KeysIn(Contents)) /\ entrycount = Cardinality(KeysIn(Contents))
      BY DEF TableInv
    <2>2. Contents = [x \in Key |-> Contents[x]]
      BY DictIs DEF Contents
    <2>3. QED
      BY <1>2, <1>5, <1>7, <1>8, <2>1, <2>2, CountDrop
  <1>10. TableInv'
    BY <1>2, <1>3, <1>6, <1>9 DEF TableInv
  <1>11. AheadOf(itr, table, tablelength)' = AheadOf(itr, table, tablelength) \ {itr.e}
    BY <1>3, <1>6 DEF size
  <1>12. Map!DropHere(itr.e)
    BY <1>2, <1>5, <1>7, <1>11, Reads DEF Map!DropHere, size
  <1>13. QED
    BY <1>5, <1>10, <1>12

LEMMA SearchFindsPlace ==
    ASSUME TableInv, NEW k \in Key, hashtable_iterator_search(k)
    PROVE  TableInv' /\ (Map!Look \/ Map!Find(k))
  <1> DEFINE size == tablelength
             i == indexFor(size, k)
             c == Chain(k)
             at == PlaceOf(c, k)
  <1>1. TableOK(table, size) /\ ItrOK(itr, table, size)
    BY DEF TableInv
  <1>2. i \in 0 .. size - 1 /\ c = table[i] /\ ChainOK(c) /\ Contents[k] = SearchIn(c, k)
    BY ChainIs
  <1>3. /\ removed' = None /\ UNCHANGED <<table, primeindex, entrycount>>
        /\ itr' = IF at = 0 THEN itr
                  ELSE [index |-> i, e |-> k, parent |-> IF at = 1 THEN NoEntry ELSE c[at - 1].k]
    BY DEF hashtable_iterator_search
  <1> HIDE DEF i, c, at
  <1>4. CASE at = 0
    <2>1. itr' = itr
      BY <1>3, <1>4
    <2>2. TableInv' /\ Contents' = Contents /\ tablelength' = size
      BY <1>1, <1>3, <2>1, OnlyTheIterator
    <2>3. AheadOf(itr, table, tablelength)' = AheadOf(itr, table, tablelength)
      BY <1>3, <2>1, <2>2
    <2>4. Map!Look
      BY <1>3, <2>2, <2>3, Reads DEF Map!Look
    <2>5. QED
      BY <2>2, <2>4
  <1>5. CASE at # 0
    <2>1. at \in DOMAIN c /\ c[at].k = k
      BY <1>2, <1>5, PlaceHit DEF at
    <2>2. itr' = [index |-> i, e |-> k, parent |-> Before(c, at)]
      BY <1>3, <1>5 DEF Before
    <2>3. itr'.e = k /\ itr'.index = i /\ itr'.parent = Before(c, at)
          /\ itr' = [index |-> itr'.index, e |-> itr'.e, parent |-> itr'.parent]
      BY <2>2
    <2>4. k # NoEntry /\ k \in KeysOf(c)
      BY <2>1, HashAssumption DEF NoEntry, KeysOf
    <2>5. ItrOK(itr', table, size)
      BY <1>2, <2>3, <2>4 DEF ItrOK, StandsIn, at
    <2>6. k \in AheadOf(itr', table, size)
      <3> DEFINE w == itr'
      <3>1. ItrOK(w, table, size) /\ w.e # NoEntry /\ w.e = k
        BY <2>3, <2>4, <2>5
      <3> HIDE DEF w
      <3>2. w.e \in AheadOf(w, table, size)
        BY <1>1, <3>1, StandsAt, Zenon
      <3>3. QED
        BY <3>1, <3>2 DEF w
    <2>7. AheadOf(itr', table, size) \subseteq KeysIn(Contents)
      <3>1. TailOf(c, at) \subseteq KeysOf(c)
        BY <1>2, <2>1, TailFacts
      <3>2. AheadOf(itr', table, size) = TailOf(c, at) \cup KeysFrom(table, size, i + 1)
        <4> DEFINE w == itr'
        <4>1. w.e = k /\ w.index = i
          BY <2>3
        <4> HIDE DEF w
        <4>2. AheadOf(w, table, size) = TailOf(table[w.index], PlaceOf(table[w.index], w.e))
                                          \cup KeysFrom(table, size, w.index + 1)
          BY <2>4, <4>1, AheadIs
        <4>3. QED
          BY <1>2, <4>1, <4>2 DEF w, at
      <3>3. KeysIn(Contents) = KeysFrom(table, size, 0)
        BY <1>1, KeysInIs DEF Contents
      <3>4. \A j \in i + 1 .. size - 1 : j \in 0 .. size - 1
        <4>1. size \in Nat
          BY <1>1 DEF TableOK
        <4> HIDE DEF size
        <4>2. QED
          BY <1>2, <4>1
      <3>5. KeysOf(c) \subseteq KeysFrom(table, size, 0) /\ KeysFrom(table, size, i + 1) \subseteq KeysFrom(table, size, 0)
        BY <1>2, <3>4 DEF KeysFrom
      <3>6. QED
        BY <3>1, <3>2, <3>3, <3>5
    <2>8. TableInv' /\ Contents' = Contents /\ tablelength' = size
      BY <1>3, <2>5, OnlyTheIterator
    <2>9. Map!Present = KeysIn(Contents)
      BY Reads DEF Map!Present, KeysIn
    <2>10. AheadOf(itr, table, tablelength)' = AheadOf(itr', table, size)
      BY <1>3, <2>8
    <2>11. k \in KeysIn(Contents)
      BY <2>6, <2>7
    <2>12. Map!Find(k)
      BY <1>3, <2>6, <2>7, <2>8, <2>9, <2>10, <2>11, Reads DEF Map!Find
    <2>13. QED
      BY <2>8, <2>12
  <1>6. QED
    BY <1>4, <1>5

LEMMA KeysListedOK == ASSUME TableInv PROVE KeysListed
  <1> DEFINE size == tablelength
             l == TableEntries
             A == ChainPlaces(table)
  <1>1. TableOK(table, size)
    BY DEF TableInv
  <1>2. A \subseteq Nat \X Nat /\ IsFiniteSet(A)
    BY <1>1, PlacesFinite
  <1>3. IsListOf(l, table, A)
    BY <1>2, ListedFacts DEF TableEntries
  <1>4. /\ \A x \in A : At(table, x) \in AllOf(table, size)
        /\ \A e \in AllOf(table, size) : \E x \in A : At(table, x) = e
        /\ \A x, y \in A : At(table, x).k = At(table, y).k => x = y
    BY <1>1, PlacesHold
  <1>5. hashtable_get_key_array = [n \in DOMAIN l |-> l[n].k]
    BY DEF hashtable_get_key_array
  <1>6. Map!Present = KeysFrom(table, size, 0)
    <2>1. Map!Present = KeysIn(Contents)
      BY Reads DEF Map!Present, KeysIn
    <2>2. QED
      BY <1>1, <2>1, KeysInIs DEF Contents
  <1>7. KeysFrom(table, size, 0) = {e.k : e \in AllOf(table, size)}
    BY DEF KeysFrom, KeysOf, AllOf, EntriesOf
  <1> DEFINE keys == hashtable_get_key_array
  <1> HIDE DEF l, A, size
  <1>8. {keys[n] : n \in DOMAIN keys} = {e.k : e \in AllOf(table, size)}
    <2>1. ASSUME NEW n \in DOMAIN l PROVE \E e \in AllOf(table, size) : l[n].k = e.k
      BY <1>3, <1>4 DEF IsListOf
    <2>2. ASSUME NEW e \in AllOf(table, size) PROVE \E n \in DOMAIN l : l[n].k = e.k
      BY <1>3, <1>4 DEF IsListOf
    <2>3. DOMAIN keys = DOMAIN l /\ \A n \in DOMAIN l : keys[n] = l[n].k
      BY <1>5
    <2> HIDE DEF keys
    <2>4. QED
      BY <2>1, <2>2, <2>3
  <1>9. \A n, m \in DOMAIN keys : keys[n] = keys[m] => n = m
    <2>1. \A n, m \in DOMAIN l : l[n].k = l[m].k => n = m
      BY <1>3, <1>4 DEF IsListOf
    <2>2. DOMAIN keys = DOMAIN l /\ \A n \in DOMAIN l : keys[n] = l[n].k
      BY <1>5
    <2> HIDE DEF keys
    <2>3. QED
      BY <2>1, <2>2
  <1>10. Len(keys) = entrycount
    <2> DEFINE N == Len(l)
               P == Map!Present
    <2>1. N \in Nat /\ DOMAIN l = 1 .. N
      BY <1>3 DEF IsListOf
    <2>2. keys = [n \in 1 .. N |-> l[n].k]
      BY <1>5, <2>1
    <2> HIDE DEF keys, N, P
    <2>3. DOMAIN keys = 1 .. N /\ Len(keys) = N
      BY <2>1, <2>2
    <2>4. {keys[n] : n \in 1 .. N} = P
      BY <1>6, <1>7, <1>8, <2>3 DEF P
    <2>5. ExistsBijection(1 .. N, P)
      <3>1. keys \in [1 .. N -> P]
        BY <2>2, <2>4
      <3>2. keys \in Surjection(1 .. N, P)
        BY <2>4, <3>1 DEF Surjection
      <3>3. keys \in Injection(1 .. N, P)
        BY <1>9, <2>3, <3>1 DEF Injection, IsInjective
      <3>4. QED
        BY <3>2, <3>3 DEF Bijection, ExistsBijection
    <2>6. IsFiniteSet(1 .. N) /\ Cardinality(1 .. N) = N
      <3>1. 1 \in Int /\ N \in Int
        BY <2>1
      <3>2. IsFiniteSet(1 .. N) /\ Cardinality(1 .. N) = IF 1 > N THEN 0 ELSE N - 1 + 1
        BY <3>1, FS_Interval
      <3>3. QED
        BY <2>1, <3>2
    <2>7. Cardinality(P) = N
      BY <2>5, <2>6, FS_Bijection
    <2>8. entrycount = Cardinality(P)
      <3>1. P = KeysIn(Contents)
        BY Reads DEF Map!Present, KeysIn, P
      <3>2. QED
        BY <3>1 DEF TableInv
    <2>9. QED
      BY <2>3, <2>7, <2>8
  <1>11. QED
    BY <1>6, <1>7, <1>8, <1>9, <1>10 DEF KeysListed

\* Each step of the table is a step of the map or leaves the map alone.
LEMMA NextInvHash ==
    ASSUME TableInv, [HashNext]_hashVars
    PROVE  TableInv' /\ [Map!Next]_(Map!mapVars)
  <1>1. CASE HashNext
    <2>1. ASSUME NEW k \in Key, NEW v \in Val, hashtable_insert(k, v)
          PROVE  TableInv' /\ Map!Next
      BY <2>1, InsertPuts DEF Map!Next
    <2>2. ASSUME NEW k \in Key, hashtable_remove(k) PROVE TableInv' /\ Map!Next
      BY <2>2, RemoveDrops DEF Map!Next
    <2>3. ASSUME NEW k \in Key, hashtable_iterator_search(k) PROVE TableInv' /\ Map!Next
      BY <2>3, SearchFindsPlace DEF Map!Next
    <2>4. CASE hashtable_iterator_new
      BY <2>4, NewBegins DEF Map!Next
    <2>5. CASE hashtable_iterator_advance
      BY <2>5, AdvancePasses DEF Map!Next
    <2>6. CASE hashtable_iterator_remove
      BY <2>6, IteratorRemoveDrops DEF Map!Next
    <2>7. QED
      BY <1>1, <2>1, <2>2, <2>3, <2>4, <2>5, <2>6 DEF HashNext
  <1>2. CASE UNCHANGED hashVars
    <2>1. tablelength' = tablelength /\ UNCHANGED <<table, primeindex, entrycount, itr, removed>>
      BY <1>2 DEF hashVars, tablelength
    <2>2. Contents' = Contents
      BY <2>1 DEF Contents
    <2>3. TableInv'
      BY <2>1, <2>2 DEF TableInv
    <2>4. AheadOf(itr, table, tablelength)' = AheadOf(itr, table, tablelength)
      BY <2>1
    <2>5. UNCHANGED Map!mapVars
      BY <2>1, <2>2, <2>4, Reads DEF Map!mapVars
    <2>6. QED
      BY <2>3, <2>5
  <1>3. QED
    BY <1>1, <1>2

\* For any keys, values, hash and list of lengths, hashtable.c and its iterator are the map of
\* AbstractMap: chains, the load limit, the move to a larger table, an insert, a removal and a
\* removal in the middle of an iteration lose, double and revive no key, an iteration meets
\* every key that was there when it began exactly once, and the array of keys has each key once.
THEOREM TableImplementsMap == HashSpec => TableIsMap
  <1>1. HashInit => TableInv /\ Map!Init
    BY InitInvHash
  <1>2. TableInv /\ [HashNext]_hashVars => TableInv' /\ [Map!Next]_(Map!mapVars)
    BY NextInvHash
  <1>3. TableInv => KeysListed
    BY KeysListedOK
  <1>4. QED
    BY <1>1, <1>2, <1>3, PTL DEF HashSpec, TableIsMap, Map!Spec
=============================================================================
