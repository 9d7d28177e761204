---------------------------- MODULE FifoHistory ----------------------------
(***************************************************************************)
(* ThreadSafeFIFO with any threads around it: whoever pushes, and one      *)
(* thread per queue that pops and peeks.  pushed and popped record what    *)
(* went in and what was handed out, misses how often a pop came back from  *)
(* its wait to an empty queue.                                             *)
(***************************************************************************)
EXTENDS ThreadSafeFIFO

CONSTANTS MaxPushes, \* bound on the pushes of a queue
          MaxWakeups \* bound on the pops a queue leaves with nothing

ASSUME BoundsAssumption == MaxPushes \in Nat /\ MaxWakeups \in Nat

VARIABLES pushed, \* queue -> the elements pushed on it, oldest first
          popped, \* queue -> the elements fifo_pop took out of it
          misses  \* queue -> the pops that found it empty

historyVars == <<fifo, pushed, popped, misses>>

HistoryInit ==
    /\ fifo = [f \in Fifos |-> fifo_create]
    /\ pushed = [f \in Fifos |-> <<>>]
    /\ popped = [f \in Fifos |-> <<>>]
    /\ misses = [f \in Fifos |-> 0]

Push(f, e) == /\ fifo[f].push_counter < MaxPushes
              /\ fifo_push(f, e)
              /\ pushed' = [pushed EXCEPT ![f] = Append(@, e)]
              /\ UNCHANGED <<popped, misses>>

Pop(f) == /\ fifo[f].queue # <<>>
          /\ fifo_pop_peek(f, "pop")
          /\ popped' = [popped EXCEPT ![f] = Append(@, Oldest(f))]
          /\ UNCHANGED <<pushed, misses>>

PopOfNothing(f) == /\ fifo[f].queue = <<>>
                   /\ fifo_pop_peek(f, "pop")
                   /\ misses' = [misses EXCEPT ![f] = @ + 1]
                   /\ UNCHANGED <<pushed, popped>>

Peek(f) == /\ fifo_pop_peek(f, "peek")
           /\ UNCHANGED <<pushed, popped, misses>>

Wait(f, op) == /\ fifo_waits(f, op)
               /\ UNCHANGED <<pushed, popped, misses>>

Wake(f) == /\ misses[f] < MaxWakeups
           /\ SpuriousWakeup(f)
           /\ UNCHANGED <<pushed, popped, misses>>

HistoryNext == \E f \in Fifos :
            \/ \E e \in Elements \cup {NULL} : Push(f, e)
            \/ Pop(f)
            \/ PopOfNothing(f)
            \/ Peek(f)
            \/ \E op \in {"pop", "peek"} : Wait(f, op)
            \/ Wake(f)

HistorySpec == HistoryInit /\ [][HistoryNext]_historyVars

CallComesBack(f) == fifo[f].call.woken /\ (Pop(f) \/ PopOfNothing(f) \/ Peek(f))

\* A call that was signalled gets the mutex again.
HistoryFairness == \A f \in Fifos : WF_historyVars(CallComesBack(f))

-----------------------------------------------------------------------------
HistoryTypeOK ==
    /\ FifoTypeOK
    /\ pushed \in [Fifos -> Seq(Elements \cup {NULL})]
    /\ popped \in [Fifos -> Seq(Elements \cup {NULL})]
    /\ misses \in [Fifos -> Nat]

\* What was popped and what is queued is what was pushed, in the order it was
\* pushed: no interleaving of push, wait and return delivers an element twice
\* or drops one (ThreadSafeFIFO.c:95 and 149-178).
NothingLost == \A f \in Fifos : pushed[f] = popped[f] \o fifo[f].queue

\* A pop comes back with nothing only from a spurious wakeup: without one, the
\* single check of the queue before the wait is enough (ThreadSafeFIFO.c:150-166).
EmptyHandedOnlyIfSpurious == \A f \in Fifos : misses[f] # 0 => f \in Spurious

\* The counters that teardownQueues and printIngestStatus print tell what is
\* still queued, but for the pops that found nothing (ThreadSafeFIFO.c:97, 172).
CountersSymmetrical ==
    \A f \in Fifos :
        fifo[f].push_counter + misses[f] = fifo[f].pop_counter + Len(fifo[f].queue)

\* A call that waits comes back once something is in the queue
\* (ThreadSafeFIFO.c:103 and 157-172).
WaitingCallReturns ==
    \A f \in Fifos : (fifo[f].call # NoCall /\ fifo[f].queue # <<>>) ~> fifo[f].call = NoCall
=============================================================================
