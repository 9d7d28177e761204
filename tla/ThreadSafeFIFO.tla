--------------------------- MODULE ThreadSafeFIFO ---------------------------
(***************************************************************************)
(* The queues between the ingest threads and the segment analysis threads  *)
(* (ThreadSafeFIFO.c).  An ingest thread pushes EBPs and, when it is done, *)
(* NULL; one analysis thread peeks and pops.  An operation holds           *)
(* fifo_mutex throughout, pthread_cond_wait excepted, so a push is one     *)
(* step, a pop or a peek is one step or, on an empty queue, two: the wait  *)
(* and the return.  The queue is kept oldest element first.                *)
(***************************************************************************)
EXTENDS Naturals, Sequences

CONSTANTS Fifos,    \* the queues
          Elements, \* what is pushed besides NULL
          NULL,     \* the element a pop or a peek of an empty queue returns
          Spurious  \* the queues whose pthread_cond_wait may return without a signal

ASSUME FifoAssumption == NULL \notin Elements /\ Spurious \subseteq Fifos

VARIABLE fifo \* queue -> its elements, its counters and the call parked on it

NoCall == [op |-> "none", woken |-> FALSE]

\* fifo_create, on a structure that calloc cleared.
fifo_create == [queue |-> <<>>, push_counter |-> 0, pop_counter |-> 0, call |-> NoCall]

\* Mutation: the element goes to the end that is popped.
QueueInFront(s, e) == <<e>> \o s

Queued(s, e) == Append(s, e)

\* Mutations: the signal is left out; it is kept for a call still to come.
CallAfterNoSignal(c) == c

\* pthread_cond_signal: wakes the thread parked on the queue, if there is one.
CallAfterSignal(c) == IF c = NoCall THEN c ELSE [op |-> c.op, woken |-> TRUE]

AfterPush(q, e) == [queue        |-> Queued(q.queue, e),
                    push_counter |-> q.push_counter + 1,
                    pop_counter  |-> q.pop_counter,
                    call         |-> CallAfterSignal(q.call)]

fifo_push(f, e) == fifo' = [fifo EXCEPT ![f] = AfterPush(@, e)]

\* What varray_pop and varray_peek return.
Oldest(f) == IF fifo[f].queue = <<>> THEN NULL ELSE Head(fifo[f].queue)

\* Mutation: the queue is not checked before the wait.
ProceedsUnchecked(f) == fifo[f].call = NoCall \/ fifo[f].call.woken

\* A call can go on: it finds an element, or it was woken from its wait.
Proceeds(f) == \/ fifo[f].call = NoCall /\ fifo[f].queue # <<>>
               \/ fifo[f].call.woken

CountPop(q) == q.pop_counter + 1

\* What a call leaves behind: a pop takes the oldest element, if there is one,
\* and counts; a peek takes nothing.
AfterCall(q, op) ==
    [queue        |-> IF op = "peek" \/ q.queue = <<>> THEN q.queue ELSE Tail(q.queue),
     push_counter |-> q.push_counter,
     pop_counter  |-> IF op = "peek" THEN q.pop_counter ELSE CountPop(q),
     call         |-> NoCall]

\* fifo_pop_peek past its wait: it delivers Oldest(f).
fifo_pop_peek(f, op) ==
    /\ Proceeds(f)
    /\ fifo[f].call.op \in {"none", op}
    /\ fifo' = [fifo EXCEPT ![f] = AfterCall(@, op)]

WithCall(q, c) == [queue |-> q.queue, push_counter |-> q.push_counter,
                   pop_counter |-> q.pop_counter, call |-> c]

\* fifo_pop_peek on an empty queue: pthread_cond_wait, once.
fifo_waits(f, op) ==
    /\ fifo[f].call = NoCall
    /\ fifo[f].queue = <<>>
    /\ fifo' = [fifo EXCEPT ![f] = WithCall(@, [op |-> op, woken |-> FALSE])]

SpuriousWakeup(f) ==
    /\ f \in Spurious
    /\ fifo[f].call # NoCall
    /\ ~fifo[f].call.woken
    /\ fifo' = [fifo EXCEPT ![f] = WithCall(@, [op |-> @.call.op, woken |-> TRUE])]

-----------------------------------------------------------------------------
Calls == [op : {"pop", "peek"}, woken : BOOLEAN] \cup {NoCall}

FifoTypeOK ==
    fifo \in [Fifos -> [queue : Seq(Elements \cup {NULL}), push_counter : Nat,
                        pop_counter : Nat, call : Calls]]

\* No push goes unnoticed by a call that waits (ThreadSafeFIFO.c:103 and 157).
NoPushUnnoticed ==
    \A f \in Fifos : fifo[f].call # NoCall /\ ~fifo[f].call.woken => fifo[f].queue = <<>>
=============================================================================
