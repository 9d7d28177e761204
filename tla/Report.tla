------------------------------- MODULE Report -------------------------------
(***************************************************************************)
(* The report of the tool (ATSTestReport.c): lists that every thread adds  *)
(* to and that the main thread prints and clears, without a lock.  The     *)
(* three lists (messages, information, boundary points) have one form and  *)
(* are cleared one after the other: one stands for them.                   *)
(*                                                                         *)
(* An entry is added by varray_add, which reads the length and then stores *)
(* at that index (varray_set): the two are steps of their own, with other  *)
(* threads in between.  Storage that is too small is moved before that, in *)
(* two steps as well: realloc frees the old storage, and then the others   *)
(* find the new one.  A thread that loads the pointer before the first of  *)
(* the two and uses it after it does to the list what one does that loads  *)
(* and uses it between them.                                               *)
(***************************************************************************)
EXTENDS Integers, FiniteSets

CONSTANTS Reporters,  \* the threads that add to the list
          MaxReports, \* bound: slots of the list that are used
          StartLength, \* of the storage (varray_start_length)
          MaxAdders   \* bound: threads in the middle of adding an entry

VARIABLES slots,   \* the storage: an entry, or one that is gone or never was
          length,  \* the length of the list
          room,    \* the slots there is storage for (memlength)
          adding,  \* the length a thread has read, while it adds an entry
          growing, \* the threads that have freed the storage to move it
          met      \* a thread was adding when the list was emptied or when
                   \* another one moved the storage: history

reportVars == <<slots, length, room, adding, growing, met>>

Slots == 0 .. MaxReports - 1
Idle  == MaxReports

reportInit ==
    /\ slots = [k \in Slots |-> "gone"]
    /\ length = 0
    /\ room = StartLength
    /\ adding = [t \in Reporters |-> Idle]
    /\ growing = {}
    /\ met = FALSE

\* varray_add reads the length of the list.
BeginAdd(t) ==
    /\ adding[t] = Idle
    /\ length < MaxReports
    /\ Cardinality({u \in Reporters : adding[u] # Idle}) < MaxAdders
    /\ adding' = [adding EXCEPT ![t] = length]
    /\ UNCHANGED <<slots, length, room, growing, met>>

\* The storage is moved to where there is more of it: the old one is freed ...
BeginGrow(t) ==
    /\ adding[t] # Idle /\ t \notin growing
    /\ ~ (adding[t] < room)
    /\ growing' = growing \cup {t}
    /\ met' = (met \/ growing # {})
    /\ UNCHANGED <<slots, length, room, adding>>

\* ... and the new one is known.  It is twice as large, unless another thread
\* has moved it too (from varray_block_length on it grows by blocks).
EndGrow(t) ==
    /\ t \in growing
    /\ growing' = growing \ {t}
    /\ room' = IF adding[t] < room THEN room ELSE 2 * room
    /\ UNCHANGED <<slots, length, adding, met>>

\* varray_set stores the entry, and the list is at least that long.  What is
\* stored while another thread moves the storage may stay behind.
EndAdd(t) ==
    /\ adding[t] # Idle /\ t \notin growing
    /\ adding[t] < room
    /\ \/ slots' = [slots EXCEPT ![adding[t]] = "entry"]
       \/ growing # {} /\ UNCHANGED slots
    /\ length' = IF length > adding[t] THEN length ELSE adding[t] + 1
    /\ adding' = [adding EXCEPT ![t] = Idle]
    /\ met' = (met \/ growing # {})
    /\ UNCHANGED <<room, growing>>

\* reportClearData frees the entries ...
FreeEntries ==
    /\ slots' = [k \in Slots |-> IF k < length THEN "gone" ELSE slots[k]]
    /\ UNCHANGED <<length, room, adding, growing, met>>

\* Mutation: the entries are freed and the list keeps its length.
EmptiesNothing ==
    /\ met' = (met \/ \E t \in Reporters : adding[t] # Idle)
    /\ UNCHANGED <<slots, length, room, adding, growing>>

\* ... and then empties the list: an entry added in between is dropped as it is.
EmptyList ==
    /\ length' = 0
    /\ met' = (met \/ \E t \in Reporters : adding[t] # Idle)
    /\ UNCHANGED <<slots, room, adding, growing>>

\* The two at once, when the lists are freed as well (reportCleanup).
FreeAndEmpty ==
    /\ slots' = [k \in Slots |-> IF k < length THEN "gone" ELSE slots[k]]
    /\ length' = 0
    /\ met' = (met \/ \E t \in Reporters : adding[t] # Idle)
    /\ UNCHANGED <<room, adding, growing>>

\* Some entry of the list is not, or no longer, there: printing the list reads
\* freed memory, and the next clear frees it once more.
Dangling == \E k \in Slots : k < length /\ slots[k] # "entry"

=============================================================================
