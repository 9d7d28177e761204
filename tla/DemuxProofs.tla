---------------------------- MODULE DemuxProofs ----------------------------
(***************************************************************************)
(* Proofs about the demultiplexer: every packet has one owner, the streams *)
(* of the PMT in force are handled, and the units of a video stream are    *)
(* handed on.                                                              *)
(***************************************************************************)
EXTENDS Demux, SequenceTheorems, FiniteSetTheorems, WellFoundedInduction, TLAPS

-----------------------------------------------------------------------------
(* Numbers.                                                                 *)

\* A set of numbers that is not empty has a least element.
LEMMA HasMin == ASSUME NEW T, T \subseteq Nat, T # {}
                PROVE  \E x \in T : \A y \in T : x <= y
  <1> DEFINE R == OpToRel(<, Nat)
  <1>1. IsWellFoundedOn(R, Nat)
    BY NatLessThanWellFounded, Zenon
  <1>2. R = {ss \in Nat \X Nat : ss[1] < ss[2]}
    BY Zenon DEF OpToRel
  <1> HIDE DEF R
  <1>3. \A x, y \in Nat : <<y, x>> \in R <=> y < x
    BY <1>2
  <1>4. PICK x \in T : \A y \in T : ~(<<y, x>> \in R)
    BY <1>1, WFMin, Zenon
  <1>5. ASSUME NEW y \in T PROVE x <= y
    <2>1. ~(y < x) /\ x \in Nat /\ y \in Nat
      BY <1>3, <1>4
    <2>2. QED
      BY <2>1
  <1>6. QED
    BY <1>5

-----------------------------------------------------------------------------
(* The loop over the entries.                                               *)

\* What the first n turns of the loop give.
IsRun(f, m2p, n) ==
    f = [i \in 0 .. n |-> IF i = 0 THEN {[m2p |-> m2p, freed |-> <<>>]}
                          ELSE UNION {ProcessEntry(r, i) : r \in f[i - 1]}]

LEMMA RunExists ==
    ASSUME NEW m2p, NEW N \in Nat
    PROVE  \E f : IsRun(f, m2p, N)
  <1> DEFINE Bad == {n \in Nat : ~\E f : IsRun(f, m2p, n)}
  <1>1. SUFFICES ASSUME Bad # {} PROVE FALSE
    OBVIOUS
  <1>2. PICK n \in Bad : \A k \in Bad : n <= k
    <2>1. Bad \subseteq Nat
      OBVIOUS
    <2> HIDE DEF Bad
    <2>2. QED
      BY <1>1, <2>1, HasMin
  <1>3. n # 0
    <2>1. IsRun([i \in 0 .. 0 |-> {[m2p |-> m2p, freed |-> <<>>]}], m2p, 0)
      BY DEF IsRun
    <2>2. QED
      BY <1>2, <2>1
  <1>4. n \in Nat /\ n - 1 \in Nat /\ n - 1 \notin Bad
    BY <1>2, <1>3
  <1>5. PICK f : IsRun(f, m2p, n - 1)
    BY <1>4
  <1> DEFINE last == UNION {ProcessEntry(r, n) : r \in f[n - 1]}
             g == [i \in 0 .. n |-> IF i = n THEN last ELSE f[i]]
  <1>6. \A i \in 0 .. n - 1 : f[i] = IF i = 0 THEN {[m2p |-> m2p, freed |-> <<>>]}
                                     ELSE UNION {ProcessEntry(r, i) : r \in f[i - 1]}
    BY <1>5, Zenon DEF IsRun
  <1>7. ASSUME NEW i \in 0 .. n
        PROVE  g[i] = IF i = 0 THEN {[m2p |-> m2p, freed |-> <<>>]}
                      ELSE UNION {ProcessEntry(r, i) : r \in g[i - 1]}
    <2>1. CASE i = n
      <3>1. g[i] = last /\ g[i - 1] = f[n - 1] /\ i # 0
        BY <1>3, <1>4, <2>1
      <3>2. QED
        BY <2>1, <3>1, Zenon
    <2>2. CASE i # n /\ i # 0
      <3>1. i \in 0 .. n - 1 /\ g[i] = f[i] /\ g[i - 1] = f[i - 1]
        BY <1>4, <2>2
      <3>2. QED
        BY <1>6, <2>2, <3>1, Zenon
    <2>3. CASE i = 0
      <3>1. i \in 0 .. n - 1 /\ g[i] = f[i]
        BY <1>3, <1>4, <2>3
      <3>2. QED
        BY <1>6, <2>3, <3>1, Zenon
    <2>4. QED
      BY <2>1, <2>2, <2>3
  <1>8. IsRun(g, m2p, n)
    <2>1. g = [i \in 0 .. n |-> g[i]]
      OBVIOUS
    <2> HIDE DEF g
    <2>2. QED
      BY <1>7, <2>1, Zenon DEF IsRun
  <1>9. QED
    BY <1>2, <1>8

\* What holds before the loop and is kept by each turn of it holds after it.
LEMMA ProcessorLoop ==
    ASSUME NEW m2p, Len(m2p.pids) \in Nat, NEW Good,
           [m2p |-> m2p, freed |-> <<>>] \in Good[0],
           \A i \in 1 .. Len(m2p.pids) : \A r \in Good[i - 1] : ProcessEntry(r, i) \subseteq Good[i]
    PROVE  pmt_processor(m2p) \subseteq Good[Len(m2p.pids)]
  <1> DEFINE N == Len(m2p.pids)
             f == CHOOSE f : IsRun(f, m2p, N)
  <1>1. IsRun(f, m2p, N)
    BY RunExists, Zenon
  <1>2. pmt_processor(m2p) = f[N]
    BY Zenon DEF pmt_processor, IsRun
  <1> HIDE DEF f
  <1>3. \A i \in 0 .. N : f[i] = IF i = 0 THEN {[m2p |-> m2p, freed |-> <<>>]}
                                 ELSE UNION {ProcessEntry(r, i) : r \in f[i - 1]}
    BY <1>1, Zenon DEF IsRun
  <1> DEFINE Bad == {n \in 0 .. N : ~(f[n] \subseteq Good[n])}
  <1>4. SUFFICES ASSUME Bad # {} PROVE FALSE
    BY <1>2
  <1>5. PICK n \in Bad : \A k \in Bad : n <= k
    <2>1. Bad \subseteq Nat
      OBVIOUS
    <2> HIDE DEF Bad
    <2>2. QED
      BY <1>4, <2>1, HasMin
  <1>6. n # 0
    BY <1>3, <1>5
  <1>7. n \in 1 .. N /\ n - 1 \in 0 .. N /\ n - 1 \notin Bad
    BY <1>5, <1>6
  <1>8. f[n - 1] \subseteq Good[n - 1]
    BY <1>7
  <1>9. f[n] = UNION {ProcessEntry(r, n) : r \in f[n - 1]}
    BY <1>3, <1>6, <1>7
  <1>10. f[n] \subseteq Good[n]
    BY <1>7, <1>8, <1>9
  <1>11. QED
    BY <1>5, <1>10

-----------------------------------------------------------------------------
(* One entry of the loop.                                                   *)

\* The entries agree with the PMT in force: it numbers what it lists, an entry that
\* points into it is for a stream it lists, and each of these has one.
Announced(m2p) ==
    /\ \A j \in DOMAIN m2p.pmt.es_info : m2p.pmt.es_info[j].gen = m2p.pmt.gen
    /\ \A i \in DOMAIN m2p.pids :
          ~Dangling(m2p, m2p.pids[i]) => Listed(m2p, m2p.pids[i].es_info.pid) # {}
    /\ \A j \in DOMAIN m2p.pmt.es_info : \E i \in DOMAIN m2p.pids :
          ~Dangling(m2p, m2p.pids[i]) /\ m2p.pids[i].es_info.pid = m2p.pmt.es_info[j].pid

\* The first entry of its PID that points into the PMT in force.
IsFirst(m2p, i) ==
    /\ ~Dangling(m2p, m2p.pids[i])
    /\ \A h \in DOMAIN m2p.pids :
          h < i /\ ~Dangling(m2p, m2p.pids[h]) => m2p.pids[h].es_info.pid # m2p.pids[i].es_info.pid

HandledUpTo(m2p, n) ==
    \A i \in DOMAIN m2p.pids :
        i <= n /\ IsFirst(m2p, i) /\ Handles(TypeOf[m2p.pids[i].es_info.pid]) => m2p.pids[i].handled

\* Entry i gives way to a handler for the PID.
Replaces(m2p, x, pid, i) ==
    /\ i \in DOMAIN m2p.pids
    /\ x.m2p \in Programs /\ x.m2p.PID = m2p.PID /\ x.m2p.pmt = m2p.pmt
    /\ x.freed = m2p.pids[i].queue
    /\ Len(x.m2p.pids) = Len(m2p.pids)
    /\ \A h \in DOMAIN m2p.pids : h # i => x.m2p.pids[h] = m2p.pids[h]
    /\ x.m2p.pids[i].queue = <<>> /\ x.m2p.pids[i].handled
    /\ x.m2p.pids[i].es_info.gen = m2p.pmt.gen /\ x.m2p.pids[i].es_info.pid = pid
    /\ Listed(m2p, pid) # {}
    /\ Dangling(m2p, m2p.pids[i]) \/ m2p.pids[i].es_info.pid = pid
    /\ \A h \in DOMAIN m2p.pids : h < i /\ ~Dangling(m2p, m2p.pids[h]) => m2p.pids[h].es_info.pid # pid

\* A handler for a listed PID is an entry for it.
LEMMA NewHandler ==
    ASSUME NEW m2p \in Programs, Announced(m2p), NEW pid, Listed(m2p, pid) # {}
    PROVE  /\ handler_new(m2p, pid) \in Entries
           /\ handler_new(m2p, pid).queue = <<>> /\ handler_new(m2p, pid).handled
           /\ handler_new(m2p, pid).es_info.gen = m2p.pmt.gen
           /\ handler_new(m2p, pid).es_info.pid = pid
  <1> DEFINE L == Listed(m2p, pid)
             es == m2p.pmt.es_info
  <1>1. es \in Seq(EsInfos)
    BY DEF Programs
  <1>2. L \subseteq DOMAIN es /\ L \subseteq Nat
    BY <1>1 DEF Listed
  <1>3. \E x \in L : \A y \in L : x <= y
    <2>1. L # {}
      OBVIOUS
    <2> HIDE DEF L
    <2>2. QED
      BY <1>2, <2>1, HasMin
  <1>4. Min(L) \in L
    BY <1>3 DEF Min
  <1>5. /\ es[Min(L)] \in EsInfos
        /\ es[Min(L)].pid = pid /\ es[Min(L)].gen = m2p.pmt.gen
    <2>1. Min(L) \in DOMAIN es /\ es[Min(L)].pid = pid
      BY <1>4 DEF Listed
    <2>2. es[Min(L)].gen = m2p.pmt.gen
      BY <2>1 DEF Announced
    <2> HIDE DEF L, es
    <2>3. QED
      BY <1>1, <2>1, <2>2, ElementOfSeq
  <1>6. handler_new(m2p, pid) = [es_info |-> es[Min(L)], handled |-> TRUE, queue |-> <<>>]
    BY Zenon DEF handler_new
  <1>7. <<>> \in Seq(Packets)
    OBVIOUS
  <1> HIDE DEF L, es
  <1>8. QED
    BY <1>5, <1>6, <1>7 DEF Entries

\* A search for a stream of the PMT in force ends at an entry.
LEMMA SearchEndsAtEntry ==
    ASSUME NEW m2p \in Programs, Announced(m2p), NEW pid, Listed(m2p, pid) # {},
           NEW i \in get_pid_info(m2p, pid)
    PROVE  /\ i \in DOMAIN m2p.pids
           /\ Dangling(m2p, m2p.pids[i]) \/ m2p.pids[i].es_info.pid = pid
           /\ \A h \in DOMAIN m2p.pids :
                 h < i /\ ~Dangling(m2p, m2p.pids[h]) => m2p.pids[h].es_info.pid # pid
  <1>1. m2p.pids \in Seq(Entries)
    BY DEF Programs
  <1>2. Len(m2p.pids) \in Nat /\ DOMAIN m2p.pids = 1 .. Len(m2p.pids)
    BY <1>1
  <1>3. \A h : ~Dangling(m2p, m2p.pids[h]) => PidsRead(m2p, m2p.pids[h]) = {m2p.pids[h].es_info.pid}
    BY DEF PidsRead
  <1>4. PICK e \in DOMAIN m2p.pids : ~Dangling(m2p, m2p.pids[e]) /\ m2p.pids[e].es_info.pid = pid
    BY DEF Announced, Listed
  <1>5. i # 0
    <2>1. PidsRead(m2p, m2p.pids[e]) = {pid} /\ e \in 1 .. Len(m2p.pids)
      BY <1>2, <1>3, <1>4
    <2>2. 0 \notin get_pid_info(m2p, pid)
      BY <1>2, <2>1 DEF get_pid_info
    <2>3. QED
      BY <2>2
  <1>6. /\ i \in 1 .. Len(m2p.pids)
        /\ pid \in PidsRead(m2p, m2p.pids[i])
        /\ \A h \in 1 .. i - 1 : PidsRead(m2p, m2p.pids[h]) # {pid}
    BY <1>5 DEF get_pid_info
  <1>7. Dangling(m2p, m2p.pids[i]) \/ m2p.pids[i].es_info.pid = pid
    BY <1>3, <1>6
  <1>8. ASSUME NEW h \in DOMAIN m2p.pids, h < i, ~Dangling(m2p, m2p.pids[h])
        PROVE  m2p.pids[h].es_info.pid # pid
    <2>1. h \in 1 .. i - 1
      BY <1>2, <1>6, <1>8
    <2>2. QED
      BY <1>3, <1>6, <1>8, <2>1
  <1>9. QED
    BY <1>2, <1>6, <1>7, <1>8

LEMMA RegisterReplaces ==
    ASSUME NEW m2p \in Programs, Announced(m2p), NEW pid,
           NEW x \in register_pid_processor(m2p, pid)
    PROVE  \/ Listed(m2p, pid) = {} /\ x = [m2p |-> m2p, freed |-> <<>>]
           \/ \E i \in DOMAIN m2p.pids : Replaces(m2p, x, pid, i)
  <1>1. CASE Listed(m2p, pid) = {}
    BY <1>1 DEF register_pid_processor
  <1>2. CASE Listed(m2p, pid) # {}
    <2> DEFINE new == handler_new(m2p, pid)
    <2>1. PICK i \in get_pid_info(m2p, pid) :
             x = IF i = 0 THEN [m2p |-> [m2p EXCEPT !.pids = Append(@, new)], freed |-> <<>>]
                 ELSE [m2p |-> [m2p EXCEPT !.pids[i] = new], freed |-> m2p.pids[i].queue]
      BY <1>2, Zenon DEF register_pid_processor
    <2>2. /\ i \in DOMAIN m2p.pids
          /\ Dangling(m2p, m2p.pids[i]) \/ m2p.pids[i].es_info.pid = pid
          /\ \A h \in DOMAIN m2p.pids :
                h < i /\ ~Dangling(m2p, m2p.pids[h]) => m2p.pids[h].es_info.pid # pid
      BY <1>2, SearchEndsAtEntry
    <2>3. m2p.pids \in Seq(Entries)
      BY DEF Programs
    <2>4. i # 0
      BY <2>2, <2>3
    <2>5. x = [m2p |-> [m2p EXCEPT !.pids[i] = new], freed |-> m2p.pids[i].queue]
      BY <2>1, <2>4
    <2>6. /\ new \in Entries /\ new.queue = <<>> /\ new.handled
          /\ new.es_info.gen = m2p.pmt.gen /\ new.es_info.pid = pid
      BY <1>2, NewHandler
    <2> HIDE DEF new
    <2>7. x.m2p.pids = [m2p.pids EXCEPT ![i] = new] /\ x.freed = m2p.pids[i].queue
      BY <2>5 DEF Programs
    <2>8. x.m2p.PID = m2p.PID /\ x.m2p.pmt = m2p.pmt
      BY <2>5 DEF Programs
    <2>9. x.m2p.pids \in Seq(Entries) /\ Len(x.m2p.pids) = Len(m2p.pids)
      BY <2>2, <2>3, <2>6, <2>7, ExceptSeq
    <2>10. x.m2p \in Programs
      BY <2>5, <2>7, <2>9 DEF Programs
    <2>11. x.m2p.pids[i] = new /\ \A h \in DOMAIN m2p.pids : h # i => x.m2p.pids[h] = m2p.pids[h]
      BY <2>2, <2>7
    <2>12. Replaces(m2p, x, pid, i)
      BY <1>2, <2>2, <2>6, <2>7, <2>8, <2>9, <2>10, <2>11 DEF Replaces
    <2>13. QED
      BY <2>2, <2>12
  <1>3. QED
    BY <1>1, <1>2


\* The replacement keeps the entries in agreement with the PMT, and gives the first
\* entry of the PID a handler.
LEMMA ReplacingAnnounces ==
    ASSUME NEW m2p \in Programs, Announced(m2p), NEW x, NEW pid, NEW i, Replaces(m2p, x, pid, i)
    PROVE  Announced(x.m2p)
  <1>1. DOMAIN x.m2p.pids = DOMAIN m2p.pids
    <2>1. m2p.pids \in Seq(Entries) /\ x.m2p.pids \in Seq(Entries)
      BY DEF Replaces, Programs
    <2>2. QED
      BY <2>1 DEF Replaces
  <1>2. x.m2p.pmt = m2p.pmt /\ \A p : Listed(x.m2p, p) = Listed(m2p, p)
    BY DEF Replaces, Listed
  <1>3. \A h \in DOMAIN m2p.pids :
           h # i => /\ x.m2p.pids[h] = m2p.pids[h]
                    /\ Dangling(x.m2p, x.m2p.pids[h]) = Dangling(m2p, m2p.pids[h])
    BY <1>2 DEF Replaces, Dangling
  <1>4. ~Dangling(x.m2p, x.m2p.pids[i]) /\ x.m2p.pids[i].es_info.pid = pid /\ i \in DOMAIN m2p.pids
    BY <1>2 DEF Replaces, Dangling
  <1>5. \A j \in DOMAIN x.m2p.pmt.es_info : x.m2p.pmt.es_info[j].gen = x.m2p.pmt.gen
    BY <1>2 DEF Announced
  <1>6. ASSUME NEW h \in DOMAIN x.m2p.pids, ~Dangling(x.m2p, x.m2p.pids[h])
        PROVE  Listed(x.m2p, x.m2p.pids[h].es_info.pid) # {}
    <2>1. CASE h = i
      BY <1>2, <1>4, <2>1 DEF Replaces
    <2>2. CASE h # i
      BY <1>1, <1>2, <1>3, <1>6, <2>2 DEF Announced
    <2>3. QED
      BY <2>1, <2>2
  <1>7. ASSUME NEW j \in DOMAIN x.m2p.pmt.es_info
        PROVE  \E h \in DOMAIN x.m2p.pids : /\ ~Dangling(x.m2p, x.m2p.pids[h])
                                            /\ x.m2p.pids[h].es_info.pid = x.m2p.pmt.es_info[j].pid
    <2>1. PICK h \in DOMAIN m2p.pids :
             ~Dangling(m2p, m2p.pids[h]) /\ m2p.pids[h].es_info.pid = m2p.pmt.es_info[j].pid
      BY <1>2 DEF Announced
    <2>2. CASE h = i
      <3>1. m2p.pids[i].es_info.pid = pid
        BY <2>1, <2>2 DEF Replaces
      <3>2. QED
        BY <1>1, <1>2, <1>4, <2>1, <2>2, <3>1
    <2>3. CASE h # i
      BY <1>1, <1>2, <1>3, <2>1, <2>3
    <2>4. QED
      BY <2>2, <2>3
  <1>8. QED
    BY <1>5, <1>6, <1>7 DEF Announced

\* Replacing leaves what comes first, but for entry i, which is first of its PID.
LEMMA ReplacingKeepsFirst ==
    ASSUME NEW m2p \in Programs, NEW x, NEW pid, NEW i, Replaces(m2p, x, pid, i),
           NEW h \in DOMAIN m2p.pids, h # i, IsFirst(x.m2p, h)
    PROVE  /\ IsFirst(m2p, h) /\ x.m2p.pids[h] = m2p.pids[h]
           /\ m2p.pids[h].es_info.pid # pid
  <1>1. DOMAIN x.m2p.pids = DOMAIN m2p.pids /\ DOMAIN m2p.pids \subseteq Nat
    <2>1. m2p.pids \in Seq(Entries) /\ x.m2p.pids \in Seq(Entries)
      BY DEF Replaces, Programs
    <2>2. QED
      BY <2>1 DEF Replaces
  <1>2. x.m2p.pmt = m2p.pmt /\ i \in DOMAIN m2p.pids
    BY DEF Replaces
  <1>3. \A g \in DOMAIN m2p.pids :
           g # i => /\ x.m2p.pids[g] = m2p.pids[g]
                    /\ Dangling(x.m2p, x.m2p.pids[g]) = Dangling(m2p, m2p.pids[g])
    BY <1>2 DEF Replaces, Dangling
  <1>4. ~Dangling(x.m2p, x.m2p.pids[i]) /\ x.m2p.pids[i].es_info.pid = pid
    BY <1>2 DEF Replaces, Dangling
  <1>5. ~Dangling(m2p, m2p.pids[h]) /\ x.m2p.pids[h] = m2p.pids[h]
    BY <1>3 DEF IsFirst
  <1>6. m2p.pids[h].es_info.pid # pid
    <2>1. CASE i < h
      BY <1>1, <1>2, <1>4, <1>5, <2>1 DEF IsFirst
    <2>2. CASE h < i
      BY <1>5, <2>2 DEF Replaces
    <2>3. QED
      BY <1>1, <1>2, <2>1, <2>2
  <1>7. ASSUME NEW g \in DOMAIN m2p.pids, g < h, ~Dangling(m2p, m2p.pids[g])
        PROVE  m2p.pids[g].es_info.pid # m2p.pids[h].es_info.pid
    <2>1. CASE g = i
      <3>1. m2p.pids[i].es_info.pid = pid
        BY <1>7, <2>1 DEF Replaces
      <3>2. QED
        BY <1>6, <2>1, <3>1
    <2>2. CASE g # i
      BY <1>1, <1>3, <1>5, <1>7, <2>2 DEF IsFirst
    <2>3. QED
      BY <2>1, <2>2
  <1>8. QED
    BY <1>5, <1>6, <1>7 DEF IsFirst

\* A turn passes over the entry, or registers a handler for the PID it reads.
LEMMA TurnOfEntry ==
    ASSUME NEW r, NEW n, NEW y \in ProcessEntry(r, n)
    PROVE  \/ y = r /\ ~\A t \in TypesRead(r.m2p, r.m2p.pids[n]) : Handles(t)
           \/ \E pid \in PidsRead(r.m2p, r.m2p.pids[n]) : \E x \in register_pid_processor(r.m2p, pid) :
                 y = [m2p |-> x.m2p, freed |-> r.freed \o x.freed]
  <1>1. \/ y \in IF \A t \in TypesRead(r.m2p, r.m2p.pids[n]) : Handles(t) THEN {} ELSE {r}
        \/ \E x \in UNION {register_pid_processor(r.m2p, pid) : pid \in PidsRead(r.m2p, r.m2p.pids[n])} :
              y = [m2p |-> x.m2p, freed |-> r.freed \o x.freed]
    BY DEF ProcessEntry
  <1>2. QED
    BY <1>1

\* After the turn for entry n the streams with entries up to n are handled.
LEMMA TurnHandles ==
    ASSUME NEW m2p \in Programs, Announced(m2p), NEW n \in DOMAIN m2p.pids, HandledUpTo(m2p, n - 1),
           NEW freed, NEW y \in ProcessEntry([m2p |-> m2p, freed |-> freed], n)
    PROVE  HandledUpTo(y.m2p, n) /\ Announced(y.m2p)
  <1> DEFINE pi == m2p.pids[n]
  <1>1. DOMAIN m2p.pids \subseteq Nat
    <2>1. m2p.pids \in Seq(Entries)
      BY DEF Programs
    <2>2. QED
      BY <2>1
  <1>2. ~Dangling(m2p, pi) => TypesRead(m2p, pi) = {TypeOf[pi.es_info.pid]} /\ PidsRead(m2p, pi) = {pi.es_info.pid}
    BY DEF TypesRead, PidsRead
  <1>3. CASE y.m2p = m2p /\ (~Dangling(m2p, pi) => ~Handles(TypeOf[pi.es_info.pid]))
    <2>1. ASSUME NEW i \in DOMAIN m2p.pids, i <= n, IsFirst(m2p, i), Handles(TypeOf[m2p.pids[i].es_info.pid])
          PROVE  m2p.pids[i].handled
      <3>1. i # n
        BY <1>3, <2>1 DEF IsFirst
      <3>2. i <= n - 1
        BY <1>1, <2>1, <3>1
      <3>3. QED
        BY <2>1, <3>2 DEF HandledUpTo
    <2>2. QED
      BY <1>3, <2>1 DEF HandledUpTo
  <1>4. ASSUME NEW pid \in PidsRead(m2p, pi), NEW x \in register_pid_processor(m2p, pid), y.m2p = x.m2p
        PROVE  HandledUpTo(y.m2p, n) /\ Announced(y.m2p)
    <2>1. CASE Listed(m2p, pid) = {} /\ x = [m2p |-> m2p, freed |-> <<>>]
      <3>1. Dangling(m2p, pi)
        BY <1>2, <1>4, <2>1 DEF Announced
      <3>2. QED
        BY <1>3, <1>4, <2>1, <3>1
    <2>2. ASSUME NEW i \in DOMAIN m2p.pids, Replaces(m2p, x, pid, i)
          PROVE  HandledUpTo(y.m2p, n) /\ Announced(y.m2p)
      <3>1. Announced(y.m2p)
        BY <1>4, <2>2, ReplacingAnnounces
      <3>2. DOMAIN x.m2p.pids = DOMAIN m2p.pids
        <4>1. m2p.pids \in Seq(Entries) /\ x.m2p.pids \in Seq(Entries)
          BY <2>2 DEF Replaces, Programs
        <4>2. QED
          BY <2>2, <4>1 DEF Replaces
      <3>3. ASSUME NEW h \in DOMAIN m2p.pids, h <= n, IsFirst(x.m2p, h),
                   Handles(TypeOf[x.m2p.pids[h].es_info.pid])
            PROVE  x.m2p.pids[h].handled
        <4>1. CASE h = i
          BY <2>2, <4>1 DEF Replaces
        <4>2. CASE h # i
          <5>1. /\ IsFirst(m2p, h) /\ x.m2p.pids[h] = m2p.pids[h]
                /\ m2p.pids[h].es_info.pid # pid
            BY <2>2, <3>3, <4>2, ReplacingKeepsFirst
          <5>2. h # n
            BY <1>2, <1>4, <5>1 DEF IsFirst
          <5>3. h <= n - 1
            BY <1>1, <3>3, <5>2
          <5>4. QED
            BY <3>3, <5>1, <5>3 DEF HandledUpTo
        <4>3. QED
          BY <4>1, <4>2
      <3>4. QED
        BY <1>4, <3>1, <3>2, <3>3 DEF HandledUpTo
    <2>3. QED
      BY <2>1, <2>2, RegisterReplaces
  <1>5. \/ y.m2p = m2p /\ ~\A t \in TypesRead(m2p, pi) : Handles(t)
        \/ \E pid \in PidsRead(m2p, pi) : \E x \in register_pid_processor(m2p, pid) : y.m2p = x.m2p
    <2> DEFINE r == [m2p |-> m2p, freed |-> freed]
    <2>1. r.m2p = m2p /\ y \in ProcessEntry(r, n)
      OBVIOUS
    <2> HIDE DEF r
    <2>2. \/ y = r /\ ~\A t \in TypesRead(r.m2p, r.m2p.pids[n]) : Handles(t)
          \/ \E pid \in PidsRead(r.m2p, r.m2p.pids[n]) : \E x \in register_pid_processor(r.m2p, pid) :
                y = [m2p |-> x.m2p, freed |-> r.freed \o x.freed]
      BY <2>1, TurnOfEntry, Zenon
    <2>3. CASE y = r /\ ~\A t \in TypesRead(r.m2p, r.m2p.pids[n]) : Handles(t)
      BY <2>1, <2>3, Zenon
    <2>4. ASSUME NEW pid \in PidsRead(r.m2p, r.m2p.pids[n]), NEW x \in register_pid_processor(r.m2p, pid),
                 y = [m2p |-> x.m2p, freed |-> r.freed \o x.freed]
          PROVE  \E p \in PidsRead(m2p, pi) : \E z \in register_pid_processor(m2p, p) : y.m2p = z.m2p
      <3>1. y.m2p = x.m2p
        BY <2>4
      <3>2. QED
        BY <2>1, <2>4, <3>1, Zenon
    <2>5. QED
      BY <2>2, <2>3, <2>4, Zenon
  <1> HIDE DEF pi
  <1>6. QED
    BY <1>2, <1>3, <1>4, <1>5


-----------------------------------------------------------------------------
(* The packets of the queues that are freed with their handlers.            *)

Has(packets, n) == PlacesIn(packets, n) # {}
Distinct(packets) == \A i, j \in DOMAIN packets : packets[i].no = packets[j].no => i = j
InQueues(pids, n) == \E i \in DOMAIN pids : Has(pids[i].queue, n)

\* No packet is in two places of the queues of a program.
OnceIn(pids) ==
    \A i, h \in DOMAIN pids : \A j \in DOMAIN pids[i].queue, g \in DOMAIN pids[h].queue :
        pids[i].queue[j].no = pids[h].queue[g].no => i = h /\ j = g

\* What became of the packets that were in the queues of a program.
Accounted(start, r) ==
    /\ r.m2p \in Programs /\ r.freed \in Seq(Packets)
    /\ r.m2p.PID = start.PID /\ r.m2p.pmt = start.pmt
    /\ Len(r.m2p.pids) = Len(start.pids)
    /\ \A i \in DOMAIN r.m2p.pids : r.m2p.pids[i].es_info.gen <= start.pmt.gen
    /\ OnceIn(r.m2p.pids) /\ Distinct(r.freed)
    /\ \A n \in Nat : ~(Has(r.freed, n) /\ InQueues(r.m2p.pids, n))
    /\ \A n \in Nat : Has(r.freed, n) \/ InQueues(r.m2p.pids, n) <=> InQueues(start.pids, n)

LEMMA ConcatPackets ==
    ASSUME NEW a \in Seq(Packets), NEW b \in Seq(Packets)
    PROVE  /\ a \o b \in Seq(Packets)
           /\ \A n : Has(a \o b, n) <=> Has(a, n) \/ Has(b, n)
           /\ Distinct(a) /\ Distinct(b) /\ (\A n \in Nat : ~(Has(a, n) /\ Has(b, n))) => Distinct(a \o b)
  <1> DEFINE c == a \o b
  <1>1. c \in Seq(Packets) /\ Len(c) = Len(a) + Len(b)
    OBVIOUS
  <1>2. /\ Len(a) \in Nat /\ Len(b) \in Nat
        /\ DOMAIN a = 1 .. Len(a) /\ DOMAIN b = 1 .. Len(b) /\ DOMAIN c = 1 .. Len(c)
    BY <1>1
  <1>3. /\ \A i \in DOMAIN a : c[i] = a[i]
        /\ \A i \in DOMAIN b : c[Len(a) + i] = b[i]
    OBVIOUS
  <1> HIDE DEF c
  <1>4. ASSUME NEW i \in DOMAIN c
        PROVE  \/ i \in DOMAIN a /\ c[i] = a[i]
               \/ i - Len(a) \in DOMAIN b /\ c[i] = b[i - Len(a)]
    <2>1. CASE i <= Len(a)
      BY <1>2, <1>3, <2>1
    <2>2. CASE i > Len(a)
      <3>1. i - Len(a) \in DOMAIN b /\ Len(a) + (i - Len(a)) = i
        BY <1>1, <1>2, <2>2
      <3>2. QED
        BY <1>3, <3>1
    <2>3. QED
      BY <1>2, <2>1, <2>2
  <1>5. /\ \A i \in DOMAIN a : i \in DOMAIN c
        /\ \A i \in DOMAIN b : Len(a) + i \in DOMAIN c
    BY <1>1, <1>2
  <1>6. \A n : Has(c, n) <=> Has(a, n) \/ Has(b, n)
    BY <1>3, <1>4, <1>5 DEF Has, PlacesIn
  <1>7. ASSUME Distinct(a), Distinct(b), \A n \in Nat : ~(Has(a, n) /\ Has(b, n)),
               NEW i \in DOMAIN c, NEW j \in DOMAIN c, c[i].no = c[j].no
        PROVE  i = j
    <2>1. \A g \in DOMAIN a, h \in DOMAIN b : a[g].no # b[h].no
      <3>1. ASSUME NEW g \in DOMAIN a, NEW h \in DOMAIN b, a[g].no = b[h].no PROVE FALSE
        <4>1. a[g].no \in Nat
          <5>1. a[g] \in Packets
            BY ElementOfSeq, <1>2
          <5>2. QED
            BY <5>1 DEF Packets
        <4>2. Has(a, a[g].no) /\ Has(b, a[g].no)
          BY <3>1 DEF Has, PlacesIn
        <4>3. QED
          BY <1>7, <4>1, <4>2
      <3>2. QED
        BY <3>1
    <2>2. CASE i \in DOMAIN a /\ j \in DOMAIN a
      BY <1>3, <1>7, <2>2 DEF Distinct
    <2>3. CASE i \notin DOMAIN a /\ j \notin DOMAIN a
      <3>1. /\ i - Len(a) \in DOMAIN b /\ c[i] = b[i - Len(a)]
            /\ j - Len(a) \in DOMAIN b /\ c[j] = b[j - Len(a)]
        BY <1>4, <2>3
      <3>2. i - Len(a) = j - Len(a)
        BY <1>7, <3>1 DEF Distinct
      <3>3. QED
        BY <1>2, <3>2
    <2>4. CASE i \in DOMAIN a /\ j \notin DOMAIN a
      BY <1>3, <1>4, <1>7, <2>1, <2>4
    <2>5. CASE i \notin DOMAIN a /\ j \in DOMAIN a
      BY <1>3, <1>4, <1>7, <2>1, <2>5
    <2>6. QED
      BY <2>2, <2>3, <2>4, <2>5
  <1>8. QED
    BY <1>1, <1>6, <1>7 DEF c, Distinct

\* What a replacement frees leaves the queues.
LEMMA ReplacingFrees ==
    ASSUME NEW start, NEW m2p, NEW freed, Accounted(start, [m2p |-> m2p, freed |-> freed]),
           NEW x, NEW pid, NEW i, Replaces(m2p, x, pid, i)
    PROVE  Accounted(start, [m2p |-> x.m2p, freed |-> freed \o x.freed])
  <1>1. /\ m2p \in Programs /\ freed \in Seq(Packets)
        /\ m2p.PID = start.PID /\ m2p.pmt = start.pmt /\ Len(m2p.pids) = Len(start.pids)
        /\ \A h \in DOMAIN m2p.pids : m2p.pids[h].es_info.gen <= start.pmt.gen
        /\ OnceIn(m2p.pids) /\ Distinct(freed)
        /\ \A n \in Nat : ~(Has(freed, n) /\ InQueues(m2p.pids, n))
        /\ \A n \in Nat : Has(freed, n) \/ InQueues(m2p.pids, n) <=> InQueues(start.pids, n)
    BY DEF Accounted
  <1> DEFINE old == m2p.pids
             new == x.m2p.pids
             queue == m2p.pids[i].queue
  <1>2. /\ old \in Seq(Entries) /\ new \in Seq(Entries) /\ Len(new) = Len(old)
        /\ i \in DOMAIN old /\ x.m2p \in Programs
        /\ x.m2p.PID = start.PID /\ x.m2p.pmt = start.pmt
    BY <1>1 DEF Replaces, Programs
  <1>3. DOMAIN new = DOMAIN old /\ DOMAIN old = 1 .. Len(old)
    BY <1>2
  <1>4. /\ x.freed = queue
        /\ \A h \in DOMAIN old : h # i => new[h] = old[h]
        /\ new[i].queue = <<>> /\ new[i].es_info.gen = start.pmt.gen
    BY <1>1 DEF Replaces
  <1>5. queue \in Seq(Packets)
    <2>1. old[i] \in Entries
      BY <1>2, <1>3, ElementOfSeq
    <2>2. QED
      BY <2>1 DEF Entries
  <1>6. start.pmt.gen \in Nat
    BY <1>1 DEF Programs
  <1>7. OnceIn(old) /\ Len(old) = Len(start.pids)
    BY <1>1
  <1>8. \A h \in DOMAIN old : old[h].es_info.gen <= start.pmt.gen
    BY <1>1
  <1>9. \A n : InQueues(old, n) <=> \E h \in DOMAIN old : Has(old[h].queue, n)
    BY DEF InQueues
  <1>10. /\ \A n \in Nat : ~(Has(freed, n) /\ InQueues(old, n))
         /\ \A n \in Nat : Has(freed, n) \/ InQueues(old, n) <=> InQueues(start.pids, n)
    BY <1>1
  <1> HIDE DEF old, new, queue
  <1>11. DOMAIN new[i].queue = {} /\ \A n : ~Has(new[i].queue, n)
    BY <1>4 DEF Has, PlacesIn
  <1>12. \A n : InQueues(new, n) <=> \E h \in DOMAIN old : h # i /\ Has(old[h].queue, n)
    BY <1>3, <1>4, <1>11 DEF InQueues
  <1>13. \A n : Has(queue, n) => ~\E h \in DOMAIN old : h # i /\ Has(old[h].queue, n)
    BY <1>2, <1>7 DEF Has, PlacesIn, OnceIn, queue, old
  <1>14. \A n : InQueues(old, n) <=> Has(queue, n) \/ InQueues(new, n)
    BY <1>2, <1>9, <1>12 DEF queue, old
  <1>15. /\ freed \o queue \in Seq(Packets)
         /\ \A n : Has(freed \o queue, n) <=> Has(freed, n) \/ Has(queue, n)
         /\ Distinct(freed) /\ Distinct(queue) /\ (\A n \in Nat : ~(Has(freed, n) /\ Has(queue, n)))
              => Distinct(freed \o queue)
    BY <1>1, <1>5, ConcatPackets
  <1>16. Distinct(queue)
    BY <1>2, <1>7 DEF Distinct, OnceIn, queue, old
  <1>17. \A n \in Nat : ~(Has(freed, n) /\ Has(queue, n))
    BY <1>10, <1>14
  <1>18. Distinct(freed \o queue)
    BY <1>1, <1>15, <1>16, <1>17
  <1>19. \A n \in Nat : ~(Has(freed \o queue, n) /\ InQueues(new, n))
    BY <1>10, <1>12, <1>13, <1>14, <1>15
  <1>20. \A n \in Nat : Has(freed \o queue, n) \/ InQueues(new, n) <=> InQueues(start.pids, n)
    BY <1>10, <1>14, <1>15
  <1>21. OnceIn(new)
    <2>1. ASSUME NEW g \in DOMAIN new, NEW h \in DOMAIN new, NEW j \in DOMAIN new[g].queue,
                 NEW l \in DOMAIN new[h].queue, new[g].queue[j].no = new[h].queue[l].no
          PROVE  g = h /\ j = l
      <3>1. g # i /\ h # i
        BY <1>11
      <3>2. new[g] = old[g] /\ new[h] = old[h] /\ g \in DOMAIN old /\ h \in DOMAIN old
        BY <1>3, <1>4, <3>1
      <3>3. QED
        BY <1>7, <2>1, <3>2 DEF OnceIn
    <2>2. QED
      BY <2>1 DEF OnceIn
  <1>22. \A h \in DOMAIN new : new[h].es_info.gen <= start.pmt.gen
    BY <1>3, <1>4, <1>6, <1>8
  <1>23. QED
    BY <1>2, <1>4, <1>7, <1>15, <1>18, <1>19, <1>20, <1>21, <1>22 DEF Accounted, old, new


LEMMA TurnAccounts ==
    ASSUME NEW start, NEW r, Accounted(start, r), Announced(r.m2p),
           NEW n \in DOMAIN r.m2p.pids, HandledUpTo(r.m2p, n - 1),
           r = [m2p |-> r.m2p, freed |-> r.freed], NEW y \in ProcessEntry(r, n)
    PROVE  /\ Accounted(start, y) /\ Announced(y.m2p) /\ HandledUpTo(y.m2p, n)
           /\ y \in [m2p : Programs, freed : Seq(Packets)]
  <1>1. r.m2p \in Programs /\ r.freed \in Seq(Packets)
    BY DEF Accounted
  <1>2. y \in ProcessEntry([m2p |-> r.m2p, freed |-> r.freed], n)
    BY Zenon
  <1>3. HandledUpTo(y.m2p, n) /\ Announced(y.m2p)
    BY <1>1, <1>2, TurnHandles, Zenon
  <1>4. Accounted(start, y) /\ y \in [m2p : Programs, freed : Seq(Packets)]
    <2>1. CASE y = r
      <3>1. r \in [m2p : Programs, freed : Seq(Packets)]
        BY <1>1
      <3>2. QED
        BY <2>1, <3>1, Zenon
    <2>2. ASSUME NEW pid, NEW x \in register_pid_processor(r.m2p, pid),
                 y = [m2p |-> x.m2p, freed |-> r.freed \o x.freed]
          PROVE  Accounted(start, y) /\ y \in [m2p : Programs, freed : Seq(Packets)]
      <3>1. CASE x = [m2p |-> r.m2p, freed |-> <<>>]
        <4>1. x.m2p = r.m2p /\ x.freed = <<>>
          BY <3>1
        <4>2. r.freed \o <<>> = r.freed
          BY <1>1
        <4>3. y = [m2p |-> r.m2p, freed |-> r.freed]
          BY <2>2, <4>1, <4>2, Zenon
        <4>4. y = r
          BY <4>3, Zenon
        <4>5. QED
          BY <2>1, <4>4, Zenon
      <3>2. ASSUME NEW i \in DOMAIN r.m2p.pids, Replaces(r.m2p, x, pid, i)
            PROVE  Accounted(start, y) /\ y \in [m2p : Programs, freed : Seq(Packets)]
        <4>1. Accounted(start, [m2p |-> r.m2p, freed |-> r.freed])
          BY Zenon
        <4>2. Accounted(start, [m2p |-> x.m2p, freed |-> r.freed \o x.freed])
          BY <3>2, <4>1, ReplacingFrees, Zenon
        <4>3. Accounted(start, y)
          BY <2>2, <4>2, Zenon
        <4>4. x.m2p \in Programs /\ r.freed \o x.freed \in Seq(Packets)
          BY <2>2, <4>3 DEF Accounted
        <4>5. QED
          BY <2>2, <4>3, <4>4
      <3>3. QED
        BY <1>1, <2>2, <3>1, <3>2, RegisterReplaces, Zenon
    <2>3. QED
      BY <2>1, <2>2, TurnOfEntry, Zenon
  <1>5. QED
    BY <1>3, <1>4

\* The entries point into the PMT in force, and handlers are for streams that get one.
Live(m2p) ==
    \A i \in DOMAIN m2p.pids :
        /\ ~Dangling(m2p, m2p.pids[i])
        /\ m2p.pids[i].handled => Handles(TypeOf[m2p.pids[i].es_info.pid])

LEMMA TurnLive ==
    ASSUME NEW r, r.m2p \in Programs, Announced(r.m2p), Live(r.m2p),
           NEW n \in DOMAIN r.m2p.pids, NEW y \in ProcessEntry(r, n)
    PROVE  Live(y.m2p)
  <1> DEFINE m2p == r.m2p
             pi == m2p.pids[n]
  <1>1. PidsRead(m2p, pi) = {pi.es_info.pid} /\ TypesRead(m2p, pi) = {TypeOf[pi.es_info.pid]}
    BY DEF Live, PidsRead, TypesRead
  <1>2. CASE y = r
    BY <1>2
  <1>3. ASSUME Handles(TypeOf[pi.es_info.pid]), NEW x \in register_pid_processor(m2p, pi.es_info.pid),
               y.m2p = x.m2p
        PROVE  Live(y.m2p)
    <2>1. CASE x = [m2p |-> m2p, freed |-> <<>>]
      <3>1. x.m2p = m2p
        BY <2>1
      <3>2. QED
        BY <1>3, <3>1
    <2>2. ASSUME NEW i \in DOMAIN m2p.pids, Replaces(m2p, x, pi.es_info.pid, i)
          PROVE  Live(y.m2p)
      <3>1. m2p.pids \in Seq(Entries) /\ x.m2p.pids \in Seq(Entries) /\ Len(x.m2p.pids) = Len(m2p.pids)
        BY <2>2 DEF Replaces, Programs
      <3>2. DOMAIN x.m2p.pids = DOMAIN m2p.pids
        BY <3>1
      <3>3. ASSUME NEW h \in DOMAIN m2p.pids
            PROVE  /\ ~Dangling(x.m2p, x.m2p.pids[h])
                   /\ x.m2p.pids[h].handled => Handles(TypeOf[x.m2p.pids[h].es_info.pid])
        <4>1. CASE h = i
          BY <1>3, <2>2, <4>1 DEF Replaces, Dangling
        <4>2. CASE h # i
          BY <2>2, <4>2 DEF Replaces, Dangling, Live
        <4>3. QED
          BY <4>1, <4>2
      <3>4. QED
        BY <1>3, <3>2, <3>3 DEF Live
    <2>3. QED
      BY <1>3, <2>1, <2>2, RegisterReplaces
  <1>4. \/ y = r
        \/ /\ ~\A t \in TypesRead(m2p, pi) : ~Handles(t)
           /\ \E pid \in PidsRead(m2p, pi) : \E x \in register_pid_processor(m2p, pid) :
                 y = [m2p |-> x.m2p, freed |-> r.freed \o x.freed]
    <2>1. \/ y \in IF \A t \in TypesRead(m2p, pi) : Handles(t) THEN {} ELSE {r}
          \/ \E x \in IF \A t \in TypesRead(m2p, pi) : ~Handles(t) THEN {}
                      ELSE UNION {register_pid_processor(m2p, pid) : pid \in PidsRead(m2p, pi)} :
                y = [m2p |-> x.m2p, freed |-> r.freed \o x.freed]
      BY DEF ProcessEntry
    <2>2. QED
      BY <2>1
  <1> HIDE DEF pi, m2p
  <1>5. QED
    <2>1. ASSUME ~\A t \in TypesRead(m2p, pi) : ~Handles(t), NEW pid \in PidsRead(m2p, pi),
                 NEW x \in register_pid_processor(m2p, pid),
                 y = [m2p |-> x.m2p, freed |-> r.freed \o x.freed]
          PROVE  Live(y.m2p)
      <3>1. pid = pi.es_info.pid /\ Handles(TypeOf[pi.es_info.pid])
        BY <1>1, <2>1
      <3>2. y.m2p = x.m2p
        BY <2>1
      <3>3. QED
        BY <1>3, <2>1, <3>1, <3>2
    <2>2. QED
      BY <1>2, <1>4, <2>1

\* The loop handles the streams of the PMT in force, and loses no packet.
LEMMA ProcessorResult ==
    ASSUME NEW start \in Programs, Announced(start), OnceIn(start.pids),
           \A i \in DOMAIN start.pids : start.pids[i].es_info.gen <= start.pmt.gen,
           NEW r \in pmt_processor(start)
    PROVE  /\ Accounted(start, r) /\ Announced(r.m2p) /\ HandledUpTo(r.m2p, Len(r.m2p.pids))
           /\ Live(start) => Live(r.m2p)
  <1> DEFINE N == Len(start.pids)
             Results == [m2p : Programs, freed : Seq(Packets)]
             Good == [n \in 0 .. N |-> {x \in Results : Accounted(start, x) /\ Announced(x.m2p)
                                                        /\ HandledUpTo(x.m2p, n)
                                                        /\ (Live(start) => Live(x.m2p))}]
             first == [m2p |-> start, freed |-> <<>>]
  <1>1. start.pids \in Seq(Entries)
    BY DEF Programs
  <1>2. N \in Nat /\ DOMAIN start.pids = 1 .. N
    BY <1>1
  <1>3. first \in Results /\ first.m2p = start /\ first.freed = <<>>
    OBVIOUS
  <1>4. \A n : ~Has(<<>>, n)
    BY DEF Has, PlacesIn
  <1>5. Distinct(<<>>)
    BY DEF Distinct
  <1> HIDE DEF first
  <1>6. Accounted(start, first)
    BY <1>3, <1>4, <1>5 DEF Accounted
  <1>7. HandledUpTo(start, 0)
    BY <1>2 DEF HandledUpTo
  <1>8. first \in Good[0]
    BY <1>2, <1>3, <1>6, <1>7
  <1>9. ASSUME NEW n \in 1 .. N, NEW x \in Good[n - 1], NEW y \in ProcessEntry(x, n)
        PROVE  y \in Good[n]
    <2>1. /\ x \in Results /\ Accounted(start, x) /\ Announced(x.m2p)
          /\ HandledUpTo(x.m2p, n - 1) /\ (Live(start) => Live(x.m2p))
      BY <1>2, <1>9
    <2>2. Len(x.m2p.pids) = N /\ x.m2p.pids \in Seq(Entries)
      BY <2>1 DEF Accounted, Programs
    <2>3. n \in DOMAIN x.m2p.pids
      BY <1>2, <2>2
    <2>4. x = [m2p |-> x.m2p, freed |-> x.freed]
      BY <2>1
    <2>5. /\ Accounted(start, y) /\ Announced(y.m2p) /\ HandledUpTo(y.m2p, n)
          /\ y \in Results
      BY <1>9, <2>1, <2>3, <2>4, TurnAccounts, Zenon
    <2>6. Live(start) => Live(y.m2p)
      BY <1>9, <2>1, <2>3, TurnLive
    <2>7. n \in 0 .. N
      BY <1>2
    <2>8. QED
      BY <2>5, <2>6, <2>7
  <1> HIDE DEF Good
  <1>10. [m2p |-> start, freed |-> <<>>] \in Good[0]
    BY <1>8 DEF first
  <1>11. pmt_processor(start) \subseteq Good[N]
    BY <1>2, <1>9, <1>10, ProcessorLoop
  <1>12. r \in Good[N]
    BY <1>11
  <1>13. /\ Accounted(start, r) /\ Announced(r.m2p) /\ HandledUpTo(r.m2p, N)
         /\ Live(start) => Live(r.m2p)
    BY <1>2, <1>12 DEF Good
  <1>14. Len(r.m2p.pids) = N
    BY <1>13 DEF Accounted
  <1>15. QED
    BY <1>13, <1>14, Zenon


-----------------------------------------------------------------------------
(* The invariant.                                                           *)

EntriesOK(m2p, g) ==
    /\ Announced(m2p) /\ HandledUpTo(m2p, Len(m2p.pids))
    /\ m2p.pmt.gen <= g
    /\ \A i \in DOMAIN m2p.pids : m2p.pids[i].es_info.gen <= m2p.pmt.gen
SearchOK == \A k \in DOMAIN programs : EntriesOK(programs[k], gens)

QueuesOnce ==
    /\ \A k \in DOMAIN programs : OnceIn(programs[k].pids)
    /\ \A k, l \in DOMAIN programs : \A n \in Nat :
          InQueues(programs[k].pids, n) /\ InQueues(programs[l].pids, n) => k = l

IsQueued(n) == \E k \in DOMAIN programs : InQueues(programs[k].pids, n)

\* Every packet that arrived has one owner, the others have none.
OwnerOK ==
    /\ \A n \in Nat : IsQueued(n) => n \in 1 .. count
    /\ \A n \in 1 .. MaxPackets :
          \/ n > count /\ frees[n] = 0 /\ n \notin leaked
          \/ n <= count /\ frees[n] = 1 /\ n \notin leaked /\ ~IsQueued(n)
          \/ n <= count /\ frees[n] = 0 /\ n \in leaked /\ ~IsQueued(n)
          \/ n <= count /\ frees[n] = 0 /\ n \notin leaked /\ IsQueued(n)

\* The types of what a call of the demultiplexer changes.
ReadType ==
    /\ pat \in Nat /\ cat \in Nat
    /\ programs \in Seq(Programs) /\ gens \in Nat
    /\ stopped \in BOOLEAN /\ stale \in BOOLEAN
    /\ handed \in [Streams -> Seq(Seq(Packets))]
    /\ frees \in [1 .. MaxPackets -> Nat]
    /\ count \in 0 .. MaxPackets /\ leaked \subseteq 1 .. MaxPackets
    /\ watched \subseteq Streams

ReadInv == ReadType /\ SearchOK /\ QueuesOnce /\ OwnerOK
IInv == TypeOK /\ SearchOK /\ QueuesOnce /\ OwnerOK

\* Packets that are freed once each.
LEMMA FreeOnce ==
    ASSUME ReadType, NEW packets \in Seq(Packets), Distinct(packets), Free(packets)
    PROVE  frees' = [n \in 1 .. MaxPackets |-> frees[n] + IF Has(packets, n) THEN 1 ELSE 0]
  <1>1. ASSUME NEW n PROVE Cardinality(PlacesIn(packets, n)) = IF Has(packets, n) THEN 1 ELSE 0
    <2>1. CASE ~Has(packets, n)
      <3>1. PlacesIn(packets, n) = {}
        BY <2>1 DEF Has
      <3>2. QED
        BY <2>1, <3>1, FS_EmptySet
    <2>2. CASE Has(packets, n)
      <3>1. PICK j : j \in PlacesIn(packets, n)
        BY <2>2 DEF Has
      <3>2. PlacesIn(packets, n) = {j}
        BY <3>1 DEF PlacesIn, Distinct
      <3>3. QED
        BY <2>2, <3>2, FS_Singleton
    <2>3. QED
      BY <2>1, <2>2
  <1>2. DOMAIN frees = 1 .. MaxPackets
    BY DEF ReadType
  <1>3. frees' = [n \in 1 .. MaxPackets |-> frees[n] + Cardinality(PlacesIn(packets, n))]
    BY <1>2 DEF Free
  <1>4. QED
    BY <1>1, <1>3

\* The packet that arrives is freed.
LEMMA FreeArrived ==
    ASSUME ReadType, NEW ts, Free(<<ts>>)
    PROVE  frees' = [n \in 1 .. MaxPackets |-> frees[n] + IF n \in {ts.no} THEN 1 ELSE 0]
  <1>1. ASSUME NEW n PROVE Cardinality(PlacesIn(<<ts>>, n)) = IF n \in {ts.no} THEN 1 ELSE 0
    <2>1. DOMAIN <<ts>> = {1} /\ <<ts>>[1] = ts
      OBVIOUS
    <2>2. PlacesIn(<<ts>>, n) = IF n = ts.no THEN {1} ELSE {}
      BY <2>1 DEF PlacesIn
    <2>3. QED
      BY <2>2, FS_EmptySet, FS_Singleton
  <1>2. DOMAIN frees = 1 .. MaxPackets
    BY DEF ReadType
  <1>3. frees' = [n \in 1 .. MaxPackets |-> frees[n] + Cardinality(PlacesIn(<<ts>>, n))]
    BY <1>2 DEF Free
  <1>4. QED
    BY <1>1, <1>3

\* One packet arrives; F are the packets freed, L those let go of, the others stay or
\* come to be queued.
LEMMA OwnersMove ==
    ASSUME ReadType, OwnerOK, count < MaxPackets, count' = count + 1,
           NEW F, NEW L,
           frees' = [n \in 1 .. MaxPackets |-> frees[n] + IF n \in F THEN 1 ELSE 0],
           leaked' = leaked \cup L,
           \A n \in Nat : IsQueued(n)' \/ n \in F \/ n \in L <=> IsQueued(n) \/ n = count + 1,
           \A n \in Nat : ~(n \in F /\ n \in L) /\ ~(n \in F /\ IsQueued(n)')
                          /\ ~(n \in L /\ IsQueued(n)')
    PROVE  OwnerOK' /\ frees' \in [1 .. MaxPackets -> Nat]
  <1>1. MaxPackets \in Nat /\ count \in 0 .. MaxPackets
    BY DemuxAssumption DEF ReadType
  <1>2. \A n \in 1 .. MaxPackets : frees[n] \in Nat
    BY DEF ReadType
  <1> DEFINE Q(n) == IsQueued(n)
             P(n) == IsQueued(n)'
  <1>3. \A n \in Nat : Q(n) => n \in 1 .. count
    BY DEF OwnerOK
  <1>4. ASSUME NEW n \in 1 .. MaxPackets
        PROVE  \/ n > count /\ frees[n] = 0 /\ n \notin leaked /\ ~Q(n)
               \/ n <= count /\ frees[n] = 1 /\ n \notin leaked /\ ~Q(n)
               \/ n <= count /\ frees[n] = 0 /\ n \in leaked /\ ~Q(n)
               \/ n <= count /\ frees[n] = 0 /\ n \notin leaked /\ Q(n)
    <2>1. n \in Nat /\ (n > count => ~Q(n))
      BY <1>1, <1>3
    <2>2. QED
      BY <2>1 DEF OwnerOK
  <1>5. /\ \A n \in Nat : P(n) \/ n \in F \/ n \in L <=> Q(n) \/ n = count + 1
        /\ \A n \in Nat : ~(n \in F /\ n \in L) /\ ~(n \in F /\ P(n)) /\ ~(n \in L /\ P(n))
    OBVIOUS
  <1> HIDE DEF P, Q
  <1>6. \A n \in Nat : P(n) => n \in 1 .. count + 1
    BY <1>1, <1>3, <1>5
  <1>7. ASSUME NEW n \in 1 .. MaxPackets
        PROVE  \/ n > count + 1 /\ frees'[n] = 0 /\ n \notin leaked'
               \/ n <= count + 1 /\ frees'[n] = 1 /\ n \notin leaked' /\ ~P(n)
               \/ n <= count + 1 /\ frees'[n] = 0 /\ n \in leaked' /\ ~P(n)
               \/ n <= count + 1 /\ frees'[n] = 0 /\ n \notin leaked' /\ P(n)
    <2>1. frees'[n] = frees[n] + IF n \in F THEN 1 ELSE 0
      OBVIOUS
    <2>2. n \in leaked' <=> n \in leaked \/ n \in L
      OBVIOUS
    <2>3. n \in Nat /\ frees[n] \in Nat
      BY <1>2
    <2>4. CASE n \in F
      BY <1>1, <1>4, <1>5, <2>1, <2>2, <2>3, <2>4
    <2>5. CASE n \notin F
      BY <1>1, <1>4, <1>5, <2>1, <2>2, <2>3, <2>5
    <2>6. QED
      BY <2>4, <2>5
  <1>8. frees' \in [1 .. MaxPackets -> Nat]
    BY <1>2
  <1>9. QED
    BY <1>6, <1>7, <1>8 DEF OwnerOK, P

\* One program changes.
LEMMA ProgramChanges ==
    ASSUME ReadType, QueuesOnce, NEW k \in DOMAIN programs, NEW q \in Programs,
           programs' = [programs EXCEPT ![k] = q], OnceIn(q.pids),
           \A n \in Nat : InQueues(q.pids, n) => InQueues(programs[k].pids, n) \/ ~IsQueued(n)
    PROVE  /\ programs' \in Seq(Programs) /\ QueuesOnce'
           /\ DOMAIN programs' = DOMAIN programs /\ programs'[k] = q
           /\ \A l \in DOMAIN programs : l # k => programs'[l] = programs[l]
           /\ \A n \in Nat : IsQueued(n)' <=> \/ InQueues(q.pids, n)
                                              \/ IsQueued(n) /\ ~InQueues(programs[k].pids, n)
  <1>1. programs \in Seq(Programs)
    BY DEF ReadType
  <1>2. k \in 1 .. Len(programs)
    BY <1>1
  <1>3. programs' \in Seq(Programs)
    BY <1>1, <1>2, ExceptSeq
  <1>4. /\ DOMAIN programs' = DOMAIN programs /\ programs'[k] = q
        /\ \A l \in DOMAIN programs : l # k => programs'[l] = programs[l]
    OBVIOUS
  <1>5. \A n \in Nat : IsQueued(n)' <=> \/ InQueues(q.pids, n)
                                        \/ \E l \in DOMAIN programs : l # k /\ InQueues(programs[l].pids, n)
    BY <1>4 DEF IsQueued
  <1>6. \A n \in Nat : (\E l \in DOMAIN programs : l # k /\ InQueues(programs[l].pids, n))
                          <=> IsQueued(n) /\ ~InQueues(programs[k].pids, n)
    BY DEF IsQueued, QueuesOnce
  <1>7. \A l \in DOMAIN programs' : OnceIn(programs'[l].pids)
    BY <1>4 DEF QueuesOnce
  <1>8. ASSUME NEW g \in DOMAIN programs', NEW h \in DOMAIN programs', NEW n \in Nat,
               InQueues(programs'[g].pids, n), InQueues(programs'[h].pids, n)
        PROVE  g = h
    <2>1. CASE g = k /\ h # k
      <3>1. InQueues(q.pids, n) /\ InQueues(programs[h].pids, n) /\ h \in DOMAIN programs
        BY <1>4, <1>8, <2>1
      <3>2. IsQueued(n)
        BY <3>1 DEF IsQueued
      <3>3. InQueues(programs[k].pids, n)
        BY <3>1, <3>2
      <3>4. QED
        BY <2>1, <3>1, <3>3 DEF QueuesOnce
    <2>2. CASE g # k /\ h = k
      <3>1. InQueues(q.pids, n) /\ InQueues(programs[g].pids, n) /\ g \in DOMAIN programs
        BY <1>4, <1>8, <2>2
      <3>2. IsQueued(n)
        BY <3>1 DEF IsQueued
      <3>3. InQueues(programs[k].pids, n)
        BY <3>1, <3>2
      <3>4. QED
        BY <2>2, <3>1, <3>3 DEF QueuesOnce
    <2>3. CASE g # k /\ h # k
      BY <1>4, <1>8, <2>3 DEF QueuesOnce
    <2>4. QED
      BY <2>1, <2>2, <2>3
  <1>9. QueuesOnce'
    BY <1>7, <1>8 DEF QueuesOnce
  <1>10. QED
    BY <1>3, <1>4, <1>5, <1>6, <1>9


-----------------------------------------------------------------------------
(* What a call of the demultiplexer keeps.                                  *)

Arrives(ts) == ts.no = count + 1 /\ count < MaxPackets /\ count' = count + 1

\* A packet that is freed at once; the queues stay as they are.
LEMMA FreedAtOnce ==
    ASSUME ReadInv, NEW ts, Arrives(ts), Free(<<ts>>), UNCHANGED leaked,
           \A n \in Nat : IsQueued(n)' <=> IsQueued(n)
    PROVE  OwnerOK' /\ frees' \in [1 .. MaxPackets -> Nat] /\ count' \in 0 .. MaxPackets
  <1>1. ReadType /\ OwnerOK /\ count < MaxPackets /\ count' = count + 1 /\ ts.no = count + 1
    BY DEF ReadInv, Arrives
  <1>2. MaxPackets \in Nat /\ count \in 0 .. MaxPackets
    BY <1>1, DemuxAssumption DEF ReadType
  <1> DEFINE F == {ts.no}
             L == {}
  <1>3. frees' = [n \in 1 .. MaxPackets |-> frees[n] + IF n \in F THEN 1 ELSE 0]
    BY <1>1, FreeArrived
  <1>4. \A n \in Nat : IsQueued(n) => n \in 1 .. count
    BY <1>1 DEF OwnerOK
  <1>5. /\ \A n \in Nat : IsQueued(n)' \/ n \in F \/ n \in L <=> IsQueued(n) \/ n = count + 1
        /\ \A n \in Nat : ~(n \in F /\ n \in L) /\ ~(n \in F /\ IsQueued(n)')
                          /\ ~(n \in L /\ IsQueued(n)')
    BY <1>1, <1>2, <1>4
  <1>6. leaked' = leaked \cup L
    OBVIOUS
  <1> HIDE DEF F, L
  <1>7. OwnerOK' /\ frees' \in [1 .. MaxPackets -> Nat]
    BY <1>1, <1>3, <1>5, <1>6, OwnersMove
  <1>8. QED
    BY <1>1, <1>2, <1>7

LEMMA QuietRead ==
    ASSUME ReadInv, NEW ts, Arrives(ts), Free(<<ts>>),
           UNCHANGED <<programs, gens, stopped, handed, leaked, watched>>,
           pat' \in Nat, cat' \in Nat, stale' \in BOOLEAN
    PROVE  ReadInv'
  <1>1. \A n \in Nat : IsQueued(n)' <=> IsQueued(n)
    BY DEF IsQueued
  <1>2. OwnerOK' /\ frees' \in [1 .. MaxPackets -> Nat] /\ count' \in 0 .. MaxPackets
    BY <1>1, FreedAtOnce
  <1>3. SearchOK' /\ QueuesOnce'
    BY DEF ReadInv, SearchOK, QueuesOnce
  <1>4. ReadType'
    BY <1>2 DEF ReadInv, ReadType
  <1>5. QED
    BY <1>2, <1>3, <1>4 DEF ReadInv

\* A program that is announced has no entries.
LEMMA NewProgram ==
    ASSUME NEW pid \in MapPids
    PROVE  /\ mpeg2ts_program_new(pid) \in Programs
           /\ \A g \in Nat : EntriesOK(mpeg2ts_program_new(pid), g)
           /\ OnceIn(mpeg2ts_program_new(pid).pids)
           /\ \A n : ~InQueues(mpeg2ts_program_new(pid).pids, n)
  <1> DEFINE m2p == mpeg2ts_program_new(pid)
  <1>1. /\ m2p.pids = <<>> /\ m2p.pmt.es_info = <<>> /\ m2p.pmt.gen = 0
        /\ m2p = [PID |-> pid, pmt |-> [gen |-> 0, version |-> 0, es_info |-> <<>>], pids |-> <<>>]
    BY DEF mpeg2ts_program_new, NoPmt
  <1>2. m2p \in Programs
    <2>1. <<>> \in Seq(EsInfos) /\ <<>> \in Seq(Entries)
      OBVIOUS
    <2> HIDE DEF m2p
    <2>2. QED
      BY <1>1, <2>1 DEF Programs
  <1> HIDE DEF m2p
  <1>3. DOMAIN m2p.pids = {} /\ DOMAIN m2p.pmt.es_info = {}
    BY <1>1
  <1>4. Announced(m2p)
    BY <1>3 DEF Announced
  <1>5. \A n : HandledUpTo(m2p, n)
    BY <1>3 DEF HandledUpTo
  <1>6. \A g \in Nat : EntriesOK(m2p, g)
    BY <1>1, <1>3, <1>4, <1>5 DEF EntriesOK
  <1>7. OnceIn(m2p.pids) /\ \A n : ~InQueues(m2p.pids, n)
    BY <1>3 DEF OnceIn, InQueues
  <1>8. QED
    BY <1>2, <1>6, <1>7 DEF m2p

LEMMA PatKeeps ==
    ASSUME ReadInv, NEW ts, Arrives(ts), NEW section \in Pats, ReadPat(ts, section)
    PROVE  ReadInv'
  <1>1. /\ Free(<<ts>>)
        /\ UNCHANGED <<gens, stopped, handed, leaked, watched>>
        /\ cat' = cat /\ stale' = stale
    BY DEF ReadPat
  <1>2. section.version \in Nat /\ section.programs \in Seq(MapPids)
    BY DemuxAssumption
  <1>3. ReadType /\ SearchOK /\ QueuesOnce
    BY DEF ReadInv
  <1>4. CASE UNCHANGED <<pat, programs>>
    BY <1>1, <1>3, <1>4, QuietRead DEF ReadType
  <1>5. CASE /\ pat' = section.version
             /\ programs' = programs \o [i \in DOMAIN section.programs |->
                                           mpeg2ts_program_new(section.programs[i])]
    <2> DEFINE new == [i \in DOMAIN section.programs |-> mpeg2ts_program_new(section.programs[i])]
    <2>1. /\ Len(section.programs) \in Nat /\ DOMAIN section.programs = 1 .. Len(section.programs)
          /\ \A i \in DOMAIN section.programs : section.programs[i] \in MapPids
      BY <1>2, ElementOfSeq
    <2>2. \A i \in DOMAIN section.programs :
             /\ new[i] \in Programs /\ EntriesOK(new[i], gens) /\ OnceIn(new[i].pids)
             /\ \A n : ~InQueues(new[i].pids, n)
      <3>1. gens \in Nat
        BY <1>3 DEF ReadType
      <3>2. QED
        BY <2>1, <3>1, NewProgram
    <2>3. new \in [1 .. Len(section.programs) -> Programs]
      BY <2>1, <2>2
    <2>4. new \in Seq(Programs) /\ Len(new) = Len(section.programs)
      BY <2>1, <2>3
    <2>5. programs \in Seq(Programs) /\ Len(programs) \in Nat /\ DOMAIN programs = 1 .. Len(programs)
      BY <1>3 DEF ReadType
    <2> HIDE DEF new
    <2>6. programs' = programs \o new
      BY <1>5 DEF new
    <2>7. /\ programs' \in Seq(Programs) /\ Len(programs') = Len(programs) + Len(new)
          /\ DOMAIN programs' = 1 .. Len(programs) + Len(new)
      <3>1. programs \o new \in Seq(Programs) /\ Len(programs \o new) = Len(programs) + Len(new)
        BY <2>4, <2>5, ConcatProperties
      <3>2. DOMAIN (programs \o new) = 1 .. Len(programs \o new)
        BY <3>1
      <3>3. QED
        BY <2>6, <3>1, <3>2, Zenon
    <2>8. /\ \A k \in DOMAIN programs : programs'[k] = programs[k] /\ k \in DOMAIN programs'
          /\ \A k \in DOMAIN programs' :
                k \notin DOMAIN programs => \E i \in DOMAIN section.programs : programs'[k] = new[i]
      <3>1. \A k \in 1 .. Len(programs) + Len(new) :
               programs'[k] = IF k <= Len(programs) THEN programs[k] ELSE new[k - Len(programs)]
        BY <2>4, <2>5, <2>6, ConcatProperties
      <3>2. \A k \in 1 .. Len(programs) + Len(new) :
               k \notin 1 .. Len(programs) => k - Len(programs) \in 1 .. Len(new)
        BY <2>1, <2>4, <2>5
      <3>3. ASSUME NEW k \in DOMAIN programs PROVE programs'[k] = programs[k] /\ k \in DOMAIN programs'
        BY <2>1, <2>4, <2>5, <2>7, <3>1
      <3>4. ASSUME NEW k \in DOMAIN programs', k \notin DOMAIN programs
            PROVE  \E i \in DOMAIN section.programs : programs'[k] = new[i]
        <4>1. k - Len(programs) \in DOMAIN section.programs /\ ~(k <= Len(programs))
          BY <2>1, <2>4, <2>5, <2>7, <3>2, <3>4
        <4>2. programs'[k] = new[k - Len(programs)]
          BY <2>7, <3>1, <4>1
        <4>3. QED
          BY <4>1, <4>2
      <3>5. QED
        BY <3>3, <3>4
    <2>9. \A k \in DOMAIN programs' :
             \/ k \in DOMAIN programs /\ programs'[k] = programs[k]
             \/ /\ k \notin DOMAIN programs /\ EntriesOK(programs'[k], gens) /\ OnceIn(programs'[k].pids)
                /\ \A n : ~InQueues(programs'[k].pids, n)
      BY <2>2, <2>8
    <2>10. \A n \in Nat : IsQueued(n)' <=> IsQueued(n)
      BY <2>8, <2>9 DEF IsQueued
    <2>11. OwnerOK' /\ frees' \in [1 .. MaxPackets -> Nat] /\ count' \in 0 .. MaxPackets
      BY <1>1, <2>10, FreedAtOnce
    <2>12. SearchOK'
      BY <1>1, <1>3, <2>9 DEF SearchOK
    <2>13. QueuesOnce'
      BY <1>3, <2>9 DEF QueuesOnce
    <2>14. ReadType'
      BY <1>1, <1>2, <1>3, <1>5, <2>7, <2>11 DEF ReadType
    <2>15. QED
      BY <2>11, <2>12, <2>13, <2>14 DEF ReadInv
  <1>6. QED
    BY <1>4, <1>5 DEF ReadPat


\* A new PMT: the old entries dangle, and each stream it lists has an entry.
LEMMA NewMap ==
    ASSUME NEW m2p \in Programs, NEW g \in Nat, EntriesOK(m2p, g), OnceIn(m2p.pids),
           NEW pid \in MapPids, NEW section \in Pmts[pid]
    PROVE  LET start == WithPmt(m2p, section, g + 1) IN
           /\ start \in Programs /\ Announced(start) /\ OnceIn(start.pids)
           /\ start.PID = m2p.PID /\ start.pmt.gen = g + 1
           /\ \A i \in DOMAIN start.pids : start.pids[i].es_info.gen <= start.pmt.gen
           /\ \A n \in Nat : InQueues(start.pids, n) <=> InQueues(m2p.pids, n)
  <1> DEFINE start == WithPmt(m2p, section, g + 1)
             es == ListedBy(section, g + 1)
             new == [i \in DOMAIN es |-> pid_info_new(es[i])]
             old == m2p.pids
             N == Len(section.es_info)
  <1>1. section.version \in Nat /\ section.es_info \in Seq(Streams)
    BY DemuxAssumption
  <1>2. N \in Nat /\ DOMAIN section.es_info = 1 .. N
    BY <1>1
  <1>3. \A i \in 1 .. N : section.es_info[i] \in Streams
    BY <1>1, <1>2, ElementOfSeq
  <1>4. /\ DOMAIN es = 1 .. N
        /\ \A i \in 1 .. N : es[i].gen = g + 1 /\ es[i].pid = section.es_info[i] /\ es[i] \in EsInfos
    BY <1>2, <1>3 DEF ListedBy, EsInfos
  <1>5. es \in Seq(EsInfos) /\ Len(es) = N
    <2>1. es \in [1 .. N -> EsInfos]
      BY <1>2, <1>4 DEF ListedBy
    <2>2. QED
      BY <1>2, <2>1
  <1> HIDE DEF es
  <1>6. /\ DOMAIN new = 1 .. N
        /\ \A i \in 1 .. N : new[i].es_info = es[i] /\ new[i].queue = <<>> /\ new[i] \in Entries
    BY <1>4 DEF pid_info_new, Entries
  <1>7. new \in Seq(Entries) /\ Len(new) = N
    <2>1. new \in [1 .. N -> Entries]
      BY <1>6
    <2>2. QED
      BY <1>2, <2>1
  <1> HIDE DEF new
  <1>8. old \in Seq(Entries) /\ Len(old) \in Nat /\ DOMAIN old = 1 .. Len(old)
    BY DEF Programs
  <1>9. start = [m2p EXCEPT !.pmt = [gen |-> g + 1, version |-> section.version, es_info |-> es],
                            !.pids = @ \o new]
    BY Zenon DEF WithPmt, new, es
  <1> HIDE DEF start
  <1>10. /\ start.PID = m2p.PID /\ start.pmt.gen = g + 1 /\ start.pmt.es_info = es
         /\ start.pmt = [gen |-> g + 1, version |-> section.version, es_info |-> es]
         /\ start.pids = old \o new
         /\ start = [PID |-> m2p.PID, pmt |-> start.pmt, pids |-> start.pids]
    BY <1>9 DEF Programs
  <1> DEFINE pids == start.pids
  <1> HIDE DEF old, N
  <1>11. /\ pids \in Seq(Entries) /\ Len(pids) = Len(old) + N
         /\ \A i \in 1 .. Len(old) + N : pids[i] = IF i <= Len(old) THEN old[i] ELSE new[i - Len(old)]
    <2>1. /\ old \o new \in Seq(Entries) /\ Len(old \o new) = Len(old) + Len(new)
          /\ \A i \in 1 .. Len(old) + Len(new) :
                (old \o new)[i] = IF i <= Len(old) THEN old[i] ELSE new[i - Len(old)]
      BY <1>7, <1>8, ConcatProperties, Zenon
    <2>2. pids = old \o new
      BY <1>10
    <2> HIDE DEF pids
    <2>3. QED
      BY <1>7, <2>1, <2>2
  <1>12. DOMAIN pids = 1 .. Len(old) + N
    <2> HIDE DEF pids
    <2>1. DOMAIN pids = 1 .. Len(pids)
      BY <1>11
    <2>2. QED
      BY <1>11, <2>1
  <1>13. start \in Programs
    <2>1. start.pmt \in [gen : Nat, version : Nat, es_info : Seq(EsInfos)]
      BY <1>1, <1>5, <1>10
    <2>2. m2p.PID \in MapPids
      BY DEF Programs
    <2>3. QED
      BY <1>10, <1>11, <2>1, <2>2 DEF Programs
  <1> HIDE DEF pids
  <1>14. ASSUME NEW i \in DOMAIN pids
         PROVE  \/ i \in DOMAIN old /\ pids[i] = old[i]
                \/ i - Len(old) \in 1 .. N /\ i \notin DOMAIN old /\ pids[i] = new[i - Len(old)]
    BY <1>2, <1>8, <1>11, <1>12
  <1>15. ASSUME NEW i \in 1 .. N PROVE Len(old) + i \in DOMAIN pids /\ pids[Len(old) + i] = new[i]
    <2>1. Len(old) + i \in 1 .. Len(old) + N /\ ~(Len(old) + i <= Len(old)) /\ (Len(old) + i) - Len(old) = i
      BY <1>2, <1>8
    <2>2. QED
      BY <1>11, <1>12, <2>1
  <1>16. /\ \A i \in DOMAIN old : i \in DOMAIN pids /\ pids[i] = old[i]
    BY <1>2, <1>8, <1>11, <1>12
  <1>17. \A i \in DOMAIN old : old[i].es_info.gen < g + 1
    <2>1. m2p.pmt.gen <= g /\ m2p.pmt.gen \in Nat
      BY DEF EntriesOK, Programs
    <2>2. ASSUME NEW i \in DOMAIN old PROVE old[i].es_info.gen <= m2p.pmt.gen /\ old[i].es_info.gen \in Nat
      <3>1. old[i] \in Entries
        BY <1>8, ElementOfSeq
      <3>2. QED
        BY <3>1 DEF EntriesOK, Entries, EsInfos, old
    <2>3. QED
      BY <2>1, <2>2
  <1>18. \A i \in DOMAIN pids : pids[i].es_info.gen <= g + 1
    <2>1. ASSUME NEW i \in DOMAIN pids PROVE pids[i].es_info.gen <= g + 1
      <3>1. CASE i \in DOMAIN old /\ pids[i] = old[i]
        <4>1. old[i] \in Entries
          BY <1>8, <3>1, ElementOfSeq
        <4>2. old[i].es_info.gen \in Nat
          BY <4>1 DEF Entries, EsInfos
        <4>3. QED
          BY <1>17, <3>1, <4>2
      <3>2. CASE i - Len(old) \in 1 .. N /\ pids[i] = new[i - Len(old)]
        BY <1>4, <1>6, <3>2
      <3>3. QED
        BY <1>14, <3>1, <3>2
    <2>2. QED
      BY <2>1
  <1>19. \A i \in DOMAIN pids : ~Dangling(start, pids[i]) =>
            i - Len(old) \in 1 .. N /\ pids[i] = new[i - Len(old)]
    <2>1. \A i \in DOMAIN old : old[i].es_info.gen # g + 1
      <3>1. ASSUME NEW i \in DOMAIN old PROVE old[i].es_info.gen # g + 1
        <4>1. old[i] \in Entries
          BY <1>8, <3>1, ElementOfSeq
        <4>2. old[i].es_info.gen \in Nat
          BY <4>1 DEF Entries, EsInfos
        <4>3. QED
          BY <1>17, <4>2
      <3>2. QED
        BY <3>1
    <2>2. QED
      BY <1>10, <1>14, <2>1 DEF Dangling
  <1>20. \A i \in 1 .. N : ~Dangling(start, pids[Len(old) + i])
    BY <1>4, <1>6, <1>10, <1>15 DEF Dangling
  <1>21. Announced(start)
    <2>1. \A j \in DOMAIN start.pmt.es_info : start.pmt.es_info[j].gen = start.pmt.gen
      BY <1>4, <1>10
    <2>2. ASSUME NEW i \in DOMAIN pids, ~Dangling(start, pids[i])
          PROVE  Listed(start, pids[i].es_info.pid) # {}
      <3>1. i - Len(old) \in 1 .. N /\ pids[i].es_info = es[i - Len(old)]
        BY <1>6, <1>19, <2>2
      <3>2. i - Len(old) \in Listed(start, pids[i].es_info.pid)
        BY <1>4, <1>10, <3>1 DEF Listed
      <3>3. QED
        BY <3>2
    <2>3. ASSUME NEW j \in DOMAIN start.pmt.es_info
          PROVE  \E i \in DOMAIN pids : ~Dangling(start, pids[i])
                                        /\ pids[i].es_info.pid = start.pmt.es_info[j].pid
      <3>1. j \in 1 .. N
        BY <1>4, <1>10
      <3>2. /\ Len(old) + j \in DOMAIN pids /\ ~Dangling(start, pids[Len(old) + j])
            /\ pids[Len(old) + j].es_info = es[j]
        BY <1>6, <1>15, <1>20, <3>1
      <3>3. QED
        BY <1>10, <3>2
    <2>4. QED
      BY <2>1, <2>2, <2>3 DEF Announced, pids
  <1>22. \A i \in DOMAIN pids : i \notin DOMAIN old => DOMAIN pids[i].queue = {} /\ \A n : ~Has(pids[i].queue, n)
    BY <1>6, <1>14 DEF Has, PlacesIn
  <1>23. \A n \in Nat : InQueues(pids, n) <=> InQueues(old, n)
    BY <1>14, <1>16, <1>22 DEF InQueues
  <1>24. OnceIn(pids)
    <2>1. ASSUME NEW i \in DOMAIN pids, NEW h \in DOMAIN pids, NEW j \in DOMAIN pids[i].queue,
                 NEW l \in DOMAIN pids[h].queue, pids[i].queue[j].no = pids[h].queue[l].no
          PROVE  i = h /\ j = l
      <3>1. i \in DOMAIN old /\ h \in DOMAIN old
        BY <1>22
      <3>2. pids[i] = old[i] /\ pids[h] = old[h]
        BY <1>16, <3>1
      <3>3. OnceIn(old)
        BY DEF old
      <3>4. QED
        BY <2>1, <3>1, <3>2, <3>3 DEF OnceIn
    <2>2. QED
      BY <2>1 DEF OnceIn
  <1>25. QED
    BY <1>10, <1>13, <1>18, <1>21, <1>23, <1>24 DEF start, pids, old


\* A new PMT in force: what is freed are packets of the queues that go, and its own.
LEMMA NewMapKeeps ==
    ASSUME ReadInv, NEW ts \in Packets, Arrives(ts), ts.pid \in MapPids, NEW section \in Pmts[ts.pid],
           NEW k \in DOMAIN programs,
           NEW r \in pmt_processor(WithPmt(programs[k], section, gens + 1)),
           programs' = [programs EXCEPT ![k] = r.m2p], Free(r.freed \o <<ts>>),
           gens' = gens + 1, watched' \subseteq Streams, stale' \in BOOLEAN,
           UNCHANGED <<pat, cat, stopped, handed, leaked>>
    PROVE  ReadInv'
  <1> DEFINE m2p == programs[k]
             start == WithPmt(m2p, section, gens + 1)
             packets == r.freed \o <<ts>>
             L == {}
             F == {n \in Nat : Has(packets, n)}
  <1>1. ReadType /\ SearchOK /\ QueuesOnce /\ OwnerOK
    BY DEF ReadInv
  <1>2. ts.no = count + 1 /\ count < MaxPackets /\ count' = count + 1
    BY DEF Arrives
  <1>3. gens \in Nat /\ MaxPackets \in Nat /\ count \in 0 .. MaxPackets
    BY <1>1, DemuxAssumption DEF ReadType
  <1>4. m2p \in Programs /\ EntriesOK(m2p, gens) /\ OnceIn(m2p.pids)
    <2>1. m2p \in Programs
      BY <1>1, ElementOfSeq DEF ReadType
    <2>2. QED
      BY <1>1, <2>1 DEF SearchOK, QueuesOnce
  <1>5. /\ start \in Programs /\ Announced(start) /\ OnceIn(start.pids)
        /\ start.PID = m2p.PID /\ start.pmt.gen = gens + 1
        /\ \A i \in DOMAIN start.pids : start.pids[i].es_info.gen <= start.pmt.gen
        /\ \A n \in Nat : InQueues(start.pids, n) <=> InQueues(m2p.pids, n)
    <2> HIDE DEF m2p
    <2>1. QED
      BY <1>3, <1>4, NewMap DEF start
  <1> HIDE DEF start
  <1>6. Accounted(start, r) /\ Announced(r.m2p) /\ HandledUpTo(r.m2p, Len(r.m2p.pids))
    BY <1>5, ProcessorResult DEF start
  <1>7. /\ r.m2p \in Programs /\ r.freed \in Seq(Packets)
        /\ r.m2p.pmt.gen = gens + 1
        /\ \A i \in DOMAIN r.m2p.pids : r.m2p.pids[i].es_info.gen <= gens + 1
        /\ OnceIn(r.m2p.pids) /\ Distinct(r.freed)
        /\ \A n \in Nat : ~(Has(r.freed, n) /\ InQueues(r.m2p.pids, n))
        /\ \A n \in Nat : Has(r.freed, n) \/ InQueues(r.m2p.pids, n) <=> InQueues(m2p.pids, n)
    BY <1>5, <1>6 DEF Accounted
  <1>8. EntriesOK(r.m2p, gens + 1)
    BY <1>3, <1>6, <1>7 DEF EntriesOK
  <1>9. \A n \in Nat : InQueues(m2p.pids, n) => IsQueued(n) /\ n \in 1 .. count
    BY <1>1 DEF IsQueued, OwnerOK
  <1>10. /\ DOMAIN programs' = DOMAIN programs /\ programs'[k] = r.m2p
         /\ \A l \in DOMAIN programs : l # k => programs'[l] = programs[l]
         /\ programs' \in Seq(Programs) /\ QueuesOnce'
         /\ \A n \in Nat : IsQueued(n)' <=> InQueues(r.m2p.pids, n) \/ (IsQueued(n) /\ ~InQueues(m2p.pids, n))
    <2>1. \A n \in Nat : InQueues(r.m2p.pids, n) => InQueues(programs[k].pids, n) \/ ~IsQueued(n)
      BY <1>7
    <2>2. QED
      BY <1>1, <1>7, <2>1, ProgramChanges
  <1>11. \A n : Has(<<ts>>, n) <=> n = ts.no
    BY DEF Has, PlacesIn
  <1>12. Distinct(<<ts>>) /\ <<ts>> \in Seq(Packets)
    BY DEF Distinct
  <1>13. \A n \in Nat : Has(r.freed, n) => n \in 1 .. count
    BY <1>7, <1>9
  <1>14. \A n \in Nat : ~(Has(r.freed, n) /\ Has(<<ts>>, n))
    BY <1>2, <1>3, <1>11, <1>13
  <1>15. /\ packets \in Seq(Packets) /\ Distinct(packets)
         /\ \A n : Has(packets, n) <=> Has(r.freed, n) \/ n = ts.no
    BY <1>7, <1>11, <1>12, <1>14, ConcatPackets
  <1> HIDE DEF packets, m2p
  <1>16. frees' = [n \in 1 .. MaxPackets |-> frees[n] + IF Has(packets, n) THEN 1 ELSE 0]
    BY <1>1, <1>15, FreeOnce DEF packets
  <1>17. frees' = [n \in 1 .. MaxPackets |-> frees[n] + IF n \in F THEN 1 ELSE 0]
    <2>1. \A n \in 1 .. MaxPackets : n \in F <=> Has(packets, n)
      BY <1>3
    <2>2. QED
      BY <1>16, <2>1
  <1>18. \A n \in Nat : n \in F <=> Has(r.freed, n) \/ n = count + 1
    BY <1>2, <1>15
  <1>19. leaked' = leaked \cup L
    OBVIOUS
  <1>20. \A n \in Nat : IsQueued(n) => n \in 1 .. count
    BY <1>1 DEF OwnerOK
  <1>21. /\ \A n \in Nat : IsQueued(n)' \/ n \in F \/ n \in L <=> IsQueued(n) \/ n = count + 1
         /\ \A n \in Nat : ~(n \in F /\ n \in L) /\ ~(n \in F /\ IsQueued(n)')
                           /\ ~(n \in L /\ IsQueued(n)')
    <2>1. ASSUME NEW n \in Nat
          PROVE  IsQueued(n)' \/ n \in F <=> IsQueued(n) \/ n = count + 1
      BY <1>7, <1>9, <1>10, <1>18
    <2>2. ASSUME NEW n \in Nat, n \in F, IsQueued(n)' PROVE FALSE
      <3>1. CASE n = count + 1
        <4>1. ~IsQueued(n)
          BY <1>3, <1>20, <3>1
        <4>2. ~InQueues(m2p.pids, n)
          BY <1>9, <4>1
        <4>3. QED
          BY <1>7, <1>10, <2>2, <4>1, <4>2
      <3>2. CASE Has(r.freed, n)
        BY <1>7, <1>10, <2>2, <3>2
      <3>3. QED
        BY <1>18, <2>2, <3>1, <3>2
    <2>3. QED
      BY <2>1, <2>2
  <1> HIDE DEF F, L
  <1>22. OwnerOK' /\ frees' \in [1 .. MaxPackets -> Nat]
    BY <1>1, <1>2, <1>17, <1>19, <1>21, OwnersMove
  <1>23. SearchOK'
    <2>1. ASSUME NEW l \in DOMAIN programs PROVE EntriesOK(programs'[l], gens + 1)
      <3>1. CASE l = k
        BY <1>8, <1>10, <3>1
      <3>2. CASE l # k
        <4>1. EntriesOK(programs[l], gens) /\ programs'[l] = programs[l] /\ programs[l] \in Programs
          BY <1>1, <1>10, <3>2, ElementOfSeq DEF SearchOK, ReadType
        <4>2. programs[l].pmt.gen \in Nat
          BY <4>1 DEF Programs
        <4>3. QED
          BY <1>3, <4>1, <4>2 DEF EntriesOK
      <3>3. QED
        BY <3>1, <3>2
    <2>2. QED
      BY <1>10, <2>1 DEF SearchOK
  <1>24. ReadType'
    <2>1. count' \in 0 .. MaxPackets /\ gens' \in Nat
      BY <1>2, <1>3
    <2>2. QED
      BY <1>1, <1>10, <1>22, <2>1 DEF ReadType
  <1>25. QED
    BY <1>10, <1>22, <1>23, <1>24 DEF ReadInv

LEMMA MapKeeps ==
    ASSUME ReadInv, NEW ts \in Packets, Arrives(ts), ts.pid \in MapPids, NEW section \in Pmts[ts.pid],
           ReadPmt(ts, section)
    PROVE  ReadInv'
  <1> DEFINE k == Min(MapOf(ts.pid))
  <1>1. /\ MapOf(ts.pid) # {}
        /\ UNCHANGED <<pat, cat, stopped, handed, leaked>>
    BY DEF ReadPmt
  <1>2. ReadType /\ programs \in Seq(Programs) /\ stale \in BOOLEAN /\ watched \subseteq Streams
    BY DEF ReadInv, ReadType
  <1>3. k \in DOMAIN programs
    <2> DEFINE M == MapOf(ts.pid)
    <2>1. M \subseteq DOMAIN programs /\ M \subseteq Nat /\ M # {}
      BY <1>1, <1>2 DEF MapOf
    <2> HIDE DEF M
    <2>2. \E x \in M : \A y \in M : x <= y
      BY <2>1, HasMin
    <2>3. Min(M) \in M
      BY <2>2 DEF Min
    <2>4. QED
      BY <2>1, <2>3 DEF M
  <1>4. CASE ~InForce(programs[k].pmt.version, section)
    <2>1. /\ Free(<<ts>>) /\ UNCHANGED <<programs, gens, watched>>
          /\ stale' = (stale \/ StaleAfter(ts.pid, k))
      BY <1>4 DEF ReadPmt
    <2>2. stale' \in BOOLEAN
      BY <1>2, <2>1
    <2>3. QED
      BY <1>1, <1>2, <2>1, <2>2, QuietRead DEF ReadType
  <1>5. CASE InForce(programs[k].pmt.version, section)
    <2>1. /\ gens' = gens + 1
          /\ stale' = (stale \/ StaleAfter(ts.pid, k) \/ programs[k].pids # <<>>)
          /\ watched' = watched \cup {section.es_info[i] : i \in DOMAIN section.es_info}
      BY <1>5 DEF ReadPmt
    <2>2. PICK r \in pmt_processor(WithPmt(programs[k], section, gens + 1)) :
             programs' = [programs EXCEPT ![k] = r.m2p] /\ Free(r.freed \o <<ts>>)
      BY <1>5 DEF ReadPmt
    <2>3. stale' \in BOOLEAN
      BY <1>2, <2>1
    <2>4. watched' \subseteq Streams
      <3>1. section.es_info \in Seq(Streams)
        BY DemuxAssumption
      <3>2. \A i \in DOMAIN section.es_info : section.es_info[i] \in Streams
        BY <3>1, ElementOfSeq
      <3>3. QED
        BY <1>2, <2>1, <3>2
    <2> HIDE DEF k
    <2>5. QED
      BY <1>1, <1>3, <2>1, <2>2, <2>3, <2>4, NewMapKeeps
  <1>6. QED
    BY <1>4, <1>5


\* A queue changes: the other entries and what a search finds stay.
LEMMA QueueChanges ==
    ASSUME NEW m2p \in Programs, NEW g, EntriesOK(m2p, g), OnceIn(m2p.pids),
           NEW i \in DOMAIN m2p.pids, NEW new \in Seq(Packets), Distinct(new),
           \A n \in Nat : Has(new, n) => Has(m2p.pids[i].queue, n) \/ ~InQueues(m2p.pids, n)
    PROVE  LET q == [m2p EXCEPT !.pids[i].queue = new] IN
           /\ q \in Programs /\ EntriesOK(q, g) /\ OnceIn(q.pids)
           /\ DOMAIN q.pids = DOMAIN m2p.pids /\ q.pids[i].queue = new
           /\ \A h \in DOMAIN m2p.pids : h # i => q.pids[h] = m2p.pids[h]
           /\ q.PID = m2p.PID /\ q.pmt = m2p.pmt
           /\ q.pids[i].es_info = m2p.pids[i].es_info /\ q.pids[i].handled = m2p.pids[i].handled
           /\ \A n \in Nat : InQueues(q.pids, n) <=> \/ Has(new, n)
                                                     \/ InQueues(m2p.pids, n) /\ ~Has(m2p.pids[i].queue, n)
  <1> DEFINE q == [m2p EXCEPT !.pids[i].queue = new]
             old == m2p.pids
             pi == [old[i] EXCEPT !.queue = new]
  <1>1. old \in Seq(Entries)
    BY DEF Programs
  <1>2. DOMAIN old = 1 .. Len(old) /\ i \in 1 .. Len(old)
    BY <1>1
  <1>3. \A h \in DOMAIN old : old[h] \in Entries
    BY <1>1, <1>2, ElementOfSeq
  <1>4. /\ pi \in Entries /\ pi.queue = new /\ pi.es_info = old[i].es_info /\ pi.handled = old[i].handled
    BY <1>2, <1>3 DEF Entries
  <1>5. q = [m2p EXCEPT !.pids = [old EXCEPT ![i] = pi]]
    BY <1>2 DEF Programs
  <1> HIDE DEF q, pi
  <1>6. /\ q.pids = [old EXCEPT ![i] = pi] /\ q.PID = m2p.PID /\ q.pmt = m2p.pmt
        /\ q = [PID |-> m2p.PID, pmt |-> m2p.pmt, pids |-> q.pids]
    BY <1>5 DEF Programs
  <1>7. [old EXCEPT ![i] = pi] \in Seq(Entries) /\ Len([old EXCEPT ![i] = pi]) = Len(old)
    BY <1>1, <1>2, <1>4, ExceptSeq
  <1>8. q \in Programs /\ Len(q.pids) = Len(old)
    BY <1>6, <1>7 DEF Programs
  <1>9. /\ DOMAIN q.pids = DOMAIN old /\ q.pids[i] = pi
        /\ \A h \in DOMAIN old : h # i => q.pids[h] = old[h]
    BY <1>6
  <1>10. \A h \in DOMAIN old : q.pids[h].es_info = old[h].es_info /\ q.pids[h].handled = old[h].handled
    BY <1>4, <1>9
  <1>11. \A h \in DOMAIN old : Dangling(q, q.pids[h]) = Dangling(m2p, old[h])
    BY <1>6, <1>10 DEF Dangling
  <1>12. \A p : Listed(q, p) = Listed(m2p, p)
    BY <1>6 DEF Listed
  <1>13. Announced(q)
    <2>1. Announced(m2p)
      BY DEF EntriesOK
    <2>2. \A j \in DOMAIN q.pmt.es_info : q.pmt.es_info[j].gen = q.pmt.gen
      BY <1>6, <2>1 DEF Announced
    <2>3. \A h \in DOMAIN q.pids : ~Dangling(q, q.pids[h]) => Listed(q, q.pids[h].es_info.pid) # {}
      BY <1>9, <1>10, <1>11, <1>12, <2>1 DEF Announced
    <2>4. ASSUME NEW j \in DOMAIN q.pmt.es_info
          PROVE  \E h \in DOMAIN q.pids : ~Dangling(q, q.pids[h])
                                          /\ q.pids[h].es_info.pid = q.pmt.es_info[j].pid
      <3>1. PICK h \in DOMAIN old : ~Dangling(m2p, old[h]) /\ old[h].es_info.pid = m2p.pmt.es_info[j].pid
        BY <1>6, <2>1 DEF Announced
      <3>2. QED
        BY <1>6, <1>9, <1>10, <1>11, <3>1
    <2>5. QED
      BY <2>2, <2>3, <2>4 DEF Announced
  <1>14. HandledUpTo(q, Len(q.pids))
    <2>1. HandledUpTo(m2p, Len(old))
      BY DEF EntriesOK
    <2>2. \A h \in DOMAIN old : IsFirst(q, h) => IsFirst(m2p, h)
      BY <1>9, <1>10, <1>11 DEF IsFirst
    <2>3. QED
      BY <1>8, <1>9, <1>10, <2>1, <2>2 DEF HandledUpTo
  <1>15. EntriesOK(q, g)
    BY <1>6, <1>9, <1>10, <1>13, <1>14 DEF EntriesOK
  <1>16. OnceIn(q.pids)
    <2>1. ASSUME NEW e \in DOMAIN old, NEW h \in DOMAIN old, NEW j \in DOMAIN q.pids[e].queue,
                 NEW l \in DOMAIN q.pids[h].queue, q.pids[e].queue[j].no = q.pids[h].queue[l].no
          PROVE  e = h /\ j = l
      <3>1. \A f \in DOMAIN old : \A x \in DOMAIN new, y \in DOMAIN old[f].queue :
               f # i => new[x].no # old[f].queue[y].no
        <4>1. ASSUME NEW f \in DOMAIN old, NEW x \in DOMAIN new, NEW y \in DOMAIN old[f].queue, f # i,
                     new[x].no = old[f].queue[y].no
              PROVE  FALSE
          <5>1. new[x].no \in Nat
            <6>1. new[x] \in Packets
              BY ElementOfSeq
            <6>2. QED
              BY <6>1 DEF Packets
          <5>2. Has(new, new[x].no) /\ InQueues(old, new[x].no)
            BY <4>1 DEF Has, PlacesIn, InQueues
          <5>3. Has(old[i].queue, new[x].no)
            BY <5>1, <5>2
          <5>4. PICK z \in DOMAIN old[i].queue : old[i].queue[z].no = new[x].no
            BY <5>3 DEF Has, PlacesIn
          <5>5. QED
            BY <4>1, <5>4 DEF OnceIn
        <4>2. QED
          BY <4>1
      <3>2. CASE e = i /\ h = i
        BY <1>4, <1>9, <2>1, <3>2 DEF Distinct
      <3>3. CASE e = i /\ h # i
        BY <1>4, <1>9, <2>1, <3>1, <3>3
      <3>4. CASE e # i /\ h = i
        BY <1>4, <1>9, <2>1, <3>1, <3>4
      <3>5. CASE e # i /\ h # i
        BY <1>9, <2>1, <3>5 DEF OnceIn
      <3>6. QED
        BY <3>2, <3>3, <3>4, <3>5
    <2>2. QED
      BY <1>9, <2>1 DEF OnceIn
  <1>17. \A n \in Nat : InQueues(q.pids, n) <=> \/ Has(new, n)
                                                \/ InQueues(old, n) /\ ~Has(old[i].queue, n)
    <2>1. \A n : InQueues(q.pids, n) <=> Has(new, n) \/ \E h \in DOMAIN old : h # i /\ Has(old[h].queue, n)
      BY <1>4, <1>9 DEF InQueues
    <2>2. \A n : Has(old[i].queue, n) => ~\E h \in DOMAIN old : h # i /\ Has(old[h].queue, n)
      BY DEF Has, PlacesIn, OnceIn
    <2>3. \A n : InQueues(old, n) <=> \/ Has(old[i].queue, n)
                                      \/ \E h \in DOMAIN old : h # i /\ Has(old[h].queue, n)
      BY DEF InQueues
    <2>4. QED
      BY <2>1, <2>2, <2>3
  <1>18. QED
    BY <1>4, <1>6, <1>8, <1>9, <1>10, <1>15, <1>16, <1>17 DEF q


\* The collector: the queue is freed for the packet, or the packet joins it.
LEMMA CollectorKeeps ==
    ASSUME ReadInv, NEW ts \in Packets, Arrives(ts),
           NEW k \in DOMAIN programs, NEW i \in DOMAIN programs[k].pids, NEW pid, NEW type,
           pes_demux_process_ts_packet(ts, k, i, pid, type),
           stale' \in BOOLEAN, UNCHANGED <<pat, cat, gens, stopped, watched, leaked>>
    PROVE  ReadInv'
  <1> DEFINE m2p == programs[k]
             queue == m2p.pids[i].queue
             new == IF ts.start THEN <<ts>> ELSE Append(queue, ts)
             q == [m2p EXCEPT !.pids[i].queue = new]
             F == {n \in Nat : ts.start /\ Has(queue, n)}
             L == {}
  <1>1. ReadType /\ SearchOK /\ QueuesOnce /\ OwnerOK
    BY DEF ReadInv
  <1>2. ts.no = count + 1 /\ count < MaxPackets /\ count' = count + 1
    BY DEF Arrives
  <1>3. gens \in Nat /\ MaxPackets \in Nat /\ count \in 0 .. MaxPackets
    BY <1>1, DemuxAssumption DEF ReadType
  <1>4. m2p \in Programs /\ EntriesOK(m2p, gens) /\ OnceIn(m2p.pids)
    <2>1. m2p \in Programs
      BY <1>1, ElementOfSeq DEF ReadType
    <2>2. QED
      BY <1>1, <2>1 DEF SearchOK, QueuesOnce
  <1>5. queue \in Seq(Packets) /\ Len(queue) \in Nat /\ DOMAIN queue = 1 .. Len(queue)
    <2>1. m2p.pids[i] \in Entries
      <3>1. m2p.pids \in Seq(Entries)
        BY <1>4 DEF Programs
      <3>2. QED
        BY <3>1, ElementOfSeq
    <2>2. QED
      BY <2>1 DEF Entries
  <1>6. \A n \in Nat : IsQueued(n) => n \in 1 .. count
    BY <1>1 DEF OwnerOK
  <1>7. \A n \in Nat : InQueues(m2p.pids, n) => IsQueued(n)
    BY DEF IsQueued
  <1>8. \A n : Has(queue, n) => InQueues(m2p.pids, n)
    BY DEF InQueues
  <1>9. Distinct(queue)
    BY <1>4 DEF Distinct, OnceIn
  <1>10. ~Has(queue, ts.no) /\ ~InQueues(m2p.pids, ts.no) /\ ts.no \in Nat
    BY <1>2, <1>3, <1>6, <1>7, <1>8
  <1>11. /\ new \in Seq(Packets) /\ Distinct(new)
         /\ \A n : Has(new, n) <=> n = ts.no \/ (~ts.start /\ Has(queue, n))
    <2>1. /\ <<ts>> \in Seq(Packets) /\ Distinct(<<ts>>)
          /\ \A n : Has(<<ts>>, n) <=> n = ts.no
      BY DEF Has, PlacesIn, Distinct
    <2>2. Append(queue, ts) = queue \o <<ts>>
      BY <1>5
    <2> HIDE DEF queue
    <2>3. /\ queue \o <<ts>> \in Seq(Packets) /\ Distinct(queue \o <<ts>>)
          /\ \A n : Has(queue \o <<ts>>, n) <=> Has(queue, n) \/ n = ts.no
      <3>1. \A n \in Nat : ~(Has(queue, n) /\ Has(<<ts>>, n))
        BY <1>10, <2>1
      <3>2. QED
        BY <1>5, <1>9, <2>1, <3>1, ConcatPackets
    <2>4. QED
      BY <2>1, <2>2, <2>3
  <1>12. programs' = [programs EXCEPT ![k] = q]
    BY DEF pes_demux_process_ts_packet
  <1>13. handed' \in [Streams -> Seq(Seq(Packets))]
    <2>1. Closes(queue, type) \in Seq(Seq(Packets))
      BY <1>5 DEF Closes
    <2>2. handed' = handed \/ handed' = [handed EXCEPT ![pid] = @ \o Closes(queue, type)]
      BY DEF pes_demux_process_ts_packet
    <2>3. handed \in [Streams -> Seq(Seq(Packets))]
      BY <1>1 DEF ReadType
    <2> DEFINE c == Closes(queue, type)
    <2>4. c \in Seq(Seq(Packets)) /\ (handed' = [handed EXCEPT ![pid] = @ \o c] \/ handed' = handed)
      BY <2>1, <2>2
    <2> HIDE DEF c
    <2>5. ASSUME NEW p \in Streams
          PROVE  handed[p] \o c \in Seq(Seq(Packets))
      BY <2>1, <2>3, ConcatProperties DEF c
    <2>6. CASE pid \in Streams /\ handed' = [handed EXCEPT ![pid] = @ \o c]
      BY <2>3, <2>5, <2>6
    <2>7. CASE pid \notin Streams /\ handed' = [handed EXCEPT ![pid] = @ \o c]
      BY <2>3, <2>7
    <2>8. QED
      BY <2>3, <2>4, <2>6, <2>7
  <1>14. frees' = [n \in 1 .. MaxPackets |-> frees[n] + IF n \in F THEN 1 ELSE 0]
    <2>1. CASE ts.start
      <3>1. frees' = [n \in 1 .. MaxPackets |-> frees[n] + IF Has(queue, n) THEN 1 ELSE 0]
        BY <1>1, <1>5, <1>9, <2>1, FreeOnce DEF pes_demux_process_ts_packet
      <3>2. \A n \in 1 .. MaxPackets : n \in F <=> Has(queue, n)
        BY <1>3, <2>1
      <3>3. QED
        BY <3>1, <3>2
    <2>2. CASE ~ts.start
      <3>1. frees' = frees /\ frees \in [1 .. MaxPackets -> Nat]
        BY <1>1, <2>2 DEF pes_demux_process_ts_packet, ReadType
      <3>2. \A n \in 1 .. MaxPackets : n \notin F
        BY <2>2
      <3>3. QED
        BY <3>1, <3>2
    <2>3. QED
      BY <2>1, <2>2
  <1> HIDE DEF m2p, queue, new, q
  <1>15. /\ q \in Programs /\ EntriesOK(q, gens) /\ OnceIn(q.pids)
         /\ \A n \in Nat : InQueues(q.pids, n) <=> \/ Has(new, n)
                                                   \/ InQueues(m2p.pids, n) /\ ~Has(queue, n)
    <2>1. \A n \in Nat : Has(new, n) => Has(m2p.pids[i].queue, n) \/ ~InQueues(m2p.pids, n)
      BY <1>10, <1>11 DEF queue
    <2>2. i \in DOMAIN m2p.pids
      BY DEF m2p
    <2>3. QED
      BY <1>4, <1>11, <2>1, <2>2, QueueChanges DEF q, queue
  <1>16. \A n \in Nat : InQueues(q.pids, n) => InQueues(programs[k].pids, n) \/ ~IsQueued(n)
    BY <1>2, <1>3, <1>6, <1>8, <1>11, <1>15 DEF m2p
  <1>17. /\ DOMAIN programs' = DOMAIN programs /\ programs'[k] = q
         /\ \A l \in DOMAIN programs : l # k => programs'[l] = programs[l]
         /\ programs' \in Seq(Programs) /\ QueuesOnce'
         /\ \A n \in Nat : IsQueued(n)' <=> InQueues(q.pids, n) \/ (IsQueued(n) /\ ~InQueues(m2p.pids, n))
    BY <1>1, <1>12, <1>15, <1>16, ProgramChanges DEF m2p
  <1>18. leaked' = leaked \cup L
    OBVIOUS
  <1>19. \A n \in Nat : n \in F <=> ts.start /\ Has(queue, n)
    OBVIOUS
  <1>20. \A n \in Nat : n \notin L
    OBVIOUS
  <1> HIDE DEF F, L
  <1>21. /\ \A n \in Nat : IsQueued(n)' \/ n \in F \/ n \in L <=> IsQueued(n) \/ n = count + 1
         /\ \A n \in Nat : ~(n \in F /\ n \in L) /\ ~(n \in F /\ IsQueued(n)')
                           /\ ~(n \in L /\ IsQueued(n)')
    <2>1. ASSUME NEW n \in Nat
          PROVE  /\ IsQueued(n)' \/ n \in F <=> IsQueued(n) \/ n = count + 1
                 /\ ~(n \in F /\ IsQueued(n)')
      BY <1>2, <1>7, <1>8, <1>10, <1>11, <1>15, <1>17, <1>19
    <2>2. QED
      BY <1>20, <2>1
  <1>22. OwnerOK' /\ frees' \in [1 .. MaxPackets -> Nat]
    BY <1>1, <1>2, <1>14, <1>18, <1>21, OwnersMove
  <1>23. SearchOK'
    BY <1>1, <1>15, <1>17 DEF SearchOK
  <1>24. ReadType'
    <2>1. count' \in 0 .. MaxPackets
      BY <1>2, <1>3
    <2>2. QED
      BY <1>1, <1>13, <1>17, <1>22, <2>1 DEF ReadType
  <1>25. QED
    BY <1>17, <1>22, <1>23, <1>24 DEF ReadInv

\* A packet the validator takes is let go of.
LEMMA RefusedKeeps ==
    ASSUME ReadInv, NEW ts, Arrives(ts), leaked' = leaked \cup {ts.no},
           stale' \in BOOLEAN,
           UNCHANGED <<pat, cat, programs, gens, stopped, handed, frees, watched>>
    PROVE  ReadInv'
  <1> DEFINE F == {}
             L == {ts.no}
  <1>1. ReadType /\ SearchOK /\ QueuesOnce /\ OwnerOK
    BY DEF ReadInv
  <1>2. ts.no = count + 1 /\ count < MaxPackets /\ count' = count + 1
    BY DEF Arrives
  <1>3. MaxPackets \in Nat /\ count \in 0 .. MaxPackets
    BY <1>1, DemuxAssumption DEF ReadType
  <1>4. \A n \in Nat : (IsQueued(n)' <=> IsQueued(n)) /\ (IsQueued(n) => n \in 1 .. count)
    BY <1>1 DEF OwnerOK, IsQueued
  <1>5. frees' = [n \in 1 .. MaxPackets |-> frees[n] + IF n \in F THEN 1 ELSE 0]
    <2>1. frees \in [1 .. MaxPackets -> Nat]
      BY <1>1 DEF ReadType
    <2>2. QED
      BY <2>1
  <1>6. leaked' = leaked \cup L
    OBVIOUS
  <1>7. \A n \in Nat : IsQueued(n)' \/ n \in F \/ n \in L <=> IsQueued(n) \/ n = count + 1
    BY <1>2, <1>4
  <1>8. \A n \in Nat : ~(n \in F /\ n \in L) /\ ~(n \in F /\ IsQueued(n)')
                       /\ ~(n \in L /\ IsQueued(n)')
    BY <1>2, <1>3, <1>4
  <1>9. leaked' \subseteq 1 .. MaxPackets /\ count' \in 0 .. MaxPackets
    BY <1>1, <1>2, <1>3 DEF ReadType
  <1> HIDE DEF F, L
  <1>10. OwnerOK' /\ frees' \in [1 .. MaxPackets -> Nat]
    BY <1>1, <1>2, <1>5, <1>6, <1>7, <1>8, OwnersMove
  <1>11. SearchOK' /\ QueuesOnce'
    BY <1>1 DEF SearchOK, QueuesOnce
  <1>12. ReadType'
    BY <1>1, <1>9, <1>10 DEF ReadType
  <1>13. QED
    BY <1>10, <1>11, <1>12 DEF ReadInv

LEMMA StreamKeeps ==
    ASSUME ReadInv, NEW ts \in Packets, Arrives(ts), ReadStream(ts)
    PROVE  ReadInv'
  <1>1. PICK k \in Searched(ts.pid) : \E i \in get_pid_info(programs[k], ts.pid) \ {0} :
          LET pi == programs[k].pids[i]
          IN /\ Passes(ts.pid, k)
             /\ stale' = (stale \/ StaleAfter(ts.pid, k) \/ ReadsFreed(programs[k], i))
             /\ \E type \in TypesRead(programs[k], pi) :
                  IF ~pi.handled
                  THEN Free(<<ts>>) /\ UNCHANGED <<programs, handed, leaked>>
                  ELSE IF Refuses(type)
                  THEN leaked' = leaked \cup {ts.no} /\ UNCHANGED <<programs, handed, frees>>
                  ELSE /\ \E pid \in IF Dangling(programs[k], pi)
                                     THEN PidsRead(programs[k], pi) ELSE {ts.pid} :
                             pes_demux_process_ts_packet(ts, k, i, pid, type)
                       /\ UNCHANGED leaked
             /\ UNCHANGED <<pat, cat, gens, stopped, watched>>
    BY Zenon DEF ReadStream
  <1>2. PICK i \in get_pid_info(programs[k], ts.pid) \ {0} :
             /\ stale' = (stale \/ StaleAfter(ts.pid, k) \/ ReadsFreed(programs[k], i))
             /\ \E type \in TypesRead(programs[k], programs[k].pids[i]) :
                  IF ~programs[k].pids[i].handled
                  THEN Free(<<ts>>) /\ UNCHANGED <<programs, handed, leaked>>
                  ELSE IF Refuses(type)
                  THEN leaked' = leaked \cup {ts.no} /\ UNCHANGED <<programs, handed, frees>>
                  ELSE /\ \E pid \in IF Dangling(programs[k], programs[k].pids[i])
                                     THEN PidsRead(programs[k], programs[k].pids[i]) ELSE {ts.pid} :
                             pes_demux_process_ts_packet(ts, k, i, pid, type)
                       /\ UNCHANGED leaked
             /\ UNCHANGED <<pat, cat, gens, stopped, watched>>
    BY <1>1, Zenon
  <1>3. ReadType /\ pat \in Nat /\ cat \in Nat /\ stale \in BOOLEAN
    BY DEF ReadInv, ReadType
  <1>4. pat' \in Nat /\ cat' \in Nat /\ stale' \in BOOLEAN
    BY <1>2, <1>3
  <1>5. k \in DOMAIN programs
    BY DEF Searched
  <1>6. i \in DOMAIN programs[k].pids
    <2>1. programs[k] \in Programs
      BY <1>3, <1>5, ElementOfSeq DEF ReadType
    <2>2. programs[k].pids \in Seq(Entries)
      BY <2>1 DEF Programs
    <2>3. i \in 1 .. Len(programs[k].pids)
      BY DEF get_pid_info
    <2>4. QED
      BY <2>2, <2>3
  <1>7. CASE Free(<<ts>>) /\ UNCHANGED <<programs, handed, leaked>>
    BY <1>2, <1>4, <1>7, QuietRead
  <1>8. CASE leaked' = leaked \cup {ts.no} /\ UNCHANGED <<programs, handed, frees>>
    BY <1>2, <1>4, <1>8, RefusedKeeps
  <1>9. ASSUME NEW pid, NEW type, pes_demux_process_ts_packet(ts, k, i, pid, type), UNCHANGED leaked
        PROVE  ReadInv'
    BY <1>2, <1>4, <1>5, <1>6, <1>9, CollectorKeeps
  <1>10. QED
    BY <1>2, <1>7, <1>8, <1>9, Zenon

-----------------------------------------------------------------------------
(***************************************************************************)
(* Every step of the system keeps the invariant.                           *)
(***************************************************************************)

\* The packets the demultiplexer is given.
LEMMA PacketArrives ==
    ASSUME TypeOK, Arrive, NEW pid
    PROVE  /\ Arrives(Packet(pid))
           /\ pid \in MapPids => Packet(pid) \in Packets
  <1>1. count \in Nat /\ count + 1 \in Nat
    BY DemuxAssumption DEF TypeOK
  <1>2. QED
    BY <1>1 DEF Arrive, Arrives, Packet, Packets

\* The parts of the type invariant that reading a packet may change, and the rest.
LEMMA InvIsReadInv ==
    IInv <=> ReadInv /\ side \in Sides /\ sent \in [Streams -> Nat] /\ seen \in [Streams -> Seq(Packets)]
  BY DEF IInv, ReadInv, TypeOK, ReadType

LEMMA TablesKeep ==
    ASSUME IInv, ArrivePat \/ ArriveCat \/ ArrivePart
    PROVE  IInv'
  <1>1. ReadInv /\ TypeOK /\ pat \in Nat /\ cat \in Nat /\ stale \in BOOLEAN
    BY InvIsReadInv DEF IInv, TypeOK
  <1>2. ReadInv'
    <2>1. CASE ArrivePat
      <3>1. PICK section \in Pats : ReadPat(Packet(PatPid), section)
        BY <2>1 DEF ArrivePat
      <3>2. Arrives(Packet(PatPid))
        BY <1>1, <2>1, PacketArrives DEF ArrivePat
      <3>3. QED
        BY <1>1, <3>1, <3>2, PatKeeps
    <2>2. CASE ArriveCat
      <3>1. PICK section \in Cats : ReadCat(Packet(CatPid), section)
        BY <2>2 DEF ArriveCat
      <3>2. Arrives(Packet(CatPid))
        BY <1>1, <2>2, PacketArrives DEF ArriveCat
      <3>3. section.version \in Nat
        BY DemuxAssumption
      <3>4. QED
        BY <1>1, <3>1, <3>2, <3>3, QuietRead DEF ReadCat
    <2>3. CASE ArrivePart
      <3>1. PICK pid \in {PatPid, NullPid} : Discard(Packet(pid))
        BY <2>3 DEF ArrivePart
      <3>2. Arrives(Packet(pid))
        BY <1>1, <2>3, PacketArrives DEF ArrivePart
      <3>3. QED
        BY <1>1, <3>1, <3>2, QuietRead DEF Discard
    <2>4. QED
      BY <2>1, <2>2, <2>3
  <1>3. UNCHANGED <<side, sent, seen>>
    BY DEF ArrivePat, ArriveCat, ArrivePart, Arrive, network, ReadPat, ReadCat, Discard
  <1>4. QED
    BY <1>2, <1>3 DEF IInv, TypeOK, ReadInv, ReadType

LEMMA ArriveMapKeeps ==
    ASSUME IInv, ArriveMap
    PROVE  IInv'
  <1>1. ReadInv /\ TypeOK /\ pat \in Nat /\ cat \in Nat /\ stale \in BOOLEAN
    BY InvIsReadInv DEF IInv, TypeOK
  <1>2. PICK pid \in MapPids : \E section \in Pmts[pid] :
                   LET ts == Packet(pid)
                   IN IF pat = 0 THEN Discard(ts)
                      ELSE /\ \/ ReadPmt(ts, section)
                              \/ ReadStream(ts)
                              \/ ReadUnknown(ts)
                           /\ UNCHANGED seen
    BY DEF ArriveMap
  <1>3. PICK section \in Pmts[pid] :
                   IF pat = 0 THEN Discard(Packet(pid))
                      ELSE /\ \/ ReadPmt(Packet(pid), section)
                              \/ ReadStream(Packet(pid))
                              \/ ReadUnknown(Packet(pid))
                           /\ UNCHANGED seen
    BY <1>2
  <1>4. Arrives(Packet(pid)) /\ Packet(pid) \in Packets
    BY <1>1, PacketArrives DEF ArriveMap
  <1>5. ReadInv'
    <2>1. CASE Discard(Packet(pid))
      BY <1>1, <1>4, <2>1, QuietRead DEF Discard
    <2>2. CASE ReadPmt(Packet(pid), section)
      <3>1. Packet(pid).pid = pid
        BY DEF Packet
      <3>2. QED
        BY <1>1, <1>4, <2>2, <3>1, MapKeeps
    <2>3. CASE ReadStream(Packet(pid))
      BY <1>1, <1>4, <2>3, StreamKeeps
    <2>4. CASE ReadUnknown(Packet(pid))
      <3>1. stale' \in BOOLEAN
        BY <1>1, <2>4 DEF ReadUnknown
      <3>2. QED
        BY <1>1, <1>4, <2>4, <3>1, QuietRead DEF ReadUnknown
    <2>5. QED
      BY <1>3, <2>1, <2>2, <2>3, <2>4
  <1>6. UNCHANGED <<side, sent, seen>>
    BY <1>3 DEF ArriveMap, Arrive, network, Discard
  <1>7. QED
    BY <1>5, <1>6 DEF IInv, TypeOK, ReadInv, ReadType

\* What a stream sends.
LEMMA SentPacket ==
    ASSUME TypeOK, NEW pid \in Streams, NEW ts \in PacketsOf(pid), count < MaxPackets
    PROVE  ts \in Packets /\ ts.no = count + 1 /\ ts.unit \in Nat /\ ts.pid = pid
  <1>1. count \in Nat /\ count + 1 \in Nat /\ sent[pid] \in Nat /\ sent[pid] + 1 \in Nat
    BY DemuxAssumption DEF TypeOK
  <1>2. QED
    BY <1>1 DEF PacketsOf, Packets

LEMMA ArriveStreamKeeps ==
    ASSUME IInv, ArriveStream
    PROVE  IInv'
  <1>1. ReadInv /\ TypeOK /\ pat \in Nat /\ cat \in Nat /\ stale \in BOOLEAN
    BY InvIsReadInv DEF IInv, TypeOK
  <1>2. PICK pid \in Streams : \E ts \in PacketsOf(pid) :
                      /\ Sends(pid, ts)
                      /\ sent' = [sent EXCEPT ![pid] = ts.unit]
                      /\ IF pat = 0 THEN Discard(ts)
                         ELSE /\ ReadStream(ts) \/ ReadUnknown(ts)
                              /\ seen' = IF pid \in watched /\ ~stale' THEN [seen EXCEPT ![pid] = Append(@, ts)] ELSE seen
    BY DEF ArriveStream
  <1>3. PICK ts \in PacketsOf(pid) :
                      /\ Sends(pid, ts)
                      /\ sent' = [sent EXCEPT ![pid] = ts.unit]
                      /\ IF pat = 0 THEN Discard(ts)
                         ELSE /\ ReadStream(ts) \/ ReadUnknown(ts)
                              /\ seen' = IF pid \in watched /\ ~stale' THEN [seen EXCEPT ![pid] = Append(@, ts)] ELSE seen
    BY <1>2
  <1>4. Arrives(ts) /\ ts \in Packets /\ ts.unit \in Nat
    BY <1>1, SentPacket DEF ArriveStream, Arrive, Arrives
  <1>5. ReadInv'
    <2>1. CASE Discard(ts)
      BY <1>1, <1>4, <2>1, QuietRead DEF Discard
    <2>2. CASE ReadStream(ts)
      BY <1>1, <1>4, <2>2, StreamKeeps
    <2>3. CASE ReadUnknown(ts)
      <3>1. stale' \in BOOLEAN
        BY <1>1, <2>3 DEF ReadUnknown
      <3>2. QED
        BY <1>1, <1>4, <2>3, <3>1, QuietRead DEF ReadUnknown
    <2>4. QED
      BY <1>3, <2>1, <2>2, <2>3
  <1>6. side' \in Sides
    BY <1>1 DEF ArriveStream, Arrive, TypeOK
  <1>7. sent' \in [Streams -> Nat]
    BY <1>1, <1>3, <1>4 DEF TypeOK
  <1>8. seen' \in [Streams -> Seq(Packets)]
    <2>1. seen \in [Streams -> Seq(Packets)]
      BY <1>1 DEF TypeOK
    <2>2. seen' = seen \/ seen' = [seen EXCEPT ![pid] = Append(@, ts)]
      BY <1>3 DEF Discard
    <2>3. Append(seen[pid], ts) \in Seq(Packets)
      BY <1>4, <2>1
    <2>4. QED
      BY <2>1, <2>2, <2>3
  <1>9. QED
    BY <1>5, <1>6, <1>7, <1>8 DEF IInv, TypeOK, ReadInv, ReadType

LEMMA LoseKeeps ==
    ASSUME IInv, Lose
    PROVE  IInv'
  <1>1. PICK pid \in Streams : \E ts \in PacketsOf(pid) : sent' = [sent EXCEPT ![pid] = ts.unit]
    BY DEF Lose
  <1>2. PICK ts \in PacketsOf(pid) : sent' = [sent EXCEPT ![pid] = ts.unit]
    BY <1>1
  <1>3. sent \in [Streams -> Nat]
    BY DEF IInv, TypeOK
  <1>4. ts.unit \in Nat
    BY <1>3 DEF PacketsOf
  <1>5. sent' \in [Streams -> Nat]
    BY <1>2, <1>3, <1>4
  <1>6. ReadInv' /\ side' \in Sides /\ seen' \in [Streams -> Seq(Packets)]
    BY DEF Lose, IInv, TypeOK, ReadInv, ReadType, SearchOK, QueuesOnce, OwnerOK, IsQueued
  <1>7. QED
    BY <1>5, <1>6 DEF IInv, TypeOK, ReadInv, ReadType

\* The number of places a packet is queued in.
LEMMA PlacesOfQueued ==
    ASSUME QueuesOnce, NEW n \in Nat
    PROVE  Cardinality(Places(n)) = IF IsQueued(n) THEN 1 ELSE 0
  <1> DEFINE queue(k, i) == programs[k].pids[i].queue
  <1>1. \A x : x \in Places(n) <=>
          \E k \in DOMAIN programs : \E i \in DOMAIN programs[k].pids : \E j \in PlacesIn(queue(k, i), n) :
              x = <<k, i, j>>
    BY DEF Places
  <1>2. CASE ~IsQueued(n)
    <2>1. Places(n) = {}
      BY <1>1, <1>2 DEF IsQueued, InQueues, Has
    <2>2. QED
      BY <1>2, <2>1, FS_EmptySet
  <1>3. CASE IsQueued(n)
    <2>1. PICK k \in DOMAIN programs : InQueues(programs[k].pids, n)
      BY <1>3 DEF IsQueued
    <2>2. PICK i \in DOMAIN programs[k].pids : Has(queue(k, i), n)
      BY <2>1 DEF InQueues
    <2>3. PICK j : j \in PlacesIn(queue(k, i), n)
      BY <2>2 DEF Has
    <2>4. ASSUME NEW l \in DOMAIN programs, NEW h \in DOMAIN programs[l].pids,
                 NEW g \in PlacesIn(queue(l, h), n)
          PROVE  l = k /\ h = i /\ g = j
      <3>1. InQueues(programs[l].pids, n)
        BY <2>4 DEF InQueues, Has
      <3>2. l = k
        BY <2>1, <3>1 DEF QueuesOnce
      <3>3. OnceIn(programs[k].pids)
        BY DEF QueuesOnce
      <3>4. /\ j \in DOMAIN queue(k, i) /\ queue(k, i)[j].no = n
            /\ g \in DOMAIN queue(k, h) /\ queue(k, h)[g].no = n
        BY <2>3, <2>4, <3>2 DEF PlacesIn
      <3>5. QED
        BY <2>4, <3>2, <3>3, <3>4 DEF OnceIn
    <2>5. Places(n) = {<<k, i, j>>}
      BY <1>1, <2>3, <2>4
    <2>6. QED
      BY <1>3, <2>5, FS_Singleton
  <1>4. QED
    BY <1>2, <1>3

\* The stream object is freed with all the queues.
LEMMA FreeingKeeps ==
    ASSUME IInv, mpeg2ts_stream_free
    PROVE  IInv'
  <1>1. TypeOK /\ QueuesOnce /\ OwnerOK /\ MaxPackets \in Nat
    BY DemuxAssumption DEF IInv
  <1>2. frees' = [n \in 1 .. MaxPackets |-> frees[n] + IF IsQueued(n) THEN 1 ELSE 0]
    <2>1. DOMAIN frees = 1 .. MaxPackets
      BY <1>1 DEF TypeOK
    <2>2. frees' = [n \in 1 .. MaxPackets |-> frees[n] + Cardinality(Places(n))]
      BY <2>1 DEF mpeg2ts_stream_free, FreeQueues
    <2>3. \A n \in 1 .. MaxPackets : Cardinality(Places(n)) = IF IsQueued(n) THEN 1 ELSE 0
      BY <1>1, PlacesOfQueued
    <2>4. QED
      BY <2>2, <2>3
  <1>3. frees \in [1 .. MaxPackets -> Nat]
    BY <1>1 DEF TypeOK
  <1>4. DOMAIN programs' = {} /\ programs' \in Seq(Programs)
    BY DEF mpeg2ts_stream_free
  <1>5. \A n : ~IsQueued(n)'
    BY <1>4 DEF IsQueued
  <1>6. OwnerOK'
    <2>1. ASSUME NEW n \in 1 .. MaxPackets
          PROVE  \/ n > count /\ frees'[n] = 0 /\ n \notin leaked
                 \/ n <= count /\ frees'[n] = 1 /\ n \notin leaked
                 \/ n <= count /\ frees'[n] = 0 /\ n \in leaked
      <3>1. frees'[n] = frees[n] + IF IsQueued(n) THEN 1 ELSE 0
        BY <1>2
      <3>2. count \in 0 .. MaxPackets /\ n \in Nat
        BY <1>1 DEF TypeOK
      <3>3. n > count => ~IsQueued(n)
        BY <1>1, <3>2 DEF OwnerOK
      <3>4. \/ n > count /\ frees[n] = 0 /\ n \notin leaked
            \/ n <= count /\ frees[n] = 1 /\ n \notin leaked /\ ~IsQueued(n)
            \/ n <= count /\ frees[n] = 0 /\ n \in leaked /\ ~IsQueued(n)
            \/ n <= count /\ frees[n] = 0 /\ n \notin leaked /\ IsQueued(n)
        BY <1>1 DEF OwnerOK
      <3>5. QED
        BY <3>1, <3>3, <3>4
    <2>2. count' = count /\ leaked' = leaked
      BY DEF mpeg2ts_stream_free
    <2>3. QED
      BY <1>5, <2>1, <2>2 DEF OwnerOK
  <1>7. frees' \in [1 .. MaxPackets -> Nat]
    BY <1>2, <1>3
  <1>8. TypeOK'
    BY <1>1, <1>4, <1>7 DEF TypeOK, mpeg2ts_stream_free, network
  <1>9. SearchOK' /\ QueuesOnce'
    BY <1>4 DEF SearchOK, QueuesOnce
  <1>10. QED
    BY <1>6, <1>8, <1>9 DEF IInv

-----------------------------------------------------------------------------
LEMMA Initially ==
    ASSUME Init
    PROVE  IInv
  <1>1. TypeOK
    <2>1. 0 \in 0 .. MaxPackets
      BY DemuxAssumption
    <2>2. /\ <<>> \in Seq(Programs) /\ <<>> \in Seq(Packets) /\ <<>> \in Seq(Seq(Packets))
      OBVIOUS
    <2>3. handed \in [Streams -> Seq(Seq(Packets))] /\ seen \in [Streams -> Seq(Packets)]
      BY <2>2 DEF Init
    <2>4. frees \in [1 .. MaxPackets -> Nat] /\ sent \in [Streams -> Nat]
      BY DEF Init
    <2>5. QED
      BY <2>1, <2>2, <2>3, <2>4 DEF Init, TypeOK
  <1>2. DOMAIN programs = {}
    BY DEF Init
  <1>3. SearchOK /\ QueuesOnce
    BY <1>2 DEF SearchOK, QueuesOnce
  <1>4. \A n : ~IsQueued(n)
    BY <1>2 DEF IsQueued
  <1>5. OwnerOK
    BY <1>4, DemuxAssumption DEF OwnerOK, Init
  <1>6. QED
    BY <1>1, <1>3, <1>5 DEF IInv

LEMMA StepKeeps ==
    ASSUME IInv, [Next]_vars
    PROVE  IInv'
  <1>1. CASE ArrivePat \/ ArriveCat \/ ArrivePart
    BY <1>1, TablesKeep
  <1>2. CASE ArriveMap
    BY <1>2, ArriveMapKeeps
  <1>3. CASE ArriveStream
    BY <1>3, ArriveStreamKeeps
  <1>4. CASE Lose
    BY <1>4, LoseKeeps
  <1>5. CASE mpeg2ts_stream_free
    BY <1>5, FreeingKeeps
  <1>6. CASE UNCHANGED vars
    BY <1>6 DEF vars, IInv, TypeOK, SearchOK, QueuesOnce, OwnerOK, IsQueued
  <1>7. QED
    BY <1>1, <1>2, <1>3, <1>4, <1>5, <1>6 DEF Next

-----------------------------------------------------------------------------
(* The units of a sequence of packets.                                      *)

\* The packets from the last start on, or all of them when there is none.
OpenUnit(S) == IF Starts(S) = {} THEN S ELSE SubSeq(S, NthStart(S, Cardinality(Starts(S))), Len(S))

\* The numbering of the starts finds one for every number.
Ranked(S) == \A j \in 1 .. Cardinality(Starts(S)) : NthStart(S, j) \in Starts(S)

Rank(S, x) == Cardinality({y \in Starts(S) : y <= x})

LEMMA StartsFinite ==
    ASSUME NEW S \in Seq(Packets)
    PROVE  /\ Len(S) \in Nat /\ DOMAIN S = 1 .. Len(S) /\ Starts(S) \subseteq 1 .. Len(S)
           /\ IsFiniteSet(Starts(S)) /\ Cardinality(Starts(S)) \in Nat
           /\ \A x : Rank(S, x) \in Nat /\ Rank(S, x) <= Cardinality(Starts(S))
  <1>1. Len(S) \in Nat /\ DOMAIN S = 1 .. Len(S) /\ Starts(S) \subseteq 1 .. Len(S)
    BY DEF Starts
  <1>2. IsFiniteSet(1 .. Len(S))
    BY <1>1, FS_Interval
  <1>3. IsFiniteSet(Starts(S))
    BY <1>1, <1>2, FS_Subset
  <1>4. ASSUME NEW x PROVE Rank(S, x) \in Nat /\ Rank(S, x) <= Cardinality(Starts(S))
    <2>1. {y \in Starts(S) : y <= x} \in SUBSET Starts(S)
      OBVIOUS
    <2>2. /\ IsFiniteSet({y \in Starts(S) : y <= x})
          /\ Cardinality({y \in Starts(S) : y <= x}) <= Cardinality(Starts(S))
      BY <1>3, <2>1, FS_Subset
    <2>3. QED
      BY <2>2, FS_CardinalityType DEF Rank
  <1>5. QED
    BY <1>1, <1>3, <1>4, FS_CardinalityType

\* A packet that starts nothing leaves the starts and their numbers.
LEMMA OtherStarts ==
    ASSUME NEW S \in Seq(Packets), NEW ts \in Packets, ~ts.start
    PROVE  /\ Starts(Append(S, ts)) = Starts(S)
           /\ \A j : NthStart(Append(S, ts), j) = NthStart(S, j)
  <1>1. Starts(Append(S, ts)) = Starts(S)
    BY AppendProperties DEF Starts
  <1>2. QED
    BY <1>1, Zenon DEF NthStart

\* A packet that starts a unit gets the next number.
LEMMA NextStart ==
    ASSUME NEW S \in Seq(Packets), NEW ts \in Packets, ts.start
    PROVE  /\ Starts(Append(S, ts)) = Starts(S) \cup {Len(S) + 1}
           /\ Cardinality(Starts(Append(S, ts))) = Cardinality(Starts(S)) + 1
           /\ \A j \in 1 .. Cardinality(Starts(S)) : NthStart(Append(S, ts), j) = NthStart(S, j)
           /\ NthStart(Append(S, ts), Cardinality(Starts(S)) + 1) = Len(S) + 1
  <1> DEFINE T == Append(S, ts)
             n == Len(S)
             c == Cardinality(Starts(S))
  <1>1. /\ n \in Nat /\ Starts(S) \subseteq 1 .. n /\ IsFiniteSet(Starts(S)) /\ c \in Nat
        /\ \A x : Rank(S, x) \in Nat /\ Rank(S, x) <= c
    BY StartsFinite
  <1>2. Starts(T) = Starts(S) \cup {n + 1}
    <2>1. DOMAIN T = 1 .. n + 1 /\ \A i \in 1 .. n : T[i] = S[i]
      BY AppendProperties
    <2>2. T[n + 1] = ts
      BY AppendProperties
    <2>3. DOMAIN S = 1 .. n
      OBVIOUS
    <2> HIDE DEF T, n
    <2>4. QED
      BY <1>1, <2>1, <2>2, <2>3 DEF Starts
  <1>3. n + 1 \notin Starts(S)
    BY <1>1
  <1>4. Cardinality(Starts(T)) = c + 1
    BY <1>1, <1>2, <1>3, FS_AddElement
  <1> HIDE DEF T, n
  <1>5. \A x \in Starts(S) : Rank(T, x) = Rank(S, x)
    <2>1. ASSUME NEW x \in Starts(S) PROVE {y \in Starts(T) : y <= x} = {y \in Starts(S) : y <= x}
      BY <1>1, <1>2
    <2>2. QED
      BY <2>1 DEF Rank
  <1>6. Rank(T, n + 1) = c + 1
    <2>1. {y \in Starts(T) : y <= n + 1} = Starts(T)
      BY <1>1, <1>2
    <2>2. QED
      BY <1>4, <2>1 DEF Rank
  <1>7. ASSUME NEW j \in 1 .. c PROVE NthStart(T, j) = NthStart(S, j)
    <2>1. \A x : x \in Starts(T) /\ Rank(T, x) = j <=> x \in Starts(S) /\ Rank(S, x) = j
      BY <1>1, <1>2, <1>5, <1>6
    <2>2. (CHOOSE x : x \in Starts(T) /\ Rank(T, x) = j) = CHOOSE x : x \in Starts(S) /\ Rank(S, x) = j
      BY <2>1
    <2>3. /\ NthStart(T, j) = CHOOSE x : x \in Starts(T) /\ Rank(T, x) = j
          /\ NthStart(S, j) = CHOOSE x : x \in Starts(S) /\ Rank(S, x) = j
      BY DEF NthStart, Rank
    <2>4. QED
      BY <2>2, <2>3
  <1>8. NthStart(T, c + 1) = n + 1
    <2>1. \A x \in Starts(T) : Rank(T, x) = c + 1 <=> x = n + 1
      BY <1>1, <1>2, <1>5, <1>6
    <2>2. n + 1 \in Starts(T)
      BY <1>2
    <2>3. NthStart(T, c + 1) = CHOOSE x \in Starts(T) : Rank(T, x) = c + 1
      BY DEF NthStart, Rank
    <2>4. QED
      BY <2>1, <2>2, <2>3
  <1>9. QED
    BY <1>2, <1>4, <1>7, <1>8 DEF T, n

\* The parts of a sequence after one more packet.
LEMMA PartKept ==
    ASSUME NEW S \in Seq(Packets), NEW ts \in Packets, NEW a \in 1 .. Len(S), NEW b \in 0 .. Len(S)
    PROVE  SubSeq(Append(S, ts), a, b) = SubSeq(S, a, b)
  <1>1. Append(S, ts) = S \o <<ts>> /\ <<ts>> \in Seq(Packets)
    OBVIOUS
  <1>2. CASE b < a
    BY <1>2, SubSeqEmpty
  <1>3. CASE ~(b < a)
    <2>1. b \in 1 .. Len(S)
      BY <1>3
    <2>2. SubSeq(S \o <<ts>>, a, b) = SubSeq(S, a, b)
      BY <1>1, <2>1, SubSeqOfConcat1
    <2>3. QED
      BY <1>1, <2>2
  <1>4. QED
    BY <1>2, <1>3

LEMMA PartGrows ==
    ASSUME NEW S \in Seq(Packets), NEW ts \in Packets, NEW a \in 1 .. Len(S)
    PROVE  SubSeq(Append(S, ts), a, Len(S) + 1) = Append(SubSeq(S, a, Len(S)), ts)
  <1> DEFINE T == Append(S, ts)
             n == Len(S)
  <1>1. T \in Seq(Packets) /\ Len(T) = n + 1 /\ T[n + 1] = ts /\ n \in Nat
    BY AppendProperties
  <1>2. SubSeq(T, a, n) = SubSeq(S, a, n)
    BY PartKept
  <1>3. SubSeq(S, a, n) \in Seq(Packets)
    <2>1. \A i \in a .. n : S[i] \in Packets
      BY ElementOfSeq
    <2>2. QED
      BY <2>1, SubSeqProperties
  <1> HIDE DEF T
  <1>4. a \in 1 .. Len(T) /\ n + 1 \in a .. Len(T)
    BY <1>1
  <1>5. SubSeq(T, a, n + 1) = SubSeq(T, a, (n + 1) - 1) \o <<T[n + 1]>>
    <2> HIDE DEF n
    <2>1. QED
      BY <1>1, <1>4, SubSeqRecursiveSecond
  <1>6. (n + 1) - 1 = n
    BY <1>1
  <1>7. SubSeq(T, a, n + 1) = SubSeq(S, a, n) \o <<ts>>
    BY <1>1, <1>2, <1>5, <1>6
  <1>8. SubSeq(S, a, n) \o <<ts>> = Append(SubSeq(S, a, n), ts)
    BY <1>3
  <1>9. QED
    BY <1>7, <1>8 DEF T

\* Where the numbered starts are.
LEMMA StartsInside ==
    ASSUME NEW S \in Seq(Packets), Ranked(S), NEW j \in 1 .. Cardinality(Starts(S))
    PROVE  NthStart(S, j) \in 1 .. Len(S) /\ S[NthStart(S, j)].start
  BY StartsFinite DEF Ranked, Starts

LEMMA OpenUnitType ==
    ASSUME NEW S \in Seq(Packets), Ranked(S)
    PROVE  /\ OpenUnit(S) \in Seq(Packets)
           /\ OpenUnit(S) # <<>> /\ Head(OpenUnit(S)).start <=> Starts(S) # {}
  <1> DEFINE c == Cardinality(Starts(S))
             a == NthStart(S, c)
  <1>1. /\ Len(S) \in Nat /\ DOMAIN S = 1 .. Len(S) /\ Starts(S) \subseteq 1 .. Len(S)
        /\ IsFiniteSet(Starts(S)) /\ c \in Nat
    BY StartsFinite
  <1>2. CASE Starts(S) = {}
    <2>1. OpenUnit(S) = S
      BY <1>2 DEF OpenUnit
    <2>2. S # <<>> => 1 \in DOMAIN S /\ Head(S) = S[1]
      BY <1>1
    <2>3. QED
      BY <1>2, <2>1, <2>2 DEF Starts
  <1>3. CASE Starts(S) # {}
    <2>1. c # 0
      BY <1>1, <1>3, FS_EmptySet
    <2>2. c \in 1 .. c
      BY <1>1, <2>1
    <2>3. a \in 1 .. Len(S) /\ S[a].start
      BY <2>2, StartsInside
    <2>4. OpenUnit(S) = SubSeq(S, a, Len(S))
      BY <1>3 DEF OpenUnit
    <2> HIDE DEF a
    <2>5. \A i \in a .. Len(S) : S[i] \in Packets
      <3>1. \A i \in 1 .. Len(S) : S[i] \in Packets
        BY ElementOfSeq
      <3>2. QED
        BY <2>3, <3>1
    <2>6. SubSeq(S, a, Len(S)) \in Seq(Packets) /\ Len(SubSeq(S, a, Len(S))) = Len(S) - a + 1
      <3>1. a \in Int /\ Len(S) \in Int /\ a <= Len(S)
        BY <1>1, <2>3
      <3>2. QED
        BY <2>5, <3>1, SubSeqProperties
    <2>7. Head(SubSeq(S, a, Len(S))) = S[a]
      <3>1. Len(S) \in a .. Len(S)
        BY <1>1, <2>3
      <3>2. QED
        BY <2>3, <3>1, HeadTailOfSubSeq
    <2>8. SubSeq(S, a, Len(S)) # <<>>
      <3> DEFINE s == SubSeq(S, a, Len(S))
      <3>1. Len(s) = Len(S) - a + 1 /\ Len(S) - a + 1 # 0
        BY <1>1, <2>3, <2>6
      <3> HIDE DEF s
      <3>2. s # <<>>
        BY <3>1
      <3>3. QED
        BY <3>2 DEF s
    <2>9. QED
      BY <1>3, <2>3, <2>4, <2>6, <2>7, <2>8
  <1>4. QED
    BY <1>2, <1>3

\* The units as a sequence.
LEMMA UnitsType ==
    ASSUME NEW S \in Seq(Packets), Ranked(S)
    PROVE  /\ Units(S) \in Seq(Seq(Packets))
           /\ Starts(S) = {} => Units(S) = <<>>
           /\ Starts(S) # {} => Len(Units(S)) = Cardinality(Starts(S)) - 1
           /\ \A j \in 1 .. Cardinality(Starts(S)) - 1 :
                 Units(S)[j] = SubSeq(S, NthStart(S, j), NthStart(S, j + 1) - 1)
  <1> DEFINE c == Cardinality(Starts(S))
             U(j) == SubSeq(S, NthStart(S, j), NthStart(S, j + 1) - 1)
  <1>1. c \in Nat /\ IsFiniteSet(Starts(S)) /\ Len(S) \in Nat
    BY StartsFinite
  <1>2. c = 0 <=> Starts(S) = {}
    BY <1>1, FS_EmptySet
  <1>3. ASSUME NEW j \in 1 .. c - 1 PROVE U(j) \in Seq(Packets)
    <2> DEFINE a == NthStart(S, j)
               b == NthStart(S, j + 1) - 1
    <2>1. j \in 1 .. c /\ j + 1 \in 1 .. c
      BY <1>1
    <2>2. a \in 1 .. Len(S) /\ b \in 0 .. Len(S)
      <3>1. NthStart(S, j) \in 1 .. Len(S) /\ NthStart(S, j + 1) \in 1 .. Len(S)
        BY <2>1, StartsInside
      <3>2. QED
        BY <1>1, <3>1
    <2> HIDE DEF a, b
    <2>3. \A i \in a .. b : S[i] \in Packets
      <3>1. \A i \in 1 .. Len(S) : S[i] \in Packets
        BY ElementOfSeq
      <3>2. QED
        BY <1>1, <2>2, <3>1
    <2>4. SubSeq(S, a, b) \in Seq(Packets)
      BY <2>2, <2>3, SubSeqProperties
    <2>5. QED
      BY <2>4 DEF a, b
  <1>4. Units(S) = [j \in 1 .. c - 1 |-> U(j)]
    BY DEF Units
  <1> HIDE DEF U, c
  <1>5. Units(S) \in [1 .. c - 1 -> Seq(Packets)]
    BY <1>3, <1>4
  <1>6. CASE Starts(S) = {}
    <2>1. 1 .. c - 1 = {}
      BY <1>2, <1>6
    <2>2. Units(S) = <<>>
      BY <1>4, <2>1
    <2>3. QED
      BY <1>6, <2>1, <2>2 DEF c
  <1>7. CASE Starts(S) # {}
    <2>1. c - 1 \in Nat
      BY <1>1, <1>2, <1>7
    <2>2. Units(S) \in Seq(Seq(Packets)) /\ Len(Units(S)) = c - 1
      BY <1>5, <2>1
    <2>3. \A j \in 1 .. c - 1 : Units(S)[j] = U(j)
      BY <1>4
    <2>4. QED
      BY <1>7, <2>2, <2>3 DEF c, U
  <1>8. QED
    BY <1>6, <1>7

\* A packet that starts a unit ends the one before.
LEMMA StartAppended ==
    ASSUME NEW S \in Seq(Packets), Ranked(S), NEW ts \in Packets, ts.start
    PROVE  /\ Ranked(Append(S, ts)) /\ OpenUnit(Append(S, ts)) = <<ts>>
           /\ Units(Append(S, ts)) =
                Units(S) \o IF Starts(S) # {} THEN <<OpenUnit(S)>> ELSE <<>>
  <1> DEFINE T == Append(S, ts)
             n == Len(S)
             c == Cardinality(Starts(S))
  <1>1. /\ n \in Nat /\ Starts(S) \subseteq 1 .. n /\ IsFiniteSet(Starts(S)) /\ c \in Nat
    BY StartsFinite
  <1>2. /\ Starts(T) = Starts(S) \cup {n + 1} /\ Cardinality(Starts(T)) = c + 1
        /\ \A j \in 1 .. c : NthStart(T, j) = NthStart(S, j)
        /\ NthStart(T, c + 1) = n + 1
    BY NextStart
  <1>3. T \in Seq(Packets) /\ Len(T) = n + 1 /\ T[n + 1] = ts
    BY AppendProperties
  <1>4. c = 0 <=> Starts(S) = {}
    BY <1>1, FS_EmptySet
  <1>5. \A j \in 1 .. c : NthStart(S, j) \in Starts(S) /\ NthStart(S, j) \in 1 .. n
    BY StartsInside DEF Ranked
  <1>6. \A a \in 1 .. n : \A b \in 0 .. n : SubSeq(T, a, b) = SubSeq(S, a, b)
    BY PartKept
  <1>7. /\ Units(S) \in Seq(Seq(Packets)) /\ OpenUnit(S) \in Seq(Packets)
        /\ Starts(S) = {} => Units(S) = <<>>
        /\ Starts(S) # {} => Len(Units(S)) = c - 1
        /\ \A j \in 1 .. c - 1 : Units(S)[j] = SubSeq(S, NthStart(S, j), NthStart(S, j + 1) - 1)
    BY UnitsType, OpenUnitType
  <1>8. Starts(S) # {} => OpenUnit(S) = SubSeq(S, NthStart(S, c), n)
    BY DEF OpenUnit
  <1> HIDE DEF T, c, n
  <1>9. Ranked(T)
    <2>1. ASSUME NEW j \in 1 .. c + 1 PROVE NthStart(T, j) \in Starts(T)
      <3>1. CASE j = c + 1
        BY <1>2, <3>1
      <3>2. CASE j # c + 1
        <4>1. j \in 1 .. c
          BY <1>1, <3>2
        <4>2. QED
          BY <1>2, <1>5, <4>1
      <3>3. QED
        BY <3>1, <3>2
    <2>2. QED
      BY <1>2, <2>1 DEF Ranked
  <1>10. OpenUnit(T) = <<ts>>
    <2>1. Starts(T) # {}
      BY <1>2
    <2>2. OpenUnit(T) = SubSeq(T, n + 1, n + 1)
      BY <1>2, <1>3, <2>1 DEF OpenUnit
    <2>3. n + 1 \in 1 .. Len(T) /\ n + 1 \in n + 1 .. Len(T)
      BY <1>1, <1>3
    <2>4. SubSeq(T, n + 1, n + 1) = <<T[n + 1]>> \o SubSeq(T, (n + 1) + 1, n + 1)
      BY <1>3, <2>3, SubSeqRecursiveFirst
    <2>5. SubSeq(T, (n + 1) + 1, n + 1) = <<>>
      BY <1>1, SubSeqEmpty
    <2>6. <<ts>> \o <<>> = <<ts>>
      OBVIOUS
    <2>7. QED
      BY <1>3, <2>2, <2>4, <2>5, <2>6
  <1>11. /\ Units(T) \in Seq(Seq(Packets)) /\ Len(Units(T)) = c
         /\ \A j \in 1 .. c : Units(T)[j] = SubSeq(T, NthStart(T, j), NthStart(T, j + 1) - 1)
    <2>1. /\ Units(T) \in Seq(Seq(Packets))
          /\ Starts(T) # {} => Len(Units(T)) = Cardinality(Starts(T)) - 1
          /\ \A j \in 1 .. Cardinality(Starts(T)) - 1 :
                 Units(T)[j] = SubSeq(T, NthStart(T, j), NthStart(T, j + 1) - 1)
      BY <1>3, <1>9, UnitsType
    <2>2. Starts(T) # {} /\ Cardinality(Starts(T)) - 1 = c
      BY <1>1, <1>2
    <2>3. QED
      BY <2>1, <2>2
  <1>12. CASE Starts(S) = {}
    <2>1. Units(T) = <<>>
      BY <1>4, <1>11, <1>12
    <2>2. QED
      BY <1>7, <1>9, <1>10, <1>12, <2>1 DEF T
  <1>13. CASE Starts(S) # {}
    <2> DEFINE V == Units(S) \o <<OpenUnit(S)>>
    <2>1. /\ V \in Seq(Seq(Packets)) /\ Len(V) = c
          /\ \A j \in 1 .. c - 1 : V[j] = Units(S)[j]
          /\ V[c] = OpenUnit(S)
      <3>1. Len(Units(S)) = c - 1 /\ c - 1 \in Nat
        BY <1>1, <1>4, <1>7, <1>13
      <3>2. V = Append(Units(S), OpenUnit(S))
        BY <1>7
      <3>3. /\ Append(Units(S), OpenUnit(S)) \in Seq(Seq(Packets))
            /\ Len(Append(Units(S), OpenUnit(S))) = Len(Units(S)) + 1
            /\ \A j \in 1 .. Len(Units(S)) : Append(Units(S), OpenUnit(S))[j] = Units(S)[j]
            /\ Append(Units(S), OpenUnit(S))[Len(Units(S)) + 1] = OpenUnit(S)
        BY <1>7, AppendProperties
      <3> HIDE DEF V
      <3>4. (c - 1) + 1 = c
        BY <1>1
      <3>5. QED
        BY <3>1, <3>2, <3>3, <3>4
    <2> HIDE DEF V
    <2>2. ASSUME NEW j \in 1 .. c PROVE Units(T)[j] = V[j]
      <3>1. CASE j = c
        <4>1. Units(T)[c] = SubSeq(T, NthStart(S, c), (n + 1) - 1)
          BY <1>2, <1>11, <3>1
        <4>2. (n + 1) - 1 = n /\ n \in 0 .. n
          BY <1>1
        <4>3. SubSeq(T, NthStart(S, c), n) = SubSeq(S, NthStart(S, c), n)
          BY <1>5, <1>6, <3>1, <4>2
        <4>4. QED
          BY <1>8, <1>13, <2>1, <3>1, <4>1, <4>2, <4>3
      <3>2. CASE j # c
        <4>1. j \in 1 .. c - 1 /\ j + 1 \in 1 .. c
          BY <1>1, <3>2
        <4>2. Units(T)[j] = SubSeq(T, NthStart(S, j), NthStart(S, j + 1) - 1)
          BY <1>2, <1>11, <4>1
        <4>3. NthStart(S, j) \in 1 .. n /\ NthStart(S, j + 1) - 1 \in 0 .. n
          <5>1. NthStart(S, j) \in 1 .. n /\ NthStart(S, j + 1) \in 1 .. n
            BY <1>5, <4>1
          <5>2. QED
            BY <1>1, <5>1
        <4>4. SubSeq(T, NthStart(S, j), NthStart(S, j + 1) - 1) = SubSeq(S, NthStart(S, j), NthStart(S, j + 1) - 1)
          BY <1>6, <4>3
        <4>5. QED
          BY <1>7, <2>1, <4>1, <4>2, <4>4
      <3>3. QED
        BY <3>1, <3>2
    <2>3. Units(T) = V
      BY <1>11, <2>1, <2>2, SeqEqual
    <2>4. QED
      BY <1>9, <1>10, <1>13, <2>3 DEF T, V
  <1>14. QED
    BY <1>12, <1>13

\* Any other packet joins the unit that is open.
LEMMA OtherAppended ==
    ASSUME NEW S \in Seq(Packets), Ranked(S), NEW ts \in Packets, ~ts.start
    PROVE  /\ Ranked(Append(S, ts)) /\ OpenUnit(Append(S, ts)) = Append(OpenUnit(S), ts)
           /\ Units(Append(S, ts)) = Units(S)
  <1> DEFINE T == Append(S, ts)
             n == Len(S)
             c == Cardinality(Starts(S))
  <1>1. n \in Nat /\ IsFiniteSet(Starts(S)) /\ c \in Nat
    BY StartsFinite
  <1>2. Starts(T) = Starts(S) /\ \A j : NthStart(T, j) = NthStart(S, j)
    BY OtherStarts
  <1>3. \A j \in 1 .. c : NthStart(S, j) \in 1 .. n
    BY StartsInside
  <1>4. \A a \in 1 .. n : \A b \in 0 .. n : SubSeq(T, a, b) = SubSeq(S, a, b)
    BY PartKept
  <1>5. \A a \in 1 .. n : SubSeq(T, a, n + 1) = Append(SubSeq(S, a, n), ts)
    BY PartGrows
  <1>6. Len(T) = n + 1
    BY AppendProperties
  <1> HIDE DEF T, n
  <1>7. Ranked(T)
    BY <1>2 DEF Ranked
  <1>8. Units(T) = Units(S)
    <2>1. ASSUME NEW j \in 1 .. c - 1
          PROVE  SubSeq(T, NthStart(T, j), NthStart(T, j + 1) - 1) = SubSeq(S, NthStart(S, j), NthStart(S, j + 1) - 1)
      <3>1. j \in 1 .. c /\ j + 1 \in 1 .. c
        BY <1>1
      <3>2. NthStart(S, j) \in 1 .. n /\ NthStart(S, j + 1) \in 1 .. n
        BY <1>3, <3>1
      <3>3. NthStart(S, j + 1) - 1 \in 0 .. n
        BY <1>1, <3>2
      <3>4. SubSeq(T, NthStart(S, j), NthStart(S, j + 1) - 1) = SubSeq(S, NthStart(S, j), NthStart(S, j + 1) - 1)
        BY <1>4, <3>2, <3>3
      <3>5. NthStart(T, j) = NthStart(S, j) /\ NthStart(T, j + 1) = NthStart(S, j + 1)
        BY <1>2
      <3>6. QED
        BY ONLY <3>4, <3>5
    <2>2. /\ Units(T) = [j \in 1 .. c - 1 |-> SubSeq(T, NthStart(T, j), NthStart(T, j + 1) - 1)]
          /\ Units(S) = [j \in 1 .. c - 1 |-> SubSeq(S, NthStart(S, j), NthStart(S, j + 1) - 1)]
      BY <1>2 DEF Units
    <2> HIDE DEF c
    <2>3. QED
      BY <2>1, <2>2
  <1>9. OpenUnit(T) = Append(OpenUnit(S), ts)
    <2>1. CASE Starts(S) = {}
      BY <1>2, <2>1 DEF OpenUnit, T
    <2>2. CASE Starts(S) # {}
      <3>1. c # 0
        BY <1>1, <2>2, FS_EmptySet
      <3>2. NthStart(S, c) \in 1 .. n
        BY <1>1, <1>3, <3>1
      <3>3. OpenUnit(T) = SubSeq(T, NthStart(S, c), n + 1) /\ OpenUnit(S) = SubSeq(S, NthStart(S, c), n)
        BY <1>2, <1>6, <2>2 DEF OpenUnit, n
      <3>4. QED
        BY <1>5, <3>2, <3>3
    <2>3. QED
      BY <2>1, <2>2
  <1>10. QED
    BY <1>7, <1>8, <1>9 DEF T

-----------------------------------------------------------------------------
(***************************************************************************)
(* What is handed on, as long as no freed description was read.            *)
(***************************************************************************)

\* The PMT in force is one that is sent at the PID of the program.
FromPmt(m2p) ==
    \A j \in DOMAIN m2p.pmt.es_info : \E s \in Pmts[m2p.PID] : \E x \in DOMAIN s.es_info :
        s.es_info[x] = m2p.pmt.es_info[j].pid

\* A program with entries is the first one announced with its PID.
FirstOfPid(k) ==
    programs[k].pids # <<>> =>
        \A l \in DOMAIN programs : l < k => programs[l].PID # programs[k].PID

ProgramsLive ==
    \A k \in DOMAIN programs : Live(programs[k]) /\ FromPmt(programs[k]) /\ FirstOfPid(k)

\* The entry a search for a stream finds.
Carries(m2p, i, pid) ==
    /\ i \in DOMAIN m2p.pids /\ m2p.pids[i].es_info.pid = pid
    /\ \A h \in DOMAIN m2p.pids : h < i => m2p.pids[h].es_info.pid # pid

\* Nobody knows the stream yet, or the queue of its entry holds the unit that is open.
Unknown(pid) ==
    /\ pid \notin watched /\ seen[pid] = <<>>
    /\ \A k \in DOMAIN programs : \A i \in DOMAIN programs[k].pids : programs[k].pids[i].es_info.pid # pid
Carried(pid) ==
    /\ pid \in watched
    /\ \E k \in DOMAIN programs : \E i \in DOMAIN programs[k].pids : Carries(programs[k], i, pid)
    /\ \A k \in DOMAIN programs : \A i \in DOMAIN programs[k].pids :
          Carries(programs[k], i, pid) => programs[k].pids[i].queue = OpenUnit(seen[pid])

Collected(pid) ==
    /\ Ranked(seen[pid])
    /\ handed[pid] = IF TypeOf[pid] = "video" THEN Units(seen[pid]) ELSE <<>>
    /\ TypeOf[pid] = "video" /\ ~stopped => Unknown(pid) \/ Carried(pid)

Hand == ProgramsLive /\ \A pid \in Streams : Collected(pid)
HandInv == ~stale => Hand

\* What the invariant says of one program.
LEMMA ProgramKnown ==
    ASSUME IInv, NEW k \in DOMAIN programs
    PROVE  /\ programs[k] \in Programs /\ EntriesOK(programs[k], gens)
           /\ Announced(programs[k]) /\ HandledUpTo(programs[k], Len(programs[k].pids))
           /\ programs[k].pids \in Seq(Entries) /\ Len(programs[k].pids) \in Nat
           /\ DOMAIN programs[k].pids = 1 .. Len(programs[k].pids)
           /\ programs[k].PID \in MapPids
  <1>1. programs[k] \in Programs
    BY ElementOfSeq DEF IInv, TypeOK
  <1>2. EntriesOK(programs[k], gens)
    BY DEF IInv, SearchOK
  <1> DEFINE m2p == programs[k]
  <1> HIDE DEF m2p
  <1>3. m2p \in Programs /\ EntriesOK(m2p, gens)
    BY <1>1, <1>2 DEF m2p
  <1>4. /\ Announced(m2p) /\ HandledUpTo(m2p, Len(m2p.pids))
        /\ m2p.pids \in Seq(Entries) /\ m2p.PID \in MapPids
    BY <1>3 DEF EntriesOK, Programs
  <1>5. Len(m2p.pids) \in Nat /\ DOMAIN m2p.pids = 1 .. Len(m2p.pids)
    BY <1>4
  <1>6. QED
    BY <1>3, <1>4, <1>5 DEF m2p

\* A search finds the first entry of the PID.
LEMMA SearchOfLive ==
    ASSUME IInv, NEW k \in DOMAIN programs, Live(programs[k]), NEW pid,
           NEW i \in get_pid_info(programs[k], pid)
    PROVE  /\ i # 0 => Carries(programs[k], i, pid)
           /\ i = 0 => \A h \in DOMAIN programs[k].pids : programs[k].pids[h].es_info.pid # pid
  <1> DEFINE m2p == programs[k]
  <1>1. Len(m2p.pids) \in Nat /\ DOMAIN m2p.pids = 1 .. Len(m2p.pids)
    BY ProgramKnown
  <1>2. \A h \in DOMAIN m2p.pids : PidsRead(m2p, m2p.pids[h]) = {m2p.pids[h].es_info.pid}
    BY DEF Live, PidsRead
  <1>3. /\ i # 0 => /\ i \in 1 .. Len(m2p.pids) /\ pid \in PidsRead(m2p, m2p.pids[i])
                    /\ \A j \in 1 .. i - 1 : PidsRead(m2p, m2p.pids[j]) # {pid}
        /\ i = 0 => \A j \in 1 .. Len(m2p.pids) : PidsRead(m2p, m2p.pids[j]) # {pid}
    BY DEF get_pid_info
  <1> HIDE DEF m2p
  <1>4. ASSUME i # 0 PROVE Carries(m2p, i, pid)
    <2>1. i \in DOMAIN m2p.pids /\ m2p.pids[i].es_info.pid = pid
      BY <1>1, <1>2, <1>3, <1>4
    <2>2. ASSUME NEW h \in DOMAIN m2p.pids, h < i PROVE m2p.pids[h].es_info.pid # pid
      <3>1. h \in 1 .. i - 1
        BY <1>1, <1>3, <1>4, <2>2
      <3>2. QED
        BY <1>2, <1>3, <1>4, <2>2, <3>1
    <2>3. QED
      BY <2>1, <2>2 DEF Carries
  <1>5. ASSUME i = 0 PROVE \A h \in DOMAIN m2p.pids : m2p.pids[h].es_info.pid # pid
    BY <1>1, <1>2, <1>3, <1>5
  <1>6. QED
    BY <1>4, <1>5 DEF m2p

\* Whoever has entries for a video stream got them from PMTs at one PID.
LEMMA EntryFromPmt ==
    ASSUME IInv, ProgramsLive, NEW k \in DOMAIN programs, NEW i \in DOMAIN programs[k].pids
    PROVE  \E s \in Pmts[programs[k].PID] : \E x \in DOMAIN s.es_info :
              s.es_info[x] = programs[k].pids[i].es_info.pid
  <1>1. Announced(programs[k]) /\ Live(programs[k]) /\ FromPmt(programs[k])
    BY ProgramKnown DEF ProgramsLive
  <1>2. Listed(programs[k], programs[k].pids[i].es_info.pid) # {}
    BY <1>1 DEF Live, Announced
  <1>3. PICK j \in DOMAIN programs[k].pmt.es_info :
           programs[k].pmt.es_info[j].pid = programs[k].pids[i].es_info.pid
    BY <1>2 DEF Listed
  <1>4. QED
    BY <1>1, <1>3 DEF FromPmt

LEMMA OneProgram ==
    ASSUME IInv, ProgramsLive, NEW pid, TypeOf[pid] = "video",
           NEW k \in DOMAIN programs, NEW i \in DOMAIN programs[k].pids,
           programs[k].pids[i].es_info.pid = pid,
           NEW l \in DOMAIN programs, NEW h \in DOMAIN programs[l].pids,
           programs[l].pids[h].es_info.pid = pid
    PROVE  k = l
  <1>1. PICK s \in Pmts[programs[k].PID] : \E x \in DOMAIN s.es_info : s.es_info[x] = pid
    BY EntryFromPmt
  <1>2. PICK t \in Pmts[programs[l].PID] : \E x \in DOMAIN t.es_info : t.es_info[x] = pid
    BY EntryFromPmt
  <1>3. programs[k].PID \in MapPids /\ programs[l].PID \in MapPids
    BY ProgramKnown
  <1>4. programs[k].PID = programs[l].PID
    BY <1>1, <1>2, <1>3, DemuxAssumption
  <1>5. programs[k].pids # <<>> /\ programs[l].pids # <<>>
    OBVIOUS
  <1>6. ~(k < l) /\ ~(l < k)
    BY <1>4, <1>5 DEF ProgramsLive, FirstOfPid
  <1>7. k \in Nat /\ l \in Nat
    <2>1. programs \in Seq(Programs)
      BY DEF IInv, TypeOK
    <2>2. QED
      BY <2>1
  <1>8. QED
    BY <1>6, <1>7

LEMMA OneCarrier ==
    ASSUME IInv, ProgramsLive, NEW pid, TypeOf[pid] = "video",
           NEW k \in DOMAIN programs, NEW i, Carries(programs[k], i, pid),
           NEW l \in DOMAIN programs, NEW h, Carries(programs[l], h, pid)
    PROVE  k = l /\ i = h
  <1>1. k = l
    BY OneProgram DEF Carries
  <1>2. ~(h < i) /\ ~(i < h)
    BY <1>1 DEF Carries
  <1>3. i \in Nat /\ h \in Nat
    BY <1>1, ProgramKnown DEF Carries
  <1>4. QED
    BY <1>1, <1>2, <1>3

\* Programs that agree in everything but the queues.
SameEntries(a, b) ==
    /\ b.PID = a.PID /\ b.pmt = a.pmt /\ DOMAIN b.pids = DOMAIN a.pids
    /\ \A i \in DOMAIN a.pids : b.pids[i].es_info = a.pids[i].es_info /\ b.pids[i].handled = a.pids[i].handled

LEMMA SameCarrier ==
    ASSUME NEW a, NEW b, SameEntries(a, b)
    PROVE  /\ Live(a) => Live(b)
           /\ FromPmt(a) => FromPmt(b)
           /\ \A i, pid : Carries(b, i, pid) <=> Carries(a, i, pid)
  <1>1. \A i \in DOMAIN a.pids : Dangling(b, b.pids[i]) <=> Dangling(a, a.pids[i])
    BY DEF SameEntries, Dangling
  <1>2. Live(a) => Live(b)
    BY <1>1 DEF SameEntries, Live
  <1>3. FromPmt(a) => FromPmt(b)
    BY DEF SameEntries, FromPmt
  <1>4. \A i, pid : Carries(b, i, pid) <=> Carries(a, i, pid)
    BY DEF SameEntries, Carries
  <1>5. QED
    BY <1>2, <1>3, <1>4

LEMMA SamePrograms ==
    ASSUME IInv, IInv', ProgramsLive, DOMAIN programs' = DOMAIN programs,
           \A k \in DOMAIN programs : SameEntries(programs[k], programs'[k])
    PROVE  ProgramsLive'
  <1>1. ASSUME NEW k \in DOMAIN programs
        PROVE  Live(programs'[k]) /\ FromPmt(programs'[k])
    BY SameCarrier DEF ProgramsLive
  <1>2. ASSUME NEW k \in DOMAIN programs, programs'[k].pids # <<>>, NEW l \in DOMAIN programs, l < k
        PROVE  programs'[l].PID # programs'[k].PID
    <2>1. programs[k].pids # <<>>
      <3>1. programs[k].pids \in Seq(Entries)
        BY ProgramKnown
      <3>2. programs'[k].pids \in Seq(Entries)
        <4>1. programs' \in Seq(Programs)
          BY DEF IInv, TypeOK
        <4>2. programs'[k] \in Programs
          BY <4>1, ElementOfSeq
        <4>3. QED
          BY <4>2 DEF Programs
      <3>3. DOMAIN programs'[k].pids = DOMAIN programs[k].pids
        BY DEF SameEntries
      <3>4. QED
        BY <1>2, <3>1, <3>2, <3>3
    <2>2. programs[l].PID # programs[k].PID
      BY <1>2, <2>1 DEF ProgramsLive, FirstOfPid
    <2>3. QED
      BY <1>2, <2>2 DEF SameEntries
  <1>3. QED
    BY <1>1, <1>2 DEF ProgramsLive, FirstOfPid

\* A packet more keeps the numbering of the starts.
LEMMA StillRanked ==
    ASSUME NEW S \in Seq(Packets), Ranked(S), NEW ts \in Packets
    PROVE  Ranked(Append(S, ts))
  BY StartAppended, OtherAppended

\* Nothing that matters changes.
LEMMA HandStays ==
    ASSUME Hand, UNCHANGED <<programs, handed, seen, watched, stopped>>
    PROVE  Hand'
  BY DEF Hand, ProgramsLive, FirstOfPid, Collected, Unknown, Carried

\* A packet of a stream nobody is handed packets of.
LEMMA PassedBy ==
    ASSUME IInv, Hand, NEW pid \in Streams, NEW ts \in Packets,
           TypeOf[pid] # "video" \/ pid \notin watched,
           UNCHANGED <<programs, handed, watched, stopped>>,
           seen' = IF pid \in watched THEN [seen EXCEPT ![pid] = Append(@, ts)] ELSE seen
    PROVE  Hand'
  <1>1. seen \in [Streams -> Seq(Packets)]
    BY DEF IInv, TypeOK
  <1>2. ProgramsLive'
    BY DEF Hand, ProgramsLive, FirstOfPid
  <1>3. ASSUME NEW q \in Streams PROVE Collected(q)'
    <2>1. CASE seen'[q] = seen[q]
      BY <2>1 DEF Hand, Collected, Unknown, Carried
    <2>2. CASE seen'[q] # seen[q]
      <3>1. q = pid /\ TypeOf[q] # "video" /\ seen'[q] = Append(seen[q], ts)
        BY <1>1, <2>2
      <3>2. seen[q] \in Seq(Packets) /\ Ranked(seen[q]) /\ handed'[q] = <<>>
        BY <1>1, <3>1 DEF Hand, Collected
      <3>3. Ranked(seen'[q])
        BY <3>1, <3>2, StillRanked
      <3>4. QED
        BY <3>1, <3>2, <3>3 DEF Collected
    <2>3. QED
      BY <2>1, <2>2
  <1>4. QED
    BY <1>2, <1>3 DEF Hand

\* The packet comes to the collector of its stream.
LEMMA CollectorHands ==
    ASSUME IInv, IInv', Hand, ~stale', NEW pid \in Streams, NEW ts \in Packets,
           NEW k \in DOMAIN programs, NEW i, Carries(programs[k], i, pid),
           programs[k].pids[i].handled, ~Refuses(TypeOf[pid]),
           pes_demux_process_ts_packet(ts, k, i, pid, TypeOf[pid]),
           UNCHANGED <<watched, stopped>>, ~stopped,
           seen' = IF pid \in watched THEN [seen EXCEPT ![pid] = Append(@, ts)] ELSE seen
    PROVE  Hand'
  <1> DEFINE m2p == programs[k]
             queue == m2p.pids[i].queue
             new == IF ts.start THEN <<ts>> ELSE Append(queue, ts)
             q == [m2p EXCEPT !.pids[i].queue = new]
             type == TypeOf[pid]
  <1>1. /\ programs \in Seq(Programs) /\ seen \in [Streams -> Seq(Packets)]
        /\ handed \in [Streams -> Seq(Seq(Packets))] /\ side \in {"ingest", "preread"}
    BY DemuxAssumption DEF IInv, TypeOK
  <1>2. m2p \in Programs /\ m2p.pids \in Seq(Entries) /\ i \in DOMAIN m2p.pids
    BY ProgramKnown DEF Carries
  <1>3. m2p.pids[i] \in Entries
    BY <1>2, ElementOfSeq
  <1>4. /\ programs' = [programs EXCEPT ![k] = q]
        /\ handed' = IF ts.start THEN [handed EXCEPT ![pid] = @ \o Closes(queue, type)] ELSE handed
    BY DEF pes_demux_process_ts_packet
  <1>5. /\ q.PID = m2p.PID /\ q.pmt = m2p.pmt /\ DOMAIN q.pids = DOMAIN m2p.pids
        /\ \A h \in DOMAIN m2p.pids : q.pids[h] = IF h = i THEN [m2p.pids[i] EXCEPT !.queue = new]
                                                  ELSE m2p.pids[h]
    <2>1. m2p = [PID |-> m2p.PID, pmt |-> m2p.pmt, pids |-> m2p.pids]
      BY <1>2 DEF Programs
    <2> HIDE DEF m2p, new
    <2>2. QED
      BY <2>1
  <1>6. m2p.pids[i] = [es_info |-> m2p.pids[i].es_info, handled |-> m2p.pids[i].handled, queue |-> queue]
    BY <1>3 DEF Entries
  <1> HIDE DEF q, new
  <1>7. SameEntries(m2p, q) /\ q.pids[i].queue = new
        /\ \A h \in DOMAIN m2p.pids : h # i => q.pids[h].queue = m2p.pids[h].queue
    BY <1>2, <1>5, <1>6 DEF SameEntries
  <1>8. /\ DOMAIN programs' = DOMAIN programs /\ programs'[k] = q
        /\ \A l \in DOMAIN programs : l # k => programs'[l] = programs[l]
    BY <1>4
  <1>9. \A l \in DOMAIN programs : SameEntries(programs[l], programs'[l])
    BY <1>7, <1>8 DEF SameEntries
  <1>10. ProgramsLive /\ ProgramsLive'
    BY <1>8, <1>9, SamePrograms DEF Hand
  <1>11. \A l \in DOMAIN programs : \A h, p : Carries(programs'[l], h, p) <=> Carries(programs[l], h, p)
    BY <1>9, SameCarrier
  <1>12. \A l \in DOMAIN programs : /\ DOMAIN programs'[l].pids = DOMAIN programs[l].pids
                                    /\ \A h \in DOMAIN programs[l].pids :
                                          programs'[l].pids[h].es_info = programs[l].pids[h].es_info
    BY <1>9 DEF SameEntries
  <1>13. Handles(type)
    BY <1>2, <1>10 DEF ProgramsLive, Live, Carries
  <1>14. ASSUME NEW p \in Streams, p # pid PROVE Collected(p)'
    <2>1. seen'[p] = seen[p] /\ handed'[p] = handed[p]
      BY <1>1, <1>4, <1>14
    <2>2. \A l \in DOMAIN programs : \A h \in DOMAIN programs[l].pids :
             programs[l].pids[h].es_info.pid = p => programs'[l].pids[h].queue = programs[l].pids[h].queue
      BY <1>7, <1>8, <1>14 DEF Carries
    <2>3. Collected(p)
      BY DEF Hand
    <2>4. Unknown(p) => Unknown(p)'
      BY <1>8, <1>12, <2>1 DEF Unknown
    <2>5. Carried(p) => Carried(p)'
      <3>1. ASSUME Carried(p) PROVE Carried(p)'
        <4>1. \E l \in DOMAIN programs' : \E h \in DOMAIN programs'[l].pids : Carries(programs'[l], h, p)
          BY <1>8, <1>11, <1>12, <3>1 DEF Carried
        <4>2. ASSUME NEW l \in DOMAIN programs', NEW h \in DOMAIN programs'[l].pids, Carries(programs'[l], h, p)
              PROVE  programs'[l].pids[h].queue = OpenUnit(seen[p])
          <5>1. l \in DOMAIN programs /\ h \in DOMAIN programs[l].pids /\ Carries(programs[l], h, p)
            BY <1>8, <1>11, <1>12, <4>2
          <5>2. programs[l].pids[h].queue = OpenUnit(seen[p]) /\ programs[l].pids[h].es_info.pid = p
            BY <3>1, <5>1 DEF Carried, Carries
          <5>3. QED
            BY <2>2, <5>1, <5>2
        <4>3. QED
          BY <2>1, <3>1, <4>1, <4>2 DEF Carried
      <3>2. QED
        BY <3>1
    <2>6. QED
      BY <2>1, <2>3, <2>4, <2>5 DEF Collected
  <1>15. CASE type # "video"
    <2>1. type = "scte35" /\ side = "preread"
      BY <1>1, <1>13, <1>15 DEF Handles, Refuses
    <2>2. handed[pid] = <<>> /\ Ranked(seen[pid]) /\ seen[pid] \in Seq(Packets)
      BY <1>1, <1>15 DEF Hand, Collected
    <2>3. Closes(queue, type) = <<>>
      BY <2>1 DEF Closes
    <2>4. handed'[pid] = <<>>
      <3>1. <<>> \o <<>> = <<>>
        OBVIOUS
      <3>2. QED
        BY <1>1, <1>4, <2>2, <2>3, <3>1
    <2>5. Ranked(seen'[pid])
      <3>1. seen'[pid] = seen[pid] \/ seen'[pid] = Append(seen[pid], ts)
        BY <1>1
      <3>2. QED
        BY <2>2, <3>1, StillRanked
    <2>6. Collected(pid)'
      BY <1>15, <2>4, <2>5 DEF Collected
    <2>7. QED
      BY <1>10, <1>14, <2>6 DEF Hand
  <1>16. CASE type = "video"
    <2> DEFINE S == seen[pid]
    <2>1. /\ Ranked(S) /\ S \in Seq(Packets) /\ handed[pid] = Units(S) /\ Carried(pid)
      <3>1. Collected(pid)
        BY DEF Hand
      <3>2. ~Unknown(pid)
        BY <1>2 DEF Unknown, Carries
      <3>3. QED
        BY <1>1, <1>16, <3>1, <3>2 DEF Collected
    <2>2. queue = OpenUnit(S)
      BY <1>2, <2>1 DEF Carried
    <2>3. pid \in watched /\ seen'[pid] = Append(S, ts)
      BY <1>1, <2>1 DEF Carried
    <2>4. OpenUnit(S) # <<>> /\ Head(OpenUnit(S)).start <=> Starts(S) # {}
      BY <2>1, OpenUnitType
    <2>5. Closes(queue, type) = IF Starts(S) # {} THEN <<OpenUnit(S)>> ELSE <<>>
      BY <1>16, <2>2, <2>4 DEF Closes
    <2> HIDE DEF S, queue, type
    <2>6. Ranked(Append(S, ts)) /\ handed'[pid] = Units(Append(S, ts)) /\ new = OpenUnit(Append(S, ts))
      <3>1. CASE ts.start
        <4>1. /\ Ranked(Append(S, ts)) /\ OpenUnit(Append(S, ts)) = <<ts>>
              /\ Units(Append(S, ts)) = Units(S) \o IF Starts(S) # {} THEN <<OpenUnit(S)>> ELSE <<>>
          BY <2>1, <3>1, StartAppended
        <4>2. handed'[pid] = handed[pid] \o Closes(queue, type)
          BY <1>1, <1>4, <3>1
        <4>3. QED
          BY <2>1, <2>5, <3>1, <4>1, <4>2 DEF new
      <3>2. CASE ~ts.start
        <4>1. /\ Ranked(Append(S, ts)) /\ OpenUnit(Append(S, ts)) = Append(OpenUnit(S), ts)
              /\ Units(Append(S, ts)) = Units(S)
          BY <2>1, <3>2, OtherAppended
        <4>2. QED
          BY <1>4, <2>1, <2>2, <3>2, <4>1 DEF new
      <3>3. QED
        BY <3>1, <3>2
    <2>7. \E l \in DOMAIN programs' : \E h \in DOMAIN programs'[l].pids : Carries(programs'[l], h, pid)
      BY <1>2, <1>8, <1>11, <1>12
    <2>8. ASSUME NEW l \in DOMAIN programs', NEW h \in DOMAIN programs'[l].pids, Carries(programs'[l], h, pid)
          PROVE  programs'[l].pids[h].queue = OpenUnit(Append(S, ts))
      <3>1. l \in DOMAIN programs /\ Carries(programs[l], h, pid)
        BY <1>8, <1>11, <2>8
      <3>2. l = k /\ h = i
        BY <1>10, <1>16, <3>1, OneCarrier DEF type
      <3>3. QED
        BY <1>7, <1>8, <2>6, <3>2
    <2>9. Carried(pid)'
      BY <2>3, <2>7, <2>8 DEF Carried
    <2>10. Collected(pid)'
      BY <1>16, <2>3, <2>6, <2>9 DEF Collected, type
    <2>11. QED
      BY <1>10, <1>14, <2>10 DEF Hand
  <1>17. QED
    BY <1>15, <1>16

\* While no freed description was read, a call that reads a packet of a stream finds the
\* entry a search for it finds, and goes by the type of the stream.
LEMMA ReadsEntry ==
    ASSUME IInv, ProgramsLive, NEW ts, ReadStream(ts)
    PROVE  \E k \in DOMAIN programs : \E i \in DOMAIN programs[k].pids :
              /\ Carries(programs[k], i, ts.pid)
              /\ UNCHANGED <<pat, cat, gens, stopped, watched>>
              /\ IF ~programs[k].pids[i].handled
                 THEN UNCHANGED <<programs, handed>>
                 ELSE IF Refuses(TypeOf[ts.pid])
                 THEN UNCHANGED <<programs, handed>>
                 ELSE pes_demux_process_ts_packet(ts, k, i, ts.pid, TypeOf[ts.pid])
  <1>1. PICK k \in Searched(ts.pid) : \E i \in get_pid_info(programs[k], ts.pid) \ {0} :
          LET pi == programs[k].pids[i]
          IN /\ Passes(ts.pid, k)
             /\ stale' = (stale \/ StaleAfter(ts.pid, k) \/ ReadsFreed(programs[k], i))
             /\ \E type \in TypesRead(programs[k], pi) :
                  IF ~pi.handled
                  THEN Free(<<ts>>) /\ UNCHANGED <<programs, handed, leaked>>
                  ELSE IF Refuses(type)
                  THEN leaked' = leaked \cup {ts.no} /\ UNCHANGED <<programs, handed, frees>>
                  ELSE /\ \E pid \in IF Dangling(programs[k], pi)
                                     THEN PidsRead(programs[k], pi) ELSE {ts.pid} :
                             pes_demux_process_ts_packet(ts, k, i, pid, type)
                       /\ UNCHANGED leaked
             /\ UNCHANGED <<pat, cat, gens, stopped, watched>>
    BY Zenon DEF ReadStream
  <1>2. PICK i \in get_pid_info(programs[k], ts.pid) \ {0} :
             /\ \E type \in TypesRead(programs[k], programs[k].pids[i]) :
                  IF ~programs[k].pids[i].handled
                  THEN Free(<<ts>>) /\ UNCHANGED <<programs, handed, leaked>>
                  ELSE IF Refuses(type)
                  THEN leaked' = leaked \cup {ts.no} /\ UNCHANGED <<programs, handed, frees>>
                  ELSE /\ \E pid \in IF Dangling(programs[k], programs[k].pids[i])
                                     THEN PidsRead(programs[k], programs[k].pids[i]) ELSE {ts.pid} :
                             pes_demux_process_ts_packet(ts, k, i, pid, type)
                       /\ UNCHANGED leaked
             /\ UNCHANGED <<pat, cat, gens, stopped, watched>>
    BY <1>1, Zenon
  <1>3. k \in DOMAIN programs
    BY DEF Searched
  <1>4. Live(programs[k])
    BY <1>3 DEF ProgramsLive
  <1>5. Carries(programs[k], i, ts.pid) /\ i \in DOMAIN programs[k].pids
    BY <1>3, <1>4, SearchOfLive DEF Carries
  <1>6. /\ ~Dangling(programs[k], programs[k].pids[i])
        /\ programs[k].pids[i].es_info.pid = ts.pid
    BY <1>4, <1>5 DEF Live, Carries
  <1>7. TypesRead(programs[k], programs[k].pids[i]) = {TypeOf[ts.pid]}
    BY <1>6 DEF TypesRead
  <1>8. CASE ~programs[k].pids[i].handled
    BY <1>2, <1>3, <1>5, <1>8
  <1>9. CASE programs[k].pids[i].handled /\ Refuses(TypeOf[ts.pid])
    BY <1>2, <1>3, <1>5, <1>7, <1>9
  <1>10. CASE programs[k].pids[i].handled /\ ~Refuses(TypeOf[ts.pid])
    <2>1. PICK type \in {TypeOf[ts.pid]} :
             \E pid \in IF Dangling(programs[k], programs[k].pids[i])
                        THEN PidsRead(programs[k], programs[k].pids[i]) ELSE {ts.pid} :
                pes_demux_process_ts_packet(ts, k, i, pid, type)
      BY <1>2, <1>7, <1>10, Zenon
    <2>2. type = TypeOf[ts.pid]
      OBVIOUS
    <2>3. PICK pid \in {ts.pid} : pes_demux_process_ts_packet(ts, k, i, pid, type)
      BY <1>6, <2>1, Zenon
    <2>4. pes_demux_process_ts_packet(ts, k, i, ts.pid, TypeOf[ts.pid])
      BY <2>2, <2>3, Zenon
    <2>5. QED
      BY <1>2, <1>3, <1>5, <1>10, <2>4
  <1>11. QED
    BY <1>8, <1>9, <1>10

\* A packet of a stream some program knows.
LEMMA StreamHands ==
    ASSUME IInv, IInv', Hand, ~stale', ~stopped, NEW ts \in Packets, ts.pid \in Streams, ReadStream(ts),
           seen' = IF ts.pid \in watched THEN [seen EXCEPT ![ts.pid] = Append(@, ts)] ELSE seen
    PROVE  Hand'
  <1> DEFINE pid == ts.pid
  <1>1. ProgramsLive /\ Collected(pid)
    BY DEF Hand
  <1>2. PICK k \in DOMAIN programs : \E i \in DOMAIN programs[k].pids :
              /\ Carries(programs[k], i, ts.pid)
              /\ UNCHANGED <<pat, cat, gens, stopped, watched>>
              /\ IF ~programs[k].pids[i].handled
                 THEN UNCHANGED <<programs, handed>>
                 ELSE IF Refuses(TypeOf[ts.pid])
                 THEN UNCHANGED <<programs, handed>>
                 ELSE pes_demux_process_ts_packet(ts, k, i, ts.pid, TypeOf[ts.pid])
    BY <1>1, ReadsEntry
  <1>3. PICK i \in DOMAIN programs[k].pids :
              /\ Carries(programs[k], i, ts.pid)
              /\ UNCHANGED <<pat, cat, gens, stopped, watched>>
              /\ IF ~programs[k].pids[i].handled
                 THEN UNCHANGED <<programs, handed>>
                 ELSE IF Refuses(TypeOf[ts.pid])
                 THEN UNCHANGED <<programs, handed>>
                 ELSE pes_demux_process_ts_packet(ts, k, i, ts.pid, TypeOf[ts.pid])
    BY <1>2
  <1>4. CASE ~programs[k].pids[i].handled
    <2>1. UNCHANGED <<programs, handed, watched, stopped>>
      BY <1>3, <1>4
    <2>2. TypeOf[pid] # "video"
      <3>1. SUFFICES ASSUME TypeOf[pid] = "video" PROVE FALSE
        OBVIOUS
      <3>2. IsFirst(programs[k], i)
        BY <1>1, <1>3 DEF IsFirst, Carries, ProgramsLive, Live
      <3>3. /\ HandledUpTo(programs[k], Len(programs[k].pids)) /\ DOMAIN programs[k].pids = 1 .. Len(programs[k].pids)
            /\ Len(programs[k].pids) \in Nat
        BY ProgramKnown
      <3>4. i <= Len(programs[k].pids)
        BY <3>3
      <3>5. Handles(TypeOf[programs[k].pids[i].es_info.pid])
        BY <1>3, <3>1 DEF Carries, Handles
      <3>6. QED
        BY <1>4, <3>2, <3>3, <3>4, <3>5 DEF HandledUpTo
    <2>3. QED
      BY <2>1, <2>2, PassedBy
  <1>5. CASE programs[k].pids[i].handled /\ Refuses(TypeOf[pid])
    <2>1. UNCHANGED <<programs, handed, watched, stopped>> /\ TypeOf[pid] # "video"
      BY <1>3, <1>5 DEF Refuses
    <2>2. QED
      BY <2>1, PassedBy
  <1>6. CASE programs[k].pids[i].handled /\ ~Refuses(TypeOf[pid])
    BY <1>3, <1>6, CollectorHands
  <1>7. QED
    BY <1>4, <1>5, <1>6

\* A packet of a stream no program knows.
LEMMA UnknownHands ==
    ASSUME IInv, Hand, ~stopped, NEW ts \in Packets, ts.pid \in Streams, ReadUnknown(ts),
           seen' = IF ts.pid \in watched THEN [seen EXCEPT ![ts.pid] = Append(@, ts)] ELSE seen
    PROVE  Hand'
  <1>1. Searched(ts.pid) = DOMAIN programs
    BY DEF ReadUnknown, Searched
  <1>2. \A k \in DOMAIN programs : 0 \in get_pid_info(programs[k], ts.pid)
    <2>1. programs \in Seq(Programs)
      BY DEF IInv, TypeOK
    <2>2. \A k \in DOMAIN programs : k < Len(programs) + 1
      BY <2>1
    <2>3. QED
      BY <1>1, <2>2 DEF ReadUnknown, Passes
  <1>3. \A k \in DOMAIN programs : \A h \in DOMAIN programs[k].pids : programs[k].pids[h].es_info.pid # ts.pid
    BY <1>2, SearchOfLive DEF Hand, ProgramsLive
  <1>4. TypeOf[ts.pid] # "video" \/ ts.pid \notin watched
    <2>1. ~Carried(ts.pid)
      BY <1>3 DEF Carried, Carries
    <2>2. Collected(ts.pid)
      BY DEF Hand
    <2>3. QED
      BY <2>1, <2>2 DEF Collected, Unknown
  <1>5. UNCHANGED <<programs, handed, watched, stopped>>
    BY DEF ReadUnknown
  <1>6. QED
    BY <1>4, <1>5, PassedBy

\* No entry is for the PID of a table.
LEMMA NoEntryForTables ==
    ASSUME IInv, ProgramsLive, NEW ts, ts.pid \in MapPids
    PROVE  ~ReadStream(ts)
  <1>1. SUFFICES ASSUME ReadStream(ts) PROVE FALSE
    OBVIOUS
  <1>2. PICK k \in DOMAIN programs : \E i \in DOMAIN programs[k].pids : Carries(programs[k], i, ts.pid)
    BY <1>1, ReadsEntry
  <1>3. PICK i \in DOMAIN programs[k].pids : programs[k].pids[i].es_info.pid = ts.pid
    BY <1>2 DEF Carries
  <1>4. programs[k].pids[i] \in Entries
    BY ProgramKnown, ElementOfSeq
  <1>5. ts.pid \in Streams
    BY <1>3, <1>4 DEF Entries, EsInfos
  <1>6. QED
    BY <1>5, DemuxAssumption

LEMMA NoPackets ==
    /\ Starts(<<>>) = {} /\ Ranked(<<>>) /\ Units(<<>>) = <<>> /\ OpenUnit(<<>>) = <<>>
  <1>1. Starts(<<>>) = {}
    BY DEF Starts
  <1>2. Ranked(<<>>)
    BY <1>1, FS_EmptySet DEF Ranked
  <1>3. Units(<<>>) = <<>>
    <2>1. <<>> \in Seq(Packets)
      OBVIOUS
    <2>2. QED
      BY <1>1, <1>2, <2>1, UnitsType
  <1>4. QED
    BY <1>1, <1>2, <1>3 DEF OpenUnit

\* The first PMT of a program: its entries point into it and have no packets.
LEMMA FirstMap ==
    ASSUME NEW m2p \in Programs, m2p.pids = <<>>, NEW g \in Nat, EntriesOK(m2p, g),
           NEW pid \in MapPids, m2p.PID = pid, NEW section \in Pmts[pid],
           NEW r \in pmt_processor(WithPmt(m2p, section, g + 1))
    PROVE  /\ r.m2p \in Programs /\ r.m2p.PID = pid
           /\ Live(r.m2p) /\ FromPmt(r.m2p) /\ Announced(r.m2p)
           /\ \A i \in DOMAIN r.m2p.pids : r.m2p.pids[i].queue = <<>>
           /\ \A j \in DOMAIN r.m2p.pmt.es_info :
                 j \in DOMAIN section.es_info /\ r.m2p.pmt.es_info[j].pid = section.es_info[j]
           /\ DOMAIN section.es_info = DOMAIN r.m2p.pmt.es_info
  <1> DEFINE start == WithPmt(m2p, section, g + 1)
             es == ListedBy(section, g + 1)
             new == [i \in DOMAIN es |-> pid_info_new(es[i])]
  <1>1. OnceIn(m2p.pids) /\ \A n : ~InQueues(m2p.pids, n)
    BY DEF OnceIn, InQueues
  <1>2. /\ start \in Programs /\ Announced(start) /\ OnceIn(start.pids)
        /\ start.PID = pid /\ start.pmt.gen = g + 1
        /\ \A i \in DOMAIN start.pids : start.pids[i].es_info.gen <= start.pmt.gen
        /\ \A n \in Nat : ~InQueues(start.pids, n)
    BY <1>1, NewMap
  <1>3. DOMAIN es = DOMAIN section.es_info /\ \A i \in DOMAIN es : es[i].gen = g + 1 /\ es[i].pid = section.es_info[i]
    BY DEF ListedBy
  <1>4. section.es_info \in Seq(Streams)
    BY DemuxAssumption
  <1>5. /\ DOMAIN new = DOMAIN section.es_info
        /\ \A i \in DOMAIN new : new[i].es_info.gen = g + 1 /\ ~new[i].handled
    BY <1>3 DEF pid_info_new
  <1>6. new \in Seq({new[i] : i \in DOMAIN new})
    <2>1. DOMAIN new = 1 .. Len(section.es_info) /\ Len(section.es_info) \in Nat
      BY <1>4, <1>5
    <2>2. new \in [1 .. Len(section.es_info) -> {new[i] : i \in DOMAIN new}]
      BY <2>1
    <2> HIDE DEF new
    <2>3. QED
      BY <2>1, <2>2
  <1>7. start.pmt.es_info = es /\ start.pids = m2p.pids \o new
    <2>1. m2p = [PID |-> m2p.PID, pmt |-> m2p.pmt, pids |-> m2p.pids]
      BY DEF Programs
    <2> HIDE DEF es, new
    <2>2. start = [m2p EXCEPT !.pmt = [gen |-> g + 1, version |-> section.version, es_info |-> es],
                              !.pids = @ \o new]
      BY Zenon DEF WithPmt, es, new
    <2> HIDE DEF start
    <2>3. QED
      BY <2>1, <2>2
  <1> HIDE DEF new, es
  <1>8. <<>> \o new = new
    BY <1>6
  <1>9. start.pids = new
    BY <1>7, <1>8
  <1>10. Live(start)
    BY <1>2, <1>5, <1>9 DEF Live, Dangling
  <1> HIDE DEF start
  <1>11. /\ Accounted(start, r) /\ Announced(r.m2p) /\ Live(r.m2p)
    BY <1>2, <1>10, ProcessorResult DEF start
  <1>12. /\ r.m2p \in Programs /\ r.m2p.PID = pid /\ r.m2p.pmt = start.pmt
         /\ \A n \in Nat : ~InQueues(r.m2p.pids, n)
    BY <1>2, <1>11 DEF Accounted
  <1>13. ASSUME NEW i \in DOMAIN r.m2p.pids PROVE r.m2p.pids[i].queue = <<>>
    <2> DEFINE queue == r.m2p.pids[i].queue
    <2>1. r.m2p.pids[i] \in Entries
      <3>1. r.m2p.pids \in Seq(Entries)
        BY <1>12 DEF Programs
      <3>2. QED
        BY <3>1, ElementOfSeq
    <2>2. queue \in Seq(Packets)
      BY <2>1 DEF Entries
    <2>3. \A n \in Nat : ~Has(queue, n)
      BY <1>12 DEF InQueues
    <2> HIDE DEF queue
    <2>4. ASSUME queue # <<>> PROVE FALSE
      <3>1. 1 \in DOMAIN queue
        BY <2>2, <2>4
      <3>2. queue[1] \in Packets
        BY <2>2, <3>1, ElementOfSeq
      <3>3. queue[1].no \in Nat
        BY <3>2 DEF Packets
      <3>4. QED
        BY <2>3, <3>1, <3>3 DEF Has, PlacesIn
    <2>5. QED
      BY <2>4 DEF queue
  <1>14. /\ DOMAIN r.m2p.pmt.es_info = DOMAIN section.es_info
         /\ \A j \in DOMAIN r.m2p.pmt.es_info : r.m2p.pmt.es_info[j].pid = section.es_info[j]
    BY <1>3, <1>7, <1>12
  <1>15. FromPmt(r.m2p)
    BY <1>12, <1>14 DEF FromPmt
  <1>16. QED
    BY <1>11, <1>12, <1>13, <1>14, <1>15

\* A stream with an entry has a first one.
LEMMA FirstEntry ==
    ASSUME NEW m2p \in Programs, NEW e \in DOMAIN m2p.pids
    PROVE  \E i \in DOMAIN m2p.pids : Carries(m2p, i, m2p.pids[e].es_info.pid)
  <1> DEFINE pid == m2p.pids[e].es_info.pid
             T == {i \in DOMAIN m2p.pids : m2p.pids[i].es_info.pid = pid}
  <1>1. m2p.pids \in Seq(Entries)
    BY DEF Programs
  <1>2. T \subseteq Nat /\ T # {}
    BY <1>1
  <1> HIDE DEF T
  <1>3. PICK i \in T : \A h \in T : i <= h
    BY <1>2, HasMin
  <1>4. i \in DOMAIN m2p.pids /\ m2p.pids[i].es_info.pid = pid
    BY <1>3 DEF T
  <1>5. ASSUME NEW h \in DOMAIN m2p.pids, h < i PROVE m2p.pids[h].es_info.pid # pid
    <2>1. h \in Nat /\ i \in Nat
      BY <1>1, <1>4
    <2>2. QED
      BY <1>3, <1>5, <2>1 DEF T
  <1>6. QED
    BY <1>4, <1>5 DEF Carries

\* A PMT comes into force for a program without entries.
LEMMA NewMapHands ==
    ASSUME IInv, IInv', Hand, NEW k \in DOMAIN programs, programs[k].pids = <<>>,
           \A l \in DOMAIN programs : l < k => programs[l].PID # programs[k].PID,
           NEW section \in Pmts[programs[k].PID],
           NEW r \in pmt_processor(WithPmt(programs[k], section, gens + 1)),
           programs' = [programs EXCEPT ![k] = r.m2p],
           watched' = watched \cup {section.es_info[i] : i \in DOMAIN section.es_info},
           UNCHANGED <<stopped, handed, seen>>, ~stopped
    PROVE  Hand'
  <1> DEFINE m2p == programs[k]
             new == r.m2p
             listed == {section.es_info[i] : i \in DOMAIN section.es_info}
  <1>1. /\ m2p \in Programs /\ EntriesOK(m2p, gens) /\ m2p.PID \in MapPids
    BY ProgramKnown
  <1>2. gens \in Nat
    BY DEF IInv, TypeOK
  <1>3. /\ new \in Programs /\ new.PID = m2p.PID
        /\ Live(new) /\ FromPmt(new) /\ Announced(new)
        /\ \A i \in DOMAIN new.pids : new.pids[i].queue = <<>>
        /\ \A j \in DOMAIN new.pmt.es_info : new.pmt.es_info[j].pid = section.es_info[j]
        /\ DOMAIN section.es_info = DOMAIN new.pmt.es_info
    <2> HIDE DEF m2p
    <2>1. m2p.pids = <<>> /\ section \in Pmts[m2p.PID] /\ r \in pmt_processor(WithPmt(m2p, section, gens + 1))
      BY DEF m2p
    <2>2. QED
      BY <1>1, <1>2, <2>1, FirstMap
  <1> HIDE DEF new, m2p
  <1>4. /\ DOMAIN programs' = DOMAIN programs /\ programs'[k] = new
        /\ \A l \in DOMAIN programs : l # k => programs'[l] = programs[l]
        /\ \A l \in DOMAIN programs : programs'[l].PID = programs[l].PID
    BY <1>3 DEF new, m2p
  <1>5. ProgramsLive'
    <2>1. ASSUME NEW l \in DOMAIN programs
          PROVE  Live(programs'[l]) /\ FromPmt(programs'[l])
      BY <1>3, <1>4 DEF Hand, ProgramsLive
    <2>2. ASSUME NEW l \in DOMAIN programs, programs'[l].pids # <<>>,
                 NEW g \in DOMAIN programs, g < l
          PROVE  programs'[g].PID # programs'[l].PID
      <3>1. programs[g].PID # programs[l].PID
        BY <1>4, <2>2 DEF Hand, ProgramsLive, FirstOfPid
      <3>2. QED
        BY <1>4, <3>1
    <2>3. QED
      BY <1>4, <2>1, <2>2 DEF ProgramsLive, FirstOfPid
  <1>6. ASSUME NEW pid \in Streams
        PROVE  pid \in listed <=> \E i \in DOMAIN new.pids : new.pids[i].es_info.pid = pid
    <2>1. ASSUME pid \in listed PROVE \E i \in DOMAIN new.pids : new.pids[i].es_info.pid = pid
      <3>1. PICK j \in DOMAIN new.pmt.es_info : new.pmt.es_info[j].pid = pid
        BY <1>3, <2>1
      <3>2. QED
        BY <1>3, <3>1 DEF Announced
    <2>2. ASSUME NEW i \in DOMAIN new.pids, new.pids[i].es_info.pid = pid PROVE pid \in listed
      <3>1. Listed(new, pid) # {}
        BY <1>3, <2>2 DEF Live, Announced
      <3>2. PICK j \in DOMAIN new.pmt.es_info : new.pmt.es_info[j].pid = pid
        BY <3>1 DEF Listed
      <3>3. QED
        BY <1>3, <3>2
    <2>3. QED
      BY <2>1, <2>2
  <1>7. ASSUME NEW pid \in Streams, TypeOf[pid] = "video", pid \in listed,
               NEW l \in DOMAIN programs, NEW h \in DOMAIN programs[l].pids,
               programs[l].pids[h].es_info.pid = pid
        PROVE  FALSE
    <2>1. ProgramsLive
      BY DEF Hand
    <2>2. PICK t \in Pmts[programs[l].PID] : \E x \in DOMAIN t.es_info : t.es_info[x] = pid
      BY <1>7, <2>1, EntryFromPmt
    <2>3. programs[k].PID \in MapPids /\ programs[l].PID \in MapPids
      BY ProgramKnown
    <2>4. programs[l].PID = programs[k].PID
      <3>1. PICK y \in DOMAIN section.es_info : section.es_info[y] = pid
        BY <1>7
      <3>2. PICK x \in DOMAIN t.es_info : t.es_info[x] = pid
        BY <2>2
      <3>3. TypeOf[t.es_info[x]] = "video" /\ t.es_info[x] = section.es_info[y]
        BY <1>7, <3>1, <3>2
      <3>4. QED
        BY <2>3, <3>3, DemuxAssumption
    <2>5. l # k /\ ~(l < k) /\ ~(k < l)
      BY <1>7, <2>1, <2>4 DEF ProgramsLive, FirstOfPid
    <2>6. l \in Nat /\ k \in Nat
      <3>1. programs \in Seq(Programs)
        BY DEF IInv, TypeOK
      <3>2. QED
        BY <3>1
    <2>7. QED
      BY <2>5, <2>6
  <1>8. ASSUME NEW pid \in Streams PROVE Collected(pid)'
    <2>1. Collected(pid)
      BY DEF Hand
    <2>2. CASE TypeOf[pid] # "video"
      BY <2>1, <2>2 DEF Collected
    <2>3. CASE TypeOf[pid] = "video" /\ pid \in listed
      <3>1. ~Carried(pid)
        BY <1>7, <2>3 DEF Carried, Carries
      <3>2. seen[pid] = <<>>
        BY <2>1, <2>3, <3>1 DEF Collected, Unknown
      <3>3. PICK e \in DOMAIN new.pids : new.pids[e].es_info.pid = pid
        BY <1>6, <2>3
      <3>4. PICK i \in DOMAIN new.pids : Carries(new, i, pid)
        BY <1>3, <3>3, FirstEntry
      <3>5. ASSUME NEW l \in DOMAIN programs, NEW h \in DOMAIN programs'[l].pids, Carries(programs'[l], h, pid)
            PROVE  programs'[l].pids[h].queue = OpenUnit(<<>>)
        <4>1. l = k
          BY <1>4, <1>7, <2>3, <3>5 DEF Carries
        <4>2. QED
          BY <1>3, <1>4, <3>5, <4>1, NoPackets
      <3>6. pid \in watched'
        BY <2>3
      <3>7. Carried(pid)'
        BY <1>4, <3>2, <3>4, <3>5, <3>6 DEF Carried
      <3>8. QED
        BY <2>1, <3>7 DEF Collected
    <2>4. CASE TypeOf[pid] = "video" /\ pid \notin listed
      <3>1. pid \in watched' <=> pid \in watched
        BY <2>4
      <3>2. \A i \in DOMAIN new.pids : new.pids[i].es_info.pid # pid
        BY <1>6, <2>4
      <3>3. Unknown(pid) => Unknown(pid)'
        BY <1>4, <3>1, <3>2 DEF Unknown
      <3>4. ASSUME Carried(pid) PROVE Carried(pid)'
        <4>1. PICK l \in DOMAIN programs : \E i \in DOMAIN programs[l].pids : Carries(programs[l], i, pid)
          BY <3>4 DEF Carried
        <4>2. l # k
          BY <4>1
        <4>3. \E i \in DOMAIN programs'[l].pids : Carries(programs'[l], i, pid)
          BY <1>4, <4>1, <4>2
        <4>4. ASSUME NEW g \in DOMAIN programs', NEW h \in DOMAIN programs'[g].pids, Carries(programs'[g], h, pid)
              PROVE  programs'[g].pids[h].queue = OpenUnit(seen[pid])
          <5>1. g # k
            BY <1>4, <3>2, <4>4 DEF Carries
          <5>2. QED
            BY <1>4, <3>4, <4>4, <5>1 DEF Carried
        <4>5. QED
          BY <1>4, <3>1, <3>4, <4>3, <4>4 DEF Carried
      <3>5. QED
        BY <2>1, <3>3, <3>4 DEF Collected
    <2>5. QED
      BY <2>2, <2>3, <2>4
  <1>9. QED
    BY <1>5, <1>8 DEF Hand

\* A PMT is read.
LEMMA MapHands ==
    ASSUME IInv, IInv', Hand, ~stale', ~stopped, NEW ts, ts.pid \in MapPids,
           NEW section \in Pmts[ts.pid], ReadPmt(ts, section)
    PROVE  Hand'
  <1> DEFINE M == MapOf(ts.pid)
             k == Min(M)
  <1>1. M \subseteq DOMAIN programs /\ M \subseteq Nat /\ M # {}
    <2>1. programs \in Seq(Programs)
      BY DEF IInv, TypeOK
    <2>2. QED
      BY <2>1 DEF ReadPmt, MapOf
  <1>2. k \in M /\ \A l \in M : k <= l
    <2> HIDE DEF M
    <2>1. \E x \in M : \A y \in M : x <= y
      BY <1>1, HasMin
    <2>2. QED
      BY <2>1 DEF Min
  <1>3. k \in DOMAIN programs /\ programs[k].PID = ts.pid
    BY <1>2 DEF MapOf
  <1>4. \A l \in DOMAIN programs : l < k => programs[l].PID # programs[k].PID
    <2>1. ASSUME NEW l \in DOMAIN programs, l < k, programs[l].PID = ts.pid PROVE FALSE
      <3>1. l \in M
        BY <2>1 DEF MapOf
      <3> HIDE DEF M, k
      <3>2. QED
        BY <1>1, <1>2, <2>1, <3>1
    <2>2. QED
      BY <1>3, <2>1
  <1>5. CASE ~InForce(programs[k].pmt.version, section)
    <2>1. UNCHANGED <<programs, watched, stopped, handed, seen>>
      BY <1>5 DEF ReadPmt
    <2>2. QED
      BY <2>1, HandStays
  <1>6. CASE InForce(programs[k].pmt.version, section)
    <2>1. /\ stale' = (stale \/ StaleAfter(ts.pid, k) \/ programs[k].pids # <<>>)
          /\ watched' = watched \cup {section.es_info[i] : i \in DOMAIN section.es_info}
          /\ UNCHANGED <<stopped, handed, seen>>
      BY <1>6 DEF ReadPmt
    <2>2. PICK r \in pmt_processor(WithPmt(programs[k], section, gens + 1)) :
             programs' = [programs EXCEPT ![k] = r.m2p]
      BY <1>6 DEF ReadPmt
    <2>3. programs[k].pids = <<>>
      BY <2>1
    <2> HIDE DEF k
    <2>4. QED
      BY <1>3, <1>4, <2>1, <2>2, <2>3, NewMapHands
  <1>7. QED
    BY <1>5, <1>6

\* A PAT is read: the programs it announces have no entries.
LEMMA PatHands ==
    ASSUME IInv, Hand, NEW ts, NEW section \in Pats, ReadPat(ts, section)
    PROVE  Hand'
  <1>1. UNCHANGED <<handed, seen, watched, stopped>>
    BY DEF ReadPat
  <1>2. CASE UNCHANGED programs
    BY <1>1, <1>2, HandStays
  <1>3. CASE programs' = programs \o [i \in DOMAIN section.programs |->
                                        mpeg2ts_program_new(section.programs[i])]
    <2> DEFINE new == [i \in DOMAIN section.programs |-> mpeg2ts_program_new(section.programs[i])]
               n == Len(programs)
    <2>1. section.programs \in Seq(MapPids)
      BY DemuxAssumption
    <2>2. Len(section.programs) \in Nat /\ DOMAIN section.programs = 1 .. Len(section.programs)
      BY <2>1
    <2>3. /\ DOMAIN new = 1 .. Len(section.programs)
          /\ \A i \in DOMAIN new : /\ new[i] \in Programs
                                   /\ new[i].pids = <<>> /\ new[i].pmt.es_info = <<>>
      <3>1. \A i \in DOMAIN section.programs : section.programs[i] \in MapPids
        BY <2>1, <2>2, ElementOfSeq
      <3>2. \A i \in DOMAIN section.programs : mpeg2ts_program_new(section.programs[i]) \in Programs
        BY <3>1, NewProgram
      <3>3. QED
        BY <2>2, <3>2 DEF mpeg2ts_program_new, NoPmt
    <2>4. new \in Seq(Programs) /\ Len(new) = Len(section.programs)
      <3>1. new \in [1 .. Len(section.programs) -> Programs]
        BY <2>2, <2>3
      <3>2. QED
        BY <2>2, <3>1
    <2>5. programs \in Seq(Programs) /\ n \in Nat /\ DOMAIN programs = 1 .. n
      BY DEF IInv, TypeOK
    <2> HIDE DEF new, n
    <2>6. /\ DOMAIN programs' = 1 .. n + Len(new)
          /\ \A k \in 1 .. n + Len(new) :
                programs'[k] = IF k <= n THEN programs[k] ELSE new[k - n]
      <3>1. /\ programs \o new \in Seq(Programs) /\ Len(programs \o new) = n + Len(new)
            /\ \A k \in 1 .. n + Len(new) :
                  (programs \o new)[k] = IF k <= n THEN programs[k] ELSE new[k - n]
        BY <2>4, <2>5, ConcatProperties DEF n
      <3>2. programs' = programs \o new
        BY <1>3 DEF new
      <3>3. DOMAIN (programs \o new) = 1 .. Len(programs \o new)
        BY <3>1
      <3>4. QED
        BY <3>1, <3>2, <3>3, Zenon
    <2>7. ASSUME NEW k \in DOMAIN programs'
          PROVE  \/ k \in DOMAIN programs /\ k <= n /\ programs'[k] = programs[k]
                 \/ k > n /\ programs'[k].pids = <<>> /\ programs'[k].pmt.es_info = <<>>
      <3>1. CASE k <= n
        BY <2>5, <2>6, <3>1
      <3>2. CASE ~(k <= n)
        <4>1. k - n \in 1 .. Len(new) /\ k > n
          BY <2>2, <2>4, <2>5, <2>6, <3>2
        <4>2. programs'[k] = new[k - n]
          BY <2>6, <3>2
        <4>3. QED
          BY <2>3, <2>4, <4>1, <4>2
      <3>3. QED
        BY <3>1, <3>2
    <2>8. ASSUME NEW k \in DOMAIN programs PROVE k \in DOMAIN programs' /\ programs'[k] = programs[k] /\ k <= n
      BY <2>2, <2>4, <2>5, <2>6
    <2>9. ASSUME NEW k \in DOMAIN programs'
          PROVE  Live(programs'[k]) /\ FromPmt(programs'[k]) /\ FirstOfPid(k)'
      <3>1. CASE k \in DOMAIN programs /\ k <= n /\ programs'[k] = programs[k]
        <4>1. Live(programs[k]) /\ FromPmt(programs[k]) /\ FirstOfPid(k)
          BY <3>1 DEF Hand, ProgramsLive
        <4>2. ASSUME NEW l \in DOMAIN programs', l < k PROVE l \in DOMAIN programs /\ programs'[l] = programs[l]
          <5>1. l \in 1 .. n
            BY <2>5, <2>6, <3>1, <4>2
          <5>2. QED
            BY <2>5, <2>8, <5>1
        <4>3. FirstOfPid(k)'
          BY <3>1, <4>1, <4>2 DEF FirstOfPid
        <4>4. QED
          BY <3>1, <4>1, <4>3
      <3>2. CASE programs'[k].pids = <<>> /\ programs'[k].pmt.es_info = <<>>
        BY <3>2 DEF Live, FromPmt, FirstOfPid
      <3>3. QED
        BY <2>7, <3>1, <3>2
    <2>10. ASSUME NEW pid \in Streams PROVE Collected(pid)'
      <3>1. Collected(pid)
        BY DEF Hand
      <3>2. \A k \in DOMAIN programs' : DOMAIN programs'[k].pids = {} \/ (k \in DOMAIN programs /\ programs'[k] = programs[k])
        BY <2>7
      <3>3. Unknown(pid) => Unknown(pid)'
        BY <1>1, <3>2 DEF Unknown
      <3>4. Carried(pid) => Carried(pid)'
        <4>1. ASSUME Carried(pid)
              PROVE  \E k \in DOMAIN programs' : \E i \in DOMAIN programs'[k].pids : Carries(programs'[k], i, pid)
          BY <2>8, <4>1 DEF Carried
        <4>2. ASSUME Carried(pid), NEW k \in DOMAIN programs', NEW i \in DOMAIN programs'[k].pids,
                     Carries(programs'[k], i, pid)
              PROVE  programs'[k].pids[i].queue = OpenUnit(seen[pid])
          BY <3>2, <4>2 DEF Carried
        <4>3. QED
          BY <1>1, <4>1, <4>2 DEF Carried
      <3>5. QED
        BY <1>1, <3>1, <3>3, <3>4 DEF Collected
    <2>11. QED
      BY <2>9, <2>10 DEF Hand, ProgramsLive
  <1>4. QED
    BY <1>2, <1>3 DEF ReadPat

-----------------------------------------------------------------------------
LEMMA HandInitially ==
    ASSUME Init
    PROVE  HandInv
  <1>1. DOMAIN programs = {} /\ watched = {} /\ \A pid \in Streams : handed[pid] = <<>> /\ seen[pid] = <<>>
    BY DEF Init
  <1>2. ProgramsLive
    BY <1>1 DEF ProgramsLive
  <1>3. \A pid \in Streams : Collected(pid)
    BY <1>1, NoPackets DEF Collected, Unknown
  <1>4. QED
    BY <1>2, <1>3 DEF HandInv, Hand

LEMMA ArriveMapHands ==
    ASSUME IInv, IInv', Hand, ~stale', ArriveMap
    PROVE  Hand'
  <1>1. PICK pid \in MapPids : \E section \in Pmts[pid] :
                   LET ts == Packet(pid)
                   IN IF pat = 0 THEN Discard(ts)
                      ELSE /\ \/ ReadPmt(ts, section)
                              \/ ReadStream(ts)
                              \/ ReadUnknown(ts)
                           /\ UNCHANGED seen
    BY DEF ArriveMap
  <1>2. PICK section \in Pmts[pid] :
                   IF pat = 0 THEN Discard(Packet(pid))
                      ELSE /\ \/ ReadPmt(Packet(pid), section)
                              \/ ReadStream(Packet(pid))
                              \/ ReadUnknown(Packet(pid))
                           /\ UNCHANGED seen
    BY <1>1
  <1>3. Packet(pid).pid = pid /\ ~stopped /\ ProgramsLive
    BY DEF Packet, ArriveMap, Arrive, Hand
  <1>4. CASE Discard(Packet(pid))
    BY <1>4, HandStays DEF Discard
  <1>5. CASE ReadPmt(Packet(pid), section)
    BY <1>3, <1>5, MapHands
  <1>6. CASE ReadStream(Packet(pid))
    BY <1>3, <1>6, NoEntryForTables
  <1>7. CASE ReadUnknown(Packet(pid)) /\ UNCHANGED seen
    BY <1>7, HandStays DEF ReadUnknown
  <1>8. QED
    BY <1>2, <1>4, <1>5, <1>6, <1>7

LEMMA ArriveStreamHands ==
    ASSUME IInv, IInv', Hand, ~stale', ArriveStream
    PROVE  Hand'
  <1>1. PICK pid \in Streams : \E ts \in PacketsOf(pid) :
                      /\ Sends(pid, ts)
                      /\ sent' = [sent EXCEPT ![pid] = ts.unit]
                      /\ IF pat = 0 THEN Discard(ts)
                         ELSE /\ ReadStream(ts) \/ ReadUnknown(ts)
                              /\ seen' = IF pid \in watched /\ ~stale' THEN [seen EXCEPT ![pid] = Append(@, ts)] ELSE seen
    BY DEF ArriveStream
  <1>2. PICK ts \in PacketsOf(pid) :
                      /\ Sends(pid, ts)
                      /\ sent' = [sent EXCEPT ![pid] = ts.unit]
                      /\ IF pat = 0 THEN Discard(ts)
                         ELSE /\ ReadStream(ts) \/ ReadUnknown(ts)
                              /\ seen' = IF pid \in watched /\ ~stale' THEN [seen EXCEPT ![pid] = Append(@, ts)] ELSE seen
    BY <1>1
  <1>3. ts \in Packets /\ ts.pid = pid
    BY SentPacket DEF IInv, ArriveStream, Arrive
  <1>4. ~stopped
    BY DEF ArriveStream, Arrive
  <1>5. CASE Discard(ts)
    BY <1>5, HandStays DEF Discard
  <1>6. CASE ReadStream(ts) /\ seen' = IF pid \in watched /\ ~stale' THEN [seen EXCEPT ![pid] = Append(@, ts)] ELSE seen
    BY <1>3, <1>4, <1>6, StreamHands
  <1>7. CASE ReadUnknown(ts) /\ seen' = IF pid \in watched /\ ~stale' THEN [seen EXCEPT ![pid] = Append(@, ts)] ELSE seen
    BY <1>3, <1>4, <1>7, UnknownHands
  <1>8. QED
    BY <1>2, <1>5, <1>6, <1>7

LEMMA FreeingHands ==
    ASSUME Hand, mpeg2ts_stream_free
    PROVE  Hand'
  <1>1. DOMAIN programs' = {} /\ stopped' /\ UNCHANGED <<handed, seen>>
    BY DEF mpeg2ts_stream_free
  <1>2. ProgramsLive'
    BY <1>1 DEF ProgramsLive
  <1>3. \A pid \in Streams : Collected(pid)'
    BY <1>1 DEF Hand, Collected
  <1>4. QED
    BY <1>2, <1>3 DEF Hand

LEMMA HandStep ==
    ASSUME IInv, IInv', HandInv, [Next]_vars
    PROVE  HandInv'
  <1>1. SUFFICES ASSUME ~stale' PROVE Hand'
    BY DEF HandInv
  <1>2. ~stale
    <2>1. ASSUME stale PROVE stale'
      <3>1. CASE ArrivePat
        BY <2>1, <3>1 DEF ArrivePat, ReadPat
      <3>2. CASE ArriveCat
        BY <2>1, <3>2 DEF ArriveCat, ReadCat
      <3>3. CASE ArrivePart
        BY <2>1, <3>3 DEF ArrivePart, Discard
      <3>4. CASE ArriveMap
        BY <2>1, <3>4 DEF ArriveMap, Discard, ReadPmt, ReadStream, ReadUnknown
      <3>5. CASE ArriveStream
        <4>1. PICK ts : Discard(ts) \/ ReadStream(ts) \/ ReadUnknown(ts)
          BY <3>5 DEF ArriveStream
        <4>2. QED
          BY <2>1, <4>1 DEF Discard, ReadStream, ReadUnknown
      <3>6. CASE Lose \/ mpeg2ts_stream_free \/ UNCHANGED vars
        BY <2>1, <3>6 DEF Lose, mpeg2ts_stream_free, vars
      <3>7. QED
        BY <3>1, <3>2, <3>3, <3>4, <3>5, <3>6 DEF Next
    <2>2. QED
      BY <1>1, <2>1
  <1>3. Hand
    BY <1>2 DEF HandInv
  <1>4. CASE ArrivePat
    <2>1. PICK section \in Pats : ReadPat(Packet(PatPid), section)
      BY <1>4 DEF ArrivePat
    <2>2. QED
      BY <1>3, <2>1, PatHands
  <1>5. CASE ArriveCat \/ ArrivePart \/ Lose \/ UNCHANGED vars
    <2>1. UNCHANGED <<programs, handed, seen, watched, stopped>>
      BY <1>5 DEF ArriveCat, ReadCat, ArrivePart, Discard, Lose, vars
    <2>2. QED
      BY <1>3, <2>1, HandStays
  <1>6. CASE ArriveMap
    BY <1>1, <1>3, <1>6, ArriveMapHands
  <1>7. CASE ArriveStream
    BY <1>1, <1>3, <1>7, ArriveStreamHands
  <1>8. CASE mpeg2ts_stream_free
    BY <1>3, <1>8, FreeingHands
  <1>9. QED
    BY <1>4, <1>5, <1>6, <1>7, <1>8 DEF Next

-----------------------------------------------------------------------------
\* The invariant of the demultiplexer: its types, what the list of entries of a
\* program says of the PMT in force, and one owner for each packet (mpeg2ts_demux.c).
THEOREM Invariance == Spec => []IInv
  <1>1. Init => IInv
    BY Initially
  <1>2. IInv /\ [Next]_vars => IInv'
    BY StepKeeps
  <1>3. QED
    BY <1>1, <1>2, PTL DEF Spec

\* The types of the demultiplexer's state (mpeg2ts_demux.c, tpes.c).
THEOREM TypesKept == Spec => []TypeOK
  <1>1. IInv => TypeOK
    BY DEF IInv
  <1>2. QED
    BY <1>1, Invariance, PTL

\* Every packet that arrived is freed once, in one queue, or let go of by the validator:
\* none is freed twice or left in a queue after it was freed (mpeg2ts_demux.c, tpes.c).
THEOREM PacketsHaveOneOwner == Spec => []OwnedOnce
  <1>1. ASSUME IInv PROVE OwnedOnce
    <2>1. ASSUME NEW n \in 1 .. MaxPackets
          PROVE  frees[n] + Cardinality(Places(n)) + Cardinality({n} \cap leaked)
                    = IF n <= count THEN 1 ELSE 0
      <3>1. MaxPackets \in Nat /\ count \in 0 .. MaxPackets
        BY <1>1, DemuxAssumption DEF IInv, TypeOK
      <3>2. n \in Nat
        BY <3>1
      <3>3. Cardinality(Places(n)) = IF IsQueued(n) THEN 1 ELSE 0
        BY <1>1, <3>2, PlacesOfQueued DEF IInv
      <3>4. Cardinality({n} \cap leaked) = IF n \in leaked THEN 1 ELSE 0
        <4>1. {n} \cap leaked = IF n \in leaked THEN {n} ELSE {}
          OBVIOUS
        <4>2. QED
          BY <4>1, FS_EmptySet, FS_Singleton
      <3>5. n > count => ~IsQueued(n)
        BY <1>1, <3>1, <3>2 DEF IInv, OwnerOK
      <3>6. \/ n > count /\ frees[n] = 0 /\ n \notin leaked
            \/ n <= count /\ frees[n] = 1 /\ n \notin leaked /\ ~IsQueued(n)
            \/ n <= count /\ frees[n] = 0 /\ n \in leaked /\ ~IsQueued(n)
            \/ n <= count /\ frees[n] = 0 /\ n \notin leaked /\ IsQueued(n)
        BY <1>1 DEF IInv, OwnerOK
      <3>7. QED
        BY <3>1, <3>2, <3>3, <3>4, <3>5, <3>6
    <2>2. QED
      BY <2>1 DEF OwnedOnce
  <1>2. QED
    BY <1>1, Invariance, PTL

\* The streams of the PMT in force have a handler, whatever versions of it came before
\* and whatever the processors read through the entries of freed ones (mpeg2ts_demux.c).
THEOREM StreamsAreHandled == Spec => []InForceIsHandled
  <1>1. ASSUME IInv PROVE InForceIsHandled
    <2>1. ASSUME NEW k \in DOMAIN programs, NEW x \in DOMAIN programs[k].pmt.es_info,
                 Handles(TypeOf[programs[k].pmt.es_info[x].pid]),
                 NEW i \in get_pid_info(programs[k], programs[k].pmt.es_info[x].pid)
          PROVE  i # 0 /\ (Dangling(programs[k], programs[k].pids[i]) \/ programs[k].pids[i].handled)
      <3> DEFINE m2p == programs[k]
                 pid == m2p.pmt.es_info[x].pid
      <3>1. m2p \in Programs /\ Announced(m2p) /\ HandledUpTo(m2p, Len(m2p.pids))
        <4>1. m2p \in Programs
          BY <1>1, ElementOfSeq DEF IInv, TypeOK
        <4>2. QED
          BY <1>1, <4>1 DEF IInv, SearchOK, EntriesOK
      <3>2. Listed(m2p, pid) # {}
        BY DEF Listed
      <3>3. m2p.pids \in Seq(Entries)
        BY <3>1 DEF Programs
      <3>4. Handles(TypeOf[pid]) /\ i \in get_pid_info(m2p, pid)
        BY <2>1
      <3> HIDE DEF m2p, pid
      <3>5. /\ i \in DOMAIN m2p.pids
            /\ Dangling(m2p, m2p.pids[i]) \/ m2p.pids[i].es_info.pid = pid
            /\ \A h \in DOMAIN m2p.pids :
                  h < i /\ ~Dangling(m2p, m2p.pids[h]) => m2p.pids[h].es_info.pid # pid
        BY <3>1, <3>2, <3>4, SearchEndsAtEntry
      <3>6. i \in 1 .. Len(m2p.pids) /\ Len(m2p.pids) \in Nat
        BY <3>3, <3>5
      <3>7. ~Dangling(m2p, m2p.pids[i]) => m2p.pids[i].handled
        <4>1. ~Dangling(m2p, m2p.pids[i]) => IsFirst(m2p, i)
          BY <3>5 DEF IsFirst
        <4>2. QED
          BY <3>1, <3>4, <3>5, <3>6, <4>1 DEF HandledUpTo
      <3>8. QED
        BY <3>6, <3>7 DEF m2p
    <2>2. QED
      BY <2>1, Zenon DEF InForceIsHandled
  <1>2. QED
    BY <1>1, Invariance, PTL

\* As long as no freed description was read, what is handed on for a video stream is, in
\* order and once, each unit that began since its PMT was read but the last, with all its
\* packets that arrived (tpes.c, mpeg2ts_demux.c).
THEOREM UnitsHandedOn == Spec => []HandedOn
  <1>1. Init => IInv /\ HandInv
    BY Initially, HandInitially
  <1>2. IInv /\ HandInv /\ [Next]_vars => (IInv /\ HandInv)'
    <2>1. SUFFICES ASSUME IInv, HandInv, [Next]_vars PROVE IInv' /\ HandInv'
      OBVIOUS
    <2>2. IInv'
      BY <2>1, StepKeeps
    <2>3. QED
      BY <2>1, <2>2, HandStep
  <1>3. HandInv => HandedOn
    BY DEF HandInv, Hand, Collected, HandedOn
  <1>4. QED
    BY <1>1, <1>2, <1>3, PTL DEF Spec
=============================================================================
