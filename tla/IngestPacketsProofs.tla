------------------------ MODULE IngestPacketsProofs ------------------------
(***************************************************************************)
(* Proofs about IngestPackets, for any streams and partitions, whichever   *)
(* of them follow others, and any packets: the boundaries that one stream  *)
(* makes of those of another (IInv); the splices that boundaries answer or *)
(* that pass unmet, and the ids of events that are over (SpliceInv).       *)
(***************************************************************************)
EXTENDS IngestPackets, SequenceTheorems, FiniteSetTheorems, WellFoundedInduction, TLAPS

Post == [at : Nat, PTS : Nat]

\* What is still to be answered of some triggers: those after the first n.
Waiting(queue, n, triggers) ==
    /\ n <= Len(triggers)
    /\ Len(queue) = Len(triggers) - n
    /\ \A k \in 1 .. Len(queue) : queue[k] = triggers[n + k]

\* The boundaries made of triggers are each of a later PTS, and the rest waits.
Answered(queue, made, triggers) ==
    /\ Waiting(queue, Len(made), triggers)
    /\ \A k \in 1 .. Len(made) : made[k] > triggers[k]

IInv ==
    /\ received \in Seq(Packets)
    /\ posts \in [Streams -> [Partitions -> Seq(Post)]]
    /\ queueLastImplicitPTS \in [Streams -> [Partitions -> Seq(Nat)]]
    /\ \A s \in Streams, p \in Partitions :
          IsImplicit(s, p) => Answered(queueLastImplicitPTS[s][p], PTSsOf(s, p),
                                       PTSsOf(Boundaries[s][p], p))

-----------------------------------------------------------------------------
\* Triggers.

\* The queue as the property writes it.
LEMMA WaitingIsSubSeq ==
    ASSUME NEW queue \in Seq(Nat), NEW triggers \in Seq(Nat), NEW n \in Nat,
           Waiting(queue, n, triggers)
    PROVE  queue = SubSeq(triggers, n + 1, Len(triggers))
  <1> DEFINE rest == SubSeq(triggers, n + 1, Len(triggers))
  <1>1. Len(triggers) \in Nat /\ n <= Len(triggers) /\ Len(queue) = Len(triggers) - n
    BY LenProperties DEF Waiting
  <1>2. \A i \in (n + 1) .. Len(triggers) : triggers[i] \in Nat
    BY <1>1, ElementOfSeq
  <1>3. /\ rest \in Seq(Nat)
        /\ Len(rest) = IF n + 1 <= Len(triggers) THEN Len(triggers) - (n + 1) + 1 ELSE 0
        /\ \A i \in 1 .. (Len(triggers) - (n + 1) + 1) : rest[i] = triggers[n + 1 + i - 1]
    BY <1>1, <1>2, SubSeqProperties
  <1> HIDE DEF rest
  <1>4. Len(rest) = Len(queue)
    BY <1>1, <1>3
  <1>5. \A i \in 1 .. Len(queue) : queue[i] = rest[i]
    <2> TAKE i \in 1 .. Len(queue)
    <2>1. i \in 1 .. (Len(triggers) - (n + 1) + 1) /\ n + 1 + i - 1 = n + i
      BY <1>1
    <2>2. QED
      BY <1>3, <2>1 DEF Waiting
  <1>6. QED
    BY <1>3, <1>4, <1>5, SeqEqual DEF rest

\* A boundary of a later PTS answers the oldest trigger.
LEMMA AnswerOldest ==
    ASSUME NEW queue \in Seq(Nat), NEW made \in Seq(Nat), NEW triggers \in Seq(Nat),
           NEW pts \in Nat, Answered(queue, made, triggers), queue # <<>>, pts > Head(queue)
    PROVE  Answered(Tail(queue), Append(made, pts), triggers)
  <1> DEFINE n == Len(made)
             more == Append(made, pts)
             rest == Tail(queue)
  <1>1. n \in Nat /\ Len(queue) \in Nat \ {0} /\ Len(triggers) \in Nat
    BY LenProperties, EmptySeq
  <1>2. /\ Len(more) = n + 1 /\ more[n + 1] = pts
        /\ \A k \in 1 .. n : more[k] = made[k]
    BY AppendProperties
  <1>3. /\ Len(rest) = Len(queue) - 1
        /\ \A k \in 1 .. Len(rest) : rest[k] = queue[k + 1]
    BY HeadTailProperties
  <1>4. Head(queue) = queue[1]
    BY HeadTailProperties
  <1>a. n <= Len(triggers) /\ Len(queue) = Len(triggers) - n
    BY DEF Answered, Waiting
  <1>b. \A k \in 1 .. Len(queue) : queue[k] = triggers[n + k]
    BY DEF Answered, Waiting
  <1>c. \A k \in 1 .. n : made[k] > triggers[k]
    BY DEF Answered
  <1> HIDE DEF n, more, rest
  <1>5. Head(queue) = triggers[n + 1]
    BY <1>1, <1>4, <1>b
  <1>6. \A k \in 1 .. Len(more) : more[k] > triggers[k]
    <2> TAKE k \in 1 .. Len(more)
    <2>1. CASE k \in 1 .. n
      BY <1>2, <1>c, <2>1
    <2>2. CASE k = n + 1
      BY <1>2, <1>5, <2>2
    <2>3. QED
      BY <1>1, <1>2, <2>1, <2>2
  <1>7. \A k \in 1 .. Len(rest) : rest[k] = triggers[Len(more) + k]
    <2> TAKE k \in 1 .. Len(rest)
    <2>1. k + 1 \in 1 .. Len(queue) /\ n + (k + 1) = (n + 1) + k
      BY <1>1, <1>3
    <2>2. rest[k] = queue[k + 1] /\ queue[k + 1] = triggers[n + (k + 1)]
      BY <1>3, <1>b, <2>1
    <2>3. QED
      BY <1>2, <2>1, <2>2
  <1>8. Len(more) <= Len(triggers) /\ Len(rest) = Len(triggers) - Len(more)
    BY <1>1, <1>2, <1>3, <1>a
  <1>9. QED
    BY <1>6, <1>7, <1>8 DEF Answered, Waiting, more, rest

\* A new trigger waits.
LEMMA AddTrigger ==
    ASSUME NEW queue \in Seq(Nat), NEW made \in Seq(Nat), NEW triggers \in Seq(Nat),
           NEW pts \in Nat, Answered(queue, made, triggers)
    PROVE  Answered(Append(queue, pts), made, Append(triggers, pts))
  <1> DEFINE n == Len(made)
             more == Append(triggers, pts)
             all == Append(queue, pts)
  <1>1. n \in Nat /\ Len(queue) \in Nat /\ Len(triggers) \in Nat
    BY LenProperties
  <1>2. /\ Len(more) = Len(triggers) + 1 /\ more[Len(triggers) + 1] = pts
        /\ \A k \in 1 .. Len(triggers) : more[k] = triggers[k]
    BY AppendProperties
  <1>3. /\ Len(all) = Len(queue) + 1 /\ all[Len(queue) + 1] = pts
        /\ \A k \in 1 .. Len(queue) : all[k] = queue[k]
    BY AppendProperties
  <1>a. n <= Len(triggers) /\ Len(queue) = Len(triggers) - n
    BY DEF Answered, Waiting
  <1>b. \A k \in 1 .. Len(queue) : queue[k] = triggers[n + k]
    BY DEF Answered, Waiting
  <1>c. \A k \in 1 .. n : made[k] > triggers[k]
    BY DEF Answered
  <1> HIDE DEF n, more, all
  <1>4. \A k \in 1 .. n : made[k] > more[k]
    <2> TAKE k \in 1 .. n
    <2>1. k \in 1 .. Len(triggers)
      BY <1>1, <1>a
    <2>2. QED
      BY <1>2, <1>c, <2>1
  <1>5. \A k \in 1 .. Len(all) : all[k] = more[n + k]
    <2> TAKE k \in 1 .. Len(all)
    <2>1. CASE k \in 1 .. Len(queue)
      <3>1. n + k \in 1 .. Len(triggers)
        BY <1>1, <1>a, <2>1
      <3>2. QED
        BY <1>2, <1>3, <1>b, <2>1, <3>1
    <2>2. CASE k = Len(queue) + 1
      <3>1. n + k = Len(triggers) + 1
        BY <1>1, <1>a, <2>2
      <3>2. QED
        BY <1>2, <1>3, <2>2, <3>1
    <2>3. QED
      BY <1>1, <1>3, <2>1, <2>2
  <1>6. n <= Len(more) /\ Len(all) = Len(more) - n
    BY <1>1, <1>2, <1>3, <1>a
  <1>7. QED
    BY <1>4, <1>5, <1>6 DEF Answered, Waiting, n, more, all

\* A stream that follows itself is never triggered.
LEMMA NoOwnTrigger ==
    ASSUME NEW queue \in Seq(Nat), NEW made \in Seq(Nat), Answered(queue, made, made)
    PROVE  queue = <<>>
  <1>1. Len(queue) = 0
    BY LenProperties DEF Answered, Waiting
  <1>2. QED
    BY <1>1, EmptySeq

\* The PTSs of the posts, as they grow.
LEMMA PTSFacts ==
    ASSUME NEW s \in Streams, NEW p \in Partitions, posts[s][p] \in Seq(Post)
    PROVE  PTSsOf(s, p) \in Seq(Nat)
  <1>1. \A k \in 1 .. Len(posts[s][p]) : posts[s][p][k].PTS \in Nat
    <2> DEFINE mine == posts[s][p]
    <2>1. mine \in Seq(Post)
      OBVIOUS
    <2> HIDE DEF mine
    <2>2. \A k \in 1 .. Len(mine) : mine[k] \in Post
      BY <2>1, ElementOfSeq
    <2>3. QED
      BY <2>2 DEF mine, Post
  <1>2. DOMAIN posts[s][p] = 1 .. Len(posts[s][p]) /\ Len(posts[s][p]) \in Nat
    BY LenProperties
  <1>3. QED
    BY <1>1, <1>2, SeqDef DEF PTSsOf

LEMMA PTSAppended ==
    ASSUME NEW s \in Streams, NEW p \in Partitions, posts[s][p] \in Seq(Post), NEW post \in Post,
           posts'[s][p] = Append(posts[s][p], post)
    PROVE  PTSsOf(s, p)' = Append(PTSsOf(s, p), post.PTS)
  <1> DEFINE old == posts[s][p]
             new == posts'[s][p]
             n == Len(old)
             had == PTSsOf(s, p)
             has == PTSsOf(s, p)'
  <1>1. n \in Nat /\ DOMAIN old = 1 .. n /\ old \in Seq(Post)
    BY LenProperties
  <1>2. /\ new \in Seq(Post) /\ Len(new) = n + 1 /\ DOMAIN new = 1 .. (n + 1)
        /\ new[n + 1] = post /\ \A k \in 1 .. n : new[k] = old[k]
    BY AppendProperties, LenProperties
  <1>3. had = [k \in DOMAIN old |-> old[k].PTS] /\ has = [k \in DOMAIN new |-> new[k].PTS]
    BY DEF PTSsOf
  <1>4. had \in Seq(Nat)
    BY PTSFacts
  <1>p. post.PTS \in Nat
    BY DEF Post
  <1> HIDE DEF old, new, n, had, has
  <1>5. has = [k \in 1 .. (n + 1) |-> IF k = n + 1 THEN post.PTS ELSE had[k]]
    BY <1>1, <1>2, <1>3
  <1>6. Len(had) = n
    BY <1>1, <1>3, <1>4, LenProperties
  <1>7. Append(had, post.PTS) = has
    <2> DEFINE more == Append(had, post.PTS)
    <2>1. /\ more \in Seq(Nat) /\ Len(more) = n + 1 /\ more[n + 1] = post.PTS
          /\ \A k \in 1 .. n : more[k] = had[k]
      BY <1>4, <1>6, <1>p, AppendProperties
    <2> HIDE DEF more
    <2>2. \A k \in 1 .. (n + 1) : has[k] \in Nat /\ more[k] = has[k]
      BY <1>1, <1>4, <1>5, <1>6, <1>p, <2>1, ElementOfSeq
    <2>3. has \in Seq(Nat) /\ Len(has) = n + 1
      BY <1>1, <1>5, <2>2, SeqDef, LenProperties
    <2>4. QED
      BY <2>1, <2>2, <2>3, SeqEqual DEF more
  <1>8. QED
    BY <1>7 DEF had, has

-----------------------------------------------------------------------------
\* The steps.

\* The triggers of a stream and partition after a PES packet of stream s.
TriggersAfter(s, pts, boundaries, t, p) ==
    LET queue == queueLastImplicitPTS[t][p]
    IN  IF t = s THEN IF p \in Triggered(s, pts) THEN Tail(queue) ELSE queue
        ELSE IF Boundaries[t][p] = s /\ p \in boundaries THEN Append(queue, pts) ELSE queue

\* What a PES packet posts, and what it does to the triggers.
LEMMA PacketFacts ==
    ASSUME IInv, NEW x \in Packets, IsPES(x), Receive(x)
    PROVE  LET s == x.stream
               pts == x.PTS
               boundaries == detectBoundary(s, pts, x.ebp)
               post == [at |-> Len(received) + 1, PTS |-> pts]
           IN  /\ s \in Streams /\ pts \in Nat /\ post \in Post
               /\ received' \in Seq(Packets)
               /\ posts' \in [Streams -> [Partitions -> Seq(Post)]]
               /\ queueLastImplicitPTS' \in [Streams -> [Partitions -> Seq(Nat)]]
               /\ \A t \in Streams, p \in Partitions :
                     /\ posts'[t][p] = IF t = s /\ p \in boundaries
                                       THEN Append(posts[t][p], post) ELSE posts[t][p]
                     /\ queueLastImplicitPTS'[t][p] = TriggersAfter(s, pts, boundaries, t, p)
  <1> DEFINE s == x.stream
             pts == x.PTS
             boundaries == detectBoundary(s, pts, x.ebp)
             post == [at |-> Len(received) + 1, PTS |-> pts]
             queue == queueLastImplicitPTS
             NewPosts(p) == IF p \in boundaries THEN Append(posts[s][p], post) ELSE posts[s][p]
             NewQueue(t, p) == TriggersAfter(s, pts, boundaries, t, p)
  <1>1. s \in Streams /\ pts \in Nat
    BY PacketsAssumption
  <1>2. /\ received' = Append(received, x)
        /\ posts' = [posts EXCEPT ![s] = [p \in Partitions |-> NewPosts(p)]]
        /\ queueLastImplicitPTS' = [t \in Streams |-> [p \in Partitions |-> NewQueue(t, p)]]
    BY DEF Receive, validate_pes_packet, triggerImplicitBoundaries, TriggersAfter
  <1>3. /\ received \in Seq(Packets)
        /\ posts \in [Streams -> [Partitions -> Seq(Post)]]
        /\ queue \in [Streams -> [Partitions -> Seq(Nat)]]
    BY DEF IInv
  <1>4. post \in Post
    BY <1>1, <1>3, LenProperties DEF Post
  <1>t. \A p \in Triggered(s, pts) : queue[s][p] # <<>>
    BY DEF Triggered
  <1> HIDE DEF s, pts, boundaries, post, queue
  <1>5. \A p \in Partitions : NewPosts(p) \in Seq(Post)
    BY <1>1, <1>3, <1>4, AppendProperties
  <1>6. \A t \in Streams, p \in Partitions : NewQueue(t, p) \in Seq(Nat)
    <2> TAKE t \in Streams, p \in Partitions
    <2>1. queue[t][p] \in Seq(Nat)
      BY <1>3
    <2>2. Append(queue[t][p], pts) \in Seq(Nat)
      BY <1>1, <2>1, AppendProperties
    <2>3. queue[t][p] # <<>> => Tail(queue[t][p]) \in Seq(Nat)
      BY <2>1, HeadTailProperties
    <2>4. QED
      BY <1>t, <2>1, <2>2, <2>3 DEF TriggersAfter, queue
  <1>7. received' \in Seq(Packets)
    BY <1>2, <1>3, AppendProperties
  <1>8. /\ posts' \in [Streams -> [Partitions -> Seq(Post)]]
        /\ \A t \in Streams, p \in Partitions :
              posts'[t][p] = IF t = s THEN NewPosts(p) ELSE posts[t][p]
    <2> HIDE DEF NewPosts
    <2> QED BY <1>1, <1>2, <1>3, <1>5
  <1>9. /\ queueLastImplicitPTS' \in [Streams -> [Partitions -> Seq(Nat)]]
        /\ \A t \in Streams, p \in Partitions : queueLastImplicitPTS'[t][p] = NewQueue(t, p)
    <2> HIDE DEF NewQueue
    <2> QED BY <1>2, <1>6
  <1>10. \A t \in Streams, p \in Partitions :
            posts'[t][p] = IF t = s /\ p \in boundaries
                           THEN Append(posts[t][p], post) ELSE posts[t][p]
    BY <1>8
  <1>11. QED
    BY <1>1, <1>4, <1>7, <1>8, <1>9, <1>10 DEF s, pts, boundaries, post, queue

\* A PES packet answers triggers and leaves new ones.
LEMMA PacketInv ==
    ASSUME IInv, NEW x \in Packets, IsPES(x), Receive(x)
    PROVE  IInv'
  <1> DEFINE s == x.stream
             pts == x.PTS
             boundaries == detectBoundary(s, pts, x.ebp)
             post == [at |-> Len(received) + 1, PTS |-> pts]
             queue == queueLastImplicitPTS
             Followed(t, p) == Answered(queueLastImplicitPTS[t][p], PTSsOf(t, p),
                                        PTSsOf(Boundaries[t][p], p))
  <1>1. /\ s \in Streams /\ pts \in Nat /\ post \in Post /\ post.PTS = pts
        /\ received' \in Seq(Packets)
        /\ posts' \in [Streams -> [Partitions -> Seq(Post)]]
        /\ queueLastImplicitPTS' \in [Streams -> [Partitions -> Seq(Nat)]]
    BY PacketFacts
  <1>2. \A t \in Streams, p \in Partitions :
           posts'[t][p] = IF t = s /\ p \in boundaries THEN Append(posts[t][p], post)
                          ELSE posts[t][p]
    BY PacketFacts
  <1>3. \A t \in Streams, p \in Partitions :
           queueLastImplicitPTS'[t][p] =
              IF t = s THEN IF p \in Triggered(s, pts) THEN Tail(queue[t][p]) ELSE queue[t][p]
              ELSE IF Boundaries[t][p] = s /\ p \in boundaries
                   THEN Append(queue[t][p], pts) ELSE queue[t][p]
    <2> TAKE t \in Streams, p \in Partitions
    <2>1. queueLastImplicitPTS'[t][p] = TriggersAfter(s, pts, boundaries, t, p)
      BY PacketFacts
    <2> HIDE DEF s, pts, boundaries
    <2>2. QED
      BY <2>1 DEF TriggersAfter, queue
  <1>4. \A t \in Streams, p \in Partitions : posts[t][p] \in Seq(Post) /\ queue[t][p] \in Seq(Nat)
    BY DEF IInv
  <1>5. \A t \in Streams, p \in Partitions :
           /\ PTSsOf(t, p) \in Seq(Nat)
           /\ PTSsOf(t, p)' = IF t = s /\ p \in boundaries THEN Append(PTSsOf(t, p), pts)
                              ELSE PTSsOf(t, p)
    <2> TAKE t \in Streams, p \in Partitions
    <2>1. PTSsOf(t, p) \in Seq(Nat)
      BY <1>4, PTSFacts
    <2>2. CASE t = s /\ p \in boundaries
      <3>1. posts'[t][p] = Append(posts[t][p], post)
        BY <1>2, <2>2
      <3>2. PTSsOf(t, p)' = Append(PTSsOf(t, p), post.PTS)
        BY <1>1, <1>4, <3>1, PTSAppended
      <3>3. QED
        BY <1>1, <2>1, <2>2, <3>2
    <2>3. CASE ~(t = s /\ p \in boundaries)
      <3>1. posts'[t][p] = posts[t][p]
        BY <1>2, <2>3
      <3>2. PTSsOf(t, p)' = PTSsOf(t, p)
        BY <3>1 DEF PTSsOf
      <3>3. QED
        BY <2>1, <2>3, <3>2
    <2>4. QED
      BY <2>2, <2>3
  <1>6. \A p \in Partitions : p \in Triggered(s, pts) <=>
           /\ IsImplicit(s, p) /\ queue[s][p] # <<>> /\ pts > Head(queue[s][p])
    BY DEF Triggered
  <1>7. \A p \in Partitions : IsImplicit(s, p) => (p \in boundaries <=> p \in Triggered(s, pts))
    BY PacketsAssumption DEF detectBoundary, IsImplicit
  <1> HIDE DEF s, pts, boundaries, post, queue
  <1>8. ASSUME NEW t \in Streams, NEW p \in Partitions, IsImplicit(t, p)
        PROVE  Followed(t, p)'
    <2> DEFINE u == Boundaries[t][p]
    <2>1. u \in Streams
      BY <1>8 DEF IsImplicit
    <2>2. Answered(queue[t][p], PTSsOf(t, p), PTSsOf(u, p))
      BY <1>8 DEF IInv, queue
    <2> SUFFICES Answered(queueLastImplicitPTS'[t][p], PTSsOf(t, p)', PTSsOf(u, p)')
      OBVIOUS
    <2>3. /\ queue[t][p] \in Seq(Nat)
          /\ PTSsOf(t, p) \in Seq(Nat) /\ PTSsOf(u, p) \in Seq(Nat)
      BY <1>4, <1>5, <2>1
    <2> HIDE DEF u
    <2>4. CASE t = s /\ p \in Triggered(s, pts)
      <3>1. u # s
        <4>1. u = s => queue[t][p] = <<>>
          BY <2>2, <2>3, <2>4, NoOwnTrigger
        <4>2. QED
          BY <1>6, <2>4, <4>1
      <3>2. queue[t][p] # <<>> /\ pts > Head(queue[t][p]) /\ p \in boundaries
        BY <1>6, <1>7, <1>8, <2>4
      <3>3. /\ queueLastImplicitPTS'[t][p] = Tail(queue[t][p])
            /\ PTSsOf(t, p)' = Append(PTSsOf(t, p), pts)
            /\ PTSsOf(u, p)' = PTSsOf(u, p)
        BY <1>3, <1>5, <2>1, <2>4, <3>1, <3>2
      <3>4. QED
        BY <1>1, <2>2, <2>3, <3>2, <3>3, AnswerOldest
    <2>5. CASE t = s /\ p \notin Triggered(s, pts)
      <3>1. p \notin boundaries
        BY <1>7, <1>8, <2>5
      <3>2. /\ queueLastImplicitPTS'[t][p] = queue[t][p]
            /\ PTSsOf(t, p)' = PTSsOf(t, p) /\ PTSsOf(u, p)' = PTSsOf(u, p)
        BY <1>3, <1>5, <2>1, <2>5, <3>1
      <3>3. QED
        BY <2>2, <3>2
    <2>6. CASE t # s /\ u = s /\ p \in boundaries
      <3>1. /\ queueLastImplicitPTS'[t][p] = Append(queue[t][p], pts)
            /\ PTSsOf(t, p)' = PTSsOf(t, p)
            /\ PTSsOf(u, p)' = Append(PTSsOf(u, p), pts)
        BY <1>3, <1>5, <2>1, <2>6 DEF u
      <3>2. QED
        BY <1>1, <2>2, <2>3, <3>1, AddTrigger
    <2>7. CASE t # s /\ ~(u = s /\ p \in boundaries)
      <3>1. /\ queueLastImplicitPTS'[t][p] = queue[t][p]
            /\ PTSsOf(t, p)' = PTSsOf(t, p) /\ PTSsOf(u, p)' = PTSsOf(u, p)
        BY <1>3, <1>5, <2>1, <2>7 DEF u
      <3>2. QED
        BY <2>2, <3>1
    <2>8. QED
      BY <2>4, <2>5, <2>6, <2>7
  <1>9. \A t \in Streams, p \in Partitions : IsImplicit(t, p)' => Followed(t, p)'
    BY <1>8 DEF IsImplicit
  <1>10. QED
    BY <1>1, <1>9 DEF IInv

LEMMA InitInv == Init => IInv
  <1> SUFFICES ASSUME Init PROVE IInv
    OBVIOUS
  <1>1. <<>> \in Seq(Packets) /\ <<>> \in Seq(Post) /\ <<>> \in Seq(Nat) /\ Len(<<>>) = 0
    BY EmptySeq
  <1>2. \A s \in Streams, p \in Partitions :
           posts[s][p] = <<>> /\ queueLastImplicitPTS[s][p] = <<>>
    BY DEF Init
  <1>3. \A s \in Streams, p \in Partitions : PTSsOf(s, p) \in Seq(Nat) /\ PTSsOf(s, p) = <<>>
    <2> TAKE s \in Streams, p \in Partitions
    <2>1. PTSsOf(s, p) \in Seq(Nat)
      BY <1>1, <1>2, PTSFacts
    <2>2. DOMAIN PTSsOf(s, p) = DOMAIN posts[s][p] /\ DOMAIN posts[s][p] = 1 .. 0
      BY <1>1, <1>2, LenProperties DEF PTSsOf
    <2>3. Len(PTSsOf(s, p)) = 0
      BY <2>1, <2>2, LenProperties
    <2>4. QED
      BY <2>1, <2>3, EmptySeq
  <1>4. Answered(<<>>, <<>>, <<>>)
    BY <1>1 DEF Answered, Waiting
  <1>5. ASSUME NEW s \in Streams, NEW p \in Partitions, IsImplicit(s, p)
        PROVE  Answered(queueLastImplicitPTS[s][p], PTSsOf(s, p), PTSsOf(Boundaries[s][p], p))
    BY <1>2, <1>3, <1>4, <1>5 DEF IsImplicit
  <1>6. QED
    BY <1>1, <1>5 DEF Init, IInv

\* Sections of SCTE 35 neither post nor trigger.
LEMMA NextInv == IInv /\ [Next]_vars => IInv'
  <1> SUFFICES ASSUME IInv, [Next]_vars PROVE IInv'
    OBVIOUS
  <1>1. ASSUME NEW x \in Packets, Receive(x), IsPES(x) PROVE IInv'
    BY <1>1, PacketInv
  <1>2. ASSUME NEW x \in Packets, Receive(x), ~IsPES(x) PROVE IInv'
    <2>1. received' = Append(received, x) /\ UNCHANGED <<posts, queueLastImplicitPTS>>
      BY <1>2 DEF Receive, validate_ts_packet
    <2>2. received' \in Seq(Packets)
      BY <2>1, AppendProperties DEF IInv
    <2>3. QED
      BY <2>1, <2>2 DEF IInv, PTSsOf, IsImplicit
  <1>3. CASE UNCHANGED vars
    BY <1>3 DEF vars, IInv, PTSsOf, IsImplicit
  <1>4. QED
    BY <1>1, <1>2, <1>3 DEF Next

THEOREM Invariance == Spec => []IInv
  BY InitInv, NextInv, PTL DEF Spec

\* Each boundary of a stream makes one boundary of each stream that follows it, of a later
\* PTS and in order, or still waits to: no trigger is lost, answered twice or overtaken
\* by another (EBPIngestThreadCommon.c:928-990).
THEOREM EveryTriggerIsAnswered == Spec => []TriggersAnswered
  <1>1. IInv => TriggersAnswered
    <2> SUFFICES ASSUME IInv, NEW s \in Streams, NEW p \in Partitions, IsImplicit(s, p)
                 PROVE  LET made     == PTSsOf(s, p)
                            triggers == PTSsOf(Boundaries[s][p], p)
                        IN  /\ Len(made) <= Len(triggers)
                            /\ \A k \in DOMAIN made : made[k] > triggers[k]
                            /\ queueLastImplicitPTS[s][p] =
                                  SubSeq(triggers, Len(made) + 1, Len(triggers))
      BY DEF TriggersAnswered
    <2> DEFINE made == PTSsOf(s, p)
               triggers == PTSsOf(Boundaries[s][p], p)
               queue == queueLastImplicitPTS[s][p]
    <2>1. Answered(queue, made, triggers)
      BY DEF IInv
    <2>2. queue \in Seq(Nat) /\ made \in Seq(Nat) /\ triggers \in Seq(Nat)
      BY PTSFacts DEF IInv, IsImplicit
    <2> HIDE DEF queue, made, triggers
    <2>3. Len(made) \in Nat /\ DOMAIN made = 1 .. Len(made)
      BY <2>2, LenProperties
    <2>4. queue = SubSeq(triggers, Len(made) + 1, Len(triggers))
      BY <2>1, <2>2, <2>3, WaitingIsSubSeq DEF Answered
    <2>5. QED
      BY <2>1, <2>3, <2>4 DEF Answered, Waiting, queue, made, triggers
  <1>2. QED
    BY <1>1, Invariance, PTL

-----------------------------------------------------------------------------
\* Numbers and finite sets of them.

\* A set of numbers that is not empty has a least one.
LEMMA HasMin == ASSUME NEW T, T \subseteq Nat, T # {}
                PROVE  \E x \in T : \A y \in T : x <= y
  <1> DEFINE R == OpToRel(<, Nat)
  <1>1. IsWellFoundedOn(R, Nat)
    BY NatLessThanWellFounded, Zenon
  <1>2. R = {ss \in Nat \X Nat : ss[1] < ss[2]}
    BY Zenon DEF OpToRel
  <1> HIDE DEF R
  <1>3. \A x, y \in Nat : <<y, x>> \in R <=> y < x
    BY <1>2
  <1>4. PICK x \in T : \A y \in T : ~(<<y, x>> \in R)
    BY <1>1, WFMin, Zenon
  <1>5. ASSUME NEW y \in T PROVE x <= y
    <2>1. ~(y < x) /\ x \in Nat /\ y \in Nat
      BY <1>3, <1>4
    <2>2. QED
      BY <2>1
  <1>6. QED
    BY <1>5

\* A finite set of numbers that is not empty has a greatest one: of the parts of it
\* that have none, the smallest would have one.
LEMMA HasMax == ASSUME NEW S, S \subseteq Nat, IsFiniteSet(S), S # {}
                PROVE  Max(S) \in S /\ \A y \in S : y <= Max(S)
  <1> DEFINE Top(T) == \E x \in T : \A y \in T : x >= y
             Bad == {n \in Nat : \E T \in SUBSET S : T # {} /\ Cardinality(T) = n /\ ~Top(T)}
  <1>1. \A T \in SUBSET S : IsFiniteSet(T) /\ Cardinality(T) \in Nat
    BY FS_Subset, FS_CardinalityType
  <1>2. ASSUME NEW T \in SUBSET S, T # {}, ~Top(T) PROVE FALSE
    <2>1. Bad # {} /\ Bad \subseteq Nat
      BY <1>1, <1>2
    <2>2. PICK n \in Bad : \A m \in Bad : n <= m
      BY <2>1, HasMin
    <2>3. PICK U \in SUBSET S : U # {} /\ Cardinality(U) = n /\ ~Top(U)
      BY <2>2
    <2>4. PICK x \in U : TRUE
      BY <2>3
    <2> DEFINE V == U \ {x}
    <2>5. V \in SUBSET S /\ Cardinality(V) = n - 1 /\ n \in Nat
      BY <1>1, <2>2, <2>3, <2>4, FS_RemoveElement
    <2>6. CASE V = {}
      <3>1. U = {x} /\ x \in Nat
        BY <2>4, <2>6
      <3>2. QED
        BY <2>3, <3>1
    <2>7. CASE V # {}
      <3>1. Cardinality(V) \in Nat
        BY <1>1, <2>5
      <3>2. n - 1 \notin Bad
        BY <2>2, <2>5
      <3>3. Top(V)
        BY <2>5, <2>7, <3>1, <3>2
      <3>4. PICK y \in V : \A z \in V : y >= z
        BY <3>3
      <3>5. x \in Nat /\ U = V \cup {x} /\ \A z \in U : z \in Nat
        BY <2>4
      <3>6. CASE x >= y
        <4>1. \A z \in U : x >= z
          BY <3>4, <3>5, <3>6
        <4>2. QED
          BY <2>3, <2>4, <4>1
      <3>7. CASE y >= x
        <4>1. \A z \in U : y >= z
          BY <3>4, <3>5, <3>7
        <4>2. QED
          BY <2>3, <3>4, <4>1
      <3>8. QED
        BY <3>4, <3>5, <3>6, <3>7
    <2>8. QED
      BY <2>6, <2>7
  <1>3. Top(S)
    BY <1>2
  <1>4. Max(S) \in S /\ \A y \in S : Max(S) >= y
    BY <1>3 DEF Max
  <1>5. QED
    BY <1>4

\* The numbers of a set are counted from 1.
LEMMA Ranks ==
    ASSUME NEW n \in Nat, NEW T \in SUBSET (1 .. n)
    PROVE  LET rank(i) == Cardinality({j \in T : j <= i})
           IN  /\ IsFiniteSet(T) /\ Cardinality(T) \in Nat
               /\ \A i \in T : rank(i) \in 1 .. Cardinality(T)
               /\ \A i, j \in T : i < j => rank(i) < rank(j)
               /\ \A k \in 1 .. Cardinality(T) : \E i \in T : rank(i) = k
  <1> DEFINE upTo(i) == {j \in T : j <= i}
             rank(i) == Cardinality(upTo(i))
             c == Cardinality(T)
  <1>1. IsFiniteSet(T) /\ c \in Nat
    <2>1. IsFiniteSet(1 .. n)
      BY FS_Interval
    <2>2. IsFiniteSet(T)
      BY <2>1, FS_Subset
    <2>3. QED
      BY <2>2, FS_CardinalityType
  <1>2. \A i \in T : IsFiniteSet(upTo(i)) /\ rank(i) \in Nat /\ rank(i) <= c /\ i \in upTo(i)
    <2> TAKE i \in T
    <2>1. upTo(i) \in SUBSET T
      OBVIOUS
    <2> HIDE DEF upTo
    <2>2. IsFiniteSet(upTo(i)) /\ rank(i) <= c
      BY <1>1, <2>1, FS_Subset
    <2>3. rank(i) \in Nat
      BY <2>2, FS_CardinalityType
    <2>4. i \in upTo(i)
      BY DEF upTo
    <2>5. QED
      BY <2>2, <2>3, <2>4
  <1>3. \A i \in T : rank(i) \in 1 .. c
    <2> TAKE i \in T
    <2> HIDE DEF upTo
    <2>1. rank(i) # 0
      BY <1>2, FS_EmptySet
    <2>2. QED
      BY <1>1, <1>2, <2>1
  <1>4. ASSUME NEW i \in T, NEW j \in T, i < j PROVE rank(i) < rank(j)
    <2>1. upTo(i) \in SUBSET upTo(j) /\ j \notin upTo(i)
      <3>1. \A k \in T : k \in Int
        OBVIOUS
      <3>2. ASSUME NEW k \in T, k <= i PROVE k <= j
        BY <1>4, <3>1, <3>2
      <3>3. ~(j <= i)
        BY <1>4, <3>1
      <3>4. QED
        BY <3>2, <3>3
    <2> HIDE DEF upTo
    <2>2. rank(i) <= rank(j) /\ rank(i) # rank(j)
      BY <1>2, <2>1, FS_Subset
    <2>3. QED
      BY <1>2, <2>2
  <1> DEFINE r == [i \in T |-> rank(i)]
  <1>5. r \in Injection(T, 1 .. c)
    <2>1. r \in [T -> 1 .. c]
      BY <1>3
    <2>2. ASSUME NEW i \in T, NEW j \in T, r[i] = r[j] PROVE i = j
      <3>1. rank(i) = rank(j) /\ rank(i) \in Nat /\ i \in Int /\ j \in Int
        BY <1>2, <2>2
      <3> HIDE DEF rank
      <3>2. ~(i < j) /\ ~(j < i)
        BY <1>4, <3>1
      <3>3. QED
        BY <3>1, <3>2
    <2> HIDE DEF r
    <2>3. QED
      BY <2>1, <2>2 DEF Injection, IsInjective
  <1>6. IsFiniteSet(1 .. c) /\ Cardinality(1 .. c) = c
    BY <1>1, FS_Interval
  <1>7. r \in Surjection(T, 1 .. c)
    <2> HIDE DEF r, c
    <2>1. QED
      BY <1>5, <1>6, FS_Injection DEF c
  <1>8. \A k \in 1 .. c : \E i \in T : rank(i) = k
    <2> HIDE DEF rank
    <2>1. QED
      BY <1>7 DEF Surjection
  <1>9. QED
    BY <1>1, <1>3, <1>4, <1>8

-----------------------------------------------------------------------------
\* Lists and what is taken out of them.

\* R is what is left of L, in its order: f says where each element was.
Embeds(R, L, f) ==
    /\ f \in [1 .. Len(R) -> 1 .. Len(L)]
    /\ \A k \in 1 .. Len(R) : R[k] = L[f[k]]
    /\ \A j, k \in 1 .. Len(R) : j < k => f[j] < f[k]

LEMMA SameList ==
    ASSUME NEW S, NEW L \in Seq(S)
    PROVE  \E f : Embeds(L, L, f) /\ Range(f) = 1 .. Len(L)
  <1> DEFINE f == [k \in 1 .. Len(L) |-> k]
  <1>1. Embeds(L, L, f)
    BY LenProperties DEF Embeds
  <1>2. Range(f) = 1 .. Len(L)
    BY DEF Range
  <1>3. QED
    BY <1>1, <1>2

\* What h takes from L is what f takes, and what g takes from the rest, M.
Composes(h, f, g, L, M) ==
    /\ \A i \in 1 .. Len(L) :
          i \notin Range(h) => \/ i \notin Range(f)
                               \/ \E j \in 1 .. Len(M) : j \notin Range(g) /\ i = f[j]
    /\ Range(h) \subseteq Range(f)

LEMMA LeftOfWhatIsLeft ==
    ASSUME NEW S, NEW L \in Seq(S), NEW M \in Seq(S), NEW R \in Seq(S),
           NEW f, NEW g, Embeds(M, L, f), Embeds(R, M, g)
    PROVE  \E h : Embeds(R, L, h) /\ Composes(h, f, g, L, M)
  <1> DEFINE h == [k \in 1 .. Len(R) |-> f[g[k]]]
  <1>1. /\ f \in [1 .. Len(M) -> 1 .. Len(L)] /\ g \in [1 .. Len(R) -> 1 .. Len(M)]
        /\ \A k \in 1 .. Len(M) : M[k] = L[f[k]]
        /\ \A k \in 1 .. Len(R) : R[k] = M[g[k]]
        /\ \A j, k \in 1 .. Len(M) : j < k => f[j] < f[k]
        /\ \A j, k \in 1 .. Len(R) : j < k => g[j] < g[k]
    BY DEF Embeds
  <1>2. Embeds(R, L, h)
    BY <1>1 DEF Embeds
  <1>3. /\ \A i : i \in Range(h) <=> \E k \in 1 .. Len(R) : i = f[g[k]]
        /\ \A i : i \in Range(f) <=> \E k \in 1 .. Len(M) : i = f[k]
        /\ \A i : i \in Range(g) <=> \E k \in 1 .. Len(R) : i = g[k]
    BY <1>1 DEF Range
  <1> HIDE DEF h
  <1>4. ASSUME NEW i \in 1 .. Len(L), i \notin Range(h), i \in Range(f)
        PROVE  \E j \in 1 .. Len(M) : j \notin Range(g) /\ i = f[j]
    BY <1>3, <1>4
  <1>5. Range(h) \subseteq Range(f)
    <2> SUFFICES ASSUME NEW i \in Range(h) PROVE i \in Range(f)
      OBVIOUS
    <2>1. PICK k \in 1 .. Len(R) : i = f[g[k]]
      BY <1>3
    <2>2. g[k] \in 1 .. Len(M)
      BY <1>1, Zenon
    <2>3. QED
      BY <1>3, <2>1, <2>2, Zenon
  <1>6. QED
    BY <1>2, <1>4, <1>5 DEF Composes

LEMMA RemoveEmbeds ==
    ASSUME NEW S, NEW L \in Seq(S), NEW i \in 1 .. Len(L)
    PROVE  /\ RemoveAt(L, i) \in Seq(S)
           /\ \E f : Embeds(RemoveAt(L, i), L, f) /\ Range(f) = (1 .. Len(L)) \ {i}
  <1> DEFINE n == Len(L)
             A == SubSeq(L, 1, i - 1)
             B == SubSeq(L, i + 1, n)
             R == A \o B
             f == [k \in 1 .. n - 1 |-> IF k < i THEN k ELSE k + 1]
  <1>1. n \in Nat /\ i \in 1 .. n /\ \A k \in 1 .. n : L[k] \in S
    BY LenProperties, ElementOfSeq
  <1>2. /\ A \in Seq(S) /\ Len(A) = i - 1
        /\ \A k \in 1 .. i - 1 : A[k] = L[k]
    <2>1. \A k \in 1 .. i - 1 : L[k] \in S
      BY <1>1
    <2>2. /\ A \in Seq(S) /\ Len(A) = IF 1 <= i - 1 THEN i - 1 - 1 + 1 ELSE 0
          /\ \A k \in 1 .. i - 1 - 1 + 1 : A[k] = L[1 + k - 1]
      BY <1>1, <2>1, SubSeqProperties
    <2> HIDE DEF A, n
    <2>3. QED
      BY <1>1, <2>2
  <1>3. /\ B \in Seq(S) /\ Len(B) = n - i
        /\ \A k \in 1 .. n - i : B[k] = L[k + i]
    <2>1. \A k \in i + 1 .. n : L[k] \in S
      BY <1>1
    <2>2. /\ B \in Seq(S) /\ Len(B) = IF i + 1 <= n THEN n - (i + 1) + 1 ELSE 0
          /\ \A k \in 1 .. n - (i + 1) + 1 : B[k] = L[i + 1 + k - 1]
      BY <1>1, <2>1, SubSeqProperties
    <2> HIDE DEF B, n
    <2>3. QED
      BY <1>1, <2>2
  <1>4. /\ R \in Seq(S) /\ Len(R) = n - 1
        /\ \A k \in 1 .. n - 1 : R[k] = IF k <= i - 1 THEN A[k] ELSE B[k - (i - 1)]
    <2>1. /\ R \in Seq(S) /\ Len(R) = Len(A) + Len(B)
          /\ \A k \in 1 .. Len(A) + Len(B) : R[k] = IF k <= Len(A) THEN A[k] ELSE B[k - Len(A)]
      BY <1>2, <1>3, ConcatProperties
    <2> HIDE DEF A, B, R, n
    <2>2. Len(A) + Len(B) = n - 1
      BY <1>1, <1>2, <1>3
    <2>3. QED
      BY <1>2, <2>1, <2>2
  <1> HIDE DEF A, B, R, n
  <1>5. \A k \in 1 .. n - 1 : R[k] = L[f[k]]
    <2> TAKE k \in 1 .. n - 1
    <2>1. CASE k < i
      BY <1>1, <1>2, <1>4, <2>1
    <2>2. CASE ~(k < i)
      <3>1. k - (i - 1) \in 1 .. n - i /\ k - (i - 1) + i = k + 1
        BY <1>1, <2>2
      <3>2. R[k] = B[k - (i - 1)]
        BY <1>1, <1>4, <2>2
      <3>3. QED
        BY <1>3, <2>2, <3>1, <3>2
    <2>3. QED
      BY <2>1, <2>2
  <1>6. Embeds(R, L, f)
    <2>1. f \in [1 .. n - 1 -> 1 .. n]
      BY <1>1
    <2>2. \A j, k \in 1 .. n - 1 : j < k => f[j] < f[k]
      BY <1>1
    <2> HIDE DEF f
    <2>3. QED
      BY <1>4, <1>5, <2>1, <2>2 DEF Embeds, n
  <1>7. Range(f) = (1 .. n) \ {i}
    <2>1. ASSUME NEW j \in 1 .. n, j # i PROVE \E k \in 1 .. n - 1 : f[k] = j
      <3>1. CASE j < i
        <4>1. j \in 1 .. n - 1 /\ f[j] = j
          BY <1>1, <3>1
        <4>2. QED
          BY <4>1
      <3>2. CASE j > i
        <4>1. j - 1 \in 1 .. n - 1 /\ f[j - 1] = j
          BY <1>1, <3>2
        <4>2. QED
          BY <4>1
      <3>3. QED
        BY <1>1, <2>1, <3>1, <3>2
    <2>2. \A k \in 1 .. n - 1 : f[k] \in (1 .. n) \ {i}
      BY <1>1
    <2>3. DOMAIN f = 1 .. n - 1
      OBVIOUS
    <2> HIDE DEF f
    <2>4. QED
      BY <2>1, <2>2, <2>3 DEF Range
  <1>8. R = RemoveAt(L, i)
    BY DEF R, A, B, n, RemoveAt
  <1>9. QED
    BY <1>4, <1>6, <1>7, <1>8 DEF n

LEMMA FirstOf ==
    ASSUME NEW n, NEW I \in SUBSET (1 .. n), I # {}
    PROVE  Min(I) \in I /\ \A j \in I : Min(I) <= j
  <1>1. I \subseteq Nat
    OBVIOUS
  <1>2. \E x \in I : \A y \in I : x <= y
    BY <1>1, HasMin
  <1>3. QED
    BY <1>2 DEF Min

\* A boundary takes one splice near it from a list, if there is one.
LEMMA TakesOne ==
    ASSUME NEW S, NEW L \in Seq(S), NEW s, NEW pts
    PROVE  LET R == checkEBPAgainstSCTE35Points(L, s, pts)
           IN  /\ R \in Seq(S)
               /\ \E f : /\ Embeds(R, L, f)
                         /\ \A i \in 1 .. Len(L) : i \notin Range(f) => Near(L[i], s, pts)
                         /\ (\E i \in 1 .. Len(L) : Near(L[i], s, pts)) =>
                               \E i \in 1 .. Len(L) : i \notin Range(f)
  <1> DEFINE I == {i \in 1 .. Len(L) : Near(L[i], s, pts)}
             R == checkEBPAgainstSCTE35Points(L, s, pts)
  <1>0. Len(L) \in Nat
    BY LenProperties
  <1>1. R = LET i == IF I # {} THEN Min(I) ELSE 0 IN IF i = 0 THEN L ELSE RemoveAt(L, i)
    BY DEF checkEBPAgainstSCTE35Points, SelectInSeq
  <1>2. CASE I = {}
    <2>1. R = L
      BY <1>1, <1>2
    <2>2. PICK f : Embeds(L, L, f) /\ Range(f) = 1 .. Len(L)
      BY SameList
    <2>3. ~ \E i \in 1 .. Len(L) : Near(L[i], s, pts)
      BY <1>2
    <2> HIDE DEF R, I
    <2>4. /\ Embeds(R, L, f)
          /\ \A i \in 1 .. Len(L) : i \notin Range(f) => Near(L[i], s, pts)
          /\ (\E i \in 1 .. Len(L) : Near(L[i], s, pts)) =>
                \E i \in 1 .. Len(L) : i \notin Range(f)
      BY <2>1, <2>2, <2>3
    <2>5. R \in Seq(S)
      BY <2>1
    <2>6. QED
      BY <2>4, <2>5 DEF R
  <1>3. CASE I # {}
    <2>1. Min(I) \in I
      BY <1>3, FirstOf
    <2>2. R = RemoveAt(L, Min(I))
      BY <1>0, <1>1, <1>3, <2>1
    <2>3. /\ R \in Seq(S)
          /\ \E f : Embeds(R, L, f) /\ Range(f) = (1 .. Len(L)) \ {Min(I)}
      <3>1. PICK m \in 1 .. Len(L) : m = Min(I)
        BY <2>1
      <3> HIDE DEF R, I
      <3>2. /\ RemoveAt(L, m) \in Seq(S)
            /\ \E f : Embeds(RemoveAt(L, m), L, f) /\ Range(f) = (1 .. Len(L)) \ {m}
        BY RemoveEmbeds
      <3>3. R = RemoveAt(L, m)
        BY <2>2, <3>1
      <3>4. QED
        BY <3>1, <3>2, <3>3, Zenon
    <2>4. PICK f : Embeds(R, L, f) /\ Range(f) = (1 .. Len(L)) \ {Min(I)}
      BY <2>3
    <2>5. Min(I) \in 1 .. Len(L) /\ Near(L[Min(I)], s, pts)
      BY <2>1
    <2>6. R \in Seq(S)
      BY <2>3
    <2> HIDE DEF R, I
    <2>7. /\ \A i \in 1 .. Len(L) : i \notin Range(f) => Near(L[i], s, pts)
          /\ (\E i \in 1 .. Len(L) : Near(L[i], s, pts)) =>
                \E i \in 1 .. Len(L) : i \notin Range(f)
      BY <2>4, <2>5
    <2>8. QED
      BY <2>4, <2>6, <2>7 DEF R
  <1>4. QED
    BY <1>2, <1>3

\* All that have passed are taken out, and nothing else.
LEMMA PassedAreTaken ==
    ASSUME NEW S, NEW L \in Seq(S), NEW s, NEW pts
    PROVE  LET R == checkPTSAgainstSCTE35Points(L, s, pts)
           IN  /\ R \in Seq(S)
               /\ \E f : /\ Embeds(R, L, f)
                         /\ \A i \in 1 .. Len(L) : i \in Range(f) <=> ~Passed(L[i], s, pts)
               /\ R = L <=> \A i \in 1 .. Len(L) : ~Passed(L[i], s, pts)
  <1> DEFINE n == Len(L)
             kept == {i \in 1 .. n : ~Passed(L[i], s, pts)}
             c == Cardinality(kept)
             rank(i) == Cardinality({j \in kept : j <= i})
             place(k) == CHOOSE i \in kept : rank(i) = k
             f == [k \in 1 .. c |-> place(k)]
             R == [k \in 1 .. c |-> L[place(k)]]
  <1>1. n \in Nat /\ DOMAIN L = 1 .. n /\ \A k \in 1 .. n : L[k] \in S
    BY LenProperties, ElementOfSeq
  <1>2. R = checkPTSAgainstSCTE35Points(L, s, pts)
    BY <1>1 DEF checkPTSAgainstSCTE35Points
  <1>3. /\ IsFiniteSet(kept) /\ c \in Nat
        /\ \A i \in kept : rank(i) \in 1 .. c
        /\ \A i, j \in kept : i < j => rank(i) < rank(j)
        /\ \A k \in 1 .. c : \E i \in kept : rank(i) = k
    <2>1. kept \in SUBSET (1 .. n)
      OBVIOUS
    <2> HIDE DEF kept, n
    <2>2. QED
      BY <1>1, <2>1, Ranks
  <1>k. \A i \in kept : i \in 1 .. n /\ i \in Int
    OBVIOUS
  <1>p. \A i \in 1 .. n : i \in kept <=> ~Passed(L[i], s, pts)
    OBVIOUS
  <1> HIDE DEF kept, n, rank, c
  <1>4. \A k \in 1 .. c : place(k) \in kept /\ rank(place(k)) = k
    BY <1>3
  <1>5. \A i \in kept : place(rank(i)) = i
    <2> TAKE i \in kept
    <2> DEFINE j == place(rank(i))
    <2>1. j \in kept /\ rank(j) = rank(i) /\ rank(i) \in Int
      BY <1>3, <1>4
    <2> HIDE DEF j
    <2>2. ~(i < j) /\ ~(j < i)
      BY <1>3, <2>1
    <2>3. QED
      BY <1>k, <2>1, <2>2 DEF j
  <1> HIDE DEF place
  <1>6. R \in Seq(S) /\ Len(R) = c
    <2>1. R \in [1 .. c -> S]
      BY <1>1, <1>4, <1>k
    <2> HIDE DEF R
    <2>2. R \in Seq(S)
      BY <1>3, <2>1, SeqDef
    <2>3. QED
      BY <1>3, <2>1, <2>2, LenProperties
  <1>7. Embeds(R, L, f)
    <2>1. f \in [1 .. c -> 1 .. n]
      BY <1>4, <1>k
    <2>2. ASSUME NEW j \in 1 .. c, NEW k \in 1 .. c, j < k PROVE f[j] < f[k]
      <3>1. /\ f[j] \in kept /\ f[k] \in kept /\ rank(f[j]) = j /\ rank(f[k]) = k
            /\ f[j] \in Int /\ f[k] \in Int /\ j \in Int /\ k \in Int
        BY <1>4, <1>k
      <3> HIDE DEF f
      <3>2. ~(f[k] < f[j]) /\ f[k] # f[j]
        BY <1>3, <2>2, <3>1
      <3>3. QED
        BY <3>1, <3>2
    <2>3. \A k \in 1 .. c : R[k] = L[f[k]]
      OBVIOUS
    <2> HIDE DEF f, R
    <2>4. QED
      BY <1>6, <2>1, <2>2, <2>3 DEF Embeds, n
  <1>8. \A i \in 1 .. n : i \in Range(f) <=> ~Passed(L[i], s, pts)
    <2>1. Range(f) = kept
      <3>1. \A i \in kept : f[rank(i)] = i /\ rank(i) \in 1 .. c
        BY <1>3, <1>5
      <3>2. DOMAIN f = 1 .. c /\ \A k \in 1 .. c : f[k] \in kept
        BY <1>4
      <3> HIDE DEF f
      <3>3. QED
        BY <3>1, <3>2 DEF Range
    <2>2. QED
      BY <1>p, <2>1
  <1>9. R = L <=> \A i \in 1 .. n : ~Passed(L[i], s, pts)
    <2>1. ASSUME R = L, NEW i \in 1 .. n, Passed(L[i], s, pts) PROVE FALSE
      <3>1. c = n
        BY <1>6, <2>1 DEF n
      <3>2. kept \in SUBSET (1 .. n) /\ IsFiniteSet(1 .. n) /\ Cardinality(1 .. n) = n
        BY <1>1, <1>k, FS_Interval
      <3>3. kept = 1 .. n
        BY <3>1, <3>2, FS_Subset DEF c
      <3>4. QED
        BY <1>p, <2>1, <3>3
    <2>2. ASSUME \A i \in 1 .. n : ~Passed(L[i], s, pts) PROVE R = L
      <3>1. kept = 1 .. n
        BY <1>p, <1>k, <2>2
      <3>2. c = n
        BY <1>1, <3>1, FS_Interval DEF c
      <3>3. \A i \in 1 .. n : rank(i) = i
        <4> TAKE i \in 1 .. n
        <4>1. {j \in kept : j <= i} = 1 .. i /\ i \in Nat
          BY <1>1, <3>1
        <4>2. Cardinality(1 .. i) = i
          BY <4>1, FS_Interval
        <4>3. QED
          BY <4>1, <4>2 DEF rank
      <3>4. \A i \in 1 .. n : R[i] = L[i]
        BY <1>5, <3>1, <3>2, <3>3
      <3> HIDE DEF R
      <3>5. QED
        BY <1>6, <3>2, <3>4, SeqEqual DEF n
    <2>3. QED
      BY <2>1, <2>2
  <1>10. QED
    BY <1>2, <1>6, <1>7, <1>8, <1>9 DEF n

-----------------------------------------------------------------------------
\* What a boundary takes, and what a section adds.

\* A boundary takes splices that are near it, and one at least if there are any.
LEMMA BoundaryTakes ==
    ASSUME NEW S, NEW s, NEW p \in Partitions, listSCTE35[s][p] \in Seq(S), NEW pts, NEW ebp
    PROVE  LET L == listSCTE35[s][p]
               R == AfterBoundary(s, pts, ebp, p)
           IN  /\ R \in Seq(S)
               /\ \E f : /\ Embeds(R, L, f)
                         /\ \A i \in 1 .. Len(L) : i \notin Range(f) =>
                               Near(L[i], s, pts) /\ p \in detectBoundary(s, pts, ebp)
                         /\ /\ p \in detectBoundary(s, pts, ebp)
                            /\ \E i \in 1 .. Len(L) : Near(L[i], s, pts)
                            => \E i \in 1 .. Len(L) : i \notin Range(f)
  <1> DEFINE L == listSCTE35[s][p]
             T == p \in Triggered(s, pts)
             B == p \in detectBoundary(s, pts, ebp)
             E == ebp # NULL /\ B
             one == checkEBPAgainstSCTE35Points(L, s, pts)
             two == checkEBPAgainstSCTE35Points(one, s, pts)
             R == AfterBoundary(s, pts, ebp, p)
             Taken(M, f) == /\ Embeds(M, L, f)
                            /\ \A i \in 1 .. Len(L) : i \notin Range(f) => Near(L[i], s, pts)
             One(f) == (\E i \in 1 .. Len(L) : Near(L[i], s, pts)) =>
                          \E i \in 1 .. Len(L) : i \notin Range(f)
  <1>1. R = IF T THEN IF E THEN two ELSE one
            ELSE IF E THEN one ELSE L
    BY DEF AfterBoundary
  <1>2. (T => B) /\ (B => T \/ E) /\ (E => B)
    BY DEF detectBoundary
  <1>3. one \in Seq(S) /\ \E f : Taken(one, f) /\ One(f)
    BY TakesOne
  <1>4. two \in Seq(S) /\ \E f : Taken(two, f) /\ One(f)
    <2>1. PICK f : Taken(one, f) /\ One(f)
      BY <1>3
    <2> HIDE DEF one
    <2>2. /\ two \in Seq(S)
          /\ \E g : /\ Embeds(two, one, g)
                    /\ \A i \in 1 .. Len(one) : i \notin Range(g) => Near(one[i], s, pts)
      BY <1>3, TakesOne
    <2>3. PICK g : /\ Embeds(two, one, g)
                   /\ \A i \in 1 .. Len(one) : i \notin Range(g) => Near(one[i], s, pts)
      BY <2>2
    <2> HIDE DEF two, L
    <2>4. L \in Seq(S)
      BY DEF L
    <2>5. PICK h : Embeds(two, L, h) /\ Composes(h, f, g, L, one)
      <3>1. one \in Seq(S) /\ two \in Seq(S) /\ Embeds(one, L, f) /\ Embeds(two, one, g)
        BY <1>3, <2>1, <2>2, <2>3
      <3> HIDE DEF Taken, One
      <3>2. QED
        BY <2>4, <3>1, LeftOfWhatIsLeft
    <2>6. \A j \in 1 .. Len(one) : one[j] = L[f[j]]
      BY <2>1 DEF Embeds
    <2>7. Taken(two, h)
      BY <2>1, <2>3, <2>5, <2>6 DEF Composes
    <2>8. One(h)
      BY <2>1, <2>5 DEF Composes
    <2>9. QED
      BY <2>2, <2>7, <2>8
  <1>5. PICK f : Embeds(L, L, f) /\ Range(f) = 1 .. Len(L)
    BY SameList
  <1> HIDE DEF one, two, L, R, T
  <1>6. CASE B
    <2>1. R = one \/ R = two
      BY <1>1, <1>2, <1>6
    <2>2. R \in Seq(S) /\ \E h : Taken(R, h) /\ One(h)
      BY <1>3, <1>4, <2>1
    <2>3. PICK h : Taken(R, h) /\ One(h)
      BY <2>2
    <2>4. QED
      BY <1>6, <2>2, <2>3 DEF R, L
  <1>7. CASE ~B
    <2>1. R = L
      BY <1>1, <1>2, <1>7
    <2>2. \A i \in 1 .. Len(L) : i \in Range(f)
      BY <1>5
    <2>3. R \in Seq(S) /\ Embeds(R, L, f)
      BY <1>5, <2>1 DEF L
    <2>4. QED
      BY <1>7, <2>2, <2>3 DEF R, L
  <1>8. QED
    BY <1>6, <1>7

\* What the assumption says of a section.
LEMMA SectionFacts ==
    ASSUME NEW x \in Events
    PROVE  /\ \/ IsSignal(x) /\ ~IsInsert(x) /\ x.time \in Nat /\ x.pts_adjustment \in Nat
              \/ IsInsert(x) /\ ~IsSignal(x) /\ IsSplice(x)
           /\ x \in Packets /\ ~IsPES(x)
  <1>1. x \in Packets /\ ~IsPES(x) /\ (x \in TimeSignals \/ IsSplice(x))
    BY PacketsAssumption DEF Events
  <1>2. CASE x \in TimeSignals
    <2>1. x.time \in Nat /\ IsSignal(x) /\ ~IsInsert(x) /\ x.pts_adjustment \in Nat
      BY <1>2 DEF TimeSignals, IsSignal, IsInsert
    <2>2. QED
      BY <1>1, <2>1
  <1>3. CASE IsSplice(x)
    BY <1>1, <1>3 DEF IsSplice, IsInsert, IsSignal
  <1>4. QED
    BY <1>1, <1>2, <1>3

\* The events are different ones, and the time signals are in order.
InOrder(L, timed) ==
    \A i, j \in 1 .. Len(L) : i < j =>
        /\ IsInsert(L[i]) /\ IsInsert(L[j]) => L[i].id # L[j].id
        /\ IsSignal(L[i]) /\ IsSignal(L[j]) /\ timed => L[i].time < L[j].time

\* A time signal to whose time an adjustment is to be added.
ToAdjust(x) == IsSignal(x) /\ x.pts_adjustment # 0

\* Time signals of one time are one splice, for all that is done with them.
SameSplice(y, x) == y = x \/ (IsSignal(y) /\ IsSignal(x) /\ y.time = x.time)

LEMMA SameSpliceFacts ==
    \A y, x : SameSplice(y, x) =>
        /\ \A s, pts : /\ Passed(y, s, pts) <=> Passed(x, s, pts)
                       /\ Near(y, s, pts) <=> Near(x, s, pts)
        /\ IsInsert(y) \/ IsInsert(x) => y = x
  <1> TAKE y, x
  <1> HAVE SameSplice(y, x)
  <1>1. \A s : getSCTE35PTS(y, s) = getSCTE35PTS(x, s)
    BY DEF SameSplice, getSCTE35PTS, IsSignal, IsInsert
  <1>2. IsInsert(y) \/ IsInsert(x) => y = x
    BY DEF SameSplice, IsSignal, IsInsert
  <1>3. QED
    BY <1>1, <1>2 DEF Passed, Near

\* R is L with x: g says where each element was, 0 for the new one.
Adds(R, L, x, g) ==
    /\ g \in [1 .. Len(R) -> 0 .. Len(L)]
    /\ \A k \in 1 .. Len(R) : R[k] = IF g[k] = 0 THEN x ELSE L[g[k]]
    /\ \A j, k \in 1 .. Len(R) : g[j] = g[k] => j = k
    /\ \A i \in 1 .. Len(L) : \/ \E k \in 1 .. Len(R) : g[k] = i
                              \/ IsInsert(x) /\ IsInsert(L[i]) /\ L[i].id = x.id
    /\ ~ToAdjust(x) => \E k \in 1 .. Len(R) : SameSplice(R[k], x)

LEMMA AppendAdds ==
    ASSUME NEW S, NEW L \in Seq(S), NEW x \in S
    PROVE  \E g : Adds(Append(L, x), L, x, g)
  <1> DEFINE R == Append(L, x)
             n == Len(L)
             g == [k \in 1 .. Len(R) |-> IF k = Len(L) + 1 THEN 0 ELSE k]
  <1>1. /\ R \in Seq(S) /\ Len(R) = n + 1 /\ R[n + 1] = x /\ n \in Nat
        /\ \A k \in 1 .. n : R[k] = L[k]
    BY AppendProperties, LenProperties
  <1> HIDE DEF R
  <1>2. \A k \in 1 .. n + 1 : k # n + 1 => k \in 1 .. n
    BY <1>1
  <1>3. /\ g \in [1 .. Len(R) -> 0 .. n]
        /\ \A k \in 1 .. Len(R) : R[k] = IF g[k] = 0 THEN x ELSE L[g[k]]
        /\ \A j, k \in 1 .. Len(R) : g[j] = g[k] => j = k
    <2> HIDE DEF n
    <2>1. g = [k \in 1 .. n + 1 |-> IF k = n + 1 THEN 0 ELSE k]
      BY <1>1 DEF n
    <2> HIDE DEF g
    <2>2. \A k \in 1 .. n + 1 : g[k] = IF k = n + 1 THEN 0 ELSE k
      BY <2>1
    <2>3. \A k \in 1 .. n + 1 : k = n + 1 => g[k] = 0
      BY <2>2
    <2>3a. \A k \in 1 .. n + 1 : k # n + 1 => g[k] = k /\ k \in 1 .. n /\ g[k] # 0
      BY <1>1, <1>2, <2>2
    <2>4. n + 1 \in Nat /\ 0 \in 0 .. n /\ 1 .. n \subseteq 0 .. n
      BY <1>1
    <2>5. \A k \in 1 .. n + 1 : g[k] \in 0 .. n
      BY <2>3, <2>3a, <2>4, Zenon
    <2>6. g \in [1 .. n + 1 -> 0 .. n]
      BY <2>1, <2>5, Zenon
    <2>7. ASSUME NEW k \in 1 .. n + 1 PROVE R[k] = IF g[k] = 0 THEN x ELSE L[g[k]]
      <3>1. CASE k = n + 1
        <4>1. R[k] = x /\ g[k] = 0
          BY <1>1, <2>3, <3>1, Zenon
        <4>2. QED
          BY <4>1
      <3>2. CASE k # n + 1
        <4>1. R[k] = L[k] /\ g[k] = k /\ g[k] # 0
          BY <1>1, <2>3a, <3>2, Zenon
        <4>2. QED
          BY <4>1
      <3>3. QED
        BY <3>1, <3>2
    <2>8. ASSUME NEW j \in 1 .. n + 1, NEW k \in 1 .. n + 1, g[j] = g[k] PROVE j = k
      <3>1. CASE j = n + 1
        BY <2>3, <2>3a, <2>8, <3>1, Zenon
      <3>2. CASE k = n + 1
        BY <2>3, <2>3a, <2>8, <3>2, Zenon
      <3>3. CASE j # n + 1 /\ k # n + 1
        <4>1. g[j] = j /\ g[k] = k
          BY <2>3a, <3>3, Zenon
        <4>2. QED
          BY <2>8, <4>1
      <3>4. QED
        BY <3>1, <3>2, <3>3
    <2>9. QED
      BY <1>1, <2>6, <2>7, <2>8
  <1>4. \A i \in 1 .. n : \E k \in 1 .. Len(R) : g[k] = i
    <2> TAKE i \in 1 .. n
    <2>1. i \in 1 .. Len(R) /\ g[i] = i
      BY <1>1
    <2>2. QED
      BY <2>1
  <1>5. n + 1 \in 1 .. Len(R)
    BY <1>1
  <1>6. Adds(R, L, x, g)
    <2> HIDE DEF g
    <2>1. QED
      BY <1>1, <1>3, <1>4, <1>5 DEF Adds, SameSplice
  <1>7. QED
    BY <1>6 DEF R

LEMMA ReplaceAdds ==
    ASSUME NEW S, NEW L \in Seq(S), NEW x \in S, NEW i \in 1 .. Len(L),
           IsInsert(x), IsInsert(L[i]), L[i].id = x.id
    PROVE  LET R == ReplaceAt(L, i, x)
           IN  R \in Seq(S) /\ Len(R) = Len(L) /\ \E g : Adds(R, L, x, g)
  <1> DEFINE R == ReplaceAt(L, i, x)
             n == Len(L)
             g == [k \in 1 .. Len(R) |-> IF k = i THEN 0 ELSE k]
  <1>1. /\ R \in Seq(S) /\ Len(R) = n /\ n \in Nat
        /\ \A k \in 1 .. n : R[k] = IF k = i THEN x ELSE L[k]
    BY ExceptSeq, LenProperties DEF ReplaceAt
  <1> HIDE DEF R
  <1>2. /\ g \in [1 .. Len(R) -> 0 .. n]
        /\ \A k \in 1 .. Len(R) : R[k] = IF g[k] = 0 THEN x ELSE L[g[k]]
        /\ \A j, k \in 1 .. Len(R) : g[j] = g[k] => j = k
    BY <1>1
  <1>3. \A j \in 1 .. n : (\E k \in 1 .. Len(R) : g[k] = j) \/ j = i
    <2> TAKE j \in 1 .. n
    <2>1. j # i => g[j] = j
      BY <1>1
    <2>2. QED
      BY <1>1, <2>1
  <1>4. \E k \in 1 .. Len(R) : R[k] = x
    BY <1>1
  <1>5. Adds(R, L, x, g)
    <2> HIDE DEF g
    <2>1. QED
      BY <1>1, <1>2, <1>3, <1>4 DEF Adds, SameSplice
  <1>6. QED
    BY <1>1, <1>5 DEF R

LEMMA InsertAdds ==
    ASSUME NEW S, NEW L \in Seq(S), NEW x \in S, NEW i \in 1 .. Len(L)
    PROVE  LET R == InsertAt(L, i, x)
               g == [k \in 1 .. Len(R) |-> IF k < i THEN k ELSE IF k = i THEN 0 ELSE k - 1]
           IN  R \in Seq(S) /\ Len(R) = Len(L) + 1 /\ Adds(R, L, x, g)
  <1> DEFINE n == Len(L)
             A == SubSeq(L, 1, i - 1)
             B == SubSeq(L, i, n)
             M == A \o <<x>>
             R == M \o B
             g == [k \in 1 .. Len(R) |-> IF k < i THEN k ELSE IF k = i THEN 0 ELSE k - 1]
  <1>1. n \in Nat /\ i \in 1 .. n /\ \A k \in 1 .. n : L[k] \in S
    BY LenProperties, ElementOfSeq
  <1>2. /\ A \in Seq(S) /\ Len(A) = i - 1
        /\ \A k \in 1 .. i - 1 : A[k] = L[k]
    <2>1. \A k \in 1 .. i - 1 : L[k] \in S
      BY <1>1
    <2>2. /\ A \in Seq(S) /\ Len(A) = IF 1 <= i - 1 THEN i - 1 - 1 + 1 ELSE 0
          /\ \A k \in 1 .. i - 1 - 1 + 1 : A[k] = L[1 + k - 1]
      BY <1>1, <2>1, SubSeqProperties
    <2> HIDE DEF A, n
    <2>3. QED
      BY <1>1, <2>2
  <1>3. /\ B \in Seq(S) /\ Len(B) = n - i + 1
        /\ \A k \in 1 .. n - i + 1 : B[k] = L[k + i - 1]
    <2>1. \A k \in i .. n : L[k] \in S
      BY <1>1
    <2>2. /\ B \in Seq(S) /\ Len(B) = IF i <= n THEN n - i + 1 ELSE 0
          /\ \A k \in 1 .. n - i + 1 : B[k] = L[i + k - 1]
      BY <1>1, <2>1, SubSeqProperties
    <2> HIDE DEF B, n
    <2>3. QED
      BY <1>1, <2>2
  <1>4. /\ M \in Seq(S) /\ Len(M) = i
        /\ \A k \in 1 .. i : M[k] = IF k < i THEN L[k] ELSE x
    <2>1. <<x>> \in Seq(S) /\ Len(<<x>>) = 1 /\ <<x>>[1] = x
      OBVIOUS
    <2>2. /\ M \in Seq(S) /\ Len(M) = Len(A) + Len(<<x>>)
          /\ \A k \in 1 .. Len(A) + Len(<<x>>) :
                M[k] = IF k <= Len(A) THEN A[k] ELSE <<x>>[k - Len(A)]
      BY <1>2, <2>1, ConcatProperties
    <2>3. /\ Len(M) = i /\ M \in Seq(S)
          /\ \A k \in 1 .. i : M[k] = IF k <= i - 1 THEN A[k] ELSE <<x>>[k - (i - 1)]
      <3> HIDE DEF M, A
      <3>1. Len(A) + Len(<<x>>) = i
        BY <1>1, <1>2, <2>1
      <3>2. QED
        BY <1>2, <2>2, <3>1
    <2> HIDE DEF M, A, n
    <2>4. ASSUME NEW k \in 1 .. i PROVE M[k] = IF k < i THEN L[k] ELSE x
      <3>1. CASE k < i
        BY <1>1, <1>2, <2>3, <3>1
      <3>2. CASE k = i
        <4>1. k - (i - 1) = 1 /\ ~(k <= i - 1)
          BY <1>1, <3>2
        <4>2. QED
          BY <2>1, <2>3, <3>2, <4>1
      <3>3. QED
        BY <1>1, <3>1, <3>2
    <2>5. QED
      BY <2>3, <2>4
  <1>5. /\ R \in Seq(S) /\ Len(R) = n + 1
        /\ \A k \in 1 .. n + 1 : R[k] = IF k <= i THEN M[k] ELSE B[k - i]
    <2>1. /\ R \in Seq(S) /\ Len(R) = Len(M) + Len(B)
          /\ \A k \in 1 .. Len(M) + Len(B) : R[k] = IF k <= Len(M) THEN M[k] ELSE B[k - Len(M)]
      BY <1>3, <1>4, ConcatProperties
    <2> HIDE DEF M, B, R, n
    <2>2. Len(M) + Len(B) = n + 1
      BY <1>1, <1>3, <1>4
    <2>3. QED
      BY <1>4, <2>1, <2>2
  <1> HIDE DEF A, B, M, R, n
  <1>6. \A k \in 1 .. n + 1 : R[k] = IF g[k] = 0 THEN x ELSE L[g[k]]
    <2> TAKE k \in 1 .. n + 1
    <2>0. g[k] = IF k < i THEN k ELSE IF k = i THEN 0 ELSE k - 1
      BY <1>5
    <2> HIDE DEF g
    <2>1. CASE k < i
      BY <1>1, <1>4, <1>5, <2>0, <2>1
    <2>2. CASE k = i
      BY <1>1, <1>4, <1>5, <2>0, <2>2
    <2>3. CASE k > i
      <3>1. k - i \in 1 .. n - i + 1 /\ k - i + i - 1 = k - 1 /\ k - 1 # 0
        BY <1>1, <2>3
      <3>2. R[k] = B[k - i] /\ B[k - i] = L[k - i + i - 1] /\ g[k] = k - 1
        BY <1>1, <1>3, <1>5, <2>0, <2>3, <3>1
      <3>3. QED
        BY <3>1, <3>2
    <2>4. QED
      BY <1>1, <2>1, <2>2, <2>3
  <1>7. g \in [1 .. n + 1 -> 0 .. n] /\ \A j, k \in 1 .. n + 1 : g[j] = g[k] => j = k
    <2>1. g = [k \in 1 .. n + 1 |-> IF k < i THEN k ELSE IF k = i THEN 0 ELSE k - 1]
      BY <1>5
    <2> HIDE DEF g
    <2>2. QED
      BY <1>1, <2>1
  <1>8. \A j \in 1 .. n : \E k \in 1 .. n + 1 : g[k] = j
    <2> TAKE j \in 1 .. n
    <2>1. CASE j < i
      <3>1. j \in 1 .. n + 1 /\ g[j] = j
        BY <1>1, <1>5, <2>1
      <3>2. QED
        BY <3>1
    <2>2. CASE ~(j < i)
      <3>1. j + 1 \in 1 .. n + 1 /\ g[j + 1] = j
        BY <1>1, <1>5, <2>2
      <3>2. QED
        BY <3>1
    <2>3. QED
      BY <2>1, <2>2
  <1>9. i \in 1 .. n + 1 /\ R[i] = x
    BY <1>1, <1>4, <1>5
  <1>10. Adds(R, L, x, g)
    <2> HIDE DEF g
    <2>1. QED
      BY <1>5, <1>6, <1>7, <1>8, <1>9 DEF Adds, SameSplice, n
  <1>11. R = InsertAt(L, i, x)
    BY DEF R, M, A, B, n, InsertAt
  <1>12. QED
    BY <1>5, <1>10, <1>11 DEF n

\* A section is added to a list once, and the list stays in order.
LEMMA PointAdded ==
    ASSUME NEW L \in Seq(Events), NEW x \in Events, IsInsert(x) => ~x.cancel,
           NEW timed \in BOOLEAN, timed => ~ToAdjust(x)
    PROVE  LET R == addSCTE35Point(L, x)
           IN  /\ R \in Seq(Events)
               /\ \E g : Adds(R, L, x, g)
               /\ InOrder(L, timed) => InOrder(R, timed)
  <1> DEFINE n == Len(L)
             R == addSCTE35Point(L, x)
  <1>1. n \in Nat /\ \A k \in 1 .. n : L[k] \in Events
    BY LenProperties, ElementOfSeq
  <1>2. \A k \in 1 .. n : \/ IsSignal(L[k]) /\ ~IsInsert(L[k]) /\ L[k].time \in Nat
                          \/ IsInsert(L[k]) /\ ~IsSignal(L[k])
    BY <1>1, SectionFacts
  <1>3. /\ Append(L, x) \in Seq(Events) /\ Len(Append(L, x)) = n + 1 /\ Append(L, x)[n + 1] = x
        /\ \A k \in 1 .. n : Append(L, x)[k] = L[k]
        /\ \E g : Adds(Append(L, x), L, x, g)
    BY AppendProperties, AppendAdds
  <1>4. CASE IsInsert(x)
    <2> DEFINE I == {i \in 1 .. n : IsInsert(L[i]) /\ L[i].id = x.id}
               m == IF I # {} THEN Min(I) ELSE 0
    <2>1. /\ m = 0 => R = Append(L, x)
          /\ m # 0 => R = ReplaceAt(L, m, x)
      <3>1. m = SelectInSeq(L, LAMBDA y : IsInsert(y) /\ y.id = x.id)
        BY DEF SelectInSeq
      <3>2. ~x.cancel
        BY <1>4
      <3> HIDE DEF m
      <3>3. QED
        BY <1>4, <3>1, <3>2 DEF addSCTE35Point
    <2>2. ~IsSignal(x)
      BY <1>4, SectionFacts
    <2>3. CASE I = {}
      <3>1. R = Append(L, x)
        BY <2>1, <2>3
      <3>2. ASSUME InOrder(L, timed), NEW i \in 1 .. n + 1, NEW j \in 1 .. n + 1, i < j
            PROVE  /\ IsInsert(R[i]) /\ IsInsert(R[j]) => R[i].id # R[j].id
                   /\ IsSignal(R[i]) /\ IsSignal(R[j]) /\ timed => R[i].time < R[j].time
        <4>1. i \in 1 .. n /\ R[i] = L[i]
          BY <1>1, <1>3, <3>1, <3>2
        <4>2. CASE j = n + 1
          <5>1. R[j] = x
            BY <1>3, <3>1, <4>2
          <5>2. i \notin I
            BY <2>3
          <5>3. QED
            BY <2>2, <4>1, <5>1, <5>2
        <4>3. CASE j # n + 1
          <5>1. j \in 1 .. n /\ R[j] = L[j]
            BY <1>1, <1>3, <3>1, <4>3
          <5>2. QED
            BY <3>2, <4>1, <5>1 DEF InOrder
        <4>4. QED
          BY <4>2, <4>3
      <3>3. Len(R) = n + 1 /\ R \in Seq(Events) /\ \E g : Adds(R, L, x, g)
        BY <1>3, <3>1
      <3> HIDE DEF R
      <3>4. InOrder(L, timed) => InOrder(R, timed)
        BY <3>2, <3>3 DEF InOrder
      <3>5. QED
        BY <3>3, <3>4 DEF R
    <2>4. CASE I # {}
      <3>1. m \in I
        <4>1. I \in SUBSET (1 .. n)
          OBVIOUS
        <4> HIDE DEF I, n
        <4>2. QED
          BY <2>4, <4>1, FirstOf
      <3>2. m \in 1 .. n /\ IsInsert(L[m]) /\ L[m].id = x.id /\ m # 0
        BY <3>1
      <3> HIDE DEF m
      <3>3. R = ReplaceAt(L, m, x)
        BY <2>1, <3>2
      <3>4. /\ R \in Seq(Events) /\ Len(R) = n
            /\ \E g : Adds(R, L, x, g)
        BY <1>4, <3>2, <3>3, ReplaceAdds
      <3>5. \A k \in 1 .. n : R[k] = IF k = m THEN x ELSE L[k]
        BY <3>2, <3>3, ExceptSeq DEF ReplaceAt
      <3> HIDE DEF R
      <3>6. ASSUME InOrder(L, timed), NEW i \in 1 .. n, NEW j \in 1 .. n, i < j
            PROVE  /\ IsInsert(R[i]) /\ IsInsert(R[j]) => R[i].id # R[j].id
                   /\ IsSignal(R[i]) /\ IsSignal(R[j]) /\ timed => R[i].time < R[j].time
        <4>1. /\ IsInsert(L[i]) /\ IsInsert(L[j]) => L[i].id # L[j].id
              /\ IsSignal(L[i]) /\ IsSignal(L[j]) /\ timed => L[i].time < L[j].time
          BY <3>6 DEF InOrder
        <4>2. CASE i = m
          <5>1. R[i] = x /\ R[j] = L[j]
            BY <3>5, <3>6, <4>2
          <5>2. QED
            BY <2>2, <3>2, <4>1, <4>2, <5>1
        <4>3. CASE j = m
          <5>1. R[j] = x /\ R[i] = L[i]
            BY <3>5, <3>6, <4>3
          <5>2. QED
            BY <2>2, <3>2, <4>1, <4>3, <5>1
        <4>4. CASE i # m /\ j # m
          BY <3>5, <4>1, <4>4
        <4>5. QED
          BY <4>2, <4>3, <4>4
      <3>7. InOrder(L, timed) => InOrder(R, timed)
        BY <3>4, <3>6 DEF InOrder
      <3>8. QED
        BY <3>4, <3>7 DEF R
    <2>5. QED
      BY <2>3, <2>4
  <1>5. CASE ~IsInsert(x)
    <2> DEFINE I == {i \in 1 .. n : IsSignal(L[i]) /\ x.time <= L[i].time + x.pts_adjustment}
               m == IF I # {} THEN Min(I) ELSE 0
    <2>1. /\ IsSignal(x) /\ x.time \in Nat /\ x.pts_adjustment \in Nat
          /\ timed \/ ~ToAdjust(x) => x.pts_adjustment = 0
      BY <1>5, SectionFacts DEF ToAdjust
    <2>2. /\ m = 0 => R = Append(L, x)
          /\ m # 0 => R = IF x.time = L[m].time + x.pts_adjustment THEN L ELSE InsertAt(L, m, x)
      <3>1. m = SelectInSeq(L, LAMBDA y : IsSignal(y) /\ x.time <= y.time + x.pts_adjustment)
        BY DEF SelectInSeq
      <3> HIDE DEF m
      <3>2. QED
        BY <1>5, <3>1 DEF addSCTE35Point
    <2>3. CASE I = {}
      <3>1. R = Append(L, x)
        BY <2>2, <2>3
      <3>2. ASSUME InOrder(L, timed), NEW i \in 1 .. n + 1, NEW j \in 1 .. n + 1, i < j
            PROVE  /\ IsInsert(R[i]) /\ IsInsert(R[j]) => R[i].id # R[j].id
                   /\ IsSignal(R[i]) /\ IsSignal(R[j]) /\ timed => R[i].time < R[j].time
        <4>1. i \in 1 .. n /\ R[i] = L[i]
          BY <1>1, <1>3, <3>1, <3>2
        <4>2. CASE j = n + 1
          <5>1. R[j] = x
            BY <1>3, <3>1, <4>2
          <5>2. i \notin I
            BY <2>3
          <5>3. IsSignal(L[i]) /\ timed => L[i].time < x.time
            <6>1. IsSignal(L[i]) => L[i].time \in Nat
              BY <1>2, <4>1
            <6>2. QED
              BY <2>1, <4>1, <5>2, <6>1
          <5>4. QED
            BY <1>5, <4>1, <5>1, <5>3
        <4>3. CASE j # n + 1
          <5>1. j \in 1 .. n /\ R[j] = L[j]
            BY <1>1, <1>3, <3>1, <4>3
          <5>2. QED
            BY <3>2, <4>1, <5>1 DEF InOrder
        <4>4. QED
          BY <4>2, <4>3
      <3>3. Len(R) = n + 1 /\ R \in Seq(Events) /\ \E g : Adds(R, L, x, g)
        BY <1>3, <3>1
      <3> HIDE DEF R
      <3>4. InOrder(L, timed) => InOrder(R, timed)
        BY <3>2, <3>3 DEF InOrder
      <3>5. QED
        BY <3>3, <3>4 DEF R
    <2>4. CASE I # {}
      <3>1. m \in I /\ \A j \in I : m <= j
        <4>1. I \in SUBSET (1 .. n)
          OBVIOUS
        <4> HIDE DEF I, n
        <4>2. QED
          BY <2>4, <4>1, FirstOf
      <3>2. /\ m \in 1 .. n /\ IsSignal(L[m]) /\ m # 0 /\ L[m].time \in Nat
            /\ timed => x.time <= L[m].time
        <4>1. m \in 1 .. n /\ IsSignal(L[m]) /\ (timed => x.time <= L[m].time + 0)
          BY <2>1, <3>1
        <4> HIDE DEF m
        <4>2. L[m].time \in Nat
          BY <1>2, <4>1
        <4>3. QED
          BY <4>1, <4>2
      <3>3. \A j \in 1 .. n : IsSignal(L[j]) /\ j < m /\ timed => L[j].time < x.time
        <4> TAKE j \in 1 .. n
        <4>1. IsSignal(L[j]) => L[j].time \in Nat
          BY <1>2
        <4>2. j < m => j \notin I
          <5>1. j \in I => m <= j
            BY <3>1
          <5>2. j \in 1 .. n /\ m \in 1 .. n
            BY <3>2
          <5> HIDE DEF I, m
          <5>3. QED
            BY <1>1, <5>1, <5>2
        <4>3. j < m /\ IsSignal(L[j]) => ~(x.time <= L[j].time + x.pts_adjustment)
          BY <4>2
        <4> HIDE DEF m
        <4>4. QED
          BY <2>1, <4>1, <4>3
      <3> HIDE DEF m
      <3>4. CASE x.time = L[m].time + x.pts_adjustment
        <4>1. R = L
          BY <2>1, <2>2, <3>2, <3>4
        <4>2. ~ToAdjust(x) => SameSplice(L[m], x)
          <5>1. ~ToAdjust(x) => x.time = L[m].time + 0
            BY <2>1, <3>4
          <5> HIDE DEF m
          <5>2. QED
            BY <2>1, <3>2, <5>1 DEF SameSplice
        <4> DEFINE g == [k \in 1 .. n |-> k]
        <4>3. Adds(L, L, x, g)
          BY <1>1, <3>2, <4>2 DEF Adds
        <4> HIDE DEF R, g
        <4>4. QED
          BY <4>1, <4>3 DEF R
      <3>5. CASE x.time # L[m].time + x.pts_adjustment
        <4>1. R = InsertAt(L, m, x)
          BY <2>1, <2>2, <3>2, <3>5
        <4> HIDE DEF R
        <4> DEFINE g == [k \in 1 .. Len(R) |-> IF k < m THEN k ELSE IF k = m THEN 0 ELSE k - 1]
        <4>m. m \in 1 .. Len(L)
          BY <3>2
        <4>2. R \in Seq(Events) /\ Len(R) = n + 1 /\ Adds(R, L, x, g)
          BY <4>1, <4>m, InsertAdds
        <4>3. \A k \in 1 .. n + 1 :
                 /\ k < m => k \in 1 .. n /\ R[k] = L[k]
                 /\ k = m => R[k] = x
                 /\ k > m => k - 1 \in 1 .. n /\ R[k] = L[k - 1]
          <5> TAKE k \in 1 .. n + 1
          <5>1. R[k] = IF g[k] = 0 THEN x ELSE L[g[k]]
            BY <4>2 DEF Adds
          <5>2. g[k] = IF k < m THEN k ELSE IF k = m THEN 0 ELSE k - 1
            BY <4>2
          <5> HIDE DEF g
          <5>3. CASE k < m
            BY <1>1, <3>2, <5>1, <5>2, <5>3
          <5>4. CASE k = m
            BY <1>1, <3>2, <5>1, <5>2, <5>4
          <5>5. CASE k > m
            BY <1>1, <3>2, <5>1, <5>2, <5>5
          <5>6. QED
            BY <1>1, <3>2, <5>3, <5>4, <5>5
        <4>4. ASSUME InOrder(L, timed), NEW i \in 1 .. n + 1, NEW j \in 1 .. n + 1, i < j
              PROVE  /\ IsInsert(R[i]) /\ IsInsert(R[j]) => R[i].id # R[j].id
                     /\ IsSignal(R[i]) /\ IsSignal(R[j]) /\ timed => R[i].time < R[j].time
          <5> DEFINE Good(a, b) == /\ IsInsert(a) /\ IsInsert(b) => a.id # b.id
                                   /\ IsSignal(a) /\ IsSignal(b) /\ timed => a.time < b.time
          <5>0. \A a, b \in 1 .. n : a < b => Good(L[a], L[b])
            BY <4>4 DEF InOrder
          <5>1. \A a \in 1 .. n : a < m => Good(L[a], x)
            BY <1>5, <3>3
          <5>2. \A b \in 1 .. n : m <= b => Good(x, L[b])
            <6> TAKE b \in 1 .. n
            <6> SUFFICES ASSUME m <= b, IsSignal(L[b]), timed PROVE x.time < L[b].time
              BY <1>5
            <6>1. L[b].time \in Nat
              BY <1>2
            <6>2. m < b => L[m].time < L[b].time
              BY <3>2, <5>0
            <6>3. x.time < L[m].time
              <7>1. x.pts_adjustment = 0
                BY <2>1
              <7>2. x.time # L[m].time + 0
                BY <3>5, <7>1
              <7>3. QED
                BY <2>1, <3>2, <7>2
            <6>4. m = b \/ m < b
              BY <3>2
            <6>5. CASE m = b
              BY <6>3, <6>5
            <6>6. CASE m < b
              BY <2>1, <3>2, <6>1, <6>2, <6>3, <6>6
            <6>7. QED
              BY <6>4, <6>5, <6>6
          <5> HIDE DEF Good
          <5>3. Good(R[i], R[j])
            <6>1. CASE i < m /\ j < m
              BY <4>3, <4>4, <5>0, <6>1
            <6>2. CASE i < m /\ j = m
              BY <4>3, <5>1, <6>2
            <6>3. CASE i < m /\ j > m
              <7>1. i < j - 1
                BY <3>2, <6>3
              <7>2. QED
                BY <4>3, <5>0, <6>3, <7>1
            <6>4. CASE i = m /\ j > m
              <7>1. m <= j - 1
                BY <3>2, <6>4
              <7>2. QED
                BY <4>3, <5>2, <6>4, <7>1
            <6>5. CASE i > m /\ j > m
              <7>1. i - 1 < j - 1
                BY <4>4
              <7>2. QED
                BY <4>3, <5>0, <6>5, <7>1
            <6>6. QED
              BY <3>2, <4>4, <6>1, <6>2, <6>3, <6>4, <6>5
          <5>4. QED
            BY <5>3 DEF Good
        <4>5. InOrder(L, timed) => InOrder(R, timed)
          BY <4>2, <4>4 DEF InOrder
        <4> HIDE DEF g
        <4>6. QED
          BY <4>2, <4>5 DEF R
      <3>6. QED
        BY <3>4, <3>5
    <2>5. QED
      BY <2>3, <2>4
  <1>6. QED
    BY <1>4, <1>5

-----------------------------------------------------------------------------
\* What a packet that is received leaves as it was.

\* Packet k is a splice_insert of an event.
IsEvent(k, id) == IsSection(k) /\ IsInsert(received[k]) /\ received[k].id = id

\* The facts about the first k packets do not change.
SameBefore(k) ==
    /\ received'[k] = received[k] /\ received[k] \in Packets
    /\ IsSection(k)' <=> IsSection(k)
    /\ \A s : IsPESOf(k, s)' <=> IsPESOf(k, s)
    /\ \A s, p : Announces(k, s, p)' <=> Announces(k, s, p)
    /\ \A m \in 1 .. Len(received) : \A s : PassedAt(k, s, m)' <=> PassedAt(k, s, m)
    /\ \A id : IsEvent(k, id)' <=> IsEvent(k, id)

LEMMA Stable ==
    ASSUME received \in Seq(Packets), NEW x \in Packets, received' = Append(received, x)
    PROVE  LET n == Len(received)
           IN  /\ n \in Nat /\ received' \in Seq(Packets) /\ Len(received') = n + 1
               /\ DOMAIN received = 1 .. n /\ DOMAIN received' = 1 .. n + 1
               /\ received'[n + 1] = x
               /\ \A k \in 1 .. n : SameBefore(k)
               /\ \A k \in 1 .. n + 1 : VideoPTSAt(k)' = VideoPTSAt(k)
  <1> DEFINE n == Len(received)
  <1>1. /\ n \in Nat /\ received' \in Seq(Packets) /\ Len(received') = n + 1
        /\ DOMAIN received = 1 .. n /\ DOMAIN received' = 1 .. n + 1
        /\ received'[n + 1] = x
        /\ \A k \in 1 .. n : received'[k] = received[k] /\ received[k] \in Packets
    BY AppendProperties, LenProperties, ElementOfSeq
  <1> HIDE DEF n
  <1>2. ASSUME NEW k \in 1 .. n PROVE SameBefore(k)
    <2>1. received'[k] = received[k] /\ received[k] \in Packets
      BY <1>1
    <2>2. \A m \in 1 .. n : received'[m] = received[m]
      BY <1>1
    <2>3. /\ IsSection(k)' <=> IsSection(k)
          /\ \A s : IsPESOf(k, s)' <=> IsPESOf(k, s)
          /\ \A s, p : Announces(k, s, p)' <=> Announces(k, s, p)
          /\ \A id : IsEvent(k, id)' <=> IsEvent(k, id)
      BY <2>1 DEF IsSection, IsPESOf, Announces, IsEvent, HasBoundary
    <2>4. \A m \in 1 .. n : \A s : PassedAt(k, s, m)' <=> PassedAt(k, s, m)
      BY <2>1, <2>2 DEF PassedAt, IsPESOf
    <2>5. QED
      BY <2>1, <2>3, <2>4 DEF SameBefore, n
  <1>3. ASSUME NEW k \in 1 .. n + 1 PROVE VideoPTSAt(k)' = VideoPTSAt(k)
    <2> DEFINE before == {j \in 1 .. k - 1 : IsPESOf(j, Video)}
    <2>1. \A j \in 1 .. k - 1 : j \in 1 .. n
      BY <1>1
    <2>2. before' = before
      BY <1>2, <2>1 DEF SameBefore
    <2>3. before # {} => Max(before) \in 1 .. n
      <3>1. before # {} => Max(before) \in before
        <4>1. before \in SUBSET (1 .. n) /\ before \subseteq Nat
          BY <1>1, <2>1
        <4>i. IsFiniteSet(1 .. n)
          BY <1>1, FS_Interval
        <4>2. IsFiniteSet(before)
          BY <4>1, <4>i, FS_Subset
        <4> HIDE DEF before
        <4>3. QED
          BY <4>1, <4>2, HasMax
      <3>2. QED
        BY <2>1, <3>1
    <2>4. before # {} => received'[Max(before)].PTS = received[Max(before)].PTS
      BY <1>1, <2>3
    <2>5. VideoPTSAt(k) = IF before = {} THEN 0 ELSE received[Max(before)].PTS
      BY DEF VideoPTSAt
    <2>6. VideoPTSAt(k)' = IF before = {} THEN 0 ELSE received'[Max(before)].PTS
      BY <2>2 DEF VideoPTSAt
    <2> HIDE DEF before
    <2>7. CASE before = {}
      <3>1. VideoPTSAt(k) = 0 /\ VideoPTSAt(k)' = 0
        BY <2>5, <2>6, <2>7
      <3>2. QED
        BY <3>1
    <2>8. CASE before # {}
      <3>1. /\ VideoPTSAt(k) = received[Max(before)].PTS
            /\ VideoPTSAt(k)' = received'[Max(before)].PTS
        BY <2>5, <2>6, <2>8
      <3>2. QED
        BY <2>4, <2>8, <3>1
    <2>9. QED
      BY <2>7, <2>8
  <1>4. QED
    BY <1>1, <1>2, <1>3 DEF n

\* The splice PTS of a section, and the latest, are numbers.
LEMMA PTSIsNat ==
    ASSUME NEW x \in Events
    PROVE  /\ \A s : getSCTE35PTS(x, s) \in Nat
           /\ IsInsert(x) => scte35_get_latest_PTS(x) \in Nat
  <1>1. IsInsert(x) => get_splice_insert_PTS(x) \in Nat
    BY SectionFacts DEF IsSplice, get_splice_insert_PTS
  <1>2. ASSUME NEW s PROVE getSCTE35PTS(x, s) \in Nat
    <2>1. CASE IsSignal(x)
      BY <2>1, SectionFacts DEF getSCTE35PTS
    <2>2. CASE ~IsSignal(x)
      <3>1. IsInsert(x) /\ IsSplice(x)
        BY <2>2, SectionFacts
      <3>2. CASE x.program
        BY <1>1, <2>2, <3>1, <3>2 DEF getSCTE35PTS
      <3>3. CASE ~x.program
        <4>1. getSCTE35PTS(x, s) = IF s \in DOMAIN x.components THEN x.components[s] ELSE 0
          BY <2>2, <3>1, <3>3 DEF getSCTE35PTS
        <4>2. s \in DOMAIN x.components => x.components[s] \in Nat
          BY <3>1 DEF IsSplice
        <4>3. QED
          BY <4>1, <4>2
      <3>4. QED
        BY <3>2, <3>3
    <2>3. QED
      BY <2>1, <2>2
  <1>3. ASSUME IsInsert(x) PROVE scte35_get_latest_PTS(x) \in Nat
    <2>1. CASE x.program
      BY <1>1, <1>3, <2>1 DEF scte35_get_latest_PTS
    <2>2. CASE ~x.program
      <3> DEFINE C == Components(x)
                 T == {x.components[s] + x.pts_adjustment : s \in C}
                 f == [v \in T |-> CHOOSE s \in C : x.components[s] + x.pts_adjustment = v]
      <3>1. /\ IsFiniteSet(DOMAIN x.components) /\ x.pts_adjustment \in Nat
            /\ \A s \in DOMAIN x.components : x.components[s] \in Nat
        BY <1>3, SectionFacts DEF IsSplice
      <3>2. IsFiniteSet(C) /\ \A s \in C : x.components[s] \in Nat
        <4>1. C \in SUBSET DOMAIN x.components
          BY DEF Components
        <4>2. IsFiniteSet(C)
          BY <3>1, <4>1, FS_Subset
        <4>3. QED
          BY <3>1, <4>1, <4>2
      <3>3. f \in Injection(T, C)
        <4>1. \A v \in T : f[v] \in C /\ x.components[f[v]] + x.pts_adjustment = v
          OBVIOUS
        <4>2. f \in [T -> C]
          BY <4>1
        <4> HIDE DEF f, T, C
        <4>3. \A v, w \in T : f[v] = f[w] => v = w
          BY <4>1
        <4>4. QED
          BY <4>2, <4>3 DEF Injection, IsInjective
      <3>4. T \subseteq Nat
        BY <3>1, <3>2
      <3> HIDE DEF f, T
      <3>5. IsFiniteSet(T)
        BY <3>2, <3>3, FS_Injection
      <3>6. IsFiniteSet(T \cup {0})
        BY <3>5, FS_AddElement
      <3>7. {0} \cup T = T \cup {0} /\ T \cup {0} \subseteq Nat /\ T \cup {0} # {}
        BY <3>4
      <3>8. Max({0} \cup T) \in Nat
        BY <3>6, <3>7, HasMax
      <3>9. scte35_get_latest_PTS(x) = Max({0} \cup T)
        BY <2>2 DEF scte35_get_latest_PTS, T
      <3>10. QED
        BY <3>8, <3>9
    <2>3. QED
      BY <2>1, <2>2
  <1>4. QED
    BY <1>2, <1>3

\* A splice that a packet is near to has not passed.
LEMMA NearOrPassed ==
    ASSUME NEW x \in Events, NEW s, NEW pts \in Nat
    PROVE  /\ Near(x, s, pts) => ~Passed(x, s, pts)
           /\ Near(x, s, pts) \/ Passed(x, s, pts) => pts >= getSCTE35PTS(x, s) - Delta
  <1>1. Delta \in Nat /\ getSCTE35PTS(x, s) \in Nat
    BY PacketsAssumption, PTSIsNat
  <1>2. QED
    BY <1>1 DEF Near, Passed

\* Packet x is received after n others.
Grown(x, n) ==
    /\ n = Len(received) /\ Len(received') = n + 1 /\ received'[n + 1] = x
    /\ DOMAIN received = 1 .. n /\ DOMAIN received' = 1 .. n + 1
    /\ \A k \in 1 .. n : SameBefore(k)
    /\ \A k \in 1 .. n + 1 : (k \in 1 .. n \/ k = n + 1) /\ VideoPTSAt(k)' = VideoPTSAt(k)
    /\ \A s : IsPESOf(n + 1, s)' <=> IsPES(x) /\ x.stream = s
    /\ IsSection(n + 1)' <=> ~IsPES(x)
    /\ \A id : IsEvent(n + 1, id)' <=> ~IsPES(x) /\ IsInsert(x) /\ x.id = id
    /\ \A s, p : Announces(n + 1, s, p)' <=> ~IsPES(x) /\ s \in AddedTo(x) /\ HasBoundary(s, p)
    /\ \A k \in 1 .. n : \A s : PassedAt(k, s, n + 1)' <=>
          IsPES(x) /\ x.stream = s /\ Passed(received[k], s, x.PTS)

LEMMA Grows ==
    ASSUME IInv, NEW x \in Packets, Receive(x)
    PROVE  \E n \in Nat : Grown(x, n)
  <1>1. received \in Seq(Packets) /\ received' = Append(received, x)
    BY DEF IInv, Receive
  <1>2. PICK n \in Nat : n = Len(received)
    BY <1>1, LenProperties
  <1>3. /\ Len(received') = n + 1 /\ received'[n + 1] = x
        /\ DOMAIN received = 1 .. n /\ DOMAIN received' = 1 .. n + 1
        /\ \A k \in 1 .. n : SameBefore(k)
        /\ \A k \in 1 .. n + 1 : VideoPTSAt(k)' = VideoPTSAt(k)
    BY <1>1, <1>2, Stable
  <1>4. \A k \in 1 .. n + 1 : k \in 1 .. n \/ k = n + 1
    OBVIOUS
  <1>5. /\ \A s : IsPESOf(n + 1, s)' <=> IsPES(x) /\ x.stream = s
        /\ IsSection(n + 1)' <=> ~IsPES(x)
        /\ \A id : IsEvent(n + 1, id)' <=> ~IsPES(x) /\ IsInsert(x) /\ x.id = id
        /\ \A s, p : Announces(n + 1, s, p)' <=>
              ~IsPES(x) /\ s \in AddedTo(x) /\ HasBoundary(s, p)
    BY <1>3 DEF IsPESOf, IsSection, IsEvent, Announces, HasBoundary
  <1>6. ASSUME NEW k \in 1 .. n, NEW s
        PROVE  PassedAt(k, s, n + 1)' <=>
                  IsPES(x) /\ x.stream = s /\ Passed(received[k], s, x.PTS)
    <2>1. received'[k] = received[k]
      BY <1>3 DEF SameBefore
    <2>2. PassedAt(k, s, n + 1)' <=> IsPESOf(n + 1, s)' /\ Passed(received'[k], s, x.PTS)
      BY <1>3 DEF PassedAt
    <2>3. QED
      BY <1>5, <2>1, <2>2
  <1>7. QED
    BY <1>2, <1>3, <1>4, <1>5, <1>6 DEF Grown

-----------------------------------------------------------------------------
\* The steps, as the splices see them.

SpliceTypes ==
    /\ listSCTE35 \in [Streams -> [Partitions -> Seq(Events)]]
    /\ mapOldSCTE35SpliceInserts \in [EventIds -> Nat \cup {NULL}]
    /\ streamPassFail \in [Streams -> BOOLEAN]

\* What a section does to the list of a stream and partition.
AddedOrNot(x, s, p) ==
    LET L == listSCTE35[s][p]
        R == listSCTE35'[s][p]
    IN  \/ /\ s \in AddedTo(x) /\ HasBoundary(s, p)
           /\ \E g : Adds(R, L, x, g)
           /\ \A timed \in BOOLEAN :
                 InOrder(L, timed) /\ (timed => ~ToAdjust(x)) => InOrder(R, timed)
        \/ ~(s \in AddedTo(x) /\ HasBoundary(s, p)) /\ R = L

LEMMA SectionStep ==
    ASSUME SpliceTypes, NEW x \in Packets, ~IsPES(x), Receive(x)
    PROVE  /\ x \in Events
           /\ UNCHANGED <<posts, currentVideoPTS, lastVideoChunkPTS, streamPassFail>>
           /\ mapOldSCTE35SpliceInserts' = pruneOldSCTE35Map
           /\ reused' = reused \cup ReportedIf(IsInsert(x) /\ pruneOldSCTE35Map[x.id] # NULL)
           /\ tooClose' = tooClose \cup ReportedIf(IsInsert(x) /\ TooClose(x, currentVideoPTS))
           /\ SpliceTypes'
           /\ \A s \in Streams, p \in Partitions : AddedOrNot(x, s, p)
  <1>1. /\ x \in Events
        /\ UNCHANGED <<posts, currentVideoPTS, lastVideoChunkPTS, streamPassFail>>
        /\ mapOldSCTE35SpliceInserts' = pruneOldSCTE35Map
        /\ reused' = reused \cup ReportedIf(IsInsert(x) /\ pruneOldSCTE35Map[x.id] # NULL)
        /\ tooClose' = tooClose \cup ReportedIf(IsInsert(x) /\ TooClose(x, currentVideoPTS))
    BY DEF Receive, validate_ts_packet, Events
  <1>2. listSCTE35' = [s \in Streams |-> [p \in Partitions |->
           IF s \in AddedTo(x) /\ HasBoundary(s, p) THEN addSCTE35Point(listSCTE35[s][p], x)
           ELSE listSCTE35[s][p]]]
    BY DEF Receive, validate_ts_packet
  <1>3. IsInsert(x) /\ x.cancel => AddedTo(x) = {}
    <2> SUFFICES ASSUME IsInsert(x), x.cancel PROVE AddedTo(x) = {}
      OBVIOUS
    <2>1. ~IsSignal(x) /\ ~x.program /\ \A s \in DOMAIN x.components : x.components[s] = 0
      BY <1>1, SectionFacts DEF IsSplice
    <2>2. AddedTo(x) = Components(x)
      BY <2>1 DEF AddedTo
    <2>3. QED
      BY <2>1, <2>2 DEF Components
  <1>4. ASSUME NEW s \in Streams, NEW p \in Partitions
        PROVE  listSCTE35'[s][p] \in Seq(Events) /\ AddedOrNot(x, s, p)
    <2>1. listSCTE35[s][p] \in Seq(Events)
      BY DEF SpliceTypes
    <2>2. CASE s \in AddedTo(x) /\ HasBoundary(s, p)
      <3>1. listSCTE35'[s][p] = addSCTE35Point(listSCTE35[s][p], x)
        BY <1>2, <2>2
      <3>2. IsInsert(x) => ~x.cancel
        BY <1>3, <2>2
      <3>3. ASSUME NEW timed \in BOOLEAN, timed => ~ToAdjust(x)
            PROVE  /\ listSCTE35'[s][p] \in Seq(Events)
                   /\ \E g : Adds(listSCTE35'[s][p], listSCTE35[s][p], x, g)
                   /\ InOrder(listSCTE35[s][p], timed) => InOrder(listSCTE35'[s][p], timed)
        BY <1>1, <2>1, <3>1, <3>2, <3>3, PointAdded
      <3>4. /\ listSCTE35'[s][p] \in Seq(Events)
            /\ \E g : Adds(listSCTE35'[s][p], listSCTE35[s][p], x, g)
        BY <3>3
      <3>5. QED
        BY <2>2, <3>3, <3>4 DEF AddedOrNot
    <2>3. CASE ~(s \in AddedTo(x) /\ HasBoundary(s, p))
      <3>1. listSCTE35'[s][p] = listSCTE35[s][p]
        BY <1>2, <2>3
      <3>2. QED
        BY <2>1, <2>3, <3>1 DEF AddedOrNot
    <2>4. QED
      BY <2>2, <2>3
  <1>5. SpliceTypes'
    <2>1. listSCTE35' \in [Streams -> [Partitions -> Seq(Events)]]
      <3>1. /\ listSCTE35' = [s \in Streams |-> listSCTE35'[s]]
            /\ \A s \in Streams : listSCTE35'[s] = [p \in Partitions |-> listSCTE35'[s][p]]
        BY <1>2
      <3>2. QED
        BY <1>4, <3>1
    <2>2. mapOldSCTE35SpliceInserts' \in [EventIds -> Nat \cup {NULL}]
      BY <1>1 DEF SpliceTypes, pruneOldSCTE35Map
    <2>3. QED
      BY <1>1, <2>1, <2>2 DEF SpliceTypes
  <1>6. QED
    BY <1>1, <1>4, <1>5

\* R is what a PES packet leaves of L: splices that have passed are gone, and so are those
\* that a boundary near them took.
Takes(h, R, L, s, pts, posted) ==
    /\ Embeds(R, L, h)
    /\ \A i \in 1 .. Len(L) :
          IF i \in Range(h) THEN ~Passed(L[i], s, pts)
          ELSE (posted /\ Near(L[i], s, pts)) \/ Passed(L[i], s, pts)
    /\ posted /\ (\E i \in 1 .. Len(L) : Near(L[i], s, pts)) =>
          \E i \in 1 .. Len(L) : i \notin Range(h) /\ Near(L[i], s, pts)

\* The same, and whether nothing has passed.
TakesOf(R, M, L, s, pts, posted) ==
    /\ R \in Seq(Events)
    /\ \E h : Takes(h, R, L, s, pts, posted)
    /\ R = M <=> \A i \in 1 .. Len(L) : ~Passed(L[i], s, pts)

LEMMA PacketTakes ==
    ASSUME SpliceTypes, NEW s \in Streams, NEW p \in Partitions, NEW pts \in Nat, NEW ebp
    PROVE  LET M == AfterBoundary(s, pts, ebp, p)
           IN  TakesOf(checkPTSAgainstSCTE35Points(M, s, pts), M, listSCTE35[s][p], s, pts,
                       p \in detectBoundary(s, pts, ebp))
  <1> DEFINE L == listSCTE35[s][p]
             M == AfterBoundary(s, pts, ebp, p)
             R == checkPTSAgainstSCTE35Points(M, s, pts)
             posted == p \in detectBoundary(s, pts, ebp)
  <1>1. L \in Seq(Events) /\ Len(L) \in Nat /\ \A i \in 1 .. Len(L) : L[i] \in Events
    BY LenProperties, ElementOfSeq DEF SpliceTypes
  <1>2. /\ M \in Seq(Events)
        /\ \E f : /\ Embeds(M, L, f)
                  /\ \A i \in 1 .. Len(L) : i \notin Range(f) => Near(L[i], s, pts) /\ posted
                  /\ posted /\ (\E i \in 1 .. Len(L) : Near(L[i], s, pts)) =>
                        \E i \in 1 .. Len(L) : i \notin Range(f)
    BY <1>1, BoundaryTakes
  <1> HIDE DEF M, posted
  <1>3. PICK f : /\ Embeds(M, L, f)
                 /\ \A i \in 1 .. Len(L) : i \notin Range(f) => Near(L[i], s, pts) /\ posted
                 /\ posted /\ (\E i \in 1 .. Len(L) : Near(L[i], s, pts)) =>
                       \E i \in 1 .. Len(L) : i \notin Range(f)
    BY <1>2
  <1>4. /\ R \in Seq(Events)
        /\ \E g : /\ Embeds(R, M, g)
                  /\ \A j \in 1 .. Len(M) : j \in Range(g) <=> ~Passed(M[j], s, pts)
        /\ R = M <=> \A j \in 1 .. Len(M) : ~Passed(M[j], s, pts)
    BY <1>2, PassedAreTaken
  <1> HIDE DEF R, L
  <1>5. PICK g : /\ Embeds(R, M, g)
                 /\ \A j \in 1 .. Len(M) : j \in Range(g) <=> ~Passed(M[j], s, pts)
    BY <1>4
  <1>6. PICK h : Embeds(R, L, h) /\ Composes(h, f, g, L, M)
    <2>1. M \in Seq(Events) /\ Embeds(M, L, f) /\ Embeds(R, M, g) /\ R \in Seq(Events)
      BY <1>2, <1>3, <1>4, <1>5
    <2>2. QED
      BY <1>1, <2>1, LeftOfWhatIsLeft
  <1>7. /\ \A j \in 1 .. Len(M) : M[j] = L[f[j]] /\ f[j] \in 1 .. Len(L)
        /\ DOMAIN f = 1 .. Len(M)
        /\ \A k \in 1 .. Len(R) : R[k] = M[g[k]] /\ g[k] \in 1 .. Len(M) /\ R[k] = L[h[k]]
        /\ DOMAIN g = 1 .. Len(R) /\ DOMAIN h = 1 .. Len(R)
    BY <1>3, <1>5, <1>6 DEF Embeds
  <1>8. \A i \in 1 .. Len(L) : Near(L[i], s, pts) => ~Passed(L[i], s, pts)
    BY <1>1, NearOrPassed
  <1>9. ASSUME NEW i \in 1 .. Len(L)
        PROVE  /\ i \in Range(h) => ~Passed(L[i], s, pts)
               /\ i \notin Range(h) => (posted /\ Near(L[i], s, pts)) \/ Passed(L[i], s, pts)
    <2>1. ASSUME i \in Range(h) PROVE ~Passed(L[i], s, pts)
      <3>1. PICK k \in 1 .. Len(R) : i = h[k]
        BY <1>7, <2>1 DEF Range
      <3>2. g[k] \in Range(g) /\ L[i] = M[g[k]] /\ g[k] \in 1 .. Len(M)
        BY <1>7, <3>1 DEF Range
      <3>3. QED
        BY <1>5, <3>2
    <2>2. ASSUME i \notin Range(h) PROVE (posted /\ Near(L[i], s, pts)) \/ Passed(L[i], s, pts)
      <3>1. CASE i \notin Range(f)
        BY <1>3, <3>1
      <3>2. CASE i \in Range(f)
        <4>1. PICK j \in 1 .. Len(M) : j \notin Range(g) /\ i = f[j]
          BY <1>6, <2>2, <3>2 DEF Composes
        <4>2. Passed(M[j], s, pts) /\ M[j] = L[i]
          BY <1>5, <1>7, <4>1
        <4>3. QED
          BY <4>2
      <3>3. QED
        BY <3>1, <3>2
    <2>3. QED
      BY <2>1, <2>2
  <1>10. ASSUME posted, \E i \in 1 .. Len(L) : Near(L[i], s, pts)
         PROVE  \E i \in 1 .. Len(L) : i \notin Range(h) /\ Near(L[i], s, pts)
    <2>1. PICK i \in 1 .. Len(L) : i \notin Range(f)
      BY <1>3, <1>10
    <2>2. i \notin Range(h) /\ Near(L[i], s, pts)
      BY <1>3, <1>6, <2>1 DEF Composes
    <2>3. QED
      BY <2>2
  <1>11. (\A j \in 1 .. Len(M) : ~Passed(M[j], s, pts)) <=>
            \A i \in 1 .. Len(L) : ~Passed(L[i], s, pts)
    <2>1. ASSUME NEW i \in 1 .. Len(L), Passed(L[i], s, pts)
          PROVE  \E j \in 1 .. Len(M) : Passed(M[j], s, pts)
      <3>1. i \in Range(f)
        BY <1>3, <1>8, <2>1
      <3>2. PICK j \in 1 .. Len(M) : i = f[j]
        BY <1>7, <3>1 DEF Range
      <3>3. QED
        BY <1>7, <2>1, <3>2
    <2>2. ASSUME NEW j \in 1 .. Len(M), Passed(M[j], s, pts)
          PROVE  \E i \in 1 .. Len(L) : Passed(L[i], s, pts)
      BY <1>7, <2>2
    <2>3. QED
      BY <2>1, <2>2
  <1>12. Takes(h, R, L, s, pts, posted)
    BY <1>6, <1>9, <1>10 DEF Takes
  <1>13. TakesOf(R, M, L, s, pts, posted)
    BY <1>4, <1>11, <1>12 DEF TakesOf
  <1>14. QED
    BY <1>13 DEF R, M, L, posted

\* The record of an event that has left a list of stream s.
Gone(s) == UNION {Range(listSCTE35[s][p]) \ Range(listSCTE35'[s][p]) : p \in Partitions}

NonePassed(s, pts) ==
    \A p \in Partitions : \A i \in 1 .. Len(listSCTE35[s][p]) : ~Passed(listSCTE35[s][p][i], s, pts)

\* What a PES packet x does to the splices.
LEMMA PacketStep ==
    ASSUME SpliceTypes, NEW x \in Packets, IsPES(x), Receive(x)
    PROVE  LET s == x.stream
               pts == x.PTS
               boundaries == detectBoundary(s, pts, x.ebp)
           IN  /\ s \in Streams /\ pts \in Nat /\ x.valid \in BOOLEAN
               /\ listSCTE35' \in [Streams -> [Partitions -> Seq(Events)]]
               /\ \A t \in Streams : t # s => listSCTE35'[t] = listSCTE35[t]
               /\ \A p \in Partitions : \E h :
                     Takes(h, listSCTE35'[s][p], listSCTE35[s][p], s, pts, p \in boundaries)
               /\ streamPassFail' \in [Streams -> BOOLEAN]
               /\ \A t \in Streams : t # s => streamPassFail'[t] = streamPassFail[t]
               /\ streamPassFail'[s] <=> /\ streamPassFail[s] /\ x.valid
                                         /\ ~Lags(s, pts, boundaries) /\ NonePassed(s, pts)
               /\ mapOldSCTE35SpliceInserts' = OldWith(Gone(s))
               /\ currentVideoPTS' = IF s = Video THEN pts ELSE currentVideoPTS
               /\ lastVideoChunkPTS' =
                     IF s = Video /\ boundaries # {} THEN pts ELSE lastVideoChunkPTS
               /\ UNCHANGED <<reused, tooClose>>
  <1> DEFINE s == x.stream
             pts == x.PTS
             boundaries == detectBoundary(s, pts, x.ebp)
             answered == [p \in Partitions |-> AfterBoundary(s, pts, x.ebp, p)]
             left == [p \in Partitions |-> checkPTSAgainstSCTE35Points(answered[p], s, pts)]
  <1>1. s \in Streams /\ pts \in Nat /\ x.valid \in BOOLEAN
    BY PacketsAssumption
  <1>2. /\ listSCTE35' = [listSCTE35 EXCEPT ![s] = left]
        /\ mapOldSCTE35SpliceInserts' =
              OldWith(UNION {Range(listSCTE35[s][p]) \ Range(left[p]) : p \in Partitions})
        /\ currentVideoPTS' = IF s = Video THEN pts ELSE currentVideoPTS
        /\ lastVideoChunkPTS' = IF s = Video /\ boundaries # {} THEN pts ELSE lastVideoChunkPTS
        /\ streamPassFail' = [streamPassFail EXCEPT ![s] =
              @ /\ x.valid /\ ~Lags(s, pts, boundaries) /\ left = answered]
        /\ UNCHANGED <<reused, tooClose>>
    BY DEF Receive, validate_pes_packet, reported
  <1>3. \A p \in Partitions :
           TakesOf(left[p], answered[p], listSCTE35[s][p], s, pts, p \in boundaries)
    BY <1>1, PacketTakes
  <1>4. left = answered <=> \A p \in Partitions : left[p] = answered[p]
    OBVIOUS
  <1>5. DOMAIN left = Partitions /\ left = [p \in Partitions |-> left[p]]
    OBVIOUS
  <1> HIDE DEF left, answered, s, pts, boundaries
  <1>6. left = answered <=> NonePassed(s, pts)
    BY <1>3, <1>4 DEF TakesOf, NonePassed
  <1>7. left \in [Partitions -> Seq(Events)]
    BY <1>3, <1>5 DEF TakesOf
  <1>8. /\ listSCTE35' \in [Streams -> [Partitions -> Seq(Events)]]
        /\ listSCTE35'[s] = left
        /\ \A t \in Streams : t # s => listSCTE35'[t] = listSCTE35[t]
    BY <1>1, <1>2, <1>7 DEF SpliceTypes
  <1>9. \A p \in Partitions : \E h :
           Takes(h, listSCTE35'[s][p], listSCTE35[s][p], s, pts, p \in boundaries)
    BY <1>3, <1>8 DEF TakesOf
  <1>10. /\ streamPassFail' \in [Streams -> BOOLEAN]
         /\ \A t \in Streams : t # s => streamPassFail'[t] = streamPassFail[t]
         /\ streamPassFail'[s] <=> /\ streamPassFail[s] /\ x.valid
                                   /\ ~Lags(s, pts, boundaries) /\ NonePassed(s, pts)
    <2> DEFINE new == streamPassFail[s] /\ x.valid /\ ~Lags(s, pts, boundaries) /\ left = answered
    <2>1. streamPassFail' = [streamPassFail EXCEPT ![s] = new]
      BY <1>2
    <2>2. new \in BOOLEAN
      OBVIOUS
    <2>3. new <=> /\ streamPassFail[s] /\ x.valid
                  /\ ~Lags(s, pts, boundaries) /\ NonePassed(s, pts)
      BY <1>6
    <2> HIDE DEF new
    <2>4. /\ streamPassFail' \in [Streams -> BOOLEAN]
          /\ \A t \in Streams : t # s => streamPassFail'[t] = streamPassFail[t]
          /\ streamPassFail'[s] = new
      BY <1>1, <2>1, <2>2 DEF SpliceTypes
    <2>5. QED
      BY <2>3, <2>4
  <1>11. mapOldSCTE35SpliceInserts' = OldWith(Gone(s))
    BY <1>2, <1>8 DEF Gone
  <1>12. QED
    BY <1>1, <1>2, <1>8, <1>9, <1>10, <1>11 DEF s, pts, boundaries

\* The map of old ids stays one.
LEMMA OldTypes ==
    ASSUME SpliceTypes, NEW s \in Streams
    PROVE  /\ OldWith(Gone(s)) \in [EventIds -> Nat \cup {NULL}]
           /\ \A id \in EventIds :
                 LET events == {x \in Gone(s) : IsInsert(x) /\ x.id = id}
                 IN  /\ mapOldSCTE35SpliceInserts[id] # NULL =>
                           OldWith(Gone(s))[id] = mapOldSCTE35SpliceInserts[id]
                     /\ mapOldSCTE35SpliceInserts[id] = NULL /\ events = {} =>
                           OldWith(Gone(s))[id] = NULL
                     /\ mapOldSCTE35SpliceInserts[id] = NULL /\ events # {} =>
                           /\ OldWith(Gone(s))[id] # NULL
                           /\ \E x \in events : OldWith(Gone(s))[id] = scte35_get_latest_PTS(x)
  <1> DEFINE events(id) == {x \in Gone(s) : IsInsert(x) /\ x.id = id}
  <1>1. Gone(s) \subseteq Events
    <2> SUFFICES ASSUME NEW p \in Partitions, NEW x \in Range(listSCTE35[s][p])
                 PROVE  x \in Events
      BY DEF Gone
    <2>1. listSCTE35[s][p] \in Seq(Events)
      BY DEF SpliceTypes
    <2>2. PICK i \in 1 .. Len(listSCTE35[s][p]) : x = listSCTE35[s][p][i]
      BY <2>1, LenProperties DEF Range
    <2>3. QED
      BY <2>1, <2>2, ElementOfSeq
  <1>2. \A id : \A x \in events(id) : scte35_get_latest_PTS(x) \in Nat
    BY <1>1, PTSIsNat
  <1>3. \A id \in EventIds :
           OldWith(Gone(s))[id] =
              IF mapOldSCTE35SpliceInserts[id] # NULL \/ events(id) = {}
              THEN mapOldSCTE35SpliceInserts[id]
              ELSE scte35_get_latest_PTS(CHOOSE x \in events(id) : TRUE)
    BY DEF OldWith
  <1>4. \A id : events(id) # {} => (CHOOSE x \in events(id) : TRUE) \in events(id)
    OBVIOUS
  <1>5. NULL \notin Nat
    BY PacketsAssumption
  <1>6. OldWith(Gone(s)) = [id \in EventIds |-> OldWith(Gone(s))[id]]
    BY DEF OldWith
  <1> HIDE DEF events
  <1>7. ASSUME NEW id \in EventIds
        PROVE  /\ OldWith(Gone(s))[id] \in Nat \cup {NULL}
               /\ mapOldSCTE35SpliceInserts[id] # NULL =>
                     OldWith(Gone(s))[id] = mapOldSCTE35SpliceInserts[id]
               /\ mapOldSCTE35SpliceInserts[id] = NULL /\ events(id) = {} =>
                     OldWith(Gone(s))[id] = NULL
               /\ mapOldSCTE35SpliceInserts[id] = NULL /\ events(id) # {} =>
                     /\ OldWith(Gone(s))[id] # NULL
                     /\ \E x \in events(id) : OldWith(Gone(s))[id] = scte35_get_latest_PTS(x)
    <2>1. mapOldSCTE35SpliceInserts[id] \in Nat \cup {NULL}
      BY DEF SpliceTypes
    <2>2. CASE mapOldSCTE35SpliceInserts[id] # NULL \/ events(id) = {}
      <3>1. OldWith(Gone(s))[id] = mapOldSCTE35SpliceInserts[id]
        BY <1>3, <2>2
      <3>2. QED
        BY <2>1, <2>2, <3>1
    <2>3. CASE ~(mapOldSCTE35SpliceInserts[id] # NULL \/ events(id) = {})
      <3>1. PICK x \in events(id) : OldWith(Gone(s))[id] = scte35_get_latest_PTS(x)
        BY <1>3, <1>4, <2>3
      <3>2. OldWith(Gone(s))[id] \in Nat
        BY <1>2, <3>1
      <3>3. QED
        BY <1>5, <2>3, <3>1, <3>2
    <2>4. QED
      BY <2>2, <2>3
  <1>8. OldWith(Gone(s)) \in [EventIds -> Nat \cup {NULL}]
    BY <1>6, <1>7
  <1>9. QED
    BY <1>7, <1>8 DEF events

LEMMA RangeAppended ==
    ASSUME NEW S, NEW L \in Seq(S), NEW x \in S
    PROVE  Range(Append(L, x)) = Range(L) \cup {x}
  <1> DEFINE R == Append(L, x)
             n == Len(L)
  <1>1. /\ n \in Nat /\ DOMAIN L = 1 .. n /\ DOMAIN R = 1 .. n + 1
        /\ R[n + 1] = x /\ \A k \in 1 .. n : R[k] = L[k]
    BY AppendProperties, LenProperties
  <1> HIDE DEF R, n
  <1>2. \A k \in 1 .. n : k \in 1 .. n + 1
    BY <1>1
  <1>3. \A k \in 1 .. n + 1 : k = n + 1 \/ k \in 1 .. n
    BY <1>1
  <1>4. n + 1 \in 1 .. n + 1
    BY <1>1
  <1>5. Range(R) = Range(L) \cup {x}
    BY <1>1, <1>2, <1>3, <1>4 DEF Range
  <1>6. QED
    BY <1>5 DEF R

-----------------------------------------------------------------------------
\* What the thread remembers of packets it has had.

\* What was posted was received.
PostsOK ==
    \A s \in Streams, p \in Partitions : \A post \in Range(posts[s][p]) :
        /\ post \in Post /\ post.at \in 1 .. Len(received) /\ IsPESOf(post.at, s)
        /\ post.PTS = received[post.at].PTS

\* The video PTSs the thread remembers.
VideoOK ==
    /\ currentVideoPTS = VideoPTSAt(Len(received) + 1)
    /\ lastVideoChunkPTS \in Nat
    /\ lastVideoChunkPTS # 0 =>
          \E q \in Partitions : \E v \in Range(posts[Video][q]) : v.PTS = lastVideoChunkPTS

\* A PES packet is posted for the partitions that have a boundary.
PostsAfter(x, t, p) ==
    LET posted == t = x.stream /\ p \in detectBoundary(t, x.PTS, x.ebp)
        post   == [at |-> Len(received) + 1, PTS |-> x.PTS]
    IN  /\ posted => Range(posts'[t][p]) = Range(posts[t][p]) \cup {post}
        /\ ~posted => Range(posts'[t][p]) = Range(posts[t][p])

LEMMA PacketPosts ==
    ASSUME IInv, NEW x \in Packets, IsPES(x), Receive(x), NEW t \in Streams, NEW p \in Partitions
    PROVE  PostsAfter(x, t, p)
  <1> DEFINE posted == t = x.stream /\ p \in detectBoundary(t, x.PTS, x.ebp)
             post   == [at |-> Len(received) + 1, PTS |-> x.PTS]
  <1>1. /\ post \in Post
        /\ posts'[t][p] = IF t = x.stream /\ p \in detectBoundary(x.stream, x.PTS, x.ebp)
                          THEN Append(posts[t][p], post) ELSE posts[t][p]
    BY PacketFacts
  <1>2. posts[t][p] \in Seq(Post)
    BY DEF IInv
  <1> HIDE DEF post
  <1>3. CASE posted
    <2>1. posts'[t][p] = Append(posts[t][p], post)
      BY <1>1, <1>3
    <2>2. Range(posts'[t][p]) = Range(posts[t][p]) \cup {post}
      BY <1>1, <1>2, <2>1, RangeAppended
    <2>3. QED
      BY <1>3, <2>2 DEF PostsAfter, post
  <1>4. CASE ~posted
    <2>1. posts'[t][p] = posts[t][p]
      BY <1>1, <1>4
    <2>2. QED
      BY <1>4, <2>1 DEF PostsAfter
  <1>5. QED
    BY <1>3, <1>4

LEMMA PostsStep ==
    ASSUME IInv, SpliceTypes, PostsOK, NEW x \in Packets, Receive(x)
    PROVE  PostsOK'
  <1>0. PICK n \in Nat : Grown(x, n)
    BY Grows
  <1> DEFINE Good(s, post) == /\ post \in Post /\ post.at \in 1 .. n + 1 /\ IsPESOf(post.at, s)'
                              /\ post.PTS = received'[post.at].PTS
  <1>1. /\ n = Len(received) /\ Len(received') = n + 1 /\ received'[n + 1] = x
        /\ \A k \in 1 .. n : SameBefore(k)
        /\ \A s : IsPESOf(n + 1, s)' <=> IsPES(x) /\ x.stream = s
    BY <1>0 DEF Grown
  <1>2. ASSUME NEW s \in Streams, NEW p \in Partitions, NEW post \in Range(posts[s][p])
        PROVE  Good(s, post)
    <2>1. /\ post \in Post /\ post.at \in 1 .. n /\ IsPESOf(post.at, s)
          /\ post.PTS = received[post.at].PTS
      BY <1>1 DEF PostsOK
    <2>2. SameBefore(post.at)
      BY <1>1, <2>1
    <2>3. IsPESOf(post.at, s)' /\ received'[post.at] = received[post.at]
      BY <2>1, <2>2 DEF SameBefore
    <2>4. post.at \in 1 .. n + 1
      BY <1>1, <2>1
    <2>5. QED
      BY <2>1, <2>3, <2>4
  <1>3. ASSUME NEW s \in Streams, NEW p \in Partitions, NEW post \in Range(posts'[s][p])
        PROVE  Good(s, post)
    <2>1. CASE post \in Range(posts[s][p])
      BY <1>2, <2>1
    <2>2. CASE post \notin Range(posts[s][p])
      <3>1. IsPES(x)
        BY <2>2, SectionStep
      <3>2. /\ post = [at |-> n + 1, PTS |-> x.PTS] /\ s = x.stream
        BY <1>1, <2>2, <3>1, PacketPosts DEF PostsAfter
      <3>3. post \in Post
        BY <1>1, <3>1, <3>2, PacketsAssumption DEF Post
      <3>4. post.at = n + 1 /\ post.PTS = x.PTS
        BY <3>2
      <3>5. IsPESOf(n + 1, s)'
        BY <1>1, <3>1, <3>2
      <3>6. QED
        BY <1>1, <3>3, <3>4, <3>5
    <2>3. QED
      BY <2>1, <2>2
  <1> HIDE DEF Good
  <1>4. \A s \in Streams, p \in Partitions : \A post \in Range(posts'[s][p]) : Good(s, post)
    BY <1>3
  <1>5. QED
    BY <1>1, <1>4 DEF PostsOK, Good

LEMMA VideoStep ==
    ASSUME IInv, SpliceTypes, VideoOK, NEW x \in Packets, Receive(x)
    PROVE  VideoOK'
  <1>0. PICK n \in Nat : Grown(x, n)
    BY Grows
  <1> DEFINE before == {j \in 1 .. n : IsPESOf(j, Video)}
             after == {j \in 1 .. n + 1 : IsPESOf(j, Video)'}
  <1>1. /\ n = Len(received) /\ Len(received') = n + 1 /\ received'[n + 1] = x
        /\ \A k \in 1 .. n : SameBefore(k)
        /\ \A k \in 1 .. n + 1 : VideoPTSAt(k)' = VideoPTSAt(k)
        /\ \A s : IsPESOf(n + 1, s)' <=> IsPES(x) /\ x.stream = s
    BY <1>0 DEF Grown
  <1>v. VideoPTSAt(n + 1)' = VideoPTSAt(n + 1)
    <2>1. n + 1 \in 1 .. n + 1
      OBVIOUS
    <2>2. QED
      BY <1>1, <2>1
  <1>2. /\ VideoPTSAt(n + 1) = IF before = {} THEN 0 ELSE received[Max(before)].PTS
        /\ VideoPTSAt(n + 2)' = IF after = {} THEN 0 ELSE received'[Max(after)].PTS
    <2>1. n + 1 - 1 = n /\ n + 2 - 1 = n + 1
      BY <1>1
    <2>2. VideoPTSAt(n + 1) = IF before = {} THEN 0 ELSE received[Max(before)].PTS
      <3>1. {j \in 1 .. n + 1 - 1 : IsPESOf(j, Video)} = before
        BY <2>1
      <3> HIDE DEF before
      <3>2. QED
        BY <3>1 DEF VideoPTSAt
    <2>3. VideoPTSAt(n + 2)' = IF after = {} THEN 0 ELSE received'[Max(after)].PTS
      <3>1. {j \in 1 .. n + 2 - 1 : IsPESOf(j, Video)'} = after
        BY <2>1
      <3> HIDE DEF after
      <3>2. QED
        BY <3>1 DEF VideoPTSAt
    <2>4. QED
      BY <2>2, <2>3
  <1>3. IsPESOf(n + 1, Video)' <=> IsPES(x) /\ x.stream = Video
    BY <1>1
  <1>4. \A k \in 1 .. n : IsPESOf(k, Video)' <=> IsPESOf(k, Video)
    BY <1>1 DEF SameBefore
  <1>5. \A k \in 1 .. n + 1 : k = n + 1 \/ k \in 1 .. n
    BY <1>1
  <1>6. ASSUME ~(IsPES(x) /\ x.stream = Video)
        PROVE  VideoPTSAt(n + 2)' = VideoPTSAt(n + 1)
    <2>1. after = before
      BY <1>1, <1>3, <1>4, <1>5, <1>6
    <2>2. VideoPTSAt(n + 1)' = IF after = {} THEN 0 ELSE received'[Max(after)].PTS
      <3>1. {j \in 1 .. n + 1 - 1 : IsPESOf(j, Video)'} = after
        BY <1>1, <1>3, <1>4, <1>5, <1>6
      <3> HIDE DEF after
      <3>2. QED
        BY <3>1 DEF VideoPTSAt
    <2> HIDE DEF after, before
    <2>3. VideoPTSAt(n + 2)' = VideoPTSAt(n + 1)'
      BY <1>2, <2>2
    <2>4. QED
      BY <1>v, <2>3
  <1>7. ASSUME IsPES(x), x.stream = Video PROVE VideoPTSAt(n + 2)' = x.PTS
    <2>1. after # {} /\ after \subseteq Nat /\ n + 1 \in after /\ \A k \in after : k <= n + 1
      BY <1>1, <1>3, <1>7
    <2>2. IsFiniteSet(after)
      <3>1. after \in SUBSET (1 .. n + 1) /\ IsFiniteSet(1 .. n + 1)
        BY <1>1, FS_Interval
      <3> HIDE DEF after
      <3>2. QED
        BY <3>1, FS_Subset
    <2> HIDE DEF after
    <2>3. Max(after) \in after /\ n + 1 <= Max(after)
      BY <2>1, <2>2, HasMax
    <2>m. Max(after) \in Nat /\ Max(after) <= n + 1
      BY <2>1, <2>3
    <2>4. Max(after) = n + 1
      <3> DEFINE m == Max(after)
      <3>1. m \in Nat /\ m <= n + 1 /\ n + 1 <= m
        BY <2>3, <2>m
      <3> HIDE DEF m
      <3>2. m = n + 1
        BY <3>1
      <3>3. QED
        BY <3>2 DEF m
    <2>5. VideoPTSAt(n + 2)' = received'[n + 1].PTS
      BY <1>2, <2>1, <2>4
    <2>6. QED
      BY <1>1, <2>5
  <1>8. currentVideoPTS = VideoPTSAt(n + 1)
    BY <1>1 DEF VideoOK
  <1>9. n + 1 + 1 = n + 2
    BY <1>1
  <1>10. currentVideoPTS' = VideoPTSAt(n + 2)'
    <2>1. CASE ~IsPES(x)
      <3>1. currentVideoPTS' = currentVideoPTS
        BY <2>1, SectionStep
      <3>2. QED
        BY <1>6, <1>8, <2>1, <3>1
    <2>2. CASE IsPES(x)
      <3>1. currentVideoPTS' = IF x.stream = Video THEN x.PTS ELSE currentVideoPTS
        BY <2>2, PacketStep
      <3>2. QED
        BY <1>6, <1>7, <1>8, <2>2, <3>1
    <2>3. QED
      BY <2>1, <2>2
  <1>11. currentVideoPTS' = VideoPTSAt(Len(received) + 1)'
    BY <1>1, <1>9, <1>10
  <1>12. /\ lastVideoChunkPTS' \in Nat
         /\ lastVideoChunkPTS' # 0 => \E q \in Partitions : \E v \in Range(posts'[Video][q]) :
                                         v.PTS = lastVideoChunkPTS'
    <2>1. /\ Video \in Streams /\ lastVideoChunkPTS \in Nat
          /\ lastVideoChunkPTS # 0 => \E q \in Partitions : \E v \in Range(posts[Video][q]) :
                                         v.PTS = lastVideoChunkPTS
      BY PacketsAssumption DEF VideoOK
    <2>2. CASE ~IsPES(x)
      <3>1. lastVideoChunkPTS' = lastVideoChunkPTS /\ posts' = posts
        BY <2>2, SectionStep
      <3>2. QED
        BY <2>1, <3>1
    <2>3. CASE IsPES(x)
      <3> DEFINE boundaries == detectBoundary(x.stream, x.PTS, x.ebp)
                 post == [at |-> n + 1, PTS |-> x.PTS]
      <3>1. /\ lastVideoChunkPTS' = IF x.stream = Video /\ boundaries # {} THEN x.PTS
                                    ELSE lastVideoChunkPTS
            /\ x.PTS \in Nat
        BY <2>3, PacketStep
      <3>2. \A q \in Partitions :
               /\ Range(posts[Video][q]) \subseteq Range(posts'[Video][q])
               /\ x.stream = Video /\ q \in boundaries => post \in Range(posts'[Video][q])
        BY <1>1, <2>1, <2>3, PacketPosts DEF PostsAfter
      <3>3. boundaries \subseteq Partitions
        BY DEF detectBoundary, Triggered
      <3>4. post.PTS = x.PTS
        OBVIOUS
      <3> HIDE DEF boundaries, post
      <3>5. CASE x.stream = Video /\ boundaries # {}
        <4>1. PICK q \in Partitions : q \in boundaries
          BY <3>3, <3>5
        <4>2. post \in Range(posts'[Video][q])
          BY <3>2, <3>5, <4>1
        <4>3. QED
          BY <3>1, <3>4, <3>5, <4>2
      <3>6. CASE ~(x.stream = Video /\ boundaries # {})
        <4>1. lastVideoChunkPTS' = lastVideoChunkPTS
          BY <3>1, <3>6
        <4>2. QED
          BY <2>1, <3>2, <4>1
      <3>7. QED
        BY <3>5, <3>6
    <2>4. QED
      BY <2>2, <2>3
  <1>13. QED
    BY <1>11, <1>12 DEF VideoOK

-----------------------------------------------------------------------------
\* Whose splices the boundaries took.

NoneAdjusted == \A k \in 1 .. Len(received) : ~IsAdjusted(k)

AllInOrder == \A s \in Streams, p \in Partitions : InOrder(listSCTE35[s][p], NoneAdjusted)

\* Each splice on a list is of an announcement of its own (own), and so is each that a
\* boundary took (ans; 0 if it took none).  A boundary near a splice that it left took another.
Judged(own, ans, s, p) ==
    LET L == listSCTE35[s][p]
        n == Len(received)
    IN  /\ own \in [1 .. Len(L) -> 1 .. n]
        /\ \A i \in 1 .. Len(L) : received[own[i]] = L[i] /\ Announces(own[i], s, p)
        /\ \A i, j \in 1 .. Len(L) : own[i] = own[j] => i = j
        /\ ans \in [1 .. n -> 0 .. n]
        /\ \A a, b \in 1 .. n : ans[a] # 0 /\ ans[a] = ans[b] => a = b
        /\ \A a \in 1 .. n, i \in 1 .. Len(L) : ans[a] # own[i]
        /\ \A a \in 1 .. n : ans[a] # 0 =>
              /\ Announces(ans[a], s, p) /\ IsPESOf(a, s)
              /\ Near(received[ans[a]], s, received[a].PTS)
        /\ \A i \in 1 .. Len(L), post \in Range(posts[s][p]) :
              post.at > own[i] /\ Near(L[i], s, post.PTS) => ans[post.at] # 0

AllJudged == \A s \in Streams, p \in Partitions : \E own, ans : Judged(own, ans, s, p)

LEMMA EmbedsInOrder ==
    ASSUME NEW L, NEW R, NEW h, Embeds(R, L, h), NEW timed \in BOOLEAN, InOrder(L, timed)
    PROVE  InOrder(R, timed)
  <1> SUFFICES ASSUME NEW i \in 1 .. Len(R), NEW j \in 1 .. Len(R), i < j
               PROVE  /\ IsInsert(R[i]) /\ IsInsert(R[j]) => R[i].id # R[j].id
                      /\ IsSignal(R[i]) /\ IsSignal(R[j]) /\ timed => R[i].time < R[j].time
    BY DEF InOrder
  <1>1. /\ h[i] \in 1 .. Len(L) /\ h[j] \in 1 .. Len(L) /\ h[i] < h[j]
        /\ R[i] = L[h[i]] /\ R[j] = L[h[j]]
    BY DEF Embeds
  <1>2. /\ IsInsert(L[h[i]]) /\ IsInsert(L[h[j]]) => L[h[i]].id # L[h[j]].id
        /\ IsSignal(L[h[i]]) /\ IsSignal(L[h[j]]) /\ timed => L[h[i]].time < L[h[j]].time
    BY <1>1 DEF InOrder
  <1>3. QED
    BY <1>1, <1>2

LEMMA OrderStep ==
    ASSUME IInv, SpliceTypes, AllInOrder, NEW x \in Packets, Receive(x)
    PROVE  AllInOrder'
  <1>t. PICK timed \in BOOLEAN : timed <=> NoneAdjusted'
    OBVIOUS
  <1>a. timed => NoneAdjusted /\ (~IsPES(x) => ~ToAdjust(x))
    <2>1. PICK n \in Nat : Grown(x, n)
      BY Grows
    <2>2. /\ n = Len(received) /\ Len(received') = n + 1 /\ received'[n + 1] = x
          /\ \A k \in 1 .. n : SameBefore(k)
          /\ IsSection(n + 1)' <=> ~IsPES(x)
      BY <2>1 DEF Grown
    <2>3. \A k \in 1 .. n : k \in 1 .. n + 1 /\ (IsAdjusted(k)' <=> IsAdjusted(k))
      BY <2>2 DEF SameBefore, IsAdjusted
    <2>4. n + 1 \in 1 .. n + 1 /\ (IsAdjusted(n + 1)' <=> ~IsPES(x) /\ ToAdjust(x))
      BY <2>2 DEF IsAdjusted, ToAdjust
    <2>5. QED
      BY <1>t, <2>2, <2>3, <2>4 DEF NoneAdjusted
  <1> SUFFICES ASSUME NEW s \in Streams, NEW p \in Partitions
               PROVE  InOrder(listSCTE35'[s][p], timed)
    BY <1>t DEF AllInOrder, InOrder
  <1> DEFINE L == listSCTE35[s][p]
             R == listSCTE35'[s][p]
  <1>1. InOrder(L, timed)
    BY <1>a DEF AllInOrder, InOrder
  <1>2. CASE ~IsPES(x)
    <2>1. AddedOrNot(x, s, p)
      BY <1>2, SectionStep
    <2>2. QED
      BY <1>1, <1>2, <1>a, <2>1 DEF AddedOrNot
  <1>3. CASE IsPES(x)
    <2>1. CASE s # x.stream
      <3>1. R = L
        BY <1>3, <2>1, PacketStep
      <3>2. QED
        BY <1>1, <3>1
    <2>2. CASE s = x.stream
      <3>1. \E h : Takes(h, R, L, s, x.PTS, p \in detectBoundary(s, x.PTS, x.ebp))
        BY <1>3, <2>2, PacketStep
      <3>2. PICK h : Embeds(R, L, h)
        BY <3>1 DEF Takes
      <3> HIDE DEF R, L
      <3>3. QED
        BY <1>1, <3>2, EmbedsInOrder DEF R
    <2>3. QED
      BY <2>1, <2>2
  <1>4. QED
    BY <1>2, <1>3

\* g says where each splice of a list was before packet x, 0 for a new one; x takes the
\* splice at place hit, 0 for none.
Moves(g, hit, x, n, s, p) ==
    LET L == listSCTE35[s][p]
        R == listSCTE35'[s][p]
    IN  /\ g \in [1 .. Len(R) -> 0 .. Len(L)]
        /\ \A k \in 1 .. Len(R) : R[k] = IF g[k] = 0 THEN x ELSE L[g[k]]
        /\ \A j, k \in 1 .. Len(R) : g[j] = g[k] => j = k
        /\ \A k \in 1 .. Len(R) : g[k] = 0 => Announces(n + 1, s, p)'
        /\ hit \in 0 .. Len(L)
        /\ hit # 0 => /\ \A k \in 1 .. Len(R) : g[k] # hit
                      /\ IsPESOf(n + 1, s)' /\ Near(L[hit], s, x.PTS)
        /\ \A post \in Range(posts'[s][p]) :
              \/ post \in Range(posts[s][p])
              \/ /\ post.at = n + 1
                 /\ \A k \in 1 .. Len(R) : g[k] # 0 /\ Near(L[g[k]], s, post.PTS) => hit # 0

LEMMA MovesOf ==
    ASSUME IInv, SpliceTypes, NEW x \in Packets, Receive(x), NEW n \in Nat, Grown(x, n),
           NEW s \in Streams, NEW p \in Partitions
    PROVE  \E g, hit : Moves(g, hit, x, n, s, p)
  <1>1. PICK L : L = listSCTE35[s][p]
    OBVIOUS
  <1>2. PICK R : R = listSCTE35'[s][p]
    OBVIOUS
  <1>3. L \in Seq(Events) /\ Len(L) \in Nat
    BY <1>1, LenProperties DEF SpliceTypes
  <1>4. ASSUME R = L, \A post \in Range(posts'[s][p]) : post \in Range(posts[s][p])
        PROVE  \E g, hit : Moves(g, hit, x, n, s, p)
    <2>1. PICK g : g = [k \in 1 .. Len(L) |-> k]
      OBVIOUS
    <2>2. g \in [1 .. Len(L) -> 0 .. Len(L)] /\ \A k \in 1 .. Len(L) : g[k] = k /\ k # 0
      BY <1>3, <2>1
    <2>3. Moves(g, 0, x, n, s, p)
      BY <1>1, <1>2, <1>3, <1>4, <2>2 DEF Moves
    <2>4. QED
      BY <2>3
  <1>5. CASE ~IsPES(x)
    <2>1. AddedOrNot(x, s, p) /\ posts' = posts
      BY <1>5, SectionStep
    <2>2. CASE s \in AddedTo(x) /\ HasBoundary(s, p)
      <3>1. PICK g : Adds(R, L, x, g)
        BY <1>1, <1>2, <2>1, <2>2 DEF AddedOrNot
      <3>2. Announces(n + 1, s, p)'
        BY <1>5, <2>2 DEF Grown
      <3>3. Moves(g, 0, x, n, s, p)
        BY <1>1, <1>2, <1>3, <2>1, <3>1, <3>2 DEF Moves, Adds
      <3>4. QED
        BY <3>3
    <2>3. CASE ~(s \in AddedTo(x) /\ HasBoundary(s, p))
      <3>1. R = L
        BY <1>1, <1>2, <2>1, <2>3 DEF AddedOrNot
      <3>2. QED
        BY <1>4, <2>1, <3>1
    <2>4. QED
      BY <2>2, <2>3
  <1>6. CASE IsPES(x)
    <2>1. PostsAfter(x, s, p)
      BY <1>6, PacketPosts
    <2>2. CASE s # x.stream
      <3>1. R = L
        BY <1>1, <1>2, <1>6, <2>2, PacketStep
      <3>2. \A post \in Range(posts'[s][p]) : post \in Range(posts[s][p])
        BY <2>1, <2>2 DEF PostsAfter
      <3>3. QED
        BY <1>4, <3>1, <3>2
    <2>3. CASE s = x.stream
      <3> DEFINE posted == p \in detectBoundary(s, x.PTS, x.ebp)
      <3>1. \E h : Takes(h, R, L, s, x.PTS, posted)
        BY <1>1, <1>2, <1>6, <2>3, PacketStep
      <3>2. PICK h : Takes(h, R, L, s, x.PTS, posted)
        BY <3>1
      <3>3. /\ h \in [1 .. Len(R) -> 1 .. Len(L)]
            /\ \A k \in 1 .. Len(R) : R[k] = L[h[k]] /\ h[k] # 0 /\ h[k] \in 1 .. Len(L)
            /\ \A j, k \in 1 .. Len(R) : j < k => h[j] < h[k]
        <4>1. /\ h \in [1 .. Len(R) -> 1 .. Len(L)]
              /\ \A k \in 1 .. Len(R) : R[k] = L[h[k]]
              /\ \A j, k \in 1 .. Len(R) : j < k => h[j] < h[k]
          BY <3>2 DEF Takes, Embeds
        <4>2. \A i \in 1 .. Len(L) : i # 0
          BY <1>3
        <4>3. QED
          BY <4>1, <4>2
      <3>l. Len(R) \in Nat
        <4>1. R \in Seq(Events)
          BY <1>2, <1>6, PacketStep
        <4>2. QED
          BY <4>1, LenProperties
      <3>4. \A j, k \in 1 .. Len(R) : h[j] = h[k] => j = k
        <4> TAKE j, k \in 1 .. Len(R)
        <4>1. j \in Nat /\ k \in Nat /\ h[j] \in Nat /\ h[k] \in Nat
          BY <1>3, <3>3, <3>l
        <4>2. QED
          BY <3>3, <4>1
      <3>5. IsPESOf(n + 1, s)'
        BY <1>6, <2>3 DEF Grown
      <3>6. \A post \in Range(posts'[s][p]) :
               \/ post \in Range(posts[s][p])
               \/ post.at = n + 1 /\ post.PTS = x.PTS /\ posted
        <4> DEFINE new == [at |-> Len(received) + 1, PTS |-> x.PTS]
        <4>1. new.at = n + 1 /\ new.PTS = x.PTS
          BY DEF Grown
        <4> HIDE DEF new
        <4>2. /\ posted => Range(posts'[s][p]) = Range(posts[s][p]) \cup {new}
              /\ ~posted => Range(posts'[s][p]) = Range(posts[s][p])
          BY <2>1, <2>3 DEF PostsAfter, new
        <4>3. QED
          BY <4>1, <4>2
      <3> HIDE DEF posted
      <3>7. h \in [1 .. Len(R) -> 0 .. Len(L)]
        BY <1>3, <3>3
      <3>8. CASE posted /\ \E i \in 1 .. Len(L) : Near(L[i], s, x.PTS)
        <4>1. PICK hit \in 1 .. Len(L) : hit \notin Range(h) /\ Near(L[hit], s, x.PTS)
          BY <3>2, <3>8 DEF Takes
        <4>2. \A k \in 1 .. Len(R) : h[k] # hit
          BY <3>3, <4>1 DEF Range
        <4>3. hit \in 0 .. Len(L) /\ hit # 0
          BY <1>3
        <4>4. Moves(h, hit, x, n, s, p)
          BY <1>1, <1>2, <3>3, <3>4, <3>5, <3>6, <3>7, <4>1, <4>2, <4>3 DEF Moves
        <4>5. QED
          BY <4>4
      <3>9. CASE ~(posted /\ \E i \in 1 .. Len(L) : Near(L[i], s, x.PTS))
        <4>1. \A post \in Range(posts'[s][p]) :
                 \/ post \in Range(posts[s][p])
                 \/ post.at = n + 1 /\ \A k \in 1 .. Len(R) : ~Near(L[h[k]], s, post.PTS)
          BY <3>3, <3>6, <3>9
        <4>2. 0 \in 0 .. Len(L)
          BY <1>3
        <4>3. Moves(h, 0, x, n, s, p)
          BY <1>1, <1>2, <3>3, <3>4, <3>5, <3>7, <4>1, <4>2 DEF Moves
        <4>4. QED
          BY <4>3
      <3>10. QED
        BY <3>8, <3>9
    <2>4. QED
      BY <2>2, <2>3
  <1>7. QED
    BY <1>5, <1>6

LEMMA JudgedStep ==
    ASSUME IInv, SpliceTypes, PostsOK, NEW x \in Packets, Receive(x),
           NEW s \in Streams, NEW p \in Partitions, NEW own, NEW ans, Judged(own, ans, s, p)
    PROVE  \E o, a : Judged(o, a, s, p)'
  <1>1. PICK n \in Nat : Grown(x, n)
    BY Grows
  <1>2. PICK g, hit : Moves(g, hit, x, n, s, p)
    BY <1>1, MovesOf
  <1>3. PICK L : L = listSCTE35[s][p]
    OBVIOUS
  <1>4. PICK R : R = listSCTE35'[s][p]
    OBVIOUS
  <1>5. /\ n = Len(received) /\ Len(received') = n + 1 /\ received'[n + 1] = x
        /\ \A k \in 1 .. n : SameBefore(k)
    BY <1>1 DEF Grown
  <1>6. /\ own \in [1 .. Len(L) -> 1 .. n]
        /\ \A i \in 1 .. Len(L) : received[own[i]] = L[i] /\ Announces(own[i], s, p)
        /\ \A i, j \in 1 .. Len(L) : own[i] = own[j] => i = j
        /\ ans \in [1 .. n -> 0 .. n]
        /\ \A a, b \in 1 .. n : ans[a] # 0 /\ ans[a] = ans[b] => a = b
        /\ \A a \in 1 .. n, i \in 1 .. Len(L) : ans[a] # own[i]
        /\ \A a \in 1 .. n : ans[a] # 0 =>
              /\ Announces(ans[a], s, p) /\ IsPESOf(a, s)
              /\ Near(received[ans[a]], s, received[a].PTS)
        /\ \A i \in 1 .. Len(L), post \in Range(posts[s][p]) :
              post.at > own[i] /\ Near(L[i], s, post.PTS) => ans[post.at] # 0
    BY <1>3, <1>5 DEF Judged
  <1>7. /\ g \in [1 .. Len(R) -> 0 .. Len(L)]
        /\ \A k \in 1 .. Len(R) : R[k] = IF g[k] = 0 THEN x ELSE L[g[k]]
        /\ \A j, k \in 1 .. Len(R) : g[j] = g[k] => j = k
        /\ \A k \in 1 .. Len(R) : g[k] = 0 => Announces(n + 1, s, p)'
        /\ hit \in 0 .. Len(L)
        /\ hit # 0 => /\ \A k \in 1 .. Len(R) : g[k] # hit
                      /\ IsPESOf(n + 1, s)' /\ Near(L[hit], s, x.PTS)
        /\ \A post \in Range(posts'[s][p]) :
              \/ post \in Range(posts[s][p])
              \/ /\ post.at = n + 1
                 /\ \A k \in 1 .. Len(R) : g[k] # 0 /\ Near(L[g[k]], s, post.PTS) => hit # 0
    BY <1>2, <1>3, <1>4 DEF Moves
  <1>8. PICK o : o = [k \in 1 .. Len(R) |-> IF g[k] = 0 THEN n + 1 ELSE own[g[k]]]
    OBVIOUS
  <1>9. PICK a : a = [m \in 1 .. n + 1 |-> IF m = n + 1 THEN IF hit = 0 THEN 0 ELSE own[hit]
                                           ELSE ans[m]]
    OBVIOUS
  <1>l. Len(L) \in Nat
    <2>1. L \in Seq(Events)
      BY <1>3 DEF SpliceTypes
    <2>2. QED
      BY <2>1, LenProperties
  <1>10. \A k \in 1 .. Len(R) :
            \/ g[k] = 0 /\ o[k] = n + 1 /\ R[k] = x
            \/ g[k] \in 1 .. Len(L) /\ o[k] = own[g[k]] /\ own[g[k]] \in 1 .. n /\ R[k] = L[g[k]]
    <2> TAKE k \in 1 .. Len(R)
    <2>1. g[k] = 0 \/ (g[k] \in 1 .. Len(L) /\ g[k] # 0)
      BY <1>7, <1>l
    <2>2. QED
      BY <1>6, <1>7, <1>8, <2>1
  <1>11. /\ \A m \in 1 .. n : a[m] = ans[m] /\ ans[m] \in 0 .. n
         /\ \/ hit = 0 /\ a[n + 1] = 0
            \/ hit \in 1 .. Len(L) /\ a[n + 1] = own[hit] /\ own[hit] \in 1 .. n
         /\ DOMAIN a = 1 .. n + 1
    <2>1. \A m \in 1 .. n : m \in 1 .. n + 1 /\ m # n + 1
      OBVIOUS
    <2>2. hit = 0 \/ (hit \in 1 .. Len(L) /\ hit # 0)
      BY <1>7, <1>l
    <2>3. n + 1 \in 1 .. n + 1
      OBVIOUS
    <2>4. QED
      BY <1>6, <1>9, <2>1, <2>2, <2>3
  <1>12. \A m \in 1 .. n + 1 : m \in 1 .. n \/ m = n + 1
    OBVIOUS
  <1>13. \A m \in 1 .. n : m # n + 1 /\ m \in Nat /\ m # 0 /\ m < n + 1 /\ m \in 1 .. n + 1
    OBVIOUS
  <1>14. o \in [1 .. Len(R) -> 1 .. n + 1]
    <2>1. \A k \in 1 .. Len(R) : o[k] \in 1 .. n + 1
      BY <1>10, <1>13
    <2>2. QED
      BY <1>8, <2>1
  <1>15. ASSUME NEW k \in 1 .. Len(R)
         PROVE  received'[o[k]] = R[k] /\ Announces(o[k], s, p)'
    <2>1. CASE g[k] = 0
      <3>1. o[k] = n + 1 /\ R[k] = x /\ Announces(n + 1, s, p)'
        BY <1>7, <1>10, <2>1
      <3>2. QED
        BY <1>5, <3>1
    <2>2. CASE g[k] # 0
      <3>1. PICK m \in 1 .. n : m = o[k] /\ received[m] = R[k] /\ Announces(m, s, p)
        <4>1. /\ g[k] \in 1 .. Len(L) /\ o[k] = own[g[k]] /\ own[g[k]] \in 1 .. n
              /\ R[k] = L[g[k]]
          BY <1>10, <2>2
        <4>2. received[own[g[k]]] = L[g[k]] /\ Announces(own[g[k]], s, p)
          BY <1>6, <4>1
        <4>3. QED
          BY <4>1, <4>2
      <3>2. SameBefore(m)
        BY <1>5
      <3>3. received'[m] = R[k] /\ Announces(m, s, p)'
        BY <3>1, <3>2 DEF SameBefore
      <3>4. QED
        BY <3>1, <3>3
    <2>3. QED
      BY <2>1, <2>2
  <1>16. ASSUME NEW j \in 1 .. Len(R), NEW k \in 1 .. Len(R), o[j] = o[k] PROVE j = k
    <2>1. g[j] = g[k]
      BY <1>6, <1>10, <1>13, <1>16
    <2>2. QED
      BY <1>7, <2>1
  <1>17. a \in [1 .. n + 1 -> 0 .. n + 1]
    <2>1. \A m \in 0 .. n : m \in 0 .. n + 1
      OBVIOUS
    <2>2. \A m \in 1 .. n : m \in 0 .. n
      OBVIOUS
    <2>3. 0 \in 0 .. n
      OBVIOUS
    <2>4. \A m \in 1 .. n + 1 : a[m] \in 0 .. n + 1
      BY <1>11, <1>12, <2>1, <2>2, <2>3
    <2>5. a = [m \in 1 .. n + 1 |-> a[m]]
      BY <1>9
    <2>6. QED
      BY <2>4, <2>5
  <1>18. ASSUME NEW b \in 1 .. n + 1, NEW c \in 1 .. n + 1, a[b] # 0, a[b] = a[c] PROVE b = c
    <2>1. CASE b \in 1 .. n /\ c \in 1 .. n
      BY <1>6, <1>11, <1>18, <2>1
    <2>2. CASE b = n + 1 /\ c \in 1 .. n
      BY <1>6, <1>11, <1>18, <2>2
    <2>3. CASE c = n + 1 /\ b \in 1 .. n
      BY <1>6, <1>11, <1>18, <2>3
    <2>4. QED
      BY <1>12, <2>1, <2>2, <2>3
  <1>19. ASSUME NEW b \in 1 .. n + 1, NEW k \in 1 .. Len(R) PROVE a[b] # o[k]
    <2>1. CASE g[k] = 0
      <3>1. o[k] = n + 1
        BY <1>10, <2>1
      <3>2. a[b] # n + 1
        <4>1. \A m \in 0 .. n : m # n + 1
          OBVIOUS
        <4>2. \A m \in 1 .. n : m \in 0 .. n
          OBVIOUS
        <4>3. 0 \in 0 .. n
          OBVIOUS
        <4>4. QED
          BY <1>11, <1>12, <4>1, <4>2, <4>3
      <3>3. QED
        BY <3>1, <3>2
    <2>2. CASE g[k] # 0
      <3>1. g[k] \in 1 .. Len(L) /\ o[k] = own[g[k]] /\ own[g[k]] # 0
        BY <1>10, <1>13, <2>2
      <3>2. CASE b \in 1 .. n
        BY <1>6, <1>11, <3>1, <3>2
      <3>3. CASE b = n + 1
        <4>1. CASE hit = 0
          BY <1>11, <1>13, <3>1, <3>3, <4>1
        <4>2. CASE hit # 0
          BY <1>6, <1>7, <1>11, <3>1, <3>3, <4>2
        <4>3. QED
          BY <4>1, <4>2
      <3>4. QED
        BY <1>12, <3>2, <3>3
    <2>3. QED
      BY <2>1, <2>2
  <1>20. ASSUME NEW b \in 1 .. n + 1, a[b] # 0
         PROVE  /\ Announces(a[b], s, p)' /\ IsPESOf(b, s)'
                /\ Near(received'[a[b]], s, received'[b].PTS)
    <2>1. CASE b \in 1 .. n
      <3>1. PICK m \in 1 .. n : m = a[b] /\ Announces(m, s, p) /\ IsPESOf(b, s)
                                /\ Near(received[m], s, received[b].PTS)
        <4>1. a[b] \in 1 .. n
          BY <1>11, <1>20, <2>1
        <4>2. QED
          BY <1>6, <1>11, <1>20, <2>1, <4>1
      <3>2. SameBefore(m) /\ SameBefore(b)
        BY <1>5, <2>1
      <3>3. QED
        BY <3>1, <3>2 DEF SameBefore
    <2>2. CASE b = n + 1
      <3>1. hit # 0 /\ hit \in 1 .. Len(L) /\ a[b] = own[hit] /\ own[hit] \in 1 .. n
        BY <1>11, <1>20, <2>2
      <3>2. PICK m \in 1 .. n : m = a[b] /\ Announces(m, s, p) /\ received[m] = L[hit]
        BY <1>6, <3>1
      <3>3. SameBefore(m)
        BY <1>5
      <3>4. Announces(m, s, p)' /\ received'[m] = L[hit]
        BY <3>2, <3>3 DEF SameBefore
      <3>5. IsPESOf(n + 1, s)' /\ Near(L[hit], s, x.PTS)
        BY <1>7, <3>1
      <3>6. QED
        BY <1>5, <2>2, <3>2, <3>4, <3>5
    <2>3. QED
      BY <1>12, <2>1, <2>2
  <1>21. ASSUME NEW k \in 1 .. Len(R), NEW post \in Range(posts'[s][p]),
                post.at > o[k], Near(R[k], s, post.PTS)
         PROVE  a[post.at] # 0
    <2>1. CASE post \in Range(posts[s][p])
      <3>1. post.at \in 1 .. n
        BY <1>5, <2>1 DEF PostsOK
      <3>2. g[k] # 0
        BY <1>10, <1>13, <1>21, <3>1
      <3>3. g[k] \in 1 .. Len(L) /\ o[k] = own[g[k]] /\ R[k] = L[g[k]]
        BY <1>10, <3>2
      <3>4. ans[post.at] # 0
        BY <1>6, <1>21, <2>1, <3>3
      <3>5. QED
        BY <1>11, <3>1, <3>4
    <2>2. CASE post \notin Range(posts[s][p])
      <3>1. post.at = n + 1
        BY <1>7, <2>2
      <3>2. g[k] # 0
        BY <1>10, <1>21, <3>1
      <3>3. R[k] = L[g[k]]
        BY <1>10, <3>2
      <3>4. hit # 0
        BY <1>7, <1>21, <2>2, <3>2, <3>3
      <3>5. a[n + 1] # 0
        BY <1>11, <1>13, <3>4
      <3>6. QED
        BY <3>1, <3>5
    <2>3. QED
      BY <2>1, <2>2
  <1>22. Judged(o, a, s, p)'
    BY <1>4, <1>5, <1>14, <1>15, <1>16, <1>17, <1>18, <1>19, <1>20, <1>21 DEF Judged
  <1>23. QED
    BY <1>22

-----------------------------------------------------------------------------
\* Splices wait on their lists until a boundary meets them or they pass.

\* The splice of packet k is on its list, and has not passed.
Waits(k, s, p) ==
    /\ \E i \in 1 .. Len(listSCTE35[s][p]) : SameSplice(listSCTE35[s][p][i], received[k])
    /\ \A m \in k + 1 .. Len(received) : ~PassedAt(k, s, m)

\* A boundary was near it before it passed.
Met(k, s, p) ==
    \E post \in Range(posts[s][p]) :
        /\ post.at > k /\ Near(received[k], s, post.PTS)
        /\ \A m \in k + 1 .. post.at : ~PassedAt(k, s, m)

\* What was announced, and not again, waits or was met, unless the stream has failed.
WaitsOrMet ==
    \A k \in 1 .. Len(received), s \in Streams, p \in Partitions :
        Announces(k, s, p) /\ ~AnnouncedAgain(k) /\ ~IsAdjusted(k) /\ streamPassFail[s] =>
            Waits(k, s, p) \/ Met(k, s, p)

LEMMA PostsStay ==
    ASSUME IInv, SpliceTypes, NEW x \in Packets, Receive(x), NEW s \in Streams, NEW p \in Partitions,
           NEW post \in Range(posts[s][p])
    PROVE  post \in Range(posts'[s][p])
  <1>1. CASE ~IsPES(x)
    BY <1>1, SectionStep
  <1>2. CASE IsPES(x)
    BY <1>2, PacketPosts DEF PostsAfter
  <1>3. QED
    BY <1>1, <1>2

\* How the splice of packet k stops to wait at packet x.
Leaves(k, x, s, p) ==
    \/ ~IsPES(x) /\ IsInsert(x) /\ IsInsert(received[k]) /\ received[k].id = x.id
    \/ /\ IsPES(x) /\ s = x.stream /\ (IsInsert(received[k]) => received[k] \in Gone(s))
       /\ \/ Passed(received[k], s, x.PTS)
          \/ Near(received[k], s, x.PTS) /\ p \in detectBoundary(s, x.PTS, x.ebp)

LEMMA WaitsStep ==
    ASSUME IInv, SpliceTypes, NEW x \in Packets, Receive(x), NEW n \in Nat, Grown(x, n),
           NEW s \in Streams, NEW p \in Partitions, NEW k \in 1 .. n, Waits(k, s, p)
    PROVE  Waits(k, s, p)' \/ Leaves(k, x, s, p)
  <1>1. PICK L : L = listSCTE35[s][p]
    OBVIOUS
  <1>2. PICK R : R = listSCTE35'[s][p]
    OBVIOUS
  <1>3. /\ n = Len(received) /\ Len(received') = n + 1
        /\ SameBefore(k)
        /\ PassedAt(k, s, n + 1)' <=> IsPES(x) /\ x.stream = s /\ Passed(received[k], s, x.PTS)
    BY DEF Grown
  <1>4. PICK i \in 1 .. Len(L) : SameSplice(L[i], received[k])
    BY <1>1 DEF Waits
  <1>s. /\ \A pts : /\ Passed(L[i], s, pts) <=> Passed(received[k], s, pts)
                    /\ Near(L[i], s, pts) <=> Near(received[k], s, pts)
        /\ IsInsert(L[i]) \/ IsInsert(received[k]) => L[i] = received[k]
    BY <1>4, SameSpliceFacts
  <1>5. ASSUME NEW j \in 1 .. Len(R), SameSplice(R[j], received[k]), ~PassedAt(k, s, n + 1)'
        PROVE  Waits(k, s, p)'
    <2>1. \A m \in k + 1 .. n : ~PassedAt(k, s, m)'
      <3>1. \A m \in k + 1 .. n : m \in 1 .. n
        OBVIOUS
      <3>2. QED
        BY <1>3, <3>1 DEF Waits, SameBefore
    <2>2. \A m \in k + 1 .. n + 1 : m \in k + 1 .. n \/ m = n + 1
      OBVIOUS
    <2>3. \A m \in k + 1 .. n + 1 : ~PassedAt(k, s, m)'
      BY <1>5, <2>1, <2>2
    <2>4. received'[k] = received[k]
      BY <1>3 DEF SameBefore
    <2>5. QED
      BY <1>2, <1>3, <1>5, <2>3, <2>4 DEF Waits
  <1>6. CASE ~IsPES(x)
    <2>1. AddedOrNot(x, s, p) /\ ~PassedAt(k, s, n + 1)'
      BY <1>3, <1>6, SectionStep
    <2>2. CASE R = L
      BY <1>4, <1>5, <2>1, <2>2
    <2>3. CASE R # L
      <3>1. PICK g : Adds(R, L, x, g)
        BY <1>1, <1>2, <2>1, <2>3 DEF AddedOrNot
      <3>2. CASE \E j \in 1 .. Len(R) : g[j] = i
        <4>1. PICK j \in 1 .. Len(R) : g[j] = i
          BY <3>2
        <4>2. R[j] = L[i]
          <5>1. i # 0
            OBVIOUS
          <5>2. QED
            BY <3>1, <4>1, <5>1 DEF Adds
        <4>3. QED
          BY <1>4, <1>5, <2>1, <4>2
      <3>3. CASE ~ \E j \in 1 .. Len(R) : g[j] = i
        <4>1. IsInsert(x) /\ IsInsert(L[i]) /\ L[i].id = x.id
          BY <3>1, <3>3 DEF Adds
        <4>2. QED
          BY <1>6, <1>s, <4>1 DEF Leaves
      <3>4. QED
        BY <3>2, <3>3
    <2>4. QED
      BY <2>2, <2>3
  <1>7. CASE IsPES(x) /\ s # x.stream
    <2>1. R = L
      BY <1>1, <1>2, <1>7, PacketStep
    <2>2. QED
      BY <1>3, <1>4, <1>5, <1>7, <2>1
  <1>8. CASE IsPES(x) /\ s = x.stream
    <2> DEFINE posted == p \in detectBoundary(s, x.PTS, x.ebp)
    <2>1. \E h : Takes(h, R, L, s, x.PTS, posted)
      BY <1>1, <1>2, <1>8, PacketStep
    <2>2. PICK h : Takes(h, R, L, s, x.PTS, posted)
      BY <2>1
    <2>3. CASE \E j \in 1 .. Len(R) : SameSplice(R[j], received[k])
      <3>1. PICK j \in 1 .. Len(R) : SameSplice(R[j], received[k])
        BY <2>3
      <3>2. h[j] \in 1 .. Len(L) /\ h[j] \in Range(h) /\ L[h[j]] = R[j]
        BY <2>2 DEF Takes, Embeds, Range
      <3>3. ~Passed(received[k], s, x.PTS)
        <4>1. ~Passed(R[j], s, x.PTS)
          BY <2>2, <3>2 DEF Takes
        <4>2. QED
          BY <3>1, <4>1, SameSpliceFacts
      <3>4. QED
        BY <1>3, <1>5, <3>1, <3>3
    <2>4. CASE ~ \E j \in 1 .. Len(R) : SameSplice(R[j], received[k])
      <3>1. DOMAIN R = 1 .. Len(R) /\ DOMAIN L = 1 .. Len(L)
        <4>1. R \in Seq(Events) /\ L \in Seq(Events)
          BY <1>1, <1>2, <1>8, PacketStep DEF SpliceTypes
        <4>2. QED
          BY <4>1, LenProperties
      <3>2. IsInsert(received[k]) => received[k] \in Range(L) \ Range(R)
        BY <1>s, <2>4, <3>1 DEF Range, SameSplice
      <3>3. IsInsert(received[k]) => received[k] \in Gone(s)
        BY <1>1, <1>2, <3>2 DEF Gone
      <3>4. i \notin Range(h)
        <4>1. ASSUME i \in Range(h) PROVE FALSE
          <5>1. PICK j \in 1 .. Len(R) : i = h[j] /\ R[j] = L[h[j]]
            BY <2>2, <4>1 DEF Takes, Embeds, Range
          <5>2. QED
            BY <1>4, <2>4, <5>1
        <4>2. QED
          BY <4>1
      <3>5. (posted /\ Near(L[i], s, x.PTS)) \/ Passed(L[i], s, x.PTS)
        BY <2>2, <3>4 DEF Takes
      <3>6. QED
        BY <1>8, <1>s, <3>3, <3>5 DEF Leaves
    <2>5. QED
      BY <2>3, <2>4
  <1>9. QED
    BY <1>6, <1>7, <1>8

\* A splice that is announced waits.
LEMMA AnnouncedWaits ==
    ASSUME IInv, SpliceTypes, NEW x \in Packets, Receive(x), NEW n \in Nat, Grown(x, n),
           NEW s \in Streams, NEW p \in Partitions, Announces(n + 1, s, p)', ~IsAdjusted(n + 1)'
    PROVE  Waits(n + 1, s, p)'
  <1>1. /\ ~IsPES(x) /\ s \in AddedTo(x) /\ HasBoundary(s, p)
        /\ Len(received') = n + 1 /\ received'[n + 1] = x /\ ~ToAdjust(x)
    BY DEF Grown, IsAdjusted, ToAdjust
  <1>2. AddedOrNot(x, s, p)
    BY <1>1, SectionStep
  <1>3. \E i \in 1 .. Len(listSCTE35'[s][p]) : SameSplice(listSCTE35'[s][p][i], x)
    BY <1>1, <1>2 DEF AddedOrNot, Adds
  <1>4. \A m \in n + 1 + 1 .. n + 1 : FALSE
    OBVIOUS
  <1>5. QED
    BY <1>1, <1>3, <1>4 DEF Waits

LEMMA WaitsOrMetStep ==
    ASSUME IInv, SpliceTypes, PostsOK, WaitsOrMet, NEW x \in Packets, Receive(x)
    PROVE  WaitsOrMet'
  <1>1. PICK n \in Nat : Grown(x, n)
    BY Grows
  <1>2. /\ n = Len(received) /\ Len(received') = n + 1 /\ received'[n + 1] = x
        /\ \A k \in 1 .. n : SameBefore(k)
        /\ \A k \in 1 .. n + 1 : k \in 1 .. n \/ k = n + 1
        /\ IsSection(n + 1)' <=> ~IsPES(x)
    BY <1>1 DEF Grown
  <1>3. ASSUME NEW k \in 1 .. n, NEW s \in Streams, NEW p \in Partitions,
               Announces(k, s, p)', ~AnnouncedAgain(k)', ~IsAdjusted(k)', streamPassFail'[s]
        PROVE  Waits(k, s, p)' \/ Met(k, s, p)'
    <2>1. /\ SameBefore(k) /\ received'[k] = received[k] /\ Announces(k, s, p)
          /\ ~IsAdjusted(k)
      BY <1>2, <1>3 DEF SameBefore, IsAdjusted
    <2>2. ~AnnouncedAgain(k)
      <3>1. SUFFICES ASSUME IsInsert(received[k]), NEW j \in k + 1 .. n,
                            IsSection(j), IsInsert(received[j]), received[j].id = received[k].id
                     PROVE  AnnouncedAgain(k)'
        BY <1>2, <1>3 DEF AnnouncedAgain
      <3>2. j \in 1 .. n /\ j \in k + 1 .. n + 1
        OBVIOUS
      <3>3. SameBefore(j)
        BY <1>2, <3>2
      <3>4. IsSection(j)' /\ received'[j] = received[j]
        BY <3>1, <3>3 DEF SameBefore
      <3>5. QED
        BY <1>2, <2>1, <3>1, <3>2, <3>4 DEF AnnouncedAgain
    <2>3. ~(~IsPES(x) /\ IsInsert(x) /\ IsInsert(received[k]) /\ received[k].id = x.id)
      <3>1. n + 1 \in k + 1 .. n + 1
        OBVIOUS
      <3>2. QED
        BY <1>2, <1>3, <2>1, <3>1 DEF AnnouncedAgain
    <2>4. streamPassFail[s] /\ (IsPES(x) /\ s = x.stream => NonePassed(s, x.PTS))
      <3>1. CASE ~IsPES(x)
        BY <1>3, <3>1, SectionStep
      <3>2. CASE IsPES(x)
        BY <1>3, <3>2, PacketStep
      <3>3. QED
        BY <3>1, <3>2
    <2>5. Waits(k, s, p) \/ Met(k, s, p)
      BY <1>2, <2>1, <2>2, <2>4 DEF WaitsOrMet
    <2>6. CASE Met(k, s, p)
      <3>1. PICK post \in Range(posts[s][p]) :
               /\ post.at > k /\ Near(received[k], s, post.PTS)
               /\ \A m \in k + 1 .. post.at : ~PassedAt(k, s, m)
        BY <2>6 DEF Met
      <3>2. post \in Range(posts'[s][p])
        BY PostsStay
      <3>3. post.at \in 1 .. n
        BY <1>2 DEF PostsOK
      <3>4. \A m \in k + 1 .. post.at : m \in 1 .. n
        BY <3>3
      <3>5. \A m \in k + 1 .. post.at : ~PassedAt(k, s, m)'
        BY <1>2, <2>1, <3>1, <3>4 DEF SameBefore
      <3>6. QED
        BY <2>1, <3>1, <3>2, <3>5 DEF Met
    <2>7. CASE Waits(k, s, p)
      <3>1. Waits(k, s, p)' \/ Leaves(k, x, s, p)
        BY <1>1, <2>7, WaitsStep
      <3>2. SUFFICES ASSUME Leaves(k, x, s, p) PROVE Met(k, s, p)'
        BY <3>1
      <3>3. IsPES(x) /\ s = x.stream
        BY <2>3, <3>2 DEF Leaves
      <3>4. ~Passed(received[k], s, x.PTS)
        <4>1. NonePassed(s, x.PTS)
          BY <2>4, <3>3
        <4>2. PICK i \in 1 .. Len(listSCTE35[s][p]) : SameSplice(listSCTE35[s][p][i], received[k])
          BY <2>7 DEF Waits
        <4>3. ~Passed(listSCTE35[s][p][i], s, x.PTS)
          BY <4>1 DEF NonePassed
        <4>4. QED
          BY <4>2, <4>3, SameSpliceFacts
      <3>5. Near(received[k], s, x.PTS) /\ p \in detectBoundary(s, x.PTS, x.ebp)
        BY <2>3, <3>2, <3>4 DEF Leaves
      <3>6. PICK post : post = [at |-> n + 1, PTS |-> x.PTS]
        OBVIOUS
      <3>7. post \in Range(posts'[s][p])
        BY <1>2, <3>3, <3>5, <3>6, PacketPosts DEF PostsAfter
      <3>8. \A m \in k + 1 .. n : m \in 1 .. n
        OBVIOUS
      <3>9. \A m \in k + 1 .. n : ~PassedAt(k, s, m)'
        BY <1>2, <2>1, <2>7, <3>8 DEF Waits, SameBefore
      <3>10. ~PassedAt(k, s, n + 1)'
        BY <1>1, <3>4 DEF Grown
      <3>11. \A m \in k + 1 .. n + 1 : m \in k + 1 .. n \/ m = n + 1
        OBVIOUS
      <3>12. post.at = n + 1 /\ post.PTS = x.PTS /\ n + 1 > k
        BY <3>6
      <3>13. \A m \in k + 1 .. post.at : ~PassedAt(k, s, m)'
        BY <3>9, <3>10, <3>11, <3>12
      <3>14. QED
        BY <2>1, <3>5, <3>7, <3>12, <3>13 DEF Met
    <2>8. QED
      BY <2>5, <2>6, <2>7
  <1>4. ASSUME NEW s \in Streams, NEW p \in Partitions, Announces(n + 1, s, p)',
               ~IsAdjusted(n + 1)'
        PROVE  Waits(n + 1, s, p)'
    BY <1>1, <1>4, AnnouncedWaits
  <1>5. QED
    BY <1>2, <1>3, <1>4 DEF WaitsOrMet

-----------------------------------------------------------------------------
\* Streams fail for a reason.

\* A splice has passed by packet m, and there were not enough boundaries near it.
MissedAt(k, s, p, m) ==
    /\ Announces(k, s, p) /\ PassedAt(k, s, m)
    /\ Cardinality(Answers(received[k], s, p, k, m)) < Cardinality(Rivals(k, s, p, m))

\* What was missed before stays missed.
LEMMA MissedStays ==
    ASSUME IInv, SpliceTypes, PostsOK, NEW x \in Packets, Receive(x), NEW n \in Nat, Grown(x, n),
           NEW s \in Streams, NEW p \in Partitions, NEW k \in 1 .. n, NEW m \in 1 .. n,
           MissedAt(k, s, p, m)
    PROVE  MissedAt(k, s, p, m)'
  <1>1. /\ n = Len(received) /\ \A j \in 1 .. n : SameBefore(j)
    BY DEF Grown
  <1>2. Announces(k, s, p)' /\ PassedAt(k, s, m)' /\ received'[k] = received[k]
    BY <1>1 DEF MissedAt, SameBefore
  <1>3. Answers(received[k], s, p, k, m)' = Answers(received[k], s, p, k, m)
    <2>1. \A post \in Range(posts'[s][p]) : post \in Range(posts[s][p]) \/ post.at = n + 1
      <3>1. CASE ~IsPES(x)
        BY <3>1, SectionStep
      <3>2. CASE IsPES(x)
        <4> DEFINE new == [at |-> Len(received) + 1, PTS |-> x.PTS]
        <4>1. new.at = n + 1
          BY <1>1
        <4> HIDE DEF new
        <4>2. \A post \in Range(posts'[s][p]) : post \in Range(posts[s][p]) \/ post = new
          BY <3>2, PacketPosts DEF PostsAfter, new
        <4>3. QED
          BY <4>1, <4>2
      <3>3. QED
        BY <3>1, <3>2
    <2>2. n + 1 \notin k + 1 .. m
      OBVIOUS
    <2>3. \A post \in Range(posts[s][p]) : post \in Range(posts'[s][p])
      BY PostsStay
    <2>4. QED
      BY <1>2, <2>1, <2>2, <2>3 DEF Answers
  <1>4. Rivals(k, s, p, m)' = Rivals(k, s, p, m)
    <2>1. \A j \in 1 .. m : j \in 1 .. n
      OBVIOUS
    <2>2. \A j \in 1 .. m : (Announces(j, s, p)' <=> Announces(j, s, p))
                            /\ received'[j] = received[j]
      BY <1>1, <2>1 DEF SameBefore
    <2>3. QED
      BY <1>2, <2>2 DEF Rivals
  <1>5. QED
    BY <1>2, <1>3, <1>4 DEF MissedAt

\* A splice that passes on a list had not enough boundaries: all that were near it took
\* splices of other announcements.
LEMMA PassesUnmet ==
    ASSUME IInv, SpliceTypes, PostsOK, AllJudged, NEW x \in Packets, Receive(x), IsPES(x),
           NEW n \in Nat, Grown(x, n), NEW s \in Streams, NEW p \in Partitions, s = x.stream,
           NEW i \in 1 .. Len(listSCTE35[s][p]), Passed(listSCTE35[s][p][i], s, x.PTS)
    PROVE  \E k \in 1 .. n : MissedAt(k, s, p, n + 1)'
  <1>1. PICK own, ans : Judged(own, ans, s, p)
    BY DEF AllJudged
  <1>2. PICK L : L = listSCTE35[s][p]
    OBVIOUS
  <1>3. /\ n = Len(received) /\ \A j \in 1 .. n : SameBefore(j)
        /\ Len(received') = n + 1 /\ received'[n + 1] = x
    BY DEF Grown
  <1>4. /\ own \in [1 .. Len(L) -> 1 .. n]
        /\ \A j \in 1 .. Len(L) : received[own[j]] = L[j] /\ Announces(own[j], s, p)
        /\ ans \in [1 .. n -> 0 .. n]
        /\ \A a, b \in 1 .. n : ans[a] # 0 /\ ans[a] = ans[b] => a = b
        /\ \A a \in 1 .. n, j \in 1 .. Len(L) : ans[a] # own[j]
        /\ \A a \in 1 .. n : ans[a] # 0 =>
              /\ Announces(ans[a], s, p) /\ IsPESOf(a, s)
              /\ Near(received[ans[a]], s, received[a].PTS)
        /\ \A j \in 1 .. Len(L), post \in Range(posts[s][p]) :
              post.at > own[j] /\ Near(L[j], s, post.PTS) => ans[post.at] # 0
    BY ONLY <1>1, <1>2, <1>3 DEF Judged
  <1>5. PICK k \in 1 .. n : k = own[i]
    BY <1>2, <1>4
  <1>6. /\ received[k] = L[i] /\ Announces(k, s, p) /\ Announces(k, s, p)'
        /\ received'[k] = received[k]
    BY <1>2, <1>3, <1>4, <1>5 DEF SameBefore
  <1>7. PassedAt(k, s, n + 1)'
    BY <1>2, <1>6 DEF Grown
  <1>8. L[i] \in Events /\ x.PTS \in Nat
    <2>1. L \in Seq(Events)
      BY <1>2 DEF SpliceTypes
    <2>2. QED
      BY <1>2, <2>1, ElementOfSeq, PacketsAssumption
  <1>9. ~Near(L[i], s, x.PTS)
    BY <1>2, <1>8, NearOrPassed
  <1>10. PICK A : A = Answers(received[k], s, p, k, n + 1)'
    OBVIOUS
  <1>11. PICK B : B = Rivals(k, s, p, n + 1)'
    OBVIOUS
  <1>12. \A post \in A : /\ post \in Range(posts[s][p]) /\ post \in Post
                         /\ post.at \in 1 .. n /\ post.at > k
                         /\ post.PTS = received[post.at].PTS
                         /\ Near(L[i], s, post.PTS)
    <2> TAKE post \in A
    <2>1. /\ post \in Range(posts'[s][p]) /\ post.at \in k + 1 .. n + 1
          /\ Near(L[i], s, post.PTS)
      BY <1>6, <1>10 DEF Answers
    <2>2. post \in Range(posts[s][p])
      <3> DEFINE new == [at |-> Len(received) + 1, PTS |-> x.PTS]
      <3>1. post \in Range(posts[s][p]) \/ post = new
        BY <2>1, PacketPosts DEF PostsAfter
      <3>2. new.PTS = x.PTS
        OBVIOUS
      <3> HIDE DEF new
      <3>3. QED
        BY <1>9, <2>1, <3>1, <3>2
    <2>3. post \in Post /\ post.at \in 1 .. n /\ post.PTS = received[post.at].PTS
      BY <1>3, <2>2 DEF PostsOK
    <2>4. post.at > k
      BY <2>1
    <2>5. QED
      BY <2>1, <2>2, <2>3, <2>4
  <1>13. \A j \in 1 .. n : Announces(j, s, p) =>
            /\ Announces(j, s, p)' /\ received'[j] = received[j]
            /\ j \in 1 .. n + 1 /\ received[j] \in Events
    <2> TAKE j \in 1 .. n
    <2>1. SameBefore(j) /\ j \in 1 .. n + 1
      BY <1>3
    <2>2. QED
      BY <2>1 DEF SameBefore, Announces, IsSection, Events
  <1>14. Delta \in Nat
    BY PacketsAssumption
  <1>15. k \in B
    <2>1. getSCTE35PTS(received[k], s) \in Nat
      BY <1>6, <1>8, PTSIsNat
    <2>2. getSCTE35PTS(received[k], s) - getSCTE35PTS(received[k], s) \in -2 * Delta .. 2 * Delta
      BY <1>14, <2>1
    <2>3. k \in 1 .. n + 1
      OBVIOUS
    <2>4. QED
      BY <1>6, <1>11, <2>2, <2>3 DEF Rivals
  <1>16. ASSUME NEW post \in A PROVE ans[post.at] \in B \ {k}
    <2>1. post.at > own[i] /\ Near(L[i], s, post.PTS) /\ post.at \in 1 .. n
          /\ post \in Range(posts[s][p]) /\ post.PTS = received[post.at].PTS
      BY <1>5, <1>12
    <2>2. ans[post.at] # 0
      BY <1>2, <1>4, <2>1
    <2>3. PICK j \in 1 .. n : j = ans[post.at]
      BY <1>4, <2>1, <2>2
    <2>4. Announces(j, s, p) /\ Near(received[j], s, post.PTS) /\ j # k
      BY <1>2, <1>4, <1>5, <2>1, <2>2, <2>3
    <2>5. /\ Announces(j, s, p)' /\ received'[j] = received[j]
          /\ j \in 1 .. n + 1 /\ received[j] \in Events
      BY <1>13, <2>4
    <2>6. getSCTE35PTS(received[j], s) - getSCTE35PTS(received[k], s) \in -2 * Delta .. 2 * Delta
      <3>1. PICK v \in Nat : v = getSCTE35PTS(received[j], s)
        BY <2>5, PTSIsNat
      <3>2. PICK w \in Nat : w = getSCTE35PTS(received[k], s)
        BY <1>6, <1>8, PTSIsNat
      <3>3. post.PTS \in v - Delta .. v + Delta /\ post.PTS \in w - Delta .. w + Delta
        BY <1>6, <2>1, <2>4, <3>1, <3>2 DEF Near
      <3>4. post.PTS \in Nat
        BY <1>12 DEF Post
      <3>5. v - w \in -2 * Delta .. 2 * Delta
        BY <1>14, <3>3, <3>4
      <3>6. QED
        BY <3>1, <3>2, <3>5
    <2>7. j \in B
      BY <1>6, <1>11, <2>5, <2>6 DEF Rivals
    <2>8. QED
      BY <2>3, <2>4, <2>7
  <1>17. IsFiniteSet(B) /\ Cardinality(B) \in Nat
    <2>1. B \in SUBSET (1 .. n + 1)
      BY <1>11 DEF Rivals
    <2>i. IsFiniteSet(1 .. n + 1)
      BY FS_Interval
    <2>2. IsFiniteSet(B)
      BY <2>1, <2>i, FS_Subset
    <2>3. QED
      BY <2>2, FS_CardinalityType
  <1>18. IsFiniteSet(B \ {k}) /\ Cardinality(B \ {k}) = Cardinality(B) - 1
    BY <1>15, <1>17, FS_RemoveElement
  <1>19. PICK f : f = [post \in A |-> ans[post.at]]
    OBVIOUS
  <1>20. f \in Injection(A, B \ {k})
    <2>1. f \in [A -> B \ {k}]
      BY <1>16, <1>19
    <2>2. ASSUME NEW q \in A, NEW r \in A, f[q] = f[r] PROVE q = r
      <3>1. /\ q \in Post /\ r \in Post /\ q.at \in 1 .. n /\ r.at \in 1 .. n
            /\ q.PTS = received[q.at].PTS /\ r.PTS = received[r.at].PTS
        BY <1>12
      <3>2. ans[q.at] = ans[r.at] /\ ans[q.at] # 0
        <4>1. ans[q.at] \in B
          BY <1>16
        <4>2. B \subseteq 1 .. n + 1
          BY <1>11 DEF Rivals
        <4>3. \A j \in 1 .. n + 1 : j # 0
          OBVIOUS
        <4>4. QED
          BY <1>19, <2>2, <4>1, <4>2, <4>3
      <3>3. q.at = r.at
        BY <1>4, <3>1, <3>2
      <3>4. q = [at |-> q.at, PTS |-> q.PTS] /\ r = [at |-> r.at, PTS |-> r.PTS]
        BY <3>1 DEF Post
      <3>5. QED
        BY <3>1, <3>3, <3>4
    <2>3. QED
      BY <2>1, <2>2 DEF Injection, IsInjective
  <1>21. IsFiniteSet(A) /\ Cardinality(A) <= Cardinality(B) - 1
    BY <1>18, <1>20, FS_Injection
  <1>22. Cardinality(A) \in Nat
    BY <1>21, FS_CardinalityType
  <1>23. Cardinality(A) < Cardinality(B)
    BY <1>17, <1>21, <1>22
  <1>24. MissedAt(k, s, p, n + 1)'
    BY <1>6, <1>7, <1>10, <1>11, <1>23 DEF MissedAt
  <1>25. QED
    BY <1>24

LEMMA ReasonStep ==
    ASSUME IInv, SpliceTypes, PostsOK, VideoOK, AllJudged, FailureHasAReason,
           NEW x \in Packets, Receive(x)
    PROVE  FailureHasAReason'
  <1>1. PICK n \in Nat : Grown(x, n)
    BY Grows
  <1>2. /\ n = Len(received) /\ \A j \in 1 .. n : SameBefore(j)
        /\ DOMAIN received = 1 .. n /\ DOMAIN received' = 1 .. n + 1
        /\ received'[n + 1] = x
        /\ \A s : IsPESOf(n + 1, s)' <=> IsPES(x) /\ x.stream = s
    BY <1>1 DEF Grown
  <1>u. \A k \in 1 .. n : k \in 1 .. n + 1
    OBVIOUS
  <1> SUFFICES ASSUME NEW s \in Streams, ~streamPassFail'[s]
               PROVE  Missed(s)' \/ BadGroups(s)' \/ LagsBehind(s)'
    BY DEF FailureHasAReason
  <1>3. ASSUME NEW k \in 1 .. n, NEW p \in Partitions, NEW m \in 1 .. n + 1, k < m,
               MissedAt(k, s, p, m)'
        PROVE  Missed(s)'
    BY <1>2, <1>3, <1>u DEF Missed, MissedAt
  <1>4. CASE ~streamPassFail[s]
    <2>1. Missed(s) \/ BadGroups(s) \/ LagsBehind(s)
      BY <1>4 DEF FailureHasAReason
    <2>2. CASE Missed(s)
      <3>1. PICK k \in 1 .. n, p \in Partitions, m \in 1 .. n : k < m /\ MissedAt(k, s, p, m)
        BY <1>2, <2>2 DEF Missed, MissedAt
      <3>2. MissedAt(k, s, p, m)'
        BY <1>1, <3>1, MissedStays
      <3>3. QED
        BY <1>3, <1>u, <3>1, <3>2
    <2>3. CASE BadGroups(s)
      <3>1. PICK k \in 1 .. n : IsPESOf(k, s) /\ ~received[k].valid
        BY <1>2, <2>3 DEF BadGroups
      <3>2. IsPESOf(k, s)' /\ ~received'[k].valid
        BY <1>2, <3>1 DEF SameBefore
      <3>3. QED
        BY <1>2, <1>u, <3>2 DEF BadGroups
    <2>4. CASE LagsBehind(s)
      <3>1. Video \in Streams
        BY PacketsAssumption
      <3>2. QED
        BY <2>4, <3>1, PostsStay DEF LagsBehind
    <2>5. QED
      BY <2>1, <2>2, <2>3, <2>4
  <1>5. CASE streamPassFail[s]
    <2>1. IsPES(x)
      BY <1>5, SectionStep
    <2>2. s = x.stream
      BY <1>5, <2>1, PacketStep
    <2> DEFINE boundaries == detectBoundary(s, x.PTS, x.ebp)
    <2>3. ~x.valid \/ Lags(s, x.PTS, boundaries) \/ ~NonePassed(s, x.PTS)
      BY <1>5, <2>1, <2>2, PacketStep
    <2>4. CASE ~x.valid
      <3>1. IsPESOf(n + 1, s)' /\ ~received'[n + 1].valid
        BY <1>2, <2>1, <2>2, <2>4
      <3>2. n + 1 \in 1 .. n + 1
        OBVIOUS
      <3>3. QED
        BY <1>2, <3>1, <3>2 DEF BadGroups
    <2>5. CASE Lags(s, x.PTS, boundaries)
      <3>1. s # Video /\ boundaries # {} /\ lastVideoChunkPTS # 0
            /\ x.PTS > lastVideoChunkPTS + Lag /\ Video \in Streams
        BY <2>5, PacketsAssumption DEF Lags
      <3>q. PICK q \in Partitions : \E v \in Range(posts[Video][q]) : v.PTS = lastVideoChunkPTS
        BY <3>1 DEF VideoOK
      <3>2. PICK v \in Range(posts[Video][q]) : v.PTS = lastVideoChunkPTS
        BY <3>q
      <3>3. v \in Range(posts'[Video][q]) /\ v.at \in 1 .. n
        BY <1>2, <3>1, PostsStay DEF PostsOK
      <3>4. PICK p \in Partitions : p \in boundaries
        BY <3>1 DEF detectBoundary, Triggered
      <3>5. PICK post : post = [at |-> n + 1, PTS |-> x.PTS]
        OBVIOUS
      <3>6. post \in Range(posts'[s][p])
        BY <1>2, <2>1, <2>2, <3>4, <3>5, PacketPosts DEF PostsAfter
      <3>7. v.at < post.at /\ post.PTS > v.PTS + Lag
        BY <3>1, <3>2, <3>3, <3>5
      <3>8. LagsBehind(s)'
        BY <3>1, <3>3, <3>6, <3>7 DEF LagsBehind
      <3>9. QED
        BY <3>8
    <2>6. CASE ~NonePassed(s, x.PTS)
      <3>p. PICK p \in Partitions : \E i \in 1 .. Len(listSCTE35[s][p]) :
               Passed(listSCTE35[s][p][i], s, x.PTS)
        BY <2>6 DEF NonePassed
      <3>1. PICK i \in 1 .. Len(listSCTE35[s][p]) : Passed(listSCTE35[s][p][i], s, x.PTS)
        BY <3>p
      <3>2. PICK k \in 1 .. n : MissedAt(k, s, p, n + 1)'
        BY <1>1, <2>1, <2>2, <3>1, PassesUnmet
      <3>3. n + 1 \in 1 .. n + 1 /\ k < n + 1
        OBVIOUS
      <3>4. QED
        BY <1>3, <3>2, <3>3
    <2>7. QED
      BY <2>3, <2>4, <2>5, <2>6
  <1>6. QED
    BY <1>4, <1>5

-----------------------------------------------------------------------------
\* The ids of events that are over.

\* Packet j announces a splice of stream s in the event, and packet n of the stream is near
\* it or has passed it.
OverAt(j, n, s, id) ==
    /\ j < n /\ IsEvent(j, id) /\ s \in AddedTo(received[j]) /\ IsPESOf(n, s)
    /\ received[n].PTS >= getSCTE35PTS(received[j], s) - Delta

\* An id that is kept is that of an event that was over.
KeptIsOver ==
    \A id \in EventIds : mapOldSCTE35SpliceInserts[id] # NULL =>
        \E j, n \in 1 .. Len(received), s \in Streams :
            /\ OverAt(j, n, s, id)
            /\ mapOldSCTE35SpliceInserts[id] = scte35_get_latest_PTS(received[j])

\* Since packet j, the last of its event, no PTS of the event is so old that its id is
\* forgotten.
Young(j, id) ==
    \A e \in 1 .. j : IsEvent(e, id) =>
        \A i \in j + 1 .. Len(received) :
            VideoPTSAt(i) <= scte35_get_latest_PTS(received[e]) + TimeToLive

LastOf(j, id) == IsEvent(j, id) /\ \A i \in j + 1 .. Len(received) : ~IsEvent(i, id)

\* The id of such an event is kept, or its splices are all on their lists and to come.
OverIsKept ==
    \A j \in 1 .. Len(received), id \in EventIds :
        LastOf(j, id) /\ Young(j, id) =>
            \/ mapOldSCTE35SpliceInserts[id] # NULL
            \/ \A s \in Streams, p \in Partitions : Announces(j, s, p) => Waits(j, s, p)

LEMMA KeptStep ==
    ASSUME IInv, SpliceTypes, AllJudged, KeptIsOver, NEW x \in Packets, Receive(x)
    PROVE  KeptIsOver'
  <1>1. PICK n \in Nat : Grown(x, n)
    BY Grows
  <1>2. /\ n = Len(received) /\ Len(received') = n + 1 /\ received'[n + 1] = x
        /\ \A j \in 1 .. n : SameBefore(j)
        /\ \A s : IsPESOf(n + 1, s)' <=> IsPES(x) /\ x.stream = s
    BY <1>1 DEF Grown
  <1>u. \A k \in 1 .. n : k \in 1 .. n + 1 /\ k < n + 1
    OBVIOUS
  <1> SUFFICES ASSUME NEW id \in EventIds, mapOldSCTE35SpliceInserts'[id] # NULL
               PROVE  \E j, m \in 1 .. n + 1, s \in Streams :
                         /\ OverAt(j, m, s, id)'
                         /\ mapOldSCTE35SpliceInserts'[id] = scte35_get_latest_PTS(received'[j])
    BY <1>2 DEF KeptIsOver
  <1>3. ASSUME mapOldSCTE35SpliceInserts'[id] = mapOldSCTE35SpliceInserts[id]
        PROVE  \E j, m \in 1 .. n + 1, s \in Streams :
                  /\ OverAt(j, m, s, id)'
                  /\ mapOldSCTE35SpliceInserts'[id] = scte35_get_latest_PTS(received'[j])
    <2>1. PICK j \in 1 .. n, m \in 1 .. n, s \in Streams :
             /\ OverAt(j, m, s, id)
             /\ mapOldSCTE35SpliceInserts[id] = scte35_get_latest_PTS(received[j])
      BY <1>2, <1>3 DEF KeptIsOver
    <2>2. SameBefore(j) /\ SameBefore(m)
      BY <1>2
    <2>3. OverAt(j, m, s, id)' /\ received'[j] = received[j]
      BY <2>1, <2>2 DEF OverAt, SameBefore
    <2>4. QED
      BY <1>3, <1>u, <2>1, <2>3
  <1>4. CASE ~IsPES(x)
    <2>1. mapOldSCTE35SpliceInserts' = pruneOldSCTE35Map
      BY <1>4, SectionStep
    <2>2. mapOldSCTE35SpliceInserts'[id] = mapOldSCTE35SpliceInserts[id]
      BY <2>1 DEF pruneOldSCTE35Map
    <2>3. QED
      BY <1>3, <2>2
  <1>5. CASE IsPES(x) /\ mapOldSCTE35SpliceInserts[id] # NULL
    <2>1. mapOldSCTE35SpliceInserts' = OldWith(Gone(x.stream)) /\ x.stream \in Streams
      BY <1>5, PacketStep
    <2>2. mapOldSCTE35SpliceInserts'[id] = mapOldSCTE35SpliceInserts[id]
      BY <1>5, <2>1, OldTypes
    <2>3. QED
      BY <1>3, <2>2
  <1>6. CASE IsPES(x) /\ mapOldSCTE35SpliceInserts[id] = NULL
    <2>1. PICK s \in Streams : s = x.stream
      BY <1>6, PacketStep
    <2>2. mapOldSCTE35SpliceInserts' = OldWith(Gone(s)) /\ x.PTS \in Nat
      BY <1>6, <2>1, PacketStep
    <2>3. PICK y \in Gone(s) : /\ IsInsert(y) /\ y.id = id
                               /\ mapOldSCTE35SpliceInserts'[id] = scte35_get_latest_PTS(y)
      <3> DEFINE events == {y \in Gone(s) : IsInsert(y) /\ y.id = id}
      <3>1. /\ events = {} => OldWith(Gone(s))[id] = NULL
            /\ events # {} => \E y \in events : OldWith(Gone(s))[id] = scte35_get_latest_PTS(y)
        BY <1>6, OldTypes
      <3>2. \E y \in events : OldWith(Gone(s))[id] = scte35_get_latest_PTS(y)
        BY <2>2, <3>1
      <3>3. QED
        BY <2>2, <3>2
    <2>4. PICK p \in Partitions : y \in Range(listSCTE35[s][p]) \ Range(listSCTE35'[s][p])
      BY DEF Gone
    <2>5. PICK L : L = listSCTE35[s][p]
      OBVIOUS
    <2>6. PICK R : R = listSCTE35'[s][p]
      OBVIOUS
    <2>7. /\ L \in Seq(Events) /\ DOMAIN L = 1 .. Len(L) /\ DOMAIN R = 1 .. Len(R)
      <3>1. L \in Seq(Events) /\ R \in Seq(Events)
        BY <1>6, <2>5, <2>6, PacketStep DEF SpliceTypes
      <3>2. QED
        BY <3>1, LenProperties
    <2>8. PICK i \in 1 .. Len(L) : y = L[i]
      BY <2>4, <2>5, <2>7 DEF Range
    <2>9. y \in Events
      BY <2>7, <2>8, ElementOfSeq
    <2>10. x.PTS >= getSCTE35PTS(y, s) - Delta
      <3> DEFINE posted == p \in detectBoundary(s, x.PTS, x.ebp)
      <3>1. \E h : Takes(h, R, L, s, x.PTS, posted)
        BY <1>6, <2>1, <2>5, <2>6, PacketStep
      <3>2. PICK h : Takes(h, R, L, s, x.PTS, posted)
        BY <3>1
      <3>3. i \notin Range(h)
        <4>1. ASSUME i \in Range(h) PROVE FALSE
          <5>1. PICK j \in 1 .. Len(R) : i = h[j] /\ R[j] = L[h[j]]
            BY <3>2, <4>1 DEF Takes, Embeds, Range
          <5>2. y \in Range(R)
            BY <2>7, <2>8, <5>1 DEF Range
          <5>3. QED
            BY <2>4, <2>6, <5>2
        <4>2. QED
          BY <4>1
      <3>4. Near(y, s, x.PTS) \/ Passed(y, s, x.PTS)
        BY <2>8, <3>2, <3>3 DEF Takes
      <3>5. QED
        BY <2>2, <2>9, <3>4, NearOrPassed
    <2>11. PICK j \in 1 .. n : received[j] = y /\ Announces(j, s, p)
      <3>1. PICK own, ans : Judged(own, ans, s, p)
        BY DEF AllJudged
      <3>2. own[i] \in 1 .. n /\ received[own[i]] = L[i] /\ Announces(own[i], s, p)
        BY <1>2, <2>5, <2>8, <3>1 DEF Judged
      <3>3. QED
        BY <2>8, <3>2
    <2>12. SameBefore(j)
      BY <1>2
    <2>13. IsEvent(j, id)' /\ received'[j] = y /\ s \in AddedTo(y)
      BY <2>3, <2>11, <2>12 DEF SameBefore, IsEvent, Announces
    <2>14. IsPESOf(n + 1, s)' /\ j < n + 1 /\ n + 1 \in 1 .. n + 1
      BY <1>2, <1>6, <2>1
    <2>15. OverAt(j, n + 1, s, id)'
      BY <1>2, <2>10, <2>13, <2>14 DEF OverAt
    <2>16. QED
      BY <1>u, <2>3, <2>13, <2>14, <2>15
  <1>7. QED
    BY <1>4, <1>5, <1>6

\* What is left of an event when its id is forgotten is too old.
LEMMA YoungIsKept ==
    ASSUME IInv, SpliceTypes, VideoOK, KeptIsOver, NEW x \in Packets, Receive(x), ~IsPES(x),
           NEW n \in Nat, Grown(x, n), NEW j \in 1 .. n, NEW id \in EventIds,
           LastOf(j, id), mapOldSCTE35SpliceInserts[id] # NULL,
           \A e \in 1 .. j : IsEvent(e, id) =>
               VideoPTSAt(n + 1) <= scte35_get_latest_PTS(received[e]) + TimeToLive
    PROVE  pruneOldSCTE35Map[id] # NULL
  <1>1. n = Len(received) /\ \A k \in 1 .. n : SameBefore(k)
    BY DEF Grown
  <1>2. PICK e \in 1 .. n : /\ IsEvent(e, id)
                            /\ mapOldSCTE35SpliceInserts[id] = scte35_get_latest_PTS(received[e])
    BY <1>1 DEF KeptIsOver, OverAt
  <1>3. e \in 1 .. j
    <2>1. e \in 1 .. j \/ e \in j + 1 .. n
      OBVIOUS
    <2>2. QED
      BY <1>1, <1>2, <2>1 DEF LastOf
  <1>4. currentVideoPTS = VideoPTSAt(n + 1)
    BY <1>1 DEF VideoOK
  <1>5. currentVideoPTS <= mapOldSCTE35SpliceInserts[id] + TimeToLive
    BY <1>2, <1>3, <1>4
  <1>6. mapOldSCTE35SpliceInserts[id] \in Nat /\ TimeToLive \in Nat
    BY PacketsAssumption DEF SpliceTypes
  <1>7. currentVideoPTS \in Nat
    <2> DEFINE before == {k \in 1 .. n : IsPESOf(k, Video)}
    <2>1. n + 1 - 1 = n
      OBVIOUS
    <2>2. VideoPTSAt(n + 1) = IF before = {} THEN 0 ELSE received[Max(before)].PTS
      BY <2>1 DEF VideoPTSAt
    <2>3. before \in SUBSET (1 .. n) /\ before \subseteq Nat
      OBVIOUS
    <2>4. IsFiniteSet(1 .. n)
      BY FS_Interval
    <2>5. \A k \in before : received[k].PTS \in Nat
      <3> TAKE k \in before
      <3>1. k \in 1 .. n /\ IsPES(received[k])
        BY DEF IsPESOf
      <3>2. received[k] \in Packets
        BY <1>1, <3>1 DEF SameBefore
      <3>3. QED
        BY <3>1, <3>2, PacketsAssumption
    <2> HIDE DEF before
    <2>6. IsFiniteSet(before)
      BY <2>3, <2>4, FS_Subset
    <2>7. before # {} => Max(before) \in before
      BY <2>3, <2>6, HasMax
    <2>8. QED
      BY <1>4, <2>2, <2>5, <2>7
  <1>8. ~(currentVideoPTS > mapOldSCTE35SpliceInserts[id] + TimeToLive)
    BY <1>5, <1>6, <1>7
  <1>9. QED
    BY <1>8 DEF pruneOldSCTE35Map

LEMMA OverStep ==
    ASSUME IInv, SpliceTypes, VideoOK, KeptIsOver, OverIsKept, NEW x \in Packets, Receive(x)
    PROVE  OverIsKept'
  <1>1. PICK n \in Nat : Grown(x, n)
    BY Grows
  <1>2. /\ n = Len(received) /\ Len(received') = n + 1 /\ received'[n + 1] = x
        /\ \A j \in 1 .. n : SameBefore(j)
        /\ \A k \in 1 .. n + 1 : (k \in 1 .. n \/ k = n + 1) /\ VideoPTSAt(k)' = VideoPTSAt(k)
        /\ \A id : IsEvent(n + 1, id)' <=> ~IsPES(x) /\ IsInsert(x) /\ x.id = id
    BY <1>1 DEF Grown
  <1>3. ASSUME NEW id, IsEvent(n + 1, id)', NEW s \in Streams, NEW p \in Partitions,
               Announces(n + 1, s, p)'
        PROVE  Waits(n + 1, s, p)'
    <2>1. ~IsAdjusted(n + 1)'
      BY <1>3 DEF IsAdjusted, IsEvent, IsSignal, IsInsert
    <2>2. QED
      BY <1>1, <1>3, <2>1, AnnouncedWaits
  <1>4. ASSUME NEW j \in 1 .. n, NEW id \in EventIds, LastOf(j, id)', Young(j, id)'
        PROVE  \/ mapOldSCTE35SpliceInserts'[id] # NULL
               \/ \A s \in Streams, p \in Partitions : Announces(j, s, p)' => Waits(j, s, p)'
    <2>1. SameBefore(j)
      BY <1>2
    <2>2. IsEvent(j, id) /\ ~(~IsPES(x) /\ IsInsert(x) /\ x.id = id)
      <3>1. n + 1 \in j + 1 .. n + 1
        OBVIOUS
      <3>2. IsEvent(j, id)' /\ ~IsEvent(n + 1, id)'
        BY <1>2, <1>4, <3>1 DEF LastOf
      <3>3. QED
        BY <1>2, <2>1, <3>2 DEF SameBefore
    <2>3. LastOf(j, id)
      <3>1. \A i \in j + 1 .. n : i \in j + 1 .. n + 1 /\ i \in 1 .. n
        OBVIOUS
      <3>2. \A i \in j + 1 .. n : ~IsEvent(i, id)'
        BY <1>2, <1>4, <3>1 DEF LastOf
      <3>3. \A i \in j + 1 .. n : ~IsEvent(i, id)
        BY <1>2, <3>1, <3>2 DEF SameBefore
      <3>4. QED
        BY <1>2, <2>2, <3>3 DEF LastOf
    <2>4. ASSUME NEW e \in 1 .. j, IsEvent(e, id), NEW i \in j + 1 .. n + 1
          PROVE  VideoPTSAt(i) <= scte35_get_latest_PTS(received[e]) + TimeToLive
      <3>1. e \in 1 .. n /\ i \in 1 .. n + 1
        OBVIOUS
      <3>2. SameBefore(e) /\ VideoPTSAt(i)' = VideoPTSAt(i)
        BY <1>2, <3>1
      <3>3. IsEvent(e, id)' /\ received'[e] = received[e]
        BY <2>4, <3>2 DEF SameBefore
      <3>4. VideoPTSAt(i)' <= scte35_get_latest_PTS(received'[e]) + TimeToLive
        BY <1>2, <1>4, <3>3 DEF Young
      <3>5. QED
        BY <3>2, <3>3, <3>4
    <2>5. Young(j, id)
      <3>1. \A i \in j + 1 .. n : i \in j + 1 .. n + 1
        OBVIOUS
      <3>2. QED
        BY <1>2, <2>4, <3>1 DEF Young
    <2>6. CASE mapOldSCTE35SpliceInserts[id] # NULL
      <3>1. CASE ~IsPES(x)
        <4>1. n + 1 \in j + 1 .. n + 1
          OBVIOUS
        <4>2. pruneOldSCTE35Map[id] # NULL
          BY <1>1, <2>3, <2>4, <2>6, <3>1, <4>1, YoungIsKept
        <4>3. mapOldSCTE35SpliceInserts' = pruneOldSCTE35Map
          BY <3>1, SectionStep
        <4>4. QED
          BY <4>2, <4>3
      <3>2. CASE IsPES(x)
        <4>1. mapOldSCTE35SpliceInserts' = OldWith(Gone(x.stream)) /\ x.stream \in Streams
          BY <3>2, PacketStep
        <4>2. mapOldSCTE35SpliceInserts'[id] = mapOldSCTE35SpliceInserts[id]
          BY <2>6, <4>1, OldTypes
        <4>3. QED
          BY <2>6, <4>2
      <3>3. QED
        BY <3>1, <3>2
    <2>7. CASE mapOldSCTE35SpliceInserts[id] = NULL
      <3>1. \A s \in Streams, p \in Partitions : Announces(j, s, p) => Waits(j, s, p)
        BY <1>2, <2>3, <2>5, <2>7 DEF OverIsKept
      <3> SUFFICES ASSUME NEW s \in Streams, NEW p \in Partitions, Announces(j, s, p)',
                          ~Waits(j, s, p)'
                   PROVE  mapOldSCTE35SpliceInserts'[id] # NULL
        OBVIOUS
      <3>2. Announces(j, s, p)
        BY <2>1 DEF SameBefore
      <3>3. Leaves(j, x, s, p)
        BY <1>1, <3>1, <3>2, WaitsStep
      <3>4. IsPES(x) /\ s = x.stream /\ received[j] \in Gone(s)
        BY <2>2, <3>3 DEF Leaves, IsEvent
      <3>5. mapOldSCTE35SpliceInserts' = OldWith(Gone(s))
        BY <3>4, PacketStep
      <3>6. received[j] \in {y \in Gone(s) : IsInsert(y) /\ y.id = id}
        BY <2>2, <3>4 DEF IsEvent
      <3>7. QED
        BY <2>7, <3>5, <3>6, OldTypes
    <2>8. QED
      BY <2>6, <2>7
  <1>5. QED
    BY <1>2, <1>3, <1>4 DEF OverIsKept, LastOf

-----------------------------------------------------------------------------
\* Failures are reported with the packets that they are of.

\* The packets that failures were reported with have been received.
ReportedOK == reused \subseteq 1 .. Len(received) /\ tooClose \subseteq 1 .. Len(received)

\* What the property says of packet k.
ReportedRight(k) ==
    /\ k \in reused => MayReuse(k)
    /\ Reuses(k) => k \in reused
    /\ ~ComponentSplice(k) => (k \in tooClose <=> ProgramSplice(k) /\ IsLate(k))

LEMMA IngestStep ==
    ASSUME IInv, SpliceTypes, VideoOK, KeptIsOver, OverIsKept, ReportedOK, FailuresAreReported,
           NEW x \in Packets, Receive(x)
    PROVE  ReportedOK' /\ FailuresAreReported'
  <1>1. PICK n \in Nat : Grown(x, n)
    BY Grows
  <1>2. /\ n = Len(received) /\ Len(received') = n + 1 /\ received'[n + 1] = x
        /\ DOMAIN received = 1 .. n /\ DOMAIN received' = 1 .. n + 1
        /\ \A j \in 1 .. n : SameBefore(j)
        /\ \A k \in 1 .. n + 1 : (k \in 1 .. n \/ k = n + 1) /\ VideoPTSAt(k)' = VideoPTSAt(k)
        /\ IsSection(n + 1)' <=> ~IsPES(x)
    BY <1>1 DEF Grown
  <1>u. \A k \in 1 .. n : k \in 1 .. n + 1
    OBVIOUS
  <1>v. n + 1 \in 1 .. n + 1
    OBVIOUS
  <1>3. currentVideoPTS = VideoPTSAt(n + 1) /\ VideoPTSAt(n + 1)' = VideoPTSAt(n + 1)
    BY <1>2, <1>v DEF VideoOK
  <1>4. ~IsPES(x) =>
           /\ x \in Events
           /\ reused' = reused \cup (IF IsInsert(x) /\ pruneOldSCTE35Map[x.id] # NULL
                                    THEN {n + 1} ELSE {})
           /\ tooClose' = tooClose \cup (IF IsInsert(x) /\ TooClose(x, currentVideoPTS)
                                        THEN {n + 1} ELSE {})
    BY <1>2, SectionStep DEF ReportedIf
  <1>5. IsPES(x) => reused' = reused /\ tooClose' = tooClose
    BY PacketStep
  <1>r. /\ n + 1 \notin reused /\ n + 1 \notin tooClose
        /\ reused \subseteq 1 .. n + 1 /\ tooClose \subseteq 1 .. n + 1
    <2>1. n + 1 \notin 1 .. n
      OBVIOUS
    <2>2. QED
      BY <1>2, <1>u, <2>1 DEF ReportedOK
  <1>o. \A k \in 1 .. n : (k \in reused' <=> k \in reused) /\ (k \in tooClose' <=> k \in tooClose)
    <2>1. \A k \in 1 .. n : k # n + 1
      OBVIOUS
    <2>2. QED
      BY <1>4, <1>5, <2>1
  <1>w. /\ n + 1 \in reused' <=>
              ~IsPES(x) /\ IsInsert(x) /\ pruneOldSCTE35Map[x.id] # NULL
        /\ n + 1 \in tooClose' <=>
              ~IsPES(x) /\ IsInsert(x) /\ TooClose(x, currentVideoPTS)
    BY <1>4, <1>5, <1>r
  \* What was said of the packets before.
  <1>6. \A k \in 1 .. n : /\ ComponentSplice(k)' <=> ComponentSplice(k)
                          /\ ProgramSplice(k)' <=> ProgramSplice(k)
                          /\ IsLate(k)' <=> IsLate(k)
    <2> TAKE k \in 1 .. n
    <2>1. SameBefore(k) /\ VideoPTSAt(k)' = VideoPTSAt(k)
      BY <1>2, <1>u
    <2>2. received'[k] = received[k] /\ (IsSection(k)' <=> IsSection(k))
      BY <2>1 DEF SameBefore
    <2>3. SplicePTSs(k)' = SplicePTSs(k)
      BY <2>2 DEF SplicePTSs
    <2>4. QED
      BY <2>1, <2>2, <2>3 DEF ComponentSplice, ProgramSplice, IsLate
  <1>7. \A j, k \in 1 .. n : SameEvent(j, k)' <=> SameEvent(j, k)
    <2> TAKE j, k \in 1 .. n
    <2>1. SameBefore(j) /\ SameBefore(k)
      BY <1>2
    <2>2. QED
      BY <2>1 DEF SameEvent, SameBefore
  <1>8. ASSUME NEW k \in 1 .. n, MayReuse(k) PROVE MayReuse(k)'
    <2>1. PICK j \in 1 .. n : SameEvent(j, k) /\
             \E m \in j + 1 .. k - 1, s \in AddedTo(received[j]) :
                /\ IsPESOf(m, s)
                /\ received[m].PTS >= getSCTE35PTS(received[j], s) - Delta
      BY <1>2, <1>8 DEF MayReuse
    <2>2. PICK m \in j + 1 .. k - 1, s \in AddedTo(received[j]) :
                /\ IsPESOf(m, s)
                /\ received[m].PTS >= getSCTE35PTS(received[j], s) - Delta
      BY <2>1
    <2>3. m \in 1 .. n
      OBVIOUS
    <2>4. SameBefore(j) /\ SameBefore(m)
      BY <1>2, <2>3
    <2>5. received'[j] = received[j] /\ received'[m] = received[m] /\ IsPESOf(m, s)'
      BY <2>2, <2>4 DEF SameBefore
    <2>6. SameEvent(j, k)'
      BY <1>7, <2>1
    <2>7. QED
      BY <1>2, <1>u, <2>2, <2>5, <2>6 DEF MayReuse
  <1>9. ASSUME NEW k \in 1 .. n, Reuses(k)' PROVE Reuses(k)
    <2>1. PICK j \in 1 .. n + 1 :
             /\ SameEvent(j, k)' /\ \A i \in j + 1 .. k - 1 : ~SameEvent(j, i)'
             /\ \E m \in j + 1 .. k - 1, s \in AddedTo(received'[j]) :
                   PassedAt(j, s, m)' /\ (\E p \in Partitions : HasBoundary(s, p))
             /\ \A e \in 1 .. j : SameEvent(e, k)' => \A i \in j + 1 .. k :
                   VideoPTSAt(i)' <= scte35_get_latest_PTS(received'[e]) + TimeToLive
      BY <1>2, <1>9 DEF Reuses, HasBoundary
    <2>2. j \in 1 .. n
      BY <1>2, <2>1 DEF SameEvent
    <2>3. SameBefore(j) /\ received'[j] = received[j] /\ SameEvent(j, k)
      BY <1>2, <1>7, <2>1, <2>2 DEF SameBefore
    <2>4. \A i \in j + 1 .. k - 1 : i \in 1 .. n
      BY <2>2
    <2>5. \A i \in j + 1 .. k - 1 : ~SameEvent(j, i)
      BY <1>7, <2>1, <2>2, <2>4
    <2>6. \E m \in j + 1 .. k - 1, s \in AddedTo(received[j]) :
             PassedAt(j, s, m) /\ \E p \in Partitions : HasBoundary(s, p)
      BY <1>2, <2>1, <2>3, <2>4 DEF SameBefore
    <2>7. ASSUME NEW e \in 1 .. j, SameEvent(e, k), NEW i \in j + 1 .. k
          PROVE  VideoPTSAt(i) <= scte35_get_latest_PTS(received[e]) + TimeToLive
      <3>1. e \in 1 .. n /\ i \in 1 .. n + 1
        BY <2>2
      <3>2. SameEvent(e, k)' /\ VideoPTSAt(i)' = VideoPTSAt(i) /\ SameBefore(e)
        BY <1>2, <1>7, <2>7, <3>1
      <3>3. received'[e] = received[e]
        BY <3>2 DEF SameBefore
      <3>4. VideoPTSAt(i)' <= scte35_get_latest_PTS(received'[e]) + TimeToLive
        BY <2>1, <3>2
      <3>5. QED
        BY <3>2, <3>3, <3>4
    <2>8. QED
      BY <1>2, <2>2, <2>3, <2>5, <2>6, <2>7 DEF Reuses
  \* What is new.
  <1>10. ~ComponentSplice(n + 1)' =>
            (n + 1 \in tooClose' <=> ProgramSplice(n + 1)' /\ IsLate(n + 1)')
    <2>1. CASE IsPES(x) \/ ~IsInsert(x)
      <3>1. ~ProgramSplice(n + 1)'
        BY <1>2, <2>1 DEF ProgramSplice
      <3>2. QED
        BY <1>w, <2>1, <3>1
    <2>2. CASE ~IsPES(x) /\ IsInsert(x) /\ ~x.program
      BY <1>2, <2>2 DEF ComponentSplice
    <2>3. CASE ~IsPES(x) /\ IsInsert(x) /\ x.program
      <3>1. ProgramSplice(n + 1)'
        BY <1>2, <2>3 DEF ProgramSplice
      <3>2. SplicePTSs(n + 1)' = {get_splice_insert_PTS(x)} \ {0}
        BY <1>2, <2>3 DEF SplicePTSs
      <3>3. IsLate(n + 1)' <=> /\ get_splice_insert_PTS(x) # 0
                               /\ get_splice_insert_PTS(x) < currentVideoPTS + Preroll
        BY <1>3, <3>2 DEF IsLate
      <3>4. AddedTo(x) # {} <=> get_splice_insert_PTS(x) # 0
        <4>1. Streams # {}
          BY PacketsAssumption
        <4>2. AddedTo(x) = IF get_splice_insert_PTS(x) = 0 THEN {} ELSE Streams
          BY <2>3 DEF AddedTo, IsSignal, IsInsert
        <4>3. QED
          BY <4>1, <4>2
      <3>5. TooClose(x, currentVideoPTS) <=> IsLate(n + 1)'
        BY <2>3, <3>3, <3>4 DEF TooClose
      <3>6. QED
        BY <1>w, <2>3, <3>1, <3>5
    <2>4. QED
      BY <2>1, <2>2, <2>3
  <1>11. ASSUME ~IsPES(x), IsInsert(x), pruneOldSCTE35Map[x.id] # NULL
         PROVE  MayReuse(n + 1)'
    <2>1. x.id \in EventIds
      BY <1>4, <1>11, SectionFacts DEF IsSplice
    <2>2. mapOldSCTE35SpliceInserts[x.id] # NULL
      BY <1>11, <2>1 DEF pruneOldSCTE35Map
    <2>3. PICK j \in 1 .. n, m \in 1 .. n, s \in Streams : OverAt(j, m, s, x.id)
      BY <1>2, <2>1, <2>2 DEF KeptIsOver
    <2>4. SameBefore(j) /\ SameBefore(m)
      BY <1>2
    <2>5. /\ received'[j] = received[j] /\ received'[m] = received[m]
          /\ IsSection(j)' /\ IsInsert(received[j]) /\ received[j].id = x.id
          /\ IsPESOf(m, s)' /\ s \in AddedTo(received[j])
          /\ received[m].PTS >= getSCTE35PTS(received[j], s) - Delta
      BY <2>3, <2>4 DEF OverAt, IsEvent, SameBefore
    <2>6. j < n + 1 /\ m \in j + 1 .. n + 1 - 1
      BY <2>3 DEF OverAt
    <2>7. SameEvent(j, n + 1)'
      BY <1>2, <1>11, <2>5, <2>6 DEF SameEvent
    <2>8. QED
      BY <1>2, <1>u, <2>5, <2>6, <2>7 DEF MayReuse
  <1>12. ASSUME Reuses(n + 1)' PROVE n + 1 \in reused'
    <2>1. PICK j \in 1 .. n + 1 :
             /\ SameEvent(j, n + 1)' /\ \A i \in j + 1 .. n + 1 - 1 : ~SameEvent(j, i)'
             /\ \E m \in j + 1 .. n + 1 - 1, s \in AddedTo(received'[j]) :
                   PassedAt(j, s, m)' /\ (\E p \in Partitions : HasBoundary(s, p))
             /\ \A e \in 1 .. j : SameEvent(e, n + 1)' => \A i \in j + 1 .. n + 1 :
                   VideoPTSAt(i)' <= scte35_get_latest_PTS(received'[e]) + TimeToLive
      BY <1>2, <1>12 DEF Reuses, HasBoundary
    <2>2. PICK id : id = x.id
      OBVIOUS
    <2>3. ~IsPES(x) /\ IsInsert(x) /\ j \in 1 .. n
      BY <1>2, <2>1 DEF SameEvent
    <2>4. x \in Events /\ id \in EventIds
      BY <1>4, <2>2, <2>3, SectionFacts DEF IsSplice
    <2>5. \A k \in 1 .. n : SameEvent(k, n + 1)' <=> IsEvent(k, id)
      <3> TAKE k \in 1 .. n
      <3>1. SameBefore(k) /\ k < n + 1
        BY <1>2
      <3>2. QED
        BY <1>2, <2>2, <2>3, <3>1 DEF SameEvent, IsEvent, SameBefore
    <2>6. SameBefore(j) /\ received'[j] = received[j] /\ IsEvent(j, id)
      BY <1>2, <2>1, <2>3, <2>5 DEF SameBefore
    <2>7. \A i \in j + 1 .. n : i \in 1 .. n /\ i \in j + 1 .. n + 1 - 1 /\ i \in j + 1 .. n + 1
                                /\ j < i
      BY <2>3
    <2>8. LastOf(j, id)
      <3>1. SUFFICES ASSUME NEW i \in j + 1 .. n, IsEvent(i, id) PROVE FALSE
        BY <1>2, <2>6 DEF LastOf
      <3>2. SameEvent(j, i)
        BY <2>6, <2>7, <3>1 DEF SameEvent, IsEvent
      <3>3. QED
        BY <1>7, <2>1, <2>3, <2>7, <3>2
    <2>9. ASSUME NEW e \in 1 .. j, IsEvent(e, id), NEW i \in j + 1 .. n + 1
          PROVE  VideoPTSAt(i) <= scte35_get_latest_PTS(received[e]) + TimeToLive
      <3>1. e \in 1 .. n /\ i \in 1 .. n + 1
        BY <2>3
      <3>2. SameEvent(e, n + 1)' /\ VideoPTSAt(i)' = VideoPTSAt(i) /\ SameBefore(e)
        BY <1>2, <2>5, <2>9, <3>1
      <3>3. received'[e] = received[e]
        BY <3>2 DEF SameBefore
      <3>4. VideoPTSAt(i)' <= scte35_get_latest_PTS(received'[e]) + TimeToLive
        BY <2>1, <3>2
      <3>5. QED
        BY <3>2, <3>3, <3>4
    <2>10. Young(j, id)
      BY <1>2, <2>7, <2>9 DEF Young
    <2>11. PICK m \in j + 1 .. n, s \in AddedTo(received[j]) :
              PassedAt(j, s, m) /\ \E p \in Partitions : HasBoundary(s, p)
      <3>1. n + 1 - 1 = n
        OBVIOUS
      <3>2. PICK m \in j + 1 .. n, s \in AddedTo(received[j]) :
               PassedAt(j, s, m)' /\ \E p \in Partitions : HasBoundary(s, p)
        BY <2>1, <2>6, <3>1
      <3>3. PassedAt(j, s, m)
        BY <1>2, <2>6, <2>7, <3>2 DEF SameBefore
      <3>4. QED
        BY <3>2, <3>3
    <2>12. PICK p \in Partitions : HasBoundary(s, p)
      BY <2>11
    <2>13. s \in Streams /\ Announces(j, s, p)
      <3>1. IsPESOf(m, s) /\ m \in 1 .. n
        BY <2>7, <2>11 DEF PassedAt
      <3>2. received[m] \in Packets
        BY <1>2, <3>1 DEF SameBefore
      <3>3. s \in Streams
        BY <3>1, <3>2, PacketsAssumption DEF IsPESOf
      <3>4. QED
        BY <2>6, <2>12, <3>3 DEF Announces, IsEvent
    <2>14. mapOldSCTE35SpliceInserts[id] # NULL
      <3>1. ~Waits(j, s, p)
        BY <1>2, <2>11 DEF Waits
      <3>2. QED
        BY <1>2, <2>3, <2>4, <2>8, <2>10, <2>13, <3>1 DEF OverIsKept
    <2>15. n + 1 \in j + 1 .. n + 1
      BY <2>3
    <2>16. pruneOldSCTE35Map[id] # NULL
      BY <1>1, <2>3, <2>4, <2>8, <2>9, <2>14, <2>15, YoungIsKept
    <2>17. QED
      BY <1>w, <2>2, <2>3, <2>16
  <1>13. ASSUME NEW k \in 1 .. n PROVE ReportedRight(k)'
    <2>1. ReportedRight(k)
      BY <1>2 DEF FailuresAreReported, ReportedRight
    <2>2. QED
      BY <1>6, <1>8, <1>9, <1>o, <2>1 DEF ReportedRight
  <1>14. ReportedRight(n + 1)'
    BY <1>10, <1>11, <1>12, <1>w DEF ReportedRight
  <1>15. FailuresAreReported'
    BY <1>2, <1>13, <1>14 DEF FailuresAreReported, ReportedRight
  <1>16. ReportedOK'
    <2>1. reused' \subseteq reused \cup {n + 1} /\ tooClose' \subseteq tooClose \cup {n + 1}
      BY <1>4, <1>5
    <2>2. QED
      BY <1>2, <1>r, <1>v, <2>1 DEF ReportedOK
  <1>17. QED
    BY <1>15, <1>16

-----------------------------------------------------------------------------
\* The inductive invariant.

SpliceInv ==
    /\ IInv
    /\ SpliceTypes
    /\ PostsOK
    /\ VideoOK
    /\ AllInOrder
    /\ AllJudged
    /\ WaitsOrMet
    /\ FailureHasAReason
    /\ KeptIsOver
    /\ OverIsKept
    /\ ReportedOK
    /\ FailuresAreReported

LEMMA SpliceInit == Init => SpliceInv
  <1> SUFFICES ASSUME Init PROVE SpliceInv
    OBVIOUS
  <1>1. IInv
    BY InitInv
  <1>2. /\ received = <<>> /\ Len(received) = 0 /\ DOMAIN received = {}
        /\ \A s \in Streams, p \in Partitions :
              /\ listSCTE35[s][p] = <<>> /\ Len(listSCTE35[s][p]) = 0
              /\ Range(posts[s][p]) = {}
    <2>1. Len(<<>>) = 0 /\ <<>> \in Seq(Nat) /\ DOMAIN <<>> = 1 .. 0
      BY EmptySeq, LenProperties
    <2>2. DOMAIN <<>> = {}
      BY <2>1
    <2>3. Range(<<>>) = {}
      BY <2>2 DEF Range
    <2>4. QED
      BY <2>1, <2>2, <2>3 DEF Init
  <1>3. \A k \in 1 .. 0 : FALSE
    OBVIOUS
  <1>4. SpliceTypes
    <2>1. <<>> \in Seq(Events)
      BY EmptySeq
    <2>2. QED
      BY <2>1 DEF Init, SpliceTypes
  <1>5. PostsOK
    BY <1>2 DEF PostsOK
  <1>6. VideoOK
    <2>1. VideoPTSAt(0 + 1) = 0
      <3>1. 0 + 1 - 1 = 0
        OBVIOUS
      <3>2. {j \in 1 .. 0 + 1 - 1 : IsPESOf(j, Video)} = {}
        BY <1>3, <3>1
      <3>3. QED
        BY <3>2 DEF VideoPTSAt
    <2>2. currentVideoPTS = 0 /\ lastVideoChunkPTS = 0
      BY DEF Init
    <2>3. QED
      BY <1>2, <2>1, <2>2 DEF VideoOK
  <1>7. AllInOrder
    BY <1>2, <1>3 DEF AllInOrder, InOrder
  <1>8. AllJudged
    <2> SUFFICES ASSUME NEW s \in Streams, NEW p \in Partitions
                 PROVE  \E own, ans : Judged(own, ans, s, p)
      BY DEF AllJudged
    <2>1. PICK f : f = [k \in 1 .. 0 |-> k]
      OBVIOUS
    <2>2. f \in [1 .. 0 -> 1 .. 0] /\ f \in [1 .. 0 -> 0 .. 0]
      BY <2>1
    <2>3. Judged(f, f, s, p)
      BY <1>2, <1>3, <2>2 DEF Judged
    <2>4. QED
      BY <2>3
  <1>9. WaitsOrMet
    BY <1>2, <1>3 DEF WaitsOrMet
  <1>10. FailureHasAReason
    BY DEF Init, FailureHasAReason
  <1>11. KeptIsOver
    BY DEF Init, KeptIsOver
  <1>12. OverIsKept
    BY <1>2, <1>3 DEF OverIsKept
  <1>13. ReportedOK /\ FailuresAreReported
    BY <1>2 DEF Init, ReportedOK, FailuresAreReported
  <1>14. QED
    BY <1>1, <1>4, <1>5, <1>6, <1>7, <1>8, <1>9, <1>10, <1>11, <1>12, <1>13 DEF SpliceInv

\* A step that changes nothing.
LEMMA SpliceStays ==
    ASSUME SpliceInv, UNCHANGED vars
    PROVE  SpliceInv'
  <1>1. /\ received' = received /\ listSCTE35' = listSCTE35 /\ posts' = posts
        /\ mapOldSCTE35SpliceInserts' = mapOldSCTE35SpliceInserts
        /\ streamPassFail' = streamPassFail /\ reused' = reused /\ tooClose' = tooClose
        /\ currentVideoPTS' = currentVideoPTS /\ lastVideoChunkPTS' = lastVideoChunkPTS
    BY DEF vars, reported
  <1>2. IInv'
    BY NextInv DEF SpliceInv
  <1>3. SpliceTypes' /\ PostsOK'
    BY <1>1 DEF SpliceInv, SpliceTypes, PostsOK, IsPESOf
  <1>a. \A k : IsAdjusted(k)' <=> IsAdjusted(k)
    BY <1>1 DEF IsAdjusted, IsSection
  <1>o. AllInOrder'
    BY <1>1, <1>a DEF SpliceInv, AllInOrder, NoneAdjusted, InOrder
  <1>4. VideoOK'
    BY <1>1 DEF SpliceInv, VideoOK, VideoPTSAt, IsPESOf
  <1>5. \A k, s, p : Announces(k, s, p)' <=> Announces(k, s, p)
    BY <1>1 DEF Announces, IsSection, HasBoundary
  <1>6. \A k, s, m : PassedAt(k, s, m)' <=> PassedAt(k, s, m)
    BY <1>1 DEF PassedAt, IsPESOf
  <1>7. \A own, ans, s, p : Judged(own, ans, s, p)' <=> Judged(own, ans, s, p)
    BY <1>1, <1>5 DEF Judged, IsPESOf
  <1>8. AllJudged'
    BY <1>7 DEF SpliceInv, AllJudged
  <1>9. \A k, s, p : Waits(k, s, p)' <=> Waits(k, s, p)
    BY <1>1, <1>6 DEF Waits
  <1>10. WaitsOrMet'
    <2>1. \A k, s, p : Met(k, s, p)' <=> Met(k, s, p)
      BY <1>1, <1>6 DEF Met
    <2>2. \A k : AnnouncedAgain(k)' <=> AnnouncedAgain(k)
      BY <1>1 DEF AnnouncedAgain, IsSection
    <2>3. QED
      BY <1>1, <1>5, <1>9, <1>a, <2>1, <2>2 DEF SpliceInv, WaitsOrMet
  <1>11. FailureHasAReason'
    <2>1. \A x, s, p, k, m : Answers(x, s, p, k, m)' = Answers(x, s, p, k, m)
      BY <1>1 DEF Answers
    <2>2. \A k, s, p, m : Rivals(k, s, p, m)' = Rivals(k, s, p, m)
      BY <1>1, <1>5 DEF Rivals
    <2>3. \A s : Missed(s)' <=> Missed(s)
      BY <1>1, <1>5, <1>6, <2>1, <2>2 DEF Missed
    <2>4. \A s : (BadGroups(s)' <=> BadGroups(s)) /\ (LagsBehind(s)' <=> LagsBehind(s))
      BY <1>1 DEF BadGroups, LagsBehind, IsPESOf
    <2>5. QED
      BY <1>1, <2>3, <2>4 DEF SpliceInv, FailureHasAReason
  <1>12. \A k, id : IsEvent(k, id)' <=> IsEvent(k, id)
    BY <1>1 DEF IsEvent, IsSection
  <1>13. \A k : VideoPTSAt(k)' = VideoPTSAt(k)
    BY <1>1 DEF VideoPTSAt, IsPESOf
  <1>14. KeptIsOver'
    BY <1>1, <1>12 DEF SpliceInv, KeptIsOver, OverAt, IsPESOf
  <1>15. OverIsKept'
    BY <1>1, <1>5, <1>9, <1>12, <1>13 DEF SpliceInv, OverIsKept, LastOf, Young
  <1>16. ReportedOK' /\ FailuresAreReported'
    <2>1. \A j, k : SameEvent(j, k)' <=> SameEvent(j, k)
      BY <1>1 DEF SameEvent, IsSection
    <2>2. \A k : MayReuse(k)' <=> MayReuse(k)
      BY <1>1, <2>1 DEF MayReuse, IsPESOf
    <2>3. \A k : Reuses(k)' <=> Reuses(k)
      BY <1>1, <1>6, <1>13, <2>1 DEF Reuses, HasBoundary
    <2>4. \A k : /\ ComponentSplice(k)' <=> ComponentSplice(k)
                 /\ ProgramSplice(k)' <=> ProgramSplice(k)
                 /\ SplicePTSs(k)' = SplicePTSs(k)
      BY <1>1 DEF ComponentSplice, ProgramSplice, IsSection, SplicePTSs
    <2>5. \A k : IsLate(k)' <=> IsLate(k)
      BY <1>13, <2>4 DEF IsLate
    <2>6. ReportedOK'
      BY <1>1 DEF SpliceInv, ReportedOK
    <2>7. QED
      BY <1>1, <2>2, <2>3, <2>4, <2>5, <2>6 DEF SpliceInv, FailuresAreReported
  <1>17. QED
    BY <1>2, <1>3, <1>4, <1>8, <1>10, <1>11, <1>14, <1>15, <1>16, <1>o DEF SpliceInv

LEMMA SpliceNext == SpliceInv /\ [Next]_vars => SpliceInv'
  <1>1. ASSUME SpliceInv, NEW x \in Packets, Receive(x) PROVE SpliceInv'
    <2>1. /\ IInv /\ SpliceTypes /\ PostsOK /\ VideoOK /\ AllInOrder /\ AllJudged /\ WaitsOrMet
          /\ FailureHasAReason /\ KeptIsOver /\ OverIsKept /\ ReportedOK /\ FailuresAreReported
      BY <1>1 DEF SpliceInv
    <2>2. IInv'
      BY <1>1, <2>1, NextInv DEF Next
    <2>3. SpliceTypes'
      <3>1. CASE ~IsPES(x)
        BY <1>1, <2>1, <3>1, SectionStep
      <3>2. CASE IsPES(x)
        <4>1. /\ listSCTE35' \in [Streams -> [Partitions -> Seq(Events)]]
              /\ streamPassFail' \in [Streams -> BOOLEAN]
              /\ mapOldSCTE35SpliceInserts' = OldWith(Gone(x.stream)) /\ x.stream \in Streams
          BY <1>1, <2>1, <3>2, PacketStep
        <4>2. mapOldSCTE35SpliceInserts' \in [EventIds -> Nat \cup {NULL}]
          BY <2>1, <4>1, OldTypes
        <4>3. QED
          BY <4>1, <4>2 DEF SpliceTypes
      <3>3. QED
        BY <3>1, <3>2
    <2>4. PostsOK' /\ VideoOK'
      BY <1>1, <2>1, PostsStep, VideoStep
    <2>5. AllInOrder' /\ WaitsOrMet'
      BY <1>1, <2>1, OrderStep, WaitsOrMetStep
    <2>6. AllJudged'
      <3> SUFFICES ASSUME NEW s \in Streams, NEW p \in Partitions
                   PROVE  \E o, a : Judged(o, a, s, p)'
        BY DEF AllJudged
      <3>1. PICK own, ans : Judged(own, ans, s, p)
        BY <2>1 DEF AllJudged
      <3>2. QED
        BY <1>1, <2>1, <3>1, JudgedStep
    <2>7. FailureHasAReason'
      BY <1>1, <2>1, ReasonStep
    <2>8. KeptIsOver' /\ OverIsKept'
      BY <1>1, <2>1, KeptStep, OverStep
    <2>9. ReportedOK' /\ FailuresAreReported'
      BY <1>1, <2>1, IngestStep
    <2>10. QED
      BY <2>2, <2>3, <2>4, <2>5, <2>6, <2>7, <2>8, <2>9 DEF SpliceInv
  <1>2. QED
    BY <1>1, SpliceStays DEF Next

THEOREM SpliceInvariance == Spec => []SpliceInv
  BY SpliceInit, SpliceNext, PTL DEF Spec

\* A stream fails for each splice that was announced and passes with no boundary near it,
\* those announced by a time signal with an adjustment aside, and only for splices that had
\* fewer boundaries near them than there were announcements for these, for groups that are
\* wrong or for audio that lags; each event is on a list once, and time signals are in order
\* until one with an adjustment comes (EBPIngestThreadCommon.c:1240-1480).
THEOREM SplicesJudged == Spec => []SplicesAreJudged
  <1>1. SpliceInv => ListsInOrder
    <2> SUFFICES ASSUME SpliceInv, NEW s \in Streams, NEW p \in Partitions
                 PROVE  LET list == listSCTE35[s][p]
                        IN  \A i, j \in DOMAIN list : i < j =>
                              /\ IsInsert(list[i]) /\ IsInsert(list[j]) => list[i].id # list[j].id
                              /\ IsSignal(list[i]) /\ IsSignal(list[j])
                                    /\ (\A k \in DOMAIN received : ~IsAdjusted(k))
                                    => list[i].time < list[j].time
      BY DEF ListsInOrder
    <2>1. listSCTE35[s][p] \in Seq(Events) /\ InOrder(listSCTE35[s][p], NoneAdjusted)
      BY DEF SpliceInv, SpliceTypes, AllInOrder
    <2>2. /\ DOMAIN listSCTE35[s][p] = 1 .. Len(listSCTE35[s][p])
          /\ DOMAIN received = 1 .. Len(received)
      BY <2>1, LenProperties DEF SpliceInv, IInv
    <2>3. (\A k \in DOMAIN received : ~IsAdjusted(k)) <=> NoneAdjusted
      BY <2>2 DEF NoneAdjusted
    <2>4. QED
      BY <2>1, <2>2, <2>3 DEF InOrder
  <1>2. SpliceInv => MissIsNoticed
    <2> SUFFICES ASSUME SpliceInv, NEW k \in DOMAIN received, NEW s \in Streams,
                        NEW p \in Partitions, Announces(k, s, p), ~AnnouncedAgain(k), ~IsAdjusted(k),
                        NEW m \in k + 1 .. Len(received), PassedAt(k, s, m),
                        Answers(received[k], s, p, k, m) = {}, streamPassFail[s]
                 PROVE  FALSE
      BY DEF MissIsNoticed
    <2>1. k \in 1 .. Len(received) /\ Len(received) \in Nat
      BY LenProperties DEF SpliceInv, IInv
    <2>2. ~Waits(k, s, p)
      BY DEF Waits
    <2>3. Met(k, s, p)
      BY <2>1, <2>2 DEF SpliceInv, WaitsOrMet
    <2>4. PICK post \in Range(posts[s][p]) :
             /\ post.at > k /\ Near(received[k], s, post.PTS)
             /\ \A i \in k + 1 .. post.at : ~PassedAt(k, s, i)
      BY <2>3 DEF Met
    <2>5. post.at \in 1 .. Len(received)
      BY DEF SpliceInv, PostsOK
    <2>6. m \notin k + 1 .. post.at
      BY <2>4
    <2>7. post.at \in k + 1 .. m
      BY <2>1, <2>4, <2>5, <2>6
    <2>8. post \in Answers(received[k], s, p, k, m)
      BY <2>4, <2>7 DEF Answers
    <2>9. QED
      BY <2>8
  <1>3. SpliceInv => SplicesAreJudged
    BY <1>1, <1>2 DEF SpliceInv, SplicesAreJudged
  <1>4. QED
    BY <1>3, SpliceInvariance, PTL

\* A failure is reported with each packet that takes the id of an event again too early and,
\* but for those, only with packets whose event has met a boundary or passed; and, splices of
\* single components aside, as too close with just the packets that announce a splice later
\* than the preroll (EBPIngestThreadCommon.c:70, 96-144, 1387).
THEOREM FailuresReported == Spec => []FailuresAreReported
  BY SpliceInvariance, PTL DEF SpliceInv

=============================================================================
