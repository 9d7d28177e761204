-------------------------- MODULE QueueSetupProofs --------------------------
(***************************************************************************)
(* Proofs about QueueSetup, for any number of sources and any programs:    *)
(* the queues of one analysis thread carry one stream, every stream has    *)
(* one queue, and is tested for its own boundaries.                        *)
(***************************************************************************)
EXTENDS QueueSetup, FiniteSetTheorems, WellFoundedInduction, TLAPS

-----------------------------------------------------------------------------
(* Numbers and sets.                                                        *)

\* A set of numbers that is not empty has a least element.
LEMMA HasMin == ASSUME NEW T, T \subseteq Nat, T # {}
                PROVE  \E x \in T : \A y \in T : x <= y
  <1> DEFINE R == OpToRel(<, Nat)
  <1>1. IsWellFoundedOn(R, Nat)
    BY NatLessThanWellFounded, Zenon
  <1>2. R = {ss \in Nat \X Nat : ss[1] < ss[2]}
    BY Zenon DEF OpToRel
  <1> HIDE DEF R
  <1>3. \A x, y \in Nat : <<y, x>> \in R <=> y < x
    BY <1>2
  <1>4. PICK x \in T : \A y \in T : ~(<<y, x>> \in R)
    BY <1>1, WFMin, Zenon
  <1>5. ASSUME NEW y \in T PROVE x <= y
    <2>1. ~(y < x) /\ x \in Nat /\ y \in Nat
      BY <1>3, <1>4
    <2>2. QED
      BY <2>1
  <1>6. QED
    BY <1>5

LEMMA MinIsLeast == ASSUME NEW T, T \subseteq Nat, T # {}
                    PROVE  Min(T) \in T /\ \A y \in T : Min(T) <= y
  <1>1. \E x \in T : \A y \in T : x <= y
    BY HasMin
  <1>2. QED
    BY <1>1 DEF Min

LEMMA MinOfOne == ASSUME NEW n \in Nat
                  PROVE  Min({n}) = n
  <1>1. {n} \subseteq Nat /\ {n} # {}
    OBVIOUS
  <1>2. Min({n}) \in {n}
    BY <1>1, MinIsLeast
  <1>3. QED
    BY <1>2

\* The image of a finite set under a function is finite.
LEMMA ImageFinite == ASSUME NEW S, IsFiniteSet(S), NEW g, DOMAIN g = S
                     PROVE  IsFiniteSet({g[x] : x \in S})
  <1> DEFINE T == {g[x] : x \in S}
             h == [x \in S |-> g[x]]
  <1>1. h \in Surjection(S, T)
    BY DEF Surjection
  <1>2. QED
    BY <1>1, FS_Surjection

-----------------------------------------------------------------------------
(* The sources.                                                             *)

Infos == [Ingests -> Programs]

LEMMA ProgramFacts ==
    ASSUME NEW info \in Programs
    PROVE  /\ Len(info) \in Nat /\ DOMAIN info = 1 .. Len(info)
           /\ DOMAIN info \subseteq Nat
           /\ \A i \in DOMAIN info : info[i].PID \in Int /\ info[i].type \in {"video", "audio"}
           /\ \A i, j \in DOMAIN info : info[i].PID = info[j].PID => i = j
  <1>1. IsProgram(info)
    BY SetupAssumption
  <1>2. QED
    BY <1>1 DEF IsProgram

LEMMA IngestsFinite == IsFiniteSet(Ingests) /\ Ingests \subseteq Nat /\ 1 \in Ingests
  <1>1. NumIngests \in Nat \ {0}
    BY SetupAssumption
  <1>2. IsFiniteSet(1 .. NumIngests)
    BY <1>1, FS_Interval
  <1>3. QED
    BY <1>1, <1>2 DEF Ingests

LEMMA NoSource == NULL \notin Ingests
  <1>1. SUFFICES ASSUME NULL \in Ingests PROVE FALSE
    OBVIOUS
  <1>2. NumIngests \in Nat /\ NULL \notin Int
    BY SetupAssumption
  <1>3. NULL \in 1 .. NumIngests
    BY <1>1 DEF Ingests
  <1>4. QED
    BY <1>2, <1>3

\* IDs tell the audio streams of a source apart.
LEMMA IDsTellApart ==
    ASSUME NEW infos \in Infos, NEW f \in Ingests,
           NEW i \in Audios(infos[f]), NEW j \in Audios(infos[f]),
           IDOf(infos, infos[f][i]) = IDOf(infos, infos[f][j])
    PROVE  i = j
  <1>1. infos[f] \in Programs
    BY DEF Infos
  <1>2. i \in DOMAIN infos[f] /\ j \in DOMAIN infos[f]
    BY DEF Audios
  <1>3. CASE useLanguageAsID(infos)
    <2>1. infos[f][i].language = infos[f][j].language
      BY <1>3 DEF IDOf
    <2>2. QED
      BY <1>3, <2>1 DEF useLanguageAsID
  <1>4. CASE ~useLanguageAsID(infos)
    <2>1. infos[f][i].PID = infos[f][j].PID
      BY <1>4 DEF IDOf
    <2>2. QED
      BY <1>1, <1>2, <2>1, ProgramFacts
  <1>5. QED
    BY <1>3, <1>4

-----------------------------------------------------------------------------
(* The array of IDs.                                                        *)

Places(infos) == AudioPlaces(infos, Ingests)
Adders(infos) == Adding(infos, Ingests)

LEMMA PlaceIs ==
    ASSUME NEW infos \in Infos, NEW x
    PROVE  x \in Places(infos) <=> \E f \in Ingests : \E i \in Audios(infos[f]) : x = <<f, i>>
  BY DEF Places, AudioPlaces

LEMMA PlaceType ==
    ASSUME NEW infos \in Infos, NEW x \in Places(infos)
    PROVE  /\ x = <<x[1], x[2]>> /\ x[1] \in Ingests /\ x[2] \in Audios(infos[x[1]])
           /\ x[1] \in Nat /\ x[2] \in Nat
  <1>1. PICK f \in Ingests : \E i \in Audios(infos[f]) : x = <<f, i>>
    BY PlaceIs
  <1>2. PICK i \in Audios(infos[f]) : x = <<f, i>>
    BY <1>1
  <1>3. infos[f] \in Programs
    BY DEF Infos
  <1>4. i \in Nat
    BY <1>3, ProgramFacts DEF Audios
  <1>5. f \in Nat
    BY IngestsFinite
  <1>6. QED
    BY <1>2, <1>4, <1>5

LEMMA PlacesFinite ==
    ASSUME NEW infos \in Infos
    PROVE  IsFiniteSet(Places(infos))
  <1> DEFINE Of(f) == {<<f, i>> : i \in Audios(infos[f])}
             g == [f \in Ingests |-> Of(f)]
             S == {g[f] : f \in Ingests}
  <1>1. ASSUME NEW f \in Ingests PROVE IsFiniteSet(Of(f))
    <2> DEFINE A == Audios(infos[f])
               h == [i \in A |-> <<f, i>>]
    <2>1. infos[f] \in Programs
      BY DEF Infos
    <2>2. DOMAIN infos[f] = 1 .. Len(infos[f]) /\ Len(infos[f]) \in Nat
      BY <2>1, ProgramFacts
    <2>3. IsFiniteSet(1 .. Len(infos[f]))
      BY <2>2, FS_Interval
    <2>4. A \in SUBSET (1 .. Len(infos[f]))
      BY <2>2 DEF Audios
    <2>5. IsFiniteSet(A)
      BY <2>3, <2>4, FS_Subset
    <2> HIDE DEF A
    <2>6. IsFiniteSet({h[i] : i \in A})
      BY <2>5, ImageFinite
    <2>7. {h[i] : i \in A} = Of(f)
      BY DEF A
    <2>8. QED
      BY <2>6, <2>7
  <1>2. IsFiniteSet(S)
    <2> HIDE DEF Of
    <2>1. DOMAIN g = Ingests
      OBVIOUS
    <2> HIDE DEF g
    <2>2. QED
      BY <2>1, IngestsFinite, ImageFinite
  <1>3. \A T \in S : IsFiniteSet(T)
    BY <1>1
  <1>4. IsFiniteSet(UNION S)
    <2> HIDE DEF S
    <2>1. QED
      BY <1>2, <1>3, FS_UNION
  <1>5. UNION S = Places(infos)
    <2>1. S = {Of(f) : f \in Ingests}
      OBVIOUS
    <2>2. QED
      BY <2>1 DEF Places, AudioPlaces
  <1>6. QED
    BY <1>4, <1>5

\* The places are in an order.
LEMMA PlacesInOrder ==
    ASSUME NEW infos \in Infos,
           NEW x \in Places(infos), NEW y \in Places(infos)
    PROVE  /\ NotAfter(x, x) /\ (NotAfter(x, y) \/ NotAfter(y, x))
           /\ NotAfter(x, y) /\ NotAfter(y, x) => x = y
           /\ \A z \in Places(infos) : NotAfter(x, y) /\ NotAfter(y, z) => NotAfter(x, z)
  <1>1. \A z \in Places(infos) : z = <<z[1], z[2]>> /\ z[1] \in Nat /\ z[2] \in Nat
    BY PlaceType
  <1>2. NotAfter(x, x) /\ (NotAfter(x, y) \/ NotAfter(y, x))
    BY <1>1 DEF NotAfter
  <1>3. ASSUME NotAfter(x, y), NotAfter(y, x) PROVE x = y
    <2>1. x[1] = y[1] /\ x[2] = y[2]
      BY <1>1, <1>3 DEF NotAfter
    <2>2. QED
      BY <1>1, <2>1
  <1>4. ASSUME NEW z \in Places(infos), NotAfter(x, y), NotAfter(y, z) PROVE NotAfter(x, z)
    BY <1>1, <1>4 DEF NotAfter
  <1>5. QED
    BY <1>2, <1>3, <1>4

\* Every ID of an audio stream is added by some stream.
LEMMA EveryIDIsAdded ==
    ASSUME NEW infos \in Infos, NEW x \in Places(infos)
    PROVE  \E a \in Adders(infos) : IDAt(infos, a) = IDAt(infos, x)
  <1> DEFINE Same == {y \in Places(infos) : IDAt(infos, y) = IDAt(infos, x)}
             Files == {y[1] : y \in Same}
  <1>1. Same # {} /\ Same \subseteq Places(infos)
    OBVIOUS
  <1>2. Files # {} /\ Files \subseteq Nat
    BY <1>1, PlaceType
  <1>3. PICK f \in Files : \A g \in Files : f <= g
    BY <1>2, HasMin
  <1> DEFINE Here == {y[2] : y \in {z \in Same : z[1] = f}}
  <1>4. Here # {} /\ Here \subseteq Nat
    BY <1>1, PlaceType
  <1>5. PICK i \in Here : \A j \in Here : i <= j
    BY <1>4, HasMin
  <1>6. PICK a \in Same : a[1] = f /\ a[2] = i
    OBVIOUS
  <1>7. ASSUME NEW y \in Places(infos), IDAt(infos, y) = IDAt(infos, a)
        PROVE  NotAfter(a, y)
    <2>1. y \in Same /\ y[1] \in Files
      BY <1>6, <1>7
    <2>2. f <= y[1] /\ f \in Nat /\ y[1] \in Nat
      BY <1>2, <1>3, <2>1
    <2>3. y[1] = f => y[2] \in Here
      BY <2>1
    <2>4. y[1] = f => i <= y[2]
      BY <1>5, <2>3
    <2>5. QED
      BY <1>6, <2>2, <2>4 DEF NotAfter
  <1>8. a \in Adders(infos)
    BY <1>1, <1>6, <1>7 DEF Adders, Adding, Places
  <1>9. QED
    BY <1>6, <1>8


\* Places are added in order: each has a number of its own.
LEMMA AddersFacts ==
    ASSUME NEW infos \in Infos
    PROVE  /\ IsFiniteSet(Adders(infos)) /\ Adders(infos) \subseteq Places(infos)
           /\ \A x, y \in Adders(infos) : IDAt(infos, x) = IDAt(infos, y) => x = y
  <1>1. Adders(infos) \subseteq Places(infos)
    BY DEF Adders, Adding, Places
  <1>2. IsFiniteSet(Adders(infos))
    BY <1>1, PlacesFinite, FS_Subset
  <1>3. ASSUME NEW x \in Adders(infos), NEW y \in Adders(infos), IDAt(infos, x) = IDAt(infos, y)
        PROVE  x = y
    <2>1. NotAfter(x, y) /\ NotAfter(y, x)
      BY <1>3 DEF Adders, Adding
    <2>2. QED
      BY <1>1, <2>1, PlacesInOrder
  <1>4. QED
    BY <1>1, <1>2, <1>3

UpTo(infos, x) == {y \in Adders(infos) : NotAfter(y, x)}

LEMMA Ranks ==
    ASSUME NEW infos \in Infos
    PROVE  LET N == Cardinality(Adders(infos))
           IN  /\ N \in Nat
               /\ \A x \in Adders(infos) : Cardinality(UpTo(infos, x)) \in 1 .. N
               /\ \A x, y \in Adders(infos) :
                     Cardinality(UpTo(infos, x)) = Cardinality(UpTo(infos, y)) => x = y
               /\ \A k \in 1 .. N : \E x \in Adders(infos) : Cardinality(UpTo(infos, x)) = k
  <1> DEFINE A == Adders(infos)
             N == Cardinality(A)
             C(x) == Cardinality(UpTo(infos, x))
             r == [x \in A |-> C(x)]
  <1>1. IsFiniteSet(A) /\ N \in Nat /\ A \subseteq Places(infos)
    BY AddersFacts, FS_CardinalityType
  <1>2. ASSUME NEW x \in A PROVE C(x) \in 1 .. N
    <2>1. UpTo(infos, x) \in SUBSET A /\ x \in UpTo(infos, x)
      BY <1>1, PlacesInOrder DEF UpTo
    <2>2. IsFiniteSet(UpTo(infos, x)) /\ C(x) <= N
      BY <1>1, <2>1, FS_Subset
    <2>3. C(x) \in Nat /\ C(x) # 0
      BY <2>1, <2>2, FS_CardinalityType, FS_EmptySet
    <2> HIDE DEF C, N
    <2>4. QED
      BY <1>1, <2>2, <2>3
  <1>3. ASSUME NEW x \in A, NEW y \in A, C(x) = C(y), NotAfter(x, y) PROVE x = y
    <2>1. UpTo(infos, x) \subseteq UpTo(infos, y)
      BY <1>1, <1>3, PlacesInOrder DEF UpTo
    <2>2. UpTo(infos, y) \in SUBSET A /\ y \in UpTo(infos, y)
      BY <1>1, PlacesInOrder DEF UpTo
    <2>3. IsFiniteSet(UpTo(infos, y))
      BY <1>1, <2>2, FS_Subset
    <2>4. UpTo(infos, x) = UpTo(infos, y)
      BY <1>3, <2>1, <2>3, FS_Subset
    <2>5. NotAfter(y, x)
      BY <2>2, <2>4 DEF UpTo
    <2>6. QED
      BY <1>1, <1>3, <2>5, PlacesInOrder
  <1>4. ASSUME NEW x \in A, NEW y \in A, C(x) = C(y) PROVE x = y
    <2>1. NotAfter(x, y) \/ NotAfter(y, x)
      BY <1>1, PlacesInOrder
    <2>2. QED
      BY <1>3, <1>4, <2>1
  <1>5. r \in Injection(A, 1 .. N)
    <2> HIDE DEF A, N, C
    <2>1. r \in [A -> 1 .. N]
      BY <1>2
    <2>2. \A x, y \in A : r[x] = r[y] => x = y
      BY <1>4
    <2>3. QED
      BY <2>1, <2>2 DEF Injection, IsInjective
  <1>6. IsFiniteSet(1 .. N) /\ Cardinality(1 .. N) = N
    <2> HIDE DEF N
    <2>1. 1 \in Int /\ N \in Int
      BY <1>1
    <2>2. IsFiniteSet(1 .. N) /\ Cardinality(1 .. N) = IF 1 > N THEN 0 ELSE N - 1 + 1
      BY <2>1, FS_Interval
    <2>3. QED
      BY <1>1, <2>2
  <1>7. r \in Surjection(A, 1 .. N)
    <2> HIDE DEF A, r
    <2>1. Cardinality(A) = Cardinality(1 .. N)
      BY <1>6
    <2>2. QED
      BY <1>5, <1>6, <2>1, FS_Injection
  <1>8. \A k \in 1 .. N : \E x \in A : C(x) = k
    <2> HIDE DEF A, N, C
    <2>1. QED
      BY <1>7 DEF Surjection
  <1>9. QED
    BY <1>1, <1>2, <1>4, <1>8

\* The array holds the ID of every audio stream once.
LEMMA ArrayFacts ==
    ASSUME NEW infos \in Infos
    PROVE  LET ids == getUniqueAudioIDArray(infos)
           IN  /\ Len(ids) \in Nat /\ DOMAIN ids = 1 .. Len(ids)
               /\ \A k \in DOMAIN ids : \E x \in Adders(infos) : ids[k] = IDAt(infos, x)
               /\ \A x \in Places(infos) : \E k \in DOMAIN ids : ids[k] = IDAt(infos, x)
               /\ \A k, l \in DOMAIN ids : ids[k] = ids[l] => k = l
  <1> DEFINE A == Adders(infos)
             N == Cardinality(A)
             ids == getUniqueAudioIDArray(infos)
             At(k) == CHOOSE x \in A : Cardinality(UpTo(infos, x)) = k
  <1>1. N \in Nat
    BY Ranks
  <1>2. ids = [k \in 1 .. N |-> IDAt(infos, At(k))]
    BY DEF getUniqueAudioIDArray, UniqueIDs, Adders, UpTo
  <1>3. \A k \in 1 .. N : At(k) \in A /\ Cardinality(UpTo(infos, At(k))) = k
    BY Ranks
  <1> HIDE DEF ids, At, N
  <1>4. DOMAIN ids = 1 .. N /\ Len(ids) = N
    BY <1>1, <1>2
  <1>5. \A k \in 1 .. N : ids[k] = IDAt(infos, At(k))
    BY <1>2
  <1>6. \A k, l \in 1 .. N : ids[k] = ids[l] => k = l
    <2>1. ASSUME NEW k \in 1 .. N, NEW l \in 1 .. N, ids[k] = ids[l] PROVE k = l
      <3>1. IDAt(infos, At(k)) = IDAt(infos, At(l))
        BY <1>5, <2>1
      <3>2. At(k) = At(l)
        BY <1>3, <3>1, AddersFacts
      <3>3. QED
        BY <1>3, <3>2
    <2>2. QED
      BY <2>1
  <1>7. ASSUME NEW x \in Places(infos) PROVE \E k \in 1 .. N : ids[k] = IDAt(infos, x)
    <2>1. PICK a \in A : IDAt(infos, a) = IDAt(infos, x)
      BY EveryIDIsAdded
    <2>2. Cardinality(UpTo(infos, a)) \in 1 .. N
      BY Ranks DEF N
    <2>3. At(Cardinality(UpTo(infos, a))) = a
      BY <1>3, <2>2, Ranks
    <2>4. QED
      BY <1>5, <2>1, <2>2, <2>3
  <1>8. QED
    BY <1>1, <1>3, <1>4, <1>5, <1>6, <1>7 DEF ids

-----------------------------------------------------------------------------
(* The columns.                                                             *)

LEMMA ColumnsFacts ==
    ASSUME NEW infos \in Infos
    PROVE  /\ numStreams(infos) \in Nat \ {0}
           /\ \A s \in 1 .. numStreams(infos) :
                 s = 1 \/ s - 1 \in DOMAIN getUniqueAudioIDArray(infos)
           /\ \A k \in DOMAIN getUniqueAudioIDArray(infos) :
                 k + 1 \in 1 .. numStreams(infos) /\ k + 1 # 1 /\ (k + 1) - 1 = k
  <1> DEFINE ids == getUniqueAudioIDArray(infos)
  <1>1. Len(ids) \in Nat /\ DOMAIN ids = 1 .. Len(ids) /\ numStreams(infos) = Len(ids) + 1
    BY ArrayFacts DEF numStreams
  <1> HIDE DEF ids
  <1>2. QED
    BY <1>1 DEF ids

\* What is found in a column: the only video, or the audio stream with the ID.
InColumn(infos, f, s, i) ==
    \/ s = 1 /\ Videos(infos[f]) = {i}
    \/ /\ s # 1 /\ i \in Audios(infos[f])
       /\ IDOf(infos, infos[f][i]) = getUniqueAudioIDArray(infos)[s - 1]

LEMMA ColumnIsStream ==
    ASSUME NEW infos \in Infos, NEW f \in Ingests, NEW s \in Int
    PROVE  /\ \A i \in DOMAIN infos[f] : InColumn(infos, f, s, i) => PIDInColumn(infos, f, s) = infos[f][i].PID
           /\ PIDInColumn(infos, f, s) # NULL => \E i \in DOMAIN infos[f] : InColumn(infos, f, s, i)
  <1> DEFINE info == infos[f]
             id == getUniqueAudioIDArray(infos)[s - 1]
             hits == {i \in Audios(info) : IDOf(infos, info[i]) = id}
  <1>1. info \in Programs /\ DOMAIN info \subseteq Nat
    BY ProgramFacts DEF Infos
  <1>2. CASE s = 1
    <2>1. PIDInColumn(infos, f, s) = getVideoPID(info)
      BY <1>2 DEF PIDInColumn
    <2>2. ASSUME NEW i \in DOMAIN info, Videos(info) = {i} PROVE getVideoPID(info) = info[i].PID
      <3>1. i \in Nat
        BY <1>1
      <3>2. Min(Videos(info)) = i
        BY <2>2, <3>1, MinOfOne
      <3>3. QED
        BY <2>2, <3>2 DEF getVideoPID
    <2>3. getVideoPID(info) # NULL => \E i \in DOMAIN info : Videos(info) = {i}
      BY DEF getVideoPID
    <2>4. QED
      BY <1>2, <2>1, <2>2, <2>3 DEF InColumn
  <1>3. CASE s # 1
    <2>1. PIDInColumn(infos, f, s) = IF hits = {} THEN NULL ELSE info[Min(hits)].PID
      BY <1>3 DEF PIDInColumn, getAudioPID
    <2>2. hits \subseteq DOMAIN info /\ hits \subseteq Audios(info)
      BY DEF Audios
    <2>3. hits # {} => Min(hits) \in hits
      <3> HIDE DEF hits
      <3>1. QED
        BY <1>1, <2>2, MinIsLeast
    <2>4. ASSUME NEW i \in hits, NEW j \in hits PROVE i = j
      <3>1. IDOf(infos, infos[f][i]) = IDOf(infos, infos[f][j])
        OBVIOUS
      <3>2. QED
        BY <2>2, <3>1, IDsTellApart
    <2>5. ASSUME NEW i \in DOMAIN info, InColumn(infos, f, s, i)
          PROVE  PIDInColumn(infos, f, s) = info[i].PID
      <3>1. i \in hits
        BY <1>3, <2>5 DEF InColumn
      <3>2. Min(hits) = i
        <4> HIDE DEF hits
        <4>1. QED
          BY <2>3, <2>4, <3>1
      <3>3. QED
        BY <2>1, <3>1, <3>2
    <2>6. ASSUME PIDInColumn(infos, f, s) # NULL
          PROVE  \E i \in DOMAIN info : InColumn(infos, f, s, i)
      <3>1. hits # {}
        BY <2>1, <2>6
      <3>2. PICK i \in hits : TRUE
        BY <3>1
      <3>3. i \in DOMAIN info /\ InColumn(infos, f, s, i)
        BY <1>3, <2>2, <3>2 DEF InColumn
      <3>4. QED
        BY <3>3
    <2>7. QED
      BY <2>5, <2>6
  <1>4. QED
    BY <1>2, <1>3

\* The place of the stream of a column is the only one with its PID.
LEMMA ColumnPlace ==
    ASSUME NEW infos \in Infos, NEW f \in Ingests, NEW s \in Int,
           PIDInColumn(infos, f, s) # NULL
    PROVE  /\ PIDInColumn(infos, f, s) \in Int
           /\ \E i \in DOMAIN infos[f] :
                 /\ infos[f][i].PID = PIDInColumn(infos, f, s) /\ InColumn(infos, f, s, i)
                 /\ \A j \in DOMAIN infos[f] : infos[f][j].PID = PIDInColumn(infos, f, s) => j = i
  <1>1. infos[f] \in Programs
    BY DEF Infos
  <1>2. PICK i \in DOMAIN infos[f] : InColumn(infos, f, s, i)
    BY ColumnIsStream
  <1>3. PIDInColumn(infos, f, s) = infos[f][i].PID
    BY <1>2, ColumnIsStream
  <1>4. QED
    BY <1>1, <1>2, <1>3, ProgramFacts

\* Two columns of a source hold two streams.
LEMMA ColumnsDiffer ==
    ASSUME NEW infos \in Infos, NEW f \in Ingests,
           NEW s \in 1 .. numStreams(infos), NEW t \in 1 .. numStreams(infos), s # t,
           PIDInColumn(infos, f, s) # NULL
    PROVE  PIDInColumn(infos, f, s) # PIDInColumn(infos, f, t)
  <1> SUFFICES ASSUME PIDInColumn(infos, f, s) = PIDInColumn(infos, f, t) PROVE FALSE
    OBVIOUS
  <1> DEFINE ids == getUniqueAudioIDArray(infos)
             n == numStreams(infos)
  <1>1. n \in Nat /\ s \in Int /\ t \in Int
    BY ColumnsFacts
  <1>2. PICK i \in DOMAIN infos[f] :
                 /\ infos[f][i].PID = PIDInColumn(infos, f, s) /\ InColumn(infos, f, s, i)
                 /\ \A j \in DOMAIN infos[f] : infos[f][j].PID = PIDInColumn(infos, f, s) => j = i
    BY <1>1, ColumnPlace
  <1>3. PICK j \in DOMAIN infos[f] :
                 infos[f][j].PID = PIDInColumn(infos, f, t) /\ InColumn(infos, f, t, j)
    BY <1>1, ColumnPlace
  <1>4. i = j
    BY <1>2, <1>3
  <1>5. ~(s = 1 /\ t # 1) /\ ~(s # 1 /\ t = 1)
    BY <1>2, <1>3, <1>4 DEF InColumn, Videos, Audios, IsVideo, IsAudio
  <1>6. s # 1 /\ t # 1
    BY <1>5
  <1>7. ids[s - 1] = ids[t - 1]
    BY <1>2, <1>3, <1>4, <1>6 DEF InColumn
  <1>8. s - 1 \in DOMAIN ids /\ t - 1 \in DOMAIN ids
    BY <1>6, ColumnsFacts
  <1>9. s - 1 = t - 1
    BY <1>7, <1>8, ArrayFacts
  <1>10. QED
    BY <1>1, <1>9

\* Every stream is in some column, but for the videos of a source that has several.
LEMMA StreamHasColumn ==
    ASSUME NEW infos \in Infos, NEW f \in Ingests, NEW i \in DOMAIN infos[f],
           IsAudio(infos[f][i]) \/ getVideoPID(infos[f]) # NULL
    PROVE  \E s \in 1 .. numStreams(infos) : PIDInColumn(infos, f, s) = infos[f][i].PID
  <1> DEFINE ids == getUniqueAudioIDArray(infos)
  <1>1. infos[f] \in Programs
    BY DEF Infos
  <1>2. CASE IsAudio(infos[f][i])
    <2>1. <<f, i>> \in Places(infos)
      BY <1>2, PlaceIs DEF Audios
    <2>2. PICK k \in DOMAIN ids : ids[k] = IDAt(infos, <<f, i>>)
      BY <2>1, ArrayFacts
    <2>3. k + 1 \in 1 .. numStreams(infos) /\ k + 1 # 1 /\ (k + 1) - 1 = k
      BY ColumnsFacts
    <2>4. numStreams(infos) \in Nat
      BY ColumnsFacts
    <2>5. k + 1 \in Int
      BY <2>3, <2>4
    <2> HIDE DEF ids
    <2>6. ids[(k + 1) - 1] = IDOf(infos, infos[f][i])
      BY <2>2, <2>3 DEF IDAt
    <2>7. InColumn(infos, f, k + 1, i)
      BY <1>2, <2>3, <2>6 DEF InColumn, Audios, ids
    <2>8. PIDInColumn(infos, f, k + 1) = infos[f][i].PID
      BY <2>5, <2>7, ColumnIsStream
    <2>9. QED
      BY <2>3, <2>8
  <1>3. CASE ~IsAudio(infos[f][i])
    <2>1. infos[f][i].type = "video"
      BY <1>1, <1>3, ProgramFacts DEF IsAudio
    <2>2. i \in Videos(infos[f])
      BY <2>1 DEF Videos, IsVideo
    <2>3. Videos(infos[f]) = {i}
      BY <1>3, <2>2 DEF getVideoPID
    <2>4. InColumn(infos, f, 1, i)
      BY <2>3 DEF InColumn
    <2>5. PIDInColumn(infos, f, 1) = infos[f][i].PID
      BY <2>4, ColumnIsStream
    <2>6. 1 \in 1 .. numStreams(infos)
      BY ColumnsFacts
    <2>7. QED
      BY <2>5, <2>6
  <1>4. QED
    BY <1>2, <1>3

\* A source with a stream for each column has at least as many streams.
LEMMA EnoughStreams ==
    ASSUME NEW infos \in Infos, NEW f \in Ingests,
           \A s \in 1 .. numStreams(infos) : PIDInColumn(infos, f, s) # NULL
    PROVE  numStreams(infos) <= Len(infos[f])
  <1> DEFINE n == numStreams(infos)
             P(s) == PIDInColumn(infos, f, s)
             g == [s \in 1 .. n |-> CHOOSE i \in DOMAIN infos[f] : infos[f][i].PID = P(s)]
  <1>1. n \in Nat
    BY ColumnsFacts
  <1>2. infos[f] \in Programs
    BY DEF Infos
  <1>3. Len(infos[f]) \in Nat /\ DOMAIN infos[f] = 1 .. Len(infos[f])
    BY <1>2, ProgramFacts
  <1>4. ASSUME NEW s \in 1 .. n PROVE g[s] \in DOMAIN infos[f] /\ infos[f][g[s]].PID = P(s)
    <2>1. s \in Int
      BY <1>1
    <2>2. \E i \in DOMAIN infos[f] : infos[f][i].PID = P(s)
      BY <2>1, ColumnPlace
    <2> HIDE DEF P
    <2>3. QED
      BY <2>2
  <1>5. ASSUME NEW s \in 1 .. n, NEW t \in 1 .. n, g[s] = g[t] PROVE s = t
    <2>1. P(s) = P(t)
      BY <1>4, <1>5
    <2>2. QED
      BY <2>1, ColumnsDiffer
  <1> HIDE DEF n, P
  <1>6. DOMAIN g = 1 .. n
    OBVIOUS
  <1>7. g \in [1 .. n -> 1 .. Len(infos[f])]
    BY <1>3, <1>4
  <1>8. g \in Injection(1 .. n, 1 .. Len(infos[f]))
    <2> HIDE DEF g
    <2>1. QED
      BY <1>5, <1>7 DEF Injection, IsInjective
  <1>9. /\ IsFiniteSet(1 .. Len(infos[f]))
        /\ Cardinality(1 .. n) = IF 1 > n THEN 0 ELSE n - 1 + 1
        /\ Cardinality(1 .. Len(infos[f])) = IF 1 > Len(infos[f]) THEN 0 ELSE Len(infos[f]) - 1 + 1
    BY <1>1, <1>3, FS_Interval
  <1>10. Cardinality(1 .. n) <= Cardinality(1 .. Len(infos[f]))
    <2> HIDE DEF g
    <2>1. QED
      BY <1>8, <1>9, FS_Injection
  <1>11. n <= Len(infos[f])
    BY <1>1, <1>3, <1>9, <1>10
  <1>12. QED
    BY <1>11 DEF n

-----------------------------------------------------------------------------
(* What modBoundaryInfoArray returns.                                       *)

LEMMA SourceType ==
    ASSUME NEW infos \in Infos, NEW f \in Ingests, NEW PID
    PROVE  /\ SourceOfPID(infos, f, PID) \in Ingests \cup {NULL}
           /\ HasPID(infos[f], PID) => SourceOfPID(infos, f, PID) = f
           /\ SourceOfPID(infos, f, PID) # NULL => HasPID(infos[SourceOfPID(infos, f, PID)], PID)
  <1> DEFINE files == {g \in Ingests : HasPID(infos[g], PID)}
  <1>1. files \subseteq Nat
    BY IngestsFinite
  <1>2. getFileWithPID(infos, PID) = IF files = {} THEN NULL ELSE Min(files)
    BY DEF getFileWithPID
  <1>3. files # {} => Min(files) \in files
    <2> HIDE DEF files
    <2>1. QED
      BY <1>1, MinIsLeast
  <1>4. CASE HasPID(infos[f], PID)
    BY <1>4 DEF SourceOfPID
  <1>5. CASE ~HasPID(infos[f], PID)
    BY <1>2, <1>3, <1>5 DEF SourceOfPID
  <1>6. QED
    BY <1>4, <1>5

\* The descriptor and the EBP of a column, when they are not past the end.
LEMMA Inputs ==
    ASSUME NEW infos \in Infos, NEW f \in Ingests, NEW s, NEW es \in Seq(EBPs \cup {NULL}),
           NEW d \in DescriptorAt(infos[f], s), NEW e \in EBPAt(es, s)
    PROVE  /\ d # Garbage /\ d # NULL => \A p \in DOMAIN d : d[p] \in Int \cup {Explicit}
           /\ s \in DOMAIN infos[f] => d # Garbage
           /\ e # Garbage /\ e # NULL => e \in EBPs
           /\ s \in DOMAIN es => e # Garbage
  <1>1. IsProgram(infos[f])
    BY SetupAssumption DEF Infos
  <1>2. s \in DOMAIN es => es[s] \in EBPs \cup {NULL}
    OBVIOUS
  <1>3. NULL # Garbage /\ Garbage \notin EBPs
    BY SetupAssumption
  <1>4. s \in DOMAIN infos[f] => d = infos[f][s].descriptor
    BY DEF DescriptorAt
  <1>5. s \notin DOMAIN infos[f] => d \in {NULL, Garbage}
    BY DEF DescriptorAt
  <1>6. s \in DOMAIN infos[f] => /\ infos[f][s].descriptor # Garbage
                                 /\ infos[f][s].descriptor # NULL =>
                                       \A p \in DOMAIN infos[f][s].descriptor :
                                          infos[f][s].descriptor[p] \in Int \cup {Explicit}
    BY <1>1 DEF IsProgram
  <1>7. /\ d # Garbage /\ d # NULL => \A p \in DOMAIN d : d[p] \in Int \cup {Explicit}
        /\ s \in DOMAIN infos[f] => d # Garbage
    BY <1>4, <1>5, <1>6
  <1>8. /\ e # Garbage /\ e # NULL => e \in EBPs
        /\ s \in DOMAIN es => e # Garbage
    BY <1>2, <1>3 DEF EBPAt
  <1>9. QED
    BY <1>7, <1>8

LEMMA FailedIsNone == \A b \in [Partitions -> Boundary] : b # FAILED
  <1>1. Partitions # {}
    BY SetupAssumption
  <1>2. DOMAIN FAILED = {}
    BY DEF FAILED
  <1>3. QED
    BY <1>1, <1>2

\* What a descriptor, an EBP or the video give for partition p.
LEMMA DescriptorGives ==
    ASSUME NEW infos \in Infos, NEW f \in Ingests, NEW d,
           \A p \in DOMAIN d : d[p] \in Int \cup {Explicit},
           OfDescriptor(infos, f, d) # FAILED
    PROVE  /\ OfDescriptor(infos, f, d) \in [Partitions -> Boundary]
           /\ \A p \in Partitions : OfDescriptor(infos, f, d)[p] =
                 IF p \notin DOMAIN d THEN NULL
                 ELSE IF d[p] = Explicit THEN Explicit ELSE Follows(infos, f, d[p])
           /\ \A p \in DOMAIN d : d[p] # Explicit => SourceOfPID(infos, f, d[p]) \in Ingests
  <1>1. /\ OfDescriptor(infos, f, d) =
              [p \in Partitions |-> IF p \notin DOMAIN d THEN NULL
                                    ELSE IF d[p] = Explicit THEN Explicit ELSE Follows(infos, f, d[p])]
        /\ \A p \in DOMAIN d : d[p] # Explicit => SourceOfPID(infos, f, d[p]) # NULL
    BY DEF OfDescriptor
  <1>2. \A p \in DOMAIN d : d[p] # Explicit => SourceOfPID(infos, f, d[p]) \in Ingests
    BY <1>1, SourceType
  <1>3. ASSUME NEW p \in DOMAIN d, d[p] # Explicit PROVE Follows(infos, f, d[p]) \in Boundary
    <2>1. d[p] \in Int /\ SourceOfPID(infos, f, d[p]) \in Ingests
      BY <1>2, <1>3
    <2>2. QED
      BY <2>1 DEF Follows, Boundary
  <1>4. NULL \in Boundary /\ Explicit \in Boundary
    BY DEF Boundary
  <1>5. QED
    BY <1>1, <1>2, <1>3, <1>4

LEMMA EBPGives ==
    ASSUME NEW e
    PROVE  /\ OfEBP(e) \in [Partitions -> Boundary]
           /\ \A p \in Partitions : OfEBP(e)[p] = IF p \in e THEN Explicit ELSE NULL
  BY DEF OfEBP, Boundary

LEMMA VideoGives ==
    ASSUME NEW infos \in Infos, NEW f \in Ingests, NEW row, getVideoPID(infos[f]) # NULL
    PROVE  /\ OfVideo(infos, f, row) \in [Partitions -> Boundary]
           /\ \A p \in Partitions : OfVideo(infos, f, row)[p] =
                 IF VideoBoundaries(row)[p] = NULL THEN NULL
                 ELSE [file |-> f, PID |-> getVideoPID(infos[f])]
  <1>1. PIDInColumn(infos, f, 1) = getVideoPID(infos[f])
    BY DEF PIDInColumn
  <1>2. getVideoPID(infos[f]) \in Int
    BY <1>1, ColumnPlace
  <1>3. QED
    BY <1>2 DEF OfVideo, Boundary

LEMMA ModType ==
    ASSUME NEW infos \in Infos, NEW f \in Ingests, NEW s, NEW es \in Seq(EBPs \cup {NULL}),
           NEW d \in DescriptorAt(infos[f], s), NEW e \in EBPAt(es, s), NEW type, NEW row,
           ~Crashes(d, e, type),
           modBoundaryInfoArray(infos, f, d, e, type, row) # FAILED
    PROVE  modBoundaryInfoArray(infos, f, d, e, type, row) \in [Partitions -> Boundary]
  <1>1. CASE d # NULL
    <2>1. modBoundaryInfoArray(infos, f, d, e, type, row) = OfDescriptor(infos, f, d)
      BY <1>1 DEF modBoundaryInfoArray
    <2>2. \A p \in DOMAIN d : d[p] \in Int \cup {Explicit}
      BY <1>1, Inputs DEF Crashes
    <2>3. QED
      BY <2>1, <2>2, DescriptorGives
  <1>2. CASE d = NULL /\ e # NULL
    <2>1. modBoundaryInfoArray(infos, f, d, e, type, row) = OfEBP(e)
      BY <1>2 DEF modBoundaryInfoArray
    <2>2. QED
      BY <2>1, EBPGives
  <1>3. CASE d = NULL /\ e = NULL
    <2>1. /\ modBoundaryInfoArray(infos, f, d, e, type, row) = OfVideo(infos, f, row)
          /\ getVideoPID(infos[f]) # NULL
      BY <1>3 DEF modBoundaryInfoArray
    <2>2. OfVideo(infos, f, row) \in [Partitions -> Boundary]
      BY <2>1, VideoGives, Zenon
    <2>3. QED
      BY <2>1, <2>2, Zenon
  <1>4. QED
    BY <1>1, <1>2, <1>3

\* Only the boundaries of the video are read of the row.
LEMMA SameVideo ==
    ASSUME NEW infos, NEW f, NEW d, NEW e, NEW type, NEW a, NEW b,
           VideoBoundaries(a) = VideoBoundaries(b)
    PROVE  modBoundaryInfoArray(infos, f, d, e, type, a) = modBoundaryInfoArray(infos, f, d, e, type, b)
  <1>1. OfVideo(infos, f, a) = OfVideo(infos, f, b)
    BY DEF OfVideo
  <1>2. QED
    BY <1>1 DEF modBoundaryInfoArray

-----------------------------------------------------------------------------
(* The invariant.                                                           *)

\* Place s of a row is as its turn of the loop makes it.
Before(row, s) == IF s = 1 THEN <<>> ELSE row
Made(infos, es, row, f, s) ==
    IF PIDInColumn(infos, f, s) = NULL THEN row[s] = NULL
    ELSE /\ row[s] \in Queue /\ row[s].PID = PIDInColumn(infos, f, s)
         /\ \E d \in DescriptorAt(infos[f], s), e \in EBPAt(es, s), type \in TypesAt(infos, s) :
               /\ ~Crashes(d, e, type)
               /\ row[s].boundaries = modBoundaryInfoArray(infos, f, d, e, type, Before(row, s))
RowsMade == \A f \in Ingests : \A s \in DOMAIN queues[f] : Made(programs, ebps[f], queues[f], f, s)

\* Queues are made when no more EBPs are looked for.
SearchIsOver ==
    (status # "setup" \/ \E f \in Ingests : queues[f] # <<>>) => \A f \in Ingests : searchEnded[f]

StatusOK ==
    /\ status \in {"running", "ended"} => \A f \in Ingests : Len(queues[f]) = numStreams(programs)
    /\ CrashesOnlyIfStreamsAreAbsent

IInv == SetupTypeOK /\ RowsMade /\ SearchIsOver /\ StatusOK

LEMMA Initially == SetupInit => IInv
  <1> SUFFICES ASSUME SetupInit PROVE IInv
    OBVIOUS
  <1>1. programs \in Infos
    BY DEF SetupInit, Infos
  <1>2. numStreams(programs) \in Nat \ {0}
    BY <1>1, ColumnsFacts
  <1>3. ASSUME NEW f \in Ingests
        PROVE  ebps[f] \in Seq(EBPs \cup {NULL}) /\ DOMAIN ebps[f] = DOMAIN programs[f]
    <2>1. programs[f] \in Programs
      BY <1>1 DEF Infos
    <2>2. Len(programs[f]) \in Nat /\ DOMAIN programs[f] = 1 .. Len(programs[f])
      BY <2>1, ProgramFacts
    <2>3. ebps[f] = [i \in 1 .. Len(programs[f]) |-> NULL]
      BY <2>2 DEF SetupInit
    <2>4. ebps[f] \in [1 .. Len(programs[f]) -> EBPs \cup {NULL}]
      BY <2>3
    <2>5. QED
      BY <2>2, <2>3, <2>4
  <1>4. ebps \in [Ingests -> Seq(EBPs \cup {NULL})]
    <2>1. ebps = [f \in Ingests |-> ebps[f]]
      BY DEF SetupInit
    <2>2. QED
      BY <1>3, <2>1
  <1>5. /\ queues \in [Ingests -> Seq(Queue \cup {NULL})]
        /\ \A f \in Ingests : queues[f] = <<>> /\ Len(queues[f]) <= numStreams(programs)
    BY <1>2 DEF SetupInit
  <1>6. SetupTypeOK
    BY <1>1, <1>3, <1>4, <1>5, SetupAssumption DEF SetupTypeOK, SetupInit, Infos
  <1>7. RowsMade
    BY <1>5 DEF RowsMade
  <1>8. SearchIsOver /\ StatusOK
    BY DEF SetupInit, SearchIsOver, StatusOK, CrashesOnlyIfStreamsAreAbsent
  <1>9. QED
    BY <1>6, <1>7, <1>8 DEF IInv

\* A place that is made stays so when the row grows.
LEMMA FirstStays ==
    ASSUME NEW row \in Seq(Queue \cup {NULL}), NEW q, row # <<>>
    PROVE  VideoBoundaries(Append(row, q)) = VideoBoundaries(row)
  <1>1. Len(row) \in Nat /\ Len(row) # 0
    OBVIOUS
  <1>2. Append(row, q) # <<>> /\ Append(row, q)[1] = row[1]
    BY <1>1
  <1>3. QED
    BY <1>2 DEF VideoBoundaries

LEMMA MadeKept ==
    ASSUME NEW infos \in Infos, NEW es, NEW row \in Seq(Queue \cup {NULL}), NEW q,
           NEW f \in Ingests, NEW s \in DOMAIN row, Made(infos, es, row, f, s)
    PROVE  Made(infos, es, Append(row, q), f, s)
  <1> DEFINE longer == Append(row, q)
  <1>1. row # <<>> /\ longer[s] = row[s]
    OBVIOUS
  <1>2. VideoBoundaries(Before(longer, s)) = VideoBoundaries(Before(row, s))
    BY <1>1, FirstStays DEF Before
  <1> HIDE DEF longer
  <1>3. \A d, e, type : modBoundaryInfoArray(infos, f, d, e, type, Before(longer, s))
                           = modBoundaryInfoArray(infos, f, d, e, type, Before(row, s))
    BY <1>2, SameVideo
  <1>4. Made(infos, es, longer, f, s)
    BY <1>1, <1>3 DEF Made
  <1>5. QED
    BY <1>4 DEF longer

LEMMA MadeNow ==
    ASSUME NEW infos \in Infos, NEW es, NEW row \in Seq(Queue \cup {NULL}), NEW q \in Queue,
           NEW f \in Ingests, NEW s, s = Len(row) + 1, PIDInColumn(infos, f, s) # NULL,
           q.PID = PIDInColumn(infos, f, s),
           NEW d \in DescriptorAt(infos[f], s), NEW e \in EBPAt(es, s), NEW type \in TypesAt(infos, s),
           ~Crashes(d, e, type), q.boundaries = modBoundaryInfoArray(infos, f, d, e, type, row)
    PROVE  Made(infos, es, Append(row, q), f, s)
  <1> DEFINE longer == Append(row, q)
  <1>1. longer[s] = q /\ (s = 1 => row = <<>>) /\ (s # 1 => row # <<>>)
    OBVIOUS
  <1>2. VideoBoundaries(Before(longer, s)) = VideoBoundaries(row)
    BY <1>1, FirstStays DEF Before
  <1> HIDE DEF longer
  <1>3. modBoundaryInfoArray(infos, f, d, e, type, Before(longer, s))
           = modBoundaryInfoArray(infos, f, d, e, type, row)
    BY <1>2, SameVideo
  <1>4. Made(infos, es, longer, f, s)
    BY <1>1, <1>3 DEF Made
  <1>5. QED
    BY <1>4 DEF longer

-----------------------------------------------------------------------------
(* The steps.                                                               *)

LEMMA StepPacket ==
    ASSUME IInv, NEW f \in Ingests, preread_handle_pes_packet(f)
    PROVE  IInv'
  <1>1. status = "setup" /\ \A g \in Ingests : queues[g] = <<>>
    BY DEF IInv, SearchIsOver, preread_handle_pes_packet
  <1>2. UNCHANGED <<programs, queues, status>>
    BY DEF preread_handle_pes_packet
  <1>3. PICK i \in DOMAIN programs[f], e \in EBPs \cup {NULL}, late \in BOOLEAN :
            /\ e # NULL => found < MaxEBPs
            /\ ebps' = IF e = NULL THEN ebps ELSE [ebps EXCEPT ![f][i] = e]
            /\ found' = IF e = NULL THEN found ELSE found + 1
            /\ searchEnded' = [searchEnded EXCEPT ![f] = late \/ HasAllDescriptors(f)]
    BY DEF preread_handle_pes_packet
  <1>4. ebps \in [Ingests -> Seq(EBPs \cup {NULL})] /\ \A g \in Ingests : DOMAIN ebps[g] = DOMAIN programs[g]
    BY DEF IInv, SetupTypeOK
  <1>5. /\ ebps' \in [Ingests -> Seq(EBPs \cup {NULL})]
        /\ \A g \in Ingests : DOMAIN ebps'[g] = DOMAIN programs[g]
    <2>1. CASE e = NULL
      BY <1>3, <1>4, <2>1
    <2>2. CASE e # NULL
      <3>1. ebps' = [ebps EXCEPT ![f] = [ebps[f] EXCEPT ![i] = e]]
        BY <1>3, <2>2
      <3>2. ebps[f] \in Seq(EBPs \cup {NULL})
        BY <1>4
      <3> DEFINE es == ebps[f]
                 S == EBPs \cup {NULL}
      <3>3. es \in [1 .. Len(es) -> S] /\ Len(es) \in Nat
        BY <3>2
      <3>4b. e \in S
        OBVIOUS
      <3> HIDE DEF es, S
      <3>4. [es EXCEPT ![i] = e] \in [1 .. Len(es) -> S]
        BY <3>3, <3>4b
      <3>5. [es EXCEPT ![i] = e] \in Seq(S)
        BY <3>3, <3>4
      <3>6. [ebps[f] EXCEPT ![i] = e] \in Seq(EBPs \cup {NULL})
        BY <3>5 DEF es, S
      <3>7. DOMAIN [ebps[f] EXCEPT ![i] = e] = DOMAIN ebps[f]
        OBVIOUS
      <3>8. QED
        BY <1>4, <3>1, <3>6, <3>7
    <2>3. QED
      BY <2>1, <2>2
  <1>6. found' \in 0 .. MaxEBPs
    BY <1>3, SetupAssumption DEF IInv, SetupTypeOK
  <1>7. searchEnded' \in [Ingests -> BOOLEAN]
    BY <1>3, Zenon DEF IInv, SetupTypeOK, HasAllDescriptors
  <1>8. SetupTypeOK'
    BY <1>2, <1>5, <1>6, <1>7 DEF IInv, SetupTypeOK
  <1>9. RowsMade'
    BY <1>1, <1>2 DEF RowsMade
  <1>10. SearchIsOver' /\ StatusOK'
    BY <1>1, <1>2 DEF SearchIsOver, StatusOK, CrashesOnlyIfStreamsAreAbsent
  <1>11. QED
    BY <1>8, <1>9, <1>10 DEF IInv

LEMMA StepSourceEnds ==
    ASSUME IInv, NEW f \in Ingests, SourceEnds(f)
    PROVE  IInv'
  <1>1. status = "setup" /\ \A g \in Ingests : queues[g] = <<>>
    BY DEF IInv, SearchIsOver, SourceEnds
  <1>2. UNCHANGED <<programs, ebps, found, queues, status>> /\ searchEnded' = [searchEnded EXCEPT ![f] = TRUE]
    BY DEF SourceEnds
  <1>3. SetupTypeOK'
    BY <1>2 DEF IInv, SetupTypeOK
  <1>4. RowsMade'
    BY <1>1, <1>2 DEF RowsMade
  <1>5. SearchIsOver' /\ StatusOK'
    BY <1>1, <1>2 DEF SearchIsOver, StatusOK, CrashesOnlyIfStreamsAreAbsent
  <1>6. QED
    BY <1>3, <1>4, <1>5 DEF IInv

\* The table when the row of source f has grown by q.
LEMMA RowGrows ==
    ASSUME IInv, NEW f \in Ingests, NEW q \in Queue \cup {NULL},
           Len(queues[f]) < numStreams(programs), \A g \in Ingests : searchEnded[g],
           status = "setup", status' = status,
           queues' = [queues EXCEPT ![f] = Append(queues[f], q)],
           UNCHANGED <<programs, ebps, found, searchEnded>>,
           Made(programs, ebps[f], Append(queues[f], q), f, Len(queues[f]) + 1)
    PROVE  IInv'
  <1>1. queues \in [Ingests -> Seq(Queue \cup {NULL})] /\ queues[f] \in Seq(Queue \cup {NULL})
    BY DEF IInv, SetupTypeOK
  <1>2. programs \in Infos /\ numStreams(programs) \in Nat
    BY ColumnsFacts DEF IInv, SetupTypeOK, Infos
  <1> DEFINE row == queues[f]
             longer == Append(row, q)
  <1>3. /\ longer \in Seq(Queue \cup {NULL}) /\ Len(longer) = Len(row) + 1 /\ Len(row) \in Nat
        /\ DOMAIN longer = DOMAIN row \cup {Len(row) + 1}
    BY <1>1
  <1>4. queues'[f] = longer /\ \A g \in Ingests \ {f} : queues'[g] = queues[g]
    BY <1>1
  <1> HIDE DEF longer
  <1>5. queues' \in [Ingests -> Seq(Queue \cup {NULL})]
    BY <1>1, <1>3 DEF longer
  <1>6. Len(longer) <= numStreams(programs)
    BY <1>2, <1>3
  <1>7. SetupTypeOK'
    BY <1>4, <1>5, <1>6 DEF IInv, SetupTypeOK
  <1>8. \A s \in DOMAIN row : Made(programs, ebps[f], row, f, s)
    BY DEF IInv, RowsMade
  <1>9. \A s \in DOMAIN longer : Made(programs, ebps[f], longer, f, s)
    <2>1. ASSUME NEW s \in DOMAIN row PROVE Made(programs, ebps[f], longer, f, s)
      BY <1>1, <1>2, <1>8, MadeKept DEF longer
    <2>2. Made(programs, ebps[f], longer, f, Len(row) + 1)
      BY DEF longer
    <2>3. QED
      BY <1>3, <2>1, <2>2
  <1>10. RowsMade'
    <2>1. SUFFICES ASSUME NEW g \in Ingests, NEW s \in DOMAIN queues'[g]
                   PROVE  Made(programs, ebps[g], queues'[g], g, s)
      BY DEF RowsMade
    <2>2. CASE g = f
      BY <1>4, <1>9, <2>2
    <2>3. CASE g # f
      BY <1>4, <2>3 DEF IInv, RowsMade
    <2>4. QED
      BY <2>2, <2>3
  <1>11. SearchIsOver' /\ StatusOK'
    BY DEF SearchIsOver, StatusOK, CrashesOnlyIfStreamsAreAbsent
  <1>12. QED
    BY <1>7, <1>10, <1>11 DEF IInv

\* The program stops: for a crash, some source lacks a stream.
LEMMA Stops ==
    ASSUME IInv, \A g \in Ingests : searchEnded[g], status' \in {"failed", "crashed"},
           UNCHANGED <<programs, ebps, found, searchEnded, queues>>,
           status' = "crashed" =>
               \E f \in Ingests : \E s \in Columns : PIDInColumn(programs, f, s) = NULL
    PROVE  IInv'
  <1>1. SetupTypeOK'
    BY DEF IInv, SetupTypeOK
  <1>2. RowsMade'
    BY DEF IInv, RowsMade
  <1>3. SearchIsOver' /\ StatusOK'
    BY DEF SearchIsOver, StatusOK, CrashesOnlyIfStreamsAreAbsent, Columns
  <1>4. QED
    BY <1>1, <1>2, <1>3 DEF IInv

LEMMA NoCrash ==
    ASSUME NEW infos \in Infos, NEW f \in Ingests, NEW es \in Seq(EBPs \cup {NULL}),
           DOMAIN es = DOMAIN infos[f], NEW s \in 1 .. numStreams(infos),
           NEW d \in DescriptorAt(infos[f], s), NEW e \in EBPAt(es, s), NEW type \in TypesAt(infos, s),
           Crashes(d, e, type)
    PROVE  \E g \in Ingests : \E t \in 1 .. numStreams(infos) : PIDInColumn(infos, g, t) = NULL
  <1> SUFFICES ASSUME \A g \in Ingests : \A t \in 1 .. numStreams(infos) : PIDInColumn(infos, g, t) # NULL
               PROVE  FALSE
    OBVIOUS
  <1>1. numStreams(infos) \in Nat
    BY ColumnsFacts
  <1>2. \A g \in Ingests : s \in DOMAIN infos[g]
    <2>1. SUFFICES ASSUME NEW g \in Ingests PROVE s \in DOMAIN infos[g]
      OBVIOUS
    <2>2. infos[g] \in Programs
      BY DEF Infos
    <2>3. numStreams(infos) <= Len(infos[g])
      BY EnoughStreams
    <2>4. Len(infos[g]) \in Nat /\ DOMAIN infos[g] = 1 .. Len(infos[g])
      BY <2>2, ProgramFacts
    <2>5. QED
      BY <1>1, <2>3, <2>4
  <1>3. d # Garbage /\ e # Garbage
    BY <1>2, Inputs
  <1>4. 1 \in Ingests
    BY IngestsFinite
  <1>5. infos[1] \in Programs /\ s \in DOMAIN infos[1]
    BY <1>2, <1>4 DEF Infos
  <1>6. type \in {"video", "audio"}
    BY <1>5, ProgramFacts DEF TypesAt
  <1>7. type # Garbage
    BY <1>6, SetupAssumption
  <1>8. QED
    BY <1>3, <1>7 DEF Crashes

LEMMA StepSetupQueue ==
    ASSUME IInv, NEW f \in Ingests, SetupQueue(f)
    PROVE  IInv'
  <1> DEFINE row == queues[f]
             s == Len(row) + 1
             PID == PIDInColumn(programs, f, s)
  <1>1. /\ programs \in Infos /\ row \in Seq(Queue \cup {NULL})
        /\ ebps[f] \in Seq(EBPs \cup {NULL}) /\ DOMAIN ebps[f] = DOMAIN programs[f]
    BY DEF IInv, SetupTypeOK, Infos
  <1>2. /\ status = "setup" /\ \A g \in Ingests : searchEnded[g]
        /\ Len(row) < numStreams(programs)
        /\ UNCHANGED <<programs, ebps, found, searchEnded>>
    BY DEF SetupQueue, InRow
  <1>3. s \in 1 .. numStreams(programs) /\ s \in Int
    BY <1>1, <1>2, ColumnsFacts
  <1>4. CASE PID = NULL
    <2>1. queues' = [queues EXCEPT ![f] = Append(row, NULL)] /\ status' = status
      BY <1>4 DEF SetupQueue
    <2>2. Append(row, NULL)[s] = NULL
      BY <1>1
    <2>3. Made(programs, ebps[f], Append(row, NULL), f, s)
      BY <1>4, <2>2 DEF Made
    <2>4. QED
      BY <1>2, <2>1, <2>3, RowGrows
  <1>5. CASE PID # NULL
    <2>1. PICK d \in DescriptorAt(programs[f], s), e \in EBPAt(ebps[f], s), type \in TypesAt(programs, s) :
            IF Crashes(d, e, type) THEN status' = "crashed" /\ UNCHANGED queues
            ELSE LET boundaries == modBoundaryInfoArray(programs, f, d, e, type, row)
                 IN  IF boundaries = FAILED THEN status' = "failed" /\ UNCHANGED queues
                     ELSE /\ queues' = [queues EXCEPT ![f] =
                                 Append(@, [PID |-> PID, boundaries |-> boundaries])]
                          /\ UNCHANGED status
      BY <1>5 DEF SetupQueue
    <2> DEFINE boundaries == modBoundaryInfoArray(programs, f, d, e, type, row)
               q == [PID |-> PID, boundaries |-> boundaries]
    <2>2. CASE Crashes(d, e, type)
      <3>1. \E g \in Ingests : \E t \in Columns : PIDInColumn(programs, g, t) = NULL
        BY <1>1, <1>3, <2>2, NoCrash DEF Columns
      <3>2. status' = "crashed" /\ UNCHANGED queues
        BY <2>1, <2>2
      <3>3. QED
        BY <1>2, <3>1, <3>2, Stops
    <2>3. CASE ~Crashes(d, e, type) /\ boundaries = FAILED
      <3>1. status' = "failed" /\ UNCHANGED queues
        BY <2>1, <2>3
      <3>2. QED
        BY <1>2, <3>1, Stops
    <2>4. CASE ~Crashes(d, e, type) /\ boundaries # FAILED
      <3>1. queues' = [queues EXCEPT ![f] = Append(row, q)] /\ status' = status
        BY <2>1, <2>4
      <3>2. boundaries \in [Partitions -> Boundary]
        BY <1>1, <2>4, ModType
      <3>3. PID \in Int
        BY <1>1, <1>3, <1>5, ColumnPlace
      <3> HIDE DEF boundaries, PID, s, row
      <3>4. q \in Queue /\ q.PID = PID /\ q.boundaries = boundaries
        BY <3>2, <3>3 DEF Queue
      <3> HIDE DEF q
      <3>5. Made(programs, ebps[f], Append(row, q), f, s)
        BY <1>1, <1>5, <2>4, <3>4, MadeNow DEF boundaries, PID, s
      <3>6. QED
        BY <1>2, <3>1, <3>4, <3>5, RowGrows DEF row, s
    <2>5. QED
      BY <2>2, <2>3, <2>4
  <1>6. QED
    BY <1>4, <1>5

LEMMA StepSetupDone ==
    ASSUME IInv, SetupDone
    PROVE  IInv'
  <1>1. SetupTypeOK'
    BY DEF IInv, SetupTypeOK, SetupDone
  <1>2. RowsMade'
    BY DEF IInv, RowsMade, SetupDone
  <1>3. SearchIsOver' /\ StatusOK'
    BY DEF SearchIsOver, StatusOK, CrashesOnlyIfStreamsAreAbsent, SetupDone
  <1>4. QED
    BY <1>1, <1>2, <1>3 DEF IInv

\* An entry that is NULL when the threads have ended is one of an absent stream.
LEMMA StepTeardown ==
    ASSUME IInv, teardownQueues
    PROVE  IInv'
  <1>1. /\ UNCHANGED <<programs, ebps, found, searchEnded, queues>> /\ status = "running"
        /\ status' = IF \E f \in Ingests : \E s \in DOMAIN queues[f] : queues[f][s] = NULL
                     THEN "crashed" ELSE "ended"
    BY DEF teardownQueues
  <1>2. \A f \in Ingests : Len(queues[f]) = numStreams(programs)
    BY <1>1 DEF IInv, StatusOK
  <1>3. SetupTypeOK'
    BY <1>1 DEF IInv, SetupTypeOK
  <1>4. RowsMade'
    BY <1>1 DEF IInv, RowsMade
  <1>5. SearchIsOver'
    BY <1>1 DEF IInv, SearchIsOver
  <1>6. ASSUME NEW f \in Ingests, NEW s \in DOMAIN queues[f], queues[f][s] = NULL
        PROVE  \E t \in 1 .. numStreams(programs) : PIDInColumn(programs, f, t) = NULL
    <2>1. Made(programs, ebps[f], queues[f], f, s)
      BY DEF IInv, RowsMade
    <2>2. PIDInColumn(programs, f, s) = NULL
      BY <1>6, <2>1, SetupAssumption DEF Made
    <2>3. queues[f] \in Seq(Queue \cup {NULL})
      BY DEF IInv, SetupTypeOK
    <2>4. s \in 1 .. numStreams(programs)
      BY <1>2, <2>3
    <2>5. QED
      BY <2>2, <2>4
  <1>7. StatusOK'
    BY <1>1, <1>2, <1>6 DEF StatusOK, CrashesOnlyIfStreamsAreAbsent, Columns
  <1>8. QED
    BY <1>3, <1>4, <1>5, <1>7 DEF IInv

\* The invariant is one.
THEOREM Invariance == SetupSpec => []IInv
  <1>1. IInv /\ [SetupNext]_setupVars => IInv'
    <2> SUFFICES ASSUME IInv, [SetupNext]_setupVars PROVE IInv'
      OBVIOUS
    <2>1. CASE UNCHANGED setupVars
      <3>1. UNCHANGED <<programs, ebps, found, searchEnded, queues, status>>
        BY <2>1 DEF setupVars
      <3>2. QED
        BY <3>1 DEF IInv, SetupTypeOK, RowsMade, SearchIsOver, StatusOK, CrashesOnlyIfStreamsAreAbsent, Columns
    <2>2. CASE SetupNext
      BY <2>2, StepPacket, StepSourceEnds, StepSetupQueue, StepSetupDone, StepTeardown DEF SetupNext
    <2>3. QED
      BY <2>1, <2>2
  <1>2. QED
    BY <1>1, Initially, PTL DEF SetupSpec

\* The state keeps its types: a row never has more queues than there are analysis
\* threads, and each queue the boundaries of every partition (setupQueues).
THEOREM TypesKept == SetupSpec => []SetupTypeOK
  <1>1. IInv => SetupTypeOK
    BY DEF IInv
  <1>2. QED
    BY <1>1, Invariance, PTL

-----------------------------------------------------------------------------
(* The streams are matched.                                                 *)

\* The queue of a column is that of its stream.
LEMMA QueueIs ==
    ASSUME IInv, NEW f \in Ingests, NEW s \in Columns, QueueAt(f, s)
    PROVE  /\ queues[f][s] \in Queue /\ queues[f][s].PID = PIDInColumn(programs, f, s)
           /\ PIDInColumn(programs, f, s) # NULL
           /\ PlaceOf(f, s) \in DOMAIN programs[f] /\ StreamOf(f, s).PID = queues[f][s].PID
           /\ \A j \in DOMAIN programs[f] : programs[f][j].PID = queues[f][s].PID => j = PlaceOf(f, s)
           /\ InColumn(programs, f, s, PlaceOf(f, s))
           /\ \E d \in DescriptorAt(programs[f], s), e \in EBPAt(ebps[f], s), type \in TypesAt(programs, s) :
                 /\ ~Crashes(d, e, type)
                 /\ queues[f][s].boundaries
                       = modBoundaryInfoArray(programs, f, d, e, type, Before(queues[f], s))
  <1> DEFINE PID == PIDInColumn(programs, f, s)
             q == queues[f][s]
  <1>1. programs \in Infos /\ s \in Int
    BY ColumnsFacts DEF IInv, SetupTypeOK, Infos, Columns
  <1>2. Made(programs, ebps[f], queues[f], f, s) /\ q # NULL
    BY DEF QueueAt, IInv, RowsMade
  <1>3. /\ PID # NULL /\ q \in Queue /\ q.PID = PID
        /\ \E d \in DescriptorAt(programs[f], s), e \in EBPAt(ebps[f], s), type \in TypesAt(programs, s) :
              /\ ~Crashes(d, e, type)
              /\ q.boundaries = modBoundaryInfoArray(programs, f, d, e, type, Before(queues[f], s))
    BY <1>2 DEF Made
  <1>4. PICK i \in DOMAIN programs[f] :
                 /\ programs[f][i].PID = PID /\ InColumn(programs, f, s, i)
                 /\ \A j \in DOMAIN programs[f] : programs[f][j].PID = PID => j = i
    BY <1>1, <1>3, ColumnPlace
  <1>5. PlaceOf(f, s) = i
    <2> HIDE DEF PID
    <2>1. \E j \in DOMAIN programs[f] : programs[f][j].PID = queues[f][s].PID
      BY <1>3, <1>4
    <2>2. PlaceOf(f, s) \in DOMAIN programs[f] /\ programs[f][PlaceOf(f, s)].PID = queues[f][s].PID
      BY <2>1 DEF PlaceOf
    <2>3. QED
      BY <1>3, <1>4, <2>2
  <1> HIDE DEF PID
  <1>6. StreamOf(f, s).PID = PID
    BY <1>4, <1>5 DEF StreamOf
  <1>7. QED
    BY <1>3, <1>4, <1>5, <1>6 DEF PID

\* When the threads run, there is a queue for each stream of a column.
LEMMA HasQueue ==
    ASSUME IInv, status = "running", NEW f \in Ingests, NEW s \in Columns,
           PIDInColumn(programs, f, s) # NULL
    PROVE  QueueAt(f, s) /\ queues[f][s].PID = PIDInColumn(programs, f, s)
  <1>1. Len(queues[f]) = numStreams(programs) /\ queues[f] \in Seq(Queue \cup {NULL})
    BY DEF IInv, StatusOK, SetupTypeOK
  <1>2. s \in DOMAIN queues[f]
    BY <1>1 DEF Columns
  <1>3. Made(programs, ebps[f], queues[f], f, s)
    BY <1>2 DEF IInv, RowsMade
  <1>4. queues[f][s] \in Queue /\ queues[f][s].PID = PIDInColumn(programs, f, s)
    BY <1>3 DEF Made
  <1>5. QED
    BY <1>2, <1>4, SetupAssumption DEF QueueAt

LEMMA OneStream == IInv => ColumnsAreOneStream
  <1> SUFFICES ASSUME IInv, NEW f \in Ingests, NEW g \in Ingests, NEW s \in Columns,
                      QueueAt(f, s), QueueAt(g, s)
               PROVE  \/ s = 1 /\ IsVideo(StreamOf(f, s)) /\ IsVideo(StreamOf(g, s))
                      \/ /\ s # 1 /\ IsAudio(StreamOf(f, s)) /\ IsAudio(StreamOf(g, s))
                         /\ IDOf(programs, StreamOf(f, s)) = IDOf(programs, StreamOf(g, s))
    BY DEF ColumnsAreOneStream
  <1>1. InColumn(programs, f, s, PlaceOf(f, s)) /\ InColumn(programs, g, s, PlaceOf(g, s))
    BY QueueIs
  <1>2. CASE s = 1
    <2>1. Videos(programs[f]) = {PlaceOf(f, s)} /\ Videos(programs[g]) = {PlaceOf(g, s)}
      BY <1>1, <1>2 DEF InColumn
    <2>2. PlaceOf(f, s) \in Videos(programs[f]) /\ PlaceOf(g, s) \in Videos(programs[g])
      BY <2>1, Zenon
    <2>3. QED
      BY <1>2, <2>2 DEF Videos, StreamOf
  <1>3. CASE s # 1
    <2>1. /\ PlaceOf(f, s) \in Audios(programs[f]) /\ PlaceOf(g, s) \in Audios(programs[g])
          /\ IDOf(programs, StreamOf(f, s)) = getUniqueAudioIDArray(programs)[s - 1]
          /\ IDOf(programs, StreamOf(g, s)) = getUniqueAudioIDArray(programs)[s - 1]
      BY <1>1, <1>3 DEF InColumn, StreamOf
    <2>2. QED
      BY <1>3, <2>1 DEF Audios, StreamOf
  <1>4. QED
    BY <1>2, <1>3

LEMMA StreamHasQueue ==
    ASSUME IInv, status = "running", NEW f \in Ingests, NEW i \in DOMAIN programs[f],
           IsAudio(programs[f][i]) \/ getVideoPID(programs[f]) # NULL
    PROVE  \E s \in Columns : /\ QueueAt(f, s) /\ queues[f][s].PID = programs[f][i].PID
                              /\ PIDInColumn(programs, f, s) = programs[f][i].PID
                              /\ PIDInColumn(programs, f, s) # NULL
  <1>1. programs \in Infos /\ programs[f] \in Programs
    BY DEF IInv, SetupTypeOK, Infos
  <1>2. PICK s \in Columns : PIDInColumn(programs, f, s) = programs[f][i].PID
    BY <1>1, StreamHasColumn DEF Columns
  <1>3. programs[f][i].PID # NULL
    BY <1>1, ProgramFacts, SetupAssumption
  <1>4. QED
    BY <1>2, <1>3, HasQueue

LEMMA OneQueue == IInv => EveryStreamHasOneQueue
  <1> SUFFICES ASSUME IInv, status = "running", NEW f \in Ingests, NEW i \in DOMAIN programs[f],
                      IsAudio(programs[f][i]) \/ getVideoPID(programs[f]) # NULL
               PROVE  \E s \in Columns :
                         /\ QueueAt(f, s) /\ queues[f][s].PID = programs[f][i].PID
                         /\ \A t \in Columns \ {s} :
                               QueueAt(f, t) => queues[f][t].PID # programs[f][i].PID
    BY DEF EveryStreamHasOneQueue
  <1>1. programs \in Infos
    BY DEF IInv, SetupTypeOK, Infos
  <1>2. PICK s \in Columns : /\ QueueAt(f, s) /\ queues[f][s].PID = programs[f][i].PID
                             /\ PIDInColumn(programs, f, s) = programs[f][i].PID
                             /\ PIDInColumn(programs, f, s) # NULL
    BY StreamHasQueue
  <1>3. ASSUME NEW t \in Columns \ {s}, QueueAt(f, t) PROVE queues[f][t].PID # programs[f][i].PID
    <2>1. queues[f][t].PID = PIDInColumn(programs, f, t)
      BY <1>3, QueueIs
    <2>2. PIDInColumn(programs, f, s) # PIDInColumn(programs, f, t)
      BY <1>1, <1>2, ColumnsDiffer DEF Columns
    <2>3. QED
      BY <1>2, <2>1, <2>2
  <1>4. QED
    BY <1>2, <1>3

\* The queues of an analysis thread carry the same stream of each source; when the
\* threads start every stream has one queue and not two; and the program crashes only
\* when a source lacks the stream of some thread (setupQueues, teardownQueues).
THEOREM Matched == SetupSpec => []StreamsAreMatched
  <1>1. IInv => StreamsAreMatched
    BY OneStream, OneQueue DEF IInv, StatusOK, StreamsAreMatched
  <1>2. QED
    BY <1>1, Invariance, PTL

-----------------------------------------------------------------------------
(* Boundaries are those of the stream.                                      *)

\* What a queue is tested for, by where it comes from.
ComesFrom(infos, f, d, e, row, boundaries) ==
    /\ d # NULL =>
          /\ \A p \in Partitions : boundaries[p] =
                IF p \notin DOMAIN d THEN NULL
                ELSE IF d[p] = Explicit THEN Explicit ELSE Follows(infos, f, d[p])
          /\ \A p \in DOMAIN d : d[p] # Explicit =>
                d[p] \in Int /\ SourceOfPID(infos, f, d[p]) \in Ingests
    /\ (d = NULL /\ e # NULL) =>
          \A p \in Partitions : boundaries[p] = IF p \in e THEN Explicit ELSE NULL
    /\ (d = NULL /\ e = NULL) =>
          /\ getVideoPID(infos[f]) # NULL
          /\ \A p \in Partitions : boundaries[p] =
                IF VideoBoundaries(row)[p] = NULL THEN NULL
                ELSE [file |-> f, PID |-> getVideoPID(infos[f])]

LEMMA BoundaryIs ==
    ASSUME NEW infos \in Infos, NEW f \in Ingests, NEW s, NEW es \in Seq(EBPs \cup {NULL}),
           NEW d \in DescriptorAt(infos[f], s), NEW e \in EBPAt(es, s), NEW type, NEW row,
           ~Crashes(d, e, type), NEW boundaries \in [Partitions -> Boundary],
           boundaries = modBoundaryInfoArray(infos, f, d, e, type, row)
    PROVE  ComesFrom(infos, f, d, e, row, boundaries)
  <1>1. boundaries # FAILED
    BY FailedIsNone
  <1>2. ASSUME d # NULL
        PROVE  /\ \A p \in Partitions : boundaries[p] =
                     IF p \notin DOMAIN d THEN NULL
                     ELSE IF d[p] = Explicit THEN Explicit ELSE Follows(infos, f, d[p])
               /\ \A p \in DOMAIN d : d[p] # Explicit =>
                     d[p] \in Int /\ SourceOfPID(infos, f, d[p]) \in Ingests
    <2>1. boundaries = OfDescriptor(infos, f, d)
      BY <1>2 DEF modBoundaryInfoArray
    <2>2. \A p \in DOMAIN d : d[p] \in Int \cup {Explicit}
      BY <1>2, Inputs DEF Crashes
    <2>3. OfDescriptor(infos, f, d) # FAILED
      BY <1>1, <2>1
    <2>4. QED
      BY <2>1, <2>2, <2>3, DescriptorGives
  <1>3. ASSUME d = NULL, e # NULL
        PROVE  \A p \in Partitions : boundaries[p] = IF p \in e THEN Explicit ELSE NULL
    BY <1>3, EBPGives DEF modBoundaryInfoArray
  <1>4. ASSUME d = NULL, e = NULL
        PROVE  /\ getVideoPID(infos[f]) # NULL
               /\ \A p \in Partitions : boundaries[p] =
                     IF VideoBoundaries(row)[p] = NULL THEN NULL
                     ELSE [file |-> f, PID |-> getVideoPID(infos[f])]
    <2>1. boundaries = OfVideo(infos, f, row) /\ getVideoPID(infos[f]) # NULL
      BY <1>1, <1>4 DEF modBoundaryInfoArray
    <2>2. \A p \in Partitions : OfVideo(infos, f, row)[p] =
                 IF VideoBoundaries(row)[p] = NULL THEN NULL
                 ELSE [file |-> f, PID |-> getVideoPID(infos[f])]
      BY <2>1, VideoGives, Zenon
    <2>3. QED
      BY <2>1, <2>2
  <1>5. QED
    BY <1>2, <1>3, <1>4 DEF ComesFrom

LEMMA Followed == IInv => FollowsATestedStream
  <1> SUFFICES ASSUME IInv, status = "running", NEW f \in Ingests, NEW s \in Columns, QueueAt(f, s),
                      NEW p \in Partitions, NEW b, b = queues[f][s].boundaries[p],
                      b \notin {NULL, Explicit}
               PROVE  /\ HasPID(programs[f], b.PID) => b.file = f
                      /\ (\A g \in Ingests : getVideoPID(programs[g]) # NULL) =>
                            \E t \in Columns : /\ QueueAt(b.file, t)
                                               /\ queues[b.file][t].PID = b.PID
    BY DEF FollowsATestedStream
  <1>1. programs \in Infos /\ ebps[f] \in Seq(EBPs \cup {NULL})
    BY DEF IInv, SetupTypeOK, Infos
  <1> DEFINE boundaries == queues[f][s].boundaries
             row == Before(queues[f], s)
  <1>2. PICK d \in DescriptorAt(programs[f], s), e \in EBPAt(ebps[f], s), type \in TypesAt(programs, s) :
                 /\ ~Crashes(d, e, type)
                 /\ boundaries = modBoundaryInfoArray(programs, f, d, e, type, row)
    BY QueueIs
  <1>3. boundaries \in [Partitions -> Boundary]
    BY QueueIs DEF Queue
  <1> HIDE DEF boundaries, row
  <1>4. /\ d # NULL =>
              /\ \A c \in Partitions : boundaries[c] =
                    IF c \notin DOMAIN d THEN NULL
                    ELSE IF d[c] = Explicit THEN Explicit ELSE Follows(programs, f, d[c])
              /\ \A c \in DOMAIN d : d[c] # Explicit =>
                    d[c] \in Int /\ SourceOfPID(programs, f, d[c]) \in Ingests
        /\ (d = NULL /\ e # NULL) =>
              \A c \in Partitions : boundaries[c] = IF c \in e THEN Explicit ELSE NULL
        /\ (d = NULL /\ e = NULL) =>
              /\ getVideoPID(programs[f]) # NULL
              /\ \A c \in Partitions : boundaries[c] =
                    IF VideoBoundaries(row)[c] = NULL THEN NULL
                    ELSE [file |-> f, PID |-> getVideoPID(programs[f])]
    <2>1. ComesFrom(programs, f, d, e, row, boundaries)
      BY <1>1, <1>2, <1>3, BoundaryIs
    <2>2. QED
      BY <2>1 DEF ComesFrom
  <1>5. b = boundaries[p]
    BY DEF boundaries
  <1>6. /\ b.file \in Ingests /\ HasPID(programs[b.file], b.PID)
        /\ HasPID(programs[f], b.PID) => b.file = f
    <2>1. CASE d # NULL
      <3>1. p \in DOMAIN d /\ d[p] # Explicit /\ b = Follows(programs, f, d[p])
        BY <1>4, <1>5, <2>1
      <3>2. b.file = SourceOfPID(programs, f, d[p]) /\ b.PID = d[p]
        BY <3>1 DEF Follows
      <3>3. SourceOfPID(programs, f, d[p]) \in Ingests
        BY <1>4, <2>1, <3>1
      <3>4. NULL \notin Ingests
        BY NoSource
      <3>5. QED
        BY <1>1, <3>2, <3>3, <3>4, SourceType
    <2>2. CASE d = NULL
      <3>1. b = [file |-> f, PID |-> getVideoPID(programs[f])] /\ getVideoPID(programs[f]) # NULL
        BY <1>4, <1>5, <2>2
      <3>2. PIDInColumn(programs, f, 1) = getVideoPID(programs[f])
        BY DEF PIDInColumn
      <3>3. \E i \in DOMAIN programs[f] : programs[f][i].PID = getVideoPID(programs[f])
        BY <1>1, <3>1, <3>2, ColumnPlace
      <3>4. QED
        BY <3>1, <3>3 DEF HasPID
    <2>3. QED
      BY <2>1, <2>2
  <1>7. ASSUME \A g \in Ingests : getVideoPID(programs[g]) # NULL
        PROVE  \E t \in Columns : QueueAt(b.file, t) /\ queues[b.file][t].PID = b.PID
    <2>1. PICK i \in DOMAIN programs[b.file] : programs[b.file][i].PID = b.PID
      BY <1>6 DEF HasPID
    <2>2. PICK g \in Ingests : g = b.file
      BY <1>6
    <2>3. \E t \in Columns : QueueAt(g, t) /\ queues[g][t].PID = programs[g][i].PID
      BY <1>7, <2>1, <2>2, StreamHasQueue
    <2>4. QED
      BY <2>1, <2>2, <2>3
  <1>8. QED
    BY <1>6, <1>7

\* Of a source that lists its streams in the order of the columns, the arrays are read
\* at the place of the stream.
LEMMA InPlace ==
    ASSUME IInv, NEW f \in Ingests, NEW s \in Columns, QueueAt(f, s),
           s \in DOMAIN programs[f], programs[f][s].PID = queues[f][s].PID
    PROVE  LET d == programs[f][s].descriptor
               e == ebps[f][s]
               b == queues[f][s].boundaries
           IN  /\ PlaceOf(f, s) = s
               /\ (d # NULL \/ e # NULL) =>
                     \A p \in Partitions :
                        /\ b[p] = IF StreamAnnounces(f, s, p)
                                  THEN IF d = NULL \/ d[p] = Explicit THEN Explicit
                                       ELSE Follows(programs, f, d[p])
                                  ELSE NULL
                        /\ b[p] # NULL <=> StreamAnnounces(f, s, p)
               /\ (d = NULL /\ e = NULL) =>
                     /\ getVideoPID(programs[f]) # NULL
                     /\ \A p \in Partitions :
                           /\ ~StreamAnnounces(f, s, p)
                           /\ b[p] = IF VideoBoundaries(Before(queues[f], s))[p] = NULL THEN NULL
                                     ELSE [file |-> f, PID |-> getVideoPID(programs[f])]
  <1> DEFINE b == queues[f][s].boundaries
             row == Before(queues[f], s)
  <1>1. /\ programs \in Infos /\ ebps[f] \in Seq(EBPs \cup {NULL})
        /\ DOMAIN ebps[f] = DOMAIN programs[f]
    BY DEF IInv, SetupTypeOK, Infos
  <1>2. PlaceOf(f, s) = s
    BY QueueIs
  <1>3. PICK d \in DescriptorAt(programs[f], s), e \in EBPAt(ebps[f], s), type \in TypesAt(programs, s) :
                 ~Crashes(d, e, type) /\ b = modBoundaryInfoArray(programs, f, d, e, type, row)
    BY QueueIs
  <1>4. b \in [Partitions -> Boundary]
    BY QueueIs DEF Queue
  <1>5. d = programs[f][s].descriptor /\ e = ebps[f][s]
    BY <1>1 DEF DescriptorAt, EBPAt
  <1> HIDE DEF b, row
  <1>6. /\ d # NULL =>
              /\ \A p \in Partitions : b[p] =
                    IF p \notin DOMAIN d THEN NULL
                    ELSE IF d[p] = Explicit THEN Explicit ELSE Follows(programs, f, d[p])
              /\ \A p \in DOMAIN d : d[p] # Explicit =>
                    d[p] \in Int /\ SourceOfPID(programs, f, d[p]) \in Ingests
        /\ (d = NULL /\ e # NULL) =>
              \A p \in Partitions : b[p] = IF p \in e THEN Explicit ELSE NULL
        /\ (d = NULL /\ e = NULL) =>
              /\ getVideoPID(programs[f]) # NULL
              /\ \A p \in Partitions : b[p] =
                    IF VideoBoundaries(row)[p] = NULL THEN NULL
                    ELSE [file |-> f, PID |-> getVideoPID(programs[f])]
    <2>1. ComesFrom(programs, f, d, e, row, b)
      BY <1>1, <1>3, <1>4, BoundaryIs
    <2>2. QED
      BY <2>1 DEF ComesFrom
  <1>7. \A p : StreamAnnounces(f, s, p) <=> IF d # NULL THEN p \in DOMAIN d ELSE e # NULL /\ p \in e
    BY <1>5 DEF StreamAnnounces
  <1>8. NULL # Explicit /\ NULL \notin [file : Ingests, PID : Int]
    BY SetupAssumption
  <1>9. ASSUME d # NULL, NEW p \in Partitions
        PROVE  /\ b[p] = IF StreamAnnounces(f, s, p)
                         THEN IF d = NULL \/ d[p] = Explicit THEN Explicit ELSE Follows(programs, f, d[p])
                         ELSE NULL
               /\ b[p] # NULL <=> StreamAnnounces(f, s, p)
    <2>1. ASSUME p \in DOMAIN d, d[p] # Explicit PROVE Follows(programs, f, d[p]) # NULL
      <3>1. d[p] \in Int /\ SourceOfPID(programs, f, d[p]) \in Ingests
        BY <1>6, <1>9, <2>1
      <3>2. Follows(programs, f, d[p]) \in [file : Ingests, PID : Int]
        BY <3>1 DEF Follows
      <3>3. QED
        BY <1>8, <3>2
    <2>2. QED
      BY <1>6, <1>7, <1>8, <1>9, <2>1
  <1>10. ASSUME d = NULL, e # NULL, NEW p \in Partitions
         PROVE  b[p] = (IF StreamAnnounces(f, s, p) THEN Explicit ELSE NULL) /\ (b[p] # NULL <=> StreamAnnounces(f, s, p))
    BY <1>6, <1>7, <1>8, <1>10
  <1>11. QED
    BY <1>2, <1>5, <1>6, <1>7, <1>9, <1>10 DEF b, row

LEMMA OwnBoundaries == IInv => BoundariesIfInOrder
  <1> SUFFICES ASSUME IInv, ListedInOrder, status = "running",
                      NEW f \in Ingests, NEW s \in Columns, QueueAt(f, s), NEW p \in Partitions
               PROVE  queues[f][s].boundaries[p] = OwnBoundary(f, PlaceOf(f, s), p)
    BY DEF BoundariesIfInOrder, BoundariesOfItsStream
  <1> DEFINE d == programs[f][s].descriptor
             e == ebps[f][s]
             b == queues[f][s].boundaries
             row == Before(queues[f], s)
  <1>1. \A t \in Columns : QueueAt(f, t) => t \in DOMAIN programs[f] /\ programs[f][t].PID = queues[f][t].PID
    BY DEF ListedInOrder
  <1>2. PlaceOf(f, s) = s
    BY <1>1, InPlace
  <1>3. CASE d # NULL \/ e # NULL
    <2>1. b[p] = IF StreamAnnounces(f, s, p)
                 THEN IF d = NULL \/ d[p] = Explicit THEN Explicit ELSE Follows(programs, f, d[p])
                 ELSE NULL
      BY <1>1, <1>3, InPlace
    <2>2. QED
      BY <1>2, <1>3, <2>1 DEF OwnBoundary
  <1>4. CASE d = NULL /\ e = NULL
    <2> DEFINE video == getVideoPID(programs[f])
    <2>1. /\ ~StreamAnnounces(f, s, p) /\ video # NULL
          /\ b[p] = IF VideoBoundaries(row)[p] = NULL THEN NULL ELSE [file |-> f, PID |-> video]
      BY <1>1, <1>4, InPlace
    <2>a. programs \in Infos
      BY DEF IInv, SetupTypeOK, Infos
    <2>b. numStreams(programs) \in Nat \ {0}
      BY <2>a, ColumnsFacts
    <2>2. programs \in Infos /\ 1 \in Columns
      BY <2>a, <2>b DEF Columns
    <2>3. PIDInColumn(programs, f, 1) = video
      BY DEF PIDInColumn
    <2>4. QueueAt(f, 1)
      BY <2>1, <2>2, <2>3, HasQueue
    <2>5. PlaceOf(f, 1) = 1 /\ InColumn(programs, f, 1, PlaceOf(f, 1))
      BY <1>1, <2>2, <2>4, InPlace, QueueIs
    <2>6. Videos(programs[f]) = {1}
      BY <2>5 DEF InColumn
    <2>7. (VideoBoundaries(row)[p] # NULL) <=> StreamAnnounces(f, 1, p)
      <3>1. VideoBoundaries(<<>>)[p] = NULL
        BY DEF VideoBoundaries
      <3>2. CASE s = 1
        <4>1. VideoBoundaries(row) = VideoBoundaries(<<>>)
          BY <3>2 DEF Before
        <4>2. QED
          BY <2>1, <3>1, <3>2, <4>1
      <3>3. CASE s # 1
        <4>1. queues[f] # <<>>
          BY DEF QueueAt
        <4>2. VideoBoundaries(row) = queues[f][1].boundaries
          BY <3>3, <4>1 DEF Before, VideoBoundaries
        <4>3. 1 \in DOMAIN programs[f] /\ programs[f][1].PID = queues[f][1].PID
          BY <1>1, <2>2, <2>4
        <4>4. CASE programs[f][1].descriptor # NULL \/ ebps[f][1] # NULL
          <5>1. \A c \in Partitions : (queues[f][1].boundaries[c] # NULL) <=> StreamAnnounces(f, 1, c)
            BY <2>2, <2>4, <4>3, <4>4, InPlace
          <5>2. QED
            BY <4>2, <5>1
        <4>5. CASE programs[f][1].descriptor = NULL /\ ebps[f][1] = NULL
          <5>1. /\ ~StreamAnnounces(f, 1, p)
                /\ queues[f][1].boundaries[p] =
                      IF VideoBoundaries(Before(queues[f], 1))[p] = NULL THEN NULL
                      ELSE [file |-> f, PID |-> video]
            BY <2>2, <2>4, <4>3, <4>5, InPlace
          <5>2. Before(queues[f], 1) = <<>>
            BY DEF Before
          <5>3. QED
            BY <3>1, <4>2, <5>1, <5>2
        <4>6. QED
          BY <4>4, <4>5
      <3>4. QED
        BY <3>2, <3>3
    <2>8. (\E v \in Videos(programs[f]) : StreamAnnounces(f, v, p)) <=> StreamAnnounces(f, 1, p)
      BY <2>6
    <2>9. OwnBoundary(f, s, p) = IF \E v \in Videos(programs[f]) : StreamAnnounces(f, v, p)
                                 THEN [file |-> f, PID |-> video] ELSE NULL
      BY <1>4, <2>1 DEF OwnBoundary
    <2> HIDE DEF d, e, row, video, b
    <2>10. b[p] = OwnBoundary(f, s, p)
      BY <2>1, <2>7, <2>8, <2>9
    <2>11. QED
      BY <1>2, <2>10 DEF b
  <1>5. QED
    BY <1>3, <1>4

\* When the threads start, a queue of a source that lists its streams in order is tested
\* for what its own stream announces; and what a boundary follows, in the source itself
\* if it is there, has a queue, so that the boundary can be met (setupQueues,
\* modBoundaryInfoArray).
THEOREM Boundaries == SetupSpec => []BoundariesAreOfTheStream
  <1>1. IInv => BoundariesAreOfTheStream
    BY OwnBoundaries, Followed DEF BoundariesAreOfTheStream
  <1>2. QED
    BY <1>1, Invariance, PTL
=============================================================================
