----------------------------- MODULE HashTable ------------------------------
(***************************************************************************)
(* The hash table of libstructures with its iterator: chains of entries in *)
(* a table whose length is the next prime of a list when the entries       *)
(* exceed the load limit.  The ingest threads keep the splice inserts they *)
(* have seen in one, by event id; they look a key up before they insert    *)
(* it.  malloc is taken to succeed.                                        *)
(***************************************************************************)
EXTENDS Integers, Sequences, FiniteSets, FiniteSetsExt

CONSTANTS
    Key, Val,
    None,               \* NULL, for a value and for an entry
    Hash,               \* hash(h, k): any number for each key
    primes,             \* the lengths of the table, one after the other
    LoadDivisor         \* the inverse of max_load_factor

ASSUME HashAssumption ==
    /\ None \notin Val
    /\ None \notin Key
    /\ Hash \in [Key -> Nat]
    /\ primes \in Seq(Nat \ {0})
    /\ primes # <<>>

VARIABLES
    table,              \* the chains, head first, by index from 0
    primeindex,         \* where the length of the table stands in primes
    entrycount,
    itr,                \* the iterator: its index, its entry e and the entry before it in the chain
    removed             \* what the last removal returned

hashVars == <<table, primeindex, entrycount, itr, removed>>

Entry == [k : Key, v : Val]

tablelength == primes[primeindex]

loadlimit == (tablelength + LoadDivisor - 1) \div LoadDivisor

indexFor(size, k) == Hash[k] % size

Chain(k) == table[indexFor(tablelength, k)]

\* The number of the entry with key k in a chain, or 0.
PlaceOf(chain, k) ==
    LET hits == {n \in DOMAIN chain : chain[n].k = k}
    IN IF hits = {} THEN 0 ELSE Min(hits)

SearchIn(chain, k) ==
    LET at == PlaceOf(chain, k)
    IN IF at = 0 THEN None ELSE chain[at].v

hashtable_search(k) == SearchIn(Chain(k), k)

\* The places of the entries of a table, and the order in which its loops go over them.
ChainPlaces(t) == UNION {{<<i, n>> : n \in DOMAIN t[i]} : i \in DOMAIN t}
At(t, x) == t[x[1]][x[2]]
NotAfter(x, y) == x[1] < y[1] \/ (x[1] = y[1] /\ x[2] <= y[2])

\* The entries at the places S, in that order.
ListedFrom(t, S) ==
    [r \in 1 .. Cardinality(S) |-> At(t, CHOOSE x \in S : Cardinality({y \in S : NotAfter(y, x)}) = r)]

\* Every entry, chain by chain: the order of get_key_array, foreach and the iterator.
TableEntries == ListedFrom(table, ChainPlaces(table))

hashtable_get_key_array == [i \in DOMAIN TableEntries |-> TableEntries[i].k]

PushFront(t, size, e) == [t EXCEPT ![indexFor(size, e.k)] = <<e>> \o @]

\* Entries move to the larger table one by one, each to the head of its new chain: there the
\* last to move comes first.
hashtable_expand(t, size) ==
    [i \in 0 .. size - 1 |->
        LET moved == ListedFrom(t, {x \in ChainPlaces(t) : indexFor(size, At(t, x).k) = i})
        IN [n \in DOMAIN moved |-> moved[Len(moved) + 1 - n]]]

Without(chain, at) == [n \in 1 .. Len(chain) - 1 |-> IF n < at THEN chain[n] ELSE chain[n + 1]]

NoEntry == None

Nowhere(size) == [index |-> size, e |-> NoEntry, parent |-> NoEntry]

hashtable_insert(k, v) ==
    LET full == entrycount + 1 > loadlimit /\ primeindex < Len(primes)
        next == IF full THEN primeindex + 1 ELSE primeindex
    IN /\ hashtable_search(k) = None
       /\ entrycount' = entrycount + 1
       /\ primeindex' = next
       /\ table' = PushFront(IF full THEN hashtable_expand(table, primes[next]) ELSE table, primes[next], [k |-> k, v |-> v])
       /\ itr' = Nowhere(primes[next])
       /\ removed' = None

hashtable_remove(k) ==
    LET at == PlaceOf(Chain(k), k)
    IN /\ removed' = hashtable_search(k)
       /\ IF at = 0 THEN UNCHANGED <<table, entrycount>>
          ELSE /\ table' = [table EXCEPT ![indexFor(tablelength, k)] = Without(@, at)]
               /\ entrycount' = entrycount - 1
       /\ itr' = Nowhere(tablelength)
       /\ UNCHANGED primeindex

\* The position at the first entry at or after index i, or past the table.
FirstFrom(t, size, i) ==
    LET used == {j \in i .. size - 1 : t[j] # <<>>}
    IN IF used = {} THEN Nowhere(size)
       ELSE [index |-> Min(used), e |-> t[Min(used)][1].k, parent |-> NoEntry]

hashtable_iterator_new ==
    /\ itr' = IF entrycount = 0 THEN Nowhere(tablelength) ELSE FirstFrom(table, tablelength, 0)
    /\ removed' = None
    /\ UNCHANGED <<table, primeindex, entrycount>>

\* Mutant: the search for the next chain begins before the index was increased.
AfterAgain(it, c, t, size) ==
    LET at == PlaceOf(c, it.e)
    IN IF at < Len(c) THEN [it EXCEPT !.parent = it.e, !.e = c[at + 1].k]
       ELSE FirstFrom(t, size, it.index)

\* The entry after e, which the chain c still links, or the next chain of the table t.
After(it, c, t, size) ==
    LET at == PlaceOf(c, it.e)
    IN IF at < Len(c) THEN [it EXCEPT !.parent = it.e, !.e = c[at + 1].k]
       ELSE FirstFrom(t, size, it.index + 1)

hashtable_iterator_advance ==
    /\ itr' = IF itr.e = NoEntry THEN itr ELSE After(itr, table[itr.index], table, tablelength)
    /\ removed' = None
    /\ UNCHANGED <<table, primeindex, entrycount>>

\* The parent after a removal: an entry that is gone gives way to the one before it.
Parent(it, moved) == IF moved.parent = it.e THEN it.parent ELSE moved.parent

\* The chain c when its entry at the iterator is unlinked from the parent, or from the table.
Unlinked(it, c) ==
    LET at    == PlaceOf(c, it.e)
        after == SubSeq(c, at + 1, Len(c))
        under == PlaceOf(c, it.parent)
    IN IF it.parent = NoEntry THEN after
       ELSE IF under = 0 THEN c            \* a parent that is gone links nothing
       ELSE SubSeq(c, 1, under) \o after

\* The entry is unlinked, the iterator advances from it, and a parent that was that entry
\* becomes the old parent again.
hashtable_iterator_remove ==
    LET c     == table[itr.index]
        moved == After(itr, c, table', tablelength)
    IN /\ itr.e # NoEntry
       /\ table' = [table EXCEPT ![itr.index] = Unlinked(itr, c)]
       /\ entrycount' = entrycount - 1
       /\ itr' = [moved EXCEPT !.parent = Parent(itr, moved)]
       /\ removed' = None
       /\ UNCHANGED primeindex

hashtable_iterator_search(k) ==
    LET at == PlaceOf(Chain(k), k)
    IN /\ itr' = IF at = 0 THEN itr
                 ELSE [index |-> indexFor(tablelength, k), e |-> k,
                       parent |-> IF at = 1 THEN NoEntry ELSE Chain(k)[at - 1].k]
       /\ removed' = None
       /\ UNCHANGED <<table, primeindex, entrycount>>

HashInit ==
    /\ primeindex = 1
    /\ table = [i \in 0 .. tablelength - 1 |-> <<>>]
    /\ entrycount = 0
    /\ itr = Nowhere(tablelength)
    /\ removed = None

HashNext ==
    \/ \E k \in Key, v \in Val : hashtable_insert(k, v)
    \/ \E k \in Key : hashtable_remove(k) \/ hashtable_iterator_search(k)
    \/ hashtable_iterator_new
    \/ hashtable_iterator_advance
    \/ hashtable_iterator_remove

HashSpec == HashInit /\ [][HashNext]_hashVars

(***************************************************************************)
(* The table as a map.                                                     *)
(***************************************************************************)
KeysOf(chain) == {chain[n].k : n \in DOMAIN chain}

\* The keys from index i on, and those from the iterator's entry on.
KeysFrom(t, size, i) == UNION {KeysOf(t[j]) : j \in i .. size - 1}
AheadOf(it, t, size) ==
    IF it.e = NoEntry THEN {}
    ELSE LET c == t[it.index]
         IN {c[n].k : n \in PlaceOf(c, it.e) .. Len(c)} \cup KeysFrom(t, size, it.index + 1)

Map == INSTANCE AbstractMap WITH Value <- Val, NULL <- None, dict <- [k \in Key |-> hashtable_search(k)],
                                 taken <- removed, ahead <- AheadOf(itr, table, tablelength)

\* The array of keys has each key of the map once, and the room that entrycount says.
KeysListed ==
    LET keys == hashtable_get_key_array
    IN /\ {keys[i] : i \in DOMAIN keys} = Map!Present
       /\ \A i, j \in DOMAIN keys : keys[i] = keys[j] => i = j
       /\ Len(keys) = entrycount

\* Chains, load limit, moves to a larger table and removals in the middle of an iteration
\* never lose, double or revive a key, and an iteration that removes entries as it goes
\* still meets every one of the others exactly once.
TableIsMap == Map!Spec /\ []KeysListed
=============================================================================
