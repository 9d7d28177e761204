------------------------------- MODULE VQArray ------------------------------
(***************************************************************************)
(* The growing array of libstructures that is cheap at both ends: the list *)
(* starts somewhere inside its memory, an insertion or removal in the      *)
(* first half moves the elements before it, and a full block is enlarged   *)
(* with the list put one block into it.                                    *)
(***************************************************************************)
EXTENDS Integers, Sequences, FiniteSets

CONSTANTS
    Elem,                  \* elements, integers as the compare functions order them
    NULL,                  \* the null pointer
    Junk,                  \* what a cell holds that nobody wrote
    MaxLength,             \* bound: the longest array
    vqarray_start_length,
    vqarray_block_length

VARIABLE arr

\* memmove: n cells from src to dst of the block a.
MemMove(a, dst, src, n) ==
    [k \in DOMAIN a |-> IF k \in dst .. dst + n - 1 THEN a[k - dst + src] ELSE a[k]]

\* realloc: cells the old block did not have hold anything.
Realloc(a, size) == [k \in 0 .. size - 1 |-> IF k \in DOMAIN a THEN a[k] ELSE Junk]

memlength(v) == Cardinality(DOMAIN v.array)

larger(a, b) == IF a > b THEN a ELSE b

\* A list further in than a block is moved back before the realloc, one nearer the start
\* after it.
vqarray_expand_to_length(v, n) ==
    LET toBlock(a, from) == MemMove(a, vqarray_block_length, from, v.length)
        far   == v.start > vqarray_block_length
        start == IF far THEN vqarray_block_length ELSE v.start
        size  == vqarray_block_length * (2 + (n + start + 1) \div vqarray_block_length)
        grown == Realloc(IF far THEN toBlock(v.array, v.start) ELSE v.array, size)
    IN IF memlength(v) >= n + v.start THEN v
       ELSE [v EXCEPT !.array = IF far THEN grown ELSE toBlock(grown, v.start),
                      !.start = vqarray_block_length]

Nothing == [array |-> <<>>, start |-> 0, length |-> 0]

vqarray_new == vqarray_expand_to_length(Nothing, vqarray_start_length)

vqarray_new_reserve(n) == vqarray_expand_to_length(Nothing, n)

vqarray_set(v, i, e) ==
    LET big == vqarray_expand_to_length(v, i + 1)
    IN IF i < 0 THEN v
       ELSE [big EXCEPT !.array[i + big.start] = e, !.length = larger(@, i + 1)]

\* Mutant: the elements in front of an insertion stay where they are.
vqarray_insert_keeps_front(v, i, e) ==
    LET n   == larger(v.length + 1, i + 1)
        big == vqarray_expand_to_length(v, n)
        s   == IF big.start > 0 /\ i < v.length \div 2 THEN big.start - 1 ELSE big.start
        moved == IF s = big.start THEN MemMove(big.array, i + 1 + s, i + s, v.length - i) ELSE big.array
    IN IF i < 0 THEN v ELSE [array |-> [moved EXCEPT ![i + s] = e], start |-> s, length |-> n]

vqarray_insert(v, i, e) ==
    LET n       == larger(v.length + 1, i + 1)
        big     == vqarray_expand_to_length(v, n)
        s       == big.start
        forward == [big EXCEPT !.array = MemMove(@, i + 1 + s, i + s, v.length - i)]
        backward == [big EXCEPT !.array = MemMove(@, s - 1, s, i), !.start = s - 1]
        moved   == IF s > 0 /\ i < v.length \div 2 THEN backward ELSE forward
    IN IF i < 0 THEN v
       ELSE [moved EXCEPT !.array[i + moved.start] = e, !.length = n]

vqarray_remove(v, i) ==
    LET s == v.start
        forward  == [v EXCEPT !.array = MemMove(@, s + 1, s, i), !.start = s + 1]
        backward == [v EXCEPT !.array = MemMove(@, i + s, i + 1 + s, v.length - (i + 1))]
        moved    == IF i < v.length \div 2 THEN forward ELSE backward
    IN IF i < 0 \/ i >= v.length THEN v ELSE [moved EXCEPT !.length = @ - 1]

INSTANCE ArrayOps WITH new <- vqarray_new, set <- vqarray_set, insert <- vqarray_insert, remove <- vqarray_remove

vqarray_insert_sorted(v, e) == vqarray_insert(v, binary_search(v, e) + 1, e)

\* An array in order is still in order after an element was put in its place, and has one more.
InsertsInOrder ==
    \A s \in [1 .. arr.length -> Elem], e \in Elem :
        LET t == Contents(vqarray_insert_sorted(sort(Filled(arr, s)), e))
        IN s # <<>> => Len(t) = Len(s) + 1 /\ \A k \in 1 .. Len(s) : t[k] <= t[k + 1]
=============================================================================
