------------------------------- MODULE VArray -------------------------------
(***************************************************************************)
(* The growing array of libstructures: a block of memory, of which the     *)
(* first length cells are the list.  Memory that realloc added holds       *)
(* whatever was there, and so do the cells a shrunken list leaves behind.  *)
(***************************************************************************)
EXTENDS Integers, Sequences, FiniteSets

CONSTANTS
    Elem,                  \* elements, integers as the compare functions order them
    NULL,                  \* the null pointer
    Junk,                  \* what a cell holds that nobody wrote
    MaxLength,             \* bound: the longest array
    varray_start_length,
    varray_block_length

VARIABLE arr

\* memmove: n cells from src to dst of the block a.
MemMove(a, dst, src, n) ==
    [k \in DOMAIN a |-> IF k \in dst .. dst + n - 1 THEN a[k - dst + src] ELSE a[k]]

\* realloc: cells the old block did not have hold anything.
Realloc(a, size) == [k \in 0 .. size - 1 |-> IF k \in DOMAIN a THEN a[k] ELSE Junk]

memlength(v) == Cardinality(DOMAIN v.array)

larger(a, b) == IF a > b THEN a ELSE b

varray_expand_to_length(v, n) ==
    LET old == memlength(v)
        size ==
          IF n <= varray_start_length THEN varray_start_length
          ELSE IF n < varray_block_length /\ n < 2 * old THEN 2 * old
          ELSE varray_block_length * (1 + (n + 1) \div varray_block_length)
    IN IF old >= n THEN v ELSE [v EXCEPT !.array = Realloc(v.array, size)]

varray_new == varray_expand_to_length([array |-> <<>>, start |-> 0, length |-> 0], varray_start_length)

varray_set(v, i, e) ==
    LET big == varray_expand_to_length(v, i + 1)
    IN IF i < 0 THEN v
       ELSE [big EXCEPT !.array[i] = e, !.length = larger(@, i + 1)]

varray_insert(v, i, e) ==
    LET n   == larger(v.length + 1, i + 1)
        big == varray_expand_to_length(v, n)
    IN IF i < 0 THEN v
       ELSE [big EXCEPT !.array = [MemMove(@, i + 1, i, v.length - i) EXCEPT ![i] = e], !.length = n]

varray_remove(v, i) ==
    IF i < 0 \/ i >= v.length THEN v
    ELSE [v EXCEPT !.array = MemMove(@, i, i + 1, v.length - (i + 1)), !.length = @ - 1]

INSTANCE ArrayOps WITH new <- varray_new, set <- varray_set, insert <- varray_insert, remove <- varray_remove
=============================================================================
