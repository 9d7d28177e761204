------------------------------ MODULE BinHeap -------------------------------
(***************************************************************************)
(* The binary heap of libstructures: the first length cells of an array,   *)
(* each not above its children.  Capacity is left out: it grows as in      *)
(* varray.c.                                                               *)
(***************************************************************************)
EXTENDS Integers, Sequences

CONSTANTS
    Elem,         \* elements, integers as cmp_func orders them
    NULL,
    MaxHeap       \* bound: the most elements in the heap

VARIABLES
    heap,         \* the cells in use, by index from 0
    least         \* what the last removal returned

Cells == DOMAIN heap
length == Len(heap)

\* Cell idx, counted from 0 as in the code.
At(h, idx) == h[idx + 1]
Swap(h, i, j) == [h EXCEPT ![i + 1] = At(h, j), ![j + 1] = At(h, i)]

parent_idx(idx) == IF idx <= 0 THEN -1 ELSE (idx - 1) \div 2
lchild_idx(h, idx) == IF 2 * idx + 1 >= Len(h) THEN -1 ELSE 2 * idx + 1
rchild_idx(h, idx) == IF 2 * idx + 2 >= Len(h) THEN -1 ELSE 2 * idx + 2

RECURSIVE sift_up(_, _)
sift_up(h, idx) ==
    LET p == parent_idx(idx)
    IN IF p = -1 \/ At(h, p) <= At(h, idx) THEN h ELSE sift_up(Swap(h, p, idx), p)

\* Mutant: the left child goes up even when the right one is less.
LeftChild(h, idx) == lchild_idx(h, idx)

\* The child to compare with, the lesser of two, or -1.
LesserChild(h, idx) ==
    LET l == lchild_idx(h, idx)
        r == rchild_idx(h, idx)
    IN IF r # -1 /\ At(h, l) > At(h, r) THEN r ELSE l

RECURSIVE sift_down(_, _)
sift_down(h, idx) ==
    LET child == LesserChild(h, idx)
    IN IF child = -1 \/ At(h, idx) <= At(h, child) THEN h ELSE sift_down(Swap(h, idx, child), child)

binheap_insert(e) ==
    /\ length < MaxHeap
    /\ heap' = sift_up(Append(heap, e), length)
    /\ least' = NULL

binheap_remove_first ==
    IF length = 0 THEN least' = NULL /\ UNCHANGED heap
    ELSE LET last == [SubSeq(heap, 1, length - 1) EXCEPT ![1] = heap[length]]
         IN /\ least' = At(heap, 0)
            /\ heap' = IF length = 1 THEN <<>> ELSE sift_down(last, 0)

Init == heap = <<>> /\ least = NULL

Next == (\E e \in Elem : binheap_insert(e)) \/ binheap_remove_first

Count(h, e) == Len(SelectSeq(h, LAMBDA x : x = e))

\* Whatever was inserted and removed before, a removal gives one of the least elements and
\* leaves all the others, and an insertion adds its element and no other.
TakesOrGivesLeast ==
    \/ /\ Len(heap') = Len(heap) + 1
       /\ \E e \in Elem : \A x \in Elem : Count(heap', x) = Count(heap, x) + (IF x = e THEN 1 ELSE 0)
    \/ /\ heap # <<>>
       /\ \A i \in Cells : least' <= heap[i]
       /\ \A x \in Elem : Count(heap', x) = Count(heap, x) - (IF x = least' THEN 1 ELSE 0)
    \/ heap = <<>> /\ heap' = <<>>
=============================================================================
