------------------------------ MODULE ArrayOps ------------------------------
(***************************************************************************)
(* The operations of a growing array that its library writes in terms of   *)
(* get, set, insert and remove.  varray.c and vqarray.c hold the same text *)
(* twice; here it stands once, over the four operations.                   *)
(***************************************************************************)
EXTENDS Integers, Sequences, FiniteSets, SequencesExt

CONSTANTS
    Elem,               \* elements, integers as the compare functions order them
    NULL,               \* the null pointer
    Junk,               \* what a cell holds that nobody wrote
    MaxLength,          \* bound: the longest array
    new,                \* an empty array
    set(_, _, _),
    insert(_, _, _),
    remove(_, _)

VARIABLE arr            \* the array: its memory, the cell of its first element, its length

Larger(a, b) == IF a > b THEN a ELSE b

length(v) == v.length

get(v, i) == IF i < 0 \/ i >= v.length THEN NULL ELSE v.array[i + v.start]

Contents(v) == [k \in 1 .. v.length |-> get(v, k - 1)]

clear(v) == [v EXCEPT !.length = 0]

add(v, e) == set(v, length(v), e)

push(v, e) == insert(v, length(v), e)

\* A pop or a shift leaves the list and gives the element.
pop(v) == [v |-> remove(v, length(v) - 1), e |-> get(v, length(v) - 1)]

unshift(v, e) == insert(v, 0, e)

shift(v) == [v |-> remove(v, 0), e |-> get(v, 0)]

add_array(v, s) == FoldLeft(add, v, s)

new_from_array(s) == add_array(new, s)

\* The range [start, start + len) after a negative start or length is cut away.
RangeStart(start) == Larger(start, 0)
RangeLen(start, len) == Larger(IF start < 0 THEN len + start ELSE len, 0)

get_range(v, start, len) ==
    LET from == RangeStart(start)
        n    == RangeLen(start, len)
        fit  == IF from + n > length(v) THEN length(v) - from ELSE n
    IN add_array(new, [k \in 1 .. fit |-> get(v, from + k - 1)])

copy(v) == get_range(v, 0, length(v))

insert_range(v, start, len, v2) ==
    LET n == RangeLen(start, len)
        fit == IF n > length(v2) THEN length(v2) ELSE n
    IN FoldLeft(LAMBDA w, k : insert(w, RangeStart(start) + k - 1, get(v2, k - 1)),
                v, [k \in 1 .. fit |-> k])

remove_range(v, start, len) ==
    FoldLeft(LAMBDA w, k : remove(w, RangeStart(start)), v,
             [k \in 1 .. RangeLen(start, len) |-> k])

set_range(v, start, len, v2) ==
    insert_range(remove_range(v, start, len), start, len, v2)

add_all(v, v2) == insert_range(v, length(v), length(v2), v2)

to_array(v) == [k \in 0 .. length(v) - 1 |-> get(v, k)]

\* The first and the last index whose element the caller's predicate accepts, or -1: "same"
\* are the elements it accepts.
index_of(v, same) == SelectInSeq(Contents(v), LAMBDA x : x \in same) - 1

last_index_of(v, same) == SelectLastInSeq(Contents(v), LAMBDA x : x \in same) - 1

\* The halving loop: the element looked for is at lo or between lo and hi.
RECURSIVE Halve(_, _, _, _)
Halve(v, e, lo, hi) ==
    LET ndx == (hi - lo) \div 2 + lo
        low == IF get(v, ndx) < e THEN ndx ELSE lo
        high == IF get(v, ndx) < e THEN hi ELSE ndx
    IN IF get(v, ndx) = e THEN ndx
       ELSE IF high - low <= 1 THEN low ELSE Halve(v, e, low, high)

binary_search(v, e) ==
    LET hi == length(v) - 1
    IN IF hi < 0 \/ e < get(v, 0) THEN -1
       ELSE IF e >= get(v, hi) THEN hi
       ELSE Halve(v, e, 0, hi)

\* The inner loop of the heap sort: tmp sinks from the hole at parent to its place among
\* the first n elements.
RECURSIVE Sink(_, _, _, _)
Sink(a, n, parent, tmp) ==
    LET left  == 2 * parent + 1
        child == IF left + 1 < n /\ a[left + 1] > a[left] THEN left + 1 ELSE left
    IN IF left < n /\ a[child] > tmp THEN Sink([a EXCEPT ![parent] = a[child]], n, child, tmp)
       ELSE [a EXCEPT ![parent] = tmp]

\* The array must have an element: an empty one is never left, n is decremented past 0.
sort(v) ==
    LET n       == v.length
        cells   == [k \in 0 .. n - 1 |-> v.array[k + v.start]]
        heap    == FoldRight(LAMBDA i, a : Sink(a, n, i - 1, a[i - 1]), [i \in 1 .. n \div 2 |-> i], cells)
        sorted  == FoldRight(LAMBDA k, a : Sink([a EXCEPT ![k] = a[0]], k, 0, a[k]),
                             [k \in 1 .. n - 1 |-> k], heap)
    IN [v EXCEPT !.array = [k \in DOMAIN @ |-> IF k - v.start \in 0 .. n - 1 THEN sorted[k - v.start] ELSE @[k]]]

grep(v, wanted) == add_array(new, SelectSeq(Contents(v), LAMBDA x : x \in wanted))

\* An element that maps to NULL is left out.
map(v, image) ==
    add_array(new, SelectSeq([k \in 1 .. length(v) |-> image[get(v, k - 1)]], LAMBDA e : e # NULL))

(***************************************************************************)
(* The iterator: an index that stands on an element, before the first or   *)
(* after the last.                                                         *)
(***************************************************************************)
iterator_new == -1

iterator_next(v, i) == IF i < length(v) THEN i + 1 ELSE i

iterator_previous(i) == IF i >= 0 THEN i - 1 ELSE i

iterator_has_next(v, i) == i >= -1 /\ i < length(v) - 1

iterator_has_previous(v, i) == i > 0 /\ i <= length(v)

(***************************************************************************)
(* An owner of the array calls its operations in any order.  Where an      *)
(* operation puts things depends on the places in use and never on the     *)
(* elements, so this walk through the layouts fills them with Junk; the    *)
(* promises below fill each layout with the elements that can tell.        *)
(***************************************************************************)
Init == arr = new

Becomes(v) == v.length <= MaxLength /\ arr' = v

Indices == -1 .. MaxLength

Set == \E i \in Indices : Becomes(set(arr, i, Junk))
Insert == \E i \in Indices : Becomes(insert(arr, i, Junk))
RemoveOne == \E i \in Indices : Becomes(remove(arr, i))
Clear == Becomes(clear(arr))
InsertRange == \E start, len \in Indices, n \in 0 .. 2 :
                  Becomes(insert_range(arr, start, len, new_from_array([k \in 1 .. n |-> Junk])))
RemoveRange == \E start, len \in Indices : Becomes(remove_range(arr, start, len))
SetRange == \E start, len \in Indices, n \in 0 .. 2 :
               Becomes(set_range(arr, start, len, new_from_array([k \in 1 .. n |-> Junk])))

Next == Set \/ Insert \/ RemoveOne \/ Clear \/ InsertRange \/ RemoveRange \/ SetRange

Spec == Init /\ [][Next]_arr

(***************************************************************************)
(* What the operations promise, over the list of elements.                 *)
(***************************************************************************)
Agrees(v, s) == Contents(v) = s

\* The elements [from, to) of s, counted from 0, or as many of them as there are.
Slice(s, from, to) == SubSeq(s, from + 1, IF to > Len(s) THEN Len(s) ELSE to)

\* The elements from index i on move up to make place for t.
Opened(s, i, t) == Slice(s, 0, i) \o t \o Slice(s, i, Len(s))

\* The layout with the elements of s in its list.
Filled(v, s) == [v EXCEPT !.array = [k \in DOMAIN @ |-> IF k - v.start \in 0 .. v.length - 1
                                                        THEN s[k - v.start + 1] ELSE Junk]]

\* In whatever place of its memory the list has got to, every operation changes it as if it
\* were nothing but a sequence.  Elements are put into the list or at its end: between the end
\* and an element that is put behind it lies what the memory held, although the comments of set
\* and insert promise "NULL" (varray.c:88 and 104, vqarray.c:100).
ArrayIsList ==
    LET s == [k \in 1 .. arr.length |-> k]
        v == Filled(arr, s)
        e == 0
        Put(i) == IF i < Len(s) THEN [s EXCEPT ![i + 1] = e] ELSE Append(s, e)
    IN /\ \A i \in Indices :
             /\ i <= Len(s) => /\ Agrees(set(v, i, e), IF i < 0 THEN s ELSE Put(i))
                               /\ Agrees(insert(v, i, e), IF i < 0 THEN s ELSE Opened(s, i, <<e>>))
             /\ Agrees(remove(v, i), IF i \in 0 .. Len(s) - 1 THEN RemoveAt(s, i + 1) ELSE s)
       /\ Agrees(add(v, e), Append(s, e)) /\ Agrees(push(v, e), Append(s, e)) /\ Agrees(unshift(v, e), <<e>> \o s)
       /\ s # <<>> => /\ pop(v).e = Last(s) /\ Agrees(pop(v).v, Front(s))
                      /\ shift(v).e = Head(s) /\ Agrees(shift(v).v, Tail(s))
       /\ \A start, n \in Indices :
             LET from == RangeStart(start)
                 to   == from + RangeLen(start, n)
                 cut  == Slice(s, 0, from) \o Slice(s, to, Len(s))
             IN /\ Agrees(get_range(v, start, n), Slice(s, from, to))
                /\ Agrees(remove_range(v, start, n), cut)
                /\ \A t \in {<<>>, <<e>>, <<e, -1>>} :
                      LET Opens(u) == IF to = from \/ t = <<>> THEN u ELSE Opened(u, from, Slice(t, 0, to - from))
                      IN from <= Len(s) =>
                            /\ Agrees(insert_range(v, start, n, new_from_array(t)), Opens(s))
                            /\ Agrees(set_range(v, start, n, new_from_array(t)), Opens(cut))
       /\ Agrees(add_all(v, v), s \o s)

\* Sorting keeps the elements and orders them.  Searching the sorted array finds an element
\* that is there, and otherwise the last one below it.
SortsAndFinds ==
    \A s \in [1 .. arr.length -> Elem] :
        LET sorted == sort(Filled(arr, s))
            t == Contents(sorted)
            Times(u, e) == Cardinality({k \in DOMAIN u : u[k] = e})
            Fits(e, at) == \/ at >= 0 /\ t[at + 1] = e
                           \/ /\ \A k \in 1 .. at + 1 : t[k] < e
                              /\ \A k \in at + 2 .. Len(t) : e < t[k]
        IN s # <<>> => /\ \A e \in Elem : Times(t, e) = Times(s, e) /\ Fits(e, binary_search(sorted, e))
                       /\ \A k \in 1 .. Len(t) - 1 : t[k] <= t[k + 1]

\* The lookups and copies of an array, against the list, and an iterator that goes through
\* the array and back.
LookupsAgree ==
    \A s \in [1 .. arr.length -> Elem] :
        LET v == Filled(arr, s)
            n == arr.length
            Seen(F(_), at) == FoldLeft(LAMBDA it, k : F(it), at, [k \in 1 .. n + 1 |-> k])
        IN /\ copy(v).length = n /\ Contents(copy(v)) = s
           /\ \A k \in 0 .. n - 1 : to_array(v)[k] = s[k + 1]
           /\ \A e \in Elem :
                 LET first == index_of(v, {e})
                     last  == last_index_of(v, {e})
                 IN /\ Contents(grep(v, {e})) = SelectSeq(s, LAMBDA x : x = e)
                    /\ Contents(map(v, [x \in Elem |-> IF x = e THEN NULL ELSE x])) =
                           SelectSeq(s, LAMBDA x : x # e)
                    /\ (first = -1) <=> e \notin ToSet(s)
                    /\ first # -1 => s[first + 1] = e /\ s[last + 1] = e /\ first <= last
           /\ Seen(LAMBDA it : iterator_next(v, it), iterator_new) = n
           /\ Seen(iterator_previous, n) = iterator_new
           /\ \A it \in -1 .. n : /\ iterator_has_next(v, it) => get(v, iterator_next(v, it)) = s[it + 2]
                                  /\ iterator_has_previous(v, it) => get(v, iterator_previous(it)) = s[it]
=============================================================================
