------------------------------- MODULE DList -------------------------------
(***************************************************************************)
(* The intrusive doubly linked list of src/common/dlist.c, on an explicit  *)
(* heap: h.next and h.prev link the nodes, h.tail is the first and h.head  *)
(* the last node of every list.  An operator takes the heap and returns    *)
(* the heap after the call, link by link as the code sets them.            *)
(***************************************************************************)
EXTENDS Integers, Sequences, FiniteSets

CONSTANTS Node, List, NULL,
          Compare(_, _)  \* the comparison function of the list that is sorted

EmptyHeap ==
    [next |-> [n \in Node |-> NULL], prev |-> [n \in Node |-> NULL],
     head |-> [l \in List |-> NULL], tail |-> [l \in List |-> NULL]]

\* a->next = b and b->prev = a, each only if its node exists.
Link(h, a, b) ==
    [h EXCEPT !.next = [n \in Node |-> IF n = a THEN b ELSE @[n]],
              !.prev = [n \in Node |-> IF n = b THEN a ELSE @[n]]]

dlist_init(h, l) == [h EXCEPT !.head[l] = NULL, !.tail[l] = NULL]

dlist_create_node(h, n) == [h EXCEPT !.next[n] = NULL, !.prev[n] = NULL]

dlist_add(h, l, n) ==
    [Link(h, h.head[l], n) EXCEPT
        !.tail[l] = IF h.head[l] = NULL THEN n ELSE @,
        !.next[n] = NULL,
        !.head[l] = n]

\* Mutant: the head is not updated.
dlist_remove_keeps_head(h, l, n) ==
    [Link(h, h.prev[n], h.next[n]) EXCEPT
        !.tail[l] = IF h.prev[n] = NULL THEN h.next[n] ELSE @]

dlist_remove(h, l, n) ==
    [Link(h, h.prev[n], h.next[n]) EXCEPT
        !.tail[l] = IF h.prev[n] = NULL THEN h.next[n] ELSE @,
        !.head[l] = IF h.next[n] = NULL THEN h.prev[n] ELSE @]

\* The nodes dlist_foreach visits, from the first along next.  The walk ends
\* after as many nodes as there are, so that it ends on a broken list too.
RECURSIVE Walk(_, _, _)
Walk(h, n, limit) ==
    IF n = NULL \/ limit = 0 THEN << >>
    ELSE <<n>> \o Walk(h, h.next[n], limit - 1)

Items(h, l) == Walk(h, h.tail[l], Cardinality(Node))

\* The first node of those that match, or NULL.
dlist_find(h, l, matching) ==
    LET found == SelectSeq(Items(h, l), LAMBDA n : n \in matching)
    IN IF found = << >> THEN NULL ELSE Head(found)

-----------------------------------------------------------------------------
(***************************************************************************)
(* dlist_sort: a merge sort on the links.  A segment is the part of a list *)
(* from s.tail to s.head; the links that lead out of it are stale while    *)
(* the sort runs.                                                          *)
(***************************************************************************)
RECURSIVE merge_segments(_, _, _, _, _)
RECURSIVE MergeSecond(_, _, _, _, _)
RECURSIVE Middle(_, _, _, _)
RECURSIVE dlist_sort_segment(_, _)

\* The nodes of the first segment up to one that is greater than node2.
merge_segments(h, s1, s2, node1, node2) ==
    IF Compare(node1, node2) <= 0
    THEN IF node1 = s1.head
         THEN Link(h, node1, node2)
         ELSE merge_segments(h, s1, s2, h.next[node1], node2)
    ELSE LET before == IF node1 = s1.tail THEN NULL ELSE h.prev[node1]
             linked == [h EXCEPT !.next = [n \in Node |-> IF n = before THEN node2 ELSE @[n]],
                                 !.prev[node2] = h.prev[node1]]
         IN MergeSecond(linked, s1, s2, node1, node2)

\* The nodes of the second segment up to one that is not less than node1.
MergeSecond(h, s1, s2, node1, node2) ==
    IF Compare(node2, node1) < 0
    THEN IF node2 = s2.head
         THEN Link(h, node2, node1)
         ELSE MergeSecond(h, s1, s2, node1, h.next[node2])
    ELSE merge_segments(Link(h, h.prev[node2], node1), s1, s2, node1, node2)

\* node2 moves two links for each link of node1.
Middle(h, s, node1, node2) ==
    IF node2 = s.head THEN node1
    ELSE IF h.next[node2] = s.head THEN h.next[node1]
    ELSE Middle(h, s, h.next[node1], h.next[h.next[node2]])

\* The heap and the segment after sorting segment s.
dlist_sort_segment(h, s) ==
    IF s.tail = s.head THEN [h |-> h, s |-> s]
    ELSE IF h.next[s.tail] = s.head
    THEN IF Compare(s.tail, s.head) > 0
         THEN [h |-> Link(h, s.head, s.tail), s |-> [tail |-> s.head, head |-> s.tail]]
         ELSE [h |-> h, s |-> s]
    ELSE LET middle == Middle(h, s, s.tail, s.tail)
             left   == dlist_sort_segment(h, [tail |-> s.tail, head |-> h.prev[middle]])
             right  == dlist_sort_segment(left.h, [tail |-> middle, head |-> s.head])
             joined == Link(right.h, left.s.head, right.s.tail)
         IN [h |-> merge_segments(joined, left.s, right.s, left.s.tail, right.s.tail),
             s |-> [tail |-> IF Compare(left.s.tail, right.s.tail) <= 0
                             THEN left.s.tail ELSE right.s.tail,
                    head |-> IF Compare(left.s.head, right.s.head) > 0
                             THEN left.s.head ELSE right.s.head]]

dlist_sort(h, l) ==
    IF h.head[l] = h.tail[l] THEN h
    ELSE LET sorted == dlist_sort_segment(h, [tail |-> h.tail[l], head |-> h.head[l]])
         IN [sorted.h EXCEPT !.head[l] = sorted.s.head, !.next[sorted.s.head] = NULL,
                             !.tail[l] = sorted.s.tail, !.prev[sorted.s.tail] = NULL]
=============================================================================
