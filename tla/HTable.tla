------------------------------- MODULE HTable -------------------------------
(***************************************************************************)
(* The hash table of src/common/htable.c: an array of dlist buckets.  The  *)
(* bucket of a node is computed once and kept in the node (h.bucket).      *)
(***************************************************************************)
EXTENDS DList

EmptyTable ==
    [next |-> EmptyHeap.next, prev |-> EmptyHeap.prev,
     head |-> EmptyHeap.head, tail |-> EmptyHeap.tail,
     bucket |-> [n \in Node |-> NULL]]

htable_create_node(h, n) == [dlist_create_node(h, n) EXCEPT !.bucket[n] = NULL]

\* hash is what do_calc_hash returns for the node, taken modulo the size.
get_bucket(h, n, hash) == [h EXCEPT !.bucket[n] = IF @ = NULL THEN hash ELSE @]

\* The first of the nodes that match n; get_bucket must have placed n.
htable_find(h, n, matching) == dlist_find(h, h.bucket[n], matching)

htable_remove_node(h, n) ==
    IF h.bucket[n] = NULL THEN h ELSE dlist_remove(h, h.bucket[n], n)

htable_store(h, n, matching) ==
    LET old == htable_find(h, n, matching)
    IN dlist_add(IF old = NULL THEN h ELSE dlist_remove(h, h.bucket[n], old),
                 h.bucket[n], n)
=============================================================================
