--------------------------- MODULE IntrusiveList ---------------------------
(***************************************************************************)
(* The doubly-linked lists of src/fusion_os/common/list.c, at the level of *)
(* their pointers.  A node is the list_node_t embedded in its owner (a     *)
(* task slot); the node's next and prev fields are shared by every list    *)
(* the node is ever put on, exactly as in the code, where one task_list    *)
(* node serves the ready, blocked and sleeping queues.                     *)
(*                                                                         *)
(* The operators are pure: they take a heap record                         *)
(*     [next |-> node -> node or Nil, prev |-> ..., lists |-> name -> L]   *)
(* with L == [head, tail, count], and return the heap after the call.      *)
(***************************************************************************)
EXTENDS Integers, Sequences

CONSTANT Nil   \* NULL

\* list_init
EmptyList == [head |-> Nil, tail |-> Nil, count |-> 0]

\* list_is_empty: a list is empty when its counter says so, whatever its
\* head and tail pointers hold.
ListIsEmpty(h, l) == h.lists[l].count = 0

\* list_add_tail(list, node)
ListAddTail(h, l, n) ==
  LET L == h.lists[l]
  IN  IF ListIsEmpty(h, l)
      THEN [h EXCEPT !.lists[l] = [head |-> n, tail |-> n, count |-> L.count + 1],
                     !.next[n] = Nil, !.prev[n] = Nil]
      ELSE [h EXCEPT !.next = [@ EXCEPT ![L.tail] = n, ![n] = Nil],
                     !.prev[n] = L.tail,
                     !.lists[l] = [L EXCEPT !.tail = n, !.count = @ + 1]]

(***************************************************************************)
(* list_remove(list, node): no check that the node is on this list.  The  *)
(* two halves run in the code's order, the second reading the node's       *)
(* fields after the first has written through them (they differ only when  *)
(* a node points at itself).                                               *)
(***************************************************************************)
ListRemove(h, l, n) ==
  IF n = Nil \/ ListIsEmpty(h, l) THEN h
  ELSE LET p  == h.prev[n]
           h1 == IF p # Nil THEN [h EXCEPT !.next[p] = h.next[n]]
                 ELSE [h EXCEPT !.lists[l].head = h.next[n]]
           q  == h1.next[n]
           h2 == IF q # Nil THEN [h1 EXCEPT !.prev[q] = h1.prev[n]]
                 ELSE [h1 EXCEPT !.lists[l].tail = h1.prev[n]]
       IN  [h2 EXCEPT !.lists[l].count = @ - 1]

(***************************************************************************)
(* The nodes met walking a list from its head along next, at most bound    *)
(* steps (a corrupted list may be cyclic).                                 *)
(***************************************************************************)
RECURSIVE WalkFrom(_, _, _)
WalkFrom(h, n, bound) ==
  IF n = Nil \/ bound = 0 THEN <<>>
  ELSE <<n>> \o WalkFrom(h, h.next[n], bound - 1)
=============================================================================
