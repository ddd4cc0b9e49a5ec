--------------------------------- MODULE List ---------------------------------
(***************************************************************************)
(* The circular doubly linked lists of include/lib/list.h.  `l` is a pair  *)
(* of functions over the nodes of memory, the next and the prev field of   *)
(* every list_head; a node that is not linked has Nil in both (the poison  *)
(* values of list.h are null pointers).  The operators are pure.           *)
(***************************************************************************)
EXTENDS Naturals, Sequences

CONSTANTS
  Node,   \* the list_heads: heads of lists and entries
  Nil     \* the null pointer

Links == [next : [Node -> Node \cup {Nil}], prev : [Node -> Node \cup {Nil}]]

Unlinked == [next |-> [n \in Node |-> Nil], prev |-> [n \in Node |-> Nil]]

(* INIT_LIST_HEAD: an empty list is a head that points to itself.          *)
InitHead(l, h) ==
  [next |-> [l.next EXCEPT ![h] = h], prev |-> [l.prev EXCEPT ![h] = h]]

(* __list_add: n goes between the neighbours p and q.                      *)
Between(l, n, p, q) ==
  [next |-> [l.next EXCEPT ![n] = q, ![p] = n],
   prev |-> [l.prev EXCEPT ![q] = n, ![n] = p]]

(* list_add: behind h.  list_add_tail: before h.                           *)
Add(l, n, h) == Between(l, n, h, l.next[h])
AddTail(l, n, h) == Between(l, n, l.prev[h], h)

(* __list_del: p and q become neighbours.                                  *)
Bypass(l, p, q) == [next |-> [l.next EXCEPT ![p] = q], prev |-> [l.prev EXCEPT ![q] = p]]

(* list_del: the entry leaves the list and its links are poisoned.         *)
Del(l, n) ==
  LET b == Bypass(l, l.prev[n], l.next[n])
  IN [next |-> [b.next EXCEPT ![n] = Nil], prev |-> [b.prev EXCEPT ![n] = Nil]]

(* The entries that list_for_each_entry visits from h until it is back.    *)
Entries(l, h) ==
  LET behind[n \in {n \in Node : l.next[n] # Nil}] ==
        IF l.next[n] = h THEN <<>> ELSE <<l.next[n]>> \o behind[l.next[n]]
  IN behind[h]
=============================================================================
