------------------------------ MODULE PrioQueue ------------------------------
(***************************************************************************)
(* The kernel's intrusive priority queue (src/lib/include/queue.h).        *)
(*                                                                         *)
(* The C queue is a circular doubly linked list through a link embedded in *)
(* the element.  A queue is modelled by the sequence of its elements from  *)
(* head->next to head->prev.  The priority field the macro reads through   *)
(* the element is the function key.  Elements are kept in ascending order  *)
(* from the head, and the element served is the last one.                  *)
(***************************************************************************)
EXTENDS Integers, SequencesExt

(* Two errors in the walk: it does not start, or goes past its equals.     *)
LinkPosFront(q, p, key) == 1

LinkPosPast(q, p, key) ==
  CHOOSE k \in 1 .. Len(q) + 1 :
     /\ \A i \in 1 .. k - 1 : key[q[i]] <= key[p]
     /\ k <= Len(q) => key[q[k]] > key[p]

(***************************************************************************)
(* The position queue_add gives a new element: the loop walks from the     *)
(* head while the elements have a strictly smaller priority.  A newcomer   *)
(* therefore goes in front of its equals, and is served after them.        *)
(***************************************************************************)
LinkPos(q, p, key) ==
  CHOOSE k \in 1 .. Len(q) + 1 :
     /\ \A i \in 1 .. k - 1 : key[q[i]] < key[p]
     /\ k <= Len(q) => key[q[k]] >= key[p]

QueueAdd(q, p, key) == InsertAt(q, LinkPos(q, p, key), p)

(* queue_top and queue_out: the element at the tail, of highest priority.  *)
QueueTop(q) == Last(q)
QueueOut(q) == Front(q)

(* x is linked in q.                                                       *)
Has(q, x) == \E i \in DOMAIN q : q[i] = x

(* queue_del for an element that is linked in q, nothing otherwise.        *)
QueueDel(q, p) ==
  IF Has(q, p)
  THEN RemoveAt(q, CHOOSE i \in DOMAIN q : q[i] = p)
  ELSE q

-----------------------------------------------------------------------------
(* What the macro promises: the elements are in ascending priority order.  *)
Ascending(q, key) ==
  \A i, j \in DOMAIN q : i < j => key[q[i]] <= key[q[j]]

(* No element is linked twice.                                             *)
NoRepeat(q) == \A i, j \in DOMAIN q : q[i] = q[j] => i = j
=============================================================================
