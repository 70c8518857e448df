------------------------------ MODULE LinkList ------------------------------
(***************************************************************************)
(* The doubly linked list of the kernel (kernel/utils/LinkedList.hpp), in  *)
(* which the metaspace keeps its segments: the pointers of the list and of *)
(* its nodes, one action for each operation.  The caller holds the lock of *)
(* whatever the list belongs to.  A node is in one list at a time: callers *)
(* add nodes that are in none; that deleted nodes are in the list is       *)
(* asserted (LinkedList.hpp:223).                                          *)
(***************************************************************************)
EXTENDS Naturals, Sequences, FiniteSets

CONSTANTS Nodes, null

VARIABLES _head, _tail,    \* LinkList
          _next, _prev     \* the nodes' own pointers

vars == <<_head, _tail, _next, _prev>>
Pointers == Nodes \cup {null}

Init ==
    /\ _head = null /\ _tail = null
    /\ _next = [n \in Nodes |-> null] /\ _prev = [n \in Nodes |-> null]

(* The nodes that a visit meets which starts at p and follows the link     *)
(* (node_head_do, node_tail_do): a list has no more than all the nodes.    *)
Visit(p, link) ==
    LET at[i \in 0..Cardinality(Nodes)] ==
          IF i = 0 THEN p ELSE IF at[i - 1] = null THEN null ELSE link[at[i - 1]]
    IN [i \in {j \in 1..Cardinality(Nodes) : at[j - 1] # null} |-> at[i - 1]]

contain(n) == \E i \in DOMAIN Visit(_head, _next) : Visit(_head, _next)[i] = n

(* set_next(n) of p, which may be null: then the list's own end is set.    *)
Linked(link, p, n) == IF p = null THEN link ELSE [link EXCEPT ![p] = n]

HeadAdd(n) ==
    /\ _prev' = Linked([_prev EXCEPT ![n] = null], _head, n)
    /\ _next' = [_next EXCEPT ![n] = _head]
    /\ _head' = n
    /\ _tail' = IF _tail = null THEN n ELSE _tail

TailAdd(n) ==
    /\ _prev' = [_prev EXCEPT ![n] = _tail]
    /\ _next' = Linked([_next EXCEPT ![n] = null], _tail, n)
    /\ _tail' = n
    /\ _head' = IF _head = null THEN n ELSE _head

Between(p, n, q) ==
    /\ _next' = [_next EXCEPT ![p] = n, ![n] = q]
    /\ _prev' = [_prev EXCEPT ![q] = n, ![n] = p]
    /\ UNCHANGED <<_head, _tail>>

head_add_to_list(n) == ~contain(n) /\ HeadAdd(n)
tail_add_to_list(n) == ~contain(n) /\ TailAdd(n)

(* Before or behind target; without a target at the head or the tail.      *)
add_to_list_target(target, n, before) ==
    /\ ~contain(n) /\ (target = null \/ contain(target))
    /\ IF before
       THEN IF target = null \/ _prev[target] = null
            THEN HeadAdd(n) ELSE Between(_prev[target], n, target)
       ELSE IF target = null \/ _next[target] = null
            THEN TailAdd(n) ELSE Between(target, n, _next[target])

\* Mutant: the tail is not moved when the last node goes.
delete_from_list_keeps_tail(n) ==
    /\ contain(n)
    /\ _head' = IF _prev[n] = null THEN _next[n] ELSE _head
    /\ _next' = Linked([_next EXCEPT ![n] = null], _prev[n], _next[n])
    /\ _prev' = Linked([_prev EXCEPT ![n] = null], _next[n], _prev[n])
    /\ UNCHANGED _tail

delete_from_list(n) ==
    /\ contain(n)
    /\ _head' = IF _prev[n] = null THEN _next[n] ELSE _head
    /\ _tail' = IF _next[n] = null THEN _prev[n] ELSE _tail
    /\ _next' = Linked([_next EXCEPT ![n] = null], _prev[n], _next[n])
    /\ _prev' = Linked([_prev EXCEPT ![n] = null], _next[n], _prev[n])

delete_from_list_head == _head # null /\ delete_from_list(_head)
delete_from_list_tail == _tail # null /\ delete_from_list(_tail)

Next ==
    \/ \E n \in Nodes :
         \/ head_add_to_list(n) \/ tail_add_to_list(n) \/ delete_from_list(n)
         \/ \E target \in Pointers, before \in BOOLEAN : add_to_list_target(target, n, before)
    \/ delete_from_list_head \/ delete_from_list_tail

Spec == Init /\ [][Next]_vars

-----------------------------------------------------------------------------
(* Whatever is added and deleted where, the pointers describe one sequence *)
(* of nodes: a visit from the head and a visit from the tail see the same  *)
(* nodes in opposite orders, and an operation moves nobody else            *)
(* (LinkedList.hpp:195-284).                                               *)
Abstract == INSTANCE NodeList WITH
    forward <- Visit(_head, _next), backward <- Visit(_tail, _prev)
ImplementsNodeList == Abstract!Spec
=============================================================================
