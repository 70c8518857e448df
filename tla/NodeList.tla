------------------------------ MODULE NodeList ------------------------------
(***************************************************************************)
(* What a LinkList (kernel/utils/LinkedList.hpp) promises: its nodes in an *)
(* order, which a visit from the head sees forwards and a visit from the   *)
(* tail backwards.  A node enters at any place and leaves from any place.  *)
(***************************************************************************)
EXTENDS Naturals, SequencesExt

CONSTANT Nodes

VARIABLES forward, backward   \* what node_head_do and node_tail_do visit

Init == forward = <<>> /\ backward = <<>>

Insert(node, place) ==
    /\ \A i \in DOMAIN forward : forward[i] # node
    /\ forward'  = InsertAt(forward, place, node)
    /\ backward' = InsertAt(backward, Len(forward) + 2 - place, node)

Delete(place) ==
    /\ forward'  = RemoveAt(forward, place)
    /\ backward' = RemoveAt(backward, Len(forward) + 1 - place)

Next ==
    \/ \E node \in Nodes, place \in 1..(Len(forward) + 1) : Insert(node, place)
    \/ \E place \in DOMAIN forward : Delete(place)

Spec == Init /\ [][Next]_<<forward, backward>>
=============================================================================
