---------------------------- MODULE BlockManager ----------------------------
(***************************************************************************)
(* What a metaspace arena does with memory it was given back               *)
(* (BlockManager.cpp): blocks of a few words wait in a stack per size      *)
(* (BlockArray.hpp), larger ones in a binary search tree whose nodes lie   *)
(* in the blocks themselves (BlockTree.cpp); blocks of the same size hang  *)
(* behind the node of that size.                                           *)
(*                                                                         *)
(* A manager is a value and each operation an operator on it, for its      *)
(* arena calls it under a lock.  Sizes and addresses count words, the      *)
(* alignment of everything here.  A removed node's pointers, which the     *)
(* next Node constructor overwrites, are forgotten at once.                *)
(***************************************************************************)
EXTENDS Integers, Sequences, FiniteSets

CONSTANTS
    Words,        \* the addresses of the arena's memory
    null,         \* nullptr
    TreeMinWords  \* BlockTree::MIN_BYTES: a Node's words

Pointers == Words \cup {null}
BinSizes == 1..(TreeMinWords - 1)
Node(words) == [bytes |-> words, left |-> null, right |-> null, parent |-> null, next |-> null]

Manager == [bin : [BinSizes -> Seq(Words)], small : Int,
            root : Pointers, tree : Int,
            node : [Words -> [bytes : Nat, left : Pointers, right : Pointers,
                              parent : Pointers, next : Pointers]]]

EmptyManager ==
    [bin |-> [n \in BinSizes |-> <<>>], small |-> 0,
     root |-> null, node |-> [p \in Words |-> Node(0)], tree |-> 0]

is_empty(m) == m.small = 0 /\ m.root = null

-----------------------------------------------------------------------------
(* BlockArray: each size has its list.                                     *)

add_node(m, p, words) ==
    [m EXCEPT !.bin[words] = <<p>> \o m.bin[words], !.small = m.small + words]

(* The first non-empty list of that size or larger; 0 if there is none.    *)
next_non_empty_index(m, words) ==
    LET found == {n \in BinSizes : n >= words /\ m.bin[n] # <<>>}
    IN IF found = {} THEN 0 ELSE CHOOSE n \in found : \A k \in found : n <= k

-----------------------------------------------------------------------------
(* BlockTree.                                                              *)

(* What a loop ends with that goes on from x by f, until f leads nowhere   *)
(* else: it meets no word twice.                                           *)
Loop(f, x) ==
    LET at[i \in 0..Cardinality(Words)] == IF i = 0 THEN x ELSE f[at[i - 1]]
    IN at[Cardinality(Words)]

set_left_child(m, parent, child) ==
    LET linked == [m EXCEPT !.node[parent].left = child]
    IN IF child = null THEN linked ELSE [linked EXCEPT !.node[child].parent = parent]

set_right_child(m, parent, child) ==
    LET linked == [m EXCEPT !.node[parent].right = child]
    IN IF child = null THEN linked ELSE [linked EXCEPT !.node[child].parent = parent]

replace_node_in_parent(m, child, replace) ==
    LET parent == m.node[child].parent
    IN IF parent = null
       THEN IF replace = null THEN [m EXCEPT !.root = null]
            ELSE [m EXCEPT !.root = replace, !.node[replace].parent = null]
       ELSE IF m.node[parent].left = child THEN set_left_child(m, parent, replace)
       ELSE set_right_child(m, parent, replace)

(* A node behind another of its size: its own parent stays null.           *)
add_to_list(m, p, head) ==
    [m EXCEPT !.node[p].next = m.node[head].next, !.node[head].next = p]

child(n, words) == IF words > n.bytes THEN n.right ELSE n.left

insert(m, p) ==
    LET words  == m.node[p].bytes
        onward == [at \in Words |->
                     IF words = m.node[at].bytes \/ child(m.node[at], words) = null
                     THEN at ELSE child(m.node[at], words)]
        point  == Loop(onward, m.root)
    IN IF words = m.node[point].bytes THEN add_to_list(m, p, point)
       ELSE IF words > m.node[point].bytes THEN set_right_child(m, point, p)
       ELSE set_left_child(m, point, p)

add_meta_node(m, p, words) ==
    LET made == [m EXCEPT !.node[p] = Node(words), !.tree = m.tree + words]
    IN IF m.root = null THEN [made EXCEPT !.root = p] ELSE insert(made, p)

(* The smallest node of at least that size: the last that was large enough *)
(* on the way to where the size would be.                                  *)
find_closest_node(m, words) ==
    LET onward == [s \in [point : Pointers, best : Pointers] |->
          IF s.point = null THEN s
          ELSE IF m.node[s.point].bytes = words THEN [point |-> null, best |-> s.point]
          ELSE IF m.node[s.point].bytes > words
          THEN [point |-> m.node[s.point].left, best |-> s.point]
          ELSE [point |-> m.node[s.point].right, best |-> s.best]]
    IN Loop(onward, [point |-> m.root, best |-> null]).best

(* successor, where its only caller needs it: with a right child.          *)
successor(m, p) ==
    LET onward == [at \in Words |-> IF m.node[at].left = null THEN at ELSE m.node[at].left]
    IN Loop(onward, m.node[p].right)

\* Mutant: a successor from further down does not take the right subtree.
remove_node_from_tree_right_lost(m, p) ==
    LET n == m.node[p] IN
    IF n.left = null \/ n.right = null
    THEN replace_node_in_parent(m, p, IF n.left # null THEN n.left ELSE n.right)
    ELSE LET succ == successor(m, p)
             succ_parent == m.node[succ].parent
         IN set_left_child(
              replace_node_in_parent(IF succ_parent = p THEN m
                                     ELSE set_left_child(m, succ_parent, m.node[succ].right),
                                     p, succ),
              succ, n.left)

remove_node_from_tree(m, p) ==
    LET n == m.node[p] IN
    IF n.left = null \/ n.right = null
    THEN replace_node_in_parent(m, p, IF n.left # null THEN n.left ELSE n.right)
    ELSE LET succ == successor(m, p)
             succ_parent == m.node[succ].parent
         IN IF succ_parent = p
            THEN set_left_child(replace_node_in_parent(m, p, succ), succ, n.left)
            ELSE LET out == set_left_child(m, succ_parent, m.node[succ].right)
                     up  == replace_node_in_parent(out, p, succ)
                 IN set_right_child(set_left_child(up, succ, out.node[p].left),
                                    succ, out.node[p].right)

(* The first block behind the node if there is one, else the node itself.  *)
remove_meta_node(m, found) ==
    LET next == m.node[found].next
        p == IF next # null THEN next ELSE found
        taken == IF next # null THEN [m EXCEPT !.node[found].next = m.node[next].next]
                 ELSE remove_node_from_tree(m, found)
    IN [taken EXCEPT !.node[p] = Node(0), !.tree = m.tree - m.node[found].bytes]
removed_node(m, found) ==
    IF m.node[found].next # null THEN m.node[found].next ELSE found

-----------------------------------------------------------------------------
(* BlockManager.                                                           *)

deallocate(m, p, words) ==
    IF words >= TreeMinWords THEN add_meta_node(m, p, words) ELSE add_node(m, p, words)

(* A block of at least that size, null if none is found: the tree is asked *)
(* for tree sizes only, the stacks for the others.                         *)
found_block(m, words) ==
    IF words >= TreeMinWords
    THEN LET n == find_closest_node(m, words)
         IN IF n = null THEN [p |-> null, words |-> 0]
            ELSE [p |-> removed_node(m, n), words |-> m.node[n].bytes]
    ELSE LET n == next_non_empty_index(m, words)
         IN IF n = 0 THEN [p |-> null, words |-> 0] ELSE [p |-> Head(m.bin[n]), words |-> n]

\* Mutant: the wasted front of the block goes back instead of its end.
after_allocate_front(m, words) ==
    LET b == found_block(m, words)
        waste == b.words - words
        taken == IF words >= TreeMinWords THEN remove_meta_node(m, find_closest_node(m, words))
                 ELSE [m EXCEPT !.bin[b.words] = Tail(m.bin[b.words]), !.small = m.small - b.words]
    IN IF waste >= 1 THEN deallocate(taken, b.p, waste) ELSE taken

(* The manager without it; what the block has too much goes back.          *)
after_allocate(m, words) ==
    LET b == found_block(m, words)
        waste == b.words - words
        taken == IF words >= TreeMinWords THEN remove_meta_node(m, find_closest_node(m, words))
                 ELSE [m EXCEPT !.bin[b.words] = Tail(m.bin[b.words]), !.small = m.small - b.words]
    IN IF waste >= 1 THEN deallocate(taken, b.p + words, waste) ELSE taken

-----------------------------------------------------------------------------
(* The blocks a manager holds, as first word and size.                     *)

(* What pointers lead to from p.                                           *)
reached(links, p) ==
    Loop([A \in SUBSET Words |-> A \cup UNION {links[q] : q \in A}], {p} \ {null})
list_of(m, p) == reached([q \in Words |-> {m.node[q].next} \ {null}], p)
nodes_under(m, p) == reached([q \in Words |-> {m.node[q].left, m.node[q].right} \ {null}], p)
tree_nodes(m) == nodes_under(m, m.root)
managed_blocks(m) ==
    {[p |-> p, words |-> m.node[p].bytes] : p \in UNION {list_of(m, n) : n \in tree_nodes(m)}}
      \cup UNION {{[p |-> m.bin[n][i], words |-> n] : i \in DOMAIN m.bin[n]} : n \in BinSizes}
=============================================================================
