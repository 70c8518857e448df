--------------------------- MODULE MetaspaceArena ---------------------------
(***************************************************************************)
(* A metaspace arena (metaspace/Arena.cpp): it hands out blocks from the   *)
(* memory it was given back, from its current segment, or from a new       *)
(* segment, when it also gives the rest of the current one to its block    *)
(* manager.  Each call runs under the mutex of its MetaspaceArena          *)
(* (memory/MetaspaceArena.cpp) and is one action.                          *)
(*                                                                         *)
(* Segments come from ContextHolder, which module Segments models; here it *)
(* is the environment: it answers with a segment nobody else has or with   *)
(* none, and it may find that committing memory meets the limit.  Addresses*)
(* are words.  The arena that dies is followed by a new one.               *)
(*                                                                         *)
(* Assertions are compiled out.  With them compiled in, the second         *)
(* allocation that no block serves stops the program: Arena.cpp:260        *)
(* demands a current segment with room and line 292 that nothing was       *)
(* allocated from it; and BlockTree.cpp:96 demands a second block behind   *)
(* every node that is removed, which its caller excludes.                  *)
(***************************************************************************)
EXTENDS BlockManager

CONSTANTS
    NoError,           \* the program runs
    BytesPerWord,
    Requests,          \* the sizes asked for, in bytes
    SegmentWords,      \* bound: the sizes of segments
    RegionWords,       \* RegionBytes
    GranuleWords,      \* CommitGranuleBytes
    MaxSegments        \* bound: segments of the arenas

VARIABLES
    segments,       \* _segments from head to tail
    block_manager,  \* null until something is deallocated
    held,           \* the blocks the arena's users have
    used_bytes,     \* ContextHolder's count for all arenas, in words
    given,          \* segments handed out so far
    vm_error        \* what stopped the program

vars == <<segments, block_manager, held, used_bytes, given, vm_error>>

MIN2(a, b) == IF a < b THEN a ELSE b
MAX2(a, b) == IF a > b THEN a ELSE b
align_up(n, unit) == ((n + unit - 1) \div unit) * unit

(* get_raw_byte_for_requested, counted in words.                           *)
get_raw_byte_for_requested(bytes) ==
    align_up(MAX2(bytes, BytesPerWord), BytesPerWord) \div BytesPerWord

Init ==
    /\ segments = <<>> /\ block_manager = null /\ held = {}
    /\ used_bytes = 0 /\ given = 0 /\ vm_error = NoError

Runs == vm_error = NoError
Stop(reason) == vm_error' = reason /\ UNCHANGED <<segments, block_manager, held, used_bytes, given>>

(* _segments.head(), although new segments go to the tail.                 *)
has_current == segments # <<>>
current == segments[1]

free_words(s)       == s.total - s.used
below_committed(s)  == s.committed - s.used

(* Segment::allocate trusts its callers with committed memory.  Where they *)
(* fail it, MetaspaceArena::allocate fills memory with zeros that was not  *)
(* committed; the model ends there.                                        *)
Overrun(s) == s.used > s.committed

-----------------------------------------------------------------------------
(* allocate_from_block.  The context's count stays: the block never left   *)
(* it.                                                                     *)

BlockServes(need) ==
    /\ block_manager # null /\ ~is_empty(block_manager)
    /\ found_block(block_manager, need).p # null

AllocateFromBlock(need) ==
    /\ Runs /\ BlockServes(need)
    /\ held' = held \cup {[p |-> found_block(block_manager, need).p, words |-> need]}
    /\ block_manager' = after_allocate(block_manager, need)
    /\ UNCHANGED <<segments, used_bytes, given, vm_error>>

-----------------------------------------------------------------------------
(* Segment::commit_up_to(bytes), for a segment that has not enough below   *)
(* its boundary: the boundary goes to `bytes', not to used + bytes, or     *)
(* stays where it is at the limit.                                         *)

CommitTo(s, need) ==
    LET to == MIN2(align_up(need, GranuleWords), s.total)
    IN IF to > s.committed THEN {s.committed, to} ELSE {s.committed}
Committed(s, need) ==
    IF need < below_committed(s) THEN {s.committed} ELSE CommitTo(s, need)

(* attempt_enlarge_current_segment: ContextHolder joins the segment with   *)
(* its free buddy of the same size, or does not.                           *)
Enlarged(s, need) ==
    IF s.total + s.total > RegionWords \/ s.used + need > s.total + s.total THEN {}
    ELSE {[s EXCEPT !.total = s.total + s.total, !.committed = c] :
             c \in IF s.committed = s.total THEN {s.committed, s.committed + s.total}
                   ELSE {s.committed}}
Fitting(need) == IF free_words(current) >= need THEN {current} ELSE Enlarged(current, need)

(* What the current segment can be once it has room and was asked to       *)
(* commit; commit_up_to reports success in any case.                       *)
Prepared(need) ==
    UNION {{[s EXCEPT !.committed = c] : c \in Committed(s, need)} : s \in Fitting(need)}

AllocateFromCurrent(need) ==
    /\ Runs /\ ~BlockServes(need) /\ has_current
    /\ \E s \in Prepared(need) :
         LET after == [s EXCEPT !.used = s.used + need]
         IN IF Overrun(after) THEN Stop("Segment.cpp:42")
            ELSE /\ segments' = [segments EXCEPT ![1] = after]
                 /\ held' = held \cup {[p |-> s.base + s.used, words |-> need]}
                 /\ used_bytes' = used_bytes + need
                 /\ UNCHANGED <<block_manager, given, vm_error>>

-----------------------------------------------------------------------------
(* The current segment neither has the room nor can be enlarged.           *)
CurrentTooSmall(need) == has_current => free_words(current) < need

(* salvage_segment: what is committed and unused goes to the manager.      *)
Remains(s) == below_committed(s) # 0

(* allocate_from_new_segment: get_segment commits the need unless it was   *)
(* committed before, and reports success in any case.                      *)
NewSegments(need) ==
    LET fresh(n, c) == [base |-> given * RegionWords, total |-> n, committed |-> c, used |-> 0]
    IN UNION {UNION {{fresh(n, c2) : c2 \in IF c >= need THEN {c} ELSE CommitTo(fresh(n, c), need)}
                       : c \in {c \in 0..n : c % GranuleWords = 0 \/ c = n}}
                : n \in {n \in SegmentWords : n >= need}}

Salvaged(need, s) ==
    LET after == [s EXCEPT !.used = need]
        old   == current
        left  == below_committed(old)
    IN IF ~has_current \/ ~Remains(old)
       THEN /\ segments' = Append(segments, after) /\ UNCHANGED block_manager
            /\ used_bytes' = used_bytes + need
       ELSE /\ segments' = Append([segments EXCEPT ![1].used = old.committed], after)
            /\ used_bytes' = used_bytes + left + need
            /\ block_manager' = deallocate(block_manager, old.base + old.used, left)

AllocateFromNew(need) ==
    /\ Runs /\ ~BlockServes(need) /\ CurrentTooSmall(need) /\ given < MaxSegments
    /\ \E s \in NewSegments(need) :
         IF has_current /\ Remains(current) /\ block_manager = null THEN Stop("Arena.cpp:134")
         ELSE IF Overrun([s EXCEPT !.used = need]) THEN Stop("Segment.cpp:42")
         ELSE /\ Salvaged(need, s)
              /\ held' = held \cup {[p |-> s.base, words |-> need]}
              /\ given' = given + 1 /\ UNCHANGED vm_error

(* deallocate: a user gives a block back.                                  *)
Deallocate(b) ==
    /\ Runs /\ b \in held
    /\ held' = held \ {b}
    /\ block_manager' =
         deallocate(IF block_manager = null THEN EmptyManager ELSE block_manager, b.p, b.words)
    /\ UNCHANGED <<segments, used_bytes, given, vm_error>>

-----------------------------------------------------------------------------
(* ~Arena returns the segments as it walks their list.  To return one puts *)
(* it in a list of ContextHolder, and the walk goes on along that list: it *)
(* ends there and the other segments are lost, or it returns what nobody   *)
(* gave out.  The count loses the size of the segments, not what was used. *)

Die ==
    /\ Runs /\ has_current
    /\ segments' = <<>> /\ block_manager' = null /\ held' = {}
    /\ used_bytes' = used_bytes - current.total
    /\ UNCHANGED <<given, vm_error>>

DieCorrupting ==
    Runs /\ Len(segments) > 1 /\ Stop("Arena.cpp:36")

Next ==
    \/ \E bytes \in Requests :
         LET need == get_raw_byte_for_requested(bytes)
         IN AllocateFromBlock(need) \/ AllocateFromCurrent(need) \/ AllocateFromNew(need)
    \/ \E b \in held : Deallocate(b)
    \/ Die \/ DieCorrupting

Spec == Init /\ [][Next]_vars

-----------------------------------------------------------------------------
managed == IF block_manager = null THEN {} ELSE managed_blocks(block_manager)
Blocks == held \cup managed
Memory(b) == b.p..(b.p + b.words - 1)

(* However blocks are split, reused and salvaged, no word is handed out    *)
(* twice and none is lost: the used words of the segments are the blocks   *)
(* of the users and of the manager, side by side (Arena.cpp:119-148,       *)
(* BlockManager.cpp:8-38).                                                 *)
BlocksPartitionUsedMemory ==
    /\ held \cap managed = {}
    /\ \A b, c \in Blocks : b # c => Memory(b) \cap Memory(c) = {}
    /\ UNION {Memory(b) : b \in Blocks} =
         UNION {s.base..(s.base + s.used - 1) : s \in {segments[i] : i \in DOMAIN segments}}

(* The tree stays a search tree with one node per size, whatever order     *)
(* blocks come and go in: children and parents point at each other, the    *)
(* search finds the smallest block that fits, and the counts is_empty      *)
(* relies on are those of the blocks (BlockTree.cpp, BlockArray.hpp).      *)
TreeSound ==
    block_manager # null =>
      LET m == block_manager
          nodes == tree_nodes(m)
          sized(n) == m.node[n].bytes
      IN /\ \A n \in nodes :
              /\ \A k \in nodes_under(m, m.node[n].left) : sized(k) < sized(n)
              /\ \A k \in nodes_under(m, m.node[n].right) : sized(k) > sized(n)
              /\ \A k \in {m.node[n].left, m.node[n].right} \ {null} : m.node[k].parent = n
              /\ \A k \in list_of(m, n) : sized(k) = sized(n)
         /\ m.root # null => m.node[m.root].parent = null
         /\ \A need \in TreeMinWords..RegionWords :
              LET fit == {sized(n) : n \in {k \in nodes : sized(k) >= need}}
                  found == find_closest_node(m, need)
              IN IF fit = {} THEN found = null
                 ELSE sized(found) \in fit /\ \A w \in fit : sized(found) <= w
         /\ m.small + m.tree = Cardinality(UNION {Memory(b) : b \in managed_blocks(m)})
         /\ m.small = 0 <=> \A n \in BinSizes : m.bin[n] = <<>>

(* An allocation lies in committed memory (Arena.cpp:273-278: no error, so *)
(* the block has room and the committed memory can serve).                 *)
AllocatesCommittedMemory == vm_error # "Segment.cpp:42"
=============================================================================
