---------------------------- MODULE MCMetaspace ----------------------------
(* The metaspace for TLC: a behaviour is one of the segments or one of an  *)
(* arena; the other part rests.                                            *)
EXTENDS Segments, TLC

CONSTANTS
    Parts,        \* the parts whose behaviours are checked
    Words, TreeMinWords, BytesPerWord, Requests,
    SegmentWords, RegionWords, GranuleWords, MaxSegments

VARIABLES part, segments, block_manager, held, used_bytes, given, arena_error

arena == <<segments, block_manager, held, used_bytes, given, arena_error>>

Arena == INSTANCE MetaspaceArena WITH vm_error <- arena_error

(* Addresses are the words of all segments; the null pointer is neither a  *)
(* word nor an object.                                                     *)
ASSUME MetaspaceArenaAssumption ==
    /\ BytesPerWord \in Nat \ {0} /\ Requests \subseteq Nat
    /\ TreeMinWords \in Nat \ {0} /\ GranuleWords \in Nat \ {0}
    /\ RegionWords \in Nat /\ MaxSegments \in Nat
    /\ Words = 0..(MaxSegments * RegionWords - 1)
    /\ \A n \in SegmentWords : n \in 1..RegionWords
    /\ null \notin Words /\ null \notin Arena!Manager

MCInit == part \in Parts /\ Init /\ Arena!Init

MCNext ==
    /\ UNCHANGED part
    /\ \/ part = "segments" /\ Next       /\ UNCHANGED arena
       \/ part = "arena"    /\ Arena!Next /\ UNCHANGED vars

MCSpec == MCInit /\ [][MCNext]_<<part, vars, arena>>

Symmetry == Permutations(Headers)

(* What a root with old buddies does is another run.                       *)
BeforeStaleRoot == ~stale_root

(* Regions of 4 bytes.                                                     *)
ThreeLevels == [l \in 0..2 |-> 2^(2 - l)]

(* The program's: segments of 16M down to 1K (constants.hpp:14-40).        *)
ProgramLevels == [l \in 0..14 |-> 2^(24 - l)]

ArenaWords == 0..(MaxSegments * RegionWords - 1)

FewBlocks == Cardinality(Arena!Blocks) <= 4

(* The blocks in use and those to be used again are the used memory of the *)
(* segments, side by side (Arena.cpp:119-148).                             *)
BlocksPartitionUsedMemory == Arena!BlocksPartitionUsedMemory

(* The tree of blocks stays a search tree, and the search finds the        *)
(* smallest block that fits (BlockTree.cpp).                               *)
TreeSound == Arena!TreeSound

(* An allocation lies in committed memory (Segment.cpp:42).                *)
AllocatesCommittedMemory == Arena!AllocatesCommittedMemory
=============================================================================
