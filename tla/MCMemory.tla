------------------------------ MODULE MCMemory ------------------------------
(* The memory of the platform and the containers of the kernel for TLC: a  *)
(* behaviour is one of the resource arenas, of the C heap, of a list, of a *)
(* bit map or of an array; the other parts rest.                           *)
EXTENDS ResourceArena, TLC

CONSTANTS
    Parts,            \* the parts whose behaviours are checked
    Addresses, MEMFLAG, Sizes, Grain, Levels, OrderIds, MaxAllocs,
    Nodes, BitsPerWord, MaxBits, Elements, MaxCapacity

(* The tags are not null, nobody asks malloc for nothing, and malloc gives *)
(* some bytes for some.                                                    *)
ASSUME HeapAssumption ==
    /\ IsFiniteSet(Addresses) /\ null \notin Addresses /\ null \notin MEMFLAG
    /\ Sizes \subseteq Nat \ {0} /\ Grain \in Nat \ {0} /\ OrderIds \in Nat \ {0}
    /\ Levels \subseteq {"off", "summary", "detail"}

ASSUME ContainersAssumption ==
    /\ IsFiniteSet(Nodes) /\ null \notin Nodes
    /\ BitsPerWord \in Nat \ {0} /\ MaxBits \in Nat /\ MaxCapacity \in Nat

VARIABLES
    part,
    block, live, _nmt_level, _native_alloc, _native_count, _next_order_id, log, call, allocs,
    early, odd,
    _head, _tail, _next, _prev,
    _map, _total_bits, par, marked, par_set, bits_error,
    _data, _len, debug_mode, elements, lost, array_error

heap  == <<block, live, _nmt_level, _native_alloc, _native_count, _next_order_id, log, call, allocs,
           early, odd>>
list  == <<_head, _tail, _next, _prev>>
bits  == <<_map, _total_bits, par, marked, par_set, bits_error>>
array == <<_data, _len, debug_mode, elements, lost, array_error>>

Heap  == INSTANCE NativeMemory
List  == INSTANCE LinkList
Map   == INSTANCE BitMap WITH vm_error <- bits_error
Array == INSTANCE GrowableArray WITH vm_error <- array_error

MCInit ==
    /\ part \in Parts
    /\ Init /\ Heap!Init /\ List!Init /\ Map!Init /\ Array!Init
    /\ part # "array" => debug_mode /\ _data = <<CHOOSE e \in Elements : TRUE>>

MCNext ==
    /\ UNCHANGED part
    /\ \/ part = "arena" /\ Next       /\ UNCHANGED <<heap, list, bits, array>>
       \/ part = "heap"  /\ Heap!Next  /\ UNCHANGED <<vars, list, bits, array>>
       \/ part = "list"  /\ List!Next  /\ UNCHANGED <<vars, heap, bits, array>>
       \/ part = "bits"  /\ Map!Next   /\ UNCHANGED <<vars, heap, list, array>>
       \/ part = "array" /\ Array!Next /\ UNCHANGED <<vars, heap, list, bits>>

MCSpec == MCInit /\ [][MCNext]_<<part, vars, heap, list, bits, array>>

Symmetry == Permutations(Chunks) \cup Permutations(Threads)
HeapSymmetry == Permutations(Threads) \cup Permutations(Addresses) \cup Permutations(MEMFLAG)

FewBlocks == Cardinality(InUse) <= 3

(* What par_set_bit leaves behind is not looked at.                        *)
BeforeParSet == ~par_set

(* The log of the C heap alternates for every address                      *)
(* (DetailLogMemory.cpp:25-46).                                            *)
HistoryAlternates == Heap!HistoryAlternates

(* Its counters are the blocks in use (SummaryMemory.cpp:33-41).           *)
CountersMatchBlocks == Heap!CountersMatchBlocks

(* Whatever is added and deleted where, a visit from the head and one from *)
(* the tail see the same nodes in opposite orders (LinkedList.hpp:195).    *)
ImplementsNodeList == List!ImplementsNodeList

(* Every bit is 1, and is counted, exactly if it was marked                *)
(* (BitMap.cpp:20-69, 94).                                                 *)
BitsExact == Map!BitsExact

(* The array holds what it accepted and did not give back, in that order   *)
(* (GrowableArray.hpp:136, 158).                                           *)
ElementsKept == Array!ElementsKept

(* A full array takes one more element (GrowableArray.hpp:70, 221).        *)
FullArrayGrows == Array!FullArrayGrows
=============================================================================
