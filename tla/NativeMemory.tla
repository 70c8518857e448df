---------------------------- MODULE NativeMemory ----------------------------
(***************************************************************************)
(* The C heap and its tracing: CHEAP_ALLOC, CHEAP_ALLOC_ALIGN, CHEAP_FREE  *)
(* (plat/mem/allocation.cpp), MemoryTracer, SummaryMemory's counters and   *)
(* DetailLogMemory's log (plat/trace).                                     *)
(*                                                                         *)
(* Threads allocate and free at once: the counters move by two atomic      *)
(* additions, a record takes its number before the lock of the stream, and *)
(* malloc may give an address again as soon as it was freed.  The tag of a *)
(* call is its caller's, and so is the pointer: null is freed like a block,*)
(* and a block may be freed under another tag (Volume.cpp:31, 51).         *)
(***************************************************************************)
EXTENDS Integers, Sequences, FiniteSets, FiniteSetsExt

CONSTANTS
    Threads, Addresses, null,
    MEMFLAG,          \* the tags in use
    Sizes,            \* bytes asked for
    Grain,            \* malloc_usable_size is a multiple of it
    Levels,           \* the values global::NMTLevel may have
    OrderIds,         \* 2^16: _next_order_id counts modulo that
    MaxAllocs         \* bound: allocations made

VARIABLES
    block,            \* what malloc gave: usable bytes, 0 for a free address, and the tag
                      \* of the last call that named it
    live,             \* the addresses their owners hold
    _nmt_level,
    _native_alloc, _native_count,      \* SummaryMemory::_unit
    _next_order_id,
    log,              \* the detail log, in the order of the file
    call,             \* where each thread is in a call
    allocs,           \* allocations made, and releases of null
    early,            \* addresses malloc gave before the tracing
    odd               \* tags with a block older than the tracing or from CHEAP_ALLOC_ALIGN,
                      \* that released null, or one of the two tags of a block

vars == <<block, live, _nmt_level, _native_alloc, _native_count, _next_order_id, log, call,
          allocs, early, odd>>

Idle == [pc |-> "idle", type |-> "none", F |-> null, addr |-> null, bytes |-> 0, order |-> 0]
FreeBlock == [usable |-> 0, F |-> null]

Init ==
    /\ block = [a \in Addresses |-> FreeBlock] /\ live = {}
    /\ _nmt_level = "unknown"
    /\ _native_alloc = [F \in MEMFLAG |-> 0] /\ _native_count = [F \in MEMFLAG |-> 0]
    /\ _next_order_id = 0 /\ log = <<>>
    /\ call = [t \in Threads |-> Idle]
    /\ allocs = 0 /\ early = {} /\ odd = {}

usable(bytes) == ((bytes + Grain - 1) \div Grain) * Grain

(* MemoryTracer::initialize, once; objects with static storage have        *)
(* allocated before it.                                                    *)
Initialize(level) ==
    /\ _nmt_level = "unknown" /\ _nmt_level' = level
    /\ UNCHANGED <<block, live, _native_alloc, _native_count, _next_order_id, log, call, allocs, early, odd>>

(* Mutant: the case of detail ends with a break.                           *)
AfterDetailBreaks == "done"

(* MemoryTracer::record, by the level: detail goes on into summary.        *)
RecordStart == CASE _nmt_level \in {"unknown", "off"} -> "done"
                 [] _nmt_level = "detail" -> "order"
                 [] _nmt_level = "summary" -> "bytes"
AfterDetail == "bytes"

Malloc(t, a, F, bytes) ==
    /\ call[t].pc = "idle" /\ allocs < MaxAllocs
    /\ block[a].usable = 0
    /\ block' = [block EXCEPT ![a] = [usable |-> usable(bytes), F |-> F]]
    /\ allocs' = allocs + 1
    /\ early' = IF _nmt_level = "unknown" THEN early \cup {a} ELSE early

(* CHEAP_ALLOC: malloc, then the record of the usable bytes.               *)
Alloc(t, a, F, bytes) ==
    /\ Malloc(t, a, F, bytes)
    /\ call' = [call EXCEPT ![t] = [pc |-> RecordStart, type |-> "alloc", F |-> F, addr |-> a,
                                    bytes |-> usable(bytes), order |-> 0]]
    /\ odd' = IF _nmt_level = "unknown" THEN odd \cup {F} ELSE odd
    /\ UNCHANGED <<live, _nmt_level, _native_alloc, _native_count, _next_order_id, log>>

(* CHEAP_ALLOC_ALIGN hands posix_memalign the size as the alignment and the*)
(* alignment as the size, and records the size.                            *)
AllocAlign(t, a, F, bytes, align) ==
    /\ Malloc(t, a, F, align)
    /\ call' = [call EXCEPT ![t] = [pc |-> RecordStart, type |-> "alloc", F |-> F, addr |-> a,
                                    bytes |-> bytes, order |-> 0]]
    /\ odd' = odd \cup {F}
    /\ UNCHANGED <<live, _nmt_level, _native_alloc, _native_count, _next_order_id, log>>

(* What CHEAP_FREE records of the block at a, under the tag F.             *)
FreeCall(a, F, bytes) ==
    [pc |-> RecordStart, type |-> "free", F |-> F, addr |-> a, bytes |-> bytes, order |-> 0]
WrongTag(a, F) == IF F = block[a].F THEN {} ELSE {F, block[a].F}

(* Mutant: the block is freed before its size is recorded.                 *)
FreeFirst(t, a, F) ==
    /\ call[t].pc = "idle" /\ a \in live
    /\ live' = live \ {a} /\ block' = [block EXCEPT ![a] = FreeBlock]
    /\ odd' = odd \cup WrongTag(a, F)
    /\ call' = [call EXCEPT ![t] = FreeCall(a, F, block[a].usable)]
    /\ UNCHANGED <<_nmt_level, _native_alloc, _native_count, _next_order_id, log, allocs, early>>

(* CHEAP_FREE: the record first, then free.                                *)
Free(t, a, F) ==
    /\ call[t].pc = "idle" /\ a \in live
    /\ live' = live \ {a} /\ block' = [block EXCEPT ![a].F = F]
    /\ odd' = odd \cup WrongTag(a, F)
    /\ call' = [call EXCEPT ![t] = FreeCall(a, F, block[a].usable)]
    /\ UNCHANGED <<_nmt_level, _native_alloc, _native_count, _next_order_id, log, allocs, early>>

(* CHEAP_FREE of null, as the first resize of a BitMap does: it has no     *)
(* bytes, and is recorded and counted like a block.                        *)
FreeNull(t, F) ==
    /\ call[t].pc = "idle" /\ allocs < MaxAllocs
    /\ allocs' = allocs + 1 /\ odd' = odd \cup {F}
    /\ call' = [call EXCEPT ![t] = FreeCall(null, F, 0)]
    /\ UNCHANGED <<block, live, _nmt_level, _native_alloc, _native_count, _next_order_id, log, early>>

(* DetailLogMemory::detail_log: the number, then the record, written under *)
(* the lock of the stream.                                                 *)
DetailOrder(t) ==
    /\ call[t].pc = "order"
    /\ call' = [call EXCEPT ![t].pc = "log", ![t].order = _next_order_id]
    /\ _next_order_id' = (_next_order_id + 1) % OrderIds
    /\ UNCHANGED <<block, live, _nmt_level, _native_alloc, _native_count, log, allocs, early, odd>>

DetailWrite(t) ==
    /\ call[t].pc = "log"
    /\ log' = Append(log, [type |-> call[t].type, addr |-> call[t].addr, bytes |-> call[t].bytes,
                           order |-> call[t].order])
    /\ call' = [call EXCEPT ![t].pc = AfterDetail]
    /\ UNCHANGED <<block, live, _nmt_level, _native_alloc, _native_count, _next_order_id, allocs, early, odd>>

(* SummaryMemory::summary: two counters, one after the other.  They are    *)
(* size_t in the code and wrap below 0; here they are signed.              *)
Signed(t, n) == IF call[t].type = "alloc" THEN n ELSE -n

SummaryBytes(t) ==
    /\ call[t].pc = "bytes"
    /\ _native_alloc' = [_native_alloc EXCEPT ![call[t].F] = @ + Signed(t, call[t].bytes)]
    /\ call' = [call EXCEPT ![t].pc = "count"]
    /\ UNCHANGED <<block, live, _nmt_level, _native_count, _next_order_id, log, allocs, early, odd>>

SummaryCount(t) ==
    /\ call[t].pc = "count"
    /\ _native_count' = [_native_count EXCEPT ![call[t].F] = @ + Signed(t, 1)]
    /\ call' = [call EXCEPT ![t].pc = "done"]
    /\ UNCHANGED <<block, live, _nmt_level, _native_alloc, _next_order_id, log, allocs, early, odd>>

(* The end of the call: the caller has the block, or it is free.           *)
Return(t) ==
    /\ call[t].pc = "done"
    /\ IF call[t].type = "alloc"
       THEN live' = live \cup {call[t].addr} /\ UNCHANGED block
       ELSE /\ block' = [a \in Addresses |-> IF a = call[t].addr THEN FreeBlock ELSE block[a]]
            /\ UNCHANGED live
    /\ call' = [call EXCEPT ![t] = Idle]
    /\ UNCHANGED <<_nmt_level, _native_alloc, _native_count, _next_order_id, log, allocs, early, odd>>

Next ==
    \/ \E level \in Levels : Initialize(level)
    \/ \E t \in Threads :
        \/ \E a \in Addresses, F \in MEMFLAG, bytes \in Sizes :
              \/ Alloc(t, a, F, bytes)
              \/ \E align \in Sizes : AllocAlign(t, a, F, bytes, align)
        \/ \E a \in live, F \in MEMFLAG : Free(t, a, F)
        \/ \E F \in MEMFLAG : FreeNull(t, F)
        \/ DetailOrder(t) \/ DetailWrite(t) \/ SummaryBytes(t) \/ SummaryCount(t) \/ Return(t)

Spec == Init /\ [][Next]_vars

-----------------------------------------------------------------------------
(* Record i is the first of its address, or the next one after record j.   *)
First(i) == \A k \in 1..(i - 1) : log[k].addr # log[i].addr
Consecutive(j, i) ==
    /\ j < i /\ log[j].addr = log[i].addr
    /\ \A k \in (j + 1)..(i - 1) : log[k].addr # log[i].addr

(* Read from its beginning, the detail log tells of every address malloc   *)
(* gives, in turns, that it was allocated and freed: a record of a block   *)
(* that was handed out again never overtakes the record of its release.    *)
(* Only an address given before the tracing may begin with a release.      *)
(* Releases of null are no part of it: they are logged whenever somebody   *)
(* frees null, with no allocation between them                             *)
(* (allocation.cpp:45-51, 84-92, DetailLogMemory.cpp:23-46).               *)
HistoryAlternates ==
    \A i \in DOMAIN log : log[i].addr # null =>
        /\ First(i) /\ log[i].addr \notin early => log[i].type = "alloc"
        /\ \A j \in DOMAIN log : Consecutive(j, i) => log[j].type # log[i].type

(* The usable bytes of all blocks at the addresses A.                      *)
Bytes(memory, A) == MapThenSumSet(LAMBDA a : memory[a].usable, A)

(* The counters of a tag are the number and the bytes of the blocks in use *)
(* whenever no call with the tag is under way - if all its blocks are      *)
(* traced and none was aligned, it never released null, and its blocks were*)
(* released under the tag they were allocated with                         *)
(* (SummaryMemory.cpp:33-41, MemoryTracer.cpp:18-27).                      *)
CountersMatchBlocks ==
    _nmt_level \in {"summary", "detail"} =>
        \A F \in MEMFLAG \ odd :
            (\A t \in Threads : call[t].F # F) =>
                LET blocks == {a \in live : block[a].F = F}
                IN  /\ _native_count[F] = Cardinality(blocks)
                    /\ _native_alloc[F] = Bytes(block, blocks)
=============================================================================
