------------------------------- MODULE Volume -------------------------------
(***************************************************************************)
(* The committed memory of the metaspace: the list of volumes              *)
(* (VolumeList.cpp) and the address space they reserve (plat/os/mem.cpp),  *)
(* a volume's bit per commit granule (CommittedMask.cpp), commit_range and *)
(* uncommit_range (Volume.cpp), the limit they respect                     *)
(* (CommittedLimiter.cpp) and the threshold that limit reads               *)
(* (MetaspaceGC.cpp).                                                      *)
(*                                                                         *)
(* Volumes change under Metaspace_lock, which a thread holds over all the  *)
(* steps of a commit.  The threshold is not under the lock: threads raise  *)
(* it with compare-and-swap at any time.  compute_new_gc_threshold stores  *)
(* it, at a safepoint, when no thread is in any of this code.              *)
(*                                                                         *)
(* Addresses and sizes are counted in commit granules, to which the code   *)
(* aligns everything here; a page of the kernel is a granule.              *)
(***************************************************************************)
EXTENDS Integers, Sequences, FiniteSets

CONSTANTS
    Threads,
    NoThread,               \* Metaspace_lock is free
    NoError,                \* the program runs
    DEBUG_MODE,             \* assertions are compiled in (plat/macro.hpp)
    CommitGranuleBytes,
    RegionGranules,         \* RegionBytes
    RegionsPerVolume,       \* VolumeDefaultBytes / RegionBytes
    flag,                   \* the flags of the command line (flag.hpp), sizes in bytes
    AddressSpace,           \* bound: addresses mmap hands out
    MaxVolumes              \* bound: volumes created

ASSUME VolumeAssumption ==
    /\ NoThread \notin Threads
    /\ NoError \notin {"MetaspaceGC.cpp:192", "MetaspaceGC.cpp:193"}
    /\ DEBUG_MODE \in BOOLEAN
    /\ CommitGranuleBytes \in Nat \ {0}
    /\ RegionGranules \in Nat \ {0} /\ RegionsPerVolume \in Nat \ {0}
    /\ flag \in [MaxMetaspaceSize : Nat, MetaspaceSize : Nat,
                 MaxMetaspaceFreeRatio : Nat, MinMetaspaceFreeRatio : Nat,
                 MaxMetaspaceExpansion : Nat, MinMetaspaceExpansion : Nat]
    /\ flag.MinMetaspaceFreeRatio < 100     \* MetaspaceGC.cpp:64 divides by what is left
    /\ AddressSpace \in Nat /\ MaxVolumes \in Nat

VARIABLES
    phase,             \* start-up: before and after Metaspace's initialisers
    volumes,           \* VolumeList: base and used regions, by age
    reserved_bytes,    \* VolumeList::_reserved_bytes
    committed_bytes,   \* VolumeList::_committed_bytes (*_committed_statistics)
    commit_mask,       \* the committed granules of all CommittedMasks
    global_committed,  \* CommittedLimiter::_global_committed_bytes
    policy,            \* CommittedLimiter::_policy_func is registered
    gc_threshold,      \* MetaspaceGC::_gc_threshold
    shrink_factor,     \* MetaspaceGC::_shrink_factor
    Metaspace_lock,    \* the thread that holds it
    pc, call,          \* where each thread is, and its locals
    mapped, backed,    \* the kernel: reserved addresses, accessible ones
    tracer,            \* SummaryMemory: reserved virtual memory
    vm_error           \* what stopped the program

list    == <<volumes, reserved_bytes, mapped, tracer>>
count   == <<committed_bytes, commit_mask, global_committed, backed>>
gc      == <<gc_threshold, shrink_factor, policy>>
control == <<phase, Metaspace_lock, pc, call, vm_error>>
vars    == <<list, count, gc, control>>

Factors == {0, 10, 40, 100}
Labels  == {"idle", "count", "policy", "commit", "limiter", "statistics", "mask",
            "uncount", "uncommit", "unlimiter", "unstatistics", "unmask", "cas"}
VolumeGranules == RegionGranules * RegionsPerVolume
Addresses == 0..(AddressSpace - 1)
AddressRange(p, n) == p..(p + n - 1)
MIN2(a, b) == IF a < b THEN a ELSE b
MAX2(a, b) == IF a > b THEN a ELSE b
clamp(v, min, max) == MIN2(MAX2(v, min), max)

(* Metaspace::ergo_initialize sets the flags right: whole granules, one at *)
(* least, and a start size within the limit.                               *)
align_down_bounded(bytes) == MAX2(bytes \div CommitGranuleBytes, 1)
MaxMetaspaceBytes     == MAX2(flag.MaxMetaspaceSize, CommitGranuleBytes)
MaxMetaspaceSize      == align_down_bounded(MaxMetaspaceBytes)
MetaspaceSize         == align_down_bounded(MIN2(flag.MetaspaceSize, MaxMetaspaceBytes))
MaxMetaspaceFreeRatio == MIN2(100, flag.MaxMetaspaceFreeRatio)
MinMetaspaceFreeRatio == MIN2(100, flag.MinMetaspaceFreeRatio)
MaxMetaspaceExpansion == align_down_bounded(flag.MaxMetaspaceExpansion)
MinMetaspaceExpansion == align_down_bounded(flag.MinMetaspaceExpansion)

(* Space: the addresses of a volume, and those of one of its regions.      *)
Reserved(v)  == AddressRange(v.base, VolumeGranules)
Region(v, r) == AddressRange(v.base + r * RegionGranules, RegionGranules)

(* The constructor of a volume, and Volume::allocate_root_segment.         *)
NewVolume(base) == [base |-> base, next_region_index |-> 0]
NextRegion(v)   == [base |-> v.base, next_region_index |-> v.next_region_index + 1]

(* The locals of a call: the range it works on, by how much it changes     *)
(* what is committed, and the values it has read.                          *)
Idle == [range |-> {}, bytes |-> 0, committed |-> 0, threshold |-> 0]

Init ==
    /\ phase = "start"
    /\ volumes = <<>> /\ reserved_bytes = 0 /\ committed_bytes = 0
    /\ commit_mask = {} /\ global_committed = 0 /\ policy = FALSE
    /\ gc_threshold = 0 /\ shrink_factor = 0
    /\ Metaspace_lock = NoThread
    /\ pc = [t \in Threads |-> "idle"] /\ call = [t \in Threads |-> Idle]
    /\ mapped = {} /\ backed = {} /\ tracer = 0
    /\ vm_error = NoError

At(t, label) == vm_error = NoError /\ pc[t] = label

(* A compiled-in assertion fails, or the program runs out of memory.       *)
Stop(reason) == vm_error' = reason /\ UNCHANGED <<phase, pc, call, Metaspace_lock>>

Goto(t, label, locals) ==
    /\ pc' = [pc EXCEPT ![t] = label] /\ call' = [call EXCEPT ![t] = locals]
    /\ UNCHANGED <<phase, Metaspace_lock, vm_error>>

(* A call returns; its caller then releases Metaspace_lock if it had it.   *)
Return(t) ==
    /\ pc' = [pc EXCEPT ![t] = "idle"] /\ call' = [call EXCEPT ![t] = Idle]
    /\ Metaspace_lock' = IF Metaspace_lock = t THEN NoThread ELSE Metaspace_lock
    /\ UNCHANGED <<phase, vm_error>>

(* Start-up is one thread; later any thread may call.                      *)
Alone == \A t \in Threads : pc[t] = "idle"
Calls(t) == At(t, "idle") /\ (phase = "run" \/ (phase = "boot" /\ Alone))
Locks(t) == Calls(t) /\ Metaspace_lock = NoThread

-----------------------------------------------------------------------------
(* Metaspace::global_initialize, and Metaspace::post_initialize when the   *)
(* program has started.                                                    *)

GlobalInitialize ==
    /\ vm_error = NoError /\ phase = "start" /\ phase' = "boot"
    /\ policy' = TRUE /\ gc_threshold' = MaxMetaspaceSize
    /\ UNCHANGED <<list, count, shrink_factor, Metaspace_lock, pc, call, vm_error>>

PostInitialize ==
    /\ vm_error = NoError /\ phase = "boot" /\ Alone /\ phase' = "run"
    /\ gc_threshold' = MAX2(MetaspaceSize, committed_bytes)
    /\ UNCHANGED <<list, count, shrink_factor, policy, Metaspace_lock, pc, call, vm_error>>

-----------------------------------------------------------------------------
(* VolumeList::allocate_root_segment takes the next region of the newest   *)
(* volume or makes a volume.  os::reserve_memory_aligned maps one          *)
(* alignment more than it needs and gives back what lies before and behind *)
(* the aligned part; each of the calls is traced.                          *)

has_unused_region ==
    volumes # <<>> /\ volumes[Len(volumes)].next_region_index < RegionsPerVolume

UseRegion(t) ==
    /\ Locks(t) /\ has_unused_region
    /\ volumes' = [volumes EXCEPT ![Len(volumes)] = NextRegion(volumes[Len(volumes)])]
    /\ UNCHANGED <<reserved_bytes, mapped, tracer, count, gc, control>>

\* Mutant: the end that reserve_memory_aligned gives back is not traced.
CreateNewVolumeUntraced(t) ==
    /\ Locks(t) /\ ~has_unused_region /\ Len(volumes) < MaxVolumes
    /\ \E extra_base \in Addresses :
         LET extra_bytes  == VolumeGranules + VolumeGranules
             base         == ((extra_base + VolumeGranules - 1) \div VolumeGranules)
                                * VolumeGranules
             begin_offset == base - extra_base
         IN /\ AddressRange(extra_base, extra_bytes) \subseteq Addresses \ mapped
            /\ mapped' = mapped \cup AddressRange(base, VolumeGranules)
            /\ tracer' = tracer + extra_bytes - begin_offset
            /\ volumes' = Append(volumes, NextRegion(NewVolume(base)))
    /\ reserved_bytes' = reserved_bytes + VolumeGranules
    /\ UNCHANGED <<count, gc, control>>

CreateNewVolume(t) ==
    /\ Locks(t) /\ ~has_unused_region /\ Len(volumes) < MaxVolumes
    /\ \E extra_base \in Addresses :
         LET extra_bytes  == VolumeGranules + VolumeGranules
             base         == ((extra_base + VolumeGranules - 1) \div VolumeGranules)
                                * VolumeGranules
             begin_offset == base - extra_base
             end_offset   == (extra_base + extra_bytes) - (base + VolumeGranules)
             kept == AddressRange(extra_base, extra_bytes)
                       \ (AddressRange(extra_base, begin_offset)
                            \cup AddressRange(base + VolumeGranules, end_offset))
         IN /\ AddressRange(extra_base, extra_bytes) \subseteq Addresses \ mapped
            /\ mapped' = mapped \cup kept
            /\ tracer' = tracer + extra_bytes - begin_offset - end_offset
            /\ volumes' = Append(volumes, NextRegion(NewVolume(base)))
    /\ reserved_bytes' = reserved_bytes + VolumeGranules
    /\ UNCHANGED <<count, gc, control>>

ReserveFails(t) ==
    /\ Locks(t) /\ ~has_unused_region
    /\ Stop("VolumeList.cpp:27") /\ UNCHANGED <<list, count, gc>>

-----------------------------------------------------------------------------
(* CommittedMask: the granules of a range that are committed.  It turns    *)
(* the end of the range into a bit number, which it asserts is in the map. *)

get_committed_bytes_in_range(range) == Cardinality(range \cap commit_mask)
EndsInMask(range) ==
    \A i \in DOMAIN volumes : volumes[i].base + VolumeGranules - 1 \notin range

(* A thread that holds Metaspace_lock works on a range of one region.      *)
Begin(t, label) ==
    /\ Locks(t)
    /\ \E i \in DOMAIN volumes, r \in 0..(RegionsPerVolume - 1) :
         /\ r < volumes[i].next_region_index
         /\ \E first, last \in Region(volumes[i], r) :
              /\ first <= last
              /\ call' = [call EXCEPT ![t] =
                   [range |-> first..last, bytes |-> 0, committed |-> 0, threshold |-> 0]]
    /\ Metaspace_lock' = t /\ pc' = [pc EXCEPT ![t] = label]
    /\ UNCHANGED <<phase, list, count, gc, vm_error>>

(* Volume::commit_range: what it would add; nothing to add is a success.   *)
CommitRange(t) == Begin(t, "count")

CountCommitted(t) ==
    LET range == call[t].range
        bytes == Cardinality(range) - get_committed_bytes_in_range(range)
    IN /\ At(t, "count")
       /\ IF DEBUG_MODE /\ ~EndsInMask(range) THEN Stop("CommittedMask.hpp:51")
          ELSE IF bytes = 0 THEN Return(t)
          ELSE Goto(t, "policy", [call[t] EXCEPT !.bytes = bytes, !.committed = global_committed])
       /\ UNCHANGED <<list, count, gc>>

(* CommittedLimiter::possible_expand_bytes, with the registered policy     *)
(* MetaspaceGC::allowed_expansion.  Too little to expand: commit_range     *)
(* fails.                                                                  *)
allowed_expansion(committed) == gc_threshold - committed
possible_expand_bytes(committed) ==
    IF policy THEN MIN2(MaxMetaspaceSize - committed, allowed_expansion(committed))
    ELSE MaxMetaspaceSize - committed

AskPolicy(t) ==
    /\ At(t, "policy")
    /\ IF DEBUG_MODE /\ policy /\ gc_threshold > MaxMetaspaceSize
       THEN Stop("MetaspaceGC.cpp:192")
       ELSE IF DEBUG_MODE /\ policy /\ call[t].committed > gc_threshold
       THEN Stop("MetaspaceGC.cpp:193")
       ELSE IF possible_expand_bytes(call[t].committed) < call[t].bytes THEN Return(t)
       ELSE Goto(t, "commit", call[t])
    /\ UNCHANGED <<list, count, gc>>

OsCommit(t) ==
    /\ At(t, "commit") /\ Goto(t, "limiter", call[t])
    /\ backed' = backed \cup call[t].range
    /\ UNCHANGED <<committed_bytes, commit_mask, global_committed, list, gc>>

OsCommitFails(t) ==
    /\ At(t, "commit") /\ Stop("Volume.cpp:126") /\ UNCHANGED <<list, count, gc>>

IncreaseLimiter(t) ==
    /\ At(t, "limiter") /\ Goto(t, "statistics", call[t])
    /\ global_committed' = global_committed + call[t].bytes
    /\ UNCHANGED <<committed_bytes, commit_mask, backed, list, gc>>

IncreaseStatistics(t) ==
    /\ At(t, "statistics") /\ Goto(t, "mask", call[t])
    /\ committed_bytes' = committed_bytes + call[t].bytes
    /\ UNCHANGED <<global_committed, commit_mask, backed, list, gc>>

MarkCommitted(t) ==
    /\ At(t, "mask") /\ Return(t)
    /\ commit_mask' = commit_mask \cup call[t].range
    /\ UNCHANGED <<global_committed, committed_bytes, backed, list, gc>>

-----------------------------------------------------------------------------
(* Volume::uncommit_range.                                                 *)

UncommitRange(t) == Begin(t, "uncount")

CountUncommitted(t) ==
    LET range == call[t].range
        bytes == get_committed_bytes_in_range(range)
    IN /\ At(t, "uncount")
       /\ IF DEBUG_MODE /\ ~EndsInMask(range) THEN Stop("CommittedMask.hpp:51")
          ELSE IF bytes = 0 THEN Return(t)
          ELSE Goto(t, "uncommit", [call[t] EXCEPT !.bytes = bytes])
       /\ UNCHANGED <<list, count, gc>>

OsUncommit(t) ==
    /\ At(t, "uncommit") /\ Goto(t, "unlimiter", call[t])
    /\ backed' = backed \ call[t].range
    /\ UNCHANGED <<committed_bytes, commit_mask, global_committed, list, gc>>

OsUncommitFails(t) ==
    /\ At(t, "uncommit") /\ Stop("Volume.cpp:182") /\ UNCHANGED <<list, count, gc>>

\* Mutant: uncommit_range takes the whole range from the limiter.
DecreaseLimiterAll(t) ==
    /\ At(t, "unlimiter") /\ Goto(t, "unstatistics", call[t])
    /\ global_committed' = global_committed - Cardinality(call[t].range)
    /\ UNCHANGED <<committed_bytes, commit_mask, backed, list, gc>>

DecreaseLimiter(t) ==
    /\ At(t, "unlimiter") /\ Goto(t, "unstatistics", call[t])
    /\ global_committed' = global_committed - call[t].bytes
    /\ UNCHANGED <<committed_bytes, commit_mask, backed, list, gc>>

DecreaseStatistics(t) ==
    /\ At(t, "unstatistics") /\ Goto(t, "unmask", call[t])
    /\ committed_bytes' = committed_bytes - call[t].bytes
    /\ UNCHANGED <<global_committed, commit_mask, backed, list, gc>>

MarkUncommitted(t) ==
    /\ At(t, "unmask") /\ Return(t)
    /\ commit_mask' = commit_mask \ call[t].range
    /\ UNCHANGED <<global_committed, committed_bytes, backed, list, gc>>

-----------------------------------------------------------------------------
(* MetaspaceGC.  threshold_with_gc reads the threshold, then raises it by  *)
(* compare-and-swap; a thread that loses is told to retry.                 *)

LoadThreshold(t) ==
    /\ Calls(t) /\ phase = "run" /\ Metaspace_lock # t
    /\ \E n \in 1..MaxMetaspaceExpansion :
         LET delta == clamp(n + MinMetaspaceExpansion, MinMetaspaceExpansion, MaxMetaspaceExpansion)
         IN IF gc_threshold + delta > MaxMetaspaceSize THEN Return(t)
            ELSE Goto(t, "cas", [call[t] EXCEPT !.bytes = delta, !.threshold = gc_threshold])
    /\ UNCHANGED <<list, count, gc>>

\* Mutant: the raised threshold is added without comparing.
CasThresholdBlind(t) ==
    /\ At(t, "cas") /\ Return(t)
    /\ gc_threshold' = gc_threshold + call[t].bytes
    /\ UNCHANGED <<shrink_factor, policy, list, count>>

CasThreshold(t) ==
    /\ At(t, "cas") /\ Return(t)
    /\ gc_threshold' = IF gc_threshold = call[t].threshold
                       THEN gc_threshold + call[t].bytes ELSE gc_threshold
    /\ UNCHANGED <<shrink_factor, policy, list, count>>

(* compute_new_gc_threshold runs after a collection, at a safepoint.  The  *)
(* threshold it wants has MinMetaspaceFreeRatio of it free, at least, and  *)
(* MaxMetaspaceFreeRatio at most.                                          *)
DesiredBytes(free_ratio) ==
    clamp((100 * committed_bytes * CommitGranuleBytes) \div (100 - free_ratio),
          MetaspaceSize * CommitGranuleBytes, MaxMetaspaceSize * CommitGranuleBytes)

align_up_granules(bytes) == (bytes + CommitGranuleBytes - 1) \div CommitGranuleBytes
MinDesired  == align_up_granules(DesiredBytes(MinMetaspaceFreeRatio))
\* Mutant: all that is not committed is in excess.
ExcessBytesAll == (gc_threshold - committed_bytes) * CommitGranuleBytes

ExcessBytes == gc_threshold * CommitGranuleBytes - DesiredBytes(MaxMetaspaceFreeRatio)
ShrinkBy    == ((ExcessBytes \div 100) * shrink_factor) \div CommitGranuleBytes

ExpandThreshold ==
    /\ vm_error = NoError /\ phase = "run" /\ Alone
    /\ gc_threshold < MinDesired
    /\ MinDesired - gc_threshold >= MinMetaspaceExpansion
    /\ gc_threshold' = MinDesired
    /\ UNCHANGED <<shrink_factor, policy, list, count, control>>

ShrinkThreshold ==
    /\ vm_error = NoError /\ phase = "run" /\ Alone
    /\ gc_threshold >= MinDesired
    /\ MaxMetaspaceFreeRatio < 100 /\ ExcessBytes > 0
    /\ gc_threshold' = IF ShrinkBy >= MinMetaspaceExpansion
                       THEN gc_threshold - ShrinkBy ELSE gc_threshold
    /\ shrink_factor' = IF shrink_factor = 0 THEN 10 ELSE MIN2(shrink_factor * 4, 100)
    /\ UNCHANGED <<policy, list, count, control>>

-----------------------------------------------------------------------------
Step(t) ==
    \/ UseRegion(t) \/ CreateNewVolume(t) \/ ReserveFails(t)
    \/ CommitRange(t) \/ CountCommitted(t) \/ AskPolicy(t)
    \/ OsCommit(t) \/ OsCommitFails(t)
    \/ IncreaseLimiter(t) \/ IncreaseStatistics(t) \/ MarkCommitted(t)
    \/ UncommitRange(t) \/ CountUncommitted(t) \/ OsUncommit(t) \/ OsUncommitFails(t)
    \/ DecreaseLimiter(t) \/ DecreaseStatistics(t) \/ MarkUncommitted(t)
    \/ LoadThreshold(t) \/ CasThreshold(t)

Next ==
    \/ GlobalInitialize \/ PostInitialize \/ ExpandThreshold \/ ShrinkThreshold
    \/ \E t \in Threads : Step(t)

Spec == Init /\ [][Next]_vars

-----------------------------------------------------------------------------
TypeOK ==
    /\ phase \in {"start", "boot", "run"}
    /\ volumes \in Seq([base : Nat, next_region_index : 1..RegionsPerVolume])
    /\ reserved_bytes \in Nat /\ committed_bytes \in Nat /\ global_committed \in Nat
    /\ commit_mask \subseteq Addresses /\ mapped \subseteq Addresses /\ backed \subseteq Addresses
    /\ policy \in BOOLEAN /\ gc_threshold \in Nat /\ shrink_factor \in Factors
    /\ Metaspace_lock \in Threads \cup {NoThread}
    /\ pc \in [Threads -> Labels]
    /\ call \in [Threads -> [range : SUBSET Addresses, bytes : Nat,
                               committed : Nat, threshold : Nat]]
    /\ tracer \in Int

(* What is committed never passes the threshold, nor the threshold         *)
(* MaxMetaspaceSize, although threads raise the threshold while others     *)
(* have asked for and not yet counted what they commit, and collections    *)
(* lower it (MetaspaceGC.cpp:192, 193, CommittedLimiter.cpp:15).           *)
WithinLimits ==
    /\ phase # "start" =>
         /\ global_committed <= gc_threshold /\ gc_threshold <= MaxMetaspaceSize
    /\ vm_error \notin {"MetaspaceGC.cpp:192", "MetaspaceGC.cpp:193"}

(* When Metaspace_lock is free, the limiter, the list's statistics, the    *)
(* masks and the kernel agree on what is committed (Volume.cpp:137-143 and *)
(* 192-198 change them one after the other).                               *)
CountersAgree ==
    Metaspace_lock = NoThread =>
        /\ commit_mask = backed
        /\ global_committed = Cardinality(commit_mask)
        /\ committed_bytes = Cardinality(commit_mask)

(* The volumes are apart, aligned, and exactly what the kernel and the     *)
(* memory tracer still count as reserved once reserve_memory_aligned has   *)
(* given back the ends; only reserved memory is committed                  *)
(* (plat/os/mem.cpp:106).                                                  *)
ReservationsAgree ==
    /\ \A i, j \in DOMAIN volumes :
         i # j => Reserved(volumes[i]) \cap Reserved(volumes[j]) = {}
    /\ \A i \in DOMAIN volumes : volumes[i].base % VolumeGranules = 0
    /\ mapped = UNION {Reserved(volumes[i]) : i \in DOMAIN volumes}
    /\ Cardinality(mapped) = reserved_bytes /\ tracer = reserved_bytes
    /\ backed \subseteq mapped

(* A collection that shrinks the threshold leaves free what the ratio      *)
(* allows: the next collection does not want to expand it again            *)
(* (MetaspaceGC.cpp:138, "we do not want to have to expand after we        *)
(* shrink").                                                               *)
NoExpandAfterShrink ==
    [][(phase' = phase /\ gc_threshold' < gc_threshold) => gc_threshold' >= MinDesired]_vars

=============================================================================
