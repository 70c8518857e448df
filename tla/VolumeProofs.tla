---------------------------- MODULE VolumeProofs ----------------------------
(***************************************************************************)
(* Whatever threads there are and however large the flags: the committed   *)
(* memory of the metaspace stays within its limits, the counters agree     *)
(* whenever Metaspace_lock is free, and the volumes, the kernel and the    *)
(* memory tracer agree on what is reserved.                                *)
(***************************************************************************)
EXTENDS Volume, FiniteSetTheorems, SequenceTheorems, TLAPS

-----------------------------------------------------------------------------
(* Division by a granule, or by a percentage.                              *)

LEMMA DivAtMost ==
    ASSUME NEW a \in Nat, NEW d \in Nat \ {0}, NEW x \in Int, a <= d * x
    PROVE  a \div d \in Nat /\ a \div d <= x
<1> DEFINE q == a \div d
<1>1. q \in Nat /\ d * q <= a
  BY SMT
<1>2. d * q <= d * x
  BY <1>1, SMT
<1>3. q <= x
  BY <1>1, <1>2, SMT
<1> QED
  BY <1>1, <1>3

LEMMA DivAtLeast ==
    ASSUME NEW a \in Nat, NEW d \in Nat \ {0}, NEW x \in Int, d * x <= a
    PROVE  x <= a \div d
<1> DEFINE q == a \div d
<1>1. q \in Nat /\ a < d * q + d
  BY SMT
<1>2. d * x < d * (q + 1)
  BY <1>1, SMT
<1>3. x < q + 1
  BY <1>1, <1>2, SMT
<1> QED
  BY <1>1, <1>3

(* What ergo_initialize makes of the flags.                                *)
LEMMA FlagsSound ==
    /\ MaxMetaspaceSize \in Nat \ {0} /\ MetaspaceSize \in Nat /\ MetaspaceSize <= MaxMetaspaceSize
    /\ MinMetaspaceExpansion \in Nat /\ MaxMetaspaceExpansion \in Nat
    /\ MinMetaspaceFreeRatio \in 0..99 /\ MaxMetaspaceFreeRatio \in 0..100
<1> DEFINE G == CommitGranuleBytes
           max == MAX2(flag.MaxMetaspaceSize, G)
           start == MIN2(flag.MetaspaceSize, max)
<1>1. /\ G \in Nat \ {0} /\ max \in Nat /\ start \in Nat /\ start <= max
      /\ flag.MaxMetaspaceExpansion \in Nat /\ flag.MinMetaspaceExpansion \in Nat
      /\ flag.MaxMetaspaceFreeRatio \in Nat /\ flag.MinMetaspaceFreeRatio \in 0..99
  BY VolumeAssumption, SMT DEF MAX2, MIN2
<1>2. \A n \in Nat : n \div G \in Nat
  BY <1>1, SMT
<1>3. \A n \in Nat : align_down_bounded(n) \in Nat \ {0}
  BY <1>2, SMT DEF align_down_bounded, MAX2
<1>4. start \div G <= max \div G
  <2> DEFINE q == start \div G
  <2>1. q \in Nat /\ G * q <= start
    BY <1>1, SMT
  <2>2. G * q <= max
    BY <1>1, <2>1, SMT
  <2>3. q <= max \div G
    BY <1>1, <2>1, <2>2, DivAtLeast
  <2> QED
    BY <2>3
<1>5. align_down_bounded(start) <= align_down_bounded(max)
  BY <1>1, <1>2, <1>4, SMT DEF align_down_bounded, MAX2
<1>6. MaxMetaspaceSize = align_down_bounded(max) /\ MetaspaceSize = align_down_bounded(start)
  BY DEF MaxMetaspaceSize, MetaspaceSize, MaxMetaspaceBytes
<1> HIDE DEF G, max, start
<1>7. MinMetaspaceFreeRatio \in 0..99 /\ MaxMetaspaceFreeRatio \in 0..100
  BY <1>1, SMT DEF MinMetaspaceFreeRatio, MaxMetaspaceFreeRatio, MIN2
<1>8. MinMetaspaceExpansion \in Nat /\ MaxMetaspaceExpansion \in Nat
  BY <1>1, <1>3 DEF MinMetaspaceExpansion, MaxMetaspaceExpansion
<1> QED
  BY <1>1, <1>3, <1>5, <1>6, <1>7, <1>8

(* The threshold a collection wants lies between what is committed and     *)
(* MaxMetaspaceSize.                                                       *)
LEMMA DesiredBounds ==
    ASSUME NEW ratio \in 0..99, committed_bytes \in Nat, committed_bytes <= MaxMetaspaceSize
    PROVE  /\ DesiredBytes(ratio) \in Nat
           /\ committed_bytes * CommitGranuleBytes <= DesiredBytes(ratio)
           /\ DesiredBytes(ratio) <= MaxMetaspaceSize * CommitGranuleBytes
<1> DEFINE G == CommitGranuleBytes
           c == committed_bytes * G
           min == MetaspaceSize * G
           max == MaxMetaspaceSize * G
           wanted == (100 * committed_bytes * G) \div (100 - ratio)
<1>1. G \in Nat \ {0} /\ 100 - ratio \in Nat \ {0}
  BY VolumeAssumption, SMT
<1>2. c \in Nat /\ min \in Nat /\ max \in Nat /\ c <= max /\ min <= max
  BY <1>1, FlagsSound, SMT
<1>3. 100 * committed_bytes * G = 100 * c
  BY <1>1, SMT
<1>4. 100 * c \in Nat /\ (100 - ratio) * c <= 100 * c
  BY <1>1, <1>2, SMT
<1>5. wanted \in Nat /\ c <= wanted
  <2>1. c <= (100 * c) \div (100 - ratio)
    <3> HIDE DEF c
    <3> QED BY <1>1, <1>2, <1>4, DivAtLeast
  <2>2. (100 * c) \div (100 - ratio) \in Nat
    <3> HIDE DEF c
    <3> QED BY <1>1, <1>4, SMT
  <2> QED BY <2>1, <2>2, <1>3
<1>6. DesiredBytes(ratio) = clamp(wanted, min, max)
  BY DEF DesiredBytes
<1> HIDE DEF c, min, max, wanted
<1>7. clamp(wanted, min, max) \in Nat /\ c <= clamp(wanted, min, max) /\ clamp(wanted, min, max) <= max
  BY <1>2, <1>5, SMT DEF clamp, MIN2, MAX2
<1> QED
  BY <1>6, <1>7 DEF c, max

LEMMA MinDesiredBounds ==
    ASSUME committed_bytes \in Nat, committed_bytes <= MaxMetaspaceSize
    PROVE  MinDesired \in Nat /\ MinDesired <= MaxMetaspaceSize
<1> DEFINE G == CommitGranuleBytes
           d == DesiredBytes(MinMetaspaceFreeRatio)
<1>1. G \in Nat \ {0} /\ MaxMetaspaceSize \in Nat
  BY VolumeAssumption, FlagsSound
<1>2. d \in Nat /\ d <= MaxMetaspaceSize * G
  BY DesiredBounds, FlagsSound
<1>3. MinDesired = (d + G - 1) \div G
  BY DEF MinDesired, align_up_granules
<1> HIDE DEF d
<1>4. d + G - 1 \in Nat /\ d + G - 1 < G * (MaxMetaspaceSize + 1)
  BY <1>1, <1>2, SMT
<1> DEFINE q == (d + G - 1) \div G
<1>5. q \in Nat /\ G * q <= d + G - 1
  BY <1>1, <1>4, SMT
<1>6. G * q < G * (MaxMetaspaceSize + 1)
  BY <1>1, <1>4, <1>5, SMT
<1>7. q < MaxMetaspaceSize + 1
  BY <1>1, <1>5, <1>6, SMT
<1> QED
  BY <1>1, <1>3, <1>5, <1>7, SMT

(* A collection that shrinks the threshold leaves it above what is         *)
(* committed.                                                              *)
LEMMA ShrinkKeepsCommitted ==
    ASSUME committed_bytes \in Nat, committed_bytes <= gc_threshold, gc_threshold \in Nat,
           gc_threshold <= MaxMetaspaceSize, shrink_factor \in Factors,
           MaxMetaspaceFreeRatio < 100, ExcessBytes > 0
    PROVE  ShrinkBy \in Nat /\ ShrinkBy <= gc_threshold - committed_bytes
<1> DEFINE G == CommitGranuleBytes
           d == DesiredBytes(MaxMetaspaceFreeRatio)
           room == gc_threshold - committed_bytes
           hundredth == ExcessBytes \div 100
           part == hundredth * shrink_factor
<1>1. G \in Nat \ {0} /\ room \in Nat /\ MaxMetaspaceFreeRatio \in 0..99
      /\ committed_bytes <= MaxMetaspaceSize
  BY VolumeAssumption, FlagsSound, SMT
<1>2. d \in Nat /\ committed_bytes * G <= d
  BY <1>1, DesiredBounds
<1>3. ExcessBytes = gc_threshold * G - d
  BY DEF ExcessBytes
<1> HIDE DEF d
<1>4. ExcessBytes \in Nat /\ ExcessBytes <= G * room
  BY <1>1, <1>2, <1>3, SMT
<1>5. hundredth \in Nat /\ 100 * hundredth <= ExcessBytes
  BY <1>4, SMT
<1>6. shrink_factor \in 0..100
  BY DEF Factors
<1>7. part \in Nat /\ part <= 100 * hundredth
  BY <1>5, <1>6, SMT
<1>8. part <= G * room
  BY <1>1, <1>4, <1>5, <1>7, SMT
<1>9. ShrinkBy = part \div G
  BY DEF ShrinkBy
<1> HIDE DEF part, room
<1>10. part \div G \in Nat /\ part \div G <= room
  BY <1>1, <1>7, <1>8, DivAtMost
<1> QED
  BY <1>9, <1>10 DEF room

-----------------------------------------------------------------------------
(* The inductive invariant: types, who holds the lock, what a thread in the*)
(* middle of a call has read, and by how much the counters of the holder   *)
(* are ahead of the masks.                                                 *)

Locked == {"count", "policy", "commit", "limiter", "statistics", "mask",
           "uncount", "uncommit", "unlimiter", "unstatistics", "unmask"}
Locals == [range : {r \in SUBSET Int : IsFiniteSet(r)}, bytes : Nat, committed : Nat, threshold : Nat]

Types ==
    /\ phase \in {"start", "boot", "run"} /\ policy \in BOOLEAN
    /\ gc_threshold \in Nat /\ shrink_factor \in Factors
    /\ committed_bytes \in Nat /\ global_committed \in Nat /\ IsFiniteSet(commit_mask)
    /\ pc \in [Threads -> Labels] /\ call \in [Threads -> Locals]

Locking ==
    /\ Metaspace_lock \in Threads \cup {NoThread}
    /\ \A t \in Threads : pc[t] \in Locked <=> Metaspace_lock = t

Phases ==
    /\ phase # "start" => policy
    /\ phase = "start" => global_committed = 0 /\ \A t \in Threads : pc[t] = "idle"

Pending(t) ==
    /\ pc[t] = "policy" => call[t].committed = global_committed
    /\ pc[t] \in {"commit", "limiter"} => global_committed + call[t].bytes <= gc_threshold
    /\ pc[t] = "cas" => call[t].threshold + call[t].bytes <= MaxMetaspaceSize

Limits ==
    /\ WithinLimits
    /\ \A t \in Threads : Pending(t)

(* The limiter and the list count `ahead' and `listed' more than the masks *)
(* do, and the kernel has what is in `real'.                               *)
Counted(ahead, listed, real) ==
    /\ global_committed = Cardinality(commit_mask) + ahead
    /\ committed_bytes = Cardinality(commit_mask) + listed
    /\ backed = real

Counting(t) ==
    LET range == call[t].range
        bytes == call[t].bytes
        added   == Cardinality(range \ commit_mask)
        removed == Cardinality(range \cap commit_mask)
        more == commit_mask \cup range
        less == commit_mask \ range
    IN /\ pc[t] \in {"count", "uncount"} => Counted(0, 0, commit_mask)
       /\ pc[t] \in {"policy", "commit", "limiter", "statistics", "mask"} => bytes = added
       /\ pc[t] \in {"uncommit", "unlimiter", "unstatistics", "unmask"} => bytes = removed
       /\ pc[t] \in {"policy", "commit", "uncommit"} => Counted(0, 0, commit_mask)
       /\ pc[t] = "limiter"      => Counted(0, 0, more)
       /\ pc[t] = "statistics"   => Counted(bytes, 0, more)
       /\ pc[t] = "mask"         => Counted(bytes, bytes, more)
       /\ pc[t] = "unlimiter"    => Counted(0, 0, less)
       /\ pc[t] = "unstatistics" => Counted(-bytes, 0, less)
       /\ pc[t] = "unmask"       => Counted(-bytes, -bytes, less)

Counts ==
    /\ Metaspace_lock = NoThread => Counted(0, 0, commit_mask)
    /\ \A t \in Threads : pc[t] \in Locked => Counting(t)

IInv == Types /\ Locking /\ Phases /\ Limits /\ Counts

-----------------------------------------------------------------------------
LEMMA InitInv == Init => IInv
<1> SUFFICES ASSUME Init PROVE IInv
  OBVIOUS
<1>1. IsFiniteSet({}) /\ Cardinality({}) = 0
  BY FS_EmptySet
<1>2. Idle \in Locals
  BY <1>1, SMT DEF Idle, Locals
<1>3. Types
  <2>1. pc \in [Threads -> Labels]
    BY DEF Init, Labels
  <2>2. call \in [Threads -> Locals]
    BY <1>2 DEF Init
  <2>3. IsFiniteSet(commit_mask)
    BY <1>1 DEF Init
  <2>4. policy \in BOOLEAN
    BY Zenon DEF Init
  <2>5. /\ phase \in {"start", "boot", "run"}
        /\ gc_threshold \in Nat /\ shrink_factor \in Factors
        /\ committed_bytes \in Nat /\ global_committed \in Nat
    BY SMT DEF Init, Factors
  <2> QED
    BY <2>1, <2>2, <2>3, <2>4, <2>5 DEF Types
<1>4. Locking
  BY VolumeAssumption, SMT DEF Init, Locking, Locked
<1>5. Phases
  BY SMT DEF Init, Phases
<1>6. Limits
  BY VolumeAssumption, SMT DEF Init, Limits, WithinLimits, Pending
<1>7. Counts
  BY <1>1, SMT DEF Init, Counts, Counted, Locked
<1> QED
  BY <1>3, <1>4, <1>5, <1>6, <1>7 DEF IInv

(* Nothing of what the invariant speaks of changes, except that the program*)
(* may stop.                                                               *)
LEMMA Quiet ==
    ASSUME IInv, UNCHANGED <<phase, pc, call, Metaspace_lock, count, gc>>,
           vm_error' \notin {"MetaspaceGC.cpp:192", "MetaspaceGC.cpp:193"}
    PROVE  IInv'
<1>1. Types'
  BY DEF IInv, Types, count, gc
<1>2. Locking' /\ Phases'
  BY DEF IInv, Locking, Phases, count, gc
<1>3. Limits'
  BY DEF IInv, Limits, WithinLimits, Pending, count, gc
<1>4. Counts'
  BY DEF IInv, Counts, Counting, Counted, count, gc
<1> QED
  BY <1>1, <1>2, <1>3, <1>4 DEF IInv

(* The thread that holds the lock moves on, the others do not.             *)
LEMMA HolderStep ==
    ASSUME IInv, NEW t \in Threads, NEW l \in Locked, NEW locals \in Locals,
           pc[t] \in Locked,
           pc' = [pc EXCEPT ![t] = l], call' = [call EXCEPT ![t] = locals],
           UNCHANGED <<phase, Metaspace_lock, vm_error, gc>>,
           global_committed' \in Nat, committed_bytes' \in Nat, IsFiniteSet(commit_mask'),
           global_committed' <= gc_threshold, Pending(t)', Counting(t)'
    PROVE  IInv'
<1>1. Metaspace_lock = t /\ t # NoThread
  BY VolumeAssumption DEF IInv, Locking
<1>2. \A u \in Threads : u # t => pc'[u] = pc[u] /\ call'[u] = call[u] /\ pc[u] \notin Locked
  BY <1>1 DEF IInv, Locking, Types
<1>3. pc'[t] = l
  BY DEF IInv, Types
<1>4. Types'
  BY SMT DEF IInv, Types, Locked, Labels, gc
<1>5. Locking'
  BY <1>1, <1>2, <1>3 DEF IInv, Locking
<1>6. Phases'
  <2>1. phase # "start"
    BY SMT DEF IInv, Phases, Locked
  <2> QED
    BY <2>1 DEF IInv, Phases, gc
<1>7. \A u \in Threads : Pending(u)'
  BY <1>2 DEF IInv, Limits, Pending, Locked
<1>8. WithinLimits'
  BY <1>6, SMT DEF IInv, Limits, WithinLimits, gc
<1>9. Counts'
  BY <1>1, <1>2 DEF Counts
<1> QED
  BY <1>4, <1>5, <1>6, <1>7, <1>8, <1>9 DEF IInv, Limits

(* It releases the lock.                                                   *)
LEMMA HolderReturns ==
    ASSUME IInv, NEW t \in Threads, pc[t] \in Locked, Return(t), UNCHANGED gc,
           UNCHANGED <<global_committed, committed_bytes>>,
           IsFiniteSet(commit_mask'), Counted(0, 0, commit_mask)'
    PROVE  IInv'
<1>1. Metaspace_lock = t /\ t # NoThread /\ Metaspace_lock' = NoThread
  BY VolumeAssumption DEF IInv, Locking, Return
<1>2. \A u \in Threads : u # t => pc'[u] = pc[u] /\ call'[u] = call[u] /\ pc[u] \notin Locked
  BY <1>1 DEF IInv, Locking, Types, Return
<1>3. pc'[t] = "idle" /\ "idle" \notin Locked
  BY DEF IInv, Types, Return, Locked
<1>4. Idle \in Locals
  BY FS_EmptySet, SMT DEF Idle, Locals
<1>5. Types'
  BY <1>4, SMT DEF IInv, Types, Labels, Return, gc
<1>6. Locking'
  BY <1>1, <1>2, <1>3, VolumeAssumption DEF Locking
<1>7. Phases'
  <2>1. phase # "start"
    BY SMT DEF IInv, Phases, Locked
  <2> QED
    BY <2>1 DEF IInv, Phases, Return, gc
<1>8. \A u \in Threads : Pending(u)'
  BY <1>2, <1>3, SMT DEF IInv, Limits, Pending, Locked
<1>9. WithinLimits'
  BY SMT DEF IInv, Limits, WithinLimits, Return, gc
<1>10. Counts'
  BY <1>1, <1>2, <1>3 DEF Counts
<1> QED
  BY <1>5, <1>6, <1>7, <1>8, <1>9, <1>10 DEF IInv, Limits

(* A thread that does not hold the lock moves; the threshold may rise.     *)
LEMMA OtherStep ==
    ASSUME IInv, NEW t \in Threads, NEW l \in {"idle", "cas"}, NEW locals \in Locals,
           pc[t] \in {"idle", "cas"}, phase # "start",
           pc' = [pc EXCEPT ![t] = l], call' = [call EXCEPT ![t] = locals],
           UNCHANGED <<phase, Metaspace_lock, vm_error, count, shrink_factor, policy>>,
           gc_threshold' \in Nat, gc_threshold <= gc_threshold',
           gc_threshold' <= MaxMetaspaceSize, Pending(t)'
    PROVE  IInv'
<1>1. Types'
  BY SMT DEF IInv, Types, Labels, count
<1>2. \A u \in Threads : u # t => pc'[u] = pc[u] /\ call'[u] = call[u]
  BY DEF IInv, Types
<1>3. pc'[t] = l /\ l \notin Locked /\ pc[t] \notin Locked
  BY SMT DEF IInv, Types, Locked
<1>4. Locking'
  BY <1>2, <1>3 DEF IInv, Locking
<1>5. Phases'
  BY DEF IInv, Phases, count
<1>6. WithinLimits'
  <2>1. global_committed <= gc_threshold /\ global_committed \in Nat /\ gc_threshold \in Nat
    BY DEF IInv, Limits, WithinLimits, Types
  <2>2. global_committed' <= gc_threshold'
    BY <2>1, SMT DEF count
  <2> QED
    BY <2>2 DEF IInv, Limits, WithinLimits
<1>7. ASSUME NEW u \in Threads PROVE Pending(u)'
  <2>1. CASE u = t
    BY <2>1
  <2>2. CASE u # t
    <3>1. Pending(u) /\ call[u].bytes \in Nat /\ gc_threshold \in Nat /\ global_committed \in Nat
      BY DEF IInv, Limits, Types, Locals
    <3> QED
      BY <1>2, <2>2, <3>1, SMT DEF Pending, count
  <2> QED
    BY <2>1, <2>2
<1>8. Counts'
  <2>1. (Metaspace_lock = NoThread => Counted(0, 0, commit_mask))'
    BY DEF IInv, Counts, Counted, count
  <2>2. ASSUME NEW u \in Threads, pc'[u] \in Locked PROVE Counting(u)'
    <3>1. u # t /\ pc'[u] = pc[u] /\ call'[u] = call[u]
      BY <1>2, <1>3, <2>2
    <3>2. Counting(u)
      BY <2>2, <3>1 DEF IInv, Counts
    <3> QED
      BY <3>1, <3>2 DEF Counting, Counted, count
  <2> QED
    BY <2>1, <2>2 DEF Counts
<1> QED
  BY <1>1, <1>4, <1>5, <1>6, <1>7, <1>8 DEF IInv, Limits

(* A thread takes the lock.                                                *)
LEMMA BeginStep ==
    ASSUME IInv, NEW t \in Threads, NEW label \in {"count", "uncount"}, Begin(t, label)
    PROVE  IInv'
<1>1. Metaspace_lock = NoThread /\ pc[t] = "idle" /\ phase # "start"
  BY SMT DEF Begin, Locks, Calls, At
<1>2. PICK first \in Int, last \in Int :
        call' = [call EXCEPT ![t] =
                   [range |-> first..last, bytes |-> 0, committed |-> 0, threshold |-> 0]]
  <2>1. PICK i \in DOMAIN volumes, r \in 0..(RegionsPerVolume - 1) :
          \E first, last \in Region(volumes[i], r) :
            call' = [call EXCEPT ![t] =
                       [range |-> first..last, bytes |-> 0, committed |-> 0, threshold |-> 0]]
    BY Zenon DEF Begin
  <2>2. Region(volumes[i], r) \subseteq Int
    BY DEF Region, AddressRange
  <2> QED
    BY <2>1, <2>2, Zenon
<1> DEFINE locals == [range |-> first..last, bytes |-> 0, committed |-> 0, threshold |-> 0]
<1>3. locals \in Locals
  <2>1. IsFiniteSet(first..last) /\ first..last \in SUBSET Int
    BY FS_Interval
  <2> QED
    BY <2>1, SMT DEF Locals
<1>4. \A u \in Threads : pc[u] \notin Locked
  BY <1>1, VolumeAssumption DEF IInv, Locking
<1>5. /\ Metaspace_lock' = t /\ pc' = [pc EXCEPT ![t] = label]
      /\ UNCHANGED <<phase, count, gc, vm_error>>
  BY DEF Begin
<1> HIDE DEF locals
<1>6. \A u \in Threads : u # t => pc'[u] = pc[u] /\ call'[u] = call[u]
  BY <1>2, <1>5 DEF IInv, Types
<1>7. pc'[t] = label /\ label \in Locked /\ label \in Labels
  BY <1>5, SMT DEF IInv, Types, Locked, Labels
<1>8. Types'
  BY <1>2, <1>3, <1>5, <1>7 DEF IInv, Types, count, gc, locals
<1>9. Locking'
  BY <1>4, <1>5, <1>6, <1>7 DEF IInv, Locking
<1>10. Phases'
  BY <1>1, <1>5 DEF IInv, Phases, gc
<1>11. Limits'
  <2>1. WithinLimits'
    BY <1>5 DEF IInv, Limits, WithinLimits, count, gc
  <2>2. Pending(t)'
    BY <1>7, SMT DEF Pending
  <2>3. \A u \in Threads : u # t => Pending(u)'
    BY <1>5, <1>6 DEF IInv, Limits, Pending, count, gc
  <2> QED
    BY <2>1, <2>2, <2>3 DEF Limits
<1>12. Counts'
  <2>1. Counted(0, 0, commit_mask)'
    BY <1>1, <1>5 DEF IInv, Counts, Counted, count
  <2>2. Counting(t)'
    BY <2>1, <1>7, SMT DEF Counting
  <2>3. \A u \in Threads : u # t => pc'[u] \notin Locked
    BY <1>4, <1>6
  <2> QED
    BY <1>5, <2>2, <2>3, VolumeAssumption DEF Counts
<1> QED
  BY <1>8, <1>9, <1>10, <1>11, <1>12 DEF IInv

(* What a range adds to the masks, and what it takes away.                 *)
LEMMA RangeCounts ==
    ASSUME NEW C, NEW R, IsFiniteSet(C), IsFiniteSet(R)
    PROVE  /\ IsFiniteSet(C \cup R) /\ IsFiniteSet(C \ R)
           /\ Cardinality(C) \in Nat /\ Cardinality(R \ C) \in Nat /\ Cardinality(R \cap C) \in Nat
           /\ Cardinality(R) - Cardinality(R \cap C) = Cardinality(R \ C)
           /\ Cardinality(C \cup R) = Cardinality(C) + Cardinality(R \ C)
           /\ Cardinality(C \ R) = Cardinality(C) - Cardinality(R \cap C)
           /\ Cardinality(R \cap C) <= Cardinality(C)
<1>1. /\ IsFiniteSet(C \cup R) /\ IsFiniteSet(C \ R) /\ IsFiniteSet(R \ C) /\ IsFiniteSet(C \cap R)
  BY FS_Union, FS_Difference, FS_Intersection
<1>2. C \cap R = R \cap C
  OBVIOUS
<1>3. /\ Cardinality(C) \in Nat /\ Cardinality(R) \in Nat /\ Cardinality(R \ C) \in Nat
      /\ Cardinality(C \ R) \in Nat /\ Cardinality(R \cap C) \in Nat
  BY <1>1, <1>2, FS_CardinalityType
<1>4. /\ Cardinality(R \ C) = Cardinality(R) - Cardinality(R \cap C)
      /\ Cardinality(C \ R) = Cardinality(C) - Cardinality(R \cap C)
  BY <1>2, FS_Difference
<1>5. Cardinality(C \cup R) = Cardinality(C) + Cardinality(R) - Cardinality(R \cap C)
  BY <1>2, FS_Union
<1> QED
  BY <1>1, <1>3, <1>4, <1>5, SMT

(* A thread in the middle of a call has committed within the threshold.    *)
LEMMA Underway ==
    ASSUME IInv, NEW t \in Threads, pc[t] # "idle"
    PROVE  phase # "start" /\ policy /\ global_committed <= gc_threshold
<1>1. phase # "start"
  BY DEF IInv, Phases
<1> QED
  BY <1>1 DEF IInv, Phases, Limits, WithinLimits

(* The steps of commit_range.                                              *)
LEMMA CountCommittedStep ==
    ASSUME IInv, NEW t \in Threads, CountCommitted(t)
    PROVE  IInv'
<1> DEFINE range == call[t].range
           bytes == Cardinality(range) - Cardinality(range \cap commit_mask)
           locals == [call[t] EXCEPT !.bytes = bytes, !.committed = global_committed]
<1>1. pc[t] = "count" /\ pc[t] \in Locked /\ UNCHANGED <<count, gc>>
  BY DEF CountCommitted, At, Locked
<1>2. IsFiniteSet(range) /\ IsFiniteSet(commit_mask) /\ range \in SUBSET Int
  BY DEF IInv, Types, Locals
<1>3. bytes \in Nat /\ bytes = Cardinality(range \ commit_mask)
  BY <1>2, RangeCounts
<1>4. Counted(0, 0, commit_mask)
  <2>1. Counting(t)
    BY <1>1 DEF IInv, Counts
  <2> QED
    BY <1>1, <2>1 DEF Counting
<1>5. CASE Stop("CommittedMask.hpp:51")
  BY <1>1, <1>5, Quiet DEF Stop
<1>6. CASE Return(t)
  BY <1>1, <1>2, <1>4, <1>6, HolderReturns DEF count, Counted
<1>7. CASE Goto(t, "policy", locals)
  <2>1. locals \in Locals /\ locals.range = range /\ locals.bytes = bytes
        /\ locals.committed = global_committed
    BY <1>3 DEF IInv, Types, Locals
  <2>2. pc'[t] = "policy" /\ call'[t] = locals
    BY <1>7 DEF IInv, Types, Goto
  <2>3. Pending(t)'
    BY <1>1, <2>1, <2>2 DEF Pending, count
  <2>4. Counting(t)'
    BY <1>1, <1>3, <1>4, <2>1, <2>2, SMT DEF Counting, Counted, count
  <2>5. /\ global_committed' <= gc_threshold /\ IsFiniteSet(commit_mask')
        /\ global_committed' \in Nat /\ committed_bytes' \in Nat /\ "policy" \in Locked
    BY <1>1, Underway DEF IInv, Types, count, Locked
  <2> HIDE DEF locals
  <2> QED
    BY <1>1, <1>7, <2>1, <2>3, <2>4, <2>5, HolderStep DEF Goto
<1> QED
  BY <1>5, <1>6, <1>7 DEF CountCommitted, get_committed_bytes_in_range

LEMMA AskPolicyStep ==
    ASSUME IInv, NEW t \in Threads, AskPolicy(t)
    PROVE  IInv'
<1> DEFINE range == call[t].range
           bytes == call[t].bytes
<1>1. pc[t] = "policy" /\ "policy" \in Locked /\ "commit" \in Locked /\ pc[t] # "idle"
  BY DEF AskPolicy, At, Locked
<1>2. /\ IsFiniteSet(range) /\ IsFiniteSet(commit_mask) /\ bytes \in Nat /\ call[t] \in Locals
      /\ committed_bytes \in Nat /\ global_committed \in Nat /\ gc_threshold \in Nat
  BY DEF IInv, Types, Locals
<1>3. /\ global_committed <= gc_threshold /\ Counting(t) /\ Pending(t)
  BY <1>1, Underway DEF IInv, Limits, Counts
<1>4. UNCHANGED <<count, gc>>
  BY DEF AskPolicy
<1>5. gc_threshold <= MaxMetaspaceSize /\ call[t].committed = global_committed /\ policy
  BY <1>1, <1>3, Underway DEF IInv, Limits, WithinLimits, Pending
<1>6. ~(gc_threshold > MaxMetaspaceSize) /\ ~(call[t].committed > gc_threshold)
  BY <1>2, <1>3, <1>5, FlagsSound, SMT
<1>7. CASE possible_expand_bytes(call[t].committed) < bytes
  <2>1. Return(t)
    BY <1>6, <1>7 DEF AskPolicy
  <2>2. Counted(0, 0, commit_mask)
    BY <1>1, <1>3 DEF Counting
  <2> QED
    BY <1>1, <1>2, <1>4, <2>1, <2>2, HolderReturns DEF count, Counted
<1>8. CASE ~(possible_expand_bytes(call[t].committed) < bytes)
  <2>1. Goto(t, "commit", call[t])
    BY <1>6, <1>8 DEF AskPolicy
  <2>2. pc'[t] = "commit" /\ call'[t] = call[t]
    BY <2>1 DEF Goto, IInv, Types
  <2>3. global_committed + bytes <= gc_threshold
    <3>1. possible_expand_bytes(global_committed) <= gc_threshold - global_committed
      BY <1>2, <1>5, FlagsSound, SMT DEF possible_expand_bytes, allowed_expansion, MIN2
    <3>2. possible_expand_bytes(global_committed) \in Int
      BY <1>2, <1>5, FlagsSound, SMT DEF possible_expand_bytes, allowed_expansion, MIN2
    <3> QED
      BY <1>2, <1>5, <1>8, <3>1, <3>2, SMT
  <2>4. Pending(t)'
    BY <1>4, <2>2, <2>3 DEF Pending, count, gc
  <2>5. Counting(t)'
    BY <1>1, <1>3, <1>4, <2>2 DEF Counting, Counted, count
  <2> QED
    BY <1>1, <1>2, <1>3, <1>4, <2>1, <2>4, <2>5, HolderStep DEF Goto, count
<1> QED
  BY <1>7, <1>8

LEMMA OsCommitStep ==
    ASSUME IInv, NEW t \in Threads, OsCommit(t)
    PROVE  IInv'
<1> DEFINE range == call[t].range
           bytes == call[t].bytes
<1>1. pc[t] = "commit" /\ "commit" \in Locked /\ "limiter" \in Locked /\ pc[t] # "idle"
  BY DEF OsCommit, At, Locked
<1>2. /\ IsFiniteSet(range) /\ IsFiniteSet(commit_mask) /\ bytes \in Nat /\ call[t] \in Locals
      /\ committed_bytes \in Nat /\ global_committed \in Nat /\ gc_threshold \in Nat
  BY DEF IInv, Types, Locals
<1>3. /\ global_committed <= gc_threshold /\ Counting(t) /\ Pending(t)
  BY <1>1, Underway DEF IInv, Limits, Counts
<1>4. /\ pc'[t] = "limiter" /\ call'[t] = call[t] /\ Goto(t, "limiter", call[t]) /\ UNCHANGED gc
      /\ backed' = backed \cup range /\ UNCHANGED <<committed_bytes, commit_mask, global_committed>>
  BY DEF OsCommit, Goto, IInv, Types
<1>5. /\ Cardinality(commit_mask) \in Nat /\ Cardinality(range \cap commit_mask) <= Cardinality(commit_mask)
      /\ Cardinality(range \cap commit_mask) \in Nat
  BY <1>2, RangeCounts
<1>6. Counting(t)'
  BY <1>1, <1>2, <1>3, <1>4, <1>5, SMT DEF Counting, Counted
<1>7. /\ global_committed' \in Nat /\ committed_bytes' \in Nat /\ IsFiniteSet(commit_mask')
      /\ global_committed' <= gc_threshold
  BY <1>1, <1>2, <1>3, <1>4, <1>5, SMT DEF Counting, Counted, Pending
<1>8. Pending(t)'
  BY <1>1, <1>3, <1>4 DEF Pending, gc
<1> QED
  BY <1>1, <1>2, <1>4, <1>6, <1>7, <1>8, HolderStep DEF Goto

LEMMA IncreaseLimiterStep ==
    ASSUME IInv, NEW t \in Threads, IncreaseLimiter(t)
    PROVE  IInv'
<1> DEFINE range == call[t].range
           bytes == call[t].bytes
<1>1. pc[t] = "limiter" /\ "limiter" \in Locked /\ "statistics" \in Locked /\ pc[t] # "idle"
  BY DEF IncreaseLimiter, At, Locked
<1>2. /\ IsFiniteSet(range) /\ IsFiniteSet(commit_mask) /\ bytes \in Nat /\ call[t] \in Locals
      /\ committed_bytes \in Nat /\ global_committed \in Nat /\ gc_threshold \in Nat
  BY DEF IInv, Types, Locals
<1>3. /\ global_committed <= gc_threshold /\ Counting(t) /\ Pending(t)
  BY <1>1, Underway DEF IInv, Limits, Counts
<1>4. /\ pc'[t] = "statistics" /\ call'[t] = call[t] /\ Goto(t, "statistics", call[t]) /\ UNCHANGED gc
      /\ global_committed' = global_committed + bytes /\ UNCHANGED <<committed_bytes, commit_mask, backed>>
  BY DEF IncreaseLimiter, Goto, IInv, Types
<1>5. /\ Cardinality(commit_mask) \in Nat /\ Cardinality(range \cap commit_mask) <= Cardinality(commit_mask)
      /\ Cardinality(range \cap commit_mask) \in Nat
  BY <1>2, RangeCounts
<1>6. Counting(t)'
  BY <1>1, <1>2, <1>3, <1>4, <1>5, SMT DEF Counting, Counted
<1>7. /\ global_committed' \in Nat /\ committed_bytes' \in Nat /\ IsFiniteSet(commit_mask')
      /\ global_committed' <= gc_threshold
  BY <1>1, <1>2, <1>3, <1>4, <1>5, SMT DEF Counting, Counted, Pending
<1>8. Pending(t)'
  BY <1>1, <1>3, <1>4 DEF Pending, gc
<1> QED
  BY <1>1, <1>2, <1>4, <1>6, <1>7, <1>8, HolderStep DEF Goto

LEMMA IncreaseStatisticsStep ==
    ASSUME IInv, NEW t \in Threads, IncreaseStatistics(t)
    PROVE  IInv'
<1> DEFINE range == call[t].range
           bytes == call[t].bytes
<1>1. pc[t] = "statistics" /\ "statistics" \in Locked /\ "mask" \in Locked /\ pc[t] # "idle"
  BY DEF IncreaseStatistics, At, Locked
<1>2. /\ IsFiniteSet(range) /\ IsFiniteSet(commit_mask) /\ bytes \in Nat /\ call[t] \in Locals
      /\ committed_bytes \in Nat /\ global_committed \in Nat /\ gc_threshold \in Nat
  BY DEF IInv, Types, Locals
<1>3. /\ global_committed <= gc_threshold /\ Counting(t) /\ Pending(t)
  BY <1>1, Underway DEF IInv, Limits, Counts
<1>4. /\ pc'[t] = "mask" /\ call'[t] = call[t] /\ Goto(t, "mask", call[t]) /\ UNCHANGED gc
      /\ committed_bytes' = committed_bytes + bytes /\ UNCHANGED <<global_committed, commit_mask, backed>>
  BY DEF IncreaseStatistics, Goto, IInv, Types
<1>5. /\ Cardinality(commit_mask) \in Nat /\ Cardinality(range \cap commit_mask) <= Cardinality(commit_mask)
      /\ Cardinality(range \cap commit_mask) \in Nat
  BY <1>2, RangeCounts
<1>6. Counting(t)'
  BY <1>1, <1>2, <1>3, <1>4, <1>5, SMT DEF Counting, Counted
<1>7. /\ global_committed' \in Nat /\ committed_bytes' \in Nat /\ IsFiniteSet(commit_mask')
      /\ global_committed' <= gc_threshold
  BY <1>1, <1>2, <1>3, <1>4, <1>5, SMT DEF Counting, Counted, Pending
<1>8. Pending(t)'
  BY <1>1, <1>3, <1>4 DEF Pending, gc
<1> QED
  BY <1>1, <1>2, <1>4, <1>6, <1>7, <1>8, HolderStep DEF Goto

LEMMA OsUncommitStep ==
    ASSUME IInv, NEW t \in Threads, OsUncommit(t)
    PROVE  IInv'
<1> DEFINE range == call[t].range
           bytes == call[t].bytes
<1>1. pc[t] = "uncommit" /\ "uncommit" \in Locked /\ "unlimiter" \in Locked /\ pc[t] # "idle"
  BY DEF OsUncommit, At, Locked
<1>2. /\ IsFiniteSet(range) /\ IsFiniteSet(commit_mask) /\ bytes \in Nat /\ call[t] \in Locals
      /\ committed_bytes \in Nat /\ global_committed \in Nat /\ gc_threshold \in Nat
  BY DEF IInv, Types, Locals
<1>3. /\ global_committed <= gc_threshold /\ Counting(t) /\ Pending(t)
  BY <1>1, Underway DEF IInv, Limits, Counts
<1>4. /\ pc'[t] = "unlimiter" /\ call'[t] = call[t] /\ Goto(t, "unlimiter", call[t]) /\ UNCHANGED gc
      /\ backed' = backed \ range /\ UNCHANGED <<committed_bytes, commit_mask, global_committed>>
  BY DEF OsUncommit, Goto, IInv, Types
<1>5. /\ Cardinality(commit_mask) \in Nat /\ Cardinality(range \cap commit_mask) <= Cardinality(commit_mask)
      /\ Cardinality(range \cap commit_mask) \in Nat
  BY <1>2, RangeCounts
<1>6. Counting(t)'
  BY <1>1, <1>2, <1>3, <1>4, <1>5, SMT DEF Counting, Counted
<1>7. /\ global_committed' \in Nat /\ committed_bytes' \in Nat /\ IsFiniteSet(commit_mask')
      /\ global_committed' <= gc_threshold
  BY <1>1, <1>2, <1>3, <1>4, <1>5, SMT DEF Counting, Counted, Pending
<1>8. Pending(t)'
  BY <1>1, <1>3, <1>4 DEF Pending, gc
<1> QED
  BY <1>1, <1>2, <1>4, <1>6, <1>7, <1>8, HolderStep DEF Goto

LEMMA DecreaseLimiterStep ==
    ASSUME IInv, NEW t \in Threads, DecreaseLimiter(t)
    PROVE  IInv'
<1> DEFINE range == call[t].range
           bytes == call[t].bytes
<1>1. pc[t] = "unlimiter" /\ "unlimiter" \in Locked /\ "unstatistics" \in Locked /\ pc[t] # "idle"
  BY DEF DecreaseLimiter, At, Locked
<1>2. /\ IsFiniteSet(range) /\ IsFiniteSet(commit_mask) /\ bytes \in Nat /\ call[t] \in Locals
      /\ committed_bytes \in Nat /\ global_committed \in Nat /\ gc_threshold \in Nat
  BY DEF IInv, Types, Locals
<1>3. /\ global_committed <= gc_threshold /\ Counting(t) /\ Pending(t)
  BY <1>1, Underway DEF IInv, Limits, Counts
<1>4. /\ pc'[t] = "unstatistics" /\ call'[t] = call[t] /\ Goto(t, "unstatistics", call[t]) /\ UNCHANGED gc
      /\ global_committed' = global_committed - bytes /\ UNCHANGED <<committed_bytes, commit_mask, backed>>
  BY DEF DecreaseLimiter, Goto, IInv, Types
<1>5. /\ Cardinality(commit_mask) \in Nat /\ Cardinality(range \cap commit_mask) <= Cardinality(commit_mask)
      /\ Cardinality(range \cap commit_mask) \in Nat
  BY <1>2, RangeCounts
<1>6. Counting(t)'
  BY <1>1, <1>2, <1>3, <1>4, <1>5, SMT DEF Counting, Counted
<1>7. /\ global_committed' \in Nat /\ committed_bytes' \in Nat /\ IsFiniteSet(commit_mask')
      /\ global_committed' <= gc_threshold
  BY <1>1, <1>2, <1>3, <1>4, <1>5, SMT DEF Counting, Counted, Pending
<1>8. Pending(t)'
  BY <1>1, <1>3, <1>4 DEF Pending, gc
<1> QED
  BY <1>1, <1>2, <1>4, <1>6, <1>7, <1>8, HolderStep DEF Goto

LEMMA DecreaseStatisticsStep ==
    ASSUME IInv, NEW t \in Threads, DecreaseStatistics(t)
    PROVE  IInv'
<1> DEFINE range == call[t].range
           bytes == call[t].bytes
<1>1. pc[t] = "unstatistics" /\ "unstatistics" \in Locked /\ "unmask" \in Locked /\ pc[t] # "idle"
  BY DEF DecreaseStatistics, At, Locked
<1>2. /\ IsFiniteSet(range) /\ IsFiniteSet(commit_mask) /\ bytes \in Nat /\ call[t] \in Locals
      /\ committed_bytes \in Nat /\ global_committed \in Nat /\ gc_threshold \in Nat
  BY DEF IInv, Types, Locals
<1>3. /\ global_committed <= gc_threshold /\ Counting(t) /\ Pending(t)
  BY <1>1, Underway DEF IInv, Limits, Counts
<1>4. /\ pc'[t] = "unmask" /\ call'[t] = call[t] /\ Goto(t, "unmask", call[t]) /\ UNCHANGED gc
      /\ committed_bytes' = committed_bytes - bytes /\ UNCHANGED <<global_committed, commit_mask, backed>>
  BY DEF DecreaseStatistics, Goto, IInv, Types
<1>5. /\ Cardinality(commit_mask) \in Nat /\ Cardinality(range \cap commit_mask) <= Cardinality(commit_mask)
      /\ Cardinality(range \cap commit_mask) \in Nat
  BY <1>2, RangeCounts
<1>6. Counting(t)'
  BY <1>1, <1>2, <1>3, <1>4, <1>5, SMT DEF Counting, Counted
<1>7. /\ global_committed' \in Nat /\ committed_bytes' \in Nat /\ IsFiniteSet(commit_mask')
      /\ global_committed' <= gc_threshold
  BY <1>1, <1>2, <1>3, <1>4, <1>5, SMT DEF Counting, Counted, Pending
<1>8. Pending(t)'
  BY <1>1, <1>3, <1>4 DEF Pending, gc
<1> QED
  BY <1>1, <1>2, <1>4, <1>6, <1>7, <1>8, HolderStep DEF Goto

LEMMA MarkCommittedStep ==
    ASSUME IInv, NEW t \in Threads, MarkCommitted(t)
    PROVE  IInv'
<1> DEFINE range == call[t].range
<1>1. pc[t] = "mask" /\ "mask" \in Locked /\ commit_mask' = commit_mask \cup range
      /\ Return(t) /\ UNCHANGED <<global_committed, committed_bytes, backed, gc>>
  BY DEF MarkCommitted, At, Locked
<1>2. IsFiniteSet(range) /\ IsFiniteSet(commit_mask) /\ Counting(t)
  BY <1>1 DEF IInv, Types, Locals, Counts
<1>3. /\ IsFiniteSet(commit_mask \cup range)
      /\ Cardinality(commit_mask) \in Nat /\ Cardinality(range \ commit_mask) \in Nat
      /\ Cardinality(commit_mask \cup range) = Cardinality(commit_mask) + Cardinality(range \ commit_mask)
  BY <1>2, RangeCounts
<1>4. Counted(0, 0, commit_mask)'
  BY <1>1, <1>2, <1>3, SMT DEF Counting, Counted
<1> QED
  BY <1>1, <1>3, <1>4, HolderReturns

(* The steps of uncommit_range.                                            *)
LEMMA CountUncommittedStep ==
    ASSUME IInv, NEW t \in Threads, CountUncommitted(t)
    PROVE  IInv'
<1> DEFINE range == call[t].range
           bytes == Cardinality(range \cap commit_mask)
           locals == [call[t] EXCEPT !.bytes = bytes]
<1>1. pc[t] = "uncount" /\ pc[t] \in Locked /\ UNCHANGED <<count, gc>>
  BY DEF CountUncommitted, At, Locked
<1>2. IsFiniteSet(range) /\ IsFiniteSet(commit_mask) /\ range \in SUBSET Int
  BY DEF IInv, Types, Locals
<1>3. bytes \in Nat
  BY <1>2, RangeCounts
<1>4. Counted(0, 0, commit_mask)
  <2>1. Counting(t)
    BY <1>1 DEF IInv, Counts
  <2> QED
    BY <1>1, <2>1 DEF Counting
<1>5. CASE Stop("CommittedMask.hpp:51")
  BY <1>1, <1>5, Quiet DEF Stop
<1>6. CASE Return(t)
  BY <1>1, <1>2, <1>4, <1>6, HolderReturns DEF count, Counted
<1>7. CASE Goto(t, "uncommit", locals)
  <2>1. locals \in Locals /\ locals.range = range /\ locals.bytes = bytes
    BY <1>3 DEF IInv, Types, Locals
  <2>2. pc'[t] = "uncommit" /\ call'[t] = locals
    BY <1>7 DEF IInv, Types, Goto
  <2>3. Pending(t)'
    BY <2>2 DEF Pending
  <2>4. Counting(t)'
    BY <1>1, <1>4, <2>1, <2>2, SMT DEF Counting, Counted, count
  <2>5. /\ global_committed' <= gc_threshold /\ IsFiniteSet(commit_mask')
        /\ global_committed' \in Nat /\ committed_bytes' \in Nat /\ "uncommit" \in Locked
    BY <1>1, Underway DEF IInv, Types, count, Locked
  <2> HIDE DEF locals
  <2> QED
    BY <1>1, <1>7, <2>1, <2>3, <2>4, <2>5, HolderStep DEF Goto
<1> QED
  BY <1>5, <1>6, <1>7 DEF CountUncommitted, get_committed_bytes_in_range

LEMMA MarkUncommittedStep ==
    ASSUME IInv, NEW t \in Threads, MarkUncommitted(t)
    PROVE  IInv'
<1> DEFINE range == call[t].range
<1>1. pc[t] = "unmask" /\ "unmask" \in Locked /\ commit_mask' = commit_mask \ range
      /\ Return(t) /\ UNCHANGED <<global_committed, committed_bytes, backed, gc>>
  BY DEF MarkUncommitted, At, Locked
<1>2. IsFiniteSet(range) /\ IsFiniteSet(commit_mask) /\ Counting(t)
  BY <1>1 DEF IInv, Types, Locals, Counts
<1>3. /\ IsFiniteSet(commit_mask \ range)
      /\ Cardinality(commit_mask) \in Nat /\ Cardinality(range \cap commit_mask) \in Nat
      /\ Cardinality(commit_mask \ range) = Cardinality(commit_mask) - Cardinality(range \cap commit_mask)
  BY <1>2, RangeCounts
<1>4. Counted(0, 0, commit_mask)'
  BY <1>1, <1>2, <1>3, SMT DEF Counting, Counted
<1> QED
  BY <1>1, <1>3, <1>4, HolderReturns

(* The steps of threshold_with_gc, which take no lock.                     *)
LEMMA IdleLocal == Idle \in Locals
  BY FS_EmptySet, SMT DEF Idle, Locals

LEMMA LoadThresholdStep ==
    ASSUME IInv, NEW t \in Threads, LoadThreshold(t)
    PROVE  IInv'
<1>1. /\ pc[t] = "idle" /\ phase = "run" /\ Metaspace_lock # t
      /\ UNCHANGED <<count, gc>>
  BY DEF LoadThreshold, Calls, At
<1>2. /\ gc_threshold \in Nat /\ gc_threshold <= MaxMetaspaceSize /\ call[t] \in Locals
  BY <1>1 DEF IInv, Types, Limits, WithinLimits
<1> DEFINE same == /\ gc_threshold' \in Nat /\ gc_threshold <= gc_threshold'
                   /\ gc_threshold' <= MaxMetaspaceSize /\ UNCHANGED <<shrink_factor, policy>>
<1>same. same
  BY <1>1, <1>2, SMT DEF gc
<1>3. CASE Return(t)
  <2>1. /\ pc' = [pc EXCEPT ![t] = "idle"] /\ call' = [call EXCEPT ![t] = Idle]
        /\ UNCHANGED <<phase, Metaspace_lock, vm_error>>
    BY <1>1, <1>3 DEF Return
  <2>2. Pending(t)'
    BY <2>1 DEF Pending, IInv, Types
  <2> QED
    BY <1>1, <1>same, <2>1, <2>2, IdleLocal, OtherStep
<1>4. ASSUME NEW n \in 1..MaxMetaspaceExpansion,
             NEW delta,
             delta = clamp(n + MinMetaspaceExpansion, MinMetaspaceExpansion, MaxMetaspaceExpansion),
             ~(gc_threshold + delta > MaxMetaspaceSize),
             Goto(t, "cas", [call[t] EXCEPT !.bytes = delta, !.threshold = gc_threshold])
      PROVE  IInv'
  <2> DEFINE locals == [call[t] EXCEPT !.bytes = delta, !.threshold = gc_threshold]
  <2>1. delta \in Nat
    BY <1>4, FlagsSound, SMT DEF clamp, MIN2, MAX2
  <2>2. gc_threshold + delta <= MaxMetaspaceSize
    BY <1>2, <1>4, <2>1, FlagsSound, SMT
  <2>3. locals \in Locals /\ locals.bytes = delta /\ locals.threshold = gc_threshold
    BY <1>2, <2>1 DEF Locals
  <2>4. pc'[t] = "cas" /\ call'[t] = locals
    BY <1>4 DEF Goto, IInv, Types
  <2>5. Pending(t)'
    BY <2>2, <2>3, <2>4 DEF Pending
  <2>6. /\ pc' = [pc EXCEPT ![t] = "cas"] /\ call' = [call EXCEPT ![t] = locals]
        /\ UNCHANGED <<phase, Metaspace_lock, vm_error>>
    BY <1>4 DEF Goto
  <2> HIDE DEF locals
  <2> QED
    BY <1>1, <1>same, <2>3, <2>5, <2>6, OtherStep
<1> QED
  BY <1>3, <1>4, Zenon DEF LoadThreshold

LEMMA CasThresholdStep ==
    ASSUME IInv, NEW t \in Threads, CasThreshold(t)
    PROVE  IInv'
<1>1. /\ pc[t] = "cas" /\ pc[t] \notin Locked /\ Return(t)
      /\ UNCHANGED <<count, shrink_factor, policy>>
  BY DEF CasThreshold, At, Locked
<1>2. Metaspace_lock # t /\ phase # "start"
  BY <1>1, Underway DEF IInv, Locking
<1>3. /\ gc_threshold \in Nat /\ gc_threshold <= MaxMetaspaceSize
      /\ call[t].bytes \in Nat /\ call[t].threshold + call[t].bytes <= MaxMetaspaceSize
  BY <1>1, <1>2 DEF IInv, Types, Locals, Limits, WithinLimits, Pending
<1>4. /\ gc_threshold' \in Nat /\ gc_threshold <= gc_threshold'
      /\ gc_threshold' <= MaxMetaspaceSize
  BY <1>3, SMT DEF CasThreshold
<1>5. /\ pc' = [pc EXCEPT ![t] = "idle"] /\ call' = [call EXCEPT ![t] = Idle]
      /\ UNCHANGED <<phase, Metaspace_lock, vm_error>>
  BY <1>1, <1>2 DEF Return
<1>6. Pending(t)'
  BY <1>5 DEF Pending, IInv, Types
<1> QED
  BY <1>1, <1>2, <1>4, <1>5, <1>6, IdleLocal, OtherStep

(* The threshold is set while no thread is in a call: nothing is pending.  *)
LEMMA ThresholdSet ==
    ASSUME IInv, Alone, UNCHANGED <<count, pc, call, Metaspace_lock, vm_error>>,
           phase' \in {"boot", "run"}, policy', shrink_factor' \in Factors,
           gc_threshold' \in Nat, global_committed <= gc_threshold',
           gc_threshold' <= MaxMetaspaceSize
    PROVE  IInv'
<1>1. \A t \in Threads : pc'[t] = "idle" /\ "idle" \notin Locked
  BY SMT DEF Alone, Locked
<1>2. Types'
  <2>1. policy' \in BOOLEAN /\ phase' \in {"start", "boot", "run"}
    BY Zenon
  <2> QED
    BY <2>1 DEF IInv, Types, count
<1>3. Locking' /\ Phases'
  BY DEF IInv, Locking, Phases, count
<1>4. Limits'
  <2>1. WithinLimits'
    BY DEF IInv, Limits, WithinLimits, count
  <2> QED
    BY <1>1, <2>1, SMT DEF Limits, Pending
<1>5. Counts'
  <2>1. (Metaspace_lock = NoThread => Counted(0, 0, commit_mask))'
    BY DEF IInv, Counts, Counted, count
  <2> QED
    BY <1>1, <2>1 DEF Counts
<1> QED
  BY <1>2, <1>3, <1>4, <1>5 DEF IInv

LEMMA GlobalInitializeStep == IInv /\ GlobalInitialize => IInv'
<1> SUFFICES ASSUME IInv, GlobalInitialize PROVE IInv'
  OBVIOUS
<1>1. Alone /\ global_committed = 0
  BY DEF GlobalInitialize, IInv, Phases, Alone
<1>2. MaxMetaspaceSize \in Nat /\ shrink_factor \in Factors
  BY FlagsSound DEF IInv, Types
<1>3. policy'
  BY Zenon DEF GlobalInitialize
<1>4. 0 <= MaxMetaspaceSize
  BY <1>2, SMT
<1> QED
  BY <1>1, <1>2, <1>3, <1>4, ThresholdSet DEF GlobalInitialize

(* At a safepoint, and when the program starts to run, the list's          *)
(* statistics are what the limiter has counted.                            *)
LEMMA AloneCounts ==
    ASSUME IInv, Alone, phase # "start"
    PROVE  /\ policy /\ committed_bytes = global_committed /\ committed_bytes \in Nat
           /\ gc_threshold \in Nat /\ committed_bytes <= gc_threshold
           /\ gc_threshold <= MaxMetaspaceSize /\ committed_bytes <= MaxMetaspaceSize
           /\ shrink_factor \in Factors
<1>1. Metaspace_lock = NoThread
  BY DEF IInv, Locking, Alone, Locked
<1>2. committed_bytes = global_committed
  BY <1>1 DEF IInv, Counts, Counted
<1>3. policy /\ global_committed <= gc_threshold /\ gc_threshold <= MaxMetaspaceSize
  BY DEF IInv, Phases, Limits, WithinLimits
<1>4. committed_bytes \in Nat /\ gc_threshold \in Nat /\ shrink_factor \in Factors
  BY DEF IInv, Types
<1> QED
  BY <1>2, <1>3, <1>4, FlagsSound, SMT

LEMMA PostInitializeStep == IInv /\ PostInitialize => IInv'
<1> SUFFICES ASSUME IInv, PostInitialize PROVE IInv'
  OBVIOUS
<1>1. Alone /\ phase # "start" /\ gc_threshold' = MAX2(MetaspaceSize, committed_bytes)
  BY DEF PostInitialize
<1>2. /\ gc_threshold' \in Nat /\ committed_bytes <= gc_threshold'
      /\ gc_threshold' <= MaxMetaspaceSize
  BY <1>1, AloneCounts, FlagsSound, SMT DEF MAX2
<1>3. policy'
  BY <1>1, AloneCounts DEF PostInitialize
<1> QED
  BY <1>1, <1>2, <1>3, AloneCounts, ThresholdSet DEF PostInitialize

LEMMA ExpandThresholdStep == IInv /\ ExpandThreshold => IInv'
<1> SUFFICES ASSUME IInv, ExpandThreshold PROVE IInv'
  OBVIOUS
<1>1. Alone /\ phase # "start" /\ gc_threshold' = MinDesired /\ gc_threshold < MinDesired
  BY DEF ExpandThreshold
<1>2. MinDesired \in Nat /\ MinDesired <= MaxMetaspaceSize
  BY <1>1, AloneCounts, MinDesiredBounds
<1>3. committed_bytes <= gc_threshold'
  BY <1>1, <1>2, AloneCounts, SMT
<1>4. policy'
  BY <1>1, AloneCounts DEF ExpandThreshold
<1> QED
  BY <1>1, <1>2, <1>3, <1>4, AloneCounts, ThresholdSet DEF ExpandThreshold, control

LEMMA ShrinkThresholdStep == IInv /\ ShrinkThreshold => IInv'
<1> SUFFICES ASSUME IInv, ShrinkThreshold PROVE IInv'
  OBVIOUS
<1>1. /\ Alone /\ phase # "start" /\ MaxMetaspaceFreeRatio < 100 /\ ExcessBytes > 0
      /\ gc_threshold' = IF ShrinkBy >= MinMetaspaceExpansion
                         THEN gc_threshold - ShrinkBy ELSE gc_threshold
  BY DEF ShrinkThreshold
<1>2. ShrinkBy \in Nat /\ ShrinkBy <= gc_threshold - committed_bytes
  BY <1>1, AloneCounts, ShrinkKeepsCommitted
<1>3. /\ gc_threshold' \in Nat /\ committed_bytes <= gc_threshold'
      /\ gc_threshold' <= MaxMetaspaceSize
  BY <1>1, <1>2, AloneCounts, FlagsSound, SMT
<1>4. shrink_factor' \in Factors
  BY <1>1, AloneCounts, SMT DEF ShrinkThreshold, Factors, MIN2
<1>5. policy'
  BY <1>1, AloneCounts DEF ShrinkThreshold
<1> QED
  BY <1>1, <1>3, <1>4, <1>5, AloneCounts, ThresholdSet DEF ShrinkThreshold, control

-----------------------------------------------------------------------------
LEMMA NextKeepsIInv == IInv /\ [Next]_vars => IInv'
<1> SUFFICES ASSUME IInv, [Next]_vars PROVE IInv'
  OBVIOUS
<1>1. CASE GlobalInitialize
  BY <1>1, GlobalInitializeStep
<1>2. CASE PostInitialize
  BY <1>2, PostInitializeStep
<1>3. CASE ExpandThreshold
  BY <1>3, ExpandThresholdStep
<1>4. CASE ShrinkThreshold
  BY <1>4, ShrinkThresholdStep
<1>5. ASSUME NEW t \in Threads, Step(t) PROVE IInv'
  <2>1. CASE UseRegion(t) \/ CreateNewVolume(t)
    <3>1. UNCHANGED <<phase, pc, call, Metaspace_lock, count, gc>> /\ vm_error' = vm_error
      BY <2>1 DEF UseRegion, CreateNewVolume, control
    <3> QED
      BY <3>1, Quiet DEF IInv, Limits, WithinLimits
  <2>2. CASE ReserveFails(t) \/ OsCommitFails(t) \/ OsUncommitFails(t)
    <3>1. UNCHANGED <<phase, pc, call, Metaspace_lock, count, gc>>
          /\ vm_error' \in {"VolumeList.cpp:27", "Volume.cpp:126", "Volume.cpp:182"}
      BY <2>2 DEF ReserveFails, OsCommitFails, OsUncommitFails, Stop
    <3>2. vm_error' \notin {"MetaspaceGC.cpp:192", "MetaspaceGC.cpp:193"}
      BY <3>1, SMT
    <3> QED
      BY <3>1, <3>2, Quiet
  <2>3. CASE CommitRange(t) \/ UncommitRange(t)
    BY <2>3, BeginStep DEF CommitRange, UncommitRange
  <2>4. CASE CountCommitted(t) \/ AskPolicy(t) \/ OsCommit(t)
    BY <2>4, CountCommittedStep, AskPolicyStep, OsCommitStep
  <2>5. CASE IncreaseLimiter(t) \/ IncreaseStatistics(t) \/ MarkCommitted(t)
    BY <2>5, IncreaseLimiterStep, IncreaseStatisticsStep, MarkCommittedStep
  <2>6. CASE CountUncommitted(t) \/ OsUncommit(t)
    BY <2>6, CountUncommittedStep, OsUncommitStep
  <2>7. CASE DecreaseLimiter(t) \/ DecreaseStatistics(t) \/ MarkUncommitted(t)
    BY <2>7, DecreaseLimiterStep, DecreaseStatisticsStep, MarkUncommittedStep
  <2>8. CASE LoadThreshold(t) \/ CasThreshold(t)
    BY <2>8, LoadThresholdStep, CasThresholdStep
  <2> QED
    BY <1>5, <2>1, <2>2, <2>3, <2>4, <2>5, <2>6, <2>7, <2>8 DEF Step
<1>6. CASE UNCHANGED vars
  <2>1. UNCHANGED <<phase, pc, call, Metaspace_lock, count, gc>> /\ vm_error' = vm_error
    BY <1>6 DEF vars, control
  <2> QED
    BY <2>1, Quiet DEF IInv, Limits, WithinLimits
<1> QED
  BY <1>1, <1>2, <1>3, <1>4, <1>5, <1>6 DEF Next

LEMMA Inductive == Spec => []IInv
  BY InitInv, NextKeepsIInv, PTL DEF Spec

(* The committed memory stays within the threshold, the threshold within   *)
(* MaxMetaspaceSize, and the assertions of allowed_expansion hold, however *)
(* raised thresholds, commits and collections interleave.                  *)
THEOREM MetaspaceLimits == Spec => []WithinLimits
<1>1. IInv => WithinLimits
  BY DEF IInv, Limits
<1> QED
  BY <1>1, Inductive, PTL

(* Limiter, statistics, masks and kernel agree when the lock is free.      *)
THEOREM MetaspaceCounters == Spec => []CountersAgree
<1>1. ASSUME IInv PROVE CountersAgree
  <2>1. CASE Metaspace_lock = NoThread
    <3>1. Counted(0, 0, commit_mask) /\ Cardinality(commit_mask) \in Nat
      BY <1>1, <2>1, FS_CardinalityType DEF IInv, Counts, Types
    <3> QED
      BY <3>1, SMT DEF Counted, CountersAgree
  <2> QED
    BY <2>1 DEF CountersAgree
<1> QED
  BY <1>1, Inductive, PTL

-----------------------------------------------------------------------------
(* A larger free ratio wants a larger threshold.                           *)
LEMMA DesiredMonotone ==
    ASSUME NEW a \in 0..99, NEW b \in 0..99, a <= b,
           committed_bytes \in Nat, committed_bytes <= MaxMetaspaceSize
    PROVE  DesiredBytes(a) <= DesiredBytes(b)
<1> DEFINE G == CommitGranuleBytes
           x == 100 * committed_bytes * G
           min == MetaspaceSize * G
           max == MaxMetaspaceSize * G
           p == x \div (100 - a)
           q == x \div (100 - b)
<1>1. G \in Nat \ {0} /\ 100 - a \in Nat \ {0} /\ 100 - b \in Nat \ {0} /\ 100 - b <= 100 - a
  BY VolumeAssumption, SMT
<1>2. x \in Nat /\ min \in Nat /\ max \in Nat /\ min <= max
  BY <1>1, FlagsSound, SMT
<1> HIDE DEF x, min, max
<1>3. p \in Nat /\ (100 - a) * p <= x /\ q \in Nat
  BY <1>1, <1>2, SMT
<1>4. (100 - b) * p <= (100 - a) * p /\ (100 - b) * p \in Nat /\ (100 - a) * p \in Nat
  <2> HIDE DEF p, q
  <2> QED BY <1>1, <1>3, SMT
<1>5. (100 - b) * p <= x
  BY <1>2, <1>3, <1>4, SMT
<1>6. p <= q
  <2> HIDE DEF p
  <2> QED BY <1>1, <1>2, <1>3, <1>5, DivAtLeast
<1> HIDE DEF p, q
<1>7. clamp(p, min, max) <= clamp(q, min, max)
  BY <1>2, <1>3, <1>6, SMT DEF clamp, MIN2, MAX2
<1> QED
  BY <1>7 DEF DesiredBytes, p, q, x, min, max

(* A collection that shrinks the threshold takes no more than what is above*)
(* the threshold the largest free ratio wants.                             *)
LEMMA ShrinkLeavesDesired ==
    ASSUME MinMetaspaceFreeRatio <= MaxMetaspaceFreeRatio,
           committed_bytes \in Nat, committed_bytes <= gc_threshold, gc_threshold \in Nat,
           gc_threshold <= MaxMetaspaceSize, shrink_factor \in Factors,
           MaxMetaspaceFreeRatio < 100, ExcessBytes > 0
    PROVE  MinDesired <= gc_threshold - ShrinkBy
<1> DEFINE G == CommitGranuleBytes
           d == DesiredBytes(MaxMetaspaceFreeRatio)
           e == DesiredBytes(MinMetaspaceFreeRatio)
           hundredth == ExcessBytes \div 100
           part == hundredth * shrink_factor
           by == part \div G
           q == (e + G - 1) \div G
           left == gc_threshold - by
<1>1. /\ G \in Nat \ {0} /\ MaxMetaspaceFreeRatio \in 0..99 /\ MinMetaspaceFreeRatio \in 0..99
      /\ committed_bytes <= MaxMetaspaceSize
  BY VolumeAssumption, FlagsSound, SMT
<1>2. d \in Nat /\ e \in Nat /\ e <= d
  BY <1>1, DesiredBounds, DesiredMonotone
<1>3. ExcessBytes = gc_threshold * G - d /\ ShrinkBy = by /\ MinDesired = q
  BY DEF ExcessBytes, ShrinkBy, MinDesired, align_up_granules
<1> HIDE DEF d, e
<1>4. ExcessBytes \in Nat
  BY <1>1, <1>2, <1>3, SMT
<1>5. hundredth \in Nat /\ 100 * hundredth <= ExcessBytes
  BY <1>4, SMT
<1>6. shrink_factor \in 0..100
  BY DEF Factors
<1>7. part \in Nat /\ part <= 100 * hundredth
  BY <1>5, <1>6, SMT
<1> HIDE DEF part
<1>8. by \in Nat /\ G * by <= part
  BY <1>1, <1>7, SMT
<1>9. left \in Int /\ G * left = gc_threshold * G - G * by
  <2> HIDE DEF by
  <2> QED BY <1>1, <1>8, SMT
<1>10. d <= G * left
  <2> HIDE DEF by, left, hundredth
  <2> QED BY <1>1, <1>2, <1>3, <1>4, <1>5, <1>7, <1>8, <1>9, SMT
<1>11. e + G - 1 \in Nat /\ e + G - 1 < G * (left + 1)
  <2> HIDE DEF by, left
  <2> QED BY <1>1, <1>2, <1>9, <1>10, SMT
<1>12. q \in Nat /\ G * q <= e + G - 1
  BY <1>1, <1>11, SMT
<1>13. G * q < G * (left + 1)
  <2> HIDE DEF q, left
  <2> QED BY <1>1, <1>9, <1>11, <1>12, SMT
<1>14. q < left + 1
  <2> HIDE DEF q, left
  <2> QED BY <1>1, <1>9, <1>12, <1>13, SMT
<1> QED
  <2> HIDE DEF q, by
  <2> QED BY <1>3, <1>8, <1>9, <1>12, <1>14, SMT

(* A collection that shrinks the threshold does not make the next one      *)
(* expand it, when the flags ask for no more free than they allow: nothing *)
(* in ergo_initialize makes MinMetaspaceFreeRatio the smaller one.         *)
THEOREM NoExpandNext ==
    ASSUME MinMetaspaceFreeRatio <= MaxMetaspaceFreeRatio
    PROVE  Spec => NoExpandAfterShrink
<1> DEFINE A == (phase' = phase /\ gc_threshold' < gc_threshold) => gc_threshold' >= MinDesired
<1>1. ASSUME IInv, [Next]_vars PROVE [A]_vars
  <2> SUFFICES ASSUME Next, phase' = phase, gc_threshold' < gc_threshold
               PROVE  gc_threshold' >= MinDesired
    BY <1>1
  <2>0. gc_threshold \in Nat
    BY <1>1 DEF IInv, Types
  <2>1. CASE GlobalInitialize
    BY <2>1 DEF GlobalInitialize
  <2>2. CASE PostInitialize
    BY <2>2 DEF PostInitialize
  <2>3. CASE ExpandThreshold
    <3>1. MinDesired \in Nat
      BY <1>1, <2>3, AloneCounts, MinDesiredBounds DEF ExpandThreshold
    <3> QED
      BY <2>3, <3>1, SMT DEF ExpandThreshold
  <2>4. CASE ShrinkThreshold
    <3>1. /\ Alone /\ phase # "start" /\ MaxMetaspaceFreeRatio < 100 /\ ExcessBytes > 0
      BY <2>4 DEF ShrinkThreshold
    <3>2. /\ committed_bytes \in Nat /\ committed_bytes <= gc_threshold
          /\ gc_threshold <= MaxMetaspaceSize /\ shrink_factor \in Factors
          /\ committed_bytes <= MaxMetaspaceSize
      BY <1>1, <3>1, AloneCounts
    <3>3. MinDesired <= gc_threshold - ShrinkBy /\ MinDesired \in Nat /\ ShrinkBy \in Nat
      BY <2>0, <3>1, <3>2, ShrinkLeavesDesired, ShrinkKeepsCommitted, MinDesiredBounds
    <3>4. gc_threshold' = gc_threshold - ShrinkBy
      BY <2>0, <2>4, SMT DEF ShrinkThreshold
    <3> QED
      BY <2>0, <3>3, <3>4, SMT
  <2>5. ASSUME NEW t \in Threads, Step(t) PROVE FALSE
    <3>1. CASE CasThreshold(t)
      <4>1. call[t].bytes \in Nat
        BY <1>1 DEF IInv, Types, Locals
      <4> QED
        BY <2>0, <3>1, <4>1, SMT DEF CasThreshold
    <3>2. CASE ~CasThreshold(t)
      <4>1. UNCHANGED gc
        BY <2>5, <3>2 DEF Step, UseRegion, CreateNewVolume, ReserveFails, CommitRange, Begin,
             CountCommitted, AskPolicy, OsCommit, OsCommitFails, IncreaseLimiter,
             IncreaseStatistics, MarkCommitted, UncommitRange, CountUncommitted, OsUncommit,
             OsUncommitFails, DecreaseLimiter, DecreaseStatistics, MarkUncommitted, LoadThreshold
      <4> QED
        BY <2>0, <4>1, SMT DEF gc
    <3> QED
      BY <3>1, <3>2
  <2> QED
    BY <2>1, <2>2, <2>3, <2>4, <2>5 DEF Next
<1>2. Spec => [][A]_vars
  BY <1>1, Inductive, PTL DEF Spec
<1> QED
  BY <1>2 DEF NoExpandAfterShrink
-----------------------------------------------------------------------------
(* The address space.  The second inductive invariant: besides what        *)
(* ReservationsAgree says, the ranges that calls work on and the committed *)
(* granules lie in what the volumes reserve.                               *)

VolumeRecords == [base : Nat, next_region_index : 1..RegionsPerVolume]

Space ==
    /\ volumes \in Seq(VolumeRecords) /\ reserved_bytes \in Nat
    /\ mapped \subseteq Addresses /\ commit_mask \subseteq mapped
    /\ ReservationsAgree
    /\ \A t \in Threads : call[t].range \subseteq mapped

LEMMA VolumeSize ==
    /\ VolumeGranules \in Nat \ {0} /\ RegionGranules \in Nat \ {0}
    /\ RegionsPerVolume \in Nat \ {0}
<1>1. RegionGranules \in Nat \ {0} /\ RegionsPerVolume \in Nat \ {0}
  BY VolumeAssumption
<1>2. RegionGranules * RegionsPerVolume \in Nat \ {0}
  BY <1>1, SMT
<1> QED
  BY <1>1, <1>2 DEF VolumeGranules

(* A multiple of d has no remainder.                                       *)
LEMMA MultipleOf ==
    ASSUME NEW q \in Nat, NEW d \in Nat \ {0}
    PROVE  (q * d) % d = 0
<1> DEFINE p == (q * d) \div d
           r == (q * d) % d
<1>1. q * d \in Nat
  BY SMT
<1>2. p \in Nat /\ r \in 0..(d - 1) /\ q * d = d * p + r
  BY <1>1, SMT
<1> HIDE DEF p, r
<1>3. d * (q - p) = r
  BY <1>2, SMT
<1>4. CASE q - p >= 1
  <2>1. d * (q - p) >= d
    BY <1>2, <1>4, SMT
  <2> QED
    BY <1>2, <1>3, <2>1, SMT
<1>5. CASE q - p <= -1
  <2>1. d * (q - p) <= -d
    BY <1>2, <1>5, SMT
  <2> QED
    BY <1>2, <1>3, <2>1, SMT
<1>6. CASE q - p = 0
  <2>1. d * (q - p) = 0
    BY <1>6, SMT
  <2> QED
    BY <1>3, <2>1 DEF r
<1> QED
  BY <1>2, <1>4, <1>5, <1>6, SMT

(* os::reserve_memory_aligned: the aligned base lies within one alignment  *)
(* of what mmap returned.                                                  *)
LEMMA AlignedBase ==
    ASSUME NEW extra \in Nat, NEW V \in Nat \ {0}, NEW base,
           base = ((extra + V - 1) \div V) * V
    PROVE  base \in Nat /\ extra <= base /\ base < extra + V /\ base % V = 0
<1> DEFINE q == (extra + V - 1) \div V
<1>1. q \in Nat /\ V * q <= extra + V - 1 /\ extra + V - 1 < V * q + V
  BY SMT
<1>2. base = q * V
  OBVIOUS
<1> HIDE DEF q
<1>3. base % V = 0
  BY <1>1, <1>2, MultipleOf
<1> QED
  BY <1>1, <1>2, <1>3, SMT

(* A region that has been taken lies in its volume.                        *)
LEMMA RegionInVolume ==
    ASSUME NEW v \in VolumeRecords, NEW r \in 0..(RegionsPerVolume - 1)
    PROVE  Region(v, r) \subseteq Reserved(v)
<1>1. v.base \in Nat
  BY DEF VolumeRecords
<1>2. r * RegionGranules + RegionGranules <= RegionGranules * RegionsPerVolume
  <2>1. r + 1 <= RegionsPerVolume /\ r \in Nat
    BY VolumeSize, SMT
  <2>2. RegionGranules * (r + 1) <= RegionGranules * RegionsPerVolume
    BY <2>1, VolumeSize, SMT
  <2> QED
    BY <2>1, <2>2, VolumeSize, SMT
<1>3. r * RegionGranules \in Nat
  BY VolumeSize, SMT
<1> QED
  <2> DEFINE offset == r * RegionGranules
  <2>1. offset \in Nat /\ offset + RegionGranules <= VolumeGranules
    BY <1>2, <1>3 DEF VolumeGranules
  <2> HIDE DEF offset
  <2>2. AddressRange(v.base + offset, RegionGranules) \subseteq AddressRange(v.base, VolumeGranules)
    BY <1>1, <2>1, VolumeSize, SMT DEF AddressRange
  <2> QED
    BY <2>2 DEF Region, Reserved, offset

LEMMA InitSpace == Init => Space
<1> SUFFICES ASSUME Init PROVE Space
  OBVIOUS
<1>1. volumes = <<>> /\ DOMAIN volumes = {}
  BY SMT DEF Init
<1>2. ReservationsAgree
  <2>1. mapped = UNION {Reserved(volumes[i]) : i \in DOMAIN volumes}
    BY <1>1 DEF Init
  <2>2. Cardinality(mapped) = reserved_bytes
    BY FS_EmptySet DEF Init
  <2> QED
    BY <1>1, <2>1, <2>2 DEF Init, ReservationsAgree
<1>3. \A t \in Threads : call[t].range = {}
  BY DEF Init, Idle
<1>4. <<>> \in Seq(VolumeRecords)
  BY EmptySeq
<1> QED
  BY <1>1, <1>2, <1>3, <1>4, SMT DEF Init, Space

(* The list stays.                                                         *)
LEMMA ListStays ==
    ASSUME Space, UNCHANGED list, backed' \subseteq mapped, commit_mask' \subseteq mapped,
           \A t \in Threads : call'[t].range \subseteq mapped
    PROVE  Space'
<1>1. ReservationsAgree'
  BY DEF Space, ReservationsAgree, list
<1> QED
  BY <1>1 DEF Space, list

(* A step that changes only where threads are in a call keeps the ranges.  *)
LEMMA GotoKeepsRange ==
    ASSUME IInv, Space, NEW t \in Threads, NEW l, NEW locals, locals.range = call[t].range,
           Goto(t, l, locals)
    PROVE  \A u \in Threads : call'[u].range \subseteq mapped
BY DEF Goto, Space, IInv, Types

LEMMA ReturnKeepsRange ==
    ASSUME IInv, Space, NEW t \in Threads, Return(t)
    PROVE  \A u \in Threads : call'[u].range \subseteq mapped
BY DEF Return, Space, IInv, Types, Idle

LEMMA BeginKeepsRange ==
    ASSUME IInv, Space, NEW t \in Threads, NEW label, Begin(t, label)
    PROVE  \A u \in Threads : call'[u].range \subseteq mapped
<1>1. PICK i \in DOMAIN volumes, r \in 0..(RegionsPerVolume - 1) :
        \E first, last \in Region(volumes[i], r) :
          call' = [call EXCEPT ![t] =
                     [range |-> first..last, bytes |-> 0, committed |-> 0, threshold |-> 0]]
  BY Zenon DEF Begin
<1>2. PICK first \in Region(volumes[i], r), last \in Region(volumes[i], r) :
        call' = [call EXCEPT ![t] =
                   [range |-> first..last, bytes |-> 0, committed |-> 0, threshold |-> 0]]
  BY <1>1
<1>3. volumes[i] \in VolumeRecords
  BY ElementOfSeq, LenProperties DEF Space
<1>4. Region(volumes[i], r) \subseteq mapped
  BY <1>3, RegionInVolume DEF Space, ReservationsAgree
<1>5. first..last \subseteq Region(volumes[i], r)
  <2>1. volumes[i].base + r * RegionGranules \in Int
    BY <1>3, VolumeSize, SMT DEF VolumeRecords
  <2> DEFINE p == volumes[i].base + r * RegionGranules
  <2>2. p \in Int /\ first \in p..(p + RegionGranules - 1) /\ last \in p..(p + RegionGranules - 1)
    BY <2>1 DEF Region, AddressRange
  <2>3. Region(volumes[i], r) = p..(p + RegionGranules - 1)
    BY DEF Region, AddressRange
  <2> HIDE DEF p
  <2> QED
    BY <2>2, <2>3, VolumeSize, SMT
<1> QED
  BY <1>2, <1>4, <1>5 DEF IInv, Types, Space

LEMMA UseRegionKeepsSpace ==
    ASSUME IInv, Space, NEW t \in Threads, UseRegion(t)
    PROVE  Space'
<1> DEFINE n == Len(volumes)
<1>1. /\ n \in 1..Len(volumes) /\ DOMAIN volumes = 1..n /\ n \in Nat
      /\ volumes[n] \in VolumeRecords /\ volumes[n].next_region_index < RegionsPerVolume
  <2>1. volumes # <<>> /\ volumes[n].next_region_index < RegionsPerVolume
    BY DEF UseRegion, has_unused_region
  <2>2. n \in Nat \ {0} /\ DOMAIN volumes = 1..n
    BY <2>1, EmptySeq, LenProperties DEF Space
  <2>3. n \in 1..Len(volumes)
    BY <2>2, SMT
  <2> QED
    BY <2>1, <2>2, <2>3, ElementOfSeq DEF Space
<1>2. NextRegion(volumes[n]) \in VolumeRecords /\ NextRegion(volumes[n]).base = volumes[n].base
  BY <1>1, VolumeSize, SMT DEF NextRegion, VolumeRecords
<1>3. volumes' = [volumes EXCEPT ![n] = NextRegion(volumes[n])]
  BY DEF UseRegion
<1>4. volumes' \in Seq(VolumeRecords) /\ DOMAIN volumes' = DOMAIN volumes
  BY <1>1, <1>2, <1>3, ExceptSeq, LenProperties DEF Space
<1>5. \A i \in DOMAIN volumes : volumes'[i].base = volumes[i].base
  BY <1>1, <1>2, <1>3
<1>6. \A i \in DOMAIN volumes : Reserved(volumes'[i]) = Reserved(volumes[i])
  BY <1>5 DEF Reserved
<1>7. UNCHANGED <<reserved_bytes, mapped, tracer, backed, commit_mask, call>>
  BY DEF UseRegion, count, control
<1>8. ReservationsAgree'
  BY <1>4, <1>5, <1>6, <1>7 DEF Space, ReservationsAgree
<1> QED
  BY <1>4, <1>7, <1>8 DEF Space

(* What reserve_memory_aligned keeps of what it maps is the new volume.    *)
LEMMA KeptPart ==
    ASSUME NEW extra \in Nat, NEW base \in Nat, NEW V \in Nat \ {0},
           extra <= base, base < extra + V
    PROVE  AddressRange(extra, V + V)
             \ (AddressRange(extra, base - extra)
                  \cup AddressRange(base + V, (extra + (V + V)) - (base + V)))
           = AddressRange(base, V)
BY SMT DEF AddressRange

LEMMA CreateKeepsSpace ==
    ASSUME IInv, Space, NEW t \in Threads, CreateNewVolume(t)
    PROVE  Space'
<1> DEFINE V == VolumeGranules
           n == Len(volumes)
<1>1. V \in Nat \ {0} /\ n \in Nat /\ DOMAIN volumes = 1..n
      /\ \A i \in 1..n : volumes[i] \in VolumeRecords
  BY VolumeSize, LenProperties, ElementOfSeq DEF Space
<1>2. PICK extra, base :
        /\ extra \in Addresses
        /\ base = ((extra + V - 1) \div V) * V
        /\ AddressRange(extra, V + V) \subseteq Addresses \ mapped
        /\ mapped' = mapped \cup (AddressRange(extra, V + V)
                       \ (AddressRange(extra, base - extra)
                            \cup AddressRange(base + V, (extra + (V + V)) - (base + V))))
        /\ tracer' = tracer + (V + V) - (base - extra) - ((extra + (V + V)) - (base + V))
        /\ volumes' = Append(volumes, NextRegion(NewVolume(base)))
  BY Zenon DEF CreateNewVolume
<1>3. extra \in Nat /\ base \in Nat /\ extra <= base /\ base < extra + V /\ base % V = 0
  <2>1. extra \in Nat
    BY <1>2, VolumeAssumption, SMT DEF Addresses
  <2>2. base = ((extra + V - 1) \div V) * V
    BY <1>2
  <2> HIDE DEF V
  <2> QED
    BY <1>1, <2>1, <2>2, AlignedBase
<1> DEFINE new == NextRegion(NewVolume(base))
           kept == AddressRange(base, V)
<1>4. mapped' = mapped \cup kept
  <2>1. AddressRange(extra, V + V)
          \ (AddressRange(extra, base - extra)
               \cup AddressRange(base + V, (extra + (V + V)) - (base + V)))
        = AddressRange(base, V)
    <3> HIDE DEF V
    <3> QED BY <1>1, <1>3, KeptPart
  <2> QED
    BY <1>2, <2>1, Zenon
<1>5. kept \subseteq Addresses \ mapped
  <2>1. kept \subseteq AddressRange(extra, V + V)
    BY <1>1, <1>3, SMT DEF AddressRange
  <2> QED
    BY <1>2, <2>1
<1>6. new \in VolumeRecords /\ new.base = base
  BY <1>3, VolumeSize, SMT DEF NextRegion, NewVolume, VolumeRecords
<1>7. Reserved(new) = kept
  BY <1>6 DEF Reserved
<1>8. reserved_bytes' = reserved_bytes + V /\ UNCHANGED <<backed, commit_mask, call>>
  BY DEF CreateNewVolume, count, control
<1> HIDE DEF new, kept
<1>9. /\ volumes' \in Seq(VolumeRecords) /\ DOMAIN volumes' = 1..(n + 1)
      /\ \A i \in 1..n : volumes'[i] = volumes[i]
      /\ volumes'[n + 1] = new
  <2>1. volumes' = Append(volumes, new)
    BY <1>2 DEF new
  <2>2. volumes' \in Seq(VolumeRecords) /\ Len(volumes') = n + 1
    BY <1>6, <2>1, AppendProperties DEF Space
  <2>3. DOMAIN volumes' = 1..(n + 1)
    BY <2>2, LenProperties
  <2>4. (\A i \in 1..n : volumes'[i] = volumes[i]) /\ volumes'[n + 1] = new
    BY <1>6, <2>1, AppendProperties DEF Space
  <2> QED
    BY <2>2, <2>3, <2>4
<1>10. \A i \in 1..n : i # n + 1 /\ i \in 1..(n + 1)
  BY <1>1, SMT
<1>11. n + 1 \in 1..(n + 1) /\ \A i \in 1..(n + 1) : i \in 1..n \/ i = n + 1
  BY <1>1, SMT
<1>12. \A i \in 1..n : Reserved(volumes[i]) \subseteq mapped
  BY <1>1 DEF Space, ReservationsAgree
<1>13. ASSUME NEW i \in 1..(n + 1), NEW j \in 1..(n + 1), i # j
       PROVE  Reserved(volumes'[i]) \cap Reserved(volumes'[j]) = {}
  <2>1. CASE i \in 1..n /\ j \in 1..n
    BY <1>1, <1>9, <1>13, <2>1 DEF Space, ReservationsAgree
  <2>2. CASE i \in 1..n /\ j = n + 1
    BY <1>5, <1>7, <1>9, <1>12, <2>2
  <2>3. CASE i = n + 1 /\ j \in 1..n
    BY <1>5, <1>7, <1>9, <1>12, <2>3
  <2> QED
    BY <1>11, <1>13, <2>1, <2>2, <2>3
<1>14. \A i \in 1..(n + 1) : volumes'[i].base % V = 0
  BY <1>1, <1>3, <1>6, <1>9, <1>11 DEF Space, ReservationsAgree
<1>15. mapped' = UNION {Reserved(volumes'[i]) : i \in 1..(n + 1)}
  <2>1. mapped = UNION {Reserved(volumes[i]) : i \in 1..n}
    BY <1>1 DEF Space, ReservationsAgree
  <2>2. \A x : x \in mapped' <=> x \in mapped \/ x \in Reserved(volumes'[n + 1])
    BY <1>4, <1>7, <1>9
  <2>3. \A x : x \in mapped <=> \E i \in 1..n : x \in Reserved(volumes'[i])
    BY <1>9, <2>1
  <2>4. \A x : x \in mapped' <=> \E i \in 1..(n + 1) : x \in Reserved(volumes'[i])
    <3>1. ASSUME NEW x, x \in mapped' PROVE \E i \in 1..(n + 1) : x \in Reserved(volumes'[i])
      <4>1. CASE x \in mapped
        <5>1. PICK i \in 1..n : x \in Reserved(volumes'[i])
          BY <2>3, <4>1
        <5>2. i \in 1..(n + 1)
          BY <1>10
        <5> QED
          BY <5>1, <5>2
      <4>2. CASE x \in Reserved(volumes'[n + 1])
        BY <1>11, <4>2
      <4> QED
        BY <2>2, <3>1, <4>1, <4>2
    <3>2. ASSUME NEW x, NEW i \in 1..(n + 1), x \in Reserved(volumes'[i]) PROVE x \in mapped'
      <4>1. CASE i \in 1..n
        BY <2>2, <2>3, <3>2, <4>1
      <4>2. CASE i = n + 1
        BY <2>2, <3>2, <4>2
      <4> QED
        BY <1>11, <4>1, <4>2
    <3> QED
      BY <3>1, <3>2
  <2>5. \A x : x \in UNION {Reserved(volumes'[i]) : i \in 1..(n + 1)}
                <=> \E i \in 1..(n + 1) : x \in Reserved(volumes'[i])
    BY Zenon
  <2> QED
    BY <2>4, <2>5
<1>16. Cardinality(mapped') = Cardinality(mapped) + V
  <2>1. IsFiniteSet(mapped)
    <3>1. 0 \in Int /\ AddressSpace - 1 \in Int
      BY VolumeAssumption, SMT
    <3>2. IsFiniteSet(0..(AddressSpace - 1))
      BY <3>1, FS_Interval
    <3> QED
      BY <3>2, FS_Subset DEF Space, Addresses
  <2>2. IsFiniteSet(kept) /\ Cardinality(kept) = V
    <3>1. base + V - 1 \in Int /\ ~(base > base + V - 1) /\ (base + V - 1) - base + 1 = V
      BY <1>1, <1>3, SMT
    <3> QED
      BY <1>3, <3>1, FS_Interval DEF kept, AddressRange
  <2>3. mapped \cap kept = {}
    BY <1>5
  <2>4. Cardinality(mapped \cap kept) = 0
    BY <2>3, FS_EmptySet
  <2>5. Cardinality(mapped \cup kept) = Cardinality(mapped) + Cardinality(kept) - 0
    BY <2>1, <2>2, <2>4, FS_Union
  <2>6. Cardinality(mapped) \in Nat
    BY <2>1, FS_CardinalityType
  <2> QED
    BY <1>1, <1>4, <2>2, <2>5, <2>6, SMT
<1>17. tracer' = tracer + V
  BY <1>1, <1>2, <1>3, SMT DEF Space, ReservationsAgree
<1>18. ReservationsAgree'
  <2>1. backed' \subseteq mapped'
    BY <1>4, <1>8 DEF Space, ReservationsAgree
  <2>2. Cardinality(mapped') = reserved_bytes' /\ tracer' = reserved_bytes'
    BY <1>8, <1>16, <1>17 DEF Space, ReservationsAgree
  <2> QED
    BY <1>9, <1>13, <1>14, <1>15, <2>1, <2>2 DEF ReservationsAgree
<1>19. reserved_bytes' \in Nat
  BY <1>1, <1>8, SMT DEF Space
<1> QED
  BY <1>4, <1>5, <1>8, <1>9, <1>18, <1>19 DEF Space

(* A commit or an uncommit changes the kernel or the masks within what its *)
(* range covers.                                                           *)
LEMMA StepKeepsSpace ==
    ASSUME IInv, Space, NEW t \in Threads, Step(t)
    PROVE  Space'
<1> USE DEF count
<1>0. /\ backed \subseteq mapped /\ commit_mask \subseteq mapped
      /\ call[t].range \subseteq mapped /\ call[t] \in Locals
      /\ \A u \in Threads : call[u].range \subseteq mapped
  BY DEF Space, ReservationsAgree, IInv, Types
<1>1. CASE UseRegion(t)
  BY <1>1, UseRegionKeepsSpace
<1>2. CASE CreateNewVolume(t)
  BY <1>2, CreateKeepsSpace
<1>3. CASE CommitRange(t) \/ UncommitRange(t)
  <2>1. (\E l : Begin(t, l)) /\ UNCHANGED <<list, count>>
    BY <1>3 DEF CommitRange, UncommitRange, Begin
  <2>2. \A u \in Threads : call'[u].range \subseteq mapped
    BY <2>1, BeginKeepsRange
  <2> QED
    BY <1>0, <2>1, <2>2, ListStays
<1>4. CASE ReserveFails(t) \/ OsCommitFails(t) \/ OsUncommitFails(t)
  <2>1. UNCHANGED <<list, count, call>>
    BY <1>4 DEF ReserveFails, OsCommitFails, OsUncommitFails, Stop
  <2> QED
    BY <1>0, <2>1, ListStays
<1>5. CASE CountCommitted(t) \/ AskPolicy(t) \/ CountUncommitted(t) \/ LoadThreshold(t)
  <2>1. UNCHANGED <<list, count>>
    BY <1>5 DEF CountCommitted, AskPolicy, CountUncommitted, LoadThreshold
  <2>2. \/ UNCHANGED call
        \/ Return(t)
        \/ \E l, bytes, committed, threshold :
             Goto(t, l, [call[t] EXCEPT !.bytes = bytes, !.committed = committed,
                                        !.threshold = threshold])
        \/ \E l, bytes, committed : Goto(t, l, [call[t] EXCEPT !.bytes = bytes, !.committed = committed])
        \/ \E l, bytes, threshold : Goto(t, l, [call[t] EXCEPT !.bytes = bytes, !.threshold = threshold])
        \/ \E l, bytes : Goto(t, l, [call[t] EXCEPT !.bytes = bytes])
        \/ \E l : Goto(t, l, call[t])
    <3>1. CASE CountCommitted(t)
      BY <3>1, Zenon DEF CountCommitted, Stop
    <3>2. CASE AskPolicy(t)
      BY <3>2, Zenon DEF AskPolicy, Stop
    <3>3. CASE CountUncommitted(t)
      BY <3>3, Zenon DEF CountUncommitted, Stop
    <3>4. CASE LoadThreshold(t)
      BY <3>4, Zenon DEF LoadThreshold
    <3> QED
      BY <1>5, <3>1, <3>2, <3>3, <3>4
  <2>3. \/ UNCHANGED call
        \/ Return(t)
        \/ \E l, locals : locals.range = call[t].range /\ Goto(t, l, locals)
    BY <1>0, <2>2 DEF Locals
  <2>4. \A u \in Threads : call'[u].range \subseteq mapped
    BY <1>0, <2>3, GotoKeepsRange, ReturnKeepsRange
  <2> QED
    BY <1>0, <2>1, <2>4, ListStays
<1>6. CASE OsCommit(t) \/ OsUncommit(t) \/ IncreaseLimiter(t) \/ IncreaseStatistics(t)
           \/ DecreaseLimiter(t) \/ DecreaseStatistics(t)
  <2>1. /\ UNCHANGED <<list, commit_mask>> /\ \E l : Goto(t, l, call[t])
        /\ backed' \subseteq backed \cup call[t].range
    BY <1>6 DEF OsCommit, OsUncommit, IncreaseLimiter, IncreaseStatistics, DecreaseLimiter,
                DecreaseStatistics
  <2>2. \A u \in Threads : call'[u].range \subseteq mapped
    BY <2>1, GotoKeepsRange
  <2> QED
    BY <1>0, <2>1, <2>2, ListStays
<1>7. CASE MarkCommitted(t) \/ MarkUncommitted(t) \/ CasThreshold(t)
  <2>1. /\ UNCHANGED <<list, backed>> /\ Return(t)
        /\ commit_mask' \subseteq commit_mask \cup call[t].range
    BY <1>7 DEF MarkCommitted, MarkUncommitted, CasThreshold
  <2>2. \A u \in Threads : call'[u].range \subseteq mapped
    BY <2>1, ReturnKeepsRange
  <2> QED
    BY <1>0, <2>1, <2>2, ListStays
<1> QED
  BY <1>1, <1>2, <1>3, <1>4, <1>5, <1>6, <1>7 DEF Step

LEMMA NextSpace ==
    ASSUME IInv, Space, [Next]_vars
    PROVE  Space'
<1>0. backed \subseteq mapped /\ commit_mask \subseteq mapped
      /\ \A t \in Threads : call[t].range \subseteq mapped
  BY DEF Space, ReservationsAgree
<1>1. CASE GlobalInitialize \/ PostInitialize \/ ExpandThreshold \/ ShrinkThreshold \/ UNCHANGED vars
  <2>1. UNCHANGED <<list, backed, commit_mask, call>>
    BY <1>1 DEF GlobalInitialize, PostInitialize, ExpandThreshold, ShrinkThreshold, vars, count,
                control
  <2> QED
    BY <1>0, <2>1, ListStays
<1>2. CASE \E t \in Threads : Step(t)
  BY <1>2, StepKeepsSpace
<1> QED
  BY <1>1, <1>2 DEF Next

LEMMA SpaceInvariant == Spec => [](IInv /\ Space)
<1>1. Init => Space
  BY InitSpace
<1>2. IInv /\ Space /\ [Next]_vars => Space'
  BY NextSpace
<1> QED
  BY <1>1, <1>2, Inductive, PTL DEF Spec

(* The volumes are apart, aligned, and exactly what the kernel and the     *)
(* memory tracer count as reserved after each call of                      *)
(* os::reserve_memory_aligned, and no commit reaches outside them.         *)
THEOREM ReservationsExact == Spec => []ReservationsAgree
<1>1. Space => ReservationsAgree
  BY DEF Space
<1> QED
  BY <1>1, SpaceInvariant, PTL

(* The state keeps its types: all ranges lie in the address space, and no  *)
(* counter passes below zero.                                              *)
THEOREM TypeCorrect == Spec => []TypeOK
<1>1. ASSUME IInv, Space PROVE TypeOK
  <2>1. /\ phase \in {"start", "boot", "run"} /\ policy \in BOOLEAN
        /\ gc_threshold \in Nat /\ shrink_factor \in Factors
        /\ committed_bytes \in Nat /\ global_committed \in Nat
        /\ pc \in [Threads -> Labels] /\ Metaspace_lock \in Threads \cup {NoThread}
    BY <1>1 DEF IInv, Types, Locking
  <2>2. /\ volumes \in Seq([base : Nat, next_region_index : 1..RegionsPerVolume])
        /\ reserved_bytes \in Nat /\ mapped \subseteq Addresses
        /\ commit_mask \subseteq Addresses /\ backed \subseteq Addresses /\ tracer \in Int
    BY <1>1 DEF Space, ReservationsAgree, VolumeRecords
  <2>3. call \in [Threads -> [range : SUBSET Addresses, bytes : Nat,
                               committed : Nat, threshold : Nat]]
    <3>1. call \in [Threads -> Locals]
      BY <1>1 DEF IInv, Types
    <3>2. \A t \in Threads : call[t].range \in SUBSET Addresses
      BY <1>1 DEF Space
    <3>3. \A t \in Threads : call[t] \in [range : SUBSET Addresses, bytes : Nat,
                                           committed : Nat, threshold : Nat]
      BY <3>1, <3>2 DEF Locals
    <3> QED
      BY <3>1, <3>3
  <2> QED
    BY <2>1, <2>2, <2>3 DEF TypeOK
<1> QED
  BY <1>1, SpaceInvariant, PTL
=============================================================================
