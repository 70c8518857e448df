------------------------------ MODULE Segments ------------------------------
(***************************************************************************)
(* The buddy allocator of the metaspace: a region is one root segment      *)
(* (Region.cpp), split into halves and merged again; the free segments     *)
(* wait in a list per level (SegmentManager.cpp); the headers of segments  *)
(* that were merged away are used again (SegmentHeaderPool.cpp); and       *)
(* ContextHolder.cpp hands segments out and takes them back.               *)
(*                                                                         *)
(* Every call holds Metaspace_lock from its start to its end, so `op' is   *)
(* the one call in progress; its splits and merges are steps of their own. *)
(* Only Segment::allocate runs beside it, on a segment its arena owns.     *)
(*                                                                         *)
(* Headers stand for the Segment objects, null for nullptr.  Addresses     *)
(* begin at 0 and regions follow each other.  Which of several segments of *)
(* one list a search finds, and which dead header is used again, is left   *)
(* open.  Nobody reads what a dead header says of its memory, which        *)
(* Segment::clear erases when it is used again: here it goes at once.      *)
(***************************************************************************)
EXTENDS Integers, FiniteSets

CONSTANTS
    Headers, null,         \* Segment objects (bound: headers in slabs), nullptr
    NoError,               \* the program runs
    DEBUG_MODE,            \* assertions are compiled in (plat/macro.hpp)
    LV_HIGHEST,            \* the level of the smallest segments
    LevelBytes,            \* level_to_bytes
    CommitGranuleBytes,
    Needs,                 \* what arenas ask for, in bytes
    MaxRegions             \* bound: regions of all volumes

LV_ROOT == 0
LV_NUM  == LV_HIGHEST + 1
Levels  == LV_ROOT..LV_HIGHEST
RegionBytes == LevelBytes[LV_ROOT]

(* bytes_to_level: the smallest level for the smallest sizes, and for the  *)
(* others what the code computes from the logarithm, level or not: of the  *)
(* program's granule it makes -2.  DEBUG_MODE leaves out one assertion on  *)
(* the way, align.hpp:95, which fails for every size above 1.              *)
log2i_exact(bytes) == CHOOSE n \in 0..30 : 2^n >= bytes /\ (n = 0 \/ 2^(n - 1) < bytes)
bytes_to_level(bytes) ==
    IF bytes <= LevelBytes[LV_HIGHEST] THEN LV_HIGHEST
    ELSE LV_NUM - 1 - log2i_exact(bytes)

ASSUME SegmentsAssumption ==
    /\ DEBUG_MODE \in BOOLEAN
    /\ LV_HIGHEST \in Nat /\ CommitGranuleBytes \in Nat \ {0}
    /\ LevelBytes \in [Levels -> Nat \ {0}]
    /\ \A l \in 0..(LV_HIGHEST - 1) : LevelBytes[l] = 2 * LevelBytes[l + 1]
    /\ Needs \subseteq Nat /\ \A n \in Needs : bytes_to_level(n) \in Levels
    /\ MaxRegions \in Nat /\ null \notin Headers
    /\ NoError \notin {"Region.cpp:32", "Region.cpp:62", "Region.cpp:205", "Segment.cpp:42",
                       "Segment.cpp:60", "Segment.cpp:144", "ContextHolder.cpp:187"}

VARIABLES
    seg,          \* the headers: Segment
    free,         \* SegmentManager's lists, a set per level
    dead,         \* SegmentHeaderPool::_dead_segments
    slab,         \* headers never used (above _slab)
    regions,      \* regions that have their root segment
    mask,         \* the committed granules
    op,           \* the call that holds Metaspace_lock
    stale_root,   \* history: a root segment was given old buddies
    vm_error      \* what stopped the program

vars == <<seg, free, dead, slab, regions, mask, op, stale_root, vm_error>>

Pointers == Headers \cup {null}
Header == [state : {"dead", "free", "inuse"}, level : Levels, base : Nat,
           committed : Nat, used : Nat,
           next_buddy : Pointers, prev_buddy : Pointers]
Op == [kind : {"none", "get", "merge"}, seg : Pointers, result : Pointers,
       level : Levels, min : Nat]

total_bytes(h) == LevelBytes[seg[h].level]
end(h)         == seg[h].base + total_bytes(h)
is_leader(h)   == seg[h].base % total_bytes(h) = 0
Live           == {h \in Headers : seg[h].state # "dead"}
MIN2(a, b)     == IF a < b THEN a ELSE b
Idle == [kind |-> "none", seg |-> null, result |-> null, level |-> LV_ROOT, min |-> 0]

Init ==
    /\ seg = [h \in Headers |->
                [state |-> "dead", level |-> LV_ROOT, base |-> 0, committed |-> 0,
                 used |-> 0, next_buddy |-> null, prev_buddy |-> null]]
    /\ free = [l \in Levels |-> {}]
    /\ dead = {} /\ slab = Headers /\ regions = 0 /\ mask = {}
    /\ op = Idle /\ stale_root = FALSE /\ vm_error = NoError

At(kind) == vm_error = NoError /\ op.kind = kind
Stop(reason) == vm_error' = reason /\ UNCHANGED op
Go(o) == op' = o /\ UNCHANGED vm_error
heap == <<seg, free, dead, slab, regions, mask, stale_root>>

(* SegmentHeaderPool::allocate_segment_header: a dead header if there is   *)
(* one, the next of the slab if not.                                       *)
Allocatable == IF dead # {} THEN dead ELSE slab
(* deallocate_segment_header: the buddies stay.                            *)
DeadHeader(h, prev) ==
    [state |-> "dead", level |-> seg[h].level, base |-> 0, committed |-> 0, used |-> 0,
     next_buddy |-> seg[h].next_buddy, prev_buddy |-> prev]
TakeHeader(h) == dead' = dead \ {h} /\ slab' = slab \ {h}

-----------------------------------------------------------------------------
(* ContextHolder::search_satisfy_segment_in_free.                          *)

Least(S)    == CHOOSE x \in S : \A y \in S : x <= y
Greatest(S) == CHOOSE x \in S : \A y \in S : x >= y
Satisfy(l, min) == {h \in free[l] : seg[h].committed >= min}
search_segment_ascending(from, to, min) ==
    LET found == {l \in from..to : Satisfy(l, min) # {}}
    IN IF found = {} THEN {} ELSE Satisfy(Least(found), min)
search_segment_descending(from, min) ==
    LET found == {l \in LV_ROOT..from : Satisfy(l, min) # {}}
    IN IF found = {} THEN {} ELSE Satisfy(Greatest(found), min)
search_satisfy_segment_in_free(preferred, max, min) ==
    LET tries == <<search_segment_ascending(preferred, MIN2(preferred + 2, max), min),
                   search_segment_descending(preferred, min),
                   search_segment_ascending(preferred, max, min),
                   search_segment_ascending(preferred, max, 0),
                   search_segment_descending(preferred, 0)>>
        good == {i \in 1..5 : tries[i] # {}}
    IN IF good = {} THEN {} ELSE tries[Least(good)]

(* ContextHolder::get_segment, as Arena::create_new_segment calls it: the  *)
(* level the need asks for, or the larger one of the growth policy.        *)
GetFree(need, suggested) ==
    LET max == bytes_to_level(need)
        preferred == MIN2(max, suggested)
    IN /\ At("none")
       /\ \E h \in search_satisfy_segment_in_free(preferred, max, need) :
            /\ free' = [free EXCEPT ![seg[h].level] = free[seg[h].level] \ {h}]
            /\ Go([kind |-> "get", seg |-> h, result |-> null, level |-> preferred, min |-> need])
       /\ UNCHANGED <<seg, dead, slab, regions, mask, stale_root>>

(* Segment::initialize sets no buddy.                                      *)
Initialized(h, base, level) ==
    [state |-> "free", level |-> level, base |-> base, committed |-> 0, used |-> 0,
     next_buddy |-> seg[h].next_buddy, prev_buddy |-> seg[h].prev_buddy]

(* Region::alloc_root_segment, for a search that found nothing.            *)
GetRoot(need, suggested) ==
    LET max == bytes_to_level(need)
        preferred == MIN2(max, suggested)
    IN /\ At("none") /\ regions < MaxRegions
       /\ search_satisfy_segment_in_free(preferred, max, need) = {}
       /\ \E h \in Allocatable :
            /\ TakeHeader(h)
            /\ seg' = [seg EXCEPT ![h] = Initialized(h, regions * RegionBytes, LV_ROOT)]
            /\ stale_root' = (stale_root \/ seg[h].next_buddy # null \/ seg[h].prev_buddy # null)
            /\ Go([kind |-> "get", seg |-> h, result |-> null, level |-> preferred, min |-> need])
       /\ regions' = regions + 1
       /\ UNCHANGED <<free, mask>>

\* Mutant: the buddy behind is not told of the new second half.
SplitStepUnlinked ==
    LET h == op.seg
        l == seg[h].level + 1
        half == LevelBytes[l]
    IN /\ At("get") /\ seg[h].level < op.level
       /\ \E s \in Allocatable :
            /\ TakeHeader(s)
            /\ seg' = [seg EXCEPT
                 ![h] = [seg[h] EXCEPT !.level = l, !.next_buddy = s,
                                       !.committed = MIN2(seg[h].committed, half)],
                 ![s] = [state |-> "free", level |-> l, base |-> seg[h].base + half,
                         committed |-> seg[h].committed - MIN2(seg[h].committed, half),
                         used |-> 0, next_buddy |-> seg[h].next_buddy, prev_buddy |-> h]]
            /\ free' = [free EXCEPT ![l] = free[l] \cup {s}]
       /\ UNCHANGED <<regions, mask, op, stale_root, vm_error>>

(* Region::split, one turn of its loop: the second half becomes a segment  *)
(* of its own, with what the first half cannot hold of the committed part, *)
(* and goes to the free list.                                              *)
SplitStep ==
    LET h == op.seg
        n == seg[h].next_buddy
        l == seg[h].level + 1
        half == LevelBytes[l]
        c == seg[h].committed
    IN /\ At("get") /\ seg[h].level < op.level
       /\ \E s \in Allocatable :
            /\ TakeHeader(s)
            /\ seg' = [g \in Headers |->
                 IF g = h
                 THEN [state |-> "free", level |-> l, base |-> seg[h].base,
                       committed |-> IF c >= half THEN half ELSE c, used |-> seg[h].used,
                       next_buddy |-> s,
                       prev_buddy |-> IF n = h THEN s ELSE seg[h].prev_buddy]
                 ELSE IF g = s
                 THEN [state |-> "free", level |-> l, base |-> seg[h].base + half,
                       committed |-> IF c >= half THEN c - half ELSE 0, used |-> 0,
                       next_buddy |-> n, prev_buddy |-> h]
                 ELSE IF g = n THEN [seg[g] EXCEPT !.prev_buddy = s]
                 ELSE seg[g]]
            /\ free' = [free EXCEPT ![l] = free[l] \cup {s}]
       /\ UNCHANGED <<regions, mask, op, stale_root, vm_error>>

-----------------------------------------------------------------------------
(* Segment::commit_up_to.  Volume::commit_range may meet the limit; the    *)
(* caller is told of success all the same.                                 *)

align_up(n)        == ((n + CommitGranuleBytes - 1) \div CommitGranuleBytes) * CommitGranuleBytes
Granules(from, to) == (from \div CommitGranuleBytes)..(align_up(to) \div CommitGranuleBytes - 1)

(* c is what the segment counts as committed afterwards.                   *)
CommitSizes(h, bytes) == {seg[h].committed, MIN2(align_up(bytes), total_bytes(h))}
CommitUpTo(h, bytes, c) ==
    LET to    == MIN2(align_up(bytes), total_bytes(h))
        from  == seg[h].committed
        range == Granules(seg[h].base + from, seg[h].base + to)
    IN \/ /\ to < from \/ ~(range \subseteq mask)
          /\ c = from /\ UNCHANGED mask
       \/ /\ to >= from
          /\ c = to /\ mask' = mask \cup range

(* The assertions on the way (Segment.cpp:60, 140, 144).                   *)
CommitAsserts(h, bytes) ==
    LET to == MIN2(align_up(bytes), total_bytes(h))
    IN /\ bytes > seg[h].committed
       /\ to > seg[h].committed
       /\ (to - seg[h].committed) % CommitGranuleBytes = 0

(* The rest of get_segment: commit what the caller needs.                  *)
FinishGet ==
    LET h == op.seg IN
    /\ At("get") /\ seg[h].level >= op.level
    /\ IF seg[h].committed >= op.min
       THEN /\ seg' = [seg EXCEPT ![h] = [seg[h] EXCEPT !.state = "inuse"]]
            /\ Go(Idle) /\ UNCHANGED mask
       ELSE IF DEBUG_MODE /\ ~CommitAsserts(h, op.min)
       THEN Stop("Segment.cpp:144") /\ UNCHANGED <<seg, mask>>
       ELSE \E c \in CommitSizes(h, op.min) :
              /\ CommitUpTo(h, op.min, c)
              /\ seg' = [seg EXCEPT ![h] = [seg[h] EXCEPT !.state = "inuse", !.committed = c]]
              /\ IF DEBUG_MODE /\ c < op.min THEN Stop("ContextHolder.cpp:187") ELSE Go(Idle)
    /\ UNCHANGED <<free, dead, slab, regions, stale_root>>

-----------------------------------------------------------------------------
(* ContextHolder::return_segment.                                          *)

(* attempt_merge_segment: what it merges, and what it returns so far.      *)
attempt_merge_segment(h) ==
    [kind |-> "merge", seg |-> h, result |-> h, level |-> seg[h].level, min |-> 0]

ReturnSegment(h) ==
    /\ At("none") /\ seg[h].state = "inuse"
    /\ seg' = [seg EXCEPT ![h] = [seg[h] EXCEPT !.state = "free", !.used = 0]]
    /\ Go(attempt_merge_segment(h))
    /\ UNCHANGED <<free, dead, slab, regions, mask, stale_root>>

buddy(h) == IF is_leader(h) THEN seg[h].next_buddy ELSE seg[h].prev_buddy
\* Mutant: a buddy in use is merged away.
CanMergeUsed(h, b) == seg[b].level = seg[h].level /\ h # b

CanMerge(h, b) == seg[b].level = seg[h].level /\ seg[b].state = "free"

TooLarge(h, b) == DEBUG_MODE /\ seg[b].level < seg[h].level

(* Region::merge, one turn of its loop.  The turn that makes a root leaves *)
(* the result as it was.                                                   *)
MergeStep ==
    LET h == op.seg
        b == buddy(h)
        leader   == IF is_leader(h) THEN h ELSE b
        follower == IF is_leader(h) THEN b ELSE h
        n == seg[follower].next_buddy
        c == seg[leader].committed
        l == seg[h].level - 1
    IN /\ At("merge") /\ seg[h].level # LV_ROOT /\ b # null
       /\ ~TooLarge(h, b) /\ CanMerge(h, b)
       /\ IF DEBUG_MODE /\ (end(leader) # seg[follower].base \/ b \notin free[seg[b].level])
          THEN Stop("Region.cpp:62") /\ UNCHANGED <<seg, free, dead>>
          ELSE /\ free' = [free EXCEPT ![seg[b].level] = free[seg[b].level] \ {b}]
               /\ seg' = [g \in Headers |->
                    IF g = leader
                    THEN [state |-> seg[g].state, level |-> l, base |-> seg[g].base,
                          committed |-> IF c = total_bytes(leader)
                                        THEN c + seg[follower].committed ELSE c,
                          used |-> seg[g].used,
                          next_buddy |-> n,
                          prev_buddy |-> IF n = leader THEN leader ELSE seg[g].prev_buddy]
                    ELSE IF g = follower
                    THEN DeadHeader(g, IF n = g THEN leader ELSE seg[g].prev_buddy)
                    ELSE IF g = n THEN [seg[g] EXCEPT !.prev_buddy = leader]
                    ELSE seg[g]]
               /\ dead' = dead \cup {follower}
               /\ Go([kind |-> "merge", seg |-> leader,
                      result |-> IF l = LV_ROOT THEN op.result ELSE leader,
                      level |-> op.level, min |-> 0])
       /\ UNCHANGED <<slab, regions, mask, stale_root>>

(* The buddy pointer is null, or the buddy is larger than it may be.       *)
MergeStops ==
    LET h == op.seg
        b == buddy(h)
    IN /\ At("merge") /\ seg[h].level # LV_ROOT
       /\ b # null => TooLarge(h, b)
       /\ Stop("Region.cpp:32") /\ UNCHANGED heap

(* No more to merge: SegmentManager::add.                                  *)
FinishReturn ==
    LET h == op.seg
        b == buddy(h)
        r == op.result
    IN /\ At("merge")
       /\ \/ seg[h].level = LV_ROOT
          \/ /\ b # null /\ ~CanMerge(h, b)
             /\ ~TooLarge(h, b)
       /\ free' = [free EXCEPT ![seg[r].level] = free[seg[r].level] \cup {r}]
       /\ Go(Idle)
       /\ UNCHANGED <<seg, dead, slab, regions, mask, stale_root>>

-----------------------------------------------------------------------------
(* Arena::attempt_enlarge_current_segment: a segment too small for the     *)
(* need may double in place, if the policy suggests nothing smaller ...    *)
TriesToEnlarge(h, need) ==
    /\ At("none") /\ seg[h].state = "inuse" /\ seg[h].level # LV_ROOT
    /\ total_bytes(h) - seg[h].used < need /\ seg[h].used + need <= RegionBytes
    /\ bytes_to_level(seg[h].used + need) >= seg[h].level - 1
    /\ is_leader(h)

\* Mutant: the buddy that is taken stays in its free list.
EnlargeKeepsListed(h, need) ==
    LET b == seg[h].next_buddy
        n == seg[b].next_buddy
    IN /\ TriesToEnlarge(h, need) /\ b # null /\ CanMerge(h, b)
       /\ seg' = [g \in Headers |->
            IF g = h THEN [seg[h] EXCEPT !.level = seg[h].level - 1, !.next_buddy = n]
            ELSE IF g = b THEN DeadHeader(g, seg[g].prev_buddy)
            ELSE IF g = n THEN [seg[g] EXCEPT !.prev_buddy = h]
            ELSE seg[g]]
       /\ dead' = dead \cup {b}
       /\ UNCHANGED <<free, slab, regions, mask, op, stale_root, vm_error>>

(* ... and Region::attempt_enlarge_segment: it takes its free buddy.       *)
Enlarge(h, need) ==
    LET b == seg[h].next_buddy
        n == seg[b].next_buddy
        c == seg[h].committed
    IN /\ TriesToEnlarge(h, need) /\ b # null /\ CanMerge(h, b)
       /\ seg' = [g \in Headers |->
            IF g = h
            THEN [state |-> "inuse", level |-> seg[h].level - 1, base |-> seg[h].base,
                  committed |-> IF c = total_bytes(h) THEN c + c ELSE c, used |-> seg[h].used,
                  next_buddy |-> n,
                  prev_buddy |-> IF n = h THEN h ELSE seg[h].prev_buddy]
            ELSE IF g = b
            THEN DeadHeader(g, IF n = g THEN h ELSE seg[g].prev_buddy)
            ELSE IF g = n THEN [seg[g] EXCEPT !.prev_buddy = h]
            ELSE seg[g]]
       /\ free' = [free EXCEPT ![seg[b].level] = free[seg[b].level] \ {b}]
       /\ dead' = dead \cup {b}
       /\ UNCHANGED <<slab, regions, mask, op, stale_root, vm_error>>

EnlargeStops(h, need) ==
    LET b == seg[h].next_buddy
    IN /\ TriesToEnlarge(h, need)
       /\ b # null => TooLarge(h, b)
       /\ Stop("Region.cpp:205") /\ UNCHANGED heap

(* ContextHolder::purge: the free segments up to the level of a granule    *)
(* give up their memory (Segment::uncommit); with the program's constants, *)
(* none.                                                                   *)
Purged == UNION {free[l] : l \in {l \in Levels : l <= bytes_to_level(CommitGranuleBytes)}}
uncommit(h) == [seg[h] EXCEPT !.committed = 0]
Purge ==
    /\ At("none") /\ Purged # {}
    /\ seg' = [h \in Headers |-> IF h \in Purged THEN uncommit(h) ELSE seg[h]]
    /\ mask' = mask \ UNION {Granules(seg[h].base, end(h)) : h \in Purged}
    /\ UNCHANGED <<free, dead, slab, regions, op, stale_root, vm_error>>

(* Segment::allocate below what is committed, without the lock ...         *)
Fits(h, bytes) == seg[h].state = "inuse" /\ total_bytes(h) - seg[h].used >= bytes
Allocate(h, bytes) ==
    /\ vm_error = NoError /\ Fits(h, bytes)
    /\ bytes < seg[h].committed - seg[h].used
    /\ seg' = [seg EXCEPT ![h] = [seg[h] EXCEPT !.used = seg[h].used + bytes]]
    /\ UNCHANGED <<free, dead, slab, regions, mask, op, stale_root, vm_error>>

(* ... and after ensure_committed_enough_and_acquire_lock.                 *)
CommitAndAllocate(h, bytes) ==
    /\ At("none") /\ Fits(h, bytes)
    /\ bytes >= seg[h].committed - seg[h].used
    /\ IF DEBUG_MODE /\ ~CommitAsserts(h, bytes)
       THEN Stop("Segment.cpp:60") /\ UNCHANGED <<seg, mask>>
       ELSE \E c \in CommitSizes(h, bytes) :
              /\ CommitUpTo(h, bytes, c)
              /\ IF DEBUG_MODE /\ c - seg[h].used < bytes
                 THEN Stop("Segment.cpp:42") /\ UNCHANGED seg
                 ELSE /\ Go(op)
                      /\ seg' = [seg EXCEPT ![h] = [seg[h] EXCEPT
                                   !.committed = c, !.used = seg[h].used + bytes]]
    /\ UNCHANGED <<free, dead, slab, regions, stale_root>>

-----------------------------------------------------------------------------
Next ==
    \/ \E need \in Needs, suggested \in Levels :
          GetFree(need, suggested) \/ GetRoot(need, suggested)
    \/ SplitStep \/ FinishGet
    \/ MergeStep \/ MergeStops \/ FinishReturn
    \/ Purge
    \/ \E h \in Headers : ReturnSegment(h)
    \/ \E h \in Headers, bytes \in Needs :
          \/ Enlarge(h, bytes) \/ EnlargeStops(h, bytes)
          \/ Allocate(h, bytes) \/ CommitAndAllocate(h, bytes)

Spec == Init /\ [][Next]_vars

-----------------------------------------------------------------------------
TypeOK ==
    /\ seg \in [Headers -> Header] /\ free \in [Levels -> SUBSET Headers]
    /\ dead \subseteq Headers /\ slab \subseteq Headers /\ regions \in 0..MaxRegions
    /\ mask \subseteq Nat /\ op \in Op /\ stale_root \in BOOLEAN

(* Splits, merges and enlargements in any order leave the segments side by *)
(* side: no two share an address, each ends where its next buddy begins or *)
(* where its region ends, and buddies point at each other                  *)
(* (Region.cpp:78-88, 139-154, 228-238; Region::verify asserts the         *)
(* pointers).  Unless a root was given the buddies of an earlier life.     *)
Disjoint == \A g, h \in Live : g # h => end(g) <= seg[h].base \/ end(h) <= seg[g].base
LinksAgree ==
    \A h \in Live :
      LET n == seg[h].next_buddy IN
      IF n = null THEN end(h) % RegionBytes = 0
      ELSE n \in Live /\ seg[n].base = end(h) /\ seg[n].prev_buddy = h
Tiling == stale_root \/ (Disjoint /\ LinksAgree)

(* Between calls the free lists hold exactly the free segments, each in    *)
(* the list of its level, and the pool the headers nobody uses             *)
(* (SegmentManager.cpp:118, 133, SegmentHeaderPool.cpp:68).                *)
FreeListsExact ==
    (~stale_root /\ At("none")) =>
       /\ \A l \in Levels : free[l] = {h \in Live : seg[h].state = "free" /\ seg[h].level = l}
       /\ dead \cup slab = Headers \ Live

(* A segment of a granule or more has its granules to itself: it begins    *)
(* where a granule begins (Segment.cpp:64-66, "the block covers whole      *)
(* commit granules ... we own this granule").                              *)
OwnsItsGranules ==
    \A h \in Live : total_bytes(h) >= CommitGranuleBytes => seg[h].base % CommitGranuleBytes = 0

(* What a purge would uncommit is whole granules.                          *)
PurgesWholeGranules ==
    \A h \in Purged : seg[h].base % CommitGranuleBytes = 0 /\ total_bytes(h) % CommitGranuleBytes = 0

(* Between calls, a purge would find every free segment that has a granule *)
(* or more committed (ContextHolder.cpp:271-275, "look whether the         *)
(* committed size of a segment >= the commit granule, then unmap it").     *)
PurgeFindsCommitted ==
    At("none") =>
       \A h \in Live : seg[h].state = "free" /\ seg[h].committed >= CommitGranuleBytes => h \in Purged

(* An arena keeps the memory it was given: until it gives the segment      *)
(* back, nobody moves it, makes it smaller or takes back what it has used; *)
(* and nobody uncommits any of it, a purge included as long as that goes   *)
(* through whole granules.  With the program's constants a purge goes      *)
(* through nothing (ContextHolder.cpp:276-286, constants.cpp:9-18).        *)
ArenaKeepsItsMemory ==
    [][\A h \in Headers :
         (seg[h].state = "inuse" /\ ~stale_root') =>
            \/ /\ seg'[h].state = "inuse" /\ seg'[h].base = seg[h].base
               /\ end(h)' >= end(h) /\ seg'[h].used >= seg[h].used
               /\ PurgesWholeGranules => Granules(seg[h].base, end(h)) \cap mask \subseteq mask'
            \/ op.kind = "none" /\ op'.kind = "merge" /\ op'.seg = h]_vars

(* Two segments never share memory.                                        *)
NoOverlap == \A g, h \in Live :
    (g # h /\ seg[g].state = "inuse" /\ seg[h].state = "inuse") =>
        end(g) <= seg[h].base \/ end(h) <= seg[g].base
=============================================================================
