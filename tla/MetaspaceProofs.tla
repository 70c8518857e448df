--------------------------- MODULE MetaspaceProofs ---------------------------
(***************************************************************************)
(* The buddy allocator of the metaspace for any number of headers, levels  *)
(* and regions and any needs: as long as no root was given the buddies of  *)
(* an earlier life, the segments lie side by side, the free lists hold     *)
(* exactly the free segments between calls, and an arena keeps the memory  *)
(* it was given.  The arenas for any requests and sizes of segments: the   *)
(* blocks of their users and those of the block manager are the used       *)
(* memory, side by side, and the tree of blocks stays a search tree.       *)
(***************************************************************************)
EXTENDS MCMetaspace, FiniteSetTheorems, SequenceTheorems, WellFoundedInduction, TLAPS

-----------------------------------------------------------------------------
(* Sizes.                                                                  *)

(* Induction over the levels goes by the least level that fails.           *)
LEMMA LeastElement ==
    ASSUME NEW T \in SUBSET Nat, NEW x \in T
    PROVE  \E m \in T : \A k \in T : m <= k
<1> DEFINE R == {ss \in Nat \X Nat : ss[1] < ss[2]}
<1>1. IsWellFoundedOn(R, Nat)
  BY NatLessThanWellFounded DEF OpToRel
<1>2. PICK m \in T : \A y \in T : ~(<<y, m>> \in R)
  <2> HIDE DEF R
  <2> QED BY <1>1, WFMin
<1>3. ASSUME NEW k \in T PROVE m <= k
  <2>1. <<k, m>> \in Nat \X Nat /\ (k < m => <<k, m>> \in R)
    OBVIOUS
  <2>2. ~(k < m)
    BY <1>2, <2>1, Zenon
  <2> QED
    BY <2>2, SMT
<1> QED
  BY <1>3

LEMMA LevelSizes ==
    /\ LV_HIGHEST \in Nat /\ LV_ROOT \in Levels /\ LV_HIGHEST \in Levels /\ Levels \subseteq Nat
    /\ \A l \in Levels : LevelBytes[l] \in Nat \ {0}
    /\ RegionBytes \in Nat \ {0}
    /\ \A l \in Levels : l # LV_ROOT =>
          l - 1 \in Levels /\ LevelBytes[l - 1] = 2 * LevelBytes[l] /\ (l - 1) + 1 = l
    /\ \A l, m \in Levels : l < m =>
          l + 1 \in Levels /\ LevelBytes[l] = 2 * LevelBytes[l + 1]
<1>1. /\ LV_HIGHEST \in Nat /\ LV_ROOT \in Levels /\ LV_HIGHEST \in Levels /\ Levels \subseteq Nat
  BY SegmentsAssumption, SMT DEF Levels, LV_ROOT
<1>2. \A l \in Levels : LevelBytes[l] \in Nat \ {0}
  BY SegmentsAssumption
<1>3. \A l \in Levels : l # LV_ROOT =>
        l - 1 \in Levels /\ l - 1 \in 0..(LV_HIGHEST - 1) /\ (l - 1) + 1 = l
  BY <1>1, SMT DEF Levels, LV_ROOT
<1>4. \A l, m \in Levels : l < m => l + 1 \in Levels /\ l \in 0..(LV_HIGHEST - 1)
  BY <1>1, SMT DEF Levels, LV_ROOT
<1>5. \A l \in 0..(LV_HIGHEST - 1) : LevelBytes[l] = 2 * LevelBytes[l + 1]
  BY SegmentsAssumption
<1>6. \A l \in Levels : l # LV_ROOT => LevelBytes[l - 1] = 2 * LevelBytes[l]
  <2> SUFFICES ASSUME NEW l \in Levels, l # LV_ROOT PROVE LevelBytes[l - 1] = 2 * LevelBytes[l]
    OBVIOUS
  <2>1. LevelBytes[l - 1] = 2 * LevelBytes[(l - 1) + 1]
    BY <1>3, <1>5
  <2> QED
    BY <1>3, <2>1
<1> QED
  BY <1>1, <1>2, <1>3, <1>4, <1>5, <1>6 DEF RegionBytes

(* A multiple of d has no remainder.                                       *)
LEMMA MultipleOf ==
    ASSUME NEW q \in Nat, NEW d \in Nat \ {0}
    PROVE  (q * d) % d = 0
<1> DEFINE p == (q * d) \div d
           r == (q * d) % d
<1>1. q * d \in Nat
  BY SMT
<1>2. p \in Nat /\ r \in 0..(d - 1) /\ q * d = d * p + r
  BY <1>1, SMT
<1> HIDE DEF p, r
<1>3. d * (q - p) = r
  BY <1>2, SMT
<1>4. CASE q - p >= 1
  <2>1. d * (q - p) >= d
    BY <1>2, <1>4, SMT
  <2> QED
    BY <1>2, <1>3, <2>1, SMT
<1>5. CASE q - p <= -1
  <2>1. d * (q - p) <= -d
    BY <1>2, <1>5, SMT
  <2> QED
    BY <1>2, <1>3, <2>1, SMT
<1>6. CASE q - p = 0
  <2>1. d * (q - p) = 0
    BY <1>6, SMT
  <2> QED
    BY <1>3, <2>1 DEF r
<1> QED
  BY <1>2, <1>4, <1>5, <1>6, SMT

(* Which region an address lies in.                                        *)
LEMMA InRegion ==
    ASSUME NEW x \in Nat, NEW d \in Nat \ {0}
    PROVE  /\ x \div d \in Nat /\ (x \div d) * d <= x /\ x < (x \div d + 1) * d
<1> DEFINE q == x \div d
<1>1. q \in Nat /\ d * q <= x /\ x < d * q + d
  BY SMT
<1> HIDE DEF q
<1>2. q * d <= x /\ x < (q + 1) * d
  BY <1>1, SMT
<1> QED
  BY <1>1, <1>2 DEF q

LEMMA RegionUnique ==
    ASSUME NEW x \in Nat, NEW d \in Nat \ {0}, NEW q \in Nat, q * d <= x, x < (q + 1) * d
    PROVE  x \div d = q
<1> DEFINE p == x \div d
<1>1. p \in Nat /\ p * d <= x /\ x < (p + 1) * d
  BY InRegion
<1> HIDE DEF p
<1>2. ~(p + 1 <= q)
  <2>1. p + 1 <= q => (p + 1) * d <= q * d
    BY <1>1, SMT
  <2> QED BY <1>1, <2>1, SMT
<1>3. ~(q + 1 <= p)
  <2>1. q + 1 <= p => (q + 1) * d <= p * d
    BY <1>1, SMT
  <2> QED BY <1>1, <2>1, SMT
<1> QED
  BY <1>1, <1>2, <1>3, SMT DEF p

-----------------------------------------------------------------------------
(* The inductive invariant.  A live segment lies in one region, its next   *)
(* buddy in the same one, and the pointers agree in both directions, which *)
(* Tiling only says of next_buddy; the segment that a call works on is free*)
(* and in no list.                                                         *)

RegionOf(h)  == seg[h].base \div RegionBytes
RegionEnd(h) == (RegionOf(h) + 1) * RegionBytes

NextAgrees(h) ==
    LET n == seg[h].next_buddy
    IN IF n = null THEN end(h) = RegionEnd(h)
       ELSE n \in Live /\ seg[n].base = end(h) /\ seg[n].prev_buddy = h /\ RegionOf(n) = RegionOf(h)
PrevAgrees(h) ==
    LET p == seg[h].prev_buddy
    IN p # null => p \in Live /\ seg[p].next_buddy = h
Placed(h) ==
    /\ RegionOf(h) < regions /\ end(h) <= RegionEnd(h)
    /\ NextAgrees(h) /\ PrevAgrees(h)
Shape == Disjoint /\ \A h \in Live : Placed(h)

Operation ==
    /\ op.kind = "none" => op.seg = null
    /\ op.kind # "none" => op.seg \in Live /\ seg[op.seg].state = "free"
    /\ op.kind = "merge" => op.result = op.seg

Listed(l) == {h \in Live \ {op.seg} : seg[h].state = "free" /\ seg[h].level = l}
Lists ==
    /\ \A l \in Levels : free[l] = Listed(l)
    /\ dead \cup slab = Headers \ Live

Structure == Shape /\ (vm_error = NoError => Operation /\ Lists)

(* The types with the pointers a call in progress follows; they hold even  *)
(* after a root was given old buddies.                                     *)
Types ==
    /\ TypeOK
    /\ op.kind # "none" => op.seg \in Headers
    /\ op.kind = "merge" => op.result \in Headers

IInv == Types /\ (stale_root \/ Structure)

-----------------------------------------------------------------------------
(* Types.                                                                  *)

LEMMA NeedLevels ==
    ASSUME NEW need \in Needs, NEW suggested \in Levels
    PROVE  MIN2(bytes_to_level(need), suggested) \in Levels /\ need \in Nat
BY SegmentsAssumption DEF MIN2

(* A header that is changed in one place, or in some of its fields.        *)
LEMMA OneHeader ==
    ASSUME TypeOK, NEW h \in Headers, NEW r \in Header, seg' = [seg EXCEPT ![h] = r]
    PROVE  seg' \in [Headers -> Header]
BY DEF TypeOK

LEMMA HeaderFields ==
    ASSUME TypeOK, NEW h \in Headers
    PROVE  /\ seg[h] \in Header /\ seg[h].state \in {"dead", "free", "inuse"}
           /\ seg[h].level \in Levels /\ seg[h].level \in Nat /\ seg[h].base \in Nat
           /\ seg[h].committed \in Nat /\ seg[h].used \in Nat
           /\ seg[h].next_buddy \in Headers \cup {null}
           /\ seg[h].prev_buddy \in Headers \cup {null}
           /\ total_bytes(h) \in Nat \ {0} /\ end(h) \in Nat /\ seg[h].base < end(h)
<1>1. seg[h] \in Header
  BY DEF TypeOK
<1>2. /\ seg[h].state \in {"dead", "free", "inuse"} /\ seg[h].level \in Levels
      /\ seg[h].base \in Nat /\ seg[h].committed \in Nat /\ seg[h].used \in Nat
      /\ seg[h].next_buddy \in Headers \cup {null} /\ seg[h].prev_buddy \in Headers \cup {null}
  BY <1>1 DEF Header, Pointers
<1>3. seg[h].level \in Nat
  BY <1>2, LevelSizes
<1>4. total_bytes(h) \in Nat \ {0}
  BY <1>2, LevelSizes DEF total_bytes
<1>5. end(h) \in Nat /\ seg[h].base < end(h)
  BY <1>2, <1>4, SMT DEF end
<1> QED
  BY <1>1, <1>2, <1>3, <1>4, <1>5

LEMMA OpFields ==
    ASSUME TypeOK
    PROVE  op.seg \in Headers \cup {null} /\ op.result \in Headers \cup {null}
           /\ op.level \in Levels /\ op.min \in Nat
           /\ op.kind \in {"none", "get", "merge"}
BY DEF TypeOK, Op, Pointers

LEMMA GranulesAreNat ==
    ASSUME NEW from \in Nat, NEW to
    PROVE  Granules(from, to) \subseteq Nat
<1>1. from \div CommitGranuleBytes \in Nat
  BY SegmentsAssumption, SMT
<1> DEFINE q == from \div CommitGranuleBytes
           p == align_up(to) \div CommitGranuleBytes - 1
<1>2. q \in Nat
  BY <1>1
<1> HIDE DEF q, p
<1>3. q..p \subseteq Nat
  BY <1>2, SMT
<1> QED
  BY <1>3 DEF q, p, Granules

LEMMA CommitSizesAreNat ==
    ASSUME TypeOK, NEW h \in Headers, NEW bytes \in Nat
    PROVE  CommitSizes(h, bytes) \subseteq Nat
<1>1. seg[h].committed \in Nat /\ total_bytes(h) \in Nat
  BY HeaderFields, LevelSizes DEF total_bytes
<1>2. align_up(bytes) \in Nat
  <2> DEFINE q == (bytes + CommitGranuleBytes - 1) \div CommitGranuleBytes
  <2>1. CommitGranuleBytes \in Nat \ {0}
    BY SegmentsAssumption
  <2>2. q \in Nat
    BY <2>1, SMT
  <2> HIDE DEF q
  <2>3. q * CommitGranuleBytes \in Nat
    BY <2>1, <2>2, SMT
  <2> QED BY <2>3 DEF align_up, q
<1> QED
  BY <1>1, <1>2 DEF CommitSizes, MIN2

LEMMA CommitTypes ==
    ASSUME TypeOK, NEW h \in Headers, NEW bytes \in Nat, NEW c \in CommitSizes(h, bytes),
           CommitUpTo(h, bytes, c)
    PROVE  c \in Nat /\ mask' \subseteq Nat
<1>1. c \in Nat
  BY CommitSizesAreNat
<1>2. seg[h].base + seg[h].committed \in Nat
  BY HeaderFields, SMT
<1> DEFINE to == seg[h].base + MIN2(align_up(bytes), total_bytes(h))
<1>3. mask' = mask \/ mask' = mask \cup Granules(seg[h].base + seg[h].committed, to)
  BY DEF CommitUpTo
<1> HIDE DEF to
<1>4. Granules(seg[h].base + seg[h].committed, to) \subseteq Nat
  BY <1>2, GranulesAreNat
<1> QED
  BY <1>1, <1>3, <1>4 DEF TypeOK

-----------------------------------------------------------------------------
(* A search finds what is in a list.                                       *)

LEMMA LeastIsElement ==
    ASSUME NEW S \in SUBSET Nat, NEW x \in S
    PROVE  Least(S) \in S
<1>1. \E m \in S : \A k \in S : m <= k
  BY LeastElement
<1> QED
  BY <1>1 DEF Least

LEMMA GreatestIsElement ==
    ASSUME NEW S \in SUBSET Levels, NEW x \in S
    PROVE  Greatest(S) \in S
<1> DEFINE T == {LV_HIGHEST - l : l \in S}
<1>1. \A l \in S : l \in Nat /\ LV_HIGHEST - l \in Nat
  BY SegmentsAssumption, SMT DEF Levels, LV_ROOT
<1>2. PICK m \in T : \A k \in T : m <= k
  <2>1. T \in SUBSET Nat /\ LV_HIGHEST - x \in T
    BY <1>1
  <2> HIDE DEF T
  <2> QED BY <2>1, LeastElement
<1>3. PICK g \in S : m = LV_HIGHEST - g
  BY <1>2
<1>4. \A y \in S : g >= y
  <2> SUFFICES ASSUME NEW y \in S PROVE g >= y
    OBVIOUS
  <2>1. m <= LV_HIGHEST - y
    BY <1>2
  <2> QED
    BY <1>1, <1>3, <2>1, LevelSizes, SMT
<1> QED
  BY <1>4 DEF Greatest

LEMMA SearchIsListed ==
    ASSUME NEW min, NEW from \in Levels
    PROVE  /\ \A to \in Levels : \A h \in search_segment_ascending(from, to, min) :
                 \E l \in Levels : h \in free[l]
           /\ \A h \in search_segment_descending(from, min) : \E l \in Levels : h \in free[l]
<1>1. ASSUME NEW to \in Levels, NEW h \in search_segment_ascending(from, to, min)
      PROVE  \E l \in Levels : h \in free[l]
  <2> DEFINE found == {l \in from..to : Satisfy(l, min) # {}}
  <2>1. found # {} /\ h \in Satisfy(Least(found), min)
    BY <1>1 DEF search_segment_ascending
  <2>2. found \subseteq Levels
    BY SegmentsAssumption, SMT DEF Levels, LV_ROOT
  <2>3. Least(found) \in Levels
    <3> HIDE DEF found
    <3> QED BY <2>1, <2>2, LeastIsElement, LevelSizes
  <2> QED
    BY <2>1, <2>3 DEF Satisfy
<1>2. ASSUME NEW h \in search_segment_descending(from, min)
      PROVE  \E l \in Levels : h \in free[l]
  <2> DEFINE found == {l \in LV_ROOT..from : Satisfy(l, min) # {}}
  <2>1. found # {} /\ h \in Satisfy(Greatest(found), min)
    BY <1>2 DEF search_segment_descending
  <2>2. found \subseteq Levels
    BY SegmentsAssumption, SMT DEF Levels, LV_ROOT
  <2>3. Greatest(found) \in Levels
    <3> HIDE DEF found
    <3> QED BY <2>1, <2>2, GreatestIsElement
  <2> QED
    BY <2>1, <2>3 DEF Satisfy
<1> QED
  BY <1>1, <1>2

LEMMA FoundIsListed ==
    ASSUME NEW preferred \in Levels, NEW max \in Levels, NEW min,
           NEW h \in search_satisfy_segment_in_free(preferred, max, min)
    PROVE  \E l \in Levels : h \in free[l]
<1> DEFINE near == MIN2(preferred + 2, max)
           try1 == search_segment_ascending(preferred, near, min)
           try2 == search_segment_descending(preferred, min)
           try3 == search_segment_ascending(preferred, max, min)
           try4 == search_segment_ascending(preferred, max, 0)
           try5 == search_segment_descending(preferred, 0)
           tries == <<try1, try2, try3, try4, try5>>
           good == {i \in 1..5 : tries[i] # {}}
<1>1. h \in IF good = {} THEN {} ELSE tries[Least(good)]
  BY DEF search_satisfy_segment_in_free
<1>2. near \in Levels
  BY LevelSizes, SMT DEF MIN2, Levels, LV_ROOT
<1>3. good # {} /\ h \in tries[Least(good)] /\ Least(good) \in 1..5
  <2>1. good \in SUBSET Nat /\ good \subseteq 1..5
    OBVIOUS
  <2> HIDE DEF good, tries
  <2> QED BY <1>1, <2>1, LeastIsElement
<1> HIDE DEF try1, try2, try3, try4, try5, good
<1>4. \E i \in 1..5 : h \in tries[i]
  BY <1>3
<1>5. h \in try1 \cup try2 \cup try3 \cup try4 \cup try5
  BY <1>4, SMT
<1>6. /\ \A g \in try1 : \E l \in Levels : g \in free[l]
      /\ \A g \in try2 : \E l \in Levels : g \in free[l]
      /\ \A g \in try3 : \E l \in Levels : g \in free[l]
      /\ \A g \in try4 : \E l \in Levels : g \in free[l]
      /\ \A g \in try5 : \E l \in Levels : g \in free[l]
  BY <1>2, SearchIsListed DEF try1, try2, try3, try4, try5
<1> QED
  BY <1>5, <1>6

-----------------------------------------------------------------------------
(* Every action keeps the types.                                           *)

LEMMA GetFreeTypes ==
    ASSUME Types, NEW need \in Needs, NEW suggested \in Levels, GetFree(need, suggested)
    PROVE  Types'
<1> DEFINE preferred == MIN2(bytes_to_level(need), suggested)
<1>1. preferred \in Levels /\ need \in Nat /\ bytes_to_level(need) \in Levels
  BY NeedLevels, SegmentsAssumption
<1>2. PICK h \in search_satisfy_segment_in_free(preferred, bytes_to_level(need), need) :
        /\ free' = [free EXCEPT ![seg[h].level] = free[seg[h].level] \ {h}]
        /\ op' = [kind |-> "get", seg |-> h, result |-> null, level |-> preferred, min |-> need]
  BY DEF GetFree, Go
<1>3. h \in Headers
  BY <1>1, <1>2, FoundIsListed DEF Types, TypeOK
<1>4. op' \in Op /\ op'.seg \in Headers /\ op'.kind = "get"
  BY <1>1, <1>2, <1>3 DEF Op, Pointers
<1>5. free' \in [Levels -> SUBSET Headers]
  BY <1>2 DEF Types, TypeOK
<1> QED
  BY <1>4, <1>5 DEF GetFree, Types, TypeOK

LEMMA GetRootTypes ==
    ASSUME Types, NEW need \in Needs, NEW suggested \in Levels, GetRoot(need, suggested)
    PROVE  Types'
<1> DEFINE preferred == MIN2(bytes_to_level(need), suggested)
<1>1. preferred \in Levels /\ need \in Nat
  BY NeedLevels
<1>2. PICK h \in Allocatable :
        /\ TakeHeader(h)
        /\ seg' = [seg EXCEPT ![h] = Initialized(h, regions * RegionBytes, LV_ROOT)]
        /\ op' = [kind |-> "get", seg |-> h, result |-> null, level |-> preferred, min |-> need]
        /\ stale_root' = (stale_root \/ seg[h].next_buddy # null \/ seg[h].prev_buddy # null)
  BY DEF GetRoot, Go
<1>3. h \in Headers /\ dead' \subseteq Headers /\ slab' \subseteq Headers
  BY <1>2 DEF Types, TypeOK, Allocatable, TakeHeader
<1>4. op' \in Op /\ op'.seg \in Headers /\ op'.kind = "get"
  BY <1>1, <1>2, <1>3 DEF Op, Pointers
<1>5. regions \in Nat /\ regions' \in 0..MaxRegions /\ regions * RegionBytes \in Nat
  BY LevelSizes, SegmentsAssumption, SMT DEF Types, TypeOK, GetRoot
<1>6. seg' \in [Headers -> Header]
  <2>1. Initialized(h, regions * RegionBytes, LV_ROOT) \in Header
    BY <1>3, <1>5, HeaderFields, LevelSizes DEF Types, Initialized, Header, Pointers
  <2> QED
    BY <1>2, <1>3, <2>1, OneHeader DEF Types
<1>7. stale_root' \in BOOLEAN
  BY <1>2 DEF Types, TypeOK
<1> QED
  BY <1>3, <1>4, <1>5, <1>6, <1>7 DEF GetRoot, Types, TypeOK

LEMMA SplitTypes ==
    ASSUME Types, SplitStep
    PROVE  Types'
<1> DEFINE h == op.seg
           l == seg[h].level + 1
           half == LevelBytes[l]
           c == seg[h].committed
           n == seg[h].next_buddy
<1>1. PICK s \in Allocatable :
        /\ TakeHeader(s)
        /\ seg' = [g \in Headers |->
             IF g = h
             THEN [state |-> "free", level |-> l, base |-> seg[h].base,
                   committed |-> IF c >= half THEN half ELSE c, used |-> seg[h].used,
                   next_buddy |-> s,
                   prev_buddy |-> IF n = h THEN s ELSE seg[h].prev_buddy]
             ELSE IF g = s
             THEN [state |-> "free", level |-> l, base |-> seg[h].base + half,
                   committed |-> IF c >= half THEN c - half ELSE 0, used |-> 0,
                   next_buddy |-> n, prev_buddy |-> h]
             ELSE IF g = n THEN [seg[g] EXCEPT !.prev_buddy = s]
             ELSE seg[g]]
        /\ free' = [free EXCEPT ![l] = free[l] \cup {s}]
  BY Zenon DEF SplitStep
<1>2. h \in Headers /\ op.kind = "get"
  BY DEF Types, SplitStep, At
<1>3. s \in Headers /\ dead' \subseteq Headers /\ slab' \subseteq Headers
  BY <1>1 DEF Types, TypeOK, Allocatable, TakeHeader
<1>4. l \in Levels /\ half \in Nat
  BY <1>2, HeaderFields, OpFields, LevelSizes DEF Types, SplitStep
<1>5. /\ c \in Nat /\ seg[h].base \in Nat /\ seg[h].used \in Nat /\ n \in Pointers
      /\ seg[h].prev_buddy \in Pointers
  BY <1>2, HeaderFields DEF Types, Pointers
<1> HIDE DEF h, l, half, c, n
<1>6. [state |-> "free", level |-> l, base |-> seg[h].base,
       committed |-> IF c >= half THEN half ELSE c, used |-> seg[h].used,
       next_buddy |-> s, prev_buddy |-> IF n = h THEN s ELSE seg[h].prev_buddy] \in Header
  BY <1>2, <1>3, <1>4, <1>5 DEF Header, Pointers
<1>7. [state |-> "free", level |-> l, base |-> seg[h].base + half,
       committed |-> IF c >= half THEN c - half ELSE 0, used |-> 0,
       next_buddy |-> n, prev_buddy |-> h] \in Header
  <2>1. seg[h].base + half \in Nat /\ (c >= half => c - half \in Nat)
    BY <1>4, <1>5, SMT
  <2> QED
    BY <1>2, <1>3, <1>4, <1>5, <2>1 DEF Header, Pointers
<1>8. \A g \in Headers : seg[g] \in Header /\ [seg[g] EXCEPT !.prev_buddy = s] \in Header
  BY <1>3 DEF Types, TypeOK, Header, Pointers
<1>9. seg' \in [Headers -> Header]
  BY <1>1, <1>6, <1>7, <1>8
<1>10. free' \in [Levels -> SUBSET Headers]
  BY <1>1, <1>3, <1>4 DEF Types, TypeOK
<1> QED
  BY <1>3, <1>9, <1>10 DEF SplitStep, Types, TypeOK

(* What a merge and an enlargement make of the other headers.              *)
LEMMA JoinTypes ==
    ASSUME Types, NEW a \in Headers, NEW q \in Pointers, NEW g \in Headers
    PROVE  /\ seg[g] \in Header /\ DeadHeader(g, q) \in Header
           /\ [seg[g] EXCEPT !.prev_buddy = a] \in Header
BY DEF Types, TypeOK, DeadHeader, Header, Pointers

LEMMA MergeTypes ==
    ASSUME Types, MergeStep
    PROVE  Types'
<1> DEFINE h == op.seg
           b == buddy(h)
           leader   == IF is_leader(h) THEN h ELSE b
           follower == IF is_leader(h) THEN b ELSE h
           n == seg[follower].next_buddy
           c == seg[leader].committed
           l == seg[h].level - 1
           r == [state |-> seg[leader].state, level |-> l, base |-> seg[leader].base,
                 committed |-> IF c = total_bytes(leader) THEN c + seg[follower].committed ELSE c,
                 used |-> seg[leader].used, next_buddy |-> n,
                 prev_buddy |-> IF n = leader THEN leader ELSE seg[leader].prev_buddy]
<1>1. op.kind = "merge" /\ h \in Headers /\ op.result \in Headers
  BY DEF Types, MergeStep, At
<1>2. b \in Headers
  BY <1>1, HeaderFields DEF MergeStep, buddy, Types
<1>3. leader \in Headers /\ follower \in Headers
  BY <1>1, <1>2
<1>4. l \in Levels
  BY <1>1, HeaderFields, LevelSizes DEF MergeStep, Types
<1>5. CASE UNCHANGED <<seg, free, dead, op>>
  BY <1>5 DEF MergeStep, Types, TypeOK, Stop
<1>6. CASE /\ free' = [free EXCEPT ![seg[b].level] = free[seg[b].level] \ {b}]
           /\ seg' = [g \in Headers |->
                IF g = leader
                THEN [state |-> seg[g].state, level |-> l, base |-> seg[g].base,
                      committed |-> IF c = total_bytes(leader)
                                    THEN c + seg[follower].committed ELSE c,
                      used |-> seg[g].used,
                      next_buddy |-> n,
                      prev_buddy |-> IF n = leader THEN leader ELSE seg[g].prev_buddy]
                ELSE IF g = follower
                THEN DeadHeader(g, IF n = g THEN leader ELSE seg[g].prev_buddy)
                ELSE IF g = n THEN [seg[g] EXCEPT !.prev_buddy = leader]
                ELSE seg[g]]
           /\ dead' = dead \cup {follower}
           /\ op' = [kind |-> "merge", seg |-> leader,
                     result |-> IF l = LV_ROOT THEN op.result ELSE leader,
                     level |-> op.level, min |-> 0]
  <2>1. r \in Header
    <3>1. /\ seg[leader].state \in {"dead", "free", "inuse"} /\ seg[leader].base \in Nat
          /\ c \in Nat /\ seg[leader].used \in Nat /\ seg[leader].prev_buddy \in Pointers
          /\ seg[follower].committed \in Nat /\ n \in Pointers
      BY <1>3, HeaderFields DEF Types, Pointers
    <3>2. c + seg[follower].committed \in Nat
      BY <3>1, SMT
    <3> HIDE DEF c, n, l, leader, follower
    <3> QED
      BY <1>3, <1>4, <3>1, <3>2 DEF Header, Pointers
  <2>2. seg' = [g \in Headers |->
                  IF g = leader THEN r
                  ELSE IF g = follower
                  THEN DeadHeader(g, IF n = follower THEN leader ELSE seg[follower].prev_buddy)
                  ELSE IF g = n THEN [seg[g] EXCEPT !.prev_buddy = leader]
                  ELSE seg[g]]
    <3> HIDE DEF c, n, l, leader, follower
    <3> QED BY <1>6
  <2>3. (IF n = follower THEN leader ELSE seg[follower].prev_buddy) \in Pointers
    BY <1>3, HeaderFields DEF Types, Pointers
  <2>4. seg' \in [Headers -> Header]
    <3> DEFINE q == IF n = follower THEN leader ELSE seg[follower].prev_buddy
    <3>1. \A g \in Headers : /\ seg[g] \in Header /\ DeadHeader(g, q) \in Header
                             /\ [seg[g] EXCEPT !.prev_buddy = leader] \in Header
      <4> HIDE DEF q, leader
      <4> QED BY <1>3, <2>3, JoinTypes DEF q
    <3> HIDE DEF n, r, leader, follower
    <3> QED BY <2>1, <2>2, <3>1
  <2>5. op' \in Op /\ op'.seg \in Headers /\ op'.result \in Headers /\ op'.kind = "merge"
    BY <1>1, <1>3, <1>6, OpFields DEF Types, Op, Pointers
  <2>6. free' \in [Levels -> SUBSET Headers] /\ dead' \subseteq Headers
    BY <1>3, <1>6 DEF Types, TypeOK
  <2> QED
    BY <2>4, <2>5, <2>6 DEF MergeStep, Types, TypeOK
<1> QED
  BY <1>5, <1>6, Zenon DEF MergeStep, Stop, Go

LEMMA EnlargeTypes ==
    ASSUME Types, NEW h \in Headers, NEW need \in Needs, Enlarge(h, need)
    PROVE  Types'
<1> DEFINE b == seg[h].next_buddy
           n == seg[b].next_buddy
           c == seg[h].committed
           r == [state |-> "inuse", level |-> seg[h].level - 1, base |-> seg[h].base,
                 committed |-> IF c = total_bytes(h) THEN c + c ELSE c, used |-> seg[h].used,
                 next_buddy |-> n,
                 prev_buddy |-> IF n = h THEN h ELSE seg[h].prev_buddy]
<1>1. b \in Headers
  BY HeaderFields DEF Enlarge, Types
<1>2. seg[h].level - 1 \in Levels
  BY HeaderFields, LevelSizes DEF Enlarge, TriesToEnlarge, Types
<1>3. r \in Header
  <2>1. /\ seg[h].base \in Nat /\ c \in Nat /\ seg[h].used \in Nat
        /\ seg[h].prev_buddy \in Pointers /\ n \in Pointers
    BY <1>1, HeaderFields DEF Types, Pointers
  <2>2. c + c \in Nat
    BY <2>1, SMT
  <2> HIDE DEF c, n
  <2> QED
    BY <1>2, <2>1, <2>2 DEF Header, Pointers
<1>4. /\ free' = [free EXCEPT ![seg[b].level] = free[seg[b].level] \ {b}]
      /\ dead' = dead \cup {b}
      /\ UNCHANGED <<slab, regions, mask, op, stale_root, vm_error>>
  BY DEF Enlarge
<1>5. seg' = [g \in Headers |->
                IF g = h THEN r
                ELSE IF g = b THEN DeadHeader(g, IF n = b THEN h ELSE seg[b].prev_buddy)
                ELSE IF g = n THEN [seg[g] EXCEPT !.prev_buddy = h]
                ELSE seg[g]]
  BY DEF Enlarge
<1>6. (IF n = b THEN h ELSE seg[b].prev_buddy) \in Pointers
  BY <1>1, HeaderFields DEF Types, Pointers
<1>7. seg' \in [Headers -> Header]
  <2> DEFINE q == IF n = b THEN h ELSE seg[b].prev_buddy
  <2>1. \A g \in Headers : /\ seg[g] \in Header /\ DeadHeader(g, q) \in Header
                           /\ [seg[g] EXCEPT !.prev_buddy = h] \in Header
    <3> HIDE DEF q
    <3> QED BY <1>6, JoinTypes DEF q
  <2> HIDE DEF n, r, b
  <2> QED BY <1>3, <1>5, <2>1
<1>8. free' \in [Levels -> SUBSET Headers] /\ dead' \subseteq Headers
  BY <1>1, <1>4 DEF Types, TypeOK
<1> QED
  BY <1>4, <1>7, <1>8 DEF Types, TypeOK

LEMMA FinishTypes ==
    ASSUME Types, FinishGet \/ FinishReturn
    PROVE  Types'
<1> DEFINE h == op.seg
<1>1. CASE FinishReturn
  <2>1. op.result \in Headers /\ op' = Idle
    BY <1>1 DEF FinishReturn, At, Types, Go
  <2>2. free' \in [Levels -> SUBSET Headers]
    BY <1>1, <2>1 DEF FinishReturn, Types, TypeOK
  <2>3. Idle \in Op /\ Idle.kind = "none"
    BY LevelSizes DEF Idle, Op, Pointers
  <2> QED
    BY <1>1, <2>1, <2>2, <2>3 DEF FinishReturn, Types, TypeOK
<1>2. CASE FinishGet
  <2>1. h \in Headers
    BY <1>2 DEF FinishGet, At, Types
  <2>2. Idle \in Op /\ Idle.kind = "none"
    BY LevelSizes DEF Idle, Op, Pointers
  <2>3. op' = op \/ op' = Idle
    BY <1>2 DEF FinishGet, Stop, Go
  <2>4. seg' \in [Headers -> Header] /\ mask' \subseteq Nat
    <3>1. seg[h] \in Header
      BY <2>1, HeaderFields DEF Types
    <3>2. CASE UNCHANGED <<seg, mask>>
      BY <3>2 DEF Types, TypeOK
    <3>3. CASE seg' = [seg EXCEPT ![h] = [seg[h] EXCEPT !.state = "inuse"]] /\ UNCHANGED mask
      <4>1. [seg[h] EXCEPT !.state = "inuse"] \in Header
        BY <3>1 DEF Header
      <4> QED
        BY <2>1, <3>3, <4>1, OneHeader DEF Types, TypeOK
    <3>4. CASE \E c \in CommitSizes(h, op.min) :
                 /\ CommitUpTo(h, op.min, c)
                 /\ seg' = [seg EXCEPT ![h] = [seg[h] EXCEPT !.state = "inuse", !.committed = c]]
      <4>1. PICK c \in CommitSizes(h, op.min) :
                 /\ CommitUpTo(h, op.min, c)
                 /\ seg' = [seg EXCEPT ![h] = [seg[h] EXCEPT !.state = "inuse", !.committed = c]]
        BY <3>4
      <4>2. c \in Nat /\ mask' \subseteq Nat
        <5>1. op.min \in Nat
          BY DEF Types, TypeOK, Op
        <5> HIDE DEF h
        <5> QED BY <2>1, <4>1, <5>1, CommitTypes DEF Types
      <4>3. [seg[h] EXCEPT !.state = "inuse", !.committed = c] \in Header
        BY <3>1, <4>2 DEF Header
      <4> QED
        BY <2>1, <4>1, <4>2, <4>3, OneHeader DEF Types
    <3> QED
      BY <1>2, <3>2, <3>3, <3>4 DEF FinishGet
  <2> QED
    BY <1>2, <2>2, <2>3, <2>4 DEF FinishGet, Types, TypeOK
<1> QED
  BY <1>1, <1>2

LEMMA ReturnTypes ==
    ASSUME Types, MergeStops \/ Purge \/ \E h \in Headers : ReturnSegment(h)
    PROVE  Types'
<1>2. CASE MergeStops
  BY <1>2 DEF MergeStops, Stop, heap, Types, TypeOK
<1>3. CASE Purge
  <2>1. \A g \in Headers : seg[g] \in Header /\ uncommit(g) \in Header
    BY DEF Types, TypeOK, uncommit, Header
  <2>2. seg' \in [Headers -> Header]
    BY <1>3, <2>1 DEF Purge
  <2>3. mask' \subseteq Nat
    BY <1>3 DEF Purge, Types, TypeOK
  <2> QED
    BY <1>3, <2>2, <2>3 DEF Purge, Types, TypeOK
<1>4. CASE \E h \in Headers : ReturnSegment(h)
  <2>0. PICK h \in Headers : ReturnSegment(h)
    BY <1>4
  <2>1. [seg[h] EXCEPT !.state = "free", !.used = 0] \in Header
    BY HeaderFields DEF Types, Header
  <2>2. seg' \in [Headers -> Header]
    BY <2>0, <2>1, OneHeader DEF ReturnSegment, Types
  <2>3. op' = attempt_merge_segment(h) /\ UNCHANGED <<free, dead, slab, regions, mask, stale_root>>
    BY <2>0 DEF ReturnSegment, Go
  <2>4. /\ attempt_merge_segment(h) \in Op /\ attempt_merge_segment(h).seg \in Headers
        /\ attempt_merge_segment(h).result \in Headers
    BY HeaderFields DEF Types, attempt_merge_segment, Op, Pointers
  <2> QED
    BY <2>2, <2>3, <2>4 DEF Types, TypeOK
<1> QED
  BY <1>2, <1>3, <1>4

LEMMA AllocateTypes ==
    ASSUME Types, NEW h \in Headers, NEW bytes \in Needs,
           EnlargeStops(h, bytes) \/ Allocate(h, bytes) \/ CommitAndAllocate(h, bytes)
    PROVE  Types'
<1>1. seg[h] \in Header /\ bytes \in Nat
  BY SegmentsAssumption, HeaderFields DEF Types
<1>2. CASE EnlargeStops(h, bytes)
  BY <1>2 DEF EnlargeStops, Stop, heap, Types, TypeOK
<1>5. CASE Allocate(h, bytes)
  <2>1. [seg[h] EXCEPT !.used = seg[h].used + bytes] \in Header
    <3>1. seg[h].used + bytes \in Nat
      BY <1>1, HeaderFields, SMT DEF Types
    <3> QED BY <1>1, <3>1 DEF Header
  <2>2. seg' \in [Headers -> Header]
    BY <1>5, <2>1, OneHeader DEF Allocate, Types
  <2> QED
    BY <1>5, <2>2 DEF Allocate, Types, TypeOK
<1>6. CASE CommitAndAllocate(h, bytes)
  <2>1. UNCHANGED <<op, free, dead, slab, regions, stale_root>>
    BY <1>6 DEF CommitAndAllocate, Stop, Go
  <2>2. CASE UNCHANGED <<seg, mask>>
    BY <2>1, <2>2 DEF Types, TypeOK
  <2>3. CASE \E c \in CommitSizes(h, bytes) :
               /\ CommitUpTo(h, bytes, c)
               /\ \/ UNCHANGED seg
                  \/ seg' = [seg EXCEPT ![h] = [seg[h] EXCEPT
                               !.committed = c, !.used = seg[h].used + bytes]]
    <3>1. PICK c \in CommitSizes(h, bytes) :
               /\ CommitUpTo(h, bytes, c)
               /\ \/ UNCHANGED seg
                  \/ seg' = [seg EXCEPT ![h] = [seg[h] EXCEPT
                               !.committed = c, !.used = seg[h].used + bytes]]
      BY <2>3
    <3>2. c \in Nat /\ mask' \subseteq Nat
      BY <1>1, <3>1, CommitTypes DEF Types
    <3>3. seg[h].used + bytes \in Nat
      BY <1>1, HeaderFields, SMT DEF Types
    <3>4. [seg[h] EXCEPT !.committed = c, !.used = seg[h].used + bytes] \in Header
      BY <1>1, <3>2, <3>3 DEF Header
    <3>5. seg' \in [Headers -> Header]
      BY <3>1, <3>4, OneHeader DEF Types, TypeOK
    <3> QED
      BY <2>1, <3>2, <3>5 DEF Types, TypeOK
  <2> QED
    BY <1>6, <2>2, <2>3 DEF CommitAndAllocate
<1> QED
  BY <1>2, <1>5, <1>6

LEMMA InitTypes == Init => Types
<1> SUFFICES ASSUME Init PROVE Types
  OBVIOUS
<1>1. seg \in [Headers -> Header]
  BY LevelSizes DEF Init, Header, Pointers
<1>2. op \in Op /\ op.kind = "none"
  BY LevelSizes DEF Init, Idle, Op, Pointers
<1>3. regions \in 0..MaxRegions
  BY SegmentsAssumption, SMT DEF Init
<1> QED
  BY <1>1, <1>2, <1>3 DEF Init, Types, TypeOK

LEMMA NextTypes ==
    ASSUME Types, [Next]_vars
    PROVE  Types'
<1>1. CASE UNCHANGED vars
  BY <1>1 DEF vars, Types, TypeOK
<1>2. CASE \E need \in Needs, suggested \in Levels :
             GetFree(need, suggested) \/ GetRoot(need, suggested)
  BY <1>2, GetFreeTypes, GetRootTypes
<1>3. CASE SplitStep \/ FinishGet \/ MergeStep \/ FinishReturn
  BY <1>3, SplitTypes, FinishTypes, MergeTypes
<1>4. CASE \E h \in Headers, bytes \in Needs :
             \/ Enlarge(h, bytes) \/ EnlargeStops(h, bytes)
             \/ Allocate(h, bytes) \/ CommitAndAllocate(h, bytes)
  BY <1>4, EnlargeTypes, AllocateTypes
<1>5. CASE MergeStops \/ Purge \/ \E h \in Headers : ReturnSegment(h)
  BY <1>5, ReturnTypes
<1> QED
  BY <1>1, <1>2, <1>3, <1>4, <1>5 DEF Next

-----------------------------------------------------------------------------
(* How segments lie.                                                       *)

LEMMA ShapeStays ==
    ASSUME Types, Shape, regions' = regions,
           \A h \in Headers :
              /\ seg'[h].level = seg[h].level /\ seg'[h].base = seg[h].base
              /\ seg'[h].next_buddy = seg[h].next_buddy /\ seg'[h].prev_buddy = seg[h].prev_buddy
              /\ seg'[h].state = "dead" <=> seg[h].state = "dead"
    PROVE  Shape' /\ Live' = Live
<1>1. Live' = Live
  BY DEF Live
<1>2. \A h \in Headers : end(h)' = end(h) /\ RegionOf(h)' = RegionOf(h) /\ RegionEnd(h)' = RegionEnd(h)
  BY DEF end, total_bytes, RegionOf, RegionEnd
<1>3. Live \subseteq Headers
  BY DEF Live
<1>4. Disjoint'
  BY <1>1, <1>2, <1>3 DEF Shape, Disjoint
<1>5. ASSUME NEW h \in Live PROVE Placed(h)'
  <2>1. h \in Headers /\ Placed(h)
    BY <1>3 DEF Shape
  <2>2. NextAgrees(h)'
    BY <1>1, <1>2, <1>3, <2>1 DEF Placed, NextAgrees
  <2>3. PrevAgrees(h)'
    BY <1>1, <1>3, <2>1 DEF Placed, PrevAgrees
  <2> QED
    BY <1>2, <2>1, <2>2, <2>3 DEF Placed
<1> QED
  BY <1>1, <1>4, <1>5 DEF Shape

(* A region gets its root segment.                                         *)
LEMMA RootShape ==
    ASSUME Types, Shape, NEW h \in Headers, h \notin Live,
           seg[h].next_buddy = null, seg[h].prev_buddy = null,
           seg' = [seg EXCEPT ![h] = Initialized(h, regions * RegionBytes, LV_ROOT)],
           regions' = regions + 1
    PROVE  Shape' /\ Live' = Live \cup {h}
<1> DEFINE RB == RegionBytes
<1>1. RB \in Nat \ {0} /\ regions \in Nat /\ Live \subseteq Headers /\ regions * RB \in Nat
      /\ RB = LevelBytes[LV_ROOT]
  <2>1. RB \in Nat \ {0} /\ regions \in Nat /\ RB = LevelBytes[LV_ROOT]
    BY LevelSizes, SegmentsAssumption DEF Types, TypeOK, RegionBytes
  <2> HIDE DEF RB
  <2> QED BY <2>1, SMT DEF Live
<1> HIDE DEF RB
<1>2. /\ seg'[h].state = "free" /\ seg'[h].level = LV_ROOT /\ seg'[h].base = regions * RB
      /\ seg'[h].next_buddy = null /\ seg'[h].prev_buddy = null
      /\ \A g \in Headers : g # h => seg'[g] = seg[g]
  BY DEF Types, TypeOK, Initialized, RB
<1>3. Live' = Live \cup {h}
  BY <1>1, <1>2, SMT DEF Live
<1>4. end(h)' = regions * RB + RB
  BY <1>1, <1>2 DEF end, total_bytes
<1>5. RegionOf(h)' = regions /\ RegionEnd(h)' = regions * RB + RB
  <2>1. (regions * RB) < (regions + 1) * RB /\ (regions + 1) * RB = regions * RB + RB
    BY <1>1, SMT
  <2>2. (regions * RB) \div RB = regions
    BY <1>1, <2>1, RegionUnique, SMT
  <2>3. RegionOf(h)' = regions
    BY <1>2, <2>2 DEF RegionOf, RB
  <2> QED
    BY <2>1, <2>3 DEF RegionEnd, RB
<1>6. \A g \in Live : end(g)' = end(g) /\ RegionOf(g)' = RegionOf(g) /\ RegionEnd(g)' = RegionEnd(g)
  BY <1>1, <1>2 DEF end, total_bytes, RegionOf, RegionEnd
<1>7. ASSUME NEW g \in Live PROVE end(g) <= regions * RB /\ end(g) \in Nat
  <2>1. RegionOf(g) < regions /\ end(g) <= RegionEnd(g) /\ RegionEnd(g) = (RegionOf(g) + 1) * RB
    BY DEF Shape, Placed, RegionEnd, RB
  <2>2. end(g) \in Nat /\ RegionOf(g) \in Nat
    BY <1>1, HeaderFields, InRegion DEF Types, RegionOf, RB
  <2>3. (RegionOf(g) + 1) * RB <= regions * RB
    BY <1>1, <2>1, <2>2, SMT
  <2> QED
    BY <1>1, <2>1, <2>2, <2>3, SMT
<1>8. Disjoint'
  <2> SUFFICES ASSUME NEW f \in Live', NEW g \in Live', f # g
               PROVE  end(f)' <= seg'[g].base \/ end(g)' <= seg'[f].base
    BY DEF Disjoint
  <2>1. CASE f \in Live /\ g \in Live
    BY <1>1, <1>2, <1>6, <2>1 DEF Shape, Disjoint
  <2>2. CASE f = h \/ g = h
    BY <1>2, <1>3, <1>6, <1>7, <2>2
  <2> QED
    BY <1>3, <2>1, <2>2
<1>9. ASSUME NEW g \in Live' PROVE Placed(g)'
  <2>1. CASE g = h
    <3>1. RegionOf(h)' < regions' /\ end(h)' <= RegionEnd(h)'
      BY <1>1, <1>4, <1>5, SMT
    <3>2. NextAgrees(h)' /\ PrevAgrees(h)'
      BY <1>2, <1>4, <1>5 DEF NextAgrees, PrevAgrees
    <3> QED
      BY <2>1, <3>1, <3>2 DEF Placed
  <2>2. CASE g # h
    <3>1. g \in Live /\ Placed(g) /\ seg'[g] = seg[g]
      BY <1>1, <1>2, <1>3, <2>2 DEF Shape
    <3>2. RegionOf(g)' < regions' /\ end(g)' <= RegionEnd(g)'
      <4>1. RegionOf(g) \in Nat
        BY <1>1, <3>1, HeaderFields, InRegion DEF Types, RegionOf, RB
      <4> QED
        BY <1>1, <1>6, <3>1, <4>1, SMT DEF Placed
    <3>3. NextAgrees(g)'
      BY <1>1, <1>2, <1>3, <1>6, <3>1 DEF Placed, NextAgrees
    <3>4. PrevAgrees(g)'
      BY <1>1, <1>2, <1>3, <3>1 DEF Placed, PrevAgrees
    <3> QED
      BY <3>2, <3>3, <3>4 DEF Placed
  <2> QED
    BY <2>1, <2>2
<1> QED
  BY <1>3, <1>8, <1>9 DEF Shape

(* A segment becomes two halves.                                           *)
LEMMA SplitShape ==
    ASSUME Types, Shape, regions' = regions,
           NEW h \in Live, NEW s \in Headers, s \notin Live,
           NEW l \in Levels, LevelBytes[seg[h].level] = 2 * LevelBytes[l],
           NEW n, n = seg[h].next_buddy,
           /\ seg'[h].state # "dead" /\ seg'[h].level = l /\ seg'[h].base = seg[h].base
           /\ seg'[h].next_buddy = s
           /\ seg'[h].prev_buddy = IF n = h THEN s ELSE seg[h].prev_buddy,
           /\ seg'[s].state # "dead" /\ seg'[s].level = l
           /\ seg'[s].base = seg[h].base + LevelBytes[l]
           /\ seg'[s].next_buddy = n /\ seg'[s].prev_buddy = h,
           \A g \in Headers : (g # h /\ g # s) =>
              seg'[g] = IF g = n THEN [seg[g] EXCEPT !.prev_buddy = s] ELSE seg[g]
    PROVE  Shape' /\ Live' = Live \cup {s}
<1> DEFINE RB == RegionBytes
           half == LevelBytes[l]
<1>1. /\ RB \in Nat \ {0} /\ half \in Nat \ {0} /\ regions \in Nat /\ Live \subseteq Headers
      /\ h \in Headers /\ s # h
  BY LevelSizes, SegmentsAssumption DEF Types, TypeOK, Live
<1>2. seg[h].base \in Nat /\ end(h) = seg[h].base + 2 * half /\ Placed(h)
  BY <1>1, HeaderFields DEF Types, end, total_bytes, Shape
<1>3. n # null => n \in Live /\ seg[n].base = end(h) /\ seg[n].prev_buddy = h /\ RegionOf(n) = RegionOf(h)
  BY <1>2 DEF Placed, NextAgrees
<1>4. n # h /\ n # s /\ (n = null \/ n \in Live)
  <2>1. n = null \/ n \in Live
    BY <1>3
  <2>2. h # null /\ s # null
    BY <1>1, SegmentsAssumption
  <2>3. n = h => seg[h].base = end(h)
    BY <1>3, <2>2
  <2> QED
    BY <1>1, <1>2, <2>1, <2>2, <2>3, SMT
<1>5. \A g \in Headers : (g # h /\ g # s) =>
        /\ seg'[g].state = seg[g].state /\ seg'[g].level = seg[g].level
        /\ seg'[g].base = seg[g].base /\ seg'[g].next_buddy = seg[g].next_buddy
        /\ seg'[g].prev_buddy = IF g = n THEN s ELSE seg[g].prev_buddy
  <2> SUFFICES ASSUME NEW g \in Headers, g # h, g # s
               PROVE  /\ seg'[g].state = seg[g].state /\ seg'[g].level = seg[g].level
                      /\ seg'[g].base = seg[g].base /\ seg'[g].next_buddy = seg[g].next_buddy
                      /\ seg'[g].prev_buddy = IF g = n THEN s ELSE seg[g].prev_buddy
    OBVIOUS
  <2>1. seg[g] \in Header
    BY HeaderFields DEF Types
  <2> QED
    BY <2>1 DEF Header
<1>6. Live' = Live \cup {s}
  <2>1. \A g \in Headers : g \in Live' <=> (g \in Live \/ g = s)
    BY <1>1, <1>5 DEF Live
  <2> QED
    BY <1>1, <2>1 DEF Live
<1>7. end(h)' = seg[h].base + half /\ end(s)' = end(h)
  <2>1. end(h)' = seg[h].base + half /\ end(s)' = (seg[h].base + half) + half
    BY DEF end, total_bytes
  <2> HIDE DEF half
  <2> QED BY <1>1, <1>2, <2>1, SMT
<1>8. \A g \in Live : g # h => end(g)' = end(g) /\ RegionOf(g)' = RegionOf(g) /\ RegionEnd(g)' = RegionEnd(g)
  <2> SUFFICES ASSUME NEW g \in Live, g # h
               PROVE  end(g)' = end(g) /\ RegionOf(g)' = RegionOf(g) /\ RegionEnd(g)' = RegionEnd(g)
    OBVIOUS
  <2>1. seg'[g].level = seg[g].level /\ seg'[g].base = seg[g].base
    BY <1>1, <1>5
  <2> QED
    BY <2>1 DEF end, total_bytes, RegionOf, RegionEnd
<1>9. RegionOf(h)' = RegionOf(h) /\ RegionEnd(h)' = RegionEnd(h)
  BY DEF RegionOf, RegionEnd
<1>10. RegionOf(s)' = RegionOf(h) /\ RegionEnd(s)' = RegionEnd(h)
  <2>1. /\ RegionOf(h) \in Nat /\ RegionOf(h) * RB <= seg[h].base
        /\ end(h) <= (RegionOf(h) + 1) * RB
    BY <1>1, <1>2, InRegion DEF RegionOf, Placed, RegionEnd
  <2>2. seg[h].base + half \in Nat /\ seg[h].base <= seg[h].base + half /\ seg[h].base + half < end(h)
    <3> HIDE DEF half
    <3> QED BY <1>1, <1>2, SMT
  <2> DEFINE q == RegionOf(h)
  <2>3. q * RB <= seg[h].base + half /\ seg[h].base + half < (q + 1) * RB
    <3>1. q * RB \in Int /\ (q + 1) * RB \in Int /\ end(h) \in Int
      BY <1>1, <2>1, HeaderFields, SMT DEF Types
    <3> HIDE DEF q, RB, half
    <3> QED BY <1>1, <1>2, <2>1, <2>2, <3>1, SMT DEF q
  <2>4. (seg[h].base + half) \div RB = q
    <3> HIDE DEF q, RB, half
    <3> QED BY <1>1, <2>1, <2>2, <2>3, RegionUnique DEF q
  <2>5. RegionOf(s)' = RegionOf(h)
    BY <2>4 DEF RegionOf
  <2> QED
    BY <2>5 DEF RegionEnd
<1> HIDE DEF RB, half
<1>11. Disjoint'
  <2> SUFFICES ASSUME NEW f \in Live', NEW g \in Live', f # g
               PROVE  end(f)' <= seg'[g].base \/ end(g)' <= seg'[f].base
    BY DEF Disjoint
  <2>0. seg'[s].base = seg[h].base + half /\ seg'[h].base = seg[h].base
    BY DEF half
  <2>1. ASSUME NEW x \in Live, NEW y \in Live, x # y
        PROVE  end(x) <= seg[y].base \/ end(y) <= seg[x].base
    BY <2>1 DEF Shape, Disjoint
  <2>2. \A x \in Live : seg[x].base \in Nat /\ end(x) \in Nat
    BY <1>1, HeaderFields DEF Types
  <2>3. ASSUME NEW x \in Live, x # h
        PROVE  /\ end(h)' <= seg'[x].base \/ end(x)' <= seg'[h].base
               /\ end(s)' <= seg'[x].base \/ end(x)' <= seg'[s].base
    <3>1. end(x) <= seg[h].base \/ end(h) <= seg[x].base
      BY <2>1, <2>3
    <3>2. end(x)' = end(x) /\ seg'[x].base = seg[x].base
      BY <1>1, <1>5, <1>6, <1>8, <2>3
    <3> QED
      BY <1>1, <1>2, <1>7, <2>0, <2>2, <3>1, <3>2, SMT
  <2>4. CASE f \in {h, s} /\ g \in {h, s}
    BY <1>1, <1>2, <1>7, <2>0, <2>4, SMT
  <2>5. CASE f \in {h, s} /\ g \notin {h, s}
    BY <1>6, <2>3, <2>5
  <2>6. CASE f \notin {h, s} /\ g \in {h, s}
    BY <1>6, <2>3, <2>6
  <2>7. CASE f \notin {h, s} /\ g \notin {h, s}
    <3>1. f \in Live /\ g \in Live /\ (end(f) <= seg[g].base \/ end(g) <= seg[f].base)
      BY <1>6, <2>1, <2>7
    <3> QED
      BY <1>1, <1>5, <1>6, <1>8, <2>7, <3>1
  <2> QED
    BY <2>4, <2>5, <2>6, <2>7
<1>12. \A g \in Live : g # s
  BY <1>4
<1>13. Placed(h)'
  <2>1. RegionOf(h)' < regions' /\ end(h)' <= RegionEnd(h)'
    <3>1. RegionEnd(h) \in Int
      BY <1>1, <1>2, InRegion, SMT DEF RegionEnd, RegionOf, RB
    <3> QED
      BY <1>1, <1>2, <1>7, <1>9, <3>1, SMT DEF Placed
  <2>2. NextAgrees(h)'
    <3>1. s # null /\ s \in Live'
      BY <1>1, <1>6, SegmentsAssumption
    <3> QED
      BY <1>7, <1>9, <1>10, <3>1 DEF NextAgrees, half
  <2>3. PrevAgrees(h)'
    <3> SUFFICES ASSUME seg[h].prev_buddy # null
                 PROVE  seg[h].prev_buddy \in Live' /\ seg'[seg[h].prev_buddy].next_buddy = h
      BY <1>4 DEF PrevAgrees
    <3>1. seg[h].prev_buddy \in Live /\ seg[seg[h].prev_buddy].next_buddy = h
      BY <1>2 DEF Placed, PrevAgrees
    <3>2. seg[h].prev_buddy # h /\ seg[h].prev_buddy # s
      BY <1>4, <1>12, <3>1
    <3> QED
      BY <1>1, <1>5, <1>6, <3>1, <3>2
  <2> QED
    BY <2>1, <2>2, <2>3 DEF Placed
<1>14. Placed(s)'
  <2>1. RegionOf(s)' < regions' /\ end(s)' <= RegionEnd(s)'
    BY <1>2, <1>7, <1>10 DEF Placed
  <2>2. NextAgrees(s)'
    <3>1. CASE n = null
      <4>1. end(h) = RegionEnd(h)
        BY <1>2, <3>1 DEF Placed, NextAgrees
      <4> QED
        BY <1>7, <1>10, <3>1, <4>1 DEF NextAgrees
    <3>2. CASE n # null
      <4>1. n \in Live /\ n # h /\ n # s /\ seg[n].base = end(h) /\ RegionOf(n) = RegionOf(h)
        BY <1>3, <1>4, <3>2
      <4>2. seg'[n].base = end(h) /\ seg'[n].prev_buddy = s /\ RegionOf(n)' = RegionOf(n)
        BY <1>1, <1>5, <1>8, <4>1
      <4> QED
        BY <1>6, <1>7, <1>10, <3>2, <4>1, <4>2 DEF NextAgrees
    <3> QED
      BY <3>1, <3>2
  <2>3. PrevAgrees(s)'
    BY <1>6 DEF PrevAgrees
  <2> QED
    BY <2>1, <2>2, <2>3 DEF Placed
<1>15. ASSUME NEW g \in Live, g # h PROVE Placed(g)'
  <2>1. g \in Headers /\ g # s /\ Placed(g)
    BY <1>1, <1>12 DEF Shape
  <2>2. RegionOf(g)' < regions' /\ end(g)' <= RegionEnd(g)'
    BY <1>8, <1>15, <2>1 DEF Placed
  <2>3. NextAgrees(g)'
    <3>1. seg'[g].next_buddy = seg[g].next_buddy
      BY <1>5, <1>15, <2>1
    <3>2. CASE seg[g].next_buddy = null
      BY <1>8, <1>15, <2>1, <3>1, <3>2 DEF Placed, NextAgrees
    <3>3. CASE seg[g].next_buddy # null
      <4> DEFINE m == seg[g].next_buddy
      <4>1. m \in Live /\ seg[m].base = end(g) /\ seg[m].prev_buddy = g /\ RegionOf(m) = RegionOf(g)
        BY <2>1, <3>3 DEF Placed, NextAgrees
      <4>2. m # s
        BY <1>12, <4>1
      <4>3. m # n
        <5>1. m = n => n # null /\ seg[n].prev_buddy = h /\ seg[n].prev_buddy = g
          BY <1>3, <3>3, <4>1
        <5> QED
          BY <1>15, <5>1
      <4>4. CASE m = h
        <5>1. seg'[m].prev_buddy = g
          BY <1>4, <4>1, <4>4
        <5> QED
          BY <1>6, <1>8, <1>9, <1>15, <3>1, <3>3, <4>1, <4>4, <5>1 DEF NextAgrees
      <4>5. CASE m # h
        <5>1. seg'[m].base = seg[m].base /\ seg'[m].prev_buddy = seg[m].prev_buddy
              /\ RegionOf(m)' = RegionOf(m)
          BY <1>1, <1>5, <1>8, <4>1, <4>2, <4>3, <4>5
        <5> QED
          BY <1>6, <1>8, <1>15, <3>1, <3>3, <4>1, <5>1 DEF NextAgrees
      <4> QED
        BY <4>4, <4>5
    <3> QED
      BY <3>2, <3>3
  <2>4. PrevAgrees(g)'
    <3>1. CASE g = n
      <4>1. seg'[g].prev_buddy = s
        BY <1>5, <1>15, <2>1, <3>1
      <4> QED
        BY <1>6, <3>1, <4>1 DEF PrevAgrees
    <3>2. CASE g # n
      <4>1. seg'[g].prev_buddy = seg[g].prev_buddy
        BY <1>5, <1>15, <2>1, <3>2
      <4> SUFFICES ASSUME seg[g].prev_buddy # null
                   PROVE  seg[g].prev_buddy \in Live' /\ seg'[seg[g].prev_buddy].next_buddy = g
        BY <4>1 DEF PrevAgrees
      <4> DEFINE p == seg[g].prev_buddy
      <4>2. p \in Live /\ seg[p].next_buddy = g
        BY <2>1 DEF Placed, PrevAgrees
      <4>3. p # h /\ p # s
        BY <1>12, <3>2, <4>2
      <4> QED
        BY <1>1, <1>5, <1>6, <4>2, <4>3
    <3> QED
      BY <3>1, <3>2
  <2> QED
    BY <2>2, <2>3, <2>4 DEF Placed
<1> QED
  BY <1>6, <1>11, <1>13, <1>14, <1>15 DEF Shape

(* A segment takes its next buddy of the same size.                        *)
Joined(a, b, n) ==
    /\ b = seg[a].next_buddy /\ n = seg[b].next_buddy
    /\ seg[b].level = seg[a].level /\ seg[a].level # LV_ROOT
    /\ seg'[a].state # "dead" /\ seg'[a].level = seg[a].level - 1
    /\ seg'[a].base = seg[a].base /\ seg'[a].next_buddy = n
    /\ seg'[a].prev_buddy = IF n = a THEN a ELSE seg[a].prev_buddy
    /\ seg'[b].state = "dead"
    /\ \A g \in Headers : (g # a /\ g # b) =>
          seg'[g] = IF g = n THEN [seg[g] EXCEPT !.prev_buddy = a] ELSE seg[g]

LEMMA JoinShape ==
    ASSUME Types, Shape, regions' = regions,
           NEW a \in Live, NEW b \in Live, NEW n, Joined(a, b, n)
    PROVE  Shape' /\ Live' = Live \ {b} /\ a # b /\ end(a) = seg[b].base /\ end(a)' = end(b)
<1> USE DEF Joined
<1> DEFINE half == LevelBytes[seg[a].level]
<1>1. /\ regions \in Nat /\ Live \subseteq Headers /\ a \in Headers /\ b \in Headers
      /\ a # null /\ b # null
  BY SegmentsAssumption DEF Types, TypeOK, Live
<1>2. /\ half \in Nat \ {0} /\ seg[a].base \in Nat /\ seg[b].base \in Nat
      /\ end(a) = seg[a].base + half /\ end(b) = seg[b].base + half
      /\ LevelBytes[seg[a].level - 1] = 2 * half
  BY <1>1, HeaderFields, LevelSizes DEF Types, end, total_bytes
<1>3. Placed(a) /\ Placed(b)
  BY DEF Shape
<1>4. seg[b].base = end(a) /\ seg[b].prev_buddy = a /\ RegionOf(b) = RegionOf(a)
  BY <1>1, <1>3 DEF Placed, NextAgrees
<1>5. a # b
  BY <1>1, <1>2, <1>4, SMT
<1>6. n # null => n \in Live /\ seg[n].base = end(b) /\ seg[n].prev_buddy = b /\ RegionOf(n) = RegionOf(b)
  BY <1>3 DEF Placed, NextAgrees
<1>7. n # a /\ n # b /\ (n = null \/ n \in Live)
  <2>1. n = a => seg[a].base = end(b)
    BY <1>1, <1>6
  <2>2. n = b => seg[b].base = end(b)
    BY <1>1, <1>6
  <2> QED
    BY <1>2, <1>4, <1>6, <2>1, <2>2, SMT
<1> HIDE DEF half
<1>8. \A g \in Headers : (g # a /\ g # b) =>
        /\ seg'[g].state = seg[g].state /\ seg'[g].level = seg[g].level
        /\ seg'[g].base = seg[g].base /\ seg'[g].next_buddy = seg[g].next_buddy
        /\ seg'[g].prev_buddy = IF g = n THEN a ELSE seg[g].prev_buddy
  <2> SUFFICES ASSUME NEW g \in Headers, g # a, g # b
               PROVE  /\ seg'[g].state = seg[g].state /\ seg'[g].level = seg[g].level
                      /\ seg'[g].base = seg[g].base /\ seg'[g].next_buddy = seg[g].next_buddy
                      /\ seg'[g].prev_buddy = IF g = n THEN a ELSE seg[g].prev_buddy
    OBVIOUS
  <2>1. seg[g] \in Header
    BY HeaderFields DEF Types
  <2> QED
    BY <2>1 DEF Header
<1>9. Live' = Live \ {b}
  <2>1. \A g \in Headers : g \in Live' <=> (g \in Live /\ g # b)
    BY <1>1, <1>8 DEF Live
  <2> QED
    BY <1>1, <2>1 DEF Live
<1>10. end(a)' = end(b)
  <2>1. end(a)' = seg[a].base + 2 * half
    BY <1>2 DEF end, total_bytes
  <2> QED
    BY <1>2, <1>4, <2>1, SMT
<1>11. RegionOf(a)' = RegionOf(a) /\ RegionEnd(a)' = RegionEnd(a) /\ RegionEnd(b) = RegionEnd(a)
  BY <1>4 DEF RegionOf, RegionEnd
<1>12. \A g \in Live \ {a, b} :
         /\ end(g)' = end(g) /\ seg'[g].base = seg[g].base
         /\ RegionOf(g)' = RegionOf(g) /\ RegionEnd(g)' = RegionEnd(g)
  <2> SUFFICES ASSUME NEW g \in Live \ {a, b}
               PROVE  /\ end(g)' = end(g) /\ seg'[g].base = seg[g].base
                      /\ RegionOf(g)' = RegionOf(g) /\ RegionEnd(g)' = RegionEnd(g)
    OBVIOUS
  <2>1. seg'[g].level = seg[g].level /\ seg'[g].base = seg[g].base
    BY <1>1, <1>8
  <2> QED
    BY <2>1 DEF end, total_bytes, RegionOf, RegionEnd
<1>13. Disjoint'
  <2> SUFFICES ASSUME NEW f \in Live', NEW g \in Live', f # g
               PROVE  end(f)' <= seg'[g].base \/ end(g)' <= seg'[f].base
    BY DEF Disjoint
  <2>1. ASSUME NEW x \in Live, NEW y \in Live, x # y
        PROVE  end(x) <= seg[y].base \/ end(y) <= seg[x].base
    BY <2>1 DEF Shape, Disjoint
  <2>2. ASSUME NEW x \in Live \ {a, b}
        PROVE  end(a)' <= seg'[x].base \/ end(x)' <= seg'[a].base
    <3>1. end(x) <= seg[a].base \/ end(a) <= seg[x].base
      BY <2>1
    <3>2. end(x) <= seg[b].base \/ end(b) <= seg[x].base
      BY <2>1
    <3>3. seg[x].base \in Nat /\ end(x) \in Nat /\ seg[x].base < end(x)
      BY <1>1, HeaderFields DEF Types
    <3> QED
      BY <1>2, <1>4, <1>10, <1>12, <3>1, <3>2, <3>3, SMT
  <2>3. CASE f # a /\ g # a
    BY <1>9, <1>12, <2>1, <2>3
  <2>4. CASE f = a \/ g = a
    BY <1>9, <2>2, <2>4
  <2> QED
    BY <2>3, <2>4
<1>14. Placed(a)'
  <2>1. RegionOf(a)' < regions' /\ end(a)' <= RegionEnd(a)'
    BY <1>3, <1>10, <1>11 DEF Placed
  <2>2. NextAgrees(a)'
    <3>1. CASE n = null
      <4>1. end(b) = RegionEnd(b)
        BY <1>3, <3>1 DEF Placed, NextAgrees
      <4> QED
        BY <1>10, <1>11, <3>1, <4>1 DEF NextAgrees
    <3>2. CASE n # null
      <4>1. n \in Live \ {a, b} /\ seg[n].base = end(b) /\ RegionOf(n) = RegionOf(a)
        BY <1>4, <1>6, <1>7, <3>2
      <4>2. seg'[n].base = end(b) /\ seg'[n].prev_buddy = a /\ RegionOf(n)' = RegionOf(n)
        BY <1>1, <1>8, <1>12, <4>1
      <4> QED
        BY <1>9, <1>10, <1>11, <3>2, <4>1, <4>2 DEF NextAgrees
    <3> QED
      BY <3>1, <3>2
  <2>3. PrevAgrees(a)'
    <3> SUFFICES ASSUME seg[a].prev_buddy # null
                 PROVE  seg[a].prev_buddy \in Live' /\ seg'[seg[a].prev_buddy].next_buddy = a
      BY <1>7 DEF PrevAgrees
    <3> DEFINE p == seg[a].prev_buddy
    <3>1. p \in Live /\ seg[p].next_buddy = a
      BY <1>3 DEF Placed, PrevAgrees
    <3>2. p # a /\ p # b
      BY <1>5, <1>7, <3>1
    <3> QED
      BY <1>1, <1>8, <1>9, <3>1, <3>2
  <2> QED
    BY <2>1, <2>2, <2>3 DEF Placed
<1>15. ASSUME NEW g \in Live \ {a, b} PROVE Placed(g)'
  <2>1. g \in Headers /\ Placed(g)
    BY <1>1 DEF Shape
  <2>2. RegionOf(g)' < regions' /\ end(g)' <= RegionEnd(g)'
    BY <1>12, <2>1 DEF Placed
  <2>3. NextAgrees(g)'
    <3>1. seg'[g].next_buddy = seg[g].next_buddy
      BY <1>8, <2>1
    <3>2. CASE seg[g].next_buddy = null
      BY <1>12, <2>1, <3>1, <3>2 DEF Placed, NextAgrees
    <3>3. CASE seg[g].next_buddy # null
      <4> DEFINE m == seg[g].next_buddy
      <4>1. m \in Live /\ seg[m].base = end(g) /\ seg[m].prev_buddy = g /\ RegionOf(m) = RegionOf(g)
        BY <2>1, <3>3 DEF Placed, NextAgrees
      <4>2. m # b
        BY <1>4, <4>1
      <4>3. m # n
        <5>1. m = n => seg[n].prev_buddy = b /\ seg[n].prev_buddy = g
          BY <1>6, <3>3, <4>1
        <5> QED
          BY <5>1
      <4>4. CASE m = a
        <5>1. seg'[m].prev_buddy = g
          BY <1>7, <4>1, <4>4
        <5> QED
          BY <1>5, <1>9, <1>11, <1>12, <3>1, <3>3, <4>1, <4>4, <5>1 DEF NextAgrees
      <4>5. CASE m # a
        <5>1. seg'[m].base = seg[m].base /\ seg'[m].prev_buddy = seg[m].prev_buddy
              /\ RegionOf(m)' = RegionOf(m)
          BY <1>1, <1>8, <1>12, <4>1, <4>2, <4>3, <4>5
        <5> QED
          BY <1>9, <1>12, <3>1, <3>3, <4>1, <4>2, <5>1 DEF NextAgrees
      <4> QED
        BY <4>4, <4>5
    <3> QED
      BY <3>2, <3>3
  <2>4. PrevAgrees(g)'
    <3>1. CASE g = n
      <4>1. seg'[g].prev_buddy = a
        BY <1>8, <2>1, <3>1
      <4> QED
        BY <1>5, <1>9, <3>1, <4>1 DEF PrevAgrees
    <3>2. CASE g # n
      <4>1. seg'[g].prev_buddy = seg[g].prev_buddy
        BY <1>8, <2>1, <3>2
      <4> SUFFICES ASSUME seg[g].prev_buddy # null
                   PROVE  seg[g].prev_buddy \in Live' /\ seg'[seg[g].prev_buddy].next_buddy = g
        BY <4>1 DEF PrevAgrees
      <4> DEFINE p == seg[g].prev_buddy
      <4>2. p \in Live /\ seg[p].next_buddy = g
        BY <2>1 DEF Placed, PrevAgrees
      <4>3. p # a /\ p # b
        BY <3>2, <4>2
      <4> QED
        BY <1>1, <1>8, <1>9, <4>2, <4>3
    <3> QED
      BY <3>1, <3>2
  <2> QED
    BY <2>2, <2>3, <2>4 DEF Placed
<1> QED
  BY <1>4, <1>5, <1>9, <1>10, <1>13, <1>14, <1>15 DEF Shape

-----------------------------------------------------------------------------
(* Every action keeps the structure, unless it gives a root old buddies.   *)

LEMMA GetFreeStructure ==
    ASSUME Types, Structure, NEW need \in Needs, NEW suggested \in Levels,
           GetFree(need, suggested)
    PROVE  Structure'
<1> DEFINE preferred == MIN2(bytes_to_level(need), suggested)
<1>1. vm_error = NoError /\ op.kind = "none" /\ op.seg = null /\ Lists /\ Shape
  BY DEF GetFree, At, Structure, Operation
<1>2. PICK h \in search_satisfy_segment_in_free(preferred, bytes_to_level(need), need) :
        /\ free' = [free EXCEPT ![seg[h].level] = free[seg[h].level] \ {h}]
        /\ op' = [kind |-> "get", seg |-> h, result |-> null, level |-> preferred, min |-> need]
  BY DEF GetFree, Go
<1>3. PICK l \in Levels : h \in free[l]
  <2>1. preferred \in Levels /\ bytes_to_level(need) \in Levels
    BY NeedLevels, SegmentsAssumption
  <2> QED
    BY <1>2, <2>1, FoundIsListed
<1>4. h \in Live /\ h \in Headers /\ seg[h].state = "free" /\ seg[h].level = l
  BY <1>1, <1>3 DEF Lists, Listed, Live
<1>5. UNCHANGED <<seg, dead, slab, regions, vm_error>>
  BY DEF GetFree, Go
<1>6. Shape' /\ Live' = Live
  BY <1>1, <1>5, ShapeStays DEF Structure
<1>7. Operation'
  BY <1>2, <1>4, <1>5, <1>6 DEF Operation
<1>8. Lists'
  <2>1. h # null
    BY <1>4, SegmentsAssumption
  <2>2. ASSUME NEW k \in Levels PROVE free'[k] = Listed(k)'
    <3>1. free[k] = {g \in Live : seg[g].state = "free" /\ seg[g].level = k}
      <4>1. free[k] = Listed(k) /\ Live \ {null} = Live
        BY <1>1, SegmentsAssumption DEF Lists, Live
      <4> QED
        BY <1>1, <4>1 DEF Listed
    <3>2. free'[k] = free[k] \ {h}
      BY <1>2, <1>4, <3>1 DEF Types, TypeOK
    <3>3. Listed(k)' = {g \in Live \ {h} : seg[g].state = "free" /\ seg[g].level = k}
      BY <1>2, <1>5, <1>6 DEF Listed
    <3> QED
      BY <3>1, <3>2, <3>3
  <2>3. (dead \cup slab = Headers \ Live)'
    BY <1>1, <1>5, <1>6 DEF Lists
  <2> QED
    BY <2>2, <2>3 DEF Lists
<1> QED
  BY <1>6, <1>7, <1>8 DEF Structure

(* The headers that wait are the ones that are not live.                   *)
LEMMA TakenHeader ==
    ASSUME Lists, NEW s \in Allocatable, TakeHeader(s), Live' = Live \cup {s}
    PROVE  (dead \cup slab = Headers \ Live)'
BY DEF Lists, Allocatable, TakeHeader

LEMMA GetRootStructure ==
    ASSUME Types, Structure, NEW need \in Needs, NEW suggested \in Levels,
           GetRoot(need, suggested), ~stale_root'
    PROVE  Structure'
<1> DEFINE preferred == MIN2(bytes_to_level(need), suggested)
<1>1. vm_error = NoError /\ op.kind = "none" /\ op.seg = null /\ Lists /\ Shape
  BY DEF GetRoot, At, Structure, Operation
<1>2. PICK h \in Allocatable :
        /\ TakeHeader(h)
        /\ seg' = [seg EXCEPT ![h] = Initialized(h, regions * RegionBytes, LV_ROOT)]
        /\ stale_root' = (stale_root \/ seg[h].next_buddy # null \/ seg[h].prev_buddy # null)
        /\ op' = [kind |-> "get", seg |-> h, result |-> null, level |-> preferred, min |-> need]
  BY DEF GetRoot, Go
<1>3. regions' = regions + 1 /\ free' = free /\ vm_error' = vm_error
  BY DEF GetRoot, Go
<1>4. h \in Headers /\ h \notin Live
  BY <1>1, <1>2 DEF Allocatable, Lists
<1>5. Shape' /\ Live' = Live \cup {h}
  BY <1>1, <1>2, <1>3, <1>4, RootShape
<1>6. seg'[h].state = "free" /\ \A g \in Live : seg'[g] = seg[g]
  BY <1>2, <1>4 DEF Types, TypeOK, Initialized, Live
<1>7. Operation'
  <2>1. op'.kind = "get" /\ op'.seg \in Live' /\ seg'[op'.seg].state = "free"
    BY <1>2, <1>5, <1>6
  <2> QED
    BY <2>1 DEF Operation
<1>8. Lists'
  <2>1. ASSUME NEW k \in Levels PROVE free'[k] = Listed(k)'
    <3>1. free[k] = {g \in Live : seg[g].state = "free" /\ seg[g].level = k}
      <4>1. free[k] = Listed(k) /\ Live \ {null} = Live
        BY <1>1, SegmentsAssumption DEF Lists, Live
      <4> QED
        BY <1>1, <4>1 DEF Listed
    <3>2. Listed(k)' = {g \in Live : seg[g].state = "free" /\ seg[g].level = k}
      <4>1. (Live \cup {h}) \ {h} = Live
        BY <1>4
      <4>2. Listed(k)' = {g \in Live : seg'[g].state = "free" /\ seg'[g].level = k}
        BY <1>2, <1>5, <4>1 DEF Listed
      <4> QED
        BY <1>6, <4>2
    <3> QED
      BY <1>3, <3>1, <3>2
  <2>2. (dead \cup slab = Headers \ Live)'
    BY <1>1, <1>2, <1>5, TakenHeader
  <2> QED
    BY <2>1, <2>2 DEF Lists
<1> QED
  BY <1>5, <1>7, <1>8 DEF Structure

LEMMA SplitStructure ==
    ASSUME Types, Structure, SplitStep
    PROVE  Structure'
<1> DEFINE h == op.seg
           l == seg[h].level + 1
           half == LevelBytes[l]
           c == seg[h].committed
           n == seg[h].next_buddy
<1>1. /\ vm_error = NoError /\ op.kind = "get" /\ h \in Live /\ h \in Headers
      /\ seg[h].state = "free" /\ Operation /\ Lists /\ Shape
  BY DEF SplitStep, At, Structure, Operation, Live
<1>2. PICK s \in Allocatable :
        /\ TakeHeader(s)
        /\ seg' = [g \in Headers |->
             IF g = h
             THEN [state |-> "free", level |-> l, base |-> seg[h].base,
                   committed |-> IF c >= half THEN half ELSE c, used |-> seg[h].used,
                   next_buddy |-> s,
                   prev_buddy |-> IF n = h THEN s ELSE seg[h].prev_buddy]
             ELSE IF g = s
             THEN [state |-> "free", level |-> l, base |-> seg[h].base + half,
                   committed |-> IF c >= half THEN c - half ELSE 0, used |-> 0,
                   next_buddy |-> n, prev_buddy |-> h]
             ELSE IF g = n THEN [seg[g] EXCEPT !.prev_buddy = s]
             ELSE seg[g]]
        /\ free' = [free EXCEPT ![l] = free[l] \cup {s}]
  BY Zenon DEF SplitStep
<1>3. UNCHANGED <<regions, op, vm_error>>
  BY DEF SplitStep
<1>4. s \in Headers /\ s \notin Live /\ s # h
  BY <1>1, <1>2 DEF Allocatable, Lists
<1>5. l \in Levels /\ LevelBytes[seg[h].level] = 2 * LevelBytes[l]
  <2>1. seg[h].level < op.level
    BY DEF SplitStep
  <2> QED
    BY <1>1, <2>1, HeaderFields, OpFields, LevelSizes DEF Types
<1> HIDE DEF h, l, half, c, n
<1>6. /\ seg'[h].state = "free" /\ seg'[h].level = l /\ seg'[h].base = seg[h].base
      /\ seg'[h].next_buddy = s
      /\ seg'[h].prev_buddy = IF n = h THEN s ELSE seg[h].prev_buddy
  BY <1>1, <1>2
<1>7. /\ seg'[s].state = "free" /\ seg'[s].level = l
      /\ seg'[s].base = seg[h].base + half
      /\ seg'[s].next_buddy = n /\ seg'[s].prev_buddy = h
  BY <1>2, <1>4
<1>8. \A g \in Headers : (g # h /\ g # s) =>
        seg'[g] = IF g = n THEN [seg[g] EXCEPT !.prev_buddy = s] ELSE seg[g]
  BY <1>2
<1>9. Shape' /\ Live' = Live \cup {s}
  <2>1. seg'[h].state # "dead" /\ seg'[s].state # "dead"
    BY <1>6, <1>7
  <2>2. n = seg[h].next_buddy /\ half = LevelBytes[l]
    BY DEF n, half
  <2> QED
    BY <1>1, <1>3, <1>4, <1>5, <1>6, <1>7, <1>8, <2>1, <2>2, SplitShape
<1>10. Operation'
  BY <1>1, <1>3, <1>6, <1>9 DEF Operation, h
<1>11. Lists'
  <2>1. \A g \in Headers : (g # h /\ g # s) =>
          seg'[g].state = seg[g].state /\ seg'[g].level = seg[g].level
    <3> SUFFICES ASSUME NEW g \in Headers, g # h, g # s
                 PROVE  seg'[g].state = seg[g].state /\ seg'[g].level = seg[g].level
      OBVIOUS
    <3>1. seg[g] \in Header
      BY HeaderFields DEF Types
    <3> QED
      BY <1>8, <3>1 DEF Header
  <2>2. ASSUME NEW k \in Levels PROVE free'[k] = Listed(k)'
    <3>1. free[k] = {g \in Live \ {h} : seg[g].state = "free" /\ seg[g].level = k}
      BY <1>1 DEF Lists, Listed, h
    <3>2. free'[k] = IF k = l THEN free[k] \cup {s} ELSE free[k]
      BY <1>2, <1>5 DEF Types, TypeOK
    <3>3. Listed(k)' = {g \in (Live \cup {s}) \ {h} : seg'[g].state = "free" /\ seg'[g].level = k}
      BY <1>3, <1>9 DEF Listed, h
    <3>4. \A g \in Live \ {h} : seg'[g].state = seg[g].state /\ seg'[g].level = seg[g].level
      BY <1>4, <2>1 DEF Live
    <3>5. \A g : g \in Listed(k)' <=> g \in free[k] \/ (g = s /\ k = l)
      BY <1>4, <1>7, <3>1, <3>3, <3>4
    <3> QED
      BY <3>2, <3>5
  <2>3. (dead \cup slab = Headers \ Live)'
    BY <1>1, <1>2, <1>9, TakenHeader
  <2> QED
    BY <2>2, <2>3 DEF Lists
<1> QED
  BY <1>9, <1>10, <1>11 DEF Structure

(* A free buddy of the same size lies beside the segment, and the two      *)
(* follow one another; a segment that begins where it should not never has *)
(* a buddy with which it would make a whole region.                        *)
LEMMA BuddyBeside ==
    ASSUME Types, Shape, NEW h \in Live, buddy(h) # null, seg[h].level # LV_ROOT,
           CanMerge(h, buddy(h))
    PROVE  /\ buddy(h) \in Live /\ buddy(h) # h /\ seg[buddy(h)].level = seg[h].level
           /\ is_leader(h) => seg[h].next_buddy = buddy(h)
           /\ ~is_leader(h) => seg[buddy(h)].next_buddy = h /\ seg[h].level - 1 # LV_ROOT
<1> DEFINE b == buddy(h)
           size == LevelBytes[seg[h].level]
           RB == RegionBytes
           q == RegionOf(h)
<1>1. /\ h \in Headers /\ Live \subseteq Headers /\ seg[b].level = seg[h].level
      /\ Placed(h)
  BY DEF Live, CanMerge, Shape
<1>2. CASE is_leader(h)
  <2>1. b = seg[h].next_buddy
    BY <1>2 DEF buddy
  <2>2. b \in Live /\ seg[b].base = end(h)
    BY <1>1, <2>1 DEF Placed, NextAgrees
  <2>3. b # h
    BY <1>1, <2>2, HeaderFields, SMT DEF Types
  <2> QED
    BY <1>1, <1>2, <2>1, <2>2, <2>3
<1>3. CASE ~is_leader(h)
  <2>1. b = seg[h].prev_buddy
    BY <1>3 DEF buddy
  <2>2. b \in Live /\ b \in Headers /\ seg[b].next_buddy = h /\ Placed(b)
    BY <1>1, <2>1 DEF Placed, PrevAgrees, Shape
  <2>3. seg[h].base = end(b) /\ RegionOf(h) = RegionOf(b)
    BY <1>1, <2>2, SegmentsAssumption DEF Placed, NextAgrees
  <2>4. b # h
    BY <1>1, <2>2, <2>3, HeaderFields, SMT DEF Types
  <2>5. ASSUME seg[h].level - 1 = LV_ROOT PROVE FALSE
    <3>1. /\ size \in Nat \ {0} /\ RB \in Nat \ {0} /\ seg[h].base \in Nat /\ seg[b].base \in Nat
          /\ RB = 2 * size /\ end(h) = seg[h].base + size /\ end(b) = seg[b].base + size
      BY <1>1, <2>2, <2>5, HeaderFields, LevelSizes DEF Types, end, total_bytes, RegionBytes
    <3>2. q \in Nat /\ q * RB <= seg[b].base
      BY <2>3, <3>1, InRegion DEF RegionOf
    <3>3. end(h) <= (q + 1) * RB
      BY <1>1 DEF Placed, RegionEnd
    <3>4. (q + 1) * RB = q * RB + RB /\ q * RB = (2 * q) * size
      <4> HIDE DEF q, RB, size
      <4> QED BY <3>1, <3>2, SMT
    <3>5. seg[h].base = (2 * q + 1) * size
      <4>1. (2 * q + 1) * size = (2 * q) * size + size
        <5> HIDE DEF q, RB, size
        <5> QED BY <3>1, <3>2, SMT
      <4>2. (2 * q) * size \in Int
        <5> HIDE DEF q, RB, size
        <5> QED BY <3>1, <3>2, SMT
      <4> DEFINE p == (2 * q) * size
      <4> HIDE DEF p, q, RB, size
      <4> QED
        BY <2>3, <3>1, <3>2, <3>3, <3>4, <4>1, <4>2, SMT DEF p
    <3>6. seg[h].base % size = 0
      <4>1. 2 * q + 1 \in Nat
        BY <3>2, SMT
      <4> HIDE DEF size, q
      <4> QED BY <3>1, <3>5, <4>1, MultipleOf
    <3> QED
      BY <1>3, <3>6 DEF is_leader, total_bytes
  <2> QED
    BY <1>1, <1>3, <2>2, <2>4, <2>5
<1> QED
  BY <1>2, <1>3


LEMMA MergeStructure ==
    ASSUME Types, Structure, MergeStep
    PROVE  Structure'
<1> DEFINE h == op.seg
           b == buddy(h)
           leader   == IF is_leader(h) THEN h ELSE b
           follower == IF is_leader(h) THEN b ELSE h
           n == seg[follower].next_buddy
           c == seg[leader].committed
           l == seg[h].level - 1
           r == [state |-> seg[leader].state, level |-> l, base |-> seg[leader].base,
                 committed |-> IF c = total_bytes(leader) THEN c + seg[follower].committed ELSE c,
                 used |-> seg[leader].used, next_buddy |-> n,
                 prev_buddy |-> IF n = leader THEN leader ELSE seg[leader].prev_buddy]
<1>1. /\ vm_error = NoError /\ op.kind = "merge" /\ h \in Live /\ op.result = h
      /\ seg[h].state = "free" /\ Operation /\ Lists /\ Shape
  BY DEF MergeStep, At, Structure, Operation
<1>2. UNCHANGED <<slab, regions>> /\ seg[h].level # LV_ROOT /\ b # null /\ CanMerge(h, b)
  BY DEF MergeStep
<1>3. /\ b \in Live /\ b # h /\ seg[b].level = seg[h].level /\ seg[b].state = "free"
      /\ is_leader(h) => seg[h].next_buddy = b
      /\ ~is_leader(h) => seg[b].next_buddy = h /\ l # LV_ROOT
  BY <1>1, <1>2, BuddyBeside DEF CanMerge
<1>4. /\ leader \in Live /\ follower \in Live /\ leader # follower /\ {leader, follower} = {h, b}
      /\ seg[leader].next_buddy = follower /\ seg[leader].level = seg[h].level
      /\ seg[follower].level = seg[h].level /\ seg[leader].state = "free"
      /\ l = LV_ROOT => leader = h
  BY <1>1, <1>3
<1>5. CASE UNCHANGED <<seg, free, dead, op>>
  <2>1. Shape' /\ Live' = Live
    BY <1>1, <1>2, <1>5, ShapeStays
  <2>2. Operation' /\ Lists'
    BY <1>1, <1>2, <1>5, <2>1 DEF Operation, Lists, Listed
  <2> QED
    BY <2>1, <2>2 DEF Structure
<1>6. CASE /\ free' = [free EXCEPT ![seg[b].level] = free[seg[b].level] \ {b}]
           /\ seg' = [g \in Headers |->
                IF g = leader
                THEN [state |-> seg[g].state, level |-> l, base |-> seg[g].base,
                      committed |-> IF c = total_bytes(leader)
                                    THEN c + seg[follower].committed ELSE c,
                      used |-> seg[g].used,
                      next_buddy |-> n,
                      prev_buddy |-> IF n = leader THEN leader ELSE seg[g].prev_buddy]
                ELSE IF g = follower
                THEN DeadHeader(g, IF n = g THEN leader ELSE seg[g].prev_buddy)
                ELSE IF g = n THEN [seg[g] EXCEPT !.prev_buddy = leader]
                ELSE seg[g]]
           /\ dead' = dead \cup {follower}
           /\ op' = [kind |-> "merge", seg |-> leader,
                     result |-> IF l = LV_ROOT THEN op.result ELSE leader,
                     level |-> op.level, min |-> 0]
  <2> HIDE DEF h, b, leader, follower, n, c, l
  <2>1. leader \in Headers /\ follower \in Headers /\ Live \subseteq Headers
    BY <1>4 DEF Live
  <2>2. seg'[leader] = r
    BY <1>6, <2>1 DEF r
  <2>3. seg'[follower].state = "dead"
    BY <1>4, <1>6, <2>1 DEF DeadHeader
  <2>4. \A g \in Headers : (g # leader /\ g # follower) =>
          seg'[g] = IF g = n THEN [seg[g] EXCEPT !.prev_buddy = leader] ELSE seg[g]
    BY <1>6
  <2>5. \A g \in Headers : (g # leader /\ g # follower) =>
          seg'[g].state = seg[g].state /\ seg'[g].level = seg[g].level
    <3> SUFFICES ASSUME NEW g \in Headers, g # leader, g # follower
                 PROVE  seg'[g].state = seg[g].state /\ seg'[g].level = seg[g].level
      OBVIOUS
    <3>1. seg[g] \in Header
      BY HeaderFields DEF Types
    <3> QED
      BY <2>4, <3>1 DEF Header
  <2>6. /\ seg'[leader].state = "free" /\ seg'[leader].level = seg[leader].level - 1
        /\ seg'[leader].base = seg[leader].base /\ seg'[leader].next_buddy = n
        /\ seg'[leader].prev_buddy = IF n = leader THEN leader ELSE seg[leader].prev_buddy
    BY <1>4, <2>2 DEF r, l
  <2>7. Shape' /\ Live' = Live \ {follower}
    <3>1. n = seg[follower].next_buddy
      BY DEF n
    <3>2. follower = seg[leader].next_buddy /\ seg[follower].level = seg[leader].level
          /\ seg[leader].level # LV_ROOT /\ seg'[leader].state # "dead" /\ regions' = regions
      BY <1>2, <1>4, <2>6
    <3>3. Joined(leader, follower, n)
      BY <2>3, <2>4, <2>6, <3>1, <3>2 DEF Joined
    <3> QED
      BY <1>1, <1>4, <3>2, <3>3, JoinShape
  <2>8. Operation'
    <3>1. op'.kind = "merge" /\ op'.seg = leader /\ op'.result = leader
      BY <1>1, <1>4, <1>6 DEF h
    <3>2. leader \in Live'
      BY <1>4, <2>7
    <3> QED
      BY <2>6, <3>1, <3>2 DEF Operation
  <2>9. Lists'
    <3>1. ASSUME NEW k \in Levels PROVE free'[k] = Listed(k)'
      <4>1. free[k] = {g \in Live \ {h} : seg[g].state = "free" /\ seg[g].level = k}
        BY <1>1 DEF Lists, Listed, h
      <4>2. free'[k] = free[k] \ {b}
        <5>1. b \in free[k] => seg[b].level = k
          BY <4>1
        <5> QED
          BY <1>6, <5>1 DEF Types, TypeOK
      <4>3. Live' \ {op'.seg} = Live \ {h, b}
        BY <1>4, <1>6, <2>7
      <4>4. Listed(k)' = {g \in Live \ {h, b} : seg'[g].state = "free" /\ seg'[g].level = k}
        BY <4>3 DEF Listed
      <4>5. \A g \in Live \ {h, b} : seg'[g].state = seg[g].state /\ seg'[g].level = seg[g].level
        BY <1>4, <2>1, <2>5
      <4> QED
        BY <4>1, <4>2, <4>4, <4>5
    <3>2. (dead \cup slab = Headers \ Live)'
      BY <1>1, <1>2, <1>6, <2>1, <2>7 DEF Lists
    <3> QED
      BY <3>1, <3>2 DEF Lists
  <2> QED
    BY <2>7, <2>8, <2>9 DEF Structure
<1> QED
  BY <1>5, <1>6, Zenon DEF MergeStep, Stop, Go

LEMMA EnlargeStructure ==
    ASSUME Types, Structure, NEW h \in Headers, NEW need, Enlarge(h, need)
    PROVE  /\ Structure' /\ seg'[h].state = "inuse" /\ seg'[h].base = seg[h].base
           /\ seg'[h].used = seg[h].used /\ end(h)' >= end(h)
           /\ \A g \in Headers : (g # h /\ seg[g].state = "inuse") =>
                /\ seg'[g].state = "inuse" /\ seg'[g].base = seg[g].base
                /\ seg'[g].used = seg[g].used /\ end(g)' = end(g)
<1> DEFINE b == seg[h].next_buddy
           n == seg[b].next_buddy
           c == seg[h].committed
<1>1. /\ vm_error = NoError /\ op.kind = "none" /\ op.seg = null /\ Lists /\ Shape
      /\ seg[h].state = "inuse" /\ h \in Live /\ seg[h].level # LV_ROOT
  BY DEF Enlarge, TriesToEnlarge, At, Structure, Operation, Live
<1>2. /\ UNCHANGED <<slab, regions, mask, op, stale_root, vm_error>>
      /\ b # null /\ seg[b].level = seg[h].level /\ seg[b].state = "free"
  BY DEF Enlarge, CanMerge
<1>3. b \in Live /\ b \in Headers /\ b # h
  <2>1. b \in Live
    BY <1>1, <1>2 DEF Shape, Placed, NextAgrees
  <2> QED
    BY <1>1, <1>2, <2>1 DEF Live
<1>4. /\ free' = [free EXCEPT ![seg[b].level] = free[seg[b].level] \ {b}]
      /\ dead' = dead \cup {b}
  BY DEF Enlarge
<1>5. seg' = [g \in Headers |->
            IF g = h
            THEN [state |-> "inuse", level |-> seg[h].level - 1, base |-> seg[h].base,
                  committed |-> IF c = total_bytes(h) THEN c + c ELSE c, used |-> seg[h].used,
                  next_buddy |-> n,
                  prev_buddy |-> IF n = h THEN h ELSE seg[h].prev_buddy]
            ELSE IF g = b
            THEN DeadHeader(g, IF n = g THEN h ELSE seg[g].prev_buddy)
            ELSE IF g = n THEN [seg[g] EXCEPT !.prev_buddy = h]
            ELSE seg[g]]
  BY DEF Enlarge
<1>6. /\ seg'[h].state = "inuse" /\ seg'[h].level = seg[h].level - 1
      /\ seg'[h].base = seg[h].base /\ seg'[h].next_buddy = n /\ seg'[h].used = seg[h].used
      /\ seg'[h].prev_buddy = IF n = h THEN h ELSE seg[h].prev_buddy
  <2> HIDE DEF b, n, c
  <2> QED BY <1>5
<1>7. seg'[b].state = "dead"
  <2> HIDE DEF b, n, c
  <2> QED BY <1>3, <1>5 DEF DeadHeader
<1>8. \A g \in Headers : (g # h /\ g # b) =>
        seg'[g] = IF g = n THEN [seg[g] EXCEPT !.prev_buddy = h] ELSE seg[g]
  <2> HIDE DEF b, n, c
  <2> QED BY <1>5
<1> HIDE DEF n
<1>9. \A g \in Headers : (g # h /\ g # b) =>
        /\ seg'[g].state = seg[g].state /\ seg'[g].level = seg[g].level
        /\ seg'[g].base = seg[g].base /\ seg'[g].used = seg[g].used
  <2> SUFFICES ASSUME NEW g \in Headers, g # h, g # b
               PROVE  /\ seg'[g].state = seg[g].state /\ seg'[g].level = seg[g].level
                      /\ seg'[g].base = seg[g].base /\ seg'[g].used = seg[g].used
    OBVIOUS
  <2>1. seg[g] \in Header
    BY HeaderFields DEF Types
  <2> QED
    BY <1>8, <2>1 DEF Header
<1>10. Shape' /\ Live' = Live \ {b} /\ end(h) = seg[b].base /\ end(h)' = end(b)
  <2>1. n = seg[b].next_buddy /\ b = seg[h].next_buddy
    BY DEF n
  <2> HIDE DEF b
  <2>2. seg'[h].state # "dead" /\ regions' = regions
    BY <1>2, <1>6
  <2>3. Joined(h, b, n)
    BY <1>1, <1>2, <1>6, <1>7, <1>8, <2>1, <2>2 DEF Joined
  <2> QED
    BY <1>1, <1>3, <2>2, <2>3, JoinShape
<1> HIDE DEF b
<1>11. Operation'
  BY <1>1, <1>2 DEF Operation
<1>12. Lists'
  <2>1. ASSUME NEW k \in Levels PROVE free'[k] = Listed(k)'
    <3>1. free[k] = {g \in Live \ {null} : seg[g].state = "free" /\ seg[g].level = k}
      BY <1>1 DEF Lists, Listed
    <3>2. free'[k] = free[k] \ {b}
      <4>1. b \in free[k] => seg[b].level = k
        BY <3>1
      <4> QED
        BY <1>4, <4>1 DEF Types, TypeOK
    <3>3. Listed(k)' = {g \in (Live \ {b}) \ {null} : seg'[g].state = "free" /\ seg'[g].level = k}
      BY <1>1, <1>2, <1>10 DEF Listed
    <3>4. \A g \in (Live \ {b}) \ {h} : seg'[g].state = seg[g].state /\ seg'[g].level = seg[g].level
      BY <1>9 DEF Live
    <3> QED
      BY <1>1, <1>6, <3>1, <3>2, <3>3, <3>4
  <2>2. (dead \cup slab = Headers \ Live)'
    BY <1>1, <1>2, <1>3, <1>4, <1>10 DEF Lists
  <2> QED
    BY <2>1, <2>2 DEF Lists
<1>13. end(h)' >= end(h)
  <2>1. /\ end(b) \in Nat /\ seg[b].base \in Nat /\ seg[b].base < end(b)
    BY <1>3, HeaderFields DEF Types
  <2> QED
    BY <1>10, <2>1, SMT
<1>14. ASSUME NEW g \in Headers, g # h, seg[g].state = "inuse"
       PROVE  /\ seg'[g].state = "inuse" /\ seg'[g].base = seg[g].base
              /\ seg'[g].used = seg[g].used /\ end(g)' = end(g)
  <2>1. g # b
    BY <1>2, <1>14
  <2> QED
    BY <1>9, <1>14, <2>1 DEF end, total_bytes
<1> QED
  BY <1>6, <1>10, <1>11, <1>12, <1>13, <1>14 DEF Structure

(* Segments stay where they are when only their contents change.           *)
Untouched(h) ==
    /\ seg'[h].state = seg[h].state /\ seg'[h].level = seg[h].level /\ seg'[h].base = seg[h].base
    /\ seg'[h].next_buddy = seg[h].next_buddy /\ seg'[h].prev_buddy = seg[h].prev_buddy
Quiet ==
    /\ vm_error = NoError /\ UNCHANGED <<free, dead, slab, regions, op>>
    /\ \A h \in Headers : Untouched(h)

LEMMA QuietStructure ==
    ASSUME Types, Structure, Quiet
    PROVE  Structure'
<1>1. Operation /\ Lists /\ Shape /\ UNCHANGED <<free, dead, slab, regions, op>>
  BY DEF Structure, Quiet
<1>2. Shape' /\ Live' = Live
  BY <1>1, ShapeStays DEF Quiet, Untouched
<1>3. \A h \in Live : seg'[h].state = seg[h].state /\ seg'[h].level = seg[h].level
  BY DEF Live, Quiet, Untouched
<1>4. Operation'
  BY <1>1, <1>2, <1>3 DEF Operation
<1>5. \A l \in Levels : Listed(l)' = Listed(l)
  BY <1>1, <1>2, <1>3 DEF Listed
<1>6. Lists'
  BY <1>1, <1>2, <1>5 DEF Lists
<1> QED
  BY <1>2, <1>4, <1>6 DEF Structure

LEMMA UntouchedExcept ==
    ASSUME NEW h \in Headers, Untouched(h), \A g \in Headers : g # h => seg'[g] = seg[g]
    PROVE  \A g \in Headers : Untouched(g)
BY DEF Untouched

LEMMA StopsStructure ==
    ASSUME Types, Structure,
           MergeStops \/ \E h \in Headers, need \in Needs : EnlargeStops(h, need)
    PROVE  Structure'
<1>1. UNCHANGED heap /\ vm_error = NoError /\ UNCHANGED op
  BY DEF MergeStops, EnlargeStops, TriesToEnlarge, At, Stop
<1>2. Quiet
  BY <1>1 DEF heap, Quiet, Untouched
<1> QED
  BY <1>2, QuietStructure

LEMMA PurgeStructure ==
    ASSUME Types, Structure, Purge
    PROVE  Structure'
<1>1. seg' = [h \in Headers |-> IF h \in Purged THEN uncommit(h) ELSE seg[h]]
  BY DEF Purge
<1>2. ASSUME NEW h \in Headers PROVE Untouched(h)
  <2>1. seg'[h] = uncommit(h) \/ seg'[h] = seg[h]
    BY <1>1
  <2>2. seg[h] \in Header
    BY HeaderFields DEF Types
  <2> QED
    BY <2>1, <2>2 DEF uncommit, Untouched, Header
<1>3. Quiet
  BY <1>2 DEF Purge, At, Quiet
<1> QED
  BY <1>3, QuietStructure

LEMMA AllocateStructure ==
    ASSUME Types, Structure, NEW h \in Headers, NEW bytes \in Needs,
           Allocate(h, bytes) \/ CommitAndAllocate(h, bytes)
    PROVE  /\ Structure'
           /\ \A g \in Headers : Untouched(g) /\ seg'[g].used >= seg[g].used
<1>1. /\ seg[h] \in Header /\ bytes \in Nat /\ seg[h].used \in Nat
      /\ seg[h].used + bytes >= seg[h].used
      /\ \A g \in Headers : seg[g].used \in Nat
  <2>1. bytes \in Nat /\ \A g \in Headers : seg[g] \in Header /\ seg[g].used \in Nat
    BY SegmentsAssumption, HeaderFields DEF Types
  <2> QED
    BY <2>1, SMT
<1>2. (\A g \in Headers : Untouched(g) /\ seg'[g].used >= seg[g].used)
  <2>1. CASE UNCHANGED seg
    BY <1>1, <2>1, SMT DEF Untouched
  <2>2. CASE seg' = [seg EXCEPT ![h] = [seg[h] EXCEPT !.used = seg[h].used + bytes]]
    <3> DEFINE r == [seg[h] EXCEPT !.used = seg[h].used + bytes]
    <3>1. /\ r.state = seg[h].state /\ r.level = seg[h].level /\ r.base = seg[h].base
          /\ r.next_buddy = seg[h].next_buddy /\ r.prev_buddy = seg[h].prev_buddy
          /\ r.used = seg[h].used + bytes
      BY <1>1 DEF Header
    <3>2. seg'[h] = r /\ \A g \in Headers : g # h => seg'[g] = seg[g]
      BY <2>2 DEF Types, TypeOK
    <3>3. \A g \in Headers : seg'[g].used >= seg[g].used
      <4>1. seg'[h].used >= seg[h].used
        BY <1>1, <3>1, <3>2, Zenon
      <4>2. \A g \in Headers : g # h => seg'[g].used >= seg[g].used
        <5>1. \A g \in Headers : seg[g].used >= seg[g].used
          BY <1>1, SMT
        <5> QED BY <3>2, <5>1, Zenon
      <4> QED BY <4>1, <4>2, Zenon
    <3> HIDE DEF r
    <3>4. Untouched(h)
      BY <3>1, <3>2 DEF Untouched
    <3> QED
      BY <3>2, <3>3, <3>4, UntouchedExcept
  <2>3. CASE \E c \in CommitSizes(h, bytes) :
               seg' = [seg EXCEPT ![h] = [seg[h] EXCEPT !.committed = c, !.used = seg[h].used + bytes]]
    <3>0. PICK c \in CommitSizes(h, bytes) :
               seg' = [seg EXCEPT ![h] = [seg[h] EXCEPT !.committed = c, !.used = seg[h].used + bytes]]
      BY <2>3
    <3> DEFINE r == [seg[h] EXCEPT !.committed = c, !.used = seg[h].used + bytes]
    <3>1. /\ r.state = seg[h].state /\ r.level = seg[h].level /\ r.base = seg[h].base
          /\ r.next_buddy = seg[h].next_buddy /\ r.prev_buddy = seg[h].prev_buddy
          /\ r.used = seg[h].used + bytes
      BY <1>1 DEF Header
    <3>2. seg'[h] = r /\ \A g \in Headers : g # h => seg'[g] = seg[g]
      BY <3>0 DEF Types, TypeOK
    <3>3. \A g \in Headers : seg'[g].used >= seg[g].used
      <4>1. seg'[h].used >= seg[h].used
        BY <1>1, <3>1, <3>2, Zenon
      <4>2. \A g \in Headers : g # h => seg'[g].used >= seg[g].used
        <5>1. \A g \in Headers : seg[g].used >= seg[g].used
          BY <1>1, SMT
        <5> QED BY <3>2, <5>1, Zenon
      <4> QED BY <4>1, <4>2, Zenon
    <3> HIDE DEF r
    <3>4. Untouched(h)
      BY <3>1, <3>2 DEF Untouched
    <3> QED
      BY <3>2, <3>3, <3>4, UntouchedExcept
  <2> QED
    BY <2>1, <2>2, <2>3 DEF Allocate, CommitAndAllocate
<1>3. vm_error = NoError /\ UNCHANGED <<free, dead, slab, regions, op>>
  BY DEF Allocate, CommitAndAllocate, At, Stop, Go
<1>4. Quiet
  BY <1>2, <1>3 DEF Quiet
<1> QED
  BY <1>2, <1>4, QuietStructure

(* A segment changes hands where it lies: it leaves the caller for op.seg, *)
(* op.seg for the caller, or op.seg for its list.                          *)
LEMMA ReturnStructure ==
    ASSUME Types, Structure, NEW h \in Headers, ReturnSegment(h)
    PROVE  /\ Structure' /\ op.kind = "none" /\ op'.kind = "merge" /\ op'.seg = h
           /\ \A g \in Headers : g # h => seg'[g] = seg[g]
<1>1. /\ vm_error = NoError /\ op.kind = "none" /\ op.seg = null /\ Lists /\ Shape
      /\ seg[h].state = "inuse" /\ UNCHANGED <<free, dead, slab, regions, vm_error>>
      /\ op' = attempt_merge_segment(h) /\ h \in Live
  BY DEF ReturnSegment, At, Go, Structure, Operation, Live
<1>2. /\ \A g \in Headers : g # h => seg'[g] = seg[g]
      /\ seg'[h] = [seg[h] EXCEPT !.state = "free", !.used = 0]
  BY DEF ReturnSegment, Types, TypeOK
<1>3. seg[h] \in Header
  BY HeaderFields DEF Types
<1>4. /\ seg'[h].state = "free" /\ seg'[h].level = seg[h].level /\ seg'[h].base = seg[h].base
      /\ seg'[h].next_buddy = seg[h].next_buddy /\ seg'[h].prev_buddy = seg[h].prev_buddy
  BY <1>2, <1>3 DEF Header
<1>5. Shape' /\ Live' = Live
  BY <1>1, <1>2, <1>4, ShapeStays
<1>6. op'.kind = "merge" /\ op'.seg = h /\ op'.result = h
  BY <1>1 DEF attempt_merge_segment
<1>7. Operation'
  BY <1>1, <1>4, <1>5, <1>6 DEF Operation
<1>8. Lists'
  <2>1. ASSUME NEW k \in Levels PROVE free'[k] = Listed(k)'
    <3>1. free[k] = {g \in Live : seg[g].state = "free" /\ seg[g].level = k}
      <4>1. free[k] = Listed(k) /\ Live \ {null} = Live
        BY <1>1, SegmentsAssumption DEF Lists, Live
      <4> QED
        BY <1>1, <4>1 DEF Listed
    <3>2. Listed(k)' = {g \in Live \ {h} : seg'[g].state = "free" /\ seg'[g].level = k}
      BY <1>5, <1>6 DEF Listed
    <3>3. \A g \in Live \ {h} : seg'[g] = seg[g]
      BY <1>2 DEF Live
    <3> QED
      BY <1>1, <3>1, <3>2, <3>3
  <2>2. (dead \cup slab = Headers \ Live)'
    BY <1>1, <1>5 DEF Lists
  <2> QED
    BY <2>1, <2>2 DEF Lists
<1> QED
  BY <1>1, <1>2, <1>5, <1>6, <1>7, <1>8 DEF Structure

LEMMA FinishGetStructure ==
    ASSUME Types, Structure, FinishGet
    PROVE  Structure' /\ op.seg \in Headers /\ seg[op.seg].state = "free"
           /\ \A g \in Headers : g # op.seg => seg'[g] = seg[g]
<1> DEFINE h == op.seg
<1>1. /\ vm_error = NoError /\ op.kind = "get" /\ h \in Live /\ h \in Headers
      /\ seg[h].state = "free" /\ Operation /\ Lists /\ Shape
      /\ UNCHANGED <<free, dead, slab, regions>>
  BY DEF FinishGet, At, Structure, Operation, Live
<1>2. seg[h] \in Header
  BY <1>1, HeaderFields DEF Types
<1>3. CASE UNCHANGED seg /\ vm_error' = "Segment.cpp:144" /\ UNCHANGED op
  <2>1. Quiet
    BY <1>1, <1>3 DEF Quiet, Untouched
  <2> QED
    BY <1>1, <1>3, <2>1, QuietStructure
<1>4. CASE /\ \E c \in Nat : seg' = [seg EXCEPT ![h] = [seg[h] EXCEPT !.state = "inuse", !.committed = c]]
           /\ \/ vm_error' = "ContextHolder.cpp:187"
              \/ op' = Idle
  <2>1. PICK c \in Nat : seg' = [seg EXCEPT ![h] = [seg[h] EXCEPT !.state = "inuse", !.committed = c]]
    BY <1>4
  <2>2. /\ \A g \in Headers : g # h => seg'[g] = seg[g]
        /\ seg'[h] = [seg[h] EXCEPT !.state = "inuse", !.committed = c]
    BY <1>1, <2>1 DEF Types, TypeOK
  <2>3. /\ seg'[h].state = "inuse" /\ seg'[h].level = seg[h].level /\ seg'[h].base = seg[h].base
        /\ seg'[h].next_buddy = seg[h].next_buddy /\ seg'[h].prev_buddy = seg[h].prev_buddy
    BY <1>2, <2>2 DEF Header
  <2>4. Shape' /\ Live' = Live
    <3> HIDE DEF h
    <3> QED BY <1>1, <2>2, <2>3, ShapeStays
  <2>5. ASSUME op' = Idle PROVE Operation' /\ Lists'
    <3>1. op'.kind = "none" /\ op'.seg = null
      BY <2>5 DEF Idle
    <3>2. Operation'
      BY <3>1 DEF Operation
    <3>3. ASSUME NEW k \in Levels PROVE free'[k] = Listed(k)'
      <4>1. free[k] = {g \in Live \ {h} : seg[g].state = "free" /\ seg[g].level = k}
        BY <1>1 DEF Lists, Listed
      <4>2. Listed(k)' = {g \in Live : seg'[g].state = "free" /\ seg'[g].level = k}
        <5>1. Live \ {null} = Live
          BY SegmentsAssumption DEF Live
        <5> QED
          BY <2>4, <3>1, <5>1 DEF Listed
      <4>3. \A g \in Live \ {h} : seg'[g] = seg[g]
        BY <2>2 DEF Live
      <4> HIDE DEF h
      <4> QED
        BY <1>1, <2>3, <4>1, <4>2, <4>3
    <3>4. (dead \cup slab = Headers \ Live)'
      BY <1>1, <2>4 DEF Lists
    <3> QED
      BY <3>2, <3>3, <3>4 DEF Lists
  <2>6. vm_error' = NoError => op' = Idle
    BY <1>4, SegmentsAssumption
  <2> QED
    BY <1>1, <2>2, <2>4, <2>5, <2>6 DEF Structure
<1>5. CASE seg' = [seg EXCEPT ![h] = [seg[h] EXCEPT !.state = "inuse"]] /\ op' = Idle
  <2>1. [seg[h] EXCEPT !.state = "inuse"] = [seg[h] EXCEPT !.state = "inuse", !.committed = seg[h].committed]
    BY <1>2 DEF Header
  <2>2. seg[h].committed \in Nat
    BY <1>1, HeaderFields DEF Types
  <2>3. seg' = [seg EXCEPT ![h] = [seg[h] EXCEPT !.state = "inuse", !.committed = seg[h].committed]]
    BY <1>5, <2>1, Zenon
  <2> QED
    BY <1>4, <1>5, <2>2, <2>3
<1>6. ASSUME NEW c \in CommitSizes(h, op.min) PROVE c \in Nat
  <2>1. op.min \in Nat
    BY DEF Types, TypeOK, Op
  <2> HIDE DEF h
  <2> QED BY <1>1, <1>6, <2>1, CommitSizesAreNat DEF Types
<1> QED
  BY <1>3, <1>4, <1>5, <1>6, Zenon DEF FinishGet, Stop, Go

LEMMA FinishReturnStructure ==
    ASSUME Types, Structure, FinishReturn
    PROVE  Structure'
<1> DEFINE h == op.seg
<1>1. /\ vm_error = NoError /\ op.kind = "merge" /\ h \in Live /\ h \in Headers /\ op.result = h
      /\ seg[h].state = "free" /\ Operation /\ Lists /\ Shape
      /\ UNCHANGED <<seg, dead, slab, regions>> /\ op' = Idle
      /\ free' = [free EXCEPT ![seg[op.result].level] = free[seg[op.result].level] \cup {op.result}]
  BY DEF FinishReturn, At, Structure, Operation, Live, Go
<1>2. free' = [free EXCEPT ![seg[h].level] = free[seg[h].level] \cup {h}] /\ seg[h].level \in Levels
  BY <1>1, HeaderFields DEF Types
<1>3. Shape' /\ Live' = Live
  BY <1>1, ShapeStays
<1>4. op'.kind = "none" /\ op'.seg = null
  BY <1>1 DEF Idle
<1>5. Operation'
  BY <1>4 DEF Operation
<1>6. Lists'
  <2>1. ASSUME NEW k \in Levels PROVE free'[k] = Listed(k)'
    <3>1. free[k] = {g \in Live \ {h} : seg[g].state = "free" /\ seg[g].level = k}
      BY <1>1 DEF Lists, Listed
    <3>2. Listed(k)' = {g \in Live : seg[g].state = "free" /\ seg[g].level = k}
      <4>1. Live \ {null} = Live
        BY SegmentsAssumption DEF Live
      <4> QED
        BY <1>1, <1>3, <1>4, <4>1 DEF Listed
    <3>3. free'[k] = IF k = seg[h].level THEN free[k] \cup {h} ELSE free[k]
      BY <1>2 DEF Types, TypeOK
    <3> HIDE DEF h
    <3> QED
      BY <1>1, <3>1, <3>2, <3>3
  <2>2. (dead \cup slab = Headers \ Live)'
    BY <1>1, <1>3 DEF Lists
  <2> QED
    BY <2>1, <2>2 DEF Lists
<1> QED
  BY <1>3, <1>5, <1>6 DEF Structure

LEMMA NextStructure ==
    ASSUME Types, Structure, [Next]_vars, ~stale_root'
    PROVE  Structure'
<1>1. CASE UNCHANGED vars
  <2>1. Shape' /\ Live' = Live
    BY <1>1, ShapeStays DEF vars, Structure
  <2> QED
    BY <1>1, <2>1 DEF vars, Structure, Operation, Lists, Listed
<1>2. CASE \E need \in Needs, suggested \in Levels :
             GetFree(need, suggested) \/ GetRoot(need, suggested)
  BY <1>2, GetFreeStructure, GetRootStructure
<1>3. CASE SplitStep \/ FinishGet \/ MergeStep \/ FinishReturn
  BY <1>3, SplitStructure, FinishGetStructure, MergeStructure, FinishReturnStructure
<1>4. CASE \E h \in Headers, bytes \in Needs :
             \/ Enlarge(h, bytes) \/ EnlargeStops(h, bytes)
             \/ Allocate(h, bytes) \/ CommitAndAllocate(h, bytes)
  BY <1>4, EnlargeStructure, StopsStructure, AllocateStructure
<1>5. CASE MergeStops \/ Purge \/ \E h \in Headers : ReturnSegment(h)
  BY <1>5, StopsStructure, PurgeStructure, ReturnStructure
<1> QED
  BY <1>1, <1>2, <1>3, <1>4, <1>5 DEF Next

LEMMA InitIInv == Init => IInv
<1> SUFFICES ASSUME Init PROVE IInv
  OBVIOUS
<1>1. Types
  BY InitTypes
<1>2. Live = {} /\ op.kind = "none" /\ op.seg = null
  BY DEF Init, Live, Idle
<1>3. Shape
  BY <1>2 DEF Shape, Disjoint
<1>4. Operation
  BY <1>2 DEF Operation
<1>5. Lists
  BY <1>2 DEF Init, Lists, Listed
<1> QED
  BY <1>1, <1>3, <1>4, <1>5 DEF IInv, Structure

(* A root that was given old buddies stays on record.                      *)
LEMMA StaleStays ==
    ASSUME Types, [Next]_vars, stale_root
    PROVE  stale_root'
<1>1. ASSUME NEW need \in Needs, NEW suggested \in Levels, GetRoot(need, suggested)
      PROVE  stale_root'
  BY <1>1 DEF GetRoot, Types, TypeOK
<1>2. CASE UNCHANGED stale_root
  BY <1>2
<1> QED
  BY <1>1, <1>2 DEF Next, vars, GetFree, SplitStep, FinishGet, MergeStep, MergeStops, heap,
     FinishReturn, Purge, ReturnSegment, Enlarge, EnlargeStops, Allocate, CommitAndAllocate

LEMMA Inductive == IInv /\ [Next]_vars => IInv'
<1> SUFFICES ASSUME IInv, [Next]_vars PROVE IInv'
  OBVIOUS
<1>1. Types'
  BY NextTypes DEF IInv
<1>2. CASE stale_root'
  BY <1>1, <1>2 DEF IInv
<1>3. CASE ~stale_root'
  <2>1. Structure
    BY <1>3, StaleStays DEF IInv
  <2> QED
    BY <1>1, <1>3, <2>1, NextStructure DEF IInv
<1> QED
  BY <1>2, <1>3

(* What the theorems below rest on: every reachable state is typed and,    *)
(* until a root is given old buddies, has the structure.                   *)
THEOREM Invariance == Spec => []IInv
BY InitIInv, Inductive, PTL DEF Spec

-----------------------------------------------------------------------------
(* Granules.                                                               *)

(* A granule of a range lies partly in the range.                          *)
LEMMA GranuleMeets ==
    ASSUME NEW from \in Nat, NEW to \in Nat, NEW i \in Granules(from, to)
    PROVE  i \in Nat /\ i * CommitGranuleBytes < to /\ from < (i + 1) * CommitGranuleBytes
<1> DEFINE C == CommitGranuleBytes
           p == from \div C
           q == (to + C - 1) \div C
<1>1. C \in Nat \ {0} /\ to + C - 1 \in Nat
  BY SegmentsAssumption, SMT
<1>2. p \in Nat /\ from < (p + 1) * C
  BY <1>1, InRegion
<1>3. q \in Nat /\ q * C <= to + C - 1
  BY <1>1, InRegion
<1>4. align_up(to) \div C = q
  <2>1. align_up(to) = q * C
    BY DEF align_up
  <2>2. q * C \in Nat /\ q * C <= q * C /\ q * C < (q + 1) * C
    <3> HIDE DEF C, q
    <3> QED BY <1>1, <1>3, SMT
  <2> HIDE DEF C, q
  <2> QED
    BY <1>1, <1>3, <2>1, <2>2, RegionUnique
<1>5. i \in p..(q - 1)
  BY <1>4 DEF Granules
<1> HIDE DEF C, p, q
<1>6. i \in Nat /\ p <= i /\ i + 1 <= q
  BY <1>2, <1>3, <1>5, SMT
<1>7. (p + 1) * C <= (i + 1) * C
  BY <1>1, <1>2, <1>6, SMT
<1>8. (i + 1) * C <= q * C /\ (i + 1) * C = i * C + C
  BY <1>1, <1>3, <1>6, SMT
<1>9. i * C \in Int /\ (i + 1) * C \in Int /\ q * C \in Int /\ (p + 1) * C \in Int
  BY <1>1, <1>2, <1>3, <1>6, SMT
<1>10. i * C < to
  BY <1>1, <1>3, <1>8, <1>9, SMT
<1>11. from < (i + 1) * C
  BY <1>2, <1>7, <1>9, SMT
<1> QED
  BY <1>6, <1>10, <1>11 DEF C

(* A range of whole granules shares none with what lies beside it.         *)
LEMMA GranulesApart ==
    ASSUME NEW from \in Nat, NEW to \in Nat, NEW p \in Nat, NEW m \in Nat,
           to <= p * CommitGranuleBytes \/ (p + m) * CommitGranuleBytes <= from
    PROVE  Granules(from, to)
             \cap Granules(p * CommitGranuleBytes, (p + m) * CommitGranuleBytes) = {}
<1> DEFINE C == CommitGranuleBytes
<1>1. C \in Nat \ {0} /\ p * C \in Nat /\ (p + m) * C \in Nat
  BY SegmentsAssumption, SMT
<1> SUFFICES ASSUME NEW i \in Granules(from, to), i \in Granules(p * C, (p + m) * C)
             PROVE  FALSE
  OBVIOUS
<1>2. i \in Nat /\ i * C < to /\ from < (i + 1) * C
  BY GranuleMeets
<1>3. i * C < (p + m) * C /\ p * C < (i + 1) * C
  BY <1>1, GranuleMeets
<1> HIDE DEF C
<1>4. i + 1 <= p + m
  <2>1. p + m <= i => (p + m) * C <= i * C
    BY <1>1, <1>2, SMT
  <2>2. i * C \in Int /\ (p + m) * C \in Int
    BY <1>1, <1>2, SMT
  <2> QED
    BY <1>2, <1>3, <2>1, <2>2, SMT
<1>5. p <= i
  <2>1. i + 1 <= p => (i + 1) * C <= p * C
    BY <1>1, <1>2, SMT
  <2>2. (i + 1) * C \in Int /\ p * C \in Int
    BY <1>1, <1>2, SMT
  <2> QED
    BY <1>2, <1>3, <2>1, <2>2, SMT
<1>6. (i + 1) * C <= (p + m) * C /\ p * C <= i * C
  BY <1>1, <1>2, <1>4, <1>5, SMT
<1>7. i * C \in Int /\ (p + m) * C \in Int /\ (i + 1) * C \in Int /\ p * C \in Int
  BY <1>1, <1>2, SMT
<1> QED
  BY <1>2, <1>6, <1>7, SMT DEF C

-----------------------------------------------------------------------------
(* What a segment in use keeps in every step.                              *)

Kept(h) == /\ seg'[h].state = "inuse" /\ seg'[h].base = seg[h].base
           /\ end(h)' >= end(h) /\ seg'[h].used >= seg[h].used

LEMMA KeptAsItIs ==
    ASSUME Types, NEW h \in Headers, seg[h].state = "inuse",
           seg'[h].state = seg[h].state, seg'[h].base = seg[h].base,
           seg'[h].level = seg[h].level, seg'[h].used >= seg[h].used
    PROVE  Kept(h)
<1>1. end(h)' = end(h) /\ end(h) \in Nat /\ seg[h].used \in Nat
  BY HeaderFields DEF end, total_bytes, Types
<1>2. end(h)' >= end(h)
  BY <1>1, SMT
<1> QED
  BY <1>2 DEF Kept

(* The header that a split takes and the segments that a split or a merge  *)
(* changes are not in use; of a third one only prev_buddy changes.         *)
LEMMA OthersKept ==
    ASSUME Types, Structure, NEW h \in Headers, seg[h].state = "inuse",
           \/ \E need \in Needs, suggested \in Levels :
                 GetFree(need, suggested) \/ GetRoot(need, suggested)
           \/ SplitStep \/ FinishGet \/ MergeStep \/ FinishReturn
    PROVE  Kept(h)
<1>1. h \in Live /\ seg[h] \in Header /\ seg[h].used >= seg[h].used
  <2>1. seg[h].used \in Nat /\ seg[h] \in Header
    BY HeaderFields DEF Types
  <2> QED BY <2>1, SMT DEF Live
<1>2. ASSUME NEW q, seg'[h] = seg[h] \/ seg'[h] = [seg[h] EXCEPT !.prev_buddy = q]
      PROVE  Kept(h)
  <2>1. /\ seg'[h].state = seg[h].state /\ seg'[h].base = seg[h].base
        /\ seg'[h].level = seg[h].level /\ seg'[h].used = seg[h].used
    BY <1>1, <1>2 DEF Header
  <2> QED
    BY <1>1, <2>1, KeptAsItIs
<1>3. CASE \E need \in Needs, suggested \in Levels : GetFree(need, suggested)
  BY <1>2, <1>3 DEF GetFree
<1>4. CASE \E need \in Needs, suggested \in Levels : GetRoot(need, suggested)
  <2>1. PICK r \in Allocatable : \E x : seg' = [seg EXCEPT ![r] = x]
    BY <1>4 DEF GetRoot
  <2>2. r \notin Live
    <3>1. Lists
      BY <1>4 DEF GetRoot, At, Structure
    <3> QED BY <2>1, <3>1 DEF Allocatable, Lists
  <2>3. seg'[h] = seg[h]
    BY <1>1, <2>1, <2>2 DEF Types, TypeOK
  <2> QED BY <1>2, <2>3
<1>5. CASE SplitStep
  <2> DEFINE k == op.seg
             l == seg[k].level + 1
             half == LevelBytes[l]
             c == seg[k].committed
             n == seg[k].next_buddy
  <2>1. PICK s \in Allocatable :
          seg' = [g \in Headers |->
             IF g = k
             THEN [state |-> "free", level |-> l, base |-> seg[k].base,
                   committed |-> IF c >= half THEN half ELSE c, used |-> seg[k].used,
                   next_buddy |-> s,
                   prev_buddy |-> IF n = k THEN s ELSE seg[k].prev_buddy]
             ELSE IF g = s
             THEN [state |-> "free", level |-> l, base |-> seg[k].base + half,
                   committed |-> IF c >= half THEN c - half ELSE 0, used |-> 0,
                   next_buddy |-> n, prev_buddy |-> k]
             ELSE IF g = n THEN [seg[g] EXCEPT !.prev_buddy = s]
             ELSE seg[g]]
    BY <1>5, Zenon DEF SplitStep
  <2>2. Lists /\ seg[k].state = "free"
    BY <1>5 DEF SplitStep, At, Structure, Operation
  <2>3. h # k /\ h # s
    BY <1>1, <2>1, <2>2 DEF Allocatable, Lists
  <2> HIDE DEF k, l, half, c, n
  <2>4. seg'[h] = seg[h] \/ seg'[h] = [seg[h] EXCEPT !.prev_buddy = s]
    BY <2>1, <2>3
  <2> QED BY <1>2, <2>4
<1>6. CASE FinishGet
  <2>1. seg'[h] = seg[h]
    BY <1>6, FinishGetStructure
  <2> QED BY <1>2, <2>1
<1>7. CASE MergeStep
  <2> DEFINE k == op.seg
             b == buddy(k)
             leader   == IF is_leader(k) THEN k ELSE b
             follower == IF is_leader(k) THEN b ELSE k
             n == seg[follower].next_buddy
             c == seg[leader].committed
             l == seg[k].level - 1
  <2>1. \/ seg' = seg
        \/ seg' = [g \in Headers |->
              IF g = leader
              THEN [state |-> seg[g].state, level |-> l, base |-> seg[g].base,
                    committed |-> IF c = total_bytes(leader)
                                  THEN c + seg[follower].committed ELSE c,
                    used |-> seg[g].used,
                    next_buddy |-> n,
                    prev_buddy |-> IF n = leader THEN leader ELSE seg[g].prev_buddy]
              ELSE IF g = follower
              THEN DeadHeader(g, IF n = g THEN leader ELSE seg[g].prev_buddy)
              ELSE IF g = n THEN [seg[g] EXCEPT !.prev_buddy = leader]
              ELSE seg[g]]
    BY <1>7, Zenon DEF MergeStep
  <2>2. seg[k].state = "free" /\ seg[b].state = "free"
    BY <1>7 DEF MergeStep, CanMerge, At, Structure, Operation
  <2>3. h # leader /\ h # follower
    BY <2>2
  <2> HIDE DEF k, b, leader, follower, n, c, l
  <2>4. seg'[h] = seg[h] \/ seg'[h] = [seg[h] EXCEPT !.prev_buddy = leader]
    BY <2>1, <2>3
  <2> QED BY <1>2, <2>4
<1>8. CASE FinishReturn
  BY <1>2, <1>8 DEF FinishReturn
<1> QED
  BY <1>3, <1>4, <1>5, <1>6, <1>7, <1>8

(* Only a purge takes granules back ...                                    *)
LEMMA GranulesStay ==
    ASSUME [Next]_vars, ~Purge
    PROVE  mask \subseteq mask'
<1>1. ASSUME NEW h, NEW bytes, NEW c, CommitUpTo(h, bytes, c) PROVE mask \subseteq mask'
  BY <1>1 DEF CommitUpTo
<1>2. CASE UNCHANGED mask
  BY <1>2
<1>3. CASE FinishGet
  BY <1>1, <1>3 DEF FinishGet
<1>4. CASE \E h \in Headers, bytes \in Needs : CommitAndAllocate(h, bytes)
  BY <1>1, <1>4 DEF CommitAndAllocate
<1> QED
  BY <1>2, <1>3, <1>4 DEF Next, vars, GetFree, GetRoot, SplitStep, MergeStep, MergeStops, heap,
     FinishReturn, ReturnSegment, Enlarge, EnlargeStops, Allocate

(* ... and those of the free segments it goes through.                     *)
LEMMA PurgeSpares ==
    ASSUME Types, Structure, Purge, PurgesWholeGranules, NEW h \in Headers, seg[h].state = "inuse"
    PROVE  Granules(seg[h].base, end(h)) \cap mask \subseteq mask'
<1> DEFINE C == CommitGranuleBytes
           lost == UNION {Granules(seg[g].base, end(g)) : g \in Purged}
<1>1. vm_error = NoError /\ Lists /\ Disjoint /\ h \in Live /\ mask' = mask \ lost
  BY DEF Purge, At, Structure, Shape, Live
<1>2. C \in Nat \ {0}
  BY SegmentsAssumption
<1>3. ASSUME NEW f \in Purged
      PROVE  Granules(seg[h].base, end(h)) \cap Granules(seg[f].base, end(f)) = {}
  <2>1. PICK l \in Levels : f \in free[l]
    BY DEF Purged
  <2>3. f \in Live /\ seg[f].state = "free" /\ seg[f].level = l
    BY <1>1, <2>1 DEF Lists, Listed
  <2>4. f \in Headers /\ f # h
    BY <2>3 DEF Live
  <2>5. LevelBytes[l] \in Nat /\ total_bytes(f) = LevelBytes[l]
    BY <2>3, LevelSizes DEF total_bytes
  <2> DEFINE m == total_bytes(f) \div C
  <2>6. /\ seg[f].base \in Nat /\ seg[h].base \in Nat /\ end(h) \in Nat /\ m \in Nat
        /\ total_bytes(f) = m * C /\ end(f) = seg[f].base + m * C
    <3>1. seg[f].base \in Nat /\ seg[h].base \in Nat /\ end(h) \in Nat
      BY <2>4, HeaderFields DEF Types, end
    <3>2. total_bytes(f) % C = 0
      BY DEF PurgesWholeGranules
    <3>3. m \in Nat /\ total_bytes(f) = C * m + (total_bytes(f) % C)
      BY <1>2, <2>5, SMT
    <3>4. total_bytes(f) = m * C
      <4> HIDE DEF m, C
      <4> QED BY <1>2, <3>2, <3>3, SMT
    <3> QED
      BY <3>1, <3>3, <3>4 DEF end
  <2> HIDE DEF m
  <2>7. seg[f].base % C = 0
    BY DEF PurgesWholeGranules
  <2> DEFINE p == seg[f].base \div C
  <2>8. p \in Nat /\ seg[f].base = p * C
    <3>1. p \in Nat /\ seg[f].base = C * p + (seg[f].base % C)
      BY <1>2, <2>6, SMT
    <3> HIDE DEF p, C
    <3> QED BY <1>2, <2>6, <2>7, <3>1, SMT
  <2>9. end(f) = (p + m) * C
    <3>1. end(f) = p * C + m * C
      BY <2>6, <2>8
    <3> HIDE DEF p, C
    <3>2. p * C + m * C = (p + m) * C
      BY <1>2, <2>6, <2>8, SMT
    <3> QED BY <3>1, <3>2
  <2>10. end(h) <= p * C \/ (p + m) * C <= seg[h].base
    BY <1>1, <2>3, <2>4, <2>8, <2>9 DEF Disjoint
  <2> HIDE DEF p
  <2> QED
    <3>1. p \in Nat /\ m \in Nat /\ seg[h].base \in Nat /\ end(h) \in Nat
      BY <2>6, <2>8
    <3>2. end(h) <= p * CommitGranuleBytes \/ (p + m) * CommitGranuleBytes <= seg[h].base
      BY <2>10
    <3>3. Granules(seg[h].base, end(h))
            \cap Granules(p * CommitGranuleBytes, (p + m) * CommitGranuleBytes) = {}
      BY <3>1, <3>2, GranulesApart
    <3>4. seg[f].base = p * CommitGranuleBytes /\ end(f) = (p + m) * CommitGranuleBytes
      BY <2>8, <2>9
    <3> QED
      BY <3>3, <3>4
<1>4. Granules(seg[h].base, end(h)) \cap lost = {}
  BY <1>3
<1> QED
  BY <1>1, <1>4

LEMMA StepKeeps ==
    ASSUME IInv, [Next]_vars, NEW h \in Headers, seg[h].state = "inuse", ~stale_root'
    PROVE  \/ /\ Kept(h)
              /\ PurgesWholeGranules => Granules(seg[h].base, end(h)) \cap mask \subseteq mask'
           \/ op.kind = "none" /\ op'.kind = "merge" /\ op'.seg = h
<1>1. Types /\ Structure
  BY StaleStays DEF IInv
<1>2. PurgesWholeGranules => Granules(seg[h].base, end(h)) \cap mask \subseteq mask'
  BY <1>1, GranulesStay, PurgeSpares
<1>3. seg[h].used >= seg[h].used /\ end(h) >= end(h)
  <2>1. seg[h].used \in Nat /\ end(h) \in Nat
    BY <1>1, HeaderFields DEF Types
  <2> QED BY <2>1, SMT
<1>4. ASSUME UNCHANGED seg PROVE Kept(h)
  BY <1>1, <1>3, <1>4, KeptAsItIs
<1>5. CASE \/ \E need \in Needs, suggested \in Levels :
                 GetFree(need, suggested) \/ GetRoot(need, suggested)
           \/ SplitStep \/ FinishGet \/ MergeStep \/ FinishReturn
  BY <1>1, <1>2, <1>5, OthersKept
<1>6. CASE UNCHANGED vars \/ MergeStops
           \/ \E g \in Headers, bytes \in Needs : EnlargeStops(g, bytes)
  BY <1>2, <1>4, <1>6 DEF vars, heap, MergeStops, EnlargeStops
<1>7. CASE Purge
  <2>1. seg' = [g \in Headers |-> IF g \in Purged THEN uncommit(g) ELSE seg[g]]
    BY <1>7 DEF Purge
  <2>2. seg'[h] = uncommit(h) \/ seg'[h] = seg[h]
    BY <2>1
  <2>3. seg[h] \in Header
    BY <1>1, HeaderFields DEF Types
  <2>4. /\ seg'[h].state = seg[h].state /\ seg'[h].base = seg[h].base
        /\ seg'[h].level = seg[h].level /\ seg'[h].used = seg[h].used
    BY <2>2, <2>3 DEF uncommit, Header
  <2> QED
    BY <1>1, <1>2, <1>3, <2>4, KeptAsItIs
<1>8. CASE \E g \in Headers : ReturnSegment(g)
  <2>1. PICK g \in Headers : ReturnSegment(g)
    BY <1>8
  <2>2. CASE g = h
    BY <1>1, <2>1, <2>2, ReturnStructure
  <2>3. CASE g # h
    <3>1. seg'[h] = seg[h]
      BY <1>1, <2>1, <2>3, ReturnStructure
    <3> QED
      BY <1>1, <1>2, <1>3, <3>1, KeptAsItIs
  <2> QED
    BY <2>2, <2>3
<1>9. CASE \E g \in Headers, bytes \in Needs : Enlarge(g, bytes)
  <2>1. PICK g \in Headers : \E bytes \in Needs : Enlarge(g, bytes)
    BY <1>9
  <2>2. CASE g = h
    BY <1>1, <1>2, <1>3, <2>1, <2>2, EnlargeStructure DEF Kept
  <2>3. CASE g # h
    BY <1>1, <1>2, <1>3, <2>1, <2>3, EnlargeStructure DEF Kept
  <2> QED
    BY <2>2, <2>3
<1>10. CASE \E g \in Headers, bytes \in Needs :
              Allocate(g, bytes) \/ CommitAndAllocate(g, bytes)
  <2>1. Untouched(h) /\ seg'[h].used >= seg[h].used
    BY <1>1, <1>10, AllocateStructure
  <2> QED
    BY <1>1, <1>2, <2>1, KeptAsItIs DEF Untouched
<1> QED
  BY <1>5, <1>6, <1>7, <1>8, <1>9, <1>10 DEF Next

-----------------------------------------------------------------------------
(* The model's values have their types; a root with old buddies changes    *)
(* nothing in that.                                                        *)
THEOREM TypeCorrect == Spec => []TypeOK
<1>1. IInv => TypeOK
  BY DEF IInv, Types
<1> QED
  BY <1>1, Invariance, PTL

(* The segments of every region lie side by side, and each points at the   *)
(* one that follows it.                                                    *)
THEOREM SegmentsTile == Spec => []Tiling
<1>1. IInv => Tiling
  <2> SUFFICES ASSUME IInv, ~stale_root PROVE Disjoint /\ LinksAgree
    BY DEF Tiling
  <2>1. Types /\ Shape
    BY DEF IInv, Structure
  <2>2. ASSUME NEW h \in Live, seg[h].next_buddy = null
        PROVE  end(h) % RegionBytes = 0
    <3>1. end(h) = (RegionOf(h) + 1) * RegionBytes
      BY <2>1, <2>2 DEF Shape, Placed, NextAgrees, RegionEnd
    <3>2. RegionBytes \in Nat \ {0} /\ seg[h].base \in Nat
      BY <2>1, HeaderFields, LevelSizes DEF Live, Types
    <3>3. RegionOf(h) + 1 \in Nat
      <4>1. RegionOf(h) \in Nat
        BY <3>2, InRegion DEF RegionOf
      <4> QED BY <4>1, SMT
    <3> DEFINE q == RegionOf(h) + 1
               d == RegionBytes
    <3>4. (q * d) % d = 0
      <4> HIDE DEF q, d
      <4> QED BY <3>2, <3>3, MultipleOf DEF q, d
    <3> QED
      BY <3>1, <3>4
  <2>3. LinksAgree
    BY <2>1, <2>2 DEF LinksAgree, Shape, Placed, NextAgrees
  <2> QED
    BY <2>1, <2>3 DEF Shape
<1> QED
  BY <1>1, Invariance, PTL

(* Between calls the lists hold exactly the free segments and the pool the *)
(* headers that nobody uses.                                               *)
THEOREM ListsHoldTheFree == Spec => []FreeListsExact
<1>1. IInv => FreeListsExact
  <2> SUFFICES ASSUME IInv, ~stale_root, At("none")
               PROVE  /\ \A l \in Levels :
                           free[l] = {h \in Live : seg[h].state = "free" /\ seg[h].level = l}
                      /\ dead \cup slab = Headers \ Live
    BY DEF FreeListsExact
  <2>1. op.seg = null /\ Lists
    BY DEF IInv, Structure, Operation, At
  <2>2. Live \ {null} = Live
    BY SegmentsAssumption DEF Live
  <2> QED
    BY <2>1, <2>2 DEF Lists, Listed
<1> QED
  BY <1>1, Invariance, PTL

(* An arena keeps the memory it was given until it gives the segment back. *)
THEOREM MemoryIsKept == Spec => ArenaKeepsItsMemory
<1>1. IInv /\ [Next]_vars =>
        [\A h \in Headers :
           (seg[h].state = "inuse" /\ ~stale_root') =>
              \/ /\ seg'[h].state = "inuse" /\ seg'[h].base = seg[h].base
                 /\ end(h)' >= end(h) /\ seg'[h].used >= seg[h].used
                 /\ PurgesWholeGranules => Granules(seg[h].base, end(h)) \cap mask \subseteq mask'
              \/ op.kind = "none" /\ op'.kind = "merge" /\ op'.seg = h]_vars
  BY StepKeeps DEF Kept
<1> QED
  BY <1>1, Invariance, PTL DEF Spec, ArenaKeepsItsMemory

-----------------------------------------------------------------------------
(* Arenas.                                                                 *)
(*                                                                         *)
(* The tree is described by bounds: each node has an interval of sizes     *)
(* that its subtree keeps to.  A node that is put in takes the interval of *)
(* the place it is put into; one that is removed gives its own to its      *)
(* neighbours.  What pointers lead to is then a matter of arithmetic.      *)

-----------------------------------------------------------------------------
(* Loops.                                                                  *)

(* Words are finitely many.                                                *)
LEMMA WordsFinite ==
    IsFiniteSet(Words) /\ Cardinality(Words) \in Nat /\ Words \in SUBSET Int
    /\ Arena!Cardinality(Words) = Cardinality(Words)
<1>1. Words \in SUBSET Int /\ IsFiniteSet(Words)
  <2>1. MaxSegments * RegionWords - 1 \in Int /\ Words = 0..(MaxSegments * RegionWords - 1)
    BY MetaspaceArenaAssumption
  <2> QED BY <2>1, FS_Interval
<1> QED BY <1>1, FS_CardinalityType DEF Arena!Cardinality, Cardinality

(* What a loop does is defined for any number of steps.                    *)
Steps(at, f, x, N) == at = [i \in 0..N |-> IF i = 0 THEN x ELSE f[at[i - 1]]]

LEMMA StepsExist ==
    ASSUME NEW f, NEW x, NEW N \in Nat
    PROVE  \E at : Steps(at, f, x, N)
<1> DEFINE T == {n \in Nat : ~\E at : Steps(at, f, x, n)}
<1> SUFFICES ASSUME N \in T PROVE FALSE
  OBVIOUS
<1>1. PICK n \in T : \A k \in T : n <= k
  <2> T \in SUBSET Nat
    OBVIOUS
  <2> HIDE DEF T
  <2> QED BY LeastElement
<1>2. n # 0
  <2>1. Steps([i \in 0..0 |-> x], f, x, 0)
    BY DEF Steps
  <2> QED BY <2>1
<1>3. PICK g : Steps(g, f, x, n - 1)
  BY <1>1, <1>2
<1> DEFINE at == [i \in 0..n |-> IF i < n THEN g[i] ELSE f[g[n - 1]]]
<1>4. n \in Nat /\ n - 1 \in 0..(n - 1)
  BY <1>2
<1>5. \A i \in 0..(n - 1) : g[i] = IF i = 0 THEN x ELSE f[g[i - 1]]
  BY <1>3 DEF Steps
<1>6. \A i \in 0..n : at[i] = IF i = 0 THEN x ELSE f[at[i - 1]]
  BY <1>2, <1>4, <1>5
<1>7. Steps(at, f, x, n)
  BY <1>6 DEF Steps
<1> QED BY <1>7

(* A loop that keeps to S, and comes nearer to its end by a rank with each *)
(* step until it is there, ends in S.                                      *)
LEMMA LoopEnds ==
    ASSUME NEW f, NEW S, NEW x \in S, NEW rank \in [S -> Nat],
           rank[x] <= Cardinality(Words),
           \A s \in S : f[s] \in S /\ (f[s] = s \/ rank[f[s]] < rank[s])
    PROVE  Arena!Loop(f, x) \in S /\ f[Arena!Loop(f, x)] = Arena!Loop(f, x)
<1> DEFINE D == Cardinality(Words)
           at == CHOOSE at : Steps(at, f, x, D)
<1>1. D \in Nat
  BY WordsFinite
<1>2. Arena!Loop(f, x) = at[D]
  BY WordsFinite DEF Arena!Loop, Steps
<1>3. Steps(at, f, x, D)
  <2> HIDE DEF D
  <2> QED BY <1>1, StepsExist
<1> HIDE DEF at, D
<1>4. \A i \in 0..D : at[i] = IF i = 0 THEN x ELSE f[at[i - 1]]
  BY <1>3 DEF Steps
<1> DEFINE Good(i) == at[i] \in S /\ (f[at[i]] = at[i] \/ rank[at[i]] + i <= D)
           T == {i \in 0..D : ~Good(i)}
<1>5. T = {}
  <2> SUFFICES ASSUME NEW j \in T PROVE FALSE
    OBVIOUS
  <2>1. PICK i \in T : \A k \in T : i <= k
    <3> T \in SUBSET Nat
      BY <1>1
    <3> HIDE DEF T
    <3> QED BY LeastElement
  <2>2. i # 0
    <3>1. at[0] = x
      BY <1>1, <1>4
    <3>2. Good(0)
      BY <1>1, <3>1 DEF D
    <3> QED BY <3>2
  <2>3. i - 1 \in 0..D /\ Good(i - 1) /\ at[i] = f[at[i - 1]]
    BY <1>1, <1>4, <2>1, <2>2
  <2>4. at[i] \in S
    BY <2>3
  <2>5. CASE f[at[i - 1]] = at[i - 1]
    BY <2>3, <2>4, <2>5
  <2>6. CASE rank[f[at[i - 1]]] < rank[at[i - 1]] /\ rank[at[i - 1]] + (i - 1) <= D
    <3>1. rank[at[i]] < rank[at[i - 1]] /\ rank[at[i]] \in Nat /\ rank[at[i - 1]] \in Nat
      BY <2>3, <2>4, <2>6
    <3>2. rank[at[i]] + i <= D
      BY <1>1, <2>1, <2>6, <3>1
    <3> QED BY <2>1, <2>4, <3>2
  <2> QED BY <2>3, <2>5, <2>6
<1>6. Good(D)
  BY <1>1, <1>5
<1>7. f[at[D]] = at[D]
  <2>1. CASE rank[at[D]] + D <= D
    <3>1. at[D] \in S /\ rank[at[D]] \in Nat /\ rank[f[at[D]]] \in Nat /\ rank[at[D]] = 0
      BY <1>1, <1>6, <2>1
    <3> QED BY <3>1
  <2> QED BY <1>6, <2>1
<1> QED BY <1>2, <1>6, <1>7

(* What a pointer of the manager can be.                                   *)
WordPointers == Words \cup {null}

(* What links lead to from p is the least set that has p and is closed.    *)
Closed(links, p, C) ==
    /\ p # null => p \in C
    /\ \A q \in C : links[q] \subseteq C

LEMMA ReachedLeast ==
    ASSUME NEW links \in [Words -> SUBSET Words], NEW p \in WordPointers
    PROVE  /\ Arena!reached(links, p) \in SUBSET Words
           /\ Closed(links, p, Arena!reached(links, p))
           /\ \A C \in SUBSET Words : Closed(links, p, C) => Arena!reached(links, p) \subseteq C
<1> DEFINE f == [A \in SUBSET Words |-> A \cup UNION {links[q] : q \in A}]
           start == {p} \ {null}
           R == Arena!Loop(f, start)
           rank(S) == [A \in S |-> Cardinality(Words \ A)]
<1>1. start \in SUBSET Words
  BY DEF WordPointers
<1>2. \A A \in SUBSET Words : f[A] \in SUBSET Words /\ A \subseteq f[A]
  OBVIOUS
<1>3. \A A \in SUBSET Words : Cardinality(Words \ A) \in Nat /\ Cardinality(Words \ A) <= Cardinality(Words)
  <2> SUFFICES ASSUME NEW A \in SUBSET Words
               PROVE  Cardinality(Words \ A) \in Nat /\ Cardinality(Words \ A) <= Cardinality(Words)
    OBVIOUS
  <2>1. Words \ A \subseteq Words
    OBVIOUS
  <2> QED BY <2>1, WordsFinite, FS_Subset, FS_CardinalityType
<1>4. ASSUME NEW A \in SUBSET Words, f[A] # A
      PROVE  Cardinality(Words \ f[A]) < Cardinality(Words \ A)
  <2> DEFINE B == f[A]
  <2>1. B \in SUBSET Words /\ A \subseteq B /\ B # A
    BY <1>2, <1>4
  <2> HIDE DEF f, B
  <2>2. Words \ B \subseteq Words \ A /\ Words \ B # Words \ A
    BY <2>1
  <2>3. IsFiniteSet(Words \ A) /\ IsFiniteSet(Words \ B)
    BY WordsFinite, FS_Subset
  <2> DEFINE S == Words \ A
             T == Words \ B
  <2>4. T \in SUBSET S /\ T # S /\ IsFiniteSet(S) /\ IsFiniteSet(T)
    BY <2>2, <2>3
  <2> HIDE DEF S, T
  <2>5. Cardinality(T) < Cardinality(S)
    BY <2>4, FS_Subset, FS_CardinalityType
  <2> QED BY <2>5 DEF B, S, T
<1> HIDE DEF f
<1>5. ASSUME NEW C \in SUBSET Words, Closed(links, p, C)
      PROVE  R \in SUBSET Words /\ start \subseteq R /\ R \subseteq C /\ f[R] = R
  <2> DEFINE S == {A \in SUBSET Words : start \subseteq A /\ A \subseteq C}
             r == rank(S)
  <2>1. start \in S
    BY <1>1, <1>5 DEF Closed
  <2>2. r \in [S -> Nat] /\ r[start] <= Cardinality(Words)
    BY <1>3, <2>1
  <2>3. ASSUME NEW A \in S PROVE f[A] \in S /\ (f[A] = A \/ r[f[A]] < r[A])
    <3>1. f[A] = A \cup UNION {links[q] : q \in A}
      BY DEF f
    <3>2. f[A] \subseteq C
      BY <1>5, <3>1 DEF Closed
    <3>3. f[A] \in S
      BY <1>2, <3>2
    <3>4. f[A] = A \/ r[f[A]] < r[A]
      BY <1>4, <3>3
    <3> QED BY <3>3, <3>4
  <2> HIDE DEF S, r
  <2>4. R \in S /\ f[R] = R
    <3> HIDE DEF start
    <3> QED BY <2>1, <2>2, <2>3, LoopEnds
  <2> QED BY <2>4 DEF S
<1>6. Closed(links, p, Words)
  BY DEF Closed, WordPointers
<1>7. R \in SUBSET Words /\ start \subseteq R /\ f[R] = R
  BY <1>5, <1>6
<1>8. Arena!reached(links, p) = R
  BY DEF Arena!reached, f
<1>9. Closed(links, p, R)
  <2>1. f[R] = R \cup UNION {links[q] : q \in R}
    BY <1>7 DEF f
  <2> HIDE DEF R
  <2>2. \A q \in R : links[q] \subseteq R
    BY <1>7, <2>1
  <2> QED BY <1>7, <2>2 DEF Closed
<1> QED
  BY <1>5, <1>7, <1>8, <1>9

(* The tree: N are its nodes, and the sizes in the subtree of n lie between*)
(* lo[n] and hi[n].                                                        *)
Bound == Cardinality(Words) + 1
Size(m, n) == m.node[n].bytes

(* k lies in the subtree to the left of n, or to its right, by the         *)
(* bounds.                                                                 *)
InLeft(m, lo, hi, k, n) ==
    m.node[n].left # null /\ lo[n] <= lo[k] /\ hi[k] <= Size(m, n)
InRight(m, lo, hi, k, n) ==
    m.node[n].right # null /\ Size(m, n) <= lo[k] /\ hi[k] <= hi[n]

(* A node has its size between its bounds, hands them on to its children,  *)
(* and is the child of its parent.                                         *)
NodeJoined(m, N, lo, hi, n) ==
    LET left  == m.node[n].left
        right == m.node[n].right
        up    == m.node[n].parent
    IN /\ 0 <= lo[n] /\ lo[n] < Size(m, n) /\ Size(m, n) < hi[n] /\ hi[n] <= Bound
       /\ left # null => /\ left \in N /\ m.node[left].parent = n
                         /\ lo[left] = lo[n] /\ hi[left] = Size(m, n)
       /\ right # null => /\ right \in N /\ m.node[right].parent = n
                          /\ lo[right] = Size(m, n) /\ hi[right] = hi[n]
       /\ n # m.root => up \in N /\ (m.node[up].left = n \/ m.node[up].right = n)

(* Of two nodes one is below the other, or they lie apart.                 *)
NodePlaced(m, lo, hi, k, n) ==
    \/ n = k \/ InLeft(m, lo, hi, k, n) \/ InRight(m, lo, hi, k, n)
    \/ InLeft(m, lo, hi, n, k) \/ InRight(m, lo, hi, n, k)
    \/ hi[k] <= lo[n] \/ hi[n] <= lo[k]

(* The root has the widest bounds and no parent.                           *)
Rooted(m, N, lo, hi) ==
    /\ m.root \in N \cup {null}
    /\ m.root = null => N = {}
    /\ m.root # null => m.node[m.root].parent = null /\ lo[m.root] = 0 /\ hi[m.root] = Bound

Tree(m, N, lo, hi) ==
    /\ m \in Arena!Manager /\ N \in SUBSET Words
    /\ lo \in [Words -> Int] /\ hi \in [Words -> Int]
    /\ Rooted(m, N, lo, hi)
    /\ \A n \in N : NodeJoined(m, N, lo, hi, n)
    /\ \A n, k \in N : NodePlaced(m, lo, hi, k, n)

(* What a manager's fields are.                                            *)
LEMMA ManagerFields ==
    ASSUME NEW m \in Arena!Manager
    PROVE  /\ m.root \in WordPointers /\ m.small \in Int /\ m.tree \in Int
           /\ m.bin \in [Arena!BinSizes -> Seq(Words)]
           /\ \A p \in Words : /\ Size(m, p) \in Nat
                               /\ m.node[p].left \in WordPointers
                               /\ m.node[p].right \in WordPointers
                               /\ m.node[p].parent \in WordPointers
                               /\ m.node[p].next \in WordPointers
           /\ null \notin Words /\ Bound \in Int
BY WordsFinite, MetaspaceArenaAssumption DEF Arena!Manager, Arena!Pointers, WordPointers, Size, Bound

(* What lies between the bounds of a node is below it, on its side.        *)
LEMMA TreeSides ==
    ASSUME NEW m, NEW N, NEW lo, NEW hi, Tree(m, N, lo, hi), NEW n \in N, NEW k \in N
    PROVE  /\ n \in Words /\ Size(m, n) \in Int /\ lo[n] \in Int /\ hi[n] \in Int
           /\ Size(m, n) = Size(m, k) => n = k
           /\ lo[n] < Size(m, k) /\ Size(m, k) < Size(m, n) => InLeft(m, lo, hi, k, n)
           /\ Size(m, n) < Size(m, k) /\ Size(m, k) < hi[n] => InRight(m, lo, hi, k, n)
<1>1. /\ n \in Words /\ k \in Words /\ m \in Arena!Manager
      /\ lo[n] \in Int /\ lo[k] \in Int /\ hi[n] \in Int /\ hi[k] \in Int
  BY DEF Tree
<1>2. Size(m, n) \in Int /\ Size(m, k) \in Int
  BY <1>1, ManagerFields
<1>3. lo[n] < Size(m, n) /\ Size(m, n) < hi[n] /\ lo[k] < Size(m, k) /\ Size(m, k) < hi[k]
  BY DEF Tree, NodeJoined
<1>4. NodePlaced(m, lo, hi, k, n)
  BY DEF Tree
<1> QED
  BY <1>1, <1>2, <1>3, <1>4 DEF NodePlaced, InLeft, InRight

(* The nodes between the bounds of n.                                      *)
UnderIn(m, N, lo, hi, n) == {k \in N : lo[n] < Size(m, k) /\ Size(m, k) < hi[n]}

TreeLinks(m) == [q \in Words |-> {m.node[q].left, m.node[q].right} \ {null}]

LEMMA TreeLinksType ==
    ASSUME NEW m \in Arena!Manager
    PROVE  TreeLinks(m) \in [Words -> SUBSET Words]
BY ManagerFields DEF TreeLinks, WordPointers

(* A child's subtree is in the node's.                                     *)
LEMMA UnderClosed ==
    ASSUME NEW m, NEW N, NEW lo, NEW hi, Tree(m, N, lo, hi), NEW n \in N
    PROVE  Closed(TreeLinks(m), n, UnderIn(m, N, lo, hi, n))
<1> DEFINE C == UnderIn(m, N, lo, hi, n)
<1>1. n \in C
  BY DEF Tree, NodeJoined, UnderIn
<1>2. ASSUME NEW q \in C, NEW c \in TreeLinks(m)[q]
      PROVE  c \in C
  <2>1. q \in N /\ q \in Words /\ lo[n] < Size(m, q) /\ Size(m, q) < hi[n]
    BY DEF UnderIn, Tree
  <2>2. (c = m.node[q].left \/ c = m.node[q].right) /\ c # null
    BY <2>1 DEF TreeLinks
  <2>3. /\ c \in N /\ lo[c] \in Int /\ hi[c] \in Int /\ lo[c] < Size(m, c) /\ Size(m, c) < hi[c]
        /\ \/ lo[c] = lo[q] /\ hi[c] = Size(m, q)
           \/ lo[c] = Size(m, q) /\ hi[c] = hi[q]
    BY <2>1, <2>2 DEF Tree, NodeJoined
  <2>4. /\ Size(m, c) \in Int /\ Size(m, q) \in Int /\ lo[q] \in Int /\ hi[q] \in Int
        /\ lo[n] \in Int /\ hi[n] \in Int /\ Size(m, n) \in Int
    BY <2>1, <2>3, TreeSides
  <2>5. q # n => InLeft(m, lo, hi, q, n) \/ InRight(m, lo, hi, q, n)
    BY <2>1, <2>4, TreeSides
  <2>6. lo[n] < Size(m, n) /\ Size(m, n) < hi[n] /\ lo[q] < Size(m, q) /\ Size(m, q) < hi[q]
    BY <2>1 DEF Tree, NodeJoined
  <2>7. lo[n] < Size(m, c) /\ Size(m, c) < hi[n]
    BY <2>3, <2>4, <2>5, <2>6 DEF InLeft, InRight
  <2> QED BY <2>3, <2>7 DEF UnderIn
<1> QED
  BY <1>1, <1>2 DEF Closed

(* The bounds say exactly what the children's pointers lead to.            *)
LEMMA UnderReached ==
    ASSUME NEW m, NEW N, NEW lo, NEW hi, Tree(m, N, lo, hi), NEW n \in N
    PROVE  Arena!nodes_under(m, n) = UnderIn(m, N, lo, hi, n)
<1> DEFINE C == UnderIn(m, N, lo, hi, n)
           R == Arena!reached(TreeLinks(m), n)
<1>1. Arena!nodes_under(m, n) = R
  BY DEF Arena!nodes_under, TreeLinks
<1>2. C \in SUBSET Words /\ n \in Words /\ n # null /\ m \in Arena!Manager
  BY ManagerFields DEF Tree, UnderIn
<1>3. R \in SUBSET Words /\ Closed(TreeLinks(m), n, R) /\ R \subseteq C
  BY <1>2, TreeLinksType, UnderClosed, ReachedLeast DEF WordPointers
<1> HIDE DEF R
<1>4. ASSUME NEW k \in C, k \notin R
      PROVE  FALSE
  <2> DEFINE T == {hi[q] - lo[q] : q \in {q \in R : lo[q] < Size(m, k) /\ Size(m, k) < hi[q]}}
  <2>1. hi[n] - lo[n] \in T
    BY <1>2, <1>3, <1>4 DEF Closed, UnderIn
  <2>2. T \in SUBSET Nat
    <3>1. ASSUME NEW q \in R PROVE hi[q] - lo[q] \in Nat
      <4>1. q \in N /\ lo[q] \in Int /\ hi[q] \in Int /\ Size(m, q) \in Int
        BY <1>3, TreeSides DEF UnderIn
      <4>2. lo[q] < Size(m, q) /\ Size(m, q) < hi[q]
        BY <4>1 DEF Tree, NodeJoined
      <4> QED BY <4>1, <4>2
    <3> QED BY <3>1
  <2>3. PICK least \in T : \A x \in T : least <= x
    <3> HIDE DEF T
    <3> QED BY <2>1, <2>2, LeastElement
  <2>4. PICK q \in R : lo[q] < Size(m, k) /\ Size(m, k) < hi[q] /\ least = hi[q] - lo[q]
    BY <2>3
  <2>5. q \in N /\ k \in N /\ q # k
    BY <1>3, <1>4 DEF UnderIn
  <2>6. /\ lo[q] \in Int /\ hi[q] \in Int /\ Size(m, q) \in Int /\ Size(m, k) \in Int
        /\ Size(m, q) # Size(m, k) /\ q \in Words
    BY <2>5, TreeSides
  <2>7. lo[q] < Size(m, q) /\ Size(m, q) < hi[q]
    BY <2>5 DEF Tree, NodeJoined
  <2>8. CASE Size(m, k) < Size(m, q)
    <3> DEFINE c == m.node[q].left
    <3>1. c # null
      BY <2>4, <2>5, <2>8, TreeSides DEF InLeft
    <3>2. c \in N /\ lo[c] = lo[q] /\ hi[c] = Size(m, q)
      BY <2>5, <3>1 DEF Tree, NodeJoined
    <3>3. c \in R
      BY <1>3, <2>4, <2>6, <3>1 DEF Closed, TreeLinks
    <3>4. hi[c] - lo[c] \in T
      BY <2>4, <2>8, <3>2, <3>3
    <3> QED BY <2>3, <2>4, <2>6, <2>7, <3>2, <3>4
  <2>9. CASE Size(m, q) < Size(m, k)
    <3> DEFINE c == m.node[q].right
    <3>1. c # null
      BY <2>4, <2>5, <2>9, TreeSides DEF InRight
    <3>2. c \in N /\ lo[c] = Size(m, q) /\ hi[c] = hi[q]
      BY <2>5, <3>1 DEF Tree, NodeJoined
    <3>3. c \in R
      BY <1>3, <2>4, <2>6, <3>1 DEF Closed, TreeLinks
    <3>4. hi[c] - lo[c] \in T
      BY <2>4, <2>9, <3>2, <3>3
    <3> QED BY <2>3, <2>4, <2>6, <2>7, <3>2, <3>4
  <2> QED BY <2>6, <2>8, <2>9
<1> QED BY <1>1, <1>3, <1>4

(* Nothing is under no node.                                               *)
LEMMA NothingUnderNull ==
    ASSUME NEW m \in Arena!Manager
    PROVE  Arena!nodes_under(m, null) = {}
<1>1. Arena!nodes_under(m, null) = Arena!reached(TreeLinks(m), null)
  BY DEF Arena!nodes_under, TreeLinks
<1>2. Closed(TreeLinks(m), null, {})
  BY DEF Closed
<1> QED
  BY <1>1, <1>2, TreeLinksType, ReachedLeast DEF WordPointers

(* The nodes of the tree are those that the root leads to.                 *)
LEMMA TreeNodes ==
    ASSUME NEW m, NEW N, NEW lo, NEW hi, Tree(m, N, lo, hi)
    PROVE  Arena!tree_nodes(m) = N
<1>1. CASE m.root = null
  BY <1>1, NothingUnderNull DEF Tree, Rooted, Arena!tree_nodes
<1>2. CASE m.root # null
  <2>1. m.root \in N /\ lo[m.root] = 0 /\ hi[m.root] = Bound
    BY <1>2 DEF Tree, Rooted
  <2>2. ASSUME NEW k \in N PROVE 0 < Size(m, k) /\ Size(m, k) < Bound
    <3>1. 0 <= lo[k] /\ lo[k] < Size(m, k) /\ Size(m, k) < hi[k] /\ hi[k] <= Bound
      BY DEF Tree, NodeJoined
    <3>2. lo[k] \in Int /\ hi[k] \in Int /\ Size(m, k) \in Int /\ Bound \in Int
      BY TreeSides, ManagerFields DEF Tree
    <3> QED BY <3>1, <3>2
  <2> QED BY <2>1, <2>2, UnderReached DEF UnderIn, Arena!tree_nodes
<1> QED BY <1>1, <1>2

(* The numbers of finitely many words have a bound.                        *)
LEMMA BoundedRank ==
    ASSUME NEW rank \in [Words -> Nat]
    PROVE  \E b \in Nat : \A p \in Words : rank[p] <= b
<1> DEFINE Bad(S) == ~\E b \in Nat : \A p \in S : rank[p] <= b
           T == {n \in Nat : \E S \in SUBSET Words : Cardinality(S) = n /\ Bad(S)}
<1> SUFFICES ASSUME Bad(Words) PROVE FALSE
  OBVIOUS
<1>1. Cardinality(Words) \in T
  BY WordsFinite
<1>2. PICK n \in T : \A k \in T : n <= k
  <2> T \in SUBSET Nat
    OBVIOUS
  <2> HIDE DEF T
  <2> QED BY <1>1, LeastElement
<1>3. PICK S \in SUBSET Words : Cardinality(S) = n /\ Bad(S)
  OBVIOUS
<1>4. PICK x \in S : TRUE
  <2>1. S # {}
    <3>1. \A p \in {} : rank[p] <= 0
      OBVIOUS
    <3> QED BY <1>3, <3>1
  <2> QED BY <2>1
<1>5. IsFiniteSet(S) /\ Cardinality(S \ {x}) = n - 1 /\ Cardinality(S \ {x}) \in Nat
  BY <1>3, <1>4, WordsFinite, FS_Subset, FS_RemoveElement, FS_CardinalityType
<1>6. PICK b \in Nat : \A p \in S \ {x} : rank[p] <= b
  <2>1. n - 1 \notin T
    BY <1>2, <1>5
  <2> QED BY <1>5, <2>1
<1>7. b + rank[x] \in Nat /\ \A p \in S : rank[p] <= b + rank[x]
  BY <1>6
<1> QED BY <1>3, <1>7

(* The lists: home[h] is the node of the tree that h waits behind, and a   *)
(* node's list is what its pointers lead to, by a falling rank.            *)
Linked(m, N, home, rank, h) ==
    LET next == m.node[h].next
    IN /\ home[h] \in N /\ Size(m, h) = Size(m, home[h])
       /\ next # null => /\ next \in Words /\ next \notin N
                         /\ home[next] = home[h] /\ rank[next] < rank[h]
       /\ h \notin N => \E g \in Words : home[g] # null /\ m.node[g].next = h

SizeLists(m, N, home, rank) ==
    /\ home \in [Words -> WordPointers] /\ rank \in [Words -> Nat]
    /\ \A n \in N : home[n] = n
    /\ \A h \in Words : home[h] # null => Linked(m, N, home, rank, h)
    /\ \A g, h \in Words : /\ home[g] # null /\ home[h] # null
                           /\ m.node[g].next = m.node[h].next /\ m.node[h].next # null
                           => g = h

(* Any words of a node's list but the node have a predecessor among the    *)
(* list that is not one of them.                                           *)
LEMMA FirstOutside ==
    ASSUME NEW m, NEW N \in SUBSET Words, NEW home, NEW rank, SizeLists(m, N, home, rank),
           NEW n \in N, NEW S \in SUBSET {h \in Words : home[h] = n}, n \notin S, S # {},
           null \notin Words
    PROVE  \E h \in S : \E g \in Words \ S : home[g] = n /\ m.node[g].next = h
<1>1. PICK b \in Nat : \A p \in Words : rank[p] <= b
  BY BoundedRank DEF SizeLists
<1> DEFINE T == {b - rank[h] : h \in S}
<1>2. T \in SUBSET Nat
  <2>1. ASSUME NEW h \in S PROVE b - rank[h] \in Nat
    <3>1. rank[h] \in Nat /\ rank[h] <= b
      BY <1>1 DEF SizeLists
    <3> QED BY <3>1
  <2> QED BY <2>1
<1>3. PICK least \in T : \A x \in T : least <= x
  <2>1. PICK h \in S : TRUE
    OBVIOUS
  <2>2. b - rank[h] \in T
    OBVIOUS
  <2> HIDE DEF T
  <2> QED BY <1>2, <2>2, LeastElement
<1>4. PICK h \in S : least = b - rank[h]
  OBVIOUS
<1>5. h \in Words /\ home[h] = n /\ n # null /\ h \notin N
  BY DEF SizeLists
<1>6. PICK g \in Words : home[g] # null /\ m.node[g].next = h
  BY <1>5 DEF SizeLists, Linked
<1>7. home[g] = n /\ rank[h] < rank[g] /\ rank[h] \in Nat /\ rank[g] \in Nat
  BY <1>5, <1>6 DEF SizeLists, Linked
<1>8. g \notin S
  <2> SUFFICES ASSUME g \in S PROVE FALSE
    OBVIOUS
  <2>1. least <= b - rank[g]
    BY <1>3
  <2> HIDE DEF T
  <2> QED BY <1>4, <1>7, <2>1
<1> QED BY <1>6, <1>7, <1>8

ListLinks(m) == [q \in Words |-> {m.node[q].next} \ {null}]

(* A node's list is what waits behind it.                                  *)
LEMMA ListReached ==
    ASSUME NEW m \in Arena!Manager, NEW N \in SUBSET Words, NEW home, NEW rank,
           SizeLists(m, N, home, rank), NEW n \in N
    PROVE  Arena!list_of(m, n) = {h \in Words : home[h] = n}
<1> DEFINE C == {h \in Words : home[h] = n}
           R == Arena!reached(ListLinks(m), n)
<1>1. Arena!list_of(m, n) = R
  BY DEF Arena!list_of, ListLinks
<1>2. ListLinks(m) \in [Words -> SUBSET Words] /\ n # null /\ n \in WordPointers
  BY ManagerFields DEF ListLinks, WordPointers
<1>3. Closed(ListLinks(m), n, C)
  <2>1. n \in C
    BY DEF SizeLists
  <2>2. ASSUME NEW q \in C, NEW c \in ListLinks(m)[q] PROVE c \in C
    <3>1. q \in Words /\ home[q] = n /\ c = m.node[q].next /\ c # null
      BY DEF ListLinks
    <3> QED BY <1>2, <3>1 DEF SizeLists, Linked
  <2> QED BY <2>1, <2>2 DEF Closed
<1>4. R \in SUBSET Words /\ Closed(ListLinks(m), n, R) /\ R \subseteq C
  BY <1>2, <1>3, ReachedLeast
<1> HIDE DEF R
<1>5. C \subseteq R
  <2> DEFINE S == C \ R
  <2> SUFFICES ASSUME S # {} PROVE FALSE
    OBVIOUS
  <2>1. n \notin S /\ S \in SUBSET C
    BY <1>2, <1>4 DEF Closed
  <2> HIDE DEF S
  <2>2. PICK h \in S, g \in Words \ S : home[g] = n /\ m.node[g].next = h
    BY <2>1, FirstOutside, ManagerFields
  <2>3. g \in R /\ h # null /\ h \notin R
    BY <2>1, <2>2, ManagerFields DEF S
  <2>4. h \in ListLinks(m)[g]
    BY <2>2, <2>3 DEF ListLinks
  <2> QED BY <1>4, <2>3, <2>4 DEF Closed
<1> QED BY <1>1, <1>4, <1>5

(* A node without a next one is alone.                                     *)
LEMMA LoneHead ==
    ASSUME NEW m \in Arena!Manager, NEW N \in SUBSET Words, NEW home, NEW rank,
           SizeLists(m, N, home, rank), NEW n \in N, m.node[n].next = null,
           NEW h \in Words, home[h] = n
    PROVE  h = n
<1> DEFINE S == {x \in Words : home[x] = n} \ {n}
<1> SUFFICES ASSUME h \in S PROVE FALSE
  OBVIOUS
<1>1. n \notin S /\ S # {} /\ S \in SUBSET {x \in Words : home[x] = n}
  OBVIOUS
<1> HIDE DEF S
<1>2. PICK x \in S, g \in Words \ S : home[g] = n /\ m.node[g].next = x
  BY <1>1, FirstOutside, ManagerFields
<1>3. g = n /\ x # null
  BY <1>1, <1>2, ManagerFields DEF S
<1> QED BY <1>2, <1>3

(* The blocks of the tree and those of the stacks.                         *)
TreeBlocks(m, home) ==
    {[p |-> h, words |-> Size(m, h)] : h \in {x \in Words : home[x] # null}}
BinBlocks(m) ==
    UNION {{[p |-> m.bin[n][i], words |-> n] : i \in DOMAIN m.bin[n]} : n \in Arena!BinSizes}

(* They are what the manager holds.                                        *)
LEMMA ManagedBlocks ==
    ASSUME NEW m, NEW N, NEW lo, NEW hi, Tree(m, N, lo, hi),
           NEW home, NEW rank, SizeLists(m, N, home, rank)
    PROVE  Arena!managed_blocks(m) = TreeBlocks(m, home) \cup BinBlocks(m)
<1>1. m \in Arena!Manager /\ N \in SUBSET Words /\ null \notin Words
  BY ManagerFields DEF Tree
<1>2. Arena!tree_nodes(m) = N
  BY TreeNodes
<1>3. UNION {Arena!list_of(m, n) : n \in N} = {x \in Words : home[x] # null}
  <2>1. \A n \in N : Arena!list_of(m, n) = {h \in Words : home[h] = n}
    BY <1>1, ListReached
  <2>2. \A x \in Words : home[x] # null => home[x] \in N
    BY DEF SizeLists, Linked
  <2> QED BY <1>1, <2>1, <2>2
<1> QED
  BY <1>2, <1>3 DEF Arena!managed_blocks, TreeBlocks, BinBlocks, Size

(* What no change of the shape of the tree touches.                        *)
SameRest(m2, m) ==
    /\ m2.bin = m.bin /\ m2.small = m.small /\ m2.tree = m.tree
    /\ \A q \in Words : Size(m2, q) = Size(m, q) /\ m2.node[q].next = m.node[q].next

(* What setting a pointer changes.                                         *)
LEMMA SetParent ==
    ASSUME NEW m \in Arena!Manager, NEW c \in Words, NEW up \in WordPointers,
           NEW m2, m2 = [m EXCEPT !.node[c].parent = up]
    PROVE  /\ m2 \in Arena!Manager /\ m2.root = m.root /\ SameRest(m2, m)
           /\ \A q \in Words : /\ m2.node[q].left = m.node[q].left
                               /\ m2.node[q].right = m.node[q].right
                               /\ m2.node[q].parent = IF q = c THEN up ELSE m.node[q].parent
<1>1. null \notin Words /\ up \in Arena!Pointers
  BY ManagerFields DEF WordPointers, Arena!Pointers
<1> QED BY <1>1 DEF Arena!Manager, SameRest, Size

LEMMA SetLeftChild ==
    ASSUME NEW m \in Arena!Manager, NEW up \in Words, NEW c \in WordPointers,
           NEW m2, m2 = Arena!set_left_child(m, up, c)
    PROVE  /\ m2 \in Arena!Manager /\ m2.root = m.root /\ SameRest(m2, m)
           /\ \A q \in Words :
                /\ m2.node[q].left = IF q = up THEN c ELSE m.node[q].left
                /\ m2.node[q].right = m.node[q].right
                /\ m2.node[q].parent = IF q = c THEN up ELSE m.node[q].parent
<1> DEFINE l == [m EXCEPT !.node[up].left = c]
<1>1. null \notin Words /\ c \in Arena!Pointers /\ up \in Arena!Pointers
  BY ManagerFields DEF WordPointers, Arena!Pointers
<1>2. /\ l \in Arena!Manager /\ l.root = m.root /\ SameRest(l, m)
      /\ \A q \in Words : /\ l.node[q].left = IF q = up THEN c ELSE m.node[q].left
                          /\ l.node[q].right = m.node[q].right
                          /\ l.node[q].parent = m.node[q].parent
  BY <1>1 DEF Arena!Manager, SameRest, Size
<1>3. m2 = IF c = null THEN l ELSE [l EXCEPT !.node[c].parent = up]
  BY DEF Arena!set_left_child
<1> HIDE DEF l
<1>4. CASE c = null
  BY <1>1, <1>2, <1>3, <1>4
<1>5. CASE c # null
  <2> DEFINE k == [l EXCEPT !.node[c].parent = up]
  <2>1. /\ k \in Arena!Manager /\ k.root = l.root /\ SameRest(k, l)
        /\ \A q \in Words : /\ k.node[q].left = l.node[q].left
                            /\ k.node[q].right = l.node[q].right
                            /\ k.node[q].parent = IF q = c THEN up ELSE l.node[q].parent
    BY <1>1, <1>2, <1>5, SetParent DEF WordPointers
  <2>2. m2 = k
    BY <1>3, <1>5
  <2> HIDE DEF k
  <2> QED BY <1>2, <2>1, <2>2 DEF SameRest
<1> QED BY <1>4, <1>5

LEMMA SetRightChild ==
    ASSUME NEW m \in Arena!Manager, NEW up \in Words, NEW c \in WordPointers,
           NEW m2, m2 = Arena!set_right_child(m, up, c)
    PROVE  /\ m2 \in Arena!Manager /\ m2.root = m.root /\ SameRest(m2, m)
           /\ \A q \in Words :
                /\ m2.node[q].left = m.node[q].left
                /\ m2.node[q].right = IF q = up THEN c ELSE m.node[q].right
                /\ m2.node[q].parent = IF q = c THEN up ELSE m.node[q].parent
<1> DEFINE l == [m EXCEPT !.node[up].right = c]
<1>1. null \notin Words /\ c \in Arena!Pointers /\ up \in Arena!Pointers
  BY ManagerFields DEF WordPointers, Arena!Pointers
<1>2. /\ l \in Arena!Manager /\ l.root = m.root /\ SameRest(l, m)
      /\ \A q \in Words : /\ l.node[q].left = m.node[q].left
                          /\ l.node[q].right = IF q = up THEN c ELSE m.node[q].right
                          /\ l.node[q].parent = m.node[q].parent
  BY <1>1 DEF Arena!Manager, SameRest, Size
<1>3. m2 = IF c = null THEN l ELSE [l EXCEPT !.node[c].parent = up]
  BY DEF Arena!set_right_child
<1> HIDE DEF l
<1>4. CASE c = null
  BY <1>1, <1>2, <1>3, <1>4
<1>5. CASE c # null
  <2> DEFINE k == [l EXCEPT !.node[c].parent = up]
  <2>1. /\ k \in Arena!Manager /\ k.root = l.root /\ SameRest(k, l)
        /\ \A q \in Words : /\ k.node[q].left = l.node[q].left
                            /\ k.node[q].right = l.node[q].right
                            /\ k.node[q].parent = IF q = c THEN up ELSE l.node[q].parent
    BY <1>1, <1>2, <1>5, SetParent DEF WordPointers
  <2>2. m2 = k
    BY <1>3, <1>5
  <2> HIDE DEF k
  <2> QED BY <1>2, <2>1, <2>2 DEF SameRest
<1> QED BY <1>4, <1>5

(* Where a size is put in.                                                 *)
InsertionPoint(m, words) ==
    Arena!Loop([at \in Words |->
                  IF words = m.node[at].bytes \/ Arena!child(m.node[at], words) = null
                  THEN at ELSE Arena!child(m.node[at], words)], m.root)

LEMMA PointFound ==
    ASSUME NEW m, NEW N, NEW lo, NEW hi, Tree(m, N, lo, hi), m.root # null,
           NEW words \in 1..Cardinality(Words), NEW a, a = InsertionPoint(m, words)
    PROVE  /\ a \in N /\ lo[a] < words /\ words < hi[a]
           /\ words > Size(m, a) => m.node[a].right = null
           /\ words < Size(m, a) => m.node[a].left = null
<1> DEFINE f == [at \in Words |->
                  IF words = m.node[at].bytes \/ Arena!child(m.node[at], words) = null
                  THEN at ELSE Arena!child(m.node[at], words)]
           S == {q \in N : lo[q] < words /\ words < hi[q]}
           r == [q \in S |-> hi[q] - lo[q] - 1]
<1>1. Cardinality(Words) \in Nat /\ words \in Int /\ Bound = Cardinality(Words) + 1
  BY WordsFinite DEF Bound
<1>2. m.root \in S /\ r[m.root] <= Cardinality(Words)
  <2>1. m.root \in N /\ lo[m.root] = 0 /\ hi[m.root] = Bound
    BY DEF Tree, Rooted
  <2> QED BY <1>1, <2>1
<1>3. ASSUME NEW q \in S
      PROVE  /\ q \in Words /\ r[q] \in Nat /\ f[q] \in S
             /\ \/ f[q] = q /\ (words = Size(m, q) \/ Arena!child(m.node[q], words) = null)
                \/ f[q] # q /\ r[f[q]] < r[q]
  <2>1. q \in N /\ q \in Words /\ lo[q] < words /\ words < hi[q] /\ NodeJoined(m, N, lo, hi, q)
    BY DEF Tree
  <2>2. lo[q] \in Int /\ hi[q] \in Int /\ Size(m, q) \in Int
    BY <2>1, TreeSides
  <2>3. lo[q] < Size(m, q) /\ Size(m, q) < hi[q]
    BY <2>1 DEF NodeJoined
  <2>4. r[q] \in Nat
    BY <2>2, <2>3
  <2>5. CASE words = Size(m, q) \/ Arena!child(m.node[q], words) = null
    <3>1. f[q] = q
      BY <2>1, <2>5 DEF Size
    <3> QED BY <2>1, <2>4, <2>5, <3>1
  <2>6. CASE ~(words = Size(m, q) \/ Arena!child(m.node[q], words) = null)
    <3> DEFINE c == f[q]
    <3>1. c = Arena!child(m.node[q], words) /\ c # null /\ words # Size(m, q)
      BY <2>1, <2>6 DEF Size
    <3>2. /\ c \in N
          /\ \/ words > Size(m, q) /\ lo[c] = Size(m, q) /\ hi[c] = hi[q]
             \/ words < Size(m, q) /\ lo[c] = lo[q] /\ hi[c] = Size(m, q)
      BY <1>1, <2>1, <2>2, <3>1 DEF NodeJoined, Arena!child, Size
    <3> HIDE DEF c, f
    <3>3. c \in S
      BY <2>1, <3>2
    <3>4. r[c] < r[q] /\ c # q
      <4>1. r[c] = hi[c] - lo[c] - 1 /\ r[q] = hi[q] - lo[q] - 1
        BY <3>3
      <4> HIDE DEF r, S
      <4> QED BY <2>2, <2>3, <3>2, <4>1
    <3> QED BY <2>1, <2>4, <3>3, <3>4 DEF c
  <2> QED BY <2>5, <2>6
<1> HIDE DEF f, S, r
<1>4. r \in [S -> Nat]
  <2>1. \A q \in S : r[q] \in Nat
    BY <1>3
  <2> QED BY <2>1 DEF r
<1>5. a = Arena!Loop(f, m.root)
  BY DEF InsertionPoint, f
<1>6. a \in S /\ f[a] = a
  <2>1. \A q \in S : f[q] \in S /\ (f[q] = q \/ r[f[q]] < r[q])
    BY <1>3
  <2> QED BY <1>2, <1>4, <1>5, <2>1, LoopEnds
<1>7. a \in N /\ lo[a] < words /\ words < hi[a]
  BY <1>6 DEF S
<1>8. words = Size(m, a) \/ Arena!child(m.node[a], words) = null
  BY <1>3, <1>6
<1>9. Size(m, a) \in Int
  BY <1>7, TreeSides
<1> QED BY <1>1, <1>7, <1>8, <1>9 DEF Arena!child, Size

(* A tree and its lists, whose blocks are B.                               *)
Forest(m, B) ==
    \E N, lo, hi, home, rank :
        Tree(m, N, lo, hi) /\ SizeLists(m, N, home, rank) /\ B = TreeBlocks(m, home)

(* A node as its constructor leaves it.                                    *)
Fresh(m, p) ==
    m.node[p].left = null /\ m.node[p].right = null /\ m.node[p].parent = null
    /\ m.node[p].next = null

(* A tree whose shape, sizes and root stay is the same tree.               *)
LEMMA TreeSame ==
    ASSUME NEW m, NEW N, NEW lo, NEW hi, Tree(m, N, lo, hi), NEW m2 \in Arena!Manager,
           m2.root = m.root,
           \A q \in N : /\ Size(m2, q) = Size(m, q) /\ m2.node[q].left = m.node[q].left
                        /\ m2.node[q].right = m.node[q].right /\ m2.node[q].parent = m.node[q].parent
    PROVE  Tree(m2, N, lo, hi)
<1>1. Rooted(m2, N, lo, hi)
  BY DEF Tree, Rooted
<1>2. ASSUME NEW n \in N PROVE NodeJoined(m2, N, lo, hi, n)
  <2>1. NodeJoined(m, N, lo, hi, n)
    BY DEF Tree
  <2> QED BY <2>1 DEF NodeJoined
<1>3. ASSUME NEW n \in N, NEW k \in N PROVE NodePlaced(m2, lo, hi, k, n)
  <2>1. NodePlaced(m, lo, hi, k, n)
    BY DEF Tree
  <2> QED BY <2>1 DEF NodePlaced, InLeft, InRight
<1> QED BY <1>1, <1>2, <1>3 DEF Tree

(* Lists whose sizes and pointers stay are the same lists.                 *)
LEMMA ListsSame ==
    ASSUME NEW m, NEW N, NEW home, NEW rank, SizeLists(m, N, home, rank), NEW m2,
           N \in SUBSET Words, null \notin Words,
           \A q \in Words : home[q] # null =>
              Size(m2, q) = Size(m, q) /\ m2.node[q].next = m.node[q].next
    PROVE  SizeLists(m2, N, home, rank)
<1>1. ASSUME NEW h \in Words, home[h] # null PROVE Linked(m2, N, home, rank, h)
  <2>1. Linked(m, N, home, rank, h) /\ home[home[h]] # null /\ home[h] \in Words
    BY <1>1 DEF SizeLists, Linked
  <2> QED BY <1>1, <2>1 DEF Linked
<1> QED BY <1>1 DEF SizeLists

LEMMA SetNext ==
    ASSUME NEW m \in Arena!Manager, NEW p \in Words, NEW next \in WordPointers,
           NEW m2, m2 = [m EXCEPT !.node[p].next = next]
    PROVE  /\ m2 \in Arena!Manager /\ m2.root = m.root
           /\ m2.bin = m.bin /\ m2.small = m.small /\ m2.tree = m.tree
           /\ \A q \in Words : /\ Size(m2, q) = Size(m, q)
                               /\ m2.node[q].left = m.node[q].left
                               /\ m2.node[q].right = m.node[q].right
                               /\ m2.node[q].parent = m.node[q].parent
                               /\ m2.node[q].next = IF q = p THEN next ELSE m.node[q].next
<1>1. next \in Arena!Pointers
  BY DEF WordPointers, Arena!Pointers
<1> QED BY <1>1 DEF Arena!Manager, Size

(* A block made a node, and the count.                                     *)
WithNode(m, p, words, tree) == [m EXCEPT !.node[p] = Arena!Node(words), !.tree = tree]

(* To make a node of a block leaves the tree and the lists.                *)
LEMMA Made ==
    ASSUME NEW m, NEW N, NEW lo, NEW hi, Tree(m, N, lo, hi),
           NEW home, NEW rank, SizeLists(m, N, home, rank),
           NEW p \in Words, home[p] = null, NEW words \in Nat, NEW tree \in Int,
           NEW m2, m2 = WithNode(m, p, words, tree)
    PROVE  /\ Tree(m2, N, lo, hi) /\ SizeLists(m2, N, home, rank)
           /\ m2.bin = m.bin /\ m2.small = m.small /\ m2.root = m.root
           /\ m2.tree = tree
           /\ Size(m2, p) = words /\ Fresh(m2, p) /\ TreeBlocks(m2, home) = TreeBlocks(m, home)
<1>1. m \in Arena!Manager /\ N \in SUBSET Words /\ null \notin Words
  BY ManagerFields DEF Tree
<1>2. /\ m2 \in Arena!Manager /\ m2.bin = m.bin /\ m2.small = m.small /\ m2.root = m.root
      /\ m2.tree = tree
  <2> DEFINE T == [bytes : Nat, left : Arena!Pointers, right : Arena!Pointers,
                   parent : Arena!Pointers, next : Arena!Pointers]
             node2 == [m.node EXCEPT ![p] = Arena!Node(words)]
  <2>1. Arena!Node(words) \in T
    BY <1>1 DEF Arena!Node, Arena!Pointers
  <2>2. m.node \in [Words -> T] /\ node2 \in [Words -> T]
    BY <1>1, <2>1 DEF Arena!Manager
  <2>3. m2 = [bin |-> m.bin, small |-> m.small, root |-> m.root, tree |-> tree,
              node |-> node2]
    BY <1>1 DEF Arena!Manager, WithNode
  <2> HIDE DEF node2
  <2> QED BY <1>1, <2>2, <2>3 DEF Arena!Manager
<1>3. Size(m2, p) = words /\ Fresh(m2, p) /\ \A q \in Words \ {p} : m2.node[q] = m.node[q]
  BY <1>1 DEF Arena!Manager, Arena!Node, Size, Fresh, WithNode
<1>4. p \notin N
  BY <1>1 DEF SizeLists
<1>5. \A q \in Words \ {p} : Size(m2, q) = Size(m, q)
  BY <1>3 DEF Size
<1>6. Tree(m2, N, lo, hi)
  BY <1>1, <1>2, <1>3, <1>4, <1>5, TreeSame
<1>7. SizeLists(m2, N, home, rank)
  BY <1>1, <1>3, <1>5, ListsSame
<1>8. TreeBlocks(m2, home) = TreeBlocks(m, home)
  BY <1>5 DEF TreeBlocks
<1> QED BY <1>2, <1>3, <1>6, <1>7, <1>8

(* A fresh node put behind the node of its size.                           *)
LEMMA InsertedInList ==
    ASSUME NEW m, NEW N, NEW lo, NEW hi, Tree(m, N, lo, hi),
           NEW home, NEW rank, SizeLists(m, N, home, rank),
           NEW p \in Words, home[p] = null, Fresh(m, p),
           NEW a \in N, Size(m, p) = Size(m, a),
           NEW m2, m2 = Arena!add_to_list(m, p, a)
    PROVE  /\ Forest(m2, TreeBlocks(m, home) \cup {[p |-> p, words |-> Size(m, p)]})
           /\ m2.bin = m.bin /\ m2.small = m.small /\ m2.tree = m.tree
<1> DEFINE home2 == [home EXCEPT ![p] = a]
           rank2 == [rank EXCEPT ![p] = rank[a], ![a] = rank[a] + 1]
<1>1. /\ m \in Arena!Manager /\ N \in SUBSET Words /\ null \notin Words /\ a \in Words
      /\ p \notin N /\ p # a /\ home[a] = a
      /\ home \in [Words -> WordPointers] /\ rank \in [Words -> Nat]
  BY ManagerFields DEF Tree, SizeLists
<1>2. /\ m2 \in Arena!Manager /\ m2.root = m.root
      /\ m2.bin = m.bin /\ m2.small = m.small /\ m2.tree = m.tree
      /\ \A q \in Words : /\ Size(m2, q) = Size(m, q)
                          /\ m2.node[q].left = m.node[q].left
                          /\ m2.node[q].right = m.node[q].right
                          /\ m2.node[q].parent = m.node[q].parent
                          /\ m2.node[q].next = IF q = a THEN p
                                               ELSE IF q = p THEN m.node[a].next
                                               ELSE m.node[q].next
  <2> DEFINE k == [m EXCEPT !.node[p].next = m.node[a].next]
  <2>1. m2 = [k EXCEPT !.node[a].next = p]
    BY DEF Arena!add_to_list
  <2>2. m.node[a].next \in WordPointers /\ p \in WordPointers
    BY <1>1, ManagerFields DEF WordPointers
  <2>3. /\ k \in Arena!Manager /\ k.root = m.root
        /\ k.bin = m.bin /\ k.small = m.small /\ k.tree = m.tree
        /\ \A q \in Words : /\ Size(k, q) = Size(m, q)
                            /\ k.node[q].left = m.node[q].left
                            /\ k.node[q].right = m.node[q].right
                            /\ k.node[q].parent = m.node[q].parent
                            /\ k.node[q].next = IF q = p THEN m.node[a].next ELSE m.node[q].next
    BY <1>1, <2>2, SetNext
  <2> HIDE DEF k
  <2> DEFINE k2 == [k EXCEPT !.node[a].next = p]
  <2>4. /\ k2 \in Arena!Manager /\ k2.root = k.root
        /\ k2.bin = k.bin /\ k2.small = k.small /\ k2.tree = k.tree
        /\ \A q \in Words : /\ Size(k2, q) = Size(k, q)
                            /\ k2.node[q].left = k.node[q].left
                            /\ k2.node[q].right = k.node[q].right
                            /\ k2.node[q].parent = k.node[q].parent
                            /\ k2.node[q].next = IF q = a THEN p ELSE k.node[q].next
    <3>1. k \in Arena!Manager /\ a \in Words /\ p \in WordPointers
      BY <1>1, <2>2, <2>3
    <3>2. a \in Arena!Pointers /\ p \in Arena!Pointers
      BY <1>1 DEF Arena!Pointers
    <3> QED BY <3>1, <3>2 DEF Arena!Manager, Size
  <2>5. m2 = k2
    BY <2>1
  <2> HIDE DEF k2
  <2> QED BY <1>1, <2>3, <2>4, <2>5
<1>3. Tree(m2, N, lo, hi)
  BY <1>1, <1>2, TreeSame
<1>4. /\ home2 \in [Words -> WordPointers] /\ rank2 \in [Words -> Nat]
      /\ \A q \in Words : home2[q] = IF q = p THEN a ELSE home[q]
      /\ \A q \in Words : rank2[q] = IF q = a THEN rank[a] + 1 ELSE IF q = p THEN rank[a]
                                     ELSE rank[q]
  BY <1>1 DEF WordPointers
<1> HIDE DEF home2, rank2
<1>5. ASSUME NEW h \in Words, home2[h] # null PROVE Linked(m2, N, home2, rank2, h)
  <2>1. CASE h = a
    BY <1>1, <1>2, <1>4, <2>1 DEF Linked
  <2>2. Linked(m, N, home, rank, a) /\ rank[a] \in Nat
    BY <1>1 DEF SizeLists
  <2>3. CASE h = p
    <3> DEFINE next == m.node[a].next
    <3>1. next # null => next \in Words /\ next \notin N /\ home[next] = a /\ rank[next] < rank[a]
                         /\ next # p /\ next # a
      BY <1>1, <2>2 DEF Linked
    <3>2. home2[p] = a /\ Size(m2, p) = Size(m2, a) /\ m2.node[p].next = next /\ m2.node[a].next = p
          /\ home2[a] # null /\ rank2[p] = rank[a]
      BY <1>1, <1>2, <1>4
    <3>3. next # null => home2[next] = a /\ rank2[next] = rank[next]
      BY <1>4, <3>1
    <3> QED BY <1>1, <2>3, <3>1, <3>2, <3>3 DEF Linked
  <2>4. CASE h # a /\ h # p
    <3> DEFINE next == m.node[h].next
    <3>1. home[h] # null /\ home2[h] = home[h] /\ Linked(m, N, home, rank, h) /\ m2.node[h].next = next
          /\ rank2[h] = rank[h]
      BY <1>2, <1>4, <1>5, <2>4 DEF SizeLists
    <3>2. home[h] \in N /\ home[h] \in Words /\ Size(m2, h) = Size(m2, home[h])
      BY <1>1, <1>2, <3>1 DEF Linked
    <3>3. next # null => next \in Words /\ next \notin N /\ home[next] = home[h] /\ rank[next] < rank[h]
                         /\ next # p /\ next # a
      BY <1>1, <3>1, <3>2 DEF Linked
    <3>4. next # null => home2[next] = home[next] /\ rank2[next] = rank[next]
      BY <1>4, <3>3
    <3>5. ASSUME h \notin N PROVE \E g \in Words : home2[g] # null /\ m2.node[g].next = h
      <4>1. PICK g \in Words : home[g] # null /\ m.node[g].next = h
        BY <3>1, <3>5 DEF Linked
      <4>2. CASE g = a
        <5>1. home2[p] # null /\ m2.node[p].next = h
          BY <1>1, <1>2, <1>4, <4>1, <4>2
        <5> QED BY <5>1
      <4>3. CASE g # a
        <5>1. g # p
          BY <4>1
        <5> QED BY <1>2, <1>4, <4>1, <4>3, <5>1
      <4> QED BY <4>2, <4>3
    <3> QED BY <3>1, <3>2, <3>3, <3>4, <3>5 DEF Linked
  <2> QED BY <2>1, <2>3, <2>4
<1>6. ASSUME NEW g \in Words, NEW h \in Words, home2[g] # null, home2[h] # null,
             m2.node[g].next = m2.node[h].next, m2.node[h].next # null
      PROVE  g = h
  <2>1. \A x, y \in Words : home[x] # null /\ home[y] # null /\ m.node[x].next = m.node[y].next
                              /\ m.node[y].next # null => x = y
    BY DEF SizeLists
  <2>2. \A x \in Words : home[x] # null => m.node[x].next # p
    <3> SUFFICES ASSUME NEW x \in Words, home[x] # null, m.node[x].next = p PROVE FALSE
      OBVIOUS
    <3>1. Linked(m, N, home, rank, x)
      BY DEF SizeLists
    <3> QED BY <1>1, <3>1 DEF Linked
  <2>3. \A x \in Words \ {p} : home2[x] = home[x]
    BY <1>4
  <2> QED BY <1>1, <1>2, <1>6, <2>1, <2>2, <2>3
<1>7. SizeLists(m2, N, home2, rank2)
  BY <1>1, <1>4, <1>5, <1>6 DEF SizeLists
<1>8. TreeBlocks(m2, home2) = TreeBlocks(m, home) \cup {[p |-> p, words |-> Size(m, p)]}
  <2>1. a # null /\ p \in Words /\ \A q \in Words : Size(m2, q) = Size(m, q)
    BY <1>1, <1>2
  <2>2. home2[p] # null /\ \A q \in Words \ {p} : home2[q] = home[q]
    BY <1>1, <1>4
  <2>3. {x \in Words : home2[x] # null} = {x \in Words : home[x] # null} \cup {p}
    BY <2>1, <2>2
  <2> QED BY <2>1, <2>3 DEF TreeBlocks
<1> QED BY <1>2, <1>3, <1>7, <1>8 DEF Forest

(* A fresh node that becomes a node of the tree has a list of its own.     *)
LEMMA NewList ==
    ASSUME NEW m, NEW N \in SUBSET Words, NEW home, NEW rank, SizeLists(m, N, home, rank),
           NEW p \in Words, home[p] = null, m.node[p].next = null, null \notin Words,
           NEW m2,
           \A q \in Words : Size(m2, q) = Size(m, q) /\ m2.node[q].next = m.node[q].next
    PROVE  SizeLists(m2, N \cup {p}, [home EXCEPT ![p] = p], rank)
<1> DEFINE home2 == [home EXCEPT ![p] = p]
           N2 == N \cup {p}
<1>1. /\ home \in [Words -> WordPointers] /\ rank \in [Words -> Nat] /\ p \notin N
      /\ home2 \in [Words -> WordPointers]
      /\ \A q \in Words : home2[q] = IF q = p THEN p ELSE home[q]
  BY DEF SizeLists, WordPointers
<1> HIDE DEF home2
<1>2. \A n \in N2 : home2[n] = n
  BY <1>1 DEF SizeLists
<1>3. ASSUME NEW h \in Words, home2[h] # null PROVE Linked(m2, N2, home2, rank, h)
  <2>1. CASE h = p
    BY <1>1, <2>1 DEF Linked
  <2>2. CASE h # p
    <3>1. home[h] # null /\ home2[h] = home[h] /\ Linked(m, N, home, rank, h)
      BY <1>1, <1>3, <2>2 DEF SizeLists
    <3> DEFINE next == m.node[h].next
    <3>2. home[h] \in N /\ home[h] \in Words /\ Size(m2, h) = Size(m2, home[h]) /\ m2.node[h].next = next
      BY <3>1 DEF Linked
    <3>3. next # null => next \in Words /\ next \notin N2 /\ home2[next] = home2[h] /\ rank[next] < rank[h]
      BY <1>1, <3>1, <3>2 DEF Linked
    <3>4. ASSUME h \notin N2 PROVE \E g \in Words : home2[g] # null /\ m2.node[g].next = h
      <4>1. PICK g \in Words : home[g] # null /\ m.node[g].next = h
        BY <3>1, <3>4 DEF Linked
      <4> QED BY <1>1, <4>1
    <3> QED BY <3>1, <3>2, <3>3, <3>4 DEF Linked
  <2> QED BY <2>1, <2>2
<1>4. ASSUME NEW g \in Words, NEW h \in Words, home2[g] # null, home2[h] # null,
             m2.node[g].next = m2.node[h].next, m2.node[h].next # null
      PROVE  g = h
  <2>1. g # p /\ h # p
    BY <1>4
  <2> QED BY <1>1, <1>4, <2>1 DEF SizeLists
<1> QED BY <1>1, <1>2, <1>3, <1>4 DEF SizeLists, home2

(* A fresh node hung to the left of a.                                     *)
LEMMA InsertedLeft ==
    ASSUME NEW m, NEW N, NEW lo, NEW hi, Tree(m, N, lo, hi),
           NEW p \in Words, p \notin N, Fresh(m, p),
           NEW a \in N, m.node[a].left = null, lo[a] < Size(m, p), Size(m, p) < Size(m, a),
           NEW m2, m2 = Arena!set_left_child(m, a, p)
    PROVE  /\ Tree(m2, N \cup {p}, [lo EXCEPT ![p] = lo[a]], [hi EXCEPT ![p] = Size(m, a)])
           /\ SameRest(m2, m)
<1> DEFINE N2 == N \cup {p}
           lo2 == [lo EXCEPT ![p] = lo[a]]
           hi2 == [hi EXCEPT ![p] = Size(m, a)]
<1>1. /\ m \in Arena!Manager /\ N \in SUBSET Words /\ N2 \in SUBSET Words /\ a \in Words /\ null \notin Words
      /\ lo \in [Words -> Int] /\ hi \in [Words -> Int] /\ p # a /\ p \in WordPointers
      /\ lo[a] \in Int /\ hi[a] \in Int /\ Size(m, a) \in Int /\ Size(m, p) \in Int /\ Bound \in Int
  BY TreeSides, ManagerFields DEF Tree, WordPointers
<1>2. /\ m2 \in Arena!Manager /\ m2.root = m.root /\ SameRest(m2, m)
      /\ \A q \in Words :
           /\ m2.node[q].left = IF q = a THEN p ELSE m.node[q].left
           /\ m2.node[q].right = m.node[q].right
           /\ m2.node[q].parent = IF q = p THEN a ELSE m.node[q].parent
           /\ Size(m2, q) = Size(m, q)
  BY <1>1, SetLeftChild DEF SameRest
<1>3. /\ lo2 \in [Words -> Int] /\ hi2 \in [Words -> Int]
      /\ lo2[p] = lo[a] /\ hi2[p] = Size(m, a)
      /\ \A q \in N : q \in Words /\ q # p /\ lo2[q] = lo[q] /\ hi2[q] = hi[q]
  BY <1>1
<1> HIDE DEF lo2, hi2
<1>4. 0 <= lo[a] /\ lo[a] < Size(m, a) /\ Size(m, a) < hi[a] /\ hi[a] <= Bound
  BY DEF Tree, NodeJoined
<1>5. Rooted(m2, N2, lo2, hi2)
  <2>1. Rooted(m, N, lo, hi)
    BY DEF Tree
  <2> QED BY <1>1, <1>2, <1>3, <2>1 DEF Rooted
<1>6. ASSUME NEW n \in N2 PROVE NodeJoined(m2, N2, lo2, hi2, n)
  <2>1. CASE n = p
    <3>1. m2.node[p].left = null /\ m2.node[p].right = null /\ m2.node[p].parent = a
          /\ m2.node[a].left = p /\ Size(m2, p) = Size(m, p)
      BY <1>1, <1>2 DEF Fresh
    <3>2. 0 <= lo2[p] /\ lo2[p] < Size(m2, p) /\ Size(m2, p) < hi2[p] /\ hi2[p] <= Bound
      BY <1>1, <1>3, <1>4, <3>1
    <3> QED BY <2>1, <3>1, <3>2 DEF NodeJoined
  <2>2. CASE n # p
    <3>1. n \in N /\ n \in Words /\ NodeJoined(m, N, lo, hi, n) /\ Size(m2, n) = Size(m, n)
          /\ lo2[n] = lo[n] /\ hi2[n] = hi[n] /\ m2.node[n].right = m.node[n].right
          /\ m2.node[n].parent = m.node[n].parent
      BY <1>2, <1>3, <2>2 DEF Tree
    <3>2. \A c \in N : m2.node[c].parent = m.node[c].parent /\ lo2[c] = lo[c] /\ hi2[c] = hi[c]
      BY <1>2, <1>3
    <3>3. m2.node[n].left = IF n = a THEN p ELSE m.node[n].left
      BY <1>2, <3>1
    <3>4. n = a => /\ m2.node[p].parent = n /\ lo2[p] = lo2[n] /\ hi2[p] = Size(m2, n)
      BY <1>1, <1>2, <1>3, <3>1
    <3>5. ASSUME n # m2.root
          PROVE  /\ m2.node[n].parent \in N2
                 /\ \/ m2.node[m2.node[n].parent].left = n
                    \/ m2.node[m2.node[n].parent].right = n
      <4> DEFINE up == m.node[n].parent
      <4>1. up \in N /\ up \in Words /\ (m.node[up].left = n \/ m.node[up].right = n)
        BY <1>1, <1>2, <3>1, <3>5 DEF NodeJoined
      <4>2. m2.node[up].right = m.node[up].right /\ (up # a => m2.node[up].left = m.node[up].left)
        BY <1>2, <4>1
      <4>3. n # null
        BY <1>1, <3>1
      <4> QED BY <3>1, <4>1, <4>2, <4>3
    <3>6. 0 <= lo2[n] /\ lo2[n] < Size(m2, n) /\ Size(m2, n) < hi2[n] /\ hi2[n] <= Bound
      BY <3>1 DEF NodeJoined
    <3>7. LET left == m2.node[n].left
          IN  left # null => /\ left \in N2 /\ m2.node[left].parent = n
                             /\ lo2[left] = lo2[n] /\ hi2[left] = Size(m2, n)
      BY <3>1, <3>2, <3>3, <3>4 DEF NodeJoined
    <3>8. LET right == m2.node[n].right
          IN  right # null => /\ right \in N2 /\ m2.node[right].parent = n
                              /\ lo2[right] = Size(m2, n) /\ hi2[right] = hi2[n]
      BY <3>1, <3>2 DEF NodeJoined
    <3> HIDE DEF N2
    <3> QED BY <3>5, <3>6, <3>7, <3>8 DEF NodeJoined
  <2> QED BY <2>1, <2>2
<1>7. ASSUME NEW n \in N PROVE NodePlaced(m2, lo2, hi2, p, n)
  <2>1. /\ n \in Words /\ Size(m, n) \in Int /\ lo[n] \in Int /\ hi[n] \in Int
        /\ lo[n] < Size(m, n) /\ Size(m, n) < hi[n] /\ NodePlaced(m, lo, hi, a, n)
    BY TreeSides DEF Tree, NodeJoined
  <2>2. Size(m2, n) = Size(m, n) /\ Size(m2, p) = Size(m, p) /\ lo2[n] = lo[n] /\ hi2[n] = hi[n]
        /\ m2.node[n].right = m.node[n].right
        /\ m2.node[n].left = IF n = a THEN p ELSE m.node[n].left
    BY <1>2, <1>3, <2>1
  <2> QED BY <1>1, <1>3, <1>4, <2>1, <2>2 DEF NodePlaced, InLeft, InRight
<1>8. ASSUME NEW n \in N, NEW k \in N PROVE NodePlaced(m2, lo2, hi2, k, n)
  <2>1. NodePlaced(m, lo, hi, k, n) /\ n \in Words /\ k \in Words
    BY <1>1 DEF Tree
  <2>2. /\ lo2[n] = lo[n] /\ hi2[n] = hi[n] /\ lo2[k] = lo[k] /\ hi2[k] = hi[k]
        /\ Size(m2, n) = Size(m, n) /\ Size(m2, k) = Size(m, k)
        /\ m2.node[n].right = m.node[n].right /\ m2.node[k].right = m.node[k].right
        /\ m.node[n].left # null => m2.node[n].left # null
        /\ m.node[k].left # null => m2.node[k].left # null
    BY <1>1, <1>2, <1>3, <2>1
  <2> QED BY <2>1, <2>2 DEF NodePlaced, InLeft, InRight
<1>9. ASSUME NEW n \in N2, NEW k \in N2 PROVE NodePlaced(m2, lo2, hi2, k, n)
  <2>1. CASE n = p /\ k = p
    BY <2>1 DEF NodePlaced
  <2>2. CASE n # p /\ k # p
    BY <1>8, <2>2
  <2>3. CASE n # p /\ k = p
    BY <1>7, <2>3
  <2>4. CASE n = p /\ k # p
    <3>1. NodePlaced(m2, lo2, hi2, n, k)
      BY <1>7, <2>4
    <3> QED BY <3>1 DEF NodePlaced
  <2> QED BY <2>1, <2>2, <2>3, <2>4
<1>10. Tree(m2, N2, lo2, hi2)
  BY <1>1, <1>2, <1>3, <1>5, <1>6, <1>9 DEF Tree
<1> QED BY <1>2, <1>10 DEF lo2, hi2

(* A fresh node hung to the right of a.                                    *)
LEMMA InsertedRight ==
    ASSUME NEW m, NEW N, NEW lo, NEW hi, Tree(m, N, lo, hi),
           NEW p \in Words, p \notin N, Fresh(m, p),
           NEW a \in N, m.node[a].right = null, Size(m, a) < Size(m, p), Size(m, p) < hi[a],
           NEW m2, m2 = Arena!set_right_child(m, a, p)
    PROVE  /\ Tree(m2, N \cup {p}, [lo EXCEPT ![p] = Size(m, a)], [hi EXCEPT ![p] = hi[a]])
           /\ SameRest(m2, m)
<1> DEFINE N2 == N \cup {p}
           lo2 == [lo EXCEPT ![p] = Size(m, a)]
           hi2 == [hi EXCEPT ![p] = hi[a]]
<1>1. /\ m \in Arena!Manager /\ N \in SUBSET Words /\ N2 \in SUBSET Words /\ a \in Words /\ null \notin Words
      /\ lo \in [Words -> Int] /\ hi \in [Words -> Int] /\ p # a /\ p \in WordPointers
      /\ lo[a] \in Int /\ hi[a] \in Int /\ Size(m, a) \in Int /\ Size(m, p) \in Int /\ Bound \in Int
  BY TreeSides, ManagerFields DEF Tree, WordPointers
<1>2. /\ m2 \in Arena!Manager /\ m2.root = m.root /\ SameRest(m2, m)
      /\ \A q \in Words :
           /\ m2.node[q].left = m.node[q].left
           /\ m2.node[q].right = IF q = a THEN p ELSE m.node[q].right
           /\ m2.node[q].parent = IF q = p THEN a ELSE m.node[q].parent
           /\ Size(m2, q) = Size(m, q)
  BY <1>1, SetRightChild DEF SameRest
<1>3. /\ lo2 \in [Words -> Int] /\ hi2 \in [Words -> Int]
      /\ lo2[p] = Size(m, a) /\ hi2[p] = hi[a]
      /\ \A q \in N : q \in Words /\ q # p /\ lo2[q] = lo[q] /\ hi2[q] = hi[q]
  BY <1>1
<1> HIDE DEF lo2, hi2
<1>4. 0 <= lo[a] /\ lo[a] < Size(m, a) /\ Size(m, a) < hi[a] /\ hi[a] <= Bound
  BY DEF Tree, NodeJoined
<1>5. Rooted(m2, N2, lo2, hi2)
  <2>1. Rooted(m, N, lo, hi)
    BY DEF Tree
  <2> QED BY <1>1, <1>2, <1>3, <2>1 DEF Rooted
<1>6. ASSUME NEW n \in N2 PROVE NodeJoined(m2, N2, lo2, hi2, n)
  <2>1. CASE n = p
    <3>1. m2.node[p].left = null /\ m2.node[p].right = null /\ m2.node[p].parent = a
          /\ m2.node[a].right = p /\ Size(m2, p) = Size(m, p)
      BY <1>1, <1>2 DEF Fresh
    <3>2. 0 <= lo2[p] /\ lo2[p] < Size(m2, p) /\ Size(m2, p) < hi2[p] /\ hi2[p] <= Bound
      BY <1>1, <1>3, <1>4, <3>1
    <3> QED BY <2>1, <3>1, <3>2 DEF NodeJoined
  <2>2. CASE n # p
    <3>1. n \in N /\ n \in Words /\ NodeJoined(m, N, lo, hi, n) /\ Size(m2, n) = Size(m, n)
          /\ lo2[n] = lo[n] /\ hi2[n] = hi[n] /\ m2.node[n].left = m.node[n].left
          /\ m2.node[n].parent = m.node[n].parent
      BY <1>2, <1>3, <2>2 DEF Tree
    <3>2. \A c \in N : m2.node[c].parent = m.node[c].parent /\ lo2[c] = lo[c] /\ hi2[c] = hi[c]
      BY <1>2, <1>3
    <3>3. m2.node[n].right = IF n = a THEN p ELSE m.node[n].right
      BY <1>2, <3>1
    <3>4. n = a => /\ m2.node[p].parent = n /\ lo2[p] = Size(m2, n) /\ hi2[p] = hi2[n]
      BY <1>1, <1>2, <1>3, <3>1
    <3>5. ASSUME n # m2.root
          PROVE  /\ m2.node[n].parent \in N2
                 /\ \/ m2.node[m2.node[n].parent].left = n
                    \/ m2.node[m2.node[n].parent].right = n
      <4> DEFINE up == m.node[n].parent
      <4>1. up \in N /\ up \in Words /\ (m.node[up].left = n \/ m.node[up].right = n)
        BY <1>1, <1>2, <3>1, <3>5 DEF NodeJoined
      <4>2. m2.node[up].left = m.node[up].left /\ (up # a => m2.node[up].right = m.node[up].right)
        BY <1>2, <4>1
      <4>3. n # null
        BY <1>1, <3>1
      <4> QED BY <3>1, <4>1, <4>2, <4>3
    <3>6. 0 <= lo2[n] /\ lo2[n] < Size(m2, n) /\ Size(m2, n) < hi2[n] /\ hi2[n] <= Bound
      BY <3>1 DEF NodeJoined
    <3>7. LET left == m2.node[n].left
          IN  left # null => /\ left \in N2 /\ m2.node[left].parent = n
                             /\ lo2[left] = lo2[n] /\ hi2[left] = Size(m2, n)
      BY <3>1, <3>2 DEF NodeJoined
    <3>8. LET right == m2.node[n].right
          IN  right # null => /\ right \in N2 /\ m2.node[right].parent = n
                              /\ lo2[right] = Size(m2, n) /\ hi2[right] = hi2[n]
      BY <3>1, <3>2, <3>3, <3>4 DEF NodeJoined
    <3> HIDE DEF N2
    <3> QED BY <3>5, <3>6, <3>7, <3>8 DEF NodeJoined
  <2> QED BY <2>1, <2>2
<1>7. ASSUME NEW n \in N PROVE NodePlaced(m2, lo2, hi2, p, n)
  <2>1. /\ n \in Words /\ Size(m, n) \in Int /\ lo[n] \in Int /\ hi[n] \in Int
        /\ lo[n] < Size(m, n) /\ Size(m, n) < hi[n] /\ NodePlaced(m, lo, hi, a, n)
    BY TreeSides DEF Tree, NodeJoined
  <2>2. Size(m2, n) = Size(m, n) /\ Size(m2, p) = Size(m, p) /\ lo2[n] = lo[n] /\ hi2[n] = hi[n]
        /\ m2.node[n].left = m.node[n].left
        /\ m2.node[n].right = IF n = a THEN p ELSE m.node[n].right
    BY <1>2, <1>3, <2>1
  <2> QED BY <1>1, <1>3, <1>4, <2>1, <2>2 DEF NodePlaced, InLeft, InRight
<1>8. ASSUME NEW n \in N, NEW k \in N PROVE NodePlaced(m2, lo2, hi2, k, n)
  <2>1. NodePlaced(m, lo, hi, k, n) /\ n \in Words /\ k \in Words
    BY <1>1 DEF Tree
  <2>2. /\ lo2[n] = lo[n] /\ hi2[n] = hi[n] /\ lo2[k] = lo[k] /\ hi2[k] = hi[k]
        /\ Size(m2, n) = Size(m, n) /\ Size(m2, k) = Size(m, k)
        /\ m2.node[n].left = m.node[n].left /\ m2.node[k].left = m.node[k].left
        /\ m.node[n].right # null => m2.node[n].right # null
        /\ m.node[k].right # null => m2.node[k].right # null
    BY <1>1, <1>2, <1>3, <2>1
  <2> QED BY <2>1, <2>2 DEF NodePlaced, InLeft, InRight
<1>9. ASSUME NEW n \in N2, NEW k \in N2 PROVE NodePlaced(m2, lo2, hi2, k, n)
  <2>1. CASE n = p /\ k = p
    BY <2>1 DEF NodePlaced
  <2>2. CASE n # p /\ k # p
    BY <1>8, <2>2
  <2>3. CASE n # p /\ k = p
    BY <1>7, <2>3
  <2>4. CASE n = p /\ k # p
    <3>1. NodePlaced(m2, lo2, hi2, n, k)
      BY <1>7, <2>4
    <3> QED BY <3>1 DEF NodePlaced
  <2> QED BY <2>1, <2>2, <2>3, <2>4
<1>10. Tree(m2, N2, lo2, hi2)
  BY <1>1, <1>2, <1>3, <1>5, <1>6, <1>9 DEF Tree
<1> QED BY <1>2, <1>10 DEF lo2, hi2

(* The first node is the root.                                             *)
LEMMA FirstNode ==
    ASSUME NEW m, NEW N, NEW lo, NEW hi, Tree(m, N, lo, hi), m.root = null,
           NEW p \in Words, Fresh(m, p), 0 < Size(m, p), Size(m, p) < Bound,
           NEW m2, m2 = [m EXCEPT !.root = p]
    PROVE  /\ N = {} /\ Tree(m2, N \cup {p}, [lo EXCEPT ![p] = 0], [hi EXCEPT ![p] = Bound])
           /\ SameRest(m2, m)
<1>1. /\ m \in Arena!Manager /\ N = {} /\ null \notin Words /\ p # null
      /\ lo \in [Words -> Int] /\ hi \in [Words -> Int] /\ Bound \in Int /\ Size(m, p) \in Int
  BY ManagerFields DEF Tree, Rooted
<1>2. m2 \in Arena!Manager /\ m2.root = p /\ SameRest(m2, m)
      /\ \A q \in Words : m2.node[q] = m.node[q]
  <2>1. p \in Arena!Pointers
    BY DEF Arena!Pointers
  <2> QED BY <1>1, <2>1 DEF Arena!Manager, SameRest, Size
<1> DEFINE lo2 == [lo EXCEPT ![p] = 0]
           hi2 == [hi EXCEPT ![p] = Bound]
<1>3. lo2 \in [Words -> Int] /\ hi2 \in [Words -> Int] /\ lo2[p] = 0 /\ hi2[p] = Bound
  BY <1>1
<1> HIDE DEF lo2, hi2
<1>4. Size(m2, p) = Size(m, p) /\ Fresh(m2, p)
  BY <1>2 DEF Size, Fresh
<1>5. Rooted(m2, {p}, lo2, hi2)
  BY <1>1, <1>2, <1>3, <1>4 DEF Rooted, Fresh
<1>6. NodeJoined(m2, {p}, lo2, hi2, p)
  BY <1>1, <1>2, <1>3, <1>4 DEF NodeJoined, Fresh
<1>7. NodePlaced(m2, lo2, hi2, p, p)
  BY DEF NodePlaced
<1>8. Tree(m2, {p}, lo2, hi2)
  BY <1>2, <1>3, <1>5, <1>6, <1>7 DEF Tree
<1> QED BY <1>1, <1>2, <1>8 DEF lo2, hi2

(* A fresh node of the tree, and its block.                                *)
LEMMA NodeAdded ==
    ASSUME NEW m, NEW N \in SUBSET Words, NEW home, NEW rank, SizeLists(m, N, home, rank),
           NEW p \in Words, home[p] = null, Fresh(m, p), null \notin Words,
           NEW m2, SameRest(m2, m), NEW lo2, NEW hi2, Tree(m2, N \cup {p}, lo2, hi2)
    PROVE  Forest(m2, TreeBlocks(m, home) \cup {[p |-> p, words |-> Size(m, p)]})
<1> DEFINE home2 == [home EXCEPT ![p] = p]
<1>1. SizeLists(m2, N \cup {p}, home2, rank)
  BY NewList DEF SameRest, Fresh
<1>2. TreeBlocks(m2, home2) = TreeBlocks(m, home) \cup {[p |-> p, words |-> Size(m, p)]}
  <2>1. home \in [Words -> WordPointers] /\ p # null
    BY DEF SizeLists
  <2>2. {x \in Words : home2[x] # null} = {x \in Words : home[x] # null} \cup {p}
    BY <2>1
  <2> HIDE DEF home2
  <2> QED BY <2>2 DEF TreeBlocks, SameRest
<1> HIDE DEF home2
<1> QED BY <1>1, <1>2 DEF Forest

(* BlockTree::add_node adds the block, and counts it.                      *)
LEMMA AddMetaNode ==
    ASSUME NEW m, NEW N, NEW lo, NEW hi, Tree(m, N, lo, hi),
           NEW home, NEW rank, SizeLists(m, N, home, rank),
           NEW p \in Words, home[p] = null, NEW words \in 1..Cardinality(Words),
           NEW m2, m2 = Arena!add_meta_node(m, p, words)
    PROVE  /\ Forest(m2, TreeBlocks(m, home) \cup {[p |-> p, words |-> words]})
           /\ m2.bin = m.bin /\ m2.small = m.small /\ m2.tree = m.tree + words
<1> DEFINE made == WithNode(m, p, words, m.tree + words)
<1>1. /\ Tree(made, N, lo, hi) /\ SizeLists(made, N, home, rank)
      /\ made.bin = m.bin /\ made.small = m.small /\ made.root = m.root
      /\ made.tree = m.tree + words
      /\ Size(made, p) = words /\ Fresh(made, p) /\ TreeBlocks(made, home) = TreeBlocks(m, home)
  <2>1. words \in Nat /\ m.tree + words \in Int
    BY ManagerFields DEF Tree
  <2> QED BY <2>1, Made
<1>2. /\ N \in SUBSET Words /\ p \notin N /\ null \notin Words /\ words \in Int /\ 0 < words /\ words < Bound
      /\ p # null
  BY WordsFinite, ManagerFields DEF Tree, SizeLists, Bound
<1>3. m2 = IF m.root = null THEN [made EXCEPT !.root = p] ELSE Arena!insert(made, p)
  BY DEF Arena!add_meta_node, WithNode
<1> HIDE DEF made
<1>4. CASE m.root = null
  <2> DEFINE k == [made EXCEPT !.root = p]
  <2>1. m2 = k
    BY <1>3, <1>4
  <2>2. SameRest(k, made) /\ Tree(k, N \cup {p}, [lo EXCEPT ![p] = 0], [hi EXCEPT ![p] = Bound])
    BY <1>1, <1>2, <1>4, FirstNode
  <2> HIDE DEF k
  <2>3. Forest(m2, TreeBlocks(made, home) \cup {[p |-> p, words |-> Size(made, p)]})
    BY <1>1, <1>2, <2>1, <2>2, NodeAdded
  <2> QED BY <1>1, <2>1, <2>2, <2>3 DEF SameRest
<1>5. CASE m.root # null
  <2> DEFINE a == InsertionPoint(made, words)
  <2>1. m2 = IF words = made.node[a].bytes THEN Arena!add_to_list(made, p, a)
             ELSE IF words > made.node[a].bytes THEN Arena!set_right_child(made, a, p)
             ELSE Arena!set_left_child(made, a, p)
    BY <1>1, <1>3, <1>5 DEF Arena!insert, InsertionPoint, Size
  <2>2. /\ a \in N /\ lo[a] < words /\ words < hi[a]
        /\ words > Size(made, a) => made.node[a].right = null
        /\ words < Size(made, a) => made.node[a].left = null
    BY <1>1, <1>5, PointFound
  <2> HIDE DEF a
  <2>3. Size(made, a) \in Int /\ Size(made, a) = made.node[a].bytes
    BY <1>1, <2>2, TreeSides DEF Size
  <2>4. CASE words = Size(made, a)
    <3> DEFINE k == Arena!add_to_list(made, p, a)
    <3>1. m2 = k
      BY <2>1, <2>3, <2>4
    <3>2. /\ Forest(k, TreeBlocks(made, home) \cup {[p |-> p, words |-> Size(made, p)]})
          /\ k.bin = made.bin /\ k.small = made.small /\ k.tree = made.tree
      BY <1>1, <2>2, <2>4, InsertedInList
    <3> HIDE DEF k
    <3> QED BY <1>1, <3>1, <3>2
  <2>5. CASE words > Size(made, a)
    <3> DEFINE k == Arena!set_right_child(made, a, p)
    <3>1. m2 = k
      BY <1>2, <2>1, <2>3, <2>5
    <3>2. /\ Tree(k, N \cup {p}, [lo EXCEPT ![p] = Size(made, a)], [hi EXCEPT ![p] = hi[a]])
          /\ SameRest(k, made)
      BY <1>1, <1>2, <2>2, <2>5, InsertedRight
    <3> HIDE DEF k
    <3>3. Forest(k, TreeBlocks(made, home) \cup {[p |-> p, words |-> Size(made, p)]})
      BY <1>1, <1>2, <3>2, NodeAdded
    <3> QED BY <1>1, <3>1, <3>2, <3>3 DEF SameRest
  <2>6. CASE words < Size(made, a)
    <3> DEFINE k == Arena!set_left_child(made, a, p)
    <3>1. m2 = k
      BY <1>2, <2>1, <2>3, <2>6
    <3>2. /\ Tree(k, N \cup {p}, [lo EXCEPT ![p] = lo[a]], [hi EXCEPT ![p] = Size(made, a)])
          /\ SameRest(k, made)
      BY <1>1, <1>2, <2>2, <2>6, InsertedLeft
    <3> HIDE DEF k
    <3>3. Forest(k, TreeBlocks(made, home) \cup {[p |-> p, words |-> Size(made, p)]})
      BY <1>1, <1>2, <3>2, NodeAdded
    <3> QED BY <1>1, <3>1, <3>2, <3>3 DEF SameRest
  <2> QED BY <1>2, <2>3, <2>4, <2>5, <2>6
<1> QED BY <1>4, <1>5

(* The smallest node of a size or more.                                    *)
LEMMA ClosestFound ==
    ASSUME NEW m, NEW N, NEW lo, NEW hi, Tree(m, N, lo, hi), NEW words \in Nat \ {0},
           NEW b, b = Arena!find_closest_node(m, words)
    PROVE  \/ b = null /\ \A k \in N : Size(m, k) < words
           \/ /\ b \in N /\ Size(m, b) >= words
              /\ \A k \in N : Size(m, k) >= words => Size(m, b) <= Size(m, k)
<1> DEFINE f == [s \in [point : WordPointers, best : WordPointers] |->
                   IF s.point = null THEN s
                   ELSE IF m.node[s.point].bytes = words THEN [point |-> null, best |-> s.point]
                   ELSE IF m.node[s.point].bytes > words
                   THEN [point |-> m.node[s.point].left, best |-> s.point]
                   ELSE [point |-> m.node[s.point].right, best |-> s.best]]
           Found(best) ==
              \/ best = null /\ \A k \in N : Size(m, k) < words
              \/ /\ best \in N /\ Size(m, best) >= words
                 /\ \A k \in N : Size(m, k) >= words => Size(m, best) <= Size(m, k)
           Near(point, best) ==
              /\ point \in N /\ lo[point] < words
              /\ \/ best = null /\ hi[point] = Bound
                 \/ best \in N /\ hi[point] = Size(m, best) /\ words < Size(m, best)
           S == {s \in [point : WordPointers, best : WordPointers] :
                   IF s.point = null THEN Found(s.best) ELSE Near(s.point, s.best)}
           r == [s \in S |-> IF s.point = null THEN 0 ELSE hi[s.point] - lo[s.point] - 1]
           x == [point |-> m.root, best |-> null]
<1>1. /\ m \in Arena!Manager /\ null \notin Words /\ N \in SUBSET Words /\ words \in Int /\ words > 0
      /\ m.root \in WordPointers /\ null \in WordPointers
      /\ Cardinality(Words) \in Nat /\ Bound = Cardinality(Words) + 1
  BY WordsFinite, ManagerFields DEF Tree, WordPointers, Bound
<1>2. ASSUME NEW q \in N
      PROVE  /\ q \in Words /\ q # null /\ q \in WordPointers /\ NodeJoined(m, N, lo, hi, q)
             /\ lo[q] \in Int /\ hi[q] \in Int /\ Size(m, q) \in Int
             /\ 0 <= lo[q] /\ lo[q] < Size(m, q) /\ Size(m, q) < hi[q] /\ hi[q] <= Bound
             /\ m.node[q].left \in WordPointers /\ m.node[q].right \in WordPointers
  <2>1. q \in Words /\ NodeJoined(m, N, lo, hi, q)
    BY <1>1 DEF Tree
  <2> QED BY <1>1, <2>1, TreeSides, ManagerFields DEF NodeJoined, WordPointers
<1>3. x \in S /\ r[x] <= Cardinality(Words)
  <2>1. CASE m.root = null
    <3>1. N = {}
      BY <2>1 DEF Tree, Rooted
    <3> QED BY <1>1, <2>1, <3>1
  <2>2. CASE m.root # null
    <3>1. m.root \in N /\ lo[m.root] = 0 /\ hi[m.root] = Bound
      BY <2>2 DEF Tree, Rooted
    <3> QED BY <1>1, <2>2, <3>1
  <2> QED BY <2>1, <2>2
<1>4. ASSUME NEW s \in S
      PROVE  f[s] \in S /\ r[s] \in Nat /\ (f[s] = s \/ r[f[s]] < r[s])
             /\ (f[s] = s => s.point = null)
  <2>1. s = [point |-> s.point, best |-> s.best] /\ s.point \in WordPointers /\ s.best \in WordPointers
    OBVIOUS
  <2>2. CASE s.point = null
    BY <2>2
  <2>3. CASE s.point # null
    <3> DEFINE q == s.point
               left == m.node[q].left
               right == m.node[q].right
               t == IF Size(m, q) = words THEN [point |-> null, best |-> q]
                    ELSE IF Size(m, q) > words THEN [point |-> left, best |-> q]
                    ELSE [point |-> right, best |-> s.best]
    <3>1. Near(q, s.best) /\ f[s] = t /\ r[s] = hi[q] - lo[q] - 1
      BY <2>1, <2>3 DEF Size
    <3>2. q \in N
      BY <3>1
    <3>3. /\ q \in Words /\ q # null /\ q \in WordPointers /\ NodeJoined(m, N, lo, hi, q)
          /\ lo[q] \in Int /\ hi[q] \in Int /\ Size(m, q) \in Int
          /\ 0 <= lo[q] /\ lo[q] < Size(m, q) /\ Size(m, q) < hi[q] /\ hi[q] <= Bound
          /\ left \in WordPointers /\ right \in WordPointers
      BY <1>2, <3>2
    <3>4. t \in [point : WordPointers, best : WordPointers]
      BY <1>1, <2>1, <3>3
    <3>5. IF t.point = null THEN Found(t.best) ELSE Near(t.point, t.best)
      <4>1. CASE Size(m, q) = words
        <5>1. Found(q)
          BY <1>1, <3>2, <3>3, <4>1
        <5> QED BY <4>1, <5>1
      <4>2. CASE Size(m, q) > words
        <5>1. t = [point |-> left, best |-> q]
          BY <1>1, <3>3, <4>2
        <5>2. CASE left = null
          <6>1. ASSUME NEW k \in N, Size(m, k) >= words PROVE Size(m, q) <= Size(m, k)
            <7>1. Size(m, k) \in Int /\ lo[q] < Size(m, k)
              BY <1>1, <1>2, <3>1, <3>3, <6>1
            <7>2. ~InLeft(m, lo, hi, k, q)
              BY <5>2 DEF InLeft
            <7> QED BY <3>2, <3>3, <7>1, <7>2, TreeSides
          <6>2. Found(q)
            BY <1>1, <3>2, <3>3, <4>2, <6>1
          <6> QED BY <5>1, <5>2, <6>2
        <5>3. CASE left # null
          <6>1. left \in N /\ lo[left] = lo[q] /\ hi[left] = Size(m, q)
            BY <3>3, <5>3 DEF NodeJoined
          <6>2. Near(left, q)
            BY <1>1, <3>1, <3>2, <3>3, <4>2, <6>1
          <6> QED BY <5>1, <5>3, <6>2
        <5> QED BY <5>2, <5>3
      <4>3. CASE Size(m, q) < words
        <5>1. t = [point |-> right, best |-> s.best]
          BY <1>1, <3>3, <4>3
        <5>2. CASE right = null
          <6>1. ASSUME NEW k \in N, Size(m, k) >= words PROVE hi[q] <= Size(m, k)
            <7>1. Size(m, k) \in Int /\ Size(m, q) < Size(m, k)
              BY <1>1, <1>2, <3>3, <4>3, <6>1
            <7>2. ~InRight(m, lo, hi, k, q)
              BY <5>2 DEF InRight
            <7> QED BY <3>2, <3>3, <7>1, <7>2, TreeSides
          <6>2. ASSUME NEW k \in N PROVE Size(m, k) \in Int /\ Size(m, k) < Bound
            <7>1. hi[k] \in Int /\ Size(m, k) \in Int /\ Size(m, k) < hi[k] /\ hi[k] <= Bound
              BY <1>2
            <7> QED BY <1>1, <7>1
          <6>3. CASE s.best = null /\ hi[q] = Bound
            <7>1. \A k \in N : Size(m, k) < words
              BY <1>1, <6>1, <6>2, <6>3
            <7> QED BY <5>1, <5>2, <6>3, <7>1
          <6>4. CASE s.best \in N /\ hi[q] = Size(m, s.best) /\ words < Size(m, s.best)
            <7>1. Size(m, s.best) >= words /\ \A k \in N : Size(m, k) >= words => Size(m, s.best) <= Size(m, k)
              BY <1>1, <6>1, <6>2, <6>4
            <7>2. Found(s.best)
              BY <6>4, <7>1
            <7> QED BY <5>1, <5>2, <7>2
          <6> QED BY <3>1, <6>3, <6>4
        <5>3. CASE right # null
          <6>1. right \in N /\ lo[right] = Size(m, q) /\ hi[right] = hi[q]
            BY <3>3, <5>3 DEF NodeJoined
          <6>2. Near(right, s.best)
            BY <3>1, <4>3, <6>1
          <6> QED BY <5>1, <5>3, <6>2
        <5> QED BY <5>2, <5>3
      <4> QED BY <1>1, <3>3, <4>1, <4>2, <4>3
    <3>6. t \in S
      BY <3>4, <3>5
    <3>7. r[s] \in Nat /\ r[s] > 0
      BY <3>1, <3>3
    <3>8. r[t] < r[s] /\ t # s
      <4>1. r[t] = IF t.point = null THEN 0 ELSE hi[t.point] - lo[t.point] - 1
        BY <3>6
      <4>2. CASE t.point = null
        <5> HIDE DEF S, r, t
        <5> QED BY <2>3, <3>7, <4>1, <4>2
      <4>3. CASE t.point # null
        <5>1. \/ t.point = left /\ left # null
              \/ t.point = right /\ right # null
          BY <4>3
        <5>2. \/ lo[t.point] = lo[q] /\ hi[t.point] = Size(m, q)
              \/ lo[t.point] = Size(m, q) /\ hi[t.point] = hi[q]
          BY <3>3, <5>1 DEF NodeJoined
        <5> HIDE DEF S, r, t
        <5>3. r[t] < r[s]
          BY <3>1, <3>3, <4>1, <4>3, <5>2
        <5>4. r[s] \in Int
          BY <3>7
        <5> QED BY <5>3, <5>4
      <4> QED BY <4>2, <4>3
    <3> HIDE DEF S, r, t, f, Near, Found
    <3> QED BY <2>3, <3>1, <3>6, <3>7, <3>8
  <2> QED BY <2>2, <2>3
<1>5. b = Arena!Loop(f, x).best
  BY DEF Arena!find_closest_node, WordPointers, Arena!Pointers
<1> HIDE DEF f, r, x
<1>6. Arena!Loop(f, x) \in S /\ f[Arena!Loop(f, x)] = Arena!Loop(f, x)
  <2> DEFINE S0 == S
  <2>1. r \in [S0 -> Nat]
    <3>1. \A s \in S0 : r[s] \in Nat
      BY <1>4
    <3> HIDE DEF Near, Found
    <3> QED BY <3>1 DEF r
  <2>2. x \in S0 /\ r[x] <= Cardinality(Words) /\ \A s \in S0 : f[s] \in S0 /\ (f[s] = s \/ r[f[s]] < r[s])
    BY <1>3, <1>4
  <2> HIDE DEF S0
  <2>3. Arena!Loop(f, x) \in S0 /\ f[Arena!Loop(f, x)] = Arena!Loop(f, x)
    BY <2>1, <2>2, LoopEnds
  <2> QED BY <2>3 DEF S0
<1> DEFINE e == Arena!Loop(f, x)
<1>7. e \in S /\ e.point = null
  BY <1>4, <1>6
<1> HIDE DEF e
<1>8. Found(e.best)
  BY <1>7
<1> QED BY <1>5, <1>8 DEF e

(* The leftmost node under the right child.                                *)
LEMMA SuccessorFound ==
    ASSUME NEW m, NEW N, NEW lo, NEW hi, Tree(m, N, lo, hi),
           NEW p \in N, m.node[p].right # null, NEW s, s = Arena!successor(m, p)
    PROVE  s \in N /\ lo[s] = Size(m, p) /\ hi[s] <= hi[p] /\ m.node[s].left = null
<1> DEFINE f == [at \in Words |-> IF m.node[at].left = null THEN at ELSE m.node[at].left]
           S == {q \in N : lo[q] = Size(m, p) /\ hi[q] <= hi[p]}
           r == [q \in S |-> hi[q] - lo[q] - 1]
           x == m.node[p].right
<1>1. Cardinality(Words) \in Nat /\ Bound = Cardinality(Words) + 1
  BY WordsFinite DEF Bound
<1>2. ASSUME NEW q \in N
      PROVE  /\ q \in Words /\ NodeJoined(m, N, lo, hi, q)
             /\ lo[q] \in Int /\ hi[q] \in Int /\ Size(m, q) \in Int
             /\ 0 <= lo[q] /\ lo[q] < Size(m, q) /\ Size(m, q) < hi[q] /\ hi[q] <= Bound
  BY TreeSides DEF Tree, NodeJoined
<1>3. x \in S /\ r[x] <= Cardinality(Words)
  <2>1. x \in N /\ lo[x] = Size(m, p) /\ hi[x] = hi[p]
    BY <1>2 DEF NodeJoined
  <2>2. hi[p] \in Int
    BY <1>2
  <2>3. x \in S
    BY <2>1, <2>2
  <2>4. r[x] = hi[x] - lo[x] - 1
    BY <2>3
  <2>5. 0 <= lo[x] /\ hi[x] <= Bound /\ lo[x] \in Int /\ hi[x] \in Int
    BY <1>2, <2>1
  <2> HIDE DEF x, r, S
  <2> QED BY <1>1, <2>3, <2>4, <2>5
<1>4. ASSUME NEW q \in S
      PROVE  f[q] \in S /\ r[q] \in Nat /\ ((f[q] = q /\ m.node[q].left = null) \/ r[f[q]] < r[q])
  <2>1. q \in N /\ q \in Words /\ lo[q] = Size(m, p) /\ hi[q] <= hi[p] /\ hi[p] \in Int /\ r[q] = hi[q] - lo[q] - 1
    BY <1>2
  <2>2. /\ lo[q] \in Int /\ hi[q] \in Int /\ Size(m, q) \in Int
        /\ lo[q] < Size(m, q) /\ Size(m, q) < hi[q]
    BY <1>2, <2>1
  <2>3. r[q] \in Nat
    BY <2>1, <2>2
  <2>4. CASE m.node[q].left = null
    BY <2>1, <2>3, <2>4
  <2>5. CASE m.node[q].left # null
    <3> DEFINE c == m.node[q].left
    <3>1. f[q] = c /\ c \in N /\ lo[c] = lo[q] /\ hi[c] = Size(m, q)
      BY <1>2, <2>1, <2>5 DEF NodeJoined
    <3>2. c \in S
      BY <2>1, <2>2, <3>1
    <3>3. r[c] = hi[c] - lo[c] - 1
      BY <3>2
    <3> HIDE DEF c, f, S, r
    <3>4. r[c] < r[q]
      BY <2>1, <2>2, <3>1, <3>3
    <3> QED BY <2>3, <3>1, <3>2, <3>4
  <2> QED BY <2>4, <2>5
<1>5. s = Arena!Loop(f, x)
  BY DEF Arena!successor
<1> HIDE DEF f, S, r, x
<1>6. r \in [S -> Nat]
  <2>1. \A q \in S : r[q] \in Nat
    BY <1>4
  <2> QED BY <2>1 DEF r
<1>7. s \in S /\ f[s] = s
  BY <1>3, <1>4, <1>5, <1>6, LoopEnds
<1>8. m.node[s].left = null
  <2>1. r[s] \in Nat
    BY <1>4, <1>7
  <2> QED BY <1>4, <1>7, <2>1
<1> QED BY <1>7, <1>8 DEF S

(* m2 is m with c in the place of the node p.                              *)
Bypassed(m2, m, N, p, c) ==
    /\ m2 \in Arena!Manager /\ SameRest(m2, m)
    /\ m2.root = IF m.root = p THEN c ELSE m.root
    /\ \A n \in N : /\ m2.node[n].left = IF m.node[n].left = p THEN c ELSE m.node[n].left
                    /\ m2.node[n].right = IF m.node[n].right = p THEN c ELSE m.node[n].right
    /\ \A q \in Words : m2.node[q].parent = IF q = c THEN m.node[p].parent ELSE m.node[q].parent

(* What holds of each node.                                                *)
LEMMA NodeFacts ==
    ASSUME NEW m, NEW N, NEW lo, NEW hi, Tree(m, N, lo, hi), NEW n \in N
    PROVE  /\ n \in Words /\ n # null /\ NodeJoined(m, N, lo, hi, n)
           /\ lo[n] \in Int /\ hi[n] \in Int /\ Size(m, n) \in Int
           /\ 0 <= lo[n] /\ lo[n] < Size(m, n) /\ Size(m, n) < hi[n] /\ hi[n] <= Bound
<1>1. n \in Words /\ null \notin Words /\ NodeJoined(m, N, lo, hi, n)
  BY ManagerFields DEF Tree
<1> QED BY <1>1, TreeSides DEF NodeJoined

(* A node is the left child of its parent or the right one, not both, and  *)
(* of nobody else.                                                         *)
LEMMA OneParent ==
    ASSUME NEW m, NEW N, NEW lo, NEW hi, Tree(m, N, lo, hi), NEW p \in N, NEW n \in N
    PROVE  /\ m.node[n].left = p => m.node[p].parent = n /\ m.node[n].right # p /\ p # m.root
           /\ m.node[n].right = p => m.node[p].parent = n /\ m.node[n].left # p /\ p # m.root
           /\ m.node[n].left # n /\ m.node[n].right # n
<1>1. n # null /\ p # null /\ NodeJoined(m, N, lo, hi, n) /\ lo[n] \in Int /\ hi[n] \in Int /\ Size(m, n) \in Int
      /\ lo[n] < Size(m, n) /\ Size(m, n) < hi[n]
  BY NodeFacts
<1>2. m.root # null => m.node[m.root].parent = null
  BY DEF Tree, Rooted
<1> QED BY <1>1, <1>2 DEF NodeJoined

(* What takes a node's place in its parent.                                *)
LEMMA ReplaceInParent ==
    ASSUME NEW m, NEW N, NEW lo, NEW hi, Tree(m, N, lo, hi), NEW p \in N,
           NEW c \in WordPointers, NEW m2, m2 = Arena!replace_node_in_parent(m, p, c)
    PROVE  /\ Bypassed(m2, m, N, p, c)
           /\ \A q \in Words \ N : m2.node[q].left = m.node[q].left /\ m2.node[q].right = m.node[q].right
<1> DEFINE up == m.node[p].parent
<1>1. /\ m \in Arena!Manager /\ N \in SUBSET Words /\ null \notin Words /\ p \in Words /\ p # null
      /\ NodeJoined(m, N, lo, hi, p) /\ c \in Arena!Pointers
  BY NodeFacts, ManagerFields DEF Tree, WordPointers, Arena!Pointers
<1>2. CASE up = null
  <2>1. p = m.root
    BY <1>1, <1>2 DEF NodeJoined
  <2>2. \A n \in N : m.node[n].left # p /\ m.node[n].right # p
    BY <2>1, OneParent
  <2>3. m2 = IF c = null THEN [m EXCEPT !.root = null]
             ELSE [m EXCEPT !.root = c, !.node[c].parent = null]
    BY <1>2 DEF Arena!replace_node_in_parent
  <2>4. CASE c = null
    <3>1. m2 = [m EXCEPT !.root = null]
      BY <2>3, <2>4
    <3>2. m2 \in Arena!Manager /\ m2.root = null /\ m2.node = m.node /\ m2.bin = m.bin /\ m2.small = m.small
          /\ m2.tree = m.tree
      BY <1>1, <2>4, <3>1 DEF Arena!Manager
    <3> QED BY <1>1, <2>1, <2>2, <2>4, <3>2 DEF Bypassed, SameRest, Size
  <2>5. CASE c # null
    <3> DEFINE k == [m EXCEPT !.node[c].parent = null]
    <3>1. /\ k \in Arena!Manager /\ k.root = m.root /\ SameRest(k, m)
          /\ \A q \in Words : /\ k.node[q].left = m.node[q].left
                              /\ k.node[q].right = m.node[q].right
                              /\ k.node[q].parent = IF q = c THEN null ELSE m.node[q].parent
      BY <1>1, <2>5, SetParent DEF WordPointers
    <3>2. m2 = [k EXCEPT !.root = c]
      <4>1. m2 = [m EXCEPT !.root = c, !.node[c].parent = null]
        BY <2>3, <2>5
      <4> QED BY <1>1, <4>1 DEF Arena!Manager
    <3> HIDE DEF k
    <3>3. m2 \in Arena!Manager /\ m2.root = c /\ m2.node = k.node /\ m2.bin = k.bin /\ m2.small = k.small
          /\ m2.tree = k.tree
      BY <1>1, <3>1, <3>2 DEF Arena!Manager
    <3> QED BY <1>1, <1>2, <2>1, <2>2, <3>1, <3>3 DEF Bypassed, SameRest, Size
  <2> QED BY <2>4, <2>5
<1>3. CASE up # null
  <2>1. p # m.root
    BY <1>3 DEF Tree, Rooted
  <2>2. up \in N /\ up \in Words /\ (m.node[up].left = p \/ m.node[up].right = p)
    BY <1>1, <2>1 DEF NodeJoined
  <2>3. \A n \in N : (m.node[n].left = p \/ m.node[n].right = p) => n = up
    BY OneParent
  <2>4. ~(m.node[up].left = p /\ m.node[up].right = p)
    BY <2>2, OneParent
  <2>5. CASE m.node[up].left = p
    <3>1. m2 = Arena!set_left_child(m, up, c)
      BY <1>3, <2>5 DEF Arena!replace_node_in_parent
    <3>2. /\ m2 \in Arena!Manager /\ m2.root = m.root /\ SameRest(m2, m)
          /\ \A q \in Words :
                /\ m2.node[q].left = IF q = up THEN c ELSE m.node[q].left
                /\ m2.node[q].right = m.node[q].right
                /\ m2.node[q].parent = IF q = c THEN up ELSE m.node[q].parent
      BY <1>1, <2>2, <3>1, SetLeftChild
    <3> QED BY <1>1, <2>1, <2>2, <2>3, <2>4, <2>5, <3>2 DEF Bypassed
  <2>6. CASE m.node[up].left # p
    <3>1. m2 = Arena!set_right_child(m, up, c)
      BY <1>3, <2>6 DEF Arena!replace_node_in_parent
    <3>2. /\ m2 \in Arena!Manager /\ m2.root = m.root /\ SameRest(m2, m)
          /\ \A q \in Words :
                /\ m2.node[q].left = m.node[q].left
                /\ m2.node[q].right = IF q = up THEN c ELSE m.node[q].right
                /\ m2.node[q].parent = IF q = c THEN up ELSE m.node[q].parent
      BY <1>1, <2>2, <3>1, SetRightChild
    <3> QED BY <1>1, <2>1, <2>2, <2>3, <2>6, <3>2 DEF Bypassed
  <2> QED BY <2>5, <2>6
<1> QED BY <1>2, <1>3

(* Without a node that has a child at most.                                *)
Shift(f, from, to) == [k \in Words |-> IF f[k] = from THEN to ELSE f[k]]

LEMMA NodeBypassed ==
    ASSUME NEW m, NEW N, NEW lo, NEW hi, Tree(m, N, lo, hi), NEW p \in N,
           m.node[p].left = null \/ m.node[p].right = null,
           NEW c, c = IF m.node[p].left # null THEN m.node[p].left ELSE m.node[p].right,
           NEW m2, Bypassed(m2, m, N, p, c)
    PROVE  Tree(m2, N \ {p}, Shift(lo, Size(m, p), lo[p]), Shift(hi, Size(m, p), hi[p]))
<1> DEFINE N2 == N \ {p}
           lo2 == Shift(lo, Size(m, p), lo[p])
           hi2 == Shift(hi, Size(m, p), hi[p])
<1>1. /\ m \in Arena!Manager /\ N \in SUBSET Words /\ null \notin Words
      /\ lo \in [Words -> Int] /\ hi \in [Words -> Int] /\ Bound \in Int
  BY ManagerFields DEF Tree
<1>2. /\ p \in Words /\ p # null /\ NodeJoined(m, N, lo, hi, p)
      /\ lo[p] \in Int /\ hi[p] \in Int /\ Size(m, p) \in Int
      /\ 0 <= lo[p] /\ lo[p] < Size(m, p) /\ Size(m, p) < hi[p] /\ hi[p] <= Bound
  BY NodeFacts
<1>3. /\ lo2 \in [Words -> Int] /\ hi2 \in [Words -> Int]
      /\ \A k \in Words : /\ lo2[k] = IF lo[k] = Size(m, p) THEN lo[p] ELSE lo[k]
                          /\ hi2[k] = IF hi[k] = Size(m, p) THEN hi[p] ELSE hi[k]
  BY <1>1, <1>2 DEF Shift
<1> HIDE DEF lo2, hi2
<1>4. ASSUME NEW n \in N2
      PROVE  /\ n \in N /\ n \in Words /\ n # null /\ NodeJoined(m, N, lo, hi, n)
             /\ lo[n] \in Int /\ hi[n] \in Int /\ Size(m, n) \in Int
             /\ 0 <= lo[n] /\ lo[n] < Size(m, n) /\ Size(m, n) < hi[n] /\ hi[n] <= Bound
             /\ Size(m2, n) = Size(m, n) /\ Size(m, n) # Size(m, p) /\ NodePlaced(m, lo, hi, n, p)
             /\ lo2[n] = (IF lo[n] = Size(m, p) THEN lo[p] ELSE lo[n])
             /\ hi2[n] = (IF hi[n] = Size(m, p) THEN hi[p] ELSE hi[n])
  <2>1. n \in N /\ NodePlaced(m, lo, hi, n, p)
    BY DEF Tree
  <2>2. n \in Words /\ n # null /\ NodeJoined(m, N, lo, hi, n) /\ lo[n] \in Int /\ hi[n] \in Int /\ Size(m, n) \in Int
        /\ 0 <= lo[n] /\ lo[n] < Size(m, n) /\ Size(m, n) < hi[n] /\ hi[n] <= Bound
    BY <2>1, NodeFacts
  <2>3. Size(m, n) # Size(m, p)
    BY <2>1, TreeSides
  <2>4. Size(m2, n) = Size(m, n)
    BY <2>2 DEF Bypassed, SameRest
  <2>5. lo2[n] = (IF lo[n] = Size(m, p) THEN lo[p] ELSE lo[n])
        /\ hi2[n] = (IF hi[n] = Size(m, p) THEN hi[p] ELSE hi[n])
    BY <1>3, <2>2
  <2> QED BY <2>1, <2>2, <2>3, <2>4, <2>5
<1>5. ASSUME c # null
      PROVE  /\ c \in N2 /\ c \in Words /\ m.node[c].parent = p /\ m2.node[c].parent = m.node[p].parent
             /\ lo2[c] = lo[p] /\ hi2[c] = hi[p]
  <2>1. CASE m.node[p].left # null
    <3>1. c \in N /\ m.node[c].parent = p /\ lo[c] = lo[p] /\ hi[c] = Size(m, p)
      BY <1>2, <2>1 DEF NodeJoined
    <3>2. c # p /\ c \in Words
      BY <1>1, <1>2, <3>1
    <3> QED BY <1>2, <1>3, <3>1, <3>2 DEF Bypassed
  <2>2. CASE m.node[p].left = null
    <3>1. c \in N /\ m.node[c].parent = p /\ hi[c] = hi[p] /\ lo[c] = Size(m, p)
      BY <1>2, <1>5, <2>2 DEF NodeJoined
    <3>2. c # p /\ c \in Words
      BY <1>1, <1>2, <3>1
    <3> QED BY <1>2, <1>3, <3>1, <3>2 DEF Bypassed
  <2> QED BY <2>1, <2>2
<1>6. ASSUME NEW k \in N2, lo[p] < Size(m, k), Size(m, k) < hi[p]
      PROVE  c # null
  <2>1. InLeft(m, lo, hi, k, p) \/ InRight(m, lo, hi, k, p)
    BY <1>2, <1>4, <1>6, TreeSides
  <2> QED BY <2>1 DEF InLeft, InRight
<1>7. ASSUME NEW n \in N2
      PROVE  /\ m2.node[n].left = IF m.node[n].left = p THEN c ELSE m.node[n].left
             /\ m2.node[n].right = IF m.node[n].right = p THEN c ELSE m.node[n].right
             /\ n # c => m2.node[n].parent = m.node[n].parent
  BY <1>1 DEF Bypassed
<1>8. Rooted(m2, N2, lo2, hi2)
  <2>1. CASE m.root = p
    <3>1. m2.root = c /\ lo[p] = 0 /\ hi[p] = Bound /\ m.node[p].parent = null
      BY <1>2, <2>1 DEF Bypassed, Tree, Rooted
    <3>2. c = null => N2 = {}
      <4> SUFFICES ASSUME NEW k \in N2 PROVE c # null
        OBVIOUS
      <4>1. lo[p] < Size(m, k) /\ Size(m, k) < hi[p]
        BY <1>1, <1>4, <3>1
      <4> QED BY <1>6, <4>1
    <3> QED BY <1>5, <3>1, <3>2 DEF Rooted
  <2>2. CASE m.root # p
    <3>1. m2.root = m.root /\ m.root # null /\ m.root \in N2 /\ m.node[m.root].parent = null
          /\ lo[m.root] = 0 /\ hi[m.root] = Bound
      BY <2>2 DEF Bypassed, Tree, Rooted
    <3>2. m.root # c
      BY <1>2, <1>5, <3>1
    <3>3. m2.node[m.root].parent = null
      BY <1>7, <3>1, <3>2
    <3>4. lo2[m.root] = 0 /\ hi2[m.root] = Bound
      BY <1>1, <1>2, <1>4, <3>1
    <3> QED BY <3>1, <3>3, <3>4 DEF Rooted
  <2> QED BY <2>1, <2>2
<1>9. ASSUME NEW n \in N2 PROVE NodeJoined(m2, N2, lo2, hi2, n)
  <2>1. /\ n \in N /\ n \in Words /\ n # null /\ NodeJoined(m, N, lo, hi, n)
        /\ lo[n] \in Int /\ hi[n] \in Int /\ Size(m, n) \in Int
        /\ 0 <= lo[n] /\ lo[n] < Size(m, n) /\ Size(m, n) < hi[n] /\ hi[n] <= Bound
        /\ Size(m2, n) = Size(m, n) /\ Size(m, n) # Size(m, p) /\ NodePlaced(m, lo, hi, n, p)
        /\ lo2[n] = (IF lo[n] = Size(m, p) THEN lo[p] ELSE lo[n])
        /\ hi2[n] = (IF hi[n] = Size(m, p) THEN hi[p] ELSE hi[n])
    BY <1>4
  <2>2. 0 <= lo2[n] /\ lo2[n] < Size(m2, n) /\ Size(m2, n) < hi2[n] /\ hi2[n] <= Bound
    BY <1>1, <1>2, <2>1
  <2>3. ASSUME m2.node[n].left # null
        PROVE  LET left == m2.node[n].left
               IN  /\ left \in N2 /\ m2.node[left].parent = n
                   /\ lo2[left] = lo2[n] /\ hi2[left] = Size(m2, n)
    <3>1. CASE m.node[n].left = p
      <4>1. m2.node[n].left = c /\ c # null /\ m.node[p].parent = n /\ lo[p] = lo[n] /\ hi[p] = Size(m, n)
        BY <1>2, <1>7, <2>1, <2>3, <3>1 DEF NodeJoined
      <4> QED BY <1>2, <1>5, <2>1, <4>1
    <3>2. CASE m.node[n].left # p
      <4> DEFINE l == m.node[n].left
      <4>1. m2.node[n].left = l /\ l # null /\ l \in N2 /\ m.node[l].parent = n /\ lo[l] = lo[n] /\ hi[l] = Size(m, n)
        BY <1>7, <2>1, <2>3, <3>2 DEF NodeJoined
      <4>2. l # c
        BY <1>5, <4>1
      <4>3. m2.node[l].parent = n /\ lo2[l] = lo2[n] /\ hi2[l] = Size(m2, n)
        BY <1>3, <1>4, <1>7, <2>1, <4>1, <4>2
      <4> QED BY <4>1, <4>3
    <3> QED BY <3>1, <3>2
  <2>4. ASSUME m2.node[n].right # null
        PROVE  LET right == m2.node[n].right
               IN  /\ right \in N2 /\ m2.node[right].parent = n
                   /\ lo2[right] = Size(m2, n) /\ hi2[right] = hi2[n]
    <3>1. CASE m.node[n].right = p
      <4>1. m2.node[n].right = c /\ c # null /\ m.node[p].parent = n /\ lo[p] = Size(m, n) /\ hi[p] = hi[n]
        BY <1>2, <1>7, <2>1, <2>4, <3>1 DEF NodeJoined
      <4> QED BY <1>2, <1>5, <2>1, <4>1
    <3>2. CASE m.node[n].right # p
      <4> DEFINE l == m.node[n].right
      <4>1. m2.node[n].right = l /\ l # null /\ l \in N2 /\ m.node[l].parent = n /\ lo[l] = Size(m, n) /\ hi[l] = hi[n]
        BY <1>7, <2>1, <2>4, <3>2 DEF NodeJoined
      <4>2. l # c
        BY <1>5, <4>1
      <4>3. m2.node[l].parent = n /\ lo2[l] = Size(m2, n) /\ hi2[l] = hi2[n]
        BY <1>3, <1>4, <1>7, <2>1, <4>1, <4>2
      <4> QED BY <4>1, <4>3
    <3> QED BY <3>1, <3>2
  <2>5. ASSUME n # m2.root
        PROVE  LET up == m2.node[n].parent
               IN  up \in N2 /\ (m2.node[up].left = n \/ m2.node[up].right = n)
    <3>1. CASE n = c
      <4>1. m.root # p /\ m2.node[n].parent = m.node[p].parent
        BY <1>5, <2>1, <2>5, <3>1 DEF Bypassed
      <4> DEFINE up == m.node[p].parent
      <4>2. up \in N /\ (m.node[up].left = p \/ m.node[up].right = p)
        BY <1>2, <4>1 DEF NodeJoined
      <4>3. up # p
        BY <4>2, OneParent
      <4>4. m2.node[up].left = n \/ m2.node[up].right = n
        BY <1>7, <3>1, <4>2, <4>3
      <4> QED BY <4>1, <4>2, <4>3, <4>4
    <3>2. CASE n # c
      <4> DEFINE up == m.node[n].parent
      <4>1. m2.node[n].parent = up /\ n # m.root
        <5>1. n # m.root
          BY <2>5, <3>2 DEF Bypassed
        <5> QED BY <1>7, <3>2, <5>1
      <4>2. up \in N /\ (m.node[up].left = n \/ m.node[up].right = n)
        BY <2>1, <4>1 DEF NodeJoined
      <4>3. up # p
        BY <2>1, <3>2, <4>2
      <4>4. m2.node[up].left = n \/ m2.node[up].right = n
        BY <1>7, <4>2, <4>3
      <4> QED BY <4>1, <4>2, <4>3, <4>4
    <3> QED BY <3>1, <3>2
  <2> HIDE DEF N2
  <2> QED BY <2>2, <2>3, <2>4, <2>5 DEF NodeJoined
<1>10. ASSUME NEW n \in N2, NEW k \in N2 PROVE NodePlaced(m2, lo2, hi2, k, n)
  <2>1. /\ lo[n] \in Int /\ hi[n] \in Int /\ Size(m, n) \in Int
        /\ lo[n] < Size(m, n) /\ Size(m, n) < hi[n]
        /\ Size(m2, n) = Size(m, n) /\ Size(m, n) # Size(m, p) /\ NodePlaced(m, lo, hi, n, p)
        /\ lo2[n] = (IF lo[n] = Size(m, p) THEN lo[p] ELSE lo[n])
        /\ hi2[n] = (IF hi[n] = Size(m, p) THEN hi[p] ELSE hi[n])
    BY <1>4
  <2>2. /\ lo[k] \in Int /\ hi[k] \in Int /\ Size(m, k) \in Int
        /\ lo[k] < Size(m, k) /\ Size(m, k) < hi[k]
        /\ Size(m2, k) = Size(m, k) /\ Size(m, k) # Size(m, p) /\ NodePlaced(m, lo, hi, k, p)
        /\ lo2[k] = (IF lo[k] = Size(m, p) THEN lo[p] ELSE lo[k])
        /\ hi2[k] = (IF hi[k] = Size(m, p) THEN hi[p] ELSE hi[k])
    BY <1>4
  <2>3. \A x, y \in N2 : m.node[y].left # null /\ lo[y] <= lo[x] /\ hi[x] <= Size(m, y) => m2.node[y].left # null
    <3> SUFFICES ASSUME NEW x \in N2, NEW y \in N2, m.node[y].left # null, lo[y] <= lo[x], hi[x] <= Size(m, y)
                 PROVE  m2.node[y].left # null
      OBVIOUS
    <3>1. CASE m.node[y].left # p
      BY <1>7, <3>1
    <3>2. CASE m.node[y].left = p
      <4>1. lo[p] = lo[y] /\ hi[p] = Size(m, y)
        BY <1>2, <1>4, <3>2 DEF NodeJoined
      <4>2. lo[p] < Size(m, x) /\ Size(m, x) < hi[p]
        BY <1>4, <4>1
      <4> QED BY <1>6, <1>7, <3>2, <4>2
    <3> QED BY <3>1, <3>2
  <2>4. \A x, y \in N2 : m.node[y].right # null /\ Size(m, y) <= lo[x] /\ hi[x] <= hi[y] => m2.node[y].right # null
    <3> SUFFICES ASSUME NEW x \in N2, NEW y \in N2, m.node[y].right # null, Size(m, y) <= lo[x], hi[x] <= hi[y]
                 PROVE  m2.node[y].right # null
      OBVIOUS
    <3>1. CASE m.node[y].right # p
      BY <1>7, <3>1
    <3>2. CASE m.node[y].right = p
      <4>1. lo[p] = Size(m, y) /\ hi[p] = hi[y]
        BY <1>2, <1>4, <3>2 DEF NodeJoined
      <4>2. lo[p] < Size(m, x) /\ Size(m, x) < hi[p]
        BY <1>4, <4>1
      <4> QED BY <1>6, <1>7, <3>2, <4>2
    <3> QED BY <3>1, <3>2
  <2>5. NodePlaced(m, lo, hi, k, n)
    BY DEF Tree
  <2>6. CASE n = k
    BY <2>6 DEF NodePlaced
  <2>7. CASE InLeft(m, lo, hi, k, n)
    <3>1. m2.node[n].left # null
      BY <2>3, <2>7 DEF InLeft
    <3>2. lo2[n] <= lo2[k] /\ hi2[k] <= Size(m, n)
      BY <1>2, <2>1, <2>2, <2>7 DEF NodePlaced, InLeft, InRight
    <3> QED BY <2>1, <3>1, <3>2 DEF NodePlaced, InLeft
  <2>8. CASE InLeft(m, lo, hi, n, k)
    <3>1. m2.node[k].left # null
      BY <2>3, <2>8 DEF InLeft
    <3>2. lo2[k] <= lo2[n] /\ hi2[n] <= Size(m, k)
      BY <1>2, <2>1, <2>2, <2>8 DEF NodePlaced, InLeft, InRight
    <3> QED BY <2>2, <3>1, <3>2 DEF NodePlaced, InLeft
  <2>9. CASE InRight(m, lo, hi, k, n)
    <3>1. m2.node[n].right # null
      BY <2>4, <2>9 DEF InRight
    <3>2. Size(m, n) <= lo2[k] /\ hi2[k] <= hi2[n]
      BY <1>2, <2>1, <2>2, <2>9 DEF NodePlaced, InLeft, InRight
    <3> QED BY <2>1, <3>1, <3>2 DEF NodePlaced, InRight
  <2>10. CASE InRight(m, lo, hi, n, k)
    <3>1. m2.node[k].right # null
      BY <2>4, <2>10 DEF InRight
    <3>2. Size(m, k) <= lo2[n] /\ hi2[n] <= hi2[k]
      BY <1>2, <2>1, <2>2, <2>10 DEF NodePlaced, InLeft, InRight
    <3> QED BY <2>2, <3>1, <3>2 DEF NodePlaced, InRight
  <2>11. CASE hi[k] <= lo[n]
    <3>1. hi2[k] <= lo2[n]
      BY <1>2, <2>1, <2>2, <2>11 DEF NodePlaced, InLeft, InRight
    <3> QED BY <3>1 DEF NodePlaced
  <2>12. CASE hi[n] <= lo[k]
    <3>1. hi2[n] <= lo2[k]
      BY <1>2, <2>1, <2>2, <2>12 DEF NodePlaced, InLeft, InRight
    <3> QED BY <3>1 DEF NodePlaced
  <2> QED BY <2>5, <2>6, <2>7, <2>8, <2>9, <2>10, <2>11, <2>12 DEF NodePlaced
<1>11. m2 \in Arena!Manager /\ N2 \in SUBSET Words
  BY <1>1 DEF Bypassed
<1> HIDE DEF N2
<1>12. Tree(m2, N2, lo2, hi2)
  BY <1>3, <1>8, <1>9, <1>10, <1>11 DEF Tree
<1> QED BY <1>12 DEF N2, lo2, hi2

(* m2 is m with s, no node before, as the node that p was.                 *)
Substituted(m2, m, N, p, s) ==
    /\ m2 \in Arena!Manager /\ SameRest(m2, m)
    /\ m2.root = IF m.root = p THEN s ELSE m.root
    /\ \A n \in N \ {p} :
          /\ m2.node[n].left = IF m.node[n].left = p THEN s ELSE m.node[n].left
          /\ m2.node[n].right = IF m.node[n].right = p THEN s ELSE m.node[n].right
          /\ m2.node[n].parent = IF n = m.node[p].left \/ n = m.node[p].right THEN s
                                 ELSE m.node[n].parent
    /\ m2.node[s].left = m.node[p].left /\ m2.node[s].right = m.node[p].right
    /\ m2.node[s].parent = m.node[p].parent

(* Between p and s in size there is no node, nor a bound.                  *)
NextInSize(m, N, lo, hi, p, s) ==
    /\ Size(m, p) < Size(m, s) /\ Size(m, s) < hi[p]
    /\ \A k \in N : InRight(m, lo, hi, k, p) =>
          /\ Size(m, s) < Size(m, k)
          /\ lo[k] = Size(m, p) \/ Size(m, s) <= lo[k]

(* The next larger node in the place of another is a search tree again.    *)
LEMMA NodeSubstituted ==
    ASSUME NEW m, NEW N, NEW lo, NEW hi, Tree(m, N, lo, hi), NEW p \in N, NEW s \in Words, s \notin N,
           NEW m2, Substituted(m2, m, N, p, s), NextInSize(m, N, lo, hi, p, s)
    PROVE  Tree(m2, (N \ {p}) \cup {s}, [Shift(lo, Size(m, p), Size(m, s)) EXCEPT ![s] = lo[p]],
                [Shift(hi, Size(m, p), Size(m, s)) EXCEPT ![s] = hi[p]])
<1> DEFINE N1 == N \ {p}
           N2 == N1 \cup {s}
           lo2 == [Shift(lo, Size(m, p), Size(m, s)) EXCEPT ![s] = lo[p]]
           hi2 == [Shift(hi, Size(m, p), Size(m, s)) EXCEPT ![s] = hi[p]]
           left == m.node[p].left
           right == m.node[p].right
<1>1. /\ m \in Arena!Manager /\ N \in SUBSET Words /\ null \notin Words /\ s # null /\ s # p
      /\ lo \in [Words -> Int] /\ hi \in [Words -> Int] /\ Bound \in Int /\ Size(m, s) \in Int
      /\ Size(m2, s) = Size(m, s) /\ Size(m, p) < Size(m, s) /\ Size(m, s) < hi[p]
  BY ManagerFields DEF Tree, Substituted, SameRest, NextInSize
<1>2. /\ p \in Words /\ p # null /\ NodeJoined(m, N, lo, hi, p)
      /\ lo[p] \in Int /\ hi[p] \in Int /\ Size(m, p) \in Int
      /\ 0 <= lo[p] /\ lo[p] < Size(m, p) /\ Size(m, p) < hi[p] /\ hi[p] <= Bound
  BY NodeFacts
<1>3. /\ lo2 \in [Words -> Int] /\ hi2 \in [Words -> Int] /\ lo2[s] = lo[p] /\ hi2[s] = hi[p]
      /\ \A k \in Words \ {s} : /\ lo2[k] = IF lo[k] = Size(m, p) THEN Size(m, s) ELSE lo[k]
                                /\ hi2[k] = IF hi[k] = Size(m, p) THEN Size(m, s) ELSE hi[k]
  BY <1>1, <1>2 DEF Shift
<1> HIDE DEF lo2, hi2
<1>4. ASSUME NEW n \in N1
      PROVE  /\ n \in N /\ n \in Words /\ n # null /\ n # s /\ NodeJoined(m, N, lo, hi, n)
             /\ lo[n] \in Int /\ hi[n] \in Int /\ Size(m, n) \in Int
             /\ 0 <= lo[n] /\ lo[n] < Size(m, n) /\ Size(m, n) < hi[n] /\ hi[n] <= Bound
             /\ Size(m2, n) = Size(m, n) /\ Size(m, n) # Size(m, p) /\ NodePlaced(m, lo, hi, n, p)
             /\ lo2[n] = (IF lo[n] = Size(m, p) THEN Size(m, s) ELSE lo[n])
             /\ hi2[n] = (IF hi[n] = Size(m, p) THEN Size(m, s) ELSE hi[n])
             /\ InRight(m, lo, hi, n, p) =>
                   Size(m, s) < Size(m, n) /\ (lo[n] = Size(m, p) \/ Size(m, s) <= lo[n])
  <2>1. n \in N /\ n # p /\ NodePlaced(m, lo, hi, n, p)
    BY DEF Tree
  <2>2. n \in Words /\ n # null /\ NodeJoined(m, N, lo, hi, n) /\ lo[n] \in Int /\ hi[n] \in Int /\ Size(m, n) \in Int
        /\ 0 <= lo[n] /\ lo[n] < Size(m, n) /\ Size(m, n) < hi[n] /\ hi[n] <= Bound
    BY <2>1, NodeFacts
  <2>3. Size(m, n) # Size(m, p) /\ n # s
    BY <2>1, TreeSides
  <2>4. Size(m2, n) = Size(m, n)
    BY <2>2 DEF Substituted, SameRest
  <2>5. lo2[n] = (IF lo[n] = Size(m, p) THEN Size(m, s) ELSE lo[n])
        /\ hi2[n] = (IF hi[n] = Size(m, p) THEN Size(m, s) ELSE hi[n])
    BY <1>3, <2>2, <2>3
  <2>6. InRight(m, lo, hi, n, p) => Size(m, s) < Size(m, n) /\ (lo[n] = Size(m, p) \/ Size(m, s) <= lo[n])
    BY <2>1 DEF NextInSize
  <2> QED BY <2>1, <2>2, <2>3, <2>4, <2>5, <2>6
<1>5. ASSUME NEW n \in N1
      PROVE  /\ m2.node[n].left = IF m.node[n].left = p THEN s ELSE m.node[n].left
             /\ m2.node[n].right = IF m.node[n].right = p THEN s ELSE m.node[n].right
             /\ m2.node[n].parent = IF n = left \/ n = right THEN s ELSE m.node[n].parent
  BY DEF Substituted
<1>6. m2.node[s].left = left /\ m2.node[s].right = right /\ m2.node[s].parent = m.node[p].parent
      /\ m2.root = IF m.root = p THEN s ELSE m.root
  BY DEF Substituted
<1>7. /\ left # null => left \in N1 /\ m.node[left].parent = p /\ lo[left] = lo[p] /\ hi[left] = Size(m, p)
      /\ right # null => right \in N1 /\ m.node[right].parent = p /\ lo[right] = Size(m, p) /\ hi[right] = hi[p]
  BY <1>2 DEF NodeJoined
<1>8. Rooted(m2, N2, lo2, hi2)
  <2>1. CASE m.root = p
    BY <1>1, <1>3, <1>6, <2>1 DEF Tree, Rooted
  <2>2. CASE m.root # p
    <3>1. m2.root = m.root /\ m.root # null /\ m.root \in N1 /\ m.node[m.root].parent = null
          /\ lo[m.root] = 0 /\ hi[m.root] = Bound
      BY <1>6, <2>2 DEF Tree, Rooted
    <3>2. m.root # left /\ m.root # right
      BY <1>2, <1>7, <3>1
    <3>3. m2.node[m.root].parent = null
      BY <1>5, <3>1, <3>2
    <3>4. lo2[m.root] = 0 /\ hi2[m.root] = Bound
      BY <1>1, <1>2, <1>4, <3>1
    <3> QED BY <3>1, <3>3, <3>4 DEF Rooted
  <2> QED BY <2>1, <2>2
<1>9. NodeJoined(m2, N2, lo2, hi2, s)
  <2>1. 0 <= lo2[s] /\ lo2[s] < Size(m2, s) /\ Size(m2, s) < hi2[s] /\ hi2[s] <= Bound
    BY <1>1, <1>2, <1>3
  <2>2. left # null => /\ left \in N2 /\ m2.node[left].parent = s
                       /\ lo2[left] = lo2[s] /\ hi2[left] = Size(m2, s)
    BY <1>1, <1>2, <1>3, <1>4, <1>5, <1>7
  <2>3. right # null => /\ right \in N2 /\ m2.node[right].parent = s
                        /\ lo2[right] = Size(m2, s) /\ hi2[right] = hi2[s]
    BY <1>1, <1>2, <1>3, <1>4, <1>5, <1>7
  <2>4. ASSUME s # m2.root
        PROVE  LET up == m2.node[s].parent
               IN  up \in N2 /\ (m2.node[up].left = s \/ m2.node[up].right = s)
    <3> DEFINE up == m.node[p].parent
    <3>1. up \in N /\ (m.node[up].left = p \/ m.node[up].right = p)
      BY <1>2, <1>6, <2>4 DEF NodeJoined
    <3>2. up # p
      BY <3>1, OneParent
    <3> QED BY <1>5, <1>6, <3>1, <3>2
  <2> HIDE DEF N1, N2
  <2> QED BY <1>6, <2>1, <2>2, <2>3, <2>4 DEF NodeJoined
<1>10. ASSUME NEW n \in N1 PROVE NodeJoined(m2, N2, lo2, hi2, n)
  <2>1. /\ n \in N /\ n \in Words /\ n # null /\ n # s /\ NodeJoined(m, N, lo, hi, n)
        /\ lo[n] \in Int /\ hi[n] \in Int /\ Size(m, n) \in Int
        /\ 0 <= lo[n] /\ lo[n] < Size(m, n) /\ Size(m, n) < hi[n] /\ hi[n] <= Bound
        /\ Size(m2, n) = Size(m, n) /\ Size(m, n) # Size(m, p) /\ NodePlaced(m, lo, hi, n, p)
        /\ lo2[n] = (IF lo[n] = Size(m, p) THEN Size(m, s) ELSE lo[n])
        /\ hi2[n] = (IF hi[n] = Size(m, p) THEN Size(m, s) ELSE hi[n])
        /\ InRight(m, lo, hi, n, p) =>
              Size(m, s) < Size(m, n) /\ (lo[n] = Size(m, p) \/ Size(m, s) <= lo[n])
    BY <1>4
  <2>2. 0 <= lo2[n] /\ lo2[n] < Size(m2, n) /\ Size(m2, n) < hi2[n] /\ hi2[n] <= Bound
    BY <1>1, <1>2, <2>1 DEF NodePlaced, InLeft, InRight
  <2>3. ASSUME m2.node[n].left # null
        PROVE  LET l == m2.node[n].left
               IN  /\ l \in N2 /\ m2.node[l].parent = n
                   /\ lo2[l] = lo2[n] /\ hi2[l] = Size(m2, n)
    <3>1. CASE m.node[n].left = p
      <4>1. m2.node[n].left = s /\ m.node[p].parent = n /\ lo[p] = lo[n] /\ hi[p] = Size(m, n)
        BY <1>2, <1>5, <2>1, <3>1 DEF NodeJoined
      <4> QED BY <1>2, <1>3, <1>6, <2>1, <4>1
    <3>2. CASE m.node[n].left # p
      <4> DEFINE l == m.node[n].left
      <4>1. m2.node[n].left = l /\ l # null /\ l \in N1 /\ m.node[l].parent = n /\ lo[l] = lo[n] /\ hi[l] = Size(m, n)
        BY <1>5, <2>1, <2>3, <3>2 DEF NodeJoined
      <4>2. l # left /\ l # right
        BY <1>7, <4>1
      <4>3. m2.node[l].parent = n /\ lo2[l] = lo2[n] /\ hi2[l] = Size(m2, n)
        BY <1>4, <1>5, <2>1, <4>1, <4>2
      <4> QED BY <4>1, <4>3
    <3> QED BY <3>1, <3>2
  <2>4. ASSUME m2.node[n].right # null
        PROVE  LET r == m2.node[n].right
               IN  /\ r \in N2 /\ m2.node[r].parent = n
                   /\ lo2[r] = Size(m2, n) /\ hi2[r] = hi2[n]
    <3>1. CASE m.node[n].right = p
      <4>1. m2.node[n].right = s /\ m.node[p].parent = n /\ lo[p] = Size(m, n) /\ hi[p] = hi[n]
        BY <1>2, <1>5, <2>1, <3>1 DEF NodeJoined
      <4> QED BY <1>2, <1>3, <1>6, <2>1, <4>1
    <3>2. CASE m.node[n].right # p
      <4> DEFINE l == m.node[n].right
      <4>1. m2.node[n].right = l /\ l # null /\ l \in N1 /\ m.node[l].parent = n /\ lo[l] = Size(m, n) /\ hi[l] = hi[n]
        BY <1>5, <2>1, <2>4, <3>2 DEF NodeJoined
      <4>2. l # left /\ l # right
        BY <1>7, <4>1
      <4>3. m2.node[l].parent = n /\ lo2[l] = Size(m2, n) /\ hi2[l] = hi2[n]
        BY <1>4, <1>5, <2>1, <4>1, <4>2
      <4> QED BY <4>1, <4>3
    <3> QED BY <3>1, <3>2
  <2>5. ASSUME n # m2.root
        PROVE  LET up == m2.node[n].parent
               IN  up \in N2 /\ (m2.node[up].left = n \/ m2.node[up].right = n)
    <3>1. CASE n = left \/ n = right
      BY <1>5, <1>6, <3>1
    <3>2. CASE n # left /\ n # right
      <4> DEFINE up == m.node[n].parent
      <4>1. m2.node[n].parent = up /\ n # m.root
        BY <1>5, <1>6, <2>1, <2>5, <3>2
      <4>2. up \in N /\ (m.node[up].left = n \/ m.node[up].right = n)
        BY <2>1, <4>1 DEF NodeJoined
      <4>3. up # p
        BY <3>2, <4>2
      <4>4. m2.node[up].left = n \/ m2.node[up].right = n
        BY <1>5, <4>2, <4>3
      <4> QED BY <4>1, <4>2, <4>3, <4>4
    <3> QED BY <3>1, <3>2
  <2> HIDE DEF N1, N2
  <2> QED BY <2>2, <2>3, <2>4, <2>5 DEF NodeJoined
<1>11. ASSUME NEW n \in N1
       PROVE  /\ m.node[n].left # null => m2.node[n].left # null
              /\ m.node[n].right # null => m2.node[n].right # null
  BY <1>1, <1>5
<1>12. ASSUME NEW n \in N1 PROVE NodePlaced(m2, lo2, hi2, n, s)
  <2>1. /\ lo[n] \in Int /\ hi[n] \in Int /\ Size(m, n) \in Int
        /\ lo[n] < Size(m, n) /\ Size(m, n) < hi[n]
        /\ Size(m2, n) = Size(m, n) /\ Size(m, n) # Size(m, p) /\ NodePlaced(m, lo, hi, n, p)
        /\ lo2[n] = (IF lo[n] = Size(m, p) THEN Size(m, s) ELSE lo[n])
        /\ hi2[n] = (IF hi[n] = Size(m, p) THEN Size(m, s) ELSE hi[n])
        /\ InRight(m, lo, hi, n, p) =>
              Size(m, s) < Size(m, n) /\ (lo[n] = Size(m, p) \/ Size(m, s) <= lo[n])
    BY <1>4
  <2> QED BY <1>1, <1>2, <1>3, <1>6, <1>11, <2>1 DEF NodePlaced, InLeft, InRight
<1>13. ASSUME NEW n \in N1, NEW k \in N1 PROVE NodePlaced(m2, lo2, hi2, k, n)
  <2>1. /\ lo[n] \in Int /\ hi[n] \in Int /\ Size(m, n) \in Int
        /\ lo[n] < Size(m, n) /\ Size(m, n) < hi[n]
        /\ Size(m2, n) = Size(m, n) /\ Size(m, n) # Size(m, p) /\ NodePlaced(m, lo, hi, n, p)
        /\ lo2[n] = (IF lo[n] = Size(m, p) THEN Size(m, s) ELSE lo[n])
        /\ hi2[n] = (IF hi[n] = Size(m, p) THEN Size(m, s) ELSE hi[n])
        /\ InRight(m, lo, hi, n, p) =>
              Size(m, s) < Size(m, n) /\ (lo[n] = Size(m, p) \/ Size(m, s) <= lo[n])
    BY <1>4
  <2>2. /\ lo[k] \in Int /\ hi[k] \in Int /\ Size(m, k) \in Int
        /\ lo[k] < Size(m, k) /\ Size(m, k) < hi[k]
        /\ Size(m2, k) = Size(m, k) /\ Size(m, k) # Size(m, p) /\ NodePlaced(m, lo, hi, k, p)
        /\ lo2[k] = (IF lo[k] = Size(m, p) THEN Size(m, s) ELSE lo[k])
        /\ hi2[k] = (IF hi[k] = Size(m, p) THEN Size(m, s) ELSE hi[k])
        /\ InRight(m, lo, hi, k, p) =>
              Size(m, s) < Size(m, k) /\ (lo[k] = Size(m, p) \/ Size(m, s) <= lo[k])
    BY <1>4
  <2>3. /\ m.node[n].left # null => m2.node[n].left # null
        /\ m.node[n].right # null => m2.node[n].right # null
        /\ m.node[k].left # null => m2.node[k].left # null
        /\ m.node[k].right # null => m2.node[k].right # null
    BY <1>11
  <2>4. NodePlaced(m, lo, hi, k, n)
    BY DEF Tree
  <2>5. CASE n = k
    BY <2>5 DEF NodePlaced
  <2>6. CASE InLeft(m, lo, hi, k, n)
    <3>1. lo2[n] <= lo2[k] /\ hi2[k] <= Size(m, n)
      BY <1>1, <1>2, <2>1, <2>2, <2>6 DEF NodePlaced, InLeft, InRight
    <3> QED BY <2>1, <2>3, <2>6, <3>1 DEF NodePlaced, InLeft
  <2>7. CASE InLeft(m, lo, hi, n, k)
    <3>1. lo2[k] <= lo2[n] /\ hi2[n] <= Size(m, k)
      BY <1>1, <1>2, <2>1, <2>2, <2>7 DEF NodePlaced, InLeft, InRight
    <3> QED BY <2>2, <2>3, <2>7, <3>1 DEF NodePlaced, InLeft
  <2>8. CASE InRight(m, lo, hi, k, n)
    <3>1. Size(m, n) <= lo2[k] /\ hi2[k] <= hi2[n]
      BY <1>1, <1>2, <2>1, <2>2, <2>8 DEF NodePlaced, InLeft, InRight
    <3> QED BY <2>1, <2>3, <2>8, <3>1 DEF NodePlaced, InRight
  <2>9. CASE InRight(m, lo, hi, n, k)
    <3>1. Size(m, k) <= lo2[n] /\ hi2[n] <= hi2[k]
      BY <1>1, <1>2, <2>1, <2>2, <2>9 DEF NodePlaced, InLeft, InRight
    <3> QED BY <2>2, <2>3, <2>9, <3>1 DEF NodePlaced, InRight
  <2>10. CASE hi[k] <= lo[n]
    <3>1. hi2[k] <= lo2[n]
      BY <1>1, <1>2, <2>1, <2>2, <2>10 DEF NodePlaced, InLeft, InRight
    <3> QED BY <3>1 DEF NodePlaced
  <2>11. CASE hi[n] <= lo[k]
    <3>1. hi2[n] <= lo2[k]
      BY <1>1, <1>2, <2>1, <2>2, <2>11 DEF NodePlaced, InLeft, InRight
    <3> QED BY <3>1 DEF NodePlaced
  <2> QED BY <2>4, <2>5, <2>6, <2>7, <2>8, <2>9, <2>10, <2>11 DEF NodePlaced
<1>14. \A n, k \in N2 : NodePlaced(m2, lo2, hi2, k, n)
  <2>1. NodePlaced(m2, lo2, hi2, s, s) /\ \A n \in N1 : NodePlaced(m2, lo2, hi2, s, n)
    <3>1. ASSUME NEW n \in N1 PROVE NodePlaced(m2, lo2, hi2, s, n)
      <4>1. NodePlaced(m2, lo2, hi2, n, s)
        BY <1>12
      <4> QED BY <4>1 DEF NodePlaced
    <3>2. NodePlaced(m2, lo2, hi2, s, s)
      BY DEF NodePlaced
    <3> QED BY <3>1, <3>2
  <2> QED BY <1>12, <1>13, <2>1
<1>15. m2 \in Arena!Manager /\ N2 \in SUBSET Words
  BY <1>1 DEF Substituted
<1>16. \A n \in N2 : NodeJoined(m2, N2, lo2, hi2, n)
  BY <1>9, <1>10
<1> HIDE DEF N2, N1
<1>17. Tree(m2, N2, lo2, hi2)
  BY <1>3, <1>8, <1>14, <1>15, <1>16 DEF Tree
<1> QED BY <1>17 DEF N1, N2, lo2, hi2

LEMMA SameRestTransitive ==
    ASSUME NEW m, NEW m2, NEW m3, SameRest(m2, m), SameRest(m3, m2)
    PROVE  SameRest(m3, m)
BY DEF SameRest

(* The successor, once it is taken out of the right subtree, is the next   *)
(* larger node.                                                            *)
LEMMA SuccessorNext ==
    ASSUME NEW m, NEW N, NEW lo, NEW hi, Tree(m, N, lo, hi), NEW p \in N, NEW s \in N, s # p,
           lo[s] = Size(m, p), hi[s] <= hi[p], m.node[s].left = null,
           NEW out, Bypassed(out, m, N, s, m.node[s].right)
    PROVE  NextInSize(out, N \ {s}, Shift(lo, Size(m, s), lo[s]), Shift(hi, Size(m, s), hi[s]), p, s)
<1> DEFINE N1 == N \ {s}
           lo1 == Shift(lo, Size(m, s), lo[s])
           hi1 == Shift(hi, Size(m, s), hi[s])
<1>1. /\ lo[p] \in Int /\ hi[p] \in Int /\ Size(m, p) \in Int /\ p \in Words
      /\ lo[p] < Size(m, p) /\ Size(m, p) < hi[p]
      /\ lo[s] \in Int /\ hi[s] \in Int /\ Size(m, s) \in Int /\ s \in Words
      /\ lo[s] < Size(m, s) /\ Size(m, s) < hi[s]
      /\ Size(out, p) = Size(m, p) /\ Size(out, s) = Size(m, s)
  BY NodeFacts DEF Bypassed, SameRest
<1>2. \A k \in Words : /\ lo1[k] = IF lo[k] = Size(m, s) THEN lo[s] ELSE lo[k]
                       /\ hi1[k] = IF hi[k] = Size(m, s) THEN hi[s] ELSE hi[k]
  BY DEF Shift
<1> HIDE DEF lo1, hi1
<1>3. hi1[p] = hi[p] /\ Size(m, p) < Size(m, s) /\ Size(m, s) < hi1[p]
  BY <1>1, <1>2
<1>4. ASSUME NEW k \in N1, InRight(out, lo1, hi1, k, p)
      PROVE  Size(out, s) < Size(out, k) /\ (lo1[k] = Size(out, p) \/ Size(out, s) <= lo1[k])
  <2>1. k \in N /\ k # s /\ k \in Words /\ NodePlaced(m, lo, hi, k, s)
    BY NodeFacts DEF Tree
  <2>2. /\ lo[k] \in Int /\ hi[k] \in Int /\ Size(m, k) \in Int
        /\ lo[k] < Size(m, k) /\ Size(m, k) < hi[k] /\ Size(out, k) = Size(m, k)
    BY <2>1, NodeFacts DEF Bypassed, SameRest
  <2>3. Size(m, p) <= lo1[k] /\ hi1[k] <= hi[p]
    BY <1>1, <1>3, <1>4 DEF InRight
  <2>4. /\ lo1[k] = IF lo[k] = Size(m, s) THEN lo[s] ELSE lo[k]
        /\ hi1[k] = IF hi[k] = Size(m, s) THEN hi[s] ELSE hi[k]
    BY <1>2, <2>1
  <2> QED BY <1>1, <1>3, <2>1, <2>2, <2>3, <2>4 DEF NodePlaced, InLeft, InRight
<1> QED BY <1>1, <1>3, <1>4 DEF NextInSize, lo1, hi1

(* remove_node_from_tree takes out this node only.                         *)
LEMMA NodeRemoved ==
    ASSUME NEW m, NEW N, NEW lo, NEW hi, Tree(m, N, lo, hi), NEW p \in N,
           NEW m2, m2 = Arena!remove_node_from_tree(m, p)
    PROVE  SameRest(m2, m) /\ \E lo2, hi2 : Tree(m2, N \ {p}, lo2, hi2)
<1> DEFINE left == m.node[p].left
           right == m.node[p].right
<1>1. /\ m \in Arena!Manager /\ N \in SUBSET Words /\ null \notin Words /\ p \in Words
      /\ left \in WordPointers /\ right \in WordPointers /\ NodeJoined(m, N, lo, hi, p)
      /\ lo[p] \in Int /\ hi[p] \in Int /\ Size(m, p) \in Int
      /\ 0 <= lo[p] /\ lo[p] < Size(m, p) /\ Size(m, p) < hi[p]
  BY NodeFacts, ManagerFields DEF Tree
<1>2. CASE left = null \/ right = null
  <2> DEFINE c == IF left # null THEN left ELSE right
  <2>1. c \in WordPointers
    BY <1>1
  <2>2. m2 = Arena!replace_node_in_parent(m, p, c)
    BY <1>2 DEF Arena!remove_node_from_tree
  <2> HIDE DEF c
  <2>3. Bypassed(m2, m, N, p, c)
    BY <2>1, <2>2, ReplaceInParent
  <2>4. Tree(m2, N \ {p}, Shift(lo, Size(m, p), lo[p]), Shift(hi, Size(m, p), hi[p]))
    BY <1>2, <2>3, NodeBypassed DEF c
  <2> QED BY <2>3, <2>4 DEF Bypassed
<1>3. CASE left # null /\ right # null
  <2> DEFINE s == Arena!successor(m, p)
             sp == m.node[s].parent
             c == m.node[s].right
  <2>1. s \in N /\ lo[s] = Size(m, p) /\ hi[s] <= hi[p] /\ m.node[s].left = null
    BY <1>3, SuccessorFound
  <2>2. m2 = IF sp = p
             THEN Arena!set_left_child(Arena!replace_node_in_parent(m, p, s), s, left)
             ELSE LET out == Arena!set_left_child(m, sp, c)
                      up == Arena!replace_node_in_parent(out, p, s)
                  IN Arena!set_right_child(Arena!set_left_child(up, s, out.node[p].left), s, out.node[p].right)
    BY <1>3 DEF Arena!remove_node_from_tree
  <2> HIDE DEF s
  <2>3. /\ s \in Words /\ s # null /\ s \in WordPointers /\ NodeJoined(m, N, lo, hi, s) /\ s # p
        /\ lo[s] \in Int /\ hi[s] \in Int /\ Size(m, s) \in Int
        /\ lo[s] < Size(m, s) /\ Size(m, s) < hi[s] /\ Size(m, p) < Size(m, s)
        /\ c \in WordPointers
    BY <1>1, <2>1, NodeFacts, ManagerFields DEF WordPointers
  <2>4. s # m.root
    BY <1>1, <2>1 DEF Tree, Rooted
  <2>5. sp \in N /\ sp \in Words /\ (m.node[sp].left = s \/ m.node[sp].right = s)
    BY <1>1, <2>3, <2>4 DEF NodeJoined
  <2>6. \A n \in N : (m.node[n].left = s \/ m.node[n].right = s) => n = sp
    BY <2>1, OneParent
  <2>7. ~(m.node[sp].left = s /\ m.node[sp].right = s)
    BY <2>1, <2>5, OneParent
  <2>8. c # p /\ (c # null => c \in N /\ m.node[c].parent = s /\ c # s)
    <3>1. c # null => c \in N /\ m.node[c].parent = s /\ lo[c] = Size(m, s)
      BY <2>3 DEF NodeJoined
    <3> QED BY <1>1, <2>1, <2>3, <3>1
  <2>9. ASSUME NEW out, Bypassed(out, m, N, s, c), Substituted(m2, out, N \ {s}, p, s)
        PROVE  SameRest(m2, m) /\ \E lo2, hi2 : Tree(m2, N \ {p}, lo2, hi2)
    <3> DEFINE N1 == N \ {s}
               lo1 == Shift(lo, Size(m, s), lo[s])
               hi1 == Shift(hi, Size(m, s), hi[s])
    <3>1. Tree(out, N1, lo1, hi1)
      <4>1. c = IF m.node[s].left # null THEN m.node[s].left ELSE m.node[s].right
        BY <2>1
      <4> QED BY <2>1, <2>9, <4>1, NodeBypassed
    <3>2. NextInSize(out, N1, lo1, hi1, p, s)
      BY <2>1, <2>3, <2>9, SuccessorNext
    <3>3. p \in N1 /\ s \notin N1 /\ (N1 \ {p}) \cup {s} = N \ {p}
      BY <2>1, <2>3
    <3> HIDE DEF N1, lo1, hi1
    <3>4. \E lo2, hi2 : Tree(m2, (N1 \ {p}) \cup {s}, lo2, hi2)
      <4>1. Substituted(m2, out, N1, p, s)
        BY <2>9 DEF N1
      <4> QED BY <2>3, <3>1, <3>2, <3>3, <4>1, NodeSubstituted
    <3>5. SameRest(m2, m)
      BY <2>9, SameRestTransitive DEF Bypassed, Substituted
    <3> QED BY <3>3, <3>4, <3>5
  <2>10. CASE sp = p
    <3>1. m.node[p].right = s /\ left # s
      <4>1. left = s => hi[s] = Size(m, p)
        BY <1>1, <2>3 DEF NodeJoined
      <4> QED BY <2>1, <2>3, <2>5, <2>10, <4>1
    <3> DEFINE out == Arena!set_right_child(m, p, c)
    <3>2. /\ out \in Arena!Manager /\ out.root = m.root /\ SameRest(out, m)
          /\ \A q \in Words :
               /\ out.node[q].left = m.node[q].left
               /\ out.node[q].right = IF q = p THEN c ELSE m.node[q].right
               /\ out.node[q].parent = IF q = c THEN p ELSE m.node[q].parent
      <4>1. m \in Arena!Manager /\ p \in Words /\ c \in WordPointers
        BY <1>1, <2>3
      <4> HIDE DEF c
      <4> QED BY ONLY <4>1, SetRightChild
    <3> HIDE DEF out
    <3>3. Bypassed(out, m, N, s, c)
      BY <1>1, <2>4, <2>6, <2>7, <2>10, <3>1, <3>2 DEF Bypassed
    <3> DEFINE rep == Arena!replace_node_in_parent(m, p, s)
    <3>4. Bypassed(rep, m, N, p, s)
      BY <2>3, ReplaceInParent
    <3>5. m2 = Arena!set_left_child(rep, s, left)
      BY <2>2, <2>10
    <3> HIDE DEF rep
    <3>6. /\ m2 \in Arena!Manager /\ m2.root = rep.root /\ SameRest(m2, rep)
          /\ \A q \in Words :
               /\ m2.node[q].left = IF q = s THEN left ELSE rep.node[q].left
               /\ m2.node[q].right = rep.node[q].right
               /\ m2.node[q].parent = IF q = left THEN s ELSE rep.node[q].parent
      <4>1. rep \in Arena!Manager /\ s \in Words /\ left \in WordPointers
        BY <1>1, <2>3, <3>4 DEF Bypassed
      <4> HIDE DEF left
      <4> QED BY ONLY <3>5, <4>1, SetLeftChild
    <3>7. SameRest(m2, out)
      BY <3>2, <3>4, <3>6 DEF SameRest, Bypassed
    <3>8. m2.root = IF out.root = p THEN s ELSE out.root
      BY <3>2, <3>4, <3>6 DEF Bypassed
    <3>9. ASSUME NEW n \in (N \ {s}) \ {p}
          PROVE  /\ m2.node[n].left = IF out.node[n].left = p THEN s ELSE out.node[n].left
                 /\ m2.node[n].right = IF out.node[n].right = p THEN s ELSE out.node[n].right
                 /\ m2.node[n].parent = IF n = out.node[p].left \/ n = out.node[p].right THEN s
                                        ELSE out.node[n].parent
      <4>1. n \in N /\ n \in Words /\ n # s /\ n # p /\ n # null
        BY <1>1
      <4>2. /\ rep.node[n].left = IF m.node[n].left = p THEN s ELSE m.node[n].left
            /\ rep.node[n].right = IF m.node[n].right = p THEN s ELSE m.node[n].right
            /\ rep.node[n].parent = m.node[n].parent
        BY <3>4, <4>1 DEF Bypassed
      <4>3. m2.node[n].parent = IF n = left THEN s ELSE m.node[n].parent
        BY <3>6, <4>1, <4>2
      <4>4. out.node[p].left = left /\ out.node[p].right = c /\ out.node[n].parent = IF n = c THEN p ELSE m.node[n].parent
        BY <1>1, <3>2, <4>1
      <4>5. n = c => m.node[n].parent = s
        BY <2>8, <4>1
      <4> QED BY <3>2, <3>6, <4>1, <4>2, <4>3, <4>4, <4>5
    <3>10. /\ m2.node[s].left = out.node[p].left /\ m2.node[s].right = out.node[p].right
           /\ m2.node[s].parent = out.node[p].parent
      <4>1. rep.node[s].right = c /\ rep.node[s].parent = m.node[p].parent
        BY <2>1, <2>3, <2>8, <3>4 DEF Bypassed
      <4>2. m2.node[s].parent = m.node[p].parent
        BY <2>3, <3>1, <3>6, <4>1
      <4> QED BY <1>1, <2>3, <2>8, <3>2, <3>6, <4>1, <4>2
    <3>11. Substituted(m2, out, N \ {s}, p, s)
      BY <3>6, <3>7, <3>8, <3>9, <3>10 DEF Substituted
    <3> QED BY <2>9, <3>3, <3>11
  <2>11. CASE sp # p
    <3>1. m.node[sp].left = s /\ m.node[sp].right # s
      <4>1. m.node[sp].right = s => lo[s] = Size(m, sp)
        BY <2>3, <2>5, NodeFacts DEF NodeJoined
      <4>2. Size(m, sp) # Size(m, p)
        BY <2>5, <2>11, TreeSides
      <4> QED BY <2>1, <2>5, <4>1, <4>2
    <3> DEFINE out == Arena!set_left_child(m, sp, c)
    <3>2. /\ out \in Arena!Manager /\ out.root = m.root /\ SameRest(out, m)
          /\ \A q \in Words :
               /\ out.node[q].left = IF q = sp THEN c ELSE m.node[q].left
               /\ out.node[q].right = m.node[q].right
               /\ out.node[q].parent = IF q = c THEN sp ELSE m.node[q].parent
      <4>1. m \in Arena!Manager /\ sp \in Words /\ c \in WordPointers
        BY <1>1, <2>3, <2>5
      <4> HIDE DEF c, sp
      <4> QED BY ONLY <4>1, SetLeftChild
    <3> DEFINE up == Arena!replace_node_in_parent(out, p, s)
               ol == out.node[p].left
               or == out.node[p].right
               l == Arena!set_left_child(up, s, ol)
    <3>3. m2 = Arena!set_right_child(l, s, or)
      BY <2>2, <2>11
    <3> HIDE DEF out
    <3>4. Bypassed(out, m, N, s, c)
      BY <1>1, <2>4, <2>6, <2>7, <3>1, <3>2 DEF Bypassed
    <3>5. Tree(out, N \ {s}, Shift(lo, Size(m, s), lo[s]), Shift(hi, Size(m, s), hi[s]))
      <4>1. c = IF m.node[s].left # null THEN m.node[s].left ELSE m.node[s].right
        BY <2>1
      <4> QED BY <2>1, <3>4, <4>1, NodeBypassed
    <3>6. p \in N \ {s}
      BY <2>3
    <3>7. Bypassed(up, out, N \ {s}, p, s)
      BY <2>3, <3>5, <3>6, ReplaceInParent
    <3>8. ol \in WordPointers /\ or \in WordPointers /\ ol # s /\ or # s
      <4>1. NodeJoined(out, N \ {s}, Shift(lo, Size(m, s), lo[s]), Shift(hi, Size(m, s), hi[s]), p)
        BY <3>5, <3>6, NodeFacts
      <4>2. (ol # null => ol \in N \ {s}) /\ (or # null => or \in N \ {s})
        BY <4>1 DEF NodeJoined
      <4> QED BY <1>1, <2>3, <3>2, <4>2, ManagerFields
    <3> HIDE DEF up
    <3>9. /\ l \in Arena!Manager /\ l.root = up.root /\ SameRest(l, up)
          /\ \A q \in Words :
               /\ l.node[q].left = IF q = s THEN ol ELSE up.node[q].left
               /\ l.node[q].right = up.node[q].right
               /\ l.node[q].parent = IF q = ol THEN s ELSE up.node[q].parent
      <4>1. up \in Arena!Manager
        BY <3>7 DEF Bypassed
      <4>2. s \in Words /\ ol \in WordPointers
        BY <2>3, <3>8
      <4> HIDE DEF ol
      <4> QED BY ONLY <4>1, <4>2, SetLeftChild
    <3> HIDE DEF l
    <3>10. /\ m2 \in Arena!Manager /\ m2.root = l.root /\ SameRest(m2, l)
           /\ \A q \in Words :
                /\ m2.node[q].left = l.node[q].left
                /\ m2.node[q].right = IF q = s THEN or ELSE l.node[q].right
                /\ m2.node[q].parent = IF q = or THEN s ELSE l.node[q].parent
      <4>1. l \in Arena!Manager /\ s \in Words /\ or \in WordPointers
        BY <2>3, <3>8, <3>9
      <4> HIDE DEF or
      <4> QED BY ONLY <3>3, <4>1, SetRightChild
    <3>11. SameRest(m2, out)
      BY <3>7, <3>9, <3>10, SameRestTransitive DEF Bypassed
    <3>12. m2.root = IF out.root = p THEN s ELSE out.root
      BY <3>7, <3>9, <3>10 DEF Bypassed
    <3>13. ASSUME NEW n \in (N \ {s}) \ {p}
           PROVE  /\ m2.node[n].left = IF out.node[n].left = p THEN s ELSE out.node[n].left
                  /\ m2.node[n].right = IF out.node[n].right = p THEN s ELSE out.node[n].right
                  /\ m2.node[n].parent = IF n = ol \/ n = or THEN s ELSE out.node[n].parent
      <4>1. n \in N \ {s} /\ n \in Words /\ n # s
        BY <1>1
      <4>2. /\ up.node[n].left = IF out.node[n].left = p THEN s ELSE out.node[n].left
            /\ up.node[n].right = IF out.node[n].right = p THEN s ELSE out.node[n].right
            /\ up.node[n].parent = out.node[n].parent
        BY <3>7, <4>1 DEF Bypassed
      <4> QED BY <3>9, <3>10, <4>1, <4>2
    <3>14. /\ m2.node[s].left = ol /\ m2.node[s].right = or
           /\ m2.node[s].parent = out.node[p].parent
      <4>1. up.node[s].parent = out.node[p].parent
        BY <2>3, <3>7 DEF Bypassed
      <4> QED BY <2>3, <3>8, <3>9, <3>10, <4>1
    <3>15. Substituted(m2, out, N \ {s}, p, s)
      BY <3>10, <3>11, <3>12, <3>13, <3>14 DEF Substituted
    <3> QED BY <2>9, <3>4, <3>15
  <2> QED BY <2>10, <2>11
<1> QED BY <1>2, <1>3

Without(home, p) == [home EXCEPT ![p] = null]

(* Without the first block behind a node.                                  *)
LEMMA NextRemoved ==
    ASSUME NEW m, NEW N, NEW lo, NEW hi, Tree(m, N, lo, hi),
           NEW home, NEW rank, SizeLists(m, N, home, rank),
           NEW a \in N, NEW p, p = m.node[a].next, p # null,
           NEW m2 \in Arena!Manager, m2.root = m.root,
           \A q \in Words : /\ Size(m2, q) = Size(m, q)
                            /\ m2.node[q].left = m.node[q].left
                            /\ m2.node[q].right = m.node[q].right
                            /\ m2.node[q].parent = m.node[q].parent
                            /\ m2.node[q].next = IF q = a THEN m.node[p].next ELSE m.node[q].next
    PROVE  /\ p \in Words /\ home[p] # null /\ Size(m, p) = Size(m, a) /\ p \notin N
           /\ Tree(m2, N, lo, hi) /\ SizeLists(m2, N, Without(home, p), rank)
<1> DEFINE home2 == Without(home, p)
<1>1. /\ m \in Arena!Manager /\ N \in SUBSET Words /\ null \notin Words /\ a \in Words
      /\ home \in [Words -> WordPointers] /\ rank \in [Words -> Nat] /\ home[a] = a
  BY ManagerFields DEF Tree, SizeLists
<1>2. Linked(m, N, home, rank, a)
  BY <1>1 DEF SizeLists
<1>3. p \in Words /\ p \notin N /\ home[p] = a /\ rank[p] < rank[a] /\ p # a /\ rank[p] \in Nat
  BY <1>1, <1>2 DEF Linked
<1>4. Linked(m, N, home, rank, p)
  BY <1>1, <1>3 DEF SizeLists
<1>5. Size(m, p) = Size(m, a) /\ home[p] # null
  BY <1>1, <1>3, <1>4 DEF Linked
<1>6. Tree(m2, N, lo, hi)
  BY <1>1, TreeSame
<1>7. home2 \in [Words -> WordPointers] /\ home2[p] = null /\ \A q \in Words \ {p} : home2[q] = home[q]
  BY <1>1, <1>3 DEF WordPointers, Without
<1> HIDE DEF home2
<1>8. \A h \in Words : home[h] # null /\ m.node[h].next = p => h = a
  BY <1>1 DEF SizeLists
<1>9. ASSUME NEW h \in Words, home2[h] # null PROVE Linked(m2, N, home2, rank, h)
  <2>1. h # p /\ home2[h] = home[h] /\ home[h] # null /\ Linked(m, N, home, rank, h)
    BY <1>7, <1>9 DEF SizeLists
  <2>2. home[h] \in N /\ home[h] \in Words /\ Size(m2, h) = Size(m2, home2[h])
    BY <1>1, <2>1 DEF Linked
  <2>3. ASSUME m2.node[h].next # null
        PROVE  LET next == m2.node[h].next
               IN  next \in Words /\ next \notin N /\ home2[next] = home2[h] /\ rank[next] < rank[h]
    <3>1. CASE h = a
      <4> DEFINE next == m.node[p].next
      <4>1. m2.node[h].next = next /\ next # null
        BY <2>3, <3>1
      <4>2. next \in Words /\ next \notin N /\ home[next] = a /\ rank[next] < rank[p] /\ rank[next] \in Nat /\ next # p
        BY <1>1, <1>3, <1>4, <4>1 DEF Linked
      <4>3. home2[next] = a /\ rank[next] < rank[a] /\ rank[a] \in Nat
        BY <1>1, <1>3, <1>7, <4>2
      <4> QED BY <1>1, <2>1, <3>1, <4>1, <4>2, <4>3
    <3>2. CASE h # a
      <4> DEFINE next == m.node[h].next
      <4>1. m2.node[h].next = next /\ next # null
        BY <2>3, <3>2
      <4>2. next # p
        BY <1>8, <2>1, <3>2
      <4>3. next \in Words /\ next \notin N /\ home[next] = home[h] /\ rank[next] < rank[h]
        BY <2>1, <4>1 DEF Linked
      <4> QED BY <1>7, <2>1, <4>1, <4>2, <4>3
    <3> QED BY <3>1, <3>2
  <2>4. ASSUME h \notin N PROVE \E g \in Words : home2[g] # null /\ m2.node[g].next = h
    <3>1. PICK g \in Words : home[g] # null /\ m.node[g].next = h
      BY <2>1, <2>4 DEF Linked
    <3>2. CASE g = p
      <4>1. home2[a] # null /\ m2.node[a].next = h
        BY <1>1, <1>3, <1>7, <3>1, <3>2
      <4> QED BY <1>1, <4>1
    <3>3. CASE g # p
      <4>1. g # a
        BY <2>1, <3>1
      <4> QED BY <1>7, <3>1, <3>3, <4>1
    <3> QED BY <3>2, <3>3
  <2> QED BY <2>1, <2>2, <2>3, <2>4 DEF Linked
<1>10. ASSUME NEW g \in Words, NEW h \in Words, home2[g] # null, home2[h] # null,
              m2.node[g].next = m2.node[h].next, m2.node[h].next # null
       PROVE  g = h
  <2>1. \A x, y \in Words : home[x] # null /\ home[y] # null /\ m.node[x].next = m.node[y].next
                              /\ m.node[y].next # null => x = y
    BY DEF SizeLists
  <2>2. g # p /\ h # p /\ home[g] # null /\ home[h] # null
    BY <1>7, <1>10
  <2> QED BY <1>1, <1>3, <1>5, <1>10, <2>1, <2>2
<1>11. \A n \in N : home2[n] = n
  BY <1>1, <1>3, <1>7 DEF SizeLists
<1>12. SizeLists(m2, N, home2, rank)
  BY <1>1, <1>7, <1>9, <1>10, <1>11 DEF SizeLists
<1> QED BY <1>3, <1>5, <1>6, <1>12 DEF home2

(* Without a node that nothing waits behind.                               *)
LEMMA LoneNodeRemoved ==
    ASSUME NEW m \in Arena!Manager, NEW N \in SUBSET Words, NEW home, NEW rank, SizeLists(m, N, home, rank),
           NEW p \in N, m.node[p].next = null,
           NEW m2, SameRest(m2, m)
    PROVE  SizeLists(m2, N \ {p}, Without(home, p), rank)
<1> DEFINE home2 == Without(home, p)
           N2 == N \ {p}
<1>1. /\ null \notin Words /\ p \in Words
      /\ home \in [Words -> WordPointers] /\ rank \in [Words -> Nat] /\ home[p] = p
  BY ManagerFields DEF SizeLists
<1>2. home2 \in [Words -> WordPointers] /\ home2[p] = null /\ \A q \in Words \ {p} : home2[q] = home[q]
  BY <1>1 DEF WordPointers, Without
<1> HIDE DEF home2
<1>3. \A h \in Words : home[h] = p => h = p
  BY LoneHead
<1>4. ASSUME NEW h \in Words, home2[h] # null PROVE Linked(m2, N2, home2, rank, h)
  <2>1. h # p /\ home2[h] = home[h] /\ home[h] # null /\ Linked(m, N, home, rank, h)
    BY <1>2, <1>4 DEF SizeLists
  <2>2. home[h] \in N2 /\ home[h] \in Words
    BY <1>3, <2>1 DEF Linked
  <2>3. Size(m2, h) = Size(m2, home2[h]) /\ m2.node[h].next = m.node[h].next
    BY <2>1, <2>2 DEF Linked, SameRest
  <2> DEFINE next == m.node[h].next
  <2>4. next # null => next \in Words /\ next \notin N2 /\ home2[next] = home2[h] /\ rank[next] < rank[h]
    BY <1>2, <2>1 DEF Linked
  <2>5. ASSUME h \notin N2 PROVE \E g \in Words : home2[g] # null /\ m2.node[g].next = h
    <3>1. PICK g \in Words : home[g] # null /\ m.node[g].next = h
      BY <2>1, <2>5 DEF Linked
    <3>2. g # p
      BY <1>1, <3>1
    <3> QED BY <1>2, <3>1, <3>2 DEF SameRest
  <2> HIDE DEF N2
  <2> QED BY <2>1, <2>2, <2>3, <2>4, <2>5 DEF Linked
<1>5. ASSUME NEW g \in Words, NEW h \in Words, home2[g] # null, home2[h] # null,
             m2.node[g].next = m2.node[h].next, m2.node[h].next # null
      PROVE  g = h
  <2>1. home[g] # null /\ home[h] # null
    BY <1>2, <1>5
  <2>2. m2.node[g].next = m.node[g].next /\ m2.node[h].next = m.node[h].next
    BY DEF SameRest
  <2> QED BY <1>5, <2>1, <2>2 DEF SizeLists
<1>6. \A n \in N2 : home2[n] = n
  BY <1>2 DEF SizeLists
<1> HIDE DEF N2
<1>7. SizeLists(m2, N2, home2, rank)
  BY <1>1, <1>2, <1>4, <1>5, <1>6 DEF SizeLists
<1> QED BY <1>7 DEF N2, home2

(* One word fewer has a home: one block fewer.                             *)
LEMMA BlockRemoved ==
    ASSUME NEW m, NEW m2, NEW home \in [Words -> WordPointers], NEW p \in Words,
           \A q \in Words : Size(m2, q) = Size(m, q)
    PROVE  TreeBlocks(m2, Without(home, p)) =
             TreeBlocks(m, home) \ {[p |-> p, words |-> Size(m, p)]}
<1> DEFINE home2 == Without(home, p)
<1>1. {x \in Words : home2[x] # null} = {x \in Words : home[x] # null} \ {p}
  BY DEF Without
<1> HIDE DEF home2
<1>2. \A x, y \in Words : [p |-> x, words |-> Size(m, x)] = [p |-> y, words |-> Size(m, y)] => x = y
  OBVIOUS
<1> QED BY <1>1, <1>2 DEF TreeBlocks, home2

(* BlockTree::remove_node takes out one block of the size that was found,  *)
(* and counts it.                                                          *)
LEMMA RemoveMetaNode ==
    ASSUME NEW m, NEW N, NEW lo, NEW hi, Tree(m, N, lo, hi),
           NEW home, NEW rank, SizeLists(m, N, home, rank),
           NEW found \in N, NEW m2, m2 = Arena!remove_meta_node(m, found),
           NEW b, b = [p |-> Arena!removed_node(m, found), words |-> Size(m, found)]
    PROVE  /\ b \in TreeBlocks(m, home) /\ Forest(m2, TreeBlocks(m, home) \ {b})
           /\ m2.bin = m.bin /\ m2.small = m.small /\ m2.tree = m.tree - b.words
<1> DEFINE next == m.node[found].next
           tree2 == m.tree - Size(m, found)
<1>1. /\ m \in Arena!Manager /\ N \in SUBSET Words /\ null \notin Words /\ found \in Words
      /\ home \in [Words -> WordPointers] /\ home[found] = found /\ tree2 \in Int /\ next \in WordPointers
  BY ManagerFields DEF Tree, SizeLists
<1>2. ASSUME NEW p \in Words, home[p] # null, Size(m, p) = Size(m, found), b.p = p,
             NEW taken, NEW N2, NEW lo2, NEW hi2,
             taken.bin = m.bin, taken.small = m.small, \A q \in Words : Size(taken, q) = Size(m, q),
             Tree(taken, N2, lo2, hi2), SizeLists(taken, N2, Without(home, p), rank),
             m2 = WithNode(taken, p, 0, tree2)
      PROVE  /\ b \in TreeBlocks(m, home) /\ Forest(m2, TreeBlocks(m, home) \ {b})
             /\ m2.bin = m.bin /\ m2.small = m.small /\ m2.tree = m.tree - b.words
  <2> DEFINE home2 == Without(home, p)
  <2>1. b = [p |-> p, words |-> Size(m, p)] /\ b.words = Size(m, found)
    BY <1>2
  <2>2. b \in TreeBlocks(m, home)
    BY <1>2, <2>1 DEF TreeBlocks
  <2>3. home2[p] = null
    BY <1>1 DEF Without
  <2>4. TreeBlocks(taken, home2) = TreeBlocks(m, home) \ {b}
    BY <1>1, <1>2, <2>1, BlockRemoved
  <2> HIDE DEF home2
  <2>5. SizeLists(taken, N2, home2, rank)
    BY <1>2 DEF home2
  <2>6. /\ Tree(m2, N2, lo2, hi2) /\ SizeLists(m2, N2, home2, rank)
        /\ m2.bin = taken.bin /\ m2.small = taken.small /\ m2.tree = tree2
        /\ TreeBlocks(m2, home2) = TreeBlocks(taken, home2)
    <3>1. 0 \in Nat /\ tree2 \in Int
      BY <1>1
    <3>2. Tree(taken, N2, lo2, hi2) /\ m2 = WithNode(taken, p, 0, tree2)
      BY <1>2
    <3> HIDE DEF tree2
    <3> QED BY ONLY <2>3, <2>5, <3>1, <3>2, p \in Words, Made
  <2>7. Forest(m2, TreeBlocks(m, home) \ {b})
    BY <2>4, <2>6 DEF Forest
  <2> QED BY <1>2, <2>1, <2>2, <2>6, <2>7
<1>3. CASE next # null
  <2> DEFINE taken == [m EXCEPT !.node[found].next = m.node[next].next]
  <2>1. m2 = WithNode(taken, next, 0, tree2)
    BY <1>3 DEF Arena!remove_meta_node, WithNode, Size
  <2>2. b.p = next
    BY <1>3 DEF Arena!removed_node
  <2>3. next \in Words /\ m.node[next].next \in WordPointers
    BY <1>1, <1>3, ManagerFields DEF WordPointers
  <2>4. /\ taken \in Arena!Manager /\ taken.root = m.root
        /\ taken.bin = m.bin /\ taken.small = m.small /\ taken.tree = m.tree
        /\ \A q \in Words : /\ Size(taken, q) = Size(m, q)
                            /\ taken.node[q].left = m.node[q].left
                            /\ taken.node[q].right = m.node[q].right
                            /\ taken.node[q].parent = m.node[q].parent
                            /\ taken.node[q].next = IF q = found THEN m.node[next].next ELSE m.node[q].next
    <3>1. m.node[next].next \in Arena!Pointers
      BY <2>3 DEF WordPointers, Arena!Pointers
    <3> QED BY <1>1, <3>1 DEF Arena!Manager, Size
  <2> HIDE DEF taken
  <2>5. /\ home[next] # null /\ Size(m, next) = Size(m, found)
        /\ Tree(taken, N, lo, hi) /\ SizeLists(taken, N, Without(home, next), rank)
    BY <1>3, <2>4, NextRemoved
  <2>6. taken.bin = m.bin /\ taken.small = m.small /\ \A q \in Words : Size(taken, q) = Size(m, q)
    BY <2>4
  <2>7. next \in Words
    BY <2>3
  <2> HIDE DEF next, tree2
  <2> QED BY <1>2, <2>1, <2>2, <2>5, <2>6, <2>7
<1>4. CASE next = null
  <2> DEFINE taken == Arena!remove_node_from_tree(m, found)
  <2>1. m2 = WithNode(taken, found, 0, tree2)
    BY <1>4 DEF Arena!remove_meta_node, WithNode, Size
  <2>2. b.p = found
    BY <1>4 DEF Arena!removed_node
  <2>3. SameRest(taken, m) /\ \E lo2, hi2 : Tree(taken, N \ {found}, lo2, hi2)
    BY NodeRemoved
  <2> HIDE DEF taken
  <2>4. PICK lo2, hi2 : Tree(taken, N \ {found}, lo2, hi2)
    BY <2>3
  <2>5. SizeLists(taken, N \ {found}, Without(home, found), rank)
    BY <1>1, <1>4, <2>3, LoneNodeRemoved
  <2>6. home[found] # null
    BY <1>1
  <2>7. taken.bin = m.bin /\ taken.small = m.small /\ \A q \in Words : Size(taken, q) = Size(m, q)
    BY <2>3 DEF SameRest
  <2> QED BY <1>1, <1>2, <2>1, <2>2, <2>4, <2>5, <2>6, <2>7
<1> QED BY <1>3, <1>4

(* Blocks of the arena's memory, side by side.                             *)
Block == {b \in [p : Words, words : Nat \ {0}] : Arena!Memory(b) \subseteq Words}
Cover(B) == UNION {Arena!Memory(b) : b \in B}
Apart(B) == \A b, c \in B : b # c => Arena!Memory(b) \cap Arena!Memory(c) = {}

(* What holds of each block.                                               *)
LEMMA BlockFacts ==
    ASSUME NEW b \in Block
    PROVE  /\ b.p \in Words /\ b.p \in Int /\ b.words \in Nat \ {0} /\ b.words \in 1..Cardinality(Words)
           /\ b = [p |-> b.p, words |-> b.words]
           /\ b.p \in Arena!Memory(b) /\ Arena!Memory(b) \subseteq Words
           /\ IsFiniteSet(Arena!Memory(b)) /\ Cardinality(Arena!Memory(b)) = b.words
<1>1. /\ b.p \in Words /\ b.p \in Int /\ b.words \in Nat \ {0} /\ b = [p |-> b.p, words |-> b.words]
      /\ Arena!Memory(b) \subseteq Words
  BY WordsFinite DEF Block
<1>2. Arena!Memory(b) = b.p..(b.p + b.words - 1) /\ b.p + b.words - 1 \in Int
  BY <1>1 DEF Arena!Memory
<1>3. IsFiniteSet(Arena!Memory(b)) /\ Cardinality(Arena!Memory(b)) = b.words
  <2>1. Cardinality(b.p..(b.p + b.words - 1)) = (b.p + b.words - 1) - b.p + 1
    BY <1>1, <1>2, FS_Interval
  <2> QED BY <1>1, <1>2, <2>1, FS_Interval
<1>4. Cardinality(Arena!Memory(b)) <= Cardinality(Words)
  BY <1>1, WordsFinite, FS_Subset
<1> QED BY <1>1, <1>2, <1>3, <1>4, WordsFinite

LEMMA CoverFinite ==
    ASSUME NEW B \in SUBSET Block
    PROVE  Cover(B) \subseteq Words /\ IsFiniteSet(Cover(B)) /\ Cardinality(Cover(B)) \in Nat
<1>1. Cover(B) \subseteq Words
  BY DEF Cover, Block
<1> QED BY <1>1, WordsFinite, FS_Subset, FS_CardinalityType

LEMMA DisjointCardinality ==
    ASSUME NEW S, NEW T, IsFiniteSet(S), IsFiniteSet(T), S \cap T = {}
    PROVE  Cardinality(S \cup T) = Cardinality(S) + Cardinality(T)
<1>1. Cardinality(S \cup T) = Cardinality(S) + Cardinality(T) - Cardinality(S \cap T)
  BY FS_Union
<1>2. Cardinality(S \cap T) = 0
  BY FS_EmptySet
<1>3. Cardinality(S) \in Nat /\ Cardinality(T) \in Nat
  BY FS_CardinalityType
<1> QED BY <1>1, <1>2, <1>3

(* A block beside the others.                                              *)
LEMMA CoverAdd ==
    ASSUME NEW B \in SUBSET Block, NEW b \in Block, Arena!Memory(b) \cap Cover(B) = {}
    PROVE  /\ Cover(B \cup {b}) = Cover(B) \cup Arena!Memory(b)
           /\ Cardinality(Cover(B \cup {b})) = Cardinality(Cover(B)) + b.words
           /\ b \notin B /\ (Apart(B) => Apart(B \cup {b}))
<1>1. Cover(B \cup {b}) = Cover(B) \cup Arena!Memory(b)
  BY DEF Cover
<1>2. Cardinality(Cover(B) \cup Arena!Memory(b)) = Cardinality(Cover(B)) + b.words
  <2>1. IsFiniteSet(Arena!Memory(b)) /\ Cardinality(Arena!Memory(b)) = b.words /\ IsFiniteSet(Cover(B))
    BY BlockFacts, CoverFinite
  <2> QED BY <2>1, DisjointCardinality
<1>3. \A c \in B : Arena!Memory(b) \cap Arena!Memory(c) = {}
  BY DEF Cover
<1>4. b \notin B
  BY <1>3, BlockFacts
<1>5. Apart(B) => Apart(B \cup {b})
  BY <1>3 DEF Apart
<1> QED BY <1>1, <1>2, <1>4, <1>5

(* A block taken from among the others.                                    *)
LEMMA CoverRemove ==
    ASSUME NEW B \in SUBSET Block, Apart(B), NEW b \in B
    PROVE  /\ Cover(B) = Cover(B \ {b}) \cup Arena!Memory(b)
           /\ Arena!Memory(b) \cap Cover(B \ {b}) = {}
           /\ Cardinality(Cover(B \ {b})) = Cardinality(Cover(B)) - b.words
           /\ Apart(B \ {b})
<1> DEFINE C == B \ {b}
<1>1. Arena!Memory(b) \cap Cover(C) = {}
  BY DEF Apart, Cover
<1>2. C \in SUBSET Block /\ b \in Block /\ C \cup {b} = B /\ Apart(C)
  BY DEF Apart
<1> HIDE DEF C
<1>3. Cover(B) = Cover(C) \cup Arena!Memory(b) /\ Cardinality(Cover(B)) = Cardinality(Cover(C)) + b.words
  BY <1>1, <1>2, CoverAdd
<1>4. Cardinality(Cover(C)) \in Nat /\ b.words \in Nat
  BY <1>2, CoverFinite, BlockFacts
<1>5. Cardinality(Cover(C)) = Cardinality(Cover(B)) - b.words
  BY <1>3, <1>4
<1> QED BY <1>1, <1>2, <1>3, <1>5 DEF C

-----------------------------------------------------------------------------
(* The stacks.                                                             *)

(* No word waits twice.                                                    *)
BinsOnce(m) ==
    \A n, k \in Arena!BinSizes : \A i \in DOMAIN m.bin[n], j \in DOMAIN m.bin[k] :
        m.bin[n][i] = m.bin[k][j] => n = k /\ i = j

LEMMA BinBlock ==
    ASSUME NEW m, NEW b
    PROVE  b \in BinBlocks(m) <=>
             \E n \in Arena!BinSizes : \E i \in DOMAIN m.bin[n] : b = [p |-> m.bin[n][i], words |-> n]
BY DEF BinBlocks

(* BlockArray::add_node adds the block, and counts it.                     *)
LEMMA BinPushed ==
    ASSUME NEW m \in Arena!Manager, BinsOnce(m), NEW p \in Words, NEW n \in Arena!BinSizes,
           \A b \in BinBlocks(m) : b.p # p,
           NEW m2, m2 = Arena!add_node(m, p, n)
    PROVE  /\ m2 \in Arena!Manager /\ BinsOnce(m2)
           /\ BinBlocks(m2) = BinBlocks(m) \cup {[p |-> p, words |-> n]}
           /\ m2.root = m.root /\ m2.node = m.node /\ m2.tree = m.tree /\ m2.small = m.small + n
<1> DEFINE s == m.bin[n]
           t == <<p>> \o s
<1>1. s \in Seq(Words) /\ m.bin \in [Arena!BinSizes -> Seq(Words)] /\ m.small \in Int /\ n \in Int
  BY ManagerFields, MetaspaceArenaAssumption DEF Arena!BinSizes
<1>2. /\ t \in Seq(Words) /\ DOMAIN t = 1..(Len(s) + 1) /\ Len(s) \in Nat /\ DOMAIN s = 1..Len(s)
      /\ t[1] = p /\ (\A i \in 1..Len(s) : t[i + 1] = s[i])
      /\ \A i \in 1..(Len(s) + 1) : t[i] = IF i = 1 THEN p ELSE s[i - 1]
  BY <1>1
<1>3. /\ m2.bin = [m.bin EXCEPT ![n] = t] /\ m2.small = m.small + n /\ m2.root = m.root
      /\ m2.node = m.node /\ m2.tree = m.tree /\ m2 \in Arena!Manager
  <2> HIDE DEF t
  <2>1. m2 = [m EXCEPT !.bin[n] = t, !.small = m.small + n]
    BY DEF Arena!add_node, t
  <2> DEFINE bin2 == [m.bin EXCEPT ![n] = t]
  <2>2. m2 = [bin |-> bin2, small |-> m.small + n, root |-> m.root, tree |-> m.tree, node |-> m.node]
    BY <2>1 DEF Arena!Manager
  <2>3. bin2 \in [Arena!BinSizes -> Seq(Words)] /\ m.small + n \in Int
    BY <1>1, <1>2
  <2> HIDE DEF bin2
  <2>4. m2 \in Arena!Manager
    BY <2>2, <2>3 DEF Arena!Manager
  <2> QED BY <2>2, <2>4 DEF bin2
<1>4. m2.bin[n] = t /\ \A k \in Arena!BinSizes \ {n} : m2.bin[k] = m.bin[k]
  BY <1>1, <1>3
<1> HIDE DEF t
<1>5. \A i \in DOMAIN t : (i = 1 /\ t[i] = p) \/ (i - 1 \in DOMAIN s /\ t[i] = s[i - 1])
  <2> SUFFICES ASSUME NEW i \in DOMAIN t
               PROVE  (i = 1 /\ t[i] = p) \/ (i - 1 \in DOMAIN s /\ t[i] = s[i - 1])
    OBVIOUS
  <2>1. i \in 1..(Len(s) + 1)
    BY <1>2
  <2>2. t[i] = IF i = 1 THEN p ELSE s[i - 1]
    BY <1>2, <2>1
  <2>3. i = 1 \/ i - 1 \in 1..Len(s)
    BY <1>2, <2>1
  <2>4. DOMAIN s = 1..Len(s)
    BY <1>2
  <2> QED BY <2>2, <2>3, <2>4
<1>6. \A k \in Arena!BinSizes : \A i \in DOMAIN m.bin[k] : m.bin[k][i] # p
  <2> SUFFICES ASSUME NEW k \in Arena!BinSizes, NEW i \in DOMAIN m.bin[k] PROVE m.bin[k][i] # p
    OBVIOUS
  <2>1. [p |-> m.bin[k][i], words |-> k] \in BinBlocks(m)
    BY BinBlock
  <2> QED BY <2>1
<1>7. BinsOnce(m2)
  <2> SUFFICES ASSUME NEW k \in Arena!BinSizes, NEW l \in Arena!BinSizes,
                      NEW i \in DOMAIN m2.bin[k], NEW j \in DOMAIN m2.bin[l],
                      m2.bin[k][i] = m2.bin[l][j]
               PROVE  k = l /\ i = j
    BY DEF BinsOnce
  <2>1. CASE k = n /\ l = n
    <3>1. i \in DOMAIN t /\ j \in DOMAIN t /\ t[i] = t[j]
      BY <1>4, <2>1
    <3>2. \A x, y \in DOMAIN s : s[x] = s[y] => x = y
      BY DEF BinsOnce
    <3>3. \A x \in DOMAIN s : s[x] # p
      BY <1>6
    <3>4. i \in Int /\ j \in Int
      BY <1>2, <3>1
    <3>5. CASE i = 1 /\ t[i] = p
      <4>1. j = 1
        BY <1>5, <3>1, <3>3, <3>5
      <4> QED BY <2>1, <3>5, <4>1
    <3>6. CASE i - 1 \in DOMAIN s /\ t[i] = s[i - 1]
      <4>1. ~(j = 1 /\ t[j] = p)
        BY <3>1, <3>3, <3>6
      <4>2. j - 1 \in DOMAIN s /\ t[j] = s[j - 1]
        BY <1>5, <3>1, <4>1
      <4>3. i - 1 = j - 1
        BY <3>1, <3>2, <3>6, <4>2
      <4> QED BY <2>1, <3>4, <4>3
    <3> QED BY <1>5, <2>1, <3>1, <3>5, <3>6
  <2>2. CASE k = n /\ l # n
    <3>1. i \in DOMAIN t /\ j \in DOMAIN m.bin[l] /\ t[i] = m.bin[l][j]
      BY <1>4, <2>2
    <3>2. m.bin[l][j] # p /\ \A x \in DOMAIN s : s[x] # m.bin[l][j]
      BY <1>6, <2>2, <3>1 DEF BinsOnce
    <3> QED BY <1>5, <3>1, <3>2
  <2>3. CASE k # n /\ l = n
    <3>1. j \in DOMAIN t /\ i \in DOMAIN m.bin[k] /\ t[j] = m.bin[k][i]
      BY <1>4, <2>3
    <3>2. m.bin[k][i] # p /\ \A x \in DOMAIN s : s[x] # m.bin[k][i]
      BY <1>6, <2>3, <3>1 DEF BinsOnce
    <3> QED BY <1>5, <3>1, <3>2
  <2>4. CASE k # n /\ l # n
    BY <1>4, <2>4 DEF BinsOnce
  <2> QED BY <2>1, <2>2, <2>3, <2>4
<1>8. BinBlocks(m2) = BinBlocks(m) \cup {[p |-> p, words |-> n]}
  <2>1. ASSUME NEW b \in BinBlocks(m2) PROVE b \in BinBlocks(m) \cup {[p |-> p, words |-> n]}
    <3>1. PICK k \in Arena!BinSizes : \E i \in DOMAIN m2.bin[k] : b = [p |-> m2.bin[k][i], words |-> k]
      BY <2>1 DEF BinBlocks
    <3>2. PICK i \in DOMAIN m2.bin[k] : b = [p |-> m2.bin[k][i], words |-> k]
      BY <3>1
    <3>3. CASE k # n
      BY <1>4, <3>2, <3>3, BinBlock
    <3>4. CASE k = n
      <4>1. i \in DOMAIN t /\ b = [p |-> t[i], words |-> n]
        BY <1>4, <3>2, <3>4
      <4>2. CASE i - 1 \in DOMAIN s /\ t[i] = s[i - 1]
        BY <4>1, <4>2, BinBlock
      <4> QED BY <1>5, <4>1, <4>2
    <3> QED BY <3>3, <3>4
  <2>2. ASSUME NEW b \in BinBlocks(m) PROVE b \in BinBlocks(m2)
    <3>1. PICK k \in Arena!BinSizes : \E i \in DOMAIN m.bin[k] : b = [p |-> m.bin[k][i], words |-> k]
      BY <2>2, BinBlock
    <3>2. PICK i \in DOMAIN m.bin[k] : b = [p |-> m.bin[k][i], words |-> k]
      BY <3>1
    <3>3. CASE k # n
      BY <1>4, <3>2, <3>3, BinBlock
    <3>4. CASE k = n
      <4>0. i \in 1..Len(s)
        BY <1>2, <3>4
      <4>1. i + 1 \in DOMAIN m2.bin[n] /\ m2.bin[n][i + 1] = m.bin[n][i]
        BY <1>2, <1>4, <4>0
      <4> QED BY <3>2, <3>4, <4>1, BinBlock
    <3> QED BY <3>3, <3>4
  <2>3. [p |-> p, words |-> n] \in BinBlocks(m2)
    <3>1. 1 \in DOMAIN m2.bin[n] /\ m2.bin[n][1] = p
      BY <1>2, <1>4
    <3> QED BY <3>1, BinBlock
  <2> QED BY <2>1, <2>2, <2>3
<1> QED BY <1>3, <1>7, <1>8

(* A stack without its first block.                                        *)
Popped(m, n) == [m EXCEPT !.bin[n] = Tail(m.bin[n]), !.small = m.small - n]

LEMMA BinPopped ==
    ASSUME NEW m \in Arena!Manager, BinsOnce(m), NEW n \in Arena!BinSizes, m.bin[n] # <<>>,
           NEW m2, m2 = Popped(m, n)
    PROVE  /\ m2 \in Arena!Manager /\ BinsOnce(m2)
           /\ [p |-> Head(m.bin[n]), words |-> n] \in BinBlocks(m) /\ Head(m.bin[n]) \in Words
           /\ BinBlocks(m2) = BinBlocks(m) \ {[p |-> Head(m.bin[n]), words |-> n]}
           /\ m2.root = m.root /\ m2.node = m.node /\ m2.tree = m.tree /\ m2.small = m.small - n
<1> DEFINE s == m.bin[n]
           t == Tail(s)
           h == Head(s)
<1>1. s \in Seq(Words) /\ m.bin \in [Arena!BinSizes -> Seq(Words)] /\ m.small \in Int /\ n \in Int
  BY ManagerFields, MetaspaceArenaAssumption DEF Arena!BinSizes
<1>2. /\ t \in Seq(Words) /\ DOMAIN t = 1..(Len(s) - 1) /\ Len(s) \in Nat \ {0} /\ DOMAIN s = 1..Len(s)
      /\ h = s[1] /\ h \in Words /\ \A i \in 1..(Len(s) - 1) : t[i] = s[i + 1]
  BY <1>1
<1>3. /\ m2.bin = [m.bin EXCEPT ![n] = t] /\ m2.small = m.small - n /\ m2.root = m.root
      /\ m2.node = m.node /\ m2.tree = m.tree /\ m2 \in Arena!Manager
  <2> HIDE DEF t
  <2>1. m2 = [m EXCEPT !.bin[n] = t, !.small = m.small - n]
    BY DEF t, Popped
  <2> DEFINE bin2 == [m.bin EXCEPT ![n] = t]
  <2>2. m2 = [bin |-> bin2, small |-> m.small - n, root |-> m.root, tree |-> m.tree, node |-> m.node]
    BY <2>1 DEF Arena!Manager
  <2>3. bin2 \in [Arena!BinSizes -> Seq(Words)] /\ m.small - n \in Int
    BY <1>1, <1>2
  <2> HIDE DEF bin2
  <2>4. m2 \in Arena!Manager
    BY <2>2, <2>3 DEF Arena!Manager
  <2>5. /\ m2.bin = bin2 /\ m2.small = m.small - n /\ m2.root = m.root
        /\ m2.node = m.node /\ m2.tree = m.tree
    BY ONLY <2>2
  <2> QED BY <2>4, <2>5 DEF bin2
<1>4. m2.bin[n] = t /\ \A k \in Arena!BinSizes \ {n} : m2.bin[k] = m.bin[k]
  BY <1>1, <1>3
<1> HIDE DEF t, h
<1>5. \A i \in DOMAIN t : i + 1 \in DOMAIN s /\ t[i] = s[i + 1] /\ i \in Int /\ i + 1 # 1
  BY <1>2
<1>6. BinsOnce(m2)
  <2> SUFFICES ASSUME NEW k \in Arena!BinSizes, NEW l \in Arena!BinSizes,
                      NEW i \in DOMAIN m2.bin[k], NEW j \in DOMAIN m2.bin[l],
                      m2.bin[k][i] = m2.bin[l][j]
               PROVE  k = l /\ i = j
    BY DEF BinsOnce
  <2>1. CASE k = n /\ l = n
    <3>1. i \in DOMAIN t /\ j \in DOMAIN t /\ t[i] = t[j]
      BY <1>4, <2>1
    <3>2. i + 1 \in DOMAIN s /\ j + 1 \in DOMAIN s /\ s[i + 1] = s[j + 1] /\ i \in Int /\ j \in Int
      BY <1>5, <3>1
    <3>3. i + 1 = j + 1
      BY <3>2 DEF BinsOnce
    <3> QED BY <2>1, <3>2, <3>3
  <2>2. CASE k = n /\ l # n
    <3>1. i \in DOMAIN t /\ j \in DOMAIN m.bin[l] /\ t[i] = m.bin[l][j]
      BY <1>4, <2>2
    <3>2. i + 1 \in DOMAIN s /\ s[i + 1] = m.bin[l][j]
      BY <1>5, <3>1
    <3> QED BY <2>2, <3>1, <3>2 DEF BinsOnce
  <2>3. CASE k # n /\ l = n
    <3>1. j \in DOMAIN t /\ i \in DOMAIN m.bin[k] /\ t[j] = m.bin[k][i]
      BY <1>4, <2>3
    <3>2. j + 1 \in DOMAIN s /\ s[j + 1] = m.bin[k][i]
      BY <1>5, <3>1
    <3> QED BY <2>3, <3>1, <3>2 DEF BinsOnce
  <2>4. CASE k # n /\ l # n
    BY <1>4, <2>4 DEF BinsOnce
  <2> QED BY <2>1, <2>2, <2>3, <2>4
<1>7. 1 \in DOMAIN s
  BY <1>2
<1>8. [p |-> h, words |-> n] \in BinBlocks(m)
  BY <1>2, <1>7, BinBlock
<1>9. BinBlocks(m2) = BinBlocks(m) \ {[p |-> h, words |-> n]}
  <2>1. ASSUME NEW b \in BinBlocks(m2) PROVE b \in BinBlocks(m) /\ b # [p |-> h, words |-> n]
    <3>1. PICK k \in Arena!BinSizes : \E i \in DOMAIN m2.bin[k] : b = [p |-> m2.bin[k][i], words |-> k]
      BY <2>1 DEF BinBlocks
    <3>2. PICK i \in DOMAIN m2.bin[k] : b = [p |-> m2.bin[k][i], words |-> k]
      BY <3>1
    <3>3. CASE k # n
      <4>1. b \in BinBlocks(m)
        BY <1>4, <3>2, <3>3, BinBlock
      <4>2. b.words = k
        BY <3>2
      <4> QED BY <3>3, <4>1, <4>2
    <3>4. CASE k = n
      <4>1. i \in DOMAIN t /\ b = [p |-> t[i], words |-> n]
        BY <1>4, <3>2, <3>4
      <4>2. i + 1 \in DOMAIN s /\ t[i] = s[i + 1] /\ i + 1 # 1
        BY <1>5, <4>1
      <4>3. s[i + 1] # s[1]
        BY <1>7, <4>2 DEF BinsOnce
      <4>4. b \in BinBlocks(m)
        BY <4>1, <4>2, BinBlock
      <4>5. b.p = s[i + 1]
        BY <4>1, <4>2
      <4> QED BY <1>2, <4>3, <4>4, <4>5
    <3> QED BY <3>3, <3>4
  <2>2. ASSUME NEW b \in BinBlocks(m), b # [p |-> h, words |-> n] PROVE b \in BinBlocks(m2)
    <3>1. PICK k \in Arena!BinSizes : \E i \in DOMAIN m.bin[k] : b = [p |-> m.bin[k][i], words |-> k]
      BY <2>2, BinBlock
    <3>2. PICK i \in DOMAIN m.bin[k] : b = [p |-> m.bin[k][i], words |-> k]
      BY <3>1
    <3>3. CASE k # n
      BY <1>4, <3>2, <3>3, BinBlock
    <3>4. CASE k = n
      <4>1. i # 1
        BY <1>2, <2>2, <3>2, <3>4
      <4>2. i \in 1..Len(s) /\ i # 1
        BY <1>2, <3>4, <4>1
      <4>3. i - 1 \in 1..(Len(s) - 1) /\ (i - 1) + 1 = i
        BY <1>2, <4>2
      <4>4. i - 1 \in DOMAIN m2.bin[n] /\ m2.bin[n][i - 1] = m.bin[n][i]
        BY <1>2, <1>4, <4>3
      <4> QED BY <3>2, <3>4, <4>4, BinBlock
    <3> QED BY <3>3, <3>4
  <2> QED BY <2>1, <2>2
<1> QED BY <1>2, <1>3, <1>6, <1>8, <1>9 DEF h

-----------------------------------------------------------------------------
(* A manager whose tree holds the blocks TB and whose stacks hold BB.      *)
Manages(m, TB, BB) ==
    /\ m \in Arena!Manager /\ Forest(m, TB) /\ BinsOnce(m) /\ BB = BinBlocks(m)
    /\ TB \in SUBSET Block /\ BB \in SUBSET Block /\ Apart(TB \cup BB)
    /\ \A b \in TB : b.words >= TreeMinWords
    /\ m.tree = Cardinality(Cover(TB)) /\ m.small = Cardinality(Cover(BB))

(* The blocks of a manager.                                                *)
LEMMA ManagesBlocks ==
    ASSUME NEW m, NEW TB, NEW BB, Manages(m, TB, BB)
    PROVE  /\ Arena!managed_blocks(m) = TB \cup BB /\ TB \cap BB = {}
           /\ TB \cup BB \in SUBSET Block
<1>1. Arena!managed_blocks(m) = TB \cup BB
  BY ManagedBlocks DEF Manages, Forest
<1>2. \A b \in BB : b.words \in Arena!BinSizes
  BY DEF Manages, BinBlocks
<1>3. \A b \in TB : b.words \in Nat /\ b.words >= TreeMinWords
  BY DEF Manages, Block
<1>4. TB \cap BB = {}
  BY <1>2, <1>3, MetaspaceArenaAssumption DEF Arena!BinSizes
<1> QED BY <1>1, <1>4 DEF Manages

LEMMA ForestSame ==
    ASSUME NEW m, NEW TB, Forest(m, TB), NEW m2 \in Arena!Manager,
           m2.root = m.root, m2.node = m.node
    PROVE  Forest(m2, TB)
<1>1. PICK N, lo, hi, home, rank :
         Tree(m, N, lo, hi) /\ SizeLists(m, N, home, rank) /\ TB = TreeBlocks(m, home)
  BY DEF Forest
<1>2. N \in SUBSET Words /\ null \notin Words /\ \A q \in Words : Size(m2, q) = Size(m, q)
  BY <1>1, ManagerFields DEF Tree, Size
<1>3. Tree(m2, N, lo, hi)
  BY <1>1, <1>2, TreeSame DEF Size
<1>4. SizeLists(m2, N, home, rank)
  BY <1>1, <1>2, ListsSame DEF Size
<1>5. TreeBlocks(m2, home) = TB
  BY <1>1, <1>2 DEF TreeBlocks
<1> QED BY <1>3, <1>4, <1>5 DEF Forest

(* A new manager has no block.                                             *)
LEMMA NothingManaged ==
    Manages(Arena!EmptyManager, {}, {})
<1> DEFINE e == Arena!EmptyManager
           f == [p \in Words |-> null]
           z == [p \in Words |-> 0]
<1>1. null \notin Words
  BY MetaspaceArenaAssumption
<1>2. e \in Arena!Manager /\ e.root = null /\ e.tree = 0 /\ e.small = 0
      /\ e.bin = [n \in Arena!BinSizes |-> <<>>]
  <2>1. Arena!Node(0) \in [bytes : Nat, left : Arena!Pointers, right : Arena!Pointers,
                           parent : Arena!Pointers, next : Arena!Pointers]
    BY DEF Arena!Node, Arena!Pointers
  <2>2. [n \in Arena!BinSizes |-> <<>>] \in [Arena!BinSizes -> Seq(Words)]
    BY EmptySeq
  <2>3. null \in Arena!Pointers /\ 0 \in Int
    BY DEF Arena!Pointers
  <2> QED BY <2>1, <2>2, <2>3 DEF Arena!EmptyManager, Arena!Manager
<1> HIDE DEF e
<1>3. Tree(e, {}, z, z)
  BY <1>2 DEF Tree, Rooted
<1>4. SizeLists(e, {}, f, z)
  BY <1>1 DEF SizeLists, WordPointers
<1>5. TreeBlocks(e, f) = {}
  BY DEF TreeBlocks
<1>6. Forest(e, {})
  BY <1>3, <1>4, <1>5 DEF Forest
<1>7. BinsOnce(e) /\ BinBlocks(e) = {}
  <2>1. \A n \in Arena!BinSizes : DOMAIN e.bin[n] = {}
    BY <1>2
  <2> QED BY <2>1 DEF BinsOnce, BinBlocks
<1>8. Cardinality(Cover({})) = 0
  BY FS_EmptySet DEF Cover
<1>9. Apart({})
  BY DEF Apart
<1> QED BY <1>2, <1>6, <1>7, <1>8, <1>9 DEF Manages, e

LEMMA CoverSplit ==
    ASSUME NEW A, NEW B
    PROVE  Cover(A \cup B) = Cover(A) \cup Cover(B)
BY DEF Cover

(* A block that is given back is managed.                                  *)
LEMMA Deallocated ==
    ASSUME NEW m, NEW TB, NEW BB, Manages(m, TB, BB), NEW b \in Block,
           Arena!Memory(b) \cap Cover(TB \cup BB) = {},
           NEW m2, m2 = Arena!deallocate(m, b.p, b.words)
    PROVE  \E TB2, BB2 : Manages(m2, TB2, BB2) /\ TB2 \cup BB2 = (TB \cup BB) \cup {b}
<1>1. /\ b.p \in Words /\ b.words \in Nat \ {0} /\ b.words \in 1..Cardinality(Words)
      /\ b = [p |-> b.p, words |-> b.words] /\ b.p \in Arena!Memory(b)
      /\ TreeMinWords \in Nat \ {0}
  BY BlockFacts, MetaspaceArenaAssumption
<1>2. Arena!Memory(b) \cap Cover(TB) = {} /\ Arena!Memory(b) \cap Cover(BB) = {}
  BY CoverSplit
<1>3. TB \in SUBSET Block /\ BB \in SUBSET Block /\ TB \cup BB \in SUBSET Block /\ Apart(TB \cup BB)
      /\ m \in Arena!Manager
  BY DEF Manages
<1>4. \A c \in TB \cup BB : c.p # b.p
  <2> SUFFICES ASSUME NEW c \in TB \cup BB, c.p = b.p PROVE FALSE
    OBVIOUS
  <2>1. c.p \in Arena!Memory(c)
    BY <1>3, BlockFacts
  <2>2. b.p \in Cover(TB \cup BB)
    BY <2>1 DEF Cover
  <2> QED BY <1>1, <2>2
<1>5. Apart((TB \cup BB) \cup {b})
  BY <1>3, CoverAdd
<1>6. CASE b.words >= TreeMinWords
  <2>1. m2 = Arena!add_meta_node(m, b.p, b.words)
    BY <1>6 DEF Arena!deallocate
  <2>2. PICK N, lo, hi, home, rank :
           Tree(m, N, lo, hi) /\ SizeLists(m, N, home, rank) /\ TB = TreeBlocks(m, home)
    BY DEF Manages, Forest
  <2>3. home[b.p] = null
    <3> SUFFICES ASSUME home[b.p] # null PROVE FALSE
      OBVIOUS
    <3>1. [p |-> b.p, words |-> Size(m, b.p)] \in TB
      BY <1>1, <2>2 DEF TreeBlocks
    <3> QED BY <1>4, <3>1
  <2>4. /\ Forest(m2, TB \cup {b}) /\ m2.bin = m.bin /\ m2.small = m.small /\ m2.tree = m.tree + b.words
    BY <1>1, <2>1, <2>2, <2>3, AddMetaNode
  <2>5. m2 \in Arena!Manager
    BY <2>4 DEF Forest, Tree
  <2>6. BinsOnce(m2) /\ BinBlocks(m2) = BB
    BY <2>4 DEF Manages, BinsOnce, BinBlocks
  <2>7. m2.tree = Cardinality(Cover(TB \cup {b}))
    BY <1>2, <1>3, <2>4, CoverAdd DEF Manages
  <2>8. (TB \cup {b}) \cup BB = (TB \cup BB) \cup {b}
    OBVIOUS
  <2>9. Manages(m2, TB \cup {b}, BB)
    <3>1. TB \cup {b} \in SUBSET Block /\ \A c \in TB \cup {b} : c.words >= TreeMinWords
      BY <1>6 DEF Manages
    <3>2. m2.small = Cardinality(Cover(BB))
      BY <2>4 DEF Manages
    <3> QED BY <1>3, <1>5, <2>4, <2>5, <2>6, <2>7, <2>8, <3>1, <3>2 DEF Manages
  <2> QED BY <2>8, <2>9
<1>7. CASE ~(b.words >= TreeMinWords)
  <2>1. m2 = Arena!add_node(m, b.p, b.words) /\ b.words \in Arena!BinSizes
    BY <1>1, <1>7 DEF Arena!deallocate, Arena!BinSizes
  <2>2. /\ m2 \in Arena!Manager /\ BinsOnce(m2)
        /\ BinBlocks(m2) = BB \cup {b}
        /\ m2.root = m.root /\ m2.node = m.node /\ m2.tree = m.tree /\ m2.small = m.small + b.words
    <3>1. BinsOnce(m) /\ BB = BinBlocks(m) /\ \A c \in BinBlocks(m) : c.p # b.p
      BY <1>4 DEF Manages
    <3> QED BY <1>1, <1>3, <2>1, <3>1, BinPushed
  <2>3. Forest(m2, TB)
    BY <2>2, ForestSame DEF Manages
  <2>4. m2.small = Cardinality(Cover(BB \cup {b}))
    BY <1>2, <1>3, <2>2, CoverAdd DEF Manages
  <2>5. TB \cup (BB \cup {b}) = (TB \cup BB) \cup {b}
    OBVIOUS
  <2>6. Manages(m2, TB, BB \cup {b})
    <3>1. BB \cup {b} \in SUBSET Block /\ (\A c \in TB : c.words >= TreeMinWords) /\ m2.tree = Cardinality(Cover(TB))
      BY <1>3, <2>2 DEF Manages
    <3> QED BY <1>3, <1>5, <2>2, <2>3, <2>4, <2>5, <3>1 DEF Manages
  <2> QED BY <2>5, <2>6
<1> QED BY <1>6, <1>7

(* The manager without the block that it found.                            *)
Taken(m, words) ==
    LET b == Arena!found_block(m, words)
    IN IF words >= TreeMinWords THEN Arena!remove_meta_node(m, Arena!find_closest_node(m, words))
       ELSE Popped(m, b.words)

(* It has all of its other blocks.                                         *)
LEMMA BlockTaken ==
    ASSUME NEW m, NEW TB, NEW BB, Manages(m, TB, BB), NEW words \in Nat \ {0},
           NEW b, b = Arena!found_block(m, words), b.p # null
    PROVE  /\ b \in TB \cup BB /\ b.words >= words
           /\ \E TB2, BB2 : Manages(Taken(m, words), TB2, BB2) /\ TB2 \cup BB2 = (TB \cup BB) \ {b}
<1> DEFINE m2 == Taken(m, words)
<1>1. TB \in SUBSET Block /\ BB \in SUBSET Block /\ Apart(TB \cup BB) /\ TB \cap BB = {}
      /\ m \in Arena!Manager /\ TreeMinWords \in Nat \ {0}
  BY ManagesBlocks, MetaspaceArenaAssumption DEF Manages
<1>2. Apart(TB) /\ Apart(BB) /\ \A c : Apart((TB \cup BB) \ {c})
  BY <1>1 DEF Apart
<1>3. CASE words >= TreeMinWords
  <2> DEFINE n == Arena!find_closest_node(m, words)
  <2>1. m2 = Arena!remove_meta_node(m, n)
    BY <1>3 DEF Taken
  <2>2. b = IF n = null THEN [p |-> null, words |-> 0]
            ELSE [p |-> Arena!removed_node(m, n), words |-> Size(m, n)]
    BY <1>3 DEF Arena!found_block, Size
  <2>3. PICK N, lo, hi, home, rank :
           Tree(m, N, lo, hi) /\ SizeLists(m, N, home, rank) /\ TB = TreeBlocks(m, home)
    BY DEF Manages, Forest
  <2> HIDE DEF n, m2
  <2>4. n # null
    BY <2>2
  <2>5. n \in N /\ Size(m, n) >= words
    BY <2>3, <2>4, ClosestFound DEF n
  <2>6. b = [p |-> Arena!removed_node(m, n), words |-> Size(m, n)] /\ b.words = Size(m, n)
    BY <2>2, <2>4
  <2>7. /\ b \in TB /\ Forest(m2, TB \ {b})
        /\ m2.bin = m.bin /\ m2.small = m.small /\ m2.tree = m.tree - b.words
    BY <2>1, <2>3, <2>5, <2>6, RemoveMetaNode
  <2>8. m2 \in Arena!Manager
    BY <2>7 DEF Forest, Tree
  <2>9. BinsOnce(m2) /\ BinBlocks(m2) = BB
    BY <2>7 DEF Manages, BinsOnce, BinBlocks
  <2>10. m2.tree = Cardinality(Cover(TB \ {b}))
    <3>1. Cardinality(Cover(TB \ {b})) = Cardinality(Cover(TB)) - b.words
      BY <1>1, <1>2, <2>7, CoverRemove
    <3> QED BY <2>7, <3>1 DEF Manages
  <2>11. (TB \ {b}) \cup BB = (TB \cup BB) \ {b}
    BY <1>1, <2>7
  <2>12. Manages(m2, TB \ {b}, BB)
    <3>1. TB \ {b} \in SUBSET Block /\ \A c \in TB \ {b} : c.words >= TreeMinWords
      BY DEF Manages
    <3>2. m2.small = Cardinality(Cover(BB))
      BY <2>7 DEF Manages
    <3> QED BY <1>1, <1>2, <2>7, <2>8, <2>9, <2>10, <2>11, <3>1, <3>2 DEF Manages
  <2> QED BY <2>5, <2>6, <2>7, <2>11, <2>12 DEF m2
<1>4. CASE ~(words >= TreeMinWords)
  <2> DEFINE found == {k \in Arena!BinSizes : k >= words /\ m.bin[k] # <<>>}
             n == Arena!next_non_empty_index(m, words)
  <2>1. n = IF found = {} THEN 0 ELSE CHOOSE k \in found : \A l \in found : k <= l
    BY DEF Arena!next_non_empty_index
  <2>2. b = IF n = 0 THEN [p |-> null, words |-> 0] ELSE [p |-> Head(m.bin[n]), words |-> n]
    BY <1>4 DEF Arena!found_block
  <2>3. m2 = Popped(m, b.words)
    BY <1>4 DEF Taken
  <2> HIDE DEF n, m2
  <2>4. n # 0 /\ b = [p |-> Head(m.bin[n]), words |-> n] /\ b.words = n
    BY <2>2
  <2>5. n \in found
    <3>1. found # {}
      BY <2>1, <2>4
    <3>2. found \in SUBSET Nat
      BY DEF Arena!BinSizes
    <3>3. PICK x \in found : TRUE
      BY <3>1
    <3> HIDE DEF found
    <3>4. \E k \in found : \A l \in found : k <= l
      BY <3>2, <3>3, LeastElement
    <3> QED BY <2>1, <3>1, <3>4
  <2>6. n \in Arena!BinSizes /\ n >= words /\ m.bin[n] # <<>>
    BY <2>5
  <2> DEFINE k == Popped(m, n)
  <2>7. /\ k \in Arena!Manager /\ BinsOnce(k)
        /\ b \in BB /\ BinBlocks(k) = BB \ {b}
        /\ k.root = m.root /\ k.node = m.node /\ k.tree = m.tree /\ k.small = m.small - n
    <3>1. BinsOnce(m) /\ BB = BinBlocks(m)
      BY DEF Manages
    <3> QED BY <1>1, <2>4, <2>6, <3>1, BinPopped
  <2>8. m2 = k
    BY <2>3, <2>4
  <2> HIDE DEF k
  <2>9. Forest(m2, TB)
    BY <2>7, <2>8, ForestSame DEF Manages
  <2>10. m2.small = Cardinality(Cover(BB \ {b}))
    <3>1. Cardinality(Cover(BB \ {b})) = Cardinality(Cover(BB)) - b.words
      BY <1>1, <1>2, <2>7, CoverRemove
    <3> QED BY <2>4, <2>7, <2>8, <3>1 DEF Manages
  <2>11. TB \cup (BB \ {b}) = (TB \cup BB) \ {b}
    BY <1>1, <2>7
  <2>12. Manages(m2, TB, BB \ {b})
    <3>1. BB \ {b} \in SUBSET Block /\ (\A c \in TB : c.words >= TreeMinWords) /\ m2.tree = Cardinality(Cover(TB))
      BY <1>1, <2>7, <2>8 DEF Manages
    <3> QED BY <1>1, <1>2, <2>7, <2>8, <2>9, <2>10, <2>11, <3>1 DEF Manages
  <2> QED BY <2>4, <2>6, <2>7, <2>11, <2>12 DEF m2
<1> QED BY <1>3, <1>4

(* A block of at least the size that was asked for leaves the manager; its *)
(* first words are the user's and the others are given back.               *)
LEMMA Allocated ==
    ASSUME NEW m, NEW TB, NEW BB, Manages(m, TB, BB), NEW words \in Nat \ {0},
           NEW b, b = Arena!found_block(m, words), b.p # null,
           NEW m2, m2 = Arena!after_allocate(m, words)
    PROVE  /\ b \in TB \cup BB /\ b.words >= words
           /\ \E TB2, BB2 : /\ Manages(m2, TB2, BB2)
                            /\ TB2 \cup BB2 = ((TB \cup BB) \ {b}) \cup
                                 (IF b.words = words THEN {}
                                  ELSE {[p |-> b.p + words, words |-> b.words - words]})
<1>1. b \in TB \cup BB /\ b.words >= words
  BY BlockTaken
<1>2. PICK TB1, BB1 : Manages(Taken(m, words), TB1, BB1) /\ TB1 \cup BB1 = (TB \cup BB) \ {b}
  BY BlockTaken
<1>3. m2 = IF b.words - words >= 1 THEN Arena!deallocate(Taken(m, words), b.p + words, b.words - words)
           ELSE Taken(m, words)
  BY DEF Arena!after_allocate, Taken, Popped
<1>4. TB \cup BB \in SUBSET Block /\ Apart(TB \cup BB)
  BY ManagesBlocks DEF Manages
<1>5. b \in Block /\ b.p \in Int /\ b.words \in Nat /\ Arena!Memory(b) \subseteq Words
  BY <1>1, <1>4, BlockFacts
<1>6. CASE b.words = words
  BY <1>1, <1>2, <1>3, <1>5, <1>6
<1>7. CASE b.words # words
  <2> DEFINE w == [p |-> b.p + words, words |-> b.words - words]
  <2>1. w.p = b.p + words /\ w.words = b.words - words /\ w.words \in Nat \ {0}
    BY <1>1, <1>5, <1>7
  <2>2. Arena!Memory(w) \subseteq Arena!Memory(b)
    BY <1>1, <1>5, <2>1 DEF Arena!Memory
  <2>3. w.p \in Words
    <3>1. w.p \in Arena!Memory(w)
      BY <1>5, <2>1 DEF Arena!Memory
    <3> QED BY <1>5, <2>2, <3>1
  <2>4. w \in Block
    BY <1>5, <2>1, <2>2, <2>3 DEF Block
  <2>5. Arena!Memory(w) \cap Cover(TB1 \cup BB1) = {}
    <3>1. Arena!Memory(b) \cap Cover((TB \cup BB) \ {b}) = {}
      BY <1>1, <1>4, CoverRemove
    <3> QED BY <1>2, <2>2, <3>1
  <2>6. m2 = Arena!deallocate(Taken(m, words), w.p, w.words)
    BY <1>3, <2>1
  <2> HIDE DEF w
  <2>7. \E TB2, BB2 : Manages(m2, TB2, BB2) /\ TB2 \cup BB2 = (TB1 \cup BB1) \cup {w}
    BY <1>2, <2>4, <2>5, <2>6, Deallocated
  <2> QED BY <1>1, <1>2, <1>7, <2>7 DEF w
<1> QED BY <1>6, <1>7

(* What TreeSound says of a manager.                                       *)
SoundNode(m, nodes, n) ==
    /\ \A k \in Arena!nodes_under(m, m.node[n].left) : Size(m, k) < Size(m, n)
    /\ \A k \in Arena!nodes_under(m, m.node[n].right) : Size(m, k) > Size(m, n)
    /\ \A k \in {m.node[n].left, m.node[n].right} \ {null} : m.node[k].parent = n
    /\ \A k \in Arena!list_of(m, n) : Size(m, k) = Size(m, n)

FindsClosest(m, nodes, need) ==
    LET fit == {Size(m, n) : n \in {k \in nodes : Size(m, k) >= need}}
        found == Arena!find_closest_node(m, need)
    IN IF fit = {} THEN found = null
       ELSE Size(m, found) \in fit /\ \A w \in fit : Size(m, found) <= w

(* The bounds make every node sound.                                       *)
LEMMA NodesSound ==
    ASSUME NEW m, NEW N, NEW lo, NEW hi, Tree(m, N, lo, hi),
           NEW home, NEW rank, SizeLists(m, N, home, rank), NEW n \in N
    PROVE  SoundNode(m, N, n)
<1> DEFINE left == m.node[n].left
           right == m.node[n].right
<1>1. m \in Arena!Manager /\ N \in SUBSET Words /\ NodeJoined(m, N, lo, hi, n) /\ Size(m, n) \in Int
  BY NodeFacts DEF Tree
<1>2. ASSUME NEW k \in Arena!nodes_under(m, left) PROVE Size(m, k) < Size(m, n)
  <2>1. left # null
    BY <1>1, <1>2, NothingUnderNull
  <2>2. left \in N /\ hi[left] = Size(m, n)
    BY <1>1, <2>1 DEF NodeJoined
  <2>3. k \in UnderIn(m, N, lo, hi, left)
    BY <1>2, <2>2, UnderReached
  <2> QED BY <2>2, <2>3 DEF UnderIn
<1>3. ASSUME NEW k \in Arena!nodes_under(m, right) PROVE Size(m, k) > Size(m, n)
  <2>1. right # null
    BY <1>1, <1>3, NothingUnderNull
  <2>2. right \in N /\ lo[right] = Size(m, n)
    BY <1>1, <2>1 DEF NodeJoined
  <2>3. k \in UnderIn(m, N, lo, hi, right)
    BY <1>3, <2>2, UnderReached
  <2>4. k \in N /\ lo[right] < Size(m, k)
    BY <2>3 DEF UnderIn
  <2>5. Size(m, k) \in Int
    BY <2>4, NodeFacts
  <2> QED BY <1>1, <2>2, <2>4, <2>5
<1>4. \A k \in {left, right} \ {null} : m.node[k].parent = n
  BY <1>1 DEF NodeJoined
<1>5. ASSUME NEW k \in Arena!list_of(m, n) PROVE Size(m, k) = Size(m, n)
  <2>3. m \in Arena!Manager /\ N \in SUBSET Words
    BY <1>1
  <2>1. k \in Words /\ home[k] = n
    <3>1. Arena!list_of(m, n) = {h \in Words : home[h] = n}
      BY <2>3, ListReached
    <3> QED BY <1>5, <3>1
  <2>2. home[k] # null
    BY <2>1, NodeFacts
  <2> QED BY <2>1, <2>2 DEF SizeLists, Linked
<1> QED BY <1>2, <1>3, <1>4, <1>5 DEF SoundNode

(* The search finds the closest size.                                      *)
LEMMA ClosestSound ==
    ASSUME NEW m, NEW N, NEW lo, NEW hi, Tree(m, N, lo, hi), NEW need \in Nat \ {0}
    PROVE  FindsClosest(m, N, need)
<1> DEFINE found == Arena!find_closest_node(m, need)
           fit == {Size(m, n) : n \in {k \in N : Size(m, k) >= need}}
<1>1. \/ found = null /\ \A k \in N : Size(m, k) < need
      \/ /\ found \in N /\ Size(m, found) >= need
         /\ \A k \in N : Size(m, k) >= need => Size(m, found) <= Size(m, k)
  BY ClosestFound
<1>2. \A k \in N : Size(m, k) \in Int
  BY NodeFacts
<1> HIDE DEF found
<1>3. CASE found = null /\ \A k \in N : Size(m, k) < need
  <2>1. fit = {}
    BY <1>2, <1>3
  <2> QED BY <1>3, <2>1 DEF FindsClosest, found
<1>4. CASE /\ found \in N /\ Size(m, found) >= need
           /\ \A k \in N : Size(m, k) >= need => Size(m, found) <= Size(m, k)
  <2>1. Size(m, found) \in fit /\ \A w \in fit : Size(m, found) <= w
    BY <1>4
  <2> QED BY <2>1 DEF FindsClosest, found
<1> QED BY <1>1, <1>3, <1>4

(* All that TreeSound says of a manager.                                   *)
LEMMA ManagerSound ==
    ASSUME NEW m, NEW TB, NEW BB, Manages(m, TB, BB)
    PROVE  /\ \A n \in Arena!tree_nodes(m) : SoundNode(m, Arena!tree_nodes(m), n)
           /\ m.root # null => m.node[m.root].parent = null
           /\ \A need \in TreeMinWords..RegionWords : FindsClosest(m, Arena!tree_nodes(m), need)
           /\ m.small + m.tree = Cardinality(Cover(Arena!managed_blocks(m)))
           /\ m.small = 0 <=> \A n \in Arena!BinSizes : m.bin[n] = <<>>
<1>1. PICK N, lo, hi, home, rank :
         Tree(m, N, lo, hi) /\ SizeLists(m, N, home, rank) /\ TB = TreeBlocks(m, home)
  BY DEF Manages, Forest
<1>2. Arena!tree_nodes(m) = N
  BY <1>1, TreeNodes
<1>3. \A n \in N : SoundNode(m, N, n)
  BY <1>1, NodesSound
<1>4. m.root # null => m.node[m.root].parent = null
  BY <1>1 DEF Tree, Rooted
<1>5. ASSUME NEW need \in TreeMinWords..RegionWords PROVE FindsClosest(m, N, need)
  <2>1. need \in Nat \ {0}
    BY MetaspaceArenaAssumption
  <2> QED BY <1>1, <2>1, ClosestSound
<1>6. m.small + m.tree = Cardinality(Cover(Arena!managed_blocks(m)))
  <2>1. Arena!managed_blocks(m) = TB \cup BB /\ TB \cap BB = {} /\ TB \in SUBSET Block /\ BB \in SUBSET Block
        /\ Apart(TB \cup BB)
    BY ManagesBlocks DEF Manages
  <2>2. Cover(TB) \cap Cover(BB) = {}
    BY <2>1 DEF Cover, Apart
  <2>3. IsFiniteSet(Cover(TB)) /\ IsFiniteSet(Cover(BB))
        /\ Cardinality(Cover(TB)) \in Nat /\ Cardinality(Cover(BB)) \in Nat
    BY <2>1, CoverFinite
  <2>4. Cardinality(Cover(TB) \cup Cover(BB)) = Cardinality(Cover(TB)) + Cardinality(Cover(BB))
    BY <2>2, <2>3, DisjointCardinality
  <2>5. m.tree = Cardinality(Cover(TB)) /\ m.small = Cardinality(Cover(BB))
    BY DEF Manages
  <2>6. Cover(Arena!managed_blocks(m)) = Cover(TB) \cup Cover(BB)
    BY <2>1, CoverSplit
  <2>7. Cardinality(Cover(Arena!managed_blocks(m))) = m.tree + m.small
    BY ONLY <2>4, <2>5, <2>6
  <2> QED BY <2>3, <2>5, <2>7
<1>7. m.small = 0 <=> \A n \in Arena!BinSizes : m.bin[n] = <<>>
  <2>1. BB \in SUBSET Block /\ m.small = Cardinality(Cover(BB)) /\ BB = BinBlocks(m)
        /\ m.bin \in [Arena!BinSizes -> Seq(Words)]
    BY ManagerFields DEF Manages
  <2>2. Cardinality(Cover(BB)) = 0 <=> Cover(BB) = {}
    BY <2>1, CoverFinite, FS_EmptySet
  <2>3. Cover(BB) = {} <=> BB = {}
    BY <2>1, BlockFacts DEF Cover
  <2>4. ASSUME BB = {}, NEW n \in Arena!BinSizes PROVE m.bin[n] = <<>>
    <3>1. m.bin[n] \in Seq(Words)
      BY <2>1
    <3>2. ASSUME NEW i \in DOMAIN m.bin[n] PROVE FALSE
      <4>1. [p |-> m.bin[n][i], words |-> n] \in BB
        BY <2>1, BinBlock
      <4> QED BY <2>4, <4>1
    <3>3. Len(m.bin[n]) = 0
      <4>1. DOMAIN m.bin[n] = 1..Len(m.bin[n]) /\ Len(m.bin[n]) \in Nat
        BY <3>1
      <4>2. Len(m.bin[n]) # 0 => 1 \in DOMAIN m.bin[n]
        BY <4>1
      <4> QED BY <3>2, <4>2
    <3> QED BY <3>1, <3>3, EmptySeq
  <2>5. ASSUME \A n \in Arena!BinSizes : m.bin[n] = <<>> PROVE BB = {}
    <3>1. \A n \in Arena!BinSizes : DOMAIN m.bin[n] = {}
      BY <2>5
    <3> QED BY <2>1, <3>1 DEF BinBlocks
  <2> QED BY <2>1, <2>2, <2>3, <2>4, <2>5
<1> QED BY <1>2, <1>3, <1>4, <1>5, <1>6, <1>7

(* The words of a segment that are used, and those of its region.          *)
UsedOf(s) == s.base..(s.base + s.used - 1)
Used(segs) == UNION {UsedOf(s) : s \in {segs[i] : i \in DOMAIN segs}}

Segment == [base : Int, total : Int, committed : Int, used : Int]
Grown(s, r) == (r.base + s.used)..(r.base + r.used - 1)
Replaced(segs, i, r) == [segs EXCEPT ![i] = r]
Filled(s) == 0 <= s.used /\ s.used <= s.committed /\ s.committed <= s.total /\ s.total <= RegionWords

(* Segments of n regions, each in a region of its own.                     *)
SegmentsApart(segs, n) ==
    /\ segs \in Seq(Segment) /\ n \in 0..MaxSegments
    /\ \A i \in DOMAIN segs : /\ Filled(segs[i])
                              /\ \E k \in 0..(n - 1) : segs[i].base = k * RegionWords
    /\ \A i, j \in DOMAIN segs : segs[i].base = segs[j].base => i = j

(* Regions lie one behind the other.                                       *)
LEMMA ProductOrder ==
    ASSUME NEW j \in Nat, NEW k \in Nat, NEW r \in Nat, j < k
    PROVE  j * r \in Int /\ k * r \in Int /\ j * r + r <= k * r
<1>1. k = (j + 1) + (k - (j + 1)) /\ k - (j + 1) \in Nat
  OBVIOUS
<1>2. \A d \in Nat : ((j + 1) + d) * r = j * r + r + d * r /\ d * r \in Nat
  BY SMTT(30)
<1>3. j * r \in Int /\ k * r \in Int
  BY SMTT(30)
<1> QED BY <1>1, <1>2, <1>3

(* A region is memory of the arena.                                        *)
LEMMA RegionInWords ==
    ASSUME NEW k \in 0..(MaxSegments - 1), NEW b, b = k * RegionWords
    PROVE  b \in Int /\ b..(b + RegionWords - 1) \subseteq Words
<1>1. MaxSegments \in Nat /\ RegionWords \in Nat /\ Words = 0..(MaxSegments * RegionWords - 1)
  BY MetaspaceArenaAssumption
<1>2. k \in Nat /\ k < MaxSegments
  BY <1>1
<1>3. b \in Int /\ b + RegionWords <= MaxSegments * RegionWords /\ MaxSegments * RegionWords \in Int /\ 0 <= b
  <2>1. b >= 0
    BY <1>1, <1>2, SMTT(30)
  <2> QED BY <1>1, <1>2, <2>1, ProductOrder
<1> QED BY <1>1, <1>3

(* Two regions have no word in common.                                     *)
LEMMA RegionsApart ==
    ASSUME NEW j \in Nat, NEW k \in Nat, j # k, NEW a, a = j * RegionWords, NEW b, b = k * RegionWords
    PROVE  (a..(a + RegionWords - 1)) \cap (b..(b + RegionWords - 1)) = {}
<1>1. RegionWords \in Nat
  BY MetaspaceArenaAssumption
<1>2. a \in Int /\ b \in Int /\ (a + RegionWords <= b \/ b + RegionWords <= a)
  BY <1>1, ProductOrder
<1> QED BY <1>1, <1>2

(* A segment that more of is used.                                         *)
LEMMA SegmentGrown ==
    ASSUME NEW segs, NEW n, SegmentsApart(segs, n), NEW i \in DOMAIN segs,
           NEW r \in Segment, Filled(r), r.base = segs[i].base, segs[i].used <= r.used,
           NEW segs2, segs2 = Replaced(segs, i, r)
    PROVE  /\ SegmentsApart(segs2, n)
           /\ Used(segs2) = Used(segs) \cup Grown(segs[i], r) /\ Used(segs) \cap Grown(segs[i], r) = {}
           /\ Grown(segs[i], r) \subseteq Words
<1> DEFINE old == segs[i]
           more == Grown(old, r)
<1>1. /\ segs \in Seq(Segment) /\ old \in Segment /\ Filled(old) /\ n \in 0..MaxSegments
      /\ segs2 \in Seq(Segment) /\ DOMAIN segs2 = DOMAIN segs /\ segs2[i] = r
      /\ \A j \in DOMAIN segs \ {i} : segs2[j] = segs[j]
      /\ RegionWords \in Nat
  BY MetaspaceArenaAssumption DEF SegmentsApart, Replaced
<1>2. PICK k \in 0..(n - 1) : old.base = k * RegionWords
  BY DEF SegmentsApart
<1>3. k \in 0..(MaxSegments - 1) /\ k \in Nat
  BY <1>1, MetaspaceArenaAssumption
<1>4. /\ old.base \in Int /\ old.used \in Int /\ r.used \in Int /\ r.base = old.base
      /\ 0 <= old.used /\ old.used <= r.used /\ r.used <= RegionWords
  BY <1>1 DEF Segment, Filled
<1>5. more \subseteq Words /\ more \subseteq old.base..(old.base + RegionWords - 1)
      /\ UsedOf(r) = UsedOf(old) \cup more /\ UsedOf(old) \cap more = {}
  <2>1. old.base..(old.base + RegionWords - 1) \subseteq Words
    BY <1>2, <1>3, RegionInWords
  <2>2. more \subseteq old.base..(old.base + RegionWords - 1)
    BY <1>1, <1>4 DEF Grown
  <2>3. UsedOf(r) = UsedOf(old) \cup more /\ UsedOf(old) \cap more = {}
    BY <1>4 DEF UsedOf, Grown
  <2> QED BY <2>1, <2>2, <2>3
<1>6. SegmentsApart(segs2, n)
  <2>1. \A j \in DOMAIN segs2 : Filled(segs2[j]) /\ segs2[j].base = segs[j].base
    BY <1>1, <1>4 DEF SegmentsApart
  <2>2. ASSUME NEW j \in DOMAIN segs2 PROVE \E l \in 0..(n - 1) : segs2[j].base = l * RegionWords
    <3>1. PICK l \in 0..(n - 1) : segs[j].base = l * RegionWords
      BY <1>1 DEF SegmentsApart
    <3> QED BY <2>1, <3>1
  <2>3. \A j, l \in DOMAIN segs2 : segs2[j].base = segs2[l].base => j = l
    BY <1>1, <2>1 DEF SegmentsApart
  <2> QED BY <1>1, <2>1, <2>2, <2>3 DEF SegmentsApart
<1>7. ASSUME NEW j \in DOMAIN segs, j # i PROVE UsedOf(segs[j]) \cap more = {}
  <2>1. PICK l \in 0..(n - 1) : segs[j].base = l * RegionWords
    BY DEF SegmentsApart
  <2>2. l # k /\ l \in Nat
    <3>1. segs[j].base # old.base
      BY <1>7 DEF SegmentsApart
    <3> QED BY <1>2, <2>1, <3>1
  <2>3. (segs[j].base..(segs[j].base + RegionWords - 1)) \cap (old.base..(old.base + RegionWords - 1)) = {}
    BY <1>2, <1>3, <2>1, <2>2, RegionsApart
  <2>4. segs[j].base \in Int /\ segs[j].used \in Int /\ segs[j].used <= RegionWords
    <3>1. segs[j] \in Segment /\ Filled(segs[j])
      BY <1>1 DEF SegmentsApart
    <3> QED BY <1>1, <3>1 DEF Segment, Filled
  <2>5. UsedOf(segs[j]) \subseteq segs[j].base..(segs[j].base + RegionWords - 1)
    BY <1>1, <2>4 DEF UsedOf
  <2> QED BY <1>5, <2>3, <2>5
<1>8. Used(segs) \cap more = {}
  BY <1>5, <1>7 DEF Used
<1>9. Used(segs2) = Used(segs) \cup more
  <2>1. \A x : x \in Used(segs2) <=> \E j \in DOMAIN segs : x \in UsedOf(segs2[j])
    BY <1>1 DEF Used
  <2>2. \A x : x \in Used(segs) <=> \E j \in DOMAIN segs : x \in UsedOf(segs[j])
    BY DEF Used
  <2>3. UsedOf(segs2[i]) = UsedOf(segs[i]) \cup more
        /\ \A j \in DOMAIN segs : j # i => UsedOf(segs2[j]) = UsedOf(segs[j])
    BY <1>1, <1>5
  <2>4. \A x : x \in Used(segs2) <=> x \in Used(segs) \cup more
    BY ONLY <2>1, <2>2, <2>3, i \in DOMAIN segs
  <2> QED BY <2>4
<1> QED BY <1>5, <1>6, <1>8, <1>9

(* A new segment.                                                          *)
LEMMA SegmentAdded ==
    ASSUME NEW segs, NEW n, SegmentsApart(segs, n), n < MaxSegments, RegionWords >= 1,
           NEW r \in Segment, Filled(r), r.base = n * RegionWords
    PROVE  /\ SegmentsApart(Append(segs, r), n + 1)
           /\ Used(Append(segs, r)) = Used(segs) \cup UsedOf(r)
           /\ Used(segs) \cap UsedOf(r) = {} /\ UsedOf(r) \subseteq Words
<1> DEFINE segs2 == Append(segs, r)
           top == Len(segs) + 1
<1>1. /\ segs \in Seq(Segment) /\ n \in Nat /\ n \in 0..MaxSegments /\ RegionWords \in Nat /\ MaxSegments \in Nat
      /\ segs2 \in Seq(Segment) /\ DOMAIN segs = 1..Len(segs) /\ Len(segs) \in Nat
      /\ DOMAIN segs2 = DOMAIN segs \cup {top} /\ top \notin DOMAIN segs /\ segs2[top] = r
      /\ \A j \in DOMAIN segs : segs2[j] = segs[j]
  <2>1. /\ segs \in Seq(Segment) /\ n \in 0..MaxSegments /\ RegionWords \in Nat /\ MaxSegments \in Nat
    BY MetaspaceArenaAssumption DEF SegmentsApart
  <2>2. /\ segs2 \in Seq(Segment) /\ DOMAIN segs = 1..Len(segs) /\ Len(segs) \in Nat
        /\ Len(segs2) = Len(segs) + 1 /\ DOMAIN segs2 = 1..Len(segs2)
        /\ segs2[top] = r /\ \A j \in 1..Len(segs) : segs2[j] = segs[j]
    BY <2>1
  <2>3. 1..(Len(segs) + 1) = 1..Len(segs) \cup {top} /\ top \notin 1..Len(segs)
    BY <2>2
  <2> HIDE DEF segs2, top
  <2> QED BY <2>1, <2>2, <2>3
<1> HIDE DEF segs2, top
<1>2. r.base \in Int /\ r.used \in Int /\ r.used <= RegionWords /\ 0 <= r.used
  BY <1>1 DEF Segment, Filled
<1>3. UsedOf(r) \subseteq r.base..(r.base + RegionWords - 1)
  BY <1>1, <1>2 DEF UsedOf
<1>4. r.base..(r.base + RegionWords - 1) \subseteq Words
  <2>1. n \in 0..(MaxSegments - 1)
    BY <1>1
  <2> QED BY <2>1, RegionInWords
<1>5. ASSUME NEW j \in DOMAIN segs
      PROVE  UsedOf(segs[j]) \cap UsedOf(r) = {} /\ segs[j].base # r.base
  <2>1. PICK l \in 0..(n - 1) : segs[j].base = l * RegionWords
    BY DEF SegmentsApart
  <2>2. l \in Nat /\ n \in Nat /\ l < n
    BY <1>1
  <2>3. segs[j].base # r.base
    BY <1>1, <2>1, <2>2, ProductOrder
  <2>4. (segs[j].base..(segs[j].base + RegionWords - 1)) \cap (r.base..(r.base + RegionWords - 1)) = {}
    BY <2>1, <2>2, RegionsApart
  <2>5. segs[j].base \in Int /\ segs[j].used \in Int /\ segs[j].used <= RegionWords
    <3>1. segs[j] \in Segment /\ Filled(segs[j])
      BY <1>1 DEF SegmentsApart
    <3> QED BY <1>1, <3>1 DEF Segment, Filled
  <2>6. UsedOf(segs[j]) \subseteq segs[j].base..(segs[j].base + RegionWords - 1)
    BY <1>1, <2>5 DEF UsedOf
  <2> QED BY <1>3, <2>3, <2>4, <2>6
<1>6. Used(segs) \cap UsedOf(r) = {}
  BY <1>5 DEF Used
<1>7. Used(segs2) = Used(segs) \cup UsedOf(r)
  <2>1. \A x : x \in Used(segs2) <=> \E j \in DOMAIN segs2 : x \in UsedOf(segs2[j])
    BY DEF Used
  <2>2. \A x : x \in Used(segs) <=> \E j \in DOMAIN segs : x \in UsedOf(segs[j])
    BY DEF Used
  <2> QED BY <1>1, <2>1, <2>2
<1>8. SegmentsApart(segs2, n + 1)
  <2>1. n + 1 \in 0..MaxSegments
    BY <1>1
  <2>2. ASSUME NEW j \in DOMAIN segs2
        PROVE  Filled(segs2[j]) /\ \E k \in 0..((n + 1) - 1) : segs2[j].base = k * RegionWords
    <3>1. CASE j = top
      <4>1. n \in 0..((n + 1) - 1)
        BY <1>1
      <4> QED BY <1>1, <3>1, <4>1
    <3>2. CASE j \in DOMAIN segs
      <4>1. PICK l \in 0..(n - 1) : segs[j].base = l * RegionWords
        BY <3>2 DEF SegmentsApart
      <4>2. l \in 0..((n + 1) - 1)
        BY <1>1
      <4> QED BY <1>1, <3>2, <4>1, <4>2 DEF SegmentsApart
    <3> QED BY <1>1, <3>1, <3>2
  <2>3. ASSUME NEW i \in DOMAIN segs2, NEW j \in DOMAIN segs2, segs2[i].base = segs2[j].base
        PROVE  i = j
    <3>1. CASE i \in DOMAIN segs /\ j \in DOMAIN segs
      BY <1>1, <2>3, <3>1 DEF SegmentsApart
    <3>2. CASE i = top \/ j = top
      BY <1>1, <1>5, <2>3, <3>2
    <3> QED BY <1>1, <3>1, <3>2
  <2> QED BY <1>1, <2>1, <2>2, <2>3 DEF SegmentsApart
<1> QED BY <1>3, <1>4, <1>6, <1>7, <1>8 DEF segs2

(* The users' blocks H and the manager's blocks M are the memory U.        *)
Partition(H, M, U) ==
    /\ H \cup M \in SUBSET Block /\ H \cap M = {}
    /\ Apart(H \cup M) /\ Cover(H \cup M) = U

(* The two sides are alike.                                                *)
LEMMA PartitionSwapped ==
    ASSUME NEW H, NEW M, NEW U, Partition(H, M, U)
    PROVE  Partition(M, H, U)
<1>1. M \cup H = H \cup M /\ M \cap H = H \cap M
  OBVIOUS
<1> QED BY <1>1 DEF Partition

(* A block of memory that was not used, for one side.                      *)
LEMMA PartitionMore ==
    ASSUME NEW H, NEW M, NEW U, Partition(H, M, U), NEW b \in Block, Arena!Memory(b) \cap U = {}
    PROVE  Partition(H \cup {b}, M, U \cup Arena!Memory(b))
<1> DEFINE B == H \cup M
<1>1. B \in SUBSET Block /\ Apart(B) /\ Cover(B) = U /\ H \cap M = {}
  BY DEF Partition
<1>2. (H \cup {b}) \cup M = B \cup {b}
  OBVIOUS
<1>3. Cover(B \cup {b}) = U \cup Arena!Memory(b) /\ b \notin B /\ Apart(B \cup {b})
  <2> HIDE DEF B
  <2> QED BY <1>1, CoverAdd
<1>4. B \cup {b} \in SUBSET Block /\ (H \cup {b}) \cap M = {}
  BY <1>1, <1>3
<1> QED BY <1>2, <1>3, <1>4 DEF Partition

(* A block that changes the side.                                          *)
LEMMA PartitionReturned ==
    ASSUME NEW H, NEW M, NEW U, Partition(H, M, U), NEW b \in H
    PROVE  /\ b \in Block /\ Arena!Memory(b) \cap Cover(M) = {}
           /\ Partition(H \ {b}, M \cup {b}, U)
<1>1. (H \ {b}) \cup (M \cup {b}) = H \cup M /\ (H \ {b}) \cap (M \cup {b}) = {}
  BY DEF Partition
<1>2. b \in Block /\ b \notin M
  BY DEF Partition
<1>3. Arena!Memory(b) \cap Cover(M) = {}
  BY <1>2 DEF Partition, Apart, Cover
<1> QED BY <1>1, <1>2, <1>3 DEF Partition

(* A block that changes the side in part.                                  *)
LEMMA PartitionSplit ==
    ASSUME NEW H, NEW M, NEW U, Partition(H, M, U), NEW b \in M,
           NEW need \in Nat \ {0}, need <= b.words, NEW rest,
           rest = IF b.words = need THEN {} ELSE {[p |-> b.p + need, words |-> b.words - need]}
    PROVE  Partition(H \cup {[p |-> b.p, words |-> need]}, (M \ {b}) \cup rest, U)
<1> DEFINE u == [p |-> b.p, words |-> need]
           w == [p |-> b.p + need, words |-> b.words - need]
           V == Cover(H \cup (M \ {b}))
<1>1. b \in Block /\ H \cup M \in SUBSET Block /\ Apart(H \cup M) /\ Cover(H \cup M) = U /\ H \cap M = {}
      /\ b \in H \cup M
  BY DEF Partition
<1>2. /\ b.p \in Words /\ b.p \in Int /\ b.words \in Nat /\ Arena!Memory(b) \subseteq Words
      /\ b.p \in Arena!Memory(b)
      /\ Arena!Memory(b) = b.p..(b.p + b.words - 1)
  BY <1>1, BlockFacts DEF Arena!Memory
<1>3. (H \cup M) \ {b} = H \cup (M \ {b})
  BY <1>1
<1>4. U = V \cup Arena!Memory(b) /\ Arena!Memory(b) \cap V = {} /\ Apart(H \cup (M \ {b}))
  <2> DEFINE B == H \cup M
             C == B \ {b}
  <2>1. B \in SUBSET Block /\ Apart(B) /\ b \in B /\ Cover(B) = U /\ C = H \cup (M \ {b})
    BY <1>1, <1>3
  <2>2. Cover(C) = V
    BY <2>1
  <2> HIDE DEF B, V
  <2>3. Cover(B) = Cover(C) \cup Arena!Memory(b) /\ Arena!Memory(b) \cap Cover(C) = {} /\ Apart(C)
    BY <2>1, CoverRemove
  <2> QED BY <2>1, <2>2, <2>3
<1>5. Partition(H, M \ {b}, V)
  BY <1>1, <1>4 DEF Partition
<1>6. u \in Block /\ Arena!Memory(u) = b.p..(b.p + need - 1) /\ Arena!Memory(u) \subseteq Arena!Memory(b)
  <2>1. u.p = b.p /\ u.words = need
    OBVIOUS
  <2>2. Arena!Memory(u) = b.p..(b.p + need - 1)
    BY <2>1 DEF Arena!Memory
  <2>3. Arena!Memory(u) \subseteq Arena!Memory(b)
    BY <1>2, <2>2
  <2> QED BY <1>2, <2>2, <2>3 DEF Block
<1>7. Partition(H \cup {u}, M \ {b}, V \cup Arena!Memory(u))
  <2> HIDE DEF u, V
  <2> QED BY <1>4, <1>5, <1>6, PartitionMore
<1>8. CASE b.words = need
  <2>1. rest = {} /\ Arena!Memory(u) = Arena!Memory(b)
    BY <1>2, <1>6, <1>8
  <2> QED BY <1>4, <1>7, <2>1
<1>9. CASE b.words # need
  <2>1. w.p = b.p + need /\ w.words = b.words - need /\ w.words \in Nat \ {0} /\ rest = {w}
    BY <1>2, <1>9
  <2>2. Arena!Memory(w) = (b.p + need)..(b.p + need + (b.words - need) - 1)
    BY <2>1 DEF Arena!Memory
  <2>3. /\ Arena!Memory(w) \cup Arena!Memory(u) = Arena!Memory(b) /\ Arena!Memory(w) \cap Arena!Memory(u) = {}
        /\ b.p + need \in Arena!Memory(w)
    <3> DEFINE p == b.p
               n == b.words
    <3>1. p \in Int /\ n \in Int /\ n - need \in Nat \ {0} /\ need \in Nat \ {0}
      BY <1>2, <2>1
    <3>2. Arena!Memory(w) = (p + need)..(p + need + (n - need) - 1) /\ Arena!Memory(u) = p..(p + need - 1)
          /\ Arena!Memory(b) = p..(p + n - 1)
      BY <1>2, <1>6, <2>2
    <3> HIDE DEF p, n, u, w
    <3>3. p + need + (n - need) - 1 = p + n - 1
      BY <3>1
    <3>4. Arena!Memory(w) = (p + need)..(p + n - 1)
      BY <3>2, <3>3
    <3>5. p + need \in Arena!Memory(w)
      BY <3>1, <3>4
    <3>6. Arena!Memory(w) \cap Arena!Memory(u) = {}
      BY <3>1, <3>2, <3>4
    <3>7. Arena!Memory(w) \cup Arena!Memory(u) = Arena!Memory(b)
      BY <3>1, <3>2, <3>4
    <3> QED BY <3>5, <3>6, <3>7 DEF p
  <2>4. w \in Block
    BY <1>2, <2>1, <2>3 DEF Block
  <2>5. Arena!Memory(w) \cap (V \cup Arena!Memory(u)) = {} /\ (V \cup Arena!Memory(u)) \cup Arena!Memory(w) = U
    BY <1>4, <2>3
  <2> HIDE DEF u, w, V
  <2>6. Partition((M \ {b}) \cup {w}, H \cup {u}, (V \cup Arena!Memory(u)) \cup Arena!Memory(w))
    BY <1>7, <2>4, <2>5, PartitionSwapped, PartitionMore
  <2>7. Partition(H \cup {u}, (M \ {b}) \cup {w}, U)
    BY <2>5, <2>6, PartitionSwapped
  <2> QED BY <2>1, <2>7 DEF u
<1> QED BY <1>8, <1>9

(* What holds of an arena between two calls: its segments, its manager,    *)
(* its users' blocks and the number of regions that it has seen.           *)
ManagerOf(m, TB, BB) ==
    IF m = null THEN TB = {} /\ BB = {} ELSE Manages(m, TB, BB)

ArenaSound(segs, m, H, n) ==
    /\ SegmentsApart(segs, n)
    /\ \E TB, BB : ManagerOf(m, TB, BB) /\ Partition(H, TB \cup BB, Used(segs))

LEMMA ManagerIsNotNull ==
    ASSUME NEW m, NEW TB, NEW BB, Manages(m, TB, BB)
    PROVE  ManagerOf(m, TB, BB)
BY MetaspaceArenaAssumption DEF Manages, ManagerOf

(* What an allocation needs is some words.                                 *)
LEMMA DivisionPositive ==
    ASSUME NEW x \in Nat, NEW u \in Nat \ {0}, x >= u
    PROVE  x \div u \in Nat \ {0}
<1> DEFINE q == x \div u
<1>1. q \in Int /\ x < u * q + u
  BY SMTT(30)
<1>2. CASE q <= 0
  <2>1. u * q <= 0 /\ u * q \in Int
    BY <1>1, <1>2, SMTT(30)
  <2> QED BY <1>1, <2>1
<1> HIDE DEF q
<1>3. q \in Nat \ {0}
  BY <1>1, <1>2
<1> QED BY <1>3 DEF q

LEMMA NeedPositive ==
    ASSUME NEW bytes \in Nat
    PROVE  Arena!get_raw_byte_for_requested(bytes) \in Nat \ {0}
<1> DEFINE u == BytesPerWord
           n == Arena!MAX2(bytes, u)
           q == (n + u - 1) \div u
<1>1. u \in Nat \ {0}
  BY MetaspaceArenaAssumption
<1>2. n \in Nat /\ n >= u
  BY <1>1 DEF Arena!MAX2
<1>3. n + u - 1 \in Nat /\ n + u - 1 >= u
  BY <1>1, <1>2
<1>4. q \in Nat \ {0}
  <2> HIDE DEF u, n
  <2> QED BY <1>1, <1>3, DivisionPositive
<1>5. Arena!get_raw_byte_for_requested(bytes) = (q * u) \div u
  BY DEF Arena!get_raw_byte_for_requested, Arena!align_up
<1> HIDE DEF u, n, q
<1>6. q * u \in Nat /\ q * u >= u
  <2>1. \A k \in Nat : (k + 1) * u = k * u + u /\ k * u \in Nat
    BY <1>1, SMTT(30)
  <2>2. q - 1 \in Nat /\ (q - 1) + 1 = q
    BY <1>4
  <2> QED BY <1>1, <2>1, <2>2
<1> QED BY <1>1, <1>5, <1>6, DivisionPositive

(* From a block that the manager has.                                      *)
LEMMA ServedSound ==
    ASSUME NEW segs, NEW m, NEW H, NEW n, ArenaSound(segs, m, H, n), NEW need \in Nat \ {0},
           m # null, NEW b, b = Arena!found_block(m, need), b.p # null,
           NEW m2, m2 = Arena!after_allocate(m, need)
    PROVE  ArenaSound(segs, m2, H \cup {[p |-> b.p, words |-> need]}, n)
<1>1. PICK TB, BB : Manages(m, TB, BB) /\ Partition(H, TB \cup BB, Used(segs))
  BY DEF ArenaSound, ManagerOf
<1> DEFINE rest == IF b.words = need THEN {} ELSE {[p |-> b.p + need, words |-> b.words - need]}
           M == TB \cup BB
<1>2. b \in M /\ b.words >= need
      /\ \E TB2, BB2 : Manages(m2, TB2, BB2) /\ TB2 \cup BB2 = (M \ {b}) \cup rest
  BY <1>1, Allocated
<1>3. PICK TB2, BB2 : Manages(m2, TB2, BB2) /\ TB2 \cup BB2 = (M \ {b}) \cup rest
  BY <1>2
<1>4. need <= b.words
  <2>1. b.words \in Int
    BY <1>1, <1>2, ManagesBlocks DEF Block
  <2> QED BY <1>2, <2>1
<1>5. Partition(H, M, Used(segs)) /\ b \in M
  BY <1>1, <1>2
<1> HIDE DEF M
<1>6. Partition(H \cup {[p |-> b.p, words |-> need]}, (M \ {b}) \cup rest, Used(segs))
  BY <1>4, <1>5, PartitionSplit
<1>7. ManagerOf(m2, TB2, BB2)
  BY <1>3, ManagerIsNotNull
<1> QED BY <1>3, <1>6, <1>7 DEF ArenaSound

(* The next words of a segment, and the segment once they are used.        *)
NextBlock(s, words) == [p |-> s.base + s.used, words |-> words]

UsesMore(r, s, words) == r.base = s.base /\ r.used = s.used + words

(* More of a segment is used.                                              *)
LEMMA BlockGrown ==
    ASSUME NEW segs, NEW n, SegmentsApart(segs, n), NEW i \in DOMAIN segs,
           NEW r \in Segment, Filled(r), NEW need \in Nat \ {0}, UsesMore(r, segs[i], need),
           NEW segs2, segs2 = Replaced(segs, i, r),
           NEW b, b = NextBlock(segs[i], need)
    PROVE  /\ SegmentsApart(segs2, n) /\ b \in Block /\ Arena!Memory(b) \cap Used(segs) = {}
           /\ Used(segs2) = Used(segs) \cup Arena!Memory(b)
<1>1. SegmentsApart(segs, n) /\ segs[i] \in Segment /\ Filled(segs[i])
  BY DEF SegmentsApart
<1>2. segs[i].used \in Int /\ r.base \in Int /\ need \in Int /\ segs[i].used <= r.used
      /\ r.base = segs[i].base /\ r.used = segs[i].used + need
  BY <1>1 DEF Segment, UsesMore
<1>3. b.p = r.base + segs[i].used /\ b.words = need /\ b.p \in Int
  BY <1>2 DEF NextBlock
<1> DEFINE more == Grown(segs[i], r)
<1>4. Arena!Memory(b) = (r.base + segs[i].used)..(r.base + segs[i].used + need - 1)
  BY <1>3 DEF Arena!Memory
<1>5. Arena!Memory(b) = more /\ b.p \in more
  <2>1. r.base + segs[i].used + need - 1 = r.base + r.used - 1
    BY <1>2
  <2>2. Arena!Memory(b) = more
    BY <1>4, <2>1 DEF Grown
  <2>3. b.p \in Arena!Memory(b)
    BY <1>2, <1>3, <1>4
  <2> QED BY <2>2, <2>3
<1>6. SegmentsApart(segs2, n) /\ Used(segs2) = Used(segs) \cup more /\ Used(segs) \cap more = {}
      /\ more \subseteq Words
  BY <1>1, <1>2, SegmentGrown
<1> HIDE DEF more
<1>7. b \in Block
  BY <1>3, <1>5, <1>6 DEF Block, NextBlock
<1> QED BY <1>5, <1>6, <1>7

(* More of a segment is used, for a user.                                  *)
LEMMA GrownSound ==
    ASSUME NEW segs, NEW m, NEW H, NEW n, ArenaSound(segs, m, H, n), NEW i \in DOMAIN segs,
           NEW r \in Segment, Filled(r), NEW need \in Nat \ {0}, UsesMore(r, segs[i], need),
           NEW segs2, segs2 = Replaced(segs, i, r)
    PROVE  ArenaSound(segs2, m, H \cup {NextBlock(segs[i], need)}, n)
<1> DEFINE b == NextBlock(segs[i], need)
<1>1. SegmentsApart(segs, n)
  BY DEF ArenaSound
<1>2. PICK TB, BB : ManagerOf(m, TB, BB) /\ Partition(H, TB \cup BB, Used(segs))
  BY DEF ArenaSound
<1>3. /\ SegmentsApart(segs2, n) /\ b \in Block /\ Arena!Memory(b) \cap Used(segs) = {}
      /\ Used(segs2) = Used(segs) \cup Arena!Memory(b)
  BY <1>1, BlockGrown
<1> HIDE DEF b
<1>4. Partition(H \cup {b}, TB \cup BB, Used(segs) \cup Arena!Memory(b))
  BY <1>2, <1>3, PartitionMore
<1>5. Partition(H \cup {b}, TB \cup BB, Used(segs2))
  BY <1>3, <1>4
<1>6. ArenaSound(segs2, m, H \cup {b}, n)
  BY <1>2, <1>3, <1>5 DEF ArenaSound
<1> QED BY <1>6 DEF b

(* A new segment, used for a user.                                         *)
LEMMA AddedSound ==
    ASSUME NEW segs, NEW m, NEW H, NEW n, ArenaSound(segs, m, H, n), n < MaxSegments, RegionWords >= 1,
           NEW r \in Segment, Filled(r), r.base = n * RegionWords, NEW need \in Nat \ {0}, r.used = need
    PROVE  ArenaSound(Append(segs, r), m, H \cup {[p |-> r.base, words |-> need]}, n + 1)
<1> DEFINE b == [p |-> r.base, words |-> need]
           segs2 == Append(segs, r)
<1>1. SegmentsApart(segs, n)
  BY DEF ArenaSound
<1>2. SegmentsApart(segs2, n + 1) /\ Used(segs2) = Used(segs) \cup UsedOf(r)
      /\ Used(segs) \cap UsedOf(r) = {} /\ UsedOf(r) \subseteq Words
  BY <1>1, SegmentAdded
<1>3. Arena!Memory(b) = UsedOf(r) /\ b.p \in UsedOf(r) /\ b.words = need
  BY DEF Arena!Memory, UsedOf, Segment
<1>4. b \in Block
  BY <1>2, <1>3 DEF Block
<1>5. PICK TB, BB : ManagerOf(m, TB, BB) /\ Partition(H, TB \cup BB, Used(segs))
  BY DEF ArenaSound
<1> HIDE DEF b, segs2
<1>6. Partition(H \cup {b}, TB \cup BB, Used(segs) \cup Arena!Memory(b))
  BY <1>2, <1>3, <1>4, <1>5, PartitionMore
<1>7. ArenaSound(segs2, m, H \cup {b}, n + 1)
  BY <1>2, <1>3, <1>5, <1>6 DEF ArenaSound
<1> QED BY <1>7 DEF b, segs2

(* What is left of a segment goes to the manager.                          *)
LEMMA SalvagedSound ==
    ASSUME NEW segs, NEW m, NEW H, NEW n, ArenaSound(segs, m, H, n), NEW i \in DOMAIN segs,
           m # null, NEW r \in Segment, Filled(r), NEW left \in Nat \ {0}, UsesMore(r, segs[i], left),
           NEW segs2, segs2 = Replaced(segs, i, r),
           NEW m2, m2 = Arena!deallocate(m, segs[i].base + segs[i].used, left)
    PROVE  ArenaSound(segs2, m2, H, n)
<1> DEFINE b == NextBlock(segs[i], left)
<1>1. /\ SegmentsApart(segs2, n) /\ b \in Block /\ Arena!Memory(b) \cap Used(segs) = {}
      /\ Used(segs2) = Used(segs) \cup Arena!Memory(b)
  <2>1. SegmentsApart(segs, n)
    BY DEF ArenaSound
  <2> QED BY <2>1, BlockGrown
<1>2. b.p = segs[i].base + segs[i].used /\ b.words = left
  BY DEF NextBlock
<1>3. PICK TB, BB : Manages(m, TB, BB) /\ Partition(H, TB \cup BB, Used(segs))
  BY DEF ArenaSound, ManagerOf
<1> HIDE DEF b
<1> DEFINE M == TB \cup BB
<1>4. Arena!Memory(b) \cap Cover(M) = {}
  BY <1>1, <1>3 DEF Partition, Cover
<1>5. m2 = Arena!deallocate(m, b.p, b.words)
  BY <1>2
<1>6. \E TB2, BB2 : Manages(m2, TB2, BB2) /\ TB2 \cup BB2 = M \cup {b}
  BY <1>1, <1>3, <1>4, <1>5, Deallocated
<1>7. PICK TB2, BB2 : Manages(m2, TB2, BB2) /\ TB2 \cup BB2 = M \cup {b}
  BY <1>6
<1>8. Partition(H, M \cup {b}, Used(segs2))
  <2>1. Partition(M, H, Used(segs))
    BY <1>3, PartitionSwapped
  <2> HIDE DEF M
  <2>2. Partition(M \cup {b}, H, Used(segs) \cup Arena!Memory(b))
    BY <1>1, <2>1, PartitionMore
  <2> QED BY <1>1, <2>2, PartitionSwapped
<1>9. ManagerOf(m2, TB2, BB2)
  BY <1>7, ManagerIsNotNull
<1> QED BY <1>1, <1>7, <1>8, <1>9 DEF ArenaSound

(* A user gives a block back.                                              *)
LEMMA ReturnedSound ==
    ASSUME NEW segs, NEW m, NEW H, NEW n, ArenaSound(segs, m, H, n), NEW b \in H,
           NEW m1, m1 = (IF m = null THEN Arena!EmptyManager ELSE m),
           NEW m2, m2 = Arena!deallocate(m1, b.p, b.words)
    PROVE  ArenaSound(segs, m2, H \ {b}, n)
<1>1. PICK TB, BB : ManagerOf(m, TB, BB) /\ Partition(H, TB \cup BB, Used(segs))
  BY DEF ArenaSound
<1>2. Manages(m1, TB, BB)
  BY <1>1, NothingManaged DEF ManagerOf
<1> DEFINE M == TB \cup BB
<1>3. Partition(H, M, Used(segs))
  BY <1>1
<1> HIDE DEF M
<1>4. b \in Block /\ Arena!Memory(b) \cap Cover(M) = {} /\ Partition(H \ {b}, M \cup {b}, Used(segs))
  BY <1>3, PartitionReturned
<1>5. PICK TB2, BB2 : Manages(m2, TB2, BB2) /\ TB2 \cup BB2 = M \cup {b}
  BY <1>2, <1>4, Deallocated DEF M
<1>6. ManagerOf(m2, TB2, BB2)
  BY <1>5, ManagerIsNotNull
<1> QED BY <1>1, <1>4, <1>5, <1>6 DEF ArenaSound

(* Committing does not go beyond the segment.                              *)
LEMMA CommittedTo ==
    ASSUME NEW s \in Segment, s.committed <= s.total, NEW need \in Nat, NEW c \in Arena!CommitTo(s, need)
    PROVE  c \in Int /\ c <= s.total
<1> DEFINE to == Arena!MIN2(Arena!align_up(need, GranuleWords), s.total)
<1>1. s.total \in Int /\ s.committed \in Int /\ GranuleWords \in Nat \ {0}
  BY MetaspaceArenaAssumption DEF Segment
<1>2. Arena!align_up(need, GranuleWords) \in Int
  <2>1. (need + GranuleWords - 1) \div GranuleWords \in Int
    BY <1>1
  <2> QED BY <1>1, <2>1 DEF Arena!align_up
<1>3. to \in Int /\ to <= s.total
  BY <1>1, <1>2 DEF Arena!MIN2
<1>4. c = to \/ c = s.committed
  BY DEF Arena!CommitTo
<1> QED BY <1>1, <1>3, <1>4

(* The current segment where it may be allocated from.                     *)
LEMMA PreparedFits ==
    ASSUME NEW n, SegmentsApart(segments, n), Arena!has_current, NEW need \in Nat \ {0},
           NEW s \in Arena!Prepared(need)
    PROVE  /\ 1 \in DOMAIN segments /\ Arena!current = segments[1]
           /\ s \in Segment /\ s.base = segments[1].base /\ s.used = segments[1].used
           /\ s.committed <= s.total /\ s.total <= RegionWords
<1> DEFINE old == segments[1]
<1>1. segments \in Seq(Segment) /\ 1 \in DOMAIN segments /\ Arena!current = old /\ RegionWords \in Nat
  BY MetaspaceArenaAssumption DEF SegmentsApart, Arena!has_current, Arena!current
<1>2. old \in Segment /\ Filled(old)
  BY <1>1 DEF SegmentsApart
<1> DEFINE Like(t) == /\ t \in Segment /\ t.base = old.base /\ t.used = old.used
                      /\ t.committed <= t.total /\ t.total <= RegionWords
<1>3. Like(old) /\ old.total \in Int /\ old.committed \in Int /\ old.used \in Int
  BY <1>2 DEF Segment, Filled
<1>4. ASSUME NEW t \in Arena!Fitting(need) PROVE Like(t)
  <2>1. CASE t = old
    BY <1>3, <2>1
  <2>2. CASE t \in Arena!Enlarged(old, need)
    <3>1. old.total + old.total <= RegionWords
      <4> SUFFICES ASSUME ~(old.total + old.total <= RegionWords) PROVE FALSE
        OBVIOUS
      <4>1. old.total + old.total > RegionWords
        BY <1>1, <1>3
      <4>2. Arena!Enlarged(old, need) = {}
        BY <4>1 DEF Arena!Enlarged
      <4> QED BY <2>2, <4>2
    <3>2. PICK c : /\ c = old.committed \/ (old.committed = old.total /\ c = old.committed + old.total)
                   /\ t = [old EXCEPT !.total = old.total + old.total, !.committed = c]
      BY <2>2 DEF Arena!Enlarged
    <3>3. old.committed <= old.total /\ 0 <= old.total
      BY <1>2, <1>3 DEF Filled
    <3>4. c \in Int /\ c <= old.total + old.total
      BY <1>3, <3>2, <3>3
    <3>5. t = [base |-> old.base, total |-> old.total + old.total, committed |-> c, used |-> old.used]
      BY <1>2, <3>2 DEF Segment
    <3> QED BY <1>2, <1>3, <3>1, <3>4, <3>5 DEF Segment
  <2> QED BY <1>1, <2>1, <2>2 DEF Arena!Fitting
<1>5. PICK t \in Arena!Fitting(need) : \E c \in Arena!Committed(t, need) : s = [t EXCEPT !.committed = c]
  BY DEF Arena!Prepared
<1>6. PICK c \in Arena!Committed(t, need) : s = [t EXCEPT !.committed = c]
  BY <1>5
<1>7. Like(t)
  BY <1>4
<1>8. c \in Int /\ c <= t.total
  <2>1. c = t.committed \/ c \in Arena!CommitTo(t, need)
    BY <1>6 DEF Arena!Committed
  <2> QED BY <1>7, <2>1, CommittedTo DEF Segment
<1>9. s = [base |-> t.base, total |-> t.total, committed |-> c, used |-> t.used]
  BY <1>6, <1>7 DEF Segment
<1> QED BY <1>1, <1>7, <1>8, <1>9 DEF Segment

(* The segment that the context answers with.                              *)
LEMMA NewSegmentFits ==
    ASSUME given \in Nat, NEW need \in Nat \ {0}, NEW s \in Arena!NewSegments(need)
    PROVE  /\ s \in Segment /\ s.base = given * RegionWords /\ s.used = 0
           /\ s.committed <= s.total /\ s.total <= RegionWords /\ RegionWords >= 1
<1> DEFINE fresh(n, c) == [base |-> given * RegionWords, total |-> n, committed |-> c, used |-> 0]
<1>1. PICK n \in SegmentWords :
         \E c \in 0..n : \E c2 : s = fresh(n, c2) /\ (c2 = c \/ c2 \in Arena!CommitTo(fresh(n, c), need))
  <2> DEFINE boundaries(n, c) == IF c >= need THEN {c} ELSE Arena!CommitTo(fresh(n, c), need)
             of(n) == UNION {{fresh(n, c2) : c2 \in boundaries(n, c)} :
                               c \in {c \in 0..n : c % GranuleWords = 0 \/ c = n}}
  <2>1. Arena!NewSegments(need) = UNION {of(n) : n \in {n \in SegmentWords : n >= need}}
    BY DEF Arena!NewSegments
  <2> HIDE DEF of
  <2>2. PICK n \in SegmentWords : s \in of(n)
    BY <2>1
  <2> HIDE DEF boundaries, fresh
  <2>3. PICK c \in 0..n : \E c2 \in boundaries(n, c) : s = fresh(n, c2)
    BY <2>2 DEF of
  <2>4. PICK c2 \in boundaries(n, c) : s = fresh(n, c2)
    BY <2>3
  <2>5. c2 = c \/ c2 \in Arena!CommitTo(fresh(n, c), need)
    BY <2>4 DEF boundaries
  <2> QED BY <2>4, <2>5
<1>2. PICK c \in 0..n :
         \E c2 : s = fresh(n, c2) /\ (c2 = c \/ c2 \in Arena!CommitTo(fresh(n, c), need))
  BY <1>1
<1>3. PICK c2 : s = fresh(n, c2) /\ (c2 = c \/ c2 \in Arena!CommitTo(fresh(n, c), need))
  BY <1>2
<1>4. n \in 1..RegionWords /\ RegionWords \in Nat /\ given * RegionWords \in Int
  <2>1. n \in 1..RegionWords /\ RegionWords \in Nat
    BY MetaspaceArenaAssumption
  <2> QED BY <2>1, SMTT(30)
<1>5. /\ fresh(n, c) \in Segment /\ fresh(n, c).committed <= fresh(n, c).total
      /\ c \in Int /\ c <= n /\ n \in Int
  BY <1>4 DEF Segment
<1>6. c2 \in Int /\ c2 <= n
  <2>1. fresh(n, c).total = n
    OBVIOUS
  <2> HIDE DEF fresh
  <2> QED BY <1>3, <1>5, <2>1, CommittedTo
<1> QED BY <1>3, <1>4, <1>6 DEF Segment

-----------------------------------------------------------------------------
(* Between two calls the arena is sound: no sooner is a property of the    *)
(* blocks kept than the shape of the tree is needed for it, and the other  *)
(* way round.                                                              *)
ArenaInvariant == ArenaSound(segments, block_manager, held, given)

(* It is so at the start, and each call leaves it so.                      *)
LEMMA ArenaInitSound ==
    Arena!Init => ArenaInvariant
<1> SUFFICES ASSUME Arena!Init PROVE ArenaInvariant
  OBVIOUS
<1>1. segments = <<>> /\ block_manager = null /\ held = {} /\ given = 0
  BY DEF Arena!Init
<1>2. SegmentsApart(<<>>, 0)
  BY MetaspaceArenaAssumption DEF SegmentsApart
<1>3. Used(<<>>) = {}
  BY DEF Used
<1>4. ManagerOf(null, {}, {}) /\ Partition({}, {}, {})
  BY DEF ManagerOf, Partition, Apart, Cover
<1>5. ArenaSound(<<>>, null, {}, 0)
  <2>1. {} \cup {} = {}
    OBVIOUS
  <2> QED BY <1>2, <1>3, <1>4, <2>1 DEF ArenaSound
<1> QED BY <1>1, <1>5 DEF ArenaInvariant

LEMMA BlockAllocatedSound ==
    ASSUME ArenaInvariant, NEW need \in Nat \ {0}, Arena!AllocateFromBlock(need)
    PROVE  ArenaInvariant'
<1> DEFINE b == Arena!found_block(block_manager, need)
           m2 == Arena!after_allocate(block_manager, need)
<1>1. /\ block_manager # null /\ b.p # null /\ block_manager' = m2
      /\ held' = held \cup {[p |-> b.p, words |-> need]} /\ segments' = segments /\ given' = given
  BY DEF Arena!AllocateFromBlock, Arena!BlockServes
<1>2. ArenaSound(segments, block_manager, held, given)
  BY DEF ArenaInvariant
<1>3. ArenaSound(segments, m2, held \cup {[p |-> b.p, words |-> need]}, given)
  BY <1>1, <1>2, ServedSound
<1>4. ArenaSound(segments', block_manager', held', given')
  BY <1>1, <1>3
<1> QED BY <1>4 DEF ArenaInvariant

LEMMA CurrentAllocatedSound ==
    ASSUME ArenaInvariant, NEW need \in Nat \ {0}, Arena!AllocateFromCurrent(need)
    PROVE  ArenaInvariant'
<1>1. ArenaSound(segments, block_manager, held, given) /\ SegmentsApart(segments, given)
  BY DEF ArenaInvariant, ArenaSound
<1>2. Arena!has_current
  BY DEF Arena!AllocateFromCurrent
<1>3. PICK s \in Arena!Prepared(need) :
         LET after == [s EXCEPT !.used = s.used + need]
         IN IF Arena!Overrun(after) THEN Arena!Stop("Segment.cpp:42")
            ELSE /\ segments' = [segments EXCEPT ![1] = after]
                 /\ held' = held \cup {[p |-> s.base + s.used, words |-> need]}
                 /\ used_bytes' = used_bytes + need
                 /\ UNCHANGED <<block_manager, given, arena_error>>
  BY DEF Arena!AllocateFromCurrent
<1> DEFINE after == [s EXCEPT !.used = s.used + need]
           b == NextBlock(segments[1], need)
           segs2 == Replaced(segments, 1, after)
<1>4. /\ 1 \in DOMAIN segments
      /\ s \in Segment /\ s.base = segments[1].base /\ s.used = segments[1].used
      /\ s.committed <= s.total /\ s.total <= RegionWords
  BY <1>1, <1>2, PreparedFits
<1>5. CASE Arena!Overrun(after)
  BY <1>1, <1>3, <1>5 DEF Arena!Stop, ArenaInvariant
<1>6. CASE ~Arena!Overrun(after)
  <2>1. /\ segments' = segs2 /\ held' = held \cup {b} /\ block_manager' = block_manager /\ given' = given
    BY <1>3, <1>4, <1>6 DEF Replaced, NextBlock
  <2>2. after \in Segment /\ after.base = s.base /\ after.used = s.used + need
        /\ after.committed = s.committed /\ after.total = s.total
    BY <1>4 DEF Segment
  <2>3. 0 <= s.used /\ s.used \in Int /\ s.committed \in Int
    <3>1. segments[1] \in Segment /\ Filled(segments[1])
      BY <1>1, <1>4 DEF SegmentsApart
    <3> QED BY <1>4, <3>1 DEF Filled, Segment
  <2>4. Filled(after)
    BY <1>4, <1>6, <2>2, <2>3 DEF Filled, Arena!Overrun
  <2>5. UsesMore(after, segments[1], need)
    BY <1>4, <2>2 DEF UsesMore
  <2> HIDE DEF after
  <2>6. ArenaSound(segs2, block_manager, held \cup {b}, given)
    BY <1>1, <1>4, <2>2, <2>4, <2>5, GrownSound
  <2>7. ArenaSound(segments', block_manager', held', given')
    BY <2>1, <2>6
  <2> QED BY <2>7 DEF ArenaInvariant
<1> QED BY <1>5, <1>6

LEMMA NewAllocatedSound ==
    ASSUME ArenaInvariant, NEW need \in Nat \ {0}, Arena!AllocateFromNew(need)
    PROVE  ArenaInvariant'
<1>1. ArenaSound(segments, block_manager, held, given) /\ SegmentsApart(segments, given)
      /\ given \in Nat /\ given < MaxSegments
  <2>1. ArenaSound(segments, block_manager, held, given) /\ SegmentsApart(segments, given)
    BY DEF ArenaInvariant, ArenaSound
  <2>2. given \in 0..MaxSegments
    BY <2>1 DEF SegmentsApart
  <2>3. given < MaxSegments
    BY DEF Arena!AllocateFromNew
  <2> QED BY <2>1, <2>2, <2>3, MetaspaceArenaAssumption
<1>2. PICK s \in Arena!NewSegments(need) :
         IF Arena!has_current /\ Arena!Remains(Arena!current) /\ block_manager = null THEN Arena!Stop("Arena.cpp:134")
         ELSE IF Arena!Overrun([s EXCEPT !.used = need]) THEN Arena!Stop("Segment.cpp:42")
         ELSE /\ Arena!Salvaged(need, s)
              /\ held' = held \cup {[p |-> s.base, words |-> need]}
              /\ given' = given + 1 /\ UNCHANGED arena_error
  BY DEF Arena!AllocateFromNew
<1> DEFINE after == [s EXCEPT !.used = need]
           old == segments[1]
           left == old.committed - old.used
           b == [p |-> after.base, words |-> need]
<1>3. /\ s \in Segment /\ s.base = given * RegionWords /\ s.committed <= s.total
      /\ s.total <= RegionWords /\ RegionWords >= 1
  BY <1>1, <1>2, NewSegmentFits
<1>4. CASE UNCHANGED <<segments, block_manager, held, given>>
  BY <1>1, <1>4 DEF ArenaInvariant
<1>5. CASE /\ ~Arena!Overrun(after) /\ Arena!Salvaged(need, s)
           /\ ~(Arena!has_current /\ Arena!Remains(Arena!current) /\ block_manager = null)
           /\ held' = held \cup {[p |-> s.base, words |-> need]} /\ given' = given + 1
  <2>1. after \in Segment /\ after.base = s.base /\ after.used = need
        /\ after.committed = s.committed /\ after.total = s.total
    BY <1>3 DEF Segment
  <2>2. Filled(after) /\ after.base = given * RegionWords /\ held' = held \cup {b}
    BY <1>3, <1>5, <2>1 DEF Filled, Arena!Overrun, Segment
  <2>3. ASSUME NEW segs, NEW m, ArenaSound(segs, m, held, given),
               segments' = Append(segs, after), block_manager' = m
        PROVE  ArenaInvariant'
    <3> HIDE DEF after
    <3>1. ArenaSound(Append(segs, after), m, held \cup {b}, given + 1)
      BY <1>1, <1>3, <2>1, <2>2, <2>3, AddedSound
    <3>2. ArenaSound(segments', block_manager', held', given')
      BY <1>5, <2>2, <2>3, <3>1
    <3> QED BY <3>2 DEF ArenaInvariant
  <2>4. CASE ~Arena!has_current \/ ~Arena!Remains(Arena!current)
    <3>1. segments' = Append(segments, after) /\ block_manager' = block_manager
      BY <1>5, <2>4 DEF Arena!Salvaged
    <3> HIDE DEF after
    <3> QED BY <1>1, <2>3, <3>1
  <2>5. CASE Arena!has_current /\ Arena!Remains(Arena!current)
    <3>1. segments \in Seq(Segment) /\ 1 \in DOMAIN segments /\ Arena!current = old
      BY <1>1, <2>5 DEF SegmentsApart, Arena!has_current, Arena!current
    <3>2. old \in Segment /\ Filled(old)
      BY <1>1, <3>1 DEF SegmentsApart
    <3>3. left \in Nat \ {0}
      BY <2>5, <3>1, <3>2 DEF Arena!Remains, Arena!below_committed, Filled, Segment
    <3> DEFINE r == [old EXCEPT !.used = old.committed]
               segs == Replaced(segments, 1, r)
               m == Arena!deallocate(block_manager, old.base + old.used, left)
    <3>4. segments' = Append(segs, after) /\ block_manager' = m /\ block_manager # null
      <4>1. segments' = Append([segments EXCEPT ![1].used = old.committed], after)
        BY <1>5, <2>5, <3>1 DEF Arena!Salvaged
      <4>2. block_manager' = m
        BY <1>5, <2>5, <3>1 DEF Arena!Salvaged, Arena!below_committed
      <4> QED BY <1>5, <2>5, <4>1, <4>2 DEF Replaced
    <3>5. r \in Segment /\ r.base = old.base /\ r.used = old.committed
          /\ r.committed = old.committed /\ r.total = old.total
      BY <3>2 DEF Segment
    <3>6. Filled(r)
      BY <3>2, <3>5 DEF Filled, Segment
    <3>7. UsesMore(r, old, left)
      BY <3>2, <3>5 DEF UsesMore, Segment
    <3> HIDE DEF r, left, after
    <3>8. ArenaSound(segs, m, held, given)
      BY <1>1, <3>1, <3>3, <3>4, <3>5, <3>6, <3>7, SalvagedSound
    <3> QED BY <2>3, <3>4, <3>8
  <2> QED BY <2>4, <2>5
<1>6. UNCHANGED <<segments, block_manager, held, given>>
      \/ (/\ ~Arena!Overrun(after) /\ Arena!Salvaged(need, s)
          /\ ~(Arena!has_current /\ Arena!Remains(Arena!current) /\ block_manager = null)
          /\ held' = held \cup {[p |-> s.base, words |-> need]} /\ given' = given + 1)
  BY <1>2 DEF Arena!Stop
<1> QED BY <1>4, <1>5, <1>6

LEMMA DeallocatedSound ==
    ASSUME ArenaInvariant, NEW b \in held, Arena!Deallocate(b)
    PROVE  ArenaInvariant'
<1> DEFINE m1 == IF block_manager = null THEN Arena!EmptyManager ELSE block_manager
           m2 == Arena!deallocate(m1, b.p, b.words)
<1>1. held' = held \ {b} /\ block_manager' = m2 /\ segments' = segments /\ given' = given
  BY DEF Arena!Deallocate
<1>2. ArenaSound(segments, block_manager, held, given)
  BY DEF ArenaInvariant
<1>3. ArenaSound(segments, m2, held \ {b}, given)
  BY <1>2, ReturnedSound
<1>4. ArenaSound(segments', block_manager', held', given')
  BY <1>1, <1>3
<1> QED BY <1>4 DEF ArenaInvariant

LEMMA DeathSound ==
    ASSUME ArenaInvariant, Arena!Die
    PROVE  ArenaInvariant'
<1>1. segments' = <<>> /\ block_manager' = null /\ held' = {} /\ given' = given
  BY DEF Arena!Die
<1>2. SegmentsApart(<<>>, given)
  BY DEF ArenaInvariant, ArenaSound, SegmentsApart
<1>3. Used(<<>>) = {}
  BY DEF Used
<1>4. ManagerOf(null, {}, {}) /\ Partition({}, {}, {})
  BY DEF ManagerOf, Partition, Apart, Cover
<1>5. ArenaSound(<<>>, null, {}, given)
  <2>1. {} \cup {} = {}
    OBVIOUS
  <2> QED BY <1>2, <1>3, <1>4, <2>1 DEF ArenaSound
<1>6. ArenaSound(segments', block_manager', held', given')
  BY <1>1, <1>5
<1> QED BY <1>6 DEF ArenaInvariant

LEMMA ArenaStepSound ==
    ArenaInvariant /\ [Arena!Next]_(Arena!vars) => ArenaInvariant'
<1> SUFFICES ASSUME ArenaInvariant, [Arena!Next]_(Arena!vars) PROVE ArenaInvariant'
  OBVIOUS
<1>1. ASSUME NEW bytes \in Requests,
             LET need == Arena!get_raw_byte_for_requested(bytes)
             IN Arena!AllocateFromBlock(need) \/ Arena!AllocateFromCurrent(need) \/ Arena!AllocateFromNew(need)
      PROVE  ArenaInvariant'
  <2> DEFINE need == Arena!get_raw_byte_for_requested(bytes)
  <2>1. need \in Nat \ {0}
    BY NeedPositive, MetaspaceArenaAssumption
  <2>2. Arena!AllocateFromBlock(need) \/ Arena!AllocateFromCurrent(need) \/ Arena!AllocateFromNew(need)
    BY <1>1
  <2> HIDE DEF need
  <2> QED BY <2>1, <2>2, BlockAllocatedSound, CurrentAllocatedSound, NewAllocatedSound
<1>2. ASSUME NEW b \in held, Arena!Deallocate(b) PROVE ArenaInvariant'
  BY <1>2, DeallocatedSound
<1>3. CASE Arena!Die
  BY <1>3, DeathSound
<1>4. CASE Arena!DieCorrupting \/ UNCHANGED Arena!vars
  BY <1>4 DEF ArenaInvariant, Arena!DieCorrupting, Arena!Stop, Arena!vars
<1> QED BY <1>1, <1>2, <1>3, <1>4 DEF Arena!Next

LEMMA ArenaStaysSound ==
    Arena!Spec => []ArenaInvariant
BY ArenaInitSound, ArenaStepSound, PTL DEF Arena!Spec

(* No word of an arena's segments is handed out twice and none is lost,    *)
(* however its blocks are split, reused and salvaged (Arena.cpp:119-148,   *)
(* BlockManager.cpp:8-38), for any sizes and any number of segments.       *)
THEOREM ArenaPartition ==
    Arena!Spec => []BlocksPartitionUsedMemory
<1>1. ArenaInvariant => BlocksPartitionUsedMemory
  <2> SUFFICES ASSUME ArenaInvariant PROVE BlocksPartitionUsedMemory
    OBVIOUS
  <2>1. PICK TB, BB : ManagerOf(block_manager, TB, BB) /\ Partition(held, TB \cup BB, Used(segments))
    BY DEF ArenaInvariant, ArenaSound
  <2>2. Arena!managed = TB \cup BB
    BY <2>1, ManagesBlocks DEF ManagerOf, Arena!managed
  <2>3. /\ held \cap Arena!managed = {} /\ Apart(Arena!Blocks) /\ Cover(Arena!Blocks) = Used(segments)
    BY <2>1, <2>2 DEF Partition, Arena!Blocks
  <2> QED BY <2>3 DEF BlocksPartitionUsedMemory, Arena!BlocksPartitionUsedMemory, Apart, Cover, Used, UsedOf
<1> QED BY <1>1, ArenaStaysSound, PTL

(* The tree of free blocks stays a search tree with one node per size, the *)
(* search finds the smallest block that fits and the counts is_empty       *)
(* relies on are right (BlockTree.cpp, BlockArray.hpp), for any words.     *)
THEOREM ArenaTreeSound ==
    Arena!Spec => []TreeSound
<1>1. ArenaInvariant => TreeSound
  <2> SUFFICES ASSUME ArenaInvariant, block_manager # null PROVE TreeSound
    BY DEF TreeSound, Arena!TreeSound
  <2>1. PICK TB, BB : Manages(block_manager, TB, BB)
    BY DEF ArenaInvariant, ArenaSound, ManagerOf
  <2> DEFINE m == block_manager
  <2>2. /\ \A n \in Arena!tree_nodes(m) : SoundNode(m, Arena!tree_nodes(m), n)
        /\ m.root # null => m.node[m.root].parent = null
        /\ \A need \in TreeMinWords..RegionWords : FindsClosest(m, Arena!tree_nodes(m), need)
        /\ m.small + m.tree = Cardinality(Cover(Arena!managed_blocks(m)))
        /\ m.small = 0 <=> \A n \in Arena!BinSizes : m.bin[n] = <<>>
    BY <2>1, ManagerSound
  <2> DEFINE nodes == Arena!tree_nodes(m)
             sized(n) == m.node[n].bytes
  <2>3. ASSUME NEW n \in nodes
        PROVE  /\ \A k \in Arena!nodes_under(m, m.node[n].left) : sized(k) < sized(n)
               /\ \A k \in Arena!nodes_under(m, m.node[n].right) : sized(k) > sized(n)
               /\ \A k \in {m.node[n].left, m.node[n].right} \ {null} : m.node[k].parent = n
               /\ \A k \in Arena!list_of(m, n) : sized(k) = sized(n)
    BY <2>2 DEF SoundNode, Size
  <2>4. ASSUME NEW need \in TreeMinWords..RegionWords
        PROVE  LET fit == {sized(n) : n \in {k \in nodes : sized(k) >= need}}
                   found == Arena!find_closest_node(m, need)
               IN IF fit = {} THEN found = null
                  ELSE sized(found) \in fit /\ \A w \in fit : sized(found) <= w
    <3>1. FindsClosest(m, nodes, need)
      BY <2>2
    <3> QED BY <3>1 DEF FindsClosest, Size
  <2>5. /\ m.root # null => m.node[m.root].parent = null
        /\ m.small + m.tree = Cardinality(UNION {Arena!Memory(b) : b \in Arena!managed_blocks(m)})
        /\ m.small = 0 <=> \A n \in Arena!BinSizes : m.bin[n] = <<>>
    BY <2>2 DEF Cover
  <2>6. \A S : Arena!Cardinality(S) = Cardinality(S)
    BY DEF Arena!Cardinality, Cardinality
  <2>7. m.small + m.tree = Arena!Cardinality(UNION {Arena!Memory(b) : b \in Arena!managed_blocks(m)})
    BY ONLY <2>5, <2>6
  <2>8. Arena!TreeSound
    BY ONLY <2>3, <2>4, <2>5, <2>7 DEF Arena!TreeSound
  <2> QED BY <2>8 DEF TreeSound
<1> QED BY <1>1, ArenaStaysSound, PTL
=============================================================================
