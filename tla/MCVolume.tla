------------------------------ MODULE MCVolume ------------------------------
(* Volume for TLC: threads are interchangeable.                            *)
EXTENDS Volume, TLC

Symmetry == Permutations(Threads)

(* Flags that are no multiples of the granule.                             *)
Flags == [MaxMetaspaceSize |-> 4 * CommitGranuleBytes + 1, MetaspaceSize |-> 100,
          MaxMetaspaceFreeRatio |-> 70, MinMetaspaceFreeRatio |-> 40,
          MaxMetaspaceExpansion |-> 3 * CommitGranuleBytes - 1,
          MinMetaspaceExpansion |-> CommitGranuleBytes]
=============================================================================
