---------------------------- MODULE MonitorProofs ----------------------------
(* What the operators of Monitor preserve, for any set T of threads.       *)
EXTENDS Monitor, TLAPS

LEMMA FreeMonitorType ==
    ASSUME NEW T
    PROVE  FreeMonitor \in MonitorType(T)
BY DEF FreeMonitor, MonitorType

LEMMA UpdateType ==
    ASSUME NEW T, NEW m \in MonitorType(T), NEW h \in T \cup {NoThread},
           NEW d \in Nat, NEW o \in T \cup {NoThread}
    PROVE  [m EXCEPT !.holder = h, !.depth = d, !.owner = o] \in MonitorType(T)
BY DEF MonitorType

LEMMA LockType ==
    ASSUME NEW T, NEW m \in MonitorType(T), NEW t \in T
    PROVE  Lock(m, t) \in MonitorType(T)
<1>1. m.depth + 1 \in Nat /\ m.owner \in T \cup {NoThread}
  BY DEF MonitorType
<1> QED
  BY <1>1, UpdateType DEF Lock

(* Only a locked monitor may be unlocked or waited on.                     *)
LEMMA UnlockType ==
    ASSUME NEW T, NEW m \in MonitorType(T), NEW t \in T, m.depth = 1
    PROVE  Unlock(m, t) \in MonitorType(T)
<1>1. m.depth - 1 \in Nat /\ m.holder \in T \cup {NoThread}
  BY DEF MonitorType
<1> QED
  BY <1>1, UpdateType DEF Unlock

LEMMA WaitType ==
    ASSUME NEW T, NEW m \in MonitorType(T), NEW t \in T, m.depth = 1
    PROVE  Wait(m, t) \in MonitorType(T)
BY UnlockType DEF MonitorType, Wait

LEMMA ReturnFromWaitType ==
    ASSUME NEW T, NEW m \in MonitorType(T), NEW t \in T
    PROVE  ReturnFromWait(m, t) \in MonitorType(T)
<1>1. m.depth + 1 \in Nat
  BY DEF MonitorType
<1> QED
  BY <1>1, UpdateType DEF ReturnFromWait

LEMMA WakeUpType ==
    ASSUME NEW T, NEW m \in MonitorType(T)
    PROVE  /\ NotifyAll(m) \in MonitorType(T) /\ NotifyAll(m).depth = m.depth
           /\ \A t \in T : SpuriousWake(m, t) \in MonitorType(T)
           /\ Notify(m) \subseteq MonitorType(T)
BY DEF MonitorType, NotifyAll, SpuriousWake, Notify

(* Who holds the mutex after each operation on a monitor that is not held  *)
(* recursively, and how deep.                                              *)
Simple(m) == m.depth = IF m.holder = NoThread THEN 0 ELSE 1

LEMMA HolderAfter ==
    ASSUME NEW T, NoThread \notin T, NEW m \in MonitorType(T), NEW t \in T, Simple(m)
    PROVE  /\ CanLock(m, t) /\ m.holder # t
                 => Lock(m, t).holder = t /\ Simple(Lock(m, t))
           /\ CanReturnFromWait(m, t) /\ m.holder # t
                 => ReturnFromWait(m, t).holder = t /\ Simple(ReturnFromWait(m, t))
           /\ m.holder = t
                 => Unlock(m, t).holder = NoThread /\ Simple(Unlock(m, t))
           /\ m.holder = t
                 => Wait(m, t).holder = NoThread /\ Simple(Wait(m, t))
           /\ NotifyAll(m).holder = m.holder /\ Simple(NotifyAll(m))
           /\ SpuriousWake(m, t).holder = m.holder /\ Simple(SpuriousWake(m, t))
           /\ \A n \in Notify(m) : n.holder = m.holder /\ Simple(n)
<1> USE DEF Simple, MonitorType
<1>1. CanLock(m, t) /\ m.holder # t => Lock(m, t).holder = t /\ Simple(Lock(m, t))
  BY DEF CanLock, Lock
<1>2. CanReturnFromWait(m, t) /\ m.holder # t
        => ReturnFromWait(m, t).holder = t /\ Simple(ReturnFromWait(m, t))
  BY DEF CanReturnFromWait, CanLock, ReturnFromWait
<1>3. m.holder = t => Unlock(m, t).holder = NoThread /\ Simple(Unlock(m, t))
  BY DEF Unlock
<1>4. m.holder = t => Wait(m, t).holder = NoThread /\ Simple(Wait(m, t))
  BY DEF Wait, Unlock
<1>5. /\ NotifyAll(m).holder = m.holder /\ Simple(NotifyAll(m))
      /\ SpuriousWake(m, t).holder = m.holder /\ Simple(SpuriousWake(m, t))
  BY DEF NotifyAll, SpuriousWake
<1>6. \A n \in Notify(m) : n.holder = m.holder /\ Simple(n)
  BY DEF Notify
<1> QED
  BY <1>1, <1>2, <1>3, <1>4, <1>5, <1>6
=============================================================================
