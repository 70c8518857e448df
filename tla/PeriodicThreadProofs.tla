------------------------ MODULE PeriodicThreadProofs ------------------------
(***************************************************************************)
(* Theorems about PeriodicThread, for every set of tasks with intervals of *)
(* at least 1, every unit of time and every bound.                         *)
(*                                                                         *)
(* Control   which labels each kind of thread passes through, and that the *)
(*           holder of the lock is the thread inside its critical section  *)
(* Table     the table holds a task once and only while its owner has it   *)
(*           active, and the walk through it stays inside                  *)
(* Created   the pointer to the thread is set while the thread runs, unless*)
(*           create() has yet to store it                                  *)
(* Walk      where the index of the walk stands among the tasks the pass   *)
(*           has seen and those it has not                                 *)
(* Timing    what a task has been credited and what it still has to wait   *)
(*           make at most its interval                                     *)
(* Unborn    nobody runs before create()                                   *)
(***************************************************************************)
EXTENDS PeriodicThread, MonitorProofs, SequenceTheorems, FiniteSetTheorems,
        WellFoundedInduction

(* The thread t is between acquiring PeriodicTask_lock and giving it up.   *)
InsideAt(t, label) ==
    \/ t = P /\ label \in {"exec", "task"}
    \/ t = Main /\ label \in {"create_thread", "create_store", "stop_notify"}

(* A monitor that is not held recursively and on which only the periodic   *)
(* thread waits.                                                           *)
Fine(m) == m \in MonitorType(Threads) /\ Simple(m) /\ m.waiters \subseteq {P}

Control ==
    /\ pc[P] \in PeriodicLabels /\ pc[Main] \in MainLabels
    /\ \A k \in Tasks : pc[k] \in OwnerLabels
    /\ \A t \in Threads : InsideAt(t, pc[t]) <=> monitor.holder = t
    /\ Fine(monitor)

Table ==
    /\ TableSound
    /\ \A k \in Tasks : InTable(k) => pc[k] = "active"
    /\ pc[P] = "task" => pass.task \in Tasks /\ pc[pass.task] = "active"
    /\ pc[P] # "task" => pass.task = NoTask

Created ==
    vm_error = NoError =>
        /\ pc[Main] \in {"create", "create_thread"} => pc[P] = "new" /\ ~periodic_thread
        /\ pc[P] \notin {"new", "ended"} => periodic_thread \/ pc[Main] = "create_store"
        /\ pc[Main] = "create_store" => pc[P] = "run" /\ ~periodic_thread

-----------------------------------------------------------------------------
(* The table as a sequence.                                                *)

LEMMA TableSeq ==
    ASSUME TypeOK
    PROVE  /\ Len(tasks) \in Nat
           /\ tasks \in [1..Len(tasks) -> Tasks]
           /\ \A n \in 1..Len(tasks) : tasks[n] \in Tasks
           /\ Range(tasks) \subseteq Tasks
BY LenProperties DEF TypeOK, Range

LEMMA SeqFromFunction ==
    ASSUME NEW S, NEW n \in Nat, NEW f \in [1..n -> S]
    PROVE  f \in Seq(S) /\ Len(f) = n
OBVIOUS

(* A set of naturals has a least element.                                  *)
Less == {ss \in Nat \X Nat : ss[1] < ss[2]}

LEMMA LessWellFounded == IsWellFoundedOn(Less, Nat)
BY NatLessThanWellFounded DEF OpToRel, Less

LEMMA LessPairs == \A m, n \in Nat : <<m, n>> \in Less <=> m < n
BY DEF Less

LEMMA LeastElement ==
    ASSUME NEW S, S \subseteq Nat, S # {}
    PROVE  \E x \in S : \A y \in S : x <= y
<1>1. PICK x \in S : \A y \in S : ~ (<<y, x>> \in Less)
  BY LessWellFounded, WFMin
<1>2. \A y \in S : x <= y
  <2> TAKE y \in S
  <2>1. x \in Nat /\ y \in Nat
    OBVIOUS
  <2>2. ~ (y < x)
    BY <1>1, <2>1, LessPairs, Zenon
  <2> QED
    BY <2>1, <2>2
<1> QED
  BY <1>2

LEMMA MinInSet ==
    ASSUME NEW S, S \subseteq Nat, S # {}
    PROVE  Min(S) \in S
BY LeastElement DEF Min

(* The first place of a task.                                              *)
LEMMA PlaceProperties ==
    ASSUME TypeOK, NEW k \in Tasks, InTable(k)
    PROVE  Place(k) \in 1..Len(tasks) /\ tasks[Place(k)] = k
<1> DEFINE S == { n \in 1..Len(tasks) : tasks[n] = k }
<1>1. S \subseteq Nat /\ S # {}
  BY TableSeq DEF InTable
<1>2. \E p \in S : \A n \in S : p <= n
  <2> HIDE DEF S
  <2> QED
    BY <1>1, LeastElement
<1>3. \E p \in 1..Len(tasks) :
        tasks[p] = k /\ \A m \in 1..Len(tasks) : tasks[m] = k => p <= m
  BY <1>2
<1> QED
  BY <1>3 DEF Place

(* Taking a task out of a table that holds each task once leaves the others*)
(* and their order, and that task is gone.                                 *)
LEMMA TakenOutProperties ==
    ASSUME TypeOK, TableSound, NEW k \in Tasks, InTable(k), tasks' = TakenOut(k)
    PROVE  /\ tasks' \in Seq(Tasks) /\ Len(tasks') = Len(tasks) - 1
           /\ Len(tasks) - 1 \in Nat
           /\ \A m, n \in 1..Len(tasks') : tasks'[m] = tasks'[n] => m = n
           /\ ~ InTable(k)'
           /\ \A j \in Tasks : InTable(j)' => InTable(j)
<1>1. PICK p : p = Place(k)
  OBVIOUS
<1>2. p \in 1..Len(tasks) /\ tasks[p] = k
  BY <1>1, PlaceProperties
<1>3. Len(tasks) \in Nat /\ Len(tasks) - 1 \in Nat /\ \A n \in 1..Len(tasks) : tasks[n] \in Tasks
  BY <1>2, TableSeq
<1>4. tasks' = [n \in 1..(Len(tasks) - 1) |-> IF n < p THEN tasks[n] ELSE tasks[n + 1]]
  BY <1>1 DEF TakenOut
<1>5. tasks' \in [1..(Len(tasks) - 1) -> Tasks]
  BY <1>3, <1>4
<1>6. tasks' \in Seq(Tasks) /\ Len(tasks') = Len(tasks) - 1
  BY <1>3, <1>5, SeqFromFunction
<1>7. \A n \in 1..Len(tasks') : tasks'[n] = IF n < p THEN tasks[n] ELSE tasks[n + 1]
  BY <1>4, <1>6
<1>8. \A m, n \in 1..Len(tasks) : tasks[m] = tasks[n] => m = n
  BY DEF TableSound
<1>9. \A m, n \in 1..Len(tasks') : tasks'[m] = tasks'[n] => m = n
  <2> SUFFICES ASSUME NEW m \in 1..Len(tasks'), NEW n \in 1..Len(tasks'),
                      tasks'[m] = tasks'[n]
               PROVE  m = n
    OBVIOUS
  <2>1. PICK a \in 1..Len(tasks) : tasks'[m] = tasks[a] /\ a = IF m < p THEN m ELSE m + 1
    BY <1>3, <1>6, <1>7
  <2>2. PICK b \in 1..Len(tasks) : tasks'[n] = tasks[b] /\ b = IF n < p THEN n ELSE n + 1
    BY <1>3, <1>6, <1>7
  <2>3. a = b
    BY <1>8, <2>1, <2>2
  <2> QED
    BY <1>2, <1>3, <1>6, <2>1, <2>2, <2>3
<1>10. ~ InTable(k)'
  <2> SUFFICES ASSUME NEW n \in 1..Len(tasks'), tasks'[n] = k
               PROVE  FALSE
    BY DEF InTable
  <2>1. PICK b \in 1..Len(tasks) : tasks'[n] = tasks[b] /\ b = IF n < p THEN n ELSE n + 1
    BY <1>3, <1>6, <1>7
  <2>2. b = p
    BY <1>2, <1>8, <2>1
  <2> QED
    BY <1>2, <1>3, <1>6, <2>1, <2>2
<1>11. \A j \in Tasks : InTable(j)' => InTable(j)
  <2> SUFFICES ASSUME NEW n \in 1..Len(tasks')
               PROVE  InTable(tasks'[n])
    BY DEF InTable
  <2>1. PICK b \in 1..Len(tasks) : tasks'[n] = tasks[b]
    BY <1>3, <1>6, <1>7
  <2> QED
    BY <2>1 DEF InTable
<1> QED
  BY <1>3, <1>6, <1>9, <1>10, <1>11

(* Appending a task that is not in it.                                     *)
LEMMA EnterProperties ==
    ASSUME TypeOK, TableSound, NEW k \in Tasks, ~ InTable(k), tasks' = Append(tasks, k)
    PROVE  /\ tasks' \in Seq(Tasks) /\ Len(tasks') = Len(tasks) + 1
           /\ \A m, n \in 1..Len(tasks') : tasks'[m] = tasks'[n] => m = n
           /\ \A j \in Tasks : InTable(j)' => InTable(j) \/ j = k
<1>1. tasks \in Seq(Tasks) /\ Len(tasks) \in Nat
  BY TableSeq DEF TypeOK
<1>2. /\ tasks' \in Seq(Tasks) /\ Len(tasks') = Len(tasks) + 1
      /\ tasks'[Len(tasks) + 1] = k
      /\ \A n \in 1..Len(tasks) : tasks'[n] = tasks[n]
  BY <1>1
<1>3. \A n \in 1..Len(tasks) : tasks[n] # k
  BY DEF InTable
<1>4. \A n \in 1..Len(tasks') : n \in 1..Len(tasks) \/ n = Len(tasks) + 1
  BY <1>1, <1>2
<1>5. \A m, n \in 1..Len(tasks') : tasks'[m] = tasks'[n] => m = n
  BY <1>1, <1>2, <1>3, <1>4 DEF TableSound
<1>6. \A j \in Tasks : InTable(j)' => InTable(j) \/ j = k
  BY <1>1, <1>2, <1>4 DEF InTable
<1> QED
  BY <1>2, <1>5, <1>6

-----------------------------------------------------------------------------
(* The lock: what its operations do to a monitor of this kind.             *)

LEMMA WaitersAfter ==
    ASSUME NEW m \in MonitorType(Threads), NEW t \in Threads
    PROVE  /\ Lock(m, t).waiters = m.waiters /\ Unlock(m, t).waiters = m.waiters
           /\ ReturnFromWait(m, t).waiters = m.waiters
           /\ Wait(m, t).waiters = m.waiters \cup {t}
           /\ SpuriousWake(m, t).waiters \subseteq m.waiters
           /\ \A n \in Notify(m) : n.waiters \subseteq m.waiters
BY DEF MonitorType, Lock, Unlock, ReturnFromWait, Wait, SpuriousWake, Notify

LEMMA FineAfter ==
    ASSUME NEW m, Fine(m), NEW t \in Threads
    PROVE  /\ CanLock(m, t) /\ m.holder # t => Fine(Lock(m, t)) /\ Lock(m, t).holder = t
           /\ m.holder = t => Fine(Unlock(m, t)) /\ Unlock(m, t).holder = NoThread
           /\ m.holder = t /\ t = P => Fine(Wait(m, t)) /\ Wait(m, t).holder = NoThread
           /\ CanReturnFromWait(m, t) /\ m.holder # t
                => Fine(ReturnFromWait(m, t)) /\ ReturnFromWait(m, t).holder = t
           /\ Fine(SpuriousWake(m, t)) /\ SpuriousWake(m, t).holder = m.holder
           /\ \A n \in Notify(m) : Fine(n) /\ n.holder = m.holder
<1>1. NoThread \notin Threads /\ m \in MonitorType(Threads) /\ Simple(m) /\ m.waiters \subseteq {P}
  BY PeriodicAssumption DEF Fine
<1>2. m.holder = t => m.depth = 1
  BY <1>1 DEF Simple
<1>3. CanLock(m, t) /\ m.holder # t => Fine(Lock(m, t)) /\ Lock(m, t).holder = t
  BY <1>1, HolderAfter, WaitersAfter, LockType DEF Fine
<1>4. m.holder = t => Fine(Unlock(m, t)) /\ Unlock(m, t).holder = NoThread
  BY <1>1, <1>2, HolderAfter, WaitersAfter, UnlockType DEF Fine
<1>5. m.holder = t /\ t = P => Fine(Wait(m, t)) /\ Wait(m, t).holder = NoThread
  BY <1>1, <1>2, HolderAfter, WaitersAfter, WaitType DEF Fine
<1>6. CanReturnFromWait(m, t) /\ m.holder # t
        => Fine(ReturnFromWait(m, t)) /\ ReturnFromWait(m, t).holder = t
  BY <1>1, HolderAfter, WaitersAfter, ReturnFromWaitType DEF Fine
<1>7. Fine(SpuriousWake(m, t)) /\ SpuriousWake(m, t).holder = m.holder
  BY <1>1, HolderAfter, WaitersAfter, WakeUpType DEF Fine
<1>8. \A n \in Notify(m) : Fine(n) /\ n.holder = m.holder
  BY <1>1, HolderAfter, WaitersAfter, WakeUpType DEF Fine
<1> QED
  BY <1>3, <1>4, <1>5, <1>6, <1>7, <1>8

-----------------------------------------------------------------------------
(* Control.                                                                *)

Allowed(t, label) ==
    /\ t = P => label \in PeriodicLabels
    /\ t = Main => label \in MainLabels
    /\ t \in Tasks => label \in OwnerLabels

(* One thread moves; the lock changes hands between it and nobody.         *)
LEMMA MoveControl ==
    ASSUME TypeOK, Control, NEW t \in Threads, NEW label, Allowed(t, label), Goto(t, label),
           Fine(monitor'), InsideAt(t, label) <=> monitor'.holder = t,
           \A u \in Threads \ {t} : monitor'.holder = u <=> monitor.holder = u
    PROVE  Control'
<1>1. pc'[t] = label /\ \A u \in Threads \ {t} : pc'[u] = pc[u]
  BY DEF TypeOK, Goto
<1>2. /\ pc'[P] \in PeriodicLabels /\ pc'[Main] \in MainLabels
      /\ \A k \in Tasks : pc'[k] \in OwnerLabels
  BY <1>1 DEF Control, Allowed, Threads
<1>3. \A u \in Threads : InsideAt(u, pc'[u]) <=> monitor'.holder = u
  <2> SUFFICES ASSUME NEW u \in Threads
               PROVE  InsideAt(u, pc'[u]) <=> monitor'.holder = u
    OBVIOUS
  <2>1. CASE u = t
    BY <1>1, <2>1
  <2>2. CASE u # t
    BY <1>1, <2>2 DEF Control
  <2> QED
    BY <2>1, <2>2
<1> QED
  BY <1>2, <1>3 DEF Control

(* The lock is not touched.                                                *)
LEMMA StayControl ==
    ASSUME TypeOK, Control, NEW t \in Threads, NEW label, Allowed(t, label), Goto(t, label),
           UNCHANGED monitor, InsideAt(t, label) <=> InsideAt(t, pc[t])
    PROVE  Control'
BY MoveControl DEF Control

(* The steps of a thread that does not move.                               *)
LEMMA SamePcControl ==
    ASSUME TypeOK, Control, UNCHANGED pc, Fine(monitor'), monitor'.holder = monitor.holder
    PROVE  Control'
BY DEF Control

LEMMA ControlInit == Init => Control
<1> SUFFICES ASSUME Init PROVE Control
  OBVIOUS
<1>1. /\ pc[P] = "new" /\ pc[Main] = "create" /\ \A k \in Tasks : pc[k] = "inactive"
  BY PeriodicAssumption DEF Init, Threads
<1>2. Fine(monitor) /\ monitor.holder = NoThread
  BY FreeMonitorType DEF Init, Fine, FreeMonitor, Simple
<1>3. \A t \in Threads : ~ InsideAt(t, pc[t]) /\ monitor.holder # t
  BY <1>1, <1>2, PeriodicAssumption DEF Threads, InsideAt
<1>4. /\ pc[P] \in PeriodicLabels /\ pc[Main] \in MainLabels
      /\ \A k \in Tasks : pc[k] \in OwnerLabels
  BY <1>1 DEF PeriodicLabels, MainLabels, OwnerLabels
<1> QED
  BY <1>2, <1>3, <1>4 DEF Control

(* Unlocking, and sleeping, after a step that has taken the lock.          *)
LEMMA LockThenWait ==
    ASSUME Control, pc[P] \notin {"exec", "task"}, CanLock(monitor, P)
    PROVE  Fine(Wait(Lock(monitor, P), P)) /\ Wait(Lock(monitor, P), P).holder = NoThread
           /\ monitor.holder = NoThread
<1>1. P \in Threads /\ monitor.holder # P /\ Fine(monitor)
  BY PeriodicAssumption DEF Control, Threads, InsideAt
<1>2. Fine(Lock(monitor, P)) /\ Lock(monitor, P).holder = P
  BY <1>1, FineAfter
<1> QED
  BY <1>1, <1>2, FineAfter DEF CanLock

LEMMA WakeThen ==
    ASSUME Control, pc[P] \notin {"exec", "task"}, CanReturnFromWait(monitor, P)
    PROVE  LET m == ReturnFromWait(monitor, P) IN
           /\ Fine(Wait(m, P)) /\ Wait(m, P).holder = NoThread
           /\ Fine(Unlock(m, P)) /\ Unlock(m, P).holder = NoThread
           /\ monitor.holder = NoThread
<1>1. P \in Threads /\ monitor.holder # P /\ Fine(monitor)
  BY PeriodicAssumption DEF Control, Threads, InsideAt
<1>2. Fine(ReturnFromWait(monitor, P)) /\ ReturnFromWait(monitor, P).holder = P
  BY <1>1, FineAfter
<1> QED
  BY <1>1, <1>2, FineAfter DEF CanReturnFromWait, CanLock

LEMMA ControlStep ==
    ASSUME TypeOK, Control, [Next]_vars
    PROVE  Control'
<1> USE PeriodicAssumption
<1>1. /\ P \in Threads /\ Main \in Threads /\ Tasks \subseteq Threads
      /\ NoThread \notin Threads /\ Fine(monitor)
      /\ pc[P] \in PeriodicLabels /\ pc[Main] \in MainLabels
  BY DEF Threads, Control
<1>2. \A t \in Threads : InsideAt(t, pc[t]) <=> monitor.holder = t
  BY DEF Control
<1>3. /\ \A label \in PeriodicLabels : Allowed(P, label)
      /\ \A label \in MainLabels : Allowed(Main, label)
      /\ \A k \in Tasks, label \in OwnerLabels : Allowed(k, label)
  BY DEF Allowed
<1>4. /\ \A label : InsideAt(P, label) <=> label \in {"exec", "task"}
      /\ \A label : InsideAt(Main, label)
                        <=> label \in {"create_thread", "create_store", "stop_notify"}
      /\ \A k \in Tasks : \A label : ~ InsideAt(k, label)
  BY DEF InsideAt
<1>5. \A n \in Notify(monitor) : Fine(n) /\ n.holder = monitor.holder
  BY <1>1, FineAfter
<1>6. CASE RunAssert
  <2>1. Goto(P, "calc") /\ UNCHANGED monitor /\ pc[P] \notin {"exec", "task"}
    BY <1>6 DEF RunAssert, At
  <2> QED
    BY <1>1, <1>3, <1>4, <2>1, StayControl DEF PeriodicLabels
<1>7. CASE CalcTerminated
  <2>1. Goto(P, "test") /\ UNCHANGED monitor /\ pc[P] \notin {"exec", "task"}
    BY <1>7 DEF CalcTerminated, At
  <2> QED
    BY <1>1, <1>3, <1>4, <2>1, StayControl DEF PeriodicLabels
<1>8. CASE CalcGoesOn
  <2>1. Goto(P, "calc_lock") /\ UNCHANGED monitor /\ pc[P] \notin {"exec", "task"}
    BY <1>8 DEF CalcGoesOn, At
  <2> QED
    BY <1>1, <1>3, <1>4, <2>1, StayControl DEF PeriodicLabels
<1>9. CASE RunEnds
  <2>1. Goto(P, "ended") /\ UNCHANGED monitor /\ pc[P] \notin {"exec", "task"}
    BY <1>9 DEF RunEnds, At
  <2> QED
    BY <1>1, <1>3, <1>4, <2>1, StayControl DEF PeriodicLabels
<1>10. CASE Test
  <2>1. PICK label \in {"end", "check_run", "exec_lock", "run"} :
            Goto(P, label) /\ UNCHANGED monitor /\ pc[P] \notin {"exec", "task"}
    BY <1>10 DEF Test, At
  <2> QED
    BY <1>1, <1>3, <1>4, <2>1, StayControl DEF PeriodicLabels
<1>11. CASE CheckRun
  <2>1. PICK label \in {"end", "check_run", "exec_lock", "run"} :
            Goto(P, label) /\ UNCHANGED monitor /\ pc[P] \notin {"exec", "task"}
    BY <1>11 DEF CheckRun, At
  <2> QED
    BY <1>1, <1>3, <1>4, <2>1, StayControl DEF PeriodicLabels
<1>12. CASE CreateThread
  <2>1. /\ pc' = [pc EXCEPT ![Main] = "create_store", ![P] = "run"]
        /\ UNCHANGED monitor /\ pc[Main] = "create_thread"
    BY <1>12 DEF CreateThread, At
  <2>2. /\ pc'[P] = "run" /\ pc'[Main] = "create_store"
        /\ \A t \in Threads \ {P, Main} : pc'[t] = pc[t]
    BY <1>1, <2>1 DEF TypeOK
  <2>3. monitor.holder = Main
    BY <1>1, <1>2, <1>4, <2>1
  <2>4. \A t \in Threads : InsideAt(t, pc'[t]) <=> monitor'.holder = t
    <3> SUFFICES ASSUME NEW t \in Threads
                 PROVE  InsideAt(t, pc'[t]) <=> monitor'.holder = t
      OBVIOUS
    <3>1. monitor'.holder = Main
      BY <2>1, <2>3
    <3>2. CASE t = P
      BY <1>4, <2>2, <3>1, <3>2
    <3>3. CASE t = Main
      BY <1>4, <2>2, <3>1, <3>3
    <3>4. CASE t \notin {P, Main}
      BY <1>2, <2>1, <2>2, <3>1, <3>4
    <3> QED
      BY <3>2, <3>3, <3>4
  <2>5. /\ pc'[P] \in PeriodicLabels /\ pc'[Main] \in MainLabels
        /\ \A k \in Tasks : pc'[k] \in OwnerLabels
    BY <1>1, <2>2 DEF Control, PeriodicLabels, MainLabels
  <2> QED
    BY <1>1, <2>1, <2>4, <2>5 DEF Control
<1>13. CASE CreateLock
  <2>1. Goto(Main, "create_thread") /\ CanLock(monitor, Main) /\ monitor' = Lock(monitor, Main)
        /\ pc[Main] = "create"
    BY <1>13 DEF CreateLock, At
  <2>2. monitor.holder = NoThread
    BY <1>1, <1>2, <1>4, <2>1 DEF CanLock
  <2>3. Fine(monitor') /\ monitor'.holder = Main
    BY <1>1, <2>1, <2>2, FineAfter
  <2> QED
    BY <1>1, <1>3, <1>4, <2>1, <2>2, <2>3, MoveControl DEF PeriodicLabels, MainLabels
<1>14. CASE StopStore
  <2>1. Goto(Main, "stop_notify") /\ CanLock(monitor, Main) /\ monitor' = Lock(monitor, Main)
        /\ pc[Main] \in {"created", "started"}
    BY <1>14 DEF StopStore, At
  <2>2. monitor.holder = NoThread
    BY <1>1, <1>2, <1>4, <2>1 DEF CanLock
  <2>3. Fine(monitor') /\ monitor'.holder = Main
    BY <1>1, <2>1, <2>2, FineAfter
  <2> QED
    BY <1>1, <1>3, <1>4, <2>1, <2>2, <2>3, MoveControl DEF PeriodicLabels, MainLabels
<1>15. CASE ExecLock
  <2>1. Goto(P, "exec") /\ CanLock(monitor, P) /\ monitor' = Lock(monitor, P)
        /\ pc[P] = "exec_lock"
    BY <1>15 DEF ExecLock, At
  <2>2. monitor.holder = NoThread
    BY <1>1, <1>2, <1>4, <2>1 DEF CanLock
  <2>3. Fine(monitor') /\ monitor'.holder = P
    BY <1>1, <2>1, <2>2, FineAfter
  <2> QED
    BY <1>1, <1>3, <1>4, <2>1, <2>2, <2>3, MoveControl DEF PeriodicLabels, MainLabels
<1>16. CASE CreateFails
  <2>1. Goto(Main, "created") /\ monitor' = Unlock(monitor, Main) /\ pc[Main] = "create_thread"
    BY <1>16 DEF CreateFails, At
  <2>2. monitor.holder = Main
    BY <1>1, <1>2, <1>4, <2>1
  <2>3. Fine(monitor') /\ monitor'.holder = NoThread
    BY <1>1, <2>1, <2>2, FineAfter
  <2> QED
    BY <1>1, <1>3, <1>4, <2>1, <2>2, <2>3, MoveControl DEF PeriodicLabels, MainLabels
<1>17. CASE CreateStore
  <2>1. Goto(Main, "created") /\ monitor' = Unlock(monitor, Main) /\ pc[Main] = "create_store"
    BY <1>17 DEF CreateStore, At
  <2>2. monitor.holder = Main
    BY <1>1, <1>2, <1>4, <2>1
  <2>3. Fine(monitor') /\ monitor'.holder = NoThread
    BY <1>1, <2>1, <2>2, FineAfter
  <2> QED
    BY <1>1, <1>3, <1>4, <2>1, <2>2, <2>3, MoveControl DEF PeriodicLabels, MainLabels
<1>18. CASE PassEnds
  <2>1. Goto(P, "run") /\ monitor' = Unlock(monitor, P) /\ pc[P] = "exec"
    BY <1>18 DEF PassEnds, At
  <2>2. monitor.holder = P
    BY <1>1, <1>2, <1>4, <2>1
  <2>3. Fine(monitor') /\ monitor'.holder = NoThread
    BY <1>1, <2>1, <2>2, FineAfter
  <2> QED
    BY <1>1, <1>3, <1>4, <2>1, <2>2, <2>3, MoveControl DEF PeriodicLabels, MainLabels
<1>19. CASE StopNotify
  <2>1. Goto(Main, "stopped") /\ pc[Main] = "stop_notify"
    BY <1>19 DEF StopNotify, At
  <2>2. PICK m : (m = monitor \/ m \in Notify(monitor)) /\ monitor' = Unlock(m, Main)
    BY <1>19 DEF StopNotify
  <2>3. monitor.holder = Main
    BY <1>1, <1>2, <1>4, <2>1
  <2>4. Fine(m) /\ m.holder = Main
    BY <1>1, <1>5, <2>2, <2>3
  <2>5. Fine(monitor') /\ monitor'.holder = NoThread
    BY <1>1, <2>2, <2>4, FineAfter
  <2> QED
    BY <1>1, <1>3, <1>4, <2>1, <2>3, <2>5, MoveControl DEF MainLabels
<1>20. CASE Start
  <2>1. Goto(Main, "started") /\ monitor' \in Notify(monitor) /\ pc[Main] = "created"
    BY <1>20 DEF Start, At
  <2>2. monitor.holder # Main /\ Fine(monitor') /\ monitor'.holder = monitor.holder
    BY <1>1, <1>2, <1>4, <1>5, <2>1
  <2> QED
    BY <1>1, <1>3, <1>4, <2>1, <2>2, MoveControl DEF MainLabels
<1>21. CASE \E k \in Tasks : Activate(k)
  <2>1. PICK k \in Tasks : Goto(k, "active") /\ monitor' \in Notify(monitor)
    BY <1>21 DEF Activate
  <2>2. monitor.holder # k /\ Fine(monitor') /\ monitor'.holder = monitor.holder
    BY <1>1, <1>2, <1>4, <1>5, <2>1
  <2> QED
    BY <1>1, <1>3, <1>4, <2>1, <2>2, MoveControl DEF OwnerLabels
<1>22. CASE \E k \in Tasks : Inactivate(k) \/ Destroy(k)
  <2>1. PICK k \in Tasks, label \in {"inactive", "destroyed"} :
            Goto(k, label) /\ UNCHANGED monitor
    BY <1>22 DEF Inactivate, Destroy
  <2> QED
    BY <1>1, <1>3, <1>4, <2>1, StayControl DEF OwnerLabels
<1>23. CASE CalcIdle
  <2>1. /\ Goto(P, "idle_wait") /\ CanLock(monitor, P)
        /\ monitor' = Wait(Lock(monitor, P), P) /\ pc[P] = "calc_lock"
    BY <1>23 DEF CalcIdle, Sleep, At
  <2>2. Fine(monitor') /\ monitor'.holder = NoThread /\ monitor.holder = NoThread
    BY <2>1, LockThenWait
  <2> QED
    BY <1>1, <1>3, <1>4, <2>1, <2>2, MoveControl DEF PeriodicLabels
<1>24. CASE CalcSleep
  <2>1. /\ Goto(P, "loop_wait") /\ CanLock(monitor, P)
        /\ monitor' = Wait(Lock(monitor, P), P) /\ pc[P] = "calc_lock"
    BY <1>24 DEF CalcSleep, Sleep, At
  <2>2. Fine(monitor') /\ monitor'.holder = NoThread /\ monitor.holder = NoThread
    BY <2>1, LockThenWait
  <2> QED
    BY <1>1, <1>3, <1>4, <2>1, <2>2, MoveControl DEF PeriodicLabels
<1>25. CASE IdleWakes
  <2>1. /\ Goto(P, "test") /\ CanReturnFromWait(monitor, P)
        /\ monitor' = Unlock(ReturnFromWait(monitor, P), P) /\ pc[P] = "idle_wait"
    BY <1>25 DEF IdleWakes, Awake, At
  <2>2. Fine(monitor') /\ monitor'.holder = NoThread /\ monitor.holder = NoThread
    BY <2>1, WakeThen
  <2> QED
    BY <1>1, <1>3, <1>4, <2>1, <2>2, MoveControl DEF PeriodicLabels
<1>26. CASE LoopLeaves
  <2>1. /\ Goto(P, "test") /\ CanReturnFromWait(monitor, P)
        /\ monitor' = Unlock(ReturnFromWait(monitor, P), P) /\ pc[P] = "loop_wait"
    BY <1>26 DEF LoopLeaves, Awake, At
  <2>2. Fine(monitor') /\ monitor'.holder = NoThread /\ monitor.holder = NoThread
    BY <2>1, WakeThen
  <2> QED
    BY <1>1, <1>3, <1>4, <2>1, <2>2, MoveControl DEF PeriodicLabels
<1>27. CASE LoopWaits
  <2>1. /\ UNCHANGED pc /\ CanReturnFromWait(monitor, P)
        /\ monitor' = Wait(ReturnFromWait(monitor, P), P) /\ pc[P] = "loop_wait"
    BY <1>27 DEF LoopWaits, Sleep, At
  <2>2. Fine(monitor') /\ monitor'.holder = NoThread /\ monitor.holder = NoThread
    BY <2>1, WakeThen
  <2> QED
    BY <2>1, <2>2, SamePcControl
<1>28. CASE \E k \in Tasks : RunTask(k)
  <2>1. Goto(P, "task") /\ UNCHANGED monitor /\ pc[P] = "exec"
    BY <1>28 DEF RunTask, Visit, At
  <2> QED
    BY <1>1, <1>3, <1>4, <2>1, StayControl DEF PeriodicLabels
<1>29. CASE TaskReturns
  <2>1. Goto(P, "exec") /\ UNCHANGED monitor /\ pc[P] = "task"
    BY <1>29 DEF TaskReturns, At
  <2> QED
    BY <1>1, <1>3, <1>4, <2>1, StayControl DEF PeriodicLabels
<1>30. CASE TaskReactivates
  <2>1. UNCHANGED pc /\ monitor' \in Notify(monitor)
    BY <1>30 DEF TaskReactivates
  <2> QED
    BY <1>5, <2>1, SamePcControl
<1>31. CASE TimesOut \/ SpuriousWakeup
  <2>1. UNCHANGED pc /\ monitor' = SpuriousWake(monitor, P)
    BY <1>31 DEF TimesOut, SpuriousWakeup
  <2>2. Fine(monitor') /\ monitor'.holder = monitor.holder
    BY <1>1, <2>1, FineAfter
  <2> QED
    BY <2>1, <2>2, SamePcControl
<1>32. CASE Tick \/ UNCHANGED vars \/ \E k \in Tasks : CountTask(k) \/ TaskInactivates(k)
  <2>1. UNCHANGED <<pc, monitor>>
    BY <1>32 DEF Tick, CountTask, TaskInactivates, vars
  <2> QED
    BY <1>1, <2>1, SamePcControl
<1> QED
  BY <1>6, <1>7, <1>8, <1>9, <1>10, <1>11, <1>12, <1>13, <1>14, <1>15, <1>16, <1>17, <1>18, <1>19, <1>20, <1>21, <1>22, <1>23, <1>24, <1>25, <1>26, <1>27, <1>28, <1>29, <1>30, <1>31, <1>32
  DEF Next, MainStep, PeriodicStep, Execution, Owner

-----------------------------------------------------------------------------
(* Types.                                                                  *)

LEMMA TypeInit == Init => TypeOK
<1> SUFFICES ASSUME Init PROVE TypeOK
  OBVIOUS
<1>1. pc \in [Threads -> PeriodicLabels \cup MainLabels \cup OwnerLabels]
  BY DEF Init, PeriodicLabels, MainLabels, OwnerLabels
<1>2. monitor \in MonitorType(Threads)
  BY FreeMonitorType DEF Init
<1>3. pass \in [origin : Nat, i : Nat, task : Tasks \cup {NoTask}]
  BY DEF Init, NoPass, Pass
<1>4. walk \in [found : SUBSET Tasks, seen : SUBSET Tasks, again : BOOLEAN]
  BY DEF Init, EmptyWalk
<1>5. 0 \in 0..(Wrap - 1)
  BY PeriodicAssumption
<1>6. /\ should_terminate \in BOOLEAN /\ run_tasks \in BOOLEAN
      /\ periodic_thread \in BOOLEAN /\ timed_out \in BOOLEAN /\ self_only \in BOOLEAN
  BY DEF Init
<1>7. current_count \in [Tasks -> Nat] /\ due \in [Tasks -> Nat] /\ tasks \in Seq(Tasks)
  BY DEF Init
<1>8. /\ remains \in Nat /\ delay_interval \in Nat /\ timer \in Nat
      /\ elapsed \in 0..(Wrap - 1) /\ late \in Nat
      /\ activations \in Nat /\ spurious \in Nat
  BY <1>5 DEF Init
<1>9. vm_error \in Failures \cup {NoError}
  BY DEF Init
<1> QED
  BY <1>1, <1>2, <1>3, <1>4, <1>6, <1>7, <1>8, <1>9 DEF TypeOK

LEMMA MinTaskIntervalType ==
    ASSUME TypeOK, CountInRange
    PROVE  min_task_interval \in Nat
<1>1. CASE tasks = <<>>
  BY <1>1 DEF min_task_interval
<1>2. CASE tasks # <<>>
  <2> DEFINE S == { NextInterval(tasks[n]) : n \in 1..Len(tasks) }
  <2>1. \A k \in Tasks : NextInterval(k) \in Nat
    BY PeriodicAssumption DEF TypeOK, CountInRange, NextInterval
  <2>2. S \subseteq Nat
    BY <2>1, TableSeq
  <2>3. Len(tasks) > 0
    BY <1>2, EmptySeq, TableSeq DEF TypeOK
  <2>4. S # {}
    BY <2>3, TableSeq
  <2>5. Min(S) \in S
    BY <2>2, <2>4, MinInSet
  <2> QED
    BY <1>2, <2>2, <2>5 DEF min_task_interval
<1> QED
  BY <1>1, <1>2

LEMMA DivisionType ==
    ASSUME NEW a \in Nat, NEW d \in Nat \ {0}
    PROVE  a \div d \in Nat /\ a % d \in 0..(d - 1)
OBVIOUS

LEMMA TimeNextIntervalType ==
    ASSUME TypeOK
    PROVE  time_next_interval \in Nat
<1>1. elapsed \in Nat /\ UNIT \in Nat \ {0} /\ Wrap \in Nat
  BY PeriodicAssumption DEF TypeOK
<1>2. elapsed \div UNIT \in Nat
  BY <1>1, DivisionType
<1> QED
  BY <1>2 DEF time_next_interval

LEMMA AdvancedType ==
    ASSUME TypeOK, NEW p \in [origin : Nat, i : Nat, task : Tasks \cup {NoTask}]
    PROVE  Advanced(p) \in [origin : Nat, i : Nat, task : Tasks \cup {NoTask}]
BY TableSeq DEF Advanced, Pass

LEMMA RemoveType ==
    ASSUME TypeOK, TableSound, NEW k \in Tasks, Remove(k)
    PROVE  tasks' \in Seq(Tasks)
BY TakenOutProperties DEF Remove, TypeOK

LEMMA EnterType ==
    ASSUME TypeOK, NEW k \in Tasks, Enter(k)
    PROVE  /\ tasks' \in Seq(Tasks) /\ activations' \in Nat
           /\ due' \in [Tasks -> Nat] /\ UNCHANGED current_count
           /\ vm_error' \in Failures \cup {NoError}
<1>1. tasks' = tasks \/ tasks' = Append(tasks, k)
  BY DEF Enter
<1>2. tasks \in Seq(Tasks) /\ Append(tasks, k) \in Seq(Tasks)
  BY DEF TypeOK
<1>3. tasks' \in Seq(Tasks)
  BY <1>1, <1>2
<1>4. vm_error' = vm_error \/ vm_error' = "Overflow in PeriodicTask table"
  <2>1. CASE Len(tasks) < MaxTaskNum
    BY <2>1, Zenon DEF Enter
  <2>2. CASE ~ (Len(tasks) < MaxTaskNum)
    BY <2>2, Zenon DEF Enter
  <2> QED
    BY <2>1, <2>2
<1>5. vm_error' \in Failures \cup {NoError}
  BY <1>4 DEF TypeOK, Failures
<1>6. due' = [due EXCEPT ![k] = 0] /\ activations' = activations + 1 /\ UNCHANGED current_count
  BY Zenon DEF Enter
<1>7. due' \in [Tasks -> Nat] /\ activations' \in Nat
  BY <1>6 DEF TypeOK
<1> QED
  BY <1>3, <1>5, <1>6, <1>7

LEMMA PcType ==
    ASSUME TypeOK, Table, [Next]_vars
    PROVE  pc' \in [Threads -> PeriodicLabels \cup MainLabels \cup OwnerLabels]
<1> DEFINE Labels == PeriodicLabels \cup MainLabels \cup OwnerLabels
<1>1. UNCHANGED pc => pc' \in [Threads -> Labels]
  BY DEF TypeOK
<1>2. \A t, label : Goto(t, label) /\ label \in Labels => pc' \in [Threads -> Labels]
  BY DEF TypeOK, Goto
<1>3. CASE MainStep
  <2>1. CASE CreateThread
    BY <2>1 DEF CreateThread, TypeOK, MainLabels, PeriodicLabels
  <2>2. CASE ~ CreateThread
    <3>1. \E label \in MainLabels : Goto(Main, label)
      BY <1>3, <2>2 DEF MainStep, CreateLock, CreateFails, CreateStore, Start, StopStore,
                        StopNotify, MainLabels
    <3> QED
      BY <1>2, <3>1
  <2> QED
    BY <2>1, <2>2
<1>4. CASE Execution
  <2>1. UNCHANGED pc \/ \E label \in PeriodicLabels : Goto(P, label)
    BY <1>4 DEF Execution, ExecLock, TaskReactivates, TaskReturns, PassEnds, CountTask,
                RunTask, TaskInactivates, PeriodicLabels
  <2> QED
    BY <1>1, <1>2, <2>1
<1>5. CASE PeriodicStep /\ ~ Execution
  <2>1. UNCHANGED pc \/ \E label \in PeriodicLabels : Goto(P, label)
    BY <1>5 DEF PeriodicStep, RunAssert, CalcTerminated, CalcGoesOn, CalcIdle, IdleWakes,
                CalcSleep, LoopLeaves, LoopWaits, Test, CheckRun, RunEnds, TimesOut,
                PeriodicLabels
  <2> QED
    BY <1>1, <1>2, <2>1
<1>6. CASE \E k \in Tasks : Owner(k)
  <2>1. \E k \in Tasks, label \in OwnerLabels : Goto(k, label)
    BY <1>6 DEF Owner, Activate, Inactivate, Destroy, OwnerLabels
  <2> QED
    BY <1>2, <2>1
<1>7. CASE Tick \/ SpuriousWakeup \/ UNCHANGED vars
  BY <1>1, <1>7 DEF Tick, SpuriousWakeup, vars
<1> QED
  BY <1>3, <1>4, <1>5, <1>6, <1>7 DEF Next

LEMMA TypeStep ==
    ASSUME TypeOK, CountInRange, Control, Table, [Next]_vars
    PROVE  TypeOK'
<1>1. pc' \in [Threads -> PeriodicLabels \cup MainLabels \cup OwnerLabels]
  BY PcType
<1>2. monitor' \in MonitorType(Threads)
  BY ControlStep DEF Control, Fine
<1>3. TableSound /\ (pc[P] = "task" => pass.task \in Tasks)
  BY DEF Table
<1>4. CASE UNCHANGED vars
  BY <1>1, <1>2, <1>4 DEF TypeOK, vars, flags, table, clock, history
<1>5. CASE CreateLock \/ CreateThread \/ CreateFails
  BY <1>1, <1>2, <1>5 DEF TypeOK, CreateLock, CreateThread, CreateFails, Failures, flags, table, clock, history
<1>6. CASE CreateStore \/ Start \/ StopStore \/ StopNotify
  BY <1>1, <1>2, <1>6 DEF TypeOK, CreateStore, Start, StopStore, StopNotify, flags, table, clock, history
<1>7. CASE RunAssert \/ CalcTerminated \/ CalcGoesOn
  <2>1. vm_error' = vm_error \/ vm_error' = NoError \/ vm_error' = "PeriodicThread.cpp:36"
    BY <1>7, Zenon DEF RunAssert, CalcTerminated, CalcGoesOn
  <2>2. vm_error' \in Failures \cup {NoError}
    BY <2>1 DEF TypeOK, Failures
  <2>3. delay_interval' \in Nat
    BY <1>7 DEF RunAssert, CalcTerminated, CalcGoesOn, TypeOK
  <2>4. UNCHANGED <<flags, table, remains, pass, clock, history>>
    BY <1>7 DEF RunAssert, CalcTerminated, CalcGoesOn
  <2> QED
    BY <1>1, <1>2, <2>2, <2>3, <2>4 DEF TypeOK, flags, table, clock, history
<1>8. CASE Test \/ CheckRun \/ RunEnds
  <2>1. periodic_thread' \in BOOLEAN
    BY <1>8, Zenon DEF Test, CheckRun, RunEnds, flags, TypeOK
  <2>2. delay_interval' \in Nat
    BY <1>8 DEF Test, CheckRun, RunEnds, TypeOK
  <2>3. UNCHANGED <<should_terminate, run_tasks, table, remains, pass, clock, vm_error, history>>
    BY <1>8 DEF Test, CheckRun, RunEnds, flags
  <2> QED
    BY <1>1, <1>2, <2>1, <2>2, <2>3 DEF TypeOK, table, clock, history
<1>9. CASE CalcIdle
  <2>1. timer' \in Nat /\ timed_out' \in BOOLEAN /\ late' \in Nat
    BY <1>9, PeriodicAssumption DEF CalcIdle, Sleep
  <2> QED
    BY <1>1, <1>2, <1>9, <2>1 DEF TypeOK, CalcIdle, Sleep, flags, table, history
<1>10. CASE CalcSleep
  <2>1. timer' \in Nat /\ remains' \in Nat
    BY <1>10, MinTaskIntervalType DEF CalcSleep, Sleep
  <2>2. late' \in Nat /\ elapsed' \in 0..(Wrap - 1)
    BY <1>10, PeriodicAssumption DEF CalcSleep, Sleep
  <2>3. timed_out' \in BOOLEAN
    BY <1>10 DEF CalcSleep, Sleep
  <2> QED
    BY <1>1, <1>2, <1>10, <2>1, <2>2, <2>3 DEF TypeOK, CalcSleep, Sleep, flags, table, history
<1>11. CASE IdleWakes \/ LoopLeaves
  <2>1. delay_interval' \in Nat
    BY <1>11, TimeNextIntervalType DEF IdleWakes, LoopLeaves
  <2>2. timer' \in Nat /\ remains' \in Nat /\ elapsed' \in 0..(Wrap - 1)
    BY <1>11, PeriodicAssumption DEF IdleWakes, LoopLeaves, Awake
  <2>3. timed_out' \in BOOLEAN
    BY <1>11 DEF IdleWakes, LoopLeaves, Awake
  <2> QED
    BY <1>1, <1>2, <1>11, <2>1, <2>2, <2>3 DEF TypeOK, IdleWakes, LoopLeaves, Awake, flags, table, history
<1>12. CASE LoopWaits
  <2>1. min_task_interval # 0 => time_next_interval < min_task_interval
    BY <1>12, MinTaskIntervalType, TimeNextIntervalType DEF LoopWaits, LeavesLoop
  <2>2. remains' \in Nat
    BY <1>12, <2>1, MinTaskIntervalType, TimeNextIntervalType DEF LoopWaits
  <2>3. timer' \in Nat /\ timed_out' \in BOOLEAN /\ late' \in Nat
    BY <1>12, <2>2 DEF LoopWaits, Sleep
  <2> QED
    BY <1>1, <1>2, <1>12, <2>2, <2>3 DEF TypeOK, LoopWaits, Sleep, flags, table, history
<1>13. CASE TimesOut \/ SpuriousWakeup
  <2>1. timed_out' \in BOOLEAN
    BY <1>13, Zenon DEF TimesOut, SpuriousWakeup, clock, TypeOK
  <2>2. spurious' \in Nat
    BY <1>13 DEF TimesOut, SpuriousWakeup, history, TypeOK
  <2>3. UNCHANGED <<flags, table, remains, delay_interval, pass, timer, elapsed, late,
                    vm_error, due, walk, self_only, activations>>
    BY <1>13 DEF TimesOut, SpuriousWakeup, clock, history
  <2> QED
    BY <1>1, <1>2, <2>1, <2>2, <2>3 DEF TypeOK, flags, table
<1>14. CASE Tick
  <2>1. due' \in [Tasks -> Nat]
    BY <1>14 DEF Tick, TypeOK
  <2>2. timer' \in Nat /\ late' \in Nat
    BY <1>14 DEF Tick, TypeOK
  <2>3. elapsed' \in 0..(Wrap - 1)
    <3>1. elapsed + 1 \in Nat /\ Wrap \in Nat \ {0}
      BY PeriodicAssumption DEF TypeOK
    <3>2. (elapsed + 1) % Wrap \in 0..(Wrap - 1)
      BY <3>1, DivisionType
    <3> QED
      BY <1>14, <3>2 DEF Tick, TypeOK
  <2> QED
    BY <1>1, <1>2, <1>14, <2>1, <2>2, <2>3 DEF TypeOK, Tick, flags, table
<1>15. CASE \E k \in Tasks : Activate(k)
  <2> PICK k \in Tasks : Activate(k)
    BY <1>15
  <2>1. Enter(k)
    BY DEF Activate
  <2> QED
    BY <1>1, <1>2, <2>1, EnterType DEF TypeOK, Activate, flags, clock
<1>16. CASE \E k \in Tasks : Inactivate(k) \/ Destroy(k)
  <2> PICK k \in Tasks : Inactivate(k) \/ Destroy(k)
    BY <1>16
  <2>1. tasks' \in Seq(Tasks)
    BY <1>3, RemoveType DEF Inactivate, Destroy, InactivateCall
  <2> QED
    BY <1>1, <1>2, <2>1 DEF TypeOK, Inactivate, Destroy, flags, clock, history
<1>17. CASE ExecLock
  <2>1. /\ pass' \in [origin : Nat, i : Nat, task : Tasks \cup {NoTask}]
        /\ walk' \in [found : SUBSET Tasks, seen : SUBSET Tasks, again : BOOLEAN]
    BY <1>17, TableSeq DEF ExecLock, Pass, EmptyWalk
  <2> QED
    BY <1>1, <1>2, <1>17, <2>1 DEF TypeOK, ExecLock, flags, table, clock
<1>18. CASE PassEnds
  <2>1. /\ pass' \in [origin : Nat, i : Nat, task : Tasks \cup {NoTask}]
        /\ walk' \in [found : SUBSET Tasks, seen : SUBSET Tasks, again : BOOLEAN]
    BY <1>18 DEF PassEnds, NoPass, Pass, EmptyWalk
  <2> QED
    BY <1>1, <1>2, <1>18, <2>1 DEF TypeOK, PassEnds, flags, table, clock
<1>19. CASE TaskReturns
  <2>1. pass' \in [origin : Nat, i : Nat, task : Tasks \cup {NoTask}]
    BY <1>19, AdvancedType DEF TaskReturns, TypeOK
  <2> QED
    BY <1>1, <1>2, <1>19, <2>1 DEF TypeOK, TaskReturns, flags, table, clock, history
<1>20. CASE TaskReactivates
  <2>1. pass.task \in Tasks /\ Enter(pass.task)
    BY <1>3, <1>20 DEF TaskReactivates, At
  <2> QED
    BY <1>1, <1>2, <1>20, <2>1, EnterType DEF TypeOK, TaskReactivates, flags, clock
<1>21. CASE \E k \in Tasks : CountTask(k) \/ RunTask(k)
  <2> PICK k \in Tasks : CountTask(k) \/ RunTask(k)
    BY <1>21
  <2>1. walk' \in [found : SUBSET Tasks, seen : SUBSET Tasks, again : BOOLEAN]
    <3>1. walk' = [found |-> walk.found, seen |-> walk.seen \cup {k},
                   again |-> (walk.again \/ k \in walk.seen)]
      BY DEF CountTask, RunTask, Visit, TypeOK
    <3> QED
      BY <3>1 DEF TypeOK
  <2>2. pass' \in [origin : Nat, i : Nat, task : Tasks \cup {NoTask}]
    BY AdvancedType DEF CountTask, RunTask, TypeOK
  <2>3. current_count' \in [Tasks -> Nat]
    <3>1. Counted(k) \in Nat
      BY DEF Counted, TypeOK
    <3>2. \E n \in Nat : current_count' = [current_count EXCEPT ![k] = n]
      BY <3>1 DEF CountTask, RunTask
    <3> QED
      BY <3>2 DEF TypeOK
  <2>4. Interval[k] * UNIT \in Nat
    BY PeriodicAssumption
  <2>5. due' \in [Tasks -> Nat]
    BY <2>4 DEF CountTask, RunTask, TypeOK
  <2> QED
    BY <1>1, <1>2, <2>1, <2>2, <2>3, <2>5 DEF TypeOK, CountTask, RunTask, flags, clock
<1>22. CASE \E k \in Tasks : TaskInactivates(k)
  <2> PICK k \in Tasks : TaskInactivates(k)
    BY <1>22
  <2>1. tasks' \in Seq(Tasks)
    BY <1>3, RemoveType DEF TaskInactivates
  <2>2. self_only' \in BOOLEAN
    BY DEF TaskInactivates
  <2> QED
    BY <1>1, <1>2, <2>1, <2>2 DEF TypeOK, TaskInactivates, flags, clock
<1> QED
  BY <1>4, <1>5, <1>6, <1>7, <1>8, <1>9, <1>10, <1>11, <1>12, <1>13, <1>14, <1>15, <1>16, <1>17, <1>18, <1>19, <1>20, <1>21, <1>22
  DEF Next, MainStep, PeriodicStep, Execution, Owner

-----------------------------------------------------------------------------
(* The table.                                                              *)

LEMMA TableInit == Init => Table
<1> SUFFICES ASSUME Init PROVE Table
  OBVIOUS
<1>1. tasks = <<>> /\ pc[P] = "new" /\ pass.task = NoTask
  BY PeriodicAssumption DEF Init, Threads, NoPass, Pass
<1>2. Len(tasks) = 0
  BY <1>1
<1> QED
  BY <1>1, <1>2 DEF Table, TableSound, InTable

(* Steps that leave the table, the walk and the owners alone: of the main  *)
(* thread, and of the periodic thread outside of check_and_execute.        *)
LEMMA TableKept ==
    ASSUME Table, UNCHANGED <<tasks, pass>>, \A k \in Tasks : pc'[k] = pc[k],
           \/ pc'[P] = pc[P]
           \/ pc[P] # "task" /\ pc'[P] \notin {"exec", "task"}
    PROVE  Table'
BY DEF Table, TableSound, InTable

(* While an owner holds the lock the periodic thread is outside.           *)
LEMMA OwnerOutside ==
    ASSUME Control, NEW k \in Tasks, CanLock(monitor, k)
    PROVE  pc[P] \notin {"exec", "task"}
<1>1. monitor.holder # P
  BY PeriodicAssumption DEF CanLock, Threads
<1> QED
  BY <1>1 DEF Control, InsideAt, Threads

LEMMA RemoveProperties ==
    ASSUME TypeOK, Table, NEW k \in Tasks, Remove(k)
    PROVE  /\ \A m, n \in 1..Len(tasks') : tasks'[m] = tasks'[n] => m = n
           /\ ~ InTable(k)'
           /\ \A j \in Tasks : InTable(j)' => InTable(j)
<1>1. TableSound
  BY DEF Table
<1>2. CASE InTable(k)
  BY <1>1, <1>2, TakenOutProperties DEF Remove
<1>3. CASE ~ InTable(k)
  BY <1>1, <1>3 DEF Remove, InTable, TableSound
<1> QED
  BY <1>2, <1>3

LEMMA EnterKeeps ==
    ASSUME TypeOK, Table, NEW k \in Tasks, ~ InTable(k), Enter(k)
    PROVE  /\ \A m, n \in 1..Len(tasks') : tasks'[m] = tasks'[n] => m = n
           /\ \A j \in Tasks : InTable(j)' => InTable(j) \/ j = k
<1>1. TableSound
  BY DEF Table
<1>2. tasks' = Append(tasks, k) \/ tasks' = tasks
  BY DEF Enter
<1>3. CASE tasks' = Append(tasks, k)
  BY <1>1, <1>3, EnterProperties
<1>4. CASE tasks' = tasks
  BY <1>1, <1>4 DEF TableSound, InTable
<1> QED
  BY <1>2, <1>3, <1>4

(* The count of the tasks to visit does not grow beyond the table.         *)
LEMMA AdvancedInside ==
    ASSUME TypeOK, NEW p \in [origin : Nat, i : Nat, task : Tasks \cup {NoTask}]
    PROVE  Advanced(p).origin <= Len(tasks) /\ Advanced(p).task = NoTask
BY TableSeq DEF Advanced, Pass

(* The task that is visited is in the table.                               *)
LEMMA VisitInTable ==
    ASSUME TypeOK, Table, NEW k \in Tasks, Visit(k)
    PROVE  InTable(k) /\ pc[k] = "active"
<1>1. pass.i \in Nat /\ pass.origin \in Nat /\ Len(tasks) \in Nat
  BY TableSeq DEF TypeOK
<1>2. pass.i < pass.origin /\ pass.origin <= Len(tasks) /\ k = tasks[pass.i + 1]
  BY DEF Visit, At, Table, TableSound
<1>3. pass.i + 1 \in 1..Len(tasks)
  BY <1>1, <1>2
<1> QED
  BY <1>2, <1>3 DEF InTable, Table

LEMMA TableStep ==
    ASSUME TypeOK, Control, Table, [Next]_vars
    PROVE  Table'
<1> USE PeriodicAssumption
<1>1. P \in Threads /\ Main \in Threads /\ Tasks \subseteq Threads
  BY DEF Threads
<1>2. \A label : Goto(P, label) => pc'[P] = label /\ \A k \in Tasks : pc'[k] = pc[k]
  BY <1>1 DEF Goto, TypeOK
<1>3. \A label : Goto(Main, label) => pc'[P] = pc[P] /\ \A k \in Tasks : pc'[k] = pc[k]
  BY <1>1 DEF Goto, TypeOK
<1>4. \A k \in Tasks : \A label : Goto(k, label) => /\ pc'[P] = pc[P] /\ pc'[k] = label
                                                  /\ \A j \in Tasks \ {k} : pc'[j] = pc[j]
  BY <1>1 DEF Goto, TypeOK
<1>5. CASE MainStep
  <2>1. UNCHANGED <<tasks, pass>>
    BY <1>5 DEF MainStep, CreateLock, CreateThread, CreateFails, CreateStore, Start, StopStore,
                StopNotify, table
  <2>2. CASE CreateThread
    <3>1. pc'[P] = "run" /\ \A k \in Tasks : pc'[k] = pc[k]
      BY <1>1, <2>2 DEF CreateThread, TypeOK
    <3>2. monitor.holder = Main
      BY <1>1, <2>2 DEF CreateThread, At, Control, InsideAt
    <3>3. pc[P] # "task"
      BY <1>1, <3>2 DEF Control, InsideAt
    <3> QED
      BY <2>1, <3>1, <3>3, TableKept
  <2>3. CASE ~ CreateThread
    <3>1. \E label : Goto(Main, label)
      BY <1>5, <2>3 DEF MainStep, CreateLock, CreateFails, CreateStore, Start, StopStore,
                        StopNotify
    <3> QED
      BY <1>3, <2>1, <3>1, TableKept
  <2> QED
    BY <2>2, <2>3
<1>6. CASE PeriodicStep /\ ~ Execution
  <2>1. UNCHANGED <<tasks, pass>>
    BY <1>6 DEF PeriodicStep, RunAssert, CalcTerminated, CalcGoesOn, CalcIdle, IdleWakes,
                CalcSleep, LoopLeaves, LoopWaits, Test, CheckRun, RunEnds, TimesOut,
                Sleep, Awake, table
  <2>2. \/ UNCHANGED pc
        \/ pc[P] # "task" /\ \E label : Goto(P, label) /\ label \notin {"exec", "task"}
    BY <1>6 DEF PeriodicStep, RunAssert, CalcTerminated, CalcGoesOn, CalcIdle, IdleWakes,
                CalcSleep, LoopLeaves, LoopWaits, Test, CheckRun, RunEnds, TimesOut, At
  <2> QED
    BY <1>2, <2>1, <2>2, TableKept
<1>7. CASE Tick \/ SpuriousWakeup \/ UNCHANGED vars
  <2>1. UNCHANGED <<tasks, pass, pc>>
    BY <1>7 DEF Tick, SpuriousWakeup, vars, table
  <2> QED
    BY <2>1, TableKept
<1>8. CASE \E k \in Tasks : Activate(k)
  <2> PICK k \in Tasks : Activate(k)
    BY <1>8
  <2>1. pc[k] = "inactive" /\ CanLock(monitor, k) /\ Enter(k) /\ Goto(k, "active")
        /\ UNCHANGED pass
    BY DEF Activate, At
  <2>2. pc[P] \notin {"exec", "task"} /\ pc'[P] = pc[P]
    BY <1>4, <2>1, OwnerOutside
  <2>3. ~ InTable(k)
    BY <2>1 DEF Table
  <2>4. /\ \A m, n \in 1..Len(tasks') : tasks'[m] = tasks'[n] => m = n
        /\ \A j \in Tasks : InTable(j)' => InTable(j) \/ j = k
    BY <2>1, <2>3, EnterKeeps
  <2>5. \A j \in Tasks : InTable(j)' => pc'[j] = "active"
    BY <1>4, <2>1, <2>4 DEF Table
  <2> QED
    BY <2>1, <2>2, <2>4, <2>5 DEF Table, TableSound
<1>9. CASE \E k \in Tasks : Inactivate(k) \/ Destroy(k)
  <2> PICK k \in Tasks : Inactivate(k) \/ Destroy(k)
    BY <1>9
  <2>1. CanLock(monitor, k) /\ Remove(k) /\ UNCHANGED pass /\ \E label : Goto(k, label)
    BY DEF Inactivate, Destroy, InactivateCall
  <2>2. pc[P] \notin {"exec", "task"} /\ pc'[P] = pc[P]
    BY <1>4, <2>1, OwnerOutside
  <2>3. /\ \A m, n \in 1..Len(tasks') : tasks'[m] = tasks'[n] => m = n
        /\ ~ InTable(k)'
        /\ \A j \in Tasks : InTable(j)' => InTable(j)
    BY <2>1, RemoveProperties
  <2>4. \A j \in Tasks : InTable(j)' => pc'[j] = "active"
    BY <1>4, <2>1, <2>3 DEF Table
  <2> QED
    BY <2>1, <2>2, <2>3, <2>4 DEF Table, TableSound
<1>10. CASE ExecLock
  <2>1. /\ Goto(P, "exec") /\ UNCHANGED tasks /\ pass' = Pass(Len(tasks), 0, NoTask)
    BY <1>10 DEF ExecLock, table
  <2>2. pass'.origin <= Len(tasks') /\ pass'.task = NoTask
    BY <2>1, TableSeq DEF Pass
  <2> QED
    BY <1>2, <2>1, <2>2 DEF Table, TableSound, InTable
<1>11. CASE TaskReturns \/ \E k \in Tasks : CountTask(k)
  <2>1. /\ pc'[P] = "exec" /\ \A k \in Tasks : pc'[k] = pc[k]
        /\ UNCHANGED tasks /\ pass' = Advanced(pass)
    BY <1>2, <1>11 DEF TaskReturns, CountTask, Visit, At, table
  <2>2. pass'.origin <= Len(tasks') /\ pass'.task = NoTask
    BY <2>1, AdvancedInside DEF TypeOK
  <2> QED
    BY <2>1, <2>2 DEF Table, TableSound, InTable
<1>12. CASE \E k \in Tasks : RunTask(k)
  <2> PICK k \in Tasks : RunTask(k)
    BY <1>12
  <2>1. Visit(k) /\ Goto(P, "task") /\ UNCHANGED tasks /\ pass' = [pass EXCEPT !.task = k]
    BY DEF RunTask
  <2>2. pass'.task = k /\ pc[k] = "active"
    BY <2>1, VisitInTable DEF TypeOK
  <2> QED
    BY <1>2, <2>1, <2>2 DEF Table, TableSound, InTable
<1>13. CASE \E k \in Tasks : TaskInactivates(k)
  <2> PICK k \in Tasks : TaskInactivates(k)
    BY <1>13
  <2>1. pc[P] = "task" /\ Remove(k) /\ UNCHANGED <<pc, pass>>
    BY DEF TaskInactivates, At
  <2>2. /\ \A m, n \in 1..Len(tasks') : tasks'[m] = tasks'[n] => m = n
        /\ \A j \in Tasks : InTable(j)' => InTable(j)
    BY <2>1, RemoveProperties
  <2> QED
    BY <2>1, <2>2 DEF Table, TableSound
<1>14. CASE TaskReactivates
  <2>1. pc[P] = "task" /\ ~ InTable(pass.task) /\ Enter(pass.task) /\ UNCHANGED <<pc, pass>>
    BY <1>14 DEF TaskReactivates, At
  <2>2. pass.task \in Tasks /\ pc[pass.task] = "active"
    BY <2>1 DEF Table
  <2>3. /\ \A m, n \in 1..Len(tasks') : tasks'[m] = tasks'[n] => m = n
        /\ \A j \in Tasks : InTable(j)' => InTable(j) \/ j = pass.task
    BY <2>1, <2>2, EnterKeeps
  <2> QED
    BY <2>1, <2>2, <2>3 DEF Table, TableSound
<1>15. CASE PassEnds
  <2>1. Goto(P, "run") /\ UNCHANGED tasks /\ pass'.task = NoTask
    BY <1>15 DEF PassEnds, table, NoPass, Pass
  <2> QED
    BY <1>2, <2>1 DEF Table, TableSound, InTable
<1> QED
  BY <1>5, <1>6, <1>7, <1>8, <1>9, <1>10, <1>11, <1>12, <1>13, <1>14, <1>15
  DEF Next, Owner, Execution

-----------------------------------------------------------------------------
(* The counters.                                                           *)

LEMMA CountInit == Init => CountInRange
BY PeriodicAssumption DEF Init, CountInRange

LEMMA CountStep ==
    ASSUME TypeOK, Table, CountInRange, [Next]_vars
    PROVE  CountInRange'
<1>1. CASE UNCHANGED current_count
  BY <1>1 DEF CountInRange
<1>2. CASE \E k \in Tasks : CountTask(k) \/ RunTask(k)
  <2> PICK k \in Tasks : CountTask(k) \/ RunTask(k)
    BY <1>2
  <2>1. PICK n : current_count' = [current_count EXCEPT ![k] = n] /\ n < Interval[k]
    <3>1. CASE CountTask(k)
      BY <3>1 DEF CountTask
    <3>2. CASE RunTask(k)
      <4>1. 0 < Interval[k]
        BY PeriodicAssumption
      <4> QED
        BY <3>2, <4>1 DEF RunTask
    <3> QED
      BY <3>1, <3>2
  <2>2. current_count'[k] < Interval[k] /\ \A j \in Tasks \ {k} : current_count'[j] = current_count[j]
    BY <2>1 DEF TypeOK
  <2> QED
    BY <2>2 DEF CountInRange
<1>3. CASE MainStep \/ Tick \/ SpuriousWakeup \/ UNCHANGED vars
  <2>1. UNCHANGED current_count
    BY <1>3 DEF MainStep, CreateLock, CreateThread, CreateFails, CreateStore, Start, StopStore,
                StopNotify, Tick, SpuriousWakeup, vars, table
  <2> QED
    BY <1>1, <2>1
<1>4. CASE PeriodicStep /\ ~ Execution
  <2>1. UNCHANGED current_count
    BY <1>4 DEF PeriodicStep, RunAssert, CalcTerminated, CalcGoesOn, CalcIdle, IdleWakes,
                CalcSleep, LoopLeaves, LoopWaits, Test, CheckRun, RunEnds, TimesOut,
                Sleep, Awake, table
  <2> QED
    BY <1>1, <2>1
<1>5. CASE \E k \in Tasks : Owner(k)
  <2>1. UNCHANGED current_count
    BY <1>5 DEF Owner, Activate, Inactivate, Destroy, Enter
  <2> QED
    BY <1>1, <2>1
<1>6. CASE ExecLock \/ TaskReactivates \/ TaskReturns \/ PassEnds \/ \E k \in Tasks : TaskInactivates(k)
  <2>1. UNCHANGED current_count
    BY <1>6 DEF ExecLock, TaskReactivates, TaskReturns, PassEnds, TaskInactivates, Enter, table
  <2> QED
    BY <1>1, <2>1
<1> QED
  BY <1>2, <1>3, <1>4, <1>5, <1>6 DEF Next, PeriodicStep, Execution

-----------------------------------------------------------------------------
(* The assertions.                                                         *)

(* A full table and a task that is not in it, all of them in A, are more   *)
(* tasks than the table has places.                                        *)
LEMMA MoreThanPlaces ==
    ASSUME TypeOK, TableSound, NEW k \in Tasks, ~ InTable(k), ~ (Len(tasks) < MaxTaskNum),
           NEW A \in SUBSET Tasks, k \in A, \A j \in Tasks : InTable(j) => j \in A
    PROVE  Cardinality(A) > MaxTaskNum
<1>1. Len(tasks) \in Nat /\ tasks \in [1..Len(tasks) -> Tasks]
  BY TableSeq
<1>2. tasks \in [1..Len(tasks) -> A \ {k}]
  BY <1>1 DEF InTable
<1>3. IsFiniteSet(A)
  BY PeriodicAssumption, FS_Subset
<1>4. /\ IsFiniteSet(A \ {k})
      /\ Cardinality(A \ {k}) = Cardinality(A) - 1
      /\ Cardinality(A) \in Nat
  BY <1>3, FS_RemoveElement, FS_CardinalityType
<1>5. IsFiniteSet(1..Len(tasks)) /\ Cardinality(1..Len(tasks)) = Len(tasks)
  BY <1>1, FS_Interval
<1>6. ~ (Cardinality(A \ {k}) < Cardinality(1..Len(tasks)))
  <2> SUFFICES ASSUME Cardinality(A \ {k}) < Cardinality(1..Len(tasks))
               PROVE  FALSE
    OBVIOUS
  <2>1. \E m, n \in 1..Len(tasks) : m # n /\ tasks[m] = tasks[n]
    BY <1>2, <1>4, <1>5, FS_PigeonHole
  <2> QED
    BY <2>1 DEF TableSound
<1> QED
  BY <1>1, <1>4, <1>5, <1>6, PeriodicAssumption

LEMMA CreatedInit == Init => Created
BY PeriodicAssumption DEF Init, Created, Threads

(* A failed assertion or guarantee stops the program.                      *)
LEMMA Stopped ==
    ASSUME [Next]_vars
    PROVE  vm_error = NoError \/ UNCHANGED vars
<1>1. MainStep => vm_error = NoError
  BY DEF MainStep, CreateLock, CreateThread, CreateFails, CreateStore, Start, StopStore,
         StopNotify, At
<1>2. Execution => vm_error = NoError
  BY DEF Execution, ExecLock, TaskReactivates, TaskReturns, PassEnds, CountTask, RunTask,
         TaskInactivates, Visit, At
<1>3. PeriodicStep /\ ~ Execution => vm_error = NoError
  BY DEF PeriodicStep, RunAssert, CalcTerminated, CalcGoesOn, CalcIdle, IdleWakes, CalcSleep,
         LoopLeaves, LoopWaits, Test, CheckRun, RunEnds, TimesOut, At
<1>4. (\E k \in Tasks : Owner(k)) => vm_error = NoError
  BY DEF Owner, Activate, Inactivate, Destroy, At
<1>5. Tick \/ SpuriousWakeup => vm_error = NoError
  BY DEF Tick, SpuriousWakeup
<1> QED
  BY <1>1, <1>2, <1>3, <1>4, <1>5 DEF Next

LEMMA CreatedStep ==
    ASSUME TypeOK, Created, [Next]_vars
    PROVE  Created'
<1>0. vm_error = NoError \/ UNCHANGED vars
  BY Stopped
<1> SUFFICES ASSUME vm_error = NoError PROVE Created'
  BY <1>0 DEF vars, flags, Created
<1> USE PeriodicAssumption
<1>1. P \in Threads /\ Main \in Threads /\ Tasks \subseteq Threads /\ Main # P
  BY DEF Threads
<1>2. \A label : Goto(P, label) => pc'[P] = label /\ pc'[Main] = pc[Main]
  BY <1>1 DEF Goto, TypeOK
<1>3. \A label : Goto(Main, label) => pc'[Main] = label /\ pc'[P] = pc[P]
  BY <1>1 DEF Goto, TypeOK
<1>4. \A k \in Tasks : \A label : Goto(k, label) => pc'[P] = pc[P] /\ pc'[Main] = pc[Main]
  BY <1>1 DEF Goto, TypeOK
<1>5. CASE CreateThread
  <2>1. /\ pc[Main] = "create_thread" /\ UNCHANGED periodic_thread
        /\ pc' = [pc EXCEPT ![Main] = "create_store", ![P] = "run"]
    BY <1>5 DEF CreateThread, At, flags
  <2>2. pc'[Main] = "create_store" /\ pc'[P] = "run"
    BY <1>1, <2>1 DEF TypeOK
  <2>3. ~ periodic_thread'
    BY <2>1 DEF Created
  <2> QED
    BY <2>2, <2>3 DEF Created
<1>6. CASE CreateStore
  BY <1>3, <1>6 DEF CreateStore, Created, At
<1>7. CASE CreateLock \/ CreateFails \/ Start \/ StopStore \/ StopNotify
  <2>1. UNCHANGED periodic_thread
    BY <1>7 DEF CreateLock, CreateFails, Start, StopStore, StopNotify, flags
  <2>2. \E label \in MainLabels : /\ Goto(Main, label) /\ label # "create" /\ label # "create_store"
                                  /\ label = "create_thread" => pc[Main] = "create"
    BY <1>7 DEF CreateLock, CreateFails, Start, StopStore, StopNotify, MainLabels, At
  <2>3. pc[Main] # "create_store"
    BY <1>7 DEF CreateLock, CreateFails, Start, StopStore, StopNotify, At
  <2> QED
    BY <1>3, <2>1, <2>2, <2>3 DEF Created
<1>8. CASE RunAssert
  <2>1. pc[P] = "run" /\ Goto(P, "calc") /\ UNCHANGED periodic_thread
    BY <1>8 DEF RunAssert, At, flags
  <2>2. vm_error' = NoError => periodic_thread
    BY <1>8, NoErrorAssumption DEF RunAssert, Failures
  <2>3. periodic_thread => pc[Main] # "create_thread" /\ pc[Main] # "create"
    BY DEF Created
  <2>4. vm_error' = NoError => pc[Main] # "create_store"
    BY <2>2 DEF Created
  <2> QED
    BY <1>2, <2>1, <2>2, <2>3, <2>4 DEF Created
<1>9. CASE RunEnds
  BY <1>2, <1>9 DEF RunEnds, At, Created
<1>10. CASE PeriodicStep /\ ~ RunAssert /\ ~ RunEnds /\ ~ TimesOut /\ ~ Execution
  <2>1. UNCHANGED periodic_thread /\ pc[P] \notin {"run", "new", "ended"}
    BY <1>10 DEF PeriodicStep, CalcTerminated, CalcGoesOn, CalcIdle, IdleWakes, CalcSleep,
                 LoopLeaves, LoopWaits, Test, CheckRun, Sleep, Awake, At, flags
  <2>2. UNCHANGED pc \/ \E label : Goto(P, label)
    BY <1>10 DEF PeriodicStep, CalcTerminated, CalcGoesOn, CalcIdle, IdleWakes, CalcSleep,
                 LoopLeaves, LoopWaits, Test, CheckRun
  <2> QED
    BY <1>2, <2>1, <2>2 DEF Created
<1>11. CASE Execution
  <2>1. UNCHANGED periodic_thread /\ pc[P] \notin {"run", "new", "ended"}
    BY <1>11 DEF Execution, ExecLock, TaskReactivates, TaskReturns, PassEnds, CountTask,
                 RunTask, TaskInactivates, Visit, At, flags
  <2>2. UNCHANGED pc \/ \E label : Goto(P, label)
    BY <1>11 DEF Execution, ExecLock, TaskReactivates, TaskReturns, PassEnds, CountTask,
                 RunTask, TaskInactivates
  <2> QED
    BY <1>2, <2>1, <2>2 DEF Created
<1>12. CASE Tick \/ SpuriousWakeup \/ TimesOut \/ UNCHANGED vars
  BY <1>12 DEF Tick, SpuriousWakeup, TimesOut, vars, flags, Created
<1>13. CASE \E k \in Tasks : Owner(k)
  <2>1. UNCHANGED periodic_thread
    BY <1>13 DEF Owner, Activate, Inactivate, Destroy, flags
  <2>2. \E k \in Tasks : \E label : Goto(k, label)
    BY <1>13 DEF Owner, Activate, Inactivate, Destroy
  <2> QED
    BY <1>4, <2>1, <2>2 DEF Created
<1> QED
  BY <1>5, <1>6, <1>7, <1>8, <1>9, <1>10, <1>11, <1>12, <1>13
  DEF Next, MainStep, PeriodicStep

LEMMA FailuresStep ==
    ASSUME TypeOK, Table, Created, FailsOnlyAtLimits, [Next]_vars
    PROVE  FailsOnlyAtLimits'
<1>0. CASE vm_error # NoError
  <2>1. UNCHANGED vars
    BY <1>0, Stopped
  <2> QED
    BY <2>1 DEF vars, Active, FailsOnlyAtLimits
<1> SUFFICES ASSUME vm_error = NoError PROVE FailsOnlyAtLimits'
  BY <1>0
<1>1. vm_error' = vm_error => FailsOnlyAtLimits'
  BY NoErrorAssumption DEF FailsOnlyAtLimits, Failures
<1>2. vm_error' = "PeriodicThread.cpp:19" => FailsOnlyAtLimits'
  BY DEF FailsOnlyAtLimits
<1>3. ASSUME NEW k \in Tasks, Enter(k), ~ InTable(k), pc'[k] = "active",
             \A j \in Tasks : pc[j] = "active" => pc'[j] = "active"
      PROVE  FailsOnlyAtLimits'
  <2>1. CASE Len(tasks) < MaxTaskNum
    <3>1. vm_error' = vm_error
      BY <1>3, <2>1, Zenon DEF Enter
    <3> QED
      BY <1>1, <3>1
  <2>2. CASE ~ (Len(tasks) < MaxTaskNum)
    <3>1. vm_error' = "Overflow in PeriodicTask table"
      BY <1>3, <2>2, Zenon DEF Enter
    <3>2. Active' \in SUBSET Tasks /\ k \in Active'
      BY <1>3 DEF Active
    <3>3. \A j \in Tasks : InTable(j) => j \in Active'
      BY <1>3 DEF Active, Table
    <3>4. Cardinality(Active') > MaxTaskNum
      <4> DEFINE A == Active'
      <4> HIDE DEF A
      <4>1. A \in SUBSET Tasks /\ k \in A /\ \A j \in Tasks : InTable(j) => j \in A
        BY <3>2, <3>3 DEF A
      <4>2. Cardinality(A) > MaxTaskNum
        BY <1>3, <2>2, <4>1, MoreThanPlaces DEF Table
      <4> QED
        BY <4>2 DEF A
    <3> QED
      BY <3>1, <3>4 DEF FailsOnlyAtLimits
  <2> QED
    BY <2>1, <2>2
<1>4. CASE CreateLock
  BY <1>1, <1>2, <1>4 DEF CreateLock
<1>5. CASE RunAssert
  <2>1. pc[P] = "run" /\ Goto(P, "calc")
    BY <1>5 DEF RunAssert, At
  <2>2. pc'[Main] = pc[Main]
    BY <2>1, PeriodicAssumption DEF Goto, TypeOK, Threads
  <2>3. periodic_thread \/ pc'[Main] = "create_store"
    BY <2>1, <2>2 DEF Created
  <2>4. vm_error' = IF periodic_thread THEN NoError ELSE "PeriodicThread.cpp:36"
    BY <1>5 DEF RunAssert
  <2>5. CASE periodic_thread
    BY <1>1, <2>4, <2>5
  <2>6. CASE ~ periodic_thread
    BY <2>3, <2>4, <2>6 DEF FailsOnlyAtLimits
  <2> QED
    BY <2>5, <2>6
<1>6. CASE \E k \in Tasks : Activate(k)
  <2>1. PICK k \in Tasks : Enter(k) /\ pc[k] = "inactive" /\ Goto(k, "active")
    BY <1>6 DEF Activate, At
  <2>2. ~ InTable(k)
    BY <2>1 DEF Table
  <2>3. /\ pc'[k] = "active"
        /\ \A j \in Tasks : pc[j] = "active" => pc'[j] = "active"
    BY <2>1 DEF Goto, TypeOK, Threads
  <2> QED
    BY <1>3, <2>1, <2>2, <2>3
<1>7. CASE TaskReactivates
  <2>1. /\ pc[P] = "task" /\ Enter(pass.task) /\ ~ InTable(pass.task) /\ UNCHANGED pc
    BY <1>7 DEF TaskReactivates, At
  <2>2. pass.task \in Tasks /\ pc[pass.task] = "active"
    BY <2>1 DEF Table
  <2> QED
    BY <1>3, <2>1, <2>2
<1>8. CASE MainStep /\ ~ CreateLock
  BY <1>1, <1>8 DEF MainStep, CreateThread, CreateFails, CreateStore, Start, StopStore,
                    StopNotify
<1>9. CASE PeriodicStep /\ ~ RunAssert /\ ~ Execution
  BY <1>1, <1>9 DEF PeriodicStep, CalcTerminated, CalcGoesOn, CalcIdle, IdleWakes, CalcSleep,
                    LoopLeaves, LoopWaits, Test, CheckRun, RunEnds, TimesOut, Sleep, Awake
<1>10. CASE Execution /\ ~ TaskReactivates
  BY <1>1, <1>10 DEF Execution, ExecLock, TaskReturns, PassEnds, CountTask, RunTask,
                     TaskInactivates
<1>11. CASE \E k \in Tasks : Inactivate(k) \/ Destroy(k)
  BY <1>1, <1>11 DEF Inactivate, Destroy
<1>12. CASE Tick \/ SpuriousWakeup \/ UNCHANGED vars
  BY <1>1, <1>12 DEF Tick, SpuriousWakeup, vars
<1> QED
  BY <1>4, <1>5, <1>6, <1>7, <1>8, <1>9, <1>10, <1>11, <1>12 DEF Next, PeriodicStep, Owner

-----------------------------------------------------------------------------
(* The theorems.                                                           *)

Inductive == TypeOK /\ Control /\ Table /\ CountInRange

(* The parts belong together: the type of a sleep interval needs the       *)
(* counters, the table needs to know who is inside, and so on.             *)
LEMMA InductiveInvariant == Spec => []Inductive
<1>1. Init => Inductive
  BY TypeInit, ControlInit, TableInit, CountInit DEF Inductive
<1>2. Inductive /\ [Next]_vars => Inductive'
  BY TypeStep, ControlStep, TableStep, CountStep DEF Inductive
<1> QED
  BY <1>1, <1>2, PTL DEF Spec

(* The fields keep their types (PeriodicThread.hpp, PeriodicTask.hpp).     *)
THEOREM PeriodicTypeCorrect == Spec => []TypeOK
<1>1. Inductive => TypeOK
  BY DEF Inductive
<1> QED
  BY <1>1, InductiveInvariant, PTL

(* The counter of every task stays below its interval, so that no task is  *)
(* ever due in 0 units, which wait() would take for no time limit.         *)
THEOREM CounterBelowInterval == Spec => []CountInRange
<1>1. Inductive => CountInRange
  BY DEF Inductive
<1> QED
  BY <1>1, InductiveInvariant, PTL

(* The table holds each task once and check_and_execute reads only places  *)
(* that hold one, whatever the running tasks take out and put in.          *)
THEOREM WalkStaysInTable == Spec => []TableSound
<1>1. Inductive => TableSound
  BY DEF Inductive, Table
<1> QED
  BY <1>1, InductiveInvariant, PTL

(* A task whose owner has destroyed it is neither in the table nor running.*)
THEOREM NoTaskDangles == Spec => []NoDanglingTask
<1>1. Inductive => NoDanglingTask
  <2> SUFFICES ASSUME Inductive, NEW k \in Tasks, pc[k] = "destroyed"
               PROVE  ~ InTable(k) /\ pass.task # k
    BY DEF NoDanglingTask
  <2>1. NoTask # k /\ pc[k] # "active"
    BY PeriodicAssumption
  <2> QED
    BY <2>1 DEF Inductive, Table
<1> QED
  BY <1>1, InductiveInvariant, PTL

(* The assertion of run fails at most while create() has not yet stored the*)
(* thread, and the table overflows only when more tasks are active than it *)
(* has places.                                                             *)
THEOREM PeriodicFailures == Spec => []FailsOnlyAtLimits
<1> DEFINE Inv == Inductive /\ Created /\ FailsOnlyAtLimits
<1>1. Init => Inv
  <2>1. Init => FailsOnlyAtLimits
    BY PeriodicAssumption, NoErrorAssumption DEF Init, FailsOnlyAtLimits, Failures
  <2> QED
    BY <2>1, TypeInit, ControlInit, TableInit, CountInit, CreatedInit DEF Inductive
<1>2. Inv /\ [Next]_vars => Inv'
  BY TypeStep, ControlStep, TableStep, CountStep, CreatedStep, FailuresStep DEF Inductive
<1> QED
  BY <1>1, <1>2, PTL DEF Spec

-----------------------------------------------------------------------------
(* Walk: while tasks take out nobody but themselves, the index stands      *)
(* behind the tasks the pass has seen and before those it has not; at a    *)
(* running task the count of the start tells whether it is still there.    *)
WalkInside ==
    /\ ~ walk.again
    /\ pass.i <= Len(tasks)
    /\ \A n \in 1..pass.i : tasks[n] \in walk.seen
    /\ \A n \in 1..Len(tasks) :
          n > pass.i /\ tasks[n] # pass.task => tasks[n] \notin walk.seen
    /\ pc[P] = "exec" => pass.origin = Len(tasks)
    /\ pc[P] = "task" =>
          /\ pass.task \in walk.seen
          /\ InTable(pass.task) => /\ pass.origin = Len(tasks) /\ pass.i < Len(tasks)
                                   /\ tasks[pass.i + 1] = pass.task
          /\ ~ InTable(pass.task) => pass.origin = Len(tasks) + 1

Walk ==
    /\ pc[P] \notin {"exec", "task"} => walk.seen = {} /\ ~ walk.again
    /\ self_only /\ pc[P] \in {"exec", "task"} => WalkInside

(* Where the tasks are once one has been taken out.                        *)
LEMMA TakenOutPlaces ==
    ASSUME TypeOK, TableSound, NEW p \in 1..Len(tasks), tasks' = TakenOut(tasks[p])
    PROVE  /\ Len(tasks') = Len(tasks) - 1
           /\ \A n \in 1..(Len(tasks) - 1) :
                 tasks'[n] = IF n < p THEN tasks[n] ELSE tasks[n + 1]
<1>1. tasks[p] \in Tasks /\ InTable(tasks[p]) /\ Len(tasks) \in Nat
  BY TableSeq DEF InTable
<1>2. Place(tasks[p]) = p
  BY <1>1, PlaceProperties DEF TableSound
<1>3. Len(tasks') = Len(tasks) - 1
  BY <1>1, TakenOutProperties
<1> QED
  BY <1>1, <1>2, <1>3 DEF TakenOut

LEMMA WalkInit == Init => Walk
BY PeriodicAssumption DEF Init, Threads, Walk, EmptyWalk

LEMMA PassType ==
    ASSUME TypeOK
    PROVE  pass.i \in Nat /\ pass.origin \in Nat /\ Len(tasks) \in Nat
<1>1. pass \in [origin : Nat, i : Nat, task : Tasks \cup {NoTask}]
  BY DEF TypeOK
<1> QED
  BY <1>1, TableSeq

(* Steps outside of check_and_execute.                                     *)
LEMMA WalkOutside ==
    ASSUME Walk, UNCHANGED walk, pc[P] \notin {"exec", "task"}, pc'[P] \notin {"exec", "task"}
    PROVE  Walk'
BY DEF Walk

LEMMA WalkKept ==
    ASSUME Walk, UNCHANGED <<walk, pass, tasks, self_only>>, pc'[P] = pc[P]
    PROVE  Walk'
BY DEF Walk, WalkInside, InTable

(* The steps of the walk itself.                                           *)
LEMMA WalkVisit ==
    ASSUME TypeOK, Table, Walk, self_only, NEW k \in Tasks, Visit(k)
    PROVE  /\ WalkInside /\ pc[P] = "exec" /\ pass.i + 1 \in 1..Len(tasks)
           /\ k = tasks[pass.i + 1] /\ k \notin walk.seen /\ pass.origin = Len(tasks)
           /\ walk'.seen = walk.seen \cup {k} /\ ~ walk'.again
           /\ pass.task = NoTask /\ pass.i \in Nat /\ Len(tasks) \in Nat
           /\ \A n \in 1..Len(tasks) : tasks[n] = k => n = pass.i + 1
<1>1. /\ WalkInside /\ pc[P] = "exec" /\ pass.task = NoTask /\ pass.origin = Len(tasks)
      /\ k = tasks[pass.i + 1] /\ pass.i < pass.origin
  BY DEF Visit, At, Walk, WalkInside, Table
<1>2. pass.i \in Nat /\ Len(tasks) \in Nat /\ pass.i + 1 \in 1..Len(tasks)
  BY <1>1, PassType
<1>3. k # NoTask
  BY PeriodicAssumption
<1>4. k \notin walk.seen
  BY <1>1, <1>2, <1>3 DEF WalkInside
<1>5. walk'.seen = walk.seen \cup {k} /\ ~ walk'.again
  BY <1>1, <1>4 DEF Visit, TypeOK, WalkInside
<1>6. \A n \in 1..Len(tasks) : tasks[n] = k => n = pass.i + 1
  BY <1>1, <1>2 DEF Table, TableSound
<1> QED
  BY <1>1, <1>2, <1>4, <1>5, <1>6

LEMMA WalkCount ==
    ASSUME TypeOK, Table, Walk, self_only, NEW k \in Tasks, CountTask(k)
    PROVE  WalkInside'
<1>1. Visit(k) /\ UNCHANGED <<tasks, pc>> /\ pass' = Advanced(pass)
  BY DEF CountTask
<1>2. pass' = Pass(pass.origin, pass.i + 1, NoTask)
  BY <1>1, WalkVisit DEF Advanced
<1> QED
  BY <1>1, <1>2, WalkVisit DEF WalkInside, Pass

LEMMA WalkRun ==
    ASSUME TypeOK, Table, Walk, self_only, NEW k \in Tasks, RunTask(k)
    PROVE  WalkInside'
<1>1. /\ Visit(k) /\ UNCHANGED tasks /\ pass' = [pass EXCEPT !.task = k]
      /\ pc'[P] = "task"
  BY DEF RunTask, Goto, TypeOK, Threads
<1>2. pass'.i = pass.i /\ pass'.origin = pass.origin /\ pass'.task = k
  BY <1>1 DEF TypeOK
<1>3. InTable(pass.task)'
  BY <1>1, <1>2, WalkVisit DEF InTable
<1>4. \A n \in 1..Len(tasks) : n > pass.i /\ tasks[n] # k => tasks[n] \notin walk'.seen
  <2>1. /\ walk'.seen = walk.seen \cup {k} /\ pass.task = NoTask
        /\ \A n \in 1..Len(tasks) : n > pass.i /\ tasks[n] # NoTask => tasks[n] \notin walk.seen
    BY <1>1, WalkVisit DEF WalkInside
  <2>2. \A n \in 1..Len(tasks) : tasks[n] # NoTask
    BY TableSeq, PeriodicAssumption
  <2> QED
    BY <2>1, <2>2
<1>5. \A n \in 1..pass.i : tasks[n] \in walk'.seen
  BY <1>1, WalkVisit DEF WalkInside
<1>6. /\ k \in walk'.seen /\ ~ walk'.again /\ pass.i < Len(tasks) /\ pass.i <= Len(tasks)
      /\ tasks[pass.i + 1] = k /\ pass.origin = Len(tasks)
  BY <1>1, WalkVisit
<1> QED
  BY <1>1, <1>2, <1>3, <1>4, <1>5, <1>6 DEF WalkInside

LEMMA WalkInactivate ==
    ASSUME TypeOK, Table, Walk, NEW k \in Tasks, TaskInactivates(k), self_only'
    PROVE  WalkInside'
<1>1. /\ self_only /\ k = pass.task /\ pc[P] = "task" /\ InTable(k) /\ tasks' = TakenOut(k)
      /\ UNCHANGED <<pc, pass, walk>>
  BY DEF TaskInactivates, At, Remove
<1>2. WalkInside
  BY <1>1 DEF Walk
<1>3. /\ pass.origin = Len(tasks) /\ pass.i + 1 \in 1..Len(tasks) /\ tasks[pass.i + 1] = k
      /\ pass.i \in Nat /\ Len(tasks) \in Nat
  BY <1>1, <1>2, PassType DEF WalkInside
<1>4. TableSound
  BY DEF Table
<1>5. /\ Len(tasks') = Len(tasks) - 1
      /\ \A n \in 1..(Len(tasks) - 1) :
            tasks'[n] = IF n < pass.i + 1 THEN tasks[n] ELSE tasks[n + 1]
  BY <1>1, <1>3, <1>4, TakenOutPlaces
<1>6. ~ InTable(k)'
  BY <1>1, <1>4, TakenOutProperties
<1>7. \A n \in 1..Len(tasks') : n > pass.i => tasks'[n] \notin walk.seen
  <2> SUFFICES ASSUME NEW n \in 1..Len(tasks'), n > pass.i
               PROVE  tasks'[n] \notin walk.seen
    OBVIOUS
  <2>1. n + 1 \in 1..Len(tasks) /\ n + 1 > pass.i + 1 /\ tasks'[n] = tasks[n + 1]
    BY <1>3, <1>5
  <2>2. tasks[n + 1] # k
    BY <1>3, <1>4, <2>1 DEF TableSound
  <2> QED
    BY <1>1, <1>2, <1>3, <2>1, <2>2 DEF WalkInside
<1>8. \A n \in 1..pass.i : tasks'[n] \in walk.seen
  BY <1>2, <1>3, <1>5 DEF WalkInside
<1> QED
  BY <1>1, <1>2, <1>3, <1>5, <1>6, <1>7, <1>8 DEF WalkInside

LEMMA WalkReturns ==
    ASSUME TypeOK, Table, Walk, self_only, TaskReturns
    PROVE  WalkInside'
<1>1. /\ pc[P] = "task" /\ pc'[P] = "exec" /\ UNCHANGED <<tasks, walk>>
      /\ pass' = Advanced(pass)
  BY DEF TaskReturns, At, Goto, TypeOK, Threads, table, history
<1>2. /\ WalkInside /\ pass.i \in Nat /\ Len(tasks) \in Nat
      /\ \A m, n \in 1..Len(tasks) : tasks[m] = tasks[n] => m = n
      /\ \A n \in 1..Len(tasks) : tasks[n] \in Tasks
  BY <1>1, TableSeq DEF Walk, TypeOK, Table, TableSound
<1>3. CASE InTable(pass.task)
  <2>1. /\ pass' = Pass(Len(tasks), pass.i + 1, NoTask) /\ pass.i + 1 \in 1..Len(tasks)
        /\ tasks[pass.i + 1] = pass.task /\ pass.task \in walk.seen
    BY <1>1, <1>2, <1>3 DEF WalkInside, Advanced
  <2>2. \A n \in 1..(pass.i + 1) : tasks[n] \in walk.seen
    BY <1>2, <2>1 DEF WalkInside
  <2>3. \A n \in 1..Len(tasks) : n > pass.i + 1 => tasks[n] \notin walk.seen
    BY <1>2, <2>1 DEF WalkInside
  <2> QED
    BY <1>1, <1>2, <2>1, <2>2, <2>3 DEF WalkInside, Pass
<1>4. CASE ~ InTable(pass.task)
  <2>1. pass' = Pass(Len(tasks), pass.i, NoTask)
    BY <1>1, <1>2, <1>4 DEF WalkInside, Advanced
  <2>2. \A n \in 1..Len(tasks) : tasks[n] # pass.task
    BY <1>4 DEF InTable
  <2> QED
    BY <1>1, <1>2, <2>1, <2>2 DEF WalkInside, Pass
<1> QED
  BY <1>3, <1>4

LEMMA WalkStep ==
    ASSUME TypeOK, Control, Table, Walk, [Next]_vars
    PROVE  Walk'
<1> USE PeriodicAssumption
<1>1. P \in Threads /\ Main \in Threads /\ Tasks \subseteq Threads
  BY DEF Threads
<1>2. /\ \A label : Goto(P, label) => pc'[P] = label
      /\ \A t \in Threads \ {P} : \A label : Goto(t, label) => pc'[P] = pc[P]
  BY <1>1 DEF Goto, TypeOK
<1>3. CASE MainStep
  <2>1. UNCHANGED <<walk, pass, tasks, self_only>>
    BY <1>3 DEF MainStep, CreateLock, CreateThread, CreateFails, CreateStore, Start, StopStore,
                StopNotify, table, history
  <2>2. CASE CreateThread
    <3>1. pc'[P] = "run"
      BY <1>1, <2>2 DEF CreateThread, TypeOK
    <3>2. pc[P] \notin {"exec", "task"}
      BY <1>1, <2>2 DEF CreateThread, At, Control, InsideAt
    <3> QED
      BY <2>1, <3>1, <3>2, WalkOutside
  <2>3. CASE ~ CreateThread
    <3>1. \E label : Goto(Main, label)
      BY <1>3, <2>3 DEF MainStep, CreateLock, CreateFails, CreateStore, Start, StopStore,
                        StopNotify
    <3> QED
      BY <1>1, <1>2, <2>1, <3>1, WalkKept
  <2> QED
    BY <2>2, <2>3
<1>4. CASE PeriodicStep /\ ~ Execution
  <2>1. UNCHANGED <<walk, pass, tasks, self_only>>
    BY <1>4 DEF PeriodicStep, RunAssert, CalcTerminated, CalcGoesOn, CalcIdle, IdleWakes,
                CalcSleep, LoopLeaves, LoopWaits, Test, CheckRun, RunEnds, TimesOut,
                Sleep, Awake, table, history
  <2>2. \/ UNCHANGED pc
        \/ /\ pc[P] \notin {"exec", "task"}
           /\ \E label : Goto(P, label) /\ label \notin {"exec", "task"}
    BY <1>4 DEF PeriodicStep, RunAssert, CalcTerminated, CalcGoesOn, CalcIdle, IdleWakes,
                CalcSleep, LoopLeaves, LoopWaits, Test, CheckRun, RunEnds, TimesOut, At
  <2> QED
    BY <1>2, <2>1, <2>2, WalkOutside, WalkKept
<1>5. CASE Tick \/ SpuriousWakeup \/ UNCHANGED vars
  <2>1. UNCHANGED <<walk, pass, tasks, self_only, pc>>
    BY <1>5 DEF Tick, SpuriousWakeup, vars, table, history
  <2> QED
    BY <2>1, WalkKept
<1>6. CASE \E k \in Tasks : Owner(k)
  <2> PICK k \in Tasks : Owner(k)
    BY <1>6
  <2>1. CanLock(monitor, k) /\ UNCHANGED walk /\ \E label : Goto(k, label)
    BY DEF Owner, Activate, Inactivate, Destroy, InactivateCall, history
  <2>2. pc[P] \notin {"exec", "task"} /\ pc'[P] = pc[P]
    BY <1>1, <1>2, <2>1, OwnerOutside
  <2> QED
    BY <2>1, <2>2, WalkOutside
<1>7. CASE ExecLock
  <2>1. /\ pc'[P] = "exec" /\ UNCHANGED tasks /\ pass' = Pass(Len(tasks), 0, NoTask)
        /\ walk'.seen = {} /\ ~ walk'.again
    BY <1>2, <1>7 DEF ExecLock, table, EmptyWalk
  <2> QED
    BY <2>1, TableSeq DEF Walk, WalkInside, Pass
<1>8. ASSUME NEW k \in Tasks, CountTask(k) \/ RunTask(k)
      PROVE  Walk'
  <2>1. UNCHANGED self_only /\ pc'[P] \in {"exec", "task"}
    BY <1>2, <1>8 DEF CountTask, RunTask, Visit, At
  <2> QED
    BY <1>8, <2>1, WalkCount, WalkRun DEF Walk
<1>9. ASSUME NEW k \in Tasks, TaskInactivates(k)
      PROVE  Walk'
  <2>1. pc'[P] = "task"
    BY <1>9 DEF TaskInactivates, At
  <2> QED
    BY <1>9, <2>1, WalkInactivate DEF Walk
<1>10. CASE TaskReactivates
  <2>1. ~ self_only' /\ pc'[P] = "task"
    BY <1>10 DEF TaskReactivates, At
  <2> QED
    BY <2>1 DEF Walk
<1>11. CASE TaskReturns
  <2>1. UNCHANGED self_only /\ pc'[P] = "exec"
    BY <1>2, <1>11 DEF TaskReturns, history
  <2> QED
    BY <1>11, <2>1, WalkReturns DEF Walk
<1>12. CASE PassEnds
  <2>1. pc'[P] = "run" /\ walk' = EmptyWalk
    BY <1>2, <1>12 DEF PassEnds
  <2> QED
    BY <2>1 DEF Walk, EmptyWalk
<1> QED
  BY <1>3, <1>4, <1>5, <1>6, <1>7, <1>8, <1>9, <1>10, <1>11, <1>12 DEF Next, Execution

-----------------------------------------------------------------------------
(* Timing: the time the thread has credited to a task, or is about to      *)
(* credit to it, and the time that is left to its next execution make at   *)
(* most its interval.  The division by UNIT and the wrapping of elapsed    *)
(* lose time, they never invent it.                                        *)
Credit(k) == current_count[k] + IF k \in walk.seen THEN 0 ELSE delay_interval

Settled(k) == Credit(k) * UNIT + elapsed + due[k] <= Interval[k] * UNIT

Timing ==
    /\ pc[P] # "loop_wait" => elapsed = 0
    /\ pc[P] \in {"new", "run", "calc", "calc_lock", "idle_wait", "loop_wait"}
         => delay_interval = 0
    /\ self_only => \A k \in Tasks : due[k] = 0 \/ Settled(k)

LEMMA Monotone ==
    ASSUME NEW a \in Nat, NEW b \in Nat, NEW u \in Nat, a <= b
    PROVE  a * u \in Nat /\ b * u \in Nat /\ a * u <= b * u
<1>1. PICK d \in Nat : b = a + d
  BY b - a \in Nat
<1>2. b * u = a * u + d * u /\ a * u \in Nat /\ d * u \in Nat
  BY <1>1
<1> QED
  BY <1>2

LEMMA Distributed ==
    ASSUME NEW a \in Nat, NEW b \in Nat, NEW u \in Nat
    PROVE  /\ (a + b) * u = a * u + b * u
           /\ a * u \in Nat /\ b * u \in Nat /\ (a + b) * u \in Nat
OBVIOUS

LEMMA DivisionLosesTime ==
    ASSUME NEW n \in Nat, NEW u \in Nat \ {0}
    PROVE  (n \div u) * u <= n
OBVIOUS

LEMMA RemainderLosesTime ==
    ASSUME NEW w \in Nat \ {0}, NEW n \in 0..w
    PROVE  n % w <= n
OBVIOUS

LEMMA CreditType ==
    ASSUME TypeOK, NEW k \in Tasks
    PROVE  /\ Credit(k) \in Nat /\ due[k] \in Nat /\ Interval[k] \in Nat /\ UNIT \in Nat
           /\ elapsed \in Nat /\ delay_interval \in Nat /\ current_count[k] \in Nat
BY PeriodicAssumption DEF TypeOK, Credit

CreditTypes ==
    \A k \in Tasks : /\ Credit(k) \in Nat /\ due[k] \in Nat
                     /\ elapsed \in Nat /\ delay_interval \in Nat

LEMMA CreditTypesNext == TypeOK' => CreditTypes'
<1>1. TypeOK => CreditTypes
  BY CreditType DEF CreditTypes
<1> QED
  BY <1>1, PTL

(* A step that credits nothing more and lets no time go by.                *)
LEMMA StaysSettled ==
    ASSUME TypeOK, TypeOK', NEW k \in Tasks, due[k] = 0 \/ Settled(k),
           Credit(k)' <= Credit(k), due'[k] <= due[k],
           elapsed' + due'[k] <= elapsed + due[k]
    PROVE  due'[k] = 0 \/ Settled(k)'
<1>1. /\ Credit(k)' \in Nat /\ Credit(k) \in Nat /\ UNIT \in Nat /\ Interval[k] \in Nat
      /\ elapsed \in Nat /\ elapsed' \in Nat /\ due[k] \in Nat /\ due'[k] \in Nat
  BY CreditType, CreditTypesNext DEF CreditTypes
<1>2. /\ Credit(k)' * UNIT <= Credit(k) * UNIT
      /\ Credit(k)' * UNIT \in Nat /\ Credit(k) * UNIT \in Nat
  BY <1>1, Monotone
<1>3. Interval[k] * UNIT \in Nat
  BY <1>1
<1>4. CASE due[k] = 0
  BY <1>1, <1>4
<1>5. CASE Settled(k)
  BY <1>1, <1>2, <1>3, <1>5 DEF Settled
<1> QED
  BY <1>4, <1>5

(* Steps that touch nothing Timing speaks of but labels.                   *)
LEMMA TimingKept ==
    ASSUME Timing, UNCHANGED <<current_count, walk, delay_interval, elapsed, due>>,
           self_only' => self_only,
           \/ pc'[P] = pc[P]
           \/ elapsed = 0 /\ delay_interval = 0
           \/ elapsed = 0 /\ pc'[P] \notin {"new", "run", "calc", "calc_lock", "idle_wait",
                                           "loop_wait"}
    PROVE  Timing'
BY DEF Timing, Settled, Credit

(* Steps of the periodic thread between two passes, which end with no time *)
(* credited and none running.                                              *)
LEMMA TimingReset ==
    ASSUME TypeOK, TypeOK', Timing, self_only' => self_only,
           UNCHANGED <<current_count, due>>, elapsed' = 0, delay_interval' = 0
    PROVE  Timing'
<1>1. ASSUME NEW k \in Tasks, due[k] = 0 \/ Settled(k)
      PROVE  due'[k] = 0 \/ Settled(k)'
  <2>1. Credit(k)' <= Credit(k) /\ due'[k] <= due[k] /\ elapsed' + due'[k] <= elapsed + due[k]
    BY CreditType DEF Credit
  <2> QED
    BY <1>1, <2>1, StaysSettled
<1> QED
  BY <1>1 DEF Timing

LEMMA TimingInit == Init => Timing
BY PeriodicAssumption DEF Init, Threads, Timing

(* The end of a sleep: the whole units that have passed.                   *)
LEMMA TimingLeaves ==
    ASSUME TypeOK, TypeOK', Walk, Timing, LoopLeaves
    PROVE  Timing'
<1>1. /\ pc[P] = "loop_wait" /\ pc'[P] = "test" /\ delay_interval' = time_next_interval
      /\ elapsed' = 0 /\ UNCHANGED <<current_count, walk, due, self_only>>
  BY DEF LoopLeaves, Awake, At, Goto, TypeOK, Threads, table, history
<1>2. walk.seen = {} /\ delay_interval = 0
  BY <1>1 DEF Walk, Timing
<1>3. time_next_interval \in Nat /\ time_next_interval * UNIT <= elapsed
  <2>1. elapsed \in Nat /\ UNIT \in Nat \ {0}
    BY PeriodicAssumption DEF TypeOK
  <2> QED
    BY <2>1, DivisionLosesTime, TimeNextIntervalType DEF time_next_interval
<1>4. ASSUME NEW k \in Tasks, due[k] = 0 \/ Settled(k)
      PROVE  due'[k] = 0 \/ Settled(k)'
  <2>1. Credit(k) = current_count[k] /\ Credit(k)' = current_count[k] + time_next_interval
    BY <1>1, <1>2, CreditType DEF Credit
  <2>2. /\ current_count[k] \in Nat /\ UNIT \in Nat /\ elapsed \in Nat /\ due[k] \in Nat
        /\ Interval[k] * UNIT \in Nat
    BY CreditType
  <2>3. /\ (current_count[k] + time_next_interval) * UNIT
             = current_count[k] * UNIT + time_next_interval * UNIT
        /\ current_count[k] * UNIT \in Nat /\ time_next_interval * UNIT \in Nat
    <3> DEFINE c == current_count[k]
               n == time_next_interval
    <3>1. c \in Nat /\ n \in Nat /\ UNIT \in Nat
      BY <1>3, <2>2
    <3> HIDE DEF c, n
    <3>2. (c + n) * UNIT = c * UNIT + n * UNIT /\ c * UNIT \in Nat /\ n * UNIT \in Nat
      BY <3>1, Distributed
    <3> QED
      BY <3>2 DEF c, n
  <2>4. due'[k] = due[k] /\ elapsed' = 0
    BY <1>1
  <2>5. CASE Settled(k)
    <3>1. current_count[k] * UNIT + elapsed + due[k] <= Interval[k] * UNIT
      BY <2>1, <2>5 DEF Settled
    <3>2. Credit(k)' * UNIT + 0 + due[k] <= Interval[k] * UNIT
      BY <1>3, <2>1, <2>2, <2>3, <3>1
    <3> QED
      BY <2>4, <3>2 DEF Settled
  <2> QED
    BY <1>4, <2>4, <2>5
<1> QED
  BY <1>1, <1>4 DEF Timing

(* Time passes.                                                            *)
LEMMA TimingTick ==
    ASSUME TypeOK, TypeOK', Timing, Tick
    PROVE  Timing'
<1>1. /\ UNCHANGED <<pc, current_count, walk, delay_interval, self_only>>
      /\ elapsed' = IF pc[P] = "loop_wait" /\ remains # 0 THEN (elapsed + 1) % Wrap ELSE elapsed
      /\ due' = [k \in Tasks |-> IF due[k] > 0 THEN due[k] - 1 ELSE 0]
  BY DEF Tick, table
<1>2. elapsed' <= elapsed + 1 /\ elapsed \in Nat /\ elapsed' \in Nat
  <2>1. Wrap \in Nat \ {0} /\ elapsed \in 0..(Wrap - 1) /\ elapsed' \in 0..(Wrap - 1)
    BY PeriodicAssumption DEF TypeOK
  <2>2. elapsed + 1 \in 0..Wrap /\ (elapsed + 1) % Wrap <= elapsed + 1
    BY <2>1, RemainderLosesTime
  <2> QED
    BY <1>1, <2>1, <2>2
<1>3. ASSUME NEW k \in Tasks, due[k] = 0 \/ Settled(k)
      PROVE  due'[k] = 0 \/ Settled(k)'
  <2>1. due[k] \in Nat /\ Credit(k)' = Credit(k) /\ Credit(k) \in Nat
    BY <1>1, CreditType DEF Credit
  <2>2. CASE due[k] = 0
    BY <1>1, <2>2
  <2>3. CASE due[k] # 0
    <3>1. due'[k] = due[k] - 1 /\ due'[k] <= due[k] /\ elapsed' + due'[k] <= elapsed + due[k]
      BY <1>1, <1>2, <2>1, <2>3
    <3>2. Credit(k)' <= Credit(k)
      BY <2>1
    <3> QED
      BY <1>3, <3>1, <3>2, StaysSettled
  <2> QED
    BY <2>2, <2>3
<1>4. /\ pc'[P] # "loop_wait" => elapsed' = 0
      /\ pc'[P] \in {"new", "run", "calc", "calc_lock", "idle_wait", "loop_wait"}
           => delay_interval' = 0
  BY <1>1 DEF Timing
<1> QED
  BY <1>1, <1>3, <1>4 DEF Timing

(* A task is counted once in a pass, so that what was about to be credited *)
(* has been; a task that runs starts anew.                                 *)
LEMMA TimingVisit ==
    ASSUME TypeOK, TypeOK', Table, Walk, Timing, NEW k \in Tasks, CountTask(k) \/ RunTask(k)
    PROVE  Timing'
<1>1. /\ Visit(k) /\ pc[P] = "exec" /\ pc'[P] \in {"exec", "task"} /\ elapsed = 0
      /\ UNCHANGED <<elapsed, delay_interval, self_only>>
  BY DEF CountTask, RunTask, Visit, At, Goto, TypeOK, Threads, clock, Timing
<1>2. ASSUME self_only, NEW j \in Tasks, due[j] = 0 \/ Settled(j)
      PROVE  due'[j] = 0 \/ Settled(j)'
  <2>1. k \notin walk.seen /\ walk'.seen = walk.seen \cup {k}
    BY <1>1, <1>2, WalkVisit
  <2>2. CASE j # k
    <3>1. due'[j] = due[j] /\ current_count'[j] = current_count[j]
      BY <2>2 DEF CountTask, RunTask, TypeOK
    <3> QED
      BY <1>1, <1>2, <2>1, <2>2, <3>1 DEF Settled, Credit
  <2>3. CASE j = k /\ CountTask(k)
    <3>1. /\ due'[k] = due[k] /\ current_count'[k] = current_count[k] + delay_interval
          /\ current_count'[k] \in Nat
      BY <2>3, CreditType DEF CountTask, Counted, TypeOK
    <3>2. Credit(k)' = Credit(k)
      BY <1>1, <2>1, <3>1 DEF Credit
    <3> QED
      BY <1>1, <1>2, <2>3, <3>1, <3>2 DEF Settled
  <2>4. CASE j = k /\ RunTask(k)
    <3>1. due'[k] = Interval[k] * UNIT /\ current_count'[k] = 0
      BY <2>4 DEF RunTask, TypeOK
    <3>2. Credit(k)' = 0 /\ elapsed' = 0 /\ Interval[k] \in Nat /\ UNIT \in Nat
      BY <1>1, <2>1, <3>1, CreditType DEF Credit
    <3>3. Interval[k] * UNIT \in Nat /\ 0 * UNIT = 0
      BY <3>2
    <3> QED
      BY <2>4, <3>1, <3>2, <3>3 DEF Settled
  <2> QED
    BY <1>1, <2>2, <2>3, <2>4
<1> QED
  BY <1>1, <1>2 DEF Timing

(* Before create() has made the thread there is none.                      *)
Unborn == pc[Main] \in {"create", "create_thread"} => pc[P] = "new"

LEMMA UnbornInit == Init => Unborn
BY PeriodicAssumption DEF Init, Threads, Unborn

LEMMA UnbornStep ==
    ASSUME TypeOK, Unborn, [Next]_vars
    PROVE  Unborn'
<1> USE PeriodicAssumption
<1>1. P \in Threads /\ Main \in Threads /\ Tasks \subseteq Threads
  BY DEF Threads
<1>2. /\ \A label : Goto(Main, label) => pc'[Main] = label /\ pc'[P] = pc[P]
      /\ \A label : Goto(P, label) => pc'[Main] = pc[Main]
      /\ \A k \in Tasks : \A label : Goto(k, label) => pc'[Main] = pc[Main] /\ pc'[P] = pc[P]
  BY <1>1 DEF Goto, TypeOK
<1>3. CASE MainStep
  BY <1>1, <1>2, <1>3
     DEF MainStep, CreateLock, CreateThread, CreateFails, CreateStore, Start, StopStore,
         StopNotify, At, Unborn, TypeOK
<1>4. CASE PeriodicStep
  <2>1. Execution => UNCHANGED pc \/ (pc[P] # "new" /\ \E label : Goto(P, label))
    BY DEF Execution, ExecLock, TaskReactivates, TaskReturns, PassEnds, CountTask, RunTask,
           TaskInactivates, Visit, At
  <2>2. ~ Execution => UNCHANGED pc \/ (pc[P] # "new" /\ \E label : Goto(P, label))
    BY <1>4
       DEF PeriodicStep, RunAssert, CalcTerminated, CalcGoesOn, CalcIdle, IdleWakes, CalcSleep,
           LoopLeaves, LoopWaits, Test, CheckRun, RunEnds, TimesOut, At
  <2> QED
    BY <1>2, <2>1, <2>2 DEF Unborn
<1>5. CASE \E k \in Tasks : Owner(k)
  <2>1. \E k \in Tasks : \E label : Goto(k, label)
    BY <1>5 DEF Owner, Activate, Inactivate, Destroy
  <2> QED
    BY <1>2, <2>1 DEF Unborn
<1>6. CASE Tick \/ SpuriousWakeup \/ UNCHANGED vars
  BY <1>6 DEF Tick, SpuriousWakeup, vars, Unborn
<1> QED
  BY <1>3, <1>4, <1>5, <1>6 DEF Next

LEMMA TimingStep ==
    ASSUME TypeOK, TypeOK', Control, Unborn, Table, Walk, Timing, [Next]_vars
    PROVE  Timing'
<1> USE PeriodicAssumption
<1>1. P \in Threads /\ Main \in Threads /\ Tasks \subseteq Threads
  BY DEF Threads
<1>2. /\ \A label : Goto(P, label) => pc'[P] = label
      /\ \A t \in Threads \ {P} : \A label : Goto(t, label) => pc'[P] = pc[P]
  BY <1>1 DEF Goto, TypeOK
<1>3. CASE MainStep
  <2>1. UNCHANGED <<current_count, walk, delay_interval, elapsed, due, self_only>>
    BY <1>3 DEF MainStep, CreateLock, CreateThread, CreateFails, CreateStore, Start, StopStore,
                StopNotify, table, history, clock
  <2>2. CASE CreateThread
    <3>1. pc[P] = "new" /\ pc'[P] = "run"
      BY <1>1, <2>2 DEF CreateThread, TypeOK, At, Unborn
    <3> QED
      BY <2>1, <3>1, TimingKept DEF Timing
  <2>3. CASE ~ CreateThread
    <3>1. \E label : Goto(Main, label)
      BY <1>3, <2>3 DEF MainStep, CreateLock, CreateFails, CreateStore, Start, StopStore,
                        StopNotify
    <3> QED
      BY <1>1, <1>2, <2>1, <3>1, TimingKept
  <2> QED
    BY <2>2, <2>3
<1>4. CASE IdleWakes \/ CalcTerminated
  <2>1. /\ UNCHANGED <<current_count, due, self_only>> /\ elapsed' = 0 /\ delay_interval' = 0
    BY <1>4 DEF IdleWakes, CalcTerminated, Awake, At, Timing, table, clock, history
  <2> QED
    BY <2>1, TimingReset
<1>5. CASE CheckRun
  <2>1. /\ pc[P] = "check_run" /\ elapsed = 0
        /\ UNCHANGED <<current_count, walk, elapsed, due, self_only>>
        /\ \/ pc'[P] = "exec_lock" /\ UNCHANGED delay_interval
           \/ delay_interval' = 0
    BY <1>2, <1>5 DEF CheckRun, At, Timing, table, clock, history
  <2> QED
    BY <2>1, TimingKept, TimingReset
<1>6. CASE CalcSleep
  <2>1. /\ pc[P] = "calc_lock" /\ elapsed' = 0
        /\ UNCHANGED <<current_count, due, self_only, delay_interval>>
    BY <1>6 DEF CalcSleep, Sleep, At, table, history
  <2>2. delay_interval' = 0
    BY <2>1 DEF Timing
  <2> QED
    BY <2>1, <2>2, TimingReset
<1>7. CASE RunAssert \/ CalcGoesOn \/ CalcIdle \/ LoopWaits \/ Test \/ RunEnds \/ TimesOut
  <2>1. UNCHANGED <<current_count, walk, delay_interval, elapsed, due, self_only>>
    BY <1>7 DEF RunAssert, CalcGoesOn, CalcIdle, LoopWaits, Test, RunEnds, TimesOut, Sleep,
                table, clock, history
  <2>2. CASE LoopWaits \/ TimesOut
    <3>1. UNCHANGED pc
      BY <2>2 DEF LoopWaits, TimesOut
    <3> QED
      BY <2>1, <3>1, TimingKept
  <2>3. CASE RunAssert \/ CalcGoesOn \/ CalcIdle
    <3>1. pc[P] \in {"run", "calc", "calc_lock"}
      BY <2>3 DEF RunAssert, CalcGoesOn, CalcIdle, At
    <3>2. elapsed = 0 /\ delay_interval = 0
      BY <3>1, Zenon DEF Timing
    <3> QED
      BY <2>1, <3>2, TimingKept
  <2>4. CASE Test \/ RunEnds
    <3>1. pc[P] \in {"test", "end"} /\ pc'[P] \in {"end", "check_run", "ended"}
      BY <1>2, <2>4 DEF Test, RunEnds, At
    <3> QED
      BY <2>1, <3>1, TimingKept DEF Timing
  <2> QED
    BY <1>7, <2>2, <2>3, <2>4
<1>8. CASE SpuriousWakeup \/ UNCHANGED vars
  <2>1. UNCHANGED <<current_count, walk, delay_interval, elapsed, due, self_only, pc>>
    BY <1>8 DEF SpuriousWakeup, vars, table, clock, history
  <2> QED
    BY <2>1, TimingKept
<1>9. CASE \E k \in Tasks : Owner(k)
  <2> PICK k \in Tasks : Owner(k)
    BY <1>9
  <2>1. /\ UNCHANGED <<current_count, walk, delay_interval, elapsed, self_only>>
        /\ due' = due \/ due' = [due EXCEPT ![k] = 0]
        /\ \E label : Goto(k, label)
    BY DEF Owner, Activate, Inactivate, Destroy, Enter, clock, history
  <2>2. pc'[P] = pc[P] /\ \A j \in Tasks : due'[j] = due[j] \/ due'[j] = 0
    BY <1>1, <1>2, <2>1 DEF TypeOK
  <2> QED
    BY <2>1, <2>2 DEF Timing, Settled, Credit
<1>10. CASE ExecLock
  <2>1. /\ pc[P] = "exec_lock" /\ pc'[P] = "exec" /\ walk'.seen = {}
        /\ UNCHANGED <<current_count, delay_interval, elapsed, due, self_only>>
    BY <1>2, <1>10 DEF ExecLock, At, EmptyWalk, table, clock
  <2>2. walk.seen = {}
    BY <2>1 DEF Walk
  <2> QED
    BY <2>1, <2>2 DEF Timing, Settled, Credit
<1>11. CASE (\E k \in Tasks : TaskInactivates(k)) \/ TaskReturns
  <2>1. /\ UNCHANGED <<current_count, walk, delay_interval, elapsed, due>>
        /\ pc[P] = "task" /\ pc'[P] \in {"exec", "task"}
    BY <1>2, <1>11 DEF TaskInactivates, TaskReturns, At, table, clock, history
  <2>2. self_only' => self_only
    BY <1>11 DEF TaskInactivates, TaskReturns, history
  <2> QED
    BY <2>1, <2>2, TimingKept DEF Timing
<1>12. CASE TaskReactivates
  <2>1. /\ ~ self_only' /\ pc[P] = "task" /\ pc'[P] = "task" /\ UNCHANGED elapsed
    BY <1>12 DEF TaskReactivates, At, clock
  <2> QED
    BY <2>1 DEF Timing
<1>13. CASE PassEnds
  <2>1. /\ pc[P] = "exec" /\ delay_interval' = 0 /\ UNCHANGED <<current_count, elapsed, due, self_only>>
    BY <1>13 DEF PassEnds, At, table, clock
  <2>2. elapsed' = 0
    BY <2>1 DEF Timing
  <2> QED
    BY <2>1, <2>2, TimingReset
<1> QED
  BY <1>3, <1>4, <1>5, <1>6, <1>7, <1>8, <1>9, <1>10, <1>11, <1>12, <1>13,
     TimingLeaves, TimingTick, TimingVisit DEF Next, PeriodicStep, Execution

-----------------------------------------------------------------------------
(* Idle: the time of the next task is never 0 while there is one, and who  *)
(* fills an empty table wakes the thread that sleeps on it.                *)
LEMMA MinTaskIntervalPositive ==
    ASSUME TypeOK, CountInRange, tasks # <<>>
    PROVE  min_task_interval # 0
<1> DEFINE S == { NextInterval(tasks[n]) : n \in 1..Len(tasks) }
<1>1. \A k \in Tasks : NextInterval(k) \in Nat /\ NextInterval(k) # 0
  BY PeriodicAssumption DEF TypeOK, CountInRange, NextInterval
<1>2. S \subseteq Nat /\ 0 \notin S
  BY <1>1, TableSeq
<1>3. Len(tasks) > 0
  BY EmptySeq, TableSeq DEF TypeOK
<1>4. S # {}
  BY <1>3, TableSeq
<1>5. Min(S) \in S
  BY <1>2, <1>4, MinInSet
<1> QED
  BY <1>2, <1>5 DEF min_task_interval

LEMMA IdleStep ==
    ASSUME TypeOK, Control, CountInRange, SleepsForEverOnlyIdle, [Next]_vars
    PROVE  SleepsForEverOnlyIdle'
<1> USE PeriodicAssumption
<1>1. P \in Threads /\ Main \in Threads /\ Tasks \subseteq Threads /\ monitor.waiters \subseteq {P}
  BY DEF Threads, Control, Fine
<1>2. /\ \A label : Goto(P, label) => pc'[P] = label
      /\ \A t \in Threads \ {P} : \A label : Goto(t, label) => pc'[P] = pc[P]
  BY <1>1 DEF Goto, TypeOK
<1>3. CASE UNCHANGED <<tasks, remains>> /\ pc'[P] = pc[P] /\ (Asleep' => Asleep)
  BY <1>3 DEF SleepsForEverOnlyIdle
<1>4. CASE pc'[P] # "loop_wait" \/ ~ Asleep'
  BY <1>4 DEF SleepsForEverOnlyIdle
<1>5. monitor \in MonitorType(Threads)
  BY DEF TypeOK
<1>6. ASSUME NEW t \in Threads
      PROVE  /\ \A m \in Notify(monitor) : /\ P \notin m.waiters /\ m \in MonitorType(Threads)
                                           /\ Unlock(m, t).waiters = m.waiters
             /\ Lock(monitor, t).waiters = monitor.waiters
             /\ Unlock(monitor, t).waiters = monitor.waiters
             /\ SpuriousWake(monitor, t).waiters \subseteq monitor.waiters
  BY <1>1, <1>5 DEF Notify, Unlock, Lock, SpuriousWake, MonitorType
<1>7. CASE MainStep
  <2>1. UNCHANGED <<tasks, remains>>
    BY <1>7 DEF MainStep, CreateLock, CreateThread, CreateFails, CreateStore, Start, StopStore,
                StopNotify, table
  <2>2. CASE CreateThread
    <3>1. pc'[P] = "run"
      BY <1>1, <2>2 DEF CreateThread, TypeOK
    <3> QED
      BY <1>4, <3>1
  <2>3. CASE ~ CreateThread
    <3>1. \E label : Goto(Main, label)
      BY <1>7, <2>3 DEF MainStep, CreateLock, CreateFails, CreateStore, Start, StopStore,
                        StopNotify
    <3>2. monitor'.waiters \subseteq monitor.waiters \/ P \notin monitor'.waiters
      BY <1>1, <1>6, <1>7, <2>3
         DEF MainStep, CreateLock, CreateFails, CreateStore, Start, StopStore, StopNotify
    <3> QED
      BY <1>1, <1>2, <1>3, <1>4, <2>1, <3>1, <3>2 DEF Asleep
  <2> QED
    BY <2>2, <2>3
<1>8. CASE CalcSleep
  <2>1. remains' = min_task_interval /\ UNCHANGED tasks
    BY <1>8 DEF CalcSleep, Sleep, table
  <2> QED
    BY <2>1, MinTaskIntervalPositive DEF SleepsForEverOnlyIdle
<1>9. CASE LoopWaits
  <2>1. /\ UNCHANGED tasks /\ ~ LeavesLoop
        /\ remains' = IF min_task_interval = 0 THEN 0 ELSE min_task_interval - time_next_interval
    BY <1>9 DEF LoopWaits, Sleep, table
  <2>2. min_task_interval \in Nat /\ time_next_interval \in Nat
    BY MinTaskIntervalType, TimeNextIntervalType
  <2>3. tasks # <<>> => remains' # 0
    BY <2>1, <2>2, MinTaskIntervalPositive DEF LeavesLoop
  <2> QED
    BY <2>1, <2>3 DEF SleepsForEverOnlyIdle
<1>10. CASE TimesOut \/ SpuriousWakeup
  BY <1>1, <1>3, <1>6, <1>10 DEF TimesOut, SpuriousWakeup, table, Asleep
<1>11. CASE PeriodicStep /\ ~ CalcSleep /\ ~ LoopWaits /\ ~ TimesOut /\ ~ Execution
  <2>1. \E label : Goto(P, label) /\ label # "loop_wait"
    BY <1>11 DEF PeriodicStep, RunAssert, CalcTerminated, CalcGoesOn, CalcIdle, IdleWakes,
                 LoopLeaves, Test, CheckRun, RunEnds
  <2> QED
    BY <1>2, <1>4, <2>1
<1>12. CASE Execution
  <2>1. pc'[P] \in {"exec", "task", "run"}
    BY <1>2, <1>12 DEF Execution, ExecLock, TaskReactivates, TaskReturns, PassEnds, CountTask,
                       RunTask, TaskInactivates, Visit, At
  <2> QED
    BY <1>4, <2>1
<1>13. ASSUME NEW k \in Tasks, Activate(k)
       PROVE  SleepsForEverOnlyIdle'
  BY <1>1, <1>4, <1>6, <1>13 DEF Activate, Asleep
<1>14. ASSUME NEW k \in Tasks, Inactivate(k) \/ Destroy(k)
       PROVE  SleepsForEverOnlyIdle'
  <2>1. /\ UNCHANGED <<monitor, remains>> /\ Remove(k) /\ \E label : Goto(k, label)
    BY <1>14 DEF Inactivate, Destroy, InactivateCall
  <2>2. tasks = <<>> => tasks' = <<>>
    BY <2>1 DEF Remove, InTable
  <2> QED
    BY <1>1, <1>2, <2>1, <2>2 DEF SleepsForEverOnlyIdle, Asleep
<1>15. CASE Tick \/ UNCHANGED vars
  BY <1>3, <1>15 DEF Tick, vars, table, Asleep
<1> QED
  BY <1>7, <1>8, <1>9, <1>10, <1>11, <1>12, <1>13, <1>14, <1>15 DEF Next, PeriodicStep, Owner

-----------------------------------------------------------------------------
(* The walk and the clock.                                                 *)

Accounts == Inductive /\ Unborn /\ Walk /\ Timing /\ SleepsForEverOnlyIdle

LEMMA AccountsInvariant == Spec => []Accounts
<1>1. Init => Accounts
  BY TypeInit, ControlInit, TableInit, CountInit, UnbornInit, WalkInit, TimingInit,
     PeriodicAssumption DEF Accounts, Inductive, SleepsForEverOnlyIdle, Init
<1>2. Accounts /\ [Next]_vars => Accounts'
  BY TypeStep, ControlStep, TableStep, CountStep, UnbornStep, WalkStep, TimingStep, IdleStep
     DEF Accounts, Inductive
<1> QED
  BY <1>1, <1>2, PTL DEF Spec

(* As long as running tasks take out nobody but themselves, a pass counts  *)
(* the time once for every task that it found and that is still there      *)
(* (PeriodicThread.cpp:168): `i--` skips none and visits none again.       *)
THEOREM EachTaskOncePerPass == Spec => []OncePerPass
<1>1. Accounts => OncePerPass
  <2> SUFFICES ASSUME Accounts, self_only
               PROVE  /\ ~ walk.again
                      /\ PassOver => walk.found \cap Range(tasks) \subseteq walk.seen
    BY DEF OncePerPass
  <2>1. TypeOK /\ Walk
    BY DEF Accounts, Inductive
  <2>2. ~ walk.again
    BY <2>1 DEF Walk, WalkInside
  <2>3. ASSUME PassOver
        PROVE  Range(tasks) \subseteq walk.seen
    <3>1. WalkInside /\ pass.i >= pass.origin /\ pass.origin = Len(tasks)
      BY <2>1, <2>3 DEF PassOver, Walk, WalkInside
    <3>2. \A n \in 1..Len(tasks) : tasks[n] \in walk.seen
      BY <2>1, <3>1, PassType DEF WalkInside
    <3>3. \A k \in Range(tasks) : \E n \in 1..Len(tasks) : tasks[n] = k
      BY <2>1, TableSeq DEF Range
    <3> QED
      BY <3>2, <3>3
  <2> QED
    BY <2>2, <2>3
<1> QED
  BY <1>1, AccountsInvariant, PTL

(* Between two executions of a task at least its interval passes on the    *)
(* clock, though the thread counts in whole units, with a stamp that wraps,*)
(* and though it may be held up anywhere.                                  *)
LEMMA RunsWhenDue ==
    ASSUME Accounts, [Next]_vars, pc[P] = "exec", pc'[P] = "task", self_only
    PROVE  due[tasks[pass.i + 1]] = 0
<1> USE PeriodicAssumption
<1>1. TypeOK /\ Control /\ Table /\ Walk /\ Timing
  BY DEF Accounts, Inductive
<1>2. P \in Threads /\ Main \in Threads /\ Tasks \subseteq Threads
  BY DEF Threads
<1>3. /\ \A label : Goto(P, label) => pc'[P] = label
      /\ \A t \in Threads \ {P} : \A label : Goto(t, label) => pc'[P] = pc[P]
  BY <1>1, <1>2 DEF Goto, TypeOK
<1>4. ~ MainStep
  <2>1. CreateThread => pc[P] # "exec"
    BY <1>1, <1>2 DEF CreateThread, At, Control, InsideAt
  <2>2. MainStep /\ ~ CreateThread => \E label : Goto(Main, label)
    BY DEF MainStep, CreateLock, CreateFails, CreateStore, Start, StopStore, StopNotify
  <2> QED
    BY <1>2, <1>3, <2>1, <2>2 DEF MainStep
<1>5. ~ \E k \in Tasks : Owner(k)
  <2>1. \A k \in Tasks : Owner(k) => \E label : Goto(k, label)
    BY DEF Owner, Activate, Inactivate, Destroy
  <2> QED
    BY <1>2, <1>3, <2>1
<1>6. PeriodicStep => Execution
  BY <1>3 DEF PeriodicStep, RunAssert, CalcTerminated, CalcGoesOn, CalcIdle, IdleWakes,
              CalcSleep, LoopLeaves, LoopWaits, Test, CheckRun, RunEnds, TimesOut, At
<1>7. PICK k \in Tasks : RunTask(k)
  BY <1>3, <1>4, <1>5, <1>6
     DEF Next, Execution, ExecLock, TaskReactivates, TaskReturns, PassEnds, CountTask,
         TaskInactivates, Tick, SpuriousWakeup, vars, At
<1>8. Visit(k) /\ Counted(k) >= Interval[k]
  BY <1>7 DEF RunTask
<1>9. k = tasks[pass.i + 1] /\ k \notin walk.seen
  BY <1>1, <1>8, WalkVisit
<1>10. CASE Settled(k)
  <2>1. /\ Credit(k) \in Nat /\ Interval[k] \in Nat /\ UNIT \in Nat /\ elapsed \in Nat
        /\ due[k] \in Nat
    BY <1>1, CreditType
  <2>2. Interval[k] <= Credit(k)
    BY <1>1, <1>8, <1>9, CreditType DEF Credit, Counted
  <2>3. /\ Interval[k] * UNIT <= Credit(k) * UNIT
        /\ Interval[k] * UNIT \in Nat /\ Credit(k) * UNIT \in Nat
    BY <2>1, <2>2, Monotone
  <2>4. Credit(k) * UNIT + elapsed + due[k] <= Interval[k] * UNIT
    BY <1>10 DEF Settled
  <2> QED
    BY <1>9, <2>1, <2>3, <2>4
<1> QED
  BY <1>1, <1>9, <1>10 DEF Timing

(* Between two executions of a task lies its interval, on the clock,       *)
(* however passes are cut short and wake-ups come late                     *)
(* (PeriodicThread.cpp, PeriodicTask.cpp).                                 *)
THEOREM NoTaskRunsEarly == Spec => RunsNotEarly
<1>1. Accounts /\ [Next]_vars
        => [pc[P] = "exec" /\ pc'[P] = "task" /\ self_only
              => due[tasks[pass.i + 1]] = 0]_vars
  BY RunsWhenDue
<1> QED
  BY <1>1, AccountsInvariant, PTL DEF Spec, RunsNotEarly

(* The thread sleeps without a time limit only while there is no task: the *)
(* next interval is never 0, and who fills an empty table wakes it.        *)
THEOREM SleepsOnlyWithoutTasks == Spec => []SleepsForEverOnlyIdle
<1>1. Accounts => SleepsForEverOnlyIdle
  BY DEF Accounts
<1> QED
  BY <1>1, AccountsInvariant, PTL

=============================================================================
