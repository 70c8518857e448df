--------------------------- MODULE VMThreadProofs ---------------------------
(***************************************************************************)
(* Theorems about VMThread, for every set of requesters, every choice of   *)
(* operations that nest or need a safepoint, and every bound.              *)
(*                                                                         *)
(* Control   which labels each kind of thread passes through, and that the *)
(*           holder of a monitor is the thread inside its critical section *)
(* Frames    the stack of activations follows the VM thread's label        *)
(***************************************************************************)
EXTENDS VMThread, MonitorProofs, SequenceTheorems, TLAPS

RequesterLabels == {"idle", "lock", "install", "install_wait", "check",
                    "check_wait", "return"}
VMLabels == {"loop", "lock", "clear", "while", "waiting", "recheck", "enter",
             "doit", "finish", "exit", "term_lock", "term_notify", "term_unlock",
             "terminated"}
MainLabels == {"idle", "signal", "unlock", "term_lock", "term_check", "term_wait",
               "clear", "done"}

AllowedLabels(t) ==
    IF t = VM THEN VMLabels ELSE IF t = Main THEN MainLabels ELSE RequesterLabels

(* At this label the thread is between acquiring monitor k and giving it up*)
InsideAt(t, label, k) ==
    \/ k = "VMOperation_lock" /\ t \in Requesters /\ label \in {"install", "check"}
    \/ k = "VMOperation_lock" /\ t = VM /\ label \in {"clear", "while"}
    \/ k = "VMOperation_lock" /\ t = Main /\ label \in {"signal", "unlock"}
    \/ k = "terminate_lock" /\ t = VM /\ label \in {"term_notify", "term_unlock"}
    \/ k = "terminate_lock" /\ t = Main /\ label = "term_check"

Inside(t, k) == InsideAt(t, pc[t], k)

Control ==
    /\ \A t \in Threads : pc[t] \in AllowedLabels(t)
    /\ \A k \in MonitorNames, t \in Threads : Inside(t, k) <=> monitor[k].holder = t
    /\ \A k \in MonitorNames : Simple(monitor[k])

Frames ==
    /\ Evaluating <=> frames # <<>>
    /\ frames # <<>> => frames[1].op = next_operation /\ next_operation \in Requesters
    /\ \A i \in 2..Len(frames) : frames[i].op \in NestedOps

-----------------------------------------------------------------------------
(* The stack of activations: what pushing, popping and changing the top do.*)

LEMMA PushFrame ==
    ASSUME NEW s \in Seq(Frame), NEW f \in Frame
    PROVE  /\ Append(s, f) \in Seq(Frame)
           /\ Len(Append(s, f)) = Len(s) + 1
           /\ Append(s, f)[Len(s) + 1] = f
           /\ \A i \in 1..Len(s) : Append(s, f)[i] = s[i]
OBVIOUS

LEMMA PopFrame ==
    ASSUME NEW s \in Seq(Frame), s # <<>>
    PROVE  LET p == SubSeq(s, 1, Len(s) - 1) IN
           /\ Len(s) \in Nat \ {0}
           /\ p \in Seq(Frame)
           /\ Len(p) = Len(s) - 1
           /\ \A i \in 1..Len(p) : p[i] = s[i]
<1> DEFINE n == Len(s) - 1
<1>1. Len(s) \in Nat \ {0} /\ n \in Nat /\ \A i \in 1..n : s[i] \in Frame
  OBVIOUS
<1>2. /\ SubSeq(s, 1, n) \in Seq(Frame)
      /\ Len(SubSeq(s, 1, n)) = n
      /\ \A i \in 1..n : SubSeq(s, 1, n)[i] = s[i]
  <2> HIDE DEF n
  <2>1. /\ SubSeq(s, 1, n) \in Seq(Frame)
        /\ Len(SubSeq(s, 1, n)) = IF 1 <= n THEN n - 1 + 1 ELSE 0
        /\ \A i \in 1..n - 1 + 1 : SubSeq(s, 1, n)[i] = s[1 + i - 1]
    BY <1>1, SubSeqProperties
  <2> QED
    BY <1>1, <2>1
<1> QED
  BY <1>1, <1>2

LEMMA TopFrame ==
    ASSUME frames \in Seq(Frame), frames # <<>>
    PROVE  /\ Len(frames) \in Nat \ {0}
           /\ current \in Frame
           /\ \A f \in Frame :
                /\ WithCurrent(f) \in Seq(Frame)
                /\ Len(WithCurrent(f)) = Len(frames)
                /\ \A i \in 1..Len(frames) :
                     WithCurrent(f)[i] = IF i = Len(frames) THEN f ELSE frames[i]
<1>1. Len(frames) \in Nat \ {0}
  OBVIOUS
<1> QED
  BY <1>1, ExceptSeq DEF current, WithCurrent

-----------------------------------------------------------------------------
(* Types.  A monitor is only unlocked or waited on by its holder, so that  *)
(* the depth stays a natural number.                                       *)

LEMMA TypeInit == Init => TypeOK
<1> SUFFICES ASSUME Init PROVE TypeOK
  OBVIOUS
<1> USE VMThreadAssumption DEF Init
<1>1. pc \in [Threads -> Labels] /\ calling_thread \in [Ops -> Threads \cup {NoThread}]
  BY DEF Labels
<1>2. monitor \in [MonitorNames -> MonitorType(Threads)]
  BY FreeMonitorType
<1>3. next_operation \in Requesters \cup {NoOp} /\ frames \in Seq(Frame)
  OBVIOUS
<1>4. /\ at_safepoint \in BOOLEAN /\ should_terminate \in BOOLEAN
      /\ is_terminate \in BOOLEAN /\ vm_thread \in BOOLEAN /\ started \in BOOLEAN
  BY Zenon
<1>5. /\ vm_error \in Failures \cup {NoError}
      /\ requests \in [Requesters -> Nat] /\ evaluated \in [Requesters -> Nat]
      /\ spurious \in Nat
  OBVIOUS
<1> QED
  BY <1>1, <1>2, <1>3, <1>4, <1>5 DEF TypeOK

(* The steps that only move a thread and a monitor.                        *)
LEMMA MoveType ==
    ASSUME TypeOK, NEW t \in Threads, NEW k \in MonitorNames, NEW to \in Labels,
           NEW m \in MonitorType(Threads), Goto(t, to),
           monitor' = [monitor EXCEPT ![k] = m], UNCHANGED data
    PROVE  TypeOK'
BY DEF TypeOK, Goto, data, eval, term, history

LEMMA AcquireType ==
    ASSUME TypeOK, NEW t \in Threads, NEW k \in MonitorNames, NEW from, NEW to \in Labels,
           Acquire(t, k, from, to)
    PROVE  TypeOK'
<1>1. Lock(monitor[k], t) \in MonitorType(Threads)
  BY LockType DEF TypeOK
<1> QED
  BY <1>1, MoveType DEF Acquire

LEMMA ReleaseType ==
    ASSUME TypeOK, NEW t \in Threads, NEW k \in MonitorNames, NEW from, NEW to \in Labels,
           Release(t, k, from, to), monitor[k].depth = 1
    PROVE  TypeOK'
<1>1. Unlock(monitor[k], t) \in MonitorType(Threads)
  BY UnlockType DEF TypeOK
<1> QED
  BY <1>1, MoveType DEF Release

LEMMA WaitOnType ==
    ASSUME TypeOK, NEW t \in Threads, NEW k \in MonitorNames, NEW from, NEW to \in Labels,
           WaitOn(t, k, from, to), monitor[k].depth = 1
    PROVE  TypeOK'
<1>1. Wait(monitor[k], t) \in MonitorType(Threads)
  BY WaitType DEF TypeOK
<1> QED
  BY <1>1, MoveType DEF WaitOn

LEMMA WakeType ==
    ASSUME TypeOK, NEW t \in Threads, NEW k \in MonitorNames, NEW from, NEW to \in Labels,
           Wake(t, k, from, to)
    PROVE  TypeOK'
<1>1. ReturnFromWait(monitor[k], t) \in MonitorType(Threads)
  BY ReturnFromWaitType DEF TypeOK
<1> QED
  BY <1>1, MoveType DEF Wake

LEMMA NotifyAllType ==
    ASSUME TypeOK, NEW k \in MonitorNames, NotifyAllOn(k)
    PROVE  monitor' \in [MonitorNames -> MonitorType(Threads)]
<1>1. VM \in Threads
  BY DEF Threads
<1>2. NotifyAll(monitor[k]) \in MonitorType(Threads)
  BY <1>1, WakeUpType DEF TypeOK
<1> QED
  BY <1>2 DEF TypeOK, NotifyAllOn

LEMMA InsideDepth ==
    ASSUME TypeOK, Control, NEW t \in Threads, NEW k \in MonitorNames, Inside(t, k)
    PROVE  monitor[k].depth = 1
BY VMThreadAssumption DEF Control, Threads, Simple

LEMMA TypeStep ==
    ASSUME TypeOK, Control, Frames, [Next]_vars
    PROVE  TypeOK'
<1> USE VMThreadAssumption
<1> "VMOperation_lock" \in MonitorNames /\ "terminate_lock" \in MonitorNames
  BY DEF MonitorNames
<1> VM \in Threads /\ Main \in Threads
  BY DEF Threads
<1>1. ASSUME NEW r \in Requesters, Requester(r)
      PROVE  TypeOK'
  <2> r \in Threads /\ r \in Ops
    BY DEF Threads, Ops
  <2>0. requests[r] + 1 \in Nat
    BY DEF TypeOK
  <2>1. CASE Execute(r)
    BY <2>1, <2>0 DEF Execute, Call, TypeOK, Goto, term, Labels, Failures
  <2>2. CASE PrologueRefuses(r)
    BY <2>2, <2>0 DEF PrologueRefuses, Call, TypeOK, Goto, term
  <2>3. CASE LockOperation(r)
    BY <2>3, AcquireType DEF LockOperation, Labels
  <2>4. CASE Install(r)
    BY <2>4, NotifyAllType DEF Install, TypeOK, Goto, eval, term, history, Labels
  <2>5. CASE InstallWait(r)
    <3>1. Inside(r, "VMOperation_lock")
      BY <2>5 DEF InstallWait, WaitOn, At, Inside, InsideAt
    <3> QED
      BY <2>5, <3>1, InsideDepth, WaitOnType DEF InstallWait, Labels
  <2>6. CASE InstallWake(r)
    BY <2>6, WakeType DEF InstallWake, Labels
  <2>7. CASE CheckWait(r)
    <3>1. Inside(r, "VMOperation_lock")
      BY <2>7 DEF CheckWait, WaitOn, At, Inside, InsideAt
    <3> QED
      BY <2>7, <3>1, InsideDepth, WaitOnType DEF CheckWait, Labels
  <2>8. CASE CheckWake(r)
    BY <2>8, WakeType DEF CheckWake, Labels
  <2>9. CASE CheckDone(r)
    <3>1. Inside(r, "VMOperation_lock")
      BY <2>9 DEF CheckDone, Release, At, Inside, InsideAt
    <3> QED
      BY <2>9, <3>1, InsideDepth, ReleaseType DEF CheckDone, Labels
  <2>10. CASE Return(r)
    BY <2>10 DEF Return, TypeOK, Goto, data, eval, term, history, Labels
  <2> QED
    BY <1>1, <2>1, <2>2, <2>3, <2>4, <2>5, <2>6, <2>7, <2>8, <2>9, <2>10 DEF Requester
<1>2. CASE VMStep
  <2>1. CASE LoopTest
    BY <2>1 DEF LoopTest, TypeOK, Goto, data, eval, term, history, Labels
  <2>2. CASE WaitLock
    BY <2>2, AcquireType DEF WaitLock, Labels
  <2>3. CASE ClearNext
    BY <2>3, NotifyAllType DEF ClearNext, TypeOK, Goto, eval, term, Labels
  <2>4. CASE WhileDone
    <3>1. Inside(VM, "VMOperation_lock")
      BY <2>4 DEF WhileDone, Release, At, Inside, InsideAt
    <3> QED
      BY <2>4, <3>1, InsideDepth, ReleaseType DEF WhileDone, Labels
  <2>5. CASE WhileWait
    <3>1. monitor["VMOperation_lock"].depth = 1
      BY <2>5, InsideDepth DEF WhileWait, At, Inside, InsideAt
    <3>2. LET m == NotifyAll(monitor["VMOperation_lock"]) IN
            m \in MonitorType(Threads) /\ m.depth = 1
      BY <3>1, WakeUpType DEF TypeOK
    <3>3. Wait(NotifyAll(monitor["VMOperation_lock"]), VM) \in MonitorType(Threads)
      BY <3>2, WaitType
    <3> QED
      BY <2>5, <3>3, MoveType DEF WhileWait, Labels
  <2>6. CASE WhileWake
    BY <2>6, WakeType DEF WhileWake, Labels
  <2>7. CASE RecheckExit
    BY <2>7 DEF RecheckExit, TypeOK, Goto, data, eval, term, history, Labels
  <2>8. CASE TakeOperation
    <3>1. next_operation # NoOp => Entered(next_operation) \in Frame
      BY DEF TypeOK, Entered, Activation, Frame, Ops
    <3>2. next_operation # NoOp => Append(frames, Entered(next_operation)) \in Seq(Frame)
      BY <3>1, PushFrame DEF TypeOK
    <3> QED
      BY <2>8, <3>2 DEF TakeOperation, TypeOK, Goto, term, history, Labels, Failures
  <2>9. CASE EnterOperation
    <3>1. frames # <<>>
      BY <2>9 DEF EnterOperation, At, Frames, Evaluating
    <3>2. Activation(cur_operation, BeginsSafepoint, current.nested) \in Frame
      BY <3>1, TopFrame DEF TypeOK, Frame, BeginsSafepoint, Activation, cur_operation
    <3> QED
      BY <2>9, <3>1, <3>2, TopFrame
      DEF EnterOperation, TypeOK, Goto, term, history, Labels
  <2>10. CASE DoitReturns
    BY <2>10 DEF DoitReturns, TypeOK, Goto, eval, term, Labels
  <2>11. CASE LeaveOperation
    <3>1. frames # <<>>
      BY <2>11 DEF LeaveOperation, At, Frames, Evaluating
    <3> QED
      BY <2>11, <3>1, PopFrame DEF LeaveOperation, TypeOK, Goto, term, history, Labels, Failures
  <2>12. ASSUME NEW op \in NestedOps, ExecuteNested(op)
         PROVE  TypeOK'
    <3>1. frames # <<>>
      BY <2>12 DEF ExecuteNested, At, Frames, Evaluating
    <3>2. Activation(cur_operation, current.end_safepoint, current.nested + 1) \in Frame
      BY <2>12, <3>1, TopFrame
      DEF ExecuteNested, TypeOK, Frame, Activation, cur_operation
    <3>3. Entered(op) \in Frame /\ op \in Ops
      BY DEF Entered, Activation, Frame, Ops
    <3>4. NestedCaller \in Threads \cup {NoThread}
      BY <3>1, TopFrame DEF NestedCaller, cur_operation, TypeOK, Frame
    <3> DEFINE g == WithCurrent(Activation(cur_operation, current.end_safepoint,
                                           current.nested + 1))
    <3>5. g \in Seq(Frame)
      BY <3>1, <3>2, TopFrame DEF TypeOK
    <3>6. Append(g, Entered(op)) \in Seq(Frame)
      BY <3>3, <3>5, PushFrame
    <3> HIDE DEF g
    <3>7. CASE cur_operation \in NestingAllowed
      <4>1. frames' = Append(g, Entered(op))
        BY <2>12, <3>7 DEF ExecuteNested, g
      <4>2. calling_thread' \in [Ops -> Threads \cup {NoThread}]
        BY <2>12, <3>3, <3>4, <3>7 DEF ExecuteNested, TypeOK
      <4>3. pc' \in [Threads -> Labels]
        BY <2>12, <3>7 DEF ExecuteNested, TypeOK, Goto, Labels
      <4> QED
        BY <2>12, <3>6, <3>7, <4>1, <4>2, <4>3
        DEF ExecuteNested, TypeOK, term, history
    <3>8. CASE cur_operation \notin NestingAllowed
      BY <2>12, <3>3, <3>8 DEF ExecuteNested, TypeOK, term, history, Failures
    <3> QED
      BY <3>7, <3>8
  <2>13. CASE ExitSafepoint
    BY <2>13 DEF ExitSafepoint, TypeOK, Goto, term, history, Labels, Failures
  <2>14. CASE TerminateLock
    BY <2>14, AcquireType DEF TerminateLock, Labels
  <2>15. CASE TerminateNotify
    <3>1. Notify(monitor["terminate_lock"]) \subseteq MonitorType(Threads)
      BY WakeUpType DEF TypeOK
    <3> QED
      BY <2>15, <3>1 DEF TerminateNotify, TypeOK, Goto, eval, history, Labels
  <2>16. CASE TerminateUnlock
    <3>1. Inside(VM, "terminate_lock")
      BY <2>16 DEF TerminateUnlock, Release, At, Inside, InsideAt
    <3> QED
      BY <2>16, <3>1, InsideDepth, ReleaseType DEF TerminateUnlock, Labels
  <2> QED
    BY <1>2, <2>1, <2>2, <2>3, <2>4, <2>5, <2>6, <2>7, <2>8, <2>9, <2>10, <2>11, <2>12,
       <2>13, <2>14, <2>15, <2>16 DEF VMStep
<1>3. CASE Destroy
  <2>1. CASE DestroyLock
    BY <2>1, AcquireType DEF DestroyLock, Labels
  <2>2. CASE DestroySignal
    BY <2>2, NotifyAllType DEF DestroySignal, TypeOK, Goto, eval, history, Labels
  <2>3. CASE DestroyUnlock
    <3>1. Inside(Main, "VMOperation_lock")
      BY <2>3 DEF DestroyUnlock, Release, At, Inside, InsideAt
    <3> QED
      BY <2>3, <3>1, InsideDepth, ReleaseType DEF DestroyUnlock, Labels
  <2>4. CASE DestroyTermLock
    BY <2>4, AcquireType DEF DestroyTermLock, Labels
  <2>5. CASE DestroyTermWait
    <3>1. Inside(Main, "terminate_lock")
      BY <2>5 DEF DestroyTermWait, WaitOn, At, Inside, InsideAt
    <3> QED
      BY <2>5, <3>1, InsideDepth, WaitOnType DEF DestroyTermWait, Labels
  <2>6. CASE DestroyTermWake
    BY <2>6, WakeType DEF DestroyTermWake, Labels
  <2>7. CASE DestroyTermUnlock
    <3>1. Inside(Main, "terminate_lock")
      BY <2>7 DEF DestroyTermUnlock, Release, At, Inside, InsideAt
    <3> QED
      BY <2>7, <3>1, InsideDepth, ReleaseType DEF DestroyTermUnlock, Labels
  <2>8. CASE DestroyClear
    BY <2>8 DEF DestroyClear, TypeOK, Goto, eval, history, Labels
  <2> QED
    BY <1>3, <2>1, <2>2, <2>3, <2>4, <2>5, <2>6, <2>7, <2>8 DEF Destroy
<1>4. ASSUME NEW t \in Threads, NEW k \in MonitorNames, SpuriousWakeup(t, k)
      PROVE  TypeOK'
  <2>1. SpuriousWake(monitor[k], t) \in MonitorType(Threads)
    BY WakeUpType DEF TypeOK
  <2> QED
    BY <1>4, <2>1 DEF SpuriousWakeup, TypeOK, eval, term
<1>5. CASE UNCHANGED vars
  BY <1>5 DEF vars, TypeOK, data, eval, term, history
<1> QED
  BY <1>1, <1>2, <1>3, <1>4, <1>5 DEF Next

-----------------------------------------------------------------------------
(* Control: a thread enters a critical section by acquiring its monitor,   *)
(* leaves it by giving the monitor up, and otherwise stays where it was    *)
(* with respect to every monitor.                                          *)

LEMMA ControlInit == Init => Control
BY VMThreadAssumption DEF Init, Control, AllowedLabels, RequesterLabels, VMLabels,
   MainLabels, Inside, InsideAt, FreeMonitor, Simple, Threads

LEMMA EnterControl ==
    ASSUME TypeOK, Control, NEW t \in Threads, NEW k \in MonitorNames, NEW m,
           NEW from, NEW to \in AllowedLabels(t), At(t, from), Goto(t, to),
           \A j \in MonitorNames : ~InsideAt(t, from, j),
           \A j \in MonitorNames : InsideAt(t, to, j) <=> j = k,
           monitor[k].holder = NoThread \/ monitor[k].holder = t,
           monitor' = [monitor EXCEPT ![k] = m], m.holder = t, Simple(m)
    PROVE  Control'
<1> USE VMThreadAssumption DEF TypeOK, Goto, At
<1>1. \A u \in Threads : pc'[u] = IF u = t THEN to ELSE pc[u]
  OBVIOUS
<1>2. \A j \in MonitorNames : monitor'[j] = IF j = k THEN m ELSE monitor[j]
  OBVIOUS
<1>3. \A u \in Threads : pc'[u] \in AllowedLabels(u)
  BY <1>1 DEF Control
<1>4. ASSUME NEW j \in MonitorNames, NEW u \in Threads
      PROVE  Inside(u, j)' <=> monitor'[j].holder = u
  BY <1>1, <1>2 DEF Control, Inside
<1>5. \A j \in MonitorNames : Simple(monitor'[j])
  BY <1>2 DEF Control
<1> QED
  BY <1>3, <1>4, <1>5 DEF Control

LEMMA LeaveControl ==
    ASSUME TypeOK, Control, NEW t \in Threads, NEW k \in MonitorNames, NEW m,
           NEW from, NEW to \in AllowedLabels(t), At(t, from), Goto(t, to),
           \A j \in MonitorNames : InsideAt(t, from, j) <=> j = k,
           \A j \in MonitorNames : ~InsideAt(t, to, j),
           monitor' = [monitor EXCEPT ![k] = m], m.holder = NoThread, Simple(m)
    PROVE  Control'
<1> USE VMThreadAssumption DEF TypeOK, Goto, At
<1>1. \A u \in Threads : pc'[u] = IF u = t THEN to ELSE pc[u]
  OBVIOUS
<1>2. \A j \in MonitorNames : monitor'[j] = IF j = k THEN m ELSE monitor[j]
  OBVIOUS
<1>3. \A u \in Threads : pc'[u] \in AllowedLabels(u)
  BY <1>1 DEF Control
<1>4. ASSUME NEW j \in MonitorNames, NEW u \in Threads
      PROVE  Inside(u, j)' <=> monitor'[j].holder = u
  <2>1. u # NoThread
    OBVIOUS
  <2>2. monitor[k].holder = t
    BY DEF Control, Inside
  <2> QED
    BY <1>1, <1>2, <2>1, <2>2 DEF Control, Inside
<1>5. \A j \in MonitorNames : Simple(monitor'[j])
  BY <1>2 DEF Control
<1> QED
  BY <1>3, <1>4, <1>5 DEF Control

LEMMA StayControl ==
    ASSUME TypeOK, Control, NEW t \in Threads,
           NEW from, NEW to \in AllowedLabels(t), At(t, from), Goto(t, to),
           \A j \in MonitorNames : InsideAt(t, from, j) <=> InsideAt(t, to, j),
           \A j \in MonitorNames : monitor'[j].holder = monitor[j].holder
                                     /\ Simple(monitor'[j])
    PROVE  Control'
<1> USE VMThreadAssumption DEF TypeOK, Goto, At
<1>1. \A u \in Threads : pc'[u] = IF u = t THEN to ELSE pc[u]
  OBVIOUS
<1>2. \A u \in Threads : pc'[u] \in AllowedLabels(u)
  BY <1>1 DEF Control
<1>3. ASSUME NEW j \in MonitorNames, NEW u \in Threads
      PROVE  Inside(u, j)' <=> monitor'[j].holder = u
  BY <1>1 DEF Control, Inside
<1> QED
  BY <1>2, <1>3 DEF Control

LEMMA AcquireControl ==
    ASSUME TypeOK, Control, NEW t \in Threads, NEW k \in MonitorNames,
           NEW from, NEW to \in AllowedLabels(t),
           \A j \in MonitorNames : ~InsideAt(t, from, j),
           \A j \in MonitorNames : InsideAt(t, to, j) <=> j = k,
           Acquire(t, k, from, to) \/ Wake(t, k, from, to)
    PROVE  Control'
<1> USE VMThreadAssumption
<1>1. /\ monitor[k] \in MonitorType(Threads) /\ Simple(monitor[k])
      /\ monitor[k].holder # t
  BY DEF TypeOK, Control, Inside, Acquire, Wake, At
<1>2. CASE Acquire(t, k, from, to)
  <2>1. Lock(monitor[k], t).holder = t /\ Simple(Lock(monitor[k], t))
    BY <1>1, <1>2, HolderAfter DEF Acquire
  <2> QED
    BY <1>1, <1>2, <2>1, EnterControl DEF Acquire, CanLock
<1>3. CASE Wake(t, k, from, to)
  <2>1. /\ ReturnFromWait(monitor[k], t).holder = t
        /\ Simple(ReturnFromWait(monitor[k], t))
    BY <1>1, <1>3, HolderAfter DEF Wake
  <2> QED
    BY <1>1, <1>3, <2>1, EnterControl DEF Wake, CanReturnFromWait, CanLock
<1> QED
  BY <1>2, <1>3

LEMMA ReleaseControl ==
    ASSUME TypeOK, Control, NEW t \in Threads, NEW k \in MonitorNames,
           NEW from, NEW to \in AllowedLabels(t),
           \A j \in MonitorNames : InsideAt(t, from, j) <=> j = k,
           \A j \in MonitorNames : ~InsideAt(t, to, j),
           Release(t, k, from, to) \/ WaitOn(t, k, from, to)
    PROVE  Control'
<1> USE VMThreadAssumption
<1>1. /\ monitor[k] \in MonitorType(Threads) /\ Simple(monitor[k])
      /\ monitor[k].holder = t
  BY DEF TypeOK, Control, Inside, Release, WaitOn, At
<1>2. CASE Release(t, k, from, to)
  <2>1. Unlock(monitor[k], t).holder = NoThread /\ Simple(Unlock(monitor[k], t))
    BY <1>1, HolderAfter
  <2> QED
    BY <1>2, <2>1, LeaveControl DEF Release
<1>3. CASE WaitOn(t, k, from, to)
  <2>1. Wait(monitor[k], t).holder = NoThread /\ Simple(Wait(monitor[k], t))
    BY <1>1, HolderAfter
  <2> QED
    BY <1>3, <2>1, LeaveControl DEF WaitOn
<1> QED
  BY <1>2, <1>3

LEMMA NotifyAllKeepsHolders ==
    ASSUME TypeOK, Control, NEW k \in MonitorNames, NotifyAllOn(k)
    PROVE  \A j \in MonitorNames : monitor'[j].holder = monitor[j].holder
                                     /\ Simple(monitor'[j])
<1> USE VMThreadAssumption
<1>1. /\ NotifyAll(monitor[k]).holder = monitor[k].holder
      /\ Simple(NotifyAll(monitor[k]))
  <2>1. VM \in Threads
    BY DEF Threads
  <2> QED
    BY <2>1, HolderAfter DEF TypeOK, Control
<1> QED
  BY <1>1 DEF TypeOK, Control, NotifyAllOn

LEMMA SameMonitorKeepsHolders ==
    ASSUME TypeOK, Control, UNCHANGED monitor
    PROVE  \A j \in MonitorNames : monitor'[j].holder = monitor[j].holder
                                     /\ Simple(monitor'[j])
BY DEF Control

LEMMA HaltControl ==
    ASSUME Control, UNCHANGED <<pc, monitor>>
    PROVE  Control'
BY DEF Control, Inside

LEMMA ControlStep ==
    ASSUME TypeOK, Control, [Next]_vars
    PROVE  Control'
<1> USE VMThreadAssumption
<1> "VMOperation_lock" \in MonitorNames /\ "terminate_lock" \in MonitorNames
  BY DEF MonitorNames
<1> VM \in Threads /\ Main \in Threads
  BY DEF Threads
<1> USE DEF AllowedLabels, RequesterLabels, VMLabels, MainLabels, InsideAt, MonitorNames
<1>1. ASSUME NEW r \in Requesters, Requester(r)
      PROVE  Control'
  <2> r \in Threads /\ r # VM /\ r # Main
    BY DEF Threads
  <2>1. CASE Execute(r)
    <3>1. CASE vm_thread
      BY <2>1, <3>1, StayControl, SameMonitorKeepsHolders DEF Execute, Call, At
    <3>2. CASE ~vm_thread
      BY <2>1, <3>2, HaltControl DEF Execute, Call
    <3> QED
      BY <3>1, <3>2
  <2>2. CASE PrologueRefuses(r)
    BY <2>2, HaltControl DEF PrologueRefuses, Call
  <2>3. CASE LockOperation(r)
    BY <2>3, AcquireControl DEF LockOperation
  <2>4. CASE Install(r)
    BY <2>4, StayControl, NotifyAllKeepsHolders DEF Install
  <2>5. CASE InstallWait(r)
    BY <2>5, ReleaseControl DEF InstallWait
  <2>6. CASE InstallWake(r)
    BY <2>6, AcquireControl DEF InstallWake
  <2>7. CASE CheckWait(r)
    BY <2>7, ReleaseControl DEF CheckWait
  <2>8. CASE CheckWake(r)
    BY <2>8, AcquireControl DEF CheckWake
  <2>9. CASE CheckDone(r)
    BY <2>9, ReleaseControl DEF CheckDone
  <2>10. CASE Return(r)
    BY <2>10, StayControl, SameMonitorKeepsHolders DEF Return
  <2> QED
    BY <1>1, <2>1, <2>2, <2>3, <2>4, <2>5, <2>6, <2>7, <2>8, <2>9, <2>10 DEF Requester
<1>2. CASE VMStep
  <2> VM \notin Requesters /\ VM # Main
    OBVIOUS
  <2>1. CASE LoopTest
    BY <2>1, StayControl, SameMonitorKeepsHolders DEF LoopTest
  <2>2. CASE WaitLock
    BY <2>2, AcquireControl DEF WaitLock
  <2>3. CASE ClearNext
    BY <2>3, StayControl, NotifyAllKeepsHolders DEF ClearNext
  <2>4. CASE WhileDone
    BY <2>4, ReleaseControl DEF WhileDone
  <2>5. CASE WhileWait
    <3> DEFINE n == NotifyAll(monitor["VMOperation_lock"])
    <3>1. monitor["VMOperation_lock"].holder = VM
      BY <2>5 DEF WhileWait, At, Control, Inside
    <3>2. n \in MonitorType(Threads) /\ n.holder = VM /\ Simple(n)
      BY <3>1, WakeUpType, HolderAfter DEF TypeOK, Control
    <3> HIDE DEF n
    <3>3. Wait(n, VM).holder = NoThread /\ Simple(Wait(n, VM))
      BY <3>2, HolderAfter
    <3>4. monitor' = [monitor EXCEPT !["VMOperation_lock"] = Wait(n, VM)]
      BY <2>5 DEF WhileWait, n
    <3> QED
      BY <2>5, <3>3, <3>4, LeaveControl DEF WhileWait
  <2>6. CASE WhileWake
    BY <2>6, AcquireControl DEF WhileWake
  <2>7. CASE RecheckExit
    BY <2>7, StayControl, SameMonitorKeepsHolders DEF RecheckExit
  <2>8. CASE TakeOperation
    <3>1. CASE next_operation = NoOp
      BY <2>8, <3>1, HaltControl DEF TakeOperation
    <3>2. CASE next_operation # NoOp
      BY <2>8, <3>2, StayControl, SameMonitorKeepsHolders DEF TakeOperation
    <3> QED
      BY <3>1, <3>2
  <2>9. CASE EnterOperation
    BY <2>9, StayControl, SameMonitorKeepsHolders DEF EnterOperation
  <2>10. CASE DoitReturns
    BY <2>10, StayControl, SameMonitorKeepsHolders DEF DoitReturns
  <2>11. CASE LeaveOperation
    <3>1. CASE EndsSafepoint /\ ~at_safepoint
      BY <2>11, <3>1, HaltControl DEF LeaveOperation
    <3>2. CASE ~(EndsSafepoint /\ ~at_safepoint)
      BY <2>11, <3>2, StayControl, SameMonitorKeepsHolders DEF LeaveOperation
    <3> QED
      BY <3>1, <3>2
  <2>12. ASSUME NEW op \in NestedOps, ExecuteNested(op)
         PROVE  Control'
    <3>1. CASE cur_operation \in NestingAllowed
      BY <2>12, <3>1, StayControl, SameMonitorKeepsHolders DEF ExecuteNested
    <3>2. CASE cur_operation \notin NestingAllowed
      BY <2>12, <3>2, HaltControl DEF ExecuteNested
    <3> QED
      BY <3>1, <3>2
  <2>13. CASE ExitSafepoint
    <3>1. CASE at_safepoint
      BY <2>13, <3>1, HaltControl DEF ExitSafepoint
    <3>2. CASE ~at_safepoint
      BY <2>13, <3>2, StayControl, SameMonitorKeepsHolders DEF ExitSafepoint
    <3> QED
      BY <3>1, <3>2
  <2>14. CASE TerminateLock
    BY <2>14, AcquireControl DEF TerminateLock
  <2>15. CASE TerminateNotify
    <3>1. \A n \in Notify(monitor["terminate_lock"]) :
             n.holder = monitor["terminate_lock"].holder /\ Simple(n)
      BY HolderAfter DEF TypeOK, Control
    <3>2. \A j \in MonitorNames : monitor'[j].holder = monitor[j].holder
                                     /\ Simple(monitor'[j])
      BY <2>15, <3>1 DEF TerminateNotify, TypeOK, Control
    <3> QED
      BY <2>15, <3>2, StayControl DEF TerminateNotify
  <2>16. CASE TerminateUnlock
    BY <2>16, ReleaseControl DEF TerminateUnlock
  <2> QED
    BY <1>2, <2>1, <2>2, <2>3, <2>4, <2>5, <2>6, <2>7, <2>8, <2>9, <2>10, <2>11, <2>12,
       <2>13, <2>14, <2>15, <2>16 DEF VMStep
<1>3. CASE Destroy
  <2> Main \notin Requesters /\ VM # Main
    OBVIOUS
  <2>1. CASE DestroyLock
    BY <2>1, AcquireControl DEF DestroyLock
  <2>2. CASE DestroySignal
    BY <2>2, StayControl, NotifyAllKeepsHolders DEF DestroySignal
  <2>3. CASE DestroyUnlock
    BY <2>3, ReleaseControl DEF DestroyUnlock
  <2>4. CASE DestroyTermLock
    BY <2>4, AcquireControl DEF DestroyTermLock
  <2>5. CASE DestroyTermWait
    BY <2>5, ReleaseControl DEF DestroyTermWait
  <2>6. CASE DestroyTermWake
    BY <2>6, AcquireControl DEF DestroyTermWake
  <2>7. CASE DestroyTermUnlock
    BY <2>7, ReleaseControl DEF DestroyTermUnlock
  <2>8. CASE DestroyClear
    BY <2>8, StayControl, SameMonitorKeepsHolders DEF DestroyClear
  <2> QED
    BY <1>3, <2>1, <2>2, <2>3, <2>4, <2>5, <2>6, <2>7, <2>8 DEF Destroy
<1>4. ASSUME NEW t \in Threads, NEW k \in MonitorNames, SpuriousWakeup(t, k)
      PROVE  Control'
  <2>1. /\ SpuriousWake(monitor[k], t).holder = monitor[k].holder
        /\ Simple(SpuriousWake(monitor[k], t))
    BY HolderAfter DEF TypeOK, Control
  <2> QED
    BY <1>4, <2>1 DEF SpuriousWakeup, TypeOK, Control, Inside
<1>5. CASE UNCHANGED vars
  BY <1>5, HaltControl DEF vars
<1> QED
  BY <1>1, <1>2, <1>3, <1>4, <1>5 DEF Next

-----------------------------------------------------------------------------
(* Frames: the stack of activations is empty outside inner_execute, its    *)
(* bottom is the operation in the slot, and what is above is nested.       *)

LEMMA FramesInit == Init => Frames
BY DEF Init, Frames, Evaluating, Threads

(* Steps of other threads, and steps of the VM thread outside              *)
(* inner_execute.                                                          *)
LEMMA FramesUnchanged ==
    ASSUME Frames, UNCHANGED <<frames, next_operation>>, Evaluating' <=> Evaluating
    PROVE  Frames'
BY DEF Frames

LEMMA OtherThreadFrames ==
    ASSUME TypeOK, Frames, NEW t \in Threads, t # VM, NEW to, Goto(t, to) \/ UNCHANGED pc,
           UNCHANGED <<frames, next_operation>>
    PROVE  Frames'
<1>1. pc'[VM] = pc[VM]
  BY DEF TypeOK, Goto, Threads
<1> QED
  BY <1>1, FramesUnchanged DEF Evaluating

LEMMA FramesStep ==
    ASSUME TypeOK, Control, Frames, [Next]_vars
    PROVE  Frames'
<1> USE VMThreadAssumption
<1> VM \in Threads /\ Main \in Threads
  BY DEF Threads
<1>1. ASSUME NEW r \in Requesters, Requester(r)
      PROVE  Frames'
  <2> r \in Threads /\ r # VM
    BY DEF Threads
  <2>1. CASE Install(r)
    <3>1. frames = <<>>
      BY <2>1 DEF Install, Frames, Ops
    <3>2. frames' = frames /\ pc'[VM] = pc[VM]
      BY <2>1 DEF Install, Goto, eval, TypeOK
    <3> QED
      BY <3>1, <3>2 DEF Frames, Evaluating
  <2>2. CASE Execute(r) \/ PrologueRefuses(r)
    <3>1. UNCHANGED <<frames, next_operation>> /\ (Goto(r, "lock") \/ UNCHANGED pc)
      BY <2>2 DEF Execute, PrologueRefuses, Call
    <3> QED
      BY <3>1, OtherThreadFrames
  <2>3. CASE ~Install(r) /\ ~Execute(r) /\ ~PrologueRefuses(r)
    <3>1. \E to \in Labels : Goto(r, to) /\ UNCHANGED <<frames, next_operation>>
      BY <1>1, <2>3
      DEF Requester, LockOperation, InstallWait, InstallWake, CheckWait, CheckWake,
          CheckDone, Return, Acquire, Release, WaitOn, Wake, data, eval, Labels
    <3> QED
      BY <3>1, OtherThreadFrames
  <2> QED
    BY <2>1, <2>2, <2>3
<1>2. CASE VMStep
  <2>1. CASE \/ LoopTest \/ WaitLock \/ WhileDone \/ WhileWait \/ WhileWake
             \/ RecheckExit \/ ExitSafepoint \/ TerminateLock \/ TerminateNotify
             \/ TerminateUnlock
    <3>1. UNCHANGED <<frames, next_operation>>
      BY <2>1
      DEF LoopTest, WaitLock, WhileDone, WhileWait, WhileWake, RecheckExit,
          ExitSafepoint, TerminateLock, TerminateNotify, TerminateUnlock,
          Acquire, Release, Wake, data, eval
    <3>2. ~Evaluating /\ ~Evaluating'
      BY <2>1
      DEF LoopTest, WaitLock, WhileDone, WhileWait, WhileWake, RecheckExit,
          ExitSafepoint, TerminateLock, TerminateNotify, TerminateUnlock,
          Acquire, Release, Wake, At, Goto, Evaluating, TypeOK
    <3> QED
      BY <3>1, <3>2, FramesUnchanged
  <2>2. CASE ClearNext
    BY <2>2 DEF ClearNext, At, Goto, eval, TypeOK, Frames, Evaluating
  <2>3. CASE TakeOperation
    <3>1. CASE next_operation = NoOp
      BY <2>3, <3>1, FramesUnchanged DEF TakeOperation, Evaluating
    <3>2. CASE next_operation # NoOp
      <4>1. frames = <<>>
        BY <2>3 DEF TakeOperation, At, Frames, Evaluating
      <4>2. frames' = <<Entered(next_operation)>>
        BY <2>3, <3>2, <4>1 DEF TakeOperation
      <4>3. pc'[VM] = "enter" /\ next_operation' = next_operation
        BY <2>3, <3>2 DEF TakeOperation, Goto, TypeOK
      <4>4. next_operation \in Requesters
        BY <3>2 DEF TypeOK
      <4> QED
        BY <4>2, <4>3, <4>4 DEF Frames, Evaluating, Entered, Activation
    <3> QED
      BY <3>1, <3>2
  <2>4. CASE EnterOperation
    <3>1. frames # <<>> /\ frames \in Seq(Frame)
      BY <2>4 DEF EnterOperation, At, Frames, Evaluating, TypeOK
    <3>2. Activation(cur_operation, BeginsSafepoint, current.nested) \in Frame
      BY <3>1, TopFrame DEF TypeOK, Frame, BeginsSafepoint, Activation, cur_operation
    <3> DEFINE a == Activation(cur_operation, BeginsSafepoint, current.nested)
    <3>a. a.op = current.op
      BY <3>1 DEF Activation, cur_operation
    <3>b. a \in Frame /\ frames' = WithCurrent(a)
      BY <2>4, <3>2 DEF EnterOperation
    <3> HIDE DEF a
    <3>3. /\ frames' \in Seq(Frame) /\ Len(frames') = Len(frames)
          /\ \A i \in 1..Len(frames) : frames'[i].op = frames[i].op
      BY <3>1, <3>a, <3>b, TopFrame DEF current
    <3>4. pc'[VM] = "doit" /\ next_operation' = next_operation
      BY <2>4 DEF EnterOperation, Goto, TypeOK
    <3> QED
      BY <3>1, <3>3, <3>4 DEF Frames, Evaluating
  <2>5. CASE DoitReturns
    BY <2>5, FramesUnchanged DEF DoitReturns, At, Goto, eval, Evaluating, TypeOK
  <2>6. CASE LeaveOperation
    <3>1. frames # <<>> /\ frames \in Seq(Frame)
      BY <2>6 DEF LeaveOperation, At, Frames, Evaluating, TypeOK
    <3>2. CASE EndsSafepoint /\ ~at_safepoint
      BY <2>6, <3>2, FramesUnchanged DEF LeaveOperation, Evaluating
    <3>3. CASE ~(EndsSafepoint /\ ~at_safepoint)
      <4>1. /\ Len(frames) \in Nat \ {0} /\ frames' \in Seq(Frame)
            /\ Len(frames') = Len(frames) - 1
            /\ \A i \in 1..Len(frames') : frames'[i] = frames[i]
        BY <2>6, <3>1, <3>3, PopFrame DEF LeaveOperation
      <4>2. /\ pc'[VM] = IF Len(frames) = 1 THEN "loop" ELSE "doit"
            /\ next_operation' = next_operation
        BY <2>6, <3>3 DEF LeaveOperation, Goto, TypeOK
      <4> QED
        BY <3>1, <4>1, <4>2 DEF Frames, Evaluating
    <3> QED
      BY <3>2, <3>3
  <2>7. ASSUME NEW op \in NestedOps, ExecuteNested(op)
        PROVE  Frames'
    <3>1. frames # <<>> /\ frames \in Seq(Frame)
      BY <2>7 DEF ExecuteNested, At, Frames, Evaluating, TypeOK
    <3>2. CASE cur_operation \notin NestingAllowed
      BY <2>7, <3>2, FramesUnchanged DEF ExecuteNested, Evaluating
    <3>3. CASE cur_operation \in NestingAllowed
      <4> DEFINE a == Activation(cur_operation, current.end_safepoint, current.nested + 1)
                 g == WithCurrent(a)
      <4>1. a \in Frame /\ a.op = current.op
        BY <2>7, <3>1, TopFrame DEF ExecuteNested, Frame, Activation, cur_operation
      <4>2. Entered(op) \in Frame /\ Entered(op).op = op
        BY DEF Entered, Activation, Frame, Ops
      <4> HIDE DEF a
      <4>3. /\ g \in Seq(Frame) /\ Len(g) = Len(frames)
            /\ \A i \in 1..Len(frames) : g[i].op = frames[i].op
        BY <3>1, <4>1, TopFrame DEF current
      <4>4. frames' = Append(g, Entered(op))
        BY <2>7, <3>3 DEF ExecuteNested, a
      <4> HIDE DEF g
      <4>5. /\ Len(frames') = Len(frames) + 1
            /\ frames'[Len(frames) + 1].op = op
            /\ \A i \in 1..Len(frames) : frames'[i].op = frames[i].op
        BY <4>2, <4>3, <4>4, PushFrame
      <4>6. frames' # <<>> /\ Len(frames) \in Nat \ {0}
        BY <3>1, <4>2, <4>3, <4>4
      <4>7. pc'[VM] = "enter" /\ next_operation' = next_operation
        BY <2>7, <3>3 DEF ExecuteNested, Goto, TypeOK
      <4> QED
        BY <3>1, <4>5, <4>6, <4>7 DEF Frames, Evaluating
    <3> QED
      BY <3>2, <3>3
  <2> QED
    BY <1>2, <2>1, <2>2, <2>3, <2>4, <2>5, <2>6, <2>7 DEF VMStep
<1>3. CASE Destroy
  <2>1. \E to \in Labels : Goto(Main, to) /\ UNCHANGED <<frames, next_operation>>
    BY <1>3
    DEF Destroy, DestroyLock, DestroySignal, DestroyUnlock, DestroyTermLock,
        DestroyTermWait, DestroyTermWake, DestroyTermUnlock, DestroyClear,
        Acquire, Release, WaitOn, Wake, data, eval, Labels
  <2> QED
    BY <2>1, OtherThreadFrames
<1>4. ASSUME NEW t \in Threads, NEW k \in MonitorNames, SpuriousWakeup(t, k)
      PROVE  Frames'
  BY <1>4, FramesUnchanged DEF SpuriousWakeup, eval, Evaluating
<1>5. CASE UNCHANGED vars
  BY <1>5, FramesUnchanged DEF vars, data, eval, Evaluating
<1> QED
  BY <1>1, <1>2, <1>3, <1>4, <1>5 DEF Next

-----------------------------------------------------------------------------
(* The state of VMThread keeps its types: depths of the recursive mutexes  *)
(* stay natural numbers because only the holder unlocks or waits, and      *)
(* inner_execute reads the last activation only while there is one.        *)
THEOREM TypeCorrect == Spec => [](TypeOK /\ Control /\ Frames)
<1>1. Init => TypeOK /\ Control /\ Frames
  BY TypeInit, ControlInit, FramesInit
<1>2. TypeOK /\ Control /\ Frames /\ [Next]_vars => (TypeOK /\ Control /\ Frames)'
  BY TypeStep, ControlStep, FramesStep
<1> QED
  BY <1>1, <1>2, PTL DEF Spec

-----------------------------------------------------------------------------
(***************************************************************************)
(* The safety properties of VMThread, on top of Control and Frames, and    *)
(* that it implements the service VMOperationService.                      *)
(*                                                                         *)
(* SafepointBegun  who began the safepoint that is in force                *)
(* Slot            the owner of the operation in the slot waits for it     *)
(* Callers         on whose behalf each activation works                   *)
(* Exit            what destroy has seen of the end of run()               *)
(* Mailbox         how the slot, the VM thread's label and the number of   *)
(*                 evaluations belong together                             *)
(***************************************************************************)

(* At most one activation has begun the safepoint in force.                *)
SafepointBegun ==
    /\ at_safepoint <=>
         \/ \E i \in 1..Len(frames) : frames[i].end_safepoint
         \/ pc[VM] \in {"term_lock", "term_notify", "term_unlock", "terminated"}
    /\ \A i, j \in 1..Len(frames) :
         frames[i].end_safepoint /\ frames[j].end_safepoint => i = j
    /\ \A i \in 1..Len(frames) :
         /\ frames[i].op \in AtSafepoint
         /\ i < Len(frames) \/ pc[VM] \in {"doit", "finish"}
         => \E j \in 1..i : frames[j].end_safepoint
    /\ pc[VM] = "enter" => ~frames[Len(frames)].end_safepoint

Slot ==
    \A r \in Requesters : next_operation = r => pc[r] \in {"check", "check_wait"}

Callers ==
    /\ \A r \in Requesters : pc[r] # "idle" => calling_thread[r] = r
    /\ CallingThread

Exit ==
    /\ is_terminate => pc[VM] \in {"term_unlock", "terminated"}
    /\ ~vm_thread \/ pc[Main] \in {"clear", "done"} => is_terminate

(* The VM thread is done with the operation in the slot, or not yet.       *)
Executed ==
    \/ pc[VM] \in {"loop", "lock", "clear"}
    \/ pc[VM] = "finish" /\ Len(frames) = 1

Pending ==
    \/ pc[VM] \in {"while", "waiting", "recheck", "enter", "doit"}
    \/ pc[VM] = "finish" /\ Len(frames) # 1

CallOf(r) ==
    /\ pc[r] \in {"lock", "install", "install_wait"} => evaluated[r] = 0
    /\ pc[r] \in {"check", "check_wait"} => next_operation = r \/ evaluated[r] = 1
    /\ pc[r] = "return" => evaluated[r] = 1
    /\ next_operation = r => /\ Executed => evaluated[r] = 1
                             /\ Pending  => evaluated[r] = 0

BeforeStart ==
    /\ next_operation = NoOp
    /\ pc[VM] \notin {"while", "waiting", "recheck", "enter", "doit", "finish"}
    /\ \A r \in Requesters : pc[r] = "idle"

Mailbox ==
    /\ \A r \in Requesters : CallOf(r)
    /\ ~started => BeforeStart
    /\ started /\ pc[VM] \in {"loop", "lock", "clear"} => next_operation # NoOp
    /\ pc[VM] = "recheck" => should_terminate \/ next_operation # NoOp

-----------------------------------------------------------------------------
(* What a step of a thread other than the VM thread leaves alone.          *)

LEMMA RequesterStep ==
    ASSUME TypeOK, NEW r \in Requesters, Requester(r)
    PROVE  /\ \A t \in Threads : t # r => pc'[t] = pc[t]
           /\ UNCHANGED <<frames, at_safepoint, term, started>>
<1>1. CASE Execute(r)
  <2>1. UNCHANGED pc \/ Goto(r, "lock")
    BY <1>1 DEF Execute
  <2>2. UNCHANGED <<frames, at_safepoint, term, started>>
    BY <1>1 DEF Execute, Call
  <2> QED
    BY <2>1, <2>2 DEF Goto, TypeOK
<1>2. CASE PrologueRefuses(r)
  BY <1>2 DEF PrologueRefuses, Call
<1>3. CASE ~Execute(r) /\ ~PrologueRefuses(r)
  <2>1. \E to \in Labels : Goto(r, to)
    BY <1>3
    DEF Requester, LockOperation, Install, InstallWait, InstallWake, CheckWait,
        CheckWake, CheckDone, Return, Acquire, Release, WaitOn, Wake, Labels
  <2>2. UNCHANGED <<frames, at_safepoint, term, started>>
    BY <1>3
    DEF Requester, LockOperation, Install, InstallWait, InstallWake, CheckWait,
        CheckWake, CheckDone, Return, Acquire, Release, WaitOn, Wake, data, eval,
        history
  <2> QED
    BY <2>1, <2>2 DEF Goto, TypeOK
<1> QED
  BY <1>1, <1>2, <1>3

LEMMA OthersStep ==
    ASSUME TypeOK, Next, ~VMStep
    PROVE  UNCHANGED <<frames, at_safepoint>> /\ pc'[VM] = pc[VM]
<1> USE VMThreadAssumption DEF TypeOK, Threads
<1>1. ASSUME NEW r \in Requesters, Requester(r)
      PROVE  UNCHANGED <<frames, at_safepoint>> /\ pc'[VM] = pc[VM]
  BY <1>1, RequesterStep
<1>2. CASE Destroy
  BY <1>2
  DEF Destroy, DestroyLock, DestroySignal, DestroyUnlock, DestroyTermLock,
      DestroyTermWait, DestroyTermWake, DestroyTermUnlock, DestroyClear,
      Acquire, Release, WaitOn, Wake, data, eval, Goto
<1>3. ASSUME NEW t \in Threads, NEW k \in MonitorNames, SpuriousWakeup(t, k)
      PROVE  UNCHANGED <<frames, at_safepoint>> /\ pc'[VM] = pc[VM]
  BY <1>3 DEF SpuriousWakeup, eval
<1> QED
  BY <1>1, <1>2, <1>3 DEF Next

(* The steps of the VM thread outside inner_execute.                       *)
Outside ==
    \/ LoopTest \/ WaitLock \/ ClearNext \/ WhileDone \/ WhileWait \/ WhileWake
    \/ RecheckExit \/ TerminateLock \/ TerminateNotify \/ TerminateUnlock

LEMMA OutsideStep ==
    ASSUME TypeOK, Frames, Outside
    PROVE  /\ UNCHANGED <<frames, at_safepoint>> /\ frames = <<>>
           /\ pc[VM] \notin {"enter", "doit", "finish", "exit"}
           /\ pc'[VM] \notin {"enter", "doit", "finish"}
           /\ pc'[VM] \in {"term_lock", "term_notify", "term_unlock", "terminated"}
                <=> pc[VM] \in {"term_lock", "term_notify", "term_unlock", "terminated"}
<1> VM \in Threads
  BY DEF Threads
<1>1. UNCHANGED <<frames, at_safepoint>>
  BY DEF Outside, LoopTest, WaitLock, ClearNext, WhileDone, WhileWait, WhileWake,
         RecheckExit, TerminateLock, TerminateNotify, TerminateUnlock,
         Acquire, Release, Wake, data, eval
<1>2. /\ pc[VM] \notin {"enter", "doit", "finish", "exit"}
      /\ pc'[VM] \notin {"enter", "doit", "finish"}
      /\ pc'[VM] \in {"term_lock", "term_notify", "term_unlock", "terminated"}
           <=> pc[VM] \in {"term_lock", "term_notify", "term_unlock", "terminated"}
  BY DEF Outside, LoopTest, WaitLock, ClearNext, WhileDone, WhileWait, WhileWake,
         RecheckExit, TerminateLock, TerminateNotify, TerminateUnlock,
         Acquire, Release, Wake, At, Goto, TypeOK
<1> QED
  BY <1>1, <1>2 DEF Frames, Evaluating

-----------------------------------------------------------------------------
(* SafepointBegun: by the first activation that asks for it, which also    *)
(* ends it, and once more at the end of run().                             *)

LEMMA SafepointInit == Init => SafepointBegun
BY VMThreadAssumption DEF Init, SafepointBegun, Threads

LEMMA SafepointUnchanged ==
    ASSUME SafepointBegun, UNCHANGED <<frames, at_safepoint>>, pc'[VM] = pc[VM]
    PROVE  SafepointBegun'
BY DEF SafepointBegun

LEMMA SafepointStep ==
    ASSUME TypeOK, Frames, SafepointBegun, [Next]_vars
    PROVE  SafepointBegun'
<1> VM \in Threads
  BY DEF Threads
<1>1. CASE Outside
  BY <1>1, OutsideStep DEF SafepointBegun
<1>2. CASE TakeOperation
  <2>1. frames = <<>> /\ ~at_safepoint /\ at_safepoint' = at_safepoint
    BY <1>2 DEF TakeOperation, At, Frames, Evaluating, SafepointBegun
  <2>2. CASE next_operation = NoOp
    BY <1>2, <2>2, SafepointUnchanged DEF TakeOperation
  <2>3. CASE next_operation # NoOp
    <3>1. frames' = <<Entered(next_operation)>> /\ pc'[VM] = "enter"
      BY <1>2, <2>1, <2>3 DEF TakeOperation, Goto, TypeOK
    <3> QED
      BY <2>1, <3>1 DEF SafepointBegun, Entered, Activation
  <2> QED
    BY <2>2, <2>3
<1>3. CASE EnterOperation
  <2>1. /\ frames # <<>> /\ frames \in Seq(Frame) /\ pc[VM] = "enter"
        /\ ~current.end_safepoint /\ pc'[VM] = "doit"
    BY <1>3 DEF EnterOperation, At, Frames, Evaluating, TypeOK, Goto, SafepointBegun, current
  <2> DEFINE a == Activation(cur_operation, BeginsSafepoint, current.nested)
  <2>2. a \in Frame
    BY <2>1, TopFrame DEF TypeOK, Frame, BeginsSafepoint, Activation, cur_operation
  <2>3. a.op = current.op /\ (a.end_safepoint <=> BeginsSafepoint)
    BY <2>1 DEF Activation, cur_operation
  <2>4. frames' = WithCurrent(a) /\ (at_safepoint' <=> at_safepoint \/ BeginsSafepoint)
    BY <1>3, Zenon DEF EnterOperation
  <2>5. BeginsSafepoint <=> current.op \in AtSafepoint /\ ~at_safepoint
    BY <2>1 DEF BeginsSafepoint, cur_operation
  <2> HIDE DEF a
  <2>6. /\ Len(frames) \in Nat \ {0} /\ Len(frames') = Len(frames)
        /\ \A i \in 1..Len(frames) :
             frames'[i] = IF i = Len(frames) THEN a ELSE frames[i]
    BY <2>1, <2>2, <2>4, TopFrame
  <2>7. CASE at_safepoint
    <3>1. \A i \in 1..Len(frames) :
             /\ frames'[i].op = frames[i].op
             /\ frames'[i].end_safepoint <=> frames[i].end_safepoint
      BY <2>1, <2>3, <2>5, <2>6, <2>7 DEF current
    <3>2. \E i \in 1..Len(frames) : frames[i].end_safepoint
      BY <2>1, <2>7 DEF SafepointBegun
    <3>3. \E i \in 1..Len(frames) - 1 : frames[i].end_safepoint
      BY <2>1, <2>6, <3>2 DEF current
    <3>4. at_safepoint'
      BY <2>4, <2>7
    <3> QED
      BY <2>1, <2>6, <3>1, <3>2, <3>3, <3>4 DEF SafepointBegun
  <2>8. CASE ~at_safepoint
    <3>1. \A i \in 1..Len(frames) : ~frames[i].end_safepoint
      BY <2>8 DEF SafepointBegun
    <3>2. \A i \in 1..Len(frames) - 1 : frames[i].op \notin AtSafepoint
      BY <2>6, <3>1 DEF SafepointBegun
    <3>3. /\ frames'[Len(frames)].op = current.op
          /\ frames'[Len(frames)].end_safepoint <=> current.op \in AtSafepoint
          /\ \A i \in 1..Len(frames) - 1 : frames'[i] = frames[i]
      BY <2>3, <2>5, <2>6, <2>8
    <3>4. at_safepoint' <=> current.op \in AtSafepoint
      BY <2>4, <2>5, <2>8
    <3> QED
      BY <2>1, <2>6, <3>1, <3>2, <3>3, <3>4 DEF SafepointBegun
  <2> QED
    BY <2>7, <2>8
<1>4. ASSUME NEW op \in NestedOps, ExecuteNested(op)
      PROVE  SafepointBegun'
  <2>1. frames # <<>> /\ frames \in Seq(Frame) /\ pc[VM] = "doit"
    BY <1>4 DEF ExecuteNested, At, Frames, Evaluating, TypeOK
  <2>2. CASE cur_operation \notin NestingAllowed
    BY <1>4, <2>2, SafepointUnchanged DEF ExecuteNested
  <2>3. CASE cur_operation \in NestingAllowed
    <3> DEFINE a == Activation(cur_operation, current.end_safepoint, current.nested + 1)
               g == WithCurrent(a)
    <3>1. a \in Frame /\ a.op = current.op /\ a.end_safepoint = current.end_safepoint
      <4>1. a \in Frame /\ a.op = current.op
        BY <1>4, <2>1, TopFrame, VMThreadAssumption DEF ExecuteNested, Frame, Activation, cur_operation
      <4>2. a.end_safepoint = current.end_safepoint
        BY DEF Activation
      <4> QED
        BY <4>1, <4>2, Zenon
    <3>2. Entered(op) \in Frame /\ ~Entered(op).end_safepoint
      <4>1. Entered(op) \in Frame
        BY VMThreadAssumption DEF Entered, Activation, Frame, Ops
      <4>2. ~Entered(op).end_safepoint
        BY DEF Entered, Activation
      <4> QED
        BY <4>1, <4>2, Zenon
    <3> HIDE DEF a
    <3>3. /\ g \in Seq(Frame) /\ Len(g) = Len(frames)
          /\ \A i \in 1..Len(frames) : g[i] = IF i = Len(frames) THEN a ELSE frames[i]
      BY <2>1, <3>1, TopFrame
    <3>7. ASSUME NEW i \in 1..Len(frames)
          PROVE  g[i].op = frames[i].op /\ g[i].end_safepoint = frames[i].end_safepoint
      <4>1. CASE i = Len(frames)
        BY <3>1, <3>3, <4>1, Zenon DEF current
      <4>2. CASE i # Len(frames)
        BY <3>3, <4>2, Zenon
      <4> QED
        BY <4>1, <4>2
    <3>4. frames' = Append(g, Entered(op))
      BY <1>4, <2>3 DEF ExecuteNested, a
    <3> HIDE DEF g
    <3>5. /\ Len(frames') = Len(frames) + 1 /\ Len(frames) \in Nat \ {0}
          /\ ~frames'[Len(frames) + 1].end_safepoint
          /\ \A i \in 1..Len(frames) :
               /\ frames'[i].op = frames[i].op
               /\ frames'[i].end_safepoint = frames[i].end_safepoint
      <4>1. /\ Len(frames') = Len(frames) + 1 /\ Len(frames) \in Nat \ {0}
            /\ frames'[Len(frames) + 1] = Entered(op)
            /\ \A i \in 1..Len(frames) : frames'[i] = g[i]
        BY <2>1, <3>2, <3>3, <3>4, PushFrame
      <4> QED
        BY <3>2, <3>7, <4>1, Zenon
    <3>6. pc'[VM] = "enter" /\ at_safepoint' = at_safepoint
      BY <1>4, <2>3 DEF ExecuteNested, Goto, TypeOK
    <3>8. \A i \in 1..Len(frames) : frames'[i].end_safepoint <=> frames[i].end_safepoint
      BY <3>5, Zenon
    <3>9. at_safepoint' <=> at_safepoint
      BY <3>6, Zenon
    <3> QED
      BY <2>1, <3>5, <3>6, <3>8, <3>9 DEF SafepointBegun
  <2> QED
    BY <2>2, <2>3
<1>5. CASE DoitReturns
  <2>1. UNCHANGED <<frames, at_safepoint>> /\ pc[VM] = "doit" /\ pc'[VM] = "finish"
    BY <1>5 DEF DoitReturns, eval, At, Goto, TypeOK
  <2> QED
    BY <2>1 DEF SafepointBegun
<1>6. CASE LeaveOperation
  <2>1. frames # <<>> /\ frames \in Seq(Frame) /\ pc[VM] = "finish"
    BY <1>6 DEF LeaveOperation, At, Frames, Evaluating, TypeOK
  <2>2. CASE EndsSafepoint /\ ~at_safepoint
    BY <1>6, <2>2, SafepointUnchanged DEF LeaveOperation
  <2>3. CASE ~(EndsSafepoint /\ ~at_safepoint)
    <3>1. /\ Len(frames) \in Nat \ {0} /\ Len(frames') = Len(frames) - 1
          /\ \A i \in 1..Len(frames) - 1 : frames'[i] = frames[i]
      BY <1>6, <2>1, <2>3, PopFrame DEF LeaveOperation
    <3>2. pc'[VM] = IF Len(frames) = 1 THEN "loop" ELSE "doit"
      BY <1>6, <2>3 DEF LeaveOperation, Goto, TypeOK
    <3>3. at_safepoint' <=> at_safepoint /\ ~frames[Len(frames)].end_safepoint
      BY <1>6, <2>3, Zenon DEF LeaveOperation, EndsSafepoint, current
    <3>4. at_safepoint <=> \E i \in 1..Len(frames) : frames[i].end_safepoint
      BY <2>1 DEF SafepointBegun
    <3>5. CASE frames[Len(frames)].end_safepoint
      <4>1. \A i \in 1..Len(frames) - 1 : ~frames[i].end_safepoint
        BY <3>1, <3>5 DEF SafepointBegun
      <4>2. \A i \in 1..Len(frames) - 1 : frames[i].op \notin AtSafepoint
        BY <3>1, <4>1 DEF SafepointBegun
      <4> QED
        BY <3>1, <3>2, <3>3, <3>5, <4>1, <4>2 DEF SafepointBegun
    <3>6. CASE ~frames[Len(frames)].end_safepoint
      BY <2>1, <3>1, <3>2, <3>3, <3>4, <3>6 DEF SafepointBegun
    <3> QED
      BY <3>5, <3>6
  <2> QED
    BY <2>2, <2>3
<1>7. CASE ExitSafepoint
  <2>1. frames = <<>> /\ frames' = frames
    BY <1>7 DEF ExitSafepoint, At, Frames, Evaluating
  <2>2. CASE at_safepoint
    BY <1>7, <2>2, SafepointUnchanged DEF ExitSafepoint
  <2>3. CASE ~at_safepoint
    <3>1. at_safepoint' /\ pc'[VM] = "term_lock"
      BY <1>7, <2>3 DEF ExitSafepoint, Goto, TypeOK
    <3> QED
      BY <2>1, <3>1 DEF SafepointBegun
  <2> QED
    BY <2>2, <2>3
<1>8. CASE Next /\ ~VMStep
  BY <1>8, OthersStep, SafepointUnchanged
<1>9. CASE UNCHANGED vars
  BY <1>9, SafepointUnchanged DEF vars, data, eval
<1> QED
  BY <1>1, <1>2, <1>3, <1>4, <1>5, <1>6, <1>7, <1>8, <1>9 DEF VMStep, Outside, Next

-----------------------------------------------------------------------------
(* Slot: an operation is installed by its owner, who looks at the slot     *)
(* until somebody else has taken the operation out.                        *)

LEMMA SlotStep ==
    ASSUME TypeOK, Slot, [Next]_vars
    PROVE  Slot'
<1> USE VMThreadAssumption
<1>1. ASSUME NEW r \in Requesters, Requester(r)
      PROVE  Slot'
  <2>1. Requesters \subseteq Threads /\ NoOp \notin Requesters
    BY DEF Threads, Ops
  <2>2. \A q \in Requesters : q # r => pc'[q] = pc[q]
    BY <1>1, <2>1, RequesterStep
  <2>3. CASE Install(r)
    BY <2>1, <2>2, <2>3 DEF Install, Goto, Slot, TypeOK
  <2>4. CASE CheckWait(r) \/ CheckWake(r) \/ CheckDone(r)
    BY <2>1, <2>2, <2>4
    DEF CheckWait, CheckWake, CheckDone, Release, WaitOn, Wake, data, Goto, Slot, TypeOK
  <2>5. CASE \/ Execute(r) \/ PrologueRefuses(r) \/ LockOperation(r)
             \/ InstallWait(r) \/ InstallWake(r) \/ Return(r)
    <3>1. UNCHANGED next_operation /\ pc[r] \notin {"check", "check_wait"}
      BY <2>5
      DEF Execute, PrologueRefuses, Call, LockOperation, InstallWait, InstallWake,
          Return, Acquire, WaitOn, Wake, data, At
    <3> QED
      BY <2>2, <3>1 DEF Slot
  <2> QED
    BY <1>1, <2>3, <2>4, <2>5 DEF Requester
<1>2. ASSUME VMStep
      PROVE  (next_operation' = NoOp \/ UNCHANGED next_operation)
             /\ \A r \in Requesters : pc'[r] = pc[r]
  BY <1>2
  DEF VMStep, LoopTest, WaitLock, ClearNext, WhileDone, WhileWait, WhileWake,
      RecheckExit, TakeOperation, EnterOperation, DoitReturns, LeaveOperation,
      ExecuteNested, ExitSafepoint, TerminateLock, TerminateNotify, TerminateUnlock,
      Acquire, Release, Wake, data, Goto, TypeOK, Threads
<1>3. ASSUME Destroy
      PROVE  UNCHANGED next_operation /\ \A r \in Requesters : pc'[r] = pc[r]
  BY <1>3
  DEF Destroy, DestroyLock, DestroySignal, DestroyUnlock, DestroyTermLock,
      DestroyTermWait, DestroyTermWake, DestroyTermUnlock, DestroyClear,
      Acquire, Release, WaitOn, Wake, data, Goto, TypeOK, Threads
<1>4. ASSUME NEW t \in Threads, NEW k \in MonitorNames, SpuriousWakeup(t, k)
      PROVE  Slot'
  BY <1>4 DEF SpuriousWakeup, Slot
<1>5. CASE UNCHANGED vars
  BY <1>5 DEF vars, data, Slot
<1> QED
  BY <1>1, <1>2, <1>3, <1>4, <1>5 DEF Next, Slot, Ops

-----------------------------------------------------------------------------
(* Exit: is_terminate is the VM thread's last word, and destroy clears     *)
(* vm_thread only after it has read it.                                    *)

LEMMA ExitStep ==
    ASSUME TypeOK, Exit, [Next]_vars
    PROVE  Exit'
<1> USE VMThreadAssumption
<1> VM \in Threads /\ Main \in Threads
  BY DEF Threads
<1>1. ASSUME NEW r \in Requesters, Requester(r)
      PROVE  Exit'
  <2>1. r \in Threads /\ r # VM /\ r # Main
    BY DEF Threads
  <2> QED
    BY <1>1, <2>1, RequesterStep DEF Exit, term
<1>2. CASE VMStep
  BY <1>2
  DEF VMStep, LoopTest, WaitLock, ClearNext, WhileDone, WhileWait, WhileWake,
      RecheckExit, TakeOperation, EnterOperation, DoitReturns, LeaveOperation,
      ExecuteNested, ExitSafepoint, TerminateLock, TerminateNotify, TerminateUnlock,
      Acquire, Release, Wake, data, term, At, Goto, TypeOK, Exit
<1>3. CASE Destroy
  BY <1>3
  DEF Destroy, DestroyLock, DestroySignal, DestroyUnlock, DestroyTermLock,
      DestroyTermWait, DestroyTermWake, DestroyTermUnlock, DestroyClear,
      Acquire, Release, WaitOn, Wake, data, term, At, Goto, TypeOK, Exit
<1>4. ASSUME NEW t \in Threads, NEW k \in MonitorNames, SpuriousWakeup(t, k)
      PROVE  Exit'
  BY <1>4 DEF SpuriousWakeup, term, Exit
<1>5. CASE UNCHANGED vars
  BY <1>5 DEF vars, data, term, Exit
<1> QED
  BY <1>1, <1>2, <1>3, <1>4, <1>5 DEF Next

-----------------------------------------------------------------------------
(* Callers: execute() writes the caller into its own operation, and nested *)
(* operations take it over from the enclosing one.                         *)

LEMMA CallersKept ==
    ASSUME Callers, UNCHANGED <<frames, calling_thread>>,
           \A r \in Requesters : pc'[r] # "idle" => pc[r] # "idle"
    PROVE  Callers'
BY DEF Callers, CallingThread

LEMMA SameOpsCallers ==
    ASSUME Callers, UNCHANGED calling_thread,
           \A r \in Requesters : pc'[r] # "idle" => pc[r] # "idle",
           Len(frames) \in Nat, Len(frames') \in Nat, Len(frames') <= Len(frames),
           \A i \in 1..Len(frames') : frames'[i].op = frames[i].op
    PROVE  Callers'
BY DEF Callers, CallingThread

LEMMA CallersStep ==
    ASSUME TypeOK, Frames, Slot, Callers, [Next]_vars
    PROVE  Callers'
<1> USE VMThreadAssumption
<1>a. VM \in Threads /\ Requesters \subseteq Threads /\ VM \notin Requesters
  BY DEF Threads
<1>b. Requesters \subseteq Ops /\ NestedOps \subseteq Ops
  BY DEF Ops
<1>c. Len(frames) \in Nat
  BY DEF TypeOK
<1>1. ASSUME NEW r \in Requesters, Requester(r)
      PROVE  Callers'
  <2>1. frames' = frames /\ \A q \in Requesters : q # r => pc'[q] = pc[q]
    BY <1>a, <1>1, RequesterStep
  <2>2. CASE Execute(r) \/ PrologueRefuses(r)
    <3>1. calling_thread' = [calling_thread EXCEPT ![r] = r] /\ pc[r] = "idle"
      BY <2>2 DEF Execute, PrologueRefuses, Call, At
    <3>2. \A op \in Ops : calling_thread'[op] = IF op = r THEN r ELSE calling_thread[op]
      BY <3>1 DEF TypeOK
    <3>3. \A i \in 1..Len(frames) : frames[i].op # r /\ frames[i].op \in Ops
      <4>1. next_operation # r
        BY <3>1 DEF Slot
      <4>2. \A i \in 1..Len(frames) : i = 1 \/ i \in 2..Len(frames)
        BY <1>c
      <4>3. frames # <<>> => frames[1].op # r
        BY <4>1 DEF Frames
      <4>4. \A i \in 1..Len(frames) : frames[i].op \in Ops
        <5>1. \A i \in 1..Len(frames) : frames[i] \in Frame
          BY ElementOfSeq DEF TypeOK
        <5> QED
          BY <5>1 DEF Frame
      <4>5. frames = <<>> => 1..Len(frames) = {}
        OBVIOUS
      <4> QED
        BY <4>2, <4>3, <4>4, <4>5 DEF Frames
    <3>4. CallingThread'
      BY <2>1, <3>2, <3>3 DEF Callers, CallingThread
    <3>5. \A q \in Requesters : pc'[q] # "idle" => calling_thread'[q] = q
      BY <1>b, <2>1, <3>2 DEF Callers
    <3> QED
      BY <3>4, <3>5 DEF Callers
  <2>3. CASE ~Execute(r) /\ ~PrologueRefuses(r)
    <3>1. UNCHANGED calling_thread
      BY <1>1, <2>3
      DEF Requester, LockOperation, Install, InstallWait, InstallWake, CheckWait,
          CheckWake, CheckDone, Return, Acquire, Release, WaitOn, Wake, data, eval
    <3>2. pc[r] # "idle"
      BY <1>1, <2>3
      DEF Requester, LockOperation, Install, InstallWait, InstallWake, CheckWait,
          CheckWake, CheckDone, Return, Acquire, Release, WaitOn, Wake, At
    <3> QED
      BY <2>1, <3>1, <3>2, CallersKept
  <2> QED
    BY <2>2, <2>3
<1>2. CASE VMStep
  <2>0. \A r \in Requesters : pc'[r] = pc[r]
    BY <1>2, <1>a
    DEF VMStep, LoopTest, WaitLock, ClearNext, WhileDone, WhileWait, WhileWake,
        RecheckExit, TakeOperation, EnterOperation, DoitReturns, LeaveOperation,
        ExecuteNested, ExitSafepoint, TerminateLock, TerminateNotify, TerminateUnlock,
        Acquire, Release, Wake, Goto, TypeOK
  <2>1. CASE Outside \/ DoitReturns \/ ExitSafepoint
    <3>1. UNCHANGED <<frames, calling_thread>>
      BY <2>1
      DEF Outside, LoopTest, WaitLock, ClearNext, WhileDone, WhileWait, WhileWake,
          RecheckExit, DoitReturns, ExitSafepoint, TerminateLock, TerminateNotify,
          TerminateUnlock, Acquire, Release, Wake, data, eval
    <3> QED
      BY <2>0, <3>1, CallersKept
  <2>2. CASE TakeOperation
    <3>1. CASE next_operation = NoOp
      BY <2>0, <2>2, <3>1, CallersKept DEF TakeOperation
    <3>2. CASE next_operation # NoOp
      <4>1. frames = <<>>
        BY <2>2 DEF TakeOperation, At, Frames, Evaluating
      <4>2. frames' = <<Entered(next_operation)>> /\ UNCHANGED calling_thread
        BY <2>2, <3>2, <4>1 DEF TakeOperation
      <4>3. Len(frames') = 1 /\ frames'[1].op = next_operation
        BY <4>2 DEF Entered, Activation
      <4>4. next_operation \in Requesters /\ calling_thread[next_operation] = next_operation
        BY <3>2 DEF TypeOK, Slot, Callers
      <4>5. CallingThread'
        BY <4>2, <4>3, <4>4 DEF CallingThread
      <4> QED
        BY <2>0, <4>2, <4>5 DEF Callers
    <3> QED
      BY <3>1, <3>2
  <2>3. CASE EnterOperation
    <3>1. frames # <<>> /\ frames \in Seq(Frame)
      BY <2>3 DEF EnterOperation, At, Frames, Evaluating, TypeOK
    <3> DEFINE a == Activation(cur_operation, BeginsSafepoint, current.nested)
    <3>2. a \in Frame /\ a.op = current.op
      BY <3>1, TopFrame DEF TypeOK, Frame, BeginsSafepoint, Activation, cur_operation
    <3>3. frames' = WithCurrent(a) /\ UNCHANGED calling_thread
      BY <2>3 DEF EnterOperation
    <3> HIDE DEF a
    <3>4. /\ Len(frames') = Len(frames)
          /\ \A i \in 1..Len(frames) : frames'[i].op = frames[i].op
      BY <3>1, <3>2, <3>3, TopFrame DEF current
    <3> QED
      BY <1>c, <2>0, <3>3, <3>4, SameOpsCallers
  <2>4. ASSUME NEW op \in NestedOps, ExecuteNested(op)
        PROVE  Callers'
    <3>1. /\ frames # <<>> /\ frames \in Seq(Frame) /\ Len(frames) \in Nat \ {0}
          /\ \A i \in 1..Len(frames) : frames[i].op # op /\ frames[i].op \in Ops
          /\ op \in Ops /\ op \notin Requesters
      BY <1>b, <2>4 DEF ExecuteNested, At, Frames, Evaluating, TypeOK, Frame
    <3>2. CASE cur_operation \notin NestingAllowed
      <4>1. frames' = frames /\ calling_thread' = [calling_thread EXCEPT ![op] = VM]
        BY <2>4, <3>2 DEF ExecuteNested
      <4>2. \A o \in Ops : o # op => calling_thread'[o] = calling_thread[o]
        BY <4>1 DEF TypeOK
      <4> QED
        BY <1>b, <2>0, <3>1, <4>1, <4>2 DEF Callers, CallingThread
    <3>3. CASE cur_operation \in NestingAllowed
      <4> DEFINE a == Activation(cur_operation, current.end_safepoint, current.nested + 1)
                 g == WithCurrent(a)
      <4>1. a \in Frame /\ a.op = current.op
        BY <2>4, <3>1, TopFrame DEF ExecuteNested, Frame, Activation, cur_operation
      <4>2. Entered(op) \in Frame /\ Entered(op).op = op
        BY DEF Entered, Activation, Frame, Ops
      <4> HIDE DEF a
      <4>3. /\ g \in Seq(Frame) /\ Len(g) = Len(frames)
            /\ \A i \in 1..Len(frames) : g[i].op = frames[i].op
        BY <3>1, <4>1, TopFrame DEF current
      <4>4. frames' = Append(g, Entered(op))
        BY <2>4, <3>3 DEF ExecuteNested, a
      <4> HIDE DEF g
      <4>5. /\ Len(frames') = Len(frames) + 1
            /\ frames'[Len(frames) + 1].op = op
            /\ \A i \in 1..Len(frames) : frames'[i].op = frames[i].op
        BY <4>2, <4>3, <4>4, PushFrame
      <4>6. calling_thread' = [calling_thread EXCEPT ![op] = NestedCaller]
        BY <2>4, <3>3 DEF ExecuteNested
      <4>7. NestedCaller = frames[1].op
        BY <3>1 DEF NestedCaller, cur_operation, current, Callers, CallingThread
      <4>8. /\ calling_thread'[op] = frames[1].op
            /\ \A o \in Ops : o # op => calling_thread'[o] = calling_thread[o]
        BY <3>1, <4>6, <4>7 DEF TypeOK
      <4>9. CallingThread'
        BY <3>1, <4>5, <4>8 DEF Callers, CallingThread
      <4> QED
        BY <1>b, <2>0, <3>1, <4>8, <4>9 DEF Callers
    <3> QED
      BY <3>2, <3>3
  <2>5. CASE LeaveOperation
    <3>1. frames # <<>> /\ frames \in Seq(Frame) /\ UNCHANGED calling_thread
      BY <2>5 DEF LeaveOperation, At, Frames, Evaluating, TypeOK
    <3>2. CASE EndsSafepoint /\ ~at_safepoint
      BY <2>0, <2>5, <3>1, <3>2, CallersKept DEF LeaveOperation
    <3>3. CASE ~(EndsSafepoint /\ ~at_safepoint)
      <4>1. /\ Len(frames) \in Nat \ {0} /\ Len(frames') = Len(frames) - 1
            /\ \A i \in 1..Len(frames') : frames'[i] = frames[i]
        BY <2>5, <3>1, <3>3, PopFrame DEF LeaveOperation
      <4> QED
        BY <2>0, <3>1, <4>1, SameOpsCallers
    <3> QED
      BY <3>2, <3>3
  <2> QED
    BY <1>2, <2>1, <2>2, <2>3, <2>4, <2>5 DEF VMStep, Outside
<1>3. CASE Destroy
  <2>1. UNCHANGED <<frames, calling_thread>> /\ \A r \in Requesters : pc'[r] = pc[r]
    BY <1>3, <1>a
    DEF Destroy, DestroyLock, DestroySignal, DestroyUnlock, DestroyTermLock,
        DestroyTermWait, DestroyTermWake, DestroyTermUnlock, DestroyClear,
        Acquire, Release, WaitOn, Wake, data, eval, Goto, TypeOK
  <2> QED
    BY <2>1, CallersKept
<1>4. ASSUME NEW t \in Threads, NEW k \in MonitorNames, SpuriousWakeup(t, k)
      PROVE  Callers'
  BY <1>4, CallersKept DEF SpuriousWakeup, eval
<1>5. CASE UNCHANGED vars
  BY <1>5, CallersKept DEF vars, data, eval
<1> QED
  BY <1>1, <1>2, <1>3, <1>4, <1>5 DEF Next

-----------------------------------------------------------------------------
(* Mailbox: an operation is evaluated once between its installation and    *)
(* the moment it is taken out, when no caller comes before the VM thread   *)
(* has emptied the slot for the first time.                                *)

LEMMA MailboxInit == Init => Mailbox
BY VMThreadAssumption
DEF Init, Mailbox, CallOf, BeforeStart, Threads, Executed, Pending, Ops

(* A step that changes neither the slot nor the number of evaluations.     *)
LEMMA MailboxKept ==
    ASSUME Mailbox, UNCHANGED <<next_operation, evaluated, started>>,
           UNCHANGED should_terminate \/ should_terminate',
           \A r \in Requesters : pc'[r] = pc[r],
           Executed' => Executed, Pending' => Pending,
           started /\ pc'[VM] \in {"loop", "lock", "clear"} => next_operation # NoOp,
           pc'[VM] = "recheck" => pc[VM] = "recheck",
           ~started => pc'[VM] \notin {"while", "waiting", "recheck", "enter", "doit",
                                       "finish"}
    PROVE  Mailbox'
<1>1. \A r \in Requesters : CallOf(r)'
  BY DEF Mailbox, CallOf
<1>2. ~started' => BeforeStart'
  BY DEF Mailbox, BeforeStart
<1>3. pc'[VM] = "recheck" => should_terminate' \/ next_operation' # NoOp
  BY DEF Mailbox
<1> QED
  BY <1>1, <1>2, <1>3 DEF Mailbox

LEMMA MailboxRequester ==
    ASSUME WaitForStartup, TypeOK, Frames, Slot, Mailbox, NEW r \in Requesters, Requester(r)
    PROVE  Mailbox'
<1> USE VMThreadAssumption
<1>a. VM \in Threads /\ r \in Threads /\ r # VM /\ NoOp # r
  BY DEF Threads, Ops
<1>b. /\ \A q \in Requesters : q # r => pc'[q] = pc[q]
      /\ pc'[VM] = pc[VM]
      /\ UNCHANGED <<frames, started, should_terminate>>
  BY <1>a, RequesterStep DEF Threads, term
<1>c. (Executed' <=> Executed) /\ (Pending' <=> Pending)
  BY <1>b DEF Executed, Pending
<1>d. started
  <2>1. CASE Execute(r) \/ PrologueRefuses(r)
    BY <2>1 DEF Execute, PrologueRefuses, Call
  <2>2. CASE ~Execute(r) /\ ~PrologueRefuses(r)
    <3>1. pc[r] # "idle"
      BY <2>2
      DEF Requester, LockOperation, Install, InstallWait, InstallWake, CheckWait,
          CheckWake, CheckDone, Return, Acquire, Release, WaitOn, Wake, At
    <3> QED
      BY <3>1 DEF Mailbox, BeforeStart
  <2> QED
    BY <2>1, <2>2
<1>e. ASSUME next_operation' = next_operation \/ next_operation' = r,
             next_operation = r => next_operation' = r,
             \A q \in Requesters : q # r => evaluated'[q] = evaluated[q] /\
                 (next_operation = q => next_operation' = q), CallOf(r)'
      PROVE  Mailbox'
  <2>1. \A q \in Requesters : q # r => CallOf(q)'
    BY <1>b, <1>c, <1>e DEF Mailbox, CallOf
  <2>2. pc[VM] \in {"loop", "lock", "clear"} => next_operation' # NoOp
    BY <1>a, <1>d, <1>e DEF Mailbox
  <2>3. pc[VM] = "recheck" => should_terminate \/ next_operation' # NoOp
    BY <1>a, <1>e DEF Mailbox
  <2> QED
    BY <1>b, <1>d, <1>e, <2>1, <2>2, <2>3 DEF Mailbox
<1>1. CASE Execute(r)
  <2>1. /\ pc[r] = "idle" /\ next_operation' = next_operation
        /\ evaluated' = [evaluated EXCEPT ![r] = 0]
        /\ pc'[r] \in {"idle", "lock"}
    BY <1>1, <1>a DEF Execute, Call, At, Goto, TypeOK
  <2>2. evaluated'[r] = 0 /\ \A q \in Requesters : q # r => evaluated'[q] = evaluated[q]
    BY <2>1 DEF TypeOK
  <2>3. next_operation' # r
    BY <2>1 DEF Slot
  <2>4. CallOf(r)'
    BY <2>1, <2>2, <2>3 DEF CallOf
  <2> QED
    BY <1>e, <2>1, <2>2, <2>4
<1>2. CASE PrologueRefuses(r)
  <2>1. pc' = pc /\ next_operation' = next_operation /\ evaluated' = evaluated
    BY <1>2 DEF PrologueRefuses, Call
  <2>2. CallOf(r)'
    BY <1>c, <2>1 DEF Mailbox, CallOf
  <2> QED
    BY <1>e, <2>1, <2>2
<1>3. CASE Install(r)
  <2>1. /\ pc[r] = "install" /\ pc'[r] = "check" /\ evaluated' = evaluated
        /\ next_operation = NoOp /\ next_operation' = r
    BY <1>3, <1>a DEF Install, At, Goto, history, TypeOK
  <2>2. evaluated[r] = 0
    BY <2>1 DEF Mailbox, CallOf
  <2>3. ~Executed
    <3>1. pc[VM] \notin {"loop", "lock", "clear"}
      BY <1>d, <2>1 DEF Mailbox
    <3>2. pc[VM] # "finish"
      BY <2>1 DEF Frames, Evaluating, Ops
    <3> QED
      BY <3>1, <3>2 DEF Executed
  <2>4. CallOf(r)'
    BY <1>c, <2>1, <2>2, <2>3 DEF CallOf
  <2>5. \A q \in Requesters : next_operation # q
    BY <2>1 DEF Ops
  <2> QED
    BY <1>e, <2>1, <2>4, <2>5
<1>4. CASE CheckDone(r)
  <2>1. /\ pc[r] = "check" /\ pc'[r] = "return" /\ evaluated' = evaluated
        /\ next_operation # r /\ next_operation' = next_operation
    BY <1>4, <1>a DEF CheckDone, Release, At, Goto, data, history, TypeOK
  <2>2. CallOf(r)'
    BY <2>1 DEF Mailbox, CallOf
  <2> QED
    BY <1>e, <2>1, <2>2
<1>5. CASE \/ LockOperation(r) \/ InstallWait(r) \/ InstallWake(r)
           \/ CheckWait(r) \/ CheckWake(r) \/ Return(r)
  <2>1. evaluated' = evaluated /\ next_operation' = next_operation
    BY <1>5
    DEF LockOperation, InstallWait, InstallWake, CheckWait, CheckWake, Return,
        Acquire, WaitOn, Wake, data, history
  <2>2. \/ /\ pc[r] \in {"lock", "install", "install_wait"}
           /\ pc'[r] \in {"lock", "install", "install_wait"}
        \/ pc[r] \in {"check", "check_wait"} /\ pc'[r] \in {"check", "check_wait"}
        \/ pc'[r] = "idle"
    BY <1>5, <1>a
    DEF LockOperation, InstallWait, InstallWake, CheckWait, CheckWake, Return,
        Acquire, WaitOn, Wake, At, Goto, TypeOK
  <2>3. CallOf(r)'
    BY <1>c, <2>1, <2>2 DEF Mailbox, CallOf
  <2> QED
    BY <1>e, <2>1, <2>3
<1> QED
  BY <1>1, <1>2, <1>3, <1>4, <1>5 DEF Requester

LEMMA MailboxStep ==
    ASSUME WaitForStartup, TypeOK, Frames, Slot, Mailbox, [Next]_vars
    PROVE  Mailbox'
<1> USE VMThreadAssumption
<1>a. VM \in Threads /\ Requesters \subseteq Threads /\ VM \notin Requesters
  BY DEF Threads
<1>b. NoOp \notin Requesters
  BY DEF Ops
<1>1. ASSUME NEW r \in Requesters, Requester(r)
      PROVE  Mailbox'
  BY <1>1, MailboxRequester
<1>2. CASE VMStep
  <2>0. \A r \in Requesters : pc'[r] = pc[r]
    BY <1>2, <1>a
    DEF VMStep, LoopTest, WaitLock, ClearNext, WhileDone, WhileWait, WhileWake,
        RecheckExit, TakeOperation, EnterOperation, DoitReturns, LeaveOperation,
        ExecuteNested, ExitSafepoint, TerminateLock, TerminateNotify, TerminateUnlock,
        Acquire, Release, Wake, Goto, TypeOK
  <2>1. CASE LoopTest \/ WaitLock
    <3>1. /\ UNCHANGED <<next_operation, evaluated, started, should_terminate>>
          /\ pc[VM] \in {"loop", "lock"} /\ pc'[VM] \in {"lock", "clear", "exit"}
      BY <1>a, <2>1 DEF LoopTest, WaitLock, Acquire, data, term, history, At, Goto, TypeOK
    <3>2. Executed /\ ~Pending'
      BY <3>1 DEF Executed, Pending
    <3>3. started => next_operation # NoOp
      BY <3>1 DEF Mailbox
    <3> QED
      BY <2>0, <3>1, <3>2, <3>3, MailboxKept
  <2>2. CASE ClearNext
    <3>1. /\ next_operation' = NoOp /\ evaluated' = evaluated /\ started'
          /\ pc[VM] = "clear" /\ pc'[VM] = "while"
      BY <1>a, <2>2 DEF ClearNext, At, Goto, TypeOK
    <3>2. \A r \in Requesters : CallOf(r)'
      BY <1>b, <2>0, <3>1 DEF Mailbox, CallOf, Executed
    <3> QED
      BY <3>1, <3>2 DEF Mailbox
  <2>3. CASE WhileDone
    <3>1. /\ UNCHANGED <<next_operation, evaluated, started, should_terminate>>
          /\ pc[VM] = "while" /\ pc'[VM] = "recheck"
          /\ should_terminate \/ next_operation # NoOp
      BY <1>a, <2>3 DEF WhileDone, Release, data, term, history, At, Goto, TypeOK
    <3>2. \A r \in Requesters : CallOf(r)'
      BY <2>0, <3>1 DEF Mailbox, CallOf, Executed, Pending
    <3>3. started
      BY <3>1 DEF Mailbox, BeforeStart
    <3> QED
      BY <3>1, <3>2, <3>3 DEF Mailbox
  <2>4. CASE WhileWait \/ WhileWake
    <3>1. /\ UNCHANGED <<next_operation, evaluated, started, should_terminate>>
          /\ pc[VM] \in {"while", "waiting"} /\ pc'[VM] \in {"while", "waiting"}
      BY <1>a, <2>4 DEF WhileWait, WhileWake, Wake, data, term, history, At, Goto, TypeOK
    <3>2. Pending /\ ~Executed'
      BY <3>1 DEF Executed, Pending
    <3>3. started
      BY <3>1 DEF Mailbox, BeforeStart
    <3> QED
      BY <2>0, <3>1, <3>2, <3>3, MailboxKept
  <2>5. CASE \/ RecheckExit \/ ExitSafepoint
             \/ TerminateLock \/ TerminateNotify \/ TerminateUnlock
    <3>1. /\ UNCHANGED <<next_operation, evaluated, started, should_terminate>>
          /\ pc'[VM] \in {"exit", "term_lock", "term_notify", "term_unlock", "terminated"}
      BY <1>a, <2>5
      DEF RecheckExit, ExitSafepoint, TerminateLock, TerminateNotify, TerminateUnlock,
          Acquire, Release, data, term, history, At, Goto, TypeOK
    <3>2. ~Pending' /\ ~Executed'
      BY <3>1 DEF Executed, Pending
    <3> QED
      BY <2>0, <3>1, <3>2, MailboxKept
  <2>6. CASE TakeOperation
    <3>1. UNCHANGED <<next_operation, evaluated, started, should_terminate>>
          /\ pc[VM] = "recheck" /\ pc'[VM] \in {"recheck", "enter"}
      BY <1>a, <2>6 DEF TakeOperation, term, history, At, Goto, TypeOK
    <3>2. Pending /\ ~Executed'
      BY <3>1 DEF Executed, Pending
    <3>3. started
      BY <3>1 DEF Mailbox, BeforeStart
    <3> QED
      BY <2>0, <3>1, <3>2, <3>3, MailboxKept
  <2>7. ASSUME EnterOperation \/ \E op \in NestedOps : ExecuteNested(op)
        PROVE  Mailbox'
    <3>1. UNCHANGED <<next_operation, evaluated, started, should_terminate>>
          /\ pc[VM] \in {"enter", "doit"} /\ pc'[VM] \in {"enter", "doit"}
      BY <1>a, <2>7 DEF EnterOperation, ExecuteNested, term, history, At, Goto, TypeOK
    <3>2. Pending /\ ~Executed'
      BY <3>1 DEF Executed, Pending
    <3>3. started
      BY <3>1 DEF Mailbox, BeforeStart
    <3> QED
      BY <2>0, <3>1, <3>2, <3>3, MailboxKept
  <2>8. CASE DoitReturns
    <3>1. /\ UNCHANGED <<next_operation, started, should_terminate, frames>>
          /\ pc[VM] = "doit" /\ pc'[VM] = "finish"
          /\ frames # <<>> /\ frames \in Seq(Frame)
          /\ \A r \in Requesters : evaluated'[r] =
                IF r = cur_operation THEN evaluated[r] + 1 ELSE evaluated[r]
      BY <1>a, <2>8
      DEF DoitReturns, eval, term, At, Goto, TypeOK, Frames, Evaluating
    <3>2. started /\ Pending /\ Len(frames) \in Nat \ {0}
      BY <3>1 DEF Mailbox, BeforeStart, Pending
    <3>3. CASE Len(frames) = 1
      <4>1. cur_operation = next_operation
        BY <3>1, <3>3 DEF cur_operation, current, Frames
      <4>2. Executed' /\ ~Pending'
        BY <3>1, <3>3 DEF Executed, Pending
      <4>3. \A r \in Requesters : CallOf(r)'
        BY <2>0, <3>1, <3>2, <4>1, <4>2 DEF Mailbox, CallOf, Slot
      <4> QED
        BY <3>1, <3>2, <4>3 DEF Mailbox
    <3>4. CASE Len(frames) # 1
      <4>1. cur_operation \in NestedOps
        <5>0. Len(frames) \in Nat \ {0}
          BY <3>1
        <5>a. \A n \in Nat \ {0} : n # 1 => n \in 2..n
          OBVIOUS
        <5>1. Len(frames) \in 2..Len(frames)
          BY <3>4, <5>0, <5>a, Zenon
        <5>2. \A i \in 2..Len(frames) : frames[i].op \in NestedOps
          BY DEF Frames
        <5>3. frames[Len(frames)].op \in NestedOps
          BY <5>1, <5>2, Zenon
        <5> QED
          BY <3>1, <5>3 DEF cur_operation, current
      <4>2. ~Executed' /\ \A r \in Requesters : evaluated'[r] = evaluated[r]
        BY <3>1, <3>4, <4>1 DEF Executed
      <4>3. \A r \in Requesters : CallOf(r)'
        BY <2>0, <3>1, <3>2, <4>2 DEF Mailbox, CallOf
      <4> QED
        BY <3>1, <3>2, <4>3 DEF Mailbox
    <3> QED
      BY <3>3, <3>4
  <2>9. CASE LeaveOperation
    <3>1. /\ UNCHANGED <<next_operation, evaluated, started, should_terminate>>
          /\ pc[VM] = "finish" /\ next_operation # NoOp /\ frames # <<>>
          /\ frames \in Seq(Frame)
      BY <1>b, <2>9 DEF LeaveOperation, term, history, At, Frames, Evaluating, TypeOK
    <3>2. started
      BY <3>1 DEF Mailbox, BeforeStart
    <3>3. CASE EndsSafepoint /\ ~at_safepoint
      <4>1. UNCHANGED <<pc, frames>>
        BY <2>9, <3>3 DEF LeaveOperation
      <4> QED
        BY <3>1, <3>2, <4>1, MailboxKept DEF Executed, Pending, Mailbox
    <3>4. CASE ~(EndsSafepoint /\ ~at_safepoint)
      <4>1. pc'[VM] = IF Len(frames) = 1 THEN "loop" ELSE "doit"
        BY <1>a, <2>9, <3>4 DEF LeaveOperation, Goto, TypeOK
      <4>2. (Executed' => Executed) /\ (Pending' => Pending)
        BY <3>1, <4>1 DEF Executed, Pending
      <4> QED
        BY <2>0, <3>1, <3>2, <4>1, <4>2, MailboxKept
    <3> QED
      BY <3>3, <3>4
  <2> QED
    BY <1>2, <2>1, <2>2, <2>3, <2>4, <2>5, <2>6, <2>7, <2>8, <2>9 DEF VMStep
<1>3. CASE Destroy
  <2>1. /\ UNCHANGED <<next_operation, evaluated, started, frames>>
        /\ UNCHANGED should_terminate \/ should_terminate'
        /\ pc'[VM] = pc[VM] /\ \A r \in Requesters : pc'[r] = pc[r]
    BY <1>3, <1>a
    DEF Destroy, DestroyLock, DestroySignal, DestroyUnlock, DestroyTermLock,
        DestroyTermWait, DestroyTermWake, DestroyTermUnlock, DestroyClear,
        Acquire, Release, WaitOn, Wake, data, eval, term, history, Goto, TypeOK
  <2>2. (Executed' => Executed) /\ (Pending' => Pending)
    BY <2>1 DEF Executed, Pending
  <2> QED
    BY <2>1, <2>2, MailboxKept DEF Mailbox, BeforeStart
<1>4. ASSUME NEW t \in Threads, NEW k \in MonitorNames, SpuriousWakeup(t, k)
      PROVE  Mailbox'
  <2>1. UNCHANGED <<pc, next_operation, evaluated, started, frames, should_terminate>>
    BY <1>4 DEF SpuriousWakeup, eval, term
  <2> QED
    BY <2>1, MailboxKept DEF Executed, Pending, Mailbox, BeforeStart
<1>5. CASE UNCHANGED vars
  <2>1. UNCHANGED <<pc, next_operation, evaluated, started, frames, should_terminate>>
    BY <1>5 DEF vars, data, eval, term, history
  <2> QED
    BY <2>1, MailboxKept DEF Executed, Pending, Mailbox, BeforeStart
<1> QED
  BY <1>1, <1>2, <1>3, <1>4, <1>5 DEF Next

-----------------------------------------------------------------------------
(* No assertion fails: the VM thread takes an operation only when there is *)
(* one, and begins and ends safepoints in pairs.                           *)

LEMMA AssertionsStep ==
    ASSUME TypeOK, Frames, SafepointBegun, Mailbox, AssertionsHold, [Next]_vars
    PROVE  AssertionsHold'
<1> VM \in Threads
  BY DEF Threads
<1>1. ASSUME NEW r \in Requesters, Requester(r)
      PROVE  AssertionsHold'
  <2>1. vm_error' = vm_error \/ vm_error' = "null VMThread"
    BY <1>1
    DEF Requester, Execute, PrologueRefuses, LockOperation, Install, InstallWait,
        InstallWake, CheckWait, CheckWake, CheckDone, Return, Acquire, Release, WaitOn,
        Wake, data
  <2> QED
    BY <2>1 DEF AssertionsHold
<1>2. CASE VMStep
  <2>1. CASE TakeOperation
    BY <2>1 DEF TakeOperation, At, Mailbox, AssertionsHold
  <2>2. CASE LeaveOperation
    <3>1. frames # <<>> /\ frames \in Seq(Frame)
      BY <2>2 DEF LeaveOperation, At, Frames, Evaluating, TypeOK
    <3>2. Len(frames) \in 1..Len(frames)
      BY <3>1
    <3>3. EndsSafepoint => at_safepoint
      BY <3>2 DEF EndsSafepoint, current, SafepointBegun
    <3> QED
      BY <2>2, <3>3 DEF LeaveOperation, AssertionsHold
  <2>3. CASE ExitSafepoint
    <3>1. frames = <<>> /\ pc[VM] = "exit"
      BY <2>3 DEF ExitSafepoint, At, Frames, Evaluating
    <3>2. ~at_safepoint
      BY <3>1 DEF SafepointBegun
    <3> QED
      BY <2>3, <3>2 DEF ExitSafepoint, AssertionsHold
  <2>4. CASE Outside \/ EnterOperation \/ DoitReturns \/ \E op \in NestedOps : ExecuteNested(op)
    BY <2>4
    DEF Outside, LoopTest, WaitLock, ClearNext, WhileDone, WhileWait, WhileWake,
        RecheckExit, TerminateLock, TerminateNotify, TerminateUnlock, EnterOperation,
        DoitReturns, ExecuteNested, Acquire, Release, Wake, data, AssertionsHold
  <2> QED
    BY <1>2, <2>1, <2>2, <2>3, <2>4 DEF VMStep, Outside
<1>3. CASE Destroy
  BY <1>3
  DEF Destroy, DestroyLock, DestroySignal, DestroyUnlock, DestroyTermLock,
      DestroyTermWait, DestroyTermWake, DestroyTermUnlock, DestroyClear,
      Acquire, Release, WaitOn, Wake, data, AssertionsHold
<1>4. ASSUME NEW t \in Threads, NEW k \in MonitorNames, SpuriousWakeup(t, k)
      PROVE  AssertionsHold'
  BY <1>4 DEF SpuriousWakeup, AssertionsHold
<1>5. CASE UNCHANGED vars
  BY <1>5 DEF vars, data, AssertionsHold
<1> QED
  BY <1>1, <1>2, <1>3, <1>4, <1>5 DEF Next

-----------------------------------------------------------------------------
(* The theorems.  Inv holds however early a caller comes; Served also needs*)
(* that callers wait for the VM thread to come up.                         *)

Inv == TypeOK /\ Control /\ Frames /\ SafepointBegun /\ Slot /\ Callers /\ Exit

Served == Inv /\ Mailbox /\ AssertionsHold

LEMMA Invariance == Spec => []Inv
<1>1. Init => Inv
  <2> SUFFICES ASSUME Init PROVE Inv
    OBVIOUS
  <2>1. Slot /\ Callers /\ Exit
    BY VMThreadAssumption DEF Init, Slot, Callers, CallingThread, Exit, Threads, Ops
  <2> QED
    BY <2>1, TypeInit, ControlInit, FramesInit, SafepointInit DEF Inv
<1>2. Inv /\ [Next]_vars => Inv'
  BY TypeStep, ControlStep, FramesStep, SafepointStep, SlotStep, CallersStep, ExitStep
  DEF Inv
<1> QED
  BY <1>1, <1>2, PTL DEF Spec

LEMMA ServedInvariance == WaitForStartup => (Spec => []Served)
<1> SUFFICES ASSUME WaitForStartup PROVE Spec => []Served
  OBVIOUS
<1>1. Init => Mailbox /\ AssertionsHold
  BY MailboxInit DEF Init, AssertionsHold
<1>2. Inv /\ Mailbox /\ AssertionsHold /\ [Next]_vars => (Mailbox /\ AssertionsHold)'
  BY MailboxStep, AssertionsStep DEF Inv
<1> QED
  BY <1>1, <1>2, Invariance, PTL DEF Spec, Served

(* A VM_Operation lives on the stack of its caller (StackObject): as long  *)
(* as the slot or an activation of inner_execute points to it, the caller  *)
(* is inside wait_until_executed.  This needs no assumption on start-up or *)
(* shut-down.                                                              *)
THEOREM NoDangling == Spec => []NoDanglingOperation
<1>1. Inv => NoDanglingOperation
  <2> SUFFICES ASSUME Inv, NEW r \in Requesters,
                      next_operation = r \/ \E i \in 1..Len(frames) : frames[i].op = r
               PROVE  pc[r] \in {"check", "check_wait"}
    BY DEF NoDanglingOperation
  <2>1. CASE next_operation = r
    BY <2>1 DEF Inv, Slot
  <2>2. ASSUME NEW i \in 1..Len(frames), frames[i].op = r
        PROVE  next_operation = r
    <3>1. Len(frames) \in Nat /\ frames # <<>>
      BY <2>2 DEF Inv, TypeOK
    <3>2. CASE i = 1
      BY <2>2, <3>1, <3>2 DEF Inv, Frames
    <3>3. CASE i \in 2..Len(frames)
      BY <2>2, <3>3, VMThreadAssumption DEF Inv, Frames
    <3> QED
      BY <3>1, <3>2, <3>3
  <2> QED
    BY <2>1, <2>2 DEF Inv, Slot
<1> QED
  BY <1>1, Invariance, PTL

(* inner_execute keeps the safepoint from before doit() of the operation   *)
(* that asked for it until after, and the VM thread never waits in one.    *)
THEOREM SafepointPaired == Spec => [](SafepointHeld /\ SafepointReleased)
<1>1. Inv => SafepointHeld
  <2> SUFFICES ASSUME Inv, NEW i \in 1..Len(frames), frames[i].op \in AtSafepoint,
                      i < Len(frames) \/ pc[VM] \in {"doit", "finish"}
               PROVE  at_safepoint
    BY DEF SafepointHeld
  <2>1. PICK j \in 1..i : frames[j].end_safepoint
    BY DEF Inv, SafepointBegun
  <2>2. j \in 1..Len(frames)
    BY DEF Inv, TypeOK
  <2> QED
    BY <2>1, <2>2 DEF Inv, SafepointBegun
<1>2. Inv => SafepointReleased
  BY DEF Inv, SafepointBegun, Frames, Evaluating, SafepointReleased
<1> QED
  BY <1>1, <1>2, Invariance, PTL

(* Whatever is nested in what, calling_thread() is the thread that called  *)
(* execute for the outermost operation (VMThread.cpp:104).                 *)
THEOREM CallerKnown == Spec => []CallingThread
<1>1. Inv => CallingThread
  BY DEF Inv, Callers
<1> QED
  BY <1>1, Invariance, PTL

(* destroy() clears _vm_thread only when run() has reached its last        *)
(* safepoint and told so under terminate_lock.                             *)
THEOREM DestroyWaits == Spec => []DestroyWaitsForExit
<1>1. Inv => DestroyWaitsForExit
  BY DEF Inv, Exit, SafepointBegun, DestroyWaitsForExit
<1> QED
  BY <1>1, Invariance, PTL

(* With callers that wait for the VM thread to come up, a call of execute  *)
(* returns only after its operation has been evaluated, exactly once.      *)
THEOREM ReturnsEvaluated == WaitForStartup => (Spec => []ReturnMeansEvaluated)
<1>1. Served => ReturnMeansEvaluated
  BY DEF Served, Mailbox, CallOf, ReturnMeansEvaluated
<1> QED
  BY <1>1, ServedInvariance, PTL

(* The assertion of loop (VMThread.cpp:71) and those of the safepoint code *)
(* that inner_execute and run reach never fail.                            *)
THEOREM NoAssertionFails == WaitForStartup => (Spec => []AssertionsHold)
<1>1. Served => AssertionsHold
  BY DEF Served
<1> QED
  BY <1>1, ServedInvariance, PTL

(* An operation is taken out of the slot only after its evaluation, and    *)
(* never overwritten by that of another caller.                            *)
THEOREM NotOverwritten == WaitForStartup => (Spec => PendingNotOverwritten)
<1> SUFFICES ASSUME WaitForStartup PROVE Spec => PendingNotOverwritten
  OBVIOUS
<1> USE VMThreadAssumption
<1>1. Served /\ [Next]_vars =>
        (next_operation' # next_operation /\ next_operation \in Requesters
           => next_operation' = NoOp /\ evaluated[next_operation] = 1)
  <2> SUFFICES ASSUME Served, Next, next_operation' # next_operation,
                      next_operation \in Requesters
               PROVE  next_operation' = NoOp /\ evaluated[next_operation] = 1
    BY DEF vars, data
  <2>1. ~\E r \in Requesters : Requester(r)
    BY DEF Requester, Execute, PrologueRefuses, Call, LockOperation, Install,
           InstallWait, InstallWake, CheckWait, CheckWake, CheckDone, Return,
           Acquire, Release, WaitOn, Wake, data, Ops
  <2>2. ~Destroy /\ ~\E t \in Threads, k \in MonitorNames : SpuriousWakeup(t, k)
    BY DEF Destroy, DestroyLock, DestroySignal, DestroyUnlock, DestroyTermLock,
           DestroyTermWait, DestroyTermWake, DestroyTermUnlock, DestroyClear,
           SpuriousWakeup, Acquire, Release, WaitOn, Wake, data
  <2>3. ClearNext
    BY <2>1, <2>2
    DEF Next, VMStep, LoopTest, WaitLock, WhileDone, WhileWait, WhileWake,
        RecheckExit, TakeOperation, EnterOperation, DoitReturns, LeaveOperation,
        ExecuteNested, ExitSafepoint, TerminateLock, TerminateNotify, TerminateUnlock,
        Acquire, Release, Wake, data
  <2> QED
    BY <2>3 DEF ClearNext, At, Served, Mailbox, CallOf, Executed
<1> QED
  BY <1>1, ServedInvariance, PTL DEF Spec, PendingNotOverwritten

-----------------------------------------------------------------------------
(* The mailbox protocol implements the service VMOperationService, for     *)
(* every set of requesters and operations: under the mapping `status` each *)
(* step is a step of the service or changes nothing it can see.            *)

Working(r) == frames # <<>> /\ frames[1].op = r

(* The status of r is settled by three facts about r.                      *)
StatusOf(r) ==
    IF pc[r] = "idle" THEN "idle"
    ELSE IF Working(r) THEN "running"
    ELSE IF evaluated[r] = 1 THEN "done" ELSE "requested"

LEMMA StatusKept ==
    ASSUME \A r \in Requesters : StatusOf(r)' = StatusOf(r)
    PROVE  status' = status
<1>1. /\ status = [r \in Requesters |-> StatusOf(r)]
      /\ status' = [r \in Requesters |-> StatusOf(r)']
  BY DEF status, StatusOf, Working
<1> QED
  BY <1>1

LEMMA StatusChange ==
    ASSUME NEW r \in Requesters, NEW v, StatusOf(r)' = v,
           \A q \in Requesters : q # r => StatusOf(q)' = StatusOf(q)
    PROVE  status[r] = StatusOf(r) /\ status' = [status EXCEPT ![r] = v]
<1>1. /\ status = [q \in Requesters |-> StatusOf(q)]
      /\ status' = [q \in Requesters |-> StatusOf(q)']
  BY DEF status, StatusOf, Working
<1> HIDE DEF StatusOf
<1> QED
  BY <1>1

LEMMA StatusAt == ASSUME NEW r \in Requesters PROVE status[r] = StatusOf(r)
BY DEF status, StatusOf, Working

-----------------------------------------------------------------------------
(* Steps of requesters.                                                    *)

LEMMA RequesterRefines ==
    ASSUME WaitForStartup, Served, NEW r \in Requesters, Requester(r)
    PROVE  [Service!Next]_status
<1> USE VMThreadAssumption
<1>a. Requesters \subseteq Threads /\ VM \notin Requesters
  BY DEF Threads
<1>b. frames' = frames /\ \A q \in Requesters : q # r => pc'[q] = pc[q]
  BY <1>a, RequesterStep DEF Served, Inv
<1>c. \A q \in Requesters : Working(q)' <=> Working(q)
  BY <1>b DEF Working
<1>d. Working(r) => pc[r] \in {"check", "check_wait"}
  BY DEF Working, Served, Inv, Frames, Slot
<1>1. CASE Execute(r)
  <2>1. /\ pc[r] = "idle" /\ evaluated' = [evaluated EXCEPT ![r] = 0]
        /\ pc'[r] \in {"idle", "lock"}
    BY <1>1, <1>a DEF Execute, Call, At, Goto, Served, Inv, TypeOK
  <2>2. evaluated'[r] = 0 /\ \A q \in Requesters : q # r => evaluated'[q] = evaluated[q]
    BY <2>1 DEF Served, Inv, TypeOK
  <2>3. \A q \in Requesters : q # r => StatusOf(q)' = StatusOf(q)
    BY <1>b, <1>c, <2>2 DEF StatusOf
  <2>4. CASE pc'[r] = "idle"
    <3>1. StatusOf(r)' = StatusOf(r)
      BY <2>1, <2>4 DEF StatusOf
    <3> QED
      BY <2>3, <3>1, StatusKept
  <2>5. CASE pc'[r] = "lock"
    <3>1. StatusOf(r) = "idle" /\ StatusOf(r)' = "requested"
      BY <1>c, <1>d, <2>1, <2>2, <2>5 DEF StatusOf
    <3>2. status[r] = "idle" /\ status' = [status EXCEPT ![r] = "requested"]
      BY <2>3, <3>1, StatusChange
    <3> QED
      BY <3>2 DEF Service!Next, Service!Request
  <2> QED
    BY <2>1, <2>4, <2>5
<1>2. CASE Return(r)
  <2>1. pc[r] = "return" /\ pc'[r] = "idle" /\ evaluated' = evaluated
    BY <1>2, <1>a DEF Return, At, Goto, data, history, Served, Inv, TypeOK
  <2>2. StatusOf(r) = "done" /\ StatusOf(r)' = "idle"
    BY <1>d, <2>1 DEF StatusOf, Served, Mailbox, CallOf
  <2>3. \A q \in Requesters : q # r => StatusOf(q)' = StatusOf(q)
    BY <1>b, <1>c, <2>1 DEF StatusOf
  <2>4. status[r] = "done" /\ status' = [status EXCEPT ![r] = "idle"]
    BY <2>2, <2>3, StatusChange
  <2> QED
    BY <2>4 DEF Service!Next, Service!Return
<1>3. CASE ~Execute(r) /\ ~Return(r)
  <2>1. evaluated' = evaluated
    BY <1>3
    DEF Requester, PrologueRefuses, LockOperation, Install, InstallWait, InstallWake,
        CheckWait, CheckWake, CheckDone, Acquire, Release, WaitOn, Wake, data, history
  <2>2. pc[r] = "idle" <=> pc'[r] = "idle"
    BY <1>3, <1>a
    DEF Requester, PrologueRefuses, LockOperation, Install, InstallWait, InstallWake,
        CheckWait, CheckWake, CheckDone, Acquire, Release, WaitOn, Wake, At, Goto,
        Served, Inv, TypeOK
  <2>3. \A q \in Requesters : StatusOf(q)' = StatusOf(q)
    BY <1>b, <1>c, <2>1, <2>2 DEF StatusOf
  <2> QED
    BY <2>3, StatusKept
<1> QED
  BY <1>1, <1>2, <1>3

-----------------------------------------------------------------------------
(* Steps of the VM thread: it starts the operation it takes, and finishes  *)
(* it when the outermost activation returns.                               *)

LEMMA VMRefines ==
    ASSUME Served, VMStep
    PROVE  [Service!Next]_status
<1> USE VMThreadAssumption
<1>a. VM \in Threads /\ Requesters \subseteq Threads /\ VM \notin Requesters
  BY DEF Threads
<1>b. \A r \in Requesters : pc'[r] = pc[r]
  BY <1>a
  DEF VMStep, LoopTest, WaitLock, ClearNext, WhileDone, WhileWait, WhileWake,
      RecheckExit, TakeOperation, EnterOperation, DoitReturns, LeaveOperation,
      ExecuteNested, ExitSafepoint, TerminateLock, TerminateNotify, TerminateUnlock,
      Acquire, Release, Wake, Goto, Served, Inv, TypeOK
<1>c. TypeOK /\ Frames
  BY DEF Served, Inv
<1>1. CASE Outside \/ ExitSafepoint
  <2>1. UNCHANGED <<frames, evaluated>>
    BY <1>1
    DEF Outside, LoopTest, WaitLock, ClearNext, WhileDone, WhileWait, WhileWake,
        RecheckExit, ExitSafepoint, TerminateLock, TerminateNotify, TerminateUnlock,
        Acquire, Release, Wake, data, eval, history
  <2> QED
    BY <1>b, <2>1, StatusKept DEF StatusOf, Working
<1>2. CASE TakeOperation
  <2>1. frames = <<>> /\ evaluated' = evaluated /\ pc[VM] = "recheck"
    BY <1>2, <1>c DEF TakeOperation, history, At, Frames, Evaluating
  <2>2. CASE next_operation = NoOp
    <3>1. frames' = frames
      BY <1>2, <2>2 DEF TakeOperation
    <3> QED
      BY <1>b, <2>1, <3>1, StatusKept DEF StatusOf, Working
  <2>3. CASE next_operation # NoOp
    <3>1. PICK r \in Requesters : r = next_operation
      BY <1>c, <2>3 DEF TypeOK
    <3>2. frames' = <<Entered(r)>> /\ Entered(r).op = r
      BY <1>2, <2>1, <2>3, <3>1 DEF TakeOperation, Entered, Activation
    <3>3. \A q \in Requesters : ~Working(q) /\ (Working(q)' <=> q = r)
      BY <2>1, <3>2 DEF Working
    <3>4. pc[r] # "idle" /\ evaluated[r] = 0
      BY <2>1, <3>1 DEF Served, Inv, Slot, Mailbox, CallOf, Pending
    <3>5. StatusOf(r) = "requested" /\ StatusOf(r)' = "running"
      BY <1>b, <2>1, <3>1, <3>3, <3>4 DEF StatusOf
    <3>6. \A q \in Requesters : q # r => StatusOf(q)' = StatusOf(q)
      BY <1>b, <2>1, <3>3 DEF StatusOf
    <3>7. \A q \in Requesters : StatusOf(q) # "running"
      BY <3>3 DEF StatusOf
    <3>8. \A q \in Requesters : status[q] # "running"
      BY <3>7, StatusAt
    <3>9. status[r] = "requested" /\ status' = [status EXCEPT ![r] = "running"]
      BY <3>1, <3>5, <3>6, StatusChange
    <3> QED
      BY <3>1, <3>8, <3>9 DEF Service!Next, Service!Start
  <2> QED
    BY <2>2, <2>3
<1>3. ASSUME EnterOperation \/ \E op \in NestedOps : ExecuteNested(op)
      PROVE  [Service!Next]_status
  <2>1. frames # <<>> /\ frames \in Seq(Frame) /\ evaluated' = evaluated
    BY <1>3, <1>c
    DEF EnterOperation, ExecuteNested, history, At, Frames, Evaluating, TypeOK
  <2>2. frames' # <<>> /\ frames'[1].op = frames[1].op
    <3>1. CASE EnterOperation
      <4> DEFINE a == Activation(cur_operation, BeginsSafepoint, current.nested)
      <4>1. a \in Frame /\ a.op = current.op
        BY <1>c, <2>1, TopFrame
        DEF TypeOK, Frame, BeginsSafepoint, Activation, cur_operation
      <4>2. frames' = WithCurrent(a)
        BY <3>1 DEF EnterOperation
      <4> HIDE DEF a
      <4> QED
        BY <2>1, <4>1, <4>2, TopFrame DEF current
    <3>2. ASSUME NEW op \in NestedOps, ExecuteNested(op)
          PROVE  frames' # <<>> /\ frames'[1].op = frames[1].op
      <4>1. CASE cur_operation \notin NestingAllowed
        BY <2>1, <3>2, <4>1 DEF ExecuteNested
      <4>2. CASE cur_operation \in NestingAllowed
        <5> DEFINE a == Activation(cur_operation, current.end_safepoint,
                                   current.nested + 1)
                   g == WithCurrent(a)
        <5>1. a \in Frame /\ a.op = current.op
          BY <1>c, <2>1, <3>2, TopFrame
          DEF ExecuteNested, Frame, Activation, cur_operation
        <5>2. Entered(op) \in Frame
          BY DEF Entered, Activation, Frame, Ops
        <5> HIDE DEF a
        <5>3. g \in Seq(Frame) /\ Len(g) \in Nat \ {0} /\ g[1].op = frames[1].op
          BY <2>1, <5>1, TopFrame DEF current
        <5>4. frames' = Append(g, Entered(op))
          BY <3>2, <4>2 DEF ExecuteNested, a
        <5> HIDE DEF g
        <5> QED
          BY <5>2, <5>3, <5>4, PushFrame
      <4> QED
        BY <4>1, <4>2
    <3> QED
      BY <1>3, <3>1, <3>2
  <2> QED
    BY <1>b, <2>1, <2>2, StatusKept DEF StatusOf, Working
<1>4. CASE DoitReturns
  <2>1. /\ frames' = frames /\ frames # <<>> /\ frames \in Seq(Frame)
        /\ \A r \in Requesters : evaluated'[r] =
              IF r = cur_operation THEN evaluated[r] + 1 ELSE evaluated[r]
    BY <1>4, <1>c DEF DoitReturns, eval, At, Frames, Evaluating, TypeOK
  <2>2. \A r \in Requesters : r = cur_operation => Working(r)
    <3>1. Len(frames) \in 1..Len(frames)
      BY <2>1
    <3>2. frames[Len(frames)].op \in NestedOps \/ Len(frames) = 1
      <4>1. \A i \in 2..Len(frames) : frames[i].op \in NestedOps
        BY <1>c DEF Frames
      <4>2. \A n \in 1..Len(frames) : n = 1 \/ n \in 2..Len(frames)
        BY <2>1
      <4> QED
        BY <3>1, <4>1, <4>2, Zenon
    <3> QED
      BY <2>1, <3>2 DEF cur_operation, current, Working
  <2>3. \A r \in Requesters : Working(r)' <=> Working(r)
    BY <2>1 DEF Working
  <2>4. \A r \in Requesters : StatusOf(r)' = StatusOf(r)
    BY <1>b, <2>1, <2>2, <2>3 DEF StatusOf
  <2> QED
    BY <2>4, StatusKept
<1>5. CASE LeaveOperation
  <2>1. /\ frames # <<>> /\ frames \in Seq(Frame) /\ evaluated' = evaluated
        /\ pc[VM] = "finish"
    BY <1>5, <1>c DEF LeaveOperation, history, At, Frames, Evaluating, TypeOK
  <2>2. CASE EndsSafepoint /\ ~at_safepoint
    <3>1. frames' = frames
      BY <1>5, <2>2 DEF LeaveOperation
    <3> QED
      BY <1>b, <2>1, <3>1, StatusKept DEF StatusOf, Working
  <2>3. CASE ~(EndsSafepoint /\ ~at_safepoint)
    <3>1. /\ Len(frames) \in Nat \ {0} /\ Len(frames') = Len(frames) - 1
          /\ frames' \in Seq(Frame) /\ \A i \in 1..Len(frames') : frames'[i] = frames[i]
      BY <1>5, <2>1, <2>3, PopFrame DEF LeaveOperation
    <3>2. CASE Len(frames) # 1
      <4>1. frames' # <<>> /\ frames'[1] = frames[1]
        BY <3>1, <3>2
      <4> QED
        BY <1>b, <2>1, <4>1, StatusKept DEF StatusOf, Working
    <3>3. CASE Len(frames) = 1
      <4>1. PICK r \in Requesters : r = next_operation /\ r = frames[1].op
        BY <1>c, <2>1 DEF Frames
      <4>2. frames' = <<>>
        BY <3>1, <3>3
      <4>3. \A q \in Requesters : ~Working(q)' /\ (Working(q) <=> q = r)
        BY <2>1, <4>1, <4>2 DEF Working
      <4>4. Executed
        BY <2>1, <3>3 DEF Executed
      <4>5. pc[r] # "idle" /\ evaluated[r] = 1
        BY <4>1, <4>4 DEF Served, Inv, Slot, Mailbox, CallOf
      <4>6. StatusOf(r) = "running" /\ StatusOf(r)' = "done"
        BY <1>b, <2>1, <4>1, <4>3, <4>5 DEF StatusOf
      <4>7. \A q \in Requesters : q # r => StatusOf(q)' = StatusOf(q)
        BY <1>b, <2>1, <4>3 DEF StatusOf
      <4>8. status[r] = "running" /\ status' = [status EXCEPT ![r] = "done"]
        BY <4>1, <4>6, <4>7, StatusChange
      <4> QED
        BY <4>1, <4>8 DEF Service!Next, Service!Finish
    <3> QED
      BY <3>2, <3>3
  <2> QED
    BY <2>2, <2>3
<1> QED
  BY <1>1, <1>2, <1>3, <1>4, <1>5 DEF VMStep, Outside

LEMMA StepRefines ==
    ASSUME WaitForStartup, Served, [Next]_vars
    PROVE  [Service!Next]_status
<1>a. Requesters \subseteq Threads /\ Main \notin Requesters
  BY VMThreadAssumption DEF Threads
<1>1. CASE Destroy
  <2>1. UNCHANGED <<frames, evaluated>> /\ \A r \in Requesters : pc'[r] = pc[r]
    BY <1>a, <1>1
    DEF Destroy, DestroyLock, DestroySignal, DestroyUnlock, DestroyTermLock,
        DestroyTermWait, DestroyTermWake, DestroyTermUnlock, DestroyClear,
        Acquire, Release, WaitOn, Wake, data, eval, history, Goto, Served, Inv, TypeOK
  <2> QED
    BY <2>1, StatusKept DEF StatusOf, Working
<1>2. ASSUME NEW t \in Threads, NEW k \in MonitorNames, SpuriousWakeup(t, k)
      PROVE  status' = status
  BY <1>2, StatusKept DEF SpuriousWakeup, eval, StatusOf, Working
<1>3. CASE UNCHANGED vars
  BY <1>3, StatusKept DEF vars, data, eval, history, StatusOf, Working
<1> QED
  BY <1>1, <1>2, <1>3, RequesterRefines, VMRefines DEF Next

-----------------------------------------------------------------------------
(* The comment on VMThread::execute, "send a VM_Operation to the VMThread  *)
(* and wait until it has completed", made precise: with callers that wait  *)
(* for the VM thread to come up, every behaviour of the mailbox protocol   *)
(* is a behaviour of VMOperationService.                                   *)
THEOREM Refinement == WaitForStartup => (Spec => ImplementsService)
<1> SUFFICES ASSUME WaitForStartup PROVE Spec => ImplementsService
  OBVIOUS
<1>1. Init => Service!Init
  BY VMThreadAssumption DEF Init, Service!Init, status, Threads
<1>2. Served /\ [Next]_vars => [Service!Next]_status
  BY StepRefines
<1> QED
  BY <1>1, <1>2, ServedInvariance, PTL DEF Spec, ImplementsService, Service!Spec
=============================================================================
