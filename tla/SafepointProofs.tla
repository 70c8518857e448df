-------------------------- MODULE SafepointProofs --------------------------
(***************************************************************************)
(* Theorems about Safepoint, for every set of threads and every bound,     *)
(* with and without assertions compiled in.                                *)
(*                                                                         *)
(* Control   which labels a thread passes through, the state it is in at   *)
(*           each, and where a transition it has announced leads           *)
(* Locking   the holder of LangThreadList_lock is the thread inside its    *)
(*           critical section, or the VM thread                            *)
(* Phases    how _state, the number of the safepoint and the tag of the    *)
(*           barrier go together at each label of the VM thread            *)
(* Meeting   what a thread that met a safepoint knows of its number        *)
(* Sleeping  who is in FUTEX_WAIT, and with which tag                      *)
(***************************************************************************)
EXTENDS Safepoint, MonitorProofs, SequenceTheorems

AllThreads == LangThreads \cup {VM}

(* Inside tans_state, from the announcement to the arrival.                *)
InTransition == {"callback", "block", "tag", "barrier", "futex", "asleep", "recheck", "after",
                 "arrive"}

(* What a thread that runs between its transitions is, by where it is.     *)
StateAt(label) ==
    CASE label = "start" -> {"READY"}
      [] label \in {"pre_run", "add_to_list", "run", "remove_from_list", "exit"} -> {"RUNNING"}
      [] label \in {"pre_lock", "pre_locked", "locked", "post_lock", "post_locked"} -> {"BLOCKED"}
      [] label = "done" -> {"ZOMBIE"}
      [] OTHER -> States

Returns == {"pre_run", "pre_lock", "add_to_list", "locked", "run", "post_lock",
            "remove_from_list", "done"}

Control ==
    /\ pc \in [AllThreads -> ThreadLabels \cup VMLabels]
    /\ pc[VM] \in VMLabels
    /\ \A t \in LangThreads :
         /\ pc[t] \in ThreadLabels
         /\ vm_error = NoError => os_state[t] \in StateAt(pc[t])
         /\ pc[t] \in InTransition =>
              /\ transition[t].ret \in Returns
              /\ transition[t].to \in StateAt(transition[t].ret)

(* A language thread between acquiring LangThreadList_lock and giving it up*)
Inside(t) ==
    \/ pc[t] \in {"pre_locked", "add_to_list", "post_locked", "remove_from_list"}
    \/ pc[t] \in InTransition /\ transition[t].ret \in {"add_to_list", "remove_from_list"}

Locking ==
    /\ list_lock \in MonitorType(AllThreads)
    /\ list_lock.owner = list_lock.holder
    /\ list_lock.holder # VM => Simple(list_lock)
    /\ pc[VM] # "idle" => list_lock.holder = VM
    /\ \A t \in LangThreads : Inside(t) <=> list_lock.holder = t

Odd(n) == n % 2 = 1

Phases ==
    /\ safe_point_check \in Nat
    /\ safe_point_check <= 2 * MaxSafepoints
    /\ pc[VM] \in {"arm", "count"} => safe_point_check < 2 * MaxSafepoints
    /\ Odd(safe_point_check) <=> pc[VM] \in {"synchronizing", "scan", "safepoint", "count_end"}
    /\ futex_barrier = CASE pc[VM] \in {"idle", "arm", "wakeup"}   -> 0
                         [] pc[VM] = "count"                      -> safe_point_check + 1
                         [] pc[VM] \in {"end_lock", "disarm"}     -> safe_point_check - 1
                         [] OTHER                                 -> safe_point_check
    /\ pc[VM] \in {"end_lock", "disarm"} => safe_point_check > 0
    /\ sync_state = CASE pc[VM] = "scan"      -> "synchronizing"
                      [] pc[VM] = "safepoint" -> "synchronized"
                      [] OTHER                -> "not_synchronized"

(* A thread that met safepoint number seen[t] reads a tag that is not      *)
(* older, and gets past the barrier only when a later number is in force.  *)
Meeting ==
    \A t \in LangThreads :
        /\ seen[t] \in Nat /\ tag[t] \in Nat
        /\ pc[t] \notin InTransition \/ pc[t] = "callback" => seen[t] = 0
        /\ pc[t] \in {"block", "tag", "barrier", "futex", "asleep", "recheck", "after"}
             => Odd(seen[t]) /\ seen[t] <= safe_point_check
        /\ pc[t] \in {"barrier", "futex", "asleep", "recheck", "after"}
             => seen[t] <= tag[t] /\ tag[t] <= safe_point_check
        /\ pc[t] \in {"after", "arrive"} /\ seen[t] # 0 => seen[t] < safe_point_check

Sleeping ==
    /\ \A t \in sleepers : t \in LangThreads /\ pc[t] = "asleep"
    /\ NoLostWakeup

IInv == TypeOK /\ Control /\ Locking /\ Phases /\ Meeting /\ Sleeping

-----------------------------------------------------------------------------
(* The transitions a LangThread announces, and where it takes the lock.    *)
Calls ==
    { <<"start", "RUNNING", "pre_run">>,        <<"pre_run", "BLOCKED", "pre_lock">>,
      <<"pre_locked", "RUNNING", "add_to_list">>, <<"run", "BLOCKED", "locked">>,
      <<"locked", "RUNNING", "run">>,           <<"run", "BLOCKED", "post_lock">>,
      <<"post_locked", "RUNNING", "remove_from_list">>, <<"exit", "ZOMBIE", "done">> }

ListLocks == { <<"pre_lock", "pre_locked">>, <<"post_lock", "post_locked">> }

Announces(t) == \E c \in Calls : Announce(t, c[1], c[2], c[3])

TakesLock(t) == \E l \in ListLocks : LockListReturn(t, l[1], l[2])

(* The actions of a LangThread, by what they do.                           *)
LEMMA ThreadSteps ==
    ASSUME NEW t \in LangThreads, LangThread(t)
    PROVE  \/ Announces(t) \/ TakesLock(t) \/ Arrive(t) \/ Callback(t) \/ SetBlockedDirect(t)
           \/ ReadTag(t) \/ BarrierWait(t) \/ FutexWait(t) \/ FutexReturns(t)
           \/ SuspendLoop(t) \/ CallbackReturns(t) \/ CreateThread(t) \/ AddToList(t)
           \/ RemoveFromList(t)
<1>1. ASSUME NEW c \in Calls, Announce(t, c[1], c[2], c[3])
      PROVE  Announces(t)
  BY <1>1 DEF Announces
<1>2. CASE NativeCall(t)
  <2>1. <<"start", "RUNNING", "pre_run">> \in Calls
    BY DEF Calls
  <2> QED
    BY <1>1, <1>2, <2>1 DEF NativeCall
<1>3. CASE PreRun(t)
  <2>1. /\ <<"pre_run", "BLOCKED", "pre_lock">> \in Calls
        /\ <<"pre_locked", "RUNNING", "add_to_list">> \in Calls
        /\ <<"pre_lock", "pre_locked">> \in ListLocks
    BY DEF Calls, ListLocks
  <2> QED
    BY <1>1, <1>3, <2>1 DEF PreRun, LockListCall, LockListOwned, TakesLock
<1>4. CASE LockCall(t)
  <2>1. <<"run", "BLOCKED", "locked">> \in Calls
    BY DEF Calls
  <2> QED
    BY <1>1, <1>4, <2>1 DEF LockCall
<1>5. CASE LockOwned(t)
  <2>1. <<"locked", "RUNNING", "run">> \in Calls
    BY DEF Calls
  <2> QED
    BY <1>1, <1>5, <2>1 DEF LockOwned
<1>6. CASE PostRun(t)
  <2>1. /\ <<"run", "BLOCKED", "post_lock">> \in Calls
        /\ <<"post_locked", "RUNNING", "remove_from_list">> \in Calls
        /\ <<"post_lock", "post_locked">> \in ListLocks
    BY DEF Calls, ListLocks
  <2> QED
    BY <1>1, <1>6, <2>1 DEF PostRun, LockListCall, LockListOwned, TakesLock
<1>7. CASE Exit(t)
  <2>1. <<"exit", "ZOMBIE", "done">> \in Calls
    BY DEF Calls
  <2> QED
    BY <1>1, <1>7, <2>1 DEF Exit
<1> QED
  BY <1>2, <1>3, <1>4, <1>5, <1>6, <1>7 DEF LangThread, Transition

-----------------------------------------------------------------------------
(* A step of one thread leaves the others where they are, and all that is  *)
(* the VM thread's.                                                        *)
Elsewhere(t) ==
    /\ \A u \in AllThreads \ {t} : pc'[u] = pc[u]
    /\ \A u \in LangThreads \ {t} :
          /\ os_state'[u] = os_state[u] /\ transition'[u] = transition[u]
          /\ tag'[u] = tag[u] /\ seen'[u] = seen[u]
    /\ UNCHANGED <<sync, futex_barrier, closure>>

LEMMA ThreadFrame ==
    ASSUME TypeOK, NEW t \in LangThreads, LangThread(t)
    PROVE  Elsewhere(t)
<1> USE DEF TypeOK, AllThreads, Goto, GotoIf, Fails, At, threads, members, sync, barrier, closure,
            history, Elsewhere
<1>1. CASE Announces(t)
  BY <1>1 DEF Announces, Announce
<1>2. CASE TakesLock(t)
  BY <1>2 DEF TakesLock, LockListReturn
<1>3. CASE Arrive(t)
  BY <1>3 DEF Arrive
<1>4. CASE Callback(t) \/ SetBlockedDirect(t) \/ ReadTag(t)
  BY <1>4 DEF Callback, SetBlockedDirect, ReadTag
<1>5. CASE BarrierWait(t) \/ FutexWait(t) \/ FutexReturns(t)
  BY <1>5 DEF BarrierWait, FutexWait, FutexReturns
<1>6. CASE SuspendLoop(t) \/ CallbackReturns(t) \/ CreateThread(t)
  BY <1>6 DEF SuspendLoop, CallbackReturns, CreateThread
<1>7. CASE AddToList(t) \/ RemoveFromList(t)
  BY <1>7 DEF AddToList, RemoveFromList
<1> QED
  BY ThreadSteps, <1>1, <1>2, <1>3, <1>4, <1>5, <1>6, <1>7

(* A step of the VM thread, and what it leaves alone.                      *)
LEMMA VMFrame ==
    ASSUME TypeOK, VMStep
    PROVE  /\ vm_error = NoError /\ \A u \in LangThreads : pc'[u] = pc[u]
           /\ UNCHANGED <<threads, list, vm_error, history>>
<1> USE SafepointAssumption DEF TypeOK, VMGoto, Goto, At, threads, members, sync, barrier, closure,
            history
<1>1. CASE Begin \/ Arm \/ CountBegin \/ Synchronizing
  BY <1>1 DEF Begin, Arm, CountBegin, Synchronizing
<1>2. CASE ScanThread \/ ScanAgain \/ Synchronized
  BY <1>2 DEF ScanThread, ScanAgain, Synchronized
<1>3. CASE End \/ CountEnd \/ EndLock \/ Disarm \/ Wakeup
  BY <1>3 DEF End, CountEnd, EndLock, Disarm, Wakeup
<1> QED
  BY <1>1, <1>2, <1>3 DEF VMStep

-----------------------------------------------------------------------------
(* Only the strings of an assertion's place can end the program.           *)
LEMMA ErrorType ==
    ASSUME TypeOK, [Next]_vars
    PROVE  vm_error' \in Failures \cup {NoError}
<1> USE DEF TypeOK, Failures
<1>1. CASE VMStep
  BY <1>1, VMFrame
<1>2. ASSUME NEW t \in LangThreads, LangThread(t)
      PROVE  vm_error' \in Failures \cup {NoError}
  <2> USE DEF GotoIf, Fails
  <2>1. CASE Announces(t)
    BY <2>1 DEF Announces, Announce
  <2>2. CASE TakesLock(t)
    BY <2>2 DEF TakesLock, LockListReturn
  <2>3. CASE BarrierWait(t) \/ CallbackReturns(t)
    BY <2>3 DEF BarrierWait, CallbackReturns
  <2> QED
    BY <1>2, <2>1, <2>2, <2>3, ThreadSteps
       DEF Arrive, Callback, SetBlockedDirect, ReadTag, FutexWait, FutexReturns,
           SuspendLoop, CreateThread, AddToList, RemoveFromList
<1>3. CASE \E t \in LangThreads : Interrupt(t)
  BY <1>3 DEF Interrupt
<1> QED
  BY <1>1, <1>2, <1>3 DEF Next, vars

(* Control: the labels of the threads and what goes with them.             *)
LEMMA ControlInit == Init => Control
BY SafepointAssumption
   DEF Init, Control, AllThreads, ThreadLabels, VMLabels, StateAt, States, InTransition

LEMMA ControlStep ==
    ASSUME IInv, [Next]_vars
    PROVE  Control'
<1> DEFINE ControlOf(t) ==
      /\ pc[t] \in ThreadLabels
      /\ vm_error = NoError => os_state[t] \in StateAt(pc[t])
      /\ pc[t] \in InTransition =>
           /\ transition[t].ret \in Returns
           /\ transition[t].to \in StateAt(transition[t].ret)
<1>0. /\ TypeOK /\ pc \in [AllThreads -> ThreadLabels \cup VMLabels] /\ pc[VM] \in VMLabels
      /\ VM \in AllThreads /\ VM \notin LangThreads /\ LangThreads \subseteq AllThreads
      /\ \A t \in LangThreads : ControlOf(t)
  BY SafepointAssumption DEF IInv, Control, AllThreads
<1>1. ASSUME NEW t \in LangThreads, LangThread(t)
      PROVE  Control'
  <2>0. vm_error = NoError
    BY <1>1, ThreadSteps
       DEF Announces, Announce, TakesLock, LockListReturn, Arrive, Callback, SetBlockedDirect,
           ReadTag, BarrierWait, FutexWait, FutexReturns, SuspendLoop, CallbackReturns,
           CreateThread, AddToList, RemoveFromList, At
  <2>1. pc' \in [AllThreads -> ThreadLabels \cup VMLabels] /\ ControlOf(t)'
    <3>0. \A l \in InTransition : l \in ThreadLabels /\ StateAt(l) = States
      BY DEF InTransition, ThreadLabels, StateAt
    <3> USE <1>0, <2>0, <3>0 DEF TypeOK, At, Goto, InTransition
    <3>1. CASE Announces(t)
      <4>1. PICK c \in Calls : Announce(t, c[1], c[2], c[3])
        BY <3>1 DEF Announces
      <4>2. CASE pc' = pc
        <5>1. c[1] # "callback" /\ pc[t] = c[1]
          BY <4>1 DEF Announce, Calls
        <5>2. vm_error' = "OSThread.cpp:32"
          BY <4>1, <4>2, <5>1 DEF Announce, GotoIf, Fails
        <5>3. vm_error' # NoError
          BY <5>2, NoErrorAssumption DEF Failures
        <5> QED
          BY <4>1, <4>2, <5>1, <5>3 DEF Calls
      <4>3. CASE Goto(t, "callback") /\ UNCHANGED vm_error
        BY <4>1, <4>3 DEF Announce, Calls, Tans, threads, StateAt, Returns, States
      <4> QED
        BY <4>1, <4>2, <4>3 DEF Announce, GotoIf, Fails
    <3>2. CASE TakesLock(t)
      BY <3>2 DEF TakesLock, LockListReturn, ListLocks, threads, StateAt, ThreadLabels
    <3>3. CASE Arrive(t)
      BY <3>3 DEF Arrive, Returns, ThreadLabels
    <3>4. ASSUME NEW l \in InTransition, pc[t] \in InTransition, Goto(t, l),
                 transition' = transition, os_state'[t] \in States
          PROVE  pc' \in [AllThreads -> ThreadLabels \cup VMLabels] /\ ControlOf(t)'
      BY <3>4
    <3>5. CASE pc' = pc /\ transition' = transition /\ os_state' = os_state
      BY <3>5
    <3>6. os_state[t] \in States /\ {"RUNNING", "BLOCKED"} \subseteq States
      BY DEF States
    <3>7. CASE Callback(t)
      <4>1. Goto(t, "block") \/ Goto(t, "arrive")
        BY <3>7 DEF Callback
      <4> QED
        BY <3>4, <3>6, <3>7, <4>1 DEF Callback, threads
    <3>8. CASE SetBlockedDirect(t) \/ ReadTag(t)
      <4>1. os_state'[t] \in States
        BY <3>6, <3>8 DEF SetBlockedDirect, ReadTag
      <4> QED
        BY <3>4, <3>8, <4>1 DEF SetBlockedDirect, ReadTag
    <3>9. CASE BarrierWait(t)
      <4>1. Goto(t, "after") \/ Goto(t, "futex") \/ pc' = pc
        BY <3>9 DEF BarrierWait, GotoIf, Fails
      <4> QED
        BY <3>4, <3>5, <3>6, <3>9, <4>1 DEF BarrierWait, threads
    <3>10. CASE FutexWait(t) \/ FutexReturns(t)
      <4>1. Goto(t, "asleep") \/ Goto(t, "recheck")
        BY <3>10 DEF FutexWait, FutexReturns
      <4> QED
        BY <3>4, <3>6, <3>10, <4>1 DEF FutexWait, FutexReturns, threads
    <3>11. CASE SuspendLoop(t)
      <4>1. Goto(t, "after") \/ Goto(t, "futex")
        BY <3>11 DEF SuspendLoop
      <4>2. os_state'[t] \in States
        BY <3>6, <3>11 DEF SuspendLoop
      <4> QED
        BY <3>4, <3>11, <4>1, <4>2 DEF SuspendLoop
    <3>12. CASE CallbackReturns(t)
      <4>1. Goto(t, "arrive") \/ pc' = pc
        BY <3>12 DEF CallbackReturns, GotoIf, Fails
      <4> QED
        BY <3>4, <3>5, <3>6, <3>12, <4>1 DEF CallbackReturns, threads
    <3>13. CASE CreateThread(t)
      BY <3>13 DEF CreateThread, threads, StateAt, ThreadLabels, States
    <3>14. CASE AddToList(t)
      BY <3>14 DEF AddToList, threads, StateAt, ThreadLabels, States
    <3>15. CASE RemoveFromList(t)
      BY <3>15 DEF RemoveFromList, threads, StateAt, ThreadLabels, States
    <3> QED
      BY <1>1, ThreadSteps, <3>1, <3>2, <3>3, <3>7, <3>8, <3>9, <3>10,
         <3>11, <3>13, <3>14, <3>15, <3>12
  <2>2. Elsewhere(t)
    BY <1>0, <1>1, ThreadFrame
  <2>3. ASSUME NEW u \in LangThreads
        PROVE  ControlOf(u)'
    BY <1>0, <2>0, <2>1, <2>2 DEF Elsewhere
  <2> QED
    BY <1>0, <2>1, <2>2, <2>3 DEF Control, Elsewhere
<1>2. CASE VMStep
  <2>1. pc' \in [AllThreads -> ThreadLabels \cup VMLabels] /\ pc'[VM] \in VMLabels
    BY <1>0, <1>2
       DEF VMStep, Begin, Arm, CountBegin, Synchronizing, ScanThread, ScanAgain, Synchronized,
           End, CountEnd, EndLock, Disarm, Wakeup, VMGoto, Goto, VMLabels
  <2> QED
    BY <1>0, <1>2, <2>1, VMFrame DEF Control, threads
<1>3. CASE (\E t \in LangThreads : Interrupt(t)) \/ UNCHANGED vars
  BY <1>0, <1>3 DEF Control, Interrupt, vars, threads
<1> QED
  BY <1>1, <1>2, <1>3 DEF Next

-----------------------------------------------------------------------------
(* Phases: only the VM thread moves the number, the state and the barrier. *)
LEMMA PhasesInit == Init => Phases
BY SafepointAssumption DEF Init, Phases, Odd

LEMMA PhasesStep ==
    ASSUME IInv, [Next]_vars
    PROVE  Phases'
<1>0. /\ TypeOK /\ Phases /\ MaxSafepoints \in Nat /\ VM \notin LangThreads
      /\ pc \in [AllThreads -> ThreadLabels \cup VMLabels] /\ VM \in AllThreads
  BY SafepointAssumption DEF IInv, Control, AllThreads
<1>1. CASE pc'[VM] = pc[VM] /\ UNCHANGED <<sync, futex_barrier>>
  BY <1>0, <1>1 DEF Phases, sync
<1>2. CASE VMStep
  <2> USE <1>0 DEF VMGoto, Goto, At, Phases, Odd, sync, barrier, members, closure
  <2>1. CASE Begin
    BY <2>1 DEF Begin
  <2>2. CASE Arm
    BY <2>2 DEF Arm, BarrierNumber
  <2>3. CASE CountBegin
    BY <2>3 DEF CountBegin
  <2>4. CASE Synchronizing
    BY <2>4 DEF Synchronizing
  <2>5. CASE ScanThread \/ ScanAgain
    BY <2>5, <1>1 DEF ScanThread, ScanAgain
  <2>6. CASE Synchronized
    BY <2>6 DEF Synchronized
  <2>7. CASE End
    BY <2>7 DEF End
  <2>8. CASE CountEnd
    BY <2>8 DEF CountEnd
  <2>9. CASE EndLock
    BY <2>9 DEF EndLock
  <2>10. CASE Disarm
    BY <2>10 DEF Disarm
  <2>11. CASE Wakeup
    BY <2>11 DEF Wakeup
  <2> QED
    BY <1>2, <2>1, <2>2, <2>3, <2>4, <2>5, <2>6, <2>7, <2>8, <2>9, <2>10, <2>11 DEF VMStep
<1>3. ASSUME NEW t \in LangThreads, LangThread(t) \/ Interrupt(t)
      PROVE  Phases'
  <2>1. pc'[VM] = pc[VM] /\ UNCHANGED <<sync, futex_barrier>>
    BY <1>0, <1>3, ThreadFrame DEF Elsewhere, Interrupt
  <2> QED
    BY <1>1, <2>1
<1>4. CASE UNCHANGED vars
  BY <1>0, <1>4, <1>1 DEF vars, barrier
<1> QED
  BY <1>2, <1>3, <1>4 DEF Next

(* What Phases says of a safepoint in force: its number is the barrier's.  *)
LEMMA OddIsArmed ==
    ASSUME Phases, Odd(safe_point_check)
    PROVE  futex_barrier = safe_point_check
BY DEF Phases

LEMMA SynchronizedIsOdd ==
    ASSUME Phases, sync_state = "synchronized"
    PROVE  pc[VM] = "safepoint" /\ Odd(safe_point_check)
BY DEF Phases

-----------------------------------------------------------------------------
(* Locking: who holds LangThreadList_lock.                                 *)
LEMMA LockingInit == Init => Locking
<1> SUFFICES ASSUME Init PROVE Locking
  OBVIOUS
<1>1. list_lock = FreeMonitor /\ pc[VM] = "idle"
  BY DEF Init
<1>2. /\ FreeMonitor \in MonitorType(AllThreads) /\ FreeMonitor.holder = NoThread
      /\ FreeMonitor.owner = NoThread /\ FreeMonitor.depth = 0
  BY FreeMonitorType DEF FreeMonitor
<1>3. ASSUME NEW t \in LangThreads PROVE ~Inside(t) /\ t # NoThread
  <2>1. t # NoThread /\ t # VM
    BY SafepointAssumption
  <2>2. pc[t] = IF t \in Attached THEN "run" ELSE "new"
    BY <2>1 DEF Init
  <2> QED
    BY <2>1, <2>2 DEF Inside, InTransition
<1> QED
  BY <1>1, <1>2, <1>3, SafepointAssumption DEF Locking, Simple

(* A step that leaves the lock alone, and everyone on his side of it.      *)
LEMMA LockUntouched ==
    ASSUME Locking, UNCHANGED list_lock, pc[VM] # "idle" \/ pc'[VM] = "idle",
           \A u \in LangThreads : Inside(u)' <=> Inside(u)
    PROVE  Locking'
BY DEF Locking, Simple

LEMMA LockingStep ==
    ASSUME IInv, [Next]_vars
    PROVE  Locking'
<1>0. /\ TypeOK /\ Locking /\ Control /\ VM \notin LangThreads /\ VM \in AllThreads
      /\ LangThreads \subseteq AllThreads /\ NoThread \notin AllThreads
      /\ pc \in [AllThreads -> ThreadLabels \cup VMLabels]
  BY SafepointAssumption DEF IInv, Control, AllThreads
<1>1. ASSUME NEW t \in LangThreads, LangThread(t)
      PROVE  Locking'
  <2>1. Elsewhere(t) /\ pc'[VM] = pc[VM]
    BY <1>0, <1>1, ThreadFrame DEF Elsewhere
  <2>2. \A u \in LangThreads \ {t} : Inside(u)' <=> Inside(u)
    BY <1>0, <2>1 DEF Elsewhere, Inside
  <2>3. ASSUME UNCHANGED list_lock, Inside(t)' <=> Inside(t)
        PROVE  Locking'
    BY <1>0, <2>1, <2>2, <2>3, LockUntouched
  <2>4. CASE TakesLock(t)
    <3>1. /\ CanLock(list_lock, t) /\ list_lock' = Lock(list_lock, t)
          /\ ~Inside(t) /\ Inside(t)'
      BY <1>0, <2>4 DEF TakesLock, LockListReturn, ListLocks, At, Goto, Inside, InTransition
    <3>2. list_lock.holder = NoThread /\ list_lock.owner = NoThread /\ Simple(list_lock)
      BY <1>0, <3>1 DEF Locking, CanLock
    <3>3. list_lock'.holder = t /\ list_lock'.owner = t /\ Simple(list_lock')
      <4>1. Lock(list_lock, t).owner = t
        BY <1>0, <3>2 DEF Lock, Locking, MonitorType
      <4>2. list_lock \in MonitorType(AllThreads)
        BY <1>0 DEF Locking
      <4> QED
        BY <1>0, <3>1, <3>2, <4>1, <4>2, HolderAfter
    <3>4. list_lock' \in MonitorType(AllThreads)
      BY <1>0, <3>1, LockType DEF Locking
    <3> QED
      BY <1>0, <2>1, <2>2, <3>1, <3>2, <3>3, <3>4 DEF Locking
  <2>5. CASE AddToList(t) \/ RemoveFromList(t)
    <3>1. list_lock' = Unlock(list_lock, t) /\ Inside(t) /\ ~Inside(t)'
      BY <1>0, <2>5 DEF AddToList, RemoveFromList, At, Goto, Inside, InTransition
    <3>2. list_lock.holder = t /\ Simple(list_lock) /\ list_lock.depth = 1
          /\ list_lock \in MonitorType(AllThreads)
      BY <1>0, <3>1 DEF Locking, Simple
    <3>3. /\ list_lock'.holder = NoThread /\ Simple(list_lock')
          /\ list_lock' \in MonitorType(AllThreads)
      BY <1>0, <3>1, <3>2, HolderAfter, UnlockType
    <3>4. list_lock'.owner = NoThread
      BY <3>1, <3>2 DEF Unlock, MonitorType
    <3> QED
      BY <1>0, <2>1, <2>2, <3>1, <3>2, <3>3, <3>4 DEF Locking
  <2>6. CASE Announces(t)
    <3>1. PICK c \in Calls : Announce(t, c[1], c[2], c[3])
      BY <2>6 DEF Announces
    <3>2. UNCHANGED list_lock /\ pc[t] = c[1] /\ pc[t] \notin InTransition
      BY <3>1 DEF Announce, members, At, Calls, InTransition
    <3>3. CASE pc' = pc
      BY <2>3, <3>2, <3>3 DEF Inside
    <3>4. CASE Goto(t, "callback")
      <4>1. pc'[t] = "callback" /\ transition'[t].ret = c[3]
        BY <1>0, <3>1, <3>4 DEF Goto, Announce, TypeOK
      <4> QED
        BY <2>3, <3>1, <3>2, <4>1 DEF Inside, InTransition, Calls
    <3> QED
      BY <3>1, <3>3, <3>4 DEF Announce, GotoIf, Fails
  <2>7. CASE Arrive(t)
    <3>1. /\ UNCHANGED list_lock /\ pc[t] = "arrive" /\ pc'[t] = transition[t].ret
          /\ transition[t].ret \in Returns
      BY <1>0, <2>7 DEF Arrive, members, At, Goto, Control, InTransition
    <3> QED
      BY <2>3, <3>1 DEF Inside, InTransition, Returns
  <2>8. CASE CreateThread(t)
    BY <1>0, <2>3, <2>8 DEF CreateThread, At, Goto, members, Inside, InTransition
  <2>9. CASE UNCHANGED <<list_lock, transition>> /\ pc[t] \in InTransition /\ pc'[t] \in InTransition
    BY <2>3, <2>9 DEF Inside, InTransition
  <2> QED
    <3> USE <1>0 DEF Goto, GotoIf, Fails, At, InTransition, threads, members
    <3>1. CASE Callback(t) \/ SetBlockedDirect(t) \/ ReadTag(t) \/ FutexWait(t)
      BY <2>9, <3>1 DEF Callback, SetBlockedDirect, ReadTag, FutexWait
    <3>2. CASE BarrierWait(t) \/ FutexReturns(t) \/ SuspendLoop(t) \/ CallbackReturns(t)
      BY <2>9, <3>2 DEF BarrierWait, FutexReturns, SuspendLoop, CallbackReturns
    <3> QED
      BY <1>1, ThreadSteps, <2>4, <2>5, <2>6, <2>7, <2>8, <3>1, <3>2
<1>2. CASE VMStep
  <2>1. \A u \in LangThreads : Inside(u)' <=> Inside(u)
    BY <1>0, <1>2, VMFrame DEF Inside, threads
  <2>2. CASE Begin \/ EndLock
    <3>1. CanLock(list_lock, VM) /\ list_lock' = Lock(list_lock, VM)
      BY <2>2 DEF Begin, EndLock
    <3>2. list_lock' \in MonitorType(AllThreads)
      BY <1>0, <3>1, LockType DEF Locking
    <3>3. list_lock'.holder = VM /\ list_lock'.owner = VM
      BY <1>0, <3>1 DEF Lock, Locking, MonitorType, CanLock
    <3>4. \A u \in LangThreads : ~Inside(u)
      BY <1>0, <3>1 DEF Locking, CanLock
    <3> QED
      BY <1>0, <2>1, <3>2, <3>3, <3>4 DEF Locking
  <2>3. CASE ~Begin /\ ~EndLock
    <3>1. UNCHANGED list_lock /\ (pc[VM] # "idle" \/ pc'[VM] = "idle")
      BY <1>0, <1>2, <2>3
         DEF VMStep, Arm, CountBegin, Synchronizing, ScanThread, ScanAgain, Synchronized,
             End, CountEnd, Disarm, Wakeup, VMGoto, At, members
    <3> QED
      BY <1>0, <2>1, <3>1, LockUntouched
  <2> QED
    BY <2>2, <2>3
<1>3. CASE (\E t \in LangThreads : Interrupt(t)) \/ UNCHANGED vars
  BY <1>0, <1>3, LockUntouched DEF Interrupt, vars, threads, members, Inside
<1> QED
  BY <1>1, <1>2, <1>3 DEF Next

-----------------------------------------------------------------------------
(* Meeting: what a thread that met a safepoint knows of its number.        *)
MeetingOf(t) ==
    /\ seen[t] \in Nat /\ tag[t] \in Nat
    /\ pc[t] \notin InTransition \/ pc[t] = "callback" => seen[t] = 0
    /\ pc[t] \in {"block", "tag", "barrier", "futex", "asleep", "recheck", "after"}
         => Odd(seen[t]) /\ seen[t] <= safe_point_check
    /\ pc[t] \in {"barrier", "futex", "asleep", "recheck", "after"}
         => seen[t] <= tag[t] /\ tag[t] <= safe_point_check
    /\ pc[t] \in {"after", "arrive"} /\ seen[t] # 0 => seen[t] < safe_point_check

LEMMA MeetingInit == Init => Meeting
BY SafepointAssumption DEF Init, Meeting, InTransition

(* A word that is not the tag any more: the safepoint of the tag is over.  *)
LEMMA TagIsOld ==
    ASSUME Phases, NEW t \in LangThreads, MeetingOf(t), tag[t] # futex_barrier,
           pc[t] \in {"barrier", "recheck"}
    PROVE  seen[t] < safe_point_check
<1>1. CASE Odd(safe_point_check)
  BY <1>1, OddIsArmed DEF Phases, MeetingOf
<1>2. CASE ~Odd(safe_point_check)
  BY <1>2 DEF Phases, MeetingOf, Odd
<1> QED
  BY <1>1, <1>2

LEMMA MeetingStep ==
    ASSUME IInv, [Next]_vars
    PROVE  Meeting'
<1>0. /\ TypeOK /\ Phases /\ Phases' /\ Control /\ VM \notin LangThreads
      /\ \A t \in LangThreads : MeetingOf(t) /\ t \in AllThreads
      /\ pc \in [AllThreads -> ThreadLabels \cup VMLabels]
      /\ safe_point_check \in Nat
  BY SafepointAssumption, PhasesStep DEF IInv, Control, AllThreads, Meeting, MeetingOf, Phases
<1>1. ASSUME NEW t \in LangThreads, LangThread(t)
      PROVE  Meeting'
  <2>1. Elsewhere(t) /\ safe_point_check' = safe_point_check
    BY <1>0, <1>1, ThreadFrame DEF Elsewhere, sync
  <2>2. ASSUME MeetingOf(t)'
        PROVE  Meeting'
    <3>1. ASSUME NEW u \in LangThreads \ {t}
          PROVE  MeetingOf(u)'
      BY <1>0, <2>1 DEF Elsewhere, MeetingOf
    <3> QED
      BY <2>2, <3>1 DEF Meeting, MeetingOf
  <2>3. MeetingOf(t) /\ t \in AllThreads
    BY <1>0
  <2> USE <1>0, <2>1, <2>3 DEF TypeOK, At, Goto, MeetingOf, InTransition, history
  <2>5. CASE Announces(t)
    <3>1. PICK c \in Calls : Announce(t, c[1], c[2], c[3])
      BY <2>5 DEF Announces
    <3>2. /\ tag' = tag /\ seen' = seen /\ (pc'[t] = pc[t] \/ pc'[t] = "callback")
          /\ pc[t] = c[1] /\ pc[t] \notin InTransition
      BY <3>1 DEF Announce, GotoIf, Fails, Calls
    <3> QED
      BY <2>2, <3>2
  <2>6. CASE TakesLock(t) \/ CreateThread(t) \/ AddToList(t) \/ RemoveFromList(t)
    <3>1. /\ tag' = tag /\ seen' = seen /\ pc[t] \notin InTransition
          /\ pc'[t] \notin InTransition
      BY <2>6 DEF TakesLock, LockListReturn, ListLocks, CreateThread, AddToList,
                  RemoveFromList, threads
    <3> QED
      BY <2>2, <3>1
  <2>7. CASE Arrive(t)
    <3>1. transition[t].ret \in Returns
      BY <2>7 DEF Arrive, Control
    <3>2. pc'[t] \in Returns /\ tag'[t] = 0 /\ seen'[t] = 0
      BY <2>7, <3>1 DEF Arrive
    <3> QED
      BY <2>2, <3>2 DEF Returns
  <2>8. CASE Callback(t)
    <3>1. CASE MustStop(t)
      <4>1. Odd(safe_point_check)
        BY <3>1, SynchronizedIsOdd DEF MustStop
      <4>2. /\ pc' = [pc EXCEPT ![t] = "block"] /\ tag' = tag
            /\ seen' = [seen EXCEPT ![t] = safe_point_check]
        BY <2>8, <3>1 DEF Callback, threads
      <4> QED
        BY <2>2, <4>1, <4>2
    <3>2. CASE ~MustStop(t)
      <4>1. pc[t] = "callback" /\ pc'[t] = "arrive" /\ seen' = seen /\ tag' = tag
        BY <2>8, <3>2 DEF Callback, threads
      <4> QED
        BY <2>2, <4>1
    <3> QED
      BY <3>1, <3>2
  <2>9. CASE SetBlockedDirect(t)
    BY <2>2, <2>9 DEF SetBlockedDirect
  <2>10. CASE ReadTag(t)
    BY <2>2, <2>10 DEF ReadTag
  <2>11. CASE BarrierWait(t)
    <3>1. pc[t] = "barrier" /\ tag' = tag /\ seen' = seen
      BY <2>11 DEF BarrierWait, threads
    <3>2. pc'[t] \in {"barrier", "futex"} \/ (pc'[t] = "after" /\ tag[t] # futex_barrier)
      BY <2>11, <3>1 DEF BarrierWait, GotoIf, Fails
    <3>3. pc'[t] = "after" => seen[t] < safe_point_check
      BY <3>1, <3>2, TagIsOld
    <3> QED
      BY <2>2, <3>1, <3>2, <3>3
  <2>12. CASE FutexWait(t) \/ FutexReturns(t)
    <3>1. /\ pc[t] \in {"futex", "asleep"} /\ pc'[t] \in {"asleep", "recheck"}
          /\ tag' = tag /\ seen' = seen
      BY <2>12 DEF FutexWait, FutexReturns, threads
    <3> QED
      BY <2>2, <3>1
  <2>13. CASE SuspendLoop(t)
    <3>1. pc[t] = "recheck" /\ tag' = tag /\ seen' = seen
      BY <2>13 DEF SuspendLoop
    <3>2. pc'[t] = "futex" \/ (pc'[t] = "after" /\ tag[t] # futex_barrier)
      BY <2>13, <3>1 DEF SuspendLoop, WaitsAgain
    <3>3. pc'[t] = "after" => seen[t] < safe_point_check
      BY <3>1, <3>2, TagIsOld
    <3> QED
      BY <2>2, <3>1, <3>2, <3>3
  <2>14. CASE CallbackReturns(t)
    <3>1. /\ pc[t] = "after" /\ pc'[t] \in {"after", "arrive"}
          /\ tag' = tag /\ seen' = seen
      BY <2>14 DEF CallbackReturns, GotoIf, Fails, threads
    <3> QED
      BY <2>2, <3>1
  <2> QED
    BY <1>1, ThreadSteps, <2>5, <2>6, <2>7, <2>8, <2>9, <2>10, <2>11, <2>12, <2>13, <2>14
<1>2. CASE \/ VMStep \/ (\E t \in LangThreads : Interrupt(t)) \/ UNCHANGED vars
  <2>1. safe_point_check' = safe_point_check \/ safe_point_check' = safe_point_check + 1
    BY <1>2 DEF VMStep, Begin, Arm, CountBegin, Synchronizing, ScanThread, ScanAgain,
                Synchronized, End, CountEnd, EndLock, Disarm, Wakeup, sync, Interrupt, vars
  <2>2. UNCHANGED <<tag, seen>> /\ \A u \in LangThreads : pc'[u] = pc[u]
    BY <1>0, <1>2, VMFrame DEF Interrupt, vars, threads, history
  <2>3. ASSUME NEW u \in LangThreads
        PROVE  MeetingOf(u)'
    BY <1>0, <2>1, <2>2 DEF MeetingOf
  <2> QED
    BY <2>3 DEF Meeting, MeetingOf
<1> QED
  BY <1>1, <1>2 DEF Next

-----------------------------------------------------------------------------
(* Sleeping: who is in FUTEX_WAIT, and with which tag.  While the word is  *)
(* down no thread sleeps, since nobody reads the number 0 as his tag.      *)
LEMMA SleepingInit == Init => Sleeping
BY DEF Init, Sleeping, NoLostWakeup

LEMMA SleeperHasATag ==
    ASSUME IInv, NEW t \in sleepers
    PROVE  tag[t] \in Nat /\ tag[t] # 0
<1>1. pc[t] = "asleep" /\ t \in LangThreads
  BY DEF IInv, Sleeping
<1>2. seen[t] \in Nat /\ tag[t] \in Nat /\ Odd(seen[t]) /\ seen[t] <= tag[t]
  BY <1>1 DEF IInv, Meeting
<1> QED
  BY <1>2 DEF Odd

LEMMA SleepingStep ==
    ASSUME IInv, [Next]_vars
    PROVE  Sleeping'
<1>0. /\ TypeOK /\ Phases /\ Control /\ Sleeping /\ VM \notin LangThreads
      /\ VM \in AllThreads /\ \A t \in LangThreads : t \in AllThreads
      /\ pc \in [AllThreads -> ThreadLabels \cup VMLabels]
  BY SafepointAssumption DEF IInv, Control, AllThreads
<1>1. ASSUME NEW t \in LangThreads, LangThread(t)
      PROVE  Sleeping'
  <2>1. Elsewhere(t) /\ futex_barrier' = futex_barrier /\ pc'[VM] = pc[VM]
    BY <1>0, <1>1, ThreadFrame DEF Elsewhere
  <2>2. CASE FutexWait(t)
    <3>1. CASE sleepers' = sleepers
      <4>1. \A u \in sleepers : u # t
        BY <1>0, <2>2 DEF Sleeping, FutexWait, At
      <4> QED
        BY <1>0, <2>1, <3>1, <4>1 DEF Sleeping, NoLostWakeup, Elsewhere
    <3>2. CASE /\ sleepers' = sleepers \cup {t} /\ Goto(t, "asleep") /\ futex_barrier = tag[t]
               /\ tag' = tag
      <4>1. \A u \in sleepers : u # t
        BY <1>0, <2>2 DEF Sleeping, FutexWait, At
      <4>2. pc'[t] = "asleep"
        BY <1>0, <3>2 DEF Goto
      <4> QED
        BY <1>0, <2>1, <3>2, <4>1, <4>2 DEF Sleeping, NoLostWakeup, Elsewhere
    <3> QED
      BY <2>2, <3>1, <3>2 DEF FutexWait, threads
  <2>3. CASE ~FutexWait(t)
    <3>1. sleepers' = sleepers /\ t \notin sleepers
      <4>1. t \in sleepers => pc[t] = "asleep"
        BY <1>0 DEF Sleeping
      <4>2. TakesLock(t) => pc[t] # "asleep" /\ sleepers' = sleepers
        BY DEF TakesLock, LockListReturn, ListLocks, At, barrier
      <4>3. Announces(t) => pc[t] # "asleep" /\ sleepers' = sleepers
        BY DEF Announces, Announce, Calls, At, barrier
      <4> QED
        BY <1>1, <2>3, <4>1, <4>2, <4>3, ThreadSteps
           DEF Arrive, Callback, SetBlockedDirect, ReadTag, BarrierWait, FutexReturns,
               SuspendLoop, CallbackReturns, CreateThread, AddToList, RemoveFromList, At,
               barrier
    <3> QED
      BY <1>0, <2>1, <3>1 DEF Sleeping, NoLostWakeup, Elsewhere
  <2> QED
    BY <2>2, <2>3
<1>2. CASE VMStep
  <2>1. UNCHANGED <<tag, seen>> /\ \A u \in LangThreads : pc'[u] = pc[u]
    BY <1>0, <1>2, VMFrame DEF threads, history
  <2>2. CASE Arm
    <3>1. futex_barrier = 0 /\ pc[VM] = "arm" /\ sleepers' = sleepers
      BY <1>0, <2>2 DEF Arm, VMGoto, At, Phases
    <3>2. sleepers = {}
      BY <1>0, <3>1, SleeperHasATag DEF Sleeping, NoLostWakeup
    <3> QED
      BY <3>1, <3>2 DEF Sleeping, NoLostWakeup
  <2>3. CASE Disarm
    <3>1. sleepers' = sleepers /\ pc'[VM] = "wakeup"
      BY <1>0, <2>3 DEF Disarm, VMGoto, Goto
    <3> QED
      BY <1>0, <2>1, <3>1 DEF Sleeping, NoLostWakeup
  <2>4. CASE Wakeup
    BY <2>4 DEF Wakeup, Sleeping, NoLostWakeup
  <2>5. CASE ~Arm /\ ~Disarm /\ ~Wakeup
    <3>1. UNCHANGED barrier /\ pc[VM] # "wakeup"
      BY <1>2, <2>5
         DEF VMStep, Begin, CountBegin, Synchronizing, ScanThread, ScanAgain, Synchronized,
             End, CountEnd, EndLock, VMGoto, At
    <3> QED
      BY <1>0, <2>1, <3>1 DEF Sleeping, NoLostWakeup, barrier
  <2> QED
    BY <2>2, <2>3, <2>4, <2>5
<1>3. CASE \E t \in LangThreads : Interrupt(t)
  BY <1>0, <1>3 DEF Interrupt, Sleeping, NoLostWakeup, threads
<1>4. CASE UNCHANGED vars
  BY <1>0, <1>4 DEF vars, threads, barrier, Sleeping, NoLostWakeup
<1> QED
  BY <1>1, <1>2, <1>3, <1>4 DEF Next

-----------------------------------------------------------------------------
(* TypeOK: what is left of it once the other parts are known.              *)
LEMMA RemovedType ==
    ASSUME NEW s \in Seq(LangThreads), NEW t \in LangThreads
    PROVE  /\ IF s # <<>> /\ Head(s) = t THEN Tail(s) \in Seq(LangThreads) ELSE TRUE
           /\ <<t>> \o s \in Seq(LangThreads)
OBVIOUS

LEMMA TypeInit == Init => TypeOK
<1> SUFFICES ASSUME Init PROVE TypeOK
  OBVIOUS
<1>1. list_lock \in MonitorType(LangThreads \cup {VM})
  BY FreeMonitorType DEF Init
<1>2. futex_barrier \in {0} \cup {2 * n + 1 : n \in 0..MaxSafepoints}
  BY DEF Init
<1> QED
  BY <1>1, <1>2, SafepointAssumption
     DEF Init, TypeOK, ThreadLabels, VMLabels, States, NoTransition

BarrierTypes ==
    /\ safe_point_check \in Nat
    /\ sync_state \in {"not_synchronized", "synchronizing", "synchronized"}
    /\ futex_barrier \in {0} \cup {2 * n + 1 : n \in 0..MaxSafepoints}

LEMMA BarrierType ==
    ASSUME Control, Phases
    PROVE  BarrierTypes
<1> USE SafepointAssumption DEF Phases, Odd, BarrierTypes
<1>1. ASSUME NEW n \in Nat, n % 2 = 0, n <= 2 * MaxSafepoints, futex_barrier = n + 1
      PROVE  futex_barrier \in {2 * k + 1 : k \in 0..MaxSafepoints}
  <2>1. n \div 2 \in 0..MaxSafepoints /\ futex_barrier = 2 * (n \div 2) + 1
    BY <1>1
  <2> QED
    BY <2>1
<1>2. CASE futex_barrier = 0
  BY <1>2
<1>3. CASE futex_barrier = safe_point_check + 1 /\ ~Odd(safe_point_check)
  BY <1>1, <1>3
<1>4. CASE futex_barrier = safe_point_check /\ Odd(safe_point_check)
  <2>1. /\ safe_point_check - 1 \in Nat /\ (safe_point_check - 1) % 2 = 0
        /\ safe_point_check - 1 <= 2 * MaxSafepoints
        /\ futex_barrier = (safe_point_check - 1) + 1
    BY <1>4
  <2> QED
    BY <1>1, <1>4, <2>1
<1>5. CASE /\ futex_barrier = safe_point_check - 1 /\ ~Odd(safe_point_check)
           /\ safe_point_check > 0
  <2>1. /\ safe_point_check - 2 \in Nat /\ (safe_point_check - 2) % 2 = 0
        /\ safe_point_check - 2 <= 2 * MaxSafepoints
        /\ futex_barrier = (safe_point_check - 2) + 1
    BY <1>5
  <2> QED
    BY <1>1, <1>5, <2>1
<1> HIDE DEF Phases
<1>6. /\ safe_point_check \in Nat
      /\ sync_state \in {"not_synchronized", "synchronizing", "synchronized"}
  BY DEF Phases
<1>7. CASE Odd(safe_point_check)
  BY <1>4, <1>6, <1>7, OddIsArmed
<1>8. CASE ~Odd(safe_point_check)
  <2>1. \/ futex_barrier = 0 \/ futex_barrier = safe_point_check + 1
        \/ futex_barrier = safe_point_check - 1 /\ safe_point_check > 0
    BY <1>8 DEF Phases, Control, VMLabels
  <2>2. CASE futex_barrier = 0
    BY <1>2, <1>6, <2>2
  <2>3. CASE futex_barrier = safe_point_check + 1
    BY <1>3, <1>6, <1>8, <2>3
  <2>4. CASE futex_barrier = safe_point_check - 1 /\ safe_point_check > 0
    BY <1>5, <1>6, <1>8, <2>4
  <2> QED
    BY <2>1, <2>2, <2>3, <2>4
<1> QED
  BY <1>7, <1>8

LEMMA BarrierTypeNext == Control' /\ Phases' => BarrierTypes'
<1>1. Control /\ Phases => BarrierTypes
  BY BarrierType
<1> QED
  BY <1>1, PTL

(* The fields only the threads write, and those only the VM thread writes. *)
ThreadTypes ==
    /\ os_state \in [LangThreads -> States]
    /\ transition \in [LangThreads -> [from : States, to : States, ret : ThreadLabels]]
    /\ list \in Seq(LangThreads)
    /\ sleepers \subseteq LangThreads
    /\ tag \in [LangThreads -> Nat] /\ seen \in [LangThreads -> Nat]
    /\ interrupts \in Nat

ClosureTypes == cursor \in Nat /\ still \in Nat

LEMMA ThreadTypesStep ==
    ASSUME IInv, NEW t \in LangThreads, LangThread(t)
    PROVE  ThreadTypes'
<1>0. /\ ThreadTypes /\ safe_point_check \in Nat
      /\ {"READY", "RUNNING", "BLOCKED"} \subseteq States
  BY DEF IInv, TypeOK, ThreadTypes, States
<1> USE <1>0 DEF ThreadTypes
<1>1. CASE Announces(t)
  <2>1. PICK c \in Calls : Announce(t, c[1], c[2], c[3])
    BY <1>1 DEF Announces
  <2>2. /\ Tans(os_state[t]) \in States /\ c[2] \in States /\ c[3] \in ThreadLabels
    <3>1. pc[t] = c[1] /\ os_state[t] \in StateAt(pc[t])
      BY <2>1 DEF Announce, At, IInv, Control
    <3>2. os_state[t] \in {"READY", "RUNNING", "BLOCKED"}
      BY <3>1 DEF Calls, StateAt
    <3> QED
      BY <3>2 DEF Tans, States, Calls, ThreadLabels
  <2>4. /\ os_state' = [os_state EXCEPT ![t] = Tans(os_state[t])]
        /\ transition' = [transition EXCEPT
              ![t] = [from |-> os_state[t], to |-> c[2], ret |-> c[3]]]
        /\ UNCHANGED <<tag, list, sleepers, seen, interrupts>>
    BY <2>1 DEF Announce, members, barrier, history
  <2>5. [from |-> os_state[t], to |-> c[2], ret |-> c[3]]
          \in [from : States, to : States, ret : ThreadLabels]
    BY <2>2
  <2> QED
    BY <2>2, <2>4, <2>5
<1>2. CASE Arrive(t)
  <2>1. NoTransition \in [from : States, to : States, ret : ThreadLabels]
    BY DEF NoTransition, States, ThreadLabels
  <2> QED
    BY <1>2, <2>1 DEF Arrive, members, barrier
<1>3. CASE SetBlockedDirect(t) \/ SuspendLoop(t) \/ CreateThread(t)
  BY <1>3 DEF SetBlockedDirect, SuspendLoop, CreateThread, members, barrier, history
<1>4. CASE Callback(t) \/ ReadTag(t)
  BY <1>4 DEF Callback, ReadTag, threads, members, barrier, history
<1>5. CASE FutexWait(t)
  BY <1>5 DEF FutexWait, threads, members, history
<1>6. CASE TakesLock(t)
  BY <1>6 DEF TakesLock, LockListReturn, threads, barrier, history
<1>7. CASE BarrierWait(t) \/ FutexReturns(t) \/ CallbackReturns(t)
  BY <1>7 DEF BarrierWait, FutexReturns, CallbackReturns, threads, members, barrier, history
<1>8. CASE AddToList(t) \/ RemoveFromList(t)
  <2>1. list' \in Seq(LangThreads)
    BY <1>8, RemovedType DEF AddToList, RemoveFromList, Removed
  <2> QED
    BY <1>8, <2>1 DEF AddToList, RemoveFromList, threads, barrier, history
<1> QED
  BY <1>1, <1>2, <1>3, <1>4, <1>5, <1>6, <1>7, <1>8, ThreadSteps

LEMMA TypeStep ==
    ASSUME IInv, [Next]_vars
    PROVE  TypeOK'
<1>0. TypeOK /\ ThreadTypes /\ ClosureTypes
  BY DEF IInv, TypeOK, ThreadTypes, ClosureTypes
<1>1. ThreadTypes'
  <2>1. CASE VMStep
    <3>1. sleepers' \subseteq sleepers
      BY <2>1 DEF VMStep, Begin, Arm, CountBegin, Synchronizing, ScanThread, ScanAgain,
                  Synchronized, End, CountEnd, EndLock, Disarm, Wakeup, barrier
    <3> QED
      BY <1>0, <2>1, <3>1, VMFrame DEF ThreadTypes, threads, history
  <2>2. CASE (\E t \in LangThreads : Interrupt(t)) \/ UNCHANGED vars
    BY <1>0, <2>2 DEF Interrupt, vars, ThreadTypes, threads, members, barrier, history
  <2> QED
    BY <2>1, <2>2, ThreadTypesStep DEF Next
<1>2. ClosureTypes'
  <2>1. CASE VMStep
    <3>1. Len(list) \in Nat
      BY <1>0 DEF ThreadTypes
    <3> QED
      BY <1>0, <2>1, <3>1
         DEF VMStep, Begin, Arm, CountBegin, Synchronizing, ScanThread, ScanAgain,
             Synchronized, End, CountEnd, EndLock, Disarm, Wakeup, closure, ClosureTypes
  <2>2. CASE UNCHANGED closure
    BY <1>0, <2>2 DEF closure, ClosureTypes
  <2> QED
    BY <1>0, <2>1, <2>2, ThreadFrame DEF Next, Interrupt, vars, Elsewhere
<1>3. Control' /\ Locking' /\ Phases'
  BY ControlStep, LockingStep, PhasesStep
<1>4. BarrierTypes'
  BY <1>3, BarrierTypeNext
<1>5. vm_error' \in Failures \cup {NoError}
  BY <1>0, ErrorType
<1> QED
  BY <1>1, <1>2, <1>3, <1>4, <1>5
     DEF TypeOK, ThreadTypes, ClosureTypes, BarrierTypes, Control, Locking, AllThreads

-----------------------------------------------------------------------------
(* The invariant, and what follows from it.                                *)
LEMMA InvariantInit == Init => IInv
BY TypeInit, ControlInit, LockingInit, PhasesInit, MeetingInit, SleepingInit DEF IInv

LEMMA InvariantStep == IInv /\ [Next]_vars => IInv'
BY TypeStep, ControlStep, LockingStep, PhasesStep, MeetingStep, SleepingStep DEF IInv

LEMMA Invariance == Spec => []IInv
BY InvariantInit, InvariantStep, PTL DEF Spec

(* The fields of SafepointSynchronize, WaitBarrier and the threads keep    *)
(* the types of their classes; the barrier is armed with odd numbers only. *)
THEOREM TypeCorrect == Spec => []TypeOK
<1>1. IInv => TypeOK
  BY DEF IInv
<1> QED
  BY <1>1, Invariance, PTL

(* Wherever begin, end, arm, disarm or wait reaches one of its assertions, *)
(* the condition is true, whatever the threads do meanwhile.               *)
THEOREM AssertionsHold == Spec => []ProtocolAssertions
<1>1. IInv => ProtocolAssertions
  <2> SUFFICES ASSUME IInv PROVE ProtocolAssertions
    OBVIOUS
  <2>1. Phases /\ Locking /\ Meeting
    BY DEF IInv
  <2>2. pc[VM] = "disarm" => futex_barrier # 0
    <3> SUFFICES ASSUME pc[VM] = "disarm" PROVE futex_barrier # 0
      OBVIOUS
    <3>1. /\ futex_barrier = safe_point_check - 1 /\ ~Odd(safe_point_check)
          /\ safe_point_check \in Nat /\ safe_point_check > 0
      BY <2>1 DEF Phases
    <3> QED
      BY <3>1 DEF Odd
  <2>3. ASSUME NEW t \in LangThreads, pc[t] = "barrier"
        PROVE  tag[t] # 0
    <3>1. Odd(seen[t]) /\ seen[t] \in Nat /\ tag[t] \in Nat /\ seen[t] <= tag[t]
      BY <2>1, <2>3 DEF Meeting
    <3> QED
      BY <3>1 DEF Odd
  <2>4. pc[VM] \in {"scan", "safepoint"} => OwnedBySelf(list_lock, VM)
    BY <2>1 DEF Locking, OwnedBySelf
  <2>5. /\ pc[VM] = "idle" => sync_state = "not_synchronized"
        /\ pc[VM] = "arm" => futex_barrier = 0 /\ safe_point_check % 2 = 0
        /\ pc[VM] = "safepoint" => sync_state = "synchronized"
        /\ pc[VM] = "count_end" => safe_point_check % 2 = 1
    BY <2>1 DEF Phases, Odd
  <2> QED
    BY <2>2, <2>3, <2>4, <2>5 DEF ProtocolAssertions
<1> QED
  BY <1>1, Invariance, PTL

(* A thread that met a safepoint in its callback goes on only when that    *)
(* safepoint is over, however it comes past the barrier.                   *)
THEOREM HeldThreads == Spec => []HeldUntilEnd
<1>1. IInv => HeldUntilEnd
  BY DEF IInv, Meeting, HeldUntilEnd, TypeOK
<1> QED
  BY <1>1, Invariance, PTL

(* Whoever sleeps on the barrier sleeps on the number that is armed, or is *)
(* about to be woken: no sleeper is left behind.                           *)
THEOREM WakeupsReachAll == Spec => []NoLostWakeup
<1>1. IInv => NoLostWakeup
  BY DEF IInv, Sleeping
<1> QED
  BY <1>1, Invariance, PTL

(* Between begin and end the list of threads stays what it is: who changes *)
(* it is inside LangThreadList_lock, which the VM thread holds.            *)
LEMMA ListStep ==
    ASSUME IInv, [Next]_vars, sync_state # "not_synchronized"
    PROVE  UNCHANGED list
<1>1. pc[VM] \in {"scan", "safepoint"} /\ list_lock.holder = VM
  BY DEF IInv, Phases, Locking
<1>2. ASSUME NEW t \in LangThreads, AddToList(t) \/ RemoveFromList(t)
      PROVE  FALSE
  <2>1. Inside(t)
    BY <1>2 DEF AddToList, RemoveFromList, At, Inside
  <2>2. t # VM /\ list_lock.holder = t
    BY <2>1, SafepointAssumption DEF IInv, Locking
  <2> QED
    BY <1>1, <2>2
<1>3. ASSUME NEW t \in LangThreads, LangThread(t)
      PROVE  UNCHANGED list
  BY <1>2, <1>3, ThreadSteps
     DEF Announces, Announce, TakesLock, LockListReturn, Arrive, Callback, SetBlockedDirect,
         ReadTag, BarrierWait, FutexWait, FutexReturns, SuspendLoop, CallbackReturns,
         CreateThread, members
<1>4. VMStep => UNCHANGED list
  BY VMFrame DEF IInv
<1> QED
  BY <1>3, <1>4 DEF Next, Interrupt, vars, members

(* No thread enters or leaves the thread list from begin() until the       *)
(* safepoint is over, since begin() holds the lock of the list             *)
(* (safepoint.cpp).                                                        *)
THEOREM ListIsFrozen == Spec => ListFrozen
<1>1. IInv /\ [Next]_vars => [sync_state # "not_synchronized" => UNCHANGED list]_vars
  BY ListStep
<1> QED
  BY <1>1, Invariance, PTL DEF Spec, ListFrozen
=============================================================================
