----------------------------- MODULE Safepoint ------------------------------
(***************************************************************************)
(* SafepointSynchronize (src/kernel/thread/safepoint.cpp), the WaitBarrier *)
(* it stops threads with, and the life of the LangThreads it stops: their  *)
(* states (OSThread::tans_state), their places in the list of user threads *)
(* (PlatThread.cpp) and the callback through which a thread that changes   *)
(* its state comes to a halt (LangThread.cpp).                             *)
(*                                                                         *)
(* The VM thread raises _state from not_synchronized over synchronizing to *)
(* synchronized once it has seen no listed thread running.  Nothing makes  *)
(* a thread stop: a thread that leaves RUNNING (to wait for a mutex, or at *)
(* its end) while _state is synchronized sleeps on the barrier until the   *)
(* safepoint ends.  The mutexes threads wait for in the body of run() are  *)
(* not distinguished; LangThreadList_lock, which pre_run and post_run take *)
(* and which begin and end take too, is a record of module Monitor.        *)
(***************************************************************************)
EXTENDS Monitor, Sequences

CONSTANTS
    LangThreads,   \* the language-level threads
    Attached,      \* those attached to a running thread (main): never listed
    VM,            \* the VM thread
    NoError,       \* no assertion has failed
    DEBUG_MODE,    \* assertions are compiled in (plat/macro.hpp)
    MaxSafepoints, \* bound: calls of begin
    MaxInterrupts  \* bound: futex waits that end without a wakeup

ASSUME SafepointAssumption ==
    /\ Attached \subseteq LangThreads /\ VM \notin LangThreads
    /\ NoThread \notin LangThreads \cup {VM}
    /\ DEBUG_MODE \in BOOLEAN
    /\ MaxSafepoints \in Nat /\ MaxInterrupts \in Nat

VARIABLES
    pc,               \* the point each thread has reached
    os_state,         \* OSThread::_os_state
    transition,       \* the tans_state each thread is in
    list,             \* PlatThread::_user_thread_list, from its head
    list_lock,        \* LangThreadList_lock
    sync_state,       \* SafepointSynchronize::_state
    safe_point_check, \* SafepointSynchronize::_safe_point_check
    futex_barrier,    \* WaitBarrier::_futex_barrier
    sleepers,         \* threads the kernel holds in FUTEX_WAIT
    tag,              \* the argument of a thread's WaitBarrier::wait
    cursor,           \* where in the list the VM thread's closure is
    still,            \* the last running thread of this pass (0: none)
    vm_error,         \* the assertion that stopped the program
    seen,             \* history: the safepoint a thread's callback met, or 0
    interrupts        \* history: interrupted futex waits

threads == <<os_state, transition, tag>>
closure == <<cursor, still>>
barrier == <<futex_barrier, sleepers>>
sync    == <<sync_state, safe_point_check>>
members == <<list, list_lock>>
history == <<seen, interrupts>>
vars    == <<pc, threads, members, sync, barrier, closure, vm_error, history>>

At(t, label)   == vm_error = NoError /\ pc[t] = label
Goto(t, label) == pc' = [pc EXCEPT ![t] = label]
Fails(t, line) == vm_error' = line /\ UNCHANGED pc

(* A step of a thread that ends in an assert.                              *)
GotoIf(cond, t, label, line) ==
    IF DEBUG_MODE /\ ~cond THEN Fails(t, line)
    ELSE Goto(t, label) /\ UNCHANGED vm_error

Tans(s) == CASE s = "READY"   -> "READY_TANS"
             [] s = "RUNNING" -> "RUNNING_TANS"
             [] s = "BLOCKED" -> "BLOCKED_TANS"

NoTransition == [from |-> "NEW", to |-> "NEW", ret |-> "new"]

Init ==
    /\ pc = [t \in LangThreads \cup {VM} |->
                IF t = VM THEN "idle" ELSE IF t \in Attached THEN "run" ELSE "new"]
    /\ os_state = [t \in LangThreads |->
                      IF t \in Attached THEN "RUNNING" ELSE "NEW"]
    /\ transition = [t \in LangThreads |-> NoTransition]
    /\ list = <<>> /\ list_lock = FreeMonitor
    /\ sync_state = "not_synchronized" /\ safe_point_check = 0
    /\ futex_barrier = 0 /\ sleepers = {}
    /\ tag = [t \in LangThreads |-> 0]
    /\ cursor = 1 /\ still = 0
    /\ vm_error = NoError
    /\ seen = [t \in LangThreads |-> 0] /\ interrupts = 0

-----------------------------------------------------------------------------
(* OSThread::tans_state(to): the call, which announces the change; the     *)
(* callback; the arrival in the new state, back at the caller.  A local    *)
(* variable has its initial value again when its function has returned.    *)

Announce(t, at, to, ret) ==
    /\ At(t, at)
    /\ GotoIf(to = "ZOMBIE" => os_state[t] = "BLOCKED", t, "callback", "OSThread.cpp:32")
    /\ transition' = [transition EXCEPT ![t] =
                         [from |-> os_state[t], to |-> to, ret |-> ret]]
    /\ os_state' = [os_state EXCEPT ![t] = Tans(os_state[t])]
    /\ UNCHANGED <<tag, members, sync, barrier, closure, history>>

Arrive(t) ==
    /\ At(t, "arrive")
    /\ os_state' = [os_state EXCEPT ![t] = transition[t].to]
    /\ Goto(t, transition[t].ret)
    /\ transition' = [transition EXCEPT ![t] = NoTransition]
    /\ tag' = [tag EXCEPT ![t] = 0] /\ seen' = [seen EXCEPT ![t] = 0]
    /\ UNCHANGED <<members, sync, barrier, closure, vm_error, interrupts>>

(* LangThread::state_transitioning_callback.                               *)
MustStop(t) == sync_state = "synchronized" /\ transition[t].from = "RUNNING"

Callback(t) ==
    /\ At(t, "callback")
    /\ IF MustStop(t)
         THEN Goto(t, "block") /\ seen' = [seen EXCEPT ![t] = safe_point_check]
         ELSE Goto(t, "arrive") /\ UNCHANGED seen
    /\ UNCHANGED <<threads, members, sync, barrier, closure, vm_error, interrupts>>

SetBlockedDirect(t) ==
    /\ At(t, "block")
    /\ os_state' = [os_state EXCEPT ![t] = "BLOCKED"]
    /\ Goto(t, "tag")
    /\ UNCHANGED <<transition, tag, members, sync, barrier, closure, vm_error, history>>

ReadTag(t) ==
    /\ At(t, "tag")
    /\ tag' = [tag EXCEPT ![t] = safe_point_check]
    /\ Goto(t, "barrier")
    /\ UNCHANGED <<os_state, transition, members, sync, barrier, closure, vm_error,
                   history>>

(* WaitBarrier::wait.  Its ThreadStatusBlockedTrans expects a thread that  *)
(* is RUNNING; without assertions it takes the thread from BLOCKED to      *)
(* BLOCKED, and to RUNNING when the wait is over.                          *)
BarrierWait(t) ==
    /\ At(t, "barrier")
    /\ IF tag[t] # futex_barrier
         THEN Goto(t, "after") /\ UNCHANGED vm_error
         ELSE GotoIf(os_state[t] = "RUNNING", t, "futex", "ThreadStatusBlockedTrans.cpp:9")
    /\ UNCHANGED <<threads, members, sync, barrier, closure, history>>

\* Mutant: a wait that does not compare the word with the tag.
FutexWaitAlways(t) ==
    /\ At(t, "futex")
    /\ Goto(t, "asleep") /\ sleepers' = sleepers \cup {t}
    /\ UNCHANGED <<threads, members, sync, futex_barrier, closure, vm_error, history>>

(* os::suspend: FUTEX_WAIT compares and goes to sleep in one step ...      *)
FutexWait(t) ==
    /\ At(t, "futex")
    /\ IF futex_barrier = tag[t]
         THEN Goto(t, "asleep") /\ sleepers' = sleepers \cup {t}
         ELSE Goto(t, "recheck") /\ UNCHANGED sleepers
    /\ UNCHANGED <<threads, members, sync, futex_barrier, closure, vm_error, history>>

FutexReturns(t) ==
    /\ At(t, "asleep") /\ t \notin sleepers
    /\ Goto(t, "recheck")
    /\ UNCHANGED <<threads, members, sync, barrier, closure, vm_error, history>>

\* Mutant: no loop around FUTEX_WAIT.
WaitsAgainNever(t) == FALSE

(* ... and the loop goes round while the word still holds the tag.         *)
WaitsAgain(t) == futex_barrier = tag[t]

SuspendLoop(t) ==
    /\ At(t, "recheck")
    /\ IF WaitsAgain(t)
         THEN Goto(t, "futex") /\ UNCHANGED os_state
         ELSE Goto(t, "after") /\ os_state' = [os_state EXCEPT ![t] = "RUNNING"]
    /\ UNCHANGED <<transition, tag, members, sync, barrier, closure, vm_error, history>>

(* The last assertion of the callback.                                     *)
CallbackReturns(t) ==
    /\ At(t, "after")
    /\ GotoIf(sync_state # "synchronized", t, "arrive", "LangThread.cpp:24")
    /\ UNCHANGED <<threads, members, sync, barrier, closure, history>>

Transition(t) ==
    \/ Arrive(t) \/ Callback(t) \/ SetBlockedDirect(t) \/ ReadTag(t) \/ BarrierWait(t)
    \/ FutexWait(t) \/ FutexReturns(t) \/ SuspendLoop(t) \/ CallbackReturns(t)

-----------------------------------------------------------------------------
(* The life of a LangThread: create_thread, native_call, pre_run, run,     *)
(* post_run.  Mutex::lock is BLOCKED while it waits for the pthread mutex. *)

CreateThread(t) ==
    /\ At(t, "new")
    /\ os_state' = [os_state EXCEPT ![t] = "READY"]
    /\ Goto(t, "start")
    /\ UNCHANGED <<transition, tag, members, sync, barrier, closure, vm_error, history>>

NativeCall(t) == Announce(t, "start", "RUNNING", "pre_run")

LockListCall(t, from, to) == Announce(t, from, "BLOCKED", to)

LockListReturn(t, from, to) ==
    /\ CanLock(list_lock, t)
    /\ At(t, from)
    /\ list_lock' = Lock(list_lock, t)
    /\ Goto(t, to)
    /\ UNCHANGED <<threads, list, sync, barrier, closure, vm_error, history>>

LockListOwned(t, from, to) == Announce(t, from, "RUNNING", to)

PreRun(t) ==
    \/ LockListCall(t, "pre_run", "pre_lock")
    \/ LockListReturn(t, "pre_lock", "pre_locked")
    \/ LockListOwned(t, "pre_locked", "add_to_list")

(* add_to_list puts the thread at the head; the MutexLocker's scope ends.  *)
AddToList(t) ==
    /\ At(t, "add_to_list")
    /\ list' = <<t>> \o list
    /\ list_lock' = Unlock(list_lock, t)
    /\ Goto(t, "run")
    /\ UNCHANGED <<threads, sync, barrier, closure, vm_error, history>>

(* The body of run(): the thread waits for a mutex and gets it.            *)
LockCall(t) == Announce(t, "run", "BLOCKED", "locked")

LockOwned(t) == Announce(t, "locked", "RUNNING", "run")

PostRun(t) ==
    \/ t \notin Attached /\ LockListCall(t, "run", "post_lock")
    \/ LockListReturn(t, "post_lock", "post_locked")
    \/ LockListOwned(t, "post_locked", "remove_from_list")

(* remove_from_list unlinks the head only: behind a predecessor it stores  *)
(* the successor in the removed thread's own _next.                        *)
Removed(t) == IF list # <<>> /\ Head(list) = t THEN Tail(list) ELSE list

RemoveFromList(t) ==
    /\ At(t, "remove_from_list")
    /\ list' = Removed(t)
    /\ list_lock' = Unlock(list_lock, t)
    /\ Goto(t, "exit")
    /\ UNCHANGED <<threads, sync, barrier, closure, vm_error, history>>

Exit(t) == Announce(t, "exit", "ZOMBIE", "done")

LangThread(t) ==
    \/ Transition(t)
    \/ CreateThread(t) \/ NativeCall(t) \/ PreRun(t) \/ AddToList(t)
    \/ LockCall(t) \/ LockOwned(t)
    \/ PostRun(t) \/ RemoveFromList(t) \/ Exit(t)

-----------------------------------------------------------------------------
(* SafepointSynchronize::begin, on the VM thread.                          *)

VMGoto(from, to) == At(VM, from) /\ Goto(VM, to) /\ UNCHANGED <<threads, vm_error, history>>

\* Mutant: begin does not take LangThreadList_lock.
BeginUnlocked ==
    /\ safe_point_check < 2 * MaxSafepoints
    /\ VMGoto("idle", "arm")
    /\ UNCHANGED <<members, sync, barrier, closure>>

Begin ==
    /\ safe_point_check < 2 * MaxSafepoints
    /\ CanLock(list_lock, VM)
    /\ VMGoto("idle", "arm")
    /\ list_lock' = Lock(list_lock, VM)
    /\ UNCHANGED <<list, sync, barrier, closure>>

BarrierNumber == safe_point_check + 1

Arm ==
    /\ VMGoto("arm", "count")
    /\ futex_barrier' = BarrierNumber
    /\ UNCHANGED <<members, sync, sleepers, closure>>

CountBegin ==
    /\ VMGoto("count", "synchronizing")
    /\ safe_point_check' = safe_point_check + 1
    /\ UNCHANGED <<members, sync_state, barrier, closure>>

Synchronizing ==
    /\ VMGoto("synchronizing", "scan")
    /\ sync_state' = "synchronizing"
    /\ UNCHANGED <<members, safe_point_check, barrier, closure>>

\* Mutant: everything but a thread in a transition counts as running.
CountsAsRunningUnlessTrans(t) == os_state[t] \in {"RUNNING", "BLOCKED", "ZOMBIE"}

(* StillRunningThreadClosure::do_thread.                                   *)
CountsAsRunning(t) == os_state[t] = "RUNNING"

(* synchronize_threads: the closure goes down the list by _next; the last  *)
(* running thread it met is the head of _still_list.                       *)
ScanThread ==
    /\ cursor <= Len(list)
    /\ VMGoto("scan", "scan")
    /\ still' = IF CountsAsRunning(list[cursor]) THEN cursor ELSE still
    /\ cursor' = cursor + 1
    /\ UNCHANGED <<members, sync, barrier>>

(* A pass that met a running thread is repeated, from that thread on.      *)
ScanAgain ==
    /\ cursor > Len(list) /\ still # 0
    /\ VMGoto("scan", "scan")
    /\ cursor' = still /\ still' = 0
    /\ UNCHANGED <<members, sync, barrier>>

Synchronized ==
    /\ cursor > Len(list) /\ still = 0
    /\ VMGoto("scan", "safepoint")
    /\ sync_state' = "synchronized"
    /\ cursor' = 1
    /\ UNCHANGED <<members, safe_point_check, barrier, still>>

-----------------------------------------------------------------------------
(* SafepointSynchronize::end.  Where it says to release the list lock it   *)
(* locks it once more.                                                     *)
End ==
    /\ VMGoto("safepoint", "count_end")
    /\ sync_state' = "not_synchronized"
    /\ UNCHANGED <<members, safe_point_check, barrier, closure>>

CountEnd ==
    /\ VMGoto("count_end", "end_lock")
    /\ safe_point_check' = safe_point_check + 1
    /\ UNCHANGED <<members, sync_state, barrier, closure>>

EndLock ==
    /\ CanLock(list_lock, VM)
    /\ VMGoto("end_lock", "disarm")
    /\ list_lock' = Lock(list_lock, VM)
    /\ UNCHANGED <<list, sync, barrier, closure>>

Disarm ==
    /\ VMGoto("disarm", "wakeup")
    /\ futex_barrier' = 0
    /\ UNCHANGED <<members, sync, sleepers, closure>>

\* Mutant: one sleeper is woken, not INT32_MAX.
WakeupOne ==
    /\ VMGoto("wakeup", "idle")
    /\ sleepers' = IF sleepers = {} THEN {}
                   ELSE sleepers \ {CHOOSE t \in sleepers : TRUE}
    /\ UNCHANGED <<members, sync, futex_barrier, closure>>

Wakeup ==
    /\ VMGoto("wakeup", "idle")
    /\ sleepers' = {}
    /\ UNCHANGED <<members, sync, futex_barrier, closure>>

VMStep ==
    \/ Begin \/ Arm \/ CountBegin \/ Synchronizing
    \/ ScanThread \/ ScanAgain \/ Synchronized
    \/ End \/ CountEnd \/ EndLock \/ Disarm \/ Wakeup

-----------------------------------------------------------------------------
(* A signal handler may end a FUTEX_WAIT (EINTR).                          *)
Interrupt(t) ==
    /\ vm_error = NoError
    /\ interrupts < MaxInterrupts
    /\ t \in sleepers
    /\ sleepers' = sleepers \ {t}
    /\ interrupts' = interrupts + 1
    /\ UNCHANGED <<pc, threads, members, sync, futex_barrier, closure, vm_error, seen>>

Next ==
    \/ \E t \in LangThreads : LangThread(t) \/ Interrupt(t)
    \/ VMStep

Spec == Init /\ [][Next]_vars

(* Threads that can run do run.  What run() does is its own: a thread may  *)
(* be RUNNING in it for ever, take mutexes again and again, and wait for   *)
(* ever for one that another thread keeps.  Creating a thread and beginning*)
(* a safepoint are choices too.                                            *)
Fairness ==
    /\ \A t \in LangThreads :
           WF_vars(LangThread(t) /\ pc[t] \notin {"new", "run", "locked"})
    /\ WF_vars(VMStep /\ pc[VM] # "idle")

FairSpec == Spec /\ Fairness

-----------------------------------------------------------------------------
States == {"NEW", "READY", "READY_TANS", "RUNNING", "RUNNING_TANS", "BLOCKED",
           "BLOCKED_TANS", "ZOMBIE"}
ThreadLabels ==
    { "new", "start", "callback", "block", "tag", "barrier", "futex", "asleep",
      "recheck", "after", "arrive", "pre_run", "pre_lock", "pre_locked",
      "add_to_list", "run", "locked", "post_lock", "post_locked",
      "remove_from_list", "exit", "done" }
VMLabels == { "idle", "arm", "count", "synchronizing", "scan", "safepoint",
              "count_end", "end_lock", "disarm", "wakeup" }
Failures == { "OSThread.cpp:32", "ThreadStatusBlockedTrans.cpp:9", "LangThread.cpp:24" }

ASSUME NoErrorAssumption == NoError \notin Failures

(* The state has the types of the classes' fields; a barrier is armed with *)
(* odd numbers only, since 0 means that it is not.                         *)
TypeOK ==
    /\ pc \in [LangThreads \cup {VM} -> ThreadLabels \cup VMLabels]
    /\ os_state \in [LangThreads -> States]
    /\ transition \in [LangThreads ->
                          [from : States, to : States, ret : ThreadLabels]]
    /\ list \in Seq(LangThreads)
    /\ list_lock \in MonitorType(LangThreads \cup {VM})
    /\ sync_state \in {"not_synchronized", "synchronizing", "synchronized"}
    /\ safe_point_check \in Nat
    /\ futex_barrier \in {0} \cup {2 * n + 1 : n \in 0..MaxSafepoints}
    /\ sleepers \subseteq LangThreads
    /\ tag \in [LangThreads -> Nat]
    /\ cursor \in Nat /\ still \in Nat
    /\ vm_error \in Failures \cup {NoError}
    /\ seen \in [LangThreads -> Nat] /\ interrupts \in Nat

(* The assertions of begin, end, arm, disarm and wait hold: where the VM   *)
(* thread or a waiting thread reaches one, its condition is true.          *)
ProtocolAssertions ==
    /\ pc[VM] = "idle" => sync_state = "not_synchronized"
    /\ pc[VM] = "arm" => futex_barrier = 0 /\ safe_point_check % 2 = 0
    /\ pc[VM] \in {"scan", "safepoint"} => OwnedBySelf(list_lock, VM)
    /\ pc[VM] = "safepoint" => sync_state = "synchronized"
    /\ pc[VM] = "count_end" => safe_point_check % 2 = 1
    /\ pc[VM] = "disarm" => futex_barrier # 0
    /\ \A t \in LangThreads : pc[t] = "barrier" => tag[t] # 0

(* A thread that met a safepoint in its callback does not go on before     *)
(* that safepoint is over, whether it slept, was interrupted in its sleep  *)
(* or came too late to sleep (LangThread.cpp:14).                          *)
HeldUntilEnd ==
    \A t \in LangThreads :
        pc[t] \in {"after", "arrive"} /\ seen[t] # 0 => seen[t] # safe_point_check

(* No thread sleeps on a barrier that has been let down: whoever sleeps    *)
(* has the number that is armed, or is about to be woken.                  *)
NoLostWakeup ==
    \A t \in sleepers : tag[t] = futex_barrier \/ pc[VM] = "wakeup"

(* Between begin and end no LangThread comes to the list or leaves it      *)
(* (safepoint.cpp:28).                                                     *)
ListFrozen == [][sync_state # "not_synchronized" => UNCHANGED list]_vars

(* A thread of the list is RUNNING for ever, or again and again.           *)
SomeThreadRunsOn ==
    \E t \in LangThreads :
        []<>(os_state[t] = "RUNNING" /\ \E i \in 1..Len(list) : list[i] = t)

(* The scan of begin waits for running threads only: it ends unless some   *)
(* thread of the list runs on.  A thread that waits for a mutex (the list  *)
(* lock, which the VM thread holds meanwhile, among them), that has        *)
(* finished or is in a transition is not waited for (safepoint.cpp:83).    *)
SynchronizeReturns == (pc[VM] = "scan" ~> pc[VM] = "safepoint") \/ SomeThreadRunsOn

(* A thread that sleeps on the barrier goes on, unless it sleeps in a      *)
(* safepoint whose scan waits for ever: late from an earlier safepoint, it *)
(* may have read the number of the next one (LangThread.cpp:21).           *)
SleepersResume ==
    \/ \A t \in LangThreads : pc[t] = "asleep" ~> pc[t] \in {"after", "arrive"}
    \/ SomeThreadRunsOn

(* The comment on synchronized (safepoint.hpp:29): all lang threads have   *)
(* stopped, only the VM thread runs.                                       *)
OnlyVMThreadRuns ==
    sync_state = "synchronized" =>
        \A i \in 1..Len(list) : os_state[list[i]] # "RUNNING"

(* The comment in end (safepoint.cpp:70): it releases the list lock, so    *)
(* that threads can come and go again.                                     *)
ListLockReleased == pc[VM] = "idle" => list_lock.holder # VM

(* The assertions in the threads' own code hold; for the callback: a       *)
(* thread in a safepoint blocks and goes back to its former state when the *)
(* safepoint is over (LangThread.cpp:14).                                  *)
ThreadAssertionsHold == vm_error = NoError
=============================================================================
