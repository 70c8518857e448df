------------------------------ MODULE VMThread ------------------------------
(***************************************************************************)
(* The VM thread and the protocol by which other threads hand it their     *)
(* VM_Operations (src/kernel/thread/VMThread.cpp, VM_Operation.cpp).       *)
(*                                                                         *)
(* A requester calls VMThread::execute: it installs its operation in the   *)
(* one-slot mailbox _next_operation and waits on VMOperation_lock until    *)
(* the slot no longer holds it.  The VM thread loops: it clears the slot,  *)
(* waits for an operation, evaluates it (inside a safepoint when the       *)
(* operation asks for one, and with operations nested in it when it allows *)
(* that) and clears the slot again.  The main thread may call destroy.     *)
(*                                                                         *)
(* Every requester has one operation object, on its stack, named like the  *)
(* requester itself; NestedOps are the operations evaluated from within a  *)
(* doit().  SafepointSynchronize appears as the flag at_safepoint; module  *)
(* Safepoint models what begin and end do.                                 *)
(***************************************************************************)
EXTENDS Monitor, Sequences

CONSTANTS
    Requesters,      \* threads that call VMThread::execute
    NestedOps,       \* operations executed by the VM thread itself
    AtSafepoint,     \* operations whose evaluate_at_safepoint() is true
    NestingAllowed,  \* operations whose allow_nested_vm_operations() is true
    VM, Main,        \* the VM thread and the thread that calls destroy
    NoOp,            \* the null VM_Operation pointer
    NoError,         \* no assertion or guarantee has failed
    WaitForStartup,  \* callers wait until the VM thread is up (the test's sleep(1))
    WithDestroy,     \* the main thread calls VMThread::destroy
    MaxRequests,     \* bound: calls of execute per requester
    MaxNested,       \* bound: nested operations per doit()
    MaxSpurious      \* bound: wake-ups nobody asked for

Threads == Requesters \cup {VM, Main}
Ops     == Requesters \cup NestedOps

ASSUME VMThreadAssumption ==
    /\ Requesters \cap NestedOps = {}
    /\ VM \notin Requesters /\ Main \notin Requesters /\ VM # Main
    /\ NoThread \notin Threads /\ NoOp \notin Ops
    /\ WaitForStartup \in BOOLEAN /\ WithDestroy \in BOOLEAN
    /\ MaxRequests \in Nat /\ MaxNested \in Nat /\ MaxSpurious \in Nat

VARIABLES
    pc,                \* the point each thread has reached
    monitor,           \* VMOperation_lock and terminate_lock
    next_operation,    \* the mailbox
    frames,            \* activations of inner_execute; the last one is current
    calling_thread,    \* VM_Operation::_calling_thread
    at_safepoint,      \* SafepointSynchronize::is_at_safepoint()
    should_terminate,
    is_terminate,
    vm_thread,         \* VMThread::_vm_thread # nullptr
    vm_error,          \* the assertion or guarantee that stopped the program
    requests,          \* history: calls made by each requester
    evaluated,         \* history: evaluations of the operation of the current call
    started,           \* history: wait_for_operation has cleared the slot once
    spurious           \* history: spurious wake-ups so far

term    == <<should_terminate, is_terminate, vm_thread>>
eval    == <<frames, at_safepoint, calling_thread>>
history == <<requests, evaluated, started, spurious>>
data    == <<next_operation, eval, term, vm_error, history>>
vars    == <<pc, monitor, data>>

-----------------------------------------------------------------------------
MonitorNames == {"VMOperation_lock", "terminate_lock"}

Frame == [op : Ops, end_safepoint : BOOLEAN, nested : 0..MaxNested]

(* _cur_operation: each activation saves the previous one in prev_operation*)
(* and restores it, so the current operation is that of the last frame.    *)
current == frames[Len(frames)]
cur_operation == IF frames = <<>> THEN NoOp ELSE current.op

WithCurrent(f) == [frames EXCEPT ![Len(frames)] = f]

Activation(op, end_safepoint, nested) ==
    [op |-> op, end_safepoint |-> end_safepoint, nested |-> nested]
Entered(op) == Activation(op, FALSE, 0)

At(t, label)   == vm_error = NoError /\ pc[t] = label
Goto(t, label) == pc' = [pc EXCEPT ![t] = label]

(* The uses threads make of a monitor k; each is a step between two labels.*)
Acquire(t, k, from, to) ==
    /\ At(t, from) /\ CanLock(monitor[k], t)
    /\ monitor' = [monitor EXCEPT ![k] = Lock(@, t)]
    /\ Goto(t, to) /\ UNCHANGED data

Release(t, k, from, to) ==
    /\ At(t, from)
    /\ monitor' = [monitor EXCEPT ![k] = Unlock(@, t)]
    /\ Goto(t, to) /\ UNCHANGED data

WaitOn(t, k, from, to) ==
    /\ At(t, from)
    /\ monitor' = [monitor EXCEPT ![k] = Wait(@, t)]
    /\ Goto(t, to) /\ UNCHANGED data

Wake(t, k, from, to) ==
    /\ At(t, from) /\ CanReturnFromWait(monitor[k], t)
    /\ monitor' = [monitor EXCEPT ![k] = ReturnFromWait(@, t)]
    /\ Goto(t, to) /\ UNCHANGED data

NotifyAllOn(k) == monitor' = [monitor EXCEPT ![k] = NotifyAll(@)]

Init ==
    /\ pc = [t \in Threads |-> IF t = VM THEN "loop" ELSE "idle"]
    /\ monitor = [k \in MonitorNames |-> FreeMonitor]
    /\ next_operation = NoOp
    /\ frames = <<>>
    /\ calling_thread = [op \in Ops |-> NoThread]
    /\ at_safepoint = FALSE
    /\ should_terminate = FALSE /\ is_terminate = FALSE /\ vm_thread = TRUE
    /\ vm_error = NoError
    /\ requests = [r \in Requesters |-> 0]
    /\ evaluated = [r \in Requesters |-> 0]
    /\ started = FALSE /\ spurious = 0

-----------------------------------------------------------------------------
(* VMThread::execute, called by a thread other than the VM thread.         *)

Call(r) ==
    /\ At(r, "idle")
    /\ requests[r] < MaxRequests
    /\ WaitForStartup => started
    /\ requests' = [requests EXCEPT ![r] = requests[r] + 1]
    /\ calling_thread' = [calling_thread EXCEPT ![r] = r]
    /\ UNCHANGED <<monitor, next_operation, frames, at_safepoint, term, started,
                   spurious>>

(* doit_prologue() agrees; vm_thread() is read and dereferenced.           *)
Execute(r) ==
    /\ Call(r)
    /\ IF vm_thread
         THEN Goto(r, "lock") /\ UNCHANGED vm_error
         ELSE vm_error' = "null VMThread" /\ UNCHANGED pc
    /\ evaluated' = [evaluated EXCEPT ![r] = 0]

PrologueRefuses(r) == Call(r) /\ UNCHANGED <<pc, vm_error, evaluated>>

(* wait_until_executed: the MonitorLocker, the loop that installs, the     *)
(* loop that waits for the slot to change hands, the end of the scope.     *)
LockOperation(r) == Acquire(r, "VMOperation_lock", "lock", "install")

\* Mutant: the VM thread is not told of the operation in the slot.
InstallSilently(r) ==
    /\ At(r, "install") /\ next_operation = NoOp
    /\ next_operation' = r
    /\ Goto(r, "check")
    /\ UNCHANGED <<monitor, eval, term, vm_error, history>>

Install(r) ==
    /\ At(r, "install")
    /\ next_operation = NoOp
    /\ next_operation' = r
    /\ NotifyAllOn("VMOperation_lock")
    /\ Goto(r, "check")
    /\ UNCHANGED <<eval, term, vm_error, history>>

InstallWait(r) ==
    /\ next_operation # NoOp
    /\ WaitOn(r, "VMOperation_lock", "install", "install_wait")

InstallWake(r) == Wake(r, "VMOperation_lock", "install_wait", "install")

CheckWait(r) ==
    /\ next_operation = r
    /\ WaitOn(r, "VMOperation_lock", "check", "check_wait")

CheckWake(r) == Wake(r, "VMOperation_lock", "check_wait", "check")

\* Mutant: `if` where the code says `while`; the slot is not looked at again.
CheckDoneIfNotWhile(r) == Release(r, "VMOperation_lock", "check", "return")

\* Mutant: an unlock() of its own inside the scope of the MonitorLocker.
CheckDoneUnlocksTwice(r) ==
    /\ At(r, "check") /\ next_operation # r
    /\ monitor' = [monitor EXCEPT !["VMOperation_lock"] = Unlock(Unlock(@, r), r)]
    /\ Goto(r, "return") /\ UNCHANGED data

CheckDone(r) ==
    /\ next_operation # r
    /\ Release(r, "VMOperation_lock", "check", "return")

(* doit_epilogue and the return to the caller.                             *)
Return(r) == At(r, "return") /\ Goto(r, "idle") /\ UNCHANGED <<monitor, data>>

Requester(r) ==
    \/ Execute(r) \/ PrologueRefuses(r) \/ LockOperation(r)
    \/ Install(r) \/ InstallWait(r) \/ InstallWake(r)
    \/ CheckWait(r) \/ CheckWake(r) \/ CheckDone(r) \/ Return(r)

-----------------------------------------------------------------------------
(* VMThread::loop and VMThread::wait_for_operation.                        *)

\* Mutant: an operation still in the slot is taken as the next one.
LoopTestTakesSlot ==
    /\ At(VM, "loop")
    /\ Goto(VM, IF should_terminate THEN "exit"
                ELSE IF next_operation # NoOp THEN "recheck" ELSE "lock")
    /\ UNCHANGED <<monitor, data>>

LoopTest ==
    /\ At(VM, "loop")
    /\ Goto(VM, IF should_terminate THEN "exit" ELSE "lock")
    /\ UNCHANGED <<monitor, data>>

WaitLock == Acquire(VM, "VMOperation_lock", "lock", "clear")

(* The operation in the slot has been executed: take it out, say so.       *)
ClearNext ==
    /\ At(VM, "clear")
    /\ next_operation' = NoOp
    /\ NotifyAllOn("VMOperation_lock")
    /\ started' = TRUE
    /\ Goto(VM, "while")
    /\ UNCHANGED <<eval, term, vm_error, requests, evaluated, spurious>>

\* Mutant: `if` where wait_for_operation says `while`.
WhileDoneUnchecked == Release(VM, "VMOperation_lock", "while", "recheck")

WhileDone ==
    /\ should_terminate \/ next_operation # NoOp
    /\ Release(VM, "VMOperation_lock", "while", "recheck")

WhileWait ==
    /\ At(VM, "while")
    /\ ~should_terminate /\ next_operation = NoOp
    /\ monitor' = [monitor EXCEPT !["VMOperation_lock"] = Wait(NotifyAll(@), VM)]
    /\ Goto(VM, "waiting")
    /\ UNCHANGED data

WhileWake == Wake(VM, "VMOperation_lock", "waiting", "while")

(* The second test of should_terminate and the second read of the slot are *)
(* made without the lock.                                                  *)
RecheckExit ==
    /\ At(VM, "recheck") /\ should_terminate
    /\ Goto(VM, "exit")
    /\ UNCHANGED <<monitor, data>>

TakeOperation ==
    /\ At(VM, "recheck") /\ ~should_terminate
    /\ IF next_operation = NoOp
         THEN vm_error' = "VMThread.cpp:71" /\ UNCHANGED <<pc, frames>>
         ELSE /\ frames' = Append(frames, Entered(next_operation))
              /\ Goto(VM, "enter")
              /\ UNCHANGED vm_error
    /\ UNCHANGED <<monitor, next_operation, calling_thread, at_safepoint, term,
                   history>>

-----------------------------------------------------------------------------
(* VMThread::inner_execute.                                                *)

\* Mutant: a safepoint is begun (and later ended) inside one that is in force.
BeginsSafepointAgain == cur_operation \in AtSafepoint

BeginsSafepoint == cur_operation \in AtSafepoint /\ ~at_safepoint

EnterOperation ==
    /\ At(VM, "enter")
    /\ frames' = WithCurrent(
                     Activation(cur_operation, BeginsSafepoint, current.nested))
    /\ at_safepoint' = (at_safepoint \/ BeginsSafepoint)
    /\ Goto(VM, "doit")
    /\ UNCHANGED <<monitor, next_operation, calling_thread, term, vm_error, history>>

NestedCaller == calling_thread[cur_operation]

(* A doit() that calls VM_Operation::execute on the VM thread itself:      *)
(* the guarantee on the current operation, the caller handed down, and a   *)
(* new activation.                                                         *)
ExecuteNested(op) ==
    /\ At(VM, "doit")
    /\ current.nested < MaxNested
    /\ \A i \in 1..Len(frames) : frames[i].op # op
    /\ IF cur_operation \in NestingAllowed
         THEN /\ frames' = Append(
                  WithCurrent(Activation(cur_operation, current.end_safepoint,
                                         current.nested + 1)),
                  Entered(op))
              /\ calling_thread' = [calling_thread EXCEPT ![op] = NestedCaller]
              /\ Goto(VM, "enter") /\ UNCHANGED vm_error
         ELSE /\ calling_thread' = [calling_thread EXCEPT ![op] = VM]
              /\ vm_error' = "VMThread.cpp:101" /\ UNCHANGED <<pc, frames>>
    /\ UNCHANGED <<monitor, next_operation, at_safepoint, term, history>>

DoitReturns ==
    /\ At(VM, "doit")
    /\ evaluated' = [r \in Requesters |->
                        IF r = cur_operation THEN evaluated[r] + 1 ELSE evaluated[r]]
    /\ Goto(VM, "finish")
    /\ UNCHANGED <<monitor, next_operation, eval, term, vm_error, requests, started,
                   spurious>>

EndsSafepoint == current.end_safepoint

(* The safepoint ends with the activation that began it; _cur_operation    *)
(* goes back to the enclosing operation.                                   *)
LeaveOperation ==
    /\ At(VM, "finish")
    /\ IF EndsSafepoint /\ ~at_safepoint
         THEN vm_error' = "safepoint.cpp:63" /\ UNCHANGED <<pc, frames, at_safepoint>>
         ELSE /\ at_safepoint' = (at_safepoint /\ ~EndsSafepoint)
              /\ frames' = SubSeq(frames, 1, Len(frames) - 1)
              /\ Goto(VM, IF Len(frames) = 1 THEN "loop" ELSE "doit")
              /\ UNCHANGED vm_error
    /\ UNCHANGED <<monitor, next_operation, calling_thread, term, history>>

-----------------------------------------------------------------------------
(* The end of VMThread::run: a last safepoint, then the news for destroy.  *)

ExitSafepoint ==
    /\ At(VM, "exit")
    /\ IF at_safepoint
         THEN vm_error' = "safepoint.cpp:24" /\ UNCHANGED <<pc, at_safepoint>>
         ELSE at_safepoint' = TRUE /\ Goto(VM, "term_lock") /\ UNCHANGED vm_error
    /\ UNCHANGED <<monitor, next_operation, frames, calling_thread, term, history>>

TerminateLock == Acquire(VM, "terminate_lock", "term_lock", "term_notify")

TerminateNotify ==
    /\ At(VM, "term_notify")
    /\ is_terminate' = TRUE
    /\ \E m \in Notify(monitor["terminate_lock"]) :
            monitor' = [monitor EXCEPT !["terminate_lock"] = m]
    /\ Goto(VM, "term_unlock")
    /\ UNCHANGED <<next_operation, eval, should_terminate, vm_thread, vm_error,
                   history>>

TerminateUnlock == Release(VM, "terminate_lock", "term_unlock", "terminated")

VMStep ==
    \/ LoopTest \/ WaitLock \/ ClearNext \/ WhileDone \/ WhileWait \/ WhileWake
    \/ RecheckExit \/ TakeOperation
    \/ EnterOperation \/ DoitReturns \/ LeaveOperation
    \/ \E op \in NestedOps : ExecuteNested(op)
    \/ ExitSafepoint \/ TerminateLock \/ TerminateNotify \/ TerminateUnlock

-----------------------------------------------------------------------------
(* VMThread::destroy, on the main thread.                                  *)

DestroyLock ==
    WithDestroy /\ Acquire(Main, "VMOperation_lock", "idle", "signal")

\* Mutant: the sleeping VM thread is not told that it should terminate.
DestroySignalSilently ==
    /\ At(Main, "signal")
    /\ should_terminate' = TRUE
    /\ Goto(Main, "unlock")
    /\ UNCHANGED <<monitor, next_operation, eval, is_terminate, vm_thread, vm_error,
                   history>>

DestroySignal ==
    /\ At(Main, "signal")
    /\ should_terminate' = TRUE
    /\ NotifyAllOn("VMOperation_lock")
    /\ Goto(Main, "unlock")
    /\ UNCHANGED <<next_operation, eval, is_terminate, vm_thread, vm_error, history>>

DestroyUnlock == Release(Main, "VMOperation_lock", "unlock", "term_lock")

DestroyTermLock == Acquire(Main, "terminate_lock", "term_lock", "term_check")

DestroyTermWait ==
    /\ ~is_terminate
    /\ WaitOn(Main, "terminate_lock", "term_check", "term_wait")

DestroyTermWake == Wake(Main, "terminate_lock", "term_wait", "term_check")

\* Mutant: destroy does not look at is_terminate again after its wait.
DestroyTermUnlockUnchecked == Release(Main, "terminate_lock", "term_check", "clear")

DestroyTermUnlock ==
    /\ is_terminate
    /\ Release(Main, "terminate_lock", "term_check", "clear")

DestroyClear ==
    /\ At(Main, "clear")
    /\ vm_thread' = FALSE
    /\ Goto(Main, "done")
    /\ UNCHANGED <<monitor, next_operation, eval, should_terminate, is_terminate,
                   vm_error, history>>

Destroy ==
    \/ DestroyLock \/ DestroySignal \/ DestroyUnlock
    \/ DestroyTermLock \/ DestroyTermWait \/ DestroyTermWake
    \/ DestroyTermUnlock \/ DestroyClear

-----------------------------------------------------------------------------
(* pthread_cond_wait may return although nobody signalled.                 *)
SpuriousWakeup(t, k) ==
    /\ vm_error = NoError
    /\ spurious < MaxSpurious
    /\ t \in monitor[k].waiters
    /\ spurious' = spurious + 1
    /\ monitor' = [monitor EXCEPT ![k] = SpuriousWake(@, t)]
    /\ UNCHANGED <<pc, next_operation, eval, term, vm_error, requests, evaluated,
                   started>>

Next ==
    \/ \E r \in Requesters : Requester(r)
    \/ VMStep
    \/ Destroy
    \/ \E t \in Threads, k \in MonitorNames : SpuriousWakeup(t, k)

Spec == Init /\ [][Next]_vars

(* The scheduler runs every thread that can run.  Whether a thread calls   *)
(* execute or destroy at all is its own choice: those steps are not fair.  *)
Fairness ==
    /\ \A r \in Requesters : WF_vars(Requester(r) /\ pc[r] # "idle")
    /\ WF_vars(VMStep)
    /\ WF_vars(Destroy /\ pc[Main] # "idle")

FairSpec == Spec /\ Fairness

-----------------------------------------------------------------------------
Labels ==
    { "idle", "lock", "install", "install_wait", "check", "check_wait", "return",
      "loop", "clear", "while", "waiting", "recheck", "enter", "doit", "finish",
      "exit", "term_lock", "term_notify", "term_unlock", "terminated",
      "signal", "unlock", "term_check", "term_wait", "done" }
Failures == { "VMThread.cpp:71", "VMThread.cpp:101", "null VMThread",
              "safepoint.cpp:24", "safepoint.cpp:63" }

(* The state has the types of the class's fields.                          *)
TypeOK ==
    /\ pc \in [Threads -> Labels]
    /\ monitor \in [MonitorNames -> MonitorType(Threads)]
    /\ next_operation \in Requesters \cup {NoOp}
    /\ frames \in Seq(Frame)
    /\ calling_thread \in [Ops -> Threads \cup {NoThread}]
    /\ at_safepoint \in BOOLEAN /\ should_terminate \in BOOLEAN
    /\ is_terminate \in BOOLEAN /\ vm_thread \in BOOLEAN /\ started \in BOOLEAN
    /\ vm_error \in Failures \cup {NoError}
    /\ requests \in [Requesters -> Nat] /\ evaluated \in [Requesters -> Nat]
    /\ spurious \in Nat

Evaluating == pc[VM] \in {"enter", "doit", "finish"}

(* When execute() is about to return, its operation has been evaluated, and*)
(* not twice (the comment on VMThread::execute: it waits for completion).  *)
ReturnMeansEvaluated ==
    \A r \in Requesters : pc[r] = "return" => evaluated[r] = 1

(* A VM_Operation is a StackObject of its caller: while the slot or an     *)
(* activation of inner_execute points to it, the caller is still inside    *)
(* wait_until_executed with the operation installed.                       *)
NoDanglingOperation ==
    \A r \in Requesters :
        \/ next_operation = r
        \/ \E i \in 1..Len(frames) : frames[i].op = r
        => pc[r] \in {"check", "check_wait"}

(* An operation that asked for a safepoint runs inside one from the first  *)
(* instruction of its doit() to the last, also after nested operations     *)
(* have come and gone.                                                     *)
SafepointHeld ==
    \A i \in 1..Len(frames) :
        /\ frames[i].op \in AtSafepoint
        /\ i < Len(frames) \/ pc[VM] \in {"doit", "finish"}
        => at_safepoint

(* Between operations the world runs: whatever was nested in what, the VM  *)
(* thread never goes to sleep, or to fetch an operation, with the safepoint*)
(* in force.  (After the loop the last safepoint stays, VMThread.cpp:14.)  *)
SafepointReleased ==
    pc[VM] \in {"loop", "lock", "clear", "while", "waiting", "recheck", "exit"}
        => ~at_safepoint

(* Every activation, nested ones included, works on behalf of the thread   *)
(* whose execute() is in progress.                                         *)
CallingThread ==
    \A i \in 1..Len(frames) :
        calling_thread[frames[i].op] = frames[1].op

(* The assertions of loop and of SafepointSynchronize hold: the VM thread  *)
(* finds an operation where it saw one, although it gave up the lock in    *)
(* between.  Only what a caller can do wrong stops the program.            *)
AssertionsHold ==
    vm_error \in {NoError, "VMThread.cpp:101", "null VMThread"}

(* An operation leaves the slot only once it has been evaluated, and never *)
(* to make room for another.                                               *)
PendingNotOverwritten ==
    [][next_operation' # next_operation /\ next_operation \in Requesters
         => next_operation' = NoOp /\ evaluated[next_operation] = 1]_vars

(* destroy() returns only when the VM thread has stopped for good: it is in*)
(* no operation, and at a safepoint.                                       *)
DestroyWaitsForExit ==
    ~vm_thread => pc[VM] \in {"term_unlock", "terminated"} /\ at_safepoint

(* A call of execute returns, unless the program was told to terminate or  *)
(* a guarantee stopped it.                                                 *)
CallReturns ==
    \A r \in Requesters :
        pc[r] # "idle" ~> (pc[r] = "idle" \/ should_terminate \/ vm_error # NoError)

(* The comment on VMThread::execute (it sends the operation and waits for  *)
(* its completion) for a call made in time: when the operation was in the  *)
(* slot before anyone asked the VM thread to terminate, the call returns.  *)
InstalledCallReturns ==
    \A r \in Requesters :
        next_operation = r /\ ~should_terminate
            ~> (pc[r] = "idle" \/ vm_error # NoError)

(* destroy() returns.                                                      *)
DestroyReturns == pc[Main] # "idle" ~> (pc[Main] = "done" \/ vm_error # NoError)

-----------------------------------------------------------------------------
(* The protocol implements the abstract service.                           *)
status == [r \in Requesters |->
    CASE pc[r] = "idle" -> "idle"
      [] pc[r] # "idle" /\ frames # <<>> /\ frames[1].op = r -> "running"
      [] OTHER -> IF evaluated[r] = 1 THEN "done" ELSE "requested"]

Service == INSTANCE VMOperationService WITH status <- status

(* Calls are served exactly once each, one at a time, in the sense of      *)
(* VMOperationService.                                                     *)
ImplementsService == Service!Spec
=============================================================================
