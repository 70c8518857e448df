--------------------------- MODULE PeriodicThread ---------------------------
(***************************************************************************)
(* The periodic thread and the table of its tasks                          *)
(* (src/kernel/thread/PeriodicThread.cpp, PeriodicTask.cpp).               *)
(*                                                                         *)
(* The thread sleeps on PeriodicTask_lock until the next task is due, then *)
(* walks the table with the lock held: it adds the time that has passed to *)
(* each task's counter and runs the tasks whose interval is full.  The main*)
(* thread creates the thread, starts the tasks and may stop it.  Each task *)
(* has an owner, a thread named like it, that activates it, inactivates it *)
(* and in the end destroys it.                                             *)
(*                                                                         *)
(* Time passes in milliseconds by the action Tick.  A task's interval is a *)
(* number of units of UNIT milliseconds; time_before_loop appears as the   *)
(* time elapsed since, which the code casts to 32 bits.                    *)
(***************************************************************************)
EXTENDS Monitor, Sequences, FiniteSets, FiniteSetsExt

CONSTANTS
    Tasks,           \* the PeriodicTask objects, and their owners
    Interval,        \* their _interval_count
    P, Main,         \* the periodic thread and the main thread
    NoTask,          \* the null PeriodicTask pointer
    NoError,         \* no assertion or guarantee has failed
    UNIT,            \* PeriodicTaskInternalUnit: milliseconds per unit
    Wrap,            \* milliseconds after which the cast to uint32_t wraps
    NoRunCheck,      \* milliseconds between two looks at _run_tasks
    MaxTaskNum,      \* PeriodicTaskMaxNum: places in the table
    MaxActivations,  \* bound: calls of activate
    MaxSpurious,     \* bound: wake-ups nobody asked for
    MaxLate          \* bound: milliseconds the thread lags between two sleeps

Threads == Tasks \cup {P, Main}

ASSUME PeriodicAssumption ==
    /\ P \notin Tasks /\ Main \notin Tasks /\ P # Main
    /\ NoThread \notin Threads /\ NoTask \notin Tasks
    /\ Interval \in [Tasks -> Nat \ {0}]
    /\ UNIT \in Nat \ {0} /\ Wrap \in Nat \ {0} /\ NoRunCheck \in Nat \ {0}
    /\ MaxTaskNum \in Nat /\ IsFiniteSet(Tasks)
    /\ MaxActivations \in Nat /\ MaxSpurious \in Nat /\ MaxLate \in Nat

VARIABLES
    pc,                \* the point each thread has reached
    monitor,           \* PeriodicTask_lock
    should_terminate,
    run_tasks,
    periodic_thread,   \* PeriodicThread::_periodic_thread # nullptr
    tasks,             \* the table, _tasks[0 .. _num_of_tasks - 1]
    current_count,     \* _current_count of each task, in units
    remains,           \* local of calculate_next_task_interval
    delay_interval,    \* local of run
    pass,              \* locals of check_and_execute: origin_num_tasks, i, task
    timer,             \* milliseconds until the timed wait is over
    timed_out,         \* the wait in progress is over for that reason
    elapsed,           \* os::current_stamp() - time_before_loop, in milliseconds
    vm_error,          \* the assertion or guarantee that stopped the program
    late,              \* history: milliseconds of lag since the last sleep
    due,               \* history: milliseconds until the task may run again
    walk,              \* history: the tasks the present pass found and has seen
    self_only,         \* history: running tasks have at most taken themselves out
    activations,       \* history: calls of activate
    spurious           \* history: spurious wake-ups so far

flags   == <<should_terminate, run_tasks, periodic_thread>>
table   == <<tasks, current_count>>
clock   == <<timer, timed_out, elapsed, late>>
history == <<due, walk, self_only, activations, spurious>>
vars    == <<pc, monitor, flags, table, remains, delay_interval, pass, clock,
             vm_error, history>>

-----------------------------------------------------------------------------
At(t, label)   == vm_error = NoError /\ pc[t] = label
Goto(t, label) == pc' = [pc EXCEPT ![t] = label]

InTable(k) == \E n \in 1..Len(tasks) : tasks[n] = k

(* The first place of a task, and the table after the loop that moves the  *)
(* tasks behind it one place forward.                                      *)
Place(k) == CHOOSE n \in 1..Len(tasks) :
                tasks[n] = k /\ \A m \in 1..Len(tasks) : tasks[m] = k => n <= m

TakenOut(k) ==
    [n \in 1..(Len(tasks) - 1) |-> IF n < Place(k) THEN tasks[n] ELSE tasks[n + 1]]

NextInterval(k) == Interval[k] - current_count[k]

(* 0 says that there is no task and the thread sleeps for ever.            *)
min_task_interval ==
    IF tasks = <<>> THEN 0
    ELSE Min({ NextInterval(tasks[n]) : n \in 1..Len(tasks) })

Pass(origin, i, task) == [origin |-> origin, i |-> i, task |-> task]
NoPass    == Pass(0, 0, NoTask)
EmptyWalk == [found |-> {}, seen |-> {}, again |-> FALSE]

Init ==
    /\ pc = [t \in Threads |-> CASE t = P -> "new" [] t = Main -> "create"
                                 [] OTHER -> "inactive"]
    /\ monitor = FreeMonitor
    /\ should_terminate = FALSE /\ run_tasks = FALSE /\ periodic_thread = FALSE
    /\ tasks = <<>> /\ current_count = [k \in Tasks |-> 0]
    /\ remains = 0 /\ delay_interval = 0 /\ pass = NoPass
    /\ timer = 0 /\ timed_out = FALSE /\ elapsed = 0 /\ late = 0
    /\ vm_error = NoError
    /\ due = [k \in Tasks |-> 0] /\ walk = EmptyWalk /\ self_only = TRUE
    /\ activations = 0 /\ spurious = 0

-----------------------------------------------------------------------------
(* create, start and stop, called by the main thread in this order.        *)
CreateLock ==
    /\ At(Main, "create") /\ CanLock(monitor, Main)
    /\ monitor' = Lock(monitor, Main)
    /\ should_terminate' = FALSE
    /\ vm_error' = IF periodic_thread THEN "PeriodicThread.cpp:19" ELSE NoError
    /\ Goto(Main, "create_thread")
    /\ UNCHANGED <<run_tasks, periodic_thread, table, remains, delay_interval, pass,
                   clock, history>>

(* From here on the thread runs, although create() has not stored it:      *)
(* os::create_thread starts it and no handshake holds it back.             *)
CreateThread ==
    /\ At(Main, "create_thread")
    /\ pc' = [pc EXCEPT ![Main] = "create_store", ![P] = "run"]
    /\ UNCHANGED <<monitor, flags, table, remains, delay_interval, pass, clock,
                   vm_error, history>>

CreateFails ==
    /\ At(Main, "create_thread")
    /\ monitor' = Unlock(monitor, Main)
    /\ Goto(Main, "created")
    /\ UNCHANGED <<flags, table, remains, delay_interval, pass, clock, vm_error,
                   history>>

CreateStore ==
    /\ At(Main, "create_store")
    /\ periodic_thread' = TRUE
    /\ monitor' = Unlock(monitor, Main)
    /\ Goto(Main, "created")
    /\ UNCHANGED <<should_terminate, run_tasks, table, remains, delay_interval, pass,
                   clock, vm_error, history>>

(* A critical section in one step: who locks and unlocks leaves the monitor*)
(* as it was, but for the waiter it notifies.                              *)
Start ==
    /\ At(Main, "created") /\ CanLock(monitor, Main)
    /\ run_tasks' = TRUE
    /\ monitor' \in Notify(monitor)
    /\ Goto(Main, "started")
    /\ UNCHANGED <<should_terminate, periodic_thread, table, remains, delay_interval,
                   pass, clock, vm_error, history>>

StopStore ==
    /\ pc[Main] \in {"created", "started"} /\ vm_error = NoError
    /\ CanLock(monitor, Main)
    /\ monitor' = Lock(monitor, Main)
    /\ should_terminate' = TRUE
    /\ Goto(Main, "stop_notify")
    /\ UNCHANGED <<run_tasks, periodic_thread, table, remains, delay_interval, pass,
                   clock, vm_error, history>>

StopNotify ==
    /\ At(Main, "stop_notify")
    /\ IF periodic_thread THEN \E m \in Notify(monitor) : monitor' = Unlock(m, Main)
                          ELSE monitor' = Unlock(monitor, Main)
    /\ Goto(Main, "stopped")
    /\ UNCHANGED <<flags, table, remains, delay_interval, pass, clock, vm_error,
                   history>>

MainStep == CreateLock \/ CreateThread \/ CreateFails \/ CreateStore
            \/ Start \/ StopStore \/ StopNotify

-----------------------------------------------------------------------------
(* The owners.  An owner activates a task that it knows to be out of the   *)
(* table, and destroys it only after inactivate() has come back.           *)

(* activate() but for the lock and the notification.                       *)
Enter(k) ==
    /\ activations < MaxActivations
    /\ activations' = activations + 1
    /\ IF Len(tasks) < MaxTaskNum
         THEN tasks' = Append(tasks, k) /\ UNCHANGED vm_error
         ELSE vm_error' = "Overflow in PeriodicTask table" /\ UNCHANGED tasks
    /\ due' = [due EXCEPT ![k] = 0]
    /\ UNCHANGED current_count

\* Mutant: the sleeping thread is not told of the new task.
ActivateSilently(k) ==
    /\ At(k, "inactive") /\ CanLock(monitor, k)
    /\ Enter(k)
    /\ Goto(k, "active")
    /\ UNCHANGED <<monitor, flags, remains, delay_interval, pass, clock, walk,
                   self_only, spurious>>

Activate(k) ==
    /\ At(k, "inactive") /\ CanLock(monitor, k)
    /\ Enter(k)
    /\ monitor' \in Notify(monitor)
    /\ Goto(k, "active")
    /\ UNCHANGED <<flags, remains, delay_interval, pass, clock, walk, self_only,
                   spurious>>

\* Mutant: the last place of the table is taken for "not found".
RemoveButLast(k) ==
    tasks' = IF InTable(k) /\ Place(k) < Len(tasks) THEN TakenOut(k) ELSE tasks

Remove(k) == tasks' = IF InTable(k) THEN TakenOut(k) ELSE tasks

(* inactivate(), called by a thread that does not hold the lock.           *)
InactivateCall(k) == CanLock(monitor, k) /\ Remove(k)

Inactivate(k) ==
    /\ At(k, "active") /\ InactivateCall(k)
    /\ Goto(k, "inactive")
    /\ UNCHANGED <<monitor, flags, current_count, remains, delay_interval, pass, clock,
                   vm_error, history>>

(* ~PeriodicTask calls inactivate() again, which finds nothing.            *)
Destroy(k) ==
    /\ At(k, "inactive") /\ InactivateCall(k)
    /\ Goto(k, "destroyed")
    /\ UNCHANGED <<monitor, flags, current_count, remains, delay_interval, pass, clock,
                   vm_error, history>>

Owner(k) == Activate(k) \/ Inactivate(k) \/ Destroy(k)

-----------------------------------------------------------------------------
(* PeriodicThread::run and calculate_next_task_interval.                   *)
RunAssert ==
    /\ At(P, "run")
    /\ vm_error' = IF periodic_thread THEN NoError ELSE "PeriodicThread.cpp:36"
    /\ Goto(P, "calc")
    /\ UNCHANGED <<monitor, flags, table, remains, delay_interval, pass, clock,
                   history>>

CalcTerminated ==
    /\ At(P, "calc") /\ should_terminate
    /\ delay_interval' = 0
    /\ Goto(P, "test")
    /\ UNCHANGED <<monitor, flags, table, remains, pass, clock, vm_error, history>>

CalcGoesOn ==
    /\ At(P, "calc") /\ ~should_terminate
    /\ Goto(P, "calc_lock")
    /\ UNCHANGED <<monitor, flags, table, remains, delay_interval, pass, clock,
                   vm_error, history>>

(* Going to sleep for `millis`, 0 for ever; the lock is given up.          *)
Sleep(m, millis) ==
    /\ monitor' = Wait(m, P)
    /\ timer' = millis /\ timed_out' = FALSE /\ late' = 0
    /\ UNCHANGED <<flags, table, pass, vm_error, history>>

(* The end of calculate_next_task_interval, whose locals cease to exist.   *)
Awake ==
    /\ monitor' = Unlock(ReturnFromWait(monitor, P), P)
    /\ remains' = 0 /\ elapsed' = 0 /\ timer' = 0 /\ timed_out' = FALSE
    /\ UNCHANGED <<flags, table, pass, late, vm_error, history>>

CalcIdle ==
    /\ At(P, "calc_lock") /\ CanLock(monitor, P) /\ ~run_tasks
    /\ Sleep(Lock(monitor, P), NoRunCheck)
    /\ Goto(P, "idle_wait")
    /\ UNCHANGED <<remains, delay_interval, elapsed>>

IdleWakes ==
    /\ At(P, "idle_wait") /\ CanReturnFromWait(monitor, P)
    /\ delay_interval' = 0
    /\ Awake
    /\ Goto(P, "test")

CalcSleep ==
    /\ At(P, "calc_lock") /\ CanLock(monitor, P) /\ run_tasks
    /\ remains' = min_task_interval
    /\ elapsed' = 0
    /\ Sleep(Lock(monitor, P), min_task_interval)
    /\ Goto(P, "loop_wait")
    /\ UNCHANGED delay_interval

\* Mutant: the part of a unit that has passed counts as a whole one.
time_next_interval_rounded_up ==
    IF remains = 0 THEN 0 ELSE (elapsed + UNIT - 1) \div UNIT

time_next_interval == IF remains = 0 THEN 0 ELSE elapsed \div UNIT

(* `timeout` in the code is the result of wait: TRUE when the wait was NOT *)
(* cut short by its time.                                                  *)
LeavesLoop ==
    \/ ~timed_out
    \/ should_terminate
    \/ min_task_interval # 0 /\ min_task_interval <= time_next_interval

LoopLeaves ==
    /\ At(P, "loop_wait") /\ CanReturnFromWait(monitor, P) /\ LeavesLoop
    /\ delay_interval' = time_next_interval
    /\ Awake
    /\ Goto(P, "test")

LoopWaits ==
    /\ At(P, "loop_wait") /\ CanReturnFromWait(monitor, P) /\ ~LeavesLoop
    /\ remains' = IF min_task_interval = 0 THEN 0
                  ELSE min_task_interval - time_next_interval
    /\ Sleep(ReturnFromWait(monitor, P), remains')
    /\ UNCHANGED <<pc, delay_interval, elapsed>>

(* run() again: terminate, or run the tasks if they have been started.     *)
\* Mutant: the loop of run() has no break.
TestIgnored ==
    /\ At(P, "test")
    /\ Goto(P, "check_run")
    /\ UNCHANGED <<monitor, flags, table, remains, delay_interval, pass, clock,
                   vm_error, history>>

Test ==
    /\ At(P, "test")
    /\ Goto(P, IF should_terminate THEN "end" ELSE "check_run")
    /\ UNCHANGED <<monitor, flags, table, remains, delay_interval, pass, clock,
                   vm_error, history>>

CheckRun ==
    /\ At(P, "check_run")
    /\ IF run_tasks
         THEN Goto(P, "exec_lock") /\ UNCHANGED delay_interval
         ELSE Goto(P, "run") /\ delay_interval' = 0
    /\ UNCHANGED <<monitor, flags, table, remains, pass, clock, vm_error, history>>

(* The thread clears the pointer to itself and deletes itself.             *)
RunEnds ==
    /\ At(P, "end")
    /\ periodic_thread' = FALSE
    /\ Goto(P, "ended")
    /\ UNCHANGED <<monitor, should_terminate, run_tasks, table, remains,
                   delay_interval, pass, clock, vm_error, history>>

-----------------------------------------------------------------------------
(* check_and_execute, with the lock held from the first step to the last.  *)
ExecLock ==
    /\ At(P, "exec_lock") /\ CanLock(monitor, P)
    /\ monitor' = Lock(monitor, P)
    /\ pass' = Pass(Len(tasks), 0, NoTask)
    /\ walk' = [EmptyWalk EXCEPT !.found = Range(tasks)]
    /\ Goto(P, "exec")
    /\ UNCHANGED <<flags, table, remains, delay_interval, clock, vm_error, due,
                   self_only, activations, spurious>>

Counted(k) == current_count[k] + delay_interval

(* The end of the body of the loop: `i--` and the `++i` of the loop cancel *)
(* each other out, at i = 0 as well, where i-- wraps.                      *)
Advanced(p) ==
    IF Len(tasks) < p.origin THEN Pass(Len(tasks), p.i, NoTask)
                             ELSE Pass(p.origin, p.i + 1, NoTask)

Visit(k) ==
    /\ At(P, "exec") /\ pass.i < pass.origin /\ k = tasks[pass.i + 1]
    /\ walk' = [walk EXCEPT !.seen = @ \cup {k}, !.again = @ \/ k \in walk.seen]

CountTask(k) ==
    /\ Visit(k)
    /\ Counted(k) < Interval[k]
    /\ current_count' = [current_count EXCEPT ![k] = Counted(k)]
    /\ pass' = Advanced(pass)
    /\ UNCHANGED <<pc, monitor, flags, tasks, remains, delay_interval, clock, vm_error,
                   due, self_only, activations, spurious>>

RunTask(k) ==
    /\ Visit(k)
    /\ Counted(k) >= Interval[k]
    /\ current_count' = [current_count EXCEPT ![k] = 0]
    /\ due' = [due EXCEPT ![k] = Interval[k] * UNIT]
    /\ pass' = [pass EXCEPT !.task = k]
    /\ Goto(P, "task")
    /\ UNCHANGED <<monitor, flags, tasks, remains, delay_interval, clock, vm_error,
                   self_only, activations, spurious>>

(* task() may take any task out of the table and put itself back; the lock *)
(* is its thread's own, so that inactivate and activate take none.         *)
TaskInactivates(k) ==
    /\ At(P, "task") /\ InTable(k)
    /\ Remove(k)
    /\ self_only' = (self_only /\ k = pass.task)
    /\ UNCHANGED <<pc, monitor, flags, current_count, remains, delay_interval, pass,
                   clock, vm_error, due, walk, activations, spurious>>

TaskReactivates ==
    /\ At(P, "task") /\ ~InTable(pass.task)
    /\ Enter(pass.task)
    /\ monitor' \in Notify(monitor)
    /\ self_only' = FALSE
    /\ UNCHANGED <<pc, flags, remains, delay_interval, pass, clock, walk, spurious>>

\* Mutant: the index is not taken back when the table has become shorter.
TaskReturnsSkipping ==
    /\ At(P, "task")
    /\ pass' = Pass(IF Len(tasks) < pass.origin THEN Len(tasks) ELSE pass.origin,
                    pass.i + 1, NoTask)
    /\ Goto(P, "exec")
    /\ UNCHANGED <<monitor, flags, table, remains, delay_interval, clock, vm_error,
                   history>>

\* Mutant: origin_num_tasks stays what it was at the start.
TaskReturnsOldCount ==
    /\ At(P, "task")
    /\ pass' = Pass(pass.origin,
                    IF Len(tasks) < pass.origin THEN pass.i ELSE pass.i + 1, NoTask)
    /\ Goto(P, "exec")
    /\ UNCHANGED <<monitor, flags, table, remains, delay_interval, clock, vm_error,
                   history>>

TaskReturns ==
    /\ At(P, "task")
    /\ pass' = Advanced(pass)
    /\ Goto(P, "exec")
    /\ UNCHANGED <<monitor, flags, table, remains, delay_interval, clock, vm_error,
                   history>>

PassOver == pc[P] = "exec" /\ pass.i >= pass.origin

PassEnds ==
    /\ At(P, "exec") /\ PassOver
    /\ monitor' = Unlock(monitor, P)
    /\ delay_interval' = 0 /\ pass' = NoPass /\ walk' = EmptyWalk
    /\ Goto(P, "run")
    /\ UNCHANGED <<flags, table, remains, clock, vm_error, due, self_only,
                   activations, spurious>>

Execution ==
    \/ ExecLock \/ TaskReactivates \/ TaskReturns \/ PassEnds
    \/ \E k \in Tasks : CountTask(k) \/ RunTask(k) \/ TaskInactivates(k)

-----------------------------------------------------------------------------
(* Time and the wait that time ends.  A wait with remains = 0 is not timed.*)
Asleep == P \in monitor.waiters
Timed  == pc[P] = "idle_wait" \/ remains # 0

TimesOut ==
    /\ vm_error = NoError /\ Asleep /\ Timed /\ timer = 0
    /\ timed_out' = TRUE
    /\ monitor' = SpuriousWake(monitor, P)
    /\ UNCHANGED <<pc, flags, table, remains, delay_interval, pass, timer, elapsed,
                   late, vm_error, history>>

(* MaxLate keeps the scheduler from holding up a thread that can run.      *)
Tick ==
    /\ vm_error = NoError /\ pc[P] \notin {"new", "ended"}
    /\ IF Asleep /\ (Timed => timer > 0)
         THEN late' = 0
         ELSE late < MaxLate /\ late' = late + 1
    /\ timer' = IF timer > 0 THEN timer - 1 ELSE 0
    /\ elapsed' = IF pc[P] = "loop_wait" /\ remains # 0 THEN (elapsed + 1) % Wrap
                  ELSE elapsed
    /\ due' = [k \in Tasks |-> IF due[k] > 0 THEN due[k] - 1 ELSE 0]
    /\ UNCHANGED <<pc, monitor, flags, table, remains, delay_interval, pass, timed_out,
                   vm_error, walk, self_only, activations, spurious>>

SpuriousWakeup ==
    /\ vm_error = NoError /\ Asleep
    /\ spurious < MaxSpurious
    /\ spurious' = spurious + 1
    /\ monitor' = SpuriousWake(monitor, P)
    /\ UNCHANGED <<pc, flags, table, remains, delay_interval, pass, clock, vm_error,
                   due, walk, self_only, activations>>

PeriodicStep ==
    \/ RunAssert \/ CalcTerminated \/ CalcGoesOn \/ CalcIdle \/ IdleWakes
    \/ CalcSleep \/ LoopLeaves \/ LoopWaits \/ Test \/ CheckRun \/ RunEnds
    \/ Execution \/ TimesOut

Next ==
    \/ MainStep \/ PeriodicStep
    \/ \E k \in Tasks : Owner(k)
    \/ Tick \/ SpuriousWakeup

Spec == Init /\ [][Next]_vars

(* The scheduler runs the periodic thread and a main thread inside a call, *)
(* and time passes.  Nobody has to stop, activate or inactivate anything.  *)
Fairness ==
    /\ WF_vars(PeriodicStep) /\ WF_vars(Tick)
    /\ WF_vars(MainStep /\ pc[Main] \in {"create_thread", "create_store", "stop_notify"})

FairSpec == Spec /\ Fairness

-----------------------------------------------------------------------------
PeriodicLabels ==
    { "new", "run", "calc", "calc_lock", "idle_wait", "loop_wait", "test",
      "check_run", "exec_lock", "exec", "task", "end", "ended" }
MainLabels ==
    { "create", "create_thread", "create_store", "created", "started",
      "stop_notify", "stopped" }
OwnerLabels == { "inactive", "active", "destroyed" }
Failures == { "PeriodicThread.cpp:19", "PeriodicThread.cpp:36",
              "Overflow in PeriodicTask table" }

ASSUME NoErrorAssumption == NoError \notin Failures

(* The state has the types of the classes' fields.                         *)
TypeOK ==
    /\ pc \in [Threads -> PeriodicLabels \cup MainLabels \cup OwnerLabels]
    /\ monitor \in MonitorType(Threads)
    /\ should_terminate \in BOOLEAN /\ run_tasks \in BOOLEAN
    /\ periodic_thread \in BOOLEAN /\ timed_out \in BOOLEAN /\ self_only \in BOOLEAN
    /\ tasks \in Seq(Tasks)
    /\ current_count \in [Tasks -> Nat] /\ due \in [Tasks -> Nat]
    /\ remains \in Nat /\ delay_interval \in Nat /\ timer \in Nat
    /\ elapsed \in 0..(Wrap - 1) /\ late \in Nat
    /\ pass \in [origin : Nat, i : Nat, task : Tasks \cup {NoTask}]
    /\ walk \in [found : SUBSET Tasks, seen : SUBSET Tasks, again : BOOLEAN]
    /\ vm_error \in Failures \cup {NoError}
    /\ activations \in Nat /\ spurious \in Nat

(* The counter of a task stays below its interval (PeriodicTask.hpp: its   *)
(* values are 0.._interval), whatever is activated, run and taken out in   *)
(* whatever order: so the thread never sleeps on an interval of 0, which   *)
(* Monitor::wait takes for "for ever".                                     *)
CountInRange == \A k \in Tasks : current_count[k] < Interval[k]

(* The table holds a task once, and the loop that walks it stays inside it *)
(* although tasks take themselves and others out under it.                 *)
TableSound ==
    /\ \A m, n \in 1..Len(tasks) : tasks[m] = tasks[n] => m = n
    /\ pc[P] = "exec" => pass.origin <= Len(tasks)

(* A destroyed task is neither in the table nor running: inactivate() comes*)
(* back only when the thread is not inside the task, and nobody puts it in *)
(* again.                                                                  *)
NoDanglingTask ==
    \A k \in Tasks : pc[k] = "destroyed" => ~InTable(k) /\ pass.task # k

(* The thread sleeps without a time limit only while there is no task: who *)
(* activates one wakes it.                                                 *)
SleepsForEverOnlyIdle == pc[P] = "loop_wait" /\ Asleep /\ remains = 0 => tasks = <<>>

(* The assertion of run, that the thread is the one create() has stored,   *)
(* holds each time round (PeriodicThread.cpp:36).                          *)
RunFindsItself == vm_error # "PeriodicThread.cpp:36"

Active == { k \in Tasks : pc[k] = "active" }

(* The assertion of run fails at most while create() has not yet stored the*)
(* thread it has started, never later; and the table overflows only when   *)
(* its owners keep more tasks active than it has places: no order of       *)
(* activate, inactivate, destruction and tasks that take themselves or each*)
(* other out leaves a place taken (PeriodicTask.cpp:47).                   *)
FailsOnlyAtLimits ==
    /\ vm_error = "PeriodicThread.cpp:36" => pc[Main] = "create_store"
    /\ vm_error = "Overflow in PeriodicTask table" => Cardinality(Active) > MaxTaskNum

(* While tasks take out nobody but themselves, a pass counts the time once *)
(* for every task it found and that is still there: the step back of the   *)
(* index neither skips a task nor visits one again (PeriodicThread.cpp:168)*)
OncePerPass ==
    self_only =>
        /\ ~walk.again
        /\ PassOver => walk.found \cap Range(tasks) \subseteq walk.seen

(* Between two executions of an active task at least its interval passes,  *)
(* on the clock and not in the thread's own count of it.                   *)
RunsNotEarly ==
    [][ pc[P] = "exec" /\ pc'[P] = "task" /\ self_only
            => due[tasks[pass.i + 1]] = 0 ]_vars

(* A task in the table runs once the tasks have been started, if there is  *)
(* a thread and nobody stops it or takes the task out.                     *)
EveryTaskRuns ==
    \A k \in Tasks :
        InTable(k) /\ run_tasks ~> \/ pc[P] = "task" /\ pass.task = k
                                  \/ ~InTable(k)
                                  \/ should_terminate \/ vm_error # NoError
                                  \/ pc[P] = "new"

(* After stop() the thread ends (the comment in stop(): wake the thread so *)
(* that it ends).                                                          *)
StopEndsThread ==
    should_terminate /\ pc[P] # "new" ~> pc[P] = "ended" \/ vm_error # NoError

(* The same for a thread that is not asleep on an empty table.             *)
StopEndsBusyThread ==
    should_terminate /\ pc[P] # "new"
        ~> pc[P] = "ended" \/ vm_error # NoError \/ (Asleep /\ ~Timed)
=============================================================================
