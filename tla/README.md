# GenesisVM in TLA+

GenesisVM is the runtime of a virtual machine in C++: threads with VM states,
a VM thread that executes operations at safepoints, a periodic thread, a
metaspace allocator, arenas, containers, logging and the platform layer under
them. These modules describe it as the source has it (paths below are relative
to the repository), model-check it with TLC on small instances, and prove the
core facts with TLAPS for every value of the constants.

## 1. The system and its components

| Component | State it keeps | Operations | Interacts with | Hard behaviour | Correct when |
|---|---|---|---|---|---|
| **VM thread, VM operations** `kernel/thread/VMThread.cpp`, `VM_Operation.cpp` | one-slot mailbox `_next_operation`, current operation, `_should_terminate`, `_is_terminate`, `_vm_thread` | `execute`, `wait_until_executed`, `wait_for_operation`, `inner_execute`, `loop`, `run`, `destroy` | monitors, safepoints | callers and VM thread share one condition variable; the slot is read without the lock; nesting; start-up and shut-down | a call of `execute` that returns has been evaluated, exactly once, and no pointer to it is left; safepoints are begun and ended in pairs |
| **Mutex, Monitor** `plat/thread/Mutex.cpp`, `Moniter.cpp` | pthread mutex (recursive), `_owner` | `lock`, `unlock`, `wait`, `notify`, `notify_all` | every component | the owner word beside the pthread state; a recursive `unlock` clears it | mutual exclusion; waiting gives the mutex up |
| **Safepoints** `kernel/thread/safepoint.cpp`, `StillRunningThreadClosure.cpp` | `_state`, `_safepoint_counter`, `LangThreadList_lock` | `begin`, `synchronize_threads`, `end` | thread list, barrier | the closure reads one thread at a time while the threads go on | while `synchronized`, threads are stopped; what began also ends |
| **Language threads** `kernel/thread/LangThread.cpp`, `PlatThread.cpp`, `plat/thread/OSThread.cpp` | thread status (10 values, some of them transitions), user thread list | `create_thread`, `native_call`, `tans_state`, `state_transitioning_callback`, `pre_run`, `post_run` | safepoints, mutexes | a transition is announced and completed in two steps around a callback | a thread that meets a safepoint sleeps to its end |
| **Wait barrier** `plat/thread/WaitBarrier.cpp`, `plat/os/cpu.cpp` | the tag in the futex word | `arm`, `disarm`, `wait` | futex | the check of the tag races with `disarm`; interrupted waits | nobody sleeps on a barrier that has been disarmed |
| **Periodic thread, tasks** `kernel/thread/PeriodicThread.cpp`, `PeriodicTask.cpp` | table of at most ten tasks with counters, run and terminate flags | `create`, `start`, `stop`, `activate`, `inactivate`, `run` | monitors, clock | timed waits, tasks that change the table the loop walks | active tasks run once per interval, stopped ones do not |
| **Metaspace: volumes, limits** `kernel/metaspace/Volume*.cpp`, `CommittedMask.*`, `CommittedLimiter.*`, `plat/os/mem.cpp` | reserved ranges, commit bits, committed counters | `allocate_root_segment`, `commit_range`, `uncommit_range` | segments, GC thresholds, memory tracing | counters kept in four places; every call may fail half way | the counters agree with the mask and stay under the limit |
| **Metaspace: GC thresholds** `MetaspaceGC.cpp` | `_gc_threshold`, `_shrink_factor` | `compute_new_gc_threshold`, `allowed_expansion`, `threshold_with_gc` | collector, allocating threads | compare-and-swap beside plain stores; rounding | the threshold stays between used and maximum; no shrink that the next collection undoes |
| **Metaspace: segments** `Region.cpp`, `Segment.*`, `SegmentManager.*`, `SegmentHeaderPool.*`, `ContextHolder.cpp` | buddy segments with levels, free lists, dead headers | `get_segment`, `split`, `merge`, `attempt_enlarge_segment`, `return_segment`, `purge` | volumes, arenas | any order of splits and merges | segments tile their regions; an arena keeps its memory |
| **Metaspace: arenas** `Arena.cpp`, `BlockManager.*`, `BlockTree.*`, `BlockArray.hpp` | segments of an arena, reusable blocks | `allocate`, `deallocate`, `salvage_segment` | segments | fallbacks when a segment is full or the limit is reached | no two live blocks overlap, none is lost |
| **Platform arena** `plat/mem/Arena.cpp`, `ArenaChunk*.cpp` | chunk list, bump pointers, marks, chunk pools | `alloc`, `free`, `save`/`rollback_to`, `clean` | threads, periodic thread (cleaning) | chunk geometry, list surgery | blocks lie apart inside live chunks |
| **C heap, memory tracing** `plat/mem/allocation.cpp`, `plat/trace` | counters per tag, numbered log | `CHEAP_ALLOC`, `CHEAP_FREE`, `record` | everything that allocates | records of two threads; addresses that come back | the log of an address alternates, the counters are the blocks |
| **Containers** `BitMap`, `LinkedList`, `GrowableArray` in `kernel/utils` | their elements | ranges, insertion, removal, resizing | metaspace | word boundaries, list ends | each equals its definition |
| **Logging and streams** `plat/logger/LogStream.cpp`, `LogSingleFileOutput.cpp`, `plat/stream` | line buffer, lock of the stream | `print`, `append`, `~LogStream`, `write` | every component, error reporting | threads share one stream; buffer limits | a line is whole |
| **Error reporting** `plat/utils/VMError.cpp`, `robust.*` | first error, step of the report | `report_and_die`, `report` | every assertion, the stream | errors at the same time, errors inside the report | one error is reported and the process ends |
| **Semaphore, SpinYield, GlobalLocker** | counter | `wait`, `signal` | - | - | - |
| **Log configuration and layout, internal statistics, Space, SingleLinkedList, os wrappers, initialisation** | tags, counters, sets | output, wrappers | - | formatting | not behaviour other parts read |

`PROJECT.json` says of every component whether it is modelled, and lists the
hazards of the code, each at its line, with the properties that watch it.

## 2. Modules

| Module | Stands for |
|---|---|
| `Monitor` | `Mutex` and `Monitor` as operators on a record; it has no variables |
| `VMOperationService` | the abstract promise of `VMThread::execute`: requested, running (one at a time), done, returned |
| `VMThread` | the protocol between callers, VM thread and `destroy` |
| `Safepoint` | begin/synchronize/end, the language threads, the thread list and the wait barrier |
| `PeriodicThread` | the periodic thread, the table of tasks, their owners, and time |
| `Volume` | volumes, commit bits, limiter, statistics, the GC threshold, and the kernel's and the tracer's view of the reserved memory |
| `Segments` | regions, buddy segments, free lists, header pool, and the calls of the context holder |
| `BlockManager` | the reusable blocks of an arena as operators: stacks per size and the binary tree |
| `MetaspaceArena` | a metaspace arena over `BlockManager`, with the context holder as its environment |
| `ResourceArena` | the platform arenas of all threads, their marks, and the chunk pools |
| `NativeMemory` | the C heap with the tracing of its blocks |
| `NodeList`, `LinkList` | what a linked list promises, and the pointers that keep it |
| `BitMap`, `GrowableArray` | the words of a bit map; an array that grows |
| `FileCharOStream`, `LogStream`, `VMError` | the stream with its lock, log lines on it, error reports on it |
| `Diagnostics` | `LogStream` and `VMError` together on one stream |
| `MCVMThread`, `MCSafepoint`, `MCPeriodicThread`, `MCVolume`, `MCMetaspace`, `MCMemory`, `MCDiagnostics` | instances for TLC |
| `MonitorProofs` | lemmas on monitors |
| `VMThreadProofs` | types and control of the VM thread; its safety properties, and that it implements the service |
| `SafepointProofs` | the theorems about safepoints and the wait barrier |
| `PeriodicThreadProofs` | the theorems about the periodic thread |
| `VolumeProofs` | the theorems about limits, counters, the threshold and reservations |
| `MetaspaceProofs` | the theorems about the buddy allocator of the metaspace and about its arenas |
| `MemoryProofs` | the theorems about the platform arenas, the C heap, and the containers |
| `DiagnosticsProofs` | the theorems about log lines and error reports |

`VMThread`, `Safepoint` and `PeriodicThread` each own the monitors they use;
`VMThread` instantiates `VMOperationService`, and `LinkList` `NodeList`, to
state the refinements. `MCMemory` puts platform arenas, C heap and containers,
which share nothing, side by side, and `MCMetaspace` the buddy segments and an
arena, whose interface is the environment either has. `MetaspaceArena` extends
`BlockManager`, `Diagnostics` extends `LogStream` and `VMError`. The metaspace
is cut where its locks are: `Volume` answers a commit with success or failure,
`Segments` takes either answer, and `MetaspaceArena` takes any segment and any
failure `Segments` may give it. A state of `Segments` needs no more of the
volumes than which granules are committed, and an arena no more of a segment
than its size and what is committed of it, so each is checked against more
answers than the layer below would give.

### Monitor

A monitor is a record: `holder` and `depth` are the pthread mutex (recursive,
the constructor's default), `owner` is the word `Mutex::_owner`, `waiters` the
threads in `pthread_cond_wait`. `Lock` blocks (`CanLock`) while another thread
holds the mutex. `Unlock` clears `owner` at every depth, as the code does.
`Wait` gives up one level; the thread goes on when it is no longer a waiter
and gets the mutex again. `Notify` is any one waiter, `NotifyAll` all of them,
`SpuriousWake` a return nobody asked for.

### VMThread

Each thread has a label in `pc`; a step goes from one label to the next and
does what the code does between two points at which another thread may act:
acquiring a monitor, the statements up to the next release or wait, a read
outside the lock. So `wait_until_executed` is `LockOperation`, `Install` or
`InstallWait`/`InstallWake`, `CheckWait`/`CheckWake` and `CheckDone`;
`wait_for_operation` is `WaitLock`, `ClearNext`, `WhileWait`/`WhileWake`,
`WhileDone`; the code after it, which reads `should_terminate` and the slot
again without the lock, is `RecheckExit` and `TakeOperation`.

`frames` is the stack of activations of `inner_execute`. Each has its
operation, whether it began the safepoint (the local `end_safepoint`) and how
many operations it has evaluated inside it. `_cur_operation` is the operation
of the last frame: each activation saves and restores it. A caller's operation
is a `StackObject` of the caller, so it is named like the caller.

A failed assertion or guarantee stops the program; the model says which one in
`vm_error` and takes no step afterwards. Dereferencing `vm_thread()` after
`destroy` is one of them.

`at_safepoint` stands for `SafepointSynchronize`; module `Safepoint` opens it
up. `create()` is the initial state. `WaitForStartup` says whether callers
wait until the VM thread has emptied the slot for the first time: nothing in
`VMThread` makes them, `test_thread.cpp` does it with a `sleep(1)`.

### VMOperationService

Per caller: `idle`, `requested`, `running`, `done`. One operation runs at a
time, each request is served once. `VMThread!status` is the refinement mapping
and `ImplementsService` the statement that the protocol implements it.

### Safepoint

The VM thread runs `begin` (lock the list, number the safepoint, arm the
barrier, count, set `synchronizing`, scan, set `synchronized`) and `end`. The
scan reads one thread per step, and its second and later passes go from the
last running thread along `_next`, as `synchronize_threads` does. A language
thread is created, announces and completes its transitions (`Announce`,
`Arrive` with the callback between), adds itself to the list, may lock a mutex
of its own, takes itself out and ends. `Removed` is the unlinking as the code
has it: of a thread that is not at the head nothing is unlinked.

The barrier is the futex word and the set of sleepers. `futex` compares and
sleeps in one step, as the kernel promises; it may come back early
(`Interrupt`), and the loop of `os::suspend` looks again (`WaitsAgain`).

`DEBUG_MODE` says whether the assertions are compiled in. `macro.hpp` as
committed defines `DEBUG_MODE`, so every build of this tree has them; FALSE is
the build the `#else` branch of that file describes. The distinction is needed
because an assertion stops the first thread that meets a safepoint (§4): with
them nothing beyond that point could be examined.

### PeriodicThread

The thread `P` runs `RunAssert`, `CalcTerminated`/`CalcGoesOn` (the look at
`_should_terminate` before the lock), then either the short wait of a thread
whose tasks have not been started (`CalcIdle`, `IdleWakes`) or the loop of
`calculate_next_task_interval` (`CalcSleep`, `LoopWaits`, `LoopLeaves`), then
`Test`, `CheckRun` and `check_and_execute`. That function holds the lock from
`ExecLock` to `PassEnds`; each task it visits is one step (`CountTask`,
`RunTask`), because a running task may change the table: `TaskInactivates` and
`TaskReactivates` are what `task()` can do to it, any number of times, before
`TaskReturns`. Locals get a fixed value when they go out of scope.

The main thread does `create` (lock, start the thread, store it: three steps,
between which the new thread may already run), `start` and `stop`.
`stop` has no caller in the repository; its comment says what it is for. Each
task has an owner that activates it when it is out of the table, inactivates
it, and destroys it after that: what a `PeriodicTask` needs from the code that
holds it. A call that acquires the lock, changes fields and releases it with
nothing in between that another thread can see is one step.

Time is `Tick`, one millisecond. `timer` is what is left of a timed wait; a
wait of 0 is not timed (`Timed`). Intervals count units of `UNIT`
milliseconds, and the code passes them to `wait` as milliseconds, as the model
does. `elapsed` is the time since `time_before_loop` after the cast to
`uint32_t`, so it wraps at `Wrap` (4294 ms in the program). `MaxLate` says how
long the scheduler may keep a thread waiting that could run; without a bound
no statement about time holds.

Four variables are history: `due` (milliseconds until a task may run again),
`walk` (which tasks the present pass found and has seen), `self_only` (tasks
have at most taken themselves out so far) and `late`. The model stops where
`run` deletes the thread; what `native_call` does with the deleted object is
beyond it.

### Volume

Addresses, sizes and counters are in commit granules, to which the code aligns
them; the flags keep their bytes, and `align_down_bounded` is what
`ergo_initialize` makes of them. `Metaspace_lock` is held over all the steps of
a commit. `commit_range` is `CommitRange` (the lock, the range), `CountCommitted`
(what the mask lacks, what the limiter has), `AskPolicy`
(`possible_expand_bytes`), `OsCommit` or `OsCommitFails`, `IncreaseLimiter`,
`IncreaseStatistics`, `MarkCommitted`: between any two of them another thread
may raise the threshold. `uncommit_range` is the same downwards.
`CreateNewVolume` is `os::reserve_memory_aligned`: one alignment too much, then
the ends given back, each traced. `backed` is the memory the kernel has made
accessible, `mapped` what is reserved. `threshold_with_gc` is `LoadThreshold` and
`CasThreshold`. `compute_new_gc_threshold` is `ExpandThreshold` or
`ShrinkThreshold`, when no thread is in any of this (a safepoint).
`os::commit_memory` records the whole range with the tracer, of which nothing
is read again. `MinMetaspaceFreeRatio` is assumed below 100: at 100
`MetaspaceGC.cpp:64` divides by zero.

### Segments

`seg` are the Segment objects, by header; `free` the list per level as a set,
for which of several segments of a list a search finds is left open. A call
holds `Metaspace_lock` throughout, so there is one `op` at a time, but each turn
of the loops of `Region::split` and `Region::merge` is a step (`SplitStep`,
`MergeStep`). `get_segment` begins with `GetFree` (the five searches of
`search_satisfy_segment_in_free`) or `GetRoot` and ends with `FinishGet`, which
commits. `return_segment` is `ReturnSegment`, `MergeStep`s, `FinishReturn`.
`Enlarge` is `attempt_enlarge_segment` on behalf of an arena, `Allocate` and
`CommitAndAllocate` the bump of a segment's top, `Purge` the uncommitting of free
segments. `MergeStops` and `EnlargeStops` are the paths that end in a null
pointer or a failed assertion. `Segment::initialize` keeps the buddy pointers a
header had in its earlier life; `stale_root` says that a root got such ones.

`Purged` are the free segments up to the level `bytes_to_level` computes for a
granule. With the program's constants that level is -2 and a purge goes through
no list (§4); the instance of `metaspace` has sizes for which it goes through
some. `CommitSizes` is what a segment may count as committed after
`commit_up_to`.

What the code has and a reader may stumble over: with the real constants the
needs above 1K and up to 16K get segments of 2M to 16M and larger ones fail
`ContextHolder.cpp:124`, so `Enlarge` is never reached (the instance has other
sizes); `bytes_to_level` goes through `round_up_power_of_2`, whose assertion
(`align.hpp:95`) stops the committed build for every need above 1K, and so does
`CommittedMask.hpp:51` for a range that ends where its volume does: with
`DEBUG_MODE` the modules leave these two out; `_num_segments_at_level` is never
updated; `add()` (`SegmentManager.cpp:118-131`) puts committed segments at the
tail although `SegmentManager.hpp:24` says the head;
`Volume::total_region_is_free`, which nobody calls, looks at region 0 only
(`Volume.cpp:205-213`).

### BlockManager and MetaspaceArena

A manager is a value: `bin` a stack per small size, `node` the tree whose nodes
lie in the blocks, `small` and `tree` the words counted. The operators are the
methods of `BlockArray`, `BlockTree` and `BlockManager`. A loop over pointers is
`Loop`: a function of the loop's variables, applied as often as there are words,
which stays where the loop ends; a loop over a sound structure meets no word
twice (`LoopEnds` in the proofs), so it has ended by then. An arena's call holds
its mutex and is one action: `AllocateFromBlock`, `AllocateFromCurrent` (with
enlarging and committing), `AllocateFromNew` (with `salvage_segment`),
`Deallocate`, `Die`. The current segment is the head of the list, although new
ones go to the tail, and `commit_up_to` is asked for `bytes`, not for `used +
bytes`: both are as in the code. `Die` is what `~Arena` does to a list it walks
while it gives the elements away, `DieCorrupting` where that ends badly. The
assertions are left out, because with them the second allocation that no block
serves stops the program (`Arena.cpp:260`, `:292`, and `BlockTree.cpp:96` for a
removed node).

### ResourceArena and NativeMemory

A thread's arena is its own, malloc and the pools are shared, so a call is one
action. Lengths are words. Every chunk comes from malloc: a pool is looked up
by the size of the header, which has none. `Rollback` cuts the list behind the
saved chunk, so what was allocated since stays allocated
(`Arena.cpp:179-181`; `allocation.hpp:172` says it is freed); `Destroy` frees the
head chunk only; `Clean` frees what the pools hold and leaves their heads
(`ArenaChunkPool.cpp:41`). A request that fills a new chunk beyond its end,
which lies a header before the end of its memory, leaves the top behind the
end, and the unsigned room of `Arena.cpp:80` wraps: `Fits` has it. With
assertions `~Arena` always stops (`Arena.cpp:129`); they are left out.

`NativeMemory` splits `CHEAP_ALLOC` and `CHEAP_FREE` where threads interleave:
malloc, the number of the record, the record under the lock of the stream, the
two atomic counters, free. Callers choose the tag of a release and may release
null (`FreeNull`): `BitMap.hpp:326` does so at every first resize, for the map a
`CommittedMask` begins without (`CommittedMask.cpp:31`), and `Volume.cpp:51`
releases as Management what `Volume.cpp:31` allocated as Metaspace. A release of
null is traced and counted like any other. `odd` are the tags about which the
counters say nothing: those two kinds; a block older than `initialize`, which is
subtracted without having been added (`early` are the addresses of such blocks,
whose history may begin with a release); and `CHEAP_ALLOC_ALIGN`, which swaps
the arguments of `posix_memalign` (`allocation.cpp:61`, no callers) and records
another size than is freed. In the detail log the order of the file is
not the order of the numbers, which count modulo 2^16; `HistoryAlternates` is
about the order of the file.

### Containers

`LinkList` has the pointers of list and nodes and an action per operation;
`Visit` is what `node_head_do` and `node_tail_do` see, and the pair of the two
visits is the refinement mapping to `NodeList`. (`LinkList::verify` is wrong for
the first and the last node, `LinkedList.hpp:177`, `:186`; nobody calls it.)
`BitMap` has words as sets of bits; `touched` is what the masks at the ends of a
range and the whole words in its middle reach. `par_set_bit` takes away the
other bits of the word (`BitMap.cpp:116-126`; no callers): `BitsExact` holds up
to the first such call. `KeepMemory` has the assertion of `BitMap.cpp:56`.
`GrowableArray` describes both builds (`debug_mode`). With assertions an
`append` to a full array stops the program: `max_power_2` returns a bool
(`align.hpp:25`), so that `round_up_power_of_2` finds every capacity above 1 too
large (`align.hpp:95`), and at a capacity of 1 `expand_to` is asked for no more
than there is (`GrowableArray.hpp:160`). Without them a full array moves to the
next power of two, which is the one it has if its capacity is one; then `push`
finds no place and `append` drops the element (`lost`). Nothing in the
repository uses the class yet.

### LogStream, VMError, Diagnostics

What one call hands to `fwrite` is one piece of `file`, with who wrote it.
`OutputToStderr` is set, so the log and the error report share `stderr`. A
`LogStream` is opened, printed to (`PrintText`, with the limit of the formatting
buffer and the growth of the line buffer) and closed by its destructor, which
writes header, tab and text under the lock of the stream. A text that does not
fit `OStreamDefaultBufSize` is dropped (`CharOStream.hpp:17-20` says it is cut),
and the assertion `LogStream.cpp:109` stops the program before the branch that
cuts a line (138-143) is reached. The text goes into the file by
`stream->print(data, data_len)` (`LogSingleFileOutput.cpp:21`): the finished
line is the format of a second formatting, with `data_len` as its only argument.
`Text` therefore takes what `vsnprintf` may answer: the length of the line if
there is no percent sign in it, and any length or an error if there is one
(`percent`). The lines of `MetaspaceGC.cpp:70`, `:129` and `:162` have percent
signs; glibc happens to print conversions it does not know as they stand, and
nothing guarantees it. A conversion that reads memory no argument points to
would be undefined behaviour; no line of the repository has one, and the model
has none. When `vsnprintf` fails (`CharOStream.cpp:25-29`), or the text is too
long, nothing is written. `report_and_die` is one step per read or
compare-and-swap of `_first_error_tid`, per step of the report and per piece
printed; `Fail` is an error inside the report, which enters `report_and_die`
again. A header is one piece; what it says is left out. Several steps of the
report, and `print_raw_cr`, write two or more pieces, which are one here:
another thread may write between them, and no property is about what stands
between two pieces of a report. `fflush` takes the lock of the `FILE`, for which
`Flush` does not wait: the model takes it for granted that who holds that one,
inside a call of the C library, gives it back.

## 3. Runs

| Run | Checks | States |
|---|---|---|
| `vmthread` | `ReturnMeansEvaluated`, `NoDanglingOperation`: a call that returns has been evaluated once and nothing points to its operation any more; `SafepointHeld`: nested operations share a safepoint; `AssertionsHold`; `DestroyWaitsForExit`; `CallReturns`, `DestroyReturns` under fairness; `ImplementsService`; `TypeOK` | |
| `safepoint` | `ProtocolAssertions` (the assertions of safepoint.cpp and WaitBarrier.cpp); `HeldUntilEnd`: a thread that met the safepoint is held until that safepoint is over, interrupts or not; `NoLostWakeup`; `ListFrozen`: no thread enters or leaves the list while the VM thread walks it; `SynchronizeReturns`, `SleepersResume` under fairness | 0.5 million |
| `periodic` | `TableSound`: each task once, the walk stays inside; `NoDanglingTask`: a destroyed task is neither listed nor running; `OncePerPass`: no task is skipped or counted twice when tasks take themselves out; `RunsNotEarly`: between two executions lies the interval, on the clock; `EveryTaskRuns`, `StopEndsBusyThread` under fairness | |
| `periodic_full` | `FailsOnlyAtLimits`: with one place for two tasks and a thread that may come up early, the program fails only where a task finds every place taken by an active one, or where the thread does not find itself | |
| `volume` | `WithinLimits`: what is committed stays within the threshold, that within the maximum; `CountersAgree`: limiter, statistics, mask and kernel agree whenever the lock is free; `ReservationsAgree`: volumes, kernel and tracer agree on what is reserved; `NoExpandAfterShrink`: a collection that lowers the threshold does not make the next one raise it | 1.0 million |
| `metaspace` | of the segments `Tiling`: segments side by side, buddies point at each other; `FreeListsExact`; `ArenaKeepsItsMemory`: an arena's segment is neither moved nor cut until it is given back, and nobody uncommits it: no purge either, as long as what purges go through is whole granules. Of an arena `BlocksPartitionUsedMemory`: no word is handed out twice, none is lost, no block is both in use and to be reused; `TreeSound`: the tree of blocks stays a search tree that finds the smallest fit | 0.6 million |
| `plat_memory` | `BlocksSound`: blocks of an arena lie apart, in memory malloc gave, below the top | 0.8 million |
| `containers` | of the C heap `HistoryAlternates`: the log of an address, and `CountersMatchBlocks`: the counters of a tag without releases of null or under other tags. Of the containers `ImplementsNodeList`; `BitsExact`; `ElementsKept` | 1.3 million |
| `diagnostics` | `LinesWhole`: no line is broken by another thread's or by an error report, and nothing accepted is lost of a line without a percent sign; `ReportSound`: one error is reported, each step once; `ErrorEndsProcess` under fairness | 1.5 million |
| `safepoint_running`, `purge`, `arena_commit` | the disagreements of §4, one each | |

`vmthread` has two callers, which is the least at which callers compete for the
slot, wake each other and find it taken by another; two requests each, so that
an operation object comes back at the same address; one nested operation,
with and without a safepoint around it; one spurious wake-up. `safepoint` has
two threads (a list with a head and a non-head) and two safepoints, so that a
tag can be stale by one; one interrupt. `periodic` has a task of one unit and
one of two, so that a pass finds both, one or neither due and the table has a
place before, at and behind the one that is removed; three activations, so that
a task comes back; a unit of two milliseconds, so that a wake-up can fall
inside a unit; `Wrap` is three units, one more than the longest interval.
`periodic_full` has the same tasks and one place. `purge` has the constants of
the program for region, levels and granule. The symmetry of the threads is used
only where no liveness is checked. `CHECK_DEADLOCK FALSE` stands in every
configuration: the bounded number of calls, `destroy`, and failed assertions
end the program.

`volume` has two threads, one to hold the lock and one to raise the threshold;
two volumes of two regions of three granules, so that a range can lie inside a
region, touch an end, or overlap what is committed; 18 addresses, so that the
aligned part of a reservation has an end in front, behind, or both; flags that
are no multiples of the granule, so that rounding matters. A behaviour of
`metaspace` is one of the segments or one of an arena (`Parts`). The segments
have three levels and two regions, the least at which a merge goes on to a
second level and a follower has a neighbour; granules of half a region, so that
a segment can be smaller than, equal to and larger than one; four headers, so
that dead ones are used again. Its constraint `BeforeStaleRoot` ends a behaviour
when a root is given old buddies (§4). The arena has requests of 1 to 9 bytes
with two to the word, so that small blocks, tree blocks of several sizes and a
request too large for what is left occur; segments of 5 or 9 words in two
regions, at most four blocks at a time (`FewBlocks`). `plat_memory` has two
threads' arenas (three chunks, two nested marks, no request above a chunk, three
blocks). A behaviour of `containers` is one of the C heap (two addresses, so
that one can come back while another is in use; two tags, so that a block can be
released under the other; three calls that allocate or release null), or one of
a list of five nodes (head, tail, and a middle with a middle neighbour), a bit
map of up to seven bits in words of three (two whole words and a part), or an
array of capacity up to three, which grows to four; `BeforeParSet` ends what the
first `par_set_bit` leaves. `diagnostics` has two threads with a line each,
texts shorter than the formatting buffer and too long for it, with a percent
sign and without, two steps of the report, and `MaxRecursive` 0: the second
error inside the report is one too many.

The bounds are constants: `MaxRequests`, `MaxNested`, `MaxSpurious`,
`MaxSafepoints`, `MaxInterrupts`, `MaxActivations`, `MaxVolumes`,
`AddressSpace`, `MaxRegions`, `MaxSegments`, `MaxMarks`, `MaxAllocs`, `MaxBits`,
`MaxCapacity`, `MaxTexts`, `MaxLines`, and the sets of headers, chunks, nodes
and addresses. They sit in guards of the steps that start something new and
never in those that finish it, with two exceptions: `MaxLate` holds time back,
and `Fairness` then makes the thread go on; and a `SplitStep` needs a header,
so a split without one stays where it is. `OStreamDefaultBufSize`, `SmallBuf`,
`MaxRecursive` (30 in the code) and `Steps` are the program's constants made
small.

### Fairness

`VMThread!Fairness`: each thread that is inside a call and can take a step
does take one (weak fairness per thread: the kernel scheduler). Which thread
gets a contended mutex is not assumed fair, no `doit()` is assumed to
call another operation, and nothing makes a thread call `execute` or `destroy`.
`Safepoint!Fairness` is the same for the VM thread and for a language thread
that is at work in a transition, in the list or in the barrier. In `run()` a
thread is free: it may stay RUNNING for ever, keep its mutex for ever, or end.
Beginning a safepoint, creating a thread and interrupting a futex are free too.
Hence `SynchronizeReturns` asks only what the code can keep: `begin` returns or
some thread stays at its own work for ever.
`PeriodicThread!Fairness`: the periodic thread runs when it can, time passes,
and the main thread finishes a call it has begun. Owners never have to act.
`Diagnostics!Fairness`: a thread that writes a line, is inside `report_and_die`
or has failed the assertion of its line buffer goes on; nothing makes a thread
log or fail. The other modules state no fairness and no liveness: their calls
run under a lock without waiting for anybody.

## 4. Where the code and its description disagree

Three runs end in a counterexample (`findings` in `PROJECT.json` has the lines
and quotes):

- `safepoint_running`: a thread seen in a transition arrives in RUNNING while
  the safepoint is `synchronized`.
- `purge`: with the program's region, levels and granule (`constants.hpp`) the
  level up to which a purge goes is -2, so it goes through no list: free
  segments keep what is committed of them.
- `arena_commit`: a commit that the limit refuses is reported as a success, and
  the segment hands out memory that is not committed.

The modules state more of them as properties that no run above checks. To see
the counterexample, give the configuration the values named here and the
property alone:

| From | With | Property | What happens |
|---|---|---|---|
| `vmthread.cfg` | `WaitForStartup = FALSE` | `ReturnMeansEvaluated` | the first `wait_for_operation` clears the slot and releases a caller whose operation was never evaluated |
| `vmthread.cfg` | - | `InstalledCallReturns` | an operation in the slot when the loop ends is never cleared; its caller waits for ever |
| `safepoint.cfg` | - | `ListLockReleased` | `end` locks the list lock where it should unlock it |
| `safepoint.cfg` | `DEBUG_MODE = TRUE` | `ThreadAssertionsHold` | the callback sets BLOCKED, the barrier asserts RUNNING |
| `periodic.cfg` | - | `RunFindsItself` | `run` asserts that it is the stored thread, which `create` stores after it has started it |
| `periodic.cfg` | `Tasks = {b}`, `Interval <- LongAlone` | `EveryTaskRuns` | the elapsed nanoseconds are cut to 32 bits: a task with an interval above 4.29 s, alone in the table, never runs |
| `periodic.cfg` | - | `StopEndsThread` | `stop` between the look at `_should_terminate` and the wait wakes nobody; with an empty table the thread sleeps for ever |
| `metaspace.cfg` | `DEBUG_MODE = TRUE` | `OwnsItsGranules` | `is_leader` (`Segment.hpp:311-316`) tests the alignment to the segment's own size, so that a second half merges with, or is enlarged by, the segment behind it; segments then lie across granules (`Segment.cpp:64-66` and the doc at `Segment.hpp:302-305` say otherwise). A purge that went through such segments would take granules of others; with the program's constants it goes through none (`purge`) |
| `metaspace.cfg` | five headers, `DEBUG_MODE = TRUE`, no `BeforeStaleRoot` | `NoOverlap` | a root that was given a header with old buddies merges with a segment elsewhere |
| `containers.cfg` | - | `FullArrayGrows` | a full array whose capacity is a power of two stops a build with assertions (`align.hpp:95`, `GrowableArray.hpp:160`) and drops the element in one without, although the class "supports an extendable length" (`GrowableArray.hpp:70`) and its `push` "must be success." (`:221`) |

Some disagreements need no state to see, and the modules describe the code as
it is: releases of null that are traced and counted, and the tags of
`Volume.cpp:31` and `:51`, which put the counters of Metaspace and Management off
(`NativeMemory`); log lines used as formats (`LogStream`); `bytes_to_level`, which
does not give the closest level (2K gets a segment of 2M, 16K one of 16M).

## 5. Proofs

All theorems hold for every value of the constants that meets the named
assumptions of the modules; TLC evaluates them on every run. They say that names
are distinct and bounds are naturals, and beyond that: `PeriodicAssumption`
intervals of at least 1; `VolumeAssumption` sizes that are not 0 and
`MinMetaspaceFreeRatio` below 100; `NoErrorAssumption` and the last part of
`SegmentsAssumption` that "no error" is none of the errors; `SegmentsAssumption`
that a level has twice the bytes of the next and that every need has a level;
`LogStreamAssumption` that the small buffer of a line is smaller than the
formatting buffer; `ResourceArenaAssumption` that a chunk is longer than its
header; `HeapAssumption` that nobody asks malloc for nothing, that the grain of
its answers is at least 1, and that there are finitely many addresses;
`ContainersAssumption` finitely many nodes, and words of at least one bit;
`MetaspaceArenaAssumption` that addresses are the words of all regions and null
is none of them, that a segment is at least a word and at most a region, and
that the units (bytes of a word, words of a granule and of a `Node`) are
positive.

**VM thread.** No bound on callers, requests or nesting is used.

| Theorem | Says |
|---|---|
| `TypeCorrect` | types, `Control` and `Frames` below |
| `NoDangling`, `SafepointPaired`, `CallerKnown`, `DestroyWaits` | `NoDanglingOperation`, `SafepointHeld` and `SafepointReleased`, `CallingThread`, `DestroyWaitsForExit`: for every start-up and shut-down |
| `ReturnsEvaluated`, `NoAssertionFails`, `NotOverwritten` | `ReturnMeansEvaluated`, `AssertionsHold`, `PendingNotOverwritten`, if callers wait for the VM thread to come up (`WaitForStartup`); they fail otherwise, see §4 |
| `Refinement` | `WaitForStartup => (Spec => ImplementsService)` |

The base is `TypeOK /\ Control /\ Frames`, inductive by itself. `Control`: the
holder of a monitor is the thread whose label lies in its critical section.
`Frames`: the stack of activations fits the label of the VM thread, and its
bottom is the operation in the slot. On it stand, each with its own step lemma,
`SafepointBegun` (which activation began the safepoint in force, and that an
operation which asked for one has one below it on the stack), `Slot` (the
owner of the operation in the slot waits for it), `Callers`, `Exit` (what
`destroy` has seen of the end of `run`) and `Mailbox` (slot, label and number of
evaluations). `Mailbox` is where `WaitForStartup` is needed: before the first
`wait_for_operation` the slot must be empty, or that call clears it. None of the
properties is inductive: "a call that returns has been evaluated", for instance,
needs to know that the slot is cleared only after the evaluation, hence where
the VM thread is, hence what is on the stack. The refinement is proved step by
step with `status` as the mapping: each step of the protocol is a step of the
service or leaves it as it was.

**Safepoints and wait barrier.** No bound on threads, safepoints, mutexes or
interrupts is used.

| Theorem | Says |
|---|---|
| `TypeCorrect`, `AssertionsHold`, `ListIsFrozen` | `TypeOK`, `ProtocolAssertions`, `ListFrozen` |
| `HeldThreads` | `HeldUntilEnd` |
| `WakeupsReachAll` | `NoLostWakeup` |

The invariant is `TypeOK /\ Control /\ Locking /\ Phases /\ Meeting /\ Sleeping`.
`Phases` computes `futex_barrier` and `_state` from the label of the VM thread
and `_safepoint_counter`, which is odd exactly while a safepoint is in force:
the tag of the barrier is the number of the safepoint until `disarm` makes it 0.
`Meeting` follows the two numbers a thread carries: the safepoint it met
(`seen`, history) and the tag it read, which is not older; a thread gets past
the barrier only when the number in force is greater than the one it met. This
is where a stale tag, an early return of the futex or a safepoint that begins
again at once could let a thread through, and `HeldUntilEnd` follows from it.
`Locking` says that the VM thread has `LangThreadList_lock` from the beginning
of a safepoint on (and, since `end` locks it again, ever after, §4), hence that
no language thread is inside the list's critical section. `NoLostWakeup` is
inductive with `Phases`: the kernel compares the tag and sleeps in one step, and
between the store of 0 and the wake-up the VM thread is at `wakeup`.

**Periodic thread.** No bound on tasks, intervals, time or lag is used.

| Theorem | Says |
|---|---|
| `PeriodicTypeCorrect`, `CounterBelowInterval`, `WalkStaysInTable`, `NoTaskDangles` | `TypeOK`, `CountInRange`, `TableSound`, `NoDanglingTask` |
| `EachTaskOncePerPass` | `OncePerPass` |
| `NoTaskRunsEarly`, `SleepsOnlyWithoutTasks` | `RunsNotEarly`, `SleepsForEverOnlyIdle` |
| `PeriodicFailures` | `FailsOnlyAtLimits`: the assertion of `run` fails at most before `create` has stored the thread, and the table overflows only when more tasks are active than it has places |

The invariant is `TypeOK /\ Control /\ Table /\ CountInRange`; the parts need
each other. `min_task_interval` is a natural only while the counters are below
their intervals; a task returns into a sound table only if who is inside the
lock is known. `Table` adds to `TableSound` that what is listed or running has
an active owner, which gives `NoDanglingTask`. `TakenOutProperties` and
`EnterProperties` are the lemmas on what removal and insertion do to the table;
that a table of distinct tasks is no longer than their number, which
`PeriodicFailures` needs for the overflow, is the pigeonhole principle.

Two more invariants stand on it. `Walk` (for `OncePerPass`): as long as tasks
take out nobody but themselves, the index stands behind the tasks the pass has
seen and before those it has not, and at a running task the length of the table
at the start of its turn tells whether it is still there, which is what the loop
relies on when it does or does not advance. `Timing` (for `RunsNotEarly`): what
the thread has credited to a task in `_counter`, what it is about to credit, the
time it has slept since and the time the task still has to wait make at most its
interval. The division by `UNIT` and the cast of the elapsed time lose time and
never invent it, and a wake-up by a notification credits what has passed and no
more. `Unborn` says that nobody runs before `create`.

**Metaspace volumes.** No bound on threads, addresses, volumes or flags is used.

| Theorem | Says |
|---|---|
| `MetaspaceLimits`, `MetaspaceCounters` | `WithinLimits`, `CountersAgree` |
| `ReservationsExact`, `TypeCorrect` | `ReservationsAgree`, `TypeOK` |
| `NoExpandNext` | `NoExpandAfterShrink`, if `MinMetaspaceFreeRatio <= MaxMetaspaceFreeRatio` (nothing in `ergo_initialize` sees to that) |

The invariant is `IInv == Types /\ Locking /\ Phases /\ Limits /\ Counts`.
Neither property is inductive: while a thread commits, the limiter and the
statistics run ahead of the mask. `Counting` says for each label of the lock
holder by how much they do, `Pending` what a thread between asking the policy
and counting has been promised, and what a thread before its compare-and-swap
would store. A promise survives because the threshold falls only at a
safepoint, and every compare-and-swap that succeeds raises it to a value
checked against the maximum. `RangeCounts` has the cardinalities,
`HolderStep`, `HolderReturns` and `OtherStep` the three ways a step touches the
lock. For `NoExpandNext` the division lemmas show that what is shrunk, for any
factor and rounding, leaves at least the desired size of the larger ratio
(`ShrinkLeavesDesired`), which is at least that of the smaller one
(`DesiredMonotone`).

The reservations have an invariant of their own, `Space`: the volumes are
aligned and apart, what is mapped is their union and lies in the address space,
the mask and the range of every call lie in what is mapped. `AlignedBase`,
`RegionInVolume` and `KeptPart` say where the aligned part of a reservation and
the regions of a volume lie; `CreateKeepsSpace` is the one step that is not
obvious: what `reserve_memory_aligned` gives back in front and behind leaves
exactly one volume, and that is what the tracer has counted.

**Segments.** No bound on headers, levels, regions, sizes or needs is used, and
both builds (`DEBUG_MODE`) are covered.

| Theorem | Says |
|---|---|
| `TypeCorrect` | `TypeOK`, in every behaviour |
| `SegmentsTile`, `ListsHoldTheFree` | `Tiling`, `FreeListsExact`: until a root is given old buddies (`stale_root`, §4) |
| `MemoryIsKept` | `ArenaKeepsItsMemory`, with the same proviso; that no purge takes granules back, as long as what it goes through is whole granules (`PurgesWholeGranules`; with the program's constants it goes through nothing) |

The invariant is `IInv == Types /\ (stale_root \/ Structure)`, `Structure` being
`Shape`, `Operation` and `Lists`. None of the three properties is inductive.
`Tiling` says of `next_buddy` only that it is answered by the `prev_buddy` of the
same segment; a merge also follows `prev_buddy`, so `Shape` has both directions
(`NextAgrees`, `PrevAgrees`), and it has for each segment the region it lies in
(`Placed`): without it the last segment of a region and the first of the next
could not be told from buddies. `FreeListsExact` speaks of the time between
calls; `Lists` says at any time that the lists hold the free segments but the
one the call works on, and `Operation` that this one is free and, during a
merge, the result. Splits and joins are each proved once as a change of the
tiling (`SplitShape`, `JoinShape`); `SplitStructure`, `MergeStructure` and
`EnlargeStructure` apply them. `BuddyBeside` shows that the two that merge follow
one another in the right order even where `is_leader` names a second half the
first (§4), and that a merge up to a root has the leader as its segment, so that
`op.result`, which the code does not update in that turn, is right all the same.
`PurgeSpares` is about purges: whole granules share none with what lies beside
them (`GranulesApart`).

**Metaspace arenas.** No bound on words, segments, requests or sizes is used, and
every commit may fail.

| Theorem | Says |
|---|---|
| `ArenaPartition` | `BlocksPartitionUsedMemory` |
| `ArenaTreeSound` | `TreeSound` |

Neither property can be proved as it stands, since `TreeSound` speaks of what a
traversal meets and the traversals are loops over the tree that a step rebuilds.
The invariant, `ArenaInvariant`, describes the structures without walking them.
`Tree(m, N, lo, hi)`: the nodes N have each an interval between `lo` and `hi`
its size lies in, a child has the part of its parent's interval on its side of
the parent, and of two nodes one lies below the other or their intervals are
apart. An insertion gives the new node the interval of the place the search
ended at (`PointFound`, `InsertedLeft`, `InsertedRight`); to take out a node
with at most one child gives its interval to that child (`NodeBypassed`); the
successor is the node next in size, so it can take the place of a node with two
children and no interval but those between the two changes (`SuccessorFound`,
`NodeSubstituted`). `SizeLists(m, N, home, rank)`: a block that is not a node
has the node of its size as its home, and along `next` the ranks fall. Such
ranks also end every loop: `LoopEnds` says where a loop stops whose steps lower
a rank, `ReachedLeast` that what is reached is the least set closed under the
pointers, and with them `ManagerSound` gives back what `TreeSound` says in terms
of traversals and of `find_closest_node`.

`Manages(m, TB, BB)` adds the stacks per size: the tree has exactly the
blocks TB, the stacks exactly BB, and `tree` and `small` are their words.
`Deallocated` and `Allocated` are what `BlockManager` does to these sets, the
waste of a block that is too large included. `Partition` says that held and
managed blocks are apart and together are the used words. Each call of an arena
moves a block from one side to the other (`PartitionReturned`, `PartitionSplit`)
or turns words of a segment into a block (`PartitionMore`), the rest of a
segment that is salvaged among them. That new words were not used before needs
`SegmentsApart`: segments lie in regions of their own and are filled no further
than they are committed. An allocation that would go further (§4) ends the
behaviour in the model before it is made.

`ArenaInvariant` says that intervals, homes and ranks exist, which TLC cannot
look for; the run `metaspace` checks the two properties it implies.

**Platform arenas.** No bound on threads, addresses, lengths or marks is used.

| Theorem | Says |
|---|---|
| `BlocksLieApart` | `BlocksSound`, under `Fitting` |

`Fitting` names what the code does not see to, and what its constants give. A
request above the length of a chunk takes the top behind the end, and after that
everything fits (`Arena.cpp:80`), so requests are bounded. The length kept in an
arena's chunk, `small_bytes` less the header, is none of the lengths with a pool
(`ArenaChunk.hpp:27-30`, `Arena.cpp:140`), so no chunk reaches a pool; if one did,
`purge` would free it and keep it (`ArenaChunkPool.cpp:41`).

The invariant is `Fields`, `Sound` of every thread and `Owners`. `MarkSound` is
what makes rollbacks right: a block older than a mark lies below the top the
mark remembers if it is in the mark's chunk. That is not obvious, since `free`
of an older block may take the top below the mark's, and newer blocks may take
its place: they have the mark's depth and go with it. `Owners` says that no
chunk belongs to two threads; it holds because a chunk an arena lets go is
freed only when all the arena's blocks are gone. `Untouched` and `StepKeeps`
reduce each operation to the thread that calls it.

**Containers.** No bound on nodes, bits, the width of a word or capacities is
used, and none on threads.

| Theorem | Says |
|---|---|
| `ListImplementsNodeList` | `ImplementsNodeList` |
| `ArrayKeepsElements` | `ElementsKept` |
| `MapBitsExact` | `BitsExact`, up to the first `par_set_bit` |

`ListInv` says that some sequence of nodes, each once, is what the pointers make
(`ListIs`): `_head` and `_tail` are its ends, `_next` and `_prev` lead to the
neighbours, null standing in front of the first and behind the last. It is
stated by positions, so that an insertion and a removal are one change of the
sequence each (`TargetSplices`, `DeleteSplices`). That a visit ends, though it
is bounded only by the number of nodes, is the pigeonhole principle. A visit
from either end is then that sequence or its reverse (`VisitsInsert`,
`VisitsDelete` after a step), and each operation is one of `NodeList`'s. That
holds from sound lists only: with a `_prev` that leads elsewhere a removal would
cut off the rest of the list.

`ArrayInv` says of each place below `_len` which element it holds, and that the
memory is never empty, so that the next power of two has room for one more
unless the capacity is one (`PowerAbove`: there is a power of two from n to
2n - 1, by the least n that would have none).

`BitInv` relates each bit to `marked` by its word and its place in there, and
says that every call in progress clears, as long as nobody has called
`par_set_bit`. A compare-and-swap succeeds only if the word is the one that was
read, so it changes the bit of its call and no other, whatever other threads
have done to the word in between. The arithmetic of the ends of a range, for
every width of a word, is in `WordsOf`, `WithinWord` and `Touched`: masks and
whole words together touch bit o of word w exactly if it lies in the range.
`RangeCounted` is the bijection between the marked bits of a range and the
places that `count_range` counts.

**C heap.** No bound on threads, addresses, allocations or sizes is used; the
numbers of the records may wrap.

| Theorem | Says |
|---|---|
| `HeapHistoryAlternates` | `HistoryAlternates` |
| `HeapCountersMatchBlocks` | `CountersMatchBlocks` |

The invariant is `HeapInv == HeapTypes /\ Owners /\ Untraced /\ Recorded /\
Tallied /\ HistoryAlternates`. `CountersMatchBlocks` speaks of the moments when
no call with the tag is under way, and `HistoryAlternates` only of what the log
has; neither says what a call in its middle still owes. `Owners` does: an
address is held by its block's owner or by one call, and never by two, because
`CHEAP_FREE` hands it to malloc last and malloc gives out only what is free. So
for each step of tracing (the record, the bytes, the number) there is a set of
blocks that step takes for blocks in use, `Present`: the blocks in use, those a
call has just been given and has already counted, and those a call is about to
free and has not yet taken off. `Tallied` says that each counter is exact for
its set, `Recorded` that the last record of an address in the log's set is an
allocation and of any other a release. A step of a call changes the set of one
step of tracing by one address. `Untraced` is about the time before
`initialize`: what is in use then has a tag in `odd`.

`CountersMatchBlocks` sums bytes over a set of blocks. That a sum grows by what
is added (`BytesPlus`) is an induction over finite sets. It goes by the least
cardinality that fails (`LeastElement`), since well-foundedness of the naturals
is a fact without an operator parameter: every finite set of blocks has
a function that adds up its subsets (`AdderExists`), and what the sum computes is
that function (`BytesAdded`).

**Log lines and error reports.** No bound on threads, lines, texts, errors or
the sizes of buffers is used.

| Theorem | Says |
|---|---|
| `WholeLines` | `LinesWhole` |
| `OneReport` | `ReportSound` |

The invariant is `IInv == Fields /\ Buffers /\ Writing /\ Report /\ LinesWhole /\
ReportSound`. `Writing`: a thread inside `LogSingleFileOutput::write` has the
lock of the stream, and the last piece of the file is its own; a thread in
`report_and_die` is not inside, since nothing in there asserts. `Buffers`: a
line buffer holds exactly what `print` accepted and has room for the
terminating zero; since it never grows beyond the formatting buffer, the second
formatting in `LogSingleFileOutput::write` does not drop a text without a percent
sign (`NewCap`, `AppendKeeps`, and `Formatted` for the other direction); of a
text with one nothing is claimed but that its pieces stay together. `Report`:
who is past the compare-and-swap is the first, the message is about its first
error and not a nested one, and it comes back to `enter` only out of its own
report. `LogStepKeeps` is one lemma for every step of a line, `OthersReport`
says that a step of one thread leaves what `Report` says of the others.

## 6. Only model-checked

Liveness (`CallReturns`, `DestroyReturns`, `SynchronizeReturns`,
`SleepersResume`, `EveryTaskRuns`, `StopEndsBusyThread`, `ErrorEndsProcess`):
the prover has no fairness.

Every safety property a passing run checks is a theorem as well, under the
provisos §5 names.

## 7. Not modelled

Left out:

- Log configuration and layout: what a line looks like. The padding reads
  `statistics_bytes` without the lock the error reporter writes it under
  (`OStream.cpp:12-15`, `LogOutput.cpp:34-46`); it decides about blanks only.
- `OSThread` priorities and printing, the daemon thread list (the same code
  under another lock), `PlatThread::remove_from_list` beyond what `Safepoint`
  has of it, and what `native_call` does with the periodic thread that deleted
  itself (`PeriodicThread.cpp:53`).
- malloc that fails in the platform arenas and the C heap, `EINVAL` of
  `posix_memalign`, the records of arenas (`SummaryMemory.cpp:48-50` adds where
  it should subtract) and the printing of the summary (`iter_chunk`,
  150-156, does not advance).
- `Semaphore` (no caller), `SpinYield` (the sleep between two passes of a
  safepoint), `GlobalLocker`, `InternalStats` (printed only), `Space` and
  `SingleLinkedList` (no callers of their operations), initialisation (one
  thread, once), wrappers of system calls.
- Memory ordering: the modules assume sequential consistency; the code fences
  its accesses.
