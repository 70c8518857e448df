------------------------------ MODULE Monitor ------------------------------
(***************************************************************************)
(* Mutex and Monitor of src/plat/thread: a recursive pthread mutex with a  *)
(* condition variable, and the `_owner` word the class keeps beside the    *)
(* pthread state.  The module holds no variables: a module that owns a     *)
(* monitor keeps one record and moves it with these operators.             *)
(*                                                                         *)
(*   holder, depth  the pthread mutex: who holds it and how many times     *)
(*   owner          Mutex::_owner, written by lock, unlock and wait        *)
(*   waiters        the threads blocked in pthread_cond_wait               *)
(***************************************************************************)
EXTENDS Naturals

CONSTANT NoThread   \* the null OSThread pointer

MonitorType(Threads) ==
    [ holder  : Threads \cup {NoThread},
      depth   : Nat,
      owner   : Threads \cup {NoThread},
      waiters : SUBSET Threads ]

FreeMonitor ==
    [holder |-> NoThread, depth |-> 0, owner |-> NoThread, waiters |-> {}]

(* pthread_mutex_lock returns when the mutex is free or already the        *)
(* caller's own (PTHREAD_MUTEX_RECURSIVE, the default of the constructor). *)
CanLock(m, t) == m.holder \in {NoThread, t}

Lock(m, t) ==
    [m EXCEPT !.holder = t, !.depth = m.depth + 1,
              !.owner = IF m.owner = NoThread THEN t ELSE m.owner]

(* The assertion at the top of Mutex::unlock.                              *)
OwnedBySelf(m, t) == m.owner = t

(* Mutex::unlock clears _owner whatever the depth of the pthread mutex.    *)
Unlock(m, t) ==
    [m EXCEPT !.holder = IF m.depth = 1 THEN NoThread ELSE m.holder,
              !.depth = m.depth - 1, !.owner = NoThread]

(* Monitor::wait up to the point where the thread sleeps: pthread_cond_wait*)
(* gives up one level of the mutex.                                        *)
Wait(m, t) == [Unlock(m, t) EXCEPT !.waiters = @ \cup {t}]

(* pthread_cond_wait returns once the thread was notified (or woke by      *)
(* itself, SpuriousWake) and has the mutex again.                          *)
CanReturnFromWait(m, t) == t \notin m.waiters /\ CanLock(m, t)

ReturnFromWait(m, t) == [m EXCEPT !.holder = t, !.depth = m.depth + 1, !.owner = t]

(* pthread_cond_signal: one waiter of the system's choice, if there is one.*)
Notify(m) ==
    IF m.waiters = {} THEN {m}
    ELSE { [m EXCEPT !.waiters = @ \ {w}] : w \in m.waiters }

NotifyAll(m) == [m EXCEPT !.waiters = {}]

SpuriousWake(m, t) == [m EXCEPT !.waiters = @ \ {t}]
=============================================================================
