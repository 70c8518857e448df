------------------------------ MODULE VMError ------------------------------
(***************************************************************************)
(* VMError::report_and_die (plat/utils/VMError.cpp): what a failed         *)
(* assertion, guarantee or allocation ends in.  The first thread to come   *)
(* writes the report and aborts the process; a later one says that it has  *)
(* an error too and sleeps for ever; an error inside the report enters     *)
(* report_and_die again, which goes on behind the step that failed.        *)
(*                                                                         *)
(* A step of report() prints one piece; the empty step and the wording are *)
(* left out.  An error may come up in any step, in the copying of the      *)
(* message and in the flush.                                               *)
(***************************************************************************)
EXTENDS FileCharOStream, FiniteSets

CONSTANTS
    MaxRecursive,      \* 30: errors inside the report before it gives up
    Steps              \* the steps of report() that print

ASSUME VMErrorAssumption == MaxRecursive \in Nat /\ Steps \in Nat \ {0}

VARIABLES
    at,                       \* where each thread is in report_and_die
    nested,                   \* it came there out of its own report
    _first_error_tid,         \* Nobody for -1
    _message,                 \* the error the report is about: whose, and was it nested
    recursive_error_count,
    _current_step,
    begun,                    \* the steps of the report, in the order they began
    aborted                   \* ::abort() was called

reportVars == <<_first_error_tid, _message, recursive_error_count, _current_step, begun, aborted>>
errVars == <<at, nested, reportVars>>

NoMessage == <<Nobody, FALSE>>

ErrInit ==
    /\ at = [t \in Threads |-> "none"] /\ nested = [t \in Threads |-> FALSE]
    /\ _first_error_tid = Nobody /\ _message = NoMessage
    /\ recursive_error_count = 0 /\ _current_step = 0
    /\ begun = <<>> /\ aborted = FALSE

Moves(t, from, to) == at[t] = from /\ at' = [at EXCEPT ![t] = to]

(* report_vm_error and report_vm_out_of_memory call report_and_die.        *)
Raise(t) ==
    /\ Moves(t, "none", "enter")
    /\ UNCHANGED <<nested, reportVars, streamVars>>

(* Whoever finds no first error tries to be it.                            *)
Enter(t) ==
    /\ Moves(t, "enter", IF _first_error_tid = Nobody THEN "cas" ELSE "later")
    /\ UNCHANGED <<nested, reportVars, streamVars>>

Cas(t) ==
    /\ Moves(t, "cas", IF _first_error_tid = Nobody THEN "store" ELSE "later")
    /\ _first_error_tid' = IF _first_error_tid = Nobody THEN t ELSE _first_error_tid
    /\ UNCHANGED <<nested, _message, recursive_error_count, _current_step, begun, aborted, streamVars>>

(* The first error is kept for the report; then its details are formatted. *)
Store(t) ==
    /\ Moves(t, "store", "copy")
    /\ _message' = <<t, nested[t]>>
    /\ UNCHANGED <<nested, _first_error_tid, recursive_error_count, _current_step, begun, aborted,
                   streamVars>>

CopyDetail(t) == Moves(t, "copy", "report") /\ UNCHANGED <<nested, reportVars, streamVars>>

(* Another thread is the first: say so and sleep.                          *)
Also(t) ==
    /\ _first_error_tid # t /\ Moves(t, "later", "asleep")
    /\ write(t, [by |-> t, what |-> "also"])
    /\ UNCHANGED <<nested, reportVars>>

(* An error inside the report, of the same thread.                         *)
Recursive(t) ==
    /\ _first_error_tid = t
    /\ Moves(t, "later", IF recursive_error_count > MaxRecursive THEN "too_many" ELSE "again")
    /\ recursive_error_count' = recursive_error_count + 1
    /\ UNCHANGED <<nested, _first_error_tid, _message, _current_step, begun, aborted, streamVars>>

TooMany(t) ==
    /\ Moves(t, "too_many", "none")
    /\ write(t, [by |-> t, what |-> "too_many"])
    /\ aborted' = TRUE
    /\ UNCHANGED <<nested, _first_error_tid, _message, recursive_error_count, _current_step, begun>>

Again(t) ==
    /\ Moves(t, "again", "report")
    /\ write(t, [by |-> t, what |-> "again"])
    /\ UNCHANGED <<nested, reportVars>>

(* Mutant: a step is not marked as begun.                                  *)
StepUnmarked(t) ==
    /\ _current_step < Steps /\ Moves(t, "report", "print")
    /\ begun' = Append(begun, _current_step + 1)
    /\ UNCHANGED <<nested, _first_error_tid, _message, recursive_error_count, _current_step, aborted,
                   streamVars>>

(* VMError::report: a step is passed over if it, or a later one, began     *)
(* before; it is marked as begun before it prints.                         *)
Step(t) ==
    /\ _current_step < Steps /\ Moves(t, "report", "print")
    /\ _current_step' = _current_step + 1
    /\ begun' = Append(begun, _current_step + 1)
    /\ UNCHANGED <<nested, _first_error_tid, _message, recursive_error_count, aborted, streamVars>>

PrintStep(t) ==
    /\ Moves(t, "print", "report")
    /\ write(t, [by |-> t, what |-> "step", step |-> _current_step, about |-> _message])
    /\ UNCHANGED <<nested, reportVars>>

(* The report is flushed (log_done: nothing comes up after that), and the  *)
(* process ends.                                                           *)
Flush(t) ==
    /\ _current_step = Steps /\ Moves(t, "report", "abort")
    /\ UNCHANGED <<nested, reportVars, streamVars>>

Abort(t) ==
    /\ Moves(t, "abort", "none") /\ aborted' = TRUE
    /\ UNCHANGED <<nested, _first_error_tid, _message, recursive_error_count, _current_step, begun,
                   streamVars>>

(* An error inside: the call that fails never returns.                     *)
Fail(t) ==
    /\ at[t] \in {"copy", "report", "print"}
    /\ at' = [at EXCEPT ![t] = "enter"] /\ nested' = [nested EXCEPT ![t] = TRUE]
    /\ UNCHANGED <<reportVars, streamVars>>

Reports(t) ==
    \/ Enter(t) \/ Cas(t) \/ Store(t) \/ CopyDetail(t) \/ Also(t)
    \/ Recursive(t) \/ TooMany(t) \/ Again(t) \/ Step(t) \/ PrintStep(t) \/ Flush(t) \/ Abort(t)

-----------------------------------------------------------------------------
(* One thread writes the report, about the error that came first and not   *)
(* about one of its own making; no step begins twice, however often the    *)
(* report is entered; and the process ends with every step begun, or after *)
(* too many errors inside (VMError.cpp:76-147, 150-183).                   *)
ReportSound ==
    /\ \A i \in DOMAIN file : file[i].what = "step" =>
          file[i].by = _first_error_tid /\ file[i].about = <<_first_error_tid, FALSE>>
    /\ \A i \in DOMAIN begun : begun[i] = i
    /\ aborted => Len(begun) = Steps \/ recursive_error_count > MaxRecursive

(* Once a thread is in report_and_die the process ends, although other     *)
(* threads sleep in there and log lines hold the lock of the stream        *)
(* (VMError.cpp:94-97).                                                   *)
ErrorEndsProcess == (\E t \in Threads : at[t] # "none") ~> aborted
=============================================================================
