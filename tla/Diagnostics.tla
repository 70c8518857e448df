---------------------------- MODULE Diagnostics ----------------------------
(***************************************************************************)
(* Log lines and error reports on one stream: threads log, an assertion    *)
(* fails in the line buffer or anywhere else, and the process ends.        *)
(***************************************************************************)
EXTENDS LogStream, VMError

vars == <<streamVars, line, errVars>>

Init == StreamInit /\ LogInit /\ ErrInit

(* A thread that runs: not in report_and_die.                              *)
Runs(t) == ~aborted /\ at[t] = "none"

Logs(t)    == Runs(t) /\ LogPrints(t)  /\ UNCHANGED errVars
Outputs(t) == Runs(t) /\ LogOutputs(t) /\ UNCHANGED errVars

(* An assertion fails: the one in the line buffer, or one of the code that *)
(* the thread runs while it has no line to write.                          *)
Asserts(t) ==
    /\ Runs(t) /\ line[t].pc \in {"none", "open", "failed"}
    /\ Raise(t) /\ UNCHANGED line

Reporting(t) == ~aborted /\ Reports(t) /\ UNCHANGED line
Failing(t)   == ~aborted /\ Fail(t)    /\ UNCHANGED line

Next == \E t \in Threads : Logs(t) \/ Outputs(t) \/ Asserts(t) \/ Reporting(t) \/ Failing(t)

(* A thread that writes a line goes on with it, one in report_and_die goes *)
(* on with the report; nothing says that a thread logs or fails.  The      *)
(* destructor of a line follows its last text.                             *)
Fairness == \A t \in Threads :
    WF_vars(Outputs(t)) /\ WF_vars(Reporting(t)) /\ WF_vars(Asserts(t) /\ line[t].pc = "failed")

Spec == Init /\ [][Next]_vars /\ Fairness
=============================================================================
