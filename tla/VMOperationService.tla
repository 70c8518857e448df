-------------------------- MODULE VMOperationService --------------------------
(***************************************************************************)
(* What VMThread::execute promises its callers (VMThread.hpp: "send a      *)
(* VM_Operation to the VMThread and wait until it has completed"): the     *)
(* operation of a requester is evaluated exactly once between the call and *)
(* its return, and the operations of the requesters are evaluated one at a *)
(* time.  VMThread implements it with a one-slot mailbox and a monitor.    *)
(***************************************************************************)
CONSTANT Requesters

VARIABLE status   \* status[r]: how far the current call of r has come

Stage == {"idle", "requested", "running", "done"}

TypeOK == status \in [Requesters -> Stage]

Init == status = [r \in Requesters |-> "idle"]

Request(r) ==
    /\ status[r] = "idle"
    /\ status' = [status EXCEPT ![r] = "requested"]

Start(r) ==
    /\ status[r] = "requested"
    /\ \A q \in Requesters : status[q] # "running"
    /\ status' = [status EXCEPT ![r] = "running"]

Finish(r) ==
    /\ status[r] = "running"
    /\ status' = [status EXCEPT ![r] = "done"]

Return(r) ==
    /\ status[r] = "done"
    /\ status' = [status EXCEPT ![r] = "idle"]

Next == \E r \in Requesters :
            Request(r) \/ Start(r) \/ Finish(r) \/ Return(r)

Spec == Init /\ [][Next]_status

(* Every call that is made is served and returns.                          *)
Fairness == \A r \in Requesters :
                /\ SF_status(Start(r))
                /\ WF_status(Finish(r))
                /\ WF_status(Return(r))

LiveSpec == Spec /\ Fairness
=============================================================================
