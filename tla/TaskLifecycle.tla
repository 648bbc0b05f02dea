---------------------------- MODULE TaskLifecycle ----------------------------
(***************************************************************************)
(* What an offline download promises: a task is pending, runs, is retried  *)
(* or decided; it puts at most one file into the drive, only while it      *)
(* runs; it is completed exactly when that file is there, and a decision   *)
(* is never taken back.  No queues, workers or redeliveries.               *)
(***************************************************************************)
EXTENDS Naturals

CONSTANT Tasks

VARIABLES state, saved      \* per task: its status, the files it made

Init ==
    /\ state = [t \in Tasks |-> "none"]
    /\ saved = [t \in Tasks |-> 0]

Move(t, from, to) ==
    /\ state[t] \in from
    /\ state' = [state EXCEPT ![t] = to]
    /\ UNCHANGED saved

Submit(t) == Move(t, {"none"}, "pending")
Reject(t) == Move(t, {"pending"}, "failed")
Start(t)  == Move(t, {"pending", "retrying"}, "running")
Finish(t) == saved[t] = 1 /\ Move(t, {"running"}, "completed")
Retry(t)  == saved[t] = 0 /\ Move(t, {"running"}, "retrying")
Fail(t)   == saved[t] = 0 /\ Move(t, {"running"}, "failed")

Save(t) ==
    /\ state[t] = "running"
    /\ saved[t] = 0
    /\ saved' = [saved EXCEPT ![t] = 1]
    /\ UNCHANGED state

Next == \E t \in Tasks :
    Submit(t) \/ Reject(t) \/ Start(t) \/ Save(t) \/ Finish(t) \/ Retry(t) \/ Fail(t)

Spec == Init /\ [][Next]_<<state, saved>>

=============================================================================
