---------------------------- MODULE WritableJobs ----------------------------
(***************************************************************************)
(* What one workspace promises about its writable (rescue) jobs: at most   *)
(* one is unfinished, each goes through its life once, and a durable stop  *)
(* decision ends a job that has not started as cancelled.                  *)
(*                                                                         *)
(* There are no files, locks, bindings or leases here.                     *)
(***************************************************************************)
CONSTANT Ids

VARIABLES
    status,     \* the status of each writable job, "unused" before it exists
    decided     \* the jobs with a durable stop decision

vars == <<status, decided>>

Unfinished == {"queued", "running", "cancelling"}
Ends       == {"succeeded", "failed", "cancelled"}

TypeOK ==
    /\ status \in [Ids -> Unfinished \cup Ends \cup {"unused"}]
    /\ decided \subseteq Ids

Init ==
    /\ status = [i \in Ids |-> "unused"]
    /\ decided = {}

Become(i, new) == status' = [status EXCEPT ![i] = new]
Keep == UNCHANGED decided
MayDecide(i) == decided' \in {decided, decided \cup {i}}

Reserve(i) ==
    /\ status[i] = "unused"
    /\ \A k \in Ids : status[k] \notin Unfinished
    /\ Become(i, "queued") /\ Keep

Decide(i) ==
    /\ status[i] = "queued"
    /\ decided' = decided \cup {i}
    /\ UNCHANGED status

Start(i) ==
    /\ status[i] = "queued" /\ i \notin decided
    /\ Become(i, "running") /\ Keep

BeginStop(i)  == status[i] = "running" /\ Become(i, "cancelling") /\ MayDecide(i)
StopFailed(i) == status[i] = "cancelling" /\ Become(i, "running") /\ Keep

Fail(i) ==
    /\ status[i] = "queued" /\ i \notin decided
    /\ Become(i, "failed") /\ Keep

Finish(i) ==
    /\ status[i] \in {"running", "cancelling"}
    /\ Become(i, "succeeded") \/ Become(i, "failed")
    /\ Keep

Cancel(i) ==
    /\ status[i] \in {"queued", "cancelling"}
    /\ Become(i, "cancelled") /\ MayDecide(i)

Next == \E i \in Ids :
    \/ Reserve(i) \/ Decide(i) \/ Start(i) \/ BeginStop(i) \/ StopFailed(i)
    \/ Fail(i) \/ Finish(i) \/ Cancel(i)

Spec == Init /\ [][Next]_vars
=============================================================================
