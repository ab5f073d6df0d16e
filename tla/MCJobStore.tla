----------------------------- MODULE MCJobStore -----------------------------
(***************************************************************************)
(* Small instances of the job store for TLC.                               *)
(***************************************************************************)
EXTENDS JobStore, TLC

\* Job ids and leases are random digests: nothing distinguishes two of them.
Digests == Permutations(JobIds) \cup Permutations(Leases)

\* Executor agents of one session are alike.
DigestsAndChildren == Digests \cup Permutations(Children)
=============================================================================
