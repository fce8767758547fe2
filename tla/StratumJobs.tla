----------------------------- MODULE StratumJobs -----------------------------
(***************************************************************************)
(* The job slot shared by the reader and the mining loop, and what         *)
(* dispatch_frame of src/src/stratum/client.rs does to it on a             *)
(* mining.notify.  A job is [id, prev]: its job_id and the block it builds *)
(* on; the rest of the template is data no decision depends on.            *)
(***************************************************************************)
EXTENDS Naturals

CONSTANTS
  Jobs,   \* the jobs a pool may push
  NoJob   \* the empty slot (None)

\* A published job with the extranonce1 it was paired with.  "from" is a
\* history field: the session whose socket delivered the job.
StratumJob == [job : Jobs, xn1 : Nat, from : Nat]

ASSUME JobsAssumption ==
  /\ \A j \in Jobs : j = [id |-> j.id, prev |-> j.prev]
  /\ Jobs # {}
  /\ NoJob \notin StratumJob

Published(j, x, s) == [job |-> j, xn1 |-> x, from |-> s]

\* Mutant: the id comparison is dropped.
JobChangedNever(old, j) == old = NoJob

\* The slot holds another job_id: the staleness clock advances.
JobChanged(old, j) == old = NoJob \/ old.job.id # j.id

\* The slot holds a job on another block: the sweep under way is preempted.
PrevChanged(old, j) == old = NoJob \/ old.job.prev # j.prev
=============================================================================
