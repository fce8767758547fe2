---------------------------- MODULE MCMiningLoop ----------------------------
(* MiningLoop on a small instance: two jobs on one block, a third on the   *)
(* next.  The second has a template that cannot be built, and the second   *)
(* session an extranonce1 that is too long for any job.                    *)
EXTENDS MiningLoop

ThreeJobs == {[id |-> 1, prev |-> 1], [id |-> 2, prev |-> 1], [id |-> 3, prev |-> 2]}

Refused == {p \in ThreeJobs \X (1 .. 3) : p[1].id = 2 \/ p[2] = 2}
=============================================================================
