-------------------------- MODULE MCStratumSession --------------------------
(* StratumSession on a small instance.  One job is enough: what a session   *)
(* publishes is told apart by its extranonce1; MiningLoop has several jobs. *)
EXTENDS StratumSession

OneJob == {[id |-> 1, prev |-> 1]}
=============================================================================
