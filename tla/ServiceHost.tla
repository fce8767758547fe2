----------------------------- MODULE ServiceHost ------------------------------
(***************************************************************************)
(* The miner as a Windows service (winsvc.rs): what install registers, the *)
(* life of the process under the service control manager, and how it ends: *)
(* returning from the miner's body, by an error of it, by the GPU          *)
(* watchdog's exit(17), or by a crash.                                     *)
(* The manager is external.                                                *)
(***************************************************************************)
VARIABLES
  stop,          \* the flag the control handler sets
  host,          \* "down", "starting" (connecting), or "mining"
  status,        \* what the manager was last told: "Stopped" or "Running"
  service,       \* "absent", "installed", or "deleted" while its process lives
  restarts,      \* the ends after which the manager restarts the service
  complete,      \* history: the manager took every setting of install
  failed,        \* the process ended in a way the manager calls a failure
  operator       \* "up" or "stopped": what the operator asked for last

HostInit ==
  /\ stop = FALSE /\ host = "down" /\ status = "Stopped"
  /\ service = "absent" /\ restarts = {} /\ complete = FALSE /\ failed = FALSE
  /\ operator = "stopped"

-----------------------------------------------------------------------------
\* install: the service is created; the failure actions may be refused, which
\* fails install but leaves the service; the flag for errors may be refused too.
AskedForCrash == {"crash"}            \* mutant: the flag is never asked for
Asked == {"crash", "error"}
Install ==
  /\ service = "absent"
  /\ service' = "installed"
  /\ restarts' \in {{}, {"crash"}, Asked} /\ complete' = (restarts' = Asked)
  /\ UNCHANGED <<stop, host, status, failed, operator>>

\* sc start, or a reboot: the service is of type AutoStart.
Begin ==
  /\ service = "installed" /\ host = "down"
  /\ host' = "starting" /\ status' = "Running" /\ stop' = FALSE /\ failed' = FALSE
Start == Begin /\ operator' = "up" /\ UNCHANGED <<service, restarts, complete>>
\* The manager restarts what failed, whatever the operator asked for.
Restart == failed /\ Begin /\ UNCHANGED <<service, restarts, complete, operator>>

\* The control handler: it sets the flag and reports nothing.
StopControl ==
  /\ status = "Running" /\ ~stop
  /\ stop' = TRUE /\ operator' = "stopped"
  /\ UNCHANGED <<host, status, service, restarts, complete, failed>>

\* uninstall: a best-effort stop, then the registration is deleted.
Uninstall ==
  /\ service = "installed"
  /\ stop' = (stop \/ host # "down")
  /\ operator' = "stopped" /\ failed' = FALSE
  /\ service' = IF host = "down" THEN "absent" ELSE "deleted"
  /\ UNCHANGED <<host, status, restarts, complete>>

-----------------------------------------------------------------------------
\* The end of the process, and the manager's verdict on it.
Over(how) ==
  /\ host' = "down" /\ status' = "Stopped" /\ UNCHANGED <<stop, restarts, complete, operator>>
  /\ service' = IF service = "deleted" THEN "absent" ELSE service
  /\ failed' = (service = "installed" /\ how \in restarts)

\* run_under_scm reports Stopped with the body's result.
Returns == host = "mining" /\ stop /\ Over("ok")
\* The pool cannot be reached, or the statistics port is taken.
StartFails == host = "starting" /\ Over("error")
Mines ==
  /\ host = "starting" /\ host' = "mining"
  /\ UNCHANGED <<stop, status, service, restarts, complete, failed, operator>>
\* drive returns an error (the backend does not come up), or the GPU watchdog
\* exits with 17: install asks for the flag because of it, so it is no crash here.
MiningFails == host = "mining" /\ Over("error")
Crashes == host # "down" /\ Over("crash")
=============================================================================
