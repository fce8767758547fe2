------------------------------- MODULE Services -------------------------------
(***************************************************************************)
(* The statistics server inside the miner's process, under the service     *)
(* manager: they share the stop flag, and the server lives and dies with   *)
(* the process.                                                            *)
(***************************************************************************)
EXTENDS StatsServer

VARIABLES host, status, service, restarts, complete, failed, operator
Host == INSTANCE ServiceHost
processVars == <<host, status, service, restarts, complete, failed, operator>>
vars == <<stop, statsVars, processVars>>

Init == StatsInit /\ Host!HostInit

Serving == StatsNext /\ UNCHANGED <<stop, processVars>>
Operating ==
  /\ Host!Install \/ Host!Start \/ Host!StopControl \/ Host!Uninstall
  /\ UNCHANGED statsVars
Restarting == Host!Restart /\ UNCHANGED statsVars
\* run_mining connects, binds the statistics port and mines.
Starting == (Host!Mines /\ Bind) \/ (Host!StartFails /\ Unbind)
Stopping == Host!Returns /\ Unbind
Vanishing == (Host!MiningFails \/ Host!Crashes) /\ Unbind

Next == Serving \/ Operating \/ Restarting \/ Starting \/ Stopping \/ Vanishing

\* The thread, the body and the manager run; clients, clock and operator need not.
Spec ==
  /\ Init /\ [][Next]_vars
  /\ WF_vars(Thread /\ UNCHANGED <<stop, processVars>>)
  /\ WF_vars(Restarting) /\ WF_vars(Starting) /\ WF_vars(Stopping)

-----------------------------------------------------------------------------
(* Every client that connects is answered, unless the miner is stopped or its
   process ends: a client that drips its request for ever holds the only thread
   no longer than the cap on a request lets it. *)
EveryClientServed == \A c \in Clients : Waiting(c) ~> answer[c] # "none" \/ stop

(* A service whose every setting the manager took is started again after a
   crash, the GPU watchdog's exit and an error of the miner's body, before it mines
   or after, unless the operator stops or removes it. *)
ComesBack ==
  complete /\ operator = "up" /\ host = "down" ~> host = "starting" \/ operator = "stopped"
=============================================================================
