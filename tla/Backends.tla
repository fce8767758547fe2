------------------------------- MODULE Backends -------------------------------
(***************************************************************************)
(* The backend the miner was started with: one of the two GPU pipelines or *)
(* the CPU pool, each of which is to keep the contract of hash_range.      *)
(***************************************************************************)
EXTENDS GpuPipes, CpuPool

VARIABLE cpu   \* the backend is the CPU's

vars == <<contractVars, pipeVars, poolVars, cpu>>

Init == NoCall /\ PipesInit /\ PoolInit /\ cpu \in BOOLEAN

Idle == ~busy /\ calls = MaxCalls /\ UNCHANGED vars

Next ==
  \/ cpu /\ PoolNext /\ UNCHANGED <<pipeVars, cpu>>
  \/ ~cpu /\ PipesNext /\ UNCHANGED <<poolVars, cpu>>
  \/ Idle

Spec == Init /\ [][Next]_vars

\* The host's thread and the CPU's run on, and the device works off its
\* streams: one that hangs instead is GpuStall's.
FairSpec ==
  /\ Spec
  /\ WF_vars(~cpu /\ Host /\ UNCHANGED <<poolVars, cpu>>)
  /\ \A p \in Pipe : WF_vars(~cpu /\ Run(p) /\ UNCHANGED <<poolVars, cpu>>)
  /\ \A t \in Threads :
       WF_vars(cpu /\ (Check(t) \/ Take(t) \/ Try(t)) /\ UNCHANGED <<pipeVars, cpu>>)
  /\ WF_vars(cpu /\ PoolLeave /\ UNCHANGED <<pipeVars, cpu>>)
-----------------------------------------------------------------------------
(* Properties.                                                             *)

Contract == INSTANCE BackendContract
  WITH calls <- calls, busy <- busy, job <- job, cancel <- cancel, sick <- sick,
       result <- result

\* Every backend keeps the contract of hash_range, across calls that were called
\* off with launches in flight, faults and rebuilds: a find is of the header of
\* its own call, nothing found means that nothing is there.
KeepsContract == Contract!ContractSpec

\* A raised flag ends a sweep within one launch (backend.rs): at most one more is
\* made after it, however the flag and the host interleave.
PromptCancel == late <= 1

\* A call returns: the range is exhausted even at the top of the nonce space,
\* and no wait is for a launch that will not run.
CallReturns == busy ~> ~busy
=============================================================================
