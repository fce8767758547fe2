--------------------------- MODULE BackendContract ---------------------------
(***************************************************************************)
(* What MiningBackend::hash_range promises its callers (src/src/backend.rs) *)
(* and the selftest verifies (src/src/selftest.rs): one call at a time,    *)
(* each over the nonces from 0 up to a limit.  GpuPipes and CpuPool        *)
(* implement it.                                                           *)
(***************************************************************************)
EXTENDS Naturals

CONSTANTS
  Width,     \* 2^32: a nonce is a u32
  Limits,    \* the ends of the ranges swept; never the last nonce
  Targets,   \* which nonces meet a target: the sets of solutions met
  MaxCalls   \* bound: calls of hash_range

ASSUME ContractAssumption ==
  Width \in Nat \ {0} /\ Limits \subseteq 0 .. Width - 1
  /\ Targets \subseteq SUBSET (0 .. Width - 1) /\ MaxCalls \in Nat

VARIABLES
  calls,     \* calls so far
  busy,      \* a call is under way
  job,       \* its range, and the nonces whose hash meets its target
  cancel,    \* the cancel flags that are up, of "stop" and "new_job"
  sick,      \* the device has faulted and was not rebuilt since
  result     \* of the last call; "open" while busy

contractVars == <<calls, busy, job, cancel, sick, result>>

Nonce == 0 .. Width - 1
Job == [limit : Limits, sols : Targets]
NoNonce == Width
None == [kind |-> "none", nonce |-> NoNonce]
Fault == [kind |-> "fault", nonce |-> NoNonce]
Open == [kind |-> "open", nonce |-> NoNonce]
Find(n) == [kind |-> "found", nonce |-> n]

NoCall ==
  /\ calls = 0 /\ busy = FALSE /\ cancel = {} /\ sick = FALSE /\ result = None
  /\ job \in [limit : {0}, sols : {{}}]

\* A caller starts a sweep; its flags may be up already.
StartCall(j) ==
  /\ ~busy /\ calls < MaxCalls
  /\ calls' = calls + 1 /\ busy' = TRUE /\ job' = j /\ result' = Open
  /\ cancel' \in SUBSET {"stop", "new_job"}

\* The reader raises new_job, or stop is set: shutdown, or a CPU worker's find.
RaiseFlag ==
  /\ busy
  /\ \E f \in {"stop", "new_job"} \ cancel : cancel' = cancel \cup {f}

\* The verdict of eval_backend on what a call returned: a find is of this very
\* job and within its range; nothing found means that nothing is there, unless
\* the sweep was called off; an error means a device fault.
Verified(r) ==
  \/ r.kind = "found" /\ r.nonce \in job.sols /\ r.nonce < job.limit
  \/ r = None /\ (cancel # {} \/ \A n \in job.sols : n >= job.limit)
  \/ r = Fault /\ sick

\* hash_range returns r.
Return(r) == busy /\ busy' = FALSE /\ result' = r

Call == (\E j \in Job : StartCall(j)) /\ UNCHANGED sick
Flag == RaiseFlag /\ UNCHANGED <<calls, busy, job, sick, result>>
Answer ==
  /\ \E r \in {None, Fault} \cup {Find(n) : n \in Nonce} : Verified(r) /\ Return(r)
  /\ UNCHANGED <<calls, job, cancel, sick>>
\* The device fails, or is rebuilt.
Device == sick' = ~sick /\ UNCHANGED <<calls, busy, job, cancel, result>>

ContractSpec == NoCall /\ [][Call \/ Flag \/ Answer \/ Device]_contractVars
=============================================================================
