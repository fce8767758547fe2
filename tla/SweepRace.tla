------------------------------ MODULE SweepRace ------------------------------
(***************************************************************************)
(* One launch of the mining loop (src/src/stratum/loop_stratum.rs): the    *)
(* nonce range is split between the GPU and the CPU workers                *)
(* (src/src/mining_config.rs); whoever is done first calls the others off. *)
(*                                                                         *)
(* A worker looks at the flags once in Block nonces (256); the GPU looks   *)
(* at them between kernel launches, of Slice nonces.  Which nonce solves   *)
(* is free: any block or slice may hold one.                               *)
(***************************************************************************)
EXTENDS Integers, FiniteSets

CONSTANTS
  Spans,     \* lengths of the nonce range
  Shares,    \* cpu_share, in tenths
  Threads,   \* cpu_threads
  Block,     \* nonces between two looks of a worker
  Slice      \* nonces of one kernel launch

ASSUME RaceAssumption ==
  /\ Spans \subseteq Nat \ {0} /\ Shares \subseteq 0 .. 10 /\ Threads \subseteq Nat
  /\ Block \in Nat \ {0} /\ Slice \in Nat \ {0}

VARIABLES
  range,      \* who sweeps what: GPU, and the workers 1, 2, ...
  pos,        \* the next nonce of each
  stop,       \* global stop flag
  newJob,     \* job-change preemption flag
  iterStop,   \* iter_stop: this launch's cancel flag
  winner,     \* cpu_winner: the first worker to find, or Nobody
  wpc,        \* worker: "poll", "hash", "done"
  gpc,        \* GPU thread: "boundary", "slice", "done"
  gpu,        \* gpu_result: "none" (Ok(None)), "found", "fault" (Err)
  outcome,    \* after the join: "open", then "gpu", "cpu" or "none"
  hits        \* history: workers whose range held a solving nonce they met

vars == <<range, pos, stop, newJob, iterStop, winner, wpc, gpc, gpu, outcome, hits>>

GPU == 0
Nobody == 0
Least(a, b) == IF a < b THEN a ELSE b
Most(a, b) == IF a > b THEN a ELSE b

\* The CPU pool's part of the span: rounded to nearest, at least one nonce, and
\* all but one at most unless the share is the whole.
CpuTotal(span, share) ==
  IF share = 10 THEN span
  ELSE Most(1, Least(span - 1, (2 * span * share + 10) \div 20))

\* partition_nonce_range: the GPU first, then n chunks of which the first few
\* are a nonce longer.
PartitionNonceRange(span, share, n) ==
  IF n = 0 \/ share = 0 THEN [s \in {GPU} |-> [from |-> 0, to |-> span]]
  ELSE LET cpu == CpuTotal(span, share)
           cut(w) == span - cpu + w * (cpu \div n) + Least(w, cpu % n)
       IN  [s \in 0 .. n |-> IF s = GPU THEN [from |-> 0, to |-> cut(0)]
                             ELSE [from |-> cut(s - 1), to |-> cut(s)]]

Workers == DOMAIN range \ {GPU}

\* A worker whose range is empty returns at once.
Init ==
  /\ \E span \in Spans, share \in Shares, n \in Threads :
       range = PartitionNonceRange(span, share, n)
  /\ pos = [s \in DOMAIN range |-> range[s].from]
  /\ stop = FALSE /\ newJob \in BOOLEAN /\ iterStop = FALSE
  /\ winner = Nobody /\ hits = {}
  /\ wpc = [w \in Workers |-> IF range[w].from = range[w].to THEN "done" ELSE "poll"]
  /\ gpc = "boundary" /\ gpu = "none" /\ outcome = "open"

\* found_for_template_id holds this template's id: set with the winner.
Found == winner # Nobody

\* The head of a block: pass the global stop on, or heed a cancel flag.
WPoll(w) ==
  /\ wpc[w] = "poll"
  /\ iterStop' = (iterStop \/ stop)
  /\ wpc' = [wpc EXCEPT ![w] = IF stop \/ iterStop \/ Found THEN "done" ELSE "hash"]
  /\ UNCHANGED <<range, pos, stop, newJob, winner, gpc, gpu, outcome, hits>>

\* Sweeper s has tried k nonces more, or all it had.
Swept(s, k) == pos' = [pos EXCEPT ![s] = Least(@ + k, range[s].to)]

\* Nothing is left for s after k nonces more.
LastOf(s, k) == pos[s] + k >= range[s].to

\* Mutant: a worker that runs out of nonces calls the launch off.
WMissCallsOff(w) ==
  /\ wpc[w] = "hash"
  /\ Swept(w, Block)
  /\ wpc' = [wpc EXCEPT ![w] = IF LastOf(w, Block) THEN "done" ELSE "poll"]
  /\ iterStop' = (iterStop \/ LastOf(w, Block))
  /\ UNCHANGED <<range, stop, newJob, winner, gpc, gpu, outcome, hits>>

\* A block without a share; the last one ends the worker.
WMiss(w) ==
  /\ wpc[w] = "hash"
  /\ Swept(w, Block)
  /\ wpc' = [wpc EXCEPT ![w] = IF LastOf(w, Block) THEN "done" ELSE "poll"]
  /\ UNCHANGED <<range, stop, newJob, iterStop, winner, gpc, gpu, outcome, hits>>

\* The winner slot after a find of w.
Claim(w) == IF winner = Nobody THEN w ELSE winner

\* A share: under the winner lock, the first find is kept and cancels the launch.
WHit(w) ==
  /\ wpc[w] = "hash"
  /\ hits' = hits \cup {w}
  /\ winner' = Claim(w)
  /\ iterStop' = TRUE
  /\ wpc' = [wpc EXCEPT ![w] = "done"]
  /\ UNCHANGED <<range, pos, stop, newJob, gpc, gpu, outcome>>

\* The one cancel flag the backend is given, besides newJob.
BackendStop == IF Workers = {} THEN stop ELSE iterStop

\* hash_range returns, or was never called: the launch is over for everyone.
GReturn(res) ==
  /\ gpu' = res /\ gpc' = "done"
  /\ iterStop' = TRUE

\* Between two slices (a GPU range that is empty has none).
GBoundary ==
  /\ gpc = "boundary"
  /\ IF BackendStop \/ newJob \/ pos[GPU] = range[GPU].to
       THEN GReturn("none") /\ UNCHANGED pos
       ELSE gpc' = "slice" /\ Swept(GPU, Slice) /\ UNCHANGED <<gpu, iterStop>>
  /\ UNCHANGED <<range, stop, newJob, winner, wpc, outcome, hits>>

\* A slice ends empty, with a share, or with a device error.
GSlice ==
  /\ gpc = "slice"
  /\ \/ gpc' = "boundary" /\ UNCHANGED <<gpu, iterStop>>
     \/ GReturn("found")
     \/ GReturn("fault")
  /\ UNCHANGED <<range, pos, stop, newJob, winner, wpc, outcome, hits>>

\* Mutant: a GPU fault discards the launch.
ResultOfFault == IF gpu = "found" THEN "gpu" ELSE IF gpu = "none" /\ Found THEN "cpu" ELSE "none"

\* What the launch found.
Result == IF gpu = "found" THEN "gpu" ELSE IF Found THEN "cpu" ELSE "none"

\* The scope joins; a GPU share is preferred to a CPU one.
Join ==
  /\ outcome = "open" /\ gpc = "done" /\ \A w \in Workers : wpc[w] = "done"
  /\ outcome' = Result
  /\ UNCHANGED <<range, pos, stop, newJob, iterStop, winner, wpc, gpc, gpu, hits>>

\* Ctrl-C and the reader thread.
Stop ==
  /\ outcome = "open" /\ ~stop /\ stop' = TRUE
  /\ UNCHANGED <<range, pos, newJob, iterStop, winner, wpc, gpc, gpu, outcome, hits>>

JobChange ==
  /\ outcome = "open" /\ ~newJob /\ newJob' = TRUE
  /\ UNCHANGED <<range, pos, stop, iterStop, winner, wpc, gpc, gpu, outcome, hits>>

Joined == outcome # "open" /\ UNCHANGED vars

Next == \/ \E w \in Workers : WPoll(w) \/ WMiss(w) \/ WHit(w)
        \/ GBoundary \/ GSlice \/ Join \/ Stop \/ JobChange \/ Joined

Spec == Init /\ [][Next]_vars

-----------------------------------------------------------------------------
(* Properties.                                                             *)

\* Each sweeper stays inside its own range.
TypeOK ==
  /\ range \in [DOMAIN range -> [from : Nat, to : Nat]] /\ GPU \in DOMAIN range
  /\ \A s \in DOMAIN range : pos[s] \in range[s].from .. range[s].to
  /\ stop \in BOOLEAN /\ newJob \in BOOLEAN /\ iterStop \in BOOLEAN
  /\ winner \in Workers \cup {Nobody} /\ hits \subseteq Workers
  /\ wpc \in [Workers -> {"poll", "hash", "done"}]
  /\ gpc \in {"boundary", "slice", "done"}
  /\ gpu \in {"none", "found", "fault"}
  /\ outcome \in {"open", "gpu", "cpu", "none"}

\* A share somebody met is never thrown away for nothing: a launch that reports
\* no find is one in which neither a worker nor the GPU found any, even when
\* the GPU faulted or the job changed under the workers.
FindNotLost ==
  outcome # "open" => (outcome = "none" <=> (hits = {} /\ gpu # "found"))

Given(s) == range[s].from .. range[s].to - 1

\* Whatever the share, the threads and the remainders, the ranges tile the span,
\* and a launch that found nothing, with no fault, shutdown or new job, has swept
\* the whole of the GPU's: workers that run out of nonces do not call it off.
SpanCovered ==
  outcome = "none" /\ gpu = "none" /\ ~stop /\ ~newJob =>
    \E span \in Spans : \A n \in 0 .. span :
      /\ Cardinality({s \in DOMAIN range : n \in Given(s)}) = IF n < span THEN 1 ELSE 0
      /\ n \in Given(GPU) => n < pos[GPU]
=============================================================================
