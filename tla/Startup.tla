------------------------------- MODULE Startup -------------------------------
(***************************************************************************)
(* The start of the mining processes of one machine, one per card, from    *)
(* the options to the mining loop (run_mining and drive of                 *)
(* src/src/main.rs): the choice of the backend, the auto-tune sweep of     *)
(* src/src/backends/cuda.rs with the cache file the processes share, and   *)
(* the bounded benchmark of src/src/bench.rs.  A process that ends is      *)
(* started again by its launcher; a card may be exchanged while it is down.*)
(***************************************************************************)
EXTENDS Autotune, Options

CONSTANTS
  Rigs,         \* the processes; each runs with --device of its own
  Cards,        \* names of cards
  Setups,       \* builds, configuration files, the rigs' flags, drivers and rates
  Budget, Cap   \* bench: the budget and the hard cap

\* Every card has a name; a rate is a number.
ASSUME StartupAssumption ==
  /\ Budget \in Nat /\ Cap \in Nat /\ Budget <= Cap
  /\ Cards # {} /\ "" \notin Cards
  /\ \A s \in Setups : \A r \in Rigs : s.rigs[r].rates \subseteq Nat

VARIABLES
  setup,     \* of this machine
  card,      \* the name of the card at each index
  cache,     \* the cache file
  won,       \* history: the records of completed sweeps
  pc,        \* where each process is
  name,      \* the card's name as the process reads it
  table,     \* the measurements of its sweep, and the best so far
  geom,      \* the geometry it will launch with
  cached,    \* geom comes from the cache
  backend,   \* the one selected
  elapsed,   \* of its benchmark
  stopping,  \* its stop flag
  trouble    \* failed starts, crashes and exchanged cards; setup.mishaps bounds them

vars == <<setup, card, cache, won, pc, name, table, geom, cached, backend, elapsed,
          stopping, trouble>>

Rig(r) == setup.rigs[r]
Opts(r) == Merged(Rig(r).cli, setup.file, Default(setup.built))

NoTable == [all |-> <<>>, best |-> Nothing]

Init ==
  /\ setup \in Setups
  /\ card = [r \in Rigs |-> CHOOSE c \in Cards : TRUE]
  /\ cache = NoFile /\ won = {}
  /\ pc = [r \in Rigs |-> IF Rig(r).used THEN "down" ELSE "unused"]
  /\ name = [r \in Rigs |-> ""] /\ table = [r \in Rigs |-> NoTable]
  /\ geom = [r \in Rigs |-> NoGeometry] /\ cached = [r \in Rigs |-> FALSE]
  /\ backend = [r \in Rigs |-> "none"] /\ elapsed = [r \in Rigs |-> 0]
  /\ stopping = [r \in Rigs |-> FALSE] /\ trouble = 0

Goto(r, l) == pc' = [pc EXCEPT ![r] = l]

\* The process ends, with all it had in memory.
Exit(r, l) ==
  /\ Goto(r, l)
  /\ name' = [name EXCEPT ![r] = ""] /\ table' = [table EXCEPT ![r] = NoTable]
  /\ geom' = [geom EXCEPT ![r] = NoGeometry] /\ cached' = [cached EXCEPT ![r] = FALSE]
  /\ backend' = [backend EXCEPT ![r] = "none"] /\ elapsed' = [elapsed EXCEPT ![r] = 0]
  /\ stopping' = [stopping EXCEPT ![r] = FALSE]
Keep == UNCHANGED <<name, table, geom, cached, backend, elapsed, stopping>>

\* Options are checked before any socket opens; a refusal repeats at every start.
Launch(r) ==
  /\ pc[r] = "down"
  /\ Goto(r, IF Valid(Opts(r), Rig(r)) THEN "connect" ELSE "refused")
  /\ Keep /\ UNCHANGED <<setup, card, cache, won, trouble>>

\* No pool answers, or the statistics port is taken or its address is not one.
SetupFails(r) ==
  /\ pc[r] = "connect" /\ trouble < setup.mishaps /\ trouble' = trouble + 1
  /\ Exit(r, "down") /\ UNCHANGED <<setup, card, cache, won>>

\* drive: the arm of the chosen backend, or the first arm of auto.
FirstArm(r) ==
  LET b == Opts(r).backend
  IN  IF b = "auto" THEN IF "cuda" \in setup.built THEN "geometry" ELSE "opencl"
      ELSE IF b = "cpu" THEN "cpu"
      ELSE IF b \notin setup.built THEN "down"
      ELSE IF b = "cuda" THEN "geometry" ELSE "opencl"

Drive(r) ==
  /\ pc[r] = "connect"
  /\ IF FirstArm(r) = "down" THEN Exit(r, "down") ELSE Goto(r, FirstArm(r)) /\ Keep
  /\ UNCHANGED <<setup, card, cache, won, trouble>>

(***************************************************************************)
(* resolve_cuda_geometry and auto_tune.                                    *)
(***************************************************************************)
\* What load_cached_for_device and auto_tune call a card they cannot name.
Unnamed == ""
UnknownCard == "<unknown>"

WithGeometry(r, g, fromCache) ==
  /\ geom' = [geom EXCEPT ![r] = g] /\ cached' = [cached EXCEPT ![r] = fromCache]

\* The geometry without a sweep, or after a failed one.
CachedOrFlags(r, card_) ==
  LET g == CachedFor(cache, r, card_)
  IN  IF g # NoGeometry /\ ~GeometrySetExplicitly(Rig(r).cli)
      THEN WithGeometry(r, g, TRUE)
      ELSE WithGeometry(r, Opts(r).geometry, FALSE)

\* The name of a card; reading it may fail.
ReadName(r, failed) == {card[r], failed}

\* A context is created outside of catch_unwind: a driver that panics there
\* ends the process.
Resolve(r) ==
  /\ pc[r] = "geometry"
  /\ IF Rig(r).cuda = "panics" THEN Exit(r, "down")
     ELSE IF ShouldAutoTune(Rig(r))
     THEN /\ \E n \in ReadName(r, UnknownCard) : name' = [name EXCEPT ![r] = n]
          /\ Goto(r, "tune") /\ UNCHANGED <<table, geom, cached, backend, elapsed, stopping>>
     ELSE /\ \E n \in ReadName(r, Unnamed) : CachedOrFlags(r, n)
          /\ Goto(r, "cuda") /\ UNCHANGED <<name, table, backend, elapsed, stopping>>
  /\ UNCHANGED <<setup, card, cache, won, trouble>>

\* benchmark_geometry of the next candidate: a rate, which may be wrong when
\* launches fail, or no backend.  The stop flag is not looked at, and a panic
\* of CudaBackend::new is not caught here.
Measured(r) == IF Rig(r).cuda = "works" THEN Rig(r).rates ELSE {0}
Measure(r) ==
  /\ pc[r] = "tune" /\ Len(table[r].all) < Len(Candidates)
  /\ IF Rig(r).cuda = "panics late" THEN Exit(r, "down")
     ELSE /\ \E v \in Measured(r) :
               LET m == [geom |-> Candidates[Len(table[r].all) + 1], rate |-> v]
               IN  table' = [table EXCEPT ![r] = [all |-> Append(@.all, m),
                                                  best |-> Better(@.best, m)]]
          /\ UNCHANGED <<pc, name, geom, cached, backend, elapsed, stopping>>
  /\ UNCHANGED <<setup, card, cache, won, trouble>>

Winner(r) == table[r].best
Conclude(r) ==
  /\ pc[r] = "tune" /\ Len(table[r].all) = Len(Candidates)
  /\ IF Winner(r) = Nothing
     THEN /\ \E n \in ReadName(r, Unnamed) : CachedOrFlags(r, n)
          /\ Goto(r, "cuda") /\ UNCHANGED won
     ELSE /\ WithGeometry(r, Winner(r).geom, FALSE)
          /\ won' = won \cup {Record(r, name[r], Winner(r).geom)}
          /\ Goto(r, "save")
  /\ UNCHANGED <<setup, card, cache, name, table, backend, elapsed, stopping, trouble>>

\* save_cached: the file is truncated, then written.  A second writer that has
\* truncated it too writes over the first one's text, which may leave a tail.
Truncate(r) ==
  /\ pc[r] = "save"
  /\ \/ cache' = NoFile /\ Goto(r, "write")
     \/ UNCHANGED cache /\ Goto(r, "cuda")      \* no directory, no permission
  /\ Keep /\ UNCHANGED <<setup, card, won, trouble>>

Written(r) ==
  {Record(r, name[r], geom[r])} \cup (IF cache = NoFile THEN {} ELSE {NoFile})
Write(r) ==
  /\ pc[r] = "write" /\ cache' \in Written(r) /\ Goto(r, "cuda")
  /\ Keep /\ UNCHANGED <<setup, card, won, trouble>>

(***************************************************************************)
(* The backends in turn.                                                   *)
(***************************************************************************)
Selected(r, b) ==
  /\ backend' = [backend EXCEPT ![r] = b] /\ elapsed' = [elapsed EXCEPT ![r] = 0]
  /\ Goto(r, IF Rig(r).noSuggest THEN "mine" ELSE "bench")
  /\ table' = [table EXCEPT ![r] = NoTable] /\ UNCHANGED <<name, stopping>>

\* A forced backend that does not come up ends the process; auto tries the next.
NextArm(r, l) ==
  IF Opts(r).backend = "auto" THEN Goto(r, l) /\ Keep ELSE Exit(r, "down")

\* CudaBackend::new, its panics caught.
InitCuda(r) ==
  /\ pc[r] = "cuda"
  /\ IF Rig(r).cuda = "works" THEN Selected(r, "cuda") /\ UNCHANGED <<geom, cached>>
     ELSE NextArm(r, "opencl")
  /\ UNCHANGED <<setup, card, cache, won, trouble>>

\* OpenclBackend::new, always with the geometry of the options.  Its panics
\* end the process either way.
InitOpencl(r) ==
  /\ pc[r] = "opencl"
  /\ IF "opencl" \in setup.built /\ Rig(r).opencl = "works"
     THEN Selected(r, "opencl") /\ WithGeometry(r, Opts(r).geometry, FALSE)
     ELSE IF Rig(r).opencl = "panics" THEN Exit(r, "down")
     ELSE NextArm(r, "fallback")
  /\ UNCHANGED <<setup, card, cache, won, trouble>>

UseCpu(r) ==
  /\ pc[r] \in {"cpu", "fallback"}
  /\ IF pc[r] = "cpu" \/ MayFallBackToCpu(Rig(r))
     THEN Selected(r, "cpu") /\ UNCHANGED <<geom, cached>>
     ELSE Exit(r, "down")
  /\ UNCHANGED <<setup, card, cache, won, trouble>>

(***************************************************************************)
(* maybe_suggest_difficulty: full sweeps until the budget is spent, the    *)
(* timer cuts one at the cap, or the stop flag is seen between two.  A     *)
(* panic in the backend ends the benchmark, not the process.               *)
(***************************************************************************)
BenchDies(r) == Exit(r, "down")   \* mutant: the panic is not caught
BenchPanics(r) == Goto(r, "mine") /\ Keep
Sweep(r, d) ==
  LET end == IF elapsed[r] + d < Cap THEN elapsed[r] + d ELSE Cap
      over == end = Cap \/ stopping[r] \/ end >= Budget
  IN  /\ elapsed' = [elapsed EXCEPT ![r] = IF over THEN 0 ELSE end]
      /\ Goto(r, IF over THEN "mine" ELSE "bench")
      /\ UNCHANGED <<name, table, geom, cached, backend, stopping>>
Bench(r) ==
  /\ pc[r] = "bench"
  /\ IF stopping[r] THEN Goto(r, "mine") /\ Keep
     ELSE IF Rig(r).sweepsPanic THEN BenchPanics(r)
     ELSE \E d \in 1 .. Cap : Sweep(r, d)
  /\ UNCHANGED <<setup, card, cache, won, trouble>>

\* run_stratum_full returns once it sees the stop flag.
Finish(r) ==
  /\ pc[r] = "mine" /\ stopping[r] /\ Exit(r, "stopped")
  /\ UNCHANGED <<setup, card, cache, won, trouble>>

(***************************************************************************)
(* The surroundings.                                                       *)
(***************************************************************************)
\* Ctrl-C at any time; no earlier step looks at the flag.
CtrlC(r) ==
  /\ pc[r] \in {"bench", "mine"} /\ ~stopping[r]
  /\ stopping' = [stopping EXCEPT ![r] = TRUE]
  /\ UNCHANGED <<setup, card, cache, won, pc, name, table, geom, cached, backend, elapsed,
                 trouble>>

\* A crash, or the exit of a watchdog.
Crash(r) ==
  /\ pc[r] \notin {"unused", "down", "refused", "stopped"}
  /\ trouble < setup.mishaps /\ trouble' = trouble + 1
  /\ Exit(r, "down") /\ UNCHANGED <<setup, card, cache, won>>

Exchange(r) ==
  /\ pc[r] = "down" /\ trouble < setup.mishaps /\ trouble' = trouble + 1
  /\ \E n \in Cards \ {card[r]} : card' = [card EXCEPT ![r] = n]
  /\ Keep /\ UNCHANGED <<setup, cache, won, pc>>

Process(r) ==
  \/ Launch(r) \/ Drive(r) \/ Resolve(r) \/ Measure(r) \/ Conclude(r)
  \/ Truncate(r) \/ Write(r) \/ InitCuda(r) \/ InitOpencl(r) \/ UseCpu(r)
  \/ Bench(r) \/ Finish(r)

Settled == \A r \in Rigs : pc[r] \in {"unused", "refused", "stopped"}
Done == Settled /\ UNCHANGED vars

Next ==
  \/ \E r \in Rigs : Process(r) \/ SetupFails(r) \/ CtrlC(r) \/ Crash(r) \/ Exchange(r)
  \/ Done

Spec == Init /\ [][Next]_vars
FairSpec == Spec /\ \A r \in Rigs : WF_vars(Process(r))

(* A geometry taken from the cache was the winner of a completed sweep on the
   card that is at this index now, whatever was exchanged, crashed, or written
   by the other process in between. *)
CachedIsOwn == \A r \in Rigs : cached[r] => Record(r, card[r], geom[r]) \in won

(* After a sweep with any usable measurement the process launches with the best
   one, saved or not, whichever order the candidates were measured in. *)
BestWins ==
  \A r \in Rigs : LET all == table[r].all IN
    pc[r] \in {"save", "write", "cuda"} /\ (\E i \in DOMAIN all : all[i].rate > 0) =>
      \E i \in DOMAIN all :
        /\ all[i].geom = geom[r] /\ all[i].rate > 0
        /\ \A j \in DOMAIN all : all[j].rate <= all[i].rate
        /\ geom[r] = PickBest(Reverse(all)).geom

(* A process hashes on the CPU backend only if the operator said so, and then
   neither a second CPU pool nor the GPU watchdog runs beside it. *)
NoSilentCpu ==
  \A r \in Rigs : backend[r] = "cpu" =>
    /\ \/ Opts(r).backend = "cpu"
       \/ Opts(r).backend = "auto" /\ Rig(r).allowCpuFallback
    /\ CpuPoolShare("cpu", Opts(r)) = 0 /\ ~GpuWatched("cpu", Rig(r))

Works(r, b) ==
  b \in setup.built /\ (IF b = "cuda" THEN Rig(r).cuda ELSE Rig(r).opencl) = "works"
\* CUDA fails in a way that auto gets over.
CudaFails(r) ==
  \/ "cuda" \notin setup.built
  \/ Rig(r).cuda = "errors"
  \/ Rig(r).cuda = "panics late" /\ ~ShouldAutoTune(Rig(r))
CpuIsLast(r) ==
  /\ Rig(r).allowCpuFallback
  /\ \/ "opencl" \notin setup.built
     \/ Rig(r).opencl = "errors"
Runnable(r) ==
  LET b == Opts(r).backend
  IN  /\ Rig(r).used /\ Valid(Opts(r), Rig(r))
      /\ \/ b = "cpu"
         \/ b \in {"cuda", "opencl"} /\ Works(r, b)
         \/ /\ b = "auto"
            /\ \/ Works(r, "cuda")
               \/ CudaFails(r) /\ Works(r, "opencl")
               \/ CudaFails(r) /\ CpuIsLast(r)

(* With valid options and a backend that works, every start ends in the mining
   loop: neither a failed sweep, an unwritable cache, a slow, stopped or
   panicking benchmark, nor the panic of a driver that was caught prevents it. *)
MiningStarts == \A r \in Rigs : pc[r] = "down" /\ Runnable(r) ~> pc[r] = "mine"

(* Cargo.toml and drive say that auto gets over a driver that panics: it falls
   back to OpenCL. *)
AutoFallsThrough ==
  \A r \in Rigs :
    pc[r] = "down" /\ Valid(Opts(r), Rig(r)) /\ Opts(r).backend = "auto" /\ Works(r, "opencl")
      ~> pc[r] = "mine"
=============================================================================
