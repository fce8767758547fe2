# A TLA+ model of csd-pool-miner

This directory holds TLA+ modules for the CSD pool miner, the TLC configurations
that check them on small instances, and proofs that TLAPS checks for every value
of the constants. `PROJECT.json` ties every definition to the lines it models,
every property to a run and to a mutant that breaks it, and every hazard to the
properties that cover it. Paths below are relative to the repository (`src/` is
its root, so the crate's sources are `src/src/*.rs`).

1. [The system](#the-system)  2. [The modules](#the-modules)  3. [The runs](#the-runs)
4. [Fairness](#fairness)  5. [What is proved](#what-is-proved)
6. [Where code and text disagree](#where-code-and-text-disagree)
7. [What is not modelled](#what-is-not-modelled)  8. [Plan](#plan)

## The system

The miner is one process with one Stratum connection, one GPU and, optionally, a
pool of CPU workers. Its threads share state through mutexes and atomics.

| Part (source) | State it keeps | Operations | Talks to |
|---|---|---|---|
| Stratum session (`stratum/client.rs`) | socket halves (writer under a mutex), `extranonce1_hex`, `latest_job`, `new_job`, `force_failover`, `shutdown`, `SessionStats` | connect and handshake, read and dispatch frames, reconnect with backoff, `send_submit`, `send_suggest_difficulty`, watchdog handle, drop | pool (TCP), mining loop (slot and flag), watchdog (counters) |
| Endpoint list (`endpoint.rs`) | `current`, `last_failback_ms` | `advance`, `maybe_failback` | reconnect |
| Reliability watchdog (`stratum/watchdog.rs`) | none but its thread; reads the stamps and counters of the session | stale job, unacked streak, accepted-share dead-man: reconnect or failover | session |
| Mining loop (`stratum/loop_stratum.rs`) | current work, rolling `extranonce2`, heartbeat and rate sample, fault streak | intake, refresh, launch, correctness gate, submit, thermal wait, shutdown | session, backend, CPU workers, thermal gate, GPU watchdog |
| CPU/GPU race of one launch (`loop_stratum.rs`, `backend.rs`) | `iter_stop`, winner slot, per-template found marker | workers, device thread, join and result | mining loop |
| GPU stall watchdog (`gpu_watchdog.rs`) | `floored_streak`, `recoveries_done`, `recovery_at_ms` | dwell, recover, grace, exit(17) | rate sample, backend `recover()`, supervisor |
| Thermal gate and dead-man (`thermal.rs`, `main.rs`) | `paused`, `paused_for`, `forcing_left` | hysteresis, cap on a pause, forced window | mining loop, GPU watchdog |
| CUDA backend (`backends/cuda.rs`) | two pipes under a lock, their buffers and streams | `hash_range` (alternating launch and drain), `recover`, device query | driver |
| OpenCL and CPU backends (`backends/opencl.rs`, `backends/cpu.rs`) | queue and kernel; none | `hash_range` | driver; worker threads |
| Nonce partition and parameters (`mining_config.rs`) | none | split of the nonce range, validation of the parameters | mining loop, start-up |
| Job mapping, protocol, hashing (`stratum/mapping.rs`, `stratum/protocol.rs`, `coinbase.rs`, `sha256d_cpu.rs`, `consensus_types.rs`) | none | notify to header, target, share encoding | mining loop |
| Auto-tune, startup bench (`backends/autotune.rs`, `bench.rs`, `main.rs`) | geometry cache, measured hashrate | search, cache record, difficulty hint | backend, session |
| Statistics, summary server, HiveOS stats (`stats.rs`, `stats_server.rs`, `http.rs`, `hiveos.rs`) | rolling windows, listener | record, serve `/1/summary` | session |
| Milestones (`notify.rs`) | high-water mark of announced milestones | decide, post | session |
| Windows service, self-update, launchers (`winsvc.rs`, `selfupdate.rs`, `mine-auto.*`, `hiveos/`, `deploy/systemd/`) | service status; files on disk | install, stop, download, verify, swap, restart | operating system |
| Command line, configuration, backend selection (`main.rs`, `config_file.rs`) | options, the chosen backend | merge, validate, tune, select, benchmark | all of the above |
| Keys, logs, NVML, self-test | none shared | start-up, read-outs | — |

**How they interact.** The reader thread alone reads the socket and alone
reconnects. It publishes each `mining.notify` in a single slot, and raises
`new_job` if the block changed. The mining loop copies the slot, lowers the flag,
checks the job id again, and sweeps one extranonce2 at a time; the backend polls the flag
between kernel launches and the CPU workers poll once in 256 nonces. A share
goes back through `send_submit` on the loop's thread. Two watchdogs look on: one
at the session's time stamps and counters, which shuts the socket so that the
reader reconnects, and one at the GPU's published rate, which rebuilds the device
and finally exits the process for its supervisor to restart. The thermal gate
pauses the loop and, while it does, stands the GPU watchdog down; a dead-man
bounds that.

Before any of this, a start goes from the options to the loop: the file and the
flags are merged and validated, the CUDA geometry is tuned or taken from a cache
file (one file for the processes of all cards), a backend comes up, and a bounded
benchmark suggests a difficulty. Beside it, one thread serves the statistics port,
and on Windows the whole runs under the service manager.

**What is hard.** Free interleavings of four threads over one connection that
may be replaced at any step; decisions taken on a snapshot and carried out later; a
failover armed while a reconnect is already under way; three clocks (30 min
without credit, 30 min failback, 5 min without a job) that meet in one reconnect;
a flag lowered by one thread while another raises it; five ways out of a launch that
must each roll the extranonce2; and two watchdogs with minute-long ladders that each
reset the other; launches of a cancelled sweep that still run under the next one; a
cache written by two processes; a driver that panics rather than fails; byte orders
that must agree with a pool nobody can see into. `PROJECT.json` lists these hazards line by line, the uncovered
ones with the reason.

**What makes each part correct.**

- *Session*: counters describe the installed connection; a job is paired with its
  own session's extranonce1; no requested failover is lost; the hint is sent on
  every session; drop always ends; a half-open socket is replaced.
- *Endpoints and clocks*: a miner never credited is never moved; a pool that
  stops crediting is left promptly, but not over and over; a failover holds.
- *Mining loop*: a stale sweep is stopped and a fresh one is not; nothing is swept
  twice in a row; stop and fresh work get through, past jobs that cannot be mapped.
- *Race*: no find is lost; the ranges tile the span and are swept when nothing was found.
- *Backends*: all three keep one contract, whatever was in flight: a find is of the
  header of its own call, "nothing" means nothing, a flag ends the sweep within a launch.
- *Start-up*: every start that can mine does; a geometry is used only for the card it
  was measured on; CPU mining is never silent.
- *Wire*: the miner sends exactly the shares the pool credits.
- *Services*: clients are served, windows show their samples, a failed service comes back.
- *Stall and heat*: only a GPU that is really stuck kills the process, and a
  GPU that is really stuck does; a pause has an end.

## The modules

| Module | Models | State and actions |
|---|---|---|
| `StratumJobs` | the job slot of `client.rs`: what a published job carries and when it raises the flag | constants `Jobs`, `NoJob`; `Published`, `PrevChanged`; used by the next two state machines |
| `EndpointList` | `endpoint.rs`: `Advance`, `MaybeFailback` | operators; used by `StratumSession` and `FailoverClock` |
| `StratumSession` | reader, miner, watchdog handle and drop over one session | reader `R*` (top, ack, notify, idle, end, redial, dial, replay, swap, finish), miner `M*` (hint, take, write, count, stop), watchdog `W*` (poll, arm, cut, exit), destructor `D*`, and `PoolClose` |
| `FailoverClock` | the watchdog's decision over explicit time stamps, with the endpoint list a reconnect rotates | watchdog `Poll`, `Arm`, `Cut`; reader `NewJob`, `Accept`, `End`, `Redial`, `DialFail`, `DialOk`, `Stamp`; `Tick`, `LinkLost` |
| `MiningLoop` | the loop against the reader that publishes under it | reader `Notify`, `Raise`, `NewSession`; loop `Intake`, `Idle`, `Clear`, `Refresh`, `Leave`, `Launch`, `Boundary`, `SliceDone`, `Settle`; `Stop`, `Gate` |
| `SweepRace` | one launch: `PartitionNonceRange`, then workers, device, cancel flags, result | `WPoll`, `WMiss`, `WHit`, `GBoundary`, `GSlice`, `Join`, `Stop`, `JobChange` |
| `GpuStall` | GPU watchdog, rate sample, fault path, thermal gate and dead-man | `Tick`, `Thermal`, `Sweep`, `Break`, `Fault`, `Watch`, `Exited` |
| `BackendContract` | what `hash_range` promises (`backend.rs`, `selftest.rs`): the abstract specification | call, flags raised, fault, recovery, result |
| `GpuPipes` | `hash_range` and `recover` of `cuda.rs` and `opencl.rs` over two in-order streams | host prime, top, drain, other pipe, launch; device `Run`; fault, recover |
| `CpuPool` | `hash_range` of `cpu.rs` over one shared counter | `Check`, `Take`, `Try` per thread, leave |
| `Backends` | the one of them the miner runs; refines `BackendContract` | the union, with fairness |
| `Options` | merging of flags and file, validation, the rules on CPU fallback | operators |
| `Autotune` | candidates, order of measurements, cache record | operators |
| `Startup` | `run_mining`/`drive` for the processes of one machine: geometry, sweep, cache, backend selection, benchmark | `Launch`, `Drive`, `Resolve`, `Measure`, `Conclude`, `Truncate`, `Write`, `Init*`, `UseCpu`, `Bench`, `Finish`; `Crash`, `Exchange`, `CtrlC`, `SetupFails` |
| `HeaderHash` | SHA-256d as the plain digest, the CPU finisher and the GPU kernel compute it | operators; the width of a byte, the operations on bits and the round constants are parameters |
| `ShareWire` | one share from `mining.notify` to `mining.submit` | `SetDifficulty`, `Notify`, `Intake`, `Try`, `Roll` |
| `StatsServer` | rolling windows and the accept loop | connect, accept, read, answer, record, clock |
| `ServiceHost` | the service manager and `winsvc.rs` | install, start, stop, uninstall, restart, the body |
| `Services` | the last two in one process | the union: the port and the samples live and die with the process |
| `MCStratumSession`, `MCMiningLoop`, `MCStartup`, `MCShareWire`, `MCServices` | the jobs, machines, messages, bit operations and requests TLC uses | — |
| `StratumSessionProofs`, `FailoverClockProofs`, `MiningLoopProofs`, `SweepRaceProofs`, `GpuStallProofs`, `BackendsProofs`, `ProcessProofs`, `ShareWireProofs` | theorems | — |

An operator preceded by a `Mutant` comment is a plausible bug of the definition
that follows it. No specification uses it; it is there to show that the property
`PROJECT.json` names for it can fail.

How the state corresponds to the code:

- **One step is what one lock, one atomic access or one blocking call covers.** In
  `StratumSession` the writer mutex is held across two steps only by
  `send_submit` (write, then count): `mpc = "writing"`. Every other critical
  section is a step of its own, guarded by `WriterFree` where the code locks.
  `reconnect` is the five steps between which another thread can see a difference:
  redial, dial, replay (extranonce1 stored, early pushes dispatched), swap (under
  the writer lock: reset the streak, re-send the hint, install the socket), finish.
- **A connection is its number**, and so is its extranonce1, since the pool hands
  each session its own. Frames in transit need no queue: the reader may find any frame at
  any time, save that an ack needs a written share (`owed`).
- **The watchdog's decision and its acts are steps of their own** (`WPoll`, `WArm`,
  `WCut`; in `FailoverClock` `Poll`, `Arm`, `Cut`), as in `watchdog_tick` and
  `request_failover`: a whole reconnect may fall between any two of them.
  `FailoverClock` assumes only that one evaluation is over within its poll.
- **Clocks.** `StratumSession` leaves staleness and failback free; `FailoverClock`
  counts them in watchdog polls; `GpuStall` counts in GPU watchdog polls of 15 s.
  Ages saturate where no test can tell them from more.
- **The mining loop's copy, clear and check** are three steps (`Intake`, `Clear`,
  `Launch`/`Refresh`), because the reader may publish between any two.
- **What cannot be mapped** (`next_work` answers `Idle`) is a set of pairs of job and
  session, `Unmappable`: the loop naps, drops its copy and leaves the flag as it is.
  In `GpuStall` it is a period with the gate open and no launch.
- **The published rate** is the nonces since the last log over the time since it, so
  `GpuStall` keeps whether a period without a launch lies in between (`gap`). After one
  the rate may read above the floor or below it. At the default floor of 0.001 GH/s
  and a launch of 2^32 nonces that takes a gap of 71 minutes; with a higher `--gpu-floor` less.
- **Hashing is free in the loop**: any slice may find a solution, and the correctness gate may
  find it good, mismatched or above the target (`Outcome`).
- **The device** is good, erring or hung; `recover()` cannot reach one that is hung
  inside a launch, whose lock it only tries (`cuda.rs:228`).
- **A launch on a GPU is four operations in a stream** (write the inputs, clear the
  flag, run, read back), which the device does on its own time: a sweep called off
  returns with launches in flight, and the next one enqueues behind them.
- **Solutions are a set** in `Backends`: which nonces of a job meet its target. The
  contract is then about sets, and the header a launch hashes is the one in the
  buffer when it runs.
- **Start-up is one process per card.** `setup` fixes what does not change (build,
  file, flags, drivers, rates); what may happen (a crash, a pool or a statistics port that is not to be had, an
  exchanged card) is counted by `trouble`, bounded by `setup.mishaps`.
- **The width of a byte is a constant** of `HeaderHash` and `ShareWire`, as are exclusive
  or, conjunction, rotation, shift and the tables of SHA-256. A word has four bytes, and
  the block structure, the schedule, the 64 rounds, padding, midstate and skipped rounds
  are the code's. TLC takes bytes of 2 bits, with rotations modulo 8; the
  theorem holds for every width, that of the code among them.
- History variables, marked as such, record what a property compares with. No
  guard reads one.

## The runs

All `pass` runs finish with the whole state space explored. Deadlock is checked in
each one but `wire` (there the extranonce2 may leave the bounded set `Rolled`, and the
model stops); the modules give a system that may stop (the process has exited, the
client is dropped, the clock is at its bound) an explicit stuttering action.

| Run | Question | Bounds, and why they are enough |
|---|---|---|
| `session` | Do the counters, jobs, endpoints, failovers and the hint stay consistent in every interleaving? | 2 endpoints, 3 connections, 2 shares, streak limit 2, 1 job. The second connection shows what leaks from the first; the third shows a failover armed during the reconnect that makes the second. Two shares make an ack overtake the accounting of its own share with another outstanding. |
| `session_live` | Does a dropped client end, is a lost connection replaced, is a half-open one cut? | 1 endpoint, 2 connections, 1 share, limit 1: every wait the three properties name is still reached; safety with more is `session`. |
| `failover` | Is the dead-man prompt, bounded, quiet for a miner never credited, and does the first failover hold? | 2 endpoints, stale job 1, `accept_stale` 4, failback 4 polls, 11 instants: a fourth failover is reached, and the three before it may fall in one window. The code's ratio (30 min : 30 min) is kept. |
| `loop` | Is preemption complete and never spurious, is no launch repeated, do stop and fresh work get through? | 3 jobs (two on one block), 3 pushes, 3 sessions, 3 extranonces, 2 slices; one job cannot be mapped in any session, and one session maps none: a job may move twice under one launch, once with and once without a block change, the loop may go idle between two launches, and extranonce2 wraps. |
| `race` | Do the ranges tile the span, is no find lost, does the GPU sweep its range? | Spans of 1 and 11 nonces, CPU shares 0, 0.5, 0.8 and 1, 0, 2 or 3 threads, blocks and slices of 2: empty ranges, rounding, remainders, a last block that is cut short, and a share that leaves the GPU nothing. Two workers may find after a first. |
| `backends` | Do the three backends keep the contract of `hash_range`, return, and stop within a launch? | 6 nonces, so that a counter can pass the top; limits 0, 3, 5; launches of 2; three target sets (none, one, two solutions); 2 calls, so that the first may leave launches in flight for the second; 2 CPU threads, chunk 2. |
| `startup` | Does every start that can mine get there, with the geometry of its own card, the best one, and never silently on the CPU? | One rig with every choice of flag, build, driver (works, fails, panics late) and file, and one mishap; two rigs on one cache file, up to two mishaps; three rates; lists of ids and webhook URLs good and bad. Two candidates, budget 2, cap 3. |
| `services` | Are clients served, windows complete, and does a service that failed come back? | 2 clients (a dashboard with its token, one that drips its request), 5 pieces per request, windows of 0, 1 and 2 ticks, 3 ticks, 3 samples: a sample may leave each window, and the clock be set ahead, so that a sample is overtaken by more than the longest window, and back over it. |
| `wire` | Does the miner send exactly what the pool credits? | Jobs of 0 to 2 branch nodes, every way a job may be unmappable, 4 extranonces, difficulties 0, 1.5 and 2.5, 6 nonces per engine. |
| `stall` | Does only a complete ladder kill, is a GPU that launches spared, is a pause bounded, does a hung GPU, hot or not, end the process? | dwell 2, grace 2, 2 recoveries, stale after 1, cap 2, window 8. Each stage of the ladder has a period to be interrupted in. The window outlasts the whole ladder, which the last property needs: see `stall_hot`. |
| `stall_hot` | `thermal.rs` on a hung card that stays hot, and the counterexample TLC finds. | The code's default times in polls (dwell 4, grace 4, 3 recoveries, stale after 3, window 6), except the 40-poll cap, cut to 2: its length only delays the same cycle. See [below](#where-code-and-text-disagree). |
| `startup_panic` | `Cargo.toml` and `main.rs` on a driver that panics under `auto`. | One rig, CUDA panicking when a context is made, every other choice free. |

What the properties say:

- `StreakAccurate`, `AcksBounded`: the unacked streak is the installed
  connection's, to within the one share in flight, through any reconnect, and acks
  never outrun shares.
- `JobOfItsSession`, `ReportedEndpoint`, `ArmNotLost`, `HintOnEverySession`: the
  four places where `reconnect` writes shared state in an order that matters.
- `DropReturns`, `Recovers`, `HalfOpenHeals`: the session's promises of progress.
- `UncreditedStays`, `DeadmanPrompt`, `ThreePerWindow`, `FirstFailoverHeld`: the
  dead-man from both sides, and the regression of v0.1.9 #2.
- `StaleIsPreempted`, `NoSpuriousPreempt`: the flag protocol, both directions.
  `NoRepeatedLaunch`: what a launch is about.
- `StopEnds`, `FreshWork`: progress, with the thermal gate free.
- `FindNotLost`, `SpanCovered`: the result of a launch, and the nonces behind a "none".
- `KeepsContract`: each backend implements `BackendContract` (a refinement, checked as
  a property); `PromptCancel`, `CallReturns`: its two promises about time.
- `CachedIsOwn`, `BestWins`, `NoSilentCpu`, `MiningStarts`: the start-up.
- `SameVerdict`: miner and bridge, built from opposite ends of the wire, agree.
- `WindowsComplete`, `EveryClientServed`, `ComesBack`: statistics and service. The first
  says under any movement of the clock which samples a window is over, and that these
  are all of them while the clock is not behind a sample.
- `LadderComplete`, `HealthyNotKilled`: when the process may be killed. The second is
  about a GPU that has published a rate since its last trouble, and trouble is a
  failed launch, a period with the gate open and no launch, or a rate that reads
  under the floor because of a gap. The pauses of such a GPU never add up to an exit.
  `HungGpuExits`, `HungHotCardExits`: when it must be. `PauseBounded`: the dead-man's cap.

## Fairness

- `StratumSession`: every thread is scheduled, locks are handed on, reads time out
  (`READ_TIMEOUT` 5 s), and the watchdog owes an answer to a full streak only: its
  clock tests may never fire. A closed connection is noticed after finitely many
  frames, and a pool that is dialled for ever answers in the end: those two belong to
  the environment. Writes are assumed to return and a handshake to end, which the
  code does not enforce (no write timeout, no handshake deadline): two hazards
  without a property.
- `MiningLoop`: the loop and the reader are scheduled, and `refresh_every`, 2 s of
  wall clock, does pass while a launch runs. The thermal gate gets no fairness: it
  may stay closed for ever.
- `GpuStall`: time passes and both pollers run. `Sweep`, `Break` and `Fault` get none. `HungGpuExits` and `HungHotCardExits` assume that jobs keep flowing
  and that one launch had completed (`beat # NoBeat`): a GPU that hangs
  in its first launch has no heartbeat and reads as healthy.
- `Backends`: the threads of the host and of the CPU pool run, and the device works off
  its streams; a device that hangs instead is `GpuStall`'s subject. Callers need not
  call, flags need not be raised, faults need not happen.
- `Startup`: each process takes its steps. Nothing is assumed of crashes and cards.
- `Services`: the serving thread, the miner's body and the service manager run;
  clients, clock and operator need not do anything.

## What is proved

TLAPS proves these for every value of the constants, under the named
assumptions only (`EndpointAssumption`, `ClockAssumption`, `JobsAssumption`,
`SessionAssumption`, `LoopAssumption`, `RaceAssumption`, `StallAssumption`,
`ContractAssumption`, `PipesAssumption`, `PoolAssumption`, `CandidatesAssumption`,
`StartupAssumption`, `StatsAssumption`, `HashAssumption`, `WireAssumption`), which TLC
evaluates in the runs. Two theorems of `GpuStallProofs` have a hypothesis of their own,
given below. Every safety invariant and action property that a run checks has a theorem;
TLC checked each strengthening before it was proved.

- **`StratumSessionProofs`**: `TypeOK`, `StreakAccurate`, `AcksBounded`,
  `JobOfItsSession`, `ReportedEndpoint`, `ArmNotLost`, `HintOnEverySession`. None
  is inductive alone. `Glue` adds what they need of the middle of a reconnect: the
  published extranonce1 is one session ahead exactly during replay, the reported
  endpoint lags exactly during finish, one arm is worth at most one rotation to
  come, and the hint is not cached before boot. One step per action.
- **`FailoverClockProofs`**: `TypeOK`, `UncreditedStays`, `DeadmanPrompt`, `ThreePerWindow`
  and `FirstFailoverHeld`, for every list and all three intervals. The invariant adds
  `Prompt` (strictly inside `accept_stale` once this instant was evaluated),
  `CreditNeedsJob` (without it a stale job would excuse the dead-man for ever),
  `Anchored` and `ArmIsEarned` (the session in use was made after the last failover,
  so a failover decided or armed is an `accept_stale` younger than the last but two,
  and one decided over an unused arm than the last but one), and `ClockOfHold`
  (the failback clock of a first failover starts no earlier than the failover).
- **`MiningLoopProofs`**: `TypeOK`, `StaleIsPreempted`, `NoSpuriousPreempt`, and
  the action property `NoStaleSlice` (no slice starts on a left block once the flag
  is up; stated and proved only, since the invariants above imply what a run would
  add). The invariant adds
  `FlagIsEarned` (a raised flag means the block has changed since the copy was
  taken; true because the flag is raised under the lock the copy is taken under)
  and `LaunchIsWork`. `NoRepeatedLaunch` rests on `Rolled`, that up to the next sweep the
  loop's extranonce2 is the successor of the last launch's, and on `RollMoves`, that the
  successor differs where there are two values. `LoopAssumption`, that a pool never gives one `job_id` to two
  blocks, is needed: the loop's last check compares ids.
- **`SweepRaceProofs`**: `TypeOK`, `FindNotLost` and `SpanCovered`. `PartitionIsCut` and
  `CutsTile` show that the ranges are cut at a non-decreasing row of points from 0 to
  the span, with every rounding of the share and every remainder, so that a nonce is
  in exactly one; the range a nonce falls in is found as the least cut above it
  (the least-element theorem on `Nat`, since no induction rule can be used).
  `SlotIsFind` and `Joins` carry the finds to the end of the launch;
  `CalledOffForReason` and `GpuDoneForReason` say why a sweep may stop early.
- **`GpuStallProofs`**: `TypeOK`, `LadderComplete`, `PauseBounded`, `HealthyNotKilled`,
  and `ShortWindowHidesHungGpu`. `Climbing` relates what the
  watchdog remembers (streak, recoveries, age of the last one) to the time since
  the last sample without a stall; `MaxRecoveries * Grace` is non-linear, so
  `OneMoreGrace` supplies the step to the solver. `PauseClock` bounds the time the
  gate has been closed by the dead-man's own count, and the evaluation still due.
  `WorkingInv` says what a GPU without trouble shows: a launch of the period has touched
  the heartbeat (`Touched`), the heartbeat is old only when a
  pause made it so (`Beating`), and the watchdog holds nothing against the GPU once
  it has launched (`Absolved`). `HealthyIsSpared` assumes `Sampled`: the GPU has a
  nonce range, and one stale sample is not enough to kill. The code's dwell of 4 and
  limit of 3 polls satisfy it; a `cpu_share` of 1.0 does not, and there the property fails
  (see [below](#where-code-and-text-disagree)).
  `ShortWindowHidesHungGpu` is the general form of what `stall_hot` finds: as long as
  every evaluation reads hot, a window with `Window + 1 < Ladder` and a cap above one
  period never lets the process exit. `HotAccount` adds up the time without a
  reassuring sample and what is left of the window. The bound is tight: TLC finds the
  exit at `Window + 1 = Ladder`, and the code has 6 against 15.
- **`BackendsProofs`**: `PromptCancel`, and `KeepsContract`, the refinement of
  `BackendContract`. On the
  pipes, a launch in flight has its inputs, the cleared flag and the run of *this* call
  left in the stream, whatever an earlier call left before them (`InFlightOK`,
  `Loaded`), and a solution is still to be launched or will be reported by a pipe
  (`Covered`). On the pool, a solution is kept, above the counter, or in a chunk
  that a thread has taken (`Tried`), and a thread ends for a reason (`OutForReason`). Hence
  "none" means a range that was swept or a raised flag, and a find is a solution:
  each step is one of the contract or changes none of its variables.
- **`ProcessProofs`**: the start-up and the process's services.
  `CachedIsOwn`, `NoSilentCpu`, `BestWins`, for any number of processes
  and cards. A step concerns one process, so `StepOfOne` reduces the invariant to what it
  says of that process (`Own`) and of the cache file, which holds the record of a sweep
  that was won or none, whichever writes collide. `BestWins` needs that the order of
  the sweep is total up to the geometry (`OrderOfKeys`): two winners of the same measurements
  agree, so the order in which candidates are tried does not matter. `WindowsComplete`
  is proved of `Services!Spec`, where the process may start, crash and come back at any
  time. `Lossless` is stated about every cutoff that no
  pruning was beyond, not only those of the windows; `SinceTwice` (pruning and then
  looking later is looking later) makes it inductive under a clock that jumps.
  `Survivors` says which samples are left when it does: those that no later sample is
  more than the horizon ahead of (`Lasting`), no other; `SinceSet` gives the elements
  that `Since` keeps.
- **`ShareWireProofs`**: `SameVerdict`, for any job that can be mapped (any branch, any
  length of coinbase), extranonce, difficulty and nonce, any width of a byte whose word
  holds the length of a header, and any bit operations that return words. Three parts.
  - `DevicesHash`: the CPU finisher and the kernel hash what the digest hashes. The
    digest of 84 bytes is two blocks, the first of them the midstate's; a
    schedule begun by hand is continued as the whole one is, rounds from the
    fourth on continue the prefix, and `w16` to `w18` do not look at the nonce.
  - `SameHeader`: every field survives its trip from hex to number, to little-endian
    bytes and back; the miner's 64-bit extranonce is the two halves in the order the bridge
    concatenates them (`ExtranonceBytes`); and `MerkleRoot`, whose index stays 0, climbs
    the same branch (`SameRoot`).
  - `SameComparison`: comparing a hash byte by byte with the long quotient decides what
    multiplying the hash by the divisor does, with its carries. Both are related to the
    numbers the prefixes stand for (`Sums`), and the quotient to Euclid's division.

  The invariant `IInv` says where what the loop holds comes from: the work is the mapping
  of a job some session sent, at the difficulty kept with it (`Holds`), and the
  verdict is that of a nonce tried on this work under this extranonce2 (`Tries`).

What a recursive function computes is needed in the last two modules. The library's
induction rules take an operator, which the provers here cannot instantiate;
`InductionOnSet` takes the set of the numbers for which the claim holds instead, and
follows from the least-element theorem. `Since`, `PickBest`, the rounds, the Merkle
climb and the long division are therefore recursive functions; `Total` is a fold and stays
opaque, since equal samples have equal totals.

Only model-checked: all liveness (`DropReturns`, `Recovers`, `HalfOpenHeals`,
`StopEnds`, `FreshWork`, `CallReturns`, `MiningStarts`, `EveryClientServed`,
`ComesBack`, `HungGpuExits`, `HungHotCardExits`), since the prover has neither fairness nor `ENABLED`.
That the bit operations and tables are SHA-256's is not stated anywhere: no property
depends on it, and the repository's vectors cover it.

## Where code and text disagree

Two runs check a statement of the repository and TLC refutes it.

| Run | Statement | What the code does |
|---|---|---|
| `stall_hot` | `thermal.rs:187`: a hung card that stays hot is recovered or exited within the forced window | 90 s is shorter than dwell plus three graces, and the re-pause resets the ladder: it never exits. |
| `startup_panic` | `main.rs:1464`, `Cargo.toml:108`: `auto` catches a driver's panic and falls back to OpenCL | The geometry is resolved first, and `CudaContext::new` is called there (`main.rs:853`, `876`, `cuda.rs:628`) outside the catch: the process ends with OpenCL untried. |

These were met while modelling and have no run. In the session and the loop:

- `client.rs:1110`, that under the writer lock "a stale streak can't tear down the
  brand-new connection": the watchdog takes its snapshot before it waits for that
  lock (`watchdog.rs:184`), so a reconnect in between is torn down at once.
- `client.rs:290`, that the reconnect "lands on the NEXT endpoint": `reconnect` runs
  `maybe_failback` after the rotation. With a stamp left by an earlier reconnect and
  failback equal to `accept_stale`, it returns to the pool it leaves.
- `mining_config.rs:11`, that `cpu_share` is the fraction the CPU sweeps: with 1.0 the
  GPU range is empty, its "sweep" ends at once and calls the workers off after about
  a block each; and the loop publishes a GPU rate of zero it never launched for, on
  which the watchdog exits, against `gpu_watchdog.rs:21`.
- `loop_stratum.rs:1019`, that workers propagate the stop so that the GPU wakes
  promptly: only workers still running do.
- A GPU sweep that was called off counts its whole range toward the hash rate
  (`loop_stratum.rs:1095-1099`).
- `stats.rs:58-59`, that reconnects are at least failovers, does not hold between
  `client.rs:672` and `1147`.
- `extranonce2_size` is stored and never compared with the four bytes that are sent.
- `watchdog.rs:58-60` promises "at most one failover per `accept_stale` window". A
  failover armed while the reader is already reconnecting (a case `client.rs:663-669`
  knows) is honoured by the next reconnect; and a decision taken just before that
  reconnect is stamped may store the flag again after it was used
  (`watchdog.rs:184`, `client.rs:926`). So three may fall in one window.
  `ThreePerWindow` checks that it is never four.
- `client.rs:311` and `705`, `loop_stratum.rs:301-307` and `807-812`: the preemption flag
  is raised for a newer `job_id`. `client.rs:984-1018` raises it for another previous
  block only, as the comment there says; a job that differs in its id alone is picked
  up at the loop's next check.
- `loop_stratum.rs:1206-1211`: a share found in a sweep that outlives its session is
  submitted on the next one, with nothing in it that names the extranonce1 it was made
  from; the pool checks it under the new one. `FreshWork` says that the loop moves on.
- `gpu_watchdog.rs:21-26`, that a legitimately idle GPU is never acted on: a job that
  `next_work` cannot map (`loop_stratum.rs:332-344`) leaves the loop idle while its arrival
  keeps the job age fresh, so a working GPU that has launched once is floored with
  work, recovered three times and exited. `HealthyNotKilled` counts such a period as trouble.
- `loop_stratum.rs:583-589`: the seed of infinity removes the false positive of a
  rate not yet published. After a fault has published a zero, that zero stands as
  long as every launch finds a share, since only the no-share arm publishes.
  `HealthyNotKilled` therefore asks for one published rate. For the same reason a rate
  published after a long gap may read under a high `--gpu-floor` although the GPU works.
- `thermal.rs:211`: "Not paused ⇒ reset everything (…, window closed)".
  `Deadman::tick` looks at an open window first and lets it run on.

Around the start-up and the backends:

- `main.rs:159-161`: the cache file holds a single record, so two cards overwrite
  each other's.
- `config_file.rs:9-11`: "a bad config file can never stop the miner"; a readable one
  with values that validation refuses does.
- Launches that fail count as full ones in the sweep (`cuda.rs:587`) and in the benchmark.
- A GPU that hangs in the sweep or the benchmark blocks the start, since no watchdog
  runs yet (`main.rs:1599`); the sweep does not look at the stop flag, and neither
  looks at the thermal gate. OpenCL's panics under `auto` are not caught.
- `cuda.rs:223`: `hash_range` "releases [the lock] between launches"; it holds it
  throughout, so `recover` of a merely slow sweep fails.
- `stats.rs:128` calls its clock monotonic; it is the wall clock.
- `http_response` gives the reason `OK` for 400 and 401; `hiveos-stats` sends no token,
  so a password shows zeros there.

## What is not modelled

- *Writes that block and handshakes that never end*: they need a model of the
  socket buffer; listed as hazards.
- *The bit operations and tables of SHA-256*: parameters of `HeaderHash`; the repository
  has vectors for the real ones.
- *JSON framing, the bodies of the statistics, the wording of logs and posts.*
- *The arithmetic of the suggested difficulty*: the benchmark's outcomes are modelled,
  the number it suggests is not.
- *Milestones*: only the webhook's URL is validated. Posts are detached threads that
  may arrive out of order, and a failed one is lost since the mark advances first.
- *Keys, logs, NVML reads, the build, subcommands that do not mine*: input and
  output without shared state.
- *The service manager's races with the operator* (a stop during a failing connect or
  an exit(17)): the manager's side of them is not in the repository.
- Everything under *Plan*.

## Plan

1. `GpuWatchdogSpec`: an abstract ladder (idle, dwelling, recovering *n*, exited)
   that `GpuStall` implements.
2. `Milestones`: the decision, its mark, and posts that overtake each other.
3. `LauncherUpdate`: download, verify, swap and supervised restart, with a crash
   between any two steps, and the version comparison of `selfupdate.rs`.
4. Writes that block: the session with a bounded socket buffer.
