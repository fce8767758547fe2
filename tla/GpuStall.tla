------------------------------- MODULE GpuStall -------------------------------
(***************************************************************************)
(* The hung-GPU watchdog (src/src/gpu_watchdog.rs) over what the mining    *)
(* loop publishes of its GPU (GpuHashrateSample and LoopGpuView of         *)
(* src/src/stratum/loop_stratum.rs), and the thermal gate with its         *)
(* max-pause dead-man (src/src/thermal.rs, driven by spawn_telemetry of    *)
(* src/src/main.rs), which stands that watchdog down.                      *)
(*                                                                         *)
(* Time is a count of watchdog polls (15 s).  In each poll period the      *)
(* thermal poller and the watchdog evaluate once, in either order, and the *)
(* loop may complete a launch: it need not even with the gate open, for it *)
(* idles while it has no job, or only one it cannot map.  The thermal      *)
(* poller really runs 15 times as often: a pause and a resume may both     *)
(* fall between two evaluations of the watchdog here as well.              *)
(*                                                                         *)
(* The temperature, the flow of jobs and the health of the GPU are the     *)
(* environment.  Every age saturates where no test can tell it from more.  *)
(***************************************************************************)
EXTENDS Naturals

CONSTANTS
  Cap,            \* ThermalCfg::max_pause_secs
  Window,         \* FORCE_RESUME_WINDOW_SECS
  Dwell,          \* GpuWatchdogCfg::dwell_samples
  Grace,          \* GpuWatchdogCfg::recover_window
  MaxRecoveries,  \* GpuWatchdogCfg::max_recoveries
  Stale,          \* sample_stale_after_ms: 3 polls
  GpuRange        \* the GPU is given nonces (FALSE: cpu_share 1.0)

ASSUME StallAssumption ==
  /\ Cap \in Nat \ {0} /\ Window \in Nat \ {0} /\ Dwell \in Nat \ {0}
  /\ Grace \in Nat \ {0} /\ MaxRecoveries \in Nat /\ Stale \in Nat
  /\ GpuRange \in BOOLEAN

VARIABLES
  temp,         \* the thermal poller's last sample
  paused,       \* ThermalGate.paused
  pausedFor,    \* Deadman.paused_for
  forcing,      \* Deadman.forcing_left; 0: no window open
  gpu,          \* the device: "good", "erring" (launches fail), "hung"
  faulting,     \* gpu_fault_streak > 0
  counted,      \* gpu_nonces_since_log > 0
  gap,          \* a period without a launch has passed since last_hashrate_log
  rate,         \* GpuHashrateSample.ghs_bits: "some", or "zero" (floored)
  beat,         \* age of GpuHashrateSample.at_ms, or NoBeat
  flowing,      \* the watchdog's last look at the jobs and the link
  streak,       \* GpuWatchdogState.floored_streak
  recoveries,   \* GpuWatchdogState.recoveries_done
  recAge,       \* age of .recovery_at_ms, which is set iff recoveries > 0
  exited,       \* the process has exited with EXIT_GPU_STALLED
  due,          \* who has still to act in this period
  stallFor,     \* history: periods since the watchdog last saw no stall
  closedFor,    \* history: periods the gate has been closed
  clean         \* history: since its last trouble the GPU has shown that it works

thermal  == <<temp, paused, pausedFor, forcing>>
device   == <<gpu, faulting, counted, gap, rate, beat>>
watchdog == <<flowing, streak, recoveries, recAge, exited>>
history  == <<stallFor, closedFor, clean>>
vars == <<thermal, device, watchdog, due, history>>

NoBeat == Stale + 2
Temps == {"hot", "warm", "cool", "unknown"}

\* Periods from the first floored sample to the exit.
Ladder == Dwell - 1 + MaxRecoveries * Grace

Older(age, limit) == IF age < limit THEN age + 1 ELSE age

Init ==
  /\ temp = "cool" /\ paused = FALSE /\ pausedFor = 0 /\ forcing = 0
  /\ gpu = "good" /\ faulting = FALSE /\ counted = FALSE
  /\ gap = FALSE /\ rate = "some" /\ beat = NoBeat
  /\ flowing = FALSE /\ streak = 0 /\ recoveries = 0 /\ recAge = 0 /\ exited = FALSE
  /\ due = {"thermal", "watchdog", "sweep"}
  /\ stallFor = 0 /\ closedFor = 0 /\ clean = FALSE

\* One watchdog period passes.  One in which nothing was launched leaves a gap in
\* the rate's window; with the gate open it is trouble, a broken device or a loop
\* without work it can use.
Tick ==
  /\ ~exited /\ due \subseteq {"sweep"}
  /\ due' = {"thermal", "watchdog", "sweep"}
  /\ beat' = IF beat = NoBeat THEN NoBeat ELSE Older(beat, Stale + 1)
  /\ gap' = (gap \/ "sweep" \in due)
  /\ recAge' = Older(recAge, Grace)
  /\ stallFor' = Older(stallFor, Ladder)
  /\ closedFor' = IF paused THEN Older(closedFor, Cap + 1) ELSE 0
  /\ clean' = (clean /\ ("sweep" \in due => paused))
  /\ UNCHANGED <<thermal, gpu, faulting, counted, rate, flowing, streak,
                 recoveries, exited>>
-----------------------------------------------------------------------------
(* The thermal poller.                                                     *)

\* thermal_decision: hysteresis from the gate as it stands; an unknown
\* temperature never pauses.
Overheated(t) == t = "hot" \/ (t = "warm" /\ paused)

\* Mutant: off by one.
CapPassed == pausedFor + 1 > Cap

\* A paused period more reaches the cap.
CapReached == pausedFor + 1 >= Cap

\* Mutant: the gate is opened for a single evaluation.
OpenOnce == [pause |-> FALSE, for |-> 0, window |-> 1]

\* The forced window opens.
OpenWindow == [pause |-> FALSE, for |-> 0, window |-> Window]

\* Deadman::tick on that decision: what is applied to the gate, and the
\* dead-man's two fields.  A window in progress comes first, whatever the
\* decision; only a continuous pause accrues.
DeadmanTick(hotNow) ==
  IF forcing > 1 THEN [pause |-> FALSE, for |-> pausedFor, window |-> forcing - 1]
  ELSE IF forcing = 1 \/ ~hotNow THEN [pause |-> hotNow, for |-> 0, window |-> 0]
  ELSE IF CapReached THEN OpenWindow
  ELSE [pause |-> TRUE, for |-> pausedFor + 1, window |-> 0]

\* thermal_tick_with_deadman, on a sample t.
TickWithDeadman(t) == DeadmanTick(Overheated(t))

\* One round of the poller's loop (spawn_telemetry).
Thermal ==
  /\ "thermal" \in due /\ ~exited
  /\ temp' \in Temps
  /\ LET d == TickWithDeadman(temp')
     IN  paused' = d.pause /\ pausedFor' = d.for /\ forcing' = d.window
  /\ due' = due \ {"thermal"}
  /\ UNCHANGED <<device, watchdog, history>>
-----------------------------------------------------------------------------
(* The mining loop and the GPU.                                            *)

\* Mutant: the window is zeroed before it is published.
RateZeroed(any) == {"zero"}

\* The rate the loop may log: the nonces counted by the time since the last log.
\* A launch in every period is well above the floor; after a gap the same launch
\* may be under it, if the gap is long or --gpu-floor high.
Rate(any) == IF ~any THEN {"zero"} ELSE IF gap THEN {"some", "zero"} ELSE {"some"}

\* The clean launches of one period.  Each touches the heartbeat; the rate is
\* published in the no-share arm only, so not at all when every launch of the
\* period finds a share.  With no GPU range hash_range is never called: no
\* touch, nothing counted, and a published rate of zero.
Sweep ==
  /\ "sweep" \in due /\ ~paused /\ gpu = "good" /\ ~exited
  /\ \/ /\ beat' = 0
        /\ rate' \in Rate(GpuRange)
        /\ counted' = FALSE /\ gap' = FALSE
        /\ clean' = (gap => rate' = "some")
     \/ /\ beat' = IF GpuRange THEN 0 ELSE beat
        /\ counted' = (counted \/ GpuRange)
        /\ UNCHANGED <<gap, rate, clean>>
  /\ faulting' = FALSE
  /\ due' = due \ {"sweep"}
  /\ UNCHANGED <<thermal, gpu, watchdog, stallFor, closedFor>>

\* The device breaks under a launch.
Break ==
  /\ GpuRange /\ ~paused /\ gpu = "good" /\ ~exited
  /\ gpu' \in {"erring", "hung"}
  /\ clean' = FALSE
  /\ UNCHANGED <<thermal, faulting, counted, gap, rate, beat, watchdog, due,
                 stallFor, closedFor>>

\* What recover() may make of the device: it cannot get at one that is hung
\* inside a launch, whose lock it only tries.
Recovered(g) == IF g = "erring" THEN {"erring", "good"} ELSE {g}

\* A launch returns Err (a hung one too, if the driver resets it).  The first of
\* a streak calls recover(); the heartbeat is not touched, but the no-share arm
\* that follows may log, and so publish, the rate.
Fault ==
  /\ gpu \in {"erring", "hung"} /\ (gpu = "erring" => ~paused) /\ ~exited
  /\ gpu' \in IF faulting THEN {"erring"} ELSE Recovered("erring")
  /\ faulting' = TRUE
  /\ \/ beat' = 0 /\ rate' \in Rate(counted) /\ counted' = FALSE /\ gap' = FALSE
     \/ UNCHANGED <<beat, rate, counted, gap>>
  /\ clean' = FALSE
  /\ UNCHANGED <<thermal, watchdog, due, stallFor, closedFor>>
-----------------------------------------------------------------------------
(* The watchdog thread.                                                    *)

\* Mutant: a stale sample is believed.
FlooredByRate == beat # NoBeat /\ rate = "zero"

\* LoopGpuView::gpu_ghs under the floor: nothing before the first heartbeat, a
\* stale heartbeat always, else the published rate.
Floored == beat # NoBeat /\ (beat > Stale \/ rate = "zero")

\* Mutant: one recovery too many.
DecisionPast ==
  IF streak + 1 < Dwell THEN "Ok"
  ELSE IF recoveries = 0 THEN IF MaxRecoveries = 0 THEN "Exit" ELSE "Recover"
  ELSE IF recAge < Grace THEN "Ok"
  ELSE IF recoveries <= MaxRecoveries THEN "Recover" ELSE "Exit"

\* gpu_watchdog_decision, for a sample that is floored with work.
Decision ==
  IF streak + 1 < Dwell THEN "Ok"
  ELSE IF recoveries = 0 THEN IF MaxRecoveries = 0 THEN "Exit" ELSE "Recover"
  ELSE IF recAge < Grace THEN "Ok"
  ELSE IF recoveries < MaxRecoveries THEN "Recover" ELSE "Exit"

\* Mutant: the thermal gate is not looked at.
StalledInPause(flow) == Floored /\ flow

\* The sample shows a GPU with work to do and nothing done.  A closed gate
\* reads as no jobs and no link.
Stalled(flow) == Floored /\ flow /\ ~paused

\* gpu_watchdog_tick.  An attempt counts, and starts the grace, whether the
\* rebuild succeeds or not.
Watch ==
  /\ "watchdog" \in due /\ ~exited
  /\ flowing' \in BOOLEAN
  /\ IF Stalled(flowing')
       THEN /\ streak' = Older(streak, Dwell)
            /\ exited' = (Decision = "Exit")
            /\ IF Decision = "Recover"
                 THEN recoveries' = recoveries + 1 /\ recAge' = 0 /\ gpu' \in Recovered(gpu)
                 ELSE UNCHANGED <<recoveries, recAge, gpu>>
       ELSE /\ streak' = 0 /\ recoveries' = 0 /\ recAge' = 0
            /\ UNCHANGED <<exited, gpu>>
  /\ stallFor' = IF Floored /\ flowing' /\ ~paused THEN stallFor ELSE 0
  /\ due' = due \ {"watchdog"}
  /\ UNCHANGED <<thermal, faulting, counted, gap, rate, beat, closedFor, clean>>

\* The process is gone; a supervisor starts another one.
Exited == exited /\ UNCHANGED vars

Next == Tick \/ Thermal \/ Sweep \/ Break \/ Fault \/ Watch \/ Exited

Spec == Init /\ [][Next]_vars

\* Time passes and the two pollers run.
FairSpec == Spec /\ WF_vars(Tick) /\ WF_vars(Thermal) /\ WF_vars(Watch)
-----------------------------------------------------------------------------
(* Properties.                                                             *)

\* The range of every field; recoveries_done never exceeds its budget.
TypeOK ==
  /\ temp \in Temps /\ paused \in BOOLEAN
  /\ pausedFor \in 0 .. Cap /\ forcing \in 0 .. Window
  /\ gpu \in {"good", "erring", "hung"} /\ faulting \in BOOLEAN /\ counted \in BOOLEAN
  /\ gap \in BOOLEAN /\ rate \in {"some", "zero"} /\ beat \in 0 .. NoBeat
  /\ flowing \in BOOLEAN /\ streak \in 0 .. Dwell
  /\ recoveries \in 0 .. MaxRecoveries /\ recAge \in 0 .. Grace /\ exited \in BOOLEAN
  /\ due \subseteq {"thermal", "watchdog", "sweep"}
  /\ stallFor \in 0 .. Ladder /\ closedFor \in 0 .. Cap + 1 /\ clean \in BOOLEAN

\* The process is killed only at the end of a whole, uninterrupted ladder: the
\* dwell, then every recovery with its full grace, with no sample in between
\* that showed hashrate, no work, a bad link or a thermal pause.
LadderComplete == exited => stallFor >= Ladder

\* A GPU that works is not killed for what it was.  Once it has published a rate,
\* and as long as it launches by the end of every period the gate is open in, the
\* pauses it comes out of do not add up to an exit.  What may is trouble, and only
\* until the next such rate: a launch that fails, a period with the gate open and
\* no launch, a rate that reads under the floor because of the gap before it.
HealthyNotKilled == exited => ~clean

\* The dead-man bounds a thermal pause: the gate is never closed for more than
\* Cap periods on end, not even one that closed as a forced window ended.
PauseBounded == closedFor <= Cap

\* A GPU hung in a launch, after one that completed, ends the process as long as
\* jobs flow and the gate stays open.
HungGpuExits ==
  <>[](gpu = "hung" /\ beat # NoBeat /\ ~paused /\ (flowing \/ exited)) => <>exited

\* What thermal.rs says the dead-man is for: a hung card that reports itself hot
\* for ever is recovered or restarted all the same.
HungHotCardExits ==
  <>[](gpu = "hung" /\ beat # NoBeat /\ temp = "hot" /\ (flowing \/ exited)) => <>exited
=============================================================================
