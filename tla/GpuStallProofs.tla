---------------------------- MODULE GpuStallProofs ----------------------------
(***************************************************************************)
(* Proof that the hung-GPU watchdog kills the process neither before its   *)
(* whole ladder is climbed nor while the GPU works, that a thermal pause   *)
(* is bounded, and that a short forced window hides a hung GPU that is hot,   *)
(* for every dwell, grace, recovery budget, thermal cap and window.        *)
(***************************************************************************)
EXTENDS GpuStall, TLAPS

\* The periods the watchdog's own state accounts for: the samples of the dwell,
\* or, once it has recovered, the dwell, each spent grace and the current one.
Climbed ==
  IF recoveries = 0 THEN streak ELSE Dwell + (recoveries - 1) * Grace + recAge

\* It is true to the clock: at least that many periods, less the one before the
\* first sample, have passed since the last sample that showed no stall.  (The
\* sum may pass the point where the clock stops counting.)
Climbing ==
  /\ recoveries > 0 => stallFor >= Ladder \/ stallFor + 1 >= Climbed
  /\ (recoveries = 0 /\ streak > 0) =>
       \/ stallFor >= Ladder
       \/ stallFor + 1 >= streak + (IF "watchdog" \in due THEN 1 ELSE 0)

\* Ladder is a number no smaller than the dwell's part of it.
LEMMA LadderType == Ladder \in Nat /\ Ladder >= Dwell - 1
<1>1. MaxRecoveries * Grace \in Nat
  BY StallAssumption
<1> QED BY <1>1, StallAssumption DEF Ladder

\* The type of what DeadmanTick returns.
LEMMA DeadmanType ==
  ASSUME TypeOK, NEW hotNow \in BOOLEAN
  PROVE  /\ DeadmanTick(hotNow).pause \in BOOLEAN
         /\ DeadmanTick(hotNow).for \in 0 .. Cap
         /\ DeadmanTick(hotNow).window \in 0 .. Window
<1>t. pausedFor \in 0 .. Cap /\ forcing \in 0 .. Window
  BY DEF TypeOK
<1>1. CASE forcing > 1
  <2>1. DeadmanTick(hotNow) = [pause |-> FALSE, for |-> pausedFor, window |-> forcing - 1]
    BY <1>1 DEF DeadmanTick
  <2>2. forcing - 1 \in 0 .. Window
    BY <1>t, <1>1, StallAssumption
  <2> QED BY <1>t, <2>1, <2>2
<1>2. CASE forcing <= 1 /\ (forcing = 1 \/ ~hotNow)
  <2>1. DeadmanTick(hotNow) = [pause |-> hotNow, for |-> 0, window |-> 0]
    BY <1>t, <1>2 DEF DeadmanTick
  <2>2. 0 \in 0 .. Cap /\ 0 \in 0 .. Window
    BY StallAssumption
  <2> QED BY <2>1, <2>2
<1>3. CASE forcing = 0 /\ hotNow /\ pausedFor + 1 >= Cap
  <2>1. DeadmanTick(hotNow) = [pause |-> FALSE, for |-> 0, window |-> Window]
    BY <1>3 DEF DeadmanTick, CapReached, OpenWindow
  <2>2. 0 \in 0 .. Cap /\ Window \in 0 .. Window
    BY StallAssumption
  <2> QED BY <2>1, <2>2
<1>4. CASE forcing = 0 /\ hotNow /\ pausedFor + 1 < Cap
  <2>1. DeadmanTick(hotNow) = [pause |-> TRUE, for |-> pausedFor + 1, window |-> 0]
    BY <1>t, <1>4, StallAssumption DEF DeadmanTick, CapReached
  <2>2. pausedFor + 1 \in 0 .. Cap /\ 0 \in 0 .. Window
    BY <1>t, <1>4, StallAssumption
  <2> QED BY <2>1, <2>2
<1> QED BY <1>t, <1>1, <1>2, <1>3, <1>4, StallAssumption

\* Every step keeps the types.
LEMMA TypeStep == TypeOK /\ [Next]_vars => TypeOK'
<1> SUFFICES ASSUME TypeOK, [Next]_vars PROVE TypeOK'
  OBVIOUS
<1> USE StallAssumption, LadderType DEF TypeOK, thermal, device, watchdog, history, NoBeat
<1>1. CASE Tick
  <2>1. beat' \in 0 .. NoBeat
    BY <1>1 DEF Tick, Older
  <2>2. recAge' \in 0 .. Grace /\ stallFor' \in 0 .. Ladder
        /\ closedFor' \in 0 .. Cap + 1
    BY <1>1 DEF Tick, Older
  <2>3. due' \subseteq {"thermal", "watchdog", "sweep"}
    BY <1>1 DEF Tick
  <2>4. UNCHANGED <<thermal, gpu, faulting, counted, rate, flowing, streak,
                    recoveries, exited>>
    BY <1>1 DEF Tick
  <2>5. gap' \in BOOLEAN /\ clean' \in BOOLEAN
    BY <1>1, Zenon DEF Tick
  <2> QED BY <2>1, <2>2, <2>3, <2>4, <2>5
<1>2. CASE Thermal
  <2>1. Overheated(temp') \in BOOLEAN
    BY <1>2 DEF Thermal, Overheated
  <2>2. paused' \in BOOLEAN /\ pausedFor' \in 0 .. Cap /\ forcing' \in 0 .. Window
    BY <1>2, <2>1, DeadmanType DEF Thermal, TickWithDeadman
  <2>3. temp' \in Temps /\ due' \subseteq {"thermal", "watchdog", "sweep"}
    BY <1>2 DEF Thermal
  <2>4. UNCHANGED <<device, watchdog, history>>
    BY <1>2 DEF Thermal
  <2> QED BY <2>2, <2>3, <2>4
<1>3. CASE Sweep
  <2>1. /\ counted' \in BOOLEAN /\ faulting' \in BOOLEAN
        /\ gap' \in BOOLEAN /\ clean' \in BOOLEAN
    BY <1>3, Zenon DEF Sweep
  <2>2. beat' \in 0 .. NoBeat /\ rate' \in {"some", "zero"}
    BY <1>3 DEF Sweep, Rate
  <2>3. due' \subseteq {"thermal", "watchdog", "sweep"}
    BY <1>3 DEF Sweep
  <2>4. UNCHANGED <<thermal, gpu, watchdog, stallFor, closedFor>>
    BY <1>3 DEF Sweep
  <2> QED BY <2>1, <2>2, <2>3, <2>4
<1>4. CASE Break
  <2>1. clean' \in BOOLEAN
    BY <1>4, Zenon DEF Break
  <2> QED BY <1>4, <2>1 DEF Break
<1>5. CASE Fault
  <2>1. /\ counted' \in BOOLEAN /\ faulting' \in BOOLEAN
        /\ gap' \in BOOLEAN /\ clean' \in BOOLEAN
    BY <1>5, Zenon DEF Fault
  <2>2. beat' \in 0 .. NoBeat /\ rate' \in {"some", "zero"}
    BY <1>5 DEF Fault, Rate
  <2>3. gpu' \in {"good", "erring", "hung"}
    BY <1>5 DEF Fault, Recovered
  <2>4. UNCHANGED <<thermal, watchdog, due, stallFor, closedFor>>
    BY <1>5 DEF Fault
  <2> QED BY <2>1, <2>2, <2>3, <2>4
<1>6. CASE Watch
  <2>1. streak' \in 0 .. Dwell /\ recoveries' \in 0 .. MaxRecoveries
        /\ recAge' \in 0 .. Grace /\ stallFor' \in 0 .. Ladder
    BY <1>6 DEF Watch, Older, Decision
  <2>2. gpu' \in {"good", "erring", "hung"}
    BY <1>6 DEF Watch, Recovered
  <2>3. exited' \in BOOLEAN /\ flowing' \in BOOLEAN
    BY <1>6, Zenon DEF Watch
  <2>4. due' \subseteq {"thermal", "watchdog", "sweep"}
    BY <1>6 DEF Watch
  <2>5. UNCHANGED <<thermal, faulting, counted, gap, rate, beat, closedFor, clean>>
    BY <1>6 DEF Watch
  <2> QED BY <2>1, <2>2, <2>3, <2>4, <2>5
<1>7. CASE Exited \/ UNCHANGED vars
  <2>1. UNCHANGED thermal /\ UNCHANGED device /\ UNCHANGED watchdog /\ UNCHANGED due
        /\ UNCHANGED history
    BY <1>7, Zenon DEF Exited, vars
  <2> QED BY <2>1, SMTT(30)
<1> QED BY <1>1, <1>2, <1>3, <1>4, <1>5, <1>6, <1>7 DEF Next

\* A recovery more is a grace more.
LEMMA OneMoreGrace ==
  ASSUME NEW r \in Nat \ {0}
  PROVE  /\ (r - 1) * Grace + Grace = r * Grace
         /\ r * Grace \in Nat /\ (r - 1) * Grace \in Nat
BY StallAssumption

\* Every step keeps the watchdog's account true, and an exit complete.
LEMMA ClimbStep ==
  TypeOK /\ Climbing /\ LadderComplete /\ [Next]_vars => (Climbing /\ LadderComplete)'
<1> SUFFICES ASSUME TypeOK, Climbing, LadderComplete, [Next]_vars
             PROVE  Climbing' /\ LadderComplete'
  OBVIOUS
<1> USE StallAssumption, LadderType
<1>t. /\ streak \in 0 .. Dwell /\ recoveries \in 0 .. MaxRecoveries /\ recAge \in 0 .. Grace
      /\ stallFor \in 0 .. Ladder
  BY DEF TypeOK
<1>1. CASE Tick
  <2>1. /\ "watchdog" \notin due /\ ~exited
        /\ "watchdog" \in due' /\ recAge' = Older(recAge, Grace)
        /\ stallFor' = Older(stallFor, Ladder)
        /\ UNCHANGED <<streak, recoveries, exited>>
    BY <1>1 DEF Tick
  <2>2. LadderComplete'
    BY <2>1 DEF LadderComplete
  <2>3. CASE recoveries = 0
    BY <1>t, <2>1, <2>2, <2>3 DEF Climbing, Older
  <2>4. CASE recoveries > 0
    <3>1. (recoveries - 1) * Grace \in Nat
      BY <1>t, <2>4, OneMoreGrace
    <3>2. Climbed' = Dwell + (recoveries - 1) * Grace + recAge'
      BY <2>1, <2>4 DEF Climbed
    <3>3. Climbed = Dwell + (recoveries - 1) * Grace + recAge
      BY <2>4 DEF Climbed
    <3> DEFINE base == (recoveries - 1) * Grace
    <3>4. base \in Nat /\ Climbed' = Dwell + base + recAge' /\ Climbed = Dwell + base + recAge
      BY <3>1, <3>2, <3>3
    <3> HIDE DEF base
    <3>5. stallFor' >= Ladder \/ stallFor' + 1 >= Climbed'
      BY <1>t, <2>1, <2>4, <3>4 DEF Climbing, Older
    <3> QED BY <2>1, <2>2, <2>4, <3>5 DEF Climbing
  <2> QED BY <1>t, <2>3, <2>4
<1>2. CASE Watch
  <2>1. "watchdog" \in due /\ "watchdog" \notin due' /\ ~exited
    BY <1>2 DEF Watch
  <2>2. CASE ~Stalled(flowing')
    <3>1. streak' = 0 /\ recoveries' = 0 /\ exited' = exited
      BY <1>2, <2>2 DEF Watch
    <3> QED BY <2>1, <3>1 DEF Climbing, LadderComplete
  <2>3. CASE Stalled(flowing')
    <3>1. /\ stallFor' = stallFor /\ streak' = Older(streak, Dwell)
          /\ exited' = (Decision = "Exit")
          /\ (Decision = "Recover") => recoveries' = recoveries + 1 /\ recAge' = 0
          /\ (Decision # "Recover") => UNCHANGED <<recoveries, recAge>>
      BY <1>2, <2>3 DEF Watch, Stalled
    <3>2. CASE Decision = "Ok"
      <4>1. UNCHANGED <<recoveries, recAge, stallFor>> /\ ~exited'
        BY <3>1, <3>2
      <4>2. CASE recoveries = 0
        BY <1>t, <2>1, <3>1, <4>1, <4>2 DEF Climbing, LadderComplete, Older
      <4>3. CASE recoveries > 0
        <5>1. Climbed' = Climbed
          BY <4>1, <4>3 DEF Climbed
        <5> QED BY <4>1, <4>3, <5>1 DEF Climbing, LadderComplete
      <4> QED BY <1>t, <4>2, <4>3
    <3>3. CASE Decision = "Recover"
      <4>1. recoveries' = recoveries + 1 /\ recAge' = 0 /\ ~exited'
        BY <3>1, <3>3
      <4>2. CASE recoveries = 0
        <5>1. streak + 1 >= Dwell
          BY <1>t, <3>3, <4>2 DEF Decision
        <5>2. Climbed' = Dwell + (1 - 1) * Grace + 0
          BY <4>1, <4>2 DEF Climbed
        <5>3. Climbed' = Dwell
          BY <5>2
        <5>4. stallFor >= Ladder \/ stallFor + 1 >= Dwell
          BY <1>t, <2>1, <4>2, <5>1 DEF Climbing
        <5> QED BY <1>t, <3>1, <4>1, <4>2, <5>3, <5>4 DEF Climbing, LadderComplete
      <4>3. CASE recoveries > 0
        <5>1. recAge = Grace
          BY <1>t, <3>3, <4>3 DEF Decision
        <5>2. Climbed' = Dwell + recoveries * Grace
          BY <1>t, <4>1, <4>3, OneMoreGrace DEF Climbed
        <5>3. Climbed = Dwell + recoveries * Grace
          BY <1>t, <4>3, <5>1, OneMoreGrace DEF Climbed
        <5> QED BY <1>t, <3>1, <4>1, <4>3, <5>2, <5>3 DEF Climbing, LadderComplete
      <4> QED BY <1>t, <4>2, <4>3
    <3>4. CASE Decision = "Exit"
      <4>1. UNCHANGED <<recoveries, recAge>>
        BY <3>1, <3>4
      <4>2. CASE recoveries = 0
        <5>1. MaxRecoveries = 0 /\ streak + 1 >= Dwell
          BY <1>t, <3>4, <4>2 DEF Decision
        <5>2. Ladder = Dwell - 1
          BY <5>1 DEF Ladder
        <5> QED
          BY <1>t, <2>1, <3>1, <4>1, <4>2, <5>1, <5>2 DEF Climbing, LadderComplete, Older
      <4>3. CASE recoveries > 0
        <5>1. recAge = Grace /\ recoveries = MaxRecoveries
          BY <1>t, <3>4, <4>3 DEF Decision
        <5>2. Climbed = Dwell + MaxRecoveries * Grace
          BY <1>t, <4>3, <5>1, OneMoreGrace DEF Climbed
        <5>3. stallFor >= Ladder
          BY <1>t, <4>3, <5>2, OneMoreGrace, <5>1 DEF Climbing, Ladder
        <5> QED BY <3>1, <4>1, <4>3, <5>3 DEF Climbing, LadderComplete
      <4> QED BY <1>t, <4>2, <4>3
    <3> QED BY <3>2, <3>3, <3>4 DEF Decision
  <2> QED BY <2>2, <2>3
<1>3. CASE Thermal \/ Sweep \/ Break \/ Fault
  <2>1. /\ UNCHANGED <<streak, recoveries, recAge, exited, stallFor>>
        /\ ("watchdog" \in due') <=> ("watchdog" \in due)
    BY <1>3 DEF Thermal, Sweep, Break, Fault, watchdog, history
  <2> QED BY <2>1 DEF Climbing, Climbed, LadderComplete
<1>4. CASE Exited \/ UNCHANGED vars
  <2>1. UNCHANGED <<streak, recoveries, recAge, exited, stallFor, due>>
    BY <1>4 DEF Exited, vars, watchdog, history
  <2> QED BY <2>1 DEF Climbing, Climbed, LadderComplete
<1> QED BY <1>1, <1>2, <1>3, <1>4 DEF Next

\* The first state: nothing sampled, nothing paused.
LEMMA InitInvariant == Init => TypeOK /\ Climbing /\ LadderComplete
<1> SUFFICES ASSUME Init PROVE TypeOK /\ Climbing /\ LadderComplete
  OBVIOUS
<1>1. /\ paused \in BOOLEAN /\ faulting \in BOOLEAN /\ counted \in BOOLEAN
      /\ gap \in BOOLEAN /\ flowing \in BOOLEAN /\ exited \in BOOLEAN /\ clean \in BOOLEAN
  BY Zenon DEF Init
<1>2. /\ temp = "cool" /\ pausedFor = 0 /\ forcing = 0 /\ gpu = "good" /\ rate = "some"
      /\ beat = NoBeat /\ streak = 0 /\ recoveries = 0 /\ recAge = 0
      /\ due = {"thermal", "watchdog", "sweep"}
      /\ stallFor = 0 /\ closedFor = 0
  BY DEF Init
<1>3. TypeOK
  BY <1>1, <1>2, StallAssumption, LadderType DEF TypeOK, Temps, NoBeat
<1>4. ~exited
  BY DEF Init
<1> QED BY <1>2, <1>3, <1>4 DEF Climbing, LadderComplete

\* The inductive invariant holds throughout.
LEMMA Invariance == Spec => [](TypeOK /\ Climbing /\ LadderComplete)
<1>1. TypeOK /\ Climbing /\ LadderComplete /\ [Next]_vars
        => (TypeOK /\ Climbing /\ LadderComplete)'
  BY TypeStep, ClimbStep
<1> QED BY InitInvariant, <1>1, PTL DEF Spec

\* Type correctness; in particular the recoveries stay within their budget.
THEOREM TypeCorrect == Spec => []TypeOK
BY Invariance, PTL

\* The process exits only after the dwell and every recovery with its full grace,
\* with no sample in between that showed hashrate, no work or a closed gate.
THEOREM ExitIsEarned == Spec => []LadderComplete
BY Invariance, PTL
-----------------------------------------------------------------------------
(* The dead-man of the thermal gate.                                       *)

\* How long the gate has been closed is what the dead-man counts: one period less
\* until the poller has evaluated in this period, and nothing while it is open.
PauseClock ==
  /\ paused => forcing = 0 /\ pausedFor < Cap
  /\ "thermal" \in due => IF paused THEN closedFor <= pausedFor + 1 ELSE closedFor = 0
  /\ "thermal" \notin due /\ paused => closedFor <= pausedFor

\* What one evaluation may make of the gate and the dead-man's two fields.
Outcome(pause, for, window) ==
  \/ /\ ~pause /\ (forcing <= 1 => for = 0)
     /\ forcing > 1 => for = pausedFor /\ window = forcing - 1
  \/ pause /\ forcing = 1 /\ for = 0 /\ window = 0
  \/ pause /\ forcing = 0 /\ for = pausedFor + 1 /\ window = 0 /\ for < Cap

\* Every evaluation of the dead-man has one of the outcomes.
LEMMA DeadmanTicks ==
  ASSUME TypeOK, NEW hotNow \in BOOLEAN
  PROVE  \E p \in BOOLEAN, f \in Nat, w \in Nat :
           DeadmanTick(hotNow) = [pause |-> p, for |-> f, window |-> w] /\ Outcome(p, f, w)
<1>t. pausedFor \in 0 .. Cap /\ forcing \in 0 .. Window /\ Window \in Nat
  BY StallAssumption DEF TypeOK
<1>1. CASE forcing > 1
  <2>1. DeadmanTick(hotNow) = [pause |-> FALSE, for |-> pausedFor, window |-> forcing - 1]
    BY <1>1 DEF DeadmanTick
  <2>2. Outcome(FALSE, pausedFor, forcing - 1) /\ pausedFor \in Nat /\ forcing - 1 \in Nat
    BY <1>t, <1>1 DEF Outcome
  <2> QED BY <2>1, <2>2
<1>2. CASE forcing <= 1 /\ (forcing = 1 \/ ~hotNow)
  <2>1. DeadmanTick(hotNow) = [pause |-> hotNow, for |-> 0, window |-> 0]
    BY <1>t, <1>2 DEF DeadmanTick
  <2>2. Outcome(hotNow, 0, 0)
    BY <1>t, <1>2 DEF Outcome
  <2> QED BY <2>1, <2>2
<1>3. CASE forcing = 0 /\ hotNow /\ CapReached
  <2>1. DeadmanTick(hotNow) = [pause |-> FALSE, for |-> 0, window |-> Window]
    BY <1>3 DEF DeadmanTick, OpenWindow
  <2>2. Outcome(FALSE, 0, Window)
    BY <1>3 DEF Outcome
  <2> QED BY <1>t, <2>1, <2>2
<1>4. CASE forcing = 0 /\ hotNow /\ ~CapReached
  <2>1. DeadmanTick(hotNow) = [pause |-> TRUE, for |-> pausedFor + 1, window |-> 0]
    BY <1>4 DEF DeadmanTick
  <2>2. pausedFor + 1 < Cap /\ pausedFor + 1 \in Nat
    BY <1>t, <1>4, StallAssumption DEF CapReached
  <2>3. Outcome(TRUE, pausedFor + 1, 0)
    BY <1>4, <2>2 DEF Outcome
  <2> QED BY <2>1, <2>2, <2>3
<1> QED BY <1>t, <1>1, <1>2, <1>3, <1>4

\* Every step keeps the dead-man's account of a pause, and a pause bounded.
LEMMA PauseStep ==
  TypeOK /\ PauseClock /\ PauseBounded /\ [Next]_vars => (PauseClock /\ PauseBounded)'
<1> SUFFICES ASSUME TypeOK, PauseClock, PauseBounded, [Next]_vars
             PROVE  PauseClock' /\ PauseBounded'
  OBVIOUS
<1> USE StallAssumption DEF PauseClock, PauseBounded
<1>t. pausedFor \in 0 .. Cap /\ forcing \in 0 .. Window /\ closedFor \in 0 .. Cap + 1
  BY DEF TypeOK
<1>1. CASE Tick
  <2>1. /\ "thermal" \notin due /\ "thermal" \in due'
        /\ closedFor' = (IF paused THEN Older(closedFor, Cap + 1) ELSE 0)
        /\ UNCHANGED <<paused, pausedFor, forcing>>
    BY <1>1 DEF Tick, thermal
  <2> QED BY <1>t, <2>1 DEF Older
<1>2. CASE Thermal
  <2>1. /\ "thermal" \in due /\ "thermal" \notin due' /\ closedFor' = closedFor
    BY <1>2 DEF Thermal, history
  <2>2. Outcome(paused', pausedFor', forcing')
    <3>1. Overheated(temp') \in BOOLEAN
      BY <1>2 DEF Thermal, Overheated
    <3>2. PICK p \in BOOLEAN, f \in Nat, w \in Nat :
            /\ DeadmanTick(Overheated(temp')) = [pause |-> p, for |-> f, window |-> w]
            /\ Outcome(p, f, w)
      BY <3>1, DeadmanTicks
    <3>3. paused' = p /\ pausedFor' = f /\ forcing' = w
      BY <1>2, <3>2 DEF Thermal, TickWithDeadman
    <3> QED BY <3>2, <3>3, Zenon
  <2>3. \/ ~paused'
        \/ forcing = 1 /\ paused' /\ pausedFor' = 0 /\ forcing' = 0
        \/ forcing = 0 /\ paused' /\ pausedFor' = pausedFor + 1 /\ pausedFor' < Cap /\ forcing' = 0
    BY <2>2 DEF Outcome
  <2> QED BY <1>t, <2>1, <2>3
<1>3. CASE Sweep \/ Break \/ Fault \/ Watch
  <2>1. /\ UNCHANGED <<paused, pausedFor, forcing, closedFor>>
        /\ ("thermal" \in due') <=> ("thermal" \in due)
    BY <1>3 DEF Sweep, Break, Fault, Watch, thermal
  <2> QED BY <2>1
<1>4. CASE Exited \/ UNCHANGED vars
  BY <1>4 DEF Exited, vars, thermal, history
<1> QED BY <1>1, <1>2, <1>3, <1>4 DEF Next

\* No thermal pause is longer than the cap, whatever the temperature does and
\* whenever it falls in a forced window.
THEOREM PauseIsBounded == Spec => []PauseBounded
<1>1. Init => PauseClock /\ PauseBounded
  BY StallAssumption DEF Init, PauseClock, PauseBounded
<1>2. TypeOK /\ PauseClock /\ PauseBounded /\ [Next]_vars => (PauseClock /\ PauseBounded)'
  BY PauseStep
<1> QED BY <1>1, <1>2, TypeCorrect, PTL DEF Spec

-----------------------------------------------------------------------------
(* The GPU that works.                                                     *)

\* The GPU is given work, one sample does not kill, and a heartbeat outlives the
\* period after it: so with every cpu_share below one, a dwell of 4 and a sample
\* that is stale after 3 polls, which are the code's.
Sampled == GpuRange /\ Stale > 0 /\ (Dwell > 1 \/ MaxRecoveries > 0)

\* A launch of this period has touched the heartbeat.
Touched == "sweep" \notin due => beat = 0

\* What a GPU that works shows: its rate, and a heartbeat that is old only if the
\* gate was closed, or opened in this period.
Beating ==
  /\ gpu = "good" /\ rate = "some" /\ beat # NoBeat
  /\ ~paused /\ "thermal" \in due => beat <= 1

\* The watchdog's state holds nothing against it when a period starts; what an
\* opening gate puts there is contradicted by the launch that must follow.
Absolved ==
  (streak > 0 \/ recoveries > 0) =>
    \/ beat = 0
    \/ "watchdog" \in due /\ beat <= 1
    \/ "watchdog" \notin due /\ "thermal" \notin due /\ ~paused

WorkingInv == Touched /\ (clean /\ ~exited => Beating /\ Absolved) /\ HealthyNotKilled

\* Every step keeps what a GPU that works shows, and does not kill it.
LEMMA WorkingStep ==
  ASSUME Sampled, TypeOK, WorkingInv, [Next]_vars
  PROVE  WorkingInv'
<1> USE StallAssumption DEF Sampled, Touched, Beating, Absolved, HealthyNotKilled
<1>t. beat \in 0 .. NoBeat /\ streak \in 0 .. Dwell /\ recoveries \in 0 .. MaxRecoveries
  BY DEF TypeOK
<1>i. Touched /\ (clean /\ ~exited => Beating /\ Absolved) /\ HealthyNotKilled
  BY DEF WorkingInv
<1>1. CASE Tick
  <2>1. /\ ~exited /\ due \subseteq {"sweep"}
        /\ due' = {"thermal", "watchdog", "sweep"}
        /\ beat' = (IF beat = NoBeat THEN NoBeat ELSE Older(beat, Stale + 1))
        /\ UNCHANGED <<paused, gpu, rate, streak, recoveries, exited>>
        /\ clean' => clean /\ ("sweep" \in due => paused)
    BY <1>1 DEF Tick, thermal
  <2>2. beat # NoBeat => beat' # NoBeat
    BY <1>t, <2>1 DEF NoBeat, Older
  <2>3. beat = 0 => beat' = 1
    BY <2>1 DEF NoBeat, Older
  <2>4. clean' /\ ~paused => beat = 0
    BY <1>i, <2>1
  <2>5. clean' => Beating'
    BY <1>i, <2>1, <2>2, <2>3, <2>4
  <2>6. clean' => Absolved'
    <3>1. CASE paused
      BY <1>i, <2>1, <2>3, <3>1
    <3>2. CASE ~paused
      BY <2>1, <2>3, <2>4, <3>2
    <3> QED BY <3>1, <3>2
  <2> QED BY <2>1, <2>5, <2>6 DEF WorkingInv
<1>2. CASE Thermal
  <2>1. /\ "thermal" \in due /\ due' = due \ {"thermal"}
        /\ UNCHANGED <<gpu, rate, beat, streak, recoveries, exited, clean>>
    BY <1>2 DEF Thermal, device, watchdog, history
  <2> QED BY <1>i, <2>1 DEF WorkingInv
<1>3. CASE Sweep
  <2>1. /\ gpu = "good" /\ ~exited /\ beat' = 0 /\ due' = due \ {"sweep"}
        /\ UNCHANGED <<paused, gpu, exited>>
    BY <1>3 DEF Sweep, thermal, watchdog
  <2>2. clean' => rate' = "some"
    <3>1. CASE UNCHANGED <<rate, clean>>
      BY <1>i, <2>1, <3>1
    <3>2. CASE rate' \in Rate(GpuRange) /\ clean' = (gap => rate' = "some")
      BY <3>2 DEF Rate
    <3> QED BY <1>3, <3>1, <3>2, Zenon DEF Sweep
  <2> QED BY <2>1, <2>2 DEF WorkingInv, NoBeat
<1>4. CASE Break
  <2>1. ~clean' /\ UNCHANGED <<due, beat>>
    BY <1>4 DEF Break
  <2> QED BY <1>i, <2>1 DEF WorkingInv
<1>5. CASE Fault
  <2>1. ~clean' /\ due' = due /\ (beat' = 0 \/ beat' = beat)
    BY <1>5 DEF Fault
  <2> QED BY <1>i, <2>1 DEF WorkingInv
<1>6. CASE Watch
  <2>1. /\ "watchdog" \in due /\ ~exited /\ due' = due \ {"watchdog"}
        /\ UNCHANGED <<paused, rate, beat, clean>>
    BY <1>6 DEF Watch, thermal
  <2>2. CASE ~clean
    BY <1>i, <2>1, <2>2 DEF WorkingInv
  <2>3. CASE clean /\ ~Stalled(flowing')
    <3>1. streak' = 0 /\ recoveries' = 0 /\ UNCHANGED <<exited, gpu>>
      BY <1>6, <2>3 DEF Watch
    <3> QED BY <1>i, <2>1, <2>3, <3>1 DEF WorkingInv
  <2>4. CASE clean /\ Stalled(flowing')
    <3>1. beat > Stale /\ ~paused
      BY <1>i, <2>1, <2>4 DEF Stalled, Floored
    <3>2. beat > 1 /\ "thermal" \notin due
      BY <1>i, <1>t, <2>1, <2>4, <3>1 DEF NoBeat
    <3>3. streak = 0 /\ recoveries = 0
      BY <1>i, <1>t, <2>1, <2>4, <3>2
    <3>4. Decision # "Exit"
      BY <3>3 DEF Decision
    <3>5. ~exited'
      BY <1>6, <2>4, <3>4 DEF Watch, Stalled
    <3>6. gpu' = "good"
      BY <1>6, <1>i, <2>1, <2>4 DEF Watch, Recovered, Stalled
    <3> QED BY <1>i, <2>1, <2>4, <3>1, <3>2, <3>5, <3>6 DEF WorkingInv
  <2> QED BY <2>2, <2>3, <2>4
<1>7. CASE Exited \/ UNCHANGED vars
  BY <1>i, <1>7 DEF Exited, vars, thermal, device, watchdog, history, WorkingInv
<1> QED BY <1>1, <1>2, <1>3, <1>4, <1>5, <1>6, <1>7 DEF Next

\* A GPU that has published a rate since its last trouble is not killed, not even
\* for the heartbeat a pause has let grow old: the launch after it comes before a
\* second sample.  A failed launch, a period with the gate open and no launch, and
\* a rate that reads under the floor after a gap are trouble.
THEOREM HealthyIsSpared ==
  ASSUME Sampled
  PROVE  Spec => []HealthyNotKilled
<1>1. Init => WorkingInv
  BY DEF Init, WorkingInv, Touched, HealthyNotKilled
<1>2. TypeOK /\ WorkingInv /\ [Next]_vars => WorkingInv'
  BY WorkingStep
<1>3. WorkingInv => HealthyNotKilled
  BY DEF WorkingInv
<1> QED BY <1>1, <1>2, <1>3, TypeCorrect, PTL DEF Spec

-----------------------------------------------------------------------------
(* A card that stays hot.                                                  *)

\* Between two pauses the watchdog sees a forced window and one sample on either
\* side of it: while the window is open, the time without a sample that showed no
\* stall and what is left of the window do not add up to more.  A pause of two
\* periods or more is always seen.
HotAccount ==
  /\ ~exited
  /\ ~paused /\ forcing = 0 => "thermal" \in due /\ stallFor = 0 /\ pausedFor = 0
  /\ forcing > 0 => /\ ~paused
                    /\ stallFor + forcing <= Window + (IF "thermal" \in due THEN 2 ELSE 1)
  /\ paused =>
       /\ forcing = 0
       /\ "watchdog" \notin due /\ ("thermal" \in due \/ pausedFor > 0) => stallFor = 0
       /\ {"thermal", "watchdog"} \subseteq due /\ pausedFor > 0 => stallFor <= 1

\* What an evaluation makes of a hot sample.
LEMMA HotTick ==
  ASSUME TypeOK, Thermal, temp' = "hot"
  PROVE  \/ forcing > 1 /\ ~paused' /\ pausedFor' = pausedFor /\ forcing' = forcing - 1
         \/ forcing = 1 /\ paused' /\ pausedFor' = 0 /\ forcing' = 0
         \/ /\ forcing = 0 /\ pausedFor + 1 >= Cap
            /\ ~paused' /\ pausedFor' = 0 /\ forcing' = Window
         \/ forcing = 0 /\ paused' /\ pausedFor' = pausedFor + 1 /\ forcing' = 0
<1>t. pausedFor \in 0 .. Cap /\ forcing \in 0 .. Window /\ Window \in Nat
  BY StallAssumption DEF TypeOK
<1>h. PICK h \in BOOLEAN : h = Overheated(temp') /\ h
  BY DEF Overheated
<1>d. /\ paused' = DeadmanTick(h).pause /\ pausedFor' = DeadmanTick(h).for
      /\ forcing' = DeadmanTick(h).window
  BY <1>h DEF Thermal, TickWithDeadman
<1>1. CASE forcing > 1
  <2>1. DeadmanTick(h) = [pause |-> FALSE, for |-> pausedFor, window |-> forcing - 1]
    BY <1>1 DEF DeadmanTick
  <2> QED BY <1>1, <1>d, <2>1
<1>2. CASE forcing = 1
  <2>1. DeadmanTick(h) = [pause |-> h, for |-> 0, window |-> 0]
    BY <1>2 DEF DeadmanTick
  <2>2. paused' = h /\ pausedFor' = 0 /\ forcing' = 0
    BY <1>d, <2>1
  <2>3. paused'
    BY <1>h, <2>2, Zenon
  <2> QED BY <1>2, <2>2, <2>3
<1>3. CASE forcing = 0 /\ CapReached
  <2>1. DeadmanTick(h) = [pause |-> FALSE, for |-> 0, window |-> Window]
    BY <1>3, <1>h DEF DeadmanTick, OpenWindow
  <2> QED BY <1>3, <1>d, <2>1 DEF CapReached
<1>4. CASE forcing = 0 /\ ~CapReached
  <2>1. DeadmanTick(h) = [pause |-> TRUE, for |-> pausedFor + 1, window |-> 0]
    BY <1>4, <1>h DEF DeadmanTick
  <2> QED BY <1>4, <1>d, <2>1
<1> QED BY <1>t, <1>1, <1>2, <1>3, <1>4

\* A smaller number has the smaller sum.
LEMMA SumLeq ==
  ASSUME NEW a \in Nat, NEW b \in Nat, NEW c \in Nat, NEW n \in Nat, a <= b, b + c <= n
  PROVE  a + c <= n
OBVIOUS

\* Every step on a hot card keeps the account, and a short window is over before
\* the ladder.
LEMMA HotStep ==
  ASSUME Cap > 1, Window + 1 < Ladder, TypeOK, LadderComplete', HotAccount,
         [Next]_vars, [Thermal => temp' = "hot"]_vars
  PROVE  HotAccount'
<1> USE StallAssumption DEF HotAccount
<1>t. /\ pausedFor \in 0 .. Cap /\ forcing \in 0 .. Window /\ stallFor \in 0 .. Ladder
      /\ Ladder \in Nat
  BY LadderType DEF TypeOK
<1>1. CASE Tick
  <2>1. /\ due \subseteq {"sweep"} /\ {"thermal", "watchdog"} \subseteq due'
        /\ stallFor' = Older(stallFor, Ladder)
        /\ UNCHANGED <<paused, pausedFor, forcing, exited>>
    BY <1>1 DEF Tick, thermal
  <2>2. stallFor' \in Nat /\ stallFor' <= stallFor + 1
    BY <1>t, <2>1 DEF Older
  <2>3. "thermal" \notin due /\ "watchdog" \notin due
    BY <2>1
  <2>4. paused \/ forcing > 0
    BY <1>t, <2>3
  <2>5. CASE paused
    BY <1>t, <2>1, <2>2, <2>3, <2>5
  <2>6. CASE ~paused
    <3>1. forcing > 0 /\ stallFor + forcing <= Window + 1
      BY <2>3, <2>4, <2>6
    <3>2. stallFor' + forcing' <= Window + 2
      BY <1>t, <2>1, <2>2, <3>1
    <3> QED BY <2>1, <2>6, <3>1, <3>2
  <2> QED BY <2>5, <2>6
<1>2. CASE Thermal
  <2>1. /\ "thermal" \in due /\ "thermal" \notin due'
        /\ ("watchdog" \in due') <=> ("watchdog" \in due)
        /\ UNCHANGED <<stallFor, exited>>
    BY <1>2 DEF Thermal, history, watchdog
  <2>2. temp' = "hot"
    <3>1. due' # due
      BY <2>1
    <3> QED BY <1>2, <3>1 DEF vars
  <2>3. CASE forcing > 1 /\ ~paused' /\ pausedFor' = pausedFor /\ forcing' = forcing - 1
    BY <1>t, <2>1, <2>3
  <2>4. CASE forcing = 1 /\ paused' /\ pausedFor' = 0 /\ forcing' = 0
    BY <1>t, <2>1, <2>4
  <2>5. CASE /\ forcing = 0 /\ pausedFor + 1 >= Cap
             /\ ~paused' /\ pausedFor' = 0 /\ forcing' = Window
    <3>1. pausedFor > 0 /\ paused
      BY <1>t, <2>5
    <3>2. stallFor <= 1
      BY <2>1, <3>1
    <3> QED BY <1>t, <2>1, <2>5, <3>2
  <2>6. CASE forcing = 0 /\ paused' /\ pausedFor' = pausedFor + 1 /\ forcing' = 0
    BY <1>t, <2>1, <2>6
  <2> QED BY <1>2, <2>2, <2>3, <2>4, <2>5, <2>6, HotTick
<1>3. CASE Watch
  <2>1. /\ "watchdog" \in due /\ "watchdog" \notin due'
        /\ ("thermal" \in due') <=> ("thermal" \in due)
        /\ UNCHANGED <<paused, pausedFor, forcing>>
    BY <1>3 DEF Watch, thermal
  <2>2. stallFor' \in {0, stallFor} /\ (paused => stallFor' = 0)
    BY <1>3 DEF Watch
  <2>3. ~exited'
    <3>1. CASE paused
      BY <1>3, <3>1 DEF Watch, Stalled
    <3>2. CASE ~paused
      <4>1. stallFor' < Ladder
        BY <1>t, <2>2, <3>2
      <4> QED BY <1>t, <2>2, <4>1 DEF LadderComplete
    <3> QED BY <3>1, <3>2
  <2>4. stallFor' \in Nat /\ stallFor' <= stallFor
    BY <1>t, <2>2
  <2>5. CASE paused
    BY <2>1, <2>2, <2>3, <2>5
  <2>6. CASE ~paused
    <3>1. CASE forcing = 0
      BY <1>t, <2>1, <2>3, <2>4, <2>6, <3>1
    <3>2. CASE forcing > 0
      <4>1. forcing' = forcing /\ forcing \in Nat /\ stallFor \in Nat
        BY <1>t, <2>1
      <4>2. PICK n \in Nat : n = Window + (IF "thermal" \in due' THEN 2 ELSE 1)
        OBVIOUS
      <4>3. stallFor + forcing <= n
        BY <2>1, <3>2, <4>2
      <4>4. stallFor' + forcing' <= n
        BY <2>4, <4>1, <4>3, SumLeq
      <4> QED BY <2>1, <2>3, <2>6, <3>2, <4>2, <4>4
    <3> QED BY <1>t, <3>1, <3>2
  <2> QED BY <2>5, <2>6
<1>4. CASE Sweep \/ Break \/ Fault
  <2>1. /\ ("thermal" \in due') <=> ("thermal" \in due)
        /\ ("watchdog" \in due') <=> ("watchdog" \in due)
        /\ UNCHANGED <<paused, pausedFor, forcing, stallFor, exited>>
    BY <1>4 DEF Sweep, Break, Fault, thermal, watchdog, history
  <2> QED BY <2>1
<1>5. CASE Exited \/ UNCHANGED vars
  BY <1>5 DEF Exited, vars, thermal, watchdog, history
<1> QED BY <1>1, <1>2, <1>3, <1>4, <1>5 DEF Next

\* While the card reads hot at every evaluation, a forced window that is shorter
\* than the watchdog's ladder hides a hung GPU for good: each pause resets the
\* ladder, and the process never exits.
THEOREM ShortWindowHidesHungGpu ==
  ASSUME Cap > 1, Window + 1 < Ladder
  PROVE  Spec /\ [][Thermal => temp' = "hot"]_vars => []~exited
<1>1. Init => HotAccount
  BY StallAssumption DEF Init, HotAccount
<1>2. TypeOK /\ LadderComplete' /\ HotAccount /\ [Next]_vars /\ [Thermal => temp' = "hot"]_vars
        => HotAccount'
  BY HotStep
<1>3. HotAccount => ~exited
  BY DEF HotAccount
<1> QED BY <1>1, <1>2, <1>3, TypeCorrect, ExitIsEarned, PTL DEF Spec
=============================================================================
