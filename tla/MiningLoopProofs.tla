--------------------------- MODULE MiningLoopProofs ---------------------------
(***************************************************************************)
(* Proofs that no job change is lost on the mining loop, none is seen that *)
(* did not happen, and no two launches in a row are of one header space:   *)
(* for every set of jobs, those that cannot be mapped among them, every    *)
(* number of sessions and slices.                                          *)
(***************************************************************************)
EXTENDS MiningLoop, TLAPS

\* The block has changed since the copy was taken whenever the flag says so,
\* or is about to: the flag is lowered after the copy and raised under the lock
\* the copy is taken under.
FlagIsEarned ==
  /\ npc = "raise" => moved
  /\ (lpc \in {"check", "sweep", "settle"} /\ newJob) => moved

\* A launch under way is about the work and the extranonce2 of the loop.
LaunchIsWork == lpc \in {"sweep", "settle"} => launch = Space(work, xn2)

\* The inductive invariant.
IInv == TypeOK /\ StaleIsPreempted /\ FlagIsEarned /\ LaunchIsWork

\* A publication is a StratumJob of the job, extranonce1 and session it is made of.
LEMMA PublishedType ==
  ASSUME NEW j \in Jobs, NEW x \in Nat, NEW s \in Nat
  PROVE  /\ Published(j, x, s) \in StratumJob
         /\ Published(j, x, s) # NoJob
         /\ Published(j, x, s).job = j
BY JobsAssumption DEF Published, StratumJob

\* A job the loop may launch is on the block of the slot: a job_id names one.
LEMMA SameIdSameBlock ==
  ASSUME NEW a \in StratumJob, NEW b \in StratumJob, a.job.id = b.job.id
  PROVE  a.job.prev = b.job.prev
BY LoopAssumption DEF StratumJob

\* Every step keeps the types.
LEMMA TypeStep == TypeOK /\ [Next]_vars => TypeOK'
<1> SUFFICES ASSUME TypeOK, [Next]_vars PROVE TypeOK'
  OBVIOUS
<1> USE LoopAssumption DEF TypeOK, readerVars, sweepVars, history
<1>1. ASSUME NEW j \in Jobs, Notify(j) PROVE TypeOK'
  <2>1. slot' \in StratumJob /\ slot' # NoJob
    BY <1>1, PublishedType DEF Notify
  <2>2. npc' \in {"idle", "raise"} /\ sent' \in Nat
    BY <1>1 DEF Notify
  <2>3. moved' \in BOOLEAN
    <3>1. PrevChanged(slot, j) \in BOOLEAN
      BY Zenon DEF PrevChanged
    <3> QED BY <1>1, <3>1 DEF Notify
  <2>4. UNCHANGED <<xn1, newJob, lpc, work, xn2, sweepVars, stop, paused, launch>>
    BY <1>1 DEF Notify
  <2> QED BY <2>1, <2>2, <2>3, <2>4
<1>2. CASE Raise
  BY <1>2 DEF Raise
<1>3. CASE NewSession
  BY <1>3 DEF NewSession
<1>4. CASE Intake \/ Idle
  BY <1>4 DEF Intake, Idle, Mappable
<1>5. CASE Clear
  BY <1>5 DEF Clear
<1>6. CASE Leave \/ Refresh
  BY <1>6 DEF Leave, Refresh
<1>7. CASE Launch
  BY <1>7 DEF Launch
<1>8. CASE Boundary
  <2>1. /\ lpc' \in {"sweep", "settle"} /\ slices' \in Nat /\ found' \in Outcome
        /\ UNCHANGED <<readerVars, newJob, work, xn2, stop, paused, history>>
    BY <1>8 DEF Boundary, Outcome
  <2>2. running' \in BOOLEAN
    BY <1>8, Zenon DEF Boundary
  <2>3. lpc = "sweep"
    BY <1>8 DEF Boundary
  <2> QED BY <2>1, <2>2, <2>3
<1>9. CASE SliceDone
  BY <1>9 DEF SliceDone
<1>10. CASE Settle
  BY <1>10 DEF Settle, NextXn2
<1>11. CASE Stop \/ Gate
  <2>1. stop' \in BOOLEAN /\ paused' \in BOOLEAN
    BY <1>11, Zenon DEF Stop, Gate
  <2>2. UNCHANGED <<readerVars, newJob, lpc, work, xn2, sweepVars, history>>
    BY <1>11 DEF Stop, Gate
  <2> QED BY <2>1, <2>2
<1>12. CASE UNCHANGED vars
  BY <1>12 DEF vars
<1> QED
  BY <1>1, <1>2, <1>3, <1>4, <1>5, <1>6, <1>7, <1>8, <1>9, <1>10, <1>11, <1>12
     DEF Next, Reader, Loop

\* Every step keeps the flag in line with the slot and the launch with the work.
LEMMA FlagStep == IInv /\ [Next]_vars => (StaleIsPreempted /\ FlagIsEarned /\ LaunchIsWork)'
<1> SUFFICES ASSUME IInv, [Next]_vars
             PROVE  (StaleIsPreempted /\ FlagIsEarned /\ LaunchIsWork)'
  OBVIOUS
<1> USE DEF IInv, StaleIsPreempted, FlagIsEarned, LaunchIsWork, readerVars, sweepVars, history
<1>1. ASSUME NEW j \in Jobs, Notify(j)
      PROVE  (StaleIsPreempted /\ FlagIsEarned /\ LaunchIsWork)'
  <2>1. /\ npc = "idle" /\ UNCHANGED <<xn1, newJob, lpc, work, xn2, launch>>
        /\ slot'.job = j
        /\ npc' = IF PrevChanged(slot, j) THEN "raise" ELSE "idle"
        /\ moved' = (moved \/ PrevChanged(slot, j))
    BY <1>1, PublishedType DEF Notify, TypeOK
  <2>2. ~PrevChanged(slot, j) => slot.job.prev = slot'.job.prev
    BY <2>1 DEF PrevChanged
  <2> QED BY <2>1, <2>2
<1>2. CASE Raise
  BY <1>2 DEF Raise
<1>3. CASE NewSession
  BY <1>3 DEF NewSession
<1>4. CASE Intake \/ Idle
  BY <1>4 DEF Intake, Idle, SlotFree
<1>5. CASE Clear
  BY <1>5 DEF Clear
<1>6. CASE Leave \/ Refresh
  BY <1>6 DEF Leave, Refresh
<1>7. CASE Launch
  <2>1. work.job.prev = slot.job.prev
    <3>1. slot \in StratumJob /\ work \in StratumJob /\ slot.job.id = work.job.id
      BY <1>7 DEF Launch, JobChanged, TypeOK
    <3> QED BY <3>1, SameIdSameBlock
  <2> QED BY <1>7, <2>1 DEF Launch
<1>8. CASE Boundary
  BY <1>8 DEF Boundary
<1>9. CASE SliceDone
  BY <1>9 DEF SliceDone
<1>10. CASE Settle
  BY <1>10 DEF Settle
<1>11. CASE Stop \/ Gate
  BY <1>11 DEF Stop, Gate
<1>12. CASE UNCHANGED vars
  BY <1>12 DEF vars
<1> QED
  BY <1>1, <1>2, <1>3, <1>4, <1>5, <1>6, <1>7, <1>8, <1>9, <1>10, <1>11, <1>12
     DEF Next, Reader, Loop

\* The first state: no job, nothing swept.
LEMMA InitInvariant == Init => IInv
<1> SUFFICES ASSUME Init PROVE IInv
  OBVIOUS
<1>1. /\ newJob \in BOOLEAN /\ running \in BOOLEAN /\ stop \in BOOLEAN
      /\ paused \in BOOLEAN /\ moved \in BOOLEAN
  BY Zenon DEF Init
<1>2. /\ npc = "idle" /\ sent = 0 /\ xn1 = 1 /\ slot = NoJob /\ work = NoJob
      /\ lpc = "intake" /\ slices = 0 /\ found = "none" /\ xn2 \in 0 .. Xn2Mod - 1
  BY DEF Init
<1>3. TypeOK
  BY <1>1, <1>2, LoopAssumption DEF TypeOK, Outcome
<1> QED
  BY <1>2, <1>3 DEF IInv, StaleIsPreempted, FlagIsEarned, LaunchIsWork

\* The inductive invariant holds throughout.
LEMMA Invariance == Spec => []IInv
<1>1. IInv /\ [Next]_vars => IInv'
  BY TypeStep, FlagStep DEF IInv
<1> QED BY InitInvariant, <1>1, PTL DEF Spec

\* Type correctness.
THEOREM TypeCorrect == Spec => []TypeOK
<1>1. IInv => TypeOK BY DEF IInv
<1> QED BY Invariance, <1>1, PTL

\* No job change is lost between the copy of the slot and the sweep.
THEOREM StaleSweepsArePreempted == Spec => []StaleIsPreempted
<1>1. IInv => StaleIsPreempted BY DEF IInv
<1> QED BY Invariance, <1>1, PTL

\* No sweep is preempted by a job on its own block.
THEOREM PreemptionIsEarned == Spec => []NoSpuriousPreempt
<1>1. IInv => NoSpuriousPreempt BY DEF IInv, FlagIsEarned, NoSpuriousPreempt
<1> QED BY Invariance, <1>1, PTL

\* No slice is started on a left block but in the instant of the job change.
THEOREM NoSliceIsStale == Spec => NoStaleSlice
<1> DEFINE Fresh == (~running /\ running' /\ work.job.prev # slot.job.prev) => npc = "raise"
<1>1. IInv /\ [Next]_vars => [Fresh]_vars
  <2> SUFFICES ASSUME IInv, Next, ~running, running', work.job.prev # slot.job.prev
               PROVE  npc = "raise"
    BY DEF vars
  <2> USE DEF readerVars, sweepVars, history
  <2>1. ASSUME NEW j \in Jobs, Notify(j) PROVE FALSE
    BY <2>1 DEF Notify
  <2>2. CASE Raise \/ NewSession \/ Intake \/ Idle \/ Clear \/ Leave \/ Refresh \/ Launch
             \/ SliceDone \/ Settle \/ Stop \/ Gate
    BY <2>2 DEF Raise, NewSession, Intake, Idle, Clear, Leave, Refresh, Launch, SliceDone,
                Settle, Stop, Gate
  <2>3. CASE Boundary
    BY <2>3 DEF Boundary, Cancelled, IInv, StaleIsPreempted
  <2> QED BY <2>1, <2>2, <2>3 DEF Next, Reader, Loop
<1> QED BY Invariance, <1>1, PTL DEF Spec, NoStaleSlice

-----------------------------------------------------------------------------
(* The extranonce2 of the launches.                                        *)

\* Between two launches the loop has rolled past the extranonce2 of the last one.
Rolled ==
  lpc \in {"intake", "clear", "check"} =>
    launch = NoSpace \/ (launch.xn2 \in 0 .. Xn2Mod - 1 /\ xn2 = (launch.xn2 + 1) % Xn2Mod)

\* A header space in use is of a session, and those are counted from one.
OfSession ==
  xn1 > 0 /\ (slot # NoJob => slot.xn1 > 0) /\ (work # NoJob => work.xn1 > 0)

\* To roll is to change, with two values to roll over.
LEMMA RollMoves ==
  ASSUME NEW x \in 0 .. Xn2Mod - 1, Xn2Mod > 1
  PROVE  (x + 1) % Xn2Mod # x
<1>1. CASE x + 1 = Xn2Mod
  <2>1. (x + 1) % Xn2Mod = 0 /\ x > 0
    BY <1>1, LoopAssumption
  <2> QED BY <2>1
<1>2. CASE x + 1 < Xn2Mod
  <2>1. (x + 1) % Xn2Mod = x + 1
    BY <1>2, LoopAssumption
  <2> QED BY <2>1
<1> QED BY <1>1, <1>2, LoopAssumption

\* Every way out of a launch rolls, and nothing else does.
LEMMA RolledStep == IInv /\ Rolled /\ [Next]_vars => Rolled'
<1> SUFFICES ASSUME IInv, Rolled, [Next]_vars PROVE Rolled'
  OBVIOUS
<1> USE DEF Rolled, readerVars, sweepVars, history
<1>1. ASSUME NEW j \in Jobs, Notify(j) PROVE Rolled'
  BY <1>1 DEF Notify
<1>2. CASE Raise \/ NewSession \/ Stop \/ Gate \/ UNCHANGED vars
  BY <1>2 DEF Raise, NewSession, Stop, Gate, vars
<1>3. CASE Intake \/ Idle \/ Clear \/ Leave \/ Refresh
  BY <1>3 DEF Intake, Idle, Clear, Leave, Refresh
<1>4. CASE Launch \/ Boundary \/ SliceDone
  <2>1. lpc' \in {"sweep", "settle"}
    BY <1>4 DEF Launch, Boundary, SliceDone
  <2> QED BY <2>1
<1>5. CASE Settle
  <2>1. lpc = "settle" /\ launch' = launch /\ xn2' = (xn2 + 1) % Xn2Mod
    BY <1>5 DEF Settle, NextXn2
  <2>2. launch = Space(work, xn2) /\ xn2 \in 0 .. Xn2Mod - 1
    BY <2>1 DEF IInv, LaunchIsWork, TypeOK
  <2>3. launch.xn2 = xn2
    BY <2>2 DEF Space
  <2> QED BY <2>1, <2>2, <2>3
<1> QED BY <1>1, <1>2, <1>3, <1>4, <1>5 DEF Next, Reader, Loop

\* No step takes up work without a session.
LEMMA SessionStep == TypeOK /\ OfSession /\ [Next]_vars => OfSession'
<1> SUFFICES ASSUME TypeOK, OfSession, [Next]_vars PROVE OfSession'
  OBVIOUS
<1> USE DEF OfSession, readerVars, sweepVars, history
<1>1. ASSUME NEW j \in Jobs, Notify(j) PROVE OfSession'
  <2>1. slot'.xn1 = xn1 /\ UNCHANGED <<xn1, work>>
    BY <1>1 DEF Notify, Published
  <2> QED BY <2>1
<1>2. CASE NewSession
  BY <1>2 DEF NewSession, TypeOK
<1>3. CASE Intake \/ Idle
  BY <1>3 DEF Intake, Idle
<1>4. CASE Raise \/ Clear \/ Leave \/ Refresh \/ Launch \/ Boundary \/ SliceDone \/ Settle
           \/ Stop \/ Gate \/ UNCHANGED vars
  BY <1>4 DEF Raise, Clear, Leave, Refresh, Launch, Boundary, SliceDone, Settle, Stop, Gate, vars
<1> QED BY <1>1, <1>2, <1>3, <1>4 DEF Next, Reader, Loop

\* No launch is of the header space of the one before it, whatever ended that one.
THEOREM LaunchesDiffer == Spec => NoRepeatedLaunch
<1> DEFINE Fresh == (lpc = "check" /\ lpc' = "sweep" /\ Xn2Mod > 1) => launch' # launch
<1>1. Init => Rolled /\ OfSession
  BY DEF Init, Rolled, OfSession
<1>2. IInv /\ Rolled /\ OfSession /\ [Next]_vars => [Fresh]_vars
  <2> SUFFICES ASSUME IInv, Rolled, OfSession, Next, lpc = "check", lpc' = "sweep", Xn2Mod > 1
               PROVE  launch' # launch
    BY DEF vars
  <2>1. Launch
    <3>1. ASSUME NEW j \in Jobs, Notify(j) PROVE FALSE
      BY <3>1 DEF Notify
    <3> QED BY <3>1 DEF Next, Reader, Loop, Raise, NewSession, Intake, Idle, Clear, Leave,
                        Refresh, Boundary, SliceDone, Settle, Stop, Gate
  <2>2. launch' = Space(work, xn2) /\ work # NoJob /\ work \in StratumJob
    BY <2>1 DEF Launch, IInv, TypeOK
  <2>3. launch'.xn2 = xn2 /\ launch'.xn1 = work.xn1 /\ work.xn1 > 0
    BY <2>2 DEF Space, OfSession
  <2>4. CASE launch = NoSpace
    <3>1. launch.xn1 = 0
      BY <2>4 DEF NoSpace
    <3> QED BY <2>3, <3>1
  <2>5. CASE launch # NoSpace
    BY <2>3, <2>5, RollMoves DEF Rolled
  <2> QED BY <2>4, <2>5
<1>3. IInv => TypeOK
  BY DEF IInv
<1>4. Spec => [](Rolled /\ OfSession)
  BY <1>1, <1>3, RolledStep, SessionStep, Invariance, PTL DEF Spec
<1> QED BY <1>2, <1>4, Invariance, PTL DEF Spec, NoRepeatedLaunch
=============================================================================
