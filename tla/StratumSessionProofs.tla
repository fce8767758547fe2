------------------------ MODULE StratumSessionProofs ------------------------
(***************************************************************************)
(* Proofs that the safety invariants of StratumSession hold for every      *)
(* number of endpoints, connections and shares, every streak limit and     *)
(* every set of jobs.                                                      *)
(***************************************************************************)
EXTENDS StratumSession, TLAPS

\* What the invariants need of each other to be inductive: the published
\* extranonce1 runs ahead of the socket exactly while early pushes are
\* replayed, the reported endpoint lags it exactly while the reconnect
\* finishes, one arm is worth at most one rotation to come, and the hint is
\* not cached before the main thread caches it.
Glue ==
  /\ xn1 = IF rpc = "replay" THEN sock + 1 ELSE sock
  /\ rpc # "finish" => currentEp = sockEp
  /\ rpc = "finish" => sockEp = cur
  /\ armed <= failovers + 1
  /\ mpc = "boot" => ~hintCached

\* What the inductive invariant adds to the types.
Relations ==
  /\ Glue /\ StreakAccurate /\ AcksBounded
  /\ JobOfItsSession /\ ReportedEndpoint /\ ArmNotLost /\ HintOnEverySession

\* Rotating stays within the endpoint list.
LEMMA AdvanceInRange ==
  ASSUME NEW c \in Endpoint
  PROVE  Advance(c) \in Endpoint
BY EndpointAssumption DEF Advance, Endpoint

\* The client's state keeps its type, whatever step is taken.
LEMMA TypeStep == TypeOK /\ Glue /\ [Next]_vars => TypeOK'
<1> SUFFICES ASSUME TypeOK, Glue, [Next]_vars PROVE TypeOK'
  OBVIOUS
<1> USE DEF TypeOK, Glue, reader, counts, jobs, flags, threads
<1>1. ASSUME Reader PROVE TypeOK'
  <2>1. CASE RTop BY <2>1 DEF RTop
  <2>2. CASE RAck BY <2>2 DEF RAck
  <2>3. ASSUME NEW j \in Jobs, RNotify(j) PROVE TypeOK'
    BY <2>3 DEF RNotify, Dispatch, Published, StratumJob
  <2>4. CASE RIdle BY <2>4 DEF RIdle
  <2>5. CASE REnd
    <3>1. cur' \in Endpoint
      BY <2>5, AdvanceInRange DEF REnd, Rotate
    <3>2. forceFailover' \in BOOLEAN
      BY <2>5, Zenon DEF REnd, Rotate
    <3>3. failovers' \in Nat
      BY <2>5 DEF REnd, Rotate
    <3>4. rpc' \in {"exited", "redial"}
      BY <2>5 DEF REnd
    <3>5. UNCHANGED <<sock, sockEp, reconnects, currentEp, link, counts, jobs,
                      shutdown, hintCached, armed, hinted, threads>>
      BY <2>5 DEF REnd
    <3> QED BY <3>1, <3>2, <3>3, <3>4, <3>5
  <2>6. CASE RRedial BY <2>6, EndpointAssumption DEF RRedial, GiveUp, Endpoint
  <2>7. CASE RDialFail BY <2>7, AdvanceInRange DEF RDialFail
  <2>8. CASE RDialOk BY <2>8, SessionAssumption DEF RDialOk
  <2>9. ASSUME NEW j \in Jobs, RReplay(j) PROVE TypeOK'
    BY <2>9 DEF RReplay, Dispatch, Published, StratumJob
  <2>10. CASE RSwap BY <2>10, SessionAssumption DEF RSwap, Reset, Resend
  <2>11. CASE RFinish BY <2>11 DEF RFinish, RecordEndpoint
  <2> QED
    BY <1>1, <2>1, <2>2, <2>3, <2>4, <2>5, <2>6, <2>7, <2>8, <2>9, <2>10, <2>11
       DEF Reader, ReadFrame
<1>2. ASSUME Miner PROVE TypeOK'
  <2>1. CASE MCacheHint BY <2>1 DEF MCacheHint
  <2>2. CASE MSendHint BY <2>2 DEF MSendHint
  <2>3. CASE MNoHint BY <2>3 DEF MNoHint
  <2>4. CASE MTake
    <3>1. newJob' \in BOOLEAN
      BY <2>4 DEF MTake
    <3>2. UNCHANGED <<reader, link, counts, xn1, slot, flags, threads>>
      BY <2>4 DEF MTake
    <3> QED BY <3>1, <3>2
  <2>5. CASE MWrite BY <2>5 DEF MWrite
  <2>6. CASE MCount BY <2>6 DEF MCount, Account
  <2>7. CASE MStop BY <2>7 DEF MStop
  <2> QED BY <1>2, <2>1, <2>2, <2>3, <2>4, <2>5, <2>6, <2>7 DEF Miner
<1>3. ASSUME Watchdog PROVE TypeOK'
  <2>1. CASE WPoll BY <2>1, SessionAssumption DEF WPoll, Unanswered
  <2>2. CASE WArm BY <2>2 DEF WArm
  <2>3. CASE WCut BY <2>3, SessionAssumption DEF WCut
  <2>4. CASE WExit BY <2>4 DEF WExit
  <2> QED BY <1>3, <2>1, <2>2, <2>3, <2>4 DEF Watchdog
<1>4. ASSUME Drop PROVE TypeOK'
  <2>1. CASE DSignal BY <2>1 DEF DSignal
  <2>2. CASE DCut BY <2>2 DEF DCut
  <2>3. CASE DJoin BY <2>3 DEF DJoin
  <2> QED BY <1>4, <2>1, <2>2, <2>3 DEF Drop
<1>5. ASSUME PoolClose PROVE TypeOK'
  BY <1>5 DEF PoolClose
<1>6. ASSUME Terminated \/ UNCHANGED vars PROVE TypeOK'
  BY <1>6 DEF Terminated, vars
<1> QED BY <1>1, <1>2, <1>3, <1>4, <1>5, <1>6 DEF Next

\* The invariants carry over every step.
LEMMA RelationsStep == TypeOK /\ Relations /\ [Next]_vars => Relations'
<1> SUFFICES ASSUME TypeOK, Relations, [Next]_vars PROVE Relations'
  OBVIOUS
<1> USE DEF TypeOK, Relations, Glue, StreakAccurate, AcksBounded, InFlight,
            JobOfItsSession, ReportedEndpoint, ArmNotLost, HintOnEverySession,
            reader, counts, jobs, flags, threads
<1>1. ASSUME Reader PROVE Relations'
  <2>1. CASE RTop BY <2>1 DEF RTop
  <2>2. CASE RAck BY <2>2 DEF RAck
  <2>3. ASSUME NEW j \in Jobs, RNotify(j) PROVE Relations'
    BY <2>3 DEF RNotify, Dispatch, Published
  <2>4. CASE RIdle BY <2>4 DEF RIdle
  <2>5. CASE REnd BY <2>5 DEF REnd, Rotate
  <2>6. CASE RRedial BY <2>6 DEF RRedial
  <2>7. CASE RDialFail BY <2>7 DEF RDialFail
  <2>8. CASE RDialOk BY <2>8 DEF RDialOk
  <2>9. ASSUME NEW j \in Jobs, RReplay(j) PROVE Relations'
    BY <2>9 DEF RReplay, Dispatch, Published
  <2>10. CASE RSwap BY <2>10 DEF RSwap, Reset, Resend
  <2>11. CASE RFinish BY <2>11 DEF RFinish, RecordEndpoint
  <2> QED
    BY <1>1, <2>1, <2>2, <2>3, <2>4, <2>5, <2>6, <2>7, <2>8, <2>9, <2>10, <2>11
       DEF Reader, ReadFrame
<1>2. ASSUME Miner PROVE Relations'
  <2>1. CASE MCacheHint BY <2>1 DEF MCacheHint
  <2>2. CASE MSendHint BY <2>2 DEF MSendHint
  <2>3. CASE MNoHint BY <2>3 DEF MNoHint
  <2>4. CASE MTake BY <2>4 DEF MTake
  <2>5. CASE MWrite BY <2>5 DEF MWrite
  <2>6. CASE MCount BY <2>6 DEF MCount, Account
  <2>7. CASE MStop BY <2>7 DEF MStop
  <2> QED BY <1>2, <2>1, <2>2, <2>3, <2>4, <2>5, <2>6, <2>7 DEF Miner
<1>3. ASSUME Watchdog PROVE Relations'
  <2>1. CASE WPoll BY <2>1 DEF WPoll, Unanswered
  <2>2. CASE WArm BY <2>2 DEF WArm
  <2>3. CASE WCut BY <2>3 DEF WCut
  <2>4. CASE WExit BY <2>4 DEF WExit
  <2> QED BY <1>3, <2>1, <2>2, <2>3, <2>4 DEF Watchdog
<1>4. ASSUME Drop PROVE Relations'
  <2>1. CASE DSignal BY <2>1 DEF DSignal
  <2>2. CASE DCut BY <2>2 DEF DCut
  <2>3. CASE DJoin BY <2>3 DEF DJoin
  <2> QED BY <1>4, <2>1, <2>2, <2>3 DEF Drop
<1>5. ASSUME PoolClose PROVE Relations'
  BY <1>5 DEF PoolClose
<1>6. ASSUME Terminated \/ UNCHANGED vars PROVE Relations'
  BY <1>6 DEF Terminated, vars
<1> QED BY <1>1, <1>2, <1>3, <1>4, <1>5, <1>6 DEF Next

\* The first session: connected to the primary, nothing submitted, at most the
\* job of its early pushes published.
LEMMA InitInvariant == Init => TypeOK /\ Relations
<1> SUFFICES ASSUME Init PROVE TypeOK /\ Relations
  OBVIOUS
<1>1. slot \in StratumJob \cup {NoJob} /\ (slot # NoJob => slot.xn1 = slot.from)
  BY DEF Init, Published, StratumJob
<1>2. /\ newJob \in BOOLEAN /\ forceFailover \in BOOLEAN
      /\ shutdown \in BOOLEAN /\ hintCached \in BOOLEAN /\ hinted \in BOOLEAN
  BY Zenon DEF Init
<1>3. /\ rpc = "top" /\ mpc = "boot" /\ wpc = "poll" /\ dpc = "live"
      /\ link = "open"
      /\ cur = 0 /\ sockEp = 0 /\ currentEp = 0
      /\ sock = 1 /\ xn1 = 1
      /\ owed = 0 /\ unacked = 0 /\ acked = 0 /\ submitted = 0 /\ streak = 0
      /\ reconnects = 0 /\ failovers = 0 /\ armed = 0
  BY DEF Init
<1>4. TypeOK
  BY <1>1, <1>2, <1>3, SessionAssumption, EndpointAssumption DEF TypeOK, Endpoint
<1>5. Relations
  BY <1>1, <1>4 DEF Init, Relations, Glue, StreakAccurate, AcksBounded, InFlight,
     JobOfItsSession, ReportedEndpoint, ArmNotLost, HintOnEverySession
<1> QED BY <1>4, <1>5

\* The inductive invariant holds throughout.
LEMMA Invariance == Spec => [](TypeOK /\ Relations)
<1>1. TypeOK /\ Relations /\ [Next]_vars => (TypeOK /\ Relations)'
  BY TypeStep, RelationsStep DEF Relations
<1> QED BY InitInvariant, <1>1, PTL DEF Spec

\* Type correctness.
THEOREM TypeCorrect == Spec => []TypeOK
BY Invariance, PTL

\* The half-open socket test counts the shares of its own connection: the
\* counter is the connection's unacked streak, or one more.
THEOREM StreakIsAccurate == Spec => []StreakAccurate
<1>1. Relations => StreakAccurate BY DEF Relations
<1> QED BY Invariance, <1>1, PTL

\* The ack counters never outrun the shares written.
THEOREM AcksAreBounded == Spec => []AcksBounded
<1>1. Relations => AcksBounded BY DEF Relations
<1> QED BY Invariance, <1>1, PTL

\* Every published job carries the extranonce1 of the session it came over.
THEOREM JobsMatchSession == Spec => []JobOfItsSession
<1>1. Relations => JobOfItsSession BY DEF Relations
<1> QED BY Invariance, <1>1, PTL

\* Telemetry names the endpoint of the live socket.
THEOREM EndpointIsReported == Spec => []ReportedEndpoint
<1>1. Relations => ReportedEndpoint BY DEF Relations
<1> QED BY Invariance, <1>1, PTL

\* A requested failover is pending until a rotation honours it.
THEOREM ArmsAreKept == Spec => []ArmNotLost
<1>1. Relations => ArmNotLost BY DEF Relations
<1> QED BY Invariance, <1>1, PTL

\* Every session after the startup send has received the difficulty hint.
THEOREM HintIsKept == Spec => []HintOnEverySession
<1>1. Relations => HintOnEverySession BY DEF Relations
<1> QED BY Invariance, <1>1, PTL

=============================================================================
