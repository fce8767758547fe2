-------------------------- MODULE FailoverClockProofs --------------------------
(***************************************************************************)
(* Proofs about the accepted-share dead-man and the failback clock, for    *)
(* every list of endpoints and every length of the three intervals.        *)
(***************************************************************************)
EXTENDS FailoverClock, TLAPS

\* Before this instant's evaluation, a connection that has been credited is
\* within accept_stale of its baseline; once the watchdog is done with it, strictly.
Prompt ==
  Up /\ lastAccept # 0 =>
    now - Later(lastAccept, lastReconnect) <=
      IF polled /\ asked = "none" THEN AcceptStale - 1 ELSE AcceptStale

\* A pool accepts only shares of a job it has sent.
CreditNeedsJob == lastAccept # 0 => lastJob # 0

\* The last failovers are in order; the session being read was made after the last
\* of them, the session before it after the last but one.
Anchored ==
  /\ rotatedAt.third <= rotatedAt.prev /\ rotatedAt.prev <= rotatedAt.last
  /\ lastReconnect >= rotatedAt.prev
  /\ phase = "read" => lastReconnect >= rotatedAt.last

\* A failover that was decided or armed is an accept_stale younger than the last but
\* two; one decided over an unused arm is so even when that has been used.
ArmIsEarned ==
  /\ asked = "arm" \/ forceFailover => now - rotatedAt.third >= AcceptStale
  /\ asked = "arm" /\ forceFailover => now - rotatedAt.prev >= AcceptStale

\* The failback clock of a first failover starts no earlier than the failover.
ClockOfHold == heldFrom # 0 => stamp = 0 \/ stamp >= heldFrom

IInv ==
  TypeOK /\ UncreditedStays /\ Prompt /\ CreditNeedsJob /\ Anchored /\ ArmIsEarned
    /\ ClockOfHold

\* A rotated index stays in the list.
LEMMA AdvanceInRange ==
  ASSUME NEW c \in Endpoint
  PROVE  Advance(c) \in Endpoint
BY EndpointAssumption DEF Advance, Endpoint

\* A failback goes nowhere or to the primary, and stamps the clock with now.
LEMMA FailbackResult ==
  ASSUME NEW c \in Endpoint, NEW s \in Nat, NEW t \in Nat, s <= t
  PROVE  LET e == MaybeFailback(c, s, t, Failback)
         IN  /\ e.cur \in Endpoint /\ e.stamp \in 0 .. t
             /\ e.stamp = s \/ e.stamp = t
             /\ s = 0 => e.stamp = t /\ e.cur = c
             /\ c # 0 /\ e.cur = 0 => s # 0 /\ t - s >= Failback
BY EndpointAssumption, ClockAssumption DEF MaybeFailback, Endpoint

\* The dead-man needs a baseline, and time since it.
LEMMA DeadmanWaits ==
  ASSUME TypeOK, AcceptDeadman(Baseline(lastAccept, lastReconnect), lastJob)
  PROVE  /\ lastAccept # 0
         /\ now - Later(lastAccept, lastReconnect) >= AcceptStale
         /\ now - lastReconnect >= AcceptStale
BY ClockAssumption DEF TypeOK, AcceptDeadman, Baseline, Later

LEMMA InitHolds == Init => IInv
<1> SUFFICES ASSUME Init PROVE IInv
  OBVIOUS
<1>1. rotatedAt \in [third : 0 .. now, prev : 0 .. now, last : 0 .. now]
  BY DEF Init
<1>2. now \in 1 .. MaxTime /\ cur \in Endpoint /\ stamp \in 0 .. now /\ heldFrom \in 0 .. now
  BY EndpointAssumption, ClockAssumption DEF Init, Endpoint
<1>3. lastJob \in 0 .. now /\ lastAccept \in 0 .. now /\ lastReconnect \in 0 .. now
  BY DEF Init
<1>4. polled \in BOOLEAN /\ forceFailover \in BOOLEAN /\ failovers \in Nat /\ live \in BOOLEAN
      /\ phase \in {"read", "redial", "dial", "installed"} /\ asked \in {"none", "arm", "cut"}
  BY DEF Init
<1>5. TypeOK
  BY <1>1, <1>2, <1>3, <1>4 DEF TypeOK
<1>6. UncreditedStays /\ CreditNeedsJob /\ Prompt /\ Anchored /\ ArmIsEarned /\ ClockOfHold
  BY ClockAssumption DEF Init, UncreditedStays, CreditNeedsJob, Prompt, Anchored, ArmIsEarned, ClockOfHold
<1> QED BY <1>5, <1>6 DEF IInv

LEMMA TypeStep == TypeOK /\ [Next]_vars => TypeOK'
<1> SUFFICES ASSUME TypeOK, [Next]_vars PROVE TypeOK'
  OBVIOUS
<1> USE EndpointAssumption, ClockAssumption DEF TypeOK
<1>1. CASE Tick
  <2>1. now' \in 1 .. MaxTime /\ 0 .. now \subseteq 0 .. now'
    BY <1>1 DEF Tick
  <2>2. [third : 0 .. now, prev : 0 .. now, last : 0 .. now] \subseteq [third : 0 .. now', prev : 0 .. now', last : 0 .. now']
    BY <2>1
  <2> QED BY <1>1, <2>1, <2>2 DEF Tick, stamps, history
<1>2. CASE NewJob BY <1>2 DEF NewJob, stamps, history
<1>3. CASE Accept BY <1>3 DEF Accept, stamps, history
<1>4. CASE LinkLost BY <1>4 DEF LinkLost, stamps, history
<1>5. CASE Poll
  <2>1. asked' \in {"none", "arm", "cut"} BY <1>5 DEF Poll
  <2> QED BY <1>5, <2>1 DEF Poll, stamps, history
<1>6. CASE Arm BY <1>6 DEF Arm, stamps, history
<1>7. CASE Cut BY <1>7 DEF Cut, stamps, history
<1>8. CASE End
  <2>1. cur' \in Endpoint /\ failovers' \in Nat /\ heldFrom' \in 0 .. now
    BY <1>8, AdvanceInRange DEF End, history
  <2>2. rotatedAt' \in [third : 0 .. now, prev : 0 .. now, last : 0 .. now]
    BY <1>8 DEF End, history
  <2> QED BY <1>8, <2>1, <2>2 DEF End, stamps
<1>9. CASE Redial
  <2>1. cur' \in Endpoint /\ stamp' \in 0 .. now
    BY <1>9, FailbackResult DEF Redial
  <2> QED BY <1>9, <2>1 DEF Redial, stamps
<1>10. CASE DialFail BY <1>10, AdvanceInRange DEF DialFail, stamps
<1>11. CASE DialOk BY <1>11 DEF DialOk
<1>12. CASE Stamp BY <1>12 DEF Stamp
<1>13. CASE UNCHANGED vars BY <1>13 DEF vars, stamps, history
<1> QED BY <1>1, <1>2, <1>3, <1>4, <1>5, <1>6, <1>7, <1>8, <1>9, <1>10, <1>11, <1>12, <1>13
        DEF Next

LEMMA Step == IInv /\ [Next]_vars => IInv'
<1> SUFFICES ASSUME IInv, [Next]_vars PROVE IInv'
  OBVIOUS
<1>t. TypeOK /\ TypeOK' BY TypeStep DEF IInv
<1>1. UncreditedStays'
  <2>1. CASE Poll
    <3>1. asked' = "arm" => lastAccept # 0
      BY <2>1, <1>t, DeadmanWaits DEF Poll
    <3> QED BY <2>1, <3>1 DEF Poll, IInv, UncreditedStays, stamps, history
  <2>2. CASE ~Poll
    BY <2>2, <1>t DEF IInv, TypeOK, UncreditedStays, Next, Tick, NewJob, Accept, LinkLost, Arm,
                      Cut, End, Redial, DialFail, DialOk, Stamp, vars, stamps, history
  <2> QED BY <2>1, <2>2
<1>2. CreditNeedsJob'
  BY <1>t DEF IInv, TypeOK, CreditNeedsJob, Next, Tick, NewJob, Accept, LinkLost, Poll, Arm, Cut,
              End, Redial, DialFail, DialOk, Stamp, vars, stamps, history
<1>3. Prompt'
  <2>1. CASE Poll
    <3> SUFFICES ASSUME Up, lastAccept # 0, asked' = "none"
                 PROVE  now - Later(lastAccept, lastReconnect) <= AcceptStale - 1
      BY <2>1 DEF Poll, Prompt, IInv, Up, stamps, Later
    <3>1. /\ ~JobIsStale(lastJob)
          /\ ~AcceptDeadman(Baseline(lastAccept, lastReconnect), lastJob)
      BY <2>1 DEF Poll
    <3>2. lastJob # 0 /\ now - lastJob <= JobStale
      BY <3>1, <1>t, ClockAssumption DEF IInv, CreditNeedsJob, JobIsStale, TypeOK
    <3> QED BY <3>1, <3>2, <1>t, ClockAssumption DEF AcceptDeadman, Baseline, TypeOK, Later
  <2>2. CASE Tick
    BY <2>2, <1>t, ClockAssumption DEF IInv, TypeOK, Prompt, Up, Later, Tick, stamps
  <2>3. CASE NewJob
    BY <2>3 DEF IInv, Prompt, Up, Later, NewJob
  <2>4. CASE Accept
    BY <2>4, <1>t, ClockAssumption DEF IInv, TypeOK, Prompt, Up, Later, Accept
  <2>5. CASE Arm
    BY <2>5 DEF IInv, Prompt, Up, Later, Arm, stamps
  <2>6. CASE LinkLost \/ Cut \/ End \/ Redial \/ DialFail \/ DialOk
    BY <2>6 DEF Prompt, Up, LinkLost, Cut, End, Redial, DialFail, DialOk
  <2>7. CASE Stamp
    BY <2>7, <1>t, ClockAssumption DEF TypeOK, Prompt, Up, Later, Stamp
  <2>8. CASE UNCHANGED vars
    BY <2>8 DEF IInv, Prompt, Up, Later, vars, stamps
  <2> QED BY <2>1, <2>2, <2>3, <2>4, <2>5, <2>6, <2>7, <2>8 DEF Next
<1>4. Anchored'
  <2>1. CASE End
    BY <2>1, <1>t DEF IInv, TypeOK, Anchored, End, stamps, history
  <2>2. CASE Stamp
    BY <2>2, <1>t DEF IInv, TypeOK, Anchored, Stamp
  <2>3. CASE \/ Tick \/ NewJob \/ Accept \/ LinkLost \/ Poll \/ Arm \/ Cut
             \/ Redial \/ DialFail \/ DialOk \/ UNCHANGED vars
    BY <2>3, <1>t DEF IInv, TypeOK, Anchored, Tick, NewJob, Accept, LinkLost, Poll, Arm, Cut,
                      Redial, DialFail, DialOk, vars, stamps, history
  <2> QED BY <2>1, <2>2, <2>3 DEF Next
<1>5. ArmIsEarned'
  <2>1. CASE Poll
    <3>1. asked' = "arm" => now - rotatedAt.prev >= AcceptStale
      BY <2>1, <1>t, DeadmanWaits, ClockAssumption DEF Poll, IInv, Anchored, TypeOK
    <3>2. asked' = "arm" => now - rotatedAt.third >= AcceptStale
      BY <3>1, <1>t, ClockAssumption DEF IInv, Anchored, TypeOK
    <3>3. forceFailover => now - rotatedAt.third >= AcceptStale
      BY DEF IInv, ArmIsEarned
    <3> QED BY <2>1, <3>1, <3>2, <3>3 DEF Poll, ArmIsEarned, history
  <2>2. CASE Tick
    BY <2>2, <1>t, ClockAssumption DEF IInv, TypeOK, ArmIsEarned, Tick, history
  <2>3. CASE End
    <3>1. /\ ~forceFailover' /\ asked' = asked /\ now' = now
          /\ rotatedAt'.third = IF forceFailover THEN rotatedAt.prev ELSE rotatedAt.third
      BY <2>3, <1>t DEF End, TypeOK, history
    <3>2. asked = "arm" => now - rotatedAt'.third >= AcceptStale
      BY <3>1 DEF IInv, ArmIsEarned
    <3> QED BY <3>1, <3>2 DEF ArmIsEarned
  <2>4. CASE Arm \/ Cut
    BY <2>4 DEF IInv, ArmIsEarned, Arm, Cut, history
  <2>5. CASE \/ NewJob \/ Accept \/ LinkLost \/ Redial \/ DialFail \/ DialOk \/ Stamp
             \/ UNCHANGED vars
    BY <2>5 DEF IInv, ArmIsEarned, NewJob, Accept, LinkLost, Redial, DialFail, DialOk, Stamp,
                vars, stamps, history
  <2> QED BY <2>1, <2>2, <2>3, <2>4, <2>5 DEF Next
<1>6. ClockOfHold'
  <2>1. CASE Redial
    <3>1. stamp' = stamp \/ stamp' = now
      BY <2>1, <1>t, FailbackResult DEF Redial, TypeOK
    <3> QED BY <2>1, <3>1, <1>t DEF IInv, TypeOK, ClockOfHold, Redial
  <2>2. CASE ~Redial
    BY <2>2, <1>t DEF IInv, TypeOK, ClockOfHold, Next, Tick, NewJob, Accept, LinkLost, Poll,
                      Arm, Cut, End, DialFail, DialOk, Stamp, vars, stamps, history
  <2> QED BY <2>1, <2>2
<1> QED BY <1>t, <1>1, <1>2, <1>3, <1>4, <1>5, <1>6 DEF IInv

LEMMA Invariance == Spec => []IInv
BY InitHolds, Step, PTL DEF Spec

-----------------------------------------------------------------------------
\* Stamps never lie in the future and the index stays in the list (TypeOK).
THEOREM TypeCorrect == Spec => []TypeOK
<1>1. IInv => TypeOK BY DEF IInv
<1> QED BY Invariance, <1>1, PTL

\* A miner no pool ever credited is never failed over (accept_baseline).
THEOREM UncreditedIsSpared == Spec => []UncreditedStays
<1>1. IInv => UncreditedStays BY DEF IInv
<1> QED BY Invariance, <1>1, PTL

\* A pool that sends fresh jobs and gives no credit is cut within one poll of
\* accept_stale, whatever the length of the intervals (watchdog_decision).
THEOREM DeadmanIsPrompt == Spec => []DeadmanPrompt
<1>1. IInv => DeadmanPrompt
  BY ClockAssumption DEF IInv, TypeOK, Prompt, DeadmanPrompt, Up, Later
<1> QED BY Invariance, <1>1, PTL

\* Of four failovers in a row, the first and the last are accept_stale apart: the
\* storm guard's later-of, the rotation of an arm set during a reconnect, and that
\* of a decision carried out after the arm before it was used.
THEOREM AtMostThreePerWindow == Spec => ThreePerWindow
<1> DEFINE Apart == (failovers' # failovers /\ failovers >= 3)
                      => now - rotatedAt.third >= AcceptStale
<1>1. IInv /\ [Next]_vars => [Apart]_vars
  <2> SUFFICES ASSUME IInv, Next, failovers' # failovers
               PROVE  now - rotatedAt.third >= AcceptStale
    BY DEF vars
  <2>1. forceFailover
    BY DEF Next, Tick, NewJob, Accept, LinkLost, Poll, Arm, Cut, End, Redial, DialFail, DialOk,
           Stamp, stamps, history
  <2> QED BY <2>1 DEF IInv, ArmIsEarned
<1> QED BY Invariance, <1>1, PTL DEF Spec, ThreePerWindow

\* The first failover off the primary holds for a whole failback interval: the
\* reconnect that honours it cannot undo it (maybe_failback's lazy start).
THEOREM FirstFailoverIsHeld == Spec => FirstFailoverHeld
<1> DEFINE Held == (phase = "redial" /\ phase' = "dial" /\ cur # 0 /\ cur' = 0 /\ heldFrom # 0)
                     => now - heldFrom >= Failback
<1>1. IInv /\ [Next]_vars => [Held]_vars
  <2> SUFFICES ASSUME IInv, Next, phase = "redial", phase' = "dial", cur # 0, cur' = 0,
                      heldFrom # 0
               PROVE  now - heldFrom >= Failback
    BY DEF vars
  <2>1. Redial
    BY DEF Next, Tick, NewJob, Accept, LinkLost, Poll, Arm, Cut, End, DialFail, DialOk, Stamp,
           stamps, history
  <2>2. stamp # 0 /\ now - stamp >= Failback
    BY <2>1, FailbackResult DEF Redial, IInv, TypeOK
  <2> QED BY <2>2, ClockAssumption DEF IInv, TypeOK, ClockOfHold
<1> QED BY Invariance, <1>1, PTL DEF Spec, FirstFailoverHeld
=============================================================================
