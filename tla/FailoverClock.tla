---------------------------- MODULE FailoverClock ----------------------------
(***************************************************************************)
(* The timed side of a Stratum session: the watchdog's decisions of        *)
(* src/src/stratum/watchdog.rs over the time stamps the reader writes      *)
(* (src/src/stratum/client.rs), and the endpoint list a reconnect rotates  *)
(* (src/src/endpoint.rs).                                                  *)
(*                                                                         *)
(* Time is a count of watchdog polls (WatchdogCfg::poll).  The watchdog    *)
(* evaluates once in each: it decides on a snapshot, arms the failover     *)
(* flag and shuts the socket in three steps, with any steps of the reader  *)
(* between them, but within that poll; and the reader notices a dead       *)
(* socket within one.  Backoff, handshake and installation take any number *)
(* of polls.  A pool may push new jobs or the same one again, accept       *)
(* shares, answer them otherwise or not at all, and close the connection.  *)
(* The unacked streak, the third trigger, is StratumSession's; here it is  *)
(* one more reason a link is lost.                                         *)
(***************************************************************************)
EXTENDS EndpointList

CONSTANTS
  JobStale,      \* WatchdogCfg::job_stale
  AcceptStale,   \* WatchdogCfg::accept_stale
  Failback,      \* FAILBACK_MS
  MaxTime        \* bound: the last instant

ASSUME ClockAssumption ==
  /\ JobStale \in Nat /\ AcceptStale \in Nat \ {0} /\ Failback \in Nat
  /\ MaxTime \in Nat \ {0}

VARIABLES
  now,             \* the clock; 0 is the "never" of every time stamp
  polled,          \* the watchdog has evaluated at this instant
  asked,           \* the watchdog: "none", about to "arm" and cut, or to "cut"
  phase,           \* the reader: "read", "redial", "dial", "installed"
  live,            \* the installed socket has not been shut or closed
  cur, stamp,      \* EndpointList.current, .last_failback_ms
  lastJob,         \* SessionStats.last_new_job_ms
  lastAccept,      \* SessionStats.last_accept_ms
  lastReconnect,   \* SessionStats.last_reconnect_ms
  forceFailover,   \* Shared.force_failover
  failovers,       \* SessionStats.failovers
  rotatedAt,       \* history: instants of the last three failovers
  heldFrom         \* history: first failover's instant, while on the backup

stamps  == <<lastJob, lastAccept, lastReconnect>>
history == <<rotatedAt, heldFrom>>
vars == <<now, polled, asked, phase, live, cur, stamp, stamps, forceFailover, failovers,
          history>>

Later(a, b) == IF a >= b THEN a ELSE b

Init ==
  /\ now = 1 /\ polled = FALSE /\ asked = "none" /\ phase = "read" /\ live = TRUE
  /\ cur = 0 /\ stamp = 0
  /\ lastJob \in {0, 1} /\ lastAccept = 0 /\ lastReconnect = 0
  /\ forceFailover = FALSE /\ failovers = 0
  /\ rotatedAt = [third |-> 0, prev |-> 0, last |-> 0] /\ heldFrom = 0

\* A handshake that is over has installed a socket, which the reader reads.
Up == phase = "read" /\ live

\* One poll period passes: the watchdog has decided and acted, and the reader has
\* noticed a dead socket.
Tick ==
  /\ now < MaxTime /\ polled /\ asked = "none" /\ (phase = "read" => live)
  /\ now' = now + 1 /\ polled' = FALSE
  /\ UNCHANGED <<asked, phase, live, cur, stamp, stamps, forceFailover, failovers, history>>

\* dispatch_frame: a notify with a new job_id.  The same job again stamps
\* nothing, and so does any other frame.  Frames received before the socket was
\* shut are still read.
NewJob ==
  /\ phase = "read"
  /\ lastJob' = now
  /\ UNCHANGED <<now, polled, asked, phase, live, cur, stamp, lastAccept, lastReconnect,
                 forceFailover, failovers, history>>

\* record_ack: the pool accepted a share, of a job it had sent.
Accept ==
  /\ phase = "read" /\ lastJob # 0
  /\ lastAccept' = now
  /\ UNCHANGED <<now, polled, asked, phase, live, cur, stamp, lastJob, lastReconnect,
                 forceFailover, failovers, history>>

\* The pool, the network or the unacked streak ends the connection.
LinkLost ==
  /\ Up
  /\ live' = FALSE
  /\ UNCHANGED <<now, polled, asked, phase, cur, stamp, stamps, forceFailover, failovers,
                 history>>

-----------------------------------------------------------------------------
\* job_is_stale.
JobIsStale(job) == job > 0 /\ now - job > JobStale

\* Mutant: a miner that was never credited has a baseline too.
BaselineUncredited(accept, reconnect) == Later(accept, reconnect)

\* Mutant: no storm guard.
BaselineUnguarded(accept, reconnect) == accept

\* accept_baseline: the storm guard, which a miner never credited is exempt from.
Baseline(accept, reconnect) ==
  IF accept = 0 THEN 0 ELSE Later(accept, reconnect)

\* Mutant: off by one.
AcceptDeadmanLate(baseline, job) ==
  /\ baseline # 0
  /\ job # 0 /\ now - job <= JobStale
  /\ now - baseline > AcceptStale

\* accept_deadman.
AcceptDeadman(baseline, job) ==
  /\ baseline # 0
  /\ job # 0 /\ now - job <= JobStale
  /\ now - baseline >= AcceptStale

\* watchdog_tick takes a snapshot of the stamps and decides.
Poll ==
  /\ ~polled /\ polled' = TRUE
  /\ asked' = IF JobIsStale(lastJob) THEN "cut"
              ELSE IF AcceptDeadman(Baseline(lastAccept, lastReconnect), lastJob) THEN "arm"
              ELSE "none"
  /\ UNCHANGED <<now, phase, live, cur, stamp, stamps, forceFailover, failovers, history>>

\* request_failover arms the flag before it asks for the writer lock: the reader
\* may have reconnected since the decision, and used an earlier arm.
Arm ==
  /\ asked = "arm" /\ asked' = "cut"
  /\ forceFailover' = TRUE
  /\ UNCHANGED <<now, polled, phase, live, cur, stamp, stamps, failovers, history>>

\* request_reconnect, and the end of request_failover: shut the socket installed
\* by then.  One that is dead already, or being replaced, stays dead.
Cut ==
  /\ asked = "cut" /\ asked' = "none"
  /\ live' = FALSE
  /\ UNCHANGED <<now, polled, phase, cur, stamp, stamps, forceFailover, failovers, history>>
-----------------------------------------------------------------------------
\* The reader finds the socket dead; an armed failover rotates the list.
End ==
  /\ phase = "read" /\ ~live
  /\ phase' = "redial"
  /\ forceFailover' = FALSE
  /\ IF forceFailover
       THEN /\ cur' = Advance(cur)
            /\ failovers' = failovers + 1
            /\ rotatedAt' = [third |-> rotatedAt.prev, prev |-> rotatedAt.last, last |-> now]
            /\ heldFrom' = IF cur = 0 /\ stamp = 0 THEN now ELSE heldFrom
       ELSE UNCHANGED <<cur, failovers, history>>
  /\ UNCHANGED <<now, polled, asked, live, stamp, stamps>>

\* reconnect(): after the backoff, maybe fail back, then dial the current one.
Redial ==
  /\ phase = "redial"
  /\ LET e == MaybeFailback(cur, stamp, now, Failback)
     IN  cur' = e.cur /\ stamp' = e.stamp
  /\ heldFrom' = IF cur' = 0 THEN 0 ELSE heldFrom
  /\ phase' = "dial"
  /\ UNCHANGED <<now, polled, asked, live, stamps, forceFailover, failovers, rotatedAt>>

DialFail ==
  /\ phase = "dial"
  /\ cur' = Advance(cur)
  /\ phase' = "redial"
  /\ UNCHANGED <<now, polled, asked, live, stamp, stamps, forceFailover, failovers,
                 rotatedAt, heldFrom>>

\* The handshake succeeds; its early pushes may hold a new job, and its socket is
\* installed, which the watchdog may shut from now on.
DialOk ==
  /\ phase = "dial"
  /\ phase' = "installed" /\ live' = TRUE
  /\ lastJob' \in {lastJob, now}
  /\ UNCHANGED <<now, polled, asked, cur, stamp, lastAccept, lastReconnect, forceFailover,
                 failovers, rotatedAt, heldFrom>>

\* The end of reconnect() stamps the storm guard, and the reader reads again.
Stamp ==
  /\ phase = "installed"
  /\ phase' = "read"
  /\ lastReconnect' = now
  /\ UNCHANGED <<now, polled, asked, live, cur, stamp, lastJob, lastAccept, forceFailover,
                 failovers, rotatedAt, heldFrom>>

Next == \/ Tick \/ NewJob \/ Accept \/ LinkLost \/ Poll \/ Arm \/ Cut
        \/ End \/ Redial \/ DialFail \/ DialOk \/ Stamp

Spec == Init /\ [][Next]_vars
-----------------------------------------------------------------------------
(* Properties.                                                             *)

TypeOK ==
  /\ now \in 1 .. MaxTime /\ polled \in BOOLEAN
  /\ asked \in {"none", "arm", "cut"}
  /\ phase \in {"read", "redial", "dial", "installed"} /\ live \in BOOLEAN
  /\ cur \in Endpoint /\ stamp \in 0 .. now
  /\ lastJob \in 0 .. now /\ lastAccept \in 0 .. now /\ lastReconnect \in 0 .. now
  /\ forceFailover \in BOOLEAN /\ failovers \in Nat
  /\ rotatedAt \in [third : 0 .. now, prev : 0 .. now, last : 0 .. now]
  /\ heldFrom \in 0 .. now

\* A miner no pool ever credited is never failed over, whatever reconnects it
\* goes through: the storm guard's later-of must not replace the real last
\* accept (accept_baseline, watchdog.rs).
UncreditedStays == lastAccept = 0 => asked # "arm" /\ ~forceFailover /\ failovers = 0

\* The dead-man answers in time: a connection that receives fresh jobs and no
\* credit is cut within one poll of accept_stale.
DeadmanPrompt ==
  (Up /\ lastAccept # 0 /\ lastJob # 0 /\ now - lastJob <= JobStale)
    => now - Later(lastAccept, lastReconnect) <= AcceptStale

\* What the storm guard comes to: at most three failovers in any accept_stale.
\* The first is the one that is due.  A second is armed while its reconnect is
\* under way; a third when the watchdog had decided just before that reconnect
\* was stamped, and stores the flag after the reader used up the second.
ThreePerWindow ==
  [][(failovers' # failovers /\ failovers >= 3)
       => now - rotatedAt.third >= AcceptStale]_vars

\* The v0.1.9 #2 regression: the first failover off the primary, its failback
\* clock never started, holds the backup for a full interval.
FirstFailoverHeld ==
  [][(phase = "redial" /\ phase' = "dial" /\ cur # 0 /\ cur' = 0 /\ heldFrom # 0)
       => now - heldFrom >= Failback]_vars
=============================================================================
