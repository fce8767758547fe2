--------------------------- MODULE StratumSession ---------------------------
(***************************************************************************)
(* The Stratum client of src/src/stratum/client.rs: one TCP session with   *)
(* the pool, shared by four threads.                                       *)
(*                                                                         *)
(*   reader    reads frames, counts acked, publishes jobs, and is the only  *)
(*             thread that reconnects (spawn_reader, reconnect);           *)
(*   miner     caches and sends the difficulty hint, then writes shares    *)
(*             under the writer mutex (send_submit);                       *)
(*   watchdog  reads the counters, later shuts the socket (ClientWatchdog  *)
(*             driven by watchdog_tick);                                   *)
(*   drop      the client's destructor.                                    *)
(*                                                                         *)
(* The pool and the network are the environment: they deliver any frame,   *)
(* lose any share and close the connection whenever they like.             *)
(*                                                                         *)
(* Abstractions.  A connection is its number: 1 for the one made by        *)
(* connect_failover, one more for each handshake that succeeds.  The pool  *)
(* gives every session its own extranonce1, so that is the number too.     *)
(* Frames in transit need no queue, for the reader may find any frame at   *)
(* any time; only the acks of written shares are counted (owed).  Clocks   *)
(* are nondeterministic here (the watchdog's staleness tests, the failback *)
(* test): FailoverClock keeps them.                                        *)
(***************************************************************************)
EXTENDS Naturals, StratumJobs, EndpointList

CONSTANTS
  MaxUnacked,     \* WatchdogCfg::max_unacked
  MaxConn,        \* bound: connections the pool ever accepts
  MaxSubmits      \* bound: shares the miner ever writes

ASSUME SessionAssumption ==
  /\ MaxUnacked \in Nat \ {0}
  /\ MaxConn \in Nat \ {0}
  /\ MaxSubmits \in Nat

VARIABLES
  rpc,            \* reader: where it is in spawn_reader / reconnect
  cur,            \* reader: EndpointList.current
  sock,           \* the connection in the reader's read half and in the writer
  sockEp,         \* endpoint that connection was dialled at
  link,           \* "open", "fin" (lost or closed by the pool), "cut" (by us)
  owed,           \* shares of this connection whose ack has not been read
  xn1,            \* Shared.extranonce1_hex
  slot,           \* Shared.latest_job
  newJob,         \* Shared.new_job
  unacked,        \* SessionStats.consecutive_unacked
  acked,          \* SessionStats.accepted + .rejected + .stale
  submitted,      \* SessionStats.submitted
  reconnects,     \* SessionStats.reconnects
  failovers,      \* SessionStats.failovers
  currentEp,      \* Shared.current_endpoint
  forceFailover,  \* Shared.force_failover
  shutdown,       \* Shared.shutdown
  hintCached,     \* Shared.suggest_difficulty_bits is a number
  mpc,            \* miner: "boot", "hint", "idle", "writing", "done"
  wpc,            \* watchdog: "poll", "cut", "arm", "exited"
  dpc,            \* drop: "live", "signalled", "joining", "done"
  streak,         \* history: shares written on sock since the last ack read
  armed,          \* history: failovers that honour the last request_failover
  hinted          \* history: this session was sent the difficulty hint

reader  == <<rpc, cur, sock, sockEp, reconnects, failovers, currentEp>>
counts  == <<owed, unacked, acked, submitted, streak>>
jobs    == <<xn1, slot, newJob>>
flags   == <<forceFailover, shutdown, hintCached, armed, hinted>>
threads == <<mpc, wpc, dpc>>
vars    == <<reader, link, counts, jobs, flags, threads>>

Init ==
  /\ rpc = "top" /\ cur = 0 /\ sock = 1 /\ sockEp = 0 /\ link = "open"
  /\ owed = 0 /\ xn1 = 1
  /\ \/ slot = NoJob /\ newJob = FALSE
     \/ \E j \in Jobs : slot = Published(j, 1, 1) /\ newJob = TRUE
  /\ unacked = 0 /\ acked = 0 /\ submitted = 0
  /\ reconnects = 0 /\ failovers = 0 /\ currentEp = 0
  /\ forceFailover = FALSE /\ shutdown = FALSE /\ hintCached = FALSE
  /\ mpc = "boot" /\ wpc = "poll" /\ dpc = "live"
  /\ streak = 0 /\ armed = 0 /\ hinted = FALSE


\* The writer mutex: send_submit alone holds it across two steps; every other
\* critical section is one step, taken while it is free.
WriterFree == mpc # "writing"

-----------------------------------------------------------------------------
(* The reader thread.                                                      *)

\* Head of the loop: leave on shutdown, else block in read_line.
RTop ==
  /\ rpc = "top"
  /\ rpc' = IF shutdown THEN "exited" ELSE "read"
  /\ UNCHANGED <<cur, sock, sockEp, reconnects, failovers, currentEp, link,
                 counts, jobs, flags, threads>>

\* record_ack: the pool answered a share of this connection.  Accepted,
\* rejected or stale, it is counted and ends the unacked streak, even one of a
\* share written and not yet accounted.
RAck ==
  /\ rpc = "read" /\ owed > 0
  /\ unacked' = 0 /\ streak' = 0
  /\ acked' = acked + 1
  /\ owed' = owed - 1
  /\ rpc' = "top"
  /\ UNCHANGED <<cur, sock, sockEp, reconnects, failovers, currentEp, link,
                 submitted, jobs, flags, threads>>

\* Mutant: the job is paired with the extranonce1 of the installed connection.
DispatchInstalled(j, s) ==
  /\ slot' = Published(j, sock, s)
  /\ newJob' = (newJob \/ PrevChanged(slot, j))
  /\ UNCHANGED xn1

\* dispatch_frame of a mining.notify that came over connection s.  (Its clock
\* stamp, last_new_job_ms, is kept by FailoverClock.)
Dispatch(j, s) ==
  /\ slot' = Published(j, xn1, s)
  /\ newJob' = (newJob \/ PrevChanged(slot, j))
  /\ UNCHANGED xn1

RNotify(j) ==
  /\ rpc = "read"
  /\ Dispatch(j, sock)
  /\ rpc' = "top"
  /\ UNCHANGED <<cur, sock, sockEp, reconnects, failovers, currentEp, link,
                 counts, flags, threads>>

\* The read timed out, or the frame was one the reader ignores.
RIdle ==
  /\ rpc = "read"
  /\ rpc' = "top"
  /\ UNCHANGED <<cur, sock, sockEp, reconnects, failovers, currentEp, link,
                 counts, jobs, flags, threads>>

\* Mutant: an EOF is read as one more idle line.
CutOnly == link = "cut"

\* EOF, or a read error.
Ended == link # "open"

\* Mutant: the flag is consumed, the list stays.
ConsumeOnly ==
  /\ forceFailover' = FALSE
  /\ UNCHANGED <<cur, failovers>>

\* Honour an armed failover.
Rotate ==
  /\ forceFailover' = FALSE
  /\ cur' = Advance(cur)
  /\ failovers' = failovers + 1

\* The connection ended.  An armed failover is consumed here, and only here.
REnd ==
  /\ rpc = "read" /\ Ended
  /\ \/ /\ shutdown
        /\ rpc' = "exited"
        /\ UNCHANGED <<cur, failovers, forceFailover>>
     \/ /\ ~shutdown /\ forceFailover
        /\ Rotate
        /\ rpc' = "redial"
     \/ /\ ~shutdown /\ ~forceFailover
        /\ rpc' = "redial"
        /\ UNCHANGED <<cur, failovers, forceFailover>>
  /\ UNCHANGED <<sock, sockEp, reconnects, currentEp, link, counts, jobs,
                 shutdown, hintCached, armed, hinted, threads>>

\* Mutant: the retry loop never looks at shutdown.
NeverGiveUp == FALSE

\* The look at shutdown after each backoff sleep.
GiveUp == shutdown

\* reconnect(): sleep, look at shutdown again, and maybe fail back: for some
\* clock MaybeFailback keeps the endpoint, for another it is the primary.
RRedial ==
  /\ rpc = "redial"
  /\ \/ GiveUp /\ rpc' = "exited" /\ UNCHANGED cur
     \/ ~GiveUp /\ rpc' = "dial" /\ cur' \in {cur, 0}
  /\ UNCHANGED <<sock, sockEp, reconnects, failovers, currentEp, link,
                 counts, jobs, flags, threads>>

\* The handshake fails: try the next endpoint after a backoff.
RDialFail ==
  /\ rpc = "dial"
  /\ cur' = Advance(cur)
  /\ rpc' = "redial"
  /\ UNCHANGED <<sock, sockEp, reconnects, failovers, currentEp, link,
                 counts, jobs, flags, threads>>

\* The handshake succeeds: the new session's extranonce1 is published first.
RDialOk ==
  /\ rpc = "dial" /\ sock < MaxConn
  /\ xn1' = sock + 1
  /\ rpc' = "replay"
  /\ UNCHANGED <<cur, sock, sockEp, reconnects, failovers, currentEp, link,
                 counts, slot, newJob, flags, threads>>

\* One push that preceded the authorize reply; there may be any number.
RReplay(j) ==
  /\ rpc = "replay"
  /\ Dispatch(j, sock + 1)
  /\ UNCHANGED <<reader, rpc, link, counts, flags, threads>>

\* Mutant: the streak of the old connection is carried over.
NoReset == UNCHANGED unacked

\* reset_unacked_streak.
Reset == unacked' = 0

\* Mutant: the hint is sent at startup only.
NoResend == hinted' = FALSE

\* send_suggest_if_set, for the new session.
Resend == hinted' = hintCached

\* Install the new connection under the writer mutex: close the old socket,
\* swap, reset the streak, send the cached hint again.
RSwap ==
  /\ rpc = "replay" /\ WriterFree
  /\ sock' = sock + 1 /\ sockEp' = cur /\ link' = "open"
  /\ Reset /\ owed' = 0 /\ streak' = 0
  /\ Resend
  /\ rpc' = "finish"
  /\ UNCHANGED <<cur, reconnects, failovers, currentEp, acked, submitted, jobs,
                 forceFailover, shutdown, hintCached, armed, threads>>

\* Mutant: the endpoint is recorded by connect_failover only.
KeepEndpoint == UNCHANGED currentEp

\* Record the endpoint this session is on.
RecordEndpoint == currentEp' = cur

\* Record the endpoint and count the reconnect.
RFinish ==
  /\ rpc = "finish"
  /\ RecordEndpoint
  /\ reconnects' = reconnects + 1
  /\ rpc' = "top"
  /\ UNCHANGED <<cur, sock, sockEp, failovers, link, counts, jobs, flags,
                 threads>>

ReadFrame == \/ RAck
             \/ \E j \in Jobs : RNotify(j)

Reader == \/ RTop \/ ReadFrame \/ RIdle \/ REnd
          \/ RRedial \/ RDialFail \/ RDialOk
          \/ \E j \in Jobs : RReplay(j)
          \/ RSwap \/ RFinish
-----------------------------------------------------------------------------
(* The main thread: the hint, then the mining loop's shares.               *)

\* apply_suggest_difficulty caches the hint first ...
MCacheHint ==
  /\ mpc = "boot"
  /\ hintCached' = TRUE
  /\ mpc' = "hint"
  /\ UNCHANGED <<reader, link, counts, jobs, forceFailover, shutdown, armed,
                 hinted, wpc, dpc>>

\* ... and then sends it over the connection of the moment.
MSendHint ==
  /\ mpc = "hint"
  /\ hinted' = TRUE
  /\ mpc' = "idle"
  /\ UNCHANGED <<reader, link, counts, jobs, forceFailover, shutdown,
                 hintCached, armed, wpc, dpc>>

\* The hint is disabled, or the benchmark gave none.
MNoHint ==
  /\ mpc = "boot"
  /\ mpc' = "idle"
  /\ UNCHANGED <<reader, link, counts, jobs, flags, wpc, dpc>>

\* The loop picks the job up and lowers the preemption flag.
MTake ==
  /\ mpc = "idle" /\ slot # NoJob
  /\ newJob' = FALSE
  /\ UNCHANGED <<reader, link, counts, xn1, slot, flags, threads>>

\* send_submit, first half: lock the writer and write.  A write to a socket we
\* shut fails and counts nothing (no step); one to a socket the pool closed may
\* still succeed, and the share is lost.
MWrite ==
  /\ mpc = "idle" /\ link # "cut" /\ slot # NoJob
  /\ submitted < MaxSubmits
  /\ owed' = IF link = "open" THEN owed + 1 ELSE owed
  /\ streak' = streak + 1
  /\ mpc' = "writing"
  /\ UNCHANGED <<reader, link, unacked, acked, submitted, jobs, flags, wpc, dpc>>

\* Mutant: only the streak is counted.
AccountStreak == unacked' = unacked + 1 /\ UNCHANGED submitted

\* The two counters of a share that was written.
Account == unacked' = unacked + 1 /\ submitted' = submitted + 1

\* send_submit, second half: account the share and unlock.
MCount ==
  /\ mpc = "writing"
  /\ Account
  /\ mpc' = "idle"
  /\ UNCHANGED <<reader, link, owed, acked, streak, jobs, flags, wpc, dpc>>

\* The mining loop returns: stop is set.
MStop ==
  /\ mpc = "idle"
  /\ mpc' = "done"
  /\ UNCHANGED <<reader, link, counts, jobs, flags, wpc, dpc>>

Miner == MCacheHint \/ MSendHint \/ MNoHint \/ MTake \/ MWrite \/ MCount \/ MStop
-----------------------------------------------------------------------------
(* The watchdog thread: watchdog_tick takes its snapshot, decides, and only *)
(* then asks the client to act.                                             *)

\* Mutant: off by one.
UnansweredPast == unacked > MaxUnacked

\* The half-open test of watchdog_decision.
Unanswered == unacked >= MaxUnacked

\* watchdog_decision on a fresh snapshot: the unacked streak first, then the
\* two clock tests, whose outcome is free here.
WPoll ==
  /\ wpc = "poll" /\ mpc \in {"idle", "writing"}
  /\ IF Unanswered
       THEN wpc' = "cut"
       ELSE wpc' \in {"poll", "cut", "arm"}
  /\ UNCHANGED <<reader, link, counts, jobs, flags, mpc, dpc>>

\* request_failover arms the flag before it shuts the socket.
WArm ==
  /\ wpc = "arm"
  /\ forceFailover' = TRUE
  /\ armed' = failovers + 1
  /\ wpc' = "cut"
  /\ UNCHANGED <<reader, link, counts, jobs, shutdown, hintCached, hinted, mpc, dpc>>

\* request_reconnect, and the end of request_failover: shut whatever socket
\* the writer mutex holds by now.
WCut ==
  /\ wpc = "cut" /\ WriterFree
  /\ link' = "cut"
  /\ wpc' = "poll"
  /\ UNCHANGED <<reader, counts, jobs, flags, mpc, dpc>>

WExit ==
  /\ wpc = "poll" /\ mpc = "done"
  /\ wpc' = "exited"
  /\ UNCHANGED <<reader, link, counts, jobs, flags, mpc, dpc>>

Watchdog == WPoll \/ WArm \/ WCut \/ WExit
-----------------------------------------------------------------------------
(* Drop, once the mining loop has returned.                                *)

DSignal ==
  /\ dpc = "live" /\ mpc = "done"
  /\ shutdown' = TRUE
  /\ dpc' = "signalled"
  /\ UNCHANGED <<reader, link, counts, jobs, forceFailover, hintCached, armed,
                 hinted, mpc, wpc>>

DCut ==
  /\ dpc = "signalled" /\ WriterFree
  /\ link' = "cut"
  /\ dpc' = "joining"
  /\ UNCHANGED <<reader, counts, jobs, flags, mpc, wpc>>

DJoin ==
  /\ dpc = "joining" /\ rpc = "exited"
  /\ dpc' = "done"
  /\ UNCHANGED <<reader, link, counts, jobs, flags, mpc, wpc>>

Drop == DSignal \/ DCut \/ DJoin
-----------------------------------------------------------------------------
(* The pool or the network ends the connection.                            *)
PoolClose ==
  /\ link = "open" /\ rpc # "exited"
  /\ link' = "fin"
  /\ UNCHANGED <<reader, counts, jobs, flags, threads>>

\* Every thread has ended.
Terminated ==
  /\ rpc = "exited" /\ mpc = "done" /\ wpc = "exited" /\ dpc = "done"
  /\ UNCHANGED vars

Next == Reader \/ Miner \/ Watchdog \/ Drop \/ PoolClose \/ Terminated

Spec == Init /\ [][Next]_vars

(***************************************************************************)
(* Fairness.  Every thread is scheduled, and no lock, read or write blocks *)
(* for ever: reads time out, a handshake ends one way or the other.  The   *)
(* watchdog owes an answer to a full streak; its clock tests may never     *)
(* fire.  The environment's part: only finitely many frames precede the    *)
(* end of a closed connection, and a pool dialled for ever answers.        *)
(***************************************************************************)
Fairness ==
  /\ WF_vars(Reader) /\ SF_vars(REnd) /\ SF_vars(RDialOk)
  /\ SF_vars(RSwap)
  /\ WF_vars(MCount)
  /\ WF_vars(WPoll /\ Unanswered) /\ WF_vars(WArm) /\ SF_vars(WCut)
  /\ WF_vars(Drop)

FairSpec == Spec /\ Fairness
-----------------------------------------------------------------------------
(* Properties.                                                             *)

\* The values the client's state ranges over.
TypeOK ==
  /\ rpc \in {"top", "read", "redial", "dial", "replay", "finish", "exited"}
  /\ cur \in Endpoint /\ sockEp \in Endpoint /\ currentEp \in Endpoint
  /\ sock \in 1 .. MaxConn /\ xn1 \in 1 .. MaxConn
  /\ link \in {"open", "fin", "cut"}
  /\ slot \in StratumJob \cup {NoJob} /\ newJob \in BOOLEAN
  /\ owed \in Nat /\ unacked \in Nat /\ streak \in Nat /\ submitted \in Nat /\ acked \in Nat
  /\ reconnects \in Nat /\ failovers \in Nat /\ armed \in Nat
  /\ forceFailover \in BOOLEAN /\ shutdown \in BOOLEAN
  /\ hintCached \in BOOLEAN /\ hinted \in BOOLEAN
  /\ mpc \in {"boot", "hint", "idle", "writing", "done"}
  /\ wpc \in {"poll", "arm", "cut", "exited"}
  /\ dpc \in {"live", "signalled", "joining", "done"}

\* A share that is on the wire but not yet accounted (send_submit, client.rs).
InFlight == IF mpc = "writing" THEN 1 ELSE 0

\* The unacked counter never runs below the real streak of this connection and
\* exceeds it by at most the one share whose ack overtook its own accounting:
\* whatever the reader, the miner and a reconnect interleave, the half-open
\* socket test counts shares of the connection it is about.
StreakAccurate ==
  /\ streak <= unacked + InFlight
  /\ unacked + InFlight <= streak + 1

\* Every ack counted, as accepted, rejected or stale, answers a share that was
\* written: those counters never outrun the shares submitted, but for the
\* one share send_submit has written and not yet counted.
AcksBounded == acked + owed <= submitted + InFlight

\* A published job is paired with the extranonce1 of the session whose socket
\* delivered it: reconnect stores the new extranonce1 before it replays the
\* early pushes, and no frame of the old socket is dispatched after that.
JobOfItsSession == slot # NoJob => slot.xn1 = slot.from

\* Whenever the reader is back in its loop, the endpoint that telemetry reports
\* is the one its socket was dialled at, after any failover or failback.
ReportedEndpoint == rpc \in {"top", "read"} => currentEp = sockEp

\* A failover the watchdog asked for is never lost: it is still armed, or a
\* later reconnect has rotated the endpoint and counted it.
ArmNotLost == armed # 0 => forceFailover \/ failovers >= armed

\* Once the startup hint is cached and sent, every installed session has been
\* sent it, however a reconnect races with the startup send.
HintOnEverySession == (hintCached /\ mpc \notin {"boot", "hint"}) => hinted

\* Dropping the client ends: the reader sees the shutdown wherever it is, even
\* in the middle of a reconnect to a pool that does not answer.
DropReturns == shutdown ~> (dpc = "done")

\* A lost connection is replaced as long as the pool accepts one.
Recovers ==
  (link # "open") ~> (link = "open" \/ shutdown \/ sock = MaxConn)

\* A pool that stops acking does not keep the connection: a full streak ends
\* with an ack or a new connection.
HalfOpenHeals ==
  (unacked >= MaxUnacked) ~> (unacked < MaxUnacked \/ mpc = "done" \/ sock = MaxConn)
=============================================================================
