------------------------------ MODULE MiningLoop ------------------------------
(***************************************************************************)
(* The mining loop of src/src/stratum/loop_stratum.rs against the reader   *)
(* thread that publishes jobs under it (dispatch_frame, client.rs): which  *)
(* job a sweep is about, when a newer one preempts it, and what the loop   *)
(* does with a job it cannot map.                                          *)
(*                                                                         *)
(* A launch is one call of hash_range over the nonce range of one rolled   *)
(* extranonce2; it runs in slices, and the backend looks at its two cancel *)
(* flags between slices only.  What happens inside a launch, the race of   *)
(* the CPU workers and the GPU, is SweepRace; the heartbeat and the fault  *)
(* path, on which a launch just finds nothing, are GpuStall.  A share is   *)
(* submitted as job_id, extranonce2, time and nonce, on the session of     *)
(* that instant: a share of work taken before a reconnect is of another    *)
(* header there.  How long such work is kept is FreshWork's subject, and   *)
(* what the pool makes of a submit is ShareWire's.                         *)
(***************************************************************************)
EXTENDS Naturals, StratumJobs

CONSTANTS
  Unmappable,    \* <<job, extranonce1>> that notify_to_template refuses
  Xn2Mod,        \* 2^32 in the code: extranonce2 wraps
  MaxSlices,     \* slices of one launch
  MaxNotifies,   \* bound: jobs the pool pushes
  MaxSessions    \* bound: sessions, each with an extranonce1 of its own

\* The pool never gives one job_id to jobs on two blocks.
ASSUME LoopAssumption ==
  /\ Unmappable \subseteq Jobs \X Nat
  /\ Xn2Mod \in Nat \ {0} /\ MaxSlices \in Nat \ {0}
  /\ MaxNotifies \in Nat /\ MaxSessions \in Nat \ {0}
  /\ \A j, k \in Jobs : j.id = k.id => j.prev = k.prev

VARIABLES
  npc,       \* reader: "idle", or "raise": the slot written, its lock held
  sent,      \* jobs pushed so far
  xn1,       \* Shared.extranonce1_hex
  slot,      \* Shared.latest_job
  newJob,    \* Shared.new_job, the preemption flag
  lpc,       \* loop: "intake", "clear", "check", "sweep", "settle", "done"
  work,      \* the LoopWork being mined
  xn2,       \* the rolling extranonce2
  slices,    \* slices of this launch still to start
  running,   \* a slice is on the device
  found,     \* outcome of the launch
  stop,      \* the global stop flag
  paused,    \* the thermal gate
  moved,     \* history: the block has changed since the copy was taken
  launch     \* history: the header space of the last launch

readerVars == <<npc, sent, xn1, slot>>
sweepVars  == <<slices, running, found>>
history    == <<moved, launch>>
vars == <<readerVars, newJob, lpc, work, xn2, sweepVars, stop, paused, history>>

Outcome == {"none", "good", "mismatch", "above"}

\* What a header is made from: the job, the session and the extranonce2.
Space(w, x) == [job |-> w.job, xn1 |-> w.xn1, xn2 |-> x]
NoSpace == [job |-> NoJob, xn1 |-> 0, xn2 |-> 0]

Init ==
  /\ npc = "idle" /\ sent = 0 /\ xn1 = 1 /\ slot = NoJob /\ newJob = FALSE
  /\ lpc = "intake" /\ work = NoJob
  /\ xn2 \in 0 .. Xn2Mod - 1          \* seed_xn2
  /\ slices = 0 /\ running = FALSE /\ found = "none"
  /\ stop = FALSE /\ paused = FALSE /\ moved = FALSE /\ launch = NoSpace
-----------------------------------------------------------------------------
(* The reader thread.                                                      *)

\* A mining.notify: write the slot under its lock ...
Notify(j) ==
  /\ npc = "idle" /\ sent < MaxNotifies
  /\ slot' = Published(j, xn1, xn1)
  /\ npc' = IF PrevChanged(slot, j) THEN "raise" ELSE "idle"
  /\ sent' = sent + 1
  /\ moved' = (moved \/ PrevChanged(slot, j))
  /\ UNCHANGED <<xn1, newJob, lpc, work, xn2, sweepVars, stop, paused, launch>>

\* ... and, still under it, raise the flag if the block changed.
Raise ==
  /\ npc = "raise"
  /\ newJob' = TRUE
  /\ npc' = "idle"
  /\ UNCHANGED <<sent, xn1, slot, lpc, work, xn2, sweepVars, stop, paused, history>>

\* A reconnect: another extranonce1, the slot left as it is.
NewSession ==
  /\ npc = "idle" /\ xn1 < MaxSessions
  /\ xn1' = xn1 + 1
  /\ UNCHANGED <<npc, sent, slot, newJob, lpc, work, xn2, sweepVars, stop, paused, history>>

Reader == (\E j \in Jobs : Notify(j)) \/ Raise \/ NewSession
-----------------------------------------------------------------------------
(* The mining loop.                                                        *)

\* Mutant: the flag is raised after the lock is released.
NoLock == TRUE

\* The slot's lock is free: the reader holds it until the flag is raised.
SlotFree == npc # "raise"

\* There is a job, its extranonce1 is hex of a width the loop can use, and its
\* template can be built.
Mappable(p) == p # NoJob /\ <<p.job, p.xn1>> \notin Unmappable

\* Head of 'mining and next_work: take a copy of the slot.
Intake ==
  /\ lpc = "intake"
  /\ \/ stop /\ lpc' = "done" /\ UNCHANGED <<work, moved>>
     \/ /\ ~stop /\ SlotFree /\ Mappable(slot)
        /\ work' = slot /\ moved' = FALSE /\ lpc' = "clear"
  /\ UNCHANGED <<readerVars, newJob, xn2, sweepVars, stop, paused, launch>>

\* WorkIntake::Idle: nothing to mine.  The loop naps and asks again, and leaves
\* the flag as it is.
Idle ==
  /\ lpc = "intake" /\ ~stop /\ SlotFree /\ ~Mappable(slot)
  /\ work' = NoJob
  /\ UNCHANGED <<readerVars, newJob, lpc, xn2, sweepVars, stop, paused, history>>

\* Lower the preemption flag, some time after the copy.
Clear ==
  /\ lpc = "clear"
  /\ newJob' = FALSE
  /\ lpc' = "check"
  /\ UNCHANGED <<readerVars, work, xn2, sweepVars, stop, paused, history>>

\* Mutant: a loop paused for heat naps without looking at stop.
LeaveAwake ==
  /\ lpc = "check"
  /\ \/ stop /\ ~paused /\ lpc' = "done"
     \/ ~stop /\ SlotFree /\ JobChanged(slot, work.job) /\ lpc' = "intake"
  /\ UNCHANGED <<readerVars, newJob, work, xn2, sweepVars, stop, paused, history>>

\* Leave the job: shutdown, a job_id that is not the work's, ...
Leave ==
  /\ lpc = "check"
  /\ \/ stop /\ lpc' = "done"
     \/ ~stop /\ SlotFree /\ JobChanged(slot, work.job) /\ lpc' = "intake"
  /\ UNCHANGED <<readerVars, newJob, work, xn2, sweepVars, stop, paused, history>>

\* Mutant: the copy is refreshed on a job change only.
RefreshOnFlag ==
  /\ lpc = "check" /\ ~stop /\ newJob
  /\ lpc' = "intake"
  /\ UNCHANGED <<readerVars, newJob, work, xn2, sweepVars, stop, paused, history>>

\* ... or refresh_every has passed since it was taken.
Refresh ==
  /\ lpc = "check" /\ ~stop
  /\ lpc' = "intake"
  /\ UNCHANGED <<readerVars, newJob, work, xn2, sweepVars, stop, paused, history>>

\* The id is still the work's and the gate is open: launch.  (A paused loop
\* naps and comes back here, with nothing rolled.)
Launch ==
  /\ lpc = "check" /\ ~stop /\ SlotFree
  /\ ~JobChanged(slot, work.job) /\ ~paused
  /\ launch' = Space(work, xn2)
  /\ slices' = MaxSlices /\ running' = FALSE
  /\ lpc' = "sweep"
  /\ UNCHANGED <<readerVars, newJob, work, xn2, found, stop, paused, moved>>

\* The two flags a backend polls.
Cancelled == stop \/ newJob

\* Between slices: a raised flag, or an empty range, ends the launch.
Boundary ==
  /\ lpc = "sweep" /\ ~running
  /\ IF Cancelled \/ slices = 0
       THEN lpc' = "settle" /\ found' = "none" /\ UNCHANGED <<slices, running>>
       ELSE running' = TRUE /\ slices' = slices - 1 /\ UNCHANGED <<lpc, found>>
  /\ UNCHANGED <<readerVars, newJob, work, xn2, stop, paused, history>>

\* A slice ends, with a claimed share or without.
SliceDone ==
  /\ lpc = "sweep" /\ running
  /\ running' = FALSE
  /\ found' \in Outcome
  /\ lpc' = IF found' = "none" THEN "sweep" ELSE "settle"
  /\ UNCHANGED <<readerVars, newJob, work, xn2, slices, stop, paused, history>>

\* Mutants: extranonce2 does not wrap; it is not rolled after a mismatch.
NextXn2Unbounded == xn2 + 1
NextXn2Unrolled == IF found = "mismatch" THEN xn2 ELSE (xn2 + 1) % Xn2Mod

\* xn2.wrapping_add(1).
NextXn2 == (xn2 + 1) % Xn2Mod

\* The correctness gate and the submit, after which extranonce2 rolls: on every
\* path, for good, mismatched, above-target and missing shares alike.
Settle ==
  /\ lpc = "settle"
  /\ xn2' = NextXn2
  /\ lpc' = "check"
  /\ UNCHANGED <<readerVars, newJob, work, sweepVars, stop, paused, history>>

Loop == Intake \/ Idle \/ Clear \/ Leave \/ Refresh \/ Launch \/ Boundary \/ SliceDone \/ Settle
-----------------------------------------------------------------------------
\* Ctrl-C, and the thermal poller.
Stop ==
  /\ ~stop /\ stop' = TRUE
  /\ UNCHANGED <<readerVars, newJob, lpc, work, xn2, sweepVars, paused, history>>

Gate ==
  /\ paused' = ~paused
  /\ UNCHANGED <<readerVars, newJob, lpc, work, xn2, sweepVars, stop, history>>

Next == Reader \/ Loop \/ Stop \/ Gate

Spec == Init /\ [][Next]_vars

\* The loop and the reader are scheduled, and refresh_every does pass.
Fairness == WF_vars(Loop) /\ WF_vars(Raise) /\ SF_vars(Refresh) /\ SF_vars(Leave)

FairSpec == Spec /\ Fairness
-----------------------------------------------------------------------------
(* Properties.                                                             *)

TypeOK ==
  /\ npc \in {"idle", "raise"} /\ sent \in Nat /\ xn1 \in Nat
  /\ slot \in StratumJob \cup {NoJob} /\ work \in StratumJob \cup {NoJob}
  /\ newJob \in BOOLEAN /\ running \in BOOLEAN /\ stop \in BOOLEAN /\ paused \in BOOLEAN
  /\ lpc \in {"intake", "clear", "check", "sweep", "settle", "done"}
  /\ lpc \in {"clear", "check", "sweep", "settle"} => work # NoJob
  /\ work # NoJob => slot # NoJob
  /\ xn2 \in 0 .. Xn2Mod - 1
  /\ slices \in Nat /\ found \in Outcome /\ moved \in BOOLEAN

\* No sweep of a block the pool has left goes on unnoticed: while a launch is
\* about another block than the slot, the flag the backend polls is raised, or
\* the reader is about to raise it.  (BUILD #2, loop_stratum.rs: clearing the
\* flag between the copy and the id check loses no preemption.)
StaleIsPreempted ==
  (lpc = "sweep" /\ work.job.prev # slot.job.prev) => (newJob \/ npc = "raise")

\* So a slice is started on a left block at most in the instant between the
\* reader's write of the slot and its raising of the flag.
NoStaleSlice ==
  [][(~running /\ running' /\ work.job.prev # slot.job.prev) => npc = "raise"]_vars

\* A template refresh costs no sweep: if every job since the loop took its copy
\* was on the same block, its launches are not preempted.  This is what raising
\* the flag before releasing the slot is for.
NoSpuriousPreempt == (lpc = "sweep" /\ newJob) => moved

\* No launch repeats the header space of the launch before it, whatever became
\* of that one: found, mismatch, above target, preempted or exhausted.
NoRepeatedLaunch ==
  [][(lpc = "check" /\ lpc' = "sweep" /\ Xn2Mod > 1) => launch' # launch]_vars

\* Shutdown ends the loop, even in a sweep, even paused for heat.
StopEnds == stop ~> (lpc = "done")

\* The newest publication the loop can map is taken up, even one that differs from
\* the work in its extranonce1 only (after a reconnect, with the job repeated),
\* even after jobs it could not map, and even while the thermal gate is closed.
FreshWork == (Mappable(slot) /\ work # slot) ~> (work = slot \/ stop \/ ~Mappable(slot))
=============================================================================
