------------------------------- MODULE GpuPipes -------------------------------
(***************************************************************************)
(* hash_range of the two GPU backends: src/src/backends/cuda.rs, whose two *)
(* pipes live as long as the backend, and src/src/backends/opencl.rs,      *)
(* whose buffers are made anew in every call.                              *)
(*                                                                         *)
(* The host enqueues on two in-order streams and the device runs each on   *)
(* its own time: what a call that was called off left in flight is still   *)
(* run under the next call.  A device that faults runs nothing more and    *)
(* fails every call on it, until recover() has rebuilt the pipes.          *)
(***************************************************************************)
EXTENDS BackendContract, Sequences

CONSTANTS
  Launch     \* nonces of one launch: blocks * threads * nonces_per_thread

ASSUME PipesAssumption == Launch \in Nat \ {0}

VARIABLES
  kind,      \* "cuda" or "opencl"
  pc,        \* host: "idle", "empty", "prime", "top", "drain", "other", "launch"
  next,      \* next_start
  current,   \* current_pipe
  inFlight,  \* PipeRes.in_flight, per pipe
  stream,    \* operations enqueued and not run, per pipe
  buffer,    \* device memory, per pipe: inputs, found_flag, found_nonce
  late       \* history: launches of this call made with a cancel flag up

hostVars == <<pc, next, current, inFlight, late>>
pipeVars == <<kind, hostVars, stream, buffer>>

Pipe == 0 .. 1
Blank == [job |-> [limit |-> 0, sols |-> {}], flag |-> FALSE, nonce |-> NoNonce]

PipesInit ==
  /\ kind \in {"cuda", "opencl"} /\ pc = "idle" /\ next = 0 /\ current = 0
  /\ inFlight = [p \in Pipe |-> FALSE] /\ stream = [p \in Pipe |-> <<>>]
  /\ buffer = [p \in Pipe |-> Blank] /\ late = 0

Enqueue(p, ops) == stream' = [stream EXCEPT ![p] = @ \o ops]

\* The call ends with r.
Leave(r) ==
  /\ Return(r) /\ pc' = "idle"
  /\ UNCHANGED <<calls, job, cancel, sick>>

\* Entry: an empty range is done at once.
Enter ==
  /\ pc = "idle"
  /\ \E j \in Job :
       /\ StartCall(j)
       /\ pc' = IF j.limit = 0 THEN "empty" ELSE "prime"
  /\ next' = 0 /\ current' = 0 /\ late' = 0
  /\ UNCHANGED <<sick, kind, inFlight, stream, buffer>>

Empty ==
  /\ pc = "empty" /\ Leave(None)
  /\ UNCHANGED <<kind, next, current, inFlight, stream, buffer, late>>

\* A host call fails: it does once the device has faulted.
Fails ==
  /\ pc \in {"prime", "drain", "launch"} /\ sick /\ Leave(Fault)
  /\ UNCHANGED <<kind, next, current, inFlight, stream, buffer, late>>

\* prime_pipe on both: the copies queue up behind what is in flight.
PrimePersistent ==
  /\ stream' = [p \in Pipe |-> Append(stream[p], [op |-> "prime", job |-> job])]
  /\ UNCHANGED buffer

\* PipeRes::new and the blocking uploads: fresh memory, once the queue is empty.
PrimeFresh ==
  /\ \A p \in Pipe : stream[p] = <<>>
  /\ buffer' = [p \in Pipe |-> [Blank EXCEPT !.job = job]]
  /\ UNCHANGED stream

Prime ==
  /\ pc = "prime" /\ ~sick
  /\ IF kind = "cuda" THEN PrimePersistent ELSE PrimeFresh
  /\ inFlight' = [p \in Pipe |-> FALSE]
  /\ pc' = "top"
  /\ UNCHANGED <<contractVars, kind, next, current, late>>

\* Mutant: a new job does not call a sweep off.
CalledOffByStop == "stop" \in cancel

\* The cancel check between launches.
CalledOff == cancel # {}

Top ==
  /\ pc = "top"
  /\ IF CalledOff THEN Leave(None)
     ELSE /\ pc' = IF inFlight[current] THEN "drain" ELSE "launch"
          /\ UNCHANGED contractVars
  /\ UNCHANGED <<kind, next, current, inFlight, stream, buffer, late>>

\* drain_pipe: wait for the stream, then read the flag and the find.
Drain ==
  /\ pc = "drain" /\ ~sick /\ stream[current] = <<>>
  /\ inFlight' = [inFlight EXCEPT ![current] = FALSE]
  /\ IF buffer[current].flag
       THEN IF kind = "cuda" THEN Leave(Find(buffer[current].nonce))
            ELSE pc' = "other" /\ UNCHANGED contractVars
       ELSE pc' = "launch" /\ UNCHANGED contractVars
  /\ UNCHANGED <<kind, next, current, stream, buffer, late>>

\* OpenCL: with a find in hand the other pipe is drained too, error or not.
DrainOther ==
  /\ pc = "other"
  /\ sick \/ ~inFlight[1 - current] \/ stream[1 - current] = <<>>
  /\ Leave(Find(buffer[current].nonce))
  /\ UNCHANGED <<kind, next, current, inFlight, stream, buffer, late>>

\* Mutant: the range is done when one pipe is.
OneIdle == ~inFlight[0] \/ ~inFlight[1]

\* Nothing to launch and nothing to wait for.
BothIdle == ~inFlight[0] /\ ~inFlight[1]

\* Zero the flag, launch, and turn to the other pipe; or the range is done.
LaunchNext ==
  /\ pc = "launch" /\ ~sick
  /\ IF next < job.limit
       THEN /\ Enqueue(current, <<[op |-> "zero"], [op |-> "sweep", start |-> next]>>)
            /\ inFlight' = [inFlight EXCEPT ![current] = TRUE]
            /\ next' = IF next + Launch < job.limit THEN next + Launch ELSE job.limit
            /\ current' = 1 - current /\ pc' = "top"
            /\ late' = IF cancel = {} THEN 0 ELSE late + 1
            /\ UNCHANGED contractVars
       ELSE /\ IF BothIdle THEN Leave(None)
               ELSE pc' = "top" /\ UNCHANGED contractVars
            /\ current' = 1 - current
            /\ UNCHANGED <<inFlight, stream, next, late>>
  /\ UNCHANGED <<kind, buffer>>

\* found_flag is zeroed before the launch and with the inputs.
ZeroFlag(b) == [b EXCEPT !.flag = FALSE]

\* mine_sha256d: the nonces of a launch wrap at the top of the u32 space, where
\* those at or past the limit are not tried; one find is kept.
Swept(start, limit) ==
  {n \in 0 .. limit - 1 : \E i \in 0 .. Launch - 1 : n = (start + i) % Width}

Ran(b, op) ==
  CASE op.op = "zero"  -> {ZeroFlag(b)}
    [] op.op = "prime" -> {[ZeroFlag(b) EXCEPT !.job = op.job]}
    [] op.op = "sweep" ->
         LET finds == Swept(op.start, b.job.limit) \cap b.job.sols
         IN  IF b.flag \/ finds = {} THEN {b}
             ELSE {[b EXCEPT !.flag = TRUE, !.nonce = n] : n \in finds}

\* The device runs the head of a stream.
Run(p) ==
  /\ stream[p] # <<>> /\ ~sick
  /\ stream' = [stream EXCEPT ![p] = Tail(@)]
  /\ \E b \in Ran(buffer[p], Head(stream[p])) : buffer' = [buffer EXCEPT ![p] = b]
  /\ UNCHANGED <<contractVars, kind, hostVars>>

\* The device faults with work in flight.
Break ==
  /\ ~sick /\ \E p \in Pipe : stream[p] # <<>>
  /\ sick' = TRUE
  /\ UNCHANGED <<calls, busy, job, cancel, result, pipeVars>>

\* recover(), of the mining loop or the watchdog, when it succeeds: it only tries
\* the lock that hash_range holds for a whole call, and OpenCL has none.
Recover ==
  /\ kind = "cuda" /\ pc = "idle"
  /\ sick' = FALSE
  /\ stream' = [p \in Pipe |-> <<>>] /\ buffer' = [p \in Pipe |-> Blank]
  /\ inFlight' = [p \in Pipe |-> FALSE]
  /\ UNCHANGED <<calls, busy, job, cancel, result, kind, pc, next, current, late>>

PipesFlag == pc # "idle" /\ Flag /\ UNCHANGED pipeVars

Host == Empty \/ Fails \/ Prime \/ Top \/ Drain \/ DrainOther \/ LaunchNext
PipesNext == Enter \/ Host \/ (\E p \in Pipe : Run(p)) \/ Break \/ Recover \/ PipesFlag
=============================================================================
