---------------------------- MODULE BackendsProofs ----------------------------
(***************************************************************************)
(* Proof that the GPU pipelines and the CPU pool keep the contract of      *)
(* hash_range, for every width of a nonce, range, target, launch size,     *)
(* chunk and number of threads.                                            *)
(***************************************************************************)
EXTENDS Backends, SequenceTheorems, TLAPS

\* The job of a call, or of none yet.
JobType == [limit : 0 .. Width - 1, sols : SUBSET Nonce]

\* A solution of the call under way.
Good(n) == n \in job.sols /\ n < job.limit

ContractType ==
  /\ calls \in Nat /\ busy \in BOOLEAN /\ job \in JobType /\ sick \in BOOLEAN
  /\ cpu \in BOOLEAN

-----------------------------------------------------------------------------
(* The pipelines.                                                          *)

Zero == [op |-> "zero"]
PrimeOp(j) == [op |-> "prime", job |-> j]
Buffer == [job : JobType, flag : BOOLEAN, nonce : Nat]
Op == {Zero} \cup [op : {"prime"}, job : JobType] \cup [op : {"sweep"}, start : Nat]

PipeType ==
  /\ kind \in {"cuda", "opencl"}
  /\ pc \in {"idle", "empty", "prime", "top", "drain", "other", "launch"}
  /\ next \in Nat /\ current \in Pipe /\ late \in Nat
  /\ inFlight \in [Pipe -> BOOLEAN]
  /\ stream \in [Pipe -> Seq(Op)]
  /\ buffer \in [Pipe -> Buffer]

\* Between priming and return.
Working == pc \in {"top", "drain", "launch"}

\* Before the last k operations of p are run, its memory holds the job of this
\* call: the one before them copies it there, or it is there already.
Loaded(p, k) ==
  LET s == stream[p]
  IN  /\ Len(s) > k => s[Len(s) - k] = PrimeOp(job)
      /\ Len(s) <= k => buffer[p].job = job

\* A pipe in flight has a launch of this call to run or to be drained: the flag
\* is zeroed before it, and up after it only with a find of this call.
InFlightOK(p) ==
  LET s == stream[p]
  IN  /\ Loaded(p, 2)
      /\ Len(s) >= 1 => s[Len(s)].op = "sweep"
      /\ Len(s) >= 2 => s[Len(s) - 1] = Zero
      /\ Len(s) = 1 => ~buffer[p].flag
      /\ Len(s) = 0 /\ buffer[p].flag => Good(buffer[p].nonce)

Shape ==
  Working => \A p \in Pipe : IF inFlight[p] THEN InFlightOK(p) ELSE Loaded(p, 0)

\* Pipe p will report n, or has another find to report.
Covers(p, n) ==
  LET s == stream[p]
  IN  /\ inFlight[p]
      /\ Len(s) >= 1 => n \in Swept(s[Len(s)].start, job.limit)
      /\ Len(s) = 0 => buffer[p].flag

\* No solution is passed over: it is still to be launched, or in flight.
Covered ==
  Working => \A n \in job.sols : Good(n) => n >= next \/ \E p \in Pipe : Covers(p, n)

\* What the host does next with the current pipe is in order.
Turn ==
  /\ pc = "empty" => job.limit = 0
  /\ pc = "prime" => next = 0
  /\ pc = "drain" => inFlight[current]
  /\ pc = "launch" => ~inFlight[current]
  /\ pc = "other" => stream[current] = <<>> /\ Good(buffer[current].nonce)

\* The one launch made with a flag up is the last of the call.
LateIsLast ==
  /\ late <= 1
  /\ late = 1 => pc \in {"top", "idle"} /\ (pc = "top" => cancel # {})

PipeInv == PipeType /\ Shape /\ Covered /\ Turn /\ LateIsLast

-----------------------------------------------------------------------------
(* The CPU pool.                                                           *)

PoolType ==
  /\ counter \in Nat /\ kept \in Nat /\ localStop \in BOOLEAN
  /\ thread \in [Threads -> {"out", "check", "take", "hash"}]
  /\ chunk \in [Threads -> [at : Nat, end : Nat]]

\* A chunk under way is a part of the range.
ChunkInRange ==
  \A t \in Threads :
    thread[t] = "hash" => chunk[t].at < chunk[t].end /\ chunk[t].end <= job.limit

\* A thread has a reason to end.
OutForReason ==
  busy => \A t \in Threads :
            thread[t] = "out" => cancel # {} \/ localStop \/ counter >= job.limit

\* The threads end early only for a find, which is a solution.
KeptIsGood ==
  /\ localStop => kept # NoNonce
  /\ busy /\ kept # NoNonce => Good(kept)

\* No solution is passed over: it is kept, still to be taken, or in a chunk.
Tried ==
  busy /\ kept = NoNonce =>
    \A n \in job.sols : Good(n) =>
      \/ n >= counter
      \/ \E t \in Threads : thread[t] = "hash" /\ n \in chunk[t].at .. chunk[t].end - 1

PoolInv == PoolType /\ ChunkInRange /\ OutForReason /\ KeptIsGood /\ Tried

IInv == ContractType /\ (cpu => PoolInv /\ late = 0) /\ (~cpu => PipeInv)

-----------------------------------------------------------------------------
\* A blank buffer is a buffer.
LEMMA BlankType == Blank \in Buffer
BY ContractAssumption DEF Blank, Buffer, JobType, NoNonce

\* Before the first call nothing is in flight.
LEMMA InitHolds == Init => IInv
<1> SUFFICES ASSUME Init PROVE IInv
  OBVIOUS
<1> USE ContractAssumption, PipesAssumption, PoolAssumption
<1>1. job \in JobType
  BY DEF Init, NoCall, JobType
<1>2. ContractType
  BY <1>1 DEF Init, NoCall, ContractType
<1>3. PoolInv
  BY DEF Init, NoCall, PoolInit, PoolInv, PoolType, ChunkInRange, OutForReason, KeptIsGood,
         Tried, NoChunk, NoNonce
<1>4. PipeType
  <2>1. <<>> \in Seq(Op)
    OBVIOUS
  <2> QED BY BlankType, <2>1 DEF Init, PipesInit, PipeType, Pipe
<1>5. PipeInv
  BY <1>4 DEF Init, PipesInit, PipeInv, Shape, Covered, Working, Turn, LateIsLast
<1>6. late = 0
  BY DEF Init, PipesInit
<1> QED BY <1>2, <1>3, <1>5, <1>6 DEF IInv

\* A job is typed.
LEMMA JobIsTyped == Job \subseteq JobType
BY ContractAssumption DEF Job, JobType, Nonce

\* A call is made with a job of the right type, an answer changes none.
LEMMA ContractStep == ContractType /\ [Next]_vars => ContractType'
<1> SUFFICES ASSUME ContractType, [Next]_vars PROVE ContractType'
  OBVIOUS
<1> USE ContractAssumption DEF ContractType, contractVars
<1>1. ASSUME NEW j \in Job, StartCall(j), UNCHANGED <<sick, cpu>> PROVE ContractType'
  BY <1>1, JobIsTyped DEF StartCall
<1>2. ASSUME NEW r, Return(r), UNCHANGED <<calls, job, sick, cpu>> PROVE ContractType'
  BY <1>2 DEF Return
<1>3. ASSUME UNCHANGED <<calls, busy, job, cpu>>, sick' \in BOOLEAN PROVE ContractType'
  BY <1>3
<1>4. CASE cpu /\ PoolNext /\ UNCHANGED <<pipeVars, cpu>>
  <2>1. CASE PoolEnter
    BY <1>1, <1>4, <2>1 DEF PoolEnter
  <2>2. CASE PoolLeave
    BY <1>2, <1>4, <2>2 DEF PoolLeave
  <2>3. CASE PoolFlag
    BY <1>3, <1>4, <2>3 DEF PoolFlag, Flag
  <2>4. ASSUME NEW t \in Threads, Check(t) \/ Take(t) \/ Try(t) PROVE ContractType'
    BY <1>3, <1>4, <2>4 DEF Check, Take, Try
  <2> QED BY <1>4, <2>1, <2>2, <2>3, <2>4 DEF PoolNext, PoolWork
<1>5. CASE ~cpu /\ PipesNext /\ UNCHANGED <<poolVars, cpu>>
  <2>0. ASSUME NEW r, Leave(r) PROVE ContractType'
    BY <1>2, <1>5, <2>0 DEF Leave
  <2>1. CASE Enter
    BY <1>1, <1>5, <2>1 DEF Enter
  <2>2. CASE Empty \/ Fails \/ DrainOther
    BY <2>0, <2>2 DEF Empty, Fails, DrainOther
  <2>3. CASE Prime \/ PipesFlag \/ \E p \in Pipe : Run(p)
    BY <1>3, <1>5, <2>3 DEF Prime, PipesFlag, Flag, Run
  <2>4. CASE Break \/ Recover
    BY <1>3, <1>5, <2>4 DEF Break, Recover
  <2>5. CASE Top
    BY <1>3, <1>5, <2>0, <2>5 DEF Top
  <2>6. CASE Drain
    BY <1>3, <1>5, <2>0, <2>6 DEF Drain
  <2>7. CASE LaunchNext
    BY <1>3, <1>5, <2>0, <2>7 DEF LaunchNext
  <2> QED BY <1>5, <2>1, <2>2, <2>3, <2>4, <2>5, <2>6, <2>7 DEF PipesNext, Host
<1>6. CASE Idle \/ UNCHANGED vars
  BY <1>3, <1>6 DEF Idle, vars
<1> QED BY <1>4, <1>5, <1>6 DEF Next

\* A raised flag joins those that are up.
LEMMA FlagRises ==
  ASSUME Flag
  PROVE  /\ cancel' # {}
         /\ UNCHANGED <<calls, busy, job, sick, result>>
BY DEF Flag, RaiseFlag

\* The pool keeps its types.
LEMMA PoolTypeStep ==
  ASSUME ContractType, PoolType, PoolNext
  PROVE  PoolType'
<1> USE ContractAssumption, PoolAssumption DEF PoolType
<1>1. CASE PoolEnter
  BY <1>1 DEF PoolEnter, NoNonce
<1>2. CASE PoolLeave \/ PoolFlag
  BY <1>2 DEF PoolLeave, PoolFlag, poolVars
<1>3. ASSUME NEW t \in Threads, Check(t) PROVE PoolType'
  BY <1>3 DEF Check
<1>4. ASSUME NEW t \in Threads, Take(t) PROVE PoolType'
  <2>1. ChunkOf(counter) \in [at : Nat, end : Nat]
    BY DEF ChunkOf, ContractType, JobType
  <2> QED BY <1>4, <2>1 DEF Take, Advanced
<1>5. ASSUME NEW t \in Threads, Try(t) PROVE PoolType'
  <2>1. chunk[t] \in [at : Nat, end : Nat] /\ NoChunk \in [at : Nat, end : Nat]
    BY DEF NoChunk
  <2>2. [chunk[t] EXCEPT !.at = chunk[t].at + 1] \in [at : Nat, end : Nat]
    BY <2>1
  <2>3. chunk' \in [Threads -> [at : Nat, end : Nat]]
    BY <1>5, <2>1, <2>2 DEF Try
  <2>4. kept' \in Nat /\ localStop' \in BOOLEAN
    BY <1>5, <2>1 DEF Try, KeepFirst
  <2>5. thread' \in [Threads -> {"out", "check", "take", "hash"}] /\ counter' = counter
    BY <1>5 DEF Try
  <2> QED BY <2>3, <2>4, <2>5
<1> QED BY <1>1, <1>2, <1>3, <1>4, <1>5 DEF PoolNext, PoolWork

\* Every step of the pool keeps its invariant.
LEMMA PoolStep ==
  ASSUME ContractType, PoolInv, PoolNext
  PROVE  PoolInv'
<1> USE ContractAssumption, PoolAssumption
<1>t. PoolType /\ PoolType' /\ job.limit \in Nat /\ job.limit < Width
  BY PoolTypeStep DEF PoolInv, ContractType, JobType
<1> USE DEF ChunkInRange, OutForReason, KeptIsGood, Tried
<1>1. CASE PoolEnter
  <2>1. /\ counter' = 0 /\ kept' = NoNonce /\ localStop' = FALSE /\ job' \in Job
        /\ thread' = [t \in Threads |-> IF job'.limit = 0 THEN "out" ELSE "check"]
    BY <1>1 DEF PoolEnter, StartCall
  <2>2. job'.limit \in Nat /\ job'.sols \subseteq Nat
    BY <2>1, JobIsTyped DEF JobType, Nonce
  <2>3. ChunkInRange' /\ OutForReason' /\ KeptIsGood'
    BY <2>1, <2>2
  <2>4. ASSUME NEW n \in job'.sols, Good(n)' PROVE n >= counter'
    BY <2>1, <2>2, <2>4
  <2> QED BY <1>t, <2>3, <2>4 DEF PoolInv
<1>2. CASE PoolLeave
  <2>1. ~busy' /\ UNCHANGED <<job, poolVars>>
    BY <1>2 DEF PoolLeave, Return
  <2> QED BY <1>t, <2>1 DEF PoolInv, poolVars, Good
<1>3. CASE PoolFlag
  <2>1. cancel' # {} /\ UNCHANGED <<busy, job, poolVars>>
    BY <1>3, FlagRises DEF PoolFlag
  <2> QED BY <1>t, <2>1 DEF PoolInv, poolVars, Good
<1>4. ASSUME NEW t \in Threads, Check(t) PROVE PoolInv'
  <2>1. /\ thread[t] = "check"
        /\ UNCHANGED <<busy, job, cancel, counter, kept, localStop, chunk>>
        /\ thread' = [thread EXCEPT ![t] = IF localStop \/ cancel # {} THEN "out" ELSE "take"]
    BY <1>4 DEF Check, contractVars
  <2>2. \A u \in Threads : thread'[u] = "hash" <=> thread[u] = "hash"
    BY <1>t, <2>1 DEF PoolType
  <2>3. OutForReason'
    BY <1>t, <2>1 DEF PoolInv, PoolType
  <2> QED BY <1>t, <2>1, <2>2, <2>3 DEF PoolInv, Good
<1>5. ASSUME NEW t \in Threads, Take(t) PROVE PoolInv'
  <2>1. /\ thread[t] = "take" /\ UNCHANGED <<busy, job, cancel, kept, localStop>>
        /\ counter' = counter + Chunk
    BY <1>5 DEF Take, Advanced, contractVars
  <2>2. KeptIsGood'
    BY <2>1 DEF PoolInv, Good
  <2>3. CASE counter >= job.limit
    <3>1. thread' = [thread EXCEPT ![t] = "out"] /\ UNCHANGED chunk
      BY <1>5, <2>3 DEF Take
    <3>2. \A u \in Threads : thread'[u] = "hash" <=> thread[u] = "hash"
      BY <1>t, <2>1, <3>1 DEF PoolType
    <3>3. ChunkInRange'
      BY <2>1, <3>1, <3>2 DEF PoolInv
    <3>4. OutForReason'
      BY <1>t, <2>1, <2>3, <3>1 DEF PoolInv, PoolType
    <3>5. ASSUME busy', kept' = NoNonce, NEW n \in job'.sols, Good(n)'
          PROVE  \E u \in Threads :
                   thread'[u] = "hash" /\ n \in chunk'[u].at .. chunk'[u].end - 1
      <4>1. n \in Nat /\ n < counter
        BY <1>t, <2>1, <2>3, <3>5 DEF Good, ContractType, JobType, Nonce, PoolType
      <4>2. PICK u \in Threads : thread[u] = "hash" /\ n \in chunk[u].at .. chunk[u].end - 1
        BY <1>t, <2>1, <3>5, <4>1 DEF PoolInv, PoolType, Good
      <4> QED BY <3>1, <3>2, <4>2
    <3> QED BY <1>t, <2>2, <3>3, <3>4, <3>5 DEF PoolInv
  <2>4. CASE counter < job.limit
    <3>1. /\ thread' = [thread EXCEPT ![t] = "hash"]
          /\ chunk' = [chunk EXCEPT ![t] = ChunkOf(counter)]
      BY <1>5, <1>t, <2>4 DEF Take, PoolType
    <3>2. /\ ChunkOf(counter).at = counter /\ counter < ChunkOf(counter).end
          /\ ChunkOf(counter).end <= job.limit
          /\ ChunkOf(counter).end = counter + Chunk \/ ChunkOf(counter).end = job.limit
      BY <1>t, <2>4 DEF ChunkOf, PoolType
    <3>3. ChunkInRange'
      BY <1>t, <2>1, <3>1, <3>2 DEF PoolInv, PoolType
    <3>4. OutForReason'
      BY <1>t, <2>1, <2>4, <3>1 DEF PoolInv, PoolType
    <3>5. ASSUME busy', kept' = NoNonce, NEW n \in job'.sols, Good(n)'
          PROVE  n >= counter' \/ \E u \in Threads :
                   thread'[u] = "hash" /\ n \in chunk'[u].at .. chunk'[u].end - 1
      <4>1. n \in Nat /\ n < job.limit
        BY <2>1, <3>5 DEF Good, ContractType, JobType, Nonce
      <4>2. CASE n < counter
        <5>1. PICK u \in Threads : thread[u] = "hash" /\ n \in chunk[u].at .. chunk[u].end - 1
          BY <1>t, <2>1, <3>5, <4>1, <4>2 DEF PoolInv, PoolType, Good
        <5>2. u # t
          BY <2>1, <5>1
        <5> QED BY <1>t, <3>1, <5>1, <5>2 DEF PoolType
      <4>3. CASE n >= counter /\ n < counter + Chunk
        <5>1. chunk'[t] = ChunkOf(counter) /\ thread'[t] = "hash"
          BY <1>t, <3>1 DEF PoolType
        <5>2. n \in chunk'[t].at .. chunk'[t].end - 1
          BY <1>t, <3>2, <4>1, <4>3, <5>1 DEF PoolType
        <5> QED BY <5>1, <5>2
      <4> QED BY <1>t, <2>1, <4>1, <4>2, <4>3 DEF PoolType
    <3> QED BY <1>t, <2>2, <3>3, <3>4, <3>5 DEF PoolInv
  <2> QED BY <1>t, <2>3, <2>4 DEF PoolType
<1>6. ASSUME NEW t \in Threads, Try(t) PROVE PoolInv'
  <2>1. thread[t] = "hash" /\ UNCHANGED <<busy, job, cancel, counter>>
    BY <1>6 DEF Try, contractVars
  <2>2. /\ chunk[t].at \in Nat /\ chunk[t].end \in Nat
        /\ chunk[t].at < chunk[t].end /\ chunk[t].end <= job.limit
    BY <1>t, <2>1 DEF PoolInv, PoolType
  <2>3. CASE chunk[t].at \in job.sols
    <3>1. /\ kept' = KeepFirst(chunk[t].at) /\ localStop' = TRUE
          /\ thread' = [thread EXCEPT ![t] = "out"] /\ chunk' = [chunk EXCEPT ![t] = NoChunk]
      BY <1>6, <2>3 DEF Try
    <3>2. kept' # NoNonce /\ (busy' => Good(kept)')
      BY <1>t, <2>1, <2>2, <2>3, <3>1 DEF KeepFirst, Good, NoNonce, PoolInv
    <3>3. ChunkInRange'
      BY <1>t, <2>1, <3>1 DEF PoolInv, PoolType
    <3>4. OutForReason' /\ KeptIsGood' /\ Tried'
      BY <3>1, <3>2
    <3> QED BY <1>t, <3>3, <3>4 DEF PoolInv
  <2>4. CASE chunk[t].at \notin job.sols
    <3> DEFINE last == chunk[t].at + 1 = chunk[t].end
    <3>1. /\ UNCHANGED <<kept, localStop>>
          /\ thread' = [thread EXCEPT ![t] = IF last THEN "check" ELSE "hash"]
          /\ chunk' = [chunk EXCEPT ![t] = IF last THEN NoChunk
                                           ELSE [chunk[t] EXCEPT !.at = chunk[t].at + 1]]
      BY <1>6, <2>4 DEF Try
    <3>2. thread'[t] = (IF last THEN "check" ELSE "hash")
      BY <1>t, <3>1 DEF PoolType
    <3>3. ~last => chunk'[t] = [at |-> chunk[t].at + 1, end |-> chunk[t].end]
      <4>1. chunk[t] = [at |-> chunk[t].at, end |-> chunk[t].end]
        BY <1>t DEF PoolType
      <4>2. [chunk[t] EXCEPT !.at = chunk[t].at + 1]
              = [at |-> chunk[t].at + 1, end |-> chunk[t].end]
        BY <4>1
      <4> QED BY <1>t, <3>1, <4>2 DEF PoolType
    <3>4. \A u \in Threads \ {t} : chunk'[u] = chunk[u] /\ thread'[u] = thread[u]
      BY <1>t, <3>1 DEF PoolType
    <3>5. ChunkInRange'
      BY <1>t, <2>1, <2>2, <3>2, <3>3, <3>4 DEF PoolInv
    <3>6. OutForReason' /\ KeptIsGood'
      BY <1>t, <2>1, <3>1, <3>2, <3>4 DEF PoolInv, Good
    <3>7. ASSUME busy', kept' = NoNonce, NEW n \in job'.sols, Good(n)', n < counter'
          PROVE  \E u \in Threads :
                   thread'[u] = "hash" /\ n \in chunk'[u].at .. chunk'[u].end - 1
      <4>1. n \in Nat /\ n # chunk[t].at
        BY <2>1, <2>4, <3>7 DEF ContractType, JobType, Nonce
      <4>2. PICK u \in Threads : thread[u] = "hash" /\ n \in chunk[u].at .. chunk[u].end - 1
        BY <1>t, <2>1, <3>1, <3>7, <4>1 DEF PoolInv, PoolType, Good
      <4>3. CASE u = t
        <5>1. ~last
          BY <2>2, <4>1, <4>2, <4>3
        <5>2. n \in chunk[t].at + 1 .. chunk[t].end - 1
          BY <2>2, <4>1, <4>2, <4>3
        <5> QED BY <3>2, <3>3, <5>1, <5>2
      <4>4. CASE u # t
        BY <3>4, <4>2, <4>4
      <4> QED BY <4>3, <4>4
    <3>8. Tried'
      <4>1. \A n \in job'.sols : n \in Nat
        BY <2>1 DEF ContractType, JobType, Nonce
      <4> QED BY <1>t, <3>7, <4>1 DEF PoolType
    <3> QED BY <1>t, <3>5, <3>6, <3>8 DEF PoolInv
  <2> QED BY <2>3, <2>4
<1> QED BY <1>1, <1>2, <1>3, <1>4, <1>5, <1>6 DEF PoolNext, PoolWork

-----------------------------------------------------------------------------
(* The pipelines, step by step.                                            *)

\* What an operation makes of a pipe's memory.
LEMMA RanResult ==
  ASSUME NEW b \in Buffer, NEW op \in Op, NEW c \in Ran(b, op)
  PROVE  /\ c \in Buffer
         /\ op.op = "prime" => c.job = op.job
         /\ op.op # "prime" => c.job = b.job
         /\ op.op = "zero" => ~c.flag
         /\ op.op = "sweep" =>
              LET finds == Swept(op.start, b.job.limit) \cap b.job.sols
              IN  /\ c.flag /\ ~b.flag => c.nonce \in finds
                  /\ finds # {} => c.flag
<1>b. b = [job |-> b.job, flag |-> b.flag, nonce |-> b.nonce]
  BY DEF Buffer
<1>z. ZeroFlag(b) = [job |-> b.job, flag |-> FALSE, nonce |-> b.nonce]
  <2>1. \A w : [b EXCEPT !.flag = w] = [job |-> b.job, flag |-> w, nonce |-> b.nonce]
    BY DEF Buffer
  <2> QED BY <2>1, Zenon DEF ZeroFlag
<1>1. CASE op = Zero
  <2>1. op.op = "zero"
    BY <1>1 DEF Zero
  <2>2. c = ZeroFlag(b)
    BY <2>1 DEF Ran
  <2> QED BY <1>z, <2>1, <2>2 DEF Buffer
<1>2. CASE op \in [op : {"prime"}, job : JobType]
  <2>1. op.op = "prime" /\ op.job \in JobType
    BY <1>2
  <2>2. c = [ZeroFlag(b) EXCEPT !.job = op.job]
    BY <2>1 DEF Ran
  <2>3. c = [job |-> op.job, flag |-> FALSE, nonce |-> b.nonce]
    <3>1. ZeroFlag(b) \in Buffer
      BY <1>z DEF Buffer
    <3>2. \A d \in Buffer :
            [d EXCEPT !.job = op.job] = [job |-> op.job, flag |-> d.flag, nonce |-> d.nonce]
      BY DEF Buffer
    <3>3. ZeroFlag(b).flag = FALSE /\ ZeroFlag(b).nonce = b.nonce
      BY <1>z
    <3> QED BY <2>2, <3>1, <3>2, <3>3, Zenon
  <2> QED BY <2>1, <2>3 DEF Buffer
<1>3. CASE op \in [op : {"sweep"}, start : Nat]
  <2> DEFINE finds == Swept(op.start, b.job.limit) \cap b.job.sols
  <2>1. op.op = "sweep"
    BY <1>3
  <2>2. c \in IF b.flag \/ finds = {} THEN {b}
              ELSE {[b EXCEPT !.flag = TRUE, !.nonce = n] : n \in finds}
    BY <2>1 DEF Ran
  <2>3. CASE b.flag \/ finds = {}
    BY <1>b, <2>1, <2>2, <2>3
  <2>4. CASE ~b.flag /\ finds # {}
    <3>1. PICK n \in finds : c = [b EXCEPT !.flag = TRUE, !.nonce = n]
      BY <2>2, <2>4
    <3>2. c = [job |-> b.job, flag |-> TRUE, nonce |-> n]
      BY <1>b, <3>1
    <3>3. n \in Nat
      BY <3>1, ContractAssumption DEF Buffer, JobType, Nonce
    <3> QED BY <2>1, <2>4, <3>1, <3>2, <3>3 DEF Buffer
  <2> QED BY <2>3, <2>4
<1> QED BY <1>1, <1>2, <1>3 DEF Op

\* The device runs an operation: the rest of the stream moves up by one.
LEMMA RunStep ==
  ASSUME ContractType, PipeInv, NEW p \in Pipe, Run(p)
  PROVE  PipeInv'
<1>1. /\ stream[p] # <<>> /\ stream' = [stream EXCEPT ![p] = Tail(stream[p])]
      /\ UNCHANGED <<contractVars, kind, hostVars>>
  BY DEF Run
<1>2. PICK b \in Ran(buffer[p], Head(stream[p])) : buffer' = [buffer EXCEPT ![p] = b]
  BY DEF Run
<1> DEFINE s == stream[p]
           r == stream'[p]
<1>3. stream[p] \in Seq(Op) /\ buffer[p] \in Buffer
  BY DEF PipeInv, PipeType
<1>4. /\ Len(s) \in Nat \ {0} /\ Head(s) = s[1] /\ s[1] \in Op
      /\ r \in Seq(Op) /\ Len(r) = Len(s) - 1 /\ \A i \in 1 .. Len(r) : r[i] = s[i + 1]
  BY <1>1, <1>3 DEF PipeInv, PipeType
<1>5. b \in Buffer /\ buffer'[p] = b
  BY <1>2, <1>3, <1>4, RanResult DEF PipeInv, PipeType
<1>6. PipeType'
  BY <1>1, <1>2, <1>4, <1>5 DEF PipeInv, PipeType, hostVars
<1>7. /\ s[1].op = "prime" => b.job = s[1].job
      /\ s[1].op # "prime" => b.job = buffer[p].job
      /\ (s[1].op = "zero" => ~b.flag)
      /\ s[1].op = "sweep" =>
           LET finds == Swept(s[1].start, buffer[p].job.limit) \cap buffer[p].job.sols
           IN  (b.flag /\ ~buffer[p].flag => b.nonce \in finds) /\ (finds # {} => b.flag)
  BY <1>2, <1>3, <1>4, RanResult
<1>8. UNCHANGED <<job, cancel, pc, next, current, inFlight, late>>
  BY <1>1 DEF contractVars, hostVars
<1>9. \A q \in Pipe \ {p} : stream'[q] = stream[q] /\ buffer'[q] = buffer[q]
  BY <1>1, <1>2 DEF PipeInv, PipeType
<1> HIDE DEF s, r
<1>10. ASSUME Working, ~inFlight[p] PROVE Loaded(p, 0)'
  <2>1. Loaded(p, 0)
    BY <1>10 DEF PipeInv, Shape
  <2>2. Len(r) > 0 => r[Len(r) - 0] = PrimeOp(job')
    BY <1>4, <1>8, <2>1 DEF Loaded, s, r
  <2>3. Len(r) <= 0 => b.job = job'
    BY <1>4, <1>7, <1>8, <2>1 DEF Loaded, PrimeOp, s
  <2> QED BY <1>5, <2>2, <2>3 DEF Loaded, r
<1>11. ASSUME Working, inFlight[p]
       PROVE  /\ InFlightOK(p)'
              /\ \A n \in job.sols : Good(n) /\ Covers(p, n) => Covers(p, n)'
  <2>1. /\ Len(s) > 2 => s[Len(s) - 2] = PrimeOp(job)
        /\ Len(s) <= 2 => buffer[p].job = job
        /\ Len(s) >= 1 => s[Len(s)].op = "sweep"
        /\ Len(s) >= 2 => s[Len(s) - 1] = Zero
        /\ Len(s) = 1 => ~buffer[p].flag
    BY <1>11 DEF PipeInv, Shape, InFlightOK, Loaded, s
  <2>2. Len(r) > 2 => r[Len(r) - 2] = PrimeOp(job)
    BY <1>4, <2>1
  <2>3. Len(r) <= 2 => b.job = job
    <3>1. CASE Len(s) = 3
      BY <1>7, <2>1, <3>1 DEF PrimeOp
    <3>2. CASE Len(s) = 2
      BY <1>7, <2>1, <3>2 DEF Zero
    <3>3. CASE Len(s) = 1
      BY <1>7, <2>1, <3>3
    <3> QED BY <1>4, <3>1, <3>2, <3>3
  <2>4. /\ Len(r) >= 1 => r[Len(r)] = s[Len(s)]
        /\ Len(r) >= 2 => r[Len(r) - 1] = s[Len(s) - 1]
    BY <1>4
  <2>5. Len(r) = 1 => ~b.flag
    <3>1. Len(r) = 1 => Len(s) = 2
      <4>1. Len(s) \in Nat /\ Len(s) = Len(r) + 1
        BY <1>4
      <4> QED BY <4>1
    <3>2. Len(s) = 2 => s[1] = Zero
      BY <2>1
    <3>3. Zero.op = "zero"
      BY DEF Zero
    <3> QED BY <1>7, <3>1, <3>2, <3>3, Zenon
  <2>6. Len(r) = 0 /\ b.flag => Good(b.nonce)
    <3> SUFFICES ASSUME Len(s) = 1, b.flag PROVE Good(b.nonce)
      BY <1>4
    <3>1. b.nonce \in Swept(s[1].start, job.limit) \cap job.sols
      BY <1>7, <2>1
    <3> QED BY <3>1 DEF Swept, Good, ContractType, JobType
  <2>7. InFlightOK(p)'
    BY <1>4, <1>5, <1>8, <2>1, <2>2, <2>3, <2>4, <2>5, <2>6
       DEF InFlightOK, Loaded, Good, r
  <2>8. ASSUME NEW n \in job.sols, Covers(p, n) PROVE Covers(p, n)'
    <3>1. n \in Swept(s[Len(s)].start, job.limit)
      BY <1>4, <2>8 DEF Covers, s
    <3>2. Len(r) = 0 => b.flag
      <4> SUFFICES ASSUME Len(s) = 1 PROVE b.flag
        BY <1>4
      <4>1. s[1].op = "sweep" /\ buffer[p].job = job /\ n \in Swept(s[1].start, job.limit)
        BY <2>1, <3>1
      <4> QED BY <1>7, <2>8, <4>1
    <3> QED BY <1>4, <1>5, <1>8, <1>11, <2>4, <3>1, <3>2 DEF Covers, r
  <2> QED BY <2>7, <2>8
<1>12. Shape'
  <2>1. ASSUME Working, NEW q \in Pipe \ {p}
        PROVE  (IF inFlight[q] THEN InFlightOK(q) ELSE Loaded(q, 0))'
    BY <1>8, <1>9, <2>1 DEF PipeInv, Shape, InFlightOK, Loaded, Good
  <2> QED BY <1>8, <1>10, <1>11, <2>1 DEF Shape, Working
<1>13. Covered'
  <2>1. ASSUME Working, NEW n \in job.sols, Good(n), n < next
        PROVE  \E q \in Pipe : Covers(q, n)'
    <3>1. PICK q \in Pipe : Covers(q, n)
      <4>1. n \in Nat
        BY DEF ContractType, JobType, Nonce
      <4> QED BY <2>1, <4>1 DEF PipeInv, Covered, PipeType
    <3>2. CASE q = p
      <4>1. inFlight[p]
        BY <3>1, <3>2 DEF Covers
      <4> QED BY <1>11, <2>1, <3>1, <3>2, <4>1
    <3>3. CASE q # p
      <4>1. Covers(q, n)'
        BY <1>8, <1>9, <3>1, <3>3 DEF Covers
      <4> QED BY <4>1
    <3> QED BY <3>2, <3>3
  <2>2. \A n \in job.sols : n \in Nat
    BY DEF ContractType, JobType, Nonce
  <2>3. next \in Nat
    BY DEF PipeInv, PipeType
  <2> QED BY <1>8, <2>1, <2>2, <2>3 DEF Covered, Working, Good
<1>14. Turn'
  <2>1. pc = "other" => current # p
    BY <1>1 DEF PipeInv, Turn
  <2> QED BY <1>8, <1>9, <2>1 DEF PipeInv, PipeType, Turn, Good
<1>15. LateIsLast'
  BY <1>8 DEF PipeInv, LateIsLast
<1> QED BY <1>6, <1>12, <1>13, <1>14, <1>15 DEF PipeInv

\* A step that leaves the working part of a call keeps what is left to keep.
LEMMA LeaveStep ==
  ASSUME PipeInv, PipeType', pc' \in {"idle", "empty", "prime"}, late' \in {0, late},
         pc' = "empty" => job'.limit = 0, pc' = "prime" => next' = 0,
         pc' # "idle" => late' = 0
  PROVE  PipeInv'
BY DEF PipeInv, Shape, Covered, Working, Turn, LateIsLast

\* The type of the state after a call has returned or been made.
LEMMA ReturnType ==
  ASSUME PipeType, NEW r, Leave(r),
         UNCHANGED <<kind, next, current, stream, buffer, late>>,
         inFlight' \in [Pipe -> BOOLEAN]
  PROVE  PipeType' /\ pc' = "idle"
BY DEF PipeType, Leave

\* A sweep that returns leaves nothing of the call behind.
LEMMA ReturnStep ==
  ASSUME PipeInv, NEW r, Leave(r),
         UNCHANGED <<kind, next, current, stream, buffer, late>>,
         inFlight' \in [Pipe -> BOOLEAN]
  PROVE  PipeInv'
<1>1. PipeType' /\ pc' = "idle"
  BY ReturnType DEF PipeInv
<1> QED BY <1>1, LeaveStep

\* A call finds the pipes idle.
LEMMA EnterStep ==
  ASSUME PipeInv, Enter
  PROVE  PipeInv'
<1>1. PipeType'
  BY DEF Enter, PipeInv, PipeType, Pipe
<1>2. pc' = "empty" => job'.limit = 0
  BY DEF Enter, StartCall
<1> QED BY <1>1, <1>2, LeaveStep DEF Enter

\* Both pipes are given the job, and nothing of it is in flight.
LEMMA PrimeStep ==
  ASSUME ContractType, PipeInv, Prime
  PROVE  PipeInv'
<1>1. /\ pc = "prime" /\ pc' = "top" /\ inFlight' = [p \in Pipe |-> FALSE]
      /\ UNCHANGED <<job, cancel, kind, next, current, late>>
  BY DEF Prime, contractVars
<1>2. stream \in [Pipe -> Seq(Op)] /\ buffer \in [Pipe -> Buffer]
  BY DEF PipeInv, PipeType
<1>3. /\ stream' \in [Pipe -> Seq(Op)] /\ buffer' \in [Pipe -> Buffer]
      /\ \A p \in Pipe : Loaded(p, 0)'
  <2>1. CASE kind = "cuda"
    <3>1. /\ stream' = [p \in Pipe |-> Append(stream[p], PrimeOp(job))] /\ buffer' = buffer
      BY <2>1 DEF Prime, PrimePersistent, PrimeOp
    <3>2. PrimeOp(job) \in Op
      BY DEF PrimeOp, Op, ContractType
    <3>3. ASSUME NEW p \in Pipe
          PROVE  /\ stream'[p] \in Seq(Op) /\ Len(stream'[p]) > 0
                 /\ stream'[p][Len(stream'[p])] = PrimeOp(job)
      <4>1. stream'[p] = Append(stream[p], PrimeOp(job)) /\ stream[p] \in Seq(Op)
        BY <1>2, <3>1
      <4> QED BY <3>2, <4>1, AppendProperties
    <3>4. ASSUME NEW p \in Pipe PROVE Loaded(p, 0)'
      <4>1. Len(stream'[p]) \in Nat
        BY <3>3
      <4> QED BY <1>1, <3>3, <4>1 DEF Loaded
    <3> QED BY <1>2, <3>1, <3>3, <3>4
  <2>2. CASE kind # "cuda"
    <3>1. /\ \A p \in Pipe : stream[p] = <<>>
          /\ buffer' = [p \in Pipe |-> [Blank EXCEPT !.job = job]] /\ stream' = stream
      BY <2>2 DEF Prime, PrimeFresh
    <3>2. \A d \in Buffer :
            [d EXCEPT !.job = job] = [job |-> job, flag |-> d.flag, nonce |-> d.nonce]
      BY DEF Buffer
    <3>3. \A p \in Pipe : buffer'[p] \in Buffer /\ buffer'[p].job = job
      <4>1. [Blank EXCEPT !.job = job]
              = [job |-> job, flag |-> Blank.flag, nonce |-> Blank.nonce]
        BY <3>2, BlankType, Zenon
      <4> QED BY <3>1, <4>1, BlankType DEF Buffer, ContractType
    <3>4. buffer' \in [Pipe -> Buffer]
      BY <3>1, <3>3
    <3>5. \A p \in Pipe : Len(stream'[p]) = 0
      BY <3>1
    <3> QED BY <1>1, <1>2, <3>1, <3>3, <3>4, <3>5, SMTT(60) DEF Loaded
  <2> QED BY <2>1, <2>2
<1>4. next = 0 /\ late = 0
  BY <1>1 DEF PipeInv, Turn, LateIsLast, PipeType
<1>5. PipeType'
  BY <1>1, <1>3 DEF PipeInv, PipeType
<1>6. Shape'
  BY <1>1, <1>3 DEF Shape
<1>7. Covered'
  <2>1. \A n \in job'.sols : n \in Nat
    BY <1>1 DEF ContractType, JobType, Nonce
  <2> QED BY <1>1, <1>4, <2>1 DEF Covered
<1> QED BY <1>1, <1>4, <1>5, <1>6, <1>7 DEF PipeInv, Turn, LateIsLast

\* The check between launches: the current pipe is drained or launched next.
LEMMA TopStep ==
  ASSUME PipeInv, Top
  PROVE  PipeInv'
<1>1. pc = "top" /\ UNCHANGED <<kind, next, current, inFlight, stream, buffer, late>>
  BY DEF Top
<1>2. CASE CalledOff
  BY <1>1, <1>2, ReturnStep DEF Top, PipeInv, PipeType
<1>3. CASE ~CalledOff
  <2>1. /\ pc' = (IF inFlight[current] THEN "drain" ELSE "launch")
        /\ UNCHANGED <<job, cancel>> /\ cancel = {}
    BY <1>3 DEF Top, CalledOff, contractVars
  <2>2. PipeType'
    BY <1>1, <2>1 DEF PipeInv, PipeType
  <2>3. Shape' /\ Covered'
    BY <1>1, <2>1 DEF PipeInv, Shape, Covered, Working, InFlightOK, Loaded, Covers, Good
  <2>4. Turn'
    BY <1>1, <2>1 DEF Turn
  <2>5. LateIsLast'
    BY <1>1, <2>1 DEF PipeInv, LateIsLast
  <2> QED BY <2>2, <2>3, <2>4, <2>5 DEF PipeInv
<1> QED BY <1>2, <1>3

\* A drained pipe holds a find of this call, or no solution it was to report.
LEMMA DrainStep ==
  ASSUME ContractType, PipeInv, Drain
  PROVE  PipeInv'
<1>1. /\ pc = "drain" /\ stream[current] = <<>>
      /\ inFlight' = [inFlight EXCEPT ![current] = FALSE]
      /\ UNCHANGED <<kind, next, current, stream, buffer, late>>
  BY DEF Drain
<1>2. inFlight[current] /\ current \in Pipe /\ inFlight' \in [Pipe -> BOOLEAN]
  BY <1>1 DEF PipeInv, Turn, PipeType
<1>3. InFlightOK(current) /\ Len(stream[current]) = 0
  BY <1>1, <1>2 DEF PipeInv, Shape, Working
<1>4. CASE buffer[current].flag /\ kind = "cuda"
  <2>1. Leave(Find(buffer[current].nonce))
    BY <1>4 DEF Drain
  <2> QED BY <1>1, <1>2, <2>1, ReturnStep
<1>5. CASE buffer[current].flag /\ kind # "cuda"
  <2>1. pc' = "other" /\ UNCHANGED job
    BY <1>5 DEF Drain, contractVars
  <2>2. Good(buffer[current].nonce)
    BY <1>3, <1>5 DEF InFlightOK
  <2>3. late = 0
    BY <1>1 DEF PipeInv, LateIsLast, PipeType
  <2>4. PipeType'
    BY <1>1, <1>2, <2>1 DEF PipeInv, PipeType
  <2> QED BY <1>1, <2>1, <2>2, <2>3, <2>4
          DEF PipeInv, Shape, Covered, Working, Turn, Good, LateIsLast
<1>6. CASE ~buffer[current].flag
  <2>1. pc' = "launch" /\ UNCHANGED <<job, cancel>>
    BY <1>6 DEF Drain, contractVars
  <2>2. late = 0
    BY <1>1 DEF PipeInv, LateIsLast, PipeType
  <2>3. PipeType'
    BY <1>1, <1>2, <2>1 DEF PipeInv, PipeType
  <2>4. ~inFlight'[current] /\ \A q \in Pipe \ {current} : inFlight'[q] = inFlight[q]
    BY <1>1, <1>2 DEF PipeInv, PipeType
  <2>5. Loaded(current, 0)'
    BY <1>1, <1>3, <2>1 DEF InFlightOK, Loaded
  <2>6. Shape'
    <3>1. ASSUME NEW q \in Pipe \ {current}
          PROVE  (IF inFlight[q] THEN InFlightOK(q) ELSE Loaded(q, 0))'
      BY <1>1, <2>1, <2>4 DEF PipeInv, Shape, Working, InFlightOK, Loaded, Good
    <3> QED BY <1>1, <2>4, <2>5, <3>1 DEF Shape
  <2>7. Covered'
    <3>1. ASSUME NEW n \in job.sols, Good(n), n < next
          PROVE  \E q \in Pipe : Covers(q, n)'
      <4>1. n \in Nat /\ next \in Nat
        BY DEF ContractType, JobType, Nonce, PipeInv, PipeType
      <4>2. PICK q \in Pipe : Covers(q, n)
        BY <1>1, <3>1, <4>1 DEF PipeInv, Covered, Working
      <4>3. q # current
        BY <1>3, <1>6, <4>2 DEF Covers
      <4>4. Covers(q, n)'
        BY <1>1, <2>1, <2>4, <4>2, <4>3 DEF Covers
      <4> QED BY <4>4
    <3>2. next \in Nat /\ \A n \in job.sols : n \in Nat
      BY DEF ContractType, JobType, Nonce, PipeInv, PipeType
    <3> QED BY <1>1, <2>1, <3>1, <3>2 DEF Covered, Good
  <2>8. Turn' /\ LateIsLast'
    BY <1>1, <2>1, <2>2, <2>4 DEF Turn, LateIsLast
  <2> QED BY <2>3, <2>6, <2>7, <2>8 DEF PipeInv
<1> QED BY <1>4, <1>5, <1>6

\* A launch tries the nonces from its start on.
LEMMA LaunchSweeps ==
  ASSUME NEW start \in Nat, NEW limit \in 0 .. Width - 1,
         NEW n \in Nat, start <= n, n < start + Launch, n < limit
  PROVE  n \in Swept(start, limit)
<1> USE ContractAssumption, PipesAssumption
<1>1. n - start \in 0 .. Launch - 1 /\ n = start + (n - start)
  OBVIOUS
<1>2. n % Width = n
  OBVIOUS
<1>3. n = (start + (n - start)) % Width
  BY <1>1, <1>2
<1>4. \E i \in 0 .. Launch - 1 : n = (start + i) % Width
  BY <1>1, <1>3
<1>5. n \in 0 .. limit - 1
  OBVIOUS
<1> QED BY <1>4, <1>5 DEF Swept

\* A launch takes the next nonces of the range into flight.
LEMMA LaunchStep ==
  ASSUME ContractType, PipeInv, LaunchNext
  PROVE  PipeInv'
<1> USE ContractAssumption, PipesAssumption
<1>0. PICK p \in Pipe : p = current
  BY DEF PipeInv, PipeType
<1>1. pc = "launch" /\ UNCHANGED <<kind, buffer>>
  BY DEF LaunchNext
<1>2. /\ p \in Pipe /\ ~inFlight[p] /\ late = 0 /\ next \in Nat
      /\ inFlight \in [Pipe -> BOOLEAN] /\ stream \in [Pipe -> Seq(Op)] /\ 1 - p \in Pipe
  BY <1>0, <1>1 DEF PipeInv, PipeType, Turn, LateIsLast, Pipe
<1>3. CASE next < job.limit
  <2> DEFINE sweep == [op |-> "sweep", start |-> next]
             s == stream[p]
             r == stream'[p]
  <2>1. /\ stream' = [stream EXCEPT ![p] = s \o <<Zero, sweep>>]
        /\ inFlight' = [inFlight EXCEPT ![p] = TRUE]
        /\ next' = (IF next + Launch < job.limit THEN next + Launch ELSE job.limit)
        /\ current' = 1 - p /\ pc' = "top" /\ UNCHANGED <<job, cancel>>
        /\ late' = (IF cancel = {} THEN 0 ELSE late + 1)
    BY <1>0, <1>3 DEF LaunchNext, Enqueue, Zero, contractVars
  <2>2. Zero \in Op /\ sweep \in Op /\ sweep.op = "sweep" /\ sweep.start = next
    BY <1>2 DEF Op
  <2>3. s \in Seq(Op) /\ Len(s) \in Nat /\ r = s \o <<Zero, sweep>>
    BY <1>2, <2>1
  <2>4. <<Zero, sweep>> \in Seq(Op) /\ Len(<<Zero, sweep>>) = 2
        /\ <<Zero, sweep>>[1] = Zero /\ <<Zero, sweep>>[2] = sweep
    BY <2>2
  <2> HIDE DEF sweep
  <2>5. /\ r \in Seq(Op) /\ Len(r) = Len(s) + 2
        /\ r[Len(s) + 1] = Zero /\ r[Len(s) + 2] = sweep
        /\ Len(s) > 0 => r[Len(s)] = s[Len(s)]
    BY <2>3, <2>4, ConcatProperties
  <2>6. stream' \in [Pipe -> Seq(Op)]
    BY <1>2, <2>1, <2>3, <2>5
  <2>7. next' \in Nat /\ next' <= next + Launch
    BY <1>2, <1>3, <2>1 DEF ContractType, JobType
  <2>8. PipeType'
    BY <1>1, <1>2, <2>1, <2>6, <2>7 DEF PipeInv, PipeType
  <2>9. /\ inFlight'[p]
        /\ \A q \in Pipe \ {p} : inFlight'[q] = inFlight[q] /\ stream'[q] = stream[q]
    BY <1>2, <2>1
  <2> HIDE DEF r, s
  <2>10. Loaded(p, 2)'
    <3>1. /\ Len(s) > 0 => s[Len(s)] = PrimeOp(job)
          /\ Len(s) <= 0 => buffer[p].job = job
      <4>1. Loaded(p, 0)
        BY <1>1, <1>2 DEF PipeInv, Shape, Working
      <4> QED BY <2>3, <4>1 DEF Loaded, s
    <3>2. Len(r) > 2 => r[Len(r) - 2] = PrimeOp(job)
      BY <2>3, <2>5, <3>1
    <3>3. Len(r) <= 2 => buffer[p].job = job
      BY <2>3, <2>5, <3>1
    <3>4. (buffer[p].job)' = buffer[p].job /\ job' = job
      BY <1>1, <2>1
    <3> QED BY <2>3, <2>5, <3>2, <3>3, <3>4 DEF Loaded, r
  <2>11. InFlightOK(p)'
    BY <2>2, <2>3, <2>5, <2>10 DEF InFlightOK, r
  <2>12. Shape'
    <3>1. ASSUME NEW q \in Pipe \ {p}
          PROVE  (IF inFlight[q] THEN InFlightOK(q) ELSE Loaded(q, 0))'
      BY <1>1, <2>1, <2>9 DEF PipeInv, Shape, Working, InFlightOK, Loaded, Good
    <3> QED BY <2>9, <2>11, <3>1 DEF Shape
  <2>13. ASSUME NEW n \in job.sols, Good(n), n < next'
         PROVE  \E q \in Pipe : Covers(q, n)'
    <3>1. n \in Nat /\ n < job.limit /\ job.limit \in 0 .. Width - 1
      BY <2>13 DEF Good, ContractType, JobType, Nonce
    <3>2. CASE n < next
      <4>1. PICK q \in Pipe : Covers(q, n)
        BY <1>1, <1>2, <2>13, <3>1, <3>2 DEF PipeInv, Covered, Working
      <4>2. q # p
        BY <1>2, <4>1 DEF Covers
      <4>3. Covers(q, n)'
        BY <1>1, <2>1, <2>9, <4>1, <4>2 DEF Covers
      <4> QED BY <4>3
    <3>3. CASE next <= n
      <4>1. n \in Swept(next, job.limit)
        BY <1>2, <2>7, <2>13, <3>1, <3>3, LaunchSweeps
      <4>2. Len(r) >= 1 /\ Len(r) # 0 /\ r[Len(r)].start = next
        BY <2>2, <2>3, <2>5
      <4>3. Covers(p, n)'
        BY <2>1, <2>9, <4>1, <4>2 DEF Covers, r
      <4> QED BY <1>2, <4>3
    <3> QED BY <1>2, <3>1, <3>2, <3>3
  <2>14. Covered'
    <3>1. \A n \in job.sols : n \in Nat
      BY DEF ContractType, JobType, Nonce
    <3> QED BY <2>1, <2>7, <2>13, <3>1 DEF Covered, Good
  <2>15. Turn' /\ LateIsLast'
    BY <1>2, <2>1 DEF Turn, LateIsLast
  <2> QED BY <2>8, <2>12, <2>14, <2>15 DEF PipeInv
<1>4. CASE ~(next < job.limit)
  <2>1. /\ UNCHANGED <<inFlight, stream, next, late>> /\ current' = 1 - p
        /\ IF BothIdle THEN Leave(None) ELSE pc' = "top" /\ UNCHANGED contractVars
    BY <1>0, <1>4 DEF LaunchNext
  <2>2. CASE BothIdle
    <3>1. PipeType' /\ pc' = "idle"
      BY <1>1, <1>2, <2>1, <2>2 DEF PipeInv, PipeType, Leave
    <3> QED BY <2>1, <3>1, LeaveStep
  <2>3. CASE ~BothIdle
    <3>1. pc' = "top" /\ UNCHANGED <<job, cancel>>
      BY <2>1, <2>3 DEF contractVars
    <3>2. PipeType'
      BY <1>1, <1>2, <2>1, <3>1 DEF PipeInv, PipeType
    <3>3. Shape' /\ Covered'
      BY <1>1, <2>1, <3>1 DEF PipeInv, Shape, Covered, Working, InFlightOK, Loaded, Covers, Good
    <3> QED BY <1>2, <2>1, <3>1, <3>2, <3>3 DEF PipeInv, Turn, LateIsLast
  <2> QED BY <2>2, <2>3
<1> QED BY <1>3, <1>4

\* What the surroundings do to a call: flags, faults, rebuilds.
LEMMA OutsideStep ==
  ASSUME PipeInv, PipesFlag \/ Break \/ Recover
  PROVE  PipeInv'
<1>1. CASE PipesFlag
  <2>1. cancel' # {} /\ UNCHANGED <<job, pipeVars>>
    BY <1>1, FlagRises DEF PipesFlag
  <2> QED BY <2>1 DEF PipeInv, PipeType, Shape, Covered, Working, InFlightOK, Loaded, Covers,
                      Good, Turn, LateIsLast, pipeVars, hostVars
<1>2. CASE Break
  <2>1. UNCHANGED <<job, cancel, pipeVars>>
    BY <1>2 DEF Break
  <2> QED BY <2>1 DEF PipeInv, PipeType, Shape, Covered, Working, InFlightOK, Loaded, Covers,
                      Good, Turn, LateIsLast, pipeVars, hostVars
<1>3. CASE Recover
  <2>1. PipeType'
    BY <1>3, BlankType DEF Recover, PipeInv, PipeType
  <2> QED BY <1>3, <2>1, LeaveStep DEF Recover
<1> QED BY <1>1, <1>2, <1>3

\* Every step of the pipelines keeps their invariant.
LEMMA PipeStep ==
  ASSUME ContractType, PipeInv, PipesNext
  PROVE  PipeInv'
<1>1. CASE Empty \/ Fails \/ DrainOther
  <2>1. \E r : Leave(r)
    BY <1>1 DEF Empty, Fails, DrainOther
  <2>2. UNCHANGED <<kind, next, current, inFlight, stream, buffer, late>>
    BY <1>1 DEF Empty, Fails, DrainOther
  <2>3. inFlight' \in [Pipe -> BOOLEAN]
    BY <2>2 DEF PipeInv, PipeType
  <2> QED BY <2>1, <2>2, <2>3, ReturnStep
<1> QED BY <1>1, EnterStep, PrimeStep, TopStep, DrainStep, LaunchStep, RunStep, OutsideStep
        DEF PipesNext, Host

-----------------------------------------------------------------------------
\* Every step keeps the invariant: the backend that is not in use stands still.
LEMMA Step == IInv /\ [Next]_vars => IInv'
<1> SUFFICES ASSUME IInv, [Next]_vars PROVE IInv'
  OBVIOUS
<1>1. ContractType'
  BY ContractStep DEF IInv
<1>2. CASE cpu /\ PoolNext /\ UNCHANGED <<pipeVars, cpu>>
  BY <1>1, <1>2, PoolStep DEF IInv, pipeVars, hostVars
<1>3. CASE ~cpu /\ PipesNext /\ UNCHANGED <<poolVars, cpu>>
  BY <1>1, <1>3, PipeStep DEF IInv
<1>4. CASE UNCHANGED vars
  <2>1. PoolInv => PoolInv'
    BY <1>4 DEF vars, contractVars, poolVars, PoolInv, PoolType, ChunkInRange, OutForReason,
                KeptIsGood, Tried, Good
  <2>2. PipeInv => PipeInv'
    BY <1>4 DEF vars, contractVars, pipeVars, hostVars, PipeInv, PipeType, Shape, Covered,
                Working, InFlightOK, Loaded, Covers, Good, Turn, LateIsLast
  <2> QED BY <1>1, <1>4, <2>1, <2>2 DEF IInv, vars, pipeVars, hostVars
<1> QED BY <1>2, <1>3, <1>4 DEF Next, Idle

\* The invariant holds for ever.
LEMMA Invariance == Spec => []IInv
BY InitHolds, Step, PTL DEF Spec

\* However the flag and the host interleave, one launch at most is made after a
\* flag went up (backend.rs: "returns promptly").
THEOREM PromptCancelHolds == Spec => []PromptCancel
<1>1. IInv => PromptCancel
  BY DEF IInv, PipeInv, LateIsLast, PromptCancel
<1> QED BY <1>1, Invariance, PTL

-----------------------------------------------------------------------------
(* Every step of a backend is a step of the contract, or none of it.       *)

\* An answer the contract allows.
LEMMA AnswerIsVerified ==
  ASSUME ContractType, NEW r, Return(r), UNCHANGED <<calls, job, cancel, sick>>,
         \/ r = None /\ (cancel # {} \/ ~\E n \in job.sols : Good(n))
         \/ r = Fault /\ sick
         \/ \E n : Good(n) /\ r = Find(n)
  PROVE  Contract!Answer
<1>1. job.sols \subseteq Nonce /\ job.limit \in 0 .. Width - 1
  BY DEF ContractType, JobType
<1>2. Contract!Return(r)
  BY DEF Return, Contract!Return
<1>3. CASE r = None /\ (cancel # {} \/ ~\E n \in job.sols : Good(n))
  <2>1. cancel # {} \/ \A n \in job.sols : n >= job.limit
    BY ContractAssumption, <1>1, <1>3 DEF Good, Nonce
  <2>2. Contract!Verified(r) /\ r = Contract!None
    BY <1>3, <2>1 DEF Contract!Verified, Contract!None, None, Contract!NoNonce, NoNonce
  <2> QED BY <1>2, <2>2 DEF Contract!Answer
<1>4. CASE r = Fault /\ sick
  <2>1. Contract!Verified(r) /\ r = Contract!Fault
    BY <1>4 DEF Contract!Verified, Contract!Fault, Fault, Contract!NoNonce, NoNonce
  <2> QED BY <1>2, <2>1 DEF Contract!Answer
<1>5. CASE \E n : Good(n) /\ r = Find(n)
  <2>1. PICK n : Good(n) /\ r = Find(n)
    BY <1>5
  <2>2. n \in Contract!Nonce /\ r = Contract!Find(n)
    BY <1>1, <2>1 DEF Good, Nonce, Contract!Nonce, Find, Contract!Find
  <2>3. r.kind = "found" /\ r.nonce = n
    BY <2>1 DEF Find
  <2>4. Contract!Verified(r)
    BY <2>1, <2>3 DEF Contract!Verified, Good
  <2> QED BY <1>2, <2>2, <2>4 DEF Contract!Answer
<1> QED BY <1>3, <1>4, <1>5

\* What the contract allows to happen in a step.
ContractNext ==
  [Contract!Call \/ Contract!Flag \/ Contract!Answer \/ Contract!Device]_contractVars

\* A call and a flag are those of the contract.
LEMMA CallIsCall ==
  ASSUME NEW j \in Job, StartCall(j), sick' = sick
  PROVE  ContractNext
BY DEF ContractNext, Contract!Call, StartCall, Contract!StartCall, Job, Contract!Job, Open,
       Contract!Open, NoNonce, Contract!NoNonce

LEMMA FlagIsFlag == Flag => ContractNext
BY DEF ContractNext, Flag, Contract!Flag, RaiseFlag, Contract!RaiseFlag

\* The pool answers when its threads have ended, each for a reason: a find, a
\* flag, or the end of the range.
LEMMA PoolImplements ==
  ASSUME ContractType, PoolInv, PoolNext
  PROVE  ContractNext
<1>1. CASE PoolEnter
  BY <1>1, CallIsCall DEF PoolEnter
<1>2. CASE PoolFlag
  BY <1>2, FlagIsFlag DEF PoolFlag
<1>3. ASSUME NEW t \in Threads, Check(t) \/ Take(t) \/ Try(t) PROVE ContractNext
  BY <1>3 DEF Check, Take, Try, ContractNext
<1>4. CASE PoolLeave
  <2>1. busy /\ \A t \in Threads : thread[t] = "out"
    BY <1>4 DEF PoolLeave
  <2>2. CASE kept # NoNonce
    <3>1. Return(Find(kept)) /\ Good(kept)
      BY <1>4, <2>1, <2>2 DEF PoolLeave, PoolInv, KeptIsGood
    <3> QED BY <1>4, <3>1, AnswerIsVerified DEF PoolLeave, ContractNext
  <2>3. CASE kept = NoNonce
    <3>1. Return(None)
      BY <1>4, <2>3 DEF PoolLeave
    <3>2. ASSUME cancel = {}, NEW n \in job.sols, Good(n) PROVE FALSE
      <4>1. PICK t \in Threads : TRUE
        BY PoolAssumption
      <4>2. ~localStop
        BY <2>3 DEF PoolInv, KeptIsGood
      <4>3. counter >= job.limit
        BY <2>1, <3>2, <4>1, <4>2 DEF PoolInv, OutForReason
      <4>4. n >= counter
        BY <2>1, <2>3, <3>2 DEF PoolInv, Tried
      <4>5. n \in Nat /\ counter \in Nat /\ job.limit \in Nat /\ n < job.limit
        BY <3>2, ContractAssumption
        DEF Good, ContractType, JobType, Nonce, PoolInv, PoolType
      <4> QED BY <4>3, <4>4, <4>5
    <3> QED BY <1>4, <3>1, <3>2, AnswerIsVerified DEF PoolLeave, ContractNext
  <2> QED BY <2>2, <2>3
<1> QED BY <1>1, <1>2, <1>3, <1>4 DEF PoolNext, PoolWork

\* The host of a pipeline answers with a find it has drained, or when nothing is
\* left to launch or to drain.
LEMMA PipesImplement ==
  ASSUME ContractType, PipeInv, PipesNext
  PROVE  ContractNext
<1>0. ASSUME NEW r, Leave(r),
             \/ r = None /\ (cancel # {} \/ ~\E n \in job.sols : Good(n))
             \/ r = Fault /\ sick
             \/ \E n : Good(n) /\ r = Find(n)
      PROVE  ContractNext
  BY <1>0, AnswerIsVerified DEF Leave, ContractNext
<1>1. CASE Enter
  BY <1>1, CallIsCall DEF Enter
<1>2. CASE PipesFlag
  BY <1>2, FlagIsFlag DEF PipesFlag
<1>3. CASE Empty
  <2>1. Leave(None) /\ job.limit = 0
    BY <1>3 DEF Empty, PipeInv, Turn
  <2>2. ~\E n \in job.sols : Good(n)
    BY <2>1, ContractAssumption DEF Good, ContractType, JobType, Nonce
  <2> QED BY <1>0, <2>1, <2>2
<1>4. CASE Fails
  BY <1>0, <1>4 DEF Fails
<1>5. CASE Prime \/ \E p \in Pipe : Run(p)
  BY <1>5 DEF Prime, Run, ContractNext
<1>6. CASE Top
  BY <1>0, <1>6 DEF Top, CalledOff, ContractNext
<1>7. CASE Drain
  <2>1. CASE buffer[current].flag /\ kind = "cuda"
    <3>1. Leave(Find(buffer[current].nonce))
      BY <1>7, <2>1 DEF Drain
    <3>2. inFlight[current] /\ current \in Pipe /\ Len(stream[current]) = 0
      BY <1>7 DEF Drain, PipeInv, Turn, PipeType
    <3>3. Good(buffer[current].nonce)
      BY <1>7, <2>1, <3>2 DEF Drain, PipeInv, Shape, Working, InFlightOK
    <3> QED BY <1>0, <3>1, <3>3
  <2>2. CASE ~(buffer[current].flag /\ kind = "cuda")
    BY <1>7, <2>2 DEF Drain, ContractNext
  <2> QED BY <2>1, <2>2
<1>8. CASE DrainOther
  <2>1. Leave(Find(buffer[current].nonce)) /\ Good(buffer[current].nonce)
    BY <1>8 DEF DrainOther, PipeInv, Turn
  <2> QED BY <1>0, <2>1
<1>9. CASE LaunchNext
  <2>1. CASE ~(next < job.limit) /\ BothIdle
    <3>1. Leave(None)
      BY <1>9, <2>1 DEF LaunchNext
    <3>2. ~\E n \in job.sols : Good(n)
      <4>1. ASSUME NEW n \in job.sols, Good(n) PROVE FALSE
        <5>1. n >= next \/ \E p \in Pipe : Covers(p, n)
          BY <1>9, <4>1 DEF LaunchNext, PipeInv, Covered, Working
        <5>2. ~\E p \in Pipe : Covers(p, n)
          BY <2>1 DEF BothIdle, Covers, Pipe
        <5>3. n \in Nat /\ next \in Nat /\ job.limit \in Nat /\ n < job.limit
          BY <4>1, ContractAssumption
          DEF Good, ContractType, JobType, Nonce, PipeInv, PipeType
        <5> QED BY <2>1, <5>1, <5>2, <5>3
      <4> QED BY <4>1
    <3> QED BY <1>0, <3>1, <3>2
  <2>2. CASE ~(~(next < job.limit) /\ BothIdle)
    BY <1>9, <2>2 DEF LaunchNext, ContractNext
  <2> QED BY <2>1, <2>2
<1>10. CASE Break \/ Recover
  <2>1. sick' # sick => sick' = ~sick
    BY <1>10 DEF Break, Recover, ContractType
  <2>2. UNCHANGED <<calls, busy, job, cancel, result>>
    BY <1>10 DEF Break, Recover
  <2>3. sick' # sick => Contract!Device
    BY <2>1, <2>2 DEF Contract!Device
  <2>4. sick' = sick => UNCHANGED contractVars
    BY <2>2 DEF contractVars
  <2> QED BY <2>3, <2>4 DEF ContractNext
<1> QED BY <1>1, <1>2, <1>3, <1>4, <1>5, <1>6, <1>7, <1>8, <1>9, <1>10 DEF PipesNext, Host

\* Every step of either backend is one the contract allows.
LEMMA StepImplements == IInv /\ [Next]_vars => ContractNext
<1> SUFFICES ASSUME IInv, [Next]_vars PROVE ContractNext
  OBVIOUS
<1>1. CASE cpu /\ PoolNext
  BY <1>1, PoolImplements DEF IInv
<1>2. CASE ~cpu /\ PipesNext
  BY <1>2, PipesImplement DEF IInv
<1>3. CASE UNCHANGED vars
  BY <1>3 DEF vars, ContractNext
<1> QED BY <1>1, <1>2, <1>3 DEF Next, Idle

\* The backends implement the contract of hash_range: a find is a solution of the
\* call that returns it, none means that there is none or that the call was called
\* off, an error that the device has faulted.
THEOREM ContractKept == Spec => KeepsContract
<1>1. Init => Contract!NoCall
  BY DEF Init, NoCall, Contract!NoCall, None, Contract!None, NoNonce, Contract!NoNonce
<1>2. IInv /\ [Next]_vars
        => [Contract!Call \/ Contract!Flag \/ Contract!Answer
              \/ Contract!Device]_(Contract!contractVars)
  BY StepImplements DEF ContractNext, contractVars, Contract!contractVars
<1> QED BY <1>1, <1>2, Invariance, PTL DEF Spec, KeepsContract, Contract!ContractSpec
=============================================================================
