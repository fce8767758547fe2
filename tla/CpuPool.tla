------------------------------- MODULE CpuPool -------------------------------
(***************************************************************************)
(* hash_range of src/src/backends/cpu.rs: threads take chunks off one      *)
(* shared counter until a find, a cancel flag or the end of the range.     *)
(***************************************************************************)
EXTENDS BackendContract

CONSTANTS
  Threads,   \* CpuBackend.threads
  Chunk      \* CHUNK: nonces taken at a time

\* CpuBackend::new raises a count of zero to one.
ASSUME PoolAssumption == Threads # {} /\ Chunk \in Nat \ {0}

VARIABLES
  counter,     \* next_nonce, an AtomicU64
  kept,        \* found: the first find, or NoNonce
  localStop,   \* local_stop
  thread,      \* per thread: "out", "check", "take" or "hash"
  chunk        \* per thread: the nonces it still has to try, [at, end)

poolVars == <<counter, kept, localStop, thread, chunk>>

NoChunk == [at |-> 0, end |-> 0]
ChunkOf(start) ==
  [at |-> start, end |-> IF start + Chunk < job.limit THEN start + Chunk ELSE job.limit]

PoolInit ==
  /\ counter = 0 /\ kept = NoNonce /\ localStop = FALSE
  /\ thread = [t \in Threads |-> "out"]
  /\ chunk = [t \in Threads |-> NoChunk]

\* The call spawns its threads; an empty range spawns none.
PoolEnter ==
  /\ \A t \in Threads : thread[t] = "out"
  /\ \E j \in Job :
       /\ StartCall(j)
       /\ thread' = [t \in Threads |-> IF j.limit = 0 THEN "out" ELSE "check"]
  /\ counter' = 0 /\ kept' = NoNonce /\ localStop' = FALSE
  /\ UNCHANGED <<sick, chunk>>

\* Between chunks: the two flags and the find of another thread.
Check(t) ==
  /\ thread[t] = "check"
  /\ thread' = [thread EXCEPT ![t] =
                  IF localStop \/ cancel # {} THEN "out" ELSE "take"]
  /\ UNCHANGED <<contractVars, counter, kept, localStop, chunk>>

\* Mutant: the counter is as wide as a nonce.
AdvancedNarrow == (counter + Chunk) % Width

\* fetch_add on a counter wider than a nonce.
Advanced == counter + Chunk

Take(t) ==
  /\ thread[t] = "take"
  /\ counter' = Advanced
  /\ IF counter >= job.limit
       THEN thread' = [thread EXCEPT ![t] = "out"] /\ UNCHANGED chunk
       ELSE /\ thread' = [thread EXCEPT ![t] = "hash"]
            /\ chunk' = [chunk EXCEPT ![t] = ChunkOf(counter)]
  /\ UNCHANGED <<contractVars, kept, localStop>>

\* The first find is kept.
KeepFirst(n) == IF kept = NoNonce THEN n ELSE kept

\* One nonce of the chunk.
Try(t) ==
  /\ thread[t] = "hash"
  /\ LET c == chunk[t]
         last == c.at + 1 = c.end
     IN  IF c.at \in job.sols
           THEN /\ kept' = KeepFirst(c.at) /\ localStop' = TRUE
                /\ thread' = [thread EXCEPT ![t] = "out"]
                /\ chunk' = [chunk EXCEPT ![t] = NoChunk]
           ELSE /\ thread' = [thread EXCEPT ![t] = IF last THEN "check" ELSE "hash"]
                /\ chunk' = [chunk EXCEPT ![t] =
                                IF last THEN NoChunk ELSE [@ EXCEPT !.at = c.at + 1]]
                /\ UNCHANGED <<kept, localStop>>
  /\ UNCHANGED <<contractVars, counter>>

\* The scope joins its threads.
PoolLeave ==
  /\ busy /\ \A t \in Threads : thread[t] = "out"
  /\ Return(IF kept = NoNonce THEN None ELSE Find(kept))
  /\ UNCHANGED <<calls, job, cancel, sick, poolVars>>

PoolFlag == Flag /\ UNCHANGED poolVars

PoolWork == (\E t \in Threads : Check(t) \/ Take(t) \/ Try(t)) \/ PoolLeave
PoolNext == PoolEnter \/ PoolWork \/ PoolFlag
=============================================================================
