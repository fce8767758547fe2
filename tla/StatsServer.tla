----------------------------- MODULE StatsServer ------------------------------
(***************************************************************************)
(* The statistics endpoint (stats.rs, stats_server.rs): rolling windows of *)
(* the hash rate over the wall clock, and the single thread that serves    *)
(* one connection after the other until the stop flag is set.              *)
(*                                                                         *)
(* A request arrives in pieces: the method, the target, the headers, the   *)
(* blank line; a client that drips sends pieces and never the blank line.  *)
(***************************************************************************)
EXTENDS Naturals, Sequences, SequencesExt

CONSTANTS
  Clients, Requests,   \* what each client asks: [Clients -> request]
  Password,            \* whether one is configured
  MaxRequest,          \* MAX_REQUEST_BYTES, in pieces
  Horizon, Spans,      \* the window sizes, Horizon the longest
  LastTick, MaxSamples \* bounds: of the wall clock, and of the samples kept in all

\* The clock counts in whole ticks; no window is longer than the horizon.
ASSUME StatsAssumption ==
  /\ Horizon \in Nat /\ LastTick \in Nat
  /\ \A i \in DOMAIN Spans : Spans[i] \in 0 .. Horizon

VARIABLES
  stop,
  server,              \* "off", "idle", or the client being served
  backlog,             \* accepted by the kernel, not yet by the thread
  got,                 \* pieces read of the current request
  answer,              \* what each client has got: "none", "lost" or a status
  now,
  samples,             \* the pruned buffer
  all                  \* history: every sample of this process

statsVars == <<server, backlog, got, answer, now, samples, all>>

-----------------------------------------------------------------------------
\* HashrateWindows
Back(t, span) == IF t > span THEN t - span ELSE 0       \* saturating_sub
\* The samples of s no older than the cutoff, in their order.
Since(s, cutoff) ==
  LET kept[i \in 0 .. Len(s)] ==
        IF i = 0 THEN <<>>
        ELSE IF s[i].at >= cutoff THEN Append(kept[i - 1], s[i]) ELSE kept[i - 1]
  IN  kept[Len(s)]
PruneShort == Spans[Len(Spans) - 1]   \* mutant: the middle window is the horizon
PruneAt == Horizon
Recorded(s, x) == Since(Append(s, x), Back(x.at, PruneAt))
Total(s) == FoldLeft(LAMBDA sum, x : sum + x.ghs, 0, s)
\* The sum and the number of the samples, whose quotient a window shows.
Window(s, t, span) ==
  LET w == Since(s, Back(t, span))
  IN  <<Total(w), Len(w)>>

Sample ==
  /\ server # "off" /\ Len(all) < MaxSamples
  /\ LET x == [at |-> now, ghs |-> Len(all) + 1]
     IN  samples' = Recorded(samples, x) /\ all' = Append(all, x)
  /\ UNCHANGED <<server, backlog, got, answer, now>>

\* The wall clock: it may be set back, or ahead.
Clock ==
  /\ now' \in (0 .. LastTick) \ {now}
  /\ UNCHANGED <<server, backlog, got, answer, samples, all>>

-----------------------------------------------------------------------------
Off(lost) ==
  /\ server' = "off" /\ backlog' = <<>> /\ got' = 0
  /\ answer' = [c \in Clients |-> IF c \in lost THEN "lost" ELSE answer[c]]
  /\ samples' = <<>> /\ all' = <<>>
Waiting(c) == server = c \/ \E i \in DOMAIN backlog : backlog[i] = c

\* spawn: the listener is bound; a new handle with empty windows.
Bind ==
  /\ server' = "idle" /\ samples' = <<>> /\ all' = <<>>
  /\ UNCHANGED <<backlog, got, answer, now>>
\* The process ends: its thread is detached and goes with it.
Unbind == Off({c \in Clients : Waiting(c)}) /\ UNCHANGED now

Connect(c) ==
  /\ server # "off" /\ ~Waiting(c)
  /\ backlog' = Append(backlog, c)
  /\ answer' = [answer EXCEPT ![c] = "none"]
  /\ UNCHANGED <<server, got, now, samples, all>>

\* serve_loop: the flag is looked at between connections only.
Accept ==
  /\ server = "idle" /\ ~stop /\ backlog # <<>>
  /\ server' = Head(backlog) /\ backlog' = Tail(backlog) /\ got' = 0
  /\ UNCHANGED <<answer, now, samples, all>>

\* The token counts in the query of the target, or in a header that arrived.
Authorized(r, n) ==
  \/ ~Password
  \/ r.token = "query"
  \/ r.token = "header" /\ n >= 3
\* The answer to the first n pieces of a request.
Routed(r, n) ==
  CASE n < 2 \/ r.method # "GET" -> "bad request"
    [] r.target = "summary"      -> IF Authorized(r, n) THEN "ok" ELSE "unauthorized"
    [] r.target = "health"       -> "ok"
    [] OTHER                     -> "not found"

Reply(c, code) ==
  /\ server' = "idle" /\ got' = 0
  /\ answer' = [answer EXCEPT ![c] = code]
\* One read: a piece, or the end of the stream or of the two seconds.
NeverFull(n) == FALSE                 \* mutant: the head has no cap
Full(n) == n >= MaxRequest
Piece(c) ==
  LET r == Requests[c]
      n == (got % MaxRequest) + 1
  IN  IF r.terminates /\ n = 4 THEN Reply(c, Routed(r, n))
      ELSE IF Full(n) THEN Reply(c, "bad request")
      ELSE got' = n /\ UNCHANGED <<server, answer>>
Ends(c) == Reply(c, IF got = 0 THEN "bad request" ELSE Routed(Requests[c], got))
Read(c) ==
  /\ server = c
  /\ Piece(c) \/ Ends(c)
  /\ UNCHANGED <<backlog, now, samples, all>>

StatsInit ==
  /\ server = "off" /\ backlog = <<>> /\ got = 0 /\ now = 0
  /\ answer = [c \in Clients |-> "none"]
  /\ samples = <<>> /\ all = <<>>

Thread == Accept \/ \E c \in Clients : Read(c)
StatsNext == Thread \/ Sample \/ Clock \/ \E c \in Clients : Connect(c)

-----------------------------------------------------------------------------
\* The samples that no later one is more than the longest window ahead of.
Lasting == {i \in DOMAIN all : \A j \in DOMAIN all : j > i => all[j].at <= all[i].at + Horizon}

(* However the wall clock is moved, each window is over exactly those samples in
   it that last: pruning takes no other, and keeps none that a clock set ahead, and
   then back, has overtaken.  As long as the clock is not behind a sample it stamped,
   that is every sample: the window shows the mean over all of them. *)
WindowsComplete ==
  \A k \in DOMAIN Spans :
    LET from == Back(now, Spans[k])
    IN  /\ ToSet(Since(samples, from)) = {all[i] : i \in {l \in Lasting : all[l].at >= from}}
        /\ (\A i \in DOMAIN all : all[i].at <= now) =>
             Window(samples, now, Spans[k]) = Window(all, now, Spans[k])
=============================================================================
