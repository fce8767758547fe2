---------------------------- MODULE SweepRaceProofs ----------------------------
(***************************************************************************)
(* Proofs about one launch: the partition of the nonce range has neither   *)
(* gap nor overlap, each sweeper stays in its part, and no find is lost,   *)
(* for every span, share, number of threads, block and slice.              *)
(***************************************************************************)
EXTENDS SweepRace, FiniteSetTheorems, WellFoundedInduction, TLAPS

-----------------------------------------------------------------------------
\* What the CPU pool is given is a part of the span.
LEMMA CpuPart ==
  ASSUME NEW span \in Nat \ {0}, NEW share \in 0 .. 10
  PROVE  CpuTotal(span, share) \in 0 .. span
<1>1. CASE share = 10 BY <1>1 DEF CpuTotal
<1>2. CASE share # 10
  <2> DEFINE rounded == (2 * span * share + 10) \div 20
  <2>1. 2 * span * share + 10 \in Nat
    <3>1. span * share \in Nat OBVIOUS
    <3>2. 2 * span * share = 2 * (span * share) OBVIOUS
    <3> QED BY <3>1, <3>2
  <2>2. rounded \in Nat
    BY <2>1
  <2> HIDE DEF rounded
  <2>3. CpuTotal(span, share) = Most(1, Least(span - 1, rounded))
    BY <1>2 DEF CpuTotal, rounded
  <2> QED BY <2>2, <2>3 DEF Most, Least
<1> QED BY <1>1, <1>2

\* Division with remainder.
LEMMA DivMod ==
  ASSUME NEW c \in Nat, NEW n \in Nat \ {0}
  PROVE  c \div n \in Nat /\ c % n \in 0 .. n - 1 /\ n * (c \div n) + (c % n) = c
<1>1. c \div n \in Nat OBVIOUS
<1>2. c % n \in 0 .. n - 1 OBVIOUS
<1>3. c = n * (c \div n) + (c % n) OBVIOUS
<1> QED BY <1>1, <1>2, <1>3

\* Where the parts of n workers are cut.
Cut(span, cpu, n, w) == span - cpu + w * (cpu \div n) + Least(w, cpu % n)

\* The cuts are in order, the last of them at the end of the span.
LEMMA Cuts ==
  ASSUME NEW span \in Nat, NEW cpu \in 0 .. span, NEW n \in Nat \ {0}
  PROVE  /\ \A w \in 0 .. n : Cut(span, cpu, n, w) \in Nat
         /\ \A a, b \in 0 .. n : a <= b => Cut(span, cpu, n, a) <= Cut(span, cpu, n, b)
         /\ Cut(span, cpu, n, n) = span
<1> DEFINE q == cpu \div n
           r == cpu % n
<1>0. cpu \in Nat
  OBVIOUS
<1>1. q \in Nat /\ r \in 0 .. n - 1 /\ n * q + r = cpu
  BY <1>0, DivMod
<1>2. \A w \in 0 .. n : Cut(span, cpu, n, w) = span - cpu + w * q + Least(w, r)
  BY DEF Cut
<1> HIDE DEF q, r
<1>3. \A w \in 0 .. n : w * q \in Nat /\ Least(w, r) \in Nat
  BY <1>1 DEF Least
<1>4. ASSUME NEW a \in 0 .. n, NEW b \in 0 .. n, a <= b
      PROVE  a * q <= b * q /\ Least(a, r) <= Least(b, r)
  <2>1. b * q = a * q + (b - a) * q
    BY <1>1
  <2>2. b - a \in Nat
    BY <1>4
  <2>3. (b - a) * q \in Nat
    BY <1>1, <2>2
  <2>4. Least(a, r) <= Least(b, r)
    BY <1>1, <1>4 DEF Least
  <2> QED BY <1>3, <2>1, <2>3, <2>4
<1>5. Least(n, r) = r
  BY <1>1 DEF Least
<1>6. \A w \in 0 .. n : Cut(span, cpu, n, w) \in Nat
  BY <1>2, <1>3
<1>7. \A a, b \in 0 .. n : a <= b => Cut(span, cpu, n, a) <= Cut(span, cpu, n, b)
  <2> SUFFICES ASSUME NEW a \in 0 .. n, NEW b \in 0 .. n, a <= b
               PROVE  Cut(span, cpu, n, a) <= Cut(span, cpu, n, b)
    OBVIOUS
  <2>1. a * q <= b * q /\ Least(a, r) <= Least(b, r)
    BY <1>4
  <2> QED BY <1>2, <1>3, <2>1
<1>8. Cut(span, cpu, n, n) = span
  <2>1. Cut(span, cpu, n, n) = span - cpu + n * q + r
    BY <1>2, <1>5
  <2> QED BY <1>1, <1>3, <2>1
<1> QED BY <1>6, <1>7, <1>8

\* A partition into the GPU's part and n others, cut at c.
IsCut(r, n, c) ==
  /\ n \in Nat /\ c \in [0 .. n -> Nat]
  /\ \A a, b \in 0 .. n : a <= b => c[a] <= c[b]
  /\ r = [s \in 0 .. n |-> IF s = GPU THEN [from |-> 0, to |-> c[0]]
                           ELSE [from |-> c[s - 1], to |-> c[s]]]

\* partition_nonce_range cuts the span, with a share and threads or without.
LEMMA PartitionIsCut ==
  ASSUME NEW span \in Nat \ {0}, NEW share \in 0 .. 10, NEW n \in Nat
  PROVE  \E k \in Nat : \E c \in [0 .. k -> Nat] :
           IsCut(PartitionNonceRange(span, share, n), k, c) /\ c[k] = span
<1> DEFINE r == PartitionNonceRange(span, share, n)
<1>1. CASE n = 0 \/ share = 0
  <2> DEFINE c == [w \in 0 .. 0 |-> span]
  <2>1. r = [s \in {GPU} |-> [from |-> 0, to |-> span]]
    BY <1>1 DEF PartitionNonceRange
  <2>2. 0 .. 0 = {GPU}
    BY DEF GPU
  <2>3. r = [s \in 0 .. 0 |-> IF s = GPU THEN [from |-> 0, to |-> c[0]]
                              ELSE [from |-> c[s - 1], to |-> c[s]]]
    BY <2>1, <2>2
  <2>4. IsCut(r, 0, c) /\ c[0] = span /\ c \in [0 .. 0 -> Nat]
    BY <2>3 DEF IsCut
  <2> QED BY <2>4
<1>2. CASE n # 0 /\ share # 0
  <2> DEFINE cpu == CpuTotal(span, share)
             c == [w \in 0 .. n |-> Cut(span, cpu, n, w)]
  <2>1. cpu \in 0 .. span
    BY CpuPart
  <2>2. r = [s \in 0 .. n |-> IF s = GPU THEN [from |-> 0, to |-> Cut(span, cpu, n, 0)]
                              ELSE [from |-> Cut(span, cpu, n, s - 1),
                                    to |-> Cut(span, cpu, n, s)]]
    BY <1>2 DEF PartitionNonceRange, Cut
  <2> HIDE DEF cpu, r
  <2>3. r = [s \in 0 .. n |-> IF s = GPU THEN [from |-> 0, to |-> c[0]]
                              ELSE [from |-> c[s - 1], to |-> c[s]]]
    BY <2>2 DEF GPU
  <2>5. /\ \A w \in 0 .. n : Cut(span, cpu, n, w) \in Nat
        /\ \A a, b \in 0 .. n : a <= b => Cut(span, cpu, n, a) <= Cut(span, cpu, n, b)
        /\ Cut(span, cpu, n, n) = span
    BY <1>2, <2>1, Cuts
  <2>6. c \in [0 .. n -> Nat] /\ c[n] = span
    BY <2>5
  <2>7. \A a, b \in 0 .. n : a <= b => c[a] <= c[b]
    BY <2>5
  <2> HIDE DEF c
  <2>4. IsCut(r, n, c) /\ c[n] = span
    BY <2>3, <2>6, <2>7 DEF IsCut
  <2> QED BY <1>2, <2>4, <2>6 DEF r
<1> QED BY <1>1, <1>2

\* x is in one range of r if it is below the end, and in none above it.
TileAt(r, x, end) ==
  Cardinality({s \in DOMAIN r : x \in r[s].from .. r[s].to - 1}) = IF x < end THEN 1 ELSE 0

\* Every nonce below the last cut is in one part and in no other, and there is
\* none above it.
LEMMA CutsTile ==
  ASSUME NEW r, NEW k \in Nat, NEW c, IsCut(r, k, c), NEW x \in Nat
  PROVE  TileAt(r, x, c[k])
<1> DEFINE Holders == {s \in DOMAIN r : x \in r[s].from .. r[s].to - 1}
<1>1. DOMAIN r = 0 .. k /\ \A s \in 0 .. k : c[s] \in Nat
  BY DEF IsCut
<1>2. \A s \in 0 .. k : s \in Holders <=> x < c[s] /\ (s # 0 => c[s - 1] <= x)
  <2> SUFFICES ASSUME NEW s \in 0 .. k
               PROVE  s \in Holders <=> x < c[s] /\ (s # 0 => c[s - 1] <= x)
    OBVIOUS
  <2>1. CASE s = 0
    <3>1. r[s].from = 0 /\ r[s].to = c[0]
      BY <2>1 DEF IsCut, GPU
    <3> QED BY <1>1, <2>1, <3>1
  <2>2. CASE s # 0
    <3>1. r[s].from = c[s - 1] /\ r[s].to = c[s] /\ s - 1 \in 0 .. k
      BY <2>2 DEF IsCut, GPU
    <3> QED BY <1>1, <2>2, <3>1
  <2> QED BY <2>1, <2>2
<1>3. CASE x < c[k]
  <2> DEFINE T == {s \in Nat : s <= k /\ x < c[s]}
  <2>1. k \in T
    BY <1>3
  <2>2. PICK m \in T : \A s \in T : <<s, m>> \notin OpToRel(<, Nat)
    BY <2>1, WFMin, NatLessThanWellFounded, Zenon
  <2>3. \A s \in T : ~(s < m)
    BY <2>2, Zenon DEF OpToRel
  <2>4. m \in 0 .. k /\ x < c[m] /\ (m # 0 => c[m - 1] <= x)
    <3>1. m \in 0 .. k /\ x < c[m]
      OBVIOUS
    <3>2. ASSUME m # 0, x < c[m - 1] PROVE FALSE
      <4>1. m - 1 \in T
        BY <3>1, <3>2
      <4> QED BY <2>3, <3>1, <4>1
    <3>3. m # 0 => c[m - 1] \in Nat
      BY <1>1, <3>1
    <3> QED BY <3>1, <3>2, <3>3
  <2>5. m \in Holders
    BY <1>2, <2>4
  <2>6. ASSUME NEW s \in Holders PROVE s = m
    <3>1. s \in 0 .. k /\ x < c[s] /\ (s # 0 => c[s - 1] <= x)
      BY <1>1, <1>2
    <3>2. ~(s < m)
      BY <2>3, <3>1
    <3>3. ASSUME m < s PROVE FALSE
      <4>1. m <= s - 1 /\ s - 1 \in 0 .. k
        BY <2>4, <3>1, <3>3
      <4>2. c[m] <= c[s - 1]
        BY <2>4, <4>1 DEF IsCut
      <4> QED BY <1>1, <2>4, <3>1, <3>3, <4>1, <4>2
    <3> QED BY <2>4, <3>1, <3>2, <3>3
  <2>7. Holders = {m}
    BY <2>5, <2>6
  <2> QED BY <1>3, <2>7, FS_Singleton DEF TileAt
<1>4. CASE ~(x < c[k])
  <2>1. \A s \in 0 .. k : c[s] <= c[k]
    BY DEF IsCut
  <2>2. Holders = {}
    BY <1>1, <1>2, <1>4, <2>1
  <2> QED BY <1>4, <2>2, FS_EmptySet DEF TileAt
<1> QED BY <1>3, <1>4

-----------------------------------------------------------------------------
\* The ranges of a launch tile one of the spans.
Tiled ==
  \E span \in Spans, k \in Nat : \E c \in [0 .. k -> Nat] : IsCut(range, k, c) /\ c[k] = span

\* A range may be empty and never runs backwards.
Forward ==
  /\ range \in [DOMAIN range -> [from : Nat, to : Nat]] /\ GPU \in DOMAIN range
  /\ \A s \in DOMAIN range : range[s].from <= range[s].to

\* The slot holds a winner as soon as a worker has found.
SlotIsFind == Found <=> hits # {}

\* Nothing moves after the join, which told what was found.
Joins ==
  outcome # "open" => gpc = "done" /\ (\A w \in Workers : wpc[w] = "done") /\ outcome = Result

\* A launch is called off for a reason, and the GPU stops for one.
CalledOffForReason == iterStop => stop \/ Found \/ gpc = "done"
GpuDoneForReason ==
  gpc = "done" /\ gpu = "none" => stop \/ newJob \/ Found \/ pos[GPU] = range[GPU].to

IInv ==
  /\ Tiled /\ Forward /\ TypeOK /\ SlotIsFind /\ Joins
  /\ CalledOffForReason /\ GpuDoneForReason

\* Cut ranges run forward.
LEMMA CutsForward ==
  ASSUME Tiled
  PROVE  Forward
<1>0. PICK k \in Nat : \E c \in [0 .. k -> Nat] : IsCut(range, k, c)
  BY DEF Tiled
<1>1. PICK c \in [0 .. k -> Nat] : IsCut(range, k, c)
  BY <1>0
<1>2. DOMAIN range = 0 .. k /\ \A s \in 0 .. k : c[s] \in Nat
  BY <1>1 DEF IsCut
<1>3. \A s \in 0 .. k :
        /\ range[s] \in [from : Nat, to : Nat] /\ range[s].from <= range[s].to
  <2> SUFFICES ASSUME NEW s \in 0 .. k
               PROVE  range[s] \in [from : Nat, to : Nat] /\ range[s].from <= range[s].to
    OBVIOUS
  <2>1. CASE s = 0
    <3>1. range[s] = [from |-> 0, to |-> c[0]]
      BY <1>1, <2>1 DEF IsCut, GPU
    <3> QED BY <1>2, <2>1, <3>1
  <2>2. CASE s # 0
    <3>1. range[s] = [from |-> c[s - 1], to |-> c[s]] /\ s - 1 \in 0 .. k /\ s - 1 <= s
      BY <1>1, <2>2 DEF IsCut, GPU
    <3>2. c[s - 1] <= c[s]
      BY <1>1, <3>1 DEF IsCut
    <3> QED BY <1>2, <3>1, <3>2
  <2> QED BY <2>1, <2>2
<1>4. range \in [DOMAIN range -> [from : Nat, to : Nat]]
  <2>1. range = [s \in DOMAIN range |-> range[s]]
    BY <1>1 DEF IsCut
  <2> QED BY <1>2, <1>3, <2>1
<1> QED BY <1>2, <1>3, <1>4 DEF Forward, GPU

LEMMA InitHolds == Init => IInv
<1> SUFFICES ASSUME Init PROVE IInv
  OBVIOUS
<1>1. Tiled
  <2>1. PICK span \in Spans, share \in Shares, n \in Threads :
          range = PartitionNonceRange(span, share, n)
    BY DEF Init
  <2>2. span \in Nat \ {0} /\ share \in 0 .. 10 /\ n \in Nat
    BY RaceAssumption
  <2>3. PICK k \in Nat : \E c \in [0 .. k -> Nat] :
          IsCut(PartitionNonceRange(span, share, n), k, c) /\ c[k] = span
    BY <2>2, PartitionIsCut
  <2>4. \E c \in [0 .. k -> Nat] : IsCut(range, k, c) /\ c[k] = span
    BY <2>1, <2>3
  <2> QED BY <2>4 DEF Tiled
<1>2. Forward
  BY <1>1, CutsForward
<1>3. \A s \in DOMAIN range : pos[s] \in range[s].from .. range[s].to
  BY <1>2 DEF Init, Forward
<1>4. wpc \in [Workers -> {"poll", "hash", "done"}]
  BY DEF Init
<1>5. TypeOK
  BY <1>2, <1>3, <1>4 DEF Init, Forward, TypeOK
<1>6. SlotIsFind /\ Joins /\ GpuDoneForReason
  BY DEF Init, SlotIsFind, Found, Joins, GpuDoneForReason
<1>7. CalledOffForReason
  BY DEF Init, CalledOffForReason
<1> QED BY <1>1, <1>2, <1>5, <1>6, <1>7 DEF IInv

\* What a sweep of k nonces does to the position of s.
LEMMA SweptInRange ==
  ASSUME Forward, TypeOK, NEW s \in DOMAIN range, NEW k \in Nat, Swept(s, k)
  PROVE  \A x \in DOMAIN range : pos'[x] \in range[x].from .. range[x].to
<1> SUFFICES ASSUME NEW x \in DOMAIN range PROVE pos'[x] \in range[x].from .. range[x].to
  OBVIOUS
<1>1. range[x].from \in Nat /\ range[x].to \in Nat /\ pos[x] \in range[x].from .. range[x].to
  BY DEF Forward, TypeOK
<1> QED BY <1>1 DEF Swept, Least

LEMMA TypeStep == Forward /\ TypeOK /\ [Next]_vars => TypeOK'
<1> SUFFICES ASSUME Forward, TypeOK, [Next]_vars PROVE TypeOK'
  OBVIOUS
<1> USE DEF TypeOK
<1>1. ASSUME NEW w \in Workers, WPoll(w) PROVE TypeOK'
  BY <1>1 DEF WPoll, Workers, Nobody
<1>2. ASSUME NEW w \in Workers, WMiss(w) PROVE TypeOK'
  <2>1. \A x \in DOMAIN range : pos'[x] \in range[x].from .. range[x].to
    BY <1>2, SweptInRange, RaceAssumption DEF WMiss, Workers
  <2> QED BY <1>2, <2>1 DEF WMiss, Workers
<1>3. ASSUME NEW w \in Workers, WHit(w) PROVE TypeOK'
  BY <1>3 DEF WHit, Workers, Claim
<1>4. CASE GBoundary
  <2>1. pos' = pos \/ Swept(GPU, Slice)
    BY <1>4 DEF GBoundary
  <2>2. \A x \in DOMAIN range : pos'[x] \in range[x].from .. range[x].to
    BY <2>1, SweptInRange, RaceAssumption
  <2> QED BY <1>4, <2>2 DEF GBoundary, GReturn, Workers
<1>5. CASE GSlice BY <1>5 DEF GSlice, GReturn, Workers
<1>6. CASE Join BY <1>6 DEF Join, Result, Workers
<1>7. CASE Stop \/ JobChange BY <1>7 DEF Stop, JobChange, Workers
<1>8. CASE UNCHANGED vars BY <1>8 DEF vars, Workers
<1> QED BY <1>1, <1>2, <1>3, <1>4, <1>5, <1>6, <1>7, <1>8 DEF Next, Joined

LEMMA Step == IInv /\ [Next]_vars => IInv'
<1> SUFFICES ASSUME IInv, [Next]_vars PROVE IInv'
  OBVIOUS
<1>t. TypeOK /\ TypeOK' BY TypeStep DEF IInv
<1>r. range' = range
  BY DEF Next, WPoll, WMiss, WHit, GBoundary, GSlice, Join, Stop, JobChange, Joined, vars
<1>1. Tiled' /\ Forward'
  BY <1>r DEF IInv, Tiled, Forward
<1>2. Workers' = Workers /\ ~(Nobody \in Workers)
  BY <1>r DEF Workers, Nobody, GPU
<1> USE DEF IInv, SlotIsFind, Found, CalledOffForReason, GpuDoneForReason
<1>3. ASSUME NEW w \in Workers, WPoll(w) PROVE IInv'
  <2>1. outcome = "open" BY <1>3 DEF WPoll, Joins
  <2>2. Joins' BY <1>3, <2>1 DEF WPoll, Joins
  <2> QED BY <1>t, <1>1, <1>3, <2>2 DEF WPoll
<1>4. ASSUME NEW w \in Workers, WMiss(w) PROVE IInv'
  <2>1. outcome = "open" BY <1>4 DEF WMiss, Joins
  <2>2. Joins' BY <1>4, <2>1 DEF WMiss, Joins
  <2>3. pos'[GPU] = pos[GPU]
    BY <1>4 DEF WMiss, Swept, Workers, TypeOK
  <2> QED BY <1>t, <1>1, <1>r, <1>4, <2>2, <2>3 DEF WMiss
<1>5. ASSUME NEW w \in Workers, WHit(w) PROVE IInv'
  <2>1. outcome = "open" BY <1>5 DEF WHit, Joins
  <2>2. Joins' BY <1>5, <2>1 DEF WHit, Joins
  <2>3. winner' # Nobody /\ hits' # {}
    BY <1>2, <1>5 DEF WHit, Claim
  <2> QED BY <1>t, <1>1, <1>5, <2>2, <2>3 DEF WHit
<1>6. CASE GBoundary
  <2>1. outcome = "open" BY <1>6 DEF GBoundary, Joins
  <2>2. Joins' BY <1>6, <2>1 DEF GBoundary, GReturn, Joins
  <2>3. CASE BackendStop \/ newJob \/ pos[GPU] = range[GPU].to
    <3>1. stop \/ newJob \/ Found \/ pos[GPU] = range[GPU].to
      BY <1>6, <2>3 DEF GBoundary, BackendStop
    <3> QED BY <1>t, <1>1, <1>r, <1>6, <2>2, <2>3, <3>1 DEF GBoundary, GReturn
  <2>4. CASE ~(BackendStop \/ newJob \/ pos[GPU] = range[GPU].to)
    <3>1. gpc' = "slice" /\ UNCHANGED <<stop, newJob, winner, hits, iterStop>>
      BY <1>6, <2>4 DEF GBoundary
    <3> QED BY <1>t, <1>1, <1>6, <2>2, <3>1 DEF GBoundary
  <2> QED BY <2>3, <2>4
<1>7. CASE GSlice
  <2>1. outcome = "open" BY <1>7 DEF GSlice, Joins
  <2>2. Joins' BY <1>7, <2>1 DEF GSlice, GReturn, Joins
  <2>3. gpc' = "done" => gpu' # "none"
    BY <1>7 DEF GSlice, GReturn
  <2> QED BY <1>t, <1>1, <1>7, <2>2, <2>3 DEF GSlice, GReturn
<1>8. CASE Join
  <2>1. Joins' BY <1>2, <1>8 DEF Join, Joins, Result
  <2> QED BY <1>t, <1>1, <1>r, <1>8, <2>1 DEF Join
<1>9. CASE Stop \/ JobChange
  <2>1. Joins' BY <1>9 DEF Stop, JobChange, Joins
  <2> QED BY <1>t, <1>1, <1>r, <1>9, <2>1 DEF Stop, JobChange
<1>10. CASE UNCHANGED vars
  <2>1. Joins' BY <1>2, <1>10 DEF vars, Joins, Result
  <2> QED BY <1>t, <1>1, <1>10, <2>1 DEF vars
<1> QED BY <1>3, <1>4, <1>5, <1>6, <1>7, <1>8, <1>9, <1>10 DEF Next, Joined

LEMMA Invariance == Spec => []IInv
BY InitHolds, Step, PTL DEF Spec

-----------------------------------------------------------------------------
\* Each sweeper stays inside its own part of the span (TypeOK).
THEOREM TypeCorrect == Spec => []TypeOK
<1>1. IInv => TypeOK BY DEF IInv
<1> QED BY Invariance, <1>1, PTL

\* No find is thrown away: the launch of run_stratum_full reports none exactly
\* if neither a worker nor the GPU found, faults and job changes included.
THEOREM FindIsNotLost == Spec => []FindNotLost
<1>1. IInv => FindNotLost
  BY DEF IInv, Joins, Result, SlotIsFind, FindNotLost
<1> QED BY Invariance, <1>1, PTL

\* The ranges of partition_nonce_range tile the span, with every rounding and
\* remainder, and a launch that was not called off has swept the GPU's.
THEOREM SpanIsCovered == Spec => []SpanCovered
<1>1. IInv => SpanCovered
  <2> SUFFICES ASSUME IInv, outcome = "none", gpu = "none", ~stop, ~newJob
               PROVE  \E span \in Spans : \A n \in 0 .. span :
                        /\ Cardinality({s \in DOMAIN range : n \in Given(s)})
                             = IF n < span THEN 1 ELSE 0
                        /\ n \in Given(GPU) => n < pos[GPU]
    BY DEF SpanCovered
  <2>0. PICK span \in Spans, k \in Nat :
          \E c \in [0 .. k -> Nat] : IsCut(range, k, c) /\ c[k] = span
    BY DEF IInv, Tiled
  <2>1. PICK c \in [0 .. k -> Nat] : IsCut(range, k, c) /\ c[k] = span
    BY <2>0
  <2>4. \A x \in Nat : TileAt(range, x, c[k])
    BY <2>1, CutsTile
  <2>2. pos[GPU] = range[GPU].to
    BY DEF IInv, Joins, Result, GpuDoneForReason
  <2>3. ASSUME NEW n \in 0 .. span
        PROVE  /\ Cardinality({s \in DOMAIN range : n \in Given(s)})
                    = IF n < span THEN 1 ELSE 0
               /\ n \in Given(GPU) => n < pos[GPU]
    <3>1. n \in Nat
      BY RaceAssumption
    <3>2. Cardinality({s \in DOMAIN range : n \in Given(s)}) = IF n < span THEN 1 ELSE 0
      <4>1. Cardinality({s \in DOMAIN range : n \in range[s].from .. range[s].to - 1})
              = IF n < c[k] THEN 1 ELSE 0
        BY <2>1, <2>4, <3>1 DEF TileAt
      <4> QED BY <2>1, <4>1, Zenon DEF Given
    <3>3. n \in Given(GPU) => n < pos[GPU]
      BY <2>2, <3>1 DEF Given, IInv, Forward
    <3> QED BY <3>2, <3>3
  <2> QED BY <2>3
<1> QED BY Invariance, <1>1, PTL
=============================================================================
