----------------------------- MODULE ProcessProofs -----------------------------
(***************************************************************************)
(* Proof that a start uses the geometry of its own card, and the best one  *)
(* it measured, and never takes to the CPU unasked: for every number of    *)
(* rigs and cards, every list of candidates, and every order of crashes,   *)
(* exchanged cards and writes to the shared cache; and proof that, for     *)
(* every horizon, every list of windows and any number of samples, the     *)
(* windows of its statistics server show exactly the samples that no later *)
(* one has overtaken by more than the horizon: every recent one as long as *)
(* no sample is ahead of the clock, and under a clock set ahead and back   *)
(* those that were not pruned meanwhile.                                   *)
(***************************************************************************)
EXTENDS Startup, StatsServer, SequenceTheorems, WellFoundedInduction, TLAPS

Geometry == (Nat \ {0}) \X (Nat \ {0}) \X (Nat \ {0})
Measurement == [geom : Geometry, rate : Nat]

-----------------------------------------------------------------------------
(* The choice of the best measurement.                                     *)

\* b is the best of the measurements s, or Nothing if none is usable.
IsWinner(b, s) ==
  IF b = Nothing THEN \A i \in 1 .. Len(s) : s[i].rate = 0
  ELSE /\ b.rate > 0
       /\ \E i \in 1 .. Len(s) : s[i] = b
       /\ \A j \in 1 .. Len(s) : s[j].rate > 0 => ~IsBetter(s[j], b)

-----------------------------------------------------------------------------
(* The inductive invariant.                                                *)

Places == {"unused", "down", "refused", "stopped", "connect", "geometry", "tune", "save",
           "write", "cuda", "opencl", "cpu", "fallback", "bench", "mine"}

\* Nothing is known of the card yet, or any more.
Blind == {"unused", "down", "refused", "stopped", "connect", "geometry"}

Shape ==
  /\ setup \in Setups /\ pc \in [Rigs -> Places] /\ card \in [Rigs -> Cards]
  /\ cached \in [Rigs -> BOOLEAN] /\ backend \in [Rigs -> {"none", "cuda", "opencl", "cpu"}]
  /\ DOMAIN name = Rigs /\ DOMAIN table = Rigs /\ DOMAIN geom = Rigs
  /\ DOMAIN elapsed = Rigs /\ DOMAIN stopping = Rigs

\* The cache holds a winner's record or nothing that parses; a winner's record
\* names a card.
CacheInv ==
  /\ cache \in won \cup {NoFile}
  /\ \A w \in won : w = Record(w.index, w.card, w.geom) /\ w.card # Unnamed

\* What a process remembers of its card and its sweep.
Memory(r) ==
  /\ pc[r] \in Blind => ~cached[r] /\ table[r] = NoTable
  /\ pc[r] \in {"tune", "save", "write"} => name[r] # Unnamed /\ ~cached[r]
  /\ pc[r] \in {"save", "write"} => Record(r, name[r], geom[r]) \in won

\* The sweep so far, and the geometry taken from it.
Swept(r) ==
  /\ table[r] = [all |-> table[r].all, best |-> table[r].best]
  /\ table[r].all \in Seq(Measurement) /\ IsWinner(table[r].best, table[r].all)
  /\ pc[r] \in {"save", "write", "cuda"} /\ table[r].best # Nothing
       => geom[r] = table[r].best.geom

\* The arm a process is in is one its options lead to.
Arm(r) ==
  /\ pc[r] = "cpu" => Opts(r).backend = "cpu"
  /\ pc[r] = "fallback" => Opts(r).backend = "auto"
  /\ backend[r] = "cpu" =>
       \/ Opts(r).backend = "cpu"
       \/ Opts(r).backend = "auto" /\ Rig(r).allowCpuFallback

IInv ==
  /\ Shape /\ CacheInv
  /\ \A r \in Rigs : Memory(r) /\ Swept(r) /\ Arm(r)
  /\ CachedIsOwn

-----------------------------------------------------------------------------
(* One process at a time.                                                  *)

\* A step of r leaves the other processes, the machine and the past alone.
Frame(r) ==
  /\ setup' = setup /\ won \subseteq won'
  /\ \A q \in Rigs \ {r} :
       /\ pc'[q] = pc[q] /\ card'[q] = card[q] /\ name'[q] = name[q] /\ table'[q] = table[q]
       /\ geom'[q] = geom[q] /\ cached'[q] = cached[q] /\ backend'[q] = backend[q]

\* What the invariant says of r alone.
Own(r) ==
  /\ Memory(r) /\ Swept(r) /\ Arm(r)
  /\ cached[r] => Record(r, card[r], geom[r]) \in won

\* The invariant, process by process.
LEMMA OwnOfAll == IInv <=> Shape /\ CacheInv /\ \A r \in Rigs : Own(r)
BY DEF IInv, Own, CachedIsOwn

\* To keep the invariant is to keep what it says of the process that steps.
LEMMA StepOfOne ==
  ASSUME IInv, NEW r \in Rigs, Frame(r), Shape', CacheInv', Own(r)'
  PROVE  IInv'
<1>1. ASSUME NEW q \in Rigs \ {r} PROVE Own(q)'
  <2>1. Opts(q)' = Opts(q) /\ Rig(q)' = Rig(q)
    BY DEF Frame, Opts, Rig
  <2>2. Own(q)
    BY OwnOfAll
  <2>3. Memory(q)'
    BY <2>2 DEF Own, Frame, Memory
  <2>4. Swept(q)'
    BY <2>2 DEF Own, Frame, Swept
  <2>5. Arm(q)'
    BY <2>1, <2>2 DEF Own, Frame, Arm
  <2> QED BY <2>2, <2>3, <2>4, <2>5 DEF Own, Frame
<1>2. \A q \in Rigs : Own(q)'
  BY <1>1
<1> QED BY <1>2, OwnOfAll DEF IInv, Own, CachedIsOwn

\* A sweep that measured nothing has no winner.
LEMMA NothingWins == IsWinner(Nothing, <<>>) /\ <<>> \in Seq(Measurement)
BY DEF IsWinner

\* A process that ends keeps nothing in memory.
LEMMA ExitStep ==
  ASSUME IInv, NEW r \in Rigs, NEW l \in {"down", "stopped"}, Exit(r, l),
         UNCHANGED <<setup, card, cache, won>>
  PROVE  IInv'
<1>1. /\ pc' = [pc EXCEPT ![r] = l] /\ table' = [table EXCEPT ![r] = NoTable]
      /\ cached' = [cached EXCEPT ![r] = FALSE] /\ backend' = [backend EXCEPT ![r] = "none"]
      /\ name' = [name EXCEPT ![r] = ""] /\ geom' = [geom EXCEPT ![r] = NoGeometry]
      /\ elapsed' = [elapsed EXCEPT ![r] = 0] /\ stopping' = [stopping EXCEPT ![r] = FALSE]
  BY DEF Exit, Goto
<1>2. Shape' /\ Frame(r)
  BY <1>1 DEF IInv, Shape, Frame, Places
<1>3. CacheInv'
  BY DEF IInv, CacheInv
<1>4. pc'[r] = l /\ table'[r] = NoTable /\ cached'[r] = FALSE /\ backend'[r] = "none"
  BY <1>1 DEF IInv, Shape
<1>5. Memory(r)' /\ Arm(r)'
  BY <1>4 DEF Memory, Arm
<1>6. Swept(r)'
  BY <1>4, NothingWins DEF Swept, NoTable
<1>7. Own(r)'
  BY <1>4, <1>5, <1>6 DEF Own
<1> QED BY <1>2, <1>3, <1>7, StepOfOne

\* A process that only moves on keeps what it knows.
LEMMA GotoStep ==
  ASSUME IInv, NEW r \in Rigs, NEW l \in Places, Goto(r, l), Keep,
         UNCHANGED <<setup, card, won>>, cache' \in won \cup {NoFile},
         l \in Blind => pc[r] \in Blind, l \notin {"tune", "save"},
         l = "write" => pc[r] = "save", l = "cuda" => pc[r] \in {"save", "write"},
         l = "cpu" => Opts(r).backend = "cpu", l = "fallback" => Opts(r).backend = "auto"
  PROVE  IInv'
<1>1. /\ pc' = [pc EXCEPT ![r] = l]
      /\ UNCHANGED <<name, table, geom, cached, backend, elapsed, stopping>>
  BY DEF Goto, Keep
<1>2. Shape' /\ Frame(r)
  BY <1>1 DEF IInv, Shape, Frame
<1>3. CacheInv'
  BY DEF IInv, CacheInv
<1>4. pc'[r] = l /\ Opts(r)' = Opts(r) /\ Rig(r)' = Rig(r)
  BY <1>1 DEF IInv, Shape, Opts, Rig
<1>5. Own(r)
  BY OwnOfAll
<1>6. Memory(r)'
  BY <1>1, <1>4, <1>5 DEF Own, Memory, Blind
<1>7. Swept(r)'
  BY <1>1, <1>4, <1>5 DEF Own, Swept
<1>8. Arm(r)'
  BY <1>1, <1>4, <1>5 DEF Own, Arm
<1>9. Own(r)'
  BY <1>1, <1>5, <1>6, <1>7, <1>8 DEF Own
<1> QED BY <1>2, <1>3, <1>9, StepOfOne

\* A geometry taken from the cache is of a record of this index and card.
LEMMA CachedIsRecorded ==
  ASSUME IInv, NEW r \in Rigs, NEW n \in {card[r], Unnamed}, CachedOrFlags(r, n)
  PROVE  \E g : \E b \in BOOLEAN :
           WithGeometry(r, g, b) /\ (b => Record(r, card[r], g) \in won)
<1> DEFINE g == CachedFor(cache, r, n)
<1>1. CASE g # NoGeometry /\ ~GeometrySetExplicitly(Rig(r).cli)
  <2>1. WithGeometry(r, g, TRUE)
    BY <1>1 DEF CachedOrFlags
  <2>2. Parses(cache) /\ cache.index = r /\ cache.card = n /\ g = cache.geom
    BY <1>1 DEF CachedFor
  <2>3. cache # NoFile
    <3>1. ~Parses(NoFile)
      BY DEF Parses, NoFile, NoGeometry
    <3> QED BY <2>2, <3>1
  <2>4. cache \in won /\ cache = Record(r, n, g) /\ n # Unnamed
    BY <2>2, <2>3 DEF IInv, CacheInv
  <2> QED BY <2>1, <2>4
<1>2. CASE ~(g # NoGeometry /\ ~GeometrySetExplicitly(Rig(r).cli))
  BY <1>2 DEF CachedOrFlags
<1> QED BY <1>1, <1>2

\* Without a winner the geometry is the cache's or the options'.
LEMMA UntunedStep ==
  ASSUME IInv, NEW r \in Rigs, NEW n \in {card[r], Unnamed}, CachedOrFlags(r, n),
         Goto(r, "cuda"), table[r].best = Nothing,
         UNCHANGED <<setup, card, cache, won, name, table, backend, elapsed, stopping>>
  PROVE  IInv'
<1>1. PICK g : \E b \in BOOLEAN : WithGeometry(r, g, b) /\ (b => Record(r, card[r], g) \in won)
  BY CachedIsRecorded
<1>2. PICK b \in BOOLEAN : WithGeometry(r, g, b) /\ (b => Record(r, card[r], g) \in won)
  BY <1>1
<1>3. /\ pc' = [pc EXCEPT ![r] = "cuda"] /\ geom' = [geom EXCEPT ![r] = g]
      /\ cached' = [cached EXCEPT ![r] = b]
  BY <1>2 DEF Goto, WithGeometry
<1>4. Shape' /\ Frame(r)
  BY <1>3 DEF IInv, Shape, Frame, Places
<1>5. CacheInv'
  BY DEF IInv, CacheInv
<1>6. pc'[r] = "cuda" /\ geom'[r] = g /\ cached'[r] = b /\ Opts(r)' = Opts(r) /\ Rig(r)' = Rig(r)
  BY <1>3 DEF IInv, Shape, Opts, Rig
<1>7. Own(r)
  BY OwnOfAll
<1>8. Memory(r)' /\ Swept(r)' /\ Arm(r)'
  BY <1>6, <1>7 DEF Own, Memory, Blind, Swept, Arm
<1>9. Own(r)'
  BY <1>2, <1>6, <1>8 DEF Own
<1> QED BY <1>4, <1>5, <1>9, StepOfOne

\* A card's name is read, or not, before a sweep and before the cache is.
LEMMA ResolveStep ==
  ASSUME IInv, NEW r \in Rigs, Resolve(r)
  PROVE  IInv'
<1>1. pc[r] = "geometry" /\ UNCHANGED <<setup, card, cache, won, trouble>>
  BY DEF Resolve
<1>2. Own(r) /\ table[r] = NoTable /\ cached[r] = FALSE
  BY <1>1, OwnOfAll DEF Own, Memory, Blind, IInv, Shape
<1>3. CASE Rig(r).cuda = "panics"
  BY <1>1, <1>3, ExitStep DEF Resolve
<1>4. CASE Rig(r).cuda # "panics" /\ ShouldAutoTune(Rig(r))
  <2>1. PICK n \in {card[r], UnknownCard} : name' = [name EXCEPT ![r] = n]
    BY <1>4 DEF Resolve, ReadName
  <2>2. /\ pc' = [pc EXCEPT ![r] = "tune"]
        /\ UNCHANGED <<table, geom, cached, backend, elapsed, stopping>>
    BY <1>4 DEF Resolve, Goto
  <2>3. Shape' /\ Frame(r)
    BY <1>1, <2>1, <2>2 DEF IInv, Shape, Frame, Places
  <2>4. CacheInv'
    BY <1>1 DEF IInv, CacheInv
  <2>5. n # Unnamed
    BY StartupAssumption DEF IInv, Shape, Unnamed, UnknownCard
  <2>6. pc'[r] = "tune" /\ name'[r] = n /\ Opts(r)' = Opts(r) /\ Rig(r)' = Rig(r)
    BY <1>1, <2>1, <2>2 DEF IInv, Shape, Opts, Rig
  <2>7. Memory(r)' /\ Swept(r)' /\ Arm(r)'
    BY <1>2, <2>2, <2>5, <2>6 DEF Own, Memory, Blind, Swept, Arm
  <2>8. Own(r)'
    BY <1>2, <2>2, <2>7 DEF Own
  <2> QED BY <2>3, <2>4, <2>8, StepOfOne
<1>5. CASE Rig(r).cuda # "panics" /\ ~ShouldAutoTune(Rig(r))
  <2>1. PICK n \in {card[r], Unnamed} : CachedOrFlags(r, n)
    BY <1>5 DEF Resolve, ReadName
  <2>2. Goto(r, "cuda") /\ UNCHANGED <<name, table, backend, elapsed, stopping>>
    BY <1>5 DEF Resolve
  <2>3. table[r].best = Nothing
    BY <1>2 DEF NoTable
  <2> QED BY <1>1, <2>1, <2>2, <2>3, UntunedStep
<1> QED BY <1>3, <1>4, <1>5

\* The winner's geometry is taken, and its record is the one to be saved.
LEMMA ConcludeStep ==
  ASSUME IInv, NEW r \in Rigs, Conclude(r)
  PROVE  IInv'
<1>1. pc[r] = "tune" /\ UNCHANGED <<setup, card, cache, name, table, backend, elapsed, stopping>>
  BY DEF Conclude
<1>2. Own(r) /\ name[r] # Unnamed
  BY <1>1, OwnOfAll DEF Own, Memory
<1>3. CASE Winner(r) = Nothing
  <2>1. PICK n \in {card[r], Unnamed} : CachedOrFlags(r, n)
    BY <1>3 DEF Conclude, ReadName
  <2>2. Goto(r, "cuda") /\ UNCHANGED won
    BY <1>3 DEF Conclude
  <2> QED BY <1>1, <1>3, <2>1, <2>2, UntunedStep DEF Winner
<1>4. CASE Winner(r) # Nothing
  <2> DEFINE w == Record(r, name[r], Winner(r).geom)
  <2>1. /\ pc' = [pc EXCEPT ![r] = "save"] /\ geom' = [geom EXCEPT ![r] = Winner(r).geom]
        /\ cached' = [cached EXCEPT ![r] = FALSE] /\ won' = won \cup {w}
    BY <1>4 DEF Conclude, WithGeometry, Goto
  <2>2. Shape' /\ Frame(r)
    BY <1>1, <2>1 DEF IInv, Shape, Frame, Places
  <2>3. CacheInv'
    <3>1. w = Record(w.index, w.card, w.geom) /\ w.card # Unnamed
      BY <1>2 DEF Record
    <3> HIDE DEF w
    <3> QED BY <1>1, <2>1, <3>1 DEF IInv, CacheInv
  <2>4. /\ pc'[r] = "save" /\ geom'[r] = Winner(r).geom /\ cached'[r] = FALSE
        /\ Opts(r)' = Opts(r) /\ Rig(r)' = Rig(r)
    BY <1>1, <2>1 DEF IInv, Shape, Opts, Rig
  <2>5. Memory(r)'
    BY <1>1, <1>2, <2>1, <2>4 DEF Memory, Blind
  <2>6. Swept(r)'
    BY <1>1, <1>2, <2>4 DEF Own, Swept, Winner
  <2>7. Arm(r)'
    BY <1>1, <1>2, <2>4 DEF Own, Arm
  <2>8. Own(r)'
    BY <2>4, <2>5, <2>6, <2>7 DEF Own
  <2> QED BY <2>2, <2>3, <2>8, StepOfOne
<1> QED BY <1>3, <1>4

\* A backend is selected with a geometry that is not newly cached.
LEMMA SelectedStep ==
  ASSUME IInv, NEW r \in Rigs, NEW b \in {"cuda", "opencl", "cpu"}, Selected(r, b),
         UNCHANGED <<setup, card, cache, won>>,
         UNCHANGED <<geom, cached>> \/ \E g : WithGeometry(r, g, FALSE),
         b = "cpu" => \/ Opts(r).backend = "cpu"
                      \/ Opts(r).backend = "auto" /\ Rig(r).allowCpuFallback
  PROVE  IInv'
<1>1. PICK l \in {"mine", "bench"} : pc' = [pc EXCEPT ![r] = l]
  BY DEF Selected, Goto
<1>2. /\ backend' = [backend EXCEPT ![r] = b] /\ elapsed' = [elapsed EXCEPT ![r] = 0]
      /\ table' = [table EXCEPT ![r] = NoTable] /\ UNCHANGED <<name, stopping>>
  BY DEF Selected
<1>3. /\ DOMAIN geom' = Rigs /\ cached' \in [Rigs -> BOOLEAN]
      /\ \A q \in Rigs \ {r} : geom'[q] = geom[q] /\ cached'[q] = cached[q]
      /\ cached'[r] => cached[r] /\ geom'[r] = geom[r]
  BY DEF WithGeometry, IInv, Shape
<1>4. Shape' /\ Frame(r)
  BY <1>1, <1>2, <1>3 DEF IInv, Shape, Frame, Places
<1>5. CacheInv'
  BY DEF IInv, CacheInv
<1>6. /\ pc'[r] = l /\ table'[r] = NoTable /\ backend'[r] = b
      /\ Opts(r)' = Opts(r) /\ Rig(r)' = Rig(r)
  BY <1>1, <1>2 DEF IInv, Shape, Opts, Rig
<1>7. Own(r)
  BY OwnOfAll
<1>8. Memory(r)' /\ Arm(r)'
  BY <1>6 DEF Memory, Blind, Arm
<1>9. Swept(r)'
  BY <1>6, NothingWins DEF Swept, NoTable
<1>10. Own(r)'
  BY <1>3, <1>7, <1>8, <1>9 DEF Own
<1> QED BY <1>4, <1>5, <1>10, StepOfOne

-----------------------------------------------------------------------------
(* The order of the measurements.                                          *)

\* Lexicographic order on five numbers.
Above(k, l) == \E i \in 1 .. 5 : k[i] > l[i] /\ \A j \in 1 .. i - 1 : k[j] = l[j]

\* The order, written out.
LEMMA AboveCases ==
  ASSUME NEW k, NEW l
  PROVE  Above(k, l) <=>
           \/ k[1] > l[1]
           \/ k[1] = l[1] /\ k[2] > l[2]
           \/ k[1] = l[1] /\ k[2] = l[2] /\ k[3] > l[3]
           \/ k[1] = l[1] /\ k[2] = l[2] /\ k[3] = l[3] /\ k[4] > l[4]
           \/ k[1] = l[1] /\ k[2] = l[2] /\ k[3] = l[3] /\ k[4] = l[4] /\ k[5] > l[5]
<1>1. /\ 1 .. 5 = {1, 2, 3, 4, 5} /\ 1 .. 1 - 1 = {} /\ 1 .. 2 - 1 = {1} /\ 1 .. 3 - 1 = {1, 2}
      /\ 1 .. 4 - 1 = {1, 2, 3} /\ 1 .. 5 - 1 = {1, 2, 3, 4}
  OBVIOUS
<1> QED BY <1>1, ZenonT(60) DEF Above

\* The key of a measurement: five numbers, that tell rate and geometry.
Five(k) == k[1] \in Nat /\ k[2] \in Nat /\ k[3] \in Nat /\ k[4] \in Nat /\ k[5] \in Nat

LEMMA KeyType ==
  ASSUME NEW m \in Measurement
  PROVE  /\ Five(Key(m)) /\ Key(m)[1] = m.rate
         /\ m.geom = <<Key(m)[3], Key(m)[4], Key(m)[5]>>
<1>1. /\ m.geom[1] \in Nat /\ m.geom[2] \in Nat /\ m.geom[3] \in Nat /\ m.rate \in Nat
      /\ m.geom = <<m.geom[1], m.geom[2], m.geom[3]>>
  BY DEF Measurement, Geometry
<1>2. NoncesPerLaunch(m.geom) \in Nat
  BY <1>1 DEF NoncesPerLaunch
<1> QED BY <1>1, <1>2 DEF Key, Five

\* A measurement is better when its key is above.
LEMMA BetterIsAbove ==
  ASSUME NEW a, NEW b
  PROVE  IsBetter(a, b) = Above(Key(a), Key(b))
BY DEF IsBetter, Above

\* The order is strict, transitive, and total up to the rate and the geometry.
LEMMA OrderOfKeys ==
  ASSUME NEW a \in Measurement, NEW b \in Measurement, NEW c \in Measurement
  PROVE  /\ ~IsBetter(a, a)
         /\ IsBetter(a, b) /\ IsBetter(b, c) => IsBetter(a, c)
         /\ ~IsBetter(a, b) => a.rate <= b.rate
         /\ ~IsBetter(a, b) /\ ~IsBetter(b, a) => a.geom = b.geom
<1> DEFINE k == Key(a)
           l == Key(b)
           m == Key(c)
<1>1. Five(k) /\ Five(l) /\ Five(m)
  BY KeyType
<1>2. k[1] = a.rate /\ l[1] = b.rate
  BY KeyType
<1>3. a.geom = <<k[3], k[4], k[5]>> /\ b.geom = <<l[3], l[4], l[5]>>
  BY KeyType
<1>4. /\ IsBetter(a, a) = Above(k, k) /\ IsBetter(a, b) = Above(k, l)
      /\ IsBetter(b, a) = Above(l, k) /\ IsBetter(b, c) = Above(l, m)
      /\ IsBetter(a, c) = Above(k, m)
  BY BetterIsAbove
<1> HIDE DEF k, l, m
<1>5. ~Above(k, k)
  BY <1>1, AboveCases DEF Five
<1>6. Above(k, l) /\ Above(l, m) => Above(k, m)
  BY <1>1, AboveCases DEF Five
<1>7. ~Above(k, l) => k[1] <= l[1]
  BY <1>1, AboveCases DEF Five
<1>8. ~Above(k, l) /\ ~Above(l, k) => k[3] = l[3] /\ k[4] = l[4] /\ k[5] = l[5]
  BY <1>1, AboveCases DEF Five
<1>9. ~IsBetter(a, b) /\ ~IsBetter(b, a) => a.geom = b.geom
  BY <1>3, <1>4, <1>8
<1> QED BY <1>2, <1>4, <1>5, <1>6, <1>7, <1>9

\* One more measurement: the better of it and the best so far is the best.
LEMMA WinnerStep ==
  ASSUME NEW s \in Seq(Measurement), NEW b, IsWinner(b, s), NEW m \in Measurement
  PROVE  IsWinner(Better(b, m), Append(s, m)) /\ Append(s, m) \in Seq(Measurement)
<1> DEFINE t == Append(s, m)
           n == Len(s)
<1>1. /\ t \in Seq(Measurement) /\ n \in Nat /\ Len(t) = n + 1 /\ t[n + 1] = m
      /\ \A i \in 1 .. n : t[i] = s[i] /\ s[i] \in Measurement
  OBVIOUS
<1>2. m.rate \in Nat /\ \A i \in 1 .. n : s[i].rate \in Nat
  BY <1>1 DEF Measurement
<1>3. Nothing.rate = 0
  BY DEF Nothing
<1> HIDE DEF t, n
<1>4. \A i \in 1 .. n + 1 : i \in 1 .. n \/ i = n + 1
  BY <1>1
<1>5. IsWinner(b, s) = IF b = Nothing THEN \A i \in 1 .. n : s[i].rate = 0
                       ELSE /\ b.rate > 0
                            /\ \E i \in 1 .. n : s[i] = b
                            /\ \A j \in 1 .. n : s[j].rate > 0 => ~IsBetter(s[j], b)
  BY DEF IsWinner, n
<1>6. CASE b = Nothing
  <2>1. CASE m.rate > 0
    <3>1. Better(b, m) = m /\ m # Nothing
      BY <1>3, <1>6, <2>1 DEF Better
    <3>2. ~IsBetter(m, m)
      BY OrderOfKeys
    <3>3. \A j \in 1 .. n + 1 : t[j].rate > 0 => ~IsBetter(t[j], m)
      <4>1. \A j \in 1 .. n : t[j].rate = 0
        BY <1>1, <1>5, <1>6
      <4> QED BY <1>1, <1>4, <3>2, <4>1
    <3>4. n + 1 \in 1 .. n + 1
      BY <1>1
    <3> QED BY <1>1, <2>1, <3>1, <3>3, <3>4 DEF IsWinner, t
  <2>2. CASE ~(m.rate > 0)
    <3>1. Better(b, m) = Nothing /\ m.rate = 0
      BY <1>2, <1>6, <2>2 DEF Better
    <3>2. \A i \in 1 .. n + 1 : t[i].rate = 0
      BY <1>1, <1>4, <1>5, <1>6, <3>1
    <3> QED BY <1>1, <3>1, <3>2 DEF IsWinner, t
  <2> QED BY <2>1, <2>2
<1>7. CASE b # Nothing
  <2>1. b \in Measurement /\ b.rate > 0 /\ \E i \in 1 .. n : t[i] = b
    BY <1>1, <1>5, <1>7
  <2>2. \A j \in 1 .. n : t[j] \in Measurement /\ (t[j].rate > 0 => ~IsBetter(t[j], b))
    BY <1>1, <1>5, <1>7
  <2>3. CASE m.rate > 0 /\ IsBetter(m, b)
    <3>1. Better(b, m) = m /\ m # Nothing
      BY <1>3, <2>3 DEF Better
    <3>2. \A j \in 1 .. n : t[j].rate > 0 => ~IsBetter(t[j], m)
      BY <2>1, <2>2, <2>3, OrderOfKeys
    <3>3. \A j \in 1 .. n + 1 : t[j].rate > 0 => ~IsBetter(t[j], m)
      BY <1>1, <1>4, <3>2, OrderOfKeys
    <3>4. n + 1 \in 1 .. n + 1
      BY <1>1
    <3> QED BY <1>1, <2>3, <3>1, <3>3, <3>4 DEF IsWinner, t
  <2>4. CASE ~(m.rate > 0 /\ IsBetter(m, b))
    <3>1. Better(b, m) = b
      BY <1>7, <2>4 DEF Better
    <3>2. \A j \in 1 .. n + 1 : t[j].rate > 0 => ~IsBetter(t[j], b)
      BY <1>1, <1>4, <2>2, <2>4
    <3>3. \E i \in 1 .. n + 1 : t[i] = b
      BY <1>1, <2>1
    <3> QED BY <1>1, <1>7, <2>1, <3>1, <3>2, <3>3 DEF IsWinner, t
  <2> QED BY <2>3, <2>4
<1> QED BY <1>1, <1>6, <1>7 DEF t

\* A candidate is measured, and compared with the best so far.
LEMMA MeasureStep ==
  ASSUME IInv, NEW r \in Rigs, Measure(r)
  PROVE  IInv'
<1>1. /\ pc[r] = "tune" /\ Len(table[r].all) < Len(Candidates)
      /\ UNCHANGED <<setup, card, cache, won, trouble>>
  BY DEF Measure
<1>2. Own(r) /\ table[r].all \in Seq(Measurement) /\ IsWinner(table[r].best, table[r].all)
  BY OwnOfAll DEF Own, Swept
<1>3. CASE Rig(r).cuda = "panics late"
  BY <1>1, <1>3, ExitStep DEF Measure
<1>4. CASE Rig(r).cuda # "panics late"
  <2> DEFINE c == Candidates[Len(table[r].all) + 1]
  <2>1. PICK v \in Measured(r) :
          table' = [table EXCEPT ![r] = [all  |-> Append(@.all, [geom |-> c, rate |-> v]),
                                         best |-> Better(@.best, [geom |-> c, rate |-> v])]]
    BY <1>4 DEF Measure
  <2>2. UNCHANGED <<pc, name, geom, cached, backend, elapsed, stopping>>
    BY <1>4, Zenon DEF Measure
  <2>3. c \in Geometry
    BY <1>1, <1>2, CandidatesAssumption, SMTT(60) DEF Geometry
  <2>4. v \in Nat
    <3>1. setup.rigs[r].rates \subseteq Nat
      BY StartupAssumption DEF IInv, Shape
    <3>2. Measured(r) = setup.rigs[r].rates \/ Measured(r) = {0}
      BY DEF Measured, Rig
    <3> QED BY <3>1, <3>2
  <2> DEFINE m == [geom |-> c, rate |-> v]
  <2>5. m \in Measurement
    BY <2>3, <2>4 DEF Measurement
  <2>6. table' = [table EXCEPT ![r] = [all  |-> Append(table[r].all, m),
                                       best |-> Better(table[r].best, m)]]
    BY <2>1
  <2> HIDE DEF m
  <2>7. table'[r] = [all |-> Append(table[r].all, m), best |-> Better(table[r].best, m)]
    BY <2>6 DEF IInv, Shape
  <2>8. Shape' /\ Frame(r)
    BY <1>1, <2>2, <2>6 DEF IInv, Shape, Frame
  <2>9. CacheInv'
    BY <1>1 DEF IInv, CacheInv
  <2>10. Swept(r)'
    <3>1. table'[r].all = Append(table[r].all, m) /\ table'[r].best = Better(table[r].best, m)
      BY <2>7
    <3>2. IsWinner(table'[r].best, table'[r].all) /\ table'[r].all \in Seq(Measurement)
      BY <1>2, <2>5, <3>1, WinnerStep
    <3> QED BY <1>1, <2>2, <2>7, <3>1, <3>2 DEF Swept
  <2>11. Memory(r)' /\ Arm(r)'
    <3>1. Opts(r)' = Opts(r) /\ Rig(r)' = Rig(r)
      BY <1>1 DEF Opts, Rig
    <3> QED BY <1>1, <1>2, <2>2, <3>1 DEF Own, Memory, Arm, Blind
  <2>12. Own(r)'
    BY <1>1, <1>2, <2>2, <2>10, <2>11 DEF Own
  <2> QED BY <2>8, <2>9, <2>12, StepOfOne
<1> QED BY <1>3, <1>4

-----------------------------------------------------------------------------
(* The other steps, and the theorems.                                      *)

\* A start, or one that fails.
LEMMA LaunchStep ==
  ASSUME IInv, NEW r \in Rigs, Launch(r) \/ SetupFails(r) \/ Drive(r)
  PROVE  IInv'
<1>1. CASE Launch(r)
  <2>1. PICK l \in {"connect", "refused"} : Goto(r, l)
    BY <1>1 DEF Launch
  <2>2. Keep /\ UNCHANGED <<setup, card, cache, won>> /\ pc[r] \in Blind
    BY <1>1 DEF Launch, Blind
  <2>3. cache' \in won \cup {NoFile} /\ l \in Places
    BY <2>2 DEF IInv, CacheInv, Places
  <2> QED BY <2>1, <2>2, <2>3, GotoStep
<1>2. CASE SetupFails(r)
  BY <1>2, ExitStep DEF SetupFails
<1>3. CASE Drive(r)
  <2>1. CASE FirstArm(r) = "down"
    BY <1>3, <2>1, ExitStep DEF Drive
  <2>2. CASE FirstArm(r) # "down"
    <3>1. /\ FirstArm(r) \in {"geometry", "opencl", "cpu"}
          /\ FirstArm(r) = "cpu" => Opts(r).backend = "cpu"
      BY <2>2 DEF FirstArm
    <3>2. /\ Goto(r, FirstArm(r)) /\ Keep /\ pc[r] \in Blind
          /\ UNCHANGED <<setup, card, cache, won>>
      BY <1>3, <2>2 DEF Drive, Blind
    <3>3. cache' \in won \cup {NoFile} /\ FirstArm(r) \in Places
      BY <3>1, <3>2 DEF IInv, CacheInv, Places
    <3> QED BY <3>1, <3>2, <3>3, GotoStep
  <2> QED BY <2>1, <2>2
<1> QED BY <1>1, <1>2, <1>3

\* The file is cut, then holds the record of the sweep that was saved.
LEMMA SaveStep ==
  ASSUME IInv, NEW r \in Rigs, Truncate(r) \/ Write(r)
  PROVE  IInv'
<1>1. CASE Truncate(r)
  <2>1. PICK l \in {"write", "cuda"} : Goto(r, l)
    BY <1>1 DEF Truncate
  <2>2. /\ Keep /\ UNCHANGED <<setup, card, won>> /\ pc[r] = "save" /\ l \in Places
        /\ cache' \in won \cup {NoFile}
    BY <1>1 DEF Truncate, IInv, CacheInv, Places
  <2> QED BY <2>1, <2>2, GotoStep DEF Blind
<1>2. CASE Write(r)
  <2>1. Goto(r, "cuda") /\ Keep /\ UNCHANGED <<setup, card, won>> /\ pc[r] = "write"
    BY <1>2 DEF Write
  <2>2. Record(r, name[r], geom[r]) \in won
    BY <2>1 DEF IInv, Memory
  <2>3. cache' \in won \cup {NoFile} /\ "cuda" \in Places
    BY <1>2, <2>2 DEF Write, Written, Places
  <2> QED BY <2>1, <2>3, GotoStep DEF Blind
<1> QED BY <1>1, <1>2

\* The arms of the backends: CPU mining is asked for, or allowed to auto.
LEMMA BackendStep ==
  ASSUME IInv, NEW r \in Rigs, InitCuda(r) \/ InitOpencl(r) \/ UseCpu(r)
  PROVE  IInv'
<1>0. UNCHANGED <<setup, card, cache, won>> /\ cache' \in won \cup {NoFile}
  BY DEF InitCuda, InitOpencl, UseCpu, IInv, CacheInv
<1>1. ASSUME NEW l \in {"opencl", "fallback"}, NextArm(r, l) PROVE IInv'
  <2>1. CASE Opts(r).backend = "auto"
    <3>1. Goto(r, l) /\ Keep /\ l \in Places
      BY <1>1, <2>1 DEF NextArm, Places
    <3> QED BY <1>0, <2>1, <3>1, GotoStep DEF Blind
  <2>2. CASE Opts(r).backend # "auto"
    BY <1>0, <1>1, <2>2, ExitStep DEF NextArm
  <2> QED BY <2>1, <2>2
<1>2. CASE InitCuda(r)
  <2>1. CASE Rig(r).cuda = "works"
    BY <1>0, <1>2, <2>1, SelectedStep DEF InitCuda
  <2> QED BY <1>1, <1>2, <2>1 DEF InitCuda
<1>3. CASE InitOpencl(r)
  <2>1. CASE "opencl" \in setup.built /\ Rig(r).opencl = "works"
    BY <1>0, <1>3, <2>1, SelectedStep DEF InitOpencl
  <2>2. CASE ~("opencl" \in setup.built /\ Rig(r).opencl = "works") /\ Rig(r).opencl = "panics"
    BY <1>0, <1>3, <2>2, ExitStep DEF InitOpencl
  <2> QED BY <1>1, <1>3, <2>1, <2>2 DEF InitOpencl
<1>4. CASE UseCpu(r)
  <2>1. CASE pc[r] = "cpu" \/ MayFallBackToCpu(Rig(r))
    <3>1. \/ Opts(r).backend = "cpu"
          \/ Opts(r).backend = "auto" /\ Rig(r).allowCpuFallback
      BY <1>4, <2>1 DEF UseCpu, MayFallBackToCpu, IInv, Arm
    <3> QED BY <1>0, <1>4, <2>1, <3>1, SelectedStep DEF UseCpu
  <2> QED BY <1>0, <1>4, <2>1, ExitStep DEF UseCpu
<1> QED BY <1>2, <1>3, <1>4

\* The benchmark ends in mining, and mining in a stop.
LEMMA BenchStep ==
  ASSUME IInv, NEW r \in Rigs, Bench(r) \/ Finish(r) \/ CtrlC(r)
  PROVE  IInv'
<1>1. ASSUME Goto(r, "mine"), Keep, UNCHANGED <<setup, card, cache, won>> PROVE IInv'
  <2>1. cache' \in won \cup {NoFile} /\ "mine" \in Places
    BY <1>1 DEF IInv, CacheInv, Places
  <2> QED BY <1>1, <2>1, GotoStep DEF Blind
<1>2. ASSUME NEW l \in {"mine", "bench"}, pc' = [pc EXCEPT ![r] = l], pc[r] \notin Blind,
             UNCHANGED <<setup, card, cache, won, name, table, geom, cached, backend>>,
             DOMAIN elapsed' = Rigs, DOMAIN stopping' = Rigs
      PROVE  IInv'
  <2>1. Shape' /\ Frame(r) /\ CacheInv'
    BY <1>2 DEF IInv, Shape, Frame, CacheInv, Places
  <2>2. pc'[r] = l /\ Opts(r)' = Opts(r) /\ Rig(r)' = Rig(r) /\ Own(r)
    BY <1>2, OwnOfAll DEF IInv, Shape, Opts, Rig
  <2>3. Own(r)'
    BY <1>2, <2>2 DEF Own, Memory, Swept, Arm, Blind
  <2> QED BY <2>1, <2>3, StepOfOne
<1>3. CASE Bench(r)
  <2>1. CASE stopping[r] \/ Rig(r).sweepsPanic
    BY <1>1, <1>3, <2>1 DEF Bench, BenchPanics
  <2>2. CASE ~(stopping[r] \/ Rig(r).sweepsPanic)
    <3>1. PICK d \in 1 .. Cap : Sweep(r, d)
      BY <1>3, <2>2 DEF Bench
    <3>2. /\ \E v : elapsed' = [elapsed EXCEPT ![r] = v]
          /\ \E l \in {"mine", "bench"} : pc' = [pc EXCEPT ![r] = l]
      BY <3>1 DEF Sweep, Goto
    <3>3. UNCHANGED <<name, table, geom, cached, backend, stopping>>
      BY <3>1 DEF Sweep
    <3>4. pc[r] \notin Blind /\ UNCHANGED <<setup, card, cache, won>>
      BY <1>3 DEF Bench, Blind
    <3>5. DOMAIN elapsed' = Rigs /\ DOMAIN stopping' = Rigs
      BY <3>2, <3>3 DEF IInv, Shape
    <3> QED BY <1>2, <3>2, <3>3, <3>4, <3>5
  <2> QED BY <2>1, <2>2
<1>4. CASE Finish(r)
  BY <1>4, ExitStep DEF Finish
<1>5. CASE CtrlC(r)
  <2>1. /\ pc[r] \in {"mine", "bench"} /\ DOMAIN stopping' = Rigs
        /\ UNCHANGED <<setup, card, cache, won, pc, name, table, geom, cached, backend, elapsed>>
    BY <1>5 DEF CtrlC, IInv, Shape
  <2>2. pc' = [pc EXCEPT ![r] = pc[r]]
    BY <2>1 DEF IInv, Shape
  <2>3. DOMAIN elapsed' = Rigs
    BY <2>1 DEF IInv, Shape
  <2> QED BY <1>2, <2>1, <2>2, <2>3 DEF Blind
<1> QED BY <1>3, <1>4, <1>5

\* A card is exchanged while its process is down and knows nothing.
LEMMA ExchangeStep ==
  ASSUME IInv, NEW r \in Rigs, Exchange(r)
  PROVE  IInv'
<1>1. PICK n \in Cards : card' = [card EXCEPT ![r] = n]
  BY DEF Exchange
<1>2. pc[r] = "down" /\ Keep /\ UNCHANGED <<setup, cache, won, pc>>
  BY DEF Exchange
<1>3. Shape' /\ Frame(r) /\ CacheInv'
  BY <1>1, <1>2 DEF IInv, Shape, Frame, CacheInv, Keep
<1>4. Own(r) /\ ~cached[r] /\ Opts(r)' = Opts(r) /\ Rig(r)' = Rig(r)
  BY <1>2, OwnOfAll DEF Own, Memory, Blind, Opts, Rig
<1>5. Own(r)'
  BY <1>2, <1>4 DEF Own, Memory, Swept, Arm, Blind, Keep
<1> QED BY <1>3, <1>5, StepOfOne

\* Every step keeps the invariant.
LEMMA Step == IInv /\ [Next]_vars => IInv'
<1> SUFFICES ASSUME IInv, [Next]_vars PROVE IInv'
  OBVIOUS
<1>1. ASSUME NEW r \in Rigs, Process(r) \/ SetupFails(r) \/ CtrlC(r) PROVE IInv'
  BY <1>1, LaunchStep, ResolveStep, MeasureStep, ConcludeStep, SaveStep, BackendStep, BenchStep
     DEF Process
<1>2. ASSUME NEW r \in Rigs, Crash(r) PROVE IInv'
  BY <1>2, ExitStep DEF Crash
<1>3. ASSUME NEW r \in Rigs, Exchange(r) PROVE IInv'
  BY <1>3, ExchangeStep
<1>4. CASE Done \/ UNCHANGED vars
  BY <1>4 DEF Done, vars, IInv, Shape, CacheInv, Memory, Swept, Arm, CachedIsOwn, Opts, Rig
<1> QED BY <1>1, <1>2, <1>3, <1>4 DEF Next

\* No process has started.
LEMMA InitHolds == Init => IInv
<1> SUFFICES ASSUME Init PROVE IInv
  OBVIOUS
<1>1. Shape
  BY StartupAssumption DEF Init, Shape, Places
<1>2. CacheInv
  BY DEF Init, CacheInv
<1>3. ASSUME NEW r \in Rigs PROVE Memory(r) /\ Swept(r) /\ Arm(r) /\ cached[r] = FALSE
  <2>1. /\ pc[r] \in {"down", "unused"} /\ table[r] = NoTable /\ cached[r] = FALSE
        /\ backend[r] = "none"
    BY DEF Init
  <2>2. Swept(r)
    BY <2>1, NothingWins DEF Swept, NoTable
  <2> QED BY <2>1, <2>2 DEF Memory, Blind, Arm
<1> QED BY <1>1, <1>2, <1>3 DEF IInv, CachedIsOwn

\* The invariant holds for ever.
LEMMA Invariance == Spec => []IInv
BY InitHolds, Step, PTL DEF Spec

\* A geometry from the cache won a sweep on the card that is there now.
THEOREM CacheIsHonest == Spec => []CachedIsOwn
<1>1. IInv => CachedIsOwn BY DEF IInv
<1> QED BY <1>1, Invariance, PTL

\* A process mines on the CPU only where the operator said so.
THEOREM CpuIsAskedFor == Spec => []NoSilentCpu
<1>1. IInv => NoSilentCpu
  BY DEF IInv, Arm, NoSilentCpu, CpuPoolShare, GpuWatched
<1> QED BY <1>1, Invariance, PTL

-----------------------------------------------------------------------------
(* The best geometry wins, in whatever order the candidates were measured. *)

\* Induction with a set for the property, since the rules of the library have an
\* operator there.
LEMMA InductionOnSet ==
  ASSUME NEW S \in SUBSET Nat, 0 \in S, \A n \in S : n + 1 \in S
  PROVE  S = Nat
<1> SUFFICES ASSUME Nat \ S # {} PROVE FALSE
  OBVIOUS
<1>1. PICK n \in Nat \ S : \A m \in Nat \ S : <<m, n>> \notin OpToRel(<, Nat)
  <2>1. \E n \in Nat \ S : \A m \in Nat \ S : ~(<<m, n>> \in OpToRel(<, Nat))
    BY WFMin, NatLessThanWellFounded, Zenon
  <2> QED BY <2>1
<1>2. n # 0 /\ n - 1 \in Nat /\ n - 1 < n /\ (n - 1) + 1 = n
  OBVIOUS
<1>3. n - 1 \in S
  <2>1. <<n - 1, n>> \in OpToRel(<, Nat)
    BY <1>2 DEF OpToRel
  <2> QED BY <1>1, <1>2, <2>1
<1> QED BY <1>2, <1>3

\* The function PickBest is defined with, up to n.
Chain(s, n, f) == f = [i \in 0 .. n |-> IF i = 0 THEN Nothing ELSE Better(f[i - 1], s[i])]

\* There is one, whatever the sequence.
LEMMA ChainExists ==
  ASSUME NEW s, NEW n \in Nat
  PROVE  \E f : Chain(s, n, f)
<1> DEFINE S == {k \in Nat : \E f : Chain(s, k, f)}
<1>1. 0 \in S
  <2>1. Chain(s, 0, [i \in 0 .. 0 |-> Nothing])
    BY DEF Chain
  <2> QED BY <2>1
<1>2. ASSUME NEW k \in S PROVE k + 1 \in S
  <2>1. PICK f : Chain(s, k, f)
    BY <1>2
  <2> DEFINE g == [i \in 0 .. k + 1 |-> IF i = k + 1 THEN Better(f[k], s[k + 1]) ELSE f[i]]
  <2>2. ASSUME NEW i \in 0 .. k + 1
        PROVE  g[i] = IF i = 0 THEN Nothing ELSE Better(g[i - 1], s[i])
    <3>1. k \in Nat /\ \A j \in 0 .. k : f[j] = IF j = 0 THEN Nothing ELSE Better(f[j - 1], s[j])
      BY <2>1 DEF Chain
    <3>2. CASE i = k + 1
      BY <3>1, <3>2
    <3>3. CASE i # k + 1
      BY <3>1, <3>3
    <3> QED BY <3>2, <3>3
  <2>3. Chain(s, k + 1, g)
    <3> HIDE DEF g
    <3>1. g = [i \in 0 .. k + 1 |-> g[i]]
      BY DEF g
    <3> QED BY <2>2, <3>1 DEF Chain
  <2> QED BY <2>3
<1>3. S = Nat
  <2> HIDE DEF S
  <2>1. S \in SUBSET Nat
    BY DEF S
  <2> QED BY <1>1, <1>2, <2>1, InductionOnSet
<1> QED BY <1>3

\* PickBest picks a winner.
LEMMA PickBestWins ==
  ASSUME NEW s \in Seq(Measurement)
  PROVE  IsWinner(PickBest(s), s)
<1> DEFINE f == CHOOSE g : Chain(s, Len(s), g)
<1>0. Len(s) \in Nat
  OBVIOUS
<1>1. Chain(s, Len(s), f)
  <2>1. \E g : Chain(s, Len(s), g)
    BY <1>0, ChainExists
  <2> QED BY <2>1
<1>2. PickBest(s) = f[Len(s)]
  BY DEF PickBest, Chain
<1> HIDE DEF f
<1>3. f[0] = Nothing /\ \A i \in 1 .. Len(s) : f[i] = Better(f[i - 1], s[i])
  <2>1. \A i \in 0 .. Len(s) : f[i] = IF i = 0 THEN Nothing ELSE Better(f[i - 1], s[i])
    BY <1>1 DEF Chain
  <2> QED BY <1>0, <2>1
<1> DEFINE Upto(n) == SubSeq(s, 1, n)
           S == {n \in Nat : n <= Len(s) => IsWinner(f[n], Upto(n))}
<1>4. 0 \in S
  <2>1. Upto(0) = <<>>
    BY SubSeqProperties
  <2> QED BY <1>3, <2>1, NothingWins
<1>5. ASSUME NEW n \in S PROVE n + 1 \in S
  <2> SUFFICES ASSUME n + 1 <= Len(s) PROVE IsWinner(f[n + 1], Upto(n + 1))
    OBVIOUS
  <2>1. n \in Nat /\ n <= Len(s) /\ n + 1 \in 1 .. Len(s) /\ (n + 1) - 1 = n
    BY <1>0
  <2>2. Upto(n + 1) = Append(Upto(n), s[n + 1]) /\ Upto(n) \in Seq(Measurement)
    BY <2>1, SubSeqProperties, AppendProperties
  <2>3. IsWinner(f[n], Upto(n)) /\ s[n + 1] \in Measurement
    BY <2>1
  <2>4. f[n + 1] = Better(f[n], s[n + 1])
    BY <1>3, <2>1
  <2> QED BY <2>2, <2>3, <2>4, WinnerStep
<1>6. S = Nat
  <2> HIDE DEF S
  <2>1. S \in SUBSET Nat
    BY DEF S
  <2> QED BY <1>4, <1>5, <2>1, InductionOnSet
<1>7. IsWinner(f[Len(s)], Upto(Len(s)))
  BY <1>0, <1>6
<1>8. Upto(Len(s)) = s
  BY SubSeqProperties
<1> QED BY <1>2, <1>7, <1>8

\* The elements of two sequences are the same.
SameElements(s, t) ==
  /\ \A i \in 1 .. Len(s) : \E j \in 1 .. Len(t) : s[i] = t[j]
  /\ \A j \in 1 .. Len(t) : \E i \in 1 .. Len(s) : s[i] = t[j]

\* Two winners of the same measurements, in two orders, have one geometry.
LEMMA WinnersAgree ==
  ASSUME NEW s \in Seq(Measurement), NEW t \in Seq(Measurement), NEW a, NEW b,
         IsWinner(a, s), IsWinner(b, t), SameElements(s, t)
  PROVE  a.geom = b.geom
<1>0. /\ \A i \in 1 .. Len(s) : s[i] \in Measurement
      /\ \A j \in 1 .. Len(t) : t[j] \in Measurement
  OBVIOUS
<1>1. CASE a = Nothing
  <2> SUFFICES ASSUME b # Nothing PROVE FALSE
    BY <1>1
  <2>1. PICK j \in 1 .. Len(t) : t[j] = b
    BY DEF IsWinner
  <2>2. PICK i \in 1 .. Len(s) : s[i] = t[j]
    BY <2>1 DEF SameElements
  <2>3. s[i].rate = 0 /\ b.rate > 0
    BY <1>1 DEF IsWinner
  <2> QED BY <2>1, <2>2, <2>3
<1>2. CASE b = Nothing
  <2> SUFFICES ASSUME a # Nothing PROVE FALSE
    BY <1>2
  <2>1. PICK i \in 1 .. Len(s) : s[i] = a
    BY DEF IsWinner
  <2>2. PICK j \in 1 .. Len(t) : s[i] = t[j]
    BY <2>1 DEF SameElements
  <2>3. t[j].rate = 0 /\ a.rate > 0
    BY <1>2 DEF IsWinner
  <2> QED BY <2>1, <2>2, <2>3
<1>3. CASE a # Nothing /\ b # Nothing
  <2>1. /\ a.rate > 0 /\ b.rate > 0
        /\ \E i \in 1 .. Len(s) : s[i] = a
        /\ \E j \in 1 .. Len(t) : t[j] = b
        /\ \A i \in 1 .. Len(s) : s[i].rate > 0 => ~IsBetter(s[i], a)
        /\ \A j \in 1 .. Len(t) : t[j].rate > 0 => ~IsBetter(t[j], b)
    BY <1>3 DEF IsWinner
  <2>2. PICK i \in 1 .. Len(s) : s[i] = a
    BY <2>1
  <2>3. PICK j \in 1 .. Len(t) : t[j] = b
    BY <2>1
  <2>4. PICK k \in 1 .. Len(t) : s[i] = t[k]
    BY DEF SameElements
  <2>5. PICK l \in 1 .. Len(s) : s[l] = t[j]
    BY DEF SameElements
  <2>6. ~IsBetter(a, b) /\ ~IsBetter(b, a)
    BY <2>1, <2>2, <2>3, <2>4, <2>5
  <2>7. a \in Measurement /\ b \in Measurement
    BY <1>0, <2>2, <2>3, Zenon
  <2> QED BY <2>6, <2>7, OrderOfKeys
<1> QED BY <1>1, <1>2, <1>3

\* A reversed sequence has the same elements.
LEMMA ReverseElements ==
  ASSUME NEW s \in Seq(Measurement)
  PROVE  /\ Reverse(s) \in Seq(Measurement) /\ Len(Reverse(s)) = Len(s)
         /\ \A i \in 1 .. Len(s) : \E j \in 1 .. Len(s) : s[i] = Reverse(s)[j]
         /\ \A j \in 1 .. Len(s) : \E i \in 1 .. Len(s) : s[i] = Reverse(s)[j]
<1>1. Len(s) \in Nat
  OBVIOUS
<1>2. /\ Reverse(s) \in Seq(Measurement) /\ Len(Reverse(s)) = Len(s)
      /\ \A j \in 1 .. Len(s) : Reverse(s)[j] = s[(Len(s) - j) + 1]
  BY <1>1 DEF Reverse
<1>3. ASSUME NEW i \in 1 .. Len(s)
      PROVE  /\ (Len(s) - i) + 1 \in 1 .. Len(s)
             /\ (Len(s) - ((Len(s) - i) + 1)) + 1 = i
  BY <1>1
<1> QED BY <1>1, <1>2, <1>3

\* The candidates in the opposite order have the same winner.
LEMMA WinnerOfReverse ==
  ASSUME NEW s \in Seq(Measurement), NEW b, IsWinner(b, s)
  PROVE  b.geom = PickBest(Reverse(s)).geom
<1>1. PICK t : t = Reverse(s)
  OBVIOUS
<1>2. t \in Seq(Measurement) /\ Len(t) = Len(s)
  BY <1>1, ReverseElements
<1>3. IsWinner(PickBest(t), t)
  BY <1>2, PickBestWins
<1>4. /\ \A i \in 1 .. Len(s) : \E j \in 1 .. Len(s) : s[i] = t[j]
      /\ \A j \in 1 .. Len(s) : \E i \in 1 .. Len(s) : s[i] = t[j]
  BY <1>1, ReverseElements
<1>5. SameElements(s, t)
  BY <1>2, <1>4 DEF SameElements
<1>6. PICK w : w = PickBest(t) /\ IsWinner(w, t)
  BY <1>3
<1>7. b.geom = w.geom
  BY <1>2, <1>5, <1>6, WinnersAgree
<1> QED BY <1>1, <1>6, <1>7

\* After a sweep with any usable measurement a process launches with the best one,
\* and would with the candidates in the opposite order.
THEOREM BestIsChosen == Spec => []BestWins
<1>1. IInv => BestWins
  <2> SUFFICES ASSUME IInv, NEW r \in Rigs, pc[r] \in {"save", "write", "cuda"},
                      \E i \in DOMAIN table[r].all : table[r].all[i].rate > 0
               PROVE  \E i \in DOMAIN table[r].all :
                        /\ table[r].all[i].geom = geom[r] /\ table[r].all[i].rate > 0
                        /\ \A j \in DOMAIN table[r].all :
                             table[r].all[j].rate <= table[r].all[i].rate
                        /\ geom[r] = PickBest(Reverse(table[r].all)).geom
    BY DEF BestWins
  <2> DEFINE s == table[r].all
             b == table[r].best
  <2>0. Swept(r)
    BY DEF IInv
  <2>1. /\ s \in Seq(Measurement) /\ IsWinner(b, s) /\ DOMAIN s = 1 .. Len(s)
        /\ b # Nothing => geom[r] = b.geom
    <3>1. s \in Seq(Measurement) /\ IsWinner(b, s)
      BY <2>0 DEF Swept
    <3>2. b # Nothing => geom[r] = b.geom
      BY <2>0 DEF Swept
    <3>3. DOMAIN s = 1 .. Len(s)
      BY <3>1
    <3> QED BY <3>1, <3>2, <3>3
  <2> HIDE DEF s, b
  <2>2. b # Nothing
    BY <2>1 DEF IsWinner, s
  <2>3. PICK i \in DOMAIN s : s[i] = b
    BY <2>1, <2>2 DEF IsWinner
  <2>4. b.rate > 0 /\ \A j \in DOMAIN s : s[j].rate > 0 => ~IsBetter(s[j], b)
    BY <2>1, <2>2 DEF IsWinner
  <2>5. b \in Measurement /\ \A j \in DOMAIN s : s[j] \in Measurement
    BY <2>1, <2>3
  <2>6. \A j \in DOMAIN s : s[j].rate <= b.rate
    <3>1. ASSUME NEW j \in DOMAIN s PROVE s[j].rate <= b.rate
      <4>1. s[j].rate \in Nat /\ b.rate \in Nat
        BY <2>5 DEF Measurement
      <4>2. CASE s[j].rate > 0
        BY <2>4, <2>5, <4>2, OrderOfKeys
      <4> QED BY <4>1, <4>2
    <3> QED BY <3>1
  <2>7. b.geom = PickBest(Reverse(s)).geom
    BY <2>1, WinnerOfReverse
  <2> QED BY <2>1, <2>2, <2>3, <2>4, <2>6, <2>7 DEF s
<1> QED BY <1>1, Invariance, PTL
-----------------------------------------------------------------------------
(* The statistics server beside it, in the process Services describes.     *)

VARIABLES host, status, service, restarts, complete, failed, operator

Stats == INSTANCE Services

-----------------------------------------------------------------------------
(* What Since keeps.                                                       *)

Entry == [at : Nat, ghs : Nat]

\* The function Since is defined with, up to n.
Kept(s, c, n, f) ==
  f = [i \in 0 .. n |->
         IF i = 0 THEN <<>>
         ELSE IF s[i].at >= c THEN Append(f[i - 1], s[i]) ELSE f[i - 1]]

\* There is one, whatever the sequence.
LEMMA KeptExists ==
  ASSUME NEW s, NEW c, NEW n \in Nat
  PROVE  \E f : Kept(s, c, n, f)
<1> DEFINE S == {k \in Nat : \E f : Kept(s, c, k, f)}
<1>1. 0 \in S
  <2>1. Kept(s, c, 0, [i \in 0 .. 0 |-> <<>>])
    BY DEF Kept
  <2> QED BY <2>1
<1>2. ASSUME NEW k \in S PROVE k + 1 \in S
  <2>1. PICK f : Kept(s, c, k, f)
    BY <1>2
  <2> DEFINE last == IF s[k + 1].at >= c THEN Append(f[k], s[k + 1]) ELSE f[k]
             g == [i \in 0 .. k + 1 |-> IF i = k + 1 THEN last ELSE f[i]]
  <2>2. ASSUME NEW i \in 0 .. k + 1
        PROVE  g[i] = IF i = 0 THEN <<>>
                      ELSE IF s[i].at >= c THEN Append(g[i - 1], s[i]) ELSE g[i - 1]
    <3>1. /\ k \in Nat
          /\ \A j \in 0 .. k : f[j] = IF j = 0 THEN <<>>
                                      ELSE IF s[j].at >= c THEN Append(f[j - 1], s[j])
                                           ELSE f[j - 1]
      BY <2>1 DEF Kept
    <3>2. CASE i = k + 1
      BY <3>1, <3>2
    <3>3. CASE i # k + 1
      BY <3>1, <3>3
    <3> QED BY <3>2, <3>3
  <2>3. Kept(s, c, k + 1, g)
    <3> HIDE DEF g
    <3>1. g = [i \in 0 .. k + 1 |-> g[i]]
      BY DEF g
    <3> QED BY <2>2, <3>1 DEF Kept
  <2> QED BY <2>3
<1>3. S = Nat
  <2> HIDE DEF S
  <2>1. S \in SUBSET Nat
    BY DEF S
  <2> QED BY <1>1, <1>2, <2>1, InductionOnSet
<1> QED BY <1>3

\* Since(s, c) is the last value of a function that follows the recursion.
LEMMA SinceIsKept ==
  ASSUME NEW s \in Seq(Entry), NEW c \in Nat
  PROVE  \E f : /\ f[0] = <<>> /\ Since(s, c) = f[Len(s)]
                /\ \A i \in 1 .. Len(s) :
                     f[i] = IF s[i].at >= c THEN Append(f[i - 1], s[i]) ELSE f[i - 1]
<1> DEFINE f == CHOOSE g : Kept(s, c, Len(s), g)
<1>0. Len(s) \in Nat
  OBVIOUS
<1>1. Kept(s, c, Len(s), f)
  <2>1. \E g : Kept(s, c, Len(s), g)
    BY <1>0, KeptExists
  <2> QED BY <2>1
<1>2. Since(s, c) = f[Len(s)]
  BY DEF Since, Kept
<1> HIDE DEF f
<1>3. \A i \in 0 .. Len(s) :
        f[i] = IF i = 0 THEN <<>>
               ELSE IF s[i].at >= c THEN Append(f[i - 1], s[i]) ELSE f[i - 1]
  BY <1>1 DEF Kept
<1>4. /\ f[0] = <<>>
      /\ \A i \in 1 .. Len(s) :
           f[i] = IF s[i].at >= c THEN Append(f[i - 1], s[i]) ELSE f[i - 1]
  BY <1>0, <1>3
<1> QED BY <1>2, <1>4

\* What is kept of an empty sequence.
LEMMA SinceEmpty == ASSUME NEW c \in Nat PROVE Since(<<>>, c) = <<>>
<1>1. <<>> \in Seq(Entry) /\ Len(<<>>) = 0
  OBVIOUS
<1> QED BY <1>1, SinceIsKept

\* What is kept are samples.
LEMMA SinceType ==
  ASSUME NEW s \in Seq(Entry), NEW c \in Nat
  PROVE  Since(s, c) \in Seq(Entry)
<1>1. PICK f : /\ f[0] = <<>> /\ Since(s, c) = f[Len(s)]
               /\ \A i \in 1 .. Len(s) :
                    f[i] = IF s[i].at >= c THEN Append(f[i - 1], s[i]) ELSE f[i - 1]
  BY SinceIsKept
<1> DEFINE S == {k \in Nat : k <= Len(s) => f[k] \in Seq(Entry)}
<1>2. 0 \in S
  <2>1. <<>> \in Seq(Entry)
    OBVIOUS
  <2> QED BY <1>1, <2>1
<1>3. ASSUME NEW k \in S PROVE k + 1 \in S
  <2> SUFFICES ASSUME k + 1 <= Len(s) PROVE f[k + 1] \in Seq(Entry)
    OBVIOUS
  <2>1. k \in Nat /\ k + 1 \in 1 .. Len(s) /\ (k + 1) - 1 = k /\ f[k] \in Seq(Entry)
    OBVIOUS
  <2>2. s[k + 1] \in Entry
    BY <2>1
  <2>3. Append(f[k], s[k + 1]) \in Seq(Entry)
    BY <2>1, <2>2
  <2>4. f[k + 1] = IF s[k + 1].at >= c THEN Append(f[k], s[k + 1]) ELSE f[k]
    BY <1>1, <2>1
  <2> QED BY <2>1, <2>3, <2>4
<1>4. S = Nat
  <2> HIDE DEF S
  <2>1. S \in SUBSET Nat
    BY DEF S
  <2> QED BY <1>2, <1>3, <2>1, InductionOnSet
<1> QED BY <1>1, <1>4

\* What one more sample adds.
LEMMA SinceAppend ==
  ASSUME NEW s \in Seq(Entry), NEW x \in Entry, NEW c \in Nat
  PROVE  Since(Append(s, x), c)
           = IF x.at >= c THEN Append(Since(s, c), x) ELSE Since(s, c)
<1> DEFINE t == Append(s, x)
<1>0. /\ Len(s) \in Nat /\ Len(t) = Len(s) + 1 /\ t \in Seq(Entry)
      /\ t[Len(s) + 1] = x /\ \A i \in 1 .. Len(s) : t[i] = s[i]
  OBVIOUS
<1> HIDE DEF t
<1>1. PICK f : /\ f[0] = <<>> /\ Since(s, c) = f[Len(s)]
               /\ \A i \in 1 .. Len(s) :
                    f[i] = IF s[i].at >= c THEN Append(f[i - 1], s[i]) ELSE f[i - 1]
  BY SinceIsKept
<1>2. PICK g : /\ g[0] = <<>> /\ Since(t, c) = g[Len(t)]
               /\ \A i \in 1 .. Len(t) :
                    g[i] = IF t[i].at >= c THEN Append(g[i - 1], t[i]) ELSE g[i - 1]
  BY <1>0, SinceIsKept
<1> DEFINE S == {k \in Nat : k <= Len(s) => f[k] = g[k]}
<1>3. 0 \in S
  BY <1>1, <1>2
<1>4. ASSUME NEW k \in S PROVE k + 1 \in S
  <2> SUFFICES ASSUME k + 1 <= Len(s) PROVE f[k + 1] = g[k + 1]
    OBVIOUS
  <2>1. /\ k \in Nat /\ k + 1 \in 1 .. Len(s) /\ k + 1 \in 1 .. Len(t)
        /\ (k + 1) - 1 = k /\ f[k] = g[k]
    BY <1>0
  <2>2. f[k + 1] = IF s[k + 1].at >= c THEN Append(f[k], s[k + 1]) ELSE f[k]
    BY <1>1, <2>1
  <2>3. g[k + 1] = IF t[k + 1].at >= c THEN Append(g[k], t[k + 1]) ELSE g[k]
    BY <1>2, <2>1
  <2> QED BY <1>0, <2>1, <2>2, <2>3
<1>5. S = Nat
  <2> HIDE DEF S
  <2>1. S \in SUBSET Nat
    BY DEF S
  <2> QED BY <1>3, <1>4, <2>1, InductionOnSet
<1>6. f[Len(s)] = g[Len(s)]
  BY <1>0, <1>5
<1>7. g[Len(t)] = IF x.at >= c THEN Append(g[Len(s)], x) ELSE g[Len(s)]
  BY <1>0, <1>2
<1> QED BY <1>1, <1>2, <1>6, <1>7 DEF t

\* Pruning first and looking at a later cutoff is looking at the later one.
LEMMA SinceTwice ==
  ASSUME NEW s \in Seq(Entry), NEW d \in Nat, NEW c \in Nat, d <= c
  PROVE  Since(Since(s, d), c) = Since(s, c)
<1> DEFINE Upto(n) == SubSeq(s, 1, n)
           S == {n \in Nat : n <= Len(s) =>
                   Since(Since(Upto(n), d), c) = Since(Upto(n), c)}
<1>0. Len(s) \in Nat
  OBVIOUS
<1>1. 0 \in S
  <2>1. Upto(0) = <<>>
    BY SubSeqProperties
  <2> QED BY <2>1, SinceEmpty
<1>2. ASSUME NEW n \in S PROVE n + 1 \in S
  <2> SUFFICES ASSUME n + 1 <= Len(s)
               PROVE  Since(Since(Upto(n + 1), d), c) = Since(Upto(n + 1), c)
    OBVIOUS
  <2>1. n \in Nat /\ n <= Len(s) /\ n + 1 \in 1 .. Len(s)
    BY <1>0
  <2>2. Since(Since(Upto(n), d), c) = Since(Upto(n), c)
    BY <2>1
  <2>3. Upto(n + 1) = Append(Upto(n), s[n + 1]) /\ Upto(n) \in Seq(Entry)
    BY <2>1, SubSeqProperties, AppendProperties
  <2>4. PICK u \in Seq(Entry) : u = Upto(n)
    BY <2>3
  <2>5. PICK x \in Entry : x = s[n + 1]
    BY <2>1
  <2>6. PICK v \in Seq(Entry) : v = Since(u, d)
    BY SinceType
  <2> HIDE DEF Upto, S
  <2>7. Since(Append(u, x), d) = IF x.at >= d THEN Append(v, x) ELSE v
    BY <2>6, SinceAppend
  <2>8. Since(Append(v, x), c)
          = IF x.at >= c THEN Append(Since(v, c), x) ELSE Since(v, c)
    BY SinceAppend
  <2>9. Since(Append(u, x), c)
          = IF x.at >= c THEN Append(Since(u, c), x) ELSE Since(u, c)
    BY SinceAppend
  <2>10. Since(v, c) = Since(u, c)
    BY <2>2, <2>4, <2>6
  <2>11. x.at >= c => x.at >= d
    BY DEF Entry
  <2>12. Since(Since(Append(u, x), d), c) = Since(Append(u, x), c)
    BY <2>7, <2>8, <2>9, <2>10, <2>11
  <2> QED BY <2>3, <2>4, <2>5, <2>12
<1>3. S = Nat
  <2> HIDE DEF S
  <2>1. S \in SUBSET Nat
    BY DEF S
  <2> QED BY <1>1, <1>2, <2>1, InductionOnSet
<1>4. Since(Since(Upto(Len(s)), d), c) = Since(Upto(Len(s)), c)
  BY <1>0, <1>3
<1>5. Upto(Len(s)) = s
  BY SubSeqProperties
<1> QED BY <1>4, <1>5

\* The elements of a sequence and of one with one more.
LEMMA AppendSet ==
  ASSUME NEW s \in Seq(Entry), NEW x \in Entry
  PROVE  ToSet(Append(s, x)) = ToSet(s) \cup {x}
<1>1. /\ Len(s) \in Nat /\ DOMAIN s = 1 .. Len(s)
      /\ DOMAIN Append(s, x) = 1 .. Len(s) + 1
      /\ Append(s, x)[Len(s) + 1] = x /\ \A i \in 1 .. Len(s) : Append(s, x)[i] = s[i]
  OBVIOUS
<1>2. 1 .. Len(s) + 1 = (1 .. Len(s)) \cup {Len(s) + 1}
  BY <1>1
<1> QED BY <1>1, <1>2 DEF ToSet

\* What is kept are the samples at the cutoff or after it.
LEMMA SinceSet ==
  ASSUME NEW s \in Seq(Entry), NEW c \in Nat
  PROVE  ToSet(Since(s, c)) = {y \in ToSet(s) : y.at >= c}
<1> DEFINE Upto(n) == SubSeq(s, 1, n)
           S == {n \in Nat : n <= Len(s) =>
                   ToSet(Since(Upto(n), c)) = {y \in ToSet(Upto(n)) : y.at >= c}}
<1>0. Len(s) \in Nat
  OBVIOUS
<1>1. 0 \in S
  <2>1. Upto(0) = <<>>
    BY SubSeqProperties
  <2>2. ToSet(<<>>) = {}
    BY DEF ToSet
  <2> QED BY <2>1, <2>2, SinceEmpty
<1>2. ASSUME NEW n \in S PROVE n + 1 \in S
  <2> SUFFICES ASSUME n + 1 <= Len(s)
               PROVE  ToSet(Since(Upto(n + 1), c)) = {y \in ToSet(Upto(n + 1)) : y.at >= c}
    OBVIOUS
  <2>1. n \in Nat /\ n <= Len(s) /\ n + 1 \in 1 .. Len(s)
    BY <1>0
  <2>2. ToSet(Since(Upto(n), c)) = {y \in ToSet(Upto(n)) : y.at >= c}
    BY <2>1
  <2>3. Upto(n + 1) = Append(Upto(n), s[n + 1]) /\ Upto(n) \in Seq(Entry)
    BY <2>1, SubSeqProperties, AppendProperties
  <2>4. PICK u \in Seq(Entry) : u = Upto(n)
    BY <2>3
  <2>5. PICK x \in Entry : x = s[n + 1]
    BY <2>1
  <2>6. PICK v \in Seq(Entry) : v = Since(u, c)
    BY SinceType
  <2> HIDE DEF Upto, S
  <2>7. Since(Append(u, x), c) = IF x.at >= c THEN Append(v, x) ELSE v
    BY <2>6, SinceAppend
  <2>8. ToSet(Append(u, x)) = ToSet(u) \cup {x} /\ ToSet(Append(v, x)) = ToSet(v) \cup {x}
    BY AppendSet
  <2>9. ToSet(v) = {y \in ToSet(u) : y.at >= c}
    BY <2>2, <2>4, <2>6
  <2>10. ToSet(Since(Append(u, x), c)) = {y \in ToSet(Append(u, x)) : y.at >= c}
    BY <2>7, <2>8, <2>9
  <2> QED BY <2>3, <2>4, <2>5, <2>10
<1>3. S = Nat
  <2> HIDE DEF S
  <2>1. S \in SUBSET Nat
    BY DEF S
  <2> QED BY <1>1, <1>2, <2>1, InductionOnSet
<1>4. ToSet(Since(Upto(Len(s)), c)) = {y \in ToSet(Upto(Len(s))) : y.at >= c}
  BY <1>0, <1>3
<1>5. Upto(Len(s)) = s
  BY SubSeqProperties
<1> QED BY <1>4, <1>5

-----------------------------------------------------------------------------
(* The inductive invariant of the windows.                                 *)

SamplesType ==
  /\ now \in Nat
  /\ samples \in Seq(Entry) /\ all \in Seq(Entry)

\* A cutoff that no pruning so far was beyond.
Reached(cut) == \A i \in 1 .. Len(all) : Back(all[i].at, Horizon) <= cut

\* The pruned samples stand for all of them.
Lossless == \A cut \in Nat : Reached(cut) => Since(samples, cut) = Since(all, cut)

\* And hold those that last, no other.
Survivors == ToSet(samples) = {all[i] : i \in Lasting}

StatsInv == SamplesType /\ Lossless /\ Survivors

\* Going back from a time gives a time, and a longer window reaches further back.
LEMMA BackIsNat ==
  ASSUME NEW t \in Nat, NEW span \in Nat
  PROVE  Back(t, span) \in Nat
BY DEF Back
LEMMA BackIsMonotone ==
  ASSUME NEW t \in Nat, NEW u \in Nat, t <= u, NEW a \in Nat, NEW b \in Nat, a <= b
  PROVE  Back(t, b) <= Back(u, a)
BY DEF Back

\* The windows start empty.
LEMMA StatsInitHolds == Stats!Init => StatsInv
<1>1. ASSUME Stats!Init PROVE now = 0 /\ samples = <<>> /\ all = <<>>
  BY <1>1 DEF Stats!Init, Stats!StatsInit
<1> QED BY <1>1 DEF StatsInv, SamplesType, Lossless, Survivors, Lasting, ToSet

\* A sample is added, and the old ones are pruned.
LEMMA SampleStep == StatsInv /\ Sample => StatsInv'
<1> SUFFICES ASSUME StatsInv, Sample PROVE StatsInv'
  OBVIOUS
<1>1. PICK x \in Entry : /\ x.at = now /\ all' = Append(all, x)
                         /\ samples' = Recorded(samples, x)
  <2>1. [at |-> now, ghs |-> Len(all) + 1] \in Entry
    BY DEF StatsInv, SamplesType, Entry
  <2> QED BY <2>1 DEF Sample
<1>2. PICK c \in Nat : c = Back(now, Horizon)
  BY BackIsNat, StatsAssumption DEF StatsInv, SamplesType
<1>3. /\ now' = now /\ now \in Nat /\ samples \in Seq(Entry) /\ all \in Seq(Entry)
      /\ Append(samples, x) \in Seq(Entry) /\ all' \in Seq(Entry)
  BY <1>1 DEF StatsInv, SamplesType, Sample
<1>4. samples' = Since(Append(samples, x), c)
  BY <1>1, <1>2 DEF Recorded, PruneAt
<1>5. SamplesType'
  BY <1>3, <1>4, SinceType DEF StatsInv, SamplesType
<1>6. ASSUME NEW cut \in Nat, Reached(cut)'
      PROVE  Since(samples', cut) = Since(all', cut)
  <2>1. /\ Len(all) \in Nat /\ Len(all') = Len(all) + 1 /\ all'[Len(all) + 1] = x
        /\ \A i \in 1 .. Len(all) : all'[i] = all[i]
    BY <1>1, <1>3
  <2>2. \A i \in 1 .. Len(all') : Back(all'[i].at, Horizon) <= cut
    BY <1>6 DEF Reached
  <2>3. Reached(cut)
    BY <2>1, <2>2 DEF Reached
  <2>4. c <= cut
    BY <1>1, <1>2, <2>1, <2>2
  <2>5. Since(samples', cut) = Since(Append(samples, x), cut)
    BY <1>3, <1>4, <2>4, SinceTwice
  <2>6. Since(samples, cut) = Since(all, cut)
    BY <2>3 DEF StatsInv, Lossless
  <2>7. Since(Append(samples, x), cut) = Since(Append(all, x), cut)
    <3>1. Since(Append(samples, x), cut)
            = IF x.at >= cut THEN Append(Since(samples, cut), x) ELSE Since(samples, cut)
      BY <1>3, SinceAppend
    <3>2. Since(Append(all, x), cut)
            = IF x.at >= cut THEN Append(Since(all, cut), x) ELSE Since(all, cut)
      BY <1>3, SinceAppend
    <3> QED BY <2>6, <3>1, <3>2
  <2> QED BY <1>1, <2>5, <2>7
<1>7. Lossless'
  BY <1>6 DEF Lossless
<1>8. Survivors'
  <2>1. /\ Len(all) \in Nat /\ DOMAIN all = 1 .. Len(all) /\ DOMAIN all' = 1 .. Len(all) + 1
        /\ all'[Len(all) + 1] = x /\ \A i \in 1 .. Len(all) : all'[i] = all[i]
    BY <1>1, <1>3
  <2>2. ASSUME NEW i \in 1 .. Len(all) PROVE all[i].at \in Nat
    <3>1. all[i] \in Entry
      BY <1>3
    <3> QED BY <3>1 DEF Entry
  <2>3. \A a \in Nat : (a >= c) <=> (x.at <= a + Horizon)
    BY <1>1, <1>2, <1>3, StatsAssumption DEF Back
  <2>4. Lasting' = {i \in Lasting : all[i].at >= c} \cup {Len(all) + 1}
    <3>1. ASSUME NEW i \in 1 .. Len(all)
          PROVE  i \in Lasting' <=> i \in Lasting /\ all[i].at >= c
      <4>1. all[i].at \in Nat /\ i \in DOMAIN all /\ i \in DOMAIN all' /\ all'[i] = all[i]
        BY <2>1, <2>2
      <4>2. (all[i].at >= c) <=> (all'[Len(all) + 1].at <= all[i].at + Horizon)
        BY <2>1, <2>3, <4>1
      <4>3. i \in Lasting <=>
              \A j \in 1 .. Len(all) : j > i => all'[j].at <= all[i].at + Horizon
        BY <2>1, <4>1 DEF Lasting
      <4>4. i \in Lasting' <=>
              \A j \in 1 .. Len(all) + 1 : j > i => all'[j].at <= all[i].at + Horizon
        BY <2>1, <4>1 DEF Lasting
      <4>5. Len(all) + 1 \in 1 .. Len(all) + 1 /\ Len(all) + 1 > i
        BY <2>1
      <4>6. \A j \in 1 .. Len(all) + 1 : j \in 1 .. Len(all) \/ j = Len(all) + 1
        BY <2>1
      <4>7. 1 .. Len(all) \subseteq 1 .. Len(all) + 1
        BY <2>1
      <4> QED BY <4>2, <4>3, <4>4, <4>5, <4>6, <4>7
    <3>2. Len(all) + 1 \in Lasting'
      BY <2>1 DEF Lasting
    <3>3. Lasting \subseteq 1 .. Len(all) /\ Lasting' \subseteq 1 .. Len(all) + 1
      BY <2>1 DEF Lasting
    <3>4. 1 .. Len(all) + 1 = (1 .. Len(all)) \cup {Len(all) + 1}
      BY <2>1
    <3> QED BY <3>1, <3>2, <3>3, <3>4
  <2>5. ToSet(samples') = {y \in ToSet(samples) \cup {x} : y.at >= c}
    <3>1. PICK t \in Seq(Entry) : t = Append(samples, x)
      BY <1>3
    <3>2. ToSet(Since(t, c)) = {y \in ToSet(t) : y.at >= c}
      BY SinceSet
    <3>3. ToSet(t) = ToSet(samples) \cup {x}
      BY <1>3, <3>1, AppendSet
    <3> QED BY <1>4, <3>1, <3>2, <3>3
  <2>6. x.at >= c
    BY <1>1, <1>2, <1>3, StatsAssumption DEF Back
  <2>7. ToSet(samples) = {all[i] : i \in Lasting}
    BY DEF StatsInv, Survivors
  <2>8. \A i \in Lasting : all'[i] = all[i]
    BY <2>1 DEF Lasting
  <2>9. {all'[i] : i \in Lasting'} = {all[i] : i \in {l \in Lasting : all[l].at >= c}} \cup {x}
    BY <2>1, <2>4, <2>8
  <2> QED BY <2>5, <2>6, <2>7, <2>9 DEF Survivors
<1> QED BY <1>5, <1>7, <1>8 DEF StatsInv

\* What a step does to the clock and the samples.
LEMMA StepKinds ==
  ASSUME [Stats!Next]_Stats!vars
  PROVE  \/ Sample
         \/ now' \in Nat /\ UNCHANGED <<samples, all>>
         \/ samples' = <<>> /\ all' = <<>> /\ UNCHANGED now
         \/ UNCHANGED <<now, samples, all>>
<1>1. CASE Stats!Serving
  <2>1. CASE Stats!Thread
    BY <2>1 DEF Stats!Thread, Stats!Accept, Stats!Read
  <2>2. CASE Stats!Clock
    BY <2>2, StatsAssumption DEF Stats!Clock
  <2>3. CASE \E c \in Clients : Stats!Connect(c)
    BY <2>3 DEF Stats!Connect
  <2>4. CASE Stats!Sample
    <3>1. Sample
      BY <2>4 DEF Stats!Sample, Stats!Recorded, Stats!PruneAt, Stats!Since, Stats!Back,
                  Sample, Recorded, PruneAt, Since, Back
    <3> QED BY <3>1
  <2> QED BY <1>1, <2>1, <2>2, <2>3, <2>4 DEF Stats!Serving, Stats!StatsNext
<1>2. CASE Stats!Operating \/ Stats!Restarting \/ UNCHANGED Stats!vars
  BY <1>2 DEF Stats!Operating, Stats!Restarting, Stats!statsVars, Stats!vars
<1>3. CASE Stats!Starting \/ Stats!Stopping \/ Stats!Vanishing
  BY <1>3 DEF Stats!Starting, Stats!Stopping, Stats!Vanishing, Stats!Bind, Stats!Unbind,
              Stats!Off
<1> QED BY <1>1, <1>2, <1>3 DEF Stats!Next

\* Every step keeps the invariant.
LEMMA StatsStep == StatsInv /\ [Stats!Next]_Stats!vars => StatsInv'
<1> SUFFICES ASSUME StatsInv, [Stats!Next]_Stats!vars PROVE StatsInv'
  OBVIOUS
<1>1. CASE now' \in Nat /\ UNCHANGED <<samples, all>>
  BY <1>1 DEF StatsInv, SamplesType, Lossless, Reached, Survivors, Lasting
<1>2. CASE samples' = <<>> /\ all' = <<>> /\ UNCHANGED now
  <2>1. <<>> \in Seq(Entry)
    OBVIOUS
  <2> QED BY <1>2, <2>1 DEF StatsInv, SamplesType, Lossless, Survivors, Lasting, ToSet
<1>3. CASE UNCHANGED <<now, samples, all>>
  BY <1>3 DEF StatsInv, SamplesType, Lossless, Reached, Survivors, Lasting
<1> QED BY <1>1, <1>2, <1>3, StepKinds, SampleStep DEF StatsInv, SamplesType

\* The invariant holds for ever.
LEMMA StatsInvariance == Stats!Spec => []StatsInv
BY StatsInitHolds, StatsStep, PTL DEF Stats!Spec

\* Each window is over exactly the samples in it that no later one has overtaken by
\* more than the longest window, and, with no sample ahead of the clock, over all.
THEOREM NoSampleIsLost == Stats!Spec => []WindowsComplete
<1>1. StatsInv => WindowsComplete
  <2> SUFFICES ASSUME StatsInv, NEW k \in DOMAIN Spans, NEW from, from = Back(now, Spans[k])
               PROVE  /\ ToSet(Since(samples, from))
                            = {all[i] : i \in {l \in Lasting : all[l].at >= from}}
                      /\ (\A i \in DOMAIN all : all[i].at <= now) =>
                           Window(samples, now, Spans[k]) = Window(all, now, Spans[k])
    BY DEF WindowsComplete
  <2>0. /\ now \in Nat /\ samples \in Seq(Entry) /\ all \in Seq(Entry)
        /\ Horizon \in Nat /\ Spans[k] \in Nat /\ Spans[k] <= Horizon
    BY StatsAssumption DEF StatsInv, SamplesType
  <2>1. from \in Nat
    BY <2>0, BackIsNat
  <2>2. ToSet(Since(samples, from)) = {all[i] : i \in {l \in Lasting : all[l].at >= from}}
    <3>1. ToSet(Since(samples, from)) = {y \in ToSet(samples) : y.at >= from}
      BY <2>0, <2>1, SinceSet
    <3>2. ToSet(samples) = {all[i] : i \in Lasting}
      BY DEF StatsInv, Survivors
    <3> QED BY <3>1, <3>2
  <2>3. ASSUME \A i \in DOMAIN all : all[i].at <= now
        PROVE  Window(samples, now, Spans[k]) = Window(all, now, Spans[k])
    <3>1. ASSUME NEW i \in 1 .. Len(all) PROVE Back(all[i].at, Horizon) <= from
      <4>1. all[i] \in Entry /\ i \in DOMAIN all
        BY <2>0
      <4>2. all[i].at \in Nat /\ all[i].at <= now
        BY <2>3, <4>1 DEF Entry
      <4> QED BY <2>0, <2>1, <4>2, BackIsMonotone
    <3>2. Since(samples, from) = Since(all, from)
      BY <2>1, <3>1 DEF StatsInv, Lossless, Reached
    <3> QED BY <3>2 DEF Window
  <2> QED BY <2>2, <2>3
<1> QED BY <1>1, StatsInvariance, PTL
=============================================================================
