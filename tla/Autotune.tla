------------------------------ MODULE Autotune ------------------------------
(***************************************************************************)
(* The pure part of src/src/backends/autotune.rs: the geometries that are  *)
(* tried, the choice of the winner, and the one record of the cache file.  *)
(***************************************************************************)
EXTENDS Naturals, Sequences, SequencesExt

CONSTANTS
  Candidates   \* candidate_geometries(): a sequence of <<blocks, tpb, npt>>

ASSUME CandidatesAssumption == Candidates \in Seq((Nat \ {0}) \X (Nat \ {0}) \X (Nat \ {0}))

NoGeometry == <<0, 0, 0>>

\* A measurement: the rate of a candidate, 0 when it could not be built.
Nothing == [geom |-> NoGeometry, rate |-> 0]
NoncesPerLaunch(g) == g[1] * g[2] * g[3]

\* The strict order of the sweep: the rate, then the tie-breakers.
Key(m) == <<m.rate, NoncesPerLaunch(m.geom), m.geom[1], m.geom[2], m.geom[3]>>
IsBetter(a, b) ==
  LET k == Key(a)
      l == Key(b)
  IN  \E i \in 1 .. 5 : k[i] > l[i] /\ \A j \in 1 .. i - 1 : k[j] = l[j]

\* The loop over the measurements: a zero never wins.
BetterFirst(best, m) == IF m.rate > 0 /\ best = Nothing THEN m ELSE best   \* mutant
Better(best, m) == IF m.rate > 0 /\ (best = Nothing \/ IsBetter(m, best)) THEN m ELSE best
PickBest(measurements) ==
  LET best[i \in 0 .. Len(measurements)] ==
        IF i = 0 THEN Nothing ELSE Better(best[i - 1], measurements[i])
  IN  best[Len(measurements)]

\* The cache file: empty or cut short, or one record.  An unreadable record is
\* no record; one for another index or another card is not used.
NoFile == [card |-> "", index |-> "", geom |-> NoGeometry]
Record(index, card, geom) == [card |-> card, index |-> index, geom |-> geom]
Parses(file) == \A d \in 1 .. 3 : file.geom[d] # 0
\* Mutant: one for any card at the index is used.
CachedForIndex(file, index, card) ==
  IF Parses(file) /\ file.index = index THEN file.geom ELSE NoGeometry
CachedFor(file, index, card) ==
  IF Parses(file) /\ file.index = index /\ file.card = card THEN file.geom ELSE NoGeometry
=============================================================================
