---------------------------- MODULE EndpointList ----------------------------
(***************************************************************************)
(* The ordered pool list of src/src/endpoint.rs: index 0 is the primary.   *)
(* Its state is the current index and last_failback_ms (0: never set);     *)
(* these are its two operations, as functions of that state and the clock. *)
(***************************************************************************)
EXTENDS Naturals

CONSTANT NEndpoints     \* length of the list

ASSUME EndpointAssumption == NEndpoints \in Nat \ {0}

Endpoint == 0 .. NEndpoints - 1

\* Mutant: the index runs off the list.
AdvanceNoWrap(c) == c + 1

\* EndpointList::advance: the next endpoint, wrapping.
Advance(c) == IF NEndpoints > 1 THEN (c + 1) % NEndpoints ELSE c

\* Mutant, the v0.1.9 #2 bug: a clock never started counts from the epoch.
MaybeFailbackFromEpoch(c, stamp, now, interval) ==
  IF c = 0 THEN [cur |-> c, stamp |-> now]
  ELSE IF stamp = 0 \/ now - stamp >= interval THEN [cur |-> 0, stamp |-> now]
  ELSE [cur |-> c, stamp |-> stamp]

\* EndpointList::maybe_failback: on the primary, or on a backup whose clock was
\* never started, stamp the clock; on a backup, return after the interval.
MaybeFailback(c, stamp, now, interval) ==
  IF c = 0 \/ stamp = 0 THEN [cur |-> c, stamp |-> now]
  ELSE IF now - stamp >= interval THEN [cur |-> 0, stamp |-> now]
  ELSE [cur |-> c, stamp |-> stamp]
=============================================================================
