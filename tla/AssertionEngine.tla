--------------------------- MODULE AssertionEngine ---------------------------
(***************************************************************************)
(* The checks of crates/px4-harness-core/src/assertion/engine.rs, as       *)
(* operators on a telemetry store (telemetry/store.rs).                    *)
(*                                                                         *)
(* Only comparisons against limits matter to a verdict, so a place is a    *)
(* point on a line, with Distance for the haversine distance; altitude,    *)
(* speed and tilt (the angle computed from roll and pitch) are integers.   *)
(* A result's name and reason are left out.                                *)
(***************************************************************************)
EXTENDS Integers, Sequences

CONSTANT NoTime   \* Option::None for a duration

ASSUME NoTimeAssumption == NoTime \notin Nat

Position == [time : Nat, place : Int, alt : Int, speed : Nat]

Attitude == [time : Nat, tilt : Nat]

Status == [time : Nat, armed : BOOLEAN]

\* A store was created at "start", the mission_start of the code.
Store == [start : Nat, positions : Seq(Position), attitudes : Seq(Attitude),
          statuses : Seq(Status)]

Waypoint == [place : Int, radius : Nat]

AssertionResult == [passed : BOOLEAN, elapsed : Nat \cup {NoTime}]

Failed == [passed |-> FALSE, elapsed |-> NoTime]

\* A limit that was never exceeded has no time of its own.
Held == [passed |-> TRUE, elapsed |-> NoTime]

Distance(a, b) == IF a < b THEN b - a ELSE a - b

\* duration_since gives zero for a time that has not come yet.
Elapsed(start, time) == IF start < time THEN time - start ELSE 0

\* Mutant of Visited: the last instant of the window is left out.
VisitedExclusive(samples, start, timeout) ==
  {i \in DOMAIN samples : \A j \in 1..i : Elapsed(start, samples[j].time) < timeout}

\* The samples a check looks at: it breaks off at the first late one.
Visited(samples, start, timeout) ==
  {i \in DOMAIN samples : \A j \in 1..i : Elapsed(start, samples[j].time) <= timeout}

First(S) == CHOOSE i \in S : \A j \in S : i <= j

\* Mutant of ReachedAt: the condition must hold of the newest sample.
ReachedAtLast(samples, start, hits) ==
  IF Len(samples) \notin hits THEN Failed
  ELSE [passed |-> TRUE, elapsed |-> Elapsed(start, samples[Len(samples)].time)]

\* Passed at the first sample that meets the condition, failed without one.
ReachedAt(samples, start, hits) ==
  IF hits = {} THEN Failed
  ELSE [passed |-> TRUE, elapsed |-> Elapsed(start, samples[First(hits)].time)]

HeldUnless(broken) == IF broken THEN Failed ELSE Held

Near(position, waypoint) == Distance(position.place, waypoint.place) < waypoint.radius

check_waypoint_reached(store, waypoint, timeout) ==
  ReachedAt(store.positions, store.start,
    {i \in Visited(store.positions, store.start, timeout) :
       Near(store.positions[i], waypoint)})

check_altitude_reached(store, altitude, tolerance, timeout) ==
  ReachedAt(store.positions, store.start,
    {i \in Visited(store.positions, store.start, timeout) :
       Distance(store.positions[i].alt, altitude) <= tolerance})

\* Armed at some time, then disarmed.
check_landed(store, timeout) ==
  ReachedAt(store.statuses, store.start,
    {i \in Visited(store.statuses, store.start, timeout) :
       ~store.statuses[i].armed /\ \E j \in 1..i : store.statuses[j].armed})

\* From the first sample near one waypoint to the first, among those not older,
\* near the other.  No window: the whole store counts.
check_segment_timing(store, from_wp, to_wp, max_duration) ==
  LET P     == store.positions
      froms == {i \in DOMAIN P : Near(P[i], from_wp)}
      left  == P[First(froms)].time
      tos   == {i \in DOMAIN P : P[i].time >= left /\ Near(P[i], to_wp)}
  IN  IF froms = {} \/ tos = {} THEN Failed
      ELSE IF P[First(tos)].time - left > max_duration THEN Failed
      ELSE ReachedAt(P, store.start, tos)

check_geofence(store, waypoints, max_altitude, max_distance, timeout) ==
  HeldUnless(\E i \in Visited(store.positions, store.start, timeout) :
    \/ store.positions[i].alt > max_altitude
    \/ /\ waypoints # <<>>
       /\ \A w \in DOMAIN waypoints :
            Distance(store.positions[i].place, waypoints[w].place) > max_distance)

\* No attitude at all is a failure; no position is none.
check_max_tilt(store, max_degrees, timeout) ==
  HeldUnless(\/ store.attitudes = <<>>
             \/ \E i \in Visited(store.attitudes, store.start, timeout) :
                  store.attitudes[i].tilt > max_degrees)

check_max_ground_speed(store, max_speed, timeout) ==
  HeldUnless(\E i \in Visited(store.positions, store.start, timeout) :
    store.positions[i].speed > max_speed)

\* evaluate_assertions: one assertion against one store.  An index out of range
\* fails, and so does a separation, which one store says nothing about.
Evaluated(a, waypoints, store) ==
  CASE a.type = "waypoint_reached" ->
         IF a.waypoint \in DOMAIN waypoints
         THEN check_waypoint_reached(store, waypoints[a.waypoint], a.timeout)
         ELSE Failed
    [] a.type = "altitude_reached" ->
         check_altitude_reached(store, a.altitude, a.tolerance, a.timeout)
    [] a.type = "landed" -> check_landed(store, a.timeout)
    [] a.type = "segment_timing" ->
         IF {a.from, a.to} \subseteq DOMAIN waypoints
         THEN check_segment_timing(store, waypoints[a.from], waypoints[a.to], a.max_duration)
         ELSE Failed
    [] a.type = "geofence" ->
         check_geofence(store, waypoints, a.max_altitude, a.max_distance, a.timeout)
    [] a.type = "max_tilt" -> check_max_tilt(store, a.max_degrees, a.timeout)
    [] a.type = "max_ground_speed" -> check_max_ground_speed(store, a.max_speed, a.timeout)
    [] a.type = "min_separation" -> Failed

----------------------------------------------------------------------------
(* check_min_separation, for one pair of stores                            *)

\* Mutant of Nearest: the newest sample, whenever it was taken.
NearestNewest(position, others) == others[Len(others)]

\* The sample nearest in time; of two as near, the one recorded first.
Nearest(position, others) ==
  others[First({i \in DOMAIN others : \A j \in DOMAIN others :
           Distance(others[i].time, position.time)
             <= Distance(others[j].time, position.time)})]

\* The window is that of the first store; a store without positions is skipped.
TooClose(store_a, store_b, a) ==
  /\ store_a.positions # <<>> /\ store_b.positions # <<>>
  /\ \E i \in Visited(store_a.positions, store_a.start, a.timeout) :
       LET p == store_a.positions[i]
       IN  Distance(p.place, Nearest(p, store_b.positions).place) < a.min_distance
============================================================================
