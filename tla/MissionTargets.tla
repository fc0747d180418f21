--------------------------- MODULE MissionTargets ---------------------------
(***************************************************************************)
(* How a mission writes the three atomics target_lat, target_lon and       *)
(* target_alt that the setpoint task reads                                 *)
(* (crates/px4-harness-core/src/mission/controller.rs): the position it    *)
(* stands at, then the takeoff altitude, then the waypoints in order, one  *)
(* coordinate after the other, and never again after the abort.            *)
(* MissionController implements this specification; SetpointStream adds    *)
(* the reader.                                                             *)
(*                                                                         *)
(* A coordinate is the number of the waypoint it comes from.  0 is the     *)
(* takeoff point and its altitude, and -1 the altitude of the ground, so   *)
(* that each coordinate only ever grows.                                   *)
(***************************************************************************)
EXTENDS Integers

CONSTANT Legs   \* number of waypoints in the mission

ASSUME LegsAssumption == Legs \in Nat

VARIABLES
  target,     \* the three atomics
  streaming,  \* the setpoint task has been spawned and not aborted
  leg,        \* the waypoint flown to; 0 before the first
  next        \* the coordinate to store next, or what the mission waits for

writer == <<target, streaming, leg, next>>

Waypoint == 1..Legs
Ground   == -1
Climbed  == 0

Target == [lat : 0..Legs, lon : 0..Legs, alt : -1..Legs]

Home == [lat |-> 0, lon |-> 0, alt |-> Ground]

Whole(w) == [lat |-> w, lon |-> w, alt |-> w]

\* The targets a mission means to set.
Meant == {Home} \cup {Whole(w) : w \in 0..Legs}

WriterTypeOK ==
  /\ target \in Target /\ streaming \in BOOLEAN /\ leg \in 0..Legs
  /\ next \in {"start", "climb", "lat", "lon", "alt", "fly", "over"}

WriterInit ==
  /\ target = Home /\ streaming = FALSE /\ leg = 0 /\ next = "start"

\* The stream starts with the position the vehicle stands at.
StartStream ==
  /\ next = "start"
  /\ target' = Home /\ streaming' = TRUE /\ next' = "climb"
  /\ UNCHANGED leg

ClimbTarget ==
  /\ next = "climb" /\ target = Home
  /\ target' = [target EXCEPT !.alt = Climbed]
  /\ next' = "fly"
  /\ UNCHANGED <<streaming, leg>>

\* A wait is over: on to the next waypoint, if there is one.
NextWaypoint ==
  /\ next = "fly" /\ leg < Legs
  /\ leg' = leg + 1 /\ next' = "lat"
  /\ UNCHANGED <<target, streaming>>

\* The three stores of a waypoint, in program order.
StoreCoordinate ==
  /\ \/ next = "lat" /\ next' = "lon" /\ target' = [target EXCEPT !.lat = leg]
     \/ next = "lon" /\ next' = "alt" /\ target' = [target EXCEPT !.lon = leg]
     \/ next = "alt" /\ next' = "fly" /\ target' = [target EXCEPT !.alt = leg]
  /\ UNCHANGED <<streaming, leg>>

\* Mutants of AbortStream: the handle is dropped, not aborted; the target is
\* reset for the landing.
AbortStreamForgotten ==
  /\ next = "fly" /\ leg = Legs
  /\ next' = "over"
  /\ UNCHANGED <<target, streaming, leg>>

AbortStreamAndReset ==
  /\ next = "fly" /\ leg = Legs
  /\ streaming' = FALSE /\ next' = "over" /\ target' = Home
  /\ UNCHANGED leg

\* setpoint_handle.abort(), after the last waypoint.
AbortStream ==
  /\ next = "fly" /\ leg = Legs
  /\ streaming' = FALSE /\ next' = "over"
  /\ UNCHANGED <<target, leg>>

WriterNext ==
  StartStream \/ ClimbTarget \/ NextWaypoint \/ StoreCoordinate \/ AbortStream

WriterSpec == WriterInit /\ [][WriterNext]_writer
============================================================================
