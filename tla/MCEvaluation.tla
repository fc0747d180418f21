---------------------------- MODULE MCEvaluation ----------------------------
(***************************************************************************)
(* Evaluation with every type of assertion, alone or in pairs, for one     *)
(* vehicle, and separation for fleets of one to three.                     *)
(***************************************************************************)
EXTENDS Evaluation

MCwaypoints == <<[place |-> 0, radius |-> 1], [place |-> 3, radius |-> 2]>>

\* Three places to be: at the start, under way and near the second waypoint.
Positions ==
  {[type |-> "GLOBAL_POSITION_INT", place |-> 0, alt |-> 0, speed |-> 1],
   [type |-> "GLOBAL_POSITION_INT", place |-> 1, alt |-> 2, speed |-> 2],
   [type |-> "GLOBAL_POSITION_INT", place |-> 4, alt |-> 3, speed |-> 0]}

Attitudes == {[type |-> "ATTITUDE", tilt |-> t] : t \in {1, 3}}

Heartbeats == {[type |-> "HEARTBEAT", armed |-> b] : b \in BOOLEAN}

SegmentInNoTime == [type |-> "segment_timing", from |-> 1, to |-> 2, max_duration |-> 0]

OnPositions ==
  {[type |-> "waypoint_reached", waypoint |-> w, timeout |-> 1] : w \in {2, 3}}
    \cup {[type |-> "altitude_reached", altitude |-> 3, tolerance |-> 1, timeout |-> 1],
          [type |-> "segment_timing", from |-> 1, to |-> 2, max_duration |-> 1],
          [type |-> "segment_timing", from |-> 1, to |-> 3, max_duration |-> 1],
          SegmentInNoTime,
          [type |-> "geofence", max_altitude |-> 2, max_distance |-> 0, timeout |-> 1],
          [type |-> "max_ground_speed", max_speed |-> 1, timeout |-> 1]}

MaxTilt == [type |-> "max_tilt", max_degrees |-> 2, timeout |-> 1]

Landed == [type |-> "landed", timeout |-> 1]

MinSeparation == [type |-> "min_separation", min_distance |-> 2, timeout |-> 1]

Single(messages, assertions) ==
  [multi_vehicle |-> FALSE, fleet |-> <<1>>, messages |-> messages,
   assertions |-> assertions]

MCCases ==
  {Single(Positions, <<a>>) : a \in OnPositions}
    \cup {Single(Attitudes, <<MaxTilt>>), Single(Heartbeats, <<Landed>>),
          Single(Attitudes \cup Heartbeats, <<Landed, MaxTilt>>)}
    \cup {[multi_vehicle |-> TRUE, fleet |-> fleet,
           messages |-> {m \in Positions : m.place # 1},
           assertions |-> <<MinSeparation>>] :
            fleet \in {<<1>>, <<1, 1>>, <<1, 2>>, <<1, 2, 1>>}}
============================================================================
