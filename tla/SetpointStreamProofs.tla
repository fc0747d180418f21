------------------------ MODULE SetpointStreamProofs ------------------------
(***************************************************************************)
(* Proofs about SetpointStream, for every number of waypoints and every    *)
(* outcome of the relaxed loads: one setpoint at most leaves after the     *)
(* abort, and the stream never leads back.                                 *)
(***************************************************************************)
EXTENDS SetpointStream, TLAPS

Coordinate == {"lat", "lon", "alt"}

StreamTypes ==
  /\ WriterTypeOK
  /\ step \in {"off", "await", "lat", "lon", "alt", "send"}
  /\ loaded \in Target /\ setpoint \in Target \cup {NoSetpoint}
  /\ late \in Nat

\* Before the task is spawned nothing has been loaded or sent.
NotSpawned ==
  next = "start" => /\ ~streaming /\ step = "off" /\ target = Home
                    /\ loaded = Home /\ setpoint = NoSetpoint

\* What was sent is behind what was loaded, which is behind what was stored,
\* which is behind the waypoint flown to.
Behind ==
  \A c \in Coordinate :
    setpoint[c] <= loaded[c] /\ loaded[c] <= target[c] /\ target[c] <= leg

\* A setpoint sent after the abort was the last: the task is at its await, or
\* over.
LateIsLast ==
  \/ late = 0
  \/ late = 1 /\ ~streaming /\ step \in {"await", "off"} /\ next # "start"

StreamInv == StreamTypes /\ NotSpawned /\ Behind /\ LateIsLast

\* No coordinate is behind the position the mission starts at.
LEMMA HomeIsLowest ==
  ASSUME NEW t \in Target
  PROVE  /\ \A c \in Coordinate : t[c] \in Int /\ Home[c] <= t[c]
         /\ (\A c \in Coordinate : t[c] <= Home[c]) => t = Home
BY LegsAssumption DEF Target, Home, Coordinate, Ground

\* A mission that has not begun satisfies the invariant.
LEMMA InitStreamInv == Init => StreamInv
<1> SUFFICES ASSUME Init PROVE StreamInv
  OBVIOUS
<1>1. StreamTypes
  <2>1. Home \in Target
    BY LegsAssumption DEF Target, Home, Ground
  <2>2. leg \in 0..Legs
    BY LegsAssumption DEF Init, WriterInit
  <2> QED
    BY <2>1, <2>2 DEF Init, WriterInit, StreamTypes, WriterTypeOK
<1>2. NotSpawned /\ LateIsLast
  BY DEF Init, WriterInit, NotSpawned, LateIsLast
<1>3. Behind
  BY DEF Init, WriterInit, Behind, Coordinate, Home, Ground, NoSetpoint
<1> QED
  BY <1>1, <1>2, <1>3 DEF StreamInv

\* The mission only ever raises a coordinate, so it leaves the task behind it.
LEMMA MissionKeepsStreamInv == StreamInv /\ Mission => StreamInv'
<1> SUFFICES ASSUME StreamInv, Mission PROVE StreamInv'
  OBVIOUS
<1>1. CASE StartStream /\ step' = "await" /\ UNCHANGED <<loaded, setpoint, late>>
  <2>1. late = 0 /\ target' = target /\ next' = "climb" /\ leg' = leg
    BY <1>1 DEF StreamInv, LateIsLast, NotSpawned, StartStream
  <2>2. StreamTypes'
    BY <1>1, <2>1 DEF StreamInv, StreamTypes, WriterTypeOK, StartStream
  <2> QED
    BY <1>1, <2>1, <2>2 DEF StreamInv, NotSpawned, Behind, LateIsLast
<1>2. CASE /\ ClimbTarget \/ NextWaypoint \/ StoreCoordinate \/ AbortStream
           /\ UNCHANGED task
  <2>1. UNCHANGED <<step, loaded, setpoint, late>> /\ next # "start" /\ next' # "start"
    BY <1>2 DEF ClimbTarget, NextWaypoint, StoreCoordinate, AbortStream, task
  <2>2. StreamTypes'
    <3>1. target \in Target /\ leg \in 0..Legs
      BY DEF StreamInv, StreamTypes, WriterTypeOK
    <3>2. target' \in Target /\ leg' \in 0..Legs
      BY <1>2, <3>1, LegsAssumption DEF Target, ClimbTarget, NextWaypoint, StoreCoordinate,
        AbortStream, Climbed
    <3>3. streaming' \in BOOLEAN /\ next' \in {"lat", "lon", "alt", "fly", "over"}
      BY <1>2 DEF StreamInv, StreamTypes, WriterTypeOK, ClimbTarget, NextWaypoint, StoreCoordinate,
        AbortStream
    <3> QED
      BY <2>1, <3>2, <3>3 DEF StreamInv, StreamTypes, WriterTypeOK
  <2>3. LateIsLast'
    BY <1>2, <2>1 DEF StreamInv, LateIsLast, ClimbTarget, NextWaypoint, StoreCoordinate, AbortStream
  <2>4. leg <= leg' /\ \A c \in Coordinate : target[c] <= target'[c] /\ target'[c] <= leg'
    BY <1>2, LegsAssumption DEF StreamInv, StreamTypes, WriterTypeOK, Target, Behind, Coordinate,
      ClimbTarget, NextWaypoint, StoreCoordinate, AbortStream, Climbed, Home, Ground
  <2>5. Behind'
    <3>1. \A c \in Coordinate : loaded[c] \in Int /\ target[c] \in Int /\ target'[c] \in Int
      BY <2>2, HomeIsLowest DEF StreamInv, StreamTypes, WriterTypeOK
    <3> QED
      BY <2>1, <2>4, <3>1 DEF StreamInv, Behind
  <2> QED
    BY <2>1, <2>2, <2>3, <2>5 DEF StreamInv, NotSpawned
<1> QED
  BY <1>1, <1>2 DEF Mission

\* A load gets a value between the last one it got and the one stored now.
LEMMA LoadKeepsStreamInv ==
  ASSUME StreamInv, NEW c \in Coordinate, NEW v \in Visible(c), Load(c, v)
  PROVE  StreamInv'
<1>1. /\ target[c] \in Int /\ loaded[c] \in Int /\ loaded \in Target /\ target \in Target
      /\ loaded[c] <= target[c]
  BY HomeIsLowest DEF StreamInv, StreamTypes, WriterTypeOK, Behind
<1>2. v \in Int /\ loaded[c] <= v /\ v <= target[c]
  BY <1>1 DEF Visible
<1>3. /\ loaded' = [loaded EXCEPT ![c] = v] /\ step = c /\ step' = After[c]
      /\ UNCHANGED <<target, streaming, leg, next, setpoint, late>>
  BY DEF Load, writer
<1>4. loaded' \in Target
  <2>1. CASE c = "lat"
    <3>1. v \in 0..Legs
      BY <1>1, <1>2, <2>1, LegsAssumption DEF Target
    <3> QED
      BY <1>1, <1>3, <2>1, <3>1 DEF Target
  <2>2. CASE c = "lon"
    <3>1. v \in 0..Legs
      BY <1>1, <1>2, <2>2, LegsAssumption DEF Target
    <3> QED
      BY <1>1, <1>3, <2>2, <3>1 DEF Target
  <2>3. CASE c = "alt"
    <3>1. v \in -1..Legs
      BY <1>1, <1>2, <2>3, LegsAssumption DEF Target
    <3> QED
      BY <1>1, <1>3, <2>3, <3>1 DEF Target
  <2> QED
    BY <2>1, <2>2, <2>3 DEF Coordinate
<1>5. StreamTypes'
  BY <1>3, <1>4 DEF StreamInv, StreamTypes, WriterTypeOK, After, Coordinate
<1>6. NotSpawned' /\ LateIsLast'
  BY <1>3 DEF StreamInv, NotSpawned, LateIsLast, Coordinate
<1>7. Behind'
  <2>1. loaded'[c] = v /\ \A e \in Coordinate \ {c} : loaded'[e] = loaded[e]
    BY <1>1, <1>3 DEF Target, Coordinate
  <2>2. setpoint[c] \in Int
    BY HomeIsLowest DEF StreamInv, StreamTypes, NoSetpoint, Coordinate
  <2> QED
    BY <1>1, <1>2, <1>3, <2>1, <2>2 DEF StreamInv, Behind
<1> QED
  BY <1>5, <1>6, <1>7 DEF StreamInv

\* The setpoint sent is what was loaded; the first after the abort is the last.
LEMMA TransmitKeepsStreamInv == StreamInv /\ Transmit => StreamInv'
<1> SUFFICES ASSUME StreamInv, Transmit PROVE StreamInv'
  OBVIOUS
<1>1. /\ step = "send" /\ step' = "await" /\ setpoint' = loaded
      /\ late' = (IF streaming THEN late ELSE late + 1)
      /\ UNCHANGED <<target, streaming, leg, next, loaded>>
  BY DEF Transmit, writer
<1>2. late = 0
  BY <1>1 DEF StreamInv, LateIsLast
<1>3. StreamTypes'
  BY <1>1, <1>2 DEF StreamInv, StreamTypes, WriterTypeOK
<1>4. NotSpawned' /\ LateIsLast'
  BY <1>1, <1>2 DEF StreamInv, NotSpawned, LateIsLast
<1>5. Behind'
  BY <1>1, HomeIsLowest DEF StreamInv, StreamTypes, Behind
<1> QED
  BY <1>3, <1>4, <1>5 DEF StreamInv

\* A poll moves the task and nothing else.
LEMMA WakeKeepsStreamInv == StreamInv /\ Wake => StreamInv'
<1> SUFFICES ASSUME StreamInv, Wake PROVE StreamInv'
  OBVIOUS
<1>1. /\ step = "await" /\ step' = (IF streaming THEN "lat" ELSE "off")
      /\ UNCHANGED <<target, streaming, leg, next, loaded, setpoint, late>>
  BY DEF Wake, writer
<1> QED
  BY <1>1 DEF StreamInv, StreamTypes, WriterTypeOK, NotSpawned, LateIsLast, Behind

\* The invariant holds in every state of a mission and its stream.
THEOREM StreamInvariance == Spec => []StreamInv
<1>1. StreamInv /\ [Next]_vars => StreamInv'
  <2> SUFFICES ASSUME StreamInv, [Next]_vars PROVE StreamInv'
    OBVIOUS
  <2>1. CASE Stream
    BY <2>1, LoadKeepsStreamInv, TransmitKeepsStreamInv, WakeKeepsStreamInv DEF Stream, Coordinate
  <2>2. CASE UNCHANGED vars
    BY <2>2 DEF vars, writer, task, StreamInv, StreamTypes, WriterTypeOK, NotSpawned, LateIsLast,
      Behind
  <2> QED
    BY <2>1, <2>2, MissionKeepsStreamInv DEF Next
<1> QED
  BY <1>1, InitStreamInv, PTL DEF Spec

\* The atomics, what is loaded and what is sent stay well typed.
THEOREM TypeCorrect == Spec => []TypeOK
<1>1. StreamInv => TypeOK
  BY DEF StreamInv, StreamTypes, TypeOK
<1> QED
  BY <1>1, StreamInvariance, PTL

\* However long the mission, at most one setpoint leaves after the abort.
THEOREM AtMostOneLateSetpointHolds == Spec => []AtMostOneLateSetpoint
<1>1. StreamInv => AtMostOneLateSetpoint
  BY DEF StreamInv, StreamTypes, LateIsLast, AtMostOneLateSetpoint
<1> QED
  BY <1>1, StreamInvariance, PTL

\* Whatever the relaxed loads return, no coordinate of the stream goes back to
\* an earlier waypoint or ahead of the current one.
THEOREM NeverLeadsBackHolds == Spec => NeverLeadsBack
<1> DEFINE Ahead ==
      /\ \A c \in {"lat", "lon", "alt"} :
           setpoint'[c] >= setpoint[c] /\ setpoint'[c] <= leg
      /\ setpoint' # Home => (target # Home \/ setpoint' = NoSetpoint)
<1>1. StreamInv /\ [Next]_vars => [Ahead]_setpoint
  <2> SUFFICES ASSUME StreamInv, [Next]_vars, setpoint' # setpoint PROVE Ahead
    OBVIOUS
  <2>1. setpoint' = loaded
    BY DEF Next, Mission, Stream, Load, Transmit, Wake, StartStream, ClimbTarget, NextWaypoint,
      StoreCoordinate, AbortStream, task, vars
  <2>2. \A c \in Coordinate : /\ setpoint[c] \in Int /\ loaded[c] \in Int /\ target[c] \in Int
                              /\ leg \in Int
                              /\ setpoint[c] <= loaded[c] /\ loaded[c] <= target[c]
                              /\ target[c] <= leg
    BY HomeIsLowest, LegsAssumption DEF StreamInv, StreamTypes, WriterTypeOK, Behind, NoSetpoint,
      Coordinate
  <2>3. loaded # Home => target # Home
    BY <2>2, HomeIsLowest DEF StreamInv, StreamTypes
  <2> QED
    BY <2>1, <2>2, <2>3 DEF Coordinate
<1> QED
  BY <1>1, StreamInvariance, PTL DEF Spec, NeverLeadsBack
============================================================================
