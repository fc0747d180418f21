----------------------- MODULE MissionControllerProofs -----------------------
(***************************************************************************)
(* Proofs about MissionController, for every number of waypoints and       *)
(* however many messages wait: the order of the commands, that the targets *)
(* are written as MissionTargets says, and how long the tasks run.         *)
(***************************************************************************)
EXTENDS MissionController, TLAPS

\* Acknowledgements wait in the queue only if the vehicle has sent them.
QueuedAcksSent == \A i \in DOMAIN rx : rx[i].kind = "ack" => rx[i] \in acks

Flying == {"takeoff", "climb", "lat", "lon", "alt", "fly", "abort_setpoint",
           "abort_heartbeat"}

Landing == {"touchdown", "settle", "done"}

\* What the vehicle has accepted by the time the mission is where it is.
AcceptedSoFar ==
  /\ pc \in {"send", "ack"} /\ cmd = "arm" => "set_mode" \in accepted
  /\ pc \in {"send", "ack"} /\ cmd = "land" => "arm" \in accepted
  /\ pc \in Flying => "arm" \in accepted

CommandInv ==
  TypeOK /\ QueuedAcksSent /\ AcceptedSoFar /\ AcceptedInOrder /\ HoldsUntilArmed

\* A mission that has not begun satisfies the invariant.
LEMMA InitCommandInv == Init => CommandInv
<1> SUFFICES ASSUME Init PROVE CommandInv
  OBVIOUS
<1>1. TypeOK
  <2>1. <<>> \in Seq(Message)
    BY BoundsAssumption
  <2>2. Home \in Target
    BY LegsAssumption DEF Home, Target, Ground
  <2>3. store \in [position : Place \cup {NoPlace}, landed : LandedState]
    BY DEF Init, LandedState
  <2>4. pc \in Location /\ cmd \in Command /\ leg \in 0..Legs /\ running \subseteq Task
    BY LegsAssumption DEF Init, Location, Command, Task
  <2>5. place \in visited /\ visited \subseteq Place /\ sent \subseteq Command
    BY DEF Init, Place
  <2>6. acks = {} /\ confirmed \in BOOLEAN
    BY DEF Init
  <2>7. rx = <<>> /\ target = Home
    BY DEF Init
  <2> QED
    BY <2>1, <2>2, <2>3, <2>4, <2>5, <2>6, <2>7 DEF TypeOK
<1>2. QueuedAcksSent
  BY DEF Init, QueuedAcksSent
<1>3. AcceptedSoFar /\ AcceptedInOrder /\ HoldsUntilArmed
  BY DEF Init, AcceptedSoFar, AcceptedInOrder, HoldsUntilArmed, Flying
<1> QED
  BY <1>1, <1>2, <1>3 DEF CommandInv

\* Taking a message leaves a well-formed queue of sent acknowledgements.
LEMMA TakeMessage ==
  ASSUME TypeOK, QueuedAcksSent, rx # <<>>, rx' = Tail(rx), acks' = acks
  PROVE  /\ rx' \in Seq(Message) /\ QueuedAcksSent'
         /\ Head(rx) \in Message /\ (Head(rx).kind = "ack" => Head(rx) \in acks)
<1>1. rx \in Seq(Message)
  BY DEF TypeOK
<1>2. Tail(rx) \in Seq(Message) /\ Len(Tail(rx)) = Len(rx) - 1 /\ Len(rx) \in Nat
  BY <1>1
<1>3. \A i \in 1..(Len(rx) - 1) : Tail(rx)[i] = rx[i + 1] /\ i + 1 \in DOMAIN rx
  BY <1>1
<1>4. Head(rx) = rx[1] /\ 1 \in DOMAIN rx
  BY <1>1
<1>5. QueuedAcksSent'
  BY <1>2, <1>3 DEF QueuedAcksSent
<1> QED
  BY <1>1, <1>2, <1>4, <1>5, BoundsAssumption DEF QueuedAcksSent

\* Readiness is awaited before anything is sent.
LEMMA AwaitReadyInv == CommandInv /\ AwaitReady => CommandInv'
<1> SUFFICES ASSUME CommandInv, AwaitReady PROVE CommandInv'
  OBVIOUS
<1>1. /\ rx' \in Seq(Message) /\ QueuedAcksSent'
  BY TakeMessage DEF CommandInv, AwaitReady, vehicle
<1>2. /\ UNCHANGED <<cmd, leg, target, acks, place, visited, store, running, sent, confirmed>>
      /\ pc' \in {"ready", "position", "failed"}
  BY DEF AwaitReady, Fail, Goto, control, vehicle
<1>3. TypeOK'
  BY <1>1, <1>2 DEF CommandInv, TypeOK, Location
<1>4. accepted' = accepted
  BY <1>2 DEF accepted
<1>5. AcceptedSoFar' /\ AcceptedInOrder' /\ HoldsUntilArmed'
  BY <1>2, <1>4 DEF CommandInv, AcceptedSoFar, AcceptedInOrder, HoldsUntilArmed, Flying
<1> QED
  BY <1>1, <1>3, <1>5 DEF CommandInv

\* The answer to the command that was sent decides.
LEMMA AwaitAckInv == CommandInv /\ AwaitAck => CommandInv'
<1> SUFFICES ASSUME CommandInv, AwaitAck PROVE CommandInv'
  OBVIOUS
<1>1. /\ rx' \in Seq(Message) /\ QueuedAcksSent'
      /\ Head(rx) \in Message /\ (Head(rx).kind = "ack" => Head(rx) \in acks)
  BY TakeMessage DEF CommandInv, AwaitAck, vehicle
<1>2. UNCHANGED <<leg, target, acks, place, visited, store, running, sent, confirmed>>
  <2>1. cmd \in Command
    BY DEF CommandInv, TypeOK
  <2>2. leg' = leg
    <3>1. AfterAccepted(cmd) => leg' = leg
      BY <2>1 DEF AfterAccepted, Goto, Command
    <3> QED
      BY <3>1 DEF AwaitAck, Fail, Goto, control
  <2> QED
    BY <2>2 DEF AwaitAck, vehicle
<1>3. accepted' = accepted
  BY <1>2 DEF accepted
<1>4. CASE pc' \in {"ack", "failed"} /\ cmd' = cmd
  <2>1. TypeOK'
    BY <1>1, <1>2, <1>4 DEF CommandInv, TypeOK, Location
  <2>2. AcceptedSoFar' /\ AcceptedInOrder' /\ HoldsUntilArmed'
    BY <1>2, <1>3, <1>4
    DEF CommandInv, AcceptedSoFar, AcceptedInOrder, HoldsUntilArmed, Flying, AwaitAck
  <2> QED
    BY <1>1, <2>1, <2>2 DEF CommandInv
<1>5. CASE Head(rx).kind = "ack" /\ Head(rx).command = cmd /\ Head(rx).ok /\ AfterAccepted(cmd)
  <2>1. cmd \in Command
    BY DEF CommandInv, TypeOK
  <2>2. Head(rx) = Ack(cmd, TRUE)
    BY <1>1, <1>5 DEF Message, Ack, Heartbeat, Err
  <2>3. cmd \in accepted
    BY <1>1, <1>5, <2>1, <2>2 DEF accepted
  <2>4. \/ cmd = "set_mode" /\ pc' = "send" /\ cmd' = "arm"
        \/ cmd = "arm" /\ pc' = "takeoff" /\ cmd' = "arm"
        \/ cmd = "land" /\ pc' = "touchdown" /\ cmd' = "land"
    BY <1>5, <2>1 DEF AfterAccepted, Goto, Command
  <2>5. TypeOK'
    BY <1>1, <1>2, <2>4 DEF CommandInv, TypeOK, Location, Command
  <2>6. AcceptedSoFar' /\ AcceptedInOrder' /\ HoldsUntilArmed'
    BY <1>2, <1>3, <2>3, <2>4
    DEF CommandInv, AcceptedSoFar, AcceptedInOrder, HoldsUntilArmed, Flying
  <2> QED
    BY <1>1, <2>5, <2>6 DEF CommandInv
<1> QED
  BY <1>4, <1>5 DEF AwaitAck, Fail, Goto, control

\* A command leaves only after the one before it was accepted.
LEMMA SendCommandInv == CommandInv /\ SendCommand => CommandInv'
<1> SUFFICES ASSUME CommandInv, SendCommand PROVE CommandInv'
  OBVIOUS
<1>1. /\ UNCHANGED <<cmd, leg, rx, store, target, acks, place, visited, running, confirmed>>
      /\ pc = "send" /\ pc' \in {"ack", "failed"} /\ sent' \in {sent, sent \cup {cmd}}
  BY DEF SendCommand, Fail, Goto, vehicle, feed
<1>2. accepted' = accepted
  BY <1>1 DEF accepted
<1>3. TypeOK'
  BY <1>1 DEF CommandInv, TypeOK, Location
<1>4. QueuedAcksSent'
  BY <1>1 DEF CommandInv, QueuedAcksSent
<1>5. AcceptedSoFar' /\ HoldsUntilArmed'
  BY <1>1, <1>2 DEF CommandInv, AcceptedSoFar, HoldsUntilArmed, Flying
<1>6. AcceptedInOrder'
  BY <1>1, <1>2 DEF CommandInv, AcceptedSoFar, AcceptedInOrder
<1> QED
  BY <1>3, <1>4, <1>5, <1>6 DEF CommandInv

\* The steps of the mission itself: where it may go, and which targets it
\* stores, in flight only.
LEMMA MissionStepInv ==
  ASSUME CommandInv,
         \/ AwaitPosition \/ Prestream \/ Takeoff \/ AwaitClimb \/ StoreTarget
         \/ AwaitWaypoint \/ AbortTasks \/ AwaitTouchdown \/ Settle \/ Timeout
  PROVE  CommandInv'
<1> DEFINE Crosses ==
      /\ pc' \in Flying => pc \in Flying
      /\ pc' \in {"send", "ack"} => cmd' = "set_mode" \/ (cmd' = "land" /\ pc \in Flying)
      /\ pc' \in Landing => pc \in Landing
<1>0. pc \in Location /\ cmd \in Command /\ leg \in 0..Legs /\ running \subseteq Task
      /\ confirmed \in BOOLEAN
  BY DEF CommandInv, TypeOK
<1>1. /\ UNCHANGED <<rx, store, acks, place, visited, sent>>
      /\ pc' \in Location /\ cmd' \in Command /\ leg' \in 0..Legs
      /\ confirmed' \in BOOLEAN /\ running' \subseteq Task
      /\ Crosses
  <2>1. UNCHANGED <<rx, store, acks, place, visited, sent>>
    BY DEF AwaitPosition, Prestream, Takeoff, AwaitClimb, StoreTarget, AwaitWaypoint,
           AbortTasks, AwaitTouchdown, Settle, Timeout, vehicle, feed
  <2>2. ASSUME NextLeg, pc \in {"climb", "fly"}
        PROVE  pc' \in Location /\ cmd' \in Command /\ leg' \in 0..Legs /\ Crosses
    BY <1>0, <2>2, LegsAssumption DEF NextLeg, Goto, Location, Flying, Landing
  <2>3. CASE AwaitClimb \/ AwaitWaypoint \/ (Timeout /\ pc \in {"climb", "fly"})
    BY <1>0, <2>1, <2>2, <2>3 DEF AwaitClimb, AwaitWaypoint, Timeout
  <2>4. CASE Timeout /\ pc \notin {"climb", "fly"}
    BY <1>0, <2>1, <2>4 DEF Timeout, Fail, Goto, Location, Flying, Landing
  <2>5. CASE AwaitPosition \/ Takeoff \/ StoreTarget
    BY <1>0, <2>1, <2>5
    DEF AwaitPosition, Takeoff, StoreTarget, Goto, Location, Flying, Landing, Task
  <2>6. CASE AwaitTouchdown \/ Settle
    BY <1>0, <2>1, <2>6 DEF AwaitTouchdown, Settle, Goto, Location, Flying, Landing
  <2>7. CASE Prestream
    <3>1. /\ pc' = "send" /\ cmd' = "set_mode"
          /\ leg' = leg /\ running' = running /\ confirmed' = confirmed
      BY <2>7 DEF Prestream
    <3> QED
      BY <1>0, <2>1, <3>1 DEF Location, Command, Flying, Landing
  <2>8. CASE AbortTasks
    <3>1. running' \subseteq Task /\ leg' = leg /\ confirmed' = confirmed
      BY <1>0, <2>8 DEF AbortTasks, Goto
    <3>2. \/ pc = "abort_setpoint" /\ pc' = "abort_heartbeat" /\ cmd' = cmd
          \/ pc = "abort_heartbeat" /\ pc' = "send" /\ cmd' = "land"
      BY <2>8 DEF AbortTasks, Goto
    <3> QED
      BY <1>0, <2>1, <3>1, <3>2 DEF Location, Command, Flying, Landing
  <2> QED
    BY <2>3, <2>4, <2>5, <2>6, <2>7, <2>8
<1>2. accepted' = accepted
  BY <1>1 DEF accepted
<1>3. target' \in Target /\ (target' # Home => target' = target \/ pc \in Flying)
  <2>1. Home \in Target
    BY LegsAssumption DEF Home, Target, Ground
  <2>2. target \in Target /\ leg \in 0..Legs
    BY DEF CommandInv, TypeOK
  <2>3. CASE AwaitPosition
    BY <2>1, <2>3 DEF AwaitPosition
  <2>4. CASE Takeoff
    BY <2>2, <2>4, LegsAssumption DEF Takeoff, Target, Flying, Climbed
  <2>5. CASE StoreTarget
    <3>1. pc \in {"lat", "lon", "alt"}
      BY <2>5 DEF StoreTarget
    <3>2. target' \in Target
      BY <2>2, <2>5, LegsAssumption DEF StoreTarget, Target
    <3> QED
      BY <3>1, <3>2 DEF Flying
  <2>6. CASE UNCHANGED target
    BY <2>2, <2>6
  <2> QED
    BY <2>3, <2>4, <2>5, <2>6
    DEF Prestream, AwaitClimb, AwaitWaypoint, AbortTasks, AwaitTouchdown, Settle, Timeout
<1>4. TypeOK'
  BY <1>1, <1>3 DEF CommandInv, TypeOK
<1>5. QueuedAcksSent' /\ HoldsUntilArmed'
  BY <1>1, <1>2, <1>3 DEF CommandInv, AcceptedSoFar, QueuedAcksSent, HoldsUntilArmed
<1>6. AcceptedSoFar' /\ AcceptedInOrder'
  BY <1>1, <1>2 DEF CommandInv, AcceptedSoFar, AcceptedInOrder, Landing
<1> QED
  BY <1>4, <1>5, <1>6 DEF CommandInv

\* Messages arrive, and the store is updated.
LEMMA FeedInv == CommandInv /\ Feed => CommandInv'
<1> SUFFICES ASSUME CommandInv, Feed PROVE CommandInv'
  OBVIOUS
<1>1. UNCHANGED <<pc, cmd, leg, target, acks, place, visited, running, sent, confirmed>>
  BY DEF Feed, control, vehicle
<1>2. accepted' = accepted
  BY <1>1 DEF accepted
<1>3. store' \in [position : Place \cup {NoPlace}, landed : LandedState]
  BY DEF Feed, RecordPosition, RecordLandedState, ForwardMessage, CommandInv, TypeOK, LandedState
<1>4. rx' \in Seq(Message) /\ QueuedAcksSent'
  <2>1. rx \in Seq(Message) /\ QueuedAcksSent
    BY DEF CommandInv, TypeOK
  <2>2. CASE UNCHANGED rx
    BY <1>1, <2>1, <2>2 DEF QueuedAcksSent
  <2>3. CASE ForwardMessage
    <3>1. PICK m \in acks \cup {Heartbeat(standby) : standby \in BOOLEAN} \cup {Err} :
            rx' = Append(rx, m)
      BY <2>3 DEF ForwardMessage
    <3>2. \A c \in sent : c \in Command
      BY DEF CommandInv, TypeOK
    <3>3. m \in Message
      BY <3>1, <3>2 DEF CommandInv, TypeOK, Message
    <3>4. m.kind = "ack" => m \in acks
      BY <3>1 DEF Heartbeat, Err
    <3>5. rx' \in Seq(Message) /\ Len(rx') = Len(rx) + 1 /\ Len(rx) < MaxQueue
      BY <2>1, <2>3, <3>1, <3>3 DEF ForwardMessage
    <3>6. \A i \in DOMAIN rx' : rx'[i] = m \/ (i \in DOMAIN rx /\ rx'[i] = rx[i])
      BY <2>1, <3>1, <3>3
    <3>7. QueuedAcksSent'
      BY <1>1, <2>1, <3>4, <3>6 DEF QueuedAcksSent
    <3> QED
      BY <2>1, <3>5, <3>7, BoundsAssumption
  <2> QED
    BY <2>2, <2>3 DEF Feed
<1>5. TypeOK'
  BY <1>1, <1>3, <1>4 DEF CommandInv, TypeOK
<1>6. AcceptedSoFar' /\ AcceptedInOrder' /\ HoldsUntilArmed'
  BY <1>1, <1>2 DEF CommandInv, AcceptedSoFar, AcceptedInOrder, HoldsUntilArmed
<1> QED
  BY <1>4, <1>5, <1>6 DEF CommandInv

\* The vehicle answers and flies; what it has accepted stays accepted.
LEMMA VehicleInv == CommandInv /\ Vehicle => CommandInv'
<1> SUFFICES ASSUME CommandInv, Vehicle PROVE CommandInv'
  OBVIOUS
<1>1. UNCHANGED <<pc, cmd, leg, target, rx, store, running, sent, confirmed>>
  BY DEF Vehicle, control, feed
<1>2. acks' \subseteq {Ack(c, ok) : c \in sent, ok \in BOOLEAN}
  <2>1. acks \subseteq {Ack(c, ok) : c \in sent, ok \in BOOLEAN}
    BY DEF CommandInv, TypeOK
  <2>2. CASE \E c \in Command : Answer(c)
    BY <2>1, <2>2 DEF Answer
  <2>3. CASE Fly
    BY <2>1, <2>3 DEF Fly
  <2> QED
    BY <2>2, <2>3 DEF Vehicle
<1>3. acks \subseteq acks' /\ accepted \subseteq accepted'
  <2>1. acks \subseteq acks'
    BY DEF Vehicle, Answer, Fly
  <2>2. \A c \in Command : Ack(c, TRUE) \in acks => Ack(c, TRUE) \in acks'
    BY <2>1
  <2>3. \A c \in accepted : c \in Command /\ Ack(c, TRUE) \in acks
    BY DEF accepted
  <2>4. \A c \in Command : Ack(c, TRUE) \in acks' => c \in accepted'
    BY DEF accepted
  <2> QED
    BY <2>1, <2>2, <2>3, <2>4
<1>4. place' \in visited' /\ visited' \subseteq Place
  BY DEF CommandInv, TypeOK, Vehicle, Answer, Fly, Place
<1>5. TypeOK'
  BY <1>1, <1>2, <1>4 DEF CommandInv, TypeOK
<1>6. QueuedAcksSent'
  BY <1>1, <1>3 DEF CommandInv, QueuedAcksSent
<1>7. AcceptedSoFar' /\ AcceptedInOrder' /\ HoldsUntilArmed'
  BY <1>1, <1>3 DEF CommandInv, AcceptedSoFar, AcceptedInOrder, HoldsUntilArmed
<1> QED
  BY <1>5, <1>6, <1>7 DEF CommandInv

\* Nothing happens.
LEMMA StutterCommandInv == CommandInv /\ UNCHANGED vars => CommandInv'
<1> SUFFICES ASSUME CommandInv, UNCHANGED vars PROVE CommandInv'
  OBVIOUS
<1>1. UNCHANGED <<pc, cmd, leg, rx, store, target, running, sent, acks, place, visited,
                  confirmed>>
  BY DEF vars, control, vehicle, feed
<1>2. accepted' = accepted
  BY <1>1 DEF accepted
<1>3. TypeOK' /\ QueuedAcksSent'
  BY <1>1 DEF CommandInv, TypeOK, QueuedAcksSent
<1>4. AcceptedSoFar' /\ AcceptedInOrder' /\ HoldsUntilArmed'
  BY <1>1, <1>2 DEF CommandInv, AcceptedSoFar, AcceptedInOrder, HoldsUntilArmed
<1> QED
  BY <1>3, <1>4 DEF CommandInv

\* The invariant holds throughout every mission.
THEOREM CommandInvariance == Spec => []CommandInv
<1>1. CommandInv /\ [Next]_vars => CommandInv'
  BY AwaitReadyInv, AwaitAckInv, SendCommandInv, MissionStepInv, FeedInv, VehicleInv,
     StutterCommandInv
  DEF Next, Progress
<1> QED
  BY InitCommandInv, <1>1, PTL DEF Spec

\* The mission's state is well typed, for every number of waypoints.
THEOREM TypeCorrect == Spec => []TypeOK
<1>1. CommandInv => TypeOK
  BY DEF CommandInv
<1> QED
  BY CommandInvariance, <1>1, PTL

\* However acknowledgements are lost, repeated or late, each command is sent
\* only after the one before it was accepted (run_mission, wait_for_ack), and
\* there is no target but the place where the vehicle stands before arming is.
THEOREM CommandsInOrderHolds == Spec => []CommandsInOrder
<1>1. CommandInv => CommandsInOrder
  BY DEF CommandInv, CommandsInOrder
<1> QED
  BY CommandInvariance, <1>1, PTL

----------------------------------------------------------------------------
(* The targets are written as MissionTargets says                          *)

Commanding(commands) == pc \in {"send", "ack"} /\ cmd \in commands

\* Nothing has been targeted but the place the vehicle stands at.
Grounded == target = Home

Aimed == target.alt \in 0..Legs

\* When the setpoint task runs, and what it may find, by where the mission is.
StreamInv ==
  /\ pc \in {"ready", "position"} => "setpoint" \notin running /\ Grounded
  /\ pc \in {"prestream", "takeoff"} \/ Commanding({"set_mode", "arm"}) =>
       "setpoint" \in running /\ Grounded
  /\ pc \in {"climb", "lat", "lon", "alt", "fly", "abort_setpoint"} =>
       "setpoint" \in running /\ Aimed
  /\ pc = "abort_setpoint" => leg = Legs
  /\ pc \in {"abort_heartbeat"} \cup Landing \/ Commanding({"land"}) =>
       "setpoint" \notin running /\ Aimed

Streaming == "setpoint" \in running

WriterNextValue ==
  IF pc \in {"lat", "lon", "alt"} THEN pc
  ELSE IF Streaming THEN IF target = Home THEN "climb" ELSE "fly"
  ELSE IF target = Home THEN "start" ELSE "over"

\* A target aimed at is not the place the vehicle stands at.
LEMMA AimedIsNotHome == Aimed => target # Home
BY DEF Aimed, Home, Ground

\* When a mission begins nothing is streamed.
LEMMA InitStreamInv == Init => StreamInv /\ Writer!WriterInit
BY LegsAssumption
DEF Init, StreamInv, Commanding, Grounded, Landing, Writer!WriterInit, Writer!Home, Home,
    Writer!Ground, Ground

\* Where the mission waits and sends it writes nothing.
LEMMA WaitingStep ==
  ASSUME CommandInv, StreamInv, UNCHANGED <<target, running, leg>>,
         \/ pc' = pc /\ cmd' = cmd
         \/ pc' = "failed" /\ pc \notin {"lat", "lon", "alt"}
         \/ pc = "ready" /\ pc' = "position"
         \/ pc = "prestream" /\ pc' = "send" /\ cmd' = "set_mode"
         \/ pc = "send" /\ pc' = "ack" /\ cmd' = cmd
         \/ pc = "ack" /\ cmd = "set_mode" /\ pc' = "send" /\ cmd' = "arm"
         \/ pc = "ack" /\ cmd = "arm" /\ pc' = "takeoff"
         \/ pc = "ack" /\ cmd = "land" /\ pc' = "touchdown"
         \/ pc = "abort_heartbeat" /\ pc' = "send" /\ cmd' = "land"
         \/ pc = "touchdown" /\ pc' = "settle"
         \/ pc = "settle" /\ pc' = "done"
         \/ pc \in {"climb", "fly"} /\ pc' = "abort_setpoint" /\ leg = Legs
  PROVE  StreamInv' /\ UNCHANGED Writer!writer
<1>1. StreamInv'
  BY DEF StreamInv, Commanding, Grounded, Aimed, Landing
<1>2. WriterNextValue' = WriterNextValue
  BY DEF WriterNextValue, Streaming
<1> QED
  BY <1>1, <1>2 DEF Writer!writer, WriterNextValue, Streaming

\* The mission goes on to the next waypoint, or ends the flight.
LEMMA NextLegStep ==
  ASSUME CommandInv, StreamInv, pc \in {"climb", "fly"}, NextLeg, UNCHANGED <<target, running>>
  PROVE  StreamInv' /\ [Writer!WriterNext]_Writer!writer
<1>1. leg \in 0..Legs
  BY DEF CommandInv, TypeOK
<1>2. CASE leg < Legs
  <2>1. pc' = "lat" /\ leg' = leg + 1
    BY <1>2 DEF NextLeg
  <2>2. StreamInv'
    BY <2>1 DEF StreamInv, Commanding, Grounded, Aimed, Landing
  <2>3. WriterNextValue = "fly" /\ WriterNextValue' = "lat"
    BY <2>1, AimedIsNotHome DEF StreamInv, WriterNextValue, Streaming
  <2>4. Writer!NextWaypoint
    BY <1>2, <2>1, <2>3 DEF Writer!NextWaypoint, WriterNextValue, Streaming
  <2> QED
    BY <2>2, <2>4 DEF Writer!WriterNext
<1>3. CASE leg >= Legs
  <2>1. leg = Legs /\ pc' = "abort_setpoint" /\ UNCHANGED <<cmd, leg>>
    BY <1>1, <1>3, LegsAssumption DEF NextLeg, Goto
  <2> QED
    BY <2>1, WaitingStep
<1> QED
  BY <1>1, <1>2, <1>3, LegsAssumption

\* Every step of the mission is a step of the writer, or none.
LEMMA WriterStep ==
  ASSUME CommandInv, StreamInv, [Next]_vars
  PROVE  StreamInv' /\ [Writer!WriterNext]_Writer!writer
<1>1. pc \in Location /\ cmd \in Command /\ leg \in 0..Legs /\ target \in Target
  BY DEF CommandInv, TypeOK
<1>2. CASE AwaitPosition
  <2>1. /\ pc = "position" /\ pc' = "prestream" /\ target' = Home /\ UNCHANGED leg
        /\ Streaming' /\ ~Streaming /\ target = Home
    BY <1>2 DEF AwaitPosition, Goto, StreamInv, Streaming, Grounded
  <2>2. StreamInv'
    BY <2>1 DEF StreamInv, Commanding, Grounded, Aimed, Landing, Streaming
  <2>3. WriterNextValue = "start" /\ WriterNextValue' = "climb"
    BY <2>1 DEF WriterNextValue
  <2>4. Writer!StartStream
    BY <2>1, <2>3
    DEF Writer!StartStream, WriterNextValue, Streaming, Home, Writer!Home, Ground,
        Writer!Ground
  <2> QED
    BY <2>2, <2>4 DEF Writer!WriterNext
<1>3. CASE Takeoff
  <2>1. /\ pc = "takeoff" /\ pc' = "climb" /\ target' = [target EXCEPT !.alt = Climbed]
        /\ UNCHANGED <<leg, running>> /\ Streaming /\ target = Home
    BY <1>3 DEF Takeoff, Goto, StreamInv, Streaming, Grounded
  <2>2. Aimed'
    BY <1>1, <2>1, LegsAssumption DEF Aimed, Target, Climbed
  <2>3. StreamInv'
    BY <2>1, <2>2 DEF StreamInv, Commanding, Grounded, Landing, Streaming
  <2>4. target' # Home
    BY <2>2 DEF Aimed, Home, Ground
  <2>5. WriterNextValue = "climb" /\ WriterNextValue' = "fly"
    BY <2>1, <2>4 DEF WriterNextValue, Streaming
  <2>6. Writer!ClimbTarget
    BY <2>1, <2>5
    DEF Writer!ClimbTarget, WriterNextValue, Streaming, Home, Writer!Home, Ground,
        Writer!Ground, Climbed, Writer!Climbed
  <2> QED
    BY <2>3, <2>6 DEF Writer!WriterNext
<1>4. CASE StoreTarget
  <2>1. /\ UNCHANGED <<leg, running>> /\ Streaming /\ Aimed
        /\ \/ pc = "lat" /\ pc' = "lon" /\ target' = [target EXCEPT !.lat = leg]
           \/ pc = "lon" /\ pc' = "alt" /\ target' = [target EXCEPT !.lon = leg]
           \/ pc = "alt" /\ pc' = "fly" /\ target' = [target EXCEPT !.alt = leg]
    BY <1>4 DEF StoreTarget, Goto, StreamInv, Streaming
  <2>2. Aimed'
    BY <1>1, <2>1 DEF Aimed, Target
  <2>3. StreamInv'
    BY <2>1, <2>2 DEF StreamInv, Commanding, Grounded, Landing, Streaming
  <2>4. target' # Home
    BY <2>2 DEF Aimed, Home, Ground
  <2>5. WriterNextValue = pc /\ WriterNextValue' = pc'
    BY <2>1, <2>4 DEF WriterNextValue, Streaming
  <2>6. Writer!StoreCoordinate
    BY <2>1, <2>5 DEF Writer!StoreCoordinate, WriterNextValue, Streaming
  <2> QED
    BY <2>3, <2>6 DEF Writer!WriterNext
<1>5. CASE AbortTasks /\ pc = "abort_setpoint"
  <2>1. /\ pc = "abort_setpoint" /\ pc' = "abort_heartbeat" /\ leg = Legs
        /\ UNCHANGED <<leg, target>> /\ Streaming /\ ~Streaming' /\ Aimed /\ Aimed'
    BY <1>5 DEF AbortTasks, Goto, StreamInv, Streaming, Aimed
  <2>2. StreamInv'
    BY <2>1 DEF StreamInv, Commanding, Grounded, Landing, Streaming
  <2>3. target # Home /\ target' # Home
    BY <2>1, AimedIsNotHome
  <2>4. WriterNextValue = "fly" /\ WriterNextValue' = "over"
    BY <2>1, <2>3 DEF WriterNextValue
  <2>5. Writer!AbortStream
    BY <2>1, <2>4 DEF Writer!AbortStream, WriterNextValue, Streaming
  <2> QED
    BY <2>2, <2>5 DEF Writer!WriterNext
<1>6. CASE AbortTasks /\ pc = "abort_heartbeat"
  <2>1. /\ pc' = "send" /\ cmd' = "land" /\ UNCHANGED <<leg, target>>
        /\ "setpoint" \notin running /\ "setpoint" \notin running'
    BY <1>6 DEF AbortTasks, Goto, StreamInv
  <2>2. StreamInv'
    BY <1>6, <2>1 DEF StreamInv, Commanding, Grounded, Aimed, Landing
  <2>3. WriterNextValue' = WriterNextValue
    BY <1>6, <2>1 DEF WriterNextValue, Streaming
  <2> QED
    BY <2>1, <2>2, <2>3 DEF Writer!writer, WriterNextValue, Streaming
<1>7. CASE AwaitClimb \/ AwaitWaypoint \/ (Timeout /\ pc \in {"climb", "fly"})
  BY <1>7, NextLegStep DEF AwaitClimb, AwaitWaypoint, Timeout
<1>8. CASE AwaitReady
  BY <1>8, WaitingStep DEF AwaitReady, Fail, Goto, control
<1>9. CASE Prestream \/ SendCommand
  BY <1>9, WaitingStep DEF Prestream, SendCommand, Fail, Goto
<1>10. CASE AwaitAck
  <2>1. AfterAccepted(cmd) =>
          /\ UNCHANGED leg
          /\ \/ cmd = "set_mode" /\ pc' = "send" /\ cmd' = "arm"
             \/ cmd = "arm" /\ pc' = "takeoff"
             \/ cmd = "land" /\ pc' = "touchdown"
    BY <1>1 DEF AfterAccepted, Goto, Command
  <2> QED
    BY <1>10, <2>1, WaitingStep DEF AwaitAck, Fail, Goto, control
<1>11. CASE AwaitTouchdown \/ Settle \/ (Timeout /\ pc \notin {"climb", "fly"})
  BY <1>11, WaitingStep DEF AwaitTouchdown, Settle, Timeout, Fail, Goto
<1>12. CASE Feed \/ Vehicle \/ UNCHANGED vars
  BY <1>12, WaitingStep DEF Feed, Vehicle, vars, control
<1> QED
  BY <1>2, <1>3, <1>4, <1>5, <1>6, <1>7, <1>8, <1>9, <1>10, <1>11, <1>12
  DEF Next, Progress, AbortTasks

\* run_mission writes the three atomics in the order MissionTargets lays down
\* and on which the setpoint stream relies: one coordinate after the other,
\* waypoint after waypoint, and never after the abort.
THEOREM Refinement == Spec => WritesTargetsInOrder
<1>1. StreamInv /\ CommandInv /\ [Next]_vars => StreamInv' /\ [Writer!WriterNext]_Writer!writer
  BY WriterStep
<1> QED
  BY InitStreamInv, CommandInvariance, <1>1, PTL
  DEF Spec, WritesTargetsInOrder, Writer!WriterSpec

----------------------------------------------------------------------------
(* The tasks run as long as the flight                                     *)

\* Nothing has been commanded when the stream starts.
TaskInv ==
  TasksFollowFlight /\ (pc \in {"ready", "position", "prestream"} => cmd = "set_mode")

LEMMA InitTaskInv == Init => TaskInv
BY DEF Init, TaskInv, TasksFollowFlight

\* Where nothing is spawned or aborted, the command is kept or is another of
\* the flight, and the mode switch is sent only while the stream runs.
LEMMA TasksKept ==
  ASSUME TaskInv, UNCHANGED running,
         (cmd' = "land") <=> (cmd = "land"),
         (pc' = "abort_heartbeat") <=> (pc = "abort_heartbeat"),
         sent' = sent \/ "setpoint" \in running,
         pc' \in {"ready", "position", "prestream"} =>
           pc \in {"ready", "position", "prestream"} /\ cmd' = cmd,
         "setpoint" \in running => pc # "abort_heartbeat"
  PROVE  TaskInv'
BY DEF TaskInv, TasksFollowFlight

LEMMA NextTaskInv ==
  ASSUME TaskInv, StreamInv, CommandInv, [Next]_vars
  PROVE  TaskInv'
<1>1. pc \in Location /\ cmd \in Command
  BY DEF CommandInv, TypeOK
<1>2. "setpoint" \in running => pc # "abort_heartbeat"
  BY DEF StreamInv
<1>3. CASE AwaitPosition
  BY <1>3 DEF AwaitPosition, Goto, TaskInv, TasksFollowFlight
<1>4. CASE AbortTasks /\ pc = "abort_setpoint"
  <2>1. "setpoint" \in running /\ cmd # "land" /\ "heartbeat" \in running
    BY <1>4 DEF StreamInv, TaskInv, TasksFollowFlight
  <2> QED
    BY <1>4, <2>1 DEF AbortTasks, Goto, TaskInv, TasksFollowFlight
<1>5. CASE AbortTasks /\ pc = "abort_heartbeat"
  <2>1. "setpoint" \notin running
    BY <1>5 DEF StreamInv
  <2> QED
    BY <1>5, <2>1 DEF AbortTasks, TaskInv, TasksFollowFlight
<1>6. CASE AwaitReady
  BY <1>2, <1>6, TasksKept DEF AwaitReady, Fail, Goto, control
<1>7. CASE Prestream
  BY <1>2, <1>7, TasksKept DEF Prestream, TaskInv
<1>8. CASE SendCommand
  <2>1. cmd = "land" => "setpoint" \notin running
    BY <1>8 DEF SendCommand, StreamInv, Commanding
  <2>2. cmd # "land" => "setpoint" \in running
    BY <1>1, <1>8 DEF SendCommand, StreamInv, Commanding, Command
  <2>3. UNCHANGED <<running, cmd>> /\ pc' \in {"ack", "failed"} /\ pc = "send"
    BY <1>8 DEF SendCommand, Goto, Fail
  <2> QED
    BY <2>1, <2>2, <2>3 DEF TaskInv, TasksFollowFlight
<1>9. CASE AwaitAck
  <2>1. AfterAccepted(cmd) =>
          /\ (cmd' = "land") <=> (cmd = "land")
          /\ pc' \in {"send", "takeoff", "touchdown"}
    BY <1>1 DEF AfterAccepted, Goto, Command
  <2> QED
    BY <1>2, <1>9, <2>1, TasksKept DEF AwaitAck, Fail, Goto, control
<1>10. CASE Takeoff \/ StoreTarget
  BY <1>2, <1>10, TasksKept DEF Takeoff, StoreTarget, Goto
<1>11. CASE AwaitClimb \/ AwaitWaypoint \/ Timeout \/ AwaitTouchdown \/ Settle
  <2>1. NextLeg => UNCHANGED cmd /\ pc' \in {"lat", "abort_setpoint"}
    BY DEF NextLeg, Goto
  <2> QED
    BY <1>2, <1>11, <2>1, TasksKept
    DEF AwaitClimb, AwaitWaypoint, Timeout, AwaitTouchdown, Settle, Fail, Goto
<1>12. CASE Feed \/ Vehicle \/ UNCHANGED vars
  BY <1>2, <1>12, TasksKept DEF Feed, Vehicle, vars, control
<1> QED
  BY <1>3, <1>4, <1>5, <1>6, <1>7, <1>8, <1>9, <1>10, <1>11, <1>12
  DEF Next, Progress, AbortTasks

\* However a mission ends, both of its tasks run from the mode switch until
\* they are aborted, and neither runs when the landing is commanded.
THEOREM TasksFollowFlightHolds == Spec => []TasksFollowFlight
<1>1. /\ TaskInv /\ StreamInv /\ CommandInv /\ [Next]_vars => TaskInv' /\ StreamInv'
      /\ TaskInv => TasksFollowFlight
  BY NextTaskInv, WriterStep DEF TaskInv
<1> QED
  BY InitTaskInv, InitStreamInv, CommandInvariance, <1>1, PTL DEF Spec

=============================================================================
