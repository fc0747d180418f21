-------------------------- MODULE MissionController --------------------------
(***************************************************************************)
(* One mission: MissionController::run_mission                             *)
(* (crates/px4-harness-core/src/mission/controller.rs) with the tasks that *)
(* run beside it: the telemetry processor that feeds the store and then    *)
(* the controller (telemetry/processor.rs).  The setpoint task that reads  *)
(* the targets it stores is in SetpointStream.                             *)
(*                                                                         *)
(* The vehicle and the link are the environment.  Commands may reach the   *)
(* vehicle late, twice or never; acknowledgements may reach the harness so *)
(* too; telemetry reports where the vehicle is, or has been.  The channel  *)
(* from the receive thread to the processor is part of the link: it only   *)
(* delays.  Timeouts and sleeps may end at any moment; what follows is     *)
(* what the code can do at some speed of the vehicle and of the scheduler. *)
(*                                                                         *)
(* wait_for_ack does not look at who answers, so that an acknowledgement   *)
(* by any other system would count.  That only the vehicle answers is an   *)
(* assumption about the network, made by ForwardMessage.                   *)
(***************************************************************************)
EXTENDS Integers, Sequences

CONSTANTS
  Legs,       \* number of waypoints in the mission
  MaxQueue    \* bound: messages waiting for the controller, in a channel
              \* that the code leaves unbounded

ASSUME LegsAssumption == Legs \in Nat
ASSUME BoundsAssumption == MaxQueue \in Nat \ {0}

Command == {"set_mode", "arm", "land"}

\* Where the vehicle is: on the ground, at takeoff height, or at a waypoint.
Waypoint == 1..Legs
Ground   == -1
Climbed  == 0
Place    == {Ground, Climbed} \cup Waypoint
NoPlace  == -2

VARIABLES
  pc,         \* the await or statement run_mission is at
  cmd,        \* the command it is sending or waiting for
  leg,        \* the waypoint it flies to; 0 before the first
  rx,         \* messages forwarded to it and not yet read
  store,      \* the telemetry store: latest position and landed state
  target,     \* the atomics target_lat, target_lon, target_alt
  running,    \* spawned tasks that nobody has aborted
  sent,       \* commands sent to the vehicle
  acks,       \* acknowledgements the vehicle has sent
  place,      \* where the vehicle is
  visited,    \* where it has been
  confirmed   \* history: the landing was confirmed by telemetry

control == <<pc, cmd, leg>>
vehicle == <<acks, place, visited>>
feed    == <<rx, store>>

vars == <<control, target, vehicle, feed, running, sent, confirmed>>

Task == {"heartbeat", "setpoint"}

Location == {"ready", "position", "prestream", "send", "ack", "takeoff", "climb",
             "lat", "lon", "alt", "fly", "abort_setpoint", "abort_heartbeat",
             "touchdown", "settle", "done", "failed"}

\* A target: the waypoint each coordinate comes from (see MissionTargets).
Target == [lat : 0..Legs, lon : 0..Legs, alt : -1..Legs]

Home == [lat |-> 0, lon |-> 0, alt |-> Ground]

Ack(c, ok) == [kind |-> "ack", command |-> c, ok |-> ok]

Heartbeat(standby) == [kind |-> "heartbeat", command |-> "none", ok |-> standby]

Err == [kind |-> "err", command |-> "none", ok |-> FALSE]

Message == {Ack(c, ok) : c \in Command, ok \in BOOLEAN}
             \cup {Heartbeat(standby) : standby \in BOOLEAN} \cup {Err}

\* Commands the vehicle has accepted at least once.
accepted == {c \in Command : Ack(c, TRUE) \in acks}

LandedState == {"undefined", "on_ground", "in_air"}

\* Types; acknowledgements are only of commands sent.
TypeOK ==
  /\ pc \in Location /\ cmd \in Command /\ leg \in 0..Legs
  /\ rx \in Seq(Message)
  /\ store \in [position : Place \cup {NoPlace}, landed : LandedState]
  /\ target \in Target
  /\ running \subseteq Task
  /\ sent \subseteq Command
  /\ acks \subseteq {Ack(c, ok) : c \in sent, ok \in BOOLEAN}
  /\ place \in visited /\ visited \subseteq Place
  /\ confirmed \in BOOLEAN

----------------------------------------------------------------------------
(* run_mission, statement by statement                                     *)

\* The store is new, the processor and the heartbeat task are spawned.
Init ==
  /\ pc = "ready" /\ cmd = "set_mode" /\ leg = 0
  /\ rx = <<>>
  /\ store = [position |-> NoPlace, landed |-> "undefined"]
  /\ target = Home
  /\ running = {"heartbeat"}
  /\ sent = {} /\ acks = {}
  /\ place = Ground /\ visited = {Ground}
  /\ confirmed = FALSE

\* The link and the vehicle matter until run_mission returns.
Watched == pc \notin {"done", "failed"}

Goto(location) == pc' = location /\ UNCHANGED <<cmd, leg>>

Fail == Goto("failed")

\* wait_for_ready takes the next message: a STANDBY heartbeat of any system
\* ends the wait, an error ends the mission, anything else is skipped.
AwaitReady ==
  /\ pc = "ready" /\ rx # <<>>
  /\ rx' = Tail(rx)
  /\ CASE Head(rx).kind = "err" -> Fail
       [] Head(rx).kind = "heartbeat" /\ Head(rx).ok -> Goto("position")
       [] OTHER -> UNCHANGED control
  /\ UNCHANGED <<target, vehicle, store, running, sent, confirmed>>

\* The first position known becomes the first target; the stream starts.
AwaitPosition ==
  /\ pc = "position" /\ store.position # NoPlace
  /\ Goto("prestream")
  /\ target' = Home
  /\ running' = running \cup {"setpoint"}
  /\ UNCHANGED <<vehicle, feed, sent, confirmed>>

\* Two seconds of setpoints, then the mode switch.
Prestream ==
  /\ pc = "prestream"
  /\ pc' = "send" /\ cmd' = "set_mode" /\ UNCHANGED leg
  /\ UNCHANGED <<target, vehicle, feed, running, sent, confirmed>>

\* send_command: the command leaves, or sending fails and ends the mission.
SendCommand ==
  /\ pc = "send"
  /\ \/ Goto("ack") /\ sent' = sent \cup {cmd}
     \/ Fail /\ UNCHANGED sent
  /\ UNCHANGED <<target, vehicle, feed, running, confirmed>>

\* What run_mission does next when the command is accepted.
AfterAccepted(c) ==
  CASE c = "set_mode" -> pc' = "send" /\ cmd' = "arm" /\ UNCHANGED leg
    [] c = "arm"      -> Goto("takeoff")
    [] c = "land"     -> Goto("touchdown")

\* Mutant of AwaitAck: any acknowledgement will do.
AwaitAnyAck ==
  LET m == Head(rx) IN
  /\ pc = "ack" /\ rx # <<>>
  /\ rx' = Tail(rx)
  /\ CASE m.kind = "err" -> Fail
       [] m.kind = "ack" -> IF m.ok THEN AfterAccepted(cmd) ELSE Fail
       [] OTHER -> UNCHANGED control
  /\ UNCHANGED <<target, vehicle, store, running, sent, confirmed>>

\* wait_for_ack takes the next message: the answer to this command decides,
\* an error ends the mission, anything else is skipped.
AwaitAck ==
  LET m == Head(rx) IN
  /\ pc = "ack" /\ rx # <<>>
  /\ rx' = Tail(rx)
  /\ CASE m.kind = "err" -> Fail
       [] m.kind = "ack" /\ m.command = cmd ->
            IF m.ok THEN AfterAccepted(cmd) ELSE Fail
       [] OTHER -> UNCHANGED control
  /\ UNCHANGED <<target, vehicle, store, running, sent, confirmed>>

\* In offboard mode the takeoff is a new target altitude.
Takeoff ==
  /\ pc = "takeoff" /\ Goto("climb")
  /\ target' = [target EXCEPT !.alt = Climbed]
  /\ UNCHANGED <<vehicle, feed, running, sent, confirmed>>

\* Mutant of NextLeg: one waypoint too many.
NextLegOneMore ==
  IF leg <= Legs
  THEN pc' = "lat" /\ leg' = leg + 1 /\ UNCHANGED cmd
  ELSE Goto("abort_setpoint")

\* The next waypoint, or the end of the flight.
NextLeg ==
  IF leg < Legs
  THEN pc' = "lat" /\ leg' = leg + 1 /\ UNCHANGED cmd
  ELSE Goto("abort_setpoint")

\* Telemetry shows the takeoff altitude, or the waypoint, reached: leave the wait.
AwaitClimb ==
  /\ pc = "climb" /\ store.position \in Place \ {Ground}
  /\ NextLeg
  /\ UNCHANGED <<target, vehicle, feed, running, sent, confirmed>>

AwaitWaypoint ==
  /\ pc = "fly" /\ store.position = leg
  /\ NextLeg
  /\ UNCHANGED <<target, vehicle, feed, running, sent, confirmed>>

\* Mutant of StoreTarget: the wait begins before the altitude is stored.
StoreTargetEarly ==
  /\ \/ pc = "lat" /\ Goto("alt") /\ target' = [target EXCEPT !.lat = leg]
     \/ pc = "alt" /\ Goto("fly") /\ target' = [target EXCEPT !.alt = leg]
  /\ UNCHANGED <<vehicle, feed, running, sent, confirmed>>

\* The three stores of a waypoint, one after the other.
StoreTarget ==
  /\ \/ pc = "lat" /\ Goto("lon") /\ target' = [target EXCEPT !.lat = leg]
     \/ pc = "lon" /\ Goto("alt") /\ target' = [target EXCEPT !.lon = leg]
     \/ pc = "alt" /\ Goto("fly") /\ target' = [target EXCEPT !.alt = leg]
  /\ UNCHANGED <<vehicle, feed, running, sent, confirmed>>

\* Mutant of AbortTasks: the heartbeat task is forgotten.
AbortTasksStreamOnly ==
  /\ \/ pc = "abort_setpoint" /\ Goto("abort_heartbeat")
        /\ running' = running \ {"setpoint"}
     \/ pc = "abort_heartbeat" /\ pc' = "send" /\ cmd' = "land" /\ UNCHANGED leg
        /\ UNCHANGED running
  /\ UNCHANGED <<target, vehicle, feed, sent, confirmed>>

AbortTasks ==
  /\ \/ pc = "abort_setpoint" /\ Goto("abort_heartbeat")
        /\ running' = running \ {"setpoint"}
     \/ pc = "abort_heartbeat" /\ pc' = "send" /\ cmd' = "land" /\ UNCHANGED leg
        /\ running' = running \ {"heartbeat"}
  /\ UNCHANGED <<target, vehicle, feed, sent, confirmed>>

\* The landed state in the store says the vehicle is down.
AwaitTouchdown ==
  /\ pc = "touchdown" /\ store.landed = "on_ground"
  /\ Goto("settle")
  /\ confirmed' = TRUE
  /\ UNCHANGED <<target, vehicle, feed, running, sent>>

Settle ==
  /\ pc = "settle" /\ Goto("done")
  /\ UNCHANGED <<target, vehicle, feed, running, sent, confirmed>>

\* Mutant of Timeout: the wait for the landing has none.
TimeoutNotOnLanding ==
  /\ \/ pc \in {"ready", "ack"} /\ Fail
     \/ pc \in {"climb", "fly"} /\ NextLeg
  /\ UNCHANGED <<target, vehicle, feed, running, sent, confirmed>>

\* A wait that times out: fatal for readiness and acknowledgements, ignored
\* for the flight and the landing.  The wait for a position has no timeout.
Timeout ==
  /\ \/ pc \in {"ready", "ack"} /\ Fail
     \/ pc \in {"climb", "fly"} /\ NextLeg
     \/ pc = "touchdown" /\ Goto("settle")
  /\ UNCHANGED <<target, vehicle, feed, running, sent, confirmed>>

Progress ==
  \/ AwaitReady \/ AwaitPosition \/ Prestream \/ SendCommand \/ AwaitAck
  \/ Takeoff \/ AwaitClimb \/ StoreTarget \/ AwaitWaypoint
  \/ AbortTasks \/ AwaitTouchdown \/ Settle

----------------------------------------------------------------------------
(* The telemetry processor updates the store, then forwards the message.   *)
(* Positions and landed states are skipped by every wait, so they are      *)
(* recorded and not queued; what is queued changes nothing that the        *)
(* controller reads of the store.                                          *)

RecordPosition ==
  \E p \in visited : store' = [store EXCEPT !.position = p]

RecordLandedState ==
  \E p \in visited :
    store' = [store EXCEPT !.landed = IF p = Ground THEN "on_ground" ELSE "in_air"]

\* A heartbeat may come from any system and an error from a receive that
\* failed; an acknowledgement is assumed to be the vehicle's.
ForwardMessage ==
  /\ Len(rx) < MaxQueue
  /\ \E m \in acks \cup {Heartbeat(standby) : standby \in BOOLEAN} \cup {Err} :
       rx' = Append(rx, m)
  /\ UNCHANGED store

Feed ==
  /\ Watched
  /\ \/ (RecordPosition \/ RecordLandedState) /\ UNCHANGED rx
     \/ ForwardMessage
  /\ UNCHANGED <<control, target, vehicle, running, sent, confirmed>>

----------------------------------------------------------------------------
(* The vehicle: it accepts or denies every command that reaches it, flies  *)
(* once it has accepted arming, and stays down when it has landed.         *)

Answer(c) ==
  /\ c \in sent
  /\ \E ok \in BOOLEAN : acks' = acks \cup {Ack(c, ok)}
  /\ UNCHANGED <<place, visited>>

Fly ==
  /\ "arm" \in accepted
  /\ \/ place' \in Place \ {Ground} /\ ~("land" \in accepted /\ place = Ground)
     \/ place' = Ground /\ "land" \in accepted
  /\ visited' = visited \cup {place'}
  /\ UNCHANGED acks

Vehicle ==
  /\ Watched
  /\ (\E c \in Command : Answer(c)) \/ Fly
  /\ UNCHANGED <<control, target, feed, running, sent, confirmed>>

----------------------------------------------------------------------------
Next == Progress \/ Timeout \/ Feed \/ Vehicle

Spec == Init /\ [][Next]_vars

\* The runtime runs the mission whenever it can go on, and its timers fire.
FairSpec == Spec /\ WF_vars(Progress) /\ WF_vars(Timeout)

----------------------------------------------------------------------------
(* Properties                                                              *)

AcceptedInOrder ==
  /\ "arm" \in sent => "set_mode" \in accepted
  /\ "land" \in sent => "arm" \in accepted
  /\ pc \in {"touchdown", "settle", "done"} => "land" \in accepted

HoldsUntilArmed == target # Home => "arm" \in accepted

\* Each command is sent only after the vehicle really accepted the one before
\* it, and the mission ends well only after it accepted the landing, whatever
\* late or repeated acknowledgements and skipped messages lie in between.
\* Until it has accepted arming the target holds it where it stands: no
\* waypoint and no altitude is stored before.
CommandsInOrder == AcceptedInOrder /\ HoldsUntilArmed

\* From the mode switch to the landing both tasks run, and run on when an error
\* ends the mission in between: a vehicle that may fly is not left without its
\* stream, nor its caller without the tasks.  The landing is commanded, and
\* whatever becomes of it awaited, with neither.
TasksFollowFlight ==
  /\ "heartbeat" \in running <=> cmd # "land"
  /\ "setpoint" \in running => "heartbeat" \in running
  /\ "set_mode" \in sent =>
       ("setpoint" \in running <=> cmd # "land" /\ pc # "abort_heartbeat")

\* The mission ends, unless no position is ever known: the one wait without a
\* timeout.
MissionEnds == <>(pc \in {"done", "failed"}) \/ <>[](pc = "position")

\* The mission seen as the writer of the targets.
Writer == INSTANCE MissionTargets WITH
  streaming <- "setpoint" \in running,
  next <- IF pc \in {"lat", "lon", "alt"} THEN pc
          ELSE IF "setpoint" \in running
               THEN IF target = Home THEN "climb" ELSE "fly"
               ELSE IF target = Home THEN "start" ELSE "over"

\* The mission writes the targets the way SetpointStream relies on: in order,
\* and not after the abort.
WritesTargetsInOrder == Writer!WriterSpec

\* The comment "Verify landing with telemetry": when the landing is confirmed
\* the vehicle is on the ground.  The landed state in the store may date from
\* before the takeoff.
ConfirmedMeansLanded == confirmed => place = Ground
============================================================================
