--------------------------- MODULE SetpointStream ---------------------------
(***************************************************************************)
(* The setpoint task of run_mission beside the mission that writes its     *)
(* targets (crates/px4-harness-core/src/mission/controller.rs).  The task  *)
(* loads three atomics, sends a setpoint and sleeps, for ever; an abort    *)
(* takes effect at its only await, the sleep.                              *)
(*                                                                         *)
(* The accesses are Ordering::Relaxed: a load returns any value its atomic *)
(* has held since the task last loaded it, whatever the task has seen of   *)
(* the other two.                                                          *)
(***************************************************************************)
EXTENDS MissionTargets

VARIABLES
  step,       \* what the task does next
  loaded,     \* the coordinates it has loaded last
  setpoint,   \* the last setpoint sent
  late        \* history: setpoints sent after the abort

task == <<step, loaded, setpoint, late>>

vars == <<writer, task>>

NoSetpoint == [lat |-> 0, lon |-> 0, alt |-> -2]

\* Types of the task; the writer's are in MissionTargets.
TypeOK ==
  /\ WriterTypeOK
  /\ step \in {"off", "await", "lat", "lon", "alt", "send"}
  /\ loaded \in Target
  /\ setpoint \in Target \cup {NoSetpoint}
  /\ late \in Nat

Init ==
  /\ WriterInit
  /\ step = "off" /\ loaded = Home /\ setpoint = NoSetpoint /\ late = 0

\* The mission; spawning the task makes it runnable.
Mission ==
  \/ StartStream /\ step' = "await" /\ UNCHANGED <<loaded, setpoint, late>>
  \/ /\ ClimbTarget \/ NextWaypoint \/ StoreCoordinate \/ AbortStream
     /\ UNCHANGED task

After == [lat |-> "lon", lon |-> "alt", alt |-> "send"]

\* What a relaxed load of coordinate c may return.
Visible(c) == (loaded[c]..target[c]) \cup {target[c]}

\* Mutant of Load: the altitude is loaded once, before the loop.
LoadHoisted(c, v) ==
  /\ step = c
  /\ loaded' = IF c = "alt" /\ setpoint # NoSetpoint
               THEN loaded ELSE [loaded EXCEPT ![c] = v]
  /\ step' = After[c]
  /\ UNCHANGED <<writer, setpoint, late>>

\* A relaxed load of coordinate c that returns value v.
Load(c, v) ==
  /\ step = c
  /\ loaded' = [loaded EXCEPT ![c] = v]
  /\ step' = After[c]
  /\ UNCHANGED <<writer, setpoint, late>>

Transmit ==
  /\ step = "send"
  /\ setpoint' = loaded
  /\ late' = IF streaming THEN late ELSE late + 1
  /\ step' = "await"
  /\ UNCHANGED <<writer, loaded>>

\* Mutant of Wake: the loop goes on after the abort.
WakeUnaware ==
  /\ step = "await"
  /\ step' = "lat"
  /\ UNCHANGED <<writer, loaded, setpoint, late>>

\* The task is polled at its await: it goes on, or is cancelled.
Wake ==
  /\ step = "await"
  /\ step' = IF streaming THEN "lat" ELSE "off"
  /\ UNCHANGED <<writer, loaded, setpoint, late>>

Stream ==
  \/ \E c \in {"lat", "lon", "alt"} : \E v \in Visible(c) : Load(c, v)
  \/ Transmit
  \/ Wake

Next == Mission \/ Stream

Spec == Init /\ [][Next]_vars

\* The task is polled, the waits of a mission end, and a value stored is seen
\* by the other thread in the end.
FairSpec ==
  /\ Spec
  /\ WF_vars(Stream) /\ WF_vars(StoreCoordinate /\ UNCHANGED task)
  /\ \A c \in {"lat", "lon", "alt"} : SF_vars(Load(c, target[c]))

----------------------------------------------------------------------------
(* Properties                                                              *)

\* Aborting the task does not stop the iteration it is in, but at most that
\* one setpoint still leaves, even while LAND is being sent.
AtMostOneLateSetpoint == late <= 1

\* A torn setpoint mixes waypoints, but each of its coordinates is one the
\* mission has stored, and the stream never leads back to an earlier one.
NeverLeadsBack ==
  [][ /\ \A c \in {"lat", "lon", "alt"} :
           setpoint'[c] >= setpoint[c] /\ setpoint'[c] <= leg
      /\ setpoint' # Home => (target # Home \/ setpoint' = NoSetpoint) ]_setpoint

\* Whatever was torn is repaired: while the mission waits at a target, the
\* setpoint sent becomes that target.
TargetIsStreamed ==
  \A t \in Meant :
    (target = t /\ streaming) ~> (setpoint = t \/ target # t \/ ~streaming)

\* After the abort the task ends.
StreamStops == next = "over" ~> step = "off"
============================================================================
