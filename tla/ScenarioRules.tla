---------------------------- MODULE ScenarioRules ----------------------------
(***************************************************************************)
(* What ScenarioFile::validate accepts                                     *)
(* (crates/px4-harness-core/src/scenario.rs).  Rates, seconds and metres   *)
(* are integers in units of 1/Unit, angles are whole degrees; text is left *)
(* out.  Numbers are finite here: TOML's nan would pass each "less or      *)
(* greater" test below, and fail the two tests of a coordinate.            *)
(***************************************************************************)
EXTENDS Integers, Sequences

CONSTANT Unit   \* the number 1.0

ASSUME UnitAssumption == Unit \in Nat \ {0}

FaultProfile ==
  [delay_ms : Nat, jitter_ms : Nat, loss_rate : Int, burst_loss_length : Nat,
   duplicate_rate : Int, replay_stale_ms : Nat]

IsRate(rate) == ~(rate < 0 \/ rate > Unit)

ValidProfile(profile) == IsRate(profile.loss_rate) /\ IsRate(profile.duplicate_rate)

ValidPhase(phase) ==
  phase.after_secs >= 0 /\ phase.duration_secs > 0 /\ ValidProfile(phase.profile)

ValidMission(mission) ==
  /\ mission.waypoints # <<>> /\ mission.takeoff_altitude > 0
  /\ \A i \in DOMAIN mission.waypoints :
       LET wp == mission.waypoints[i]
       IN  /\ wp.acceptance_radius > 0
           /\ wp.latitude \in -90..90 /\ wp.longitude \in -180..180

\* Neither id nor port twice among the same kind of ids or ports.
ValidVehicles(vehicles) ==
  /\ \A i \in DOMAIN vehicles : vehicles[i].system_id \notin {0, 255}
  /\ \A i, j \in DOMAIN vehicles :
       i # j => /\ vehicles[i].system_id # vehicles[j].system_id
                /\ vehicles[i].px4_port # vehicles[j].px4_port
                /\ vehicles[i].proxy_port # vehicles[j].proxy_port

validate(scenario) ==
  /\ ValidProfile(scenario.faults)
  /\ \A i \in DOMAIN scenario.fault_phases : ValidPhase(scenario.fault_phases[i])
  /\ ValidMission(scenario.mission)
  /\ ValidVehicles(scenario.vehicles)
============================================================================
