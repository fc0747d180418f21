----------------------------- MODULE Evaluation -----------------------------
(***************************************************************************)
(* The end of a run: the assertions are evaluated one by one, the pairs of *)
(* vehicles are compared, the reports are built, and all the while the     *)
(* telemetry processor goes on writing the stores that are read            *)
(* (assertion/engine.rs, report/model.rs, telemetry/processor.rs; for one  *)
(* vehicle run_single_scenario and main of crates/px4-harness/src/main.rs).*)
(*                                                                         *)
(* Each check holds the locks it needs while it reads, so it is one step.  *)
(* Report::build takes the locks of one store one after the other; it is   *)
(* one step all the same, as what each lock guards is used for a part of   *)
(* the report that no property relates to another part.  Nothing in src/   *)
(* drives a fleet: its steps are the calls that                            *)
(* evaluate_multi_vehicle_assertions and                                   *)
(* MultiVehicleReport::build are there for, in the only order their        *)
(* arguments allow.  A fleet is a sequence in the order the hash map lists *)
(* its keys.                                                               *)
(***************************************************************************)
EXTENDS Reports

CONSTANTS
  Cases,      \* scenarios: [multi_vehicle, fleet, messages, assertions], where a
              \* fleet lists the system id each vehicle's messages carry, and
              \* messages is what a vehicle may send
  waypoints,  \* the mission's
  MaxStart,   \* bound: the time at which a vehicle's mission starts
  MaxTime,    \* bound: the clock
  MaxSamples  \* bound: samples of the whole fleet

\* What the processor records.
Message ==
  [type : {"GLOBAL_POSITION_INT"}, place : Int, alt : Int, speed : Nat]
    \cup [type : {"ATTITUDE"}, tilt : Nat]
    \cup [type : {"HEARTBEAT"}, armed : BOOLEAN]

\* Windows are whole seconds, indices count from one, limits are any number.
Assertion ==
  [type : {"waypoint_reached"}, waypoint : Nat, timeout : Nat]
    \cup [type : {"altitude_reached"}, altitude : Int, tolerance : Int, timeout : Nat]
    \cup [type : {"landed"}, timeout : Nat]
    \cup [type : {"segment_timing"}, from : Nat, to : Nat, max_duration : Int]
    \cup [type : {"geofence"}, max_altitude : Int, max_distance : Int, timeout : Nat]
    \cup [type : {"max_tilt"}, max_degrees : Int, timeout : Nat]
    \cup [type : {"max_ground_speed"}, max_speed : Int, timeout : Nat]
    \cup [type : {"min_separation"}, min_distance : Int, timeout : Nat]

ASSUME WaypointsAssumption == waypoints \in Seq(Waypoint)
ASSUME BoundsAssumption == {MaxStart, MaxTime, MaxSamples} \subseteq Nat
ASSUME CasesAssumption ==
  \A case \in Cases :
    /\ case.multi_vehicle \in BOOLEAN
    /\ case.fleet \in Seq(Nat) \ {<<>>}
    /\ case.messages \subseteq Message
    /\ case.assertions \in Seq(Assertion)

VARIABLES
  scenario,  \* the case chosen
  now,       \* the clock
  stores,    \* a telemetry store per vehicle
  pc,        \* what is going on
  results,   \* per vehicle, the results so far
  inter,     \* results between vehicles so far
  checked,   \* assertions gone through for their separations, the last of them
  apart,     \* pairs found apart for the separation being checked
  reports    \* per vehicle, the reports built so far

vars == <<scenario, now, stores, pc, results, inter, checked, apart, reports>>

Vehicles == DOMAIN scenario.fleet

plan == scenario.assertions

is_multi_vehicle == scenario.multi_vehicle

Samples(store) ==
  Len(store.positions) + Len(store.attitudes) + Len(store.statuses)

----------------------------------------------------------------------------
NewStore(start) ==
  [start |-> start, positions |-> <<>>, attitudes |-> <<>>, statuses |-> <<>>]

Init ==
  /\ scenario \in Cases
  /\ now = 0
  /\ \E start \in [Vehicles -> 0..MaxStart] :
       stores = [v \in Vehicles |-> NewStore(start[v])]
  /\ pc = "evaluate"
  /\ results = [v \in Vehicles |-> <<>>]
  /\ inter = <<>> /\ checked = 0 /\ apart = {} /\ reports = <<>>

Tick ==
  /\ now < MaxTime /\ now' = now + 1
  /\ UNCHANGED <<scenario, stores, pc, results, inter, checked, apart, reports>>

\* What a message adds to a store.
Recorded(msg, store) ==
  CASE msg.type = "GLOBAL_POSITION_INT" ->
         [store EXCEPT !.positions = Append(@,
           [time |-> now, place |-> msg.place, alt |-> msg.alt, speed |-> msg.speed])]
    [] msg.type = "ATTITUDE" ->
         [store EXCEPT !.attitudes = Append(@, [time |-> now, tilt |-> msg.tilt])]
    [] msg.type = "HEARTBEAT" ->
         [store EXCEPT !.statuses = Append(@, [time |-> now, armed |-> msg.armed])]

\* Mutant of process_message: the messages of every system are recorded.
process_message_of_any(system_id, msg, store) == Recorded(msg, store)

\* Only the messages of system 1 are recorded, whoever the store is for.
process_message(system_id, msg, store) ==
  IF system_id # 1 THEN store ELSE Recorded(msg, store)

\* The processor of a vehicle takes a message, whatever else is going on.
Record(v) ==
  /\ pc # "done"
  /\ stores[v].start <= now
  /\ Sum([u \in Vehicles |-> Samples(stores[u])]) < MaxSamples
  /\ \E msg \in scenario.messages :
       stores' = [stores EXCEPT ![v] = process_message(scenario.fleet[v], msg, @)]
  /\ UNCHANGED <<scenario, now, pc, results, inter, checked, apart, reports>>

\* Vehicles whose assertions are not all evaluated.
Pending == {v \in Vehicles : Len(results[v]) < Len(plan)}

\* evaluate_assertions, one assertion: the next of the first such vehicle.
EvaluateNext ==
  /\ pc = "evaluate" /\ Pending # {}
  /\ results' = [results EXCEPT ![First(Pending)] =
       Append(@, Evaluated(plan[Len(@) + 1], waypoints, stores[First(Pending)]))]
  /\ UNCHANGED <<scenario, now, stores, pc, inter, checked, apart, reports>>

EndEvaluation ==
  /\ pc = "evaluate" /\ Pending = {}
  /\ pc' = IF is_multi_vehicle THEN "separate" ELSE "report"
  /\ UNCHANGED <<scenario, now, stores, results, inter, checked, apart, reports>>

----------------------------------------------------------------------------
(* evaluate_multi_vehicle_assertions                                       *)

\* The separations among the assertions not yet gone through.
Separations == {i \in DOMAIN plan : i > checked /\ plan[i].type = "min_separation"}

Separation == plan[First(Separations)]

\* The pairs still to be compared, and the one whose turn it is.
PairsLeft == {p \in Vehicles \X Vehicles : p[1] < p[2]} \ apart

NextPair ==
  CHOOSE p \in PairsLeft :
    \A q \in PairsLeft : p[1] < q[1] \/ (p[1] = q[1] /\ p[2] <= q[2])

\* The verdict on a separation, after which the next is gone through.
Separate(result) ==
  /\ inter' = Append(inter, result) /\ checked' = First(Separations) /\ apart' = {}

\* The first pair found too close decides.
ComparePair ==
  /\ pc = "separate" /\ Separations # {} /\ PairsLeft # {}
  /\ IF TooClose(stores[NextPair[1]], stores[NextPair[2]], Separation)
     THEN Separate(Failed)
     ELSE apart' = apart \cup {NextPair} /\ UNCHANGED <<inter, checked>>
  /\ UNCHANGED <<scenario, now, stores, pc, results, reports>>

\* No pair is too close, or there is none.
AllApart ==
  /\ pc = "separate" /\ Separations # {} /\ PairsLeft = {}
  /\ Separate(Held)
  /\ UNCHANGED <<scenario, now, stores, pc, results, reports>>

Separated ==
  /\ pc = "separate" /\ Separations = {}
  /\ pc' = "report"
  /\ UNCHANGED <<scenario, now, stores, results, inter, checked, apart, reports>>

----------------------------------------------------------------------------
\* Report::build reads the stores once more, after the verdicts.
BuildReport ==
  /\ pc = "report"
  /\ reports' = Append(reports,
       Report(stores[Len(reports) + 1], waypoints, results[Len(reports) + 1]))
  /\ pc' = IF Len(reports') = Len(scenario.fleet) THEN "done" ELSE pc
  /\ UNCHANGED <<scenario, now, stores, results, inter, checked, apart>>

Next ==
  \/ Tick \/ \E v \in Vehicles : Record(v)
  \/ EvaluateNext \/ EndEvaluation \/ ComparePair \/ AllApart \/ Separated \/ BuildReport

Spec == Init /\ [][Next]_vars

----------------------------------------------------------------------------
(* What the assertions mean, on what a store holds                         *)

Within(samples, store, a) ==
  {x \in Range(samples) : x.time <= store.start + a.timeout}

Means(a, store) ==
  LET P == store.positions
      S == store.statuses
  IN
  CASE a.type = "waypoint_reached" ->
         /\ a.waypoint \in DOMAIN waypoints
         /\ \E p \in Within(P, store, a) : Near(p, waypoints[a.waypoint])
    [] a.type = "altitude_reached" ->
         \E p \in Within(P, store, a) :
           p.alt \in (a.altitude - a.tolerance)..(a.altitude + a.tolerance)
    [] a.type = "landed" ->
         \E i, j \in DOMAIN S :
           i < j /\ S[i].armed /\ ~S[j].armed /\ S[j] \in Within(S, store, a)
    [] a.type = "segment_timing" ->
         /\ {a.from, a.to} \subseteq DOMAIN waypoints
         /\ \E i, j \in DOMAIN P :
              /\ Near(P[i], waypoints[a.from])
              /\ ~\E k \in 1..(i - 1) : Near(P[k], waypoints[a.from])
              /\ Near(P[j], waypoints[a.to])
              /\ P[j].time \in P[i].time..(P[i].time + a.max_duration)
    [] a.type = "geofence" ->
         \A p \in Within(P, store, a) :
           /\ p.alt <= a.max_altitude
           /\ waypoints = <<>> \/ \E w \in Range(waypoints) :
                Distance(p.place, w.place) <= a.max_distance
    [] a.type = "max_tilt" ->
         /\ store.attitudes # <<>>
         /\ \A x \in Within(store.attitudes, store, a) : x.tilt <= a.max_degrees
    [] a.type = "max_ground_speed" ->
         \A p \in Within(P, store, a) : p.speed <= a.max_speed
    [] a.type = "min_separation" -> FALSE

Reaching == {"waypoint_reached", "altitude_reached", "landed", "segment_timing"}

----------------------------------------------------------------------------
(* Properties                                                              *)

\* The loops, with the break at the first late sample and the early returns,
\* decide what the assertion means: something happened, or never happened,
\* within the window, in all that was recorded when the check was made.
VerdictMatchesMeaning ==
  [][\A v \in Vehicles :
       LET i == Len(results[v]) + 1
       IN  Len(results'[v]) >= i =>
             (results'[v][i].passed <=> Means(plan[i], stores[v]))]_vars

\* Telemetry that arrives while assertions are evaluated can change what a
\* check would answer in one way only: something not yet reached is reached, a
\* limit not yet exceeded is exceeded, or the first attitude ends the failure
\* for want of any.
VerdictsChangeOneWay ==
  [][\A v \in Vehicles, i \in DOMAIN plan :
       LET a      == plan[i]
           before == Evaluated(a, waypoints, stores[v])
           after  == Evaluated(a, waypoints, stores'[v])
       IN  before # after =>
             \/ a.type \in Reaching /\ ~before.passed
             \/ a.type \notin Reaching /\ before.passed
             \/ a.type = "max_tilt" /\ stores[v].attitudes = <<>>]_vars

\* The report is built later than the verdicts, from a store that has grown,
\* and yet backs them: a vehicle that was found landed has a flight time there,
\* and flew no longer than until the landing was found; one that was found
\* outside the fence has the deviation or the altitude to show for it.
ReportBacksVerdicts ==
  \A v \in DOMAIN reports, i \in DOMAIN plan :
    /\ plan[i].type = "landed" /\ results[v][i].passed =>
         /\ reports[v].flight_time # NoTime
         /\ reports[v].flight_time <= results[v][i].elapsed
    /\ plan[i].type = "geofence" /\ ~results[v][i].passed =>
         \/ reports[v].max_path_deviation > plan[i].max_distance
         \/ \E p \in Range(stores[v].positions) : p.alt > plan[i].max_altitude

\* A pair found apart was apart whenever both vehicles were sampled at the
\* same time, within the first one's window.
SeparationPassMeansApart ==
  [][\A p \in apart' \ apart :
       LET A == stores[p[1]]
           B == stores[p[2]]
       IN  \A i \in DOMAIN A.positions, j \in DOMAIN B.positions :
             /\ A.positions[i] \in Within(A.positions, A, Separation)
             /\ B.positions[j].time = A.positions[i].time
             /\ ~\E k \in 1..(j - 1) : B.positions[k].time = A.positions[i].time
             => Distance(A.positions[i].place, B.positions[j].place)
                  >= Separation.min_distance]_vars

\* A separation that involves vehicles of other systems cannot fail, however close
\* they fly: unless two vehicles of the fleet are system 1, no pair has positions
\* of both, a pair without is skipped, and what nothing speaks against holds.
OtherSystemsNeverTooClose ==
  (\A v, w \in Vehicles : scenario.fleet[v] = 1 /\ scenario.fleet[w] = 1 => v = w)
    => \A i \in DOMAIN inter : inter[i].passed

\* A JUnit testsuite declares as many tests and failures as it has cases.
DeclaresItsCases(suite) ==
  /\ suite.tests = Len(suite.cases)
  /\ suite.failures = Cardinality({i \in DOMAIN suite.cases : ~suite.cases[i]})

RootAddsUp(doc) ==
  /\ doc.tests = Sum([i \in DOMAIN doc.suites |-> doc.suites[i].tests])
  /\ doc.failures = Sum([i \in DOMAIN doc.suites |-> doc.suites[i].failures])

NoFailures(doc) == \A i \in DOMAIN doc.suites : doc.suites[i].failures = 0

NoFailedRow(doc) ==
  \A i \in DOMAIN doc.sections : doc.sections[i].failed = 0 /\ FALSE \notin Range(doc.sections[i].rows)

Agree(passed, junit, markdown) ==
  /\ \A i \in DOMAIN junit.suites : DeclaresItsCases(junit.suites[i])
  /\ passed = NoFailures(junit) /\ passed = markdown.result

\* The documents written of one run tell the same story: what JUnit counts is
\* what it lists, and the overall result is the same in all of them, for one
\* scenario, for a suite and for a fleet.
DocumentsAgree ==
  pc = "done" =>
    /\ \A v \in DOMAIN reports :
         LET md == render_markdown(reports[v])
         IN  /\ Agree(reports[v].passed, render_junit(reports[v]), md)
             /\ NoFailedRow(md) = md.result
    /\ LET report == SuiteReport(reports)
           junit  == render_suite_junit(report)
           md     == render_suite_markdown(report)
       IN  Agree(report.all_passed, junit, md) /\ RootAddsUp(junit)
             /\ NoFailedRow(md) = md.result
    /\ LET report == MultiVehicleReport(reports, inter)
           junit  == render_multi_vehicle_junit(report)
           md     == render_multi_vehicle_markdown(report)
       IN  Agree(report.all_passed, junit, md) /\ RootAddsUp(junit)
             /\ (NoFailedRow(md) /\ FALSE \notin Range(md.inter)) = md.result

\* A store whose positions have distinct times, none of them late.
InTime(store, a) ==
  /\ Cardinality({p.time : p \in Range(store.positions)}) = Len(store.positions)
  /\ Within(store.positions, store, a) = Range(store.positions)

\* The comment "Check that all vehicle pairs maintained at least
\* `min_distance_m` separation at all times": a pair found apart is apart
\* whichever of the two comes first.  The loop looks at the first vehicle's
\* samples only, and the hash map says who is first.  (Asked only where no
\* vehicle has a late position, or two of the same time.)
SeparationIsMutual ==
  [][\A p \in apart' \ apart :
       InTime(stores[p[1]], Separation) /\ InTime(stores[p[2]], Separation) =>
         ~TooClose(stores[p[2]], stores[p[1]], Separation)]_vars
============================================================================
