------------------------------- MODULE Reports -------------------------------
(***************************************************************************)
(* The reports of crates/px4-harness-core/src/report/: what model.rs       *)
(* builds from results and telemetry, and what junit.rs and markdown.rs    *)
(* write of it.  A document is its counts and its elements; layout and     *)
(* text are left out.                                                      *)
(***************************************************************************)
EXTENDS AssertionEngine, FiniteSets, Functions

Passing(results) == {i \in DOMAIN results : results[i].passed}

\* The sum of naturals: one pair for each unit of each.
Sum(f) == Cardinality(UNION {{i} \X (1..f[i]) : i \in DOMAIN f})

\* Mutant of FlightTime: the flight ends only if the vehicle is still disarmed.
FlightTimeToLast(statuses) ==
  LET arms == {i \in DOMAIN statuses : statuses[i].armed}
      n    == Len(statuses)
  IN  IF arms = {} \/ statuses[n].armed THEN NoTime
      ELSE statuses[n].time - statuses[First(arms)].time

\* From the first arming to the first disarming after it.
FlightTime(statuses) ==
  LET arms    == {i \in DOMAIN statuses : statuses[i].armed}
      disarms == {i \in DOMAIN statuses :
                    ~statuses[i].armed /\ \E j \in arms : j < i}
  IN  IF disarms = {} THEN NoTime
      ELSE statuses[First(disarms)].time - statuses[First(arms)].time

\* The greatest distance of a position from its nearest waypoint; None (written
\* NoTime here) without a position or a waypoint.
MaxPathDeviation(positions, waypoints) ==
  LET NearestTo(p) == {d \in {Distance(p.place, w.place) : w \in Range(waypoints)} :
                       \A w \in Range(waypoints) : d <= Distance(p.place, w.place)}
      all         == UNION {NearestTo(p) : p \in Range(positions)}
  IN  IF all = {} THEN NoTime ELSE CHOOSE d \in all : \A e \in all : e <= d

PathLength(positions) ==
  Sum([i \in 1..(Len(positions) - 1) |->
         Distance(positions[i].place, positions[i + 1].place)])

\* Report::build.
Report(store, waypoints, results) ==
  [assertions         |-> results,
   passed             |-> Passing(results) = DOMAIN results,
   total              |-> Len(results),
   passed_count       |-> Cardinality(Passing(results)),
   failed_count       |-> Len(results) - Cardinality(Passing(results)),
   samples            |-> <<Len(store.positions), Len(store.attitudes), Len(store.statuses)>>,
   flight_time        |-> FlightTime(store.statuses),
   path_length        |-> PathLength(store.positions),
   max_path_deviation |-> MaxPathDeviation(store.positions, waypoints)]

\* SuiteReport::build.
SuiteReport(reports) ==
  LET passed == Cardinality({i \in DOMAIN reports : reports[i].passed})
  IN  [scenarios |-> reports, total_scenarios |-> Len(reports),
       passed_scenarios |-> passed, failed_scenarios |-> Len(reports) - passed,
       all_passed |-> passed = Len(reports)]

\* MultiVehicleReport::build.
MultiVehicleReport(reports, inter) ==
  [vehicles |-> reports, inter_vehicle_assertions |-> inter,
   all_passed |-> /\ \A i \in DOMAIN reports : reports[i].passed
                  /\ Passing(inter) = DOMAIN inter]

----------------------------------------------------------------------------
(* JUnit: the root declares counts, each testsuite declares its own and    *)
(* holds one testcase per assertion, with a failure element or without.    *)

Testsuite(tests, failures, assertions) ==
  [tests |-> tests, failures |-> failures,
   cases |-> [i \in DOMAIN assertions |-> assertions[i].passed]]

TestsuiteOf(report) == Testsuite(report.total, report.failed_count, report.assertions)

Testsuites(tests, failures, suites) ==
  [tests |-> tests, failures |-> failures, suites |-> suites]

TotalTests(reports) == Sum([i \in DOMAIN reports |-> reports[i].total])

TotalFailures(reports) == Sum([i \in DOMAIN reports |-> reports[i].failed_count])

\* The only document whose root declares no counts.
render_junit(report) == [suites |-> <<TestsuiteOf(report)>>]

render_suite_junit(report) ==
  Testsuites(TotalTests(report.scenarios), TotalFailures(report.scenarios),
             [i \in DOMAIN report.scenarios |-> TestsuiteOf(report.scenarios[i])])

\* Mutant of render_multi_vehicle_junit: the root forgets what fails between
\* vehicles.
render_multi_vehicle_junit_without_inter(report) ==
  LET inter == report.inter_vehicle_assertions
      own   == [i \in DOMAIN report.vehicles |-> TestsuiteOf(report.vehicles[i])]
  IN  Testsuites(TotalTests(report.vehicles) + Len(inter), TotalFailures(report.vehicles),
        own \o <<Testsuite(Len(inter), Cardinality(DOMAIN inter \ Passing(inter)), inter)>>)

\* One testsuite per vehicle, and one between vehicles if there is anything.
render_multi_vehicle_junit(report) ==
  LET inter    == report.inter_vehicle_assertions
      failures == Cardinality(DOMAIN inter \ Passing(inter))
      own      == [i \in DOMAIN report.vehicles |-> TestsuiteOf(report.vehicles[i])]
  IN  Testsuites(TotalTests(report.vehicles) + Len(inter),
                 TotalFailures(report.vehicles) + failures,
                 IF inter = <<>> THEN own
                 ELSE own \o <<Testsuite(Len(inter), failures, inter)>>)

----------------------------------------------------------------------------
(* Markdown: an overall result and one row per assertion, in sections.     *)

Rows(assertions) == [i \in DOMAIN assertions |-> assertions[i].passed]

Section(report) ==
  [result |-> report.passed, passed |-> report.passed_count,
   failed |-> report.failed_count, rows |-> Rows(report.assertions)]

render_markdown(report) == [result |-> report.passed, sections |-> <<Section(report)>>]

render_suite_markdown(report) ==
  [result |-> report.all_passed,
   sections |-> [i \in DOMAIN report.scenarios |-> Section(report.scenarios[i])]]

render_multi_vehicle_markdown(report) ==
  [result |-> report.all_passed,
   sections |-> [i \in DOMAIN report.vehicles |-> Section(report.vehicles[i])],
   inter |-> Rows(report.inter_vehicle_assertions)]
============================================================================
