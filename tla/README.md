# Formal models of px4-mission-harness

TLA+ modules, TLC configurations and TLAPS proofs for the harness that flies
missions against PX4 SITL through a fault-injecting UDP proxy. Paths below are
relative to the repository root; `core/` stands for
`crates/px4-harness-core/src/`.

## The system

    PX4 <-> px4_socket [ UDP proxy: two tasks, two fault pipelines ] client_socket
        <-> MAVLink connection -> receive thread -> telemetry processor
        -> mission controller (heartbeat task, setpoint task) -> assertions -> report

| Component | State | Operations | Interacts with |
|---|---|---|---|
| Fault pipeline (`core/fault/pipeline.rs`) | profile, phases, start time, replay buffer, `burst_remaining`, five counters | `with_phases`, `process` | called by a proxy task, under a mutex |
| UDP proxy (`core/proxy/udp_proxy.rs`) | two sockets, two address stores, two pipelines, spawned sends | `start`, the two forwarding loops, `apply_actions` | datagrams with PX4 and the harness; aborted by the runner |
| Mission controller (`core/mission/controller.rs`) | where `run_mission` is, three target atomics, heartbeat and setpoint tasks | commands, waits for acknowledgements, waits on telemetry | channel from the telemetry processor, telemetry store, connection |
| Telemetry (`core/telemetry/`) | sample vectors, landed state | `process_message`, forwarding | channels before and after it; store read by everybody |
| MAVLink connection (`core/mavlink/connection.rs`) | socket, receive thread | `connect`, `recv`, `send`, `start_recv_task` | blocking thread, unbounded channel |
| Runner and suites (`crates/px4-harness/src/main.rs`, `core/suite.rs`) | scenario list, reports, exit code | load, run each scenario, abort the proxy, report, exit | starts and stops everything above |
| Event log (`core/event.rs`) | bounded vector, mutex, start time | `record`, `events`, `len`, `to_json` | any thread |
| Assertion engine (`core/assertion/engine.rs`) | none | eight checks over telemetry, one over pairs of vehicles | reads stores the processor is still writing |
| Generation (`core/generate.rs`) | threshold search bracket | two sweeps, search, fuzz | a library; its caller runs the missions |
| Scenario files (`core/scenario.rs`) | none | parse, validate | input of the runner |
| Reports (`core/report/`) | none | build, render | output of the runner |

What is hard here: the two forwarding tasks and the sends they spawn interleave
freely; a fault profile changes under a running burst; three atomics stand for
one target; aborting a task cancels neither the iteration it is in nor the tasks
whose handles it holds; a blocking thread outlives `main`; every wait races a
timeout, and acknowledgements pile up, repeat and come late. Each such hazard is
listed with its line in `PROJECT.json`.

What makes each component correct:

- pipeline: bursts have the configured length, every packet is counted once, a
  replayed packet is old enough and the oldest available;
- proxy: a datagram link, that opens once both sides were heard and invents
  nothing;
- mission: commands in order and only after real acceptance, targets in order,
  an end on every path;
- setpoint stream: what a torn read and a late abort may do is bounded;
- runner: exit code 0 means that everything ran, passed and was written;
- event log: the newest events, out of order only where calls overlap, and no
  panic of one thread that spreads to others unless the capacity is 0;
- assertions and reports: a verdict says of the telemetry what the assertion
  means, telemetry that comes too late can change it one way only, and verdicts,
  reports and documents agree;
- generation: a search brackets what it looks for whatever is reported, sweeps
  cover their range, and everything generated loads.

## Modules

| Module | Models | Kind |
|---|---|---|
| `FaultStages` | the stages of `process` as operators that return sets of outcomes | operators |
| `FaultPipeline` | one pipeline over time, with the history of its packets | state machine |
| `DatagramLink` | what the proxy promises | abstract specification |
| `UdpProxy` | both forwarding tasks and the spawned sends; implements `DatagramLink` | state machine |
| `MissionTargets` | how a mission writes its three target atomics | abstract specification |
| `SetpointStream` | the setpoint task beside `MissionTargets` | composition |
| `MissionController` | `run_mission` beside vehicle and link; implements `MissionTargets` | state machine |
| `SuiteRunner` | the program: load, run, report, write, shut down | state machine |
| `EventLog` | threads that stamp, lock, append and may panic | state machine |
| `AssertionEngine` | the checks on a store | operators |
| `Reports` | reports, JUnit and Markdown documents built from results and stores | operators |
| `Evaluation` | the end of a run beside the telemetry processor; uses the two above | composition |
| `ScenarioRules` | what `validate` accepts | operators |
| `ThresholdSearch` | the binary search and its caller | state machine |
| `Generation` | sweeps, grids, fuzz and the search; uses the two above | state machine |
| `MCFaultPipeline`, `MCUdpProxy`, `MCEvaluation`, `MCGeneration` | values of the constants | instances |
| `FaultStagesProofs` | lemmas about the stages | proofs |
| `FaultPipelineProofs`, `UdpProxyProofs`, `MissionControllerProofs`, `SetpointStreamProofs`, `EvaluationProofs`, `GenerationProofs` | theorems about the module of that name | proofs |
| `SuiteRunnerProofs` | theorems about `SuiteRunner` and `EventLog` | proofs |

`MissionController` and `SetpointStream` are composed through `MissionTargets`:
the first is checked to implement it (`WritesTargetsInOrder`), the second runs
the reader against it. `MissionTargets` promises nothing about speed, so what is
checked of the stream holds however the mission goes.

### Fault pipeline

`Process` is `FaultPipeline::process` from line 102 to 183: `Heard` counts and
remembers the packet before any stage, a running burst decides first, then the
loss draw, then the delay, duplicate and replay of `Passed`. A draw against a
rate is a choice; what matters of a rate is whether it never, always or
possibly hits, so a rate is one of three values. The clock is read twice, once
for the profile and the time stamp and once for staleness; `Arrive(later)` lets
it move in between. `ActiveProfile` states the result of the stable sort by
start time and the reverse search. Packets are numbered in order of arrival and
`arrivals` records time, fate and burst length of each: it is a history and
influences nothing. The buffer's 100 is the constant `Capacity`.

### Proxy

A task's datagram takes four steps, `Recv`, `Learn`, `Lookup` and `Forwards`,
because the code releases the first mutex before it takes the second. `Forwards`
is `process` and `apply_actions` together: they run without an await, on a
pipeline only this task uses. Each send is a task of its own (`flying`, a bag,
as equal sends may be pending) that ends when its delay is over, with the
datagram delivered or the error ignored. Addresses are stored on every packet,
not only the first as the comments at `udp_proxy.rs:14` and `85` have it; the
instance lets two programs send to PX4's port so that this shows.

The mapping to `DatagramLink`: a side is heard when its address store is not
`None`; `accepted`, `ignored` and `delivered` are histories. So are `stored`, every
address a store ever held, `route`, which of them the task of each accepted packet
read, and `arrived`, where each datagram was sent and for which packet:
`TargetsAreKept` compares the three, so that a send that asks for the address again
when it wakes up would be found out.

### Mission

`pc` is the statement or await of `run_mission`. A timeout may fire at any moment
of its wait (`Timeout`), as may the 60-second waits when the vehicle never
arrives; the wait for the first position has none. Messages come from an
environment that may repeat, delay or lose every acknowledgement the vehicle has
ever sent, and report any place it has ever been; the receive channel is part of
it. `wait_for_ack` does not look at the sender: an answer by another system on the
link would count, and that none answers is assumed. The vehicle accepts or denies every command that reaches it, flies only once
armed and stays down once landed. `running` holds the two spawned tasks until they
are aborted: an error returned before leaves them running (`TasksFollowFlight`). A waypoint is reached when the store shows it;
the acceptance radius is not modelled (a waypoint accepted early, at the wrong
altitude, leads where `Timeout` leads). Positions and landed states are recorded
but not queued, as every wait skips them. Take-off, landing and in-air states
are one value, for nothing but on-ground is compared with.

### Setpoint stream

The loads and stores are `Ordering::Relaxed`: a load returns any value its atomic
has held since the task's last load of it, independently of the other two
(`Visible`). Coordinates are named by the waypoint they come from. The abort
takes effect at the sleep, the only await.

### Runner

`SuiteRunner` has `main` statement by statement, with the failures each may
return. It tracks the tasks of each scenario: the two forwarding tasks, the
wrapper whose handle `start` returns, the telemetry processor, and the receive
thread. A mission is three steps here, `WaitForReady`, `AwaitPosition` and `Fly`, as
the second is a wait without a timeout. tokio is modelled as documented: abort cancels one task, a dropped
handle detaches, and dropping the runtime cancels tasks and waits for blocking
threads. `process::exit`, the path of a failed run, waits for nothing. A path is
where it starts from and a sequence of components, with `Path::join`, because how
a directory is spelt decides whether its scenarios are found. The files asked for
are written one by one in the code's order and any write may fail; a suite has
no event log, and asking for one goes unnoticed.

### Event log

`record` reads the clock before it takes the lock, so a call is two steps,
`Stamp` and `Enter`, between which other threads may take both of theirs.
`Enter` is everything under the lock: `remove(0)` of a full log, which panics on
an empty vector, and the push. A panic poisons the lock and every later `lock().expect`
panics, the readers' (`Read`) too. `appended` is the history of all events in lock
order, and `behind` remembers how much of it was there when an event was stamped.

### Assertions and reports

A store holds the three histories the checks read. Time, altitude, speed and tilt
are integers and places are points of a line: verdicts depend on comparisons with
limits only. The loops of `engine.rs` become sets of indices: `Visited` is where a
loop with its `break` gets to, `ReachedAt` the early return at the first hit.

`Evaluation` has one step for each check, since each holds its lock while it
reads, and between any two the processor (`Record`) may append. `run_mission`
does not stop the processor when it returns, and `Report::build` reads the stores
once more. It locks one history after another but is one step: no property relates
what it takes from one history to what it takes from another. The separations among a scenario's assertions are gone through in their
order; `checked` is the last one done. For fleets nothing in `src/` is the caller, so the model makes the
calls in the order their arguments allow: the vehicles' own assertions, the
pairs, the reports. The order of a `HashMap`'s keys is the order of `fleet`.

`Means` says what each assertion means without loops, indices or early returns;
`VerdictMatchesMeaning` compares the two at each check. A separation among one
vehicle's assertions means nothing and fails, as in the code. A document is the
counts it declares and the elements it holds, one per assertion.

### Generation

Parameter values are integers in units of the rounding error. A sweep's `drift`
is what repeated addition is off by after the first value, which the epsilon of
`generate.rs:59` is for. `apply_param` cuts to integers as the code's casts do.
`random_fuzz` draws in the code's order from one generator, a function `Draw` of
the seed and the number of the draw: a scenario draws only the parameters that have a
range, so what a parameter gets depends on which others do (`Rank`). `ThresholdSearch` is used by callers outside
`src/`: a disciplined one asks, runs, reports (`Ask`, `Report`); a stray report
(`Stray`) comes without a run, as when a report is repeated. Missions pass up to a
limit or are flaky. Whether what comes out would load is asked of
`ScenarioRules`, which has the numeric rules of `validate`.

## Runs

Each run takes about a minute at most with two workers.

| Run | Shows |
|---|---|
| `pipeline` | six properties of the pipeline, under static profiles, a clean phase after a bursty default, overlapping phases listed out of order and phases that start together |
| `proxy` | that the proxy implements `DatagramLink`, accounts for every packet, keeps every send to its address and gets everything done |
| `mission` | the order of commands and targets, how long the tasks run, and that a mission ends |
| `stream` | what torn reads and late aborts cannot do |
| `suite` | what exit code 0 means, that nothing starts unless everything loads, and that a suite never gets past its first scenario, and that a run decides unless it waits for a position |
| `events` | what a log keeps, how far it can be out of order, and when panics spread |
| `evaluation` | that verdicts mean what they say while telemetry arrives, that reports back them and documents agree |
| `generation` | that the bracket agrees with all reports, that a search ends, that sweeps cover and load, and how far a fuzz repeats |
| `phase_burst` | refuted: a phase's faults end with it |
| `stale_landing` | refuted: telemetry verifies the landing |
| `passing_exit` | refuted: a passing run exits with 0 |
| `one_sided_separation` | refuted: all pairs are checked at all times |

The last four state what a comment, a test or the test plan says, and TLC
exhibits a behaviour of the code against it. Other passages that the code
disagrees with show in what a passing property has to say instead: `NeverLeadsBack`
of torn setpoints, `OnlyFirstScenarioRuns` of the ports that are not freed,
`NothingStartsUnlessAllLoad` of relative directories, `ExitZeroMeansAllPassed` of a
suite's event log, `Means` of a separation asked of one vehicle, of a fence
without positions and of a segment that may take no time, `OtherSystemsNeverTooClose`
of vehicles whose telemetry is not recorded, `FlightTime` of a vehicle armed twice, `FuzzRepeats` of recorded seeds, and `Bracket` of flaky
missions. `PROJECT.json` quotes each source.

### Bounds

- Pipeline: five packets, four instants, a buffer of three. A burst of three begun
  under one profile meets two later profiles; the buffer overflows twice, and is
  large enough for its front to be neither the packet processed nor the one
  before;
  packets of age 0 to 3 meet staleness thresholds of 1 and 2. Repeats of these
  add nothing new to the state: `burst_remaining` and the buffer are all a packet
  leaves behind.
- Proxy: two datagrams to the client, one to PX4. It takes one each way for the
  crossing of the first packets and a second for duplicates, replays of an older
  packet and overtaking. No new instant begins after 1 except to end a sleep.
- Mission: two waypoints, two queued messages (the code's channel has no bound).
  An acknowledgement stays in the environment once sent, so a longer queue only
  fixes in advance an order that the environment may choose anyway; two are enough
  for a stale answer to be read ahead of the one waited for. The theorems hold for
  any bound. Two waypoints are the least for a torn
  target between waypoints.
- Stream: three waypoints, so that a reader may lag by more than one.
- Suite: two scenarios, out of two well-formed ones and one malformed; nothing
  in the code relates scenarios other than neighbours. The files asked for: none,
  two of both kinds, and a pair with the event log.
- Event log: two threads with two events each on logs of capacity 0, 1 and 2. Two
  overlapping calls are all an inversion takes, and one pair of events overflows
  the larger log twice. The theorems have no such bounds.
- Evaluation: up to four samples of the fleet over three instants, a window of
  one, missions that start at 0 or 1. A sample can so be in the window, on its
  edge, past it or past it and followed by one more; three checks' worth of
  history is enough to arm, disarm and arm again. Assertions come alone, except
  landed with tilt: checks do not look at each other. Fleets have one to three
  vehicles, one of them with an id whose messages are not recorded.
- Generation: ranges of eight units and five results, which halve to below one
  unit; one range the wrong way round, one tolerance of 0 that no bracket meets;
  one stray report. Sweeps with bounds below 0, off the step, at 1.0 and beyond
  the end, each with a drift of -1, 0 and 1.

### Fairness

- Proxy: weak fairness of each task's steps (the runtime polls ready tasks; each
  step is enabled until taken), of the spawned sends, and of time. Senders are
  under no obligation.
- Mission: weak fairness of the code's own steps and of timers; none of the
  vehicle or the link, so a mission may end through timeouts alone.
- Stream: weak fairness of the task and of the three stores, which are
  consecutive statements without an await. Strong fairness of a load that
  returns the newest value: C11's and Rust's requirement that stores become
  visible in finite time. The mission's waits carry no fairness.
- Suite: weak fairness of `main` where it does not wait or its wait has a timeout
  (`Bounded`), of the runtime's shutdown, and of a receive thread that has a
  datagram. Nothing makes the vehicle send one, nor ends the wait for a first
  position: `DecisionReached` excepts a run that stays there for ever, as
  `MissionEnds` does.
- Generation: weak fairness of asking and of reporting: a caller that goes on
  while it is given values, and missions that end (`MissionEnds`). Stray reports
  are under no obligation.
- The event log and the evaluation have safety properties only.

## Proofs

TLAPS checks every theorem for every value of the constants, from the
assumptions named in the modules only: configurations are well typed, a buffer
holds at least one packet, bounds are naturals, `NoAddress` is no address, draws of
the random generator are naturals. One assumption says more: a sweep's drift is no
more than a unit, and none unless a step has a thousand (`SmallDrift`), which is
what the epsilon of `generate.rs:59` is made for; with a greater drift the last
value of a sweep may be lost.

Every invariant and action property the passing runs check is stated by a theorem.
Types of the stream are proved only (`TypeOK` of `SetpointStream`): the runs are kept
for what could go wrong.

**Pipeline.** `TypeCorrect` is inductive as it stands, but needs to know that the
two `CHOOSE`s pick something: the least element of a non-empty set of naturals
exists (`Smallest`), and so does the phase that overrides all other active ones
(`ActiveProfileType`). `ProcessOutcome` reduces `process` to three cases on which
all other proofs rest: burst, loss, pass. These lemmas are in `FaultStagesProofs`,
for packets of any kind, as the proxy's proofs need them too.

`BurstCoverage` is not inductive: it says nothing of the counter. `BurstInv` adds
that no loss reaches further than the packets seen plus `burst_remaining`
(`NoneReachesFurther`), that one reaches exactly so far while a burst runs
(`OneReachesSoFar`), that the price of a loss is positive, and that a later loss
lies outside an earlier one's reach (`LossesApart`). A packet then arrives in a
burst if and only if the latest loss reaches it. `BurstsDisjoint` follows from
`LossesApart`. Phase changes play no part in it: the price is the one of the
profile in force when the loss was drawn.

`StatsAddUp` is inductive with the types; its step counts the forwarded packets
of a history one longer. `BufferIsRecentPast` follows from what
`RememberProperties` says of one append. `ReplayIsOldestAndStale` follows: the
packets arrive in the order of time (`ArrivalsOrdered`), so the buffer is sorted by
age and the first stale packet is its head (`ReplaysHead`); whatever else a call
sends is its own packet (`ProcessSends`).

**Proxy.** `OnlyOneSideIgnored` needs that a task past its store has its own
side's address known for good (`StoresBeforeLookup`), and that the datagram in
hand has an address to store (`SenderInHand`). `LookupPreserves` is the argument:
a packet is ignored only while the other side is unknown, and a side that is
unknown has ignored nothing. Types need more: `ProxyInv` adds
that a pipeline remembers packets its task has accepted and no others (`Pipes`),
as a replay sends what is remembered, and that a task about to forward has a
target that is an address (`InHand`).

`TargetsAreKept` needs `RouteInv`: a store holds the last address its history has
(`LatestLearned`), so that what a `Lookup` reads is the address `route` remembers;
every place remembered is one of the history (`RoutesStored`), which later stores
only prolong (`AddressesReadKept`); and a task about to forward has that address as
its target (`TaskRouted`).

`Refinement` maps `Learn` to `Hear`, `Lookup` to `Accept` or `Ignore`, a finished
send to `Deliver`, and every other step to a stutter (`LinkStep`). `OrderInv` says
that a socket holds the datagrams sent since the last one taken, in order, and that
every one taken has been judged but the one about to be looked up; the packet a
`Lookup` judges is then the next one (`PacketIsNext`).

`NothingUnaccounted` follows from `OrderInv`, which places every datagram, and from
`AccountInv`, which keeps the books of each direction: a pipeline has processed what
was accepted but for the one in hand, and what it counts as forwarded, duplicated or
replayed is in the bag of sends under way or has ended. `ProcessCounts` says of one
call that its counters grow by as many as it emits; `OneCopyMore`, `SpawnedCopies`
and `EndedCopy` that a bag grows and shrinks by one copy at a time.

**Mission.** `CommandsInOrder` needs that an acknowledgement in the queue was sent
by the vehicle (`QueuedAcksSent`), and what was accepted by the time the mission
is where it is (`AcceptedSoFar`); a late or repeated acknowledgement is then still
one of that command. Its second half, that the
target stays at home until arming was accepted, needs the same history. `Refinement` shows each step of `run_mission` to be a step of
`MissionTargets` or a stutter, from an invariant that says where the setpoint task
runs and whether the target is still the home position (`StreamInv`): it is what
the abstract module's program counter is computed from. `TasksFollowFlight` adds to
it that nothing has been commanded before the stream starts (`TaskInv`).

**Stream.** `Behind` orders, coordinate by coordinate, what was sent, loaded,
stored and flown to; a relaxed load stays within it whatever it returns, and
`NeverLeadsBack` is one step of it. `LateIsLast` says where the task is once a late
setpoint has left.

**Runner.** `FirstHolds` is the argument for `OnlyFirstScenarioRuns`: from the moment
the first scenario's proxy has started until `main` is over its forwarding task
lives, so no second start succeeds. `RelativeDirectoryFails` compares the lengths of
the two paths. `Reported` ties the reports to the suite's beginning, of which
`ExitZeroMeansAllPassed` needs all at the end.

**Event log.** `OnlyOverlapsInverted` speaks of the events kept; `LogInv` has it of all
events appended, and adds that an event waiting for the lock is no older than those
in place when it was stamped, nor than its own thread's (`PendingIsNewest`).

**Evaluation.** The invariant `Inv` remembers how each result came about: it is the
verdict on a store as it was when its check ran, and that store is the beginning of
the present one (`ResultsFromPast`); every report is of a store between
(`ReportsFromPast`); histories are in the order of time (`AllOrderly`) and results
number as many as the program counter says (`SoFar`). `VerdictsMatchMeaning` rests on
`VerdictIsMeaning`, one assertion at a time: what a loop with its break or early return
reaches is what the quantified meaning speaks of, because samples are in order.
`VerdictsOnlyChangeOneWay` is that a fact about the beginning of a history remains
one of the whole (`ReachedStays`, `ExceededStays`, `FlightEndsAtLanding`).
`ReportsBackVerdicts` compares the verdict with the report of the later store
(`DeviationShows`), `SeparationPassesMeanApart` has each pair found apart when it was
compared (`FoundApart`); `OthersAreNeverTooClose` adds that the store of a vehicle
that is not system 1 never holds a position (`OthersUnseen`). `TheDocumentsAgree` counts: the sum a document declares is
the cardinality of a set of pairs, so that no induction is needed (`ReportTallies`,
`SuiteAgrees`, `FleetAgrees`).

**Generation.** `Bracket` needs that a disciplined caller's mission runs at the
midpoint its report will move (`RunsAtMid`); halving then keeps order, every
report, and the limit (`ReportKeepsBracket`). `GenerationSearches` carries it over
to `Generation`, whose other steps leave the search alone. A value proposed stays
within the range asked for even if stray reports move the bracket under a running
mission (`RunsWithin`).

A batch is what its request generates (`BatchIsGenerated`), so the other properties are
facts about the generators. The steps of a sweep are those up to a quotient
(`StepsTaken`): the loop goes on while a multiple of the step fits in the room the
epsilon leaves (`GoesWhileRoom`). Its values never turn back nor leave the bounds
(`ValuesWithin`), and the last is close to the maximum (`LastValue`). A grid's cells
are pairs because what `get_param_value` reads `apply_param` sets unchanged
(`ReadAndSet`), also through an integer. A fuzz draws the parameters of all scenarios
at places the number of scenarios and the recorded seed do not shift (`FuzzAgain`).
`GeneratedProfilesAllLoad` puts these together with `AppliedValid` and
`ValidProfileLoads`.

**Only model-checked**: liveness under fairness, which is out of TLAPS's reach
(`EverySendDone`, `MissionEnds`, `TargetIsStreamed`, `StreamStops`, `DecisionReached`,
`SearchIsOver`), and the four refuted claims.

## Not modelled

- Wording and layout of reports, logs and messages; XML escaping; MAVLink encoding;
  parsing of TOML and of the command line.
- Rates and jitter as probabilities: no statistical claim is made.
- Geometry: the haversine distance is a distance on a line in the assertions and
  left out of the mission; tilt is not computed from roll and pitch.
- Floating-point numbers that are not finite, and additions that change nothing.
- `takeoff` and `send_position_setpoint`, which nothing calls; `ThresholdResult`,
  which nothing constructs.
- Receive errors of the proxy's sockets, which the loops skip.
- What drives a fleet: nothing in `src/` does.

## Plan

1. The two pipelines inside `UdpProxy` as `FaultPipeline`s, with the accepted packets
   renumbered, so that what is proved of bursts and of the replay buffer holds of them.
2. A composition of `MissionController` with `SuiteRunner`: what the program does while
   tasks of a failed mission still run.

The abstract specifications are `DatagramLink` and `MissionTargets`; for the
search, `ThresholdSearch` itself is what `Generation` is shown to implement.
