----------------------------- MODULE Generation -----------------------------
(***************************************************************************)
(* Scenario generation (crates/px4-harness-core/src/generate.rs): a caller *)
(* asks for one batch of fault profiles, a sweep, a grid or a fuzz, or     *)
(* searches for a threshold (ThresholdSearch).  What is generated is meant *)
(* to be run, so it has to pass the rules of scenario files.               *)
(*                                                                         *)
(* Adding a step again and again is inexact: a sweep's values after the    *)
(* first may be off by its "drift", 0 for values the floating-point        *)
(* numbers hold exactly.  The random generator is a function from a seed   *)
(* and the number of a draw.  Labels are left out.                         *)
(***************************************************************************)
EXTENDS ThresholdSearch, ScenarioRules, FiniteSets

CONSTANTS
  Requests,     \* batches a caller may ask for
  NoRequest,    \* the caller searches instead
  Draw(_, _),   \* StdRng: seed, number of the draw
  NoRange,      \* Option::None for a range
  SeedModulus   \* 2^64

ASSUME SeedAssumption == SeedModulus \in Nat \ {0}

----------------------------------------------------------------------------
Integer == {"delay_ms", "jitter_ms", "replay_stale_ms", "burst_loss_length"}

SweepParam == Integer \cup {"loss_rate", "duplicate_rate"}

\* The order random_fuzz draws in.
FuzzOrder ==
  <<"loss_rate", "delay_ms", "jitter_ms", "duplicate_rate", "replay_stale_ms",
    "burst_loss_length">>

SweepConfig ==
  [param : SweepParam, min : Int, max : Int, step : Int, drift : -1..1,
   base_profile : FaultProfile]

FuzzConfig ==
  [num_scenarios : Nat, seed : 0..(SeedModulus - 1),
   ranges : [SweepParam -> {NoRange} \cup (Int \X Int)], base_profile : FaultProfile]

\* The bounds of an integer parameter are unsigned.
Unsigned(ranges) ==
  \A p \in Integer : ranges[p] # NoRange => ranges[p][1] >= 0

\* Rounding stays within what the sweep's loop allows for.
SmallDrift(c) == c.drift = 0 \/ c.step <= 0 \/ 1000 <= c.step

ASSUME RequestsAssumption ==
  /\ NoRange \notin Int \X Int
  /\ \A r \in Requests :
       \/ /\ r \in [kind : {"sweep"}, config : SweepConfig]
          /\ SmallDrift(r.config)
       \/ /\ r \in [kind : {"grid"}, config_a : SweepConfig, config_b : SweepConfig]
          /\ SmallDrift(r.config_a) /\ SmallDrift(r.config_b)
       \/ /\ r \in [kind : {"fuzz"}, config : FuzzConfig]
          /\ Unsigned(r.config.ranges)
          /\ \A n \in 0..(r.config.num_scenarios * Len(FuzzOrder)) :
               Draw(r.config.seed, n) \in Nat
ASSUME SearchedAssumption ==
  \A c \in Configs : c.param \in SweepParam /\ c.base_profile \in FaultProfile

VARIABLES
  request,  \* what the caller asked for
  batch     \* what it got, or Waiting

vars == <<searchVars, request, batch>>

----------------------------------------------------------------------------
\* A number is cut to an integer where the parameter is one, a negative to 0.
apply_param(profile, param, value) ==
  [profile EXCEPT ![param] =
     IF param \notin Integer THEN value
     ELSE IF value < 0 THEN 0 ELSE value \div Unit]

get_param_value(profile, param) ==
  IF param \in Integer THEN profile[param] * Unit ELSE profile[param]

\* A batch is Ok, Err, or never comes as random_range panics.
Ok(scenarios) == [outcome |-> "ok", scenarios |-> scenarios]

Err == [outcome |-> "err", scenarios |-> <<>>]

Panic == [outcome |-> "panic", scenarios |-> <<>>]

Waiting == [outcome |-> "none", scenarios |-> <<>>]

Value(c, k) == c.min + k * c.step + (IF k = 0 THEN 0 ELSE c.drift)

\* Mutant of Goes: no allowance for rounding.
GoesExact(c, k) == Value(c, k) <= c.max

\* The loop goes on up to a thousandth of a step beyond the end.
Goes(c, k) == (Value(c, k) - c.max) * 1000 <= c.step

Steps(c) == {k \in 0..(((c.max - c.min) \div c.step) + 1) : Goes(c, k)}

\* Mutant of Clamped: what the allowance lets through is taken as it is.
ClampedNot(c, value) == value

Clamped(c, value) == IF value < c.max THEN value ELSE c.max

parameter_sweep(c) ==
  IF c.step <= 0 \/ c.min > c.max THEN Err
  ELSE Ok([k \in 1..Cardinality(Steps(c)) |->
            apply_param(c.base_profile, c.param, Clamped(c, Value(c, k - 1)))])

\* All of the second sweep's values for the first of the first, and so on.
parameter_sweep_2d(a, b) ==
  LET A == parameter_sweep(a)
      B == parameter_sweep(b)
      n == Len(B.scenarios)
  IN  IF "err" \in {A.outcome, B.outcome} THEN Err
      ELSE Ok([k \in 1..(Len(A.scenarios) * n) |->
             apply_param(A.scenarios[((k - 1) \div n) + 1], b.param,
               get_param_value(B.scenarios[((k - 1) % n) + 1], b.param))])

\* The places, in the order of drawing, of the parameters drawn.
Drawn(ranges) == {k \in DOMAIN FuzzOrder : ranges[FuzzOrder[k]] # NoRange}

\* A scenario draws the parameter as its first, second, ...
Rank(ranges, p) ==
  Cardinality({k \in Drawn(ranges) : \E l \in k..Len(FuzzOrder) : FuzzOrder[l] = p})

random_range(range, draw) == range[1] + (draw % (range[2] - range[1] + 1))

\* Mutant of RecordedSeed: the first scenario is number one.
RecordedSeedFromOne(c, i) == (c.seed + i) % SeedModulus

\* wrapping_add of the scenario's number, which counts from 0.
RecordedSeed(c, i) == (c.seed + (i - 1)) % SeedModulus

\* One generator, seeded once, goes through all the scenarios.
random_fuzz(c) ==
  IF c.num_scenarios = 0 THEN Err
  ELSE IF \E k \in Drawn(c.ranges) :
            c.ranges[FuzzOrder[k]][1] > c.ranges[FuzzOrder[k]][2] THEN Panic
  ELSE Ok([i \in 1..c.num_scenarios |->
         [seed |-> RecordedSeed(c, i),
          profile |-> [p \in SweepParam |->
            IF c.ranges[p] = NoRange THEN c.base_profile[p]
            ELSE random_range(c.ranges[p], Draw(c.seed,
                   (i - 1) * Cardinality(Drawn(c.ranges)) + Rank(c.ranges, p)))]]])

Generated(r) ==
  CASE r.kind = "sweep" -> parameter_sweep(r.config)
    [] r.kind = "grid"  -> parameter_sweep_2d(r.config_a, r.config_b)
    [] r.kind = "fuzz"  -> random_fuzz(r.config)

----------------------------------------------------------------------------
\* A caller that asks for a batch has one search object at most, unused.
Init ==
  /\ SearchInit
  /\ request \in Requests \cup {NoRequest} /\ batch = Waiting
  /\ request # NoRequest => /\ config = CHOOSE c \in Configs : TRUE
                            /\ limit = Flaky

Generate ==
  /\ request # NoRequest /\ batch = Waiting
  /\ batch' = Generated(request)
  /\ UNCHANGED <<searchVars, request>>

Search ==
  /\ request = NoRequest /\ SearchNext
  /\ UNCHANGED <<request, batch>>

Next == Generate \/ Search

Spec == Init /\ [][Next]_vars

\* The caller goes on as long as it is given a value; every mission ends.
FairSpec ==
  /\ Spec
  /\ WF_vars(Ask /\ Search)
  /\ WF_vars(Report /\ Search)

----------------------------------------------------------------------------
(* Properties                                                              *)

Searching == request = NoRequest

\* The search of a caller that searches ends for good.
SearchIsOver == Searching ~> [](Over)

\* A scenario that has nothing wrong but perhaps its faults.
ScenarioWith(profile) ==
  [faults |-> profile,
   fault_phases |-> <<[after_secs |-> 0, duration_secs |-> Unit, profile |-> profile]>>,
   mission |-> [takeoff_altitude |-> Unit,
     waypoints |-> <<[acceptance_radius |-> Unit, latitude |-> 90, longitude |-> -180]>>],
   vehicles |-> <<[system_id |-> 1, px4_port |-> 1, proxy_port |-> 2],
                  [system_id |-> 2, px4_port |-> 2, proxy_port |-> 3]>>]

RatesWithin(base, min, max, param) ==
  ValidProfile(base) /\ (param \notin Integer => 0 <= min /\ max <= Unit)

Sound(r) ==
  CASE r.kind = "sweep" ->
         RatesWithin(r.config.base_profile, r.config.min, r.config.max, r.config.param)
    [] r.kind = "grid" ->
         \A c \in {r.config_a, r.config_b} : RatesWithin(c.base_profile, c.min, c.max, c.param)
    [] r.kind = "fuzz" ->
         /\ ValidProfile(r.config.base_profile)
         /\ \A p \in {"loss_rate", "duplicate_rate"} :
              r.config.ranges[p] # NoRange =>
                0 <= r.config.ranges[p][1] /\ r.config.ranges[p][2] <= Unit

ProfileOf(r, i) ==
  IF r.kind = "fuzz" THEN batch.scenarios[i].profile ELSE batch.scenarios[i]

\* What is generated from a valid profile within valid bounds loads as a
\* scenario, rounding or not, and so does every value the search proposes.
GeneratedProfilesLoad ==
  /\ request # NoRequest /\ Sound(request) =>
       \A i \in DOMAIN batch.scenarios :
         /\ ProfileOf(request, i) \in FaultProfile
         /\ validate(ScenarioWith(ProfileOf(request, i)))
  /\ Searching /\ Ordered /\ running # Idle
       /\ RatesWithin(config.base_profile, config.min, config.max, config.param) =>
     validate(ScenarioWith(apply_param(config.base_profile, config.param, running)))

\* A sweep of a rate starts at its minimum, leaves no gap wider than its step
\* (and the drift), and ends within a step of its maximum, at the maximum, but
\* for the drift, if the step divides the range.
Covers(c, scenarios) ==
  LET V(i) == get_param_value(scenarios[i], c.param)
      n    == Len(scenarios)
  IN  /\ n > 0 /\ V(1) = c.min /\ V(n) \in (c.max - c.step)..c.max
      /\ \A i \in 1..(n - 1) : V(i + 1) - V(i) \in 0..(c.step + 1)
      /\ (c.max - c.min) % c.step = 0 => V(n) >= c.max - 1

\* A grid has each pair of values once, and nothing else is changed.
IsProduct(a, b, scenarios) ==
  LET A == parameter_sweep(a).scenarios
      B == parameter_sweep(b).scenarios
  IN  scenarios = [k \in 1..(Len(A) * Len(B)) |->
        [a.base_profile EXCEPT
           ![a.param] = A[((k - 1) \div Len(B)) + 1][a.param],
           ![b.param] = B[((k - 1) % Len(B)) + 1][b.param]]]

\* Sweeps cover their range and grids are products, although values are summed
\* up inexactly and pass through the profile's integers.
SweepsCover ==
  request # NoRequest /\ batch.outcome = "ok" =>
    /\ request.kind = "sweep" /\ request.config.param \notin Integer =>
         Covers(request.config, batch.scenarios)
    /\ request.kind = "grid" =>
         IsProduct(request.config_a, request.config_b, batch.scenarios)

\* A fuzz repeats: its first scenario comes again from the seed recorded with
\* it, and a longer fuzz from the same seed begins with it.  (The later
\* scenarios do not come again from theirs.)
FuzzRepeats ==
  request # NoRequest /\ batch.outcome = "ok" /\ request.kind = "fuzz" =>
    LET c     == request.config
        again == random_fuzz([c EXCEPT !.num_scenarios = 1,
                                       !.seed = batch.scenarios[1].seed])
        more  == random_fuzz([c EXCEPT !.num_scenarios = @ + 1])
    IN  /\ again.scenarios[1].profile = batch.scenarios[1].profile
        /\ SubSeq(more.scenarios, 1, c.num_scenarios) = batch.scenarios
============================================================================
