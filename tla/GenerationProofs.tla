-------------------------- MODULE GenerationProofs --------------------------
(***************************************************************************)
(* The threshold search, for every configuration, every limit, any number  *)
(* of reports and any caller: what the bracket says of the reports and of  *)
(* the limit.  Sweeps, grids and fuzzes, for every request: what they      *)
(* cover, that they repeat, and that what they give loads.                 *)
(***************************************************************************)
EXTENDS Generation, FiniteSetTheorems, TLAPS

\* As long as every report is that of a run, a mission runs at the midpoint of
\* the bracket its report will move.
RunsAtMid == strays = 0 /\ running # Idle => running = Mid

SearchInv == SearchTypeOK /\ RunsAtMid /\ Bracket

\* The midpoint lies between the ends, and below the upper one if there is
\* room.
LEMMA MidBetween ==
  ASSUME NEW l \in Int, NEW h \in Int, l <= h
  PROVE  /\ (l + h) \div 2 \in Int
         /\ l <= (l + h) \div 2 /\ (l + h) \div 2 <= h
         /\ l < h => (l + h) \div 2 < h
OBVIOUS

\* A new search brackets everything between its bounds.
LEMMA SearchInitInv == SearchInit => SearchInv
<1> SUFFICES ASSUME SearchInit PROVE SearchInv
  OBVIOUS
<1>1. SearchTypeOK
  BY ConfigsAssumption, StraysAssumption DEF SearchInit, SearchTypeOK
<1>2. RunsAtMid
  BY DEF SearchInit, RunsAtMid
<1>3. Bracket
  <2> SUFFICES ASSUME Ordered
               PROVE  Nested /\ Separated /\ (limit # Flaky => LimitInside)
    BY DEF Bracket
  <2>1. Nested /\ Separated
    BY <1>1 DEF SearchInit, SearchTypeOK, Ordered, Nested, Separated
  <2>2. LimitInside
    <3> SUFFICES ASSUME limit \in config.min..(config.max - 1)
                 PROVE  /\ low <= limit /\ limit < high
                        /\ high - low < config.tolerance =>
                             Mid - limit \in (-config.tolerance)..config.tolerance
      BY DEF LimitInside, current_estimate
    <3>1. low <= limit /\ limit < high /\ low \in Int /\ high \in Int
          /\ config.tolerance \in Int /\ limit \in Int
      BY <1>1, ConfigsAssumption DEF SearchInit, SearchTypeOK
    <3>2. Mid \in Int /\ low <= Mid /\ Mid <= high
      BY <3>1, MidBetween DEF Mid
    <3> QED
      BY <3>1, <3>2
  <2> QED
    BY <2>1, <2>2
<1> QED
  BY <1>1, <1>2, <1>3 DEF SearchInv

\* A run at the midpoint is begun.
LEMMA AskInv == SearchInv /\ Ask => SearchInv'
<1> SUFFICES ASSUME SearchInv, Ask PROVE SearchInv'
  OBVIOUS
<1>1. SearchTypeOK'
  BY DEF SearchInv, SearchTypeOK, Ask, search, Mid
<1>2. RunsAtMid'
  BY DEF Ask, search, RunsAtMid, Mid
<1>3. Bracket'
  BY DEF SearchInv, Ask, search, Bracket, Ordered, Nested, Separated, LimitInside,
         current_estimate, Mid
<1> QED
  BY <1>1, <1>2, <1>3 DEF SearchInv

\* Whatever is reported moves one end of the bracket to the midpoint, and so
\* to the same side of every earlier report.
LEMMA ReportKeepsBracket ==
  ASSUME SearchInv, NEW passed \in BOOLEAN, report_result(passed)
  PROVE  /\ config' \in Configs /\ low' \in Int /\ high' \in Int /\ iteration' \in Nat
         /\ answers' \in SUBSET Answer
         /\ Ordered' => Nested' /\ Separated'
<1>1. /\ config \in Configs /\ config' = config /\ low \in Int /\ high \in Int
      /\ config.min \in Int /\ config.max \in Int /\ iteration \in Nat
      /\ answers \in SUBSET Answer
  BY ConfigsAssumption DEF SearchInv, SearchTypeOK, report_result
<1>2. Mid \in Int
  BY <1>1 DEF Mid
<1>3. /\ answers' = answers \cup {[mid |-> Mid, passed |-> passed]}
      /\ iteration' = iteration + 1
      /\ low' = (IF passed THEN Mid ELSE low) /\ high' = (IF passed THEN high ELSE Mid)
  BY DEF report_result
<1>4. [mid |-> Mid, passed |-> passed] \in Answer
  BY <1>2 DEF Answer
<1>5. ASSUME Ordered' PROVE Nested' /\ Separated'
  <2>1. Ordered /\ Nested /\ Separated
    BY <1>1, <1>5 DEF SearchInv, Bracket, Ordered
  <2>2. low <= Mid /\ Mid <= high
    BY <1>1, <2>1, MidBetween DEF Mid, Nested
  <2>3. low <= low' /\ high' <= high /\ low' <= high'
    BY <1>1, <1>2, <1>3, <2>1, <2>2 DEF Nested
  <2>4. low' \in Int /\ high' \in Int
    BY <1>1, <1>2, <1>3
  <2>5. Nested'
    BY <1>1, <2>1, <2>3, <2>4 DEF Nested
  <2>6. \A a \in answers : IF a.passed THEN a.mid <= low' ELSE high' <= a.mid
    <3> SUFFICES ASSUME NEW a \in answers
                 PROVE  IF a.passed THEN a.mid <= low' ELSE high' <= a.mid
      OBVIOUS
    <3>1. a.mid \in Int /\ (IF a.passed THEN a.mid <= low ELSE high <= a.mid)
      BY <1>1, <2>1 DEF Separated, Answer
    <3> QED
      BY <1>1, <2>3, <2>4, <3>1
  <2>7. IF passed THEN Mid <= low' ELSE high' <= Mid
    BY <1>2, <1>3
  <2>8. Separated'
    BY <1>3, <2>6, <2>7 DEF Separated
  <2> QED
    BY <2>5, <2>8
<1> QED
  BY <1>1, <1>2, <1>3, <1>4, <1>5

\* The mission that ran at the midpoint says on which side the limit is.
LEMMA ReportInv == SearchInv /\ Report => SearchInv'
<1> SUFFICES ASSUME SearchInv, NEW passed \in Verdicts, report_result(passed),
                    running # Idle, running' = Idle, UNCHANGED <<limit, strays>>
             PROVE  SearchInv'
  BY DEF Report
<1>1. /\ low \in Int /\ high \in Int /\ config.min \in Int /\ config.max \in Int
      /\ config.tolerance \in Int /\ config' = config
      /\ running \in Int /\ limit \in Limits \cup {Flaky} /\ strays \in 0..MaxStrays
  BY ConfigsAssumption DEF SearchInv, SearchTypeOK, report_result
<1>2. passed \in BOOLEAN
  <2>1. (running <= limit) \in BOOLEAN
    OBVIOUS
  <2> QED
    BY <2>1 DEF Verdicts
<1>3. /\ config' \in Configs /\ low' \in Int /\ high' \in Int /\ iteration' \in Nat
      /\ answers' \in SUBSET Answer
      /\ Ordered' => Nested' /\ Separated'
  BY <1>2, ReportKeepsBracket
<1>4. SearchTypeOK' /\ RunsAtMid'
  BY <1>1, <1>3 DEF SearchTypeOK, RunsAtMid
<1>5. ASSUME Ordered', strays' = 0, limit' # Flaky, limit \in config.min..(config.max - 1)
      PROVE  /\ low' <= limit /\ limit < high'
             /\ high' - low' < config.tolerance =>
                  Mid' - limit \in (-config.tolerance)..config.tolerance
  <2>1. low <= limit /\ limit < high /\ running = Mid /\ limit # Flaky
    BY <1>1, <1>5 DEF SearchInv, Bracket, LimitInside, RunsAtMid, Ordered
  <2>2. passed <=> running <= limit
    BY <2>1 DEF Verdicts
  <2>3. low' <= limit /\ limit < high'
    BY <1>1, <1>5, <2>1, <2>2 DEF report_result
  <2>4. Mid' \in Int /\ low' <= Mid' /\ Mid' <= high'
    BY <1>3, <1>5, MidBetween DEF Mid, Nested
  <2> QED
    BY <1>1, <1>3, <1>5, <2>3, <2>4
<1>6. Bracket'
  BY <1>1, <1>3, <1>5 DEF Bracket, LimitInside, current_estimate
<1> QED
  BY <1>4, <1>6 DEF SearchInv

\* A report without a run costs what is known of the limit, and nothing else.
LEMMA StrayInv == SearchInv /\ Stray => SearchInv'
<1> SUFFICES ASSUME SearchInv, strays < MaxStrays, strays' = strays + 1,
                    NEW passed \in BOOLEAN, report_result(passed),
                    UNCHANGED <<limit, running>>
             PROVE  SearchInv'
  BY DEF Stray
<1>1. /\ config' \in Configs /\ low' \in Int /\ high' \in Int /\ iteration' \in Nat
      /\ answers' \in SUBSET Answer
      /\ Ordered' => Nested' /\ Separated'
  BY ReportKeepsBracket
<1>2. strays' \in 0..MaxStrays /\ strays' # 0
  BY StraysAssumption DEF SearchInv, SearchTypeOK
<1>3. SearchTypeOK'
  BY <1>1, <1>2 DEF SearchInv, SearchTypeOK
<1>4. RunsAtMid' /\ Bracket'
  BY <1>1, <1>2 DEF RunsAtMid, Bracket
<1> QED
  BY <1>3, <1>4 DEF SearchInv

\* Nothing of the search changes.
LEMMA SearchStutterInv == SearchInv /\ UNCHANGED searchVars => SearchInv'
BY DEF searchVars, search, SearchInv, SearchTypeOK, RunsAtMid, Bracket, Ordered, Nested,
       Separated, LimitInside, current_estimate, Mid

\* A caller that uses this module's operations uses ThresholdSearch as its own
\* specification says: the batches leave the search alone.
LEMMA GenerationSearches == Spec => SearchSpec
<1>1. Init => SearchInit
  BY DEF Init
<1>2. [Next]_vars => [SearchNext]_searchVars
  BY DEF Next, Generate, Search, vars
<1> QED
  BY <1>1, <1>2, PTL DEF Spec, SearchSpec

\* The invariant holds of every search.
THEOREM SearchInvariance == SearchSpec => []SearchInv
<1>1. SearchInv /\ [SearchNext]_searchVars => SearchInv'
  BY AskInv, ReportInv, StrayInv, SearchStutterInv DEF SearchNext
<1> QED
  BY SearchInitInv, <1>1, PTL DEF SearchSpec

\* Whatever is reported, and whenever, the bracket of ThresholdSearch is nested
\* and agrees with every report; the limit stays inside as long as every report
\* is that of a run.
THEOREM BracketHolds == Spec => []Bracket
<1>1. SearchInv => Bracket
  BY DEF SearchInv
<1> QED
  BY GenerationSearches, SearchInvariance, <1>1, PTL

----------------------------------------------------------------------------
(* What the generators give.                                               *)

\* A scenario with a valid profile and nothing else wrong loads.
LEMMA ValidProfileLoads ==
  ASSUME NEW profile, ValidProfile(profile)
  PROVE  validate(ScenarioWith(profile))
<1> DEFINE scenario == ScenarioWith(profile)
<1>1. /\ scenario.faults = profile
      /\ scenario.fault_phases =
           <<[after_secs |-> 0, duration_secs |-> Unit, profile |-> profile]>>
  BY DEF ScenarioWith
<1>2. \A i \in DOMAIN scenario.fault_phases : ValidPhase(scenario.fault_phases[i])
  BY <1>1, UnitAssumption DEF ValidPhase
<1>3. ValidMission(scenario.mission)
  <2> DEFINE wp == [acceptance_radius |-> Unit, latitude |-> 90, longitude |-> -180]
  <2>1. scenario.mission = [takeoff_altitude |-> Unit, waypoints |-> <<wp>>]
    BY DEF ScenarioWith
  <2>2. wp.acceptance_radius > 0 /\ wp.latitude \in -90..90 /\ wp.longitude \in -180..180
    BY UnitAssumption
  <2> HIDE DEF wp
  <2>3. \A i \in DOMAIN <<wp>> : <<wp>>[i] = wp
    OBVIOUS
  <2>4. <<wp>> # <<>> /\ Unit > 0
    BY UnitAssumption
  <2> QED
    BY <2>1, <2>2, <2>3, <2>4 DEF ValidMission
<1>4. ValidVehicles(scenario.vehicles)
  BY DEF ScenarioWith, ValidVehicles
<1> QED
  BY <1>1, <1>2, <1>3, <1>4 DEF validate

\* A parameter is set to a number cut to its type, and no other is changed.
LEMMA Applied ==
  ASSUME NEW profile \in FaultProfile, NEW param \in SweepParam, NEW value \in Int
  PROVE  /\ apply_param(profile, param, value) \in FaultProfile
         /\ apply_param(profile, param, value)[param] =
              IF param \notin Integer THEN value
              ELSE IF value < 0 THEN 0 ELSE value \div Unit
         /\ \A p \in SweepParam \ {param} :
              apply_param(profile, param, value)[p] = profile[p]
<1> DEFINE cut == IF param \notin Integer THEN value
                  ELSE IF value < 0 THEN 0 ELSE value \div Unit
<1>1. cut \in Int /\ (param \in Integer => cut \in Nat)
  BY UnitAssumption
<1>2. apply_param(profile, param, value) = [profile EXCEPT ![param] = cut]
  BY DEF apply_param
<1> HIDE DEF cut
<1>3. [profile EXCEPT ![param] = cut] \in FaultProfile
  BY <1>1 DEF FaultProfile, SweepParam, Integer
<1>4. [profile EXCEPT ![param] = cut][param] = cut
  BY DEF FaultProfile, SweepParam, Integer
<1>5. \A p \in SweepParam \ {param} : [profile EXCEPT ![param] = cut][p] = profile[p]
  BY DEF FaultProfile, SweepParam, Integer
<1> QED
  BY <1>2, <1>3, <1>4, <1>5 DEF cut

\* A valid profile stays valid if a rate is set within the rates' range.
LEMMA AppliedValid ==
  ASSUME NEW profile \in FaultProfile, NEW param \in SweepParam, NEW value \in Int,
         ValidProfile(profile),
         param \notin Integer => 0 <= value /\ value <= Unit
  PROVE  ValidProfile(apply_param(profile, param, value))
<1> DEFINE applied == apply_param(profile, param, value)
<1>1. /\ applied[param] = IF param \notin Integer THEN value
                          ELSE IF value < 0 THEN 0 ELSE value \div Unit
      /\ \A p \in SweepParam \ {param} : applied[p] = profile[p]
  BY Applied
<1> HIDE DEF applied
<1>2. ASSUME NEW p \in {"loss_rate", "duplicate_rate"} PROVE IsRate(applied[p])
  <2>1. p \in SweepParam /\ p \notin Integer
    BY DEF SweepParam, Integer
  <2>2. CASE p = param
    <3>1. applied[p] = value /\ 0 <= value /\ value <= Unit
      BY <1>1, <2>1, <2>2
    <3> QED
      BY <3>1, UnitAssumption DEF IsRate
  <2>3. CASE p # param
    <3>1. applied[p] = profile[p]
      BY <1>1, <2>1, <2>3
    <3> QED
      BY <3>1 DEF ValidProfile
  <2> QED
    BY <2>2, <2>3
<1> QED
  BY <1>2 DEF ValidProfile, applied

----------------------------------------------------------------------------
(* The values of a sweep.                                                  *)

\* A configuration parameter_sweep answers Ok to.
Sweepable(c) == c \in SweepConfig /\ SmallDrift(c) /\ c.step > 0 /\ c.min <= c.max

\* Values grow with their number, by a step each but for the drift of the
\* first.
LEMMA ValuesGrow ==
  ASSUME NEW c, Sweepable(c), NEW k \in Nat
  PROVE  /\ Value(c, k) \in Int /\ Value(c, k + 1) \in Int
         /\ k = 0 => Value(c, k) = c.min /\ Value(c, k + 1) = c.min + c.step + c.drift
         /\ k > 0 => Value(c, k + 1) = Value(c, k) + c.step
         /\ Value(c, k + 1) >= Value(c, k)
         /\ Value(c, k) >= c.min
<1>1. /\ c.min \in Int /\ c.step \in Int /\ c.drift \in -1..1 /\ c.step > 0
  BY DEF Sweepable, SweepConfig
<1>2. c.step + c.drift >= 0
  BY <1>1
<1> DEFINE far == k * c.step
<1>3. far \in Int /\ (k + 1) * c.step = far + c.step
  BY <1>1
<1>4. (k > 0 => far >= c.step) /\ (k = 0 => far = 0)
  <2>1. CASE k = 0
    BY <1>1, <2>1
  <2>2. CASE k > 0
    <3>1. (k - 1) * c.step >= 0 /\ far = (k - 1) * c.step + c.step
      BY <1>1, <2>2
    <3> QED
      BY <1>1, <1>3, <2>2, <3>1
  <2> QED
    BY <2>1, <2>2
<1>5. /\ Value(c, k) = c.min + far + (IF k = 0 THEN 0 ELSE c.drift)
      /\ Value(c, k + 1) = c.min + (far + c.step) + c.drift
  BY <1>3 DEF Value
<1> HIDE DEF far
<1> QED
  BY <1>1, <1>2, <1>3, <1>4, <1>5

\* Division rounds down.
LEMMA Division ==
  ASSUME NEW a \in Int, NEW b \in Int, b > 0
  PROVE  /\ a \div b \in Int /\ a % b \in 0..(b - 1)
         /\ a = (a \div b) * b + (a % b)
         /\ a >= 0 => a \div b \in Nat
OBVIOUS

LEMMA Divides ==
  ASSUME NEW a \in Nat, NEW b \in Nat, b > 0, a % b = 0
  PROVE  a \div b \in Nat /\ a = (a \div b) * b
<1>1. a \div b \in Nat /\ a = (a \div b) * b + (a % b)
  BY Division
<1> DEFINE q == a \div b
<1> HIDE DEF q
<1>2. q * b \in Int
  BY <1>1 DEF q
<1> QED
  BY <1>1, <1>2 DEF q

LEMMA NextMultiple ==
  ASSUME NEW k \in Int, NEW b \in Int
  PROVE  k * b \in Int /\ (k + 1) * b = k * b + b /\ (k + 2) * b = k * b + b + b
OBVIOUS

\* A multiple within another has fewer units.
LEMMA FewerMultiples ==
  ASSUME NEW i \in Int, NEW j \in Int, NEW b \in Int, b > 0
  PROVE  i <= j <=> i * b <= j * b
<1>1. CASE i <= j
  <2>1. (j - i) * b >= 0
    BY <1>1
  <2> QED
    BY <1>1, <2>1
<1>2. CASE j < i
  <2>1. (i - j) * b >= b
    BY <1>2
  <2> QED
    BY <1>2, <2>1
<1> QED
  BY <1>1, <1>2

\* The room a sweep has, from its minimum to where the loop ends.
Room(c) == c.max - c.min - c.drift + c.step \div 1000

LEMMA RoomFacts ==
  ASSUME NEW c, Sweepable(c)
  PROVE  /\ c.min \in Int /\ c.max \in Int /\ c.step \in Nat /\ c.drift \in -1..1
         /\ c.step > 0 /\ c.min <= c.max
         /\ c.step \div 1000 \in Nat /\ c.drift <= c.step \div 1000
         /\ c.step \div 1000 - c.drift <= c.step
         /\ Room(c) \in Nat /\ Room(c) <= c.max - c.min + c.step
<1>1. /\ c.min \in Int /\ c.max \in Int /\ c.step \in Nat /\ c.drift \in -1..1
      /\ c.step > 0 /\ c.min <= c.max
  BY DEF Sweepable, SweepConfig
<1>2. c.drift = 0 \/ 1000 <= c.step
  BY <1>1 DEF Sweepable, SmallDrift
<1>3. c.step \div 1000 \in Nat /\ c.drift <= c.step \div 1000
  BY <1>1, <1>2
<1>4. c.step \div 1000 - c.drift <= c.step
  BY <1>1, <1>2
<1> QED
  BY <1>1, <1>3, <1>4 DEF Room

\* The loop goes on for as many steps as there is room for.
LEMMA GoesWhileRoom ==
  ASSUME NEW c, Sweepable(c), NEW k \in Nat
  PROVE  Goes(c, k) <=> (k = 0 \/ k * c.step <= Room(c))
<1>1. /\ c.min \in Int /\ c.max \in Int /\ c.step \in Nat /\ c.drift \in -1..1
      /\ c.step > 0 /\ c.min <= c.max /\ c.step \div 1000 \in Nat
  BY RoomFacts
<1> DEFINE far == k * c.step
<1>2. far \in Int /\ (k = 0 => far = 0)
  BY <1>1
<1>3. CASE k = 0
  <2>1. Value(c, k) = c.min
    BY <1>1, <1>2, <1>3 DEF Value
  <2> QED
    BY <1>1, <1>3, <2>1 DEF Goes
<1>4. CASE k # 0
  <2> DEFINE over == c.min + far + c.drift - c.max
  <2>1. Value(c, k) - c.max = over
    BY <1>1, <1>2, <1>4 DEF Value
  <2>2. over \in Int
    BY <1>1, <1>2
  <2>3. far <= Room(c) <=> over <= c.step \div 1000
    BY <1>1, <1>2 DEF Room
  <2> HIDE DEF over
  <2>4. over * 1000 <= c.step <=> over <= c.step \div 1000
    BY <1>1, <2>2
  <2> QED
    BY <1>4, <2>1, <2>3, <2>4 DEF Goes
<1> QED
  BY <1>3, <1>4

\* The number of the last value of a sweep.
Last(c) == Room(c) \div c.step

\* How a quotient bounds the multiples below a number.
LEMMA Quotient ==
  ASSUME NEW a \in Nat, NEW b \in Nat, b > 0, NEW k \in Nat
  PROVE  /\ a \div b \in Nat
         /\ (a \div b) * b \in Nat
         /\ (a \div b) * b <= a /\ a < (a \div b) * b + b
         /\ k <= a \div b <=> k * b <= a
<1> DEFINE m == a \div b
           rest == a % b
<1>1. m \in Nat /\ rest \in 0..(b - 1) /\ a = m * b + rest
  BY Division
<1> HIDE DEF m, rest
<1> DEFINE y == m * b
<1>2. y \in Nat /\ (m + 1) * b = y + b
  BY <1>1, NextMultiple
<1>3. k <= m <=> k * b <= y
  BY <1>1, FewerMultiples
<1>4. m + 1 <= k <=> y + b <= k * b
  BY <1>1, <1>2, FewerMultiples
<1>5. k * b \in Int
  OBVIOUS
<1>6. a = y + rest
  BY <1>1
<1> HIDE DEF y
<1>7. y <= a /\ a < y + b
  BY <1>1, <1>2, <1>6
<1> DEFINE z == k * b
<1>8. z \in Int /\ (k <= m <=> z <= y) /\ (m + 1 <= k <=> y + b <= z)
  BY <1>3, <1>4, <1>5
<1> HIDE DEF z
<1>9. k <= m <=> z <= a
  BY <1>1, <1>2, <1>7, <1>8
<1> QED
  BY <1>1, <1>2, <1>7, <1>9 DEF m, y, z

\* Adding a divisor to a number adds no more than one to the quotient.
LEMMA QuotientBelow ==
  ASSUME NEW a \in Nat, NEW span \in Nat, NEW b \in Nat, b > 0, a <= span + b
  PROVE  a \div b <= span \div b + 1
<1> DEFINE m == a \div b
           q == span \div b
<1>1. m \in Nat /\ q \in Nat
  BY Quotient
<1>2. span < q * b + b
  BY Quotient
<1>3. q + 2 <= m <=> (q + 2) * b <= a
  <2>1. q + 2 \in Nat
    BY <1>1
  <2> HIDE DEF q
  <2> QED
    BY <2>1, Quotient
<1> HIDE DEF m, q
<1> DEFINE x == q * b
<1>4. x \in Int /\ (q + 2) * b = x + b + b
  BY <1>1, NextMultiple
<1>5. span < x + b
  BY <1>2
<1> HIDE DEF x
<1>6. ~(q + 2 <= m)
  BY <1>3, <1>4, <1>5
<1>7. m <= q + 1
  BY <1>1, <1>6
<1> QED
  BY <1>7 DEF m, q

\* A sweep takes the steps 0, 1, ..., up to the last there is room for.
LEMMA StepsTaken ==
  ASSUME NEW c, Sweepable(c)
  PROVE  /\ Last(c) \in Nat
         /\ Last(c) * c.step \in Nat
         /\ Last(c) * c.step <= Room(c) /\ Room(c) < Last(c) * c.step + c.step
         /\ Steps(c) = 0..Last(c)
         /\ Cardinality(Steps(c)) = Last(c) + 1
<1> DEFINE span == c.max - c.min
<1>1. /\ c.step \in Nat /\ c.step > 0 /\ Room(c) \in Nat
      /\ span \in Nat /\ Room(c) <= span + c.step
  BY RoomFacts
<1>2. /\ Last(c) \in Nat
      /\ Last(c) * c.step \in Nat
      /\ Last(c) * c.step <= Room(c) /\ Room(c) < Last(c) * c.step + c.step
      /\ \A k \in Nat : k <= Last(c) <=> k * c.step <= Room(c)
  BY <1>1, Quotient DEF Last
<1>3. span \div c.step \in Nat
  <2> HIDE DEF span
  <2> QED
    BY <1>1, Quotient
<1>4. Last(c) <= span \div c.step + 1
  <2> HIDE DEF span
  <2> QED
    BY <1>1, QuotientBelow DEF Last
<1>5. \A k \in Nat : Goes(c, k) <=> k <= Last(c)
  BY <1>2, GoesWhileRoom
<1>6. Steps(c) = 0..Last(c)
  <2>1. Steps(c) = {k \in 0..((span \div c.step) + 1) : Goes(c, k)}
    BY DEF Steps
  <2> DEFINE q == span \div c.step
  <2>2. q \in Nat /\ Last(c) <= q + 1 /\ Steps(c) = {k \in 0..(q + 1) : Goes(c, k)}
    BY <1>3, <1>4, <2>1
  <2> HIDE DEF q
  <2> QED
    BY <1>2, <1>5, <2>2
<1>7. Cardinality(0..Last(c)) = Last(c) + 1
  BY <1>2, FS_Interval
<1> QED
  BY <1>2, <1>6, <1>7

\* The value a sweep gives its scenario after k steps.
At(c, k) == Clamped(c, Value(c, k))

\* Whatever the drift, a sweep's values stay within its bounds and never turn
\* back.
LEMMA ValuesWithin ==
  ASSUME NEW c, Sweepable(c), NEW k \in Nat
  PROVE  /\ At(c, k) \in Int /\ c.min <= At(c, k) /\ At(c, k) <= c.max
         /\ At(c, k + 1) - At(c, k) \in 0..(c.step + 1)
         /\ At(c, 0) = c.min
<1>1. /\ c.min \in Int /\ c.max \in Int /\ c.step \in Nat /\ c.drift \in -1..1
      /\ c.step > 0 /\ c.min <= c.max
  BY RoomFacts
<1> DEFINE v == Value(c, k)
           w == Value(c, k + 1)
<1>2. /\ v \in Int /\ w \in Int /\ c.min <= v /\ v <= w
      /\ w <= v + c.step + 1
  BY <1>1, ValuesGrow
<1>3. Value(c, 0) = c.min
  BY ValuesGrow
<1>4. At(c, k) = (IF v < c.max THEN v ELSE c.max)
      /\ At(c, k + 1) = (IF w < c.max THEN w ELSE c.max)
  BY DEF At, Clamped
<1>5. At(c, 0) = c.min
  BY <1>1, <1>3 DEF At, Clamped
<1> HIDE DEF v, w
<1>6. At(c, k) \in Int /\ c.min <= At(c, k) /\ At(c, k) <= c.max
  BY <1>1, <1>2, <1>4
<1>7. At(c, k + 1) - At(c, k) \in 0..(c.step + 1)
  BY <1>1, <1>2, <1>4
<1> QED
  BY <1>5, <1>6, <1>7

\* The last value is within a step of the maximum, and reaches it, but for the
\* drift, if the step divides the range.
LEMMA LastValue ==
  ASSUME NEW c, Sweepable(c)
  PROVE  /\ c.max - c.step <= At(c, Last(c))
         /\ (c.max - c.min) % c.step = 0 => c.max - 1 <= At(c, Last(c))
<1>1. /\ c.min \in Int /\ c.max \in Int /\ c.step \in Nat /\ c.drift \in -1..1
      /\ c.step > 0 /\ c.min <= c.max /\ c.step \div 1000 \in Nat
      /\ c.drift <= c.step \div 1000
  BY RoomFacts
<1> DEFINE far == Last(c) * c.step
           least == c.step \div 1000
<1>2. /\ Last(c) \in Nat /\ far \in Nat
      /\ far <= Room(c) /\ Room(c) < far + c.step
  BY StepsTaken
<1>3. Room(c) = c.max - c.min - c.drift + least
  BY DEF Room
<1>4. Value(c, Last(c)) = c.min + far + (IF Last(c) = 0 THEN 0 ELSE c.drift)
  BY DEF Value
<1>5. Last(c) = 0 => far = 0
  BY <1>1
<1>6. (c.max - c.min) % c.step = 0 => c.max - c.min <= far
  <2> SUFFICES ASSUME (c.max - c.min) % c.step = 0 PROVE c.max - c.min <= far
    OBVIOUS
  <2> DEFINE span == c.max - c.min
             q == span \div c.step
  <2>1. span \in Nat /\ q \in Nat /\ span = q * c.step
    <3> DEFINE unit == c.step
    <3>1. span \in Nat /\ unit \in Nat /\ unit > 0 /\ span % unit = 0
      BY <1>1
    <3> HIDE DEF span, unit
    <3>2. span \div unit \in Nat /\ span = (span \div unit) * unit
      BY <3>1, Divides
    <3> QED
      BY <3>1, <3>2 DEF unit
  <2>2. Room(c) \in Nat /\ span <= Room(c)
    BY <1>1, <1>3, RoomFacts
  <2> HIDE DEF q, span
  <2>3. q <= Last(c)
    BY <1>1, <2>1, <2>2, Quotient DEF Last
  <2>4. q * c.step <= far
    BY <1>1, <1>2, <2>1, <2>3, FewerMultiples
  <2> QED
    BY <2>1, <2>4 DEF span
<1> DEFINE v == Value(c, Last(c))
<1> HIDE DEF far, least
<1>7. /\ v \in Int /\ c.max - c.step <= v
      /\ (c.max - c.min) % c.step = 0 => c.max - 1 <= v
  <2>1. least \in Nat /\ c.drift <= least
    BY <1>1 DEF least
  <2>2. CASE Last(c) = 0
    <3>1. v = c.min /\ far = 0
      BY <1>1, <1>4, <1>5, <2>2 DEF far
    <3>2. c.max - c.min - c.drift + least < c.step
      BY <1>2, <1>3, <3>1, <1>1
    <3> HIDE DEF v
    <3>3. v \in Int /\ c.max - c.step <= v
      BY <1>1, <2>1, <3>1, <3>2
    <3>4. (c.max - c.min) % c.step = 0 => c.max - 1 <= v
      BY <1>1, <1>6, <3>1
    <3> QED
      BY <3>3, <3>4
  <2>3. CASE Last(c) # 0
    <3>1. v = c.min + far + c.drift
      BY <1>4, <2>3 DEF far
    <3>2. c.max - c.min - c.drift + least < far + c.step
      BY <1>2, <1>3
    <3> HIDE DEF v
    <3>3. v \in Int /\ c.max - c.step <= v
      BY <1>1, <1>2, <2>1, <3>1, <3>2
    <3>4. (c.max - c.min) % c.step = 0 => c.max - 1 <= v
      BY <1>1, <1>2, <1>6, <3>1
    <3> QED
      BY <3>3, <3>4
  <2> QED
    BY <2>2, <2>3
<1>8. At(c, Last(c)) = (IF v < c.max THEN v ELSE c.max)
  BY DEF At, Clamped
<1> HIDE DEF v
<1> QED
  BY <1>1, <1>7, <1>8

----------------------------------------------------------------------------
(* What sweeps and grids give.                                             *)

\* A sweep fails, or gives the scenarios of its steps.
LEMMA SweepGives ==
  ASSUME NEW c \in SweepConfig, SmallDrift(c)
  PROVE  \/ parameter_sweep(c) = Err
         \/ /\ Sweepable(c)
            /\ Last(c) \in Nat
            /\ parameter_sweep(c) =
                 Ok([k \in 1..(Last(c) + 1) |->
                      apply_param(c.base_profile, c.param, At(c, k - 1))])
<1>1. CASE c.step <= 0 \/ c.min > c.max
  BY <1>1 DEF parameter_sweep
<1>2. CASE ~(c.step <= 0 \/ c.min > c.max)
  <2>1. Sweepable(c)
    BY <1>2 DEF Sweepable, SweepConfig
  <2>2. Last(c) \in Nat /\ Cardinality(Steps(c)) = Last(c) + 1
    BY <2>1, StepsTaken
  <2> QED
    BY <1>2, <2>1, <2>2 DEF parameter_sweep, At
<1> QED
  BY <1>1, <1>2

\* The scenarios of a sweep differ from the base only in the parameter; each
\* is a profile, and a valid one within valid bounds.
LEMMA SweepScenario ==
  ASSUME NEW c, Sweepable(c), NEW k \in Nat
  PROVE  /\ apply_param(c.base_profile, c.param, At(c, k)) \in FaultProfile
         /\ c.param \notin Integer =>
              get_param_value(apply_param(c.base_profile, c.param, At(c, k)), c.param)
                = At(c, k)
         /\ RatesWithin(c.base_profile, c.min, c.max, c.param) =>
              ValidProfile(apply_param(c.base_profile, c.param, At(c, k)))
<1>1. /\ c.base_profile \in FaultProfile /\ c.param \in SweepParam
      /\ c.min \in Int /\ c.max \in Int
  BY DEF Sweepable, SweepConfig
<1>2. At(c, k) \in Int /\ c.min <= At(c, k) /\ At(c, k) <= c.max
  BY ValuesWithin
<1> DEFINE value == At(c, k)
<1> HIDE DEF value
<1>3. apply_param(c.base_profile, c.param, value) \in FaultProfile
  BY <1>1, <1>2, Applied DEF value
<1>4. c.param \notin Integer =>
        get_param_value(apply_param(c.base_profile, c.param, value), c.param) = value
  BY <1>1, <1>2, Applied DEF value, get_param_value
<1>5. RatesWithin(c.base_profile, c.min, c.max, c.param) =>
        ValidProfile(apply_param(c.base_profile, c.param, value))
  <2> SUFFICES ASSUME RatesWithin(c.base_profile, c.min, c.max, c.param)
               PROVE  ValidProfile(apply_param(c.base_profile, c.param, value))
    OBVIOUS
  <2>1. ValidProfile(c.base_profile)
    BY DEF RatesWithin
  <2>2. c.param \notin Integer => 0 <= value /\ value <= Unit
    <3>1. c.param \notin Integer => 0 <= c.min /\ c.max <= Unit
      BY DEF RatesWithin
    <3> QED
      BY <1>1, <1>2, <3>1, UnitAssumption DEF value
  <2> QED
    BY <1>1, <1>2, <2>1, <2>2, AppliedValid DEF value
<1> QED
  BY <1>3, <1>4, <1>5 DEF value

\* Sweeps of rates cover their range.
LEMMA SweepCovers ==
  ASSUME NEW c \in SweepConfig, SmallDrift(c), c.param \notin Integer,
         parameter_sweep(c).outcome = "ok"
  PROVE  Covers(c, parameter_sweep(c).scenarios)
<1>1. parameter_sweep(c) # Err
  BY DEF Err
<1> DEFINE scenarios == [k \in 1..(Last(c) + 1) |->
                          apply_param(c.base_profile, c.param, At(c, k - 1))]
           V(i) == get_param_value(scenarios[i], c.param)
           n == Last(c) + 1
<1>2. Sweepable(c) /\ Last(c) \in Nat /\ parameter_sweep(c).scenarios = scenarios
  BY <1>1, SweepGives DEF Ok
<1>3. ASSUME NEW i \in 1..n PROVE V(i) = At(c, i - 1)
  <2>1. i - 1 \in Nat /\ scenarios[i] = apply_param(c.base_profile, c.param, At(c, i - 1))
    BY <1>2
  <2> QED
    BY <1>2, <2>1, SweepScenario
<1>4. Len(scenarios) = n
  BY <1>2
<1>5. n \in Nat /\ n > 0 /\ 1 \in 1..n /\ n \in 1..n /\ n - 1 = Last(c) /\ 1 - 1 = 0
  BY <1>2
<1>6. V(1) = c.min
  <2>1. V(1) = At(c, 0)
    BY <1>3, <1>5
  <2> QED
    BY <1>2, <2>1, ValuesWithin
<1>7. V(n) = At(c, Last(c))
  BY <1>3, <1>5
<1>8. V(n) \in (c.max - c.step)..c.max
  <2>1. At(c, Last(c)) \in Int /\ At(c, Last(c)) <= c.max /\ c.max - c.step <= At(c, Last(c))
    BY <1>2, ValuesWithin, LastValue
  <2>2. c.max \in Int /\ c.step \in Int
    BY <1>2, RoomFacts
  <2> QED
    BY <1>7, <2>1, <2>2
<1>9. (c.max - c.min) % c.step = 0 => V(n) >= c.max - 1
  <2>1. At(c, Last(c)) \in Int /\ c.max \in Int
    BY <1>2, ValuesWithin, RoomFacts
  <2>2. (c.max - c.min) % c.step = 0 => c.max - 1 <= At(c, Last(c))
    BY <1>2, LastValue
  <2> QED
    BY <1>7, <2>1, <2>2
<1>10. ASSUME NEW i \in 1..(n - 1) PROVE V(i + 1) - V(i) \in 0..(c.step + 1)
  <2>1. /\ i \in 1..n /\ i + 1 \in 1..n /\ i - 1 \in Nat
        /\ (i + 1) - 1 = (i - 1) + 1
    BY <1>5
  <2>2. V(i + 1) = At(c, (i - 1) + 1) /\ V(i) = At(c, i - 1)
    BY <1>3, <2>1
  <2> QED
    BY <1>2, <2>1, <2>2, ValuesWithin
<1> HIDE DEF scenarios
<1> QED
  BY <1>2, <1>4, <1>5, <1>6, <1>8, <1>9, <1>10 DEF Covers

\* A product divided by a factor.
LEMMA TimesDivided ==
  ASSUME NEW a \in Nat, NEW b \in Nat, b > 0
  PROVE  a * b \in Nat /\ (a * b) \div b = a
<1> DEFINE t == a * b
           q == t \div b
<1>1. t \in Nat
  OBVIOUS
<1>2. q \in Nat /\ (a <= q <=> a * b <= t) /\ (a + 1 <= q <=> (a + 1) * b <= t)
  <2>1. a + 1 \in Nat
    OBVIOUS
  <2> HIDE DEF t
  <2> QED
    BY <1>1, <2>1, Quotient
<1>3. (a + 1) * b = t + b
  BY NextMultiple
<1> HIDE DEF q
<1>4. a <= q
  BY <1>1, <1>2
<1> HIDE DEF t
<1>5. ~(a + 1 <= q)
  BY <1>1, <1>2, <1>3
<1> QED
  BY <1>1, <1>2, <1>4, <1>5 DEF t, q

\* A field of a profile is a number, and an unsigned one where the parameter
\* is an integer.
LEMMA FieldTypes ==
  ASSUME NEW profile \in FaultProfile, NEW param \in SweepParam
  PROVE  profile[param] \in Int /\ (param \in Integer => profile[param] \in Nat)
BY DEF FaultProfile, SweepParam, Integer

\* What get_param_value reads from one profile, apply_param sets in another.
LEMMA ReadAndSet ==
  ASSUME NEW profile \in FaultProfile, NEW other \in FaultProfile, NEW param \in SweepParam
  PROVE  /\ get_param_value(other, param) \in Int
         /\ apply_param(profile, param, get_param_value(other, param))
              = [profile EXCEPT ![param] = other[param]]
<1> DEFINE x == other[param]
<1>1. x \in Int /\ (param \in Integer => x \in Nat)
  BY FieldTypes
<1>2. get_param_value(other, param) = IF param \in Integer THEN x * Unit ELSE x
  BY DEF get_param_value
<1> HIDE DEF x
<1>3. CASE param \in Integer
  <2>1. x * Unit \in Nat /\ (x * Unit) \div Unit = x
    BY <1>1, <1>3, UnitAssumption, TimesDivided
  <2> DEFINE y == x * Unit
  <2>2. get_param_value(other, param) = y /\ y \in Nat /\ y \div Unit = x
    BY <1>2, <1>3, <2>1
  <2> HIDE DEF y
  <2>3. apply_param(profile, param, y) = [profile EXCEPT ![param] = x]
    <3>1. (IF param \notin Integer THEN y ELSE IF y < 0 THEN 0 ELSE y \div Unit) = x
      BY <1>3, <2>2
    <3> QED
      BY <3>1, Zenon DEF apply_param
  <2> QED
    BY <2>2, <2>3 DEF x
<1>4. CASE param \notin Integer
  BY <1>1, <1>2, <1>4 DEF apply_param, x
<1> QED
  BY <1>3, <1>4

\* A profile with a parameter applied is that profile but for its value of it.
LEMMA AppliedIs ==
  ASSUME NEW profile \in FaultProfile, NEW param \in SweepParam, NEW value \in Int
  PROVE  apply_param(profile, param, value)
           = [profile EXCEPT ![param] = apply_param(profile, param, value)[param]]
<1> DEFINE cut == IF param \notin Integer THEN value
                  ELSE IF value < 0 THEN 0 ELSE value \div Unit
<1>1. apply_param(profile, param, value) = [profile EXCEPT ![param] = cut]
  BY DEF apply_param
<1>2. apply_param(profile, param, value)[param] = cut
  BY Applied
<1> QED
  BY <1>1, <1>2

\* The number of a pair tells its two places.
LEMMA PairPlaces ==
  ASSUME NEW m \in Nat, NEW n \in Nat, NEW k \in 1..(m * n)
  PROVE  /\ n > 0
         /\ (k - 1) \div n \in 0..(m - 1) /\ (k - 1) % n \in 0..(n - 1)
<1>1. n > 0
  OBVIOUS
<1> DEFINE a == k - 1
           q == a \div n
<1>2. a \in Nat /\ a < m * n /\ m * n \in Nat
  OBVIOUS
<1>3. q \in Nat /\ a % n \in 0..(n - 1) /\ (m <= q <=> m * n <= a)
  <2> HIDE DEF a
  <2> QED
    BY <1>1, <1>2, Quotient, Division
<1> DEFINE t == m * n
<1>4. a \in Nat /\ a < t /\ t \in Nat /\ (m <= q <=> t <= a)
  BY <1>2, <1>3
<1> HIDE DEF t, q, a
<1>5. ~(m <= q)
  BY <1>4
<1>6. q \in 0..(m - 1)
  BY <1>3, <1>5
<1> QED
  BY <1>1, <1>3, <1>6 DEF a, q

\* The two sweeps of a grid that does not fail, and its scenarios.
LEMMA GridGives ==
  ASSUME NEW a \in SweepConfig, SmallDrift(a), NEW b \in SweepConfig, SmallDrift(b),
         parameter_sweep_2d(a, b) # Err
  PROVE  /\ Sweepable(a) /\ Sweepable(b)
         /\ \E A, B \in Seq(FaultProfile) :
              /\ A = parameter_sweep(a).scenarios /\ B = parameter_sweep(b).scenarios
              /\ \A i \in DOMAIN A : \E k \in Nat :
                   A[i] = apply_param(a.base_profile, a.param, At(a, k))
              /\ \A i \in DOMAIN B : \E k \in Nat :
                   B[i] = apply_param(b.base_profile, b.param, At(b, k))
              /\ parameter_sweep_2d(a, b) = Ok([k \in 1..(Len(A) * Len(B)) |->
                   apply_param(A[((k - 1) \div Len(B)) + 1], b.param,
                     get_param_value(B[((k - 1) % Len(B)) + 1], b.param))])
<1>1. parameter_sweep(a) # Err /\ parameter_sweep(b) # Err
  BY DEF parameter_sweep_2d, Err
<1>2. ASSUME NEW c \in {a, b}
      PROVE  /\ Sweepable(c)
             /\ parameter_sweep(c).outcome = "ok"
             /\ parameter_sweep(c).scenarios \in Seq(FaultProfile)
             /\ \A i \in DOMAIN parameter_sweep(c).scenarios : \E k \in Nat :
                  parameter_sweep(c).scenarios[i]
                    = apply_param(c.base_profile, c.param, At(c, k))
  <2> DEFINE scenarios == [k \in 1..(Last(c) + 1) |->
                            apply_param(c.base_profile, c.param, At(c, k - 1))]
  <2>1. Sweepable(c) /\ Last(c) \in Nat /\ parameter_sweep(c) = Ok(scenarios)
    BY <1>1, SweepGives
  <2>2. parameter_sweep(c).outcome = "ok" /\ parameter_sweep(c).scenarios = scenarios
    BY <2>1 DEF Ok
  <2>3. ASSUME NEW i \in 1..(Last(c) + 1)
        PROVE  /\ i - 1 \in Nat
               /\ scenarios[i] = apply_param(c.base_profile, c.param, At(c, i - 1))
               /\ scenarios[i] \in FaultProfile
    <3>1. i - 1 \in Nat
      BY <2>1
    <3>2. apply_param(c.base_profile, c.param, At(c, i - 1)) \in FaultProfile
      BY <2>1, <3>1, SweepScenario
    <3> QED
      BY <3>1, <3>2
  <2>4. DOMAIN scenarios = 1..(Last(c) + 1) /\ Last(c) + 1 \in Nat
    BY <2>1
  <2>5. scenarios \in Seq(FaultProfile)
    BY <2>3, <2>4
  <2> QED
    BY <2>1, <2>2, <2>3, <2>4, <2>5
<1>3. "err" \notin {parameter_sweep(a).outcome, parameter_sweep(b).outcome}
  BY <1>2
<1> DEFINE A == parameter_sweep(a).scenarios
           B == parameter_sweep(b).scenarios
<1>4. parameter_sweep_2d(a, b) = Ok([k \in 1..(Len(A) * Len(B)) |->
                   apply_param(A[((k - 1) \div Len(B)) + 1], b.param,
                     get_param_value(B[((k - 1) % Len(B)) + 1], b.param))])
  BY <1>3 DEF parameter_sweep_2d
<1>5. /\ A \in Seq(FaultProfile) /\ B \in Seq(FaultProfile)
      /\ \A i \in DOMAIN A : \E k \in Nat :
           A[i] = apply_param(a.base_profile, a.param, At(a, k))
      /\ \A i \in DOMAIN B : \E k \in Nat :
           B[i] = apply_param(b.base_profile, b.param, At(b, k))
      /\ Sweepable(a) /\ Sweepable(b)
  BY <1>2
<1> HIDE DEF A, B
<1> QED
  BY <1>4, <1>5 DEF A, B

\* A cell of a grid is a profile, and a valid one within valid bounds.
LEMMA GridCell ==
  ASSUME NEW a, Sweepable(a), NEW b, Sweepable(b), NEW i \in Nat, NEW j \in Nat,
         NEW x, x = apply_param(a.base_profile, a.param, At(a, i)),
         NEW y, y = apply_param(b.base_profile, b.param, At(b, j))
  PROVE  LET cell == apply_param(x, b.param, get_param_value(y, b.param))
         IN  /\ cell \in FaultProfile
             /\ cell = [a.base_profile EXCEPT ![a.param] = x[a.param], ![b.param] = y[b.param]]
             /\ /\ RatesWithin(a.base_profile, a.min, a.max, a.param)
                /\ RatesWithin(b.base_profile, b.min, b.max, b.param)
                => ValidProfile(cell)
<1> DEFINE value == get_param_value(y, b.param)
           cell == apply_param(x, b.param, value)
<1>1. /\ a.base_profile \in FaultProfile /\ a.param \in SweepParam
      /\ b.base_profile \in FaultProfile /\ b.param \in SweepParam
  BY DEF Sweepable, SweepConfig
<1>2. x \in FaultProfile /\ y \in FaultProfile
  BY SweepScenario
<1>3. value \in Int /\ cell = [x EXCEPT ![b.param] = y[b.param]]
  BY <1>1, <1>2, ReadAndSet
<1>4. cell \in FaultProfile
  <2> HIDE DEF value
  <2> QED
    BY <1>1, <1>2, <1>3, Applied
<1>5. x = [a.base_profile EXCEPT ![a.param] = x[a.param]]
  <2>1. At(a, i) \in Int
    BY ValuesWithin
  <2> QED
    BY <1>1, <2>1, AppliedIs
<1>6. cell = [a.base_profile EXCEPT ![a.param] = x[a.param], ![b.param] = y[b.param]]
  BY <1>3, <1>5
<1>7. ASSUME RatesWithin(a.base_profile, a.min, a.max, a.param),
             RatesWithin(b.base_profile, b.min, b.max, b.param)
      PROVE  ValidProfile(cell)
  <2>1. ValidProfile(x)
    BY <1>7, SweepScenario
  <2>2. b.param \notin Integer => 0 <= value /\ value <= Unit
    <3> SUFFICES ASSUME b.param \notin Integer PROVE 0 <= value /\ value <= Unit
      OBVIOUS
    <3>1. value = At(b, j)
      BY SweepScenario
    <3>2. At(b, j) \in Int /\ b.min <= At(b, j) /\ At(b, j) <= b.max
      BY ValuesWithin
    <3>3. 0 <= b.min /\ b.max <= Unit
      BY <1>7 DEF RatesWithin
    <3>4. b.min \in Int /\ b.max \in Int /\ Unit \in Int
      BY RoomFacts, UnitAssumption
    <3> HIDE DEF value
    <3> QED
      BY <3>1, <3>2, <3>3, <3>4
  <2> HIDE DEF value
  <2> QED
    BY <1>1, <1>2, <1>3, <2>1, <2>2, AppliedValid
<1> QED
  BY <1>4, <1>6, <1>7

LEMMA CellPlaces ==
  ASSUME NEW S, NEW A \in Seq(S), NEW B \in Seq(S), NEW k \in 1..(Len(A) * Len(B))
  PROVE  ((k - 1) \div Len(B)) + 1 \in DOMAIN A /\ ((k - 1) % Len(B)) + 1 \in DOMAIN B
<1> DEFINE m == Len(A)
           n == Len(B)
<1>1. m \in Nat /\ n \in Nat /\ k \in 1..(m * n) /\ DOMAIN A = 1..m /\ DOMAIN B = 1..n
  OBVIOUS
<1> HIDE DEF m, n
<1>2. (k - 1) \div n \in 0..(m - 1) /\ (k - 1) % n \in 0..(n - 1)
  BY <1>1, PairPlaces
<1> DEFINE u == (k - 1) \div n
           v == (k - 1) % n
<1>3. u \in 0..(m - 1) /\ v \in 0..(n - 1)
  BY <1>2
<1> HIDE DEF u, v
<1>4. u + 1 \in DOMAIN A /\ v + 1 \in DOMAIN B
  BY <1>1, <1>3
<1> QED
  BY <1>4 DEF m, n, u, v

\* Grids are the products of their sweeps.
LEMMA GridsAreProducts ==
  ASSUME NEW a \in SweepConfig, SmallDrift(a), NEW b \in SweepConfig, SmallDrift(b),
         parameter_sweep_2d(a, b).outcome = "ok"
  PROVE  IsProduct(a, b, parameter_sweep_2d(a, b).scenarios)
<1>1. parameter_sweep_2d(a, b) # Err
  BY DEF Err
<1>2. Sweepable(a) /\ Sweepable(b)
  BY <1>1, GridGives
<1>3. PICK A, B \in Seq(FaultProfile) :
         /\ A = parameter_sweep(a).scenarios /\ B = parameter_sweep(b).scenarios
         /\ \A i \in DOMAIN A : \E k \in Nat :
              A[i] = apply_param(a.base_profile, a.param, At(a, k))
         /\ \A i \in DOMAIN B : \E k \in Nat :
              B[i] = apply_param(b.base_profile, b.param, At(b, k))
         /\ parameter_sweep_2d(a, b) = Ok([k \in 1..(Len(A) * Len(B)) |->
              apply_param(A[((k - 1) \div Len(B)) + 1], b.param,
                get_param_value(B[((k - 1) % Len(B)) + 1], b.param))])
  BY <1>1, GridGives
<1> DEFINE Cell(k) == apply_param(A[((k - 1) \div Len(B)) + 1], b.param,
                       get_param_value(B[((k - 1) % Len(B)) + 1], b.param))
           Pair(k) == [a.base_profile EXCEPT
                        ![a.param] = A[((k - 1) \div Len(B)) + 1][a.param],
                        ![b.param] = B[((k - 1) % Len(B)) + 1][b.param]]
           cells == 1..(Len(A) * Len(B))
<1>4. ASSUME NEW k \in cells PROVE Cell(k) = Pair(k)
  <2> DEFINE i == ((k - 1) \div Len(B)) + 1
             j == ((k - 1) % Len(B)) + 1
  <2>1. i \in DOMAIN A /\ j \in DOMAIN B
    BY CellPlaces
  <2> HIDE DEF i, j
  <2>2. PICK s \in Nat : A[i] = apply_param(a.base_profile, a.param, At(a, s))
    BY <1>3, <2>1
  <2>3. PICK t \in Nat : B[j] = apply_param(b.base_profile, b.param, At(b, t))
    BY <1>3, <2>1
  <2>4. apply_param(A[i], b.param, get_param_value(B[j], b.param))
          = [a.base_profile EXCEPT ![a.param] = A[i][a.param], ![b.param] = B[j][b.param]]
    BY <1>2, <2>2, <2>3, GridCell
  <2> QED
    BY <2>4 DEF i, j
<1>5. parameter_sweep_2d(a, b).scenarios = [k \in cells |-> Cell(k)]
  BY <1>3 DEF Ok
<1>6. [k \in cells |-> Cell(k)] = [k \in cells |-> Pair(k)]
  <2> HIDE DEF Cell, Pair, cells
  <2> QED
    BY <1>4
<1>7. parameter_sweep_2d(a, b).scenarios = [k \in cells |-> Pair(k)]
  <2> HIDE DEF Cell, Pair, cells
  <2> QED
    BY <1>5, <1>6
<1> QED
  BY <1>3, <1>7, Zenon DEF IsProduct

\* What a grid gives loads, within valid bounds.
LEMMA GridScenario ==
  ASSUME NEW a \in SweepConfig, SmallDrift(a), NEW b \in SweepConfig, SmallDrift(b),
         NEW k \in DOMAIN parameter_sweep_2d(a, b).scenarios
  PROVE  /\ parameter_sweep_2d(a, b).scenarios[k] \in FaultProfile
         /\ /\ RatesWithin(a.base_profile, a.min, a.max, a.param)
            /\ RatesWithin(b.base_profile, b.min, b.max, b.param)
            => ValidProfile(parameter_sweep_2d(a, b).scenarios[k])
<1>1. parameter_sweep_2d(a, b) # Err
  BY DEF Err
<1>2. Sweepable(a) /\ Sweepable(b)
  BY <1>1, GridGives
<1>3. PICK A, B \in Seq(FaultProfile) :
         /\ A = parameter_sweep(a).scenarios /\ B = parameter_sweep(b).scenarios
         /\ \A i \in DOMAIN A : \E n \in Nat :
              A[i] = apply_param(a.base_profile, a.param, At(a, n))
         /\ \A i \in DOMAIN B : \E n \in Nat :
              B[i] = apply_param(b.base_profile, b.param, At(b, n))
         /\ parameter_sweep_2d(a, b) = Ok([n \in 1..(Len(A) * Len(B)) |->
              apply_param(A[((n - 1) \div Len(B)) + 1], b.param,
                get_param_value(B[((n - 1) % Len(B)) + 1], b.param))])
  BY <1>1, GridGives
<1> DEFINE Cell(n) == apply_param(A[((n - 1) \div Len(B)) + 1], b.param,
                       get_param_value(B[((n - 1) % Len(B)) + 1], b.param))
           cells == 1..(Len(A) * Len(B))
           i == ((k - 1) \div Len(B)) + 1
           j == ((k - 1) % Len(B)) + 1
<1>4. parameter_sweep_2d(a, b).scenarios = [n \in cells |-> Cell(n)]
  BY <1>3 DEF Ok
<1>5. k \in cells /\ parameter_sweep_2d(a, b).scenarios[k] = Cell(k)
  <2> HIDE DEF Cell, cells
  <2> QED
    BY <1>4
<1>6. i \in DOMAIN A /\ j \in DOMAIN B
  BY <1>5, CellPlaces
<1> HIDE DEF i, j
<1>7. PICK s \in Nat : A[i] = apply_param(a.base_profile, a.param, At(a, s))
  BY <1>3, <1>6
<1>8. PICK t \in Nat : B[j] = apply_param(b.base_profile, b.param, At(b, t))
  BY <1>3, <1>6
<1> DEFINE cell == apply_param(A[i], b.param, get_param_value(B[j], b.param))
<1>9. /\ cell \in FaultProfile
      /\ /\ RatesWithin(a.base_profile, a.min, a.max, a.param)
         /\ RatesWithin(b.base_profile, b.min, b.max, b.param)
         => ValidProfile(cell)
  <2> DEFINE x == A[i]
             y == B[j]
  <2>1. /\ x = apply_param(a.base_profile, a.param, At(a, s))
        /\ y = apply_param(b.base_profile, b.param, At(b, t))
    BY <1>7, <1>8
  <2> HIDE DEF x, y
  <2>2. LET z == apply_param(x, b.param, get_param_value(y, b.param))
        IN  /\ z \in FaultProfile
            /\ /\ RatesWithin(a.base_profile, a.min, a.max, a.param)
               /\ RatesWithin(b.base_profile, b.min, b.max, b.param)
               => ValidProfile(z)
    BY <1>2, <2>1, GridCell
  <2> QED
    BY <2>2 DEF x, y
<1>10. parameter_sweep_2d(a, b).scenarios[k] = cell
  BY <1>5 DEF i, j
<1> HIDE DEF cell
<1> QED
  BY <1>9, <1>10

\* What a sweep gives loads, within valid bounds.
LEMMA SweepsScenario ==
  ASSUME NEW c \in SweepConfig, SmallDrift(c),
         NEW k \in DOMAIN parameter_sweep(c).scenarios
  PROVE  /\ parameter_sweep(c).scenarios[k] \in FaultProfile
         /\ RatesWithin(c.base_profile, c.min, c.max, c.param) =>
              ValidProfile(parameter_sweep(c).scenarios[k])
<1> DEFINE scenarios == [n \in 1..(Last(c) + 1) |->
                          apply_param(c.base_profile, c.param, At(c, n - 1))]
<1>1. parameter_sweep(c) # Err
  BY DEF Err
<1>2. Sweepable(c) /\ Last(c) \in Nat /\ parameter_sweep(c).scenarios = scenarios
  BY <1>1, SweepGives DEF Ok
<1>3. /\ k - 1 \in Nat
      /\ parameter_sweep(c).scenarios[k] = apply_param(c.base_profile, c.param, At(c, k - 1))
  BY <1>2
<1> HIDE DEF scenarios
<1> QED
  BY <1>2, <1>3, SweepScenario

----------------------------------------------------------------------------
(* What a fuzz gives.                                                      *)

\* A draw is a number within the range.
LEMMA DrawnWithin ==
  ASSUME NEW range \in Int \X Int, range[1] <= range[2], NEW draw \in Nat
  PROVE  /\ random_range(range, draw) \in Int
         /\ range[1] <= random_range(range, draw)
         /\ random_range(range, draw) <= range[2]
<1> DEFINE min == range[1]
           max == range[2]
           width == max - min + 1
<1>1. min \in Int /\ max \in Int /\ min <= max /\ width \in Int /\ width > 0
  OBVIOUS
<1>2. random_range(range, draw) = min + (draw % width)
  BY DEF random_range
<1> HIDE DEF width
<1>3. draw % width \in 0..(width - 1)
  BY <1>1
<1> DEFINE rest == draw % width
<1> HIDE DEF rest, min, max
<1>4. min + rest \in Int /\ min <= min + rest /\ min + rest <= max
  <2>1. width = max - min + 1 /\ rest \in 0..(width - 1)
    BY <1>3 DEF width, min, max, rest
  <2> QED
    BY <1>1, <2>1
<1> QED
  BY <1>2, <1>4 DEF rest, min, max

\* A scenario takes no more draws than there are parameters.
LEMMA DrawsCounted ==
  ASSUME NEW c \in FuzzConfig, NEW i \in 1..c.num_scenarios, NEW p
  PROVE  (i - 1) * Cardinality(Drawn(c.ranges)) + Rank(c.ranges, p)
           \in 0..(c.num_scenarios * Len(FuzzOrder))
<1>1. Len(FuzzOrder) = 6 /\ DOMAIN FuzzOrder = 1..6
  BY DEF FuzzOrder
<1>2. ASSUME NEW S, S \subseteq 1..6
      PROVE  Cardinality(S) \in 0..6
  <2> DEFINE six == 6
  <2>1. six \in Int /\ 1 <= six
    OBVIOUS
  <2> HIDE DEF six
  <2>2. IsFiniteSet(1..six) /\ Cardinality(1..six) = six
    BY <2>1, FS_Interval
  <2>3. S \subseteq 1..six
    BY <1>2 DEF six
  <2>4. IsFiniteSet(S) /\ Cardinality(S) <= six
    BY <2>2, <2>3, FS_Subset
  <2>5. Cardinality(S) \in Nat
    BY <2>4, FS_CardinalityType
  <2> QED
    BY <2>4, <2>5 DEF six
<1>4. Cardinality(Drawn(c.ranges)) \in 0..6 /\ Rank(c.ranges, p) \in 0..6
  <2>1. Drawn(c.ranges) \subseteq 1..6
    BY <1>1 DEF Drawn
  <2>2. {k \in Drawn(c.ranges) : \E l \in k..Len(FuzzOrder) : FuzzOrder[l] = p} \subseteq 1..6
    BY <2>1
  <2> QED
    BY <1>2, <2>1, <2>2 DEF Rank
<1> DEFINE d == Cardinality(Drawn(c.ranges))
           r == Rank(c.ranges, p)
           n == c.num_scenarios
           before == i - 1
<1>5. n \in Nat /\ before \in Nat /\ before + 1 <= n /\ d \in 0..6 /\ r \in 0..6
  BY <1>4 DEF FuzzConfig
<1> HIDE DEF d, r, n, before
<1>6. before * d \in Nat /\ before * d <= before * 6
  <2>1. before * d \in Nat /\ before * (6 - d) \in Nat
    BY <1>5
  <2>2. before * 6 = before * d + before * (6 - d)
    BY <1>5
  <2> QED
    BY <1>5, <2>1, <2>2
<1> DEFINE x == before * d
<1>7. x \in Nat /\ x <= before * 6
  BY <1>6
<1> HIDE DEF x
<1>8. x + r \in 0..(n * 6)
  BY <1>5, <1>7
<1> QED
  BY <1>1, <1>8 DEF x, d, r, n, before

\* Scenario i of a fuzz.
FuzzProfile(c, i) ==
  [p \in SweepParam |->
     IF c.ranges[p] = NoRange THEN c.base_profile[p]
     ELSE random_range(c.ranges[p], Draw(c.seed,
            (i - 1) * Cardinality(Drawn(c.ranges)) + Rank(c.ranges, p)))]

\* No range is the wrong way round.
Ordinary(c) == \A k \in Drawn(c.ranges) :
                 ~(c.ranges[FuzzOrder[k]][1] > c.ranges[FuzzOrder[k]][2])

\* A fuzz fails or panics, or gives as many scenarios as were asked for.
LEMMA FuzzGives ==
  ASSUME NEW c \in FuzzConfig
  PROVE  \/ random_fuzz(c) \in {Err, Panic}
         \/ /\ c.num_scenarios # 0 /\ Ordinary(c)
            /\ random_fuzz(c) =
                 Ok([i \in 1..c.num_scenarios |->
                      [seed |-> RecordedSeed(c, i), profile |-> FuzzProfile(c, i)]])
<1>1. CASE c.num_scenarios = 0
  BY <1>1 DEF random_fuzz
<1>2. CASE c.num_scenarios # 0 /\ ~Ordinary(c)
  BY <1>2 DEF random_fuzz, Ordinary
<1>3. CASE c.num_scenarios # 0 /\ Ordinary(c)
  BY <1>3 DEF random_fuzz, Ordinary, FuzzProfile
<1> QED
  BY <1>1, <1>2, <1>3

\* Every parameter with a range is drawn, so its range is not reversed.
LEMMA RangesOrdinary ==
  ASSUME NEW c \in FuzzConfig, Ordinary(c), NEW p \in SweepParam, c.ranges[p] # NoRange
  PROVE  c.ranges[p] \in Int \X Int /\ c.ranges[p][1] <= c.ranges[p][2]
<1>1. c.ranges[p] \in Int \X Int
  BY DEF FuzzConfig
<1>2. PICK k \in DOMAIN FuzzOrder : FuzzOrder[k] = p
  BY DEF SweepParam, Integer, FuzzOrder
<1>3. k \in Drawn(c.ranges)
  BY <1>2 DEF Drawn
<1>4. ~(c.ranges[p][1] > c.ranges[p][2])
  BY <1>2, <1>3 DEF Ordinary
<1> QED
  BY <1>1, <1>4

\* The draws of a requested fuzz are numbers, and its unsigned ranges are.
FuzzRequest(c) ==
  /\ c \in FuzzConfig /\ Unsigned(c.ranges)
  /\ \A n \in 0..(c.num_scenarios * Len(FuzzOrder)) : Draw(c.seed, n) \in Nat

LEMMA FuzzField ==
  ASSUME NEW c, FuzzRequest(c), Ordinary(c), NEW i \in 1..c.num_scenarios, NEW p \in SweepParam
  PROVE  /\ FuzzProfile(c, i)[p] \in Int
         /\ p \in Integer => FuzzProfile(c, i)[p] \in Nat
         /\ c.ranges[p] = NoRange => FuzzProfile(c, i)[p] = c.base_profile[p]
         /\ c.ranges[p] # NoRange => /\ c.ranges[p][1] <= FuzzProfile(c, i)[p]
                                     /\ FuzzProfile(c, i)[p] <= c.ranges[p][2]
                                     /\ c.ranges[p] \in Int \X Int
<1> DEFINE value == FuzzProfile(c, i)[p]
           place == (i - 1) * Cardinality(Drawn(c.ranges)) + Rank(c.ranges, p)
<1>1. c \in FuzzConfig /\ Unsigned(c.ranges)
  BY DEF FuzzRequest
<1>2. value = IF c.ranges[p] = NoRange THEN c.base_profile[p]
              ELSE random_range(c.ranges[p], Draw(c.seed, place))
  BY DEF FuzzProfile
<1> HIDE DEF value
<1>3. CASE c.ranges[p] = NoRange
  <2>1. c.base_profile \in FaultProfile
    BY <1>1 DEF FuzzConfig
  <2>2. value \in Int /\ (p \in Integer => value \in Nat)
    BY <1>2, <1>3, <2>1, FieldTypes
  <2> QED
    BY <1>2, <1>3, <2>2 DEF value
<1>4. CASE c.ranges[p] # NoRange
  <2>1. c.ranges[p] \in Int \X Int /\ c.ranges[p][1] <= c.ranges[p][2]
    BY <1>1, <1>4, RangesOrdinary
  <2>2. Draw(c.seed, place) \in Nat
    BY <1>1, DrawsCounted DEF FuzzRequest
  <2>3. value = random_range(c.ranges[p], Draw(c.seed, place))
    BY <1>2, <1>4
  <2> HIDE DEF place
  <2>4. value \in Int /\ c.ranges[p][1] <= value /\ value <= c.ranges[p][2]
    BY <2>1, <2>2, <2>3, DrawnWithin
  <2>5. p \in Integer => value \in Nat
    <3>1. p \in Integer => c.ranges[p][1] >= 0
      BY <1>1, <1>4 DEF Unsigned
    <3>2. c.ranges[p][1] \in Int
      BY <2>1
    <3> QED
      BY <2>4, <3>1, <3>2
  <2> QED
    BY <1>4, <2>1, <2>4, <2>5 DEF value
<1> QED
  BY <1>3, <1>4

\* What a fuzz gives loads, within valid bounds.
LEMMA FuzzScenario ==
  ASSUME NEW c, FuzzRequest(c), NEW k \in DOMAIN random_fuzz(c).scenarios
  PROVE  /\ random_fuzz(c).scenarios[k].profile \in FaultProfile
         /\ /\ ValidProfile(c.base_profile)
            /\ \A p \in {"loss_rate", "duplicate_rate"} :
                 c.ranges[p] # NoRange => 0 <= c.ranges[p][1] /\ c.ranges[p][2] <= Unit
            => ValidProfile(random_fuzz(c).scenarios[k].profile)
<1>1. c \in FuzzConfig
  BY DEF FuzzRequest
<1>2. random_fuzz(c) \notin {Err, Panic}
  BY DEF Err, Panic
<1>3. /\ Ordinary(c)
      /\ k \in 1..c.num_scenarios
      /\ random_fuzz(c).scenarios[k].profile = FuzzProfile(c, k)
  <2> DEFINE Entry(i) == [seed |-> RecordedSeed(c, i), profile |-> FuzzProfile(c, i)]
  <2>1. Ordinary(c) /\ random_fuzz(c) = Ok([i \in 1..c.num_scenarios |-> Entry(i)])
    BY <1>1, <1>2, FuzzGives
  <2>2. random_fuzz(c).scenarios = [i \in 1..c.num_scenarios |-> Entry(i)]
    BY <2>1 DEF Ok
  <2>3. Entry(k).profile = FuzzProfile(c, k)
    OBVIOUS
  <2> HIDE DEF Entry
  <2>4. k \in 1..c.num_scenarios /\ random_fuzz(c).scenarios[k] = Entry(k)
    BY <2>2
  <2> QED
    BY <2>1, <2>3, <2>4
<1> DEFINE profile == FuzzProfile(c, k)
<1>4. \A p \in SweepParam : profile[p] \in Int /\ (p \in Integer => profile[p] \in Nat)
  BY <1>3, FuzzField
<1>5. profile = [p \in SweepParam |-> profile[p]]
  BY DEF FuzzProfile
<1>6. profile \in FaultProfile
  <2> HIDE DEF profile
  <2> QED
    BY <1>4, <1>5 DEF FaultProfile, SweepParam, Integer
<1>7. ASSUME ValidProfile(c.base_profile),
             NEW p \in {"loss_rate", "duplicate_rate"},
             c.ranges[p] # NoRange => 0 <= c.ranges[p][1] /\ c.ranges[p][2] <= Unit
      PROVE  IsRate(profile[p])
  <2>1. p \in SweepParam
    BY DEF SweepParam
  <2>2. CASE c.ranges[p] = NoRange
    <3>1. profile[p] = c.base_profile[p]
      BY <1>3, <2>1, <2>2, FuzzField
    <3>2. IsRate(c.base_profile[p])
      BY <1>7 DEF ValidProfile
    <3> QED
      BY <3>1, <3>2
  <2>3. CASE c.ranges[p] # NoRange
    <3>1. /\ c.ranges[p][1] <= profile[p] /\ profile[p] <= c.ranges[p][2]
          /\ c.ranges[p] \in Int \X Int /\ profile[p] \in Int
      BY <1>3, <2>1, <2>3, FuzzField
    <3>2. 0 <= c.ranges[p][1] /\ c.ranges[p][2] <= Unit
      BY <1>7, <2>3
    <3>3. c.ranges[p][1] \in Int /\ c.ranges[p][2] \in Int
      BY <3>1
    <3> HIDE DEF profile
    <3> QED
      BY <3>1, <3>2, <3>3, UnitAssumption DEF IsRate
  <2> QED
    BY <2>2, <2>3
<1>8. ASSUME ValidProfile(c.base_profile),
             \A p \in {"loss_rate", "duplicate_rate"} :
               c.ranges[p] # NoRange => 0 <= c.ranges[p][1] /\ c.ranges[p][2] <= Unit
      PROVE  ValidProfile(profile)
  BY <1>7, <1>8 DEF ValidProfile
<1> QED
  BY <1>3, <1>6, <1>8

\* A longer fuzz from the same seed begins with the shorter, and the first
\* scenario comes again from its own seed.
LEMMA FuzzAgain ==
  ASSUME NEW c \in FuzzConfig, random_fuzz(c).outcome = "ok"
  PROVE  LET fuzz  == random_fuzz(c)
             again == random_fuzz([c EXCEPT !.num_scenarios = 1,
                                            !.seed = fuzz.scenarios[1].seed])
             more  == random_fuzz([c EXCEPT !.num_scenarios = @ + 1])
         IN  /\ again.scenarios[1].profile = fuzz.scenarios[1].profile
             /\ SubSeq(more.scenarios, 1, c.num_scenarios) = fuzz.scenarios
<1> DEFINE Entry(d, i) == [seed |-> RecordedSeed(d, i), profile |-> FuzzProfile(d, i)]
           n == c.num_scenarios
           d == [c EXCEPT !.num_scenarios = 1, !.seed = random_fuzz(c).scenarios[1].seed]
           e == [c EXCEPT !.num_scenarios = @ + 1]
<1>1. random_fuzz(c) \notin {Err, Panic}
  BY DEF Err, Panic
<1>2. n # 0 /\ Ordinary(c) /\ random_fuzz(c) = Ok([i \in 1..n |-> Entry(c, i)])
  BY <1>1, FuzzGives
<1>3. random_fuzz(c).scenarios = [i \in 1..n |-> Entry(c, i)]
  BY <1>2 DEF Ok
<1>4. n \in Nat /\ n > 0 /\ 1 \in 1..n /\ c.seed \in 0..(SeedModulus - 1)
  BY <1>2 DEF FuzzConfig
<1>5. random_fuzz(c).scenarios[1] = Entry(c, 1)
  <2> HIDE DEF Entry, n
  <2> QED
    BY <1>3, <1>4
<1>6. random_fuzz(c).scenarios[1].seed = c.seed
  <2>1. RecordedSeed(c, 1) = c.seed
    BY <1>4, SeedAssumption DEF RecordedSeed
  <2> QED
    BY <1>5, <2>1
<1>7. d \in FuzzConfig /\ d.num_scenarios = 1 /\ d.seed = c.seed
      /\ d.ranges = c.ranges /\ d.base_profile = c.base_profile
  BY <1>6, <1>4 DEF FuzzConfig
<1>8. e \in FuzzConfig /\ e.num_scenarios = n + 1 /\ e.seed = c.seed
      /\ e.ranges = c.ranges /\ e.base_profile = c.base_profile
  BY <1>4 DEF FuzzConfig
<1>9. ASSUME NEW f, f \in {d, e}, NEW i \in Nat
      PROVE  FuzzProfile(f, i) = FuzzProfile(c, i) /\ RecordedSeed(f, i) = RecordedSeed(c, i)
  <2>1. f.seed = c.seed /\ f.ranges = c.ranges /\ f.base_profile = c.base_profile
    BY <1>7, <1>8, <1>9
  <2> QED
    BY <2>1 DEF FuzzProfile, RecordedSeed
<1>10. ASSUME NEW f, f \in {d, e}
       PROVE  random_fuzz(f).scenarios = [i \in 1..f.num_scenarios |-> Entry(f, i)]
  <2>1. f \in FuzzConfig /\ f.ranges = c.ranges /\ f.num_scenarios # 0
    <3>1. n + 1 # 0
      BY <1>4
    <3>2. CASE f = d
      BY <1>7, <3>2
    <3>3. CASE f = e
      BY <1>8, <3>1, <3>3
    <3> HIDE DEF d, e
    <3> QED
      BY <1>10, <3>2, <3>3
  <2>2. Ordinary(f)
    BY <1>2, <2>1 DEF Ordinary
  <2>3. random_fuzz(f) = Ok([i \in 1..f.num_scenarios |-> Entry(f, i)])
    BY <2>1, <2>2 DEF random_fuzz, Ordinary, FuzzProfile
  <2> QED
    BY <2>3 DEF Ok
<1>11. random_fuzz(d).scenarios[1].profile = random_fuzz(c).scenarios[1].profile
  <2>1. random_fuzz(d).scenarios = [i \in 1..1 |-> Entry(d, i)]
    BY <1>7, <1>10
  <2>2. random_fuzz(d).scenarios[1].profile = FuzzProfile(d, 1)
    BY <2>1
  <2> QED
    BY <1>5, <1>9, <2>2
<1>12. SubSeq(random_fuzz(e).scenarios, 1, n) = random_fuzz(c).scenarios
  <2>1. random_fuzz(e).scenarios = [i \in 1..(n + 1) |-> Entry(e, i)]
    BY <1>8, <1>10
  <2>2. ASSUME NEW i \in 1..n PROVE Entry(e, i) = Entry(c, i)
    BY <1>9
  <2>3. SubSeq([i \in 1..(n + 1) |-> Entry(e, i)], 1, n) = [i \in 1..n |-> Entry(e, i)]
    <3> HIDE DEF Entry, n, e
    <3> QED
      BY <1>4
  <2>4. [i \in 1..n |-> Entry(e, i)] = [i \in 1..n |-> Entry(c, i)]
    <3> HIDE DEF Entry, n, e
    <3> QED
      BY <2>2
  <2> HIDE DEF Entry, n, e
  <2> QED
    BY <1>3, <2>1, <2>3, <2>4
<1> QED
  BY <1>11, <1>12

----------------------------------------------------------------------------
(* The batches and the search, as they are reached.                        *)

\* The value a mission runs at was proposed within the range: a stray report
\* may have moved the bracket since, but never out of it.
RunsWithin ==
  Ordered /\ running # Idle => config.min <= running /\ running <= config.max

\* A batch is what was asked for, and is there once asked for.
BatchIsGenerated ==
  /\ request \in Requests \cup {NoRequest}
  /\ batch \in {Waiting, Generated(request)}
  /\ request = NoRequest => batch = Waiting

GenerationInv == SearchInv /\ RunsWithin /\ BatchIsGenerated

LEMMA InitGenerationInv == Init => GenerationInv
<1> SUFFICES ASSUME Init PROVE GenerationInv
  OBVIOUS
<1>1. SearchInv
  BY SearchInitInv DEF Init
<1>2. RunsWithin
  BY DEF Init, SearchInit, RunsWithin
<1>3. BatchIsGenerated
  BY DEF Init, BatchIsGenerated
<1> QED
  BY <1>1, <1>2, <1>3 DEF GenerationInv

\* Asking within a nested bracket proposes a value within the range.
LEMMA AskWithin == SearchInv /\ Ask => RunsWithin'
<1> SUFFICES ASSUME SearchInv, Ask, Ordered' PROVE config.min <= Mid /\ Mid <= config.max
  BY DEF Ask, search, RunsWithin
<1>1. Ordered /\ low \in Int /\ high \in Int /\ config.min \in Int /\ config.max \in Int
  BY ConfigsAssumption DEF Ask, search, Ordered, SearchInv, SearchTypeOK
<1>2. config.min <= low /\ low <= high /\ high <= config.max
  BY <1>1 DEF SearchInv, Bracket, Nested
<1>3. Mid \in Int /\ low <= Mid /\ Mid <= high
  BY <1>1, <1>2, MidBetween DEF Mid
<1> QED
  BY <1>1, <1>2, <1>3

LEMMA NextGenerationInv == GenerationInv /\ [Next]_vars => GenerationInv'
<1> SUFFICES ASSUME GenerationInv, [Next]_vars PROVE GenerationInv'
  OBVIOUS
<1>1. CASE Generate
  <2>1. SearchInv'
    BY <1>1, SearchStutterInv DEF Generate, GenerationInv
  <2>2. RunsWithin'
    BY <1>1 DEF Generate, GenerationInv, RunsWithin, Ordered, searchVars, search
  <2>3. BatchIsGenerated'
    BY <1>1 DEF Generate, GenerationInv, BatchIsGenerated
  <2> QED
    BY <2>1, <2>2, <2>3 DEF GenerationInv
<1>2. CASE Search
  <2>1. SearchInv /\ SearchNext
    BY <1>2 DEF Search, GenerationInv
  <2>2. SearchInv'
    BY <2>1, AskInv, ReportInv, StrayInv DEF SearchNext
  <2>3. RunsWithin'
    <3>1. CASE Ask
      BY <2>1, <3>1, AskWithin
    <3>2. CASE Report
      BY <3>2 DEF Report, RunsWithin
    <3>3. CASE Stray
      BY <3>3 DEF Stray, report_result, GenerationInv, RunsWithin, Ordered
    <3> QED
      BY <2>1, <3>1, <3>2, <3>3 DEF SearchNext
  <2>4. BatchIsGenerated'
    BY <1>2 DEF Search, GenerationInv, BatchIsGenerated
  <2> QED
    BY <2>2, <2>3, <2>4 DEF GenerationInv
<1>3. CASE UNCHANGED vars
  <2>1. SearchInv'
    BY <1>3, SearchStutterInv DEF vars, GenerationInv
  <2>2. RunsWithin'
    BY <1>3 DEF vars, GenerationInv, RunsWithin, Ordered, searchVars, search
  <2>3. BatchIsGenerated'
    BY <1>3 DEF vars, GenerationInv, BatchIsGenerated
  <2> QED
    BY <2>1, <2>2, <2>3 DEF GenerationInv
<1> QED
  BY <1>1, <1>2, <1>3 DEF Next

THEOREM GenerationInvariance == Spec => []GenerationInv
BY InitGenerationInv, NextGenerationInv, PTL DEF Spec

\* What a request brings.
LEMMA Requested ==
  ASSUME NEW r \in Requests
  PROVE  \/ /\ r.kind = "sweep" /\ r.config \in SweepConfig /\ SmallDrift(r.config)
            /\ Generated(r) = parameter_sweep(r.config)
         \/ /\ r.kind = "grid"
            /\ r.config_a \in SweepConfig /\ SmallDrift(r.config_a)
            /\ r.config_b \in SweepConfig /\ SmallDrift(r.config_b)
            /\ Generated(r) = parameter_sweep_2d(r.config_a, r.config_b)
         \/ /\ r.kind = "fuzz" /\ FuzzRequest(r.config)
            /\ Generated(r) = random_fuzz(r.config)
<1>1. CASE r \in [kind : {"sweep"}, config : SweepConfig] /\ SmallDrift(r.config)
  BY <1>1 DEF Generated
<1>2. CASE /\ r \in [kind : {"grid"}, config_a : SweepConfig, config_b : SweepConfig]
           /\ SmallDrift(r.config_a) /\ SmallDrift(r.config_b)
  BY <1>2 DEF Generated
<1>3. CASE /\ r \in [kind : {"fuzz"}, config : FuzzConfig]
           /\ Unsigned(r.config.ranges)
           /\ \A n \in 0..(r.config.num_scenarios * Len(FuzzOrder)) :
                Draw(r.config.seed, n) \in Nat
  BY <1>3 DEF Generated, FuzzRequest
<1> QED
  BY <1>1, <1>2, <1>3, RequestsAssumption

\* Sweeps cover their range and grids are the products of their sweeps,
\* whatever the bounds, the step and the drift within the loop's allowance.
THEOREM SweepsCoverAll == Spec => []SweepsCover
<1>1. GenerationInv => SweepsCover
  <2> SUFFICES ASSUME GenerationInv, request # NoRequest, batch.outcome = "ok"
               PROVE  /\ request.kind = "sweep" /\ request.config.param \notin Integer =>
                           Covers(request.config, batch.scenarios)
                      /\ request.kind = "grid" =>
                           IsProduct(request.config_a, request.config_b, batch.scenarios)
    BY DEF SweepsCover
  <2>1. request \in Requests /\ batch = Generated(request)
    BY DEF GenerationInv, BatchIsGenerated, Waiting
  <2>2. CASE request.kind = "sweep"
    <3>1. /\ request.config \in SweepConfig /\ SmallDrift(request.config)
          /\ batch = parameter_sweep(request.config)
      BY <2>1, <2>2, Requested
    <3> QED
      BY <2>2, <3>1, SweepCovers
  <2>3. CASE request.kind = "grid"
    <3>1. /\ request.config_a \in SweepConfig /\ SmallDrift(request.config_a)
          /\ request.config_b \in SweepConfig /\ SmallDrift(request.config_b)
          /\ batch = parameter_sweep_2d(request.config_a, request.config_b)
      BY <2>1, <2>3, Requested
    <3> QED
      BY <2>3, <3>1, GridsAreProducts
  <2> QED
    BY <2>2, <2>3
<1> QED
  BY <1>1, GenerationInvariance, PTL

\* A fuzz repeats from its seed, whatever the generator draws.
THEOREM FuzzAlwaysRepeats == Spec => []FuzzRepeats
<1>1. GenerationInv => FuzzRepeats
  <2> SUFFICES ASSUME GenerationInv, request # NoRequest, batch.outcome = "ok",
                      request.kind = "fuzz"
               PROVE  LET c     == request.config
                          again == random_fuzz([c EXCEPT !.num_scenarios = 1,
                                                  !.seed = batch.scenarios[1].seed])
                          more  == random_fuzz([c EXCEPT !.num_scenarios = @ + 1])
                      IN  /\ again.scenarios[1].profile = batch.scenarios[1].profile
                          /\ SubSeq(more.scenarios, 1, c.num_scenarios) = batch.scenarios
    BY DEF FuzzRepeats
  <2>1. request \in Requests /\ batch = Generated(request)
    BY DEF GenerationInv, BatchIsGenerated, Waiting
  <2>2. request.config \in FuzzConfig /\ batch = random_fuzz(request.config)
    BY <2>1, Requested DEF FuzzRequest
  <2> QED
    BY <2>2, FuzzAgain
<1> QED
  BY <1>1, GenerationInvariance, PTL

\* A profile that is generated, or proposed by the search, from a valid one
\* within valid bounds passes the rules of scenario files.
THEOREM GeneratedProfilesAllLoad == Spec => []GeneratedProfilesLoad
<1>1. ASSUME GenerationInv, request # NoRequest, Sound(request),
             NEW i \in DOMAIN batch.scenarios
      PROVE  /\ ProfileOf(request, i) \in FaultProfile
             /\ validate(ScenarioWith(ProfileOf(request, i)))
  <2>1. request \in Requests /\ batch = Generated(request)
    BY <1>1 DEF GenerationInv, BatchIsGenerated, Waiting
  <2>2. /\ ProfileOf(request, i) \in FaultProfile
        /\ ValidProfile(ProfileOf(request, i))
    <3>1. CASE request.kind = "sweep"
      <4>1. /\ request.config \in SweepConfig /\ SmallDrift(request.config)
            /\ batch = parameter_sweep(request.config)
        BY <2>1, <3>1, Requested
      <4>2. RatesWithin(request.config.base_profile, request.config.min,
                        request.config.max, request.config.param)
        BY <1>1, <3>1 DEF Sound
      <4> QED
        BY <1>1, <3>1, <4>1, <4>2, SweepsScenario DEF ProfileOf
    <3>2. CASE request.kind = "grid"
      <4>1. /\ request.config_a \in SweepConfig /\ SmallDrift(request.config_a)
            /\ request.config_b \in SweepConfig /\ SmallDrift(request.config_b)
            /\ batch = parameter_sweep_2d(request.config_a, request.config_b)
        BY <2>1, <3>2, Requested
      <4>2. \A c \in {request.config_a, request.config_b} :
              RatesWithin(c.base_profile, c.min, c.max, c.param)
        BY <1>1, <3>2 DEF Sound
      <4> QED
        BY <1>1, <3>2, <4>1, <4>2, GridScenario DEF ProfileOf
    <3>3. CASE request.kind = "fuzz"
      <4>1. FuzzRequest(request.config) /\ batch = random_fuzz(request.config)
        BY <2>1, <3>3, Requested
      <4>2. /\ ValidProfile(request.config.base_profile)
            /\ \A p \in {"loss_rate", "duplicate_rate"} :
                 request.config.ranges[p] # NoRange =>
                   0 <= request.config.ranges[p][1] /\ request.config.ranges[p][2] <= Unit
        BY <1>1, <3>3 DEF Sound
      <4> QED
        BY <1>1, <3>3, <4>1, <4>2, FuzzScenario DEF ProfileOf
    <3> QED
      BY <2>1, <3>1, <3>2, <3>3, Requested
  <2> QED
    BY <2>2, ValidProfileLoads
<1>2. ASSUME GenerationInv, Ordered, running # Idle,
             RatesWithin(config.base_profile, config.min, config.max, config.param)
      PROVE  validate(ScenarioWith(apply_param(config.base_profile, config.param, running)))
  <2>1. /\ config \in Configs /\ running \in Int
        /\ config.min <= running /\ running <= config.max
    BY <1>2 DEF GenerationInv, SearchInv, SearchTypeOK, RunsWithin
  <2>2. /\ config.param \in SweepParam /\ config.base_profile \in FaultProfile
        /\ config.min \in Int /\ config.max \in Int
    BY <2>1, SearchedAssumption, ConfigsAssumption
  <2>3. ValidProfile(config.base_profile)
    BY <1>2 DEF RatesWithin
  <2>4. config.param \notin Integer => 0 <= running /\ running <= Unit
    <3>1. config.param \notin Integer => 0 <= config.min /\ config.max <= Unit
      BY <1>2 DEF RatesWithin
    <3> QED
      BY <2>1, <2>2, <3>1, UnitAssumption
  <2>5. ValidProfile(apply_param(config.base_profile, config.param, running))
    BY <2>1, <2>2, <2>3, <2>4, AppliedValid
  <2> QED
    BY <2>5, ValidProfileLoads
<1>3. GenerationInv => GeneratedProfilesLoad
  BY <1>1, <1>2 DEF GeneratedProfilesLoad
<1> QED
  BY <1>3, GenerationInvariance, PTL

=============================================================================
