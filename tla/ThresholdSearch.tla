--------------------------- MODULE ThresholdSearch ---------------------------
(***************************************************************************)
(* The binary search for the greatest fault parameter a mission survives   *)
(* (ThresholdSearch in crates/px4-harness-core/src/generate.rs), beside    *)
(* the caller that runs the missions.                                      *)
(*                                                                         *)
(* Parameter values are integers, in units of the precision of the         *)
(* floating-point numbers near them: a midpoint is rounded to a number     *)
(* between the ends.  The caller is not in src/.  A disciplined one asks   *)
(* for a value, runs the mission, reports its verdict; another one may     *)
(* also report when it has not asked, as when it repeats a report.         *)
(***************************************************************************)
EXTENDS Integers

CONSTANTS
  Configs,   \* configurations: at least [min, max, tolerance, max_iterations]
  Limits,    \* the greatest value the mission survives
  Flaky,     \* no such limit: the verdicts follow no rule
  Idle,      \* no mission is run
  MaxStrays  \* bound: reports made without a run

ASSUME ConfigsAssumption ==
  \A c \in Configs :
    /\ c.min \in Int /\ c.max \in Int /\ c.tolerance \in Int
    /\ c.max_iterations \in Nat
ASSUME LimitsAssumption == Limits \subseteq Int /\ Flaky \notin Int /\ Idle \notin Int
ASSUME StraysAssumption == MaxStrays \in Nat

VARIABLES
  config,     \* the configuration
  low,        \* the bracket
  high,
  iteration,  \* results reported
  limit,      \* what the mission survives
  running,    \* the value a mission is run at, or Idle
  strays,     \* reports made without a run
  answers     \* history: every report, with the midpoint it was taken for

search == <<config, low, high, iteration>>

searchVars == <<search, limit, running, strays, answers>>

Answer == [mid : Int, passed : BOOLEAN]

SearchTypeOK ==
  /\ config \in Configs
  /\ low \in Int /\ high \in Int /\ iteration \in Nat
  /\ limit \in Limits \cup {Flaky}
  /\ running \in Int \cup {Idle}
  /\ strays \in 0..MaxStrays
  /\ answers \in SUBSET Answer

----------------------------------------------------------------------------
SearchInit ==
  /\ config \in Configs
  /\ low = config.min /\ high = config.max /\ iteration = 0
  /\ limit \in Limits \cup {Flaky}
  /\ running = Idle /\ strays = 0 /\ answers = {}

Mid == (low + high) \div 2

\* next_profile answers None; is_converged says the same.
Over == iteration >= config.max_iterations \/ high - low < config.tolerance

current_estimate == Mid

\* next_profile answers Some, and the caller starts a mission.
Ask ==
  /\ running = Idle /\ ~Over
  /\ running' = Mid
  /\ UNCHANGED <<search, limit, strays, answers>>

\* Mutants of report_result: the ends are swapped; the report is not counted.
report_result_swapped(passed) ==
  /\ IF passed THEN high' = Mid /\ UNCHANGED low ELSE low' = Mid /\ UNCHANGED high
  /\ iteration' = iteration + 1
  /\ answers' = answers \cup {[mid |-> Mid, passed |-> passed]}
  /\ UNCHANGED config

report_result_uncounted(passed) ==
  /\ IF passed THEN low' = Mid /\ UNCHANGED high ELSE high' = Mid /\ UNCHANGED low
  /\ answers' = answers \cup {[mid |-> Mid, passed |-> passed]}
  /\ UNCHANGED <<config, iteration>>

\* The midpoint is that of the bracket now, whatever was run.
report_result(passed) ==
  /\ IF passed THEN low' = Mid /\ UNCHANGED high ELSE high' = Mid /\ UNCHANGED low
  /\ iteration' = iteration + 1
  /\ answers' = answers \cup {[mid |-> Mid, passed |-> passed]}
  /\ UNCHANGED config

\* A mission passes at a value up to its limit, a flaky one as it likes.
Verdicts == IF limit = Flaky THEN BOOLEAN ELSE {running <= limit}

Report ==
  /\ running # Idle
  /\ \E passed \in Verdicts : report_result(passed)
  /\ running' = Idle
  /\ UNCHANGED <<limit, strays>>

\* A caller reports without having run anything, whatever it likes.
Stray ==
  /\ strays < MaxStrays /\ strays' = strays + 1
  /\ \E passed \in BOOLEAN : report_result(passed)
  /\ UNCHANGED <<limit, running>>

SearchNext == Ask \/ Report \/ Stray

SearchSpec == SearchInit /\ [][SearchNext]_searchVars

----------------------------------------------------------------------------
(* Properties                                                              *)

Ordered == config.min <= config.max

\* The bracket stays within the range asked for, and never turns round.
Nested == config.min <= low /\ low <= high /\ high <= config.max

\* No value that passed lies above one that failed.
Separated == \A a \in answers : IF a.passed THEN a.mid <= low ELSE high <= a.mid

\* A limit within the range is never left outside the bracket, and is within
\* the tolerance of the estimate when the width ends the search.
LimitInside ==
  limit \in config.min..(config.max - 1) =>
    /\ low <= limit /\ limit < high
    /\ high - low < config.tolerance =>
         current_estimate - limit \in (-config.tolerance)..config.tolerance

\* Over a range given the right way round, whatever is reported, the bracket is
\* nested and agrees with every report: flaky missions look as regular as any,
\* and can never be told from them.  The limit of a regular mission stays
\* inside as long as every report is that of a run.
Bracket ==
  Ordered => Nested /\ Separated /\ (strays = 0 /\ limit # Flaky => LimitInside)
============================================================================
