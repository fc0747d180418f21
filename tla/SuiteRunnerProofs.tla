-------------------------- MODULE SuiteRunnerProofs --------------------------
(***************************************************************************)
(* Proofs about SuiteRunner, for every set of scenarios and every length   *)
(* of suite: what exit code 0 means, that nothing starts before everything *)
(* is loaded, and that no run gets past its first scenario.  Then about    *)
(* the EventLog that main keeps of a run: which events it holds, how far   *)
(* out of order, and when it makes threads panic.                          *)
(***************************************************************************)
EXTENDS SuiteRunner, EventLog, SequenceTheorems, TLAPS

\* main is in the middle of a scenario.
InScenario ==
  pc \in {"connect", "ready", "position", "flight", "evaluate", "abort", "report"}

Over == pc \in {"shutdown", "exited"}

Wanted == requested \cap Offered(input)

\* Past the loading, main works on a suite that loads.
Loaded == pc # "load" /\ ~Over => AllLoad

\* The reports are those of the scenarios before the current one, in order.
Reported ==
  /\ reports \in Seq([scenario : Scenarios, passed : BOOLEAN])
  /\ Len(reports) + 1 = index /\ Len(reports) <= Len(suite)
  /\ \A i \in DOMAIN reports : reports[i].scenario = suite[i]
  /\ pc = "start" \/ InScenario => index <= Len(suite)
  /\ pc = "load" => index = 1
  /\ pc = "finish" => Len(reports) = Len(suite)

\* A task of the first scenario holds the ports from then on, so main is in the
\* first scenario, or just past it.
FirstHolds ==
  /\ index \in {1, 2}
  /\ InScenario => index = 1
  /\ InScenario \/ (index = 2 /\ ~Over) => TaskOf("to_client", 1) \in tasks

Undecided ==
  /\ ~Over => code = NoCode
  /\ written \subseteq Wanted

\* Whatever runs or has run was loaded.
StartedLoads == tasks # {} \/ threads # {} \/ reports # <<>> => AllLoad

SuiteInv ==
  /\ TypeOK /\ Len(suite) <= MaxLength
  /\ Loaded /\ Reported /\ FirstHolds /\ Undecided /\ StartedLoads
  /\ ExitZeroMeansAllPassed /\ OnlyFirstScenarioRuns

\* No suite loads from a directory given by a relative path: its entries would
\* have to be their own subdirectory's.
LEMMA RelativeDirectoryFails == AllLoad => input # "relative_dir"
<1> SUFFICES ASSUME AllLoad, input = "relative_dir" PROVE FALSE
  OBVIOUS
<1>1. PICK s : Loads(input, s)
  <2>1. suite # <<>> /\ \A i \in DOMAIN suite : Loads(input, suite[i])
    BY DEF AllLoad, ValidSuite
  <2> QED
    BY <2>1
<1> DEFINE Dir == <<"scenarios">>
           Entry == <<s>>
           Listed == Dir \o Entry
           Looked == Dir \o Listed
           All == {"scenarios", s}
<1>2. BaseDir(input) = Path(".", Dir)
  BY DEF BaseDir
<1>3. \A p : Join(Path(".", Dir), Path(".", p)) = Path(".", Dir \o p)
  <2> HIDE DEF Dir
  <2> QED
    BY DEF Join, Path
<1>4. /\ RealPath(input, s) = Path(".", Listed)
      /\ Join(BaseDir(input), ListedPath(input, s)) = Path(".", Looked)
  <2>1. ListedPath(input, s) = RealPath(input, s) /\ RealPath(input, s) = Path(".", Listed)
    BY <1>2, <1>3 DEF RealPath, ListedPath, Directory
  <2> QED
    BY <2>1, <1>2, <1>3
<1>5. Looked = Listed
  <2>1. Path(".", Looked) = Path(".", Listed)
    BY <1>1, <1>4 DEF Loads
  <2> HIDE DEF Looked, Listed
  <2> QED
    BY <2>1 DEF Path
<1>6. Dir \in Seq(All) /\ Entry \in Seq(All)
  OBVIOUS
<1>7. Len(Dir) = 1 /\ Len(Entry) = 1
  OBVIOUS
<1>8. Listed \in Seq(All) /\ Len(Listed) = Len(Dir) + Len(Entry)
  <2> HIDE DEF Dir, Entry, All
  <2> QED
    BY <1>6, ConcatProperties
<1>9. Len(Looked) = Len(Dir) + Len(Listed)
  <2> HIDE DEF Dir, Listed, All
  <2> QED
    BY <1>6, <1>8, ConcatProperties
<1> HIDE DEF Dir, Entry, Listed, Looked
<1> QED
  BY <1>5, <1>7, <1>8, <1>9

\* Nothing is wrong at the start.
LEMMA InitSuiteInv == Init => SuiteInv
<1> SUFFICES ASSUME Init PROVE SuiteInv
  OBVIOUS
<1>1. TypeOK /\ Len(suite) <= MaxLength
  <2>1. PICK n \in 0..MaxLength : suite \in [1..n -> Scenarios]
    BY DEF Init
  <2>2. suite \in Seq(Scenarios) /\ Len(suite) = n
    BY <2>1, BoundsAssumption
  <2>3. index \in 1..(Len(suite) + 1)
    BY <2>2, BoundsAssumption DEF Init
  <2>4. reports \in Seq([scenario : Scenarios, passed : BOOLEAN])
    BY DEF Init
  <2>5. Len(suite) <= MaxLength
    BY <2>2, BoundsAssumption
  <2> QED
    BY <2>2, <2>3, <2>4, <2>5 DEF Init, TypeOK, NoCode
<1>2. Loaded /\ Reported /\ FirstHolds /\ Undecided /\ StartedLoads
  BY <1>1 DEF Init, Loaded, Reported, FirstHolds, Undecided, StartedLoads, InScenario, Over, TypeOK
<1>3. ExitZeroMeansAllPassed /\ OnlyFirstScenarioRuns
  BY DEF Init, ExitZeroMeansAllPassed, OnlyFirstScenarioRuns, NoCode
<1> QED
  BY <1>1, <1>2, <1>3 DEF SuiteInv

\* The loading decides whether main goes on.
LEMMA LoadInv == SuiteInv /\ Load => SuiteInv'
<1> SUFFICES ASSUME SuiteInv, Load PROVE SuiteInv'
  OBVIOUS
<1>1. TypeOK' /\ (Len(suite) <= MaxLength)'
  BY BoundsAssumption DEF SuiteInv, TypeOK, NoCode, Load, Goto, Return, given
<1>2. Loaded' /\ StartedLoads'
  BY DEF SuiteInv, Loaded, StartedLoads, Over, AllLoad, ValidSuite, NoneTwice, Reported, Load, Goto, Return, given
<1>3. Reported'
  <2>1. AllLoad => Len(suite) >= 1
    BY DEF SuiteInv, TypeOK, AllLoad, ValidSuite
  <2> QED
    BY <2>1 DEF SuiteInv, TypeOK, Reported, InScenario, Load, Goto, Return, given
<1>4. FirstHolds'
  BY DEF SuiteInv, TypeOK, FirstHolds, InScenario, Over, Load, Goto, Return, given
<1>5. Undecided' /\ ExitZeroMeansAllPassed'
  BY DEF SuiteInv, Undecided, ExitZeroMeansAllPassed, Over, NoCode, Wanted, Load, Goto, Return, given
<1>6. OnlyFirstScenarioRuns'
  BY DEF SuiteInv, TypeOK, OnlyFirstScenarioRuns, FirstHolds, Reported, InScenario, Load, Goto, Return, given
<1> QED
  BY <1>1, <1>2, <1>3, <1>4, <1>5, <1>6 DEF SuiteInv

\* The second scenario finds the ports taken.
LEMMA StartProxyInv == SuiteInv /\ StartProxy => SuiteInv'
<1> SUFFICES ASSUME SuiteInv, StartProxy PROVE SuiteInv'
  OBVIOUS
<1>1. TypeOK' /\ (Len(suite) <= MaxLength)'
  <2>1. index \in Run
    BY BoundsAssumption DEF SuiteInv, TypeOK, Reported, StartProxy, Run
  <2>2. {TaskOf(k, index) : k \in Forwarding \cup {"wrapper"}} \subseteq [kind : Kind, run : Run]
    BY <2>1 DEF TaskOf, Kind, Forwarding
  <2>3. tasks' \subseteq [kind : Kind, run : Run]
    BY <2>2 DEF SuiteInv, TypeOK, StartProxy
  <2>4. pc' \in {"connect", "shutdown"} /\ code' \in {0, 1, NoCode}
    BY DEF SuiteInv, TypeOK, StartProxy, Goto, Return
  <2>5. UNCHANGED <<given, written, index, verdict, reports, threads, mail>>
    BY DEF StartProxy
  <2> QED
    BY <2>3, <2>4, <2>5 DEF SuiteInv, TypeOK, given
<1>2. Loaded' /\ StartedLoads'
  BY DEF SuiteInv, Loaded, StartedLoads, Over, AllLoad, ValidSuite, NoneTwice, Reported, StartProxy, Goto, Return, given, PortsFree, Holders, Forwarding, TaskOf, Kind, Run
<1>3. Reported'
  BY DEF SuiteInv, TypeOK, Reported, InScenario, StartProxy, Goto, Return, given, PortsFree, Holders, Forwarding, TaskOf, Kind, Run
<1>4. FirstHolds'
  BY DEF SuiteInv, TypeOK, FirstHolds, InScenario, Over, StartProxy, Goto, Return, given, PortsFree, Holders, Forwarding, TaskOf, Kind, Run
<1>5. Undecided' /\ ExitZeroMeansAllPassed'
  BY DEF SuiteInv, Undecided, ExitZeroMeansAllPassed, Over, NoCode, Wanted, StartProxy, Goto, Return, given, PortsFree, Holders, Forwarding, TaskOf, Kind, Run
<1>6. OnlyFirstScenarioRuns'
  BY DEF SuiteInv, TypeOK, OnlyFirstScenarioRuns, FirstHolds, Reported, InScenario, StartProxy, Goto, Return, given, PortsFree, Holders, Forwarding, TaskOf, Kind, Run
<1> QED
  BY <1>1, <1>2, <1>3, <1>4, <1>5, <1>6 DEF SuiteInv

\* A connection belongs to the first scenario.
LEMMA ConnectInv == SuiteInv /\ Connect => SuiteInv'
<1> SUFFICES ASSUME SuiteInv, Connect PROVE SuiteInv'
  OBVIOUS
<1>1. TypeOK' /\ (Len(suite) <= MaxLength)'
  <2>1. index \in Run
    BY BoundsAssumption DEF SuiteInv, TypeOK, Reported, InScenario, Connect, Run
  <2>2. TaskOf("processor", index) \in [kind : Kind, run : Run]
    BY <2>1 DEF TaskOf, Kind
  <2>3. tasks' \subseteq [kind : Kind, run : Run] /\ threads' \subseteq Run
    BY <2>1, <2>2 DEF SuiteInv, TypeOK, Connect
  <2>4. pc' \in {"ready", "shutdown"} /\ code' \in {0, 1, NoCode}
    BY DEF SuiteInv, TypeOK, Connect, Goto, Return
  <2>5. UNCHANGED <<given, written, index, verdict, reports, mail>>
    BY DEF Connect
  <2> QED
    BY <2>3, <2>4, <2>5 DEF SuiteInv, TypeOK, given
<1>2. Loaded' /\ StartedLoads'
  BY DEF SuiteInv, Loaded, StartedLoads, Over, AllLoad, ValidSuite, NoneTwice, Reported, Connect, Goto, Return, given, TaskOf, Kind, Run
<1>3. Reported'
  BY DEF SuiteInv, TypeOK, Reported, InScenario, Connect, Goto, Return, given, TaskOf, Kind, Run
<1>4. FirstHolds'
  BY DEF SuiteInv, TypeOK, FirstHolds, InScenario, Over, Connect, Goto, Return, given, TaskOf, Kind, Run
<1>5. Undecided' /\ ExitZeroMeansAllPassed'
  BY DEF SuiteInv, Undecided, ExitZeroMeansAllPassed, Over, NoCode, Wanted, Connect, Goto, Return, given, TaskOf, Kind, Run
<1>6. OnlyFirstScenarioRuns'
  BY DEF SuiteInv, TypeOK, OnlyFirstScenarioRuns, FirstHolds, Reported, InScenario, Connect, Goto, Return, given, TaskOf, Kind, Run
<1> QED
  BY <1>1, <1>2, <1>3, <1>4, <1>5, <1>6 DEF SuiteInv

\* Waiting for the vehicle changes nothing else.
LEMMA WaitForReadyInv == SuiteInv /\ WaitForReady => SuiteInv'
<1> SUFFICES ASSUME SuiteInv, WaitForReady PROVE SuiteInv'
  OBVIOUS
<1>1. TypeOK' /\ (Len(suite) <= MaxLength)'
  BY BoundsAssumption DEF SuiteInv, TypeOK, NoCode, WaitForReady, Goto, Return, given
<1>2. Loaded' /\ StartedLoads'
  BY DEF SuiteInv, Loaded, StartedLoads, Over, AllLoad, ValidSuite, NoneTwice, Reported, WaitForReady, Goto, Return, given
<1>3. Reported'
  BY DEF SuiteInv, TypeOK, Reported, InScenario, WaitForReady, Goto, Return, given
<1>4. FirstHolds'
  BY DEF SuiteInv, TypeOK, FirstHolds, InScenario, Over, WaitForReady, Goto, Return, given
<1>5. Undecided' /\ ExitZeroMeansAllPassed'
  BY DEF SuiteInv, Undecided, ExitZeroMeansAllPassed, Over, NoCode, Wanted, WaitForReady, Goto, Return, given
<1>6. OnlyFirstScenarioRuns'
  BY DEF SuiteInv, TypeOK, OnlyFirstScenarioRuns, FirstHolds, Reported, InScenario, WaitForReady, Goto, Return, given
<1> QED
  BY <1>1, <1>2, <1>3, <1>4, <1>5, <1>6 DEF SuiteInv

\* Nor does waiting for its position.
LEMMA AwaitPositionInv == SuiteInv /\ AwaitPosition => SuiteInv'
<1> SUFFICES ASSUME SuiteInv, AwaitPosition PROVE SuiteInv'
  OBVIOUS
<1>1. TypeOK' /\ (Len(suite) <= MaxLength)'
  BY BoundsAssumption DEF SuiteInv, TypeOK, NoCode, AwaitPosition, Goto, given
<1>2. Loaded' /\ StartedLoads'
  BY DEF SuiteInv, Loaded, StartedLoads, Over, AllLoad, ValidSuite, NoneTwice, Reported, AwaitPosition, Goto, given
<1>3. Reported'
  BY DEF SuiteInv, TypeOK, Reported, InScenario, AwaitPosition, Goto, given
<1>4. FirstHolds'
  BY DEF SuiteInv, TypeOK, FirstHolds, InScenario, Over, AwaitPosition, Goto, given
<1>5. Undecided' /\ ExitZeroMeansAllPassed'
  BY DEF SuiteInv, Undecided, ExitZeroMeansAllPassed, Over, NoCode, Wanted, AwaitPosition, Goto, given
<1>6. OnlyFirstScenarioRuns'
  BY DEF SuiteInv, TypeOK, OnlyFirstScenarioRuns, FirstHolds, Reported, InScenario, AwaitPosition, Goto, given
<1> QED
  BY <1>1, <1>2, <1>3, <1>4, <1>5, <1>6 DEF SuiteInv

\* Nor does the flight.
LEMMA FlyInv == SuiteInv /\ Fly => SuiteInv'
<1> SUFFICES ASSUME SuiteInv, Fly PROVE SuiteInv'
  OBVIOUS
<1>1. TypeOK' /\ (Len(suite) <= MaxLength)'
  BY BoundsAssumption DEF SuiteInv, TypeOK, NoCode, Fly, Goto, Return, given
<1>2. Loaded' /\ StartedLoads'
  BY DEF SuiteInv, Loaded, StartedLoads, Over, AllLoad, ValidSuite, NoneTwice, Reported, Fly, Goto, Return, given
<1>3. Reported'
  BY DEF SuiteInv, TypeOK, Reported, InScenario, Fly, Goto, Return, given
<1>4. FirstHolds'
  BY DEF SuiteInv, TypeOK, FirstHolds, InScenario, Over, Fly, Goto, Return, given
<1>5. Undecided' /\ ExitZeroMeansAllPassed'
  BY DEF SuiteInv, Undecided, ExitZeroMeansAllPassed, Over, NoCode, Wanted, Fly, Goto, Return, given
<1>6. OnlyFirstScenarioRuns'
  BY DEF SuiteInv, TypeOK, OnlyFirstScenarioRuns, FirstHolds, Reported, InScenario, Fly, Goto, Return, given
<1> QED
  BY <1>1, <1>2, <1>3, <1>4, <1>5, <1>6 DEF SuiteInv

\* An evaluation decides the verdict of the scenario.
LEMMA EvaluateInv == SuiteInv /\ Evaluate => SuiteInv'
<1> SUFFICES ASSUME SuiteInv, Evaluate PROVE SuiteInv'
  OBVIOUS
<1>1. TypeOK' /\ (Len(suite) <= MaxLength)'
  BY BoundsAssumption DEF SuiteInv, TypeOK, NoCode, Evaluate, Goto, given
<1>2. Loaded' /\ StartedLoads'
  BY DEF SuiteInv, Loaded, StartedLoads, Over, AllLoad, ValidSuite, NoneTwice, Reported, Evaluate, Goto, given
<1>3. Reported'
  BY DEF SuiteInv, TypeOK, Reported, InScenario, Evaluate, Goto, given
<1>4. FirstHolds'
  BY DEF SuiteInv, TypeOK, FirstHolds, InScenario, Over, Evaluate, Goto, given
<1>5. Undecided' /\ ExitZeroMeansAllPassed'
  BY DEF SuiteInv, Undecided, ExitZeroMeansAllPassed, Over, NoCode, Wanted, Evaluate, Goto, given
<1>6. OnlyFirstScenarioRuns'
  BY DEF SuiteInv, TypeOK, OnlyFirstScenarioRuns, FirstHolds, Reported, InScenario, Evaluate, Goto, given
<1> QED
  BY <1>1, <1>2, <1>3, <1>4, <1>5, <1>6 DEF SuiteInv

\* The abort leaves the forwarding tasks.
LEMMA AbortProxyInv == SuiteInv /\ AbortProxy => SuiteInv'
<1> SUFFICES ASSUME SuiteInv, AbortProxy PROVE SuiteInv'
  OBVIOUS
<1>1. TypeOK' /\ (Len(suite) <= MaxLength)'
  BY BoundsAssumption DEF SuiteInv, TypeOK, NoCode, AbortProxy, Goto, given, Cancelled, TaskOf
<1>2. Loaded' /\ StartedLoads'
  BY DEF SuiteInv, Loaded, StartedLoads, Over, AllLoad, ValidSuite, NoneTwice, Reported, AbortProxy, Goto, given, Cancelled, TaskOf
<1>3. Reported'
  BY DEF SuiteInv, TypeOK, Reported, InScenario, AbortProxy, Goto, given, Cancelled, TaskOf
<1>4. FirstHolds'
  BY DEF SuiteInv, TypeOK, FirstHolds, InScenario, Over, AbortProxy, Goto, given, Cancelled, TaskOf
<1>5. Undecided' /\ ExitZeroMeansAllPassed'
  BY DEF SuiteInv, Undecided, ExitZeroMeansAllPassed, Over, NoCode, Wanted, AbortProxy, Goto, given, Cancelled, TaskOf
<1>6. OnlyFirstScenarioRuns'
  BY DEF SuiteInv, TypeOK, OnlyFirstScenarioRuns, FirstHolds, Reported, InScenario, AbortProxy, Goto, given, Cancelled, TaskOf
<1> QED
  BY <1>1, <1>2, <1>3, <1>4, <1>5, <1>6 DEF SuiteInv

\* The report is the current scenario's.
LEMMA BuildReportInv == SuiteInv /\ BuildReport => SuiteInv'
<1> SUFFICES ASSUME SuiteInv, BuildReport PROVE SuiteInv'
  OBVIOUS
<1>1. TypeOK' /\ (Len(suite) <= MaxLength)'
  <2>1. index \in 1..Len(suite) /\ Len(suite) \in Nat
    BY DEF SuiteInv, TypeOK, Reported, InScenario, BuildReport
  <2>2. suite[index] \in Scenarios /\ verdict \in BOOLEAN
    BY <2>1 DEF SuiteInv, TypeOK
  <2>3. reports' \in Seq([scenario : Scenarios, passed : BOOLEAN])
    <3> DEFINE R == [scenario : Scenarios, passed : BOOLEAN]
               new == [scenario |-> suite[index], passed |-> verdict]
    <3>1. new \in R
      BY <2>2, Zenon
    <3>2. reports \in Seq(R) /\ reports' = Append(reports, new)
      BY DEF SuiteInv, TypeOK, BuildReport
    <3> HIDE DEF R, new
    <3>3. reports' \in Seq(R)
      BY <3>1, <3>2
    <3> QED
      BY <3>3 DEF R
  <2>4. index' \in 1..(Len(suite) + 1) /\ suite' = suite
    BY <2>1 DEF BuildReport, given
  <2>5. pc' \in {"start", "finish"} /\ code' = code
    BY DEF BuildReport, Goto
  <2>6. UNCHANGED <<given, written, verdict, tasks, threads, mail>>
    BY DEF BuildReport
  <2> QED
    BY <2>3, <2>4, <2>5, <2>6 DEF SuiteInv, TypeOK, given
<1>2. Loaded' /\ StartedLoads'
  BY DEF SuiteInv, Loaded, StartedLoads, Over, AllLoad, ValidSuite, NoneTwice, Reported, BuildReport, Goto, given
<1>3. Reported'
  BY DEF SuiteInv, TypeOK, Reported, InScenario, BuildReport, Goto, given
<1>4. FirstHolds'
  BY DEF SuiteInv, TypeOK, FirstHolds, InScenario, Over, BuildReport, Goto, given
<1>5. Undecided' /\ ExitZeroMeansAllPassed'
  BY DEF SuiteInv, Undecided, ExitZeroMeansAllPassed, Over, NoCode, Wanted, BuildReport, Goto, given
<1>6. OnlyFirstScenarioRuns'
  BY DEF SuiteInv, TypeOK, OnlyFirstScenarioRuns, FirstHolds, Reported, InScenario, BuildReport, Goto, given
<1> QED
  BY <1>1, <1>2, <1>3, <1>4, <1>5, <1>6 DEF SuiteInv

\* A file written is one that is wanted.
LEMMA WriteFileInv == SuiteInv /\ WriteFile => SuiteInv'
<1> SUFFICES ASSUME SuiteInv, WriteFile PROVE SuiteInv'
  OBVIOUS
<1>1. TypeOK' /\ (Len(suite) <= MaxLength)'
  BY BoundsAssumption DEF SuiteInv, TypeOK, NoCode, WriteFile, Goto, Return, given, ToWrite, Wanted
<1>2. Loaded' /\ StartedLoads'
  BY DEF SuiteInv, Loaded, StartedLoads, Over, AllLoad, ValidSuite, NoneTwice, Reported, WriteFile, Goto, Return, given, ToWrite, Wanted
<1>3. Reported'
  BY DEF SuiteInv, TypeOK, Reported, InScenario, WriteFile, Goto, Return, given, ToWrite, Wanted
<1>4. FirstHolds'
  BY DEF SuiteInv, TypeOK, FirstHolds, InScenario, Over, WriteFile, Goto, Return, given, ToWrite, Wanted
<1>5. Undecided' /\ ExitZeroMeansAllPassed'
  BY DEF SuiteInv, Undecided, ExitZeroMeansAllPassed, Over, NoCode, Wanted, WriteFile, Goto, Return, given, ToWrite, Wanted
<1>6. OnlyFirstScenarioRuns'
  BY DEF SuiteInv, TypeOK, OnlyFirstScenarioRuns, FirstHolds, Reported, InScenario, WriteFile, Goto, Return, given, ToWrite, Wanted
<1> QED
  BY <1>1, <1>2, <1>3, <1>4, <1>5, <1>6 DEF SuiteInv

\* Exit code 0 is decided with all reported and all written.
LEMMA FinishInv == SuiteInv /\ Finish => SuiteInv'
<1> SUFFICES ASSUME SuiteInv, Finish PROVE SuiteInv'
  OBVIOUS
<1>1. TypeOK' /\ (Len(suite) <= MaxLength)'
  BY BoundsAssumption DEF SuiteInv, TypeOK, NoCode, Finish, Return, given
<1>2. Loaded' /\ StartedLoads'
  BY DEF SuiteInv, Loaded, StartedLoads, Over, AllLoad, ValidSuite, NoneTwice, Reported, Finish, Return, given
<1>3. Reported'
  BY DEF SuiteInv, TypeOK, Reported, InScenario, Finish, Return, given
<1>4. FirstHolds'
  BY DEF SuiteInv, TypeOK, FirstHolds, InScenario, Over, Finish, Return, given
<1>5. Undecided' /\ ExitZeroMeansAllPassed'
  <2>1. Undecided'
    BY DEF SuiteInv, Undecided, Over, Wanted, Finish, Return, given
  <2>2. CASE code' = 0
    <3>1. AllPassed' /\ AllLoad
      <4>1. AllPassed
        BY <2>2 DEF Finish, Return
      <4> QED
        BY <4>1 DEF SuiteInv, Loaded, Over, Finish, AllPassed
    <3>2. suite' # <<>>
      BY <3>1 DEF AllLoad, ValidSuite, Finish, given
    <3>3. [i \in DOMAIN reports |-> reports[i].scenario] = suite
      <4>1. suite \in Seq(Scenarios) /\ Len(reports) = Len(suite)
        BY DEF SuiteInv, TypeOK, Reported, Finish
      <4>2. DOMAIN reports = DOMAIN suite
        BY <4>1 DEF SuiteInv, Reported
      <4>3. \A i \in DOMAIN reports : reports[i].scenario = suite[i]
        BY DEF SuiteInv, Reported
      <4> QED
        BY <4>1, <4>2, <4>3
    <3>4. written = Wanted
      <4>1. written \subseteq Wanted
        BY DEF SuiteInv, Undecided
      <4>2. Offered(input) \subseteq {FileOrder[i] : i \in DOMAIN FileOrder}
        BY DEF Offered, Range
      <4>3. \A w \in Wanted : w \in written
        BY <4>2 DEF Wanted, Finish, ToWrite
      <4> QED
        BY <4>1, <4>3
    <3> QED
      BY <2>1, <3>1, <3>2, <3>3, <3>4 DEF ExitZeroMeansAllPassed, Wanted, Finish, given
  <2>3. CASE code' # 0
    BY <2>1, <2>3 DEF ExitZeroMeansAllPassed
  <2> QED
    BY <2>1, <2>2, <2>3
<1>6. OnlyFirstScenarioRuns'
  BY DEF SuiteInv, TypeOK, OnlyFirstScenarioRuns, FirstHolds, Reported, InScenario, Finish, Return, given
<1> QED
  BY <1>1, <1>2, <1>3, <1>4, <1>5, <1>6 DEF SuiteInv

\* The runtime's steps leave main alone and, while it runs, its tasks.
LEMMA RuntimeInv == SuiteInv /\ Runtime => SuiteInv'
<1> SUFFICES ASSUME SuiteInv, Runtime PROVE SuiteInv'
  OBVIOUS
<1>1. CASE \E run \in threads : Datagram(run) \/ Receive(run)
  <2>1. PICK run \in threads : Datagram(run) \/ Receive(run)
    BY <1>1
  <2>2. UNCHANGED <<main, tasks>> /\ threads' \subseteq threads /\ mail' \subseteq mail \cup {run}
    BY <2>1 DEF Datagram, Receive
  <2>3. TypeOK' /\ (Len(suite) <= MaxLength)'
    BY <2>2 DEF SuiteInv, TypeOK, main, given
  <2> QED
    BY <2>2, <2>3 DEF SuiteInv, Loaded, Reported, FirstHolds, Undecided, StartedLoads, InScenario,
      Over, Wanted, AllLoad, ValidSuite, NoneTwice, ExitZeroMeansAllPassed, AllPassed,
      OnlyFirstScenarioRuns, main, given
<1>2. CASE \E t \in tasks : CancelTask(t)
  <2>1. UNCHANGED <<main, threads, mail>> /\ tasks' \subseteq tasks /\ Over
    BY <1>2 DEF CancelTask, Over
  <2>2. TypeOK' /\ (Len(suite) <= MaxLength)'
    BY <2>1 DEF SuiteInv, TypeOK, main, given
  <2>3. FirstHolds'
    BY <2>1 DEF SuiteInv, FirstHolds, InScenario, Over, main
  <2> QED
    BY <2>1, <2>2, <2>3 DEF SuiteInv, Loaded, Reported, Undecided, StartedLoads, InScenario,
      Over, Wanted, AllLoad, ValidSuite, NoneTwice, ExitZeroMeansAllPassed, AllPassed,
      OnlyFirstScenarioRuns, main, given
<1>3. CASE Exit
  <2>1. UNCHANGED <<given, written, index, verdict, reports, tasks, threads, mail, code>>
        /\ pc' = "exited" /\ pc = "shutdown"
    BY <1>3 DEF Exit, Goto
  <2>2. TypeOK' /\ (Len(suite) <= MaxLength)'
    BY <2>1 DEF SuiteInv, TypeOK, given
  <2> QED
    BY <2>1, <2>2 DEF SuiteInv, Loaded, Reported, FirstHolds, Undecided, StartedLoads, InScenario,
      Over, Wanted, AllLoad, ValidSuite, NoneTwice, ExitZeroMeansAllPassed, AllPassed,
      OnlyFirstScenarioRuns, given
<1> QED
  BY <1>1, <1>2, <1>3 DEF Runtime

\* The invariant holds in every state of a run.
THEOREM SuiteInvariance == Spec => []SuiteInv
<1>1. SuiteInv /\ [Next]_vars => SuiteInv'
  <2> SUFFICES ASSUME SuiteInv, [Next]_vars PROVE SuiteInv'
    OBVIOUS
  <2>1. CASE Main
    BY <2>1, LoadInv, StartProxyInv, ConnectInv, WaitForReadyInv, AwaitPositionInv, FlyInv,
      EvaluateInv, AbortProxyInv, BuildReportInv, WriteFileInv, FinishInv DEF Main, Bounded
  <2>2. CASE Runtime
    BY <2>2, RuntimeInv
  <2>3. CASE UNCHANGED vars
    BY <2>3 DEF SuiteInv, TypeOK, Loaded, Reported, FirstHolds, Undecided, StartedLoads, InScenario,
      Over, Wanted, AllLoad, ValidSuite, NoneTwice, ExitZeroMeansAllPassed, AllPassed,
      OnlyFirstScenarioRuns, vars, main, given
  <2> QED
    BY <2>1, <2>2, <2>3 DEF Next
<1> QED
  BY <1>1, InitSuiteInv, PTL DEF Spec

\* What a run works on and leaves behind is well typed; in particular it never
\* reads past the end of the suite.
THEOREM TypeCorrect == Spec => []TypeOK
<1>1. SuiteInv => TypeOK
  BY DEF SuiteInv
<1> QED
  BY <1>1, SuiteInvariance, PTL

\* Exit code 0 means that the whole suite has run and passed, and that what was
\* asked for is written.
THEOREM ExitZeroMeansAllPassedHolds == Spec => []ExitZeroMeansAllPassed
<1>1. SuiteInv => ExitZeroMeansAllPassed
  BY DEF SuiteInv
<1> QED
  BY <1>1, SuiteInvariance, PTL

\* Nothing starts unless everything loads, and nothing loads from a directory
\* given by a relative path.
THEOREM NothingStartsUnlessAllLoadHolds == Spec => []NothingStartsUnlessAllLoad
<1>1. SuiteInv => NothingStartsUnlessAllLoad
  BY RelativeDirectoryFails DEF SuiteInv, StartedLoads, NothingStartsUnlessAllLoad
<1> QED
  BY <1>1, SuiteInvariance, PTL

\* However long the suite, only its first scenario ever runs.
THEOREM OnlyFirstScenarioRunsHolds == Spec => []OnlyFirstScenarioRuns
<1>1. SuiteInv => OnlyFirstScenarioRuns
  BY DEF SuiteInv
<1> QED
  BY <1>1, SuiteInvariance, PTL

----------------------------------------------------------------------------
(* The event log, for every set of threads and of capacities.              *)

\* No event was stamped later than now.
StampedByNow == \A i \in DOMAIN appended : appended[i].time <= now

\* A thread that waits for the lock holds one event of its own, and neither
\* the events that were in place when it was stamped nor the thread's own
\* earlier ones are younger.
PendingIsNewest ==
  \A t \in Thread :
    pending[t] # <<>> =>
      /\ Len(pending[t]) = 1
      /\ pending[t][1].thread = t /\ pending[t][1].time <= now
      /\ pending[t][1].behind <= Len(appended)
      /\ \A i \in DOMAIN appended :
           i <= pending[t][1].behind \/ appended[i].thread = t =>
             appended[i].time <= pending[t][1].time

\* OnlyOverlapsInverted, said of every event ever appended.
OverlapsInverted ==
  \A i, j \in DOMAIN appended :
    i < j /\ appended[i].time > appended[j].time =>
      appended[i].thread # appended[j].thread /\ appended[j].behind < i

ZeroStaysEmpty == max_events = 0 => appended = <<>>

LogInv ==
  /\ LogTypeOK /\ NewestKept /\ StampedByNow /\ PendingIsNewest /\ OverlapsInverted
  /\ ZeroStaysEmpty /\ OnlyCapacityZeroPanics

\* A new log satisfies the invariant.
LEMMA InitLogInv == LogInit => LogInv
<1> SUFFICES ASSUME LogInit PROVE LogInv
  OBVIOUS
<1>1. events = <<>> /\ appended = <<>> /\ max_events \in Nat
  BY CapacitiesAssumption DEF LogInit
<1>2. LogTypeOK
  <2>1. pending \in [Thread -> Seq(Event)]
    BY DEF LogInit
  <2>2. events \in Seq(Event) /\ Len(events) <= max_events /\ appended \in Seq(Event)
    BY <1>1
  <2> QED
    BY <2>1, <2>2 DEF LogInit, LogTypeOK
<1>3. DOMAIN events = {} /\ DOMAIN appended = {} /\ Len(events) = 0 /\ Len(appended) = 0
  BY <1>1
<1>4. NewestKept
  BY <1>1, <1>3 DEF NewestKept
<1>5. StampedByNow /\ OverlapsInverted
  BY <1>3 DEF StampedByNow, OverlapsInverted
<1>6. PendingIsNewest /\ ZeroStaysEmpty /\ OnlyCapacityZeroPanics
  BY <1>1 DEF LogInit, PendingIsNewest, ZeroStaysEmpty, OnlyCapacityZeroPanics
<1> QED
  BY <1>2, <1>4, <1>5, <1>6 DEF LogInv

\* Time passes.
LEMMA TickInv == LogInv /\ Tick => LogInv'
<1> SUFFICES ASSUME LogInv, Tick PROVE LogInv'
  OBVIOUS
<1> USE DEF LogInv
<1>1. LogTypeOK'
  BY DEF Tick, LogTypeOK
<1>2. \A i \in DOMAIN appended : appended[i].time \in Nat
  <2>1. \A i \in DOMAIN appended : appended[i] \in Event
    BY DEF LogTypeOK
  <2> QED
    BY <2>1 DEF Event
<1>3. StampedByNow'
  BY <1>2 DEF Tick, LogTypeOK, StampedByNow
<1>4. \A t \in Thread : pending[t] # <<>> => pending[t][1].time \in Nat
  <2>1. \A t \in Thread : pending[t] # <<>> => pending[t][1] \in Event
    BY DEF LogTypeOK
  <2> QED
    BY <2>1 DEF Event
<1>5. PendingIsNewest'
  BY <1>4 DEF Tick, LogTypeOK, PendingIsNewest
<1>6. NewestKept' /\ OverlapsInverted' /\ ZeroStaysEmpty' /\ OnlyCapacityZeroPanics'
  BY DEF Tick, NewestKept, OverlapsInverted, ZeroStaysEmpty, OnlyCapacityZeroPanics
<1> QED
  BY <1>1, <1>3, <1>5, <1>6

\* What a thread stamps is not older than anything in the log.
LEMMA StampInv == ASSUME NEW t \in Thread PROVE LogInv /\ Stamp(t) => LogInv'
<1> SUFFICES ASSUME LogInv, Stamp(t) PROVE LogInv'
  OBVIOUS
<1> USE DEF LogInv
<1>1. [thread |-> t, nth |-> calls[t] + 1, time |-> now, behind |-> Len(appended)] \in Event
  BY DEF Stamp, LogTypeOK, Event
<1>2. LogTypeOK'
  BY <1>1 DEF Stamp, LogTypeOK
<1>3. PendingIsNewest'
  <2> SUFFICES ASSUME NEW u \in Thread, pending'[u] # <<>>
               PROVE  /\ Len(pending'[u]) = 1
                      /\ pending'[u][1].thread = u /\ pending'[u][1].time <= now
                      /\ pending'[u][1].behind <= Len(appended)
                      /\ \A i \in DOMAIN appended :
                           i <= pending'[u][1].behind \/ appended[i].thread = u =>
                             appended[i].time <= pending'[u][1].time
    BY DEF PendingIsNewest, Stamp
  <2>1. CASE u = t
    <3>1. pending'[u] =
            <<[thread |-> t, nth |-> calls[t] + 1, time |-> now, behind |-> Len(appended)]>>
      BY <2>1 DEF Stamp, LogTypeOK
    <3>2. now \in Nat /\ Len(appended) \in Nat
      BY DEF LogTypeOK
    <3> QED
      BY <2>1, <3>1, <3>2 DEF StampedByNow
  <2>2. CASE u # t
    <3>1. pending'[u] = pending[u]
      BY <2>2 DEF Stamp, LogTypeOK
    <3> QED
      BY <3>1 DEF PendingIsNewest
  <2> QED
    BY <2>1, <2>2
<1>4. /\ NewestKept' /\ StampedByNow' /\ OverlapsInverted'
      /\ ZeroStaysEmpty' /\ OnlyCapacityZeroPanics'
  BY DEF Stamp, NewestKept, StampedByNow, OverlapsInverted, ZeroStaysEmpty,
         OnlyCapacityZeroPanics
<1> QED
  BY <1>2, <1>3, <1>4

\* A log makes room for one event, and its newest event is the one pushed.
LEMMA RoomPush ==
  ASSUME NEW log \in Seq(Event), NEW e \in Event, max_events \in Nat,
         Len(log) <= max_events, max_events # 0
  PROVE  /\ Push(Room(log), e) \in Seq(Event)
         /\ Len(Push(Room(log), e)) =
              IF Len(log) < max_events THEN Len(log) + 1 ELSE max_events
         /\ \A i \in DOMAIN Push(Room(log), e) :
              Push(Room(log), e)[i] =
                IF i = Len(Push(Room(log), e)) THEN e
                ELSE IF Len(log) < max_events THEN log[i] ELSE log[i + 1]
<1>1. CASE Len(log) < max_events
  <2>1. Push(Room(log), e) = Append(log, e)
    BY <1>1 DEF Room, Push
  <2> QED
    BY <1>1, <2>1
<1>2. CASE Len(log) >= max_events
  <2>1. log # <<>> /\ Tail(log) \in Seq(Event) /\ Len(Tail(log)) = Len(log) - 1
    BY <1>2
  <2>2. \A i \in 1..(Len(log) - 1) : Tail(log)[i] = log[i + 1]
    BY <2>1
  <2>3. Push(Room(log), e) = Append(Tail(log), e) /\ Len(log) = max_events
    BY <1>2 DEF Room, Push
  <2> QED
    BY <1>2, <2>1, <2>2, <2>3
<1> QED
  BY <1>1, <1>2

\* The lock is taken and the event goes in, or the thread panics.
LEMMA EnterInv == ASSUME NEW t \in Thread PROVE LogInv /\ Enter(t) => LogInv'
<1> SUFFICES ASSUME LogInv, Enter(t) PROVE LogInv'
  OBVIOUS
<1> USE DEF LogInv
<1> DEFINE e == pending[t][1]
<1>1. e \in Event /\ max_events \in Nat
  BY CapacitiesAssumption DEF Enter, LogTypeOK
<1> DEFINE PanicsOn ==
      \/ poisoned /\ Panic(t) /\ UNCHANGED poisoned
      \/ ~poisoned /\ NothingToRemove /\ Panic(t) /\ poisoned' = TRUE
<1>2. CASE PanicsOn
  <2>1. /\ UNCHANGED <<max_events, events, now, calls, appended>>
        /\ panicked' = panicked \cup {t} /\ poisoned' = TRUE
    BY <1>2 DEF Panic, LogTypeOK
  <2>2. LogTypeOK'
    <3>1. pending' \in [Thread -> Seq(Event)]
      BY DEF Enter, LogTypeOK
    <3> QED
      BY <2>1, <3>1 DEF LogTypeOK
  <2>3. NewestKept' /\ StampedByNow' /\ OverlapsInverted' /\ ZeroStaysEmpty'
    BY <2>1 DEF NewestKept, StampedByNow, OverlapsInverted, ZeroStaysEmpty
  <2>4. PendingIsNewest'
    BY <2>1 DEF Enter, LogTypeOK, PendingIsNewest
  <2>5. max_events = 0 /\ appended = <<>>
    <3>1. CASE poisoned
      BY <3>1 DEF OnlyCapacityZeroPanics
    <3>2. CASE NothingToRemove
      <4>1. max_events = 0
        BY <1>1, <3>2 DEF NothingToRemove
      <4> QED
        BY <4>1 DEF ZeroStaysEmpty
    <3> QED
      BY <1>2, <3>1, <3>2
  <2> QED
    BY <2>1, <2>2, <2>3, <2>4, <2>5 DEF OnlyCapacityZeroPanics
<1>3. CASE /\ ~poisoned /\ ~NothingToRemove
           /\ events' = Push(Room(events), e) /\ appended' = Append(appended, e)
           /\ UNCHANGED <<max_events, poisoned, now, calls, panicked>>
  <2>1. max_events # 0
    <3>1. events \in Seq(Event) /\ Len(events) <= max_events
      BY DEF LogTypeOK
    <3>2. max_events = 0 => events = <<>> /\ Len(events) >= max_events
      BY <3>1
    <3> QED
      BY <1>3, <3>2 DEF NothingToRemove
  <2>2. /\ events' \in Seq(Event)
        /\ Len(events') = IF Len(events) < max_events THEN Len(events) + 1 ELSE max_events
        /\ \A i \in DOMAIN events' :
             events'[i] = IF i = Len(events') THEN e
                          ELSE IF Len(events) < max_events THEN events[i] ELSE events[i + 1]
    <3>1. events \in Seq(Event) /\ Len(events) <= max_events
      BY DEF LogTypeOK
    <3> DEFINE new == Push(Room(events), e)
    <3>2. /\ new \in Seq(Event)
          /\ Len(new) = IF Len(events) < max_events THEN Len(events) + 1 ELSE max_events
          /\ \A i \in DOMAIN new :
               new[i] = IF i = Len(new) THEN e
                        ELSE IF Len(events) < max_events THEN events[i] ELSE events[i + 1]
      BY <1>1, <2>1, <3>1, RoomPush, Zenon
    <3>3. events' = new
      BY <1>3
    <3> HIDE DEF new, e
    <3> QED
      BY <3>2, <3>3
  <2>3. /\ appended \in Seq(Event) /\ appended' \in Seq(Event)
        /\ Len(appended') = Len(appended) + 1
        /\ appended'[Len(appended) + 1] = e
        /\ \A i \in 1..Len(appended) : appended'[i] = appended[i]
    BY <1>1, <1>3 DEF LogTypeOK
  <2>4. LogTypeOK'
    <3>1. pending' \in [Thread -> Seq(Event)]
      BY DEF Enter, LogTypeOK
    <3>2. Len(events') <= max_events' /\ max_events' \in Capacities
      BY <1>1, <1>3, <2>2 DEF LogTypeOK
    <3> QED
      BY <1>3, <2>2, <2>3, <3>1, <3>2 DEF LogTypeOK
  <2>5. NewestKept'
    <3>1. Len(events) = IF Len(appended) < max_events THEN Len(appended) ELSE max_events
      BY DEF NewestKept
    <3>2. Len(events') = IF Len(appended') < max_events THEN Len(appended') ELSE max_events
      BY <1>1, <2>1, <2>2, <2>3, <3>1
    <3>3. events \in Seq(Event) /\ Len(events) \in Nat /\ Len(appended) \in Nat
      BY <2>3 DEF LogTypeOK
    <3>4. ASSUME NEW i \in DOMAIN events'
          PROVE  events'[i] = appended'[Len(appended') - Len(events') + i]
      <4> HIDE DEF e
      <4>1. i \in 1..Len(events') /\ Len(events') \in Nat
        BY <2>2, <3>4
      <4>0. /\ Len(appended) \in Nat /\ Len(events) \in Nat /\ max_events \in Nat
            /\ Len(appended') = Len(appended) + 1
            /\ Len(events') = IF Len(events) < max_events THEN Len(events) + 1 ELSE max_events
        BY <1>1, <2>2, <2>3, <3>3
      <4>2. CASE i = Len(events')
        BY <2>2, <2>3, <3>3, <4>1, <4>2
      <4>3. CASE i < Len(events') /\ Len(events) < max_events
        <5>1. events'[i] = events[i] /\ i \in DOMAIN events
          BY <2>2, <3>3, <4>1, <4>3
        <5>2. events[i] = appended[Len(appended) - Len(events) + i]
          BY <5>1 DEF NewestKept
        <5> DEFINE k == Len(appended) - Len(events) + i
        <5>0. Len(events) = Len(appended)
          BY <3>1, <4>0, <4>3
        <5>3. k \in 1..Len(appended) /\ Len(appended') - Len(events') + i = k
          <6>1. k = i
            BY <4>0, <4>1, <5>0
          <6>2. Len(appended') - Len(events') + i = i
            BY <4>0, <4>1, <4>3, <5>0
          <6>3. i \in 1..Len(appended)
            BY <4>0, <4>1, <4>3, <5>0
          <6> QED
            BY <6>1, <6>2, <6>3
        <5>4. appended'[k] = appended[k]
          BY <2>3, <5>3
        <5> QED
          BY <5>1, <5>2, <5>3, <5>4
      <4>4. CASE i < Len(events') /\ Len(events) >= max_events
        <5>1. events'[i] = events[i + 1] /\ i + 1 \in DOMAIN events
          BY <1>1, <2>2, <3>1, <3>3, <4>1, <4>4
        <5>2. events[i + 1] = appended[Len(appended) - Len(events) + (i + 1)]
          BY <5>1 DEF NewestKept
        <5> DEFINE k == Len(appended) - Len(events) + (i + 1)
        <5>0. /\ Len(events) = max_events /\ Len(events') = max_events
              /\ max_events <= Len(appended)
          BY <3>1, <4>0, <4>4
        <5>3. k \in 1..Len(appended) /\ Len(appended') - Len(events') + i = k
          <6>1. k = Len(appended) - max_events + (i + 1)
            BY <5>0
          <6>2. Len(appended') - Len(events') + i = k
            BY <4>0, <4>1, <5>0, <6>1
          <6>3. i < max_events
            BY <4>4, <5>0
          <6>4. k \in 1..Len(appended)
            BY <4>0, <4>1, <5>0, <6>1, <6>3
          <6> QED
            BY <6>2, <6>4
        <5>4. appended'[k] = appended[k]
          BY <2>3, <5>3
        <5> QED
          BY <5>1, <5>2, <5>3, <5>4
      <4> QED
        BY <1>1, <3>3, <4>1, <4>2, <4>3, <4>4
    <3>5. max_events' = max_events
      BY <1>3
    <3> QED
      BY <3>2, <3>4, <3>5 DEF NewestKept
  <2>6. StampedByNow'
    BY <1>3, <2>3 DEF Enter, StampedByNow, PendingIsNewest
  <2>7. PendingIsNewest'
    <3> SUFFICES ASSUME NEW u \in Thread, pending'[u] # <<>>
                 PROVE  /\ Len(pending'[u]) = 1
                        /\ pending'[u][1].thread = u /\ pending'[u][1].time <= now'
                        /\ pending'[u][1].behind <= Len(appended')
                        /\ \A i \in DOMAIN appended' :
                             i <= pending'[u][1].behind \/ appended'[i].thread = u =>
                               appended'[i].time <= pending'[u][1].time
      BY DEF PendingIsNewest
    <3>1. u # t /\ pending'[u] = pending[u]
      BY DEF Enter, LogTypeOK
    <3>2. pending[u][1] \in Event /\ Len(pending[u]) = 1
      BY <3>1 DEF LogTypeOK, PendingIsNewest
    <3>3. pending[u][1].behind \in Nat /\ pending[u][1].behind <= Len(appended)
      BY <3>1, <3>2 DEF PendingIsNewest, Event
    <3>4. e.thread = t
      BY DEF PendingIsNewest, Enter
    <3>5. ASSUME NEW i \in DOMAIN appended',
                 i <= pending[u][1].behind \/ appended'[i].thread = u
          PROVE  i \in DOMAIN appended /\ appended'[i] = appended[i]
      BY <2>3, <3>1, <3>3, <3>4, <3>5
    <3>6. /\ pending[u][1].thread = u /\ pending[u][1].time <= now
          /\ \A i \in DOMAIN appended :
               i <= pending[u][1].behind \/ appended[i].thread = u =>
                 appended[i].time <= pending[u][1].time
      BY <3>1 DEF PendingIsNewest
    <3> QED
      BY <1>3, <2>3, <3>1, <3>2, <3>3, <3>5, <3>6
  <2>8. OverlapsInverted'
    <3> SUFFICES ASSUME NEW i \in DOMAIN appended', NEW j \in DOMAIN appended',
                        i < j, appended'[i].time > appended'[j].time
                 PROVE  appended'[i].thread # appended'[j].thread /\ appended'[j].behind < i
      BY DEF OverlapsInverted
    <3>1. i \in 1..Len(appended) /\ appended'[i] = appended[i]
      BY <2>3
    <3>2. CASE j <= Len(appended)
      BY <2>3, <3>1, <3>2 DEF OverlapsInverted
    <3>3. CASE j = Len(appended) + 1
      <4>1. appended'[j] = e /\ e.thread = t
        BY <2>3, <3>3 DEF PendingIsNewest, Enter
      <4>2. i <= e.behind \/ appended[i].thread = t => appended[i].time <= e.time
        BY <2>3, <3>1 DEF PendingIsNewest, Enter
      <4>3. e.time \in Nat /\ e.behind \in Nat /\ appended[i].time \in Nat
        <5>1. appended[i] \in Event
          BY <2>3, <3>1
        <5> QED
          BY <1>1, <5>1 DEF Event
      <4> QED
        BY <3>1, <4>1, <4>2, <4>3
    <3> QED
      BY <2>3, <3>2, <3>3
  <2>9. ZeroStaysEmpty' /\ OnlyCapacityZeroPanics'
    BY <1>3, <2>1 DEF ZeroStaysEmpty, OnlyCapacityZeroPanics
  <2> QED
    BY <2>4, <2>5, <2>6, <2>7, <2>8, <2>9
<1> QED
  BY <1>2, <1>3 DEF Enter

\* A reader panics on a poisoned log.
LEMMA ReadInv == ASSUME NEW t \in Thread PROVE LogInv /\ Read(t) => LogInv'
BY DEF Read, Panic, LogInv, LogTypeOK, NewestKept, StampedByNow, PendingIsNewest, OverlapsInverted,
       ZeroStaysEmpty, OnlyCapacityZeroPanics

\* Nothing happens.
LEMMA LogStutterInv == LogInv /\ UNCHANGED logVars => LogInv'
BY DEF logVars, LogInv, LogTypeOK, NewestKept, StampedByNow, PendingIsNewest, OverlapsInverted,
       ZeroStaysEmpty, OnlyCapacityZeroPanics

\* The invariant holds of every log that threads share.
THEOREM LogInvariance == LogSpec => []LogInv
<1>1. LogInv /\ [LogNext]_logVars => LogInv'
  BY TickInv, StampInv, EnterInv, ReadInv, LogStutterInv DEF LogNext
<1> QED
  BY InitLogInv, <1>1, PTL DEF LogSpec

\* Of the events ever recorded, a log holds the newest, in lock order, as many
\* as its capacity allows (EventLog::record).
THEOREM NewestKeptHolds == LogSpec => []NewestKept
<1>1. LogInv => NewestKept
  BY DEF LogInv
<1> QED
  BY LogInvariance, <1>1, PTL

\* However the calls of record interleave, events out of the order of their
\* time stamps are those of overlapping calls.
THEOREM OnlyOverlapsInvertedHolds == LogSpec => []OnlyOverlapsInverted
<1>1. LogInv => OnlyOverlapsInverted
  <2> SUFFICES ASSUME LogInv, NEW i \in DOMAIN events, NEW j \in DOMAIN events,
                      i < j, events[i].time > events[j].time
               PROVE  /\ events[i].thread # events[j].thread
                      /\ events[j].behind < Len(appended) - Len(events) + i
    BY DEF OnlyOverlapsInverted
  <2> DEFINE k == Len(appended) - Len(events)
  <2>1. k \in Nat /\ events \in Seq(Event) /\ appended \in Seq(Event)
    BY CapacitiesAssumption DEF LogInv, LogTypeOK, NewestKept
  <2>2. k + i \in DOMAIN appended /\ k + j \in DOMAIN appended /\ k + i < k + j
    BY <2>1
  <2>3. events[i] = appended[k + i] /\ events[j] = appended[k + j]
    BY DEF LogInv, NewestKept
  <2> QED
    BY <2>2, <2>3 DEF LogInv, OverlapsInverted
<1> QED
  BY LogInvariance, <1>1, PTL

\* No thread ever panics on a log with room for an event, and the poison is
\* for good.
THEOREM OnlyCapacityZeroPanicsHolds == LogSpec => []OnlyCapacityZeroPanics
<1>1. LogInv => OnlyCapacityZeroPanics
  BY DEF LogInv
<1> QED
  BY LogInvariance, <1>1, PTL
============================================================================
