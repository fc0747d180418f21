---------------------------- MODULE SuiteRunner ----------------------------
(***************************************************************************)
(* One run of the px4-harness program: load a scenario or a suite, run the *)
(* scenarios one after the other on the same two ports, report, exit       *)
(* (crates/px4-harness/src/main.rs, suite.rs), with the tasks and threads  *)
(* each scenario leaves behind: the proxy's two forwarding tasks and the   *)
(* task that wraps them (proxy/udp_proxy.rs), the telemetry processor      *)
(* (telemetry/processor.rs) and the receive thread (mavlink/connection.rs).*)
(*                                                                         *)
(* The verdict on a mission is a choice here and so is its outcome, save   *)
(* for the one wait without a timeout, which may last for ever;            *)
(* MissionController says what a mission does.  The runtime is modelled by what tokio does   *)
(* with the program's tasks: aborting a task cancels that task alone, a    *)
(* dropped JoinHandle detaches its task, and returning from main cancels   *)
(* every task but waits for the blocking threads.                          *)
(***************************************************************************)
EXTENDS Naturals, Sequences, FiniteSets, Functions

CONSTANTS
  Scenarios,  \* scenario files
  Malformed,  \* those that do not parse or validate
  Requested,  \* sets of files the user may ask for
  MaxLength   \* bound: scenarios in a suite

ASSUME ScenariosAssumption == Malformed \subseteq Scenarios
ASSUME BoundsAssumption == MaxLength \in Nat

\* What the user passes: a scenario file, a suite file in the directory of its
\* scenarios, or that directory, as an absolute path, as a relative one, or as
\* "." for the current directory.
Directory == {"absolute_dir", "relative_dir", "current_dir"}

Input == {"scenario", "suite_file"} \cup Directory

VARIABLES
  input,      \* what the user passed
  suite,      \* the scenarios listed
  requested,  \* the files the user asked for
  busy,       \* another program holds one of the two ports
  pc,         \* the statement main is at
  index,      \* the scenario it runs
  verdict,    \* whether all assertions of that scenario passed
  reports,    \* the reports built: [scenario, passed]
  tasks,      \* tasks of the runtime: [kind, run]
  threads,    \* blocking receive threads, by the scenario that started them
  mail,       \* connections with a datagram to receive, by scenario
  written,    \* the files written
  code        \* the exit code main has decided, or NoCode

given == <<input, suite, requested, busy>>

main == <<given, pc, index, verdict, reports, written, code>>

vars == <<main, tasks, threads, mail>>

NoCode == 2

Kind == {"to_client", "to_px4", "wrapper", "processor"}

Forwarding == {"to_client", "to_px4"}

Run == 1..MaxLength

TaskOf(kind, run) == [kind |-> kind, run |-> run]

\* Types; `written` is within the reports asked for.
TypeOK ==
  /\ input \in Input /\ suite \in Seq(Scenarios) /\ busy \in BOOLEAN
  /\ requested \in Requested /\ written \subseteq requested
  /\ pc \in {"load", "start", "connect", "ready", "position", "flight", "evaluate",
             "abort", "report", "finish", "shutdown", "exited"}
  /\ index \in 1..(Len(suite) + 1)
  /\ verdict \in BOOLEAN
  /\ reports \in Seq([scenario : Scenarios, passed : BOOLEAN])
  /\ tasks \subseteq [kind : Kind, run : Run]
  /\ threads \subseteq Run /\ mail \subseteq Run
  /\ code \in {0, 1, NoCode}

----------------------------------------------------------------------------
(* Paths: from the root "/", or from the current directory ".".            *)

Path(from, parts) == [from |-> from, parts |-> parts]

\* Path::join.
Join(base, path) ==
  IF path.from = "/" THEN path ELSE Path(base.from, base.parts \o path.parts)

\* The directory scenarios are resolved against: the suite file's, or the
\* directory itself.
BaseDir(in) ==
  Path(IF in = "absolute_dir" THEN "/" ELSE ".",
       IF in = "current_dir" THEN <<>> ELSE <<"scenarios">>)

\* How a scenario is listed: by its name in a suite file, by its directory
\* entry's path (directory included) otherwise.
ListedPath(in, s) ==
  IF in \in Directory
  THEN Join(BaseDir(in), Path(".", <<s>>))
  ELSE Path(".", <<s>>)

\* Where the file is.
RealPath(in, s) == Join(BaseDir(in), Path(".", <<s>>))

\* ScenarioFile::load of the resolved path succeeds.
Loads(in, s) ==
  /\ Join(BaseDir(in), ListedPath(in, s)) = RealPath(in, s)
  /\ s \notin Malformed

NoneTwice == \A i, j \in DOMAIN suite : suite[i] = suite[j] => i = j

\* SuiteFile::validate: not empty, no path twice.
ValidSuite == suite # <<>> /\ NoneTwice

AllLoad == ValidSuite /\ \A i \in DOMAIN suite : Loads(input, suite[i])

----------------------------------------------------------------------------
(* main                                                                    *)

Init ==
  /\ input \in Input
  /\ suite \in UNION {[1..n -> Scenarios] : n \in 0..MaxLength}
  /\ input = "scenario" => Len(suite) = 1
  /\ input \in Directory => NoneTwice
  /\ requested \in Requested /\ busy \in BOOLEAN
  /\ pc = "load" /\ index = 1 /\ verdict = FALSE /\ reports = <<>>
  /\ tasks = {} /\ threads = {} /\ mail = {}
  /\ written = {} /\ code = NoCode

\* An error returned with ? ends main, which prints it and exits with 1.
Return(c) == pc' = "shutdown" /\ code' = c

Goto(location) == pc' = location /\ UNCHANGED code

\* Mutants of Load: the first scenario is loaded, the others when their turn
\* comes; a file that does not load is waited for.
LoadFirst ==
  /\ pc = "load"
  /\ IF ValidSuite /\ Loads(input, suite[1]) THEN Goto("start") ELSE Return(1)
  /\ UNCHANGED <<given, written, index, verdict, reports, tasks, threads, mail>>

LoadWaits ==
  /\ pc = "load" /\ AllLoad /\ Goto("start")
  /\ UNCHANGED <<given, written, index, verdict, reports, tasks, threads, mail>>

\* Everything is loaded before anything is run.
Load ==
  /\ pc = "load"
  /\ IF AllLoad THEN Goto("start") ELSE Return(1)
  /\ UNCHANGED <<given, written, index, verdict, reports, tasks, threads, mail>>

\* A port is taken while a forwarding task lives: each holds both sockets.
Holders == {t \in tasks : t.kind \in Forwarding}

PortsFree == ~busy /\ Holders = {}

\* UdpProxy::start binds the two ports and spawns the three tasks, or fails.
StartProxy ==
  /\ pc = "start"
  /\ IF PortsFree
     THEN /\ Goto("connect")
          /\ tasks' = tasks \cup
               {TaskOf(k, index) : k \in Forwarding \cup {"wrapper"}}
     ELSE Return(1) /\ UNCHANGED tasks
  /\ UNCHANGED <<given, written, index, verdict, reports, threads, mail>>

\* The MAVLink connection opens and its receive thread starts; run_mission
\* spawns the telemetry processor.  Connecting may fail.
Connect ==
  /\ pc = "connect"
  /\ \/ /\ Goto("ready")
        /\ threads' = threads \cup {index}
        /\ tasks' = tasks \cup {TaskOf("processor", index)}
     \/ Return(1) /\ UNCHANGED <<threads, tasks>>
  /\ UNCHANGED <<given, written, index, verdict, reports, mail>>

\* wait_for_ready, which has a timeout: its error ends the whole run.
WaitForReady ==
  /\ pc = "ready"
  /\ Goto("position") \/ Return(1)
  /\ UNCHANGED <<given, written, index, verdict, reports, tasks, threads, mail>>

\* run_mission waits for a first position, without a timeout.
AwaitPosition ==
  /\ pc = "position" /\ Goto("flight")
  /\ UNCHANGED <<given, written, index, verdict, reports, tasks, threads, mail>>

\* The rest of the mission ends well, or its error ends the whole run.
Fly ==
  /\ pc = "flight"
  /\ Goto("evaluate") \/ Return(1)
  /\ UNCHANGED <<given, written, index, verdict, reports, tasks, threads, mail>>

Evaluate ==
  /\ pc = "evaluate" /\ Goto("abort")
  /\ verdict' \in BOOLEAN
  /\ UNCHANGED <<given, written, index, reports, tasks, threads, mail>>

\* Mutant of Cancelled: the abort reaches the forwarding tasks.
CancelledAll(run) == {TaskOf(k, run) : k \in Forwarding \cup {"wrapper"}}

\* proxy_handle.abort() cancels the wrapper; the handles it held are dropped,
\* which detaches the forwarding tasks.
Cancelled(run) == {TaskOf("wrapper", run)}

AbortProxy ==
  /\ pc = "abort" /\ Goto("report")
  /\ tasks' = tasks \ Cancelled(index)
  /\ UNCHANGED <<given, written, index, verdict, reports, threads, mail>>

\* Mutant of BuildReport: the index is advanced twice.
BuildReportTwice ==
  /\ pc = "report"
  /\ reports' = Append(reports, [scenario |-> suite[index], passed |-> verdict])
  /\ index' = index + 2
  /\ Goto(IF index < Len(suite) THEN "start" ELSE "finish")
  /\ UNCHANGED <<given, written, verdict, tasks, threads, mail>>

BuildReport ==
  /\ pc = "report"
  /\ reports' = Append(reports, [scenario |-> suite[index], passed |-> verdict])
  /\ index' = index + 1
  /\ Goto(IF index < Len(suite) THEN "start" ELSE "finish")
  /\ UNCHANGED <<given, written, verdict, tasks, threads, mail>>

AllPassed == \A i \in DOMAIN reports : reports[i].passed

\* What a run writes, in this order.  A suite has no event log.
FileOrder == <<"json", "markdown", "junit", "event_log">>

Offered(in) == IF in = "scenario" THEN Range(FileOrder) ELSE Range(FileOrder) \ {"event_log"}

ToWrite == {i \in DOMAIN FileOrder : FileOrder[i] \in (requested \cap Offered(input)) \ written}

\* One file is written, or fails and ends the run.
WriteFile ==
  /\ pc = "finish" /\ ToWrite # {}
  /\ \/ /\ \E i \in ToWrite : /\ \A j \in ToWrite : i <= j
                              /\ written' = written \cup {FileOrder[i]}
        /\ UNCHANGED <<pc, code>>
     \/ Return(1) /\ UNCHANGED written
  /\ UNCHANGED <<given, index, verdict, reports, tasks, threads, mail>>

\* Mutant of Finish: the files are written when there is time.
FinishEarly ==
  /\ pc = "finish"
  /\ \/ AllPassed /\ Return(0)
     \/ ~AllPassed /\ pc' = "exited" /\ code' = 1
  /\ UNCHANGED <<given, written, index, verdict, reports, tasks, threads, mail>>

\* A failed assertion exits the process at once; a run without one returns
\* from main.
Finish ==
  /\ pc = "finish" /\ ToWrite = {}
  /\ \/ AllPassed /\ Return(0)
     \/ ~AllPassed /\ pc' = "exited" /\ code' = 1
  /\ UNCHANGED <<given, written, index, verdict, reports, tasks, threads, mail>>

\* What main does with no more than a bounded wait.
Bounded ==
  \/ Load \/ StartProxy \/ Connect \/ WaitForReady \/ Fly \/ Evaluate
  \/ AbortProxy \/ BuildReport \/ WriteFile \/ Finish

Main == Bounded \/ AwaitPosition

----------------------------------------------------------------------------
(* The runtime                                                             *)

\* A forwarding task delivers a datagram of the vehicle to the connection.
Datagram(run) ==
  /\ TaskOf("to_client", run) \in tasks /\ run \in threads
  /\ mail' = mail \cup {run}
  /\ UNCHANGED <<main, tasks, threads>>

\* The receive thread gets a datagram and passes it on; it ends if the
\* processor no longer holds the receiving end of the channel.
Receive(run) ==
  /\ run \in threads /\ run \in mail
  /\ mail' = mail \ {run}
  /\ threads' = IF TaskOf("processor", run) \in tasks THEN threads ELSE threads \ {run}
  /\ UNCHANGED <<main, tasks>>

\* main has returned: the runtime cancels its tasks, in some order ...
CancelTask(t) ==
  /\ pc = "shutdown" /\ t \in tasks
  /\ tasks' = tasks \ {t}
  /\ UNCHANGED <<main, threads, mail>>

\* ... and waits for the threads before the process exits.
Exit ==
  /\ pc = "shutdown" /\ tasks = {} /\ threads = {}
  /\ Goto("exited")
  /\ UNCHANGED <<given, written, index, verdict, reports, tasks, threads, mail>>

Runtime ==
  \/ \E run \in threads : Datagram(run) \/ Receive(run)
  \/ \E t \in tasks : CancelTask(t)
  \/ Exit

Running == pc # "exited"

Next == Running /\ (Main \/ Runtime)

Spec == Init /\ [][Next]_vars

\* main runs on where it waits for nothing or its wait has a timeout, the threads
\* receive what has arrived, and the runtime shuts down.  Nothing says that the
\* vehicle keeps sending, nor that it ever tells its position.
FairSpec ==
  /\ Spec
  /\ WF_vars(Bounded)
  /\ \A run \in Run : WF_vars(Receive(run))
  /\ WF_vars(\E t \in tasks : CancelTask(t)) /\ WF_vars(Exit)

----------------------------------------------------------------------------
(* Properties                                                              *)

\* The exit code is 0 only when the whole suite has run, every scenario passed
\* and every file asked for is written, save the event log of a suite, which
\* is passed over in silence; an error on the way is never lost.
ExitZeroMeansAllPassed ==
  code = 0 => /\ suite # <<>>
              /\ [i \in DOMAIN reports |-> reports[i].scenario] = suite
              /\ AllPassed
              /\ written = requested \cap Offered(input)

\* Nothing is started, and no port is taken, unless every file of the suite
\* has been loaded: a bad file at the end is found before the first flight.  A
\* directory given by a relative path, other than ".", is never that far, as
\* its entries are looked for in the directory once more.
NothingStartsUnlessAllLoad ==
  tasks # {} \/ threads # {} \/ reports # <<>> => AllLoad /\ input # "relative_dir"

\* The forwarding tasks of a scenario outlive its abort, so its ports stay
\* taken: no run gets past its first scenario.
OnlyFirstScenarioRuns == Len(reports) <= 1 /\ threads \subseteq {1}

\* Every run comes to a decision, whatever fails, unless it waits for ever for
\* the first position of a vehicle that tells none.
DecisionReached == <>(code # NoCode) \/ <>[](pc = "position")

\* The test plan's "All scenarios pass - exit code 0": a run whose scenarios
\* all passed exits.  Returning from main waits for the receive thread, which
\* waits for a datagram nobody sends.
PassingRunExits == code = 0 ~> pc = "exited"
============================================================================
