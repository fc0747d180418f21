--------------------------- MODULE FaultPipeline ---------------------------
(***************************************************************************)
(* One fault injector over time: FaultPipeline::with_phases and            *)
(* FaultPipeline::process of                                               *)
(* crates/px4-harness-core/src/fault/pipeline.rs.  The packets are the     *)
(* natural numbers 1, 2, ... in order of arrival; `arrivals` is a history  *)
(* variable that remembers what became of each.                            *)
(***************************************************************************)
EXTENDS FaultStages, FiniteSets

CONSTANTS
  Profiles,     \* the (default profile, phases) pairs a scenario may configure
  MaxPackets,   \* bound: packets a behaviour sends through the pipeline
  MaxTime,      \* bound: the last instant a behaviour reaches
  MaxStall      \* bound: how far the clock may move inside one `process` call

ASSUME ProfilesAssumption ==
  Profiles \subseteq [default : FaultProfile, phases : Seq(FaultPhase)]
ASSUME BoundsAssumption ==
  MaxPackets \in Nat /\ MaxTime \in Nat /\ MaxStall \in Nat

VARIABLES
  config,     \* the profile and phases the pipeline was created with
  now,        \* milliseconds since start_time
  pipe,       \* the struct FaultPipeline, its statistics included
  emitted,    \* the Forward actions the last `process` call returned
  arrivals    \* history: time, fate and price of every packet processed

vars == <<config, now, pipe, emitted, arrivals>>

Arrival == [at : Nat, fate : Fate, price : Nat]

\* The state of the pipeline and of its history, for packets numbered as they come.
TypeOK ==
  /\ config \in Profiles
  /\ now \in Nat
  /\ pipe \in Pipeline(Nat)
  /\ emitted \in Seq([data : Nat, delay : Nat])
  /\ arrivals \in Seq(Arrival)

Current == ActiveProfile(config.default, config.phases, now)

----------------------------------------------------------------------------
Init ==
  /\ config \in Profiles
  /\ now = 0
  /\ pipe = NewPipeline
  /\ emitted = <<>>
  /\ arrivals = <<>>

\* Time passes between two packets.
Tick ==
  /\ now < MaxTime
  /\ now' = now + 1
  /\ UNCHANGED <<config, pipe, emitted, arrivals>>

\* A packet arrives; the clock may move on while it is processed.
Arrive(later) ==
  LET packet == Len(arrivals) + 1
  IN  /\ packet <= MaxPackets
      /\ later <= MaxTime
      /\ \E outcome \in Process(pipe, Current, now, later, packet) :
           /\ pipe' = outcome.pipe
           /\ emitted' = outcome.sends
           /\ arrivals' = Append(arrivals,
                [at |-> now, fate |-> outcome.fate, price |-> Price(Current)])
      /\ now' = later
      /\ UNCHANGED config

Next ==
  \/ Tick
  \/ \E later \in now..(now + MaxStall) : Arrive(later)

Spec == Init /\ [][Next]_vars

----------------------------------------------------------------------------
(* Properties                                                              *)

Fated(fates) == {i \in DOMAIN arrivals : arrivals[i].fate \in fates}

\* The five counters of FaultStats tell the story of the packets: each packet
\* processed is counted once as forwarded or dropped, and no packet is
\* duplicated or replayed that was not also forwarded.
StatsAddUp ==
  /\ pipe.packets_processed = Len(arrivals)
  /\ pipe.packets_forwarded = Cardinality(Fated({"pass"}))
  /\ pipe.packets_processed = pipe.packets_forwarded + pipe.packets_dropped
  /\ pipe.packets_duplicated <= pipe.packets_forwarded
  /\ pipe.packets_replayed <= pipe.packets_forwarded

\* A loss at packet j takes packets j, j+1, ... as far as its price reaches.
Covers(j, i) ==
  arrivals[j].fate = "loss" /\ j <= i /\ i < j + arrivals[j].price

\* Bursts have exactly the configured length: a packet is dropped if and only
\* if a loss reaches it, whatever phase changes happened in between.
BurstCoverage ==
  \A i \in DOMAIN arrivals :
    arrivals[i].fate # "pass" <=> \E j \in DOMAIN arrivals : Covers(j, i)

\* One burst at a time: no loss is drawn for a packet another loss reaches.
BurstsDisjoint ==
  \A i, j, k \in DOMAIN arrivals : Covers(i, k) /\ Covers(j, k) => i = j

\* The replay buffer holds the newest packets heard, dropped ones included,
\* oldest first, and never more than its capacity.
BufferIsRecentPast ==
  LET kept == Len(pipe.replay_buffer)
      gone == Len(arrivals) - kept
  IN  /\ kept = IF Len(arrivals) < Capacity THEN Len(arrivals) ELSE Capacity
      /\ \A k \in 1..kept :
           pipe.replay_buffer[k] = [at |-> arrivals[gone + k].at, data |-> gone + k]

\* A call never sends a packet it has not heard; a packet other than the one
\* it is processing leaves only as the last send, at the delay of the
\* original, and the profile of the call asks for its age: it is the oldest
\* packet the buffer kept (the clock never runs backwards, so scanning for the
\* first stale entry finds the front of the buffer or nothing).
ReplayIsOldestAndStale ==
  [][ \A i \in DOMAIN emitted' :
        LET packet == Len(arrivals') IN
        (emitted' # emitted /\ emitted'[i].data # packet) =>
          /\ Current.replay_stale_ms > 0
          /\ i = Len(emitted')
          /\ emitted'[i].delay = emitted'[1].delay
          /\ emitted'[i].data = Head(pipe'.replay_buffer).data
          /\ now' - arrivals'[emitted'[i].data].at >= Current.replay_stale_ms ]_vars

\* The claim of the test dynamic_phase_transition and of the test plan: once a
\* phase has expired its faults are over, so a packet that arrives under a
\* profile without loss is forwarded.  The code keeps burst_remaining across
\* phases and drops it.
CleanProfileForwards ==
  [][ arrivals' # arrivals /\ ~MayHit(Current.loss_rate)
        => emitted' # <<>> ]_vars
============================================================================
