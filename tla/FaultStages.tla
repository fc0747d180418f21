---------------------------- MODULE FaultStages ----------------------------
(***************************************************************************)
(* The stages a UDP packet goes through in the fault injector, as pure     *)
(* operators on one injector's state                                       *)
(* (crates/px4-harness-core/src/fault/pipeline.rs).                        *)
(*                                                                         *)
(* The random draws of the code (rand::rng()) become the choice of one     *)
(* outcome in the set Process(...).  A rate is one of three chances: 0.0   *)
(* never hits, 1.0 always hits (the draw is in [0, 1)), anything in        *)
(* between may or may not.  Times are milliseconds.                        *)
(***************************************************************************)
EXTENDS Integers, Sequences

CONSTANT Capacity          \* packets the replay buffer keeps: 100 in the code

ASSUME CapacityAssumption == Capacity \in Nat \ {0}

Chance == {"never", "maybe", "always"}

FaultProfile ==
  [delay_ms : Nat, jitter_ms : Nat, loss_rate : Chance,
   burst_loss_length : Nat, duplicate_rate : Chance, replay_stale_ms : Nat]

FaultPhase == [after : Nat, duration : Nat, profile : FaultProfile]

\* The two ways a draw against a rate can end.
MayHit(rate)  == rate # "never"
MayMiss(rate) == rate # "always"

\* A time-stamped copy of a packet, as the replay buffer keeps it.
Remembered(Data) == [at : Nat, data : Data]

Pipeline(Data) ==
  [replay_buffer : Seq(Remembered(Data)), burst_remaining : Nat,
   packets_processed : Nat, packets_forwarded : Nat, packets_dropped : Nat,
   packets_duplicated : Nat, packets_replayed : Nat]

NewPipeline ==
  [replay_buffer |-> <<>>, burst_remaining |-> 0,
   packets_processed |-> 0, packets_forwarded |-> 0, packets_dropped |-> 0,
   packets_duplicated |-> 0, packets_replayed |-> 0]

----------------------------------------------------------------------------
(* The profile in force.  The code sorts the phases by start time with a   *)
(* stable sort and takes the last active one: the phase that starts last,  *)
(* and among those that start together the one listed last.                *)

IsActive(phase, elapsed) ==
  phase.after <= elapsed /\ elapsed < phase.after + phase.duration

ActivePhases(phases, elapsed) ==
  {i \in DOMAIN phases : IsActive(phases[i], elapsed)}

Overrides(phases, i, j) ==
  \/ phases[j].after < phases[i].after
  \/ phases[j].after = phases[i].after /\ j <= i

ActiveProfile(default, phases, elapsed) ==
  LET active == ActivePhases(phases, elapsed)
  IN  IF active = {}
      THEN default
      ELSE phases[CHOOSE i \in active :
                    \A j \in active : Overrides(phases, i, j)].profile

----------------------------------------------------------------------------
(* The stages.  An outcome is the new pipeline state, the packets to send  *)
(* (each after its delay) and the fate of the packet processed.            *)

Fate == {"pass", "loss", "burst"}

\* Mutant of Remember: the oldest packet is evicted one packet too late.
RememberOneMore(buffer, entry) ==
  LET longer == Append(buffer, entry)
  IN  IF Len(longer) > Capacity + 1 THEN Tail(longer) ELSE longer

\* The buffer keeps the newest Capacity packets.
Remember(buffer, entry) ==
  LET longer == Append(buffer, entry)
  IN  IF Len(longer) > Capacity THEN Tail(longer) ELSE longer

\* Mutant of Dropped: the packets of a burst are not counted.
DroppedUncounted(pipe, left, fate) ==
  [pipe |-> [pipe EXCEPT !.burst_remaining = left,
                         !.packets_dropped = IF fate = "burst" THEN @ ELSE @ + 1],
   sends |-> <<>>, fate |-> fate]

Dropped(pipe, left, fate) ==
  [pipe |-> [pipe EXCEPT !.burst_remaining = left,
                         !.packets_dropped = @ + 1],
   sends |-> <<>>, fate |-> fate]

\* How many packets, itself included, a lost packet takes with it.
Price(profile) ==
  IF profile.burst_loss_length > 1 THEN profile.burst_loss_length ELSE 1

\* Mutants of BurstAfterLoss: no test for a burst, so that a length of 0
\* underflows; and the lost packet not counted as the first of its burst.
BurstAfterLossUnguarded(pipe, profile) == profile.burst_loss_length - 1

BurstAfterLossOneMore(pipe, profile) ==
  IF profile.burst_loss_length > 1
  THEN profile.burst_loss_length
  ELSE pipe.burst_remaining

\* Stage 2: how many packets after this one the burst goes on to take.
BurstAfterLoss(pipe, profile) ==
  IF profile.burst_loss_length > 1
  THEN profile.burst_loss_length - 1
  ELSE pipe.burst_remaining

Forward(data, delay) == [data |-> data, delay |-> delay]

\* Stage 5: no copy, or one copy delayed by a jitter of its own.
Duplicates(profile, data, delay) ==
  (IF MayMiss(profile.duplicate_rate) THEN {<<>>} ELSE {}) \cup
  (IF MayHit(profile.duplicate_rate)
   THEN {<<Forward(data, delay + extra)>> : extra \in 0..profile.jitter_ms}
   ELSE {})

\* Stage 6: the first packet of the buffer, oldest first, that is stale.
StaleEntries(buffer, profile, now) ==
  {i \in DOMAIN buffer : now - buffer[i].at >= profile.replay_stale_ms}

\* Mutant of Replays: the buffer is searched from its newest packet.
ReplaysNewest(buffer, profile, now, delay) ==
  LET stale == StaleEntries(buffer, profile, now)
  IN  IF profile.replay_stale_ms = 0 \/ stale = {}
      THEN <<>>
      ELSE LET last == CHOOSE i \in stale : \A j \in stale : j <= i
           IN  <<Forward(buffer[last].data, delay)>>

Replays(buffer, profile, now, delay) ==
  LET stale == StaleEntries(buffer, profile, now)
  IN  IF profile.replay_stale_ms = 0 \/ stale = {}
      THEN <<>>
      ELSE LET first == CHOOSE i \in stale : \A j \in stale : i <= j
           IN  <<Forward(buffer[first].data, delay)>>

\* Stages 3 to 6, for a packet that no stage dropped.
Passed(pipe, profile, later, data, jitter, duplicate) ==
  LET delay  == profile.delay_ms + jitter
      replay == Replays(pipe.replay_buffer, profile, later, delay)
  IN  [pipe |-> [pipe EXCEPT !.packets_forwarded = @ + 1,
                             !.packets_duplicated = @ + Len(duplicate),
                             !.packets_replayed = @ + Len(replay)],
       sends |-> <<Forward(data, delay)>> \o duplicate \o replay,
       fate |-> "pass"]

\* What `process` does before its first stage.
Heard(pipe, now, data) ==
  [pipe EXCEPT !.packets_processed = @ + 1,
               !.replay_buffer = Remember(@, [at |-> now, data |-> data])]

\* Mutant of Process: a loss is drawn before the burst is looked at, and
\* starts the burst again.
ProcessLossFirst(pipe, profile, now, later, data) ==
  LET heard == Heard(pipe, now, data)
  IN  (IF MayHit(profile.loss_rate)
       THEN {Dropped(heard, BurstAfterLoss(pipe, profile), "loss")}
       ELSE {}) \cup
      (IF pipe.burst_remaining > 0
       THEN {Dropped(heard, pipe.burst_remaining - 1, "burst")}
       ELSE {Passed(heard, profile, later, data, 0, <<>>)})

\* The outcomes of `process` on a packet that arrives at `now`; the staleness
\* test reads the clock a second time, at `later`.
Process(pipe, profile, now, later, data) ==
  LET heard == Heard(pipe, now, data)
  IN  IF pipe.burst_remaining > 0
      THEN {Dropped(heard, pipe.burst_remaining - 1, "burst")}
      ELSE (IF MayHit(profile.loss_rate)
            THEN {Dropped(heard, BurstAfterLoss(pipe, profile), "loss")}
            ELSE {}) \cup
           (IF MayMiss(profile.loss_rate)
            THEN UNION {{Passed(heard, profile, later, data, jitter, duplicate) :
                           duplicate \in Duplicates(profile, data,
                                                    profile.delay_ms + jitter)} :
                        jitter \in 0..profile.jitter_ms}
            ELSE {})
============================================================================
