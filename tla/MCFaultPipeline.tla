-------------------------- MODULE MCFaultPipeline --------------------------
(* A small instance of FaultPipeline for TLC. *)
EXTENDS FaultPipeline

Clean ==
  [delay_ms |-> 0, jitter_ms |-> 0, loss_rate |-> "never",
   burst_loss_length |-> 0, duplicate_rate |-> "never", replay_stale_ms |-> 0]

\* Lossy in bursts of three.
Bursty == [Clean EXCEPT !.loss_rate = "maybe", !.burst_loss_length = 3]

\* Every packet is lost: the blackout phase of a scenario.
Blackout == [Clean EXCEPT !.loss_rate = "always", !.burst_loss_length = 2]

\* Delays, duplicates and replays of packets at least 1 ms old.
Noisy ==
  [Clean EXCEPT !.delay_ms = 1, !.jitter_ms = 1, !.loss_rate = "maybe",
                !.burst_loss_length = 0, !.duplicate_rate = "maybe",
                !.replay_stale_ms = 1]

\* Replays of older packets only, with no randomness.
Echo == [Clean EXCEPT !.duplicate_rate = "always", !.replay_stale_ms = 2]

Phase(after, duration, profile) ==
  [after |-> after, duration |-> duration, profile |-> profile]

\* Static profiles, a phase that follows a lossy default, overlapping phases
\* listed out of order, and two phases that start together.
SmallProfiles ==
  { [default |-> Noisy,  phases |-> <<>>],
    [default |-> Bursty, phases |-> <<Phase(1, 1, Clean)>>],
    [default |-> Clean,  phases |-> <<Phase(1, 2, Echo), Phase(0, 2, Bursty)>>],
    [default |-> Echo,   phases |-> <<Phase(1, 1, Noisy), Phase(1, 2, Blackout)>>] }
============================================================================
