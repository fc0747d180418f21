---------------------------- MODULE MCGeneration ----------------------------
(***************************************************************************)
(* Generation on small numbers: 1.0 is 4000 units, a unit is the rounding  *)
(* error of a sweep.                                                       *)
(***************************************************************************)
EXTENDS Generation

MCUnit == 4000

Base ==
  [delay_ms |-> 1, jitter_ms |-> 0, loss_rate |-> 0, burst_loss_length |-> 2,
   duplicate_rate |-> 1000, replay_stale_ms |-> 0]

\* Searches of a rate and of an integer parameter; one range is the wrong way
\* round, one tolerance is never reached.
MCConfigs ==
  {[param |-> p, min |-> 0, max |-> 8, tolerance |-> t, max_iterations |-> m,
    base_profile |-> Base] :
     p \in {"loss_rate", "delay_ms"}, t \in {0, 1, 2, 3}, m \in {0, 1, 3, 5}}
    \cup {[param |-> "loss_rate", min |-> 4, max |-> 1, tolerance |-> t,
           max_iterations |-> 3, base_profile |-> Base] : t \in {0, 1}}
    \cup {[param |-> "loss_rate", min |-> 3997, max |-> 4002, tolerance |-> 1,
           max_iterations |-> 3, base_profile |-> Base]}

MCLimits == {-1, 0, 2, 5, 7, 8}

Sweep(param, min, max, step, drift) ==
  [param |-> param, min |-> min, max |-> max, step |-> step, drift |-> drift,
   base_profile |-> Base]

Sweeps ==
  {Sweep(p, min, max, step, d) :
     p \in {"loss_rate", "duplicate_rate", "delay_ms", "burst_loss_length"},
     min \in {-1000, 0, 500}, max \in {0, 2000, 2500, 4000}, step \in {1000, 1500, 4000},
     d \in {-1, 0, 1}}
    \cup {Sweep("jitter_ms", 0, 8000, 4000, 0), Sweep("replay_stale_ms", 0, 9000, 4000, 0),
          Sweep("loss_rate", 0, 4000, 0, 0)}

\* The rates drawn are in units, the integers as they are.
RangeOf(p) == IF p \in Integer THEN <<1, 3>> ELSE <<1000, 4000>>

Ranges ==
  {[p \in DOMAIN Base |-> IF p \in drawn THEN RangeOf(p) ELSE NoRange] :
     drawn \in {{}, {"delay_ms"}, {"loss_rate", "burst_loss_length"}, DOMAIN Base}}
    \cup {[p \in DOMAIN Base |-> IF p = "jitter_ms" THEN <<3, 1>> ELSE NoRange]}

MCRequests ==
  {[kind |-> "sweep", config |-> c] : c \in Sweeps}
    \cup {[kind |-> "grid", config_a |-> a, config_b |-> b] :
            a, b \in {Sweep("loss_rate", 0, 4000, 1000, 1), Sweep("delay_ms", 0, 9000, 4000, 0),
                      Sweep("delay_ms", 4000, 0, 4000, 0), Sweep("duplicate_rate", 0, 500, 4000, 0)}}
    \cup {[kind |-> "fuzz",
           config |-> [num_scenarios |-> n, seed |-> s, ranges |-> r, base_profile |-> Base]] :
            n \in {0, 1, 3}, s \in {0, 1, 7}, r \in Ranges}

\* Some numbers that differ between seeds and draws.
MCDraw(seed, n) == (seed * 7919 + n * 104729 + seed * n * 31) % 9973
============================================================================
