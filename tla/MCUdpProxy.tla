----------------------------- MODULE MCUdpProxy -----------------------------
(* A small instance of UdpProxy for TLC. *)
EXTENDS UdpProxy

CONSTANTS px4, other, client   \* model values: addresses

\* A second program may send to PX4's port; the client has one address.
SmallAddresses ==
  [d \in Direction |-> IF d = "to_client" THEN {px4, other} ELSE {client}]

\* PX4 sends two datagrams, the client one.
SmallSends == [d \in Direction |-> IF d = "to_client" THEN 2 ELSE 1]

Clean ==
  [delay_ms |-> 0, jitter_ms |-> 0, loss_rate |-> "never",
   burst_loss_length |-> 0, duplicate_rate |-> "never", replay_stale_ms |-> 0]

Noisy ==
  [Clean EXCEPT !.delay_ms = 1, !.loss_rate = "maybe", !.burst_loss_length = 2,
                !.duplicate_rate = "maybe"]

Echo == [Clean EXCEPT !.replay_stale_ms = 1]

SmallProfiles ==
  { [default |-> Noisy, phases |-> <<>>],
    [default |-> Clean,
     phases |-> <<[after |-> 1, duration |-> 1, profile |-> Echo]>>] }
============================================================================
