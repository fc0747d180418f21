---------------------------- MODULE DatagramLink ----------------------------
(***************************************************************************)
(* What the proxy promises the two programs that talk through it: a        *)
(* datagram link that opens once both sides have been heard.  Until then   *)
(* packets are ignored; afterwards every packet is accepted, in the order  *)
(* it was sent, and may be delivered never, once or many times, at any     *)
(* later moment and in any order, but only to the other side.              *)
(***************************************************************************)
EXTENDS Naturals

CONSTANT Packets   \* the numbers a direction's packets may have: 1, 2, ...

VARIABLES
  heard,      \* the sides that have been heard, named by the way they send
  accepted,   \* per direction: packets taken for forwarding
  ignored,    \* per direction: packets that came before the other side spoke
  delivered   \* per direction: packets the other side has got at least once

Direction == {"to_client", "to_px4"}

Opposite(d) == IF d = "to_client" THEN "to_px4" ELSE "to_client"

Init ==
  /\ heard = {}
  /\ accepted = [d \in Direction |-> {}]
  /\ ignored = [d \in Direction |-> {}]
  /\ delivered = [d \in Direction |-> {}]

\* Packets are judged one at a time, in the order they were sent.
Handled(d) == accepted[d] \cup ignored[d]

IsNext(d, p) == p \notin Handled(d) /\ \A q \in 1..(p - 1) : q \in Handled(d)

Hear(d) ==
  /\ heard' = heard \cup {d}
  /\ UNCHANGED <<accepted, ignored, delivered>>

Accept(d, p) ==
  /\ heard = Direction
  /\ IsNext(d, p)
  /\ accepted' = [accepted EXCEPT ![d] = @ \cup {p}]
  /\ UNCHANGED <<heard, ignored, delivered>>

Ignore(d, p) ==
  /\ d \in heard /\ Opposite(d) \notin heard
  /\ IsNext(d, p)
  /\ ignored' = [ignored EXCEPT ![d] = @ \cup {p}]
  /\ UNCHANGED <<heard, accepted, delivered>>

Deliver(d, p) ==
  /\ p \in accepted[d]
  /\ delivered' = [delivered EXCEPT ![d] = @ \cup {p}]
  /\ UNCHANGED <<heard, accepted, ignored>>

Next ==
  \E d \in Direction :
    \/ Hear(d)
    \/ \E p \in Packets : Accept(d, p) \/ Ignore(d, p) \/ Deliver(d, p)

Spec == Init /\ [][Next]_<<heard, accepted, ignored, delivered>>
============================================================================
