------------------------------ MODULE UdpProxy ------------------------------
(***************************************************************************)
(* The UDP proxy between PX4 and the harness: the two forwarding tasks and *)
(* the sends they spawn                                                    *)
(* (crates/px4-harness-core/src/proxy/udp_proxy.rs).                       *)
(*                                                                         *)
(* A task handles one datagram at a time, in four steps that interleave    *)
(* with the other task: take the datagram from its socket, store the       *)
(* sender's address, read the address of the other side, and run the fault *)
(* pipeline, which spawns one send per Forward action.  Each step is one   *)
(* critical section or one await of the code.  A direction is named by     *)
(* where its packets go; its packets are numbered in the order sent.       *)
(***************************************************************************)
EXTENDS FaultStages, FiniteSets, Bags

CONSTANTS
  Addresses,  \* per direction: the addresses datagrams of it may come from
  NoAddress,  \* an address store that is still None
  Profiles,   \* the (default profile, phases) pairs a scenario may configure
  MaxSends,   \* bound, per direction: datagrams sent
  MaxTime     \* bound: no new instant after this one, except to end a sleep

Direction == {"to_client", "to_px4"}

Opposite(d) == IF d = "to_client" THEN "to_px4" ELSE "to_client"

ASSUME AddressesAssumption ==
  /\ DOMAIN Addresses = Direction
  /\ \A d \in Direction : NoAddress \notin Addresses[d]
ASSUME ProfilesAssumption ==
  Profiles \subseteq [default : FaultProfile, phases : Seq(FaultPhase)]
ASSUME BoundsAssumption ==
  MaxSends \in [Direction -> Nat] /\ MaxTime \in Nat

VARIABLES
  config,     \* the profile and phases both pipelines were created with
  now,        \* milliseconds since the pipelines were created
  sent,       \* per direction: datagrams the sender has sent
  socket,     \* per direction: datagrams the socket has queued for its task
  learned,    \* per direction: the sender's address, as last stored
  task,       \* per direction: the forwarding task
  pipe,       \* per direction: its fault pipeline
  flying,     \* the spawned sends that have not run to their end: a bag
  accepted,   \* history, per direction: packets given to the pipeline
  ignored,    \* history, per direction: packets dropped for want of a target
  finished,   \* history, per direction: spawned sends that have ended
  delivered,  \* history, per direction: packets that reached the other side
  stored,     \* history, per direction: the sender's addresses stored, in order
  route,      \* history, per direction: for each packet accepted, which of the
              \* other side's stored addresses its task read
  arrived     \* history, per direction: the address a datagram was sent to, and
              \* the packet that caused it

Histories == <<accepted, ignored, finished, delivered>>

Destinations == <<stored, route, arrived>>

vars == <<config, now, sent, socket, learned, task, pipe, flying,
          Histories, Destinations>>

Step == {"recv", "learn", "lookup", "process"}

\* A task between two datagrams holds none.
Idle == [step |-> "recv", packet |-> 0, src |-> NoAddress, target |-> NoAddress]

AddressOrNone(d) == Addresses[d] \cup {NoAddress}

\* Types; a task about to forward has an address to forward to.
TypeOK ==
  /\ config \in Profiles
  /\ now \in Nat
  /\ sent \in [Direction -> Nat]
  /\ \A d \in Direction :
       /\ socket[d] \in Seq([src : Addresses[d], data : Nat])
       /\ learned[d] \in AddressOrNone(d)
       /\ task[d] \in [step : Step, packet : Nat, src : AddressOrNone(d),
                       target : AddressOrNone(Opposite(d))]
       /\ task[d].step = "process" => task[d].target # NoAddress
       /\ pipe[d] \in Pipeline(Nat)
       /\ accepted[d] \subseteq Nat /\ ignored[d] \subseteq Nat
       /\ delivered[d] \subseteq Nat
       /\ stored[d] \in Seq(Addresses[d])
       /\ route[d] \in [accepted[d] -> Nat]
       /\ arrived[d] \subseteq [to : Addresses[Opposite(d)], cause : Nat]
  /\ IsABag(flying)
  /\ finished \in [Direction -> Nat]

----------------------------------------------------------------------------
Init ==
  /\ config \in Profiles
  /\ now = 0
  /\ sent = [d \in Direction |-> 0]
  /\ socket = [d \in Direction |-> <<>>]
  /\ learned = [d \in Direction |-> NoAddress]
  /\ task = [d \in Direction |-> Idle]
  /\ pipe = [d \in Direction |-> NewPipeline]
  /\ flying = EmptyBag
  /\ accepted = [d \in Direction |-> {}]
  /\ ignored = [d \in Direction |-> {}]
  /\ finished = [d \in Direction |-> 0]
  /\ delivered = [d \in Direction |-> {}]
  /\ stored = [d \in Direction |-> <<>>]
  /\ route = [d \in Direction |-> <<>>]
  /\ arrived = [d \in Direction |-> {}]

\* PX4 or the harness sends a datagram to the proxy.
Send(d, src) ==
  /\ sent[d] < MaxSends[d]
  /\ sent' = [sent EXCEPT ![d] = @ + 1]
  /\ socket' = [socket EXCEPT ![d] = Append(@, [src |-> src, data |-> sent[d] + 1])]
  /\ UNCHANGED <<config, now, learned, task, pipe, flying, Histories, Destinations>>

\* recv_from returns a datagram.
Recv(d) ==
  /\ task[d].step = "recv" /\ socket[d] # <<>>
  /\ task' = [task EXCEPT ![d] = [step |-> "learn", packet |-> Head(socket[d]).data,
                                  src |-> Head(socket[d]).src, target |-> NoAddress]]
  /\ socket' = [socket EXCEPT ![d] = Tail(@)]
  /\ UNCHANGED <<config, now, sent, learned, pipe, flying, Histories, Destinations>>

\* Mutant of Learn: the sender is stored only when the packet will be forwarded.
LearnIfForwarding(d) ==
  /\ task[d].step = "learn"
  /\ learned' = IF learned[Opposite(d)] = NoAddress
                THEN learned
                ELSE [learned EXCEPT ![d] = task[d].src]
  /\ stored' = IF learned[Opposite(d)] = NoAddress
               THEN stored
               ELSE [stored EXCEPT ![d] = Append(@, task[d].src)]
  /\ task' = [task EXCEPT ![d].step = "lookup"]
  /\ UNCHANGED <<config, now, sent, socket, pipe, flying, Histories, route, arrived>>

\* The sender's address is stored, whatever was stored before: not only the
\* first packet of a side decides where the answers go.
Learn(d) ==
  /\ task[d].step = "learn"
  /\ learned' = [learned EXCEPT ![d] = task[d].src]
  /\ stored' = [stored EXCEPT ![d] = Append(@, task[d].src)]
  /\ task' = [task EXCEPT ![d].step = "lookup"]
  /\ UNCHANGED <<config, now, sent, socket, pipe, flying, Histories, route, arrived>>

\* What is remembered of a packet that will be forwarded: the address read is
\* the last the other side's task has stored.
Accept(d) ==
  /\ accepted' = [accepted EXCEPT ![d] = @ \cup {task[d].packet}]
  /\ route' = [route EXCEPT ![d] =
       [p \in accepted[d] \cup {task[d].packet} |->
          IF p = task[d].packet THEN Len(stored[Opposite(d)]) ELSE route[d][p]]]

\* Mutants of Lookup: a missing address is used all the same; the task waits
\* for the address instead of dropping the packet.
LookupUnguarded(d) ==
  /\ task[d].step = "lookup"
  /\ task' = [task EXCEPT ![d].step = "process", ![d].target = learned[Opposite(d)]]
  /\ Accept(d)
  /\ UNCHANGED <<config, now, sent, socket, learned, pipe, flying, ignored, finished,
                 delivered, stored, arrived>>

LookupWaits(d) == learned[Opposite(d)] # NoAddress /\ LookupUnguarded(d)

\* The other side's address is read; without one the datagram is forgotten.
Lookup(d) ==
  LET target == learned[Opposite(d)] IN
  /\ task[d].step = "lookup"
  /\ IF target = NoAddress
     THEN /\ task' = [task EXCEPT ![d] = Idle]
          /\ ignored' = [ignored EXCEPT ![d] = @ \cup {task[d].packet}]
          /\ UNCHANGED <<accepted, route>>
     ELSE /\ task' = [task EXCEPT ![d].step = "process", ![d].target = target]
          /\ Accept(d)
          /\ UNCHANGED ignored
  /\ UNCHANGED <<config, now, sent, socket, learned, pipe, flying, finished, delivered,
                 stored, arrived>>

\* Mutant of Spawned: equal sends are merged into one.
SpawnedOnce(d, target, sends) ==
  LET flights == {[dir |-> d, target |-> target, data |-> sends[i].data,
                   due |-> now + sends[i].delay, cause |-> task[d].packet] :
                     i \in DOMAIN sends}
  IN  [f \in flights |-> 1]

\* apply_actions: one spawned task per packet to send, asleep until its time.
\* The packet it was spawned for is history.
Spawned(d, target, sends) ==
  LET Flight(i) == [dir |-> d, target |-> target, data |-> sends[i].data,
                    due |-> now + sends[i].delay, cause |-> task[d].packet]
      flights   == {Flight(i) : i \in DOMAIN sends}
  IN  [f \in flights |-> Cardinality({i \in DOMAIN sends : Flight(i) = f})]

\* The pipeline decides; the task goes back to its socket.
Forwards(d) ==
  LET t       == task[d]
      profile == ActiveProfile(config.default, config.phases, now)
  IN  /\ t.step = "process"
      /\ \E outcome \in Process(pipe[d], profile, now, now, t.packet) :
           /\ pipe' = [pipe EXCEPT ![d] = outcome.pipe]
           /\ flying' = flying (+) Spawned(d, t.target, outcome.sends)
      /\ task' = [task EXCEPT ![d] = Idle]
      /\ UNCHANGED <<config, now, sent, socket, learned, Histories, Destinations>>

\* A spawned send wakes up and ends: its datagram arrives, or send_to fails
\* and the error is ignored.
Ends(f) ==
  /\ f.due <= now
  /\ flying' = flying (-) SetToBag({f})
  /\ finished' = [finished EXCEPT ![f.dir] = @ + 1]
  /\ UNCHANGED <<config, now, sent, socket, learned, task, pipe, accepted, ignored,
                 stored, route>>

\* The datagram of f has reached the other side, at some address.
Delivers(f, address) ==
  /\ delivered' = [delivered EXCEPT ![f.dir] = @ \cup {f.data}]
  /\ arrived' = [arrived EXCEPT ![f.dir] = @ \cup {[to |-> address, cause |-> f.cause]}]

\* Mutants of Arrives: the send uses the socket of the other side; it looks the
\* address up when it wakes.
ArrivesCrossed(f) ==
  /\ Ends(f)
  /\ delivered' = [delivered EXCEPT ![Opposite(f.dir)] = @ \cup {f.data}]
  /\ UNCHANGED arrived

ArrivesAtLatest(f) == Ends(f) /\ Delivers(f, learned[Opposite(f.dir)])

Arrives(f) == Ends(f) /\ Delivers(f, f.target)

SendFails(f) == Ends(f) /\ UNCHANGED <<delivered, arrived>>

Tick ==
  /\ now < MaxTime \/ \E f \in BagToSet(flying) : f.due > now
  /\ now' = now + 1
  /\ UNCHANGED <<config, sent, socket, learned, task, pipe, flying, Histories, Destinations>>

TaskStep(d) == Recv(d) \/ Learn(d) \/ Lookup(d) \/ Forwards(d)

Lands == \E f \in BagToSet(flying) : Arrives(f) \/ SendFails(f)

Next ==
  \/ \E d \in Direction : \E src \in Addresses[d] : Send(d, src)
  \/ \E d \in Direction : TaskStep(d)
  \/ Lands
  \/ Tick

Spec == Init /\ [][Next]_vars

\* The runtime goes on polling both tasks, timers fire and sends complete.
FairSpec ==
  /\ Spec
  /\ \A d \in Direction : WF_vars(TaskStep(d))
  /\ WF_vars(Lands) /\ WF_vars(Tick)

----------------------------------------------------------------------------
(* Properties                                                              *)

\* Each task stores its sender before it looks up the other side, so two
\* first packets that cross cannot both be dropped: at most one direction
\* ever ignores packets.
OnlyOneSideIgnored == \E d \in Direction : ignored[d] = {}

\* What is under way: the datagram in a task's hands, the sends not yet ended.
Holds(d) == IF task[d].step \in {"learn", "lookup"} THEN 1 ELSE 0

Pending(d) == {f \in BagToSet(flying) : f.dir = d}

\* One pair for each copy of each of them.
Copies(d) == UNION {{f} \X (1..flying[f]) : f \in Pending(d)}

\* No packet is lost inside the proxy except where a fault or the missing
\* address says so: every packet sent is queued, in the task's hands, ignored
\* or processed, and every Forward the pipelines counted is a send that is
\* still pending or has ended.
NothingUnaccounted ==
  \A d \in Direction :
    /\ sent[d] = Len(socket[d]) + Holds(d)
                   + Cardinality(ignored[d]) + Cardinality(accepted[d])
    /\ pipe[d].packets_processed + (IF task[d].step = "process" THEN 1 ELSE 0)
         = Cardinality(accepted[d])
    /\ pipe[d].packets_forwarded + pipe[d].packets_duplicated
         + pipe[d].packets_replayed = Cardinality(Copies(d)) + finished[d]

\* The address that was the other side's last when the task looked it up for
\* packet p.
AddressRead(d, p) == stored[Opposite(d)][route[d][p]]

\* A send keeps its target however long it sleeps and whoever is heard in the
\* meantime: it goes, with all copies and replays it is spawned with, to the
\* address the other side had last been heard from when its packet was looked up.
TargetsAreKept ==
  \A d \in Direction :
    /\ \A f \in Pending(d) : f.cause \in accepted[d] /\ f.target = AddressRead(d, f.cause)
    /\ \A a \in arrived[d] : a.cause \in accepted[d] /\ a.to = AddressRead(d, a.cause)

\* A side is heard once its address is stored.
Link == INSTANCE DatagramLink WITH
          heard <- {d \in Direction : learned[d] # NoAddress},
          Packets <- UNION {1..MaxSends[d] : d \in Direction}

\* The proxy is a datagram link: no packet invented, none crosses over, none
\* forwarded from before the link opened.
IsDatagramLink == Link!Spec

\* Neither a task nor a send gets stuck: every datagram sent is, in the end,
\* accepted or ignored, and every send spawned for it ends, however long its
\* delay.
EverySendDone ==
  \A d \in Direction : \A p \in 1..MaxSends[d] :
    /\ sent[d] >= p ~> p \in accepted[d] \cup ignored[d]
    /\ (\E f \in Pending(d) : f.data = p) ~> (\A f \in Pending(d) : f.data # p)
============================================================================
