--------------------------- MODULE UdpProxyProofs ---------------------------
(***************************************************************************)
(* Proofs about UdpProxy, for every set of addresses, every fault          *)
(* configuration and any number of datagrams: how the address stores are   *)
(* used, the types and where a spawned send goes, and that the proxy       *)
(* implements DatagramLink.                                                *)
(***************************************************************************)
EXTENDS UdpProxy, FaultStagesProofs

AnyAddress == UNION {Addresses[d] : d \in Direction}

Datagram == [src : AnyAddress, data : Nat]

\* As much of the types as the addresses depend on.
AddressTypes ==
  /\ sent \in [Direction -> Nat]
  /\ socket \in [Direction -> Seq(Datagram)]
  /\ learned \in [Direction -> AnyAddress \cup {NoAddress}]
  /\ task \in [Direction -> [step : Step, packet : Nat,
                             src : AnyAddress \cup {NoAddress},
                             target : AnyAddress \cup {NoAddress}]]
  /\ ignored \in [Direction -> SUBSET Nat]

\* A task between receiving a datagram and storing its sender has one to store.
SenderInHand ==
  \A d \in Direction : task[d].step = "learn" => task[d].src # NoAddress

\* Each task stores before it looks up: once it is past the store, or has ever
\* ignored a packet, the address of its own side is known and stays known.
StoresBeforeLookup ==
  \A d \in Direction :
    task[d].step \in {"lookup", "process"} \/ ignored[d] # {}
      => learned[d] # NoAddress

AddressInv ==
  AddressTypes /\ SenderInHand /\ StoresBeforeLookup /\ OnlyOneSideIgnored

\* A store that holds None holds no socket address.
LEMMA NoAddressIsNone == NoAddress \notin AnyAddress
BY AddressesAssumption DEF AnyAddress

\* There are two directions, and each is the other one's opposite.
LEMMA OppositeType ==
  ASSUME NEW d \in Direction
  PROVE  Opposite(d) \in Direction /\ Direction = {d, Opposite(d)} /\ Opposite(d) # d
BY DEF Direction, Opposite

\* When the proxy starts, both address stores are None and both tasks wait for
\* a datagram.
LEMMA InitAddressInv == Init => AddressInv
<1> SUFFICES ASSUME Init PROVE AddressInv
  OBVIOUS
<1>1. AddressTypes
  BY DEF Init, AddressTypes, Idle, Step
<1>2. SenderInHand /\ StoresBeforeLookup /\ OnlyOneSideIgnored
  BY DEF Init, SenderInHand, StoresBeforeLookup, OnlyOneSideIgnored, Idle, Direction
<1> QED
  BY <1>1, <1>2 DEF AddressInv

\* A step that leaves alone what the invariant speaks of, and at most makes a
\* task idle, preserves it.
LEMMA TaskIdles ==
  ASSUME AddressInv, NEW d \in Direction,
         task' = [task EXCEPT ![d] = Idle] \/ UNCHANGED task,
         UNCHANGED <<sent, socket, learned, ignored>>
  PROVE  AddressInv'
<1>1. Idle \in [step : Step, packet : Nat, src : AnyAddress \cup {NoAddress},
                target : AnyAddress \cup {NoAddress}]
  BY DEF Idle, Step
<1>2. AddressTypes'
  BY <1>1 DEF AddressInv, AddressTypes
<1>3. \A e \in Direction : task'[e] = task[e] \/ task'[e].step = "recv"
  BY DEF AddressInv, AddressTypes, Idle
<1>4. SenderInHand' /\ StoresBeforeLookup' /\ OnlyOneSideIgnored'
  BY <1>3 DEF AddressInv, SenderInHand, StoresBeforeLookup, OnlyOneSideIgnored
<1> QED
  BY <1>2, <1>4 DEF AddressInv

\* A datagram that arrives at a socket disturbs neither task.
LEMMA SendPreserves ==
  ASSUME AddressInv, NEW d \in Direction, NEW src \in Addresses[d], Send(d, src)
  PROVE  AddressInv'
<1>1. AddressTypes'
  <2>1. src \in AnyAddress
    BY DEF AnyAddress
  <2>2. sent[d] \in Nat /\ socket[d] \in Seq(Datagram)
    BY Zenon DEF AddressInv, AddressTypes
  <2>3. sent[d] + 1 \in Nat
    BY <2>2
  <2>4. [src |-> src, data |-> sent[d] + 1] \in Datagram
    BY <2>1, <2>3 DEF Datagram
  <2>5. Append(socket[d], [src |-> src, data |-> sent[d] + 1]) \in Seq(Datagram)
    BY <2>2, <2>4
  <2> QED
    BY <2>3, <2>5 DEF Send, AddressInv, AddressTypes, Histories
<1>2. UNCHANGED <<task, learned, ignored>>
  BY DEF Send, Histories
<1> QED
  BY <1>1, <1>2 DEF AddressInv, SenderInHand, StoresBeforeLookup, OnlyOneSideIgnored

\* A task that has received a datagram holds its sender's address (recv_from).
LEMMA RecvPreserves ==
  ASSUME AddressInv, NEW d \in Direction, Recv(d)
  PROVE  AddressInv'
<1> DEFINE got == [step |-> "learn", packet |-> Head(socket[d]).data,
                   src |-> Head(socket[d]).src, target |-> NoAddress]
<1>1. Head(socket[d]) \in Datagram /\ Tail(socket[d]) \in Seq(Datagram)
  <2>1. socket[d] \in Seq(Datagram)
    BY Zenon DEF AddressInv, AddressTypes
  <2>2. socket[d] # <<>>
    BY DEF Recv
  <2> QED
    BY <2>1, <2>2, HeadTailProperties
<1>2. task' = [task EXCEPT ![d] = got] /\ UNCHANGED <<learned, ignored, sent>>
  BY Zenon DEF Recv, Histories
<1>3. got \in [step : Step, packet : Nat, src : AnyAddress \cup {NoAddress},
               target : AnyAddress \cup {NoAddress}]
  BY <1>1 DEF Step, Datagram
<1>4. got.src # NoAddress /\ got.step = "learn"
  BY <1>1, NoAddressIsNone DEF Datagram
<1> HIDE DEF got
<1>5. AddressTypes'
  BY <1>1, <1>2, <1>3 DEF Recv, AddressInv, AddressTypes
<1>6. SenderInHand' /\ StoresBeforeLookup' /\ OnlyOneSideIgnored'
  BY <1>2, <1>4 DEF AddressInv, AddressTypes, SenderInHand, StoresBeforeLookup,
                    OnlyOneSideIgnored
<1> QED
  BY <1>5, <1>6 DEF AddressInv

\* Storing the sender makes the task's own side known for good: the store is
\* never reset to None.
LEMMA LearnPreserves ==
  ASSUME AddressInv, NEW d \in Direction, Learn(d)
  PROVE  AddressInv'
<1>1. task[d].src \in AnyAddress
  BY DEF AddressInv, AddressTypes, SenderInHand, Learn
<1>2. /\ learned' = [learned EXCEPT ![d] = task[d].src]
      /\ task' = [task EXCEPT ![d].step = "lookup"]
      /\ UNCHANGED <<sent, socket, ignored>>
  BY DEF Learn, Histories
<1>3. AddressTypes'
  BY <1>1, <1>2 DEF AddressInv, AddressTypes, Step
<1>4. /\ \A e \in Direction \ {d} : task'[e] = task[e] /\ learned'[e] = learned[e]
      /\ task'[d].step = "lookup" /\ learned'[d] # NoAddress
  BY <1>1, <1>2, NoAddressIsNone DEF AddressInv, AddressTypes
<1>5. SenderInHand' /\ StoresBeforeLookup' /\ OnlyOneSideIgnored'
  BY <1>2, <1>4 DEF AddressInv, SenderInHand, StoresBeforeLookup, OnlyOneSideIgnored
<1> QED
  BY <1>3, <1>5 DEF AddressInv

\* The heart of the matter: a packet is ignored only while the other side is
\* unknown, so that side has not ignored any.
LEMMA LookupPreserves ==
  ASSUME AddressInv, NEW d \in Direction, Lookup(d)
  PROVE  AddressInv'
<1>1. /\ task[d].step = "lookup" /\ learned[d] # NoAddress
      /\ Opposite(d) \in Direction
      /\ learned[Opposite(d)] \in AnyAddress \cup {NoAddress}
      /\ task[d].packet \in Nat
      /\ UNCHANGED <<sent, socket, learned>>
  BY OppositeType DEF Lookup, Accept, AddressInv, AddressTypes, StoresBeforeLookup
<1>2. CASE learned[Opposite(d)] = NoAddress
  <2>1. /\ task' = [task EXCEPT ![d] = Idle]
        /\ ignored' = [ignored EXCEPT ![d] = ignored[d] \cup {task[d].packet}]
    BY <1>2 DEF Lookup, Accept
  <2>2. Idle \in [step : Step, packet : Nat, src : AnyAddress \cup {NoAddress},
                  target : AnyAddress \cup {NoAddress}]
    BY DEF Idle, Step
  <2>3. AddressTypes'
    BY <1>1, <2>1, <2>2 DEF AddressInv, AddressTypes
  <2>4. /\ \A e \in Direction \ {d} : task'[e] = task[e] /\ ignored'[e] = ignored[e]
        /\ task'[d].step = "recv"
    BY <2>1 DEF AddressInv, AddressTypes, Idle
  <2>5. SenderInHand' /\ StoresBeforeLookup'
    BY <1>1, <2>4 DEF AddressInv, SenderInHand, StoresBeforeLookup
  <2>6. ignored'[Opposite(d)] = {}
    <3>1. ignored[Opposite(d)] = {}
      BY <1>1, <1>2 DEF AddressInv, StoresBeforeLookup
    <3> QED
      BY <2>4, <3>1, OppositeType
  <2> QED
    BY <1>1, <2>3, <2>5, <2>6 DEF AddressInv, OnlyOneSideIgnored
<1>3. CASE learned[Opposite(d)] # NoAddress
  <2>1. /\ task' = [task EXCEPT ![d].step = "process", ![d].target = learned[Opposite(d)]]
        /\ UNCHANGED ignored
    BY <1>3 DEF Lookup, Accept
  <2>2. AddressTypes'
    BY <1>1, <2>1 DEF AddressInv, AddressTypes, Step
  <2>3. /\ \A e \in Direction \ {d} : task'[e] = task[e]
        /\ task'[d].step = "process"
    BY <2>1 DEF AddressInv, AddressTypes
  <2> QED
    BY <1>1, <2>1, <2>2, <2>3 DEF AddressInv, SenderInHand, StoresBeforeLookup,
                                 OnlyOneSideIgnored
<1> QED
  BY <1>2, <1>3

\* The address invariant holds in every reachable state of the proxy.
LEMMA AddressInvariant == Spec => []AddressInv
<1>1. AddressInv /\ [Next]_vars => AddressInv'
  <2> SUFFICES ASSUME AddressInv, [Next]_vars PROVE AddressInv'
    OBVIOUS
  <2>1. ASSUME NEW d \in Direction, NEW src \in Addresses[d], Send(d, src)
        PROVE  AddressInv'
    BY <2>1, SendPreserves
  <2>2. ASSUME NEW d \in Direction, TaskStep(d)
        PROVE  AddressInv'
    <3>1. CASE Recv(d)
      BY <3>1, RecvPreserves
    <3>2. CASE Learn(d)
      BY <3>2, LearnPreserves
    <3>3. CASE Lookup(d)
      BY <3>3, LookupPreserves
    <3>4. CASE Forwards(d)
      BY <3>4, TaskIdles DEF Forwards, Histories
    <3> QED
      BY <2>2, <3>1, <3>2, <3>3, <3>4 DEF TaskStep
  <2>3. CASE Lands \/ Tick \/ UNCHANGED vars
    <3>1. UNCHANGED <<sent, socket, learned, task, ignored>>
      BY <2>3 DEF Lands, Arrives, SendFails, Ends, Tick, vars, Histories, Destinations
    <3>2. "to_client" \in Direction
      BY DEF Direction
    <3> QED
      BY <3>1, <3>2, TaskIdles
  <2> QED
    BY <2>1, <2>2, <2>3 DEF Next
<1> QED
  BY <1>1, InitAddressInv, PTL DEF Spec

\* However the two forwarding tasks interleave, at most one direction ever
\* ignores packets (store then lookup, in both tasks of UdpProxy::start).
THEOREM OnlyOneSideIgnoredHolds == Spec => []OnlyOneSideIgnored
BY AddressInvariant, PTL DEF AddressInv

----------------------------------------------------------------------------
(* Types, and where the spawned sends go.                                  *)

Scalars == config \in Profiles /\ now \in Nat /\ sent \in [Direction -> Nat]

Sockets == \A d \in Direction : socket[d] \in Seq([src : Addresses[d], data : Nat])

Stores == \A d \in Direction : learned[d] \in AddressOrNone(d)

Tasks ==
  \A d \in Direction :
    /\ task[d] \in [step : Step, packet : Nat, src : AddressOrNone(d),
                    target : AddressOrNone(Opposite(d))]
    /\ task[d].step = "process" => task[d].target # NoAddress

PacketSets == [Direction -> SUBSET Nat]

Counts ==
  /\ accepted \in PacketSets /\ ignored \in PacketSets /\ delivered \in PacketSets
  /\ finished \in [Direction -> Nat]

\* A pipeline remembers packets it was given, no others.
Pipes ==
  /\ pipe \in [Direction -> Pipeline(Nat)]
  /\ \A d \in Direction : pipe[d] \in Pipeline(accepted[d])

\* A task about to forward a packet has accepted it and knows the other side.
InHand ==
  \A d \in Direction : task[d].step = "process" =>
    learned[Opposite(d)] # NoAddress /\ task[d].packet \in accepted[d]

FlightType ==
  [dir : Direction, target : AnyAddress, data : Nat, due : Nat, cause : Nat]

\* A send goes to some address of the other side, and carries a packet accepted.
Aimed ==
  \A f \in BagToSet(flying) :
    /\ f.target \in Addresses[Opposite(f.dir)]
    /\ learned[Opposite(f.dir)] # NoAddress
    /\ f.data \in accepted[f.dir]

Flying ==
  /\ IsABag(flying) /\ BagToSet(flying) \subseteq FlightType
  /\ Aimed

ProxyInv ==
  /\ AddressInv /\ Scalars /\ Sockets /\ Stores /\ Tasks /\ Counts /\ Pipes
  /\ InHand /\ Flying

\* A pipeline that remembers packets of a set remembers packets of any larger
\* set.
LEMMA PipelineGrows ==
  ASSUME NEW A, NEW B, A \subseteq B, NEW p \in Pipeline(A)
  PROVE  p \in Pipeline(B)
<1>1. p.replay_buffer \in Seq(Remembered(A))
  BY DEF Pipeline
<1>2. Remembered(A) \subseteq Remembered(B)
  BY DEF Remembered
<1>3. p.replay_buffer \in Seq(Remembered(B))
  <2> HIDE DEF Remembered
  <2> DEFINE q == p.replay_buffer
             RA == Remembered(A)
             RB == Remembered(B)
  <2>1. q \in Seq(RA) /\ RA \subseteq RB
    BY <1>1, <1>2
  <2> HIDE DEF q, RA, RB
  <2>2. q \in Seq(RB)
    BY <2>1
  <2> QED
    BY <2>2 DEF q, RB
<1> QED
  BY <1>3 DEF Pipeline

\* Adding a bag of new sends keeps a bag, and adds nothing else.
LEMMA SendsAdded ==
  ASSUME NEW A, NEW B, IsABag(A), IsABag(B)
  PROVE  IsABag(A (+) B) /\ BagToSet(A (+) B) = BagToSet(A) \cup BagToSet(B)
BY DEF IsABag, BagToSet, (+)

\* Ending a send keeps a bag, and adds nothing to it.
LEMMA SendTaken ==
  ASSUME NEW A, NEW f, IsABag(A)
  PROVE  IsABag(A (-) SetToBag({f})) /\ BagToSet(A (-) SetToBag({f})) \subseteq BagToSet(A)
<1> DEFINE rest == [e \in DOMAIN A |-> IF e \in {f} THEN A[e] - 1 ELSE A[e]]
           left == {e \in DOMAIN A : rest[e] > 0}
<1>1. A (-) SetToBag({f}) = [e \in left |-> rest[e]]
  BY DEF SetToBag, (-)
<1>2. \A e \in left : rest[e] \in Nat /\ rest[e] > 0
  BY DEF IsABag
<1>3. [e \in left |-> rest[e]] \in [left -> {n \in Nat : n > 0}]
  <2> HIDE DEF left, rest
  <2> QED
    BY <1>2
<1> QED
  BY <1>1, <1>3 DEF IsABag, BagToSet

\* The proxy starts without sends.
LEMMA InitProxyInv == Init => ProxyInv
<1> SUFFICES ASSUME Init PROVE ProxyInv
  OBVIOUS
<1>1. Scalars /\ Sockets /\ Stores /\ Tasks /\ Counts /\ InHand
  BY BoundsAssumption DEF Init, Scalars, Sockets, Stores, Tasks, Counts, PacketSets, InHand, Idle,
    Step, AddressOrNone
<1>2. Pipes
  <2>1. NewPipeline \in Pipeline(Nat) /\ NewPipeline \in Pipeline({})
    BY DEF NewPipeline, Pipeline
  <2>2. pipe = [d \in Direction |-> NewPipeline] /\ accepted = [d \in Direction |-> {}]
    BY DEF Init
  <2> QED
    BY <2>1, <2>2, Zenon DEF Pipes
<1>3. Flying
  BY DEF Init, Flying, EmptyBag, SetToBag, IsABag, BagToSet, Aimed
<1> QED
  BY <1>1, <1>2, <1>3, InitAddressInv DEF ProxyInv

\* What a step leaves alone stays as it was; the address stores only ever gain
\* addresses and the accepted packets packets.
LEMMA FlyingKept ==
  ASSUME ProxyInv, UNCHANGED flying,
         \A d \in Direction : /\ learned[d] # NoAddress => learned'[d] # NoAddress
                              /\ accepted[d] \subseteq accepted'[d]
  PROVE  Flying'
<1>1. \A f \in BagToSet(flying) : Opposite(f.dir) \in Direction /\ f.dir \in Direction
  BY OppositeType DEF ProxyInv, Flying, FlightType
<1>2. Aimed'
  BY <1>1 DEF ProxyInv, Flying, Aimed
<1> QED
  BY <1>2 DEF ProxyInv, Flying

\* A datagram that arrives carries one of its sender's addresses.
LEMMA SendKeepsProxyInv ==
  ASSUME ProxyInv, AddressInv', NEW d \in Direction, NEW src \in Addresses[d], Send(d, src)
  PROVE  ProxyInv'
<1>1. /\ sent' = [sent EXCEPT ![d] = @ + 1]
      /\ socket' = [socket EXCEPT ![d] = Append(@, [src |-> src, data |-> sent[d] + 1])]
      /\ UNCHANGED <<config, now, learned, task, pipe, flying, accepted, ignored, finished,
                     delivered>>
  BY DEF Send, Histories
<1>2. Scalars'
  BY <1>1 DEF ProxyInv, Scalars
<1>3. Sockets'
  <2>1. sent[d] + 1 \in Nat
    BY DEF ProxyInv, Scalars
  <2>2. [src |-> src, data |-> sent[d] + 1] \in [src : Addresses[d], data : Nat]
    BY <2>1
  <2>3. socket[d] \in Seq([src : Addresses[d], data : Nat])
    BY DEF ProxyInv, Sockets
  <2>4. Append(socket[d], [src |-> src, data |-> sent[d] + 1])
          \in Seq([src : Addresses[d], data : Nat])
    BY <2>2, <2>3
  <2>5. /\ socket'[d] = Append(socket[d], [src |-> src, data |-> sent[d] + 1])
        /\ \A e \in Direction \ {d} : socket'[e] = socket[e]
    BY <1>1 DEF ProxyInv, AddressInv, AddressTypes
  <2> QED
    BY <2>4, <2>5 DEF ProxyInv, Sockets
<1>4. Flying'
  BY <1>1, FlyingKept
<1> QED
  BY <1>1, <1>2, <1>3, <1>4 DEF ProxyInv, Stores, Tasks, Counts, Pipes, InHand

\* A task takes the oldest datagram of its socket.
LEMMA RecvKeepsProxyInv ==
  ASSUME ProxyInv, AddressInv', NEW d \in Direction, Recv(d)
  PROVE  ProxyInv'
<1> DEFINE got == [step |-> "learn", packet |-> Head(socket[d]).data,
                   src |-> Head(socket[d]).src, target |-> NoAddress]
<1>1. /\ task' = [task EXCEPT ![d] = got] /\ socket' = [socket EXCEPT ![d] = Tail(@)]
      /\ UNCHANGED <<config, now, sent, learned, pipe, flying, accepted, ignored, finished,
                     delivered>>
  BY Zenon DEF Recv, Histories
<1>2. /\ Head(socket[d]) \in [src : Addresses[d], data : Nat]
      /\ Tail(socket[d]) \in Seq([src : Addresses[d], data : Nat])
  <2>1. socket[d] \in Seq([src : Addresses[d], data : Nat])
    BY DEF ProxyInv, Sockets
  <2>2. socket[d] # <<>>
    BY DEF Recv
  <2> QED
    BY <2>1, <2>2, HeadTailProperties
<1>3. got \in [step : Step, packet : Nat, src : AddressOrNone(d),
               target : AddressOrNone(Opposite(d))]
  BY <1>2 DEF Step, AddressOrNone
<1>4. got.step = "learn"
  OBVIOUS
<1> HIDE DEF got
<1>5. task'[d] = got /\ \A e \in Direction \ {d} : task'[e] = task[e]
  BY <1>1 DEF ProxyInv, AddressInv, AddressTypes
<1>6. Sockets'
  <2>1. socket'[d] = Tail(socket[d]) /\ \A e \in Direction \ {d} : socket'[e] = socket[e]
    BY <1>1 DEF ProxyInv, AddressInv, AddressTypes
  <2> QED
    BY <1>2, <2>1 DEF ProxyInv, Sockets
<1>7. Tasks' /\ InHand'
  BY <1>1, <1>3, <1>4, <1>5 DEF ProxyInv, Tasks, InHand
<1>8. Flying'
  BY <1>1, FlyingKept
<1> QED
  BY <1>1, <1>6, <1>7, <1>8 DEF ProxyInv, Scalars, Stores, Counts, Pipes

\* The sender stored is one of its side's addresses.
LEMMA LearnKeepsProxyInv ==
  ASSUME ProxyInv, AddressInv', NEW d \in Direction, Learn(d)
  PROVE  ProxyInv'
<1>1. /\ learned' = [learned EXCEPT ![d] = task[d].src]
      /\ task' = [task EXCEPT ![d].step = "lookup"]
      /\ UNCHANGED <<config, now, sent, socket, pipe, flying, accepted, ignored, finished,
                     delivered>>
  BY DEF Learn, Histories
<1>2. task[d].src # NoAddress /\ task[d].src \in AddressOrNone(d)
  BY DEF ProxyInv, AddressInv, SenderInHand, Tasks, Learn
<1>3. /\ learned'[d] = task[d].src
      /\ \A e \in Direction \ {d} : learned'[e] = learned[e] /\ task'[e] = task[e]
      /\ task'[d] = [task[d] EXCEPT !.step = "lookup"]
  BY <1>1 DEF ProxyInv, AddressInv, AddressTypes
<1>4. Stores'
  BY <1>2, <1>3 DEF ProxyInv, Stores
<1>5. Tasks'
  <2>1. task[d] \in [step : Step, packet : Nat, src : AddressOrNone(d),
                     target : AddressOrNone(Opposite(d))]
    BY DEF ProxyInv, Tasks
  <2>2. /\ task'[d] \in [step : Step, packet : Nat, src : AddressOrNone(d),
                         target : AddressOrNone(Opposite(d))]
        /\ task'[d].step = "lookup"
    BY <1>3, <2>1 DEF Step
  <2> QED
    BY <1>3, <2>2 DEF ProxyInv, Tasks
<1>6. \A e \in Direction : learned[e] # NoAddress => learned'[e] # NoAddress
  BY <1>2, <1>3
<1>7. InHand'
  <2>1. task'[d].step = "lookup"
    BY <1>3 DEF ProxyInv, Tasks
  <2>2. \A e \in Direction \ {d} : task'[e] = task[e]
    BY <1>3
  <2> QED
    BY <1>1, <1>6, <2>1, <2>2, OppositeType DEF ProxyInv, InHand
<1>8. Flying'
  BY <1>1, <1>6, FlyingKept
<1> QED
  BY <1>1, <1>4, <1>5, <1>7, <1>8 DEF ProxyInv, Scalars, Sockets, Counts, Pipes

\* A packet accepted is in the hands of a task that knows where it goes.
LEMMA LookupKeepsProxyInv ==
  ASSUME ProxyInv, AddressInv', NEW d \in Direction, Lookup(d)
  PROVE  ProxyInv'
<1> DEFINE target == learned[Opposite(d)]
<1>1. /\ UNCHANGED <<config, now, sent, socket, learned, pipe, flying, finished, delivered>>
      /\ Opposite(d) \in Direction /\ Opposite(Opposite(d)) = d
      /\ target \in AddressOrNone(Opposite(d)) /\ task[d].packet \in Nat
  BY OppositeType DEF Lookup, Accept, ProxyInv, Stores, Tasks, Opposite, Direction
<1> HIDE DEF target
<1>2. CASE target = NoAddress
  <2>1. /\ task' = [task EXCEPT ![d] = Idle]
        /\ ignored' = [ignored EXCEPT ![d] = @ \cup {task[d].packet}]
        /\ UNCHANGED accepted
    BY <1>2 DEF Lookup, Accept, target
  <2>2. Counts'
    BY <1>1, <2>1 DEF ProxyInv, Counts, PacketSets
  <2>3. task'[d] = Idle /\ \A e \in Direction \ {d} : task'[e] = task[e]
    BY <2>1 DEF ProxyInv, AddressInv, AddressTypes
  <2>4. Tasks'
    BY <2>3 DEF ProxyInv, Tasks, Idle, Step, AddressOrNone
  <2>5. InHand'
    BY <1>1, <2>1, <2>3 DEF ProxyInv, InHand, Idle
  <2>6. Flying'
    BY <1>1, <2>1, FlyingKept
  <2> QED
    BY <1>1, <2>1, <2>2, <2>4, <2>5, <2>6 DEF ProxyInv, Scalars, Sockets, Stores, Pipes
<1>3. CASE target # NoAddress
  <2>1. /\ task' = [task EXCEPT ![d].step = "process", ![d].target = target]
        /\ accepted' = [accepted EXCEPT ![d] = @ \cup {task[d].packet}]
        /\ UNCHANGED ignored
    BY <1>3 DEF Lookup, Accept, target
  <2>2. /\ accepted'[d] = accepted[d] \cup {task[d].packet}
        /\ \A e \in Direction \ {d} : accepted'[e] = accepted[e]
    BY <2>1 DEF ProxyInv, Counts, PacketSets
  <2>3. Counts'
    BY <1>1, <2>1 DEF ProxyInv, Counts, PacketSets
  <2>4. /\ task'[d] = [task[d] EXCEPT !.step = "process", !.target = target]
        /\ \A e \in Direction \ {d} : task'[e] = task[e]
    BY <2>1 DEF ProxyInv, AddressInv, AddressTypes
  <2>5. task[d] \in [step : Step, packet : Nat, src : AddressOrNone(d),
                     target : AddressOrNone(Opposite(d))]
    BY DEF ProxyInv, Tasks
  <2>6. /\ task'[d] \in [step : Step, packet : Nat, src : AddressOrNone(d),
                         target : AddressOrNone(Opposite(d))]
        /\ task'[d].packet = task[d].packet /\ task'[d].target = target
    BY <1>1, <2>4, <2>5 DEF Step
  <2>7. Tasks'
    BY <1>3, <2>4, <2>6 DEF ProxyInv, Tasks
  <2>8. InHand'
    <3>1. learned'[Opposite(d)] # NoAddress /\ task'[d].packet \in accepted'[d]
      BY <1>1, <1>3, <2>2, <2>6 DEF target
    <3>2. \A e \in Direction \ {d} : task'[e].step = "process" =>
            learned'[Opposite(e)] # NoAddress /\ task'[e].packet \in accepted'[e]
      BY <1>1, <2>2, <2>4 DEF ProxyInv, InHand
    <3> QED
      BY <3>1, <3>2 DEF InHand
  <2>9. \A e \in Direction : accepted[e] \subseteq accepted'[e]
    BY <2>2
  <2>10. Pipes'
    BY <1>1, <2>9, PipelineGrows DEF ProxyInv, Pipes
  <2>11. Flying'
    BY <1>1, <2>9, FlyingKept
  <2> QED
    BY <1>1, <2>3, <2>7, <2>8, <2>10, <2>11 DEF ProxyInv, Scalars, Sockets, Stores
<1> QED
  BY <1>2, <1>3

\* A send spawned carries the packet of its call or one the pipeline was given
\* before, and goes where the task's lookup said.
LEMMA SpawnedType ==
  ASSUME NEW d \in Direction, NEW target \in Addresses[Opposite(d)], NEW Data \in SUBSET Nat,
         NEW sends \in Sends(Data), now \in Nat, task[d].packet \in Nat
  PROVE  /\ IsABag(Spawned(d, target, sends))
         /\ \A f \in BagToSet(Spawned(d, target, sends)) :
              /\ f \in FlightType /\ f.dir = d /\ f.target = target /\ f.data \in Data
              /\ f.cause = task[d].packet
<1> DEFINE Flight(i) == [dir |-> d, target |-> target, data |-> sends[i].data,
                         due |-> now + sends[i].delay, cause |-> task[d].packet]
           flights == {Flight(i) : i \in DOMAIN sends}
           Alike(f) == {i \in DOMAIN sends : Flight(i) = f}
<1>1. Spawned(d, target, sends) = [f \in flights |-> Cardinality(Alike(f))]
  BY DEF Spawned
<1>2. \A i \in DOMAIN sends : sends[i] \in [data : Data, delay : Nat]
  <2> DEFINE S == [data : Data, delay : Nat]
  <2>1. sends \in Seq(S)
    BY DEF Sends
  <2> HIDE DEF S
  <2>2. \A i \in DOMAIN sends : sends[i] \in S
    BY <2>1
  <2> QED
    BY <2>2 DEF S
<1>3. \A f \in flights : /\ f \in FlightType /\ f.dir = d /\ f.target = target
                         /\ f.data \in Data /\ f.cause = task[d].packet
  <2> SUFFICES ASSUME NEW i \in DOMAIN sends
               PROVE  /\ Flight(i) \in FlightType /\ Flight(i).dir = d
                      /\ Flight(i).target = target /\ Flight(i).data \in Data
                      /\ Flight(i).cause = task[d].packet
    OBVIOUS
  <2>1. sends[i].data \in Data /\ now + sends[i].delay \in Nat
    BY <1>2
  <2>2. target \in AnyAddress
    BY OppositeType DEF AnyAddress
  <2> QED
    BY <2>1, <2>2 DEF FlightType
<1>4. ASSUME NEW f \in flights
      PROVE  Cardinality(Alike(f)) \in Nat /\ Cardinality(Alike(f)) > 0
  <2>1. IsFiniteSet(DOMAIN sends)
    <3>1. DOMAIN sends = 1..Len(sends) /\ Len(sends) \in Nat
      BY DEF Sends
    <3>2. IsFiniteSet(1..Len(sends))
      BY <3>1, FS_Interval
    <3> QED
      BY <3>1, <3>2
  <2>2. IsFiniteSet(Alike(f)) /\ Alike(f) # {}
    BY <2>1, FS_Subset
  <2> HIDE DEF Alike
  <2> QED
    BY <2>2, FS_CardinalityType, FS_EmptySet
<1>5. [f \in flights |-> Cardinality(Alike(f))] \in [flights -> {n \in Nat : n > 0}]
  <2> HIDE DEF flights, Alike
  <2> QED
    BY <1>4
<1> HIDE DEF flights, Alike
<1> QED
  BY <1>1, <1>3, <1>5 DEF IsABag, BagToSet

\* The sends of a call are added to those under way.
LEMMA ForwardsKeepsProxyInv ==
  ASSUME ProxyInv, AddressInv', NEW d \in Direction, Forwards(d)
  PROVE  ProxyInv'
<1> DEFINE profile == ActiveProfile(config.default, config.phases, now)
<1>1. PICK outcome \in Process(pipe[d], profile, now, now, task[d].packet) :
        /\ pipe' = [pipe EXCEPT ![d] = outcome.pipe]
        /\ flying' = flying (+) Spawned(d, task[d].target, outcome.sends)
  BY DEF Forwards
<1>2. /\ task' = [task EXCEPT ![d] = Idle] /\ task[d].step = "process"
      /\ UNCHANGED <<config, now, sent, socket, learned, accepted, ignored, finished, delivered>>
  BY DEF Forwards, Histories
<1>3. /\ pipe[d] \in Pipeline(accepted[d]) /\ pipe[d] \in Pipeline(Nat)
      /\ task[d].packet \in accepted[d] /\ accepted[d] \in SUBSET Nat /\ now \in Nat
      /\ learned[Opposite(d)] # NoAddress
  BY <1>2 DEF ProxyInv, Pipes, InHand, Counts, PacketSets, Scalars
<1>4. profile \in FaultProfile
  BY <1>3, ActiveProfileType, ProfilesAssumption DEF ProxyInv, Scalars
<1> HIDE DEF profile
<1>5. outcome.pipe \in Pipeline(accepted[d]) /\ outcome.sends \in Sends(accepted[d])
  BY <1>3, <1>4, ProcessType, ProcessOutcome
<1>6. outcome.pipe \in Pipeline(Nat)
  BY <1>3, <1>5, PipelineGrows
<1>7. Pipes'
  <2>1. /\ pipe'[d] = outcome.pipe /\ \A e \in Direction \ {d} : pipe'[e] = pipe[e]
        /\ pipe' \in [Direction -> Pipeline(Nat)]
    BY <1>1, <1>6 DEF ProxyInv, Pipes
  <2> QED
    BY <1>2, <1>5, <2>1 DEF ProxyInv, Pipes
<1>8. task'[d] = Idle /\ \A e \in Direction \ {d} : task'[e] = task[e]
  BY <1>2 DEF ProxyInv, AddressInv, AddressTypes
<1>9. Tasks' /\ InHand'
  BY <1>2, <1>8 DEF ProxyInv, Tasks, InHand, Idle, Step, AddressOrNone
<1>10. Flying'
  <2> DEFINE more == Spawned(d, task[d].target, outcome.sends)
  <2>1. task[d].target \in Addresses[Opposite(d)]
    BY <1>2 DEF ProxyInv, Tasks, AddressOrNone
  <2>2. /\ IsABag(more)
        /\ \A f \in BagToSet(more) : /\ f \in FlightType /\ f.dir = d
                                     /\ f.target = task[d].target /\ f.data \in accepted[d]
    BY <1>3, <1>5, <2>1, SpawnedType DEF PacketSets
  <2> HIDE DEF more
  <2>3. IsABag(flying) /\ flying' = flying (+) more
    BY <1>1 DEF more, ProxyInv, Flying
  <2>4. IsABag(flying') /\ BagToSet(flying') = BagToSet(flying) \cup BagToSet(more)
    BY <2>2, <2>3, SendsAdded
  <2>5. BagToSet(flying') \subseteq FlightType
    BY <2>2, <2>4 DEF ProxyInv, Flying
  <2>6. Aimed'
    BY <1>2, <1>3, <2>1, <2>2, <2>4 DEF ProxyInv, Flying, Aimed
  <2> QED
    BY <2>4, <2>5, <2>6 DEF Flying
<1> QED
  BY <1>2, <1>7, <1>9, <1>10 DEF ProxyInv, Scalars, Sockets, Stores, Counts

\* A send that ends leaves the others as they are.
LEMMA LandsKeepsProxyInv ==
  ASSUME ProxyInv, AddressInv', Lands
  PROVE  ProxyInv'
<1>1. PICK f \in BagToSet(flying) : Arrives(f) \/ SendFails(f)
  BY DEF Lands
<1>2. /\ flying' = flying (-) SetToBag({f})
      /\ finished' = [finished EXCEPT ![f.dir] = @ + 1]
      /\ UNCHANGED <<config, now, sent, socket, learned, task, pipe, accepted, ignored>>
      /\ \/ delivered' = [delivered EXCEPT ![f.dir] = @ \cup {f.data}]
         \/ UNCHANGED delivered
  BY <1>1 DEF Arrives, Delivers, SendFails, Ends
<1>3. f.dir \in Direction /\ f.data \in Nat
  BY DEF ProxyInv, Flying, FlightType
<1>4. Counts'
  BY <1>2, <1>3 DEF ProxyInv, Counts, PacketSets
<1>5. IsABag(flying') /\ BagToSet(flying') \subseteq BagToSet(flying)
  BY <1>2, SendTaken DEF ProxyInv, Flying
<1>6. Flying'
  BY <1>2, <1>5 DEF ProxyInv, Flying, Aimed
<1> QED
  BY <1>2, <1>4, <1>6 DEF ProxyInv, Scalars, Sockets, Stores, Tasks, Pipes, InHand

\* Time passes, or nothing happens.
LEMMA TickKeepsProxyInv ==
  ASSUME ProxyInv, AddressInv', Tick \/ UNCHANGED vars
  PROVE  ProxyInv'
<1>1. /\ UNCHANGED <<config, sent, socket, learned, task, pipe, flying, accepted, ignored,
                     finished, delivered>>
      /\ now' \in Nat
  BY DEF Tick, vars, Histories, Destinations, ProxyInv, Scalars
<1> QED
  BY <1>1 DEF ProxyInv, Scalars, Sockets, Stores, Tasks, Counts, Pipes, InHand, Flying,
    Aimed

\* The invariant holds in every reachable state of the proxy.
THEOREM ProxyInvariance == Spec => []ProxyInv
<1>1. ProxyInv /\ AddressInv' /\ [Next]_vars => ProxyInv'
  BY SendKeepsProxyInv, RecvKeepsProxyInv, LearnKeepsProxyInv, LookupKeepsProxyInv,
    ForwardsKeepsProxyInv, LandsKeepsProxyInv, TickKeepsProxyInv DEF Next, TaskStep
<1> QED
  BY <1>1, InitProxyInv, AddressInvariant, PTL DEF Spec

----------------------------------------------------------------------------
(* The proxy implements DatagramLink.                                      *)

\* Datagrams the task has taken from its socket.
Taken(d) == sent[d] - Len(socket[d])

Judged(d) == accepted[d] \cup ignored[d]

\* The socket holds the datagrams sent since the last one taken, in order, and
\* every one taken has been accepted or ignored, except one whose address the
\* task is still to look up.
OrderOf(d) ==
  /\ Len(socket[d]) <= sent[d] /\ sent[d] <= MaxSends[d]
  /\ \A i \in DOMAIN socket[d] : socket[d][i].data = Taken(d) + i
  /\ IF task[d].step \in {"learn", "lookup"}
     THEN task[d].packet = Taken(d) /\ Taken(d) > 0 /\ Judged(d) = 1..(Taken(d) - 1)
     ELSE Judged(d) = 1..Taken(d)

OrderInv == \A d \in Direction : OrderOf(d)

\* What the order depends on, as far as it is typed.
LEMMA OrderTypes ==
  ASSUME ProxyInv, NEW d \in Direction
  PROVE  /\ sent[d] \in Nat /\ Len(socket[d]) \in Nat /\ MaxSends[d] \in Nat
         /\ socket[d] \in Seq([src : Addresses[d], data : Nat])
BY BoundsAssumption DEF ProxyInv, Scalars, Sockets

\* Nothing is sent or judged at first.
LEMMA InitOrderInv == Init => OrderInv
<1> SUFFICES ASSUME Init, NEW d \in Direction PROVE OrderOf(d)
  BY DEF OrderInv
<1> QED
  BY BoundsAssumption DEF Init, OrderOf, Taken, Judged, Idle

\* A step that leaves a direction alone leaves its order alone.
LEMMA OrderKept ==
  ASSUME NEW d \in Direction, OrderOf(d),
         sent'[d] = sent[d], socket'[d] = socket[d], task'[d] = task[d],
         accepted'[d] = accepted[d], ignored'[d] = ignored[d]
  PROVE  OrderOf(d)'
BY DEF OrderOf, Taken, Judged

\* A datagram joins the queue at its end.
LEMMA SendKeepsOrder ==
  ASSUME ProxyInv, OrderInv, NEW d \in Direction, NEW src \in Addresses[d], Send(d, src)
  PROVE  OrderInv'
<1>1. /\ sent[d] < MaxSends[d] /\ sent' = [sent EXCEPT ![d] = @ + 1]
      /\ socket' = [socket EXCEPT ![d] = Append(@, [src |-> src, data |-> sent[d] + 1])]
      /\ UNCHANGED <<task, accepted, ignored>>
  BY DEF Send, Histories
<1>2. sent \in [Direction -> Nat] /\ socket \in [Direction -> Seq(Datagram)]
  BY DEF ProxyInv, AddressInv, AddressTypes
<1>3. ASSUME NEW e \in Direction \ {d} PROVE OrderOf(e)'
  BY <1>1, <1>2, <1>3, OrderKept DEF OrderInv
<1>4. OrderOf(d)'
  <2> DEFINE datagram == [src |-> src, data |-> sent[d] + 1]
  <2>1. /\ sent'[d] = sent[d] + 1 /\ socket'[d] = Append(socket[d], datagram)
        /\ sent[d] \in Nat /\ MaxSends[d] \in Nat /\ socket[d] \in Seq(Datagram)
    BY <1>1, <1>2, BoundsAssumption
  <2>2. datagram.data = sent[d] + 1
    OBVIOUS
  <2> HIDE DEF datagram
  <2>3. /\ Len(socket'[d]) = Len(socket[d]) + 1 /\ Len(socket[d]) \in Nat
        /\ \A i \in DOMAIN socket'[d] :
             socket'[d][i] = IF i = Len(socket[d]) + 1 THEN datagram ELSE socket[d][i]
        /\ DOMAIN socket'[d] = 1..(Len(socket[d]) + 1)
        /\ DOMAIN socket[d] = 1..Len(socket[d])
    BY <2>1
  <2>4. Taken(d)' = Taken(d)
    <3>1. Len(socket'[d]) = Len(socket[d]) + 1 /\ Len(socket[d]) \in Nat
      BY <2>3
    <3>2. sent'[d] = sent[d] + 1 /\ sent[d] \in Nat
      BY <2>1
    <3> QED
      BY <3>1, <3>2 DEF Taken
  <2>5. \A i \in DOMAIN socket'[d] : socket'[d][i].data = Taken(d) + i
    <3> SUFFICES ASSUME NEW i \in DOMAIN socket'[d]
                 PROVE  socket'[d][i].data = Taken(d) + i
      OBVIOUS
    <3>1. CASE i = Len(socket[d]) + 1
      BY <2>1, <2>2, <2>3, <3>1 DEF Taken
    <3>2. CASE i # Len(socket[d]) + 1
      <4>1. i \in DOMAIN socket[d]
        BY <2>3, <3>2
      <4> QED
        BY <2>3, <3>2, <4>1 DEF OrderInv, OrderOf
    <3> QED
      BY <3>1, <3>2
  <2>6. Judged(d)' = Judged(d) /\ task'[d] = task[d]
    BY <1>1 DEF Judged
  <2> QED
    BY <1>1, <2>1, <2>3, <2>4, <2>5, <2>6 DEF OrderInv, OrderOf
<1> QED
  BY <1>3, <1>4 DEF OrderInv

\* The head of the queue is the datagram after the last one taken.
LEMMA RecvKeepsOrder ==
  ASSUME ProxyInv, OrderInv, NEW d \in Direction, Recv(d)
  PROVE  OrderInv'
<1>1. /\ task[d].step = "recv" /\ socket[d] # <<>>
      /\ task' = [task EXCEPT ![d] = [step |-> "learn", packet |-> Head(socket[d]).data,
                                      src |-> Head(socket[d]).src, target |-> NoAddress]]
      /\ socket' = [socket EXCEPT ![d] = Tail(@)]
      /\ UNCHANGED <<sent, accepted, ignored>>
  BY DEF Recv, Histories
<1>2. /\ sent \in [Direction -> Nat] /\ socket \in [Direction -> Seq(Datagram)]
      /\ DOMAIN task = Direction
  BY DEF ProxyInv, AddressInv, AddressTypes
<1>3. ASSUME NEW e \in Direction \ {d} PROVE OrderOf(e)'
  BY <1>1, <1>2, <1>3, OrderKept DEF OrderInv
<1>4. OrderOf(d)'
  <2>1. /\ socket'[d] = Tail(socket[d]) /\ socket[d] \in Seq(Datagram) /\ socket[d] # <<>>
        /\ task'[d].step = "learn" /\ task'[d].packet = socket[d][1].data
        /\ sent'[d] = sent[d] /\ sent[d] \in Nat /\ Judged(d)' = Judged(d)
    BY <1>1, <1>2 DEF Judged
  <2>2. /\ Len(socket[d]) \in Nat /\ Len(socket[d]) > 0
        /\ Len(socket'[d]) = Len(socket[d]) - 1
        /\ DOMAIN socket[d] = 1..Len(socket[d]) /\ DOMAIN socket'[d] = 1..(Len(socket[d]) - 1)
        /\ \A i \in DOMAIN socket'[d] : socket'[d][i] = socket[d][i + 1]
    BY <2>1
  <2>3. Taken(d)' = Taken(d) + 1 /\ Taken(d) \in Nat
    BY <2>1, <2>2 DEF Taken, OrderInv, OrderOf
  <2>4. task'[d].packet = Taken(d) + 1
    BY <2>1, <2>2 DEF OrderInv, OrderOf
  <2>5. \A i \in DOMAIN socket'[d] : socket'[d][i].data = Taken(d) + 1 + i
    <3> SUFFICES ASSUME NEW i \in DOMAIN socket'[d]
                 PROVE  socket'[d][i].data = Taken(d) + 1 + i
      OBVIOUS
    <3>1. i + 1 \in DOMAIN socket[d] /\ i \in Nat
      BY <2>2
    <3>2. socket[d][i + 1].data = Taken(d) + (i + 1)
      BY <3>1 DEF OrderInv, OrderOf
    <3> QED
      BY <2>2, <2>3, <3>1, <3>2
  <2>6. Judged(d) = 1..Taken(d) /\ Len(socket[d]) <= sent[d] /\ sent[d] <= MaxSends[d]
    BY <1>1 DEF OrderInv, OrderOf
  <2> QED
    BY <2>1, <2>2, <2>3, <2>4, <2>5, <2>6, BoundsAssumption DEF OrderOf
<1> QED
  BY <1>3, <1>4 DEF OrderInv

\* The packet that is looked up is judged, and is the next in order.
LEMMA LookupKeepsOrder ==
  ASSUME ProxyInv, OrderInv, NEW d \in Direction, Lookup(d)
  PROVE  OrderInv'
<1>1. /\ task[d].step = "lookup"
      /\ UNCHANGED <<sent, socket>>
      /\ \/ /\ task' = [task EXCEPT ![d] = Idle]
            /\ ignored' = [ignored EXCEPT ![d] = @ \cup {task[d].packet}]
            /\ UNCHANGED accepted
         \/ /\ task' = [task EXCEPT ![d].step = "process",
                                    ![d].target = learned[Opposite(d)]]
            /\ accepted' = [accepted EXCEPT ![d] = @ \cup {task[d].packet}]
            /\ UNCHANGED ignored
  BY DEF Lookup, Accept
<1>2. /\ DOMAIN task = Direction /\ DOMAIN accepted = Direction /\ DOMAIN ignored = Direction
      /\ task[d] \in [step : Step, packet : Nat, src : AnyAddress \cup {NoAddress},
                      target : AnyAddress \cup {NoAddress}]
  BY DEF ProxyInv, AddressInv, AddressTypes, Counts, PacketSets
<1>3. ASSUME NEW e \in Direction \ {d} PROVE OrderOf(e)'
  BY <1>1, <1>2, <1>3, OrderKept DEF OrderInv
<1>4. OrderOf(d)'
  <2>1. Taken(d)' = Taken(d) /\ sent'[d] = sent[d] /\ socket'[d] = socket[d]
    BY <1>1 DEF Taken
  <2>2. task'[d].step \notin {"learn", "lookup"}
    BY <1>1, <1>2 DEF Idle
  <2>3. Judged(d)' = Judged(d) \cup {task[d].packet}
    BY <1>1, <1>2 DEF Judged
  <2>4. task[d].packet = Taken(d) /\ Taken(d) > 0 /\ Judged(d) = 1..(Taken(d) - 1)
    BY <1>1 DEF OrderInv, OrderOf
  <2>5. Taken(d) \in Nat
    <3>1. sent[d] \in Nat /\ Len(socket[d]) \in Nat
      BY OrderTypes
    <3> QED
      BY <2>4, <3>1 DEF Taken
  <2>6. Judged(d)' = 1..Taken(d)
    BY <2>3, <2>4, <2>5
  <2> QED
    BY <2>1, <2>2, <2>6 DEF OrderInv, OrderOf
<1> QED
  BY <1>3, <1>4 DEF OrderInv

\* The other steps of a task leave the numbers alone, and so do all the rest.
LEMMA OtherStepsKeepOrder ==
  ASSUME ProxyInv, OrderInv,
         \/ \E d \in Direction : Learn(d) \/ Forwards(d)
         \/ Lands \/ Tick \/ UNCHANGED vars
  PROVE  OrderInv'
<1>1. ASSUME NEW d \in Direction, Learn(d) PROVE OrderInv'
  <2>1. /\ task' = [task EXCEPT ![d].step = "lookup"] /\ task[d].step = "learn"
        /\ UNCHANGED <<sent, socket, accepted, ignored>>
    BY <1>1 DEF Learn, Histories
  <2>2. /\ DOMAIN task = Direction
        /\ task[d] \in [step : Step, packet : Nat, src : AnyAddress \cup {NoAddress},
                        target : AnyAddress \cup {NoAddress}]
    BY DEF ProxyInv, AddressInv, AddressTypes
  <2>3. task'[d].step = "lookup" /\ task'[d].packet = task[d].packet
    BY <2>1, <2>2
  <2>4. \A e \in Direction \ {d} : task'[e] = task[e]
    BY <2>1, <2>2
  <2> QED
    BY <2>1, <2>3, <2>4 DEF OrderInv, OrderOf, Taken, Judged
<1>2. ASSUME NEW d \in Direction, Forwards(d) PROVE OrderInv'
  <2>1. /\ task' = [task EXCEPT ![d] = Idle] /\ task[d].step = "process"
        /\ UNCHANGED <<sent, socket, accepted, ignored>>
    BY <1>2 DEF Forwards, Histories
  <2>2. DOMAIN task = Direction
    BY DEF ProxyInv, AddressInv, AddressTypes
  <2>3. task'[d].step = "recv" /\ \A e \in Direction \ {d} : task'[e] = task[e]
    BY <2>1, <2>2 DEF Idle
  <2> QED
    BY <2>1, <2>3 DEF OrderInv, OrderOf, Taken, Judged
<1>3. ASSUME Lands \/ Tick \/ UNCHANGED vars PROVE OrderInv'
  <2>1. UNCHANGED <<sent, socket, task, accepted, ignored>>
    BY <1>3 DEF Lands, Arrives, SendFails, Ends, Tick, vars, Histories, Destinations
  <2> QED
    BY <2>1 DEF OrderInv, OrderOf, Taken, Judged
<1> QED
  BY <1>1, <1>2, <1>3

\* Packets are judged in the order they were sent, in every reachable state.
LEMMA OrderInvariant == Spec => [](ProxyInv /\ OrderInv)
<1>1. ProxyInv /\ OrderInv /\ [Next]_vars => OrderInv'
  <2> SUFFICES ASSUME ProxyInv, OrderInv, [Next]_vars PROVE OrderInv'
    OBVIOUS
  <2> QED
    BY SendKeepsOrder, RecvKeepsOrder, LookupKeepsOrder, OtherStepsKeepOrder DEF Next, TaskStep
<1> QED
  BY <1>1, InitOrderInv, ProxyInvariance, PTL DEF Spec

SidesHeard == {d \in Direction : learned[d] # NoAddress}

\* The packet a task is to look up is the next to be judged.
LEMMA PacketIsNext ==
  ASSUME ProxyInv, OrderInv, NEW d \in Direction, task[d].step = "lookup"
  PROVE  /\ task[d].packet \in UNION {1..MaxSends[e] : e \in Direction}
         /\ Link!IsNext(d, task[d].packet)
<1>1. /\ task[d].packet = Taken(d) /\ Taken(d) > 0 /\ Judged(d) = 1..(Taken(d) - 1)
      /\ Len(socket[d]) <= sent[d] /\ sent[d] <= MaxSends[d]
  BY DEF OrderInv, OrderOf
<1>2. Taken(d) \in Nat /\ Taken(d) <= MaxSends[d] /\ MaxSends[d] \in Nat
  <2>1. sent[d] \in Nat /\ Len(socket[d]) \in Nat /\ MaxSends[d] \in Nat
    BY OrderTypes
  <2> QED
    BY <1>1, <2>1 DEF Taken
<1>3. task[d].packet \in 1..MaxSends[d]
  BY <1>1, <1>2
<1>4. Link!Handled(d) = Judged(d)
  BY DEF Link!Handled, Judged
<1>5. Link!IsNext(d, task[d].packet)
  BY <1>1, <1>2, <1>4 DEF Link!IsNext
<1> QED
  BY <1>3, <1>5

\* Each step of the proxy is a step of the link, or changes nothing it shows.
LEMMA LinkStep ==
  ASSUME ProxyInv, OrderInv, [Next]_vars
  PROVE  Link!Next \/ UNCHANGED <<SidesHeard, accepted, ignored, delivered>>
<1>1. ASSUME NEW d \in Direction, Learn(d) PROVE Link!Next
  <2>1. /\ task[d].step = "learn" /\ learned' = [learned EXCEPT ![d] = task[d].src]
        /\ UNCHANGED <<accepted, ignored, delivered>>
    BY <1>1 DEF Learn, Histories
  <2>2. DOMAIN learned = Direction /\ task[d].src # NoAddress
    BY <2>1 DEF ProxyInv, AddressInv, AddressTypes, SenderInHand
  <2>3. SidesHeard' = SidesHeard \cup {d}
    BY <2>1, <2>2 DEF SidesHeard
  <2>4. Link!Hear(d)
    BY <2>1, <2>3 DEF Link!Hear, SidesHeard
  <2> QED
    BY <2>4 DEF Link!Next, Link!Direction, Direction
<1>2. ASSUME NEW d \in Direction, Lookup(d) PROVE Link!Next
  <2>1. task[d].step = "lookup" /\ UNCHANGED <<learned, delivered>>
    BY <1>2 DEF Lookup, Accept
  <2>2. d \in SidesHeard /\ SidesHeard' = SidesHeard
    BY <2>1 DEF ProxyInv, AddressInv, StoresBeforeLookup, SidesHeard
  <2>3. /\ task[d].packet \in UNION {1..MaxSends[e] : e \in Direction}
        /\ Link!IsNext(d, task[d].packet)
    BY <2>1, PacketIsNext
  <2>4. Link!Opposite(d) = Opposite(d) /\ Opposite(d) \in Direction
        /\ Direction = {d, Opposite(d)}
    BY DEF Link!Opposite, Opposite, Direction
  <2>5. Link!Accept(d, task[d].packet) \/ Link!Ignore(d, task[d].packet)
    <3>1. CASE learned[Opposite(d)] = NoAddress
      <4>1. /\ ignored' = [ignored EXCEPT ![d] = @ \cup {task[d].packet}]
            /\ UNCHANGED accepted
        BY <1>2, <3>1 DEF Lookup, Accept
      <4>2. Opposite(d) \notin SidesHeard
        BY <3>1 DEF SidesHeard
      <4> QED
        BY <2>1, <2>2, <2>3, <2>4, <4>1, <4>2 DEF Link!Ignore, SidesHeard
    <3>2. CASE learned[Opposite(d)] # NoAddress
      <4>1. /\ accepted' = [accepted EXCEPT ![d] = @ \cup {task[d].packet}]
            /\ UNCHANGED ignored
        BY <1>2, <3>2 DEF Lookup, Accept
      <4>2. SidesHeard = Direction
        BY <2>2, <2>4, <3>2 DEF SidesHeard
      <4> QED
        BY <2>1, <2>2, <2>3, <4>1, <4>2 DEF Link!Accept, SidesHeard, Link!Direction, Direction
    <3> QED
      BY <3>1, <3>2
  <2> QED
    BY <2>3, <2>5 DEF Link!Next, Link!Direction, Direction
<1>3. ASSUME NEW f \in BagToSet(flying), Arrives(f) PROVE Link!Next
  <2>1. /\ delivered' = [delivered EXCEPT ![f.dir] = @ \cup {f.data}]
        /\ UNCHANGED <<learned, accepted, ignored>>
    BY <1>3 DEF Arrives, Delivers, Ends
  <2>2. f.dir \in Direction /\ f.data \in accepted[f.dir]
    BY DEF ProxyInv, Flying, FlightType, Aimed
  <2>3. f.data \in UNION {1..MaxSends[e] : e \in Direction}
    <3> DEFINE d == f.dir
    <3>1. /\ d \in Direction /\ f.data \in Judged(d)
          /\ Len(socket[d]) <= sent[d] /\ sent[d] <= MaxSends[d]
          /\ Judged(d) = 1..Taken(d) \/ Judged(d) = 1..(Taken(d) - 1)
      BY <2>2 DEF OrderInv, OrderOf, Judged
    <3>2. sent[d] \in Nat /\ Len(socket[d]) \in Nat /\ MaxSends[d] \in Nat
      BY <2>2, OrderTypes
    <3> HIDE DEF d
    <3>3. Taken(d) \in Int /\ Taken(d) <= MaxSends[d]
      BY <3>1, <3>2 DEF Taken
    <3>4. f.data \in 1..MaxSends[d]
      BY <3>1, <3>2, <3>3
    <3> QED
      BY <3>1, <3>4
  <2>4. Link!Deliver(f.dir, f.data)
    BY <2>1, <2>2 DEF Link!Deliver, SidesHeard
  <2> QED
    BY <2>2, <2>3, <2>4 DEF Link!Next, Link!Direction, Direction
<1>4. ASSUME \/ \E d \in Direction : \E src \in Addresses[d] : Send(d, src)
             \/ \E d \in Direction : Recv(d) \/ Forwards(d)
             \/ \E f \in BagToSet(flying) : SendFails(f)
             \/ Tick \/ UNCHANGED vars
      PROVE  UNCHANGED <<SidesHeard, accepted, ignored, delivered>>
  <2>1. UNCHANGED <<learned, accepted, ignored, delivered>>
    BY <1>4 DEF Send, Recv, Forwards, SendFails, Ends, Tick, vars, Histories, Destinations
  <2> QED
    BY <2>1 DEF SidesHeard
<1> QED
  BY <1>1, <1>2, <1>3, <1>4 DEF Next, TaskStep, Lands

\* The proxy implements the datagram link: however its tasks, faults and
\* delayed sends interleave, it invents no packet, lets none cross over, and
\* forwards none before both sides were heard.
THEOREM Refinement == Spec => IsDatagramLink
<1>1. Init => Link!Init
  BY DEF Init, Link!Init, Link!Direction, Direction
<1>2. ProxyInv /\ OrderInv /\ [Next]_vars
        => [Link!Next]_<<SidesHeard, accepted, ignored, delivered>>
  BY LinkStep
<1> QED
  BY <1>1, <1>2, OrderInvariant, PTL DEF Spec, IsDatagramLink, Link!Spec, SidesHeard

----------------------------------------------------------------------------
(* Where a send goes.                                                      *)

RouteTypes ==
  /\ stored \in [Direction -> Seq(AnyAddress)] /\ DOMAIN route = Direction
  /\ \A d \in Direction :
       /\ stored[d] \in Seq(Addresses[d])
       /\ route[d] \in [accepted[d] -> Nat]
       /\ arrived[d] \subseteq [to : Addresses[Opposite(d)], cause : Nat]
  /\ DOMAIN arrived = Direction

\* The store holds the address stored last.
LatestLearned ==
  \A d \in Direction :
    learned[d] = IF stored[d] = <<>> THEN NoAddress ELSE stored[d][Len(stored[d])]

\* What an accepted packet's task read had been stored.
RoutesStored ==
  \A d \in Direction : \A p \in accepted[d] : route[d][p] \in 1..Len(stored[Opposite(d)])

TaskRouted ==
  \A d \in Direction :
    task[d].step = "process" => task[d].target = AddressRead(d, task[d].packet)

RouteInv == RouteTypes /\ LatestLearned /\ RoutesStored /\ TaskRouted /\ TargetsAreKept

\* Nothing is stored, accepted or sent at first.
LEMMA InitRouteInv == Init => RouteInv
<1> SUFFICES ASSUME Init PROVE RouteInv
  OBVIOUS
<1>1. RouteTypes
  BY DEF Init, RouteTypes
<1>2. LatestLearned /\ RoutesStored /\ TaskRouted
  BY DEF Init, LatestLearned, RoutesStored, TaskRouted, Idle
<1>3. TargetsAreKept
  BY DEF Init, TargetsAreKept, Pending, EmptyBag, SetToBag, BagToSet
<1> QED
  BY <1>1, <1>2, <1>3 DEF RouteInv

\* What an accepted packet's task read does not change when more is stored, or
\* other packets are accepted.
LEMMA AddressesReadKept ==
  ASSUME RouteInv, NEW d \in Direction, NEW p \in accepted[d],
         Len(stored[Opposite(d)]) <= Len(stored'[Opposite(d)]),
         \A i \in 1..Len(stored[Opposite(d)]) :
           stored'[Opposite(d)][i] = stored[Opposite(d)][i],
         route'[d][p] = route[d][p]
  PROVE  AddressRead(d, p)' = AddressRead(d, p)
<1>1. route[d][p] \in 1..Len(stored[Opposite(d)])
  BY DEF RouteInv, RoutesStored
<1> QED
  BY <1>1 DEF AddressRead

\* A step that leaves the histories alone, makes no task forward, and spawns or
\* ends no send.
LEMMA QuietStepsKeepRoutes ==
  ASSUME RouteInv, UNCHANGED <<learned, flying, accepted, Destinations>>,
         \A d \in Direction : task'[d] = task[d] \/ task'[d].step # "process"
  PROVE  RouteInv'
<1>1. UNCHANGED <<stored, route, arrived>>
  BY DEF Destinations
<1>2. \A d \in Direction : \A p : AddressRead(d, p)' = AddressRead(d, p)
  BY <1>1 DEF AddressRead
<1>3. RouteTypes' /\ LatestLearned' /\ RoutesStored'
  BY <1>1 DEF RouteInv, RouteTypes, LatestLearned, RoutesStored
<1>4. TaskRouted'
  BY <1>2 DEF RouteInv, TaskRouted
<1>5. TargetsAreKept'
  BY <1>1, <1>2 DEF RouteInv, TargetsAreKept, Pending
<1> QED
  BY <1>3, <1>4, <1>5 DEF RouteInv

\* What appending does to a sequence.
LEMMA Appended ==
  ASSUME NEW S, NEW s \in Seq(S), NEW x \in S
  PROVE  /\ Append(s, x) \in Seq(S) /\ Len(Append(s, x)) = Len(s) + 1
         /\ Append(s, x)[Len(s) + 1] = x /\ Append(s, x) # <<>>
         /\ \A i \in 1..Len(s) : Append(s, x)[i] = s[i]
OBVIOUS

\* Storing an address makes it the last stored, and changes no address read.
LEMMA LearnKeepsRoutes ==
  ASSUME ProxyInv, RouteInv, NEW d \in Direction, Learn(d)
  PROVE  RouteInv'
<1> DEFINE src == task[d].src
<1>1. /\ learned' = [learned EXCEPT ![d] = src] /\ stored' = [stored EXCEPT ![d] = Append(@, src)]
      /\ task' = [task EXCEPT ![d].step = "lookup"]
      /\ UNCHANGED <<flying, accepted, route, arrived>>
  BY DEF Learn, Histories
<1>2. src \in Addresses[d]
  BY DEF ProxyInv, AddressInv, SenderInHand, Tasks, AddressOrNone, Learn
<1>3. src \in AnyAddress /\ stored[d] \in Seq(Addresses[d])
  BY <1>2 DEF AnyAddress, RouteInv, RouteTypes
<1> HIDE DEF src
<1>4. /\ learned'[d] = src /\ stored'[d] = Append(stored[d], src)
      /\ \A e \in Direction \ {d} :
           learned'[e] = learned[e] /\ stored'[e] = stored[e] /\ task'[e] = task[e]
      /\ task'[d].step = "lookup"
  BY <1>1 DEF RouteInv, RouteTypes, ProxyInv, AddressInv, AddressTypes
<1>5. /\ stored'[d] \in Seq(Addresses[d]) /\ Len(stored'[d]) = Len(stored[d]) + 1
      /\ stored'[d][Len(stored'[d])] = src /\ stored'[d] # <<>>
      /\ \A i \in 1..Len(stored[d]) : stored'[d][i] = stored[d][i]
  <2> DEFINE S   == Addresses[d]
             old == stored[d]
  <2>1. src \in S /\ old \in Seq(S) /\ stored'[d] = Append(old, src)
    BY <1>2, <1>3, <1>4
  <2> HIDE DEF S, old
  <2>2. /\ stored'[d] \in Seq(S) /\ Len(stored'[d]) = Len(old) + 1
        /\ stored'[d][Len(stored'[d])] = src /\ stored'[d] # <<>>
        /\ \A i \in 1..Len(old) : stored'[d][i] = old[i]
    BY <2>1, Appended
  <2> QED
    BY <2>2 DEF S, old
<1>6. \A e \in Direction :
        /\ Len(stored[e]) \in Nat /\ Len(stored'[e]) \in Nat
        /\ Len(stored[e]) <= Len(stored'[e])
        /\ \A i \in 1..Len(stored[e]) : stored'[e][i] = stored[e][i]
  <2>1. \A e \in Direction : Len(stored[e]) \in Nat
    BY DEF RouteInv, RouteTypes
  <2> SUFFICES ASSUME NEW e \in Direction
               PROVE  /\ Len(stored'[e]) \in Nat /\ Len(stored[e]) <= Len(stored'[e])
                      /\ \A i \in 1..Len(stored[e]) : stored'[e][i] = stored[e][i]
    BY <2>1
  <2>2. CASE e = d
    BY <1>5, <2>1, <2>2
  <2>3. CASE e # d
    BY <1>4, <2>1, <2>3
  <2> QED
    BY <2>2, <2>3
<1>7. RouteTypes'
  <2>1. stored' \in [Direction -> Seq(AnyAddress)]
    <3>1. stored \in [Direction -> Seq(AnyAddress)]
      BY DEF RouteInv, RouteTypes
    <3>2. Append(stored[d], src) \in Seq(AnyAddress)
      BY <1>3, <3>1, Appended
    <3> QED
      BY <1>1, <3>1, <3>2
  <2>2. \A e \in Direction : stored'[e] \in Seq(Addresses[e])
    BY <1>4, <1>5 DEF RouteInv, RouteTypes
  <2> QED
    BY <1>1, <2>1, <2>2 DEF RouteInv, RouteTypes
<1>8. LatestLearned'
  BY <1>4, <1>5 DEF RouteInv, LatestLearned
<1>9. RoutesStored'
  BY <1>1, <1>6, OppositeType DEF RouteInv, RoutesStored
<1>10. \A e \in Direction : \A p \in accepted[e] : AddressRead(e, p)' = AddressRead(e, p)
  BY <1>1, <1>6, OppositeType, AddressesReadKept
<1>11. TaskRouted'
  BY <1>4, <1>10 DEF RouteInv, TaskRouted, ProxyInv, InHand
<1>12. TargetsAreKept'
  BY <1>1, <1>10 DEF RouteInv, TargetsAreKept, Pending
<1> QED
  BY <1>7, <1>8, <1>9, <1>11, <1>12 DEF RouteInv

\* The address read for a packet is the last stored; no other packet's changes,
\* as this one was not accepted before.
LEMMA LookupKeepsRoutes ==
  ASSUME ProxyInv, OrderInv, RouteInv, NEW d \in Direction, Lookup(d)
  PROVE  RouteInv'
<1> DEFINE p    == task[d].packet
           read == Len(stored[Opposite(d)])
<1>1. /\ UNCHANGED <<learned, flying, stored, arrived>> /\ Opposite(d) \in Direction
      /\ task[d].step = "lookup" /\ p \in Nat /\ p \notin accepted[d]
  <2>1. OrderOf(d)
    BY DEF OrderInv
  <2>2. task[d].step = "lookup"
    BY DEF Lookup
  <2>3. p \notin accepted[d] /\ p \in Nat
    <3>1. p = Taken(d) /\ Judged(d) = 1..(Taken(d) - 1) /\ Taken(d) > 0
      BY <2>1, <2>2 DEF OrderOf
    <3>2. Taken(d) \in Int
      <4>1. sent[d] \in Nat /\ Len(socket[d]) \in Nat
        BY OrderTypes
      <4> QED
        BY <4>1 DEF Taken
    <3> QED
      BY <3>1, <3>2 DEF Judged
  <2> QED
    BY <2>2, <2>3, OppositeType DEF Lookup
<1>2. CASE learned[Opposite(d)] = NoAddress
  <2>1. task' = [task EXCEPT ![d] = Idle] /\ UNCHANGED <<accepted, route>>
    BY <1>2 DEF Lookup
  <2>2. \A e \in Direction : task'[e] = task[e] \/ task'[e].step # "process"
    BY <2>1 DEF ProxyInv, AddressInv, AddressTypes, Idle
  <2> QED
    BY <1>1, <2>1, <2>2, QuietStepsKeepRoutes DEF Destinations
<1>3. CASE learned[Opposite(d)] # NoAddress
  <2>1. /\ task' = [task EXCEPT ![d].step = "process", ![d].target = learned[Opposite(d)]]
        /\ accepted' = [accepted EXCEPT ![d] = @ \cup {p}]
        /\ route' = [route EXCEPT ![d] =
             [q \in accepted[d] \cup {p} |-> IF q = p THEN read ELSE route[d][q]]]
    BY <1>3 DEF Lookup, Accept
  <2>2. /\ task'[d].packet = p /\ task'[d].target = learned[Opposite(d)]
        /\ \A e \in Direction \ {d} :
             task'[e] = task[e] /\ accepted'[e] = accepted[e] /\ route'[e] = route[e]
        /\ accepted'[d] = accepted[d] \cup {p}
        /\ route'[d] = [q \in accepted'[d] |-> IF q = p THEN read ELSE route[d][q]]
    BY <2>1 DEF ProxyInv, AddressInv, AddressTypes, Counts, PacketSets, RouteInv, RouteTypes
  <2>3. /\ stored[Opposite(d)] # <<>> /\ learned[Opposite(d)] = stored[Opposite(d)][read]
        /\ read \in Nat /\ read > 0 /\ read \in 1..read
    <3>1. stored[Opposite(d)] \in Seq(AnyAddress)
      BY <1>1 DEF RouteInv, RouteTypes
    <3> QED
      BY <1>1, <1>3, <3>1 DEF RouteInv, LatestLearned
  <2>4. route'[d][p] = read /\ \A q \in accepted[d] : route'[d][q] = route[d][q]
    BY <1>1, <2>2
  <2>5. route'[d] \in [accepted'[d] -> Nat]
    BY <2>2, <2>3 DEF RouteInv, RouteTypes
  <2> HIDE DEF p, read
  <2>6. RouteTypes'
    <3>1. DOMAIN route' = Direction
      BY <2>1 DEF RouteInv, RouteTypes
    <3>2. \A e \in Direction : route'[e] \in [accepted'[e] -> Nat]
      BY <2>2, <2>5 DEF RouteInv, RouteTypes
    <3> QED
      BY <1>1, <3>1, <3>2 DEF RouteInv, RouteTypes
  <2>7. LatestLearned'
    BY <1>1 DEF RouteInv, LatestLearned
  <2>8. \A e \in Direction : \A q \in accepted[e] : route'[e][q] = route[e][q]
    BY <2>2, <2>4
  <2>9. RoutesStored'
    BY <1>1, <2>2, <2>3, <2>4, <2>8 DEF RouteInv, RoutesStored, read
  <2>10. \A e \in Direction : \A q \in accepted[e] : AddressRead(e, q)' = AddressRead(e, q)
    BY <1>1, <2>8 DEF AddressRead
  <2>11. TaskRouted'
    <3>1. task'[d].target = stored'[Opposite(d)][route'[d][task'[d].packet]]
      BY <1>1, <2>2, <2>3, <2>4
    <3>2. ASSUME NEW e \in Direction \ {d}, task'[e].step = "process"
          PROVE  task'[e].target = stored'[Opposite(e)][route'[e][task'[e].packet]]
      <4>1. task'[e] = task[e] /\ task[e].packet \in accepted[e]
        BY <2>2, <3>2 DEF ProxyInv, InHand
      <4>2. task[e].target = stored[Opposite(e)][route[e][task[e].packet]]
        BY <3>2, <4>1 DEF RouteInv, TaskRouted, AddressRead
      <4> QED
        BY <1>1, <2>8, <4>1, <4>2
    <3> QED
      BY <3>1, <3>2 DEF TaskRouted, AddressRead
  <2>12. TargetsAreKept'
    <3>1. \A e \in Direction : accepted[e] \subseteq accepted'[e]
      BY <2>2
    <3> QED
      BY <1>1, <2>10, <3>1 DEF RouteInv, TargetsAreKept, Pending
  <2> QED
    BY <2>6, <2>7, <2>9, <2>11, <2>12 DEF RouteInv
<1> QED
  BY <1>2, <1>3

\* The sends of a call go to the address read for its packet.
LEMMA ForwardsKeepsRoutes ==
  ASSUME ProxyInv, RouteInv, NEW d \in Direction, Forwards(d)
  PROVE  RouteInv'
<1> DEFINE profile == ActiveProfile(config.default, config.phases, now)
<1>1. PICK outcome \in Process(pipe[d], profile, now, now, task[d].packet) :
        flying' = flying (+) Spawned(d, task[d].target, outcome.sends)
  BY DEF Forwards
<1>2. /\ task' = [task EXCEPT ![d] = Idle] /\ task[d].step = "process"
      /\ UNCHANGED <<learned, accepted, stored, route, arrived>>
  BY DEF Forwards, Histories, Destinations
<1>3. /\ pipe[d] \in Pipeline(accepted[d]) /\ task[d].packet \in accepted[d]
      /\ accepted[d] \in SUBSET Nat /\ now \in Nat
      /\ task[d].target = AddressRead(d, task[d].packet)
  BY <1>2 DEF ProxyInv, Pipes, InHand, Counts, PacketSets, Scalars, RouteInv, TaskRouted
<1>4. profile \in FaultProfile
  BY <1>3, ActiveProfileType, ProfilesAssumption DEF ProxyInv, Scalars
<1> HIDE DEF profile
<1>5. outcome.sends \in Sends(accepted[d])
  BY <1>3, <1>4, ProcessType, ProcessOutcome
<1>6. task[d].target \in Addresses[Opposite(d)]
  BY <1>2 DEF ProxyInv, Tasks, AddressOrNone
<1>7. /\ BagToSet(flying') = BagToSet(flying)
                               \cup BagToSet(Spawned(d, task[d].target, outcome.sends))
      /\ \A f \in BagToSet(Spawned(d, task[d].target, outcome.sends)) :
           f.dir = d /\ f.target = task[d].target /\ f.cause = task[d].packet
  <2>1. task[d].packet \in Nat
    BY <1>3
  <2>2. /\ IsABag(Spawned(d, task[d].target, outcome.sends))
        /\ \A f \in BagToSet(Spawned(d, task[d].target, outcome.sends)) :
             f.dir = d /\ f.target = task[d].target /\ f.cause = task[d].packet
    BY <1>3, <1>5, <1>6, <2>1, SpawnedType
  <2> QED
    BY <1>1, <2>2, SendsAdded DEF ProxyInv, Flying
<1>8. \A e \in Direction : \A p : AddressRead(e, p)' = AddressRead(e, p)
  BY <1>2 DEF AddressRead
<1>9. RouteTypes' /\ LatestLearned' /\ RoutesStored'
  BY <1>2 DEF RouteInv, RouteTypes, LatestLearned, RoutesStored
<1>10. TaskRouted'
  BY <1>2, <1>8 DEF RouteInv, TaskRouted, ProxyInv, AddressInv, AddressTypes, Idle
<1>11. TargetsAreKept'
  BY <1>2, <1>3, <1>7, <1>8 DEF RouteInv, TargetsAreKept, Pending
<1> QED
  BY <1>9, <1>10, <1>11 DEF RouteInv

\* What arrives arrives where its send was to go.
LEMMA LandsKeepsRoutes ==
  ASSUME ProxyInv, RouteInv, Lands
  PROVE  RouteInv'
<1>1. PICK f \in BagToSet(flying) : Arrives(f) \/ SendFails(f)
  BY DEF Lands
<1>2. /\ flying' = flying (-) SetToBag({f})
      /\ UNCHANGED <<learned, task, accepted, stored, route>>
      /\ \/ arrived' = [arrived EXCEPT ![f.dir] = @ \cup {[to |-> f.target, cause |-> f.cause]}]
         \/ UNCHANGED arrived
  BY <1>1 DEF Arrives, Delivers, SendFails, Ends
<1>3. /\ f.dir \in Direction /\ f.cause \in Nat /\ f.target \in Addresses[Opposite(f.dir)]
      /\ f.cause \in accepted[f.dir] /\ f.target = AddressRead(f.dir, f.cause)
  BY DEF ProxyInv, Flying, Aimed, FlightType, RouteInv, TargetsAreKept, Pending
<1>4. BagToSet(flying') \subseteq BagToSet(flying)
  BY <1>2, SendTaken DEF ProxyInv, Flying
<1>5. \A e \in Direction : \A p : AddressRead(e, p)' = AddressRead(e, p)
  BY <1>2 DEF AddressRead
<1>6. \A e \in Direction :
        arrived'[e] \subseteq arrived[e] \cup
          (IF e = f.dir THEN {[to |-> f.target, cause |-> f.cause]} ELSE {})
  BY <1>2, <1>3 DEF RouteInv, RouteTypes
<1>7. DOMAIN arrived' = Direction
  BY <1>2 DEF RouteInv, RouteTypes
<1>8. RouteTypes'
  BY <1>2, <1>3, <1>6, <1>7 DEF RouteInv, RouteTypes
<1>9. LatestLearned' /\ RoutesStored'
  BY <1>2 DEF RouteInv, LatestLearned, RoutesStored
<1>10. TaskRouted'
  BY <1>2, <1>5 DEF RouteInv, TaskRouted
<1>11. TargetsAreKept'
  <2> SUFFICES ASSUME NEW e \in Direction
               PROVE  /\ \A g \in Pending(e)' : g.cause \in accepted'[e]
                                              /\ g.target = AddressRead(e, g.cause)'
                      /\ \A a \in arrived'[e] : a.cause \in accepted'[e]
                                              /\ a.to = AddressRead(e, a.cause)'
    BY DEF TargetsAreKept
  <2>1. Pending(e)' \subseteq Pending(e) /\ accepted' = accepted
    BY <1>2, <1>4 DEF Pending
  <2>2. \A g \in Pending(e)' : g.cause \in accepted'[e] /\ g.target = AddressRead(e, g.cause)'
    BY <1>5, <2>1 DEF RouteInv, TargetsAreKept
  <2>3. \A a \in arrived[e] : a.cause \in accepted'[e] /\ a.to = AddressRead(e, a.cause)'
    BY <1>5, <2>1 DEF RouteInv, TargetsAreKept
  <2> DEFINE new == [to |-> f.target, cause |-> f.cause]
  <2>4. CASE e = f.dir
    <3>1. new.cause \in accepted'[e] /\ new.to = AddressRead(e, new.cause)'
      BY <1>3, <1>5, <2>1, <2>4
    <3> QED
      BY <1>6, <2>2, <2>3, <2>4, <3>1
  <2>5. CASE e # f.dir
    BY <1>6, <2>2, <2>3, <2>5
  <2> QED
    BY <2>4, <2>5
<1> QED
  BY <1>8, <1>9, <1>10, <1>11 DEF RouteInv

\* The invariant holds in every reachable state.
LEMMA RouteInvariant == Spec => [](ProxyInv /\ RouteInv)
<1>1. ProxyInv /\ OrderInv /\ RouteInv /\ [Next]_vars => RouteInv'
  <2> SUFFICES ASSUME ProxyInv, OrderInv, RouteInv, [Next]_vars PROVE RouteInv'
    OBVIOUS
  <2>1. ASSUME NEW d \in Direction, NEW src \in Addresses[d], Send(d, src) PROVE RouteInv'
    BY <2>1, QuietStepsKeepRoutes DEF Send, Histories
  <2>2. ASSUME NEW d \in Direction, Recv(d) PROVE RouteInv'
    <3>1. \A e \in Direction : task'[e] = task[e] \/ task'[e].step # "process"
      BY <2>2 DEF Recv, ProxyInv, AddressInv, AddressTypes
    <3> QED
      BY <2>2, <3>1, QuietStepsKeepRoutes DEF Recv, Histories
  <2>3. ASSUME Tick \/ UNCHANGED vars PROVE RouteInv'
    BY <2>3, QuietStepsKeepRoutes DEF Tick, vars, Histories
  <2> QED
    BY <2>1, <2>2, <2>3, LearnKeepsRoutes, LookupKeepsRoutes, ForwardsKeepsRoutes,
      LandsKeepsRoutes DEF Next, TaskStep
<1> QED
  BY <1>1, InitRouteInv, OrderInvariant, PTL DEF Spec

\* A send, however late, goes to the address the other side had last been heard
\* from when the packet it was spawned for was looked up.
THEOREM TargetsAreKeptHolds == Spec => []TargetsAreKept
<1>1. RouteInv => TargetsAreKept
  BY DEF RouteInv
<1> QED
  BY <1>1, RouteInvariant, PTL

\* Sockets, stores, tasks, pipelines, sends and histories stay well typed; in
\* particular a task that forwards has an address to forward to.
THEOREM TypeCorrect == Spec => []TypeOK
<1>1. ProxyInv /\ RouteInv => TypeOK
  <2> SUFFICES ASSUME ProxyInv, RouteInv PROVE TypeOK
    OBVIOUS
  <2>1. \A d \in Direction : pipe[d] \in Pipeline(Nat)
    BY DEF ProxyInv, Pipes
  <2>2. \A d \in Direction :
          accepted[d] \subseteq Nat /\ ignored[d] \subseteq Nat /\ delivered[d] \subseteq Nat
    BY DEF ProxyInv, Counts, PacketSets
  <2>3. Scalars /\ Sockets /\ Stores /\ Tasks /\ IsABag(flying) /\ finished \in [Direction -> Nat]
    BY DEF ProxyInv, Counts, Flying
  <2>4. RouteTypes
    BY DEF RouteInv
  <2> HIDE DEF ProxyInv, RouteInv
  <2> QED
    BY <2>1, <2>2, <2>3, <2>4, Zenon DEF TypeOK, Scalars, Sockets, Stores, Tasks, RouteTypes
<1> QED
  BY <1>1, RouteInvariant, PTL

----------------------------------------------------------------------------
(* The accounts of the proxy.                                              *)

CopiesOf(bag, d) == UNION {{f} \X (1..bag[f]) : f \in {g \in BagToSet(bag) : g.dir = d}}

LEMMA CopiesAre ==
  ASSUME NEW bag, NEW d, NEW x
  PROVE  x \in CopiesOf(bag, d) <=>
           \E f \in BagToSet(bag) : f.dir = d /\ \E k \in 1..bag[f] : x = <<f, k>>
<1>1. ASSUME x \in CopiesOf(bag, d)
      PROVE  \E f \in BagToSet(bag) : f.dir = d /\ \E k \in 1..bag[f] : x = <<f, k>>
  <2>1. PICK f \in BagToSet(bag) : f.dir = d /\ x \in {f} \X (1..bag[f])
    BY <1>1 DEF CopiesOf
  <2>2. PICK k \in 1..bag[f] : x = <<f, k>>
    BY <2>1
  <2> QED
    BY <2>1, <2>2
<1>2. ASSUME NEW f \in BagToSet(bag), NEW k \in 1..bag[f], f.dir = d, x = <<f, k>>
      PROVE  x \in CopiesOf(bag, d)
  <2>1. x \in {f} \X (1..bag[f])
    BY <1>2
  <2> QED
    BY <1>2, <2>1 DEF CopiesOf
<1> QED
  BY <1>1, <1>2

\* A bag, and the same bag with one more copy of e.
OneMore(A, B, e) ==
  /\ IsABag(A) /\ IsABag(B) /\ BagToSet(B) = BagToSet(A) \cup {e}
  /\ B[e] = (IF e \in BagToSet(A) THEN A[e] ELSE 0) + 1
  /\ \A f \in BagToSet(A) : f # e => B[f] = A[f]

\* One more copy of a send in a bag is one more pair.
LEMMA OneCopyMore ==
  ASSUME NEW A, NEW B, NEW e, OneMore(A, B, e), NEW d,
         IsFiniteSet(CopiesOf(A, d)) \/ IsFiniteSet(CopiesOf(B, d))
  PROVE  /\ IsFiniteSet(CopiesOf(A, d)) /\ IsFiniteSet(CopiesOf(B, d))
         /\ Cardinality(CopiesOf(A, d)) \in Nat
         /\ Cardinality(CopiesOf(B, d))
              = Cardinality(CopiesOf(A, d)) + (IF e.dir = d THEN 1 ELSE 0)
<1> DEFINE n == IF e \in BagToSet(A) THEN A[e] ELSE 0
<1>0. /\ n \in Nat /\ B[e] = n + 1 /\ BagToSet(B) = BagToSet(A) \cup {e}
      /\ \A f \in BagToSet(A) : A[f] \in Nat /\ (f # e => B[f] = A[f])
      /\ e \in BagToSet(A) => n = A[e]
      /\ e \notin BagToSet(A) => n = 0
  BY DEF OneMore, IsABag, BagToSet
<1> HIDE DEF n
<1>1. ASSUME NEW x \in CopiesOf(A, d)
      PROVE  x \in CopiesOf(B, d) /\ x # <<e, B[e]>>
  <2>1. PICK f \in BagToSet(A) : f.dir = d /\ \E k \in 1..A[f] : x = <<f, k>>
    BY <1>1, CopiesAre
  <2> PICK k \in 1..A[f] : x = <<f, k>>
    BY <2>1
  <2>3. CASE f = e
    <3>1. A[f] = n /\ k \in 1..B[f] /\ k # B[e] /\ f \in BagToSet(B)
      BY <1>0, <2>3
    <3>2. x # <<e, B[e]>>
      BY <3>1
    <3> QED
      BY <2>1, <3>1, <3>2, CopiesAre
  <2>4. CASE f # e
    <3>1. B[f] = A[f] /\ f \in BagToSet(B)
      BY <1>0, <2>4
    <3> QED
      BY <2>1, <2>4, <3>1, CopiesAre
  <2> QED
    BY <2>3, <2>4
<1>2. ASSUME NEW x \in CopiesOf(B, d)
      PROVE  x \in CopiesOf(A, d) \/ (e.dir = d /\ x = <<e, B[e]>>)
  <2>1. PICK f \in BagToSet(B) : f.dir = d /\ \E k \in 1..B[f] : x = <<f, k>>
    BY <1>2, CopiesAre
  <2> PICK k \in 1..B[f] : x = <<f, k>>
    BY <2>1
  <2>2. CASE f = e
    <3>1. CASE k = n + 1
      BY <1>0, <2>1, <2>2, <3>1
    <3>2. CASE k # n + 1
      <4>1. k \in 1..n
        BY <1>0, <2>2, <3>2
      <4>2. e \in BagToSet(A) /\ n = A[e]
        BY <1>0, <4>1
      <4> QED
        BY <2>1, <2>2, <4>1, <4>2, CopiesAre
    <3> QED
      BY <3>1, <3>2
  <2>3. CASE f # e
    <3>1. f \in BagToSet(A) /\ B[f] = A[f]
      BY <1>0, <2>3
    <3> QED
      BY <2>1, <3>1, CopiesAre
  <2> QED
    BY <2>2, <2>3
<1>3. ASSUME e.dir = d
      PROVE  <<e, B[e]>> \in CopiesOf(B, d)
  <2>1. e \in BagToSet(B) /\ B[e] \in 1..B[e]
    BY <1>0
  <2> QED
    BY <1>3, <2>1, CopiesAre
<1>4. IsFiniteSet(CopiesOf(A, d)) /\ Cardinality(CopiesOf(A, d)) \in Nat
  <2>1. CopiesOf(A, d) \subseteq CopiesOf(B, d)
    BY <1>1
  <2> QED
    BY <2>1, FS_Subset, FS_CardinalityType
<1>5. CASE e.dir = d
  <2>1. CopiesOf(B, d) = CopiesOf(A, d) \cup {<<e, B[e]>>} /\ <<e, B[e]>> \notin CopiesOf(A, d)
    BY <1>1, <1>2, <1>3, <1>5
  <2>2. Cardinality(CopiesOf(B, d)) = Cardinality(CopiesOf(A, d)) + 1
          /\ IsFiniteSet(CopiesOf(B, d))
    BY <1>4, <2>1, FS_AddElement
  <2> QED
    BY <1>4, <1>5, <2>2
<1>6. CASE e.dir # d
  <2>1. CopiesOf(B, d) = CopiesOf(A, d)
    BY <1>1, <1>2, <1>6
  <2> QED
    BY <1>4, <1>6, <2>1
<1> QED
  BY <1>5, <1>6

\* Each send of a call is one copy more among the sends under way.
LEMMA SpawnedCopies ==
  ASSUME NEW bag, IsABag(bag), NEW d, NEW target, NEW S, NEW sends \in Seq(S),
         NEW e, IsFiniteSet(CopiesOf(bag, e))
  PROVE  /\ IsFiniteSet(CopiesOf(bag (+) Spawned(d, target, sends), e))
         /\ Cardinality(CopiesOf(bag (+) Spawned(d, target, sends), e))
              = Cardinality(CopiesOf(bag, e)) + (IF e = d THEN Len(sends) ELSE 0)
<1> DEFINE Flight(i) == [dir |-> d, target |-> target, data |-> sends[i].data,
                         due |-> now + sends[i].delay, cause |-> task[d].packet]
           Alike(k, f) == {i \in 1..k : Flight(i) = f}
           Had(f) == IF f \in DOMAIN bag THEN bag[f] ELSE 0
           Reached(k) == DOMAIN bag \cup {Flight(i) : i \in 1..k}
           Grown(k) == [f \in Reached(k) |-> Had(f) + Cardinality(Alike(k, f))]
           Size(k) == Cardinality(CopiesOf(bag, e)) + (IF e = d THEN k ELSE 0)
           Right(k) == /\ IsFiniteSet(CopiesOf(Grown(k), e))
                       /\ Cardinality(CopiesOf(Grown(k), e)) = Size(k)
<1>1. /\ Len(sends) \in Nat /\ DOMAIN sends = 1..Len(sends)
      /\ Cardinality(CopiesOf(bag, e)) \in Nat
      /\ \A f \in DOMAIN bag : bag[f] \in Nat /\ bag[f] > 0
      /\ bag = [f \in DOMAIN bag |-> bag[f]]
  BY FS_CardinalityType DEF IsABag
<1>2. \A i : Flight(i).dir = d
  OBVIOUS
<1> HIDE DEF Flight
<1>3. \A f : Had(f) \in Nat /\ (f \in DOMAIN bag => Had(f) > 0)
  BY <1>1
<1> HIDE DEF Had
<1>4. ASSUME NEW k \in Nat, NEW f
      PROVE  /\ IsFiniteSet(Alike(k, f)) /\ Cardinality(Alike(k, f)) \in Nat
             /\ f \in {Flight(i) : i \in 1..k} => Cardinality(Alike(k, f)) > 0
             /\ f \notin {Flight(i) : i \in 1..k} => Cardinality(Alike(k, f)) = 0
  <2>1. IsFiniteSet(1..k)
    BY FS_Interval
  <2>2. IsFiniteSet(Alike(k, f)) /\ Cardinality(Alike(k, f)) \in Nat
    BY <2>1, FS_Subset, FS_CardinalityType
  <2>3. f \in {Flight(i) : i \in 1..k} <=> Alike(k, f) # {}
    OBVIOUS
  <2> HIDE DEF Alike
  <2>4. Cardinality(Alike(k, f)) = 0 <=> Alike(k, f) = {}
    BY <2>2, FS_EmptySet
  <2> QED
    BY <2>2, <2>3, <2>4
<1>5. ASSUME NEW k \in Nat, NEW f
      PROVE  Cardinality(Alike(k + 1, f))
               = Cardinality(Alike(k, f)) + (IF f = Flight(k + 1) THEN 1 ELSE 0)
  <2>1. CASE f = Flight(k + 1)
    <3>1. Alike(k + 1, f) = Alike(k, f) \cup {k + 1} /\ k + 1 \notin Alike(k, f)
      BY <2>1
    <3>2. IsFiniteSet(Alike(k, f))
      BY <1>4
    <3> HIDE DEF Alike
    <3> QED
      BY <2>1, <3>1, <3>2, FS_AddElement
  <2>2. CASE f # Flight(k + 1)
    <3>1. Alike(k + 1, f) = Alike(k, f)
      BY <2>2
    <3>2. Cardinality(Alike(k, f)) \in Nat
      BY <1>4
    <3> HIDE DEF Alike
    <3> QED
      BY <2>2, <3>1, <3>2
  <2> QED
    BY <2>1, <2>2
<1> HIDE DEF Alike
<1>6. Grown(0) = bag
  <2>1. Reached(0) = DOMAIN bag
    <3>1. {Flight(i) : i \in 1..0} = {}
      OBVIOUS
    <3> QED
      BY <3>1
  <2>2. \A f \in DOMAIN bag : Had(f) + Cardinality(Alike(0, f)) = bag[f]
    <3>1. \A f : Cardinality(Alike(0, f)) = 0
      BY <1>4
    <3> QED
      BY <1>1, <3>1 DEF Had
  <2> QED
    BY <1>1, <2>1, <2>2
<1>7. Grown(Len(sends)) = bag (+) Spawned(d, target, sends)
  <2> DEFINE n == Len(sends)
             flights == {Flight(i) : i \in DOMAIN sends}
  <2>1. Spawned(d, target, sends) = [f \in flights |-> Cardinality(Alike(n, f))]
    BY <1>1 DEF Spawned, Flight, Alike
  <2>2. Reached(n) = DOMAIN bag \cup flights
    BY <1>1
  <2>3. \A f : f \notin flights => Cardinality(Alike(n, f)) = 0
    BY <1>1, <1>4
  <2> HIDE DEF Reached, flights, n
  <2>4. bag (+) Spawned(d, target, sends)
          = [f \in DOMAIN bag \cup flights |->
               Had(f) + (IF f \in flights THEN Cardinality(Alike(n, f)) ELSE 0)]
    BY <2>1 DEF (+), Had
  <2>5. \A f : (IF f \in flights THEN Cardinality(Alike(n, f)) ELSE 0) = Cardinality(Alike(n, f))
    BY <2>3
  <2> QED
    BY <2>2, <2>4, <2>5 DEF n
<1>8. ASSUME NEW k \in Nat
      PROVE  OneMore(Grown(k), Grown(k + 1), Flight(k + 1))
  <2>1. /\ k + 1 \in Nat
        /\ Reached(k + 1) = Reached(k) \cup {Flight(k + 1)}
        /\ \A f \in Reached(k) : f \in Reached(k + 1)
    OBVIOUS
  <2>2. ASSUME NEW m \in Nat, NEW f \in Reached(m)
        PROVE  /\ Grown(m)[f] = Had(f) + Cardinality(Alike(m, f))
               /\ Grown(m)[f] \in Nat /\ Grown(m)[f] > 0
    <3>1. /\ Cardinality(Alike(m, f)) \in Nat /\ Had(f) \in Nat
          /\ Had(f) > 0 \/ Cardinality(Alike(m, f)) > 0
      BY <1>3, <1>4
    <3>2. Grown(m)[f] = Had(f) + Cardinality(Alike(m, f))
      OBVIOUS
    <3> QED
      BY <3>1, <3>2
  <2>3. \A m \in Nat : DOMAIN Grown(m) = Reached(m)
    OBVIOUS
  <2>4. \A m \in Nat : Grown(m) = [f \in Reached(m) |-> Grown(m)[f]]
    OBVIOUS
  <2>5. ~(Flight(k + 1) \in Reached(k)) =>
          Had(Flight(k + 1)) = 0 /\ Cardinality(Alike(k, Flight(k + 1))) = 0
    BY <1>4 DEF Had
  <2> HIDE DEF Grown, Reached
  <2>6. \A m \in Nat : IsABag(Grown(m))
    <3> SUFFICES ASSUME NEW m \in Nat
                 PROVE  IsABag(Grown(m))
      OBVIOUS
    <3>1. \A f \in Reached(m) : Grown(m)[f] \in {n \in Nat : n > 0}
      BY <2>2
    <3>2. Grown(m) \in [Reached(m) -> {n \in Nat : n > 0}]
      BY <2>4, <3>1
    <3> QED
      BY <2>3, <3>2 DEF IsABag
  <2>7. \A f \in Reached(k) : f # Flight(k + 1) => Grown(k + 1)[f] = Grown(k)[f]
    <3> SUFFICES ASSUME NEW f \in Reached(k), f # Flight(k + 1)
                 PROVE  Grown(k + 1)[f] = Grown(k)[f]
      OBVIOUS
    <3>1. Cardinality(Alike(k + 1, f)) = Cardinality(Alike(k, f)) + 0
      BY <1>5
    <3>2. Cardinality(Alike(k, f)) \in Nat
      BY <1>4
    <3> QED
      BY <2>1, <2>2, <3>1, <3>2
  <2>8. Grown(k + 1)[Flight(k + 1)]
          = (IF Flight(k + 1) \in Reached(k) THEN Grown(k)[Flight(k + 1)] ELSE 0) + 1
    <3> DEFINE f == Flight(k + 1)
    <3>1. /\ Cardinality(Alike(k + 1, f)) = Cardinality(Alike(k, f)) + 1
          /\ Cardinality(Alike(k, f)) \in Nat /\ Had(f) \in Nat
      BY <1>3, <1>4, <1>5
    <3>2. Grown(k + 1)[f] = Had(f) + Cardinality(Alike(k + 1, f))
      BY <2>1, <2>2
    <3>3. f \in Reached(k) => Grown(k)[f] = Had(f) + Cardinality(Alike(k, f))
      BY <2>2
    <3> HIDE DEF f
    <3>4. f \notin Reached(k) => Had(f) = 0 /\ Cardinality(Alike(k, f)) = 0
      BY <2>5 DEF f
    <3>5. Grown(k + 1)[f] = (IF f \in Reached(k) THEN Grown(k)[f] ELSE 0) + 1
      BY <3>1, <3>2, <3>3, <3>4
    <3> QED
      BY <3>5 DEF f
  <2> QED
    BY <2>1, <2>3, <2>6, <2>7, <2>8 DEF OneMore, BagToSet
<1> HIDE DEF Grown
<1>9. ASSUME NEW k \in Nat, Right(k)
      PROVE  Right(k + 1)
  <2>1. /\ IsFiniteSet(CopiesOf(Grown(k + 1), e))
        /\ Cardinality(CopiesOf(Grown(k), e)) \in Nat
        /\ Cardinality(CopiesOf(Grown(k + 1), e))
             = Cardinality(CopiesOf(Grown(k), e)) + (IF Flight(k + 1).dir = e THEN 1 ELSE 0)
    <3> DEFINE A == Grown(k)
               B == Grown(k + 1)
               f == Flight(k + 1)
    <3>1. OneMore(A, B, f)
      BY <1>8
    <3>2. IsFiniteSet(CopiesOf(A, e))
      BY <1>9
    <3> HIDE DEF A, B, f
    <3>3. /\ IsFiniteSet(CopiesOf(B, e))
          /\ Cardinality(CopiesOf(A, e)) \in Nat
          /\ Cardinality(CopiesOf(B, e))
               = Cardinality(CopiesOf(A, e)) + (IF f.dir = e THEN 1 ELSE 0)
      BY <3>1, <3>2, OneCopyMore
    <3> QED
      BY <3>3 DEF A, B, f
  <2> QED
    BY <1>1, <1>2, <1>9, <2>1
<1>10. Right(Len(sends))
  <2> DEFINE wrong == {k \in Nat : ~Right(k)}
  <2>1. Right(0)
    BY <1>1, <1>6
  <2> HIDE DEF Right
  <2>2. CASE wrong # {}
    <3>1. PICK m \in wrong : \A k \in wrong : m <= k
      BY <2>2, Smallest
    <3>2. m \in Nat /\ m # 0 /\ ~Right(m)
      BY <2>1
    <3>3. m - 1 \in Nat /\ ~(m <= m - 1)
      BY <3>2
    <3>4. Right(m - 1)
      BY <3>1, <3>3
    <3>5. Right((m - 1) + 1)
      BY <1>9, <3>3, <3>4
    <3>6. (m - 1) + 1 = m
      BY <3>2
    <3> QED
      BY <3>2, <3>5, <3>6
  <2> QED
    BY <1>1, <2>2
<1> QED
  BY <1>7, <1>10

\* A send that ends takes one copy out of the sends under way.
LEMMA EndedCopy ==
  ASSUME NEW bag, IsABag(bag), NEW f \in BagToSet(bag)
  PROVE  OneMore(bag (-) SetToBag({f}), bag, f)
<1> DEFINE rest == [e \in DOMAIN bag |-> IF e \in {f} THEN bag[e] - 1 ELSE bag[e]]
           left == {e \in DOMAIN bag : rest[e] > 0}
           less == bag (-) SetToBag({f})
<1>1. less = [e \in left |-> rest[e]]
  BY DEF SetToBag, (-)
<1>2. \A e \in DOMAIN bag : bag[e] \in Nat /\ bag[e] > 0
  BY DEF IsABag
<1>3. f \in DOMAIN bag
  BY DEF BagToSet
<1>4. /\ DOMAIN bag = left \cup {f}
      /\ \A e \in left : e # f => rest[e] = bag[e]
      /\ bag[f] = (IF f \in left THEN rest[f] ELSE 0) + 1
  <2>1. \A e \in DOMAIN bag : rest[e] = IF e = f THEN bag[e] - 1 ELSE bag[e]
    OBVIOUS
  <2>2. \A e \in DOMAIN bag : e \in left <=> rest[e] > 0
    OBVIOUS
  <2>3. left \subseteq DOMAIN bag
    OBVIOUS
  <2> HIDE DEF rest, left
  <2>4. \A e \in DOMAIN bag : e # f => e \in left /\ rest[e] = bag[e]
    BY <1>2, <2>1, <2>2
  <2>5. bag[f] = (IF f \in left THEN rest[f] ELSE 0) + 1
    BY <1>2, <1>3, <2>1, <2>2
  <2> QED
    BY <1>3, <2>3, <2>4, <2>5
<1>5. DOMAIN less = left /\ \A e \in left : less[e] = rest[e]
  BY <1>1
<1>6. IsABag(less)
  BY SendTaken
<1> HIDE DEF less, left, rest
<1>7. OneMore(less, bag, f)
  BY <1>4, <1>5, <1>6 DEF OneMore, BagToSet
<1> QED
  BY <1>7 DEF less

\* No packet is both accepted and ignored, the packets accepted are those the
\* pipeline has processed or is about to, and the sends it asked for are those
\* under way and those ended.
AccountsOf(d) ==
  /\ accepted[d] \cap ignored[d] = {}
  /\ pipe[d].packets_processed + (IF task[d].step = "process" THEN 1 ELSE 0)
       = Cardinality(accepted[d])
  /\ IsFiniteSet(CopiesOf(flying, d))
  /\ Emitted(pipe[d]) = Cardinality(CopiesOf(flying, d)) + finished[d]

AccountInv == \A d \in Direction : AccountsOf(d)

\* Nothing is accepted, sent or ended at first.
LEMMA InitAccountInv == Init => AccountInv
<1> SUFFICES ASSUME Init, NEW d \in Direction PROVE AccountsOf(d)
  BY DEF AccountInv
<1>1. /\ accepted[d] = {} /\ ignored[d] = {} /\ pipe[d] = NewPipeline /\ finished[d] = 0
      /\ task[d].step = "recv"
  BY DEF Init, Idle
<1>2. CopiesOf(flying, d) = {}
  BY DEF Init, CopiesOf, EmptyBag, SetToBag, BagToSet
<1>3. pipe[d].packets_processed = 0 /\ Emitted(pipe[d]) = 0
  BY <1>1 DEF NewPipeline, Emitted
<1> QED
  BY <1>1, <1>2, <1>3, FS_EmptySet DEF AccountsOf

\* A step that leaves alone what the accounts are about keeps them.
LEMMA AccountsKept ==
  ASSUME NEW d \in Direction, AccountsOf(d),
         accepted'[d] = accepted[d], ignored'[d] = ignored[d], pipe'[d] = pipe[d],
         flying' = flying, finished'[d] = finished[d],
         task'[d].step = "process" <=> task[d].step = "process"
  PROVE  AccountsOf(d)'
BY DEF AccountsOf, CopiesOf, Emitted

LEMMA QuietStepsKeepAccounts ==
  ASSUME ProxyInv, AccountInv,
         \/ \E d \in Direction : \E src \in Addresses[d] : Send(d, src)
         \/ \E d \in Direction : Recv(d) \/ Learn(d)
         \/ Tick \/ UNCHANGED vars
  PROVE  AccountInv'
<1>1. UNCHANGED <<pipe, flying, accepted, ignored, finished>>
  BY DEF Send, Recv, Learn, Tick, vars, Histories, Destinations
<1>2. \A d \in Direction : task'[d].step = "process" <=> task[d].step = "process"
  <2>1. DOMAIN task = Direction
    BY DEF ProxyInv, AddressInv, AddressTypes
  <2>2. CASE \E d \in Direction : Recv(d)
    BY <2>1, <2>2 DEF Recv
  <2>3. CASE \E d \in Direction : Learn(d)
    <3>1. PICK d \in Direction : Learn(d)
      BY <2>3
    <3>2. /\ task' = [task EXCEPT ![d].step = "lookup"] /\ task[d].step = "learn"
          /\ task[d] \in [step : Step, packet : Nat, src : AnyAddress \cup {NoAddress},
                          target : AnyAddress \cup {NoAddress}]
      BY <3>1 DEF Learn, ProxyInv, AddressInv, AddressTypes
    <3>3. task'[d].step = "lookup" /\ \A e \in Direction \ {d} : task'[e] = task[e]
      BY <2>1, <3>2
    <3> QED
      BY <3>2, <3>3
  <2>4. CASE UNCHANGED task
    BY <2>4
  <2> QED
    BY <2>2, <2>3, <2>4 DEF Send, Tick, vars
<1> QED
  BY <1>1, <1>2, AccountsKept DEF AccountInv

\* The packets judged are finitely many, and the one in hand is not among them.
LEMMA JudgedOnce ==
  ASSUME ProxyInv, OrderInv, NEW d \in Direction
  PROVE  /\ IsFiniteSet(accepted[d]) /\ Cardinality(accepted[d]) \in Nat
         /\ IsFiniteSet(ignored[d]) /\ Cardinality(ignored[d]) \in Nat
         /\ task[d].step = "lookup" =>
              task[d].packet \notin accepted[d] /\ task[d].packet \notin ignored[d]
         /\ Taken(d) \in Nat
         /\ task[d].step \in {"learn", "lookup"} => Judged(d) = 1..(Taken(d) - 1) /\ Taken(d) > 0
         /\ task[d].step \notin {"learn", "lookup"} => Judged(d) = 1..Taken(d)
<1>1. Taken(d) \in Nat
  <2>1. sent[d] \in Nat /\ Len(socket[d]) \in Nat
    BY OrderTypes
  <2>2. Len(socket[d]) <= sent[d]
    BY DEF OrderInv, OrderOf
  <2> QED
    BY <2>1, <2>2 DEF Taken
<1>2. IsFiniteSet(Judged(d))
  <2>1. Judged(d) = 1..(Taken(d) - 1) \/ Judged(d) = 1..Taken(d)
    BY DEF OrderInv, OrderOf
  <2>2. Taken(d) - 1 \in Int /\ Taken(d) \in Int /\ 1 \in Int
    BY <1>1
  <2>3. IsFiniteSet(1..(Taken(d) - 1)) /\ IsFiniteSet(1..Taken(d))
    BY <2>2, FS_Interval
  <2> QED
    BY <2>1, <2>3
<1>3. accepted[d] \subseteq Judged(d) /\ ignored[d] \subseteq Judged(d)
  BY DEF Judged
<1>4. task[d].step = "lookup" => task[d].packet \notin Judged(d)
  BY <1>1 DEF OrderInv, OrderOf
<1>5. /\ task[d].step \in {"learn", "lookup"} => Judged(d) = 1..(Taken(d) - 1) /\ Taken(d) > 0
      /\ task[d].step \notin {"learn", "lookup"} => Judged(d) = 1..Taken(d)
  BY DEF OrderInv, OrderOf
<1>6. IsFiniteSet(accepted[d]) /\ IsFiniteSet(ignored[d])
  BY <1>2, <1>3, FS_Subset
<1> QED
  BY <1>1, <1>3, <1>4, <1>5, <1>6, FS_CardinalityType

LEMMA LookupKeepsAccounts ==
  ASSUME ProxyInv, OrderInv, AccountInv, NEW d \in Direction, Lookup(d)
  PROVE  AccountInv'
<1> DEFINE p == task[d].packet
<1>1. /\ task[d].step = "lookup" /\ UNCHANGED <<pipe, flying, finished>>
      /\ \/ /\ task' = [task EXCEPT ![d] = Idle]
            /\ ignored' = [ignored EXCEPT ![d] = @ \cup {p}]
            /\ UNCHANGED accepted
         \/ /\ task' = [task EXCEPT ![d].step = "process",
                                    ![d].target = learned[Opposite(d)]]
            /\ accepted' = [accepted EXCEPT ![d] = @ \cup {p}]
            /\ UNCHANGED ignored
  BY DEF Lookup, Accept
<1>2. /\ DOMAIN task = Direction /\ DOMAIN accepted = Direction /\ DOMAIN ignored = Direction
      /\ task[d] \in [step : Step, packet : Nat, src : AnyAddress \cup {NoAddress},
                      target : AnyAddress \cup {NoAddress}]
  BY DEF ProxyInv, AddressInv, AddressTypes, Counts, PacketSets
<1>3. /\ p \notin accepted[d] /\ p \notin ignored[d]
      /\ IsFiniteSet(accepted[d]) /\ Cardinality(accepted[d]) \in Nat
  BY <1>1, JudgedOnce
<1>4. AccountsOf(d) /\ pipe[d].packets_processed \in Nat
  BY DEF AccountInv, ProxyInv, Pipes, Pipeline
<1> HIDE DEF p
<1>5. ASSUME NEW e \in Direction \ {d} PROVE AccountsOf(e)'
  <2>1. /\ task'[e] = task[e] /\ accepted'[e] = accepted[e] /\ ignored'[e] = ignored[e]
        /\ pipe'[e] = pipe[e] /\ flying' = flying /\ finished'[e] = finished[e]
    BY <1>1, <1>2
  <2> QED
    BY <2>1, AccountsKept DEF AccountInv
<1>6. AccountsOf(d)'
  <2>1. CASE task' = [task EXCEPT ![d] = Idle]
    <3>1. task'[d].step = "recv"
      BY <1>2, <2>1 DEF Idle
    <3>2. ignored'[d] = ignored[d] \cup {p} /\ accepted'[d] = accepted[d]
      <4>1. ~(task' = [task EXCEPT ![d].step = "process",
                                   ![d].target = learned[Opposite(d)]])
        <5>1. [task EXCEPT ![d].step = "process",
                           ![d].target = learned[Opposite(d)]][d].step = "process"
          BY <1>2
        <5> QED
          BY <3>1, <5>1
      <4> QED
        BY <1>1, <1>2, <4>1
    <3> QED
      BY <1>1, <1>3, <1>4, <3>1, <3>2 DEF AccountsOf, Emitted, CopiesOf
  <2>2. CASE task' = [task EXCEPT ![d].step = "process",
                                  ![d].target = learned[Opposite(d)]]
    <3>1. task'[d].step = "process"
      BY <1>2, <2>2
    <3>2. accepted'[d] = accepted[d] \cup {p} /\ ignored'[d] = ignored[d]
      <4>1. ~(task' = [task EXCEPT ![d] = Idle])
        <5>1. [task EXCEPT ![d] = Idle][d].step = "recv"
          BY <1>2 DEF Idle
        <5> QED
          BY <3>1, <5>1
      <4> QED
        BY <1>1, <1>2, <4>1
    <3>3. Cardinality(accepted'[d]) = Cardinality(accepted[d]) + 1
      BY <1>3, <3>2, FS_AddElement
    <3>4. pipe[d].packets_processed = Cardinality(accepted[d])
      BY <1>1, <1>4 DEF AccountsOf
    <3>5. accepted'[d] \cap ignored'[d] = {}
      BY <1>3, <1>4, <3>2 DEF AccountsOf
    <3> QED
      BY <1>1, <1>4, <3>1, <3>3, <3>4, <3>5 DEF AccountsOf, Emitted, CopiesOf
  <2> QED
    BY <1>1, <2>1, <2>2
<1> QED
  BY <1>5, <1>6 DEF AccountInv

\* Everything a call asks to be sent is sent by tasks of its own.
LEMMA ForwardsKeepsAccounts ==
  ASSUME ProxyInv, OrderInv, AccountInv, NEW d \in Direction, Forwards(d)
  PROVE  AccountInv'
<1> DEFINE profile == ActiveProfile(config.default, config.phases, now)
<1>1. PICK outcome \in Process(pipe[d], profile, now, now, task[d].packet) :
        /\ pipe' = [pipe EXCEPT ![d] = outcome.pipe]
        /\ flying' = flying (+) Spawned(d, task[d].target, outcome.sends)
  BY DEF Forwards
<1>2. /\ task' = [task EXCEPT ![d] = Idle] /\ task[d].step = "process"
      /\ UNCHANGED <<accepted, ignored, finished>>
  BY DEF Forwards, Histories
<1>3. /\ pipe \in [Direction -> Pipeline(Nat)] /\ pipe[d] \in Pipeline(Nat)
      /\ task[d].packet \in Nat /\ now \in Nat /\ DOMAIN task = Direction
      /\ finished[d] \in Nat /\ IsABag(flying)
  BY DEF ProxyInv, Pipes, Scalars, AddressInv, AddressTypes, Counts, Flying
<1>4. profile \in FaultProfile
  BY <1>3, ActiveProfileType, ProfilesAssumption DEF ProxyInv, Scalars
<1> HIDE DEF profile
<1>5. /\ outcome.pipe.packets_processed = pipe[d].packets_processed + 1
      /\ Emitted(outcome.pipe) = Emitted(pipe[d]) + Len(outcome.sends)
  BY <1>3, <1>4, ProcessCounts
<1>6. outcome.sends \in Seq([data : Nat, delay : Nat])
  BY <1>3, <1>4, ProcessOutcome DEF Sends
<1>7. ASSUME NEW e \in Direction
      PROVE  /\ IsFiniteSet(CopiesOf(flying', e))
             /\ Cardinality(CopiesOf(flying', e))
                  = Cardinality(CopiesOf(flying, e))
                      + (IF e = d THEN Len(outcome.sends) ELSE 0)
             /\ Cardinality(CopiesOf(flying, e)) \in Nat
  <2>1. IsFiniteSet(CopiesOf(flying, e))
    BY DEF AccountInv, AccountsOf
  <2> QED
    BY <1>1, <1>3, <1>6, <2>1, SpawnedCopies, FS_CardinalityType
<1>8. /\ task'[d].step = "recv" /\ pipe'[d] = outcome.pipe
      /\ \A e \in Direction \ {d} : task'[e] = task[e] /\ pipe'[e] = pipe[e]
  BY <1>1, <1>2, <1>3 DEF Idle
<1>9. ASSUME NEW e \in Direction \ {d} PROVE AccountsOf(e)'
  <2>1. AccountsOf(e)
    BY DEF AccountInv
  <2>2. /\ IsFiniteSet(CopiesOf(flying', e))
        /\ Cardinality(CopiesOf(flying', e)) = Cardinality(CopiesOf(flying, e))
    BY <1>7
  <2>3. CopiesOf(flying, e)' = CopiesOf(flying', e)
    BY DEF CopiesOf
  <2>4. Emitted(pipe[e])' = Emitted(pipe[e])
    BY <1>8 DEF Emitted
  <2> QED
    BY <1>2, <1>8, <2>1, <2>2, <2>3, <2>4 DEF AccountsOf
<1>10. AccountsOf(d)'
  <2>1. AccountsOf(d) /\ pipe[d].packets_processed \in Nat /\ Len(outcome.sends) \in Nat
    BY <1>3, <1>6 DEF AccountInv, Pipeline
  <2>2. pipe'[d].packets_processed + 0 = Cardinality(accepted'[d])
    BY <1>2, <1>5, <1>8, <2>1 DEF AccountsOf
  <2>3. /\ IsFiniteSet(CopiesOf(flying', d))
        /\ Emitted(pipe'[d]) = Cardinality(CopiesOf(flying', d)) + finished'[d]
    <3>1. Emitted(pipe[d]) = Cardinality(CopiesOf(flying, d)) + finished[d]
      BY <2>1 DEF AccountsOf
    <3>2. /\ Emitted(pipe'[d]) = Emitted(pipe[d]) + Len(outcome.sends)
          /\ finished'[d] = finished[d]
      BY <1>2, <1>5, <1>8
    <3> QED
      BY <1>3, <1>7, <2>1, <3>1, <3>2
  <2>4. CopiesOf(flying, d)' = CopiesOf(flying', d) /\ Emitted(pipe[d])' = Emitted(pipe'[d])
    BY DEF CopiesOf, Emitted
  <2>5. accepted'[d] \cap ignored'[d] = {}
    BY <1>2, <2>1 DEF AccountsOf
  <2> QED
    BY <1>8, <2>2, <2>3, <2>4, <2>5 DEF AccountsOf
<1> QED
  BY <1>9, <1>10 DEF AccountInv

\* A send that ends passes from those under way to those ended.
LEMMA LandsKeepsAccounts ==
  ASSUME ProxyInv, AccountInv, Lands
  PROVE  AccountInv'
<1>1. PICK f \in BagToSet(flying) : Arrives(f) \/ SendFails(f)
  BY DEF Lands
<1>2. /\ flying' = flying (-) SetToBag({f})
      /\ finished' = [finished EXCEPT ![f.dir] = @ + 1]
      /\ UNCHANGED <<task, pipe, accepted, ignored>>
  BY <1>1 DEF Arrives, Delivers, SendFails, Ends
<1>3. /\ f.dir \in Direction /\ IsABag(flying) /\ finished \in [Direction -> Nat]
  BY DEF ProxyInv, Flying, FlightType, Counts
<1>4. OneMore(flying', flying, f)
  BY <1>2, <1>3, EndedCopy
<1> SUFFICES ASSUME NEW e \in Direction PROVE AccountsOf(e)'
  BY DEF AccountInv
<1>5. AccountsOf(e) /\ finished[e] \in Nat
  BY <1>3 DEF AccountInv
<1> DEFINE after == CopiesOf(flying', e)
           before == CopiesOf(flying, e)
<1>6. /\ IsFiniteSet(after) /\ Cardinality(after) \in Nat
      /\ Cardinality(before) = Cardinality(after) + (IF f.dir = e THEN 1 ELSE 0)
  <2>1. IsFiniteSet(before)
    BY <1>5 DEF AccountsOf
  <2> QED
    BY <1>4, <2>1, OneCopyMore
<1>7. finished'[e] = finished[e] + (IF f.dir = e THEN 1 ELSE 0)
  BY <1>2, <1>3, <1>5
<1>8. Emitted(pipe[e]) = Cardinality(before) + finished[e]
  BY <1>5 DEF AccountsOf
<1>9. Cardinality(after) + finished'[e] = Cardinality(before) + finished[e]
  <2> HIDE DEF after, before
  <2> QED
    BY <1>5, <1>6, <1>7
<1>10. CopiesOf(flying, e)' = after /\ Emitted(pipe[e])' = Emitted(pipe[e])
  BY <1>2 DEF CopiesOf, Emitted
<1> HIDE DEF after, before
<1> QED
  BY <1>2, <1>5, <1>6, <1>8, <1>9, <1>10 DEF AccountsOf

LEMMA AccountInvariant == Spec => [](ProxyInv /\ OrderInv /\ AccountInv)
<1>1. ProxyInv /\ OrderInv /\ AccountInv /\ [Next]_vars => AccountInv'
  <2> SUFFICES ASSUME ProxyInv, OrderInv, AccountInv, [Next]_vars PROVE AccountInv'
    OBVIOUS
  <2> QED
    BY QuietStepsKeepAccounts, LookupKeepsAccounts, ForwardsKeepsAccounts, LandsKeepsAccounts
      DEF Next, TaskStep
<1> QED
  BY <1>1, InitAccountInv, OrderInvariant, PTL DEF Spec

\* Nothing is lost in the proxy except where a fault or the missing address
\* says so: what was sent to it is queued, in a task's hands, ignored or
\* processed, and what its pipelines asked for is under way or has ended.
THEOREM NothingUnaccountedHolds == Spec => []NothingUnaccounted
<1>1. ProxyInv /\ OrderInv /\ AccountInv => NothingUnaccounted
  <2> SUFFICES ASSUME ProxyInv, OrderInv, AccountInv, NEW d \in Direction
               PROVE  /\ sent[d] = Len(socket[d]) + Holds(d)
                                     + Cardinality(ignored[d]) + Cardinality(accepted[d])
                      /\ pipe[d].packets_processed + (IF task[d].step = "process" THEN 1 ELSE 0)
                           = Cardinality(accepted[d])
                      /\ pipe[d].packets_forwarded + pipe[d].packets_duplicated
                           + pipe[d].packets_replayed = Cardinality(Copies(d)) + finished[d]
    BY DEF NothingUnaccounted
  <2>1. AccountsOf(d)
    BY DEF AccountInv
  <2>2. Copies(d) = CopiesOf(flying, d)
    BY DEF Copies, CopiesOf, Pending
  <2>3. sent[d] \in Nat /\ Len(socket[d]) \in Nat /\ Taken(d) \in Nat
          /\ Cardinality(accepted[d]) \in Nat /\ Cardinality(ignored[d]) \in Nat
    BY OrderTypes, JudgedOnce
  <2>4. Cardinality(Judged(d)) = Cardinality(accepted[d]) + Cardinality(ignored[d])
    <3>1. IsFiniteSet(accepted[d]) /\ IsFiniteSet(ignored[d]) /\ accepted[d] \cap ignored[d] = {}
      BY <2>1, JudgedOnce DEF AccountsOf
    <3>2. Cardinality(accepted[d] \cup ignored[d])
            = Cardinality(accepted[d]) + Cardinality(ignored[d])
                - Cardinality(accepted[d] \cap ignored[d])
      BY <3>1, FS_Union
    <3>3. Cardinality(accepted[d] \cap ignored[d]) = 0
      BY <3>1, FS_EmptySet
    <3>4. Judged(d) = accepted[d] \cup ignored[d]
      BY DEF Judged
    <3>5. Cardinality(Judged(d)) = Cardinality(accepted[d]) + Cardinality(ignored[d]) - 0
      BY <3>2, <3>3, <3>4
    <3> QED
      BY <2>3, <3>5
  <2>5. Cardinality(Judged(d)) + Holds(d) = Taken(d)
    <3>1. CASE task[d].step \in {"learn", "lookup"}
      <4>1. Judged(d) = 1..(Taken(d) - 1) /\ Taken(d) > 0 /\ Holds(d) = 1
        BY <3>1, JudgedOnce DEF Holds
      <4>2. Cardinality(1..(Taken(d) - 1)) = Taken(d) - 1
        BY <2>3, <4>1, FS_Interval
      <4> QED
        BY <2>3, <4>1, <4>2
    <3>2. CASE task[d].step \notin {"learn", "lookup"}
      <4>1. Judged(d) = 1..Taken(d) /\ Holds(d) = 0
        BY <3>2, JudgedOnce DEF Holds
      <4>2. Cardinality(1..Taken(d)) = Taken(d)
        BY <2>3, FS_Interval
      <4> QED
        BY <2>3, <4>1, <4>2
    <3> QED
      BY <3>1, <3>2
  <2>6. Holds(d) \in Nat /\ Taken(d) = sent[d] - Len(socket[d])
    BY DEF Holds, Taken
  <2>7. sent[d] = Len(socket[d]) + Holds(d)
                    + Cardinality(ignored[d]) + Cardinality(accepted[d])
    <3> DEFINE all == sent[d]
               waiting == Len(socket[d])
               taken == Taken(d)
               held == Holds(d)
               skipped == Cardinality(ignored[d])
               relayed == Cardinality(accepted[d])
               judged == Cardinality(Judged(d))
    <3>1. /\ all \in Nat /\ waiting \in Nat /\ taken \in Nat /\ held \in Nat
          /\ skipped \in Nat /\ relayed \in Nat
          /\ judged = relayed + skipped /\ judged + held = taken /\ taken = all - waiting
      BY <2>3, <2>4, <2>5, <2>6
    <3> HIDE DEF all, waiting, taken, held, skipped, relayed, judged
    <3>2. all = waiting + held + skipped + relayed
      BY <3>1
    <3> QED
      BY <3>2 DEF all, waiting, held, skipped, relayed
  <2> QED
    BY <2>1, <2>2, <2>7 DEF AccountsOf, Emitted
<1> QED
  BY <1>1, AccountInvariant, PTL

=============================================================================
