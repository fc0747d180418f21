------------------------ MODULE FaultPipelineProofs ------------------------
(***************************************************************************)
(* Proofs about FaultPipeline, for every configuration, buffer capacity    *)
(* and bound.                                                              *)
(***************************************************************************)
EXTENDS FaultPipeline, FaultStagesProofs

\* Every configuration is well-typed, so the profile in force is, too.
LEMMA CurrentType ==
  ASSUME TypeOK
  PROVE  Current \in FaultProfile
BY ActiveProfileType, ProfilesAssumption DEF TypeOK, Current

\* What the arrival of a packet does, in the terms of ProcessOutcome.
Arrives(fate) ==
  /\ fate \in Fate
  /\ arrivals' = Append(arrivals, [at |-> now, fate |-> fate, price |-> Price(Current)])
  /\ LET heard == Heard(pipe, now, Len(arrivals) + 1)
     IN  \/ Burst(heard, pipe', fate)
         \/ Loss(heard, pipe', fate, Current)
         \/ Pass(heard, pipe', fate)

\* What an arrival does to the pipeline and its history, in terms of the three
\* ways a call of process can end.
LEMMA ArriveOutcome ==
  ASSUME TypeOK, NEW later \in now..(now + MaxStall), Arrive(later)
  PROVE  TypeOK' /\ \E fate \in Fate : Arrives(fate)
<1> DEFINE packet == Len(arrivals) + 1
<1>1. /\ pipe \in Pipeline(Nat) /\ Current \in FaultProfile
      /\ now \in Nat /\ later \in Nat /\ packet \in Nat
  BY CurrentType, BoundsAssumption DEF TypeOK
<1>2. PICK outcome \in Process(pipe, Current, now, later, packet) :
        /\ pipe' = outcome.pipe
        /\ emitted' = outcome.sends
        /\ arrivals' = Append(arrivals,
             [at |-> now, fate |-> outcome.fate, price |-> Price(Current)])
  BY DEF Arrive
<1> HIDE DEF packet
<1>3. pipe' \in Pipeline(Nat) /\ outcome.fate \in Fate
  BY <1>1, <1>2, ProcessType
<1>4. /\ outcome.sends \in Sends(Nat)
      /\ LET heard == Heard(pipe, now, packet)
         IN  \/ Burst(heard, outcome.pipe, outcome.fate)
             \/ Loss(heard, outcome.pipe, outcome.fate, Current)
             \/ Pass(heard, outcome.pipe, outcome.fate)
  BY <1>1, ProcessOutcome
<1>5. arrivals' \in Seq(Arrival)
  <2>1. Price(Current) \in Nat
    BY <1>1 DEF Price, FaultProfile
  <2>2. [at |-> now, fate |-> outcome.fate, price |-> Price(Current)] \in Arrival
    BY <1>1, <1>3, <2>1 DEF Arrival
  <2> QED
    BY <1>2, <2>2 DEF TypeOK
<1>6. TypeOK'
  BY <1>1, <1>2, <1>3, <1>4, <1>5 DEF TypeOK, Arrive, Sends
<1>7. Arrives(outcome.fate)
  BY <1>2, <1>3, <1>4 DEF Arrives, packet
<1> QED
  BY <1>3, <1>6, <1>7

\* The types of the pipeline's state and of everything it sends: no counter of
\* the code, burst_remaining and its subtractions included, ever goes below 0.
THEOREM TypeCorrect == Spec => []TypeOK
<1>1. Init => TypeOK
  <2>1. NewPipeline \in Pipeline(Nat)
    BY DEF NewPipeline, Pipeline
  <2> QED
    BY <2>1 DEF Init, TypeOK
<1>2. TypeOK /\ [Next]_vars => TypeOK'
  <2> SUFFICES ASSUME TypeOK, [Next]_vars
               PROVE  TypeOK'
    OBVIOUS
  <2>1. CASE Tick
    BY <2>1 DEF TypeOK, Tick
  <2>2. ASSUME NEW later \in now..(now + MaxStall), Arrive(later)
        PROVE  TypeOK'
    BY <2>2, ArriveOutcome
  <2>3. CASE UNCHANGED vars
    BY <2>3 DEF TypeOK, vars
  <2> QED
    BY <2>1, <2>2, <2>3 DEF Next
<1> QED
  BY <1>1, <1>2, PTL DEF Spec

----------------------------------------------------------------------------
(* The bursts.  What makes BurstCoverage inductive is what burst_remaining *)
(* means: the packets still to come that some loss reaches.  No loss       *)
(* reaches further, one loss reaches exactly so far, and a loss is drawn   *)
(* only where no earlier one reaches.                                      *)

Lost == {j \in DOMAIN arrivals : arrivals[j].fate = "loss"}

\* The last packet that the loss of packet j takes.
Reach(j) == j + arrivals[j].price - 1

NoneReachesFurther ==
  \A j \in Lost : Reach(j) <= Len(arrivals) + pipe.burst_remaining

OneReachesSoFar ==
  pipe.burst_remaining > 0 =>
    \E j \in Lost : Reach(j) = Len(arrivals) + pipe.burst_remaining

LossesApart == \A i, j \in Lost : i < j => Reach(i) < j

PricesPositive == \A j \in DOMAIN arrivals : arrivals[j].price >= 1

BurstInv ==
  /\ PricesPositive
  /\ NoneReachesFurther
  /\ OneReachesSoFar
  /\ LossesApart
  /\ BurstCoverage

\* How the arrival of a packet changes the burst counter.
LEMMA ArriveBurst ==
  ASSUME TypeOK, NEW fate, Arrives(fate)
  PROVE  /\ fate = "burst" => /\ pipe.burst_remaining > 0
                              /\ pipe'.burst_remaining = pipe.burst_remaining - 1
         /\ fate = "loss"  => /\ pipe.burst_remaining = 0
                              /\ pipe'.burst_remaining = Price(Current) - 1
         /\ fate = "pass"  => /\ pipe.burst_remaining = 0
                              /\ pipe'.burst_remaining = 0
         /\ fate \in Fate
<1> DEFINE heard == Heard(pipe, now, Len(arrivals) + 1)
<1>1. heard \in Pipeline(Nat) /\ heard.burst_remaining = pipe.burst_remaining
  <2>1. pipe \in Pipeline(Nat) /\ now \in Nat /\ Len(arrivals) + 1 \in Nat
    BY DEF TypeOK
  <2> QED
    BY <2>1, HeardType
<1> HIDE DEF heard
<1>2. \/ Burst(heard, pipe', fate)
      \/ Loss(heard, pipe', fate, Current)
      \/ Pass(heard, pipe', fate)
  BY DEF Arrives, heard
<1>3. CASE Burst(heard, pipe', fate)
  BY <1>1, <1>3 DEF Burst, Pipeline, Fate
<1>4. CASE Loss(heard, pipe', fate, Current)
  BY <1>1, <1>4 DEF Loss, Pipeline, Fate
<1>5. CASE Pass(heard, pipe', fate)
  <2>1. fate = "pass" /\ pipe.burst_remaining = 0
    BY <1>1, <1>5 DEF Pass
  <2>2. pipe'.burst_remaining = heard.burst_remaining
    BY <1>1, <1>5 DEF Pass, Pipeline
  <2> QED
    BY <1>1, <2>1, <2>2 DEF Fate
<1> QED
  BY <1>2, <1>3, <1>4, <1>5

\* An arrival preserves the burst invariant: a loss starts a burst only when
\* none is running, and each packet of a burst takes one from the counter.
LEMMA BurstStep ==
  ASSUME TypeOK, BurstInv, NEW fate, Arrives(fate), TypeOK'
  PROVE  BurstInv'
<1>1. PICK n \in Nat, br \in Nat, price \in Nat :
        /\ n = Len(arrivals) /\ br = pipe.burst_remaining
        /\ price = Price(Current) /\ price >= 1
  <2>1. Price(Current) \in Nat /\ Price(Current) >= 1
    BY CurrentType DEF Price, FaultProfile
  <2>2. Len(arrivals) \in Nat /\ pipe.burst_remaining \in Nat
    BY DEF TypeOK, Pipeline
  <2> QED
    BY <2>1, <2>2
<1>2. /\ DOMAIN arrivals = 1..n
      /\ \A j \in 1..n : arrivals[j].price \in Nat
      /\ Lost \subseteq 1..n
  <2>1. arrivals \in Seq(Arrival)
    BY DEF TypeOK
  <2>2. DOMAIN arrivals = 1..n /\ \A j \in 1..n : arrivals[j] \in Arrival
    BY <1>1, <2>1
  <2> QED
    BY <2>2 DEF Arrival, Lost
<1>3. /\ Len(arrivals') = n + 1 /\ DOMAIN arrivals' = 1..(n + 1)
      /\ \A j \in 1..n : arrivals'[j] = arrivals[j]
      /\ arrivals'[n + 1].fate = fate /\ arrivals'[n + 1].price = price
  <2>1. arrivals' = Append(arrivals, [at |-> now, fate |-> fate, price |-> price])
    BY <1>1 DEF Arrives
  <2>2. arrivals \in Seq(Arrival)
    BY DEF TypeOK
  <2> QED
    BY <1>1, <2>1, <2>2
<1>4. Lost' = IF fate = "loss" THEN Lost \cup {n + 1} ELSE Lost
  BY <1>2, <1>3 DEF Lost
<1>5. /\ \A j \in 1..n : Reach(j)' = Reach(j) /\ Reach(j) \in Int
      /\ \A j : j = n + 1 => Reach(j)' = n + price
  BY <1>2, <1>3 DEF Reach
<1>6. PricesPositive'
  BY <1>1, <1>2, <1>3 DEF PricesPositive, BurstInv
<1>7. PICK after \in Nat :
        /\ after = pipe'.burst_remaining
        /\ fate = "burst" => br > 0 /\ after = br - 1
        /\ fate = "loss" => br = 0 /\ after = price - 1
        /\ fate = "pass" => br = 0 /\ after = 0
        /\ fate \in {"burst", "loss", "pass"}
  BY <1>1, ArriveBurst DEF Fate
<1>8. \A j \in Lost : Reach(j) <= n + br
  BY <1>1 DEF BurstInv, NoneReachesFurther
<1>9. br > 0 => \E j \in Lost : Reach(j) = n + br
  BY <1>1 DEF BurstInv, OneReachesSoFar
<1>10. \A j \in Lost' : Reach(j)' <= n + 1 + after
  <2> SUFFICES ASSUME NEW j \in Lost'
               PROVE  Reach(j)' <= n + 1 + after
    OBVIOUS
  <2>1. CASE j \in Lost
    BY <1>2, <1>5, <1>7, <1>8, <2>1
  <2>2. CASE j = n + 1 /\ fate = "loss"
    BY <1>5, <1>7, <2>2
  <2> QED
    BY <1>4, <2>1, <2>2
<1>11. after > 0 => \E j \in Lost' : Reach(j)' = n + 1 + after
  <2>1. CASE fate = "burst"
    BY <1>2, <1>4, <1>5, <1>7, <1>9, <2>1
  <2>2. CASE fate = "loss"
    BY <1>4, <1>5, <1>7, <2>2
  <2> QED
    BY <1>7, <2>1, <2>2
<1>12. LossesApart'
  <2> SUFFICES ASSUME NEW i \in Lost', NEW j \in Lost', i < j
               PROVE  Reach(i)' < j
    BY DEF LossesApart
  <2>1. i \in Lost
    BY <1>2, <1>4
  <2>2. CASE j \in Lost
    BY <1>2, <1>5, <2>1, <2>2 DEF LossesApart, BurstInv
  <2>3. CASE j = n + 1 /\ fate = "loss"
    BY <1>2, <1>5, <1>7, <1>8, <2>1, <2>3
  <2> QED
    BY <1>4, <2>2, <2>3
<1>13. BurstCoverage'
  <2>1. \A i, j \in 1..(n + 1) :
          Covers(j, i)' <=> j \in Lost' /\ j <= i /\ i <= Reach(j)'
    <3> SUFFICES ASSUME NEW i \in 1..(n + 1), NEW j \in 1..(n + 1)
                 PROVE  Covers(j, i)' <=> j \in Lost' /\ j <= i /\ i <= Reach(j)'
      OBVIOUS
    <3>1. arrivals'[j].price \in Nat
      BY <1>2, <1>3
    <3> QED
      BY <1>3, <3>1 DEF Covers, Lost, Reach
  <2>2. \A i, j \in 1..n : Covers(j, i) <=> j \in Lost /\ j <= i /\ i <= Reach(j)
    BY <1>2 DEF Covers, Lost, Reach
  <2> SUFFICES ASSUME NEW i \in 1..(n + 1)
               PROVE  arrivals'[i].fate # "pass" <=> \E j \in 1..(n + 1) : Covers(j, i)'
    BY <1>3 DEF BurstCoverage
  <2>3. CASE i \in 1..n
    <3>1. \A j \in 1..n : Covers(j, i)' <=> Covers(j, i)
      BY <1>2, <1>4, <1>5, <2>1, <2>2, <2>3
    <3>2. \A j \in 1..(n + 1) : j \notin 1..n => ~Covers(j, i)'
      BY <2>1, <2>3
    <3>3. arrivals[i].fate # "pass" <=> \E j \in 1..n : Covers(j, i)
      BY <1>2, <2>3 DEF BurstCoverage, BurstInv
    <3>4. arrivals'[i] = arrivals[i]
      BY <1>3, <2>3
    <3> QED
      BY <3>1, <3>2, <3>3, <3>4
  <2>4. CASE i = n + 1
    <3>1. CASE fate = "burst"
      <4>1. PICK j \in Lost : Reach(j) = n + br
        BY <1>7, <1>9, <3>1
      <4>2. Covers(j, i)'
        BY <1>2, <1>4, <1>5, <1>7, <2>1, <2>4, <3>1, <4>1
      <4> QED
        BY <1>2, <1>3, <2>4, <3>1, <4>1, <4>2
    <3>2. CASE fate = "loss"
      <4>1. i \in Lost' /\ i <= Reach(i)'
        BY <1>1, <1>4, <1>5, <2>4, <3>2
      <4>2. Covers(i, i)'
        BY <2>1, <4>1
      <4> QED
        BY <1>3, <2>4, <3>2, <4>2
    <3>3. CASE fate = "pass"
      <4>1. Lost' = Lost /\ br = 0
        BY <1>4, <1>7, <3>3
      <4>2. \A j \in Lost' : Reach(j)' \in Int /\ Reach(j)' <= n
        BY <1>2, <1>5, <1>8, <4>1
      <4>3. \A j \in Lost' : ~(i <= Reach(j)')
        BY <2>4, <4>2
      <4>4. \A j \in 1..(n + 1) : ~Covers(j, i)'
        BY <2>1, <4>3
      <4> QED
        BY <1>3, <2>4, <3>3, <4>4
    <3> QED
      BY <1>7, <3>1, <3>2, <3>3
  <2> QED
    BY <2>3, <2>4
<1>14. (NoneReachesFurther)' /\ (OneReachesSoFar)'
  BY <1>3, <1>7, <1>10, <1>11 DEF NoneReachesFurther, OneReachesSoFar
<1> QED
  BY <1>6, <1>12, <1>13, <1>14 DEF BurstInv

\* The burst invariant holds in every reachable state.
LEMMA BurstInvariant == Spec => [](TypeOK /\ BurstInv)
<1>1. Init => TypeOK /\ BurstInv
  <2>1. NewPipeline \in Pipeline(Nat)
    BY DEF NewPipeline, Pipeline
  <2> QED
    BY <2>1 DEF Init, TypeOK, BurstInv, PricesPositive, NoneReachesFurther, Lost,
                OneReachesSoFar, NewPipeline, LossesApart, BurstCoverage
<1>2. TypeOK /\ BurstInv /\ [Next]_vars => (TypeOK /\ BurstInv)'
  <2> SUFFICES ASSUME TypeOK, BurstInv, [Next]_vars
               PROVE  (TypeOK /\ BurstInv)'
    OBVIOUS
  <2>1. CASE Tick
    BY <2>1 DEF TypeOK, Tick, BurstInv, PricesPositive, NoneReachesFurther, Lost,
                Reach, OneReachesSoFar, LossesApart, BurstCoverage, Covers
  <2>2. ASSUME NEW later \in now..(now + MaxStall), Arrive(later)
        PROVE  (TypeOK /\ BurstInv)'
    BY <2>2, ArriveOutcome, BurstStep
  <2>3. CASE UNCHANGED vars
    BY <2>3 DEF TypeOK, vars, BurstInv, PricesPositive, NoneReachesFurther, Lost,
                Reach, OneReachesSoFar, LossesApart, BurstCoverage, Covers
  <2> QED
    BY <2>1, <2>2, <2>3 DEF Next
<1> QED
  BY <1>1, <1>2, PTL DEF Spec

\* Bursts have exactly the configured length, for every profile, phase list and
\* sequence of arrivals (stages 1 and 2 of process).
THEOREM BurstCoverageHolds == Spec => []BurstCoverage
BY BurstInvariant, PTL DEF BurstInv

\* One burst at a time, whatever phase changes happen during it.
THEOREM BurstsDisjointHolds == Spec => []BurstsDisjoint
<1>1. TypeOK /\ BurstInv => BurstsDisjoint
  <2> SUFFICES ASSUME TypeOK, BurstInv,
                      NEW i \in DOMAIN arrivals, NEW j \in DOMAIN arrivals,
                      NEW k \in DOMAIN arrivals, Covers(i, k), Covers(j, k)
               PROVE  i = j
    BY DEF BurstsDisjoint
  <2>1. arrivals \in Seq(Arrival) /\ DOMAIN arrivals = 1..Len(arrivals)
    BY DEF TypeOK
  <2>2. /\ arrivals[i] \in Arrival /\ arrivals[j] \in Arrival
        /\ i \in Nat /\ j \in Nat /\ k \in Nat
    BY <2>1
  <2>3. /\ i \in Lost /\ j \in Lost
        /\ arrivals[i].price \in Nat /\ arrivals[j].price \in Nat
    BY <2>2 DEF Lost, Covers, Arrival
  <2>4. ~(i < j) /\ ~(j < i)
    BY <2>2, <2>3 DEF BurstInv, LossesApart, Reach, Covers
  <2> QED
    BY <2>2, <2>4
<1> QED
  BY <1>1, BurstInvariant, PTL

----------------------------------------------------------------------------
(* The statistics and the replay buffer.                                   *)

\* How the arrival of a packet changes the counters and the buffer.
LEMMA ArriveCounts ==
  ASSUME TypeOK, NEW fate, Arrives(fate)
  PROVE  /\ pipe'.packets_processed = pipe.packets_processed + 1
         /\ pipe'.replay_buffer = Remember(pipe.replay_buffer,
                                           [at |-> now, data |-> Len(arrivals) + 1])
         /\ fate = "pass" =>
              /\ pipe'.packets_forwarded = pipe.packets_forwarded + 1
              /\ pipe'.packets_dropped = pipe.packets_dropped
              /\ pipe'.packets_duplicated \in
                   {pipe.packets_duplicated, pipe.packets_duplicated + 1}
              /\ pipe'.packets_replayed \in
                   {pipe.packets_replayed, pipe.packets_replayed + 1}
         /\ fate # "pass" =>
              /\ pipe'.packets_forwarded = pipe.packets_forwarded
              /\ pipe'.packets_dropped = pipe.packets_dropped + 1
              /\ pipe'.packets_duplicated = pipe.packets_duplicated
              /\ pipe'.packets_replayed = pipe.packets_replayed
<1> DEFINE heard == Heard(pipe, now, Len(arrivals) + 1)
<1>1. /\ pipe \in Pipeline(Nat) /\ now \in Nat /\ Len(arrivals) + 1 \in Nat
  BY DEF TypeOK
<1>2. /\ heard \in Pipeline(Nat)
      /\ heard.packets_processed = pipe.packets_processed + 1
      /\ heard.replay_buffer = Remember(pipe.replay_buffer,
                                        [at |-> now, data |-> Len(arrivals) + 1])
      /\ heard.packets_dropped = pipe.packets_dropped
      /\ heard.packets_forwarded = pipe.packets_forwarded
      /\ heard.packets_duplicated = pipe.packets_duplicated
      /\ heard.packets_replayed = pipe.packets_replayed
  BY <1>1, HeardType
<1>3. /\ pipe.packets_duplicated \in Nat /\ pipe.packets_replayed \in Nat
  BY <1>1 DEF Pipeline
<1> HIDE DEF heard
<1>4. \/ Burst(heard, pipe', fate)
      \/ Loss(heard, pipe', fate, Current)
      \/ Pass(heard, pipe', fate)
  BY DEF Arrives, heard
<1>5. CASE Burst(heard, pipe', fate)
  BY <1>2, <1>5 DEF Burst, Pipeline
<1>6. CASE Loss(heard, pipe', fate, Current)
  BY <1>2, <1>6 DEF Loss, Pipeline
<1>7. CASE Pass(heard, pipe', fate)
  <2>1. PICK duplicates, replays \in {0, 1} :
          pipe' = [heard EXCEPT !.packets_forwarded = heard.packets_forwarded + 1,
                                !.packets_duplicated = heard.packets_duplicated + duplicates,
                                !.packets_replayed = heard.packets_replayed + replays]
    BY <1>7 DEF Pass
  <2>2. /\ pipe'.packets_processed = heard.packets_processed
        /\ pipe'.replay_buffer = heard.replay_buffer
        /\ pipe'.packets_dropped = heard.packets_dropped
        /\ pipe'.packets_forwarded = heard.packets_forwarded + 1
        /\ pipe'.packets_duplicated = heard.packets_duplicated + duplicates
        /\ pipe'.packets_replayed = heard.packets_replayed + replays
    BY <1>2, <2>1 DEF Pipeline
  <2> QED
    BY <1>2, <1>3, <1>7, <2>2 DEF Pass
<1> QED
  BY <1>4, <1>5, <1>6, <1>7

\* The history grows by the packet that arrived.
LEMMA ArriveHistory ==
  ASSUME TypeOK, NEW fate, Arrives(fate)
  PROVE  \E n \in Nat :
           /\ n = Len(arrivals) /\ Len(arrivals') = n + 1
           /\ DOMAIN arrivals = 1..n /\ DOMAIN arrivals' = 1..(n + 1)
           /\ \A j \in 1..n : arrivals'[j] = arrivals[j]
           /\ arrivals'[n + 1] = [at |-> now, fate |-> fate, price |-> Price(Current)]
<1>1. arrivals \in Seq(Arrival) /\ Len(arrivals) \in Nat
  BY DEF TypeOK
<1> QED
  BY <1>1 DEF Arrives

\* The five counters of FaultStats tell the story of the packets.
THEOREM StatsAddUpHolds == Spec => []StatsAddUp
<1>1. Init => StatsAddUp
  <2>1. Init => Fated({"pass"}) = {}
    BY DEF Init, Fated
  <2> QED
    BY <2>1, FS_EmptySet DEF Init, StatsAddUp, NewPipeline
<1>2. TypeOK /\ TypeOK' /\ StatsAddUp /\ [Next]_vars => StatsAddUp'
  <2> SUFFICES ASSUME TypeOK, TypeOK', StatsAddUp, [Next]_vars
               PROVE  StatsAddUp'
    OBVIOUS
  <2>1. CASE Tick
    BY <2>1 DEF Tick, StatsAddUp, Fated
  <2>2. ASSUME NEW later \in now..(now + MaxStall), Arrive(later)
        PROVE  StatsAddUp'
    <3>1. PICK fate \in Fate : Arrives(fate)
      BY <2>2, ArriveOutcome
    <3>2. PICK n \in Nat :
            /\ n = Len(arrivals) /\ Len(arrivals') = n + 1
            /\ DOMAIN arrivals = 1..n /\ DOMAIN arrivals' = 1..(n + 1)
            /\ \A j \in 1..n : arrivals'[j] = arrivals[j]
            /\ arrivals'[n + 1] = [at |-> now, fate |-> fate, price |-> Price(Current)]
      BY <3>1, ArriveHistory
    <3>3. /\ pipe.packets_forwarded \in Nat /\ pipe.packets_dropped \in Nat
          /\ pipe.packets_duplicated \in Nat /\ pipe.packets_replayed \in Nat
      BY DEF TypeOK, Pipeline
    <3>4. IsFiniteSet(Fated({"pass"})) /\ n + 1 \notin Fated({"pass"})
      <4>1. Fated({"pass"}) \in SUBSET (1..n)
        BY <3>2 DEF Fated
      <4>2. IsFiniteSet(1..n)
        BY FS_Interval
      <4> QED
        BY <4>1, <4>2, FS_Subset
    <3>5. CASE fate = "pass"
      <4>1. Fated({"pass"})' = Fated({"pass"}) \cup {n + 1}
        BY <3>2, <3>5 DEF Fated
      <4>2. Cardinality(Fated({"pass"}))' = Cardinality(Fated({"pass"})) + 1
        BY <3>4, <4>1, FS_AddElement
      <4>3. /\ pipe'.packets_processed = pipe.packets_processed + 1
            /\ pipe'.packets_forwarded = pipe.packets_forwarded + 1
            /\ pipe'.packets_dropped = pipe.packets_dropped
            /\ pipe'.packets_duplicated <= pipe.packets_duplicated + 1
            /\ pipe'.packets_replayed <= pipe.packets_replayed + 1
            /\ pipe'.packets_duplicated \in Nat /\ pipe'.packets_replayed \in Nat
        BY <3>1, <3>3, <3>5, ArriveCounts
      <4>4. pipe.packets_processed = n
        BY <3>2 DEF StatsAddUp
      <4>5. pipe'.packets_processed = Len(arrivals')
        BY <3>2, <4>3, <4>4
      <4>6. pipe'.packets_forwarded = Cardinality(Fated({"pass"})')
        BY <4>2, <4>3 DEF StatsAddUp
      <4>7. pipe'.packets_processed = pipe'.packets_forwarded + pipe'.packets_dropped
        BY <3>3, <4>3 DEF StatsAddUp
      <4>8. /\ pipe'.packets_duplicated <= pipe'.packets_forwarded
            /\ pipe'.packets_replayed <= pipe'.packets_forwarded
        BY <3>3, <4>3 DEF StatsAddUp
      <4> QED
        BY <4>5, <4>6, <4>7, <4>8 DEF StatsAddUp
    <3>6. CASE fate # "pass"
      <4>1. Fated({"pass"})' = Fated({"pass"})
        BY <3>2, <3>6 DEF Fated
      <4>2. /\ pipe'.packets_processed = pipe.packets_processed + 1
            /\ pipe'.packets_forwarded = pipe.packets_forwarded
            /\ pipe'.packets_dropped = pipe.packets_dropped + 1
            /\ pipe'.packets_duplicated = pipe.packets_duplicated
            /\ pipe'.packets_replayed = pipe.packets_replayed
        BY <3>1, <3>6, ArriveCounts
      <4>3. pipe.packets_processed = n
        BY <3>2 DEF StatsAddUp
      <4>4. pipe'.packets_processed = Len(arrivals')
        BY <3>2, <4>2, <4>3
      <4>5. pipe'.packets_forwarded = Cardinality(Fated({"pass"})')
        BY <4>1, <4>2 DEF StatsAddUp
      <4>6. pipe'.packets_processed = pipe'.packets_forwarded + pipe'.packets_dropped
        BY <3>3, <4>2 DEF StatsAddUp
      <4>7. /\ pipe'.packets_duplicated <= pipe'.packets_forwarded
            /\ pipe'.packets_replayed <= pipe'.packets_forwarded
        BY <3>3, <4>2 DEF StatsAddUp
      <4> QED
        BY <4>4, <4>5, <4>6, <4>7 DEF StatsAddUp
    <3> QED
      BY <3>5, <3>6
  <2>3. CASE UNCHANGED vars
    BY <2>3 DEF vars, StatsAddUp, Fated
  <2> QED
    BY <2>1, <2>2, <2>3 DEF Next
<1> QED
  BY <1>1, <1>2, TypeCorrect, PTL DEF Spec

\* The replay buffer holds the newest packets heard, dropped ones included.
THEOREM BufferIsRecentPastHolds == Spec => []BufferIsRecentPast
<1>1. Init => BufferIsRecentPast
  BY CapacityAssumption DEF Init, BufferIsRecentPast, NewPipeline
<1>2. TypeOK /\ TypeOK' /\ BufferIsRecentPast /\ [Next]_vars => BufferIsRecentPast'
  <2> SUFFICES ASSUME TypeOK, TypeOK', BufferIsRecentPast, [Next]_vars
               PROVE  BufferIsRecentPast'
    OBVIOUS
  <2>1. CASE Tick
    BY <2>1 DEF Tick, BufferIsRecentPast
  <2>2. ASSUME NEW later \in now..(now + MaxStall), Arrive(later)
        PROVE  BufferIsRecentPast'
    <3>1. PICK fate \in Fate : Arrives(fate)
      BY <2>2, ArriveOutcome
    <3>2. PICK n \in Nat :
            /\ n = Len(arrivals) /\ Len(arrivals') = n + 1
            /\ DOMAIN arrivals = 1..n /\ DOMAIN arrivals' = 1..(n + 1)
            /\ \A j \in 1..n : arrivals'[j] = arrivals[j]
            /\ arrivals'[n + 1] = [at |-> now, fate |-> fate, price |-> Price(Current)]
      BY <3>1, ArriveHistory
    <3>3. PICK buffer \in Seq(Remembered(Nat)), entry \in Remembered(Nat) :
            /\ buffer = pipe.replay_buffer /\ entry = [at |-> now, data |-> n + 1]
            /\ pipe'.replay_buffer = Remember(buffer, entry)
      <4>1. pipe.replay_buffer \in Seq(Remembered(Nat))
        BY DEF TypeOK, Pipeline
      <4>2. [at |-> now, data |-> n + 1] \in Remembered(Nat)
        BY <3>2 DEF TypeOK, Remembered
      <4> QED
        BY <3>1, <3>2, <4>1, <4>2, ArriveCounts
    <3>4. PICK old \in Nat, kept \in Nat :
            /\ old = Len(buffer) /\ kept = Len(Remember(buffer, entry))
            /\ old = IF n < Capacity THEN n ELSE Capacity
            /\ kept = IF old < Capacity THEN old + 1 ELSE Capacity
            /\ Remember(buffer, entry)[kept] = entry
            /\ \A k \in 1..(kept - 1) :
                 Remember(buffer, entry)[k] = buffer[old + 1 - kept + k]
      <4>1. Len(buffer) = IF n < Capacity THEN n ELSE Capacity
        BY <3>2, <3>3 DEF BufferIsRecentPast
      <4>2. Len(buffer) \in Nat /\ Len(buffer) <= Capacity
        BY <4>1, CapacityAssumption
      <4>3. Len(Remember(buffer, entry)) \in Nat
        BY <3>3, RememberProperties
      <4> DEFINE new == Remember(buffer, entry)
      <4>4. Len(new) = IF Len(buffer) < Capacity THEN Len(buffer) + 1 ELSE Capacity
        BY <4>2, RememberProperties
      <4>5. new[Len(new)] = entry
        BY RememberProperties
      <4>6. \A k \in 1..(Len(new) - 1) : new[k] = buffer[Len(buffer) + 1 - Len(new) + k]
        BY RememberProperties
      <4> HIDE DEF new
      <4> QED
        BY <3>3, <4>1, <4>2, <4>3, <4>4, <4>5, <4>6 DEF new
    <3> DEFINE gone == n + 1 - kept
    <3>5. /\ kept = IF n + 1 < Capacity THEN n + 1 ELSE Capacity
          /\ old + 1 - kept \in {0, 1}
          /\ old <= n /\ 1 <= kept /\ kept <= n + 1
      BY <3>4, CapacityAssumption
    <3>6. \A k \in 1..old :
            buffer[k] = [at |-> arrivals[n - old + k].at, data |-> n - old + k]
      BY <3>2, <3>3, <3>4 DEF BufferIsRecentPast
    <3>7. ASSUME NEW k \in 1..kept
          PROVE  Remember(buffer, entry)[k] =
                   [at |-> arrivals'[gone + k].at, data |-> gone + k]
      <4>1. CASE k = kept
        <5>1. gone + k = n + 1
          BY <4>1
        <5> HIDE DEF gone
        <5> QED
          BY <3>2, <3>3, <3>4, <4>1, <5>1
      <4>2. CASE k # kept
        <5>1. 1 <= kept /\ kept <= n + 1 /\ old + 1 - kept \in {0, 1} /\ old <= n
          BY <3>5, Zenon
        <5>2. 1 <= k /\ k < kept /\ k \in 1..(kept - 1)
          BY <4>2
        <5>3. PICK i \in 1..old : i = old + 1 - kept + k
          BY <5>1, <5>2
        <5>4. n - old + i = gone + k
          BY <5>3
        <5>5. gone + k \in 1..n
          BY <5>1, <5>2
        <5>6. Remember(buffer, entry)[k] = buffer[i]
          BY <3>4, <5>2, <5>3, Zenon
        <5>7. arrivals'[gone + k] = arrivals[gone + k]
          BY <3>2, <5>5, Zenon
        <5>8. buffer[i] = [at |-> arrivals[gone + k].at, data |-> gone + k]
          BY <3>6, <5>4
        <5> QED
          BY <5>6, <5>7, <5>8
      <4> QED
        BY <4>1, <4>2
    <3>8. Len(pipe'.replay_buffer) = kept /\ Len(arrivals') - kept = gone
      BY <3>2, <3>3, <3>4
    <3> HIDE DEF gone
    <3>9. \A k \in 1..Len(pipe'.replay_buffer) :
            LET g == Len(arrivals') - Len(pipe'.replay_buffer)
            IN  pipe'.replay_buffer[k] = [at |-> arrivals'[g + k].at, data |-> g + k]
      BY <3>3, <3>7, <3>8
    <3>10. Len(pipe'.replay_buffer) =
             IF Len(arrivals') < Capacity THEN Len(arrivals') ELSE Capacity
      BY <3>2, <3>5, <3>8
    <3> QED
      BY <3>9, <3>10 DEF BufferIsRecentPast
  <2>3. CASE UNCHANGED vars
    BY <2>3 DEF vars, BufferIsRecentPast
  <2> QED
    BY <2>1, <2>2, <2>3 DEF Next
<1> QED
  BY <1>1, <1>2, TypeCorrect, PTL DEF Spec

----------------------------------------------------------------------------
(* The replays.  Packets arrive in the order of time, so the buffer, which *)
(* is the recent past, is sorted by age: the first stale packet is its     *)
(* head.                                                                   *)

ArrivalsOrdered ==
  /\ \A i \in DOMAIN arrivals : arrivals[i].at <= now
  /\ \A i, j \in DOMAIN arrivals : i <= j => arrivals[i].at <= arrivals[j].at

LEMMA ArrivalTimes ==
  ASSUME TypeOK, NEW i \in DOMAIN arrivals
  PROVE  arrivals[i].at \in Nat
<1>1. arrivals[i] \in Arrival
  BY DEF TypeOK
<1> QED
  BY <1>1 DEF Arrival

\* An arrival comes after all those before.
LEMMA ArriveOrdered ==
  ASSUME TypeOK, ArrivalsOrdered, NEW later \in now..(now + MaxStall), Arrive(later)
  PROVE  ArrivalsOrdered'
<1>1. PICK fate \in Fate : Arrives(fate)
  BY ArriveOutcome
<1>2. PICK n \in Nat :
        /\ n = Len(arrivals) /\ Len(arrivals') = n + 1
        /\ DOMAIN arrivals = 1..n /\ DOMAIN arrivals' = 1..(n + 1)
        /\ \A j \in 1..n : arrivals'[j] = arrivals[j]
        /\ arrivals'[n + 1] = [at |-> now, fate |-> fate, price |-> Price(Current)]
  BY <1>1, ArriveHistory
<1>3. now \in Nat /\ now' \in Nat /\ now <= now'
  BY BoundsAssumption DEF TypeOK, Arrive
<1>4. \A i \in 1..n : arrivals[i].at \in Nat
  BY <1>2, ArrivalTimes
<1>5. \A i \in 1..(n + 1) : arrivals'[i].at \in Nat /\ arrivals'[i].at <= now
  BY <1>2, <1>3, <1>4 DEF ArrivalsOrdered
<1>6. ASSUME NEW i \in 1..(n + 1), NEW j \in 1..(n + 1), i <= j
      PROVE  arrivals'[i].at <= arrivals'[j].at
  <2>1. CASE j = n + 1
    <3>1. arrivals'[j].at = now
      BY <1>2, <2>1
    <3> QED
      BY <1>5, <3>1
  <2>2. CASE j # n + 1
    <3>1. i \in 1..n /\ j \in 1..n
      BY <1>6, <2>2
    <3>2. arrivals'[i] = arrivals[i] /\ arrivals'[j] = arrivals[j]
      BY <1>2, <3>1
    <3> QED
      BY <1>2, <1>6, <3>1, <3>2 DEF ArrivalsOrdered
  <2> QED
    BY <2>1, <2>2
<1>7. \A i \in 1..(n + 1) : arrivals'[i].at <= now'
  BY <1>3, <1>5
<1> QED
  BY <1>2, <1>6, <1>7 DEF ArrivalsOrdered

\* A call never sends a packet it has not heard, and replays only the oldest
\* packet it kept, when the profile asks for its age.
THEOREM ReplaysHold == Spec => ReplayIsOldestAndStale
<1> DEFINE Inv == TypeOK /\ BufferIsRecentPast /\ ArrivalsOrdered
           Goal == \A i \in DOMAIN emitted' :
                     LET packet == Len(arrivals') IN
                     (emitted' # emitted /\ emitted'[i].data # packet) =>
                       /\ Current.replay_stale_ms > 0
                       /\ i = Len(emitted')
                       /\ emitted'[i].delay = emitted'[1].delay
                       /\ emitted'[i].data = Head(pipe'.replay_buffer).data
                       /\ now' - arrivals'[emitted'[i].data].at >= Current.replay_stale_ms
<1>1. Init => ArrivalsOrdered
  BY DEF Init, ArrivalsOrdered
<1>2. TypeOK /\ ArrivalsOrdered /\ [Next]_vars => ArrivalsOrdered'
  <2> SUFFICES ASSUME TypeOK, ArrivalsOrdered, [Next]_vars
               PROVE  ArrivalsOrdered'
    OBVIOUS
  <2>1. CASE Tick
    <3>1. \A i \in DOMAIN arrivals : arrivals[i].at \in Nat
      BY ArrivalTimes
    <3> QED
      BY <2>1, <3>1 DEF Tick, ArrivalsOrdered, TypeOK
  <2>2. ASSUME NEW later \in now..(now + MaxStall), Arrive(later)
        PROVE  ArrivalsOrdered'
    BY <2>2, ArriveOrdered
  <2>3. CASE UNCHANGED vars
    BY <2>3 DEF vars, ArrivalsOrdered
  <2> QED
    BY <2>1, <2>2, <2>3 DEF Next
<1>3. Inv /\ Inv' /\ [Next]_vars => [Goal]_vars
  <2> SUFFICES ASSUME Inv, Inv', NEW later \in now..(now + MaxStall), Arrive(later),
                      NEW i \in DOMAIN emitted', emitted'[i].data # Len(arrivals')
               PROVE  /\ Current.replay_stale_ms > 0
                      /\ i = Len(emitted')
                      /\ emitted'[i].delay = emitted'[1].delay
                      /\ emitted'[i].data = Head(pipe'.replay_buffer).data
                      /\ now' - arrivals'[emitted'[i].data].at >= Current.replay_stale_ms
    <3>1. CASE Tick \/ UNCHANGED vars
      BY <3>1 DEF Tick, vars
    <3>2. CASE \E later \in now..(now + MaxStall) : Arrive(later)
      BY <3>2
    <3> QED
      BY <3>1, <3>2 DEF Next
  <2> DEFINE n == Len(arrivals)
             buffer == pipe'.replay_buffer
             replay(delay) == Replays(buffer, Current, later, delay)
  <2>1. /\ pipe \in Pipeline(Nat) /\ Current \in FaultProfile
        /\ now \in Nat /\ later \in Nat /\ now' = later /\ n \in Nat /\ n + 1 \in Nat
        /\ buffer \in Seq(Remembered(Nat))
    <3>1. buffer \in Seq(Remembered(Nat))
      BY DEF TypeOK, Pipeline
    <3>2. now' = later
      BY DEF Arrive
    <3>3. now \in Nat /\ later \in Nat /\ n \in Nat /\ n + 1 \in Nat
      BY BoundsAssumption DEF TypeOK
    <3> QED
      BY <3>1, <3>2, <3>3, CurrentType DEF TypeOK
  <2>2. PICK outcome \in Process(pipe, Current, now, later, n + 1) :
          /\ emitted' = outcome.sends
          /\ pipe' = outcome.pipe
          /\ Len(arrivals') = n + 1
    BY DEF Arrive, TypeOK
  <2>3. buffer = Heard(pipe, now, n + 1).replay_buffer
    <3>1. PICK fate \in Fate : Arrives(fate)
      BY ArriveOutcome
    <3>2. buffer = Remember(pipe.replay_buffer, [at |-> now, data |-> n + 1])
      BY <3>1, ArriveCounts
    <3> QED
      BY <2>1, <3>2, HeardType
  <2> HIDE DEF n, buffer
  <2>4. /\ i = Len(outcome.sends)
        /\ \E delay \in Nat : /\ outcome.sends[1].delay = delay
                              /\ replay(delay) # <<>>
                              /\ outcome.sends[i] = replay(delay)[1]
    <3>1. i \in DOMAIN outcome.sends /\ outcome.sends[i].data # n + 1
      BY <2>2
    <3> QED
      BY <2>1, <2>3, <3>1, ProcessSends
  <2>5. PICK delay \in Nat : /\ emitted'[1].delay = delay
                             /\ replay(delay) # <<>>
                             /\ emitted'[i] = replay(delay)[1]
    BY <2>2, <2>4
  <2>6. PICK gone \in Nat :
          /\ gone = Len(arrivals') - Len(buffer)
          /\ DOMAIN buffer = 1..Len(buffer) /\ Len(buffer) \in Nat
          /\ DOMAIN arrivals' = 1..Len(arrivals') /\ Len(arrivals') \in Nat
          /\ \A k \in 1..Len(buffer) :
               buffer[k] = [at |-> arrivals'[gone + k].at, data |-> gone + k]
    <3>1. /\ DOMAIN buffer = 1..Len(buffer) /\ Len(buffer) \in Nat
          /\ DOMAIN arrivals' = 1..Len(arrivals') /\ Len(arrivals') \in Nat
      BY <2>1 DEF TypeOK
    <3>2. /\ Len(buffer) = IF Len(arrivals') < Capacity THEN Len(arrivals') ELSE Capacity
          /\ \A k \in 1..Len(buffer) :
               buffer[k] = [at |-> arrivals'[Len(arrivals') - Len(buffer) + k].at,
                            data |-> Len(arrivals') - Len(buffer) + k]
      BY DEF BufferIsRecentPast, buffer
    <3>3. Len(arrivals') - Len(buffer) \in Nat
      BY <3>1, <3>2, CapacityAssumption
    <3> QED
      BY <3>1, <3>2, <3>3
  <2>7. \A k, l \in DOMAIN buffer : k <= l => buffer[k].at <= buffer[l].at
    <3> SUFFICES ASSUME NEW k \in 1..Len(buffer), NEW l \in 1..Len(buffer), k <= l
                 PROVE  buffer[k].at <= buffer[l].at
      BY <2>6
    <3>1. /\ gone + k \in DOMAIN arrivals' /\ gone + l \in DOMAIN arrivals'
          /\ gone + k <= gone + l
      BY <2>6
    <3>2. arrivals'[gone + k].at <= arrivals'[gone + l].at
      BY <3>1, Zenon DEF ArrivalsOrdered
    <3>3. buffer[k].at = arrivals'[gone + k].at /\ buffer[l].at = arrivals'[gone + l].at
      BY <2>6
    <3> QED
      BY <3>2, <3>3
  <2>8. /\ Current.replay_stale_ms > 0 /\ Len(buffer) >= 1
        /\ later - buffer[1].at >= Current.replay_stale_ms
        /\ replay(delay) = <<Forward(buffer[1].data, delay)>>
    BY <2>1, <2>5, <2>7, ReplaysHead
  <2>9. emitted'[i] = [data |-> buffer[1].data, delay |-> delay]
    BY <2>5, <2>8 DEF Forward
  <2>10. buffer[1].at = arrivals'[buffer[1].data].at
    BY <2>6, <2>8
  <2>11. Head(buffer) = buffer[1]
    BY <2>1, <2>8
  <2>12. emitted'[i].data = buffer[1].data /\ emitted'[i].delay = delay
    BY <2>9
  <2>13. i = Len(emitted')
    BY <2>2, <2>4
  <2>14. now' - arrivals'[emitted'[i].data].at >= Current.replay_stale_ms
    BY <2>1, <2>8, <2>10, <2>12
  <2> QED
    BY <2>5, <2>8, <2>11, <2>12, <2>13, <2>14 DEF buffer
<1> QED
  BY <1>1, <1>2, <1>3, TypeCorrect, BufferIsRecentPastHolds, PTL
     DEF Spec, ReplayIsOldestAndStale
============================================================================
