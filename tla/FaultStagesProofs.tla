-------------------------- MODULE FaultStagesProofs --------------------------
(***************************************************************************)
(* Lemmas about the stages of FaultStages, for every capacity, profile and *)
(* kind of data: what the profile in force is, what the buffer keeps, and  *)
(* what a call to process returns.                                         *)
(***************************************************************************)
EXTENDS FaultStages, SequenceTheorems, FiniteSetTheorems, WellFoundedInduction, TLAPS

\* What a call sends.
Sends(Data) == Seq([data : Data, delay : Nat])

\* A set of naturals that is not empty has a smallest element: what the two
\* CHOOSEs of FaultStages pick exists.
LEMMA Smallest ==
  ASSUME NEW S \in SUBSET Nat, S # {}
  PROVE  \E m \in S : \A n \in S : m <= n
<1> DEFINE Less == {ss \in Nat \X Nat : ss[1] < ss[2]}
<1>1. IsWellFoundedOn(Less, Nat)
  BY NatLessThanWellFounded DEF OpToRel
<1> HIDE DEF Less
<1>2. PICK m \in S : \A n \in S : ~(<<n, m>> \in Less)
  BY <1>1, WFMin, S \subseteq Nat
<1>3. ASSUME NEW n \in S
      PROVE  m <= n
  <2>1. ~(<<n, m>> \in Less)
    BY <1>2
  <2> QED
    BY <2>1 DEF Less
<1> QED
  BY <1>3

\* The profile in force is the default or the profile of a phase
\* (active_profile).
LEMMA ActiveProfileType ==
  ASSUME NEW default \in FaultProfile, NEW phases \in Seq(FaultPhase),
         NEW elapsed \in Nat
  PROVE  ActiveProfile(default, phases, elapsed) \in FaultProfile
<1> DEFINE active == ActivePhases(phases, elapsed)
           start(i) == phases[i].after
           lags == {elapsed - start(i) : i \in active}
<1>1. ASSUME NEW i \in active
      PROVE  /\ i \in 1..Len(phases)
             /\ phases[i] \in FaultPhase
             /\ start(i) \in Nat
             /\ start(i) <= elapsed
  <2>1. i \in 1..Len(phases) /\ IsActive(phases[i], elapsed)
    BY DEF ActivePhases
  <2>2. phases[i] \in FaultPhase
    BY <2>1
  <2> QED
    BY <2>1, <2>2 DEF IsActive, FaultPhase
<1>2. CASE active = {}
  BY <1>2 DEF ActiveProfile
<1>3. CASE active # {}
  <2>1. PICK d \in Nat : d \in lags /\ \A e \in lags : d <= e
    <3>1. lags \in SUBSET Nat /\ lags # {}
      BY <1>1, <1>3
    <3> QED
      BY <3>1, Smallest
  <2> DEFINE latest == {i \in active : elapsed - start(i) = d}
             places == {Len(phases) - i : i \in latest}
  <2>2. PICK r \in places : \A s \in places : r <= s
    <3>1. places \in SUBSET Nat
      BY <1>1
    <3>2. places # {}
      BY <2>1
    <3> QED
      BY <3>1, <3>2, Smallest
  <2>3. PICK i \in latest : r = Len(phases) - i
    OBVIOUS
  <2>4. ASSUME NEW j \in active
        PROVE  Overrides(phases, i, j)
    <3>1. d <= elapsed - start(j)
      BY <2>1
    <3>2. i \in active /\ elapsed - start(i) = d
      BY <2>3
    <3>3. /\ i \in Nat /\ j \in Nat /\ start(i) \in Nat /\ start(j) \in Nat
      BY <1>1, <3>2
    <3>4. CASE elapsed - start(j) = d
      <4>1. r <= Len(phases) - j
        BY <2>2, <3>4
      <4>2. j <= i
        BY <2>3, <3>3, <4>1
      <4>3. start(j) = start(i)
        BY <3>2, <3>3, <3>4
      <4> QED
        BY <4>2, <4>3 DEF Overrides
    <3>5. CASE elapsed - start(j) # d
      <4> HIDE DEF start, active
      <4>1. d < elapsed - start(j)
        BY <3>1, <3>3, <3>5
      <4>2. start(j) < start(i)
        BY <3>2, <3>3, <4>1
      <4> USE DEF start
      <4> QED
        BY <4>2 DEF Overrides
    <3> QED
      BY <3>4, <3>5
  <2> DEFINE chosen == CHOOSE k \in active : \A j \in active : Overrides(phases, k, j)
  <2>5. chosen \in active
    BY <2>3, <2>4
  <2>6. ActiveProfile(default, phases, elapsed) = phases[chosen].profile
    BY <1>3 DEF ActiveProfile
  <2>7. phases[chosen] \in FaultPhase
    BY <1>1, <2>5
  <2> QED
    BY <2>6, <2>7 DEF FaultPhase
<1> QED
  BY <1>2, <1>3

\* The replay buffer takes the new entry at its end and keeps, of the old ones,
\* as many of the newest as its capacity allows (push_back and pop_front).
LEMMA RememberProperties ==
  ASSUME NEW Entries, NEW buffer \in Seq(Entries), NEW entry \in Entries
  PROVE  LET kept == Remember(buffer, entry)
             gone == Len(buffer) + 1 - Len(kept)
         IN  /\ kept \in Seq(Entries)
             /\ Len(buffer) <= Capacity =>
                  Len(kept) = IF Len(buffer) < Capacity THEN Len(buffer) + 1 ELSE Capacity
             /\ Len(kept) \in 1..(Len(buffer) + 1)
             /\ kept[Len(kept)] = entry
             /\ \A k \in 1..(Len(kept) - 1) : kept[k] = buffer[gone + k]
<1> DEFINE longer == Append(buffer, entry)
<1>1. /\ longer \in Seq(Entries)
      /\ Len(longer) = Len(buffer) + 1
      /\ longer[Len(buffer) + 1] = entry
      /\ \A k \in 1..Len(buffer) : longer[k] = buffer[k]
  OBVIOUS
<1>2. longer # <<>>
  BY <1>1
<1> HIDE DEF longer
<1>3. /\ Tail(longer) \in Seq(Entries)
      /\ Len(Tail(longer)) = Len(buffer)
      /\ \A k \in 1..Len(buffer) : Tail(longer)[k] = longer[k + 1]
  BY <1>1, <1>2, HeadTailProperties
<1>4. CASE Len(longer) > Capacity
  <2>1. Remember(buffer, entry) = Tail(longer)
    BY <1>4 DEF Remember, longer
  <2>2. Len(buffer) \in Nat \ {0}
    BY <1>1, <1>4, CapacityAssumption
  <2>3. Tail(longer)[Len(buffer)] = entry
    BY <1>1, <1>3, <2>2
  <2>4. \A k \in 1..(Len(buffer) - 1) : Tail(longer)[k] = buffer[1 + k]
    <3> SUFFICES ASSUME NEW k \in 1..(Len(buffer) - 1)
                 PROVE  Tail(longer)[k] = buffer[1 + k]
      OBVIOUS
    <3>1. k \in 1..Len(buffer) /\ k + 1 \in 1..Len(buffer) /\ 1 + k = k + 1
      BY <2>2
    <3> QED
      BY <1>1, <1>3, <3>1
  <2>5. Len(buffer) <= Capacity =>
          Len(buffer) = IF Len(buffer) < Capacity THEN Len(buffer) + 1 ELSE Capacity
    BY <1>1, <1>4, <2>2, CapacityAssumption
  <2>6. Len(buffer) \in 1..(Len(buffer) + 1) /\ Len(buffer) + 1 - Len(buffer) = 1
    BY <2>2
  <2> QED
    BY <1>3, <2>1, <2>3, <2>4, <2>5, <2>6
<1>5. CASE Len(longer) <= Capacity
  <2>1. Remember(buffer, entry) = longer
    BY <1>1, <1>5, CapacityAssumption DEF Remember, longer
  <2> QED
    BY <1>1, <1>5, <2>1, CapacityAssumption
<1> QED
  BY <1>1, <1>4, <1>5, CapacityAssumption

\* A call replays one packet of the buffer at most.
LEMMA ReplaysType ==
  ASSUME NEW Data, NEW buffer \in Seq(Remembered(Data)), NEW profile \in FaultProfile,
         NEW t \in Nat, NEW delay \in Nat
  PROVE  /\ Replays(buffer, profile, t, delay) \in Sends(Data)
         /\ Len(Replays(buffer, profile, t, delay)) \in {0, 1}
<1> DEFINE stale == StaleEntries(buffer, profile, t)
           first == CHOOSE i \in stale : \A j \in stale : i <= j
<1>1. CASE profile.replay_stale_ms = 0 \/ stale = {}
  BY <1>1 DEF Replays, Sends
<1>2. CASE ~(profile.replay_stale_ms = 0 \/ stale = {})
  <2>1. stale \subseteq 1..Len(buffer)
    BY DEF StaleEntries
  <2>2. \E i \in stale : \A j \in stale : i <= j
    BY <1>2, <2>1, Smallest
  <2>3. first \in 1..Len(buffer)
    BY <2>1, <2>2
  <2>4. Replays(buffer, profile, t, delay) = <<Forward(buffer[first].data, delay)>>
    BY <1>2 DEF Replays
  <2>5. buffer[first] \in Remembered(Data)
    BY <2>3
  <2> QED
    BY <2>4, <2>5 DEF Remembered, Forward, Sends
<1> QED
  BY <1>1, <1>2

\* A call duplicates its packet once at most.
LEMMA DuplicatesType ==
  ASSUME NEW Data, NEW profile \in FaultProfile, NEW data \in Data, NEW delay \in Nat,
         NEW copies \in Duplicates(profile, data, delay)
  PROVE  copies \in Sends(Data) /\ Len(copies) \in {0, 1}
<1>1. CASE copies = <<>>
  BY <1>1 DEF Sends
<1>2. CASE copies # <<>>
  <2>1. PICK extra \in 0..profile.jitter_ms : copies = <<Forward(data, delay + extra)>>
    BY <1>2 DEF Duplicates
  <2>2. delay + extra \in Nat
    BY DEF FaultProfile
  <2> QED
    BY <2>1, <2>2 DEF Forward, Sends
<1> QED
  BY <1>1, <1>2

\* What every call does, whatever stage it ends in: it counts the packet and
\* remembers it.
LEMMA HeardType ==
  ASSUME NEW Data, NEW p \in Pipeline(Data), NEW t \in Nat, NEW data \in Data
  PROVE  /\ Heard(p, t, data) \in Pipeline(Data)
         /\ Heard(p, t, data).packets_processed = p.packets_processed + 1
         /\ Heard(p, t, data).replay_buffer =
              Remember(p.replay_buffer, [at |-> t, data |-> data])
         /\ Heard(p, t, data).burst_remaining = p.burst_remaining
         /\ Heard(p, t, data).packets_dropped = p.packets_dropped
         /\ Heard(p, t, data).packets_forwarded = p.packets_forwarded
         /\ Heard(p, t, data).packets_duplicated = p.packets_duplicated
         /\ Heard(p, t, data).packets_replayed = p.packets_replayed
<1> DEFINE kept  == Remember(p.replay_buffer, [at |-> t, data |-> data])
           count == p.packets_processed + 1
<1>1. [at |-> t, data |-> data] \in Remembered(Data)
  BY DEF Remembered
<1>2. p.replay_buffer \in Seq(Remembered(Data)) /\ count \in Nat
  BY DEF Pipeline
<1>3. kept \in Seq(Remembered(Data))
  BY <1>1, <1>2, RememberProperties
<1>4. Heard(p, t, data) = [p EXCEPT !.packets_processed = count, !.replay_buffer = kept]
  BY DEF Heard
<1> HIDE DEF kept, count
<1>5. Heard(p, t, data) \in Pipeline(Data)
  BY <1>2, <1>3, <1>4 DEF Pipeline
<1>6. /\ Heard(p, t, data).packets_processed = count
      /\ Heard(p, t, data).replay_buffer = kept
      /\ Heard(p, t, data).burst_remaining = p.burst_remaining
      /\ Heard(p, t, data).packets_dropped = p.packets_dropped
      /\ Heard(p, t, data).packets_forwarded = p.packets_forwarded
      /\ Heard(p, t, data).packets_duplicated = p.packets_duplicated
      /\ Heard(p, t, data).packets_replayed = p.packets_replayed
  BY <1>4 DEF Pipeline
<1> QED
  BY <1>5, <1>6 DEF kept, count

\* The three ways a call to process ends, and what each changes.
Burst(p, q, fate) ==
  /\ fate = "burst" /\ p.burst_remaining > 0
  /\ q = [p EXCEPT !.burst_remaining = p.burst_remaining - 1,
                   !.packets_dropped = p.packets_dropped + 1]

Loss(p, q, fate, profile) ==
  /\ fate = "loss" /\ p.burst_remaining = 0
  /\ q = [p EXCEPT !.burst_remaining = Price(profile) - 1,
                   !.packets_dropped = p.packets_dropped + 1]

Pass(p, q, fate) ==
  /\ fate = "pass" /\ p.burst_remaining = 0
  /\ \E duplicates, replays \in {0, 1} :
       q = [p EXCEPT !.packets_forwarded = p.packets_forwarded + 1,
                     !.packets_duplicated = p.packets_duplicated + duplicates,
                     !.packets_replayed = p.packets_replayed + replays]

\* What Process may return, for every packet, profile and state of the buffer.
LEMMA ProcessOutcome ==
  ASSUME NEW Data, NEW p \in Pipeline(Data), NEW profile \in FaultProfile,
         NEW t \in Nat, NEW later \in Nat, NEW data \in Data,
         NEW outcome \in Process(p, profile, t, later, data)
  PROVE  LET heard == Heard(p, t, data)
         IN  /\ outcome.sends \in Sends(Data)
             /\ \/ Burst(heard, outcome.pipe, outcome.fate)
                \/ Loss(heard, outcome.pipe, outcome.fate, profile)
                \/ Pass(heard, outcome.pipe, outcome.fate)
<1> DEFINE heard == Heard(p, t, data)
<1>1. /\ heard \in Pipeline(Data)
      /\ heard.burst_remaining = p.burst_remaining
      /\ p.burst_remaining \in Nat
  <2>1. p.burst_remaining \in Nat
    BY DEF Pipeline
  <2>2. heard \in Pipeline(Data)
    BY HeardType
  <2>3. heard.burst_remaining = p.burst_remaining
    BY HeardType
  <2> QED
    BY <2>1, <2>2, <2>3
<1>2. CASE p.burst_remaining > 0
  <2>1. outcome = Dropped(heard, p.burst_remaining - 1, "burst")
    BY <1>2 DEF Process
  <2> HIDE DEF heard
  <2>2. outcome.sends = <<>> /\ Burst(heard, outcome.pipe, outcome.fate)
    BY <1>1, <1>2, <2>1 DEF Dropped, Burst
  <2> QED
    BY <2>2 DEF heard, Sends
<1>3. CASE p.burst_remaining = 0
  <2>1. \/ outcome = Dropped(heard, BurstAfterLoss(p, profile), "loss")
        \/ outcome \in UNION {{Passed(heard, profile, later, data, jitter, duplicate) :
                              duplicate \in Duplicates(profile, data,
                                                       profile.delay_ms + jitter)} :
                           jitter \in 0..profile.jitter_ms}
    BY <1>3 DEF Process
  <2>2. CASE outcome = Dropped(heard, BurstAfterLoss(p, profile), "loss")
    <3>1. BurstAfterLoss(p, profile) = Price(profile) - 1
      BY <1>3 DEF BurstAfterLoss, Price, FaultProfile
    <3> HIDE DEF heard
    <3>2. outcome.sends = <<>> /\ Loss(heard, outcome.pipe, outcome.fate, profile)
      BY <1>1, <1>3, <2>2, <3>1 DEF Dropped, Loss
    <3> QED
      BY <3>2 DEF heard, Sends
  <2>3. ASSUME NEW jitter \in 0..profile.jitter_ms,
               NEW duplicate \in Duplicates(profile, data, profile.delay_ms + jitter),
               outcome = Passed(heard, profile, later, data, jitter, duplicate)
        PROVE  outcome.sends \in Sends(Data) /\ Pass(heard, outcome.pipe, outcome.fate)
    <3> DEFINE delay  == profile.delay_ms + jitter
               replay == Replays(heard.replay_buffer, profile, later, delay)
    <3>1. delay \in Nat
      BY DEF FaultProfile
    <3>2. duplicate \in Sends(Data) /\ Len(duplicate) \in {0, 1}
      BY <3>1, DuplicatesType
    <3>3. heard.replay_buffer \in Seq(Remembered(Data))
      BY <1>1 DEF Pipeline
    <3>4. replay \in Sends(Data) /\ Len(replay) \in {0, 1}
      BY <3>1, <3>3, ReplaysType
    <3>5. <<Forward(data, delay)>> \in Sends(Data)
      BY <3>1 DEF Sends, Forward
    <3>6. <<Forward(data, delay)>> \o duplicate \o replay \in Sends(Data)
      BY <3>2, <3>4, <3>5, ConcatProperties DEF Sends
    <3>7. /\ outcome.pipe = [heard EXCEPT
                !.packets_forwarded = heard.packets_forwarded + 1,
                !.packets_duplicated = heard.packets_duplicated + Len(duplicate),
                !.packets_replayed = heard.packets_replayed + Len(replay)]
          /\ outcome.sends = <<Forward(data, delay)>> \o duplicate \o replay
          /\ outcome.fate = "pass"
      BY <2>3 DEF Passed
    <3> HIDE DEF replay, delay, heard
    <3> QED
      BY <1>1, <1>3, <3>2, <3>4, <3>6, <3>7 DEF Pass
  <2> QED
    BY <2>1, <2>2, <2>3
<1> QED
  BY <1>1, <1>2, <1>3

\* What a pipeline has had sent: the packets forwarded and those made of them.
Emitted(p) == p.packets_forwarded + p.packets_duplicated + p.packets_replayed

\* A call counts its packet, and everything it sends.
LEMMA ProcessCounts ==
  ASSUME NEW Data, NEW p \in Pipeline(Data), NEW profile \in FaultProfile,
         NEW t \in Nat, NEW later \in Nat, NEW data \in Data,
         NEW outcome \in Process(p, profile, t, later, data)
  PROVE  /\ outcome.pipe.packets_processed = p.packets_processed + 1
         /\ Emitted(outcome.pipe) = Emitted(p) + Len(outcome.sends)
         /\ Emitted(p) \in Nat
<1> DEFINE heard == Heard(p, t, data)
<1>1. /\ heard \in Pipeline(Data)
      /\ heard.packets_processed = p.packets_processed + 1
      /\ Emitted(heard) = Emitted(p) /\ Emitted(heard) \in Nat
  <2>1. heard \in Pipeline(Data)
    BY HeardType
  <2>2. heard.packets_processed = p.packets_processed + 1
    BY HeardType
  <2>3. heard.packets_forwarded = p.packets_forwarded
    BY HeardType
  <2>4. heard.packets_duplicated = p.packets_duplicated
    BY HeardType
  <2>5. heard.packets_replayed = p.packets_replayed
    BY HeardType
  <2> HIDE DEF heard
  <2>6. Emitted(heard) \in Nat
    <3> HIDE DEF heard
    <3>1. /\ heard.packets_forwarded \in Nat /\ heard.packets_duplicated \in Nat
          /\ heard.packets_replayed \in Nat
      BY <2>1 DEF Pipeline
    <3> QED
      BY <3>1 DEF Emitted
  <2> QED
    BY <2>1, <2>2, <2>3, <2>4, <2>5, <2>6 DEF Emitted
<1>2. ASSUME NEW left, NEW fate, outcome = Dropped(heard, left, fate)
      PROVE  /\ outcome.pipe.packets_processed = heard.packets_processed
             /\ Emitted(outcome.pipe) = Emitted(heard) + Len(outcome.sends)
  <2> HIDE DEF heard
  <2>1. /\ outcome.sends = <<>> /\ Emitted(outcome.pipe) = Emitted(heard)
        /\ outcome.pipe.packets_processed = heard.packets_processed
    BY <1>1, <1>2 DEF Dropped, Emitted, Pipeline
  <2> QED
    BY <1>1, <2>1
<1>3. ASSUME NEW jitter \in 0..profile.jitter_ms,
             NEW duplicate \in Duplicates(profile, data, profile.delay_ms + jitter),
             outcome = Passed(heard, profile, later, data, jitter, duplicate)
      PROVE  /\ outcome.pipe.packets_processed = heard.packets_processed
             /\ Emitted(outcome.pipe) = Emitted(heard) + Len(outcome.sends)
  <2> DEFINE delay  == profile.delay_ms + jitter
             replay == Replays(heard.replay_buffer, profile, later, delay)
  <2>1. delay \in Nat
    BY DEF FaultProfile
  <2>2. duplicate \in Sends(Data) /\ Len(duplicate) \in {0, 1}
    BY <2>1, DuplicatesType
  <2>3. replay \in Sends(Data) /\ Len(replay) \in {0, 1}
    <3>1. heard.replay_buffer \in Seq(Remembered(Data))
      BY <1>1 DEF Pipeline
    <3> QED
      BY <2>1, <3>1, ReplaysType
  <2>4. <<Forward(data, delay)>> \in Sends(Data)
    BY <2>1 DEF Sends, Forward
  <2>5. /\ outcome.pipe = [heard EXCEPT
              !.packets_forwarded = heard.packets_forwarded + 1,
              !.packets_duplicated = heard.packets_duplicated + Len(duplicate),
              !.packets_replayed = heard.packets_replayed + Len(replay)]
        /\ outcome.sends = <<Forward(data, delay)>> \o duplicate \o replay
    BY <1>3 DEF Passed
  <2> HIDE DEF replay, delay, heard
  <2>6. Len(outcome.sends) = 1 + Len(duplicate) + Len(replay)
    <3> DEFINE S == [data : Data, delay : Nat]
    <3>1. <<Forward(data, delay)>> \in Seq(S) /\ duplicate \in Seq(S) /\ replay \in Seq(S)
      BY <2>2, <2>3, <2>4 DEF Sends
    <3> HIDE DEF S
    <3>2. Len(<<Forward(data, delay)>> \o duplicate) = 1 + Len(duplicate)
            /\ <<Forward(data, delay)>> \o duplicate \in Seq(S)
      BY <3>1
    <3> QED
      BY <2>5, <3>1, <3>2
  <2>7. /\ outcome.pipe.packets_processed = heard.packets_processed
        /\ outcome.pipe.packets_forwarded = heard.packets_forwarded + 1
        /\ outcome.pipe.packets_duplicated = heard.packets_duplicated + Len(duplicate)
        /\ outcome.pipe.packets_replayed = heard.packets_replayed + Len(replay)
    BY <1>1, <2>5 DEF Pipeline
  <2>8. /\ heard.packets_forwarded \in Nat /\ heard.packets_duplicated \in Nat
        /\ heard.packets_replayed \in Nat
    BY <1>1 DEF Pipeline
  <2>9. Len(duplicate) \in Nat /\ Len(replay) \in Nat
    BY <2>2, <2>3
  <2>10. Emitted(outcome.pipe) = Emitted(heard) + (1 + Len(duplicate) + Len(replay))
    <3> DEFINE a == heard.packets_forwarded
               b == heard.packets_duplicated
               c == heard.packets_replayed
               m == Len(duplicate)
               n == Len(replay)
    <3>1. a \in Nat /\ b \in Nat /\ c \in Nat /\ m \in Nat /\ n \in Nat
      BY <2>8, <2>9
    <3>2. Emitted(outcome.pipe) = (a + 1) + (b + m) + (c + n)
      BY <2>7 DEF Emitted
    <3>3. Emitted(heard) = a + b + c
      BY DEF Emitted
    <3> HIDE DEF a, b, c, m, n
    <3>4. (a + 1) + (b + m) + (c + n) = (a + b + c) + (1 + m + n)
      BY <3>1
    <3> QED
      BY <3>2, <3>3, <3>4 DEF m, n
  <2> QED
    BY <2>6, <2>7, <2>10
<1>4. \/ \E left, fate : outcome = Dropped(heard, left, fate)
      \/ \E jitter \in 0..profile.jitter_ms :
           \E duplicate \in Duplicates(profile, data, profile.delay_ms + jitter) :
             outcome = Passed(heard, profile, later, data, jitter, duplicate)
  <2> HIDE DEF heard
  <2>1. CASE p.burst_remaining > 0
    BY <2>1 DEF Process, heard
  <2>2. CASE ~(p.burst_remaining > 0)
    BY <2>2 DEF Process, heard
  <2> QED
    BY <2>1, <2>2
<1> HIDE DEF heard
<1> QED
  BY <1>1, <1>2, <1>3, <1>4

\* Whatever stage ends a call, the pipeline keeps its type.
LEMMA ProcessType ==
  ASSUME NEW Data, NEW p \in Pipeline(Data), NEW profile \in FaultProfile,
         NEW t \in Nat, NEW later \in Nat, NEW data \in Data,
         NEW outcome \in Process(p, profile, t, later, data)
  PROVE  outcome.pipe \in Pipeline(Data) /\ outcome.fate \in Fate
<1> DEFINE heard == Heard(p, t, data)
           q == outcome.pipe
<1>1. heard \in Pipeline(Data)
  BY HeardType
<1>2. \/ Burst(heard, q, outcome.fate)
      \/ Loss(heard, q, outcome.fate, profile)
      \/ Pass(heard, q, outcome.fate)
  BY ProcessOutcome
<1>3. Price(profile) - 1 \in Nat
  BY DEF Price, FaultProfile
<1> HIDE DEF heard, q
<1>4. /\ heard.burst_remaining \in Nat /\ heard.packets_dropped \in Nat
      /\ heard.packets_forwarded \in Nat /\ heard.packets_duplicated \in Nat
      /\ heard.packets_replayed \in Nat
  BY <1>1 DEF Pipeline
<1>5. CASE Burst(heard, q, outcome.fate)
  <2>1. heard.burst_remaining - 1 \in Nat /\ heard.packets_dropped + 1 \in Nat
    BY <1>4, <1>5 DEF Burst
  <2>2. q \in Pipeline(Data)
    BY <1>1, <1>5, <2>1 DEF Burst, Pipeline
  <2> QED
    BY <1>5, <2>2 DEF Burst, Fate, q
<1>6. CASE Loss(heard, q, outcome.fate, profile)
  <2>1. heard.packets_dropped + 1 \in Nat
    BY <1>4
  <2>2. q \in Pipeline(Data)
    BY <1>1, <1>3, <1>6, <2>1 DEF Loss, Pipeline
  <2> QED
    BY <1>6, <2>2 DEF Loss, Fate, q
<1>7. CASE Pass(heard, q, outcome.fate)
  <2>1. PICK duplicates, replays \in {0, 1} :
          q = [heard EXCEPT !.packets_forwarded = heard.packets_forwarded + 1,
                            !.packets_duplicated = heard.packets_duplicated + duplicates,
                            !.packets_replayed = heard.packets_replayed + replays]
    BY <1>7 DEF Pass
  <2>2. /\ heard.packets_forwarded + 1 \in Nat
        /\ heard.packets_duplicated + duplicates \in Nat
        /\ heard.packets_replayed + replays \in Nat
    BY <1>4
  <2>3. q \in Pipeline(Data)
    BY <1>1, <2>1, <2>2 DEF Pipeline
  <2> QED
    BY <1>7, <2>3 DEF Pass, Fate, q
<1> QED
  BY <1>2, <1>5, <1>6, <1>7

\* What a buffer in order of age replays is its head, when that is stale.
LEMMA ReplaysHead ==
  ASSUME NEW Data, NEW buffer \in Seq(Remembered(Data)), NEW profile \in FaultProfile,
         NEW t \in Nat, NEW delay \in Nat,
         \A i, j \in DOMAIN buffer : i <= j => buffer[i].at <= buffer[j].at,
         Replays(buffer, profile, t, delay) # <<>>
  PROVE  /\ profile.replay_stale_ms > 0
         /\ Len(buffer) >= 1
         /\ t - buffer[1].at >= profile.replay_stale_ms
         /\ Replays(buffer, profile, t, delay) = <<Forward(buffer[1].data, delay)>>
<1> DEFINE stale == StaleEntries(buffer, profile, t)
           first == CHOOSE i \in stale : \A j \in stale : i <= j
<1>1. /\ profile.replay_stale_ms # 0 /\ stale # {}
      /\ Replays(buffer, profile, t, delay) = <<Forward(buffer[first].data, delay)>>
  BY DEF Replays
<1>2. /\ stale \subseteq 1..Len(buffer) /\ Len(buffer) \in Nat
      /\ profile.replay_stale_ms \in Nat
  BY DEF StaleEntries, FaultProfile
<1>3. 1 \in stale
  <2>1. PICK i \in stale : t - buffer[i].at >= profile.replay_stale_ms
    BY <1>1 DEF StaleEntries
  <2>2. i \in 1..Len(buffer) /\ 1 \in 1..Len(buffer)
    BY <1>2
  <2>3. buffer[1] \in Remembered(Data) /\ buffer[i] \in Remembered(Data)
    BY <2>2
  <2>4. buffer[1].at \in Nat /\ buffer[i].at \in Nat
    BY <2>3 DEF Remembered
  <2>5. buffer[1].at <= buffer[i].at
    BY <2>2
  <2>6. t - buffer[1].at >= profile.replay_stale_ms
    BY <1>2, <2>1, <2>4, <2>5
  <2> QED
    BY <2>2, <2>6 DEF StaleEntries
<1>4. t - buffer[1].at >= profile.replay_stale_ms
  BY <1>3 DEF StaleEntries
<1>5. first = 1
  <2>1. \A j \in stale : j \in Nat /\ 1 <= j
    BY <1>2
  <2> HIDE DEF stale
  <2>2. first \in stale /\ \A j \in stale : first <= j
    BY <1>3, <2>1
  <2> QED
    BY <1>3, <2>1, <2>2
<1>6. profile.replay_stale_ms > 0 /\ Len(buffer) >= 1
  BY <1>1, <1>2, <1>3
<1> HIDE DEF stale, first
<1> QED
  BY <1>1, <1>4, <1>5, <1>6

\* Whatever a call sends that is not its own packet is what Replays finds in
\* the buffer: it goes last, at the delay of the first send.
LEMMA ProcessSends ==
  ASSUME NEW Data, NEW p \in Pipeline(Data), NEW profile \in FaultProfile,
         NEW t \in Nat, NEW later \in Nat, NEW data \in Data,
         NEW outcome \in Process(p, profile, t, later, data),
         NEW i \in DOMAIN outcome.sends, outcome.sends[i].data # data
  PROVE  /\ i = Len(outcome.sends)
         /\ \E delay \in Nat :
              LET replay == Replays(Heard(p, t, data).replay_buffer, profile, later, delay)
              IN  /\ outcome.sends[1].delay = delay
                  /\ replay # <<>>
                  /\ outcome.sends[i] = replay[1]
<1> DEFINE heard == Heard(p, t, data)
<1>1. heard \in Pipeline(Data)
  BY HeardType
<1>2. PICK jitter \in 0..profile.jitter_ms :
        \E copies \in Duplicates(profile, data, profile.delay_ms + jitter) :
          outcome = Passed(heard, profile, later, data, jitter, copies)
  <2>1. \A left, fate : outcome # Dropped(heard, left, fate)
    BY DEF Dropped
  <2> HIDE DEF heard
  <2> QED
    BY <2>1 DEF Process, heard
<1>3. PICK copies \in Duplicates(profile, data, profile.delay_ms + jitter) :
        outcome = Passed(heard, profile, later, data, jitter, copies)
  BY <1>2
<1> DEFINE delay  == profile.delay_ms + jitter
           replay == Replays(heard.replay_buffer, profile, later, delay)
           own    == <<Forward(data, delay)>> \o copies
<1>4. delay \in Nat
  BY DEF FaultProfile
<1>5. /\ copies \in Sends(Data) /\ Len(copies) \in {0, 1}
      /\ replay \in Sends(Data) /\ Len(replay) \in {0, 1}
  <2>1. copies \in Sends(Data) /\ Len(copies) \in {0, 1}
    BY <1>4, DuplicatesType
  <2>2. heard.replay_buffer \in Seq(Remembered(Data))
    BY <1>1 DEF Pipeline
  <2> QED
    BY <1>4, <2>1, <2>2, ReplaysType
<1>6. \A k \in 1..Len(copies) : copies[k].data = data
  BY DEF Duplicates, Forward
<1>7. outcome.sends = own \o replay
  BY <1>3 DEF Passed
<1> HIDE DEF heard, delay, replay
<1>8. <<Forward(data, delay)>> \in Sends(Data)
  BY <1>4 DEF Sends, Forward
<1>9. /\ own \in Sends(Data) /\ Len(own) = 1 + Len(copies)
      /\ own[1] = Forward(data, delay)
      /\ \A k \in 1..Len(own) : own[k].data = data
  <2>1. /\ own \in Sends(Data) /\ Len(own) = 1 + Len(copies)
        /\ \A k \in 1..(1 + Len(copies)) :
             own[k] = IF k <= 1 THEN <<Forward(data, delay)>>[k] ELSE copies[k - 1]
    BY <1>5, <1>8, ConcatProperties DEF Sends
  <2> HIDE DEF own
  <2> QED
    BY <1>5, <1>6, <2>1 DEF Forward
<1> HIDE DEF own
<1>10. /\ Len(own \o replay) = Len(own) + Len(replay)
       /\ \A k \in 1..(Len(own) + Len(replay)) :
            (own \o replay)[k] = IF k <= Len(own) THEN own[k] ELSE replay[k - Len(own)]
       /\ own \o replay \in Sends(Data)
  BY <1>5, <1>9, ConcatProperties DEF Sends
<1>11. i \in 1..(Len(own) + Len(replay)) /\ Len(own) \in Nat
  BY <1>5, <1>7, <1>9, <1>10 DEF Sends
<1>12. ~(i <= Len(own))
  BY <1>7, <1>9, <1>10, <1>11
<1>13. Len(replay) = 1 /\ i = Len(own) + 1
  <2> DEFINE m == Len(own)
             r == Len(replay)
  <2>1. m \in Nat /\ r \in {0, 1} /\ i \in 1..(m + r) /\ ~(i <= m)
    BY <1>5, <1>11, <1>12
  <2> HIDE DEF m, r
  <2>2. r = 1 /\ i = m + 1
    BY <2>1
  <2> QED
    BY <2>2 DEF m, r
<1>14. /\ i = Len(outcome.sends)
       /\ outcome.sends[i] = replay[1]
       /\ outcome.sends[1].delay = delay
       /\ replay # <<>>
  <2>1. 1 \in 1..(Len(own) + Len(replay)) /\ 1 <= Len(own)
    BY <1>5, <1>9
  <2>2. outcome.sends[1] = Forward(data, delay)
    BY <1>7, <1>9, <1>10, <2>1
  <2> QED
    BY <1>7, <1>9, <1>10, <1>11, <1>12, <1>13, <2>2 DEF Forward
<1> QED
  BY <1>4, <1>14 DEF replay, heard
============================================================================
