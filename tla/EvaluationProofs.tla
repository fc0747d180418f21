-------------------------- MODULE EvaluationProofs --------------------------
(***************************************************************************)
(* Proofs about Evaluation, for every scenario, fleet and mission, however *)
(* much telemetry arrives meanwhile: what a verdict means, how it can      *)
(* change, that the report backs it and that the documents agree.          *)
(***************************************************************************)
EXTENDS Evaluation, FiniteSetTheorems, WellFoundedInduction, TLAPS

----------------------------------------------------------------------------
(* Least and greatest elements: what the CHOOSEs of the checks and of the  *)
(* reports pick exists.                                                    *)

LEMMA FirstProperties ==
  ASSUME NEW S \in SUBSET Nat, S # {}
  PROVE  First(S) \in S /\ \A i \in S : First(S) <= i
<1> DEFINE Less == {ss \in Nat \X Nat : ss[1] < ss[2]}
<1>1. IsWellFoundedOn(Less, Nat)
  BY NatLessThanWellFounded DEF OpToRel
<1> HIDE DEF Less
<1>2. PICK m \in S : \A n \in S : ~(<<n, m>> \in Less)
  BY <1>1, WFMin, S \subseteq Nat
<1>3. ASSUME NEW n \in S
      PROVE  m <= n
  <2>1. ~(<<n, m>> \in Less)
    BY <1>2
  <2> QED
    BY <2>1 DEF Less
<1> QED
  BY <1>3 DEF First

\* The first element is the one no other comes before.
LEMMA FirstIs ==
  ASSUME NEW S \in SUBSET Nat, NEW k \in S, \A i \in S : k <= i
  PROVE  First(S) = k
<1>1. First(S) \in S /\ First(S) <= k
  BY FirstProperties
<1>2. k <= First(S)
  BY <1>1
<1>3. k \in Nat /\ First(S) \in Nat
  BY <1>1
<1> QED
  BY <1>1, <1>2, <1>3

LEMMA GreatestExists ==
  ASSUME NEW S \in SUBSET Nat, S # {}, IsFiniteSet(S)
  PROVE  \E m \in S : \A n \in S : n <= m
<1> DEFINE Without(T) == T # {} /\ IsFiniteSet(T) /\ ~\E m \in T : \A n \in T : n <= m
           Sizes == {Cardinality(T) : T \in {U \in SUBSET Nat : Without(U)}}
<1> SUFFICES ASSUME Without(S)
             PROVE  FALSE
  OBVIOUS
<1>1. Sizes \in SUBSET Nat /\ Sizes # {}
  BY FS_CardinalityType
<1>2. PICK T \in SUBSET Nat : Without(T) /\ Cardinality(T) = First(Sizes)
  BY <1>1, FirstProperties
<1>3. PICK x : x \in T
  BY <1>2
<1> DEFINE rest == T \ {x}
<1>4. IsFiniteSet(rest) /\ Cardinality(rest) = Cardinality(T) - 1
  BY <1>2, <1>3, FS_RemoveElement
<1>5. rest # {}
  BY <1>2, <1>3
<1>6. ~Without(rest)
  <2>1. SUFFICES ASSUME Without(rest)
                 PROVE  FALSE
    OBVIOUS
  <2>2. Cardinality(rest) \in Sizes
    BY <2>1
  <2>3. First(Sizes) <= Cardinality(rest)
    BY <1>1, <2>2, FirstProperties
  <2>4. Cardinality(T) \in Nat
    BY <1>2, FS_CardinalityType
  <2> QED
    BY <1>2, <1>4, <2>3, <2>4
<1>7. PICK m \in rest : \A n \in rest : n <= m
  BY <1>4, <1>5, <1>6
<1>8. CASE x <= m
  <2>1. m \in T /\ \A n \in T : n <= m
    BY <1>7, <1>8
  <2> QED
    BY <1>2, <2>1
<1>9. CASE m < x
  <2>1. \A n \in T : n <= x
    BY <1>2, <1>3, <1>7, <1>9
  <2> QED
    BY <1>2, <1>3, <2>1
<1> QED
  BY <1>3, <1>7, <1>8, <1>9

----------------------------------------------------------------------------
(* Histories of samples                                                    *)

\* The samples of a history lie between its start and a later time, and none
\* is older than one recorded before it.
InOrder(samples, start, until) ==
  \A i \in DOMAIN samples :
    /\ samples[i].time \in start..until
    /\ \A j \in 1..i : samples[j].time <= samples[i].time

Orderly(store, until) ==
  /\ InOrder(store.positions, store.start, until)
  /\ InOrder(store.attitudes, store.start, until)
  /\ InOrder(store.statuses, store.start, until)

\* One history is the beginning of another.
Begins(s, t) == Len(s) <= Len(t) /\ \A i \in DOMAIN s : s[i] = t[i]

\* One store is what the other was at an earlier time.
Earlier(a, b) ==
  /\ a.start = b.start
  /\ Begins(a.positions, b.positions)
  /\ Begins(a.attitudes, b.attitudes)
  /\ Begins(a.statuses, b.statuses)

LEMMA EarlierTransitive ==
  ASSUME NEW a \in Store, NEW b \in Store, NEW c \in Store,
         Earlier(a, b), Earlier(b, c)
  PROVE  Earlier(a, c)
<1>1. ASSUME NEW Sample, NEW r \in Seq(Sample), NEW s \in Seq(Sample),
             NEW t \in Seq(Sample), Begins(r, s), Begins(s, t)
      PROVE  Begins(r, t)
  BY <1>1 DEF Begins
<1> QED
  BY <1>1 DEF Earlier, Store

\* The beginning of an orderly history is orderly.
LEMMA EarlierOrderly ==
  ASSUME NEW a \in Store, NEW b \in Store, Earlier(a, b), NEW until, Orderly(b, until)
  PROVE  Orderly(a, until)
<1>1. ASSUME NEW Sample, NEW s \in Seq(Sample), NEW t \in Seq(Sample),
             Begins(s, t), NEW start, InOrder(t, start, until)
      PROVE  InOrder(s, start, until)
  <2> SUFFICES ASSUME NEW i \in DOMAIN s
               PROVE  /\ s[i].time \in start..until
                      /\ \A j \in 1..i : s[j].time <= s[i].time
    BY DEF InOrder
  <2>1. i \in DOMAIN t /\ s[i] = t[i] /\ 1..i \subseteq DOMAIN s
    BY <1>1 DEF Begins
  <2>2. \A j \in 1..i : s[j] = t[j]
    BY <1>1, <2>1 DEF Begins
  <2> QED
    BY <1>1, <2>1, <2>2 DEF InOrder
<1>2. a.start = b.start
  BY DEF Earlier
<1>3. InOrder(a.positions, a.start, until)
  BY <1>1, <1>2 DEF Earlier, Orderly, Store
<1>4. InOrder(a.attitudes, a.start, until)
  BY <1>1, <1>2 DEF Earlier, Orderly, Store
<1>5. InOrder(a.statuses, a.start, until)
  BY <1>1, <1>2 DEF Earlier, Orderly, Store
<1> QED
  BY <1>3, <1>4, <1>5 DEF Orderly

\* Breaking off at the first late sample leaves none out that is in time, for
\* the samples come in the order of their times.
LEMMA VisitedIsWindow ==
  ASSUME NEW Sample, \A x \in Sample : x.time \in Nat,
         NEW samples \in Seq(Sample), NEW start \in Nat, NEW until,
         InOrder(samples, start, until), NEW timeout \in Nat
  PROVE  Visited(samples, start, timeout)
           = {i \in DOMAIN samples : samples[i].time <= start + timeout}
<1>1. \A i \in DOMAIN samples : samples[i] \in Sample /\ samples[i].time \in Nat
  OBVIOUS
<1>2. \A time \in Nat : Elapsed(start, time) <= timeout <=> time <= start + timeout
  BY DEF Elapsed
<1>3. ASSUME NEW i \in Visited(samples, start, timeout)
      PROVE  samples[i].time <= start + timeout
  <2>1. i \in DOMAIN samples /\ i \in 1..i
    BY DEF Visited
  <2>2. Elapsed(start, samples[i].time) <= timeout
    BY <2>1 DEF Visited
  <2> QED
    BY <1>1, <1>2, <2>1, <2>2
<1>4. ASSUME NEW i \in DOMAIN samples, samples[i].time <= start + timeout
      PROVE  i \in Visited(samples, start, timeout)
  <2>1. ASSUME NEW j \in 1..i
        PROVE  Elapsed(start, samples[j].time) <= timeout
    <3>1. j \in DOMAIN samples
      OBVIOUS
    <3>2. samples[j].time <= samples[i].time
      BY DEF InOrder
    <3>3. samples[j].time <= start + timeout
      BY <1>1, <1>4, <3>1, <3>2
    <3> QED
      BY <1>1, <1>2, <3>1, <3>3
  <2> QED
    BY <2>1 DEF Visited
<1> QED
  BY <1>3, <1>4 DEF Visited

\* What a check has gone through it goes through again when there is more.
LEMMA VisitedStays ==
  ASSUME NEW Sample, NEW s \in Seq(Sample), NEW t \in Seq(Sample), Begins(s, t),
         NEW start, NEW timeout
  PROVE  Visited(s, start, timeout) = Visited(t, start, timeout) \cap DOMAIN s
<1>1. DOMAIN s \subseteq DOMAIN t /\ \A i \in DOMAIN s : s[i] = t[i] /\ 1..i \subseteq DOMAIN s
  BY DEF Begins
<1>2. ASSUME NEW i \in DOMAIN s
      PROVE  i \in Visited(s, start, timeout) <=> i \in Visited(t, start, timeout)
  <2>1. \A j \in 1..i : s[j].time = t[j].time
    BY <1>1
  <2> QED
    BY <1>1, <2>1 DEF Visited
<1> QED
  BY <1>1, <1>2 DEF Visited

----------------------------------------------------------------------------
(* Results                                                                 *)

LEMMA ReachedAtType ==
  ASSUME NEW Sample, \A x \in Sample : x.time \in Nat,
         NEW samples \in Seq(Sample), NEW start \in Nat,
         NEW hits \in SUBSET DOMAIN samples
  PROVE  /\ ReachedAt(samples, start, hits) \in AssertionResult
         /\ ReachedAt(samples, start, hits).passed <=> hits # {}
<1>1. CASE hits = {}
  BY <1>1 DEF ReachedAt, Failed, AssertionResult
<1>2. CASE hits # {}
  <2>1. First(hits) \in DOMAIN samples
    BY <1>2, FirstProperties
  <2>2. samples[First(hits)].time \in Nat
    BY <2>1
  <2>3. Elapsed(start, samples[First(hits)].time) \in Nat
    BY <2>2 DEF Elapsed
  <2> QED
    BY <1>2, <2>3 DEF ReachedAt, AssertionResult
<1> QED
  BY <1>1, <1>2

\* The first of the hits stays the first when there are more.
LEMMA FirstStays ==
  ASSUME NEW Sample, NEW s \in Seq(Sample), NEW t \in Seq(Sample), Begins(s, t),
         NEW more \in SUBSET DOMAIN t, more \cap DOMAIN s # {}
  PROVE  First(more \cap DOMAIN s) \in more \cap DOMAIN s
           /\ First(more) = First(more \cap DOMAIN s)
<1> DEFINE hits == more \cap DOMAIN s
<1>1. hits \in SUBSET Nat /\ more \in SUBSET Nat
  OBVIOUS
<1>2. First(hits) \in hits /\ \A i \in hits : First(hits) <= i
  BY <1>1, FirstProperties
<1>3. ASSUME NEW i \in more
      PROVE  First(hits) <= i
  <2>1. CASE i \in DOMAIN s
    BY <1>2, <2>1
  <2>2. CASE i \notin DOMAIN s
    <3>1. First(hits) \in 1..Len(s) /\ i \in 1..Len(t) /\ ~(i \in 1..Len(s))
      BY <1>2, <2>2
    <3> QED
      BY <3>1
  <2> QED
    BY <2>1, <2>2
<1> QED
  BY <1>1, <1>2, <1>3, FirstIs

\* What was reached stays reached, at the same time.
LEMMA ReachedAtStays ==
  ASSUME NEW Sample, NEW s \in Seq(Sample), NEW t \in Seq(Sample), Begins(s, t),
         NEW start, NEW more \in SUBSET DOMAIN t, more \cap DOMAIN s # {}
  PROVE  ReachedAt(t, start, more) = ReachedAt(s, start, more \cap DOMAIN s)
<1>1. /\ First(more \cap DOMAIN s) \in more \cap DOMAIN s
      /\ First(more) = First(more \cap DOMAIN s)
  BY FirstStays
<1>2. s[First(more \cap DOMAIN s)] = t[First(more \cap DOMAIN s)]
  BY <1>1 DEF Begins
<1> QED
  BY <1>1, <1>2 DEF ReachedAt

LEMMA HeldUnlessType ==
  ASSUME NEW broken \in BOOLEAN
  PROVE  HeldUnless(broken) \in AssertionResult /\ (HeldUnless(broken).passed <=> ~broken)
BY DEF HeldUnless, Failed, Held, AssertionResult

----------------------------------------------------------------------------
(* The checks, one by one                                                  *)

LEMMA AssertionFields ==
  ASSUME NEW a \in Assertion
  PROVE  /\ a.type \in {"waypoint_reached", "altitude_reached", "landed", "segment_timing",
                        "geofence", "max_tilt", "max_ground_speed", "min_separation"}
         /\ a.type # "segment_timing" => a.timeout \in Nat
         /\ a.type = "waypoint_reached" => a.waypoint \in Nat
         /\ a.type = "altitude_reached" => a.altitude \in Int /\ a.tolerance \in Int
         /\ a.type = "segment_timing" =>
              a.from \in Nat /\ a.to \in Nat /\ a.max_duration \in Int
         /\ a.type = "geofence" => a.max_altitude \in Int /\ a.max_distance \in Int
         /\ a.type = "max_tilt" => a.max_degrees \in Int
         /\ a.type = "max_ground_speed" => a.max_speed \in Int
         /\ a.type = "min_separation" => a.min_distance \in Int
BY DEF Assertion

LEMMA StoreFields ==
  ASSUME NEW store \in Store
  PROVE  /\ store.start \in Nat
         /\ store.positions \in Seq(Position)
         /\ store.attitudes \in Seq(Attitude)
         /\ store.statuses \in Seq(Status)
BY DEF Store

LEMMA SampleFields ==
  /\ \A p \in Position : p.time \in Nat /\ p.place \in Int /\ p.alt \in Int /\ p.speed \in Nat
  /\ \A x \in Attitude : x.time \in Nat /\ x.tilt \in Nat
  /\ \A s \in Status : s.time \in Nat /\ s.armed \in BOOLEAN
BY DEF Position, Attitude, Status

\* The samples within the window are those the loop goes through.
LEMMA WithinVisited ==
  ASSUME NEW Sample, \A x \in Sample : x.time \in Nat, NEW samples \in Seq(Sample),
         NEW store, store.start \in Nat, NEW until, InOrder(samples, store.start, until),
         NEW a, a.timeout \in Nat
  PROVE  /\ Within(samples, store, a)
              = {samples[i] : i \in Visited(samples, store.start, a.timeout)}
         /\ \A i \in DOMAIN samples :
              samples[i] \in Within(samples, store, a)
                <=> i \in Visited(samples, store.start, a.timeout)
<1>1. Visited(samples, store.start, a.timeout)
        = {i \in DOMAIN samples : samples[i].time <= store.start + a.timeout}
  BY VisitedIsWindow
<1> QED
  BY <1>1 DEF Within, Range

LEMMA WaypointReached ==
  ASSUME NEW a \in Assertion, a.type = "waypoint_reached", NEW store \in Store
  PROVE  /\ Evaluated(a, waypoints, store) \in AssertionResult
         /\ \A until : Orderly(store, until) =>
              (Evaluated(a, waypoints, store).passed <=> Means(a, store))
<1> DEFINE P == store.positions
           near == {i \in Visited(P, store.start, a.timeout) :
                      Near(P[i], waypoints[a.waypoint])}
<1>1. P \in Seq(Position) /\ store.start \in Nat /\ a.timeout \in Nat
  BY AssertionFields, StoreFields
<1>2. CASE a.waypoint \notin DOMAIN waypoints
  BY <1>2 DEF Evaluated, Means, Failed, AssertionResult
<1>3. CASE a.waypoint \in DOMAIN waypoints
  <2>1. Evaluated(a, waypoints, store) = ReachedAt(P, store.start, near)
    BY <1>3 DEF Evaluated, check_waypoint_reached
  <2>2. near \in SUBSET DOMAIN P
    BY DEF Visited
  <2>3. /\ ReachedAt(P, store.start, near) \in AssertionResult
        /\ ReachedAt(P, store.start, near).passed <=> near # {}
    BY <1>1, <2>2, ReachedAtType, SampleFields
  <2>4. ASSUME NEW until, Orderly(store, until)
        PROVE  near # {} <=> Means(a, store)
    <3>1. Within(P, store, a) = {P[i] : i \in Visited(P, store.start, a.timeout)}
      BY <1>1, <2>4, WithinVisited, SampleFields DEF Orderly
    <3> QED
      BY <1>3, <3>1 DEF Means
  <2> QED
    BY <2>1, <2>3, <2>4
<1> QED
  BY <1>2, <1>3

LEMMA AltitudeReached ==
  ASSUME NEW a \in Assertion, a.type = "altitude_reached", NEW store \in Store
  PROVE  /\ Evaluated(a, waypoints, store) \in AssertionResult
         /\ \A until : Orderly(store, until) =>
              (Evaluated(a, waypoints, store).passed <=> Means(a, store))
<1> DEFINE P == store.positions
           there == {i \in Visited(P, store.start, a.timeout) :
                       Distance(P[i].alt, a.altitude) <= a.tolerance}
<1>1. P \in Seq(Position) /\ store.start \in Nat /\ a.timeout \in Nat
        /\ a.altitude \in Int /\ a.tolerance \in Int
  BY AssertionFields, StoreFields
<1>2. Evaluated(a, waypoints, store) = ReachedAt(P, store.start, there)
  BY DEF Evaluated, check_altitude_reached
<1>3. there \in SUBSET DOMAIN P
  BY DEF Visited
<1>4. /\ ReachedAt(P, store.start, there) \in AssertionResult
      /\ ReachedAt(P, store.start, there).passed <=> there # {}
  BY <1>1, <1>3, ReachedAtType, SampleFields
<1>5. ASSUME NEW until, Orderly(store, until)
      PROVE  there # {} <=> Means(a, store)
  <2>1. Within(P, store, a) = {P[i] : i \in Visited(P, store.start, a.timeout)}
    BY <1>1, <1>5, WithinVisited, SampleFields DEF Orderly
  <2>2. Means(a, store) <=>
          \E i \in Visited(P, store.start, a.timeout) :
            P[i].alt \in (a.altitude - a.tolerance)..(a.altitude + a.tolerance)
    BY <2>1 DEF Means
  <2>3. ASSUME NEW alt \in Int
        PROVE  Distance(alt, a.altitude) <= a.tolerance
                 <=> alt \in (a.altitude - a.tolerance)..(a.altitude + a.tolerance)
    BY <1>1 DEF Distance
  <2>4. \A i \in Visited(P, store.start, a.timeout) : P[i].alt \in Int
    BY <1>1, SampleFields DEF Visited
  <2> QED
    BY <2>2, <2>3, <2>4
<1> QED
  BY <1>2, <1>4, <1>5

\* The armings that are followed by a disarming in the window.
Landings(S, start, timeout) ==
  {i \in Visited(S, start, timeout) : ~S[i].armed /\ \E j \in 1..i : S[j].armed}

LEMMA Landed ==
  ASSUME NEW a \in Assertion, a.type = "landed", NEW store \in Store
  PROVE  /\ Evaluated(a, waypoints, store) \in AssertionResult
         /\ Evaluated(a, waypoints, store).passed
              <=> Landings(store.statuses, store.start, a.timeout) # {}
         /\ \A until : Orderly(store, until) =>
              (Evaluated(a, waypoints, store).passed <=> Means(a, store))
<1> DEFINE S == store.statuses
           hits == Landings(S, store.start, a.timeout)
<1>1. S \in Seq(Status) /\ store.start \in Nat /\ a.timeout \in Nat
  BY AssertionFields, StoreFields
<1>2. Evaluated(a, waypoints, store) = ReachedAt(S, store.start, hits)
  BY DEF Evaluated, check_landed, Landings
<1>3. hits \in SUBSET DOMAIN S
  BY DEF Visited, Landings
<1>4. /\ ReachedAt(S, store.start, hits) \in AssertionResult
      /\ ReachedAt(S, store.start, hits).passed <=> hits # {}
  BY <1>1, <1>3, ReachedAtType, SampleFields
<1>5. ASSUME NEW until, Orderly(store, until)
      PROVE  hits # {} <=> Means(a, store)
  <2>1. \A i \in DOMAIN S : S[i] \in Within(S, store, a)
                              <=> i \in Visited(S, store.start, a.timeout)
    BY <1>1, <1>5, WithinVisited, SampleFields DEF Orderly
  <2>2. ASSUME NEW j \in hits
        PROVE  Means(a, store)
    <3>1. j \in DOMAIN S /\ ~S[j].armed /\ S[j] \in Within(S, store, a)
      BY <1>3, <2>1 DEF Landings
    <3>2. PICK i \in 1..j : S[i].armed
      BY DEF Landings
    <3>3. i \in DOMAIN S /\ i <= j /\ i # j
      BY <1>1, <3>1, <3>2
    <3>4. i < j
      BY <1>1, <3>1, <3>3
    <3> QED
      BY <3>1, <3>2, <3>3, <3>4 DEF Means
  <2>3. ASSUME Means(a, store)
        PROVE  hits # {}
    <3>1. PICK i \in DOMAIN S, j \in DOMAIN S :
            i < j /\ S[i].armed /\ ~S[j].armed /\ S[j] \in Within(S, store, a)
      BY <2>3 DEF Means
    <3>2. j \in Visited(S, store.start, a.timeout)
      BY <2>1, <3>1
    <3>3. i \in 1..j
      BY <1>1, <3>1
    <3> QED
      BY <3>1, <3>2, <3>3 DEF Landings
  <2> QED
    BY <2>2, <2>3
<1> QED
  BY <1>2, <1>4, <1>5

LEMMA SegmentTiming ==
  ASSUME NEW a \in Assertion, a.type = "segment_timing", NEW store \in Store
  PROVE  /\ Evaluated(a, waypoints, store) \in AssertionResult
         /\ \A until : Orderly(store, until) =>
              (Evaluated(a, waypoints, store).passed <=> Means(a, store))
<1> DEFINE P == store.positions
           from == waypoints[a.from]
           to == waypoints[a.to]
           froms == {i \in DOMAIN P : Near(P[i], from)}
           left == P[First(froms)].time
           tos == {i \in DOMAIN P : P[i].time >= left /\ Near(P[i], to)}
<1>1. P \in Seq(Position) /\ store.start \in Nat /\ a.max_duration \in Int
  BY AssertionFields, StoreFields
<1>2. DOMAIN P \subseteq Nat /\ \A i \in DOMAIN P : P[i].time \in Nat
  BY <1>1, SampleFields
<1>3. CASE ~({a.from, a.to} \subseteq DOMAIN waypoints)
  BY <1>3 DEF Evaluated, Means, Failed, AssertionResult
<1>4. CASE {a.from, a.to} \subseteq DOMAIN waypoints
  <2> DEFINE f == First(froms)
             t == First(tos)
             Timely == froms # {} /\ tos # {} /\ ~(P[t].time - left > a.max_duration)
  <2>1. /\ Timely => Evaluated(a, waypoints, store) = ReachedAt(P, store.start, tos)
        /\ ~Timely => Evaluated(a, waypoints, store) = Failed
    BY <1>4 DEF Evaluated, check_segment_timing
  <2>2. /\ froms # {} <=> \E i \in DOMAIN P : Near(P[i], from)
        /\ tos # {} <=> \E i \in DOMAIN P : P[i].time >= left /\ Near(P[i], to)
        /\ tos \in SUBSET DOMAIN P
    OBVIOUS
  <2>3. froms # {} =>
          /\ f \in DOMAIN P /\ Near(P[f], from) /\ left = P[f].time
          /\ \A i \in DOMAIN P : Near(P[i], from) => f <= i
    BY <1>2, FirstProperties
  <2>4. tos # {} =>
          /\ t \in DOMAIN P /\ P[t].time >= left /\ Near(P[t], to)
          /\ \A i \in DOMAIN P : P[i].time >= left /\ Near(P[i], to) => t <= i
    BY <1>2, FirstProperties
  <2>5. Means(a, store) <=>
          \E i, j \in DOMAIN P :
            /\ Near(P[i], from)
            /\ ~\E k \in 1..(i - 1) : Near(P[k], from)
            /\ Near(P[j], to)
            /\ P[j].time \in P[i].time..(P[i].time + a.max_duration)
    BY <1>4 DEF Means
  <2>6. \A until : Orderly(store, until) =>
          \A i \in DOMAIN P, j \in DOMAIN P : i <= j => P[i].time <= P[j].time
    <3>1. ASSUME NEW until, Orderly(store, until), NEW i \in DOMAIN P, NEW j \in DOMAIN P, i <= j
          PROVE  P[i].time <= P[j].time
      <4>1. i \in 1..j
        BY <1>1, <3>1
      <4> QED
        BY <3>1, <4>1 DEF Orderly, InOrder
    <3> QED
      BY <3>1
  <2>7. ASSUME Timely
        PROVE  Evaluated(a, waypoints, store) \in AssertionResult
                 /\ Evaluated(a, waypoints, store).passed
    <3> HIDE DEF tos, P
    <3> QED
      BY <1>1, <2>1, <2>2, <2>7, ReachedAtType, SampleFields
  <2> HIDE DEF P, froms, left, tos, f, t
  <2>8. CASE Timely
    <3>1. froms # {} /\ tos # {} /\ left \in Nat /\ P[t].time \in Nat
      BY <1>2, <2>3, <2>4, <2>8
    <3>2. ~\E k \in 1..(f - 1) : Near(P[k], from)
      <4>1. SUFFICES ASSUME NEW k \in 1..(f - 1), Near(P[k], from)
                     PROVE  FALSE
        OBVIOUS
      <4>2. k \in DOMAIN P /\ f \in Nat /\ ~(f <= k)
        BY <1>1, <2>3, <3>1
      <4> QED
        BY <2>3, <3>1, <4>1, <4>2
    <3>3. P[t].time \in P[f].time..(P[f].time + a.max_duration)
      BY <1>1, <2>3, <2>4, <2>8, <3>1
    <3>4. Means(a, store)
      BY <2>3, <2>4, <2>5, <3>1, <3>2, <3>3
    <3> QED
      BY <2>7, <2>8, <3>4
  <2>9. CASE ~Timely
    <3>1. ASSUME NEW until, Orderly(store, until), Means(a, store)
          PROVE  Timely
      <4>1. PICK i \in DOMAIN P, j \in DOMAIN P :
              /\ Near(P[i], from)
              /\ ~\E k \in 1..(i - 1) : Near(P[k], from)
              /\ Near(P[j], to)
              /\ P[j].time \in P[i].time..(P[i].time + a.max_duration)
        BY <2>5, <3>1
      <4>2. froms # {}
        BY <2>2, <4>1
      <4>3. f = i
        <5>1. f \in Nat \ {0} /\ i \in Nat /\ f <= i /\ ~(f \in 1..(i - 1))
          BY <1>1, <2>3, <4>1, <4>2
        <5> QED
          BY <5>1
      <4>4. /\ left = P[i].time /\ P[i].time \in Nat /\ P[j].time \in Nat
            /\ P[j].time >= left /\ P[j].time - left <= a.max_duration
        BY <1>1, <1>2, <2>3, <4>1, <4>2, <4>3
      <4>5. tos # {}
        BY <2>2, <4>1, <4>4
      <4>6. t \in DOMAIN P /\ P[t].time \in Nat /\ P[t].time <= P[j].time
        BY <1>2, <2>4, <2>6, <3>1, <4>1, <4>4, <4>5
      <4>7. ~(P[t].time - left > a.max_duration)
        BY <1>1, <4>4, <4>6
      <4> QED
        BY <4>2, <4>5, <4>7
    <3>2. Evaluated(a, waypoints, store) = Failed
      BY <2>1, <2>9
    <3>3. Failed \in AssertionResult /\ ~Failed.passed
      BY DEF Failed, AssertionResult
    <3> HIDE DEF Timely
    <3> QED
      BY <2>9, <3>1, <3>2, <3>3
  <2> QED
    BY <2>8, <2>9
<1> QED
  BY <1>3, <1>4

\* Whether a position is outside the fence.
Outside(p, a) ==
  \/ p.alt > a.max_altitude
  \/ /\ waypoints # <<>>
     /\ \A w \in DOMAIN waypoints : Distance(p.place, waypoints[w].place) > a.max_distance

LEMMA DistanceType == \A m, n \in Int : Distance(m, n) \in Nat
BY DEF Distance

LEMMA Geofence ==
  ASSUME NEW a \in Assertion, a.type = "geofence", NEW store \in Store
  PROVE  /\ Evaluated(a, waypoints, store) \in AssertionResult
         /\ Evaluated(a, waypoints, store)
              = HeldUnless(\E i \in Visited(store.positions, store.start, a.timeout) :
                             Outside(store.positions[i], a))
         /\ \A until : Orderly(store, until) =>
              (Evaluated(a, waypoints, store).passed <=> Means(a, store))
<1> DEFINE P == store.positions
           window == Visited(P, store.start, a.timeout)
<1>1. /\ P \in Seq(Position) /\ store.start \in Nat /\ a.timeout \in Nat
      /\ a.max_altitude \in Int /\ a.max_distance \in Int
  BY AssertionFields, StoreFields
<1>2. Evaluated(a, waypoints, store) = HeldUnless(\E i \in window : Outside(P[i], a))
  BY DEF Evaluated, check_geofence, Outside
<1>3. /\ Evaluated(a, waypoints, store) \in AssertionResult
      /\ Evaluated(a, waypoints, store).passed <=> ~\E i \in window : Outside(P[i], a)
  BY <1>2, HeldUnlessType
<1>4. ASSUME NEW until, Orderly(store, until)
      PROVE  Means(a, store) <=> ~\E i \in window : Outside(P[i], a)
  <2> DEFINE Inside(p) ==
               /\ p.alt <= a.max_altitude
               /\ waypoints = <<>> \/ \E w \in Range(waypoints) :
                    Distance(p.place, w.place) <= a.max_distance
  <2>1. Within(P, store, a) = {P[i] : i \in window}
    BY <1>1, <1>4, WithinVisited, SampleFields DEF Orderly
  <2>2. Means(a, store) <=> \A i \in window : Inside(P[i])
    BY <2>1 DEF Means
  <2>3. ASSUME NEW i \in window
        PROVE  Inside(P[i]) <=> ~Outside(P[i], a)
    <3>1. P[i].alt \in Int /\ P[i].place \in Int
      BY <1>1, SampleFields DEF Visited
    <3>2. ASSUME NEW w \in DOMAIN waypoints
          PROVE  Distance(P[i].place, waypoints[w].place) \in Nat
      <4>1. waypoints[w] \in Waypoint
        BY WaypointsAssumption
      <4>2. waypoints[w].place \in Int
        BY <4>1 DEF Waypoint
      <4> QED
        BY <3>1, <4>2, DistanceType
    <3>3. P[i].alt <= a.max_altitude <=> ~(P[i].alt > a.max_altitude)
      BY <1>1, <3>1
    <3>4. (\E w \in Range(waypoints) : Distance(P[i].place, w.place) <= a.max_distance)
            <=> ~\A w \in DOMAIN waypoints :
                   Distance(P[i].place, waypoints[w].place) > a.max_distance
      <4>1. \A w \in DOMAIN waypoints :
              Distance(P[i].place, waypoints[w].place) <= a.max_distance
                <=> ~(Distance(P[i].place, waypoints[w].place) > a.max_distance)
        BY <1>1, <3>2
      <4> QED
        BY <4>1 DEF Range
    <3> QED
      BY <3>3, <3>4 DEF Outside
  <2> HIDE DEF Inside
  <2> QED
    BY <2>2, <2>3
<1> QED
  BY <1>2, <1>3, <1>4

LEMMA MaxTilt ==
  ASSUME NEW a \in Assertion, a.type = "max_tilt", NEW store \in Store
  PROVE  /\ Evaluated(a, waypoints, store) \in AssertionResult
         /\ \A until : Orderly(store, until) =>
              (Evaluated(a, waypoints, store).passed <=> Means(a, store))
<1> DEFINE S == store.attitudes
           window == Visited(S, store.start, a.timeout)
           Broken == S = <<>> \/ \E i \in window : S[i].tilt > a.max_degrees
<1>1. S \in Seq(Attitude) /\ store.start \in Nat /\ a.timeout \in Nat /\ a.max_degrees \in Int
  BY AssertionFields, StoreFields
<1>2. Evaluated(a, waypoints, store) = HeldUnless(Broken)
  BY DEF Evaluated, check_max_tilt
<1>3. /\ Evaluated(a, waypoints, store) \in AssertionResult
      /\ Evaluated(a, waypoints, store).passed <=> ~Broken
  <2>1. Broken \in BOOLEAN
    OBVIOUS
  <2> HIDE DEF Broken
  <2> QED
    BY <1>2, <2>1, HeldUnlessType
<1>4. ASSUME NEW until, Orderly(store, until)
      PROVE  Means(a, store) <=> ~Broken
  <2>1. Within(S, store, a) = {S[i] : i \in window}
    BY <1>1, <1>4, WithinVisited, SampleFields DEF Orderly
  <2>2. Means(a, store) <=> S # <<>> /\ \A i \in window : S[i].tilt <= a.max_degrees
    BY <2>1 DEF Means
  <2>3. \A i \in window : S[i].tilt <= a.max_degrees <=> ~(S[i].tilt > a.max_degrees)
    BY <1>1, SampleFields DEF Visited
  <2> QED
    BY <2>2, <2>3
<1> QED
  BY <1>3, <1>4

LEMMA MaxGroundSpeed ==
  ASSUME NEW a \in Assertion, a.type = "max_ground_speed", NEW store \in Store
  PROVE  /\ Evaluated(a, waypoints, store) \in AssertionResult
         /\ \A until : Orderly(store, until) =>
              (Evaluated(a, waypoints, store).passed <=> Means(a, store))
<1> DEFINE P == store.positions
           window == Visited(P, store.start, a.timeout)
           Broken == \E i \in window : P[i].speed > a.max_speed
<1>1. P \in Seq(Position) /\ store.start \in Nat /\ a.timeout \in Nat /\ a.max_speed \in Int
  BY AssertionFields, StoreFields
<1>2. Evaluated(a, waypoints, store) = HeldUnless(Broken)
  BY DEF Evaluated, check_max_ground_speed
<1>3. /\ Evaluated(a, waypoints, store) \in AssertionResult
      /\ Evaluated(a, waypoints, store).passed <=> ~Broken
  <2>1. Broken \in BOOLEAN
    OBVIOUS
  <2> HIDE DEF Broken
  <2> QED
    BY <1>2, <2>1, HeldUnlessType
<1>4. ASSUME NEW until, Orderly(store, until)
      PROVE  Means(a, store) <=> ~Broken
  <2>1. Within(P, store, a) = {P[i] : i \in window}
    BY <1>1, <1>4, WithinVisited, SampleFields DEF Orderly
  <2>2. Means(a, store) <=> \A i \in window : P[i].speed <= a.max_speed
    BY <2>1 DEF Means
  <2>3. \A i \in window : P[i].speed <= a.max_speed <=> ~(P[i].speed > a.max_speed)
    BY <1>1, SampleFields DEF Visited
  <2> QED
    BY <2>2, <2>3
<1> QED
  BY <1>3, <1>4

\* Whatever the assertion, its verdict is a result and means what it says.
LEMMA VerdictIsMeaning ==
  ASSUME NEW a \in Assertion, NEW store \in Store
  PROVE  /\ Evaluated(a, waypoints, store) \in AssertionResult
         /\ \A until : Orderly(store, until) =>
              (Evaluated(a, waypoints, store).passed <=> Means(a, store))
<1>1. CASE a.type = "min_separation"
  BY <1>1 DEF Evaluated, Means, Failed, AssertionResult
<1> QED
  BY <1>1, AssertionFields, WaypointReached, AltitudeReached, Landed, SegmentTiming,
     Geofence, MaxTilt, MaxGroundSpeed

----------------------------------------------------------------------------
(* What more telemetry does to a verdict                                   *)

LEMMA LandingsStay ==
  ASSUME NEW s \in Seq(Status), NEW t \in Seq(Status), Begins(s, t), NEW start, NEW timeout
  PROVE  /\ Landings(s, start, timeout) = Landings(t, start, timeout) \cap DOMAIN s
         /\ Landings(t, start, timeout) \in SUBSET DOMAIN t
<1>1. Visited(s, start, timeout) = Visited(t, start, timeout) \cap DOMAIN s
  BY VisitedStays
<1>2. ASSUME NEW i \in DOMAIN s
      PROVE  t[i] = s[i] /\ \A j \in 1..i : t[j] = s[j]
  <2>1. 1..i \subseteq DOMAIN s
    OBVIOUS
  <2> QED
    BY <2>1 DEF Begins
<1>3. Visited(t, start, timeout) \subseteq DOMAIN t
  BY DEF Visited
<1> QED
  BY <1>1, <1>2, <1>3 DEF Landings

\* What an assertion was found to have reached it still finds, at the same time.
LEMMA ReachedStays ==
  ASSUME NEW a \in Assertion, a.type \in Reaching, NEW s \in Store, NEW t \in Store,
         Earlier(s, t), Evaluated(a, waypoints, s).passed
  PROVE  Evaluated(a, waypoints, t) = Evaluated(a, waypoints, s)
<1>1. /\ s.positions \in Seq(Position) /\ t.positions \in Seq(Position)
      /\ s.statuses \in Seq(Status) /\ t.statuses \in Seq(Status)
      /\ Begins(s.positions, t.positions) /\ Begins(s.statuses, t.statuses)
      /\ s.start = t.start
  BY StoreFields DEF Earlier
<1>2. ~Failed.passed
  BY DEF Failed
<1> DEFINE P == s.positions
           Q == t.positions
           windowP == Visited(P, s.start, a.timeout)
           windowQ == Visited(Q, s.start, a.timeout)
<1>3. windowP = windowQ \cap DOMAIN P /\ windowQ \subseteq DOMAIN Q
  <2>1. windowP = windowQ \cap DOMAIN P
    BY <1>1, VisitedStays
  <2> QED
    BY <2>1 DEF Visited
<1>4. \A i \in DOMAIN P : Q[i] = P[i]
  BY <1>1 DEF Begins
<1>9. ASSUME NEW more \in SUBSET DOMAIN Q, more \cap DOMAIN P # {}
      PROVE  /\ First(more) = First(more \cap DOMAIN P)
             /\ First(more \cap DOMAIN P) \in more \cap DOMAIN P
             /\ ReachedAt(Q, s.start, more) = ReachedAt(P, s.start, more \cap DOMAIN P)
  <2> HIDE DEF P, Q
  <2>1. P \in Seq(Position) /\ Q \in Seq(Position) /\ Begins(P, Q)
    BY <1>1 DEF P, Q
  <2>2. /\ First(more \cap DOMAIN P) \in more \cap DOMAIN P
        /\ First(more) = First(more \cap DOMAIN P)
    BY <1>9, <2>1, FirstStays
  <2>3. ReachedAt(Q, s.start, more) = ReachedAt(P, s.start, more \cap DOMAIN P)
    BY <1>9, <2>1, ReachedAtStays
  <2> QED
    BY <2>2, <2>3
<1>5. CASE a.type = "waypoint_reached"
  <2> DEFINE wp == waypoints[a.waypoint]
             hits == {i \in windowP : Near(P[i], wp)}
             more == {i \in windowQ : Near(Q[i], wp)}
  <2>1. a.waypoint \in DOMAIN waypoints
    BY <1>2, <1>5 DEF Evaluated
  <2>2. /\ Evaluated(a, waypoints, s) = ReachedAt(P, s.start, hits)
        /\ Evaluated(a, waypoints, t) = ReachedAt(Q, s.start, more)
    BY <1>1, <1>5, <2>1 DEF Evaluated, check_waypoint_reached
  <2>3. hits = more \cap DOMAIN P /\ more \in SUBSET DOMAIN Q
    BY <1>3, <1>4
  <2> HIDE DEF hits, more
  <2>4. hits # {}
    BY <1>2, <2>2 DEF ReachedAt
  <2> QED
    BY <1>9, <2>2, <2>3, <2>4
<1>6. CASE a.type = "altitude_reached"
  <2> DEFINE hits == {i \in windowP : Distance(P[i].alt, a.altitude) <= a.tolerance}
             more == {i \in windowQ : Distance(Q[i].alt, a.altitude) <= a.tolerance}
  <2>1. /\ Evaluated(a, waypoints, s) = ReachedAt(P, s.start, hits)
        /\ Evaluated(a, waypoints, t) = ReachedAt(Q, s.start, more)
    BY <1>1, <1>6 DEF Evaluated, check_altitude_reached
  <2>2. hits = more \cap DOMAIN P /\ more \in SUBSET DOMAIN Q
    BY <1>3, <1>4
  <2> HIDE DEF hits, more
  <2>3. hits # {}
    BY <1>2, <2>1 DEF ReachedAt
  <2> QED
    BY <1>9, <2>1, <2>2, <2>3
<1>7. CASE a.type = "landed"
  <2> DEFINE S == s.statuses
             T == t.statuses
             hits == Landings(S, s.start, a.timeout)
             more == Landings(T, s.start, a.timeout)
  <2>1. /\ Evaluated(a, waypoints, s) = ReachedAt(S, s.start, hits)
        /\ Evaluated(a, waypoints, t) = ReachedAt(T, s.start, more)
    BY <1>1, <1>7 DEF Evaluated, check_landed, Landings
  <2>2. hits = more \cap DOMAIN S /\ more \in SUBSET DOMAIN T
    BY <1>1, LandingsStay
  <2>3. S \in Seq(Status) /\ T \in Seq(Status) /\ Begins(S, T)
    BY <1>1
  <2> HIDE DEF hits, more, S, T
  <2>4. more \cap DOMAIN S # {}
    BY <1>2, <2>1, <2>2 DEF ReachedAt
  <2>5. ReachedAt(T, s.start, more) = ReachedAt(S, s.start, more \cap DOMAIN S)
    BY <2>2, <2>3, <2>4, ReachedAtStays
  <2> QED
    BY <2>1, <2>2, <2>5
<1>8. CASE a.type = "segment_timing"
  <2> DEFINE from == waypoints[a.from]
             to == waypoints[a.to]
             froms == {i \in DOMAIN P : Near(P[i], from)}
             fromsQ == {i \in DOMAIN Q : Near(Q[i], from)}
             left == P[First(froms)].time
             leftQ == Q[First(fromsQ)].time
             tos == {i \in DOMAIN P : P[i].time >= left /\ Near(P[i], to)}
             tosQ == {i \in DOMAIN Q : Q[i].time >= leftQ /\ Near(Q[i], to)}
  <2>1. {a.from, a.to} \subseteq DOMAIN waypoints
    BY <1>2, <1>8 DEF Evaluated
  <2>2. /\ froms # {} /\ tos # {} /\ ~(P[First(tos)].time - left > a.max_duration)
        /\ Evaluated(a, waypoints, s) = ReachedAt(P, s.start, tos)
    BY <1>2, <1>8, <2>1 DEF Evaluated, check_segment_timing
  <2>3. froms = fromsQ \cap DOMAIN P /\ fromsQ \in SUBSET DOMAIN Q
    BY <1>1, <1>4 DEF Begins
  <2>4. First(fromsQ) = First(froms) /\ First(froms) \in froms
    <3> HIDE DEF froms, fromsQ
    <3> QED
      BY <1>9, <2>2, <2>3
  <2>5. leftQ = left
    BY <1>4, <2>4
  <2>6. tos = tosQ \cap DOMAIN P /\ tosQ \in SUBSET DOMAIN Q
    <3> HIDE DEF left, leftQ
    <3> QED
      BY <1>1, <1>4, <2>5 DEF Begins
  <2>7. /\ First(tosQ) = First(tos) /\ First(tos) \in tos
        /\ ReachedAt(Q, s.start, tosQ) = ReachedAt(P, s.start, tos)
    <3> HIDE DEF tos, tosQ
    <3> QED
      BY <1>9, <2>2, <2>6
  <2>8. Q[First(tosQ)].time = P[First(tos)].time
    BY <1>4, <2>7
  <2>9. ~(Q[First(tosQ)].time - leftQ > a.max_duration)
    BY <2>2, <2>5, <2>8
  <2>10. fromsQ # {} /\ tosQ # {}
    BY <2>2, <2>3, <2>6
  <2>11. Evaluated(a, waypoints, t) = ReachedAt(Q, s.start, tosQ)
    BY <1>1, <1>8, <2>1, <2>9, <2>10 DEF Evaluated, check_segment_timing
  <2> QED
    BY <2>2, <2>7, <2>11
<1> QED
  BY <1>5, <1>6, <1>7, <1>8 DEF Reaching

\* A limit found exceeded stays exceeded, unless what was found is that there
\* was no attitude.
LEMMA ExceededStays ==
  ASSUME NEW a \in Assertion, a.type \notin Reaching, NEW s \in Store, NEW t \in Store,
         Earlier(s, t), ~Evaluated(a, waypoints, s).passed,
         ~(a.type = "max_tilt" /\ s.attitudes = <<>>)
  PROVE  Evaluated(a, waypoints, t) = Evaluated(a, waypoints, s)
<1>1. /\ s.positions \in Seq(Position) /\ t.positions \in Seq(Position)
      /\ s.attitudes \in Seq(Attitude) /\ t.attitudes \in Seq(Attitude)
      /\ Begins(s.positions, t.positions) /\ Begins(s.attitudes, t.attitudes)
      /\ s.start = t.start
  BY StoreFields DEF Earlier
<1>2. \A broken \in BOOLEAN : ~HeldUnless(broken).passed => broken
  BY DEF HeldUnless, Held
<1>3. HeldUnless(TRUE) = Failed
  BY DEF HeldUnless
<1> DEFINE P == s.positions
           Q == t.positions
           windowP == Visited(P, s.start, a.timeout)
           windowQ == Visited(Q, s.start, a.timeout)
<1>4. windowP = windowQ \cap DOMAIN P
  BY <1>1, VisitedStays
<1>5. \A i \in DOMAIN P : Q[i] = P[i]
  BY <1>1 DEF Begins
<1>6. CASE a.type = "geofence"
  <2> DEFINE broken == \E i \in windowP : Outside(P[i], a)
             brokenQ == \E i \in windowQ : Outside(Q[i], a)
  <2>1. /\ Evaluated(a, waypoints, s) = HeldUnless(broken)
        /\ Evaluated(a, waypoints, t) = HeldUnless(brokenQ)
    BY <1>1, <1>6, Geofence
  <2>2. broken => brokenQ
    BY <1>4, <1>5
  <2>3. broken \in BOOLEAN /\ brokenQ \in BOOLEAN
    OBVIOUS
  <2> HIDE DEF broken, brokenQ
  <2> QED
    BY <1>2, <2>1, <2>2, <2>3
<1>7. CASE a.type = "max_ground_speed"
  <2> DEFINE broken == \E i \in windowP : P[i].speed > a.max_speed
             brokenQ == \E i \in windowQ : Q[i].speed > a.max_speed
  <2>1. /\ Evaluated(a, waypoints, s) = HeldUnless(broken)
        /\ Evaluated(a, waypoints, t) = HeldUnless(brokenQ)
    BY <1>1, <1>7 DEF Evaluated, check_max_ground_speed
  <2>2. broken => brokenQ
    BY <1>4, <1>5
  <2>3. broken \in BOOLEAN /\ brokenQ \in BOOLEAN
    OBVIOUS
  <2> HIDE DEF broken, brokenQ
  <2> QED
    BY <1>2, <2>1, <2>2, <2>3
<1>8. CASE a.type = "max_tilt"
  <2> DEFINE S == s.attitudes
             T == t.attitudes
             broken == S = <<>> \/ \E i \in Visited(S, s.start, a.timeout) :
                                     S[i].tilt > a.max_degrees
             brokenQ == T = <<>> \/ \E i \in Visited(T, s.start, a.timeout) :
                                      T[i].tilt > a.max_degrees
  <2>1. /\ Evaluated(a, waypoints, s) = HeldUnless(broken)
        /\ Evaluated(a, waypoints, t) = HeldUnless(brokenQ)
    BY <1>1, <1>8 DEF Evaluated, check_max_tilt
  <2>2. Visited(S, s.start, a.timeout) = Visited(T, s.start, a.timeout) \cap DOMAIN S
    BY <1>1, VisitedStays
  <2>3. \A i \in DOMAIN S : T[i] = S[i]
    BY <1>1 DEF Begins
  <2>4. broken => brokenQ
    BY <1>8, <2>2, <2>3
  <2>5. broken \in BOOLEAN /\ brokenQ \in BOOLEAN
    OBVIOUS
  <2> HIDE DEF broken, brokenQ
  <2> QED
    BY <1>2, <2>1, <2>4, <2>5
<1>9. CASE a.type = "min_separation"
  BY <1>9 DEF Evaluated
<1> QED
  BY <1>6, <1>7, <1>8, <1>9, AssertionFields DEF Reaching

----------------------------------------------------------------------------
(* Counts and documents                                                    *)

\* The units of the naturals a sum adds up.
Units(f) == UNION {{i} \X (1..f[i]) : i \in DOMAIN f}

LEMMA UnitsFinite ==
  ASSUME NEW n \in Nat, NEW f \in [1..n -> Nat]
  PROVE  IsFiniteSet(Units(f)) /\ Sum(f) \in Nat
<1> DEFINE piece == [i \in 1..n |-> {i} \X (1..f[i])]
           pieces == {{i} \X (1..f[i]) : i \in DOMAIN f}
<1>1. IsFiniteSet(1..n)
  BY FS_Interval
<1>2. piece \in Surjection(1..n, pieces)
  BY DEF Surjection
<1>3. IsFiniteSet(pieces)
  <2> HIDE DEF piece, pieces
  <2> QED
    BY <1>1, <1>2, FS_Surjection
<1>4. ASSUME NEW i \in 1..n
      PROVE  IsFiniteSet({i} \X (1..f[i]))
  <2>1. f[i] \in Nat
    OBVIOUS
  <2>2. IsFiniteSet({i})
    BY FS_Singleton
  <2>3. IsFiniteSet(1..f[i])
    BY <2>1, FS_Interval
  <2> QED
    BY <2>2, <2>3, FS_Product
<1>5. \A T \in pieces : IsFiniteSet(T)
  BY <1>4
<1>6. IsFiniteSet(UNION pieces)
  <2> HIDE DEF pieces
  <2> QED
    BY <1>3, <1>5, FS_UNION
<1> QED
  BY <1>6, FS_CardinalityType DEF Units, Sum

\* A sum is that of all but the last, and the last.
LEMMA SumOneMore ==
  ASSUME NEW n \in Nat, NEW f \in [1..(n + 1) -> Nat]
  PROVE  Sum(f) = Sum([i \in 1..n |-> f[i]]) + f[n + 1]
<1> DEFINE g == [i \in 1..n |-> f[i]]
           last == {n + 1} \X (1..f[n + 1])
<1>1. g \in [1..n -> Nat] /\ f[n + 1] \in Nat
  OBVIOUS
<1>2. IsFiniteSet(Units(g)) /\ Sum(g) \in Nat
  BY <1>1, UnitsFinite
<1>3. IsFiniteSet(last) /\ Cardinality(last) = f[n + 1]
  <2>1. IsFiniteSet({n + 1}) /\ Cardinality({n + 1}) = 1
    BY FS_Singleton
  <2>2. IsFiniteSet(1..f[n + 1]) /\ Cardinality(1..f[n + 1]) = f[n + 1]
    BY <1>1, FS_Interval
  <2>3. IsFiniteSet(last) /\ Cardinality(last) = 1 * f[n + 1]
    BY <2>1, <2>2, FS_Product
  <2> QED
    BY <1>1, <2>3
<1>4. Units(f) = Units(g) \cup last
  <2>1. \A u : u \in Units(f) <=> \E i \in 1..(n + 1) : u \in {i} \X (1..f[i])
    BY DEF Units
  <2>2. \A u : u \in Units(g) <=> \E i \in 1..n : u \in {i} \X (1..f[i])
    BY DEF Units
  <2>3. 1..(n + 1) = 1..n \cup {n + 1}
    OBVIOUS
  <2> QED
    BY <2>1, <2>2, <2>3
<1>5. Units(g) \cap last = {}
  <2>1. ASSUME NEW u \in Units(g), u \in last
        PROVE  FALSE
    <3>1. PICK i \in 1..n : u \in {i} \X (1..f[i])
      BY DEF Units
    <3>2. u[1] = i /\ u[1] = n + 1
      BY <2>1, <3>1
    <3> QED
      BY <3>1, <3>2
  <2> QED
    BY <2>1
<1>6. Cardinality(Units(f)) = Cardinality(Units(g)) + Cardinality(last)
  <2> HIDE DEF g, last
  <2>1. Cardinality(Units(g)) \in Nat /\ Cardinality(last) \in Nat
    BY <1>2, <1>3, FS_CardinalityType
  <2>2. Cardinality(Units(f))
          = Cardinality(Units(g)) + Cardinality(last) - Cardinality({})
    BY <1>2, <1>3, <1>4, <1>5, FS_Union
  <2> QED
    BY <2>1, <2>2, FS_EmptySet
<1> QED
  BY <1>3, <1>6 DEF Sum, Units

\* Those that do not pass are the rest, and there are none if and only if all pass.
LEMMA FailedCount ==
  ASSUME NEW rs \in Seq(AssertionResult)
  PROVE  LET failed == {i \in DOMAIN rs : ~rs[i].passed}
         IN  /\ DOMAIN rs \ Passing(rs) = failed
             /\ Cardinality(failed) \in Nat
             /\ Len(rs) - Cardinality(Passing(rs)) = Cardinality(failed)
             /\ Cardinality(failed) = 0 <=> \A i \in DOMAIN rs : rs[i].passed
             /\ Passing(rs) = DOMAIN rs <=> \A i \in DOMAIN rs : rs[i].passed
<1> DEFINE failed == {i \in DOMAIN rs : ~rs[i].passed}
<1>1. IsFiniteSet(DOMAIN rs) /\ Cardinality(DOMAIN rs) = Len(rs)
  <2>1. DOMAIN rs = 1..Len(rs) /\ Len(rs) \in Nat
    OBVIOUS
  <2> QED
    BY <2>1, FS_Interval
<1>2. DOMAIN rs \ Passing(rs) = failed /\ DOMAIN rs \cap Passing(rs) = Passing(rs)
  BY DEF Passing
<1>3. IsFiniteSet(failed)
        /\ Cardinality(failed) = Len(rs) - Cardinality(Passing(rs))
  BY <1>1, <1>2, FS_Difference
<1>4. Cardinality(failed) \in Nat
  BY <1>3, FS_CardinalityType
<1>5. Cardinality(failed) = 0 <=> failed = {}
  BY <1>3, FS_EmptySet
<1>6. failed = {} <=> \A i \in DOMAIN rs : rs[i].passed
  OBVIOUS
<1>7. Passing(rs) = DOMAIN rs <=> \A i \in DOMAIN rs : rs[i].passed
  BY DEF Passing
<1> HIDE DEF failed
<1> QED
  BY <1>2, <1>3, <1>4, <1>5, <1>6, <1>7 DEF failed

\* A report's counts are those of its assertions.
Tallies(r) ==
  /\ r.assertions \in Seq(AssertionResult)
  /\ r.total = Len(r.assertions)
  /\ r.failed_count = Cardinality({i \in DOMAIN r.assertions : ~r.assertions[i].passed})
  /\ r.failed_count \in Nat
  /\ r.passed \in BOOLEAN
  /\ r.passed <=> r.failed_count = 0
  /\ r.passed <=> \A i \in DOMAIN r.assertions : r.assertions[i].passed

LEMMA ReportTallies ==
  ASSUME NEW store, NEW rs \in Seq(AssertionResult)
  PROVE  Tallies(Report(store, waypoints, rs))
BY FailedCount DEF Report, Tallies

LEMMA TestsuiteDeclares ==
  ASSUME NEW rs \in Seq(AssertionResult), NEW total, NEW failures, total = Len(rs),
         failures = Cardinality({i \in DOMAIN rs : ~rs[i].passed})
  PROVE  DeclaresItsCases(Testsuite(total, failures, rs))
<1> DEFINE cases == [i \in DOMAIN rs |-> rs[i].passed]
<1>1. DOMAIN cases = 1..Len(rs) /\ Len(cases) = Len(rs)
  OBVIOUS
<1>2. {i \in DOMAIN cases : ~cases[i]} = {i \in DOMAIN rs : ~rs[i].passed}
  OBVIOUS
<1> QED
  BY <1>1, <1>2 DEF DeclaresItsCases, Testsuite

LEMMA TestsuiteOfDeclares ==
  ASSUME NEW r, Tallies(r)
  PROVE  /\ DeclaresItsCases(TestsuiteOf(r))
         /\ TestsuiteOf(r).tests = r.total /\ r.total \in Nat
         /\ TestsuiteOf(r).failures = r.failed_count
<1>1. DeclaresItsCases(TestsuiteOf(r))
  BY TestsuiteDeclares DEF Tallies, TestsuiteOf
<1>2. r.total \in Nat
  BY DEF Tallies
<1> QED
  BY <1>1, <1>2 DEF TestsuiteOf, Testsuite

LEMMA ResultFields ==
  \A r \in AssertionResult : r.passed \in BOOLEAN /\ r.elapsed \in Nat \cup {NoTime}
BY DEF AssertionResult

\* A table without a failed row is that of a report that passed.
LEMMA SectionRows ==
  ASSUME NEW r, Tallies(r)
  PROVE  Section(r).failed = 0 /\ FALSE \notin Range(Section(r).rows) <=> r.passed
<1>1. \A i \in DOMAIN r.assertions : r.assertions[i].passed \in BOOLEAN
  BY ResultFields DEF Tallies
<1>2. FALSE \notin Range(Section(r).rows)
        <=> \A i \in DOMAIN r.assertions : r.assertions[i].passed
  BY <1>1 DEF Section, Rows, Range
<1>3. Section(r).failed = r.failed_count
  BY DEF Section
<1> QED
  BY <1>2, <1>3 DEF Tallies

LEMMA RowsOfResults ==
  ASSUME NEW rs \in Seq(AssertionResult)
  PROVE  FALSE \notin Range(Rows(rs)) <=> \A i \in DOMAIN rs : rs[i].passed
<1>1. \A i \in DOMAIN rs : rs[i].passed \in BOOLEAN
  BY ResultFields
<1> QED
  BY <1>1 DEF Rows, Range

----------------------------------------------------------------------------
(* The documents of one scenario, of a suite and of a fleet                *)

AllTally(reports_) == \A i \in DOMAIN reports_ : Tallies(reports_[i])

LEMMA OneScenarioAgrees ==
  ASSUME NEW r, Tallies(r)
  PROVE  /\ Agree(r.passed, render_junit(r), render_markdown(r))
         /\ NoFailedRow(render_markdown(r)) = render_markdown(r).result
<1>1. r.passed \in BOOLEAN /\ (r.passed <=> r.failed_count = 0)
  BY DEF Tallies
<1>2. /\ render_junit(r).suites = <<TestsuiteOf(r)>>
      /\ render_markdown(r).sections = <<Section(r)>>
      /\ render_markdown(r).result = r.passed
  BY DEF render_junit, render_markdown
<1>3. NoFailures(render_junit(r)) <=> r.passed
  BY <1>1, <1>2, TestsuiteOfDeclares DEF NoFailures
<1>4. NoFailedRow(render_markdown(r)) <=> r.passed
  <2>1. /\ DOMAIN render_markdown(r).sections = {1}
        /\ render_markdown(r).sections[1] = Section(r)
    BY <1>2
  <2>2. NoFailedRow(render_markdown(r))
          <=> Section(r).failed = 0 /\ FALSE \notin Range(Section(r).rows)
    BY <2>1 DEF NoFailedRow
  <2> QED
    BY <2>2, SectionRows
<1>5. \A i \in DOMAIN render_junit(r).suites : DeclaresItsCases(render_junit(r).suites[i])
  BY <1>2, TestsuiteOfDeclares
<1>6. NoFailures(render_junit(r)) \in BOOLEAN /\ NoFailedRow(render_markdown(r)) \in BOOLEAN
  BY DEF NoFailures, NoFailedRow
<1> QED
  BY <1>1, <1>2, <1>3, <1>4, <1>5, <1>6 DEF Agree

LEMMA SuiteAgrees ==
  ASSUME NEW R, NEW rs \in Seq(R), AllTally(rs)
  PROVE  LET report == SuiteReport(rs)
             junit  == render_suite_junit(report)
             md     == render_suite_markdown(report)
         IN  /\ Agree(report.all_passed, junit, md) /\ RootAddsUp(junit)
             /\ NoFailedRow(md) = md.result
<1> DEFINE report == SuiteReport(rs)
           junit == render_suite_junit(report)
           md == render_suite_markdown(report)
           passed == {i \in DOMAIN rs : rs[i].passed}
           AllPassed == \A i \in DOMAIN rs : rs[i].passed
<1>1. /\ report.scenarios = rs
      /\ report.all_passed = (Cardinality(passed) = Len(rs))
  BY DEF SuiteReport
<1>2. report.all_passed = AllPassed
  <2>1. DOMAIN rs = 1..Len(rs) /\ Len(rs) \in Nat
    OBVIOUS
  <2>2. IsFiniteSet(DOMAIN rs) /\ Cardinality(DOMAIN rs) = Len(rs)
    BY <2>1, FS_Interval
  <2>3. Cardinality(passed) = Len(rs) <=> passed = DOMAIN rs
    <3>1. passed \in SUBSET DOMAIN rs
      OBVIOUS
    <3> HIDE DEF passed
    <3> QED
      BY <2>2, <3>1, FS_Subset
  <2> QED
    BY <1>1, <2>3
<1>3. /\ junit.suites = [i \in DOMAIN rs |-> TestsuiteOf(rs[i])]
      /\ junit.tests = TotalTests(rs)
      /\ junit.failures = TotalFailures(rs)
  BY <1>1 DEF render_suite_junit, Testsuites
<1>4. /\ md.sections = [i \in DOMAIN rs |-> Section(rs[i])]
      /\ md.result = report.all_passed
  BY <1>1 DEF render_suite_markdown
<1> HIDE DEF report, junit, md
<1>5. \A i \in DOMAIN rs :
        /\ DeclaresItsCases(TestsuiteOf(rs[i]))
        /\ TestsuiteOf(rs[i]).tests = rs[i].total
        /\ TestsuiteOf(rs[i]).failures = rs[i].failed_count
        /\ rs[i].passed <=> rs[i].failed_count = 0
        /\ Section(rs[i]).failed = 0 /\ FALSE \notin Range(Section(rs[i]).rows) <=> rs[i].passed
  BY TestsuiteOfDeclares, SectionRows DEF AllTally, Tallies
<1>6. NoFailures(junit) = AllPassed
  <2>1. DOMAIN junit.suites = DOMAIN rs
          /\ \A i \in DOMAIN rs : junit.suites[i].failures = rs[i].failed_count
    BY <1>3, <1>5
  <2> QED
    BY <1>5, <2>1 DEF NoFailures
<1>7. NoFailedRow(md) = AllPassed
  <2>1. DOMAIN md.sections = DOMAIN rs /\ \A i \in DOMAIN rs : md.sections[i] = Section(rs[i])
    BY <1>4
  <2>2. NoFailedRow(md) <=>
          \A i \in DOMAIN rs : Section(rs[i]).failed = 0 /\ FALSE \notin Range(Section(rs[i]).rows)
    BY <2>1 DEF NoFailedRow
  <2>3. NoFailedRow(md) <=> AllPassed
    BY <1>5, <2>2
  <2>4. NoFailedRow(md) \in BOOLEAN
    BY DEF NoFailedRow
  <2> QED
    BY <2>3, <2>4
<1>8. RootAddsUp(junit)
  <2>1. [i \in DOMAIN junit.suites |-> junit.suites[i].tests] = [i \in DOMAIN rs |-> rs[i].total]
    BY <1>3, <1>5
  <2>2. [i \in DOMAIN junit.suites |-> junit.suites[i].failures]
          = [i \in DOMAIN rs |-> rs[i].failed_count]
    BY <1>3, <1>5
  <2> QED
    BY <1>3, <2>1, <2>2 DEF RootAddsUp, TotalTests, TotalFailures
<1>9. \A i \in DOMAIN junit.suites : DeclaresItsCases(junit.suites[i])
  BY <1>3, <1>5
<1>10. Agree(report.all_passed, junit, md)
  BY <1>2, <1>4, <1>6, <1>9 DEF Agree
<1> QED
  BY <1>2, <1>4, <1>7, <1>8, <1>10 DEF report, junit, md

\* One suite more, and one number more in each sum.
LEMMA RootWithOneMore ==
  ASSUME NEW R, NEW own \in Seq(R), NEW last \in R,
         \A x \in R : x.tests \in Nat /\ x.failures \in Nat,
         NEW tests, NEW failures,
         tests = Sum([i \in DOMAIN own |-> own[i].tests]) + last.tests,
         failures = Sum([i \in DOMAIN own |-> own[i].failures]) + last.failures
  PROVE  RootAddsUp(Testsuites(tests, failures, own \o <<last>>))
<1> DEFINE n == Len(own)
           all == own \o <<last>>
           Tests == [i \in 1..(n + 1) |-> all[i].tests]
           Failures == [i \in 1..(n + 1) |-> all[i].failures]
<1>1. n \in Nat /\ DOMAIN own = 1..n /\ DOMAIN all = 1..(n + 1)
  OBVIOUS
<1>2. all[n + 1] = last /\ \A i \in 1..n : all[i] = own[i] /\ own[i] \in R
  OBVIOUS
<1> HIDE DEF n, all
<1>3. Tests \in [1..(n + 1) -> Nat] /\ Failures \in [1..(n + 1) -> Nat]
  <2>1. \A i \in 1..(n + 1) : i \in 1..n \/ i = n + 1
    BY <1>1
  <2>2. \A i \in 1..(n + 1) : all[i] \in R
    BY <1>2, <2>1
  <2> QED
    BY <2>2
<1>4. /\ [i \in 1..n |-> Tests[i]] = [i \in DOMAIN own |-> own[i].tests]
      /\ [i \in 1..n |-> Failures[i]] = [i \in DOMAIN own |-> own[i].failures]
      /\ Tests[n + 1] = last.tests /\ Failures[n + 1] = last.failures
  BY <1>1, <1>2
<1> HIDE DEF Tests, Failures
<1>5. Sum(Tests) = tests
  BY <1>1, <1>3, <1>4, SumOneMore
<1>6. Sum(Failures) = failures
  BY <1>1, <1>3, <1>4, SumOneMore
<1> DEFINE doc == Testsuites(tests, failures, all)
<1>7. doc.tests = tests /\ doc.failures = failures /\ doc.suites = all
  BY DEF Testsuites
<1> HIDE DEF doc
<1>8. /\ [i \in DOMAIN doc.suites |-> doc.suites[i].tests] = Tests
      /\ [i \in DOMAIN doc.suites |-> doc.suites[i].failures] = Failures
  BY <1>1, <1>7 DEF Tests, Failures
<1>9. RootAddsUp(doc)
  BY <1>5, <1>6, <1>7, <1>8 DEF RootAddsUp
<1> QED
  BY <1>9 DEF doc, all

LEMMA TotalsType ==
  ASSUME NEW R, NEW rs \in Seq(R),
         \A i \in DOMAIN rs : rs[i].total \in Nat /\ rs[i].failed_count \in Nat
  PROVE  TotalTests(rs) \in Nat /\ TotalFailures(rs) \in Nat
<1>1. DOMAIN rs = 1..Len(rs) /\ Len(rs) \in Nat
  OBVIOUS
<1>2. /\ [i \in DOMAIN rs |-> rs[i].total] \in [1..Len(rs) -> Nat]
      /\ [i \in DOMAIN rs |-> rs[i].failed_count] \in [1..Len(rs) -> Nat]
  BY <1>1
<1> QED
  BY <1>1, <1>2, UnitsFinite DEF TotalTests, TotalFailures

LEMMA FleetAgrees ==
  ASSUME NEW R, NEW rs \in Seq(R), AllTally(rs), NEW between \in Seq(AssertionResult)
  PROVE  LET report == MultiVehicleReport(rs, between)
             junit  == render_multi_vehicle_junit(report)
             md     == render_multi_vehicle_markdown(report)
         IN  /\ Agree(report.all_passed, junit, md) /\ RootAddsUp(junit)
             /\ (NoFailedRow(md) /\ FALSE \notin Range(md.inter)) = md.result
<1> DEFINE report == MultiVehicleReport(rs, between)
           junit == render_multi_vehicle_junit(report)
           md == render_multi_vehicle_markdown(report)
           failures == Cardinality(DOMAIN between \ Passing(between))
           own == [i \in DOMAIN rs |-> TestsuiteOf(rs[i])]
           last == Testsuite(Len(between), failures, between)
           suites == IF between = <<>> THEN own ELSE own \o <<last>>
           AllPassed == \A i \in DOMAIN rs : rs[i].passed
           NoneBetween == \A i \in DOMAIN between : between[i].passed
           Suites == {own[i] : i \in DOMAIN own} \cup {last}
           JUnitAgrees ==
             /\ \A i \in DOMAIN junit.suites : DeclaresItsCases(junit.suites[i])
             /\ NoFailures(junit) = (AllPassed /\ NoneBetween)
             /\ RootAddsUp(junit)
<1>1. /\ report.vehicles = rs /\ report.inter_vehicle_assertions = between
      /\ report.all_passed = (AllPassed /\ Passing(between) = DOMAIN between)
  BY DEF MultiVehicleReport
<1>2. /\ DOMAIN between \ Passing(between) = {i \in DOMAIN between : ~between[i].passed}
      /\ failures \in Nat
      /\ failures = 0 <=> NoneBetween
      /\ Passing(between) = DOMAIN between <=> NoneBetween
  BY FailedCount
<1>3. report.all_passed = (AllPassed /\ NoneBetween)
  BY <1>1, <1>2
<1>4. junit = Testsuites(TotalTests(rs) + Len(between), TotalFailures(rs) + failures, suites)
  BY <1>1 DEF render_multi_vehicle_junit
<1>5. /\ md.sections = [i \in DOMAIN rs |-> Section(rs[i])]
      /\ md.result = report.all_passed
      /\ md.inter = Rows(between)
  BY <1>1 DEF render_multi_vehicle_markdown
<1>6. /\ DeclaresItsCases(last)
      /\ last.tests = Len(between) /\ last.failures = failures
  BY <1>2, TestsuiteDeclares DEF Testsuite
<1>7. \A i \in DOMAIN rs :
        /\ DeclaresItsCases(TestsuiteOf(rs[i]))
        /\ TestsuiteOf(rs[i]).tests = rs[i].total /\ rs[i].total \in Nat
        /\ TestsuiteOf(rs[i]).failures = rs[i].failed_count /\ rs[i].failed_count \in Nat
        /\ rs[i].passed <=> rs[i].failed_count = 0
        /\ Section(rs[i]).failed = 0 /\ FALSE \notin Range(Section(rs[i]).rows) <=> rs[i].passed
  BY TestsuiteOfDeclares, SectionRows DEF AllTally, Tallies
<1>8. /\ DOMAIN own = 1..Len(rs) /\ Len(own) = Len(rs) /\ Len(rs) \in Nat
      /\ DOMAIN rs = 1..Len(rs)
      /\ \A i \in 1..Len(rs) : own[i] = TestsuiteOf(rs[i])
      /\ own \in Seq(Suites) /\ last \in Suites
  <2> HIDE DEF last
  <2> QED
    OBVIOUS
<1> HIDE DEF report, junit, md, failures, own, last
<1>9. ASSUME between = <<>>
      PROVE  JUnitAgrees
  <2>1. suites = own /\ Len(between) = 0 /\ NoneBetween /\ failures = 0
    BY <1>2, <1>9
  <2>2. junit.suites = own
    BY <1>4, <2>1 DEF Testsuites
  <2>3. \A i \in DOMAIN junit.suites : DeclaresItsCases(junit.suites[i])
    BY <1>7, <1>8, <2>2
  <2>4. NoFailures(junit) = (AllPassed /\ NoneBetween)
    <3>1. NoFailures(junit) <=> AllPassed
      <4>1. NoFailures(junit) <=> \A i \in 1..Len(rs) : TestsuiteOf(rs[i]).failures = 0
        BY <1>8, <2>2 DEF NoFailures
      <4> QED
        BY <1>7, <1>8, <4>1
    <3>2. NoFailures(junit) \in BOOLEAN
      BY DEF NoFailures
    <3> QED
      BY <2>1, <3>1, <3>2
  <2>5. RootAddsUp(junit)
    <3>1. /\ [i \in DOMAIN own |-> own[i].tests] = [i \in DOMAIN rs |-> rs[i].total]
          /\ [i \in DOMAIN own |-> own[i].failures] = [i \in DOMAIN rs |-> rs[i].failed_count]
      BY <1>7, <1>8
    <3>2. TotalTests(rs) \in Nat /\ TotalFailures(rs) \in Nat
      BY <1>7, <1>8, TotalsType
    <3>3. junit.tests = TotalTests(rs) /\ junit.failures = TotalFailures(rs)
      BY <1>4, <2>1, <3>2 DEF Testsuites
    <3> QED
      BY <2>2, <3>1, <3>3 DEF RootAddsUp, TotalTests, TotalFailures
  <2> QED
    BY <2>3, <2>4, <2>5
<1>10. ASSUME between # <<>>
       PROVE  JUnitAgrees
  <2> DEFINE all == own \o <<last>>
  <2>2. \A x \in Suites : x.tests \in Nat /\ x.failures \in Nat
    <3>1. last.tests \in Nat /\ last.failures \in Nat
      <4>1. Len(between) \in Nat
        OBVIOUS
      <4> QED
        BY <1>2, <1>6, <4>1
    <3>2. \A i \in DOMAIN own : own[i].tests \in Nat /\ own[i].failures \in Nat
      BY <1>7, <1>8
    <3> QED
      BY <3>1, <3>2
  <2>3. junit = Testsuites(TotalTests(rs) + Len(between), TotalFailures(rs) + failures, all)
    BY <1>4, <1>10
  <2>4. /\ junit.suites = all
        /\ DOMAIN all = 1..(Len(rs) + 1)
        /\ \A i \in 1..Len(rs) : all[i] = TestsuiteOf(rs[i])
        /\ all[Len(rs) + 1] = last
    <3>1. junit.suites = all
      BY <2>3 DEF Testsuites
    <3>2. own \in Seq(Suites) /\ last \in Suites
      BY <1>8
    <3> HIDE DEF Suites
    <3>3. /\ DOMAIN all = 1..(Len(own) + 1)
          /\ \A i \in 1..Len(own) : all[i] = own[i]
          /\ all[Len(own) + 1] = last
      BY <3>2
    <3> QED
      BY <1>8, <3>1, <3>3
  <2>5. \A i \in DOMAIN all : i \in 1..Len(rs) \/ i = Len(rs) + 1
    BY <1>8, <2>4
  <2> HIDE DEF all, Suites
  <2>6. \A i \in DOMAIN junit.suites : DeclaresItsCases(junit.suites[i])
    <3>1. ASSUME NEW i \in DOMAIN all
          PROVE  DeclaresItsCases(all[i])
      <4>1. CASE i \in 1..Len(rs)
        BY <1>7, <1>8, <2>4, <4>1
      <4>2. CASE i = Len(rs) + 1
        BY <1>6, <2>4, <4>2
      <4> QED
        BY <2>5, <4>1, <4>2
    <3> QED
      BY <2>4, <3>1
  <2>7. NoFailures(junit) = (AllPassed /\ NoneBetween)
    <3>1. NoFailures(junit) <=>
            (\A i \in 1..Len(rs) : TestsuiteOf(rs[i]).failures = 0) /\ last.failures = 0
      <4>1. Len(rs) + 1 \in DOMAIN all /\ 1..Len(rs) \subseteq DOMAIN all
        BY <1>8, <2>4
      <4> QED
        BY <2>4, <2>5, <4>1 DEF NoFailures
    <3>2. NoFailures(junit) <=> AllPassed /\ NoneBetween
      BY <1>2, <1>6, <1>7, <1>8, <3>1
    <3>3. NoFailures(junit) \in BOOLEAN
      BY DEF NoFailures
    <3> QED
      BY <3>2, <3>3
  <2>8. RootAddsUp(junit)
    <3>1. /\ [i \in DOMAIN own |-> own[i].tests] = [i \in DOMAIN rs |-> rs[i].total]
          /\ [i \in DOMAIN own |-> own[i].failures] = [i \in DOMAIN rs |-> rs[i].failed_count]
      BY <1>7, <1>8
    <3>2. /\ TotalTests(rs) + Len(between) = Sum([i \in DOMAIN own |-> own[i].tests]) + last.tests
          /\ TotalFailures(rs) + failures
               = Sum([i \in DOMAIN own |-> own[i].failures]) + last.failures
      BY <1>6, <3>1 DEF TotalTests, TotalFailures
    <3> QED
      BY <1>8, <2>2, <2>3, <3>2, RootWithOneMore DEF all
  <2> QED
    BY <2>6, <2>7, <2>8
<1>11. NoFailedRow(md) <=> AllPassed
  <2>1. DOMAIN md.sections = DOMAIN rs /\ \A i \in DOMAIN rs : md.sections[i] = Section(rs[i])
    BY <1>5
  <2>2. NoFailedRow(md) <=>
          \A i \in DOMAIN rs : Section(rs[i]).failed = 0 /\ FALSE \notin Range(Section(rs[i]).rows)
    BY <2>1 DEF NoFailedRow
  <2> QED
    BY <1>7, <2>2
<1>12. FALSE \notin Range(md.inter) <=> NoneBetween
  BY <1>5, RowsOfResults
<1>13. (NoFailedRow(md) /\ FALSE \notin Range(md.inter)) = md.result
  BY <1>3, <1>5, <1>11, <1>12
<1>14. JUnitAgrees
  BY <1>9, <1>10
<1>15. Agree(report.all_passed, junit, md) /\ RootAddsUp(junit)
  BY <1>3, <1>5, <1>14 DEF Agree
<1> QED
  BY <1>13, <1>15 DEF report, junit, md

----------------------------------------------------------------------------
(* What a later report says of an earlier verdict                          *)

\* The first landing in the window is the first in all of the history, for
\* whatever comes before it is in the window too: the flight ends there.
LEMMA FlightEndsAtLanding ==
  ASSUME NEW a \in Assertion, a.type = "landed", NEW early \in Store, NEW late \in Store,
         Earlier(early, late), NEW until, Orderly(late, until),
         Evaluated(a, waypoints, early).passed
  PROVE  /\ FlightTime(late.statuses) \in Nat
         /\ FlightTime(late.statuses) <= Evaluated(a, waypoints, early).elapsed
<1> DEFINE S == early.statuses
           T == late.statuses
           start == early.start
           hits == Landings(S, start, a.timeout)
           h == First(hits)
           arms == {i \in DOMAIN T : T[i].armed}
           disarms == {i \in DOMAIN T : ~T[i].armed /\ \E j \in arms : j < i}
<1>1. /\ S \in Seq(Status) /\ T \in Seq(Status) /\ Begins(S, T)
      /\ start = late.start /\ start \in Nat
  BY StoreFields DEF Earlier
<1>2. hits # {} /\ Evaluated(a, waypoints, early) = ReachedAt(S, start, hits)
  BY Landed DEF Evaluated, check_landed, Landings
<1>3. /\ hits = Landings(T, start, a.timeout) \cap DOMAIN S
      /\ DOMAIN S \subseteq DOMAIN T /\ \A i \in DOMAIN S : T[i] = S[i]
      /\ DOMAIN T \subseteq Nat \ {0}
  <2>1. hits = Landings(T, start, a.timeout) \cap DOMAIN S
    BY <1>1, LandingsStay
  <2> QED
    BY <1>1, <2>1 DEF Begins
<1>4. h \in hits /\ \A i \in hits : h <= i
  <2>1. hits \in SUBSET Nat
    BY <1>3
  <2> HIDE DEF hits
  <2> QED
    BY <1>2, <2>1, FirstProperties
<1>5. \A i \in DOMAIN T :
        /\ T[i].time \in Nat /\ start <= T[i].time
        /\ \A j \in 1..i : T[j].time <= T[i].time
  <2>1. InOrder(T, start, until)
    BY <1>1 DEF Orderly
  <2>2. \A i \in DOMAIN T : T[i] \in Status
    BY <1>1
  <2>3. \A i \in DOMAIN T : T[i].time \in Nat
    BY <2>2, SampleFields
  <2> QED
    BY <2>1, <2>3 DEF InOrder
<1>6. Evaluated(a, waypoints, early).elapsed = Elapsed(start, T[h].time)
  <2>1. T[h] = S[h]
    BY <1>3, <1>4
  <2> HIDE DEF hits, h, S, T
  <2> QED
    BY <1>2, <2>1 DEF ReachedAt, h
<1>7. h \in DOMAIN T /\ ~T[h].armed /\ \E j \in 1..h : T[j].armed
  BY <1>3, <1>4 DEF Landings, Visited
<1> HIDE DEF hits, h
<1>8. \A i \in Nat \ {0} : \A j : j \in 1..i <=> j \in Nat \ {0} /\ j <= i
  OBVIOUS
<1>9. h \in disarms
  <2>1. PICK j \in 1..h : T[j].armed
    BY <1>7
  <2>2. j \in DOMAIN T /\ j # h /\ j <= h
    BY <1>1, <1>7, <2>1
  <2> QED
    BY <1>3, <1>7, <2>1, <2>2
<1>10. ASSUME NEW k \in disarms
       PROVE  h <= k
  <2>1. SUFFICES ASSUME k < h
                 PROVE  FALSE
    BY <1>3, <1>7
  <2>2. PICK j \in arms : j < k
    OBVIOUS
  <2>3. k \in DOMAIN S /\ k \in 1..h /\ j \in 1..k
    BY <1>1, <1>3, <1>4, <2>1, <2>2
  <2>4. h \in Visited(T, start, a.timeout)
    BY <1>3, <1>4 DEF Landings
  <2>5. 1..k \subseteq 1..h
    BY <1>3, <1>7, <2>3
  <2>6. k \in Visited(T, start, a.timeout)
    BY <2>4, <2>5 DEF Visited
  <2>7. k \in hits
    BY <1>3, <2>2, <2>3, <2>6 DEF Landings
  <2> QED
    BY <1>3, <1>4, <1>7, <2>1, <2>7
<1>11. First(disarms) = h
  <2>1. disarms \in SUBSET Nat
    BY <1>3
  <2> HIDE DEF disarms
  <2> QED
    BY <1>9, <1>10, <2>1, FirstIs
<1>12. PICK f \in DOMAIN T : f = First(arms) /\ f \in 1..h
  <2>1. arms # {} /\ arms \in SUBSET Nat
    BY <1>3, <1>9
  <2>2. First(arms) \in arms /\ \A i \in arms : First(arms) <= i
    <3> HIDE DEF arms
    <3> QED
      BY <2>1, FirstProperties
  <2>3. PICK j \in arms : j < h
    BY <1>9
  <2>4. First(arms) \in DOMAIN T /\ First(arms) <= j
    BY <2>2, <2>3
  <2>5. First(arms) \in Nat \ {0} /\ j \in Nat /\ h \in Nat
    BY <1>3, <1>7, <2>3, <2>4
  <2>6. First(arms) \in 1..h
    BY <2>3, <2>4, <2>5
  <2> QED
    BY <2>4, <2>6
<1>13. FlightTime(T) = T[h].time - T[f].time
  BY <1>9, <1>11, <1>12 DEF FlightTime
<1>14. /\ T[h].time \in Nat /\ T[f].time \in Nat
       /\ start <= T[f].time /\ T[f].time <= T[h].time
  BY <1>5, <1>7, <1>12
<1> HIDE DEF S, T, start
<1>15. T[h].time - T[f].time \in Nat /\ T[h].time - T[f].time <= Elapsed(start, T[h].time)
  BY <1>1, <1>14 DEF Elapsed
<1> QED
  BY <1>6, <1>13, <1>15 DEF T

\* A position further from every waypoint than some distance makes the greatest
\* deviation greater than that distance.
LEMMA DeviationShows ==
  ASSUME NEW P \in Seq(Position), NEW i \in DOMAIN P, waypoints # <<>>, NEW d \in Int,
         \A w \in DOMAIN waypoints : Distance(P[i].place, waypoints[w].place) > d
  PROVE  MaxPathDeviation(P, waypoints) \in Nat /\ MaxPathDeviation(P, waypoints) > d
<1> DEFINE To(p) == {Distance(p.place, w.place) : w \in Range(waypoints)}
           NearestTo(p) == {e \in To(p) : \A w \in Range(waypoints) : e <= Distance(p.place, w.place)}
           all == UNION {NearestTo(p) : p \in Range(P)}
           pairs == (DOMAIN P) \X (DOMAIN waypoints)
           from == [x \in pairs |-> Distance(P[x[1]].place, waypoints[x[2]].place)]
           distances == {from[x] : x \in pairs}
<1>1. \A k \in DOMAIN P : P[k].place \in Int
  BY SampleFields
<1>2. \A w \in DOMAIN waypoints : waypoints[w].place \in Int
  <2>1. \A w \in DOMAIN waypoints : waypoints[w] \in Waypoint
    BY WaypointsAssumption
  <2> QED
    BY <2>1 DEF Waypoint
<1>3. \A k \in DOMAIN P : To(P[k]) \in SUBSET Nat
  BY <1>1, <1>2, DistanceType DEF Range
<1>4. To(P[i]) # {}
  BY WaypointsAssumption DEF Range
<1>5. PICK e \in To(P[i]) : \A g \in To(P[i]) : e <= g
  <2> HIDE DEF To
  <2> QED
    BY <1>3, <1>4, FirstProperties
<1>6. e \in NearestTo(P[i]) /\ e > d
  BY <1>5 DEF Range
<1>7. e \in all
  BY <1>6 DEF Range
<1>8. all \in SUBSET Nat
  BY <1>3 DEF Range
<1>9. IsFiniteSet(all)
  <2>1. IsFiniteSet(DOMAIN P) /\ IsFiniteSet(DOMAIN waypoints)
    <3>1. DOMAIN P = 1..Len(P) /\ Len(P) \in Nat
      OBVIOUS
    <3>2. DOMAIN waypoints = 1..Len(waypoints) /\ Len(waypoints) \in Nat
      BY WaypointsAssumption
    <3> QED
      BY <3>1, <3>2, FS_Interval
  <2>2. IsFiniteSet(pairs)
    BY <2>1, FS_Product
  <2>3. from \in Surjection(pairs, distances)
    <3> HIDE DEF pairs
    <3> QED
      BY DEF Surjection
  <2>4. IsFiniteSet(distances)
    <3> HIDE DEF pairs, from, distances
    <3> QED
      BY <2>2, <2>3, FS_Surjection
  <2>5. all \in SUBSET distances
    <3>1. ASSUME NEW g \in all
          PROVE  g \in distances
      <4>1. PICK k \in DOMAIN P : g \in NearestTo(P[k])
        BY DEF Range
      <4>2. PICK w \in DOMAIN waypoints : g = Distance(P[k].place, waypoints[w].place)
        BY <4>1 DEF Range
      <4>3. PICK x \in pairs : x[1] = k /\ x[2] = w
        <5>1. <<k, w>> \in pairs /\ <<k, w>>[1] = k /\ <<k, w>>[2] = w
          OBVIOUS
        <5> QED
          BY <5>1
      <4>4. from[x] = g
        BY <4>2, <4>3
      <4> QED
        BY <4>3, <4>4
    <3> QED
      BY <3>1
  <2> HIDE DEF all, distances
  <2> QED
    BY <2>4, <2>5, FS_Subset
<1>10. PICK m \in all : \A g \in all : g <= m
  <2> HIDE DEF all
  <2> QED
    BY <1>7, <1>8, <1>9, GreatestExists
<1> DEFINE chosen == CHOOSE g \in all : \A x \in all : x <= g
<1>11. chosen \in all /\ \A x \in all : x <= chosen
  <2> HIDE DEF all
  <2> QED
    BY <1>10
<1>12. MaxPathDeviation(P, waypoints) = chosen
  BY <1>7 DEF MaxPathDeviation
<1> HIDE DEF all, chosen
<1>13. chosen \in Nat /\ e \in Nat /\ e <= chosen
  BY <1>7, <1>8, <1>11
<1> QED
  BY <1>6, <1>12, <1>13

----------------------------------------------------------------------------
(* Separation                                                              *)

LEMMA FoundApart ==
  ASSUME NEW a \in Assertion, a.type = "min_separation", NEW A \in Store, NEW B \in Store,
         NEW until, Orderly(A, until), ~TooClose(A, B, a),
         NEW i \in DOMAIN A.positions, NEW j \in DOMAIN B.positions,
         A.positions[i] \in Within(A.positions, A, a),
         B.positions[j].time = A.positions[i].time,
         ~\E k \in 1..(j - 1) : B.positions[k].time = A.positions[i].time
  PROVE  Distance(A.positions[i].place, B.positions[j].place) >= a.min_distance
<1> DEFINE P == A.positions
           Q == B.positions
           nearest == {k \in DOMAIN Q : \A l \in DOMAIN Q :
                         Distance(Q[k].time, P[i].time) <= Distance(Q[l].time, P[i].time)}
<1>1. /\ P \in Seq(Position) /\ Q \in Seq(Position) /\ A.start \in Nat
      /\ a.timeout \in Nat /\ a.min_distance \in Int
  BY AssertionFields, StoreFields
<1>2. /\ \A k \in DOMAIN Q : Q[k].time \in Nat /\ Q[k].place \in Int
      /\ P[i].time \in Nat /\ P[i].place \in Int
  BY <1>1, SampleFields
<1>3. i \in Visited(P, A.start, a.timeout)
  BY <1>1, WithinVisited, SampleFields DEF Orderly
<1>4. P # <<>> /\ Q # <<>>
  BY <1>1
<1>5. \A m, n \in Nat : Distance(m, n) \in Nat /\ (Distance(m, n) = 0 <=> m = n)
  BY DEF Distance
<1>6. nearest = {k \in DOMAIN Q : Q[k].time = P[i].time}
  <2>1. Distance(Q[j].time, P[i].time) = 0
    BY <1>2, <1>5
  <2>2. \A k \in DOMAIN Q : Distance(Q[k].time, P[i].time) \in Nat
    BY <1>2, <1>5
  <2>3. \A k \in DOMAIN Q : k \in nearest <=> Distance(Q[k].time, P[i].time) = 0
    BY <2>1, <2>2
  <2> QED
    BY <1>2, <1>5, <2>3
<1>7. First(nearest) = j
  <2>1. j \in nearest /\ nearest \in SUBSET Nat
    BY <1>1, <1>6
  <2>2. ASSUME NEW k \in nearest
        PROVE  j <= k
    <3>1. k \in Nat \ {0} /\ j \in Nat /\ ~(k \in 1..(j - 1))
      BY <1>1, <1>6
    <3> QED
      BY <3>1
  <2> HIDE DEF nearest
  <2> QED
    BY <2>1, <2>2, FirstIs
<1>8. Nearest(P[i], Q) = Q[j]
  BY <1>7 DEF Nearest
<1>9. ~(Distance(P[i].place, Q[j].place) < a.min_distance)
  BY <1>3, <1>4, <1>8 DEF TooClose
<1>10. Distance(P[i].place, Q[j].place) \in Nat
  BY <1>2, DistanceType
<1> QED
  BY <1>1, <1>9, <1>10

----------------------------------------------------------------------------
(* The inductive invariant                                                 *)

AnyReport == {Report(store, waypoints, rs) : store \in Store, rs \in Seq(AssertionResult)}

TypeOK ==
  /\ scenario \in Cases
  /\ now \in Nat
  /\ stores \in [Vehicles -> Store]
  /\ pc \in {"evaluate", "separate", "report", "done"}
  /\ results \in [Vehicles -> Seq(AssertionResult)]
  /\ inter \in Seq(AssertionResult)
  /\ checked \in Nat
  /\ reports \in Seq(AnyReport)

\* Where the run is says which results and which reports there are.
SoFar ==
  /\ \A v \in Vehicles : Len(results[v]) <= Len(plan)
  /\ pc # "evaluate" => \A v \in Vehicles : Len(results[v]) = Len(plan)
  /\ pc \in {"evaluate", "separate"} => reports = <<>>
  /\ pc = "report" => Len(reports) < Len(scenario.fleet)
  /\ pc = "done" => Len(reports) = Len(scenario.fleet)

AllOrderly == \A v \in Vehicles : Orderly(stores[v], now)

\* The results came from stores as they were by the time of a later one.
FromPastOf(rs, store) ==
  \A i \in DOMAIN rs :
    \E early \in Store : Earlier(early, store) /\ rs[i] = Evaluated(plan[i], waypoints, early)

ResultsFromPast == \A v \in Vehicles : FromPastOf(results[v], stores[v])

\* A report came from a store as it was between its verdicts and now.
ReportsFromPast ==
  \A v \in DOMAIN reports :
    \E late \in Store :
      /\ Earlier(late, stores[v])
      /\ FromPastOf(results[v], late)
      /\ reports[v] = Report(late, waypoints, results[v])

Inv == TypeOK /\ SoFar /\ AllOrderly /\ ResultsFromPast /\ ReportsFromPast

LEMMA CaseTypes ==
  ASSUME scenario \in Cases
  PROVE  /\ plan \in Seq(Assertion)
         /\ Vehicles = 1..Len(scenario.fleet) /\ Len(scenario.fleet) \in Nat \ {0}
         /\ scenario.messages \subseteq Message
<1>1. /\ scenario.fleet \in Seq(Nat) /\ scenario.fleet # <<>>
      /\ scenario.messages \subseteq Message
      /\ scenario.assertions \in Seq(Assertion)
  BY CasesAssumption
<1>2. Len(scenario.fleet) \in Nat /\ Len(scenario.fleet) # 0
        /\ DOMAIN scenario.fleet = 1..Len(scenario.fleet)
  BY <1>1
<1> QED
  BY <1>1, <1>2 DEF plan, Vehicles

LEMMA EarlierReflexive ==
  ASSUME NEW a \in Store
  PROVE  Earlier(a, a)
BY StoreFields DEF Earlier, Begins

\* One more sample, taken now, and the history is as orderly and has all it had.
LEMMA AppendInOrder ==
  ASSUME NEW Sample, \A x \in Sample : x.time \in Nat, NEW samples \in Seq(Sample),
         NEW start \in Nat, NEW until \in Nat, start <= until,
         InOrder(samples, start, until), NEW x \in Sample, x.time = until
  PROVE  /\ InOrder(Append(samples, x), start, until)
         /\ Begins(samples, Append(samples, x))
<1> DEFINE n == Len(samples)
           more == Append(samples, x)
<1>1. /\ n \in Nat /\ DOMAIN samples = 1..n /\ DOMAIN more = 1..(n + 1) /\ Len(more) = n + 1
      /\ more[n + 1] = x /\ \A i \in 1..n : more[i] = samples[i]
  OBVIOUS
<1> HIDE DEF n, more
<1>2. Begins(samples, more)
  BY <1>1 DEF Begins, n
<1>3. ASSUME NEW i \in DOMAIN more
      PROVE  /\ more[i].time \in start..until
             /\ \A j \in 1..i : more[j].time <= more[i].time
  <2>1. CASE i \in 1..n
    <3>1. more[i] = samples[i] /\ \A j \in 1..i : more[j] = samples[j]
      BY <1>1, <2>1
    <3> QED
      BY <1>1, <2>1, <3>1 DEF InOrder
  <2>2. CASE i = n + 1
    <3>1. \A j \in 1..n : more[j].time \in start..until
      BY <1>1 DEF InOrder
    <3>2. \A j \in 1..i : j \in 1..n \/ j = n + 1
      BY <1>1, <2>2
    <3>3. more[i].time = until
      BY <1>1, <2>2
    <3> QED
      BY <1>1, <2>2, <3>1, <3>2, <3>3
  <2> QED
    BY <1>1, <2>1, <2>2
<1> QED
  BY <1>2, <1>3 DEF InOrder, more

LEMMA MessageRecorded ==
  ASSUME now \in Nat, NEW store \in Store, Orderly(store, now), store.start <= now,
         NEW msg \in Message, NEW id
  PROVE  /\ process_message(id, msg, store) \in Store
         /\ Earlier(store, process_message(id, msg, store))
         /\ Orderly(process_message(id, msg, store), now)
<1> DEFINE next == process_message(id, msg, store)
<1>1. /\ store.start \in Nat /\ store.positions \in Seq(Position)
      /\ store.attitudes \in Seq(Attitude) /\ store.statuses \in Seq(Status)
  BY StoreFields
<1>2. /\ Begins(store.positions, store.positions)
      /\ Begins(store.attitudes, store.attitudes)
      /\ Begins(store.statuses, store.statuses)
  BY EarlierReflexive DEF Earlier
<1>3. /\ InOrder(store.positions, store.start, now)
      /\ InOrder(store.attitudes, store.start, now)
      /\ InOrder(store.statuses, store.start, now)
  BY DEF Orderly
<1>4. CASE id # 1
  <2>1. next = store
    BY <1>4 DEF process_message
  <2> QED
    BY <2>1, EarlierReflexive
<1>5. CASE id = 1 /\ msg.type = "GLOBAL_POSITION_INT"
  <2> DEFINE p == [time |-> now, place |-> msg.place, alt |-> msg.alt, speed |-> msg.speed]
             positions == Append(store.positions, p)
  <2>1. p \in Position /\ p.time = now
    BY <1>5 DEF Message, Position
  <2>2. /\ next.start = store.start /\ next.positions = positions
        /\ next.attitudes = store.attitudes /\ next.statuses = store.statuses
        /\ next \in Store
    <3>1. next = [store EXCEPT !.positions = positions]
      BY <1>5 DEF process_message, Recorded
    <3>2. positions \in Seq(Position)
      BY <1>1, <2>1
    <3> HIDE DEF next, positions
    <3> QED
      BY <3>1, <3>2 DEF Store
  <2>3. InOrder(positions, store.start, now) /\ Begins(store.positions, positions)
    <3> HIDE DEF p
    <3> QED
      BY <1>1, <1>3, <2>1, AppendInOrder, SampleFields
  <2> HIDE DEF next, positions
  <2> QED
    BY <1>2, <1>3, <2>2, <2>3 DEF Earlier, Orderly, next
<1>6. CASE id = 1 /\ msg.type = "ATTITUDE"
  <2> DEFINE x == [time |-> now, tilt |-> msg.tilt]
             attitudes == Append(store.attitudes, x)
  <2>1. x \in Attitude /\ x.time = now
    BY <1>6 DEF Message, Attitude
  <2>2. /\ next.start = store.start /\ next.positions = store.positions
        /\ next.attitudes = attitudes /\ next.statuses = store.statuses
        /\ next \in Store
    <3>1. next = [store EXCEPT !.attitudes = attitudes]
      BY <1>6 DEF process_message, Recorded
    <3>2. attitudes \in Seq(Attitude)
      BY <1>1, <2>1
    <3> HIDE DEF next, attitudes
    <3> QED
      BY <3>1, <3>2 DEF Store
  <2>3. InOrder(attitudes, store.start, now) /\ Begins(store.attitudes, attitudes)
    <3> HIDE DEF x
    <3> QED
      BY <1>1, <1>3, <2>1, AppendInOrder, SampleFields
  <2> HIDE DEF next, attitudes
  <2> QED
    BY <1>2, <1>3, <2>2, <2>3 DEF Earlier, Orderly, next
<1>7. CASE id = 1 /\ msg.type = "HEARTBEAT"
  <2> DEFINE s == [time |-> now, armed |-> msg.armed]
             statuses == Append(store.statuses, s)
  <2>1. s \in Status /\ s.time = now
    BY <1>7 DEF Message, Status
  <2>2. /\ next.start = store.start /\ next.positions = store.positions
        /\ next.attitudes = store.attitudes /\ next.statuses = statuses
        /\ next \in Store
    <3>1. next = [store EXCEPT !.statuses = statuses]
      BY <1>7 DEF process_message, Recorded
    <3>2. statuses \in Seq(Status)
      BY <1>1, <2>1
    <3> HIDE DEF next, statuses
    <3> QED
      BY <3>1, <3>2 DEF Store
  <2>3. InOrder(statuses, store.start, now) /\ Begins(store.statuses, statuses)
    <3> HIDE DEF s
    <3> QED
      BY <1>1, <1>3, <2>1, AppendInOrder, SampleFields
  <2> HIDE DEF next, statuses
  <2> QED
    BY <1>2, <1>3, <2>2, <2>3 DEF Earlier, Orderly, next
<1>8. msg.type \in {"GLOBAL_POSITION_INT", "ATTITUDE", "HEARTBEAT"}
  BY DEF Message
<1> QED
  BY <1>4, <1>5, <1>6, <1>7, <1>8

\* What the processor does to the stores: all that was there stays.
LEMMA RecordGrows ==
  ASSUME TypeOK, AllOrderly, NEW v \in Vehicles, Record(v)
  PROVE  /\ stores' \in [Vehicles -> Store]
         /\ \A u \in Vehicles : Earlier(stores[u], stores'[u]) /\ Orderly(stores'[u], now)
<1>1. stores \in [Vehicles -> Store] /\ now \in Nat /\ scenario.messages \subseteq Message
  BY CaseTypes DEF TypeOK
<1>2. PICK msg \in scenario.messages :
        stores' = [stores EXCEPT ![v] = process_message(scenario.fleet[v], msg, stores[v])]
  BY DEF Record
<1> DEFINE next == process_message(scenario.fleet[v], msg, stores[v])
<1>3. next \in Store /\ Earlier(stores[v], next) /\ Orderly(next, now)
  <2>1. stores[v].start <= now
    BY DEF Record
  <2> QED
    BY <1>1, <2>1, MessageRecorded DEF AllOrderly
<1> HIDE DEF next
<1>4. stores' = [stores EXCEPT ![v] = next]
  BY <1>2 DEF next
<1>5. \A u \in Vehicles : stores'[u] = IF u = v THEN next ELSE stores[u]
  BY <1>1, <1>4
<1>6. \A u \in Vehicles : Earlier(stores[u], stores[u]) /\ Orderly(stores[u], now)
  BY <1>1, EarlierReflexive DEF AllOrderly
<1> QED
  BY <1>1, <1>3, <1>4, <1>5, <1>6

\* Results found by an earlier time were found by a later one.
LEMMA PastStays ==
  ASSUME NEW rs, NEW early \in Store, NEW late \in Store, Earlier(early, late),
         FromPastOf(rs, early)
  PROVE  FromPastOf(rs, late)
BY EarlierTransitive DEF FromPastOf

\* A store that was orderly by some time is orderly by any later one.
LEMMA OrderlyLater ==
  ASSUME NEW store, NEW m \in Nat, NEW n \in Nat, m <= n, store.start \in Nat,
         Orderly(store, m)
  PROVE  Orderly(store, n)
BY DEF Orderly, InOrder

\* The scenario never changes, so the parts of the invariant are about the
\* same vehicles and the same assertions before a step and after it.
LEMMA SameScenario ==
  ASSUME scenario' = scenario
  PROVE  /\ Vehicles' = Vehicles /\ plan' = plan
         /\ AllOrderly' <=> \A v \in Vehicles : Orderly(stores'[v], now')
         /\ ResultsFromPast' <=> \A v \in Vehicles : FromPastOf(results'[v], stores'[v])
         /\ ReportsFromPast' <=>
              \A v \in DOMAIN reports' :
                \E late \in Store :
                  /\ Earlier(late, stores'[v])
                  /\ FromPastOf(results'[v], late)
                  /\ reports'[v] = Report(late, waypoints, results'[v])
BY DEF Vehicles, plan, AllOrderly, ResultsFromPast, ReportsFromPast, FromPastOf

LEMMA ReportsOfVehicles ==
  ASSUME TypeOK, SoFar
  PROVE  DOMAIN reports = 1..Len(reports) /\ Len(reports) \in Nat
           /\ DOMAIN reports \subseteq Vehicles
<1>1. /\ Vehicles = 1..Len(scenario.fleet) /\ Len(scenario.fleet) \in Nat
      /\ DOMAIN reports = 1..Len(reports) /\ Len(reports) \in Nat
  BY CaseTypes DEF TypeOK
<1>2. Len(reports) <= Len(scenario.fleet)
  <2>1. reports = <<>> => Len(reports) = 0
    OBVIOUS
  <2> QED
    BY <1>1, <2>1 DEF SoFar, TypeOK
<1> QED
  BY <1>1, <1>2

\* The inductive invariant holds in the initial states.
LEMMA InitInv == Init => Inv
<1> SUFFICES ASSUME Init
             PROVE  Inv
  OBVIOUS
<1>1. plan \in Seq(Assertion) /\ Len(plan) \in Nat /\ Len(scenario.fleet) \in Nat \ {0}
  BY CaseTypes DEF Init
<1>2. PICK start \in [Vehicles -> 0..MaxStart] : stores = [v \in Vehicles |-> NewStore(start[v])]
  BY DEF Init
<1>3. \A m \in 0..MaxStart : NewStore(m) \in Store /\ Orderly(NewStore(m), now)
  <2> SUFFICES ASSUME NEW m \in 0..MaxStart
               PROVE  NewStore(m) \in Store /\ Orderly(NewStore(m), now)
    OBVIOUS
  <2>1. m \in Nat
    BY BoundsAssumption
  <2>2. NewStore(m) \in Store
    BY <2>1 DEF NewStore, Store
  <2>3. Orderly(NewStore(m), now)
    BY DEF NewStore, Orderly, InOrder
  <2> QED
    BY <2>2, <2>3
<1>4. TypeOK
  BY <1>2, <1>3 DEF TypeOK, Init
<1>5. SoFar
  BY <1>1 DEF SoFar, Init
<1>6. AllOrderly
  BY <1>2, <1>3 DEF AllOrderly
<1>7. ResultsFromPast
  BY DEF ResultsFromPast, FromPastOf, Init
<1>8. ReportsFromPast
  BY DEF ReportsFromPast, Init
<1> QED
  BY <1>4, <1>5, <1>6, <1>7, <1>8 DEF Inv

----------------------------------------------------------------------------
(* Every action keeps the invariant                                        *)

LEMMA TickInv == Inv /\ Tick => Inv'
<1> SUFFICES ASSUME Inv, Tick
             PROVE  Inv'
  OBVIOUS
<1>1. /\ now \in Nat /\ now' = now + 1 /\ scenario' = scenario
      /\ UNCHANGED <<stores, pc, results, inter, checked, reports>>
  BY DEF Tick, Inv, TypeOK
<1>2. TypeOK'
  BY <1>1, SameScenario DEF Inv, TypeOK
<1>3. SoFar'
  BY <1>1, SameScenario DEF Inv, SoFar
<1>4. AllOrderly'
  <2>1. \A v \in Vehicles : Orderly(stores[v], now) /\ stores[v].start \in Nat
    BY StoreFields DEF Inv, AllOrderly, TypeOK
  <2>2. \A v \in Vehicles : Orderly(stores[v], now')
    <3>1. now' \in Nat /\ now <= now'
      BY <1>1
    <3> QED
      BY <1>1, <2>1, <3>1, OrderlyLater
  <2> QED
    BY <1>1, <2>2, SameScenario
<1>5. ResultsFromPast'
  BY <1>1, SameScenario DEF Inv, ResultsFromPast
<1>6. ReportsFromPast'
  BY <1>1, SameScenario DEF Inv, ReportsFromPast
<1> QED
  BY <1>2, <1>3, <1>4, <1>5, <1>6 DEF Inv

LEMMA RecordInv == \A v \in Vehicles : Inv /\ Record(v) => Inv'
<1> SUFFICES ASSUME NEW v \in Vehicles, Inv, Record(v)
             PROVE  Inv'
  OBVIOUS
<1>1. scenario' = scenario /\ UNCHANGED <<now, pc, results, inter, checked, reports>>
  BY DEF Record
<1>2. /\ stores' \in [Vehicles -> Store] /\ stores \in [Vehicles -> Store]
      /\ \A u \in Vehicles : Earlier(stores[u], stores'[u]) /\ Orderly(stores'[u], now)
  BY RecordGrows DEF Inv, TypeOK
<1>3. TypeOK'
  BY <1>1, <1>2, SameScenario DEF Inv, TypeOK
<1>4. SoFar'
  BY <1>1, SameScenario DEF Inv, SoFar
<1>5. AllOrderly'
  BY <1>1, <1>2, SameScenario
<1>6. ResultsFromPast'
  <2>1. \A u \in Vehicles : FromPastOf(results[u], stores'[u])
    BY <1>2, PastStays DEF Inv, ResultsFromPast
  <2> QED
    BY <1>1, <2>1, SameScenario
<1>7. ReportsFromPast'
  <2>1. DOMAIN reports \subseteq Vehicles
    BY ReportsOfVehicles DEF Inv
  <2>2. ASSUME NEW u \in DOMAIN reports
        PROVE  \E late \in Store :
                 /\ Earlier(late, stores'[u])
                 /\ FromPastOf(results[u], late)
                 /\ reports[u] = Report(late, waypoints, results[u])
    <3>1. PICK late \in Store : /\ Earlier(late, stores[u])
                                /\ FromPastOf(results[u], late)
                                /\ reports[u] = Report(late, waypoints, results[u])
      BY DEF Inv, ReportsFromPast
    <3>2. Earlier(late, stores'[u])
      BY <1>2, <2>1, <3>1, EarlierTransitive
    <3> QED
      BY <3>1, <3>2
  <2> QED
    BY <1>1, <2>2, SameScenario
<1> QED
  BY <1>3, <1>4, <1>5, <1>6, <1>7 DEF Inv

LEMMA PendingFirst ==
  ASSUME TypeOK, Pending # {}
  PROVE  First(Pending) \in Vehicles /\ Len(results[First(Pending)]) < Len(plan)
<1>1. Pending \in SUBSET Nat
  BY CaseTypes DEF Pending, TypeOK
<1>2. First(Pending) \in Pending
  BY <1>1, FirstProperties
<1> QED
  BY <1>2 DEF Pending

\* What EvaluateNext does to the results.
LEMMA NextResult ==
  ASSUME TypeOK, AllOrderly, EvaluateNext
  PROVE  \E v \in Vehicles :
           LET n == Len(results[v])
               e == Evaluated(plan[n + 1], waypoints, stores[v])
           IN  /\ n < Len(plan)
               /\ results' = [results EXCEPT ![v] = Append(results[v], e)]
               /\ plan[n + 1] \in Assertion
               /\ e \in AssertionResult
               /\ e.passed <=> Means(plan[n + 1], stores[v])
<1> DEFINE v == First(Pending)
           n == Len(results[v])
           e == Evaluated(plan[n + 1], waypoints, stores[v])
<1>1. v \in Vehicles /\ n < Len(plan)
  BY PendingFirst DEF EvaluateNext
<1>2. results' = [results EXCEPT ![v] = Append(results[v], e)]
  BY DEF EvaluateNext
<1>3. results[v] \in Seq(AssertionResult) /\ stores[v] \in Store
  BY <1>1 DEF TypeOK
<1> HIDE DEF v
<1>4. plan[n + 1] \in Assertion
  <2>1. n \in Nat /\ plan \in Seq(Assertion)
    BY <1>3, CaseTypes DEF TypeOK
  <2> QED
    BY <1>1, <2>1
<1>5. e \in AssertionResult /\ (e.passed <=> Means(plan[n + 1], stores[v]))
  <2>1. Orderly(stores[v], now)
    BY <1>1 DEF AllOrderly
  <2> QED
    BY <1>3, <1>4, <2>1, VerdictIsMeaning
<1> QED
  BY <1>1, <1>2, <1>4, <1>5

LEMMA EvaluateNextInv == Inv /\ EvaluateNext => Inv'
<1> SUFFICES ASSUME Inv, EvaluateNext
             PROVE  Inv'
  OBVIOUS
<1>1. /\ scenario' = scenario /\ pc = "evaluate" /\ reports = <<>>
      /\ UNCHANGED <<now, stores, pc, inter, checked, reports>>
  BY DEF EvaluateNext, Inv, SoFar
<1>2. PICK v \in Vehicles :
        LET n == Len(results[v])
            e == Evaluated(plan[n + 1], waypoints, stores[v])
        IN  /\ n < Len(plan)
            /\ results' = [results EXCEPT ![v] = Append(results[v], e)]
            /\ e \in AssertionResult
  BY NextResult DEF Inv
<1> DEFINE n == Len(results[v])
           e == Evaluated(plan[n + 1], waypoints, stores[v])
           more == Append(results[v], e)
<1>3. /\ results \in [Vehicles -> Seq(AssertionResult)] /\ stores \in [Vehicles -> Store]
      /\ results[v] \in Seq(AssertionResult) /\ n \in Nat
  BY DEF Inv, TypeOK
<1>4. /\ more \in Seq(AssertionResult) /\ Len(more) = n + 1 /\ n + 1 <= Len(plan)
      /\ DOMAIN more = 1..(n + 1) /\ more[n + 1] = e
      /\ DOMAIN results[v] = 1..n /\ \A i \in 1..n : more[i] = results[v][i]
  <2> HIDE DEF e
  <2>1. e \in AssertionResult /\ n < Len(plan)
    BY <1>2 DEF e
  <2>2. Len(plan) \in Nat
    BY CaseTypes DEF Inv, TypeOK
  <2> QED
    BY <1>3, <2>1, <2>2
<1>5. FromPastOf(more, stores[v])
  <2>1. \A i \in 1..n : \E early \in Store :
          Earlier(early, stores[v]) /\ results[v][i] = Evaluated(plan[i], waypoints, early)
    BY <1>4 DEF Inv, ResultsFromPast, FromPastOf
  <2>2. Earlier(stores[v], stores[v]) /\ stores[v] \in Store
    BY <1>3, EarlierReflexive
  <2>3. \E early \in Store :
          Earlier(early, stores[v]) /\ more[n + 1] = Evaluated(plan[n + 1], waypoints, early)
    BY <1>4, <2>2
  <2> HIDE DEF e, more
  <2>4. \A i \in DOMAIN more : i \in 1..n \/ i = n + 1
    BY <1>3, <1>4
  <2> QED
    BY <1>4, <2>1, <2>3, <2>4 DEF FromPastOf
<1> HIDE DEF e, more
<1>6. /\ results' = [results EXCEPT ![v] = more]
      /\ \A u \in Vehicles : results'[u] = IF u = v THEN more ELSE results[u]
  <2>1. results' = [results EXCEPT ![v] = more]
    BY <1>2 DEF more, e
  <2> QED
    BY <1>3, <2>1
<1>7. TypeOK'
  <2>1. results' \in [Vehicles -> Seq(AssertionResult)]
    BY <1>3, <1>4, <1>6
  <2> QED
    BY <1>1, <2>1, SameScenario DEF Inv, TypeOK
<1>8. SoFar'
  <2>1. \A u \in Vehicles : Len(results'[u]) <= Len(plan)
    BY <1>4, <1>6 DEF Inv, SoFar
  <2> QED
    BY <1>1, <2>1, SameScenario DEF SoFar
<1>9. AllOrderly'
  BY <1>1, SameScenario DEF Inv, AllOrderly
<1>10. ResultsFromPast'
  <2>1. \A u \in Vehicles : FromPastOf(results'[u], stores[u])
    BY <1>5, <1>6 DEF Inv, ResultsFromPast
  <2> QED
    BY <1>1, <2>1, SameScenario
<1>11. ReportsFromPast'
  <2>1. DOMAIN reports' = {}
    BY <1>1
  <2> QED
    BY <1>1, <2>1, SameScenario
<1> QED
  BY <1>7, <1>8, <1>9, <1>10, <1>11 DEF Inv

\* Steps that touch neither stores nor results nor reports.
LEMMA RestInv ==
  ASSUME Inv, UNCHANGED <<scenario, now, stores, results, reports>>, SoFar',
         pc' \in {"evaluate", "separate", "report", "done"},
         inter' \in Seq(AssertionResult), checked' \in Nat
  PROVE  Inv'
<1>1. TypeOK'
  BY SameScenario DEF Inv, TypeOK
<1>2. AllOrderly'
  BY SameScenario DEF Inv, AllOrderly
<1>3. ResultsFromPast'
  BY SameScenario DEF Inv, ResultsFromPast
<1>4. ReportsFromPast'
  BY SameScenario DEF Inv, ReportsFromPast
<1> QED
  BY <1>1, <1>2, <1>3, <1>4 DEF Inv

LEMMA EndEvaluationInv == Inv /\ EndEvaluation => Inv'
<1> SUFFICES ASSUME Inv, EndEvaluation
             PROVE  Inv'
  OBVIOUS
<1>1. /\ UNCHANGED <<scenario, now, stores, results, inter, checked, reports>>
      /\ pc = "evaluate" /\ pc' \in {"separate", "report"} /\ reports = <<>>
  BY DEF EndEvaluation, Inv, SoFar
<1>2. \A v \in Vehicles : Len(results[v]) = Len(plan)
  <2>1. \A v \in Vehicles : Len(results[v]) \in Nat
    BY DEF Inv, TypeOK
  <2>2. Len(plan) \in Nat
    BY CaseTypes DEF Inv, TypeOK
  <2>3. \A v \in Vehicles : Len(results[v]) <= Len(plan) /\ ~(Len(results[v]) < Len(plan))
    BY DEF EndEvaluation, Pending, Inv, SoFar
  <2> QED
    BY <2>1, <2>2, <2>3
<1>3. Len(reports) < Len(scenario.fleet)
  <2>1. Len(scenario.fleet) \in Nat \ {0}
    BY CaseTypes DEF Inv, TypeOK
  <2> QED
    BY <1>1, <2>1
<1>4. SoFar'
  BY <1>1, <1>2, <1>3, SameScenario DEF Inv, SoFar
<1> QED
  BY <1>1, <1>4, RestInv DEF Inv, TypeOK

LEMMA SeparationFirst ==
  ASSUME TypeOK, Separations # {}
  PROVE  /\ First(Separations) \in Nat
         /\ Separation \in Assertion /\ Separation.type = "min_separation"
<1>1. plan \in Seq(Assertion)
  BY CaseTypes DEF TypeOK
<1>2. Separations \in SUBSET Nat
  BY <1>1 DEF Separations
<1>3. First(Separations) \in Separations
  BY <1>2, FirstProperties
<1>4. First(Separations) \in DOMAIN plan /\ plan[First(Separations)].type = "min_separation"
  BY <1>3 DEF Separations
<1> HIDE DEF Separations
<1> QED
  BY <1>1, <1>2, <1>3, <1>4 DEF Separation

LEMMA SeparateType ==
  ASSUME Inv, Separations # {}, NEW result \in AssertionResult, Separate(result)
  PROVE  inter' \in Seq(AssertionResult) /\ checked' \in Nat
BY SeparationFirst DEF Separate, Inv, TypeOK

LEMMA ComparePairInv == Inv /\ ComparePair => Inv'
<1> SUFFICES ASSUME Inv, ComparePair
             PROVE  Inv'
  OBVIOUS
<1>1. UNCHANGED <<scenario, now, stores, pc, results, reports>>
  BY DEF ComparePair
<1>2. inter' \in Seq(AssertionResult) /\ checked' \in Nat
  <2>1. CASE Separate(Failed)
    BY <2>1, SeparateType DEF ComparePair, Failed, AssertionResult
  <2>2. CASE UNCHANGED <<inter, checked>>
    BY <2>2 DEF Inv, TypeOK
  <2> QED
    BY <2>1, <2>2 DEF ComparePair
<1>3. SoFar'
  BY <1>1, SameScenario DEF Inv, SoFar
<1> QED
  BY <1>1, <1>2, <1>3, RestInv DEF Inv, TypeOK

LEMMA AllApartInv == Inv /\ AllApart => Inv'
<1> SUFFICES ASSUME Inv, AllApart
             PROVE  Inv'
  OBVIOUS
<1>1. UNCHANGED <<scenario, now, stores, pc, results, reports>>
  BY DEF AllApart
<1>2. inter' \in Seq(AssertionResult) /\ checked' \in Nat
  BY SeparateType DEF AllApart, Held, AssertionResult
<1>3. SoFar'
  BY <1>1, SameScenario DEF Inv, SoFar
<1> QED
  BY <1>1, <1>2, <1>3, RestInv DEF Inv, TypeOK

LEMMA SeparatedInv == Inv /\ Separated => Inv'
<1> SUFFICES ASSUME Inv, Separated
             PROVE  Inv'
  OBVIOUS
<1>1. /\ UNCHANGED <<scenario, now, stores, results, inter, checked, reports>>
      /\ pc = "separate" /\ pc' = "report" /\ reports = <<>>
  BY DEF Separated, Inv, SoFar
<1>2. Len(reports) < Len(scenario.fleet)
  <2>1. Len(scenario.fleet) \in Nat \ {0}
    BY CaseTypes DEF Inv, TypeOK
  <2> QED
    BY <1>1, <2>1
<1>3. SoFar'
  BY <1>1, <1>2, SameScenario DEF Inv, SoFar
<1> QED
  BY <1>1, <1>3, RestInv DEF Inv, TypeOK

LEMMA BuildReportInv == Inv /\ BuildReport => Inv'
<1> SUFFICES ASSUME Inv, BuildReport
             PROVE  Inv'
  OBVIOUS
<1> DEFINE n == Len(reports)
           r == Report(stores[n + 1], waypoints, results[n + 1])
<1>1. /\ UNCHANGED <<scenario, now, stores, results, inter, checked>>
      /\ pc = "report" /\ reports' = Append(reports, r)
      /\ pc' = IF Len(reports') = Len(scenario.fleet) THEN "done" ELSE pc
  BY DEF BuildReport
<1>2. n \in Nat /\ DOMAIN reports = 1..n /\ n + 1 \in Vehicles /\ n < Len(scenario.fleet)
  <2>1. n < Len(scenario.fleet)
    BY <1>1 DEF Inv, SoFar
  <2>2. Vehicles = 1..Len(scenario.fleet) /\ Len(scenario.fleet) \in Nat
    BY CaseTypes DEF Inv, TypeOK
  <2> QED
    BY <2>1, <2>2, ReportsOfVehicles DEF Inv
<1>3. stores[n + 1] \in Store /\ results[n + 1] \in Seq(AssertionResult)
  BY <1>2 DEF Inv, TypeOK
<1>4. r \in AnyReport
  BY <1>3 DEF AnyReport
<1> HIDE DEF r
<1>5. /\ reports' \in Seq(AnyReport) /\ Len(reports') = n + 1
      /\ DOMAIN reports' = 1..(n + 1) /\ reports'[n + 1] = r
      /\ \A v \in 1..n : reports'[v] = reports[v]
  BY <1>1, <1>2, <1>4 DEF Inv, TypeOK
<1>6. TypeOK'
  BY <1>1, <1>5, SameScenario DEF Inv, TypeOK
<1>7. SoFar'
  <2>1. Len(scenario.fleet) \in Nat
    BY CaseTypes DEF Inv, TypeOK
  <2>2. /\ pc' = "report" => Len(reports') < Len(scenario.fleet)
        /\ pc' = "done" => Len(reports') = Len(scenario.fleet)
        /\ pc' \in {"report", "done"}
    BY <1>1, <1>2, <1>5, <2>1
  <2>3. \A v \in Vehicles : Len(results[v]) = Len(plan)
    BY <1>1 DEF Inv, SoFar
  <2>4. \A v \in Vehicles : Len(results[v]) <= Len(plan)
    BY DEF Inv, SoFar
  <2> HIDE DEF n
  <2> QED
    BY <1>1, <2>2, <2>3, <2>4, SameScenario DEF SoFar
<1>8. AllOrderly'
  BY <1>1, SameScenario DEF Inv, AllOrderly
<1>9. ResultsFromPast'
  BY <1>1, SameScenario DEF Inv, ResultsFromPast
<1>10. ReportsFromPast'
  <2>1. ASSUME NEW v \in DOMAIN reports'
        PROVE  \E late \in Store :
                 /\ Earlier(late, stores[v])
                 /\ FromPastOf(results[v], late)
                 /\ reports'[v] = Report(late, waypoints, results[v])
    <3>1. CASE v = n + 1
      <4>1. Earlier(stores[v], stores[v]) /\ FromPastOf(results[v], stores[v])
        BY <1>2, <1>3, <3>1, EarlierReflexive DEF Inv, ResultsFromPast
      <4>2. reports'[v] = Report(stores[v], waypoints, results[v])
        BY <1>5, <3>1 DEF r
      <4> QED
        BY <1>3, <3>1, <4>1, <4>2
    <3>2. CASE v \in 1..n
      BY <1>2, <1>5, <3>2 DEF Inv, ReportsFromPast
    <3> QED
      BY <1>2, <1>5, <2>1, <3>1, <3>2
  <2> HIDE DEF n
  <2> QED
    BY <1>1, <2>1, SameScenario
<1> QED
  BY <1>6, <1>7, <1>8, <1>9, <1>10 DEF Inv

LEMMA StutterInv == Inv /\ UNCHANGED vars => Inv'
<1> SUFFICES ASSUME Inv, UNCHANGED vars
             PROVE  Inv'
  OBVIOUS
<1>1. UNCHANGED <<scenario, now, stores, pc, results, inter, checked, reports>>
  BY DEF vars
<1>2. SoFar'
  BY <1>1, SameScenario DEF Inv, SoFar
<1> QED
  BY <1>1, <1>2, RestInv DEF Inv, TypeOK

\* While telemetry goes on arriving, every result is the verdict on the store
\* as it once was, and every report is built from the store as it was later
\* than the verdicts it lists.
THEOREM Invariance == Spec => []Inv
<1>1. Inv /\ [Next]_vars => Inv'
  BY TickInv, RecordInv, EvaluateNextInv, EndEvaluationInv, ComparePairInv, AllApartInv,
     SeparatedInv, BuildReportInv, StutterInv DEF Next
<1> QED
  BY <1>1, InitInv, PTL DEF Spec

----------------------------------------------------------------------------
(* What the invariant says of the reports and the documents                *)

\* What a report is written from: every verdict it lists was found in a store
\* as it was before the report's.
LEMMA VerdictBeforeReport ==
  ASSUME Inv, NEW v \in DOMAIN reports, NEW i \in DOMAIN plan
  PROVE  /\ results[v][i] \in AssertionResult /\ plan[i] \in Assertion
         /\ stores[v] \in Store
         /\ \E early \in Store, late \in Store :
              /\ Earlier(early, late) /\ Earlier(late, stores[v]) /\ Orderly(late, now)
              /\ results[v][i] = Evaluated(plan[i], waypoints, early)
              /\ reports[v] = Report(late, waypoints, results[v])
<1>1. v \in Vehicles /\ plan \in Seq(Assertion)
  BY ReportsOfVehicles, CaseTypes DEF Inv, TypeOK
<1>2. Len(results[v]) = Len(plan)
  <2>1. reports # <<>>
    OBVIOUS
  <2> QED
    BY <1>1, <2>1 DEF Inv, SoFar, TypeOK
<1>3. results[v] \in Seq(AssertionResult) /\ stores[v] \in Store /\ Orderly(stores[v], now)
  BY <1>1 DEF Inv, TypeOK, AllOrderly
<1>4. i \in DOMAIN results[v]
  BY <1>1, <1>2, <1>3
<1>5. PICK late \in Store : /\ Earlier(late, stores[v])
                            /\ FromPastOf(results[v], late)
                            /\ reports[v] = Report(late, waypoints, results[v])
  BY DEF Inv, ReportsFromPast
<1>6. PICK early \in Store :
        Earlier(early, late) /\ results[v][i] = Evaluated(plan[i], waypoints, early)
  BY <1>4, <1>5 DEF FromPastOf
<1>7. Orderly(late, now)
  BY <1>3, <1>5, EarlierOrderly
<1> QED
  BY <1>1, <1>3, <1>4, <1>5, <1>6, <1>7

\* A vehicle once outside the fence is so in every later store: too high, or
\* further than allowed from the mission.
LEMMA OutsideShows ==
  ASSUME NEW a \in Assertion, a.type = "geofence", NEW early \in Store, NEW late \in Store,
         Earlier(early, late), ~Evaluated(a, waypoints, early).passed
  PROVE  \/ MaxPathDeviation(late.positions, waypoints) > a.max_distance
         \/ \E p \in Range(late.positions) : p.alt > a.max_altitude
<1>1. /\ early.positions \in Seq(Position) /\ late.positions \in Seq(Position)
      /\ Begins(early.positions, late.positions) /\ a.max_distance \in Int
  BY StoreFields, AssertionFields DEF Earlier
<1>2. PICK k \in Visited(early.positions, early.start, a.timeout) : Outside(early.positions[k], a)
  BY Geofence DEF HeldUnless, Held
<1>3. k \in DOMAIN late.positions /\ late.positions[k] = early.positions[k]
  <2>1. k \in DOMAIN early.positions
    BY <1>2 DEF Visited
  <2> QED
    BY <1>1, <2>1 DEF Begins
<1>4. CASE late.positions[k].alt > a.max_altitude
  BY <1>3, <1>4 DEF Range
<1>5. CASE ~(late.positions[k].alt > a.max_altitude)
  <2>1. /\ waypoints # <<>>
        /\ \A w \in DOMAIN waypoints :
             Distance(late.positions[k].place, waypoints[w].place) > a.max_distance
    BY <1>2, <1>3, <1>5 DEF Outside
  <2> QED
    BY <1>1, <1>3, <2>1, DeviationShows
<1> QED
  BY <1>4, <1>5

\* The report is written from a later store than the verdicts it lists, while
\* telemetry goes on arriving; still a flight that was found landed has its
\* time, no longer than until the landing was found, and a fence found broken
\* has a position or a deviation to show for it.
THEOREM ReportsBackVerdicts == Spec => []ReportBacksVerdicts
<1>1. Inv => ReportBacksVerdicts
  <2> SUFFICES ASSUME Inv, NEW v \in DOMAIN reports, NEW i \in DOMAIN plan
               PROVE  /\ plan[i].type = "landed" /\ results[v][i].passed =>
                           /\ reports[v].flight_time # NoTime
                           /\ reports[v].flight_time <= results[v][i].elapsed
                      /\ plan[i].type = "geofence" /\ ~results[v][i].passed =>
                           \/ reports[v].max_path_deviation > plan[i].max_distance
                           \/ \E p \in Range(stores[v].positions) : p.alt > plan[i].max_altitude
    BY DEF ReportBacksVerdicts
  <2>1. PICK early \in Store, late \in Store :
          /\ Earlier(early, late) /\ Earlier(late, stores[v]) /\ Orderly(late, now)
          /\ results[v][i] = Evaluated(plan[i], waypoints, early)
          /\ reports[v] = Report(late, waypoints, results[v])
    BY VerdictBeforeReport
  <2>2. /\ reports[v].flight_time = FlightTime(late.statuses)
        /\ reports[v].max_path_deviation = MaxPathDeviation(late.positions, waypoints)
    BY <2>1 DEF Report
  <2>3. plan[i] \in Assertion
    BY VerdictBeforeReport
  <2>4. ASSUME plan[i].type = "landed", results[v][i].passed
        PROVE  /\ reports[v].flight_time # NoTime
               /\ reports[v].flight_time <= results[v][i].elapsed
    BY <2>1, <2>2, <2>3, <2>4, FlightEndsAtLanding, NoTimeAssumption
  <2>5. ASSUME plan[i].type = "geofence", ~results[v][i].passed
        PROVE  \/ reports[v].max_path_deviation > plan[i].max_distance
               \/ \E p \in Range(stores[v].positions) : p.alt > plan[i].max_altitude
    <3>1. \/ MaxPathDeviation(late.positions, waypoints) > plan[i].max_distance
          \/ \E p \in Range(late.positions) : p.alt > plan[i].max_altitude
      BY <2>1, <2>3, <2>5, OutsideShows
    <3>2. Range(late.positions) \subseteq Range(stores[v].positions)
      <4>1. late.positions \in Seq(Position) /\ stores[v].positions \in Seq(Position)
        BY VerdictBeforeReport, StoreFields
      <4>2. Begins(late.positions, stores[v].positions)
        BY <2>1 DEF Earlier
      <4>3. \A k \in DOMAIN late.positions :
              k \in DOMAIN stores[v].positions /\ stores[v].positions[k] = late.positions[k]
        BY <4>1, <4>2 DEF Begins
      <4> QED
        BY <4>3 DEF Range
    <3> QED
      BY <2>2, <3>1, <3>2
  <2> QED
    BY <2>4, <2>5
<1> QED
  BY <1>1, Invariance, PTL

\* Whatever the assertions, the vehicles and their telemetry: the tests and the
\* failures JUnit declares are those it lists, its root adds up, and the overall
\* results of JUnit, of Markdown and of the report itself are the same, for one
\* scenario, for a suite and for a fleet.
THEOREM TheDocumentsAgree == Spec => []DocumentsAgree
<1>1. Inv => DocumentsAgree
  <2> SUFFICES ASSUME Inv
               PROVE  DocumentsAgree
    OBVIOUS
  <2>1. reports \in Seq(AnyReport) /\ inter \in Seq(AssertionResult)
    BY DEF Inv, TypeOK
  <2>2. \A r \in AnyReport : Tallies(r)
    BY ReportTallies DEF AnyReport
  <2>3. AllTally(reports)
    BY <2>1, <2>2 DEF AllTally
  <2>4. \A v \in DOMAIN reports :
          /\ Agree(reports[v].passed, render_junit(reports[v]), render_markdown(reports[v]))
          /\ NoFailedRow(render_markdown(reports[v])) = render_markdown(reports[v]).result
    BY <2>3, OneScenarioAgrees DEF AllTally
  <2> DEFINE suite == SuiteReport(reports)
             fleet == MultiVehicleReport(reports, inter)
             suite_junit == render_suite_junit(suite)
             suite_md == render_suite_markdown(suite)
             fleet_junit == render_multi_vehicle_junit(fleet)
             fleet_md == render_multi_vehicle_markdown(fleet)
  <2>5. /\ Agree(suite.all_passed, suite_junit, suite_md) /\ RootAddsUp(suite_junit)
        /\ NoFailedRow(suite_md) = suite_md.result
    BY <2>1, <2>3, SuiteAgrees
  <2>6. /\ Agree(fleet.all_passed, fleet_junit, fleet_md) /\ RootAddsUp(fleet_junit)
        /\ (NoFailedRow(fleet_md) /\ FALSE \notin Range(fleet_md.inter)) = fleet_md.result
    BY <2>1, <2>3, FleetAgrees
  <2> QED
    BY <2>4, <2>5, <2>6 DEF DocumentsAgree
<1> QED
  BY <1>1, Invariance, PTL

----------------------------------------------------------------------------
(* What the invariant says of the steps                                    *)

\* No step takes anything out of a store.
LEMMA StoresGrow ==
  ASSUME Inv, [Next]_vars, NEW v \in Vehicles
  PROVE  stores[v] \in Store /\ stores'[v] \in Store /\ Earlier(stores[v], stores'[v])
<1>1. stores \in [Vehicles -> Store]
  BY DEF Inv, TypeOK
<1>2. CASE \E u \in Vehicles : Record(u)
  BY <1>1, <1>2, RecordGrows DEF Inv
<1>3. CASE stores' = stores
  BY <1>1, <1>3, EarlierReflexive
<1>4. stores' = stores \/ \E u \in Vehicles : Record(u)
  BY DEF Next, vars, Tick, EvaluateNext, EndEvaluation, ComparePair, AllApart, Separated,
     BuildReport
<1> QED
  BY <1>2, <1>3, <1>4

\* Whatever telemetry arrived before the check, the verdict given is what the
\* assertion means of all of it.
THEOREM VerdictsMatchMeaning == Spec => VerdictMatchesMeaning
<1> DEFINE Match == \A v \in Vehicles :
              LET i == Len(results[v]) + 1
              IN  Len(results'[v]) >= i =>
                    (results'[v][i].passed <=> Means(plan[i], stores[v]))
<1>1. Inv /\ [Next]_vars => [Match]_vars
  <2> SUFFICES ASSUME Inv, [Next]_vars, NEW v \in Vehicles,
                      Len(results'[v]) >= Len(results[v]) + 1
               PROVE  results'[v][Len(results[v]) + 1].passed
                        <=> Means(plan[Len(results[v]) + 1], stores[v])
    OBVIOUS
  <2>1. results \in [Vehicles -> Seq(AssertionResult)] /\ Len(results[v]) \in Nat
    BY DEF Inv, TypeOK
  <2>2. results' # results
    BY <2>1
  <2>3. EvaluateNext
    BY <2>2 DEF Next, vars, Tick, Record, EndEvaluation, ComparePair, AllApart, Separated,
       BuildReport
  <2>4. PICK u \in Vehicles :
          LET n == Len(results[u])
              e == Evaluated(plan[n + 1], waypoints, stores[u])
          IN  /\ results' = [results EXCEPT ![u] = Append(results[u], e)]
              /\ e \in AssertionResult
              /\ e.passed <=> Means(plan[n + 1], stores[u])
    BY <2>3, NextResult DEF Inv
  <2> DEFINE n == Len(results[u])
             e == Evaluated(plan[n + 1], waypoints, stores[u])
  <2>5. /\ results' = [results EXCEPT ![u] = Append(results[u], e)]
        /\ e \in AssertionResult /\ (e.passed <=> Means(plan[n + 1], stores[u]))
    BY <2>4
  <2> HIDE DEF e
  <2>6. results'[v] = IF v = u THEN Append(results[u], e) ELSE results[v]
    BY <2>1, <2>5
  <2>7. v = u
    BY <2>1, <2>6
  <2>8. results[u] \in Seq(AssertionResult)
    BY <2>1
  <2>9. results'[v][n + 1] = e
    BY <2>5, <2>6, <2>7, <2>8
  <2> QED
    BY <2>5, <2>7, <2>9
<1> QED
  BY <1>1, Invariance, PTL DEF Spec, VerdictMatchesMeaning

\* Telemetry that arrives between the checks can only let something be reached
\* that was not, or a limit be exceeded that was kept; or it brings the first
\* attitude, whose want was the failure.
THEOREM VerdictsOnlyChangeOneWay == Spec => VerdictsChangeOneWay
<1> DEFINE OneWay == \A v \in Vehicles, i \in DOMAIN plan :
              LET a      == plan[i]
                  before == Evaluated(a, waypoints, stores[v])
                  after  == Evaluated(a, waypoints, stores'[v])
              IN  before # after =>
                    \/ a.type \in Reaching /\ ~before.passed
                    \/ a.type \notin Reaching /\ before.passed
                    \/ a.type = "max_tilt" /\ stores[v].attitudes = <<>>
<1>1. Inv /\ [Next]_vars => [OneWay]_vars
  <2> SUFFICES ASSUME Inv, [Next]_vars, NEW v \in Vehicles, NEW i \in DOMAIN plan,
                      Evaluated(plan[i], waypoints, stores[v])
                        # Evaluated(plan[i], waypoints, stores'[v])
               PROVE  \/ /\ plan[i].type \in Reaching
                         /\ ~Evaluated(plan[i], waypoints, stores[v]).passed
                      \/ /\ plan[i].type \notin Reaching
                         /\ Evaluated(plan[i], waypoints, stores[v]).passed
                      \/ plan[i].type = "max_tilt" /\ stores[v].attitudes = <<>>
    OBVIOUS
  <2>1. plan[i] \in Assertion
    <3>1. plan \in Seq(Assertion)
      BY CaseTypes DEF Inv, TypeOK
    <3> QED
      BY <3>1
  <2>2. stores[v] \in Store /\ stores'[v] \in Store /\ Earlier(stores[v], stores'[v])
    BY StoresGrow
  <2>3. CASE plan[i].type \in Reaching
    BY <2>1, <2>2, <2>3, ReachedStays
  <2>4. CASE plan[i].type \notin Reaching
    BY <2>1, <2>2, <2>4, ExceededStays
  <2> QED
    BY <2>3, <2>4
<1> QED
  BY <1>1, Invariance, PTL DEF Spec, VerdictsChangeOneWay

\* The pair whose turn it is is a pair still to be compared.
LEMMA NextPairLeft ==
  ASSUME TypeOK, PairsLeft # {}
  PROVE  NextPair \in Vehicles \X Vehicles /\ NextPair \in PairsLeft
<1> DEFINE firsts == {p[1] : p \in PairsLeft}
           m == First(firsts)
           seconds == {p[2] : p \in {q \in PairsLeft : q[1] = m}}
           n == First(seconds)
<1>1. PairsLeft \subseteq Vehicles \X Vehicles /\ Vehicles \subseteq Nat
  BY CaseTypes DEF PairsLeft, TypeOK
<1>2. \A p \in PairsLeft : p[1] \in Nat /\ p[2] \in Nat
  <2> SUFFICES ASSUME NEW p \in PairsLeft
               PROVE  p[1] \in Nat /\ p[2] \in Nat
    OBVIOUS
  <2>1. p \in Vehicles \X Vehicles
    BY <1>1
  <2>2. p[1] \in Vehicles /\ p[2] \in Vehicles
    BY <2>1
  <2> QED
    BY <1>1, <2>2
<1>3. m \in firsts /\ \A k \in firsts : m <= k
  <2>1. firsts \in SUBSET Nat /\ firsts # {}
    BY <1>2
  <2> HIDE DEF firsts
  <2> QED
    BY <2>1, FirstProperties
<1> HIDE DEF m
<1>4. n \in seconds /\ \A k \in seconds : n <= k
  <2>1. seconds \in SUBSET Nat /\ seconds # {}
    BY <1>2, <1>3
  <2> HIDE DEF seconds
  <2> QED
    BY <2>1, FirstProperties
<1> HIDE DEF n
<1>5. PICK p \in PairsLeft : p[1] = m /\ p[2] = n
  BY <1>4
<1>6. \A q \in PairsLeft : p[1] < q[1] \/ (p[1] = q[1] /\ p[2] <= q[2])
  <2> SUFFICES ASSUME NEW q \in PairsLeft
               PROVE  p[1] < q[1] \/ (p[1] = q[1] /\ p[2] <= q[2])
    OBVIOUS
  <2>1. m <= q[1] /\ m \in Nat /\ q[1] \in Nat
    BY <1>2, <1>3, <1>5
  <2>2. q[1] = m => n <= q[2]
    BY <1>4
  <2> QED
    BY <1>5, <2>1, <2>2
<1>7. NextPair \in PairsLeft
  BY <1>5, <1>6 DEF NextPair
<1> QED
  BY <1>1, <1>7

\* A pair is found apart only if its vehicles were apart whenever both were
\* sampled at the same time within the first one's window: the nearest sample
\* the code compares with is then the simultaneous one.
THEOREM SeparationPassesMeanApart == Spec => SeparationPassMeansApart
<1> DEFINE Apart == \A p \in apart' \ apart :
       LET A == stores[p[1]]
           B == stores[p[2]]
       IN  \A i \in DOMAIN A.positions, j \in DOMAIN B.positions :
             /\ A.positions[i] \in Within(A.positions, A, Separation)
             /\ B.positions[j].time = A.positions[i].time
             /\ ~\E k \in 1..(j - 1) : B.positions[k].time = A.positions[i].time
             => Distance(A.positions[i].place, B.positions[j].place)
                  >= Separation.min_distance
<1>1. Inv /\ [Next]_vars => [Apart]_vars
  <2> SUFFICES ASSUME Inv, [Next]_vars, NEW p \in apart' \ apart
               PROVE  LET A == stores[p[1]]
                          B == stores[p[2]]
                      IN  \A i \in DOMAIN A.positions, j \in DOMAIN B.positions :
                            /\ A.positions[i] \in Within(A.positions, A, Separation)
                            /\ B.positions[j].time = A.positions[i].time
                            /\ ~\E k \in 1..(j - 1) : B.positions[k].time = A.positions[i].time
                            => Distance(A.positions[i].place, B.positions[j].place)
                                 >= Separation.min_distance
    OBVIOUS
  <2>1. ComparePair /\ apart' = apart \cup {NextPair}
          /\ ~TooClose(stores[NextPair[1]], stores[NextPair[2]], Separation)
    <3>1. ComparePair
      BY DEF Next, vars, Tick, Record, EvaluateNext, EndEvaluation, AllApart, Separate,
         Separated, BuildReport
    <3> QED
      BY <3>1 DEF ComparePair, Separate
  <2>2. p = NextPair /\ p[1] \in Vehicles /\ p[2] \in Vehicles
    <3>1. p = NextPair
      BY <2>1
    <3>2. p \in Vehicles \X Vehicles
      BY <2>1, <3>1, NextPairLeft DEF ComparePair, Inv
    <3> QED
      BY <3>1, <3>2
  <2>3. Separation \in Assertion /\ Separation.type = "min_separation"
    BY <2>1, SeparationFirst DEF ComparePair, Inv
  <2> DEFINE A == stores[p[1]]
             B == stores[p[2]]
  <2>4. A \in Store /\ B \in Store /\ Orderly(A, now) /\ ~TooClose(A, B, Separation)
    BY <2>1, <2>2 DEF Inv, TypeOK, AllOrderly
  <2> HIDE DEF A, B
  <2>5. \A i \in DOMAIN A.positions, j \in DOMAIN B.positions :
          /\ A.positions[i] \in Within(A.positions, A, Separation)
          /\ B.positions[j].time = A.positions[i].time
          /\ ~\E k \in 1..(j - 1) : B.positions[k].time = A.positions[i].time
          => Distance(A.positions[i].place, B.positions[j].place) >= Separation.min_distance
    BY <2>3, <2>4, FoundApart
  <2> QED
    BY <2>5 DEF A, B
<1> QED
  BY <1>1, Invariance, PTL DEF Spec, SeparationPassMeansApart

----------------------------------------------------------------------------
(* Vehicles of other systems                                               *)

\* The store of a vehicle that is not system 1 never holds a position.
OthersUnseen == \A v \in Vehicles : scenario.fleet[v] # 1 => stores[v].positions = <<>>

\* No two vehicles are system 1.
OneSystem == \A v, w \in Vehicles : scenario.fleet[v] = 1 /\ scenario.fleet[w] = 1 => v = w

AllHeld == OneSystem => \A i \in DOMAIN inter : inter[i].passed

UnseenInv == OthersUnseen /\ AllHeld

LEMMA InitUnseen == Init => UnseenInv
<1> SUFFICES ASSUME Init PROVE UnseenInv
  OBVIOUS
<1>1. PICK start \in [Vehicles -> 0..MaxStart] : stores = [v \in Vehicles |-> NewStore(start[v])]
  BY DEF Init
<1>2. OthersUnseen
  BY <1>1 DEF OthersUnseen, NewStore
<1>3. AllHeld
  BY DEF AllHeld, Init
<1> QED
  BY <1>2, <1>3 DEF UnseenInv

\* The processor adds nothing to another system's store.
LEMMA RecordKeepsUnseen ==
  ASSUME Inv, UnseenInv, NEW u \in Vehicles, Record(u)
  PROVE  UnseenInv'
<1>1. scenario' = scenario /\ inter' = inter /\ stores \in [Vehicles -> Store]
  BY DEF Record, Inv, TypeOK
<1>2. PICK msg \in scenario.messages :
        stores' = [stores EXCEPT ![u] = process_message(scenario.fleet[u], msg, stores[u])]
  BY DEF Record
<1>3. ASSUME NEW v \in Vehicles, scenario.fleet[v] # 1
      PROVE  stores'[v] = stores[v]
  <2>1. CASE v = u
    <3>1. process_message(scenario.fleet[u], msg, stores[u]) = stores[u]
      BY <1>3, <2>1 DEF process_message
    <3> QED
      BY <1>1, <1>2, <2>1, <3>1
  <2>2. CASE v # u
    BY <1>1, <1>2, <2>2
  <2> QED
    BY <2>1, <2>2
<1>4. OthersUnseen'
  BY <1>1, <1>3 DEF UnseenInv, OthersUnseen, Vehicles
<1> QED
  BY <1>1, <1>4 DEF UnseenInv, AllHeld, OneSystem, Vehicles

\* A pair of which one store is empty is not too close.
LEMMA ComparePairKeepsUnseen ==
  ASSUME Inv, UnseenInv, ComparePair
  PROVE  UnseenInv'
<1>1. scenario' = scenario /\ stores' = stores
  BY DEF ComparePair
<1>2. OthersUnseen'
  BY <1>1 DEF UnseenInv, OthersUnseen, Vehicles
<1>3. ASSUME OneSystem PROVE inter' = inter
  <2>1. NextPair \in Vehicles \X Vehicles /\ NextPair[1] < NextPair[2]
    BY NextPairLeft DEF Inv, ComparePair, PairsLeft
  <2>2. /\ NextPair[1] \in Vehicles /\ NextPair[2] \in Vehicles
        /\ NextPair[1] # NextPair[2]
    <3>1. Vehicles \subseteq Nat
      BY CaseTypes DEF Inv, TypeOK
    <3>2. NextPair[1] \in Vehicles /\ NextPair[2] \in Vehicles
      BY <2>1
    <3> DEFINE first  == NextPair[1]
               second == NextPair[2]
    <3>3. first \in Nat /\ second \in Nat /\ first < second
      BY <2>1, <3>1, <3>2
    <3> HIDE DEF first, second
    <3>4. first # second
      BY <3>3
    <3> QED
      BY <3>2, <3>4 DEF first, second
  <2>3. scenario.fleet[NextPair[1]] # 1 \/ scenario.fleet[NextPair[2]] # 1
    BY <1>3, <2>2 DEF OneSystem
  <2>4. ~TooClose(stores[NextPair[1]], stores[NextPair[2]], Separation)
    BY <2>2, <2>3 DEF UnseenInv, OthersUnseen, TooClose
  <2> QED
    BY <2>4 DEF ComparePair
<1>4. AllHeld'
  BY <1>1, <1>3 DEF UnseenInv, AllHeld, OneSystem, Vehicles
<1> QED
  BY <1>2, <1>4 DEF UnseenInv

\* What nothing speaks against holds.
LEMMA AllApartKeepsUnseen ==
  ASSUME Inv, UnseenInv, AllApart
  PROVE  UnseenInv'
<1>1. scenario' = scenario /\ stores' = stores /\ inter' = Append(inter, Held)
  BY DEF AllApart, Separate
<1>2. inter \in Seq(AssertionResult) /\ Held \in AssertionResult /\ Held.passed
  BY DEF Inv, TypeOK, Held, AssertionResult
<1>3. (\A i \in DOMAIN inter : inter[i].passed) => \A i \in DOMAIN inter' : inter'[i].passed
  BY <1>1, <1>2
<1> QED
  BY <1>1, <1>3 DEF UnseenInv, OthersUnseen, AllHeld, OneSystem, Vehicles

\* However close they fly, vehicles are not found too close unless two of them
\* are system 1 (process_message, check_min_separation).
THEOREM OthersAreNeverTooClose == Spec => []OtherSystemsNeverTooClose
<1>1. Inv /\ UnseenInv /\ [Next]_vars => UnseenInv'
  <2> SUFFICES ASSUME Inv, UnseenInv, [Next]_vars PROVE UnseenInv'
    OBVIOUS
  <2>1. CASE \E v \in Vehicles : Record(v)
    BY <2>1, RecordKeepsUnseen
  <2>2. CASE ComparePair
    BY <2>2, ComparePairKeepsUnseen
  <2>3. CASE AllApart
    BY <2>3, AllApartKeepsUnseen
  <2>4. CASE UNCHANGED <<scenario, stores, inter>>
    BY <2>4 DEF UnseenInv, OthersUnseen, AllHeld, OneSystem, Vehicles
  <2>5. \/ Tick \/ EvaluateNext \/ EndEvaluation \/ Separated \/ BuildReport \/ UNCHANGED vars
          => UNCHANGED <<scenario, stores, inter>>
    BY DEF Tick, EvaluateNext, EndEvaluation, Separated, BuildReport, vars
  <2> QED
    BY <2>1, <2>2, <2>3, <2>4, <2>5 DEF Next
<1>2. UnseenInv => OtherSystemsNeverTooClose
  BY DEF UnseenInv, AllHeld, OneSystem, OtherSystemsNeverTooClose
<1> QED
  BY Invariance, InitUnseen, <1>1, <1>2, PTL DEF Spec
=============================================================================
