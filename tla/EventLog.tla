------------------------------ MODULE EventLog ------------------------------
(***************************************************************************)
(* The event log shared by threads                                         *)
(* (crates/px4-harness-core/src/event.rs): a vector behind a mutex, bounded *)
(* from the front.                                                         *)
(*                                                                         *)
(* record takes the time before it takes the lock, so a call is two steps  *)
(* here, Stamp and Append.  A thread that panics while it holds the lock   *)
(* poisons it, and every later lock().expect(..) panics too.  What an      *)
(* event tells (EventKind) is left out: an event is known by its thread    *)
(* and its number among that thread's events.                              *)
(***************************************************************************)
EXTENDS Naturals, Sequences

CONSTANTS
  Thread,      \* threads that record, and read
  Capacities,  \* values of max_events a log may be created with
  MaxTime,     \* bound: the clock
  MaxRecords   \* bound: calls of record by one thread

ASSUME CapacitiesAssumption == Capacities \subseteq Nat
ASSUME LogBoundsAssumption == MaxTime \in Nat /\ MaxRecords \in Nat

VARIABLES
  max_events,  \* the capacity
  events,      \* the events kept, oldest first
  poisoned,    \* a thread panicked under the lock
  now,         \* the clock since the log was created
  calls,       \* calls of record each thread has begun
  pending,     \* per thread, the event stamped and not yet appended, if any
  panicked,    \* threads that have panicked
  appended     \* history: every event ever appended, in lock order

logVars == <<max_events, events, poisoned, now, calls, pending, panicked, appended>>

\* "behind" is a history: how many events were in place when the time was taken.
Event == [thread : Thread, nth : Nat \ {0}, time : Nat, behind : Nat]

\* Types; the log stays within its capacity.
LogTypeOK ==
  /\ max_events \in Capacities
  /\ events \in Seq(Event) /\ Len(events) <= max_events
  /\ poisoned \in BOOLEAN
  /\ now \in Nat
  /\ calls \in [Thread -> Nat]
  /\ pending \in [Thread -> Seq(Event)]
  /\ panicked \subseteq Thread
  /\ appended \in Seq(Event)

----------------------------------------------------------------------------
LogInit ==
  /\ max_events \in Capacities
  /\ events = <<>> /\ poisoned = FALSE /\ now = 0
  /\ calls = [t \in Thread |-> 0]
  /\ pending = [t \in Thread |-> <<>>]
  /\ panicked = {}
  /\ appended = <<>>

Tick ==
  /\ now < MaxTime /\ now' = now + 1
  /\ UNCHANGED <<max_events, events, poisoned, calls, pending, panicked, appended>>

\* Between two calls.
Free(t) == t \notin panicked /\ pending[t] = <<>>

\* record begins: the elapsed time is read, the lock not yet taken.
Stamp(t) ==
  /\ Free(t) /\ calls[t] < MaxRecords
  /\ calls' = [calls EXCEPT ![t] = @ + 1]
  /\ pending' = [pending EXCEPT ![t] =
       <<[thread |-> t, nth |-> calls[t] + 1, time |-> now, behind |-> Len(appended)]>>]
  /\ UNCHANGED <<max_events, events, poisoned, now, panicked, appended>>

\* Mutant of Room: a full log is emptied.
RoomCleared(log) == IF Len(log) >= max_events THEN <<>> ELSE log

\* A full log gives up its first event.
Room(log) == IF Len(log) >= max_events THEN Tail(log) ELSE log

\* Mutant of Push: the newest event goes to the front.
PushFront(log, e) == <<e>> \o log

Push(log, e) == Append(log, e)

\* Mutant of NothingToRemove: a log is full one event too early.
NothingToRemoveEarly == Len(events) + 1 >= max_events /\ events = <<>>

\* A full log without an event to remove: max_events is 0.
NothingToRemove == Len(events) >= max_events /\ events = <<>>

Panic(t) ==
  /\ panicked' = panicked \cup {t}
  /\ UNCHANGED <<max_events, events, now, calls, appended>>

\* The lock is taken: the event is appended, or the thread panics, on the
\* poisoned lock or on the removal.
Enter(t) ==
  /\ t \notin panicked /\ pending[t] # <<>>
  /\ pending' = [pending EXCEPT ![t] = <<>>]
  /\ \/ poisoned /\ Panic(t) /\ UNCHANGED poisoned
     \/ ~poisoned /\ NothingToRemove /\ Panic(t) /\ poisoned' = TRUE
     \/ /\ ~poisoned /\ ~NothingToRemove
        /\ events' = Push(Room(events), pending[t][1])
        /\ appended' = Append(appended, pending[t][1])
        /\ UNCHANGED <<max_events, poisoned, now, calls, panicked>>

\* events, len and to_json change nothing, but panic on a poisoned lock.
Read(t) ==
  /\ Free(t) /\ poisoned /\ Panic(t)
  /\ UNCHANGED <<pending, poisoned>>

LogNext == Tick \/ \E t \in Thread : Stamp(t) \/ Enter(t) \/ Read(t)

LogSpec == LogInit /\ [][LogNext]_logVars

----------------------------------------------------------------------------
(* Properties                                                              *)

\* The log holds the newest events, in the order the lock was taken, as many
\* as it may: nothing in between is lost, and nothing is kept twice.
NewestKept ==
  /\ Len(events) = IF Len(appended) < max_events THEN Len(appended) ELSE max_events
  /\ \A i \in DOMAIN events :
       events[i] = appended[Len(appended) - Len(events) + i]

\* The log may be out of order of its time stamps, as they are taken before
\* the lock, but only between calls that overlap: an event that precedes an
\* older one was appended after the older one's time had been taken, by
\* another thread.
OnlyOverlapsInverted ==
  \A i, j \in DOMAIN events :
    i < j /\ events[i].time > events[j].time =>
      /\ events[i].thread # events[j].thread
      /\ events[j].behind < Len(appended) - Len(events) + i

\* A thread panics only on a log of capacity 0, the lock is poisoned then for
\* good, and such a log never holds an event.
OnlyCapacityZeroPanics ==
  /\ panicked # {} => poisoned
  /\ poisoned => max_events = 0 /\ appended = <<>>
============================================================================
