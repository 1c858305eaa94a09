------------------------------ MODULE Snapshot ------------------------------
(***************************************************************************)
(* Registry.Snapshot (internal/stats/stats.go) with the callback main      *)
(* gives it (main.go), taken while connections open and close and the      *)
(* store is replaced.  Close and Snapshot share no lock for the counters:  *)
(* each load and each increment is a step of its own.                      *)
(***************************************************************************)
EXTENDS Registry, Ring, Sequences, TLC

CONSTANTS
  Outcomes,   \* classifications that occur
  MaxSec,     \* bound: seconds
  MaxDelay,   \* bound: seconds a goroutine stalls after it read the time
  MaxSwaps    \* bound: stores swapped in

ASSUME SnapshotAssumption ==
  /\ Outcomes \subseteq Class
  /\ MaxSec \in Nat \ {0} /\ MaxSwaps \in Nat
  /\ MaxDelay \in 0..(N - 1)

VARIABLES
  now,         \* the time, in seconds
  events,      \* ghost: events[s], calls of tick made for second s
  stage,       \* stage[c]: the step of Close that connection c is about to take
  class,       \* class[c]: its classification
  sec,         \* sec[c]: the time it read for tick
  cur,         \* the active store, numbered
  lastReload,  \* the store that lastReload is the time of
  at,          \* where the snapshot is
  snap,        \* what it has collected
  overlap,     \* ghost: connections that were in Close while it was taken
  opened       \* ghost: connections opened when it copied the live set

ring == <<headSec, buckets>>
reader == <<at, snap, overlap, opened>>
db == <<cur, lastReload>>
conns == <<stage, class, sec>>
vars == <<rvars, ring, now, events, conns, db, reader>>

\* The order in which Snapshot loads the counters.
LoadOrder == <<"total", "hit", "miss", "empty", "denied_acl", "denied_rate", "denied_busy",
               "error_read", "error_write">>
NoSnap == [sec |-> 0, live |-> 0, counters |-> [k \in Class \cup {"total"} |-> 0],
           loaded |-> 0, classes |-> 0, sources |-> 0, before |-> 0]

Init ==
  /\ RegistryInit /\ RingInit
  /\ now = 1
  /\ events = [s \in 1..MaxSec |-> 0]
  /\ stage = [c \in Conn |-> "new"]
  /\ class = [c \in Conn |-> ""]
  /\ sec = [c \in Conn |-> 0]
  /\ cur = 1 /\ lastReload = 1
  /\ at = "idle" /\ snap = NoSnap /\ overlap = {} /\ opened = 0

-----------------------------------------------------------------------------
(* Connections: Open, and the steps of Close *)

To(c, s) == stage' = [stage EXCEPT ![c] = s]

\* In Close and not yet counted.
Closing == {c \in Conn : stage[c] \in {"delete", "total", "outcome"}}

OpenConn(c) ==
  /\ stage[c] = "new"
  /\ Open(c)
  /\ To(c, "open")
  /\ UNCHANGED <<class, sec, ring, now, events, db, reader>>

Mark(c, k) ==
  /\ stage[c] = "open"
  /\ CloseMark(c)
  /\ class' = [class EXCEPT ![c] = k]
  /\ To(c, "delete")
  /\ overlap' = IF at = "idle" THEN overlap ELSE overlap \cup {c}
  /\ UNCHANGED <<sec, ring, now, events, db, at, snap, opened>>

\* Mutant: a connection that ended in an error stays in the live set.
DeleteUnlessError(c) ==
  /\ stage[c] = "delete"
  /\ live' = IF class[c] = "error_write" THEN live ELSE live \ {c}
  /\ To(c, IF class[c] \in Answered THEN "total" ELSE "outcome")
  /\ UNCHANGED <<state, counters, class, sec, ring, now, events, db, reader>>

Delete(c) ==
  /\ stage[c] = "delete"
  /\ CloseDelete(c)
  /\ To(c, IF class[c] \in Answered THEN "total" ELSE "outcome")
  /\ UNCHANGED <<class, sec, ring, now, events, db, reader>>

CountTotal(c) ==
  /\ stage[c] = "total"
  /\ Add("total")
  /\ To(c, "outcome")
  /\ UNCHANGED <<class, sec, ring, now, events, db, reader>>

\* After a hit or miss the time is read for the ring.
CountOutcome(c) ==
  /\ stage[c] = "outcome"
  /\ Add(class[c])
  /\ To(c, IF class[c] \in Answered THEN "tick" ELSE "closed")
  /\ sec' = [sec EXCEPT ![c] = IF class[c] \in Answered THEN now ELSE 0]
  /\ UNCHANGED <<class, ring, now, events, db, reader>>

Tick(c) ==
  /\ stage[c] = "tick"
  /\ tick(sec[c])
  /\ events' = [events EXCEPT ![sec[c]] = @ + 1]
  /\ sec' = [sec EXCEPT ![c] = 0]
  /\ To(c, "closed")
  /\ UNCHANGED <<class, rvars, now, db, reader>>

-----------------------------------------------------------------------------
(* Reload's swap: both fields under one lock. *)

Swap ==
  /\ cur <= MaxSwaps
  /\ cur' = cur + 1
  /\ lastReload' = cur + 1
  /\ UNCHANGED <<rvars, ring, now, events, conns, reader>>

-----------------------------------------------------------------------------
(* Snapshot *)

Begin ==
  /\ at = "idle"
  /\ snap' = [NoSnap EXCEPT !.sec = now, !.before = cur]
  /\ overlap' = Closing
  /\ at' = "live"
  /\ UNCHANGED <<opened, rvars, ring, now, events, conns, db>>

\* The copy of the live set, under the lock.
CopyLive ==
  /\ at = "live"
  /\ snap' = [snap EXCEPT !.live = Cardinality(live)]
  /\ opened' = Cardinality({c \in Conn : stage[c] # "new"})
  /\ at' = "total"
  /\ UNCHANGED <<overlap, rvars, ring, now, events, conns, db>>

\* One atomic load after the other.
LoadCounter(i) ==
  /\ at = LoadOrder[i]
  /\ snap' = [snap EXCEPT !.counters[LoadOrder[i]] = counters[LoadOrder[i]]]
  /\ at' = IF i < Len(LoadOrder) THEN LoadOrder[i + 1] ELSE "rate"
  /\ UNCHANGED <<overlap, opened, rvars, ring, now, events, conns, db>>

Rate ==
  /\ at = "rate"
  /\ rate(snap.sec)
  /\ at' = "loaded"
  /\ UNCHANGED <<snap, overlap, opened, rvars, now, events, conns, db>>

LoadReloadTime ==
  /\ at = "loaded"
  /\ snap' = [snap EXCEPT !.loaded = lastReload]
  /\ at' = "classes"
  /\ UNCHANGED <<overlap, opened, rvars, ring, now, events, conns, db>>

\* Mutant: the counts come from a store pointer kept from the start.
LoadClassesEarlier ==
  /\ at = "classes"
  /\ snap' = [snap EXCEPT !.classes = snap.before]
  /\ at' = "sources"
  /\ UNCHANGED <<overlap, opened, rvars, ring, now, events, conns, db>>

LoadClasses ==
  /\ at = "classes"
  /\ snap' = [snap EXCEPT !.classes = cur]
  /\ at' = "sources"
  /\ UNCHANGED <<overlap, opened, rvars, ring, now, events, conns, db>>

LoadSources ==
  /\ at = "sources"
  /\ snap' = [snap EXCEPT !.sources = cur]
  /\ at' = "taken"
  /\ UNCHANGED <<overlap, opened, rvars, ring, now, events, conns, db>>

\* The payload is handed on.
Hand ==
  /\ at = "taken"
  /\ at' = "idle" /\ snap' = NoSnap /\ overlap' = {} /\ opened' = 0
  /\ UNCHANGED <<rvars, ring, now, events, conns, db>>

-----------------------------------------------------------------------------
\* A second passes; nobody holds a time for longer than MaxDelay.
HeldTimes == {sec[c] : c \in {c \in Conn : stage[c] = "tick"}}
               \cup (IF at \in {"idle", "loaded", "classes", "sources", "taken"} THEN {} ELSE {snap.sec})
Second ==
  /\ now < MaxSec
  /\ \A s \in HeldTimes : now < s + MaxDelay
  /\ now' = now + 1
  /\ UNCHANGED <<rvars, ring, events, conns, db, reader>>

ConnStep(c) ==
  \/ OpenConn(c) \/ Delete(c) \/ CountTotal(c) \/ CountOutcome(c) \/ Tick(c)
  \/ \E k \in Outcomes : Mark(c, k)

SnapStep ==
  \/ Begin \/ CopyLive \/ Rate \/ LoadReloadTime \/ LoadClasses \/ LoadSources \/ Hand
  \/ \E i \in 1..Len(LoadOrder) : LoadCounter(i)

Next == (\E c \in Conn : ConnStep(c)) \/ SnapStep \/ Swap \/ Second

Spec == Init /\ [][Next]_vars

\* Connections are interchangeable.
Symmetric == Permutations(Conn)

-----------------------------------------------------------------------------
(* Properties *)

\* The counters a snapshot shows, answered queries once.
Shown ==
  LET n(k) == snap.counters[k]
  IN  n("hit") + n("miss") + n("empty") + n("denied_acl") + n("denied_rate") + n("denied_busy")
        + n("error_read") + n("error_write")
Apart(m, n) == IF m > n THEN m - n ELSE n - m

\* A finished snapshot shows each connection that was opened when it copied
\* the live set as live or as counted, and its total is its hits and misses,
\* up to the connections that were in Close while it was taken: a snapshot
\* that no Close overlaps is exact.
SnapshotConserves ==
  at = "taken" =>
    /\ Apart(snap.live + Shown, opened) <= Cardinality(overlap)
    /\ Apart(snap.counters["total"], snap.counters["hit"] + snap.counters["miss"]) <= Cardinality(overlap)

\* The counts by class are not those of a store before the one whose load
\* time is shown, and the counts by source not of one before that; all three
\* are of one store unless a reload finished while the snapshot was taken.
StoreOfSnapshot ==
  at = "taken" =>
    /\ snap.loaded <= snap.classes /\ snap.classes <= snap.sources
    /\ snap.before = cur => snap.loaded = cur /\ snap.sources = cur

\* Times a caller may hold.
Recent == {s \in 1..now : now <= s + MaxDelay}

\* A rate asked for with a time that is up to MaxDelay old counts every event
\* of the N seconds up to the newest second seen, except the one asked for,
\* and nothing else: for the current time, the last N - 1 full seconds.  It
\* holds however late the calls before it got the lock, and however long the
\* counter was idle.
RateIsWindow ==
  \A s \in Recent :
    LET head == IF headSec > s THEN headSec ELSE s
    IN  rateAt(s) = SumFunctionOnSet(events, {t \in 1..MaxSec : t # s /\ t <= head /\ head < t + N})
=============================================================================
