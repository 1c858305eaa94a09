--------------------------- MODULE SnapshotProofs ---------------------------
(***************************************************************************)
(* Proofs for modules Snapshot and Ring, for any number of connections,    *)
(* seconds, buckets and swaps: what a snapshot that is taken while         *)
(* connections close and the store is replaced may show, and that each     *)
(* bucket of the ring holds the events of one second of the window.        *)
(***************************************************************************)
EXTENDS Snapshot, FiniteSetTheorems, WellFoundedInduction, TLAPS

Key == Class \cup {"total"}
Stages == {"new", "open", "delete", "total", "outcome", "tick", "closed"}
Loads == {"total", "hit", "miss", "empty", "denied_acl", "denied_rate", "denied_busy",
          "error_read", "error_write"}
Places == {"idle", "live", "rate", "loaded", "classes", "sources", "taken"} \cup Loads

Taken == [sec : Nat, live : Nat, counters : [Key -> Nat], loaded : Nat, classes : Nat,
          sources : Nat, before : Nat]

Types ==
  /\ live \subseteq Conn /\ state \in [Conn -> State] /\ counters \in [Key -> Nat]
  /\ stage \in [Conn -> Stages] /\ now \in 1..MaxSec
  /\ class \in [Conn -> Class \cup {""}]
  /\ cur \in Nat /\ lastReload \in Nat
  /\ at \in Places /\ snap \in Taken
  /\ overlap \subseteq Conn /\ opened \in Nat

\* The constants, as numbers.
LEMMA Bounds ==
  /\ MaxSec \in Nat /\ MaxSec >= 1
  /\ N \in Nat /\ N >= 2
  /\ MaxDelay \in 0..(N - 1)
BY SnapshotAssumption, RingAssumption DEF SnapshotAssumption, RingAssumption

\* The time, as a number.
LEMMA NowIsNat ==
  ASSUME Types PROVE now \in Nat /\ now >= 1 /\ now <= MaxSec
<1>1. now \in 1..MaxSec
  BY DEF Types
<1>2. QED
  BY <1>1, Bounds

-----------------------------------------------------------------------------
(* The steps of a snapshot, field by field *)

\* What a step of the snapshot does to the record it fills.
LEMMA BeginFields ==
  ASSUME Begin, now \in Nat, cur \in Nat
  PROVE  snap' \in Taken /\ snap'.before = cur /\ snap'.sec = now
BY DEF Begin, NoSnap, Taken, Key

\* The copy of the live set.
LEMMA CopyLiveFields ==
  ASSUME snap \in Taken, CopyLive, Cardinality(live) \in Nat
  PROVE  /\ snap' \in Taken /\ snap'.live = Cardinality(live)
         /\ snap'.sec = snap.sec /\ snap'.before = snap.before /\ snap'.counters = snap.counters
BY DEF CopyLive, Taken

\* The load of one counter.
LEMMA LoadFields ==
  ASSUME snap \in Taken, NEW k \in Key, NEW n \in Nat,
         snap' = [snap EXCEPT !.counters[k] = n]
  PROVE  /\ snap' \in Taken /\ snap'.counters = [snap.counters EXCEPT ![k] = n]
         /\ snap'.live = snap.live /\ snap'.sec = snap.sec /\ snap'.before = snap.before
BY DEF Taken

\* The load time of the store.
LEMMA ReloadTimeFields ==
  ASSUME snap \in Taken, LoadReloadTime, lastReload \in Nat
  PROVE  /\ snap' \in Taken /\ snap'.loaded = lastReload
         /\ snap'.live = snap.live /\ snap'.counters = snap.counters /\ snap'.before = snap.before
BY DEF LoadReloadTime, Taken

\* The counts by class.
LEMMA ClassesFields ==
  ASSUME snap \in Taken, LoadClasses, cur \in Nat
  PROVE  /\ snap' \in Taken /\ snap'.classes = cur /\ snap'.loaded = snap.loaded
         /\ snap'.live = snap.live /\ snap'.counters = snap.counters /\ snap'.before = snap.before
BY DEF LoadClasses, Taken

\* The counts by source.
LEMMA SourcesFields ==
  ASSUME snap \in Taken, LoadSources, cur \in Nat
  PROVE  /\ snap' \in Taken /\ snap'.sources = cur /\ snap'.classes = snap.classes
         /\ snap'.loaded = snap.loaded
         /\ snap'.live = snap.live /\ snap'.counters = snap.counters /\ snap'.before = snap.before
BY DEF LoadSources, Taken

\* The counter that is loaded, and the place the snapshot goes to.
LEMMA LoadPlaces ==
  ASSUME NEW i \in 1..Len(LoadOrder), LoadCounter(i)
  PROVE  /\ at \in Key /\ snap' = [snap EXCEPT !.counters[at] = counters[at]]
         /\ \/ at = "total" /\ at' = "hit"
            \/ at = "hit" /\ at' = "miss"
            \/ at = "miss" /\ at' = "empty"
            \/ at = "empty" /\ at' = "denied_acl"
            \/ at = "denied_acl" /\ at' = "denied_rate"
            \/ at = "denied_rate" /\ at' = "denied_busy"
            \/ at = "denied_busy" /\ at' = "error_read"
            \/ at = "error_read" /\ at' = "error_write"
            \/ at = "error_write" /\ at' = "rate"
<1>1. /\ at = LoadOrder[i] /\ snap' = [snap EXCEPT !.counters[at] = counters[at]]
      /\ at' = IF i < Len(LoadOrder) THEN LoadOrder[i + 1] ELSE "rate"
  BY DEF LoadCounter
<1>2. /\ Len(LoadOrder) = 9
      /\ LoadOrder[1] = "total" /\ LoadOrder[2] = "hit" /\ LoadOrder[3] = "miss"
      /\ LoadOrder[4] = "empty" /\ LoadOrder[5] = "denied_acl" /\ LoadOrder[6] = "denied_rate"
      /\ LoadOrder[7] = "denied_busy" /\ LoadOrder[8] = "error_read"
      /\ LoadOrder[9] = "error_write"
  BY DEF LoadOrder
<1>3. i \in 1..9
  BY <1>2
<1>4. i = 1 \/ i = 2 \/ i = 3 \/ i = 4 \/ i = 5 \/ i = 6 \/ i = 7 \/ i = 8 \/ i = 9
  BY <1>3
<1>5. QED
  BY <1>1, <1>2, <1>4 DEF Key, Class

-----------------------------------------------------------------------------
(* Types *)

\* The initial state has its types.
LEMMA TypesInit == Init => Types
<1> SUFFICES ASSUME Init PROVE Types
  OBVIOUS
<1>1. live \subseteq Conn /\ state \in [Conn -> State] /\ counters \in [Key -> Nat]
  BY DEF Init, RegistryInit, State, Key
<1>2. stage \in [Conn -> Stages] /\ class \in [Conn -> Class \cup {""}]
  BY DEF Init, Stages
<1>3. cur \in Nat /\ lastReload \in Nat /\ overlap \subseteq Conn /\ opened \in Nat
  BY DEF Init
<1>a. now \in 1..MaxSec
  <2>1. now = 1
    BY DEF Init
  <2>2. QED
    BY <2>1, Bounds
<1>4. at \in Places
  BY DEF Init, Places
<1>5. snap \in Taken
  BY DEF Init, NoSnap, Taken, Key
<1>6. QED
  BY <1>1, <1>2, <1>3, <1>a, <1>4, <1>5 DEF Types

\* A step of a connection keeps to itself, except that it joins the overlap
\* when it starts to close under a snapshot.
LEMMA ConnKeeps ==
  ASSUME NEW c \in Conn, ConnStep(c)
  PROVE  /\ UNCHANGED <<now, cur, lastReload, at, snap, opened>>
         /\ overlap' = overlap \/ (at # "idle" /\ overlap' = overlap \cup {c})
BY DEF ConnStep, OpenConn, Mark, Delete, CountTotal, CountOutcome, Tick, db, reader

\* An increment keeps the counters numbers.
LEMMA AddKeeps ==
  ASSUME counters \in [Key -> Nat], NEW k, Add(k)
  PROVE  counters' \in [Key -> Nat]
BY DEF Add

\* A step of a connection keeps the types.
LEMMA ConnTypes ==
  ASSUME Types, NEW c \in Conn, ConnStep(c)
  PROVE  Types'
<1> USE DEF Types
<1>1. live' \subseteq Conn
  BY DEF ConnStep, OpenConn, Open, Mark, CloseMark, SetState, Delete, CloseDelete, CountTotal,
         CountOutcome, Add, Tick, rvars
<1>2. state' \in [Conn -> State]
  <2>1. ASSUME CloseMark(c) PROVE state' \in [Conn -> State]
    BY <2>1 DEF CloseMark, SetState, State
  <2>2. CASE \E k \in Outcomes : Mark(c, k)
    BY <2>1, <2>2 DEF Mark
  <2>3. CASE ~\E k \in Outcomes : Mark(c, k)
    BY <2>3 DEF ConnStep, OpenConn, Open, Delete, CloseDelete, CountTotal, CountOutcome, Add,
                Tick, rvars
  <2>4. QED
    BY <2>2, <2>3
<1>3. counters' \in [Key -> Nat]
  <2>1. ASSUME NEW k, Add(k) PROVE counters' \in [Key -> Nat]
    BY <2>1, AddKeeps
  <2>2. QED
    BY <2>1 DEF ConnStep, OpenConn, Open, Mark, CloseMark, SetState, Delete, CloseDelete,
                CountTotal, CountOutcome, Tick, rvars
<1>4. stage' \in [Conn -> Stages]
  BY DEF ConnStep, OpenConn, Mark, Delete, CountTotal, CountOutcome, Tick, To, Stages
<1>5. class' \in [Conn -> Class \cup {""}]
  BY SnapshotAssumption DEF SnapshotAssumption, ConnStep, OpenConn, Mark, Delete, CountTotal,
     CountOutcome, Tick
<1>6. QED
  BY <1>1, <1>2, <1>3, <1>4, <1>5, ConnKeeps

\* What a step of the snapshot, a swap or the clock leaves alone.
LEMMA SnapKeeps ==
  ASSUME SnapStep \/ Swap \/ Second
  PROVE  UNCHANGED <<live, state, counters, stage, class>>
BY DEF SnapStep, Begin, CopyLive, LoadCounter, Rate, LoadReloadTime, LoadClasses, LoadSources,
       Hand, Swap, Second, rvars, conns

\* A step of the snapshot keeps the types.
LEMMA SnapTypes ==
  ASSUME Types, SnapStep
  PROVE  snap' \in Taken /\ at' \in Places /\ overlap' \subseteq Conn /\ opened' \in Nat
<1> USE DEF Types
<1>0. Cardinality(live) \in Nat /\ Cardinality({c \in Conn : stage[c] # "new"}) \in Nat
  <2>1. {c \in Conn : stage[c] # "new"} \subseteq Conn
    OBVIOUS
  <2>2. QED
    BY <2>1, RegistryAssumption, FS_Subset, FS_CardinalityType DEF RegistryAssumption
<1>1. CASE Begin
  <2>1. now \in Nat
    BY NowIsNat
  <2>2. QED
    BY <1>1, <2>1, BeginFields DEF Begin, Places, Closing
<1>2. CASE CopyLive
  BY <1>0, <1>2, CopyLiveFields DEF CopyLive, Places, Loads
<1>3. ASSUME NEW i \in 1..Len(LoadOrder), LoadCounter(i)
      PROVE  snap' \in Taken /\ at' \in Places /\ overlap' \subseteq Conn /\ opened' \in Nat
  <2>1. at \in Key /\ counters[at] \in Nat /\ snap' = [snap EXCEPT !.counters[at] = counters[at]]
    BY <1>3, LoadPlaces
  <2>2. snap' \in Taken
    BY <2>1, LoadFields
  <2>3. at' \in Places
    BY <1>3, LoadPlaces DEF Places, Loads
  <2>4. QED
    BY <1>3, <2>2, <2>3 DEF LoadCounter
<1>4. CASE Rate
  BY <1>4 DEF Rate, Places
<1>5. CASE LoadReloadTime
  BY <1>5, ReloadTimeFields DEF LoadReloadTime, Places
<1>6. CASE LoadClasses
  BY <1>6, ClassesFields DEF LoadClasses, Places
<1>7. CASE LoadSources
  BY <1>7, SourcesFields DEF LoadSources, Places
<1>8. CASE Hand
  <2>1. NoSnap \in Taken
    BY DEF NoSnap, Taken, Key
  <2>2. QED
    BY <1>8, <2>1 DEF Hand, Places
<1>9. QED
  BY <1>1, <1>2, <1>3, <1>4, <1>5, <1>6, <1>7, <1>8 DEF SnapStep

\* Every step keeps the types.
LEMMA TypesStep == Types /\ [Next]_vars => Types'
<1> SUFFICES ASSUME Types, [Next]_vars PROVE Types'
  OBVIOUS
<1>1. ASSUME NEW c \in Conn, ConnStep(c) PROVE Types'
  BY <1>1, ConnTypes
<1>2. CASE SnapStep
  <2>1. UNCHANGED <<now, cur, lastReload>>
    BY <1>2 DEF SnapStep, Begin, CopyLive, LoadCounter, Rate, LoadReloadTime, LoadClasses,
                LoadSources, Hand, db
  <2>2. QED
    BY <1>2, <2>1, SnapTypes, SnapKeeps DEF Types
<1>3. CASE Swap
  <2>1. /\ cur' = cur + 1 /\ lastReload' = cur + 1 /\ cur \in Nat
        /\ UNCHANGED <<now, at, snap, overlap, opened>>
    BY <1>3 DEF Swap, Types, reader
  <2>2. cur' \in Nat /\ lastReload' \in Nat
    BY <2>1
  <2>3. QED
    BY <1>3, <2>1, <2>2, SnapKeeps DEF Types
<1>4. CASE Second
  <2>1. now' \in 1..MaxSec
    <3>1. now' = now + 1 /\ now < MaxSec
      BY <1>4 DEF Second
    <3>2. QED
      BY <3>1, NowIsNat, Bounds
  <2>2. QED
    BY <1>4, <2>1, SnapKeeps DEF Second, Types, reader, db
<1>5. CASE UNCHANGED vars
  BY <1>5 DEF vars, rvars, conns, db, reader, Types
<1>6. QED
  BY <1>1, <1>2, <1>3, <1>4, <1>5 DEF Next

-----------------------------------------------------------------------------
(***************************************************************************)
(* The store: what was read before is not newer than what is read after.   *)
(***************************************************************************)
StoreOrder ==
  /\ lastReload = cur
  /\ at # "idle" => snap.before <= cur
  /\ at \in {"classes", "sources", "taken"} => snap.before <= snap.loaded /\ snap.loaded <= cur
  /\ at \in {"sources", "taken"} => snap.loaded <= snap.classes /\ snap.classes <= cur
  /\ at = "taken" => snap.classes <= snap.sources /\ snap.sources <= cur

\* Every step, a swap included, keeps the order in which stores were read.
LEMMA StoreOrderStep == Types /\ StoreOrder /\ [Next]_vars => StoreOrder'
<1> SUFFICES ASSUME Types, StoreOrder, [Next]_vars PROVE StoreOrder'
  OBVIOUS
<1>0. /\ snap \in Taken /\ cur \in Nat /\ lastReload \in Nat
      /\ snap.before \in Nat /\ snap.loaded \in Nat /\ snap.classes \in Nat /\ snap.sources \in Nat
  BY DEF Types, Taken
<1>1. ASSUME NEW c \in Conn, ConnStep(c) PROVE StoreOrder'
  BY <1>1, ConnKeeps DEF StoreOrder
<1>2. CASE Begin
  <2>1. snap'.before = cur
    <3>1. now \in Nat
      BY NowIsNat
    <3>2. QED
      BY <1>0, <1>2, <3>1, BeginFields
  <2>2. QED
    BY <1>0, <1>2, <2>1 DEF StoreOrder, Begin, db
<1>3. CASE CopyLive
  <2>1. Cardinality(live) \in Nat
    BY RegistryAssumption, FS_Subset, FS_CardinalityType DEF RegistryAssumption, Types
  <2>2. QED
    BY <1>0, <1>3, <2>1, CopyLiveFields DEF StoreOrder, CopyLive, db
<1>4. ASSUME NEW i \in 1..Len(LoadOrder), LoadCounter(i) PROVE StoreOrder'
  <2>1. snap'.before = snap.before
    BY <1>0, <1>4, LoadPlaces, LoadFields DEF Types
  <2>2. at # "idle" /\ at' \notin {"idle", "classes", "sources", "taken"} /\ UNCHANGED db
    BY <1>4, LoadPlaces DEF LoadCounter
  <2>3. QED
    BY <2>1, <2>2 DEF StoreOrder, db
<1>5. CASE Rate
  BY <1>5 DEF Rate, StoreOrder, db
<1>6. CASE LoadReloadTime
  BY <1>0, <1>6, ReloadTimeFields DEF LoadReloadTime, StoreOrder, db
<1>7. CASE LoadClasses
  BY <1>0, <1>7, ClassesFields DEF LoadClasses, StoreOrder, db
<1>8. CASE LoadSources
  BY <1>0, <1>8, SourcesFields DEF LoadSources, StoreOrder, db
<1>9. CASE Hand
  BY <1>9 DEF Hand, StoreOrder, db
<1>10. CASE Swap
  BY <1>0, <1>10 DEF Swap, StoreOrder, reader
<1>11. CASE Second \/ UNCHANGED vars
  BY <1>11 DEF Second, vars, StoreOrder, reader, db
<1>12. QED
  BY <1>1, <1>2, <1>3, <1>4, <1>5, <1>6, <1>7, <1>8, <1>9, <1>10, <1>11 DEF Next, SnapStep

\* The types hold throughout.
LEMMA TypesHold == Spec => []Types
BY TypesInit, TypesStep, PTL DEF Spec

\* The load time and the counts of a snapshot are of one store unless a reload
\* finished meanwhile, and never of an older one than what was read before.
THEOREM SnapshotStoreIsOrdered == Spec => []StoreOfSnapshot
<1>1. Init => StoreOrder
  BY DEF Init, StoreOrder
<1>2. Types /\ StoreOrder => StoreOfSnapshot
  <2> SUFFICES ASSUME Types, StoreOrder PROVE StoreOfSnapshot
    OBVIOUS
  <2>1. /\ snap.before \in Nat /\ snap.loaded \in Nat /\ snap.classes \in Nat
        /\ snap.sources \in Nat /\ cur \in Nat
    BY DEF Types, Taken
  <2>2. QED
    BY <2>1 DEF StoreOrder, StoreOfSnapshot
<1>3. QED
  BY <1>1, <1>2, TypesHold, StoreOrderStep, PTL DEF Spec

-----------------------------------------------------------------------------
(***************************************************************************)
(* The counters.  Each is the number of connections that have passed its   *)
(* increment.                                                              *)
(***************************************************************************)
Behind(k) ==
  {c \in Conn : IF k = "total" THEN class[c] \in Answered /\ stage[c] \in {"outcome", "tick", "closed"}
                ELSE class[c] = k /\ stage[c] \in {"tick", "closed"}}

ConnAt(c) ==
  /\ c \in live <=> stage[c] \in {"open", "delete"}
  /\ class[c] = "" <=> stage[c] \in {"new", "open"}
  /\ stage[c] \in {"total", "tick"} => class[c] \in Answered

Exact ==
  /\ \A c \in Conn : ConnAt(c)
  /\ \A k \in Key : counters[k] = Cardinality(Behind(k))

\* A step of one connection leaves the others alone.
LEMMA OthersStay ==
  ASSUME Types, NEW c \in Conn, ConnStep(c), NEW d \in Conn, d # c
  PROVE  stage'[d] = stage[d] /\ class'[d] = class[d] /\ (d \in live' <=> d \in live)
<1> USE DEF Types, To
<1>1. stage'[d] = stage[d]
  BY DEF ConnStep, OpenConn, Mark, Delete, CountTotal, CountOutcome, Tick
<1>2. class'[d] = class[d]
  BY DEF ConnStep, OpenConn, Mark, Delete, CountTotal, CountOutcome, Tick
<1>3. d \in live' <=> d \in live
  BY DEF ConnStep, OpenConn, Open, Mark, CloseMark, SetState, Delete, CloseDelete, CountTotal,
         CountOutcome, Add, Tick, rvars
<1>4. QED
  BY <1>1, <1>2, <1>3

\* The steps of one connection.
LEMMA ConnMoves ==
  ASSUME Types, StatsEnabled, NEW c \in Conn, ConnAt(c), ConnStep(c)
  PROVE  /\ ConnAt(c)'
         /\ \/ stage[c] = "new" /\ stage'[c] = "open" /\ counters' = counters
            \/ /\ stage[c] = "open" /\ stage'[c] = "delete" /\ counters' = counters
               /\ at # "idle" => c \in overlap'
            \/ /\ stage[c] = "delete" /\ counters' = counters /\ class'[c] = class[c]
               /\ stage'[c] = IF class[c] \in Answered THEN "total" ELSE "outcome"
            \/ /\ stage[c] = "total" /\ stage'[c] = "outcome" /\ class'[c] = class[c]
               /\ Add("total")
            \/ /\ stage[c] = "outcome" /\ stage'[c] \in {"tick", "closed"}
               /\ class'[c] = class[c] /\ Add(class[c])
            \/ /\ stage[c] = "tick" /\ stage'[c] = "closed" /\ class'[c] = class[c]
               /\ counters' = counters
<1> USE DEF Types, ConnAt, To, Answered
<1>1. CASE OpenConn(c)
  BY <1>1 DEF OpenConn, Open
<1>2. ASSUME NEW k \in Outcomes, Mark(c, k)
      PROVE  /\ ConnAt(c)' /\ stage[c] = "open" /\ stage'[c] = "delete" /\ counters' = counters
             /\ at # "idle" => c \in overlap'
  <2>1. k # ""
    BY SnapshotAssumption DEF SnapshotAssumption, Class
  <2>2. QED
    BY <1>2, <2>1 DEF Mark, CloseMark, SetState
<1>3. CASE Delete(c)
  BY <1>3 DEF Delete, CloseDelete
<1>4. CASE CountTotal(c)
  BY <1>4 DEF CountTotal, Add
<1>5. CASE CountOutcome(c)
  BY <1>5 DEF CountOutcome, Add
<1>6. CASE Tick(c)
  BY <1>6 DEF Tick, rvars
<1>7. QED
  BY <1>1, <1>2, <1>3, <1>4, <1>5, <1>6 DEF ConnStep

\* A connection passes the increment of k, with the increment and while it is
\* in Close, or neither the counter nor the connections behind it change.
LEMMA CountStep ==
  ASSUME Types, StatsEnabled, NEW c \in Conn, ConnAt(c), ConnStep(c), NEW k \in Key
  PROVE  \/ Behind(k)' = Behind(k) /\ counters'[k] = counters[k]
         \/ /\ c \notin Behind(k) /\ Behind(k)' = Behind(k) \cup {c} /\ c \in Closing
            /\ counters'[k] = counters[k] + 1
<1>1. \A d \in Conn : d # c => (d \in Behind(k)' <=> d \in Behind(k))
  BY OthersStay DEF Behind
<1>2. ASSUME NEW j, Add(j), j \in Key
      PROVE  counters'[k] = IF k = j THEN counters[k] + 1 ELSE counters[k]
  BY <1>2 DEF Add, Types
<1>3. ASSUME c \in Behind(k)' <=> c \in Behind(k) PROVE Behind(k)' = Behind(k)
  <2>1. \A d \in Conn : d \in Behind(k)' <=> d \in Behind(k)
    BY <1>1, <1>3
  <2>2. Behind(k) \subseteq Conn /\ Behind(k)' \subseteq Conn
    BY DEF Behind
  <2>3. QED
    BY <2>1, <2>2
<1>4. ASSUME c \in Behind(k)' PROVE Behind(k)' = Behind(k) \cup {c}
  <2>1. Behind(k) \subseteq Conn /\ Behind(k)' \subseteq Conn
    BY DEF Behind
  <2>2. QED
    BY <1>1, <1>4, <2>1
<1>5. ConnAt(c)'
  BY ConnMoves
<1>6. CASE counters' = counters /\ (c \in Behind(k)' <=> c \in Behind(k))
  BY <1>3, <1>6
<1>7. CASE stage[c] \in {"new", "open"} /\ stage'[c] \in {"open", "delete"} /\ counters' = counters
  BY <1>6, <1>7 DEF Behind
<1>8. CASE /\ stage[c] = "delete" /\ counters' = counters /\ class'[c] = class[c]
           /\ stage'[c] = IF class[c] \in Answered THEN "total" ELSE "outcome"
  BY <1>6, <1>8 DEF Behind
<1>9. CASE stage[c] = "total" /\ stage'[c] = "outcome" /\ class'[c] = class[c] /\ Add("total")
  <2>1. class[c] \in Answered
    BY <1>9 DEF ConnAt
  <2>2. counters'[k] = IF k = "total" THEN counters[k] + 1 ELSE counters[k]
    BY <1>2, <1>9 DEF Key
  <2>3. CASE k = "total"
    <3>1. c \notin Behind(k) /\ c \in Behind(k)' /\ c \in Closing
      BY <1>9, <2>1, <2>3 DEF Behind, Closing
    <3>2. QED
      BY <1>4, <2>2, <2>3, <3>1
  <2>4. CASE k # "total"
    <3>1. c \notin Behind(k) /\ c \notin Behind(k)'
      BY <1>9, <2>4 DEF Behind
    <3>2. QED
      BY <1>3, <2>2, <2>4, <3>1
  <2>5. QED
    BY <2>3, <2>4
<1>10. CASE /\ stage[c] = "outcome" /\ stage'[c] \in {"tick", "closed"}
            /\ class'[c] = class[c] /\ Add(class[c])
  <2>1. class[c] \in Class /\ class[c] # "total"
    BY <1>10 DEF ConnAt, Types, Class
  <2>2. counters'[k] = IF k = class[c] THEN counters[k] + 1 ELSE counters[k]
    BY <1>2, <1>10, <2>1 DEF Key
  <2>3. CASE k = class[c]
    <3>1. c \notin Behind(k) /\ c \in Behind(k)' /\ c \in Closing
      BY <1>10, <2>1, <2>3 DEF Behind, Closing
    <3>2. QED
      BY <1>4, <2>2, <2>3, <3>1
  <2>4. CASE k # class[c]
    <3>1. c \in Behind(k)' <=> c \in Behind(k)
      BY <1>10, <2>4 DEF Behind
    <3>2. QED
      BY <1>3, <2>2, <2>4, <3>1
  <2>5. QED
    BY <2>3, <2>4
<1>11. CASE /\ stage[c] = "tick" /\ stage'[c] = "closed" /\ class'[c] = class[c]
            /\ counters' = counters
  BY <1>6, <1>11 DEF Behind
<1>12. QED
  BY <1>7, <1>8, <1>9, <1>10, <1>11, ConnMoves

\* Only finitely many connections have been counted.
LEMMA BehindIsFinite ==
  ASSUME NEW k
  PROVE  IsFiniteSet(Behind(k)) /\ Cardinality(Behind(k)) \in Nat
BY RegistryAssumption, FS_Subset, FS_CardinalityType DEF RegistryAssumption, Behind

\* At first nothing is counted.
LEMMA ExactInit == Init => Exact
<1> SUFFICES ASSUME Init PROVE Exact
  OBVIOUS
<1>1. \A c \in Conn : ConnAt(c)
  BY DEF Init, RegistryInit, ConnAt
<1>2. ASSUME NEW k \in Key PROVE counters[k] = Cardinality(Behind(k))
  <2>1. Behind(k) = {}
    BY DEF Init, Behind, Answered
  <2>2. counters[k] = 0
    BY DEF Init, RegistryInit, Key
  <2>3. QED
    BY <2>1, <2>2, FS_EmptySet
<1>3. QED
  BY <1>1, <1>2 DEF Exact

\* Each increment is that of one connection.
LEMMA ExactStep ==
  ASSUME Types, StatsEnabled, Exact, [Next]_vars
  PROVE  Exact'
<1>1. ASSUME NEW c \in Conn, ConnStep(c) PROVE Exact'
  <2>1. ASSUME NEW d \in Conn PROVE ConnAt(d)'
    <3>1. CASE d = c
      BY <1>1, <3>1, ConnMoves DEF Exact
    <3>2. CASE d # c
      BY <1>1, <3>2, OthersStay DEF Exact, ConnAt
    <3>3. QED
      BY <3>1, <3>2
  <2>2. ASSUME NEW k \in Key PROVE counters'[k] = Cardinality(Behind(k)')
    <3>1. Cardinality(Behind(k) \cup {c}) = IF c \in Behind(k) THEN Cardinality(Behind(k))
                                            ELSE Cardinality(Behind(k)) + 1
      BY BehindIsFinite, FS_AddElement
    <3>2. \/ Behind(k)' = Behind(k) /\ counters'[k] = counters[k]
          \/ /\ c \notin Behind(k) /\ Behind(k)' = Behind(k) \cup {c}
             /\ counters'[k] = counters[k] + 1
      BY <1>1, CountStep DEF Exact
    <3>3. counters[k] = Cardinality(Behind(k))
      BY DEF Exact
    <3>4. QED
      BY <3>1, <3>2, <3>3
  <2>3. QED
    BY <2>1, <2>2 DEF Exact
<1>2. CASE UNCHANGED <<live, state, counters, stage, class>>
  BY <1>2 DEF Exact, ConnAt, Behind
<1>3. UNCHANGED vars => UNCHANGED <<live, state, counters, stage, class>>
  BY DEF vars, rvars, conns
<1>4. QED
  BY <1>1, <1>2, <1>3, SnapKeeps DEF Next

-----------------------------------------------------------------------------
(***************************************************************************)
(* The snapshot.  What it has read is still true of every connection       *)
(* outside the overlap: a counter was loaded as the size of a set that     *)
(* differs from those behind it only in the overlap, and the live set and  *)
(* the opened connections were copied as sets of which the same holds.     *)
(***************************************************************************)
Loaded ==
  CASE at \in {"idle", "live", "total"} -> {}
    [] at = "hit" -> {"total"}
    [] at = "miss" -> {"total", "hit"}
    [] at = "empty" -> {"total", "hit", "miss"}
    [] at = "denied_acl" -> {"total", "hit", "miss", "empty"}
    [] at = "denied_rate" -> {"total", "hit", "miss", "empty", "denied_acl"}
    [] at = "denied_busy" -> {"total", "hit", "miss", "empty", "denied_acl", "denied_rate"}
    [] at = "error_read" ->
         {"total", "hit", "miss", "empty", "denied_acl", "denied_rate", "denied_busy"}
    [] at = "error_write" ->
         {"total", "hit", "miss", "empty", "denied_acl", "denied_rate", "denied_busy", "error_read"}
    [] at \in {"rate", "loaded", "classes", "sources", "taken"} -> Key

\* m is the size of a set that is S outside V.
Seen(m, S, V) == \E X \in SUBSET S : m = Cardinality(X) /\ S \ V \subseteq X

CopyOf(O, L) ==
  /\ opened = Cardinality(O) /\ snap.live = Cardinality(L)
  /\ \A c \in Conn \ overlap : /\ c \in L => stage[c] = "open"
                               /\ c \in O <=> c \in L \/ stage[c] \in {"tick", "closed"}

Reading ==
  /\ at # "idle" => Closing \subseteq overlap
  /\ at \notin {"idle", "live"} => \E O \in SUBSET Conn : \E L \in SUBSET O : CopyOf(O, L)
  /\ \A k \in Loaded : Seen(snap.counters[k], Behind(k), overlap)

\* While a snapshot is taken, a connection in Close is in the overlap.
LEMMA ClosingStep ==
  ASSUME Types, StatsEnabled, Exact, Reading, NEW c \in Conn, ConnStep(c), at # "idle"
  PROVE  Closing' \subseteq overlap'
<1>1. overlap \subseteq overlap' /\ Closing \subseteq overlap
  BY ConnKeeps DEF Reading
<1>2. ASSUME NEW d \in Closing', d # c PROVE d \in overlap'
  BY <1>1, <1>2, OthersStay DEF Closing
<1>3. ASSUME c \in Closing' PROVE c \in overlap'
  <2>1. ConnAt(c)
    BY DEF Exact
  <2>2. c \in Closing \/ (at # "idle" => c \in overlap')
    BY <1>3, <2>1, ConnMoves DEF Closing
  <2>3. QED
    BY <1>1, <2>2
<1>4. QED
  BY <1>2, <1>3

\* A loaded counter stays right but for the connections in the overlap.
LEMMA SeenStep ==
  ASSUME Types, StatsEnabled, Exact, Reading, NEW c \in Conn, ConnStep(c), at # "idle",
         NEW k \in Key, NEW m, Seen(m, Behind(k), overlap)
  PROVE  Seen(m, Behind(k)', overlap')
<1>1. overlap \subseteq overlap' /\ Closing \subseteq overlap
  BY ConnKeeps DEF Reading
<1>2. \/ Behind(k)' = Behind(k)
      \/ Behind(k)' = Behind(k) \cup {c} /\ c \in Closing
  BY CountStep DEF Exact
<1>3. Behind(k) \subseteq Behind(k)' /\ Behind(k)' \ overlap' \subseteq Behind(k) \ overlap
  BY <1>1, <1>2
<1>4. QED
  BY <1>3 DEF Seen

\* The copy of the live set stays right but for the overlap.
LEMMA CopyStep ==
  ASSUME Types, StatsEnabled, Exact, Reading, NEW c \in Conn, ConnStep(c), at # "idle",
         NEW O, NEW L, CopyOf(O, L)
  PROVE  CopyOf(O, L)'
<1>1. /\ overlap \subseteq overlap' /\ Closing \subseteq overlap
      /\ opened' = opened /\ snap' = snap
  BY ConnKeeps DEF Reading
<1>2. ASSUME NEW d \in Conn \ overlap'
      PROVE  /\ d \in L => stage'[d] = "open"
             /\ d \in O <=> d \in L \/ stage'[d] \in {"tick", "closed"}
  <2>1. d \notin Closing
    BY <1>1, <1>2
  <2>2. CASE d # c
    BY <1>1, <1>2, <2>2, OthersStay DEF CopyOf
  <2>3. CASE d = c
    <3>1. \/ stage[c] = "new" /\ stage'[c] = "open"
          \/ stage[c] = "tick" /\ stage'[c] = "closed"
      BY <1>2, <2>1, <2>3, ConnMoves DEF Exact, Closing
    <3>2. QED
      BY <1>1, <1>2, <2>3, <3>1 DEF CopyOf
  <2>4. QED
    BY <2>2, <2>3
<1>3. QED
  BY <1>1, <1>2 DEF CopyOf

\* A step of the snapshot after the copy reads at most one more counter.
LEMMA LoadStep ==
  ASSUME Reading, UNCHANGED <<stage, class, overlap, opened>>, snap'.live = snap.live,
         at \notin {"idle", "live"}, at' \notin {"idle", "live"},
         \A k \in Loaded' : \/ k \in Loaded /\ snap'.counters[k] = snap.counters[k]
                            \/ snap'.counters[k] = Cardinality(Behind(k))
  PROVE  Reading'
<1>1. Closing' \subseteq overlap'
  BY DEF Reading, Closing
<1>2. \E O \in SUBSET Conn : \E L \in SUBSET O : CopyOf(O, L)'
  <2>a. PICK O \in SUBSET Conn : \E L \in SUBSET O : CopyOf(O, L)
    BY DEF Reading
  <2>1. PICK L \in SUBSET O : CopyOf(O, L)
    BY <2>a
  <2>2. CopyOf(O, L)'
    BY <2>1 DEF CopyOf
  <2>3. QED
    BY <2>2
<1>3. ASSUME NEW k \in Loaded' PROVE Seen(snap'.counters[k], Behind(k)', overlap')
  <2>1. Behind(k)' = Behind(k) /\ overlap' = overlap
    BY DEF Behind
  <2>2. CASE k \in Loaded /\ snap'.counters[k] = snap.counters[k]
    BY <2>1, <2>2 DEF Reading
  <2>3. CASE snap'.counters[k] = Cardinality(Behind(k))
    <3>1. Seen(snap'.counters[k], Behind(k), overlap)
      BY <2>3 DEF Seen
    <3>2. QED
      BY <2>1, <3>1
  <2>4. QED
    BY <1>3, <2>2, <2>3
<1>4. QED
  BY <1>1, <1>2, <1>3 DEF Reading

\* What the snapshot has read stays right but for the overlap.
LEMMA ReadingStep ==
  ASSUME Types, StatsEnabled, Exact, Reading, [Next]_vars
  PROVE  Reading'
<1>0. snap \in Taken /\ cur \in Nat /\ lastReload \in Nat
  BY DEF Types
<1>1. ASSUME NEW c \in Conn, ConnStep(c) PROVE Reading'
  <2>0. at' = at /\ snap' = snap /\ Loaded' = Loaded
    BY <1>1, ConnKeeps DEF Loaded
  <2>1. CASE at = "idle"
    BY <2>0, <2>1 DEF Reading, Loaded
  <2>2. CASE at # "idle"
    <3>1. Closing' \subseteq overlap'
      BY <1>1, <2>2, ClosingStep
    <3>2. ASSUME at # "live" PROVE \E O \in SUBSET Conn : \E L \in SUBSET O : CopyOf(O, L)'
      BY <1>1, <2>2, <3>2, CopyStep DEF Reading
    <3>3. ASSUME NEW k \in Loaded PROVE Seen(snap.counters[k], Behind(k)', overlap')
      <4>1. k \in Key
        BY <3>3 DEF Loaded, Key, Class, Types, Places, Loads
      <4>2. QED
        BY <1>1, <2>2, <3>3, <4>1, SeenStep DEF Reading
    <3>4. QED
      BY <2>0, <2>2, <3>1, <3>2, <3>3 DEF Reading
  <2>3. QED
    BY <2>1, <2>2
<1>2. CASE Begin
  BY <1>2 DEF Begin, Reading, Closing, Loaded, conns
<1>3. CASE CopyLive
  <2>1. /\ at = "live" /\ at' = "total" /\ UNCHANGED <<stage, overlap>>
        /\ opened' = Cardinality({c \in Conn : stage[c] # "new"})
    BY <1>3 DEF CopyLive, conns
  <2>2. snap'.live = Cardinality(live) /\ live \subseteq Conn
    <3>1. Cardinality(live) \in Nat
      BY RegistryAssumption, FS_Subset, FS_CardinalityType DEF RegistryAssumption, Types
    <3>2. QED
      BY <1>0, <1>3, <3>1, CopyLiveFields DEF Types
  <2>3. Closing \subseteq overlap
    BY <2>1 DEF Reading
  <2>4. PICK O \in SUBSET Conn, L \in SUBSET Conn :
          O = {c \in Conn : stage[c] # "new"} /\ L = live /\ L \subseteq O
    <3>1. live \subseteq {c \in Conn : stage[c] # "new"}
      BY <2>2 DEF Exact, ConnAt
    <3>2. QED
      BY <2>2, <3>1
  <2>5. ASSUME NEW c \in Conn \ overlap
        PROVE  /\ c \in L => stage[c] = "open"
               /\ c \in O <=> c \in L \/ stage[c] \in {"tick", "closed"}
    BY <2>3, <2>4, <2>5 DEF Exact, ConnAt, Closing, Types, Stages
  <2>6. CopyOf(O, L)'
    BY <2>1, <2>2, <2>4, <2>5 DEF CopyOf
  <2>7. \E P \in SUBSET Conn : \E M \in SUBSET P : CopyOf(P, M)'
    BY <2>4, <2>6
  <2>8. Closing' \subseteq overlap'
    BY <2>1, <2>3 DEF Closing
  <2>9. QED
    BY <2>1, <2>7, <2>8 DEF Reading, Loaded
<1>4. ASSUME NEW i \in 1..Len(LoadOrder), LoadCounter(i) PROVE Reading'
  <2>1. at \in Key /\ counters[at] \in Nat /\ snap' = [snap EXCEPT !.counters[at] = counters[at]]
    BY <1>4, LoadPlaces DEF Types
  <2>2. snap'.counters = [snap.counters EXCEPT ![at] = counters[at]] /\ snap'.live = snap.live
    BY <1>0, <2>1, LoadFields
  <2>3. snap.counters \in [Key -> Nat]
    BY <1>0 DEF Taken
  <2>4. UNCHANGED <<stage, class, overlap, opened>>
    BY <1>4 DEF LoadCounter, conns
  <2>5. at \notin {"idle", "live"} /\ at' \notin {"idle", "live"}
    BY <1>4, LoadPlaces
  <2>6. \A k \in Loaded' : k \in Key /\ (k \in Loaded \/ k = at)
    BY <1>4, LoadPlaces DEF Loaded, Key, Class
  <2>7. counters[at] = Cardinality(Behind(at))
    BY <2>1 DEF Exact
  <2>8. \A k \in Loaded' : \/ k \in Loaded /\ snap'.counters[k] = snap.counters[k]
                           \/ snap'.counters[k] = Cardinality(Behind(k))
    BY <2>2, <2>3, <2>6, <2>7
  <2>9. QED
    BY <2>2, <2>4, <2>5, <2>8, LoadStep
<1>5. CASE Rate \/ LoadReloadTime \/ LoadClasses \/ LoadSources
  <2>1. snap'.live = snap.live /\ snap'.counters = snap.counters
    BY <1>0, <1>5, ReloadTimeFields, ClassesFields, SourcesFields DEF Rate
  <2>2. UNCHANGED <<stage, class, overlap, opened>>
    BY <1>5 DEF Rate, LoadReloadTime, LoadClasses, LoadSources, conns
  <2>3. /\ at \in {"rate", "loaded", "classes", "sources"}
        /\ at' \in {"loaded", "classes", "sources", "taken"}
    BY <1>5 DEF Rate, LoadReloadTime, LoadClasses, LoadSources
  <2>4. Loaded' = Loaded
    BY <2>3 DEF Loaded
  <2>5. QED
    BY <2>1, <2>2, <2>3, <2>4, LoadStep
<1>6. CASE Hand
  BY <1>6 DEF Hand, Reading, Loaded
<1>7. CASE Swap \/ Second \/ UNCHANGED vars
  <2>1. UNCHANGED <<stage, class, reader>>
    BY <1>7 DEF Swap, Second, vars, conns
  <2>2. /\ at' = at /\ snap' = snap /\ overlap' = overlap
        /\ Closing' = Closing /\ \A k : Behind(k)' = Behind(k)
    BY <2>1 DEF Closing, Behind, reader
  <2>3. Loaded' = Loaded
    BY <2>2 DEF Loaded
  <2>4. \A O, L : CopyOf(O, L) => CopyOf(O, L)'
    BY <2>1, <2>2 DEF CopyOf, reader
  <2>5. QED
    BY <2>2, <2>3, <2>4 DEF Reading
<1>8. QED
  BY <1>1, <1>2, <1>3, <1>4, <1>5, <1>6, <1>7 DEF Next, SnapStep

-----------------------------------------------------------------------------
(* Counting *)

\* A part of a finite set is finite and not larger.
LEMMA PartOf ==
  ASSUME NEW S, IsFiniteSet(S), NEW T \in SUBSET S
  PROVE  IsFiniteSet(T) /\ Cardinality(T) \in Nat /\ Cardinality(S) \in Nat
         /\ Cardinality(T) <= Cardinality(S)
BY FS_Subset, FS_CardinalityType

\* Sizes of sets with nothing in common add up.
LEMMA DisjointUnion ==
  ASSUME NEW S, NEW T, IsFiniteSet(S), IsFiniteSet(T), S \cap T = {}
  PROVE  IsFiniteSet(S \cup T) /\ Cardinality(S \cup T) = Cardinality(S) + Cardinality(T)
<1>1. Cardinality(S \cup T) = Cardinality(S) + Cardinality(T) - Cardinality(S \cap T)
      /\ IsFiniteSet(S \cup T)
  BY FS_Union
<1>2. Cardinality(S \cap T) = 0
  BY FS_EmptySet
<1>3. Cardinality(S) \in Nat /\ Cardinality(T) \in Nat
  BY FS_CardinalityType
<1>4. QED
  BY <1>1, <1>2, <1>3

\* A set splits into what is outside V and what is inside.
LEMMA Split ==
  ASSUME NEW S, NEW V, IsFiniteSet(S), IsFiniteSet(V)
  PROVE  /\ Cardinality(S) = Cardinality(S \ V) + Cardinality(S \cap V)
         /\ Cardinality(S) \in Nat /\ Cardinality(S \ V) \in Nat /\ Cardinality(S \cap V) \in Nat
         /\ Cardinality(V) \in Nat /\ Cardinality(S \cap V) <= Cardinality(V)
<1>1. IsFiniteSet(S \ V) /\ IsFiniteSet(S \cap V)
  BY PartOf
<1>2. (S \ V) \cup (S \cap V) = S /\ (S \ V) \cap (S \cap V) = {}
  OBVIOUS
<1>3. Cardinality(S) = Cardinality(S \ V) + Cardinality(S \cap V)
  BY <1>1, <1>2, DisjointUnion
<1>4. S \cap V \in SUBSET V
  OBVIOUS
<1>5. Cardinality(S \cap V) <= Cardinality(V) /\ Cardinality(V) \in Nat
  BY <1>4, PartOf
<1>6. QED
  BY <1>1, <1>3, <1>5, FS_CardinalityType

\* Sets that agree outside V differ in size by at most V.
LEMMA CloseSizes ==
  ASSUME NEW S, NEW T, NEW V, IsFiniteSet(S), IsFiniteSet(T), IsFiniteSet(V), S \ V = T \ V
  PROVE  Apart(Cardinality(S), Cardinality(T)) <= Cardinality(V)
<1>1. /\ Cardinality(S) = Cardinality(S \ V) + Cardinality(S \cap V)
      /\ Cardinality(S) \in Nat /\ Cardinality(S \ V) \in Nat /\ Cardinality(S \cap V) \in Nat
      /\ Cardinality(V) \in Nat /\ Cardinality(S \cap V) <= Cardinality(V)
  BY Split
<1>2. /\ Cardinality(T) = Cardinality(T \ V) + Cardinality(T \cap V)
      /\ Cardinality(T) \in Nat /\ Cardinality(T \ V) \in Nat /\ Cardinality(T \cap V) \in Nat
      /\ Cardinality(T \cap V) <= Cardinality(V)
  BY Split
<1>3. Cardinality(S \ V) = Cardinality(T \ V)
  OBVIOUS
<1>4. QED
  BY <1>1, <1>2, <1>3 DEF Apart

\* L is part of O; outside V, L and X are O and have nothing in common.
LEMMA CloseSums ==
  ASSUME NEW O, NEW X, NEW V, IsFiniteSet(O), IsFiniteSet(X), IsFiniteSet(V),
         NEW L \in SUBSET O, (L \cup X) \ V = O \ V, (L \cap X) \ V = {}
  PROVE  Apart(Cardinality(L) + Cardinality(X), Cardinality(O)) <= Cardinality(V)
<1>0. IsFiniteSet(L) /\ IsFiniteSet(L \ V) /\ IsFiniteSet(X \ V)
  BY PartOf
<1>1. /\ Cardinality(X) = Cardinality(X \ V) + Cardinality(X \cap V)
      /\ Cardinality(X) \in Nat /\ Cardinality(X \ V) \in Nat /\ Cardinality(X \cap V) \in Nat
      /\ Cardinality(V) \in Nat /\ Cardinality(X \cap V) <= Cardinality(V)
  BY Split
<1>2. /\ Cardinality(L) = Cardinality(L \ V) + Cardinality(L \cap V)
      /\ Cardinality(L) \in Nat /\ Cardinality(L \ V) \in Nat /\ Cardinality(L \cap V) \in Nat
  BY <1>0, Split
<1>3. /\ Cardinality(O) = Cardinality(O \ V) + Cardinality(O \cap V)
      /\ Cardinality(O) \in Nat /\ Cardinality(O \ V) \in Nat /\ Cardinality(O \cap V) \in Nat
      /\ Cardinality(O \cap V) <= Cardinality(V)
  BY Split
<1>4. Cardinality(O \ V) = Cardinality(L \ V) + Cardinality(X \ V)
  <2>1. O \ V = (L \ V) \cup (X \ V) /\ (L \ V) \cap (X \ V) = {}
    OBVIOUS
  <2>2. QED
    BY <1>0, <2>1, DisjointUnion
<1>5. Cardinality(L \cap V) <= Cardinality(O \cap V)
  <2>1. L \cap V \in SUBSET (O \cap V) /\ IsFiniteSet(O \cap V)
    BY PartOf
  <2>2. QED
    BY <2>1, PartOf
<1>6. QED
  BY <1>1, <1>2, <1>3, <1>4, <1>5 DEF Apart

-----------------------------------------------------------------------------
\* When the snapshot is taken, what it has read adds up, but for the overlap.
LEMMA TakenConserves ==
  ASSUME Types, Exact, Reading, at = "taken"
  PROVE  /\ Apart(snap.live + Shown, opened) <= Cardinality(overlap)
         /\ Apart(snap.counters["total"], snap.counters["hit"] + snap.counters["miss"])
              <= Cardinality(overlap)
<1> DEFINE n(k) == snap.counters[k]
           X(k) == CHOOSE Y \in SUBSET Behind(k) : n(k) = Cardinality(Y) /\ Behind(k) \ overlap \subseteq Y
<1>1. ASSUME NEW k \in Key
      PROVE  /\ X(k) \in SUBSET Behind(k) /\ n(k) = Cardinality(X(k))
             /\ Behind(k) \ overlap \subseteq X(k) /\ IsFiniteSet(X(k))
  <2>1. Loaded = Key
    BY DEF Loaded
  <2>2. \E Y \in SUBSET Behind(k) : n(k) = Cardinality(Y) /\ Behind(k) \ overlap \subseteq Y
    BY <2>1 DEF Reading, Seen
  <2>3. /\ X(k) \in SUBSET Behind(k) /\ n(k) = Cardinality(X(k))
        /\ Behind(k) \ overlap \subseteq X(k)
    BY <2>2
  <2>4. QED
    BY <2>3, BehindIsFinite, PartOf
<1> HIDE DEF X
<1>2. \A k \in Class : \A c \in X(k) : class[c] = k /\ stage[c] \in {"tick", "closed"} /\ c \in Conn
  BY <1>1 DEF Behind, Key, Class
<1>3. IsFiniteSet(overlap) /\ overlap \subseteq Conn /\ Closing \subseteq overlap
  BY RegistryAssumption, FS_Subset DEF RegistryAssumption, Types, Reading
<1>4. \A c \in Conn \ overlap : /\ stage[c] \in {"new", "open", "tick", "closed"}
                                /\ stage[c] \in {"tick", "closed"} => class[c] \in Class
  BY <1>3 DEF Closing, Types, Stages, Exact, ConnAt
<1> DEFINE U2 == X("hit") \cup X("miss")
           U3 == U2 \cup X("empty")
           U4 == U3 \cup X("denied_acl")
           U5 == U4 \cup X("denied_rate")
           U6 == U5 \cup X("denied_busy")
           U7 == U6 \cup X("error_read")
           U8 == U7 \cup X("error_write")
<1>5. IsFiniteSet(U2) /\ Cardinality(U2) = n("hit") + n("miss")
  <2>1. X("hit") \cap X("miss") = {}
    BY <1>2 DEF Class
  <2>2. "hit" \in Key /\ "miss" \in Key
    BY DEF Key, Class
  <2>3. /\ IsFiniteSet(X("hit")) /\ n("hit") = Cardinality(X("hit"))
        /\ IsFiniteSet(X("miss")) /\ n("miss") = Cardinality(X("miss"))
    BY <1>1, <2>2
  <2> HIDE DEF n
  <2>4. QED
    BY <2>1, <2>3, DisjointUnion
<1>6. ASSUME NEW S, IsFiniteSet(S), NEW k \in Class, S \cap X(k) = {}
      PROVE  IsFiniteSet(S \cup X(k)) /\ Cardinality(S \cup X(k)) = Cardinality(S) + n(k)
  BY <1>1, <1>6, DisjointUnion DEF Key
<1>7. IsFiniteSet(U3) /\ Cardinality(U3) = Cardinality(U2) + n("empty")
  <2>1. U2 \cap X("empty") = {}
    BY <1>2 DEF Class
  <2>2. QED
    BY <1>5, <1>6, <2>1 DEF Class
<1>8. IsFiniteSet(U4) /\ Cardinality(U4) = Cardinality(U3) + n("denied_acl")
  <2>1. U3 \cap X("denied_acl") = {}
    BY <1>2 DEF Class
  <2>2. QED
    BY <1>7, <1>6, <2>1 DEF Class
<1>9. IsFiniteSet(U5) /\ Cardinality(U5) = Cardinality(U4) + n("denied_rate")
  <2>1. U4 \cap X("denied_rate") = {}
    BY <1>2 DEF Class
  <2>2. QED
    BY <1>8, <1>6, <2>1 DEF Class
<1>10. IsFiniteSet(U6) /\ Cardinality(U6) = Cardinality(U5) + n("denied_busy")
  <2>1. U5 \cap X("denied_busy") = {}
    BY <1>2 DEF Class
  <2>2. QED
    BY <1>9, <1>6, <2>1 DEF Class
<1>11. IsFiniteSet(U7) /\ Cardinality(U7) = Cardinality(U6) + n("error_read")
  <2>1. U6 \cap X("error_read") = {}
    BY <1>2 DEF Class
  <2>2. QED
    BY <1>10, <1>6, <2>1 DEF Class
<1>12. IsFiniteSet(U8) /\ Cardinality(U8) = Cardinality(U7) + n("error_write")
  <2>1. U7 \cap X("error_write") = {}
    BY <1>2 DEF Class
  <2>2. QED
    BY <1>11, <1>6, <2>1 DEF Class
<1>13. Shown = Cardinality(U8)
  BY <1>5, <1>7, <1>8, <1>9, <1>10, <1>11, <1>12 DEF Shown
<1>14. \A c \in Conn \ overlap : c \in U8 <=> stage[c] \in {"tick", "closed"}
  <2>1. ASSUME NEW c \in Conn \ overlap, stage[c] \in {"tick", "closed"} PROVE c \in U8
    <3>1. class[c] \in Class
      BY <1>4, <2>1
    <3>2. c \in Behind(class[c])
      BY <2>1, <3>1 DEF Behind, Class
    <3>3. c \in X(class[c])
      BY <1>1, <2>1, <3>1, <3>2 DEF Key
    <3>4. QED
      BY <3>1, <3>3 DEF Class
  <2>2. ASSUME NEW c \in U8 PROVE stage[c] \in {"tick", "closed"}
    BY <1>2, <2>2 DEF Class
  <2>3. QED
    BY <2>1, <2>2
<1>15. U8 \subseteq Conn /\ U2 \subseteq Conn /\ X("total") \subseteq Conn
  BY <1>1, <1>2 DEF Behind, Key, Class
<1>16. Apart(n("total"), n("hit") + n("miss")) <= Cardinality(overlap)
  <2>1. ASSUME NEW c \in Conn \ overlap PROVE c \in X("total") <=> c \in U2
    <3>1. c \in X("total") <=> class[c] \in Answered /\ stage[c] \in {"tick", "closed"}
      BY <1>1, <1>4, <2>1 DEF Behind, Key
    <3>2. \A k \in {"hit", "miss"} : c \in X(k) <=> class[c] = k /\ stage[c] \in {"tick", "closed"}
      BY <1>1, <1>2, <2>1 DEF Behind, Key, Class
    <3>3. QED
      BY <3>1, <3>2 DEF Answered
  <2>2. X("total") \ overlap = U2 \ overlap
    BY <1>15, <2>1
  <2>3. IsFiniteSet(X("total")) /\ n("total") = Cardinality(X("total"))
    BY <1>1 DEF Key
  <2>4. Apart(Cardinality(X("total")), Cardinality(U2)) <= Cardinality(overlap)
    BY <1>3, <1>5, <2>2, <2>3, CloseSizes
  <2>5. QED
    BY <1>5, <2>3, <2>4
<1>17. Apart(snap.live + Shown, opened) <= Cardinality(overlap)
  <2>1. PICK O \in SUBSET Conn : \E L \in SUBSET O : CopyOf(O, L)
    BY DEF Reading
  <2>2. PICK L \in SUBSET O : CopyOf(O, L)
    BY <2>1
  <2>3. \A c \in Conn \ overlap : /\ c \in L => stage[c] = "open"
                                  /\ c \in O <=> c \in L \/ stage[c] \in {"tick", "closed"}
    BY <2>2 DEF CopyOf
  <2> HIDE DEF U8
  <2>4. (L \cup U8) \ overlap = O \ overlap
    BY <1>14, <1>15, <2>3
  <2>5. (L \cap U8) \ overlap = {}
    BY <1>14, <1>15, <2>3
  <2>6. IsFiniteSet(O)
    BY RegistryAssumption, FS_Subset DEF RegistryAssumption
  <2>7. Apart(Cardinality(L) + Cardinality(U8), Cardinality(O)) <= Cardinality(overlap)
    BY <1>3, <1>12, <2>4, <2>5, <2>6, CloseSums
  <2>8. QED
    BY <1>13, <2>2, <2>7 DEF CopyOf
<1>18. QED
  BY <1>16, <1>17

\* A snapshot taken while statistics are kept shows each connection that was
\* opened when it copied the live set as live or as counted, and a total of
\* hits and misses, up to the connections that were in Close meanwhile.
THEOREM SnapshotAddsUp ==
  ASSUME StatsEnabled PROVE Spec => []SnapshotConserves
<1>1. Init => Exact /\ Reading
  BY ExactInit DEF Init, Reading, Loaded
<1>2. Types /\ Exact /\ Reading /\ [Next]_vars => Exact' /\ Reading'
  BY ExactStep, ReadingStep
<1>3. Types /\ Exact /\ Reading => SnapshotConserves
  BY TakenConserves DEF SnapshotConserves
<1>4. QED
  BY <1>1, <1>2, <1>3, TypesHold, PTL DEF Spec

-----------------------------------------------------------------------------
(***************************************************************************)
(* The ring.  Seconds within N of each other have different slots, and     *)
(* every slot is that of some second of a window.                          *)
(***************************************************************************)
LEMMA SlotOf ==
  ASSUME NEW t \in Int PROVE t % N \in Slot
BY Bounds DEF Slot

\* Two seconds less than N apart do not share a slot.
LEMMA SlotsDiffer ==
  ASSUME NEW a \in Int, NEW b \in Int, a < b, b < a + N
  PROVE  a % N # b % N
<1> SUFFICES ASSUME a % N = b % N PROVE FALSE
  OBVIOUS
<1> USE Bounds
<1>1. PICK q \in Int : a = N * q + (a % N)
  <2>1. a \div N \in Int /\ a = N * (a \div N) + (a % N)
    OBVIOUS
  <2>2. QED
    BY <2>1
<1>2. PICK r \in Int : b = N * r + (b % N)
  <2>1. b \div N \in Int /\ b = N * (b \div N) + (b % N)
    OBVIOUS
  <2>2. QED
    BY <2>1
<1>3. a % N \in Int
  OBVIOUS
<1>4. b - a = N * r - N * q
  BY <1>1, <1>2, <1>3
<1>5. r <= q => N * r <= N * q
  OBVIOUS
<1>6. r >= q + 1 => N * r >= N * q + N
  OBVIOUS
<1>7. QED
  BY <1>4, <1>5, <1>6

\* Every slot is that of a second of the window that ends at h.
LEMMA SlotIsUsed ==
  ASSUME NEW h \in Int, NEW j \in Slot
  PROVE  \E t \in Int : h - N < t /\ t <= h /\ t % N = j
<1> DEFINE t == h - ((h - j) % N)
<1>1. t \in Int /\ h - N < t /\ t <= h
  BY Bounds DEF Slot
<1>2. t % N = j
  BY Bounds DEF Slot
<1>3. QED
  BY <1>1, <1>2

\* The slots that rate adds up are all but that of the second it is asked for.
LEMMA RateSlots ==
  ASSUME NEW s \in Nat
  PROVE  {(s + N - i) % N : i \in 1..(N - 1)} = Slot \ {s % N}
<1>1. ASSUME NEW i \in 1..(N - 1) PROVE (s + N - i) % N \in Slot \ {s % N}
  <2>1. s + N - i \in Int /\ s \in Int /\ s < s + N - i /\ s + N - i < s + N
    BY Bounds
  <2>2. QED
    BY <2>1, SlotOf, SlotsDiffer
<1>2. ASSUME NEW j \in Slot \ {s % N} PROVE \E i \in 1..(N - 1) : (s + N - i) % N = j
  <2>1. s + N - 1 \in Int
    BY Bounds
  <2>2. PICK t \in Int : (s + N - 1) - N < t /\ t <= s + N - 1 /\ t % N = j
    BY <2>1, SlotIsUsed
  <2>3. t # s
    BY <1>2, <2>2
  <2> DEFINE i == s + N - t
  <2>4. i \in 1..(N - 1) /\ s + N - i = t
    BY <2>2, <2>3, Bounds
  <2>5. QED
    BY <2>2, <2>4
<1>3. QED
  BY <1>1, <1>2

\* The events of second t, which may lie before the first.
EventsOf(t) == IF t \in 1..MaxSec THEN events[t] ELSE 0

\* The buckets b hold the N seconds up to h.
HoldsWindow(b, h) == \A t \in Int : h - N < t /\ t <= h => b[t % N] = EventsOf(t)

\* A time that was read is at most MaxDelay old while it is held.
Held(s) == s \in 1..now /\ now <= s + MaxDelay

HeldBySnap == at \in {"live", "rate"} \cup Loads

RingInv ==
  /\ headSec \in 0..now
  /\ buckets \in [Slot -> Nat] /\ events \in [1..MaxSec -> Nat]
  /\ sec \in [Conn -> Nat]
  /\ \A t \in 1..MaxSec : t > headSec => events[t] = 0
  /\ HoldsWindow(buckets, headSec)
  /\ \A c \in Conn : stage[c] = "tick" => Held(sec[c])
  /\ HeldBySnap => Held(snap.sec)

\* A time that is held is a second within N of now.
LEMMA HeldIsSecond ==
  ASSUME Types, NEW s, Held(s)
  PROVE  s \in Nat /\ s >= 1 /\ s <= now /\ s \in 1..MaxSec /\ now < s + N
BY NowIsNat, Bounds DEF Held

\* advance leaves the window that ends at the later of the two seconds.
LEMMA AdvanceKeeps ==
  ASSUME Types, RingInv, NEW s, Held(s)
  PROVE  /\ advanced(s) \in [Slot -> Nat]
         /\ advancedHead(s) \in 0..now /\ s <= advancedHead(s) /\ headSec <= advancedHead(s)
         /\ advancedHead(s) < s + N
         /\ HoldsWindow(advanced(s), advancedHead(s))
<1>1. /\ s \in Nat /\ s >= 1 /\ s <= now /\ s \in 1..MaxSec /\ now < s + N
      /\ now \in Nat /\ headSec \in 0..now /\ N \in Nat
  BY HeldIsSecond, NowIsNat, Bounds DEF RingInv
<1>2. /\ advancedHead(s) \in 0..now /\ s <= advancedHead(s) /\ headSec <= advancedHead(s)
      /\ advancedHead(s) < s + N
  BY <1>1 DEF advancedHead
<1>3. buckets \in [Slot -> Nat]
  BY DEF RingInv
<1>4. advanced(s) \in [Slot -> Nat]
  BY <1>3 DEF advanced
\* Nothing has been counted in a second after headSec, nor before the first.
<1>5. ASSUME NEW t \in Int, t > headSec PROVE EventsOf(t) = 0
  BY <1>5 DEF RingInv, EventsOf
<1>6. ASSUME NEW t \in Int, headSec - N < t, t <= headSec PROVE buckets[t % N] = EventsOf(t)
  BY <1>6 DEF RingInv, HoldsWindow
<1>7. CASE headSec = 0
  <2>1. advanced(s) = buckets /\ advancedHead(s) = s
    BY <1>7 DEF advanced, advancedHead
  <2>2. ASSUME NEW j \in Slot PROVE buckets[j] = 0
    <3>1. PICK t \in Int : 0 - N < t /\ t <= 0 /\ t % N = j
      BY SlotIsUsed
    <3>2. t \notin 1..MaxSec
      BY <3>1, Bounds
    <3>3. EventsOf(t) = 0
      BY <3>2 DEF EventsOf
    <3>4. headSec - N < t /\ t <= headSec
      BY <1>7, <3>1
    <3>5. QED
      BY <1>6, <3>1, <3>3, <3>4
  <2>3. ASSUME NEW t \in Int PROVE EventsOf(t) = 0
    <3>1. CASE t > headSec
      BY <1>5, <3>1
    <3>2. CASE ~(t > headSec)
      <4>1. t \notin 1..MaxSec
        BY <1>7, <3>2, Bounds
      <4>2. QED
        BY <4>1 DEF EventsOf
    <3>3. QED
      BY <3>1, <3>2
  <2>4. HoldsWindow(buckets, s)
    BY <2>2, <2>3, SlotOf DEF HoldsWindow
  <2>5. QED
    BY <1>2, <1>4, <2>1, <2>4
<1>8. CASE headSec # 0 /\ s <= headSec
  <2>1. advanced(s) = buckets /\ advancedHead(s) = headSec
    BY <1>1, <1>8 DEF advanced, advancedHead
  <2>2. QED
    BY <1>2, <1>4, <2>1 DEF RingInv
<1>9. CASE headSec # 0 /\ s > headSec /\ s - headSec >= N
  <2>1. advanced(s) = [i \in Slot |-> 0] /\ advancedHead(s) = s
    BY <1>1, <1>9 DEF advanced, advancedHead
  <2>2. ASSUME NEW t \in Int, s - N < t, t <= s PROVE advanced(s)[t % N] = EventsOf(t)
    <3>1. t > headSec
      BY <1>1, <1>9, <2>2
    <3>2. QED
      BY <1>5, <2>1, <3>1, SlotOf
  <2>3. QED
    BY <1>2, <1>4, <2>1, <2>2 DEF HoldsWindow
<1>10. CASE headSec # 0 /\ s > headSec /\ s - headSec < N
  <2>1. /\ advanced(s) = [i \in Slot |-> IF i \in Passed(s) THEN 0 ELSE buckets[i]]
        /\ advancedHead(s) = s
    BY <1>1, <1>10 DEF advanced, advancedHead
  <2>2. ASSUME NEW t \in Int, s - N < t, t <= s PROVE advanced(s)[t % N] = EventsOf(t)
    <3>1. CASE t > headSec
      <4> DEFINE i == t - headSec
      <4>1. i \in 1..(s - headSec) /\ headSec + i = t
        BY <1>1, <2>2, <3>1
      <4>2. t % N \in Passed(s)
        BY <4>1 DEF Passed
      <4>3. QED
        BY <1>5, <2>1, <3>1, <4>2, SlotOf
    <3>2. CASE t <= headSec
      <4>1. t % N \notin Passed(s)
        <5>1. ASSUME NEW i \in 1..(s - headSec) PROVE t % N # (headSec + i) % N
          <6>1. headSec + i \in Int /\ t < headSec + i /\ headSec + i < t + N
            BY <1>1, <2>2, <3>2
          <6>2. QED
            BY <6>1, SlotsDiffer
        <5>2. QED
          BY <5>1 DEF Passed
      <4>2. headSec - N < t
        BY <1>1, <1>10, <2>2
      <4>3. QED
        BY <1>6, <2>1, <3>2, <4>1, <4>2, SlotOf
    <3>3. QED
      BY <1>1, <3>1, <3>2
  <2>3. QED
    BY <1>2, <1>4, <2>1, <2>2 DEF HoldsWindow
<1>11. QED
  BY <1>1, <1>7, <1>8, <1>9, <1>10

\* Only the bucket of second s counts a tick of second s.
LEMMA TickCounts ==
  ASSUME Types, RingInv, NEW s, Held(s), tick(s), events' = [events EXCEPT ![s] = @ + 1]
  PROVE  /\ headSec' \in 0..now /\ headSec' >= headSec /\ headSec' >= s
         /\ buckets' \in [Slot -> Nat] /\ events' \in [1..MaxSec -> Nat]
         /\ \A t \in 1..MaxSec : t > headSec' => events'[t] = 0
         /\ HoldsWindow(buckets, headSec)'
<1>1. /\ advanced(s) \in [Slot -> Nat]
      /\ advancedHead(s) \in 0..now /\ s <= advancedHead(s) /\ headSec <= advancedHead(s)
      /\ advancedHead(s) < s + N
      /\ HoldsWindow(advanced(s), advancedHead(s))
  BY AdvanceKeeps
<1>2. /\ s \in Nat /\ s >= 1 /\ s <= now /\ s \in 1..MaxSec /\ now \in Nat /\ N \in Nat
      /\ headSec \in 0..now
  BY HeldIsSecond, NowIsNat, Bounds DEF RingInv
<1>3. headSec' = advancedHead(s) /\ buckets' = [advanced(s) EXCEPT ![s % N] = @ + 1]
  BY DEF tick
<1>4. s \in Int /\ s % N \in Slot
  BY <1>2, SlotOf
<1>5. events \in [1..MaxSec -> Nat] /\ \A t \in 1..MaxSec : t > headSec => events[t] = 0
  BY DEF RingInv
<1>6. buckets' \in [Slot -> Nat]
  BY <1>1, <1>3, <1>4
<1>7. events' \in [1..MaxSec -> Nat]
  BY <1>2, <1>5
<1>8. ASSUME NEW t \in 1..MaxSec, t > headSec' PROVE events'[t] = 0
  <2>1. t # s /\ t > headSec
    BY <1>1, <1>2, <1>3, <1>8, Bounds
  <2>2. QED
    BY <1>5, <2>1
<1>9. ASSUME NEW t \in Int, advancedHead(s) - N < t, t <= advancedHead(s)
      PROVE  buckets'[t % N] = EventsOf(t)'
  <2>1. advanced(s)[t % N] = EventsOf(t)
    BY <1>1, <1>9 DEF HoldsWindow
  <2>2. t % N \in Slot
    BY SlotOf
  <2>3. CASE t = s
    BY <1>1, <1>2, <1>3, <1>5, <2>1, <2>2, <2>3 DEF EventsOf
  <2>4. CASE t # s
    <3>1. t % N # s % N
      <4>1. \/ t < s /\ s < t + N
            \/ s < t /\ t < s + N
        BY <1>1, <1>2, <1>9, <2>4
      <4>2. QED
        BY <1>4, <4>1, SlotsDiffer
    <3>2. buckets'[t % N] = advanced(s)[t % N]
      BY <1>1, <1>3, <2>2, <3>1
    <3>3. EventsOf(t)' = EventsOf(t)
      BY <1>5, <2>4 DEF EventsOf
    <3>4. QED
      BY <2>1, <3>2, <3>3
  <2>5. QED
    BY <2>3, <2>4
<1>10. HoldsWindow(buckets, headSec)'
  BY <1>3, <1>9 DEF HoldsWindow
<1>11. QED
  BY <1>1, <1>3, <1>6, <1>7, <1>8, <1>10

\* The empty ring holds a window without events.
LEMMA RingInvInit == Init => RingInv
<1> SUFFICES ASSUME Init PROVE RingInv
  OBVIOUS
<1>1. /\ headSec = 0 /\ now = 1 /\ buckets = [i \in Slot |-> 0]
      /\ events = [s \in 1..MaxSec |-> 0] /\ sec = [c \in Conn |-> 0]
      /\ stage = [c \in Conn |-> "new"] /\ at = "idle"
  BY DEF Init, RingInit
<1>2. HoldsWindow(buckets, headSec)
  BY <1>1, SlotOf DEF HoldsWindow, EventsOf
<1>3. headSec \in 0..now
  BY <1>1
<1>4. QED
  BY <1>1, <1>2, <1>3 DEF RingInv, HeldBySnap, Loads

\* The ring, the clock and the times held stay as they are.
LEMMA RingStays ==
  ASSUME RingInv, UNCHANGED <<headSec, buckets, events, sec, now>>,
         \A c \in Conn : stage'[c] = "tick" => stage[c] = "tick",
         HeldBySnap' => HeldBySnap /\ snap'.sec = snap.sec
  PROVE  RingInv'
<1>1. HoldsWindow(buckets, headSec)'
  BY DEF RingInv, HoldsWindow, EventsOf
<1>2. \A s : Held(s) => Held(s)'
  BY DEF Held
<1>3. HeldBySnap' => Held(snap.sec)'
  BY DEF RingInv, Held
<1>4. \A c \in Conn : stage'[c] = "tick" => Held(sec[c])'
  BY DEF RingInv, Held
<1>5. QED
  BY <1>1, <1>3, <1>4 DEF RingInv

\* A step of a connection, a late tick included, keeps the window.
LEMMA RingConn ==
  ASSUME Types, RingInv, NEW c \in Conn, ConnStep(c)
  PROVE  RingInv'
<1>0. UNCHANGED <<now, at, snap>>
  BY ConnKeeps
<1>1. stage \in [Conn -> Stages] /\ sec \in [Conn -> Nat]
  BY DEF Types, RingInv
<1>2. CASE OpenConn(c) \/ (\E k \in Outcomes : Mark(c, k)) \/ Delete(c) \/ CountTotal(c)
  <2>1. UNCHANGED <<headSec, buckets, events, sec>>
    BY <1>2 DEF OpenConn, Mark, Delete, CountTotal, ring
  <2>2. \A d \in Conn : stage'[d] = "tick" => stage[d] = "tick"
    BY <1>1, <1>2 DEF OpenConn, Mark, Delete, CountTotal, To
  <2>3. HeldBySnap' => HeldBySnap /\ snap'.sec = snap.sec
    BY <1>0 DEF HeldBySnap
  <2>4. QED
    BY <1>0, <2>1, <2>2, <2>3, RingStays
<1>3. CASE CountOutcome(c)
  <2>1. UNCHANGED <<headSec, buckets, events>>
    BY <1>3 DEF CountOutcome, ring
  <2>2. HoldsWindow(buckets, headSec)'
    BY <2>1 DEF RingInv, HoldsWindow, EventsOf
  <2>3. Held(now)
    BY NowIsNat, Bounds DEF Held
  <2>4. now \in Nat
    BY NowIsNat
  <2>5. sec' \in [Conn -> Nat]
    BY <1>1, <1>3, <2>4 DEF CountOutcome
  <2>6. \A s : Held(s) => Held(s)'
    BY <1>0 DEF Held
  <2>7. ASSUME NEW d \in Conn, stage'[d] = "tick" PROVE Held(sec[d])'
    <3>1. CASE d = c
      <4>1. sec'[c] = now
        BY <1>1, <1>3, <2>7, <3>1 DEF CountOutcome, To
      <4>2. QED
        BY <1>0, <2>3, <3>1, <4>1 DEF Held
    <3>2. CASE d # c
      <4>1. sec'[d] = sec[d] /\ stage[d] = "tick"
        BY <1>1, <1>3, <2>7, <3>2 DEF CountOutcome, To
      <4>2. QED
        BY <1>0, <4>1 DEF Held, RingInv
    <3>3. QED
      BY <3>1, <3>2
  <2>8. HeldBySnap' => Held(snap.sec)'
    BY <1>0 DEF Held, HeldBySnap, RingInv
  <2>9. QED
    BY <1>0, <2>1, <2>2, <2>5, <2>7, <2>8 DEF RingInv
<1>4. CASE Tick(c)
  <2>1. /\ stage[c] = "tick" /\ tick(sec[c]) /\ events' = [events EXCEPT ![sec[c]] = @ + 1]
        /\ sec' = [sec EXCEPT ![c] = 0] /\ stage' = [stage EXCEPT ![c] = "closed"]
    BY <1>4 DEF Tick, To
  <2>2. Held(sec[c])
    BY <2>1 DEF RingInv
  <2>3. /\ headSec' \in 0..now
        /\ buckets' \in [Slot -> Nat] /\ events' \in [1..MaxSec -> Nat]
        /\ \A t \in 1..MaxSec : t > headSec' => events'[t] = 0
        /\ HoldsWindow(buckets, headSec)'
    BY <2>1, <2>2, TickCounts
  <2>4. sec' \in [Conn -> Nat]
    BY <1>1, <2>1
  <2>5. ASSUME NEW d \in Conn, stage'[d] = "tick" PROVE Held(sec[d])'
    <3>1. sec'[d] = sec[d] /\ stage[d] = "tick"
      BY <1>1, <2>1, <2>5
    <3>2. QED
      BY <1>0, <3>1 DEF Held, RingInv
  <2>6. HeldBySnap' => Held(snap.sec)'
    BY <1>0 DEF Held, HeldBySnap, RingInv
  <2>7. QED
    BY <1>0, <2>3, <2>4, <2>5, <2>6 DEF RingInv
<1>5. QED
  BY <1>2, <1>3, <1>4 DEF ConnStep

\* A step of the snapshot, a late rate included, keeps the window.
LEMMA RingSnap ==
  ASSUME Types, RingInv, SnapStep
  PROVE  RingInv'
<1>0. UNCHANGED <<now, stage, sec, events>>
  BY DEF SnapStep, Begin, CopyLive, LoadCounter, Rate, LoadReloadTime, LoadClasses, LoadSources,
         Hand, conns
<1>1. CASE Begin
  <2>1. UNCHANGED <<headSec, buckets>>
    BY <1>1 DEF Begin, ring
  <2>2. snap'.sec = now
    <3>1. now \in Nat /\ cur \in Nat
      BY NowIsNat DEF Types
    <3>2. QED
      BY <1>1, <3>1, BeginFields
  <2>3. Held(snap.sec)'
    BY <1>0, <2>2, NowIsNat, Bounds DEF Held
  <2>4. HoldsWindow(buckets, headSec)'
    BY <1>0, <2>1 DEF RingInv, HoldsWindow, EventsOf
  <2>5. \A d \in Conn : stage'[d] = "tick" => Held(sec[d])'
    BY <1>0 DEF RingInv, Held
  <2>6. QED
    BY <1>0, <2>1, <2>3, <2>4, <2>5 DEF RingInv
<1>2. CASE CopyLive \/ \E i \in 1..Len(LoadOrder) : LoadCounter(i)
  <2>0. snap \in Taken /\ counters \in [Key -> Nat] /\ Cardinality(live) \in Nat
    BY RegistryAssumption, FS_Subset, FS_CardinalityType DEF RegistryAssumption, Types
  <2>1. UNCHANGED <<headSec, buckets>>
    BY <1>2 DEF CopyLive, LoadCounter, ring
  <2>2. snap'.sec = snap.sec
    BY <1>2, <2>0, CopyLiveFields, LoadPlaces, LoadFields
  <2>3. HeldBySnap
    BY <1>2, LoadPlaces DEF CopyLive, HeldBySnap, Loads
  <2>4. QED
    BY <1>0, <2>1, <2>2, <2>3, RingStays
<1>3. CASE Rate
  <2>1. HeldBySnap /\ ~HeldBySnap' /\ rate(snap.sec)
    BY <1>3 DEF Rate, HeldBySnap, Loads
  <2>2. Held(snap.sec)
    BY <2>1 DEF RingInv
  <2>3. headSec' = advancedHead(snap.sec) /\ buckets' = advanced(snap.sec)
    BY <2>1 DEF rate
  <2>4. /\ buckets' \in [Slot -> Nat] /\ headSec' \in 0..now /\ headSec <= headSec'
        /\ HoldsWindow(buckets', headSec')
    BY <2>2, <2>3, AdvanceKeeps
  <2>5. HoldsWindow(buckets, headSec)'
    BY <1>0, <2>4 DEF HoldsWindow, EventsOf
  <2>6. ASSUME NEW t \in 1..MaxSec, t > headSec' PROVE events[t] = 0
    <3>1. headSec \in Int /\ headSec' \in Int /\ t \in Int
      BY <2>4 DEF RingInv
    <3>2. t > headSec
      BY <2>4, <2>6, <3>1
    <3>3. QED
      BY <3>2 DEF RingInv
  <2>7. \A d \in Conn : stage'[d] = "tick" => Held(sec[d])'
    BY <1>0 DEF RingInv, Held
  <2>8. QED
    BY <1>0, <2>1, <2>4, <2>5, <2>6, <2>7 DEF RingInv
<1>4. CASE LoadReloadTime \/ LoadClasses \/ LoadSources \/ Hand
  <2>1. UNCHANGED <<headSec, buckets>> /\ ~HeldBySnap'
    BY <1>4 DEF LoadReloadTime, LoadClasses, LoadSources, Hand, ring, HeldBySnap, Loads
  <2>2. QED
    BY <1>0, <2>1, RingStays
<1>5. QED
  BY <1>1, <1>2, <1>3, <1>4 DEF SnapStep

\* A second passes only while each time that is held stays recent.
LEMMA RingSecond ==
  ASSUME Types, RingInv, Second
  PROVE  RingInv'
<1>1. /\ now' = now + 1 /\ UNCHANGED <<headSec, buckets, events, sec, stage, at, snap>>
      /\ \A s \in HeldTimes : now < s + MaxDelay
  BY DEF Second, ring, conns, reader
<1>2. now \in Nat /\ MaxDelay \in Int
  BY NowIsNat, Bounds
<1>3. ASSUME NEW s \in HeldTimes, Held(s) PROVE Held(s)'
  <2>1. now < s + MaxDelay
    BY <1>1
  <2>2. s \in Int
    BY <1>3 DEF Held
  <2>3. QED
    BY <1>1, <1>2, <1>3, <2>1, <2>2 DEF Held
<1>4. ASSUME NEW c \in Conn, stage'[c] = "tick" PROVE Held(sec[c])'
  <2>1. sec[c] \in HeldTimes /\ Held(sec[c])
    BY <1>1, <1>4 DEF HeldTimes, RingInv
  <2>2. QED
    BY <1>1, <1>2, <2>1 DEF Held
<1>5. ASSUME HeldBySnap' PROVE Held(snap.sec)'
  <2>1. HeldBySnap
    BY <1>1, <1>5 DEF HeldBySnap
  <2>2. snap.sec \in HeldTimes
    BY <2>1 DEF HeldTimes, HeldBySnap, Loads
  <2>3. Held(snap.sec)
    BY <2>1 DEF RingInv
  <2>4. QED
    BY <1>1, <1>2, <2>2, <2>3 DEF Held
<1>6. HoldsWindow(buckets, headSec)'
  BY <1>1 DEF RingInv, HoldsWindow, EventsOf
<1>7. headSec' \in 0..now'
  <2>1. headSec \in 0..now
    BY DEF RingInv
  <2>2. QED
    BY <1>1, <1>2, <2>1
<1>8. QED
  BY <1>1, <1>4, <1>5, <1>6, <1>7 DEF RingInv

\* Every step keeps the window.
LEMMA RingStep == Types /\ RingInv /\ [Next]_vars => RingInv'
<1> SUFFICES ASSUME Types, RingInv, [Next]_vars PROVE RingInv'
  OBVIOUS
<1>1. CASE \E c \in Conn : ConnStep(c)
  BY <1>1, RingConn
<1>2. CASE SnapStep
  BY <1>2, RingSnap
<1>3. CASE Swap \/ UNCHANGED vars
  <2>1. UNCHANGED <<headSec, buckets, events, sec, now, stage, at, snap>>
    BY <1>3 DEF Swap, vars, ring, conns, reader
  <2>2. HeldBySnap' => HeldBySnap
    BY <2>1 DEF HeldBySnap
  <2>3. QED
    BY <2>1, <2>2, RingStays
<1>4. CASE Second
  BY <1>4, RingSecond
<1>5. QED
  BY <1>1, <1>2, <1>3, <1>4 DEF Next

\* The ring holds its window throughout.
LEMMA RingHolds == Spec => []RingInv
BY RingInvInit, RingStep, TypesHold, PTL DEF Spec

-----------------------------------------------------------------------------
(***************************************************************************)
(* Sums.  What SumFunctionOnSet computes is proved by taking a smallest    *)
(* set for which a claim fails.                                            *)
(***************************************************************************)

\* A set of numbers that is not empty has a least one.
LEMMA LeastNat ==
  ASSUME NEW T \in SUBSET Nat, T # {}
  PROVE  \E m \in T : \A n \in T : m <= n
<1>1. PICK m \in T : \A n \in T : ~(<<n, m>> \in OpToRel(<, Nat))
  BY NatLessThanWellFounded, WFMin
<1>2. ASSUME NEW n \in T PROVE m <= n
  <2>1. m \in Nat /\ n \in Nat
    OBVIOUS
  <2>2. ~(n < m)
    BY <1>1, <2>1 DEF OpToRel
  <2>3. QED
    BY <2>1, <2>2
<1>3. QED
  BY <1>2

\* Induction over the subsets of a finite set: of those that have a property,
\* there is one that loses it with any of its elements.
LEMMA SmallestSubset ==
  ASSUME NEW S, IsFiniteSet(S), NEW B \in SUBSET (SUBSET S), B # {}
  PROVE  \E R \in B : \A x \in R : R \ {x} \notin B
<1> DEFINE T == {Cardinality(R) : R \in B}
<1>1. \A R \in B : IsFiniteSet(R) /\ Cardinality(R) \in Nat
  BY FS_Subset, FS_CardinalityType
<1>2. T \in SUBSET Nat /\ T # {}
  BY <1>1
<1>3. PICK m \in T : \A n \in T : m <= n
  BY <1>2, LeastNat
<1>4. PICK R \in B : Cardinality(R) = m
  BY <1>3
<1>5. ASSUME NEW x \in R, R \ {x} \in B PROVE FALSE
  <2>1. Cardinality(R \ {x}) = Cardinality(R) - 1
    BY <1>1, <1>5, FS_RemoveElement
  <2>2. m <= Cardinality(R \ {x})
    BY <1>3, <1>5
  <2>3. QED
    BY <1>1, <1>4, <2>1, <2>2
<1>6. QED
  BY <1>5

\* The element that the fold takes next, and the recursion it follows.
First(s) == CHOOSE x \in s : TRUE
Adds(f, S, g) ==
  g = [s \in SUBSET S |-> IF s = {} THEN 0 ELSE f[First(s)] + g[s \ {First(s)}]]
Adding(f, S) == CHOOSE g : Adds(f, S, g)

\* SumFunctionOnSet is the value of that recursion.
LEMMA SumIs ==
  ASSUME NEW f, NEW S
  PROVE  SumFunctionOnSet(f, S) = Adding(f, S)[S]
BY DEF SumFunctionOnSet, FoldFunctionOnSet, MapThenFoldSet, Adds, First, Adding

\* The element that is taken is one of the set.
LEMMA FirstIn ==
  ASSUME NEW s, s # {} PROVE First(s) \in s
BY DEF First

\* The recursion is well founded: there is a function that satisfies it.
LEMMA AddingExists ==
  ASSUME NEW f, NEW S, IsFiniteSet(S)
  PROVE  Adds(f, S, Adding(f, S))
<1> DEFINE Upto(n) == {s \in SUBSET S : Cardinality(s) <= n}
           Value(s, g) == IF s = {} THEN 0 ELSE f[First(s)] + g[s \ {First(s)}]
           Part(n, g) == g = [s \in Upto(n) |-> Value(s, g)]
           Bad == {n \in Nat : ~\E g : Part(n, g)}
<1>0. \A s \in SUBSET S : IsFiniteSet(s) /\ Cardinality(s) \in Nat /\ Cardinality(s) <= Cardinality(S)
  BY FS_Subset, FS_CardinalityType
<1>1. ASSUME NEW m \in Bad, \A n \in Bad : m <= n PROVE FALSE
  <2>1. CASE m = 0
    <3> DEFINE h == [s \in Upto(0) |-> 0]
    <3>1. \A s \in Upto(0) : s = {}
      <4>1. ASSUME NEW s \in Upto(0) PROVE s = {}
        <5>1. Cardinality(s) = 0
          BY <1>0
        <5>2. QED
          BY <1>0, <5>1, FS_EmptySet
      <4>2. QED
        BY <4>1
    <3>2. \A s \in Upto(0) : Value(s, h) = 0
      BY <3>1
    <3> HIDE DEF Upto, Value
    <3>3. Part(0, h)
      BY <3>2
    <3>4. QED
      BY <1>1, <2>1, <3>3
  <2>2. CASE m # 0
    <3>1. m - 1 \in Nat /\ ~(m <= m - 1)
      BY <2>2
    <3>2. PICK g : Part(m - 1, g)
      BY <1>1, <3>1
    <3> DEFINE h == [s \in Upto(m) |-> Value(s, g)]
    <3>3. ASSUME NEW s \in Upto(m), s # {} PROVE s \ {First(s)} \in Upto(m - 1)
      <4>1. Cardinality(s \ {First(s)}) = Cardinality(s) - 1
        BY <1>0, <3>3, FirstIn, FS_RemoveElement
      <4>2. Cardinality(s) <= m /\ Cardinality(s) \in Nat
        BY <1>0, <3>3
      <4>3. QED
        BY <3>1, <4>1, <4>2
    <3>4. ASSUME NEW r \in Upto(m - 1) PROVE g[r] = Value(r, g) /\ r \in Upto(m)
      <4>1. r \in Upto(m)
        BY <1>0, <3>1
      <4> HIDE DEF Upto, Value
      <4>2. QED
        BY <3>2, <4>1
    <3> HIDE DEF Upto
    <3>5. \A r \in Upto(m - 1) : h[r] = g[r]
      <4> HIDE DEF Value
      <4>1. QED
        BY <3>4
    <3>6. ASSUME NEW s \in Upto(m) PROVE Value(s, g) = Value(s, h)
      <4> HIDE DEF h
      <4>1. QED
        BY <3>3, <3>5
    <3> HIDE DEF Value
    <3>7. Part(m, h)
      BY <3>6
    <3>8. QED
      BY <1>1, <3>7
  <2>3. QED
    BY <2>1, <2>2
<1>2. Bad = {}
  <2>1. Bad \in SUBSET Nat
    OBVIOUS
  <2> HIDE DEF Bad
  <2>2. QED
    BY <1>1, <2>1, LeastNat
<1>3. Cardinality(S) \in Nat
  BY FS_CardinalityType
<1>4. PICK g : Part(Cardinality(S), g)
  BY <1>2, <1>3
<1>5. Upto(Cardinality(S)) = SUBSET S
  BY <1>0
<1>6. Adds(f, S, g)
  <2> HIDE DEF Upto
  <2>1. QED
    BY <1>4, <1>5 DEF Adds
<1>7. QED
  BY <1>6 DEF Adding

\* A sum over a part of S does not depend on S.
LEMMA AddingAgrees ==
  ASSUME NEW f, NEW S, IsFiniteSet(S), NEW R \in SUBSET S
  PROVE  Adding(f, S)[R] = SumFunctionOnSet(f, R)
<1> DEFINE g == Adding(f, S)
           h == Adding(f, R)
           B == {s \in SUBSET R : g[s] # h[s]}
<1>1. IsFiniteSet(R)
  BY FS_Subset
<1>2. Adds(f, S, g) /\ Adds(f, R, h)
  BY <1>1, AddingExists
<1> HIDE DEF g, h
<1>3. ASSUME NEW s \in SUBSET R
      PROVE  /\ g[s] = IF s = {} THEN 0 ELSE f[First(s)] + g[s \ {First(s)}]
             /\ h[s] = IF s = {} THEN 0 ELSE f[First(s)] + h[s \ {First(s)}]
  BY <1>2 DEF Adds
<1>4. ASSUME NEW s \in B, \A x \in s : s \ {x} \notin B PROVE FALSE
  <2>1. s # {} /\ s \in SUBSET R
    BY <1>3
  <2>2. First(s) \in s
    BY <2>1, FirstIn
  <2>3. g[s \ {First(s)}] = h[s \ {First(s)}]
    BY <1>4, <2>1, <2>2
  <2>4. g[s] = h[s]
    BY <1>3, <2>1, <2>3
  <2>5. QED
    BY <2>4
<1>5. B = {}
  BY <1>1, <1>4, SmallestSubset
<1>6. g[R] = h[R]
  BY <1>5
<1>7. QED
  BY <1>6, SumIs DEF g, h

\* The recursion, as a fact about the sums themselves.
LEMMA SumUnfolds ==
  ASSUME NEW f, NEW S, IsFiniteSet(S)
  PROVE  /\ S = {} => SumFunctionOnSet(f, S) = 0
         /\ S # {} => SumFunctionOnSet(f, S) = f[First(S)] + SumFunctionOnSet(f, S \ {First(S)})
<1> DEFINE g == Adding(f, S)
<1>1. Adds(f, S, g)
  BY AddingExists
<1>2. g[S] = IF S = {} THEN 0 ELSE f[First(S)] + g[S \ {First(S)}]
  <2> HIDE DEF g
  <2>1. QED
    BY <1>1 DEF Adds
<1>3. SumFunctionOnSet(f, S) = g[S]
  BY SumIs
<1>4. g[S \ {First(S)}] = SumFunctionOnSet(f, S \ {First(S)})
  BY AddingAgrees
<1>5. QED
  BY <1>2, <1>3, <1>4

\* A sum of nothing.
LEMMA EmptySum ==
  ASSUME NEW f PROVE SumFunctionOnSet(f, {}) = 0
BY FS_EmptySet, SumUnfolds

\* A sum of numbers is a number.
LEMMA SumIsNat ==
  ASSUME NEW f, NEW S, IsFiniteSet(S), \A x \in S : f[x] \in Nat
  PROVE  SumFunctionOnSet(f, S) \in Nat
<1> DEFINE B == {R \in SUBSET S : SumFunctionOnSet(f, R) \notin Nat}
<1>1. ASSUME NEW R \in B, \A x \in R : R \ {x} \notin B PROVE FALSE
  <2>1. IsFiniteSet(R)
    BY FS_Subset
  <2>2. R # {}
    BY EmptySum
  <2>3. First(R) \in R
    BY <2>2, FirstIn
  <2>4. SumFunctionOnSet(f, R \ {First(R)}) \in Nat /\ f[First(R)] \in Nat
    BY <1>1, <2>3
  <2>5. SumFunctionOnSet(f, R) = f[First(R)] + SumFunctionOnSet(f, R \ {First(R)})
    BY <2>1, <2>2, SumUnfolds
  <2>6. SumFunctionOnSet(f, R) \in Nat
    BY <2>4, <2>5
  <2>7. QED
    BY <2>6
<1>2. B = {}
  BY <1>1, SmallestSubset
<1>3. QED
  BY <1>2

\* Any element can be taken out of a sum first.
LEMMA SumTakeOut ==
  ASSUME NEW f, NEW S, IsFiniteSet(S), \A y \in S : f[y] \in Nat, NEW x \in S
  PROVE  SumFunctionOnSet(f, S) = f[x] + SumFunctionOnSet(f, S \ {x})
<1> DEFINE Sum(R) == SumFunctionOnSet(f, R)
           B == {R \in SUBSET S : \E y \in R : Sum(R) # f[y] + Sum(R \ {y})}
<1>0. \A R \in SUBSET S : IsFiniteSet(R) /\ Sum(R) \in Nat
  BY FS_Subset, SumIsNat
<1>1. ASSUME NEW R \in B, \A y \in R : R \ {y} \notin B PROVE FALSE
  <2>1. PICK y \in R : Sum(R) # f[y] + Sum(R \ {y})
    OBVIOUS
  <2> DEFINE c == First(R)
  <2>2. c \in R /\ Sum(R) = f[c] + Sum(R \ {c})
    BY <1>0, FirstIn, SumUnfolds
  <2> HIDE DEF c
  <2>3. c # y
    BY <2>1, <2>2
  <2>4. Sum(R \ {c}) = f[y] + Sum((R \ {c}) \ {y})
    BY <1>1, <2>2, <2>3
  <2>5. Sum(R \ {y}) = f[c] + Sum((R \ {y}) \ {c})
    BY <1>1, <2>2, <2>3
  <2>6. (R \ {c}) \ {y} = (R \ {y}) \ {c}
    OBVIOUS
  <2>7. f[c] \in Nat /\ f[y] \in Nat /\ Sum((R \ {y}) \ {c}) \in Nat
    BY <1>0, <2>2
  <2> DEFINE n == Sum((R \ {y}) \ {c})
  <2>8. Sum(R) = f[c] + (f[y] + n) /\ f[y] + Sum(R \ {y}) = f[y] + (f[c] + n)
    BY <2>2, <2>4, <2>5, <2>6
  <2>9. f[c] + (f[y] + n) = f[y] + (f[c] + n)
    <3>1. \A i, j, l \in Nat : i + (j + l) = j + (i + l)
      OBVIOUS
    <3> HIDE DEF n
    <3>2. QED
      BY <2>7, <3>1 DEF n
  <2>10. QED
    BY <2>1, <2>8, <2>9
<1>2. B = {}
  BY <1>1, SmallestSubset
<1>3. QED
  BY <1>2

\* b takes the elements of S at which f is not zero to those of T, one to one,
\* and keeps the values.
Matched(f, S, k, T, Z, b) ==
  /\ IsFiniteSet(S) /\ \A x \in S : f[x] \in Nat
  /\ IsFiniteSet(T) /\ \A y \in T : k[y] \in Nat
  /\ Z \in SUBSET S /\ \A x \in Z : f[x] = 0
  /\ \A x \in S \ Z : b[x] \in T /\ k[b[x]] = f[x]
  /\ \A x \in S \ Z : \A y \in S \ Z : b[x] = b[y] => x = y
  /\ \A y \in T : \E x \in S \ Z : b[x] = y

\* Two sums are equal when the terms of the first that are not zero can be
\* matched with the terms of the second.
LEMMA SumsMatch ==
  ASSUME NEW f, NEW S, NEW k, NEW T, NEW Z, NEW b, Matched(f, S, k, T, Z, b)
  PROVE  SumFunctionOnSet(f, S) = SumFunctionOnSet(k, T)
<1> DEFINE Image(R) == {b[x] : x \in R \ Z}
           B == {R \in SUBSET S : SumFunctionOnSet(f, R) # SumFunctionOnSet(k, Image(R))}
<1> USE DEF Matched
<1>1. ASSUME NEW R \in B, \A x \in R : R \ {x} \notin B PROVE FALSE
  <2>1. IsFiniteSet(R) /\ R \in SUBSET S /\ SumFunctionOnSet(f, R) # SumFunctionOnSet(k, Image(R))
    BY FS_Subset
  <2>2. R # {}
    <3>1. SUFFICES ASSUME R = {} PROVE FALSE
      OBVIOUS
    <3>2. Image(R) = {}
      BY <3>1
    <3> HIDE DEF Image
    <3>3. QED
      BY <2>1, <3>1, <3>2, EmptySum
  <2> DEFINE x == First(R)
  <2>3. x \in R /\ SumFunctionOnSet(f, R) = f[x] + SumFunctionOnSet(f, R \ {x})
    BY <2>1, <2>2, FirstIn, SumUnfolds
  <2> HIDE DEF x
  <2>4. SumFunctionOnSet(f, R \ {x}) = SumFunctionOnSet(k, Image(R \ {x}))
    BY <1>1, <2>3
  <2>5. Image(R) \in SUBSET T /\ IsFiniteSet(Image(R)) /\ IsFiniteSet(Image(R \ {x}))
        /\ Image(R \ {x}) \in SUBSET T
    <3>1. Image(R) \in SUBSET T /\ Image(R \ {x}) \in SUBSET T
      BY <2>1
    <3>2. QED
      BY <3>1, FS_Subset
  <2>6. SumFunctionOnSet(k, Image(R \ {x})) \in Nat
    <3> HIDE DEF Image
    <3>1. QED
      BY <2>5, SumIsNat
  <2>7. CASE x \in Z
    <3>1. Image(R \ {x}) = Image(R) /\ f[x] = 0
      BY <2>7
    <3> HIDE DEF Image
    <3>2. QED
      BY <2>1, <2>3, <2>4, <2>6, <3>1
  <2>8. CASE x \notin Z
    <3>1. b[x] \in Image(R) /\ k[b[x]] = f[x]
      BY <2>1, <2>3, <2>8
    <3>2. Image(R \ {x}) = Image(R) \ {b[x]}
      <4>1. \A y \in R \ Z : y # x => b[y] # b[x]
        BY <2>1, <2>3, <2>8
      <4>2. QED
        BY <4>1
    <3> HIDE DEF Image
    <3>3. \A y \in Image(R) : k[y] \in Nat
      BY <2>5
    <3>4. SumFunctionOnSet(k, Image(R)) = k[b[x]] + SumFunctionOnSet(k, Image(R) \ {b[x]})
      BY <2>5, <3>1, <3>3, SumTakeOut
    <3>5. QED
      BY <2>1, <2>3, <2>4, <3>1, <3>2, <3>4
  <2>9. QED
    BY <2>7, <2>8
<1>2. B = {}
  <2>1. B \in SUBSET (SUBSET S)
    OBVIOUS
  <2> HIDE DEF B
  <2>2. QED
    BY <1>1, <2>1, SmallestSubset
<1>3. Image(S) = T
  OBVIOUS
<1>4. QED
  BY <1>2, <1>3

-----------------------------------------------------------------------------
\* While no time is held for longer than MaxDelay, the sum that rate returns
\* is that of the events of the window without the second it is asked for.
LEMMA RateAddsWindow ==
  ASSUME Types, RingInv, NEW s, Held(s), NEW h, h = advancedHead(s)
  PROVE  rateAt(s) = SumFunctionOnSet(events, {t \in 1..MaxSec : t # s /\ t <= h /\ h < t + N})
<1>1. /\ advanced(s) \in [Slot -> Nat] /\ h \in 0..now /\ s <= h /\ h < s + N
      /\ HoldsWindow(advanced(s), h)
  BY AdvanceKeeps
<1>2. /\ s \in Nat /\ s >= 1 /\ now \in Nat /\ now <= MaxSec /\ MaxSec \in Nat /\ N \in Nat
      /\ events \in [1..MaxSec -> Nat]
  BY HeldIsSecond, NowIsNat, Bounds DEF RingInv
<1>3. h \in Nat /\ h <= MaxSec
  BY <1>1, <1>2
<1> DEFINE S == Slot \ {s % N}
           T == {t \in 1..MaxSec : t # s /\ t <= h /\ h < t + N}
           In(t) == h - N < t /\ t <= h
           b == [j \in Slot |-> CHOOSE t \in Int : In(t) /\ t % N = j]
           Z == {j \in S : b[j] < 1}
<1>4. ASSUME NEW j \in Slot
      PROVE  b[j] \in Int /\ In(b[j]) /\ b[j] % N = j /\ advanced(s)[j] = EventsOf(b[j])
  <2>1. \E t \in Int : In(t) /\ t % N = j
    BY <1>3, SlotIsUsed
  <2>2. b[j] \in Int /\ In(b[j]) /\ b[j] % N = j
    BY <2>1
  <2>3. QED
    BY <1>1, <2>2 DEF HoldsWindow
<1> HIDE DEF b
<1>5. ASSUME NEW t \in Int, NEW r \in Int, In(t), In(r), t % N = r % N PROVE t = r
  <2>1. t < r => r < t + N
    BY <1>2, <1>3, <1>5
  <2>2. r < t => t < r + N
    BY <1>2, <1>3, <1>5
  <2>3. ~(t < r) /\ ~(r < t)
    BY <1>5, <2>1, <2>2, SlotsDiffer
  <2>4. QED
    BY <2>3
<1>6. s \in Int /\ In(s)
  BY <1>1, <1>2, <1>3
<1>7. IsFiniteSet(S) /\ IsFiniteSet(T)
  <2>1. IsFiniteSet(Slot) /\ IsFiniteSet(1..MaxSec)
    <3>1. 0 \in Int /\ N - 1 \in Int /\ 1 \in Int /\ MaxSec \in Int
      BY <1>2
    <3>2. QED
      BY <3>1, FS_Interval DEF Slot
  <2>2. S \in SUBSET Slot /\ T \in SUBSET (1..MaxSec)
    OBVIOUS
  <2> HIDE DEF S, T
  <2>3. QED
    BY <2>1, <2>2, FS_Subset
<1>8. (\A j \in S : advanced(s)[j] \in Nat) /\ (\A t \in T : events[t] \in Nat)
  BY <1>1, <1>2
<1>9. \A j \in Z : advanced(s)[j] = 0
  <2>1. ASSUME NEW j \in Z PROVE advanced(s)[j] = 0
    <3>1. b[j] \in Int /\ b[j] \notin 1..MaxSec /\ advanced(s)[j] = EventsOf(b[j])
      BY <1>2, <1>4
    <3>2. QED
      BY <3>1 DEF EventsOf
  <2>2. QED
    BY <2>1
<1>10. \A j \in S \ Z : b[j] \in T /\ events[b[j]] = advanced(s)[j]
  <2>1. ASSUME NEW j \in S \ Z PROVE b[j] \in T /\ events[b[j]] = advanced(s)[j]
    <3>1. b[j] \in Int /\ In(b[j]) /\ b[j] % N = j /\ advanced(s)[j] = EventsOf(b[j])
      BY <1>4
    <3>2. b[j] # s
      BY <3>1
    <3>3. b[j] \in 1..MaxSec /\ h < b[j] + N
      BY <1>2, <1>3, <3>1
    <3>4. QED
      BY <3>1, <3>2, <3>3 DEF EventsOf
  <2>2. QED
    BY <2>1
<1>11. \A i \in S \ Z : \A j \in S \ Z : b[i] = b[j] => i = j
  BY <1>4
<1>12. \A t \in T : \E j \in S \ Z : b[j] = t
  <2>1. ASSUME NEW t \in T PROVE \E j \in S \ Z : b[j] = t
    <3>1. t \in Int /\ In(t) /\ t # s /\ t >= 1
      BY <1>2, <1>3
    <3>2. t % N \in Slot /\ t % N # s % N
      BY <1>5, <1>6, <3>1, SlotOf
    <3>3. b[t % N] = t
      BY <1>4, <1>5, <3>1, <3>2
    <3>4. t % N \in S \ Z
      BY <3>1, <3>2, <3>3
    <3>5. QED
      BY <3>3, <3>4
  <2>2. QED
    BY <2>1
<1>13. Z \in SUBSET S
  OBVIOUS
<1>14. rateAt(s) = SumFunctionOnSet(advanced(s), S)
  BY <1>2, RateSlots DEF rateAt
<1> HIDE DEF S, T, Z
<1>15. SumFunctionOnSet(advanced(s), S) = SumFunctionOnSet(events, T)
  <2>1. Matched(advanced(s), S, events, T, Z, b)
    BY <1>7, <1>8, <1>9, <1>10, <1>11, <1>12, <1>13 DEF Matched
  <2>2. QED
    BY <2>1, SumsMatch
<1>16. QED
  BY <1>14, <1>15 DEF T

\* The figure behind queries per second is the number of events of the window
\* before the second it is asked for, however late the calls before it were,
\* however long the ring was idle and whatever its size.
THEOREM RateCountsWindow == Spec => []RateIsWindow
<1>1. Types /\ RingInv => RateIsWindow
  <2> SUFFICES ASSUME Types, RingInv, NEW s \in Recent
               PROVE  LET head == IF headSec > s THEN headSec ELSE s
                      IN  rateAt(s) = SumFunctionOnSet(events,
                                        {t \in 1..MaxSec : t # s /\ t <= head /\ head < t + N})
    BY DEF RateIsWindow
  <2> DEFINE h == IF headSec > s THEN headSec ELSE s
  <2>1. Held(s)
    BY DEF Recent, Held
  <2>2. h = advancedHead(s)
    <3>1. s \in Nat /\ s >= 1 /\ headSec \in 0..now /\ now \in Nat
      BY <2>1, HeldIsSecond, NowIsNat DEF RingInv
    <3>2. QED
      BY <3>1 DEF advancedHead
  <2> HIDE DEF h
  <2>3. rateAt(s) = SumFunctionOnSet(events, {t \in 1..MaxSec : t # s /\ t <= h /\ h < t + N})
    BY <2>1, <2>2, RateAddsWindow
  <2>4. QED
    BY <2>3 DEF h
<1>2. QED
  BY <1>1, TypesHold, RingHolds, PTL
=============================================================================
