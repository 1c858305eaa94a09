---------------------------- MODULE ServerProofs ----------------------------
(***************************************************************************)
(* Proofs for modules Handler, Listener and Server.  The semaphore and the *)
(* outcome counters are exact on every path through handle, for any number *)
(* of connections; the server as a whole implements both its handlers and  *)
(* its accept side, and returns with every accepted connection accounted   *)
(* for; and what Run, the shutdown watcher and Rebind guarantee to each    *)
(* other, for any number of addresses, rebinds and Accept errors.          *)
(***************************************************************************)
EXTENDS Server, FiniteSetTheorems, TLAPS

Denied == {"denied_acl", "denied_rate", "denied_busy"}
Early  == {"idle", "open", "select", "acl", "rate", "read", "lookup", "write"}
Late   == {"delete", "count", "outcome", "hangup", "done"}

\* The state Close leaves, by outcome.
Final(k) == IF k \in Denied THEN "denied" ELSE IF k = "error_write" THEN "error" ELSE "done"

(***************************************************************************)
(* The path taken so far fixes the classification, the state and whether   *)
(* the connection is in the live set.                                      *)
(***************************************************************************)
ClassAt(c) ==
  /\ pc[c] \in Early <=> class[c] = ""
  /\ pc[c] = "outcome" => class[c] \in Answered

StateAt(c) ==
  StatsEnabled =>
    /\ pc[c] \in Early => state[c] \notin {"denied", "error"}
    /\ pc[c] \in {"busy", "reply", "release", "mark"} =>
         /\ state[c] = "denied" <=> class[c] \in Denied
         /\ state[c] = "error" <=> class[c] = "error_write"
    /\ pc[c] \in Late => state[c] = Final(class[c])

LiveAt(c) == pc[c] \in {"idle", "open"} \cup (Late \ {"delete"}) => c \notin live

PathAt(c) == ClassAt(c) /\ StateAt(c) /\ LiveAt(c)

InUse == {c \in Conn : pc[c] \in Working}

PathTypes ==
  /\ RegistryTypeOK
  /\ cancelled \in BOOLEAN
  /\ pc \in [Conn -> Stage]
  /\ class \in [Conn -> Class \cup {""}]
  /\ found \in [Conn -> BOOLEAN]

PathInv == PathTypes /\ \A c \in Conn : PathAt(c)

-----------------------------------------------------------------------------
\* The initial state satisfies the invariant.
LEMMA PathInit == HandlerInit => PathInv
<1> SUFFICES ASSUME HandlerInit PROVE PathInv
  OBVIOUS
<1> USE DEF HandlerInit, RegistryInit
<1>1. live \subseteq Conn /\ state \in [Conn -> State] /\ counters \in [Class \cup {"total"} -> Nat]
  BY DEF State
<1>2. cancelled \in BOOLEAN /\ class \in [Conn -> Class \cup {""}] /\ found \in [Conn -> BOOLEAN]
  OBVIOUS
<1>3. pc \in [Conn -> Stage]
  BY DEF Stage
<1>4. ASSUME NEW c \in Conn PROVE PathAt(c)
  BY DEF PathAt, ClassAt, StateAt, LiveAt, Early, Late
<1>5. QED
  BY <1>1, <1>2, <1>3, <1>4 DEF PathInv, PathTypes, RegistryTypeOK

\* An increment of a counter keeps the registry's types.
LEMMA AddType ==
  ASSUME RegistryTypeOK, NEW k, Add(k)
  PROVE  RegistryTypeOK'
BY DEF RegistryTypeOK, Add

\* Setting a connection's state keeps the registry's types.
LEMMA SetStateType ==
  ASSUME RegistryTypeOK, NEW c \in Conn, NEW s \in State, SetState(c, s)
  PROVE  RegistryTypeOK'
BY DEF RegistryTypeOK, SetState

\* Moving a handler to another stage keeps the type of pc.
LEMMA GotoType ==
  ASSUME pc \in [Conn -> Stage], NEW c \in Conn, NEW p \in Stage, Goto(c, p)
  PROVE  pc' \in [Conn -> Stage]
BY DEF Goto

\* Refusing a client keeps the types.
LEMMA RefuseTypes ==
  ASSUME PathTypes, NEW c \in Conn, NEW k \in Class, Refuse(c, k)
  PROVE  PathTypes'
<1>1. RegistryTypeOK'
  BY SetStateType DEF Refuse, PathTypes, State
<1>2. pc' \in [Conn -> Stage]
  BY GotoType DEF Refuse, PathTypes, Stage, Working
<1>3. class' \in [Conn -> Class \cup {""}]
  BY DEF Refuse, Classify, PathTypes
<1>4. QED
  BY <1>1, <1>2, <1>3 DEF Refuse, PathTypes

\* A client that passes the checks is read from.
LEMMA ReadingTypes ==
  ASSUME PathTypes, NEW c \in Conn,
         SetState(c, "reading"), Goto(c, "read"), UNCHANGED <<cancelled, sem, class, found>>
  PROVE  PathTypes'
<1>1. RegistryTypeOK'
  BY SetStateType DEF PathTypes, State
<1>2. pc' \in [Conn -> Stage]
  BY GotoType DEF PathTypes, Stage, Working
<1>3. QED
  BY <1>1, <1>2 DEF PathTypes

\* Every step of one handler keeps the types.
LEMMA TypesHandle ==
  ASSUME PathTypes, NEW c \in Conn, Spawn(c) \/ HandleStep(c) \/ Hangup(c)
  PROVE  PathTypes'
<1> USE DEF PathTypes, RegistryTypeOK, Stage, State, Class, Working, Closing, Goto, Classify,
            SetState, rvars
<1>1. CASE Spawn(c)
  BY <1>1 DEF Spawn
<1>2. CASE OpenConn(c)
  BY <1>2 DEF OpenConn, Open
<1>3. CASE Acquire(c)
  BY <1>3 DEF Acquire
<1>4. CASE SelectCancelled(c)
  BY <1>4 DEF SelectCancelled
<1>5. CASE SelectBusy(c)
  BY <1>5 DEF SelectBusy
<1>6. CASE BusyReply(c)
  BY <1>6 DEF BusyReply
<1>7. CASE CheckAcl(c)
  <2>1. CASE Refuse(c, "denied_acl")
    BY <2>1, RefuseTypes
  <2>2. CASE Goto(c, "rate") /\ UNCHANGED <<rvars, cancelled, sem, class, found>>
    BY <2>2
  <2>3. CASE SetState(c, "reading") /\ Goto(c, "read") /\ UNCHANGED <<cancelled, sem, class, found>>
    BY <2>3, ReadingTypes
  <2>4. QED
    BY <1>7, <2>1, <2>2, <2>3 DEF CheckAcl
<1>8. CASE CheckRate(c)
  <2>1. CASE Refuse(c, "denied_rate")
    BY <2>1, RefuseTypes
  <2>2. CASE SetState(c, "reading") /\ Goto(c, "read") /\ UNCHANGED <<cancelled, sem, class, found>>
    BY <2>2, ReadingTypes
  <2>3. QED
    BY <1>8, <2>1, <2>2 DEF CheckRate
<1>9. CASE Read(c)
  <2>1. RegistryTypeOK'
    BY <1>9, SetStateType DEF Read
  <2>2. pc' \in [Conn -> Stage]
    BY <1>9, GotoType DEF Read
  <2>3. class' \in [Conn -> Class \cup {""}]
    BY <1>9 DEF Read
  <2>4. QED
    BY <1>9, <2>1, <2>2, <2>3 DEF Read
<1>10. CASE Lookup(c)
  <2>1. RegistryTypeOK'
    BY <1>10, SetStateType DEF Lookup
  <2>2. pc' \in [Conn -> Stage]
    BY <1>10, GotoType DEF Lookup
  <2>3. found' \in [Conn -> BOOLEAN]
    BY <1>10 DEF Lookup
  <2>4. QED
    BY <1>10, <2>1, <2>2, <2>3 DEF Lookup
<1>11. CASE Write(c)
  <2>1. RegistryTypeOK'
    BY <1>11, SetStateType DEF Write
  <2>2. class' \in [Conn -> Class \cup {""}]
    BY <1>11 DEF Write
  <2>3. QED
    BY <1>11, <2>1, <2>2 DEF Write
<1>12. CASE Reply(c)
  BY <1>12 DEF Reply
<1>13. CASE Release(c)
  BY <1>13 DEF Release
<1>14. CASE StatsMark(c)
  BY <1>14 DEF StatsMark, CloseMark
<1>15. CASE StatsDelete(c)
  BY <1>15 DEF StatsDelete, CloseDelete
<1>16. CASE StatsCount(c)
  <2>1. RegistryTypeOK'
    BY <1>16, AddType DEF StatsCount
  <2>2. QED
    BY <1>16, <2>1 DEF StatsCount
<1>17. CASE StatsOutcome(c)
  <2>1. RegistryTypeOK'
    BY <1>17, AddType DEF StatsOutcome
  <2>2. QED
    BY <1>17, <2>1 DEF StatsOutcome
<1>18. CASE Hangup(c)
  BY <1>18 DEF Hangup
<1>19. QED
  BY <1>1, <1>2, <1>3, <1>4, <1>5, <1>6, <1>7, <1>8, <1>9, <1>10, <1>11, <1>12, <1>13,
     <1>14, <1>15, <1>16, <1>17, <1>18
  DEF HandleStep

\* A step of one handler leaves the records of the others alone.
LEMMA OthersStay ==
  ASSUME PathTypes, NEW c \in Conn, Spawn(c) \/ HandleStep(c) \/ Hangup(c),
         NEW d \in Conn, d # c
  PROVE  /\ pc'[d] = pc[d] /\ class'[d] = class[d] /\ state'[d] = state[d]
         /\ d \in live' <=> d \in live
<1> USE DEF PathTypes, RegistryTypeOK, Goto, Classify, SetState, rvars
<1>1. pc'[d] = pc[d]
  BY DEF HandleStep, Spawn, OpenConn, Acquire, SelectCancelled, SelectBusy, BusyReply, CheckAcl,
         Refuse, CheckRate, Read, Lookup, Write, Reply, Release, StatsMark, StatsDelete,
         StatsCount, StatsOutcome, Hangup
<1>2. class'[d] = class[d]
  BY DEF HandleStep, Spawn, OpenConn, Acquire, SelectCancelled, SelectBusy, BusyReply, CheckAcl,
         Refuse, CheckRate, Read, Lookup, Write, Reply, Release, StatsMark, StatsDelete,
         StatsCount, StatsOutcome, Hangup
<1>3. state'[d] = state[d] /\ (d \in live' <=> d \in live)
  <2>1. CASE OpenConn(c)
    BY <2>1 DEF OpenConn, Open
  <2>2. CASE StatsMark(c)
    BY <2>2 DEF StatsMark, CloseMark
  <2>3. CASE StatsDelete(c)
    BY <2>3 DEF StatsDelete, CloseDelete
  <2>4. CASE StatsCount(c) \/ StatsOutcome(c)
    BY <2>4 DEF StatsCount, StatsOutcome, Add
  <2>5. CASE CheckAcl(c) \/ CheckRate(c) \/ SelectBusy(c)
    BY <2>5 DEF CheckAcl, CheckRate, Refuse, SelectBusy
  <2>6. CASE Read(c) \/ Lookup(c) \/ Write(c)
    BY <2>6 DEF Read, Lookup, Write
  <2>7. CASE \/ Spawn(c) \/ Acquire(c) \/ SelectCancelled(c) \/ BusyReply(c)
             \/ Reply(c) \/ Release(c) \/ Hangup(c)
    BY <2>7 DEF Spawn, Acquire, SelectCancelled, BusyReply, Reply, Release, Hangup
  <2>8. QED
    BY <2>1, <2>2, <2>3, <2>4, <2>5, <2>6, <2>7 DEF HandleStep
<1>4. QED
  BY <1>1, <1>2, <1>3

\* A step of a handler moves it along its path.
LEMMA PathSelf ==
  ASSUME PathInv, NEW c \in Conn, Spawn(c) \/ HandleStep(c) \/ Hangup(c)
  PROVE  PathAt(c)'
<1> USE DEF PathInv, PathTypes, RegistryTypeOK, PathAt, ClassAt, StateAt, LiveAt, Early, Late,
            Answered, Denied, Final, Goto, Classify, SetState, rvars
<1>1. CASE Spawn(c)
  BY <1>1 DEF Spawn
<1>2. CASE OpenConn(c)
  BY <1>2 DEF OpenConn, Open
<1>3. CASE Acquire(c)
  BY <1>3 DEF Acquire
<1>4. CASE SelectCancelled(c)
  BY <1>4 DEF SelectCancelled
<1>5. CASE SelectBusy(c)
  BY <1>5 DEF SelectBusy
<1>6. CASE BusyReply(c)
  BY <1>6 DEF BusyReply
<1>7. CASE CheckAcl(c)
  <2>1. CASE Refuse(c, "denied_acl")
    BY <1>7, <2>1 DEF CheckAcl, Refuse
  <2>2. CASE Goto(c, "rate") /\ UNCHANGED <<rvars, cancelled, sem, class, found>>
    BY <1>7, <2>2 DEF CheckAcl
  <2>3. CASE SetState(c, "reading") /\ Goto(c, "read") /\ UNCHANGED <<cancelled, sem, class, found>>
    BY <1>7, <2>3 DEF CheckAcl
  <2>4. QED
    BY <1>7, <2>1, <2>2, <2>3 DEF CheckAcl
<1>8. CASE CheckRate(c)
  <2>1. CASE Refuse(c, "denied_rate")
    BY <1>8, <2>1 DEF CheckRate, Refuse
  <2>2. CASE SetState(c, "reading") /\ Goto(c, "read") /\ UNCHANGED <<cancelled, sem, class, found>>
    BY <1>8, <2>2 DEF CheckRate
  <2>3. QED
    BY <1>8, <2>1, <2>2 DEF CheckRate
<1>9. CASE Read(c)
  <2>1. CASE Classify(c, "error_read") /\ Goto(c, "release") /\ UNCHANGED rvars
    BY <1>9, <2>1 DEF Read
  <2>2. CASE Classify(c, "empty") /\ SetState(c, "done") /\ Goto(c, "reply")
    BY <1>9, <2>2 DEF Read
  <2>3. CASE SetState(c, "looking_up") /\ Goto(c, "lookup") /\ UNCHANGED class
    BY <1>9, <2>3 DEF Read
  <2>4. QED
    BY <1>9, <2>1, <2>2, <2>3 DEF Read
<1>10. CASE Lookup(c)
  BY <1>10 DEF Lookup
<1>11. CASE Write(c)
  <2>1. CASE Classify(c, "error_write") /\ SetState(c, "error")
    BY <1>11, <2>1 DEF Write
  <2>2. CASE Classify(c, IF found[c] THEN "hit" ELSE "miss") /\ UNCHANGED rvars
    BY <1>11, <2>2 DEF Write
  <2>3. QED
    BY <1>11, <2>1, <2>2 DEF Write
<1>12. CASE Reply(c)
  BY <1>12 DEF Reply
<1>13. CASE Release(c)
  BY <1>13 DEF Release
<1>14. CASE StatsMark(c)
  BY <1>14 DEF StatsMark, CloseMark
<1>15. CASE StatsDelete(c)
  BY <1>15 DEF StatsDelete, CloseDelete
<1>16. CASE StatsCount(c)
  BY <1>16 DEF StatsCount, Add
<1>17. CASE StatsOutcome(c)
  BY <1>17 DEF StatsOutcome, Add
<1>18. CASE Hangup(c)
  BY <1>18 DEF Hangup
<1>19. QED
  BY <1>1, <1>2, <1>3, <1>4, <1>5, <1>6, <1>7, <1>8, <1>9, <1>10, <1>11, <1>12, <1>13,
     <1>14, <1>15, <1>16, <1>17, <1>18
  DEF HandleStep

\* A step of one handler moves that handler along its path and leaves the
\* other handlers where they are.
LEMMA PathHandle ==
  ASSUME PathInv, NEW c \in Conn, Spawn(c) \/ HandleStep(c) \/ Hangup(c),
         NEW d \in Conn
  PROVE  PathAt(d)'
<1>1. CASE d = c
  BY <1>1, PathSelf
<1>2. CASE d # c
  <2>1. /\ pc'[d] = pc[d] /\ class'[d] = class[d] /\ state'[d] = state[d]
        /\ d \in live' <=> d \in live
    BY <1>2, OthersStay DEF PathInv
  <2>2. QED
    BY <2>1 DEF PathInv, PathAt, ClassAt, StateAt, LiveAt, Final
<1>3. QED
  BY <1>1, <1>2

\* The invariant holds in every reachable state.
LEMMA PathInductive == HandlerSpec => []PathInv
<1>1. PathInv /\ [HandlerNext]_vars => PathInv'
  <2> SUFFICES ASSUME PathInv, [HandlerNext]_vars
               PROVE  PathInv'
    OBVIOUS
  <2>1. CASE CancelContext
    BY <2>1 DEF CancelContext, rvars, PathInv, PathTypes, RegistryTypeOK,
                PathAt, ClassAt, StateAt, LiveAt
  <2>2. CASE UNCHANGED vars
    BY <2>2 DEF vars, hvars, rvars, PathInv, PathTypes, RegistryTypeOK,
                PathAt, ClassAt, StateAt, LiveAt
  <2>3. QED
    BY <2>1, <2>2, TypesHandle, PathHandle DEF HandlerNext, PathInv
<1>2. QED
  BY PathInit, <1>1, PTL DEF HandlerSpec

-----------------------------------------------------------------------------
\* The state shown while a connection is live and logged after Close agrees
\* with its result on every return path.
THEOREM LogIsConsistent == HandlerSpec => []LoggedStateAgrees
<1>1. ASSUME PathInv, StatsEnabled, NEW c \in Conn
      PROVE  /\ state[c] = "denied" => class[c] \in Denied
             /\ state[c] = "error" => class[c] = "error_write"
  <2>1. pc[c] \in Early \cup {"busy", "reply", "release", "mark"} \cup Late
    BY <1>1 DEF PathInv, PathTypes, Stage, Working, Closing, Early, Late
  <2>2. QED
    BY <1>1, <2>1 DEF PathInv, PathAt, StateAt, Final
<1>2. ASSUME PathInv, StatsEnabled, NEW c \in Conn, pc[c] \in {"hangup", "done"},
             class[c] \in {"hit", "miss", "empty", "error_read"}
      PROVE  state[c] = "done"
  BY <1>2 DEF PathInv, PathAt, StateAt, Late, Final, Denied
<1>3. PathInv => LoggedStateAgrees
  BY <1>1, <1>2 DEF LoggedStateAgrees, Denied
<1>4. QED
  BY PathInductive, <1>3, PTL

-----------------------------------------------------------------------------
(***************************************************************************)
(* The semaphore: a token enters with Acquire and leaves with Release.     *)
(***************************************************************************)

\* A step of one handler adds it to the guarded section with a token, takes
\* it out with its token, or leaves both alone.
LEMMA SemStep ==
  ASSUME PathInv, NEW c \in Conn, Spawn(c) \/ HandleStep(c) \/ Hangup(c)
  PROVE  \/ InUse' = InUse /\ sem' = sem
         \/ /\ c \notin InUse /\ InUse' = InUse \cup {c}
            /\ sem < MaxConcurrent /\ sem' = sem + 1
         \/ /\ c \in InUse /\ InUse' = InUse \ {c}
            /\ sem > 0 /\ sem' = sem - 1
<1> USE DEF PathInv, PathTypes, InUse, Working, Goto
<1>1. CASE Spawn(c)
  BY <1>1 DEF Spawn
<1>2. CASE OpenConn(c)
  BY <1>2 DEF OpenConn
<1>3. CASE Acquire(c)
  BY <1>3 DEF Acquire
<1>4. CASE SelectCancelled(c)
  BY <1>4 DEF SelectCancelled
<1>5. CASE SelectBusy(c)
  BY <1>5 DEF SelectBusy
<1>6. CASE BusyReply(c)
  BY <1>6 DEF BusyReply
<1>7. CASE CheckAcl(c)
  BY <1>7 DEF CheckAcl, Refuse
<1>8. CASE CheckRate(c)
  BY <1>8 DEF CheckRate, Refuse
<1>9. CASE Read(c)
  BY <1>9 DEF Read
<1>10. CASE Lookup(c)
  BY <1>10 DEF Lookup
<1>11. CASE Write(c)
  BY <1>11 DEF Write
<1>12. CASE Reply(c)
  BY <1>12 DEF Reply
<1>13. CASE Release(c)
  BY <1>13 DEF Release
<1>14. CASE StatsMark(c)
  BY <1>14 DEF StatsMark
<1>15. CASE StatsDelete(c)
  BY <1>15 DEF StatsDelete
<1>16. CASE StatsCount(c)
  BY <1>16 DEF StatsCount
<1>17. CASE StatsOutcome(c)
  BY <1>17 DEF StatsOutcome
<1>18. CASE Hangup(c)
  BY <1>18 DEF Hangup
<1>19. QED
  BY <1>1, <1>2, <1>3, <1>4, <1>5, <1>6, <1>7, <1>8, <1>9, <1>10, <1>11, <1>12, <1>13,
     <1>14, <1>15, <1>16, <1>17, <1>18
  DEF HandleStep

\* The semaphore is exact, and within its capacity.
SemInv == sem = Cardinality(InUse) /\ sem \in 0..MaxConcurrent

\* max_concurrent is a positive number.
LEMMA CapacityIsNat == MaxConcurrent \in Nat /\ MaxConcurrent >= 1
BY HandlerAssumption DEF HandlerAssumption

\* The semaphore counts its holders at every step of the handlers.
LEMMA SemInductive == HandlerSpec => []SemInv
<1>1. HandlerInit => SemInv
  <2> SUFFICES ASSUME HandlerInit PROVE SemInv
    OBVIOUS
  <2>1. InUse = {}
    BY DEF HandlerInit, InUse, Working
  <2>2. QED
    <3>1. Cardinality(InUse) = 0
      BY <2>1, FS_EmptySet
    <3>2. sem = 0
      BY DEF HandlerInit
    <3>3. QED
      BY <3>1, <3>2, CapacityIsNat DEF SemInv
<1>2. PathInv /\ SemInv /\ [HandlerNext]_vars => SemInv'
  <2> SUFFICES ASSUME PathInv, SemInv, [HandlerNext]_vars
               PROVE  SemInv'
    OBVIOUS
  <2>1. IsFiniteSet(InUse) /\ Cardinality(InUse) \in Nat
    BY RegistryAssumption, FS_Subset, FS_CardinalityType DEF InUse
  <2>2. CASE CancelContext \/ UNCHANGED vars
    BY <2>2 DEF CancelContext, vars, hvars, SemInv, InUse
  <2>3. ASSUME NEW c \in Conn, Spawn(c) \/ HandleStep(c) \/ Hangup(c)
        PROVE  SemInv'
    <3>1. Cardinality(InUse \cup {c}) = IF c \in InUse THEN Cardinality(InUse)
                                        ELSE Cardinality(InUse) + 1
      BY <2>1, FS_AddElement
    <3>2. Cardinality(InUse \ {c}) = IF c \in InUse THEN Cardinality(InUse) - 1
                                     ELSE Cardinality(InUse)
      BY <2>1, FS_RemoveElement
    <3>3. \/ InUse' = InUse /\ sem' = sem
          \/ /\ c \notin InUse /\ InUse' = InUse \cup {c}
             /\ sem < MaxConcurrent /\ sem' = sem + 1
          \/ /\ c \in InUse /\ InUse' = InUse \ {c}
             /\ sem > 0 /\ sem' = sem - 1
      BY <2>3, SemStep
    <3>4. QED
      BY <3>1, <3>2, <3>3, CapacityIsNat DEF SemInv
  <2>4. QED
    BY <2>2, <2>3 DEF HandlerNext
<1>3. QED
  BY PathInductive, <1>1, <1>2, PTL DEF HandlerSpec

\* The variables of the handlers keep their types; in particular the
\* semaphore never holds more tokens than its capacity.
THEOREM TypeCorrect == HandlerSpec => []HandlerTypeOK
<1>1. PathInv /\ SemInv => HandlerTypeOK
  BY DEF PathInv, PathTypes, SemInv, HandlerTypeOK
<1>2. QED
  BY PathInductive, SemInductive, <1>1, PTL

\* On every path through handle a token is taken once and given back once.
THEOREM SemaphoreIsExact == HandlerSpec => []SemAccounting
<1>1. SemInv => SemAccounting
  BY DEF SemInv, SemAccounting, InUse
<1>2. QED
  BY SemInductive, <1>1, PTL

-----------------------------------------------------------------------------
(***************************************************************************)
(* The counters: a connection is counted when it leaves for "hangup".      *)
(***************************************************************************)

\* A step of one handler counts it under k, or neither changes.
LEMMA CountStep ==
  ASSUME PathInv, StatsEnabled, NEW k \in Class,
         NEW c \in Conn, Spawn(c) \/ HandleStep(c) \/ Hangup(c)
  PROVE  \/ Counted(k)' = Counted(k) /\ counters'[k] = counters[k]
         \/ /\ c \notin Counted(k) /\ Counted(k)' = Counted(k) \cup {c}
            /\ counters'[k] = counters[k] + 1
<1> USE DEF PathInv, PathTypes, RegistryTypeOK, PathAt, ClassAt, Early, Class, Answered,
            Counted, Goto, Classify, SetState, rvars
\* Before the registry is done with the connection, nothing is counted.
<1>a. ASSUME {pc[c], pc'[c]} \cap {"hangup", "done"} = {}, counters' = counters
      PROVE  Counted(k)' = Counted(k) /\ counters'[k] = counters[k]
  <2>1. \A d \in Conn \ {c} : pc'[d] = pc[d] /\ class'[d] = class[d]
    BY OthersStay
  <2>2. \A d \in Conn : d \in Counted(k)' <=> d \in Counted(k)
    BY <1>a, <2>1
  <2>3. QED
    BY <1>a, <2>2
<1>1. CASE Spawn(c)
  BY <1>1 DEF Spawn
<1>2. CASE OpenConn(c)
  BY <1>2 DEF OpenConn, Open
<1>3. CASE Acquire(c)
  BY <1>3 DEF Acquire
<1>4. CASE SelectCancelled(c)
  BY <1>4 DEF SelectCancelled
<1>5. CASE SelectBusy(c)
  BY <1>5 DEF SelectBusy
<1>6. CASE BusyReply(c)
  BY <1>6 DEF BusyReply
<1>7. CASE CheckAcl(c)
  BY <1>7, <1>a DEF CheckAcl, Refuse
<1>8. CASE CheckRate(c)
  BY <1>8, <1>a DEF CheckRate, Refuse
<1>9. CASE Read(c)
  BY <1>9, <1>a DEF Read
<1>10. CASE Lookup(c)
  BY <1>10 DEF Lookup
<1>11. CASE Write(c)
  BY <1>11 DEF Write
<1>12. CASE Reply(c)
  BY <1>12 DEF Reply
<1>13. CASE Release(c)
  BY <1>13 DEF Release
<1>14. CASE StatsMark(c)
  BY <1>14 DEF StatsMark, CloseMark
<1>15. CASE StatsDelete(c)
  BY <1>15 DEF StatsDelete, CloseDelete
<1>16. CASE StatsCount(c)
  <2>1. CASE class[c] \in Answered
    <3>1. k # "total"
      OBVIOUS
    <3>2. counters'[k] = counters[k]
      BY <1>16, <2>1, <3>1 DEF StatsCount, Add
    <3>3. Counted(k)' = Counted(k)
      BY <1>16, <2>1 DEF StatsCount
    <3>4. QED
      BY <3>2, <3>3
  <2>2. CASE class[c] \notin Answered /\ k = class[c]
    <3>1. counters'[k] = counters[k] + 1
      BY <1>16, <2>2 DEF StatsCount, Add
    <3>2. c \notin Counted(k) /\ c \in Counted(k)'
      BY <1>16, <2>2 DEF StatsCount
    <3>a. \A d \in Conn \ {c} : pc'[d] = pc[d] /\ class'[d] = class[d]
      BY OthersStay
    <3>3. \A d \in Conn \ {c} : d \in Counted(k)' <=> d \in Counted(k)
      BY <3>a
    <3>4. Counted(k)' = Counted(k) \cup {c}
      BY <3>2, <3>3
    <3>5. QED
      BY <3>1, <3>2, <3>4
  <2>3. CASE class[c] \notin Answered /\ k # class[c]
    <3>1. counters'[k] = counters[k]
      BY <1>16, <2>3 DEF StatsCount, Add
    <3>2. Counted(k)' = Counted(k)
      BY <1>16, <2>3 DEF StatsCount
    <3>3. QED
      BY <3>1, <3>2
  <2>4. QED
    BY <2>1, <2>2, <2>3
<1>17. CASE StatsOutcome(c)
  <2>1. CASE k = class[c]
    BY <1>17, <2>1 DEF StatsOutcome, Add
  <2>2. CASE k # class[c]
    <3>1. counters'[k] = counters[k]
      BY <1>17, <2>2 DEF StatsOutcome, Add
    <3>2. Counted(k)' = Counted(k)
      BY <1>17, <2>2 DEF StatsOutcome
    <3>3. QED
      BY <3>1, <3>2
  <2>3. QED
    BY <2>1, <2>2
<1>18. CASE Hangup(c)
  BY <1>18 DEF Hangup
<1>19. QED
  BY <1>1, <1>2, <1>3, <1>4, <1>5, <1>6, <1>7, <1>8, <1>9, <1>10, <1>11, <1>12, <1>13,
     <1>14, <1>15, <1>16, <1>17, <1>18
  DEF HandleStep

\* Every connection is counted once, under the outcome of the path it took.
THEOREM EveryPathIsCounted == HandlerSpec => []EveryPathCounted
<1> DEFINE J == StatsEnabled => \A k \in Class : counters[k] = Cardinality(Counted(k))
<1>1. HandlerInit => J
  <2> SUFFICES ASSUME HandlerInit, NEW k \in Class PROVE counters[k] = Cardinality(Counted(k))
    OBVIOUS
  <2>1. Counted(k) = {}
    BY DEF HandlerInit, Counted
  <2>2. QED
    BY <2>1, FS_EmptySet DEF HandlerInit, RegistryInit
<1>2. PathInv /\ J /\ [HandlerNext]_vars => J'
  <2> SUFFICES ASSUME PathInv, J, [HandlerNext]_vars, StatsEnabled, NEW k \in Class
               PROVE  counters'[k] = Cardinality(Counted(k)')
    OBVIOUS
  <2>1. IsFiniteSet(Counted(k)) /\ Cardinality(Counted(k)) \in Nat
    BY RegistryAssumption, FS_Subset, FS_CardinalityType DEF Counted
  <2>2. CASE CancelContext \/ UNCHANGED vars
    BY <2>2 DEF CancelContext, vars, hvars, rvars, Counted
  <2>3. ASSUME NEW c \in Conn, Spawn(c) \/ HandleStep(c) \/ Hangup(c)
        PROVE  counters'[k] = Cardinality(Counted(k)')
    <3>1. Cardinality(Counted(k) \cup {c}) = IF c \in Counted(k) THEN Cardinality(Counted(k))
                                             ELSE Cardinality(Counted(k)) + 1
      BY <2>1, FS_AddElement
    <3>2. \/ Counted(k)' = Counted(k) /\ counters'[k] = counters[k]
          \/ /\ c \notin Counted(k) /\ Counted(k)' = Counted(k) \cup {c}
             /\ counters'[k] = counters[k] + 1
      BY <2>3, CountStep
    <3>3. QED
      BY <3>1, <3>2
  <2>4. QED
    BY <2>2, <2>3 DEF HandlerNext
<1>3. PathInv /\ J => EveryPathCounted
  BY DEF PathInv, PathAt, ClassAt, LiveAt, Early, Late, EveryPathCounted
<1>4. QED
  BY PathInductive, <1>1, <1>2, <1>3, PTL DEF HandlerSpec

-----------------------------------------------------------------------------
\* Handlers that have added to queriesTotal and not yet to hits or misses.
Halfway == {c \in Conn : pc[c] = "outcome"}

\* A step of one handler adds to the total, moves its count on to hits or
\* misses, or leaves the three counters alone.
LEMMA TotalStep ==
  ASSUME PathInv, StatsEnabled, NEW c \in Conn, Spawn(c) \/ HandleStep(c) \/ Hangup(c)
  PROVE  \/ /\ Halfway' = Halfway /\ counters'["total"] = counters["total"]
            /\ counters'["hit"] = counters["hit"] /\ counters'["miss"] = counters["miss"]
         \/ /\ c \notin Halfway /\ Halfway' = Halfway \cup {c}
            /\ counters'["total"] = counters["total"] + 1
            /\ counters'["hit"] = counters["hit"] /\ counters'["miss"] = counters["miss"]
         \/ /\ c \in Halfway /\ Halfway' = Halfway \ {c}
            /\ counters'["total"] = counters["total"]
            /\ \/ counters'["hit"] = counters["hit"] + 1 /\ counters'["miss"] = counters["miss"]
               \/ counters'["hit"] = counters["hit"] /\ counters'["miss"] = counters["miss"] + 1
<1> USE DEF PathInv, PathTypes, RegistryTypeOK, PathAt, ClassAt, Class, Answered, Halfway,
            Goto, SetState, rvars
<1>1. CASE Spawn(c)
  BY <1>1 DEF Spawn
<1>2. CASE OpenConn(c)
  BY <1>2 DEF OpenConn, Open
<1>3. CASE Acquire(c)
  BY <1>3 DEF Acquire
<1>4. CASE SelectCancelled(c)
  BY <1>4 DEF SelectCancelled
<1>5. CASE SelectBusy(c)
  BY <1>5 DEF SelectBusy
<1>6. CASE BusyReply(c)
  BY <1>6 DEF BusyReply
<1>7. CASE CheckAcl(c)
  BY <1>7 DEF CheckAcl, Refuse
<1>8. CASE CheckRate(c)
  BY <1>8 DEF CheckRate, Refuse
<1>9. CASE Read(c)
  BY <1>9 DEF Read
<1>10. CASE Lookup(c)
  BY <1>10 DEF Lookup
<1>11. CASE Write(c)
  BY <1>11 DEF Write
<1>12. CASE Reply(c)
  BY <1>12 DEF Reply
<1>13. CASE Release(c)
  BY <1>13 DEF Release
<1>14. CASE StatsMark(c)
  BY <1>14 DEF StatsMark, CloseMark
<1>15. CASE StatsDelete(c)
  BY <1>15 DEF StatsDelete, CloseDelete
<1>16. CASE StatsCount(c)
  <2>1. CASE class[c] \in Answered
    <3>1. c \notin Halfway /\ Halfway' = Halfway \cup {c}
      BY <1>16, <2>1 DEF StatsCount
    <3>2. /\ counters'["total"] = counters["total"] + 1
          /\ counters'["hit"] = counters["hit"] /\ counters'["miss"] = counters["miss"]
      BY <1>16, <2>1 DEF StatsCount, Add
    <3>3. QED
      BY <3>1, <3>2
  <2>2. CASE class[c] \notin Answered
    <3>1. Halfway' = Halfway
      BY <1>16, <2>2 DEF StatsCount
    <3>2. class[c] # "total" /\ class[c] # "hit" /\ class[c] # "miss"
      BY <2>2
    <3>3. /\ counters'["total"] = counters["total"]
          /\ counters'["hit"] = counters["hit"] /\ counters'["miss"] = counters["miss"]
      BY <1>16, <2>2, <3>2 DEF StatsCount, Add
    <3>4. QED
      BY <3>1, <3>3
  <2>3. QED
    BY <2>1, <2>2
<1>17. CASE StatsOutcome(c)
  <2>1. class[c] \in Answered /\ c \in Halfway /\ Halfway' = Halfway \ {c}
    BY <1>17 DEF StatsOutcome
  <2>2. /\ counters'["total"] = counters["total"]
        /\ \/ counters'["hit"] = counters["hit"] + 1 /\ counters'["miss"] = counters["miss"]
           \/ counters'["hit"] = counters["hit"] /\ counters'["miss"] = counters["miss"] + 1
    <3>1. counters' = [j \in DOMAIN counters |->
                         IF j = class[c] THEN counters[j] + 1 ELSE counters[j]]
      BY <1>17 DEF StatsOutcome, Add
    <3>2. {"total", "hit", "miss"} \subseteq DOMAIN counters
      OBVIOUS
    <3>3. CASE class[c] = "hit"
      BY <3>1, <3>2, <3>3
    <3>4. CASE class[c] = "miss"
      BY <3>1, <3>2, <3>4
    <3>5. QED
      BY <2>1, <3>3, <3>4
  <2>3. QED
    BY <2>1, <2>2
<1>18. CASE Hangup(c)
  BY <1>18 DEF Hangup
<1>19. QED
  BY <1>1, <1>2, <1>3, <1>4, <1>5, <1>6, <1>7, <1>8, <1>9, <1>10, <1>11, <1>12, <1>13,
     <1>14, <1>15, <1>16, <1>17, <1>18
  DEF HandleStep

\* With statistics disabled no counter moves.
LEMMA DisabledStep ==
  ASSUME PathInv, ~StatsEnabled, NEW c \in Conn, Spawn(c) \/ HandleStep(c) \/ Hangup(c)
  PROVE  counters' = counters
<1>1. ASSUME NEW k, Add(k) PROVE counters' = counters
  <2>1. counters' = [j \in DOMAIN counters |-> counters[j]]
    BY <1>1 DEF Add
  <2>2. QED
    BY <2>1 DEF PathInv, PathTypes, RegistryTypeOK
<1>2. CASE StatsCount(c)
  BY <1>1, <1>2 DEF StatsCount
<1>3. CASE StatsOutcome(c)
  BY <1>1, <1>3 DEF StatsOutcome
<1>4. CASE OpenConn(c) \/ StatsMark(c) \/ StatsDelete(c)
  BY <1>4 DEF OpenConn, Open, StatsMark, CloseMark, SetState, StatsDelete, CloseDelete
<1>5. CASE Spawn(c) \/ Acquire(c) \/ SelectCancelled(c) \/ BusyReply(c) \/ Reply(c) \/ Release(c)
           \/ Hangup(c)
  BY <1>5 DEF Spawn, Acquire, SelectCancelled, BusyReply, Reply, Release, Hangup, rvars
<1>6. CASE SelectBusy(c) \/ CheckAcl(c) \/ CheckRate(c) \/ Read(c) \/ Lookup(c) \/ Write(c)
  BY <1>6 DEF SelectBusy, CheckAcl, CheckRate, Refuse, Read, Lookup, Write, SetState, rvars
<1>7. QED
  BY <1>2, <1>3, <1>4, <1>5, <1>6 DEF HandleStep

\* The arithmetic of the three counters.
LEMMA Balance ==
  ASSUME NEW t \in Nat, NEW h \in Nat, NEW m \in Nat, NEW n \in Nat, t = h + m + n,
         NEW tt, NEW hh, NEW mm, NEW nn,
         \/ nn = n /\ tt = t /\ hh = h /\ mm = m
         \/ nn = n + 1 /\ tt = t + 1 /\ hh = h /\ mm = m
         \/ nn = n - 1 /\ tt = t /\ ((hh = h + 1 /\ mm = m) \/ (hh = h /\ mm = m + 1))
  PROVE  tt = hh + mm + nn
OBVIOUS

\* queriesTotal is never behind hits and misses, although a hit or miss takes
\* two separate atomic increments.
THEOREM TotalIsAhead == HandlerSpec => []TotalLeads
<1> DEFINE J == /\ StatsEnabled =>
                     counters["total"] = counters["hit"] + counters["miss"] + Cardinality(Halfway)
                /\ ~StatsEnabled => \A k \in {"total", "hit", "miss"} : counters[k] = 0
<1>1. HandlerInit => J
  <2> SUFFICES ASSUME HandlerInit PROVE J
    OBVIOUS
  <2>1. Halfway = {}
    BY DEF HandlerInit, Halfway
  <2>2. Cardinality(Halfway) = 0
    BY <2>1, FS_EmptySet
  <2>3. counters["total"] = 0 /\ counters["hit"] = 0 /\ counters["miss"] = 0
    BY DEF HandlerInit, RegistryInit, Class
  <2>4. QED
    BY <2>2, <2>3
<1>2. PathInv /\ J /\ [HandlerNext]_vars => J'
  <2> SUFFICES ASSUME PathInv, J, [HandlerNext]_vars
               PROVE  J'
    OBVIOUS
  <2>1. IsFiniteSet(Halfway) /\ Cardinality(Halfway) \in Nat
    BY RegistryAssumption, FS_Subset, FS_CardinalityType DEF Halfway
  <2>2. CASE CancelContext \/ UNCHANGED vars
    BY <2>2 DEF CancelContext, vars, hvars, rvars, Halfway
  <2>3. ASSUME NEW c \in Conn, Spawn(c) \/ HandleStep(c) \/ Hangup(c)
        PROVE  J'
    <3>1. CASE StatsEnabled
      <4>1. Cardinality(Halfway \cup {c}) = IF c \in Halfway THEN Cardinality(Halfway)
                                            ELSE Cardinality(Halfway) + 1
        BY <2>1, FS_AddElement
      <4>2. Cardinality(Halfway \ {c}) = IF c \in Halfway THEN Cardinality(Halfway) - 1
                                         ELSE Cardinality(Halfway)
        BY <2>1, FS_RemoveElement
      <4>3. /\ counters["total"] \in Nat /\ counters["hit"] \in Nat /\ counters["miss"] \in Nat
            /\ counters'["total"] \in Nat /\ counters'["hit"] \in Nat /\ counters'["miss"] \in Nat
        BY <2>3, TypesHandle DEF PathInv, PathTypes, RegistryTypeOK, Class
      <4>4. counters'["total"] = counters'["hit"] + counters'["miss"] + Cardinality(Halfway')
        <5>1. \/ /\ Halfway' = Halfway /\ counters'["total"] = counters["total"]
                 /\ counters'["hit"] = counters["hit"] /\ counters'["miss"] = counters["miss"]
              \/ /\ c \notin Halfway /\ Halfway' = Halfway \cup {c}
                 /\ counters'["total"] = counters["total"] + 1
                 /\ counters'["hit"] = counters["hit"] /\ counters'["miss"] = counters["miss"]
              \/ /\ c \in Halfway /\ Halfway' = Halfway \ {c}
                 /\ counters'["total"] = counters["total"]
                 /\ \/ counters'["hit"] = counters["hit"] + 1 /\ counters'["miss"] = counters["miss"]
                    \/ counters'["hit"] = counters["hit"] /\ counters'["miss"] = counters["miss"] + 1
          BY <2>3, <3>1, TotalStep
        <5>2. counters["total"] = counters["hit"] + counters["miss"] + Cardinality(Halfway)
          BY <3>1
        <5>3. \/ /\ Cardinality(Halfway') = Cardinality(Halfway)
                 /\ counters'["total"] = counters["total"]
                 /\ counters'["hit"] = counters["hit"] /\ counters'["miss"] = counters["miss"]
              \/ /\ Cardinality(Halfway') = Cardinality(Halfway) + 1
                 /\ counters'["total"] = counters["total"] + 1
                 /\ counters'["hit"] = counters["hit"] /\ counters'["miss"] = counters["miss"]
              \/ /\ Cardinality(Halfway') = Cardinality(Halfway) - 1
                 /\ counters'["total"] = counters["total"]
                 /\ \/ counters'["hit"] = counters["hit"] + 1 /\ counters'["miss"] = counters["miss"]
                    \/ counters'["hit"] = counters["hit"] /\ counters'["miss"] = counters["miss"] + 1
          BY <4>1, <4>2, <5>1
        <5>4. QED
          BY <2>1, <4>3, <5>2, <5>3, Balance
      <4>5. QED
        BY <3>1, <4>4
    <3>2. CASE ~StatsEnabled
      BY <2>3, <3>2, DisabledStep
    <3>3. QED
      BY <3>1, <3>2
  <2>4. QED
    BY <2>2, <2>3 DEF HandlerNext
<1>3. PathInv /\ J => TotalLeads
  <2> SUFFICES ASSUME PathInv, J PROVE TotalLeads
    OBVIOUS
  <2>1. Cardinality(Halfway) \in Nat
    BY RegistryAssumption, FS_Subset, FS_CardinalityType DEF Halfway
  <2>2. /\ counters["total"] \in Nat /\ counters["hit"] \in Nat /\ counters["miss"] \in Nat
    BY DEF PathInv, PathTypes, RegistryTypeOK, Class
  <2>3. QED
    BY <2>1, <2>2 DEF TotalLeads
<1>4. QED
  BY PathInductive, <1>1, <1>2, <1>3, PTL DEF HandlerSpec
-----------------------------------------------------------------------------
(***************************************************************************)
(* The server as a whole: the accept side and the handlers agree on which  *)
(* connections have a handler, so that each step of the server is a step   *)
(* of the one, of the other, or of both.                                   *)
(***************************************************************************)
Fate == {"new", "backlog", "handling", "done", "reset", "refused"}

JoinedAt(c) ==
  /\ conn[c] = "handling" <=> pc[c] \notin {"idle", "done"}
  /\ conn[c] = "done" <=> pc[c] = "done"

\* Waiting for the wait group is what keeps the handlers of a Run that has
\* returned from being in flight.
Joined ==
  /\ PathTypes
  /\ conn \in [Conn -> Fate]
  /\ \A c \in Conn : JoinedAt(c)
  /\ runPc = "returned" => \A c \in Conn : conn[c] # "handling"

\* Before the first connection the two sides agree.
LEMMA JoinedInit == Init => Joined
<1> SUFFICES ASSUME Init PROVE Joined
  OBVIOUS
<1>1. PathTypes
  BY PathInit DEF Init, PathInv
<1>2. conn = [c \in Conn |-> "new"] /\ runPc = "listen"
  BY DEF Init, ListenerInit
<1>3. \A c \in Conn : pc[c] = "idle"
  BY DEF Init, HandlerInit
<1>4. QED
  BY <1>1, <1>2, <1>3 DEF Joined, JoinedAt, Fate

\* The accept side alone neither starts nor ends a handler, and Run returns
\* only when none is running.
LEMMA ListenerStepConn ==
  ASSUME Joined, ListenerStep
  PROVE  /\ conn' \in [Conn -> Fate]
         /\ \A c \in Conn : /\ conn'[c] = "handling" <=> conn[c] = "handling"
                            /\ conn'[c] = "done" <=> conn[c] = "done"
         /\ runPc' = "returned" => \A c \in Conn : conn[c] # "handling"
<1> USE DEF Joined, Fate
<1>1. CASE RunListen
  BY <1>1 DEF RunListen
<1>2. CASE RunInstall
  BY <1>2 DEF RunInstall
<1>3. CASE RunLoop
  BY <1>3 DEF RunLoop
<1>4. CASE AcceptFails
  BY <1>4 DEF AcceptFails
<1>5. CASE RunFailed
  BY <1>5 DEF RunFailed
<1>6. CASE RunDrain
  BY <1>6 DEF RunDrain
<1>7. CASE WatchTake
  BY <1>7 DEF WatchTake
<1>8. CASE WatchClose
  BY <1>8 DEF WatchClose, ResetBacklog
<1>9. CASE Cancel
  BY <1>9 DEF Cancel
<1>10. ASSUME NEW a \in Addr, Rebind(a)
       PROVE  /\ conn' \in [Conn -> Fate]
              /\ \A c \in Conn : /\ conn'[c] = "handling" <=> conn[c] = "handling"
                                 /\ conn'[c] = "done" <=> conn[c] = "done"
              /\ runPc' = "returned" => \A c \in Conn : conn[c] # "handling"
  BY <1>10 DEF Rebind, ResetBacklog
<1>11. ASSUME NEW c \in Conn, Dial(c)
       PROVE  /\ conn' \in [Conn -> Fate]
              /\ \A d \in Conn : /\ conn'[d] = "handling" <=> conn[d] = "handling"
                                 /\ conn'[d] = "done" <=> conn[d] = "done"
              /\ runPc' = "returned" => \A d \in Conn : conn[d] # "handling"
  BY <1>11 DEF Dial
<1>12. QED
  BY <1>1, <1>2, <1>3, <1>4, <1>5, <1>6, <1>7, <1>8, <1>9, <1>10, <1>11
  DEF ListenerStep, WatchStep

\* A handler between its start and its end is at neither.
LEMMA InFlight ==
  ASSUME PathTypes, NEW c \in Conn, HandleStep(c)
  PROVE  pc[c] \notin {"idle", "done"} /\ pc'[c] \notin {"idle", "done"}
BY DEF PathTypes, Goto, HandleStep, OpenConn, Acquire, SelectCancelled, SelectBusy, BusyReply,
       CheckAcl, Refuse, CheckRate, Read, Lookup, Write, Reply, Release, StatsMark,
       StatsDelete, StatsCount, StatsOutcome

\* Accepting a connection is what starts its handler.
LEMMA AcceptSpawns ==
  ASSUME Joined, NEW c \in Conn, AcceptAndSpawn(c)
  PROVE  Spawn(c)
BY DEF Joined, JoinedAt, AcceptAndSpawn, Accept, Spawn, Goto

\* Every step of the server keeps the accept side and the handlers joined.
LEMMA JoinedStep ==
  ASSUME Joined, [Next]_svars
  PROVE  Joined'
<1>1. CASE ListenerStep
  <2>1. PathTypes' /\ pc' = pc
    <3>1. cancelled' = cancelled \/ cancelled' = TRUE
      BY <1>1 DEF ListenerStep, RunListen, RunInstall, RunLoop, AcceptFails, RunFailed,
                  RunDrain, WatchStep, WatchTake, WatchClose, Cancel, Rebind, Dial
    <3>2. QED
      BY <1>1, <3>1 DEF ListenerStep, rvars, Joined, PathTypes, RegistryTypeOK
  <2>2. QED
    BY <1>1, <2>1, ListenerStepConn DEF Joined, JoinedAt
<1>2. ASSUME NEW c \in Conn, AcceptAndSpawn(c) PROVE Joined'
  <2>1. PathTypes'
    BY <1>2, AcceptSpawns, TypesHandle DEF Joined
  <2>2. /\ conn' = [conn EXCEPT ![c] = "handling"] /\ runPc' = "loop"
        /\ pc' = [pc EXCEPT ![c] = "open"]
    BY <1>2 DEF AcceptAndSpawn, Accept
  <2>3. QED
    BY <2>1, <2>2 DEF Joined, JoinedAt, PathTypes, Fate
<1>3. ASSUME NEW c \in Conn, ServeStep(c) PROVE Joined'
  <2>1. PathTypes'
    BY <1>3, TypesHandle DEF Joined, ServeStep
  <2>2. conn' = conn /\ runPc' = runPc
    BY <1>3 DEF ServeStep, accept
  <2>3. pc[c] \notin {"idle", "done"} /\ pc'[c] \notin {"idle", "done"}
    BY <1>3, InFlight DEF ServeStep, Joined
  <2>4. \A d \in Conn \ {c} : pc'[d] = pc[d]
    BY <1>3, OthersStay DEF ServeStep, Joined
  <2>5. QED
    BY <2>1, <2>2, <2>3, <2>4 DEF Joined, JoinedAt
<1>4. ASSUME NEW c \in Conn, Finish(c) PROVE Joined'
  <2>1. PathTypes'
    BY <1>4, TypesHandle DEF Joined, Finish
  <2>2. /\ conn' = [conn EXCEPT ![c] = "done"] /\ runPc' = runPc
        /\ pc' = [pc EXCEPT ![c] = "done"]
    BY <1>4 DEF Finish, HandlerDone, Hangup, Goto
  <2>3. QED
    BY <2>1, <2>2 DEF Joined, JoinedAt, PathTypes, Fate
<1>5. CASE UNCHANGED svars
  BY <1>5 DEF svars, accept, vars, hvars, rvars, Joined, JoinedAt, PathTypes, RegistryTypeOK
<1>6. QED
  BY <1>1, <1>2, <1>3, <1>4, <1>5 DEF Next

\* The two sides stay joined.
LEMMA JoinedInductive == Spec => []Joined
BY JoinedInit, JoinedStep, PTL DEF Spec

-----------------------------------------------------------------------------
\* The server's handlers are those of module Handler: what is proved of them
\* holds in the running server, where they are started by the accept loop and
\* stop when Run has returned.
THEOREM ImplementsHandlers == Spec => HandlerSpec
<1>1. Joined /\ [Next]_svars => [HandlerNext]_vars
  <2> SUFFICES ASSUME Joined, [Next]_svars PROVE [HandlerNext]_vars
    OBVIOUS
  <2>1. CASE ListenerStep
    <3>1. CASE Cancel
      BY <2>1, <3>1 DEF ListenerStep, Cancel, HandlerNext, CancelContext
    <3>2. CASE ~Cancel
      <4>1. cancelled' = cancelled
        BY <2>1, <3>2 DEF ListenerStep, RunListen, RunInstall, RunLoop, AcceptFails,
             RunFailed, RunDrain, WatchStep, WatchTake, WatchClose, Rebind, Dial
      <4>2. QED
        BY <2>1, <4>1 DEF ListenerStep, vars, hvars
    <3>3. QED
      BY <3>1, <3>2
  <2>2. ASSUME NEW c \in Conn, AcceptAndSpawn(c) PROVE HandlerNext
    BY <2>2, AcceptSpawns DEF HandlerNext
  <2>3. ASSUME NEW c \in Conn, ServeStep(c) PROVE HandlerNext
    BY <2>3 DEF HandlerNext, ServeStep
  <2>4. ASSUME NEW c \in Conn, Finish(c) PROVE HandlerNext
    BY <2>4 DEF HandlerNext, Finish
  <2>5. CASE UNCHANGED svars
    BY <2>5 DEF svars
  <2>6. QED
    BY <2>1, <2>2, <2>3, <2>4, <2>5 DEF Next
<1>2. QED
  BY JoinedInductive, <1>1, PTL DEF Spec, Init, HandlerSpec

\* The server's accept side is that of module Listener: a handler's steps are
\* invisible to it except for its start and its wg.Done.
THEOREM ImplementsListener == Spec => ListenerSpec
<1>1. Joined /\ [Next]_svars => [ListenerNext]_lvars
  <2> SUFFICES ASSUME Joined, [Next]_svars PROVE [ListenerNext]_lvars
    OBVIOUS
  <2>1. CASE ListenerStep
    BY <2>1 DEF ListenerStep, ListenerNext, RunStep
  <2>2. ASSUME NEW c \in Conn, AcceptAndSpawn(c) PROVE ListenerNext
    BY <2>2 DEF AcceptAndSpawn, ListenerNext, RunStep
  <2>3. ASSUME NEW c \in Conn, ServeStep(c) PROVE UNCHANGED lvars
    <3>1. cancelled' = cancelled
      BY <2>3 DEF ServeStep, HandleStep, OpenConn, Acquire, SelectCancelled, SelectBusy,
           BusyReply, CheckAcl, Refuse, CheckRate, Read, Lookup, Write, Reply, Release,
           StatsMark, StatsDelete, StatsCount, StatsOutcome
    <3>2. QED
      BY <2>3, <3>1 DEF ServeStep, accept, lvars
  <2>4. ASSUME NEW c \in Conn, Finish(c) PROVE ListenerNext
    BY <2>4 DEF Finish, ListenerNext
  <2>5. CASE UNCHANGED svars
    BY <2>5 DEF svars, vars, hvars, accept, lvars
  <2>6. QED
    BY <2>1, <2>2, <2>3, <2>4, <2>5 DEF Next
<1>2. QED
  BY JoinedInductive, <1>1, PTL DEF Spec, Init, ListenerSpec

-----------------------------------------------------------------------------
\* When Run returns, every connection it accepted has been answered or
\* refused, counted once and taken off the live set, and every token is back.
THEOREM ShutdownDrains == Spec => []DrainedAndCounted
<1>1. Joined /\ PathInv /\ SemInv /\ EveryPathCounted => DrainedAndCounted
  <2> SUFFICES ASSUME Joined, PathInv, SemInv, EveryPathCounted, runPc = "returned"
               PROVE  /\ \A c \in Conn : pc[c] \in {"idle", "done"}
                      /\ live = {}
                      /\ sem = 0
                      /\ \A k \in Class : StatsEnabled => counters[k] = Cardinality(Counted(k))
    BY DEF DrainedAndCounted
  <2>1. \A c \in Conn : pc[c] \in {"idle", "done"}
    BY DEF Joined, JoinedAt
  <2>2. live = {}
    BY <2>1 DEF PathInv, PathAt, LiveAt, Late, PathTypes, RegistryTypeOK
  <2>3. InUse = {}
    BY <2>1 DEF InUse, Working
  <2>4. sem = 0
    BY <2>3, FS_EmptySet DEF SemInv
  <2>5. QED
    BY <2>1, <2>2, <2>4 DEF EveryPathCounted
<1>2. QED
  BY JoinedInductive, ImplementsHandlers, PathInductive, SemInductive, EveryPathIsCounted,
     <1>1, PTL

-----------------------------------------------------------------------------
(* The accept side: theorems about module Listener. *)

\* closed is the watcher's doing, it comes from a cancelled context, and it
\* takes ln with it.
WatcherOwnsClosed ==
  /\ closed => cancelled
  /\ closed <=> watchPc \in {"close", "done"}
  /\ closed => ln = nil
  /\ runPc \in {"listen", "install", "error"} => watchPc = "off"

\* The published listener is open, also the one Run has yet to publish.
PublishedIsOpen ==
  /\ ln # nil => ln \in open /\ addrOf[ln] = bindAddr
  /\ runPc = "install" => runLn \in open /\ runLn # ln /\ addrOf[runLn] = Bind
  /\ runPc \notin {"listen", "install", "error"} /\ ln = nil => closed

\* What the accept loop knows about the listener it used last.
LoopKnows ==
  /\ runPc \in {"accept", "failed", "failedClosed"} => runLn # nil
  /\ runPc = "failedClosed" => runLn \notin open
  /\ runPc \in {"drain", "returned"} => cancelled

AcceptInv ==
  ListenerTypeOK /\ WatcherOwnsClosed /\ PublishedIsOpen /\ LoopKnows

-----------------------------------------------------------------------------
\* The initial state satisfies the invariant.
LEMMA AcceptInit == ListenerInit => AcceptInv
<1> SUFFICES ASSUME ListenerInit PROVE AcceptInv
  OBVIOUS
<1>1. ListenerTypeOK
  <2>1. opened \in 0..MaxListens /\ acceptErrs \in 0..MaxAcceptErrors
    BY ListenerAssumption DEF ListenerInit
  <2>2. open \subseteq 1..opened /\ ln \in 0..opened /\ runLn \in 0..opened /\ watchLn \in 0..opened
    BY DEF ListenerInit, nil
  <2>3. addrOf \in [Socket -> Addr] /\ bindAddr \in Addr
    BY ListenerAssumption DEF ListenerInit
  <2>4. /\ conn \in [Conn -> {"new", "backlog", "handling", "done", "reset", "refused"}]
        /\ via \in [Conn -> 0..opened]
    BY DEF ListenerInit
  <2>5. QED
    BY <2>1, <2>2, <2>3, <2>4 DEF ListenerInit, ListenerTypeOK
<1>2. WatcherOwnsClosed /\ PublishedIsOpen /\ LoopKnows
  BY DEF ListenerInit, WatcherOwnsClosed, PublishedIsOpen, LoopKnows
<1>3. QED
  BY <1>1, <1>2 DEF AcceptInv

\* Every step keeps the types.
LEMMA AcceptTypeStep ==
  ASSUME AcceptInv, [ListenerNext]_lvars
  PROVE  ListenerTypeOK'
<1> USE ListenerAssumption DEF AcceptInv, ListenerTypeOK, Socket, nil
<1>1. CASE RunListen
  <2>1. CASE runPc' = "error" /\ UNCHANGED <<opened, addrOf, open, runLn>>
    BY <1>1, <2>1 DEF RunListen
  <2>2. CASE Listen(Bind) /\ open' = open \cup {opened'} /\ runLn' = opened' /\ runPc' = "install"
    <3>1. /\ opened' = opened + 1 /\ opened' \in 0..MaxListens
          /\ addrOf' \in [1..MaxListens -> Addr]
      BY <2>2 DEF Listen
    <3>2. QED
      BY <1>1, <2>2, <3>1 DEF RunListen
  <2>3. QED
    BY <1>1, <2>1, <2>2 DEF RunListen
<1>2. CASE RunInstall
  BY <1>2 DEF RunInstall
<1>3. CASE RunLoop
  BY <1>3 DEF RunLoop
<1>4. CASE AcceptFails
  BY <1>4 DEF AcceptFails
<1>5. CASE RunFailed
  BY <1>5 DEF RunFailed
<1>6. CASE RunDrain
  BY <1>6 DEF RunDrain
<1>7. ASSUME NEW c \in Conn, Accept(c)
      PROVE  ListenerTypeOK'
  BY <1>7 DEF Accept
<1>8. CASE WatchTake
  BY <1>8 DEF WatchTake
<1>9. CASE WatchClose
  BY <1>9 DEF WatchClose, ResetBacklog
<1>10. CASE Cancel
  BY <1>10 DEF Cancel
<1>11. ASSUME NEW a \in Addr, Rebind(a)
       PROVE  ListenerTypeOK'
  <2>1. /\ opened' = opened + 1 /\ opened' \in 0..MaxListens
        /\ addrOf' \in [1..MaxListens -> Addr]
    BY <1>11 DEF Rebind, Listen
  <2>2. conn' \in [Conn -> {"new", "backlog", "handling", "done", "reset", "refused"}]
    BY <1>11 DEF Rebind, ResetBacklog
  <2>3. QED
    BY <1>11, <2>1, <2>2 DEF Rebind
<1>12. ASSUME NEW c \in Conn, Dial(c)
       PROVE  ListenerTypeOK'
  <2>1. conn' \in [Conn -> {"new", "backlog", "handling", "done", "reset", "refused"}]
    BY <1>12 DEF Dial
  <2>2. via' \in [Conn -> 0..opened']
    BY <1>12 DEF Dial
  <2>3. QED
    BY <1>12, <2>1, <2>2 DEF Dial
<1>13. ASSUME NEW c \in Conn, HandlerDone(c)
       PROVE  ListenerTypeOK'
  BY <1>13 DEF HandlerDone
<1>14. CASE UNCHANGED lvars
  BY <1>14 DEF lvars
<1>15. QED
  BY <1>1, <1>2, <1>3, <1>4, <1>5, <1>6, <1>7, <1>8, <1>9, <1>10, <1>11, <1>12, <1>13, <1>14
  DEF ListenerNext, RunStep, WatchStep

\* Every step keeps the agreement between Run, the watcher and Rebind.
LEMMA AcceptStep ==
  ASSUME AcceptInv, [ListenerNext]_lvars
  PROVE  WatcherOwnsClosed' /\ PublishedIsOpen' /\ LoopKnows'
<1> DEFINE Agreement == WatcherOwnsClosed /\ PublishedIsOpen /\ LoopKnows
<1> USE ListenerAssumption
    DEF AcceptInv, ListenerTypeOK, WatcherOwnsClosed, PublishedIsOpen, LoopKnows,
        Socket, nil
\* A fresh socket is none of those known so far.
<1>1. CASE RunListen
  BY <1>1 DEF RunListen, Listen
<1>2. CASE RunInstall
  BY <1>2 DEF RunInstall
<1>3. CASE RunLoop
  BY <1>3 DEF RunLoop
<1>4. CASE AcceptFails
  BY <1>4 DEF AcceptFails
\* A listener that is closed under the loop is no longer published, so it was
\* rotated or the server is shutting down.
<1>5. CASE RunFailed
  BY <1>5 DEF RunFailed
<1>6. CASE RunDrain
  BY <1>6 DEF RunDrain
<1>7. ASSUME NEW c \in Conn, Accept(c)
      PROVE  Agreement'
  BY <1>7 DEF Accept
<1>8. CASE WatchTake
  BY <1>8 DEF WatchTake, Live
<1>9. CASE WatchClose
  BY <1>9 DEF WatchClose, Live
<1>10. CASE Cancel
  BY <1>10 DEF Cancel, Live
<1>11. ASSUME NEW a \in Addr, Rebind(a)
       PROVE  Agreement'
  BY <1>11 DEF Rebind, Listen, Live
<1>12. ASSUME NEW c \in Conn, Dial(c)
       PROVE  Agreement'
  BY <1>12 DEF Dial, Live
<1>13. ASSUME NEW c \in Conn, HandlerDone(c)
       PROVE  Agreement'
  BY <1>13 DEF HandlerDone
<1>14. CASE UNCHANGED lvars
  BY <1>14 DEF lvars
<1>15. QED
  BY <1>1, <1>2, <1>3, <1>4, <1>5, <1>6, <1>7, <1>8, <1>9, <1>10, <1>11, <1>12, <1>13, <1>14
  DEF ListenerNext, RunStep, WatchStep

\* The invariant holds in every reachable state.
LEMMA AcceptInductive == ListenerSpec => []AcceptInv
<1>1. AcceptInv /\ [ListenerNext]_lvars => AcceptInv'
  BY AcceptTypeStep, AcceptStep DEF AcceptInv
<1>2. QED
  BY AcceptInit, <1>1, PTL DEF ListenerSpec

-----------------------------------------------------------------------------
\* The variables of the accept side keep their types.
THEOREM ListenerTypeCorrect == ListenerSpec => []ListenerTypeOK
<1>1. AcceptInv => ListenerTypeOK
  BY DEF AcceptInv
<1>2. QED
  BY AcceptInductive, <1>1, PTL

\* Run returns nil only after the context was cancelled, whatever Rebind and
\* the watcher do while it accepts: a moved listener is never mistaken for a
\* closed server.
THEOREM RunOutlivesRebind == ListenerSpec => []RunReturnsOnlyOnShutdown
<1>1. AcceptInv => RunReturnsOnlyOnShutdown
  BY DEF AcceptInv, LoopKnows, RunReturnsOnlyOnShutdown
<1>2. QED
  BY AcceptInductive, <1>1, PTL

\* BindAddr names the address of the socket the accept loop uses, also when
\* SIGHUP arrives before Run has installed its listener.
THEOREM BindAddrIsTrue == ListenerSpec => []BindAddrIsServed
<1>1. AcceptInv => BindAddrIsServed
  BY DEF AcceptInv, PublishedIsOpen, BindAddrIsServed
<1>2. QED
  BY AcceptInductive, <1>1, PTL

\* However Rebind, Accept errors, the start of Run and a shutdown interleave,
\* at most one socket is left open that nobody accepts from and nobody closes:
\* the one Run found in s.ln when it installed its own listener.
THEOREM NoSocketLeaks == ListenerSpec => []OrphansAreOverwritten
<1> DEFINE Fresh == runPc \in {"listen", "install"} => overwritten = nil /\ watchPc = "off"
           J == OrphansAreOverwritten /\ Fresh
<1>1. ListenerInit => J
  BY DEF ListenerInit, OrphansAreOverwritten, nil
<1>2. AcceptInv /\ J /\ [ListenerNext]_lvars => J'
  <2> SUFFICES ASSUME AcceptInv, J, [ListenerNext]_lvars
               PROVE  J'
    OBVIOUS
  <2> USE DEF AcceptInv, ListenerTypeOK, WatcherOwnsClosed, OrphansAreOverwritten, nil
  <2>1. CASE RunListen
    BY <2>1 DEF RunListen
  <2>2. CASE RunInstall
    BY <2>2 DEF RunInstall
  <2>3. CASE RunLoop
    BY <2>3 DEF RunLoop
  <2>4. CASE AcceptFails
    BY <2>4 DEF AcceptFails
  <2>5. CASE RunFailed
    BY <2>5 DEF RunFailed
  <2>6. CASE RunDrain
    BY <2>6 DEF RunDrain
  <2>7. ASSUME NEW c \in Conn, Accept(c)
        PROVE  J'
    BY <2>7 DEF Accept
  <2>8. CASE WatchTake
    BY <2>8 DEF WatchTake
  <2>9. CASE WatchClose
    BY <2>9 DEF WatchClose
  <2>10. CASE Cancel
    BY <2>10 DEF Cancel
  <2>11. ASSUME NEW a \in Addr, Rebind(a)
         PROVE  J'
    BY <2>11 DEF Rebind, Listen
  <2>12. ASSUME NEW c \in Conn, Dial(c)
         PROVE  J'
    BY <2>12 DEF Dial
  <2>13. ASSUME NEW c \in Conn, HandlerDone(c)
         PROVE  J'
    BY <2>13 DEF HandlerDone
  <2>14. CASE UNCHANGED lvars
    BY <2>14 DEF lvars
  <2>15. QED
    BY <2>1, <2>2, <2>3, <2>4, <2>5, <2>6, <2>7, <2>8, <2>9, <2>10, <2>11, <2>12, <2>13,
       <2>14
    DEF ListenerNext, RunStep, WatchStep
<1>3. J => OrphansAreOverwritten
  OBVIOUS
<1>4. QED
  BY AcceptInductive, <1>1, <1>2, <1>3, PTL DEF ListenerSpec
=============================================================================
