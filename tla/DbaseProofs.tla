---------------------------- MODULE DbaseProofs -----------------------------
(***************************************************************************)
(* Proofs about the dbase pipeline, for any number of dump files, objects, *)
(* versions, slots and process failures, and about its schedule, for any   *)
(* length of the day and of the configured intervals.                      *)
(***************************************************************************)
EXTENDS Refresher, TLAPS

(***************************************************************************)
(* The inductive invariant.  Three orderings carry the result: the active  *)
(* store is never ahead of the cache, nor the cache of the registry, and a *)
(* file under construction is the cached one.                              *)
(***************************************************************************)
Ordered(f) ==
  /\ cache[f] <= upstream[f]
  /\ fetch[f] = "copying" => cache[f] <= body[f] /\ body[f] <= upstream[f] /\ body[f] >= 1
  /\ Fetched(f) => cache[f] >= 1
  /\ cur[f].v <= cache[f]

Whole(f) ==
  cur[f] = Absent \/ (cur[f].n = NObj /\ cur[f].v >= 1)

Building(f) ==
  /\ load[f] \in {"parsing", "loaded", "error"} => build[f].v = cache[f] /\ cache[f] >= 1
  /\ load[f] = "loaded" => build[f].n = NObj
  /\ load[f] \in {"none", "queued"} => build[f] = Absent

InPhase(f) ==
  /\ load[f] # "none" => phase = "loading"
  /\ phase = "loading" => (load[f] # "none" <=> Fetched(f))
  /\ fetch[f] \in {"queued", "copying"} => phase = "fetching"
  /\ phase \in {"fetching", "loading"} <=> fetch[f] # "none"

Boot ==
  /\ phase = "loading" => \E f \in File : Fetched(f)
  /\ ~booted => cur = NewStore
  /\ phase = "down" => ~booted

IndInv ==
  /\ TypeOK
  /\ \A f \in File : Ordered(f) /\ Whole(f) /\ Building(f) /\ InPhase(f)
  /\ Boot

-----------------------------------------------------------------------------
(* The empty store is a store. *)
LEMMA NewStoreType == NewStore \in [File -> Entry]
BY DbaseAssumption DEF NewStore, Absent, Entry

(* The initial states satisfy the invariant. *)
LEMMA InitInv == Init => IndInv
<1> SUFFICES ASSUME Init PROVE IndInv
    OBVIOUS
<1>1. TypeOK
  <2>1. cache \in [File -> 0..MaxVersion]
    BY DbaseAssumption DEF Init
  <2>2. upstream \in [File -> 1..MaxVersion] /\ body \in [File -> 0..MaxVersion]
    BY DbaseAssumption DEF Init, Idle
  <2>3. fetch \in [File -> FetchState] /\ load \in [File -> LoadState]
    BY DEF Init, Idle, FetchState, LoadState
  <2>4. build \in [File -> Entry] /\ cur \in [File -> Entry]
    BY NewStoreType DEF Init
  <2>5. crashes \in 0..MaxCrashes
    BY DbaseAssumption DEF Init
  <2> QED
    BY <2>1, <2>2, <2>3, <2>4, <2>5 DEF Init, TypeOK
<1>2. \A f \in File : Ordered(f) /\ Whole(f) /\ Building(f) /\ InPhase(f)
  BY DbaseAssumption DEF Init, Idle, NewStore, Absent, Ordered, Whole, Building, InPhase, Fetched
<1>3. Boot
  BY DEF Init, Boot
<1> QED BY <1>1, <1>2, <1>3 DEF IndInv

(* Every step preserves the types: a version is copied, never invented. *)
LEMMA TypeStep == TypeOK /\ [Next]_vars => TypeOK'
<1> SUFFICES ASSUME TypeOK, [Next]_vars PROVE TypeOK'
    OBVIOUS
<1> USE DbaseAssumption
<1>1. Discard => /\ fetch' \in [File -> FetchState] /\ body' \in [File -> 0..MaxVersion]
                 /\ load' \in [File -> LoadState] /\ build' \in [File -> Entry]
  BY NewStoreType DEF Discard, Idle, FetchState, LoadState
<1>2. CASE StartRefresh
  BY <1>1, <1>2 DEF StartRefresh, RefreshFailed, TypeOK, net, outside, Idle, FetchState
<1>3. CASE Collect
  BY <1>1, <1>3 DEF Collect, RefreshFailed, RefreshOk, TypeOK, net, outside, LoadState
<1>4. CASE FinishReload
  BY <1>1, <1>4 DEF FinishReload, RefreshFailed, RefreshOk, TypeOK, net, outside
<1>5. CASE Crash
  <2>1. cur' \in [File -> Entry]
    BY NewStoreType, <1>5 DEF Crash
  <2>2. crashes' \in 0..MaxCrashes
    BY <1>5 DEF Crash, TypeOK
  <2> QED BY <1>1, <1>5, <2>1, <2>2 DEF Crash, TypeOK
<1>6. CASE Restart
  BY <1>6 DEF Restart, TypeOK, net, outside
<1>7. CASE Heal
  BY <1>7 DEF Heal, TypeOK
<1>8. ASSUME NEW f \in File, Publish(f) PROVE TypeOK'
  BY <1>8 DEF Publish, TypeOK
<1>9. ASSUME NEW f \in File, FetchStep(f) PROVE TypeOK'
  <2>1. CASE FetchBegin(f)
    <3>1. fetch' \in [File -> FetchState]
      BY <2>1 DEF FetchBegin, TypeOK, FetchState
    <3>2. body' \in [File -> 0..MaxVersion]
      BY <2>1 DEF FetchBegin, TypeOK
    <3> QED BY <2>1, <3>1, <3>2 DEF FetchBegin, TypeOK, net, outside
  <2>2. CASE FetchDone(f)
    BY <2>2 DEF FetchDone, TypeOK, net, outside, FetchState
  <2>3. CASE FetchFail(f)
    BY <2>3 DEF FetchFail, TypeOK, net, outside, FetchState
  <2> QED BY <1>9, <2>1, <2>2, <2>3 DEF FetchStep
<1>10. ASSUME NEW f \in File, LoadBegin(f) PROVE TypeOK'
  <2>1. [v |-> cache[f], n |-> 0] \in Entry
    BY DEF TypeOK, Entry
  <2> QED BY <1>10, <2>1 DEF LoadBegin, TypeOK, net, outside, LoadState
<1>11. ASSUME NEW f \in File, Insert(f) PROVE TypeOK'
  <2>1. build[f] \in [v : 0..MaxVersion, n : 0..NObj]
    BY DEF TypeOK, Entry
  <2>2. [build[f] EXCEPT !.n = @ + 1] \in Entry
    BY <1>11, <2>1 DEF Insert, Entry
  <2>3. build' = [build EXCEPT ![f] = [build[f] EXCEPT !.n = @ + 1]]
    BY <1>11 DEF Insert
  <2>4. build' \in [File -> Entry]
    BY <2>2, <2>3 DEF TypeOK
  <2> QED BY <1>11, <2>4 DEF Insert, TypeOK, net, outside
<1>12. ASSUME NEW f \in File, LoadEnd(f) \/ LoadFail(f) PROVE TypeOK'
  BY <1>12 DEF LoadEnd, LoadFail, TypeOK, net, outside, LoadState
<1>13. CASE UNCHANGED vars
  BY <1>13 DEF vars, TypeOK
<1> QED
  BY <1>2, <1>3, <1>4, <1>5, <1>6, <1>7, <1>8, <1>9, <1>10, <1>11, <1>12, <1>13
  DEF Next, LoadStep

(***************************************************************************)
(* Every step preserves the invariant, file by file.                       *)
(***************************************************************************)
PerFile(f) == Ordered(f) /\ Whole(f) /\ Building(f) /\ InPhase(f)

(* A refresh that ends, well or not, leaves nothing behind but the cache. *)
LEMMA DiscardClears ==
  ASSUME Discard, NEW g \in File
  PROVE  fetch'[g] = "none" /\ load'[g] = "none" /\ build'[g] = Absent
BY DEF Discard, Idle, NewStore

\* A step of the pipeline leaves each file, in the cache, in flight and in the
\* stores, in a state its phase allows.
LEMMA FileStep ==
  ASSUME IndInv, Next, NEW g \in File
  PROVE  PerFile(g)'
<1> USE DbaseAssumption
<1>0. TypeOK /\ PerFile(g) /\ Boot
  BY DEF IndInv, PerFile
<1>t. /\ upstream[g] \in 1..MaxVersion /\ cache[g] \in 0..MaxVersion /\ body[g] \in 0..MaxVersion
      /\ cur[g] \in Entry /\ build[g] \in Entry
  BY <1>0 DEF TypeOK
<1>e. Absent.v = 0 /\ Absent.n = 0
  BY DEF Absent
<1>1. CASE StartRefresh
  <2>1. CASE RefreshFailed
    BY <1>0, <1>1, <1>e, <2>1, DiscardClears
    DEF RefreshFailed, StartRefresh, net, outside, PerFile, Ordered, Whole, Building, InPhase, Fetched
  <2>2. CASE phase' = "fetching" /\ fetch' = Idle("queued") /\ UNCHANGED <<booted, body, load, build, cur, lastErr>>
    BY <1>0, <1>1, <2>2
    DEF StartRefresh, net, outside, Idle, PerFile, Ordered, Whole, Building, InPhase, Fetched
  <2> QED BY <1>1, <2>1, <2>2 DEF StartRefresh
<1>2. CASE Collect
  <2>1. CASE RefreshFailed
    BY <1>0, <1>2, <1>e, <2>1, DiscardClears
    DEF RefreshFailed, Collect, net, outside, PerFile, Ordered, Whole, Building, InPhase, Fetched
  <2>2. CASE RefreshOk /\ UNCHANGED cur
    BY <1>0, <1>2, <1>e, <2>2, DiscardClears
    DEF RefreshOk, Collect, net, outside, PerFile, Ordered, Whole, Building, InPhase, Fetched
  <2>3. CASE /\ phase' = "loading"
             /\ load' = [f \in File |-> IF Fetched(f) THEN "queued" ELSE "none"]
             /\ UNCHANGED <<booted, fetch, body, build, cur, lastErr>>
    BY <1>0, <1>2, <2>3
    DEF Collect, FetchOver, net, outside, PerFile, Ordered, Whole, Building, InPhase, Fetched
  <2> QED BY <1>2, <2>1, <2>2, <2>3 DEF Collect
<1>3. CASE FinishReload
  <2>1. CASE RefreshFailed
    BY <1>0, <1>3, <1>e, <2>1, DiscardClears
    DEF RefreshFailed, FinishReload, net, outside, PerFile, Ordered, Whole, Building, InPhase, Fetched
  <2>2. CASE (\A f \in File : load[f] # "error") /\ cur' = build /\ RefreshOk
    <3>1. build[g] = Absent \/ (build[g].n = NObj /\ build[g].v >= 1 /\ build[g].v = cache[g])
      BY <1>0, <1>3, <2>2 DEF FinishReload, LoadOver, PerFile, Building
    <3>2. /\ UNCHANGED <<upstream, cache>> /\ phase' = "idle" /\ Discard
      BY <1>3, <2>2 DEF FinishReload, RefreshOk, net, outside
    <3>3. build[g].v <= cache[g]
      BY <3>1, <1>e, <1>t
    <3> QED BY <1>0, <1>e, <2>2, <3>1, <3>2, <3>3, DiscardClears
        DEF PerFile, Ordered, Whole, Building, InPhase, Fetched
  <2> QED BY <1>3, <2>1, <2>2 DEF FinishReload
<1>4. CASE Crash
  <2>1. cur'[g] = Absent
    BY <1>4 DEF Crash, NewStore
  <2> QED BY <1>0, <1>4, <1>e, <1>t, <2>1, DiscardClears
      DEF Crash, PerFile, Ordered, Whole, Building, InPhase, Fetched
<1>5. CASE Restart
  BY <1>0, <1>5 DEF Restart, net, outside, PerFile, Ordered, Whole, Building, InPhase, Fetched
<1>6. CASE Heal
  BY <1>0, <1>6 DEF Heal, PerFile, Ordered, Whole, Building, InPhase, Fetched
<1>7. ASSUME NEW f \in File, Publish(f) PROVE PerFile(g)'
  <2>1. upstream'[g] \in Nat /\ upstream'[g] >= upstream[g]
    BY <1>0, <1>7, <1>t DEF Publish, TypeOK
  <2> QED BY <1>0, <1>7, <1>t, <2>1 DEF Publish, PerFile, Ordered, Whole, Building, InPhase, Fetched
<1>8. ASSUME NEW f \in File, FetchBegin(f) PROVE PerFile(g)'
  <2>1. CASE f = g
    BY <1>0, <1>8, <1>t, <2>1 DEF FetchBegin, TypeOK, net, outside, PerFile, Ordered, Whole, Building, InPhase, Fetched
  <2>2. CASE f # g
    BY <1>0, <1>8, <1>t, <2>2 DEF FetchBegin, TypeOK, net, outside, PerFile, Ordered, Whole, Building, InPhase, Fetched
  <2> QED BY <2>1, <2>2
<1>9. ASSUME NEW f \in File, FetchDone(f) \/ FetchFail(f) PROVE PerFile(g)'
  <2>1. CASE f = g
    <3>1. load[g] = "none" /\ phase = "fetching"
      BY <1>0, <1>9, <2>1 DEF FetchDone, FetchFail, PerFile, InPhase, Fetched
    <3>2. cur[g] \in [v : 0..MaxVersion, n : 0..NObj]
      BY <1>t DEF Entry
    <3> QED BY <1>0, <1>9, <1>t, <2>1, <3>1, <3>2
        DEF FetchDone, FetchFail, TypeOK, net, outside, PerFile, Ordered, Whole, Building, InPhase, Fetched
  <2>2. CASE f # g
    BY <1>0, <1>9, <1>t, <2>2
    DEF FetchDone, FetchFail, TypeOK, net, outside, PerFile, Ordered, Whole, Building, InPhase, Fetched
  <2> QED BY <2>1, <2>2
<1>10. ASSUME NEW f \in File, LoadBegin(f) PROVE PerFile(g)'
  <2>1. CASE f = g
    BY <1>0, <1>10, <1>t, <2>1 DEF LoadBegin, TypeOK, net, outside, PerFile, Ordered, Whole, Building, InPhase, Fetched
  <2>2. CASE f # g
    BY <1>0, <1>10, <1>t, <2>2 DEF LoadBegin, TypeOK, net, outside, PerFile, Ordered, Whole, Building, InPhase, Fetched
  <2> QED BY <2>1, <2>2
<1>11. ASSUME NEW f \in File, Insert(f) PROVE PerFile(g)'
  <2>1. build'[g].v = build[g].v /\ (f # g => build'[g] = build[g])
    BY <1>0, <1>11, <1>t DEF Insert, TypeOK, Entry
  <2> QED BY <1>0, <1>11, <1>t, <2>1 DEF Insert, TypeOK, net, outside, PerFile, Ordered, Whole, Building, InPhase, Fetched
<1>12. ASSUME NEW f \in File, LoadEnd(f) \/ LoadFail(f) PROVE PerFile(g)'
  BY <1>0, <1>12, <1>t DEF LoadEnd, LoadFail, TypeOK, net, outside, PerFile, Ordered, Whole, Building, InPhase, Fetched
<1> QED
  BY <1>1, <1>2, <1>3, <1>4, <1>5, <1>6, <1>7, <1>8, <1>9, <1>10, <1>11, <1>12
  DEF Next, FetchStep, LoadStep

(* The store is empty until the first refresh succeeds. *)
LEMMA BootStep == IndInv /\ Next => Boot'
<1> SUFFICES ASSUME IndInv, Next PROVE Boot'
    OBVIOUS
<1>0. TypeOK /\ Boot /\ \A f \in File : InPhase(f)
  BY DEF IndInv
<1>1. CASE StartRefresh
  BY <1>0, <1>1 DEF StartRefresh, RefreshFailed, Boot
<1>2. CASE Collect
  BY <1>0, <1>2 DEF Collect, RefreshFailed, RefreshOk, Boot, Fetched
<1>3. CASE FinishReload
  BY <1>0, <1>3 DEF FinishReload, RefreshFailed, RefreshOk, Boot
<1>4. CASE Crash
  BY <1>4 DEF Crash, Boot
<1>5. CASE Restart \/ Heal
  BY <1>0, <1>5 DEF Restart, Heal, net, outside, Boot, Fetched
<1>6. ASSUME NEW f \in File, Publish(f) PROVE Boot'
  BY <1>0, <1>6 DEF Publish, Boot, Fetched
<1>7. ASSUME NEW f \in File, FetchStep(f) PROVE Boot'
  BY <1>0, <1>7 DEF FetchStep, FetchBegin, FetchDone, FetchFail, Boot, InPhase
<1>8. ASSUME NEW f \in File, LoadStep(f) PROVE Boot'
  BY <1>0, <1>8 DEF LoadStep, LoadBegin, Insert, LoadEnd, LoadFail, Boot, Fetched
<1> QED BY <1>1, <1>2, <1>3, <1>4, <1>5, <1>6, <1>7, <1>8 DEF Next

\* Every step keeps the invariant.
LEMMA InvStep == IndInv /\ [Next]_vars => IndInv'
<1> SUFFICES ASSUME IndInv, [Next]_vars PROVE IndInv'
    OBVIOUS
<1>1. TypeOK'
  BY TypeStep DEF IndInv
<1>2. CASE Next
  <2>1. \A f \in File : PerFile(f)'
    BY <1>2, FileStep
  <2> QED BY <1>1, <1>2, <2>1, BootStep DEF IndInv, PerFile
<1>3. CASE UNCHANGED vars
  BY <1>1, <1>3 DEF vars, IndInv, Ordered, Whole, Building, InPhase, Boot, Fetched
<1> QED BY <1>2, <1>3

(* The invariant holds in every reachable state. *)
LEMMA Inductive == Spec => []IndInv
BY InitInv, InvStep, PTL DEF Spec

-----------------------------------------------------------------------------
(* Every variable keeps its type: versions and counts stay within bounds,  *)
(* in every state of refresh, Reload and FetchAll.                         *)
THEOREM TypeCorrect == Spec => []TypeOK
<1>1. IndInv => TypeOK
  BY DEF IndInv
<1> QED BY <1>1, Inductive, PTL

(* The store returned by Manager.Current never holds a half-loaded dump,   *)
(* whatever download or parse fails and whenever the process does.         *)
THEOREM WholeFilesHold == Spec => []WholeFiles
<1>1. IndInv => WholeFiles
  BY DEF IndInv, Whole, WholeFiles
<1> QED BY <1>1, Inductive, PTL

(* What Reload swaps in is the cached version, whole, of exactly the files *)
(* that FetchAll returned.                                                 *)
THEOREM SwapsAreComplete == Spec => SwapComplete
<1>1. IndInv /\ [Next]_vars =>
        [cur' # cur /\ phase' # "down" =>
           \A f \in File :
             cur'[f] = IF Fetched(f) THEN [v |-> cache[f], n |-> NObj] ELSE Absent]_vars
  <2> SUFFICES ASSUME IndInv, Next, cur' # cur, phase' # "down", NEW f \in File
               PROVE  cur'[f] = IF Fetched(f) THEN [v |-> cache[f], n |-> NObj] ELSE Absent
      OBVIOUS
  <2>1. FinishReload /\ cur' = build /\ (\A g \in File : load[g] # "error")
    BY DEF Next, StartRefresh, Collect, FinishReload, Crash, Restart, Heal, Publish,
           FetchStep, FetchBegin, FetchDone, FetchFail,
           LoadStep, LoadBegin, Insert, LoadEnd, LoadFail, RefreshFailed
  <2>2. Building(f) /\ InPhase(f) /\ build[f] \in [v : 0..MaxVersion, n : 0..NObj]
    BY DEF IndInv, TypeOK, Entry
  <2>3. CASE Fetched(f)
    <3>1. load[f] = "loaded"
      BY <2>1, <2>2, <2>3 DEF FinishReload, LoadOver, InPhase
    <3>2. build[f].v = cache[f] /\ build[f].n = NObj
      BY <2>2, <3>1 DEF Building
    <3> QED BY <2>1, <2>2, <2>3, <3>2
  <2>4. CASE ~Fetched(f)
    BY <2>1, <2>2, <2>4 DEF FinishReload, InPhase, Building
  <2> QED BY <2>3, <2>4
<1> QED BY <1>1, Inductive, PTL DEF Spec, SwapComplete

-----------------------------------------------------------------------------
(* The refinement. *)

\* The pipeline starts as the mirror does.
LEMMA MirrorInit == Init => MirrorView!Init
<1> SUFFICES ASSUME Init PROVE MirrorView!Init
    OBVIOUS
<1>1. upstream \in [File -> Nat]
  BY DEF Init
<1>2. [f \in File |-> cur[f].v] = [f \in File |-> 0]
  BY DEF Init, NewStore, Absent
<1> QED BY <1>1, <1>2 DEF Init, MirrorView!Init, MirrorView!Empty

\* Every step of the pipeline is one of the mirror, or none.
LEMMA MirrorStep == IndInv /\ [Next]_vars => [MirrorView!Next]_(MirrorView!vars)
<1> SUFFICES ASSUME IndInv, [Next]_vars PROVE [MirrorView!Next]_(MirrorView!vars)
    OBVIOUS
<1>0. /\ TypeOK /\ Boot
      /\ \A f \in File : Ordered(f) /\ Whole(f) /\ Building(f) /\ InPhase(f)
  BY DEF IndInv
<1>1. UNCHANGED <<upstream, cur, booted>> => UNCHANGED MirrorView!vars
  BY DEF MirrorView!vars
<1>2. CASE \/ StartRefresh \/ Restart \/ Heal \/ UNCHANGED vars
           \/ \E f \in File : FetchStep(f) \/ LoadStep(f)
  BY <1>1, <1>2
  DEF StartRefresh, RefreshFailed, Restart, Heal, vars, net, outside, FetchStep, FetchBegin, FetchDone,
      FetchFail, LoadStep, LoadBegin, Insert, LoadEnd, LoadFail
<1>3. CASE Collect
  <2>1. CASE RefreshOk /\ UNCHANGED cur /\ ~NeedsRebuild
    <3>1. PICK f \in File : cur[f].n # 0
      BY <2>1 DEF NeedsRebuild, IsEmpty
    <3>2. booted
      BY <1>0, <3>1 DEF Boot, NewStore, Absent
    <3> QED BY <1>0, <1>1, <1>3, <2>1, <3>2 DEF Collect, RefreshOk, net, outside, TypeOK
  <2>2. CASE ~(RefreshOk /\ UNCHANGED cur /\ ~NeedsRebuild)
    BY <1>1, <1>3, <2>2 DEF Collect, RefreshFailed, net, outside
  <2> QED BY <2>1, <2>2
<1>4. CASE FinishReload
  <2>1. CASE RefreshFailed
    BY <1>1, <1>4, <2>1 DEF FinishReload, RefreshFailed, net, outside
  <2>2. CASE (\A f \in File : load[f] # "error") /\ cur' = build /\ RefreshOk
    <3>1. UNCHANGED upstream /\ booted' = TRUE /\ phase = "loading"
      BY <1>4, <2>2 DEF FinishReload, RefreshOk, net, outside
    <3>2. ASSUME NEW f \in File
          PROVE  build[f].v \in Nat /\ (build[f].v = 0 \/ (cur[f].v <= build[f].v /\ build[f].v <= upstream[f]))
      <4>1. build[f].v = 0 \/ build[f].v = cache[f]
        BY <1>0, <1>4, <2>2 DEF FinishReload, LoadOver, Building, Absent
      <4>2. build[f].v \in Nat
        BY <1>0, <4>1 DEF TypeOK
      <4> QED BY <1>0, <4>1, <4>2 DEF Ordered
    <3>3. \E f \in File : build[f].v # 0
      <4>1. PICK f \in File : Fetched(f)
        BY <1>0, <3>1 DEF Boot
      <4>2. load[f] = "loaded"
        BY <1>0, <1>4, <2>2, <4>1 DEF FinishReload, LoadOver, InPhase
      <4> QED BY <1>0, <4>2 DEF Building, TypeOK
    <3>4. MirrorView!Replace
      BY <2>2, <3>1, <3>2, <3>3 DEF MirrorView!Replace
    <3> QED BY <3>4 DEF MirrorView!Next
  <2> QED BY <1>4, <2>1, <2>2 DEF FinishReload
<1>5. CASE Crash
  <2>1. [f \in File |-> cur'[f].v] = [f \in File |-> 0]
    BY <1>5 DEF Crash, NewStore, Absent
  <2> QED BY <1>5, <2>1 DEF Crash, MirrorView!Next, MirrorView!Stop, MirrorView!Empty
<1>6. ASSUME NEW f \in File, Publish(f) PROVE MirrorView!Next
  BY <1>6 DEF Publish, MirrorView!Next, MirrorView!Publish
<1> QED BY <1>2, <1>3, <1>4, <1>5, <1>6 DEF Next

(* The refresh pipeline implements Mirror: the served database is replaced *)
(* as a whole, is never empty while the daemon serves, and never goes back *)
(* to an older dump nor ahead of the registry.                             *)
THEOREM RefinesMirror == Spec => ImplementsMirror
<1>1. MirrorView!Spec <=> MirrorView!Init /\ [][MirrorView!Next]_(MirrorView!vars)
  BY DEF MirrorView!Spec
<1> QED BY <1>1, MirrorInit, MirrorStep, Inductive, PTL DEF Spec, ImplementsMirror

-----------------------------------------------------------------------------
(***************************************************************************)
(* What a successful refresh means, as long as one class of failures has   *)
(* not been met since the process started.                                 *)
(***************************************************************************)
Settled(f) ==
  "parse" \notin failed =>
    /\ cur[f] = Absent \/ cur[f].v = cache[f] \/ fetch[f] = "changed"
    /\ load[f] # "error"

\* A refresh that skips a file has the cached version of it.
LEMMA SettledStep ==
  ASSUME IndInv, Next, NEW g \in File, \A f \in File : Settled(f)
  PROVE  Settled(g)'
<1>0. /\ TypeOK /\ Settled(g) /\ Building(g) /\ InPhase(g) /\ Whole(g) /\ Ordered(g) /\ Boot
  BY DEF IndInv
<1>1. CASE StartRefresh
  <2>1. CASE RefreshFailed
    BY <1>0, <1>1, <2>1, DiscardClears DEF StartRefresh, RefreshFailed, InPhase, net, Settled
  <2>2. CASE ~RefreshFailed
    BY <1>0, <1>1, <2>2 DEF StartRefresh, Idle, InPhase, net, Settled
  <2> QED BY <2>1, <2>2
<1>2. CASE Collect
  <2>1. CASE (\A f \in File : ~Fetched(f)) /\ RefreshFailed
    BY <1>0, <1>2, <2>1, DiscardClears DEF Collect, RefreshFailed, Fetched, net, Settled
  <2>2. CASE ~NeedsRebuild /\ RefreshOk /\ UNCHANGED cur
    BY <1>0, <1>2, <2>2, DiscardClears DEF Collect, RefreshOk, NeedsRebuild, net, Settled
  <2>3. CASE /\ phase' = "loading"
             /\ load' = [f \in File |-> IF Fetched(f) THEN "queued" ELSE "none"]
             /\ UNCHANGED <<booted, fetch, body, build, cur, lastErr>>
    BY <1>0, <1>2, <2>3 DEF Collect, net, Settled
  <2> QED BY <1>2, <2>1, <2>2, <2>3 DEF Collect
<1>3. CASE FinishReload
  <2>1. SUFFICES ASSUME "parse" \notin failed PROVE Settled(g)'
    BY <1>3 DEF FinishReload, net, Settled
  <2>2. (\A f \in File : load[f] # "error") /\ cur' = build /\ RefreshOk /\ UNCHANGED cache
    BY <1>3, <2>1 DEF FinishReload, net, Settled
  <2>3. build[g] = Absent \/ build[g].v = cache[g]
    BY <1>0, <1>3, <2>2 DEF FinishReload, LoadOver, Building
  <2> QED BY <2>2, <2>3, DiscardClears DEF RefreshOk, net, Settled
<1>4. CASE Crash
  <2>1. cur'[g] = Absent
    BY <1>4 DEF Crash, NewStore
  <2> QED BY <1>4, <2>1, DiscardClears DEF Crash, Settled
<1>5. CASE Restart \/ Heal
  BY <1>0, <1>5 DEF Restart, Heal, Boot, InPhase, NewStore, Settled
<1>6. ASSUME NEW f \in File, Publish(f) PROVE Settled(g)'
  BY <1>0, <1>6 DEF Publish, Settled
<1>7. ASSUME NEW f \in File, FetchStep(f) PROVE Settled(g)'
  BY <1>0, <1>7 DEF FetchStep, FetchBegin, FetchDone, FetchFail, net, Settled, TypeOK, InPhase
<1>8. ASSUME NEW f \in File, LoadStep(f) PROVE Settled(g)'
  BY <1>0, <1>8 DEF LoadStep, LoadBegin, Insert, LoadEnd, LoadFail, net, Settled, TypeOK, InPhase
<1> QED BY <1>1, <1>2, <1>3, <1>4, <1>5, <1>6, <1>7, <1>8 DEF Next

(* While no dump has failed to parse, a refresh that reported success leaves the *)
(* store at the cached version of every file it holds, so skipping the     *)
(* rebuild when every answer is 304 (Reload) loses nothing.                *)
THEOREM CacheHitsAreCurrent == Spec => []ServedIsCached
<1> DEFINE S == \A f \in File : Settled(f)
<1>1. Init => S
  BY DEF Init, Idle, NewStore, Settled
<1>2. IndInv /\ S /\ [Next]_vars => S'
  <2> SUFFICES ASSUME IndInv, S, [Next]_vars PROVE S'
      OBVIOUS
  <2>1. CASE Next
    BY <2>1, SettledStep
  <2>2. CASE UNCHANGED vars
    BY <2>2 DEF vars, Settled
  <2> QED BY <2>1, <2>2
<1>3. IndInv /\ S => ServedIsCached
  BY DEF IndInv, InPhase, Settled, ServedIsCached, Refreshed
<1> QED BY <1>1, <1>2, <1>3, Inductive, PTL DEF Spec

Complete ==
  "fetch" \notin failed =>
    /\ \A f \in File : fetch[f] # "failed"
    /\ booted => \A f \in File : cur[f] # Absent

\* A refresh that met no failed download keeps all files.
LEMMA CompleteStep ==
  ASSUME IndInv, Complete, Next
  PROVE  Complete'
<1>0. /\ TypeOK
      /\ \A f \in File : Ordered(f) /\ Building(f) /\ InPhase(f) /\ Whole(f)
      /\ Boot
  BY DEF IndInv
<1>1. CASE StartRefresh
  <2>1. CASE RefreshFailed
    BY <1>1, <2>1, DiscardClears DEF StartRefresh, RefreshFailed, net, Complete
  <2>2. CASE ~RefreshFailed
    BY <1>1, <2>2 DEF StartRefresh, Idle, net, Complete
  <2> QED BY <2>1, <2>2
<1>2. CASE Collect
  <2>1. CASE RefreshFailed
    BY <1>2, <2>1, DiscardClears DEF Collect, RefreshFailed, net, Complete
  <2>2. CASE ~NeedsRebuild /\ RefreshOk /\ UNCHANGED cur
    <3>1. PICK f \in File : cur[f].n # 0
      BY <2>2 DEF NeedsRebuild, IsEmpty
    <3>2. booted
      BY <1>0, <3>1 DEF Boot, NewStore, Absent
    <3> QED BY <1>2, <2>2, <3>2, DiscardClears DEF Collect, RefreshOk, net, Complete
  <2>3. CASE UNCHANGED <<booted, fetch, cur>>
    BY <1>2, <2>3 DEF Collect, net, Complete
  <2> QED BY <1>2, <2>1, <2>2, <2>3 DEF Collect
<1>3. CASE FinishReload
  <2>1. CASE RefreshFailed
    BY <1>3, <2>1, DiscardClears DEF FinishReload, RefreshFailed, net, Complete
  <2>2. CASE (\A f \in File : load[f] # "error") /\ cur' = build /\ RefreshOk
    <3>1. ASSUME NEW f \in File, "fetch" \notin failed PROVE build[f] # Absent
      <4>1. Fetched(f)
        BY <1>0, <1>3, <3>1 DEF FinishReload, Complete, InPhase, TypeOK, FetchState, Fetched
      <4>2. load[f] = "loaded"
        BY <1>0, <1>3, <2>2, <4>1 DEF FinishReload, LoadOver, InPhase
      <4>3. build[f].v # 0
        BY <1>0, <4>2 DEF Building, TypeOK
      <4> QED BY <4>3 DEF Absent
    <3> QED BY <1>3, <2>2, <3>1, DiscardClears DEF FinishReload, RefreshOk, net, Complete
  <2> QED BY <1>3, <2>1, <2>2 DEF FinishReload
<1>4. CASE Crash
  BY <1>4, DiscardClears DEF Crash, Complete
<1>5. CASE Restart \/ Heal
  BY <1>0, <1>5 DEF Restart, Heal, Boot, InPhase, Complete
<1>6. ASSUME NEW f \in File, Publish(f) PROVE Complete'
  BY <1>6 DEF Publish, Complete
<1>7. ASSUME NEW f \in File, FetchStep(f) PROVE Complete'
  BY <1>0, <1>7 DEF FetchStep, FetchBegin, FetchDone, FetchFail, net, Complete, TypeOK
<1>8. ASSUME NEW f \in File, LoadStep(f) PROVE Complete'
  BY <1>8 DEF LoadStep, LoadBegin, Insert, LoadEnd, LoadFail, net, Complete
<1> QED BY <1>1, <1>2, <1>3, <1>4, <1>5, <1>6, <1>7, <1>8 DEF Next

(* While no download has failed, every enabled dump is served from the first     *)
(* successful refresh on: Reload never installs a store without it.        *)
THEOREM AllSourcesStayServed == Spec => []AllSourcesServed
<1>1. Init => Complete
  BY DEF Init, Idle, Complete
<1>2. IndInv /\ Complete /\ [Next]_vars => Complete'
  <2> SUFFICES ASSUME IndInv, Complete, [Next]_vars PROVE Complete'
      OBVIOUS
  <2>1. CASE Next
    BY <2>1, CompleteStep
  <2>2. CASE UNCHANGED vars
    BY <2>2 DEF vars, Complete
  <2> QED BY <2>1, <2>2
<1>3. Complete => AllSourcesServed
  BY DEF Complete, AllSourcesServed, Refreshed
<1> QED BY <1>1, <1>2, <1>3, Inductive, PTL DEF Spec
-----------------------------------------------------------------------------
(***************************************************************************)
(* The schedule.  The timer only adds a condition to the start of a        *)
(* refresh, so the timed daemon is a daemon of module Dbase.               *)
(***************************************************************************)
THEOREM TimedIsUntimed == TimedSpec => Spec
<1>1. TimedInit => Init
  BY DEF TimedInit
<1>2. [TimedNext]_tvars => [Next]_vars
  BY DEF TimedNext, TimedStart, TimedCollect, TimedFinish, Untimed, Tick, Next, tvars
<1> QED BY <1>1, <1>2, PTL DEF TimedSpec, Spec

(* The next tick of the clock, at midnight and before it. *)
LEMMA ClockStep ==
  ASSUME NEW t \in 0..(Day - 1)
  PROVE  (t + 1) % Day = IF t + 1 = Day THEN 0 ELSE t + 1
BY RefresherAssumption

(* The anchor is always ahead, at most a day away, and comes one tick nearer *)
(* with every tick until the clock is there.                               *)
LEMMA AnchorAhead ==
  ASSUME NEW t \in 0..(Day - 1)
  PROVE  /\ DailyAtNext(t) \in Nat \ {0}
         /\ (t + 1) % Day = DailyAt <=> DailyAtNext(t) = 1
         /\ DailyAtNext(t) > 1 => DailyAtNext((t + 1) % Day) = DailyAtNext(t) - 1
         /\ (t + 1) % Day \in 0..(Day - 1)
BY ClockStep, RefresherAssumption DEF DailyAtNext

(* The next refresh is never due at once, nor after the anchor unless the  *)
(* last one failed.                                                        *)
LEMMA NextRefreshBounds ==
  ASSUME NEW t \in 0..(Day - 1), NEW err \in BOOLEAN
  PROVE  /\ nextRefresh(t, err) \in Nat \ {0}
         /\ ~err => nextRefresh(t, err) <= DailyAtNext(t)
BY AnchorAhead, RefresherAssumption DEF nextRefresh

(* The timer runs only while the loop waits, and after a success it fires  *)
(* no later than the anchor.                                               *)
OnTime ==
  /\ tod \in 0..(Day - 1) /\ wait \in Nat
  /\ phase # "idle" => wait = 0
  /\ phase = "idle" /\ ~lastErr => wait <= DailyAtNext(tod)

\* The first refresh is due at once.
LEMMA OnTimeInit == TimedInit => OnTime
BY AnchorAhead DEF TimedInit, Init, OnTime

(* How the pipeline moves on to waiting: by a restart, by a refresh that   *)
(* ends, or by staying there.                                              *)
LEMMA UntimedPhase ==
  ASSUME Untimed
  PROVE  \/ phase' = phase /\ lastErr' = lastErr
         \/ phase' = "down"
         \/ phase = "down"
BY DEF Untimed, Restart, Crash, Heal, Publish, FetchStep, FetchBegin, FetchDone, FetchFail,
       LoadStep, LoadBegin, Insert, LoadEnd, LoadFail

\* The timer never points beyond the next anchor.
LEMMA OnTimeStep ==
  ASSUME OnTime, TypeOK, TypeOK', [TimedNext]_tvars
  PROVE  OnTime'
<1>1. lastErr' \in BOOLEAN
  BY DEF TypeOK
<1>2. CASE Schedule
  <2>1. nextRefresh(tod, lastErr') \in Nat /\
        (~lastErr' => nextRefresh(tod, lastErr') <= DailyAtNext(tod))
    BY <1>1, NextRefreshBounds DEF OnTime
  <2> QED BY <1>2, <2>1 DEF Schedule, OnTime
<1>3. CASE Untimed
  <2>1. tod' = tod /\ wait' = IF phase' = "down" THEN 0 ELSE wait
    BY <1>3 DEF Untimed
  <2>2. DailyAtNext(tod) \in Nat
    BY AnchorAhead DEF OnTime
  <2> QED BY <1>3, <2>1, <2>2, UntimedPhase DEF OnTime
<1>4. CASE Tick
  <2>1. /\ phase' = phase /\ lastErr' = lastErr /\ tod' = (tod + 1) % Day
        /\ wait' = IF wait = 0 THEN 0 ELSE wait - 1
        /\ ~(phase = "idle" /\ wait = 0)
    BY <1>4 DEF Tick, vars
  <2>2. /\ DailyAtNext(tod) \in Nat \ {0} /\ DailyAtNext(tod') \in Nat \ {0}
        /\ DailyAtNext(tod) > 1 => DailyAtNext(tod') = DailyAtNext(tod) - 1
        /\ tod' \in 0..(Day - 1)
    BY <2>1, AnchorAhead DEF OnTime
  <2>3. DailyAtNext(tod)' = DailyAtNext(tod')
    BY DEF DailyAtNext
  <2> QED BY <2>1, <2>2, <2>3 DEF OnTime
<1>5. CASE UNCHANGED tvars
  BY <1>5 DEF tvars, vars, OnTime
<1> QED BY <1>2, <1>3, <1>4, <1>5 DEF TimedNext, TimedStart, TimedCollect, TimedFinish

(* After a successful refresh the daemon does not sleep through daily_at,  *)
(* and a refresh that ends never starts another at the same moment.        *)
THEOREM AnchorIsKept == TimedSpec => AnchorKept
<1> DEFINE A == /\ tod' # tod /\ tod' = DailyAt /\ phase = "idle" /\ ~lastErr => wait' = 0
                /\ phase' = "idle" /\ phase \notin {"idle", "down"} => wait' > 0
<1>1. OnTime /\ TypeOK /\ TypeOK' /\ [TimedNext]_tvars => [A]_tvars
  <2> SUFFICES ASSUME OnTime, TypeOK, TypeOK', TimedNext PROVE A
      OBVIOUS
  <2>1. ASSUME tod' # tod, tod' = DailyAt, phase = "idle", ~lastErr PROVE wait' = 0
    <3>1. Tick
      BY <2>1 DEF TimedNext, TimedStart, TimedCollect, TimedFinish, Schedule, Untimed
    <3>2. DailyAtNext(tod) = 1
      BY <2>1, <3>1, AnchorAhead DEF Tick, OnTime
    <3> QED BY <2>1, <3>1, <3>2 DEF Tick, OnTime
  <2>2. ASSUME phase' = "idle", phase \notin {"idle", "down"} PROVE wait' > 0
    <3>1. CASE TimedCollect \/ TimedFinish
      <4>1. nextRefresh(tod, lastErr') \in Nat \ {0}
        BY NextRefreshBounds DEF OnTime, TypeOK
      <4> QED BY <2>2, <3>1, <4>1 DEF TimedCollect, TimedFinish, Schedule
    <3>2. CASE TimedStart
      BY <2>2, <3>2 DEF TimedStart, StartRefresh
    <3>3. CASE Untimed
      BY <2>2, <3>3, UntimedPhase
    <3>4. CASE Tick
      BY <2>2, <3>4 DEF Tick, vars
    <3> QED BY <3>1, <3>2, <3>3, <3>4 DEF TimedNext
  <2> QED BY <2>1, <2>2
<1>2. TimedSpec => []OnTime
  <2>1. OnTime /\ TypeOK /\ TypeOK' /\ [TimedNext]_tvars => OnTime'
    BY OnTimeStep
  <2> QED BY OnTimeInit, <2>1, TimedIsUntimed, TypeCorrect, PTL DEF TimedSpec
<1>3. AnchorKept <=> [][A]_tvars
  BY DEF AnchorKept
<1> QED BY <1>1, <1>2, <1>3, TimedIsUntimed, TypeCorrect, PTL DEF TimedSpec
=============================================================================
