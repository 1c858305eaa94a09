------------------------------- MODULE Dbase --------------------------------
(***************************************************************************)
(* The dbase refresh pipeline: Downloader.FetchAll/fetchURL                *)
(* (internal/ripe/downloader.go), Manager.Reload (internal/ripe/store.go), *)
(* and refresh/refreshLoop (main.go) around them.                          *)
(*                                                                         *)
(* A dump file is abstracted to a version number and the objects parsed    *)
(* from it to their count.  One refresh fetches every file concurrently,   *)
(* renames each complete download over the cached copy, parses the cached  *)
(* copies concurrently into a new store and swaps the store in.  The       *)
(* process may fail at any step; the cache directory survives it.          *)
(***************************************************************************)
EXTENDS Naturals, FiniteSets

CONSTANTS
  File,        \* the dump files of all enabled sources
  NObj,        \* objects in each dump
  MaxVersion,  \* bound: versions a registry publishes
  FetchSlots,  \* concurrent downloads (6 in FetchAll)
  LoadSlots,   \* concurrent parses (4 in Reload)
  MaxCrashes,  \* bound: process failures
  Faults       \* which operations may fail: "mkdir", "fetch", "parse"

ASSUME DbaseAssumption ==
  /\ File # {}
  /\ NObj \in Nat \ {0}
  /\ MaxVersion \in Nat \ {0}
  /\ FetchSlots \in Nat \ {0}
  /\ LoadSlots \in Nat \ {0}
  /\ MaxCrashes \in Nat
  /\ Faults \subseteq {"mkdir", "fetch", "parse"}

VARIABLES
  upstream,    \* upstream[f]: version the registry offers (external)
  cache,       \* cache[f]: version of the file in CacheDir, 0 for none
  phase,       \* what the refresher is doing
  booted,      \* the initial refresh in main succeeded
  fetch,       \* fetch[f]: state of f's download in this refresh
  body,        \* body[f]: version being copied to the temporary file
  load,        \* load[f]: state of f's parse in this rebuild
  build,       \* the store under construction (s in Reload)
  cur,         \* the active store (Manager.cur)
  lastErr,     \* the last refresh failed (refreshLoop)
  crashes,     \* process failures so far
  faults,      \* operations that may still fail
  failed       \* ghost: kinds of failure this process has met in a file

vars == <<upstream, cache, phase, booted, fetch, body, load, build, cur,
          lastErr, crashes, faults, failed>>

outside == <<upstream, crashes, faults>>
net     == <<outside, failed>>

FetchState == {"none", "queued", "copying", "changed", "unchanged", "failed"}
LoadState  == {"none", "queued", "parsing", "loaded", "error"}

\* A file's objects in a store: its version and how many were inserted.
Absent == [v |-> 0, n |-> 0]
Entry  == [v : 0..MaxVersion, n : 0..NObj]
NewStore == [f \in File |-> Absent]

Idle(state) == [f \in File |-> state]

TypeOK ==
  /\ upstream \in [File -> 1..MaxVersion]
  /\ cache \in [File -> 0..MaxVersion]
  /\ phase \in {"down", "idle", "fetching", "loading"}
  /\ booted \in BOOLEAN
  /\ fetch \in [File -> FetchState]
  /\ body \in [File -> 0..MaxVersion]
  /\ load \in [File -> LoadState]
  /\ build \in [File -> Entry]
  /\ cur \in [File -> Entry]
  /\ lastErr \in BOOLEAN
  /\ crashes \in 0..MaxCrashes
  /\ faults \subseteq Faults
  /\ failed \subseteq {"fetch", "parse"}

\* A first start, or a restart over the cache an earlier run left.
Init ==
  /\ upstream = [f \in File |-> 1]
  /\ cache \in [File -> {0, 1}]
  /\ phase = "idle"
  /\ booted = FALSE
  /\ fetch = Idle("none")
  /\ body = Idle(0)
  /\ load = Idle("none")
  /\ build = NewStore
  /\ cur = NewStore
  /\ lastErr = FALSE
  /\ crashes = 0
  /\ faults = Faults
  /\ failed = {}

-----------------------------------------------------------------------------
(* The registries, outside the daemon. *)

Publish(f) ==
  /\ upstream[f] < MaxVersion
  /\ upstream' = [upstream EXCEPT ![f] = @ + 1]
  /\ UNCHANGED <<cache, phase, booted, fetch, body, load, build, cur,
                 lastErr, crashes, faults, failed>>

\* Network, disk and dumps are sound from here on.
Heal ==
  /\ faults # {}
  /\ faults' = {}
  /\ UNCHANGED <<upstream, cache, phase, booted, fetch, body, load, build,
                 cur, lastErr, crashes, failed>>

-----------------------------------------------------------------------------
(* How a refresh ends.  An error of the initial refresh exits the process; *)
(* later ones are remembered in lastErr and retried.                       *)

Discard ==
  /\ fetch' = Idle("none")
  /\ body' = Idle(0)
  /\ load' = Idle("none")
  /\ build' = NewStore

RefreshFailed ==
  /\ phase' = IF booted THEN "idle" ELSE "down"
  /\ lastErr' = TRUE
  /\ Discard
  /\ UNCHANGED <<booted, cur>>

RefreshOk ==
  /\ phase' = "idle"
  /\ booted' = TRUE
  /\ lastErr' = FALSE
  /\ Discard

-----------------------------------------------------------------------------
(* FetchAll and fetchURL *)

\* The timer of refreshLoop fires, or main starts the initial refresh.
StartRefresh ==
  /\ phase = "idle"
  /\ UNCHANGED <<net, cache>>
  /\ \/ /\ phase' = "fetching"
        /\ fetch' = Idle("queued")
        /\ UNCHANGED <<booted, body, load, build, cur, lastErr>>
     \/ /\ "mkdir" \in faults
        /\ RefreshFailed

Copying == {f \in File : fetch[f] = "copying"}
Parsing == {f \in File : load[f] = "parsing"}

\* The request is conditional on the cached file's mtime, which is the
\* Last-Modified time of its version; a server may still send the whole file.
FetchBegin(f) ==
  /\ phase = "fetching"
  /\ fetch[f] = "queued"
  /\ Cardinality(Copying) < FetchSlots
  /\ \/ /\ cache[f] = upstream[f]
        /\ fetch' = [fetch EXCEPT ![f] = "unchanged"]
        /\ UNCHANGED <<body, failed>>
     \/ /\ fetch' = [fetch EXCEPT ![f] = "copying"]
        /\ body' = [body EXCEPT ![f] = upstream[f]]
        /\ UNCHANGED failed
     \/ /\ "fetch" \in faults
        /\ fetch' = [fetch EXCEPT ![f] = "failed"]
        /\ failed' = failed \cup {"fetch"}
        /\ UNCHANGED body
  /\ UNCHANGED <<outside, cache, phase, booted, load, build, cur, lastErr>>

\* The body is complete in a temporary file, which is renamed over dst.
FetchDone(f) ==
  /\ fetch[f] = "copying"
  /\ fetch' = [fetch EXCEPT ![f] = "changed"]
  /\ cache' = [cache EXCEPT ![f] = body[f]]
  /\ UNCHANGED <<net, phase, booted, body, load, build, cur, lastErr>>

\* Copying or renaming fails: the temporary file is removed.
FetchFail(f) ==
  /\ fetch[f] = "copying"
  /\ "fetch" \in faults
  /\ fetch' = [fetch EXCEPT ![f] = "failed"]
  /\ failed' = failed \cup {"fetch"}
  /\ UNCHANGED <<outside, cache, phase, booted, body, load, build, cur, lastErr>>

Fetched(f) == fetch[f] \in {"changed", "unchanged"}
FetchOver == \A f \in File : Fetched(f) \/ fetch[f] = "failed"

-----------------------------------------------------------------------------
(* Manager.Reload *)

IsEmpty == \A f \in File : cur[f].n = 0

\* Mutant: rebuild only when every file changed.
NeedsRebuildAllChanged == IsEmpty \/ \A f \in File : fetch[f] = "changed"

NeedsRebuild == IsEmpty \/ \E f \in File : fetch[f] = "changed"

\* Mutant: FetchAll returns no error when every download failed.
CollectIgnoresFailure ==
  /\ phase = "fetching"
  /\ FetchOver
  /\ UNCHANGED <<net, cache>>
  /\ \/ ~NeedsRebuild /\ RefreshOk /\ UNCHANGED cur
     \/ /\ NeedsRebuild
        /\ phase' = "loading"
        /\ load' = [f \in File |-> IF Fetched(f) THEN "queued" ELSE "none"]
        /\ UNCHANGED <<booted, fetch, body, build, cur, lastErr>>

\* FetchAll returns the files it has; Reload skips the rebuild when none of
\* them changed and a store is active.
Collect ==
  /\ phase = "fetching"
  /\ FetchOver
  /\ UNCHANGED <<net, cache>>
  /\ \/ /\ \A f \in File : ~Fetched(f)
        /\ RefreshFailed
     \/ /\ \E f \in File : Fetched(f)
        /\ ~NeedsRebuild
        /\ RefreshOk
        /\ UNCHANGED cur
     \/ /\ \E f \in File : Fetched(f)
        /\ NeedsRebuild
        /\ phase' = "loading"
        /\ load' = [f \in File |-> IF Fetched(f) THEN "queued" ELSE "none"]
        /\ UNCHANGED <<booted, fetch, body, build, cur, lastErr>>

LoadBegin(f) ==
  /\ load[f] = "queued"
  /\ Cardinality(Parsing) < LoadSlots
  /\ load' = [load EXCEPT ![f] = "parsing"]
  /\ build' = [build EXCEPT ![f] = [v |-> cache[f], n |-> 0]]
  /\ UNCHANGED <<net, cache, phase, booted, fetch, body, cur, lastErr>>

\* Parse emits one object, inserted under the rebuild's mutex.
Insert(f) ==
  /\ load[f] = "parsing"
  /\ build[f].n < NObj
  /\ build' = [build EXCEPT ![f].n = @ + 1]
  /\ UNCHANGED <<net, cache, phase, booted, fetch, body, load, cur, lastErr>>

LoadEnd(f) ==
  /\ load[f] = "parsing"
  /\ build[f].n = NObj
  /\ load' = [load EXCEPT ![f] = "loaded"]
  /\ UNCHANGED <<net, cache, phase, booted, fetch, body, build, cur, lastErr>>

\* Opening, decompressing or scanning fails, at any point of the file.
LoadFail(f) ==
  /\ load[f] = "parsing"
  /\ "parse" \in faults
  /\ load' = [load EXCEPT ![f] = "error"]
  /\ failed' = failed \cup {"parse"}
  /\ UNCHANGED <<outside, cache, phase, booted, fetch, body, build, cur, lastErr>>

\* Mutant: wg.Add inside the goroutine, so that Wait misses unstarted ones.
LoadOverStartedOnly == \A f \in File : load[f] # "parsing"

\* wg.Wait
LoadOver == \A f \in File : load[f] \in {"none", "loaded", "error"}

\* Mutant: parse errors are logged and the store is swapped in all the same.
FinishReloadIgnoresErrors ==
  /\ phase = "loading"
  /\ LoadOver
  /\ UNCHANGED <<net, cache>>
  /\ cur' = build
  /\ RefreshOk

\* After wg.Wait: any error discards the new store, otherwise it is swapped in.
FinishReload ==
  /\ phase = "loading"
  /\ LoadOver
  /\ UNCHANGED <<net, cache>>
  /\ \/ /\ \E f \in File : load[f] = "error"
        /\ RefreshFailed
     \/ /\ \A f \in File : load[f] # "error"
        /\ cur' = build
        /\ RefreshOk

-----------------------------------------------------------------------------
(* The process fails and systemd restarts it (Restart=on-failure). *)

Crash ==
  /\ phase # "down"
  /\ crashes < MaxCrashes
  /\ crashes' = crashes + 1
  /\ phase' = "down"
  /\ cur' = NewStore
  /\ booted' = FALSE
  /\ Discard
  /\ UNCHANGED <<upstream, cache, lastErr, faults, failed>>

Restart ==
  /\ phase = "down"
  /\ phase' = "idle"
  /\ lastErr' = FALSE
  /\ failed' = {}
  /\ UNCHANGED <<outside, cache, booted, fetch, body, load, build, cur>>

-----------------------------------------------------------------------------
FetchStep(f) == FetchBegin(f) \/ FetchDone(f) \/ FetchFail(f)
LoadStep(f)  == LoadBegin(f) \/ Insert(f) \/ LoadEnd(f) \/ LoadFail(f)

Next ==
  \/ StartRefresh \/ Collect \/ FinishReload
  \/ Crash \/ Restart \/ Heal
  \/ \E f \in File : Publish(f) \/ FetchStep(f) \/ LoadStep(f)

Spec == Init /\ [][Next]_vars

\* Timers fire, goroutines run, downloads end (the client has a timeout),
\* systemd restarts the process and faults do not last for ever.
Fairness ==
  /\ WF_vars(StartRefresh) /\ WF_vars(Collect) /\ WF_vars(FinishReload)
  /\ WF_vars(Restart) /\ WF_vars(Heal)
  /\ \A f \in File : WF_vars(FetchStep(f)) /\ WF_vars(LoadStep(f))

FairSpec == Spec /\ Fairness

-----------------------------------------------------------------------------
(* Properties *)

\* No reader ever sees a half-loaded dump: the store Manager.Current returns
\* holds all the objects of a file or none, whatever parse or download failed
\* and wherever the process was when it did.
WholeFiles == \A f \in File : cur[f] = Absent \/ cur[f].n = NObj

\* A swap installs the cached version of exactly the files this refresh
\* fetched: nothing is parsed from a copy that a download is replacing, and
\* no file is left over from the store before.
SwapComplete ==
  [][cur' # cur /\ phase' # "down" =>
       \A f \in File :
         cur'[f] = IF Fetched(f) THEN [v |-> cache[f], n |-> NObj] ELSE Absent]_vars

\* A refresh has just reported success, or none has run since.
Refreshed == phase = "idle" /\ booted /\ ~lastErr

\* As long as no dump failed to parse in this process, the active store
\* serves the cached version of each file it has at all, so a 304 answered
\* against the cache also means that the store is current (the skip in Reload
\* relies on it).
ServedIsCached ==
  Refreshed /\ "parse" \notin failed
    => \A f \in File : cur[f] = Absent \/ cur[f].v = cache[f]

\* As long as no download failed in this process, every enabled dump is
\* served ("Merges all five RIR databases", README.md).
AllSourcesServed ==
  Refreshed /\ "fetch" \notin failed => \A f \in File : cur[f] # Absent

Fresh == \A f \in File : cur[f].v = upstream[f]

\* A process that meets no failed download and no failed parse ends up
\* serving the newest version of every dump, also when it started over a
\* cache that an earlier, failing process left behind.
EventuallyFresh == <>[](failed = {}) => <>[]Fresh

\* The same whatever failed before: once the registries stop publishing and
\* nothing fails any more, the refreshes bring every dump into the store
\* (README.md: "Merges all five RIR databases into a single in-memory index,
\* so one query works regardless of which registry owns the address space").
FreshAfterFaults == <>[]Fresh

\* The pipeline implements the mirror its readers rely on.
MirrorView == INSTANCE Mirror WITH
  published <- upstream, served <- [f \in File |-> cur[f].v], serving <- booted

ImplementsMirror == MirrorView!Spec
=============================================================================
