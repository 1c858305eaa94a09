# whoisd in TLA+

Models, model-checking runs and proofs for `whoisd`, the WHOIS server of this
repository. It mirrors the dumps of the five regional registries, keeps them in
an in-memory index, and answers WHOIS queries from it under an access control
list, a rate limit and a limit on concurrent clients.

The modules are written from the source; `PROJECT.json` maps each definition to
the lines it stands for. Control is kept (every state change, guard, early
return, error path, and the order in which they happen); data is reduced to
what the properties tell apart: a word of a dump is its form, what it names and
how it is spelt; where only its age matters, a dump is a version number; a
dumped snapshot is how much had been counted when it was taken; a setting is the
configuration file it came from.

## 1. The system

### Components, their state and operations

| Component (source) | State | Operations | Module |
|---|---|---|---|
| dbase refresh (`internal/ripe/downloader.go`, `Manager` in `internal/ripe/store.go`, `refreshLoop` in `main.go`) | cached files, `Manager.cur`, the downloads and parses in progress, `lastErr` | `FetchAll`, `fetchURL`, `Reload`, `refresh`, `refreshLoop` | `Dbase`, `Mirror` |
| refresh schedule (`nextRefresh` in `main.go`, `DailyAt.Next` in `config.go`) | the timer of `refreshLoop` | time arithmetic | `Refresher` |
| RPSL parser (`internal/ripe/parser.go`) | the stanza and the attribute being read | `Parse`, `parseStream`, `scanAttr` | `Rpsl`, `Parser`, `Loader` |
| key, handle and domain indexes (`store.go`) | maps from normalised strings to objects, counts | `Insert`, `Lookup` | `Store`, `Loader` |
| address index (`netTrie`, `rangeToCIDRs` in `store.go`) | trie nodes and the objects filed at them | `insertRange`, `insertPrefix`, `lookup` | `NetIndex`, `Prefixes`, `Store` |
| query parsing and contacts (`internal/server/server.go`) | none | `parseQuery`, `pick`, `writeRelated`, `answer` | `Query`, `Loader` |
| WHOIS listener (`server.go`) | `ln`, `bindAddr`, `closed` under `listenMu`; the context | `Run`, its shutdown watcher, `Rebind` | `Listener` |
| connection handler (`server.go`) | the semaphore `sem`; per connection its stage, classification and result | `handle` and its deferred calls | `Handler` |
| stats registry (`internal/stats/stats.go`) | live set, connection states, counters | `Open`, `SetState`, `SetError`, `Close`, `Snapshot` | `Registry`, `Snapshot` |
| QPS window (`internal/stats/ring.go`) | `buckets`, `headSec` | `tick`, `rate`, `advance` | `Ring`, `Snapshot` |
| stats dumper and `/stats.json` (`dumper.go`, `http.go`) | `last`, `curIntvl`, `nudge`, the dump file | `Run`, `SetInterval`, `dumpOnce`, the HTTP handler | `Dumper` |
| access control (`internal/acl/bert.go`, `buildACL`) | the radix tree, `Server.aclTree` | `Insert`, `MatchExplicit`, `buildACL`, `SetACL` | `Acl` |
| rate limiter (`internal/ratelimit/limiter.go`) | `buckets`, `lastSeen`, the token buckets | `Allow`, `gcLoop` | `Limiter`, `TokenBucket` |
| process and reload (`main.go`, `reload.go`) | exit status, pid file, the `hup` channel, the settings in effect | `main`, `reloadLoop`, `applyReload` | `Daemon` |
| configuration file (`internal/config`) | none | defaults, validation, `Load` | `Config`, `Daemon` |
| source descriptions (`internal/ripe/source.go`) | none | `Files`: which classes are fetched, when it fails | `Config` |
| interning, stats command line, log helper, dashboard page | none of interest | formatting, URLs, memory | not modelled |

### How they interact

`main` loads the configuration, writes the pid file, builds the ACL, runs the
first refresh to its end, and only then starts `refreshLoop`, `reloadLoop`, the
stats goroutines and `Server.Run`. From then on these goroutines run
concurrently:

- `refreshLoop` replaces the store through one atomic pointer; handlers load
  that pointer once for each query;
- `Run` accepts and starts one handler per connection; a watcher closes the
  listener when the context is cancelled; `Run` waits for the handlers
  (`wg.Wait`) before it returns;
- `reloadLoop` takes SIGHUP from a channel of capacity one and calls into all
  the others: `SetACL`, `SetLimiter`, `Dumper.SetInterval`, `Rebind`;
- handlers share the semaphore, the ACL and limiter pointers and the stats
  registry; the dumper, the HTTP endpoint and the CLI read the registry.

The shared state is what the modules have in common: the context (`cancelled`)
and the wait group in `Server`, the registry in `Handler` and in `Snapshot`, the
cache directory between two lives of the process in `Dbase`, the store that the
parse goroutines fill together in `Loader`.

### What is hard here, and what must hold

The hazards are listed, at their lines, in `PROJECT.json`. In short:

- *Refresh:* files fail one by one, the cache is ahead of the store between a
  rename and a swap, and a 304 is answered against the cache, not against the
  store. The store must stay whole, must be what the cache holds, and must
  become current.
- *Schedule:* a poll interval, a daily anchor and a retry interval decide one
  timer. The anchor must be neither slept through nor taken twice.
- *Parsing and lookup:* one record is reused for all stanzas; attributes are
  read twice, by the parser and again from the raw text; keys are spelt one way
  when inserted and another way when asked for; one name may be several kinds
  of thing. An object must be found by its names and addresses and by nothing
  else, its contacts once.
- *Listener:* `Rebind` closes the socket under `Accept`, and a shutdown does
  too; the accept loop must tell the two apart from values it reads afterwards.
  No socket may be left open that nobody accepts from.
- *Handler:* eight return paths, three deferred steps. Tokens and counters must
  balance on each.
- *Reload:* signals are coalesced while one is served, and sub-steps fail
  independently. The last edit must win.
- *Limiter:* `gcLoop` runs between `Allow`'s lookup and its token. Deleting a
  bucket must not hand out tokens.
- *ACL and address index:* overlapping prefixes, both ends of the address space,
  insertion order.
- *Dumper and ring:* failing file operations, nudges that find the channel
  full, calls that come with a time that is already past.
- *Snapshot:* counters are loaded one by one while connections close, and the
  active store is loaded twice while it is replaced. What is shown may be torn,
  but only by what happened meanwhile.
- *Configuration:* defaults, checks that depend on a flag, and sub-steps of a
  reload that keep the old value. What is in effect must have every default and
  have passed every check there is; a negative `idle_ttl` or `max_concurrent`, for
  which there is none, ends the process.

## 2. The modules

Abstract specifications: `Mirror <- Dbase`, `TokenBucket <- Limiter`.
Compositions:

- `Dbase -> Refresher` (the pipeline under its timer);
- `Registry -> Handler -> Server <- Listener`: `Clients` declares the connections
  and `Context` the cancellation that they have in common;
- `Registry, Ring -> Snapshot`;
- `NetIndex -> Store <- Parser <- Rpsl`, with `Prefixes` (addresses, prefixes and
  their order) below both, and `Store -> Query -> Loader`: operators on data
  structures, and one module with the actions of the goroutines that use them;
- `Config -> Daemon`. `Acl` and `Dumper` stand alone.

Proofs are in `DbaseProofs` (with the schedule), `ServerProofs` (handlers,
listener and the whole server), `DaemonProofs`, `LimiterProofs`, `DumperProofs`,
`AclProofs`, `SnapshotProofs` (with the ring) and `LoaderProofs` (parsing, the
indexes and the answers).
`MCAcl`, `MCDaemon`, `MCLimiter` and `MCLoader` define the constants of runs
that a `.cfg` cannot express; the other runs use the module itself.
Definitions named as mutants are deliberate faults next to the definition they
vary; no specification uses them.

**Dbase.** `upstream` is what the registries offer, `cache` the files in
`CacheDir`, `cur` the active store, `build` the store `Reload` is filling.
`FetchBegin/FetchDone/FetchFail` are the goroutines of `FetchAll` (the
conditional GET with its 304, the copy to a temporary file, the rename),
`Collect` is the end of `FetchAll` and the skip test of `Reload`,
`LoadBegin/Insert/LoadEnd/LoadFail` are the parse goroutines, `FinishReload` is
what follows `wg.Wait`. `Crash` and `Restart` lose everything but the cache. A
failed first refresh ends the process, as in `main`. `failed` is a ghost: which
kinds of per-file failure this process has met.

**Mirror.** What readers of the store may rely on: it is replaced as a whole,
is non-empty while the daemon serves, never runs ahead of the registry, never
goes back for a dump it keeps. That a dump may be *missing* is part of the
promise because the code drops a dump whose download failed.

**Refresher.** A clock of `Day` ticks and the timer of `refreshLoop` around the
actions of `Dbase`: a refresh that ends with the process alive sets the timer
with `nextRefresh`, and the next one starts when it has run out. A refresh and a
restart take any time.

**Rpsl, Parser.** A dump is a sequence of lines: blank, comment, continuation,
attribute (a name, whether it is spelt with capitals, words) or junk. `consumed`
is the body of `parseStream`'s loop, `commit` and `flushed` its two closures,
`LookupAll` is `scanAttr` over an object's raw lines. `ObjectsBefore` is the
reference, stated over line numbers: `StanzaAt` is the object of the stanza that
ends at a line, `Continues` says which lines belong to an attribute, and
`InOrder` puts together what a set of lines contributes. A word's form
stands for the tests of the code it passes (`ParseAddr`, `ParsePrefix`,
`isNicHandle`, contains a dot, starts with AS), so that a word fails or passes
them all consistently; case and the final dot are kept because `normalizeKey`,
`Insert` and `Lookup` change them.

**NetIndex, Store.** `rangeToCIDRs` is the code's loop (a recursive function); a
trie is a function from its nodes to the objects appended there. `Insert` fills
the indexes and counts of one record, `Lookup` asks the indexes in the code's
order and the first that has something answers. IPv4 ranges live in the mapped
part `V4` of the address space.

**Query.** `parseQuery` on tokens, `pick`, `writeRelated` and `answer`, whose
value is the sequence of objects of the reply; separators and banners are left
out.

**Loader.** `Manager.Reload` at the level of lines: one parser per file behind a
semaphore, an object inserted under the lock whenever a stanza ends, a read
error or a cancelled context at any line, `Finish` with the swap. The part of a
line that was read before an error is still parsed: blanks end the pending
object, which is then inserted half read (`ReadError`). `Dbase` has
the same goroutines with objects as numbers; here the question is what the
store answers.

**Listener.** A step is one critical section of `listenMu` or one system call.
Sockets are numbers; `open` is the kernel's view, `ln` is `s.ln`. `Run` is
`RunListen, RunInstall, RunLoop, Accept/AcceptFails, RunFailed, RunDrain`.
SIGHUP may be handled before `Run` has installed its listener
(`main.go:172-174`); `overwritten` is the socket that `RunInstall` then finds in
`s.ln` and replaces. It is a ghost: no guard reads it.

**Handler, Registry.** A handler's stage names the statement it is about to run;
the deferred calls are `release` (the semaphore), `mark, delete, count, outcome`
(`Conn.Close`, which is not atomic) and `hangup` (the log line, `c.Close`,
`wg.Done`). The verdicts of the ACL and the limiter, the client's query and the
lookup's result are inputs: every outcome is possible at every step.

**Server.** Joins the two: `Accept` starts the handler, the handler's end is
`wg.Done`, both see the same context.

**Acl.** An address is a function from bit positions to bits, as `bitAt` reads
it, and a node is the prefix that leads to it. `Insert` creates the path and
overwrites the action, `MatchExplicit` walks as deep as nodes exist and keeps
the last action it met. IPv4 is a subtree of the IPv6 space, as in
`canonicalBits`. `Policy` is the reference, stated over the rule lists without
any tree.

**Limiter, TokenBucket.** `Lookup` is `Allow`'s critical section, `Take` the
`rate.Limiter.Allow` call after the unlock, `Collect` one round of `gcLoop` with
a tick time that may be old. `rate.Limiter` is a dependency, modelled from how
it is used: it starts full and refills lazily. `TokenBucket` is one bucket per
network that is never reset.

**Dumper.** `Run` is `Start`, then a select over the ticker, the nudge and the
context; a dump is `TakeSnap, Publish, Create, WriteTmp, Rename`, each of the
file operations may fail. `SetInterval` is two steps, the lock and the
non-blocking send. `Serve` is `/stats.json`. Two ghosts serve `IntervalApplied`:
`wanted`, the interval last set, and `early`, which says that it was set before
`Run` stored its initial one.

**Ring, Snapshot.** `advanced` is `advance`, applied by `tick` and `rate`;
callers hold a time up to `MaxDelay` seconds old. `Snapshot` has the steps of
`Conn.Close` on one side and, on the other, those of `Registry.Snapshot` with
the callback `main` gives it: the copy of the live set under the lock, one
atomic load per counter, the rate, and the three reads of the manager, between
which a store may be swapped in. `events` (per second), `overlap` (connections
that were in `Close` meanwhile) and `opened` are ghosts.

**Config.** A configuration is the record of the fields that a check looks at
or that can end the process; a field that the file does not mention has its zero
value.
`applyDefaults`, `validate` and `ParseDailyAt` are the functions of the same
names, `Files` and `CanPlan` say when the initial download has something to do.

**Daemon.** `main` step by step with its exit paths, `reloadLoop` with one step
for each sub-step of `applyReload`, an operator who writes one of `Texts` into
the file and sends signals at any moment. Each setting in effect is represented
by the file it was taken from; what the file means is `Config`'s matter. SIGHUP
has its default action before `signal.Notify` and after the deferred `Stop`,
SIGTERM before `NotifyContext`. Two fields that `validate` does not look at end the
process with a panic: a negative `max_concurrent` in `server.New` (`MainDbase`,
which still removes the pid file), an `idle_ttl` that is no interval in the
limiter's `gcLoop`, whenever that goroutine runs (`doomed`, `LimiterPanics`).

## 3. The runs

Deadlock is checked in the two `dbase` runs (the daemon polls for ever); the
other systems may stop (a shutdown, a bound on time or on inputs), and their
configurations say so.

| Run | Instance | Shows |
|---|---|---|
| `dbase` (`Refresher`) | 2 files of 2 objects, 2 versions, 1 download and 2 parse slots, 1 crash, every kind of fault; a day of 4 ticks, poll interval 3, retry 1 | the store is whole (`WholeFiles`), a swap installs exactly the fetched files (`SwapComplete`), a 304 means the store is current unless a parse failed (`ServedIsCached`), no source is missing unless a download failed (`AllSourcesServed`), `Mirror` is implemented, a process that meets no failure becomes fresh (`EventuallyFresh`), a waiting daemon starts a refresh at `daily_at` and none twice at one moment (`AnchorKept`) |
| `dbase_partial_fetch` | the same with download faults only | **violated:** `FreshAfterFaults`. A source whose download failed once, while another changed, is dropped from the index and stays missing as long as every later answer is 304 |
| `listener` | 2 clients, 2 addresses, 4 sockets, 1 transient Accept error | `Run` returns only on a shutdown, `BindAddr` is true, shutdowns end; but for the one socket that `Run` may overwrite when it starts, no socket is orphaned (`OrphansAreOverwritten`) and queued clients are served or reset (`QueuedIsServed`) |
| `listener_early_reload` | 1 client, 3 sockets | **violated:** `NoOrphanListener`. A `Rebind` between `Run`'s `Listen` and its assignment of `s.ln` is overwritten; its socket queues clients nobody accepts |
| `server` | 2 clients, 1 slot, 1 rotation, a shutdown | tokens and counters balance at every step and on every path, a state in the log line is one its result allows, `Run` returns with everything counted, a shutdown ends |
| `acl` | 3-bit addresses, 196 configurations (2 defaults, 7 allow and 7 deny lists, with and without a bad entry) | every address gets the verdict of the reference policy of the installed configuration, across failed reloads; loopback addresses that a deny rule decides are left out |
| `store` (`MCLoader`) | 4-bit addresses, half of them IPv4; all texts of up to 3 lines of 9 kinds and all of 4 lines after a first attribute; all pairs of IPv4 ranges in two files; all triples of 14 stanzas in two files; read errors and cancellation for some | each parser has emitted exactly the stanzas it has read, a failed one a beginning of them or also the one its last read cut short, and active dumps are whole (`ParsedStanzas`), reading an attribute back agrees with it (`ScanAgrees`), a query finds what answers to it and nothing else (`LookupExact`), the decomposition is the minimal one (`BlocksAreMinimal`), the answer to an address without `-m`, `-l`, `-x` has the longest block (`LongestBlockAnswer`), each contact is printed once (`ContactsOnce`) |
| `net_shared_node` (`MCLoader`) | the pairs of ranges | **violated:** `MostSpecificAnswer`. A range of several blocks shares a node with a smaller object, and insertion order decides |
| `dumper` | 2 intervals, 2 `SetInterval` calls, 3 events | the file never goes back or is torn, HTTP is not behind the file, the last interval takes effect if it was set after `Run` had stored its own |
| `limiter` | 2 networks, 2 handlers, burst 3, 1 token a tick, 6 ticks, idle time 3, 4 buckets | concurrent `Allow`, creation and collection implement `TokenBucket` |
| `daemon` (`MCDaemon`) | 2 edits, 16 texts: 7 that load, two of which end in a panic, 9 that each fail one check | after the last signal is served the last edit is in effect as far as it can be, settings come from one file, what is in effect has its defaults and passed the checks (`UsableSettings`), a signal leads to a reload |
| `snapshot` | 2 connections, 3 outcomes, window of 3, 4 seconds, calls up to 2 seconds late, 1 swap | every opened connection is shown as live or counted, and the total is hits plus misses, up to the connections that were closing meanwhile (`SnapshotConserves`); load time and counts are of one store unless it was replaced meanwhile, and never of an older one than what was read before (`StoreOfSnapshot`), the rate counts the events of the window and no others (`RateIsWindow`) |

The three violated runs are the findings of `PROJECT.json`, each with the line
it contradicts.

### Why these bounds

- *Two files* are enough for one to fail or to change while the other does not;
  two versions for stale against current; two objects for a parse that fails in
  the middle; one download slot of two makes a file wait for its slot, and two
  parse slots make the parses overlap. One crash is enough, since only the cache
  survives and `Init` already ranges over the caches an earlier life can leave.
- *Four sockets* allow a rotation away and back while the first is still in
  `Run`'s hands; two clients allow one in the queue and one in its handler. With
  one slot for two clients both the full and the free semaphore occur, and the
  token can be contended in both orders. The `server` run leaves transient
  Accept errors to `listener`.
- *Three bits* (of the ACL, and of IPv4 in `store`) contain ranges that start at
  the first address, end at the last, span several blocks and share blocks; the
  loop has no other boundary. Pairs of objects suffice for the order at a node.
- *Five lines* hold two stanzas with a continuation, a comment or a junk line on
  either side of the boundary; the parser's state does not remember more than
  the attribute and the stanza it is in. *Three stanzas* are one that answers a
  query and two that name, share or shadow its contact; the 14 stanzas were
  chosen to share names across classes and spellings, some of them not
  parseable as addresses.
- *A day of four ticks* has the anchor inside a poll interval, at its end and
  beyond it, since the refreshes in between take any time.
- *Two edits* allow one before and one during a reload; the texts differ from a
  plain one in one default, check, flag or unchecked field each.
- The limiter's clock runs past the idle time with room to refill. Its instance
  satisfies `RefillsWhileIdle`: a bucket fills in the time it must be idle before
  it is collected, less the time a handler stalls (`MCLimiter` asserts it). With a
  smaller idle time the refinement does not hold, and the configuration's
  validation does not relate the two. A handler may stall `MaxStall` ticks
  between lookup and token: the code sets no bound, but a stall as long as the
  idle time is not realistic.
- *Four seconds* of a window of three: second 4 takes the bucket of second 1,
  the ring is idle for a whole window between two calls, and a call that is two
  seconds late meets buckets that were reused. `MaxDelay < N`: a call that is a
  minute late would be filed in another second's bucket.

Symmetry is used in `limiter` (networks and handlers) and in `snapshot`
(connections), which are interchangeable there and where only safety is checked.

### Fairness

- Goroutines that can run do run (weak fairness of each process' steps): the Go
  scheduler is preemptive.
- Handlers end: reads and writes have deadlines and lookups are bounded, so
  `Read` and `Write` always have an outcome. The deadlines themselves are not
  modelled, so no run would notice a missing one.
- Downloads end: the HTTP client has a timeout; time passes, and the refresh
  timer fires.
- The process is restarted: `whoisd.service` sets `Restart=on-failure`.
- `Heal` says that faults do not last for ever; it is what "eventually fresh"
  can be asked under. Registries stop publishing because `MaxVersion` is finite.
- In the dumper's select a ready case is not passed over for ever (strong
  fairness of `Nudged` and `Stop`): Go's select picks among ready cases at
  random.
- Nothing is assumed of clients, operators, signals or crashes.

## 4. The proofs

The theorems hold for every value of the constants that satisfies the named
assumptions of the modules (`DbaseAssumption`, `RefresherAssumption`,
`ListenerAssumption`, `RegistryAssumption`, `HandlerAssumption`,
`DaemonAssumption`, `LimiterAssumption`, `DumperAssumption`, `AclAssumption`,
`RingAssumption`, `SnapshotAssumption`, `PrefixesAssumption`, `LoaderAssumption`: sets are non-empty or finite, bounds are
natural numbers, dumps are sequences of lines); TLC evaluates them in the runs. Two theorems have a
condition of their own, each stated with them: `RefinesTokenBucket` and
`SnapshotAddsUp`.

**DbaseProofs.** `TypeCorrect`, `WholeFilesHold`, `SwapsAreComplete`,
`CacheHitsAreCurrent`, `AllSourcesStayServed`, `RefinesMirror`. `WholeFiles` is
not inductive: `FinishReload` needs that a loaded file has all its objects, and
`Mirror` needs that the cached versions are between the served and the published
ones. `IndInv` says: versions are ordered (served <= cached <= published, bodies
in flight included), the active store is whole, the store being built holds for
each file what its parse state says, phases agree with the states of their
files, and no store is active before the first refresh has succeeded.
`ServedIsCached` and `AllSourcesServed` speak only of a refresh that has just
succeeded, so each has its own strengthening (`Settled`, `Complete`) that
follows the refresh through its phases: while fetching, a file whose cached copy
is newer than the store is one marked `changed`, so that the skip in `Reload`
cannot overlook it. For the schedule, `TimedIsUntimed` shows that the timer only
restricts the pipeline, so the theorems above hold under it, and `AnchorIsKept`
needs `OnTime`: the timer runs only while the loop waits, and after a success it
fires no later than the next `daily_at`. The arithmetic of `DailyAt.Next` and
`nextRefresh` is in the lemmas `ClockStep`, `AnchorAhead` and
`NextRefreshBounds`.

**ServerProofs.** `TypeCorrect`, `SemaphoreIsExact`, `EveryPathIsCounted`,
`TotalIsAhead`, `LogIsConsistent` of the handlers, for any finite set of
connections. The counting argument is about cardinalities: each step moves one
connection into or out of the set a counter stands for. The invariant adds which
classifications and states are possible at each stage; `TotalLeads` needs that
`total` is exactly the connections that were answered, those between the two
increments included. `Joined` ties the handlers to the accept side: a connection
is being handled exactly while its handler runs, and none is once `Run` has
returned. From it, `ImplementsHandlers` and `ImplementsListener` show that every
step of the composition is a step, or a stutter, of each part, so the theorems
about the parts hold of the whole, and `ShutdownDrains` that `Run` returns with
an empty semaphore, an empty live set and every connection counted.
Of the listener: `ListenerTypeCorrect`, `RunOutlivesRebind`, `BindAddrIsTrue`,
`NoSocketLeaks`. The invariant (`WatcherOwnsClosed`,
`PublishedIsOpen`, `LoopKnows`) ties the accept loop's copy of
`ln` to the shared one: if the copy is closed, then either `ln` has moved on or
a shutdown is under way; that is why the test made after the failed `Accept` is
sound. `NoSocketLeaks` says that the socket `Run` overwrote is the only one that
can be left open: after `RunInstall` every replaced listener is closed by who
replaced it, and before it there is at most one. That there may be one at all is
the counterexample of `listener_early_reload`.

**DaemonProofs.** `TypeCorrect`, `NoEditIsLost`, `SettingsAgree`,
`OnlyUsableSettings`, for any set of configuration texts. The invariant follows
the newest version: whatever is not yet in effect is in the file and still to be
signalled, in the channel, or in the `cfg` that `applyReload` is half way
through. `UsableSettings` is not inductive, since a setting is taken from `cfg`
several steps after `cfg` was checked: `Checked` says that `cfg` and every
setting in effect come from files that passed `Load`, and the lemmas
`Defaulted` and `LoadedIsUsable` derive from it what `validate` guarantees after
`applyDefaults`. That the server starts with room for a connection needs both the
default and the panic of `server.New`, since `max_concurrent` is not checked.

**LimiterProofs.** `RefinesTokenBucket`, assuming `RefillsWhileIdle`. A network
that is not in the map stands for a full bucket, so a collection must delete
only buckets that are full by then. The invariant says that a bucket in the map
belongs to one network, was last used at most `MaxStall` after it was last seen,
and that a handler between its lookup and its token holds the bucket that is in
the map. `Collect` is then a stutter of the abstract bucket, and so is `Lookup`.

**DumperProofs.** `TypeCorrect`, `HttpIsNotBehind`, `DumpsAdvance`. The invariant
orders the copies of a snapshot along its way (the file is not newer than what
was published for HTTP, that not newer than what `dumpOnce` works on, that not
newer than what was counted) and says that before the rename the temporary file
is complete.

**AclProofs.** `TreeFollowsPolicy`, for addresses of any width. The invariant says
which rules a tree was built from (`Built`): each rule can be reached from the
root, and a node's action is that of the last list that names it, or none. That the walk ends at the longest rule needs that a
bounded set of lengths has a maximum.

**SnapshotProofs.** `SnapshotStoreIsOrdered` follows the order in which the store
is read. `SnapshotAddsUp` compares a snapshot with a state that no longer
exists, so its invariant keeps that state as sets: `Exact` says that each counter
is the number of connections behind its increment, `Reading` that each loaded
counter is the size of a set that differs from the connections behind it now
only by connections in `overlap`, and likewise for the copied live set.
`RateCountsWindow` rests on `RingInv`: the buckets hold, slot by slot, the events
of the `N` seconds up to `headSec`, nothing has been counted after `headSec`, and
a time that is held is at most `MaxDelay` old. Seconds less than `N` apart have
different slots, so `advance` clears exactly the expired ones and a late `tick`
still finds its own. The sum itself is matched term by term with that over the
events (`SumsMatch`).

**LoaderProofs.** Six theorems, for dumps of any length, any number of files and
addresses of any width; the goroutines may interleave, fail and be cancelled in
any way.

- `ObjectsReadBack` (`ScanAgrees`). The invariant `ParseInv` says that at every
  line the scan of the raw text so far would find what the parser has extracted,
  the attribute under construction included (`ScanFollows`). Each kind of line
  keeps it; `scanAttr`'s fold is taken line by line (`ScanAppend`).
- `StanzasParsed` (`ParsedStanzas`). `StanzaInv` adds that the parser's state is
  what the lines from the last blank one to `pos` describe (`Follows`): the
  attributes before the last one are in the object (`Committed`), the last one is
  under construction with the words of the lines that continue it so far
  (`Open`). Where an attribute ends, `commit` makes its value that of the
  reference (`CommitCommits`), and where a stanza ends, what `flush` emits is the
  reference's object (`FlushedIsStanza`). The property alone is not inductive,
  since it does not say what is pending. `FollowsLines` says it of every text that
  begins with the lines read, so that it also holds of the text cut where a read
  fails: what is then inserted is the stanza of that text (`CutStanza`).
- `RangesDecompose` (`BlocksAreMinimal`). The loop's cursor never cuts a block
  that fits in the range (`Uncut`), so the block it takes, the largest that is
  aligned and fits, is a maximal one (`BlockMaximal`), and those from the cursor
  on are the blocks the rest of the loop yields (`LoopYields`). Both ends of the
  address space are cases of it.
- `LookupIsExact` (`LookupExact`). `StoreInv` counts: each index holds, under
  each key or at each node, every emitted object as often as it was emitted if
  it belongs there, and never otherwise (`StoreHas`). A lookup by address meets
  the nodes around it, and an address of an object is in exactly one of the
  object's blocks (`OneBlock`), so nothing is found twice.
- `AnswersHaveLongestBlock` (`LongestBlockAnswer`). The trie's reply is in order
  of depth, so its last object was filed at the deepest node that has any.
- `ContactsAppendedOnce` (`ContactsOnce`). The handles collected are those named,
  in upper case, each once; the objects appended are counted handle by handle.

Where a proof needs induction over data (a maximum, a sum over a finite set, a
loop), it takes a smallest counterexample, which exists because `<` on the
natural numbers is well founded (`HasMax` in `AclProofs`; `LeastNat`,
`SmallestSubset` in `SnapshotProofs`; `LeastNat` in `LoaderProofs`); the
library's induction theorems are not used. That a recursive function or a fold
has a solution at all is proved the same way (`AddingExists`, `Pow2Exists`,
`LoopExists`, `ScanningExists`, `InOrderIs`).

### Only model-checked

All liveness (`EventuallyFresh`, `ShutdownReturns`, `QueuedIsServed`,
`ShutdownEnds`, `IntervalApplied`, `ReloadHappens`): it needs fairness and
`ENABLED`, which the prover does not handle. Every invariant
and action property that a passing run checks is proved.

## 5. Where code and documentation differ, without a run

Met while modelling; the modules follow the code.

- `docs/whoisd.8:359-361` promises a final stats flush at shutdown;
  `dumper.go:92-93` returns without one.
- A parse that fails after its file was renamed into the cache: the retry gets
  304 and skips the rebuild (`store.go:469`), so the newer file is not served
  until some registry publishes again. (`ServedIsCached` excludes it by its
  condition on `failed`.)
- `docs/whoisd.8:237-242`: loopback is always allowed; a deny rule for the same
  or a longer prefix overrides it (`main.go:242-258`). `AclIsPolicy` leaves such
  addresses out (`LoopbackDenied`).
- SIGHUP during the initial load, when the pid file already exists, ends the
  process (`Hangup` in `Daemon`).
- A `SetInterval` before the dumper's `Run` has started is overwritten
  (`dumper.go:77`), although `dumper.go:22-23` and `48-50` promise that the new value
  takes effect. `IntervalApplied` leaves the case out (`early`); `ReloadInterval` in
  `Daemon` takes every such call as effective.
- `README.md:80-81` on `-x` and `-m`: `-x` has no effect, `-m` returns covering
  objects (`server.go:377-393`). `LongestBlockAnswer` leaves queries with `-m`, `-l`
  and `-x` out.
- `server.go:395` says that `person` and `role` objects are appended as contacts;
  the code appends whatever a handle resolves to. In the run `store` an `as-set`
  whose `tech-c` names AS1 is followed by the `aut-num`.
- `stats.go:16-20` draws an arrow from denied and error to done; `Close` leaves
  both as they are. `LoggedStateAgrees` claims nothing of how those two end.
- `os.Exit` skips the deferred removal of the pid file (`main.go:110`, `126`,
  `176`); an empty `pid_file` or `daily_at` is replaced by the default, so
  neither can be switched off (`config.go:160-171`).
- `README.md:95-96` calls an empty file valid; `validate` asks for an enabled
  source, so an empty file does not load.
- `config.yaml:129` and `docs/whoisd.8:302` give `dump_interval` a minimum of
  50 ms; a reload with `stats.enabled: false` does not check it and still passes
  it to the running dumper (`reload.go:165`). `UsableSettings` asks for 50 ms of
  files that enable stats, and of others only that the interval is positive.
- `retry_on_failure`, `idle_ttl` and `max_concurrent` may be negative
  (`config.go:195-258`). A negative `idle_ttl` panics in `gcLoop`
  (`limiter.go:71`), at startup or after a reload, a negative `max_concurrent` in
  `server.New`; `UsableSettings` claims of both only that a file which leaves them
  out gets the default. `AnchorKept` rests on a positive `RetryOnFailure`.
- The daily anchor is kept by a waiting daemon only: a refresh that runs over
  `daily_at`, or a retry interval that spans it, puts the next one after it
  (the condition of `AnchorKept`).
- `parser.go:37` and `:50` call `Raw` the verbatim text; a line that is neither
  attribute, comment nor continuation is dropped from it (`Junk`).
  `ParsedStanzas` claims nothing of the raw text in dumps with such lines.
- A read that fails inside the blanks of a line inserts the object it has half
  read (`parser.go:235-241`); the store is discarded, as any with a failed file.
- `splitAttr` lower-cases names, `scanAttr` compares them as they are spelt, so
  `Lookup` does not see an attribute written with capitals (`LowerCase` in
  `ScanAgrees`).
- Keys that contain spaces (`AS1 - AS5`) cannot be asked for: `parseQuery` takes
  the dash for a flag. An argument of an unknown flag (`-T person`) stays in the
  query. `-b` and `-x` are parsed and not used.
- `Insert` strips the final dot of a domain, `Lookup` does not: a query with a
  final dot finds nothing. A `nic-hdl` with a continuation line is filed with
  its line break and not found.
- A `route` with an IPv6 prefix is filed in the IPv4 trie, where no query looks
  for it.
- A contact that names itself, queried by its handle, is printed twice: once as
  the answer and once as the contact.
- In a snapshot hits may exceed the total (a connection between the loads), and
  classes and sources may be of two stores; a rate taken late counts events of a
  newer second.
- An on-demand `/stats.json` may be newer than the reply after it, which may
  come from the dumper's earlier snapshot.
- A handler loads the ACL and the limiter one after the other; a reload in
  between gives it the old one of one file and the new one of the next.
- A class listed twice for a source is fetched and parsed twice, through the
  same cache file.
- A second instance overwrites the pid file before it fails to bind the port, and leaves it behind.

What the properties cannot show, since the model assumes it:

- `LookupExact` compares with a reference that spells names as the code does
  (the final dot, a `nic-hdl` with a line break, an IPv6 `route`): those
  differences, listed above, are not caught by it.
- Addresses are numbers of `W` bits: the byte loops of `trailingZeros` and
  `addrPlusMask` (`store.go:351-387`) are arithmetic here, and a fault at a byte
  boundary is out of sight.
- `ServedIsCached`, `AllSourcesServed` and `EventuallyFresh` are conditioned on
  what has not failed; what happens then is the run `dbase_partial_fetch` and the
  second item of the list.
- The limiter is one instance; that a reload replaces it, and with it every
  bucket, is not modelled.

## 6. Plan

Done: the refresh pipeline under its schedule, parsing, indexes and answers, the
server, the configuration and its reload, ACL, limiter, and the stats
components.

Left, in this order:

1. `PidFile` with two processes, joined to `Daemon`: who removes whose file.
2. The byte totals and the per-connection projection (`Conn.Snap`) of the
   registry.

Not modelled, and not planned: interning (returns an equal string and has no
state), URLs and file names, the stats command line (one request and the
formatting of its reply), log wording, the dashboard page.
