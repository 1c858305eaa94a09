------------------------------- MODULE Daemon -------------------------------
(***************************************************************************)
(* The life of the whoisd process: main's startup and exit paths (main.go) *)
(* and the SIGHUP reload (reload.go), while an operator edits the          *)
(* configuration file and signals the daemon.  A setting is represented by *)
(* the file it was taken from, whose text module Config gives a meaning.   *)
(* The initial load of the databases (module Dbase) and the server (module *)
(* Server) are one step each.                                              *)
(***************************************************************************)
EXTENDS Config

CONSTANTS
  Texts,       \* what the operator may write into the file
  MaxEdits     \* bound: edits of the configuration file

ASSUME DaemonAssumption == MaxEdits \in Nat /\ Texts \subseteq Text /\ Texts # {}

VARIABLES
  file,        \* the file: its text, and how often it was edited
  dirty,       \* the operator edited the file and has not sent SIGHUP since
  cancelled,   \* SIGINT or SIGTERM has arrived
  pc,          \* where main is
  exit,        \* the exit status
  pidFile,     \* the pid file names this process
  rpc,         \* where reloadLoop is; the middle ones are in applyReload
  hup,         \* signals in the hup channel, which holds one
  cfg,         \* main's, then applyReload's cfg
  dumper,      \* main's dumper is not nil
  doomed,      \* a limiter was started whose gcLoop panics
  running      \* the settings in effect: the file each was taken from

vars == <<file, dirty, cancelled, pc, exit, pidFile, rpc, hup, cfg, dumper, doomed, running>>

Version == 0..MaxEdits
File == [version : Version, text : Texts]
Setting == {"acl", "limiter", "level", "interval", "bind"}
Exits == {"exited", "killed"}

Parses(f) == Load(f.text)
Conf(f) == applyDefaults(f.text)
AclBuilds(f) == f.text.entries

\* gcLoop panics if half the limiter's idle_ttl is no interval for a ticker.
GcPanics(f) == Conf(f).limit.enabled /\ Conf(f).limit.idle <= 0

Listening == {"wait", "load"} \cup Setting

DaemonTypeOK ==
  /\ file \in File /\ cfg \in File
  /\ dirty \in BOOLEAN /\ cancelled \in BOOLEAN /\ pidFile \in BOOLEAN /\ dumper \in BOOLEAN /\ doomed \in BOOLEAN
  /\ pc \in {"load", "pid", "acl", "dbase", "serve", "drain", "cleanup"} \cup Exits
  /\ exit \in 0..2
  /\ rpc \in {"off", "notify", "stopped"} \cup Listening
  /\ hup \in 0..1
  /\ running \in [Setting -> File]

Init ==
  /\ \E t \in Texts : file = [version |-> 0, text |-> t]
  /\ dirty = FALSE /\ cancelled = FALSE
  /\ pc = "load" /\ exit = 0 /\ pidFile = FALSE /\ dumper = FALSE /\ doomed = FALSE
  /\ rpc = "off" /\ hup = 0
  /\ cfg = file
  /\ running = [s \in Setting |-> file]

Alive == pc \notin Exits

-----------------------------------------------------------------------------
(* The operator *)

Edit ==
  /\ Alive
  /\ file.version < MaxEdits
  /\ \E t \in Texts : file' = [version |-> file.version + 1, text |-> t]
  /\ dirty' = TRUE
  /\ UNCHANGED <<cancelled, pc, exit, pidFile, rpc, hup, cfg, dumper, doomed, running>>

\* Mutant: the channel is unbuffered, and a signal that arrives during a
\* reload is dropped.
DeliverUnbuffered == hup' = IF rpc = "wait" THEN 1 ELSE hup

\* The runtime's delivery to a registered channel never blocks: a signal
\* that finds the channel full is dropped.
Deliver == hup' = 1

\* SIGHUP from whoisd --reload, which finds the process by its pid file.
\* Unless the channel is registered, its default action ends the process.
Hangup ==
  /\ Alive
  /\ pidFile
  /\ dirty' = FALSE
  /\ \/ /\ rpc \in Listening
        /\ Deliver
        /\ UNCHANGED pc
     \/ /\ rpc \notin Listening
        /\ pc' = "killed"
        /\ UNCHANGED hup
  /\ UNCHANGED <<file, cancelled, exit, pidFile, rpc, cfg, dumper, doomed, running>>

\* SIGINT or SIGTERM: cancels the context once NotifyContext was called, ends
\* the process before that.
Terminate ==
  /\ Alive
  /\ ~cancelled
  /\ cancelled' = TRUE
  /\ pc' = IF pc \in {"load", "pid", "acl"} THEN "killed" ELSE pc
  /\ UNCHANGED <<file, dirty, exit, pidFile, rpc, hup, cfg, dumper, doomed, running>>

-----------------------------------------------------------------------------
(* main *)

\* os.Exit: the deferred removePidFile does not run.
Exit(status) == pc' = "exited" /\ exit' = status

MainLoad ==
  /\ pc = "load"
  /\ \/ /\ Parses(file)
        /\ cfg' = file
        /\ running' = [s \in Setting |-> file]
        /\ dirty' = FALSE
        /\ pc' = "pid"
        /\ UNCHANGED exit
     \/ /\ ~Parses(file)
        /\ Exit(2)
        /\ UNCHANGED <<cfg, running, dirty>>
  /\ UNCHANGED <<file, cancelled, pidFile, rpc, hup, dumper, doomed>>

\* A pid file that cannot be written is only logged.
MainPid ==
  /\ pc = "pid"
  /\ pidFile' \in BOOLEAN
  /\ pc' = "acl"
  /\ UNCHANGED <<file, dirty, cancelled, exit, rpc, hup, cfg, dumper, doomed, running>>

\* The ACL, and the limiter, whose gcLoop is started.
MainAcl ==
  /\ pc = "acl"
  /\ \/ /\ AclBuilds(cfg)
        /\ pc' = "dbase"
        /\ doomed' = GcPanics(cfg)
        /\ UNCHANGED exit
     \/ /\ ~AclBuilds(cfg)
        /\ Exit(2)
        /\ UNCHANGED doomed
  /\ UNCHANGED <<file, dirty, cancelled, pidFile, rpc, hup, cfg, dumper, running>>

\* The initial load; the dumper and reloadLoop are started after it.  In
\* between server.New makes the semaphore: a negative capacity is a panic,
\* under which main's deferred removePidFile runs.
MainDbase ==
  /\ pc = "dbase"
  /\ \/ /\ ~cancelled
        /\ Conf(cfg).concurrent >= 0
        /\ pc' = "serve"
        /\ dumper' = Conf(cfg).stats
        /\ rpc' = "notify"
        /\ UNCHANGED <<exit, pidFile>>
     \/ /\ ~cancelled
        /\ Conf(cfg).concurrent < 0
        /\ pidFile' = FALSE
        /\ Exit(2)
        /\ UNCHANGED <<rpc, dumper>>
     \/ Exit(1) /\ UNCHANGED <<rpc, dumper, pidFile>>
  /\ UNCHANGED <<file, dirty, cancelled, hup, cfg, doomed, running>>

\* The panic of a gcLoop, whenever the goroutine gets to run: it ends the
\* process, and main's deferred functions do not run.
LimiterPanics ==
  /\ Alive
  /\ doomed
  /\ Exit(2)
  /\ UNCHANGED <<file, dirty, cancelled, pidFile, rpc, hup, cfg, dumper, doomed, running>>

\* srv.Run returns: it could not listen, or a shutdown has been drained.
MainServe ==
  /\ pc = "serve"
  /\ \/ Exit(1)
     \/ /\ cancelled
        /\ pc' = "drain"
        /\ UNCHANGED exit
  /\ UNCHANGED <<file, dirty, cancelled, pidFile, rpc, hup, cfg, dumper, doomed, running>>

MainDrained ==
  /\ pc = "drain"
  /\ pc' = "cleanup"
  /\ UNCHANGED <<file, dirty, cancelled, exit, pidFile, rpc, hup, cfg, dumper, doomed, running>>

\* The deferred removePidFile, and the return from main.
MainReturn ==
  /\ pc = "cleanup"
  /\ pidFile' = FALSE
  /\ Exit(0)
  /\ UNCHANGED <<file, dirty, cancelled, rpc, hup, cfg, dumper, doomed, running>>

-----------------------------------------------------------------------------
(* reloadLoop *)

ReloadNotify ==
  /\ Alive
  /\ rpc = "notify"
  /\ rpc' = "wait"
  /\ UNCHANGED <<file, dirty, cancelled, pc, exit, pidFile, hup, cfg, dumper, doomed, running>>

\* select: either when both are ready.
ReloadWake ==
  /\ Alive
  /\ rpc = "wait"
  /\ hup = 1
  /\ hup' = 0
  /\ rpc' = "load"
  /\ UNCHANGED <<file, dirty, cancelled, pc, exit, pidFile, cfg, dumper, doomed, running>>

\* ctx.Done; the deferred signal.Stop gives SIGHUP its default action back.
ReloadStop ==
  /\ Alive
  /\ rpc = "wait"
  /\ cancelled
  /\ rpc' = "stopped"
  /\ UNCHANGED <<file, dirty, cancelled, pc, exit, pidFile, hup, cfg, dumper, doomed, running>>

\* Mutant: a file that does not load ends reloadLoop.
ReloadLoadEnds ==
  /\ Alive
  /\ rpc = "load"
  /\ \/ /\ Parses(file)
        /\ cfg' = file
        /\ rpc' = "acl"
     \/ /\ ~Parses(file)
        /\ rpc' = "stopped"
        /\ UNCHANGED cfg
  /\ UNCHANGED <<file, dirty, cancelled, pc, exit, pidFile, hup, dumper, doomed, running>>

\* applyReload: a file that does not load ends it, and nothing has changed.
ReloadLoad ==
  /\ Alive
  /\ rpc = "load"
  /\ \/ /\ Parses(file)
        /\ cfg' = file
        /\ rpc' = "acl"
     \/ /\ ~Parses(file)
        /\ rpc' = "wait"
        /\ UNCHANGED cfg
  /\ UNCHANGED <<file, dirty, cancelled, pc, exit, pidFile, hup, dumper, doomed, running>>

\* Mutant: every step of applyReload loads the file anew.
ApplyFromFile(s, next) ==
  /\ running' = [running EXCEPT ![s] = file]
  /\ rpc' = next

Apply(s, next) ==
  /\ running' = [running EXCEPT ![s] = cfg]
  /\ rpc' = next

\* The ACL that cannot be built is skipped; the rest goes on.
ReloadAcl ==
  /\ Alive
  /\ rpc = "acl"
  /\ \/ AclBuilds(cfg) /\ Apply("acl", "limiter")
     \/ ~AclBuilds(cfg) /\ rpc' = "limiter" /\ UNCHANGED running
  /\ UNCHANGED <<file, dirty, cancelled, pc, exit, pidFile, hup, cfg, dumper, doomed>>

\* The limiter and the log level always apply.
ReloadSetting ==
  /\ Alive
  /\ \/ rpc = "limiter" /\ Apply("limiter", "level") /\ doomed' = (doomed \/ GcPanics(cfg))
     \/ rpc = "level"   /\ Apply("level", "interval") /\ UNCHANGED doomed
  /\ UNCHANGED <<file, dirty, cancelled, pc, exit, pidFile, hup, cfg, dumper>>

\* The dump interval applies where a dumper was started; whether the new file
\* enables stats is not asked.
Dumps(f) == dumper /\ Conf(f).dump > 0

ReloadInterval ==
  /\ Alive
  /\ rpc = "interval"
  /\ \/ Dumps(cfg) /\ Apply("interval", "bind")
     \/ ~Dumps(cfg) /\ rpc' = "bind" /\ UNCHANGED running
  /\ UNCHANGED <<file, dirty, cancelled, pc, exit, pidFile, hup, cfg, dumper, doomed>>

\* Rebind may fail: the old listener stays.  An address that did not change
\* counts as taken from the new file.
ReloadBind ==
  /\ Alive
  /\ rpc = "bind"
  /\ \/ Apply("bind", "wait")
     \/ rpc' = "wait" /\ UNCHANGED running
  /\ UNCHANGED <<file, dirty, cancelled, pc, exit, pidFile, hup, cfg, dumper, doomed>>

-----------------------------------------------------------------------------
Main == MainLoad \/ MainPid \/ MainAcl \/ MainDbase \/ MainServe \/ MainDrained \/ MainReturn
ReloadLoop ==
  ReloadNotify \/ ReloadWake \/ ReloadStop \/ ReloadLoad \/ ReloadAcl \/ ReloadSetting
  \/ ReloadInterval \/ ReloadBind

Next == Main \/ ReloadLoop \/ LimiterPanics \/ Edit \/ Hangup \/ Terminate

Spec == Init /\ [][Next]_vars

\* The reload goroutine runs, and main gets through its startup.
FairSpec == Spec /\ WF_vars(ReloadLoop) /\ WF_vars(MainLoad \/ MainPid \/ MainAcl \/ MainDbase)

-----------------------------------------------------------------------------
(* Properties *)

\* Once SIGHUP has been sent for the last edit and reloadLoop is back at its
\* select with an empty channel, the file's settings are in effect, however
\* the edits and signals fell into earlier reloads: a signal is only dropped
\* when one that will still be served is in the channel.  Sub-steps are
\* independent: an ACL that does not build costs only the ACL.
Settled == rpc = "wait" /\ hup = 0 /\ ~dirty
ReloadConverges ==
  Settled /\ Parses(file) =>
    /\ \A s \in {"limiter", "level"} : running[s] = file
    /\ AclBuilds(file) => running["acl"] = file
    /\ Dumps(file) => running["interval"] = file

\* At the select the limiter and the log level are those of one version of
\* the file; an ACL, an interval or a listener that could not be changed is
\* older, never newer, and only where the newer file had none to offer.
SettingsOfOneFile ==
  rpc = "wait" =>
    /\ running["limiter"] = running["level"]
    /\ \A s \in Setting : running[s].version <= running["level"].version
    /\ AclBuilds(running["level"]) => running["acl"] = running["level"]
    /\ Dumps(running["level"]) => running["interval"] = running["level"]

\* Whatever the operator wrote and whenever it was loaded, the settings in
\* effect are what the defaults and the checks promise: a limiter has tokens to
\* give, at a rate, aggregates clients by a prefix the address family has, and
\* no idle_ttl of 0; the ACL has a default; the dumper's ticker has a positive
\* interval, of at least 50 ms when the file that set it enables stats; the
\* initial load has files to fetch, no source standing in its way; and the
\* server starts with room for a connection.
\* Nothing is claimed of what Load accepts unchecked: an idle_ttl that
\* LimiterPanics ends the process on, a max_concurrent that MainDbase ends it
\* on, and an interval below 50 ms in a file that turns stats off, which still
\* applies to a running dumper although whoisd.8:301-302 gives the minimum
\* without a condition.
UsableSettings ==
  pc \notin {"load"} \cup Exits =>
    LET limit == Conf(running["limiter"]).limit
        stats == Conf(running["interval"])
    IN  /\ limit.enabled => /\ limit.rps > 0 /\ limit.burst > 0 /\ limit.idle # 0
                            /\ limit.v4 \in 1..32 /\ limit.v6 \in 1..128
        /\ Conf(running["acl"]).default \in {"allow", "deny"}
        /\ dumper => stats.dump > 0
        /\ dumper /\ stats.stats => stats.dump >= 50
        /\ pc = "dbase" => CanPlan(Conf(cfg).sources)
        /\ rpc = "notify" => Conf(cfg).concurrent > 0

\* Every SIGHUP taken while the daemon serves leads to a reload.
ReloadHappens == hup = 1 ~> (rpc = "load" \/ cancelled \/ ~Alive)
=============================================================================
