------------------------------ MODULE Handler -------------------------------
(***************************************************************************)
(* Server.handle (internal/server/server.go), one goroutine per accepted   *)
(* connection, with the concurrency semaphore and the stats registry.  A   *)
(* step is what happens between two points at which another goroutine can  *)
(* be observed.  The deferred calls run in reverse order on every return   *)
(* path: release the semaphore, close the stats record, close the socket.  *)
(*                                                                         *)
(* The ACL verdict, the limiter's decision, the client's query and the     *)
(* outcome of the lookup are inputs here.                                  *)
(***************************************************************************)
EXTENDS Registry, Context

CONSTANT MaxConcurrent

ASSUME HandlerAssumption == MaxConcurrent \in Nat \ {0}

VARIABLES
  pc,          \* pc[c]: where c's handler is
  sem,         \* tokens in s.sem
  class,       \* class[c]: classification, "" until a return path sets it
  found        \* found[c]: the lookup returned objects

hvars == <<cancelled, pc, sem, class, found>>
vars  == <<rvars, hvars>>

\* The handler owns a semaphore token from "acl" to "release".
Working  == {"acl", "rate", "read", "lookup", "write", "reply", "release"}
Closing  == {"mark", "delete", "count", "outcome", "hangup"}
Stage    == {"idle", "open", "select", "busy", "done"} \cup Working \cup Closing

HandlerTypeOK ==
  /\ RegistryTypeOK
  /\ cancelled \in BOOLEAN
  /\ pc \in [Conn -> Stage]
  /\ sem \in 0..MaxConcurrent
  /\ class \in [Conn -> Class \cup {""}]
  /\ found \in [Conn -> BOOLEAN]

HandlerInit ==
  /\ RegistryInit
  /\ cancelled = FALSE
  /\ pc = [c \in Conn |-> "idle"]
  /\ sem = 0
  /\ class = [c \in Conn |-> ""]
  /\ found = [c \in Conn |-> FALSE]

-----------------------------------------------------------------------------
Goto(c, p) == pc' = [pc EXCEPT ![c] = p]
Classify(c, k) == class' = [class EXCEPT ![c] = k]

\* The goroutine is started for an accepted connection.
Spawn(c) ==
  /\ pc[c] = "idle"
  /\ Goto(c, "open")
  /\ UNCHANGED <<rvars, cancelled, sem, class, found>>

OpenConn(c) ==
  /\ pc[c] = "open"
  /\ Open(c)
  /\ Goto(c, "select")
  /\ UNCHANGED <<cancelled, sem, class, found>>

\* Mutant: the channel has room for every connection.
AcquireUnbounded(c) ==
  /\ pc[c] = "select"
  /\ sem' = sem + 1
  /\ Goto(c, "acl")
  /\ UNCHANGED <<rvars, cancelled, class, found>>

\* Mutant: the slot is only tested, not taken; the deferred receive stays.
AcquireNothing(c) ==
  /\ pc[c] = "select"
  /\ sem < MaxConcurrent
  /\ Goto(c, "acl")
  /\ UNCHANGED <<rvars, cancelled, sem, class, found>>

\* select on the semaphore and the context: either when both are ready, the
\* default (busy) only when neither is.  A refusal sets the state first.
Acquire(c) ==
  /\ pc[c] = "select"
  /\ sem < MaxConcurrent
  /\ sem' = sem + 1
  /\ Goto(c, "acl")
  /\ UNCHANGED <<rvars, cancelled, class, found>>

SelectCancelled(c) ==
  /\ pc[c] = "select"
  /\ cancelled
  /\ Classify(c, "error_read")
  /\ Goto(c, "mark")
  /\ UNCHANGED <<rvars, cancelled, sem, found>>

SelectBusy(c) ==
  /\ pc[c] = "select"
  /\ sem = MaxConcurrent /\ ~cancelled
  /\ Classify(c, "denied_busy")
  /\ SetState(c, "denied")
  /\ Goto(c, "busy")
  /\ UNCHANGED <<cancelled, sem, found>>

\* replyAndCount's write; its error is ignored.
BusyReply(c) ==
  /\ pc[c] = "busy"
  /\ Goto(c, "mark")
  /\ UNCHANGED <<rvars, cancelled, sem, class, found>>

\* Mutant: the classification is set after the reply, where an early return
\* skips it.
RefuseUnclassified(c, k) ==
  /\ SetState(c, "denied")
  /\ Goto(c, "reply")
  /\ UNCHANGED <<cancelled, sem, class, found>>

Refuse(c, k) ==
  /\ Classify(c, k)
  /\ SetState(c, "denied")
  /\ Goto(c, "reply")
  /\ UNCHANGED <<cancelled, sem, found>>

\* The ACL verdict; an explicitly allowed source skips the rate limiter.
CheckAcl(c) ==
  /\ pc[c] = "acl"
  /\ \/ Refuse(c, "denied_acl")
     \/ /\ Goto(c, "rate")
        /\ UNCHANGED <<rvars, cancelled, sem, class, found>>
     \/ /\ SetState(c, "reading")
        /\ Goto(c, "read")
        /\ UNCHANGED <<cancelled, sem, class, found>>

CheckRate(c) ==
  /\ pc[c] = "rate"
  /\ \/ Refuse(c, "denied_rate")
     \/ /\ SetState(c, "reading")
        /\ Goto(c, "read")
        /\ UNCHANGED <<cancelled, sem, class, found>>

\* ReadString returns an error and nothing (deadline, EOF), a blank query, or
\* a query.
Read(c) ==
  /\ pc[c] = "read"
  /\ \/ /\ Classify(c, "error_read")
        /\ Goto(c, "release")
        /\ UNCHANGED rvars
     \/ /\ Classify(c, "empty")
        /\ SetState(c, "done")
        /\ Goto(c, "reply")
     \/ /\ SetState(c, "looking_up")
        /\ Goto(c, "lookup")
        /\ UNCHANGED class
  /\ UNCHANGED <<cancelled, sem, found>>

Lookup(c) ==
  /\ pc[c] = "lookup"
  /\ \E b \in BOOLEAN : found' = [found EXCEPT ![c] = b]
  /\ SetState(c, "writing")
  /\ Goto(c, "write")
  /\ UNCHANGED <<cancelled, sem, class>>

Write(c) ==
  /\ pc[c] = "write"
  /\ \/ /\ Classify(c, "error_write")
        /\ SetState(c, "error")
     \/ /\ Classify(c, IF found[c] THEN "hit" ELSE "miss")
        /\ UNCHANGED rvars
  /\ Goto(c, "release")
  /\ UNCHANGED <<cancelled, sem, found>>

Reply(c) ==
  /\ pc[c] = "reply"
  /\ Goto(c, "release")
  /\ UNCHANGED <<rvars, cancelled, sem, class, found>>

-----------------------------------------------------------------------------
(* The deferred calls *)

\* Mutant: the token is kept when the client was refused.
ReleaseUnlessDenied(c) ==
  /\ pc[c] = "release"
  /\ sem > 0
  /\ sem' = IF state[c] = "denied" THEN sem ELSE sem - 1
  /\ Goto(c, "mark")
  /\ UNCHANGED <<rvars, cancelled, class, found>>

\* Receiving from the channel blocks while it is empty.
Release(c) ==
  /\ pc[c] = "release"
  /\ sem > 0
  /\ sem' = sem - 1
  /\ Goto(c, "mark")
  /\ UNCHANGED <<rvars, cancelled, class, found>>

StatsMark(c) ==
  /\ pc[c] = "mark"
  /\ CloseMark(c)
  /\ Goto(c, "delete")
  /\ UNCHANGED <<cancelled, sem, class, found>>

StatsDelete(c) ==
  /\ pc[c] = "delete"
  /\ CloseDelete(c)
  /\ Goto(c, "count")
  /\ UNCHANGED <<cancelled, sem, class, found>>

\* Mutant: the total is left out of the first step.
StatsCountNoTotal(c) ==
  /\ pc[c] = "count"
  /\ IF class[c] \in Answered
     THEN UNCHANGED rvars /\ Goto(c, "outcome")
     ELSE Add(class[c]) /\ Goto(c, "hangup")
  /\ UNCHANGED <<cancelled, sem, class, found>>

\* A hit or miss adds to queriesTotal and then to its own counter.
StatsCount(c) ==
  /\ pc[c] = "count"
  /\ \/ /\ class[c] \in Answered
        /\ Add("total")
        /\ Goto(c, "outcome")
     \/ /\ class[c] \notin Answered
        /\ Add(class[c])
        /\ Goto(c, "hangup")
  /\ UNCHANGED <<cancelled, sem, class, found>>

StatsOutcome(c) ==
  /\ pc[c] = "outcome"
  /\ Add(class[c])
  /\ Goto(c, "hangup")
  /\ UNCHANGED <<cancelled, sem, class, found>>

\* The query is logged, c.Close, wg.Done.
Hangup(c) ==
  /\ pc[c] = "hangup"
  /\ Goto(c, "done")
  /\ UNCHANGED <<rvars, cancelled, sem, class, found>>

-----------------------------------------------------------------------------
\* All steps of a handler between its start and its end.
HandleStep(c) ==
  \/ OpenConn(c) \/ Acquire(c) \/ SelectCancelled(c) \/ SelectBusy(c) \/ BusyReply(c)
  \/ CheckAcl(c) \/ CheckRate(c) \/ Read(c) \/ Lookup(c) \/ Write(c) \/ Reply(c)
  \/ Release(c) \/ StatsMark(c) \/ StatsDelete(c) \/ StatsCount(c) \/ StatsOutcome(c)

CancelContext ==
  /\ ~cancelled
  /\ cancelled' = TRUE
  /\ UNCHANGED <<rvars, pc, sem, class, found>>

HandlerNext ==
  \/ CancelContext
  \/ \E c \in Conn : Spawn(c) \/ HandleStep(c) \/ Hangup(c)

HandlerSpec == HandlerInit /\ [][HandlerNext]_vars

-----------------------------------------------------------------------------
(* Properties *)

\* The semaphore holds exactly one token per handler in its guarded section:
\* no return path keeps a token or gives one back twice, so the server never
\* ends up refusing everyone as busy nor exceeds max_concurrent.
SemAccounting == sem = Cardinality({c \in Conn : pc[c] \in Working})

\* Handlers that have finished with the registry.
Counted(k) == {c \in Conn : pc[c] \in {"hangup", "done"} /\ class[c] = k}

\* Every connection is counted once, under the outcome its return path chose
\* ("Defer log + stats close so every code path is accounted for").
EveryPathCounted ==
  StatsEnabled =>
    /\ \A k \in Class : counters[k] = Cardinality(Counted(k))
    /\ \A c \in Conn : pc[c] = "done" => class[c] # "" /\ c \notin live

\* queriesTotal is never behind hits and misses.
TotalLeads == counters["total"] >= counters["hit"] + counters["miss"]

\* The state shown on the statistics page and in the log line, which is
\* written after Close, agrees with the result: a connection is shown as denied
\* or failed only if it was refused or its write failed, and one that was
\* answered, empty or not read is logged as done, from wherever it returned.
\* What Close leaves of the two others is not claimed (stats.go:16-20 draws
\* arrows from denied and error to done, stats.go:168-170 does not follow them).
LoggedStateAgrees ==
  StatsEnabled =>
    \A c \in Conn :
      /\ state[c] = "denied" => class[c] \in {"denied_acl", "denied_rate", "denied_busy"}
      /\ state[c] = "error" => class[c] = "error_write"
      /\ pc[c] \in {"hangup", "done"} /\ class[c] \in {"hit", "miss", "empty", "error_read"}
           => state[c] = "done"
=============================================================================
