------------------------------- MODULE Server -------------------------------
(***************************************************************************)
(* The WHOIS server as a whole (internal/server/server.go): the accept     *)
(* side of module Listener and the handlers of module Handler.  Accepting  *)
(* a connection starts its handler, the end of the handler is the wg.Done  *)
(* that Run waits for at shutdown, and both sides see the same context.    *)
(***************************************************************************)
EXTENDS Handler, Listener

accept == <<opened, open, addrOf, ln, bindAddr, closed, runPc, runLn,
            watchPc, watchLn, acceptErrs, conn, via, overwritten>>
svars  == <<vars, accept>>

Init == HandlerInit /\ ListenerInit

\* Accept returns and the goroutine is started.
AcceptAndSpawn(c) ==
  /\ Accept(c)
  /\ pc' = [pc EXCEPT ![c] = "open"]
  /\ UNCHANGED <<rvars, sem, class, found>>

\* The accept side moves alone.
ListenerStep ==
  /\ \/ RunListen \/ RunInstall \/ RunLoop \/ AcceptFails \/ RunFailed \/ RunDrain
     \/ WatchStep \/ Cancel
     \/ \E a \in Addr : Rebind(a)
     \/ \E c \in Conn : Dial(c)
  /\ UNCHANGED <<rvars, pc, sem, class, found>>

\* A handler moves alone, while the process is up.
ServeStep(c) ==
  /\ Live
  /\ HandleStep(c)
  /\ UNCHANGED accept

\* Mutant: wg.Done before the deferred stats close.
FinishEarly(c) ==
  /\ HandlerDone(c)
  /\ pc[c] \in Closing
  /\ UNCHANGED <<rvars, pc, sem, class, found>>

\* A handler returns: c.Close and wg.Done.
Finish(c) ==
  /\ HandlerDone(c)
  /\ Hangup(c)

Next ==
  \/ ListenerStep
  \/ \E c \in Conn : AcceptAndSpawn(c) \/ ServeStep(c) \/ Finish(c)

Spec == Init /\ [][Next]_svars

Fairness ==
  /\ WF_svars(ListenerStep /\ (RunStep \/ WatchStep))
  /\ \A c \in Conn : WF_svars(AcceptAndSpawn(c) \/ ServeStep(c) \/ Finish(c))

FairSpec == Spec /\ Fairness

-----------------------------------------------------------------------------
(* Properties *)

\* When Run returns, every accepted connection has been answered or refused,
\* counted once and taken off the live set, and the semaphore is empty
\* (docs/whoisd.8: SIGTERM "waits for in-flight queries to finish").
DrainedAndCounted ==
  runPc = "returned" =>
    /\ \A c \in Conn : pc[c] \in {"idle", "done"}
    /\ live = {}
    /\ sem = 0
    /\ \A k \in Class : StatsEnabled => counters[k] = Cardinality(Counted(k))

\* A shutdown request ends Run however many queries are in flight.
ShutdownEnds == cancelled ~> ~Live
=============================================================================
