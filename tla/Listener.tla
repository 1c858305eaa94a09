------------------------------ MODULE Listener ------------------------------
(***************************************************************************)
(* The accept side of the WHOIS server (internal/server/server.go): Run    *)
(* with its accept loop, the shutdown watcher Run starts, and Rebind,      *)
(* which the SIGHUP handler calls to move the listener.  They share ln,    *)
(* bindAddr and closed under listenMu; each step below is one critical     *)
(* section or one system call.  A connection's handler is one step here;   *)
(* module Handler has its detail and module Server joins the two.          *)
(***************************************************************************)
EXTENDS Naturals, FiniteSets, Context

CONSTANTS
  Addr,            \* addresses the configuration may name
  Bind,            \* the address in the configuration main loaded
  MaxListens,      \* bound: sockets opened
  MaxAcceptErrors  \* bound: transient Accept errors

ASSUME ListenerAssumption ==
  /\ Bind \in Addr
  /\ MaxListens \in Nat \ {0}
  /\ MaxAcceptErrors \in Nat

VARIABLES
  opened,      \* sockets opened so far; a socket is a number in 1..opened
  open,        \* sockets that are open
  addrOf,      \* addrOf[l]: the address socket l was bound to
  ln,          \* s.ln, 0 for nil
  bindAddr,    \* s.bindAddr
  closed,      \* s.closed
  runPc,       \* where Run is
  runLn,       \* Run's local ln (or initial)
  watchPc,     \* where the shutdown watcher is
  watchLn,     \* the watcher's local ln
  acceptErrs,  \* transient Accept errors so far
  conn,        \* conn[c]: what became of client c
  via          \* via[c]: the socket c is queued on

\* Auxiliary, for the properties only.
VARIABLE
  overwritten  \* the listener Run replaced when it installed its own, 0 for nil

lvars == <<cancelled, opened, open, addrOf, ln, bindAddr, closed, runPc, runLn,
           watchPc, watchLn, acceptErrs, conn, via, overwritten>>

Socket == 1..MaxListens
nil == 0

\* When Run returns, main exits and nothing else happens.
Live == runPc \notin {"returned", "error"}

ListenerTypeOK ==
  /\ cancelled \in BOOLEAN
  /\ opened \in 0..MaxListens
  /\ open \subseteq 1..opened
  /\ addrOf \in [Socket -> Addr]
  /\ ln \in 0..opened
  /\ bindAddr \in Addr
  /\ closed \in BOOLEAN
  /\ runPc \in {"listen", "install", "loop", "accept", "failed", "failedClosed", "drain", "returned", "error"}
  /\ runLn \in 0..opened
  /\ watchPc \in {"off", "wait", "close", "done"}
  /\ watchLn \in 0..opened
  /\ acceptErrs \in 0..MaxAcceptErrors
  /\ conn \in [Conn -> {"new", "backlog", "handling", "done", "reset", "refused"}]
  /\ via \in [Conn -> 0..opened]
  /\ overwritten \in 0..opened

ListenerInit ==
  /\ cancelled = FALSE
  /\ opened = 0
  /\ open = {}
  /\ addrOf = [l \in Socket |-> Bind]
  /\ ln = nil
  /\ bindAddr = Bind
  /\ closed = FALSE
  /\ runPc = "listen"
  /\ runLn = nil
  /\ watchPc = "off"
  /\ watchLn = nil
  /\ acceptErrs = 0
  /\ conn = [c \in Conn |-> "new"]
  /\ via = [c \in Conn |-> 0]
  /\ overwritten = nil

-----------------------------------------------------------------------------
(* Sockets, as the kernel provides them. *)

\* Mutant: the error of a failed Listen is ignored and its nil listener used.
ListenUnchecked(a) ==
  /\ opened < MaxListens
  /\ UNCHANGED <<opened, addrOf>>

\* Binding fails while the address is taken; it may fail for other reasons.
Listen(a) ==
  /\ opened < MaxListens
  /\ \A l \in open : addrOf[l] # a
  /\ opened' = opened + 1
  /\ addrOf' = [addrOf EXCEPT ![opened'] = a]

\* Closing a socket resets the connections still queued on it.
ResetBacklog(l) ==
  conn' = [c \in Conn |-> IF conn[c] = "backlog" /\ via[c] = l THEN "reset" ELSE conn[c]]

\* A client connects to some address: it is queued there or refused.
Dial(c) ==
  /\ Live
  /\ conn[c] = "new"
  /\ \/ \E l \in open : /\ conn' = [conn EXCEPT ![c] = "backlog"]
                        /\ via' = [via EXCEPT ![c] = l]
     \/ /\ open = {}
        /\ conn' = [conn EXCEPT ![c] = "refused"]
        /\ UNCHANGED via
  /\ UNCHANGED <<cancelled, opened, open, addrOf, ln, bindAddr, closed, runPc, runLn,
                 watchPc, watchLn, acceptErrs, overwritten>>

\* SIGINT or SIGTERM.
Cancel ==
  /\ Live
  /\ ~cancelled
  /\ cancelled' = TRUE
  /\ UNCHANGED <<opened, open, addrOf, ln, bindAddr, closed, runPc, runLn,
                 watchPc, watchLn, acceptErrs, conn, via, overwritten>>

-----------------------------------------------------------------------------
(* Rebind(a), one critical section.  applyReload calls it when the          *)
(* configured address differs from BindAddr.                                *)

\* Mutant: the listener is opened and published but bindAddr keeps its value.
RebindKeepsAddr(a) ==
  /\ Live
  /\ ~closed
  /\ a # bindAddr
  /\ Listen(a)
  /\ ln' = opened'
  /\ open' = (open \cup {opened'}) \ {ln}
  /\ ResetBacklog(ln)
  /\ UNCHANGED <<cancelled, bindAddr, closed, runPc, runLn, watchPc, watchLn, acceptErrs, via, overwritten>>

\* Mutant: the old listener is not closed.
RebindLeaksOld(a) ==
  /\ Live
  /\ ~closed
  /\ a # bindAddr
  /\ Listen(a)
  /\ ln' = opened'
  /\ bindAddr' = a
  /\ open' = open \cup {opened'}
  /\ UNCHANGED <<cancelled, closed, runPc, runLn, watchPc, watchLn, acceptErrs, conn, via, overwritten>>

\* A failed Listen, or a Rebind after shutdown, changes nothing.
Rebind(a) ==
  /\ Live
  /\ ~closed
  /\ a # bindAddr
  /\ Listen(a)
  /\ ln' = opened'
  /\ bindAddr' = a
  /\ open' = (open \cup {opened'}) \ {ln}
  /\ ResetBacklog(ln)
  /\ UNCHANGED <<cancelled, closed, runPc, runLn, watchPc, watchLn, acceptErrs, via, overwritten>>

-----------------------------------------------------------------------------
(* Run *)

RunListen ==
  /\ runPc = "listen"
  /\ \/ /\ Listen(Bind)
        /\ open' = open \cup {opened'}
        /\ runLn' = opened'
        /\ runPc' = "install"
     \/ /\ runPc' = "error"
        /\ UNCHANGED <<opened, addrOf, open, runLn>>
  /\ UNCHANGED <<cancelled, ln, bindAddr, closed, watchPc, watchLn, acceptErrs, conn, via, overwritten>>

\* s.ln is assigned under the lock, whatever it holds, and the watcher started.
RunInstall ==
  /\ runPc = "install"
  /\ ln' = runLn
  /\ overwritten' = ln
  /\ bindAddr' = Bind
  /\ runPc' = "loop"
  /\ watchPc' = "wait"
  /\ UNCHANGED <<cancelled, opened, open, addrOf, closed, runLn, watchLn, acceptErrs, conn, via>>

\* Top of the loop: read s.ln and s.closed under the lock.
RunLoop ==
  /\ runPc = "loop"
  /\ runLn' = ln
  /\ runPc' = IF closed \/ ln = nil THEN "drain" ELSE "accept"
  /\ UNCHANGED <<cancelled, opened, open, addrOf, ln, bindAddr, closed, watchPc, watchLn,
                 acceptErrs, conn, via, overwritten>>

\* Accept returns a connection; wg.Add(1) and the handler starts.
Accept(c) ==
  /\ runPc = "accept"
  /\ runLn \in open
  /\ conn[c] = "backlog" /\ via[c] = runLn
  /\ conn' = [conn EXCEPT ![c] = "handling"]
  /\ runPc' = "loop"
  /\ UNCHANGED <<cancelled, opened, open, addrOf, ln, bindAddr, closed, runLn, watchPc,
                 watchLn, acceptErrs, via, overwritten>>

\* Accept fails: the socket was closed under it, or a transient error.
AcceptFails ==
  /\ runPc = "accept"
  /\ \/ /\ runLn \notin open
        /\ runPc' = "failedClosed"
        /\ UNCHANGED acceptErrs
     \/ /\ runLn \in open
        /\ acceptErrs < MaxAcceptErrors
        /\ acceptErrs' = acceptErrs + 1
        /\ runPc' = "failed"
  /\ UNCHANGED <<cancelled, opened, open, addrOf, ln, bindAddr, closed, runLn, watchPc,
                 watchLn, conn, via, overwritten>>

\* Mutant: the accept loop does not ask whether a Rebind happened.
RunFailedIgnoresRotation ==
  /\ runPc \in {"failed", "failedClosed"}
  /\ runPc' = IF closed \/ cancelled \/ runPc = "failedClosed" THEN "drain" ELSE "loop"
  /\ UNCHANGED <<cancelled, opened, open, addrOf, ln, bindAddr, closed, runLn, watchPc,
                 watchLn, acceptErrs, conn, via, overwritten>>

\* Read s.closed and s.ln under the lock and decide: shutting down, moved to
\* a new listener, closed for no known reason, or a transient error.
RunFailed ==
  /\ runPc \in {"failed", "failedClosed"}
  /\ LET rotated == ln # runLn
     IN  runPc' = IF closed \/ cancelled \/ (~rotated /\ runPc = "failedClosed")
                  THEN "drain" ELSE "loop"
  /\ UNCHANGED <<cancelled, opened, open, addrOf, ln, bindAddr, closed, runLn, watchPc,
                 watchLn, acceptErrs, conn, via, overwritten>>

\* wg.Wait
RunDrain ==
  /\ runPc = "drain"
  /\ \A c \in Conn : conn[c] # "handling"
  /\ runPc' = "returned"
  /\ UNCHANGED <<cancelled, opened, open, addrOf, ln, bindAddr, closed, runLn, watchPc,
                 watchLn, acceptErrs, conn, via, overwritten>>

\* A handler ends: wg.Done.
HandlerDone(c) ==
  /\ conn[c] = "handling"
  /\ conn' = [conn EXCEPT ![c] = "done"]
  /\ UNCHANGED <<cancelled, opened, open, addrOf, ln, bindAddr, closed, runPc, runLn,
                 watchPc, watchLn, acceptErrs, via, overwritten>>

-----------------------------------------------------------------------------
(* The shutdown watcher *)

\* Mutant: the watcher takes the listener before it sets closed, in two
\* critical sections, and closes it in between.
WatchTakeNotClosed ==
  /\ Live
  /\ watchPc = "wait"
  /\ cancelled
  /\ watchLn' = ln
  /\ watchPc' = "close"
  /\ UNCHANGED <<cancelled, opened, open, addrOf, ln, bindAddr, closed, runPc, runLn,
                 acceptErrs, conn, via, overwritten>>

WatchTake ==
  /\ Live
  /\ watchPc = "wait"
  /\ cancelled
  /\ closed' = TRUE
  /\ watchLn' = ln
  /\ ln' = nil
  /\ watchPc' = "close"
  /\ UNCHANGED <<cancelled, opened, open, addrOf, bindAddr, runPc, runLn, acceptErrs, conn, via, overwritten>>

WatchClose ==
  /\ Live
  /\ watchPc = "close"
  /\ open' = open \ {watchLn}
  /\ ResetBacklog(watchLn)
  /\ watchPc' = "done"
  /\ UNCHANGED <<cancelled, opened, addrOf, ln, bindAddr, closed, runPc, runLn, watchLn,
                 acceptErrs, via, overwritten>>

-----------------------------------------------------------------------------
RunStep ==
  \/ RunListen \/ RunInstall \/ RunLoop \/ AcceptFails \/ RunFailed \/ RunDrain
  \/ \E c \in Conn : Accept(c)
WatchStep == WatchTake \/ WatchClose

ListenerNext ==
  \/ RunStep \/ WatchStep \/ Cancel
  \/ \E a \in Addr : Rebind(a)
  \/ \E c \in Conn : Dial(c) \/ HandlerDone(c)

ListenerSpec == ListenerInit /\ [][ListenerNext]_lvars

\* The goroutines run, and a handler ends: its reads and writes have deadlines.
ListenerFairness ==
  /\ WF_lvars(RunStep) /\ WF_lvars(WatchStep)
  /\ \A c \in Conn : WF_lvars(HandlerDone(c))

ListenerFairSpec == ListenerSpec /\ ListenerFairness

-----------------------------------------------------------------------------
(* Properties *)

\* Run returns without an error only for a shutdown: no interleaving of
\* Rebind, Accept errors and the loop makes it take a moved listener for a
\* closed one ("Run blocks until ctx is cancelled").
RunReturnsOnlyOnShutdown == runPc \in {"drain", "returned"} => cancelled

\* "New connections only ever land on the new listener" (server.go:109-110):
\* an open socket is the one the accept loop will use next, the one Run is
\* about to install, or the one the watcher is about to close.
NoOrphanListener ==
  open \subseteq {ln} \cup (IF watchPc = "close" THEN {watchLn} ELSE {})
                      \cup (IF runPc = "install" THEN {runLn} ELSE {})

\* The only socket left open that nobody accepts from and nobody closes is the
\* one that a Rebind opened before Run installed its listener over it: no
\* later Rebind, shutdown or Accept error leaves another.
OrphansAreOverwritten ==
  open \subseteq {ln, overwritten} \cup (IF watchPc = "close" THEN {watchLn} ELSE {})
                                   \cup (IF runPc = "install" THEN {runLn} ELSE {})

\* What BindAddr reports is where new connections are accepted.
BindAddrIsServed == ln # nil => ln \in open /\ addrOf[ln] = bindAddr

\* A shutdown request ends Run.
ShutdownReturns == cancelled ~> ~Live

\* A client in the accept queue is accepted, or reset when its socket closes;
\* the only socket on which it waits in vain is the one Run overwrote.
QueuedIsServed ==
  \A c \in Conn :
    conn[c] = "backlog" ~> (conn[c] # "backlog" \/ via[c] = overwritten \/ ~Live)
=============================================================================
