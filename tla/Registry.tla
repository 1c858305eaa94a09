------------------------------ MODULE Registry ------------------------------
(***************************************************************************)
(* stats.Registry and stats.Conn (internal/stats/stats.go): the live set,  *)
(* each connection's state and the outcome counters.  Close is not atomic: *)
(* it marks the connection, leaves the live set and counts under separate  *)
(* locks or atomics, so it is given as one operation per critical section  *)
(* for the handler to call in order.  With stats disabled (a nil registry) *)
(* every operation does nothing.  Byte totals and the QPS ring are left    *)
(* out.                                                                    *)
(***************************************************************************)
EXTENDS Naturals, FiniteSets, Clients

CONSTANT StatsEnabled   \* cfg.Stats.Enabled

ASSUME RegistryAssumption ==
  /\ IsFiniteSet(Conn)
  /\ StatsEnabled \in BOOLEAN

VARIABLES
  live,      \* r.conns
  state,     \* state[c]: Conn.state
  counters   \* counters[k]: r.totals, "total" being queriesTotal

rvars == <<live, state, counters>>

State == {"new", "reading", "looking_up", "writing", "denied", "error", "done"}
Class == {"hit", "miss", "empty", "denied_acl", "denied_rate", "denied_busy",
          "error_read", "error_write"}
Answered == {"hit", "miss"}

RegistryTypeOK ==
  /\ live \subseteq Conn
  /\ state \in [Conn -> State]
  /\ counters \in [Class \cup {"total"} -> Nat]

RegistryInit ==
  /\ live = {}
  /\ state = [c \in Conn |-> "new"]
  /\ counters = [k \in Class \cup {"total"} |-> 0]

Open(c) ==
  /\ live' = IF StatsEnabled THEN live \cup {c} ELSE live
  /\ UNCHANGED <<state, counters>>

\* Conn.SetState, and SetError with s = "error"
SetState(c, s) ==
  /\ state' = IF StatsEnabled THEN [state EXCEPT ![c] = s] ELSE state
  /\ UNCHANGED <<live, counters>>

\* Mutant: only a connection whose reply was written is marked done.
CloseMarkWritten(c) ==
  SetState(c, IF state[c] = "writing" THEN "done" ELSE state[c])

\* Close, first critical section: error and denied stay as they are.
CloseMark(c) ==
  SetState(c, IF state[c] \in {"error", "denied"} THEN state[c] ELSE "done")

CloseDelete(c) ==
  /\ live' = live \ {c}
  /\ UNCHANGED <<state, counters>>

\* The switch on the classification: one atomic increment, none for "".
Add(k) ==
  /\ counters' = [j \in DOMAIN counters |->
                    IF StatsEnabled /\ j = k THEN counters[j] + 1 ELSE counters[j]]
  /\ UNCHANGED <<live, state>>
=============================================================================
