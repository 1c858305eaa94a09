------------------------------- MODULE Mirror -------------------------------
(***************************************************************************)
(* What the dbase refresh pipeline promises its readers, independent of    *)
(* downloads, caches and parsing: a daemon that serves answers from a      *)
(* non-empty mirror of the published dumps, which is replaced as a whole,  *)
(* never runs ahead of what was published, and never trades a dump it      *)
(* serves for an older one.  A dump may be missing from the mirror (0):    *)
(* a rebuild leaves out a dump whose download failed.                      *)
(***************************************************************************)
EXTENDS Naturals

CONSTANT File

VARIABLES
  published,   \* published[f]: version the registry offers
  served,      \* served[f]: version answered from, 0 when f is not served
  serving      \* the daemon answers queries

vars == <<published, served, serving>>

Empty == [f \in File |-> 0]

Init ==
  /\ published \in [File -> Nat]
  /\ served = Empty
  /\ serving = FALSE

Publish(f) ==
  /\ published' = [published EXCEPT ![f] = @ + 1]
  /\ UNCHANGED <<served, serving>>

\* One atomic replacement of the whole mirror; the first starts the service.
Replace ==
  /\ served' \in [File -> Nat]
  /\ \A f \in File : \/ served'[f] = 0
                     \/ served[f] <= served'[f] /\ served'[f] <= published[f]
  /\ \E f \in File : served'[f] # 0
  /\ serving' = TRUE
  /\ UNCHANGED published

\* The process ends and takes the mirror with it.
Stop ==
  /\ serving' = FALSE
  /\ served' = Empty
  /\ UNCHANGED published

Next == Replace \/ Stop \/ \E f \in File : Publish(f)

Spec == Init /\ [][Next]_vars
=============================================================================
