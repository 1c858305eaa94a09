---------------------------- MODULE TokenBucket -----------------------------
(***************************************************************************)
(* What the rate limiter promises: every client network has a bucket of    *)
(* Burst tokens that refills at Rate tokens per tick and is never reset; a *)
(* query is let through exactly when a token is left.                      *)
(***************************************************************************)
EXTENDS Naturals

CONSTANTS Key, Burst, Rate

VARIABLES
  tokens,    \* tokens[k]: tokens left for network k
  verdict    \* the last decision: [key, ok], or "none"

vars == <<tokens, verdict>>

Fill(n) == IF n > Burst THEN Burst ELSE n

Init ==
  /\ tokens = [k \in Key |-> Burst]
  /\ verdict = [key |-> "none", ok |-> TRUE]

Tick ==
  /\ tokens' = [k \in Key |-> Fill(tokens[k] + Rate)]
  /\ UNCHANGED verdict

Admit(k) ==
  /\ tokens[k] >= 1
  /\ tokens' = [tokens EXCEPT ![k] = @ - 1]
  /\ verdict' = [key |-> k, ok |-> TRUE]

Refuse(k) ==
  /\ tokens[k] < 1
  /\ verdict' = [key |-> k, ok |-> FALSE]
  /\ UNCHANGED tokens

Next == Tick \/ \E k \in Key : Admit(k) \/ Refuse(k)

Spec == Init /\ [][Next]_vars
=============================================================================
