------------------------------ MODULE Context -------------------------------
(***************************************************************************)
(* The context that main passes to Run and Run to every handler            *)
(* (internal/server/server.go): the accept side and the handlers see the   *)
(* same cancellation.                                                      *)
(***************************************************************************)
EXTENDS Clients

VARIABLE cancelled   \* the context was cancelled (SIGINT, SIGTERM)
=============================================================================
