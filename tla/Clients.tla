------------------------------ MODULE Clients -------------------------------
(***************************************************************************)
(* What the parts of the WHOIS server are about in common: the connections *)
(* that Accept returns and the registry keeps a record of.                 *)
(***************************************************************************)

CONSTANT Conn   \* client connections
=============================================================================
