------------------------------- MODULE MCAcl --------------------------------
(***************************************************************************)
(* The ACL for TLC: 3-bit addresses, of which 01x stand for the mapped     *)
(* IPv4 space, 011 for 127.0.0.0/8 and 001 for ::1.                        *)
(***************************************************************************)
EXTENDS Acl

\* The prefix of length d of the address with these bits.
Bits(x, y, z, d) == Masked(<<x, y, z>>, d)

MCV4 == Bits(0, 1, 0, 2)
MCLoopbackV4 == [addr |-> <<1>>, len |-> 1]
MCLoopback == Bits(0, 0, 1, 3)

\* At most n prefixes.
Few(S, n) == {s \in SUBSET S : Cardinality(s) <= n}

\* Rules of every length, on and around the mapped space.
MCRules == {Bits(0, 0, 0, 0), Bits(0, 0, 0, 1), Bits(0, 1, 0, 2), Bits(0, 1, 0, 3), Bits(0, 1, 1, 3),
            Bits(0, 0, 1, 3)}
MCConfigs == [default : {"allow", "deny"}, allow : Few(MCRules, 1), deny : Few(MCRules, 1),
              bad : BOOLEAN]
=============================================================================
