------------------------------ MODULE Prefixes ------------------------------
(***************************************************************************)
(* W-bit addresses, CIDR prefixes and the node set of a binary radix tree, *)
(* for the object index (netTrie in internal/ripe/store.go), whose ranges  *)
(* need addresses as numbers.  W is 128 in the code.  A tree node is the   *)
(* prefix that leads to it.                                                *)
(***************************************************************************)
EXTENDS Naturals, FiniteSets

CONSTANT
  W,   \* bits of an address
  V4   \* the prefix of mapped IPv4 addresses (::ffff:0:0/96)

\* 2^n, by a recursion that can be reasoned about.
Pow2[n \in 0..W] == IF n = 0 THEN 1 ELSE 2 * Pow2[n - 1]

Address == 0..(Pow2[W] - 1)

\* The prefix of length d that address a is in: its low bits masked off.
Masked(a, d) == [addr |-> a - (a % Pow2[W - d]), len |-> d]
Prefix == {Masked(a, d) : a \in Address, d \in 0..W}

FirstAddr(p) == p.addr
LastAddr(p) == p.addr + Pow2[W - p.len] - 1
Holds(p, a) == FirstAddr(p) <= a /\ a <= LastAddr(p)

ASSUME PrefixesAssumption == W \in Nat \ {0} /\ V4 \in Prefix

-----------------------------------------------------------------------------
(* Insertion walks down from the root and creates the missing nodes; a      *)
(* lookup walks down until a child is missing.                              *)

Root == Masked(0, 0)
Path(p) == {Masked(p.addr, d) : d \in 0..p.len}

\* Depths the walk for a visits, in a tree with these nodes.
Visited(nodes, a) == {d \in 0..W : \A e \in 0..d : Masked(a, e) \in nodes}
=============================================================================
