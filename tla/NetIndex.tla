------------------------------ MODULE NetIndex ------------------------------
(***************************************************************************)
(* netTrie and rangeToCIDRs (internal/ripe/store.go).  A trie is a         *)
(* function from its nodes to the objects appended at them; insert creates *)
(* the path to a prefix, lookup collects the objects on the way down.      *)
(***************************************************************************)
EXTENDS Prefixes, SequencesExt

\* Address bits of a family.
BitLen(family) == IF family = "4" THEN W - V4.len ELSE W

-----------------------------------------------------------------------------
(* rangeToCIDRs *)

\* The largest k up to bitLen such that the low k bits of a are zero.
trailingZeros(a, bitLen) ==
  CHOOSE k \in 0..bitLen : a % Pow2[k] = 0 /\ (k = bitLen \/ a % Pow2[k + 1] # 0)

\* a with its low bits set (a is aligned to size bits here).
addrPlusMask(a, size) == a + Pow2[size] - 1

\* Mutant: the block size is not reduced to fit the end of the range.
BlockSizeTooBig(cur, end, bitLen) == trailingZeros(cur, bitLen)

\* Size of the largest aligned block that starts at cur and does not extend
\* past end.
BlockSize(cur, end, bitLen) ==
  LET most == trailingZeros(cur, bitLen)
  IN  CHOOSE s \in 0..most :
        /\ s = 0 \/ addrPlusMask(cur, s) <= end
        /\ \A r \in (s + 1)..most : addrPlusMask(cur, r) > end

\* The loop, from cur on: one block, and the rest unless the block reaches
\* the end of the range.
rangeToCIDRs(start, end, bitLen) ==
  LET from[cur \in 0..Pow2[W]] ==
        IF cur > end THEN <<>>
        ELSE LET size == BlockSize(cur, end, bitLen)
                 last == addrPlusMask(cur, size)
             IN  <<[addr |-> cur, len |-> W - size]>>
                 \o (IF last >= end THEN <<>> ELSE from[last + 1])
  IN  from[start]

-----------------------------------------------------------------------------
(* netTrie *)

newNetTrie == [q \in {Root} |-> <<>>]

ObjsAt(t, q) == IF q \in DOMAIN t THEN t[q] ELSE <<>>

insert(t, p, obj) ==
  LET at == Masked(p.addr, p.len)
  IN  [q \in DOMAIN t \cup Path(at) |-> IF q = at THEN Append(ObjsAt(t, q), obj) ELSE ObjsAt(t, q)]

\* Mutant: the objects filed at the root are left out.
lookupSkipsRoot(t, a) == FlattenSeq([d \in 1..Max(Visited(DOMAIN t, a)) |-> t[Masked(a, d)]])

\* The objects at the nodes the walk for a visits, from the root down.
lookup(t, a) == FlattenSeq([d \in 1..(Max(Visited(DOMAIN t, a)) + 1) |-> t[Masked(a, d - 1)]])

-----------------------------------------------------------------------------
(* The reference for the decomposition: the maximal blocks inside a range. *)

MaximalBlocks(lo, hi) ==
  LET inside == {p \in Prefix : lo <= FirstAddr(p) /\ LastAddr(p) <= hi}
  IN  {p \in inside : \A q \in inside : Holds(q, FirstAddr(p)) => p.len <= q.len}
=============================================================================
