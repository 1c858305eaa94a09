----------------------------- MODULE AclProofs ------------------------------
(***************************************************************************)
(* Proofs for module Acl: the radix tree that requests are matched against *)
(* decides every address as the policy of its configuration does, for any  *)
(* width of the addresses and any configurations.                          *)
(***************************************************************************)
EXTENDS Acl, WellFoundedInduction, TLAPS

\* An address has at least one bit.
LEMMA WidthIsNat == W \in Nat /\ W >= 1
BY AclAssumption DEF AclAssumption

-----------------------------------------------------------------------------
(* Prefixes *)

\* Masking an address gives a prefix.
LEMMA MaskedIsPrefix ==
  ASSUME NEW a \in Address, NEW d \in 0..W
  PROVE  Masked(a, d) \in Prefix /\ Masked(a, d).len = d
<1>1. Masked(a, d) \in Prefix
  BY DEF Prefix
<1>2. Masked(a, d).len = d
  BY DEF Masked
<1>3. QED
  BY <1>1, <1>2

\* A prefix is an address and a length, and masking it again changes nothing.
LEMMA PrefixShape ==
  ASSUME NEW p \in Prefix
  PROVE  p.addr \in Address /\ p.len \in 0..W /\ p = Masked(p.addr, p.len)
<1>1. PICK a \in Address, d \in 0..W : p = Masked(a, d)
  BY DEF Prefix
<1>2. p.len = d /\ p.addr = [i \in 1..W |-> IF i <= d THEN a[i] ELSE 0]
  BY <1>1 DEF Masked
<1>3. p.addr \in Address
  BY <1>2 DEF Address, Bit
<1>4. [i \in 1..W |-> IF i <= d THEN p.addr[i] ELSE 0] = p.addr
  BY <1>2
<1>5. QED
  BY <1>1, <1>2, <1>3, <1>4 DEF Masked

\* The prefix that holds an address is the address cut to the prefix's length.
LEMMA HoldsIsMasked ==
  ASSUME NEW p \in Prefix, NEW a \in Address
  PROVE  Holds(p, a) <=> p = Masked(a, p.len)
<1>1. PICK b \in Address, d \in 0..W : p = Masked(b, d)
  BY DEF Prefix
<1>2. p.len = d /\ p.addr = [i \in 1..W |-> IF i <= d THEN b[i] ELSE 0]
  BY <1>1 DEF Masked
<1>3. ASSUME Holds(p, a) PROVE p = Masked(a, p.len)
  <2>1. \A i \in 1..d : a[i] = b[i]
    BY <1>2, <1>3, WidthIsNat DEF Holds
  <2>2. [i \in 1..W |-> IF i <= d THEN a[i] ELSE 0] = [i \in 1..W |-> IF i <= d THEN b[i] ELSE 0]
    BY <2>1, WidthIsNat
  <2>3. QED
    BY <1>1, <1>2, <2>2 DEF Masked
<1>4. ASSUME p = Masked(a, p.len) PROVE Holds(p, a)
  <2>1. p.addr = [i \in 1..W |-> IF i <= d THEN a[i] ELSE 0]
    BY <1>2, <1>4 DEF Masked
  <2>2. QED
    BY <1>2, <2>1, WidthIsNat DEF Holds
<1>5. QED
  BY <1>3, <1>4

\* The nodes above a prefix that holds an address are on the address's walk.
LEMMA PathIsWalk ==
  ASSUME NEW a \in Address, NEW d \in 0..W, NEW e \in 0..d
  PROVE  Masked(a, e) \in Path(Masked(a, d))
<1> DEFINE m == [i \in 1..W |-> IF i <= d THEN a[i] ELSE 0]
<1>1. Masked(a, d).len = d /\ Masked(a, d).addr = m
  BY DEF Masked
<1>2. [i \in 1..W |-> IF i <= e THEN m[i] ELSE 0] = [i \in 1..W |-> IF i <= e THEN a[i] ELSE 0]
  BY WidthIsNat
<1>3. Masked(m, e) = Masked(a, e)
  BY <1>2 DEF Masked
<1>4. QED
  BY <1>1, <1>3 DEF Path

\* The two loopback prefixes.
LEMMA LoopbackIsPrefix ==
  ASSUME NEW c PROVE Rules(c, "loopback") \subseteq Prefix
<1> DEFINE b == [i \in 1..W |-> IF i <= V4.len THEN V4.addr[i] ELSE LoopbackV4.addr[i - V4.len]]
<1>1. V4.addr \in Address /\ V4.len \in 0..W
  BY AclAssumption, PrefixShape DEF AclAssumption
<1>2. LoopbackV4.addr \in [1..(W - V4.len) -> Bit] /\ LoopbackV4.len \in 0..(W - V4.len)
  BY AclAssumption DEF AclAssumption
<1>3. b \in Address
  BY <1>1, <1>2, WidthIsNat DEF Address
<1>4. V4.len + LoopbackV4.len \in 0..W
  BY <1>1, <1>2, WidthIsNat
<1>5. Mapped(LoopbackV4) \in Prefix
  BY <1>3, <1>4, MaskedIsPrefix DEF Mapped
<1>6. QED
  BY <1>5, AclAssumption DEF Rules, AclAssumption

\* The three lists, mapped loopback included, hold prefixes.
LEMMA RulesArePrefixes ==
  ASSUME NEW c \in Configs, NEW s \in Lists
  PROVE  Rules(c, s) \subseteq Prefix
BY LoopbackIsPrefix, AclAssumption DEF AclAssumption, Rules, Lists

-----------------------------------------------------------------------------
(* What a tree holds *)

Verdict == {"none", "allow", "deny"}
Tree == [nodes : SUBSET Prefix, action : [Prefix -> Verdict], default : {"allow", "deny"}]

\* The tree t holds the allow rules A and the deny rules D, and nothing else:
\* each rule's node has its action and can be reached from the root.
Built(t, A, D) ==
  /\ t \in Tree
  /\ \A p \in Prefix :
       t.action[p] = IF p \in D THEN "deny" ELSE IF p \in A THEN "allow" ELSE "none"
  /\ \A p \in A \cup D : Path(p) \subseteq t.nodes

\* The nodes that Insert creates are prefixes.
LEMMA PathIsPrefixes ==
  ASSUME NEW p \in Prefix PROVE Path(p) \subseteq Prefix
BY PrefixShape, MaskedIsPrefix, WidthIsNat DEF Path

\* An empty tree is built from no rules.
LEMMA NewIsBuilt ==
  ASSUME NEW c, c.default \in {"allow", "deny"}
  PROVE  Built(NewTree(c), {}, {}) /\ NewTree(c).default = c.default
<1>1. Root \in Prefix
  BY MaskedIsPrefix, WidthIsNat DEF Root, Address, Bit
<1>2. QED
  BY <1>1 DEF NewTree, Built, Tree, Verdict

\* A set of natural numbers that is bounded and not empty has a maximum.
LEMMA HasMax ==
  ASSUME NEW S \in SUBSET (0..W), S # {}
  PROVE  \E m \in S : \A e \in S : e <= m
<1> DEFINE T == {n \in Nat : W - n \in S}
<1>1. T # {}
  <2>1. PICK d \in S : TRUE
    OBVIOUS
  <2>2. W - d \in Nat /\ W - (W - d) = d
    BY WidthIsNat
  <2>3. W - d \in T
    BY <2>1, <2>2
  <2>4. QED
    BY <2>3
<1>2. PICK x \in T : \A y \in T : ~(<<y, x>> \in OpToRel(<, Nat))
  BY <1>1, NatLessThanWellFounded, WFMin
<1>3. ASSUME NEW y \in T PROVE x <= y
  <2>1. x \in Nat /\ y \in Nat
    OBVIOUS
  <2>2. ~(y < x)
    BY <1>2, <2>1 DEF OpToRel
  <2>3. QED
    BY <2>1, <2>2
<1>4. ASSUME NEW e \in S PROVE e <= W - x
  <2>1. W - e \in Nat /\ W - (W - e) = e
    BY WidthIsNat
  <2>2. W - e \in T
    BY <2>1
  <2>3. x <= W - e /\ x \in Nat
    BY <2>2, <1>3
  <2>4. QED
    BY <2>1, <2>3, WidthIsNat
<1>5. QED
  BY <1>4

-----------------------------------------------------------------------------
(***************************************************************************)
(* A tree that holds exactly the rules of a configuration decides as the   *)
(* configuration's policy does.                                            *)
(***************************************************************************)

\* The walk meets exactly the rules that hold the address.
LEMMA HitsAreRules ==
  ASSUME NEW t, NEW A \in SUBSET Prefix, NEW D \in SUBSET Prefix, Built(t, A, D),
         NEW a \in Address
  PROVE  Hits(t, a) = {d \in 0..W : Masked(a, d) \in A \cup D}
<1>1. ASSUME NEW d \in 0..W
      PROVE  d \in Hits(t, a) <=> Masked(a, d) \in A \cup D
  <2>1. Masked(a, d) \in Prefix
    BY MaskedIsPrefix
  <2>2. t.action[Masked(a, d)] # "none" <=> Masked(a, d) \in A \cup D
    BY <2>1 DEF Built
  <2>3. ASSUME Masked(a, d) \in A \cup D PROVE d \in Visited(t.nodes, a)
    <3>1. Path(Masked(a, d)) \subseteq t.nodes
      BY <2>3 DEF Built
    <3>2. \A e \in 0..d : Masked(a, e) \in t.nodes
      BY <3>1, PathIsWalk
    <3>3. QED
      BY <3>2 DEF Visited
  <2>4. QED
    BY <2>2, <2>3 DEF Hits
<1>2. Hits(t, a) \subseteq 0..W
  BY DEF Hits, Visited
<1>3. QED
  BY <1>1, <1>2

\* A tree that was built from all lists of a configuration decides every
\* address as its policy does.
LEMMA TreeIsPolicy ==
  ASSUME NEW c \in Configs, NEW t, t.default = c.default,
         Built(t, c.allow \cup Rules(c, "loopback"), c.deny), NEW a \in Address
  PROVE  MatchExplicit(t, a) = Policy(c, a)
<1> DEFINE A == c.allow \cup Rules(c, "loopback")
           D == c.deny
           H == {d \in 0..W : Masked(a, d) \in A \cup D}
           allows == {p \in A : Holds(p, a)}
           denies == {p \in D : Holds(p, a)}
           longest == {p \in allows \cup denies : \A q \in allows \cup denies : q.len <= p.len}
<1>1. A \subseteq Prefix /\ D \subseteq Prefix
  BY LoopbackIsPrefix, AclAssumption DEF AclAssumption
<1>2. Hits(t, a) = H
  BY <1>1, HitsAreRules
<1>3. \A p \in A \cup D : Holds(p, a) <=> p = Masked(a, p.len)
  BY <1>1, HoldsIsMasked
<1>4. \A p \in A \cup D : p.len \in 0..W
  BY <1>1, PrefixShape
<1>5. \A d \in 0..W : Masked(a, d).len = d
  BY MaskedIsPrefix
<1>6. Policy(c, a) = IF longest = {} THEN <<c.default, FALSE>>
                     ELSE <<IF longest \cap denies # {} THEN "deny" ELSE "allow", TRUE>>
  BY DEF Policy
<1> HIDE DEF A, D
<1>7. CASE H = {}
  <2>1. allows \cup denies = {}
    BY <1>3, <1>4, <1>7
  <2>2. longest = {}
    BY <2>1
  <2>3. QED
    BY <1>2, <1>6, <1>7, <2>2 DEF MatchExplicit
<1>8. CASE H # {}
  <2>1. PICK m \in H : \A e \in H : e <= m
    BY <1>8, HasMax
  <2> DEFINE r == Masked(a, m)
  <2>2. r \in A \cup D /\ r.len = m /\ Holds(r, a)
    BY <2>1, <1>3, <1>5
  <2>3. \A q \in allows \cup denies : q.len \in H /\ q = Masked(a, q.len)
    BY <1>3, <1>4
  <2>4. longest = {r}
    <3>1. r \in longest
      BY <2>1, <2>2, <2>3
    <3>2. \A q \in longest : q.len \in 0..W /\ q.len <= m /\ m <= q.len
      BY <2>1, <2>2, <2>3
    <3>3. \A q \in longest : q.len = m
      BY <3>2
    <3>4. QED
      BY <2>3, <3>1, <3>3
  <2>5. longest \cap denies # {} <=> r \in D
    BY <2>2, <2>4
  <2>6. (CHOOSE d \in H : \A e \in H : e <= d) = m
    <3>1. \A d \in H : (\A e \in H : e <= d) => d = m
      BY <2>1
    <3>2. QED
      BY <2>1, <3>1
  <2>7. Best(t, a) = t.action[r]
    BY <1>2, <2>6 DEF Best
  <2>8. t.action[r] = IF r \in D THEN "deny" ELSE "allow"
    BY <2>2, <1>1 DEF Built, A, D
  <2>9. MatchExplicit(t, a) = <<t.action[r], TRUE>>
    BY <1>2, <1>8, <2>7 DEF MatchExplicit
  <2>10. QED
    BY <1>6, <2>4, <2>5, <2>8, <2>9
<1>9. QED
  BY <1>7, <1>8
-----------------------------------------------------------------------------
(***************************************************************************)
(* The inductive invariant: the tree under construction holds the lists    *)
(* inserted so far, less what is still to do of the present one; the       *)
(* active tree holds all the rules of the configuration it was built from. *)
(***************************************************************************)
Allowed ==
  CASE stage = "loopback" -> Rules(cfg, "loopback") \ todo
    [] stage = "allow"    -> Rules(cfg, "loopback") \cup (cfg.allow \ todo)
    [] stage = "deny"     -> Rules(cfg, "loopback") \cup cfg.allow

Denied == IF stage = "deny" THEN cfg.deny \ todo ELSE {}

Building ==
  stage \in Lists =>
    /\ todo \subseteq Rules(cfg, stage)
    /\ tree.default = cfg.default
    /\ Built(tree, Allowed, Denied)

Serving ==
  active # NoTree =>
    /\ active.default = source.default
    /\ Built(active, source.allow \cup Rules(source, "loopback"), source.deny)

IndInv ==
  /\ cfg \in Configs /\ source \in Configs
  /\ Building
  /\ Serving

Inserted(t, p, v) == [t EXCEPT !.nodes = @ \cup Path(p), !.action[p] = v]

\* Inserting a prefix makes it an allow rule or a deny rule of the tree.
LEMMA InsertBuilds ==
  ASSUME NEW t, NEW A \in SUBSET Prefix, NEW D \in SUBSET Prefix, Built(t, A, D),
         NEW p \in Prefix, NEW v \in {"allow", "deny"}
  PROVE  /\ Inserted(t, p, v).default = t.default
         /\ v = "deny" => Built(Inserted(t, p, v), A, D \cup {p})
         /\ v = "allow" /\ p \notin D => Built(Inserted(t, p, v), A \cup {p}, D)
<1> DEFINE s == Inserted(t, p, v)
<1>1. /\ t.nodes \in SUBSET Prefix /\ t.action \in [Prefix -> Verdict]
      /\ t.default \in {"allow", "deny"}
  BY DEF Built, Tree
<1>a. s = [t EXCEPT !.nodes = @ \cup Path(p), !.action[p] = v]
  BY DEF Inserted
<1> HIDE DEF s
<1>2. s = [nodes |-> t.nodes \cup Path(p), action |-> [t.action EXCEPT ![p] = v],
           default |-> t.default]
  BY <1>a DEF Built, Tree
<1>3. s.nodes = t.nodes \cup Path(p) /\ s.action = [t.action EXCEPT ![p] = v]
      /\ s.default = t.default
  BY <1>2
<1>4. s \in Tree
  BY <1>1, <1>2, PathIsPrefixes DEF Tree, Verdict
<1>5. \A q \in Prefix : s.action[q] = IF q = p THEN v ELSE t.action[q]
  BY <1>1, <1>3
<1>6. \A q \in Prefix :
        t.action[q] = IF q \in D THEN "deny" ELSE IF q \in A THEN "allow" ELSE "none"
  BY DEF Built
<1>7. \A q \in A \cup D \cup {p} : Path(q) \subseteq s.nodes
  BY <1>3 DEF Built
<1>8. QED
  BY <1>3, <1>4, <1>5, <1>6, <1>7 DEF Built, s

\* A build starts with nothing inserted.
LEMMA StartBuilds ==
  ASSUME NEW c \in Configs
  PROVE  Built(NewTree(c), Rules(c, "loopback") \ Rules(c, "loopback"), {})
         /\ NewTree(c).default = c.default
<1>1. c.default \in {"allow", "deny"}
  BY AclAssumption DEF AclAssumption
<1>2. Rules(c, "loopback") \ Rules(c, "loopback") = {}
  OBVIOUS
<1>3. QED
  BY <1>1, <1>2, NewIsBuilt

\* The first build starts with an empty tree.
LEMMA InitInv == Init => IndInv
<1> SUFFICES ASSUME Init PROVE IndInv
  OBVIOUS
<1>1. cfg \in Configs /\ source \in Configs /\ Serving
  BY DEF Init, Serving
<1>2. Building
  BY <1>1, StartBuilds DEF Init, Building, Allowed, Denied, Lists
<1>3. QED
  BY <1>1, <1>2 DEF IndInv

\* Inserting, changing lists, failing and installing keep the trees what they
\* should be.
LEMMA InvStep == IndInv /\ [Next]_vars => IndInv'
<1> SUFFICES ASSUME IndInv, [Next]_vars PROVE IndInv'
  OBVIOUS
<1>0. cfg \in Configs /\ source \in Configs /\ Building /\ Serving
  BY DEF IndInv
<1>1. ASSUME NEW c \in Configs, StartBuild(c) PROVE IndInv'
  <2>1. Serving'
    BY <1>0, <1>1 DEF StartBuild, Serving
  <2>2. Building'
    BY <1>1, StartBuilds DEF StartBuild, Building, Allowed, Denied, Lists
  <2>3. QED
    BY <1>0, <1>1, <2>1, <2>2 DEF IndInv, StartBuild
<1>2. ASSUME NEW p \in todo, Insert(p) PROVE IndInv'
  <2>1. Serving' /\ cfg' = cfg /\ source' = source /\ stage' = stage /\ todo' = todo \ {p}
    BY <1>0, <1>2 DEF Insert, Serving
  <2>2. ASSUME stage \in Lists
        PROVE  todo' \subseteq Rules(cfg, stage) /\ tree'.default = cfg.default
               /\ Built(tree', Allowed', Denied')
    <3>1. /\ todo \subseteq Rules(cfg, stage) /\ tree.default = cfg.default
          /\ Built(tree, Allowed, Denied)
      BY <1>0, <2>2 DEF Building
    <3>2. p \in Prefix /\ p \in Rules(cfg, stage)
      BY <1>0, <1>2, <2>2, <3>1, RulesArePrefixes
    <3>3. Rules(cfg, "loopback") \subseteq Prefix /\ cfg.allow \subseteq Prefix
          /\ cfg.deny \subseteq Prefix
      BY <1>0, LoopbackIsPrefix, AclAssumption DEF AclAssumption
    <3>4. Allowed \in SUBSET Prefix /\ Denied \in SUBSET Prefix
      BY <2>2, <3>3 DEF Allowed, Denied, Lists
    <3>5. tree' = Inserted(tree, p, ActionOf(stage))
      BY <1>2 DEF Insert, Inserted
    <3>6. ActionOf(stage) \in {"allow", "deny"}
      BY DEF ActionOf
    <3>7. /\ tree'.default = tree.default
          /\ ActionOf(stage) = "deny" => Built(tree', Allowed, Denied \cup {p})
          /\ ActionOf(stage) = "allow" /\ p \notin Denied => Built(tree', Allowed \cup {p}, Denied)
      BY <3>1, <3>2, <3>4, <3>5, <3>6, InsertBuilds
    <3>8. CASE stage = "deny"
      <4>1. Allowed' = Allowed /\ Denied' = Denied \cup {p}
        BY <1>2, <2>1, <3>2, <3>8 DEF Allowed, Denied, Rules
      <4>2. QED
        BY <2>1, <3>1, <3>7, <3>8, <4>1 DEF ActionOf
    <3>9. CASE stage # "deny"
      <4>1. Allowed' = Allowed \cup {p} /\ Denied' = {} /\ Denied = {}
        BY <1>2, <2>1, <2>2, <3>2, <3>9 DEF Allowed, Denied, Rules, Lists
      <4>2. QED
        BY <2>1, <3>1, <3>7, <3>9, <4>1 DEF ActionOf
    <3>10. QED
      BY <3>8, <3>9
  <2>3. QED
    BY <1>0, <2>1, <2>2 DEF IndInv, Building
<1>3. CASE NextList
  <2>1. Serving' /\ cfg' = cfg /\ source' = source /\ tree' = tree
    BY <1>0, <1>3 DEF NextList, Serving
  <2>2. CASE stage = "loopback"
    <3>1. stage' = "allow" /\ todo' = Rules(cfg, "allow") /\ todo = {}
      BY <1>3, <2>2 DEF NextList, Following
    <3>2. Allowed' = Allowed /\ Denied' = Denied
      BY <2>1, <2>2, <3>1 DEF Allowed, Denied, Rules
    <3>3. QED
      BY <1>0, <2>1, <2>2, <3>1, <3>2 DEF IndInv, Building, Lists
  <2>3. CASE stage = "allow"
    <3>1. stage' = "deny" /\ todo' = Rules(cfg, "deny") /\ todo = {}
      BY <1>3, <2>3 DEF NextList, Following
    <3>2. Allowed' = Allowed /\ Denied' = Denied
      BY <2>1, <2>3, <3>1 DEF Allowed, Denied, Rules
    <3>3. QED
      BY <1>0, <2>1, <2>3, <3>1, <3>2 DEF IndInv, Building, Lists
  <2>4. QED
    BY <1>3, <2>2, <2>3 DEF NextList
<1>4. CASE Abandon
  BY <1>0, <1>4 DEF Abandon, IndInv, Building, Serving, Lists
<1>5. CASE Install
  <2>1. active' = tree /\ source' = cfg /\ cfg' = cfg /\ stage' = "ready"
    BY <1>5 DEF Install
  <2>2. Rules(cfg, "loopback") \cup cfg.allow = cfg.allow \cup Rules(cfg, "loopback")
        /\ cfg.deny \ {} = cfg.deny
    OBVIOUS
  <2>3. /\ tree.default = cfg.default
        /\ Built(tree, cfg.allow \cup Rules(cfg, "loopback"), cfg.deny)
    BY <1>0, <1>5, <2>2 DEF Install, Building, Allowed, Denied, Lists
  <2>4. QED
    BY <1>0, <2>1, <2>3 DEF IndInv, Building, Serving, Lists
<1>6. CASE UNCHANGED vars
  BY <1>0, <1>6 DEF vars, IndInv, Building, Serving, Allowed, Denied
<1>7. QED
  BY <1>1, <1>2, <1>3, <1>4, <1>5, <1>6 DEF Next

\* Whatever the order of the inserts and however many reloads fail on the way,
\* the active tree gives every address, but a loopback address that a deny rule
\* decides, the verdict of the policy that the last installed configuration
\* states.
THEOREM TreeFollowsPolicy == Spec => []AclIsPolicy
<1>1. IndInv => AclIsPolicy
  BY TreeIsPolicy DEF IndInv, Serving, AclIsPolicy
<1>2. QED
  BY InitInv, InvStep, <1>1, PTL DEF Spec
=============================================================================
