-------------------------------- MODULE Acl ---------------------------------
(***************************************************************************)
(* The access control list: acl.BERT (internal/acl/bert.go), filled by     *)
(* buildACL (main.go) and swapped in by the SIGHUP handler (reload.go,     *)
(* Server.SetACL).  Loopback is inserted first, then the allow list, then  *)
(* the deny list; a bad entry abandons the build.  IPv4 prefixes are kept  *)
(* as IPv4-mapped IPv6: they are the subtree of the prefix V4.             *)
(***************************************************************************)
EXTENDS Naturals, FiniteSets

CONSTANTS
  W,            \* bits of an address (128)
  V4,           \* the prefix of mapped IPv4 addresses (::ffff:0:0/96)
  LoopbackV4,   \* 127.0.0.0/8: a prefix of the addresses below V4
  Loopback,     \* ::1/128
  Configs       \* configurations: [default, allow, deny, bad]

Bit == {0, 1}
Address == [1..W -> Bit]

\* The prefix of length d that address a is in: its low bits masked off.
Masked(a, d) == [addr |-> [i \in 1..W |-> IF i <= d THEN a[i] ELSE 0], len |-> d]
Prefix == {Masked(a, d) : a \in Address, d \in 0..W}

\* p contains a: they agree on the bits of the prefix (netip.Prefix.Contains).
Holds(p, a) == \A i \in 1..p.len : a[i] = p.addr[i]

\* canonicalBits for an IPv4 prefix: V4's bits, then its own.
Mapped(p) ==
  Masked([i \in 1..W |-> IF i <= V4.len THEN V4.addr[i] ELSE p.addr[i - V4.len]], V4.len + p.len)

ASSUME AclAssumption ==
  /\ W \in Nat \ {0}
  /\ V4 \in Prefix /\ Loopback \in Prefix
  /\ LoopbackV4.addr \in [1..(W - V4.len) -> Bit] /\ LoopbackV4.len \in 0..(W - V4.len)
  /\ \A c \in Configs : /\ c.default \in {"allow", "deny"} /\ c.bad \in BOOLEAN
                        /\ c.allow \subseteq Prefix /\ c.deny \subseteq Prefix

VARIABLES
  cfg,      \* the configuration being loaded
  stage,    \* which list is being inserted
  todo,     \* prefixes of that list still to insert
  tree,     \* the tree under construction
  active,   \* the tree requests are matched against (Server.aclTree)
  source    \* the configuration the active tree was built from

vars == <<cfg, stage, todo, tree, active, source>>

Rules(c, s) ==
  CASE s = "loopback" -> {Mapped(LoopbackV4), Loopback}
    [] s = "allow"    -> c.allow
    [] s = "deny"     -> c.deny

ActionOf(s) == IF s = "deny" THEN "deny" ELSE "allow"
Lists == {"loopback", "allow", "deny"}
Following(s) == IF s = "loopback" THEN "allow" ELSE "deny"

\* A node is the prefix that leads to it.  Insertion walks down from the root
\* and creates the missing nodes.
Root == Masked([i \in 1..W |-> 0], 0)
Path(p) == {Masked(p.addr, d) : d \in 0..p.len}

NewTree(c) == [nodes |-> {Root}, action |-> [p \in Prefix |-> "none"], default |-> c.default]
NoTree == NewTree([default |-> "deny"])

-----------------------------------------------------------------------------
(* MatchExplicit *)

\* Depths the walk for a visits: it goes on until a child is missing.
Visited(nodes, a) == {d \in 0..W : \A e \in 0..d : Masked(a, e) \in nodes}

Hits(t, a) == {d \in Visited(t.nodes, a) : t.action[Masked(a, d)] # "none"}

\* Mutant: the walk keeps the first rule it meets.
BestShortest(t, a) == t.action[Masked(a, CHOOSE d \in Hits(t, a) : \A e \in Hits(t, a) : d <= e)]

\* The action at the deepest node on the walk that has one.
Best(t, a) == t.action[Masked(a, CHOOSE d \in Hits(t, a) : \A e \in Hits(t, a) : e <= d)]

MatchExplicit(t, a) ==
  IF Hits(t, a) = {} THEN <<t.default, FALSE>> ELSE <<Best(t, a), TRUE>>

-----------------------------------------------------------------------------
(* Building and swapping *)

\* main has loaded its configuration; nothing is served yet.
Init ==
  /\ cfg \in Configs
  /\ source = cfg
  /\ stage = "loopback"
  /\ todo = Rules(cfg, "loopback")
  /\ tree = NewTree(cfg)
  /\ active = NoTree

\* A SIGHUP reads a configuration and starts a build.
StartBuild(c) ==
  /\ stage = "ready"
  /\ cfg' = c
  /\ stage' = "loopback"
  /\ todo' = Rules(c, "loopback")
  /\ tree' = NewTree(c)
  /\ UNCHANGED <<active, source>>

\* Mutant: a prefix that already has a rule keeps it.
InsertKeepsFirst(p) ==
  /\ p \in todo
  /\ tree' = [tree EXCEPT !.nodes = @ \cup Path(p),
                          !.action[p] = IF @ = "none" THEN ActionOf(stage) ELSE @]
  /\ todo' = todo \ {p}
  /\ UNCHANGED <<cfg, stage, active, source>>

\* Insert one prefix: a later insert at the same prefix overwrites.
Insert(p) ==
  /\ p \in todo
  /\ tree' = [tree EXCEPT !.nodes = @ \cup Path(p), !.action[p] = ActionOf(stage)]
  /\ todo' = todo \ {p}
  /\ UNCHANGED <<cfg, stage, active, source>>

NextList ==
  /\ stage \in {"loopback", "allow"}
  /\ todo = {}
  /\ stage' = Following(stage)
  /\ todo' = Rules(cfg, Following(stage))
  /\ UNCHANGED <<cfg, tree, active, source>>

\* An entry of the allow or deny list does not parse: main exits, a reload
\* keeps the previous tree.
Abandon ==
  /\ cfg.bad
  /\ stage \in {"allow", "deny"}
  /\ stage' = IF active = NoTree THEN "exited" ELSE "ready"
  /\ todo' = {}
  /\ UNCHANGED <<cfg, tree, active, source>>

\* Mutant: the tree is published before the deny list is loaded.
InstallEarly ==
  /\ stage = "deny"
  /\ ~cfg.bad
  /\ active' = tree
  /\ source' = cfg
  /\ stage' = "ready"
  /\ todo' = {}
  /\ UNCHANGED <<cfg, tree>>

\* New passes the tree to the server, a reload calls SetACL.
Install ==
  /\ stage = "deny"
  /\ todo = {}
  /\ ~cfg.bad
  /\ active' = tree
  /\ source' = cfg
  /\ stage' = "ready"
  /\ UNCHANGED <<cfg, todo, tree>>

Next ==
  \/ NextList \/ Abandon \/ Install
  \/ \E c \in Configs : StartBuild(c)
  \/ \E p \in todo : Insert(p)

Spec == Init /\ [][Next]_vars

-----------------------------------------------------------------------------
(* Properties *)

\* The policy a configuration states, without a tree: of the rules that
\* contain the address the longest decide, deny before allow; without any,
\* the default.
Policy(c, a) ==
  LET allows == {p \in c.allow \cup Rules(c, "loopback") : Holds(p, a)}
      denies == {p \in c.deny : Holds(p, a)}
      longest == {p \in allows \cup denies : \A q \in allows \cup denies : q.len <= p.len}
  IN  IF longest = {} THEN <<c.default, FALSE>>
      ELSE <<IF longest \cap denies # {} THEN "deny" ELSE "allow", TRUE>>

\* A loopback address that a rule of the deny list decides.  The documentation
\* says both that the longest prefix wins and that loopback is always allowed
\* (docs/whoisd.8:215, 237-242): there is no one verdict to ask for.
LoopbackDenied(c, a) ==
  /\ \E p \in Rules(c, "loopback") : Holds(p, a)
  /\ Policy(c, a) = <<"deny", TRUE>>

\* Whatever the order of inserts, and however many reloads fail on the way,
\* the tree requests are matched against gives every address but those the
\* verdict of the last configuration that was installed, all of its rules
\* included: loopback is allowed and exempt when no deny rule decides it.
AclIsPolicy ==
  active # NoTree =>
    \A a \in Address :
      ~LoopbackDenied(source, a) => MatchExplicit(active, a) = Policy(source, a)
=============================================================================
