------------------------------- MODULE Store --------------------------------
(***************************************************************************)
(* Store (internal/ripe/store.go): its indexes as one record, Insert with  *)
(* the normalisation of keys, and the dispatch of Lookup.                  *)
(***************************************************************************)
EXTENDS NetIndex, Parser

\* A Go map with slices as values, of which only present keys are kept.
At(map, key) == IF key \in DOMAIN map THEN map[key] ELSE <<>>
Appended(map, key, obj) == [k \in DOMAIN map \cup {key} |-> IF k = key THEN Append(At(map, k), obj) ELSE map[k]]
Counted(map, key) == [k \in DOMAIN map \cup {key} |-> (IF k \in DOMAIN map THEN map[k] ELSE 0) + (IF k = key THEN 1 ELSE 0)]
NoKeys == [k \in {} |-> <<>>]

NewStore ==
  [byKey |-> NoKeys, byHandle |-> NoKeys, byDomain |-> NoKeys, inet4 |-> newNetTrie, inet6 |-> newNetTrie,
   counts |-> NoKeys, countsBySource |-> NoKeys]

keyOf(class, pk) == [class |-> class, pk |-> pk]

UpperClasses ==
  {"aut-num", "as-block", "as-set", "mntner", "organisation", "irt", "key-cert", "filter-set",
   "inet-rtr", "peering-set", "route-set", "rtr-set"}

normalizeKey(class, pk) ==
  CASE class \in UpperClasses -> ToUpper(TrimSpace(pk))
    [] class = "domain"       -> ToLower(TrimSpace(pk))
    [] OTHER                  -> TrimSpace(pk)

-----------------------------------------------------------------------------
(* Insert *)

\* insertPrefix: filed if the key is a prefix, of either family.
insertPrefix(t, pk, obj) ==
  LET v == TrimSpace(pk)
  IN  IF Len(v) = 1 /\ v[1].form = "prefix" THEN insert(t, v[1], obj) ELSE t

\* What is before and after the first dash.
splitRange(v) ==
  LET dash == SelectInSeq(v, LAMBDA w : w = Dash)
  IN  [dash |-> dash, start |-> TrimSpace(SubSeq(v, 1, dash - 1)), end |-> TrimSpace(SubSeq(v, dash + 1, Len(v)))]

\* insertRange: if the key is two addresses of one family, filed under each
\* block of the range.
insertRange(t, pk, obj) ==
  LET r == splitRange(pk)
      isAddr(v) == Len(v) = 1 /\ v[1].form = "addr"
      blocks == rangeToCIDRs(r.start[1].addr, r.end[1].addr, BitLen(r.start[1].id))
      filed[n \in 0..Len(blocks)] == IF n = 0 THEN t ELSE insert(filed[n - 1], blocks[n], obj)
  IN  IF r.dash > 0 /\ isAddr(r.start) /\ isAddr(r.end) /\ r.start[1].id = r.end[1].id
      THEN filed[Len(blocks)]
      ELSE t

\* Mutant: the handle is filed as it is spelt.
handleKeySpelt(obj) == obj.nicHdl

handleKey(obj) == ToUpper(obj.nicHdl)

Insert(s, obj, source) ==
  [s EXCEPT
     !.counts = Counted(@, obj.class),
     !.countsBySource = Counted(@, source),
     !.byKey = Appended(@, keyOf(obj.class, normalizeKey(obj.class, obj.pk)), obj),
     !.byHandle = IF obj.class \in {"person", "role"} /\ obj.nicHdl # <<>>
                  THEN Appended(@, handleKey(obj), obj) ELSE @,
     !.byDomain = IF obj.class = "domain" THEN Appended(@, ToLower(TrimDot(obj.pk)), obj) ELSE @,
     !.inet4 = CASE obj.class = "inetnum" -> insertRange(@, obj.pk, obj)
                 [] obj.class = "route"   -> insertPrefix(@, obj.pk, obj)
                 [] OTHER -> @,
     !.inet6 = IF obj.class \in {"inet6num", "route6"} THEN insertPrefix(@, obj.pk, obj) ELSE @]

-----------------------------------------------------------------------------
(* Lookup *)

\* ParsePrefix or ParseAddr succeeds.
isAddress(q) == Len(q) = 1 /\ q[1].form \in {"addr", "prefix"}

isNicHandle(q) == Len(q) = 1 /\ q[1].form \in {"as", "handle"}

\* strings.Contains(q, ".")
hasDot(q) ==
  \E i \in DOMAIN q : q[i].form \in {"domain", "fqdn"} \/ (q[i].form \in {"addr", "prefix"} /\ q[i].id = "4")

lookupAddr(s, w) == lookup(IF w.id = "4" THEN s.inet4 ELSE s.inet6, w.addr)

KeyClasses ==
  <<"organisation", "mntner", "as-set", "route-set", "filter-set", "peering-set", "rtr-set", "inet-rtr",
    "key-cert", "irt", "person", "role">>

\* What each index has for a query that is not an address, in the order in
\* which Lookup asks them.
Asks == 1..16
Candidate(s, q, k) ==
  CASE k = 1 -> IF q[1].form = "as" THEN At(s.byKey, keyOf("aut-num", ToUpper(q))) ELSE <<>>
    [] k = 2 -> IF q[1].form = "as" THEN At(s.byKey, keyOf("as-block", ToUpper(q))) ELSE <<>>
    [] k = 3 -> IF isNicHandle(q) THEN At(s.byHandle, ToUpper(q)) ELSE <<>>
    [] k = 4 -> IF hasDot(q) THEN At(s.byDomain, ToLower(q)) ELSE <<>>
    [] OTHER -> At(s.byKey, keyOf(KeyClasses[k - 4], normalizeKey(KeyClasses[k - 4], q)))

\* The first index that has something answers.
Lookup(s, query) ==
  LET q == TrimSpace(query)
  IN  IF q = <<>> THEN <<>>
      ELSE IF isAddress(q) THEN lookupAddr(s, q[1])
      ELSE LET hits == {k \in Asks : Candidate(s, q, k) # <<>>}
           IN  IF hits = {} THEN <<>> ELSE Candidate(s, q, Min(hits))
=============================================================================
