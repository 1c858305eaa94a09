------------------------------- MODULE Query --------------------------------
(***************************************************************************)
(* How a query line is answered from a store (internal/server/server.go):  *)
(* parseQuery, pick, writeRelated and answer.  A line is a sequence of     *)
(* tokens; a token that starts with a dash has letters and no word, any    *)
(* other is one word.                                                      *)
(***************************************************************************)
EXTENDS Store

Token ==
  {t \in [word : Value, letters : SUBSET STRING] :
     Len(t.word) <= 1 /\ \A i \in DOMAIN t.word : t.word[i] # Break}
WordToken(w) == [word |-> <<w>>, letters |-> {}]
FlagToken(letters) == [word |-> <<>>, letters |-> letters]

\* Letters of other flags are ignored; abuseContact and exactMatch are parsed
\* and never read.
parseQuery(tokens) ==
  LET letters == UNION {t.letters : t \in ToSet(tokens)}
  IN  [query        |-> FlattenSeq([i \in DOMAIN tokens |-> tokens[i].word]),
       abuseContact |-> "b" \in letters,
       primaryOnly  |-> "r" \in letters,
       exactMatch   |-> "x" \in letters,
       moreSpecific |-> letters \cap {"m", "M"} # {},
       lessSpecific |-> letters \cap {"l", "L"} # {}]

\* Mutant: the default answer to an address is the first object found.
pickFirst(p, objs) ==
  IF p.moreSpecific \/ objs = <<>> THEN objs
  ELSE IF p.lessSpecific THEN SubSeq(objs, 1, 1)
  ELSE IF ~isAddress(p.query) THEN objs ELSE SubSeq(objs, 1, 1)

\* -m returns all, -l the first; otherwise the last for an address or prefix
\* and all for anything else.
pick(p, objs) ==
  IF p.moreSpecific \/ objs = <<>> THEN objs
  ELSE IF p.lessSpecific THEN SubSeq(objs, 1, 1)
  ELSE IF ~isAddress(p.query) THEN objs ELSE SubSeq(objs, Len(objs), Len(objs))

\* Mutant: handles are compared as they are spelt.
contactKeySpelt(h) == TrimSpace(h)

contactKey(h) == ToUpper(TrimSpace(h))

\* The handles of the objects, slot by slot.
contacts(objs) ==
  LET handles == FlattenSeq([i \in DOMAIN objs |-> FlattenSeq(objs[i].handles)])
  IN  [i \in DOMAIN handles |-> contactKey(handles[i])]

\* The objects appended for the contacts; a handle seen before is skipped.
writeRelated(s, objs) ==
  LET h == contacts(objs)
      seen(i) == h[i] \in ToSet(SubSeq(h, 1, i - 1))
  IN  FlattenSeq([i \in DOMAIN h |-> IF h[i] = <<>> \/ seen(i) THEN <<>> ELSE Lookup(s, h[i])])

\* The objects of the reply, in order; their number is nObjects, and 0 means
\* "No entries found".
answer(s, tokens) ==
  LET p == parseQuery(tokens)
      picked == pick(p, Lookup(s, p.query))
  IN  picked \o (IF p.primaryOnly THEN <<>> ELSE writeRelated(s, picked))
=============================================================================
