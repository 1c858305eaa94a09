------------------------------- MODULE Parser -------------------------------
(***************************************************************************)
(* parseStream (internal/ripe/parser.go): the state it keeps between lines *)
(* as a record, the effect of one line on it, and flush, which emits an    *)
(* object; and scanAttr, which reads an attribute back out of an object's  *)
(* raw text.                                                               *)
(***************************************************************************)
EXTENDS Rpsl

HandleAttrs == <<"admin-c", "tech-c", "abuse-c", "zone-c">>
handleIdx(name) == {i \in 1..4 : HandleAttrs[i] = name}

\* An object is what flush builds; raw is the sequence of its lines.
NoObject == [class |-> NoName, pk |-> <<>>, nicHdl |-> <<>>, handles |-> <<<<>>, <<>>, <<>>, <<>>>>, raw |-> <<>>]

\* curName = NoName: no attribute under construction.
Fresh == [obj |-> NoObject, hadAttr |-> FALSE, curName |-> NoName, curVal |-> <<>>]

\* Finish the attribute under construction.  The first one is the class and
\* the primary key; the first nic-hdl that is not empty is kept.
commit(p) ==
  IF p.curName = NoName THEN p
  ELSE [p EXCEPT
          !.obj.class = IF p.hadAttr THEN @ ELSE p.curName,
          !.obj.pk = IF p.hadAttr THEN @ ELSE p.curVal,
          !.obj.nicHdl = IF p.curName = "nic-hdl" /\ @ = <<>> THEN p.curVal ELSE @,
          !.obj.handles = [i \in 1..4 |-> IF i \in handleIdx(p.curName) THEN Append(@[i], p.curVal) ELSE @[i]],
          !.hadAttr = TRUE,
          !.curName = NoName,
          !.curVal = <<>>]

\* flush emits at most one object...
flushed(p) == IF commit(p).hadAttr THEN <<commit(p).obj>> ELSE <<>>

\* Mutant: the contact handles are not cleared.
resetKeepsHandles(p) == [Fresh EXCEPT !.obj.handles = commit(p).obj.handles]

\* ... and leaves nothing of it behind.
reset(p) == Fresh

\* The effect of a line that is not blank.  A continuation without an
\* attribute is kept in raw only; junk is dropped and ends nothing.
consumed(p, line) ==
  LET keep(q) == [q EXCEPT !.obj.raw = Append(@, line)]
  IN  CASE line.kind = "comment" -> keep(p)
        [] line.kind = "continuation" ->
             keep(IF p.curName = NoName THEN p ELSE [p EXCEPT !.curVal = @ \o <<Break>> \o line.words])
        [] line.kind = "attribute" ->
             keep([commit(p) EXCEPT !.curName = line.name, !.curVal = line.words])
        [] line.kind = "junk" -> p

-----------------------------------------------------------------------------
(* scanAttr *)

\* An attribute line starts a value if it has the name, as it is spelt, and
\* ends the one before it.
\* Mutant: another attribute does not end the value.
scanAttributeRunsOn(s, line, name) ==
  IF line.name = name /\ ~line.capitals
  THEN [out |-> Append(s.out, line.words), matching |-> TRUE]
  ELSE s

scanAttribute(s, line, name) ==
  IF line.name = name /\ ~line.capitals
  THEN [out |-> Append(s.out, line.words), matching |-> TRUE]
  ELSE [s EXCEPT !.matching = FALSE]

scanned(s, line, name) ==
  CASE line.kind = "attribute" -> scanAttribute(s, line, name)
    [] line.kind = "continuation" /\ s.matching -> [s EXCEPT !.out[Len(s.out)] = @ \o <<Break>> \o line.words]
    [] OTHER -> s

LookupAll(o, name) ==
  FoldLeft(LAMBDA s, line : scanned(s, line, name), [out |-> <<>>, matching |-> FALSE], o.raw).out

-----------------------------------------------------------------------------
(* The reference: what a text describes, stated over line numbers. *)

\* What the given lines among 1..n contribute, in order.
InOrder(n, lines, of) ==
  LET first[i \in 0..n] == IF i = 0 THEN <<>> ELSE IF i \in lines THEN first[i - 1] \o of[i] ELSE first[i - 1]
  IN  first[n]

\* Line b ends a stanza: it is blank or one past the end.
Ends(text, b) == b = Len(text) + 1 \/ text[b].kind = "blank"

\* The lines before b that no blank line separates from it, and those of
\* them with an attribute.
Stanza(text, b) == {i \in 1..(b - 1) : \A k \in i..(b - 1) : text[k].kind # "blank"}
Attributes(text, b) == {i \in Stanza(text, b) : text[i].kind = "attribute"}

\* Line j continues the attribute on line i: no other attribute and no blank
\* line is in between.
Continues(text, i, j) ==
  i < j /\ text[j].kind = "continuation" /\ \A k \in (i + 1)..j : text[k].kind \notin {"attribute", "blank"}

\* Value of the attribute on line i, and of those with a name, in order.
Continuations(text) == [j \in DOMAIN text |-> <<Break>> \o text[j].words]
ValueAt(text, i) ==
  text[i].words \o InOrder(Len(text), {j \in DOMAIN text : Continues(text, i, j)}, Continuations(text))
ValuesOf(text, attrs, name) ==
  InOrder(Len(text), {i \in attrs : text[i].name = name}, [i \in DOMAIN text |-> <<ValueAt(text, i)>>])

\* The first nic-hdl that is not empty.
NicHdlOf(text, attrs) ==
  LET named == {i \in attrs : text[i].name = "nic-hdl" /\ ValueAt(text, i) # <<>>}
  IN  IF named = {} THEN <<>> ELSE ValueAt(text, Min(named))

RawOf(text, b) ==
  InOrder(Len(text), {i \in Stanza(text, b) : text[i].kind # "junk"}, [i \in DOMAIN text |-> <<text[i]>>])

\* The object that ends at line b, if there is an attribute in its stanza.
StanzaAt(text, b) ==
  LET attrs == Attributes(text, b)
  IN  IF attrs = {} THEN <<>>
      ELSE <<[class |-> text[Min(attrs)].name,
              pk |-> ValueAt(text, Min(attrs)),
              nicHdl |-> NicHdlOf(text, attrs),
              handles |-> [k \in 1..4 |-> ValuesOf(text, attrs, HandleAttrs[k])],
              raw |-> RawOf(text, b)]>>

\* The objects of the stanzas that end before line n.
ObjectsBefore(text, n) ==
  InOrder(Len(text) + 1, {b \in 1..(n - 1) : Ends(text, b)}, [b \in 1..(Len(text) + 1) |-> StanzaAt(text, b)])
=============================================================================
