------------------------------- MODULE Loader -------------------------------
(***************************************************************************)
(* Manager.Reload (internal/ripe/store.go) line by line: one goroutine per *)
(* file parses and inserts into a common store, which becomes the active   *)
(* one if no file failed.  Which files are fetched, and when, is the       *)
(* subject of Dbase; here it is what the store answers afterwards.         *)
(***************************************************************************)
EXTENDS Query

CONSTANTS
  Texts,        \* dumps that occur: functions from files to sequences of lines
  FaultyTexts,  \* those of them with which reads fail and contexts end
  ParseSlots,   \* goroutines that parse at a time (4)
  QueryLines    \* query lines the answers are checked for

ASSUME LoaderAssumption ==
  /\ FaultyTexts \subseteq Texts
  /\ ParseSlots \in Nat \ {0}
  /\ \A t \in Texts : \A f \in DOMAIN t : t[f] \in Seq(Line)
  /\ QueryLines \subseteq Seq(Token)

VARIABLES
  text,       \* the dumps of this reload
  pc,         \* pc[f]: "wait", "parse", "done" or "failed"
  pos,        \* pos[f]: the line the parser of f reads next
  parse,      \* parse[f]: its state between two lines
  emitted,    \* emitted[f]: the objects it has passed on
  store,      \* the store being built
  cancelled,  \* the context is done
  cur,        \* the active store
  outcome     \* "building", "swapped" or "failed"

vars == <<text, pc, pos, parse, emitted, store, cancelled, cur, outcome>>

Files == DOMAIN text

Init ==
  /\ text \in Texts
  /\ pc = [f \in Files |-> "wait"]
  /\ pos = [f \in Files |-> 1]
  /\ parse = [f \in Files |-> Fresh]
  /\ emitted = [f \in Files |-> <<>>]
  /\ store = NewStore
  /\ cancelled = FALSE
  /\ cur = NewStore
  /\ outcome = "building"

\* The semaphore.
Begin(f) ==
  /\ pc[f] = "wait"
  /\ Cardinality({g \in Files : pc[g] = "parse"}) < ParseSlots
  /\ pc' = [pc EXCEPT ![f] = "parse"]
  /\ UNCHANGED <<text, pos, parse, emitted, store, cancelled, cur, outcome>>

\* flush, and then to the given label: the object is inserted under the lock,
\* unless the context is done.
Flush(f, then) ==
  LET objs == flushed(parse[f])
  IN  /\ parse' = [parse EXCEPT ![f] = reset(@)]
      /\ IF objs = <<>>
         THEN /\ pc' = [pc EXCEPT ![f] = then]
              /\ UNCHANGED <<emitted, store>>
         ELSE IF cancelled
         THEN /\ pc' = [pc EXCEPT ![f] = "failed"]
              /\ UNCHANGED <<emitted, store>>
         ELSE /\ pc' = [pc EXCEPT ![f] = then]
              /\ emitted' = [emitted EXCEPT ![f] = @ \o objs]
              /\ store' = Insert(store, objs[1], f)

ReadLine(f) ==
  /\ pc[f] = "parse"
  /\ pos[f] <= Len(text[f])
  /\ LET line == text[f][pos[f]]
     IN  IF line.kind = "blank"
         THEN Flush(f, "parse")
         ELSE /\ parse' = [parse EXCEPT ![f] = consumed(@, line)]
              /\ UNCHANGED <<pc, emitted, store>>
  /\ pos' = [pos EXCEPT ![f] = @ + 1]
  /\ UNCHANGED <<text, cancelled, cur, outcome>>

EndOfFile(f) ==
  /\ pc[f] = "parse"
  /\ pos[f] = Len(text[f]) + 1
  /\ Flush(f, "done")
  /\ pos' = [pos EXCEPT ![f] = @ + 1]
  /\ UNCHANGED <<text, cancelled, cur, outcome>>

\* The file cannot be opened, or a read fails.  The part of the line that was
\* read before is still parsed: if it is white space, the beginning of a blank
\* line or of a continuation, it ends the pending object, which is inserted;
\* any other part has effect only on what parseStream now forgets.
ReadError(f) ==
  /\ text \in FaultyTexts
  /\ pc[f] = "parse"
  /\ \/ /\ pc' = [pc EXCEPT ![f] = "failed"]
        /\ UNCHANGED <<parse, emitted, store>>
     \/ /\ pos[f] <= Len(text[f])
        /\ text[f][pos[f]].kind \in {"blank", "continuation"}
        /\ Flush(f, "failed")
  /\ UNCHANGED <<text, pos, cancelled, cur, outcome>>

Cancel ==
  /\ text \in FaultyTexts
  /\ ~cancelled
  /\ outcome = "building"
  /\ cancelled' = TRUE
  /\ UNCHANGED <<text, pc, pos, parse, emitted, store, cur, outcome>>

\* wg.Wait, the test for errors, and the swap.
Finish ==
  /\ outcome = "building"
  /\ \A f \in Files : pc[f] \in {"done", "failed"}
  /\ IF \E f \in Files : pc[f] = "failed"
     THEN outcome' = "failed" /\ UNCHANGED cur
     ELSE outcome' = "swapped" /\ cur' = store
  /\ UNCHANGED <<text, pc, pos, parse, emitted, store, cancelled>>

Next ==
  \/ \E f \in Files : Begin(f) \/ ReadLine(f) \/ EndOfFile(f) \/ ReadError(f)
  \/ Cancel
  \/ Finish

Spec == Init /\ [][Next]_vars

-----------------------------------------------------------------------------
(* Parsing *)

\* The object that a read which fails in the blanks of line n leaves half
\* read: the stanza of a text that is cut there.
HalfRead(t, n) ==
  IF n <= Len(t) /\ t[n].kind \in {"blank", "continuation"} THEN StanzaAt(SubSeq(t, 1, n - 1), n) ELSE <<>>

\* What is claimed of the objects of a text: all of it, but of their raw text
\* nothing if lines of it are dropped.  parser.go calls the raw text verbatim
\* ("byte-for-byte", line 37; line 50), which it then is not.
Claimed(t, objs) ==
  [k \in DOMAIN objs |->
     IF \E i \in DOMAIN t : t[i].kind = "junk" THEN [objs[k] EXCEPT !.raw = <<>>] ELSE objs[k]]

\* At every moment each parser has emitted the objects of exactly the stanzas
\* whose end it has read, with the class, key, handles and raw text that the
\* lines describe: nothing of one stanza gets into the next, and the last
\* stanza needs no blank line.  One that failed has emitted the beginning of
\* these, or all of them and the object that its last read left half read;
\* but dumps that become active are whole.
ParsedStanzas ==
  /\ \A f \in Files :
       LET t == text[f]
           all == ObjectsBefore(t, pos[f])
           emittedIs(objs) == Claimed(t, emitted[f]) = Claimed(t, objs)
       IN  IF pc[f] = "failed"
           THEN (\E n \in 0..Len(all) : emittedIs(SubSeq(all, 1, n))) \/ emittedIs(all \o HalfRead(t, pos[f]))
           ELSE emittedIs(all)
  /\ outcome = "swapped" =>
       \A f \in Files : Claimed(text[f], emitted[f]) = Claimed(text[f], ObjectsBefore(text[f], Len(text[f]) + 2))

LowerCase(o) == \A i \in DOMAIN o.raw : ~o.raw[i].capitals

\* Reading an attribute back from the raw text (Lookup, LookupAll) agrees
\* with what the parser extracted while it read the lines, comments, dropped
\* lines and continuation lines in between included.
ScanAgrees ==
  \A f \in Files : \A k \in DOMAIN emitted[f] :
    LET o == emitted[f][k]
    IN  LowerCase(o) =>
          /\ \A i \in 1..4 : LookupAll(o, HandleAttrs[i]) = o.handles[i]
          /\ o.pk = LookupAll(o, o.class)[1]

-----------------------------------------------------------------------------
(* Lookup *)

\* The addresses an object of an address class stands for, {} if its key is
\* not a range or prefix: first and last, and which trie has it.
Family(o) ==
  CASE o.class \in {"inetnum", "route"} -> "4" [] o.class \in {"inet6num", "route6"} -> "6" [] OTHER -> "none"
Solid(v) == {i \in DOMAIN v : v[i] # Break}
IsRange(v, i, k) ==
  /\ v[i].form = "addr" /\ v[k].form = "addr" /\ v[i].id = v[k].id
  /\ \E j \in (i + 1)..(k - 1) : v[j] = Dash /\ Solid(v) = {i, j, k}
IsNet(v, i) == v[i].form = "prefix" /\ Solid(v) = {i}
Extent(o) ==
  LET v == o.pk
      within(p) == FirstAddr(p)..LastAddr(p)
  IN  CASE o.class = "inetnum" ->
             UNION {IF IsRange(v, i, k) THEN v[i].addr..v[k].addr ELSE {} : i, k \in DOMAIN v}
        [] Family(o) # "none" /\ o.class # "inetnum" ->
             UNION {IF IsNet(v, i) THEN within(Masked(v[i].addr, v[i].len)) ELSE {} : i \in DOMAIN v}
        [] OTHER -> {}

\* Object o answers to the name q as the k-th kind of thing a name can be.
SameName(v, q) == ToUpper(v) = ToUpper(q)
AnswersAs(o, q, k) ==
  CASE k = 1 -> o.class = "aut-num" /\ SameName(TrimSpace(o.pk), q) /\ q[1].form = "as"
    [] k = 2 -> o.class = "as-block" /\ SameName(TrimSpace(o.pk), q) /\ q[1].form = "as"
    [] k = 3 -> o.class \in {"person", "role"} /\ SameName(o.nicHdl, q) /\ isNicHandle(q)
    [] k = 4 -> o.class = "domain" /\ SameName(TrimDot(o.pk), q) /\ hasDot(q)
    [] OTHER -> /\ o.class = KeyClasses[k - 4]
                /\ IF o.class \in {"person", "role"} THEN TrimSpace(o.pk) = q ELSE SameName(TrimSpace(o.pk), q)

\* The objects of the dumps, and how often each is in them.
Indexed == UNION {ToSet(emitted[f]) : f \in Files}
Times(o) ==
  Cardinality({e \in UNION {{f} \X DOMAIN emitted[f] : f \in Files} : emitted[e[1]][e[2]] = o})

\* What a query ought to find: for an address the objects of its family
\* around it, for a name the objects that answer to it, as the first kind of
\* thing that any object does.
Around(w) == {o \in Indexed : Family(o) = w.id /\ w.addr \in Extent(o)}
Wanted(q) ==
  IF isAddress(q) THEN Around(q[1])
  ELSE LET named(k) == {o \in Indexed : AnswersAs(o, q, k)}
           kinds == {k \in Asks : named(k) # {}}
       IN  IF kinds = {} THEN {} ELSE named(Min(kinds))

\* How often a reply has an object.
Count(objs, o) == Cardinality({i \in DOMAIN objs : objs[i] = o})

\* After a swap Lookup returns the objects a query ought to find, each as
\* often as the dumps have it, and no others, whatever order the goroutines
\* inserted them in.
LookupExact ==
  outcome = "swapped" =>
    \A line \in QueryLines :
      LET q == parseQuery(line).query
          found == Lookup(cur, q)
      IN  q # <<>> =>
            \A o \in Indexed \cup ToSet(found) :
              Count(found, o) = IF o \in Wanted(q) THEN Times(o) ELSE 0

-----------------------------------------------------------------------------
(* Address queries *)

\* rangeToCIDRs returns the minimum set of blocks that exactly cover the
\* range, in address order and each once, up to both ends of the address
\* space of its family.
BlocksAreMinimal ==
  outcome = "swapped" =>
    \A o \in Indexed : \A i, k \in DOMAIN o.pk :
      o.class = "inetnum" /\ IsRange(o.pk, i, k) =>
        LET lo == o.pk[i].addr
            hi == o.pk[k].addr
            out == rangeToCIDRs(lo, hi, BitLen(o.pk[i].id))
        IN  /\ ToSet(out) = MaximalBlocks(lo, hi)
            /\ \A m, n \in DOMAIN out : m < n => LastAddr(out[m]) < FirstAddr(out[n])

\* Length of the block that object o is filed under at a.
BlockLen(o, a) == (CHOOSE p \in MaximalBlocks(Min(Extent(o)), Max(Extent(o))) : Holds(p, a)).len

\* Address queries, the object each is answered with, and the objects that
\* would do.
AddressQueries == {line \in QueryLines : isAddress(parseQuery(line).query)}
Asked(line) == parseQuery(line).query[1]
Answered(line) == answer(cur, line)[1]
Plain(line) == LET p == parseQuery(line) IN ~p.moreSpecific /\ ~p.lessSpecific /\ ~p.exactMatch

\* An address query without -m, -l and -x is answered with an object that no
\* other covering object has a longer block than: the most specific one when
\* ranges are CIDR blocks.  (README.md:80 has -x ask for an exact prefix; the
\* code answers as if it were not there, and nothing is claimed of it.)
LongestBlockAnswer ==
  outcome = "swapped" =>
    \A line \in AddressQueries : \A o \in Around(Asked(line)) :
      Plain(line) => BlockLen(Answered(line), Asked(line).addr) >= BlockLen(o, Asked(line).addr)

\* An address query is answered with the most specific allocation
\* (README.md: "longest-prefix-match returns the most specific allocation").
MostSpecificAnswer ==
  outcome = "swapped" =>
    \A line \in AddressQueries : \A o \in Around(Asked(line)) :
      Plain(line) => Cardinality(Extent(Answered(line))) <= Cardinality(Extent(o))

-----------------------------------------------------------------------------
(* Contacts *)

\* The handles that objects name, however they are spelt.
NamedHandles(objs) ==
  {ToUpper(TrimSpace(h)) : h \in UNION {ToSet(objs[i].handles[k]) : i \in DOMAIN objs, k \in 1..4}} \ {<<>>}

\* A reply has, after the objects that were picked, what each handle they
\* name stands for: once for every handle, even if it is named in several
\* slots, by several objects or in another case; with -r it has none.
ContactsOnce ==
  outcome = "swapped" =>
    \A line \in QueryLines :
      LET p == parseQuery(line)
          picked == pick(p, Lookup(cur, p.query))
          reply == answer(cur, line)
          related == SubSeq(reply, Len(picked) + 1, Len(reply))
          wanted == IF p.primaryOnly THEN {} ELSE NamedHandles(picked)
      IN  \A o \in Indexed \cup ToSet(related) :
            Count(related, o) = Times(o) * Cardinality({h \in wanted : o \in Wanted(h)})
=============================================================================
