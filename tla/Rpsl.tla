-------------------------------- MODULE Rpsl --------------------------------
(***************************************************************************)
(* The text of RPSL dumps and of WHOIS queries, as far as the parser and   *)
(* the store tell it apart.  A word is a record: its form says which tests *)
(* of the code it passes, its id what it names, its case how its letters   *)
(* are spelt; addresses are W-bit numbers and carry their family as id.    *)
(* A value is a sequence of words; the line break that a continuation line *)
(* adds to an attribute's value is a word of its own.                      *)
(***************************************************************************)
EXTENDS Prefixes, SequencesExt

\* Forms of words without an address:
\*   as      starts with AS, a letter followed by a digit or a dash
\*   handle  letters with a digit or a dash (P1-RIPE)
\*   domain  has a dot inside;  fqdn: the same with a dot at the end
\*   plain   letters only
\*   punct   a lone dash, or a line break
Named(form, id, case) == [form |-> form, id |-> id, case |-> case, addr |-> 0, len |-> 0]
Dash == Named("punct", "-", "none")
Break == Named("punct", "break", "none")

\* An address, and a prefix whose address need not be masked.
Addr(family, a) == [form |-> "addr", id |-> family, case |-> "none", addr |-> a, len |-> 0]
Net(family, a, n) == [form |-> "prefix", id |-> family, case |-> "none", addr |-> a, len |-> n]

\* An IPv4 address is kept in its mapped form.
Word ==
  {w \in [form : {"as", "handle", "domain", "fqdn", "plain", "addr", "prefix"}, id : STRING,
          case : {"upper", "lower", "none"}, addr : Address, len : 0..W] :
     /\ w.form \in {"addr", "prefix"} => w.id \in {"4", "6"}
     /\ w.form = "addr" /\ w.id = "4" => Holds(V4, w.addr)} \cup {Dash, Break}
Value == Seq(Word)

-----------------------------------------------------------------------------
(* strings.TrimSpace, ToUpper, ToLower and TrimSuffix on values *)

Spelt(v, case) == [i \in DOMAIN v |-> IF v[i].case = "none" THEN v[i] ELSE [v[i] EXCEPT !.case = case]]
ToUpper(v) == Spelt(v, "upper")
ToLower(v) == Spelt(v, "lower")

TrimSpace(v) ==
  LET solid == {i \in DOMAIN v : v[i] # Break}
  IN  IF solid = {} THEN <<>> ELSE SubSeq(v, Min(solid), Max(solid))

\* TrimSuffix(v, ".")
TrimDot(v) ==
  [i \in DOMAIN v |-> IF i = Len(v) /\ v[i].form = "fqdn" THEN [v[i] EXCEPT !.form = "domain"] ELSE v[i]]

-----------------------------------------------------------------------------
(* Lines of a dump.  An attribute line has its name in lower case and says  *)
(* whether it is spelt with capitals; only attribute and continuation lines *)
(* have words.                                                              *)

NoName == ""   \* other lines have none
LineKinds == {"blank", "comment", "continuation", "attribute", "junk"}
Line ==
  {l \in [kind : LineKinds, name : STRING, capitals : BOOLEAN, words : Value] :
     l.kind = "attribute" => l.name # NoName}
LineOf(kind, name, capitals, words) ==
  [kind |-> kind, name |-> name, capitals |-> capitals, words |-> words]

Blank == LineOf("blank", NoName, FALSE, <<>>)             \* white space only
Comment == LineOf("comment", NoName, FALSE, <<>>)         \* starts with # or %
Junk == LineOf("junk", NoName, FALSE, <<>>)               \* no colon, or no attribute name before it
Continuation(words) == LineOf("continuation", NoName, FALSE, words)
Attribute(name, words) == LineOf("attribute", name, FALSE, words)
Capitalised(name, words) == LineOf("attribute", name, TRUE, words)
=============================================================================
