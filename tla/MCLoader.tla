------------------------------ MODULE MCLoader ------------------------------
(***************************************************************************)
(* Dumps and queries for TLC.  Addresses have 4 bits; 8..15 stand for the  *)
(* mapped IPv4 space.                                                      *)
(***************************************************************************)
EXTENDS Loader

MCV4 == Masked(8, 1)

P1 == Named("handle", "P1", "upper")
p1 == Named("handle", "P1", "lower")
AS1 == Named("as", "AS1", "upper")
as1 == Named("as", "AS1", "lower")
John == Named("plain", "John", "lower")
Net1 == Named("domain", "net", "lower")
NET1 == Named("domain", "net", "upper")
NET1dot == Named("fqdn", "net", "upper")

\* One file with every sequence of a few lines: what the grammar allows.
GrammarLines ==
  {Blank, Comment, Junk, Continuation(<<John>>), Attribute("person", <<John>>), Attribute("nic-hdl", <<P1>>),
   Attribute("nic-hdl", <<>>), Attribute("admin-c", <<p1>>), Capitalised("admin-c", <<P1>>)}
OneFile(s) == [f \in {"ripe"} |-> s]
GrammarTexts ==
  {OneFile(s) : s \in SeqOf(GrammarLines, 3)}
    \cup {OneFile(<<Attribute("person", <<John>>)>> \o s) : s \in TupleOf(GrammarLines, 4)}

\* Two files with one range each: every pair of IPv4 ranges, inverted
\* ones included; the goroutines insert them in either order.
TwoFiles(s, t) == [f \in {"arin", "ripe"} |-> IF f = "arin" THEN s ELSE t]
Inetnum(lo, hi) == <<Attribute("inetnum", <<Addr("4", lo), Dash, Addr("4", hi)>>)>>
RangeTexts ==
  {TwoFiles(Inetnum(r[1], r[2]), Inetnum(r[3], r[4])) :
     r \in {r \in (8..15) \X (8..15) \X (8..15) \X (8..15) : 8 * r[1] + r[2] <= 8 * r[3] + r[4]}}

\* Two files of stanzas that share names, handles and addresses across
\* classes, in various spellings.
Stanzas ==
  {<<Attribute("aut-num", <<as1>>), Attribute("admin-c", <<P1>>), Attribute("tech-c", <<p1>>)>>,
   <<Attribute("as-set", <<AS1>>), Attribute("tech-c", <<as1>>)>>,
   <<Attribute("as-block", <<AS1, Dash, AS1>>)>>,
   <<Attribute("person", <<John>>), Attribute("nic-hdl", <<p1>>), Attribute("admin-c", <<P1>>)>>,
   <<Attribute("role", <<John>>), Attribute("nic-hdl", <<P1>>), Continuation(<<John>>)>>,
   <<Attribute("mntner", <<p1>>), Attribute("zone-c", <<John>>), Attribute("abuse-c", <<>>)>>,
   <<Attribute("organisation", <<>>), Continuation(<<P1>>)>>,
   <<Attribute("domain", <<NET1dot>>), Attribute("zone-c", <<P1>>)>>,
   <<Attribute("route", <<Net("4", 13, 2)>>), Attribute("abuse-c", <<p1>>)>>,
   <<Attribute("route", <<Net("6", 4, 0)>>)>>,
   <<Attribute("route6", <<Net("6", 12, 2)>>)>>,
   <<Attribute("inetnum", <<Addr("4", 12), Dash>>), Continuation(<<Addr("4", 14)>>)>>,
   <<Attribute("inetnum", <<Addr("4", 12), Dash, Addr("6", 13)>>), Attribute("zone-c", <<P1>>)>>,
   <<Attribute("inet6num", <<Net("6", 8, 1)>>), Comment, Attribute("tech-c", <<P1>>)>>}
Both(s, t) == s \o <<Blank>> \o t
NameTexts == {TwoFiles(Both(s, t), u) : s, t, u \in Stanzas}

\* Few enough for reads to fail and contexts to end at every moment.
MCFaultyTexts ==
  {OneFile(s) : s \in TupleOf({Blank, Comment, Attribute("person", <<John>>)}, 3)}
    \cup {TwoFiles(Both(s, s), s) : s \in Stanzas}

MCTexts == GrammarTexts \cup RangeTexts \cup NameTexts \cup MCFaultyTexts

Asking(w) == <<WordToken(w)>>
Flagged(letters, w) == <<FlagToken(letters), WordToken(w)>>
MCQueryLines ==
  {Asking(Addr("4", a)) : a \in 8..15} \cup {Asking(Addr("6", a)) : a \in {4, 13}}
    \cup {Asking(Net("4", 14, 1)), Flagged({"m", "r"}, Addr("4", 13)), Flagged({"L"}, Net("6", 12, 3)), Flagged({"x"}, Addr("4", 13))}
    \cup {Asking(w) : w \in {P1, p1, AS1, as1, John, Net1, NET1, NET1dot}}
    \cup {<<>>, <<WordToken(AS1), FlagToken({}), WordToken(AS1)>>, <<WordToken(John), FlagToken({"r", "T"})>>,
          Flagged({"M"}, P1), Flagged({"l"}, as1)}

\* For the shared-node run: pairs of ranges only.
RangeQueries == {Asking(Addr("4", a)) : a \in 8..15}
=============================================================================
