------------------------------- MODULE Config -------------------------------
(***************************************************************************)
(* The configuration file: its defaults and its validation (config.go),    *)
(* and the files its sources stand for (source.go).                        *)
(* yaml.Unmarshal leaves a field that is absent at its zero value, so a    *)
(* text is a record whose fields hold 0 or "" where the file says nothing. *)
(* Of a time only the unit its check compares is kept: poll is in seconds, *)
(* dump in milliseconds.  Fields that no check looks at and that nothing   *)
(* panics on are left out (timeouts, paths, log.level, bind), and so is    *)
(* the wording of errors.                                                  *)
(***************************************************************************)
EXTENDS Integers, Sequences

Source == [name : STRING, enabled : BOOLEAN, format : STRING, url : STRING, classes : Seq(STRING)]
RateLimit == [enabled : BOOLEAN, rps : Int, burst : Int, v4 : Int, v6 : Int, idle : Int]

\* readable: the file exists and is YAML; entries: every allow and deny line
\* of the ACL parses, which only buildACL looks at; daily: the numbers a colon
\* separates, -1 for one that is not a number; limit.idle: in seconds, -1 for
\* every time whose half is not positive; concurrent: server.max_concurrent.
Text ==
  [readable : BOOLEAN, default : STRING, entries : BOOLEAN, daily : Seq(Int),
   concurrent : Int, poll : Int, sources : Seq(Source), stats : BOOLEAN, dump : Int, limit : RateLimit]

OrElse(v, zero, default) == IF v = zero THEN default ELSE v

\* Mutant: there are no defaults; a prefix of 0 puts every client in one
\* bucket, and idle_ttl 0 leaves gcLoop without a ticker.
limitDefaultsNone(l) == l

limitDefaults(l) == [l EXCEPT !.idle = OrElse(@, 0, 600), !.v4 = OrElse(@, 0, 32), !.v6 = OrElse(@, 0, 128)]

applyDefaults(c) ==
  [c EXCEPT !.concurrent = OrElse(@, 0, 1024),
            !.default = OrElse(@, "", "allow"),
            !.daily = OrElse(@, <<>>, <<2, 0>>),
            !.poll = OrElse(@, 0, 3600),
            !.dump = OrElse(@, 0, 1000),
            !.limit = limitDefaults(@)]

\* The texts ParseDailyAt accepts: HH:MM.
ParseDailyAt(d) == Len(d) = 2 /\ d[1] \in 0..23 /\ d[2] \in 0..59

\* Names are required of every source and unique; the rest is only required
\* of enabled ones, and there is one.
validSources(ss) ==
  /\ \A i \in DOMAIN ss : ss[i].name # ""
  /\ \A i, j \in DOMAIN ss : ss[i].name = ss[j].name => i = j
  /\ \A i \in DOMAIN ss :
       ss[i].enabled =>
         /\ ss[i].format = "single" \/ (ss[i].format = "split" /\ ss[i].classes # <<>>)
         /\ ss[i].url # ""
  /\ \E i \in DOMAIN ss : ss[i].enabled

\* idle_ttl is not checked.
validLimit(l) ==
  l.enabled => l.rps > 0 /\ l.burst > 0 /\ l.v4 \in 0..32 /\ l.v6 \in 0..128

\* The dump interval is only looked at where stats are enabled, and
\* max_concurrent never.
validate(c) ==
  /\ c.default \in {"allow", "deny"}
  /\ ParseDailyAt(c.daily)
  /\ c.poll >= 30
  /\ validSources(c.sources)
  /\ c.stats => c.dump >= 50
  /\ validLimit(c.limit)

Load(text) == text.readable /\ validate(applyDefaults(text))

-----------------------------------------------------------------------------
\* Source.Files (source.go): the classes of the files to fetch, "" for a file
\* with all of them; <<>> is an error.
Files(s) ==
  IF s.url = "" THEN <<>>
  ELSE IF s.format = "single" THEN <<"">>
  ELSE IF s.format = "split" THEN s.classes
  ELSE <<>>

\* FetchAll can plan its fetches, and there are some.
CanPlan(ss) ==
  /\ \A i \in DOMAIN ss : ss[i].enabled => Files(ss[i]) # <<>>
  /\ \E i \in DOMAIN ss : ss[i].enabled
=============================================================================
