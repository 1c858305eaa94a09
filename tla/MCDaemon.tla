------------------------------ MODULE MCDaemon ------------------------------
(***************************************************************************)
(* Texts of the configuration file for model checking Daemon: a plain one  *)
(* and ones that differ from it where a default, a check or a step of a    *)
(* reload decides.                                                         *)
(***************************************************************************)
EXTENDS Daemon

MCSource == [name |-> "RIPE", enabled |-> TRUE, format |-> "split", url |-> "u", classes |-> <<"inetnum">>]

Plain ==
  [readable |-> TRUE, default |-> "", entries |-> TRUE, daily |-> <<>>, concurrent |-> 0, poll |-> 0,
   sources |-> <<MCSource>>, stats |-> TRUE, dump |-> 500,
   limit |-> [enabled |-> TRUE, rps |-> 5, burst |-> 20, v4 |-> 0, v6 |-> 56, idle |-> 0]]

\* Files that load.
Loads == {
  Plain,
  [Plain EXCEPT !.entries = FALSE],
  [Plain EXCEPT !.stats = FALSE, !.dump = 1],
  [Plain EXCEPT !.limit.idle = -1],
  [Plain EXCEPT !.concurrent = -1],
  [Plain EXCEPT !.stats = FALSE, !.dump = -1, !.limit.enabled = FALSE, !.limit.burst = 0],
  [Plain EXCEPT !.dump = 0, !.concurrent = 4, !.limit.idle = 60, !.daily = <<23, 59>>, !.poll = 30, !.default = "deny",
                !.sources = <<[MCSource EXCEPT !.format = "single", !.classes = <<>>],
                              [MCSource EXCEPT !.name = "APNIC", !.enabled = FALSE, !.url = ""]>>]}

\* Files that do not, one check each.
Fails == {
  [Plain EXCEPT !.readable = FALSE],
  [Plain EXCEPT !.daily = <<24, 0>>],
  [Plain EXCEPT !.poll = 29],
  [Plain EXCEPT !.sources = <<>>],
  [Plain EXCEPT !.sources = <<[MCSource EXCEPT !.classes = <<>>]>>],
  [Plain EXCEPT !.sources = <<MCSource, MCSource>>],
  [Plain EXCEPT !.dump = 49],
  [Plain EXCEPT !.limit.burst = 0],
  [Plain EXCEPT !.limit.v4 = 33]}

MCTexts == Loads \cup Fails
=============================================================================
