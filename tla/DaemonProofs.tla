---------------------------- MODULE DaemonProofs ----------------------------
(***************************************************************************)
(* Proofs for module Daemon: no edit that was followed by a SIGHUP is      *)
(* lost, for any number of edits and signals, wherever they fall.          *)
(***************************************************************************)
EXTENDS Daemon, TLAPS

\* Settings a reload at this point has applied already, of those that always
\* apply.
Applied ==
  CASE rpc \in {"acl", "limiter"} -> {}
    [] rpc = "level" -> {"limiter"}
    [] OTHER         -> {"limiter", "level"}

\* How far the settings are; none is newer than the last configuration read.
Progress ==
  /\ \A s \in Applied : running[s] = cfg
  /\ \A s \in Setting : running[s].version <= cfg.version
  /\ cfg.version <= file.version

\* The last file read is the file, unless it was edited since, a signal is
\* waiting, it does not parse, or it is about to be read.
CurrentUnlessTold ==
  /\ pc # "load" /\ Alive /\ rpc \in {"off", "notify"} =>
       hup = 0 /\ (~dirty => cfg = file)
  /\ rpc \in Setting \cup {"wait"} /\ hup = 0 /\ ~dirty /\ Parses(file) => cfg = file
  /\ pc \in {"load", "pid", "acl", "dbase"} => rpc = "off" /\ hup = 0 /\ ~dumper

\* The ACL and the dump interval are the last file's if they could be used.
Follows ==
  /\ rpc \in {"notify", "limiter", "level", "interval", "bind", "wait", "load"} /\ AclBuilds(cfg) =>
       running["acl"] = cfg
  /\ rpc \in {"notify", "bind", "wait", "load"} /\ Dumps(cfg) => running["interval"] = cfg
  /\ pc \notin {"load"} \cup Exits /\ rpc = "off" => \A s \in Setting : running[s] = cfg

\* Once main has loaded its configuration every setting comes from a file
\* that passed the checks, a dumper has a positive interval, and the server
\* that was just made has room for a connection.
Checked ==
  pc \notin {"load"} \cup Exits =>
    /\ Parses(cfg)
    /\ \A s \in Setting : Parses(running[s])
    /\ dumper => Conf(running["interval"]).dump > 0
    /\ rpc = "notify" => Conf(cfg).concurrent > 0

IndInv == DaemonTypeOK /\ Progress /\ CurrentUnlessTold /\ Follows /\ Checked

-----------------------------------------------------------------------------
(* What the checks of a configuration establish *)

\* A text keeps its types under the defaults, and a default is never 0.
LEMMA Defaulted ==
  ASSUME NEW t \in Text
  PROVE  LET c == applyDefaults(t)
         IN  /\ c.dump \in Int /\ c.stats = t.stats /\ c.concurrent \in Int \ {0}
             /\ c.limit.v4 \in Int \ {0} /\ c.limit.v6 \in Int \ {0} /\ c.limit.idle \in Int \ {0}
<1>1. /\ applyDefaults(t).dump = OrElse(t.dump, 0, 1000)
      /\ applyDefaults(t).concurrent = OrElse(t.concurrent, 0, 1024)
      /\ applyDefaults(t).stats = t.stats
      /\ applyDefaults(t).limit = limitDefaults(t.limit)
  BY DEF Text, applyDefaults
<1>2. t.limit \in RateLimit /\ t.dump \in Int /\ t.concurrent \in Int
  BY DEF Text
<1>3. /\ limitDefaults(t.limit).v4 = OrElse(t.limit.v4, 0, 32)
      /\ limitDefaults(t.limit).v6 = OrElse(t.limit.v6, 0, 128)
      /\ limitDefaults(t.limit).idle = OrElse(t.limit.idle, 0, 600)
  BY <1>2 DEF RateLimit, limitDefaults
<1>4. QED
  BY <1>1, <1>2, <1>3 DEF RateLimit, OrElse

\* What the defaults and the checks make sure of in a file that loads.
LEMMA LoadedIsUsable ==
  ASSUME NEW t \in Text, Load(t)
  PROVE  LET c == applyDefaults(t)
         IN  /\ c.default \in {"allow", "deny"}
             /\ c.stats => c.dump >= 50
             /\ c.limit.enabled => /\ c.limit.rps > 0 /\ c.limit.burst > 0 /\ c.limit.idle # 0
                                   /\ c.limit.v4 \in 1..32 /\ c.limit.v6 \in 1..128
             /\ CanPlan(c.sources)
<1> DEFINE c == applyDefaults(t)
<1>1. validate(c)
  BY DEF Load
<1>2. c.limit.v4 # 0 /\ c.limit.v6 # 0 /\ c.limit.idle # 0
  BY Defaulted
<1> HIDE DEF c
<1>3. CanPlan(c.sources)
  BY <1>1 DEF validate, validSources, CanPlan, Files
<1>4. QED
  BY <1>1, <1>2, <1>3 DEF validate, validLimit, c

-----------------------------------------------------------------------------
\* The initial state satisfies the invariant.
LEMMA InitInv == Init => IndInv
<1> SUFFICES ASSUME Init PROVE IndInv
  OBVIOUS
<1>1. PICK t \in Texts : file = [version |-> 0, text |-> t]
  BY DEF Init
<1>2. file \in File /\ cfg \in File /\ cfg.version = 0 /\ file.version = 0
  BY <1>1, DaemonAssumption DEF Init, File, Version
<1>3. running \in [Setting -> File] /\ \A s \in Setting : running[s] = file
  BY <1>2 DEF Init
<1>4. Applied \subseteq Setting
  BY DEF Applied, Setting
<1>5. DaemonTypeOK
  <2>1. /\ dirty \in BOOLEAN /\ cancelled \in BOOLEAN /\ pidFile \in BOOLEAN /\ dumper \in BOOLEAN
        /\ doomed \in BOOLEAN
    BY Zenon DEF Init
  <2>2. exit \in 0..2 /\ hup \in 0..1 /\ pc = "load" /\ rpc = "off"
    BY DEF Init
  <2>3. QED
    BY <1>2, <1>3, <2>1, <2>2 DEF DaemonTypeOK
<1>6. Progress
  BY <1>2, <1>3, <1>4 DEF Progress, Init
<1>7. CurrentUnlessTold /\ Follows /\ Checked
  BY <1>2, <1>3 DEF Init, CurrentUnlessTold, Follows, Checked, Setting, Exits
<1>8. QED
  BY <1>5, <1>6, <1>7 DEF IndInv

\* Every step keeps the types.
LEMMA TypeStep ==
  ASSUME DaemonTypeOK, [Next]_vars
  PROVE  DaemonTypeOK'
<1> USE DaemonAssumption DEF DaemonTypeOK, Exits, Listening, Setting
<1>1. CASE Edit
  BY <1>1 DEF Edit, File, Version
<1>2. CASE Hangup
  <2>1. dirty' \in BOOLEAN
    BY <1>2, Zenon DEF Hangup
  <2>2. hup' \in 0..1 /\ pc' \in {pc, "killed"}
    BY <1>2 DEF Hangup, Deliver
  <2>3. QED
    BY <1>2, <2>1, <2>2 DEF Hangup
<1>3. CASE Terminate
  BY <1>3 DEF Terminate
<1>4. CASE MainLoad
  <2>1. dirty' \in BOOLEAN
    BY <1>4, Zenon DEF MainLoad
  <2>2. exit' \in 0..2 /\ pc' \in {"pid", "exited"}
    BY <1>4 DEF MainLoad, Exit
  <2>3. cfg' \in File /\ running' \in [Setting -> File]
    BY <1>4 DEF MainLoad, File
  <2>4. QED
    BY <1>4, <2>1, <2>2, <2>3 DEF MainLoad
<1>5. CASE MainPid \/ MainAcl \/ MainDbase \/ MainServe \/ MainDrained \/ MainReturn
  <2>1. CASE MainPid \/ MainDrained
    BY <2>1 DEF MainPid, MainDrained
  <2>2. CASE MainAcl \/ MainServe
    <3>1. doomed' \in BOOLEAN
      BY <2>2, Zenon DEF MainAcl, MainServe, GcPanics
    <3>2. QED
      BY <2>2, <3>1 DEF MainAcl, MainServe, Exit
  <2>3. CASE MainDbase
    <3>1. dumper' \in BOOLEAN
      BY <2>3, Defaulted DEF MainDbase, Conf, File, Text
    <3>2. pidFile' \in BOOLEAN
      BY <2>3, Zenon DEF MainDbase
    <3>3. exit' \in 0..2 /\ pc' \in {"serve", "exited"} /\ rpc' \in {rpc, "notify"}
      BY <2>3 DEF MainDbase, Exit
    <3>4. QED
      BY <2>3, <3>1, <3>2, <3>3 DEF MainDbase
  <2>4. CASE MainReturn
    <3>1. pidFile' \in BOOLEAN
      BY <2>4, Zenon DEF MainReturn
    <3>2. QED
      BY <2>4, <3>1 DEF MainReturn, Exit
  <2>5. QED
    BY <1>5, <2>1, <2>2, <2>3, <2>4
<1>6. CASE ReloadNotify \/ ReloadWake \/ ReloadStop \/ ReloadLoad
  BY <1>6 DEF ReloadNotify, ReloadWake, ReloadStop, ReloadLoad
<1>7. CASE ReloadAcl \/ ReloadInterval \/ ReloadBind
  BY <1>7 DEF ReloadAcl, ReloadInterval, ReloadBind, Apply
<1>8. CASE ReloadSetting
  <2>1. doomed' \in BOOLEAN
    BY <1>8, Zenon DEF ReloadSetting, GcPanics
  <2>2. QED
    BY <1>8, <2>1 DEF ReloadSetting, Apply
<1>9. CASE LimiterPanics
  BY <1>9 DEF LimiterPanics, Exit
<1>10. CASE UNCHANGED vars
  BY <1>10 DEF vars
<1>11. QED
  BY <1>1, <1>2, <1>3, <1>4, <1>5, <1>6, <1>7, <1>8, <1>9, <1>10 DEF Next, Main, ReloadLoop

\* Every step keeps the agreement between the file, the signals and the
\* settings.  Whether a file parses or its ACL builds is opaque here.
LEMMA AgreementStep ==
  ASSUME IndInv, [Next]_vars
  PROVE  Progress' /\ CurrentUnlessTold' /\ Follows'
<1>0. /\ file.version \in Nat /\ cfg.version \in Nat
      /\ \A s \in Setting : running[s].version \in Nat
  BY DaemonAssumption DEF IndInv, DaemonTypeOK, File, Version
<1> USE <1>0
    DEF IndInv, DaemonTypeOK, Progress, CurrentUnlessTold, Follows, Applied, Exits,
        Listening, Setting, Alive, Dumps
<1>1. CASE Edit
  BY <1>1 DEF Edit
<1>2. CASE Hangup
  BY <1>2 DEF Hangup, Deliver
<1>3. CASE Terminate
  BY <1>3 DEF Terminate
<1>4. CASE MainLoad
  BY <1>4 DEF MainLoad, Exit
<1>5. CASE MainPid
  BY <1>5 DEF MainPid
<1>6. CASE MainAcl
  BY <1>6 DEF MainAcl, Exit
<1>7. CASE MainDbase
  <2>1. CASE pc' = "serve" /\ rpc' = "notify"
    BY <1>7, <2>1 DEF MainDbase
  <2>2. CASE (Exit(1) \/ Exit(2)) /\ UNCHANGED <<rpc, dumper>>
    BY <1>7, <2>2 DEF MainDbase, Exit
  <2>3. QED
    BY <1>7, <2>1, <2>2 DEF MainDbase
<1>8. CASE MainServe \/ MainDrained \/ MainReturn
  BY <1>8 DEF MainServe, MainDrained, MainReturn, Exit
<1>9. CASE ReloadNotify
  BY <1>9 DEF ReloadNotify
<1>10. CASE ReloadWake
  BY <1>10 DEF ReloadWake
<1>11. CASE ReloadStop
  BY <1>11 DEF ReloadStop
<1>12. CASE ReloadLoad
  BY <1>12 DEF ReloadLoad
<1>13. CASE ReloadAcl
  BY <1>13 DEF ReloadAcl, Apply
<1>14. CASE ReloadSetting
  BY <1>14 DEF ReloadSetting, Apply
<1>15. CASE ReloadInterval
  BY <1>15 DEF ReloadInterval, Apply
<1>16. CASE ReloadBind
  BY <1>16 DEF ReloadBind, Apply
<1>17. CASE LimiterPanics
  BY <1>17 DEF LimiterPanics, Exit
<1>18. CASE UNCHANGED vars
  BY <1>18 DEF vars
<1>19. QED
  BY <1>1, <1>2, <1>3, <1>4, <1>5, <1>6, <1>7, <1>8, <1>9, <1>10, <1>11, <1>12, <1>13,
     <1>14, <1>15, <1>16, <1>17, <1>18
  DEF Next, Main, ReloadLoop

\* No step puts a file in effect that did not pass the checks.
LEMMA CheckedStep ==
  ASSUME IndInv, [Next]_vars
  PROVE  Checked'
<1> USE DEF IndInv, DaemonTypeOK, Checked, Exits, Setting
<1>1. CASE MainLoad
  <2>1. CASE pc' = "pid"
    <3>1. dumper' = FALSE /\ rpc' = "off"
      BY <1>1 DEF MainLoad, CurrentUnlessTold
    <3>2. QED
      BY <1>1, <2>1, <3>1 DEF MainLoad, Exit
  <2>2. CASE pc' = "exited"
    BY <2>2
  <2>3. QED
    BY <1>1, <2>1, <2>2 DEF MainLoad, Exit
<1>2. CASE MainDbase
  <2>1. cfg.text \in Text /\ Load(cfg.text) /\ running["interval"] = cfg
    BY <1>2, DaemonAssumption DEF MainDbase, File, Parses, Follows, CurrentUnlessTold
  <2>2. Conf(cfg).stats => Conf(cfg).dump > 0
    BY <2>1, LoadedIsUsable, Defaulted DEF Conf
  <2>3. Conf(cfg).concurrent \in Int \ {0}
    BY <2>1, Defaulted DEF Conf
  <2>4. CASE pc' = "serve"
    <3>1. Conf(cfg).concurrent > 0 /\ dumper' = Conf(cfg).stats /\ UNCHANGED <<cfg, running>>
      BY <1>2, <2>3, <2>4 DEF MainDbase, Exit
    <3>2. QED
      BY <1>2, <2>1, <2>2, <3>1 DEF MainDbase, Conf
  <2>5. QED
    BY <1>2, <2>4 DEF MainDbase, Exit
<1>3. CASE MainPid \/ MainAcl \/ MainServe \/ MainDrained \/ MainReturn
  BY <1>3 DEF MainPid, MainAcl, MainServe, MainDrained, MainReturn, Exit
<1>4. CASE Edit \/ Hangup \/ Terminate
  BY <1>4 DEF Edit, Hangup, Terminate
<1>5. CASE ReloadNotify \/ ReloadWake \/ ReloadStop
  BY <1>5 DEF ReloadNotify, ReloadWake, ReloadStop
<1>6. CASE ReloadLoad
  BY <1>6 DEF ReloadLoad
<1>7. CASE ReloadAcl \/ ReloadSetting \/ ReloadBind
  BY <1>7 DEF ReloadAcl, ReloadSetting, ReloadBind, Apply
<1>8. CASE ReloadInterval
  BY <1>8 DEF ReloadInterval, Apply, Dumps
<1>9. CASE LimiterPanics
  BY <1>9 DEF LimiterPanics, Exit
<1>10. CASE UNCHANGED vars
  BY <1>10 DEF vars
<1>11. QED
  BY <1>1, <1>2, <1>3, <1>4, <1>5, <1>6, <1>7, <1>8, <1>9, <1>10 DEF Next, Main, ReloadLoop

\* The invariant holds in every reachable state.
LEMMA Inductive == Spec => []IndInv
<1>1. IndInv /\ [Next]_vars => IndInv'
  BY TypeStep, AgreementStep, CheckedStep DEF IndInv
<1>2. QED
  BY InitInv, <1>1, PTL DEF Spec

-----------------------------------------------------------------------------
\* The variables keep their types.
THEOREM TypeCorrect == Spec => []DaemonTypeOK
<1>1. IndInv => DaemonTypeOK
  BY DEF IndInv
<1>2. QED
  BY Inductive, <1>1, PTL

\* A settled daemon runs with the file's settings: signals that were merged
\* in the channel, or arrived during a reload, lose no edit.
THEOREM NoEditIsLost == Spec => []ReloadConverges
<1>1. IndInv => ReloadConverges
  BY DEF IndInv, Progress, CurrentUnlessTold, Follows, Applied, Setting, ReloadConverges,
         Settled
<1>2. QED
  BY Inductive, <1>1, PTL

\* The settings in effect between reloads come from one version of the file,
\* and what could not be changed is older.
THEOREM SettingsAgree == Spec => []SettingsOfOneFile
<1>1. IndInv => SettingsOfOneFile
  BY DEF IndInv, Progress, Follows, Applied, Setting, SettingsOfOneFile
<1>2. QED
  BY Inductive, <1>1, PTL

\* No configuration an operator can write, loaded at startup or by a reload,
\* puts settings in effect that lack a default or fail a check; of an idle_ttl
\* and a max_concurrent, which have no check, only the default is claimed.
THEOREM OnlyUsableSettings == Spec => []UsableSettings
<1>1. ASSUME IndInv PROVE UsableSettings
  <2> SUFFICES ASSUME pc \notin {"load"} \cup Exits PROVE UsableSettings
    BY DEF UsableSettings
  <2>1. \A s \in Setting : running[s].text \in Text /\ Load(running[s].text)
    BY <1>1, DaemonAssumption DEF IndInv, DaemonTypeOK, Checked, Parses, File
  <2>2. (dumper => Conf(running["interval"]).dump > 0) /\ (rpc = "notify" => Conf(cfg).concurrent > 0)
    BY <1>1 DEF IndInv, Checked
  <2>3. CanPlan(Conf(cfg).sources)
    BY <1>1, DaemonAssumption, LoadedIsUsable DEF IndInv, DaemonTypeOK, Checked, Parses, File, Conf
  <2>4. QED
    BY <2>1, <2>2, <2>3, LoadedIsUsable DEF UsableSettings, Conf, Setting
<1>2. QED
  BY Inductive, <1>1, PTL
=============================================================================
