----------------------------- MODULE Refresher ------------------------------
(***************************************************************************)
(* The schedule of refreshLoop (main.go) on top of the refresh pipeline:   *)
(* nextRefresh and DailyAt.Next (internal/config/config.go) decide how     *)
(* long the loop waits after each refresh.  Time is counted in ticks of a  *)
(* day of Day ticks; the intervals are in ticks.  A refresh takes as long  *)
(* as it takes, the process may be down for any time.                      *)
(***************************************************************************)
EXTENDS Dbase

CONSTANTS
  Day,             \* ticks of a day
  DailyAt,         \* dbase.daily_at, a time of day
  PollInterval,    \* dbase.poll_interval
  RetryOnFailure   \* dbase.retry_on_failure

ASSUME RefresherAssumption ==
  /\ Day \in Nat \ {0} /\ DailyAt \in 0..(Day - 1)
  /\ PollInterval \in Nat \ {0} /\ RetryOnFailure \in Nat \ {0}

VARIABLES
  tod,    \* the time of day
  wait    \* ticks until the timer of refreshLoop fires

tvars == <<vars, tod, wait>>

\* Mutant: the anchor of the present moment is still ahead.
DailyAtNextNotStrict(from) == IF DailyAt >= from THEN DailyAt - from ELSE DailyAt + Day - from

\* DailyAt.Next: ticks until the anchor, strictly after the given time.
DailyAtNext(from) == IF DailyAt > from THEN DailyAt - from ELSE DailyAt + Day - from

\* nextRefresh: ticks to wait.
nextRefresh(from, err) ==
  IF err THEN RetryOnFailure
  ELSE IF DailyAtNext(from) < PollInterval THEN DailyAtNext(from) ELSE PollInterval

\* The timer of a process that has just started is not used: main refreshes
\* at once.
TimedInit == Init /\ tod \in 0..(Day - 1) /\ wait = 0

\* A refresh that ends with the process alive schedules the next one.
Schedule ==
  /\ wait' = IF phase' = "idle" THEN nextRefresh(tod, lastErr') ELSE 0
  /\ UNCHANGED tod

TimedStart == wait = 0 /\ StartRefresh /\ Schedule
TimedCollect == Collect /\ Schedule
TimedFinish == FinishReload /\ Schedule

\* The rest of the pipeline takes no notice of the timer.
Untimed ==
  /\ Restart \/ Crash \/ Heal \/ \E f \in File : Publish(f) \/ FetchStep(f) \/ LoadStep(f)
  /\ wait' = IF phase' = "down" THEN 0 ELSE wait
  /\ UNCHANGED tod

\* Time passes, except that a timer that is due fires first.
Tick ==
  /\ ~(phase = "idle" /\ wait = 0)
  /\ tod' = (tod + 1) % Day
  /\ wait' = IF wait = 0 THEN 0 ELSE wait - 1
  /\ UNCHANGED vars

TimedNext == TimedStart \/ TimedCollect \/ TimedFinish \/ Untimed \/ Tick

\* As in Dbase; and time passes.
TimedFairness ==
  /\ WF_tvars(Tick) /\ WF_tvars(TimedStart) /\ WF_tvars(TimedCollect) /\ WF_tvars(TimedFinish)
  /\ WF_tvars(Restart /\ Untimed) /\ WF_tvars(Heal /\ Untimed)
  /\ \A f \in File : WF_tvars(FetchStep(f) /\ Untimed) /\ WF_tvars(LoadStep(f) /\ Untimed)

TimedSpec == TimedInit /\ [][TimedNext]_tvars /\ TimedFairness

-----------------------------------------------------------------------------
(* Properties *)

\* A daemon that is waiting after a successful refresh starts one when the
\* clock reaches daily_at, and no refresh is followed by another at the same
\* moment: the anchor is neither slept through nor taken twice ("guarantees
\* one fresh attempt shortly after the daily publish window", README.md).
AnchorKept ==
  [][/\ tod' # tod /\ tod' = DailyAt /\ phase = "idle" /\ ~lastErr => wait' = 0
     /\ phase' = "idle" /\ phase \notin {"idle", "down"} => wait' > 0]_tvars
=============================================================================
