------------------------------- MODULE Dumper -------------------------------
(***************************************************************************)
(* stats.Dumper (internal/stats/dumper.go): Run with its ticker and nudge  *)
(* channel, SetInterval called by the SIGHUP handler, dumpOnce writing the *)
(* snapshot file, and the readers of its results: the file's consumers and *)
(* the /stats.json handler of internal/stats/http.go.                      *)
(*                                                                         *)
(* A snapshot is abstracted to how much had happened when it was taken     *)
(* (clock); an interval to an element of Intervals.                        *)
(***************************************************************************)
EXTENDS Naturals

CONSTANTS
  Intervals,     \* values stats.dump_interval takes
  Interval,      \* the value main starts the dumper with
  MaxClock,      \* bound: events the statistics count
  MaxSets        \* bound: SetInterval calls

ASSUME DumperAssumption ==
  /\ Interval \in Intervals
  /\ MaxClock \in Nat \ {0} /\ MaxSets \in Nat

None == 0              \* no snapshot yet
Torn == MaxClock + 1   \* a partial payload

VARIABLES
  clock,      \* what the statistics have counted so far
  cancelled,  \* the context was cancelled
  pc,         \* where Run is
  snap,       \* the snapshot dumpOnce is working on
  last,       \* d.last, None before the first dump
  file,       \* content of dump_path: a snapshot, None or Torn
  tmp,        \* content of the temporary file
  curIntvl,   \* d.curIntvl
  nudge,      \* tokens in d.nudge
  ticker,     \* Run's cur: the interval the ticker runs at
  setPc,      \* where a SetInterval call is
  sets,       \* SetInterval calls so far
  reply       \* the last /stats.json response: [got, floor]

\* Auxiliary, for the properties only.
VARIABLES
  wanted,     \* the interval SetInterval was last called with
  early       \* that call came before Run had stored its initial interval

vars == <<clock, cancelled, pc, snap, last, file, tmp, curIntvl, nudge, ticker,
          setPc, sets, reply, wanted, early>>

Snapshot == 1..MaxClock
Content == Snapshot \cup {None, Torn}

TypeOK ==
  /\ clock \in Snapshot /\ cancelled \in BOOLEAN
  /\ pc \in {"start", "snap", "publish", "create", "write", "rename", "select", "stopped"}
  /\ snap \in Snapshot \cup {None} /\ last \in Snapshot \cup {None}
  /\ file \in Content /\ tmp \in Content
  /\ curIntvl \in Intervals /\ ticker \in Intervals
  /\ nudge \in 0..1
  /\ setPc \in {"idle", "send"}
  /\ wanted \in Intervals /\ early \in BOOLEAN
  /\ sets \in 0..MaxSets

Init ==
  /\ clock = 1 /\ cancelled = FALSE
  /\ pc = "start"
  /\ snap = None /\ last = None
  /\ file = None /\ tmp = None
  /\ curIntvl = Interval /\ nudge = 0 /\ ticker = Interval
  /\ setPc = "idle" /\ sets = 0
  /\ wanted = Interval /\ early = FALSE
  /\ reply = [got |-> 0, floor |-> 0]

dump == <<snap, last, file, tmp>>
asked == <<wanted, early>>
knob == <<curIntvl, nudge, setPc, sets, asked>>

-----------------------------------------------------------------------------
(* The environment: queries are counted, a shutdown is requested. *)

Count ==
  /\ clock < MaxClock
  /\ clock' = clock + 1
  /\ UNCHANGED <<cancelled, pc, dump, knob, ticker, reply>>

Cancel ==
  /\ ~cancelled
  /\ cancelled' = TRUE
  /\ UNCHANGED <<clock, pc, dump, knob, ticker, reply>>

-----------------------------------------------------------------------------
(* SetInterval: store under the lock, then a non-blocking send. *)

SetLock(i) ==
  /\ setPc = "idle"
  /\ sets < MaxSets
  /\ curIntvl' = i
  /\ wanted' = i
  /\ early' = (pc = "start")
  /\ sets' = sets + 1
  /\ setPc' = "send"
  /\ UNCHANGED <<clock, cancelled, pc, dump, nudge, ticker, reply>>

\* Mutant: a send into a channel without a buffer.
SetSendUnbuffered ==
  /\ setPc = "send"
  /\ setPc' = "idle"
  /\ UNCHANGED <<clock, cancelled, pc, dump, curIntvl, nudge, asked, sets, ticker, reply>>

\* Mutant: every call queues a token of its own.
SetSendQueues ==
  /\ setPc = "send"
  /\ nudge' = nudge + 1
  /\ setPc' = "idle"
  /\ UNCHANGED <<clock, cancelled, pc, dump, curIntvl, asked, sets, ticker, reply>>

SetSend ==
  /\ setPc = "send"
  /\ nudge' = 1
  /\ setPc' = "idle"
  /\ UNCHANGED <<clock, cancelled, pc, dump, curIntvl, asked, sets, ticker, reply>>

-----------------------------------------------------------------------------
(* Run and dumpOnce *)

\* Run sets the interval it was started with, over whatever a SetInterval that
\* came before it has set.
Start ==
  /\ pc = "start"
  /\ curIntvl' = Interval
  /\ ticker' = Interval
  /\ pc' = "snap"
  /\ UNCHANGED <<clock, cancelled, dump, nudge, setPc, asked, sets, reply>>

TakeSnap ==
  /\ pc = "snap"
  /\ snap' = clock
  /\ pc' = "publish"
  /\ UNCHANGED <<clock, cancelled, last, file, tmp, knob, ticker, reply>>

\* Mutant: only the first payload is kept for the HTTP handler.
PublishOnce ==
  /\ pc = "publish"
  /\ last' = IF last = None THEN snap ELSE last
  /\ pc' \in {"create", "select"}
  /\ UNCHANGED <<clock, cancelled, snap, file, tmp, knob, ticker, reply>>

\* d.last is set; the file is skipped when no path is configured or the
\* directory cannot be made.
Publish ==
  /\ pc = "publish"
  /\ last' = snap
  /\ pc' \in {"create", "select"}
  /\ UNCHANGED <<clock, cancelled, snap, file, tmp, knob, ticker, reply>>

\* Mutant: the file is opened for truncation before the payload is written.
CreateInPlace ==
  /\ pc = "create"
  /\ file' = Torn
  /\ tmp' = Torn
  /\ pc' = "write"
  /\ UNCHANGED <<clock, cancelled, snap, last, knob, ticker, reply>>

Create ==
  /\ pc = "create"
  /\ \/ tmp' = Torn /\ pc' = "write"
     \/ tmp' = tmp /\ pc' = "select"
  /\ UNCHANGED <<clock, cancelled, snap, last, file, knob, ticker, reply>>

\* The payload is in the temporary file, or the file is removed.
WriteTmp ==
  /\ pc = "write"
  /\ \/ tmp' = snap /\ pc' = "rename"
     \/ tmp' = None /\ pc' = "select"
  /\ UNCHANGED <<clock, cancelled, snap, last, file, knob, ticker, reply>>

Rename ==
  /\ pc = "rename"
  /\ \/ file' = tmp /\ tmp' = None
     \/ UNCHANGED <<file, tmp>>
  /\ pc' = "select"
  /\ UNCHANGED <<clock, cancelled, snap, last, knob, ticker, reply>>

\* The three cases of the select; any that is ready may be taken.
Tick ==
  /\ pc = "select"
  /\ pc' = "snap"
  /\ UNCHANGED <<clock, cancelled, dump, knob, ticker, reply>>

Nudged ==
  /\ pc = "select"
  /\ nudge = 1
  /\ nudge' = 0
  /\ ticker' = curIntvl
  /\ UNCHANGED <<clock, cancelled, pc, dump, curIntvl, setPc, asked, sets, reply>>

Stop ==
  /\ pc = "select"
  /\ cancelled
  /\ pc' = "stopped"
  /\ UNCHANGED <<clock, cancelled, dump, knob, ticker, reply>>

-----------------------------------------------------------------------------
\* GET /stats.json: d.last, or a snapshot made on demand before the first dump.
Serve ==
  /\ reply' = [got   |-> IF last = None THEN clock ELSE last,
               floor |-> file]
  /\ UNCHANGED <<clock, cancelled, pc, dump, knob, ticker>>

RunStep == Start \/ TakeSnap \/ Publish \/ Create \/ WriteTmp \/ Rename \/ Tick \/ Nudged \/ Stop

Next == RunStep \/ Count \/ Cancel \/ SetSend \/ Serve \/ \E i \in Intervals : SetLock(i)

Spec == Init /\ [][Next]_vars

\* Run is scheduled, SetInterval returns, and the select, which picks a ready
\* case at random, does not pass over a pending nudge for ever.
Fairness == WF_vars(RunStep) /\ SF_vars(Nudged) /\ SF_vars(Stop) /\ WF_vars(SetSend)

FairSpec == Spec /\ Fairness

-----------------------------------------------------------------------------
(* Properties *)

\* A reader of dump_path never sees a partial payload, and each rewrite is
\* at least as recent as the one before ("a concurrent reader never observes
\* a partial file").
FileAdvances ==
  [][file' # file => file' \in Snapshot /\ file <= file']_vars

\* A dashboard client is never shown older numbers than the file holds
\* ("clients see consistent freshness even if the disk dump cadence is slow").
HttpNotBehindFile == reply.floor <= reply.got

\* The last interval set becomes the ticker's, unless Run stops first ("the new
\* value takes effect", dumper.go:22-23, 48-50): a nudge that finds the channel
\* full is not a lost update.  A call that comes before Run has started, and is
\* the last, is excluded: Run overwrites it (dumper.go:77).
IntervalApplied == <>[](pc = "stopped" \/ early \/ ticker = wanted)
=============================================================================
