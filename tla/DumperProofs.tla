----------------------------- MODULE DumperProofs ---------------------------
(***************************************************************************)
(* Proofs for module Dumper: the dump file and the HTTP endpoint, for any  *)
(* number of events, intervals and SetInterval calls, and any sequence of  *)
(* failing file operations.                                                *)
(***************************************************************************)
EXTENDS Dumper, TLAPS

(***************************************************************************)
(* The inductive invariant.                                                *)
(***************************************************************************)

Replies == [got : Content, floor : Content]

\* What has been written is not newer than what was published, that not newer
\* than what dumpOnce works on, and that not newer than what was counted.
Ordered ==
  /\ file <= last /\ last <= snap /\ snap <= clock
  /\ pc \in {"create", "write", "rename"} => last = snap

\* There is a snapshot to work on, and before the rename it is complete in the
\* temporary file.
Complete ==
  /\ pc \in {"publish", "create", "write", "rename"} => snap \in Snapshot
  /\ pc = "rename" => tmp = snap

IndInv == TypeOK /\ reply \in Replies /\ Ordered /\ Complete /\ HttpNotBehindFile

-----------------------------------------------------------------------------
\* The constants are natural numbers, and a torn file is no snapshot.
LEMMA Bounds == MaxClock \in Nat /\ MaxClock >= 1 /\ MaxSets \in Nat /\ Interval \in Intervals
BY DumperAssumption

\* The initial state satisfies the invariant.
LEMMA InitInv == Init => IndInv
<1> SUFFICES ASSUME Init PROVE IndInv
  OBVIOUS
<1> USE Bounds DEF Init, Snapshot, Content, None, Torn
<1>1. TypeOK
  <2>1. cancelled \in BOOLEAN /\ setPc \in {"idle", "send"}
        /\ curIntvl \in Intervals /\ ticker \in Intervals
        /\ wanted \in Intervals /\ early \in BOOLEAN
    OBVIOUS
  <2>2. clock \in Snapshot /\ snap \in Snapshot \cup {None} /\ last \in Snapshot \cup {None}
    OBVIOUS
  <2>3. file \in Content /\ tmp \in Content
    OBVIOUS
  <2>4. nudge \in 0..1 /\ sets \in 0..MaxSets
    OBVIOUS
  <2>5. pc \in {"start", "snap", "publish", "create", "write", "rename", "select", "stopped"}
    OBVIOUS
  <2>6. QED
    BY <2>1, <2>2, <2>3, <2>4, <2>5 DEF TypeOK
<1>2. reply \in Replies /\ reply.floor = 0 /\ reply.got = 0
  BY DEF Replies
<1>3. Ordered /\ Complete
  BY DEF Ordered, Complete
<1>4. QED
  BY <1>1, <1>2, <1>3 DEF IndInv, HttpNotBehindFile

\* Every step of dumpOnce and Run keeps the invariant, whichever of its file
\* operations fail.
LEMMA RunInv ==
  ASSUME IndInv, RunStep
  PROVE  IndInv'
<1> USE Bounds
    DEF IndInv, TypeOK, Replies, Ordered, Complete, HttpNotBehindFile, Snapshot, Content, None, Torn,
        dump, knob, asked
<1>1. CASE Start
  BY <1>1 DEF Start
<1>2. CASE TakeSnap
  BY <1>2 DEF TakeSnap
<1>3. CASE Publish
  BY <1>3 DEF Publish
<1>4. CASE Create
  BY <1>4 DEF Create
<1>5. CASE WriteTmp
  BY <1>5 DEF WriteTmp
<1>6. CASE Rename
  BY <1>6 DEF Rename
<1>7. CASE Tick
  BY <1>7 DEF Tick
<1>8. CASE Nudged
  BY <1>8 DEF Nudged
<1>9. CASE Stop
  BY <1>9 DEF Stop
<1>10. QED
  BY <1>1, <1>2, <1>3, <1>4, <1>5, <1>6, <1>7, <1>8, <1>9 DEF RunStep

\* Every other step does.
LEMMA StepInv ==
  ASSUME IndInv, [Next]_vars
  PROVE  IndInv'
<1>1. CASE RunStep
  BY <1>1, RunInv
<1> USE Bounds
    DEF IndInv, TypeOK, Replies, Ordered, Complete, HttpNotBehindFile, Snapshot, Content, None, Torn,
        dump, knob, asked
<1>2. CASE Count
  BY <1>2 DEF Count
<1>3. CASE Cancel
  BY <1>3 DEF Cancel
<1>4. CASE SetSend
  BY <1>4 DEF SetSend
\* Before the first dump the file has no snapshot either.
<1>5. CASE Serve
  <2>1. last = 0 => file = 0
    OBVIOUS
  <2>2. /\ reply'.got = (IF last = 0 THEN clock ELSE last) /\ reply'.floor = file
        /\ reply' \in Replies
    BY <1>5 DEF Serve
  <2>3. reply'.floor <= reply'.got
    BY <2>1, <2>2
  <2>4. QED
    BY <1>5, <2>2, <2>3 DEF Serve
<1>6. ASSUME NEW i \in Intervals, SetLock(i) PROVE IndInv'
  BY <1>6 DEF SetLock
<1>7. CASE UNCHANGED vars
  BY <1>7 DEF vars
<1>8. QED
  BY <1>1, <1>2, <1>3, <1>4, <1>5, <1>6, <1>7 DEF Next

\* The invariant holds in every reachable state.
LEMMA Inductive == Spec => []IndInv
<1>1. IndInv /\ [Next]_vars => IndInv'
  BY StepInv
<1>2. QED
  BY InitInv, <1>1, PTL DEF Spec

-----------------------------------------------------------------------------
\* The variables of the dumper keep their types; in particular the nudge
\* channel never holds more than one token.
THEOREM TypeCorrect == Spec => []TypeOK
<1>1. IndInv => TypeOK
  BY DEF IndInv
<1>2. QED
  BY Inductive, <1>1, PTL

\* No client of /stats.json is shown older numbers than the dump file had when
\* it asked, not even before the first dump or when every write fails.
THEOREM HttpIsNotBehind == Spec => []HttpNotBehindFile
<1>1. IndInv => HttpNotBehindFile
  BY DEF IndInv
<1>2. QED
  BY Inductive, <1>1, PTL

\* The dump file only changes from one complete snapshot to a later one, in
\* whichever order file operations fail.
THEOREM DumpsAdvance == Spec => FileAdvances
<1>1. IndInv /\ [Next]_vars => [file' # file => file' \in Snapshot /\ file <= file']_vars
  <2> SUFFICES ASSUME IndInv, Next, file' # file
               PROVE  file' \in Snapshot /\ file <= file'
    OBVIOUS
  <2>1. Rename
    BY DEF Next, RunStep, Count, Cancel, SetLock, SetSend, Start, TakeSnap, Publish, Create, WriteTmp,
           Tick, Nudged, Stop, Serve, dump
  <2>2. file' = snap /\ pc = "rename"
    BY <2>1 DEF Rename, IndInv, Complete
  <2>3. snap \in Snapshot /\ file <= last /\ last = snap
    BY <2>2 DEF IndInv, Ordered, Complete
  <2>4. QED
    BY <2>2, <2>3
<1>2. QED
  BY Inductive, <1>1, PTL DEF Spec, FileAdvances
=============================================================================
