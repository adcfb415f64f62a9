-------------------------- MODULE SubmissionProofs --------------------------
(***************************************************************************)
(* That a workload is started at most once, that the journal is true of    *)
(* it and that no outcome is guessed, for any controllers and attempts,    *)
(* fenced or not, on a runtime that remembers what it finished or forgets  *)
(* it, through any number of crashes and errors.                           *)
(***************************************************************************)
EXTENDS Submission, TLAPS

\* A request that the runtime may yet receive for the first time.
Pending(c, o) == pc[c][o] = "issue" \/ <<c, o>> \in transit

\* No usable completion is in the record, and none will be once the worker is gone.
NeverUsable(o) ==
  report[o] \in {"none", "unusable"} \/ (report[o] = "emitted" /\ degraded[o])

\* What the runtime and the record say of an ending s.
Vouched(o, s) ==
  /\ s \in {"succeeded", "cancelled", "preempted"} => wl[o] = s
  /\ s = "succeeded" /\ o \in Evaluations => report[o] = "usable"
  /\ s = "failed" => \/ wl[o] \in {"failed", "rejected"}
                     \/ o \in Evaluations /\ wl[o] = "succeeded" /\ NeverUsable(o)

\* An attempt exists from its intent on, and a run before it; a workload is
\* started for an intent alone; and what the record says of it is true.
RecordInv(o) ==
  /\ sub[o] = "none" <=> att[o] = "none"
  /\ run[o] = "none" => att[o] = "none"
  /\ starts[o] = IF wl[o] \in {"absent", "rejected"} THEN 0 ELSE 1
  /\ forgot[o] => ~ReportsCompleted /\ wl[o] \in Gone
  /\ wl[o] # "absent" => sub[o] # "none"
  /\ sub[o] = "confirmed" => starts[o] > 0
  /\ sub[o] = "failed" => wl[o] = "rejected"
  /\ att[o] \in Ended => Vouched(o, att[o])

\* A runtime that forgets is asked once: there is one request, and when the
\* runtime has received it there is none.
SentOnce(o) ==
  \A c \in Controllers :
    /\ Pending(c, o) => sub[o] # "none"
    /\ ~ReportsCompleted /\ Pending(c, o) =>
         /\ wl[o] = "absent"
         /\ pc[c][o] = "issue" => <<c, o>> \notin transit
         /\ \A d \in Controllers : Pending(d, o) => d = c

\* What a coroutine knows where it is.
KnownAt(c, o) ==
  /\ pc[c][o] \notin {"idle", "todo", "begun"} => sub[o] # "none"
  /\ pc[c][o] = "begun" => o \in Evaluations
  /\ pc[c][o] = "accepted" => starts[o] > 0
  /\ pc[c][o] = "refused" => wl[o] = "rejected"
  /\ pc[c][o] \in {"adopt", "watch"} => sub[o] = "confirmed"
  /\ pc[c][o] = "result" => o \in Evaluations /\ Vouched(o, "succeeded")
  /\ pc[c][o] = "settle" => Vouched(o, seen[c][o])
  /\ pc[c][o] = "settleRun" => att[o] = seen[c][o]

OperationInv(o) ==
  /\ RecordInv(o)
  /\ SentOnce(o)
  /\ \A c \in Controllers : KnownAt(c, o)

SubmissionInv == TypeOK /\ \A o \in Operations : OperationInv(o)

-----------------------------------------------------------------------------
(* What a step leaves alone. *)

\* Nothing that a coroutine relied on is taken back.
Stays(o) ==
  /\ sub[o] # "none" => sub'[o] # "none"
  /\ sub[o] = "confirmed" => sub'[o] = "confirmed"
  /\ starts[o] > 0 => starts'[o] > 0
  /\ wl[o] = "rejected" => wl'[o] = "rejected"
  /\ att[o] \in Ended => att'[o] = att[o]
  /\ \A s \in Ended : Vouched(o, s) => Vouched(o, s)'

\* The record of an operation is as it was, but for its run's status.
Fixed(o) ==
  /\ wl'[o] = wl[o] /\ starts'[o] = starts[o] /\ forgot'[o] = forgot[o]
  /\ sub'[o] = sub[o] /\ att'[o] = att[o]
  /\ run[o] # "none" => run'[o] # "none"
  /\ report'[o] = report[o] /\ degraded'[o] = degraded[o]

\* A coroutine stays where it was, or gives up.
Keeps(c, o) ==
  \/ pc'[c][o] \in {"idle", "todo"}
  \/ pc'[c][o] = pc[c][o] /\ seen'[c][o] = seen[c][o]

\* What is said of one operation does not depend on the others.
Apart(o) ==
  /\ Fixed(o)
  /\ \A c \in Controllers : Keeps(c, o) /\ (<<c, o>> \in transit' => <<c, o>> \in transit)

LEMMA FixedStays ==
  ASSUME NEW o \in Operations, Fixed(o), RecordInv(o)
  PROVE  Stays(o) /\ RecordInv(o)'
<1>1. ASSUME NEW s \in Ended PROVE Vouched(o, s)' <=> Vouched(o, s)
  BY DEF Fixed, Vouched, NeverUsable
<1>2. Stays(o)
  BY <1>1 DEF Fixed, Stays
<1>3. RecordInv(o)'
  BY <1>1 DEF Fixed, RecordInv
<1> QED
  BY <1>2, <1>3

LEMMA KnownStays ==
  ASSUME TypeOK, NEW c \in Controllers, NEW o \in Operations, Stays(o), Keeps(c, o), KnownAt(c, o)
  PROVE  KnownAt(c, o)'
<1>1. CASE pc'[c][o] \in {"idle", "todo"}
  BY <1>1 DEF KnownAt
<1>2. CASE pc'[c][o] = pc[c][o] /\ seen'[c][o] = seen[c][o]
  <2>1. seen[c][o] \in Ended /\ "succeeded" \in Ended
    BY DEF TypeOK, Ended
  <2>2. pc[c][o] = "settleRun" => att'[o] = seen[c][o]
    BY <2>1 DEF KnownAt, Stays
  <2>3. pc[c][o] = "settle" => Vouched(o, seen[c][o])'
    BY <2>1, <1>2 DEF KnownAt, Stays
  <2>4. pc[c][o] = "result" => o \in Evaluations /\ Vouched(o, "succeeded")'
    BY <2>1 DEF KnownAt, Stays
  <2> QED
    BY <1>2, <2>2, <2>3, <2>4 DEF KnownAt, Stays
<1> QED
  BY <1>1, <1>2 DEF Keeps

LEMMA SentStays ==
  ASSUME NEW o \in Operations, SentOnce(o), Stays(o), wl[o] = "absent" => wl'[o] = "absent",
         \A c \in Controllers : /\ pc'[c][o] = "issue" => pc[c][o] = "issue"
                                /\ <<c, o>> \in transit' => <<c, o>> \in transit
  PROVE  SentOnce(o)'
BY DEF SentOnce, Pending, Stays

LEMMA ApartKeeps ==
  ASSUME TypeOK, NEW o \in Operations, OperationInv(o), Apart(o)
  PROVE  OperationInv(o)'
<1>1. Stays(o) /\ RecordInv(o)'
  BY FixedStays DEF OperationInv, Apart
<1>2. SentOnce(o)'
  BY <1>1, SentStays DEF OperationInv, Apart, Fixed, Keeps
<1>3. ASSUME NEW c \in Controllers PROVE KnownAt(c, o)'
  BY <1>1, KnownStays DEF OperationInv, Apart
<1> QED
  BY <1>1, <1>2, <1>3 DEF OperationInv

\* A step of controller c with o, when o is disturbed: what is left to show.
LEMMA StepOf ==
  ASSUME TypeOK, NEW c \in Controllers, NEW o \in Operations, OperationInv(o),
         \A d \in Controllers \ {c} : Keeps(d, o),
         Stays(o), RecordInv(o)', SentOnce(o)', KnownAt(c, o)'
  PROVE  OperationInv(o)'
<1>1. ASSUME NEW d \in Controllers, d # c PROVE KnownAt(d, o)'
  BY <1>1, KnownStays DEF OperationInv
<1> QED
  BY <1>1 DEF OperationInv

-----------------------------------------------------------------------------
(* What the helpers do. *)

\* Where a coroutine goes: its own counter alone.
LEMMA GotoIs ==
  ASSUME TypeOK, NEW c \in Controllers, NEW o \in Operations, NEW s \in Steps, Goto(c, o, s)
  PROVE  /\ pc' \in [Controllers -> [Operations -> Steps]]
         /\ pc'[c][o] = s
         /\ \A d \in Controllers, p \in Operations : <<d, p>> # <<c, o>> => pc'[d][p] = pc[d][p]
BY DEF TypeOK, Goto

\* An exception ends its coroutine, and may end others of its process.
LEMMA AbandonIs ==
  ASSUME TypeOK, NEW c \in Controllers, NEW o \in Operations, Abandon(c, o)
  PROVE  /\ pc' \in [Controllers -> [Operations -> Steps]]
         /\ pc'[c][o] = "idle"
         /\ \A d \in Controllers, p \in Operations : pc'[d][p] \in {"idle", pc[d][p]}
<1>1. "idle" \in Steps
  BY DEF Steps
<1> QED
  BY <1>1 DEF TypeOK, Abandon

\* One outcome is remembered.
LEMMA SeenIs ==
  ASSUME TypeOK, NEW c \in Controllers, NEW o \in Operations, NEW s \in Ended,
         seen' = [seen EXCEPT ![c][o] = s]
  PROVE  /\ seen' \in [Controllers -> [Operations -> Ended]]
         /\ seen'[c][o] = s
         /\ \A d \in Controllers, p \in Operations : <<d, p>> # <<c, o>> => seen'[d][p] = seen[d][p]
BY DEF TypeOK

\* The status of a workload that was confirmed is an ending the runtime and the
\* record vouch for, or none is concluded.
LEMMA ConcludeIs ==
  ASSUME SubmissionInv, NEW c \in Controllers, NEW o \in Operations, pc[c][o] = "watch",
         report[o] = "emitted" => degraded[o],
         NEW s \in Statuses(o) \ {"live"}, Conclude(o, s) # "escalate"
  PROVE  Conclude(o, s) \in Ended /\ Vouched(o, Conclude(o, s))
<1>1. wl[o] \in Gone /\ s = wl[o] /\ s # "lost"
  <2>1. wl[o] \in {"live"} \cup Gone
    <3>1. RecordInv(o) /\ KnownAt(c, o) /\ wl[o] \in Workloads
      BY DEF SubmissionInv, OperationInv, TypeOK, RuntimeTypeOK
    <3> QED
      BY <3>1 DEF RecordInv, KnownAt, Workloads
  <2> QED
    BY <2>1 DEF Statuses, Conclude, Gone, Endings
<1>2. report[o] \in {"none", "emitted", "usable", "unusable"}
  BY DEF SubmissionInv, TypeOK
<1> QED
  BY <1>1, <1>2 DEF Conclude, Gone, Endings, Ended, Vouched, NeverUsable

\* Two endings that are vouched for are one.
LEMMA VouchedOnce ==
  ASSUME NEW o \in Operations, NEW s \in Ended, NEW t \in Ended, Vouched(o, s), Vouched(o, t)
  PROVE  s = t
BY DEF Ended, Vouched, NeverUsable

-----------------------------------------------------------------------------
(* Type correctness. *)

\* A step of a controller with one attempt keeps the types.
LEMMA TypeOfStep ==
  ASSUME SubmissionInv, NEW c \in Controllers, NEW o \in Operations, Submit(c, o) \/ Drive(c, o)
  PROVE  TypeOK'
<1> DEFINE PcType == pc' \in [Controllers -> [Operations -> Steps]]
           SeenType == seen' \in [Controllers -> [Operations -> Ended]]
<1> USE DEF runtimeVars, journalVars, hostVars, boundVars
<1>a. TypeOK
  BY DEF SubmissionInv
<1>1. CASE Admit(c, o)
  <2>1. PcType
    BY <1>1, <1>a, GotoIs, AbandonIs DEF Admit, CreateWithIntent, Steps
  <2> HIDE DEF PcType, SeenType
  <2> QED
    BY <1>1, <2>1, <1>a, SubmissionAssumption DEF Admit, CreateWithIntent, PcType, SeenType, TypeOK, RuntimeTypeOK, Live, Ended
<1>2. CASE BeginCycle(c, o)
  <2>1. PcType
    BY <1>2, <1>a, GotoIs, AbandonIs DEF BeginCycle, Steps
  <2> HIDE DEF PcType, SeenType
  <2> QED
    BY <1>2, <2>1, <1>a, SubmissionAssumption DEF BeginCycle, PcType, SeenType, TypeOK, RuntimeTypeOK, Live, Ended
<1>3. CASE StartEvaluation(c, o)
  <2>1. PcType
    BY <1>3, <1>a, GotoIs, AbandonIs DEF StartEvaluation, CreateWithIntent, Steps
  <2> HIDE DEF PcType, SeenType
  <2> QED
    BY <1>3, <2>1, <1>a, SubmissionAssumption DEF StartEvaluation, CreateWithIntent, PcType, SeenType, TypeOK, RuntimeTypeOK, Live, Ended
<1>4. CASE Issue(c, o)
  <2>1. PcType
    BY <1>4, <1>a, GotoIs, AbandonIs DEF Issue, Steps
  <2> HIDE DEF PcType, SeenType
  <2> QED
    BY <1>4, <2>1, <1>a, SubmissionAssumption DEF Issue, PcType, SeenType, TypeOK, RuntimeTypeOK, Live, Ended
<1>5. CASE Confirm(c, o)
  <2>1. PcType
    BY <1>5, <1>a, GotoIs, AbandonIs DEF Confirm, Steps
  <2> HIDE DEF PcType, SeenType
  <2> QED
    BY <1>5, <2>1, <1>a, SubmissionAssumption DEF Confirm, PcType, SeenType, TypeOK, RuntimeTypeOK, Live, Ended
<1>6. CASE FailOperation(c, o)
  <2>1. PcType
    BY <1>6, <1>a, GotoIs, AbandonIs DEF FailOperation, Steps
  <2>2. SeenType
    BY <1>6, <1>a, SeenIs DEF FailOperation, Ended, TypeOK
  <2> HIDE DEF PcType, SeenType
  <2> QED
    BY <1>6, <2>1, <2>2, <1>a, SubmissionAssumption DEF FailOperation, PcType, SeenType, TypeOK, RuntimeTypeOK, Live, Ended
<1>7. CASE Adopt(c, o)
  <2>1. PcType
    BY <1>7, <1>a, GotoIs, AbandonIs DEF Adopt, Advance, Steps
  <2> HIDE DEF PcType, SeenType
  <2> QED
    BY <1>7, <2>1, <1>a, SubmissionAssumption DEF Adopt, Advance, PcType, SeenType, TypeOK, RuntimeTypeOK, Live, Ended
<1>8. CASE Hold(c, o)
  BY <1>8, <1>a, SubmissionAssumption DEF Hold, TypeOK, RuntimeTypeOK
<1>9. CASE ReadStatus(c, o)
  <2>1. PICK s \in Statuses(o) \ {"live"} :
          LET outcome == Conclude(o, s) IN
            IF outcome = "escalate"
              THEN Goto(c, o, "idle") /\ UNCHANGED seen
              ELSE /\ seen' = [seen EXCEPT ![c][o] = outcome]
                   /\ Goto(c, o, IF outcome = "succeeded" /\ o \in Evaluations THEN "result" ELSE "settle")
    BY <1>9 DEF ReadStatus
  <2>2. Conclude(o, s) # "escalate" => Conclude(o, s) \in Ended
    BY <1>9, ConcludeIs DEF ReadStatus, At
  <2>3. PcType
    BY <2>1, <1>a, GotoIs DEF Steps
  <2>4. SeenType
    BY <2>1, <2>2, <1>a, SeenIs DEF TypeOK
  <2> HIDE DEF PcType, SeenType
  <2> QED
    BY <1>9, <2>3, <2>4, <1>a, SubmissionAssumption DEF ReadStatus, PcType, SeenType, TypeOK, RuntimeTypeOK
<1>10. CASE RecordResult(c, o)
  <2>1. PcType
    BY <1>10, <1>a, GotoIs, AbandonIs DEF RecordResult, Steps
  <2> HIDE DEF PcType, SeenType
  <2> QED
    BY <1>10, <2>1, <1>a, SubmissionAssumption DEF RecordResult, PcType, SeenType, TypeOK, RuntimeTypeOK, Live, Ended
<1>11. CASE Settle(c, o)
  <2>1. PcType
    BY <1>11, <1>a, GotoIs, AbandonIs DEF Settle, Steps
  <2> HIDE DEF PcType, SeenType
  <2> QED
    BY <1>11, <2>1, <1>a, SubmissionAssumption DEF Settle, PcType, SeenType, TypeOK, RuntimeTypeOK, Live, Ended
<1>12. CASE SettleRun(c, o)
  <2>1. PcType
    BY <1>12, <1>a, GotoIs, AbandonIs DEF SettleRun, RunOutcome, Steps
  <2> HIDE DEF PcType, SeenType
  <2> QED
    BY <1>12, <2>1, <1>a, SubmissionAssumption DEF SettleRun, RunOutcome, PcType, SeenType, TypeOK, RuntimeTypeOK, Live, Ended
<1>13. CASE Finish(c, o)
  <2>1. PcType
    BY <1>13, <1>a, GotoIs, AbandonIs DEF Finish, Steps
  <2>2. SeenType
    BY <1>13, <1>a, SeenIs DEF Finish, Ended, TypeOK
  <2> HIDE DEF PcType, SeenType
  <2> QED
    BY <1>13, <2>1, <2>2, <1>a, SubmissionAssumption DEF Finish, PcType, SeenType, TypeOK, RuntimeTypeOK, Live, Ended
<1>14. CASE Reconcile(c, o)
  <2>1. PcType
    BY <1>14, <1>a, GotoIs, AbandonIs DEF Reconcile, ReconcileEvaluation, Steps
  <2>2. SeenType
    BY <1>14, <1>a, SeenIs DEF Reconcile, ReconcileEvaluation, Ended, TypeOK
  <2> HIDE DEF PcType, SeenType
  <2> QED
    BY <1>14, <2>1, <2>2, <1>a, SubmissionAssumption DEF Reconcile, ReconcileEvaluation, PcType, SeenType, TypeOK, RuntimeTypeOK, Live, Ended
<1>15. CASE LookUp(c, o)
  <2>1. PcType
    BY <1>15, <1>a, GotoIs, AbandonIs DEF LookUp, Steps
  <2> HIDE DEF PcType, SeenType
  <2> QED
    BY <1>15, <2>1, <1>a, SubmissionAssumption DEF LookUp, PcType, SeenType, TypeOK, RuntimeTypeOK, Live, Ended
<1>16. CASE Raise(c, o)
  <2>1. PcType
    BY <1>16, <1>a, GotoIs, AbandonIs DEF Raise, Steps
  <2> HIDE DEF PcType, SeenType
  <2> QED
    BY <1>16, <2>1, <1>a, SubmissionAssumption DEF Raise, PcType, SeenType, TypeOK, RuntimeTypeOK, Live, Ended
<1>17. ASSUME NEW t \in {"starting", "running"}, Observe(c, o, t) PROVE TypeOK'
  BY <1>17, <1>a, SubmissionAssumption DEF Observe, Advance, TypeOK, RuntimeTypeOK, Live, Ended
<1> QED
  BY <1>1, <1>2, <1>3, <1>4, <1>5, <1>6, <1>7, <1>8, <1>9, <1>10, <1>11, <1>12, <1>13, <1>14, <1>15, <1>16, <1>17 DEF Submit, Drive

\* A step of a process as a whole keeps the types.
LEMMA TypeOfProcess ==
  ASSUME TypeOK, NEW c \in Controllers, Attach(c) \/ Crash(c) \/ Superseded(c) \/ Start(c)
  PROVE  TypeOK'
<1> USE SubmissionAssumption
    DEF TypeOK, RuntimeTypeOK, Steps, Live, Ended, runtimeVars, journalVars, hostVars, boundVars
<1>1. CASE Attach(c)
  BY <1>1 DEF Attach
<1>2. CASE Crash(c)
  BY <1>2 DEF Crash, Down
<1>3. CASE Superseded(c)
  BY <1>3 DEF Superseded, Down
<1>4. CASE Start(c)
  BY <1>4 DEF Start
<1> QED
  BY <1>1, <1>2, <1>3, <1>4

\* A step of the runtime, of a worker or of a request keeps the types.
LEMMA TypeOfEnvironment ==
  ASSUME TypeOK, NEW o \in Operations, Environment(o)
  PROVE  TypeOK'
<1> USE DEF runtimeVars, journalVars, hostVars, boundVars
<1>1. CASE Runtime(o)
  BY <1>1 DEF Runtime, End, Forget, TypeOK, RuntimeTypeOK, Workloads
<1>2. CASE Report(o)
  BY <1>2 DEF Report, TypeOK, RuntimeTypeOK
<1>3. CASE Degrade(o)
  BY <1>3 DEF Degrade, TypeOK, RuntimeTypeOK
<1>4. ASSUME NEW c \in Controllers, Accept(c, o) \/ Reject(c, o) PROVE TypeOK'
  <2>a. pc \in [Controllers -> [Operations -> Steps]]
    BY DEF TypeOK
  <2>1. pc' \in [Controllers -> [Operations -> Steps]]
    <3>1. "accepted" \in Steps /\ "refused" \in Steps
      BY DEF Steps
    <3>2. Goto(c, o, "accepted") \/ Goto(c, o, "refused") \/ UNCHANGED pc
      BY <1>4 DEF Accept, Reject
    <3> QED
      BY <2>a, <3>1, <3>2, GotoIs
  <2>2. RuntimeTypeOK'
    <3>1. SubmitOrGet(o) => RuntimeTypeOK'
      <4> SUFFICES ASSUME SubmitOrGet(o) PROVE RuntimeTypeOK'
        OBVIOUS
      <4>1. RuntimeTypeOK /\ "live" \in Workloads
        BY DEF TypeOK, Workloads
      <4>2. wl' \in [Operations -> Workloads]
        BY <4>1 DEF SubmitOrGet, RuntimeTypeOK
      <4>3. starts' \in [Operations -> Nat]
        BY <4>1 DEF SubmitOrGet, RuntimeTypeOK
      <4>4. forgot' \in [Operations -> BOOLEAN] /\ asked' = asked
        BY <4>1 DEF SubmitOrGet, RuntimeTypeOK
      <4> QED
        BY <4>1, <4>2, <4>3, <4>4 DEF RuntimeTypeOK
    <3>2. Refuse(o) => RuntimeTypeOK'
      BY DEF Refuse, TypeOK, RuntimeTypeOK, Workloads
    <3> QED
      BY <1>4, <3>1, <3>2 DEF Accept, Reject
  <2> QED
    BY <1>4, <2>1, <2>2 DEF Accept, Reject, TypeOK
<1> QED
  BY <1>1, <1>2, <1>3, <1>4 DEF Environment

-----------------------------------------------------------------------------
(* A step of a controller with one attempt. *)

\* The other operations, and the other controllers' coroutines.
LEMMA Elsewhere ==
  ASSUME SubmissionInv, NEW c \in Controllers, NEW o \in Operations, Submit(c, o) \/ Drive(c, o)
  PROVE  /\ \A p \in Operations \ {o} : Apart(p)
         /\ \A d \in Controllers \ {c} : Keeps(d, o)
<1> USE DEF runtimeVars, journalVars, hostVars, boundVars
<1>a. TypeOK
  BY DEF SubmissionInv
<1>1. ASSUME NEW p \in Operations \ {o} PROVE Fixed(p)
  <2>1. CASE Admit(c, o)
    BY <2>1, <1>a DEF Admit, CreateWithIntent, Fixed, TypeOK, RuntimeTypeOK
  <2>2. CASE BeginCycle(c, o)
    BY <2>2, <1>a DEF BeginCycle, Fixed, TypeOK, RuntimeTypeOK
  <2>3. CASE StartEvaluation(c, o)
    BY <2>3, <1>a DEF StartEvaluation, CreateWithIntent, Fixed, TypeOK, RuntimeTypeOK
  <2>4. CASE Issue(c, o) \/ ReadStatus(c, o) \/ Finish(c, o) \/ Reconcile(c, o) \/ LookUp(c, o) \/ Raise(c, o)
    BY <2>4 DEF Issue, ReadStatus, Finish, Reconcile, LookUp, Raise, Fixed
  <2>5. CASE Confirm(c, o) \/ FailOperation(c, o)
    BY <2>5, <1>a DEF Confirm, FailOperation, Fixed, TypeOK
  <2>6. CASE Adopt(c, o) \/ Settle(c, o)
    BY <2>6, <1>a DEF Adopt, Settle, Fixed, TypeOK
  <2>7. CASE RecordResult(c, o) \/ SettleRun(c, o)
    BY <2>7, <1>a DEF RecordResult, SettleRun, Fixed, TypeOK
  <2>8. CASE Hold(c, o)
    BY <2>8, <1>a DEF Hold, Fixed, TypeOK
  <2>9. ASSUME NEW t \in {"starting", "running"}, Observe(c, o, t) PROVE Fixed(p)
    BY <2>9, <1>a DEF Observe, Fixed, TypeOK
  <2> QED
    BY <2>1, <2>2, <2>3, <2>4, <2>5, <2>6, <2>7, <2>8, <2>9 DEF Submit, Drive
<1>2. ASSUME NEW d \in Controllers, NEW p \in Operations, <<d, p>> # <<c, o>> PROVE Keeps(d, p)
  <2>s. /\ "issue" \in Steps /\ "begun" \in Steps /\ "idle" \in Steps /\ "sent" \in Steps
        /\ "adopt" \in Steps /\ "settle" \in Steps /\ "settleRun" \in Steps /\ "watch" \in Steps
        /\ "after" \in Steps /\ "result" \in Steps /\ "lookup" \in Steps /\ "accepted" \in Steps
        /\ "refused" \in Steps
    BY DEF Steps
  <2>1. /\ \A s \in Steps : Goto(c, o, s) => pc'[d][p] = pc[d][p]
        /\ Abandon(c, o) => pc'[d][p] \in {"idle", pc[d][p]}
    BY <1>2, <1>a, GotoIs, AbandonIs
  <2>2. \A s \in Ended : seen' = [seen EXCEPT ![c][o] = s] => seen'[d][p] = seen[d][p]
    BY <1>2, <1>a, SeenIs
  <2>3. "failed" \in Ended
    BY DEF Ended
  <2>4. CASE Submit(c, o)
    BY <2>4, <2>1, <2>2, <2>3, <2>s
       DEF Submit, Admit, BeginCycle, StartEvaluation, Issue, Confirm, FailOperation, Keeps
  <2>5. CASE Adopt(c, o) \/ Hold(c, o) \/ RecordResult(c, o) \/ Settle(c, o) \/ SettleRun(c, o) \/ Raise(c, o)
    BY <2>5, <2>1, <2>s DEF Adopt, Hold, RecordResult, Settle, SettleRun, Raise, Keeps
  <2>6. CASE Finish(c, o)
    BY <2>6, <2>1, <2>2, <2>3, <2>s DEF Finish, Keeps
  <2>7. CASE LookUp(c, o)
    BY <2>7, <2>1, <2>s DEF LookUp, Keeps
  <2>8. CASE Reconcile(c, o)
    BY <2>8, <2>1, <2>2, <2>3, <2>s DEF Reconcile, ReconcileEvaluation, Keeps
  <2>9. CASE ReadStatus(c, o)
    <3>1. PICK s \in Statuses(o) \ {"live"} :
            LET outcome == Conclude(o, s) IN
              IF outcome = "escalate"
                THEN Goto(c, o, "idle") /\ UNCHANGED seen
                ELSE /\ seen' = [seen EXCEPT ![c][o] = outcome]
                     /\ Goto(c, o, IF outcome = "succeeded" /\ o \in Evaluations THEN "result" ELSE "settle")
      BY <2>9 DEF ReadStatus
    <3>2. Conclude(o, s) # "escalate" => Conclude(o, s) \in Ended
      BY <2>9, ConcludeIs DEF ReadStatus, At
    <3> QED
      BY <3>1, <3>2, <2>1, <2>2, <2>s DEF Keeps
  <2>10. ASSUME NEW t \in {"starting", "running"}, Observe(c, o, t) PROVE Keeps(d, p)
    BY <2>10 DEF Observe, Keeps
  <2> QED
    BY <2>4, <2>5, <2>6, <2>7, <2>8, <2>9, <2>10 DEF Drive
<1>3. ASSUME NEW d \in Controllers, NEW p \in Operations \ {o} PROVE <<d, p>> \in transit' => <<d, p>> \in transit
  BY DEF Submit, Drive, Admit, BeginCycle, StartEvaluation, Issue, Confirm, FailOperation, Adopt, Observe,
         Hold, ReadStatus, RecordResult, Settle, SettleRun, Finish, Reconcile, LookUp, Raise
<1> QED
  BY <1>1, <1>2, <1>3 DEF Apart


\* The same when the step sends nothing.
LEMMA StepWithoutRequest ==
  ASSUME TypeOK, NEW c \in Controllers, NEW o \in Operations, OperationInv(o),
         \A d \in Controllers \ {c} : Keeps(d, o),
         Stays(o), RecordInv(o)', KnownAt(c, o)', wl[o] = "absent" => wl'[o] = "absent",
         pc'[c][o] # "issue", \A d \in Controllers : <<d, o>> \in transit' => <<d, o>> \in transit
  PROVE  OperationInv(o)'
<1>1. \A d \in Controllers : pc'[d][o] = "issue" => pc[d][o] = "issue"
  BY DEF Keeps
<1>2. SentOnce(o)'
  BY <1>1, SentStays DEF OperationInv
<1> QED
  BY <1>2, StepOf

\* And when it leaves the record alone.
LEMMA QuietStep ==
  ASSUME TypeOK, NEW c \in Controllers, NEW o \in Operations, OperationInv(o),
         \A d \in Controllers \ {c} : Keeps(d, o),
         Fixed(o), KnownAt(c, o)', pc'[c][o] # "issue", transit' = transit
  PROVE  OperationInv(o)'
<1>1. Stays(o) /\ RecordInv(o)'
  BY FixedStays DEF OperationInv
<1> QED
  BY <1>1, StepWithoutRequest DEF Fixed

\* The first request: there was no attempt, hence no request and no workload.
LEMMA FirstRequest ==
  ASSUME TypeOK, NEW c \in Controllers, NEW o \in Operations, OperationInv(o),
         \A d \in Controllers \ {c} : Keeps(d, o),
         att[o] = "none", CreateWithIntent(o), run'[o] # "none", Goto(c, o, "issue"),
         UNCHANGED <<runtimeVars, report, degraded, transit>>
  PROVE  OperationInv(o)'
<1> USE DEF runtimeVars
<1>1. sub[o] = "none" /\ wl[o] = "absent" /\ RecordInv(o)
  BY DEF OperationInv, RecordInv
<1>2. att'[o] = "created" /\ sub'[o] = "intended"
  BY DEF CreateWithIntent, TypeOK
<1>3. pc'[c][o] = "issue"
  BY GotoIs DEF Steps
<1>4. \A s \in Ended : Vouched(o, s)' <=> Vouched(o, s)
  BY DEF Vouched, NeverUsable
<1>5. Stays(o)
  BY <1>1, <1>2, <1>4 DEF Stays, Ended
<1>6. RecordInv(o)'
  BY <1>1, <1>2 DEF RecordInv, Ended
<1>7. \A d \in Controllers : ~Pending(d, o)
  BY <1>1 DEF OperationInv, SentOnce
<1>8. \A d \in Controllers : Pending(d, o)' => d = c
  BY <1>7 DEF Pending, Keeps
<1>9. SentOnce(o)'
  <2> SUFFICES ASSUME NEW d \in Controllers, Pending(d, o)'
               PROVE  /\ sub'[o] # "none" /\ wl'[o] = "absent"
                      /\ <<d, o>> \notin transit'
                      /\ \A e \in Controllers : Pending(e, o)' => e = d
    BY DEF SentOnce
  <2> QED
    BY <1>1, <1>2, <1>7, <1>8 DEF Pending
<1>10. KnownAt(c, o)'
  BY <1>2, <1>3 DEF KnownAt
<1> QED
  BY <1>5, <1>6, <1>9, <1>10, StepOf

\* What controller c did is true of the operation it did it with.
LEMMA OwnStep ==
  ASSUME SubmissionInv, NEW c \in Controllers, NEW o \in Operations, Submit(c, o) \/ Drive(c, o)
  PROVE  OperationInv(o)'
<1> USE DEF runtimeVars, journalVars, hostVars, boundVars
<1>a. TypeOK /\ OperationInv(o) /\ \A d \in Controllers \ {c} : Keeps(d, o)
  BY Elsewhere DEF SubmissionInv
<1>b. RecordInv(o) /\ KnownAt(c, o) /\ SentOnce(o)
  BY <1>a DEF OperationInv
<1>s. /\ "issue" \in Steps /\ "begun" \in Steps /\ "idle" \in Steps /\ "sent" \in Steps
      /\ "adopt" \in Steps /\ "settle" \in Steps /\ "settleRun" \in Steps /\ "watch" \in Steps
      /\ "after" \in Steps /\ "result" \in Steps /\ "lookup" \in Steps /\ "accepted" \in Steps
      /\ "refused" \in Steps
  BY DEF Steps
<1>v. (wl'[o] = wl[o] /\ report'[o] = report[o] /\ degraded'[o] = degraded[o]) =>
        \A s \in Ended : Vouched(o, s)' <=> Vouched(o, s)
  BY DEF Vouched, NeverUsable
<1>1. CASE Admit(c, o)
  <2>1. att[o] = "none" /\ run'[o] # "none"
    BY <1>1, <1>a, <1>b DEF Admit, RecordInv, TypeOK
  <2> QED
    BY <1>1, <1>a, <2>1, FirstRequest DEF Admit
<1>2. CASE BeginCycle(c, o)
  <2>1. Fixed(o)
    BY <1>2, <1>a DEF BeginCycle, Fixed, TypeOK
  <2>2. pc'[c][o] = "begun"
    BY <1>2, <1>a, <1>s, GotoIs DEF BeginCycle
  <2>3. KnownAt(c, o)'
    BY <1>2, <2>2 DEF BeginCycle, KnownAt
  <2> QED
    BY <1>2, <1>a, <2>1, <2>2, <2>3, QuietStep DEF BeginCycle
<1>3. CASE StartEvaluation(c, o)
  <2>1. CASE run[o] = "active" /\ att[o] = "none" /\ CreateWithIntent(o) /\ Goto(c, o, "issue") /\ UNCHANGED run
    BY <1>3, <1>a, <2>1, FirstRequest DEF StartEvaluation
  <2>2. CASE /\ UNCHANGED <<att, sub>>
             /\ \/ run' = [run EXCEPT ![o] = "failed"] /\ Goto(c, o, "idle")
                \/ UNCHANGED run /\ Abandon(c, o)
    <3>1. Fixed(o)
      BY <1>3, <2>2, <1>a DEF StartEvaluation, Fixed, TypeOK
    <3>2. pc'[c][o] = "idle"
      BY <2>2, <1>a, <1>s, GotoIs, AbandonIs
    <3>3. KnownAt(c, o)'
      BY <3>2 DEF KnownAt
    <3> QED
      BY <1>3, <1>a, <3>1, <3>2, <3>3, QuietStep DEF StartEvaluation
  <2> QED
    BY <1>3, <2>1, <2>2 DEF StartEvaluation
<1>4. CASE Issue(c, o)
  <2>1. Fixed(o)
    BY <1>4 DEF Issue, Fixed
  <2>2. Stays(o) /\ RecordInv(o)'
    BY <2>1, <1>b, FixedStays
  <2>3. pc'[c][o] = "sent" /\ pc[c][o] = "issue"
    BY <1>4, <1>a, <1>s, GotoIs DEF Issue, At
  <2>4. KnownAt(c, o)'
    BY <2>1, <2>3, <1>b DEF KnownAt, Fixed
  <2>5. SentOnce(o)'
    <3>1. \A d \in Controllers : Pending(d, o)' => Pending(d, o)
      BY <1>4, <1>a, <2>3 DEF Issue, Pending, Keeps
    <3>2. \A d \in Controllers : pc'[d][o] = "issue" => d # c /\ pc[d][o] = "issue"
      BY <1>a, <2>3 DEF Keeps
    <3>3. \A d \in Controllers : d # c => (<<d, o>> \in transit' <=> <<d, o>> \in transit)
      BY <1>4 DEF Issue
    <3> QED
      BY <3>1, <3>2, <3>3, <2>1, <1>b DEF SentOnce, Fixed
  <2> QED
    BY <1>a, <2>2, <2>4, <2>5, StepOf
<1>5. CASE Confirm(c, o)
  <2>k. starts[o] > 0 /\ sub[o] # "none"
    BY <1>5, <1>b DEF Confirm, At, KnownAt
  <2>1. CASE sub[o] = "intended"
    <3>1. sub'[o] = "confirmed" /\ pc'[c][o] = "adopt"
      BY <1>5, <2>1, <1>a, <1>s, GotoIs DEF Confirm, TypeOK
    <3>2. Stays(o)
      BY <1>5, <1>v, <2>1, <3>1 DEF Confirm, Stays
    <3>3. RecordInv(o)'
      BY <1>5, <1>v, <1>b, <2>k, <2>1, <3>1 DEF Confirm, RecordInv
    <3>4. KnownAt(c, o)'
      BY <3>1 DEF KnownAt
    <3> QED
      BY <1>5, <1>a, <3>1, <3>2, <3>3, <3>4, StepWithoutRequest DEF Confirm
  <2>2. CASE sub[o] # "intended"
    <3>1. Fixed(o)
      BY <1>5, <2>2 DEF Confirm, Fixed
    <3>2. pc'[c][o] = "idle"
      BY <1>5, <2>2, <1>a, AbandonIs DEF Confirm
    <3>3. KnownAt(c, o)'
      BY <3>2 DEF KnownAt
    <3> QED
      BY <1>5, <1>a, <3>1, <3>2, <3>3, QuietStep DEF Confirm
  <2> QED
    BY <2>1, <2>2
<1>6. CASE FailOperation(c, o)
  <2>k. wl[o] = "rejected"
    BY <1>6, <1>b DEF FailOperation, At, KnownAt
  <2>1. CASE sub[o] = "intended"
    <3>1. sub'[o] = "failed" /\ pc'[c][o] = "settle"
      BY <1>6, <2>1, <1>a, <1>s, GotoIs DEF FailOperation, TypeOK
    <3>2. seen'[c][o] = "failed"
      BY <1>6, <2>1, <1>a, SeenIs DEF FailOperation, Ended
    <3>3. Stays(o)
      BY <1>6, <1>v, <2>1, <3>1 DEF FailOperation, Stays
    <3>4. RecordInv(o)'
      BY <1>6, <1>v, <1>b, <2>k, <2>1, <3>1 DEF FailOperation, RecordInv
    <3>5. Vouched(o, "failed")'
      BY <1>6, <2>k DEF FailOperation, Vouched
    <3>6. KnownAt(c, o)'
      BY <3>1, <3>2, <3>5 DEF KnownAt
    <3> QED
      BY <1>6, <1>a, <3>1, <3>3, <3>4, <3>6, StepWithoutRequest DEF FailOperation
  <2>2. CASE sub[o] # "intended"
    <3>1. Fixed(o)
      BY <1>6, <2>2 DEF FailOperation, Fixed
    <3>2. pc'[c][o] = "idle"
      BY <1>6, <2>2, <1>a, AbandonIs DEF FailOperation
    <3>3. KnownAt(c, o)'
      BY <3>2 DEF KnownAt
    <3> QED
      BY <1>6, <1>a, <3>1, <3>2, <3>3, QuietStep DEF FailOperation
  <2> QED
    BY <2>1, <2>2
<1>7. CASE Adopt(c, o)
  <2>1. sub[o] = "confirmed" /\ pc'[c][o] = "watch"
    BY <1>7, <1>a, <1>b, <1>s, GotoIs DEF Adopt, At, KnownAt
  <2>2. att'[o] = att[o] \/ (att[o] \in Live /\ att'[o] = "queued")
    BY <1>7, <1>a DEF Adopt, Advance, TypeOK
  <2>3. Stays(o)
    BY <1>7, <1>v, <2>2 DEF Adopt, Stays, Live, Ended
  <2>4. RecordInv(o)'
    BY <1>7, <1>v, <1>b, <2>1, <2>2 DEF Adopt, RecordInv, Live, Ended
  <2>5. KnownAt(c, o)'
    BY <1>7, <2>1 DEF Adopt, KnownAt
  <2> QED
    BY <1>7, <1>a, <2>1, <2>3, <2>4, <2>5, StepWithoutRequest DEF Adopt
<1>8. ASSUME NEW t \in {"starting", "running"}, Observe(c, o, t) PROVE OperationInv(o)'
  <2>1. pc[c][o] = "watch" /\ pc' = pc /\ seen' = seen
    BY <1>8 DEF Observe, At
  <2>2. att'[o] = att[o] \/ (att[o] \in Live /\ att'[o] \in Live)
    BY <1>8, <1>a DEF Observe, Advance, TypeOK, Live
  <2>3. Stays(o)
    BY <1>8, <1>v, <2>2 DEF Observe, Stays, Live, Ended
  <2>4. RecordInv(o)'
    BY <1>8, <1>v, <1>b, <2>2 DEF Observe, RecordInv, Live, Ended
  <2>5. KnownAt(c, o)'
    BY <1>a, <1>b, <2>1, <2>3, KnownStays DEF Keeps
  <2> QED
    BY <1>8, <1>a, <2>1, <2>3, <2>4, <2>5, StepWithoutRequest DEF Observe
<1>9. CASE Hold(c, o)
  <2>1. pc[c][o] = "watch" /\ pc' = pc /\ seen' = seen
    BY <1>9 DEF Hold, At
  <2>2. ASSUME NEW s \in Ended, Vouched(o, s) PROVE Vouched(o, s)'
    BY <1>9, <1>a, <2>2 DEF Hold, Vouched, NeverUsable, TypeOK
  <2>3. Stays(o)
    BY <1>9, <2>2 DEF Hold, Stays
  <2>4. RecordInv(o)'
    BY <1>9, <1>b, <2>2 DEF Hold, RecordInv
  <2>5. KnownAt(c, o)'
    BY <1>a, <1>b, <2>1, <2>3, KnownStays DEF Keeps
  <2> QED
    BY <1>9, <1>a, <2>1, <2>3, <2>4, <2>5, StepWithoutRequest DEF Hold
<1>10. CASE ReadStatus(c, o)
  <2>1. PICK s \in Statuses(o) \ {"live"} :
          LET outcome == Conclude(o, s) IN
            IF outcome = "escalate"
              THEN Goto(c, o, "idle") /\ UNCHANGED seen
              ELSE /\ seen' = [seen EXCEPT ![c][o] = outcome]
                   /\ Goto(c, o, IF outcome = "succeeded" /\ o \in Evaluations THEN "result" ELSE "settle")
    BY <1>10 DEF ReadStatus
  <2>2. Fixed(o)
    BY <1>10 DEF ReadStatus, Fixed
  <2>3. CASE Conclude(o, s) = "escalate"
    <3>1. pc'[c][o] = "idle"
      BY <2>1, <2>3, <1>a, <1>s, GotoIs
    <3>2. KnownAt(c, o)'
      BY <3>1 DEF KnownAt
    <3> QED
      BY <1>10, <1>a, <2>2, <3>1, <3>2, QuietStep DEF ReadStatus
  <2>4. CASE Conclude(o, s) # "escalate"
    <3>1. PICK outcome \in Ended : outcome = Conclude(o, s) /\ Vouched(o, outcome)
      BY <1>10, <2>4, ConcludeIs DEF ReadStatus, At
    <3>2. Vouched(o, outcome)'
      BY <3>1, <2>2, <1>v DEF Fixed
    <3>3. seen'[c][o] = outcome
      BY <2>1, <2>4, <3>1, <1>a, SeenIs
    <3>4. pc'[c][o] = IF outcome = "succeeded" /\ o \in Evaluations THEN "result" ELSE "settle"
      BY <2>1, <2>4, <3>1, <1>a, <1>s, GotoIs
    <3>5. sub'[o] # "none"
      BY <1>10, <1>b DEF ReadStatus, At, KnownAt
    <3>6. KnownAt(c, o)'
      BY <3>2, <3>3, <3>4, <3>5 DEF KnownAt
    <3> QED
      BY <1>10, <1>a, <2>2, <3>4, <3>6, QuietStep DEF ReadStatus
  <2> QED
    BY <2>3, <2>4
<1>11. CASE RecordResult(c, o)
  <2>k. sub[o] # "none" /\ Vouched(o, "succeeded") /\ "succeeded" \in Ended
    BY <1>11, <1>b DEF RecordResult, At, KnownAt, Ended
  <2>1. CASE att[o] \in Live /\ run[o] = "active"
    <3>1. att'[o] = "succeeded" /\ run'[o] = "succeeded" /\ pc'[c][o] = "after"
      BY <1>11, <2>1, <1>a, <1>s, GotoIs DEF RecordResult, TypeOK
    <3>2. Stays(o)
      BY <1>11, <1>v, <2>1 DEF RecordResult, Stays, Live, Ended
    <3>3. RecordInv(o)'
      BY <1>11, <1>v, <1>b, <2>k, <2>1, <3>1 DEF RecordResult, RecordInv, Live
    <3>4. KnownAt(c, o)'
      BY <1>11, <3>1, <2>k DEF RecordResult, KnownAt
    <3> QED
      BY <1>11, <1>a, <3>1, <3>2, <3>3, <3>4, StepWithoutRequest DEF RecordResult
  <2>2. CASE ~(att[o] \in Live /\ run[o] = "active")
    <3>1. Fixed(o)
      BY <1>11, <2>2 DEF RecordResult, Fixed
    <3>2. pc'[c][o] = "idle"
      BY <1>11, <2>2, <1>a, <1>s, GotoIs DEF RecordResult
    <3>3. KnownAt(c, o)'
      BY <3>2 DEF KnownAt
    <3> QED
      BY <1>11, <1>a, <3>1, <3>2, <3>3, QuietStep DEF RecordResult
  <2> QED
    BY <2>1, <2>2
<1>12. CASE Settle(c, o)
  <2>k. /\ sub[o] # "none" /\ Vouched(o, seen[c][o]) /\ seen[c][o] \in Ended
        /\ att[o] \in Live \cup Ended
    BY <1>12, <1>a, <1>b DEF Settle, At, KnownAt, RecordInv, TypeOK
  <2>1. pc'[c][o] = "settleRun" /\ seen' = seen
    BY <1>12, <1>a, <1>s, GotoIs DEF Settle
  <2>2. att'[o] = IF att[o] \in Live THEN seen[c][o] ELSE att[o]
    BY <1>12, <1>a DEF Settle, TypeOK
  <2>3. att'[o] = seen[c][o]
    <3>1. CASE att[o] \in Ended
      BY <3>1, <2>2, <2>k, <1>b, VouchedOnce DEF RecordInv, Live, Ended
    <3> QED
      BY <3>1, <2>2, <2>k
  <2>4. Stays(o)
    BY <1>12, <1>v, <2>2 DEF Settle, Stays, Live, Ended
  <2>5. RecordInv(o)'
    BY <1>12, <1>v, <1>b, <2>k, <2>3 DEF Settle, RecordInv, Ended
  <2>6. KnownAt(c, o)'
    BY <1>12, <2>1, <2>3, <2>k DEF Settle, KnownAt
  <2> QED
    BY <1>12, <1>a, <2>1, <2>4, <2>5, <2>6, StepWithoutRequest DEF Settle
<1>13. CASE SettleRun(c, o)
  <2>1. Fixed(o)
    BY <1>13, <1>a DEF SettleRun, RunOutcome, Fixed, TypeOK, Ended
  <2>2. pc'[c][o] = "after" /\ sub'[o] # "none"
    BY <1>13, <1>a, <1>b, <1>s, GotoIs DEF SettleRun, At, KnownAt
  <2>3. KnownAt(c, o)'
    BY <2>2 DEF KnownAt
  <2> QED
    BY <1>13, <1>a, <2>1, <2>2, <2>3, QuietStep DEF SettleRun
<1>14. CASE Finish(c, o)
  <2>1. Fixed(o)
    BY <1>14 DEF Finish, Fixed
  <2>2. pc'[c][o] = "idle"
    BY <1>14, <1>a, <1>s, GotoIs DEF Finish
  <2>3. KnownAt(c, o)'
    BY <2>2 DEF KnownAt
  <2> QED
    BY <1>14, <1>a, <2>1, <2>2, <2>3, QuietStep DEF Finish
<1>15. CASE Reconcile(c, o)
  <2>1. Fixed(o)
    BY <1>15 DEF Reconcile, Fixed
  <2>2. CASE att[o] \in Live /\ sub[o] = "failed" /\ seen' = [seen EXCEPT ![c][o] = "failed"] /\ Goto(c, o, "settle")
    <3>1. pc'[c][o] = "settle"
      BY <2>2, <1>a, <1>s, GotoIs
    <3>2. seen'[c][o] = "failed"
      BY <2>2, <1>a, SeenIs DEF Ended
    <3>3. Vouched(o, "failed")'
      BY <2>1, <2>2, <1>b DEF Fixed, RecordInv, Vouched
    <3>4. KnownAt(c, o)'
      BY <2>1, <2>2, <3>1, <3>2, <3>3 DEF Fixed, KnownAt
    <3> QED
      BY <1>15, <1>a, <2>1, <3>1, <3>4, QuietStep DEF Reconcile
  <2>3. CASE \/ att[o] \in Live /\ sub[o] = "confirmed" /\ Goto(c, o, "adopt")
             \/ att[o] \in Live /\ sub[o] = "intended" /\ Goto(c, o, "lookup")
             \/ o \in Evaluations /\ Goto(c, o, "begun")
             \/ Goto(c, o, "idle")
    <3>1. \/ pc'[c][o] = "adopt" /\ sub'[o] = "confirmed"
          \/ pc'[c][o] = "lookup" /\ sub'[o] = "intended"
          \/ o \in Evaluations /\ pc'[c][o] = "begun"
          \/ pc'[c][o] = "idle"
      BY <2>3, <2>1, <1>a, <1>s, GotoIs DEF Fixed
    <3>2. KnownAt(c, o)'
      BY <3>1 DEF KnownAt
    <3> QED
      BY <1>15, <1>a, <2>1, <3>1, <3>2, QuietStep DEF Reconcile
  <2>4. CASE att[o] \in Ended /\ seen' = [seen EXCEPT ![c][o] = att[o]] /\ Goto(c, o, "settleRun")
    <3>1. pc'[c][o] = "settleRun"
      BY <2>4, <1>a, <1>s, GotoIs
    <3>2. seen'[c][o] = att[o]
      BY <2>4, <1>a, SeenIs
    <3>3. KnownAt(c, o)'
      BY <2>1, <2>4, <3>1, <3>2, <1>b DEF Fixed, KnownAt, RecordInv, Ended
    <3> QED
      BY <1>15, <1>a, <2>1, <3>1, <3>3, QuietStep DEF Reconcile
  <2> QED
    BY <1>15, <2>2, <2>3, <2>4 DEF Reconcile, ReconcileEvaluation
<1>16. CASE LookUp(c, o)
  <2>1. Fixed(o) /\ transit' = transit
    BY <1>16 DEF LookUp, Fixed
  <2>k. pc[c][o] = "lookup" /\ sub[o] # "none"
    BY <1>16, <1>b DEF LookUp, At, KnownAt
  <2>2. \/ Lookup(o) = "found" /\ pc'[c][o] = "accepted"
        \/ Lookup(o) = "rejected" /\ pc'[c][o] = "refused"
        \/ ReportsCompleted /\ pc'[c][o] = "issue"
        \/ pc'[c][o] = "idle"
    <3>1. \/ Lookup(o) = "found" /\ Goto(c, o, "accepted")
          \/ Lookup(o) = "rejected" /\ Goto(c, o, "refused")
          \/ ReportsCompleted /\ Goto(c, o, "issue")
          \/ Goto(c, o, "idle")
      BY <1>16 DEF LookUp, Lookup
    <3> QED
      BY <3>1, <1>a, <1>s, GotoIs
  <2>3. KnownAt(c, o)'
    BY <2>1, <2>k, <2>2, <1>b DEF Lookup, Unknown, Fixed, KnownAt, RecordInv
  <2>4. Stays(o) /\ RecordInv(o)'
    BY <2>1, <1>b, FixedStays
  <2>5. CASE ReportsCompleted
    <3>1. SentOnce(o)'
      BY <2>1, <2>5, <2>k, <1>a, <1>b DEF SentOnce, Pending, Keeps, Fixed
    <3> QED
      BY <1>a, <2>3, <2>4, <3>1, StepOf
  <2>6. CASE ~ReportsCompleted
    <3>1. pc'[c][o] # "issue"
      BY <2>2, <2>6
    <3> QED
      BY <1>a, <2>1, <2>3, <3>1, QuietStep
  <2> QED
    BY <2>5, <2>6
<1>17. CASE Raise(c, o)
  <2>1. Fixed(o)
    BY <1>17 DEF Raise, Fixed
  <2>2. pc'[c][o] = "idle"
    BY <1>17, <1>a, AbandonIs DEF Raise
  <2>3. KnownAt(c, o)'
    BY <2>2 DEF KnownAt
  <2> QED
    BY <1>17, <1>a, <2>1, <2>2, <2>3, QuietStep DEF Raise
<1> QED
  BY <1>1, <1>2, <1>3, <1>4, <1>5, <1>6, <1>7, <1>8, <1>9, <1>10, <1>11, <1>12, <1>13, <1>14, <1>15,
     <1>16, <1>17 DEF Submit, Drive

LEMMA StepKeeps ==
  ASSUME SubmissionInv, NEW c \in Controllers, NEW o \in Operations, Submit(c, o) \/ Drive(c, o)
  PROVE  SubmissionInv'
<1>1. TypeOK'
  BY TypeOfStep
<1>2. OperationInv(o)'
  BY OwnStep
<1>3. ASSUME NEW p \in Operations, p # o PROVE OperationInv(p)'
  BY <1>3, Elsewhere, ApartKeeps DEF SubmissionInv
<1> QED
  BY <1>1, <1>2, <1>3 DEF SubmissionInv

-----------------------------------------------------------------------------
(* A step of a process as a whole, of the runtime, a worker or a request. *)

LEMMA ProcessKeeps ==
  ASSUME SubmissionInv, NEW c \in Controllers, Attach(c) \/ Crash(c) \/ Superseded(c) \/ Start(c)
  PROVE  SubmissionInv'
<1> USE DEF runtimeVars, journalVars, hostVars, boundVars
<1>a. TypeOK
  BY DEF SubmissionInv
<1>1. TypeOK'
  BY <1>a, TypeOfProcess
<1>2. ASSUME NEW o \in Operations PROVE Apart(o)
  <2>1. Fixed(o) /\ transit' = transit
    BY DEF Attach, Crash, Superseded, Down, Start, Fixed
  <2>2. ASSUME NEW d \in Controllers PROVE Keeps(d, o)
    <3>1. CASE Attach(c)
      BY <3>1, <1>a DEF Attach, Keeps, TypeOK
    <3>2. CASE Crash(c) \/ Superseded(c)
      BY <3>2, <1>a DEF Crash, Superseded, Down, Keeps, TypeOK
    <3>3. CASE Start(c)
      BY <3>3 DEF Start, Keeps
    <3> QED
      BY <3>1, <3>2, <3>3
  <2> QED
    BY <2>1, <2>2 DEF Apart
<1>3. ASSUME NEW o \in Operations PROVE OperationInv(o)'
  BY <1>a, <1>2, ApartKeeps DEF SubmissionInv
<1> QED
  BY <1>1, <1>3 DEF SubmissionInv

\* What the runtime does by itself is nothing a coroutine rests on.
LEMMA EnvironmentOf ==
  ASSUME TypeOK, NEW o \in Operations, OperationInv(o), pc' = pc, seen' = seen, transit' = transit,
         Stays(o), RecordInv(o)', wl[o] = "absent" => wl'[o] = "absent"
  PROVE  OperationInv(o)'
<1>1. SentOnce(o)'
  BY SentStays DEF OperationInv
<1>2. ASSUME NEW c \in Controllers PROVE KnownAt(c, o)'
  BY KnownStays DEF OperationInv, Keeps
<1> QED
  BY <1>1, <1>2 DEF OperationInv

\* The runtime has received a request: it is the only one of a runtime that
\* forgets, and it is gone.
LEMMA Received ==
  ASSUME TypeOK, NEW c \in Controllers, NEW o \in Operations, OperationInv(o), <<c, o>> \in transit,
         transit' = transit \ {<<c, o>>}, sub'[o] = sub[o],
         \A d \in Controllers : pc'[d][o] = "issue" => pc[d][o] = "issue"
  PROVE  SentOnce(o)'
<1>1. SentOnce(o)
  BY DEF OperationInv
<1>2. \A d \in Controllers : Pending(d, o)' => Pending(d, o)
  BY DEF Pending
<1>3. CASE ReportsCompleted
  BY <1>1, <1>2, <1>3 DEF SentOnce
<1>4. CASE ~ReportsCompleted
  <2>1. Pending(c, o)
    BY DEF Pending
  <2>2. pc[c][o] # "issue" /\ \A d \in Controllers : Pending(d, o) => d = c
    BY <1>1, <1>4, <2>1 DEF SentOnce
  <2>3. \A d \in Controllers : ~Pending(d, o)'
    BY <1>2, <2>2 DEF Pending
  <2> QED
    BY <2>3 DEF SentOnce
<1> QED
  BY <1>3, <1>4

LEMMA EnvironmentKeeps ==
  ASSUME SubmissionInv, NEW o \in Operations, Environment(o)
  PROVE  SubmissionInv'
<1> USE DEF runtimeVars, journalVars, hostVars, boundVars
<1>a. TypeOK /\ OperationInv(o)
  BY DEF SubmissionInv
<1>b. RecordInv(o) /\ SentOnce(o) /\ wl[o] \in Workloads /\ att[o] \in {"none"} \cup Live \cup Ended
  BY <1>a DEF OperationInv, TypeOK, RuntimeTypeOK
<1>n. wl[o] \in {"absent", "live", "lost"} => \A s \in Ended : ~Vouched(o, s)
  BY DEF Vouched, Ended
<1>q. Runtime(o) \/ Report(o) \/ Degrade(o) => UNCHANGED <<pc, seen, transit>>
  BY DEF Runtime, Report, Degrade
<1>1. TypeOK'
  BY <1>a, TypeOfEnvironment
<1>2. ASSUME NEW p \in Operations, p # o PROVE Apart(p)
  <2>1. Fixed(p)
    <3>1. CASE Runtime(o)
      BY <3>1, <1>2, <1>a DEF Runtime, End, Forget, Fixed, TypeOK, RuntimeTypeOK
    <3>2. CASE Report(o) \/ Degrade(o)
      BY <3>2, <1>2, <1>a DEF Report, Degrade, Fixed, TypeOK
    <3>3. ASSUME NEW c \in Controllers, Accept(c, o) \/ Reject(c, o) PROVE Fixed(p)
      BY <3>3, <1>2, <1>a DEF Accept, Reject, SubmitOrGet, Refuse, Fixed, TypeOK, RuntimeTypeOK
    <3> QED
      BY <3>1, <3>2, <3>3 DEF Environment
  <2>2. ASSUME NEW d \in Controllers PROVE Keeps(d, p) /\ (<<d, p>> \in transit' => <<d, p>> \in transit)
    <3>1. CASE Runtime(o) \/ Report(o) \/ Degrade(o)
      BY <3>1 DEF Runtime, Report, Degrade, Keeps
    <3>2. ASSUME NEW c \in Controllers, Accept(c, o) \/ Reject(c, o) PROVE Keeps(d, p)
      <4>1. "accepted" \in Steps /\ "refused" \in Steps
        BY DEF Steps
      <4>2. Goto(c, o, "accepted") \/ Goto(c, o, "refused") \/ pc' = pc
        BY <3>2 DEF Accept, Reject
      <4>3. pc'[d][p] = pc[d][p]
        BY <4>1, <4>2, <1>2, <1>a, GotoIs
      <4> QED
        BY <3>2, <4>3 DEF Accept, Reject, Keeps
    <3>3. ASSUME NEW c \in Controllers, Accept(c, o) \/ Reject(c, o)
          PROVE  <<d, p>> \in transit' => <<d, p>> \in transit
      BY <3>3 DEF Accept, Reject
    <3> QED
      BY <3>1, <3>2, <3>3 DEF Environment
  <2> QED
    BY <2>1, <2>2 DEF Apart
<1>3. ASSUME NEW p \in Operations, p # o PROVE OperationInv(p)'
  BY <1>2, <1>3, ApartKeeps DEF SubmissionInv
<1>4. ASSUME Runtime(o) PROVE OperationInv(o)'
  <2>1. CASE \E s \in Gone : End(o, s)
    <3>1. wl[o] = "live" /\ wl'[o] \in Gone /\ starts' = starts /\ forgot' = forgot
      BY <2>1, <1>a DEF End, TypeOK, RuntimeTypeOK
    <3>2. Stays(o)
      BY <1>4, <1>n, <3>1 DEF Runtime, Stays
    <3>3. RecordInv(o)'
      BY <1>4, <1>b, <1>n, <3>1 DEF Runtime, RecordInv, Gone, Endings
    <3> QED
      BY <1>4, <1>a, <1>q, <3>1, <3>2, <3>3, EnvironmentOf
  <2>2. CASE Forget(o)
    <3>1. wl' = wl /\ starts' = starts /\ wl[o] \in Gone /\ ~ReportsCompleted
      BY <2>2 DEF Forget
    <3>2. \A s \in Ended : Vouched(o, s)' <=> Vouched(o, s)
      BY <1>4, <3>1 DEF Runtime, Vouched, NeverUsable
    <3>3. Stays(o)
      BY <1>4, <3>1, <3>2 DEF Runtime, Stays
    <3>4. RecordInv(o)'
      BY <1>4, <1>b, <3>1, <3>2 DEF Runtime, RecordInv
    <3> QED
      BY <1>4, <1>a, <1>q, <3>1, <3>3, <3>4, EnvironmentOf
  <2> QED
    BY <1>4, <2>1, <2>2 DEF Runtime
<1>5. ASSUME Report(o) \/ Degrade(o) PROVE OperationInv(o)'
  <2>1. wl[o] = "live" /\ wl' = wl /\ starts' = starts /\ forgot' = forgot
    BY <1>5 DEF Report, Degrade
  <2>2. att[o] \notin Ended
    BY <1>b, <1>n, <2>1 DEF RecordInv
  <2>3. Stays(o)
    BY <1>5, <1>n, <2>1 DEF Report, Degrade, Stays
  <2>4. RecordInv(o)'
    BY <1>5, <1>b, <2>1, <2>2 DEF Report, Degrade, RecordInv
  <2> QED
    BY <1>5, <1>a, <1>q, <2>1, <2>3, <2>4, EnvironmentOf
<1>6. ASSUME NEW c \in Controllers, Accept(c, o) \/ Reject(c, o) PROVE OperationInv(o)'
  <2>1. /\ <<c, o>> \in transit /\ transit' = transit \ {<<c, o>>}
        /\ UNCHANGED <<sub, att, run, report, degraded, up, seen>>
    BY <1>6 DEF Accept, Reject
  <2>2. \/ Accept(c, o) /\ Waits(c, o) /\ pc'[c][o] = "accepted"
        \/ Reject(c, o) /\ Waits(c, o) /\ pc'[c][o] = "refused"
        \/ pc'[c][o] = pc[c][o]
    <3>1. "accepted" \in Steps /\ "refused" \in Steps
      BY DEF Steps
    <3> QED
      BY <1>6, <1>a, <3>1, GotoIs DEF Accept, Reject
  <2>3. \A d \in Controllers \ {c} : pc'[d][o] = pc[d][o]
    <3>1. "accepted" \in Steps /\ "refused" \in Steps
      BY DEF Steps
    <3> QED
      BY <1>6, <1>a, <3>1, GotoIs DEF Accept, Reject
  <2>4. SentOnce(o)'
    BY <1>a, <2>1, <2>2, <2>3, Received
  <2>5. ~forgot[o] /\ sub[o] # "none"
    BY <1>b, <2>1 DEF SentOnce, Pending, RecordInv, Gone, Endings
  <2>6. \/ wl'[o] = wl[o] /\ starts'[o] = starts[o] /\ forgot'[o] = FALSE
        \/ wl[o] = "absent" /\ wl'[o] = "live" /\ starts'[o] = starts[o] + 1 /\ forgot'[o] = FALSE
        \/ wl[o] = "absent" /\ wl'[o] = "rejected" /\ starts'[o] = starts[o] /\ forgot'[o] = FALSE
    BY <1>6, <1>a, <2>5 DEF Accept, Reject, SubmitOrGet, Refuse, Unknown, TypeOK, RuntimeTypeOK
  <2>7. /\ Accept(c, o) => wl'[o] \notin {"absent", "rejected"}
        /\ Reject(c, o) => wl'[o] = "rejected"
    BY <1>a, <2>5 DEF Accept, Reject, SubmitOrGet, Refuse, Unknown, TypeOK, RuntimeTypeOK
  <2>8. wl'[o] = wl[o] => \A s \in Ended : Vouched(o, s)' <=> Vouched(o, s)
    BY <2>1 DEF Vouched, NeverUsable
  <2>9. Stays(o)
    BY <1>b, <1>n, <2>1, <2>6, <2>8 DEF Stays, RecordInv
  <2>10. RecordInv(o)'
    <3>1. CASE wl'[o] = wl[o]
      BY <3>1, <1>b, <2>1, <2>6, <2>8 DEF RecordInv
    <3>2. CASE wl[o] = "absent"
      BY <3>2, <1>b, <1>n, <2>1, <2>5, <2>6 DEF RecordInv
    <3> QED
      BY <3>1, <3>2, <2>6
  <2>11. KnownAt(c, o)'
    <3>1. CASE pc'[c][o] = pc[c][o]
      BY <3>1, <1>a, <2>1, <2>9, KnownStays DEF OperationInv, Keeps
    <3>2. CASE Accept(c, o) /\ Waits(c, o) /\ pc'[c][o] = "accepted"
      BY <3>2, <2>1, <2>5, <2>7, <2>10 DEF KnownAt, RecordInv
    <3>3. CASE Reject(c, o) /\ Waits(c, o) /\ pc'[c][o] = "refused"
      BY <3>3, <2>1, <2>5, <2>7 DEF KnownAt
    <3> QED
      BY <2>2, <3>1, <3>2, <3>3
  <2>12. \A d \in Controllers \ {c} : Keeps(d, o)
    BY <2>1, <2>3 DEF Keeps
  <2> QED
    BY <1>a, <2>4, <2>9, <2>10, <2>11, <2>12, StepOf
<1>7. OperationInv(o)'
  BY <1>4, <1>5, <1>6 DEF Environment
<1> QED
  BY <1>1, <1>3, <1>7 DEF SubmissionInv

-----------------------------------------------------------------------------
(* The theorems. *)

LEMMA InitInv ==
  ASSUME Init
  PROVE  SubmissionInv
<1>1. TypeOK
  BY SubmissionAssumption DEF Init, RuntimeInit, TypeOK, RuntimeTypeOK, Workloads, Steps, Ended
<1>2. ASSUME NEW o \in Operations PROVE OperationInv(o)
  <2>1. RecordInv(o)
    BY DEF Init, RuntimeInit, RecordInv, Ended
  <2>2. SentOnce(o)
    BY DEF Init, SentOnce, Pending
  <2>3. ASSUME NEW c \in Controllers PROVE KnownAt(c, o)
    BY DEF Init, KnownAt
  <2> QED
    BY <2>1, <2>2, <2>3 DEF OperationInv
<1> QED
  BY <1>1, <1>2 DEF SubmissionInv

LEMMA StutterKeeps ==
  ASSUME SubmissionInv, UNCHANGED vars
  PROVE  SubmissionInv'
<1> USE DEF vars, runtimeVars, journalVars, hostVars, boundVars
<1>1. TypeOK'
  BY DEF SubmissionInv, TypeOK, RuntimeTypeOK
<1>2. ASSUME NEW o \in Operations PROVE OperationInv(o)'
  <2>1. Apart(o)
    BY DEF Apart, Fixed, Keeps
  <2> QED
    BY <2>1, ApartKeeps DEF SubmissionInv
<1> QED
  BY <1>1, <1>2 DEF SubmissionInv

\* The invariant is inductive, whatever the controllers, the runtime and the
\* processes do.
LEMMA NextKeeps ==
  ASSUME SubmissionInv, [Next]_vars
  PROVE  SubmissionInv'
BY StepKeeps, ProcessKeeps, EnvironmentKeeps, StutterKeeps DEF Next

LEMMA InvIsSound ==
  ASSUME SubmissionInv
  PROVE  SubmissionSound
<1>1. ASSUME NEW o \in Operations PROVE RecordInv(o) /\ starts[o] \in Nat
  BY DEF SubmissionInv, OperationInv, TypeOK, RuntimeTypeOK
<1>2. StartedOnce
  <2> SUFFICES ASSUME NEW o \in Operations PROVE starts[o] <= 1
    BY DEF StartedOnce
  <2> QED
    BY <1>1 DEF RecordInv
<1>3. JournalHonest
  <2> SUFFICES ASSUME NEW o \in Operations
               PROVE  /\ starts[o] > 0 => sub[o] \in {"intended", "confirmed"}
                      /\ sub[o] = "confirmed" => starts[o] > 0
                      /\ sub[o] = "failed" => wl[o] = "rejected"
    BY DEF JournalHonest
  <2>1. sub[o] \in {"none", "intended", "confirmed", "failed"}
    BY DEF SubmissionInv, TypeOK
  <2> QED
    BY <1>1, <2>1 DEF RecordInv
<1>4. AttemptsHonest
  <2> SUFFICES ASSUME NEW o \in Operations
               PROVE  /\ att[o] \in {"succeeded", "cancelled", "preempted"} => wl[o] = att[o]
                      /\ att[o] = "failed" => \/ wl[o] \in {"failed", "rejected"}
                                              \/ wl[o] = "succeeded" /\ o \in Evaluations
                      /\ o \in Evaluations /\ wl[o] = "succeeded" /\ att[o] \in Ended =>
                           (att[o] = "succeeded" <=> report[o] = "usable")
    BY DEF AttemptsHonest
  <2>1. att[o] \in Ended => Vouched(o, att[o])
    BY <1>1 DEF RecordInv
  <2> QED
    BY <2>1 DEF Ended, Vouched, NeverUsable
<1> QED
  BY <1>2, <1>3, <1>4 DEF SubmissionInv, SubmissionSound

\* No workload is started twice, the journal does not lie about it and no
\* attempt's outcome is guessed: Submission!SubmissionSound, for any number of
\* controllers, operations, crashes and errors.
THEOREM Sound == Spec => []SubmissionSound
<1>1. Init => SubmissionInv
  BY InitInv
<1>2. SubmissionInv /\ [Next]_vars => SubmissionInv'
  BY NextKeeps
<1>3. SubmissionInv => SubmissionSound
  BY InvIsSound
<1> QED
  BY <1>1, <1>2, <1>3, PTL DEF Spec

\* What a step may do with the record of an attempt.
LEMMA AttemptMoves ==
  ASSUME SubmissionInv, [Next]_vars, NEW p \in Operations
  PROVE  \/ att'[p] = att[p]
         \/ att[p] = "none" /\ att'[p] = "created" /\ run'[p] = "active"
         \/ att[p] \in Live /\ att'[p] \in Live /\ Rank[att[p]] < Rank[att'[p]]
         \/ att[p] \in Live /\ att'[p] \in Ended
<1> USE DEF runtimeVars, journalVars, hostVars, boundVars
<1>a. /\ att \in [Operations -> {"none"} \cup Live \cup Ended]
      /\ run \in [Operations -> {"none", "active", "succeeded", "failed", "cancelled"}]
      /\ \A c \in Controllers, o \in Operations : seen[c][o] \in Ended
  BY DEF SubmissionInv, TypeOK
<1>1. CASE UNCHANGED att
  BY <1>1
<1>2. ASSUME NEW c \in Controllers, NEW o \in Operations, Submit(c, o)
      PROVE  \/ UNCHANGED att
             \/ att' = [att EXCEPT ![o] = "created"] /\ att[o] = "none" /\ run'[o] = "active"
  <2>1. CASE Admit(c, o)
    <3>1. RecordInv(o) /\ run[o] = "none"
      BY <2>1 DEF Admit, SubmissionInv, OperationInv
    <3> QED
      BY <2>1, <3>1, <1>a DEF Admit, CreateWithIntent, RecordInv
  <2>2. CASE StartEvaluation(c, o)
    BY <2>2 DEF StartEvaluation, CreateWithIntent
  <2>3. CASE BeginCycle(c, o) \/ Issue(c, o) \/ Confirm(c, o) \/ FailOperation(c, o)
    BY <2>3 DEF BeginCycle, Issue, Confirm, FailOperation
  <2> QED
    BY <1>2, <2>1, <2>2, <2>3 DEF Submit
<1>3. ASSUME NEW c \in Controllers, NEW o \in Operations, Drive(c, o)
      PROVE  \/ UNCHANGED att
             \/ \E t \in {"queued", "starting", "running"} : att' = [att EXCEPT ![o] = Advance(o, t)]
             \/ att[o] \in Live /\ \E s \in Ended : att' = [att EXCEPT ![o] = s]
  <2>1. CASE Adopt(c, o) \/ \E t \in {"starting", "running"} : Observe(c, o, t)
    BY <2>1 DEF Adopt, Observe
  <2>2. CASE RecordResult(c, o)
    BY <2>2 DEF RecordResult, Ended
  <2>3. CASE Settle(c, o)
    <3>1. CASE att[o] \in Live
      BY <2>3, <3>1, <1>a DEF Settle
    <3>2. CASE att[o] \notin Live
      BY <2>3, <3>2, <1>a DEF Settle
    <3> QED
      BY <3>1, <3>2
  <2>4. CASE Hold(c, o) \/ ReadStatus(c, o) \/ SettleRun(c, o) \/ Finish(c, o) \/ Reconcile(c, o)
             \/ LookUp(c, o) \/ Raise(c, o)
    BY <2>4 DEF Hold, ReadStatus, SettleRun, Finish, Reconcile, LookUp, Raise
  <2> QED
    BY <1>3, <2>1, <2>2, <2>3, <2>4 DEF Drive
<1>4. ASSUME NEW o \in Operations, Environment(o) PROVE UNCHANGED att
  BY <1>4 DEF Environment, Runtime, Report, Degrade, Accept, Reject
<1>5. ASSUME NEW c \in Controllers, Attach(c) \/ Crash(c) \/ Superseded(c) \/ Start(c)
      PROVE  UNCHANGED att
  BY <1>5 DEF Attach, Crash, Superseded, Down, Start
<1>6. ASSUME NEW c \in Controllers, NEW o \in Operations, Submit(c, o)
      PROVE  att'[p] = att[p] \/ (att[p] = "none" /\ att'[p] = "created" /\ run'[p] = "active")
  BY <1>2, <1>6, <1>a
<1>7. ASSUME NEW c \in Controllers, NEW o \in Operations, Drive(c, o)
      PROVE  \/ att'[p] = att[p]
             \/ att[p] \in Live /\ att'[p] \in Live /\ Rank[att[p]] < Rank[att'[p]]
             \/ att[p] \in Live /\ att'[p] \in Ended
  <2>1. ASSUME NEW t \in {"queued", "starting", "running"}, att' = [att EXCEPT ![o] = Advance(o, t)]
        PROVE  att'[p] = att[p] \/ (att[p] \in Live /\ att'[p] \in Live /\ Rank[att[p]] < Rank[att'[p]])
    BY <2>1, <1>a DEF Advance, Live
  <2>2. ASSUME att[o] \in Live, NEW s \in Ended, att' = [att EXCEPT ![o] = s]
        PROVE  att'[p] = att[p] \/ (att[p] \in Live /\ att'[p] \in Ended)
    BY <2>2, <1>a
  <2> QED
    BY <1>3, <1>7, <2>1, <2>2
<1> QED
  BY <1>1, <1>4, <1>5, <1>6, <1>7 DEF Next, vars

\* The record of an attempt only moves forward and an ending is final:
\* Submission!AttemptForward.
THEOREM Forward == Spec => AttemptForward
<1>1. Init => SubmissionInv
  BY InitInv
<1>2. SubmissionInv /\ [Next]_vars => SubmissionInv'
  BY NextKeeps
<1>3. ASSUME SubmissionInv, [Next]_vars
      PROVE  [\A o \in Operations : att'[o] # att[o] => Order(att[o]) < Order(att'[o])]_vars
  <2>1. ASSUME NEW o \in Operations, att'[o] # att[o] PROVE Order(att[o]) < Order(att'[o])
    BY <1>3, <2>1, AttemptMoves DEF Order, Live, Ended, Rank
  <2> QED
    BY <2>1
<1> QED
  BY <1>1, <1>2, <1>3, PTL DEF Spec, AttemptForward

\* What a step may do with the record of a run.
LEMMA RunMoves ==
  ASSUME SubmissionInv, [Next]_vars, NEW p \in Operations
  PROVE  \/ run'[p] = run[p]
         \/ run'[p] = "active"
         \/ run'[p] = "failed" /\ att'[p] = "none" /\ p \in Evaluations
         \/ run'[p] = RunOutcome(att'[p])
<1> USE DEF runtimeVars, journalVars, hostVars, boundVars
<1>a. /\ att \in [Operations -> {"none"} \cup Live \cup Ended]
      /\ run \in [Operations -> {"none", "active", "succeeded", "failed", "cancelled"}]
      /\ \A c \in Controllers, o \in Operations : KnownAt(c, o)
  BY DEF SubmissionInv, OperationInv, TypeOK
<1>1. ASSUME NEW c \in Controllers, NEW o \in Operations, Submit(c, o)
      PROVE  \/ UNCHANGED run
             \/ run' = [run EXCEPT ![o] = "active"]
             \/ run' = [run EXCEPT ![o] = "failed"] /\ att'[o] = "none" /\ o \in Evaluations
  <2>1. CASE StartEvaluation(c, o)
    BY <2>1, <1>a DEF StartEvaluation, At, KnownAt
  <2>2. CASE Admit(c, o) \/ BeginCycle(c, o) \/ Issue(c, o) \/ Confirm(c, o) \/ FailOperation(c, o)
    BY <2>2 DEF Admit, BeginCycle, Issue, Confirm, FailOperation
  <2> QED
    BY <1>1, <2>1, <2>2 DEF Submit
<1>2. ASSUME NEW c \in Controllers, NEW o \in Operations, Drive(c, o)
      PROVE  UNCHANGED run \/ run' = [run EXCEPT ![o] = IF @ = "active" THEN RunOutcome(att'[o]) ELSE @]
  <2>1. CASE RecordResult(c, o)
    BY <2>1, <1>a DEF RecordResult, RunOutcome
  <2>2. CASE SettleRun(c, o)
    <3>1. att'[o] = seen[c][o]
      BY <2>2, <1>a DEF SettleRun, At, KnownAt
    <3> QED
      BY <2>2, <3>1 DEF SettleRun
  <2>3. CASE Adopt(c, o) \/ (\E t \in {"starting", "running"} : Observe(c, o, t)) \/ Settle(c, o)
    BY <2>3 DEF Adopt, Observe, Settle
  <2>4. CASE Hold(c, o) \/ ReadStatus(c, o) \/ Finish(c, o) \/ Reconcile(c, o)
             \/ LookUp(c, o) \/ Raise(c, o)
    BY <2>4 DEF Hold, ReadStatus, Finish, Reconcile, LookUp, Raise
  <2> QED
    BY <1>2, <2>1, <2>2, <2>3, <2>4 DEF Drive
<1>3. ASSUME NEW o \in Operations, Environment(o) PROVE UNCHANGED run
  BY <1>3 DEF Environment, Runtime, Report, Degrade, Accept, Reject
<1>4. ASSUME NEW c \in Controllers, Attach(c) \/ Crash(c) \/ Superseded(c) \/ Start(c)
      PROVE  UNCHANGED run
  BY <1>4 DEF Attach, Crash, Superseded, Down, Start
<1>5. ASSUME NEW c \in Controllers, NEW o \in Operations, Submit(c, o)
      PROVE  \/ run'[p] \in {run[p], "active"}
             \/ run'[p] = "failed" /\ att'[p] = "none" /\ p \in Evaluations
  BY <1>1, <1>5, <1>a
<1>6. ASSUME NEW c \in Controllers, NEW o \in Operations, Drive(c, o)
      PROVE  run'[p] = run[p] \/ run'[p] = RunOutcome(att'[p])
  BY <1>2, <1>6, <1>a
<1>7. CASE UNCHANGED run
  BY <1>7
<1> QED
  BY <1>3, <1>4, <1>5, <1>6, <1>7 DEF Next, vars

\* A run that has ended agrees with its attempt, or is an evaluation that was
\* refused one: Submission!RunsHonest.
THEOREM RunsTrue == Spec => []RunsHonest
<1>1. Init => SubmissionInv /\ RunsHonest
  BY InitInv DEF Init, RunsHonest
<1>2. SubmissionInv /\ RunsHonest /\ [Next]_vars => SubmissionInv' /\ RunsHonest'
  <2> SUFFICES ASSUME SubmissionInv, RunsHonest, [Next]_vars PROVE RunsHonest'
    BY NextKeeps
  <2> SUFFICES ASSUME NEW o \in Operations, run'[o] \notin {"none", "active"}
               PROVE  \/ run'[o] = RunOutcome(att'[o])
                      \/ run'[o] = "failed" /\ att'[o] = "none" /\ o \in Evaluations
    BY DEF RunsHonest, RunOutcome
  <2>1. CASE run'[o] = run[o]
    <3>1. \/ run[o] = RunOutcome(att[o])
          \/ run[o] = "failed" /\ att[o] = "none" /\ o \in Evaluations
      BY <2>1 DEF RunsHonest
    <3>2. run[o] \in {"succeeded", "failed", "cancelled"}
      BY <2>1 DEF SubmissionInv, TypeOK
    <3>3. att[o] \notin Live
      BY <3>1, <3>2 DEF RunOutcome, Live
    <3>4. att'[o] = att[o]
      BY <3>3, <2>1, AttemptMoves
    <3> QED
      BY <2>1, <3>1, <3>4
  <2> QED
    BY <2>1, RunMoves
<1> QED
  BY <1>1, <1>2, PTL DEF Spec

=============================================================================
