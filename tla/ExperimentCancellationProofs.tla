-------------------- MODULE ExperimentCancellationProofs --------------------
(***************************************************************************)
(* That a cancelled experiment has stopped, at the runtime too, and that   *)
(* its saga takes credit for what it did alone; and that a cancellation    *)
(* takes nothing from what SubmissionProofs says of the attempts.          *)
(***************************************************************************)
EXTENDS ExperimentCancellation, SubmissionProofs

\* What an attempt's cancel Action and operation stand for.
SagaInv(o) ==
  /\ child[o] # "none" => att[o] # "none"
  /\ cop[o] = "confirmed" => asked[o]
  /\ child[o] = "applied" => asked[o] /\ att[o] = "cancelled"
  /\ child[o] = "superseded" => att[o] \in Ended \ {"cancelled"}

\* An effect to be confirmed has reached the runtime.
CallInv == \A c \in Controllers : calling[c] \in Operations => asked[calling[c]]

\* Nothing of a cancelled experiment is live, nor can an attempt be added.
StoppedInv ==
  exp = "cancelled" => \A o \in Operations : att[o] \notin Live /\ run[o] # "active"

CancelInv ==
  /\ SubmissionInv
  /\ CancelTypeOK
  /\ \A o \in Operations : SagaInv(o)
  /\ CallInv
  /\ StoppedInv

-----------------------------------------------------------------------------
(* What the saga does to the attempts. *)

\* An effect, its failure and the experiment's end change nothing that the
\* attempts rest on.
LEMMA SagaLeavesAttempts ==
  ASSUME SubmissionInv, NEW c \in Controllers,
         Close(c) \/ RaiseCancel(c) \/ \E o \in Operations : CallCancel(c, o)
  PROVE  SubmissionInv'
<1> USE DEF runtimeVars, journalVars, hostVars, boundVars
<1>1. TypeOK'
  <2>a. TypeOK
    BY DEF SubmissionInv
  <2>1. CASE Close(c)
    BY <2>1, <2>a DEF Close, vars, TypeOK, RuntimeTypeOK
  <2>2. CASE RaiseCancel(c)
    BY <2>2, <2>a, SubmissionAssumption DEF RaiseCancel, TypeOK, RuntimeTypeOK
  <2>3. CASE \E o \in Operations : CallCancel(c, o)
    BY <2>3, <2>a DEF CallCancel, Cancel, TypeOK, RuntimeTypeOK
  <2> QED
    BY <2>1, <2>2, <2>3
<1>2. ASSUME NEW o \in Operations PROVE Apart(o)
  <2>1. Fixed(o)
    <3>1. CASE Close(c)
      BY <3>1 DEF Close, Fixed
    <3>2. CASE RaiseCancel(c) \/ \E p \in Operations : CallCancel(c, p)
      BY <3>2 DEF RaiseCancel, CallCancel, Cancel, Fixed
    <3> QED
      BY <3>1, <3>2
  <2>2. UNCHANGED <<pc, seen, transit>>
    BY DEF Close, RaiseCancel, CallCancel
  <2> QED
    BY <2>1, <2>2 DEF Apart, Keeps
<1>3. ASSUME NEW o \in Operations PROVE OperationInv(o)'
  BY <1>2, ApartKeeps DEF SubmissionInv
<1> QED
  BY <1>1, <1>3 DEF SubmissionInv

\* Every other step is one of Submission's, or leaves it all alone.
LEMMA OtherwiseSubmission ==
  ASSUME CancelNext
  PROVE  \/ [Next]_vars
         \/ \E c \in Controllers : Close(c) \/ RaiseCancel(c) \/ \E o \in Operations : CallCancel(c, o)
<1>1. ASSUME NEW c \in Controllers, Saga(c)
      PROVE  UNCHANGED vars \/ Close(c) \/ RaiseCancel(c) \/ \E o \in Operations : CallCancel(c, o)
  BY <1>1 DEF Saga, Request, Resume, ConfirmCancel, SettleChildren, Skip
<1>2. ASSUME NEW c \in Controllers, Dies(c) \/ Attach(c) \/ Start(c) PROVE Next
  BY <1>2 DEF Dies, Next
<1>3. ASSUME NEW c \in Controllers, NEW o \in Operations,
             NewRun(c, o) \/ FinishAndReconcile(c, o) \/ Work(c, o)
      PROVE  Next
  <2>1. Submit(c, o) \/ Drive(c, o)
    BY <1>3 DEF NewRun, FinishAndReconcile, Work, Progress, Submit, Drive
  <2> QED
    BY <2>1 DEF Next
<1>4. ASSUME NEW o \in Operations, Outside(o) PROVE Next
  <2>1. Environment(o)
    BY <1>4 DEF Outside, Environment
  <2> QED
    BY <2>1 DEF Next
<1> QED
  BY <1>1, <1>2, <1>3, <1>4 DEF CancelNext

\* What any step does to an attempt's record, and to what the runtime was asked.
LEMMA AttemptUnderSaga ==
  ASSUME CancelInv, [CancelNext]_cvars, NEW o \in Operations
  PROVE  /\ SubmissionInv'
         /\ att[o] # "none" => att'[o] # "none"
         /\ att[o] \in Ended => att'[o] = att[o]
         /\ asked[o] => asked'[o]
<1> USE DEF runtimeVars, journalVars, hostVars, boundVars
<1>a. SubmissionInv /\ att[o] \in {"none"} \cup Live \cup Ended /\ asked \in [Operations -> BOOLEAN]
  BY DEF CancelInv, SubmissionInv, TypeOK, RuntimeTypeOK
<1>1. CASE [Next]_vars
  <2>1. SubmissionInv'
    BY <1>1, <1>a, NextKeeps
  <2>2. asked' = asked
    <3>1. ASSUME NEW c \in Controllers, NEW p \in Operations, Submit(c, p) \/ Drive(c, p)
          PROVE  asked' = asked
      BY <3>1 DEF Submit, Drive, Admit, BeginCycle, StartEvaluation, Issue, Confirm, FailOperation, Adopt,
                  Observe, Hold, ReadStatus, RecordResult, Settle, SettleRun, Finish, Reconcile, LookUp, Raise
    <3>2. ASSUME NEW p \in Operations, Environment(p) PROVE asked' = asked
      BY <3>2 DEF Environment, Runtime, End, Forget, Report, Degrade, Accept, Reject, SubmitOrGet, Refuse
    <3>3. ASSUME NEW c \in Controllers, Attach(c) \/ Crash(c) \/ Superseded(c) \/ Start(c)
          PROVE  asked' = asked
      BY <3>3 DEF Attach, Crash, Superseded, Down, Start
    <3> QED
      BY <1>1, <3>1, <3>2, <3>3 DEF Next, vars
  <2>3. /\ att[o] # "none" => att'[o] # "none"
        /\ att[o] \in Ended => att'[o] = att[o]
    BY <1>1, <1>a, AttemptMoves DEF Live, Ended
  <2> QED
    BY <2>1, <2>2, <2>3
<1>2. ASSUME NEW c \in Controllers, Close(c) \/ RaiseCancel(c) \/ \E p \in Operations : CallCancel(c, p)
      PROVE  SubmissionInv' /\ att' = att /\ (asked[o] => asked'[o])
  <2>1. SubmissionInv'
    BY <1>2, <1>a, SagaLeavesAttempts
  <2>2. att' = att
    BY <1>2 DEF Close, RaiseCancel, CallCancel
  <2>3. asked[o] => asked'[o]
    BY <1>2, <1>a DEF Close, RaiseCancel, CallCancel, Cancel
  <2> QED
    BY <2>1, <2>2, <2>3
<1>3. CASE UNCHANGED vars
  BY <1>1, <1>3
<1> QED
  BY <1>1, <1>2, <1>3, OtherwiseSubmission DEF cvars

-----------------------------------------------------------------------------
(* The saga's own record. *)

LEMMA CancelTypeKept ==
  ASSUME CancelInv, [CancelNext]_cvars
  PROVE  CancelTypeOK'
<1> USE DEF sagaVars, carryVars
<1>a. CancelTypeOK
  BY DEF CancelInv
<1>1. CASE UNCHANGED <<sagaVars, carryVars>>
  BY <1>1, <1>a DEF CancelTypeOK
<1>2. ASSUME NEW c \in Controllers, Request(c) PROVE CancelTypeOK'
  BY <1>2, <1>a DEF Request, RecordCancellation, LiveAttempts, CancelTypeOK
<1>3. ASSUME NEW c \in Controllers, Resume(c) PROVE CancelTypeOK'
  BY <1>3, <1>a DEF Resume, CancelTypeOK
<1>4. ASSUME NEW c \in Controllers, ConfirmCancel(c) PROVE CancelTypeOK'
  <2>1. calling[c] \in Operations /\ calling' \in [Controllers -> Operations \cup {NoAttempt}]
    BY <1>4, <1>a DEF ConfirmCancel, CancelTypeOK
  <2>2. /\ cop' \in [Operations -> {"none", "intended", "confirmed"}]
        /\ \A o \in Operations : cop'[o] = "none" <=> cop[o] = "none"
    BY <1>4, <1>a, <2>1 DEF ConfirmCancel, CancelTypeOK
  <2>3. effects' \in [Controllers -> SUBSET Operations] /\ closing' \in [Controllers -> BOOLEAN]
    <3>1. effects \in [Controllers -> SUBSET Operations] /\ closing \in [Controllers -> BOOLEAN]
      BY <1>a DEF CancelTypeOK
    <3>2. \/ effects' = [effects EXCEPT ![c] = @ \ {calling[c]}]
          \/ effects' = [effects EXCEPT ![c] = {}]
      BY <1>4 DEF ConfirmCancel
    <3>3. closing' = [closing EXCEPT ![c] = effects[c] = {calling[c]}] \/ closing' = closing
      BY <1>4 DEF ConfirmCancel
    <3>4. effects[c] \ {calling[c]} \in SUBSET Operations /\ {} \in SUBSET Operations
      BY <3>1
    <3>5. effects' \in [Controllers -> SUBSET Operations]
      BY <3>1, <3>2, <3>4
    <3> QED
      BY <3>1, <3>3, <3>5
  <2> QED
    BY <1>4, <1>a, <2>1, <2>2, <2>3 DEF ConfirmCancel, CancelTypeOK
<1>5. ASSUME NEW c \in Controllers, RaiseCancel(c) PROVE CancelTypeOK'
  BY <1>5, <1>a DEF RaiseCancel, CancelTypeOK
<1>6. ASSUME NEW c \in Controllers, SettleChildren(c) PROVE CancelTypeOK'
  <2>1. \A o \in Operations : /\ Observed(o) \in {"none", "executing", "applied", "superseded"}
                              /\ Observed(o) = "none" <=> child[o] = "none"
    BY <1>a DEF Observed, CancelTypeOK
  <2> QED
    BY <1>6, <1>a, <2>1 DEF SettleChildren, CancelTypeOK
<1>7. ASSUME NEW c \in Controllers, Close(c) PROVE CancelTypeOK'
  BY <1>7, <1>a DEF Close, CancelTypeOK
<1>8. ASSUME NEW c \in Controllers, NEW o \in Operations, Skip(c, o) \/ CallCancel(c, o) PROVE CancelTypeOK'
  BY <1>8, <1>a DEF Skip, CallCancel, CancelTypeOK
<1>9. ASSUME NEW c \in Controllers, NEW o \in Operations, FinishAndReconcile(c, o) PROVE CancelTypeOK'
  BY <1>9, <1>a DEF FinishAndReconcile, CancelTypeOK
<1>10. ASSUME NEW c \in Controllers, Dies(c) PROVE CancelTypeOK'
  BY <1>10, <1>a DEF Dies, CancelTypeOK
<1> QED
  BY <1>1, <1>2, <1>3, <1>4, <1>5, <1>6, <1>7, <1>8, <1>9, <1>10
  DEF CancelNext, Saga, NewRun, SagaStays, cvars

LEMMA SagaKept ==
  ASSUME CancelInv, [CancelNext]_cvars, NEW o \in Operations
  PROVE  SagaInv(o)'
<1> USE DEF sagaVars, carryVars
<1>a. CancelTypeOK /\ SagaInv(o) /\ CallInv
  BY DEF CancelInv
<1>b. /\ att[o] # "none" => att'[o] # "none"
      /\ att[o] \in Ended => att'[o] = att[o]
      /\ asked[o] => asked'[o]
      /\ "cancelled" \in Ended
  BY AttemptUnderSaga DEF Ended
<1>1. CASE UNCHANGED <<child, cop>>
  BY <1>1, <1>a, <1>b DEF SagaInv
<1>2. ASSUME NEW c \in Controllers, Request(c) PROVE SagaInv(o)'
  BY <1>2 DEF Request, RecordCancellation, LiveAttempts, SagaInv, vars, journalVars, Live
<1>3. ASSUME NEW c \in Controllers, ConfirmCancel(c) PROVE SagaInv(o)'
  <2>1. child' = child /\ (cop'[o] = cop[o] \/ asked[o])
    BY <1>3, <1>a DEF ConfirmCancel, CancelTypeOK, CallInv
  <2> QED
    BY <2>1, <1>a, <1>b DEF SagaInv
<1>4. ASSUME NEW c \in Controllers, SettleChildren(c) PROVE SagaInv(o)'
  <2>1. child'[o] = Observed(o) /\ cop' = cop /\ att' = att
    BY <1>4 DEF SettleChildren, vars, journalVars
  <2>2. att[o] \in {"none"} \cup Live \cup Ended
    BY DEF CancelInv, SubmissionInv, TypeOK
  <2> QED
    BY <2>1, <2>2, <1>a, <1>b DEF Observed, SagaInv
<1> QED
  BY <1>1, <1>2, <1>3, <1>4
  DEF CancelNext, Saga, Resume, RaiseCancel, Close, Skip, CallCancel, Dies, NewRun, FinishAndReconcile,
      SagaStays, cvars

LEMMA CallsKept ==
  ASSUME CancelInv, [CancelNext]_cvars, NEW d \in Controllers, calling'[d] \in Operations
  PROVE  asked'[calling'[d]]
<1> USE DEF sagaVars, carryVars
<1>a. CancelTypeOK /\ CallInv
  BY DEF CancelInv
<1>1. CASE calling'[d] = calling[d]
  BY <1>1, <1>a, AttemptUnderSaga DEF CallInv
<1>2. ASSUME NEW c \in Controllers, NEW o \in Operations, CallCancel(c, o)
      PROVE  calling'[d] = calling[d] \/ asked'[calling'[d]]
  <2>1. asked \in [Operations -> BOOLEAN]
    BY DEF CancelInv, SubmissionInv, TypeOK, RuntimeTypeOK
  <2> QED
    BY <1>2, <2>1, <1>a DEF CallCancel, Cancel, CancelTypeOK
<1>3. ASSUME NEW c \in Controllers, ConfirmCancel(c) \/ RaiseCancel(c) \/ Dies(c)
      PROVE  calling'[d] = calling[d]
  BY <1>3, <1>a, CancellationAssumption DEF ConfirmCancel, RaiseCancel, Dies, CancelTypeOK
<1> QED
  BY <1>1, <1>2, <1>3
  DEF CancelNext, Saga, Request, Resume, SettleChildren, Close, Skip, NewRun, FinishAndReconcile,
      SagaStays, cvars

\* A cancelled experiment gets no new run and no new attempt.
LEMMA StoppedKept ==
  ASSUME CancelInv, [CancelNext]_cvars
  PROVE  StoppedInv'
<1> USE DEF sagaVars, carryVars
<1>a. CancelTypeOK /\ StoppedInv /\ SubmissionInv
  BY DEF CancelInv
<1> SUFFICES ASSUME exp' = "cancelled", NEW o \in Operations PROVE att'[o] \notin Live /\ run'[o] # "active"
  BY DEF StoppedInv
<1>1. ASSUME NEW c \in Controllers, Close(c), exp = "active"
      PROVE  att'[o] \notin Live /\ run'[o] # "active"
  BY <1>1 DEF Close, LiveAttempts
<1>2. CASE exp = "cancelled"
  <2>1. att[o] \notin Live /\ run[o] # "active"
    BY <1>2, <1>a DEF StoppedInv
  <2>2. run'[o] # "active"
    <3>1. ASSUME NEW c \in Controllers, Close(c) PROVE run'[o] # "active"
      BY <3>1, <2>1 DEF Close
    <3>2. ASSUME NEW c \in Controllers, RaiseCancel(c) \/ \E p \in Operations : CallCancel(c, p) PROVE run' = run
      BY <3>2 DEF RaiseCancel, CallCancel, journalVars
    <3>3. ASSUME NEW c \in Controllers, NEW p \in Operations, NewRun(c, p) PROVE FALSE
      BY <3>3, <1>2 DEF NewRun
    <3>4. CASE \E c \in Controllers, p \in Operations : StartEvaluation(c, p)
      <4>1. PICK c \in Controllers, p \in Operations : StartEvaluation(c, p)
        BY <3>4
      <4>2. run[p] # "active" /\ run \in [Operations -> {"none", "active", "succeeded", "failed", "cancelled"}]
        BY <1>2, <1>a DEF StoppedInv, SubmissionInv, TypeOK
      <4> QED
        BY <4>1, <4>2, <2>1 DEF StartEvaluation
    <3>5. ASSUME NEW c \in Controllers, NEW p \in Operations, SettleRun(c, p) PROVE run'[o] # "active"
      <4>1. run[p] # "active" /\ run \in [Operations -> {"none", "active", "succeeded", "failed", "cancelled"}]
        BY <1>2, <1>a DEF StoppedInv, SubmissionInv, TypeOK
      <4> QED
        BY <3>5, <4>1, <2>1 DEF SettleRun
    <3>6. ASSUME NEW c \in Controllers, NEW p \in Operations, RecordResult(c, p) PROVE run'[o] # "active"
      <4>1. run[p] # "active"
        BY <1>2, <1>a DEF StoppedInv
      <4> QED
        BY <3>6, <4>1, <2>1 DEF RecordResult
    <3>7. CASE run' = run
      BY <3>7, <2>1
    <3>8. ASSUME NEW c \in Controllers, NEW p \in Operations, Work(c, p)
          PROVE  run' = run \/ StartEvaluation(c, p) \/ SettleRun(c, p) \/ RecordResult(c, p)
      BY <3>8 DEF Work, Progress, Issue, Confirm, FailOperation, Adopt, Settle, Reconcile, LookUp, Hold,
                  ReadStatus, Raise, journalVars
    <3>9. ASSUME NEW p \in Operations, Outside(p) PROVE run' = run
      BY <3>9 DEF Outside, Runtime, Report, Accept, Reject, journalVars
    <3>10. ASSUME NEW c \in Controllers, Dies(c) \/ Attach(c) \/ Start(c) PROVE run' = run
      BY <3>10 DEF Dies, Crash, Superseded, Down, Attach, Start, journalVars
    <3>11. ASSUME NEW c \in Controllers, NEW p \in Operations, FinishAndReconcile(c, p) PROVE run' = run
      BY <3>11 DEF FinishAndReconcile, Finish, journalVars
    <3>12. ASSUME NEW c \in Controllers,
                  Request(c) \/ Resume(c) \/ ConfirmCancel(c) \/ SettleChildren(c) \/ \E p \in Operations : Skip(c, p)
           PROVE  run' = run
      BY <3>12 DEF Request, Resume, ConfirmCancel, SettleChildren, Skip, vars, journalVars
    <3>13. CASE UNCHANGED cvars
      BY <3>13, <3>7 DEF cvars, vars, journalVars
    <3>14. ASSUME NEW c \in Controllers, Saga(c) PROVE run'[o] # "active"
      BY <3>14, <3>1, <3>2, <3>7, <3>12 DEF Saga
    <3>15. ASSUME NEW c \in Controllers, NEW p \in Operations, Work(c, p) PROVE run'[o] # "active"
      BY <3>15, <3>4, <3>5, <3>6, <3>7, <3>8
    <3> QED
      BY <3>3, <3>7, <3>9, <3>10, <3>11, <3>13, <3>14, <3>15 DEF CancelNext
  <2>3. att'[o] \notin Live
    <3>1. CASE [Next]_vars
      BY <3>1, <1>a, <2>1, <2>2, AttemptMoves DEF Live, Ended
    <3>2. ASSUME NEW c \in Controllers, Close(c) \/ RaiseCancel(c) \/ \E p \in Operations : CallCancel(c, p)
          PROVE  att' = att
      BY <3>2 DEF Close, RaiseCancel, CallCancel, journalVars
    <3>3. CASE UNCHANGED cvars
      BY <3>1, <3>3 DEF cvars
    <3> QED
      BY <2>1, <3>1, <3>2, <3>3, OtherwiseSubmission
  <2> QED
    BY <2>2, <2>3
<1>3. exp = "cancelled" \/ \E c \in Controllers : Close(c) /\ exp = "active"
  <2>1. exp' = exp \/ \E c \in Controllers : Close(c)
    BY DEF CancelNext, Saga, Request, Resume, ConfirmCancel, RaiseCancel, SettleChildren, Skip, CallCancel,
           Dies, NewRun, FinishAndReconcile, SagaStays, cvars
  <2> QED
    BY <2>1, <1>a DEF CancelTypeOK
<1> QED
  BY <1>1, <1>2, <1>3

-----------------------------------------------------------------------------
(* The theorems. *)

LEMMA CancelInvInit ==
  ASSUME CancelInit
  PROVE  CancelInv
<1>1. SubmissionInv
  BY InitInv DEF CancelInit
<1>2. CancelTypeOK
  BY DEF CancelInit, CancelTypeOK
<1>3. ASSUME NEW o \in Operations PROVE SagaInv(o)
  BY DEF CancelInit, SagaInv
<1>4. CallInv /\ StoppedInv
  BY CancellationAssumption DEF CancelInit, CallInv, StoppedInv
<1> QED
  BY <1>1, <1>2, <1>3, <1>4 DEF CancelInv

LEMMA CancelInvStep ==
  ASSUME CancelInv, [CancelNext]_cvars
  PROVE  CancelInv'
<1>1. SubmissionInv'
  <2>1. CASE [Next]_vars
    BY <2>1, NextKeeps DEF CancelInv
  <2>2. CASE UNCHANGED cvars
    BY <2>1, <2>2 DEF cvars
  <2> QED
    BY <2>1, <2>2, OtherwiseSubmission, SagaLeavesAttempts DEF CancelInv
<1>2. CallInv'
  BY CallsKept DEF CallInv
<1> QED
  BY <1>1, <1>2, CancelTypeKept, SagaKept, StoppedKept DEF CancelInv

LEMMA CancelInvSound ==
  ASSUME CancelInv
  PROVE  CancellationSound
<1>1. ASSUME NEW o \in Operations
      PROVE  /\ RecordInv(o) /\ SentOnce(o) /\ SagaInv(o)
             /\ att[o] \in {"none"} \cup Live \cup Ended /\ wl[o] \in Workloads
  BY DEF CancelInv, SubmissionInv, OperationInv, TypeOK, RuntimeTypeOK
<1>2. CreditHonest
  <2> SUFFICES ASSUME NEW o \in Operations
               PROVE  /\ child[o] = "applied" => asked[o] /\ wl[o] = "cancelled" /\ att[o] = "cancelled"
                      /\ child[o] = "superseded" => att[o] \in Ended \ {"cancelled"}
    BY DEF CreditHonest
  <2>1. att[o] = "cancelled" => wl[o] = "cancelled"
    BY <1>1 DEF RecordInv, Vouched, Ended
  <2> QED
    BY <1>1, <2>1 DEF SagaInv
<1>3. CancelledMeansStopped
  <2> SUFFICES ASSUME exp = "cancelled", NEW o \in Operations
               PROVE  /\ att[o] \notin Live /\ wl[o] # "live"
                      /\ \A c \in Controllers : <<c, o>> \in transit => wl[o] # "absent"
    BY DEF CancelledMeansStopped
  <2>1. att[o] \notin Live
    BY DEF CancelInv, StoppedInv
  <2>2. CASE att[o] = "none"
    <3>1. sub[o] = "none" /\ wl[o] = "absent"
      BY <1>1, <2>2 DEF RecordInv
    <3> QED
      BY <1>1, <2>1, <3>1 DEF SentOnce, Pending
  <2>3. CASE att[o] \in Ended
    <3>1. Vouched(o, att[o])
      BY <1>1, <2>3 DEF RecordInv
    <3> QED
      BY <2>1, <2>3, <3>1 DEF Vouched, Ended
  <2> QED
    BY <1>1, <2>1, <2>2, <2>3
<1> QED
  BY <1>2, <1>3 DEF CancelInv, CancellationSound

\* CANCELLED means that nothing of the experiment runs or ever will, at the
\* runtime as in the record, and a cancel Action is APPLIED only where its own
\* effect reached the workload: ExperimentCancellation!CancellationSound.
THEOREM CancellationTrue == CancelSpec => []CancellationSound
<1>1. CancelInit => CancelInv
  BY CancelInvInit
<1>2. CancelInv /\ [CancelNext]_cvars => CancelInv'
  BY CancelInvStep
<1>3. CancelInv => CancellationSound
  BY CancelInvSound
<1> QED
  BY <1>1, <1>2, <1>3, PTL DEF CancelSpec

\* Cancelling an experiment takes nothing from SubmissionSound: still one
\* workload per operation, a true journal and no guessed outcome.
THEOREM SoundWhileCancelling == CancelSpec => []SubmissionSound
<1>1. CancelInit => CancelInv
  BY CancelInvInit
<1>2. CancelInv /\ [CancelNext]_cvars => CancelInv'
  BY CancelInvStep
<1>3. CancelInv => SubmissionSound
  BY InvIsSound DEF CancelInv
<1> QED
  BY <1>1, <1>2, <1>3, PTL DEF CancelSpec

\* An attempt's record moves forward, and an ending is final, while the
\* experiment is cancelled too: Submission!AttemptForward.
THEOREM ForwardWhileCancelling == CancelSpec => AttemptForward
<1>1. CancelInit => CancelInv
  BY CancelInvInit
<1>2. CancelInv /\ [CancelNext]_cvars => CancelInv'
  BY CancelInvStep
<1>3. ASSUME CancelInv, [CancelNext]_cvars
      PROVE  [\A o \in Operations : att'[o] # att[o] => Order(att[o]) < Order(att'[o])]_vars
  <2>1. ASSUME NEW o \in Operations, att'[o] # att[o] PROVE Order(att[o]) < Order(att'[o])
    <3>1. CASE [Next]_vars
      BY <1>3, <2>1, <3>1, AttemptMoves DEF CancelInv, Order, Live, Ended, Rank
    <3>2. ASSUME NEW c \in Controllers, Close(c) \/ RaiseCancel(c) \/ \E p \in Operations : CallCancel(c, p)
          PROVE  FALSE
      BY <2>1, <3>2 DEF Close, RaiseCancel, CallCancel, journalVars
    <3>3. CASE UNCHANGED cvars
      BY <3>1, <3>3 DEF cvars
    <3> QED
      BY <1>3, <3>1, <3>2, <3>3, OtherwiseSubmission
  <2> QED
    BY <2>1
<1> QED
  BY <1>1, <1>2, <1>3, PTL DEF CancelSpec, AttemptForward
=============================================================================
