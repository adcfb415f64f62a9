------------------------- MODULE LocalRuntimeProofs -------------------------
(***************************************************************************)
(* For any number of operations, callers and launchers: LocalRuntime runs  *)
(* one worker per operation and implements RuntimeContract.  Both rest on  *)
(* Inv: the launcher that won the claim is the only one past it, and once  *)
(* an ending is recorded that launcher is gone.                            *)
(***************************************************************************)
EXTENDS LocalRuntime, TLAPS, FiniteSetTheorems

\* A launcher past the claim, or one with a worker, owns the workload; the
\* owner has left the claim behind.
Ownership ==
  \A o \in Operations, l \in Launchers :
    /\ lpc[o][l] \in Alive \ {"born"} => launcherPid[o] = l
    /\ worker[o][l] # "none" => launcherPid[o] = l
    /\ launcherPid[o] = l => lpc[o][l] \notin {"unborn", "born"}

\* Nothing happens for an operation that was not claimed.
Claimed ==
  \A o \in Operations :
    row[o] # "claimed" =>
      /\ launcherPid[o] = NoPid
      /\ finished[o] = "none"
      /\ ~cancelFile[o]
      /\ \A l \in Launchers : lpc[o][l] = "unborn"
      /\ \A c \in Callers : cpc[c][o] = "idle"

\* The ending is the last thing its launcher writes.
Recorded ==
  \A o \in Operations, l \in Launchers :
    finished[o] # "none" /\ launcherPid[o] = l => lpc[o][l] = "gone"

RecordedOwned ==
  \A o \in Operations : finished[o] # "none" => launcherPid[o] # NoPid

Inv == LocalTypeOK /\ Ownership /\ Claimed /\ Recorded /\ RecordedOwned

-----------------------------------------------------------------------------
\* The type invariant holds in every state.
LEMMA TypeStep == LocalTypeOK /\ [LocalNext]_vars => LocalTypeOK'
<1> SUFFICES ASSUME LocalTypeOK, [LocalNext]_vars PROVE LocalTypeOK'
  OBVIOUS
<1> USE LocalAssumption DEF LocalTypeOK, Calls, Alive, Exits, Endings, registryVars, fileVars, callVars, processVars
<1>1. ASSUME NEW c \in Callers, NEW o \in Operations, Submit(c, o) PROVE LocalTypeOK'
  BY <1>1 DEF Submit, Goto
<1>2. ASSUME NEW c \in Callers, NEW o \in Operations, CheckOwner(c, o) PROVE LocalTypeOK'
  BY <1>2 DEF CheckOwner, Goto
<1>3. ASSUME NEW c \in Callers, NEW o \in Operations, Popen(c, o) PROVE LocalTypeOK'
  <2>1. CASE Goto(c, o, "idle") /\ UNCHANGED lpc
    BY <1>3, <2>1 DEF Popen, Goto
  <2>2. ASSUME NEW l \in Launchers, Becomes(o, l, "born"), Goto(c, o, l)
        PROVE  LocalTypeOK'
    BY <1>3, <2>2 DEF Popen, Goto, Becomes
  <2> QED
    BY <1>3, <2>1, <2>2 DEF Popen
<1>4. ASSUME NEW c \in Callers, NEW o \in Operations, RecordSpawned(c, o) PROVE LocalTypeOK'
  BY <1>4 DEF RecordSpawned, Goto
<1>5. ASSUME NEW c \in Callers, NEW o \in Operations, ClaimCancel(c, o) PROVE LocalTypeOK'
  BY <1>5 DEF ClaimCancel, Goto
<1>6. ASSUME NEW c \in Callers, NEW o \in Operations, WriteCancel(c, o) PROVE LocalTypeOK'
  BY <1>6 DEF WriteCancel, Goto
<1>7. ASSUME NEW c \in Callers, NEW o \in Operations, ReadFinished(c, o) PROVE LocalTypeOK'
  BY <1>7 DEF ReadFinished, Goto
<1>8. ASSUME NEW c \in Callers, NEW o \in Operations, Probe(c, o) PROVE LocalTypeOK'
  BY <1>8 DEF Probe, Goto, Probed
<1>9. ASSUME NEW c \in Callers, CallerDies(c) PROVE LocalTypeOK'
  BY <1>9 DEF CallerDies
<1>10. ASSUME NEW o \in Operations, NEW l \in Launchers, ClaimOwnership(o, l) PROVE LocalTypeOK'
  <2>1. CASE launcherPid[o] = NoPid
    <3>1. launcherPid' = [launcherPid EXCEPT ![o] = l] /\ Becomes(o, l, "owner")
      BY <1>10, <2>1 DEF ClaimOwnership
    <3> QED
      BY <1>10, <3>1 DEF ClaimOwnership, Becomes
  <2>2. CASE launcherPid[o] # NoPid
    <3>1. Becomes(o, l, "gone") /\ UNCHANGED launcherPid
      BY <1>10, <2>2 DEF ClaimOwnership
    <3> QED
      BY <1>10, <3>1 DEF ClaimOwnership, Becomes
  <2> QED
    BY <2>1, <2>2
<1>11. ASSUME NEW o \in Operations, NEW l \in Launchers, CheckCancel(o, l) PROVE LocalTypeOK'
  <2>1. CASE cancelFile[o]
    <3>1. finished' = [finished EXCEPT ![o] = "cancelled"] /\ Becomes(o, l, "gone")
      BY <1>11, <2>1 DEF CheckCancel
    <3> QED
      BY <1>11, <3>1 DEF CheckCancel, Becomes
  <2>2. CASE ~cancelFile[o]
    <3>1. Becomes(o, l, "clear") /\ UNCHANGED finished
      BY <1>11, <2>2 DEF CheckCancel
    <3> QED
      BY <1>11, <3>1 DEF CheckCancel, Becomes
  <2> QED
    BY <2>1, <2>2
<1>12. ASSUME NEW o \in Operations, NEW l \in Launchers, SpawnWorker(o, l) PROVE LocalTypeOK'
  <2>1. CASE Becomes(o, l, "spawned") /\ worker' = [worker EXCEPT ![o][l] = "running"]
    <3>1. UNCHANGED finished
      BY <1>12, <2>1 DEF SpawnWorker, Becomes
    <3> QED
      BY <1>12, <2>1, <3>1 DEF SpawnWorker, Becomes
  <2>2. CASE /\ finished' = [finished EXCEPT ![o] = "failed"]
             /\ Becomes(o, l, "gone")
             /\ UNCHANGED worker
    BY <1>12, <2>2 DEF SpawnWorker, Becomes
  <2> QED
    BY <1>12, <2>1, <2>2 DEF SpawnWorker
<1>13. ASSUME NEW o \in Operations, NEW l \in Launchers, WriteStarted(o, l) PROVE LocalTypeOK'
  BY <1>13 DEF WriteStarted, Becomes
<1>14. ASSUME NEW o \in Operations, NEW l \in Launchers, Poll(o, l) PROVE LocalTypeOK'
  <2>1. \E s \in {"reaped", "signal"} : Becomes(o, l, s)
    BY <1>14 DEF Poll
  <2> QED
    BY <1>14, <2>1 DEF Poll, Becomes
<1>15. ASSUME NEW o \in Operations, NEW l \in Launchers, Signal(o, l) PROVE LocalTypeOK'
  BY <1>15 DEF Signal, Becomes
<1>16. ASSUME NEW o \in Operations, NEW l \in Launchers, WriteFinished(o, l) PROVE LocalTypeOK'
  BY <1>16 DEF WriteFinished, Becomes, FinishedStatus
<1>17. ASSUME NEW o \in Operations, NEW l \in Launchers, LauncherDies(o, l) PROVE LocalTypeOK'
  BY <1>17 DEF LauncherDies, Becomes
<1>18. ASSUME NEW o \in Operations, NEW l \in Launchers, WorkerExits(o, l) PROVE LocalTypeOK'
  BY <1>18 DEF WorkerExits
<1>19. CASE UNCHANGED vars
  BY <1>19 DEF vars
<1> QED
  BY <1>1, <1>2, <1>3, <1>4, <1>5, <1>6, <1>7, <1>8, <1>9, <1>10, <1>11, <1>12, <1>13, <1>14, <1>15, <1>16, <1>17, <1>18, <1>19 DEF LocalNext, Call, Launch

\* The type invariant holds in every reachable state.
THEOREM TypeCorrect == LocalSpec => []LocalTypeOK
<1>1. LocalInit => LocalTypeOK
  BY LocalAssumption DEF LocalInit, LocalTypeOK, Calls, Alive, Exits, Endings
<1> QED
  BY <1>1, TypeStep, PTL DEF LocalSpec

\* A step of any process keeps the four facts about the claim.
LEMMA InvStep == Inv /\ [LocalNext]_vars => Inv'
<1> SUFFICES ASSUME Inv, [LocalNext]_vars PROVE (Ownership /\ Claimed /\ Recorded /\ RecordedOwned)'
  BY TypeStep DEF Inv
<1> DEFINE Rest == Ownership /\ Claimed /\ Recorded /\ RecordedOwned
<1> USE LocalAssumption DEF Inv, LocalTypeOK, Ownership, Claimed, Recorded, RecordedOwned,
        Calls, Alive, Exits, registryVars, fileVars, callVars, processVars
<1>1. ASSUME NEW c \in Callers, NEW o \in Operations, Submit(c, o) PROVE Rest'
  BY <1>1 DEF Submit, Goto
<1>2. ASSUME NEW c \in Callers, NEW o \in Operations, CheckOwner(c, o) PROVE Rest'
  BY <1>2 DEF CheckOwner, Goto
<1>3. ASSUME NEW c \in Callers, NEW o \in Operations, Popen(c, o) PROVE Rest'
  <2>1. CASE Goto(c, o, "idle") /\ UNCHANGED lpc
    BY <1>3, <2>1 DEF Popen, Goto
  <2>2. ASSUME NEW l \in Launchers, lpc[o][l] = "unborn", Becomes(o, l, "born"), Goto(c, o, l)
        PROVE  Rest'
    <3>1. row[o] = "claimed" /\ launcherPid[o] # l
      BY <1>3, <2>2 DEF Popen
    <3> QED
      BY <1>3, <2>2, <3>1 DEF Popen, Goto, Becomes
  <2> QED
    BY <1>3, <2>1, <2>2 DEF Popen
<1>4. ASSUME NEW c \in Callers, NEW o \in Operations, RecordSpawned(c, o) PROVE Rest'
  BY <1>4 DEF RecordSpawned, Goto
<1>5. ASSUME NEW c \in Callers, NEW o \in Operations, ClaimCancel(c, o) PROVE Rest'
  BY <1>5 DEF ClaimCancel, Goto
<1>6. ASSUME NEW c \in Callers, NEW o \in Operations, WriteCancel(c, o) PROVE Rest'
  BY <1>6 DEF WriteCancel, Goto
<1>7. ASSUME NEW c \in Callers, NEW o \in Operations, ReadFinished(c, o) PROVE Rest'
  BY <1>7 DEF ReadFinished, Goto
<1>8. ASSUME NEW c \in Callers, NEW o \in Operations, Probe(c, o) PROVE Rest'
  BY <1>8 DEF Probe, Goto
<1>9. ASSUME NEW c \in Callers, CallerDies(c) PROVE Rest'
  BY <1>9 DEF CallerDies
<1>10. ASSUME NEW o \in Operations, NEW l \in Launchers, ClaimOwnership(o, l) PROVE Rest'
  <2>1. row[o] = "claimed"
    BY <1>10 DEF ClaimOwnership
  <2>2. CASE launcherPid[o] = NoPid
    <3>1. launcherPid' = [launcherPid EXCEPT ![o] = l] /\ Becomes(o, l, "owner")
      BY <1>10, <2>2 DEF ClaimOwnership
    <3> QED
      BY <1>10, <2>1, <2>2, <3>1 DEF ClaimOwnership, Becomes
  <2>3. CASE launcherPid[o] # NoPid
    <3>1. Becomes(o, l, "gone") /\ UNCHANGED launcherPid
      BY <1>10, <2>3 DEF ClaimOwnership
    <3> QED
      BY <1>10, <2>1, <2>3, <3>1 DEF ClaimOwnership, Becomes
  <2> QED
    BY <2>2, <2>3
<1>11. ASSUME NEW o \in Operations, NEW l \in Launchers, CheckCancel(o, l) PROVE Rest'
  <2>1. launcherPid[o] = l /\ row[o] = "claimed"
    BY <1>11 DEF CheckCancel
  <2>2. CASE cancelFile[o]
    <3>1. finished' = [finished EXCEPT ![o] = "cancelled"] /\ Becomes(o, l, "gone")
      BY <1>11, <2>2 DEF CheckCancel
    <3> QED
      BY <1>11, <2>1, <3>1 DEF CheckCancel, Becomes
  <2>3. CASE ~cancelFile[o]
    <3>1. Becomes(o, l, "clear") /\ UNCHANGED finished
      BY <1>11, <2>3 DEF CheckCancel
    <3> QED
      BY <1>11, <2>1, <3>1 DEF CheckCancel, Becomes
  <2> QED
    BY <2>2, <2>3
<1>12. ASSUME NEW o \in Operations, NEW l \in Launchers, SpawnWorker(o, l) PROVE Rest'
  <2>1. launcherPid[o] = l /\ row[o] = "claimed" /\ finished[o] = "none"
    BY <1>12 DEF SpawnWorker
  <2>2. CASE Becomes(o, l, "spawned") /\ worker' = [worker EXCEPT ![o][l] = "running"]
    <3>1. UNCHANGED finished
      BY <1>12, <2>2 DEF SpawnWorker, Becomes
    <3> QED
      BY <1>12, <2>1, <2>2, <3>1 DEF SpawnWorker, Becomes
  <2>3. CASE /\ finished' = [finished EXCEPT ![o] = "failed"]
             /\ Becomes(o, l, "gone")
             /\ UNCHANGED worker
    BY <1>12, <2>1, <2>3 DEF SpawnWorker, Becomes
  <2> QED
    BY <1>12, <2>2, <2>3 DEF SpawnWorker
<1>13. ASSUME NEW o \in Operations, NEW l \in Launchers, WriteStarted(o, l) PROVE Rest'
  BY <1>13 DEF WriteStarted, Becomes
<1>14. ASSUME NEW o \in Operations, NEW l \in Launchers, Poll(o, l) PROVE Rest'
  <2>1. PICK s \in {"reaped", "signal"} : Becomes(o, l, s)
    BY <1>14 DEF Poll
  <2>2. launcherPid[o] = l /\ row[o] = "claimed"
    BY <1>14 DEF Poll
  <2> QED
    BY <1>14, <2>1, <2>2 DEF Poll, Becomes
<1>15. ASSUME NEW o \in Operations, NEW l \in Launchers, Signal(o, l) PROVE Rest'
  BY <1>15 DEF Signal, Becomes
<1>16. ASSUME NEW o \in Operations, NEW l \in Launchers, WriteFinished(o, l) PROVE Rest'
  <2>1. launcherPid[o] = l /\ row[o] = "claimed"
    BY <1>16 DEF WriteFinished
  <2>2. PICK e : finished' = [finished EXCEPT ![o] = e]
    BY <1>16 DEF WriteFinished
  <2> QED
    BY <1>16, <2>1, <2>2 DEF WriteFinished, Becomes
<1>17. ASSUME NEW o \in Operations, NEW l \in Launchers, LauncherDies(o, l) PROVE Rest'
  BY <1>17 DEF LauncherDies, Becomes
<1>18. ASSUME NEW o \in Operations, NEW l \in Launchers, WorkerExits(o, l) PROVE Rest'
  BY <1>18 DEF WorkerExits
<1>19. CASE UNCHANGED vars
  BY <1>19 DEF vars
<1> QED
  BY <1>1, <1>2, <1>3, <1>4, <1>5, <1>6, <1>7, <1>8, <1>9, <1>10, <1>11, <1>12, <1>13, <1>14, <1>15, <1>16, <1>17, <1>18, <1>19 DEF LocalNext, Call, Launch

LEMMA InvAlways == LocalSpec => []Inv
<1>1. LocalInit => Inv
  BY LocalAssumption DEF LocalInit, Inv, LocalTypeOK, Ownership, Claimed, Recorded,
     RecordedOwned, Calls, Alive, Exits, Endings
<1> QED
  BY <1>1, InvStep, PTL DEF LocalSpec

\* One worker per operation, whoever spawned launchers and died.
THEOREM WorkerUnique == LocalSpec => []OneWorker
<1>1. Inv => OneWorker
  <2> SUFFICES ASSUME Inv, NEW o \in Operations
               PROVE  Cardinality({l \in Launchers : worker[o][l] # "none"}) <= 1
    BY DEF OneWorker
  <2> DEFINE W == {l \in Launchers : worker[o][l] # "none"}
  <2>1. W \in SUBSET {launcherPid[o]}
    BY DEF Inv, Ownership
  <2>2. IsFiniteSet({launcherPid[o]}) /\ Cardinality({launcherPid[o]}) = 1
    BY FS_Singleton
  <2>3. Cardinality(W) <= Cardinality({launcherPid[o]})
    BY <2>1, <2>2, FS_Subset
  <2> QED
    BY <2>2, <2>3
<1> QED
  BY <1>1, InvAlways, PTL

\* The status is one the contract allows: above all, a workload that nobody
\* runs or watches any more is not reported as running.
THEOREM StatusTruthful == LocalSpec => []StatusWithinContract
<1>1. Inv => StatusWithinContract
  <2> SUFFICES ASSUME Inv, NEW o \in Operations, row[o] = "claimed"
               PROVE  Status(o) \in Contract!Statuses(o)
    BY DEF StatusWithinContract
  <2>1. CASE finished[o] # "none"
    BY <2>1 DEF Inv, LocalTypeOK, Endings, Status, Workload, Contract!Statuses
  <2>2. CASE finished[o] = "none" /\ Lost(o)
    <3>1. Status(o) = "unknown"
      BY <2>2 DEF Inv, LocalTypeOK, Lost, Status, Probed, Supervised, Supervisor, Alive
    <3> QED
      BY <2>2, <3>1 DEF Workload, Contract!Statuses
  <2>3. CASE finished[o] = "none" /\ ~Lost(o)
    BY <2>3 DEF Status, Probed, Workload, Contract!Statuses
  <2> QED
    BY <2>1, <2>2, <2>3
<1> QED
  BY <1>1, InvAlways, PTL

-----------------------------------------------------------------------------
(* What an ending says.  CancelInv: a request that is on disk was claimed  *)
(* in the registry first.  SignalInv: a launcher passes a request on once, *)
(* and a worker it reached is one it believes it signalled.                *)

CancelInv ==
  \A o \in Operations :
    /\ cancelFile[o] => cancelRow[o]
    /\ \A c \in Callers : cpc[c][o] = "cancel" => cancelRow[o]

SignalInv ==
  \A o \in Operations, l \in Launchers :
    /\ told[o][l] \/ lpc[o][l] = "signal" => cancelFile[o]
    /\ lpc[o][l] = "signal" => ~told[o][l]
    /\ hit[o][l] => told[o][l]
    /\ lpc[o][l] = "reaped" => worker[o][l] \in Exits
    /\ lpc[o][l] = "clear" => worker[o][l] = "none"
    /\ lpc[o][l] \in {"born", "unborn", "owner"} => worker[o][l] = "none"

EndingInv == Inv /\ CancelInv /\ SignalInv /\ EndingHonest

LEMMA EndingStep == EndingInv /\ [LocalNext]_vars => EndingInv'
<1> SUFFICES ASSUME EndingInv, [LocalNext]_vars PROVE (CancelInv /\ SignalInv /\ EndingHonest)'
  BY InvStep DEF EndingInv
<1> DEFINE Rest == CancelInv /\ SignalInv /\ EndingHonest
<1> USE LocalAssumption DEF EndingInv, Inv, LocalTypeOK, CancelInv, SignalInv, EndingHonest,
        Calls, Alive, Exits, Endings, registryVars, fileVars, callVars, processVars
<1>1. ASSUME NEW c \in Callers, NEW o \in Operations, Submit(c, o) PROVE Rest'
  BY <1>1 DEF Submit, Goto
<1>2. ASSUME NEW c \in Callers, NEW o \in Operations, CheckOwner(c, o) PROVE Rest'
  BY <1>2 DEF CheckOwner, Goto
<1>3. ASSUME NEW c \in Callers, NEW o \in Operations, Popen(c, o) PROVE Rest'
  <2>1. CASE Goto(c, o, "idle") /\ UNCHANGED lpc
    BY <1>3, <2>1 DEF Popen, Goto
  <2>2. ASSUME NEW l \in Launchers, lpc[o][l] = "unborn", Becomes(o, l, "born"), Goto(c, o, l)
        PROVE  Rest'
    BY <1>3, <2>2 DEF Popen, Goto, Becomes
  <2> QED
    BY <1>3, <2>1, <2>2 DEF Popen
<1>4. ASSUME NEW c \in Callers, NEW o \in Operations, RecordSpawned(c, o) PROVE Rest'
  BY <1>4 DEF RecordSpawned, Goto
<1>5. ASSUME NEW c \in Callers, NEW o \in Operations, ClaimCancel(c, o) PROVE Rest'
  BY <1>5 DEF ClaimCancel, Goto
<1>6. ASSUME NEW c \in Callers, NEW o \in Operations, WriteCancel(c, o) PROVE Rest'
  BY <1>6 DEF WriteCancel, Goto
<1>7. ASSUME NEW c \in Callers, NEW o \in Operations, ReadFinished(c, o) PROVE Rest'
  BY <1>7 DEF ReadFinished, Goto
<1>8. ASSUME NEW c \in Callers, NEW o \in Operations, Probe(c, o) PROVE Rest'
  BY <1>8 DEF Probe, Goto
<1>9. ASSUME NEW c \in Callers, CallerDies(c) PROVE Rest'
  BY <1>9 DEF CallerDies
<1>10. ASSUME NEW o \in Operations, NEW l \in Launchers, ClaimOwnership(o, l) PROVE Rest'
  <2>1. \E s \in {"owner", "gone"} : Becomes(o, l, s)
    BY <1>10 DEF ClaimOwnership
  <2> QED
    BY <1>10, <2>1 DEF ClaimOwnership, Becomes
<1>11. ASSUME NEW o \in Operations, NEW l \in Launchers, CheckCancel(o, l) PROVE Rest'
  <2>1. CASE cancelFile[o]
    <3>1. finished' = [finished EXCEPT ![o] = "cancelled"] /\ Becomes(o, l, "gone")
      BY <1>11, <2>1 DEF CheckCancel
    <3> QED
      BY <1>11, <2>1, <3>1 DEF CheckCancel, Becomes
  <2>2. CASE ~cancelFile[o]
    <3>1. Becomes(o, l, "clear") /\ UNCHANGED finished
      BY <1>11, <2>2 DEF CheckCancel
    <3> QED
      BY <1>11, <3>1 DEF CheckCancel, Becomes
  <2> QED
    BY <2>1, <2>2
<1>12. ASSUME NEW o \in Operations, NEW l \in Launchers, SpawnWorker(o, l) PROVE Rest'
  <2>1. worker[o][l] = "none"
    BY <1>12 DEF SpawnWorker
  <2>2. CASE Becomes(o, l, "spawned") /\ worker' = [worker EXCEPT ![o][l] = "running"]
    <3>1. UNCHANGED finished
      BY <1>12, <2>2 DEF SpawnWorker, Becomes
    <3> QED
      BY <1>12, <2>1, <2>2, <3>1 DEF SpawnWorker, Becomes
  <2>3. CASE /\ finished' = [finished EXCEPT ![o] = "failed"]
             /\ Becomes(o, l, "gone")
             /\ UNCHANGED worker
    BY <1>12, <2>3 DEF SpawnWorker, Becomes
  <2> QED
    BY <1>12, <2>2, <2>3 DEF SpawnWorker
<1>13. ASSUME NEW o \in Operations, NEW l \in Launchers, WriteStarted(o, l) PROVE Rest'
  BY <1>13 DEF WriteStarted, Becomes
<1>14. ASSUME NEW o \in Operations, NEW l \in Launchers, Poll(o, l) PROVE Rest'
  <2>1. CASE worker[o][l] \in Exits /\ Becomes(o, l, "reaped")
    BY <1>14, <2>1 DEF Poll, Becomes
  <2>2. CASE cancelFile[o] /\ ~told[o][l] /\ Becomes(o, l, "signal")
    BY <1>14, <2>2 DEF Poll, Becomes
  <2> QED
    BY <1>14, <2>1, <2>2 DEF Poll
<1>15. ASSUME NEW o \in Operations, NEW l \in Launchers, Signal(o, l) PROVE Rest'
  BY <1>15 DEF Signal, Becomes
<1>16. ASSUME NEW o \in Operations, NEW l \in Launchers, WriteFinished(o, l) PROVE Rest'
  <2>1. worker[o][l] \in Exits /\ lpc[o][l] = "reaped"
    BY <1>16 DEF WriteFinished
  <2>2. CASE told[o][l]
    <3>1. finished' = [finished EXCEPT ![o] = "cancelled"]
      BY <1>16, <2>2 DEF WriteFinished, FinishedStatus
    <3>2. cancelFile[o] /\ cancelRow[o]
      BY <2>2
    <3>3. (CancelInv /\ SignalInv)'
      BY <1>16 DEF WriteFinished, Becomes
    <3>4. EndingHonest'
      BY <1>16, <3>1, <3>2 DEF WriteFinished
    <3> QED
      BY <3>3, <3>4
  <2>3. CASE ~told[o][l] /\ worker[o][l] = "zero"
    <3>1. finished' = [finished EXCEPT ![o] = "succeeded"]
      BY <1>16, <2>3 DEF WriteFinished, FinishedStatus
    <3> QED
      BY <1>16, <2>3, <3>1 DEF WriteFinished, Becomes
  <2>4. CASE ~told[o][l] /\ worker[o][l] = "nonzero"
    <3>1. finished' = [finished EXCEPT ![o] = "failed"]
      BY <1>16, <2>4 DEF WriteFinished, FinishedStatus
    <3> QED
      BY <1>16, <2>4, <3>1 DEF WriteFinished, Becomes
  <2> QED
    BY <2>1, <2>2, <2>3, <2>4
<1>17. ASSUME NEW o \in Operations, NEW l \in Launchers, LauncherDies(o, l) PROVE Rest'
  BY <1>17 DEF LauncherDies, Becomes
<1>18. ASSUME NEW o \in Operations, NEW l \in Launchers, WorkerExits(o, l) PROVE Rest'
  BY <1>18 DEF WorkerExits, Becomes
<1>19. CASE UNCHANGED vars
  BY <1>19 DEF vars
<1> QED
  BY <1>1, <1>2, <1>3, <1>4, <1>5, <1>6, <1>7, <1>8, <1>9, <1>10, <1>11, <1>12, <1>13, <1>14, <1>15, <1>16, <1>17, <1>18, <1>19 DEF LocalNext, Call, Launch

\* However requests, signals, exits and crashes interleave, a success is one
\* of a worker that no signal reached, and a cancellation was asked for.
THEOREM EndingTrue == LocalSpec => []EndingHonest
<1>1. LocalInit => CancelInv /\ SignalInv /\ EndingHonest
  BY DEF LocalInit, CancelInv, SignalInv, EndingHonest
<1>2. LocalInit => Inv
  BY LocalAssumption DEF LocalInit, Inv, LocalTypeOK, Ownership, Claimed, Recorded,
     RecordedOwned, Calls, Alive, Exits, Endings
<1>3. LocalInit => EndingInv
  BY <1>1, <1>2 DEF EndingInv
<1>4. EndingInv => EndingHonest
  BY DEF EndingInv
<1> QED
  BY <1>3, <1>4, EndingStep, PTL DEF LocalSpec

-----------------------------------------------------------------------------
(* The refinement.  Every step is shown to leave the contract's state as it *)
(* is (Same), or to end one workload (Ends), or to be the contract's own    *)
(* acceptance, refusal or cancellation.                                     *)

Same == row' = row /\ cancelFile' = cancelFile /\ \A p \in Operations : Workload(p)' = Workload(p)

Ends(o, s) ==
  /\ row' = row /\ cancelFile' = cancelFile
  /\ Workload(o) = "live" /\ Workload(o)' = s /\ s \in Contract!Gone
  /\ \A p \in Operations \ {o} : Workload(p)' = Workload(p)

LEMMA SameIsStutter == Same => UNCHANGED Contract!runtimeVars
  BY DEF Same, Contract!runtimeVars

LEMMA EndsIsEnd ==
  ASSUME NEW o \in Operations, NEW s, Ends(o, s)
  PROVE  Contract!RuntimeNext
<1>1. Contract!End(o, s)
  BY DEF Ends, Contract!End
<1> QED
  BY <1>1 DEF Contract!RuntimeNext, Ends

\* A launcher past the claim, still there.
Past(o, l) == lpc[o][l] \in Alive \ {"born"}

LEMMA PastIsLive ==
  ASSUME Inv, NEW o \in Operations, NEW l \in Launchers, Past(o, l)
  PROVE  /\ launcherPid[o] = l /\ row[o] = "claimed" /\ finished[o] = "none"
         /\ Workload(o) = "live"
<1>1. launcherPid[o] = l /\ row[o] = "claimed" /\ finished[o] = "none"
  BY LocalAssumption DEF Inv, Past, Alive, Ownership, Claimed, Recorded
<1> QED
  BY <1>1 DEF Past, Alive, Workload, Lost

\* What it does without leaving keeps the workload live.
LEMMA PastStays ==
  ASSUME Inv, NEW o \in Operations, NEW l \in Launchers, Past(o, l),
         UNCHANGED <<registryVars, cancelFile, finished>>,
         NEW s, s # "gone", lpc' = [lpc EXCEPT ![o][l] = s],
         \A p \in Operations \ {o} : worker'[p] = worker[p]
  PROVE  UNCHANGED Contract!runtimeVars
<1>1. launcherPid[o] = l /\ Workload(o) = "live" /\ row[o] = "claimed" /\ finished[o] = "none"
  BY PastIsLive
<1>2. lpc'[o][l] = s /\ \A p \in Operations \ {o} : lpc'[p] = lpc[p]
  BY DEF Inv, LocalTypeOK
<1>3. Workload(o)' = "live"
  BY <1>1, <1>2 DEF registryVars, Workload, Lost
<1>4. \A p \in Operations \ {o} : Workload(p)' = Workload(p)
  BY <1>2 DEF registryVars, Workload, Lost
<1> QED
  BY <1>1, <1>3, <1>4, SameIsStutter DEF Same, registryVars

\* An ending it writes is the workload's.
LEMMA PastEnds ==
  ASSUME Inv, NEW o \in Operations, NEW l \in Launchers, Past(o, l),
         UNCHANGED <<registryVars, cancelFile, worker>>,
         NEW s \in Endings, finished' = [finished EXCEPT ![o] = s], Becomes(o, l, "gone")
  PROVE  Contract!RuntimeNext
<1>1. Workload(o) = "live" /\ row[o] = "claimed"
  BY PastIsLive
<1>2. finished'[o] = s
  BY DEF Inv, LocalTypeOK
<1>3. Workload(o)' = s /\ s \in Contract!Gone
  BY <1>1, <1>2 DEF registryVars, Workload, Endings, Contract!Gone, Contract!Endings
<1>4. \A p \in Operations \ {o} : finished'[p] = finished[p] /\ lpc'[p] = lpc[p]
  BY DEF Inv, LocalTypeOK, Becomes
<1>5. \A p \in Operations \ {o} : Workload(p)' = Workload(p)
  BY <1>4 DEF registryVars, Workload, Lost
<1> QED
  BY <1>1, <1>3, <1>5, EndsIsEnd DEF Ends, registryVars

\* Every step of the local runtime is one of the contract's, or none.
LEMMA StepRefines == Inv /\ [LocalNext]_vars => [Contract!RuntimeNext]_(Contract!runtimeVars)
<1> SUFFICES ASSUME Inv, [LocalNext]_vars
             PROVE  Contract!RuntimeNext \/ UNCHANGED Contract!runtimeVars
  OBVIOUS
<1> DEFINE Refines == Contract!RuntimeNext \/ UNCHANGED Contract!runtimeVars
<1> USE LocalAssumption DEF registryVars, fileVars, callVars, processVars
<1>1. ASSUME NEW c \in Callers, NEW o \in Operations, Submit(c, o) PROVE Refines
  <2>1. \A p \in Operations \ {o} : row'[p] = row[p] /\ Workload(p)' = Workload(p)
    BY <1>1 DEF Submit, Workload, Lost, Inv, LocalTypeOK
  <2>2. CASE row[o] # "none"
    <3>1. row' = row
      BY <1>1, <2>2 DEF Submit, Inv, LocalTypeOK
    <3>2. Same
      BY <1>1, <3>1 DEF Submit, Same, Workload, Lost
    <3> QED
      BY <3>2, SameIsStutter
  <2>3. CASE row[o] = "none" /\ o \in Refused
    <3>1. Workload(o) = "absent" /\ Workload(o)' = "rejected" /\ row'[o] = "rejected"
      BY <1>1, <2>3 DEF Submit, Workload, Inv, LocalTypeOK
    <3>2. Contract!Refuse(o)
      BY <1>1, <2>1, <2>3, <3>1 DEF Submit, Contract!Refuse, Contract!Unknown
    <3> QED
      BY <3>2 DEF Contract!RuntimeNext
  <2>4. CASE row[o] = "none" /\ o \notin Refused
    <3>1. row'[o] = "claimed" /\ finished'[o] = "none" /\ launcherPid'[o] = NoPid
      BY <1>1, <2>4 DEF Submit, Inv, LocalTypeOK, Claimed
    <3>2. Workload(o) = "absent" /\ Workload(o)' = "live"
      BY <2>4, <3>1 DEF Workload, Lost
    <3> DEFINE wl == [p \in Operations |-> Workload(p)]
               starts == [p \in Operations |-> IF row[p] = "claimed" THEN 1 ELSE 0]
               forgot == [p \in Operations |-> FALSE]
    <3>3. wl' = [wl EXCEPT ![o] = "live"]
      BY <2>1, <3>2
    <3>4. starts' = [starts EXCEPT ![o] = @ + 1]
      <4>1. starts[o] = 0 /\ starts'[o] = 1
        BY <2>4, <3>1
      <4>2. \A p \in Operations \ {o} : starts'[p] = starts[p]
        BY <2>1
      <4>3. starts' = [starts EXCEPT ![o] = 1]
        BY <4>1, <4>2
      <4>4. starts[o] + 1 = 1
        BY <4>1, 0 + 1 = 1
      <4> HIDE DEF starts
      <4> QED
        BY <4>3, <4>4
    <3>5. forgot' = [forgot EXCEPT ![o] = FALSE]
      OBVIOUS
    <3>6. cancelFile' = cancelFile
      BY <1>1 DEF Submit
    <3>7. wl[o] = "absent"
      BY <3>2
    <3> HIDE DEF wl, starts, forgot
    <3>8. Contract!SubmitOrGet(o)
      BY <3>3, <3>4, <3>5, <3>6, <3>7
         DEF Contract!SubmitOrGet, Contract!Unknown, wl, starts, forgot
    <3> QED
      BY <3>8 DEF Contract!RuntimeNext
  <2> QED
    BY <2>2, <2>3, <2>4
<1>2. ASSUME NEW c \in Callers, NEW o \in Operations, CheckOwner(c, o) PROVE Refines
  BY <1>2, SameIsStutter DEF CheckOwner, Same, Workload, Lost
<1>3. ASSUME NEW c \in Callers, NEW o \in Operations, Popen(c, o) PROVE Refines
  <2>1. \A p \in Operations : Lost(p)' = Lost(p)
    BY <1>3 DEF Popen, Goto, Becomes, Lost, Inv, LocalTypeOK, Ownership
  <2> QED
    BY <1>3, <2>1, SameIsStutter DEF Popen, Same, Workload
<1>4. ASSUME NEW c \in Callers, NEW o \in Operations, RecordSpawned(c, o) PROVE Refines
  BY <1>4, SameIsStutter DEF RecordSpawned, Same, Workload, Lost
<1>5. ASSUME NEW c \in Callers, NEW o \in Operations, ClaimCancel(c, o) PROVE Refines
  BY <1>5, SameIsStutter DEF ClaimCancel, Same, Workload, Lost
<1>6. ASSUME NEW c \in Callers, NEW o \in Operations, WriteCancel(c, o) PROVE Refines
  <2>1. row[o] = "claimed" /\ row' = row
    BY <1>6 DEF WriteCancel, Inv, Claimed
  <2>2. \A p \in Operations : Workload(p)' = Workload(p)
    BY <1>6 DEF WriteCancel, Workload, Lost
  <2>3. Contract!Cancel(o)
    BY <1>6, <2>1, <2>2 DEF WriteCancel, Contract!Cancel
  <2> QED
    BY <2>3 DEF Contract!RuntimeNext
<1>7. ASSUME NEW c \in Callers, NEW o \in Operations, ReadFinished(c, o) PROVE Refines
  BY <1>7, SameIsStutter DEF ReadFinished, Same, Workload, Lost
<1>8. ASSUME NEW c \in Callers, NEW o \in Operations, Probe(c, o) PROVE Refines
  BY <1>8, SameIsStutter DEF Probe, Same, Workload, Lost
<1>9. ASSUME NEW c \in Callers, CallerDies(c) PROVE Refines
  BY <1>9, SameIsStutter DEF CallerDies, Same, Workload, Lost
<1>10. ASSUME NEW o \in Operations, NEW l \in Launchers, ClaimOwnership(o, l) PROVE Refines
  <2>1. \A p \in Operations : Lost(p)' = Lost(p)
    <3>1. CASE launcherPid[o] = NoPid
      <4>1. launcherPid' = [launcherPid EXCEPT ![o] = l] /\ Becomes(o, l, "owner")
        BY <1>10, <3>1 DEF ClaimOwnership
      <4> QED
        BY <1>10, <3>1, <4>1 DEF ClaimOwnership, Becomes, Lost, Inv, LocalTypeOK
    <3>2. CASE launcherPid[o] # NoPid
      <4>1. Becomes(o, l, "gone") /\ UNCHANGED launcherPid /\ launcherPid[o] # l
        BY <1>10, <3>2 DEF ClaimOwnership, Inv, Ownership
      <4> QED
        BY <1>10, <4>1 DEF ClaimOwnership, Becomes, Lost, Inv, LocalTypeOK
    <3> QED
      BY <3>1, <3>2
  <2> QED
    BY <1>10, <2>1, SameIsStutter DEF ClaimOwnership, Same, Workload
<1>11. ASSUME NEW o \in Operations, NEW l \in Launchers, CheckCancel(o, l) PROVE Refines
  <2>1. Past(o, l)
    BY <1>11 DEF CheckCancel, Past, Alive
  <2>2. CASE cancelFile[o]
    <3>1. finished' = [finished EXCEPT ![o] = "cancelled"] /\ Becomes(o, l, "gone")
      BY <1>11, <2>2 DEF CheckCancel
    <3> QED
      BY <1>11, <2>1, <3>1, PastEnds DEF CheckCancel, Endings
  <2>3. CASE ~cancelFile[o]
    <3>1. Becomes(o, l, "clear") /\ UNCHANGED finished
      BY <1>11, <2>3 DEF CheckCancel
    <3> QED
      BY <1>11, <2>1, <3>1, PastStays DEF CheckCancel, Becomes
  <2> QED
    BY <2>2, <2>3
<1>12. ASSUME NEW o \in Operations, NEW l \in Launchers, SpawnWorker(o, l) PROVE Refines
  <2>1. Past(o, l)
    BY <1>12 DEF SpawnWorker, Past, Alive
  <2>2. CASE /\ worker' = [worker EXCEPT ![o][l] = "running"]
             /\ Becomes(o, l, "spawned")
             /\ UNCHANGED finished
    <3>1. \A p \in Operations \ {o} : worker'[p] = worker[p]
      BY <2>2 DEF Inv, LocalTypeOK
    <3> QED
      BY <1>12, <2>1, <2>2, <3>1, PastStays DEF SpawnWorker, Becomes
  <2>3. CASE /\ finished' = [finished EXCEPT ![o] = "failed"]
             /\ Becomes(o, l, "gone")
             /\ UNCHANGED worker
    BY <1>12, <2>1, <2>3, PastEnds DEF SpawnWorker, Endings
  <2> QED
    BY <1>12, <2>2, <2>3 DEF SpawnWorker
<1>13. ASSUME NEW o \in Operations, NEW l \in Launchers, WriteStarted(o, l) PROVE Refines
  BY <1>13, PastStays DEF WriteStarted, Past, Alive, Becomes
<1>14. ASSUME NEW o \in Operations, NEW l \in Launchers, Poll(o, l) PROVE Refines
  <2>1. PICK s \in {"reaped", "signal"} : Becomes(o, l, s)
    BY <1>14 DEF Poll
  <2> QED
    BY <1>14, <2>1, PastStays DEF Poll, Past, Alive, Becomes
<1>15. ASSUME NEW o \in Operations, NEW l \in Launchers, Signal(o, l) PROVE Refines
  BY <1>15, PastStays DEF Signal, Past, Alive, Becomes
<1>16. ASSUME NEW o \in Operations, NEW l \in Launchers, WriteFinished(o, l) PROVE Refines
  BY <1>16, PastEnds DEF WriteFinished, FinishedStatus, Endings, Past, Alive
<1>17. ASSUME NEW o \in Operations, NEW l \in Launchers, LauncherDies(o, l) PROVE Refines
  <2>1. \A p \in Operations \ {o} : lpc'[p] = lpc[p]
    BY <1>17 DEF LauncherDies, Becomes, Inv, LocalTypeOK
  <2>2. \A p \in Operations \ {o} : Workload(p)' = Workload(p)
    BY <1>17, <2>1 DEF LauncherDies, Workload, Lost
  <2>3. CASE Workload(o)' = Workload(o)
    BY <1>17, <2>2, <2>3, SameIsStutter DEF LauncherDies, Same
  <2>4. CASE Workload(o)' # Workload(o)
    <3>1. Workload(o) = "live" /\ Workload(o)' = "lost"
      <4>1. CASE launcherPid[o] = l
        BY <1>17, <2>4, <4>1 DEF LauncherDies, Becomes, Workload, Lost, Alive, Inv, LocalTypeOK
      <4>2. CASE launcherPid[o] # l
        <5>1. launcherPid[o] # NoPid => lpc'[o][launcherPid[o]] = lpc[o][launcherPid[o]]
          BY <1>17, <4>2 DEF LauncherDies, Becomes, Inv, LocalTypeOK
        <5> QED
          BY <1>17, <2>4, <5>1 DEF LauncherDies, Workload, Lost
      <4> QED
        BY <4>1, <4>2
    <3> QED
      BY <1>17, <2>2, <3>1, EndsIsEnd DEF LauncherDies, Ends, Contract!Gone
  <2> QED
    BY <2>3, <2>4
<1>18. ASSUME NEW o \in Operations, NEW l \in Launchers, WorkerExits(o, l) PROVE Refines
  <2>1. PICK e \in Exits : worker' = [worker EXCEPT ![o][l] = e]
    BY <1>18 DEF WorkerExits
  <2>2. \A p \in Operations \ {o} : Workload(p)' = Workload(p)
    BY <1>18, <2>1 DEF WorkerExits, Workload, Lost, Inv, LocalTypeOK
  <2>3. CASE Workload(o)' = Workload(o)
    BY <1>18, <2>2, <2>3, SameIsStutter DEF WorkerExits, Same
  <2>4. CASE Workload(o)' # Workload(o)
    <3>1. ~Lost(o)
      BY <1>18 DEF WorkerExits, Lost
    <3>2. Workload(o) = "live" /\ Workload(o)' = "lost"
      BY <1>18, <2>4, <3>1 DEF WorkerExits, Workload
    <3> QED
      BY <1>18, <2>2, <3>2, EndsIsEnd DEF WorkerExits, Ends, Contract!Gone
  <2> QED
    BY <2>3, <2>4
<1>19. CASE UNCHANGED vars
  BY <1>19, SameIsStutter DEF vars, Same, Workload, Lost
<1> QED
  BY <1>1, <1>2, <1>3, <1>4, <1>5, <1>6, <1>7, <1>8, <1>9, <1>10, <1>11, <1>12, <1>13,
     <1>14, <1>15, <1>16, <1>17, <1>18, <1>19 DEF LocalNext, Call, Launch

\* The local runtime implements the contract the controller relies on: what
\* Submission and ExperimentCancellation show of any runtime that keeps it,
\* with reports_completed_operations, holds of this one.
THEOREM Refinement == LocalSpec => ImplementsContract
<1>1. LocalInit => Contract!RuntimeInit
  BY DEF LocalInit, Contract!RuntimeInit, Workload
<1> QED
  BY <1>1, InvAlways, StepRefines, PTL DEF LocalSpec, ImplementsContract, Contract!RuntimeSpec
=============================================================================
