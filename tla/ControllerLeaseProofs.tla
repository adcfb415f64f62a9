----------------------- MODULE ControllerLeaseProofs -----------------------
(***************************************************************************)
(* The fencing argument of ControllerLease, for any number of daemons,     *)
(* embedded hosts and machines, any TTL and any number of generations.     *)
(***************************************************************************)
EXTENDS ControllerLease, TLAPS

\* What the lease row and the epochs the daemons remember have in common:
\* nobody remembers a later epoch than the row's, the row's epoch is
\* remembered by its owner alone, and no commit is of a later epoch.
EpochsBounded ==
  /\ \A d \in Daemons :
       /\ held[d] <= lease.epoch
       /\ held[d] = lease.epoch /\ held[d] > 0 => lease.owner = d
  /\ lastEpoch <= lease.epoch

\* Only a daemon whose controller is not yet closed is inside a transaction.
WriterIsOpen ==
  \A d \in Daemons : writer = d => phase[d] \in {"serving", "closing"}

FencingInv ==
  TypeOK /\ EpochsBounded /\ EpochIsOnes /\ FencedWrites /\ WriterIsOpen

-----------------------------------------------------------------------------
\* Every state of the lease, the daemons and the history is well-typed.
THEOREM TypeCorrect == Spec => []TypeOK
<1>1. Init => TypeOK
  BY LeaseAssumption DEF Init, TypeOK, Phases
<1>2. TypeOK /\ [Next]_vars => TypeOK'
  <2> SUFFICES ASSUME TypeOK, [Next]_vars PROVE TypeOK'
    OBVIOUS
  <2> USE LeaseAssumption DEF TypeOK, Phases
  <2>1. CASE Tick
    BY <2>1 DEF Tick
  <2>2. CASE StepBack
    BY <2>2 DEF StepBack
  <2>3. CASE Rollback
    BY <2>3 DEF Rollback
  <2>4. ASSUME NEW d \in Daemons, DaemonStep(d) PROVE TypeOK'
    <3>1. CASE TakeLock(d)
      BY <3>1 DEF TakeLock
    <3>2. CASE Acquire(d)
      BY <3>2 DEF Acquire
    <3>3. CASE Renew(d)
      BY <3>3 DEF Renew, Owns, IsLive
    <3>4. CASE Begin(d)
      BY <3>4 DEF Begin
    <3>5. CASE Commit(d)
      BY <3>5 DEF Commit
    <3>6. CASE Halt(d)
      BY <3>6 DEF Halt
    <3>7. CASE Close(d)
      BY <3>7 DEF Close
    <3>8. CASE Release(d)
      BY <3>8 DEF Release
    <3>9. CASE StopWaiting(d)
      BY <3>9 DEF StopWaiting
    <3>10. CASE Crash(d)
      BY <3>10 DEF Crash
    <3> QED
      BY <2>4, <3>1, <3>2, <3>3, <3>4, <3>5, <3>6, <3>7, <3>8, <3>9, <3>10
         DEF DaemonStep
  <2>5. ASSUME NEW h \in Hosts, EmbeddedStep(h) PROVE TypeOK'
    BY <2>5 DEF EmbeddedStep, EmbeddedBegin, EmbeddedCommit
  <2>6. CASE UNCHANGED vars
    BY <2>6 DEF vars
  <2> QED
    BY <2>1, <2>2, <2>3, <2>4, <2>5, <2>6 DEF Next
<1> QED
  BY <1>1, <1>2, PTL DEF Spec

-----------------------------------------------------------------------------
\* One step keeps the fencing invariant.
LEMMA FencingStep == FencingInv /\ TypeOK' /\ [Next]_vars => FencingInv'
<1> SUFFICES ASSUME FencingInv, TypeOK', [Next]_vars PROVE FencingInv'
  OBVIOUS
<1> USE LeaseAssumption
    DEF FencingInv, TypeOK, EpochsBounded, EpochIsOnes, FencedWrites, WriterIsOpen
<1>1. CASE Tick
  BY <1>1 DEF Tick
<1>2. CASE StepBack
  BY <1>2 DEF StepBack
<1>3. CASE Rollback
  BY <1>3 DEF Rollback
<1>4. ASSUME NEW d \in Daemons, DaemonStep(d) PROVE FencingInv'
  <2>1. CASE TakeLock(d)
    BY <2>1 DEF TakeLock
  <2>2. CASE Acquire(d)
    BY <2>2 DEF Acquire
  <2>3. CASE Renew(d)
    BY <2>3 DEF Renew
  <2>4. CASE Begin(d)
    BY <2>4 DEF Begin, Owns
  <2>5. CASE Commit(d)
    BY <2>5 DEF Commit
  <2>6. CASE Halt(d)
    BY <2>6 DEF Halt
  <2>7. CASE Close(d)
    BY <2>7 DEF Close
  <2>8. CASE Release(d)
    BY <2>8 DEF Release
  <2>9. CASE StopWaiting(d)
    BY <2>9 DEF StopWaiting
  <2>10. CASE Crash(d)
    BY <2>10 DEF Crash
  <2> QED
    BY <1>4, <2>1, <2>2, <2>3, <2>4, <2>5, <2>6, <2>7, <2>8, <2>9, <2>10
       DEF DaemonStep
<1>5. ASSUME NEW h \in Hosts, EmbeddedStep(h) PROVE FencingInv'
  BY <1>5 DEF EmbeddedStep, EmbeddedBegin, EmbeddedCommit
<1>6. CASE UNCHANGED vars
  BY <1>6 DEF vars
<1> QED
  BY <1>1, <1>2, <1>3, <1>4, <1>5, <1>6 DEF Next

LEMMA FencingInvariant == Spec => []FencingInv
<1>1. Init => FencingInv
  BY LeaseAssumption
     DEF Init, FencingInv, TypeOK, Phases, EpochsBounded, EpochIsOnes, FencedWrites,
         WriterIsOpen
<1> QED
  BY <1>1, FencingStep, TypeCorrect, PTL DEF Spec

\* A daemon inside a write transaction is the recorded owner at its own epoch,
\* from the fence's check to the commit.
THEOREM Fencing == Spec => []FencedWrites
BY FencingInvariant, PTL DEF FencingInv

\* No two daemon processes ever believe in the same epoch.
THEOREM OneDaemonPerEpoch == Spec => []EpochIsOnes
BY FencingInvariant, PTL DEF FencingInv

\* Daemon commits are ordered by generation: a superseded daemon's write never
\* lands after its successor's, whatever the wall clock does.
THEOREM CommitsOrdered == Spec => EpochOrder
<1>1. FencingInv /\ [Next]_vars => [lastEpoch' >= lastEpoch]_lastEpoch
  <2> SUFFICES ASSUME FencingInv, Next, lastEpoch' # lastEpoch
               PROVE lastEpoch' >= lastEpoch
    BY DEF vars
  <2>1. PICK d \in Daemons : Commit(d)
    BY DEF Next, DaemonStep, EmbeddedStep, Tick, StepBack, Rollback, TakeLock,
           Acquire, Renew, Begin, Halt, Close, Release, StopWaiting, Crash,
           EmbeddedBegin, EmbeddedCommit
  <2> QED
    BY <2>1 DEF Commit, FencingInv, TypeOK, EpochsBounded, FencedWrites
<1> QED
  BY <1>1, FencingInvariant, PTL DEF Spec, EpochOrder

-----------------------------------------------------------------------------
(* Until the wall clock steps back, an expired lease stays expired. *)

\* What a lost lease and an embedded commit leave true from then on.
ExpiryInv ==
  /\ \A d \in Daemons : lost[d] => ~Owns(d)
  /\ \A d \in Daemons : writer = d => ~lost[d] /\ held[d] > lastEmbedded
  /\ \A h \in Hosts : writer = h => ~IsLive
  /\ lastEmbedded <= lease.epoch
  /\ lastEmbedded = lease.epoch => ~IsLive

\* One step keeps it, unless the step is of the wall clock and backwards.
LEMMA ExpiryStep ==
  FencingInv /\ TypeOK' /\ ExpiryInv /\ [Next]_vars /\ backs' = 0 => ExpiryInv'
<1> SUFFICES ASSUME FencingInv, TypeOK', ExpiryInv, [Next]_vars, backs' = 0
             PROVE  ExpiryInv'
  OBVIOUS
<1> USE LeaseAssumption
    DEF FencingInv, TypeOK, EpochsBounded, WriterIsOpen, ExpiryInv, Owns, IsLive
<1>1. CASE Tick
  BY <1>1 DEF Tick
<1>2. CASE StepBack
  BY <1>2 DEF StepBack
<1>3. CASE Rollback
  BY <1>3 DEF Rollback
<1>4. ASSUME NEW d \in Daemons, DaemonStep(d) PROVE ExpiryInv'
  <2>1. CASE TakeLock(d)
    BY <2>1 DEF TakeLock
  <2>2. CASE Acquire(d)
    BY <2>2 DEF Acquire
  <2>3. CASE Renew(d)
    BY <2>3 DEF Renew
  <2>4. CASE Begin(d)
    BY <2>4 DEF Begin
  <2>5. CASE Commit(d)
    BY <2>5 DEF Commit
  <2>6. CASE Halt(d)
    BY <2>6 DEF Halt
  <2>7. CASE Close(d)
    BY <2>7 DEF Close
  <2>8. CASE Release(d)
    BY <2>8 DEF Release
  <2>9. CASE StopWaiting(d)
    BY <2>9 DEF StopWaiting
  <2>10. CASE Crash(d)
    BY <2>10 DEF Crash
  <2> QED
    BY <1>4, <2>1, <2>2, <2>3, <2>4, <2>5, <2>6, <2>7, <2>8, <2>9, <2>10
       DEF DaemonStep
<1>5. ASSUME NEW h \in Hosts, EmbeddedStep(h) PROVE ExpiryInv'
  BY <1>5 DEF EmbeddedStep, EmbeddedBegin, EmbeddedCommit
<1>6. CASE UNCHANGED vars
  BY <1>6 DEF vars
<1> QED
  BY <1>1, <1>2, <1>3, <1>4, <1>5, <1>6 DEF Next

\* The clock's history only grows: a run without a step back has had none.
LEMMA StepsOnlyGrow == TypeOK /\ [Next]_vars /\ backs' = 0 => backs = 0
<1> SUFFICES ASSUME TypeOK, [Next]_vars, backs' = 0 PROVE backs = 0
  OBVIOUS
<1>1. CASE StepBack
  BY <1>1, LeaseAssumption DEF StepBack, TypeOK
<1>2. ASSUME NEW d \in Daemons, DaemonStep(d) PROVE backs = 0
  BY <1>2 DEF DaemonStep, TakeLock, Acquire, Renew, Begin, Commit, Halt, Close,
              Release, StopWaiting, Crash
<1> QED
  BY <1>1, <1>2 DEF Next, vars, Tick, Rollback, EmbeddedStep, EmbeddedBegin,
                    EmbeddedCommit

LEMMA ExpiryInvariant == Spec => [](backs = 0 => ExpiryInv)
<1>1. Init => ExpiryInv
  BY LeaseAssumption DEF Init, ExpiryInv, Owns, IsLive
<1>2. FencingInv /\ TypeOK /\ TypeOK' /\ (backs = 0 => ExpiryInv) /\ [Next]_vars
        => (backs = 0 => ExpiryInv)'
  BY ExpiryStep, StepsOnlyGrow
<1> QED
  BY <1>1, <1>2, FencingInvariant, TypeCorrect, PTL DEF Spec

\* As long as the wall clock has not stepped back, a daemon that learned its
\* lease is lost writes nothing more.
THEOREM LostWritesNothing == Spec => []NothingAfterLoss
<1>1. (backs = 0 => ExpiryInv) => NothingAfterLoss
  BY DEF ExpiryInv, NothingAfterLoss
<1> QED
  BY <1>1, ExpiryInvariant, PTL

\* As long as the wall clock has not stepped back, a daemon over whose expired
\* lease an embedded host has written writes nothing more.
THEOREM ExpiredStaysExpired == Spec => []NoWriteUnderEmbedded
<1>1. (backs = 0 => ExpiryInv) => NoWriteUnderEmbedded
  BY DEF ExpiryInv, NoWriteUnderEmbedded
<1> QED
  BY <1>1, ExpiryInvariant, PTL
=============================================================================
