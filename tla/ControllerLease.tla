-------------------------- MODULE ControllerLease --------------------------
(***************************************************************************)
(* Which process may write controller state.  One row of the state         *)
(* database, the controller lease, names the owning daemon, its fencing    *)
(* epoch and an expiry; every controller write proves ownership inside its *)
(* own write transaction (storage/leases.py, ControlPlaneRepository._write *)
(* in storage/control_plane.py, daemon/server.py, daemon/lock.py).         *)
(*                                                                         *)
(* Time is relative: the code only ever compares lease_expires_at with the *)
(* wall clock, so `left' is lease_expires_at - now.  Passing time lowers   *)
(* it and a wall clock stepped back (utc_now is not monotonic) raises it.  *)
(***************************************************************************)
EXTENDS Integers

CONSTANTS
  Daemons,      \* LocalDaemonControllerServer processes, by instance_id
  Hosts,        \* embedded controller hosts on the same database
  Machines,     \* where a flock excludes
  MachineOf,    \* the machine each daemon runs on
  NoOne,
  TTL,          \* DaemonConfig.lease_ttl_seconds, in ticks
  MaxBack,      \* bound: how far the wall clock steps back at once
  MaxSteps,     \* bound: how often it does (0: monotonic)
  MaxEpoch      \* bound: how many generations are explored

ASSUME LeaseAssumption ==
  /\ NoOne \notin Daemons \cup Hosts
  /\ Daemons \cap Hosts = {}
  /\ MachineOf \in [Daemons -> Machines]
  /\ TTL \in Nat \ {0}
  /\ MaxBack \in Nat
  /\ MaxSteps \in Nat
  /\ MaxEpoch \in Nat

VARIABLES
  lease,         \* the row: owner and epoch; epoch 0 is "no row yet"
  left,          \* lease_expires_at - now
  writer,        \* who is inside BEGIN IMMEDIATE, or NoOne
  flock,         \* the kernel lock of each machine
  phase,         \* where each daemon is in serve()
  held,          \* self._lease.epoch: the epoch of its fence; 0 before
  lost,          \* self._lost is not None
  beating,       \* the heartbeat task has not returned
  lastEpoch,     \* history: the epoch of the latest daemon commit
  lastEmbedded,  \* history: the row's epoch at the latest embedded commit
  backs          \* history: how often the wall clock has stepped back

vars == <<lease, left, writer, flock, phase, held, lost, beating,
          lastEpoch, lastEmbedded, backs>>

Phases == {"down", "waiting", "serving", "closing", "closed"}

TypeOK ==
  /\ lease \in [owner : Daemons \cup {NoOne}, epoch : 0..MaxEpoch]
  /\ left \in Int
  /\ writer \in Daemons \cup Hosts \cup {NoOne}
  /\ flock \in [Machines -> Daemons \cup {NoOne}]
  /\ phase \in [Daemons -> Phases]
  /\ held \in [Daemons -> 0..MaxEpoch]
  /\ lost \in [Daemons -> BOOLEAN]
  /\ beating \in [Daemons -> BOOLEAN]
  /\ lastEpoch \in 0..MaxEpoch
  /\ lastEmbedded \in 0..MaxEpoch
  /\ backs \in 0..MaxSteps

Init ==
  /\ lease = [owner |-> NoOne, epoch |-> 0]
  /\ left = 0
  /\ writer = NoOne
  /\ flock = [m \in Machines |-> NoOne]
  /\ phase = [d \in Daemons |-> "down"]
  /\ held = [d \in Daemons |-> 0]
  /\ lost = [d \in Daemons |-> FALSE]
  /\ beating = [d \in Daemons |-> FALSE]
  /\ lastEpoch = 0
  /\ lastEmbedded = 0
  /\ backs = 0

-----------------------------------------------------------------------------
(* The row as a transaction reads it. *)

IsLive == lease.epoch > 0 /\ left > 0

\* _ownership_problem(row, d, held[d], now) is None
Owns(d) == lease.owner = d /\ lease.epoch = held[d] /\ IsLive

(* The wall clock. *)

Tick ==
  /\ left > -MaxBack
  /\ left' = left - 1
  /\ UNCHANGED <<lease, writer, flock, phase, held, lost, beating, lastEpoch, lastEmbedded, backs>>

StepBack ==
  /\ backs < MaxSteps
  /\ backs' = backs + 1
  /\ \E k \in 1..MaxBack :
       /\ left + k <= TTL + MaxBack
       /\ left' = left + k
  /\ UNCHANGED <<lease, writer, flock, phase, held, lost, beating, lastEpoch, lastEmbedded>>

-----------------------------------------------------------------------------
(* A daemon process: serve(), _serve_owned(), _acquire_lease(), _heartbeat() *)

\* serve() takes the flock first; a held one refuses to start (no change).
TakeLock(d) ==
  /\ phase[d] = "down"
  /\ flock[MachineOf[d]] = NoOne
  /\ flock' = [flock EXCEPT ![MachineOf[d]] = d]
  /\ phase' = [phase EXCEPT ![d] = "waiting"]
  /\ UNCHANGED <<lease, left, writer, held, lost, beating, lastEpoch, lastEmbedded, backs>>

\* Mutant: the acquisition does not take SQLite's write lock up front.
AcquireUnlocked(d) ==
  /\ phase[d] = "waiting" /\ ~IsLive /\ lease.epoch < MaxEpoch
  /\ lease' = [owner |-> d, epoch |-> lease.epoch + 1]
  /\ left' = TTL
  /\ phase' = [phase EXCEPT ![d] = "serving"]
  /\ held' = [held EXCEPT ![d] = lease.epoch + 1]
  /\ lost' = [lost EXCEPT ![d] = FALSE]
  /\ beating' = [beating EXCEPT ![d] = TRUE]
  /\ UNCHANGED <<writer, flock, lastEpoch, lastEmbedded, backs>>

\* Mutant: only a row this daemon wrote itself is taken over.
AcquireOwnRowOnly(d) == lease.owner \in {NoOne, d} /\ AcquireUnlocked(d)

\* A live lease is waited out; anything else is taken as the next epoch.
Acquire(d) ==
  /\ phase[d] = "waiting"
  /\ writer = NoOne
  /\ ~IsLive
  /\ lease.epoch < MaxEpoch
  /\ lease' = [owner |-> d, epoch |-> lease.epoch + 1]
  /\ left' = TTL
  /\ phase' = [phase EXCEPT ![d] = "serving"]
  /\ held' = [held EXCEPT ![d] = lease.epoch + 1]
  /\ lost' = [lost EXCEPT ![d] = FALSE]
  /\ beating' = [beating EXCEPT ![d] = TRUE]
  /\ UNCHANGED <<writer, flock, lastEpoch, lastEmbedded, backs>>

\* Mutant: a renewal revives its own expired lease.
RenewExpired(d) ==
  /\ phase[d] \in {"serving", "closing"} /\ beating[d] /\ writer = NoOne
  /\ LET mine == lease.owner = d /\ lease.epoch = held[d]
     IN  /\ left' = IF mine THEN TTL ELSE left
         /\ lost' = [lost EXCEPT ![d] = @ \/ ~mine]
         /\ beating' = [beating EXCEPT ![d] = mine]
  /\ UNCHANGED <<lease, writer, flock, phase, held, lastEpoch, lastEmbedded, backs>>

\* The heartbeat runs until the controller is closed; a refused renewal is
\* its last, whether or not a fence already found the lease lost.
Renew(d) ==
  /\ phase[d] \in {"serving", "closing"}
  /\ beating[d]
  /\ writer = NoOne
  /\ left' = IF Owns(d) THEN TTL ELSE left
  /\ lost' = [lost EXCEPT ![d] = @ \/ ~Owns(d)]
  /\ beating' = [beating EXCEPT ![d] = Owns(d)]
  /\ UNCHANGED <<lease, writer, flock, phase, held, lastEpoch, lastEmbedded, backs>>

\* Mutant: the fence checks that some lease is live, not whose it is.
BeginUnowned(d) ==
  /\ phase[d] \in {"serving", "closing"} /\ writer = NoOne
  /\ writer' = IF IsLive THEN d ELSE NoOne
  /\ lost' = [lost EXCEPT ![d] = @ \/ ~IsLive]
  /\ UNCHANGED <<lease, left, flock, phase, held, beating, lastEpoch, lastEmbedded, backs>>

\* ControllerLeaseFence.check, inside the transaction _write() opened.
Begin(d) ==
  /\ phase[d] \in {"serving", "closing"}
  /\ writer = NoOne
  /\ writer' = IF Owns(d) THEN d ELSE NoOne
  /\ lost' = [lost EXCEPT ![d] = @ \/ ~Owns(d)]
  /\ UNCHANGED <<lease, left, flock, phase, held, lastEpoch, lastEmbedded, beating, backs>>

Commit(d) ==
  /\ writer = d
  /\ writer' = NoOne
  /\ lastEpoch' = held[d]
  /\ UNCHANGED <<lease, left, flock, phase, held, lost, beating, lastEmbedded, backs>>

\* halt is set: a stop was asked for, or the lease was found lost.
Halt(d) ==
  /\ phase[d] = "serving"
  /\ phase' = [phase EXCEPT ![d] = "closing"]
  /\ UNCHANGED <<lease, left, writer, flock, held, lost, beating, lastEpoch, lastEmbedded, backs>>

\* Observers, controller and heartbeat are gone; no transaction is open.
Close(d) ==
  /\ phase[d] = "closing"
  /\ writer # d
  /\ phase' = [phase EXCEPT ![d] = "closed"]
  /\ UNCHANGED <<lease, left, writer, flock, held, lost, beating, lastEpoch, lastEmbedded, backs>>

\* leases.release(), unless lost, then the flock last.  The row is expired
\* only if it is still this owner's at this epoch, expired or not.
Release(d) ==
  /\ phase[d] = "closed"
  /\ lost[d] \/ writer = NoOne
  /\ left' = IF ~lost[d] /\ lease.owner = d /\ lease.epoch = held[d]
               THEN 0 ELSE left
  /\ phase' = [phase EXCEPT ![d] = "down"]
  /\ flock' = [flock EXCEPT ![MachineOf[d]] = NoOne]
  /\ held' = [held EXCEPT ![d] = 0]
  /\ lost' = [lost EXCEPT ![d] = FALSE]
  /\ beating' = [beating EXCEPT ![d] = FALSE]
  /\ UNCHANGED <<lease, writer, lastEpoch, lastEmbedded, backs>>

\* A stop before the lease was obtained.
StopWaiting(d) ==
  /\ phase[d] = "waiting"
  /\ phase' = [phase EXCEPT ![d] = "down"]
  /\ flock' = [flock EXCEPT ![MachineOf[d]] = NoOne]
  /\ UNCHANGED <<lease, left, writer, held, lost, beating, lastEpoch, lastEmbedded, backs>>

\* The process dies: SQLite rolls its transaction back and the kernel drops
\* its flock.  The lease row stays.
Crash(d) ==
  /\ phase[d] # "down"
  /\ phase' = [phase EXCEPT ![d] = "down"]
  /\ flock' = [flock EXCEPT ![MachineOf[d]] = NoOne]
  /\ writer' = IF writer = d THEN NoOne ELSE writer
  /\ held' = [held EXCEPT ![d] = 0]
  /\ lost' = [lost EXCEPT ![d] = FALSE]
  /\ beating' = [beating EXCEPT ![d] = FALSE]
  /\ UNCHANGED <<lease, left, lastEpoch, lastEmbedded, backs>>

-----------------------------------------------------------------------------
(* Any writer's transaction may be rolled back; an embedded host is fenced *)
(* by NoLiveLeaseFence.                                                    *)

Rollback ==
  /\ writer # NoOne
  /\ writer' = NoOne
  /\ UNCHANGED <<lease, left, flock, phase, held, lost, beating, lastEpoch, lastEmbedded, backs>>

EmbeddedBegin(h) ==
  /\ writer = NoOne
  /\ ~IsLive
  /\ writer' = h
  /\ UNCHANGED <<lease, left, flock, phase, held, lost, beating, lastEpoch, lastEmbedded, backs>>

EmbeddedCommit(h) ==
  /\ writer = h
  /\ writer' = NoOne
  /\ lastEmbedded' = lease.epoch
  /\ UNCHANGED <<lease, left, flock, phase, held, lost, beating, lastEpoch, backs>>

DaemonStep(d) ==
  \/ TakeLock(d) \/ Acquire(d) \/ Renew(d) \/ Begin(d) \/ Commit(d)
  \/ Halt(d) \/ Close(d) \/ Release(d) \/ StopWaiting(d) \/ Crash(d)

EmbeddedStep(h) == EmbeddedBegin(h) \/ EmbeddedCommit(h)

Next ==
  \/ Tick
  \/ StepBack
  \/ Rollback
  \/ \E d \in Daemons : DaemonStep(d)
  \/ \E h \in Hosts : EmbeddedStep(h)

Spec == Init /\ [][Next]_vars

(***************************************************************************)
(* Time passes; the acquisition loop retries at least every TTL/3; no      *)
(* transaction stays open; a daemon that found its lease lost sets halt    *)
(* and the finally block of _serve_owned runs to its end.  Nothing makes a *)
(* daemon start, renew in time, or write.                                  *)
(***************************************************************************)
Fairness ==
  /\ WF_vars(Tick)
  /\ WF_vars(Rollback)
  /\ \A d \in Daemons :
       /\ SF_vars(Acquire(d))
       /\ WF_vars(Halt(d) /\ lost[d])
       /\ SF_vars(Close(d))
       /\ SF_vars(Release(d))

FairSpec == Spec /\ Fairness

-----------------------------------------------------------------------------
(* Correctness. *)

\* A daemon inside a write transaction is the recorded owner, at its own
\* epoch, until the commit: the fence runs after the write lock is taken, so
\* no takeover falls between the check and the commit (_write, leases.py).
FencedWrites ==
  \A d \in Daemons : writer = d => lease.owner = d /\ lease.epoch = held[d]

\* No two daemon processes believe in the same epoch, however often the lease
\* is released, expires, is taken over or its owner restarts under its id.
EpochIsOnes ==
  \A d, e \in Daemons : held[d] = held[e] /\ held[d] > 0 => d = e

\* Once a later generation has written, no write of an earlier one lands: a
\* daemon that outlived its lease is fenced off, whatever the wall clock does.
EpochOrder == [][lastEpoch' >= lastEpoch]_lastEpoch

\* Once an embedded host wrote over an expired lease, that lease's owner never
\* writes again: an expired lease is not revived, as long as the wall clock has
\* not stepped back.
NoWriteUnderEmbedded ==
  backs = 0 => \A d \in Daemons : writer = d => held[d] > lastEmbedded

\* A daemon that learned its lease is lost writes nothing more, though its
\* observers and heartbeat run on until halt is acted on, as long as the wall
\* clock has not stepped back.
NothingAfterLoss == backs = 0 => \A d \in Daemons : writer = d => ~lost[d]

\* A daemon waiting for a lease nobody serves under any more gets the database,
\* or another daemon does: a crashed owner blocks it for a TTL at most.
WaitedOut ==
  \A d \in Daemons :
    (phase[d] = "waiting" /\ \A e \in Daemons : phase[e] \in {"down", "waiting"})
      ~> \/ phase[d] # "waiting"
         \/ \E e \in Daemons : phase[e] = "serving"
         \/ lease.epoch = MaxEpoch

\* A daemon that found its lease lost stops, and its machine can start another.
LostStops == \A d \in Daemons : lost[d] ~> phase[d] = "down"

\* Nobody is kept from the database by a daemon that is gone or fenced off.
LeaseProgress == WaitedOut /\ LostStops
=============================================================================
