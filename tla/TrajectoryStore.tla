-------------------------- MODULE TrajectoryStore --------------------------
(***************************************************************************)
(* Recorded runs of one request: the trajectory writer (trajectory/        *)
(* writer.py), the runner that drives it (_recorded_run and _attested in   *)
(* harness/runner.py), reconciliation of attempts whose writer is gone     *)
(* (trajectory/reconcile.py), containment of a late secret and retention.  *)
(*                                                                         *)
(* One actor is the process that runs the request: _exclusive(location)    *)
(* admits one at a time.  The other reconciles.  Both publish chunks the   *)
(* same way (sealing.roll), so a job is one record j for either of them:   *)
(*   pc, a      where the job is and its attempt                           *)
(*   events     the events held in memory (_events)                        *)
(*   tail       how many of them, at the end, the memory counts as not yet *)
(*              rolled (_tail)                                             *)
(*   chunks     the progress held in memory: a sequence of event sequences *)
(*   after      what follows the roll under way                            *)
(*   phase      "run", in abandon "error" and then "seal", or "reconcile"  *)
(*   reason     the abandonment                                            *)
(* Every durable file operation is one step.  A step of an operation in    *)
(* Faulty may raise OSError, with or without its effect; a crash comes     *)
(* between steps, or in an append, which it may tear.                      *)
(***************************************************************************)
EXTENDS HarnessRun

CONSTANTS
  Attempts,      \* attempt instance ids, in order of creation
  None, Foreign, \* no attempt; a result that is no attempt's
  Requests,      \* [harness, script]: what the model replies, turn by turn;
                 \* then it raises
  MaxEvents,     \* TrajectoryRecordingSpec.max_events
  MaxFaults,     \* bound: crashes, refused operations, secrets, damage, and
                 \* attempts after the first
  MaxExpired,    \* bound: blobs retention removes from an attempt
  Faulty         \* the operations that may raise

ASSUME MaxEventsAssumption == MaxEvents \in Nat \ {0}
ASSUME AttemptsAssumption == Attempts \subseteq Nat
ASSUME MaxFaultsAssumption == MaxFaults \in Nat

VARIABLES
  request,           \* the request
  disk,              \* what each attempt's directory holds
  published,         \* whose file the result location is
  lock,              \* who holds an attempt's .lock
  job,               \* the actors
  calls,             \* history: the external calls made, by their start's sequence
  contain,           \* the attempt an operator is moving to quarantine
  lost,              \* history: attempts whose evidence was damaged from outside
  returned,          \* history: the request was answered
  faults             \* how many faults and retries there were

vars == <<request, disk, published, lock, job, calls, contain, lost, returned, faults>>

Actors == {"runner", "reconciler"}
Idle == [pc |-> "idle", a |-> None, events |-> <<>>, tail |-> 0, chunks |-> <<>>,
         after |-> "idle", phase |-> "run", reason |-> "none", run |-> Begin]

NoResult == ResultOf(Begin)
NoManifest == [status |-> "none", reason |-> "none", chunks |-> <<>>]
Complete(chunks) == [status |-> "complete", reason |-> "none", chunks |-> chunks]
Partial(reason, chunks) == [status |-> "partial", reason |-> reason, chunks |-> chunks]

\* AttemptPaths: what create_attempt makes.
NewDirectory == [dir |-> "none", opened |-> FALSE, tail |-> <<>>, chunks |-> {},
                 progress |-> <<>>, blobs |-> {}, expired |-> {}, result |-> NoResult,
                 staged |-> NoManifest, manifest |-> NoManifest, incident |-> "none"]

Init ==
  /\ request \in Requests
  /\ disk = [a \in Attempts |-> NewDirectory]
  /\ published = None
  /\ lock = [a \in Attempts |-> None]
  /\ job = [p \in Actors |-> Idle]
  /\ calls = [a \in Attempts |-> {}]
  /\ contain = None /\ lost = {} /\ returned = FALSE /\ faults = 0

-----------------------------------------------------------------------------
(* Chunks, tails and manifests. *)

Flat(chunks) == FlattenSeq(chunks)

\* _manifest_problems: each chunk continues the range of the one before.
Contiguous(chunks) == \A i \in DOMAIN Flat(chunks) : Flat(chunks)[i].seq = i

\* load_events finds every chunk.
Loads(d, chunks) == \A i \in DOMAIN chunks : <<i, chunks[i]>> \in d.chunks

\* _CONTENT_FIELDS: the events that name captured content.
HasContent(e) ==
  \/ e.kind \in {"model-call-started", "tool-call-started", "tool-call-finished"}
  \/ e.kind = "model-call-finished" /\ e.how = "replied"
  \/ e.kind = "run-terminated" /\ e.how \in Completions

Captured(m) == LET ev == Flat(m.chunks) IN {i \in DOMAIN ev : HasContent(ev[i])}

\* verify_trajectory with check_availability and _complete.
Verifies(d, m) ==
  LET ev == Flat(m.chunks)
  IN /\ Loads(d, m.chunks) /\ Structured(ev)
     /\ Captured(m) \subseteq (d.blobs \cup d.expired)
     /\ m.status = "complete" => d.result # NoResult /\ Agrees(ev, d.result)

\* A line without its newline; a line that does not parse.
TornLine == Event(Begin, "torn", 0, "", 0, 0, NoReply)
BrokenLine == Event(Begin, "broken", 0, "", 0, 0, NoReply)

\* append_durably: what follows a torn line ends up on the same line.
Lines(tail, line) ==
  IF tail # <<>> /\ Last(tail) = TornLine
  THEN Append(Front(tail), IF line = TornLine THEN TornLine ELSE BrokenLine)
  ELSE Append(tail, line)

\* parse_tail: the events beyond the rolled ones, and whether the tail broke.
ParseTail(tail, rolled) ==
  LET whole == IF tail # <<>> /\ Last(tail) = TornLine THEN Front(tail) ELSE tail
      bad == {i \in DOMAIN whole :
                \/ whole[i] = BrokenLine
                \/ (whole[i].seq <= Len(rolled) /\ rolled[whole[i].seq] # whole[i])}
      first == CHOOSE i \in bad : \A j \in bad : i <= j
      read == IF bad = {} THEN whole ELSE SubSeq(whole, 1, first - 1)
  IN [events |-> SelectSeq(read, LAMBDA e : e.seq > Len(rolled)),
      broke |-> bad # {} /\ (first < Len(whole) \/ whole # tail \/ whole[first] # BrokenLine)]

\* The longest prefix of new that continues rolled as one causal history.
Continuing(rolled, new) ==
  LET joins(k) == Structured(rolled \o SubSeq(new, 1, k))
      n == CHOOSE k \in 0..Len(new) :
             /\ \A i \in 1..k : joins(i)
             /\ k = Len(new) \/ ~joins(k + 1)
  IN SubSeq(new, 1, n)

-----------------------------------------------------------------------------
(* Steps common to the writer and the reconciler. *)

Here(p) == job[p].a
Present(p) == disk[Here(p)].dir = "attempts"

\* The step may raise: it is one of the operations that do, or the directory
\* was moved to quarantine.
Raises(p, op) == \/ ~Present(p) /\ faults' = faults
                 \/ op \in Faulty /\ faults < MaxFaults /\ faults' = faults + 1

\* Where an exception leads.  Reconciliation gives up; the runner abandons the
\* attempt, and inside abandon goes on with the next of its parts.  A note of
\* the error is recorded unless the history has ended.
Raised(p, reason) ==
  LET j == job[p]
      sealing == [j EXCEPT !.pc = "roll", !.after = "manifest", !.phase = "seal"]
  IN CASE j.phase = "reconcile" \/ j.pc \in {"open", "sealing", "manifest"} -> Idle
       [] j.phase = "run" ->
            IF j.events # <<>> /\ Last(j.events).kind = "run-terminated"
            THEN [sealing EXCEPT !.reason = reason]
            ELSE [j EXCEPT !.pc = "error", !.phase = "error", !.reason = reason]
       [] j.phase = "error" -> sealing
       [] OTHER -> [j EXCEPT !.pc = "manifest"]

\* Closing the job's file releases its lock.
\* Mutant: the lock of an abandoned attempt stays held.
GoesHolding(p, j) == job' = [job EXCEPT ![p] = j] /\ lock' = lock

Goes(p, j) ==
  /\ job' = [job EXCEPT ![p] = j]
  /\ lock' = IF j.pc \in {"idle", "attest", "attested"} /\ Here(p) # None /\ lock[Here(p)] = p
             THEN [lock EXCEPT ![Here(p)] = None] ELSE lock

\* One durable operation on p's attempt: it is done, or it raises and was done
\* or not.
Durably(p, op, done, next) ==
  LET a == Here(p)
  IN /\ \/ /\ Present(p) /\ disk' = [disk EXCEPT ![a] = done]
           /\ Goes(p, next) /\ UNCHANGED faults
        \/ /\ Raises(p, op)
           /\ \/ UNCHANGED disk
              \/ Present(p) /\ disk' = [disk EXCEPT ![a] = done]
           /\ Goes(p, Raised(p, "recording-failed"))
     /\ UNCHANGED <<request, published, calls, contain, lost,
                   returned>>

\* roll: the chunk, then the progress that names it; the caller then truncates.
NextChunk(j) == LastTurns(j.events, j.tail)

Roll(p) ==
  LET j == job[p]
      index == Len(j.chunks) + 1
  IN /\ j.pc = "roll" /\ j.tail > 0
     /\ Durably(p, "chunk",
                [disk[j.a] EXCEPT !.chunks = @ \cup {<<index, NextChunk(j)>>}],
                [j EXCEPT !.pc = "progress"])

NothingToRoll(p) ==
  /\ job[p].pc = "roll" /\ job[p].tail = 0
  /\ Goes(p, [job[p] EXCEPT !.pc = "truncate"])
  /\ UNCHANGED <<request, disk, published, calls, contain, lost,
                 returned, faults>>

Progress(p) ==
  LET j == job[p]
      advanced == Append(j.chunks, NextChunk(j))
  IN /\ j.pc = "progress"
     /\ Durably(p, "chunk", [disk[j.a] EXCEPT !.progress = advanced],
                [j EXCEPT !.pc = "truncate", !.chunks = advanced])

Truncate(p) ==
  LET j == job[p]
  IN /\ j.pc = "truncate"
     /\ Durably(p, "truncate", [disk[j.a] EXCEPT !.tail = <<>>],
                [j EXCEPT !.pc = j.after, !.tail = 0])

\* A torn append: part of the line is written, and the process dies or is told.
Torn(p) ==
  LET a == Here(p)
  IN /\ job[p].pc \in {"append", "error"} /\ Present(p) /\ faults < MaxFaults
     /\ disk' = [disk EXCEPT ![a].tail = Lines(@, TornLine)]
     /\ \/ Goes(p, Idle)
        \/ "append" \in Faulty /\ Goes(p, Raised(p, "recording-failed"))
     /\ faults' = faults + 1
     /\ UNCHANGED <<request, published, calls, contain, lost,
                   returned>>

\* The process is gone; its flock with it.
Crash(p) ==
  /\ job[p].pc # "idle" /\ faults < MaxFaults
  /\ Goes(p, Idle) /\ faults' = faults + 1
  /\ UNCHANGED <<request, disk, published, calls, contain, lost,
                   returned>>

-----------------------------------------------------------------------------
(* The runner: _recorded_run. *)

W == job["runner"]

\* What recording the run's next event takes, given what is recorded.
NextPc(recorded, r) ==
  IF Len(recorded) = Len(r.ev) THEN IF r.at = "done" THEN "stage" ELSE "call"
  ELSE IF HasContent(r.ev[Len(recorded) + 1]) THEN "content" ELSE "append"

\* TrajectoryWriter.open: the directory and the lock, then the open record and
\* the empty tail.
Open(a) ==
  /\ W.pc = "idle" /\ published = None /\ disk[a].dir = "none"
  /\ \A b \in Attempts : b < a => disk[b].dir # "none"
  /\ faults' = IF \A b \in Attempts : disk[b].dir = "none" THEN faults ELSE faults + 1
  /\ faults' <= MaxFaults
  /\ disk' = [disk EXCEPT ![a].dir = "attempts"]
  /\ lock' = [lock EXCEPT ![a] = "runner"]
  /\ job' = [job EXCEPT !["runner"] = [Idle EXCEPT !.pc = "open", !.a = a]]
  /\ UNCHANGED <<request, published, calls, contain, lost, returned>>

OpenRecord ==
  /\ W.pc = "open"
  /\ Durably("runner", "open", [disk[W.a] EXCEPT !.opened = TRUE],
             [W EXCEPT !.pc = NextPc(<<>>, W.run)])

\* content: the blob, before any event names it.
Content ==
  /\ W.pc = "content"
  /\ Durably("runner", "blob", [disk[W.a] EXCEPT !.blobs = @ \cup {Len(W.events) + 1}],
             [W EXCEPT !.pc = "append"])

\* record: a full tail is rolled first, then the line is appended and synced.
Appended(e, next) ==
  Durably("runner", "append", [disk[W.a] EXCEPT !.tail = Lines(@, e)],
          [next EXCEPT !.events = Append(@, e), !.tail = @ + 1])

RollFirst ==
  /\ W.pc \in {"append", "error"} /\ W.tail >= MaxEvents
  /\ Goes("runner", [W EXCEPT !.pc = "roll", !.after = W.pc])
  /\ UNCHANGED <<request, disk, published, calls, contain, lost,
                 returned, faults>>

AppendEvent ==
  LET e == W.run.ev[Len(W.events) + 1]
  IN /\ W.pc = "append" /\ W.tail < MaxEvents
     /\ Appended(e, [W EXCEPT !.pc = NextPc(Append(W.events, e), W.run)])

\* A registered secret is about to be written, and is not.
Secret ==
  /\ W.pc \in {"content", "append", "stage"} /\ W.phase = "run"
  /\ "secret" \in Faulty /\ faults < MaxFaults
  /\ Goes("runner", Raised("runner", "secret-detected"))
  /\ faults' = faults + 1
  /\ UNCHANGED <<request, disk, published, calls, contain, lost, returned>>

\* Everything the run decided is recorded: it goes on, calling the model or a
\* tool if that is where it is.
CallDue == W.pc = "call"

Continue(r, called) ==
  /\ calls' = [calls EXCEPT ![W.a] = @ \cup called]
  /\ Goes("runner", [W EXCEPT !.pc = NextPc(W.events, r), !.run = r])
  /\ UNCHANGED <<request, disk, published, contain, lost, returned, faults>>

\* The CancelSignal is read at the top of each loop.
Decide ==
  /\ CallDue
  /\ \E cancelled \in BOOLEAN :
       \/ W.run.at = "turn" /\ Continue(Turn(W.run, request.harness, cancelled), {})
       \/ W.run.at = "tool" /\ Continue(ToolTop(W.run, request.harness, cancelled), {})

CallModel ==
  LET r == W.run
  IN /\ CallDue /\ r.at = "model"
     /\ Continue(IF r.turns < Len(request.script)
                 THEN Respond(r, request.harness, request.script[r.turns + 1])
                 ELSE ModelFailed(r), {LastOf(r)})

CallTool ==
  LET r == W.run
  IN /\ CallDue /\ r.at = "invoke"
     /\ \E answer \in IF Runs(r) THEN ToolAnswers ELSE {"text"} :
          Continue(Invoke(r, request.harness, answer), IF Runs(r) THEN {LastOf(r)} ELSE {})

\* stage: roll, the result, the staged manifest, and verify them.
Stage ==
  /\ W.pc = "stage"
  /\ Goes("runner", [W EXCEPT !.pc = "roll", !.after = "result"])
  /\ UNCHANGED <<request, disk, published, calls, contain, lost,
                 returned, faults>>

WriteResult ==
  /\ W.pc = "result"
  /\ Durably("runner", "stage", [disk[W.a] EXCEPT !.result = ResultOf(W.run)],
             [W EXCEPT !.pc = "staged"])

WriteStaged ==
  /\ W.pc = "staged"
  /\ Durably("runner", "stage", [disk[W.a] EXCEPT !.staged = Complete(W.chunks)],
             [W EXCEPT !.pc = "verify"])

VerifyStaged ==
  /\ W.pc = "verify"
  /\ Goes("runner", IF Present("runner") /\ Verifies(disk[W.a], disk[W.a].staged)
                    THEN [W EXCEPT !.pc = "commit"] ELSE Raised("runner", "recording-failed"))
  /\ UNCHANGED <<request, disk, published, calls, contain, lost,
                 returned, faults>>

\* commit: the hard link.  A step after the link may fail; the attempt is then
\* left, past the commit point, to reconciliation.
CommitTaken == Raised("runner", "result-published-by-another-attempt")

Commit ==
  /\ W.pc = "commit"
  /\ \/ /\ Present("runner") /\ published = None
        /\ published' = W.a /\ Goes("runner", [W EXCEPT !.pc = "sealing"]) /\ UNCHANGED faults
     \/ /\ Present("runner") /\ published # None
        /\ Goes("runner", CommitTaken) /\ UNCHANGED <<published, faults>>
     \/ /\ Present("runner") /\ published = None /\ Raises("runner", "commit")
        /\ published' = W.a /\ Goes("runner", Idle)
     \/ /\ Raises("runner", "commit")
        /\ Goes("runner", Raised("runner", "recording-failed")) /\ UNCHANGED published
  /\ UNCHANGED <<request, disk, calls, contain, lost, returned>>

\* seal_complete: verify_publication, then link the staged manifest.
SealComplete ==
  /\ W.pc = "sealing"
  /\ \/ /\ Present("runner") /\ published = W.a
        /\ disk' = [disk EXCEPT ![W.a].manifest = disk[W.a].staged] /\ Goes("runner", Idle)
        /\ returned' = TRUE /\ UNCHANGED faults
     \/ /\ Raises("runner", "seal") /\ Goes("runner", Idle) /\ UNCHANGED <<disk, returned>>
  /\ UNCHANGED <<request, published, calls, contain, lost>>

-----------------------------------------------------------------------------
(* abandon *)

\* The note of the error; its parent is the last event.
ErrorObserved ==
  LET e == [Event([ev |-> W.events], "error-observed", Len(W.events), W.reason, 0, 0, NoReply)
              EXCEPT !.seq = Len(W.events) + 1]
  IN /\ W.pc = "error" /\ W.tail < MaxEvents
     /\ Appended(e, [W EXCEPT !.pc = "roll", !.after = "manifest", !.phase = "seal"])

\* The partial manifest names what was rolled; one whose chunks overlap is not
\* a manifest, and the attempt is released unsealed.
SealPartial ==
  /\ W.pc = "manifest"
  /\ IF Contiguous(W.chunks)
     THEN Durably("runner", "seal",
            [disk[W.a] EXCEPT !.manifest = Partial(W.reason, W.chunks)],
            IF W.reason = "result-published-by-another-attempt"
            THEN [Idle EXCEPT !.pc = "attest"] ELSE Idle)
     ELSE /\ Goes("runner", Idle)
          /\ UNCHANGED <<request, disk, published, calls, contain, lost,
                         returned, faults>>

-----------------------------------------------------------------------------
(* Reconciliation of one attempt; reconcile_trajectories takes them in turn. *)

\* Mutant: an attempt past the commit point is taken for one before it.
NeverCommitted(a) == FALSE
PastCommit(a) == published = a /\ disk[a].result # NoResult

\* _past_commit: the staged manifest is linked if the evidence still verifies.
Standing(a) ==
  LET d == disk[a]
      kept == IF Loads(d, d.staged.chunks) /\ Structured(Flat(d.staged.chunks))
              THEN d.staged.chunks ELSE <<>>
  IN IF Verifies(d, d.staged)
     THEN [Idle EXCEPT !.pc = "link", !.a = a, !.phase = "reconcile"]
     ELSE [Idle EXCEPT !.pc = "incident", !.a = a, !.phase = "reconcile", !.chunks = kept,
                       !.reason = "post-commit-evidence-lost"]

\* _before_commit: the events of the chunks and of the tail, as far as they are
\* one history.
Rebuilt(a) ==
  LET d == disk[a]
      chunks == IF Loads(d, d.progress) THEN d.progress ELSE <<>>
      rolled == Flat(chunks)
      parsed == ParseTail(d.tail, rolled)
      new == Continuing(rolled, parsed.events)
  IN [Idle EXCEPT !.pc = "roll", !.a = a, !.phase = "reconcile", !.after = "seal",
                  !.events = rolled \o new, !.tail = Len(new), !.chunks = chunks,
                  !.reason = IF chunks # d.progress \/ parsed.broke
                                  \/ Len(new) < Len(parsed.events)
                             THEN "unverifiable-tail" ELSE "none"]

\* Under the attempt's lock, free because its writer is gone.  Progress whose
\* chunks overlap raises ValidationError in manifest_body.
Reconcilable(a) ==
  /\ disk[a].dir = "attempts" /\ disk[a].opened /\ disk[a].manifest = NoManifest
  /\ lock[a] = None
  /\ PastCommit(a) \/ Contiguous(disk[a].progress)

Reconcile(p, a) ==
  /\ \/ p = "reconciler" /\ job[p].pc = "idle"
     \/ p = "runner" /\ job[p].pc = "attest" /\ published = a
  /\ Reconcilable(a)
  /\ lock' = [lock EXCEPT ![a] = p]
  /\ job' = [job EXCEPT ![p] = IF PastCommit(a) THEN Standing(a) ELSE Rebuilt(a)]
  /\ UNCHANGED <<request, disk, published, calls, contain, lost,
                 returned, faults>>

\* A runner that reconciled goes on to _attested's check.
Reconciled(p) == IF p = "runner" THEN [Idle EXCEPT !.pc = "attested"] ELSE Idle

LinkManifest(p) ==
  /\ job[p].pc = "link"
  /\ Durably(p, "seal", [disk[Here(p)] EXCEPT !.manifest = disk[Here(p)].staged], Reconciled(p))

\* The incident record is written once; another's record is a conflict.
Incident(p) ==
  /\ job[p].pc = "incident"
  /\ IF disk[Here(p)].incident = "secret"
     THEN /\ Goes(p, Idle)
          /\ UNCHANGED <<request, disk, published, calls, contain, lost,
                         returned, faults>>
     ELSE Durably(p, "seal", [disk[Here(p)] EXCEPT !.incident = "lost"],
                  [job[p] EXCEPT !.pc = "seal"])

\* The reason that fits where the result location stands now.
ReasonFor(j) ==
  IF j.reason # "none" THEN j.reason
  ELSE IF Kind(j.events, "run-terminated") = {} THEN "writer-lost"
  ELSE IF published = None THEN "result-unpublished"
  ELSE "result-published-by-another-attempt"

Seal(p) ==
  /\ job[p].pc = "seal"
  /\ Durably(p, "seal",
       [disk[Here(p)] EXCEPT !.manifest = Partial(ReasonFor(job[p]), job[p].chunks)],
       Reconciled(p))

-----------------------------------------------------------------------------
(* _attested: a result that is already there. *)

Attest ==
  /\ W.pc = "idle" /\ published # None
  /\ job' = [job EXCEPT !["runner"] = [Idle EXCEPT !.pc = "attest"]]
  /\ UNCHANGED <<request, disk, published, lock, calls, contain, lost,
                 returned, faults>>

\* The winner is sealed, or there is nothing the runner can do about it.
Attested ==
  LET won == published \in Attempts /\ disk[published].dir = "attempts"
      m == IF won THEN disk[published].manifest ELSE NoManifest
  IN /\ \/ W.pc = "attested"
        \/ W.pc = "attest" /\ (won => m # NoManifest \/ lock[published] # None)
     /\ job' = [job EXCEPT !["runner"] = Idle]
     /\ returned' = (returned \/ (won /\ m.status = "complete" /\ Verifies(disk[published], m)))
     /\ UNCHANGED <<request, disk, published, lock, calls, contain, lost,
                    faults>>

-----------------------------------------------------------------------------
(* Containment, retention, and what happens to the disk from outside. *)

\* contain_attempt: the incident record (its time is new on every call, so an
\* existing one is a conflict), then the rename.  No lock is taken.
Contain(a) ==
  /\ contain = None /\ "contain" \in Faulty /\ faults < MaxFaults
  /\ disk[a].dir = "attempts" /\ disk[a].opened /\ disk[a].incident = "none"
  /\ disk' = [disk EXCEPT ![a].incident = "secret"]
  /\ contain' = a /\ faults' = faults + 1
  /\ UNCHANGED <<request, published, lock, job, calls, lost, returned>>

Quarantine ==
  /\ contain # None
  /\ disk' = [disk EXCEPT ![contain].dir = "quarantine"]
  /\ contain' = None
  /\ UNCHANGED <<request, published, lock, job, calls, lost, returned,
                 faults>>

ContainCrash ==
  /\ contain # None /\ faults < MaxFaults
  /\ contain' = None /\ faults' = faults + 1
  /\ UNCHANGED <<request, disk, published, lock, job, calls, lost,
                 returned>>

\* expire_blob, after the tier's retention: the record, then the blob.  Blobs
\* expire in order, which is a bound.
ExpiryRecorded(d, b) == [d EXCEPT !.expired = @ \cup {b}]

Expire(a) ==
  LET d == disk[a]
  IN /\ d.dir = "attempts" /\ Cardinality(d.expired) < MaxExpired
     /\ \E b \in Captured(d.manifest) \ d.expired :
          /\ \A c \in Captured(d.manifest) \ d.expired : b <= c
          /\ disk' = [disk EXCEPT ![a] = ExpiryRecorded(d, b)]
     /\ UNCHANGED <<request, published, lock, job, calls, contain, lost,
                    returned, faults>>

Unlink(a) ==
  /\ disk[a].dir = "attempts" /\ disk[a].expired \cap disk[a].blobs # {}
  /\ disk' = [disk EXCEPT ![a].blobs = @ \ disk[a].expired]
  /\ UNCHANGED <<request, published, lock, job, calls, contain, lost,
                 returned, faults>>

\* A blob or a chunk is damaged; something else is put at the result location.
Damage(a) ==
  /\ "damage" \in Faulty /\ faults < MaxFaults
  /\ \/ \E b \in disk[a].blobs : disk' = [disk EXCEPT ![a].blobs = @ \ {b}]
     \/ \E c \in disk[a].chunks : disk' = [disk EXCEPT ![a].chunks = @ \ {c}]
  /\ lost' = lost \cup {a} /\ faults' = faults + 1
  /\ UNCHANGED <<request, published, lock, job, calls, contain, returned>>

PublishForeign ==
  /\ published = None /\ "foreign" \in Faulty /\ faults < MaxFaults
  /\ published' = Foreign /\ faults' = faults + 1
  /\ UNCHANGED <<request, disk, lock, job, calls, contain, lost, returned>>

-----------------------------------------------------------------------------

RunnerStep ==
  \/ OpenRecord \/ Content \/ RollFirst \/ AppendEvent \/ Decide \/ CallModel \/ CallTool
  \/ Stage \/ WriteResult \/ WriteStaged \/ VerifyStaged \/ Commit \/ SealComplete
  \/ ErrorObserved \/ SealPartial \/ Attested

Step(p) == \/ Roll(p) \/ NothingToRoll(p) \/ Progress(p) \/ Truncate(p)
           \/ LinkManifest(p) \/ Incident(p) \/ Seal(p)
           \/ \E a \in Attempts : Reconcile(p, a)

Next ==
  \/ RunnerStep \/ Attest \/ Secret \/ Quarantine \/ ContainCrash \/ PublishForeign
  \/ \E p \in Actors : Step(p) \/ Torn(p) \/ Crash(p)
  \/ \E a \in Attempts : Open(a) \/ Contain(a) \/ Expire(a) \/ Unlink(a) \/ Damage(a)

Spec == Init /\ [][Next]_vars

\* Weak fairness, with what enables each action written out: a live process
\* goes on with its job, and abandoned attempts are reconciled.  Nobody need
\* start another run.
FairSpec ==
  /\ Spec
  /\ \A p \in Actors : []<>(job[p].pc = "idle") \/ []<><<job'[p] # job[p]>>_vars
  /\ \/ []<>(\/ job["reconciler"].pc # "idle"
             \/ ~\E a \in Attempts : Reconcilable(a))
     \/ []<><<\E a \in Attempts : Reconcile("reconciler", a)>>_vars

-----------------------------------------------------------------------------
(* Properties. *)

TrajectoryTypeOK ==
  /\ published \in Attempts \cup {None, Foreign}
  /\ lock \in [Attempts -> Actors \cup {None}]
  /\ contain \in Attempts \cup {None} /\ lost \subseteq Attempts
  /\ returned \in BOOLEAN /\ faults \in 0..MaxFaults
  /\ \A a \in Attempts :
       /\ disk[a].dir \in {"none", "attempts", "quarantine"}
       /\ disk[a].manifest.status \in {"none", "complete", "partial"}
       /\ disk[a].incident \in {"none", "lost", "secret"}
  /\ \A p \in Actors : job[p].tail <= Len(job[p].events) /\ job[p].a \in Attempts \cup {None}

Durable(a) == UNION {Range(c[2]) : c \in disk[a].chunks} \cup Range(disk[a].tail)

\* Write-ahead: whatever happens to the process, the start of every model and
\* tool call that was made is in the attempt's tail or chunks, now and after
\* any roll, abandonment or reconciliation (record's write-ahead rule 3, roll's
\* rule 5).  Evidence damaged from outside is not the writer's.
CallsAnnounced ==
  \A a \in Attempts \ lost : \A s \in calls[a] :
    \E e \in Durable(a) : e.seq = s /\ e.kind \in {"model-call-started", "tool-call-started"}

\* The seal tells the truth: a complete manifest is the published attempt's and
\* verifies; the published attempt is sealed partial only when its evidence was
\* lost; what a partial manifest keeps is a causal history whose content is
\* there or expired by record (or, when not even run-started could be written,
\* the lone note of that error).
SealHonest ==
  \A a \in Attempts :
    LET d == disk[a]
        m == d.manifest
        ev == Flat(m.chunks)
    IN /\ m.status = "complete" => published = a /\ d.result # NoResult
       /\ m.status = "partial" /\ published = a =>
            m.reason = "post-commit-evidence-lost" /\ a \in lost
       /\ m.status # "none" /\ a \notin lost =>
            Verifies(d, m) \/ (Len(ev) = 1 /\ ev[1].kind = "error-observed")

\* A sealed history leaves no call out, unless the seal says that recording
\* failed or that the tail could not be verified.
CallsInSeal ==
  \A a \in Attempts :
    LET m == disk[a].manifest
    IN m.status # "none" /\ a \notin lost
         /\ m.reason \notin {"recording-failed", "secret-detected", "unverifiable-tail"} =>
         \A s \in calls[a] : s \in DOMAIN Flat(m.chunks)

\* What a run counted agrees with what it recorded, so a run nobody disturbs is
\* never refused by its own verification at the stage.
StageVerifies ==
  W.pc = "verify" /\ Present("runner") /\ W.a \notin lost =>
    Verifies(disk[W.a], disk[W.a].staged)

\* Re-driving a sealed history gives it again; a partial one is how the
\* re-drive begins (verify_replay).
ReplayFaithful ==
  \A a \in Attempts :
    LET m == disk[a].manifest
        ev == Flat(m.chunks)
    IN /\ m.status = "complete" => Equivalent(request.harness, ev)
       /\ m.status = "partial" /\ Structured(ev) => PrefixEquivalent(request.harness, ev)

\* An answer, once given, can be given again: nothing the store does to the
\* attempt later (reconciliation, expiry) takes the attestation away.
AnswerStands ==
  returned => /\ published \in Attempts
              /\ \/ disk[published].dir = "quarantine" \/ published \in lost
                 \/ /\ disk[published].manifest.status = "complete"
                    /\ Verifies(disk[published], disk[published].manifest)

\* An opened attempt is sealed in the end, by its writer or by reconciliation,
\* unless an operator contained it or began to.
EventuallySealed ==
  \A a \in Attempts :
    disk[a].opened ~> disk[a].manifest # NoManifest \/ disk[a].incident = "secret"

\* The evidence of an attempt: announced before it happened, sealed as it was.
EvidenceHonest == TrajectoryTypeOK /\ CallsAnnounced /\ SealHonest /\ CallsInSeal

\* What the runner counted, what it recorded, what it returned and what a
\* re-drive gives agree.
RunsAgree == StageVerifies /\ ReplayFaithful /\ AnswerStands
=============================================================================
