--------------------------- MODULE DaemonRequests ---------------------------
(***************************************************************************)
(* The daemon's mailbox: clients commit requests to the state database and *)
(* go away; one daemon session after another finds them, carries each out  *)
(* through the controller it runs, and records when that controller comes  *)
(* to rest on an experiment, which is all that a client's wait() can read. *)
(* daemon/server.py, daemon/client.py, daemon/host.py, storage/requests.py,*)
(* core/domain/controller_request.py, and the parts of control_plane.py    *)
(* and experiment/host.py that a request's intent passes through.          *)
(*                                                                         *)
(* One session serves at a time (ControllerLease).  A session that ends,   *)
(* by a crash, a stop or a lost lease, loses its memory and nothing of the *)
(* record.  Inside an experiment only what a request or a rest can tell    *)
(* apart is kept: whether an attempt is unsettled and how far its submit   *)
(* operation is, whether the planner has another candidate, and which      *)
(* actions are recorded.  Submission, ExperimentLifecycle,                 *)
(* ExperimentCancellation and IncidentRecovery have the rest.              *)
(***************************************************************************)
EXTENDS Naturals, Sequences, FiniteSets, SequencesExt

CONSTANTS ExpIds,     \* the experiments the setups are about
          Setups,     \* what the clients ask for and what the record holds when they do
          MaxAsks,    \* requests in one setup
          MaxEnds,    \* sessions that end before they are done
          MaxFaults,  \* errors that are no judgement on the request
          MaxRetries  \* repeats of a request whose client stopped waiting

VARIABLES
    setup,
    reqs,    \* controller_requests, by request id; ids are in created_at order
    exps,    \* the experiments: status, controller_host, attempt, candidates left
    acts,    \* the Actions, by id
    evs,     \* latest event sequence of each experiment
    rests,   \* controller_rests
    mind,    \* what the serving session holds in memory
    client,  \* each request's client
    watch,   \* handle.wait() on each experiment
    ends, faults, retries,
    wrote    \* commits that wrote a request's intent; nothing reads it

record == <<reqs, exps, acts, evs, rests>>
bounds == <<ends, faults, retries>>
vars == <<setup, record, mind, client, watch, bounds, wrote>>

Asked == DOMAIN setup.asks
Join(r) == Len(setup.asks) + r
Rids == 1..(2 * Len(setup.asks))
Exps == DOMAIN setup.exps
Acts == DOMAIN setup.acts
NoRest == [seq |-> 0, why |-> "none"]
Nobody == [r |-> 0, exp |-> "", kind |-> "none", step |-> "none"]
Idle == [up |-> FALSE, lacks |-> FALSE, swept |-> FALSE, batch |-> <<>>, todo |-> <<>>,
         cur |-> Nobody, obs |-> [e \in Exps |-> "none"], plan |-> [e \in Exps |-> "none"],
         issuing |-> {}, resting |-> {}, esc |-> {}]

(***************************************************************************)
(* The record                                                              *)
(***************************************************************************)

(* What client r asks; a cancel that is to join another one attaches, as a request of its own. *)
Ask(r) == IF r \in Asked THEN setup.asks[r]
          ELSE [kind |-> "attach", exp |-> setup.asks[r - Len(setup.asks)].exp, act |-> "",
                good |-> TRUE, who |-> ""]

Recorded(r) == reqs[r].state # "unsent"
Unfinished(r) == reqs[r].state \in {"pending", "accepted"}

Allowed(kind, from, to) ==
    IF kind = "submit" THEN <<from, to>> \in {<<"pending", "accepted">>, <<"pending", "failed">>,
                                              <<"accepted", "completed">>}
    ELSE <<from, to>> \in {<<"pending", "completed">>, <<"pending", "failed">>}

(* _move_request: one revision on, along an edge of the request's kind. *)
Moved(r, to, why) == [reqs EXCEPT ![r] = [@ EXCEPT !.state = to, !.rev = @ + 1, !.why = why]]

Cancels(e) == {a \in Acts : acts[a].exp = e /\ acts[a].type = "cancel"}
Cancelling(e) == \E a \in Cancels(e) : acts[a].st = "executing"
Terminal(e) == exps[e].status \in {"ended", "cancelled"}

(* A recovery whose approval, or rejection, was not carried out yet; a cancellation's effects. *)
ToRecover(e) == {a \in Acts : /\ acts[a].exp = e /\ acts[a].bound
                              /\ acts[a].st \in {"approved", "rejected"}}
Freed(e) == {a \in ToRecover(e) : acts[a].st = "approved"}
ToCancel(e) == {a \in Cancels(e) : acts[a].st = "executing" /\ acts[a].eff = "intended"}

(* unsettled_work and the runs of experiment_result: nothing is left that somebody must finish. *)
Quiescent(e) == exps[e].att = "none" /\ ~Cancelling(e) /\ ToRecover(e) = {}

(* next_stage "planning" for a planner that has another candidate to propose. *)
Plannable(e) == /\ exps[e].status = "active" /\ exps[e].more > 0 /\ exps[e].att = "none"
                /\ ~Cancelling(e)

(* daemon_responsibilities: admitted by a daemon, or the subject of a completed request. *)
Owned == {e \in Exps : /\ exps[e].status = "active"
                       /\ \/ exps[e].host = "daemon"
                          \/ \E r \in Rids : /\ reqs[r].state = "completed"
                                             /\ Ask(r).exp = e /\ Ask(r).kind # "submit"}

InOrder(s) == SetToSortSeq(s, LAMBDA x, y : x < y)

(***************************************************************************)
(* Clients                                                                 *)
(***************************************************************************)

(* record_controller_request: get-or-create by the request's id. *)
GetOrCreate(r) == IF Recorded(r) THEN reqs ELSE [reqs EXCEPT ![r].state = "pending"]

(* submit, attach, cancel, propose, approve_action, reject_action, to the committed request.     *)
(* An approval or rejection needs the action on record (_resolve).                               *)
Send(r) == /\ client[r] = "new"
           /\ Ask(r).kind \in {"approve", "reject"} => acts[Ask(r).act].st # "none"
           /\ reqs' = GetOrCreate(r)
           /\ client' = [client EXCEPT ![r] = "waiting"]
           /\ UNCHANGED <<setup, exps, acts, evs, rests, mind, watch, bounds, wrote>>

(* handoff_timeout passes: the request stays in the mailbox. *)
GiveUp(r) == /\ client[r] = "waiting" /\ retries < MaxRetries /\ "retry" \in setup.may /\ Unfinished(r)
             /\ client' = [client EXCEPT ![r] = "timedOut"]
             /\ retries' = retries + 1
             /\ UNCHANGED <<setup, record, mind, watch, ends, faults, wrote>>

(* The same request again, by its id. *)
Resend(r) == /\ client[r] = "timedOut"
             /\ reqs' = GetOrCreate(r)
             /\ client' = [client EXCEPT ![r] = "waiting"]
             /\ UNCHANGED <<setup, exps, acts, evs, rests, mind, watch, bounds, wrote>>

(* Another request under the same id: IdempotencyConflictError, and nothing is written. *)
Confuse(r) == /\ client[r] = "timedOut" /\ Recorded(r)
              /\ client' = [client EXCEPT ![r] = "conflict"]
              /\ UNCHANGED <<setup, record, mind, watch, bounds, wrote>>

(* wait_for_handoff sees the request done.  A cancel refused because another is in flight *)
(* joins it through an attach of its own.                                                 *)
HandedOff(r) ==
    /\ client[r] = "waiting" /\ reqs[r].state \in {"completed", "failed"}
    /\ \/ /\ reqs[r].state = "completed"
          /\ client' = [client EXCEPT ![r] = "returned"]
          /\ reqs' = reqs
       \/ /\ reqs[r].state = "failed" /\ reqs[r].why # "inFlight"
          /\ client' = [client EXCEPT ![r] = "raised"]
          /\ reqs' = reqs
       \/ /\ reqs[r].state = "failed" /\ reqs[r].why = "inFlight"
          /\ client' = [client EXCEPT ![r] = "joining"]
          /\ reqs' = GetOrCreate(Join(r))
    /\ UNCHANGED <<setup, exps, acts, evs, rests, mind, watch, bounds, wrote>>

(* The joined attach is carried out: one snapshot says whether there is a cancellation to report. *)
Joined(r) ==
    /\ client[r] = "joining" /\ reqs[Join(r)].state \in {"completed", "failed"}
    /\ client' = [client EXCEPT ![r] =
           IF reqs[Join(r)].state = "completed"
              /\ (exps[Ask(r).exp].status = "cancelled" \/ Cancelling(Ask(r).exp))
           THEN "returned" ELSE "raised"]
    /\ UNCHANGED <<setup, record, mind, watch, bounds, wrote>>

(* Mutant: takes any rest, whatever happened since it was recorded. *)
AtRestUnstamped(e) ==
    CASE Terminal(e) /\ Quiescent(e) -> "returned"
      [] \E r \in Rids : Unfinished(r) /\ Ask(r).exp = e -> "waiting"
      [] rests[e].why = "none" -> "waiting"
      [] rests[e].why # "rested" -> "raised"
      [] OTHER -> IF Quiescent(e) THEN "returned" ELSE "waiting"

(* _at_rest, in one snapshot: "returned", "raised", or "waiting" while the daemon may move it. *)
AtRest(e) ==
    CASE Terminal(e) /\ Quiescent(e) -> "returned"
      [] \E r \in Rids : Unfinished(r) /\ Ask(r).exp = e -> "waiting"
      [] rests[e].seq # evs[e] \/ rests[e].why = "none" -> "waiting"
      [] rests[e].why # "rested" -> "raised"
      [] OTHER -> IF Quiescent(e) THEN "returned" ELSE "waiting"

(* handle.wait() is called on an experiment in the record, and polls. *)
Wait(e) == /\ watch[e] = "no" /\ exps[e].status # "none"
           /\ watch' = [watch EXCEPT ![e] = "waiting"]
           /\ UNCHANGED <<setup, record, mind, client, bounds, wrote>>

Poll(e) == /\ watch[e] = "waiting" /\ AtRest(e) # "waiting"
           /\ watch' = [watch EXCEPT ![e] = AtRest(e)]
           /\ UNCHANGED <<setup, record, mind, client, bounds, wrote>>

(***************************************************************************)
(* A session: what it takes up                                             *)
(***************************************************************************)

Cur == mind.cur
Busy == {Cur.exp} \ {""}
Free == mind.up /\ Cur.kind = "none"
Step(to) == [mind EXCEPT !.cur.step = to]

(* Mutant: forgets to start the wait. *)
OverUnwatched(m, e) == [m EXCEPT !.cur = Nobody]

(* _rest_when_settled once the work on e is over: somebody waits for its next rest. *)
Over(m, e) == [m EXCEPT !.cur = Nobody,
                        !.resting = IF exps'[e].status = "none" THEN @ ELSE @ \cup {e}]

(* serve: the lease is this session's.  The unfinished requests first, then the sweep. *)
Start == /\ ~mind.up
         /\ \E lacks \in {FALSE, setup.upgrade /\ ends > 0} :
                mind' = [Idle EXCEPT !.up = TRUE, !.lacks = lacks,
                                     !.batch = InOrder({r \in Rids : Unfinished(r)})]
         /\ UNCHANGED <<setup, record, client, watch, bounds, wrote>>

(* A crash, a stop, a lease lost: the memory goes, the workloads and the record stay. *)
End == /\ mind.up /\ ends < MaxEnds /\ "end" \in setup.may
       /\ ends' = ends + 1
       /\ mind' = Idle
       /\ UNCHANGED <<setup, record, client, watch, faults, retries, wrote>>

(* process_requests reads the unfinished ones again, oldest first. *)
PollMailbox == /\ Free /\ mind.swept /\ mind.batch = <<>> /\ mind.todo = <<>>
               /\ \E r \in Rids : Unfinished(r)
               /\ mind' = [mind EXCEPT !.batch = InOrder({r \in Rids : Unfinished(r)})]
               /\ UNCHANGED <<setup, record, client, watch, bounds, wrote>>

FirstStep(r) == CASE Ask(r).kind = "submit" -> IF reqs[r].state = "pending" THEN "admit" ELSE "attach"
                  [] Ask(r).kind = "attach" -> "attach"
                  [] OTHER -> "record"

Take == /\ Free /\ mind.batch # <<>>
        /\ LET r == Head(mind.batch)
           IN  mind' = [mind EXCEPT !.batch = Tail(@),
                                    !.cur = [r |-> r, exp |-> Ask(r).exp, kind |-> Ask(r).kind,
                                             step |-> FirstStep(r)]]
        /\ UNCHANGED <<setup, record, client, watch, bounds, wrote>>

(* sweep, once, after the first pass over the mailbox. *)
BeginSweep == /\ Free /\ ~mind.swept /\ mind.batch = <<>>
              /\ mind' = [mind EXCEPT !.swept = TRUE, !.todo = SetToSeq(Owned)]
              /\ UNCHANGED <<setup, record, client, watch, bounds, wrote>>

SweepNext == /\ Free /\ mind.todo # <<>>
             /\ mind' = [mind EXCEPT !.todo = Tail(@),
                                     !.cur = [r |-> 0, exp |-> Head(mind.todo), kind |-> "sweep",
                                              step |-> "attach"]]
             /\ UNCHANGED <<setup, record, client, watch, bounds, wrote>>

(***************************************************************************)
(* A session: carrying one request out                                     *)
(***************************************************************************)

(* _fail_if_pending after a refusal: FAILED if the request is still pending, else it stands. *)
Refuse(why) ==
    /\ reqs' = IF reqs[Cur.r].state = "pending" THEN Moved(Cur.r, "failed", why) ELSE reqs
    /\ UNCHANGED <<exps, acts, evs, rests>>
    /\ mind' = Over(mind, Cur.exp)
    /\ UNCHANGED <<setup, client, watch, bounds, wrote>>

(* Any other error, at any step: the request is left as it is, for the next poll. *)
Falter ==
    /\ mind.up /\ Cur.kind # "none" /\ Cur.step \notin {"plan", "planning", "swept"} /\ faults < MaxFaults /\ "error" \in setup.may
    /\ Cur.kind = "sweep" => "sweep" \in setup.breaks
    /\ faults' = faults + 1
    /\ UNCHANGED record
    /\ mind' = IF Cur.kind = "sweep" THEN [mind EXCEPT !.cur = Nobody] ELSE Over(mind, Cur.exp)
    /\ UNCHANGED <<setup, client, watch, ends, retries, wrote>>

(* _submit of a pending request: validated, bound and compiled, or refused. *)
RefuseSubmit ==
    /\ mind.up /\ Cur.step = "admit" /\ reqs[Cur.r].state = "pending"
    /\ ~Ask(Cur.r).good \/ mind.lacks \/ exps[Cur.exp].status # "none"
    /\ Refuse("refused")

(* admit_experiment: the experiment, its attempt, the submit intent and ACCEPTED in one commit. *)
Admitted(r) == /\ exps' = [exps EXCEPT ![Ask(r).exp] =
                              [@ EXCEPT !.status = "active", !.host = "daemon", !.att = "intended"]]
               /\ reqs' = Moved(r, "accepted", "")

Admit ==
    /\ mind.up /\ Cur.step = "admit" /\ reqs[Cur.r].state = "pending"
    /\ Ask(Cur.r).good /\ ~mind.lacks /\ exps[Cur.exp].status = "none"
    /\ Admitted(Cur.r)
    /\ evs' = [evs EXCEPT ![Cur.exp] = @ + 1]
    /\ wrote' = [wrote EXCEPT ![Cur.r] = @ + 1]
    /\ mind' = Step("issue")
    /\ UNCHANGED <<setup, acts, rests, client, watch, bounds>>

(* _settle_refused: the attempt is settled, and its node is left ACTIVE. *)
Rejected(e) == [exps EXCEPT ![e].att = "none", ![e].more = 0]

(* What follows the submission of an admitted attempt, and of a recovery's successor. *)
IssuedThen == IF Cur.step = "successor" THEN "cancel" ELSE "complete"

(* _issue: the runtime takes the submission, it is confirmed, and an observer follows it.  Or it *)
(* definitively refuses: the attempt and its run are FAILED, nobody observes, and the candidate   *)
(* stays where no planner goes on from.                                                          *)
Issue ==
    /\ mind.up /\ Cur.step \in {"issue", "successor", "carried"}
    /\ \/ /\ exps[Cur.exp].att = "intended"
          /\ exps' = [exps EXCEPT ![Cur.exp].att = "confirmed"]
          /\ evs' = [evs EXCEPT ![Cur.exp] = @ + 1]
          /\ mind' = [Step(IssuedThen) EXCEPT !.obs[Cur.exp] = "watching"]
       \/ /\ exps[Cur.exp].att = "intended" /\ "reject" \in setup.may
          /\ exps' = Rejected(Cur.exp)
          /\ evs' = [evs EXCEPT ![Cur.exp] = @ + 1]
          /\ mind' = Step(IssuedThen)
    /\ UNCHANGED <<setup, reqs, acts, rests, client, watch, bounds, wrote>>

(* request_experiment_cancellation: what the request's own Action finds on record. *)
CancelRefused(r) == \E a \in Cancels(Ask(r).exp) : a # Ask(r).act /\ acts[a].st = "executing"
InsertCancel(r) ==
    [acts EXCEPT ![Ask(r).act] = [exp |-> Ask(r).exp, type |-> "cancel", ans |-> 0, bound |-> FALSE,
        st |-> IF Terminal(Ask(r).exp) THEN "done" ELSE "executing",
        eff |-> IF exps[Ask(r).exp].att = "none" THEN "none" ELSE "intended"]]

(* propose_action: validated and judged, in one commit. *)
InsertProposed(r) ==
    [acts EXCEPT ![Ask(r).act] = [exp |-> Ask(r).exp, type |-> "governed", ans |-> 0, bound |-> FALSE,
                                  st |-> setup.verdict, eff |-> "none"]]

(* _resolve_approval: the awaiting action takes the answer. *)
Resolved(r) == [acts EXCEPT ![Ask(r).act].st = IF Ask(r).kind = "approve" THEN "approved" ELSE "rejected",
                            ![Ask(r).act].ans = r]

(* The answer already on record is this one: the same verdict by the same human for the same reason. *)
SameAnswer(r) == LET given == acts[Ask(r).act].ans
                 IN  /\ given # 0 /\ Ask(given).kind = Ask(r).kind /\ Ask(given).who = Ask(r).who

(* Why _record refuses, "" if it does not.  A proposal resolves the experiment's runtime before *)
(* it looks for its Action; the others look at the record alone.                                *)
Refusal(r) ==
    LET k == Ask(r)
        a == acts[k.act]
    IN  CASE exps[k.exp].status = "none" -> "notFound"
          [] ~k.good -> "refused"
          [] k.kind = "cancel" -> IF a.st = "none" /\ CancelRefused(r) THEN "inFlight" ELSE ""
          [] k.kind = "propose" -> IF mind.lacks THEN "noRuntime" ELSE ""
          [] OTHER -> IF a.exp # k.exp THEN "misdirected"
                      ELSE IF a.st = "pending" \/ SameAnswer(r) THEN "" ELSE "conflict"

(* Mutant: does not look for the Action the request carries. *)
IntentAgain(r) ==
    CASE Ask(r).kind = "cancel" -> InsertCancel(r)
      [] Ask(r).kind = "propose" -> InsertProposed(r)
      [] OTHER -> Resolved(r)

Intent(r) ==
    CASE Ask(r).kind = "cancel" -> IF acts[Ask(r).act].st = "none" THEN InsertCancel(r) ELSE acts
      [] Ask(r).kind = "propose" -> IF acts[Ask(r).act].st = "none" THEN InsertProposed(r) ELSE acts
      [] OTHER -> IF acts[Ask(r).act].st = "pending" THEN Resolved(r) ELSE acts

RefuseAct == /\ mind.up /\ Cur.step = "record" /\ Refusal(Cur.r) # ""
             /\ Refuse(Refusal(Cur.r))

Record == /\ mind.up /\ Cur.step = "record" /\ Refusal(Cur.r) = ""
          /\ acts' = Intent(Cur.r)
          /\ evs' = IF acts' = acts THEN evs ELSE [evs EXCEPT ![Cur.exp] = @ + 1]
          /\ wrote' = IF acts' = acts THEN wrote ELSE [wrote EXCEPT ![Cur.r] = @ + 1]
          /\ mind' = Step("attach")
          /\ UNCHANGED <<setup, reqs, exps, rests, client, watch, bounds>>

(***************************************************************************)
(* attach, from a request or from the sweep                                *)
(***************************************************************************)

AfterAttach == IF Cur.kind \in {"submit", "attach"} THEN "complete"
               ELSE IF Cur.kind = "sweep" THEN "swept" ELSE "carry"

NeedsRuntime(e) == exps[e].att # "none" \/ Freed(e) # {}

(* attach of an experiment that does not exist, or whose effects this session cannot look up.   *)
(* Only an attach request is failed by it; an action's intent is on record, and a submit was    *)
(* admitted, so those are left as they are; the sweep logs it and goes on.                      *)
AttachRefused ==
    /\ mind.up /\ Cur.step = "attach" /\ mind.obs[Cur.exp] \in {"none", "failed"}
    /\ \/ exps[Cur.exp].status = "none"
       \/ mind.lacks /\ NeedsRuntime(Cur.exp)
    /\ \/ /\ Cur.kind = "attach"
          /\ Refuse("refused")
       \/ /\ Cur.kind # "attach"
          /\ UNCHANGED record
          /\ mind' = IF Cur.kind = "sweep" THEN [mind EXCEPT !.cur = Nobody] ELSE Over(mind, Cur.exp)
          /\ UNCHANGED <<setup, client, watch, bounds, wrote>>

(* Something in this session observes it already: nothing to reconcile. *)
AttachDriven == /\ mind.up /\ Cur.step = "attach" /\ mind.obs[Cur.exp] \in {"watching", "continuing"}
                /\ mind' = Step(AfterAttach)
                /\ UNCHANGED <<setup, record, client, watch, bounds, wrote>>

(* The cancel effects of a saga in flight are issued under their recorded ids, and the saga is *)
(* settled if nothing is live.                                                                 *)
CancelIssued(as, e, att) ==
    [a \in Acts |-> IF a \in ToCancel(e) /\ att = "confirmed" THEN [as[a] EXCEPT !.eff = "confirmed"]
                    ELSE as[a]]
Settles(e, att) == att = "none" /\ Cancelling(e)
SettledCancel(as, e) ==
    [a \in Acts |-> IF a \in Cancels(e) /\ as[a].st = "executing" THEN [as[a] EXCEPT !.st = "done"]
                    ELSE as[a]]

(* _reconcile, its first commit: the unsettled attempt is adopted, looked up or re-issued; or the *)
(* runtime says, then or when asked again, that it refused the submission.                       *)
Attach ==
    /\ mind.up /\ Cur.step = "attach" /\ mind.obs[Cur.exp] \in {"none", "failed"}
    /\ exps[Cur.exp].status # "none" /\ ~(mind.lacks /\ NeedsRuntime(Cur.exp))
    /\ LET e == Cur.exp
       IN  \/ /\ exps[e].att = "none"
              /\ exps' = exps
              /\ mind' = [Step("recover") EXCEPT !.obs[e] = "none"]
           \/ /\ exps[e].att # "none"
              /\ exps' = [exps EXCEPT ![e].att = "confirmed"]
              /\ mind' = [Step("recover") EXCEPT !.obs[e] = "watching"]
           \/ /\ exps[e].att = "intended" /\ "reject" \in setup.may
              /\ exps' = Rejected(e)
              /\ mind' = [Step("recover") EXCEPT !.obs[e] = "none"]
    /\ evs' = IF exps' = exps THEN evs ELSE [evs EXCEPT ![Cur.exp] = @ + 1]
    /\ UNCHANGED <<setup, reqs, acts, rests, client, watch, bounds, wrote>>

(* The recovery an answered Action waited for: its successor is recorded, to be issued next, or   *)
(* it is abandoned.                                                                              *)
Recovered(e, as) == /\ acts' = [a \in Acts |-> IF a \in as THEN [acts[a] EXCEPT !.st = "done"] ELSE acts[a]]
                    /\ exps' = IF as \cap Freed(e) = {} THEN exps ELSE [exps EXCEPT ![e].att = "intended"]

AttachRecovers ==
    /\ mind.up /\ Cur.step = "recover"
    /\ Recovered(Cur.exp, ToRecover(Cur.exp))
    /\ evs' = IF acts' = acts THEN evs ELSE [evs EXCEPT ![Cur.exp] = @ + 1]
    /\ mind' = Step(IF Freed(Cur.exp) = {} THEN "cancel" ELSE "successor")
    /\ UNCHANGED <<setup, reqs, rests, client, watch, bounds, wrote>>

(* _cancel for a saga in flight, of whoever asked for it: the effects still INTENDED are issued,  *)
(* then it is settled if nothing is live.                                                        *)
CancelCarried(e) ==
    /\ acts' = IF Settles(e, exps[e].att) THEN SettledCancel(acts, e) ELSE CancelIssued(acts, e, exps[e].att)
    /\ exps' = [exps EXCEPT ![e].status = IF Settles(e, exps[e].att) THEN "cancelled" ELSE @]
    /\ evs' = IF acts' = acts THEN evs ELSE [evs EXCEPT ![e] = @ + 1]

AttachCancels ==
    /\ mind.up /\ Cur.step = "cancel"
    /\ CancelCarried(Cur.exp)
    /\ mind' = Step("plan")
    /\ UNCHANGED <<setup, reqs, rests, client, watch, bounds, wrote>>

(* The submission cannot be told from one the runtime forgot, and is escalated. *)
AttachEscalates ==
    /\ mind.up /\ Cur.step = "attach" /\ mind.obs[Cur.exp] \in {"none", "failed"} /\ ~mind.lacks
    /\ exps[Cur.exp].att = "intended" /\ setup.forgets
    /\ mind' = [Step("recover") EXCEPT !.esc = @ \cup {Cur.exp}]
    /\ UNCHANGED <<setup, record, client, watch, bounds, wrote>>

(* _continue_adaptive_experiment at the end of _reconcile, under the experiment's lock. *)
AttachPlans == /\ mind.up /\ Cur.step = "plan" /\ mind.plan[Cur.exp] = "none"
               /\ mind' = IF Plannable(Cur.exp) /\ Cur.exp \notin mind.esc
                          THEN [Step("planning") EXCEPT !.plan[Cur.exp] = "cur"]
                          ELSE Step(AfterAttach)
               /\ UNCHANGED <<setup, record, client, watch, bounds, wrote>>

SweepDone == /\ mind.up /\ Cur.step = "swept"
             /\ UNCHANGED record
             /\ mind' = Over(mind, Cur.exp)
             /\ UNCHANGED <<setup, client, watch, bounds, wrote>>

(***************************************************************************)
(* Carrying the intent on, and the handoff's end                           *)
(***************************************************************************)

(* carry_on: the cancellation's effects as the record has them now; the recovery an approval     *)
(* releases; the one a rejection abandons; nothing for a proposal.  A session without the        *)
(* runtime does not come here with an effect to issue: the attach refused before.                *)
Carry ==
    /\ mind.up /\ Cur.step = "carry"
    /\ \/ /\ Cur.kind = "cancel"
          /\ CancelCarried(Cur.exp)
          /\ mind' = Step("complete")
       \/ /\ Cur.kind # "cancel"
          /\ Recovered(Cur.exp, {Ask(Cur.r).act} \cap ToRecover(Cur.exp))
          /\ evs' = IF acts' = acts THEN evs ELSE [evs EXCEPT ![Cur.exp] = @ + 1]
          /\ mind' = Step(IF Ask(Cur.r).act \in Freed(Cur.exp) THEN "carried" ELSE "complete")
    /\ UNCHANGED <<setup, reqs, rests, client, watch, bounds, wrote>>

(* complete_controller_request, from the state the request is in now. *)
Complete ==
    /\ mind.up /\ Cur.step = "complete"
    /\ reqs' = IF Allowed(Cur.kind, reqs[Cur.r].state, "completed")
               THEN Moved(Cur.r, "completed", "") ELSE reqs
    /\ UNCHANGED <<exps, acts, evs, rests>>
    /\ mind' = Over(mind, Cur.exp)
    /\ UNCHANGED <<setup, client, watch, bounds, wrote>>

(***************************************************************************)
(* The controller's own tasks, beside the request being carried out        *)
(***************************************************************************)

(* The event loop runs another task only where the one that runs awaits: never between the      *)
(* carrying out of a request and its completion.                                                *)
Yielded == mind.up /\ Cur.step # "complete"

(* The adaptive loop of whoever holds the experiment's lock ends. *)
LoopEnds(m, e) == [m EXCEPT !.plan[e] = "none", !.issuing = @ \ {e},
                            !.obs[e] = IF m.plan[e] = "obs" /\ @ = "continuing" THEN "none" ELSE @,
                            !.cur.step = IF m.plan[e] = "cur" THEN AfterAttach ELSE @]

(* The planner answers, its candidate is branched, and its run is admitted; or the experiment   *)
(* ended, or is being cancelled, and the branch is refused.                                     *)
Planned(e) ==
    /\ Yielded /\ mind.plan[e] # "none" /\ e \notin mind.issuing
    /\ \/ /\ Plannable(e)
          /\ exps' = [exps EXCEPT ![e].more = @ - 1, ![e].att = "intended"]
          /\ evs' = [evs EXCEPT ![e] = @ + 1]
          /\ mind' = [mind EXCEPT !.issuing = @ \cup {e}]
       \/ /\ ~Plannable(e)
          /\ UNCHANGED <<exps, evs>>
          /\ mind' = LoopEnds(mind, e)
    /\ UNCHANGED <<setup, reqs, acts, rests, client, watch, bounds, wrote>>

(* The planner fails, or proposes what nothing may choose from: the loop stops until a restart. *)
PlanFails(e) ==
    /\ Yielded /\ mind.plan[e] # "none" /\ e \notin mind.issuing /\ faults < MaxFaults /\ "error" \in setup.may
    /\ faults' = faults + 1
    /\ mind' = [LoopEnds(mind, e) EXCEPT !.esc = @ \cup {e}]
    /\ UNCHANGED <<setup, record, client, watch, ends, retries, wrote>>

(* The candidate's run is issued and followed, or refused by the runtime.  An attach that saw no observer yet may have      *)
(* looked the submission up and confirmed it first: then this confirm is refused, and the loop   *)
(* leaves it to the other.                                                                       *)
RunIssued(e) ==
    /\ Yielded /\ e \in mind.issuing
    /\ \/ /\ exps[e].att = "intended"
          /\ exps' = [exps EXCEPT ![e].att = "confirmed"]
          /\ evs' = [evs EXCEPT ![e] = @ + 1]
          /\ mind' = [LoopEnds(mind, e) EXCEPT !.obs[e] = "watching"]
       \/ /\ exps[e].att = "intended" /\ "reject" \in setup.may
          /\ exps' = Rejected(e)
          /\ evs' = [evs EXCEPT ![e] = @ + 1]
          /\ mind' = LoopEnds(mind, e)
       \/ /\ exps[e].att # "intended"
          /\ UNCHANGED <<exps, evs>>
          /\ mind' = LoopEnds(mind, e)
    /\ UNCHANGED <<setup, reqs, acts, rests, client, watch, bounds, wrote>>

(* The observer sees the workload end and settles it: a cancellation in flight takes the        *)
(* experiment with it, a planner with another candidate goes on, or the decision ends it.       *)
WorkEnds(e) ==
    /\ Yielded /\ mind.obs[e] = "watching" /\ exps[e].att = "confirmed"
    /\ \E over \in {Cancelling(e), exps[e].more = 0 /\ setup.decides} :
         exps' = [exps EXCEPT ![e].att = "none",
                              ![e].status = IF Cancelling(e) THEN "cancelled"
                                            ELSE IF over THEN "ended" ELSE @]
    /\ acts' = IF Cancelling(e) THEN SettledCancel(acts, e) ELSE acts
    /\ evs' = [evs EXCEPT ![e] = @ + 1]
    /\ mind' = [mind EXCEPT !.obs[e] = "continuing"]
    /\ UNCHANGED <<setup, reqs, rests, client, watch, bounds, wrote>>

(* The observer's last step: the adaptive loop, if there is anything to plan. *)
Continues(e) ==
    /\ Yielded /\ mind.obs[e] = "continuing" /\ mind.plan[e] = "none"
    /\ mind' = IF Plannable(e) /\ e \notin mind.esc THEN [mind EXCEPT !.plan[e] = "obs"]
               ELSE [mind EXCEPT !.obs[e] = "none"]
    /\ UNCHANGED <<setup, record, client, watch, bounds, wrote>>

(* The observer raises: its stream, or the database, failed. *)
ObserverFails(e) ==
    /\ Yielded /\ mind.obs[e] = "watching" /\ "observer" \in setup.breaks /\ faults < MaxFaults /\ "error" \in setup.may
    /\ faults' = faults + 1
    /\ mind' = [mind EXCEPT !.obs[e] = "failed"]
    /\ UNCHANGED <<setup, record, client, watch, ends, retries, wrote>>

(* _wait gives the adaptive loop its chance when nothing is observed any more. *)
RestPlans(e) ==
    /\ Yielded /\ e \in mind.resting /\ mind.obs[e] = "none" /\ mind.plan[e] = "none"
    /\ Plannable(e) /\ e \notin mind.esc
    /\ mind' = [mind EXCEPT !.plan[e] = "rest"]
    /\ UNCHANGED <<setup, record, client, watch, bounds, wrote>>

(* _rest: nothing observed, nothing to plan.  With no await between the look and the record it  *)
(* writes what it saw, unless a request for the experiment, or the sweep, is halfway.           *)
Halfway(e) == e \in Busy

Stamp(e) == [seq |-> evs[e],
             why |-> IF e \in mind.esc THEN "escalated"
                     ELSE IF ~Quiescent(e) THEN "notRunning" ELSE "rested"]

Rest(e) ==
    /\ Yielded /\ e \in mind.resting /\ mind.obs[e] = "none" /\ mind.plan[e] = "none"
    /\ ~(Plannable(e) /\ e \notin mind.esc)
    /\ rests' = IF Halfway(e) THEN rests ELSE [rests EXCEPT ![e] = Stamp(e)]
    /\ mind' = [mind EXCEPT !.resting = @ \ {e}]
    /\ UNCHANGED <<setup, reqs, exps, acts, evs, client, watch, bounds, wrote>>

(* An observer's error is logged by the task that waits on it, which ends there. *)
RestFails(e) == /\ Yielded /\ e \in mind.resting /\ mind.obs[e] = "failed"
                /\ mind' = [mind EXCEPT !.resting = @ \ {e}]
                /\ UNCHANGED <<setup, record, client, watch, bounds, wrote>>

(***************************************************************************)
(* The specification                                                       *)
(***************************************************************************)

Init == /\ setup \in Setups
        /\ reqs = [r \in Rids |-> [state |-> "unsent", rev |-> 0, why |-> ""]]
        /\ exps = setup.exps /\ acts = setup.acts
        /\ evs = [e \in Exps |-> IF setup.exps[e].status = "none" THEN 0 ELSE 1]
        /\ rests = [e \in Exps |-> NoRest]
        /\ mind = Idle
        /\ client = [r \in Asked |-> "new"]
        /\ watch = [e \in Exps |-> "no"]
        /\ ends = 0 /\ faults = 0 /\ retries = 0
        /\ wrote = [r \in Rids |-> 0]

ClientStep == \/ \E r \in Asked : Send(r) \/ GiveUp(r) \/ Resend(r) \/ Confuse(r)
              \/ \E r \in Asked : HandedOff(r) \/ Joined(r)
              \/ \E e \in Exps : Wait(e) \/ Poll(e)

Mailbox == \/ PollMailbox \/ Take \/ BeginSweep \/ SweepNext
           \/ RefuseSubmit \/ Admit \/ Issue
           \/ RefuseAct \/ Record
           \/ AttachRefused \/ AttachDriven \/ Attach \/ AttachEscalates \/ AttachRecovers \/ AttachCancels \/ AttachPlans \/ SweepDone
           \/ Carry \/ Complete

Tasks(e) == \/ Planned(e) \/ RunIssued(e) \/ WorkEnds(e) \/ Continues(e)
            \/ RestPlans(e) \/ Rest(e) \/ RestFails(e)

Next == \/ ClientStep \/ Start \/ End \/ Mailbox \/ Falter
        \/ \E e \in Exps : Tasks(e) \/ PlanFails(e) \/ ObserverFails(e)

Spec == Init /\ [][Next]_vars

(* A daemon is started again, its event loop runs every task that is ready, a workload ends, and *)
(* a client that is waiting polls.  Nothing obliges a client to ask, or an error to happen.      *)
FairSpec == /\ Spec
            /\ WF_vars(Start) /\ WF_vars(Mailbox)
            /\ \A e \in ExpIds : WF_vars(e \in Exps /\ Tasks(e)) /\ WF_vars(e \in Exps /\ Poll(e))
            /\ \A r \in 1..MaxAsks : WF_vars(r \in Asked /\ (HandedOff(r) \/ Joined(r)))

(***************************************************************************)
(* What holds                                                              *)
(***************************************************************************)

(* The mailbox, the record and the session keep their shapes, and an experiment with an          *)
(* unsettled attempt is in the record (ControllerRequest, ControllerRest).                       *)
MailboxTypeOK ==
    /\ \A r \in Rids : reqs[r].state \in {"unsent", "pending", "accepted", "completed", "failed"}
                      /\ (reqs[r].state = "accepted" => Ask(r).kind = "submit")
    /\ \A e \in Exps : /\ exps[e].status \in {"none", "active", "ended", "cancelled"}
                       /\ exps[e].att \in {"none", "intended", "confirmed"}
                       /\ exps[e].att # "none" => exps[e].status = "active"
                       /\ rests[e].seq <= evs[e]
    /\ \A e \in mind.issuing : mind.plan[e] # "none"
    /\ \A r \in Asked : client[r] \in {"new", "waiting", "timedOut", "conflict", "joining",
                                       "returned", "raised"}

(* Whatever is repeated -- a client's retry, a poll after an error, a session after one that     *)
(* stopped half way -- the intent of a request is written once, and a submission's experiment    *)
(* and its ACCEPTED are one (admit_experiment; _act: "repeating it finds the intent already      *)
(* recorded").                                                                                   *)
IntentOnce == \A r \in Rids :
    /\ wrote[r] <= 1
    /\ Ask(r).kind = "submit" => (reqs[r].state \in {"accepted", "completed"} <=> wrote[r] = 1)

(* A request that is FAILED changed nothing: no experiment, Action or answer of it is on record  *)
(* (ControllerRequestFailedError: "Raised only by the step that records the request's intent,    *)
(* which writes nothing when it raises").  It does not hold: a proposal resolves the runtime     *)
(* before it finds the Action a session before it recorded.                                      *)
FailedChangedNothing == \A r \in Rids : reqs[r].state = "failed" => wrote[r] = 0

(* The same but for that proposal: a request is FAILED with its intent on record only when a     *)
(* session without the experiment's runtime took up a proposal that an earlier session recorded  *)
(* (_record_intent, _propose).                                                                   *)
FailedUnlessReplaced ==
    \A r \in Rids : (reqs[r].state = "failed" /\ wrote[r] # 0) =>
                       Ask(r).kind = "propose" /\ reqs[r].why = "noRuntime" /\ ends > 0

(* A request moves only along the edges of its kind, and no retry of a client takes it back:     *)
(* what it answered stays answered (record_controller_request, _move_request).                   *)
OnlyForward ==
    [][\A r \in Rids : reqs'[r] # reqs[r] =>
          \/ reqs[r].state = "unsent" /\ reqs'[r].state = "pending"
          \/ Allowed(Ask(r).kind, reqs[r].state, reqs'[r].state)]_vars

Driven(e) == mind.obs[e] \in {"watching", "continuing"} \/ mind.plan[e] # "none"

(* When a request is answered COMPLETED, its intent is on record and carried out, and whatever   *)
(* the experiment still has unsettled is driven by this session, or escalated, or its observer   *)
(* failed since: the caller may go away (_act: attach, then carry on, then complete).                                            *)
HandoffHonest ==
    [][\A r \in Rids : (reqs'[r].state = "completed" /\ reqs[r].state # "completed") =>
          LET e == Ask(r).exp
          IN  /\ exps[e].status # "none"
              /\ exps[e].att # "none" => Driven(e) \/ e \in mind.esc \/ mind.obs[e] = "failed"
              /\ Ask(r).kind \notin {"submit", "attach"} =>
                    /\ acts[Ask(r).act].st \notin {"none", "pending"} \/ Ask(r).kind = "propose"
                    /\ Ask(r).act \notin ToRecover(e)
                    /\ Ask(r).act \in ToCancel(e) => exps[e].att # "confirmed"]_vars

(* A cancellation recorded while the runtime's answer to a submission was awaited, and the answer *)
(* was a refusal: _settle_refused settles the attempt and not the saga, which the next attach of  *)
(* the experiment, or the next session, finds with nothing live.                                  *)
Unreconciled(e) == "reject" \in setup.may /\ Cancelling(e) /\ exps[e].att = "none"

(* A session that swept, met no error and is between requests drives all that the daemon took    *)
(* on, before it or before a restart, and that is not escalated, but for a cancellation that     *)
(* nothing but its own record is left of (sweep, daemon_responsibilities).                       *)
OwnedIsDriven ==
    (Free /\ mind.swept /\ mind.todo = <<>> /\ faults = 0 /\ ~mind.lacks) =>
        \A e \in Exps :
            (/\ exps[e].status = "active" /\ ~Quiescent(e)
             /\ exps[e].host = "daemon" \/ \E r \in Rids : Ask(r).exp = e /\ reqs[r].state = "completed") =>
                \/ Driven(e) \/ e \in mind.esc \/ Unreconciled(e)
                \/ \E r \in Rids : Unfinished(r) /\ Ask(r).exp = e

(* A wait() that returns a result returns from an experiment nothing moves any more: nobody      *)
(* observes it or plans for it, though the record looks settled between any two of its steps     *)
(* (_at_rest: "None while the daemon may still move it").                                        *)
WaitHonest == [][\A e \in Exps : (watch[e] = "waiting" /\ watch'[e] = "returned") =>
                                     Terminal(e) \/ ~Driven(e)]_vars

(* The same of a wait() that raises.  It does not hold: an attach that failed in passing leaves *)
(* a rest "not running" behind, the retry adopts the workload with no event, and the rest stays  *)
(* the latest.  So does the rest of a session that escalated, after a restart.                   *)
RaiseHonest ==
    [][\A e \in Exps : (watch[e] = "waiting" /\ watch'[e] = "raised") => ~Driven(e)]_vars

Outstanding(r) == setup.upgrade = FALSE /\ r \in Rids /\ Unfinished(r)
Awaits(e) == setup.upgrade = FALSE /\ e \in Owned /\ watch[e] = "waiting"
Hopes(e) == setup.breaks = {} /\ setup.upgrade = FALSE /\ e \in Owned /\ watch[e] = "waiting"

(* Every request in the mailbox is answered, whatever session finds it (process_requests).       *)
HandoffEnds == \A r \in 1..(2 * MaxAsks) : Outstanding(r) ~> ~Outstanding(r)

(* Every wait() on an experiment of the daemon's ends, by its result or by what stopped the      *)
(* controller (_rest_when_settled: "make sure something will record the next rest").             *)
WaitEnds == \A e \in ExpIds : Hopes(e) ~> ~Hopes(e)

(* The same when an observer may fail, or the startup reconciliation of one experiment: it does  *)
(* not hold, because nothing looks at that experiment again before the next request or restart.  *)
EveryWaitEnds == \A e \in ExpIds : Awaits(e) ~> ~Awaits(e)

(* The mailbox tells the truth: an intent is written once, a failed request changed nothing, but *)
(* for a replaced session's proposal, and what the daemon took on is driven.                     *)
RequestsHonest == MailboxTypeOK /\ IntentOnce /\ FailedUnlessReplaced /\ OwnedIsDriven

(* What a client is told is so when it is told.                                                  *)
AnswersHonest == OnlyForward /\ HandoffHonest /\ WaitHonest

(* Every request and every wait() ends.                                                          *)
ClientsAnswered == HandoffEnds /\ WaitEnds
=============================================================================
