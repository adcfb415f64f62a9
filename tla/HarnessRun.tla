----------------------------- MODULE HarnessRun -----------------------------
(***************************************************************************)
(* One execution of an agent harness (_Run in harness/runner.py), the      *)
(* events it records (EventRecorder in harness/recording.py), what makes a *)
(* recorded history well formed and in agreement with the published result *)
(* (core/trajectory.py), and the re-drive of a recorded history            *)
(* (harness/replay.py).                                                    *)
(*                                                                         *)
(* A run is a record r that the operators below take one step further:     *)
(* Turn and ToolTop ask whether to go on, Respond and Invoke take the      *)
(* answer of the model or of a tool.  A step adds the events it records to *)
(* r.ev; who makes them durable is TrajectoryStore's business.             *)
(*                                                                         *)
(* A text is its number of words, the runner's token count; a digest is    *)
(* the value it is the digest of.  A reply is                              *)
(*   [text |-> words, final |-> BOOLEAN, calls |-> Seq(ToolKinds)]         *)
(* and a tool's answer one of ToolAnswers.  Limits are numbers; None (no   *)
(* limit) is any number the run cannot reach.                              *)
(***************************************************************************)
EXTENDS Naturals, Sequences, FiniteSets, SequencesExt

\* A requested call: of an enabled tool with valid arguments, of a tool that
\* is not enabled, or with arguments its schema refuses.
ToolKinds == {"enabled", "disabled", "invalid"}

\* What a host's tool function may do.
ToolAnswers == {"text", "raise", "not-text"}

NoReply == [text |-> 0, final |-> FALSE, calls |-> <<>>]

\* COMPLETIONS
Completions == {"final-answer", "no-tool-call"}

-----------------------------------------------------------------------------
(* Events.  seq and parent are positions from 1; parent 0 is no parent. *)

Event(r, kind, parent, how, n, m, reply) ==
  [seq |-> Len(r.ev) + 1, kind |-> kind, parent |-> parent, how |-> how,
   n |-> n, m |-> m, reply |-> reply]

\* EventRecorder._record: appended to what the sink holds.
Record(r, kind, parent, how, n, m, reply) ==
  [r EXCEPT !.ev = Append(@, Event(r, kind, parent, how, n, m, reply))]

\* The last event recorded, the parent of a context change, of a model call
\* and of the ending.
LastOf(r) == Len(r.ev)

\* _Run.__init__ and run_started.
Begin ==
  LET r == [ev |-> <<>>, at |-> "turn", turns |-> 0, history |-> <<>>, pending |-> <<>>,
            from |-> 0, shown |-> 0, tools |-> 0, refused |-> 0, failed |-> 0, dropped |-> 0,
            prompt |-> 0, output |-> 0, answer |-> 0, term |-> "none"]
  IN Record(r, "run-started", 0, "", 0, 0, NoReply)

\* The HarnessRunResult of a run that is over; counted while it ran.
ResultOf(r) ==
  [term |-> r.term, turns |-> r.turns, tools |-> r.tools, refused |-> r.refused,
   failed |-> r.failed, dropped |-> r.dropped, prompt |-> r.prompt, output |-> r.output,
   answer |-> r.answer]

\* _Run.result: the run is over and says so; the event names the answer.
End(r, term) ==
  LET done == [r EXCEPT !.at = "done", !.term = term]
  IN Record(done, "run-terminated", LastOf(done), term, done.answer, 0, NoReply)

-----------------------------------------------------------------------------
(* The loop. *)

Words(turns) == FoldSeq(LAMBDA t, acc : t.words + acc, 0, turns)
Messages(turns) == 1 + FoldSeq(LAMBDA t, acc : t.messages + acc, 0, turns)

LastTurns(turns, k) == SubSeq(turns, Len(turns) - k + 1, Len(turns))

\* _context: the turns the model is shown.  The selection is the history or
\* its last `window` turns (0 is FullHistory).
Selected(r, h) ==
  IF h.window = 0 \/ h.window > Len(r.history) THEN r.history
  ELSE LastTurns(r.history, h.window)

Fits(turns, h) == h.fixed + Words(turns) <= h.maxContext

\* How many of the selected turns are kept: the oldest are dropped until the
\* rest fits, or until there is none left to drop.
Kept(sel, h) ==
  IF h.overflow = "fail" \/ Fits(sel, h) THEN Len(sel)
  ELSE LET fitting == {k \in 0..Len(sel) : Fits(LastTurns(sel, k), h)}
       IN IF fitting = {} THEN 0 ELSE CHOOSE k \in fitting : \A j \in fitting : j <= k

\* _truncated and the recent-turns change: what was left out, and by which rule.
ContextChange(r, rule, count) ==
  IF count = 0 THEN r
  ELSE Record(r, "context-changed", LastOf(r), rule, count, 0, NoReply)

\* The top of _execute's loop, up to the model call.
Turn(r, h, cancelled) ==
  IF cancelled THEN End(r, "cancelled")
  ELSE IF r.turns >= h.maxTurns THEN End(r, "max-turns")
  ELSE LET sel == Selected(r, h)
           kept == Kept(sel, h)
           shown == LastTurns(sel, kept)
           selected == ContextChange(r, "recent-turns", Len(r.history) - Len(sel))
           cut == [ContextChange(selected, "truncate-oldest", Len(sel) - kept)
                     EXCEPT !.dropped = @ + Len(sel) - kept]
       IN IF ~Fits(shown, h) THEN End(cut, "context-overflow")
          ELSE [Record(cut, "model-call-started", LastOf(cut), "", Messages(shown), r.turns,
                       NoReply)
                  EXCEPT !.at = "model", !.shown = h.fixed + Words(shown)]

\* _bounded_output: stop sequences and max_output_tokens.
Bounded(text, h) == IF text > h.maxOutput THEN h.maxOutput ELSE text

\* The model raised: a turn without a reply ends the run.
ModelFailed(r) ==
  End(Record(r, "model-call-finished", LastOf(r), "failed", 0, 0, NoReply), "model-error")

\* The model replied: counted, checked against the token budget, added to the
\* history, and the run ends or goes on with the tool calls.
Respond(r, h, reply) ==
  LET text == Bounded(reply.text, h)
      words == text + Len(reply.calls)
      counted == [r EXCEPT !.turns = @ + 1, !.prompt = @ + r.shown, !.output = @ + words]
      replied == [Record(counted, "model-call-finished", LastOf(counted), "replied", r.shown,
                         words, reply)
                    EXCEPT !.from = Len(r.ev) + 1]
      said == [replied EXCEPT !.history = Append(@, [words |-> words, messages |-> 1]),
                              !.pending = reply.calls]
  IN IF replied.prompt + replied.output > h.maxTokens THEN End(replied, "token-budget")
     ELSE IF reply.final /\ "final-answer" \in h.stopOn
          THEN End([said EXCEPT !.answer = text], "final-answer")
     ELSE IF reply.calls = <<>> /\ "no-tool-call" \in h.stopOn
          THEN End([said EXCEPT !.answer = text], "no-tool-call")
     ELSE [said EXCEPT !.at = IF reply.calls = <<>> THEN "turn" ELSE "tool"]

\* The top of the loop over the reply's tool calls.
ToolTop(r, h, cancelled) ==
  IF cancelled THEN End(r, "cancelled")
  ELSE IF r.tools >= h.maxToolCalls THEN End(r, "tool-call-budget")
  ELSE [Record([r EXCEPT !.tools = @ + 1], "tool-call-started", r.from, Head(r.pending),
               Len(r.ev[r.from].reply.calls) - Len(r.pending) + 1, 0, NoReply)
          EXCEPT !.at = "invoke"]

\* Whether _invoke gets as far as the tool function.
Runs(r) == Head(r.pending) = "enabled"

\* How a call ended: refused before it ran, or by what the tool did.
Outcome(r, answer) ==
  CASE Head(r.pending) = "disabled" -> "not-enabled"
    [] Head(r.pending) = "invalid" -> "invalid-arguments"
    [] answer = "raise" -> "tool-raised"
    [] answer = "not-text" -> "non-text-result"
    [] OTHER -> "executed"

Refusals == {"not-enabled", "invalid-arguments"}
Failures == {"tool-raised", "non-text-result"}

\* What the model is shown: a tool's text, cut to the limit, or a sentence
\* about the refusal or failure.
ShownWords(how, h) == IF how = "executed" /\ h.toolWords > h.maxToolResult
                      THEN h.maxToolResult ELSE h.toolWords

Tally(r, how) ==
  [r EXCEPT !.refused = @ + (IF how \in Refusals THEN 1 ELSE 0),
            !.failed = @ + (IF how \in Failures THEN 1 ELSE 0)]

Invoke(r, h, answer) ==
  LET how == Outcome(r, answer)
      words == ShownWords(how, h)
      last == Len(r.history)
      done == Record(Tally(r, how), "tool-call-finished", LastOf(r), how, words, 0, NoReply)
  IN [done EXCEPT
        !.history = [@ EXCEPT ![last] = [words |-> @.words + words, messages |-> @.messages + 1]],
        !.pending = Tail(@),
        !.at = IF Tail(r.pending) = <<>> THEN "turn" ELSE "tool"]

-----------------------------------------------------------------------------
(* What a history must be. *)

Kind(ev, k) == {i \in DOMAIN ev : ev[i].kind = k}

CanFollow == [k \in {"model-call-started", "context-changed"} |->
                {"run-started", "model-call-finished", "tool-call-finished", "context-changed"}]

\* _PARENT_KINDS
ParentKinds(k) ==
  CASE k \in {"model-call-started", "context-changed"} -> CanFollow[k]
    [] k = "model-call-finished" -> {"model-call-started"}
    [] k = "tool-call-started" -> {"model-call-finished"}
    [] k = "tool-call-finished" -> {"tool-call-started"}
    [] OTHER -> {"run-started", "model-call-started", "model-call-finished",
                 "tool-call-started", "tool-call-finished", "context-changed",
                 "error-observed"}

Finishes == {"model-call-finished", "tool-call-finished"}

\* structural_refusals finds nothing: one attempt's ordered, causal history.
Structured(ev) ==
  \A i \in DOMAIN ev :
    /\ ev[i].seq = i
    /\ (i = 1) <=> (ev[i].kind = "run-started")
    /\ i > 1 =>
         /\ ev[i - 1].kind # "run-terminated"
         /\ ev[i].parent \in 1..(i - 1)
         /\ ev[ev[i].parent].kind \in ParentKinds(ev[i].kind)
         /\ ev[i].kind \in Finishes =>
              ~\E j \in 1..(i - 1) : ev[j].kind \in Finishes /\ ev[j].parent = ev[i].parent
         /\ ev[i].kind = "tool-call-started" =>
              ev[i].n \in 1..Len(ev[ev[i].parent].reply.calls)

CountWhere(ev, k, hows) == Cardinality({i \in Kind(ev, k) : ev[i].how \in hows})
SumOf(ev, k, hows, Val(_)) ==
  FoldSeq(LAMBDA e, acc : acc + (IF e.kind = k /\ e.how \in hows THEN Val(e) ELSE 0), 0, ev)

\* _counts and result_disagreements: the result is the one these events tell of.
Agrees(ev, result) ==
  /\ ev # <<>> /\ Last(ev).kind = "run-terminated"
  /\ result.term = Last(ev).how
  /\ result.answer = Last(ev).n
  /\ result.turns = CountWhere(ev, "model-call-finished", {"replied"})
  /\ result.tools = Cardinality(Kind(ev, "tool-call-started"))
  /\ result.refused = CountWhere(ev, "tool-call-finished", Refusals)
  /\ result.failed = CountWhere(ev, "tool-call-finished", Failures)
  /\ result.dropped = SumOf(ev, "context-changed", {"truncate-oldest"}, LAMBDA e : e.n)
  /\ result.prompt = SumOf(ev, "model-call-finished", {"replied"}, LAMBDA e : e.n)
  /\ result.output = SumOf(ev, "model-call-finished", {"replied"}, LAMBDA e : e.m)

-----------------------------------------------------------------------------
(* Re-driving a recorded history. *)

\* _served: the recorded replies by turn, and the tools' answers in order.
ServedReplies(ev) == SelectSeq(ev, LAMBDA e : e.kind = "model-call-finished")

AnswerOf(how) == CASE how = "executed" -> "text"
                   [] how = "tool-raised" -> "raise"
                   [] OTHER -> "not-text"

ServedTools(ev) ==
  LET ran == SelectSeq(ev, LAMBDA e : e.kind = "tool-call-finished" /\ e.how \notin Refusals)
  IN [i \in DOMAIN ran |-> AnswerOf(ran[i].how)]

\* _CancelAt: set exactly where the recording was cancelled.
\* Mutant: one event late.
CancelLate(r, recorded) ==
  /\ recorded # <<>> /\ Last(recorded).how = "cancelled"
  /\ Len(r.ev) >= Len(recorded)

CancelAt(r, recorded) ==
  /\ recorded # <<>> /\ Last(recorded).how = "cancelled"
  /\ Len(r.ev) >= Len(recorded) - 1

\* _RecordedModel and _RecordedTools in the place of the model and the tools;
\* s is the run and the number of tools' answers served.
RedriveStep(s, h, recorded) ==
  LET r == s.run
      replies == ServedReplies(recorded)
      tools == ServedTools(recorded)
      answer == IF s.served < Len(tools) THEN tools[s.served + 1] ELSE "raise"
  IN CASE r.at = "turn" -> [s EXCEPT !.run = Turn(r, h, CancelAt(r, recorded))]
       [] r.at = "model" ->
            [s EXCEPT !.run = IF r.turns < Len(replies) /\ replies[r.turns + 1].how = "replied"
                              THEN Respond(r, h, replies[r.turns + 1].reply)
                              ELSE ModelFailed(r)]
       [] r.at = "tool" -> [s EXCEPT !.run = ToolTop(r, h, CancelAt(r, recorded))]
       [] r.at = "invoke" -> [run |-> Invoke(r, h, answer),
                              served |-> s.served + (IF Runs(r) THEN 1 ELSE 0)]
       [] OTHER -> s

\* The run a re-drive makes; every step but the last records something, so
\* twice as many steps as a run can have events are enough.
Redrive(h, recorded) ==
  LET bound == 4 * (h.maxTurns + 1) * (h.maxToolCalls + 2)
      f[k \in 0..bound] ==
        IF k = 0 THEN [run |-> Begin, served |-> 0] ELSE RedriveStep(f[k - 1], h, recorded)
  IN f[bound].run.ev

\* replay_projection_v1 compares everything but the replies themselves, which
\* a re-drive is served; first_divergence finds nothing.
Projection(ev) == [i \in DOMAIN ev |-> [ev[i] EXCEPT !.reply = NoReply]]

\* verify_replay on a complete trajectory.
Equivalent(h, recorded) == Projection(Redrive(h, recorded)) = Projection(recorded)

\* verify_replay on a partial one: without the writer's own notes of errors,
\* what is left is how the re-drive begins.
PrefixEquivalent(h, recorded) ==
  LET decided == SelectSeq(recorded, LAMBDA e : e.kind # "error-observed")
  IN IsPrefix(Projection(decided), Projection(Redrive(h, recorded)))
=============================================================================
