------------------------------ MODULE Planning ------------------------------
(***************************************************************************)
(* What an experiment tries next.  The adaptive driver                     *)
(* (experiment/host.py, _continue_adaptive_experiment) binds the recorded  *)
(* planner, reads the planning context, asks for a proposal and branches   *)
(* it; the planners are RuleBasedPlanner and NoOpPlanner                   *)
(* (planning/__init__.py), SearchPlanner over a SequentialSearchProvider   *)
(* (search/__init__.py, core/domain/search.py) and LLMPlanner              *)
(* (planning/llm.py) with its journal of model invocations                 *)
(* (core/domain/agent_invocation.py, storage/agent_invocations.py).        *)
(*                                                                         *)
(* A planner keeps nothing: a search replays a freshly seeded algorithm    *)
(* over the record for every suggestion, and a model's answer is recorded  *)
(* before anything is derived from it.  Several hosts plan on one          *)
(* database; another may commit between any two steps of a pass, and a     *)
(* process may stop anywhere and come back as another build.               *)
(*                                                                         *)
(* A candidate is the rank of its adapter, the one field that the rules    *)
(* and the search space here vary.  Training, evaluation and the decision  *)
(* on a node are ExperimentLifecycle's: here a node ends once.             *)
(***************************************************************************)
EXTENDS Integers, Sequences, FiniteSets, SequencesExt

CONSTANTS
  Hosts,
  Setups,          \* how the experiment is planned and by whom: see PlanningAssumption
  Base,            \* the root's candidate
  Space,           \* the values the searched parameter may take
  Suggest(_, _),   \* an engine's next value after what it was told; 0: exhausted
  Rules,           \* the rule-based planner's rules, in order
  Values,          \* what a candidate may measure
  MaxDuplicates,   \* max_consecutive_duplicates
  Rounds,          \* _ADAPTIVE_ROUNDS
  Runnable,        \* the candidates the recorded compiler supports
  Quota            \* max_runs of the budget

Builds == {"recorded", "other", "asks", "derives"}
Kinds == {"llm", "search", "rule-based", "no-op"}

ASSUME PlanningAssumption ==
  /\ Base \in Nat /\ Space \subseteq Nat \ {0} /\ Values \subseteq Nat \ {0}
  /\ Rules \in Seq([factor : Nat \ {0, 1}, max : Nat \ {0}])
  /\ {MaxDuplicates, Rounds, Quota} \subseteq Nat
  \* builds may come back after a crash, crashes bounds them and attach()
  \* calls, hand the nodes made by hand, swaps the changes of a live model,
  \* seeded says whether the root's run has a seed.
  /\ \A s \in Setups : /\ s.kind \in Kinds /\ s.hosts \subseteq Hosts /\ s.builds \subseteq Builds
                       /\ {s.crashes, s.hand, s.swaps} \subseteq Nat /\ s.seeded \in BOOLEAN

VARIABLES
  setup,
  exp,        \* Experiment.status
  nodes,      \* the experiment's nodes, in order of creation
  journal,    \* agent_invocations, in order of insertion
  up,         \* per host: alive
  build,      \* per host: the code it runs, as the record sees it
  served,     \* per host: the live agent model still is the bound one
  due,        \* per host: the adaptive loop is to be run
  esc,        \* per host: _escalations holds the experiment
  pass,       \* per host: where its adaptive pass is
  proposed,   \* history: <<context, proposal>> for every proposal made
  faults      \* crashes, nodes by hand and swaps so far

record == <<exp, nodes, journal>>
vars == <<setup, record, up, build, served, due, esc, pass, proposed, faults>>

NoOrigin == <<>>
NoProposal == <<>>
NoInvocation == [at |-> 0, status |-> "INTENDED", rev |-> 0, answer |-> "none", prop |-> NoProposal]
Idle == [at |-> "idle", ctx |-> <<>>, inv |-> NoInvocation, prop |-> NoProposal, round |-> 0]

\* seeded: it has one training run, with a seed, which a child's can inherit
\* once it succeeded.
Node(c, parents, origin, s, seeded) ==
  [cand |-> c, parents |-> parents, origin |-> origin, status |-> s, value |-> 0,
   seeded |-> seeded]

Init ==
  /\ setup \in Setups
  /\ exp = "ACTIVE"
  /\ nodes = <<Node(Base, {}, NoOrigin, "ACTIVE", setup.seeded)>>
  /\ journal = <<>>
  /\ up = [h \in Hosts |-> h \in setup.hosts]
  /\ build = [h \in Hosts |-> "recorded"]
  /\ served = [h \in Hosts |-> TRUE]
  /\ due = [h \in Hosts |-> FALSE]
  /\ esc = [h \in Hosts |-> FALSE]
  /\ pass = [h \in Hosts |-> Idle]
  /\ proposed = {}
  /\ faults = [crashes |-> 0, hand |-> 0, swaps |-> 0]

-----------------------------------------------------------------------------
(* The planning context. *)

Context == [exp |-> exp, nodes |-> nodes]

\* planning_context_identity_v1, which a model is shown: no branch origins.
ModelContext(ctx) ==
  <<ctx.exp, [i \in DOMAIN ctx.nodes |->
                LET n == ctx.nodes[i] IN <<n.cand, n.parents, n.status, n.value>>]>>

\* planning_context_identity_v2.  A node's origin is written with it and never
\* changes, so that it has one stands for what it says.
InputFingerprint(ctx) ==
  <<ModelContext(ctx), {i \in DOMAIN ctx.nodes : ctx.nodes[i].origin # NoOrigin}>>

\* settled_for_planning: COMPLETED by a BRANCH, REJECTED by a REJECT.
SettledForPlanning(n) == n.status \in {"COMPLETED", "REJECTED"}

PlanningStage(ctx) ==
  /\ ctx.exp = "ACTIVE" /\ ctx.nodes # <<>>
  /\ \A i \in DOMAIN ctx.nodes : SettledForPlanning(ctx.nodes[i])

\* A run is reserved once its node leaves PLANNED.
BudgetExhausted(ctx) ==
  Cardinality({i \in DOMAIN ctx.nodes : ctx.nodes[i].status # "PLANNED"}) >= Quota

Existing(ctx) == {ctx.nodes[i].cand : i \in DOMAIN ctx.nodes}

-----------------------------------------------------------------------------
(* The rule-based planner. *)

\* IncreaseLoRARank.mutate: 0 when the rank would not grow.
Mutate(rule, rank) ==
  LET grown == IF rank * rule.factor < rule.max THEN rank * rule.factor ELSE rule.max
  IN IF grown > rank THEN grown ELSE 0

\* A parent is COMPLETED and measured exactly once; ties go to the lower id.
BestParent(ctx) ==
  LET eligible == {i \in DOMAIN ctx.nodes :
                     ctx.nodes[i].status = "COMPLETED" /\ ctx.nodes[i].value # 0}
      best == {i \in eligible : \A j \in eligible : ctx.nodes[i].value >= ctx.nodes[j].value}
  IN {i \in best : \A j \in best : i <= j}

\* The first rule that gives a candidate the experiment does not have.
FirstRule(ctx, i) ==
  LET new(r) == Mutate(Rules[r], ctx.nodes[i].cand) \notin Existing(ctx) \cup {0}
  IN {r \in DOMAIN Rules : new(r) /\ \A q \in 1..(r - 1) : ~new(q)}

RuleProposals(ctx) ==
  UNION {{[cand |-> Mutate(Rules[r], ctx.nodes[i].cand), parents |-> {i},
           origin |-> [planner |-> "rule-based", rule |-> r, ctx |-> InputFingerprint(ctx)]] :
            r \in FirstRule(ctx, i)} : i \in BestParent(ctx)}

-----------------------------------------------------------------------------
(* The search: a fresh algorithm, replayed over the record. *)

NoObservation == <<"none", 0>>

\* observation_of: what the record says became of a node.
ObservationOf(n) ==
  CASE n.status = "REJECTED" -> <<"rejected", 0>>
    [] n.status = "COMPLETED" /\ n.value = 0 -> <<"unmeasured", 0>>
    [] n.status = "COMPLETED" /\ n.value # 0 -> <<"measured", n.value>>
    [] OTHER -> NoObservation

\* The first node of a candidate.
NodeOf(ctx, c) ==
  CHOOSE i \in DOMAIN ctx.nodes :
    ctx.nodes[i].cand = c /\ \A j \in 1..(i - 1) : ctx.nodes[j].cand # c
Observed(ctx, c) == ObservationOf(ctx.nodes[NodeOf(ctx, c)])

\* _base: one root, and every other node its child alone.
SearchableRecord(ctx) ==
  /\ Cardinality({i \in DOMAIN ctx.nodes : ctx.nodes[i].parents = {}}) = 1
  /\ \A i \in DOMAIN ctx.nodes \ {1} : ctx.nodes[i].parents = {1}

\* SearchContext._ordered_and_unique: a candidate that appears twice.
HasTwins(ctx) ==
  \E i, j \in DOMAIN ctx.nodes : i # j /\ ctx.nodes[i].cand = ctx.nodes[j].cand

\* One suggestion that was replayed: its candidate, what the algorithm was
\* told of it, and as what.
Entry(c, feedback, obs) == [cand |-> c, feedback |-> feedback, obs |-> obs]

Entries == [cand : Space, feedback : {"trial", "duplicate"},
            obs : {"none", "measured", "unmeasured", "rejected"} \X (Values \cup {0})]

Known(hist) == {Base} \cup {hist[i].cand : i \in DOMAIN hist}
Told(hist) == [i \in DOMAIN hist |-> hist[i].obs]
ToldBefore(hist, c) ==
  IF c = Base THEN NoObservation
  ELSE hist[CHOOSE i \in DOMAIN hist : hist[i].cand = c /\ hist[i].feedback = "trial"].obs

\* How many suggestions in a row were not new.
Duplicates(hist) ==
  Len(hist) - Max({0} \cup {i \in DOMAIN hist : hist[i].feedback = "trial"})

\* _record_of: what a proposal says of the search that made it.
SearchRecord(engine, hist, c) ==
  [planner |-> "search", engine |-> engine, index |-> Len(hist), cand |-> c, hist |-> hist]

\* Mutant: an equal candidate is taken for a trial.
EqualCandidate(ctx, engine, hist, c) == c \in Existing(ctx)

\* _require_proposed_here: the node's origin proves that this search proposed
\* it, at this index, after this history.
ProposedHere(ctx, engine, hist, c) ==
  LET origin == ctx.nodes[NodeOf(ctx, c)].origin
  IN origin # NoOrigin /\ origin.search = SearchRecord(engine, hist, c)

\* _require_all_matched.
AllMatched(ctx, known) == Existing(ctx) \subseteq known

Refuse == [as |-> "refused", cand |-> 0, hist |-> <<>>]
Nothing == [as |-> "nothing", cand |-> 0, hist |-> <<>>]
Unless(matched) == IF matched THEN Nothing ELSE Refuse

\* apply_parameters: the base with the field set, if the value is in its domain.
Applies(value) == value \in Space

\* _replay: suggestion after suggestion of a fresh algorithm, until one is new.
Replay(ctx, engine) ==
  LET from[hist \in Seq(Entries)] ==
        LET c == Suggest(engine, Told(hist))
            known == Known(hist)
            told == Append(hist, Entry(c, "duplicate", ToldBefore(hist, c)))
        IN CASE c = 0 -> Unless(AllMatched(ctx, known))
             [] c # 0 /\ ~Applies(c) -> Refuse
             [] Applies(c) /\ c \in known ->
                  IF Duplicates(told) > MaxDuplicates THEN Unless(AllMatched(ctx, known))
                  ELSE from[told]
             [] Applies(c) /\ c \in Existing(ctx) \ known ->
                  IF ~ProposedHere(ctx, engine, hist, c) THEN Refuse
                  ELSE IF Observed(ctx, c) = NoObservation
                  THEN Unless(AllMatched(ctx, known \cup {c}))
                  ELSE from[Append(hist, Entry(c, "trial", Observed(ctx, c)))]
             [] OTHER ->
                  IF AllMatched(ctx, known) THEN [as |-> "new", cand |-> c, hist |-> hist]
                  ELSE Refuse
  IN from[<<>>]

SearchProposal(ctx, engine, next) ==
  [cand |-> next.cand, parents |-> {1},
   origin |-> [planner |-> "search", ctx |-> InputFingerprint(ctx),
               search |-> SearchRecord(engine, next.hist, next.cand)]]

-----------------------------------------------------------------------------
(* The journal of model invocations. *)

\* A bound planner builds one request per context, unless its code drifted.
Request(h, ctx) == <<ModelContext(ctx), build[h] = "asks">>

RoundOf(round) == {i \in DOMAIN journal : journal[i].round = round}

\* latest_for_round, 0 for none.
Latest(round) == Max({0} \cup RoundOf(round))

Answered == {"ANSWERED", "COMPLETED", "REFUSED"}

Invocation(round, req) ==
  [round |-> round, req |-> req, status |-> "INTENDED", rev |-> 0, answer |-> "none",
   prop |-> NoProposal]

\* next_invocation: an attempt still INTENDED when the next begins has no
\* known outcome.
Closed(last) ==
  IF last # 0 /\ journal[last].status = "INTENDED"
  THEN [journal EXCEPT ![last].status = "OUTCOME_UNKNOWN", ![last].rev = @ + 1]
  ELSE journal

\* Mutant: written without the revision guard.
UnmovedOrNot(inv) == inv.at \in DOMAIN journal

\* AgentInvocationStore._update: the record has not moved since it was read.
Unmoved(inv) == journal[inv.at].rev = inv.rev

Moved(inv, s, answer, prop) ==
  [journal EXCEPT ![inv.at] =
     [journal[inv.at] EXCEPT !.status = s, !.rev = @ + 1, !.answer = answer, !.prop = prop]]

\* The invocation as the planner that just wrote or read it holds it.
Held(j, i) ==
  [at |-> i, status |-> j[i].status, rev |-> j[i].rev, answer |-> j[i].answer, prop |-> j[i].prop]

-----------------------------------------------------------------------------
(* An adaptive pass. *)

\* LLMPlanner.__init__: the model, the prompt text and every allowed action's
\* contract are the recorded ones.
BindsModel(h) == served[h] /\ build[h] # "other"

\* The search engine that a build installs.
Engine(h) == IF build[h] = "other" THEN "other" ELSE "recorded"

\* SequentialSearchProvider.__init__: the engine is the recorded one.
BindsEngine(h) == Engine(h) = "recorded"

\* _bound_spec: the planner's version is the recorded one.
BindsVersion(h) == build[h] # "other"

\* _recorded_planner.
Binds(h) ==
  /\ setup.kind = "llm" => BindsModel(h)
  /\ setup.kind = "search" => BindsEngine(h)
  /\ BindsVersion(h)

Leave(h) == pass' = [pass EXCEPT ![h] = Idle]
Escalate(h) == Leave(h) /\ esc' = [esc EXCEPT ![h] = TRUE]
Goto(h, p) == pass' = [pass EXCEPT ![h] = p] /\ UNCHANGED esc

At(h, where) == up[h] /\ pass[h].at = where

\* The lock is free: an attach() or an observer runs the loop.
Enter(h) ==
  /\ At(h, "idle") /\ due[h]
  /\ due' = [due EXCEPT ![h] = FALSE]
  /\ IF esc[h] THEN UNCHANGED pass ELSE pass' = [pass EXCEPT ![h] = [Idle EXCEPT !.at = "loop"]]
  /\ UNCHANGED <<setup, record, up, build, served, esc, proposed, faults>>

Planned == {i \in DOMAIN nodes : nodes[i].status = "PLANNED"}

\* A node trains, is evaluated or decided on.
AtWork == \E i \in DOMAIN nodes : nodes[i].status = "ACTIVE"

\* Nodes branched from a proposal that wait for their run.
Branched == {i \in Planned : nodes[i].origin # NoOrigin}

\* _seed_source: the seed of the parent's one successful run.
SeedSource(i) ==
  \E j \in DOMAIN nodes :
    nodes[i].parents = {j} /\ nodes[j].seeded /\ nodes[j].status \in {"COMPLETED", "REJECTED"}

\* What _realize_planned_candidate refuses before it writes anything: several
\* nodes to choose from, another planner than the recorded one, a candidate
\* the compiler does not support, no seed to inherit.
Refuses(h) ==
  \/ Cardinality(Branched) > 1
  \/ ~Binds(h)
  \/ \E i \in Branched : nodes[i].cand \notin Runnable \/ ~SeedSource(i)

\* exhaust_budget: not while a workload of the experiment is live, which a
\* node at work may have or not.
Exhaust ==
  \/ exp' = "BUDGET_EXHAUSTED"
  \/ AtWork /\ UNCHANGED exp

\* next_stage "training": only a node the recorded planner branched is run; a
\* node planned by hand waits for whoever planned it.  A full experiment is
\* polled, which changes nothing.
Realize(h) ==
  CASE Branched = {} -> Leave(h) /\ UNCHANGED <<exp, nodes, esc>>
    [] Branched # {} /\ Refuses(h) -> Escalate(h) /\ UNCHANGED <<exp, nodes>>
    [] Branched # {} /\ ~Refuses(h) /\ BudgetExhausted(Context) ->
         Exhaust /\ Leave(h) /\ UNCHANGED <<nodes, esc>>
    [] OTHER ->
         /\ nodes' = [i \in DOMAIN nodes |->
                        IF i \in Branched THEN [nodes[i] EXCEPT !.status = "ACTIVE"] ELSE nodes[i]]
         /\ Leave(h) /\ UNCHANGED <<exp, esc>>

Loop(h) ==
  /\ At(h, "loop")
  /\ \/ /\ exp # "ACTIVE" \/ pass[h].round = Rounds
        /\ Leave(h) /\ UNCHANGED <<exp, nodes, esc>>
     \/ \* an evaluation or a decision comes before a planned node's run
        /\ exp = "ACTIVE" /\ Planned # {} /\ AtWork
        /\ Leave(h) /\ UNCHANGED <<exp, nodes, esc>>
     \/ /\ exp = "ACTIVE" /\ pass[h].round < Rounds
        /\ IF Planned # {} THEN Realize(h)
           ELSE IF ~PlanningStage(Context) THEN Leave(h) /\ UNCHANGED <<exp, nodes, esc>>
           ELSE IF BudgetExhausted(Context)
           THEN exp' = "BUDGET_EXHAUSTED" /\ Leave(h) /\ UNCHANGED <<nodes, esc>>
           ELSE /\ IF Binds(h) THEN Goto(h, [pass[h] EXCEPT !.at = "plan"]) ELSE Escalate(h)
                /\ UNCHANGED <<exp, nodes>>
  /\ UNCHANGED <<setup, journal, up, build, served, due, proposed, faults>>

\* repository.planning_context.
ReadContext(h) ==
  /\ At(h, "plan")
  /\ pass' = [pass EXCEPT ![h] = [@ EXCEPT !.at = "propose", !.ctx = Context]]
  /\ UNCHANGED <<setup, record, up, build, served, due, esc, proposed, faults>>

\* A planner proposes nothing outside the planning stage, or with no budget.
ItsTurn(ctx) == PlanningStage(ctx) /\ ~BudgetExhausted(ctx)

Proposes(h, p) ==
  /\ proposed' = proposed \cup {<<InputFingerprint(pass[h].ctx), p>>}
  /\ Goto(h, [pass[h] EXCEPT !.at = "branch", !.prop = p])

\* propose() of the planners that ask no model.
Propose(h) ==
  LET ctx == pass[h].ctx
      next == Replay(ctx, Engine(h))
  IN /\ At(h, "propose") /\ setup.kind # "llm"
     /\ CASE ~ItsTurn(ctx) \/ setup.kind = "no-op" -> Leave(h) /\ UNCHANGED <<esc, proposed>>
          [] ItsTurn(ctx) /\ setup.kind = "rule-based" ->
               IF RuleProposals(ctx) = {} THEN Leave(h) /\ UNCHANGED <<esc, proposed>>
               ELSE \E p \in RuleProposals(ctx) : Proposes(h, p)
          [] OTHER ->
               IF SearchableRecord(ctx) /\ HasTwins(ctx)
               THEN Leave(h) /\ UNCHANGED <<esc, proposed>>       \* a ValidationError, uncaught
               ELSE IF ~SearchableRecord(ctx) \/ next.as = "refused"
               THEN Escalate(h) /\ UNCHANGED proposed
               ELSE IF next.as = "nothing" THEN Leave(h) /\ UNCHANGED <<esc, proposed>>
               ELSE Proposes(h, SearchProposal(ctx, Engine(h), next))
     /\ UNCHANGED <<setup, record, up, build, served, due, faults>>

\* LLMPlanner.propose up to the model: the invocation is begun in one
\* transaction, replayed when the round has its answer.
Begin(h) ==
  LET ctx == pass[h].ctx
      round == ModelContext(ctx)
      last == Latest(round)
  IN /\ At(h, "propose") /\ setup.kind = "llm"
     /\ CASE ~ItsTurn(ctx) -> Leave(h) /\ UNCHANGED <<journal, esc>>
          [] ItsTurn(ctx) /\ ~served[h] -> Escalate(h) /\ UNCHANGED journal
          [] ItsTurn(ctx) /\ served[h] /\ last # 0 /\ journal[last].req # Request(h, ctx) ->
               Escalate(h) /\ UNCHANGED journal                  \* AgentInvocationConflictError
          [] ItsTurn(ctx) /\ served[h] /\ last # 0 /\ journal[last].req = Request(h, ctx)
               /\ journal[last].status \in Answered ->
               /\ Goto(h, [pass[h] EXCEPT !.at = "derive", !.inv = Held(journal, last)])
               /\ UNCHANGED journal
          [] OTHER ->
               /\ journal' = Append(Closed(last), Invocation(round, Request(h, ctx)))
               /\ Goto(h, [pass[h] EXCEPT !.at = "ask", !.inv = Held(journal', Len(journal) + 1)])
     /\ UNCHANGED <<setup, exp, nodes, up, build, served, due, proposed, faults>>

\* A transition of the invocation in hand, refused when another moved it.
Settle(h, s, answer, prop, next) ==
  LET inv == pass[h].inv
  IN IF Unmoved(inv)
     THEN /\ journal' = Moved(inv, s, answer, prop)
          /\ IF next = "escalate" THEN Escalate(h)
             ELSE Goto(h, [pass[h] EXCEPT !.at = next, !.inv = Held(journal', inv.at)])
     ELSE Leave(h) /\ UNCHANGED <<journal, esc>>                 \* ConcurrentModificationError

\* invoke_agent_model: no answer, one that is not what was asked for, or one
\* that proposes nothing, an allowed action, or what it may not name.
Replies == {"none", "malformed", "nothing", "act", "foreign"}

\* _ask: what came of the call is recorded before going on; an answer from a
\* model that is no longer the bound one is recorded and not used.
Ask(h) ==
  /\ At(h, "ask")
  /\ \E a \in Replies :
       CASE a = "none" -> Settle(h, "FAILED", a, NoProposal, "escalate")
         [] a = "malformed" -> Settle(h, "REFUSED", a, NoProposal, "escalate")
         [] a \notin {"none", "malformed"} /\ ~served[h] ->
              Settle(h, "FAILED", a, NoProposal, "escalate")
         [] OTHER -> Settle(h, "ANSWERED", a, NoProposal, "derive")
  /\ UNCHANGED <<setup, exp, nodes, up, build, served, due, proposed, faults>>

\* _action, _evidence: what an answer names is allowed and in the context.
Nameable(answer) == answer # "foreign"

\* _derive, of an answer that names only what it may.
Derived(h, answer) ==
  IF answer = "act" THEN [round |-> ModelContext(pass[h].ctx), act |-> build[h] # "derives"]
  ELSE NoProposal

\* require_derived_from, then the escalation: no action is created.
Report(h, p) ==
  /\ journal[pass[h].inv.at].status = "COMPLETED"
  /\ journal[pass[h].inv.at].prop = p
  /\ proposed' = proposed \cup {<<p.round, p>>}
  /\ Escalate(h)

\* _settle_derivation: from the recorded answer alone.
Derive(h) ==
  LET inv == pass[h].inv
      p == Derived(h, inv.answer)
  IN /\ At(h, "derive")
     /\ CASE inv.status = "REFUSED" -> Escalate(h) /\ UNCHANGED <<journal, proposed>>
          [] inv.status = "ANSWERED" /\ ~Nameable(inv.answer) ->
               Settle(h, "REFUSED", inv.answer, NoProposal, "escalate") /\ UNCHANGED proposed
          [] inv.status = "ANSWERED" /\ Nameable(inv.answer) ->
               Settle(h, "COMPLETED", inv.answer, p, "derive") /\ UNCHANGED proposed
          [] OTHER ->
               \* AgentInvocationMismatchError: the recorded answer derives something else now.
               /\ IF inv.prop # p THEN Escalate(h) /\ UNCHANGED proposed
                  ELSE IF p = NoProposal THEN Leave(h) /\ UNCHANGED <<esc, proposed>>
                  ELSE Report(h, p)
               /\ UNCHANGED journal
     /\ UNCHANGED <<setup, exp, nodes, up, build, served, due, faults>>

\* An error of xaytune's own while deriving: the record stays as it is.
DeriveFails(h) ==
  /\ At(h, "derive") /\ pass[h].inv.status = "ANSWERED"
  /\ Escalate(h)
  /\ UNCHANGED <<setup, record, up, build, served, due, proposed, faults>>

\* materialize_candidate_proposal, in its write transaction.
Branch(h) ==
  LET p == pass[h].prop
      same == {i \in DOMAIN nodes : nodes[i].cand = p.cand}
      known == nodes[NodeOf(Context, p.cand)].origin = p.origin
      again == [pass[h] EXCEPT !.at = "loop", !.round = @ + 1, !.ctx = <<>>, !.prop = NoProposal]
  IN /\ At(h, "branch")
     /\ IF same # {}
        THEN /\ IF known THEN Goto(h, again) ELSE Escalate(h)
             /\ UNCHANGED nodes
        ELSE IF exp # "ACTIVE" THEN Escalate(h) /\ UNCHANGED nodes
        ELSE IF InputFingerprint(pass[h].ctx) # InputFingerprint(Context)
        THEN Goto(h, again) /\ UNCHANGED nodes                   \* StaleProposalError
        ELSE /\ nodes' = Append(nodes, Node(p.cand, p.parents, p.origin, "PLANNED", TRUE))
             /\ Goto(h, again)
     /\ UNCHANGED <<setup, exp, journal, up, build, served, due, proposed, faults>>

-----------------------------------------------------------------------------
(* Everything else that happens to the experiment and its hosts. *)

\* A node ends: decided BRANCH or REJECT, or STOP, which ends the experiment.
EndNode(i) ==
  /\ nodes[i].status = "ACTIVE" /\ exp = "ACTIVE"
  /\ \/ \E v \in Values \cup {0} :
          nodes' = [nodes EXCEPT ![i].status = "COMPLETED", ![i].value = v] /\ UNCHANGED exp
     \/ nodes' = [nodes EXCEPT ![i].status = "REJECTED"] /\ UNCHANGED exp
     \/ nodes' = [nodes EXCEPT ![i].status = "STOPPED"] /\ exp' = "SUCCEEDED"
  /\ due' = [h \in Hosts |-> up[h]]
  /\ UNCHANGED <<setup, journal, up, build, served, esc, pass, proposed, faults>>

\* create_node: a node no planner proposed, of any candidate, one the
\* experiment has included, run by whoever made it, or not yet.
CreateNode ==
  /\ faults.hand < setup.hand
  /\ \E c \in Space, ps \in {{}} \cup {{i} : i \in DOMAIN nodes}, s \in {"PLANNED", "ACTIVE"},
        seeded \in BOOLEAN :
       /\ seeded => s = "ACTIVE"
       /\ nodes' = Append(nodes, Node(c, ps, NoOrigin, s, seeded))
  /\ faults' = [faults EXCEPT !.hand = @ + 1]
  /\ UNCHANGED <<setup, exp, journal, up, build, served, due, esc, pass, proposed>>

\* The live agent model's descriptor changes.
SwapModel(h) ==
  /\ up[h] /\ faults.swaps < setup.swaps
  /\ served' = [served EXCEPT ![h] = ~@]
  /\ faults' = [faults EXCEPT !.swaps = @ + 1]
  /\ UNCHANGED <<setup, record, up, build, due, esc, pass, proposed>>

Crash(h) ==
  /\ up[h] /\ faults.crashes < setup.crashes
  /\ up' = [up EXCEPT ![h] = FALSE]
  /\ pass' = [pass EXCEPT ![h] = Idle]
  /\ due' = [due EXCEPT ![h] = FALSE]
  /\ esc' = [esc EXCEPT ![h] = FALSE]
  /\ served' = [served EXCEPT ![h] = TRUE]
  /\ faults' = [faults EXCEPT !.crashes = @ + 1]
  /\ UNCHANGED <<setup, record, build, proposed>>

\* Mutant: attaching does not run the adaptive loop.
RestartQuietly(h) ==
  /\ ~up[h] /\ h \in setup.hosts
  /\ up' = [up EXCEPT ![h] = TRUE]
  /\ \E b \in setup.builds : build' = [build EXCEPT ![h] = b]
  /\ UNCHANGED <<setup, record, served, due, esc, pass, proposed, faults>>

\* A new process attaches, of whatever build is installed by then.
Restart(h) ==
  /\ ~up[h] /\ h \in setup.hosts
  /\ up' = [up EXCEPT ![h] = TRUE]
  /\ due' = [due EXCEPT ![h] = TRUE]
  /\ \E b \in setup.builds : build' = [build EXCEPT ![h] = b]
  /\ UNCHANGED <<setup, record, served, esc, pass, proposed, faults>>

Step(h) ==
  \/ Enter(h) \/ Loop(h) \/ ReadContext(h) \/ Propose(h) \/ Begin(h) \/ Ask(h) \/ Derive(h)
  \/ Branch(h)

Next ==
  \/ \E h \in Hosts : Step(h) \/ DeriveFails(h) \/ SwapModel(h) \/ Crash(h) \/ Restart(h)
  \/ \E i \in DOMAIN nodes : EndNode(i)
  \/ CreateNode

Spec == Init /\ [][Next]_vars

\* A host that runs takes its steps, a model call returns or raises, a
\* process that died is started again, and a run ends.
FairSpec ==
  /\ Spec
  /\ \A h \in Hosts : WF_vars(Step(h)) /\ WF_vars(Restart(h))
  /\ WF_vars(\E i \in DOMAIN nodes : EndNode(i))

-----------------------------------------------------------------------------
(* Properties. *)

\* The values the variables may take.
TypeOK ==
  /\ setup \in Setups /\ exp \in {"ACTIVE", "SUCCEEDED", "BUDGET_EXHAUSTED"}
  /\ \A i \in DOMAIN nodes :
       nodes[i].status \in {"PLANNED", "ACTIVE", "COMPLETED", "REJECTED", "STOPPED"}
  /\ \A i \in DOMAIN journal :
       journal[i].status \in Answered \cup {"INTENDED", "FAILED", "OUTCOME_UNKNOWN"}
  /\ \A h \in Hosts :
       /\ pass[h].at \in {"idle", "loop", "plan", "propose", "ask", "derive", "branch"}
       /\ build[h] \in Builds

\* A planning round is answered once: whatever hosts ask at the same time, die
\* during the call or come back, only its last attempt can hold an answer
\* (begin_agent_invocation and the revision guard of _update together).
AnsweredOnce ==
  \A i, j \in DOMAIN journal :
    i < j /\ journal[i].round = journal[j].round
      => journal[i].status \in {"FAILED", "OUTCOME_UNKNOWN"}

\* An action proposal that was reported is the one a completed invocation of
\* its round recorded, derived from an answer of the model it names.
ProposalsOnRecord ==
  setup.kind = "llm" =>
    \A x \in proposed : \E i \in DOMAIN journal :
      /\ journal[i].status = "COMPLETED" /\ journal[i].answer = "act"
      /\ journal[i].round = x[1] /\ journal[i].prop = x[2]

\* The journal never lets a round be answered twice, nor a proposal appear
\* that no recorded answer made.
JournalSound == TypeOK /\ AnsweredOnce /\ ProposalsOnRecord

\* Same context, same proposal: across hosts, crashes, suggestions that were
\* never branched and builds that differ, a context is never proposed on in
\* two ways.
ProposalsDetermined ==
  \A x, y \in proposed : x[1] = y[1] => x[2] = y[2]

\* The trials of a search are its algorithm's own sequence: each was suggested
\* after exactly the candidates before it, each told as it ended, and a record
\* that holds a candidate from elsewhere is never searched on.
SearchReproducible ==
  \A i \in DOMAIN nodes :
    nodes[i].origin # NoOrigin /\ nodes[i].origin.planner = "search" =>
      LET s == nodes[i].origin.search
          trials == {k \in DOMAIN s.hist : s.hist[k].feedback = "trial"}
      IN /\ s.engine = "recorded" /\ s.index = Len(s.hist)
         /\ \A k \in DOMAIN s.hist : s.hist[k].cand # nodes[i].cand
         /\ {s.hist[k].cand : k \in trials} = {nodes[j].cand : j \in 2..(i - 1)}
         /\ \A k \in trials : s.hist[k].obs = Observed(Context, s.hist[k].cand)
         /\ \A j \in 2..(i - 1) : nodes[j].origin # NoOrigin

\* Branching never makes a second node of a candidate: when a node was
\* branched the experiment had no node of its candidate, whoever else
\* branched or made nodes by hand since the proposal.  create_node refuses no
\* duplicate, so a node made by hand may come after.
BranchesAreNew ==
  \A i, j \in DOMAIN nodes : i < j /\ nodes[j].origin # NoOrigin => nodes[i].cand # nodes[j].cand

\* What is planned is on record, decided once and new: a round is answered once,
\* a proposal is a recorded answer's or its context's, and a branched node is
\* no candidate the experiment had.
PlanningSound == JournalSound /\ ProposalsDetermined /\ BranchesAreNew

AtRest == \A h \in setup.hosts : up[h] /\ ~due[h] /\ pass[h].at = "idle"

\* What the recorded planner says of the experiment as it stands is nothing.
NothingToPropose ==
  CASE setup.kind = "no-op" -> TRUE
    [] setup.kind = "rule-based" -> RuleProposals(Context) = {}
    [] setup.kind = "search" -> Replay(Context, "recorded").as = "nothing"
    [] OTHER -> LET last == Latest(ModelContext(Context))
                IN /\ last # 0 /\ journal[last].status = "COMPLETED"
                   /\ journal[last].prop = NoProposal

\* Planning comes to rest, and rests for a reason: a candidate waits for
\* someone, the experiment ended, a host holds an escalation, or the planner
\* has nothing to propose. A pass that leaves in silence (a round lost to
\* another host, a stale proposal) never leaves a proposal behind. The one
\* exception is a search over a record in which someone made a candidate a
\* second time: the pass raises what nobody catches, and no host says why the
\* experiment stands still.
PlanningRests ==
  <>[](/\ AtRest
       /\ \/ exp # "ACTIVE" \/ ~PlanningStage(Context)
          \/ setup.kind = "search" /\ HasTwins(Context)
          \/ NothingToPropose
          \/ \E h \in setup.hosts : esc[h])
=============================================================================
