--------------------------- MODULE HarnessSearch ---------------------------
(***************************************************************************)
(* A local harness search: round by round, a candidate harness runs every *)
(* task of every seed, each replicate is evaluated, the candidate is      *)
(* compared with the earlier ones, and a search provider and a mutation   *)
(* provider propose the next candidate.  Every unit of work is reserved   *)
(* in a spending ledger before it starts and settled after it ended.      *)
(*                                                                         *)
(* The search is one thread.  What makes it hard is what can end it: any  *)
(* unit can raise, be refused, measure more than was reserved or find no  *)
(* room, and whatever happens the report has to tell all of it.           *)
(*                                                                         *)
(* A harness is its own fingerprint, and a patch is the number of the      *)
(* declared alternative it applies.  A task run is one step; what happens  *)
(* inside it is HarnessRun.                                                *)
(***************************************************************************)
EXTENDS Integers, Sequences, FiniteSets, SequencesExt, FiniteSetsExt

CONSTANTS
    Benches,         \* searches, see SetupOK
    MaxFaults,      \* units of work that raise, in one search
    MinReplicates   \* replicates that give a comparison a direction (3)

(* root: the first candidate; alternatives: what the mutation provider     *)
(* declares; allowed, authorized, ceilings, retries, limits: the policy;   *)
(* search, mutation: the providers; objectives; seeds, tasks: how many;    *)
(* judge: tokens reserved for one judge call, 0 without a judge; measured: *)
(* what an evaluation may measure; toolTokens: how large the tool calls of *)
(* one reply may be; effect, k: the thresholds of a comparison; varied:    *)
(* task runs measure all they may, not only the most; faulty: units raise. *)
VARIABLES
    bench,
    pc,
    tree,      \* the candidates so far, in order
    seed, taskNo, \* the replicate being run, and its task
    raised,     \* tasks of the replicate whose run raised
    account,     \* spent, entries and the open reservation
    mark,       \* entries of the ledger before this round
    exhausted,  \* candidates the mutation provider has nothing more for
    base,       \* the candidate the next one is made from
    refused,    \* patches of it refused in this plan
    plans,      \* the plans of this round: context and outcome
    rounds,     \* the recorded rounds
    stop,       \* why the search ends, None while it goes on
    mishaps

runVars == <<seed, taskNo, raised>>
planVars == <<exhausted, base, refused, plans>>
searchVars == <<bench, pc, tree, runVars, account, mark, planVars, rounds, stop, mishaps>>

None == "none"
Absent == -1    \* a run value that was not measured or not released

Dims == {"rounds", "evaluations", "attempts", "agentCalls", "agentTokens",
         "judgeCalls", "judgeTokens"}

HarnessOK(h) ==
    /\ IsFiniteSet(h.tools)
    /\ {h.total, h.ctx, h.out, h.turns, h.text} \subseteq Nat

SetupOK(s) ==
    /\ HarnessOK(s.root) /\ s.seeds \in Nat \ {0} /\ s.tasks \in Nat \ {0}
    /\ s.retries \in Nat /\ s.judge \in Nat /\ s.toolTokens \in Nat
    /\ {"rounds", "evaluations", "attempts"} \subseteq DOMAIN s.limits
    /\ DOMAIN s.limits \subseteq Dims
    /\ \A d \in DOMAIN s.limits : s.limits[d] \in Nat
    /\ s.limits["rounds"] > 0
    /\ Len(s.alternatives) > 0 /\ Len(s.objectives) > 0
    /\ \A m \in s.measured : DOMAIN m = DOMAIN s.objectives

ASSUME SearchAssumption ==
    /\ MaxFaults \in Nat
    /\ MinReplicates \in Nat
    /\ \A s \in Benches : SetupOK(s)

----------------------------------------------------------------------------
(* Patches                                                                 *)

(* What an alternative makes of a harness.                                 *)
Child(h, op) ==
    CASE op.op = "set-enabled-tools"       -> [h EXCEPT !.tools = op.tools]
      [] op.op = "set-stopping-limits"     -> [h EXCEPT !.total = op.total]
      [] op.op = "set-context-policy"      -> [h EXCEPT !.ctx = op.ctx]
      [] op.op = "set-system-instructions" -> [h EXCEPT !.text = op.text]

OverCeilings(h) ==
    \E f \in {"total", "ctx", "out", "turns"} : h[f] > bench.ceilings[f]

(* apply_patch applies the alternative; tools is the authorized set, or    *)
(* every tool where the caller gives none.                                 *)
PatchApplies(h, op, allowed, tools) ==
    /\ op.op \in allowed
    /\ op.op = "set-enabled-tools" => op.tools \subseteq (h.tools \cap tools)
    /\ ~ OverCeilings(Child(h, op))
    /\ Child(h, op) # h

(* The checks of verify_harness_proposal against the recorded parent.      *)
Verified(parent, op, existing, allowed) ==
    LET child == Child(parent, op) IN
    /\ op.op \in allowed
    /\ child # parent
    /\ child.tools \subseteq (parent.tools \cap bench.authorized)
    /\ ~ OverCeilings(child)
    /\ child \notin existing

----------------------------------------------------------------------------
(* The spending ledger                                                     *)

NoSpending == [d \in Dims |-> 0]
Spend(s) == [d \in Dims |-> IF d \in DOMAIN s THEN s[d] ELSE 0]
Plus(a, b) == [d \in Dims |-> a[d] + b[d]]
Exceeds(a, b) == \E d \in Dims : a[d] > b[d]

(* Mutant: what the unit may cost is not counted in. *)
CrossedLate(worst) ==
    LET limits == bench.limits IN
    {d \in Dims : IF d \in DOMAIN limits
                    THEN account.spent[d] > limits[d]
                    ELSE worst[d] > 0}

(* The limits a worst case could cross, the undeclared ones included.      *)
Crossed(worst) ==
    LET limits == bench.limits IN
    {d \in Dims : IF d \in DOMAIN limits
                    THEN account.spent[d] + worst[d] > limits[d]
                    ELSE worst[d] > 0}

LedgerEntry(unit, status, charged) == [unit |-> unit, status |-> status, charged |-> charged]

NotStarted(unit) ==
    [account EXCEPT !.entries = Append(@, LedgerEntry(unit, "not-started", NoSpending))]

NoUnit == [unit |-> None, worst |-> NoSpending]

Holding(unit, worst) == [account EXCEPT !.open = [unit |-> unit, worst |-> worst]]

Unaccounted == [d \in Dims |-> -1]  \* nothing was measured

(* settle: charge what was measured; all of the reservation when nothing   *)
(* was, or when more was.                                                  *)
SettledLedger(held, measured) ==
    LET worst == held.open.worst
        over == measured # Unaccounted /\ Exceeds(measured, worst)
        charged == IF measured = Unaccounted \/ over THEN worst ELSE measured
    IN [spent |-> Plus(held.spent, charged),
        entries |-> Append(held.entries,
            LedgerEntry(held.open.unit,
                  IF over THEN "exceeded"
                  ELSE IF measured = Unaccounted THEN "unaccounted" ELSE "settled",
                  charged)),
        open |-> NoUnit]

(* abandon: the open unit, if there is one, is charged in full.            *)
Abandoned == IF account.open = NoUnit THEN account ELSE SettledLedger(account, Unaccounted)

AttemptWorst(h) ==
    Spend([attempts |-> 1, agentCalls |-> h.turns, agentTokens |-> h.total + h.ctx + h.out])

EvaluationWorst ==
    Spend([evaluations |-> 1,
           judgeCalls |-> IF bench.judge = 0 THEN 0 ELSE bench.tasks,
           judgeTokens |-> bench.tasks * bench.judge])

(* Why the envelope cannot be enforced for a search from the root.         *)
EnvelopeRefused ==
    \/ OverCeilings(bench.root)
    \/ ~ {"agentCalls", "agentTokens"} \subseteq DOMAIN bench.limits
    \/ /\ bench.judge > 0
       /\ ~ {"judgeCalls", "judgeTokens"} \subseteq DOMAIN bench.limits

----------------------------------------------------------------------------
(* What a task run and an evaluation measure                               *)

(* Token totals after t replies.  The runner goes on while the total is    *)
(* within the harness's; prompts and texts are cut to their limits, the    *)
(* tool calls of a reply are not.                                          *)
Totals(h) ==
    LET total[t \in 0..h.turns] ==
            IF t = 0 THEN {0}
            ELSE {n + p + c : n \in {m \in total[t - 1] : m <= h.total},
                              p \in {1, h.ctx + h.out},
                              c \in {0, bench.toolTokens}}
    IN total

AttemptSpends(h) ==
    LET largest == Max(UNION {Totals(h)[t] : t \in 0..h.turns}) IN
    UNION {{Spend([attempts |-> 1, agentCalls |-> t, agentTokens |-> n]) :
               n \in {x \in Totals(h)[t] : bench.varied \/ x = largest}} : t \in 0..h.turns}

(* What the judge's provider reports: less than reserved, more, or nothing *)
(* for some call.  Without a judge an evaluation costs one evaluation.     *)
EvaluationSpends ==
    IF bench.judge = 0 THEN {Spend([evaluations |-> 1])}
    ELSE {Unaccounted} \cup
         {Spend([evaluations |-> 1, judgeCalls |-> bench.tasks, judgeTokens |-> n]) :
             n \in {0, bench.tasks * bench.judge, bench.tasks * bench.judge + 1}}

----------------------------------------------------------------------------
(* Comparisons a provider may see                                          *)

(* A slice, and a reference-derived value over a single task, would tell   *)
(* which task succeeded.                                                   *)
Withheld(o) == o.slice \/ (o.reference /\ bench.tasks = 1)

ValuesOf(node, i) == [r \in DOMAIN node.replicates |-> node.replicates[r][i]]

Measured(node, i) == \A r \in DOMAIN node.replicates : node.replicates[r][i] # Absent

(* paired-difference/v1 without fractions: mean > effect and mean > k*se   *)
(* of the n differences, positive for the first side.                      *)
Beats(diff) ==
    LET n == Len(diff)
        s == SumFunction(diff)
        q == SumFunction([r \in DOMAIN diff |-> diff[r] * diff[r]])
    IN /\ s > n * bench.effect
       /\ s > 0
       /\ s * s * (n - 1) > bench.k * bench.k * (n * q - s * s)

Verdict(a, b, i) ==
    LET sign == IF bench.objectives[i].maximize THEN 1 ELSE -1
        diff == [r \in DOMAIN a.replicates |->
                    sign * (a.replicates[r][i] - b.replicates[r][i])]
    IN IF ~ (Measured(a, i) /\ Measured(b, i)) THEN "not-comparable"
       ELSE IF Len(diff) < MinReplicates THEN "inconclusive"
       ELSE IF Beats(diff) THEN "favors-a"
       ELSE IF Beats([r \in DOMAIN diff |-> -diff[r]]) THEN "favors-b"
       ELSE "inconclusive"

Relation(a, b) ==
    LET verdicts == {Verdict(a, b, i) : i \in DOMAIN bench.objectives} IN
    IF \E i \in DOMAIN bench.objectives : Withheld(bench.objectives[i]) THEN "withheld"
    ELSE IF "not-comparable" \in verdicts THEN "not-comparable"
    ELSE IF {"favors-a", "favors-b"} \subseteq verdicts THEN "trade-off"
    ELSE IF "favors-a" \in verdicts THEN "favors-a"
    ELSE IF "favors-b" \in verdicts THEN "favors-b"
    ELSE "inconclusive"

Comparisons(ns, cur) ==
    {[a |-> cur, b |-> j, relation |-> Relation(ns[cur], ns[j])] :
        j \in {x \in DOMAIN ns \ {cur} : /\ ns[x].status = "evaluated"
                                         /\ ns[cur].status = "evaluated"}}

----------------------------------------------------------------------------
(* Planning                                                                *)

NoChoice == 0

(* best-first search on one objective: the node with the best visible      *)
(* value, the first of them.                                               *)
Best(ctx, candidates) ==
    LET o == bench.objectives[1]
        sign == IF o.maximize THEN 1 ELSE -1
        score(j) == sign * SumFunction(ValuesOf(ctx.nodes[j], 1))
        ranked == {j \in candidates : Measured(ctx.nodes[j], 1)}
        best == {j \in ranked : \A x \in ranked : score(j) >= score(x)}
    IN IF ranked = {} THEN NoChoice ELSE Min(best)

Dominated(ctx) ==
    {c.b : c \in {x \in ctx.comparisons : x.relation = "favors-a"}} \cup
    {c.a : c \in {x \in ctx.comparisons : x.relation = "favors-b"}}

(* Over several objectives: a node no comparison favors another over.      *)
Pareto(ctx, candidates) ==
    LET front == candidates \ Dominated(ctx)
    IN IF front = {} THEN Min(candidates) ELSE Min(front)

(* "best-first" is the reference provider.  "root" stands for a provider   *)
(* that keeps choosing the same node.                                      *)
Select(ctx) ==
    LET candidates == {j \in DOMAIN ctx.nodes : ctx.nodes[j].status = "evaluated"}
                      \ ctx.exhausted
    IN IF bench.search = "root" THEN 1
       ELSE IF candidates = {} THEN NoChoice
       ELSE IF Len(bench.objectives) = 1 THEN Best(ctx, candidates)
       ELSE Pareto(ctx, candidates)

(* What the mutation provider may return: the number of an alternative, or *)
(* 0.  "enumerated" is the reference provider; "unchecked" stands for one  *)
(* that leaves every check to the planner.                                 *)
MutatePatch(h, existing, tried) ==
    LET fits(i) ==
            LET op == bench.alternatives[i] IN
            /\ i \notin tried
            /\ bench.mutation = "enumerated" =>
                 /\ PatchApplies(h, op, bench.allowed, h.tools)
                 /\ Child(h, op) \notin existing
        found == {i \in DOMAIN bench.alternatives : fits(i)}
    IN IF found = {} THEN 0 ELSE Min(found)

Harnesses(ctx) == {ctx.nodes[j].harness : j \in DOMAIN ctx.nodes}

(* The planner takes a patch that applies under the policy and verifies.   *)
Accepted(h, i, existing) ==
    LET op == bench.alternatives[i] IN
    /\ PatchApplies(h, op, bench.allowed, bench.authorized)
    /\ Verified(h, op, existing, bench.allowed)

----------------------------------------------------------------------------
(* The loop                                                                *)

Current == Len(tree)

FreshNode(h, parent) ==
    [harness |-> h, parent |-> parent, status |-> "unevaluated", replicates |-> <<>>]

SearchInit ==
    /\ bench \in Benches
    /\ pc = "start"
    /\ tree = <<FreshNode(bench.root, 0)>>
    /\ seed = 1 /\ taskNo = 1 /\ raised = 0
    /\ account = [spent |-> NoSpending, entries |-> <<>>, open |-> NoUnit]
    /\ mark = 0
    /\ exhausted = {} /\ base = NoChoice /\ refused = <<>>
    /\ plans = {}
    /\ rounds = <<>>
    /\ stop = None
    /\ mishaps = 0

(* SpendingUnenforceableError: nothing runs.                               *)
RefuseEnvelope ==
    /\ pc = "start" /\ EnvelopeRefused
    /\ pc' = "refused"
    /\ UNCHANGED <<bench, tree, runVars, account, mark, planVars, rounds, stop, mishaps>>

(* The round itself is reserved and settled first.                         *)
StartRound ==
    /\ pc = "start" /\ ~ EnvelopeRefused
    /\ LET one == Spend([rounds |-> 1]) IN
       IF Crossed(one) # {}
         THEN /\ account' = NotStarted("round")
              /\ stop' = "spending-limit" /\ pc' = "report"
              /\ UNCHANGED mark
         ELSE /\ account' = SettledLedger(Holding("round", one), one)
              /\ mark' = Len(account.entries)
              /\ pc' = "admit"
              /\ UNCHANGED stop
    /\ seed' = 1 /\ taskNo' = 1 /\ raised' = 0
    /\ plans' = {}
    /\ UNCHANGED <<bench, tree, exhausted, base, refused, rounds, mishaps>>

(* A round's replicates end, whatever ended them: the candidate counts as  *)
(* evaluated when every seed has been.                                     *)
EndReplicates(ns, why) ==
    LET done == Len(ns[Len(ns)].replicates) = bench.seeds IN
    /\ tree' = [ns EXCEPT ![Len(ns)].status = IF done THEN "evaluated" ELSE "failed"]
    /\ stop' = why
    /\ pc' = "compare"

Raises == bench.faulty /\ mishaps < MaxFaults /\ mishaps' = mishaps + 1

(* The evaluation is admitted before any task runs.                        *)
AdmitEvaluation ==
    /\ pc = "admit"
    /\ IF Crossed(EvaluationWorst) # {}
         THEN /\ account' = NotStarted("evaluation")
              /\ EndReplicates(tree, "spending-limit")
         ELSE /\ pc' = "task"
              /\ UNCHANGED <<account, tree, stop>>
    /\ taskNo' = 1 /\ raised' = 0
    /\ UNCHANGED <<bench, seed, mark, planVars, rounds, mishaps>>

(* The task is bound and compiled, then its attempt is reserved.           *)
ReserveAttempt ==
    /\ pc = "task" /\ taskNo <= bench.tasks
    /\ LET h == tree[Current].harness
           worst == AttemptWorst(h)
       IN IF ~ h.tools \subseteq bench.authorized
            THEN /\ account' = Abandoned
                 /\ EndReplicates(tree, "error")
          ELSE IF Crossed(worst) # {}
            THEN /\ account' = NotStarted("attempt")
                 /\ EndReplicates(tree, "spending-limit")
          ELSE /\ account' = Holding("attempt", worst)
               /\ pc' = "running"
               /\ UNCHANGED <<tree, stop>>
    /\ UNCHANGED <<bench, runVars, mark, planVars, rounds, mishaps>>

(* The run returned: it is charged what it measured.                       *)
AttemptReturns ==
    /\ pc = "running"
    /\ \E spent \in AttemptSpends(tree[Current].harness) :
         /\ account' = SettledLedger(account, spent)
         /\ IF Exceeds(spent, account.open.worst)
              THEN EndReplicates(tree, "spending-exceeded") /\ UNCHANGED taskNo
              ELSE taskNo' = taskNo + 1 /\ pc' = "task" /\ UNCHANGED <<tree, stop>>
    /\ UNCHANGED <<bench, seed, raised, mark, planVars, rounds, mishaps>>

(* The run raised: unaccounted, and the next task runs.                    *)
AttemptRaises ==
    /\ pc = "running" /\ Raises
    /\ account' = SettledLedger(account, Unaccounted)
    /\ raised' = raised + 1
    /\ taskNo' = taskNo + 1 /\ pc' = "task"
    /\ UNCHANGED <<bench, tree, seed, mark, planVars, rounds, stop>>

(* The runner refused the run: settled in full, and the search ends.       *)
AttemptRefused ==
    /\ pc = "running" /\ Raises
    /\ account' = SettledLedger(account, Unaccounted)
    /\ EndReplicates(tree, "run-refused")
    /\ UNCHANGED <<bench, runVars, mark, planVars, rounds>>

NextSeed(ns) ==
    IF seed = bench.seeds
      THEN EndReplicates(ns, None) /\ UNCHANGED seed
      ELSE tree' = ns /\ pc' = "admit" /\ seed' = seed + 1 /\ UNCHANGED stop

(* Evidence that does not verify leaves the seed without a replicate; only *)
(* a run that raised leaves such evidence.                                 *)
EvidenceRefused ==
    /\ pc = "task" /\ taskNo > bench.tasks /\ raised > 0
    /\ NextSeed(tree)
    /\ UNCHANGED <<bench, taskNo, raised, account, mark, planVars, rounds, mishaps>>

(* Publishing the evidence may raise with nothing open.                    *)
PublishRaises ==
    /\ pc = "task" /\ taskNo > bench.tasks /\ Raises
    /\ account' = Abandoned
    /\ EndReplicates(tree, "error")
    /\ UNCHANGED <<bench, runVars, mark, planVars, rounds>>

ReserveEvaluation ==
    /\ pc = "task" /\ taskNo > bench.tasks
    /\ IF Crossed(EvaluationWorst) # {}
         THEN /\ account' = NotStarted("evaluation")
              /\ EndReplicates(tree, "spending-limit")
         ELSE /\ account' = Holding("evaluation", EvaluationWorst)
              /\ pc' = "evaluating"
              /\ UNCHANGED <<tree, stop>>
    /\ UNCHANGED <<bench, runVars, mark, planVars, rounds, mishaps>>

(* The evaluator raised during the open unit.                              *)
EvaluationRaises ==
    /\ pc = "evaluating" /\ Raises
    /\ account' = Abandoned
    /\ EndReplicates(tree, "error")
    /\ UNCHANGED <<bench, runVars, mark, planVars, rounds>>

(* The evaluation ended: it measured something, or refused its subject or  *)
(* measured nothing, which leaves the seed without a replicate.            *)
EvaluationEnds ==
    /\ pc = "evaluating"
    /\ \E spent \in EvaluationSpends :
         /\ account' = SettledLedger(account, spent)
         /\ \/ /\ spent # Unaccounted /\ Exceeds(spent, account.open.worst)
               /\ EndReplicates(tree, "spending-exceeded")
               /\ UNCHANGED <<seed, mishaps>>
            \/ /\ spent = Unaccounted \/ ~ Exceeds(spent, account.open.worst)
               /\ \E m \in bench.measured :
                    NextSeed([tree EXCEPT ![Current].replicates = Append(@, m)])
               /\ UNCHANGED mishaps
            \/ /\ spent = Unaccounted \/ ~ Exceeds(spent, account.open.worst)
               /\ Raises
               /\ NextSeed(tree)
    /\ UNCHANGED <<bench, taskNo, raised, mark, planVars, rounds>>

LastRound == account.spent["rounds"] >= bench.limits["rounds"]

RoundRecord(comparisons) ==
    [node |-> Current, harness |-> tree[Current].harness, comparisons |-> comparisons,
     plans |-> plans, spending |-> SubSeq(account.entries, mark + 1, Len(account.entries))]

(* The candidate is compared, and planning starts if it may.  Reaching the *)
(* last round ends the search here, before a candidate is proposed that    *)
(* could not run.                                                          *)
Compare ==
    /\ pc = "compare"
    /\ \/ /\ stop # None
          /\ pc' = "record"
          /\ UNCHANGED stop
       \/ /\ stop = None /\ LastRound
          /\ stop' = "max-rounds" /\ pc' = "record"
       \/ /\ stop = None /\ ~ LastRound
          /\ pc' = "plan"
          /\ UNCHANGED stop
    /\ UNCHANGED <<bench, tree, runVars, account, mark, planVars, rounds, mishaps>>

(* A node as providers are shown it.                                       *)
NodeView(n) ==
    [n EXCEPT !.replicates =
        [r \in DOMAIN @ |->
            [i \in DOMAIN @[r] |->
                IF Withheld(bench.objectives[i]) THEN Absent ELSE @[r][i]]]]

AllComparisons ==
    UNION {rounds[r].comparisons : r \in DOMAIN rounds} \cup Comparisons(tree, Current)

SearchContext ==
    [nodes |-> [j \in DOMAIN tree |-> NodeView(tree[j])],
     comparisons |-> AllComparisons, exhausted |-> exhausted]

(* Mutant: a node that gave nothing is tried again. *)
SetAsideNothing == exhausted

SetAside == exhausted \cup {base}

Recorded(kind, patch) ==
    plans \cup {[ctx |-> SearchContext, kind |-> kind, base |-> base, patch |-> patch,
                 refused |-> refused]}

(* HarnessPlanner.plan asks the search provider for a base.                *)
SelectBase ==
    /\ pc = "plan"
    /\ refused' = <<>>
    /\ \E chosen \in {Select(SearchContext)} :
         /\ base' = chosen
         /\ \/ /\ chosen = NoChoice
               /\ stop' = "no-proposal" /\ pc' = "record"
               /\ plans' = plans \cup {[ctx |-> SearchContext, kind |-> "no-choice",
                                        base |-> NoChoice, patch |-> 0, refused |-> <<>>]}
            \/ /\ chosen \in exhausted
               /\ stop' = "provider-error" /\ pc' = "record"
               /\ UNCHANGED plans
            \/ /\ chosen \notin exhausted \cup {NoChoice}
               /\ pc' = "mutate"
               /\ UNCHANGED <<stop, plans>>
    /\ UNCHANGED <<bench, tree, runVars, account, mark, exhausted, rounds, mishaps>>

(* The mutation provider is asked for one patch.  With nothing more the    *)
(* base is set aside and another one selected; a refused patch is retried  *)
(* as often as the policy says.                                            *)
MutateBase ==
    /\ pc = "mutate"
    /\ LET h == tree[base].harness
           existing == {tree[j].harness : j \in DOMAIN tree}
       IN \E patch \in {MutatePatch(h, existing, Range(refused))} :
            \/ /\ patch = 0
               /\ plans' = Recorded("exhausted", 0)
               /\ exhausted' = SetAside
               /\ pc' = "plan"
               /\ UNCHANGED <<refused, stop>>
            \/ /\ patch # 0 /\ Accepted(h, patch, existing)
               /\ plans' = Recorded("proposal", patch)
               /\ pc' = "record"
               /\ UNCHANGED <<refused, exhausted, stop>>
            \/ /\ patch # 0 /\ ~ Accepted(h, patch, existing)
               /\ refused' = Append(refused, patch)
               /\ IF Len(refused) = bench.retries
                    THEN /\ plans' = plans \cup {[ctx |-> SearchContext, kind |-> "all-refused",
                                  base |-> base, patch |-> 0, refused |-> refused']}
                         /\ stop' = "no-proposal" /\ pc' = "record"
                    ELSE UNCHANGED <<plans, stop, pc>>
               /\ UNCHANGED exhausted
    /\ UNCHANGED <<bench, tree, runVars, account, mark, base, rounds, mishaps>>

(* A provider or a comparison raises; what the round did is still recorded.*)
PlanRaises ==
    /\ pc \in {"compare", "plan", "mutate"} /\ stop = None /\ Raises
    /\ stop' = IF pc = "compare" THEN "error" ELSE "provider-error"
    /\ pc' = "record"
    /\ UNCHANGED <<bench, tree, runVars, account, mark, planVars, rounds>>

(* The round is recorded.  A proposal is the next candidate; without one   *)
(* the search ends.                                                        *)
RecordRound ==
    /\ pc = "record"
    /\ rounds' = Append(rounds,
         RoundRecord(IF stop = "error" THEN {} ELSE Comparisons(tree, Current)))
    /\ IF stop = None
         THEN \E p \in {x \in plans : x.kind = "proposal"} :
                LET child == Child(tree[p.base].harness, bench.alternatives[p.patch]) IN
                /\ tree' = Append(tree, FreshNode(child, p.base))
                /\ pc' = "start"
         ELSE pc' = "report" /\ UNCHANGED tree
    /\ UNCHANGED <<bench, runVars, account, mark, planVars, stop, mishaps>>

(* The report is written; a failure is raised after it.                    *)
WriteReport ==
    /\ pc = "report"
    /\ pc' = "done"
    /\ UNCHANGED <<bench, tree, runVars, account, mark, planVars, rounds, stop, mishaps>>

SearchNext ==
    \/ RefuseEnvelope \/ StartRound \/ AdmitEvaluation
    \/ ReserveAttempt \/ AttemptReturns \/ AttemptRaises \/ AttemptRefused
    \/ EvidenceRefused \/ PublishRaises
    \/ ReserveEvaluation \/ EvaluationRaises \/ EvaluationEnds
    \/ Compare \/ SelectBase \/ MutateBase \/ PlanRaises \/ RecordRound \/ WriteReport

SearchSpec == SearchInit /\ [][SearchNext]_searchVars

(* The search is one thread that runs until it returns.                    *)
SearchFairSpec == SearchSpec /\ WF_searchVars(SearchNext)

----------------------------------------------------------------------------
(* Type invariant.  No unit of work is open outside the steps it runs in,  *)
(* whatever ended it.                                                      *)
SearchTypeOK ==
    /\ bench \in Benches
    /\ account.spent \in [Dims -> Nat]
    /\ account.open # NoUnit <=> pc \in {"running", "evaluating"}
    /\ seed \in 1..bench.seeds /\ taskNo \in 1..(bench.tasks + 1)
    /\ raised \in 0..bench.tasks
    /\ mishaps \in 0..MaxFaults
    /\ exhausted \subseteq DOMAIN tree
    /\ \A j \in DOMAIN tree :
         /\ HarnessOK(tree[j].harness)
         /\ tree[j].parent \in 0..(j - 1)
         /\ tree[j].status \in {"unevaluated", "evaluated", "failed"}
         /\ Len(tree[j].replicates) <= bench.seeds

(* What the ledger charged never crosses a limit, whatever the units       *)
(* measured, raised or reported (SpendingLedger: a unit starts only if its *)
(* worst case fits).                                                       *)
WithinEnvelope ==
    \A d \in Dims :
      /\ d \in DOMAIN bench.limits => account.spent[d] <= bench.limits[d]
      /\ d \notin DOMAIN bench.limits => account.spent[d] = 0

(* The report accounts for all of the spending: the entries of its rounds  *)
(* add up to what it says was spent, however the search ended              *)
(* (run_local_harness_search: the report keeps what ran).                  *)
ReportAccounts ==
    pc = "done" =>
      \A d \in Dims :
        account.spent[d] =
          SumFunction([r \in DOMAIN rounds |->
            SumFunction([i \in DOMAIN rounds[r].spending |->
                           rounds[r].spending[i].charged[d]])])

(* No task runs for an evaluation that could never start: once a replicate *)
(* has spent attempts, a limit never refuses its evaluation                *)
(* (SpendingLedger.admit, _evaluate_replicate).                            *)
NoAttemptForNothing ==
    pc = "task" /\ taskNo > bench.tasks => Crossed(EvaluationWorst) = {}

(* Only tool calls, which the runner does not cut, make a task run measure *)
(* more than attempt_reservation reserved for it.                          *)
OnlyToolCallsExceed ==
    bench.toolTokens = 0 =>
      \A i \in DOMAIN account.entries :
        account.entries[i].unit = "attempt" => account.entries[i].status # "exceeded"

(* attempt_reservation: "the last reply can overshoot max_total_tokens by  *)
(* one call: at most one prompt and one reply".                            *)
AttemptsWithinReservation ==
    \A i \in DOMAIN account.entries :
      account.entries[i].unit = "attempt" => account.entries[i].status # "exceeded"

(* Along every lineage a candidate has no tool its parent did not have,    *)
(* none outside the authorized ones and no limit above the ceilings,       *)
(* whatever the mutation provider proposed (verify_harness_proposal).      *)
NoEscalation ==
    \A j \in DOMAIN tree \ {1} :
      LET h == tree[j].harness IN
      /\ h.tools \subseteq (tree[tree[j].parent].harness.tools \cap bench.authorized)
      /\ ~ OverCeilings(h)

(* No harness is searched twice, and each candidate has run in exactly one *)
(* round when the search has ended: a candidate is never proposed for a    *)
(* round that cannot start.                                                *)
EachCandidateOnce ==
    /\ \A i, j \in DOMAIN tree : tree[i].harness = tree[j].harness => i = j
    /\ pc = "done" =>
         [r \in DOMAIN rounds |-> rounds[r].node] = [j \in DOMAIN tree |-> j]

(* A comparison that favors a candidate rests on values a provider may see *)
(* and that every replicate of both sides measured: what is withheld or    *)
(* absent never decides (provider_comparison).                             *)
NothingWithheldDecides ==
    \A r \in DOMAIN rounds : \A c \in rounds[r].comparisons :
      c.relation \in {"favors-a", "favors-b", "trade-off"} =>
        \A i \in DOMAIN bench.objectives :
          /\ ~ Withheld(bench.objectives[i])
          /\ Measured(tree[c.a], i) /\ Measured(tree[c.b], i)

(* Re-planning from the report gives every recorded plan again: its        *)
(* context and the harnesses of the rounds decide the base, every refused  *)
(* patch and the answer (replay_local_harness_search).                     *)
Replays ==
    pc = "done" =>
      \A r \in DOMAIN rounds : \A p \in rounds[r].plans :
        LET h == rounds[CHOOSE x \in DOMAIN rounds : rounds[x].node = p.base].harness
            asked(n) == MutatePatch(h, Harnesses(p.ctx), Range(SubSeq(p.refused, 1, n)))
        IN /\ Select(p.ctx) = p.base
           /\ p.base # NoChoice =>
                /\ \E x \in DOMAIN rounds : rounds[x].node = p.base
                /\ \A n \in DOMAIN p.refused :
                     /\ asked(n - 1) = p.refused[n]
                     /\ ~ Accepted(h, p.refused[n], Harnesses(p.ctx))
                /\ p.kind # "all-refused" => asked(Len(p.refused)) = p.patch

(* A search ends, with its report written or its envelope refused: rounds  *)
(* are limited, and an exhausted base is not asked again.                  *)
SearchEnds == <>(pc \in {"done", "refused"})

(* Nothing is spent that was not admitted, whatever a unit of work does.   *)
SpendingKept == SearchTypeOK /\ WithinEnvelope /\ NoAttemptForNothing /\ OnlyToolCallsExceed

(* A candidate is admissible, searched once and judged on what may be seen.*)
CandidatesSound == NoEscalation /\ EachCandidateOnce /\ NothingWithheldDecides

(* The report accounts for the search and can be replayed.                 *)
ReportTrue == ReportAccounts /\ Replays
=============================================================================
