----------------------- MODULE MCExperimentLifecycle -----------------------
(***************************************************************************)
(* Small instances of ExperimentLifecycle and of HarnessSearch: the two    *)
(* searches that are held to a budget, one over candidates to train, one   *)
(* over harnesses.  They do not share state, so they are two worlds of one *)
(* run, told apart by `world'; the other world's state stays as it begins. *)
(***************************************************************************)
EXTENDS ExperimentLifecycle, HarnessSearch

CONSTANTS h1, h2, c1, c2, c3

VARIABLE world

-----------------------------------------------------------------------------
(* Experiments. *)

MCMeasurements == {<<"met", "held">>, <<"missed", "held">>, <<"missed", "violated">>,
                   <<"met", "absent">>}

Setup(a, t, hosts, deaths, ends, answers, limit) ==
  [adaptive |-> a, target |-> t, planner |-> a, hosts |-> hosts, deaths |-> deaths,
   ends |-> ends, answers |-> answers, limit |-> limit]

\* One controller, adaptive or not, through up to three candidates, with a
\* budget, without one, and with one that admits nothing; and two embedded
\* hosts on one database, up to the second candidate's submission.
MCSetups ==
  {Setup(a, t, {h1}, 2, 3, MCMeasurements, [runs |-> 2, slots |-> 1, failures |-> 1]) :
     a \in BOOLEAN, t \in BOOLEAN}
  \cup {Setup(TRUE, TRUE, {h1}, 1, 3, MCMeasurements, [slots |-> 1]),
        Setup(TRUE, TRUE, {h1}, 0, 3, MCMeasurements, [runs |-> 0]),
        Setup(TRUE, TRUE, {h1, h2}, 0, 1, {<<"met", "held">>, <<"missed", "held">>},
              [runs |-> 2, slots |-> 1, failures |-> 1])}

-----------------------------------------------------------------------------
(* Harness searches. *)

Tokens == [metric |-> "tokens", maximize |-> FALSE, reference |-> FALSE, slice |-> FALSE]
Success == [metric |-> "success", maximize |-> TRUE, reference |-> TRUE, slice |-> FALSE]

RootHarness == [tools |-> {"a", "b"}, total |-> 3, ctx |-> 1, out |-> 1, turns |-> 2, text |-> 0]

Tool(t) == [op |-> "set-enabled-tools", tools |-> t]
TotalTokens(n) == [op |-> "set-stopping-limits", total |-> n]
Ctx(n) == [op |-> "set-context-policy", ctx |-> n]
Text(n) == [op |-> "set-system-instructions", text |-> n]

Limits(r, e, a, tokens) ==
    [d \in {"rounds", "evaluations", "attempts", "agentCalls", "agentTokens"} |->
        CASE d = "rounds" -> r [] d = "evaluations" -> e [] d = "attempts" -> a
          [] d = "agentCalls" -> 2 * a [] d = "agentTokens" -> tokens]

(* One objective, one seed: three rounds, faults, and alternatives that    *)
(* run out.                                                                *)
Scalar ==
    [root |-> RootHarness, alternatives |-> <<Text(1), Tool({"a"})>>,
     allowed |-> {"set-enabled-tools", "set-system-instructions"},
     authorized |-> {"a", "b"}, ceilings |-> [total |-> 4, ctx |-> 2, out |-> 1, turns |-> 2],
     retries |-> 1, limits |-> Limits(4, 9, 9, 99), search |-> "best-first",
     mutation |-> "enumerated", objectives |-> <<Tokens>>, seeds |-> 1, tasks |-> 1,
     judge |-> 0, measured |-> {<<0>>, <<1>>, <<Absent>>}, toolTokens |-> 0,
     effect |-> 0, k |-> 2, varied |-> FALSE, faulty |-> TRUE]

(* Two objectives over three seeds, measured with and without noise; the   *)
(* third round finds no evaluation left.                                   *)
Vector ==
    [Scalar EXCEPT !.objectives = <<Success, Tokens>>, !.seeds = 3, !.tasks = 2,
                   !.limits = Limits(3, 6, 99, 999), !.faulty = FALSE,
                   !.measured = {<<0, 1>>, <<1, 1>>, <<1, 0>>, <<Absent, 0>>}]

(* A single task: its success is withheld from the providers.              *)
Single == [Vector EXCEPT !.tasks = 1, !.measured = {<<0, 1>>, <<1, 0>>}]
SingleScalar == [Scalar EXCEPT !.objectives = <<Success>>]

(* A judge whose provider reports what it likes, and limits that run out   *)
(* in the middle of a round.                                               *)
Judged ==
    [Scalar EXCEPT !.judge = 2, !.seeds = 2, !.tasks = 2, !.measured = {<<0>>, <<1>>},
                   !.limits = [d \in Dims |-> CASE d = "judgeTokens" -> 10
                                                [] d = "judgeCalls" -> 9
                                                [] d = "rounds" -> 3
                                                [] d = "evaluations" -> 9
                                                [] d = "attempts" -> 9
                                                [] d = "agentCalls" -> 15
                                                [] d = "agentTokens" -> 28]]

(* Providers that leave the checks to the planner, or ask again.           *)
Unchecked ==
    [Scalar EXCEPT !.mutation = "unchecked", !.authorized = {"a", "b", "c"},
                   !.allowed = {"set-enabled-tools", "set-stopping-limits", "set-context-policy"},
                   !.alternatives = <<Tool({"a", "c"}), Tool({"a"}), TotalTokens(9), Ctx(2)>>,
                   !.limits = Limits(3, 9, 9, 99)]
Stubborn == [Scalar EXCEPT !.search = "root"]
Impatient == [Unchecked EXCEPT !.retries = 0]

(* Tool calls that no limit of the harness bounds.                         *)
Chatty ==
    [Scalar EXCEPT !.toolTokens = 4, !.limits = Limits(2, 9, 9, 99), !.varied = TRUE]
Varied == [Scalar EXCEPT !.limits = Limits(2, 9, 3, 12), !.tasks = 2, !.varied = TRUE]

(* The root is not authorized, or the envelope cannot be enforced.         *)
Unauthorized == [Scalar EXCEPT !.authorized = {"a"}]
Unenforceable == [Scalar EXCEPT !.ceilings.total = 2]

MCBenches ==
    {Scalar, Vector, Single, SingleScalar, Judged, Unchecked, Stubborn, Impatient,
     Chatty, Varied, Unauthorized, Unenforceable}
ChattyBenches == {Chatty}

-----------------------------------------------------------------------------
BudgetedInit ==
  \/ world = "experiment" /\ Init /\ SearchInit /\ bench = CHOOSE b \in Benches : TRUE
  \/ world = "search" /\ SearchInit /\ Init /\ setup = CHOOSE s \in Setups : TRUE

BudgetedNext ==
  /\ UNCHANGED world
  /\ \/ world = "experiment" /\ Next /\ UNCHANGED searchVars
     \/ world = "search" /\ SearchNext /\ UNCHANGED vars

BudgetedSpec == BudgetedInit /\ [][BudgetedNext]_<<vars, searchVars, world>>

\* Fairness of ExperimentLifecycle, and of a search, each in its world.
BudgetedFairness ==
  /\ \A h \in Hosts : /\ WF_vars(world = "experiment" /\ Drive(h))
                      /\ WF_vars(world = "experiment" /\ Restart(h))
  /\ \A a \in Attempts : WF_vars(world = "experiment" /\ RuntimeEnds(a))
  /\ WF_searchVars(world = "search" /\ SearchNext)

BudgetedFairSpec == BudgetedSpec /\ BudgetedFairness

-----------------------------------------------------------------------------
(* Properties, of the world they are about. *)

\* ExperimentLifecycle: an experiment that is driven ends, escalates or rests.
ExperimentsRest == world = "experiment" => EventuallyRests

\* HarnessSearch: what is spent was admitted, the report of it is true, and
\* candidates are within the policy, and once each.
SearchSound == world = "search" => SpendingKept /\ ReportTrue /\ CandidatesSound

\* HarnessSearch: every search ends with its report.
SearchesEnd == world = "search" => SearchEnds
=============================================================================
