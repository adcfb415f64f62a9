---------------------- MODULE ExperimentLifecycleProofs ----------------------
(***************************************************************************)
(* Proofs about ExperimentLifecycle, for any hosts, candidates, setups and *)
(* bounds: the ledger agrees with the record and the budget is kept        *)
(* (BudgetKept), decisions rest on measurements and candidates on          *)
(* decisions (BranchingSound), and where one host drives the experiment    *)
(* nothing is left behind (NothingLeftBehind).                             *)
(*                                                                         *)
(* The invariant has four parts.  Shapes: the values of the variables.     *)
(* AttemptInv: how an attempt, its submission, its run and its workload    *)
(* stand to each other, and what a host in a chain of commits may rely on. *)
(* The ledger, stated entry by entry (Written) so that a commit that       *)
(* appends an entry can be compared with the change it is written with.    *)
(* BranchInv: the nodes are a chain in which every node but the newest is  *)
(* settled for planning, which is what makes one candidate open at a time  *)
(* and one STOP at most, however many hosts plan.                          *)
(*                                                                         *)
(* NothingLeftBehind rests on that and on SoleInv(h), of the one host h:   *)
(* whatever is still to be done is in its chain of commits, among the      *)
(* attempts it observes, ahead of its attach() or in its adaptive pass,    *)
(* and between its own commits nobody moves the record.                    *)
(***************************************************************************)
EXTENDS ExperimentLifecycle, FiniteSetTheorems, TLAPS

Outs == {Running, Trained, Modelless, Failed, Preempted} \cup Measurements

IsTask(t) ==
  /\ t \in [at : Steps, n : Nodes, k : -1..MaxEvals, then : {"end", "adapt", "sweep"}]
  /\ t.at = "unmeasured" => t.k >= 0
  /\ t.at = "attempt" => t.k >= 1

IsPass(p) ==
  p \in [at : {"none", "round", "propose", "realize"}, ctx : {p.ctx}, round : Nat, n : Nodes]

IsBranch(n, b) ==
  b \in [cand : Candidates, parent : 0..(n - 1), origin : {b.origin}, runs : BOOLEAN]

\* What is submitted, and what became of it.
WorkShapes ==
  /\ setup \in Setups
  /\ run \in [Nodes -> {"none", "active", "succeeded", "failed"}]
  /\ att \in [Attempts -> {"none", "live", "succeeded", "failed", "preempted"}]
  /\ sub \in [Attempts -> {"none", "intended", "confirmed", "failed"}]
  /\ out \in [Attempts -> Outs]

\* What is measured, decided and branched.
NodeShapes ==
  /\ exp \in {"none", "active"} \cup Ended
  /\ best \in {0} \cup Nodes
  /\ node \in [Nodes -> {"none", "planned", "active", "evaluating", "deciding"} \cup Settled]
  /\ ev \in [Nodes -> {"none", "created", "active", "succeeded", "failed"}]
  /\ res \in [Nodes -> Measurements \cup {<<>>}]
  /\ dec \in [Nodes -> {"none"} \cup Outcomes]
  /\ noted \in [Nodes -> BOOLEAN]
  /\ branch = [n \in Nodes |-> branch[n]] /\ \A n \in Nodes : IsBranch(n, branch[n])

FlagShapes ==
  /\ up \in [Hosts -> BOOLEAN]
  /\ watch \in [Hosts -> SUBSET Attempts]
  /\ sweep \in [Hosts -> 0..(MaxNodes + 1)]
  /\ due \in [Hosts -> BOOLEAN] /\ esc \in [Hosts -> BOOLEAN]
  /\ crashes \in 0..setup.deaths

\* What a host in a chain of commits may rely on.
TaskOK(t) ==
  /\ t.at = "run" => sub[<<t.n, 0>>] \in {"confirmed", "failed"}
  /\ t.at = "unmeasured" /\ t.k = 0 => sub[<<t.n, 0>>] = "failed"
  /\ t.at \in {"decide", "record"} => node[t.n] \in {"deciding"} \cup Settled

TasksInv ==
  /\ task = [h \in Hosts |-> task[h]]
  /\ \A h \in Hosts : IsTask(task[h]) /\ TaskOK(task[h])

\* A proposal is asked for when every node is settled for planning.
PassOK(p) ==
  p.at = "propose" =>
    \A n \in Nodes : p.ctx[2][n] # "none" =>
      <<p.ctx[2][n], p.ctx[3][n]>> \in {<<"completed", "BRANCH">>, <<"rejected", "REJECT">>}

PassesInv ==
  /\ pass = [h \in Hosts |-> pass[h]]
  /\ \A h \in Hosts : IsPass(pass[h]) /\ PassOK(pass[h])

\* An attempt, its submission, its workload and its run.
AttemptInv ==
  /\ \A a \in Attempts : /\ att[a] = "none" <=> sub[a] = "none"
                         /\ out[a] # Running => sub[a] = "confirmed"
  /\ \A n \in Nodes : /\ run[n] = "none" <=> att[<<n, 0>>] = "none"
                      /\ run[n] \in {"succeeded", "failed"} =>
                           sub[<<n, 0>>] \in {"confirmed", "failed"}

\* The entries the record asks for, one kind after the other.
Reserves(e) ==
  \E n \in Nodes : run[n] # "none" /\ e \in {<<"runs", "reserve", n>>, <<"slots", "reserve", n>>}
Commits(e) ==
  \E n \in Nodes : /\ sub[<<n, 0>>] = "confirmed"
                  /\ e \in {<<"runs", "commit", n>>, <<"slots", "commit", n>>}
Releases(e) == \E n \in Nodes : att[<<n, 0>>] \notin {"none", "live"} /\ e = <<"slots", "release", n>>
Consumes(e) ==
  \E n \in Nodes : /\ run[n] \in {"succeeded", "failed"} /\ sub[<<n, 0>>] = "confirmed"
                  /\ e = <<"runs", "consume", n>>
GivesBack(e) ==
  \E n \in Nodes : /\ run[n] \in {"succeeded", "failed"} /\ sub[<<n, 0>>] # "confirmed"
                  /\ e = <<"runs", "release", n>>
Fails(e) == \E a \in Attempts : att[a] = "failed" /\ e = <<"failures", "consume", a>>

Written(e) == Reserves(e) \/ Commits(e) \/ Releases(e) \/ Consumes(e) \/ GivesBack(e) \/ Fails(e)

LedgerInv == \A e : e \in ledger <=> e[1] \in DOMAIN Limit /\ Written(e)

\* The runs that count against the budget, and those that train.
Held == {n \in Nodes : run[n] = "active" \/ (run[n] # "none" /\ sub[<<n, 0>>] = "confirmed")}
Training == {n \in Nodes : att[<<n, 0>>] = "live"}

LimitInv ==
  /\ "runs" \in DOMAIN Limit => Cardinality(Held) <= Limit["runs"]
  /\ "slots" \in DOMAIN Limit => Cardinality(Training) <= Limit["slots"]

WorkInv == WorkShapes /\ AttemptInv /\ LedgerInv /\ LimitInv

\* The evaluation, the decision and the status of a node.
NodeInv(n) ==
  /\ node[n] \in {"none", "planned", "active"} => ev[n] = "none"
  /\ node[n] \in {"deciding"} \cup Settled => ev[n] = "succeeded"
  /\ res[n] # <<>> <=> ev[n] = "succeeded"
  /\ dec[n] # "none" <=> node[n] \in Settled
  /\ dec[n] # "none" => dec[n] = Decide(res[n]) /\ node[n] = NodeStatus(dec[n])

\* The nodes are 1..k, and all but the last are settled for planning.
ChainInv ==
  /\ \E k \in 0..MaxNodes :
       /\ \A n \in Nodes : node[n] # "none" <=> n <= k
       /\ \A n \in Nodes : n < k => ForPlanning(n)
  /\ exp = "none" => \A n \in Nodes : node[n] = "none"
  /\ \A m, n \in Existing : m # n => branch[m].cand # branch[n].cand
  /\ \A n \in Existing \ {1} : branch[n].parent \in Existing /\ ForPlanning(branch[n].parent)

EndInv ==
  /\ exp = "succeeded" <=> best # 0
  /\ exp = "succeeded" => dec[best] = "STOP_SUCCEEDED"
  /\ exp = "failed" => \E n \in Nodes : dec[n] = "STOP_FAILED"

BranchInv == NodeShapes /\ (\A n \in Nodes : NodeInv(n)) /\ ChainInv /\ EndInv

\* A node that is not realized has no run.
Unrealized == \A n \in Nodes : node[n] \in {"none", "planned"} => run[n] = "none"

HostInv == FlagShapes /\ TasksInv /\ PassesInv

Inv == WorkInv /\ BranchInv /\ Unrealized /\ HostInv

-----------------------------------------------------------------------------
(* The ledger, and the changes its entries are written with. *)

LEMMA FirstAttempt == \A n \in Nodes : <<n, 0>> \in Attempts
<1>1. 0 \in 0..MaxEvals
  BY LifecycleAssumption
<1> QED BY <1>1 DEF Attempts

LEMMA LedgerIsInv == WorkShapes => (LedgerAgrees <=> LedgerInv)
<1> DEFINE All == UNION {
    UNION {{<<d, "reserve", n>> : d \in {"runs", "slots"}} : n \in {m \in Nodes : run[m] # "none"}},
    UNION {{<<d, "commit", n>> : d \in {"runs", "slots"}} :
             n \in {m \in Nodes : sub[<<m, 0>>] = "confirmed"}},
    {<<"slots", "release", n>> : n \in {m \in Nodes : att[<<m, 0>>] \notin {"none", "live"}}},
    {<<"runs", IF sub[<<n, 0>>] = "confirmed" THEN "consume" ELSE "release", n>> :
       n \in {m \in Nodes : run[m] \in {"succeeded", "failed"}}},
    {<<"failures", "consume", a>> : a \in {b \in Attempts : att[b] = "failed"}}}
<1>1. ASSUME NEW e
      PROVE  e \in All <=> Written(e)
  <2>1. e \in UNION {{<<d, "reserve", n>> : d \in {"runs", "slots"}} : n \in {m \in Nodes : run[m] # "none"}}
        <=> Reserves(e)
    BY DEF Reserves
  <2>2. e \in UNION {{<<d, "commit", n>> : d \in {"runs", "slots"}} :
                       n \in {m \in Nodes : sub[<<m, 0>>] = "confirmed"}}
        <=> Commits(e)
    <3>1. ASSUME NEW n \in Nodes, sub[<<n, 0>>] = "confirmed", NEW d \in {"runs", "slots"}, e = <<d, "commit", n>>
          PROVE  Commits(e)
      BY <3>1 DEF Commits
    <3>2. ASSUME NEW n \in Nodes, sub[<<n, 0>>] = "confirmed",
                 e \in {<<"runs", "commit", n>>, <<"slots", "commit", n>>}
          PROVE  e \in {<<d, "commit", n>> : d \in {"runs", "slots"}}
      BY <3>2
    <3> DEFINE S == {m \in Nodes : sub[<<m, 0>>] = "confirmed"}
               F(n) == {<<d, "commit", n>> : d \in {"runs", "slots"}}
    <3>3. e \in UNION {F(n) : n \in S} <=> \E n \in S : e \in F(n)
      BY Zenon
    <3>4. (\E n \in S : e \in F(n)) => Commits(e)
      BY <3>1
    <3>5. Commits(e) => \E n \in S : e \in F(n)
      BY <3>2 DEF Commits
    <3> QED BY <3>3, <3>4, <3>5
  <2>3. e \in {<<"slots", "release", n>> : n \in {m \in Nodes : att[<<m, 0>>] \notin {"none", "live"}}}
        <=> Releases(e)
    BY DEF Releases
  <2>4. e \in {<<"runs", IF sub[<<n, 0>>] = "confirmed" THEN "consume" ELSE "release", n>> :
                 n \in {m \in Nodes : run[m] \in {"succeeded", "failed"}}}
        <=> Consumes(e) \/ GivesBack(e)
    BY DEF Consumes, GivesBack
  <2>5. e \in {<<"failures", "consume", a>> : a \in {b \in Attempts : att[b] = "failed"}} <=> Fails(e)
    BY DEF Fails
  <2> QED BY <2>1, <2>2, <2>3, <2>4, <2>5, Zenon DEF Written
<1>2. LedgerAgrees <=> ledger = {e \in All : e[1] \in DOMAIN Limit}
  BY DEF LedgerAgrees, Entries
<1> HIDE DEF All
<1>3. ASSUME WorkShapes, LedgerInv
      PROVE  LedgerAgrees
  <2>1. \A e : e \in ledger <=> e \in {f \in All : f[1] \in DOMAIN Limit}
    BY <1>1, <1>3 DEF LedgerInv
  <2> QED BY <1>2, <2>1
<1>4. ASSUME WorkShapes, LedgerAgrees
      PROVE  LedgerInv
  BY <1>1, <1>2, <1>4 DEF LedgerInv
<1> QED BY <1>3, <1>4

\* A ledger that grows by the entries es, with every kind of entry accounted for.
LEMMA LedgerGrows ==
  ASSUME LedgerInv, UNCHANGED setup, NEW es, ledger' = ledger \cup Entries(es),
         \A e : (Reserves(e)' \/ Commits(e)' \/ Releases(e)' \/ Consumes(e)' \/ GivesBack(e)' \/ Fails(e)')
                 <=> (Written(e) \/ e \in es)
  PROVE  LedgerInv'
<1>1. \A e : Written(e)' <=> Written(e) \/ e \in es
  BY DEF Written
<1>2. Limit' = Limit
  BY DEF Limit
<1> QED BY <1>1, <1>2 DEF LedgerInv, Entries

LEMMA LedgerRests ==
  ASSUME LedgerInv, UNCHANGED <<setup, run, sub, att, ledger>>
  PROVE  LedgerInv'
BY DEF LedgerInv, Written, Reserves, Commits, Releases, Consumes, GivesBack, Fails, Limit

\* The five changes that the ledger is about.
Opens(n) ==
  /\ run[n] = "none"
  /\ run' = [run EXCEPT ![n] = "active"]
  /\ att' = [att EXCEPT ![<<n, 0>>] = "live"]
  /\ sub' = [sub EXCEPT ![<<n, 0>>] = "intended"]
  /\ ledger' = Reserved(n)
  /\ UNCHANGED out

Submits(a) ==
  /\ sub[a] = "intended"
  /\ sub' = [sub EXCEPT ![a] = "confirmed"]
  /\ ledger' = Committed(a)
  /\ UNCHANGED <<run, att, out>>

IsRefused(a) ==
  /\ sub[a] = "intended"
  /\ sub' = [sub EXCEPT ![a] = "failed"]
  /\ UNCHANGED <<run, att, ledger, out>>

Ends(a, s) ==
  /\ att[a] = "live"
  /\ att' = [att EXCEPT ![a] = s]
  /\ ledger' = SettleAttempt(a, s)
  /\ UNCHANGED <<run, sub, out>>

RunEnds(n, s) ==
  /\ run[n] = "active" /\ sub[<<n, 0>>] \in {"confirmed", "failed"}
  /\ run' = [run EXCEPT ![n] = s]
  /\ ledger' = SettleRun(n)
  /\ UNCHANGED <<att, sub, out>>

Evaluates(a) ==
  /\ a[2] # 0 /\ att[a] = "none"
  /\ att' = [att EXCEPT ![a] = "live"]
  /\ sub' = [sub EXCEPT ![a] = "intended"]
  /\ UNCHANGED <<run, ledger, out>>

WorkEnds(a) ==
  /\ sub[a] = "confirmed"
  /\ \E o \in Outs : out' = [out EXCEPT ![a] = o]
  /\ UNCHANGED <<run, att, sub, ledger>>

Unworked == UNCHANGED <<run, att, sub, out, ledger>>

LEMMA OpensLedger ==
  ASSUME WorkShapes, AttemptInv, LedgerInv, UNCHANGED setup, NEW n \in Nodes, Opens(n)
  PROVE  LedgerInv'
<1>0. /\ <<n, 0>> \in Attempts /\ att[<<n, 0>>] = "none" /\ sub[<<n, 0>>] = "none"
      /\ run[n] = "none"
  BY FirstAttempt DEF AttemptInv, Opens
<1>1. /\ run'[n] = "active" /\ \A m \in Nodes : m # n => run'[m] = run[m]
      /\ att'[<<n, 0>>] = "live" /\ \A a \in Attempts : a # <<n, 0>> => att'[a] = att[a]
      /\ sub'[<<n, 0>>] = "intended" /\ \A a \in Attempts : a # <<n, 0>> => sub'[a] = sub[a]
  BY <1>0 DEF WorkShapes, Opens
<1>2. \A m \in Nodes : <<m, 0>> \in Attempts /\ (m # n => <<m, 0>> # <<n, 0>>)
  BY FirstAttempt
<1> DEFINE es == {<<"runs", "reserve", n>>, <<"slots", "reserve", n>>}
<1>3. \A e : Reserves(e)' <=> Reserves(e) \/ e \in es
  BY <1>0, <1>1 DEF Reserves
<1>4. \A e : Commits(e)' <=> Commits(e)
  BY <1>0, <1>1, <1>2 DEF Commits
<1>5. \A e : Releases(e)' <=> Releases(e)
  BY <1>0, <1>1, <1>2 DEF Releases
<1>6. \A e : Consumes(e)' <=> Consumes(e)
  BY <1>0, <1>1, <1>2 DEF Consumes
<1>7. \A e : GivesBack(e)' <=> GivesBack(e)
  BY <1>0, <1>1, <1>2 DEF GivesBack
<1>8. \A e : Fails(e)' <=> Fails(e)
  BY <1>0, <1>1 DEF Fails
<1>9. ledger' = ledger \cup Entries(es)
  BY DEF Opens, Reserved
<1> HIDE DEF es
<1> QED BY <1>3, <1>4, <1>5, <1>6, <1>7, <1>8, <1>9, LedgerGrows DEF Written

LEMMA SubmitsLedger ==
  ASSUME WorkShapes, AttemptInv, LedgerInv, UNCHANGED setup, NEW a \in Attempts, Submits(a)
  PROVE  LedgerInv'
<1>1. sub'[a] = "confirmed" /\ \A b \in Attempts : b # a => sub'[b] = sub[b]
  BY DEF WorkShapes, Submits
<1>2. sub[a] = "intended" /\ UNCHANGED <<run, att>>
  BY DEF Submits
<1>3. \A e : (Reserves(e)' <=> Reserves(e)) /\ (Releases(e)' <=> Releases(e)) /\ (Fails(e)' <=> Fails(e))
  BY <1>2 DEF Reserves, Releases, Fails
<1>4. PICK n \in Nodes, k \in 0..MaxEvals : a = <<n, k>>
  BY DEF Attempts
<1>5. CASE k = 0
  <2> DEFINE es == {<<"runs", "commit", n>>, <<"slots", "commit", n>>}
  <2>1. \A m \in Nodes : <<m, 0>> \in Attempts /\ (m # n => sub'[<<m, 0>>] = sub[<<m, 0>>])
    BY FirstAttempt, <1>1, <1>4, <1>5
  <2>2. sub'[<<n, 0>>] = "confirmed" /\ sub[<<n, 0>>] = "intended"
    BY <1>1, <1>2, <1>4, <1>5
  <2>3. run[n] \notin {"succeeded", "failed"}
    BY <2>2 DEF AttemptInv
  <2>4. \A e : Commits(e)' <=> Commits(e) \/ e \in es
    BY <2>1, <2>2 DEF Commits
  <2>5. \A e : (Consumes(e)' <=> Consumes(e)) /\ (GivesBack(e)' <=> GivesBack(e))
    BY <1>2, <2>1, <2>2, <2>3 DEF Consumes, GivesBack
  <2>6. ledger' = ledger \cup Entries(es)
    BY <1>4, <1>5 DEF Submits, Committed
  <2> HIDE DEF es
  <2> QED BY <1>3, <2>4, <2>5, <2>6, LedgerGrows DEF Written
<1>6. CASE k # 0
  <2>1. \A m \in Nodes : sub'[<<m, 0>>] = sub[<<m, 0>>]
    BY FirstAttempt, <1>1, <1>4, <1>6
  <2>2. \A e : (Commits(e)' <=> Commits(e)) /\ (Consumes(e)' <=> Consumes(e)) /\ (GivesBack(e)' <=> GivesBack(e))
    BY <1>2, <2>1 DEF Commits, Consumes, GivesBack
  <2>3. ledger' = ledger \cup Entries({})
    BY <1>4, <1>6 DEF Submits, Committed, Entries
  <2> QED BY <1>3, <2>2, <2>3, LedgerGrows DEF Written
<1> QED BY <1>5, <1>6

LEMMA IsRefusedLedger ==
  ASSUME WorkShapes, AttemptInv, LedgerInv, UNCHANGED setup, NEW a \in Attempts, IsRefused(a)
  PROVE  LedgerInv'
<1>1. sub'[a] = "failed" /\ \A b \in Attempts : b # a => sub'[b] = sub[b]
  BY DEF WorkShapes, IsRefused
<1>2. sub[a] = "intended" /\ UNCHANGED <<run, att>>
  BY DEF IsRefused
<1>3. \A m \in Nodes : sub'[<<m, 0>>] = "confirmed" <=> sub[<<m, 0>>] = "confirmed"
  BY FirstAttempt, <1>1, <1>2
<1>4. \A m \in Nodes : sub'[<<m, 0>>] # sub[<<m, 0>>] => run[m] \notin {"succeeded", "failed"}
  BY FirstAttempt, <1>1, <1>2 DEF AttemptInv
<1>5. \A e : (Reserves(e)' <=> Reserves(e)) /\ (Releases(e)' <=> Releases(e)) /\ (Fails(e)' <=> Fails(e))
  BY <1>2 DEF Reserves, Releases, Fails
<1>6. \A e : (Commits(e)' <=> Commits(e)) /\ (Consumes(e)' <=> Consumes(e)) /\ (GivesBack(e)' <=> GivesBack(e))
  BY <1>2, <1>3, <1>4 DEF Commits, Consumes, GivesBack
<1>7. ledger' = ledger \cup Entries({})
  BY DEF IsRefused, Entries
<1> QED BY <1>5, <1>6, <1>7, LedgerGrows DEF Written

LEMMA EndsLedger ==
  ASSUME WorkShapes, AttemptInv, LedgerInv, UNCHANGED setup, NEW a \in Attempts,
         NEW s \in {"succeeded", "failed", "preempted"}, Ends(a, s)
  PROVE  LedgerInv'
<1>1. att'[a] = s /\ \A b \in Attempts : b # a => att'[b] = att[b]
  BY DEF WorkShapes, Ends
<1>2. att[a] = "live" /\ UNCHANGED <<run, sub>>
  BY DEF Ends
<1>3. \A e : /\ Reserves(e)' <=> Reserves(e) 
             /\ Commits(e)' <=> Commits(e)
             /\ Consumes(e)' <=> Consumes(e)
             /\ GivesBack(e)' <=> GivesBack(e)
  BY <1>2 DEF Reserves, Commits, Consumes, GivesBack
<1> DEFINE fs == IF s = "failed" THEN {<<"failures", "consume", a>>} ELSE {}
           ss == IF a[2] = 0 THEN {<<"slots", "release", a[1]>>} ELSE {}
<1>4. \A e : Fails(e)' <=> Fails(e) \/ e \in fs
  BY <1>1, <1>2 DEF Fails
<1>5. \A e : Releases(e)' <=> Releases(e) \/ e \in ss
  <2>1. PICK n \in Nodes, k \in 0..MaxEvals : a = <<n, k>>
    BY DEF Attempts
  <2>2. a[1] = n /\ a[2] = k
    BY <2>1
  <2>3. CASE k = 0
    <3>1. \A m \in Nodes : <<m, 0>> \in Attempts /\ (m # n => att'[<<m, 0>>] = att[<<m, 0>>])
      BY FirstAttempt, <1>1, <2>1, <2>3
    <3>2. att'[<<n, 0>>] = s /\ att[<<n, 0>>] = "live"
      BY <1>1, <1>2, <2>1, <2>3
    <3> QED BY <2>2, <2>3, <3>1, <3>2 DEF Releases
  <2>4. CASE k # 0
    <3>1. \A m \in Nodes : att'[<<m, 0>>] = att[<<m, 0>>]
      BY FirstAttempt, <1>1, <2>1, <2>4
    <3> QED BY <2>2, <2>4, <3>1 DEF Releases
  <2> QED BY <2>3, <2>4
<1>6. ledger' = ledger \cup Entries(fs \cup ss)
  BY DEF Ends, SettleAttempt
<1> HIDE DEF fs, ss
<1> QED BY <1>3, <1>4, <1>5, <1>6, LedgerGrows DEF Written

LEMMA RunEndsLedger ==
  ASSUME WorkShapes, AttemptInv, LedgerInv, UNCHANGED setup, NEW n \in Nodes,
         NEW s \in {"succeeded", "failed"}, RunEnds(n, s)
  PROVE  LedgerInv'
<1>1. run'[n] = s /\ \A m \in Nodes : m # n => run'[m] = run[m]
  BY DEF WorkShapes, RunEnds
<1>2. run[n] = "active" /\ UNCHANGED <<att, sub>>
  BY DEF RunEnds
<1>3. \A e : /\ Reserves(e)' <=> Reserves(e) 
             /\ Commits(e)' <=> Commits(e)
             /\ Releases(e)' <=> Releases(e)
             /\ Fails(e)' <=> Fails(e)
  BY <1>1, <1>2 DEF Reserves, Commits, Releases, Fails
<1> DEFINE kind == IF <<"runs", "commit", n>> \in ledger THEN "consume" ELSE "release"
           es == {<<"runs", kind, n>>}
<1>4. "runs" \in DOMAIN Limit => (<<"runs", "commit", n>> \in ledger <=> sub[<<n, 0>>] = "confirmed")
  <2>1. Written(<<"runs", "commit", n>>) <=> Commits(<<"runs", "commit", n>>)
    BY DEF Written, Reserves, Releases, Consumes, GivesBack, Fails
  <2>2. Commits(<<"runs", "commit", n>>) <=> sub[<<n, 0>>] = "confirmed"
    BY DEF Commits
  <2> QED BY <2>1, <2>2 DEF LedgerInv
<1>5. ledger' = ledger \cup Entries(es)
  BY DEF RunEnds, SettleRun
<1> HIDE DEF kind
<1>6. CASE "runs" \notin DOMAIN Limit
  <2>1. \A e : e[1] # "runs" => ~Consumes(e) /\ ~GivesBack(e) /\ ~Consumes(e)' /\ ~GivesBack(e)'
    <3>1. \A e, m : e = <<"runs", "consume", m>> \/ e = <<"runs", "release", m>> => e[1] = "runs"
      OBVIOUS
    <3>2. \A e : Consumes(e) \/ GivesBack(e) => e[1] = "runs"
      BY <3>1, Zenon DEF Consumes, GivesBack
    <3>3. \A e : Consumes(e)' \/ GivesBack(e)' => e[1] = "runs"
      BY <3>1, Zenon DEF Consumes, GivesBack
    <3> QED BY <3>2, <3>3
  <2>2. \A e : e[1] # "runs" => (Written(e)' <=> Written(e))
    BY <1>3, <2>1 DEF Written
  <2>3. Entries(es) = {} /\ Limit' = Limit
    BY <1>6 DEF Entries, Limit
  <2> QED BY <1>5, <1>6, <2>2, <2>3 DEF LedgerInv
<1>7. CASE "runs" \in DOMAIN Limit
  <2>1. CASE sub[<<n, 0>>] = "confirmed"
    <3>1. kind = "consume"
      BY <1>4, <1>7, <2>1 DEF kind
    <3>2. \A e : (Consumes(e)' <=> Consumes(e) \/ e \in es) /\ (GivesBack(e)' <=> GivesBack(e))
      BY <1>1, <1>2, <2>1, <3>1 DEF Consumes, GivesBack
    <3> HIDE DEF es
    <3> QED BY <1>3, <1>5, <3>2, LedgerGrows DEF Written
  <2>2. CASE sub[<<n, 0>>] # "confirmed"
    <3>1. kind = "release"
      BY <1>4, <1>7, <2>2 DEF kind
    <3>2. \A e : (Consumes(e)' <=> Consumes(e)) /\ (GivesBack(e)' <=> GivesBack(e) \/ e \in es)
      BY <1>1, <1>2, <2>2, <3>1 DEF Consumes, GivesBack
    <3> HIDE DEF es
    <3> QED BY <1>3, <1>5, <3>2, LedgerGrows DEF Written
  <2> QED BY <2>1, <2>2
<1> QED BY <1>6, <1>7

LEMMA EvaluatesLedger ==
  ASSUME WorkShapes, AttemptInv, LedgerInv, UNCHANGED setup, NEW a \in Attempts, Evaluates(a)
  PROVE  LedgerInv'
<1>1. /\ att'[a] = "live" /\ \A b \in Attempts : b # a => att'[b] = att[b]
      /\ sub'[a] = "intended" /\ \A b \in Attempts : b # a => sub'[b] = sub[b]
  BY DEF WorkShapes, Evaluates
<1>2. a[2] # 0 /\ att[a] = "none" /\ UNCHANGED run /\ ledger' = ledger \cup Entries({})
  BY DEF Evaluates, Entries
<1>3. \A m \in Nodes : att'[<<m, 0>>] = att[<<m, 0>>] /\ sub'[<<m, 0>>] = sub[<<m, 0>>]
  <2>1. \A m \in Nodes : <<m, 0>> # a
    BY <1>2
  <2> QED BY <2>1, FirstAttempt, <1>1
<1>4. \A e : /\ Reserves(e)' <=> Reserves(e)
             /\ Commits(e)' <=> Commits(e)
             /\ Releases(e)' <=> Releases(e)
             /\ Consumes(e)' <=> Consumes(e)
             /\ GivesBack(e)' <=> GivesBack(e)
  BY <1>2, <1>3 DEF Reserves, Commits, Releases, Consumes, GivesBack
<1>5. \A e : Fails(e)' <=> Fails(e)
  BY <1>1, <1>2 DEF Fails
<1> QED BY <1>2, <1>4, <1>5, LedgerGrows DEF Written

-----------------------------------------------------------------------------
(* The limits.  A balance is computed from the ledger; what it counts are  *)
(* runs.                                                                   *)

LEMMA NodesFinite ==
  \A S \in SUBSET Nodes : IsFiniteSet(S) /\ Cardinality(S) \in Nat
<1>1. IsFiniteSet(Nodes)
  BY LifecycleAssumption, FS_Interval DEF Nodes
<1> QED BY <1>1, FS_Subset, FS_CardinalityType

LEMMA DisjointUnion ==
  ASSUME NEW S \in SUBSET Nodes, NEW T \in SUBSET Nodes, S \cap T = {}
  PROVE  Cardinality(S \cup T) = Cardinality(S) + Cardinality(T)
<1>1. IsFiniteSet(S) /\ IsFiniteSet(T) /\ Cardinality(S) \in Nat /\ Cardinality(T) \in Nat
  BY NodesFinite
<1>2. Cardinality(S \cup T) = Cardinality(S) + Cardinality(T) - Cardinality(S \cap T)
  BY <1>1, FS_Union
<1>3. Cardinality(S \cap T) = 0
  BY FS_EmptySet
<1> QED BY <1>1, <1>2, <1>3

About(d, k, S) == {<<d, k, n>> : n \in S}

\* Entries of one dimension and kind are as many as the nodes they are about.
LEMMA EntriesCount ==
  ASSUME NEW d, NEW k, NEW S \in SUBSET Nodes
  PROVE  Cardinality(About(d, k, S)) = Cardinality(S)
<1> DEFINE T == {<<d, k, n>> : n \in S}
           f == [n \in S |-> <<d, k, n>>]
<1>1. f \in [S -> T]
  OBVIOUS
<1>2. \A m, n \in S : f[m] = f[n] => m = n
  OBVIOUS
<1>3. \A e \in T : \E n \in S : f[n] = e
  OBVIOUS
<1>4. f \in Bijection(S, T)
  BY <1>1, <1>2, <1>3, Zenon DEF Bijection, Injection, Surjection, IsInjective
<1>5. ExistsBijection(S, T)
  BY <1>4, Zenon DEF ExistsBijection
<1> QED BY <1>5, NodesFinite, FS_Bijection DEF About

\* What each kind of entry looks like, and what it is about.
LEMMA EntryKinds ==
  \A e : /\ Reserves(e) => e[1] \in {"runs", "slots"} /\ e[2] = "reserve"
         /\ Commits(e) => e[2] = "commit"
         /\ Releases(e) => e[1] = "slots" /\ e[2] = "release"
         /\ Consumes(e) => e[1] = "runs" /\ e[2] = "consume"
         /\ GivesBack(e) => e[1] = "runs" /\ e[2] = "release"
         /\ Fails(e) => e[1] = "failures" /\ e[2] = "consume"
<1> SUFFICES ASSUME NEW e
             PROVE  /\ Reserves(e) => e[1] \in {"runs", "slots"} /\ e[2] = "reserve"
                    /\ Commits(e) => e[2] = "commit"
                    /\ Releases(e) => e[1] = "slots" /\ e[2] = "release"
                    /\ Consumes(e) => e[1] = "runs" /\ e[2] = "consume"
                    /\ GivesBack(e) => e[1] = "runs" /\ e[2] = "release"
                    /\ Fails(e) => e[1] = "failures" /\ e[2] = "consume"
  OBVIOUS
<1>1. ASSUME Reserves(e) PROVE e[1] \in {"runs", "slots"} /\ e[2] = "reserve"
  <2> PICK n \in Nodes : e \in {<<"runs", "reserve", n>>, <<"slots", "reserve", n>>}
    BY <1>1 DEF Reserves
  <2> QED OBVIOUS
<1>2. ASSUME Commits(e) PROVE e[2] = "commit"
  <2> PICK n \in Nodes : e \in {<<"runs", "commit", n>>, <<"slots", "commit", n>>}
    BY <1>2 DEF Commits
  <2> QED OBVIOUS
<1>3. ASSUME Releases(e) PROVE e[1] = "slots" /\ e[2] = "release"
  <2> PICK n \in Nodes : e = <<"slots", "release", n>>
    BY <1>3 DEF Releases
  <2> QED OBVIOUS
<1>4. ASSUME Consumes(e) PROVE e[1] = "runs" /\ e[2] = "consume"
  <2> PICK n \in Nodes : e = <<"runs", "consume", n>>
    BY <1>4 DEF Consumes
  <2> QED OBVIOUS
<1>5. ASSUME GivesBack(e) PROVE e[1] = "runs" /\ e[2] = "release"
  <2> PICK n \in Nodes : e = <<"runs", "release", n>>
    BY <1>5 DEF GivesBack
  <2> QED OBVIOUS
<1>6. ASSUME Fails(e) PROVE e[1] = "failures" /\ e[2] = "consume"
  <2> PICK a \in Attempts : e = <<"failures", "consume", a>>
    BY <1>6 DEF Fails
  <2> QED OBVIOUS
<1> QED BY <1>1, <1>2, <1>3, <1>4, <1>5, <1>6

\* The entries that reserve one of d.
LEMMA Reservations ==
  ASSUME NEW d \in {"runs", "slots"}, NEW e
  PROVE  Reserves(e) /\ e[1] = d <=> \E n \in Nodes : run[n] # "none" /\ e = <<d, "reserve", n>>
<1>1. ASSUME NEW n \in Nodes, run[n] # "none", e = <<d, "reserve", n>>
      PROVE  Reserves(e) /\ e[1] = d
  BY <1>1 DEF Reserves
<1>2. ASSUME Reserves(e), e[1] = d
      PROVE  \E n \in Nodes : run[n] # "none" /\ e = <<d, "reserve", n>>
  <2>1. PICK n \in Nodes : run[n] # "none" /\ e \in {<<"runs", "reserve", n>>, <<"slots", "reserve", n>>}
    BY <1>2, Zenon DEF Reserves
  <2>2. e = <<d, "reserve", n>>
    BY <1>2, <2>1
  <2> QED BY <2>1, <2>2
<1> QED BY <1>1, <1>2

\* BudgetStatus, in runs: what is left of max_runs, and the slots in use.
LEMMA RunsBalance ==
  ASSUME WorkShapes, AttemptInv, LedgerInv, "runs" \in DOMAIN Limit
  PROVE  Remaining("runs") = Limit["runs"] - Cardinality(Held)
<1> DEFINE Opened == {n \in Nodes : run[n] # "none"}
           Spent == {n \in Nodes : run[n] \in {"succeeded", "failed"} /\ sub[<<n, 0>>] = "confirmed"}
           Back == {n \in Nodes : run[n] \in {"succeeded", "failed"} /\ sub[<<n, 0>>] # "confirmed"}
           Active == {n \in Nodes : run[n] = "active"}
           Of(k) == {e \in ledger : e[1] = "runs" /\ e[2] = k}
<1>1. \A e : e \in Of("reserve") <=> \E n \in Opened : e = <<"runs", "reserve", n>>
  <2>1. \A e : e \in Of("reserve") <=> Reserves(e) /\ e[1] = "runs"
    BY EntryKinds DEF LedgerInv, Written
  <2> QED BY <2>1, Reservations
<1>2. \A e : e \in Of("consume") <=> \E n \in Spent : e = <<"runs", "consume", n>>
  <2>1. \A e : e \in Of("consume") <=> Consumes(e)
    BY EntryKinds DEF LedgerInv, Written
  <2> QED BY <2>1, Zenon DEF Consumes
<1>3. \A e : e \in Of("release") <=> \E n \in Back : e = <<"runs", "release", n>>
  <2>1. \A e : e \in Of("release") <=> GivesBack(e)
    BY EntryKinds DEF LedgerInv, Written
  <2> QED BY <2>1, Zenon DEF GivesBack
<1>4. /\ Total("runs", "reserve") = Cardinality(Opened)
      /\ Total("runs", "consume") = Cardinality(Spent)
      /\ Total("runs", "release") = Cardinality(Back)
  <2> HIDE DEF Opened, Spent, Back, Of
  <2>1. Opened \in SUBSET Nodes /\ Spent \in SUBSET Nodes /\ Back \in SUBSET Nodes
    BY DEF Opened, Spent, Back
  <2>2. /\ Of("reserve") = About("runs", "reserve", Opened)
        /\ Of("consume") = About("runs", "consume", Spent)
        /\ Of("release") = About("runs", "release", Back)
    BY <1>1, <1>2, <1>3 DEF About
  <2>3. /\ Cardinality(Of("reserve")) = Cardinality(Opened)
        /\ Cardinality(Of("consume")) = Cardinality(Spent)
        /\ Cardinality(Of("release")) = Cardinality(Back)
    BY <2>1, <2>2, EntriesCount
  <2> QED BY <2>3 DEF Total, Of
<1>5. /\ Opened = Active \cup (Spent \cup Back) /\ Active \cap (Spent \cup Back) = {}
      /\ Spent \cap Back = {}
      /\ Held = Active \cup Spent /\ Active \cap Spent = {}
  BY DEF WorkShapes, Held
<1>6. Active \in SUBSET Nodes /\ Spent \in SUBSET Nodes /\ Back \in SUBSET Nodes
  OBVIOUS
<1> HIDE DEF Opened, Spent, Back, Active, Of
<1>7. /\ Cardinality(Spent \cup Back) = Cardinality(Spent) + Cardinality(Back)
      /\ Cardinality(Held) = Cardinality(Active) + Cardinality(Spent)
  BY <1>5, <1>6, DisjointUnion
<1>8. Cardinality(Opened) = Cardinality(Active) + (Cardinality(Spent) + Cardinality(Back))
  BY <1>5, <1>6, <1>7, DisjointUnion
<1>9. /\ Cardinality(Active) \in Nat /\ Cardinality(Spent) \in Nat /\ Cardinality(Back) \in Nat
      /\ Limit["runs"] \in Nat
  BY <1>6, NodesFinite, LifecycleAssumption DEF WorkShapes, Limit
<1> QED BY <1>4, <1>7, <1>8, <1>9 DEF Remaining, Outstanding

LEMMA SlotsBalance ==
  ASSUME WorkShapes, AttemptInv, LedgerInv, "slots" \in DOMAIN Limit
  PROVE  Outstanding("slots") = Cardinality(Training)
<1> DEFINE Opened == {n \in Nodes : run[n] # "none"}
           Over == {n \in Nodes : att[<<n, 0>>] \notin {"none", "live"}}
           Of(k) == {e \in ledger : e[1] = "slots" /\ e[2] = k}
<1>1. \A e : e \in Of("reserve") <=> \E n \in Opened : e = <<"slots", "reserve", n>>
  <2>1. \A e : e \in Of("reserve") <=> Reserves(e) /\ e[1] = "slots"
    BY EntryKinds DEF LedgerInv, Written
  <2> QED BY <2>1, Reservations
<1>2. \A e : e \in Of("consume") <=> \E n \in {} : e = <<"slots", "consume", n>>
  BY EntryKinds DEF LedgerInv, Written
<1>3. \A e : e \in Of("release") <=> \E n \in Over : e = <<"slots", "release", n>>
  <2>1. \A e : e \in Of("release") <=> Releases(e)
    BY EntryKinds DEF LedgerInv, Written
  <2> QED BY <2>1, Zenon DEF Releases
<1>4. /\ Total("slots", "reserve") = Cardinality(Opened)
      /\ Total("slots", "consume") = Cardinality({})
      /\ Total("slots", "release") = Cardinality(Over)
  <2> HIDE DEF Opened, Over, Of
  <2>1. Opened \in SUBSET Nodes /\ Over \in SUBSET Nodes /\ {} \in SUBSET Nodes
    BY DEF Opened, Over
  <2>2. /\ Of("reserve") = About("slots", "reserve", Opened)
        /\ Of("consume") = About("slots", "consume", {})
        /\ Of("release") = About("slots", "release", Over)
    BY <1>1, <1>2, <1>3 DEF About
  <2>3. /\ Cardinality(Of("reserve")) = Cardinality(Opened)
        /\ Cardinality(Of("consume")) = Cardinality({})
        /\ Cardinality(Of("release")) = Cardinality(Over)
    BY <2>1, <2>2, EntriesCount
  <2> QED BY <2>3 DEF Total, Of
<1>5. Opened = Training \cup Over /\ Training \cap Over = {}
  BY DEF AttemptInv, Training
<1>6. Training \in SUBSET Nodes /\ Over \in SUBSET Nodes
  BY DEF Training
<1> HIDE DEF Opened, Over, Of
<1>7. Cardinality(Opened) = Cardinality(Training) + Cardinality(Over)
  BY <1>5, <1>6, DisjointUnion
<1>8. Cardinality(Training) \in Nat /\ Cardinality(Over) \in Nat
  BY <1>6, NodesFinite
<1> QED BY <1>4, <1>7, <1>8, FS_EmptySet DEF Outstanding

\* What does not open a run takes no more of the budget.
LEMMA LimitsKept ==
  ASSUME WorkShapes, LimitInv, UNCHANGED setup, Held' \subseteq Held, Training' \subseteq Training
  PROVE  LimitInv'
<1>1. IsFiniteSet(Held) /\ IsFiniteSet(Training)
  BY NodesFinite DEF Held, Training
<1>2. Cardinality(Held') <= Cardinality(Held) /\ Cardinality(Training') <= Cardinality(Training)
  BY <1>1, FS_Subset
<1>3. /\ Cardinality(Held) \in Nat /\ Cardinality(Held') \in Nat
      /\ Cardinality(Training) \in Nat /\ Cardinality(Training') \in Nat
  BY <1>1, FS_Subset, FS_CardinalityType
<1>4. Limit' = Limit /\ \A d \in DOMAIN Limit : Limit[d] \in Nat
  BY LifecycleAssumption DEF WorkShapes, Limit
<1> QED BY <1>2, <1>3, <1>4 DEF LimitInv

-----------------------------------------------------------------------------
(* Each change keeps what is said of the work. *)

\* Room for one more run: what RequireBudget(TRUE) and Capacity say.
Room ==
  /\ "runs" \in DOMAIN Limit => Cardinality(Held) < Limit["runs"]
  /\ "slots" \in DOMAIN Limit => Cardinality(Training) < Limit["slots"]

LEMMA LimitTypes ==
  ASSUME WorkShapes
  PROVE  /\ DOMAIN Limit \subseteq Dimensions
         /\ \A d \in DOMAIN Limit : Limit[d] \in Nat /\ (d = "slots" => Limit[d] > 0)
         /\ Cardinality(Held) \in Nat /\ Cardinality(Training) \in Nat
         /\ IsFiniteSet(Held) /\ IsFiniteSet(Training)
<1>1. Held \in SUBSET Nodes /\ Training \in SUBSET Nodes
  BY DEF Held, Training
<1> QED BY <1>1, NodesFinite, LifecycleAssumption DEF WorkShapes, Limit

LEMMA BudgetMeansRoom ==
  ASSUME WorkInv, RequireBudget(TRUE), Capacity
  PROVE  Room
<1>1. "runs" \in DOMAIN Limit => Remaining("runs") >= 1
  BY DEF RequireBudget, Quotas
<1>2. "runs" \in DOMAIN Limit => Cardinality(Held) < Limit["runs"]
  BY <1>1, RunsBalance, LimitTypes DEF WorkInv
<1>3. "slots" \in DOMAIN Limit => Cardinality(Training) < Limit["slots"]
  BY SlotsBalance DEF WorkInv, Capacity
<1> QED BY <1>2, <1>3 DEF Room

LEMMA OpensWork ==
  ASSUME WorkInv, UNCHANGED setup, NEW n \in Nodes, Opens(n), Room
  PROVE  WorkInv'
<1> USE DEF WorkInv
<1>0. <<n, 0>> \in Attempts /\ att[<<n, 0>>] = "none" /\ sub[<<n, 0>>] = "none" /\ run[n] = "none"
  BY FirstAttempt DEF AttemptInv, Opens
<1>1. /\ run'[n] = "active" /\ \A m \in Nodes : m # n => run'[m] = run[m]
      /\ att'[<<n, 0>>] = "live" /\ \A a \in Attempts : a # <<n, 0>> => att'[a] = att[a]
      /\ sub'[<<n, 0>>] = "intended" /\ \A a \in Attempts : a # <<n, 0>> => sub'[a] = sub[a]
      /\ out' = out
  BY <1>0 DEF WorkShapes, Opens
<1>2. \A m \in Nodes : <<m, 0>> \in Attempts /\ (m # n => <<m, 0>> # <<n, 0>>)
  BY FirstAttempt
<1>3. WorkShapes'
  BY <1>0 DEF WorkShapes, Opens
<1>4. AttemptInv'
  <2>1. \A a \in Attempts : /\ att'[a] = "none" <=> sub'[a] = "none"
                            /\ out'[a] # Running => sub'[a] = "confirmed"
    BY <1>0, <1>1 DEF AttemptInv
  <2>2. \A m \in Nodes : /\ run'[m] = "none" <=> att'[<<m, 0>>] = "none"
                         /\ run'[m] \in {"succeeded", "failed"} => sub'[<<m, 0>>] \in {"confirmed", "failed"}
    BY <1>0, <1>1, <1>2 DEF AttemptInv
  <2> QED BY <2>1, <2>2 DEF AttemptInv
<1>5. LedgerInv'
  BY OpensLedger
<1>6. Held' = Held \cup {n} /\ Training' = Training \cup {n} /\ n \notin Held /\ n \notin Training
  BY <1>0, <1>1, <1>2 DEF Held, Training
<1>7. /\ Cardinality(Held') = Cardinality(Held) + 1
      /\ Cardinality(Training') = Cardinality(Training) + 1
  BY <1>6, LimitTypes, FS_AddElement
<1>8. LimitInv'
  <2>1. Limit' = Limit
    BY DEF Limit
  <2> QED BY <1>7, <2>1, LimitTypes DEF Room, LimitInv
<1> QED BY <1>3, <1>4, <1>5, <1>8

LEMMA SubmitsWork ==
  ASSUME WorkInv, UNCHANGED setup, NEW a \in Attempts, Submits(a) \/ IsRefused(a)
  PROVE  WorkInv'
<1> USE DEF WorkInv
<1>1. /\ sub[a] = "intended" /\ sub'[a] \in {"confirmed", "failed"}
      /\ \A b \in Attempts : b # a => sub'[b] = sub[b]
      /\ UNCHANGED <<run, att, out>>
  BY DEF WorkShapes, Submits, IsRefused
<1>2. WorkShapes'
  BY DEF WorkShapes, Submits, IsRefused
<1>3. AttemptInv'
  <2>1. \A b \in Attempts : /\ att'[b] = "none" <=> sub'[b] = "none"
                            /\ out'[b] # Running => sub'[b] = "confirmed"
    BY <1>1 DEF AttemptInv
  <2>2. \A m \in Nodes : /\ run'[m] = "none" <=> att'[<<m, 0>>] = "none"
                         /\ run'[m] \in {"succeeded", "failed"} => sub'[<<m, 0>>] \in {"confirmed", "failed"}
    BY <1>1, FirstAttempt DEF AttemptInv
  <2> QED BY <2>1, <2>2 DEF AttemptInv
<1>4. LedgerInv'
  BY SubmitsLedger, IsRefusedLedger
<1>5. Held' \subseteq Held
  <2>1. ASSUME NEW m \in Nodes, run[m] # "none", sub'[<<m, 0>>] = "confirmed", run[m] # "active"
        PROVE  sub[<<m, 0>>] = "confirmed"
    <3>1. run[m] \in {"succeeded", "failed"}
      BY <2>1 DEF WorkShapes
    <3> QED BY <2>1, <3>1, <1>1, FirstAttempt DEF AttemptInv
  <2> QED BY <1>1, <2>1 DEF Held
<1>6. Training' = Training
  BY <1>1 DEF Training
<1> QED BY <1>2, <1>3, <1>4, <1>5, <1>6, LimitsKept

LEMMA EndsWork ==
  ASSUME WorkInv, UNCHANGED setup, NEW a \in Attempts,
         NEW s \in {"succeeded", "failed", "preempted"}, Ends(a, s)
  PROVE  WorkInv'
<1> USE DEF WorkInv
<1>1. /\ att[a] = "live" /\ att'[a] = s
      /\ \A b \in Attempts : b # a => att'[b] = att[b]
      /\ UNCHANGED <<run, sub, out>>
  BY DEF WorkShapes, Ends
<1>2. WorkShapes'
  BY DEF WorkShapes, Ends
<1>3. AttemptInv'
  <2>1. \A b \in Attempts : /\ att'[b] = "none" <=> sub'[b] = "none"
                            /\ out'[b] # Running => sub'[b] = "confirmed"
    BY <1>1 DEF AttemptInv
  <2>2. \A m \in Nodes : /\ run'[m] = "none" <=> att'[<<m, 0>>] = "none"
                         /\ run'[m] \in {"succeeded", "failed"} => sub'[<<m, 0>>] \in {"confirmed", "failed"}
    BY <1>1, FirstAttempt DEF AttemptInv
  <2> QED BY <2>1, <2>2 DEF AttemptInv
<1>4. LedgerInv'
  BY EndsLedger
<1>5. Held' = Held
  BY <1>1 DEF Held
<1>6. Training' \subseteq Training
  BY <1>1, FirstAttempt DEF Training
<1> QED BY <1>2, <1>3, <1>4, <1>5, <1>6, LimitsKept

LEMMA RunEndsWork ==
  ASSUME WorkInv, UNCHANGED setup, NEW n \in Nodes, NEW s \in {"succeeded", "failed"}, RunEnds(n, s)
  PROVE  WorkInv'
<1> USE DEF WorkInv
<1>1. /\ run[n] = "active" /\ run'[n] = s /\ sub[<<n, 0>>] \in {"confirmed", "failed"}
      /\ \A m \in Nodes : m # n => run'[m] = run[m]
      /\ UNCHANGED <<att, sub, out>>
  BY DEF WorkShapes, RunEnds
<1>2. WorkShapes'
  BY DEF WorkShapes, RunEnds
<1>3. AttemptInv'
  BY <1>1 DEF AttemptInv
<1>4. LedgerInv'
  BY RunEndsLedger
<1>5. Held' \subseteq Held /\ Training' = Training
  BY <1>1 DEF Held, Training
<1> QED BY <1>2, <1>3, <1>4, <1>5, LimitsKept

LEMMA EvaluatesWork ==
  ASSUME WorkInv, UNCHANGED setup, NEW a \in Attempts, Evaluates(a)
  PROVE  WorkInv'
<1> USE DEF WorkInv
<1>1. /\ att[a] = "none" /\ sub[a] = "none" /\ out[a] = Running
      /\ att'[a] = "live" /\ sub'[a] = "intended"
      /\ \A b \in Attempts : b # a => att'[b] = att[b] /\ sub'[b] = sub[b]
      /\ UNCHANGED <<run, out>>
  BY DEF WorkShapes, AttemptInv, Evaluates
<1>2. WorkShapes'
  BY DEF WorkShapes, Evaluates
<1>3. \A m \in Nodes : att'[<<m, 0>>] = att[<<m, 0>>] /\ sub'[<<m, 0>>] = sub[<<m, 0>>]
  <2>1. \A m \in Nodes : <<m, 0>> # a
    BY DEF Evaluates
  <2> QED BY <2>1, <1>1, FirstAttempt
<1>4. AttemptInv'
  <2>1. \A b \in Attempts : /\ att'[b] = "none" <=> sub'[b] = "none"
                            /\ out'[b] # Running => sub'[b] = "confirmed"
    BY <1>1 DEF AttemptInv
  <2>2. \A m \in Nodes : /\ run'[m] = "none" <=> att'[<<m, 0>>] = "none"
                         /\ run'[m] \in {"succeeded", "failed"} => sub'[<<m, 0>>] \in {"confirmed", "failed"}
    BY <1>1, <1>3 DEF AttemptInv
  <2> QED BY <2>1, <2>2 DEF AttemptInv
<1>5. LedgerInv'
  BY EvaluatesLedger
<1>6. Held' = Held /\ Training' = Training
  BY <1>1, <1>3 DEF Held, Training
<1> QED BY <1>2, <1>4, <1>5, <1>6, LimitsKept

LEMMA WorkEndsWork ==
  ASSUME WorkInv, UNCHANGED setup, NEW a \in Attempts, WorkEnds(a)
  PROVE  WorkInv'
<1> USE DEF WorkInv
<1>1. /\ sub[a] = "confirmed" /\ UNCHANGED <<run, att, sub, ledger>>
      /\ \A b \in Attempts : b # a => out'[b] = out[b]
  BY DEF WorkShapes, WorkEnds
<1>2. WorkShapes'
  BY DEF WorkShapes, WorkEnds
<1>3. AttemptInv'
  BY <1>1 DEF AttemptInv
<1>4. LedgerInv'
  BY <1>1, LedgerRests
<1>5. Held' = Held /\ Training' = Training
  BY <1>1 DEF Held, Training
<1> QED BY <1>2, <1>3, <1>4, <1>5, LimitsKept

LEMMA UnworkedWork ==
  ASSUME WorkInv, UNCHANGED setup, Unworked
  PROVE  WorkInv'
<1> USE DEF WorkInv, Unworked
<1>1. LedgerInv'
  BY LedgerRests
<1>2. Held' = Held /\ Training' = Training
  BY DEF Held, Training
<1>3. WorkShapes' /\ AttemptInv'
  BY DEF WorkShapes, AttemptInv
<1> QED BY <1>1, <1>2, <1>3, LimitsKept

-----------------------------------------------------------------------------
(* Nodes, and the changes the record of them goes through. *)

\* No node appears, and what is settled stays so.
LEMMA ChainStays ==
  ASSUME NodeShapes, ChainInv, UNCHANGED branch, exp' = "none" => exp = "none",
         \A n \in Nodes : (node'[n] = "none" <=> node[n] = "none") /\ (ForPlanning(n) => ForPlanning(n)')
  PROVE  ChainInv'
<1>1. Existing' = Existing
  BY DEF Existing
<1>2. PICK k \in 0..MaxNodes : /\ \A n \in Nodes : node[n] # "none" <=> n <= k
                               /\ \A n \in Nodes : n < k => ForPlanning(n)
  BY DEF ChainInv
<1>3. /\ \A n \in Nodes : node'[n] # "none" <=> n <= k
      /\ \A n \in Nodes : n < k => ForPlanning(n)'
  BY <1>2
<1>4. \E j \in 0..MaxNodes : /\ \A n \in Nodes : node'[n] # "none" <=> n <= j
                            /\ \A n \in Nodes : n < j => ForPlanning(n)'
  BY <1>3
<1>5. exp' = "none" => \A n \in Nodes : node'[n] = "none"
  BY DEF ChainInv
<1>6. \A m, n \in Existing' : m # n => branch'[m].cand # branch'[n].cand
  BY <1>1 DEF ChainInv
<1>7. \A n \in Existing' \ {1} : branch'[n].parent \in Existing' /\ ForPlanning(branch[n].parent)'
  <2>1. \A n \in Existing \ {1} : branch[n].parent \in Existing /\ ForPlanning(branch[n].parent)
    BY DEF ChainInv
  <2>2. \A n \in Existing : n \in Nodes
    BY DEF Existing
  <2> QED BY <1>1, <2>1, <2>2
<1> QED BY <1>4, <1>5, <1>6, <1>7 DEF ChainInv

\* Neither the experiment nor a decision changes, or the budget ends it.
LEMMA EndStays ==
  ASSUME EndInv, UNCHANGED <<best, dec>>, exp' = exp \/ (exp = "active" /\ exp' = "exhausted")
                                          \/ (exp = "none" /\ exp' \in {"active", "exhausted"})
  PROVE  EndInv'
BY DEF EndInv

Admits ==
  /\ exp = "none" /\ exp' \in {"active", "exhausted"}
  /\ node' = [node EXCEPT ![1] = "active"]
  /\ UNCHANGED <<best, branch, ev, res, dec, noted>>

Moves(n, s) ==
  /\ ev[n] \in {"created", "active"} /\ s \in {"active", "failed"}
  /\ ev' = [ev EXCEPT ![n] = s]
  /\ UNCHANGED <<exp, best, node, branch, res, dec, noted>>

Measures(n, m) ==
  /\ ev[n] = "active" /\ m \in Measurements
  /\ ev' = [ev EXCEPT ![n] = "succeeded"]
  /\ res' = [res EXCEPT ![n] = m]
  /\ UNCHANGED <<exp, best, node, branch, dec, noted>>

Begins(n) ==
  /\ node[n] = "active"
  /\ node' = [node EXCEPT ![n] = "evaluating"]
  /\ ev' = [ev EXCEPT ![n] = "created"] \/ UNCHANGED ev
  /\ UNCHANGED <<exp, best, branch, res, dec, noted>>

Awaits(n) ==
  /\ node[n] = "evaluating" /\ ev[n] = "succeeded"
  /\ node' = [node EXCEPT ![n] = "deciding"]
  /\ UNCHANGED <<exp, best, branch, ev, res, dec, noted>>

Decides(n, d) ==
  /\ node[n] = "deciding" /\ d = Decide(res[n]) /\ d # "undecidable"
  /\ dec' = [dec EXCEPT ![n] = d]
  /\ node' = [node EXCEPT ![n] = NodeStatus(d)]
  /\ Conclude(n, d)
  /\ UNCHANGED <<branch, ev, res, noted>>

Exhausts ==
  /\ exp = "active" /\ exp' = "exhausted"
  /\ UNCHANGED <<best, node, branch, ev, res, dec, noted>>

Branches(b) ==
  /\ exp = "active" /\ \A n \in Existing : ForPlanning(n)
  /\ Nodes \ Existing # {}
  /\ LET next == Cardinality(Existing) + 1 IN
       /\ node' = [node EXCEPT ![next] = "planned"]
       /\ branch' = [branch EXCEPT ![next] = b]
  /\ b.parent \in Existing /\ \A n \in Existing : branch[n].cand # b.cand
  /\ b \in [cand : Candidates, parent : {b.parent}, origin : {b.origin}, runs : BOOLEAN]
  /\ UNCHANGED <<exp, best, ev, res, dec, noted>>

Realizes(n) ==
  /\ node[n] = "planned"
  /\ node' = [node EXCEPT ![n] = "active"]
  /\ UNCHANGED <<exp, best, branch, ev, res, dec, noted>>

Undecided ==
  /\ noted' \in [Nodes -> BOOLEAN]
  /\ UNCHANGED <<exp, best, node, branch, ev, res, dec>>

LEMMA MeasurementShape ==
  ASSUME NEW m \in Measurements
  PROVE  m # <<>> /\ m \in {"met", "missed", "absent"} \X {"held", "violated", "absent"}
<1>1. m \in {"met", "missed", "absent"} \X {"held", "violated", "absent"}
  BY LifecycleAssumption
<1>2. PICK p, c : m = <<p, c>>
  BY <1>1
<1>3. DOMAIN <<p, c>> = 1..2 /\ DOMAIN <<>> = 1..0
  OBVIOUS
<1>4. 1..2 # 1..0
  <2>1. 1 \in 1..2 /\ 1 \notin 1..0
    OBVIOUS
  <2> QED BY <2>1
<1> QED BY <1>1, <1>2, <1>3, <1>4

LEMMA DecideStays ==
  ASSUME UNCHANGED setup, NEW m
  PROVE  Decide(m)' = Decide(m)
BY DEF Decide

LEMMA MovesBranch ==
  ASSUME BranchInv, UNCHANGED setup, NEW n \in Nodes, NEW s, Moves(n, s)
  PROVE  BranchInv'
<1> USE DEF BranchInv
<1>1. /\ ev'[n] \in {"active", "failed"} /\ ev[n] \in {"created", "active"}
      /\ \A m \in Nodes : m # n => ev'[m] = ev[m]
      /\ UNCHANGED <<exp, best, node, branch, res, dec, noted>>
  BY DEF NodeShapes, Moves
<1>2. NodeShapes'
  BY DEF NodeShapes, Moves
<1>3. \A m \in Nodes : NodeInv(m)'
  BY <1>1, DecideStays DEF NodeInv, NodeShapes
<1>4. \A m \in Nodes : ForPlanning(m)' <=> ForPlanning(m)
  BY <1>1 DEF ForPlanning
<1> QED BY <1>1, <1>2, <1>3, <1>4, ChainStays, EndStays

LEMMA MeasuresBranch ==
  ASSUME BranchInv, UNCHANGED setup, NEW n \in Nodes, NEW m, Measures(n, m)
  PROVE  BranchInv'
<1> USE DEF BranchInv
<1>0. m # <<>>
  BY MeasurementShape DEF Measures
<1>1. /\ ev'[n] = "succeeded" /\ ev[n] = "active" /\ res'[n] = m /\ m # <<>>
      /\ \A i \in Nodes : i # n => ev'[i] = ev[i] /\ res'[i] = res[i]
      /\ UNCHANGED <<exp, best, node, branch, dec, noted>>
  BY <1>0 DEF NodeShapes, Measures
<1>2. NodeShapes'
  BY DEF NodeShapes, Measures
<1>3. node[n] = "evaluating" /\ dec[n] = "none"
  BY <1>1 DEF NodeInv, NodeShapes, Settled
<1>4. \A i \in Nodes : NodeInv(i)'
  BY <1>1, <1>3, DecideStays DEF NodeInv, NodeShapes, Settled
<1>5. \A i \in Nodes : ForPlanning(i)' <=> ForPlanning(i)
  BY <1>1 DEF ForPlanning
<1> QED BY <1>1, <1>2, <1>4, <1>5, ChainStays, EndStays

LEMMA BeginsBranch ==
  ASSUME BranchInv, UNCHANGED setup, NEW n \in Nodes, Begins(n) \/ Awaits(n) \/ Realizes(n)
  PROVE  BranchInv'
<1> USE DEF BranchInv
<1>1. /\ <<node[n], node'[n]>> \in {<<"active", "evaluating">>, <<"evaluating", "deciding">>,
                                     <<"planned", "active">>}
      /\ \A i \in Nodes : i # n => ev'[i] = ev[i] /\ node'[i] = node[i]
      /\ UNCHANGED <<exp, best, branch, res, dec, noted>>
  BY DEF NodeShapes, Begins, Awaits, Realizes
<1>2. NodeShapes'
  <2>1. node' \in [Nodes -> {"none", "planned", "active", "evaluating", "deciding"} \cup Settled]
    BY DEF NodeShapes, Begins, Awaits, Realizes
  <2>2. ev' \in [Nodes -> {"none", "created", "active", "succeeded", "failed"}]
    BY DEF NodeShapes, Begins, Awaits, Realizes
  <2> QED BY <1>1, <2>1, <2>2 DEF NodeShapes
<1>3. NodeInv(n)'
  <2>1. CASE Begins(n)
    BY <2>1, <1>1, DecideStays DEF Begins, NodeInv, NodeShapes, Settled
  <2>2. CASE Awaits(n)
    BY <2>2, <1>1, DecideStays DEF Awaits, NodeInv, NodeShapes, Settled
  <2>3. CASE Realizes(n)
    BY <2>3, <1>1, DecideStays DEF Realizes, NodeInv, NodeShapes, Settled
  <2> QED BY <2>1, <2>2, <2>3
<1>4. \A i \in Nodes : NodeInv(i)'
  BY <1>1, <1>3, DecideStays DEF NodeInv
<1>5. \A i \in Nodes : ForPlanning(i) => ForPlanning(i)'
  <2>1. ~ForPlanning(n)
    BY <1>1 DEF ForPlanning
  <2> QED BY <1>1, <2>1 DEF ForPlanning
<1>6. \A i \in Nodes : node'[i] = "none" <=> node[i] = "none"
  BY <1>1
<1> QED BY <1>1, <1>2, <1>4, <1>5, <1>6, ChainStays, EndStays

LEMMA ExhaustsBranch ==
  ASSUME BranchInv, UNCHANGED setup, Exhausts \/ Undecided
  PROVE  BranchInv'
<1> USE DEF BranchInv
<1>1. /\ exp' = exp \/ (exp = "active" /\ exp' = "exhausted")
      /\ UNCHANGED <<best, node, branch, ev, res, dec>>
  BY DEF Exhausts, Undecided
<1>2. NodeShapes'
  BY DEF NodeShapes, Exhausts, Undecided, Ended
<1>3. \A i \in Nodes : NodeInv(i)' /\ (ForPlanning(i)' <=> ForPlanning(i))
  BY <1>1, DecideStays DEF NodeInv, ForPlanning
<1> QED BY <1>1, <1>2, <1>3, ChainStays, EndStays

LEMMA AdmitsBranch ==
  ASSUME BranchInv, UNCHANGED setup, Admits
  PROVE  BranchInv'
<1> USE DEF BranchInv
<1>0. 1 \in Nodes
  BY LifecycleAssumption DEF Nodes
<1>1. /\ \A i \in Nodes : node[i] = "none" /\ node'[i] = (IF i = 1 THEN "active" ELSE "none")
      /\ UNCHANGED <<best, branch, ev, res, dec, noted>>
      /\ exp = "none" /\ exp' \in {"active", "exhausted"}
  BY DEF NodeShapes, ChainInv, Admits
<1>2. NodeShapes'
  BY DEF NodeShapes, Admits, Ended
<1>3. \A i \in Nodes : NodeInv(i)'
  BY <1>1, DecideStays DEF NodeInv, Settled
<1>4. Existing' = {1}
  BY <1>0, <1>1 DEF Existing
<1>5. ChainInv'
  <2>1. 1 \in 0..MaxNodes /\ \A n \in Nodes : (node'[n] # "none" <=> n <= 1) /\ ~(n < 1)
    BY <1>1, LifecycleAssumption DEF Nodes
  <2>2. \E k \in 0..MaxNodes : /\ \A n \in Nodes : node'[n] # "none" <=> n <= k
                              /\ \A n \in Nodes : n < k => ForPlanning(n)'
    BY <2>1
  <2> QED BY <1>1, <1>4, <2>2 DEF ChainInv
<1> QED BY <1>1, <1>2, <1>3, <1>5, EndStays

LEMMA DecidesBranch ==
  ASSUME BranchInv, UNCHANGED setup, NEW n \in Nodes, NEW d, Decides(n, d)
  PROVE  BranchInv'
<1> USE DEF BranchInv
<1>0. d \in Outcomes /\ NodeStatus(d) \in Settled
  BY DEF Decides, Decide, NodeStatus, Outcomes, Settled
<1>1. /\ node[n] = "deciding" /\ node'[n] = NodeStatus(d) /\ dec'[n] = d /\ d = Decide(res[n])
      /\ \A i \in Nodes : i # n => node'[i] = node[i] /\ dec'[i] = dec[i]
      /\ UNCHANGED <<branch, ev, res, noted>>
  BY DEF NodeShapes, Decides
<1>2. /\ dec[n] = "none" /\ ev[n] = "succeeded"
  BY <1>1 DEF NodeInv, NodeShapes, Settled
<1>3. \/ UNCHANGED <<exp, best>> /\ ~(exp = "active" /\ d \in {"STOP_SUCCEEDED", "STOP_FAILED"})
      \/ exp = "active" /\ d = "STOP_SUCCEEDED" /\ exp' = "succeeded" /\ best' = n
      \/ exp = "active" /\ d = "STOP_FAILED" /\ exp' = "failed" /\ best' = best
  BY DEF Decides, Conclude
<1>4. NodeShapes'
  <2>1. exp' \in {"none", "active"} \cup Ended /\ best' \in {0} \cup Nodes
    BY <1>3 DEF NodeShapes, Ended
  <2>2. node' \in [Nodes -> {"none", "planned", "active", "evaluating", "deciding"} \cup Settled]
    BY <1>0 DEF NodeShapes, Decides
  <2>3. dec' \in [Nodes -> {"none"} \cup Outcomes]
    BY <1>0 DEF NodeShapes, Decides
  <2> QED BY <1>1, <2>1, <2>2, <2>3 DEF NodeShapes
<1>5. NodeInv(n)'
  BY <1>0, <1>1, <1>2, DecideStays DEF NodeInv, Settled, Outcomes
<1>6. \A i \in Nodes : NodeInv(i)'
  BY <1>1, <1>5, DecideStays DEF NodeInv
<1>7. \A i \in Nodes : (node'[i] = "none" <=> node[i] = "none") /\ (ForPlanning(i) => ForPlanning(i)')
  <2>1. ~ForPlanning(n) /\ node'[n] # "none"
    BY <1>0, <1>1 DEF ForPlanning, Settled
  <2> QED BY <1>1, <2>1 DEF ForPlanning
<1>8. exp' = "none" => exp = "none"
  BY <1>3
<1>9. EndInv'
  <2>1. exp = "succeeded" => best \in Nodes /\ best # n
    BY <1>2 DEF EndInv, NodeShapes
  <2>2. CASE UNCHANGED <<exp, best>>
    BY <1>1, <1>2, <2>1, <2>2 DEF EndInv
  <2>3. CASE exp = "active" /\ d = "STOP_SUCCEEDED" /\ exp' = "succeeded" /\ best' = n
    BY <1>1, <2>3, LifecycleAssumption DEF EndInv, Nodes
  <2>4. CASE exp = "active" /\ d = "STOP_FAILED" /\ exp' = "failed" /\ best' = best
    BY <1>1, <2>4 DEF EndInv
  <2> QED BY <1>3, <2>2, <2>3, <2>4
<1> QED BY <1>1, <1>4, <1>6, <1>7, <1>8, <1>9, ChainStays

LEMMA BranchesBranch ==
  ASSUME BranchInv, UNCHANGED setup, NEW b, Branches(b)
  PROVE  BranchInv' /\ \A n \in Nodes : node[n] # "none" => node'[n] = node[n]
<1> USE DEF BranchInv
<1>1. PICK k \in 0..MaxNodes : /\ \A n \in Nodes : node[n] # "none" <=> n <= k
                               /\ \A n \in Nodes : n < k => ForPlanning(n)
  BY DEF ChainInv
<1>2. MaxNodes \in Nat /\ Nodes = 1..MaxNodes
  BY LifecycleAssumption DEF Nodes
<1>3. Existing = 1..k
  BY <1>1, <1>2 DEF Existing
<1>4. Cardinality(Existing) = k
  BY <1>2, <1>3, FS_Interval
<1>5. k + 1 \in Nodes
  BY <1>2, <1>3 DEF Branches
<1> DEFINE j == k + 1
<1>6. /\ node'[j] = "planned" /\ branch'[j] = b /\ node[j] = "none"
      /\ \A i \in Nodes : i # j => node'[i] = node[i] /\ branch'[i] = branch[i]
      /\ UNCHANGED <<exp, best, ev, res, dec, noted>> /\ exp = "active"
  BY <1>1, <1>2, <1>4, <1>5 DEF NodeShapes, Branches
<1>7. IsBranch(j, b)
  <2>1. b.parent \in 1..k /\ b \in [cand : Candidates, parent : {b.parent}, origin : {b.origin}, runs : BOOLEAN]
    BY <1>3 DEF Branches
  <2>2. b.parent \in 0..(j - 1)
    BY <2>1
  <2> QED BY <2>1, <2>2 DEF IsBranch
<1>8. NodeShapes'
  <2>1. node' \in [Nodes -> {"none", "planned", "active", "evaluating", "deciding"} \cup Settled]
    BY <1>4, <1>5 DEF NodeShapes, Branches
  <2>2. branch' = [n \in Nodes |-> branch'[n]]
    BY DEF NodeShapes, Branches
  <2>3. \A n \in Nodes : IsBranch(n, branch'[n])
    BY <1>6, <1>7 DEF NodeShapes
  <2>4. \A n \in Nodes : IsBranch(n, branch[n])'
    BY <2>3 DEF IsBranch
  <2> QED BY <1>6, <2>1, <2>2, <2>4 DEF NodeShapes
<1>9. \A i \in Nodes : NodeInv(i)'
  <2>1. NodeInv(j)'
    BY <1>5, <1>6, DecideStays DEF NodeInv, Settled
  <2> QED BY <1>6, <2>1, DecideStays DEF NodeInv
<1>10. \A i \in Nodes : i <= k => ForPlanning(i)'
  BY <1>2, <1>3, <1>6 DEF Branches, ForPlanning
<1>11. Existing' = Existing \cup {j} /\ j \notin Existing
  BY <1>3, <1>5, <1>6 DEF Existing
<1>12. ChainInv'
  <2>1. j \in 0..MaxNodes /\ \A n \in Nodes : (node'[n] # "none" <=> n <= j) /\ (n < j => ForPlanning(n)')
    BY <1>1, <1>2, <1>5, <1>6, <1>10
  <2>2. \E i \in 0..MaxNodes : /\ \A n \in Nodes : node'[n] # "none" <=> n <= i
                              /\ \A n \in Nodes : n < i => ForPlanning(n)'
    BY <2>1
  <2>3. \A m, n \in Existing' : m # n => branch'[m].cand # branch'[n].cand
    <3>1. \A n \in Existing : n \in Nodes /\ n # j /\ branch'[n] = branch[n] /\ branch[n].cand # b.cand
      BY <1>6, <1>11 DEF Branches, Existing
    <3>2. \A m, n \in Existing : m # n => branch[m].cand # branch[n].cand
      BY DEF ChainInv
    <3> QED BY <1>6, <1>11, <3>1, <3>2
  <2>4. \A n \in Existing' \ {1} : branch'[n].parent \in Existing'
    <3>1. b.parent \in Existing
      BY DEF Branches
    <3>2. \A n \in Existing \ {1} : branch[n].parent \in Existing /\ branch'[n] = branch[n]
      BY <1>6, <1>11 DEF ChainInv, Existing
    <3> QED BY <1>6, <1>11, <3>1, <3>2
  <2>5. \A n \in Existing' \ {1} : branch'[n].parent \in Nodes /\ branch'[n].parent <= k
    <3>1. b.parent \in 1..k
      BY <1>3 DEF Branches
    <3>2. \A n \in Existing \ {1} : branch[n].parent \in 1..k /\ branch'[n] = branch[n]
      BY <1>3, <1>6, <1>11 DEF ChainInv, Existing
    <3> QED BY <1>2, <1>6, <1>11, <3>1, <3>2
  <2>6. \A n \in Existing' \ {1} : ForPlanning(branch[n].parent)'
    BY <1>10, <2>5 DEF ForPlanning
  <2> QED BY <1>6, <2>2, <2>3, <2>4, <2>6 DEF ChainInv
<1>13. EndInv'
  BY <1>6, EndStays
<1> QED BY <1>6, <1>8, <1>9, <1>12, <1>13

-----------------------------------------------------------------------------
(* A step: a change of the work, a change of the nodes, and the host's     *)
(* memory.                                                                 *)

Works ==
  \/ \E a \in Attempts : Submits(a) \/ IsRefused(a) \/ Evaluates(a) \/ WorkEnds(a)
  \/ \E a \in Attempts, s \in {"succeeded", "failed", "preempted"} : Ends(a, s)
  \/ \E n \in Nodes, s \in {"succeeded", "failed"} : RunEnds(n, s)
  \/ Unworked

Changes ==
  \/ \E n \in Nodes : (\E s \in {"active", "failed"} : Moves(n, s))
                      \/ (\E m \in Measurements : Measures(n, m))
                      \/ Begins(n) \/ Awaits(n) \/ (\E d \in Outcomes : Decides(n, d))
  \/ Exhausts \/ Undecided
  \/ \E b : Branches(b)

\* A submission that is answered, and a node that is on its way, stay so.
SubStays == \A a \in Attempts : sub[a] \in {"confirmed", "failed"} => sub'[a] = sub[a]
NodeStays ==
  \A n \in Nodes : /\ node'[n] \in {"none", "planned"} => node[n] \in {"none", "planned"}
                   /\ node[n] \in {"deciding"} \cup Settled => node'[n] \in {"deciding"} \cup Settled

LEMMA WorksStep ==
  ASSUME WorkInv, UNCHANGED setup, Works
  PROVE  WorkInv' /\ SubStays /\ \A n \in Nodes : run[n] = "none" => run'[n] = "none"
<1>1. WorkInv'
  BY SubmitsWork, EndsWork, RunEndsWork, EvaluatesWork, WorkEndsWork, UnworkedWork DEF Works
<1>2. SubStays
  <2>1. ASSUME NEW a \in Attempts, Submits(a) \/ IsRefused(a) \/ Evaluates(a) \/ WorkEnds(a)
        PROVE  SubStays
    BY <2>1 DEF WorkInv, WorkShapes, AttemptInv, Submits, IsRefused, Evaluates, WorkEnds, SubStays
  <2>2. ASSUME UNCHANGED sub PROVE SubStays
    BY <2>2 DEF SubStays
  <2> QED BY <2>1, <2>2 DEF Works, Ends, RunEnds, Unworked
<1>3. ASSUME NEW n \in Nodes, run[n] = "none"
      PROVE  run'[n] = "none"
  BY <1>3 DEF Works, Submits, IsRefused, Evaluates, WorkEnds, Ends, RunEnds, Unworked, WorkInv, WorkShapes
<1> QED BY <1>1, <1>2, <1>3

LEMMA ChangesStep ==
  ASSUME BranchInv, UNCHANGED setup, Changes
  PROVE  BranchInv' /\ NodeStays
<1>1. BranchInv'
  BY MovesBranch, MeasuresBranch, BeginsBranch, DecidesBranch, ExhaustsBranch, BranchesBranch DEF Changes
<1>2. ASSUME UNCHANGED node PROVE NodeStays
  BY <1>2 DEF NodeStays
<1>3. ASSUME NEW n \in Nodes, Begins(n) \/ Awaits(n)
      PROVE  NodeStays
  BY <1>3 DEF BranchInv, NodeShapes, Begins, Awaits, NodeStays, Settled
<1>4. ASSUME NEW n \in Nodes, NEW d \in Outcomes, Decides(n, d)
      PROVE  NodeStays
  BY <1>4 DEF BranchInv, NodeShapes, Decides, NodeStatus, NodeStays, Settled
<1>5. ASSUME NEW b, Branches(b)
      PROVE  NodeStays
  <2>1. \A n \in Nodes : node[n] # "none" => node'[n] = node[n]
    BY <1>5, BranchesBranch
  <2> QED BY <2>1 DEF NodeStays, Settled
<1> QED BY <1>1, <1>2, <1>3, <1>4, <1>5 DEF Changes, Moves, Measures, Exhausts, Undecided

LEMMA StepKeeps ==
  ASSUME Inv, UNCHANGED setup, Works, Changes, SubStays /\ NodeStays => HostInv'
  PROVE  Inv'
<1>1. /\ WorkInv' /\ SubStays /\ BranchInv' /\ NodeStays
      /\ \A n \in Nodes : run[n] = "none" => run'[n] = "none"
  BY WorksStep, ChangesStep DEF Inv
<1>2. Unrealized'
  BY <1>1 DEF Inv, Unrealized, NodeStays
<1> QED BY <1>1, <1>2 DEF Inv

\* What a host is told to do next.
LEMMA TaskMoves ==
  ASSUME TasksInv, SubStays, NodeStays, NEW h \in Hosts, NEW t, task' = [task EXCEPT ![h] = t],
         IsTask(t), TaskOK(t)'
  PROVE  TasksInv'
<1>1. task'[h] = t /\ (\A g \in Hosts : g # h => task'[g] = task[g]) /\ task' = [g \in Hosts |-> task'[g]]
  BY DEF TasksInv
<1>2. ASSUME NEW g \in Hosts, g # h
      PROVE  IsTask(task'[g]) /\ TaskOK(task[g])'
  <2>1. PICK u : u = task[g] /\ u = task'[g]
    BY <1>1, <1>2
  <2>2. IsTask(u) /\ TaskOK(u)
    BY <2>1 DEF TasksInv
  <2>3. u.n \in Nodes /\ <<u.n, 0>> \in Attempts
    BY <2>2, FirstAttempt DEF IsTask
  <2>4. TaskOK(u)'
    BY <2>2, <2>3 DEF TaskOK, SubStays, NodeStays
  <2> QED BY <2>1, <2>2, <2>4
<1>3. IsTask(task'[h]) /\ TaskOK(task[h])'
  BY <1>1
<1>4. \A g \in Hosts : IsTask(task[g])' /\ TaskOK(task[g])'
  BY <1>2, <1>3 DEF IsTask
<1> QED BY <1>1, <1>4 DEF TasksInv

LEMMA TaskRests ==
  ASSUME TasksInv, SubStays, NodeStays, UNCHANGED task
  PROVE  TasksInv'
<1>1. ASSUME NEW g \in Hosts
      PROVE  IsTask(task[g])' /\ TaskOK(task[g])'
  <2>1. PICK u : u = task[g] /\ u = task'[g]
    OBVIOUS
  <2>2. IsTask(u) /\ TaskOK(u)
    BY <2>1 DEF TasksInv
  <2>3. u.n \in Nodes /\ <<u.n, 0>> \in Attempts
    BY <2>2, FirstAttempt DEF IsTask
  <2>4. TaskOK(u)'
    BY <2>2, <2>3 DEF TaskOK, SubStays, NodeStays
  <2> QED BY <2>1, <2>2, <2>4 DEF IsTask
<1> QED BY <1>1 DEF TasksInv

LEMMA NoTaskOK == IsTask(NoTask) /\ TaskOK(NoTask) /\ TaskOK(NoTask)'
BY LifecycleAssumption DEF IsTask, TaskOK, NoTask, Steps, Nodes

\* A chain that is over, and one that goes on.
LEMMA TaskEnds ==
  ASSUME TasksInv, SubStays, NodeStays, NEW h \in Hosts, task' = [task EXCEPT ![h] = NoTask]
  PROVE  TasksInv'
BY NoTaskOK, TaskMoves

LEMMA TaskGoes ==
  ASSUME TasksInv, SubStays, NodeStays, NEW h \in Hosts,
         NEW s \in Steps \ {"unmeasured", "attempt"}, Go(h, s),
         s = "run" => sub'[<<task[h].n, 0>>] \in {"confirmed", "failed"},
         s \in {"decide", "record"} => node'[task[h].n] \in {"deciding"} \cup Settled
  PROVE  TasksInv'
<1>1. PICK u : u = task[h]
  OBVIOUS
<1>2. IsTask(u)
  BY <1>1 DEF TasksInv
<1> DEFINE t == [u EXCEPT !.at = s]
<1>3. t.at = s /\ t.n = u.n /\ t.k = u.k /\ IsTask(t)
  BY <1>2 DEF IsTask
<1>4. TaskOK(t)'
  BY <1>1, <1>3 DEF TaskOK
<1>5. task' = [task EXCEPT ![h] = t]
  BY <1>1 DEF Go
<1> QED BY <1>3, <1>4, <1>5, TaskMoves

LEMMA PassMoves ==
  ASSUME PassesInv, NEW h \in Hosts, NEW p, pass' = [pass EXCEPT ![h] = p], IsPass(p), PassOK(p)
  PROVE  PassesInv'
<1>1. pass'[h] = p /\ (\A g \in Hosts : g # h => pass'[g] = pass[g]) /\ pass' = [g \in Hosts |-> pass'[g]]
  BY DEF PassesInv
<1>2. \A g \in Hosts : IsPass(pass'[g]) /\ PassOK(pass'[g])
  BY <1>1 DEF PassesInv
<1>3. \A g \in Hosts : IsPass(pass[g])' /\ PassOK(pass[g])'
  BY <1>2 DEF IsPass, PassOK
<1> QED BY <1>1, <1>3 DEF PassesInv

LEMMA NoPassOK == IsPass(NoPass) /\ PassOK(NoPass)
BY LifecycleAssumption DEF IsPass, PassOK, NoPass, Nodes

LEMMA PassOver ==
  ASSUME PassesInv, NEW h \in Hosts, PassEnds(h)
  PROVE  PassesInv'
BY NoPassOK, PassMoves DEF PassEnds

LEMMA PassRests ==
  ASSUME PassesInv, UNCHANGED pass
  PROVE  PassesInv'
BY DEF PassesInv, IsPass, PassOK

LEMMA DoneDue ==
  ASSUME FlagShapes, NEW h \in Hosts, Done(h)
  PROVE  due' \in [Hosts -> BOOLEAN]
<1>1. (due[h] \/ task[h].then = "adapt") \in BOOLEAN
  OBVIOUS
<1> QED BY <1>1, Zenon DEF FlagShapes, Done

-----------------------------------------------------------------------------
(* The steps that write nothing to the record. *)

LEMMA StillChanges ==
  ASSUME BranchInv, UNCHANGED <<exp, best, node, branch, ev, res, dec, noted>>
  PROVE  Changes
BY DEF BranchInv, NodeShapes, Changes, Undecided

LEMMA QuietKeeps ==
  ASSUME Inv, UNCHANGED <<setup, record, out>>, SubStays /\ NodeStays => HostInv'
  PROVE  Inv'
<1>1. Works
  BY DEF record, Works, Unworked
<1>2. Changes
  BY StillChanges DEF Inv, record
<1> QED BY <1>1, <1>2, StepKeeps

LEMMA OvertakenKeeps ==
  ASSUME Inv, NEW h \in Hosts, NEW a \in Attempts, Overtaken(h, a)
  PROVE  Inv'
<1>1. ASSUME SubStays, NodeStays PROVE HostInv'
  <2>1. FlagShapes'
    BY DEF Inv, HostInv, FlagShapes, Overtaken
  <2> QED BY <1>1, <2>1, TaskRests, PassRests DEF Inv, HostInv, Overtaken
<1> QED BY <1>1, QuietKeeps DEF Overtaken

LEMMA EndsUnmeasuredKeeps ==
  ASSUME Inv, NEW h \in Hosts, NEW a \in Attempts, EndsUnmeasured(h, a)
  PROVE  Inv'
<1>1. ASSUME SubStays, NodeStays PROVE HostInv'
  <2>1. FlagShapes'
    BY DEF Inv, HostInv, FlagShapes, EndsUnmeasured
  <2>2. PICK n \in Nodes, k \in 0..MaxEvals : a = <<n, k>> /\ a[1] = n /\ a[2] = k /\ k # 0
    BY DEF Attempts, EndsUnmeasured
  <2> DEFINE t == [at |-> "unmeasured", n |-> n, k |-> k, then |-> "adapt"]
  <2>3. IsTask(t) /\ TaskOK(t)'
    BY <2>2 DEF IsTask, TaskOK, Steps
  <2>4. task' = [task EXCEPT ![h] = t]
    BY <2>2 DEF EndsUnmeasured
  <2>5. TasksInv'
    BY <1>1, <2>3, <2>4, TaskMoves DEF Inv, HostInv
  <2> QED BY <2>1, <2>5, PassRests DEF Inv, HostInv, EndsUnmeasured
<1> QED BY <1>1, QuietKeeps DEF EndsUnmeasured

LEMMA ContinueKeeps ==
  ASSUME Inv, NEW h \in Hosts, ContinueToEvaluation(h)
  PROVE  Inv'
<1>1. ASSUME SubStays, NodeStays PROVE HostInv'
  <2>1. (Go(h, "begin") /\ UNCHANGED due) \/ Done(h)
    BY DEF ContinueToEvaluation
  <2>2. due' \in [Hosts -> BOOLEAN]
    BY <2>1, DoneDue DEF Inv, HostInv, FlagShapes
  <2>3. FlagShapes'
    BY <2>2 DEF Inv, HostInv, FlagShapes, ContinueToEvaluation, Rest
  <2>4. TasksInv'
    BY <1>1, <2>1, TaskGoes, TaskEnds DEF Inv, HostInv, Done, Steps
  <2> QED BY <2>3, <2>4, PassRests DEF Inv, HostInv, ContinueToEvaluation, Rest
<1> QED BY <1>1, QuietKeeps DEF ContinueToEvaluation, Rest

LEMMA ReadDecisionKeeps ==
  ASSUME Inv, NEW h \in Hosts, ReadDecision(h)
  PROVE  Inv'
<1>1. ASSUME SubStays, NodeStays PROVE HostInv'
  <2>1. (Go(h, "record") /\ UNCHANGED <<due, node>> /\ node[task[h].n] = "deciding") \/ Done(h)
    BY DEF ReadDecision, record
  <2>2. due' \in [Hosts -> BOOLEAN]
    BY <2>1, DoneDue DEF Inv, HostInv, FlagShapes
  <2>3. FlagShapes'
    BY <2>2 DEF Inv, HostInv, FlagShapes, ReadDecision, Rest
  <2>4. TasksInv'
    BY <1>1, <2>1, TaskGoes, TaskEnds DEF Inv, HostInv, Done, Steps
  <2> QED BY <2>3, <2>4, PassRests DEF Inv, HostInv, ReadDecision, Rest
<1> QED BY <1>1, QuietKeeps DEF ReadDecision, Rest

LEMMA StartPassKeeps ==
  ASSUME Inv, NEW h \in Hosts, StartPass(h)
  PROVE  Inv'
<1>1. ASSUME SubStays, NodeStays PROVE HostInv'
  <2>1. FlagShapes'
    BY DEF Inv, HostInv, FlagShapes, StartPass
  <2> DEFINE p == IF esc[h] THEN NoPass ELSE [NoPass EXCEPT !.at = "round"]
  <2>2. IsPass(p) /\ PassOK(p)
    BY LifecycleAssumption DEF IsPass, PassOK, NoPass, Nodes
  <2>3. pass' = [pass EXCEPT ![h] = p]
    BY DEF StartPass
  <2> HIDE DEF p
  <2>4. PassesInv'
    BY <2>2, <2>3, PassMoves DEF Inv, HostInv
  <2> QED BY <1>1, <2>1, <2>4, TaskRests DEF Inv, HostInv, StartPass
<1> QED BY <1>1, QuietKeeps DEF StartPass

LEMMA PlannerDeclinesKeeps ==
  ASSUME Inv, NEW h \in Hosts, PlannerDeclines(h)
  PROVE  Inv'
<1>1. ASSUME SubStays, NodeStays PROVE HostInv'
  <2>1. FlagShapes'
    BY DEF Inv, HostInv, FlagShapes, PlannerDeclines, Escalate
  <2>2. PassesInv'
    BY PassOver DEF Inv, HostInv, PlannerDeclines, Escalate
  <2> QED BY <1>1, <2>1, <2>2, TaskRests DEF Inv, HostInv, PlannerDeclines
<1> QED BY <1>1, QuietKeeps DEF PlannerDeclines

LEMMA CrashKeeps ==
  ASSUME Inv, NEW h \in Hosts, Crash(h)
  PROVE  Inv'
<1>1. ASSUME SubStays, NodeStays PROVE HostInv'
  <2>1. crashes' \in 0..setup'.deaths
    <3>1. setup.deaths \in Nat
      BY LifecycleAssumption DEF Inv, WorkInv, WorkShapes
    <3> QED BY <3>1 DEF Inv, HostInv, FlagShapes, Crash
  <2>2. FlagShapes'
    BY <2>1, LifecycleAssumption DEF Inv, HostInv, FlagShapes, Crash
  <2>3. TasksInv' /\ PassesInv'
    BY <1>1, TaskEnds, PassOver DEF Inv, HostInv, Crash, PassEnds
  <2> QED BY <2>2, <2>3 DEF HostInv
<1> QED BY <1>1, QuietKeeps DEF Crash

LEMMA RestartKeeps ==
  ASSUME Inv, NEW h \in Hosts, Restart(h) \/ Attach(h) \/ Wait(h)
  PROVE  Inv'
<1>1. ASSUME SubStays, NodeStays PROVE HostInv'
  <2>1. crashes' \in 0..setup'.deaths
    <3>1. setup.deaths \in Nat
      BY LifecycleAssumption DEF Inv, WorkInv, WorkShapes
    <3> QED BY <3>1 DEF Inv, HostInv, FlagShapes, Restart, Attach, Wait
  <2>2. 0 \in 0..(MaxNodes + 1) /\ 1 \in 0..(MaxNodes + 1)
    BY LifecycleAssumption
  <2>3. sweep' \in [Hosts -> 0..(MaxNodes + 1)]
    BY <2>2 DEF Inv, HostInv, FlagShapes, Restart, Attach, Wait
  <2>4. up' \in [Hosts -> BOOLEAN] /\ due' \in [Hosts -> BOOLEAN] /\ UNCHANGED <<watch, esc>>
    BY DEF Inv, HostInv, FlagShapes, Restart, Attach, Wait
  <2>5. FlagShapes'
    BY <2>1, <2>3, <2>4 DEF Inv, HostInv, FlagShapes
  <2> QED BY <1>1, <2>5, TaskRests, PassRests DEF Inv, HostInv, Restart, Attach, Wait
<1> QED BY <1>1, QuietKeeps DEF Restart, Attach, Wait

LEMMA SweepKeeps ==
  ASSUME Inv, NEW h \in Hosts, Sweep(h)
  PROVE  Inv'
<1>1. ASSUME SubStays, NodeStays PROVE HostInv'
  <2> DEFINE n == sweep[h]
             refused == {a \in Unsettled(n) : sub[a] = "failed"}
  <2>1. CASE n \notin Existing
    <3>0. 0 \in 0..(MaxNodes + 1)
      BY LifecycleAssumption
    <3>1. FlagShapes'
      BY <2>1, <3>0 DEF Inv, HostInv, FlagShapes, Sweep
    <3> QED BY <1>1, <2>1, <3>1, TaskRests, PassRests DEF Inv, HostInv, Sweep
  <2>2. CASE n \in Existing
    <3>1. n \in Nodes /\ n + 1 \in 0..(MaxNodes + 1)
      BY <2>2, LifecycleAssumption DEF Existing, Nodes
    <3>2. FlagShapes'
      BY <2>2, <3>1 DEF Inv, HostInv, FlagShapes, Sweep, Unsettled, LiveAttempts
    <3>3. CASE refused # {}
      <4>1. PICK a \in refused :
              task' = [task EXCEPT ![h] = [at |-> "unmeasured", n |-> n, k |-> a[2], then |-> "sweep"]]
        BY <2>2, <3>3 DEF Sweep
      <4>2. PICK i \in Nodes, k \in 0..MaxEvals : a = <<i, k>> /\ a[1] = i /\ a[2] = k /\ i = n
        BY <4>1 DEF Unsettled, LiveAttempts, Attempts
      <4> DEFINE t == [at |-> "unmeasured", n |-> i, k |-> k, then |-> "sweep"]
      <4>3. sub'[a] = "failed"
        BY <4>1 DEF Sweep, record
      <4>4. IsTask(t) /\ TaskOK(t)'
        BY <4>2, <4>3 DEF IsTask, TaskOK, Steps
      <4>5. task' = [task EXCEPT ![h] = t]
        BY <4>1, <4>2
      <4>6. TasksInv'
        BY <1>1, <4>4, <4>5, TaskMoves DEF Inv, HostInv
      <4> QED BY <3>2, <4>6, PassRests DEF Inv, HostInv, Sweep
    <3>4. CASE refused = {}
      <4>1. task' = [task EXCEPT ![h] = IF CarryOn(n) = "idle" THEN NoTask
                                       ELSE [at |-> CarryOn(n), n |-> n, k |-> 0, then |-> "sweep"]]
        BY <2>2, <3>4 DEF Sweep
      <4>2. CASE CarryOn(n) = "idle"
        <5>1. TasksInv'
          BY <1>1, <4>1, <4>2, TaskEnds DEF Inv, HostInv
        <5> QED BY <3>2, <5>1, PassRests DEF Inv, HostInv, Sweep
      <4>3. CASE CarryOn(n) # "idle"
        <5>1. /\ CarryOn(n) \in {"evaluate", "decide", "node", "evrun", "start", "idle"}
              /\ CarryOn(n) = "decide" => node[n] = "deciding"
          BY DEF CarryOn
        <5>2. PICK c, i : c = CarryOn(n) /\ i = n
          OBVIOUS
        <5> DEFINE t == [at |-> c, n |-> i, k |-> 0, then |-> "sweep"]
        <5>3. IsTask(t)
          BY <3>1, <5>1, <5>2, LifecycleAssumption DEF IsTask, Steps
        <5>4. TaskOK(t)'
          <6>1. node' = node
            BY DEF Sweep, record
          <6> QED BY <5>1, <5>2, <6>1 DEF TaskOK
        <5>5. task' = [task EXCEPT ![h] = t]
          BY <4>1, <4>3, <5>2
        <5>6. TasksInv'
          BY <1>1, <5>3, <5>4, <5>5, TaskMoves DEF Inv, HostInv
        <5> QED BY <3>2, <5>6, PassRests DEF Inv, HostInv, Sweep
      <4> QED BY <4>2, <4>3
    <3> QED BY <3>3, <3>4
  <2> QED BY <2>1, <2>2
<1> QED BY <1>1, QuietKeeps DEF Sweep

-----------------------------------------------------------------------------
(* Submission and settlement. *)

LEMMA AttemptParts ==
  ASSUME NEW a \in Attempts
  PROVE  a[1] \in Nodes /\ a[2] \in 0..MaxEvals /\ a = <<a[1], a[2]>>
BY DEF Attempts

\* The task of a host, and what it may rely on.
LEMMA TaskShape ==
  ASSUME TasksInv, NEW h \in Hosts
  PROVE  /\ task[h].n \in Nodes /\ <<task[h].n, 0>> \in Attempts
         /\ task[h].at \in {"attempt", "unmeasured"} => <<task[h].n, task[h].k>> \in Attempts
         /\ task[h].at = "attempt" => task[h].k >= 1
         /\ task[h].k \in -1..MaxEvals
         /\ TaskOK(task[h])
<1>1. PICK u : u = task[h]
  OBVIOUS
<1>2. IsTask(u) /\ TaskOK(task[h])
  BY <1>1 DEF TasksInv
<1>3. u.n \in Nodes /\ u.k \in -1..MaxEvals /\ (u.at = "unmeasured" => u.k >= 0) /\ (u.at = "attempt" => u.k >= 1)
  BY <1>2 DEF IsTask
<1>4. u.at \in {"attempt", "unmeasured"} => u.k \in 0..MaxEvals
  BY <1>3, LifecycleAssumption
<1> QED BY <1>1, <1>2, <1>3, <1>4, FirstAttempt DEF Attempts

LEMMA FlagsKept ==
  ASSUME FlagShapes, UNCHANGED <<setup, up, esc, crashes>>,
         watch' \in [Hosts -> SUBSET Attempts], sweep' \in [Hosts -> 0..(MaxNodes + 1)],
         due' \in [Hosts -> BOOLEAN]
  PROVE  FlagShapes'
BY DEF FlagShapes

LEMMA FlagTypes ==
  ASSUME FlagShapes
  PROVE  /\ watch \in [Hosts -> SUBSET Attempts] /\ sweep \in [Hosts -> 0..(MaxNodes + 1)]
         /\ due \in [Hosts -> BOOLEAN] /\ esc \in [Hosts -> BOOLEAN]
BY DEF FlagShapes

LEMMA ConfirmKeeps ==
  ASSUME Inv, NEW h \in Hosts, NEW a \in Attempts, Confirm(h, a)
  PROVE  Inv'
<1>1. Works
  BY DEF Confirm, Works, Submits
<1>2. Changes
  BY StillChanges DEF Inv, Confirm
<1>3. ASSUME SubStays, NodeStays PROVE HostInv'
  BY <1>3, FlagTypes, FlagsKept, TaskRests, PassRests DEF Inv, HostInv, Confirm, memory
<1>4. UNCHANGED setup
  BY DEF Confirm
<1> QED BY <1>1, <1>2, <1>3, <1>4, StepKeeps

LEMMA RejectKeeps ==
  ASSUME Inv, NEW h \in Hosts, NEW a \in Attempts, Reject(h, a)
  PROVE  Inv'
<1>1. Works
  BY DEF Reject, Works, IsRefused
<1>2. Changes
  BY StillChanges DEF Inv, Reject
<1>3. ASSUME SubStays, NodeStays PROVE HostInv'
  <2>1. watch' \in [Hosts -> SUBSET Attempts]
    BY FlagTypes DEF Inv, HostInv, Reject
  <2>2. FlagShapes'
    BY <2>1, FlagTypes, FlagsKept DEF Inv, HostInv, Reject
  <2>3. PICK n, k : n = a[1] /\ k = a[2] /\ n \in Nodes /\ k \in 0..MaxEvals /\ a = <<n, k>>
    BY AttemptParts
  <2> DEFINE t == [at |-> "unmeasured", n |-> n, k |-> k, then |-> "end"]
  <2>4. sub'[a] = "failed"
    BY DEF Inv, WorkInv, WorkShapes, Reject
  <2>5. IsTask(t) /\ TaskOK(t)'
    BY <2>3, <2>4 DEF IsTask, TaskOK, Steps
  <2>6. task' = [task EXCEPT ![h] = t]
    BY <2>3 DEF Reject
  <2>7. TasksInv'
    BY <1>3, <2>5, <2>6, TaskMoves DEF Inv, HostInv
  <2> QED BY <2>2, <2>7, PassRests DEF Inv, HostInv, Reject
<1>4. UNCHANGED setup
  BY DEF Reject
<1> QED BY <1>1, <1>2, <1>3, <1>4, StepKeeps

LEMMA RuntimeEndsKeeps ==
  ASSUME Inv, NEW a \in Attempts, RuntimeEnds(a)
  PROVE  Inv'
<1>1. Works
  <2>1. setup.answers \subseteq Measurements
    BY LifecycleAssumption DEF Inv, WorkInv, WorkShapes
  <2>2. WorkEnds(a)
    BY <2>1 DEF RuntimeEnds, WorkEnds, Outs, record
  <2> QED BY <2>2 DEF Works
<1>2. Changes
  BY StillChanges DEF Inv, RuntimeEnds, record
<1>3. ASSUME SubStays, NodeStays PROVE HostInv'
  BY <1>3, FlagTypes, FlagsKept, TaskRests, PassRests DEF Inv, HostInv, RuntimeEnds, memory
<1>4. UNCHANGED setup
  BY DEF RuntimeEnds
<1> QED BY <1>1, <1>2, <1>3, <1>4, StepKeeps

LEMMA SettleTrainingKeeps ==
  ASSUME Inv, NEW h \in Hosts, NEW a \in Attempts, SettleTraining(h, a)
  PROVE  Inv'
<1>1. Works
  <2>1. ASSUME att[a] = "live"
        PROVE  \E s \in {"succeeded", "failed", "preempted"} : Ends(a, s)
    BY <2>1 DEF SettleTraining, EndAttempt, Ends
  <2>2. ASSUME att[a] # "live" PROVE Unworked
    BY <2>2 DEF SettleTraining, EndAttempt, Unworked
  <2> QED BY <2>1, <2>2 DEF Works
<1>2. Changes
  BY StillChanges DEF Inv, SettleTraining
<1>3. ASSUME SubStays, NodeStays PROVE HostInv'
  <2>1. watch' \in [Hosts -> SUBSET Attempts]
    BY FlagTypes DEF Inv, HostInv, SettleTraining
  <2>2. FlagShapes'
    BY <2>1, FlagTypes, FlagsKept DEF Inv, HostInv, SettleTraining
  <2>3. PICK n : n = a[1] /\ n \in Nodes /\ a = <<n, 0>>
    BY AttemptParts DEF SettleTraining
  <2> DEFINE t == [at |-> "run", n |-> n, k |-> 0, then |-> "end"]
  <2>4. sub'[a] = "confirmed"
    BY DEF Inv, WorkInv, AttemptInv, SettleTraining
  <2>5. IsTask(t) /\ TaskOK(t)'
    BY <2>3, <2>4, LifecycleAssumption DEF IsTask, TaskOK, Steps
  <2>6. task' = [task EXCEPT ![h] = t]
    BY <2>3 DEF SettleTraining
  <2>7. TasksInv'
    BY <1>3, <2>5, <2>6, TaskMoves DEF Inv, HostInv
  <2> QED BY <2>2, <2>7, PassRests DEF Inv, HostInv, SettleTraining
<1>4. UNCHANGED setup
  BY DEF SettleTraining
<1> QED BY <1>1, <1>2, <1>3, <1>4, StepKeeps

LEMMA SettleTrainingRunKeeps ==
  ASSUME Inv, NEW h \in Hosts, SettleTrainingRun(h)
  PROVE  Inv'
<1>0. PICK n : n = task[h].n /\ n \in Nodes /\ sub[<<n, 0>>] \in {"confirmed", "failed"}
  BY TaskShape DEF Inv, HostInv, SettleTrainingRun, At, TaskOK
<1>1. Works
  <2>1. ASSUME run[n] = "active"
        PROVE  \E s \in {"succeeded", "failed"} : RunEnds(n, s)
    BY <1>0, <2>1 DEF SettleTrainingRun, RunEnds, Rest
  <2>2. ASSUME run[n] # "active" PROVE Unworked
    BY <1>0, <2>2 DEF SettleTrainingRun, Unworked, Rest
  <2> QED BY <1>0, <2>1, <2>2 DEF Works
<1>2. Changes
  BY StillChanges DEF Inv, SettleTrainingRun
<1>3. ASSUME SubStays, NodeStays PROVE HostInv'
  <2>1. (Go(h, "evaluate") /\ UNCHANGED due) \/ Done(h)
    BY DEF SettleTrainingRun
  <2>2. due' \in [Hosts -> BOOLEAN]
    BY <2>1, DoneDue, FlagTypes DEF Inv, HostInv
  <2>3. FlagShapes'
    BY <2>2, FlagTypes, FlagsKept DEF Inv, HostInv, SettleTrainingRun, Rest
  <2>4. TasksInv'
    BY <1>3, <2>1, TaskGoes, TaskEnds DEF Inv, HostInv, Done, Steps
  <2> QED BY <2>3, <2>4, PassRests DEF Inv, HostInv, SettleTrainingRun, Rest
<1>4. UNCHANGED setup
  BY DEF SettleTrainingRun, Rest
<1> QED BY <1>1, <1>2, <1>3, <1>4, StepKeeps

LEMMA RecordResultKeeps ==
  ASSUME Inv, NEW h \in Hosts, NEW a \in Attempts, RecordResult(h, a)
  PROVE  Inv'
<1>0. PICK n : n = a[1] /\ n \in Nodes
  BY AttemptParts
<1>1. CASE ev[n] = "active" /\ att[a] = "live"
  <2>1. Works
    <3>1. Ends(a, "succeeded")
      BY <1>0, <1>1 DEF RecordResult, Ends
    <3> QED BY <3>1 DEF Works
  <2>2. Changes
    <3>1. Measures(n, out[a])
      BY <1>0, <1>1 DEF RecordResult, Measures
    <3> QED BY <1>0, <3>1 DEF Changes, RecordResult
  <2>3. ASSUME SubStays, NodeStays PROVE HostInv'
    <3>1. watch' \in [Hosts -> SUBSET Attempts]
      BY FlagTypes DEF Inv, HostInv, RecordResult
    <3>2. FlagShapes'
      BY <3>1, FlagTypes, FlagsKept DEF Inv, HostInv, RecordResult
    <3> DEFINE t == [at |-> "node", n |-> n, k |-> 0, then |-> "adapt"]
    <3>3. IsTask(t) /\ TaskOK(t)'
      BY <1>0, LifecycleAssumption DEF IsTask, TaskOK, Steps
    <3>4. task' = [task EXCEPT ![h] = t]
      BY <1>0, <1>1 DEF RecordResult
    <3>5. TasksInv'
      BY <2>3, <3>3, <3>4, TaskMoves DEF Inv, HostInv
    <3> QED BY <3>2, <3>5, PassRests DEF Inv, HostInv, RecordResult
  <2>4. UNCHANGED setup
    BY DEF RecordResult
  <2> QED BY <2>1, <2>2, <2>3, <2>4, StepKeeps
<1>2. CASE ~(ev[n] = "active" /\ att[a] = "live")
  <2>1. UNCHANGED <<setup, record, out>> /\ UNCHANGED <<task, up, sweep, due, pass, esc, crashes>>
    BY <1>0, <1>2 DEF RecordResult, record
  <2>2. watch' \in [Hosts -> SUBSET Attempts]
    BY FlagTypes DEF Inv, HostInv, RecordResult
  <2>3. ASSUME SubStays, NodeStays PROVE HostInv'
    BY <2>1, <2>2, <2>3, FlagTypes, FlagsKept, TaskRests, PassRests DEF Inv, HostInv
  <2> QED BY <2>1, <2>3, QuietKeeps
<1> QED BY <1>1, <1>2

LEMMA SettleUnmeasuredKeeps ==
  ASSUME Inv, NEW h \in Hosts, SettleUnmeasured(h)
  PROVE  Inv'
<1>0. PICK n, k : /\ n = task[h].n /\ k = task[h].k /\ <<n, k>> \in Attempts
                  /\ k = 0 => sub[<<n, 0>>] = "failed"
  BY TaskShape DEF Inv, HostInv, SettleUnmeasured, At, TaskOK
<1>1. Works
  <2> DEFINE a == <<n, k>>
  <2>1. ASSUME att[a] = "live"
        PROVE  \E s \in {"succeeded", "failed", "preempted"} : Ends(a, s)
    BY <1>0, <2>1 DEF SettleUnmeasured, EndAttempt, Ends, Rest
  <2>2. ASSUME att[a] # "live" PROVE Unworked
    BY <1>0, <2>2 DEF SettleUnmeasured, EndAttempt, Unworked, Rest
  <2> QED BY <1>0, <2>1, <2>2 DEF Works
<1>2. Changes
  BY StillChanges DEF Inv, SettleUnmeasured
<1>3. ASSUME SubStays, NodeStays PROVE HostInv'
  <2>1. (Go(h, "run") /\ k = 0) \/ Go(h, "evrun")
    BY <1>0 DEF SettleUnmeasured
  <2>2. FlagShapes'
    BY FlagTypes, FlagsKept DEF Inv, HostInv, SettleUnmeasured, Rest
  <2>3. sub' = sub
    BY DEF SettleUnmeasured
  <2>4. TasksInv'
    BY <1>0, <1>3, <2>1, <2>3, TaskGoes DEF Inv, HostInv, Steps
  <2> QED BY <2>2, <2>4, PassRests DEF Inv, HostInv, SettleUnmeasured, Rest
<1>4. UNCHANGED setup
  BY DEF SettleUnmeasured, Rest
<1> QED BY <1>1, <1>2, <1>3, <1>4, StepKeeps

LEMMA SettleEvaluationRunKeeps ==
  ASSUME Inv, NEW h \in Hosts, SettleEvaluationRun(h)
  PROVE  Inv'
<1>0. PICK n : n = task[h].n /\ n \in Nodes
  BY TaskShape DEF Inv, HostInv
<1>1. Works
  BY DEF SettleEvaluationRun, Works, Unworked, Rest
<1>2. Changes
  <2>1. ASSUME ev[n] = "active" PROVE Moves(n, "failed")
    BY <1>0, <2>1 DEF SettleEvaluationRun, Moves
  <2>2. ASSUME ev[n] # "active" PROVE ev' = ev
    BY <1>0, <2>2 DEF SettleEvaluationRun, Inv, BranchInv, NodeShapes
  <2>3. ASSUME ev' = ev PROVE Changes
    BY <2>3, StillChanges DEF Inv, SettleEvaluationRun
  <2> QED BY <1>0, <2>1, <2>2, <2>3 DEF Changes
<1>3. ASSUME SubStays, NodeStays PROVE HostInv'
  <2>1. FlagShapes'
    BY FlagTypes, FlagsKept DEF Inv, HostInv, SettleEvaluationRun, Rest
  <2>2. TasksInv'
    BY <1>3, TaskGoes DEF Inv, HostInv, SettleEvaluationRun, Steps
  <2> QED BY <2>1, <2>2, PassRests DEF Inv, HostInv, SettleEvaluationRun, Rest
<1>4. UNCHANGED setup
  BY DEF SettleEvaluationRun, Rest
<1> QED BY <1>1, <1>2, <1>3, <1>4, StepKeeps

-----------------------------------------------------------------------------
(* Evaluation and decision. *)

LEMMA RefusedHost ==
  ASSUME HostInv, NEW h \in Hosts, Refused(h), UNCHANGED <<setup, up, watch, pass, esc, crashes>>,
         SubStays, NodeStays
  PROVE  HostInv'
<1>1. 0 \in 0..(MaxNodes + 1)
  BY LifecycleAssumption
<1>2. sweep' \in [Hosts -> 0..(MaxNodes + 1)]
  BY <1>1, FlagTypes DEF HostInv, Refused
<1>3. FlagShapes'
  BY <1>2, FlagTypes, FlagsKept DEF HostInv, Refused
<1> QED BY <1>3, TaskEnds, PassRests DEF HostInv, Refused

LEMMA BeginCycleKeeps ==
  ASSUME Inv, NEW h \in Hosts, BeginCycle(h)
  PROVE  Inv'
<1>0. PICK n : n = task[h].n /\ n \in Nodes
  BY TaskShape DEF Inv, HostInv
<1>1. UNCHANGED Rest
  BY DEF BeginCycle
<1>2. \/ Refused(h)
      \/ Go(h, "exhaust") /\ UNCHANGED <<record, sweep, due>>
      \/ /\ node[n] = "active" /\ node' = [node EXCEPT ![n] = "evaluating"]
         /\ \E measurable \in BOOLEAN :
              /\ ev' = [ev EXCEPT ![n] = IF measurable THEN "created" ELSE ev[n]]
              /\ Go(h, IF measurable THEN "start" ELSE "node")
         /\ UNCHANGED <<exp, best, branch, run, res, dec, noted, att, sub, ledger, sweep, due>>
  BY <1>0 DEF BeginCycle
<1>3. CASE Refused(h)
  BY <1>1, <1>3, RefusedHost, QuietKeeps DEF Inv, Refused, Rest
<1>4. CASE Go(h, "exhaust") /\ UNCHANGED <<record, sweep, due>>
  <2>1. ASSUME SubStays, NodeStays PROVE HostInv'
    <3>1. FlagShapes'
      BY <1>1, <1>4, FlagTypes, FlagsKept DEF Inv, HostInv, Rest
    <3>2. TasksInv'
      BY <1>4, <2>1, TaskGoes DEF Inv, HostInv, Steps
    <3> QED BY <1>1, <3>1, <3>2, PassRests DEF Inv, HostInv, Rest
  <2> QED BY <1>1, <1>4, <2>1, QuietKeeps DEF Rest
<1>5. CASE /\ node[n] = "active" /\ node' = [node EXCEPT ![n] = "evaluating"]
           /\ \E measurable \in BOOLEAN :
                /\ ev' = [ev EXCEPT ![n] = IF measurable THEN "created" ELSE ev[n]]
                /\ Go(h, IF measurable THEN "start" ELSE "node")
           /\ UNCHANGED <<exp, best, branch, run, res, dec, noted, att, sub, ledger, sweep, due>>
  <2>1. Works
    BY <1>1, <1>5 DEF Works, Unworked, Rest
  <2>2. Changes
    <3>1. ev' = [ev EXCEPT ![n] = "created"] \/ ev' = ev
      BY <1>0, <1>5 DEF Inv, BranchInv, NodeShapes
    <3>2. Begins(n)
      BY <1>5, <3>1 DEF Begins
    <3> QED BY <1>0, <3>2 DEF Changes
  <2>3. ASSUME SubStays, NodeStays PROVE HostInv'
    <3>1. FlagShapes'
      BY <1>1, <1>5, FlagTypes, FlagsKept DEF Inv, HostInv, Rest
    <3>2. Go(h, "start") \/ Go(h, "node")
      BY <1>5
    <3>3. TasksInv'
      BY <2>3, <3>2, TaskGoes DEF Inv, HostInv, Steps
    <3> QED BY <1>1, <3>1, <3>3, PassRests DEF Inv, HostInv, Rest
  <2> QED BY <1>1, <2>1, <2>2, <2>3, StepKeeps DEF Rest
<1> QED BY <1>2, <1>3, <1>4, <1>5

LEMMA TriesCounted ==
  ASSUME NEW n
  PROVE  Cardinality(Tries(n)) \in Nat
<1>1. IsFiniteSet(Nodes) /\ IsFiniteSet(0..MaxEvals)
  BY LifecycleAssumption, FS_Interval DEF Nodes
<1>2. IsFiniteSet(Attempts)
  BY <1>1, FS_Product DEF Attempts
<1>3. Tries(n) \subseteq Attempts
  BY DEF Tries
<1> QED BY <1>2, <1>3, FS_Subset, FS_CardinalityType

LEMMA TaskNumbered ==
  ASSUME NEW u, IsTask(u), NEW s \in Steps \ {"unmeasured"}, NEW c \in -1..MaxEvals, s = "attempt" => c >= 1
  PROVE  LET t == [u EXCEPT !.at = s, !.k = c] IN t.at = s /\ t.k = c /\ IsTask(t)
<1> DEFINE t == [u EXCEPT !.at = s, !.k = c]
<1>1. u \in [at : Steps, n : Nodes, k : -1..MaxEvals, then : {"end", "adapt", "sweep"}]
  BY DEF IsTask
<1>2. t.at = s /\ t.k = c /\ t \in [at : Steps, n : Nodes, k : -1..MaxEvals, then : {"end", "adapt", "sweep"}]
  BY <1>1
<1> HIDE DEF t
<1>3. t.at = s /\ t.k = c /\ IsTask(t)
  BY <1>2 DEF IsTask
<1> QED BY <1>3 DEF t

LEMMA StartEvaluationRunKeeps ==
  ASSUME Inv, NEW h \in Hosts, StartEvaluationRun(h)
  PROVE  Inv'
<1>0. PICK n : n = task[h].n /\ n \in Nodes
  BY TaskShape DEF Inv, HostInv
<1>1. Works
  BY DEF StartEvaluationRun, Works, Unworked, Rest
<1>2. Changes
  <2>1. ASSUME ev[n] = "created" PROVE Moves(n, "active")
    BY <1>0, <2>1 DEF StartEvaluationRun, Moves
  <2>2. ASSUME ev[n] # "created" PROVE Changes
    <3>1. ev' = ev
      BY <1>0, <2>2 DEF StartEvaluationRun
    <3> QED BY <3>1, StillChanges DEF Inv, StartEvaluationRun
  <2> QED BY <1>0, <2>1, <2>2 DEF Changes
<1>3. ASSUME SubStays, NodeStays PROVE HostInv'
  <2>1. FlagShapes'
    BY FlagTypes, FlagsKept DEF Inv, HostInv, StartEvaluationRun, Rest
  <2>2. PICK c : c = CountTries(n) /\ c \in 1..MaxEvals
    BY <1>0, TriesCounted, LifecycleAssumption DEF StartEvaluationRun, CountTries
  <2>3. PICK u : u = task[h]
    OBVIOUS
  <2>4. IsTask(u)
    BY <2>3 DEF Inv, HostInv, TasksInv
  <2> DEFINE t == [u EXCEPT !.at = "attempt", !.k = c]
  <2>5. t.at = "attempt" /\ t.k = c /\ IsTask(t)
    <3>1. c \in -1..MaxEvals /\ c >= 1 /\ "attempt" \in Steps \ {"unmeasured"}
      BY <2>2, LifecycleAssumption DEF Steps
    <3> QED BY <2>4, <3>1, TaskNumbered
  <2>6. TaskOK(t)'
    BY <2>5 DEF TaskOK
  <2>7. task' = [task EXCEPT ![h] = t]
    BY <1>0, <2>2, <2>3 DEF StartEvaluationRun, Inv, HostInv, TasksInv
  <2>8. TasksInv'
    BY <1>3, <2>5, <2>6, <2>7, TaskMoves DEF Inv, HostInv
  <2> QED BY <2>1, <2>8, PassRests DEF Inv, HostInv, StartEvaluationRun, Rest
<1>4. UNCHANGED setup
  BY DEF StartEvaluationRun, Rest
<1> QED BY <1>1, <1>2, <1>3, <1>4, StepKeeps

LEMMA CreateEvaluationAttemptKeeps ==
  ASSUME Inv, NEW h \in Hosts, CreateEvaluationAttempt(h)
  PROVE  Inv'
<1>0. PICK n, k : /\ n = task[h].n /\ k = task[h].k /\ n \in Nodes
                  /\ <<n, k>> \in Attempts /\ k >= 1 /\ k \in -1..MaxEvals
  BY TaskShape DEF Inv, HostInv, CreateEvaluationAttempt, At
<1> DEFINE a == <<n, k>>
<1>1. UNCHANGED <<setup, out, up, pass, esc, crashes>>
  BY DEF CreateEvaluationAttempt
<1>2. CASE Refused(h) /\ UNCHANGED watch
  BY <1>1, <1>2, RefusedHost, QuietKeeps DEF Inv, Refused
<1>3. CASE /\ att[a] = "none"
           /\ att' = [att EXCEPT ![a] = "live"]
           /\ sub' = [sub EXCEPT ![a] = "intended"]
           /\ watch' = [watch EXCEPT ![h] = @ \cup {a}]
           /\ task' = [task EXCEPT ![h] = NoTask]
           /\ UNCHANGED <<exp, best, node, branch, run, ev, res, dec, noted, ledger, sweep, due>>
  <2>1. Works
    <3>1. a[2] # 0
      BY <1>0, LifecycleAssumption
    <3>2. Evaluates(a)
      BY <1>1, <1>3, <3>1 DEF Evaluates
    <3> QED BY <1>0, <3>2 DEF Works
  <2>2. Changes
    BY <1>3, StillChanges DEF Inv
  <2>3. ASSUME SubStays, NodeStays PROVE HostInv'
    <3>1. watch' \in [Hosts -> SUBSET Attempts]
      BY <1>0, <1>3, FlagTypes DEF Inv, HostInv
    <3>2. FlagShapes'
      BY <1>1, <1>3, <3>1, FlagTypes, FlagsKept DEF Inv, HostInv
    <3> QED BY <1>1, <1>3, <2>3, <3>2, TaskEnds, PassRests DEF Inv, HostInv
  <2> QED BY <1>1, <2>1, <2>2, <2>3, StepKeeps
<1>4. CASE /\ ev[n] = "active"
           /\ ev' = [ev EXCEPT ![n] = "failed"]
           /\ \E i \in {0, -1} : task' = [task EXCEPT ![h].at = "node", ![h].k = i]
           /\ UNCHANGED <<exp, best, node, branch, run, res, dec, noted, att, sub, ledger,
                          watch, sweep, due>>
  <2>1. Works
    BY <1>1, <1>4 DEF Works, Unworked
  <2>2. Changes
    <3>1. Moves(n, "failed")
      BY <1>4 DEF Moves
    <3> QED BY <1>0, <3>1 DEF Changes
  <2>3. ASSUME SubStays, NodeStays PROVE HostInv'
    <3>1. FlagShapes'
      BY <1>1, <1>4, FlagTypes, FlagsKept DEF Inv, HostInv
    <3>2. PICK i \in {0, -1} : task' = [task EXCEPT ![h].at = "node", ![h].k = i]
      BY <1>4
    <3>3. PICK u : u = task[h]
      OBVIOUS
    <3>4. IsTask(u)
      BY <3>3 DEF Inv, HostInv, TasksInv
    <3> DEFINE t == [u EXCEPT !.at = "node", !.k = i]
    <3>5. t.at = "node" /\ IsTask(t)
      <4>1. i \in -1..MaxEvals /\ "node" \in Steps \ {"unmeasured"}
        BY LifecycleAssumption DEF Steps
      <4>2. "node" = "attempt" => i >= 1
        OBVIOUS
      <4>3. LET v == [u EXCEPT !.at = "node", !.k = i] IN v.at = "node" /\ v.k = i /\ IsTask(v)
        BY <3>4, <4>1, <4>2, TaskNumbered
      <4> QED BY <4>3
    <3>6. TaskOK(t)'
      BY <3>5 DEF TaskOK
    <3>7. task' = [task EXCEPT ![h] = t]
      BY <3>2, <3>3 DEF Inv, HostInv, TasksInv
    <3>8. TasksInv'
      BY <2>3, <3>5, <3>6, <3>7, TaskMoves DEF Inv, HostInv
    <3> QED BY <1>1, <3>1, <3>8, PassRests DEF Inv, HostInv
  <2> QED BY <1>1, <2>1, <2>2, <2>3, StepKeeps
<1> QED BY <1>0, <1>2, <1>3, <1>4 DEF CreateEvaluationAttempt

LEMMA ReconcileRefusedKeeps ==
  ASSUME Inv, NEW h \in Hosts, ReconcileRefused(h)
  PROVE  Inv'
<1>1. Refused(h) /\ UNCHANGED Rest
  BY DEF ReconcileRefused
<1> QED BY <1>1, RefusedHost, QuietKeeps DEF Inv, Refused, Rest

LEMMA ReconcileNodeKeeps ==
  ASSUME Inv, NEW h \in Hosts, ReconcileNode(h)
  PROVE  Inv'
<1>0. PICK n : n = task[h].n /\ n \in Nodes
  BY TaskShape DEF Inv, HostInv
<1> DEFINE On(s) == (Go(h, s) /\ UNCHANGED due) \/ Done(h)
<1>1. \/ UNCHANGED <<node, noted>> /\ On("exhaust")
      \/ /\ node[n] = "evaluating" /\ ev[n] = "succeeded" /\ node' = [node EXCEPT ![n] = "deciding"]
         /\ On("decide") /\ UNCHANGED noted
      \/ noted' = [noted EXCEPT ![n] = TRUE] /\ UNCHANGED node /\ On("exhaust")
  BY <1>0 DEF ReconcileNode, Evaluated
<1>2. UNCHANGED <<Rest, exp, best, branch, run, ev, res, dec, att, sub, ledger, sweep>>
  BY DEF ReconcileNode
<1>3. Works
  BY <1>2 DEF Works, Unworked, Rest
<1>4. Changes
  <2>1. CASE UNCHANGED <<node, noted>>
    BY <1>2, <2>1, StillChanges DEF Inv
  <2>2. CASE /\ node[n] = "evaluating" /\ ev[n] = "succeeded" /\ node' = [node EXCEPT ![n] = "deciding"]
             /\ UNCHANGED noted
    <3>1. Awaits(n)
      BY <1>2, <2>2 DEF Awaits
    <3> QED BY <1>0, <3>1 DEF Changes
  <2>3. CASE noted' = [noted EXCEPT ![n] = TRUE] /\ UNCHANGED node
    <3>1. Undecided
      BY <1>2, <2>3 DEF Undecided, Inv, BranchInv, NodeShapes
    <3> QED BY <3>1 DEF Changes
  <2> QED BY <1>1, <2>1, <2>2, <2>3
<1>5. ASSUME SubStays, NodeStays PROVE HostInv'
  <2>1. On("exhaust") \/ (On("decide") /\ node'[n] = "deciding")
    BY <1>0, <1>1 DEF Inv, BranchInv, NodeShapes
  <2>2. due' \in [Hosts -> BOOLEAN]
    BY <2>1, DoneDue, FlagTypes DEF Inv, HostInv
  <2>3. FlagShapes'
    BY <1>2, <2>2, FlagTypes, FlagsKept DEF Inv, HostInv, Rest
  <2>4. TasksInv'
    BY <1>0, <1>5, <2>1, TaskGoes, TaskEnds DEF Inv, HostInv, Done, Steps
  <2> QED BY <1>2, <2>3, <2>4, PassRests DEF Inv, HostInv, Rest
<1> QED BY <1>2, <1>3, <1>4, <1>5, StepKeeps DEF Rest

\* A chain that ends with its commit.
LEMMA DoneHost ==
  ASSUME HostInv, NEW h \in Hosts, Done(h), UNCHANGED <<setup, up, watch, pass, esc, crashes, sweep>>,
         SubStays, NodeStays
  PROVE  HostInv'
<1>1. FlagShapes'
  BY DoneDue, FlagTypes, FlagsKept DEF HostInv
<1> QED BY <1>1, TaskEnds, PassRests DEF HostInv, Done

LEMMA RecordDecisionKeeps ==
  ASSUME Inv, NEW h \in Hosts, RecordDecision(h)
  PROVE  Inv'
<1>0. PICK n : n = task[h].n /\ n \in Nodes /\ node[n] \in {"deciding"} \cup Settled
  BY TaskShape DEF Inv, HostInv, RecordDecision, At, TaskOK
<1>1. Done(h) /\ UNCHANGED <<setup, out, up, watch, pass, esc, crashes, sweep>>
  BY DEF RecordDecision, Rest
<1>2. ASSUME SubStays, NodeStays PROVE HostInv'
  BY <1>1, <1>2, DoneHost DEF Inv
<1>3. CASE dec[n] # "none"
  <2>1. UNCHANGED record
    BY <1>0, <1>3 DEF RecordDecision
  <2> QED BY <1>1, <1>2, <2>1, QuietKeeps
<1>4. CASE dec[n] = "none"
  <2>1. PICK d : d = Decide(res[n]) /\ d # "undecidable"
    BY <1>0 DEF RecordDecision
  <2>2. d \in Outcomes
    BY <2>1 DEF Decide, Outcomes
  <2>3. node[n] = "deciding"
    BY <1>0, <1>4 DEF Inv, BranchInv, NodeInv
  <2>4. Decides(n, d) /\ UNCHANGED <<run, att, sub, ledger>>
    BY <1>0, <1>4, <2>1, <2>3 DEF RecordDecision, Decides
  <2>5. Changes
    BY <1>0, <2>2, <2>4 DEF Changes
  <2>6. Works
    BY <1>1, <2>4 DEF Works, Unworked
  <2> QED BY <1>1, <1>2, <2>5, <2>6, StepKeeps
<1> QED BY <1>3, <1>4

LEMMA DeferDecisionKeeps ==
  ASSUME Inv, NEW h \in Hosts, DeferDecision(h)
  PROVE  Inv'
<1>1. Works
  BY DEF DeferDecision, Works, Unworked, Rest
<1>2. Undecided
  BY DEF DeferDecision, Undecided, Inv, BranchInv, NodeShapes
<1>3. Changes
  BY <1>2 DEF Changes
<1>4. ASSUME SubStays, NodeStays PROVE HostInv'
  BY <1>4, DoneHost DEF Inv, DeferDecision, Rest
<1> QED BY <1>1, <1>3, <1>4, StepKeeps DEF DeferDecision, Rest

LEMMA ExhaustBudgetKeeps ==
  ASSUME Inv, NEW h \in Hosts, ExhaustBudget(h)
  PROVE  Inv'
<1>1. Works
  BY DEF ExhaustBudget, Works, Unworked, Rest
<1>2. CASE Exhaustable
  <2>1. Changes
    BY <1>2 DEF ExhaustBudget, Exhaustable, Changes, Exhausts
  <2>2. ASSUME SubStays, NodeStays PROVE HostInv'
    BY <2>2, DoneHost DEF Inv, ExhaustBudget, Rest
  <2> QED BY <1>1, <2>1, <2>2, StepKeeps DEF ExhaustBudget, Rest
<1>3. CASE ~Exhaustable
  <2>1. Changes
    BY <1>3, StillChanges DEF Inv, ExhaustBudget
  <2>2. ASSUME SubStays, NodeStays PROVE HostInv'
    BY <2>2, DoneHost DEF Inv, ExhaustBudget, Rest
  <2> QED BY <1>1, <2>1, <2>2, StepKeeps DEF ExhaustBudget, Rest
<1> QED BY <1>2, <1>3

-----------------------------------------------------------------------------
(* The adaptive loop. *)

\* What planning is asked on: every node settled for planning.
LEMMA PlanningStage ==
  ASSUME NextStage = "planning"
  PROVE  \A n \in Existing : ForPlanning(n)
<1>1. exp \notin Ended /\ ~(\E n \in Nodes : node[n] = "deciding")
  BY DEF NextStage, Ended
<1> QED BY <1>1 DEF NextStage

LEMMA FirstNode == 1 \in Nodes
BY LifecycleAssumption DEF Nodes

LEMMA PassEdits ==
  ASSUME NEW q, IsPass(q), NEW c, NEW n \in Nodes
  PROVE  /\ [q EXCEPT !.at = "propose", !.ctx = c, !.round = q.round + 1]
              \in [at : {"propose"}, ctx : {c}, round : Nat, n : Nodes]
         /\ [q EXCEPT !.at = "realize", !.n = n]
              \in [at : {"realize"}, ctx : {q.ctx}, round : Nat, n : Nodes]
         /\ [q EXCEPT !.at = "round"]
              \in [at : {"round"}, ctx : {q.ctx}, round : Nat, n : Nodes]
<1>1. q \in [at : {"none", "round", "propose", "realize"}, ctx : {q.ctx}, round : Nat, n : Nodes]
  BY DEF IsPass
<1>2. q.round + 1 \in Nat
  BY <1>1
<1> QED BY <1>1, <1>2

LEMMA RoundKeeps ==
  ASSUME Inv, NEW h \in Hosts, Round(h)
  PROVE  Inv'
<1>1. UNCHANGED <<setup, best, node, branch, run, ev, res, dec, noted, att, sub, ledger, out,
                  up, task, watch, sweep, due, esc, crashes>>
  BY DEF Round
<1>2. Works
  BY <1>1 DEF Works, Unworked
<1>3. PICK q : q = pass[h]
  OBVIOUS
<1>4. IsPass(q)
  BY <1>3 DEF Inv, HostInv, PassesInv
<1>5. PassesInv'
  <2>1. CASE PassEnds(h)
    BY <2>1, PassOver DEF Inv, HostInv
  <2>2. CASE /\ NextStage = "planning"
             /\ pass' = [pass EXCEPT ![h].at = "propose", ![h].ctx = Context, ![h].round = @ + 1]
    <3>1. PICK c : c = Context
      OBVIOUS
    <3> DEFINE p == [q EXCEPT !.at = "propose", !.ctx = c, !.round = q.round + 1]
    <3>2. p \in [at : {"propose"}, ctx : {c}, round : Nat, n : Nodes]
      BY <1>4, FirstNode, PassEdits
    <3>3. pass' = [pass EXCEPT ![h] = p]
      BY <1>3, <2>2, <3>1
    <3> HIDE DEF p
    <3>4. IsPass(p) /\ p.ctx = c
      BY <3>2 DEF IsPass
    <3>5. PassOK(p)
      <4>1. c[2] = node /\ c[3] = dec /\ p.ctx = c
        BY <3>1, <3>4 DEF Context
      <4>2. ASSUME NEW n \in Nodes, node[n] # "none"
            PROVE  <<node[n], dec[n]>> \in {<<"completed", "BRANCH">>, <<"rejected", "REJECT">>}
        BY <2>2, <4>2, PlanningStage DEF Existing, ForPlanning
      <4> QED BY <4>1, <4>2 DEF PassOK
    <3> QED BY <3>3, <3>4, <3>5, PassMoves DEF Inv, HostInv
  <2>3. CASE \E n \in Nodes : pass' = [pass EXCEPT ![h].at = "realize", ![h].n = n]
    <3>1. PICK n \in Nodes : pass' = [pass EXCEPT ![h].at = "realize", ![h].n = n]
      BY <2>3
    <3> DEFINE p == [q EXCEPT !.at = "realize", !.n = n]
    <3>2. p \in [at : {"realize"}, ctx : {q.ctx}, round : Nat, n : Nodes]
      BY <1>4, PassEdits
    <3>3. pass' = [pass EXCEPT ![h] = p]
      BY <1>3, <3>1
    <3> HIDE DEF p
    <3>4. IsPass(p) /\ PassOK(p)
      BY <3>2 DEF IsPass, PassOK
    <3> QED BY <3>3, <3>4, PassMoves DEF Inv, HostInv
  <2> QED BY <2>1, <2>2, <2>3 DEF Round
<1>6. ASSUME SubStays, NodeStays PROVE HostInv'
  <2>1. FlagShapes'
    BY <1>1, FlagTypes, FlagsKept DEF Inv, HostInv
  <2> QED BY <1>1, <1>5, <1>6, <2>1, TaskRests DEF Inv, HostInv
<1>7. Changes
  <2>1. CASE exp' = exp
    BY <1>1, <2>1, StillChanges DEF Inv
  <2>2. CASE exp = "active" /\ exp' = "exhausted"
    BY <1>1, <2>2 DEF Changes, Exhausts
  <2> QED BY <2>1, <2>2 DEF Round, Exhaustable
<1> QED BY <1>1, <1>2, <1>6, <1>7, StepKeeps

LEMMA MaterializeKeeps ==
  ASSUME Inv, NEW h \in Hosts, NEW c \in Candidates, NEW i \in Existing, NEW runs \in BOOLEAN,
         Materialize(h, c, i, runs)
  PROVE  Inv'
<1>1. UNCHANGED <<setup, out, up, task, watch, sweep, due, crashes>>
  BY DEF Materialize
<1>2. PICK q : q = pass[h]
  OBVIOUS
<1>3. IsPass(q) /\ PassOK(q) /\ q.at = "propose"
  BY <1>2 DEF Inv, HostInv, PassesInv, Materialize
<1>4. ASSUME pass' = [pass EXCEPT ![h].at = "round"] PROVE PassesInv'
  <2> DEFINE p == [q EXCEPT !.at = "round"]
  <2>1. p \in [at : {"round"}, ctx : {q.ctx}, round : Nat, n : Nodes]
    BY <1>3, FirstNode, PassEdits
  <2>2. pass' = [pass EXCEPT ![h] = p]
    BY <1>2, <1>4
  <2> HIDE DEF p
  <2>3. IsPass(p) /\ PassOK(p)
    BY <2>1 DEF IsPass, PassOK
  <2> QED BY <2>2, <2>3, PassMoves DEF Inv, HostInv
<1>5. \/ pass' = [pass EXCEPT ![h].at = "round"] /\ UNCHANGED esc
      \/ Escalate(h)
  BY DEF Materialize
<1>6. ASSUME SubStays, NodeStays PROVE HostInv'
  <2>1. PassesInv'
    BY <1>4, <1>5, PassOver DEF Inv, HostInv, Escalate
  <2>2. esc' \in [Hosts -> BOOLEAN]
    BY <1>5, FlagTypes DEF Inv, HostInv, Escalate
  <2>3. FlagShapes'
    BY <1>1, <2>2 DEF Inv, HostInv, FlagShapes
  <2> QED BY <1>1, <1>6, <2>1, <2>3, TaskRests DEF Inv, HostInv
<1>7. CASE UNCHANGED record
  BY <1>1, <1>6, <1>7, QuietKeeps
<1>8. CASE ~UNCHANGED record
  <2> DEFINE b == [cand |-> c, parent |-> i, origin |-> <<pass[h].ctx, i, runs>>, runs |-> runs]
             next == Cardinality(Existing) + 1
  <2>1. /\ {n \in Existing : branch[n].cand = c} = {} /\ exp = "active" /\ q.ctx = Context
        /\ Nodes \ Existing # {}
        /\ node' = [node EXCEPT ![next] = "planned"]
        /\ branch' = [branch EXCEPT ![next] = b]
        /\ UNCHANGED <<exp, best, run, ev, res, dec, noted, att, sub, ledger>>
    BY <1>2, <1>8 DEF Materialize, Fresh
  <2>2. \A n \in Existing : ForPlanning(n)
    <3>1. q.ctx[2] = node /\ q.ctx[3] = dec
      BY <2>1 DEF Context
    <3> QED BY <1>3, <3>1 DEF PassOK, Existing, ForPlanning
  <2>3. b.parent = i /\ b.cand = c /\ b \in [cand : Candidates, parent : {b.parent}, origin : {b.origin}, runs : BOOLEAN]
    OBVIOUS
  <2>4. Branches(b)
    BY <2>1, <2>2, <2>3 DEF Branches
  <2>5. Changes
    BY <2>4 DEF Changes
  <2>6. Works
    BY <1>1, <2>1 DEF Works, Unworked
  <2> QED BY <1>1, <1>6, <2>5, <2>6, StepKeeps
<1> QED BY <1>7, <1>8

\* The two commits that open a run: not a change of Works, as the node that
\* had no run has one.
LEMMA OpeningKeeps ==
  ASSUME Inv, UNCHANGED setup, NEW n \in Nodes, Opens(n), Room, BranchInv',
         node' = [node EXCEPT ![n] = "active"], node[n] \in {"none", "planned"},
         SubStays /\ NodeStays => HostInv'
  PROVE  Inv'
<1>1. WorkInv'
  BY OpensWork DEF Inv
<1>2. /\ \A m \in Nodes : m # n => run'[m] = run[m] /\ node'[m] = node[m]
      /\ node'[n] = "active" /\ sub[<<n, 0>>] = "none"
      /\ \A a \in Attempts : a # <<n, 0>> => sub'[a] = sub[a]
  BY FirstAttempt DEF Inv, WorkInv, WorkShapes, AttemptInv, BranchInv, NodeShapes, Opens
<1>3. SubStays
  BY <1>2 DEF SubStays
<1>4. NodeStays
  BY <1>2 DEF NodeStays, Settled
<1>5. Unrealized'
  BY <1>2 DEF Inv, Unrealized
<1> QED BY <1>1, <1>3, <1>4, <1>5 DEF Inv

LEMMA RealizeKeeps ==
  ASSUME Inv, NEW h \in Hosts, Realize(h)
  PROVE  Inv'
<1>1. UNCHANGED <<setup, out, up, task, sweep, due, crashes>>
  BY DEF Realize
<1>2. PICK n : n = pass[h].n /\ n \in Nodes
  <2>1. PICK q : q = pass[h]
    OBVIOUS
  <2>2. IsPass(q)
    BY <2>1 DEF Inv, HostInv, PassesInv
  <2> QED BY <2>1, <2>2 DEF IsPass
<1>3. CASE UNCHANGED record /\ (Escalate(h) \/ (PassEnds(h) /\ UNCHANGED esc)) /\ UNCHANGED watch
  <2>1. esc' \in [Hosts -> BOOLEAN]
    BY <1>3, FlagTypes DEF Inv, HostInv, Escalate
  <2>2. FlagShapes'
    BY <1>1, <1>3, <2>1 DEF Inv, HostInv, FlagShapes
  <2>3. ASSUME SubStays, NodeStays PROVE HostInv'
    BY <1>1, <1>3, <2>2, <2>3, TaskRests, PassOver DEF Inv, HostInv, Escalate
  <2> QED BY <1>1, <1>3, <2>3, QuietKeeps
<1>4. CASE /\ exp = "active" /\ exp' = IF Exhaustable THEN "exhausted" ELSE exp
           /\ PassEnds(h)
           /\ UNCHANGED <<best, node, branch, run, ev, res, dec, noted, att, sub, ledger, watch, esc>>
  <2>1. Works
    BY <1>1, <1>4 DEF Works, Unworked
  <2>2. Changes
    <3>1. CASE exp' = exp
      BY <1>4, <3>1, StillChanges DEF Inv
    <3>2. CASE exp' = "exhausted"
      BY <1>4, <3>2 DEF Changes, Exhausts
    <3> QED BY <1>4, <3>1, <3>2
  <2>3. ASSUME SubStays, NodeStays PROVE HostInv'
    <3>1. FlagShapes'
      BY <1>1, <1>4, FlagTypes, FlagsKept DEF Inv, HostInv
    <3> QED BY <1>1, <1>4, <2>3, <3>1, TaskRests, PassOver DEF Inv, HostInv
  <2> QED BY <1>1, <2>1, <2>2, <2>3, StepKeeps
<1>5. CASE /\ node[n] = "planned" /\ RequireBudget(TRUE) /\ Capacity
           /\ node' = [node EXCEPT ![n] = "active"]
           /\ run' = [run EXCEPT ![n] = "active"]
           /\ att' = [att EXCEPT ![<<n, 0>>] = "live"]
           /\ sub' = [sub EXCEPT ![<<n, 0>>] = "intended"]
           /\ ledger' = Reserved(n)
           /\ watch' = [watch EXCEPT ![h] = @ \cup {<<n, 0>>}]
           /\ PassEnds(h)
           /\ UNCHANGED <<exp, best, branch, ev, res, dec, noted, esc>>
  <2>1. Room
    BY <1>5, BudgetMeansRoom DEF Inv
  <2>2. Opens(n)
    BY <1>1, <1>2, <1>5 DEF Opens, Inv, Unrealized
  <2>3. BranchInv'
    BY <1>1, <1>2, <1>5, BeginsBranch DEF Inv, Realizes
  <2>4. ASSUME SubStays, NodeStays PROVE HostInv'
    <3>1. watch' \in [Hosts -> SUBSET Attempts]
      BY <1>2, <1>5, FirstAttempt, FlagTypes DEF Inv, HostInv
    <3>2. FlagShapes'
      BY <1>1, <1>5, <3>1, FlagTypes, FlagsKept DEF Inv, HostInv
    <3> QED BY <1>1, <1>5, <2>4, <3>2, TaskRests, PassOver DEF Inv, HostInv
  <2> QED BY <1>1, <1>2, <1>5, <2>1, <2>2, <2>3, <2>4, OpeningKeeps
<1> QED BY <1>2, <1>3, <1>4, <1>5 DEF Realize

LEMMA AdmitKeeps ==
  ASSUME Inv, NEW h \in Hosts, Admit(h)
  PROVE  Inv'
<1>1. UNCHANGED <<setup, best, branch, ev, res, dec, noted, out, up, task, sweep, due, pass, esc, crashes>>
  BY DEF Admit
<1>2. 1 \in Nodes
  BY FirstNode
<1>3. \A n \in Nodes : node[n] = "none" /\ run[n] = "none" /\ att[<<n, 0>>] = "none"
  BY DEF Inv, BranchInv, ChainInv, Unrealized, WorkInv, AttemptInv, Admit
<1>4. BranchInv'
  BY <1>1, AdmitsBranch DEF Inv, Admit, Admits
<1>5. CASE RequireBudget(TRUE)
  <2>1. Capacity
    <3>1. Training = {}
      BY <1>3 DEF Training
    <3>2. Cardinality(Training) = 0
      BY <3>1, FS_EmptySet
    <3> QED BY <3>2, SlotsBalance, LimitTypes DEF Inv, WorkInv, Capacity
  <2>2. Room
    BY <1>5, <2>1, BudgetMeansRoom DEF Inv
  <2>3. Opens(1)
    BY <1>1, <1>2, <1>3, <1>5 DEF Opens, Admit
  <2>4. ASSUME SubStays, NodeStays PROVE HostInv'
    <3>1. watch' \in [Hosts -> SUBSET Attempts]
      BY <1>2, <1>5, FirstAttempt, FlagTypes DEF Inv, HostInv, Admit
    <3>2. FlagShapes'
      BY <1>1, <3>1, FlagTypes, FlagsKept DEF Inv, HostInv
    <3> QED BY <1>1, <2>4, <3>2, TaskRests, PassRests DEF Inv, HostInv
  <2>5. node' = [node EXCEPT ![1] = "active"]
    BY DEF Admit
  <2> QED BY <1>1, <1>2, <1>3, <1>4, <2>2, <2>3, <2>4, <2>5, OpeningKeeps
<1>6. CASE ~RequireBudget(TRUE)
  <2>1. UNCHANGED <<run, att, sub, ledger, watch>> /\ node' = [node EXCEPT ![1] = "active"]
    BY <1>6 DEF Admit
  <2>2. WorkInv'
    BY <1>1, <2>1, UnworkedWork DEF Inv, Unworked
  <2>3. SubStays /\ NodeStays
    BY <1>3, <2>1 DEF SubStays, NodeStays, Settled
  <2>4. FlagShapes'
    BY <1>1, <2>1, FlagTypes, FlagsKept DEF Inv, HostInv
  <2>5. HostInv'
    BY <1>1, <2>3, <2>4, TaskRests, PassRests DEF Inv, HostInv
  <2>6. Unrealized'
    BY <1>3, <2>1 DEF Unrealized
  <2> QED BY <1>4, <2>2, <2>5, <2>6 DEF Inv
<1> QED BY <1>5, <1>6

-----------------------------------------------------------------------------
(* The theorems. *)

LEMMA InitInv == Init => Inv
<1> SUFFICES ASSUME Init PROVE Inv
  OBVIOUS
<1>1. WorkShapes
  BY DEF Init, WorkShapes, Outs
<1>2. AttemptInv
  BY FirstAttempt DEF Init, AttemptInv
<1>3. LedgerInv
  <2>1. \A e : ~Written(e)
    BY FirstAttempt DEF Init, Written, Reserves, Commits, Releases, Consumes, GivesBack, Fails
  <2> QED BY <2>1 DEF LedgerInv, Init
<1>4. LimitInv
  <2>1. Held = {} /\ Training = {}
    BY FirstAttempt DEF Init, Held, Training
  <2>2. Cardinality(Held) = 0 /\ Cardinality(Training) = 0
    BY <2>1, FS_EmptySet
  <2> QED BY <1>1, <2>2, LimitTypes DEF LimitInv
<1>5. NodeShapes
  <2>1. \A n \in Nodes : IsBranch(n, NoBranch)
    BY LifecycleAssumption DEF Nodes, IsBranch, NoBranch
  <2> QED BY <2>1 DEF Init, NodeShapes
<1>6. \A n \in Nodes : NodeInv(n)
  BY DEF Init, NodeInv, Settled
<1>7. ChainInv
  <2>1. 0 \in 0..MaxNodes /\ \A n \in Nodes : ~(n <= 0) /\ ~(n < 0)
    BY LifecycleAssumption DEF Nodes
  <2>2. Existing = {}
    BY DEF Init, Existing
  <2>3. \A n \in Nodes : node[n] # "none" <=> n <= 0
    BY <2>1 DEF Init
  <2> QED BY <2>1, <2>2, <2>3 DEF Init, ChainInv
<1>8. EndInv
  BY DEF Init, EndInv
<1>9. HostInv
  <2>1. 0 \in 0..(MaxNodes + 1) /\ 0 \in 0..setup.deaths
    BY LifecycleAssumption DEF Init
  <2>2. FlagShapes
    BY <2>1 DEF Init, FlagShapes
  <2>3. TasksInv
    BY NoTaskOK DEF Init, TasksInv
  <2>4. PassesInv
    BY NoPassOK DEF Init, PassesInv
  <2> QED BY <2>2, <2>3, <2>4 DEF HostInv
<1>10. Unrealized
  BY DEF Init, Unrealized
<1> QED BY <1>1, <1>2, <1>3, <1>4, <1>5, <1>6, <1>7, <1>8, <1>9, <1>10 DEF Inv, WorkInv, BranchInv

LEMMA NextInv == Inv /\ [Next]_vars => Inv'
<1> SUFFICES ASSUME Inv, [Next]_vars PROVE Inv'
  OBVIOUS
<1>1. CASE UNCHANGED vars
  <2>1. ASSUME SubStays, NodeStays PROVE HostInv'
    BY <1>1, <2>1, FlagTypes, FlagsKept, TaskRests, PassRests DEF Inv, HostInv, vars, memory
  <2> QED BY <1>1, <2>1, QuietKeeps DEF vars
<1>2. ASSUME NEW a \in Attempts, RuntimeEnds(a) PROVE Inv'
  BY <1>2, RuntimeEndsKeeps
<1>3. ASSUME NEW h \in Hosts, Admit(h) \/ Crash(h) \/ Restart(h) \/ Attach(h) \/ Wait(h) PROVE Inv'
  BY <1>3, AdmitKeeps, CrashKeeps, RestartKeeps
<1>4. ASSUME NEW h \in Hosts, Chain(h) PROVE Inv'
  BY <1>4, SettleTrainingRunKeeps, SettleUnmeasuredKeeps, SettleEvaluationRunKeeps, ContinueKeeps,
     BeginCycleKeeps, StartEvaluationRunKeeps, CreateEvaluationAttemptKeeps, ReconcileNodeKeeps,
     ReconcileRefusedKeeps,
     ReadDecisionKeeps, RecordDecisionKeeps, DeferDecisionKeeps, ExhaustBudgetKeeps DEF Chain
<1>5. ASSUME NEW h \in Hosts, Sweep(h) \/ StartPass(h) \/ Round(h) \/ Realize(h) PROVE Inv'
  BY <1>5, SweepKeeps, StartPassKeeps, RoundKeeps, RealizeKeeps
<1>6. ASSUME NEW h \in Hosts, Answer(h) PROVE Inv'
  BY <1>6, PlannerDeclinesKeeps, MaterializeKeeps DEF Answer
<1>7. ASSUME NEW h \in Hosts, NEW a \in Attempts,
             Confirm(h, a) \/ Reject(h, a) \/ Overtaken(h, a) \/ Observe(h, a)
      PROVE  Inv'
  BY <1>7, ConfirmKeeps, RejectKeeps, OvertakenKeeps, SettleTrainingKeeps, RecordResultKeeps,
     EndsUnmeasuredKeeps DEF Observe
<1> QED BY <1>1, <1>2, <1>3, <1>4, <1>5, <1>6, <1>7 DEF Next, Drive

\* The limits, said of attempts and submissions.
LEMMA InvMeansBudget == Inv => BudgetKept
<1> SUFFICES ASSUME Inv PROVE BudgetKept
  OBVIOUS
<1>1. LifecycleTypeOK
  <2>1. \A e \in ledger : e[1] \in DOMAIN Limit
    BY DEF Inv, WorkInv, LedgerInv
  <2>2. \A n \in Nodes : branch[n].cand \in Candidates /\ branch[n].parent \in 0..(n - 1)
    <3>1. ASSUME NEW n \in Nodes, NEW b, IsBranch(n, b)
          PROVE  b.cand \in Candidates /\ b.parent \in 0..(n - 1)
      BY <3>1 DEF IsBranch
    <3> QED BY <3>1 DEF Inv, BranchInv, NodeShapes
  <2>3. \A h \in Hosts : task[h].at \in Steps /\ task[h].n \in Nodes
    <3>1. ASSUME NEW t, IsTask(t) PROVE t.at \in Steps /\ t.n \in Nodes
      BY <3>1 DEF IsTask
    <3> QED BY <3>1 DEF Inv, HostInv, TasksInv
  <2> QED BY <2>1, <2>2, <2>3
        DEF Inv, WorkInv, WorkShapes, BranchInv, NodeShapes, HostInv, FlagShapes, LifecycleTypeOK
<1>2. LedgerAgrees
  BY LedgerIsInv DEF Inv, WorkInv
<1>3. WithinBudget
  <2> DEFINE Confirmed == {n \in Nodes : sub[<<n, 0>>] = "confirmed"}
             Live == {a \in LiveAttempts : a[2] = 0}
  <2>1. Cardinality(Confirmed) <= Cardinality(Held)
    <3>1. Confirmed \subseteq Held
      BY FirstAttempt DEF Inv, WorkInv, AttemptInv, Held
    <3>2. IsFiniteSet(Held)
      BY NodesFinite DEF Held
    <3> QED BY <3>1, <3>2, FS_Subset
  <2>2. Cardinality(Confirmed) \in Nat /\ Cardinality(Held) \in Nat
    BY NodesFinite DEF Held
  <2>3. Cardinality(Live) = Cardinality(Training)
    <3> DEFINE f == [n \in Training |-> <<n, 0>>]
    <3>1. f \in [Training -> Live]
      BY FirstAttempt DEF Training, LiveAttempts
    <3>2. \A m, n \in Training : f[m] = f[n] => m = n
      OBVIOUS
    <3>3. ASSUME NEW a \in Live PROVE \E n \in Training : f[n] = a
      <4>1. a \in Attempts /\ att[a] = "live" /\ a[2] = 0
        BY DEF LiveAttempts
      <4>2. a[1] \in Nodes /\ a = <<a[1], 0>>
        BY <4>1, AttemptParts
      <4>3. a[1] \in Training
        BY <4>1, <4>2 DEF Training
      <4> QED BY <4>2, <4>3
    <3> HIDE DEF f
    <3>4. f \in Bijection(Training, Live)
      BY <3>1, <3>2, <3>3, Zenon DEF Bijection, Injection, Surjection, IsInjective
    <3>5. ExistsBijection(Training, Live)
      BY <3>4, Zenon DEF ExistsBijection
    <3>6. IsFiniteSet(Training)
      BY NodesFinite DEF Training
    <3> QED BY <3>5, <3>6, FS_Bijection
  <2>4. "runs" \in DOMAIN Limit => Limit["runs"] \in Nat
    BY LimitTypes DEF Inv, WorkInv
  <2> HIDE DEF Confirmed, Live
  <2>5. /\ "runs" \in DOMAIN Limit => Cardinality(Confirmed) <= Limit["runs"]
        /\ "slots" \in DOMAIN Limit => Cardinality(Live) <= Limit["slots"]
    BY <2>1, <2>2, <2>3, <2>4 DEF Inv, WorkInv, LimitInv
  <2> QED BY <2>5 DEF WithinBudget, Confirmed, Live
<1> QED BY <1>1, <1>2, <1>3 DEF BudgetKept

\* A set of nodes whose members are all the same one.
LEMMA OneAtMost ==
  ASSUME NEW S \in SUBSET Nodes, NEW k, \A n \in S : n = k
  PROVE  Cardinality(S) <= 1
<1>1. S \subseteq {k} /\ IsFiniteSet({k}) /\ Cardinality({k}) = 1
  BY FS_Singleton
<1>2. Cardinality(S) <= Cardinality({k})
  BY <1>1, FS_Subset
<1> QED BY <1>1, <1>2

LEMMA InvMeansBranching == Inv => BranchingSound
<1> SUFFICES ASSUME Inv PROVE BranchingSound
  OBVIOUS
<1>1. PICK k \in 0..MaxNodes : /\ \A n \in Nodes : node[n] # "none" <=> n <= k
                               /\ \A n \in Nodes : n < k => ForPlanning(n)
  BY DEF Inv, BranchInv, ChainInv
<1>2. ASSUME NEW n \in Nodes, node[n] # "none", ~ForPlanning(n)
      PROVE  n = k
  BY <1>1, <1>2, LifecycleAssumption DEF Nodes
<1>3. ASSUME NEW n \in Nodes
      PROVE  /\ dec[n] # "none" <=> node[n] \in Settled
             /\ dec[n] # "none" => res[n] # <<>> /\ "absent" \notin {res[n][1], res[n][2]}
             /\ dec[n] = "REJECT" <=> dec[n] # "none" /\ res[n][2] = "violated"
             /\ dec[n] = "STOP_SUCCEEDED" => res[n] = <<"met", "held">>
             /\ dec[n] \in {"STOP_FAILED", "BRANCH"} => res[n] = <<"missed", "held">>
             /\ res[n] # <<>> <=> ev[n] = "succeeded"
  <2>1. NodeInv(n) /\ dec[n] \in {"none"} \cup Outcomes /\ res[n] \in Measurements \cup {<<>>}
    BY DEF Inv, BranchInv, NodeShapes
  <2>2. CASE dec[n] = "none"
    BY <2>1, <2>2 DEF NodeInv
  <2>3. CASE dec[n] # "none"
    <3>1. PICK m : m = res[n] /\ m \in Measurements /\ dec[n] = Decide(m) /\ Decide(m) \in Outcomes
      BY <2>1, <2>3 DEF NodeInv
    <3>2. PICK x \in {"met", "missed", "absent"}, y \in {"held", "violated", "absent"} : m = <<x, y>>
      BY <3>1, MeasurementShape
    <3>3. x # "absent" /\ y # "absent"
      BY <3>1, <3>2 DEF Decide, Outcomes
    <3>4. Decide(m) = "REJECT" <=> y = "violated"
      BY <3>2, <3>3 DEF Decide
    <3>5. Decide(m) = "STOP_SUCCEEDED" => x = "met" /\ y = "held"
      BY <3>2, <3>3 DEF Decide
    <3>6. Decide(m) \in {"STOP_FAILED", "BRANCH"} => x = "missed" /\ y = "held"
      BY <3>2, <3>3 DEF Decide
    <3> QED BY <2>1, <2>3, <3>1, <3>2, <3>3, <3>4, <3>5, <3>6 DEF NodeInv
  <2> QED BY <2>2, <2>3
<1>4. Cardinality({n \in Nodes : dec[n] \in {"STOP_SUCCEEDED", "STOP_FAILED"}}) <= 1
  <2>1. ASSUME NEW n \in Nodes, dec[n] \in {"STOP_SUCCEEDED", "STOP_FAILED"}
        PROVE  n = k
    BY <1>2, <2>1 DEF Inv, BranchInv, NodeInv, Settled, ForPlanning
  <2> QED BY <2>1, OneAtMost
<1>5. Cardinality({n \in Existing : node[n] \notin Settled}) <= 1
  <2>1. ASSUME NEW n \in Existing, node[n] \notin Settled
        PROVE  n = k
    BY <1>2, <2>1 DEF Existing, Settled, ForPlanning
  <2>2. {n \in Existing : node[n] \notin Settled} \in SUBSET Nodes
    BY DEF Existing
  <2> QED BY <2>1, <2>2, OneAtMost
<1>6. DecisionHonest
  BY <1>3, <1>4 DEF DecisionHonest, Inv, BranchInv, EndInv
<1>7. OneCandidateAtATime
  BY <1>5 DEF OneCandidateAtATime, Inv, BranchInv, ChainInv
<1> QED BY <1>6, <1>7 DEF BranchingSound

LEMMA Always == Spec => []Inv
BY InitInv, NextInv, PTL DEF Spec

\* Whatever the hosts, the crashes and the interleaving of their commits, the
\* ledger holds exactly the entries the record asks for, and no more runs are
\* submitted, nor train at once, than the BudgetSpec allows.
THEOREM BudgetTrue == Spec => []BudgetKept
BY Always, InvMeansBudget, PTL

\* Every decision is the engine's on the measurement of its own cycle, at most
\* one of them stops the experiment, and however many hosts plan at once there
\* is one open candidate, each branched from a node that was settled for it.
THEOREM BranchingTrue == Spec => []BranchingSound
BY Always, InvMeansBranching, PTL

-----------------------------------------------------------------------------
(* One controller.  What is still to be done is always in its hands: in the *)
(* chain it is in, among the attempts it observes, ahead of its attach(),   *)
(* or in its adaptive pass; and nobody else moves the record under it.      *)

\* A node has at most one live attempt: its training, then one evaluation.
SoleWork ==
  /\ \A n \in Nodes :
       /\ att[<<n, 0>>] = "live" => node[n] = "active" /\ run[n] = "active"
       /\ out[<<n, 0>>] \notin Measurements
       /\ \A k \in 1..MaxEvals :
            /\ att[<<n, k>>] # "none" => k = 1 /\ ev[n] \notin {"none", "created"}
            /\ att[<<n, k>>] = "live" => ev[n] = "active"
  /\ exp \in Ended => LiveAttempts = {}

\* A node's proposal was made before there was the node.
SoleOrigin ==
  \A n \in Nodes :
    branch[n].origin # <<>> => node[n] # "none" /\ branch[n].origin[1][2][n] = "none"

\* What the host's chain relies on.
SoleTask(t) ==
  /\ t.k = -1 => t.at \in {"node", "exhaust", "decide", "record"}
  /\ t.at = "run" => node[t.n] = "active" /\ att[<<t.n, 0>>] # "live"
  /\ t.at = "unmeasured" => att[<<t.n, t.k>>] = "live"
  /\ t.at = "evrun" => ev[t.n] # "created" /\ att[<<t.n, 1>>] # "live"
  /\ t.at = "begin" => exp = "active" /\ node[t.n] = "active" /\ run[t.n] = "succeeded"
  /\ t.at \in {"start", "attempt"} =>
       /\ exp = "active" /\ ev[t.n] \in {"created", "active"}
       /\ att[<<t.n, 1>>] = "none"
  /\ t.at = "attempt" => ev[t.n] = "active" /\ t.k = 1
  /\ t.at = "exhaust" \/ (t.at = "node" /\ t.k = -1) =>
       node[t.n] \in {"active", "evaluating"} /\ LiveAttempts = {}

SoleWatch(h) ==
  \A a \in watch[h] :
    /\ att[a] = "live" /\ sub[a] # "failed"
    /\ task[h].at = "unmeasured" => a # <<task[h].n, task[h].k>>

\* A proposal it waits for is not overtaken.
SolePass(p) ==
  /\ p.at = "propose" => exp = "active" /\ p.ctx = Context /\ p.round = 1
  /\ p.at = "round" => p.round = 0 \/ (p.round = 1 /\ \E n \in Nodes : node[n] = "planned")
  /\ p.at = "realize" => node[p.n] = "planned"

\* attach() has yet to come to node n.
Ahead(h, n) == ~up[h] \/ (sweep[h] > 0 /\ sweep[h] <= n)
Doing(h, n, steps) == task[h].n = n /\ task[h].at \in steps

SoleLive(h) ==
  \A a \in Attempts : att[a] = "live" =>
    \/ Ahead(h, a[1]) \/ a \in watch[h]
    \/ task[h].at = "unmeasured" /\ a = <<task[h].n, task[h].k>>

SoleNode(h, n) ==
  /\ ev[n] \in {"created", "active"} =>
       Ahead(h, n) \/ Doing(h, n, {"start", "attempt", "evrun"}) \/ att[<<n, 1>>] = "live"
  /\ node[n] = "evaluating" /\ ~noted[n] =>
       \/ Ahead(h, n) \/ Doing(h, n, {"start", "attempt", "evrun", "node"})
       \/ ev[n] \in {"created", "active"}
  /\ node[n] = "deciding" /\ ~noted[n] => Ahead(h, n) \/ Doing(h, n, {"decide", "record"})
  /\ node[n] = "active" /\ run[n] = "succeeded" =>
       Ahead(h, n) \/ Doing(h, n, {"evaluate", "begin", "exhaust"})
  /\ node[n] = "planned" =>
       ~up[h] \/ sweep[h] > 0 \/ due[h] \/ esc[h] \/ pass[h].at \in {"round", "realize"}

SoleHost(h) ==
  /\ \A g \in Hosts : up[g] => g = h
  /\ ~up[h] => task[h] = NoTask /\ watch[h] = {} /\ sweep[h] = 0 /\ pass[h] = NoPass
  /\ SoleTask(task[h]) /\ SoleWatch(h) /\ SolePass(pass[h]) /\ SoleLive(h)
  /\ exp = "active" => \A n \in Nodes : SoleNode(h, n)

SoleInv(h) == setup.hosts = {h} /\ SoleWork /\ SoleOrigin /\ SoleHost(h)

OpenNode == {"planned", "active", "evaluating", "deciding"}

LEMMA StatusTypes ==
  ASSUME Inv
  PROVE  /\ \A n \in Nodes : /\ node[n] \in OpenNode \cup {"none"} \cup Settled
                             /\ ev[n] \in {"none", "created", "active", "succeeded", "failed"}
                             /\ run[n] \in {"none", "active", "succeeded", "failed"}
                             /\ noted[n] \in BOOLEAN
         /\ exp \in {"none", "active"} \cup Ended
         /\ \A a \in Attempts : att[a] \in {"none", "live", "succeeded", "failed", "preempted"}
BY DEF Inv, WorkInv, WorkShapes, BranchInv, NodeShapes, OpenNode, Settled

LEMMA EvalAttempt ==
  /\ 1 \in 1..MaxEvals
  /\ \A n \in Nodes, k \in 1..MaxEvals : <<n, k>> \in Attempts /\ <<n, k>> # <<n, 0>>
BY LifecycleAssumption DEF Attempts

\* One node is open at a time, and it is the newest.
LEMMA OneOpen ==
  ASSUME Inv, NEW m \in Nodes, NEW n \in Nodes, node[m] \in OpenNode, node[n] \in OpenNode
  PROVE  m = n
<1>1. PICK k \in 0..MaxNodes : /\ \A i \in Nodes : node[i] # "none" <=> i <= k
                               /\ \A i \in Nodes : i < k => ForPlanning(i)
  BY DEF Inv, BranchInv, ChainInv
<1>2. ~ForPlanning(m) /\ ~ForPlanning(n) /\ m <= k /\ n <= k
  BY <1>1 DEF ForPlanning, OpenNode
<1> QED BY <1>1, <1>2, LifecycleAssumption DEF Nodes

\* An evaluation under way is that of a node that is being evaluated.
LEMMA EvalOpen ==
  ASSUME Inv, NEW n \in Nodes
  PROVE  /\ ev[n] \in {"created", "active", "failed"} => node[n] = "evaluating"
         /\ node[n] \in {"planned", "active"} => ev[n] = "none"
         /\ node[n] \in {"deciding"} \cup Settled => ev[n] = "succeeded"
<1>1. NodeInv(n)
  BY DEF Inv, BranchInv
<1> QED BY <1>1, StatusTypes DEF NodeInv, OpenNode

\* What lives is the one attempt of the open node.
LEMMA LiveIs ==
  ASSUME Inv, SoleWork, NEW a \in Attempts, att[a] = "live"
  PROVE  /\ a[1] \in Nodes
         /\ \/ a = <<a[1], 0>> /\ node[a[1]] = "active" /\ run[a[1]] = "active"
            \/ a = <<a[1], 1>> /\ node[a[1]] = "evaluating" /\ ev[a[1]] = "active"
<1>1. PICK n \in Nodes, k \in 0..MaxEvals : a = <<n, k>>
  BY DEF Attempts
<1>2. a[1] = n
  BY <1>1
<1>3. CASE k = 0
  BY <1>1, <1>2, <1>3 DEF SoleWork
<1>4. CASE k # 0
  <2>1. k \in 1..MaxEvals
    BY <1>4
  <2>2. k = 1 /\ ev[n] = "active"
    BY <1>1, <2>1 DEF SoleWork
  <2> QED BY <1>1, <1>2, <2>2, EvalOpen
<1> QED BY <1>3, <1>4

\* Nothing lives beside an open node whose own attempts do not.
LEMMA NothingLives ==
  ASSUME Inv, SoleWork, NEW n \in Nodes, node[n] \in OpenNode,
         node[n] = "active" => att[<<n, 0>>] # "live",
         node[n] = "evaluating" => att[<<n, 1>>] # "live"
  PROVE  LiveAttempts = {}
<1> SUFFICES ASSUME NEW a \in Attempts, att[a] = "live" PROVE FALSE
  BY DEF LiveAttempts
<1>1. a[1] = n
  BY LiveIs, OneOpen DEF OpenNode
<1> QED BY <1>1, LiveIs

\* Where every node is settled nothing lives at all.
LEMMA NothingOpen ==
  ASSUME Inv, SoleWork, \A n \in Nodes : node[n] \notin OpenNode
  PROVE  LiveAttempts = {}
<1> SUFFICES ASSUME NEW a \in Attempts, att[a] = "live" PROVE FALSE
  BY DEF LiveAttempts
<1> QED BY LiveIs DEF OpenNode

\* While the planner is asked every node is settled.
LEMMA NotProposing ==
  ASSUME Inv, NEW h \in Hosts, SolePass(pass[h]), NEW n \in Nodes, node[n] \in OpenNode
  PROVE  pass[h].at # "propose"
<1> SUFFICES ASSUME pass[h].at = "propose" PROVE FALSE
  OBVIOUS
<1>1. PICK p : p = pass[h]
  OBVIOUS
<1>2. PassOK(p) /\ p.at = "propose" /\ p.ctx = Context
  BY <1>1 DEF Inv, HostInv, PassesInv, SolePass
<1>3. p.ctx[2] = node /\ p.ctx[3] = dec
  BY <1>2 DEF Context
<1>4. node[n] # "none" => <<node[n], dec[n]>> \in {<<"completed", "BRANCH">>, <<"rejected", "REJECT">>}
  BY <1>2, <1>3 DEF PassOK
<1> QED BY <1>4 DEF OpenNode

LEMMA PlannedStage ==
  ASSUME Inv, exp = "active", NEW n \in Nodes, node[n] = "planned"
  PROVE  NextStage = "training"
<1>1. \A m \in Nodes : node[m] \in OpenNode => m = n
  BY OneOpen DEF OpenNode
<1>2. \A m \in Nodes : node[m] \notin {"deciding", "active", "evaluating"}
  BY <1>1 DEF OpenNode
<1>3. \A m \in Nodes : ev[m] \notin {"created", "active"}
  BY <1>2, EvalOpen
<1>4. exp \notin Ended
  BY DEF Ended
<1> QED BY <1>2, <1>3, <1>4 DEF NextStage

-----------------------------------------------------------------------------
(* What a step leaves alone. *)

LEMMA PassKept ==
  ASSUME NEW h \in Hosts, SolePass(pass[h]), pass'[h] = pass[h],
         \A n \in Nodes : node[n] = "planned" => node'[n] = "planned",
         pass[h].at = "propose" => UNCHANGED <<exp, node, dec, res, ledger>>,
         pass[h].at = "realize" => pass[h].n \in Nodes
  PROVE  SolePass(pass[h])'
<1>1. PICK p : p = pass[h] /\ p = pass'[h]
  OBVIOUS
<1>2. SolePass(p)
  BY <1>1
<1>3. p.at = "propose" => exp' = "active" /\ p.ctx = Context' /\ p.round = 1
  BY <1>1, <1>2 DEF SolePass, Context
<1>4. p.at = "round" => p.round = 0 \/ (p.round = 1 /\ \E n \in Nodes : node'[n] = "planned")
  BY <1>1, <1>2 DEF SolePass
<1>5. p.at = "realize" => node'[p.n] = "planned"
  BY <1>1, <1>2 DEF SolePass
<1> QED BY <1>1, <1>3, <1>4, <1>5 DEF SolePass

LEMMA OriginKept ==
  ASSUME SoleOrigin, UNCHANGED branch, \A n \in Nodes : node[n] # "none" => node'[n] # "none"
  PROVE  SoleOrigin'
BY DEF SoleOrigin

LEMMA WorkKept ==
  ASSUME SoleWork, UNCHANGED <<exp, node, run, ev, att, out>>
  PROVE  SoleWork'
BY DEF SoleWork, LiveAttempts

\* The host that takes a step is the one there is.
LEMMA SoleActor ==
  ASSUME NEW h \in Hosts, SoleInv(h), NEW g \in Hosts, up[g]
  PROVE  g = h
BY DEF SoleInv, SoleHost

LEMMA SoleStep ==
  ASSUME NEW h \in Hosts, SoleInv(h), up[h], UNCHANGED <<setup, up>>, SoleWork', SoleOrigin',
         SoleTask(task[h])', SoleWatch(h)', SolePass(pass[h])', SoleLive(h)',
         exp' = "active" => \A n \in Nodes : SoleNode(h, n)'
  PROVE  SoleInv(h)'
BY DEF SoleInv, SoleHost

\* What the invariant says of a host that is up.
LEMMA SoleFacts ==
  ASSUME NEW h \in Hosts, SoleInv(h)
  PROVE  /\ setup.hosts = {h} /\ SoleWork /\ SoleOrigin
         /\ SoleTask(task[h]) /\ SoleWatch(h) /\ SolePass(pass[h]) /\ SoleLive(h)
         /\ exp = "active" => \A n \in Nodes : SoleNode(h, n)
BY DEF SoleInv, SoleHost

LEMMA PassNode ==
  ASSUME Inv, NEW h \in Hosts
  PROVE  pass[h].n \in Nodes /\ pass[h].round \in Nat
         /\ pass[h].at \in {"none", "round", "propose", "realize"}
<1>1. PICK p : p = pass[h]
  OBVIOUS
<1>2. IsPass(p)
  BY <1>1 DEF Inv, HostInv, PassesInv
<1> QED BY <1>1, <1>2 DEF IsPass

\* An attempt that is watched is live, and its node is open.
LEMMA WatchedOpen ==
  ASSUME Inv, NEW h \in Hosts, SoleInv(h), NEW a \in Attempts, a \in watch[h]
  PROVE  /\ att[a] = "live" /\ sub[a] # "failed"
         /\ a[1] \in Nodes /\ node[a[1]] \in OpenNode
         /\ pass[h].at # "propose"
<1>1. att[a] = "live" /\ sub[a] # "failed"
  BY SoleFacts DEF SoleWatch
<1>2. a[1] \in Nodes /\ node[a[1]] \in OpenNode
  BY <1>1, SoleFacts, LiveIs DEF OpenNode
<1> QED BY <1>1, <1>2, SoleFacts, NotProposing

LEMMA OvertakenSole ==
  ASSUME Inv, NEW h \in Hosts, SoleInv(h), NEW a \in Attempts, Overtaken(h, a)
  PROVE  FALSE
BY WatchedOpen DEF Overtaken

LEMMA ConfirmSole ==
  ASSUME Inv, NEW h \in Hosts, SoleInv(h), NEW a \in Attempts, Confirm(h, a)
  PROVE  SoleInv(h)'
<1>1. /\ up[h] /\ a \in watch[h] /\ sub' = [sub EXCEPT ![a] = "confirmed"]
      /\ UNCHANGED <<setup, exp, best, node, branch, run, ev, res, dec, noted, att, out,
                     up, task, watch, sweep, due, pass, esc>>
  BY DEF Confirm, Idle, memory
<1>2. SoleWork' /\ SoleOrigin'
  BY <1>1, SoleFacts, WorkKept, OriginKept
<1>3. SoleTask(task[h])' /\ SoleLive(h)' /\ (exp' = "active" => \A n \in Nodes : SoleNode(h, n)')
  BY <1>1, SoleFacts DEF SoleTask, SoleLive, SoleNode, Ahead, Doing, LiveAttempts
<1>4. SoleWatch(h)'
  BY <1>1, SoleFacts DEF SoleWatch, Inv, WorkInv, WorkShapes
<1>5. SolePass(pass[h])'
  BY <1>1, SoleFacts, PassNode, WatchedOpen, PassKept
<1> QED BY <1>1, <1>2, <1>3, <1>4, <1>5, SoleStep

LEMMA RejectSole ==
  ASSUME Inv, NEW h \in Hosts, SoleInv(h), NEW a \in Attempts, Reject(h, a)
  PROVE  SoleInv(h)'
<1> DEFINE t == [at |-> "unmeasured", n |-> a[1], k |-> a[2], then |-> "end"]
<1>1. /\ up[h] /\ a \in watch[h] /\ sub' = [sub EXCEPT ![a] = "failed"] /\ task[h].at = "idle"
      /\ watch'[h] = watch[h] \ {a} /\ task'[h] = t
      /\ UNCHANGED <<setup, exp, best, node, branch, run, ev, res, dec, noted, att, ledger, out,
                     up, sweep, due, pass, esc>>
  BY DEF Reject, Idle, Inv, HostInv, FlagShapes, TasksInv
<1>2. SoleWork' /\ SoleOrigin'
  BY <1>1, SoleFacts, WorkKept, OriginKept
<1>3. att[a] = "live" /\ a = <<a[1], a[2]>> /\ a[1] \in Nodes /\ a[2] # -1
  BY <1>1, WatchedOpen, AttemptParts
<1>4. SoleTask(task[h])'
  BY <1>1, <1>3 DEF SoleTask
<1>5. SoleWatch(h)'
  BY <1>1, <1>3, SoleFacts DEF SoleWatch, Inv, WorkInv, WorkShapes, HostInv, FlagShapes
<1>6. SolePass(pass[h])'
  BY <1>1, SoleFacts, PassNode, PassKept
<1>7. SoleLive(h)'
  BY <1>1, <1>3, SoleFacts DEF SoleLive, Ahead
<1>8. exp' = "active" => \A n \in Nodes : SoleNode(h, n)'
  BY <1>1, SoleFacts DEF SoleNode, Ahead, Doing
<1> QED BY <1>1, <1>2, <1>4, <1>5, <1>6, <1>7, <1>8, SoleStep

LEMMA EndsUnmeasuredSole ==
  ASSUME Inv, NEW h \in Hosts, SoleInv(h), NEW a \in Attempts, EndsUnmeasured(h, a)
  PROVE  SoleInv(h)'
<1> DEFINE t == [at |-> "unmeasured", n |-> a[1], k |-> a[2], then |-> "adapt"]
<1>1. /\ up[h] /\ a \in watch[h] /\ task[h].at = "idle"
      /\ watch'[h] = watch[h] \ {a} /\ task'[h] = t
      /\ UNCHANGED <<setup, exp, best, node, branch, run, ev, res, dec, noted, att, sub, ledger, out,
                     up, sweep, due, pass, esc>>
  BY DEF EndsUnmeasured, record, Idle, Inv, HostInv, FlagShapes, TasksInv
<1>2. SoleWork' /\ SoleOrigin'
  BY <1>1, SoleFacts, WorkKept, OriginKept
<1>3. att[a] = "live" /\ a = <<a[1], a[2]>> /\ a[1] \in Nodes /\ a[2] # -1
  BY <1>1, WatchedOpen, AttemptParts
<1>4. SoleTask(task[h])'
  BY <1>1, <1>3 DEF SoleTask
<1>5. SoleWatch(h)'
  BY <1>1, <1>3, SoleFacts DEF SoleWatch
<1>6. SolePass(pass[h])'
  BY <1>1, SoleFacts, PassNode, PassKept
<1>7. SoleLive(h)'
  BY <1>1, <1>3, SoleFacts DEF SoleLive, Ahead
<1>8. exp' = "active" => \A n \in Nodes : SoleNode(h, n)'
  BY <1>1, SoleFacts DEF SoleNode, Ahead, Doing
<1> QED BY <1>1, <1>2, <1>4, <1>5, <1>6, <1>7, <1>8, SoleStep

LEMMA RuntimeEndsSole ==
  ASSUME Inv, NEW h \in Hosts, SoleInv(h), NEW a \in Attempts, RuntimeEnds(a)
  PROVE  SoleInv(h)'
<1>1. UNCHANGED <<setup, exp, best, node, branch, run, ev, res, dec, noted, att, sub, ledger,
                  up, task, watch, sweep, due, pass, esc>>
  BY DEF RuntimeEnds, record, memory
<1>2. \A n \in Nodes : out'[<<n, 0>>] \notin Measurements
  <2>1. PICK o : /\ out' = [out EXCEPT ![a] = o]
                 /\ o \in IF a[2] = 0 THEN {Trained, Modelless, Failed}
                          ELSE setup.answers \cup {Failed, Preempted}
    BY DEF RuntimeEnds
  <2>2. {Trained, Modelless, Failed} \cap Measurements = {}
    <3>1. ASSUME NEW m \in Measurements PROVE m[1] \in {"met", "missed", "absent"}
      BY MeasurementShape
    <3>2. Trained[1] = "trained" /\ Modelless[1] = "trained" /\ Failed[1] = "failed"
      BY DEF Trained, Modelless, Failed
    <3> QED BY <3>1, <3>2
  <2>3. ASSUME NEW n \in Nodes
        PROVE  out'[<<n, 0>>] \notin Measurements
    <3>1. <<n, 0>> \in Attempts /\ out[<<n, 0>>] \notin Measurements /\ out \in [Attempts -> Outs]
      BY FirstAttempt, SoleFacts DEF SoleWork, Inv, WorkInv, WorkShapes
    <3>2. CASE a = <<n, 0>>
      BY <2>1, <2>2, <3>1, <3>2
    <3>3. CASE a # <<n, 0>>
      BY <2>1, <3>1, <3>3
    <3> QED BY <3>2, <3>3
  <2> QED BY <2>3
<1>3. SoleWork'
  BY <1>1, <1>2, SoleFacts DEF SoleWork, LiveAttempts
<1>4. SoleOrigin'
  BY <1>1, SoleFacts, OriginKept
<1>5. SoleHost(h)'
  BY <1>1 DEF SoleInv, SoleHost, SoleTask, SoleWatch, SolePass, Context, SoleLive, SoleNode, Ahead, Doing, LiveAttempts
<1> QED BY <1>1, <1>3, <1>4, <1>5 DEF SoleInv

LEMMA SettleTrainingSole ==
  ASSUME Inv, Inv', NEW h \in Hosts, SoleInv(h), NEW a \in Attempts, SettleTraining(h, a)
  PROVE  SoleInv(h)'
<1> DEFINE t == [at |-> "run", n |-> a[1], k |-> 0, then |-> "end"]
<1>1. /\ up[h] /\ a \in watch[h] /\ task[h].at = "idle" /\ a[2] = 0
      /\ watch'[h] = watch[h] \ {a} /\ task'[h] = t
      /\ UNCHANGED <<setup, exp, best, node, branch, run, ev, res, dec, noted, sub, out,
                     up, sweep, due, pass, esc>>
  BY DEF SettleTraining, Idle, Inv, HostInv, FlagShapes, TasksInv
<1>2. /\ att[a] = "live" /\ a = <<a[1], 0>> /\ a[1] \in Nodes /\ node[a[1]] = "active"
      /\ pass[h].at # "propose"
  <2>1. att[a] = "live" /\ a = <<a[1], a[2]>> /\ pass[h].at # "propose"
    BY <1>1, WatchedOpen, AttemptParts
  <2> QED BY <1>1, <2>1, SoleFacts, LiveIs
<1>3. PICK s \in {"failed", "succeeded"} : att' = [att EXCEPT ![a] = s]
  BY <1>2 DEF SettleTraining, EndAttempt
<1>4. att'[a] # "live" /\ att'[a] # "none" /\ \A b \in Attempts : b # a => att'[b] = att[b]
  BY <1>3 DEF Inv, WorkInv, WorkShapes
<1>5. SoleWork'
  <2>1. ASSUME NEW n \in Nodes
        PROVE  /\ att'[<<n, 0>>] = "live" => att[<<n, 0>>] = "live"
               /\ \A k \in 1..MaxEvals : att'[<<n, k>>] = att[<<n, k>>]
    <3>1. \A k \in 1..MaxEvals : <<n, k>> # a /\ <<n, k>> \in Attempts
      BY <1>2, EvalAttempt
    <3> QED BY <1>4, <3>1, FirstAttempt
  <2>2. exp \in Ended => LiveAttempts' = {}
    BY <1>2, SoleFacts DEF SoleWork, LiveAttempts
  <2> QED BY <1>1, <2>1, <2>2, SoleFacts DEF SoleWork
<1>6. SoleOrigin'
  BY <1>1, SoleFacts, OriginKept
<1>7. SoleTask(task[h])'
  BY <1>1, <1>2, <1>4 DEF SoleTask
<1>8. SoleWatch(h)'
  BY <1>1, <1>4, SoleFacts DEF SoleWatch, Inv, HostInv, FlagShapes
<1>9. SolePass(pass[h])'
  BY <1>1, <1>2, SoleFacts, PassNode, PassKept
<1>10. SoleLive(h)'
  BY <1>1, <1>4, SoleFacts DEF SoleLive, Ahead
<1>11. exp' = "active" => \A n \in Nodes : SoleNode(h, n)'
  <2>1. \A n \in Nodes : <<n, 1>> \in Attempts /\ <<n, 1>> # a
    BY <1>2, EvalAttempt
  <2>2. ASSUME NEW n \in Nodes, exp = "active"
        PROVE  SoleNode(h, n)'
    <3>1. SoleNode(h, n) /\ task[h].at = "idle" /\ task'[h].at = "run"
      BY <1>1, <2>2, SoleFacts
    <3>2. att'[<<n, 1>>] = att[<<n, 1>>]
      BY <1>4, <2>1
    <3> QED BY <1>1, <3>1, <3>2 DEF SoleNode, Ahead, Doing
  <2> QED BY <1>1, <2>2
<1> QED BY <1>1, <1>5, <1>6, <1>7, <1>8, <1>9, <1>10, <1>11, SoleStep

-----------------------------------------------------------------------------
(* The chain of commits. *)

LEMMA GoIs ==
  ASSUME Inv, NEW h \in Hosts, NEW s, Go(h, s)
  PROVE  task'[h].at = s /\ task'[h].n = task[h].n /\ task'[h].k = task[h].k
<1>1. PICK u : u = task[h]
  OBVIOUS
<1>2. IsTask(u) /\ task = [g \in Hosts |-> task[g]]
  BY <1>1 DEF Inv, HostInv, TasksInv
<1>3. task'[h] = [u EXCEPT !.at = s]
  BY <1>1, <1>2 DEF Go
<1> QED BY <1>1, <1>2, <1>3 DEF IsTask

LEMMA DoneIs ==
  ASSUME Inv, NEW h \in Hosts, Done(h)
  PROVE  task'[h] = NoTask /\ task'[h].at = "idle" /\ task'[h].k = 0 /\ (due[h] => due'[h])
<1>1. task'[h] = NoTask
  BY DEF Inv, HostInv, TasksInv, Done
<1>2. due'[h] = (due[h] \/ task[h].then = "adapt")
  BY DEF Inv, HostInv, FlagShapes, Done
<1>3. due[h] => due'[h]
  BY <1>2, Zenon
<1> QED BY <1>1, <1>3 DEF NoTask

TaskNode ==
  {"start", "attempt", "evrun", "node", "decide", "record", "evaluate", "begin", "exhaust"}

\* A node that a step does not touch stays as well attended as it was.
LEMMA NodeKept ==
  ASSUME NEW h \in Hosts, NEW n \in Nodes, SoleNode(h, n), UNCHANGED <<up, sweep, esc>>,
         pass'[h] = pass[h], due[h] => due'[h],
         node'[n] = node[n], ev'[n] = ev[n], run'[n] = run[n], noted'[n] = noted[n],
         att'[<<n, 1>>] = att[<<n, 1>>],
         ~Doing(h, n, TaskNode)
  PROVE  SoleNode(h, n)'
<1>1. Ahead(h, n)' <=> Ahead(h, n)
  BY DEF Ahead
<1>2. /\ ~Doing(h, n, {"start", "attempt", "evrun"})
      /\ ~Doing(h, n, {"start", "attempt", "evrun", "node"})
      /\ ~Doing(h, n, {"decide", "record"}) /\ ~Doing(h, n, {"evaluate", "begin", "exhaust"})
  BY DEF Doing, TaskNode
<1>3. node[n] = "planned" => (~up[h] \/ sweep[h] > 0 \/ due[h] \/ esc[h] \/ pass[h].at \in {"round", "realize"})'
  BY DEF SoleNode
<1> QED BY <1>1, <1>2, <1>3 DEF SoleNode

LEMMA LiveKept ==
  ASSUME NEW h \in Hosts, SoleLive(h), UNCHANGED <<up, sweep>>, watch'[h] = watch[h],
         task[h].at # "unmeasured", \A a \in Attempts : att'[a] = "live" => att[a] = "live"
  PROVE  SoleLive(h)'
BY DEF SoleLive, Ahead

LEMMA WatchKept ==
  ASSUME NEW h \in Hosts, SoleWatch(h), watch'[h] = watch[h], UNCHANGED <<att, sub>>,
         task'[h].at # "unmeasured"
  PROVE  SoleWatch(h)'
BY DEF SoleWatch

LEMMA ContinueSole ==
  ASSUME Inv, NEW h \in Hosts, SoleInv(h), ContinueToEvaluation(h)
  PROVE  SoleInv(h)'
<1>1. /\ up[h] /\ task[h].at = "evaluate"
      /\ UNCHANGED <<setup, exp, best, node, branch, run, ev, res, dec, noted, att, sub, ledger, out,
                     up, watch, sweep, pass, esc>>
  BY DEF ContinueToEvaluation, At, Rest, record
<1>2. PICK m \in Nodes : m = task[h].n
  BY TaskShape DEF Inv, HostInv
<1>3. /\ due[h] => due'[h]
      /\ \/ /\ exp = "active" /\ node[m] = "active" /\ run[m] = "succeeded"
            /\ task'[h].at = "begin" /\ task'[h].n = m /\ task'[h].k = task[h].k
         \/ /\ ~(exp = "active" /\ node[m] = "active" /\ run[m] = "succeeded")
            /\ task'[h].at = "idle" /\ task'[h].k = 0
  BY <1>2, GoIs, DoneIs DEF ContinueToEvaluation
<1>4. SoleWork' /\ SoleOrigin'
  BY <1>1, SoleFacts, WorkKept, OriginKept
<1>5. SoleTask(task[h])'
  <2>1. task[h].k # -1
    BY <1>1, SoleFacts DEF SoleTask
  <2> QED BY <1>1, <1>3, <2>1 DEF SoleTask
<1>6. SoleWatch(h)' /\ SoleLive(h)'
  BY <1>1, <1>3, SoleFacts, WatchKept, LiveKept
<1>7. SolePass(pass[h])'
  BY <1>1, SoleFacts, PassNode, PassKept
<1>8. ASSUME exp' = "active", NEW n \in Nodes
      PROVE  SoleNode(h, n)'
  <2>1. SoleNode(h, n)
    BY <1>1, <1>8, SoleFacts
  <2>2. CASE n # m
    BY <1>1, <1>2, <1>3, <2>1, <2>2, NodeKept DEF Doing
  <2>3. CASE n = m
    <3>1. Ahead(h, n)' <=> Ahead(h, n)
      BY <1>1 DEF Ahead
    <3>2. node[n] = "planned" =>
            (~up[h] \/ sweep[h] > 0 \/ due[h] \/ esc[h] \/ pass[h].at \in {"round", "realize"})'
      BY <1>1, <1>3, <2>1 DEF SoleNode
    <3> QED BY <1>1, <1>2, <1>3, <1>8, <2>1, <2>3, <3>1, <3>2 DEF SoleNode, Doing
  <2> QED BY <2>2, <2>3
<1> QED BY <1>1, <1>4, <1>5, <1>6, <1>7, <1>8, SoleStep

LEMMA SettleTrainingRunSole ==
  ASSUME Inv, Inv', NEW h \in Hosts, SoleInv(h), SettleTrainingRun(h)
  PROVE  SoleInv(h)'
<1>1. /\ up[h] /\ task[h].at = "run"
      /\ UNCHANGED <<setup, exp, best, node, branch, ev, res, dec, noted, att, sub, out,
                     up, watch, sweep, pass, esc>>
  BY DEF SettleTrainingRun, At, Rest
<1>2. PICK m \in Nodes : m = task[h].n
  BY TaskShape DEF Inv, HostInv
<1>3. /\ due[h] => due'[h]
      /\ \/ task'[h].at = "evaluate" /\ task'[h].n = m /\ task'[h].k = task[h].k
         \/ task'[h].at = "idle" /\ task'[h].k = 0 /\ out[<<m, 0>>] \notin {Trained, Modelless}
  BY <1>2, GoIs, DoneIs DEF SettleTrainingRun
<1>4. /\ node[m] = "active" /\ att[<<m, 0>>] # "live"
      /\ \A n \in Nodes : n # m => run'[n] = run[n]
      /\ task'[h].at = "idle" => run'[m] = run[m] \/ run'[m] = "failed"
  <2>1. node[m] = "active" /\ att[<<m, 0>>] # "live"
    BY <1>1, <1>2, SoleFacts DEF SoleTask
  <2>2. \A n \in Nodes : n # m => run'[n] = run[n]
    BY <1>2 DEF SettleTrainingRun, Inv, WorkInv, WorkShapes
  <2>3. task'[h].at = "idle" => run'[m] = run[m] \/ run'[m] = "failed"
    BY <1>2, <1>3 DEF SettleTrainingRun, Inv, WorkInv, WorkShapes
  <2> QED BY <2>1, <2>2, <2>3
<1>5. SoleWork'
  BY <1>1, <1>4, SoleFacts DEF SoleWork, LiveAttempts
<1>6. SoleOrigin'
  BY <1>1, SoleFacts, OriginKept
<1>7. SoleTask(task[h])'
  <2>1. task[h].k # -1
    BY <1>1, SoleFacts DEF SoleTask
  <2> QED BY <1>1, <1>3, <2>1 DEF SoleTask
<1>8. SoleWatch(h)' /\ SoleLive(h)'
  BY <1>1, <1>3, SoleFacts, WatchKept, LiveKept
<1>9. SolePass(pass[h])'
  <2>1. pass[h].at # "propose"
    BY <1>4, SoleFacts, NotProposing DEF OpenNode
  <2> QED BY <1>1, <2>1, SoleFacts, PassNode, PassKept
<1>10. ASSUME exp' = "active", NEW n \in Nodes
      PROVE  SoleNode(h, n)'
  <2>1. SoleNode(h, n)
    BY <1>1, <1>10, SoleFacts
  <2>2. CASE n # m
    BY <1>1, <1>2, <1>3, <1>4, <2>1, <2>2, NodeKept DEF Doing
  <2>3. CASE n = m
    <3>1. Ahead(h, n)' <=> Ahead(h, n)
      BY <1>1 DEF Ahead
    <3>2. ev[n] = "none"
      BY <1>4, <2>3, EvalOpen
    <3>3. run'[n] = "succeeded" => Ahead(h, n)' \/ Doing(h, n, {"evaluate", "begin", "exhaust"})'
      BY <1>1, <1>2, <1>3, <1>4, <2>1, <2>3, <3>1 DEF SoleNode, Doing
    <3> QED BY <1>1, <1>4, <2>3, <3>2, <3>3 DEF SoleNode
  <2> QED BY <2>2, <2>3
<1> QED BY <1>1, <1>5, <1>6, <1>7, <1>8, <1>9, <1>10, SoleStep

LEMMA RecordResultSole ==
  ASSUME Inv, Inv', NEW h \in Hosts, SoleInv(h), NEW a \in Attempts, RecordResult(h, a)
  PROVE  SoleInv(h)'
<1>1. /\ up[h] /\ a \in watch[h] /\ task[h].at = "idle" /\ out[a] \in Measurements
      /\ watch'[h] = watch[h] \ {a}
      /\ UNCHANGED <<setup, exp, best, node, branch, run, dec, noted, sub, out,
                     up, sweep, due, pass, esc>>
  BY DEF RecordResult, Idle, Inv, HostInv, FlagShapes
<1>2. PICK m \in Nodes : m = a[1]
  BY AttemptParts
<1>3. /\ a = <<m, 1>> /\ att[a] = "live" /\ node[m] = "evaluating" /\ ev[m] = "active"
      /\ pass[h].at # "propose"
  <2>1. att[a] = "live" /\ pass[h].at # "propose"
    BY <1>1, WatchedOpen
  <2>2. a # <<m, 0>>
    BY <1>1, SoleFacts DEF SoleWork
  <2> QED BY <1>2, <2>1, <2>2, SoleFacts, LiveIs
<1>4. /\ att' = [att EXCEPT ![a] = "succeeded"] /\ ev' = [ev EXCEPT ![m] = "succeeded"]
      /\ task' = [task EXCEPT ![h] = [at |-> "node", n |-> m, k |-> 0, then |-> "adapt"]]
  BY <1>2, <1>3 DEF RecordResult
<1>5. /\ task'[h].at = "node" /\ task'[h].n = m /\ task'[h].k = 0
      /\ att'[a] = "succeeded" /\ \A b \in Attempts : b # a => att'[b] = att[b]
      /\ ev'[m] = "succeeded" /\ \A n \in Nodes : n # m => ev'[n] = ev[n]
  BY <1>4 DEF Inv, WorkInv, WorkShapes, BranchInv, NodeShapes, HostInv, TasksInv
<1>6. /\ \A n \in Nodes : <<n, 0>> \in Attempts /\ att'[<<n, 0>>] = att[<<n, 0>>]
      /\ \A n \in Nodes : n # m => \A k \in 1..MaxEvals : att'[<<n, k>>] = att[<<n, k>>]
      /\ \A k \in 1..MaxEvals : k # 1 => att'[<<m, k>>] = att[<<m, k>>]
      /\ \A n \in Nodes : n # m => att'[<<n, 1>>] = att[<<n, 1>>]
  BY <1>3, <1>5, FirstAttempt, EvalAttempt
<1>7. SoleWork'
  <2>1. exp \notin Ended
    BY <1>3, SoleFacts DEF SoleWork, LiveAttempts
  <2>2. ASSUME NEW n \in Nodes, NEW k \in 1..MaxEvals
        PROVE  /\ att'[<<n, k>>] # "none" => k = 1 /\ ev'[n] \notin {"none", "created"}
               /\ att'[<<n, k>>] = "live" => ev'[n] = "active"
    <3>0. /\ att[<<n, k>>] # "none" => k = 1 /\ ev[n] \notin {"none", "created"}
          /\ att[<<n, k>>] = "live" => ev[n] = "active"
      BY SoleFacts DEF SoleWork
    <3>1. CASE n # m
      BY <1>5, <1>6, <3>0, <3>1
    <3>2. CASE n = m /\ k = 1
      BY <1>3, <1>5, <3>2
    <3>3. CASE n = m /\ k # 1
      BY <1>6, <3>0, <3>3
    <3> QED BY <3>1, <3>2, <3>3
  <2> QED BY <1>1, <1>6, <2>1, <2>2, SoleFacts DEF SoleWork
<1>8. SoleOrigin'
  BY <1>1, SoleFacts, OriginKept
<1>9. SoleTask(task[h])'
  BY <1>5 DEF SoleTask
<1>10. SoleWatch(h)'
  BY <1>1, <1>5, SoleFacts DEF SoleWatch, Inv, HostInv, FlagShapes
<1>11. SolePass(pass[h])'
  BY <1>1, <1>3, SoleFacts, PassNode, PassKept
<1>12. SoleLive(h)'
  BY <1>1, <1>5, SoleFacts DEF SoleLive, Ahead
<1>13. ASSUME exp' = "active", NEW n \in Nodes
      PROVE  SoleNode(h, n)'
  <2>1. SoleNode(h, n)
    BY <1>1, <1>13, SoleFacts
  <2>2. CASE n # m
    BY <1>1, <1>5, <1>6, <2>1, <2>2, NodeKept DEF Doing, TaskNode
  <2>3. CASE n = m
    BY <1>1, <1>3, <1>5, <2>3 DEF SoleNode, Doing
  <2> QED BY <2>2, <2>3
<1> QED BY <1>1, <1>7, <1>8, <1>9, <1>10, <1>11, <1>12, <1>13, SoleStep

LEMMA SettleUnmeasuredSole ==
  ASSUME Inv, Inv', NEW h \in Hosts, SoleInv(h), SettleUnmeasured(h)
  PROVE  SoleInv(h)'
<1>1. /\ up[h] /\ task[h].at = "unmeasured"
      /\ UNCHANGED <<setup, exp, best, node, branch, run, ev, res, dec, noted, sub, out,
                     up, watch, sweep, due, pass, esc>>
  BY DEF SettleUnmeasured, At, Rest
<1>2. PICK m, k, a : m = task[h].n /\ k = task[h].k /\ a = <<m, k>> /\ a \in Attempts /\ m \in Nodes
  BY <1>1, TaskShape DEF Inv, HostInv
<1>3. att[a] = "live" /\ pass[h].at # "propose" /\ k \in {0, 1} /\ a[1] = m
  <2>1. att[a] = "live" /\ a[1] = m /\ a[2] = k
    BY <1>1, <1>2, SoleFacts DEF SoleTask
  <2>2. /\ node[m] \in OpenNode
        /\ a = <<m, 0>> \/ a = <<m, 1>>
    BY <1>2, <2>1, SoleFacts, LiveIs DEF OpenNode
  <2>3. k = 0 \/ k = 1
    BY <1>2, <2>2
  <2>4. pass[h].at # "propose"
    BY <1>2, <2>2, SoleFacts, NotProposing
  <2> QED BY <2>1, <2>3, <2>4
<1>4. /\ k = 0 => node[m] = "active"
      /\ k = 1 => node[m] = "evaluating" /\ ev[m] = "active"
  BY <1>2, <1>3, SoleFacts, LiveIs
<1>5. PICK s \in {"preempted", "failed"} : att' = [att EXCEPT ![a] = s]
  <2>1. EndAttempt(a, IF out[a] = Preempted THEN "preempted" ELSE "failed")
    BY <1>2 DEF SettleUnmeasured
  <2> QED BY <1>3, <2>1 DEF EndAttempt
<1>6. att'[a] \in {"preempted", "failed"} /\ \A b \in Attempts : b # a => att'[b] = att[b]
  BY <1>2, <1>5 DEF Inv, WorkInv, WorkShapes
<1>7. /\ task'[h].at = IF k = 0 THEN "run" ELSE "evrun"
      /\ task'[h].n = m /\ task'[h].k = k
  <2>1. Go(h, IF k = 0 THEN "run" ELSE "evrun")
    BY <1>2 DEF SettleUnmeasured
  <2> QED BY <1>2, <2>1, GoIs
<1>8. SoleWork'
  <2>1. exp \notin Ended
    BY <1>2, <1>3, SoleFacts DEF SoleWork, LiveAttempts
  <2>2. ASSUME NEW n \in Nodes, NEW j \in 0..MaxEvals, att'[<<n, j>>] = "live"
        PROVE  att[<<n, j>>] = "live"
    <3>1. <<n, j>> \in Attempts
      BY DEF Attempts
    <3> QED BY <1>6, <2>2, <3>1
  <2>3. ASSUME NEW n \in Nodes, NEW j \in 0..MaxEvals, att'[<<n, j>>] # "none"
        PROVE  att[<<n, j>>] # "none"
    <3>1. <<n, j>> \in Attempts
      BY DEF Attempts
    <3> QED BY <1>3, <1>6, <2>3, <3>1
  <2>4. 0 \in 0..MaxEvals /\ \A j \in 1..MaxEvals : j \in 0..MaxEvals
    BY LifecycleAssumption
  <2> QED BY <1>1, <2>1, <2>2, <2>3, <2>4, SoleFacts DEF SoleWork
<1>9. SoleOrigin'
  BY <1>1, SoleFacts, OriginKept
<1>10. SoleTask(task[h])'
  BY <1>1, <1>2, <1>3, <1>4, <1>6, <1>7 DEF SoleTask
<1>11. SoleWatch(h)'
  BY <1>1, <1>2, <1>6, <1>7, SoleFacts DEF SoleWatch, Inv, HostInv, FlagShapes
<1>12. SolePass(pass[h])'
  BY <1>1, <1>3, SoleFacts, PassNode, PassKept
<1>13. SoleLive(h)'
  BY <1>1, <1>2, <1>6, SoleFacts DEF SoleLive, Ahead
<1>14. ASSUME exp' = "active", NEW n \in Nodes
      PROVE  SoleNode(h, n)'
  <2>1. SoleNode(h, n) /\ <<n, 1>> \in Attempts
    BY <1>1, <1>14, SoleFacts, EvalAttempt
  <2>2. CASE n # m \/ k = 0
    <3>1. att'[<<n, 1>>] = att[<<n, 1>>]
      BY <1>2, <1>6, <2>1, <2>2
    <3> QED BY <1>1, <2>1, <3>1, NodeKept DEF Doing, TaskNode
  <2>3. CASE n = m /\ k = 1
    BY <1>1, <1>4, <1>7, <2>3 DEF SoleNode, Doing
  <2> QED BY <1>3, <2>2, <2>3
<1> QED BY <1>1, <1>8, <1>9, <1>10, <1>11, <1>12, <1>13, <1>14, SoleStep

LEMMA SettleEvaluationRunSole ==
  ASSUME Inv, Inv', NEW h \in Hosts, SoleInv(h), SettleEvaluationRun(h)
  PROVE  SoleInv(h)'
<1>1. /\ up[h] /\ task[h].at = "evrun"
      /\ UNCHANGED <<setup, exp, best, node, branch, run, res, dec, noted, att, sub, ledger, out,
                     up, watch, sweep, due, pass, esc>>
  BY DEF SettleEvaluationRun, At, Rest
<1>2. PICK m \in Nodes : m = task[h].n
  BY TaskShape DEF Inv, HostInv
<1>3. task'[h].at = "node" /\ task'[h].n = m /\ task'[h].k = task[h].k /\ task[h].k # -1
  <2>1. task[h].k # -1
    BY <1>1, SoleFacts DEF SoleTask
  <2> QED BY <1>2, <2>1, GoIs DEF SettleEvaluationRun
<1>4. ev[m] # "created" /\ att[<<m, 1>>] # "live"
  BY <1>1, <1>2, SoleFacts DEF SoleTask
<1>5. /\ ev'[m] = IF ev[m] = "active" THEN "failed" ELSE ev[m]
      /\ \A n \in Nodes : n # m => ev'[n] = ev[n]
  BY <1>2 DEF SettleEvaluationRun, Inv, BranchInv, NodeShapes
<1>6. SoleWork'
  <2>1. ASSUME NEW n \in Nodes, NEW k \in 1..MaxEvals
        PROVE  /\ att[<<n, k>>] # "none" => k = 1 /\ ev'[n] \notin {"none", "created"}
               /\ att[<<n, k>>] = "live" => ev'[n] = "active"
    BY <1>4, <1>5, SoleFacts DEF SoleWork
  <2> QED BY <1>1, <2>1, SoleFacts DEF SoleWork, LiveAttempts
<1>7. SoleOrigin'
  BY <1>1, SoleFacts, OriginKept
<1>8. SoleTask(task[h])'
  BY <1>3 DEF SoleTask
<1>9. SoleWatch(h)' /\ SoleLive(h)'
  BY <1>1, <1>3, SoleFacts, WatchKept, LiveKept
<1>10. SolePass(pass[h])'
  BY <1>1, SoleFacts, PassNode, PassKept
<1>11. ASSUME exp' = "active", NEW n \in Nodes
      PROVE  SoleNode(h, n)'
  <2>1. SoleNode(h, n)
    BY <1>1, <1>11, SoleFacts
  <2>2. CASE n # m
    BY <1>1, <1>2, <1>5, <2>1, <2>2, NodeKept DEF Doing
  <2>3. CASE n = m
    <3>1. Ahead(h, n)' <=> Ahead(h, n)
      BY <1>1 DEF Ahead
    <3>2. ev'[n] \notin {"created", "active"}
      BY <1>4, <1>5, <2>3
    <3>3. Doing(h, n, {"start", "attempt", "evrun", "node"})'
      BY <1>3, <2>3 DEF Doing
    <3>4. ~Doing(h, n, {"decide", "record"}) /\ ~Doing(h, n, {"evaluate", "begin", "exhaust"})
      BY <1>1 DEF Doing
    <3> QED BY <1>1, <2>1, <3>1, <3>2, <3>3, <3>4 DEF SoleNode
  <2> QED BY <2>2, <2>3
<1> QED BY <1>1, <1>6, <1>7, <1>8, <1>9, <1>10, <1>11, SoleStep

LEMMA BeginCycleSole ==
  ASSUME Inv, Inv', NEW h \in Hosts, SoleInv(h), BeginCycle(h)
  PROVE  SoleInv(h)'
<1>1. /\ up[h] /\ task[h].at = "begin" /\ UNCHANGED <<setup, out, up, watch, pass, esc>>
  BY DEF BeginCycle, At, Rest
<1>2. PICK m \in Nodes : m = task[h].n
  BY TaskShape DEF Inv, HostInv
<1>3. /\ exp = "active" /\ node[m] = "active" /\ run[m] = "succeeded" /\ ev[m] = "none"
      /\ att[<<m, 0>>] # "live" /\ \A k \in 1..MaxEvals : att[<<m, k>>] = "none"
      /\ task[h].k # -1 /\ pass[h].at # "propose"
  <2>1. exp = "active" /\ node[m] = "active" /\ run[m] = "succeeded" /\ task[h].k # -1
    BY <1>1, <1>2, SoleFacts DEF SoleTask
  <2>2. ev[m] = "none" /\ pass[h].at # "propose"
    BY <2>1, SoleFacts, EvalOpen, NotProposing DEF OpenNode
  <2> QED BY <2>1, <2>2, SoleFacts DEF SoleWork
<1>4. CASE Go(h, "exhaust") /\ UNCHANGED <<record, sweep, due>>
  <2>1. /\ UNCHANGED <<exp, best, node, branch, run, ev, res, dec, noted, att, sub, ledger, sweep, due>>
        /\ task'[h].at = "exhaust" /\ task'[h].n = m
    BY <1>2, <1>4, GoIs DEF record
  <2>2. SoleWork' /\ SoleOrigin'
    BY <1>1, <2>1, SoleFacts, WorkKept, OriginKept
  <2>3. SoleTask(task[h])'
    <3>1. LiveAttempts = {}
      BY <1>3, SoleFacts, NothingLives DEF OpenNode
    <3>2. LiveAttempts' = {}
      BY <2>1, <3>1 DEF LiveAttempts
    <3> QED BY <1>3, <2>1, <3>2 DEF SoleTask
  <2>4. SoleWatch(h)' /\ SoleLive(h)'
    BY <1>1, <2>1, SoleFacts, WatchKept, LiveKept
  <2>5. SolePass(pass[h])'
    BY <1>1, <2>1, SoleFacts, PassNode, PassKept
  <2>6. ASSUME exp' = "active", NEW n \in Nodes
        PROVE  SoleNode(h, n)'
    <3>1. CASE n # m
      BY <1>1, <1>2, <1>3, <2>1, <3>1, SoleFacts, NodeKept DEF Doing
    <3>2. CASE n = m
      BY <1>3, <2>1, <3>2 DEF SoleNode, Doing
    <3> QED BY <3>1, <3>2
  <2> QED BY <1>1, <2>2, <2>3, <2>4, <2>5, <2>6, SoleStep
<1>5. ASSUME NEW e \in {"created", "none"}, node' = [node EXCEPT ![m] = "evaluating"],
             ev'[m] = e, \A n \in Nodes : n # m => ev'[n] = ev[n],
             Go(h, IF e = "created" THEN "start" ELSE "node"),
             UNCHANGED <<exp, best, branch, run, res, dec, noted, att, sub, ledger, sweep, due>>
      PROVE  SoleInv(h)'
  <2>1. /\ task'[h].at = (IF e = "created" THEN "start" ELSE "node")
        /\ task'[h].n = m /\ task'[h].k # -1
        /\ node'[m] = "evaluating" /\ \A n \in Nodes : n # m => node'[n] = node[n]
    BY <1>2, <1>3, <1>5, GoIs DEF Inv, BranchInv, NodeShapes
  <2>2. SoleWork'
    <3>1. ASSUME NEW n \in Nodes, NEW k \in 1..MaxEvals
          PROVE  /\ att[<<n, k>>] # "none" => k = 1 /\ ev'[n] \notin {"none", "created"}
                 /\ att[<<n, k>>] = "live" => ev'[n] = "active"
      <4>1. CASE n = m
        BY <1>3, <4>1
      <4>2. CASE n # m
        BY <1>5, <4>2, SoleFacts DEF SoleWork
      <4> QED BY <4>1, <4>2
    <3>2. ASSUME NEW n \in Nodes, att[<<n, 0>>] = "live"
          PROVE  node'[n] = "active" /\ run[n] = "active"
      BY <1>3, <2>1, <3>2, SoleFacts DEF SoleWork
    <3> QED BY <1>1, <1>5, <3>1, <3>2, SoleFacts DEF SoleWork, LiveAttempts
  <2>3. SoleOrigin'
    BY <1>5, <2>1, SoleFacts, OriginKept
  <2>4. SoleTask(task[h])'
    <3>1. 1 \in 1..MaxEvals
      BY EvalAttempt
    <3> QED BY <1>3, <1>5, <2>1, <3>1 DEF SoleTask
  <2>5. SoleWatch(h)' /\ SoleLive(h)'
    BY <1>1, <1>5, <2>1, SoleFacts, WatchKept, LiveKept
  <2>6. SolePass(pass[h])'
    BY <1>1, <1>3, <2>1, SoleFacts, PassNode, PassKept
  <2>7. ASSUME exp' = "active", NEW n \in Nodes
        PROVE  SoleNode(h, n)'
    <3>1. CASE n # m
      BY <1>1, <1>2, <1>3, <1>5, <2>1, <3>1, SoleFacts, NodeKept DEF Doing
    <3>2. CASE n = m
      BY <1>5, <2>1, <3>2 DEF SoleNode, Doing
    <3> QED BY <3>1, <3>2
  <2> QED BY <1>1, <1>5, <2>2, <2>3, <2>4, <2>5, <2>6, <2>7, SoleStep
<1>6. CASE ~(out[<<m, 0>>] = Trained /\ ~RequireBudget(FALSE))
  <2>1. PICK e \in {"created", "none"} : e = IF out[<<m, 0>>] = Trained THEN "created" ELSE "none"
    OBVIOUS
  <2>2. /\ node' = [node EXCEPT ![m] = "evaluating"]
        /\ ev' = [ev EXCEPT ![m] = IF out[<<m, 0>>] = Trained THEN "created" ELSE @]
        /\ Go(h, IF out[<<m, 0>>] = Trained THEN "start" ELSE "node")
        /\ UNCHANGED <<exp, best, branch, run, res, dec, noted, att, sub, ledger, sweep, due>>
    BY <1>2, <1>3, <1>6 DEF BeginCycle
  <2>3. ev'[m] = e /\ \A n \in Nodes : n # m => ev'[n] = ev[n]
    BY <1>3, <2>1, <2>2 DEF Inv, BranchInv, NodeShapes
  <2>4. Go(h, IF e = "created" THEN "start" ELSE "node")
    BY <2>1, <2>2
  <2> QED BY <1>5, <2>2, <2>3, <2>4
<1>7. CASE out[<<m, 0>>] = Trained /\ ~RequireBudget(FALSE)
  BY <1>2, <1>3, <1>4, <1>7 DEF BeginCycle
<1> QED BY <1>6, <1>7

LEMMA StartEvaluationRunSole ==
  ASSUME Inv, Inv', NEW h \in Hosts, SoleInv(h), StartEvaluationRun(h)
  PROVE  SoleInv(h)'
<1>1. /\ up[h] /\ task[h].at = "start"
      /\ UNCHANGED <<setup, exp, best, node, branch, run, res, dec, noted, att, sub, ledger, out,
                     up, watch, sweep, due, pass, esc>>
  BY DEF StartEvaluationRun, At, Rest
<1>2. PICK m \in Nodes : m = task[h].n
  BY TaskShape DEF Inv, HostInv
<1>3. exp = "active" /\ ev[m] \in {"created", "active"} /\ att[<<m, 1>>] = "none"
  BY <1>1, <1>2, SoleFacts DEF SoleTask
<1>4. CountTries(m) = 1
  <2>1. ASSUME NEW a \in Tries(m)
        PROVE  FALSE
    <3>1. PICK n \in Nodes, k \in 0..MaxEvals : a = <<n, k>>
      BY DEF Tries, Attempts
    <3>2. n = m /\ k > 0 /\ att[<<m, k>>] # "none"
      BY <2>1, <3>1 DEF Tries
    <3>3. k \in 1..MaxEvals
      BY <3>2
    <3> QED BY <1>3, <3>2, <3>3, SoleFacts DEF SoleWork
  <2>2. Tries(m) = {}
    BY <2>1
  <2> QED BY <2>2, FS_EmptySet DEF CountTries
<1>5. task'[h].at = "attempt" /\ task'[h].n = m /\ task'[h].k = 1
  <2>1. PICK u : u = task[h]
    OBVIOUS
  <2>2. IsTask(u) /\ task = [g \in Hosts |-> task[g]]
    BY <2>1 DEF Inv, HostInv, TasksInv
  <2>3. task'[h] = [u EXCEPT !.at = "attempt", !.k = 1]
    BY <1>2, <1>4, <2>1, <2>2 DEF StartEvaluationRun
  <2> QED BY <1>2, <2>1, <2>2, <2>3 DEF IsTask
<1>6. ev'[m] = "active" /\ \A n \in Nodes : n # m => ev'[n] = ev[n]
  BY <1>2, <1>3 DEF StartEvaluationRun, Inv, BranchInv, NodeShapes
<1>7. SoleWork'
  <2>1. ASSUME NEW n \in Nodes, NEW k \in 1..MaxEvals
        PROVE  /\ att[<<n, k>>] # "none" => k = 1 /\ ev'[n] \notin {"none", "created"}
               /\ att[<<n, k>>] = "live" => ev'[n] = "active"
    BY <1>6, SoleFacts DEF SoleWork
  <2> QED BY <1>1, <2>1, SoleFacts DEF SoleWork, LiveAttempts
<1>8. SoleOrigin'
  BY <1>1, SoleFacts, OriginKept
<1>9. SoleTask(task[h])'
  BY <1>1, <1>3, <1>5, <1>6 DEF SoleTask
<1>10. SoleWatch(h)' /\ SoleLive(h)'
  BY <1>1, <1>5, SoleFacts, WatchKept, LiveKept
<1>11. SolePass(pass[h])'
  BY <1>1, SoleFacts, PassNode, PassKept
<1>12. ASSUME exp' = "active", NEW n \in Nodes
      PROVE  SoleNode(h, n)'
  <2>1. CASE n # m
    BY <1>1, <1>2, <1>3, <1>6, <2>1, SoleFacts, NodeKept DEF Doing
  <2>2. CASE n = m
    <3>1. node[m] = "evaluating"
      BY <1>3, EvalOpen
    <3> QED BY <1>1, <1>5, <1>6, <2>2, <3>1 DEF SoleNode, Doing
  <2> QED BY <2>1, <2>2
<1> QED BY <1>1, <1>7, <1>8, <1>9, <1>10, <1>11, <1>12, SoleStep

LEMMA CreateEvaluationAttemptSole ==
  ASSUME Inv, Inv', NEW h \in Hosts, SoleInv(h), CreateEvaluationAttempt(h)
  PROVE  SoleInv(h)'
<1>1. /\ up[h] /\ task[h].at = "attempt" /\ UNCHANGED <<setup, out, up, pass, esc>>
  BY DEF CreateEvaluationAttempt, At
<1>2. PICK m \in Nodes : m = task[h].n
  BY TaskShape DEF Inv, HostInv
<1>3. PICK a \in Attempts : a = <<m, 1>>
  BY EvalAttempt
<1>4. exp = "active" /\ ev[m] = "active" /\ att[a] = "none" /\ task[h].k = 1 /\ node[m] = "evaluating"
  <2>1. exp = "active" /\ ev[m] = "active" /\ att[a] = "none" /\ task[h].k = 1
    BY <1>1, <1>2, <1>3, SoleFacts DEF SoleTask
  <2> QED BY <2>1, EvalOpen
<1>5. pass[h].at # "propose"
  BY <1>4, SoleFacts, NotProposing DEF OpenNode
<1>6. CASE /\ att' = [att EXCEPT ![a] = "live"]
           /\ sub' = [sub EXCEPT ![a] = "intended"]
           /\ watch' = [watch EXCEPT ![h] = @ \cup {a}]
           /\ task' = [task EXCEPT ![h] = NoTask]
           /\ UNCHANGED <<exp, best, node, branch, run, ev, res, dec, noted, ledger, sweep, due>>
  <2>1. /\ att'[a] = "live" /\ \A b \in Attempts : b # a => att'[b] = att[b]
        /\ sub'[a] = "intended" /\ \A b \in Attempts : b # a => sub'[b] = sub[b]
        /\ watch'[h] = watch[h] \cup {a} /\ watch[h] \subseteq Attempts
        /\ task'[h] = NoTask /\ task'[h].at = "idle" /\ task'[h].k = 0
    BY <1>6 DEF Inv, WorkInv, WorkShapes, HostInv, FlagShapes, TasksInv, NoTask
  <2>2. /\ \A n \in Nodes : att'[<<n, 0>>] = att[<<n, 0>>]
        /\ \A n \in Nodes, k \in 1..MaxEvals : n # m \/ k # 1 => att'[<<n, k>>] = att[<<n, k>>]
    BY <1>3, <2>1, FirstAttempt, EvalAttempt
  <2>3. SoleWork'
    <3>1. ASSUME NEW n \in Nodes, NEW k \in 1..MaxEvals
          PROVE  /\ att'[<<n, k>>] # "none" => k = 1 /\ ev[n] \notin {"none", "created"}
                 /\ att'[<<n, k>>] = "live" => ev[n] = "active"
      <4>1. CASE n = m /\ k = 1
        BY <1>4, <4>1
      <4>2. CASE n # m \/ k # 1
        <5>1. /\ att[<<n, k>>] # "none" => k = 1 /\ ev[n] \notin {"none", "created"}
              /\ att[<<n, k>>] = "live" => ev[n] = "active"
          BY SoleFacts DEF SoleWork
        <5> QED BY <2>2, <4>2, <5>1
      <4> QED BY <4>1, <4>2
    <3>2. exp \notin Ended
      BY <1>4 DEF Ended
    <3> QED BY <1>1, <1>6, <2>2, <3>1, <3>2, SoleFacts DEF SoleWork
  <2>4. SoleOrigin'
    BY <1>6, SoleFacts, OriginKept
  <2>5. SoleTask(task[h])'
    BY <2>1 DEF SoleTask
  <2>6. SoleWatch(h)'
    BY <2>1, SoleFacts DEF SoleWatch
  <2>7. SoleLive(h)'
    BY <1>1, <1>6, <2>1, SoleFacts DEF SoleLive, Ahead
  <2>8. SolePass(pass[h])'
    BY <1>1, <1>5, <1>6, SoleFacts, PassNode, PassKept
  <2>9. ASSUME exp' = "active", NEW n \in Nodes
        PROVE  SoleNode(h, n)'
    <3>1. CASE n # m
      <4>1. att'[<<n, 1>>] = att[<<n, 1>>]
        BY <2>2, <3>1, EvalAttempt
      <4> QED BY <1>1, <1>2, <1>4, <1>6, <3>1, <4>1, SoleFacts, NodeKept DEF Doing
    <3>2. CASE n = m
      BY <1>3, <1>4, <1>6, <2>1, <3>2 DEF SoleNode
    <3> QED BY <3>1, <3>2
  <2> QED BY <1>1, <2>3, <2>4, <2>5, <2>6, <2>7, <2>8, <2>9, SoleStep
<1>7. CASE /\ ev' = [ev EXCEPT ![m] = "failed"]
           /\ task' = [task EXCEPT ![h].at = "node", ![h].k = IF RequireBudget(FALSE) THEN 0 ELSE -1]
           /\ UNCHANGED <<exp, best, node, branch, run, res, dec, noted, att, sub, ledger,
                          watch, sweep, due>>
  <2>1. task'[h].at = "node" /\ task'[h].n = m /\ ev'[m] = "failed" /\ \A n \in Nodes : n # m => ev'[n] = ev[n]
    <3>1. PICK u : u = task[h]
      OBVIOUS
    <3>2. IsTask(u) /\ task = [g \in Hosts |-> task[g]]
      BY <3>1 DEF Inv, HostInv, TasksInv
    <3>3. PICK j : task'[h] = [u EXCEPT !.at = "node", !.k = j]
      BY <1>7, <3>1, <3>2
    <3> QED BY <1>2, <1>7, <3>1, <3>2, <3>3 DEF IsTask, Inv, BranchInv, NodeShapes
  <2>2. LiveAttempts = {} /\ LiveAttempts' = {}
    <3>1. LiveAttempts = {}
      BY <1>3, <1>4, SoleFacts, NothingLives DEF OpenNode
    <3> QED BY <1>7, <3>1 DEF LiveAttempts
  <2>3. SoleWork'
    <3>1. ASSUME NEW n \in Nodes, NEW k \in 1..MaxEvals
          PROVE  /\ att[<<n, k>>] # "none" => k = 1 /\ ev'[n] \notin {"none", "created"}
                 /\ att[<<n, k>>] # "live"
      <4>1. att[<<n, k>>] # "live"
        BY <2>2, EvalAttempt DEF LiveAttempts
      <4>2. att[<<n, k>>] # "none" => k = 1 /\ ev[n] \notin {"none", "created"}
        BY SoleFacts DEF SoleWork
      <4>3. ev[n] \notin {"none", "created"} => ev'[n] \notin {"none", "created"}
        BY <2>1
      <4> QED BY <4>1, <4>2, <4>3
    <3> QED BY <1>1, <1>7, <2>2, <3>1, SoleFacts DEF SoleWork
  <2>4. SoleOrigin'
    BY <1>7, SoleFacts, OriginKept
  <2>5. SoleTask(task[h])'
    BY <1>4, <1>7, <2>1, <2>2 DEF SoleTask
  <2>6. SoleWatch(h)' /\ SoleLive(h)'
    BY <1>1, <1>7, <2>1, SoleFacts, WatchKept, LiveKept
  <2>7. SolePass(pass[h])'
    BY <1>1, <1>7, SoleFacts, PassNode, PassKept
  <2>8. ASSUME exp' = "active", NEW n \in Nodes
        PROVE  SoleNode(h, n)'
    <3>1. CASE n # m
      BY <1>1, <1>2, <1>4, <1>7, <2>1, <3>1, SoleFacts, NodeKept DEF Doing
    <3>2. CASE n = m
      BY <1>4, <1>7, <2>1, <3>2 DEF SoleNode, Doing
    <3> QED BY <3>1, <3>2
  <2> QED BY <1>1, <1>7, <2>3, <2>4, <2>5, <2>6, <2>7, <2>8, SoleStep
<1> QED BY <1>2, <1>3, <1>4, <1>6, <1>7 DEF CreateEvaluationAttempt

LEMMA ReconcileRefusedSole ==
  ASSUME NEW h \in Hosts, SoleInv(h)
  PROVE  ~ReconcileRefused(h)
BY SoleFacts DEF ReconcileRefused

LEMMA ReconcileNodeSole ==
  ASSUME Inv, Inv', NEW h \in Hosts, SoleInv(h), ReconcileNode(h)
  PROVE  SoleInv(h)'
<1>1. /\ up[h] /\ task[h].at = "node"
      /\ UNCHANGED <<setup, exp, best, branch, run, ev, res, dec, att, sub, ledger, out,
                     up, watch, sweep, pass, esc>>
  BY DEF ReconcileNode, At, Rest
<1>2. PICK m \in Nodes : m = task[h].n
  BY TaskShape DEF Inv, HostInv
<1>3. task[h].k = -1 => node[m] \in {"active", "evaluating"} /\ LiveAttempts = {}
  BY <1>1, <1>2, SoleFacts DEF SoleTask
<1>4. SoleWork'
  <2>1. \A n \in Nodes : node[n] = "active" => node'[n] = "active"
    BY <1>2 DEF ReconcileNode, Inv, BranchInv, NodeShapes
  <2> QED BY <1>1, <2>1, SoleFacts DEF SoleWork, LiveAttempts
<1>5. SoleLive(h)'
  BY <1>1, SoleFacts, LiveKept
<1>6. LiveAttempts' = LiveAttempts
  BY <1>1 DEF LiveAttempts
<1>7. CASE /\ node[m] = "evaluating" /\ ev[m] = "succeeded"
           /\ node' = [node EXCEPT ![m] = "deciding"]
           /\ Go(h, "decide") /\ UNCHANGED <<due, noted>>
  <2>1. /\ task'[h].at = "decide" /\ task'[h].n = m
        /\ node'[m] = "deciding" /\ \A n \in Nodes : n # m => node'[n] = node[n]
    BY <1>2, <1>7, GoIs DEF Inv, BranchInv, NodeShapes
  <2>2. SoleOrigin'
    BY <1>1, <2>1, SoleFacts, OriginKept
  <2>3. SoleTask(task[h])'
    BY <2>1 DEF SoleTask
  <2>4. SoleWatch(h)'
    BY <1>1, <2>1, SoleFacts, WatchKept
  <2>5. SolePass(pass[h])'
    <3>1. pass[h].at # "propose"
      BY <1>7, SoleFacts, NotProposing DEF OpenNode
    <3> QED BY <1>1, <1>7, <2>1, <3>1, SoleFacts, PassNode, PassKept
  <2>6. ASSUME exp' = "active", NEW n \in Nodes
        PROVE  SoleNode(h, n)'
    <3>1. CASE n # m
      BY <1>1, <1>2, <1>7, <2>1, <2>6, <3>1, SoleFacts, NodeKept DEF Doing
    <3>2. CASE n = m
      BY <1>1, <1>7, <2>1, <3>2 DEF SoleNode, Doing
    <3> QED BY <3>1, <3>2
  <2> QED BY <1>1, <1>4, <1>5, <2>2, <2>3, <2>4, <2>5, <2>6, SoleStep
<1>8. ASSUME UNCHANGED node, due[h] => due'[h], \A n \in Nodes : n # m => noted'[n] = noted[n],
             node[m] = "evaluating" => noted'[m] \/ ev[m] \in {"created", "active"},
             node[m] # "evaluating" => noted'[m] = noted[m],
             \/ task'[h].at = "idle" /\ task'[h].k = 0
             \/ task[h].k = -1 /\ task'[h].at = "exhaust" /\ task'[h].n = m
      PROVE  SoleInv(h)'
  <2>1. SoleOrigin'
    BY <1>1, <1>8, SoleFacts, OriginKept
  <2>2. SoleTask(task[h])'
    BY <1>3, <1>6, <1>8 DEF SoleTask
  <2>3. SoleWatch(h)'
    BY <1>1, <1>8, SoleFacts, WatchKept
  <2>4. SolePass(pass[h])'
    BY <1>1, <1>8, SoleFacts, PassNode, PassKept
  <2>5. ASSUME exp' = "active", NEW n \in Nodes
        PROVE  SoleNode(h, n)'
    <3>0. SoleNode(h, n)
      BY <1>1, <2>5, SoleFacts
    <3>1. CASE n # m
      BY <1>1, <1>2, <1>8, <3>0, <3>1, NodeKept DEF Doing
    <3>2. CASE n = m
      <4>1. /\ ~Doing(h, n, {"start", "attempt", "evrun"})
            /\ ~Doing(h, n, {"decide", "record"}) /\ ~Doing(h, n, {"evaluate", "begin", "exhaust"})
        BY <1>1 DEF Doing
      <4>2. Ahead(h, n)' <=> Ahead(h, n)
        BY <1>1 DEF Ahead
      <4>3. node[n] = "planned" =>
              (~up[h] \/ sweep[h] > 0 \/ due[h] \/ esc[h] \/ pass[h].at \in {"round", "realize"})'
        BY <1>1, <1>8, <3>0 DEF SoleNode
      <4>4. node[n] = "deciding" /\ ~noted'[n] => Ahead(h, n)
        BY <1>8, <3>0, <3>2, <4>1 DEF SoleNode
      <4>5. node[n] = "active" /\ run[n] = "succeeded" => Ahead(h, n)
        BY <3>0, <4>1 DEF SoleNode
      <4>6. ev[n] \in {"created", "active"} => Ahead(h, n) \/ att[<<n, 1>>] = "live"
        BY <3>0, <4>1 DEF SoleNode
      <4>7. node[n] = "evaluating" /\ ~noted'[n] => ev[n] \in {"created", "active"}
        BY <1>8, <3>2
      <4> QED BY <1>1, <1>8, <4>2, <4>3, <4>4, <4>5, <4>6, <4>7 DEF SoleNode
    <3> QED BY <3>1, <3>2
  <2> QED BY <1>1, <1>4, <1>5, <2>1, <2>2, <2>3, <2>4, <2>5, SoleStep
<1>9. CASE node[m] # "evaluating" \/ ev[m] \in {"created", "active"}
  <2>1. UNCHANGED <<node, noted>>
    BY <1>2, <1>9 DEF ReconcileNode
  <2>2. IF task[h].k = -1 THEN Go(h, "exhaust") /\ UNCHANGED due ELSE Done(h)
    BY <1>2, <1>9 DEF ReconcileNode
  <2>3. /\ due[h] => due'[h]
        /\ \/ task'[h].at = "idle" /\ task'[h].k = 0
           \/ task[h].k = -1 /\ task'[h].at = "exhaust" /\ task'[h].n = m
    BY <1>2, <2>2, GoIs, DoneIs
  <2> QED BY <1>8, <1>9, <2>1, <2>3
<1>10. CASE node[m] = "evaluating" /\ ev[m] \notin {"created", "active", "succeeded"}
  <2>1. UNCHANGED node /\ noted' = [noted EXCEPT ![m] = TRUE]
    BY <1>2, <1>10 DEF ReconcileNode, Evaluated
  <2>2. IF task[h].k = -1 THEN Go(h, "exhaust") /\ UNCHANGED due ELSE Done(h)
    BY <1>2, <1>10 DEF ReconcileNode, Evaluated
  <2>3. /\ due[h] => due'[h]
        /\ \/ task'[h].at = "idle" /\ task'[h].k = 0
           \/ task[h].k = -1 /\ task'[h].at = "exhaust" /\ task'[h].n = m
    BY <1>2, <2>2, GoIs, DoneIs
  <2>4. noted'[m] /\ \A n \in Nodes : n # m => noted'[n] = noted[n]
    BY <2>1 DEF Inv, BranchInv, NodeShapes
  <2> QED BY <1>8, <1>10, <2>1, <2>3, <2>4
<1>11. CASE node[m] = "evaluating" /\ ev[m] = "succeeded"
  BY <1>2, <1>7, <1>11 DEF ReconcileNode, Evaluated
<1> QED BY <1>9, <1>10, <1>11

LEMMA ReadDecisionSole ==
  ASSUME Inv, NEW h \in Hosts, SoleInv(h), ReadDecision(h)
  PROVE  SoleInv(h)'
<1>1. /\ up[h] /\ task[h].at = "decide"
      /\ UNCHANGED <<setup, exp, best, node, branch, run, ev, res, dec, noted, att, sub, ledger, out,
                     up, watch, sweep, pass, esc>>
  BY DEF ReadDecision, At, Rest, record
<1>2. PICK m \in Nodes : m = task[h].n
  BY TaskShape DEF Inv, HostInv
<1>3. /\ due[h] => due'[h]
      /\ \/ task'[h].at = "record" /\ task'[h].n = m
         \/ /\ ~(node[m] = "deciding" /\ exp \notin Ended)
            /\ task'[h].at = "idle" /\ task'[h].k = 0
  BY <1>2, GoIs, DoneIs DEF ReadDecision
<1>4. SoleWork' /\ SoleOrigin'
  BY <1>1, SoleFacts, WorkKept, OriginKept
<1>5. SoleTask(task[h])'
  BY <1>1, <1>3 DEF SoleTask
<1>6. SoleWatch(h)' /\ SoleLive(h)'
  BY <1>1, <1>3, SoleFacts, WatchKept, LiveKept
<1>7. SolePass(pass[h])'
  BY <1>1, SoleFacts, PassNode, PassKept
<1>8. ASSUME exp' = "active", NEW n \in Nodes
      PROVE  SoleNode(h, n)'
  <2>1. SoleNode(h, n) /\ exp \notin Ended
    BY <1>1, <1>8, SoleFacts DEF Ended
  <2>2. CASE n # m
    BY <1>1, <1>2, <1>3, <2>1, <2>2, NodeKept DEF Doing
  <2>3. CASE n = m
    <3>1. Ahead(h, n)' <=> Ahead(h, n)
      BY <1>1 DEF Ahead
    <3>2. node[n] = "planned" =>
            (~up[h] \/ sweep[h] > 0 \/ due[h] \/ esc[h] \/ pass[h].at \in {"round", "realize"})'
      BY <1>1, <1>3, <2>1 DEF SoleNode
    <3> QED BY <1>1, <1>2, <1>3, <2>1, <2>3, <3>1, <3>2 DEF SoleNode, Doing
  <2> QED BY <2>2, <2>3
<1> QED BY <1>1, <1>4, <1>5, <1>6, <1>7, <1>8, SoleStep

LEMMA DeferDecisionSole ==
  ASSUME Inv, NEW h \in Hosts, SoleInv(h), DeferDecision(h)
  PROVE  SoleInv(h)'
<1>1. /\ up[h] /\ task[h].at = "record" /\ Done(h)
      /\ UNCHANGED <<setup, exp, best, node, branch, run, ev, res, dec, att, sub, ledger, out,
                     up, watch, sweep, pass, esc>>
  BY DEF DeferDecision, At, Rest
<1>2. PICK m \in Nodes : m = task[h].n
  BY TaskShape DEF Inv, HostInv
<1>3. (due[h] => due'[h]) /\ task'[h].at = "idle" /\ task'[h].k = 0
  BY <1>1, DoneIs
<1>4. noted'[m] /\ \A n \in Nodes : n # m => noted'[n] = noted[n]
  BY <1>2 DEF DeferDecision, Inv, BranchInv, NodeShapes
<1>5. SoleWork' /\ SoleOrigin'
  BY <1>1, SoleFacts, WorkKept, OriginKept
<1>6. SoleTask(task[h])'
  BY <1>3 DEF SoleTask
<1>7. SoleWatch(h)' /\ SoleLive(h)'
  BY <1>1, <1>3, SoleFacts, WatchKept, LiveKept
<1>8. SolePass(pass[h])'
  BY <1>1, SoleFacts, PassNode, PassKept
<1>9. ASSUME exp' = "active", NEW n \in Nodes
      PROVE  SoleNode(h, n)'
  <2>1. SoleNode(h, n)
    BY <1>1, <1>9, SoleFacts
  <2>2. CASE n # m
    BY <1>1, <1>2, <1>3, <1>4, <2>1, <2>2, NodeKept DEF Doing
  <2>3. CASE n = m
    <3>1. Ahead(h, n)' <=> Ahead(h, n)
      BY <1>1 DEF Ahead
    <3>2. node[n] = "planned" =>
            (~up[h] \/ sweep[h] > 0 \/ due[h] \/ esc[h] \/ pass[h].at \in {"round", "realize"})'
      BY <1>1, <1>3, <2>1 DEF SoleNode
    <3> QED BY <1>1, <1>2, <1>4, <2>1, <2>3, <3>1, <3>2 DEF SoleNode, Doing
  <2> QED BY <2>2, <2>3
<1> QED BY <1>1, <1>5, <1>6, <1>7, <1>8, <1>9, SoleStep

\* The node a decision is taken on is the open one: nothing lives.
LEMMA RecordDecisionSole ==
  ASSUME Inv, Inv', NEW h \in Hosts, SoleInv(h), RecordDecision(h)
  PROVE  SoleInv(h)'
<1>1. /\ up[h] /\ task[h].at = "record" /\ Done(h)
      /\ UNCHANGED <<setup, out, up, watch, sweep, pass, esc, branch, run, ev, res, noted, att, sub,
                     ledger>>
  BY DEF RecordDecision, At, Rest, record
<1>2. PICK m \in Nodes : m = task[h].n
  BY TaskShape DEF Inv, HostInv
<1>3. (due[h] => due'[h]) /\ task'[h].at = "idle" /\ task'[h].k = 0
  BY <1>1, DoneIs
<1>4. node[m] \in {"deciding"} \cup Settled /\ (dec[m] # "none" <=> node[m] \in Settled)
  BY <1>1, <1>2, TaskShape DEF Inv, HostInv, TaskOK, BranchInv, NodeInv
<1>5. SoleTask(task[h])'
  BY <1>3 DEF SoleTask
<1>6. SoleWatch(h)' /\ SoleLive(h)'
  BY <1>1, <1>3, SoleFacts, WatchKept, LiveKept
<1>7. CASE dec[m] # "none"
  <2>1. UNCHANGED <<exp, best, node, dec>>
    BY <1>2, <1>7 DEF RecordDecision, record
  <2>2. SoleWork' /\ SoleOrigin'
    BY <1>1, <2>1, SoleFacts, WorkKept, OriginKept
  <2>3. SolePass(pass[h])'
    BY <1>1, <2>1, SoleFacts, PassNode, PassKept
  <2>4. ASSUME exp' = "active", NEW n \in Nodes
        PROVE  SoleNode(h, n)'
    <3>1. SoleNode(h, n)
      BY <2>1, <2>4, SoleFacts
    <3>2. CASE n # m
      BY <1>1, <1>2, <1>3, <2>1, <3>1, <3>2, NodeKept DEF Doing
    <3>3. CASE n = m
      <4>1. node'[n] \in Settled /\ ev'[n] = "succeeded"
        BY <1>1, <1>4, <1>7, <2>1, <3>3, EvalOpen
      <4> QED BY <4>1 DEF SoleNode, Settled
    <3> QED BY <3>2, <3>3
  <2> QED BY <1>1, <1>5, <1>6, <2>2, <2>3, <2>4, SoleStep
<1>8. CASE dec[m] = "none"
  <2>1. node[m] = "deciding"
    BY <1>4, <1>8
  <2>2. PICK d \in {"completed", "rejected"} : node' = [node EXCEPT ![m] = d]
    BY <1>2, <1>8 DEF RecordDecision, NodeStatus
  <2>3. node'[m] \in Settled /\ \A n \in Nodes : n # m => node'[n] = node[n]
    BY <2>2 DEF Inv, BranchInv, NodeShapes, Settled
  <2>4. exp' \in Ended => LiveAttempts' = {}
    <3>1. LiveAttempts = {}
      BY <2>1, SoleFacts, NothingLives DEF OpenNode
    <3> QED BY <1>1, <3>1 DEF LiveAttempts
  <2>5. SoleWork'
    <3>1. \A n \in Nodes : node[n] = "active" => node'[n] = "active"
      BY <2>1, <2>3
    <3> QED BY <1>1, <2>4, <3>1, SoleFacts DEF SoleWork
  <2>6. SoleOrigin'
    BY <1>1, <2>3, SoleFacts, OriginKept DEF Settled
  <2>7. SolePass(pass[h])'
    <3>1. pass[h].at # "propose"
      BY <2>1, SoleFacts, NotProposing DEF OpenNode
    <3> QED BY <1>1, <2>1, <2>3, <3>1, SoleFacts, PassNode, PassKept
  <2>8. ASSUME exp' = "active", NEW n \in Nodes
        PROVE  SoleNode(h, n)'
    <3>1. CASE n # m
      <4>1. exp = "active"
        BY <1>2, <1>8, <2>8 DEF RecordDecision, Conclude
      <4> QED BY <1>1, <1>2, <1>3, <2>3, <3>1, <4>1, SoleFacts, NodeKept DEF Doing
    <3>2. CASE n = m
      <4>1. node'[n] \in Settled /\ ev'[n] = "succeeded"
        BY <1>1, <2>1, <2>3, <3>2, EvalOpen
      <4> QED BY <4>1 DEF SoleNode, Settled
    <3> QED BY <3>1, <3>2
  <2> QED BY <1>1, <1>5, <1>6, <2>5, <2>6, <2>7, <2>8, SoleStep
<1> QED BY <1>7, <1>8

LEMMA ExhaustBudgetSole ==
  ASSUME Inv, Inv', NEW h \in Hosts, SoleInv(h), ExhaustBudget(h)
  PROVE  SoleInv(h)'
<1>1. /\ up[h] /\ task[h].at = "exhaust" /\ Done(h)
      /\ UNCHANGED <<setup, best, node, branch, run, ev, res, dec, noted, att, sub, ledger, out,
                     up, watch, sweep, pass, esc>>
      /\ exp' = IF Exhaustable THEN "exhausted" ELSE exp
  BY DEF ExhaustBudget, At, Rest
<1>2. PICK m \in Nodes : m = task[h].n
  BY TaskShape DEF Inv, HostInv
<1>3. (due[h] => due'[h]) /\ task'[h].at = "idle" /\ task'[h].k = 0
  BY <1>1, DoneIs
<1>4. node[m] \in {"active", "evaluating"} /\ LiveAttempts = {} /\ LiveAttempts' = {}
  BY <1>1, <1>2, SoleFacts DEF SoleTask, LiveAttempts
<1>5. exp' # "active"
  BY <1>1, <1>4 DEF Exhaustable
<1>6. SoleWork'
  BY <1>1, <1>4, SoleFacts DEF SoleWork
<1>7. SoleOrigin'
  BY <1>1, SoleFacts, OriginKept
<1>8. SoleTask(task[h])'
  BY <1>3 DEF SoleTask
<1>9. SoleWatch(h)' /\ SoleLive(h)'
  BY <1>1, <1>3, SoleFacts, WatchKept, LiveKept
<1>10. SolePass(pass[h])'
  <2>1. pass[h].at # "propose"
    BY <1>4, SoleFacts, NotProposing DEF OpenNode
  <2> QED BY <1>1, <2>1, SoleFacts, PassNode, PassKept
<1> QED BY <1>1, <1>5, <1>6, <1>7, <1>8, <1>9, <1>10, SoleStep

-----------------------------------------------------------------------------
(* The adaptive pass. *)

\* What a step of the pass leaves alone: the chain, the attempts observed and
\* every node but a planned one.
LEMMA PassStep ==
  ASSUME NEW h \in Hosts, SoleInv(h), up[h], task[h].at = "idle",
         UNCHANGED <<setup, up, branch, node, run, ev, noted, att, sub, out, task, watch, sweep>>,
         exp' = exp \/ (exp' \in Ended /\ LiveAttempts = {}),
         SolePass(pass[h])',
         exp' = "active" => \A n \in Nodes : node[n] = "planned" =>
           (sweep[h] > 0 \/ due[h] \/ esc[h] \/ pass[h].at \in {"round", "realize"})'
  PROVE  SoleInv(h)'
<1>1. SoleWork'
  BY SoleFacts DEF SoleWork, LiveAttempts
<1>2. SoleOrigin'
  BY SoleFacts, OriginKept
<1>3. SoleTask(task[h])'
  <2>1. task[h].k # -1
    BY SoleFacts DEF SoleTask
  <2> QED BY <2>1 DEF SoleTask
<1>4. SoleWatch(h)' /\ SoleLive(h)'
  BY SoleFacts, WatchKept, LiveKept
<1>5. ASSUME exp' = "active", NEW n \in Nodes
      PROVE  SoleNode(h, n)'
  <2>1. SoleNode(h, n)
    BY <1>5, SoleFacts DEF Ended
  <2>2. Ahead(h, n)' <=> Ahead(h, n)
    BY DEF Ahead
  <2> QED BY <1>5, <2>1, <2>2 DEF SoleNode, Doing
<1> QED BY <1>1, <1>2, <1>3, <1>4, <1>5, SoleStep

LEMMA NoPassSole == SolePass(NoPass) /\ SolePass(NoPass)' /\ NoPass.at = "none"
BY DEF SolePass, NoPass

LEMMA PassOverIs ==
  ASSUME Inv, NEW h \in Hosts, PassEnds(h)
  PROVE  pass'[h] = NoPass /\ SolePass(pass[h])'
<1>1. pass'[h] = NoPass
  BY DEF Inv, HostInv, PassesInv, PassEnds
<1> QED BY <1>1, NoPassSole DEF SolePass

LEMMA StartPassSole ==
  ASSUME Inv, NEW h \in Hosts, SoleInv(h), StartPass(h)
  PROVE  SoleInv(h)'
<1>1. /\ up[h] /\ task[h].at = "idle"
      /\ UNCHANGED <<setup, exp, best, node, branch, run, ev, res, dec, noted, att, sub, ledger, out,
                     up, task, watch, sweep, esc>>
  BY DEF StartPass, Idle, record
<1>2. pass'[h] = IF esc[h] THEN NoPass ELSE [NoPass EXCEPT !.at = "round"]
  BY DEF StartPass, Inv, HostInv, PassesInv
<1>3. CASE esc[h]
  <2>1. SolePass(pass[h])' /\ esc'[h]
    BY <1>1, <1>2, <1>3, NoPassSole DEF SolePass
  <2> QED BY <1>1, <2>1, PassStep
<1>4. CASE ~esc[h]
  <2>1. pass'[h].at = "round" /\ pass'[h].round = 0
    BY <1>2, <1>4 DEF NoPass
  <2>2. SolePass(pass[h])'
    BY <2>1 DEF SolePass
  <2> QED BY <1>1, <2>1, <2>2, PassStep
<1> QED BY <1>3, <1>4

LEMMA PlannerDeclinesSole ==
  ASSUME Inv, NEW h \in Hosts, SoleInv(h), PlannerDeclines(h)
  PROVE  SoleInv(h)'
<1>1. /\ up[h] /\ task[h].at = "idle" /\ PassEnds(h) /\ pass[h].at = "propose"
      /\ UNCHANGED <<setup, exp, best, node, branch, run, ev, res, dec, noted, att, sub, ledger, out,
                     up, task, watch, sweep, due>>
  BY DEF PlannerDeclines, Idle, record, Escalate
<1>2. \A n \in Nodes : node[n] # "planned"
  BY <1>1, SoleFacts, NotProposing DEF OpenNode
<1> QED BY <1>1, <1>2, PassOverIs, PassStep

LEMMA RoundSole ==
  ASSUME Inv, NEW h \in Hosts, SoleInv(h), Round(h)
  PROVE  SoleInv(h)'
<1>1. /\ up[h] /\ task[h].at = "idle" /\ pass[h].at = "round"
      /\ UNCHANGED <<setup, best, node, branch, run, ev, res, dec, noted, att, sub, ledger, out,
                     up, task, watch, sweep, due, esc>>
  BY DEF Round, Idle
<1>2. PICK p : p = pass[h]
  OBVIOUS
<1>3. /\ IsPass(p) /\ pass = [g \in Hosts |-> pass[g]]
      /\ p.round \in Nat /\ p.n \in Nodes
      /\ p.round = 0 \/ (p.round = 1 /\ \E n \in Nodes : node[n] = "planned")
  <2>1. IsPass(p) /\ pass = [g \in Hosts |-> pass[g]]
    BY <1>2 DEF Inv, HostInv, PassesInv
  <2> QED BY <1>1, <1>2, <2>1, SoleFacts DEF IsPass, SolePass
<1>4. ASSUME NEW n \in Nodes, node[n] = "planned", exp = "active" PROVE NextStage = "training"
  BY <1>4, PlannedStage
<1>5. CASE /\ \/ pass[h].round = MaxRounds \/ exp # "active"
              \/ NextStage \notin {"training", "planning"}
              \/ NextStage = "planning" /\ ~setup.planner
           /\ PassEnds(h) /\ UNCHANGED exp
  <2>1. exp = "active" => \A n \in Nodes : node[n] # "planned"
    BY <1>2, <1>3, <1>4, <1>5 DEF MaxRounds
  <2> QED BY <1>1, <1>5, <2>1, PassOverIs, PassStep
<1>6. CASE /\ exp = "active" /\ NextStage = "planning"
           /\ exp' = IF Exhaustable THEN "exhausted" ELSE exp
           /\ PassEnds(h)
  <2>1. \A n \in Nodes : node[n] # "planned"
    BY <1>4, <1>6
  <2>2. exp' = exp \/ (exp' \in Ended /\ LiveAttempts = {})
    BY <1>6 DEF Exhaustable, Ended
  <2> QED BY <1>1, <2>1, <2>2, <1>6, PassOverIs, PassStep
<1>7. CASE /\ exp = "active" /\ NextStage = "planning" /\ UNCHANGED exp
           /\ pass' = [pass EXCEPT ![h].at = "propose", ![h].ctx = Context, ![h].round = @ + 1]
  <2>1. \A n \in Nodes : node[n] # "planned"
    BY <1>4, <1>7
  <2>2. p.round = 0
    BY <1>3, <2>1
  <2>3. pass'[h] = [p EXCEPT !.at = "propose", !.ctx = Context, !.round = p.round + 1]
    BY <1>2, <1>3, <1>7
  <2>4. pass'[h].at = "propose" /\ pass'[h].ctx = Context /\ pass'[h].round = 1
    BY <1>3, <2>2, <2>3 DEF IsPass
  <2>5. Context' = Context
    BY <1>1, <1>7 DEF Context
  <2>6. SolePass(pass[h])'
    BY <1>7, <2>4, <2>5 DEF SolePass
  <2> QED BY <1>1, <1>7, <2>1, <2>6, PassStep
<1>8. ASSUME NEW n \in Nodes, node[n] = "planned", UNCHANGED exp,
             pass' = [pass EXCEPT ![h].at = "realize", ![h].n = n]
      PROVE  SoleInv(h)'
  <2>1. pass'[h] = [p EXCEPT !.at = "realize", !.n = n]
    BY <1>2, <1>3, <1>8
  <2>2. pass'[h].at = "realize" /\ pass'[h].n = n
    BY <1>3, <2>1 DEF IsPass
  <2>3. SolePass(pass[h])'
    BY <1>1, <1>8, <2>2 DEF SolePass
  <2> QED BY <1>1, <1>8, <2>2, <2>3, PassStep
<1> QED BY <1>5, <1>6, <1>7, <1>8 DEF Round

\* The answer is still fresh, and it is new: nobody else planned meanwhile.
LEMMA MaterializeSole ==
  ASSUME Inv, NEW h \in Hosts, SoleInv(h), NEW c \in Candidates, NEW i \in Existing,
         NEW runs \in BOOLEAN, Materialize(h, c, i, runs)
  PROVE  SoleInv(h)'
<1>1. /\ up[h] /\ task[h].at = "idle"
      /\ UNCHANGED <<setup, out, up, task, watch, sweep, due>>
  BY DEF Materialize, Idle
<1>2. PICK p : p = pass[h]
  OBVIOUS
<1>3. /\ IsPass(p) /\ pass = [g \in Hosts |-> pass[g]]
      /\ p.at = "propose" /\ exp = "active" /\ p.ctx = Context /\ p.round = 1
  <2>1. IsPass(p) /\ pass = [g \in Hosts |-> pass[g]] /\ p.at = "propose"
    BY <1>2 DEF Inv, HostInv, PassesInv, Materialize
  <2> QED BY <1>2, <2>1, SoleFacts DEF SolePass
<1>4. ASSUME NEW n \in Existing, branch[n].origin = <<p.ctx, i, runs>>
      PROVE  FALSE
  <2>1. n \in Nodes /\ node[n] # "none"
    BY DEF Existing
  <2>2. branch[n].origin # <<>> /\ branch[n].origin[1] = Context
    BY <1>3, <1>4
  <2>3. branch[n].origin[1][2][n] = "none"
    BY <2>1, <2>2, SoleFacts DEF SoleOrigin
  <2>4. Context[2] = node
    BY DEF Context
  <2> QED BY <2>1, <2>2, <2>3, <2>4
<1>5. Fresh(h)
  BY <1>2, <1>3 DEF Fresh
<1>6. CASE Escalate(h) /\ UNCHANGED record
  <2>1. PassEnds(h) /\ esc'[h]
    BY <1>6 DEF Escalate, Inv, HostInv, FlagShapes
  <2>2. UNCHANGED <<branch, node, run, ev, noted, att, sub, exp>>
    BY <1>6 DEF record
  <2> QED BY <1>1, <2>1, <2>2, PassOverIs, PassStep
<1>7. ASSUME Nodes \ Existing # {},
             node' = [node EXCEPT ![Cardinality(Existing) + 1] = "planned"],
             branch' = [branch EXCEPT ![Cardinality(Existing) + 1] =
                          [cand |-> c, parent |-> i, origin |-> <<pass[h].ctx, i, runs>>,
                           runs |-> runs]],
             pass' = [pass EXCEPT ![h].at = "round"],
             UNCHANGED <<exp, best, run, ev, res, dec, noted, att, sub, ledger, esc>>
      PROVE  SoleInv(h)'
  <2>1. PICK k \in 0..MaxNodes : \A n \in Nodes : node[n] # "none" <=> n <= k
    BY DEF Inv, BranchInv, ChainInv
  <2>2. MaxNodes \in Nat /\ Nodes = 1..MaxNodes
    BY LifecycleAssumption DEF Nodes
  <2>3. Existing = 1..k
    BY <2>1, <2>2 DEF Existing
  <2>4. Cardinality(Existing) = k
    BY <2>2, <2>3, FS_Interval
  <2>5. PICK j \in Nodes : j = Cardinality(Existing) + 1 /\ node[j] = "none"
    <3>1. k + 1 \in Nodes /\ ~(k + 1 <= k)
      BY <1>7, <2>2, <2>3
    <3> QED BY <2>1, <2>4, <3>1
  <2>6. /\ node'[j] = "planned" /\ \A n \in Nodes : n # j => node'[n] = node[n]
        /\ branch'[j].origin = <<p.ctx, i, runs>>
        /\ \A n \in Nodes : n # j => branch'[n] = branch[n]
    BY <1>2, <1>7, <2>5 DEF Inv, BranchInv, NodeShapes
  <2>7. SoleOrigin'
    <3>1. branch'[j].origin[1][2][j] = "none"
      <4>1. branch'[j].origin[1] = Context /\ Context[2] = node
        BY <1>3, <2>6 DEF Context
      <4> QED BY <2>5, <4>1
    <3> QED BY <2>6, <3>1, SoleFacts DEF SoleOrigin
  <2>8. SoleWork'
    <3>1. \A n \in Nodes : node[n] = "active" => node'[n] = "active"
      BY <2>5, <2>6
    <3> QED BY <1>1, <1>3, <1>7, <3>1, SoleFacts DEF SoleWork, Ended
  <2>9. SoleTask(task[h])'
    <3>1. task[h].k # -1
      BY <1>1, SoleFacts DEF SoleTask
    <3> QED BY <1>1, <3>1 DEF SoleTask
  <2>10. SoleWatch(h)' /\ SoleLive(h)'
    BY <1>1, <1>7, SoleFacts, WatchKept, LiveKept
  <2>11. pass'[h].at = "round" /\ pass'[h].round = 1
    <3>1. pass'[h] = [p EXCEPT !.at = "round"]
      BY <1>2, <1>3, <1>7
    <3> QED BY <1>3, <3>1 DEF IsPass
  <2>12. SolePass(pass[h])'
    BY <2>6, <2>11 DEF SolePass
  <2>13. ASSUME NEW n \in Nodes
         PROVE  SoleNode(h, n)'
    <3>1. SoleNode(h, n) /\ (Ahead(h, n)' <=> Ahead(h, n))
      BY <1>1, <1>3, SoleFacts DEF Ahead
    <3>2. CASE n = j
      <4>1. ev[n] = "none"
        BY <2>5, <3>2 DEF Inv, BranchInv, NodeInv
      <4> QED BY <1>7, <2>6, <2>11, <3>2, <4>1 DEF SoleNode
    <3>3. CASE n # j
      BY <1>1, <1>7, <2>6, <2>11, <3>1, <3>3 DEF SoleNode, Doing
    <3> QED BY <3>2, <3>3
  <2> QED BY <1>1, <2>7, <2>8, <2>9, <2>10, <2>12, <2>13, SoleStep
<1> QED
  <2>1. exp = "active" /\ Fresh(h) /\ \A n \in Existing : branch[n].origin # <<pass[h].ctx, i, runs>>
    BY <1>2, <1>3, <1>4, <1>5
  <2> QED BY <1>6, <1>7, <2>1 DEF Materialize

LEMMA RealizeSole ==
  ASSUME Inv, NEW h \in Hosts, SoleInv(h), Realize(h)
  PROVE  SoleInv(h)'
<1>1. /\ up[h] /\ task[h].at = "idle"
      /\ UNCHANGED <<setup, out, up, task, sweep, due>>
  BY DEF Realize, Idle
<1>2. PICK m \in Nodes : m = pass[h].n
  BY PassNode
<1>3. node[m] = "planned"
  BY <1>2, SoleFacts DEF SolePass, Realize
<1>4. LiveAttempts = {} /\ ev[m] = "none"
  BY <1>3, SoleFacts, NothingLives, EvalOpen DEF OpenNode
<1>5. CASE Escalate(h) /\ UNCHANGED record /\ UNCHANGED watch
  <2>1. PassEnds(h) /\ esc'[h]
    BY <1>5 DEF Escalate, Inv, HostInv, FlagShapes
  <2>2. UNCHANGED <<branch, node, run, ev, noted, att, sub, exp>>
    BY <1>5 DEF record
  <2> QED BY <1>1, <1>5, <2>1, <2>2, PassOverIs, PassStep
<1>6. CASE /\ exp = "active" /\ exp' = IF Exhaustable THEN "exhausted" ELSE exp
           /\ PassEnds(h)
           /\ UNCHANGED <<best, node, branch, run, ev, res, dec, noted, att, sub, ledger, watch, esc>>
  <2>1. exp' = "exhausted"
    BY <1>4, <1>6 DEF Exhaustable
  <2> QED BY <1>1, <1>4, <1>6, <2>1, PassOverIs, PassStep DEF Ended
<1>7. CASE /\ exp = "active"
           /\ node' = [node EXCEPT ![m] = "active"]
           /\ run' = [run EXCEPT ![m] = "active"]
           /\ att' = [att EXCEPT ![<<m, 0>>] = "live"]
           /\ sub' = [sub EXCEPT ![<<m, 0>>] = "intended"]
           /\ watch' = [watch EXCEPT ![h] = @ \cup {<<m, 0>>}]
           /\ PassEnds(h)
           /\ UNCHANGED <<exp, best, branch, ev, res, dec, noted, esc>>
  <2>1. <<m, 0>> \in Attempts
    BY FirstAttempt
  <2>2. /\ node'[m] = "active" /\ run'[m] = "active"
        /\ \A n \in Nodes : n # m => node'[n] = node[n] /\ run'[n] = run[n]
    BY <1>7 DEF Inv, BranchInv, NodeShapes, WorkInv, WorkShapes
  <2>3. /\ att'[<<m, 0>>] = "live" /\ sub'[<<m, 0>>] = "intended"
        /\ \A a \in Attempts : a # <<m, 0>> => att'[a] = att[a] /\ sub'[a] = sub[a]
        /\ watch'[h] = watch[h] \cup {<<m, 0>>} /\ watch[h] \subseteq Attempts
    BY <1>7, <2>1 DEF Inv, WorkInv, WorkShapes, HostInv, FlagShapes
  <2>4. SoleWork'
    <3>1. ASSUME NEW n \in Nodes, NEW k \in 1..MaxEvals
          PROVE  att'[<<n, k>>] = att[<<n, k>>]
      <4>1. <<n, k>> \in Attempts /\ <<n, k>> # <<m, 0>>
        BY EvalAttempt
      <4> QED BY <2>3, <4>1
    <3>2. ASSUME NEW n \in Nodes, att'[<<n, 0>>] = "live"
          PROVE  node'[n] = "active" /\ run'[n] = "active"
      <4>1. CASE n = m
        BY <2>2, <4>1
      <4>2. CASE n # m
        <5>1. att[<<n, 0>>] = "live"
          BY <2>3, <3>2, <4>2, FirstAttempt
        <5> QED BY <2>2, <4>2, <5>1, SoleFacts DEF SoleWork
      <4> QED BY <4>1, <4>2
    <3>3. exp' \notin Ended
      BY <1>7 DEF Ended
    <3> QED BY <1>1, <1>7, <3>1, <3>2, <3>3, SoleFacts DEF SoleWork
  <2>5. SoleOrigin'
    BY <1>7, <2>2, SoleFacts, OriginKept
  <2>6. SoleTask(task[h])'
    <3>1. task[h].k # -1
      BY <1>1, SoleFacts DEF SoleTask
    <3> QED BY <1>1, <3>1 DEF SoleTask
  <2>7. SoleWatch(h)'
    BY <1>1, <2>3, SoleFacts DEF SoleWatch
  <2>8. SoleLive(h)'
    BY <1>1, <2>3, SoleFacts DEF SoleLive, Ahead
  <2>9. SolePass(pass[h])'
    BY <1>7, PassOverIs
  <2>10. ASSUME NEW n \in Nodes
         PROVE  SoleNode(h, n)'
    <3>1. CASE n = m
      BY <1>4, <1>7, <2>2, <3>1 DEF SoleNode
    <3>2. CASE n # m
      <4>1. SoleNode(h, n) /\ node[n] # "planned" /\ (Ahead(h, n)' <=> Ahead(h, n))
        BY <1>1, <1>3, <1>7, <3>2, SoleFacts, OneOpen DEF OpenNode, Ahead
      <4>2. att'[<<n, 1>>] = att[<<n, 1>>]
        BY <2>3, EvalAttempt
      <4> QED BY <1>1, <1>7, <2>2, <3>2, <4>1, <4>2 DEF SoleNode, Doing
    <3> QED BY <3>1, <3>2
  <2> QED BY <1>1, <2>4, <2>5, <2>6, <2>7, <2>8, <2>9, <2>10, SoleStep
<1> QED BY <1>2, <1>3, <1>5, <1>6, <1>7 DEF Realize

-----------------------------------------------------------------------------
(* Admission, and what surrounds a process. *)

\* Before admission there is nothing.
LEMMA NothingYet ==
  ASSUME Inv, SoleWork, exp = "none"
  PROVE  /\ \A n \in Nodes : node[n] = "none" /\ run[n] = "none" /\ ev[n] = "none"
         /\ \A a \in Attempts : att[a] = "none"
<1>1. \A n \in Nodes : node[n] = "none"
  BY DEF Inv, BranchInv, ChainInv
<1>2. \A n \in Nodes : run[n] = "none" /\ ev[n] = "none" /\ att[<<n, 0>>] = "none"
  BY <1>1 DEF Inv, BranchInv, NodeInv, Unrealized, WorkInv, AttemptInv
<1>3. ASSUME NEW a \in Attempts PROVE att[a] = "none"
  <2>1. PICK n \in Nodes, k \in 0..MaxEvals : a = <<n, k>>
    BY DEF Attempts
  <2>2. CASE k = 0
    BY <1>2, <2>1, <2>2
  <2>3. CASE k # 0
    <3>1. k \in 1..MaxEvals
      BY <2>3
    <3>2. ev[n] = "none"
      BY <1>2
    <3> QED BY <2>1, <3>1, <3>2 DEF SoleWork
  <2> QED BY <2>2, <2>3
<1> QED BY <1>1, <1>2, <1>3

LEMMA AdmitSole ==
  ASSUME Inv, NEW h \in Hosts, SoleInv(h), Admit(h)
  PROVE  SoleInv(h)'
<1>1. /\ up[h] /\ task[h].at = "idle" /\ exp = "none" /\ exp' \in {"active", "exhausted"}
      /\ UNCHANGED <<setup, best, branch, ev, res, dec, noted, out, up, task, sweep, due, pass, esc>>
      /\ node' = [node EXCEPT ![1] = "active"]
  BY DEF Admit, Idle
<1>2. /\ \A n \in Nodes : node[n] = "none" /\ run[n] = "none" /\ ev[n] = "none"
      /\ \A a \in Attempts : att[a] = "none"
  BY <1>1, SoleFacts, NothingYet
<1>3. /\ 1 \in Nodes /\ <<1, 0>> \in Attempts /\ node'[1] = "active"
      /\ \A n \in Nodes : n # 1 => node'[n] = "none"
  BY <1>1, <1>2, FirstNode, FirstAttempt DEF Inv, BranchInv, NodeShapes
<1>4. watch[h] = {}
  BY <1>2, SoleFacts DEF SoleWatch, Inv, HostInv, FlagShapes
<1>5. SoleOrigin'
  BY <1>1, <1>2, SoleFacts, OriginKept
<1>6. SoleTask(task[h])'
  <2>1. task[h].k # -1
    BY <1>1, SoleFacts DEF SoleTask
  <2> QED BY <1>1, <2>1 DEF SoleTask
<1>7. SolePass(pass[h])'
  <2>1. pass[h].at # "propose"
    BY <1>1, SoleFacts DEF SolePass
  <2>2. \A n \in Nodes : node[n] # "planned"
    BY <1>2
  <2> QED BY <1>1, <2>1, <2>2, SoleFacts, PassNode, PassKept
<1>8. CASE exp' = "active"
  <2>1. /\ run' = [run EXCEPT ![1] = "active"]
        /\ att' = [att EXCEPT ![<<1, 0>>] = "live"]
        /\ sub' = [sub EXCEPT ![<<1, 0>>] = "intended"]
        /\ watch' = [watch EXCEPT ![h] = @ \cup {<<1, 0>>}]
    BY <1>8 DEF Admit
  <2>2. run'[1] = "active" /\ att'[<<1, 0>>] = "live" /\ sub'[<<1, 0>>] = "intended"
        /\ (\A a \in Attempts : a # <<1, 0>> => att'[a] = "none") /\ watch'[h] = {<<1, 0>>}
    BY <1>2, <1>3, <1>4, <2>1 DEF Inv, WorkInv, WorkShapes, HostInv, FlagShapes
  <2>3. SoleWork'
    <3>1. ASSUME NEW n \in Nodes, NEW k \in 1..MaxEvals
          PROVE  att'[<<n, k>>] = "none"
      <4>1. <<n, k>> \in Attempts /\ <<n, k>> # <<1, 0>>
        BY EvalAttempt
      <4> QED BY <2>2, <4>1
    <3>2. ASSUME NEW n \in Nodes, att'[<<n, 0>>] = "live"
          PROVE  node'[n] = "active" /\ run'[n] = "active"
      <4>1. n = 1
        BY <2>2, <3>2, FirstAttempt
      <4> QED BY <1>3, <2>2, <4>1
    <3>3. exp' \notin Ended
      BY <1>8 DEF Ended
    <3> QED BY <1>1, <3>1, <3>2, <3>3, SoleFacts DEF SoleWork
  <2>4. SoleWatch(h)' /\ SoleLive(h)'
    BY <1>1, <2>2 DEF SoleWatch, SoleLive
  <2>5. ASSUME NEW n \in Nodes
        PROVE  SoleNode(h, n)'
    <3>1. ev'[n] = "none" /\ (node'[n] = "none" \/ (node'[n] = "active" /\ run'[n] = "active"))
      BY <1>1, <1>2, <1>3, <2>2
    <3> QED BY <3>1 DEF SoleNode
  <2> QED BY <1>1, <1>5, <1>6, <1>7, <2>3, <2>4, <2>5, SoleStep
<1>9. CASE exp' # "active"
  <2>1. UNCHANGED <<run, att, sub, watch>>
    BY <1>9 DEF Admit
  <2>2. SoleWork'
    <3>1. LiveAttempts' = {}
      BY <1>2, <2>1 DEF LiveAttempts
    <3>2. \A n \in Nodes : node[n] = "active" => node'[n] = "active"
      BY <1>2
    <3> QED BY <1>1, <2>1, <3>1, <3>2, SoleFacts DEF SoleWork
  <2>3. SoleWatch(h)' /\ SoleLive(h)'
    BY <1>1, <2>1, SoleFacts, WatchKept, LiveKept
  <2> QED BY <1>1, <1>5, <1>6, <1>7, <1>9, <2>2, <2>3, SoleStep
<1> QED BY <1>8, <1>9

LEMMA NoTaskSole == SoleTask(NoTask) /\ SoleTask(NoTask)' /\ NoTask.at = "idle"
BY DEF SoleTask, NoTask

LEMMA CrashSole ==
  ASSUME Inv, NEW h \in Hosts, SoleInv(h), Crash(h)
  PROVE  SoleInv(h)'
<1>1. UNCHANGED <<setup, exp, best, node, branch, run, ev, res, dec, noted, att, sub, ledger, out>>
  BY DEF Crash, record
<1>2. /\ ~up'[h] /\ (\A g \in Hosts : up'[g] => up[g])
      /\ task'[h] = NoTask /\ watch'[h] = {} /\ sweep'[h] = 0 /\ pass'[h] = NoPass
  <2>1. ~up'[h] /\ \A g \in Hosts : up'[g] => up[g]
    BY DEF Crash, Inv, HostInv, FlagShapes
  <2> QED BY <2>1 DEF Crash, Inv, HostInv, FlagShapes, TasksInv, PassesInv
<1>3. SoleWork' /\ SoleOrigin'
  BY <1>1, SoleFacts, WorkKept, OriginKept
<1>4. SoleTask(task[h])'
  BY <1>2, NoTaskSole DEF SoleTask
<1>5. SolePass(pass[h])'
  BY <1>2, NoPassSole DEF SolePass
<1>6. SoleWatch(h)' /\ SoleLive(h)' /\ \A n \in Nodes : SoleNode(h, n)'
  BY <1>2 DEF SoleWatch, SoleLive, SoleNode, Ahead
<1>7. \A g \in Hosts : up'[g] => g = h
  BY <1>2, SoleActor
<1> QED BY <1>1, <1>2, <1>3, <1>4, <1>5, <1>6, <1>7 DEF SoleInv, SoleHost

\* attach() begins with the first node.
LEMMA AttachesSole ==
  ASSUME Inv, NEW h \in Hosts, SoleInv(h), task[h].at = "idle", watch[h] = {},
         UNCHANGED <<setup, record, out, task, watch, due, pass, esc>>,
         up'[h], \A g \in Hosts : up'[g] => g = h,
         exp = "none" \/ sweep'[h] = 1
  PROVE  SoleInv(h)'
<1>1. UNCHANGED <<exp, best, node, branch, run, ev, res, dec, noted, att, sub, ledger>>
  BY DEF record
<1>2. SoleWork' /\ SoleOrigin'
  BY <1>1, SoleFacts, WorkKept, OriginKept
<1>3. SoleTask(task[h])'
  <2>1. task[h].k # -1
    BY SoleFacts DEF SoleTask
  <2> QED BY <2>1 DEF SoleTask
<1>4. SolePass(pass[h])'
  BY <1>1, SoleFacts, PassNode, PassKept
<1>5. SoleWatch(h)'
  BY DEF SoleWatch
<1>6. exp # "none" => \A n \in Nodes : Ahead(h, n)'
  BY DEF Ahead, Nodes
<1>7. SoleLive(h)'
  <2>1. CASE exp = "none"
    BY <1>1, <2>1, SoleFacts, NothingYet DEF SoleLive
  <2>2. CASE exp # "none"
    BY <1>6, <2>2, AttemptParts DEF SoleLive
  <2> QED BY <2>1, <2>2
<1>8. ASSUME exp' = "active", NEW n \in Nodes
      PROVE  SoleNode(h, n)'
  <2>1. Ahead(h, n)' /\ sweep'[h] > 0
    BY <1>1, <1>6, <1>8
  <2> QED BY <2>1 DEF SoleNode
<1> QED BY <1>2, <1>3, <1>4, <1>5, <1>7, <1>8 DEF SoleInv, SoleHost

LEMMA RestartSole ==
  ASSUME Inv, NEW h \in Hosts, SoleInv(h), Restart(h)
  PROVE  SoleInv(h)'
<1>1. task[h].at = "idle" /\ watch[h] = {}
  BY NoTaskSole DEF SoleInv, SoleHost, Restart
<1>2. up'[h] /\ \A g \in Hosts : up'[g] => g = h
  BY DEF Restart, SoleInv, SoleHost, Inv, HostInv, FlagShapes
<1>3. exp = "none" \/ sweep'[h] = 1
  BY DEF Restart, Inv, HostInv, FlagShapes
<1> QED BY <1>1, <1>2, <1>3, AttachesSole DEF Restart

LEMMA AttachSole ==
  ASSUME Inv, NEW h \in Hosts, SoleInv(h), Attach(h)
  PROVE  SoleInv(h)'
<1>1. task[h].at = "idle" /\ watch[h] = {} /\ sweep'[h] = 1
  BY DEF Attach, Idle, Inv, HostInv, FlagShapes
<1>2. up'[h] /\ \A g \in Hosts : up'[g] => g = h
  BY SoleActor DEF Attach, Idle
<1> QED BY <1>1, <1>2, AttachesSole DEF Attach

LEMMA WaitSole ==
  ASSUME Inv, NEW h \in Hosts, SoleInv(h), Wait(h)
  PROVE  SoleInv(h)'
<1>1. /\ up[h] /\ task[h].at = "idle" /\ due'[h]
      /\ UNCHANGED <<setup, exp, best, node, branch, run, ev, res, dec, noted, att, sub, ledger, out,
                     up, task, watch, sweep, pass, esc>>
  BY DEF Wait, Idle, record, Inv, HostInv, FlagShapes
<1>2. SolePass(pass[h])'
  BY <1>1, SoleFacts, PassNode, PassKept
<1> QED BY <1>1, <1>2, PassStep

\* attach() comes to a node: it adopts the attempt that lives, or carries on
\* what a crash left between two commits.
LEMMA SweepSole ==
  ASSUME Inv, NEW h \in Hosts, SoleInv(h), Sweep(h)
  PROVE  SoleInv(h)'
<1>1. /\ up[h] /\ task[h].at = "idle" /\ sweep[h] > 0
      /\ UNCHANGED <<setup, exp, best, node, branch, run, ev, res, dec, noted, att, sub, ledger, out,
                     up, pass, esc>>
  BY DEF Sweep, Idle, record
<1>2. PICK m : m = sweep[h]
  OBVIOUS
<1>3. m \in 1..(MaxNodes + 1) /\ MaxNodes \in Nat /\ Nodes = 1..MaxNodes
  BY <1>1, <1>2, LifecycleAssumption DEF Inv, HostInv, FlagShapes, Nodes
<1>4. SoleWork' /\ SoleOrigin'
  BY <1>1, SoleFacts, WorkKept, OriginKept
<1>5. SolePass(pass[h])'
  BY <1>1, SoleFacts, PassNode, PassKept
<1>6. \A n \in Nodes : Ahead(h, n) <=> m <= n
  BY <1>1, <1>2 DEF Ahead
<1>7. \A n \in Nodes, s \in SUBSET TaskNode : ~Doing(h, n, s)
  BY <1>1 DEF Doing, TaskNode
<1>8. /\ {"start", "attempt", "evrun"} \subseteq TaskNode
      /\ {"start", "attempt", "evrun", "node"} \subseteq TaskNode
      /\ {"decide", "record"} \subseteq TaskNode /\ {"evaluate", "begin", "exhaust"} \subseteq TaskNode
  BY DEF TaskNode
<1>9. ASSUME exp = "active", NEW n \in Nodes, ~(m <= n)
      PROVE  /\ ev[n] \in {"created", "active"} => att[<<n, 1>>] = "live"
             /\ node[n] = "evaluating" /\ ~noted[n] => ev[n] \in {"created", "active"}
             /\ node[n] = "deciding" => noted[n]
             /\ ~(node[n] = "active" /\ run[n] = "succeeded")
  <2>1. SoleNode(h, n) /\ ~Ahead(h, n)
    BY <1>6, <1>9, SoleFacts
  <2> QED BY <1>7, <1>8, <2>1 DEF SoleNode
<1>10. CASE m \notin Existing
  <2>1. sweep'[h] = 0 /\ due'[h] /\ UNCHANGED <<task, watch>>
    BY <1>2, <1>10 DEF Sweep, Inv, HostInv, FlagShapes
  <2>2. ASSUME NEW n \in Nodes, node[n] # "none" PROVE ~(m <= n)
    <3>1. PICK k \in 0..MaxNodes : \A i \in Nodes : node[i] # "none" <=> i <= k
      BY DEF Inv, BranchInv, ChainInv
    <3>2. m \in Nodes => ~(m <= k)
      BY <1>10, <3>1 DEF Existing
    <3> QED BY <1>3, <2>2, <3>1, <3>2
  <2>3. SoleTask(task[h])'
    <3>1. task[h].k # -1
      BY <1>1, SoleFacts DEF SoleTask
    <3> QED BY <1>1, <2>1, <3>1 DEF SoleTask
  <2>4. SoleWatch(h)'
    BY <1>1, <2>1, SoleFacts, WatchKept
  <2>5. SoleLive(h)'
    <3>1. ASSUME NEW a \in Attempts, att[a] = "live" PROVE a \in watch[h]
      <4>1. a[1] \in Nodes /\ node[a[1]] # "none"
        BY <3>1, SoleFacts, LiveIs
      <4>2. ~Ahead(h, a[1])
        BY <1>6, <2>2, <4>1
      <4> QED BY <1>1, <3>1, <4>2, SoleFacts DEF SoleLive
    <3> QED BY <1>1, <2>1, <3>1 DEF SoleLive
  <2>6. ASSUME exp' = "active", NEW n \in Nodes
        PROVE  SoleNode(h, n)'
    <3>1. CASE node[n] = "none"
      <4>1. ev[n] = "none"
        BY <3>1 DEF Inv, BranchInv, NodeInv
      <4> QED BY <1>1, <3>1, <4>1 DEF SoleNode
    <3>2. CASE node[n] # "none"
      BY <1>1, <1>9, <2>1, <2>2, <2>6, <3>2 DEF SoleNode
    <3> QED BY <3>1, <3>2
  <2> QED BY <1>1, <1>4, <1>5, <2>3, <2>4, <2>5, <2>6, SoleStep
<1>11. CASE m \in Existing
  <2> DEFINE refused == {a \in Unsettled(m) : sub[a] = "failed"}
  <2>1. m \in Nodes /\ node[m] # "none"
    BY <1>11 DEF Existing
  <2>2. sweep'[h] = m + 1 /\ watch'[h] = watch[h] \cup (Unsettled(m) \ refused)
    BY <1>2, <1>11 DEF Sweep, Inv, HostInv, FlagShapes
  <2>3. \A n \in Nodes : Ahead(h, n)' <=> m < n
    BY <1>1, <1>3, <2>2 DEF Ahead
  <2>4. ASSUME NEW a \in Attempts, att[a] = "live", a[1] = m PROVE a \in Unsettled(m)
    BY <2>4, SoleFacts, LiveIs DEF Unsettled, LiveAttempts
  <2>5. ASSUME NEW a \in Unsettled(m)
        PROVE  /\ a \in Attempts /\ att[a] = "live" /\ a[1] = m
               /\ \/ a = <<m, 0>> /\ node[m] = "active" /\ run[m] = "active"
                  \/ a = <<m, 1>> /\ node[m] = "evaluating" /\ ev[m] = "active"
    <3>1. a \in Attempts /\ att[a] = "live" /\ a[1] = m
      BY DEF Unsettled, LiveAttempts
    <3> QED BY <3>1, SoleFacts, LiveIs
  <2>6. ASSUME NEW a \in Attempts, att[a] = "live"
        PROVE  m < a[1] \/ a \in watch[h] \/ a \in Unsettled(m)
    <3>1. a[1] \in Nodes /\ (Ahead(h, a[1]) \/ a \in watch[h])
      BY <1>1, <2>6, AttemptParts, SoleFacts DEF SoleLive
    <3> QED BY <1>3, <1>6, <2>4, <2>6, <3>1
  <2>7. ASSUME exp = "active", NEW n \in Nodes, n # m
        PROVE  SoleNode(h, n)'
    <3>1. CASE m < n
      <4>1. Ahead(h, n)' /\ sweep'[h] > 0
        BY <1>3, <2>2, <2>3, <3>1
      <4> QED BY <4>1 DEF SoleNode
    <3>2. CASE ~(m < n)
      <4>1. ~(m <= n) /\ sweep'[h] > 0
        BY <1>3, <2>2, <2>7, <3>2
      <4> QED BY <1>1, <1>9, <2>7, <4>1 DEF SoleNode
    <3> QED BY <3>1, <3>2
  <2>8. CASE refused # {}
    <3>1. PICK a \in refused :
            task' = [task EXCEPT ![h] = [at |-> "unmeasured", n |-> m, k |-> a[2], then |-> "sweep"]]
      BY <1>2, <1>11, <2>8 DEF Sweep
    <3>2. a \in Unsettled(m) /\ sub[a] = "failed"
      OBVIOUS
    <3>3. a \in Attempts /\ att[a] = "live" /\ a = <<m, a[2]>> /\ a[2] \in 0..MaxEvals
      BY <2>5, <3>2, AttemptParts
    <3>4. Unsettled(m) = {a}
      BY <2>5, <3>2
    <3>5. watch'[h] = watch[h] /\ a \notin watch[h]
      BY <2>2, <3>2, <3>4, SoleFacts DEF SoleWatch
    <3>6. task'[h].at = "unmeasured" /\ task'[h].n = m /\ task'[h].k = a[2]
      BY <3>1 DEF Inv, HostInv, TasksInv
    <3>7. SoleTask(task[h])'
      BY <1>1, <3>3, <3>6 DEF SoleTask
    <3>8. SoleWatch(h)'
      BY <1>1, <3>3, <3>5, <3>6, SoleFacts DEF SoleWatch
    <3>9. SoleLive(h)'
      BY <1>1, <2>3, <2>6, <3>3, <3>4, <3>5, <3>6, AttemptParts DEF SoleLive
    <3>10. SoleNode(h, m)'
      <4>1. CASE node[m] = "active" /\ run[m] = "active"
        <5>1. ev[m] = "none"
          BY <2>1, <4>1, EvalOpen
        <5> QED BY <1>1, <4>1, <5>1 DEF SoleNode
      <4>2. CASE a = <<m, 1>> /\ node[m] = "evaluating" /\ ev[m] = "active"
        BY <1>1, <3>3, <4>2 DEF SoleNode
      <4> QED BY <2>5, <3>2, <4>1, <4>2
    <3> QED BY <1>1, <1>4, <1>5, <2>7, <3>7, <3>8, <3>9, <3>10, SoleStep
  <2>9. CASE refused = {}
    <3>1. PICK c : c = CarryOn(m)
      OBVIOUS
    <3>2. task'[h] = IF c = "idle" THEN NoTask ELSE [at |-> c, n |-> m, k |-> 0, then |-> "sweep"]
      BY <1>2, <1>11, <2>9, <3>1 DEF Sweep, Inv, HostInv, TasksInv
    <3>3. task'[h].at = c /\ task'[h].k = 0 /\ (c # "idle" => task'[h].n = m)
      BY <3>2 DEF NoTask
    <3>4. watch'[h] = watch[h] \cup Unsettled(m)
      BY <2>2, <2>9
    <3>5. c \in {"evaluate", "decide", "node", "evrun", "start", "idle"}
      BY <3>1 DEF CarryOn
    <3>6. c \in {"evrun", "start"} => ev[m] \in {"created", "active"} /\ Unsettled(m) = {}
      BY <3>1 DEF CarryOn
    <3>7. att[<<m, 1>>] = "live" => <<m, 1>> \in Unsettled(m)
      <4>1. <<m, 1>> \in Attempts /\ <<m, 1>>[1] = m
        BY <2>1, EvalAttempt
      <4> QED BY <2>4, <4>1
    <3>8. c = "evrun" => ev[m] # "created" /\ att[<<m, 1>>] # "live"
      <4>1. c = "evrun" => Tries(m) # {}
        BY <3>1 DEF CarryOn
      <4>2. ASSUME NEW a \in Tries(m) PROVE ev[m] # "created"
        <5>1. PICK i \in Nodes, k \in 0..MaxEvals : a = <<i, k>>
          BY DEF Tries, Attempts
        <5>2. i = m /\ k \in 1..MaxEvals /\ att[<<m, k>>] # "none"
          BY <5>1 DEF Tries
        <5> QED BY <2>1, <5>2, SoleFacts DEF SoleWork
      <4> QED BY <3>6, <3>7, <4>1, <4>2
    <3>9. c = "start" => exp = "active" /\ att[<<m, 1>>] = "none"
      <4>1. c = "start" => Tries(m) = {} /\ exp = "active"
        BY <3>1 DEF CarryOn
      <4>2. <<m, 1>> \in Attempts
        BY <2>1, EvalAttempt
      <4>3. att[<<m, 1>>] # "none" => <<m, 1>> \in Tries(m)
        BY <4>2 DEF Tries
      <4> QED BY <4>1, <4>3
    <3>10. SoleTask(task[h])'
      BY <1>1, <3>3, <3>5, <3>6, <3>8, <3>9 DEF SoleTask
    <3>11. SoleWatch(h)'
      <4>1. \A a \in Unsettled(m) : att[a] = "live" /\ sub[a] # "failed"
        BY <2>5, <2>9
      <4> QED BY <1>1, <3>3, <3>4, <3>5, <4>1, SoleFacts DEF SoleWatch
    <3>12. SoleLive(h)'
      BY <1>1, <2>3, <2>6, <3>4, AttemptParts DEF SoleLive
    <3>13. ASSUME exp = "active" PROVE SoleNode(h, m)'
      <4>1. sweep'[h] > 0
        BY <1>3, <2>2
      <4>2. CASE node[m] \in {"none", "planned"} \cup Settled
        <5>1. ev[m] \in {"none", "succeeded"}
          BY <2>1, <4>2, EvalOpen
        <5> QED BY <1>1, <4>1, <4>2, <5>1 DEF SoleNode, Settled
      <4>3. CASE node[m] = "active"
        <5>1. ev[m] = "none" /\ c = "evaluate"
          BY <2>1, <3>1, <4>3, EvalOpen DEF CarryOn
        <5> QED BY <1>1, <3>3, <4>3, <5>1 DEF SoleNode, Doing
      <4>4. CASE node[m] = "deciding"
        <5>1. ev[m] = "succeeded" /\ c = "decide"
          BY <2>1, <3>1, <4>4, EvalOpen DEF CarryOn
        <5> QED BY <1>1, <3>3, <4>4, <5>1 DEF SoleNode, Doing
      <4>5. CASE node[m] = "evaluating"
        <5>1. CASE ev[m] \notin {"created", "active"}
          <6>1. c = "node"
            BY <3>1, <4>5, <5>1 DEF CarryOn
          <6> QED BY <1>1, <3>3, <4>5, <5>1, <6>1 DEF SoleNode, Doing
        <5>2. CASE ev[m] \in {"created", "active"} /\ Unsettled(m) # {}
          <6>1. att[<<m, 1>>] = "live"
            BY <2>5, <4>5, <5>2
          <6> QED BY <1>1, <4>5, <5>2, <6>1 DEF SoleNode
        <5>3. CASE ev[m] \in {"created", "active"} /\ Unsettled(m) = {}
          <6>1. c \in {"evrun", "start"}
            BY <3>1, <3>13, <4>5, <5>3 DEF CarryOn
          <6> QED BY <1>1, <3>3, <4>5, <5>3, <6>1 DEF SoleNode, Doing
        <5> QED BY <5>1, <5>2, <5>3
      <4> QED BY <2>1, <4>2, <4>3, <4>4, <4>5, StatusTypes DEF OpenNode
    <3> QED BY <1>1, <1>4, <1>5, <2>7, <3>10, <3>11, <3>12, <3>13, SoleStep
  <2> QED BY <2>8, <2>9
<1> QED BY <1>10, <1>11

-----------------------------------------------------------------------------
(* The theorem. *)

LEMMA InitSole ==
  ASSUME Init, NEW h \in Hosts, setup.hosts = {h}
  PROVE  SoleInv(h)
<1>1. /\ \A n \in Nodes : node[n] = "none" /\ run[n] = "none" /\ ev[n] = "none" /\ branch[n].origin = <<>>
      /\ \A a \in Attempts : att[a] = "none" /\ out[a] = Running
      /\ exp = "none"
  BY DEF Init, NoBranch
<1>2. SoleWork
  <2>1. Running \notin Measurements
    <3>1. ASSUME NEW m \in Measurements PROVE m[1] \in {"met", "missed", "absent"}
      BY MeasurementShape
    <3>2. Running[1] = "live"
      BY DEF Running
    <3> QED BY <3>1, <3>2
  <2>2. \A n \in Nodes, k \in 1..MaxEvals : att[<<n, k>>] = "none"
    BY <1>1, EvalAttempt
  <2>3. \A n \in Nodes : att[<<n, 0>>] = "none" /\ out[<<n, 0>>] = Running
    BY <1>1, FirstAttempt
  <2>4. exp \notin Ended
    BY <1>1 DEF Ended
  <2> QED BY <2>1, <2>2, <2>3, <2>4 DEF SoleWork
<1>3. SoleOrigin
  BY <1>1 DEF SoleOrigin
<1>4. task[h] = NoTask /\ watch[h] = {} /\ sweep[h] = 0 /\ pass[h] = NoPass
  BY DEF Init
<1>5. \A g \in Hosts : up[g] => g = h
  BY DEF Init
<1>6. SoleTask(task[h]) /\ SolePass(pass[h])
  BY <1>4, NoTaskSole, NoPassSole
<1>7. SoleWatch(h) /\ SoleLive(h)
  BY <1>1, <1>4 DEF SoleWatch, SoleLive
<1>8. exp # "active"
  BY <1>1
<1> QED BY <1>2, <1>3, <1>4, <1>5, <1>6, <1>7, <1>8 DEF SoleInv, SoleHost

LEMMA QuietSole ==
  ASSUME NEW h \in Hosts, SoleInv(h), UNCHANGED vars
  PROVE  SoleInv(h)'
<1>1. UNCHANGED <<setup, exp, best, node, branch, run, ev, res, dec, noted, att, sub, ledger, out,
                  up, task, watch, sweep, due, pass, esc>>
  BY DEF vars, record, memory
<1>2. SoleWork' /\ SoleOrigin'
  BY <1>1, SoleFacts, WorkKept, OriginKept
<1>3. SoleHost(h)'
  BY <1>1 DEF SoleInv, SoleHost, SoleTask, SoleWatch, SolePass, Context, SoleLive, SoleNode, Ahead,
              Doing, LiveAttempts
<1> QED BY <1>1, <1>2, <1>3 DEF SoleInv

\* Whoever acts, it is the one host there is.
LEMMA NextSole ==
  ASSUME Inv, Inv', NEW h \in Hosts, SoleInv(h), [Next]_vars
  PROVE  SoleInv(h)'
<1>1. CASE UNCHANGED vars
  BY <1>1, QuietSole
<1>2. ASSUME NEW a \in Attempts, RuntimeEnds(a) PROVE SoleInv(h)'
  BY <1>2, RuntimeEndsSole
<1>3. ASSUME NEW g \in Hosts, Admit(g) \/ Drive(g) \/ Crash(g) \/ Attach(g) \/ Wait(g)
      PROVE  g = h
  <2>1. up[g]
    BY <1>3 DEF Admit, Drive, Crash, Attach, Wait, Chain, Observe, Answer, Idle, At, Sweep, StartPass,
       Round, Realize, PlannerDeclines, Materialize, Confirm, Reject, Overtaken, SettleTraining,
       RecordResult, EndsUnmeasured, SettleTrainingRun, SettleUnmeasured, SettleEvaluationRun,
       ContinueToEvaluation, BeginCycle, StartEvaluationRun, CreateEvaluationAttempt, ReconcileNode, ReconcileRefused,
       ReadDecision, RecordDecision, DeferDecision, ExhaustBudget
  <2> QED BY <2>1, SoleActor
<1>4. ASSUME NEW g \in Hosts, Restart(g) PROVE g = h
  BY <1>4, SoleFacts DEF Restart
<1>5. CASE Admit(h) \/ Crash(h) \/ Restart(h) \/ Attach(h) \/ Wait(h)
  BY <1>5, AdmitSole, CrashSole, RestartSole, AttachSole, WaitSole
<1>6. CASE Chain(h)
  BY <1>6, SettleTrainingRunSole, SettleUnmeasuredSole, SettleEvaluationRunSole, ContinueSole,
     BeginCycleSole, StartEvaluationRunSole, CreateEvaluationAttemptSole, ReconcileNodeSole,
     ReconcileRefusedSole,
     ReadDecisionSole, RecordDecisionSole, DeferDecisionSole, ExhaustBudgetSole DEF Chain
<1>7. CASE Sweep(h) \/ StartPass(h) \/ Round(h) \/ Realize(h)
  BY <1>7, SweepSole, StartPassSole, RoundSole, RealizeSole
<1>8. CASE Answer(h)
  BY <1>8, PlannerDeclinesSole, MaterializeSole DEF Answer
<1>9. ASSUME NEW a \in Attempts, Confirm(h, a) \/ Reject(h, a) \/ Overtaken(h, a) \/ Observe(h, a)
      PROVE  SoleInv(h)'
  BY <1>9, ConfirmSole, RejectSole, OvertakenSole, SettleTrainingSole, RecordResultSole,
     EndsUnmeasuredSole DEF Observe
<1>10. CASE Drive(h)
  BY <1>6, <1>7, <1>8, <1>9, <1>10 DEF Drive
<1> QED BY <1>1, <1>2, <1>3, <1>4, <1>5, <1>10 DEF Next

SoleAlways == \A h \in Hosts : setup.hosts = {h} => SoleInv(h)

LEMMA SetupStays == [Next]_vars => setup' = setup
<1> SUFFICES ASSUME [Next]_vars PROVE setup' = setup
  OBVIOUS
<1>1. CASE UNCHANGED vars
  BY <1>1 DEF vars
<1>2. ASSUME NEW a \in Attempts, RuntimeEnds(a) PROVE setup' = setup
  BY <1>2 DEF RuntimeEnds
<1>3. ASSUME NEW h \in Hosts, Admit(h) \/ Crash(h) \/ Restart(h) \/ Attach(h) \/ Wait(h)
      PROVE  setup' = setup
  BY <1>3 DEF Admit, Crash, Restart, Attach, Wait
<1>4. ASSUME NEW h \in Hosts, Chain(h) PROVE setup' = setup
  BY <1>4 DEF Chain, Rest, SettleTrainingRun, SettleUnmeasured, SettleEvaluationRun,
     ContinueToEvaluation, BeginCycle, StartEvaluationRun, CreateEvaluationAttempt, ReconcileNode, ReconcileRefused,
     ReadDecision, RecordDecision, DeferDecision, ExhaustBudget
<1>5. ASSUME NEW h \in Hosts, Sweep(h) \/ StartPass(h) \/ Round(h) \/ Realize(h) \/ Answer(h)
      PROVE  setup' = setup
  BY <1>5 DEF Sweep, StartPass, Round, Realize, Answer, PlannerDeclines, Materialize
<1>6. ASSUME NEW h \in Hosts, NEW a \in Attempts,
             Confirm(h, a) \/ Reject(h, a) \/ Overtaken(h, a) \/ Observe(h, a)
      PROVE  setup' = setup
  BY <1>6 DEF Confirm, Reject, Overtaken, Observe, SettleTraining, RecordResult, EndsUnmeasured
<1> QED BY <1>1, <1>2, <1>3, <1>4, <1>5, <1>6 DEF Next, Drive

LEMMA SoleMeans ==
  ASSUME NEW h \in Hosts, SoleInv(h)
  PROVE  NothingLeftBehind
<1>1. TerminalMeansStopped
  BY SoleFacts DEF TerminalMeansStopped, SoleWork
<1>2. ASSUME exp = "active", AtRest(h)
      PROVE  /\ LiveAttempts = {}
             /\ \A n \in Nodes :
                  /\ ev[n] \notin {"created", "active"}
                  /\ node[n] \in {"evaluating", "deciding"} => noted[n]
                  /\ node[n] = "active" => run[n] # "succeeded"
                  /\ node[n] # "planned"
  <2>1. /\ up[h] /\ task[h].at = "idle" /\ watch[h] = {} /\ sweep[h] = 0
        /\ ~due[h] /\ pass[h].at = "none" /\ ~esc[h]
    BY <1>2 DEF AtRest, NoTask, NoPass
  <2>2. \A n \in Nodes : ~Ahead(h, n)
    BY <2>1 DEF Ahead
  <2>3. LiveAttempts = {}
    BY <2>1, <2>2, SoleFacts, AttemptParts DEF LiveAttempts, SoleLive
  <2>4. ASSUME NEW n \in Nodes
        PROVE  /\ ev[n] \notin {"created", "active"}
               /\ node[n] \in {"evaluating", "deciding"} => noted[n]
               /\ node[n] = "active" => run[n] # "succeeded"
               /\ node[n] # "planned"
    <3>1. SoleNode(h, n) /\ ~Ahead(h, n)
      BY <1>2, <2>2, SoleFacts
    <3>2. <<n, 1>> \in Attempts /\ att[<<n, 1>>] # "live"
      BY <2>3, EvalAttempt DEF LiveAttempts
    <3> QED BY <2>1, <3>1, <3>2 DEF SoleNode, Doing
  <2> QED BY <2>3, <2>4
<1>3. NothingForgotten
  BY <1>2, SoleFacts DEF NothingForgotten
<1> QED BY <1>1, <1>3 DEF NothingLeftBehind, AloneTerminalMeansStopped

\* An experiment one controller drives ends only when nothing it owns runs, and
\* whatever the crashes, once that controller is up and at rest nothing is left
\* for a restart to find: no live attempt, no open evaluation, no node between
\* two commits, no candidate planned and forgotten.
THEOREM LeftBehindTrue == Spec => []NothingLeftBehind
<1>1. Init => SoleAlways
  BY InitSole DEF SoleAlways
<1>2. Inv /\ Inv' /\ SoleAlways /\ [Next]_vars => SoleAlways'
  BY NextSole, SetupStays DEF SoleAlways
<1>3. SoleAlways => NothingLeftBehind
  <2>1. CASE Alone
    BY <2>1, SoleMeans DEF SoleAlways, Alone
  <2>2. CASE ~Alone
    BY <2>2 DEF NothingLeftBehind, AloneTerminalMeansStopped, NothingForgotten
  <2> QED BY <2>1, <2>2
<1> QED BY <1>1, <1>2, <1>3, Always, PTL DEF Spec
=============================================================================
