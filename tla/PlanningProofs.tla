--------------------------- MODULE PlanningProofs ---------------------------
(***************************************************************************)
(* Proofs about Planning, for any hosts, setups, planner, search space and *)
(* bounds: a planning round is answered once and every action proposal is  *)
(* one that a recorded answer made (JournalSound), no node is branched for *)
(* a candidate the experiment had, and a context is never proposed on in   *)
(* two ways by a model or by the rules.                                    *)
(*                                                                         *)
(* The journal is changed by three steps only, and each of them moves an   *)
(* invocation one revision on or adds one at the end (Extends).  What a    *)
(* host holds of an invocation is what the journal holds as long as the    *)
(* revision is the same, and a completed invocation does not move again    *)
(* (HoldsIn): that is what the revision guard of _update is for.           *)
(***************************************************************************)
EXTENDS Planning, WellFoundedInduction, TLAPS

-----------------------------------------------------------------------------
(* Sequences, whatever their elements are. *)

IsSequence(s) == s \in Seq({s[i] : i \in DOMAIN s})

LEMMA SequenceShape ==
  ASSUME NEW s, IsSequence(s)
  PROVE  Len(s) \in Nat /\ DOMAIN s = 1..Len(s)
BY DEF IsSequence

LEMMA AppendShape ==
  ASSUME NEW s, IsSequence(s), NEW e
  PROVE  /\ IsSequence(Append(s, e))
         /\ DOMAIN Append(s, e) = 1..(Len(s) + 1)
         /\ \A i \in 1..Len(s) : Append(s, e)[i] = s[i]
         /\ Append(s, e)[Len(s) + 1] = e
         /\ Len(Append(s, e)) = Len(s) + 1
<1> DEFINE T == {s[i] : i \in DOMAIN s} \cup {e}
           a == Append(s, e)
<1>1. s \in Seq(T) /\ e \in T
  BY DEF IsSequence
<1>2. /\ a \in Seq(T) /\ Len(a) = Len(s) + 1
      /\ \A i \in 1..Len(s) : a[i] = s[i]
      /\ a[Len(s) + 1] = e
      /\ Len(s) \in Nat /\ DOMAIN a = 1..(Len(s) + 1)
  BY <1>1
<1>3. a \in Seq({a[i] : i \in DOMAIN a})
  BY <1>2
<1> QED BY <1>2, <1>3 DEF IsSequence

LEMMA UpdateShape ==
  ASSUME NEW s, IsSequence(s), NEW i \in DOMAIN s, NEW e
  PROVE  /\ IsSequence([s EXCEPT ![i] = e])
         /\ DOMAIN [s EXCEPT ![i] = e] = DOMAIN s
         /\ Len([s EXCEPT ![i] = e]) = Len(s)
         /\ [s EXCEPT ![i] = e][i] = e
         /\ \A j \in DOMAIN s : j # i => [s EXCEPT ![i] = e][j] = s[j]
<1> DEFINE T == {s[j] : j \in DOMAIN s} \cup {e}
           u == [s EXCEPT ![i] = e]
<1>1. s \in Seq(T) /\ e \in T
  BY DEF IsSequence
<1>2. /\ u \in Seq(T) /\ DOMAIN u = DOMAIN s /\ Len(u) = Len(s)
      /\ u[i] = e /\ \A j \in DOMAIN s : j # i => u[j] = s[j]
  BY <1>1
<1>3. u \in Seq({u[j] : j \in DOMAIN u})
  <2> DEFINE R == {u[j] : j \in DOMAIN u}
  <2>1. u \in [1..Len(s) -> R] /\ Len(s) \in Nat
    <3>1. u = [j \in DOMAIN s |-> u[j]] /\ DOMAIN s = 1..Len(s) /\ Len(s) \in Nat
      BY <1>1
    <3>2. \A j \in DOMAIN s : u[j] \in R
      BY <1>2
    <3> HIDE DEF R, u, T
    <3> QED BY <3>1, <3>2
  <2> HIDE DEF R, u, T
  <2>2. u \in Seq(R)
    BY <2>1
  <2> QED BY <2>2 DEF R
<1>4. IsSequence(u)
  BY <1>3 DEF IsSequence
<1> HIDE DEF T
<1> QED BY <1>2, <1>4

\* latest_for_round names the last attempt of a round: a set of naturals with
\* a bound has a greatest element.
LEMMA GreatestExists ==
  ASSUME NEW n \in Nat, NEW S \in SUBSET (0..n), S # {}
  PROVE  \E x \in S : \A y \in S : x >= y
<1> DEFINE T == {n - x : x \in S}
           R == OpToRel(<, Nat)
<1>1. T \subseteq Nat /\ T # {}
  <2>1. \A x \in S : n - x \in Nat
    OBVIOUS
  <2> QED BY <2>1
<1>2. IsWellFoundedOn(R, Nat)
  BY NatLessThanWellFounded
<1>3. \E x \in T : \A y \in T : ~ (<<y, x>> \in R)
  BY <1>1, <1>2, WFMin
<1>4. PICK m \in T : \A y \in T : ~ (<<y, m>> \in R)
  BY <1>3
<1>5. PICK x \in S : m = n - x
  BY <1>4
<1>6. ASSUME NEW y \in S
      PROVE  x >= y
  <2>1. n - y \in T /\ ~ (<<n - y, m>> \in R)
    BY <1>4
  <2>2. ~(n - y < m)
    BY <2>1, <1>1, <1>4 DEF OpToRel
  <2> QED BY <2>2, <1>5
<1> QED BY <1>5, <1>6

LEMMA LatestIs ==
  ASSUME IsSequence(journal), NEW round
  PROVE  /\ Latest(round) \in {0} \cup RoundOf(round)
         /\ \A i \in RoundOf(round) : i <= Latest(round)
<1> DEFINE S == {0} \cup RoundOf(round)
<1>1. Len(journal) \in Nat /\ DOMAIN journal = 1..Len(journal)
  BY SequenceShape
<1>2. S \in SUBSET (0..Len(journal)) /\ S # {}
  BY <1>1 DEF RoundOf
<1>3. \E x \in S : \A y \in S : x >= y
  BY <1>1, <1>2, GreatestExists
<1>4. Max(S) \in S /\ \A y \in S : Max(S) >= y
  BY <1>3 DEF Max
<1>5. Max(S) \in 0..Len(journal) /\ \A i \in RoundOf(round) : i \in 0..Len(journal)
  BY <1>2, <1>4
<1> QED BY <1>4, <1>5, <1>1 DEF Latest

-----------------------------------------------------------------------------
(* The invariant. *)

\* An invocation of the journal, a node, and what a host holds, by their fields.
IsInvocation(x) ==
  x \in [round : {x.round}, req : {x.req}, rev : Nat, answer : {x.answer}, prop : {x.prop},
         status : Answered \cup {"INTENDED", "FAILED", "OUTCOME_UNKNOWN"}]

IsNode(n) ==
  n \in [cand : {n.cand}, parents : {n.parents}, origin : {n.origin}, value : {n.value},
         seeded : {n.seeded},
         status : {"PLANNED", "ACTIVE", "COMPLETED", "REJECTED", "STOPPED"}]

IsPass(p) ==
  p \in [ctx : {p.ctx}, inv : {p.inv}, prop : {p.prop}, round : {p.round},
         at : {"idle", "loop", "plan", "propose", "ask", "derive", "branch"}]

\* Only the last attempt of a round can be open or answered.
JournalInv(j) ==
  /\ IsSequence(j)
  /\ \A i \in DOMAIN j : IsInvocation(j[i])
  /\ \A i, k \in DOMAIN j :
       i < k /\ j[i].round = j[k].round => j[i].status \in {"FAILED", "OUTCOME_UNKNOWN"}

\* What a host holds of an invocation of its round: the journal's record of it
\* as it was at that revision, and as it is for good once it is completed.
HoldsIn(inv, round, j) ==
  /\ inv.at \in DOMAIN j /\ j[inv.at].round = round
  /\ inv.rev \in Nat /\ inv.rev <= j[inv.at].rev
  /\ inv.rev = j[inv.at].rev =>
       /\ inv.status = j[inv.at].status /\ inv.answer = j[inv.at].answer
       /\ inv.prop = j[inv.at].prop
  /\ inv.status = "COMPLETED" => inv.rev = j[inv.at].rev

PassInv(h) ==
  /\ IsPass(pass[h])
  /\ pass[h].at \in {"ask", "derive"} =>
       setup.kind = "llm" /\ HoldsIn(pass[h].inv, ModelContext(pass[h].ctx), journal)
  /\ pass[h].at = "ask" => pass[h].inv.status = "INTENDED"
  /\ pass[h].at = "derive" => pass[h].inv.status \in Answered

OnRecord(x, j) ==
  \E i \in DOMAIN j :
    /\ j[i].status = "COMPLETED" /\ j[i].answer = "act"
    /\ j[i].round = x[1] /\ j[i].prop = x[2]

NodesInv ==
  /\ IsSequence(nodes)
  /\ \A i \in DOMAIN nodes : IsNode(nodes[i])
  /\ BranchesAreNew

Shapes ==
  /\ setup \in Setups /\ exp \in {"ACTIVE", "SUCCEEDED", "BUDGET_EXHAUSTED"}
  /\ build \in [Hosts -> Builds]
  /\ pass = [h \in Hosts |-> pass[h]]

PlanningInv ==
  /\ Shapes /\ NodesInv /\ JournalInv(journal)
  /\ \A h \in Hosts : PassInv(h)
  /\ setup.kind = "llm" => \A x \in proposed : OnRecord(x, journal)

LEMMA InvIsSound == PlanningInv => JournalSound /\ BranchesAreNew
<1> SUFFICES ASSUME PlanningInv PROVE JournalSound /\ BranchesAreNew
  OBVIOUS
<1>1. TypeOK
  BY DEF PlanningInv, Shapes, NodesInv, IsNode, JournalInv, IsInvocation, PassInv, IsPass, TypeOK
<1>2. AnsweredOnce
  BY DEF PlanningInv, JournalInv, AnsweredOnce
<1>3. ProposalsOnRecord
  BY DEF PlanningInv, OnRecord, ProposalsOnRecord
<1> QED BY <1>1, <1>2, <1>3 DEF JournalSound, PlanningInv, NodesInv

LEMMA InitInv == Init => PlanningInv
<1> SUFFICES ASSUME Init PROVE PlanningInv
  OBVIOUS
<1>1. Shapes
  BY DEF Init, Shapes, Builds
<1>2. NodesInv
  <2> DEFINE n == Node(Base, {}, NoOrigin, "ACTIVE", setup.seeded)
  <2>1. IsNode(n)
    BY DEF IsNode, Node
  <2>2. nodes = <<n>> /\ DOMAIN nodes = {1} /\ nodes[1] = n
    BY DEF Init
  <2> HIDE DEF n
  <2>3. IsSequence(nodes)
    BY <2>2 DEF IsSequence
  <2> QED BY <2>1, <2>2, <2>3 DEF NodesInv, BranchesAreNew
<1>3. JournalInv(journal)
  BY DEF Init, JournalInv, IsSequence
<1>4. \A h \in Hosts : PassInv(h)
  BY DEF Init, PassInv, IsPass, Idle
<1>5. proposed = {}
  BY DEF Init
<1> QED BY <1>1, <1>2, <1>3, <1>4, <1>5 DEF PlanningInv

-----------------------------------------------------------------------------
(* The journal goes on. *)

Extends(j, k) ==
  /\ DOMAIN j \subseteq DOMAIN k
  /\ \A i \in DOMAIN j :
       \/ k[i] = j[i]
       \/ /\ k[i].round = j[i].round /\ k[i].rev = j[i].rev + 1
          /\ j[i].status \in {"INTENDED", "ANSWERED"}

LEMMA StillHolds ==
  ASSUME NEW j, NEW k, JournalInv(j), JournalInv(k), Extends(j, k),
         NEW inv, NEW round, HoldsIn(inv, round, j)
  PROVE  HoldsIn(inv, round, k)
BY DEF JournalInv, IsInvocation, Extends, HoldsIn

LEMMA StillOnRecord ==
  ASSUME NEW j, NEW k, Extends(j, k), NEW x, OnRecord(x, j)
  PROVE  OnRecord(x, k)
BY DEF Extends, OnRecord

LEMMA Unextended == \A j : Extends(j, j)
BY DEF Extends

\* A step of host h that leaves the other hosts' passes alone.
LEMMA PassStep ==
  ASSUME PlanningInv, NEW h \in Hosts, NEW p,
         pass' = [pass EXCEPT ![h] = p], UNCHANGED setup,
         JournalInv(journal'), Extends(journal, journal'),
         IsPass(p),
         p.at \in {"ask", "derive"} =>
           setup.kind = "llm" /\ HoldsIn(p.inv, ModelContext(p.ctx), journal'),
         p.at = "ask" => p.inv.status = "INTENDED",
         p.at = "derive" => p.inv.status \in Answered
  PROVE  /\ pass' = [g \in Hosts |-> pass'[g]]
         /\ \A g \in Hosts : PassInv(g)'
<1>1. /\ pass' = [g \in Hosts |-> pass'[g]] /\ pass'[h] = p
      /\ \A g \in Hosts : g # h => pass'[g] = pass[g]
  BY DEF PlanningInv, Shapes
<1>2. PassInv(h)'
  BY <1>1 DEF PassInv
<1>3. ASSUME NEW g \in Hosts, g # h
      PROVE  PassInv(g)'
  <2>1. pass'[g] = pass[g] /\ PassInv(g) /\ JournalInv(journal)
    BY <1>1, <1>3 DEF PlanningInv
  <2>2. pass[g].at \in {"ask", "derive"} => HoldsIn(pass[g].inv, ModelContext(pass[g].ctx), journal')
    BY <2>1, StillHolds DEF PassInv
  <2> QED BY <2>1, <2>2 DEF PassInv
<1> QED BY <1>1, <1>2, <1>3

\* Leaving and escalating forget what the host held.
LEMMA LeaveStep ==
  ASSUME PlanningInv, NEW h \in Hosts, Leave(h), UNCHANGED setup,
         JournalInv(journal'), Extends(journal, journal')
  PROVE  /\ pass' = [g \in Hosts |-> pass'[g]]
         /\ \A g \in Hosts : PassInv(g)'
<1>1. IsPass(Idle) /\ Idle.at = "idle"
  BY DEF Idle, IsPass
<1> HIDE DEF Idle
<1> QED BY <1>1, PassStep DEF Leave

LEMMA StayStep ==
  ASSUME PlanningInv, UNCHANGED <<pass, journal, setup>>
  PROVE  /\ pass' = [g \in Hosts |-> pass'[g]]
         /\ \A g \in Hosts : PassInv(g)'
BY DEF PlanningInv, Shapes, PassInv

-----------------------------------------------------------------------------
(* The steps that write the journal. *)

\* Moving an open or answered invocation keeps the journal: it is the last of
\* its round, for the others before it are closed.
LEMMA MovedKeeps ==
  ASSUME JournalInv(journal), NEW inv, inv.at \in DOMAIN journal,
         journal[inv.at].status \in {"INTENDED", "ANSWERED"},
         NEW s \in Answered \cup {"FAILED"}, NEW answer, NEW prop,
         NEW k, k = Moved(inv, s, answer, prop)
  PROVE  /\ JournalInv(k) /\ Extends(journal, k) /\ DOMAIN k = DOMAIN journal
         /\ k[inv.at].round = journal[inv.at].round /\ k[inv.at].rev \in Nat
         /\ k[inv.at].status = s /\ k[inv.at].answer = answer /\ k[inv.at].prop = prop
<1>a. PICK a : a = inv.at
  OBVIOUS
<1>e. PICK e : e = [journal[a] EXCEPT !.status = s, !.rev = @ + 1, !.answer = answer, !.prop = prop]
  OBVIOUS
<1>1. /\ IsSequence(k) /\ DOMAIN k = DOMAIN journal /\ k[a] = e
      /\ \A i \in DOMAIN journal : i # a => k[i] = journal[i]
  <2>1. k = [journal EXCEPT ![a] = e]
    BY <1>a, <1>e DEF Moved
  <2>2. IsSequence(journal) /\ a \in DOMAIN journal
    BY <1>a DEF JournalInv
  <2>3. /\ IsSequence([journal EXCEPT ![a] = e])
        /\ DOMAIN [journal EXCEPT ![a] = e] = DOMAIN journal
        /\ [journal EXCEPT ![a] = e][a] = e
        /\ \A j \in DOMAIN journal : j # a => [journal EXCEPT ![a] = e][j] = journal[j]
    BY <2>2, UpdateShape, Zenon
  <2> QED BY <2>1, <2>3, Zenon
<1>2. /\ IsInvocation(e) /\ e.round = journal[a].round /\ e.rev = journal[a].rev + 1
      /\ e.status = s /\ e.answer = answer /\ e.prop = prop
  <2>1. IsInvocation(journal[a])
    BY <1>a DEF JournalInv
  <2>2. PICK x : x = journal[a]
    OBVIOUS
  <2>3. e = [x EXCEPT !.status = s, !.rev = @ + 1, !.answer = answer, !.prop = prop]
    BY <2>2, <1>e
  <2>4. IsInvocation(x)
    BY <2>1, <2>2
  <2>5. /\ IsInvocation(e) /\ e.round = x.round /\ e.rev = x.rev + 1
        /\ e.status = s /\ e.answer = answer /\ e.prop = prop
    <3>1. /\ e.round = x.round /\ e.rev = x.rev + 1 /\ e.rev \in Nat
          /\ e.status = s /\ e.answer = answer /\ e.prop = prop
      BY <2>3, <2>4 DEF IsInvocation
    <3>2. s \in Answered \cup {"INTENDED", "FAILED", "OUTCOME_UNKNOWN"}
      OBVIOUS
    <3>3. IsInvocation(e)
      BY <2>3, <2>4, <3>1, <3>2 DEF IsInvocation
    <3> QED BY <3>1, <3>3
  <2> QED BY <2>2, <2>5
<1>3. e.rev \in Nat
  BY <1>2 DEF IsInvocation
<1>4. JournalInv(k)
  <2>1. \A i \in DOMAIN k : IsInvocation(k[i])
    BY <1>1, <1>2 DEF JournalInv
  <2>2. ASSUME NEW i \in DOMAIN k, NEW l \in DOMAIN k, i < l, k[i].round = k[l].round
        PROVE  k[i].status \in {"FAILED", "OUTCOME_UNKNOWN"}
    <3>1. journal[i].round = journal[l].round
      BY <1>1, <1>2, <2>2
    <3>2. journal[i].status \in {"FAILED", "OUTCOME_UNKNOWN"}
      BY <3>1, <1>1, <2>2 DEF JournalInv
    <3> QED BY <3>2, <1>1, <1>a
  <2> QED BY <2>1, <2>2, <1>1 DEF JournalInv
<1>5. Extends(journal, k)
  BY <1>a, <1>1, <1>2 DEF Extends
<1> QED BY <1>a, <1>1, <1>2, <1>3, <1>4, <1>5

LEMMA SettleStep ==
  ASSUME PlanningInv, NEW h \in Hosts, UNCHANGED setup,
         pass[h].at \in {"ask", "derive"}, pass[h].inv.status \in {"INTENDED", "ANSWERED"},
         NEW s \in Answered \cup {"FAILED"}, NEW answer, NEW prop,
         NEW next \in {"escalate", "derive"}, next = "derive" => s \in Answered,
         Settle(h, s, answer, prop, next)
  PROVE  /\ JournalInv(journal') /\ Extends(journal, journal')
         /\ pass' = [g \in Hosts |-> pass'[g]]
         /\ \A g \in Hosts : PassInv(g)'
<1> DEFINE inv == pass[h].inv
           round == ModelContext(pass[h].ctx)
<1>0. /\ JournalInv(journal) /\ IsPass(pass[h]) /\ HoldsIn(inv, round, journal)
      /\ setup.kind = "llm"
  BY DEF PlanningInv, PassInv
<1>1. CASE ~Unmoved(inv)
  <2>1. Leave(h) /\ journal' = journal
    BY <1>1 DEF Settle
  <2> QED BY <2>1, <1>0, LeaveStep, Unextended
<1>2. CASE Unmoved(inv)
  <2> DEFINE k == Moved(inv, s, answer, prop)
  <2>1. inv.at \in DOMAIN journal /\ journal[inv.at].status \in {"INTENDED", "ANSWERED"}
    BY <1>0, <1>2 DEF HoldsIn, Unmoved
  <2>2. /\ JournalInv(k) /\ Extends(journal, k) /\ DOMAIN k = DOMAIN journal
        /\ k[inv.at].round = journal[inv.at].round /\ k[inv.at].rev \in Nat
        /\ k[inv.at].status = s
    <3> HIDE DEF k, inv
    <3> QED BY <2>1, <1>0, MovedKeeps DEF k
  <2>3. journal' = k
    BY <1>2 DEF Settle
  <2>4. CASE next = "escalate"
    <3>1. Leave(h)
      BY <1>2, <2>4 DEF Settle, Escalate
    <3> QED BY <3>1, <2>2, <2>3, LeaveStep
  <2>5. CASE next = "derive"
    <3> DEFINE held == Held(k, inv.at)
               p == [pass[h] EXCEPT !.at = next, !.inv = held]
    <3>1. pass' = [pass EXCEPT ![h] = p]
      BY <1>2, <2>3, <2>5 DEF Settle, Goto
    <3>2. IsPass(p) /\ p.at = "derive" /\ p.inv = held /\ p.ctx = pass[h].ctx
      BY <1>0, <2>5 DEF IsPass
    <3>3. HoldsIn(held, round, k) /\ held.status = s
      <4>1. k[inv.at].round = round
        BY <2>1, <2>2, <1>0 DEF HoldsIn
      <4> HIDE DEF k, inv, round
      <4>2. /\ held.at = inv.at /\ held.rev = k[inv.at].rev /\ held.status = k[inv.at].status
            /\ held.answer = k[inv.at].answer /\ held.prop = k[inv.at].prop
        BY DEF Held
      <4> HIDE DEF held
      <4> QED BY <4>1, <4>2, <2>1, <2>2 DEF HoldsIn
    <3> HIDE DEF k, held, p
    <3> QED BY <1>0, <3>1, <3>2, <3>3, <2>2, <2>3, <2>5, PassStep
  <2> QED BY <2>2, <2>3, <2>4, <2>5
<1> QED BY <1>1, <1>2

\* What is left once the journal, the passes and the proposals are accounted for.
LEMMA Together ==
  ASSUME PlanningInv, UNCHANGED setup, NodesInv', exp' \in {"ACTIVE", "SUCCEEDED", "BUDGET_EXHAUSTED"},
         build' \in [Hosts -> Builds],
         JournalInv(journal'), Extends(journal, journal'),
         pass' = [g \in Hosts |-> pass'[g]], \A g \in Hosts : PassInv(g)',
         setup.kind = "llm" => \A x \in proposed' : x \in proposed \/ OnRecord(x, journal')
  PROVE  PlanningInv'
<1>1. Shapes'
  BY DEF PlanningInv, Shapes
<1>2. setup.kind = "llm" => \A x \in proposed' : OnRecord(x, journal')
  BY StillOnRecord DEF PlanningInv
<1> QED BY <1>1, <1>2 DEF PlanningInv

LEMMA AskKeeps ==
  ASSUME PlanningInv, NEW h \in Hosts, Ask(h)
  PROVE  PlanningInv'
<1>1. pass[h].at = "ask" /\ pass[h].inv.status = "INTENDED"
  BY DEF Ask, At, PlanningInv, PassInv
<1>2. /\ JournalInv(journal') /\ Extends(journal, journal')
      /\ pass' = [g \in Hosts |-> pass'[g]] /\ \A g \in Hosts : PassInv(g)'
  <2>1. PICK a \in Replies :
          CASE a = "none" -> Settle(h, "FAILED", a, NoProposal, "escalate")
            [] a = "malformed" -> Settle(h, "REFUSED", a, NoProposal, "escalate")
            [] a \notin {"none", "malformed"} /\ ~served[h] ->
                 Settle(h, "FAILED", a, NoProposal, "escalate")
            [] OTHER -> Settle(h, "ANSWERED", a, NoProposal, "derive")
    BY DEF Ask
  <2>2. UNCHANGED setup
    BY DEF Ask
  <2>3. CASE Settle(h, "FAILED", a, NoProposal, "escalate")
    BY <2>2, <2>3, <1>1, SettleStep
  <2>4. CASE Settle(h, "REFUSED", a, NoProposal, "escalate")
    BY <2>2, <2>4, <1>1, SettleStep DEF Answered
  <2>5. CASE Settle(h, "ANSWERED", a, NoProposal, "derive")
    BY <2>2, <2>5, <1>1, SettleStep DEF Answered
  <2> QED BY <2>1, <2>3, <2>4, <2>5
<1>3. UNCHANGED <<setup, exp, nodes, build, proposed>>
  BY DEF Ask
<1>4. NodesInv' /\ exp' \in {"ACTIVE", "SUCCEEDED", "BUDGET_EXHAUSTED"} /\ build' \in [Hosts -> Builds]
  BY <1>3 DEF PlanningInv, Shapes, NodesInv, BranchesAreNew
<1> QED BY <1>2, <1>3, <1>4, Together

\* next_invocation: closing the last attempt if it is open.
LEMMA ClosedIs ==
  ASSUME JournalInv(journal), NEW last \in {0} \cup DOMAIN journal, NEW c, c = Closed(last)
  PROVE  /\ IsSequence(c) /\ DOMAIN c = DOMAIN journal /\ Len(c) = Len(journal)
         /\ \A i \in DOMAIN journal :
              \/ c[i] = journal[i] /\ (i = last => journal[i].status # "INTENDED")
              \/ /\ i = last /\ journal[i].status = "INTENDED" /\ IsInvocation(c[i])
                 /\ c[i].round = journal[i].round /\ c[i].rev = journal[i].rev + 1
                 /\ c[i].status = "OUTCOME_UNKNOWN"
<1>0. IsSequence(journal) /\ Len(journal) \in Nat /\ DOMAIN journal = 1..Len(journal)
  BY SequenceShape DEF JournalInv
<1>1. CASE last # 0 /\ journal[last].status = "INTENDED"
  <2>1. PICK x : x = journal[last]
    OBVIOUS
  <2>2. PICK e : e = [x EXCEPT !.status = "OUTCOME_UNKNOWN", !.rev = @ + 1]
    OBVIOUS
  <2>3. IsInvocation(x) /\ last \in DOMAIN journal
    BY <1>1, <2>1 DEF JournalInv
  <2>4. /\ IsInvocation(e) /\ e.round = x.round /\ e.rev = x.rev + 1
        /\ e.status = "OUTCOME_UNKNOWN"
    <3>1. /\ e.round = x.round /\ e.rev = x.rev + 1 /\ e.rev \in Nat
          /\ e.status = "OUTCOME_UNKNOWN"
      BY <2>2, <2>3 DEF IsInvocation
    <3>2. IsInvocation(e)
      BY <2>2, <2>3, <3>1 DEF IsInvocation
    <3> QED BY <3>1, <3>2
  <2>5. c = [journal EXCEPT ![last] = e]
    BY <1>1, <2>1, <2>2, <2>3 DEF Closed
  <2>6. /\ IsSequence([journal EXCEPT ![last] = e])
        /\ DOMAIN [journal EXCEPT ![last] = e] = DOMAIN journal
        /\ Len([journal EXCEPT ![last] = e]) = Len(journal)
        /\ [journal EXCEPT ![last] = e][last] = e
        /\ \A j \in DOMAIN journal : j # last => [journal EXCEPT ![last] = e][j] = journal[j]
    BY <1>0, <2>3, UpdateShape, Zenon
  <2>7. /\ IsSequence(c) /\ DOMAIN c = DOMAIN journal /\ Len(c) = Len(journal) /\ c[last] = e
        /\ \A j \in DOMAIN journal : j # last => c[j] = journal[j]
    BY <2>5, <2>6, Zenon
  <2> QED BY <1>1, <2>1, <2>4, <2>7
<1>2. CASE ~(last # 0 /\ journal[last].status = "INTENDED")
  <2>1. c = journal
    BY <1>2 DEF Closed
  <2> QED BY <1>0, <1>2, <2>1
<1> QED BY <1>1, <1>2

\* begin_agent_invocation adds an attempt to a round none of whose attempts is
\* open or answered then.
LEMMA BeginAppends ==
  ASSUME JournalInv(journal), NEW round, NEW req, NEW last, last = Latest(round),
         last # 0 => journal[last].status \notin Answered,
         NEW k, k = Append(Closed(last), Invocation(round, req))
  PROVE  /\ JournalInv(k) /\ Extends(journal, k)
         /\ Len(journal) + 1 \in DOMAIN k
         /\ k[Len(journal) + 1] = Invocation(round, req)
<1>0. IsSequence(journal) /\ Len(journal) \in Nat /\ DOMAIN journal = 1..Len(journal)
  BY SequenceShape DEF JournalInv
<1>1. last \in {0} \cup RoundOf(round) /\ \A i \in RoundOf(round) : i <= last
  BY <1>0, LatestIs
<1>2. PICK c : c = Closed(last)
  OBVIOUS
<1>3. PICK n : n = Invocation(round, req)
  OBVIOUS
<1>4. IsInvocation(n) /\ n.round = round /\ n.status = "INTENDED"
  BY <1>3 DEF Invocation, IsInvocation
<1>5. /\ IsSequence(c) /\ DOMAIN c = DOMAIN journal /\ Len(c) = Len(journal)
      /\ \A i \in DOMAIN journal :
           \/ c[i] = journal[i] /\ (i = last => journal[i].status # "INTENDED")
           \/ /\ i = last /\ journal[i].status = "INTENDED" /\ IsInvocation(c[i])
              /\ c[i].round = journal[i].round /\ c[i].rev = journal[i].rev + 1
              /\ c[i].status = "OUTCOME_UNKNOWN"
  <2>1. last \in {0} \cup DOMAIN journal
    BY <1>1 DEF RoundOf
  <2> QED BY <1>2, <2>1, ClosedIs
<1>6. /\ IsSequence(k) /\ DOMAIN k = 1..(Len(journal) + 1) /\ k[Len(journal) + 1] = n
      /\ \A i \in DOMAIN journal : k[i] = c[i]
  <2>1. k = Append(c, n)
    BY <1>2, <1>3
  <2> QED BY <2>1, <1>0, <1>5, AppendShape
<1>7. \A i \in DOMAIN journal : IsInvocation(journal[i])
  BY DEF JournalInv
<1>8. \A i \in DOMAIN journal : journal[i].round = round => c[i].status \in {"FAILED", "OUTCOME_UNKNOWN"}
  <2> SUFFICES ASSUME NEW i \in DOMAIN journal, journal[i].round = round
               PROVE  c[i].status \in {"FAILED", "OUTCOME_UNKNOWN"}
    OBVIOUS
  <2>1. i \in RoundOf(round) /\ i <= last /\ last \in DOMAIN journal /\ last # 0
        /\ journal[last].round = round
    BY <1>0, <1>1 DEF RoundOf
  <2>2. CASE i < last
    <3>1. journal[i].status \in {"FAILED", "OUTCOME_UNKNOWN"}
      BY <2>1, <2>2 DEF JournalInv
    <3> QED BY <3>1, <1>5
  <2>3. CASE i = last
    <3>1. journal[i].status \in {"INTENDED", "FAILED", "OUTCOME_UNKNOWN"}
      BY <2>1, <2>3, <1>7 DEF IsInvocation
    <3> QED BY <3>1, <1>5, <2>3
  <2> QED BY <1>0, <2>1, <2>2, <2>3
<1>9. JournalInv(k)
  <2>1. \A i \in DOMAIN k : IsInvocation(k[i])
    BY <1>0, <1>4, <1>5, <1>6, <1>7
  <2>2. ASSUME NEW i \in DOMAIN k, NEW l \in DOMAIN k, i < l, k[i].round = k[l].round
        PROVE  k[i].status \in {"FAILED", "OUTCOME_UNKNOWN"}
    <3>1. i \in DOMAIN journal /\ k[i] = c[i] /\ c[i].round = journal[i].round
      BY <1>0, <1>5, <1>6, <2>2
    <3>2. CASE l = Len(journal) + 1
      BY <3>1, <3>2, <1>4, <1>6, <1>8, <2>2
    <3>3. CASE l \in DOMAIN journal
      <4>1. journal[i].round = journal[l].round
        BY <3>1, <3>3, <1>5, <1>6, <2>2
      <4>2. journal[i].status \in {"FAILED", "OUTCOME_UNKNOWN"}
        BY <4>1, <3>1, <3>3, <2>2 DEF JournalInv
      <4> QED BY <4>2, <3>1, <1>5
    <3> QED BY <3>2, <3>3, <1>0, <1>6
  <2> QED BY <2>1, <2>2, <1>6 DEF JournalInv
<1>10. Extends(journal, k)
  BY <1>0, <1>5, <1>6 DEF Extends
<1> QED BY <1>0, <1>3, <1>6, <1>9, <1>10

LEMMA BeginKeeps ==
  ASSUME PlanningInv, NEW h \in Hosts, Begin(h)
  PROVE  PlanningInv'
<1>0. UNCHANGED <<setup, exp, nodes, build, proposed>>
  BY DEF Begin
<1>1. JournalInv(journal) /\ IsPass(pass[h]) /\ setup.kind = "llm"
  BY DEF PlanningInv, PassInv, Begin
<1>2. PICK ctx : ctx = pass[h].ctx
  OBVIOUS
<1>3. PICK last : last = Latest(ModelContext(ctx))
  OBVIOUS
<1>4. PICK req : req = Request(h, ctx)
  OBVIOUS
<1>5. \/ Leave(h) /\ journal' = journal
      \/ /\ last # 0 /\ journal[last].status \in Answered
         /\ Goto(h, [pass[h] EXCEPT !.at = "derive", !.inv = Held(journal, last)])
         /\ journal' = journal
      \/ /\ last # 0 => journal[last].status \notin Answered
         /\ journal' = Append(Closed(last), Invocation(ModelContext(ctx), req))
         /\ Goto(h, [pass[h] EXCEPT !.at = "ask", !.inv = Held(journal', Len(journal) + 1)])
  BY <1>2, <1>3, <1>4 DEF Begin, Escalate
<1>6. /\ JournalInv(journal') /\ Extends(journal, journal')
      /\ pass' = [g \in Hosts |-> pass'[g]] /\ \A g \in Hosts : PassInv(g)'
  <2>1. CASE Leave(h) /\ journal' = journal
    BY <2>1, <1>0, <1>1, LeaveStep, Unextended
  <2>2. CASE /\ last # 0 /\ journal[last].status \in Answered
             /\ Goto(h, [pass[h] EXCEPT !.at = "derive", !.inv = Held(journal, last)])
             /\ journal' = journal
    <3>1. last \in DOMAIN journal /\ journal[last].round = ModelContext(ctx)
      BY <2>2, <1>1, <1>3, LatestIs DEF RoundOf, JournalInv
    <3>2. PICK v : v = Held(journal, last)
      OBVIOUS
    <3>3. HoldsIn(v, ModelContext(ctx), journal) /\ v.status \in Answered
      <4>1. /\ v.at = last /\ v.rev = journal[last].rev /\ v.status = journal[last].status
            /\ v.answer = journal[last].answer /\ v.prop = journal[last].prop
        BY <3>2 DEF Held
      <4>2. journal[last].rev \in Nat
        BY <3>1, <1>1 DEF JournalInv, IsInvocation
      <4> QED BY <4>1, <4>2, <3>1, <2>2 DEF HoldsIn
    <3>4. PICK p : p = [pass[h] EXCEPT !.at = "derive", !.inv = v]
      OBVIOUS
    <3>5. IsPass(p) /\ p.at = "derive" /\ p.inv = v /\ p.ctx = ctx
      BY <3>4, <1>1, <1>2 DEF IsPass
    <3>6. pass' = [pass EXCEPT ![h] = p]
      BY <2>2, <3>2, <3>4 DEF Goto
    <3> QED BY <3>3, <3>5, <3>6, <2>2, <1>0, <1>1, PassStep, Unextended
  <2>3. CASE /\ last # 0 => journal[last].status \notin Answered
             /\ journal' = Append(Closed(last), Invocation(ModelContext(ctx), req))
             /\ Goto(h, [pass[h] EXCEPT !.at = "ask", !.inv = Held(journal', Len(journal) + 1)])
    <3>1. PICK k : k = journal'
      OBVIOUS
    <3>2. PICK n : n = Len(journal) + 1
      OBVIOUS
    <3>3. PICK round : round = ModelContext(ctx)
      OBVIOUS
    <3>4. /\ JournalInv(k) /\ Extends(journal, k) /\ n \in DOMAIN k
          /\ k[n] = Invocation(round, req)
      BY <2>3, <3>1, <3>2, <3>3, <1>1, <1>3, BeginAppends
    <3>5. PICK v : v = Held(k, n)
      OBVIOUS
    <3>6. HoldsIn(v, round, k) /\ v.status = "INTENDED"
      <4>1. k[n].round = round /\ k[n].rev = 0 /\ k[n].status = "INTENDED"
        BY <3>4 DEF Invocation
      <4>2. /\ v.at = n /\ v.rev = k[n].rev /\ v.status = k[n].status
            /\ v.answer = k[n].answer /\ v.prop = k[n].prop
        BY <3>5 DEF Held
      <4> QED BY <4>1, <4>2, <3>4 DEF HoldsIn
    <3>7. PICK p : p = [pass[h] EXCEPT !.at = "ask", !.inv = v]
      OBVIOUS
    <3>8. IsPass(p) /\ p.at = "ask" /\ p.inv = v /\ p.ctx = ctx
      BY <3>7, <1>1, <1>2 DEF IsPass
    <3>9. pass' = [pass EXCEPT ![h] = p]
      BY <2>3, <3>1, <3>2, <3>5, <3>7 DEF Goto
    <3> QED BY <3>1, <3>3, <3>4, <3>6, <3>8, <3>9, <1>0, <1>1, PassStep
  <2> QED BY <1>5, <2>1, <2>2, <2>3
<1>7. NodesInv' /\ exp' \in {"ACTIVE", "SUCCEEDED", "BUDGET_EXHAUSTED"} /\ build' \in [Hosts -> Builds]
  BY <1>0 DEF PlanningInv, Shapes, NodesInv, BranchesAreNew
<1> QED BY <1>0, <1>6, <1>7, Together

LEMMA DeriveKeeps ==
  ASSUME PlanningInv, NEW h \in Hosts, Derive(h)
  PROVE  PlanningInv'
<1>0. UNCHANGED <<setup, exp, nodes, build>>
  BY DEF Derive
<1>1. PICK inv : inv = pass[h].inv
  OBVIOUS
<1>2. PICK p : p = Derived(h, inv.answer)
  OBVIOUS
<1>3. /\ pass[h].at = "derive" /\ inv.status \in Answered /\ JournalInv(journal)
      /\ HoldsIn(inv, ModelContext(pass[h].ctx), journal)
  BY <1>1 DEF Derive, At, PlanningInv, PassInv
<1>4. \/ /\ inv.status = "ANSWERED" /\ proposed' = proposed
         /\ \/ Settle(h, "REFUSED", inv.answer, NoProposal, "escalate")
            \/ Settle(h, "COMPLETED", inv.answer, p, "derive")
      \/ Leave(h) /\ journal' = journal /\ proposed' = proposed
      \/ /\ inv.status = "COMPLETED" /\ inv.prop = p /\ p # NoProposal
         /\ Report(h, p) /\ journal' = journal
  BY <1>1, <1>2, <1>3 DEF Derive, Escalate, Answered
<1>5. /\ JournalInv(journal') /\ Extends(journal, journal')
      /\ pass' = [g \in Hosts |-> pass'[g]] /\ \A g \in Hosts : PassInv(g)'
  <2>1. CASE inv.status = "ANSWERED" /\ Settle(h, "REFUSED", inv.answer, NoProposal, "escalate")
    BY <2>1, <1>0, <1>1, <1>3, SettleStep DEF Answered
  <2>2. CASE inv.status = "ANSWERED" /\ Settle(h, "COMPLETED", inv.answer, p, "derive")
    BY <2>2, <1>0, <1>1, <1>3, SettleStep DEF Answered
  <2>3. CASE Leave(h) /\ journal' = journal
    BY <2>3, <1>0, <1>3, LeaveStep, Unextended
  <2> QED BY <1>4, <2>1, <2>2, <2>3 DEF Report, Escalate
<1>6. \A x \in proposed' : x \in proposed \/ OnRecord(x, journal')
  <2>1. CASE proposed' = proposed
    BY <2>1
  <2>2. CASE inv.status = "COMPLETED" /\ inv.prop = p /\ p # NoProposal /\ Report(h, p) /\ journal' = journal
    <3>1. PICK round : round = ModelContext(pass[h].ctx)
      OBVIOUS
    <3>2. /\ inv.at \in DOMAIN journal /\ journal[inv.at].round = round
          /\ journal[inv.at].status = "COMPLETED" /\ journal[inv.at].answer = inv.answer
          /\ journal[inv.at].prop = p
      BY <2>2, <1>3, <3>1 DEF HoldsIn
    <3>3. inv.answer = "act" /\ p.round = round
      BY <1>2, <2>2, <3>1 DEF Derived, NoProposal
    <3>4. proposed' = proposed \cup {<<round, p>>}
      BY <2>2, <3>3 DEF Report
    <3>5. OnRecord(<<round, p>>, journal')
      BY <2>2, <3>2, <3>3 DEF OnRecord
    <3> QED BY <3>4, <3>5
  <2> QED BY <1>4, <2>1, <2>2
<1>7. NodesInv' /\ exp' \in {"ACTIVE", "SUCCEEDED", "BUDGET_EXHAUSTED"} /\ build' \in [Hosts -> Builds]
  BY <1>0 DEF PlanningInv, Shapes, NodesInv, BranchesAreNew
<1> QED BY <1>0, <1>5, <1>6, <1>7, Together

-----------------------------------------------------------------------------
(* The steps that write nodes. *)

\* A node that moves is the node it was.
LEMMA NodeMoves ==
  ASSUME NodesInv, NEW i \in DOMAIN nodes, NEW n, IsNode(n), n.cand = nodes[i].cand,
         n.origin = nodes[i].origin, nodes' = [nodes EXCEPT ![i] = n]
  PROVE  NodesInv'
<1>1. /\ IsSequence([nodes EXCEPT ![i] = n])
      /\ DOMAIN [nodes EXCEPT ![i] = n] = DOMAIN nodes
      /\ [nodes EXCEPT ![i] = n][i] = n
      /\ \A j \in DOMAIN nodes : j # i => [nodes EXCEPT ![i] = n][j] = nodes[j]
  BY UpdateShape, Zenon DEF NodesInv
<1>2. /\ IsSequence(nodes') /\ DOMAIN nodes' = DOMAIN nodes /\ nodes'[i] = n
      /\ \A j \in DOMAIN nodes : j # i => nodes'[j] = nodes[j]
  BY <1>1, Zenon
<1>3. \A j \in DOMAIN nodes : IsNode(nodes'[j]) /\ nodes'[j].cand = nodes[j].cand
                               /\ nodes'[j].origin = nodes[j].origin
  BY <1>2 DEF NodesInv
<1> QED BY <1>2, <1>3 DEF NodesInv, BranchesAreNew

\* A node is branched when there is none of its candidate; one made by hand
\* may be any.
LEMMA NodeIsAdded ==
  ASSUME NodesInv, NEW c, NEW parents, NEW origin, NEW seeded,
         origin = NoOrigin \/ c \notin Existing(Context),
         NEW s \in {"PLANNED", "ACTIVE"},
         nodes' = Append(nodes, Node(c, parents, origin, s, seeded))
  PROVE  NodesInv'
<1>1. PICK n : n = Node(c, parents, origin, s, seeded)
  OBVIOUS
<1>2. IsNode(n) /\ n.cand = c /\ n.origin = origin
  BY <1>1 DEF IsNode, Node
<1>3. /\ IsSequence(nodes') /\ DOMAIN nodes' = 1..(Len(nodes) + 1) /\ nodes'[Len(nodes) + 1] = n
      /\ \A i \in 1..Len(nodes) : nodes'[i] = nodes[i]
  BY <1>1, AppendShape DEF NodesInv
<1>4. Len(nodes) \in Nat /\ DOMAIN nodes = 1..Len(nodes)
  BY SequenceShape DEF NodesInv
<1>5. origin = NoOrigin \/ \A i \in DOMAIN nodes : nodes[i].cand # c
  BY DEF Existing, Context
<1>6. \A i \in DOMAIN nodes' : IsNode(nodes'[i])
  BY <1>2, <1>3, <1>4 DEF NodesInv
<1>7. BranchesAreNew'
  BY <1>2, <1>3, <1>4, <1>5 DEF NodesInv, BranchesAreNew
<1> QED BY <1>3, <1>6, <1>7 DEF NodesInv

\* A node that gets a status, and a value.
LEMMA StatusIsNode ==
  ASSUME NodesInv, NEW i \in DOMAIN nodes, NEW v,
         NEW s \in {"PLANNED", "ACTIVE", "COMPLETED", "REJECTED", "STOPPED"},
         \/ nodes' = [nodes EXCEPT ![i].status = s]
         \/ nodes' = [nodes EXCEPT ![i].status = s, ![i].value = v]
  PROVE  NodesInv'
<1>1. PICK m : m = nodes[i]
  OBVIOUS
<1>2. IsNode(m)
  BY <1>1 DEF NodesInv
<1>3. CASE nodes' = [nodes EXCEPT ![i].status = s]
  <2>1. PICK n : n = [m EXCEPT !.status = s]
    OBVIOUS
  <2>2. n.cand = m.cand /\ n.origin = m.origin /\ IsNode(n)
    BY <1>2, <2>1 DEF IsNode
  <2>3. nodes' = [nodes EXCEPT ![i] = n]
    BY <1>1, <1>3, <2>1
  <2> QED BY <1>1, <2>2, <2>3, NodeMoves
<1>4. CASE nodes' = [nodes EXCEPT ![i].status = s, ![i].value = v]
  <2>1. PICK n : n = [m EXCEPT !.status = s, !.value = v]
    OBVIOUS
  <2>2. n.cand = m.cand /\ n.origin = m.origin /\ IsNode(n)
    BY <1>2, <2>1 DEF IsNode
  <2>3. nodes' = [nodes EXCEPT ![i] = n]
    BY <1>1, <1>4, <2>1
  <2> QED BY <1>1, <2>2, <2>3, NodeMoves
<1> QED BY <1>3, <1>4

\* What keeps each node's candidate, parents, origin and seed keeps the nodes.
SameNode(n, m) ==
  IsNode(n) /\ n.cand = m.cand /\ n.parents = m.parents /\ n.origin = m.origin /\ n.seeded = m.seeded

LEMMA NodesMove ==
  ASSUME NodesInv, IsSequence(nodes'), DOMAIN nodes' = DOMAIN nodes,
         \A i \in DOMAIN nodes : SameNode(nodes'[i], nodes[i])
  PROVE  NodesInv'
BY DEF NodesInv, BranchesAreNew, SameNode

\* _realize_planned_candidate: the planned nodes that wait for a run get it.
Activated ==
  nodes' = [i \in DOMAIN nodes |->
              IF i \in Branched THEN [nodes[i] EXCEPT !.status = "ACTIVE"] ELSE nodes[i]]

LEMMA ActivatedMoves ==
  ASSUME NodesInv, Activated
  PROVE  /\ IsSequence(nodes') /\ DOMAIN nodes' = DOMAIN nodes
         /\ \A i \in DOMAIN nodes : SameNode(nodes'[i], nodes[i])
<1>1. Len(nodes) \in Nat /\ DOMAIN nodes = 1..Len(nodes) /\ \A i \in DOMAIN nodes : IsNode(nodes[i])
  BY SequenceShape DEF NodesInv
<1>2. DOMAIN nodes' = DOMAIN nodes
  BY DEF Activated
<1>3. ASSUME NEW i \in DOMAIN nodes
      PROVE  SameNode(nodes'[i], nodes[i])
  <2>1. PICK m, n : m = nodes[i] /\ n = [m EXCEPT !.status = "ACTIVE"]
    OBVIOUS
  <2>2. IsNode(m)
    BY <1>1, <2>1
  <2>3. SameNode(m, m) /\ SameNode(n, m)
    BY <2>1, <2>2 DEF SameNode, IsNode
  <2>4. nodes'[i] = m \/ nodes'[i] = n
    BY <2>1 DEF Activated
  <2> QED BY <2>1, <2>3, <2>4
<1>4. IsSequence(nodes')
  <2>1. PICK u : u = nodes'
    OBVIOUS
  <2>2. PICK R : R = {u[i] : i \in DOMAIN u}
    OBVIOUS
  <2>3. u = [i \in 1..Len(nodes) |-> u[i]] /\ \A i \in 1..Len(nodes) : u[i] \in R
    BY <1>1, <1>2, <2>1, <2>2 DEF Activated
  <2>4. u \in [1..Len(nodes) -> R]
    BY <2>3
  <2>5. u \in Seq(R)
    BY <2>4, <1>1
  <2>6. IsSequence(u)
    BY <2>2, <2>5 DEF IsSequence
  <2> QED BY <2>1, <2>6
<1> QED BY <1>2, <1>3, <1>4

\* A step that leaves the journal and the proposals alone.
LEMMA JournalAside ==
  ASSUME PlanningInv, UNCHANGED <<setup, journal>>, NodesInv',
         exp' \in {"ACTIVE", "SUCCEEDED", "BUDGET_EXHAUSTED"}, build' \in [Hosts -> Builds],
         pass' = [g \in Hosts |-> pass'[g]], \A g \in Hosts : PassInv(g)',
         setup.kind = "llm" => proposed' = proposed
  PROVE  PlanningInv'
<1>1. JournalInv(journal') /\ Extends(journal, journal')
  BY Unextended DEF PlanningInv
<1> QED BY <1>1, Together

LEMMA Going ==
  ASSUME PlanningInv, NEW h \in Hosts, UNCHANGED <<setup, journal>>, NEW p, IsPass(p),
         p.at \notin {"ask", "derive"}, pass' = [pass EXCEPT ![h] = p]
  PROVE  /\ pass' = [g \in Hosts |-> pass'[g]]
         /\ \A g \in Hosts : PassInv(g)'
<1>1. JournalInv(journal') /\ Extends(journal, journal')
  BY Unextended DEF PlanningInv
<1> QED BY <1>1, PassStep

LEMMA Leaving ==
  ASSUME PlanningInv, NEW h \in Hosts, UNCHANGED <<setup, journal>>, Leave(h)
  PROVE  /\ pass' = [g \in Hosts |-> pass'[g]]
         /\ \A g \in Hosts : PassInv(g)'
<1>1. JournalInv(journal') /\ Extends(journal, journal')
  BY Unextended DEF PlanningInv
<1> QED BY <1>1, LeaveStep

LEMMA PassMoves ==
  ASSUME NEW p, IsPass(p), NEW q,
         \/ \E ctx : q = [p EXCEPT !.at = "propose", !.ctx = ctx]
         \/ \E prop : q = [p EXCEPT !.at = "branch", !.prop = prop]
         \/ q = [p EXCEPT !.at = "plan"]
         \/ \E n : q = [p EXCEPT !.at = "loop", !.round = n, !.ctx = <<>>, !.prop = NoProposal]
  PROVE  IsPass(q) /\ q.at \notin {"ask", "derive"}
<1>1. ASSUME NEW ctx, q = [p EXCEPT !.at = "propose", !.ctx = ctx]
      PROVE  IsPass(q) /\ q.at \notin {"ask", "derive"}
  BY <1>1 DEF IsPass
<1>2. ASSUME NEW prop, q = [p EXCEPT !.at = "branch", !.prop = prop]
      PROVE  IsPass(q) /\ q.at \notin {"ask", "derive"}
  BY <1>2 DEF IsPass
<1>3. ASSUME q = [p EXCEPT !.at = "plan"]
      PROVE  IsPass(q) /\ q.at \notin {"ask", "derive"}
  BY <1>3 DEF IsPass
<1>4. ASSUME NEW n, q = [p EXCEPT !.at = "loop", !.round = n, !.ctx = <<>>, !.prop = NoProposal]
      PROVE  IsPass(q) /\ q.at \notin {"ask", "derive"}
  BY <1>4 DEF IsPass
<1> QED BY <1>1, <1>2, <1>3, <1>4

LEMMA LoopKeeps ==
  ASSUME PlanningInv, NEW h \in Hosts, Loop(h)
  PROVE  PlanningInv'
<1>0. UNCHANGED <<setup, journal, build, proposed>>
  BY DEF Loop
<1>1. Leave(h) \/ Goto(h, [pass[h] EXCEPT !.at = "plan"])
  BY DEF Loop, Realize, Escalate
<1>2. pass' = [g \in Hosts |-> pass'[g]] /\ \A g \in Hosts : PassInv(g)'
  <2>1. CASE Leave(h)
    BY <2>1, <1>0, Leaving
  <2>2. CASE Goto(h, [pass[h] EXCEPT !.at = "plan"])
    <3>1. PICK p : p = pass[h]
      OBVIOUS
    <3>2. PICK q : q = [p EXCEPT !.at = "plan"]
      OBVIOUS
    <3>3. IsPass(q) /\ q.at \notin {"ask", "derive"}
      BY <3>1, <3>2, PassMoves DEF PlanningInv, PassInv
    <3>4. pass' = [pass EXCEPT ![h] = q]
      BY <2>2, <3>1, <3>2 DEF Goto
    <3> QED BY <3>3, <3>4, <1>0, Going
  <2> QED BY <1>1, <2>1, <2>2
<1>3. NodesInv'
  <2>1. nodes' = nodes \/ Activated
    BY DEF Loop, Realize, Activated
  <2>2. NodesInv
    BY DEF PlanningInv
  <2>3. CASE nodes' = nodes
    BY <2>2, <2>3 DEF NodesInv, BranchesAreNew
  <2>4. CASE Activated
    BY <2>2, <2>4, ActivatedMoves, NodesMove
  <2> QED BY <2>1, <2>3, <2>4
<1>4. exp' \in {"ACTIVE", "SUCCEEDED", "BUDGET_EXHAUSTED"} /\ build' \in [Hosts -> Builds]
  BY <1>0 DEF PlanningInv, Shapes, Loop, Realize, Exhaust
<1> QED BY <1>0, <1>2, <1>3, <1>4, JournalAside

LEMMA BranchKeeps ==
  ASSUME PlanningInv, NEW h \in Hosts, Branch(h)
  PROVE  PlanningInv'
<1>0. UNCHANGED <<setup, exp, journal, build, proposed>>
  BY DEF Branch
<1>1. PICK p : p = pass[h].prop
  OBVIOUS
<1>2. PICK again : again = [pass[h] EXCEPT !.at = "loop", !.round = @ + 1, !.ctx = <<>>, !.prop = NoProposal]
  OBVIOUS
<1>3. Leave(h) \/ Goto(h, again)
  BY <1>2 DEF Branch, Escalate
<1>4. \/ nodes' = nodes
      \/ /\ {i \in DOMAIN nodes : nodes[i].cand = p.cand} = {}
         /\ nodes' = Append(nodes, Node(p.cand, p.parents, p.origin, "PLANNED", TRUE))
  BY <1>1 DEF Branch
<1>5. pass' = [g \in Hosts |-> pass'[g]] /\ \A g \in Hosts : PassInv(g)'
  <2>1. CASE Leave(h)
    BY <2>1, <1>0, Leaving
  <2>2. CASE Goto(h, again)
    <3>1. PICK q, n : q = pass[h] /\ n = q.round + 1
      OBVIOUS
    <3>2. again = [q EXCEPT !.at = "loop", !.round = n, !.ctx = <<>>, !.prop = NoProposal]
      BY <1>2, <3>1
    <3>3. IsPass(again) /\ again.at \notin {"ask", "derive"}
      BY <3>1, <3>2, PassMoves DEF PlanningInv, PassInv
    <3>4. pass' = [pass EXCEPT ![h] = again]
      BY <2>2 DEF Goto
    <3> QED BY <3>3, <3>4, <1>0, Going
  <2> QED BY <1>3, <2>1, <2>2
<1>6. NodesInv'
  <2>1. NodesInv
    BY DEF PlanningInv
  <2>2. CASE nodes' = nodes
    BY <2>1, <2>2 DEF NodesInv, BranchesAreNew
  <2>3. CASE /\ {i \in DOMAIN nodes : nodes[i].cand = p.cand} = {}
             /\ nodes' = Append(nodes, Node(p.cand, p.parents, p.origin, "PLANNED", TRUE))
    <3>1. p.cand \notin Existing(Context)
      BY <2>3 DEF Existing, Context
    <3> QED BY <2>1, <2>3, <3>1, NodeIsAdded
  <2> QED BY <1>4, <2>2, <2>3
<1>7. exp' \in {"ACTIVE", "SUCCEEDED", "BUDGET_EXHAUSTED"} /\ build' \in [Hosts -> Builds]
  BY <1>0 DEF PlanningInv, Shapes
<1> QED BY <1>0, <1>5, <1>6, <1>7, JournalAside

LEMMA ProposeKeeps ==
  ASSUME PlanningInv, NEW h \in Hosts, Propose(h)
  PROVE  PlanningInv'
<1>0. UNCHANGED <<setup, exp, nodes, journal, build>> /\ setup.kind # "llm"
  BY DEF Propose, record
<1>1. Leave(h) \/ \E p : Goto(h, [pass[h] EXCEPT !.at = "branch", !.prop = p])
  BY DEF Propose, Escalate, Proposes
<1>2. pass' = [g \in Hosts |-> pass'[g]] /\ \A g \in Hosts : PassInv(g)'
  <2>1. CASE Leave(h)
    BY <2>1, <1>0, Leaving
  <2>2. ASSUME NEW p, Goto(h, [pass[h] EXCEPT !.at = "branch", !.prop = p])
        PROVE  pass' = [g \in Hosts |-> pass'[g]] /\ \A g \in Hosts : PassInv(g)'
    <3>1. PICK q : q = [pass[h] EXCEPT !.at = "branch", !.prop = p]
      OBVIOUS
    <3>2. PICK r : r = pass[h]
      OBVIOUS
    <3>3. IsPass(q) /\ q.at \notin {"ask", "derive"}
      BY <3>1, <3>2, PassMoves DEF PlanningInv, PassInv
    <3>4. pass' = [pass EXCEPT ![h] = q]
      BY <2>2, <3>1 DEF Goto
    <3> QED BY <3>3, <3>4, <1>0, Going
  <2> QED BY <1>1, <2>1, <2>2
<1>3. NodesInv' /\ exp' \in {"ACTIVE", "SUCCEEDED", "BUDGET_EXHAUSTED"} /\ build' \in [Hosts -> Builds]
  BY <1>0 DEF PlanningInv, Shapes, NodesInv, BranchesAreNew
<1> QED BY <1>0, <1>2, <1>3, JournalAside

LEMMA OtherStepsKeep ==
  ASSUME PlanningInv, NEW h \in Hosts,
         Enter(h) \/ ReadContext(h) \/ DeriveFails(h) \/ SwapModel(h) \/ Crash(h) \/ Restart(h)
  PROVE  PlanningInv'
<1>0. UNCHANGED <<setup, exp, nodes, journal, proposed>>
  BY DEF Enter, ReadContext, DeriveFails, SwapModel, Crash, Restart, record
<1>1. build' \in [Hosts -> Builds]
  <2>1. build \in [Hosts -> Builds] /\ setup.builds \subseteq Builds
    BY PlanningAssumption DEF PlanningInv, Shapes
  <2> QED BY <2>1 DEF Enter, ReadContext, DeriveFails, SwapModel, Crash, Restart
<1>2. pass' = [g \in Hosts |-> pass'[g]] /\ \A g \in Hosts : PassInv(g)'
  <2>1. CASE pass' = pass
    BY <1>0, <2>1, StayStep
  <2>2. CASE Leave(h)
    BY <1>0, <2>2, Leaving
  <2>3. CASE Enter(h) /\ pass' = [pass EXCEPT ![h] = [Idle EXCEPT !.at = "loop"]]
    <3>1. PICK q : q = [Idle EXCEPT !.at = "loop"]
      OBVIOUS
    <3>2. IsPass(q) /\ q.at \notin {"ask", "derive"}
      BY <3>1 DEF IsPass, Idle
    <3> QED BY <3>1, <3>2, <1>0, <2>3, Going
  <2>4. CASE ReadContext(h)
    <3>1. PICK p : p = pass[h]
      OBVIOUS
    <3>2. PICK ctx : ctx = Context
      OBVIOUS
    <3>3. PICK q : q = [p EXCEPT !.at = "propose", !.ctx = ctx]
      OBVIOUS
    <3>4. IsPass(q) /\ q.at \notin {"ask", "derive"}
      BY <3>1, <3>3, PassMoves DEF PlanningInv, PassInv
    <3>5. pass' = [pass EXCEPT ![h] = q]
      BY <2>4, <3>1, <3>2, <3>3 DEF ReadContext
    <3> QED BY <3>4, <3>5, <1>0, Going
  <2> QED BY <2>1, <2>2, <2>3, <2>4
          DEF Enter, DeriveFails, Escalate, SwapModel, Crash, Restart, Leave
<1>3. NodesInv' /\ exp' \in {"ACTIVE", "SUCCEEDED", "BUDGET_EXHAUSTED"}
  BY <1>0 DEF PlanningInv, Shapes, NodesInv, BranchesAreNew
<1> QED BY <1>0, <1>1, <1>2, <1>3, JournalAside

LEMMA EndNodeKeeps ==
  ASSUME PlanningInv, NEW i \in DOMAIN nodes, EndNode(i)
  PROVE  PlanningInv'
<1>0. UNCHANGED <<setup, journal, build, pass, proposed>>
  BY DEF EndNode
<1>1. pass' = [g \in Hosts |-> pass'[g]] /\ \A g \in Hosts : PassInv(g)'
  BY <1>0, StayStep
<1>2. NodesInv'
  <2>1. \/ \E v : nodes' = [nodes EXCEPT ![i].status = "COMPLETED", ![i].value = v]
        \/ nodes' = [nodes EXCEPT ![i].status = "REJECTED"]
        \/ nodes' = [nodes EXCEPT ![i].status = "STOPPED"]
    BY DEF EndNode
  <2>2. NodesInv
    BY DEF PlanningInv
  <2> QED BY <2>1, <2>2, StatusIsNode
<1>3. exp' \in {"ACTIVE", "SUCCEEDED", "BUDGET_EXHAUSTED"} /\ build' \in [Hosts -> Builds]
  BY <1>0 DEF PlanningInv, Shapes, EndNode
<1> QED BY <1>0, <1>1, <1>2, <1>3, JournalAside

LEMMA CreateNodeKeeps ==
  ASSUME PlanningInv, CreateNode
  PROVE  PlanningInv'
<1>0. UNCHANGED <<setup, exp, journal, build, pass, proposed>>
  BY DEF CreateNode
<1>1. pass' = [g \in Hosts |-> pass'[g]] /\ \A g \in Hosts : PassInv(g)'
  BY <1>0, StayStep
<1>2. NodesInv'
  <2>1. PICK c \in Space, ps \in {{}} \cup {{i} : i \in DOMAIN nodes}, s \in {"PLANNED", "ACTIVE"},
             seeded \in BOOLEAN : nodes' = Append(nodes, Node(c, ps, NoOrigin, s, seeded))
    BY DEF CreateNode
  <2>2. NodesInv
    BY DEF PlanningInv
  <2> QED BY <2>1, <2>2, NodeIsAdded
<1>3. exp' \in {"ACTIVE", "SUCCEEDED", "BUDGET_EXHAUSTED"} /\ build' \in [Hosts -> Builds]
  BY <1>0 DEF PlanningInv, Shapes
<1> QED BY <1>0, <1>1, <1>2, <1>3, JournalAside

LEMMA NextKeeps == PlanningInv /\ [Next]_vars => PlanningInv'
<1> SUFFICES ASSUME PlanningInv, [Next]_vars PROVE PlanningInv'
  OBVIOUS
<1>1. ASSUME NEW h \in Hosts, Step(h) \/ DeriveFails(h) \/ SwapModel(h) \/ Crash(h) \/ Restart(h)
      PROVE  PlanningInv'
  BY <1>1, OtherStepsKeep, LoopKeeps, ProposeKeeps, BeginKeeps, AskKeeps, DeriveKeeps, BranchKeeps
     DEF Step
<1>2. ASSUME NEW i \in DOMAIN nodes, EndNode(i)
      PROVE  PlanningInv'
  BY <1>2, EndNodeKeeps
<1>3. CASE CreateNode
  BY <1>3, CreateNodeKeeps
<1>4. CASE UNCHANGED vars
  <2>1. UNCHANGED <<setup, exp, nodes, journal, build, pass, proposed>>
    BY <1>4 DEF vars, record
  <2>2. NodesInv' /\ exp' \in {"ACTIVE", "SUCCEEDED", "BUDGET_EXHAUSTED"} /\ build' \in [Hosts -> Builds]
    BY <2>1 DEF PlanningInv, Shapes, NodesInv, BranchesAreNew
  <2> QED BY <2>1, <2>2, StayStep, JournalAside
<1> QED BY <1>1, <1>2, <1>3, <1>4 DEF Next

-----------------------------------------------------------------------------
(* A context is proposed on in one way. *)

\* A context that was read: the nodes as they were, of which only the status
\* and the value have moved since.
Past(ctx) ==
  /\ ctx \in [exp : {ctx.exp}, nodes : {ctx.nodes}]
  /\ IsSequence(ctx.nodes) /\ DOMAIN ctx.nodes \subseteq DOMAIN nodes
  /\ \A i \in DOMAIN ctx.nodes :
       /\ IsNode(ctx.nodes[i])
       /\ ctx.nodes[i].cand = nodes[i].cand /\ ctx.nodes[i].parents = nodes[i].parents
       /\ ctx.nodes[i].origin = nodes[i].origin /\ ctx.nodes[i].seeded = nodes[i].seeded

\* What a planner that asks no model proposes on a context.
ProposedOn(ctx, p) ==
  \/ setup.kind = "rule-based" /\ p \in RuleProposals(ctx)
  \/ setup.kind = "search" /\ p = SearchProposal(ctx, "recorded", Replay(ctx, "recorded"))

DeterminedInv ==
  /\ up \in [Hosts -> BOOLEAN] /\ \A h \in Hosts : ~up[h] => pass[h].at = "idle"
  /\ \A h \in Hosts : pass[h].at \in {"plan", "propose"} /\ setup.kind = "search" =>
                         Engine(h) = "recorded"
  /\ \A h \in Hosts : pass[h].at = "propose" => Past(pass[h].ctx)
  /\ setup.kind # "llm" =>
       \A x \in proposed : \E ctx : Past(ctx) /\ x[1] = InputFingerprint(ctx) /\ ProposedOn(ctx, x[2])

\* Two contexts of one experiment with the same fingerprint are one.
LEMMA SameFingerprint ==
  ASSUME NEW c, NEW d, Past(c), Past(d), InputFingerprint(c) = InputFingerprint(d)
  PROVE  c = d
<1>1. ModelContext(c) = ModelContext(d)
  BY DEF InputFingerprint
<1>2. PICK f, g : /\ f = [i \in DOMAIN c.nodes |-> <<c.nodes[i].cand, c.nodes[i].parents,
                                                   c.nodes[i].status, c.nodes[i].value>>]
                  /\ g = [i \in DOMAIN d.nodes |-> <<d.nodes[i].cand, d.nodes[i].parents,
                                                   d.nodes[i].status, d.nodes[i].value>>]
  OBVIOUS
<1>3. c.exp = d.exp /\ f = g
  BY <1>1, <1>2 DEF ModelContext
<1>4. DOMAIN c.nodes = DOMAIN d.nodes
  BY <1>2, <1>3
<1>5. ASSUME NEW i \in DOMAIN c.nodes
      PROVE  c.nodes[i] = d.nodes[i]
  <2>1. f[i] = g[i]
    BY <1>3
  <2>2. c.nodes[i].status = d.nodes[i].status /\ c.nodes[i].value = d.nodes[i].value
    BY <2>1, <1>2, <1>4
  <2>3. IsNode(c.nodes[i]) /\ IsNode(d.nodes[i])
    BY <1>4 DEF Past
  <2>4. /\ c.nodes[i].cand = d.nodes[i].cand /\ c.nodes[i].parents = d.nodes[i].parents
        /\ c.nodes[i].origin = d.nodes[i].origin /\ c.nodes[i].seeded = d.nodes[i].seeded
    BY <1>4 DEF Past
  <2> QED BY <2>2, <2>3, <2>4 DEF IsNode
<1>6. c.nodes = d.nodes
  <2>1. c.nodes \in [DOMAIN c.nodes -> {c.nodes[i] : i \in DOMAIN c.nodes}]
    BY DEF Past, IsSequence
  <2>2. d.nodes \in [DOMAIN d.nodes -> {d.nodes[i] : i \in DOMAIN d.nodes}]
    BY DEF Past, IsSequence
  <2>3. c.nodes = [i \in DOMAIN c.nodes |-> c.nodes[i]] /\ d.nodes = [i \in DOMAIN d.nodes |-> d.nodes[i]]
    BY <2>1, <2>2
  <2> QED BY <2>3, <1>4, <1>5
<1> QED BY <1>3, <1>6 DEF Past

\* The rules give one proposal at most: one parent, and the first rule.
LEMMA OneRuleProposal ==
  ASSUME NEW ctx, Past(ctx), NEW p \in RuleProposals(ctx), NEW q \in RuleProposals(ctx)
  PROVE  p = q
<1>1. PICK i \in BestParent(ctx) : \E r \in FirstRule(ctx, i) :
        p = [cand |-> Mutate(Rules[r], ctx.nodes[i].cand), parents |-> {i},
             origin |-> [planner |-> "rule-based", rule |-> r, ctx |-> InputFingerprint(ctx)]]
  BY DEF RuleProposals
<1>2. PICK r \in FirstRule(ctx, i) :
        p = [cand |-> Mutate(Rules[r], ctx.nodes[i].cand), parents |-> {i},
             origin |-> [planner |-> "rule-based", rule |-> r, ctx |-> InputFingerprint(ctx)]]
  BY <1>1
<1>3. PICK j \in BestParent(ctx) : \E t \in FirstRule(ctx, j) :
        q = [cand |-> Mutate(Rules[t], ctx.nodes[j].cand), parents |-> {j},
             origin |-> [planner |-> "rule-based", rule |-> t, ctx |-> InputFingerprint(ctx)]]
  BY DEF RuleProposals
<1>4. PICK t \in FirstRule(ctx, j) :
        q = [cand |-> Mutate(Rules[t], ctx.nodes[j].cand), parents |-> {j},
             origin |-> [planner |-> "rule-based", rule |-> t, ctx |-> InputFingerprint(ctx)]]
  BY <1>3
<1>5. i = j
  <2>1. DOMAIN ctx.nodes = 1..Len(ctx.nodes) /\ Len(ctx.nodes) \in Nat
    BY SequenceShape DEF Past
  <2>2. i \in DOMAIN ctx.nodes /\ j \in DOMAIN ctx.nodes /\ i <= j /\ j <= i
    BY <1>1, <1>3 DEF BestParent
  <2> QED BY <2>1, <2>2
<1>6. r = t
  <2>1. DOMAIN Rules = 1..Len(Rules) /\ Len(Rules) \in Nat
    BY PlanningAssumption
  <2>2. /\ r \in DOMAIN Rules /\ t \in DOMAIN Rules
        /\ ~(r \in 1..(t - 1)) /\ ~(t \in 1..(r - 1))
    BY <1>2, <1>4, <1>5 DEF FirstRule
  <2> QED BY <2>1, <2>2
<1> QED BY <1>2, <1>4, <1>5, <1>6

LEMMA DeterminedIsSound ==
  PlanningInv /\ DeterminedInv => ProposalsDetermined
<1> SUFFICES ASSUME PlanningInv, DeterminedInv, NEW x \in proposed, NEW y \in proposed, x[1] = y[1]
             PROVE  x[2] = y[2]
  BY DEF ProposalsDetermined
<1>1. CASE setup.kind = "llm"
  <2>1. PICK i \in DOMAIN journal : /\ journal[i].status = "COMPLETED" /\ journal[i].round = x[1]
                                   /\ journal[i].prop = x[2]
    BY <1>1 DEF PlanningInv, OnRecord
  <2>2. PICK k \in DOMAIN journal : /\ journal[k].status = "COMPLETED" /\ journal[k].round = y[1]
                                   /\ journal[k].prop = y[2]
    BY <1>1 DEF PlanningInv, OnRecord
  <2>3. DOMAIN journal = 1..Len(journal) /\ Len(journal) \in Nat
    BY SequenceShape DEF PlanningInv, JournalInv
  <2>4. ~(i < k) /\ ~(k < i)
    BY <2>1, <2>2 DEF PlanningInv, JournalInv
  <2>5. i = k
    BY <2>3, <2>4
  <2> QED BY <2>1, <2>2, <2>5
<1>2. CASE setup.kind # "llm"
  <2>1. PICK c : Past(c) /\ x[1] = InputFingerprint(c) /\ ProposedOn(c, x[2])
    BY <1>2 DEF DeterminedInv
  <2>2. PICK d : Past(d) /\ y[1] = InputFingerprint(d) /\ ProposedOn(d, y[2])
    BY <1>2 DEF DeterminedInv
  <2>3. c = d
    BY <2>1, <2>2, SameFingerprint
  <2> QED BY <2>1, <2>2, <2>3, OneRuleProposal DEF ProposedOn
<1> QED BY <1>1, <1>2

\* A node keeps its candidate, its parents and its origin.
NodesGrow ==
  /\ DOMAIN nodes \subseteq DOMAIN nodes'
  /\ \A i \in DOMAIN nodes : /\ nodes'[i].cand = nodes[i].cand
                            /\ nodes'[i].parents = nodes[i].parents
                            /\ nodes'[i].origin = nodes[i].origin
                            /\ nodes'[i].seeded = nodes[i].seeded

LEMMA NodesStay ==
  ASSUME PlanningInv, [Next]_vars
  PROVE  NodesGrow
<1>1. /\ IsSequence(nodes) /\ \A i \in DOMAIN nodes : IsNode(nodes[i])
      /\ Len(nodes) \in Nat /\ DOMAIN nodes = 1..Len(nodes)
  BY SequenceShape DEF PlanningInv, NodesInv
<1>2. CASE nodes' = nodes
  BY <1>2 DEF NodesGrow
<1>3. ASSUME NEW n, nodes' = Append(nodes, n)
      PROVE  NodesGrow
  <2>1. DOMAIN nodes' = 1..(Len(nodes) + 1) /\ \A i \in 1..Len(nodes) : nodes'[i] = nodes[i]
    BY <1>1, <1>3, AppendShape
  <2> QED BY <1>1, <2>1 DEF NodesGrow
<1>4. ASSUME NEW i \in DOMAIN nodes, NEW s, nodes' = [nodes EXCEPT ![i].status = s]
      PROVE  NodesGrow
  <2>1. IsNode(nodes[i])
    BY <1>1
  <2> QED BY <1>4, <2>1 DEF NodesGrow, IsNode
<1>5. ASSUME NEW i \in DOMAIN nodes, NEW s, NEW v,
             nodes' = [nodes EXCEPT ![i].status = s, ![i].value = v]
      PROVE  NodesGrow
  <2>1. IsNode(nodes[i])
    BY <1>1
  <2> QED BY <1>5, <2>1 DEF NodesGrow, IsNode
<1>6. ASSUME NEW h \in Hosts, Step(h) \/ DeriveFails(h) \/ SwapModel(h) \/ Crash(h) \/ Restart(h)
      PROVE  NodesGrow
  <2>1. CASE Loop(h)
    <3>1. nodes' = nodes \/ Activated
      BY <2>1 DEF Loop, Realize, Activated
    <3>2. CASE Activated
      BY <3>2, ActivatedMoves DEF NodesGrow, SameNode, PlanningInv
    <3> QED BY <3>1, <3>2, <1>2
  <2>2. CASE Branch(h)
    <3>1. nodes' = nodes \/ \E n : nodes' = Append(nodes, n)
      BY <2>2 DEF Branch
    <3> QED BY <3>1, <1>2, <1>3
  <2>3. CASE ~Loop(h) /\ ~Branch(h)
    <3>1. nodes' = nodes
      BY <1>6, <2>3 DEF Step, Enter, ReadContext, Propose, Begin, Ask, Derive, DeriveFails,
                        SwapModel, Crash, Restart, record
    <3> QED BY <3>1, <1>2
  <2> QED BY <2>1, <2>2, <2>3
<1>7. ASSUME NEW i \in DOMAIN nodes, EndNode(i)
      PROVE  NodesGrow
  BY <1>7, <1>4, <1>5 DEF EndNode
<1>8. CASE CreateNode
  <2>1. \E n : nodes' = Append(nodes, n)
    BY <1>8 DEF CreateNode
  <2> QED BY <2>1, <1>3
<1>9. CASE UNCHANGED vars
  BY <1>2, <1>9 DEF vars, record
<1> QED BY <1>6, <1>7, <1>8, <1>9 DEF Next

LEMMA PastStays ==
  ASSUME NodesGrow, NEW ctx, Past(ctx)
  PROVE  Past(ctx)'
<1>1. DOMAIN ctx.nodes \subseteq DOMAIN nodes' /\ DOMAIN ctx.nodes \subseteq DOMAIN nodes
  BY DEF NodesGrow, Past
<1>2. ASSUME NEW i \in DOMAIN ctx.nodes
      PROVE  /\ IsNode(ctx.nodes[i])
             /\ ctx.nodes[i].cand = nodes'[i].cand /\ ctx.nodes[i].parents = nodes'[i].parents
             /\ ctx.nodes[i].origin = nodes'[i].origin /\ ctx.nodes[i].seeded = nodes'[i].seeded
  BY <1>1 DEF NodesGrow, Past
<1> QED BY <1>1, <1>2 DEF Past

LEMMA ContextIsPast ==
  ASSUME PlanningInv, NEW ctx, ctx = Context
  PROVE  Past(ctx)
<1>1. ctx \in [exp : {ctx.exp}, nodes : {ctx.nodes}] /\ ctx.nodes = nodes
  BY DEF Context
<1> QED BY <1>1 DEF Past, PlanningInv, NodesInv

\* A host that plans keeps the build that was bound, and reads its context then.
LEMMA BoundStep ==
  ASSUME PlanningInv, DeterminedInv, [Next]_vars, NEW h \in Hosts
  PROVE  /\ pass'[h].at \in {"plan", "propose"} /\ setup'.kind = "search" => Engine(h)' = "recorded"
         /\ pass'[h].at = "propose" => (Past(pass[h].ctx))'
<1>0. /\ pass = [g \in Hosts |-> pass[g]] /\ IsPass(pass[h]) /\ build \in [Hosts -> Builds]
      /\ setup' = setup
  BY DEF PlanningInv, Shapes, PassInv, Next, Step, Enter, Loop, ReadContext, Propose, Begin, Ask,
         Derive, Branch, DeriveFails, SwapModel, Crash, Restart, EndNode, CreateNode, vars
<1>1. NodesGrow
  BY NodesStay
<1>2. CASE pass'[h] = pass[h] /\ (build'[h] = build[h] \/ pass[h].at = "idle")
  <2>1. pass[h].at = "propose" => (Past(pass[h].ctx))'
    <3>1. PICK c : c = pass[h].ctx
      OBVIOUS
    <3>2. pass[h].at = "propose" => Past(c)'
      BY <3>1, <1>1, PastStays DEF DeterminedInv
    <3> QED BY <3>1, <3>2, <1>2
  <2> QED BY <1>0, <1>2, <2>1 DEF DeterminedInv, Engine
<1>3. CASE pass'[h].at \notin {"plan", "propose"}
  BY <1>3
<1>4. CASE ReadContext(h)
  <2>1. /\ pass'[h].at = "propose" /\ pass'[h].ctx = Context /\ build' = build
        /\ pass[h].at = "plan" /\ nodes' = nodes
    BY <1>0, <1>4 DEF ReadContext, At, IsPass, record
  <2>2. PICK c : c = Context
    OBVIOUS
  <2>3. Past(c)'
    BY <2>2, ContextIsPast, <1>1, PastStays
  <2>4. (Past(pass[h].ctx))'
    BY <2>1, <2>2, <2>3
  <2> QED BY <1>0, <2>1, <2>4 DEF DeterminedInv, Engine
<1>5. CASE Loop(h) /\ pass'[h].at = "plan"
  <2>1. Binds(h) /\ build' = build
    <3>1. Idle.at = "idle"
      BY DEF Idle
    <3> QED BY <1>0, <1>5, <3>1 DEF Loop, Realize, Leave, Escalate, Goto
  <2> QED BY <1>0, <1>5, <2>1 DEF Binds, BindsEngine, Engine
<1>6. \/ pass'[h] = pass[h] /\ (build'[h] = build[h] \/ pass[h].at = "idle")
      \/ pass'[h].at \notin {"plan", "propose"} \/ ReadContext(h)
      \/ Loop(h) /\ pass'[h].at = "plan"
  <2> DEFINE Good == \/ pass'[h] = pass[h] /\ (build'[h] = build[h] \/ pass[h].at = "idle")
                     \/ pass'[h].at \notin {"plan", "propose"} \/ ReadContext(h)
                     \/ Loop(h) /\ pass'[h].at = "plan"
  <2>0. Idle.at = "idle"
    BY DEF Idle
  <2> HIDE DEF Idle
  <2>1. ASSUME NEW g \in Hosts, g # h, Step(g) \/ DeriveFails(g) \/ SwapModel(g) \/ Crash(g) \/ Restart(g)
        PROVE  Good
    BY <2>1, <1>0 DEF Step, Enter, Loop, Realize, ReadContext, Propose, Proposes, Begin, Settle, Ask, Derive,
             Report, Branch, DeriveFails, SwapModel, Crash, Restart, Leave, Escalate, Goto
  <2>2. CASE Step(h) \/ DeriveFails(h) \/ SwapModel(h) \/ Crash(h) \/ Restart(h)
    <3>1. CASE Leave(h)
      BY <2>0, <3>1, <1>0 DEF Leave
    <3>2. CASE Enter(h)
      <4>1. PICK q : q = [Idle EXCEPT !.at = "loop"]
        OBVIOUS
      <4>2. q.at = "loop"
        BY <4>1 DEF Idle
      <4> QED BY <3>2, <4>1, <4>2, <1>0 DEF Enter
    <3>3. CASE Loop(h)
      BY <3>1, <3>3, <1>0 DEF Loop, Realize, Escalate, Goto, IsPass
    <3>4. CASE Propose(h)
      BY <3>1, <3>4, <1>0 DEF Propose, Proposes, Escalate, Goto, IsPass
    <3>5. CASE Begin(h)
      <4>1. \/ Leave(h)
            \/ \E v : Goto(h, [pass[h] EXCEPT !.at = "derive", !.inv = v])
            \/ \E v : Goto(h, [pass[h] EXCEPT !.at = "ask", !.inv = v])
        BY <3>5 DEF Begin, Escalate
      <4> QED BY <4>1, <3>1, <1>0 DEF Goto, IsPass
    <3>6. ASSUME NEW s, NEW a, NEW p, NEW n \in {"escalate", "derive"}, Settle(h, s, a, p, n)
          PROVE  Good
      BY <3>1, <3>6, <1>0 DEF Settle, Escalate, Goto, IsPass
    <3>7. CASE Ask(h)
      <4>1. \E s, a, p : \E n \in {"escalate", "derive"} : Settle(h, s, a, p, n)
        BY <3>7 DEF Ask
      <4> QED BY <4>1, <3>6
    <3>8. CASE Derive(h)
      <4>1. Leave(h) \/ \E s, a, p : \E n \in {"escalate", "derive"} : Settle(h, s, a, p, n)
        BY <3>8 DEF Derive, Report, Escalate
      <4> QED BY <4>1, <3>1, <3>6
    <3>9. CASE Branch(h)
      <4>1. \/ Leave(h)
            \/ \E n : Goto(h, [pass[h] EXCEPT !.at = "loop", !.round = n, !.ctx = <<>>,
                                               !.prop = NoProposal])
        BY <3>9 DEF Branch, Escalate
      <4> QED BY <4>1, <3>1, <1>0 DEF Goto, IsPass
    <3>10. CASE DeriveFails(h) \/ SwapModel(h) \/ Crash(h)
      BY <3>1, <3>10 DEF DeriveFails, SwapModel, Crash, Escalate, Leave
    <3>11. CASE Restart(h)
      BY <3>11 DEF Restart, DeterminedInv
    <3> QED BY <2>2, <3>2, <3>3, <3>4, <3>5, <3>7, <3>8, <3>9, <3>10, <3>11 DEF Step
  <2>3. ASSUME NEW i \in DOMAIN nodes, EndNode(i)
        PROVE  Good
    BY <2>3 DEF EndNode
  <2>4. CASE CreateNode
    BY <2>4 DEF CreateNode
  <2>5. CASE UNCHANGED vars
    BY <2>5 DEF vars
  <2> QED BY <2>1, <2>2, <2>3, <2>4, <2>5 DEF Next
<1> QED BY <1>2, <1>3, <1>4, <1>5, <1>6

\* A host that is down plans nothing.
LEMMA DownStep ==
  ASSUME PlanningInv, DeterminedInv, [Next]_vars
  PROVE  up' \in [Hosts -> BOOLEAN] /\ \A h \in Hosts : ~up'[h] => pass'[h].at = "idle"
<1>0. /\ pass = [g \in Hosts |-> pass[g]] /\ Idle.at = "idle"
      /\ up \in [Hosts -> BOOLEAN] /\ \A h \in Hosts : ~up[h] => pass[h].at = "idle"
  BY DEF PlanningInv, Shapes, Idle, DeterminedInv
<1> HIDE DEF Idle
<1>1. ASSUME NEW g \in Hosts, Crash(g)
      PROVE  up' \in [Hosts -> BOOLEAN] /\ \A h \in Hosts : ~up'[h] => pass'[h].at = "idle"
  BY <1>0, <1>1 DEF Crash
<1>2. ASSUME NEW g \in Hosts, Restart(g)
      PROVE  up' \in [Hosts -> BOOLEAN] /\ \A h \in Hosts : ~up'[h] => pass'[h].at = "idle"
  BY <1>0, <1>2 DEF Restart
<1>3. ASSUME NEW g \in Hosts, up[g], up' = up, \A h \in Hosts : h # g => pass'[h] = pass[h]
      PROVE  up' \in [Hosts -> BOOLEAN] /\ \A h \in Hosts : ~up'[h] => pass'[h].at = "idle"
  BY <1>0, <1>3
<1>4. ASSUME NEW g \in Hosts, Step(g) \/ DeriveFails(g) \/ SwapModel(g)
      PROVE  up[g] /\ up' = up /\ \A h \in Hosts : h # g => pass'[h] = pass[h]
  BY <1>0, <1>4 DEF Step, Enter, Loop, Realize, ReadContext, Propose, Proposes, Begin, Settle, Ask,
         Derive, Report, Branch, DeriveFails, SwapModel, Leave, Escalate, Goto, At
<1>5. CASE UNCHANGED <<up, pass>>
  BY <1>0, <1>5
<1> QED BY <1>1, <1>2, <1>3, <1>4, <1>5 DEF Next, EndNode, CreateNode, vars

LEMMA DeterminedInit == Init => DeterminedInv
BY DEF Init, DeterminedInv, Idle

LEMMA DeterminedStep ==
  ASSUME PlanningInv, DeterminedInv, [Next]_vars
  PROVE  DeterminedInv'
<1>0. setup' = setup /\ NodesGrow
  BY NodesStay DEF Next, Step, Enter, Loop, ReadContext, Propose, Begin, Ask,
         Derive, Branch, DeriveFails, SwapModel, Crash, Restart, EndNode, CreateNode, vars
<1>1. ASSUME NEW h \in Hosts, Propose(h), NEW x \in proposed' \ proposed
      PROVE  \E ctx : Past(ctx) /\ x[1] = InputFingerprint(ctx) /\ ProposedOn(ctx, x[2])
  <2>1. PICK ctx : ctx = pass[h].ctx
    OBVIOUS
  <2>2. Past(ctx)
    BY <1>1, <2>1 DEF Propose, At, DeterminedInv
  <2>3. \/ \E p \in RuleProposals(ctx) : setup.kind = "rule-based" /\ Proposes(h, p)
        \/ /\ setup.kind \notin {"llm", "no-op", "rule-based"}
           /\ Proposes(h, SearchProposal(ctx, Engine(h), Replay(ctx, Engine(h))))
    BY <1>1, <2>1 DEF Propose
  <2>4. CASE \E p \in RuleProposals(ctx) : setup.kind = "rule-based" /\ Proposes(h, p)
    <3>1. PICK p \in RuleProposals(ctx) : setup.kind = "rule-based" /\ Proposes(h, p)
      BY <2>4
    <3>2. x = <<InputFingerprint(ctx), p>>
      BY <1>1, <2>1, <3>1 DEF Proposes
    <3> QED BY <2>2, <3>1, <3>2 DEF ProposedOn
  <2>5. CASE /\ setup.kind \notin {"llm", "no-op", "rule-based"}
             /\ Proposes(h, SearchProposal(ctx, Engine(h), Replay(ctx, Engine(h))))
    <3>1. setup.kind = "search"
      BY <2>5, PlanningAssumption DEF PlanningInv, Shapes, Kinds
    <3>2. Engine(h) = "recorded"
      BY <1>1, <3>1 DEF Propose, At, DeterminedInv
    <3>3. PICK p : p = SearchProposal(ctx, "recorded", Replay(ctx, "recorded"))
      OBVIOUS
    <3>4. Proposes(h, p)
      BY <2>5, <3>2, <3>3
    <3>5. x = <<InputFingerprint(ctx), p>>
      BY <1>1, <2>1, <3>4 DEF Proposes
    <3> QED BY <2>2, <3>1, <3>3, <3>5 DEF ProposedOn
  <2> QED BY <2>3, <2>4, <2>5
<1>2. CASE setup.kind # "llm"
  <2>1. proposed' = proposed \/ \E h \in Hosts : Propose(h) \/ Derive(h)
    BY DEF Next, Step, Enter, Loop, ReadContext, Begin, Ask,
         Branch, DeriveFails, SwapModel, Crash, Restart, EndNode, CreateNode, vars
  <2>2. ASSUME NEW h \in Hosts, Derive(h)
        PROVE  FALSE
    BY <1>2, <2>2 DEF Derive, At, PlanningInv, PassInv
  <2>3. \A x \in proposed' : \E ctx : Past(ctx) /\ x[1] = InputFingerprint(ctx) /\ ProposedOn(ctx, x[2])
    BY <1>1, <1>2, <2>1, <2>2 DEF DeterminedInv
  <2>4. \A x \in proposed' :
          \E ctx : Past(ctx)' /\ x[1] = InputFingerprint(ctx) /\ ProposedOn(ctx, x[2])'
    <3> SUFFICES ASSUME NEW x \in proposed'
                 PROVE  \E ctx : Past(ctx)' /\ x[1] = InputFingerprint(ctx) /\ ProposedOn(ctx, x[2])'
      OBVIOUS
    <3>1. PICK ctx : Past(ctx) /\ x[1] = InputFingerprint(ctx) /\ ProposedOn(ctx, x[2])
      BY <2>3
    <3>2. Past(ctx)'
      BY <1>0, <3>1, PastStays
    <3>3. ProposedOn(ctx, x[2])'
      BY <1>0, <3>1 DEF ProposedOn
    <3> QED BY <3>1, <3>2, <3>3
  <2> QED BY <1>0, <2>4, BoundStep, DownStep DEF DeterminedInv
<1>3. CASE setup.kind = "llm"
  BY <1>0, <1>3, BoundStep, DownStep DEF DeterminedInv
<1> QED BY <1>2, <1>3

-----------------------------------------------------------------------------

\* begin_agent_invocation, the revision guard of _update, the derivation from
\* the recorded answer, the replayed search and the fingerprint that
\* materialize_candidate_proposal compares, for any hosts, setups, planners
\* and bounds: a round is answered once, an action proposal is one that a
\* recorded answer made, a context is never proposed on in two ways, and no
\* node is branched for a candidate the experiment had.
THEOREM PlanningTrue == Spec => []PlanningSound
<1>1. Init => PlanningInv /\ DeterminedInv
  BY InitInv, DeterminedInit
<1>2. PlanningInv /\ DeterminedInv /\ [Next]_vars => (PlanningInv /\ DeterminedInv)'
  BY NextKeeps, DeterminedStep
<1>3. PlanningInv /\ DeterminedInv => PlanningSound
  BY InvIsSound, DeterminedIsSound DEF PlanningSound
<1> QED BY <1>1, <1>2, <1>3, PTL DEF Spec
=============================================================================
