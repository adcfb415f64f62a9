----------------------- MODULE IncidentRecoveryProofs -----------------------
(***************************************************************************)
(* Proofs about IncidentRecovery, for any drivers, setups and bounds: a    *)
(* failed attempt has one successor, decided on all the evidence, restored *)
(* from before it and with the same effective batch (SuccessorSound), and  *)
(* the run ends as its attempts did (RunEndsHonestly).                     *)
(*                                                                         *)
(* Everything rests on what is never rewritten.  Observations and plans    *)
(* are only appended (Evolves), and a successor freezes the episode it     *)
(* closes, so that what a driver or an action learned of an attempt stays  *)
(* true however long ago it was (Growth), and the commit has to check only *)
(* that the episode is still open.                                         *)
(***************************************************************************)
EXTENDS IncidentRecovery, FiniteSetTheorems, TLAPS

-----------------------------------------------------------------------------
(* The invariant. *)

\* A sequence, whatever its elements are.
IsSequence(s) == s \in Seq({s[i] : i \in DOMAIN s})

IsObservation(o) ==
  o \in [kind : {"checkpoint", "incident"}, cat : {o.cat}, step : {o.step},
         valid : {o.valid}, embodied : {o.embodied}]

IsAttempt(x) ==
  /\ x \in [src : {x.src}, status : {"created", "live", "failed", "succeeded"},
            micro : Nat, accum : Nat, from : {x.from}, directives : {x.directives},
            obs : {x.obs}, step : {x.step}, known : BOOLEAN, accepted : Nat,
            plans : {x.plans}, mark : {x.mark}]
  /\ IsSequence(x.obs) /\ \A i \in DOMAIN x.obs : IsObservation(x.obs[i])
  /\ IsSequence(x.plans)

\* What the module says of an attempt and its observations, as operators on
\* values, so that a state can be compared with the next one.
Incidents(obs) == {i \in DOMAIN obs : obs[i].kind = "incident"}
First(obs, i) == {j \in Incidents(obs) : j <= i}
EvidenceIn(obs, k) == {i \in Incidents(obs) : Cardinality(First(obs, i)) <= k}
CategoriesIn(obs, k) == {obs[i].cat : i \in EvidenceIn(obs, k)}

RecordedIn(c, at) ==
  c[2] \in DOMAIN at[c[1]].obs /\ at[c[1]].obs[c[2]].kind = "checkpoint"

EligibleIn(c, n, k, at) ==
  \A i \in EvidenceIn(at[n].obs, k) :
    /\ c[1] = n => c[2] < i
    /\ CarriesStep(at[n].obs[i].cat) => at[c[1]].obs[c[2]].step <= at[n].obs[i].step

\* An episode: plans each cover one incident more, of those accepted.
IsEpisode(x) ==
  /\ \A q \in DOMAIN x.plans :
       /\ x.plans[q] \in 1 .. x.accepted
       /\ q > 1 => x.plans[q] = x.plans[q - 1] + 1
  /\ x.known <=> Len(x.plans) > 0
  /\ ~x.known => x.accepted = 0
  /\ x.accepted <= Cardinality(Incidents(x.obs))

Over == {"failed", "succeeded"}

\* A successor restores a recorded checkpoint from before the evidence.
IsRestored(n, at) ==
  /\ at[n].from[1] \in 1 .. (n - 1)
  /\ RecordedIn(at[n].from, at)
  /\ EligibleIn(at[n].from, n - 1, at[n - 1].accepted, at)

AttemptIn(n, at, batch) ==
  /\ IsAttempt(at[n]) /\ IsEpisode(at[n])
  /\ at[n].src = n - 1
  /\ at[n].micro * at[n].accum = batch
  /\ n < Len(at) => at[n].status = "failed" /\ at[n].known
  /\ n > 1 => IsRestored(n, at)

AttemptsIn(at, batch) ==
  /\ IsSequence(at) /\ Len(at) > 0
  /\ \A n \in DOMAIN at : AttemptIn(n, at, batch)

\* An attempt whose recovery is under way.
IsFailed(n, at) ==
  n \in DOMAIN at /\ at[n].status = "failed" /\ Incidents(at[n].obs) # {}

IsAction(b) ==
  b \in [fam : {"oom", "nan"}, att : {b.att}, plan : {b.plan}, micro : Nat, accum : Nat,
         prev : {b.prev}, rate : {b.rate}, status : {b.status}, receipt : {b.receipt},
         intervened : {b.intervened}]

\* What an executed action left behind.
IsExecuted(b, at) ==
  /\ b.status \in {"executing", "succeeded", "failed"}
  /\ b.att < Len(at)
  /\ at[b.att].plans[b.plan] = at[b.att].accepted
  /\ at[b.att + 1].micro = b.micro

\* What an action was proposed on.
IsProposed(b, at, batch) ==
  /\ IsFailed(b.att, at)
  /\ b.plan \in DOMAIN at[b.att].plans
  /\ CategoriesIn(at[b.att].obs, at[b.att].plans[b.plan]) \subseteq {b.fam, "transient"}
  /\ b.micro * b.accum = batch
  /\ b.fam = "oom" => b.micro < at[b.att].micro

ActionIn(b, at, batch) ==
  /\ IsAction(b) /\ IsProposed(b, at, batch)
  /\ b.receipt = "executed" => IsExecuted(b, at)

Once(acts) ==
  \A a, b \in DOMAIN acts :
    /\ acts[a].receipt = "executed" /\ acts[b].receipt = "executed"
    /\ acts[a].att = acts[b].att
    => a = b

ActionsIn(acts, at, batch) ==
  /\ IsSequence(acts) /\ Once(acts)
  /\ \A a \in DOMAIN acts : ActionIn(acts[a], at, batch)

\* What a driver knows where it is.
Steps ==
  {"idle", "drive", "succeed", "giveup", "record", "check", "bind", "propose", "act", "execute",
   "select", "commit", "poll", "abandon"}
Acting == {"act", "execute", "select", "commit", "poll", "abandon"}

IsDriver(p) ==
  p \in [pc : Steps, att : {p.att}, fam : {"oom", "nan"}, plan : {p.plan},
         snap : {p.snap}, tries : {p.tries}, act : {p.act}, from : {p.from},
         directives : {p.directives}, escalated : {p.escalated}]

\* A planner that read the inputs found a plan that does not cover them.
Behind(s) == Len(s.plans) > 0 => s.plans[Len(s.plans)] # s.accepted

DriverIn(p, at, acts) ==
  /\ IsDriver(p)
  /\ p.pc \notin {"idle", "abandon", "giveup", "succeed"} => IsFailed(p.att, at)
  /\ p.pc \in {"giveup", "succeed"} => p.att \in DOMAIN at /\ at[p.att].status \in Over
  /\ p.pc = "succeed" => at[p.att].status = "succeeded"
  /\ p.pc = "record" => Behind(p.snap[1])
  /\ p.pc \in {"bind", "propose"} =>
       /\ p.plan \in DOMAIN at[p.att].plans
       /\ p.fam = "oom" =>
            ResizeReviewable(CategoriesIn(at[p.att].obs, at[p.att].plans[p.plan]))
  /\ p.pc \in Acting => p.act \in DOMAIN acts
  /\ p.pc = "commit" => p.from[1] \in DOMAIN at /\ RecordedIn(p.from, at)

DriversIn(ds, at, acts) ==
  /\ ds = [d \in Drivers |-> ds[d]]
  /\ \A d \in Drivers : DriverIn(ds[d], at, acts)

\* One process: one task at a time is between two awaits, and the episode it
\* works on is the open one.
AloneIn(ds, last) ==
  \A d \in Drivers :
    /\ ds[d].pc \notin Awaits => \A e \in Drivers \ {d} : ds[e].pc \in Awaits
    /\ ds[d].pc \in {"giveup", "bind", "propose"} => ds[d].att = last

\* The run is about to succeed on a trajectory that is confirmed.
Vouching ==
  \A d \in Drivers : driver[d].pc = "succeed" => Unconfirmed(driver[d].att) = {}

RunInv ==
  /\ run \in RunStatuses /\ IsSequence(applications)
  /\ SuccessVouchedFor /\ RunEndsWithItsWork

Batch == setup.micro * setup.accum

RecoveryInv ==
  /\ setup \in Setups
  /\ AttemptsIn(attempts, Batch)
  /\ ActionsIn(actions, attempts, Batch)
  /\ DriversIn(driver, attempts, actions)
  /\ setup.alone => AloneIn(driver, Latest)
  /\ Vouching /\ RunInv

-----------------------------------------------------------------------------
(* Sequences and evidence. *)

LEMMA SequenceShape ==
  ASSUME NEW s, IsSequence(s)
  PROVE  /\ Len(s) \in Nat /\ DOMAIN s = 1 .. Len(s)
         /\ s = <<>> <=> Len(s) = 0
BY DEF IsSequence

LEMMA EmptyShape == IsSequence(<<>>) /\ DOMAIN <<>> = {} /\ Len(<<>>) = 0
BY DEF IsSequence

\* A function on 1..n is a sequence of length n.
LEMMA FunctionIsSequence ==
  ASSUME NEW n \in Nat, NEW s, s = [i \in 1 .. n |-> s[i]]
  PROVE  IsSequence(s) /\ Len(s) = n
<1> DEFINE T == {s[i] : i \in 1 .. n}
<1>1. DOMAIN s = 1 .. n
  OBVIOUS
<1>2. s \in [1 .. n -> T]
  OBVIOUS
<1> HIDE DEF T
<1>3. s \in Seq(T) /\ Len(s) = n
  BY <1>2
<1> QED BY <1>1, <1>3 DEF IsSequence, T

LEMMA AppendShape ==
  ASSUME NEW s, IsSequence(s), NEW e
  PROVE  /\ IsSequence(Append(s, e))
         /\ Len(Append(s, e)) = Len(s) + 1
         /\ DOMAIN Append(s, e) = 1 .. (Len(s) + 1)
         /\ \A i \in DOMAIN s : Append(s, e)[i] = s[i]
         /\ Append(s, e)[Len(s) + 1] = e
<1> DEFINE T == {s[i] : i \in DOMAIN s} \cup {e}
           a == Append(s, e)
<1>1. s \in Seq(T) /\ e \in T
  BY DEF IsSequence
<1>2. /\ a \in Seq(T) /\ Len(a) = Len(s) + 1
      /\ \A i \in 1 .. Len(s) : a[i] = s[i]
      /\ a[Len(s) + 1] = e
      /\ Len(s) \in Nat /\ DOMAIN a = 1 .. (Len(s) + 1) /\ DOMAIN s = 1 .. Len(s)
  BY <1>1
<1> HIDE DEF a
<1>3. a \in [1 .. (Len(s) + 1) -> T]
  BY <1>2
<1>4. a = [i \in 1 .. (Len(s) + 1) |-> a[i]] /\ Len(s) + 1 \in Nat
  BY <1>2, <1>3
<1>5. IsSequence(a)
  BY <1>4, FunctionIsSequence
<1> QED BY <1>2, <1>5 DEF a

LEMMA UpdateShape ==
  ASSUME NEW s, IsSequence(s), NEW i \in DOMAIN s, NEW e
  PROVE  /\ IsSequence([s EXCEPT ![i] = e])
         /\ Len([s EXCEPT ![i] = e]) = Len(s)
         /\ DOMAIN [s EXCEPT ![i] = e] = DOMAIN s
         /\ [s EXCEPT ![i] = e][i] = e
         /\ \A j \in DOMAIN s : j # i => [s EXCEPT ![i] = e][j] = s[j]
<1> DEFINE u == [s EXCEPT ![i] = e]
<1>1. Len(s) \in Nat /\ DOMAIN s = 1 .. Len(s)
  BY SequenceShape
<1>2. DOMAIN u = 1 .. Len(s) /\ u = [j \in 1 .. Len(s) |-> u[j]]
  BY <1>1
<1>3. u[i] = e /\ \A j \in DOMAIN s : j # i => u[j] = s[j]
  OBVIOUS
<1> HIDE DEF u
<1>4. IsSequence(u) /\ Len(u) = Len(s)
  BY <1>1, <1>2, FunctionIsSequence
<1> QED BY <1>1, <1>2, <1>3, <1>4 DEF u

\* The incidents of an attempt are finitely many.
LEMMA IncidentsFinite ==
  ASSUME NEW obs, IsSequence(obs)
  PROVE  /\ IsFiniteSet(Incidents(obs)) /\ Cardinality(Incidents(obs)) \in Nat
         /\ Incidents(obs) # {} <=> Cardinality(Incidents(obs)) > 0
         /\ \A i : IsFiniteSet(First(obs, i)) /\ Cardinality(First(obs, i)) \in Nat
<1>1. Len(obs) \in Nat /\ DOMAIN obs = 1 .. Len(obs)
  BY SequenceShape
<1>2. IsFiniteSet(1 .. Len(obs))
  BY <1>1, FS_Interval
<1>3. IsFiniteSet(Incidents(obs))
  BY <1>1, <1>2, FS_Subset DEF Incidents
<1>4. \A i : IsFiniteSet(First(obs, i))
  BY <1>3, FS_Subset DEF First
<1> QED BY <1>3, <1>4, FS_CardinalityType, FS_EmptySet

\* Observations are appended and keep what they say.
Extends(x, y) ==
  /\ IsSequence(x) /\ IsSequence(y) /\ Len(x) <= Len(y)
  /\ \A i \in DOMAIN x : /\ y[i].kind = x[i].kind /\ y[i].cat = x[i].cat
                         /\ y[i].step = x[i].step

LEMMA ExtendsDomain ==
  ASSUME NEW x, NEW y, Extends(x, y)
  PROVE  /\ DOMAIN x \subseteq DOMAIN y
         /\ Incidents(x) = Incidents(y) \cap DOMAIN x
         /\ \A i \in DOMAIN x : First(y, i) = First(x, i)
         /\ Cardinality(Incidents(x)) <= Cardinality(Incidents(y))
<1>1. /\ Len(x) \in Nat /\ DOMAIN x = 1 .. Len(x)
      /\ Len(y) \in Nat /\ DOMAIN y = 1 .. Len(y)
  BY SequenceShape DEF Extends
<1>2. DOMAIN x \subseteq DOMAIN y
  BY <1>1 DEF Extends
<1>3. Incidents(x) = Incidents(y) \cap DOMAIN x
  BY <1>2 DEF Extends, Incidents
<1>4. ASSUME NEW i \in DOMAIN x PROVE First(y, i) = First(x, i)
  <2>1. \A j \in Incidents(y) : j <= i => j \in DOMAIN x
    BY <1>1 DEF Incidents
  <2> QED BY <1>3, <2>1 DEF First
<1>5. Cardinality(Incidents(x)) <= Cardinality(Incidents(y))
  BY <1>3, IncidentsFinite, FS_Subset DEF Extends
<1> QED BY <1>2, <1>3, <1>4, <1>5

\* What a plan was decided on does not change when more is recorded.
LEMMA EvidenceStands ==
  ASSUME NEW x, NEW y, Extends(x, y), NEW k \in Nat, k <= Cardinality(Incidents(x))
  PROVE  EvidenceIn(y, k) = EvidenceIn(x, k) /\ EvidenceIn(x, k) \subseteq DOMAIN x
<1>1. /\ Len(x) \in Nat /\ DOMAIN x = 1 .. Len(x)
      /\ Len(y) \in Nat /\ DOMAIN y = 1 .. Len(y)
  BY SequenceShape DEF Extends
<1>2. ASSUME NEW i \in Incidents(y), i \notin DOMAIN x
      PROVE  Cardinality(First(y, i)) > k
  <2>1. Incidents(x) \cup {i} \subseteq First(y, i)
    <3>1. Incidents(x) \subseteq Incidents(y) /\ Incidents(x) \subseteq DOMAIN x
      BY ExtendsDomain
    <3>2. i \in DOMAIN y
      BY DEF Incidents
    <3>3. \A j \in DOMAIN x : j <= i
      BY <1>1, <1>2, <3>2
    <3>4. i <= i
      BY <1>1, <3>2
    <3> QED BY <3>1, <3>3, <3>4 DEF First
  <2>2. i \notin Incidents(x) /\ IsFiniteSet(Incidents(x)) /\ Cardinality(Incidents(x)) \in Nat
    BY <1>2, IncidentsFinite DEF Incidents, Extends
  <2>3. Cardinality(Incidents(x) \cup {i}) = Cardinality(Incidents(x)) + 1
    BY <2>2, FS_AddElement
  <2>4. IsFiniteSet(First(y, i)) /\ Cardinality(First(y, i)) \in Nat
    BY IncidentsFinite DEF Extends
  <2>5. Cardinality(Incidents(x) \cup {i}) <= Cardinality(First(y, i))
    BY <2>1, <2>4, FS_Subset
  <2> QED BY <2>2, <2>3, <2>4, <2>5
<1>3. \A i \in DOMAIN x : i \in EvidenceIn(y, k) <=> i \in EvidenceIn(x, k)
  BY ExtendsDomain DEF EvidenceIn
<1>4. EvidenceIn(x, k) \subseteq DOMAIN x
  BY DEF EvidenceIn, Incidents
<1>5. EvidenceIn(y, k) \subseteq DOMAIN x
  <2> SUFFICES ASSUME NEW i \in EvidenceIn(y, k), i \notin DOMAIN x PROVE FALSE
    OBVIOUS
  <2>1. i \in Incidents(y) /\ Cardinality(First(y, i)) <= k
    BY DEF EvidenceIn
  <2>2. Cardinality(First(y, i)) > k /\ Cardinality(First(y, i)) \in Nat
    BY <2>1, <1>2, IncidentsFinite DEF Extends
  <2> QED BY <2>1, <2>2
<1> QED BY <1>3, <1>4, <1>5

\* An observation at the end.
LEMMA AppendExtends ==
  ASSUME NEW x, IsSequence(x), NEW o
  PROVE  Extends(x, Append(x, o))
<1>1. Len(x) \in Nat /\ DOMAIN x = 1 .. Len(x)
  BY SequenceShape
<1> QED BY <1>1, AppendShape DEF Extends

LEMMA ExtendsItself ==
  ASSUME NEW x, IsSequence(x)
  PROVE  Extends(x, x)
BY SequenceShape DEF Extends

LEMMA IncidentsAre ==
  ASSUME NEW n, NEW k
  PROVE  IncidentsOf(n) = Incidents(attempts[n].obs)
         /\ Evidence(n, k) = EvidenceIn(attempts[n].obs, k)
BY DEF IncidentsOf, Evidence, Incidents, EvidenceIn, First

-----------------------------------------------------------------------------
(* What stays true of attempts that only grow. *)

Evolves(x, y) ==
  /\ y.src = x.src /\ y.micro = x.micro /\ y.accum = x.accum
  /\ y.from = x.from /\ y.directives = x.directives
  /\ x.status \in Over => y.status = x.status
  /\ Extends(x.obs, y.obs)
  /\ Len(x.plans) <= Len(y.plans)
  /\ \A q \in DOMAIN x.plans : y.plans[q] = x.plans[q]

Frozen(x, y) == y.accepted = x.accepted /\ y.plans = x.plans /\ y.known = x.known

Growth(at, new) ==
  /\ IsSequence(at) /\ IsSequence(new) /\ Len(at) <= Len(new)
  /\ \A n \in DOMAIN at :
       /\ IsAttempt(at[n]) /\ IsEpisode(at[n]) /\ IsAttempt(new[n])
       /\ Evolves(at[n], new[n])
       /\ n < Len(at) => Frozen(at[n], new[n])

LEMMA GrowthDomain ==
  ASSUME NEW at, NEW new, Growth(at, new)
  PROVE  /\ DOMAIN at \subseteq DOMAIN new
         /\ Len(at) \in Nat /\ Len(new) \in Nat
         /\ DOMAIN at = 1 .. Len(at) /\ DOMAIN new = 1 .. Len(new)
<1>1. /\ Len(at) \in Nat /\ DOMAIN at = 1 .. Len(at)
      /\ Len(new) \in Nat /\ DOMAIN new = 1 .. Len(new)
  BY SequenceShape DEF Growth
<1> QED BY <1>1 DEF Growth

LEMMA PlansGrow ==
  ASSUME NEW at, NEW new, Growth(at, new), NEW n \in DOMAIN at, NEW q \in DOMAIN at[n].plans
  PROVE  /\ q \in DOMAIN new[n].plans /\ new[n].plans[q] = at[n].plans[q]
         /\ at[n].plans[q] \in Nat /\ at[n].plans[q] > 0
         /\ at[n].plans[q] <= Cardinality(Incidents(at[n].obs))
<1>1. /\ IsSequence(at[n].plans) /\ IsSequence(new[n].plans)
      /\ IsSequence(at[n].obs) /\ at[n].accepted \in Nat
  BY DEF Growth, IsAttempt
<1>2. /\ Len(at[n].plans) \in Nat /\ DOMAIN at[n].plans = 1 .. Len(at[n].plans)
      /\ Len(new[n].plans) \in Nat /\ DOMAIN new[n].plans = 1 .. Len(new[n].plans)
  BY <1>1, SequenceShape
<1>3. /\ Len(at[n].plans) <= Len(new[n].plans)
      /\ new[n].plans[q] = at[n].plans[q]
  BY DEF Growth, Evolves
<1>4. /\ at[n].plans[q] \in 1 .. at[n].accepted
      /\ at[n].accepted <= Cardinality(Incidents(at[n].obs))
  BY DEF Growth, IsEpisode
<1>5. Cardinality(Incidents(at[n].obs)) \in Nat
  BY <1>1, IncidentsFinite
<1>6. q \in DOMAIN new[n].plans
  BY <1>2, <1>3
<1>7. /\ at[n].plans[q] \in Nat /\ at[n].plans[q] > 0
      /\ at[n].plans[q] <= Cardinality(Incidents(at[n].obs))
  BY <1>1, <1>4, <1>5
<1> QED BY <1>3, <1>6, <1>7

LEMMA CategoriesStand ==
  ASSUME NEW x, NEW y, Extends(x, y), NEW k \in Nat, k <= Cardinality(Incidents(x))
  PROVE  CategoriesIn(y, k) = CategoriesIn(x, k)
<1>1. EvidenceIn(y, k) = EvidenceIn(x, k) /\ EvidenceIn(x, k) \subseteq DOMAIN x
  BY EvidenceStands
<1>2. \A i \in EvidenceIn(x, k) : y[i].cat = x[i].cat
  BY <1>1 DEF Extends
<1> QED BY <1>1, <1>2 DEF CategoriesIn

LEMMA CoveredStands ==
  ASSUME NEW at, NEW new, Growth(at, new), NEW n \in DOMAIN at, NEW q \in DOMAIN at[n].plans
  PROVE  CategoriesIn(new[n].obs, new[n].plans[q]) = CategoriesIn(at[n].obs, at[n].plans[q])
<1>1. Extends(at[n].obs, new[n].obs)
  BY DEF Growth, Evolves
<1>2. PICK k : k = at[n].plans[q]
  OBVIOUS
<1>3. k \in Nat /\ k <= Cardinality(Incidents(at[n].obs)) /\ new[n].plans[q] = k
  BY <1>2, PlansGrow
<1> QED BY <1>1, <1>2, <1>3, CategoriesStand

LEMMA FailedStands ==
  ASSUME NEW at, NEW new, Growth(at, new), NEW n, IsFailed(n, at)
  PROVE  IsFailed(n, new)
<1>1. n \in DOMAIN at /\ n \in DOMAIN new
  BY GrowthDomain DEF IsFailed
<1>2. Evolves(at[n], new[n])
  BY <1>1 DEF Growth
<1>3. Incidents(new[n].obs) # {}
  BY <1>2, ExtendsDomain DEF Evolves, IsFailed
<1> QED BY <1>1, <1>2, <1>3 DEF IsFailed, Evolves, Over

LEMMA RecordedStands ==
  ASSUME NEW at, NEW new, Growth(at, new), NEW c, c[1] \in DOMAIN at, RecordedIn(c, at)
  PROVE  /\ c[1] \in DOMAIN new /\ RecordedIn(c, new)
         /\ new[c[1]].obs[c[2]].step = at[c[1]].obs[c[2]].step
<1>1. c[1] \in DOMAIN new /\ Extends(at[c[1]].obs, new[c[1]].obs)
  BY GrowthDomain DEF Growth, Evolves
<1>2. DOMAIN at[c[1]].obs \subseteq DOMAIN new[c[1]].obs
  BY <1>1, ExtendsDomain
<1> QED BY <1>1, <1>2 DEF RecordedIn, Extends

LEMMA EligibleStands ==
  ASSUME NEW at, NEW new, Growth(at, new), NEW c, c[1] \in DOMAIN at, RecordedIn(c, at),
         NEW n \in DOMAIN at, EligibleIn(c, n, at[n].accepted, at)
  PROVE  EligibleIn(c, n, at[n].accepted, new)
<1> DEFINE k == at[n].accepted
<1>1. Extends(at[n].obs, new[n].obs) /\ k \in Nat /\ k <= Cardinality(Incidents(at[n].obs))
  BY DEF Growth, Evolves, IsAttempt, IsEpisode
<1>2. new[c[1]].obs[c[2]].step = at[c[1]].obs[c[2]].step
  BY RecordedStands
<1> HIDE DEF k
<1>3. /\ EvidenceIn(new[n].obs, k) = EvidenceIn(at[n].obs, k)
      /\ EvidenceIn(at[n].obs, k) \subseteq DOMAIN at[n].obs
  BY <1>1, EvidenceStands
<1>4. \A i \in EvidenceIn(at[n].obs, k) :
        new[n].obs[i].step = at[n].obs[i].step /\ new[n].obs[i].cat = at[n].obs[i].cat
  BY <1>1, <1>3 DEF Extends
<1>5. EligibleIn(c, n, k, at)
  BY DEF k
<1>6. EligibleIn(c, n, k, new)
  BY <1>2, <1>3, <1>4, <1>5 DEF EligibleIn
<1> QED BY <1>6 DEF k

\* What was proposed stays proposed, and executed executed.
LEMMA ActionStands ==
  ASSUME NEW at, NEW new, Growth(at, new), NEW batch, NEW b, ActionIn(b, at, batch)
  PROVE  ActionIn(b, new, batch)
<1>1. IsFailed(b.att, at) /\ b.att \in DOMAIN at
  BY DEF ActionIn, IsProposed, IsFailed
<1>2. IsFailed(b.att, new)
  BY <1>1, FailedStands
<1>3. PICK n \in DOMAIN at : n = b.att
  BY <1>1
<1>4. PICK q \in DOMAIN at[n].plans : q = b.plan
  BY <1>3 DEF ActionIn, IsProposed
<1>5. q \in DOMAIN new[n].plans /\ new[n].plans[q] = at[n].plans[q]
  BY PlansGrow
<1>6. CategoriesIn(new[n].obs, new[n].plans[q]) = CategoriesIn(at[n].obs, at[n].plans[q])
  BY CoveredStands
<1>7. new[n].micro = at[n].micro
  BY DEF Growth, Evolves
<1>8. IsProposed(b, new, batch)
  BY <1>2, <1>3, <1>4, <1>5, <1>6, <1>7 DEF ActionIn, IsProposed
<1>9. ASSUME b.receipt = "executed" PROVE IsExecuted(b, new)
  <2>1. n < Len(at) /\ IsExecuted(b, at)
    BY <1>3, <1>9 DEF ActionIn, IsExecuted
  <2>2. n + 1 \in DOMAIN at /\ n < Len(new)
    BY <2>1, GrowthDomain DEF Growth
  <2>3. new[n + 1].micro = at[n + 1].micro
    BY <2>2 DEF Growth, Evolves
  <2>4. new[n].accepted = at[n].accepted
    BY <2>1 DEF Growth, Frozen
  <2> QED BY <1>3, <1>4, <1>5, <2>1, <2>2, <2>3, <2>4 DEF IsExecuted
<1> QED BY <1>8, <1>9 DEF ActionIn

\* So does what a driver knows, while no action goes away.
LEMMA DriverStands ==
  ASSUME NEW at, NEW new, Growth(at, new), NEW p, NEW acts, NEW more,
         DOMAIN acts \subseteq DOMAIN more, DriverIn(p, at, acts)
  PROVE  DriverIn(p, new, more)
<1>1. p.pc \notin {"idle", "abandon", "giveup", "succeed"} => IsFailed(p.att, new)
  BY FailedStands DEF DriverIn
<1>2. ASSUME p.pc \in {"bind", "propose"}
      PROVE  /\ p.plan \in DOMAIN new[p.att].plans
             /\ p.fam = "oom" =>
                  ResizeReviewable(CategoriesIn(new[p.att].obs, new[p.att].plans[p.plan]))
  <2>1. PICK n \in DOMAIN at : n = p.att
    BY <1>2 DEF DriverIn, IsFailed
  <2>2. PICK q \in DOMAIN at[n].plans : q = p.plan
    BY <1>2, <2>1 DEF DriverIn
  <2>3. q \in DOMAIN new[n].plans
    BY PlansGrow
  <2>4. CategoriesIn(new[n].obs, new[n].plans[q]) = CategoriesIn(at[n].obs, at[n].plans[q])
    BY CoveredStands
  <2> QED BY <1>2, <2>1, <2>2, <2>3, <2>4 DEF DriverIn
<1>3. ASSUME p.pc = "commit" PROVE p.from[1] \in DOMAIN new /\ RecordedIn(p.from, new)
  BY <1>3, RecordedStands DEF DriverIn
<1>4. ASSUME p.pc \in {"giveup", "succeed"}
      PROVE  p.att \in DOMAIN new /\ new[p.att].status = at[p.att].status
  <2>1. p.att \in DOMAIN at /\ at[p.att].status \in Over
    BY <1>4 DEF DriverIn
  <2> QED BY <2>1, GrowthDomain DEF Growth, Evolves
<1> QED BY <1>1, <1>2, <1>3, <1>4 DEF DriverIn

-----------------------------------------------------------------------------
(* Changes of the attempts. *)

LEMMA GrowthItself ==
  ASSUME NEW at, NEW batch, AttemptsIn(at, batch)
  PROVE  Growth(at, at)
<1>1. Len(at) \in Nat
  BY SequenceShape DEF AttemptsIn
<1>2. ASSUME NEW n \in DOMAIN at PROVE Evolves(at[n], at[n])
  <2>1. IsAttempt(at[n])
    BY DEF AttemptsIn, AttemptIn
  <2>2. Extends(at[n].obs, at[n].obs)
    BY <2>1, ExtendsItself DEF IsAttempt
  <2>3. Len(at[n].plans) \in Nat
    BY <2>1, SequenceShape DEF IsAttempt
  <2> QED BY <2>2, <2>3 DEF Evolves
<1> QED BY <1>1, <1>2 DEF Growth, Frozen, AttemptsIn, AttemptIn

LEMMA RestoredStands ==
  ASSUME NEW at, NEW new, Growth(at, new), NEW n \in DOMAIN at, n > 1, IsRestored(n, at)
  PROVE  IsRestored(n, new)
<1>1. Len(at) \in Nat /\ DOMAIN at = 1 .. Len(at)
  BY GrowthDomain
<1>2. n - 1 \in DOMAIN at /\ n - 1 < Len(at) /\ \A i \in 1 .. (n - 1) : i \in DOMAIN at
  BY <1>1
<1>3. PICK c : c = at[n].from
  OBVIOUS
<1>4. c[1] \in 1 .. (n - 1) /\ c[1] \in DOMAIN at /\ RecordedIn(c, at)
  BY <1>2, <1>3 DEF IsRestored
<1>5. new[n].from = c
  BY <1>3 DEF Growth, Evolves
<1>6. new[n - 1].accepted = at[n - 1].accepted
  BY <1>2 DEF Growth, Frozen
<1>7. EligibleIn(c, n - 1, at[n - 1].accepted, at)
  BY <1>3 DEF IsRestored
<1>8. EligibleIn(c, n - 1, at[n - 1].accepted, new)
  BY <1>2, <1>4, <1>7, EligibleStands
<1>9. RecordedIn(c, new)
  BY <1>4, RecordedStands
<1> QED BY <1>4, <1>5, <1>6, <1>8, <1>9 DEF IsRestored

LEMMA GrownAttempts ==
  ASSUME NEW at, NEW new, NEW batch, AttemptsIn(at, batch), Growth(at, new),
         NEW n \in DOMAIN at, IsEpisode(new[n]),
         n < Len(new) => at[n].status = "failed" /\ new[n].known
  PROVE  AttemptIn(n, new, batch)
<1>1. AttemptIn(n, at, batch) /\ IsAttempt(new[n]) /\ Evolves(at[n], new[n])
  BY DEF AttemptsIn, Growth
<1>2. new[n].src = n - 1 /\ new[n].micro * new[n].accum = batch
  BY <1>1 DEF AttemptIn, Evolves
<1>3. n > 1 => IsRestored(n, new)
  BY <1>1, RestoredStands DEF AttemptIn
<1>4. n < Len(new) => new[n].status = "failed"
  BY <1>1 DEF Evolves, Over
<1> QED BY <1>1, <1>2, <1>3, <1>4 DEF AttemptIn

\* One attempt moves on.
LEMMA AttemptMoves ==
  ASSUME NEW at, NEW batch, AttemptsIn(at, batch), NEW n \in DOMAIN at, NEW y,
         IsAttempt(y), IsEpisode(y), Evolves(at[n], y), n < Len(at) => Frozen(at[n], y)
  PROVE  /\ Growth(at, [at EXCEPT ![n] = y])
         /\ AttemptsIn([at EXCEPT ![n] = y], batch)
         /\ Len([at EXCEPT ![n] = y]) = Len(at)
         /\ DOMAIN [at EXCEPT ![n] = y] = DOMAIN at
         /\ [at EXCEPT ![n] = y][n] = y
         /\ \A m \in DOMAIN at : m # n => [at EXCEPT ![n] = y][m] = at[m]
<1> DEFINE new == [at EXCEPT ![n] = y]
<1>1. /\ IsSequence(new) /\ Len(new) = Len(at) /\ DOMAIN new = DOMAIN at
      /\ new[n] = y /\ \A m \in DOMAIN at : m # n => new[m] = at[m]
  BY UpdateShape DEF AttemptsIn
<1>2. Growth(at, at) /\ Len(at) \in Nat
  BY GrowthItself, SequenceShape DEF AttemptsIn
<1> HIDE DEF new
<1>3. ASSUME NEW m \in DOMAIN at
      PROVE  /\ IsAttempt(new[m]) /\ IsEpisode(new[m]) /\ Evolves(at[m], new[m])
             /\ m < Len(at) => Frozen(at[m], new[m])
  <2>1. CASE m = n
    BY <1>1, <2>1
  <2>2. CASE m # n
    BY <1>1, <1>2, <2>2 DEF Growth
  <2> QED BY <2>1, <2>2
<1>4. Growth(at, new)
  BY <1>1, <1>2, <1>3 DEF Growth
<1>5. ASSUME NEW m \in DOMAIN new PROVE AttemptIn(m, new, batch)
  <2>1. m \in DOMAIN at /\ AttemptIn(m, at, batch)
    BY <1>1 DEF AttemptsIn
  <2>2. m < Len(new) => at[m].status = "failed" /\ new[m].known
    BY <1>1, <1>3, <2>1 DEF AttemptIn, Frozen
  <2> QED BY <1>3, <1>4, <2>1, <2>2, GrownAttempts
<1>6. AttemptsIn(new, batch)
  BY <1>1, <1>5 DEF AttemptsIn
<1> QED BY <1>1, <1>4, <1>6 DEF new

\* A successor is added.
LEMMA AttemptAdded ==
  ASSUME NEW at, NEW batch, AttemptsIn(at, batch), NEW y,
         IsAttempt(y), IsEpisode(y), y.src = Len(at), y.micro * y.accum = batch,
         at[Len(at)].status = "failed", at[Len(at)].known,
         y.from[1] \in DOMAIN at, RecordedIn(y.from, at),
         EligibleIn(y.from, Len(at), at[Len(at)].accepted, at)
  PROVE  /\ Growth(at, Append(at, y))
         /\ AttemptsIn(Append(at, y), batch)
         /\ Len(Append(at, y)) = Len(at) + 1
         /\ \A m \in DOMAIN at : Append(at, y)[m] = at[m]
         /\ Append(at, y)[Len(at) + 1] = y
<1> DEFINE new == Append(at, y)
           l == Len(at)
<1>1. /\ IsSequence(new) /\ Len(new) = l + 1 /\ DOMAIN new = 1 .. (l + 1)
      /\ \A m \in DOMAIN at : new[m] = at[m]
      /\ new[l + 1] = y
  BY AppendShape DEF AttemptsIn
<1>2. Growth(at, at) /\ l \in Nat /\ DOMAIN at = 1 .. l /\ l > 0
  BY GrowthItself, SequenceShape DEF AttemptsIn
<1> HIDE DEF new, l
<1>3. Growth(at, new)
  <2>1. l <= l + 1 /\ l = Len(at)
    BY <1>2 DEF l
  <2> QED BY <1>1, <1>2, <2>1 DEF Growth
<1>4. ASSUME NEW m \in DOMAIN at PROVE AttemptIn(m, new, batch)
  <2>1. AttemptIn(m, at, batch) /\ new[m] = at[m]
    BY <1>1 DEF AttemptsIn
  <2>2. at[m].status = "failed" /\ new[m].known
    <3>1. CASE m = l
      BY <2>1, <3>1 DEF l
    <3>2. CASE m < l
      BY <2>1, <3>2 DEF AttemptIn, l
    <3> QED BY <1>2, <3>1, <3>2
  <2>3. IsEpisode(new[m])
    BY <2>1 DEF AttemptIn
  <2> QED BY <1>3, <2>2, <2>3, GrownAttempts
<1>5. AttemptIn(l + 1, new, batch)
  <2>1. l \in DOMAIN at /\ (l + 1) - 1 = l
    BY <1>2
  <2>2. PICK c : c = y.from
    OBVIOUS
  <2>3. c[1] \in 1 .. l /\ RecordedIn(c, new)
    BY <1>2, <1>3, <2>2, RecordedStands
  <2>4. EligibleIn(c, l, at[l].accepted, new) /\ new[l].accepted = at[l].accepted
    BY <1>1, <1>3, <2>1, <2>2, EligibleStands DEF l
  <2>5. IsRestored(l + 1, new)
    BY <1>1, <2>1, <2>2, <2>3, <2>4 DEF IsRestored
  <2>6. ~(l + 1 < Len(new))
    BY <1>1, <1>2
  <2>7. y.src = (l + 1) - 1
    BY <2>1 DEF l
  <2> QED BY <1>1, <2>5, <2>6, <2>7 DEF AttemptIn
<1>6. \A m \in DOMAIN new : m \in DOMAIN at \/ m = l + 1
  BY <1>1, <1>2
<1>7. Len(new) > 0
  BY <1>1, <1>2
<1>8. AttemptsIn(new, batch)
  BY <1>1, <1>4, <1>5, <1>6, <1>7 DEF AttemptsIn
<1> QED BY <1>1, <1>3, <1>8 DEF new, l

-----------------------------------------------------------------------------
(* Changes of the actions, of the drivers and of the run. *)

Amends(b, c) ==
  /\ c \in [fam : {b.fam}, att : {b.att}, plan : {b.plan}, micro : {b.micro},
            accum : {b.accum}, prev : {b.prev}, rate : {b.rate}, status : {c.status},
            receipt : {c.receipt}, intervened : {c.intervened}]
  /\ c.receipt = "executed" =>
       /\ b.receipt = "executed"
       /\ c.status = b.status \/ c.status \in {"executing", "succeeded", "failed"}

LEMMA ActionAmended ==
  ASSUME NEW at, NEW batch, NEW b, NEW c, ActionIn(b, at, batch), Amends(b, c)
  PROVE  ActionIn(c, at, batch)
<1>1. /\ c.fam = b.fam /\ c.att = b.att /\ c.plan = b.plan /\ c.micro = b.micro
      /\ c.accum = b.accum
  BY DEF Amends
<1>2. IsAction(c)
  BY DEF Amends, ActionIn, IsAction
<1>3. IsProposed(c, at, batch)
  BY <1>1 DEF ActionIn, IsProposed
<1>4. c.receipt = "executed" => IsExecuted(c, at)
  BY <1>1 DEF ActionIn, IsExecuted, Amends
<1> QED BY <1>2, <1>3, <1>4 DEF ActionIn

LEMMA ActionsAmended ==
  ASSUME NEW at, NEW batch, NEW acts, NEW more, ActionsIn(acts, at, batch),
         more = [a \in DOMAIN acts |-> more[a]],
         \A a \in DOMAIN acts : Amends(acts[a], more[a])
  PROVE  ActionsIn(more, at, batch) /\ DOMAIN more = DOMAIN acts
<1>1. Len(acts) \in Nat /\ DOMAIN acts = 1 .. Len(acts)
  BY SequenceShape DEF ActionsIn
<1>2. IsSequence(more) /\ DOMAIN more = DOMAIN acts
  BY <1>1, FunctionIsSequence
<1>3. \A a \in DOMAIN more : ActionIn(more[a], at, batch)
  BY <1>2, ActionAmended DEF ActionsIn
<1>4. \A a \in DOMAIN acts : more[a].att = acts[a].att
                             /\ (more[a].receipt = "executed" => acts[a].receipt = "executed")
  BY DEF Amends
<1>5. Once(more)
  BY <1>2, <1>4 DEF Once, ActionsIn
<1> QED BY <1>2, <1>3, <1>5 DEF ActionsIn

LEMMA AmendsItself ==
  ASSUME NEW at, NEW batch, NEW b, ActionIn(b, at, batch)
  PROVE  Amends(b, b)
BY DEF ActionIn, IsAction, Amends

LEMMA OneAmended ==
  ASSUME NEW at, NEW batch, NEW acts, ActionsIn(acts, at, batch),
         NEW a \in DOMAIN acts, NEW c, Amends(acts[a], c)
  PROVE  /\ ActionsIn([acts EXCEPT ![a] = c], at, batch)
         /\ DOMAIN [acts EXCEPT ![a] = c] = DOMAIN acts
<1> DEFINE more == [acts EXCEPT ![a] = c]
<1>1. more = [b \in DOMAIN acts |-> more[b]]
  OBVIOUS
<1>2. \A b \in DOMAIN acts : Amends(acts[b], more[b])
  BY AmendsItself DEF ActionsIn
<1> HIDE DEF more
<1>3. ActionsIn(more, at, batch) /\ DOMAIN more = DOMAIN acts
  BY <1>1, <1>2, ActionsAmended
<1> QED BY <1>3 DEF more

LEMMA ActionAdded ==
  ASSUME NEW at, NEW batch, NEW acts, ActionsIn(acts, at, batch),
         NEW b, ActionIn(b, at, batch), b.receipt # "executed"
  PROVE  /\ ActionsIn(Append(acts, b), at, batch)
         /\ DOMAIN acts \subseteq DOMAIN Append(acts, b)
         /\ Len(acts) + 1 \in DOMAIN Append(acts, b)
<1> DEFINE more == Append(acts, b)
<1>1. Len(acts) \in Nat /\ DOMAIN acts = 1 .. Len(acts)
  BY SequenceShape DEF ActionsIn
<1>2. /\ IsSequence(more) /\ DOMAIN more = 1 .. (Len(acts) + 1)
      /\ \A i \in DOMAIN acts : more[i] = acts[i]
      /\ more[Len(acts) + 1] = b
  BY AppendShape DEF ActionsIn
<1> HIDE DEF more
<1>3. /\ DOMAIN acts \subseteq DOMAIN more /\ Len(acts) + 1 \in DOMAIN more
      /\ \A i \in DOMAIN more : i \in DOMAIN acts \/ i = Len(acts) + 1
  BY <1>1, <1>2
<1>4. \A i \in DOMAIN more : ActionIn(more[i], at, batch)
  BY <1>2, <1>3 DEF ActionsIn
<1>5. Once(more)
  BY <1>2, <1>3 DEF Once, ActionsIn
<1>6. ActionsIn(more, at, batch)
  BY <1>2, <1>4, <1>5 DEF ActionsIn
<1> QED BY <1>3, <1>6 DEF more

LEMMA ActionsStand ==
  ASSUME NEW at, NEW new, Growth(at, new), NEW batch, NEW acts, ActionsIn(acts, at, batch)
  PROVE  ActionsIn(acts, new, batch)
BY ActionStands DEF ActionsIn

LEMMA DriversStand ==
  ASSUME NEW at, NEW new, Growth(at, new), NEW ds, NEW acts, NEW more,
         DOMAIN acts \subseteq DOMAIN more, DriversIn(ds, at, acts)
  PROVE  DriversIn(ds, new, more)
BY DriverStands DEF DriversIn

LEMMA DriverMoved ==
  ASSUME NEW at, NEW new, Growth(at, new), NEW ds, NEW acts, NEW more,
         DOMAIN acts \subseteq DOMAIN more, DriversIn(ds, at, acts),
         NEW d \in Drivers, NEW p, DriverIn(p, new, more)
  PROVE  DriversIn([ds EXCEPT ![d] = p], new, more)
<1> DEFINE es == [ds EXCEPT ![d] = p]
<1>1. DriversIn(ds, new, more)
  BY DriversStand
<1>2. es = [e \in Drivers |-> es[e]] /\ \A e \in Drivers : es[e] = IF e = d THEN p ELSE ds[e]
  BY <1>1 DEF DriversIn
<1> HIDE DEF es
<1>3. DriversIn(es, new, more)
  BY <1>1, <1>2 DEF DriversIn
<1> QED BY <1>3 DEF es

LEMMA AloneMoved ==
  ASSUME NEW ds, ds = [e \in Drivers |-> ds[e]], NEW d \in Drivers, NEW p, NEW last,
         \A e \in Drivers \ {d} : ds[e].pc \in Awaits,
         p.pc \in {"giveup", "bind", "propose"} => p.att = last
  PROVE  AloneIn([ds EXCEPT ![d] = p], last)
<1> DEFINE es == [ds EXCEPT ![d] = p]
<1>1. \A e \in Drivers : es[e] = IF e = d THEN p ELSE ds[e]
  OBVIOUS
<1> HIDE DEF es
<1>2. AloneIn(es, last)
  BY <1>1 DEF AloneIn, Awaits
<1> QED BY <1>2 DEF es

-----------------------------------------------------------------------------
(* The steps: what each of them has to show. *)

AppsGrow ==
  /\ IsSequence(applications')
  /\ \A i \in DOMAIN applications :
       i \in DOMAIN applications' /\ applications'[i] = applications[i]

\* Who was vouched for stays so.
LEMMA VouchedStands ==
  ASSUME RecoveryInv, Growth(attempts, attempts'), Len(attempts') = Len(attempts), AppsGrow,
         SuccessVouchedFor, run = "succeeded"
  PROVE  attempts'[Latest].status = "succeeded" /\ Unconfirmed(Latest)' = {}
<1>1. Latest \in DOMAIN attempts /\ Latest' = Latest
  BY SequenceShape DEF RecoveryInv, AttemptsIn, Latest
<1>2. Evolves(attempts[Latest], attempts'[Latest])
  BY <1>1 DEF Growth
<1>3. \A k : Confirmed(Latest, k) => Confirmed(Latest, k)'
  BY <1>1 DEF Confirmed, AppsGrow
<1> QED BY <1>1, <1>2, <1>3 DEF SuccessVouchedFor, Unconfirmed, Evolves, Over

LEMMA ConfirmedStand ==
  ASSUME Growth(attempts, attempts'), AppsGrow, NEW n \in DOMAIN attempts, Unconfirmed(n) = {}
  PROVE  Unconfirmed(n)' = {}
<1>1. attempts'[n].directives = attempts[n].directives
  BY DEF Growth, Evolves
<1>2. \A k : Confirmed(n, k) => Confirmed(n, k)'
  BY DEF Confirmed, AppsGrow
<1> QED BY <1>1, <1>2 DEF Unconfirmed

LEMMA EndedStand ==
  ASSUME RecoveryInv, Growth(attempts, attempts'), Len(attempts') = Len(attempts),
         attempts'[Latest].status \in Over
  PROVE  \A n \in DOMAIN attempts' : attempts'[n].status \in Over
<1>1. /\ Latest \in Nat /\ DOMAIN attempts = 1 .. Latest /\ DOMAIN attempts' = 1 .. Latest
  BY GrowthDomain DEF Latest
<1>2. ASSUME NEW n \in DOMAIN attempts, n < Latest PROVE attempts'[n].status \in Over
  <2>1. attempts[n].status \in Over
    BY <1>2 DEF RecoveryInv, AttemptsIn, AttemptIn, Latest, Over
  <2>2. Evolves(attempts[n], attempts'[n])
    BY DEF Growth
  <2> QED BY <2>1, <2>2 DEF Evolves
<1> QED BY <1>1, <1>2

LEMMA RunKept ==
  ASSUME RecoveryInv, Growth(attempts, attempts'), Len(attempts') = Len(attempts), AppsGrow,
         setup' = setup, run' = run
  PROVE  RunInv'
<1>1. RunInv
  BY DEF RecoveryInv
<1>2. SuccessVouchedFor'
  BY <1>1, VouchedStands DEF RunInv, SuccessVouchedFor, Latest
<1>3. RunEndsWithItsWork'
  <2> SUFFICES ASSUME setup.alone, run # "active", NEW n \in DOMAIN attempts'
               PROVE  attempts'[n].status \in Over
    BY DEF RunEndsWithItsWork, Over
  <2>1. n \in DOMAIN attempts
    BY GrowthDomain
  <2>2. attempts[n].status \in Over /\ Evolves(attempts[n], attempts'[n])
    BY <1>1, <2>1 DEF RunInv, RunEndsWithItsWork, Growth, Over
  <2> QED BY <2>2 DEF Evolves
<1> QED BY <1>1, <1>2, <1>3 DEF RunInv, AppsGrow

LEMMA RunFailed ==
  ASSUME RecoveryInv, Growth(attempts, attempts'), Len(attempts') = Len(attempts), AppsGrow,
         setup' = setup, FailRun, setup.alone => attempts'[Latest].status \in Over
  PROVE  RunInv'
<1>1. CASE run # "active"
  <2>1. run' = run
    BY <1>1 DEF FailRun
  <2> QED BY <2>1, RunKept
<1>2. CASE run = "active"
  <2>1. run' = "failed"
    BY <1>2 DEF FailRun
  <2>2. RunEndsWithItsWork'
    BY EndedStand DEF RunEndsWithItsWork, Over
  <2>3. SuccessVouchedFor'
    BY <2>1 DEF SuccessVouchedFor
  <2> QED BY <2>1, <2>2, <2>3 DEF RunInv, RunStatuses, AppsGrow
<1> QED BY <1>1, <1>2

LEMMA AppsStay ==
  ASSUME RecoveryInv, applications' = applications
  PROVE  AppsGrow
BY DEF RecoveryInv, RunInv, AppsGrow

\* A step of a driver.
LEMMA DriverKeeps ==
  ASSUME RecoveryInv, NEW d \in Drivers, MayRun(d), setup' = setup,
         NEW p, driver' = [driver EXCEPT ![d] = p],
         Growth(attempts, attempts'), DOMAIN actions \subseteq DOMAIN actions',
         AttemptsIn(attempts', Batch), ActionsIn(actions', attempts', Batch),
         DriverIn(p, attempts', actions'),
         setup.alone /\ p.pc \in {"giveup", "bind", "propose"} => p.att = Len(attempts'),
         applications' = applications, p.pc = "succeed" => Unconfirmed(p.att)' = {},
         RunInv'
  PROVE  RecoveryInv'
<1>1. Batch' = Batch
  BY DEF Batch
<1>2. DriversIn(driver', attempts', actions')
  BY DriverMoved DEF RecoveryInv
<1>3. ASSUME setup.alone PROVE AloneIn(driver', Len(attempts'))
  <2>1. \A e \in Drivers \ {d} : driver[e].pc \in Awaits
    BY <1>3 DEF MayRun
  <2>2. driver = [e \in Drivers |-> driver[e]]
    BY DEF RecoveryInv, DriversIn
  <2>3. PICK last : last = Len(attempts')
    OBVIOUS
  <2>4. AloneIn([driver EXCEPT ![d] = p], last)
    BY <1>3, <2>1, <2>2, <2>3, AloneMoved
  <2> QED BY <2>3, <2>4
<1>4. ASSUME NEW e \in Drivers, driver'[e].pc = "succeed"
      PROVE  Unconfirmed(driver[e].att)' = {}
  <2>1. driver'[e] = IF e = d THEN p ELSE driver[e]
    BY DEF RecoveryInv, DriversIn
  <2>2. CASE e = d
    BY <1>4, <2>1, <2>2
  <2>3. CASE e # d
    <3>1. PICK n : n = driver[e].att
      OBVIOUS
    <3>2. Unconfirmed(n) = {} /\ n \in DOMAIN attempts
      BY <1>4, <2>1, <2>3, <3>1 DEF RecoveryInv, Vouching, DriversIn, DriverIn
    <3>3. Unconfirmed(n)' = {}
      BY <3>2, AppsStay, ConfirmedStand
    <3> QED BY <2>1, <2>3, <3>1, <3>3
  <2> QED BY <2>2, <2>3
<1> QED BY <1>1, <1>2, <1>3, <1>4 DEF RecoveryInv, Latest, Vouching

\* A step of nobody's.
LEMMA OthersKeep ==
  ASSUME RecoveryInv, setup' = setup, driver' = driver, Len(attempts') = Len(attempts),
         Growth(attempts, attempts'), DOMAIN actions \subseteq DOMAIN actions',
         AttemptsIn(attempts', Batch), ActionsIn(actions', attempts', Batch), AppsGrow, RunInv'
  PROVE  RecoveryInv'
<1>1. Batch' = Batch
  BY DEF Batch
<1>2. DriversIn(driver', attempts', actions')
  BY DriversStand DEF RecoveryInv
<1>3. ASSUME NEW e \in Drivers, driver[e].pc = "succeed"
      PROVE  Unconfirmed(driver[e].att)' = {}
  <2>1. PICK n : n = driver[e].att
    OBVIOUS
  <2>2. Unconfirmed(n) = {} /\ n \in DOMAIN attempts
    BY <1>3, <2>1 DEF RecoveryInv, Vouching, DriversIn, DriverIn
  <2>3. Unconfirmed(n)' = {}
    BY <2>2, ConfirmedStand
  <2> QED BY <2>1, <2>3
<1> QED BY <1>1, <1>2, <1>3 DEF RecoveryInv, Latest, Vouching

\* A pass that ends, and one that begins.
LEMMA StoppedIn ==
  ASSUME NEW at, NEW acts, NEW e
  PROVE  DriverIn([Idle EXCEPT !.escalated = e], at, acts)
         /\ [Idle EXCEPT !.escalated = e].pc = "idle"
<1> DEFINE p == [Idle EXCEPT !.escalated = e]
<1>1. p \in [pc : {"idle"}, att : {0}, fam : {"oom"}, plan : {0}, snap : {<<>>}, tries : {0},
             act : {0}, from : {<<>>}, directives : {<<>>}, escalated : {e}]
  BY DEF Idle
<1> HIDE DEF p
<1>2. IsDriver(p) /\ p.pc = "idle"
  BY <1>1 DEF IsDriver, Steps
<1>3. DriverIn(p, at, acts)
  BY <1>2 DEF DriverIn, Acting
<1> QED BY <1>2, <1>3 DEF p

LEMMA BegunIn ==
  ASSUME NEW at, NEW acts, NEW n, NEW fam \in {"oom", "nan"}, NEW e, IsFailed(n, at),
         NEW p, p \in [pc : {"drive"}, att : {n}, fam : {fam}, plan : {0}, snap : {<<>>},
                       tries : {0}, act : {0}, from : {<<>>}, directives : {<<>>},
                       escalated : {e}]
  PROVE  DriverIn(p, at, acts) /\ p.pc = "drive"
<1>1. IsDriver(p) /\ p.pc = "drive" /\ p.att = n
  BY DEF IsDriver, Steps
<1> QED BY <1>1 DEF DriverIn, Acting

\* What holds as long as a driver stops, whatever else it did.
LEMMA StopKeeps ==
  ASSUME RecoveryInv, NEW d \in Drivers, MayRun(d), setup' = setup, Stop(d) \/ Escalate(d),
         applications' = applications, Growth(attempts, attempts'), DOMAIN actions \subseteq DOMAIN actions',
         AttemptsIn(attempts', Batch), ActionsIn(actions', attempts', Batch), RunInv'
  PROVE  RecoveryInv'
<1>1. PICK e : driver' = [driver EXCEPT ![d] = [Idle EXCEPT !.escalated = e]]
  BY DEF Stop, Escalate
<1>2. PICK p : p = [Idle EXCEPT !.escalated = e]
  OBVIOUS
<1>3. DriverIn(p, attempts', actions') /\ p.pc = "idle"
  BY <1>2, StoppedIn
<1>4. driver' = [driver EXCEPT ![d] = p]
  BY <1>1, <1>2
<1> QED BY <1>3, <1>4, DriverKeeps

LEMMA DriveKeeps ==
  ASSUME RecoveryInv, NEW d \in Drivers, MayRun(d), setup' = setup,
         NEW n, NEW fam \in {"oom", "nan"}, Drive(d, n, fam), IsFailed(n, attempts'),
         applications' = applications, Growth(attempts, attempts'), DOMAIN actions \subseteq DOMAIN actions',
         AttemptsIn(attempts', Batch), ActionsIn(actions', attempts', Batch), RunInv'
  PROVE  RecoveryInv'
<1>1. PICK e : e = driver[d].escalated
  OBVIOUS
<1>2. PICK p : p = [Idle EXCEPT !.pc = "drive", !.att = n, !.fam = fam, !.escalated = e]
  OBVIOUS
<1>3. p \in [pc : {"drive"}, att : {n}, fam : {fam}, plan : {0}, snap : {<<>>}, tries : {0},
             act : {0}, from : {<<>>}, directives : {<<>>}, escalated : {e}]
  BY <1>2 DEF Idle
<1>4. driver' = [driver EXCEPT ![d] = p]
  BY <1>1, <1>2 DEF Drive
<1>5. DriverIn(p, attempts', actions') /\ p.pc = "drive"
  BY <1>3, BegunIn
<1> QED BY <1>4, <1>5, DriverKeeps

\* An attempt has settled, and its run is next.
LEMMA SettlingKeeps ==
  ASSUME RecoveryInv, NEW d \in Drivers, MayRun(d), setup' = setup,
         NEW n \in DOMAIN attempts', NEW pc \in {"giveup", "succeed"}, NEW note,
         Settling(d, pc, n, note), attempts'[n].status \in Over, n = Len(attempts'),
         pc = "succeed" => attempts'[n].status = "succeeded" /\ Unconfirmed(n)' = {},
         applications' = applications, Growth(attempts, attempts'),
         DOMAIN actions \subseteq DOMAIN actions',
         AttemptsIn(attempts', Batch), ActionsIn(actions', attempts', Batch), RunInv'
  PROVE  RecoveryInv'
<1>1. PICK e : e = (driver[d].escalated \/ note)
  OBVIOUS
<1>2. PICK p : p = [Idle EXCEPT !.pc = pc, !.att = n, !.escalated = e]
  OBVIOUS
<1>3. p \in [pc : {pc}, att : {n}, fam : {"oom"}, plan : {0}, snap : {<<>>}, tries : {0},
             act : {0}, from : {<<>>}, directives : {<<>>}, escalated : {e}]
  BY <1>2 DEF Idle
<1>4. driver' = [driver EXCEPT ![d] = p]
  BY <1>1, <1>2 DEF Settling
<1>5. IsDriver(p) /\ p.pc = pc /\ p.att = n
  BY <1>3 DEF IsDriver, Steps
<1>6. DriverIn(p, attempts', actions')
  BY <1>5 DEF DriverIn, Acting
<1> QED BY <1>4, <1>5, <1>6, DriverKeeps

\* A driver that leaves the tables alone.
LEMMA TablesStay ==
  ASSUME RecoveryInv, attempts' = attempts, setup' = setup
  PROVE  /\ Growth(attempts, attempts') /\ Len(attempts') = Len(attempts)
         /\ AttemptsIn(attempts', Batch)
         /\ ActionsIn(actions, attempts', Batch)
<1>1. AttemptsIn(attempts, Batch) /\ ActionsIn(actions, attempts, Batch)
  BY DEF RecoveryInv
<1>2. Growth(attempts, attempts)
  BY <1>1, GrowthItself
<1> QED BY <1>1, <1>2

-----------------------------------------------------------------------------
(* What the worker reports. *)

\* The attempts that may still report are known by their status.
LEMMA LiveIsLatest ==
  ASSUME RecoveryInv, NEW n \in DOMAIN attempts, attempts[n].status \notin Over
  PROVE  n = Latest
<1>1. n < Len(attempts) => attempts[n].status \in Over
  BY DEF RecoveryInv, AttemptsIn, AttemptIn, Over
<1>2. Len(attempts) \in Nat /\ DOMAIN attempts = 1 .. Len(attempts)
  BY SequenceShape DEF RecoveryInv, AttemptsIn
<1> QED BY <1>1, <1>2 DEF Latest

\* An attempt moves on, and nothing else is touched but actions and run.
LEMMA AttemptStep ==
  ASSUME RecoveryInv, setup' = setup, NEW n \in DOMAIN attempts, NEW y, SetAttempt(n, y),
         IsAttempt(y), IsEpisode(y), Evolves(attempts[n], y),
         n < Latest => Frozen(attempts[n], y)
  PROVE  /\ Growth(attempts, attempts') /\ Len(attempts') = Len(attempts)
         /\ AttemptsIn(attempts', Batch)
         /\ ActionsIn(actions, attempts', Batch)
         /\ attempts'[n] = y
<1>1. attempts' = [attempts EXCEPT ![n] = y]
  BY DEF SetAttempt
<1>2. AttemptsIn(attempts, Batch) /\ ActionsIn(actions, attempts, Batch)
  BY DEF RecoveryInv
<1>3. PICK at : at = attempts
  OBVIOUS
<1>4. PICK batch : batch = Batch
  OBVIOUS
<1>5. AttemptsIn(at, batch) /\ n \in DOMAIN at /\ Evolves(at[n], y)
      /\ (n < Len(at) => Frozen(at[n], y))
  BY <1>2, <1>3, <1>4 DEF Latest
<1>6. /\ Growth(at, [at EXCEPT ![n] = y])
      /\ AttemptsIn([at EXCEPT ![n] = y], batch)
      /\ Len([at EXCEPT ![n] = y]) = Len(at)
      /\ [at EXCEPT ![n] = y][n] = y
  BY <1>5, AttemptMoves
<1>7. /\ Growth(attempts, attempts') /\ Len(attempts') = Len(attempts)
      /\ AttemptsIn(attempts', Batch) /\ attempts'[n] = y
  BY <1>1, <1>3, <1>4, <1>6
<1> QED BY <1>2, <1>7, ActionsStand

\* A status that is not over changes, and nothing else of the attempt.
LEMMA StatusMoves ==
  ASSUME NEW x, IsAttempt(x), IsEpisode(x), x.status \notin Over,
         NEW s \in {"created", "live", "failed", "succeeded"},
         NEW y, y = [x EXCEPT !.status = s]
  PROVE  /\ IsAttempt(y) /\ IsEpisode(y) /\ Evolves(x, y) /\ Frozen(x, y)
         /\ y.status = s /\ y.directives = x.directives /\ y.obs = x.obs
<1>1. y \in [src : {x.src}, status : {s}, micro : {x.micro}, accum : {x.accum},
             from : {x.from}, directives : {x.directives}, obs : {x.obs}, step : {x.step},
             known : {x.known}, accepted : {x.accepted}, plans : {x.plans}, mark : {x.mark}]
  BY DEF IsAttempt
<1>2. /\ y.src = x.src /\ y.micro = x.micro /\ y.accum = x.accum /\ y.from = x.from
      /\ y.directives = x.directives /\ y.obs = x.obs /\ y.known = x.known
      /\ y.accepted = x.accepted /\ y.plans = x.plans /\ y.status = s
  BY <1>1
<1>3. IsAttempt(y)
  BY <1>1, <1>2 DEF IsAttempt
<1>4. IsEpisode(y)
  BY <1>2 DEF IsEpisode
<1>5. Extends(x.obs, y.obs) /\ Len(x.plans) \in Nat
  BY <1>2, ExtendsItself, SequenceShape DEF IsAttempt
<1> QED BY <1>2, <1>3, <1>4, <1>5 DEF Evolves, Frozen

\* An observation is recorded, as evidence of an open episode or not.
LEMMA ObservationMoves ==
  ASSUME NEW x, IsAttempt(x), IsEpisode(x), NEW o, IsObservation(o),
         NEW k, k = x.accepted \/ (x.known /\ o.kind = "incident" /\ k = x.accepted + 1),
         NEW y, y \in [src : {x.src}, status : {x.status}, micro : {x.micro}, accum : {x.accum},
                       from : {x.from}, directives : {x.directives}, obs : {Append(x.obs, o)},
                       step : {y.step}, known : {x.known}, accepted : {k}, plans : {x.plans},
                       mark : {x.mark}]
  PROVE  /\ IsAttempt(y) /\ IsEpisode(y) /\ Evolves(x, y)
         /\ k = x.accepted => Frozen(x, y)
<1>1. /\ y.src = x.src /\ y.micro = x.micro /\ y.accum = x.accum /\ y.from = x.from
      /\ y.directives = x.directives /\ y.obs = Append(x.obs, o) /\ y.known = x.known
      /\ y.accepted = k /\ y.plans = x.plans /\ y.status = x.status
  OBVIOUS
<1>2. /\ IsSequence(x.obs) /\ x.accepted \in Nat /\ IsSequence(x.plans)
      /\ \A i \in DOMAIN x.obs : IsObservation(x.obs[i])
  BY DEF IsAttempt
<1>3. /\ Len(x.obs) \in Nat /\ DOMAIN x.obs = 1 .. Len(x.obs)
      /\ IsSequence(y.obs) /\ DOMAIN y.obs = 1 .. (Len(x.obs) + 1)
      /\ \A i \in DOMAIN x.obs : y.obs[i] = x.obs[i]
      /\ y.obs[Len(x.obs) + 1] = o
  BY <1>1, <1>2, SequenceShape, AppendShape
<1>4. \A i \in DOMAIN y.obs : i \in DOMAIN x.obs \/ i = Len(x.obs) + 1
  BY <1>3
<1>5. k \in Nat
  BY <1>2
<1>6. IsAttempt(y)
  <2>1. \A i \in DOMAIN y.obs : IsObservation(y.obs[i])
    BY <1>2, <1>3, <1>4
  <2>2. y \in [src : {y.src}, status : {"created", "live", "failed", "succeeded"},
               micro : Nat, accum : Nat, from : {y.from}, directives : {y.directives},
               obs : {y.obs}, step : {y.step}, known : BOOLEAN, accepted : Nat,
               plans : {y.plans}, mark : {y.mark}]
    BY <1>5 DEF IsAttempt
  <2> QED BY <1>1, <1>2, <1>3, <2>1, <2>2 DEF IsAttempt
<1>7. Extends(x.obs, y.obs)
  BY <1>1, <1>2, AppendExtends
<1>8. Evolves(x, y)
  BY <1>1, <1>2, <1>7, SequenceShape DEF Evolves
<1>9. /\ Cardinality(Incidents(x.obs)) \in Nat /\ Cardinality(Incidents(y.obs)) \in Nat
      /\ Cardinality(Incidents(x.obs)) <= Cardinality(Incidents(y.obs))
  BY <1>2, <1>3, <1>7, IncidentsFinite, ExtendsDomain
<1>10. ASSUME o.kind = "incident"
       PROVE  Cardinality(Incidents(y.obs)) = Cardinality(Incidents(x.obs)) + 1
  <2>1. Incidents(y.obs) = Incidents(x.obs) \cup {Len(x.obs) + 1}
    BY <1>3, <1>4, <1>10 DEF Incidents
  <2>2. Len(x.obs) + 1 \notin Incidents(x.obs)
    BY <1>3 DEF Incidents
  <2>3. IsFiniteSet(Incidents(x.obs))
    BY <1>2, IncidentsFinite
  <2>4. PICK S, e : S = Incidents(x.obs) /\ e = Len(x.obs) + 1
    OBVIOUS
  <2>5. Cardinality(S \cup {e}) = Cardinality(S) + 1
    <3>1. IsFiniteSet(S) /\ e \notin S
      BY <2>2, <2>3, <2>4
    <3> QED BY <3>1, FS_AddElement
  <2> QED BY <2>1, <2>4, <2>5
<1>11. k <= Cardinality(Incidents(y.obs))
  <2>1. x.accepted <= Cardinality(Incidents(x.obs))
    BY DEF IsEpisode
  <2>2. CASE k = x.accepted
    BY <1>2, <1>9, <2>1, <2>2
  <2>3. CASE o.kind = "incident" /\ k = x.accepted + 1
    BY <1>2, <1>9, <1>10, <2>1, <2>3
  <2> QED BY <2>2, <2>3
<1>12. IsEpisode(y)
  <2>1. ~y.known => y.accepted = 0
    BY <1>1 DEF IsEpisode
  <2>2. \A q \in DOMAIN y.plans : y.plans[q] \in 1 .. y.accepted
    BY <1>1, <1>2, <1>5 DEF IsEpisode
  <2> QED BY <1>1, <1>11, <2>1, <2>2 DEF IsEpisode
<1> QED BY <1>1, <1>6, <1>8, <1>12 DEF Frozen

LEMMA RecordCheckpointKeeps ==
  ASSUME RecoveryInv, NEW n \in DOMAIN attempts, RecordCheckpoint(n)
  PROVE  RecoveryInv'
<1>1. PICK x : x = attempts[n]
  OBVIOUS
<1>2. IsAttempt(x) /\ IsEpisode(x)
  BY <1>1 DEF RecoveryInv, AttemptsIn, AttemptIn
<1>3. PICK o : o = [kind |-> "checkpoint", cat |-> "none", step |-> x.step + 1, valid |-> TRUE,
                    embodied |-> Embodied(x.from)
                                   \cup {<<n, k>> : k \in DOMAIN x.directives}]
  OBVIOUS
<1>4. IsObservation(o)
  BY <1>3 DEF IsObservation
<1>5. PICK y : y = [[x EXCEPT !.obs = Append(@, o)] EXCEPT !.step = @ + 1]
  OBVIOUS
<1>6. y \in [src : {x.src}, status : {x.status}, micro : {x.micro}, accum : {x.accum},
             from : {x.from}, directives : {x.directives}, obs : {Append(x.obs, o)},
             step : {y.step}, known : {x.known}, accepted : {x.accepted}, plans : {x.plans},
             mark : {x.mark}]
  BY <1>2, <1>5 DEF IsAttempt
<1>7. IsAttempt(y) /\ IsEpisode(y) /\ Evolves(x, y) /\ Frozen(x, y)
  BY <1>2, <1>4, <1>6, ObservationMoves
<1>8. SetAttempt(n, y)
  BY <1>1, <1>3, <1>5 DEF RecordCheckpoint, Observed
<1>9. UNCHANGED <<setup, run, actions, applications, driver>>
  BY DEF RecordCheckpoint
<1>10. /\ Growth(attempts, attempts') /\ Len(attempts') = Len(attempts)
       /\ AttemptsIn(attempts', Batch) /\ ActionsIn(actions, attempts', Batch)
  BY <1>1, <1>7, <1>8, <1>9, AttemptStep
<1>11. RunInv'
  BY <1>9, <1>10, AppsStay, RunKept
<1> QED BY <1>9, <1>10, <1>11, AppsStay, OthersKeep

LEMMA RecordIncidentKeeps ==
  ASSUME RecoveryInv, NEW n \in DOMAIN attempts, NEW cat, RecordIncident(n, cat)
  PROVE  RecoveryInv'
<1>1. PICK x : x = attempts[n]
  OBVIOUS
<1>2. IsAttempt(x) /\ IsEpisode(x)
  BY <1>1 DEF RecoveryInv, AttemptsIn, AttemptIn
<1>3. PICK o : o = [kind |-> "incident", cat |-> cat, step |-> x.step, valid |-> TRUE,
                    embodied |-> {}]
  OBVIOUS
<1>4. IsObservation(o) /\ o.kind = "incident"
  BY <1>3 DEF IsObservation
<1>5. PICK k : k = IF x.known /\ Open(n) THEN x.accepted + 1 ELSE x.accepted
  OBVIOUS
<1>6. PICK y : y = [[x EXCEPT !.obs = Append(@, o)] EXCEPT !.accepted = k]
  OBVIOUS
<1>7. y \in [src : {x.src}, status : {x.status}, micro : {x.micro}, accum : {x.accum},
             from : {x.from}, directives : {x.directives}, obs : {Append(x.obs, o)},
             step : {y.step}, known : {x.known}, accepted : {k}, plans : {x.plans},
             mark : {x.mark}]
  BY <1>2, <1>6 DEF IsAttempt
<1>8. k = x.accepted \/ (x.known /\ o.kind = "incident" /\ k = x.accepted + 1)
  BY <1>4, <1>5
<1>9. /\ IsAttempt(y) /\ IsEpisode(y) /\ Evolves(x, y)
      /\ k = x.accepted => Frozen(x, y)
  BY <1>2, <1>4, <1>7, <1>8, ObservationMoves
<1>10. n < Latest => Frozen(x, y)
  BY <1>5, <1>9, SequenceShape DEF Open, Latest, RecoveryInv, AttemptsIn
<1>11. SetAttempt(n, y)
  <2>1. Observed(n, o) = [x EXCEPT !.obs = Append(@, o)]
    BY <1>1 DEF Observed
  <2>2. [x EXCEPT !.obs = Append(@, o)].accepted = x.accepted
    BY <1>2 DEF IsAttempt
  <2>3. y = [Observed(n, o) EXCEPT !.accepted = IF attempts[n].known /\ Open(n) THEN @ + 1 ELSE @]
    BY <1>1, <1>5, <1>6, <2>1, <2>2
  <2> QED BY <1>1, <1>3, <2>3 DEF RecordIncident
<1>12. UNCHANGED <<setup, run, actions, applications, driver>>
  BY DEF RecordIncident
<1>13. /\ Growth(attempts, attempts') /\ Len(attempts') = Len(attempts)
       /\ AttemptsIn(attempts', Batch) /\ ActionsIn(actions, attempts', Batch)
  BY <1>1, <1>9, <1>10, <1>11, <1>12, AttemptStep
<1>14. RunInv'
  BY <1>12, <1>13, AppsStay, RunKept
<1> QED BY <1>12, <1>13, <1>14, AppsStay, OthersKeep

-----------------------------------------------------------------------------
(* What the runtime answers, and how attempts end. *)

LEMMA SettledIn ==
  ASSUME NEW at, NEW batch, ActionsIn(actions, at, batch), NEW as,
         NEW s \in {"succeeded", "failed"}, SettleAction(as, s)
  PROVE  ActionsIn(actions', at, batch) /\ DOMAIN actions' = DOMAIN actions
<1>1. actions' = [a \in DOMAIN actions |->
                    IF a \in as THEN [actions[a] EXCEPT !.status = s] ELSE actions[a]]
  BY DEF SettleAction
<1>2. ASSUME NEW a \in DOMAIN actions PROVE Amends(actions[a], actions'[a])
  <2>1. PICK b : b = actions[a]
    OBVIOUS
  <2>2. ActionIn(b, at, batch)
    BY <2>1 DEF ActionsIn
  <2>3. CASE a \in as
    <3>1. PICK c : c = [b EXCEPT !.status = s]
      OBVIOUS
    <3>2. c \in [fam : {b.fam}, att : {b.att}, plan : {b.plan}, micro : {b.micro},
                 accum : {b.accum}, prev : {b.prev}, rate : {b.rate}, status : {s},
                 receipt : {b.receipt}, intervened : {b.intervened}]
      BY <2>2, <3>1 DEF ActionIn, IsAction
    <3>3. Amends(b, c)
      BY <3>2 DEF Amends
    <3> QED BY <1>1, <2>1, <2>3, <3>1, <3>3
  <2>4. CASE a \notin as
    BY <1>1, <2>1, <2>2, <2>4, AmendsItself
  <2> QED BY <2>3, <2>4
<1>3. actions' = [a \in DOMAIN actions |-> actions'[a]]
  BY <1>1
<1> QED BY <1>2, <1>3, ActionsAmended

\* The status of the attempt at work changes, and actions settle with it.
LEMMA StatusStep ==
  ASSUME RecoveryInv, setup' = setup, NEW n \in DOMAIN attempts,
         attempts[n].status \notin Over, NEW s \in {"created", "live", "failed", "succeeded"},
         SetAttempt(n, [attempts[n] EXCEPT !.status = s]),
         NEW as, NEW t \in {"succeeded", "failed"}, SettleAction(as, t)
  PROVE  /\ Growth(attempts, attempts') /\ Len(attempts') = Len(attempts)
         /\ AttemptsIn(attempts', Batch) /\ ActionsIn(actions', attempts', Batch)
         /\ DOMAIN actions' = DOMAIN actions
         /\ n = Latest /\ attempts'[n].status = s
         /\ attempts'[n].directives = attempts[n].directives
         /\ attempts'[n].obs = attempts[n].obs
<1>1. PICK x, y : x = attempts[n] /\ y = [x EXCEPT !.status = s]
  OBVIOUS
<1>2. IsAttempt(x) /\ IsEpisode(x)
  BY <1>1 DEF RecoveryInv, AttemptsIn, AttemptIn
<1>3. /\ IsAttempt(y) /\ IsEpisode(y) /\ Evolves(x, y) /\ Frozen(x, y)
      /\ y.status = s /\ y.directives = x.directives /\ y.obs = x.obs
  BY <1>1, <1>2, StatusMoves
<1>4. SetAttempt(n, y)
  BY <1>1
<1>5. /\ Growth(attempts, attempts') /\ Len(attempts') = Len(attempts)
      /\ AttemptsIn(attempts', Batch) /\ ActionsIn(actions, attempts', Batch)
      /\ attempts'[n] = y
  BY <1>1, <1>3, <1>4, AttemptStep
<1>6. ActionsIn(actions', attempts', Batch) /\ DOMAIN actions' = DOMAIN actions
  BY <1>5, SettledIn
<1> QED BY <1>1, <1>3, <1>5, <1>6, LiveIsLatest

LEMMA ConfirmKeeps ==
  ASSUME RecoveryInv, NEW n \in DOMAIN attempts, Confirm(n)
  PROVE  RecoveryInv'
<1>1. PICK as : SettleAction(as, "succeeded")
  BY DEF Confirm
<1>2. /\ SetAttempt(n, [attempts[n] EXCEPT !.status = "live"])
      /\ attempts[n].status \notin Over
      /\ UNCHANGED <<setup, run, applications, driver>>
  BY DEF Confirm, Over
<1>3. /\ Growth(attempts, attempts') /\ Len(attempts') = Len(attempts)
      /\ AttemptsIn(attempts', Batch) /\ ActionsIn(actions', attempts', Batch)
      /\ DOMAIN actions' = DOMAIN actions
  BY <1>1, <1>2, StatusStep
<1>4. RunInv'
  BY <1>2, <1>3, AppsStay, RunKept
<1> QED BY <1>2, <1>3, <1>4, AppsStay, OthersKeep

LEMMA RefuseKeeps ==
  ASSUME RecoveryInv, NEW n \in DOMAIN attempts, Refuse(n)
  PROVE  RecoveryInv'
<1>1. PICK as : SettleAction(as, "failed")
  BY DEF Refuse
<1>2. UNCHANGED <<setup, run, attempts, applications, driver>>
  BY DEF Refuse
<1>3. /\ Growth(attempts, attempts') /\ Len(attempts') = Len(attempts)
      /\ AttemptsIn(attempts', Batch) /\ ActionsIn(actions, attempts', Batch)
  BY <1>2, TablesStay
<1>4. ActionsIn(actions', attempts', Batch) /\ DOMAIN actions' = DOMAIN actions
  BY <1>1, <1>3, SettledIn
<1>5. RunInv'
  BY <1>2, <1>3, AppsStay, RunKept
<1> QED BY <1>2, <1>3, <1>4, <1>5, AppsStay, OthersKeep

\* Without an action to settle with it.
LEMMA SettleRefusedKeeps ==
  ASSUME RecoveryInv, NEW d \in Drivers, NEW n \in DOMAIN attempts, SettleRefused(d, n)
  PROVE  RecoveryInv'
<1>1. /\ SetAttempt(n, [attempts[n] EXCEPT !.status = "failed"])
      /\ attempts[n].status \notin Over /\ Settling(d, "giveup", n, FALSE)
      /\ UNCHANGED <<setup, run, actions, applications>> /\ MayRun(d)
  BY DEF SettleRefused, At, Over
<1>2. PICK x, y : x = attempts[n] /\ y = [x EXCEPT !.status = "failed"]
  OBVIOUS
<1>3. IsAttempt(x) /\ IsEpisode(x)
  BY <1>2 DEF RecoveryInv, AttemptsIn, AttemptIn
<1>4. /\ IsAttempt(y) /\ IsEpisode(y) /\ Evolves(x, y) /\ Frozen(x, y) /\ y.status = "failed"
  BY <1>1, <1>2, <1>3, StatusMoves
<1>5. /\ Growth(attempts, attempts') /\ Len(attempts') = Len(attempts)
      /\ AttemptsIn(attempts', Batch) /\ ActionsIn(actions', attempts', Batch)
      /\ attempts'[n] = y
  BY <1>1, <1>2, <1>4, AttemptStep
<1>6. n = Len(attempts') /\ n \in DOMAIN attempts' /\ attempts'[n].status \in Over
  BY <1>1, <1>4, <1>5, LiveIsLatest, GrowthDomain DEF Latest, Over
<1>7. RunInv'
  BY <1>1, <1>5, AppsStay, RunKept
<1> QED BY <1>1, <1>5, <1>6, <1>7, SettlingKeeps

LEMMA RecordApplicationKeeps ==
  ASSUME RecoveryInv, NEW n \in DOMAIN attempts, RecordApplication(n)
  PROVE  RecoveryInv'
<1>1. PICK as : SettleAction(as, "succeeded")
  BY DEF RecordApplication
<1>2. PICK e : applications' = Append(applications, e)
  BY DEF RecordApplication
<1>3. UNCHANGED <<setup, run, attempts, driver>>
  BY DEF RecordApplication
<1>4. /\ Growth(attempts, attempts') /\ Len(attempts') = Len(attempts)
      /\ AttemptsIn(attempts', Batch) /\ ActionsIn(actions, attempts', Batch)
  BY <1>3, TablesStay
<1>5. ActionsIn(actions', attempts', Batch) /\ DOMAIN actions' = DOMAIN actions
  BY <1>1, <1>4, SettledIn
<1>6. AppsGrow
  <2>1. IsSequence(applications)
    BY DEF RecoveryInv, RunInv
  <2>2. /\ Len(applications) \in Nat /\ DOMAIN applications = 1 .. Len(applications)
        /\ IsSequence(applications') /\ DOMAIN applications' = 1 .. (Len(applications) + 1)
        /\ \A i \in DOMAIN applications : applications'[i] = applications[i]
    BY <1>2, <2>1, SequenceShape, AppendShape
  <2>3. DOMAIN applications \subseteq DOMAIN applications'
    BY <2>2
  <2> QED BY <2>2, <2>3 DEF AppsGrow
<1>7. RunInv'
  BY <1>3, <1>4, <1>6, RunKept
<1> QED BY <1>3, <1>4, <1>5, <1>6, <1>7, OthersKeep

LEMMA RotKeeps ==
  ASSUME RecoveryInv, NEW n \in DOMAIN attempts, NEW i \in DOMAIN attempts[n].obs, Rot(n, i)
  PROVE  RecoveryInv'
<1>1. PICK x : x = attempts[n]
  OBVIOUS
<1>2. IsAttempt(x) /\ IsEpisode(x) /\ i \in DOMAIN x.obs
  BY <1>1 DEF RecoveryInv, AttemptsIn, AttemptIn
<1>3. PICK o : o = [x.obs[i] EXCEPT !.valid = FALSE]
  OBVIOUS
<1>4. IsObservation(x.obs[i])
  BY <1>2 DEF IsAttempt
<1>5. o \in [kind : {x.obs[i].kind}, cat : {x.obs[i].cat}, step : {x.obs[i].step},
             valid : {FALSE}, embodied : {x.obs[i].embodied}]
  BY <1>3, <1>4 DEF IsObservation
<1>6. IsObservation(o) /\ o.kind = x.obs[i].kind /\ o.cat = x.obs[i].cat /\ o.step = x.obs[i].step
  BY <1>4, <1>5 DEF IsObservation
<1>7. PICK obs : obs = [x.obs EXCEPT ![i] = o]
  OBVIOUS
<1>8. IsSequence(x.obs) /\ IsSequence(x.plans)
  BY <1>2 DEF IsAttempt
<1>9. /\ IsSequence(obs) /\ Len(obs) = Len(x.obs) /\ DOMAIN obs = DOMAIN x.obs
      /\ obs[i] = o /\ \A j \in DOMAIN x.obs : j # i => obs[j] = x.obs[j]
  BY <1>2, <1>7, <1>8, UpdateShape
<1>10. Len(x.obs) \in Nat /\ Len(x.plans) \in Nat
  BY <1>8, SequenceShape
<1>11. Extends(x.obs, obs)
  BY <1>6, <1>8, <1>9, <1>10 DEF Extends
<1>12. Incidents(obs) = Incidents(x.obs)
  BY <1>6, <1>9 DEF Incidents
<1>13. PICK y : y = [x EXCEPT !.obs[i].valid = FALSE]
  OBVIOUS
<1>14. y \in [src : {x.src}, status : {x.status}, micro : {x.micro}, accum : {x.accum},
              from : {x.from}, directives : {x.directives}, obs : {obs}, step : {x.step},
              known : {x.known}, accepted : {x.accepted}, plans : {x.plans}, mark : {x.mark}]
  BY <1>2, <1>3, <1>7, <1>13 DEF IsAttempt
<1>15. /\ y.src = x.src /\ y.micro = x.micro /\ y.accum = x.accum /\ y.from = x.from
       /\ y.directives = x.directives /\ y.obs = obs /\ y.known = x.known
       /\ y.accepted = x.accepted /\ y.plans = x.plans /\ y.status = x.status
  BY <1>14
<1>16. IsAttempt(y)
  <2>1. \A j \in DOMAIN y.obs : IsObservation(y.obs[j])
    BY <1>2, <1>6, <1>9, <1>15 DEF IsAttempt
  <2> QED BY <1>2, <1>8, <1>9, <1>14, <1>15, <2>1 DEF IsAttempt
<1>17. IsEpisode(y)
  BY <1>2, <1>12, <1>15 DEF IsEpisode
<1>18. Evolves(x, y) /\ Frozen(x, y)
  BY <1>10, <1>11, <1>15 DEF Evolves, Frozen
<1>19. SetAttempt(n, y)
  BY <1>1, <1>13 DEF Rot, SetAttempt
<1>20. UNCHANGED <<setup, run, actions, applications, driver>>
  BY DEF Rot
<1>21. /\ Growth(attempts, attempts') /\ Len(attempts') = Len(attempts)
       /\ AttemptsIn(attempts', Batch) /\ ActionsIn(actions, attempts', Batch)
  BY <1>1, <1>16, <1>17, <1>18, <1>19, <1>20, AttemptStep
<1>22. RunInv'
  BY <1>20, <1>21, AppsStay, RunKept
<1> QED BY <1>20, <1>21, <1>22, AppsStay, OthersKeep

\* An attempt that succeeded decides its run.
LEMMA EndSucceededKeeps ==
  ASSUME RecoveryInv, NEW d \in Drivers, NEW n \in DOMAIN attempts, EndSucceeded(d, n)
  PROVE  RecoveryInv'
<1>1. PICK as : SettleAction(as, "failed")
  BY DEF EndSucceeded
<1>2. /\ SetAttempt(n, [attempts[n] EXCEPT !.status = "succeeded"])
      /\ attempts[n].status \notin Over
      /\ UNCHANGED <<setup, run, applications>> /\ MayRun(d)
  BY DEF EndSucceeded, Live, At, Over
<1>3. /\ Growth(attempts, attempts') /\ Len(attempts') = Len(attempts)
      /\ AttemptsIn(attempts', Batch) /\ ActionsIn(actions', attempts', Batch)
      /\ DOMAIN actions' = DOMAIN actions
      /\ n = Latest /\ attempts'[n].status = "succeeded"
      /\ attempts'[n].directives = attempts[n].directives
  BY <1>1, <1>2, StatusStep
<1>4. RunInv'
  BY <1>2, <1>3, AppsStay, RunKept
<1>5. n = Len(attempts') /\ n \in DOMAIN attempts' /\ attempts'[n].status \in Over
  BY <1>3, GrowthDomain DEF Latest, Over
<1>6. CASE Unconfirmed(n) = {} /\ Settling(d, "succeed", n, FALSE)
  <2>1. Unconfirmed(n)' = {}
    BY <1>2, <1>3, <1>6, AppsStay, ConfirmedStand
  <2> QED BY <1>2, <1>3, <1>4, <1>5, <1>6, <2>1, SettlingKeeps
<1>7. CASE Settling(d, "giveup", n, TRUE)
  BY <1>2, <1>3, <1>4, <1>5, <1>7, SettlingKeeps
<1> QED BY <1>6, <1>7 DEF EndSucceeded

LEMMA EndFailedKeeps ==
  ASSUME RecoveryInv, NEW d \in Drivers, NEW n \in DOMAIN attempts, EndFailed(d, n)
  PROVE  RecoveryInv'
<1>1. PICK as : SettleAction(as, "failed")
  BY DEF EndFailed
<1>2. /\ SetAttempt(n, [attempts[n] EXCEPT !.status = "failed"])
      /\ attempts[n].status \notin Over
      /\ UNCHANGED <<setup, run, applications>> /\ MayRun(d)
  BY DEF EndFailed, Live, At, Over
<1>3. /\ Growth(attempts, attempts') /\ Len(attempts') = Len(attempts)
      /\ AttemptsIn(attempts', Batch) /\ ActionsIn(actions', attempts', Batch)
      /\ DOMAIN actions' = DOMAIN actions
      /\ n = Latest /\ attempts'[n].status = "failed"
      /\ attempts'[n].obs = attempts[n].obs
  BY <1>1, <1>2, StatusStep
<1>4. CASE Recoverable(n) /\ d \in setup.managed
  <2>1. Drive(d, n, Family(n))
    BY <1>4 DEF EndFailed
  <2>2. Incidents(attempts[n].obs) # {}
    BY <1>4 DEF Recoverable, Diagnosed, IncidentsOf, Incidents
  <2>3. IsFailed(n, attempts')
    BY <1>3, <2>2, GrowthDomain DEF IsFailed
  <2>4. PICK fam \in {"oom", "nan"} : fam = Family(n)
    BY DEF Family
  <2>5. RunInv'
    BY <1>2, <1>3, <2>1, AppsStay, RunKept
  <2> QED BY <1>2, <1>3, <2>1, <2>3, <2>4, <2>5, DriveKeeps
<1>5. CASE ~(Recoverable(n) /\ d \in setup.managed)
  <2>1. Settling(d, "giveup", n, FALSE)
    BY <1>5 DEF EndFailed
  <2>2. RunInv'
    BY <1>2, <1>3, AppsStay, RunKept
  <2>3. n = Len(attempts') /\ n \in DOMAIN attempts' /\ attempts'[n].status \in Over
    BY <1>3, GrowthDomain DEF Latest, Over
  <2> QED BY <1>2, <1>3, <2>1, <2>2, <2>3, SettlingKeeps
<1> QED BY <1>4, <1>5

-----------------------------------------------------------------------------
(* A pass of recovery: up to the action. *)

\* Nothing but drivers and actions change.
LEMMA AttemptsStay ==
  ASSUME RecoveryInv, UNCHANGED <<setup, run, attempts, applications>>
  PROVE  /\ Growth(attempts, attempts') /\ Len(attempts') = Len(attempts)
         /\ AttemptsIn(attempts', Batch) /\ ActionsIn(actions, attempts', Batch)
         /\ RunInv'
<1>1. /\ Growth(attempts, attempts') /\ Len(attempts') = Len(attempts)
      /\ AttemptsIn(attempts', Batch) /\ ActionsIn(actions, attempts', Batch)
  BY TablesStay
<1> QED BY <1>1, AppsStay, RunKept

LEMMA PassMoves ==
  ASSUME RecoveryInv, NEW d \in Drivers, MayRun(d),
         UNCHANGED <<setup, run, attempts, actions, applications>>,
         NEW p, driver' = [driver EXCEPT ![d] = p], DriverIn(p, attempts, actions),
         setup.alone /\ p.pc \in {"giveup", "bind", "propose"} => p.att = Latest,
         p.pc # "succeed"
  PROVE  RecoveryInv'
<1>1. /\ Growth(attempts, attempts') /\ Len(attempts') = Len(attempts)
      /\ AttemptsIn(attempts', Batch) /\ ActionsIn(actions', attempts', Batch)
      /\ RunInv' /\ DOMAIN actions \subseteq DOMAIN actions'
  BY AttemptsStay
<1>2. DriverIn(p, attempts', actions')
  OBVIOUS
<1> QED BY <1>1, <1>2, DriverKeeps DEF Latest

LEMMA PassStops ==
  ASSUME RecoveryInv, NEW d \in Drivers, MayRun(d), Stop(d) \/ Escalate(d),
         UNCHANGED <<setup, run, attempts, actions, applications>>
  PROVE  RecoveryInv'
<1>1. /\ Growth(attempts, attempts')
      /\ AttemptsIn(attempts', Batch) /\ ActionsIn(actions', attempts', Batch)
      /\ RunInv' /\ DOMAIN actions \subseteq DOMAIN actions'
  BY AttemptsStay
<1> QED BY <1>1, StopKeeps

\* What a driver is.
LEMMA DriverIs ==
  ASSUME RecoveryInv, NEW d \in Drivers
  PROVE  /\ DriverIn(driver[d], attempts, actions) /\ IsDriver(driver[d])
         /\ driver = [e \in Drivers |-> driver[e]]
         /\ setup.alone /\ driver[d].pc \in {"giveup", "bind", "propose"}
              => driver[d].att = Latest
BY DEF RecoveryInv, DriversIn, DriverIn, AloneIn

LEMMA PcMoves ==
  ASSUME NEW q, IsDriver(q), NEW s \in Steps, NEW p, p = [q EXCEPT !.pc = s]
  PROVE  /\ IsDriver(p) /\ p.pc = s /\ p.att = q.att /\ p.fam = q.fam /\ p.plan = q.plan
         /\ p.snap = q.snap /\ p.act = q.act /\ p.from = q.from
<1>1. p \in [pc : {s}, att : {q.att}, fam : {q.fam}, plan : {q.plan}, snap : {q.snap},
             tries : {q.tries}, act : {q.act}, from : {q.from}, directives : {q.directives},
             escalated : {q.escalated}]
  BY DEF IsDriver
<1> QED BY <1>1 DEF IsDriver

LEMMA GotoMoves ==
  ASSUME RecoveryInv, NEW d \in Drivers, NEW s \in Steps, Goto(d, s)
  PROVE  \E p : /\ driver' = [driver EXCEPT ![d] = p]
                /\ IsDriver(p) /\ p.pc = s /\ p.att = driver[d].att /\ p.fam = driver[d].fam
                /\ p.plan = driver[d].plan /\ p.snap = driver[d].snap
                /\ p.act = driver[d].act /\ p.from = driver[d].from
<1>1. PICK q : q = driver[d]
  OBVIOUS
<1>2. PICK p : p = [q EXCEPT !.pc = s]
  OBVIOUS
<1>3. IsDriver(q)
  BY <1>1, DriverIs
<1>4. /\ IsDriver(p) /\ p.pc = s /\ p.att = q.att /\ p.fam = q.fam /\ p.plan = q.plan
      /\ p.snap = q.snap /\ p.act = q.act /\ p.from = q.from
  BY <1>2, <1>3, PcMoves
<1>5. driver' = [driver EXCEPT ![d] = p]
  BY <1>1, <1>2 DEF Goto
<1> WITNESS p
<1> QED BY <1>1, <1>4, <1>5

LEMMA LatestIs ==
  ASSUME RecoveryInv
  PROVE  Latest \in Nat /\ Latest \in DOMAIN attempts /\ DOMAIN attempts = 1 .. Latest
BY SequenceShape DEF RecoveryInv, AttemptsIn, Latest

LEMMA RecoverableIn ==
  ASSUME NEW n, Recoverable(n)
  PROVE  Incidents(attempts[n].obs) # {}
BY DEF Recoverable, Diagnosed, IncidentsOf, Incidents

LEMMA AttachKeeps ==
  ASSUME RecoveryInv, NEW d \in Drivers, Attach(d)
  PROVE  RecoveryInv'
<1>1. /\ MayRun(d) /\ Drive(d, Latest, Family(Latest))
      /\ attempts[Latest].status = "failed" /\ Recoverable(Latest)
      /\ UNCHANGED <<setup, run, attempts, actions, applications>>
  BY DEF Attach, At
<1>2. PICK n : n = Latest
  OBVIOUS
<1>3. PICK fam \in {"oom", "nan"} : fam = Family(n)
  BY DEF Family
<1>4. IsFailed(n, attempts')
  BY <1>1, <1>2, LatestIs, RecoverableIn DEF IsFailed
<1>5. /\ Growth(attempts, attempts')
      /\ AttemptsIn(attempts', Batch) /\ ActionsIn(actions', attempts', Batch)
      /\ RunInv' /\ DOMAIN actions \subseteq DOMAIN actions'
  BY <1>1, AttemptsStay
<1> QED BY <1>1, <1>2, <1>3, <1>4, <1>5, DriveKeeps

LEMMA DriveUnmanagedKeeps ==
  ASSUME RecoveryInv, NEW d \in Drivers, DriveUnmanaged(d)
  PROVE  RecoveryInv'
<1>1. /\ MayRun(d) /\ driver[d].pc = "drive"
      /\ UNCHANGED <<setup, run, attempts, actions, applications>>
  BY DEF DriveUnmanaged, At
<1>2. IsFailed(driver[d].att, attempts)
  BY <1>1, DriverIs DEF DriverIn
<1>3. CASE Escalate(d)
  BY <1>1, <1>3, PassStops
<1>4. CASE ~attempts[driver[d].att].known /\ Goto(d, "giveup")
  <2>1. PICK p : /\ driver' = [driver EXCEPT ![d] = p]
                 /\ IsDriver(p) /\ p.pc = "giveup" /\ p.att = driver[d].att
    BY <1>4, GotoMoves DEF Steps
  <2>2. DriverIn(p, attempts, actions)
    BY <1>2, <2>1 DEF DriverIn, Acting, IsFailed, Over
  <2>3. p.att = Latest
    <3>1. p.att \in DOMAIN attempts /\ (p.att < Latest => attempts[p.att].known)
      BY <1>2, <2>1 DEF IsFailed, RecoveryInv, AttemptsIn, AttemptIn, Latest
    <3> QED BY <1>4, <2>1, <3>1, LatestIs
  <2> QED BY <1>1, <2>1, <2>2, <2>3, PassMoves
<1> QED BY <1>3, <1>4 DEF DriveUnmanaged

\* The run is failed by a driver that works on the open episode.
LEMMA GivenUp ==
  ASSUME RecoveryInv, NEW d \in Drivers, driver[d].pc \in {"giveup", "propose"}, FailRun,
         UNCHANGED <<setup, attempts, applications>>
  PROVE  RunInv'
<1>1. attempts[driver[d].att].status \in Over /\ (setup.alone => driver[d].att = Latest)
  BY DriverIs DEF DriverIn, IsFailed, Over
<1>2. setup.alone => attempts'[Latest].status \in Over
  BY <1>1
<1>3. Growth(attempts, attempts') /\ Len(attempts') = Len(attempts)
  BY TablesStay
<1> QED BY <1>2, <1>3, AppsStay, RunFailed

LEMMA GiveUpKeeps ==
  ASSUME RecoveryInv, NEW d \in Drivers, GiveUp(d)
  PROVE  RecoveryInv'
<1>1. /\ MayRun(d) /\ driver[d].pc = "giveup" /\ FailRun /\ Stop(d)
      /\ UNCHANGED <<setup, attempts, actions, applications>>
  BY DEF GiveUp, At
<1>2. /\ Growth(attempts, attempts') /\ DOMAIN actions \subseteq DOMAIN actions'
      /\ AttemptsIn(attempts', Batch) /\ ActionsIn(actions', attempts', Batch)
  BY <1>1, TablesStay
<1> QED BY <1>1, <1>2, GivenUp, StopKeeps

\* A run that succeeds with its attempt is vouched for.
LEMMA SucceedKeeps ==
  ASSUME RecoveryInv, NEW d \in Drivers, Succeed(d)
  PROVE  RecoveryInv'
<1>1. /\ MayRun(d) /\ driver[d].pc = "succeed" /\ Stop(d)
      /\ UNCHANGED <<setup, attempts, actions, applications>>
      /\ run' = IF run = "active" THEN "succeeded" ELSE run
  BY DEF Succeed, At
<1>2. /\ Growth(attempts, attempts') /\ DOMAIN actions \subseteq DOMAIN actions'
      /\ Len(attempts') = Len(attempts)
      /\ AttemptsIn(attempts', Batch) /\ ActionsIn(actions', attempts', Batch)
  BY <1>1, TablesStay
<1>3. PICK n : n = driver[d].att
  OBVIOUS
<1>4. n \in DOMAIN attempts /\ attempts[n].status = "succeeded" /\ Unconfirmed(n) = {}
  BY <1>1, <1>3, DriverIs DEF DriverIn, RecoveryInv, Vouching
<1>5. n = Latest
  <2>1. n < Latest => attempts[n].status = "failed"
    BY <1>4 DEF RecoveryInv, AttemptsIn, AttemptIn, Latest
  <2> QED BY <1>4, <2>1, LatestIs
<1>6. RunInv'
  <2>1. CASE run # "active"
    BY <1>1, <1>2, <2>1, AppsStay, RunKept
  <2>2. CASE run = "active"
    <3>1. run' = "succeeded"
      BY <1>1, <2>2
    <3>2. SuccessVouchedFor'
      BY <1>1, <1>4, <1>5 DEF SuccessVouchedFor, Latest, Unconfirmed, Confirmed
    <3>3. RunEndsWithItsWork'
      BY <1>1, <1>2, <1>4, <1>5, EndedStand DEF RunEndsWithItsWork, Over
    <3>4. IsSequence(applications')
      BY <1>1 DEF RecoveryInv, RunInv
    <3> QED BY <3>1, <3>2, <3>3, <3>4 DEF RunInv, RunStatuses
  <2> QED BY <2>1, <2>2
<1> QED BY <1>1, <1>2, <1>6, StopKeeps

\* The inputs of a planner that has to go on.
LEMMA PlanBehind ==
  ASSUME RecoveryInv, NEW n \in DOMAIN attempts, Open(n),
         ~FreshPlan(n, Len(attempts[n].plans))
  PROVE  Behind(Inputs(n))
<1>1. PICK x : x = attempts[n]
  OBVIOUS
<1>2. IsAttempt(x) /\ IsEpisode(x)
  BY <1>1 DEF RecoveryInv, AttemptsIn, AttemptIn
<1>3. Len(x.plans) \in Nat /\ (x.plans = <<>> <=> Len(x.plans) = 0)
  BY <1>2, SequenceShape DEF IsAttempt
<1>4. ASSUME Len(x.plans) > 0 PROVE x.known /\ x.plans[Len(x.plans)] # x.accepted
  BY <1>1, <1>2, <1>3, <1>4 DEF IsEpisode, FreshPlan, Through
<1>5. Inputs(n).plans = x.plans
      /\ Inputs(n).accepted = IF x.known THEN x.accepted ELSE Cardinality(IncidentsOf(n))
  BY <1>1 DEF Inputs
<1> QED BY <1>4, <1>5 DEF Behind

LEMMA PlanRoundKeeps ==
  ASSUME RecoveryInv, NEW d \in Drivers, PlanRound(d)
  PROVE  RecoveryInv'
<1>1. PICK q, n : q = driver[d] /\ n = q.att
  OBVIOUS
<1>2. /\ MayRun(d) /\ q.pc = "drive"
      /\ UNCHANGED <<setup, run, attempts, actions, applications>>
  BY <1>1 DEF PlanRound, At
<1>3. IsFailed(n, attempts) /\ IsDriver(q) /\ n \in DOMAIN attempts
  BY <1>1, <1>2, DriverIs DEF DriverIn, IsFailed
<1>4. CASE driver' = [driver EXCEPT ![d].pc = "check", ![d].plan = Len(attempts[n].plans)]
  <2>1. PICK l : l = Len(attempts[n].plans)
    OBVIOUS
  <2>2. PICK p : p = [q EXCEPT !.pc = "check", !.plan = l]
    OBVIOUS
  <2>3. p \in [pc : {"check"}, att : {n}, fam : {q.fam}, plan : {l}, snap : {q.snap},
               tries : {q.tries}, act : {q.act}, from : {q.from},
               directives : {q.directives}, escalated : {q.escalated}]
    BY <1>1, <1>3, <2>2 DEF IsDriver
  <2>4. driver' = [driver EXCEPT ![d] = p]
    BY <1>1, <1>4, <2>1, <2>2, DriverIs
  <2>5. IsDriver(p) /\ p.pc = "check" /\ p.att = n
    BY <1>3, <2>3 DEF IsDriver, Steps
  <2>6. DriverIn(p, attempts, actions)
    BY <1>3, <2>5 DEF DriverIn, Acting
  <2> QED BY <1>2, <2>4, <2>5, <2>6, PassMoves
<1>5. CASE /\ Open(n) /\ ~FreshPlan(n, Len(attempts[n].plans))
           /\ driver' = [driver EXCEPT ![d].pc = "record", ![d].snap = <<Inputs(n)>>]
  <2>1. PICK s : s = Inputs(n)
    OBVIOUS
  <2>2. PICK p : p = [q EXCEPT !.pc = "record", !.snap = <<s>>]
    OBVIOUS
  <2>3. p \in [pc : {"record"}, att : {n}, fam : {q.fam}, plan : {q.plan}, snap : {<<s>>},
               tries : {q.tries}, act : {q.act}, from : {q.from},
               directives : {q.directives}, escalated : {q.escalated}]
    BY <1>1, <1>3, <2>2 DEF IsDriver
  <2>4. driver' = [driver EXCEPT ![d] = p]
    BY <1>1, <1>5, <2>1, <2>2, DriverIs
  <2>5. IsDriver(p) /\ p.pc = "record" /\ p.att = n /\ p.snap[1] = s
    BY <1>3, <2>3 DEF IsDriver, Steps
  <2>6. Behind(s)
    BY <1>3, <1>5, <2>1, PlanBehind
  <2>7. DriverIn(p, attempts, actions)
    BY <1>3, <2>5, <2>6 DEF DriverIn, Acting
  <2> QED BY <1>2, <2>4, <2>5, <2>7, PassMoves
<1> QED BY <1>1, <1>4, <1>5 DEF PlanRound

\* A revision covers one incident more, of those accepted.
LEMMA PlanRevises ==
  ASSUME NEW x, IsAttempt(x), IsEpisode(x), Incidents(x.obs) # {},
         NEW all, all = IF x.known THEN x.accepted ELSE Cardinality(Incidents(x.obs)),
         Len(x.plans) > 0 => x.plans[Len(x.plans)] # all,
         NEW next, next = IF x.plans = <<>> THEN all ELSE x.plans[Len(x.plans)] + 1,
         NEW y, y = [x EXCEPT !.known = TRUE, !.accepted = all, !.plans = Append(x.plans, next)]
  PROVE  IsAttempt(y) /\ IsEpisode(y) /\ Evolves(x, y)
<1>1. IsSequence(x.obs) /\ IsSequence(x.plans) /\ x.accepted \in Nat /\ x.known \in BOOLEAN
  BY DEF IsAttempt
<1>2. /\ Len(x.plans) \in Nat /\ DOMAIN x.plans = 1 .. Len(x.plans)
      /\ x.plans = <<>> <=> Len(x.plans) = 0
  BY <1>1, SequenceShape
<1>3. Cardinality(Incidents(x.obs)) \in Nat /\ Cardinality(Incidents(x.obs)) > 0
  BY <1>1, IncidentsFinite
<1>4. /\ x.known <=> Len(x.plans) > 0
      /\ x.accepted <= Cardinality(Incidents(x.obs))
      /\ \A q \in DOMAIN x.plans : /\ x.plans[q] \in 1 .. x.accepted
                                   /\ q > 1 => x.plans[q] = x.plans[q - 1] + 1
  BY DEF IsEpisode
<1>5. /\ all \in Nat /\ all <= Cardinality(Incidents(x.obs)) /\ next \in 1 .. all
      /\ \A q \in DOMAIN x.plans : x.plans[q] \in 1 .. all
      /\ Len(x.plans) > 0 => next = x.plans[Len(x.plans)] + 1
  <2>1. CASE Len(x.plans) = 0
    BY <1>1, <1>2, <1>3, <1>4, <2>1
  <2>2. CASE Len(x.plans) > 0
    <3>1. x.known /\ all = x.accepted /\ Len(x.plans) \in DOMAIN x.plans
      BY <1>2, <1>4, <2>2
    <3>2. x.plans[Len(x.plans)] \in 1 .. all /\ x.plans[Len(x.plans)] # all
      BY <1>4, <2>2, <3>1
    <3>3. next = x.plans[Len(x.plans)] + 1
      BY <1>2, <2>2
    <3> QED BY <1>1, <1>4, <3>1, <3>2, <3>3
  <2> QED BY <1>2, <2>1, <2>2
<1>6. PICK ps : ps = Append(x.plans, next)
  OBVIOUS
<1>7. /\ IsSequence(ps) /\ Len(ps) = Len(x.plans) + 1 /\ DOMAIN ps = 1 .. (Len(x.plans) + 1)
      /\ \A q \in DOMAIN x.plans : ps[q] = x.plans[q]
      /\ ps[Len(x.plans) + 1] = next
  BY <1>1, <1>6, AppendShape
<1>8. y \in [src : {x.src}, status : {x.status}, micro : {x.micro}, accum : {x.accum},
             from : {x.from}, directives : {x.directives}, obs : {x.obs}, step : {x.step},
             known : {TRUE}, accepted : {all}, plans : {ps}, mark : {x.mark}]
  BY <1>6 DEF IsAttempt
<1>9. /\ y.src = x.src /\ y.micro = x.micro /\ y.accum = x.accum /\ y.from = x.from
      /\ y.directives = x.directives /\ y.obs = x.obs /\ y.known = TRUE
      /\ y.accepted = all /\ y.plans = ps /\ y.status = x.status
  BY <1>8
<1>10. IsAttempt(y)
  BY <1>5, <1>7, <1>8, <1>9 DEF IsAttempt
<1>11. IsEpisode(y)
  <2>1. ASSUME NEW q \in DOMAIN ps
        PROVE  ps[q] \in 1 .. all /\ (q > 1 => ps[q] = ps[q - 1] + 1)
    <3>1. CASE q \in DOMAIN x.plans
      <4>1. q > 1 => q - 1 \in DOMAIN x.plans
        BY <1>2, <3>1
      <4> QED BY <1>4, <1>5, <1>7, <3>1, <4>1
    <3>2. CASE q = Len(x.plans) + 1
      <4>1. q > 1 => Len(x.plans) > 0 /\ q - 1 = Len(x.plans) /\ Len(x.plans) \in DOMAIN x.plans
        BY <1>2, <3>2
      <4> QED BY <1>5, <1>7, <3>2, <4>1
    <3> QED BY <1>2, <1>7, <3>1, <3>2
  <2>2. Len(ps) > 0
    BY <1>2, <1>7
  <2> QED BY <1>5, <1>9, <2>1, <2>2 DEF IsEpisode
<1>12. Evolves(x, y)
  BY <1>1, <1>2, <1>7, <1>9, ExtendsItself DEF Evolves
<1> QED BY <1>10, <1>11, <1>12

LEMMA RecordPlanKeeps ==
  ASSUME RecoveryInv, NEW d \in Drivers, RecordPlan(d)
  PROVE  RecoveryInv'
<1>1. PICK q, n : q = driver[d] /\ n = q.att
  OBVIOUS
<1>2. /\ MayRun(d) /\ q.pc = "record"
      /\ UNCHANGED <<setup, run, actions, applications>>
  BY <1>1 DEF RecordPlan, At
<1>3. /\ IsFailed(n, attempts) /\ IsDriver(q) /\ n \in DOMAIN attempts
      /\ Behind(q.snap[1])
  BY <1>1, <1>2, DriverIs DEF DriverIn, IsFailed
<1>4. CASE /\ q.snap = <<Inputs(n)>> /\ Open(n)
           /\ SetAttempt(n, Revised(n)) /\ Goto(d, "drive")
  <2>1. PICK x : x = attempts[n]
    OBVIOUS
  <2>2. IsAttempt(x) /\ IsEpisode(x) /\ Incidents(x.obs) # {}
    BY <1>3, <2>1 DEF RecoveryInv, AttemptsIn, AttemptIn, IsFailed
  <2>3. PICK all : all = IF x.known THEN x.accepted ELSE Cardinality(Incidents(x.obs))
    OBVIOUS
  <2>4. Inputs(n).accepted = all /\ Inputs(n).plans = x.plans
    BY <2>1, <2>3, IncidentsAre DEF Inputs
  <2>5. Len(x.plans) > 0 => x.plans[Len(x.plans)] # all
    BY <1>3, <1>4, <2>4 DEF Behind
  <2>6. PICK next : next = IF x.plans = <<>> THEN all ELSE x.plans[Len(x.plans)] + 1
    OBVIOUS
  <2>7. PICK y : y = [x EXCEPT !.known = TRUE, !.accepted = all, !.plans = Append(x.plans, next)]
    OBVIOUS
  <2>8. IsAttempt(y) /\ IsEpisode(y) /\ Evolves(x, y)
    BY <2>2, <2>3, <2>5, <2>6, <2>7, PlanRevises
  <2>9. Revised(n) = y
    BY <2>1, <2>4, <2>6, <2>7 DEF Revised, Through
  <2>10. ~(n < Latest)
    BY <1>4, LatestIs DEF Open
  <2>11. /\ Growth(attempts, attempts') /\ Len(attempts') = Len(attempts)
         /\ AttemptsIn(attempts', Batch) /\ ActionsIn(actions, attempts', Batch)
    BY <1>2, <1>3, <1>4, <2>1, <2>8, <2>9, <2>10, AttemptStep
  <2>12. RunInv'
    BY <1>2, <2>11, AppsStay, RunKept
  <2>13. PICK p : /\ driver' = [driver EXCEPT ![d] = p]
                  /\ IsDriver(p) /\ p.pc = "drive" /\ p.att = driver[d].att
    BY <1>4, GotoMoves DEF Steps
  <2>14. IsFailed(p.att, attempts')
    BY <1>1, <1>3, <2>11, <2>13, FailedStands
  <2>15. DriverIn(p, attempts', actions')
    BY <2>13, <2>14 DEF DriverIn, Acting
  <2> QED BY <1>2, <2>11, <2>12, <2>13, <2>15, DriverKeeps
<1>5. CASE /\ driver' = [driver EXCEPT ![d].pc = "drive", ![d].tries = @ + 1]
           /\ UNCHANGED attempts
  <2>1. PICK p : p = [q EXCEPT !.pc = "drive", !.tries = @ + 1]
    OBVIOUS
  <2>2. p \in [pc : {"drive"}, att : {n}, fam : {q.fam}, plan : {q.plan}, snap : {q.snap},
               tries : {q.tries + 1}, act : {q.act}, from : {q.from},
               directives : {q.directives}, escalated : {q.escalated}]
    BY <1>1, <1>3, <2>1 DEF IsDriver
  <2>3. driver' = [driver EXCEPT ![d] = p]
    BY <1>1, <1>5, <2>1, DriverIs
  <2>4. IsDriver(p) /\ p.pc = "drive" /\ p.att = n
    BY <1>3, <2>2 DEF IsDriver, Steps
  <2>5. DriverIn(p, attempts, actions)
    BY <1>3, <2>4 DEF DriverIn, Acting
  <2> QED BY <1>2, <1>5, <2>3, <2>4, <2>5, PassMoves
<1>6. CASE Stop(d) /\ UNCHANGED attempts
  BY <1>2, <1>6, PassStops
<1> QED BY <1>1, <1>4, <1>5, <1>6 DEF RecordPlan

-----------------------------------------------------------------------------
(* The action, its authorization and its execution. *)

LEMMA CategoriesAre ==
  ASSUME NEW n, NEW k
  PROVE  Categories(n, k) = CategoriesIn(attempts[n].obs, k)
BY IncidentsAre DEF Categories, CategoriesIn

\* Actions of earlier revisions are retired.
LEMMA SupersededIn ==
  ASSUME NEW at, NEW batch, ActionsIn(actions, at, batch), NEW as,
         actions' = [a \in DOMAIN actions |->
                       IF a \in as
                       THEN [actions[a] EXCEPT !.status = "rejected", !.receipt = "superseded"]
                       ELSE actions[a]]
  PROVE  ActionsIn(actions', at, batch) /\ DOMAIN actions' = DOMAIN actions
<1>1. ASSUME NEW a \in DOMAIN actions PROVE Amends(actions[a], actions'[a])
  <2>1. PICK b : b = actions[a]
    OBVIOUS
  <2>2. ActionIn(b, at, batch)
    BY <2>1 DEF ActionsIn
  <2>3. CASE a \in as
    <3>1. PICK c : c = [b EXCEPT !.status = "rejected", !.receipt = "superseded"]
      OBVIOUS
    <3>2. c \in [fam : {b.fam}, att : {b.att}, plan : {b.plan}, micro : {b.micro},
                 accum : {b.accum}, prev : {b.prev}, rate : {b.rate}, status : {"rejected"},
                 receipt : {"superseded"}, intervened : {b.intervened}]
      BY <2>2, <3>1 DEF ActionIn, IsAction
    <3>3. Amends(b, c)
      BY <3>2 DEF Amends
    <3> QED BY <2>1, <2>3, <3>1, <3>3
  <2>4. CASE a \notin as
    BY <2>1, <2>2, <2>4, AmendsItself
  <2> QED BY <2>3, <2>4
<1>2. actions' = [a \in DOMAIN actions |-> actions'[a]]
  OBVIOUS
<1> QED BY <1>1, <1>2, ActionsAmended

LEMMA CheckPlanKeeps ==
  ASSUME RecoveryInv, NEW d \in Drivers, CheckPlan(d)
  PROVE  RecoveryInv'
<1>1. PICK r : r = driver[d]
  OBVIOUS
<1>2. PICK n, q : n = r.att /\ q = r.plan
  OBVIOUS
<1>3. /\ MayRun(d) /\ r.pc = "check"
      /\ UNCHANGED <<setup, run, attempts, applications>>
  BY <1>1 DEF CheckPlan, At
<1>4. IsFailed(n, attempts) /\ IsDriver(r) /\ n \in DOMAIN attempts
  BY <1>1, <1>2, <1>3, DriverIs DEF DriverIn, IsFailed
<1>5. /\ Growth(attempts, attempts') /\ Len(attempts') = Len(attempts)
      /\ AttemptsIn(attempts', Batch) /\ ActionsIn(actions, attempts', Batch) /\ RunInv'
  BY <1>3, AttemptsStay
<1>6. CASE FreshPlan(n, q)
  <2>1. PICK as : actions' = [a \in DOMAIN actions |->
                    IF a \in as
                    THEN [actions[a] EXCEPT !.status = "rejected", !.receipt = "superseded"]
                    ELSE actions[a]]
    <3>1. PICK as : as = {a \in DOMAIN actions : r.fam = "oom" /\ a \in Stale(n, q)}
      OBVIOUS
    <3>2. \A a \in DOMAIN actions : (a \in as) <=> (r.fam = "oom" /\ a \in Stale(n, q))
      BY <3>1
    <3> QED BY <1>1, <1>2, <1>6, <3>2 DEF CheckPlan
  <2>2. ActionsIn(actions', attempts', Batch) /\ DOMAIN actions' = DOMAIN actions
    BY <1>5, <2>1, SupersededIn
  <2>3. CASE Escalate(d)
    BY <1>3, <1>5, <2>2, <2>3, StopKeeps
  <2>4. CASE (r.fam = "oom" => ResizeReviewable(Covered(d))) /\ Goto(d, "bind")
    <3>1. PICK p : /\ driver' = [driver EXCEPT ![d] = p]
                   /\ IsDriver(p) /\ p.pc = "bind" /\ p.att = n /\ p.fam = r.fam /\ p.plan = q
      BY <1>1, <1>2, <2>4, GotoMoves DEF Steps
    <3>2. q \in DOMAIN attempts[n].plans /\ n = Latest
      <4>1. IsSequence(attempts[n].plans)
        BY <1>4 DEF RecoveryInv, AttemptsIn, AttemptIn, IsAttempt
      <4>2. Len(attempts[n].plans) \in Nat
            /\ DOMAIN attempts[n].plans = 1 .. Len(attempts[n].plans)
        BY <4>1, SequenceShape
      <4> QED BY <1>6, <4>2 DEF FreshPlan, Open
    <3>3. r.fam = "oom" =>
            ResizeReviewable(CategoriesIn(attempts[n].obs, attempts[n].plans[q]))
      BY <1>1, <1>2, <2>4, CategoriesAre DEF Covered
    <3>4. DriverIn(p, attempts', actions')
      BY <1>3, <1>4, <3>1, <3>2, <3>3 DEF DriverIn, Acting
    <3>5. p.att = Len(attempts')
      BY <1>5, <3>1, <3>2 DEF Latest
    <3> QED BY <1>3, <1>5, <2>2, <3>1, <3>4, <3>5, DriverKeeps
  <2> QED BY <1>1, <1>2, <1>6, <2>3, <2>4 DEF CheckPlan
<1>7. CASE ~FreshPlan(n, q)
  <2>1. Escalate(d) /\ actions' = actions
    BY <1>1, <1>2, <1>7 DEF CheckPlan
  <2> QED BY <1>3, <2>1, PassStops
<1> QED BY <1>6, <1>7

\* A driver takes an action up.
LEMMA ActionTaken ==
  ASSUME RecoveryInv, NEW d \in Drivers, MayRun(d),
         driver[d].pc \in {"bind", "propose"},
         NEW acts, DOMAIN actions \subseteq DOMAIN acts, NEW a \in DOMAIN acts,
         driver' = [driver EXCEPT ![d].pc = "act", ![d].act = a]
  PROVE  \E p : /\ driver' = [driver EXCEPT ![d] = p]
                /\ DriverIn(p, attempts, acts) /\ p.pc = "act"
<1>1. PICK q : q = driver[d]
  OBVIOUS
<1>2. PICK p : p = [q EXCEPT !.pc = "act", !.act = a]
  OBVIOUS
<1>3. IsFailed(q.att, attempts) /\ IsDriver(q)
  BY <1>1, DriverIs DEF DriverIn
<1>4. p \in [pc : {"act"}, att : {q.att}, fam : {q.fam}, plan : {q.plan}, snap : {q.snap},
             tries : {q.tries}, act : {a}, from : {q.from}, directives : {q.directives},
             escalated : {q.escalated}]
  BY <1>2, <1>3 DEF IsDriver
<1>5. IsDriver(p) /\ p.pc = "act" /\ p.att = q.att /\ p.act = a
  BY <1>3, <1>4 DEF IsDriver, Steps
<1>6. driver' = [driver EXCEPT ![d] = p]
  BY <1>1, <1>2, DriverIs
<1>7. DriverIn(p, attempts, acts)
  BY <1>3, <1>5 DEF DriverIn
<1> WITNESS p
<1> QED BY <1>5, <1>6, <1>7

LEMMA FindBindingKeeps ==
  ASSUME RecoveryInv, NEW d \in Drivers, FindBinding(d)
  PROVE  RecoveryInv'
<1>1. /\ MayRun(d) /\ driver[d].pc = "bind"
      /\ UNCHANGED <<setup, run, attempts, actions, applications>>
  BY DEF FindBinding, At
<1>2. CASE Goto(d, "propose")
  <2>1. PICK p : /\ driver' = [driver EXCEPT ![d] = p]
                 /\ IsDriver(p) /\ p.pc = "propose" /\ p.att = driver[d].att
                 /\ p.fam = driver[d].fam /\ p.plan = driver[d].plan
    BY <1>2, GotoMoves DEF Steps
  <2>2. DriverIn(driver[d], attempts, actions) /\ (setup.alone => driver[d].att = Latest)
    BY <1>1, DriverIs
  <2>3. DriverIn(p, attempts, actions)
    BY <1>1, <2>1, <2>2 DEF DriverIn, Acting
  <2> QED BY <1>1, <2>1, <2>2, <2>3, PassMoves
<1>3. CASE \E a \in DOMAIN actions :
             driver' = [driver EXCEPT ![d].pc = "act", ![d].act = a]
  <2>1. PICK p : /\ driver' = [driver EXCEPT ![d] = p]
                 /\ DriverIn(p, attempts, actions) /\ p.pc = "act"
    BY <1>1, <1>3, ActionTaken
  <2> QED BY <1>1, <2>1, PassMoves
<1> QED BY <1>2, <1>3 DEF FindBinding, BoundTo

\* A resize keeps the effective batch.
LEMMA Halved ==
  ASSUME NEW m \in Nat, NEW b \in Nat, m > 1, b % (m \div 2) = 0
  PROVE  /\ m \div 2 \in Nat /\ m \div 2 < m /\ b \div (m \div 2) \in Nat
         /\ (m \div 2) * (b \div (m \div 2)) = b
<1>1. PICK h : h = m \div 2
  OBVIOUS
<1>2. h \in Nat /\ h > 0 /\ h < m
  BY <1>1
<1>3. b % h = 0
  BY <1>1
<1>4. b \div h \in Nat /\ h * (b \div h) = b
  BY <1>2, <1>3
<1> QED BY <1>1, <1>2, <1>4

\* What is proposed answers the evidence it was planned on.
LEMMA ProposalIn ==
  ASSUME RecoveryInv, NEW d \in Drivers, driver[d].pc = "propose",
         Answers(d, driver[d].att)
  PROVE  /\ ActionIn(Proposal(d, driver[d].att), attempts, Batch)
         /\ Proposal(d, driver[d].att).receipt = "none"
<1>1. PICK r, n, x : r = driver[d] /\ n = r.att /\ x = attempts[n]
  OBVIOUS
<1>2. DriverIn(r, attempts, actions) /\ IsDriver(r)
  BY <1>1, DriverIs
<1>3. /\ IsFailed(n, attempts) /\ n \in DOMAIN attempts
      /\ r.plan \in DOMAIN x.plans /\ r.fam \in {"oom", "nan"}
      /\ r.fam = "oom" => ResizeReviewable(CategoriesIn(x.obs, x.plans[r.plan]))
  BY <1>1, <1>2 DEF DriverIn, IsDriver, IsFailed
<1>4. IsAttempt(x) /\ x.micro * x.accum = Batch
  BY <1>1, <1>3 DEF RecoveryInv, AttemptsIn, AttemptIn
<1>5. PICK b : b = Proposal(d, n)
  OBVIOUS
<1>6. b \in [fam : {r.fam}, att : {n}, plan : {r.plan},
             micro : {IF r.fam = "oom" THEN x.micro \div 2 ELSE x.micro},
             accum : {IF r.fam = "oom" THEN (x.micro * x.accum) \div (x.micro \div 2)
                                       ELSE x.accum},
             prev : {b.prev}, rate : {b.rate}, status : {b.status}, receipt : {"none"},
             intervened : {FALSE}]
  BY <1>1, <1>5 DEF Proposal, HalfMicro, ResizedAccum
<1>7. x.micro \in Nat /\ x.accum \in Nat
  BY <1>4 DEF IsAttempt
<1>8. /\ b.micro \in Nat /\ b.accum \in Nat /\ b.micro * b.accum = Batch
      /\ r.fam = "oom" => b.micro < x.micro
  <2>1. CASE r.fam = "oom"
    <3>1. PICK m, e : m = x.micro /\ e = x.micro * x.accum
      OBVIOUS
    <3>2. m \in Nat /\ e \in Nat /\ m > 1 /\ e % (m \div 2) = 0 /\ e = Batch
      BY <1>1, <1>4, <1>7, <2>1, <3>1 DEF Answers, Resizable, HalfMicro
    <3>3. /\ m \div 2 \in Nat /\ m \div 2 < m /\ e \div (m \div 2) \in Nat
          /\ (m \div 2) * (e \div (m \div 2)) = e
      BY <3>2, Halved
    <3>4. b.micro = m \div 2 /\ b.accum = e \div (m \div 2)
      BY <1>6, <2>1, <3>1
    <3> QED BY <3>1, <3>2, <3>3, <3>4
  <2>2. CASE r.fam # "oom"
    BY <1>4, <1>6, <1>7, <2>2
  <2> QED BY <2>1, <2>2
<1>9. /\ b.fam = r.fam /\ b.att = n /\ b.plan = r.plan /\ b.receipt = "none"
  BY <1>6
<1>10. IsAction(b)
  BY <1>3, <1>6, <1>8 DEF IsAction
<1>11. CategoriesIn(x.obs, x.plans[r.plan]) \subseteq {r.fam, "transient"}
  <2>1. CASE r.fam = "oom"
    BY <1>3, <2>1 DEF ResizeReviewable
  <2>2. CASE r.fam = "nan"
    <3>1. Covered(d) = CategoriesIn(x.obs, x.plans[r.plan])
      BY <1>1, CategoriesAre DEF Covered
    <3>2. LowersRate(n, Covered(d))
      BY <1>1, <2>2 DEF Answers
    <3>3. Covered(d) \subseteq {"nan", "transient"}
      BY <3>2 DEF LowersRate
    <3> QED BY <2>2, <3>1, <3>3
  <2> QED BY <1>3, <2>1, <2>2
<1>12. IsProposed(b, attempts, Batch)
  BY <1>1, <1>3, <1>8, <1>9, <1>11 DEF IsProposed
<1>13. ActionIn(b, attempts, Batch)
  BY <1>9, <1>10, <1>12 DEF ActionIn
<1> QED BY <1>1, <1>5, <1>9, <1>13

LEMMA ProposeKeeps ==
  ASSUME RecoveryInv, NEW d \in Drivers, Propose(d)
  PROVE  RecoveryInv'
<1>1. PICK n : n = driver[d].att
  OBVIOUS
<1>2. /\ MayRun(d) /\ driver[d].pc = "propose"
      /\ UNCHANGED <<setup, attempts, applications>>
  BY DEF Propose, At
<1>3. CASE FailRun /\ Stop(d) /\ UNCHANGED actions
  <2>1. RunInv'
    BY <1>2, <1>3, GivenUp
  <2>2. /\ Growth(attempts, attempts') /\ DOMAIN actions \subseteq DOMAIN actions'
        /\ AttemptsIn(attempts', Batch) /\ ActionsIn(actions', attempts', Batch)
    BY <1>2, <1>3, TablesStay
  <2> QED BY <1>2, <1>3, <2>1, <2>2, StopKeeps
<1>4. CASE /\ \E a \in DOMAIN actions :
                driver' = [driver EXCEPT ![d].pc = "act", ![d].act = a]
           /\ UNCHANGED <<run, actions>>
  <2>1. PICK p : /\ driver' = [driver EXCEPT ![d] = p]
                 /\ DriverIn(p, attempts, actions) /\ p.pc = "act"
    BY <1>2, <1>4, ActionTaken
  <2> QED BY <1>2, <1>4, <2>1, PassMoves
<1>5. CASE /\ Answers(d, n) /\ actions' = Append(actions, Proposal(d, n))
           /\ driver' = [driver EXCEPT ![d].pc = "act", ![d].act = Len(actions) + 1]
           /\ UNCHANGED run
  <2>1. PICK b : b = Proposal(d, n)
    OBVIOUS
  <2>2. ActionIn(b, attempts, Batch) /\ b.receipt # "executed"
    BY <1>1, <1>2, <1>5, <2>1, ProposalIn
  <2>3. /\ Growth(attempts, attempts') /\ AttemptsIn(attempts', Batch)
        /\ ActionsIn(actions, attempts', Batch) /\ RunInv'
    BY <1>2, <1>5, AttemptsStay
  <2>4. /\ ActionsIn(actions', attempts', Batch)
        /\ DOMAIN actions \subseteq DOMAIN actions'
        /\ Len(actions) + 1 \in DOMAIN actions'
    BY <1>2, <1>5, <2>1, <2>2, <2>3, ActionAdded
  <2>5. PICK acts, a : acts = actions' /\ a = Len(actions) + 1
    OBVIOUS
  <2>6. PICK p : /\ driver' = [driver EXCEPT ![d] = p]
                 /\ DriverIn(p, attempts, acts) /\ p.pc = "act"
    BY <1>2, <1>5, <2>4, <2>5, ActionTaken
  <2>7. DriverIn(p, attempts', actions')
    BY <1>2, <2>5, <2>6
  <2> QED BY <1>2, <2>3, <2>4, <2>6, <2>7, DriverKeeps
<1>6. CASE Stop(d) /\ UNCHANGED <<run, actions>>
  BY <1>2, <1>6, PassStops
<1> QED BY <1>1, <1>3, <1>4, <1>5, <1>6 DEF Propose, BoundTo

\* An action that no one executed is abandoned, and the run with it.
LEMMA AbandonKeeps ==
  ASSUME RecoveryInv, NEW d \in Drivers, MayRun(d), Stop(d), NEW a \in DOMAIN actions,
         Abandonable(a), Abandon(a), UNCHANGED <<setup, attempts, applications>>
  PROVE  RecoveryInv'
<1>1. PICK b : b = actions[a]
  OBVIOUS
<1>2. ActionIn(b, attempts, Batch)
  BY <1>1 DEF RecoveryInv, ActionsIn
<1>3. PICK c : c = [b EXCEPT !.status = "rejected", !.receipt = "abandoned"]
  OBVIOUS
<1>4. c \in [fam : {b.fam}, att : {b.att}, plan : {b.plan}, micro : {b.micro},
             accum : {b.accum}, prev : {b.prev}, rate : {b.rate}, status : {"rejected"},
             receipt : {"abandoned"}, intervened : {b.intervened}]
  BY <1>2, <1>3 DEF ActionIn, IsAction
<1>5. Amends(b, c)
  BY <1>4 DEF Amends
<1>6. actions' = [actions EXCEPT ![a] = c]
  BY <1>1, <1>3 DEF Abandon
<1>7. /\ Growth(attempts, attempts') /\ Len(attempts') = Len(attempts)
      /\ AttemptsIn(attempts', Batch) /\ ActionsIn(actions, attempts', Batch)
  BY TablesStay
<1>8. ActionsIn(actions', attempts', Batch) /\ DOMAIN actions' = DOMAIN actions
  BY <1>1, <1>5, <1>6, <1>7, OneAmended
<1>9. FailRun
  BY DEF Abandon, Abandonable, FailRun
<1>10. attempts'[Latest].status \in Over
  BY <1>1, <1>2 DEF Abandonable, FreshPlan, Open, ActionIn, IsProposed, IsFailed, Over
<1>11. RunInv'
  BY <1>7, <1>9, <1>10, AppsStay, RunFailed
<1> QED BY <1>7, <1>8, <1>11, StopKeeps

LEMMA ActKeeps ==
  ASSUME RecoveryInv, NEW d \in Drivers, Act(d)
  PROVE  RecoveryInv'
<1>1. PICK a : a = driver[d].act
  OBVIOUS
<1>2. /\ MayRun(d) /\ driver[d].pc = "act"
      /\ UNCHANGED <<setup, attempts, applications>>
  BY DEF Act, At
<1>3. IsFailed(driver[d].att, attempts) /\ a \in DOMAIN actions
  BY <1>1, <1>2, DriverIs DEF DriverIn, Acting
<1>4. CASE (Stop(d) \/ Escalate(d)) /\ UNCHANGED <<run, actions>>
  BY <1>2, <1>4, PassStops
<1>5. CASE Abandonable(a) /\ Abandon(a) /\ Stop(d)
  BY <1>2, <1>3, <1>5, AbandonKeeps
<1>6. CASE /\ actions' = [actions EXCEPT ![a].intervened = (actions[a].fam = "nan")]
           /\ Goto(d, "execute") /\ UNCHANGED run
  <2>1. PICK b, i : b = actions[a] /\ i = (b.fam = "nan")
    OBVIOUS
  <2>2. PICK c : c = [b EXCEPT !.intervened = i]
    OBVIOUS
  <2>3. ActionIn(b, attempts, Batch)
    BY <1>3, <2>1 DEF RecoveryInv, ActionsIn
  <2>4. c \in [fam : {b.fam}, att : {b.att}, plan : {b.plan}, micro : {b.micro},
               accum : {b.accum}, prev : {b.prev}, rate : {b.rate}, status : {b.status},
               receipt : {b.receipt}, intervened : {i}]
    BY <2>2, <2>3 DEF ActionIn, IsAction
  <2>5. Amends(b, c)
    BY <2>4 DEF Amends
  <2>6. actions' = [actions EXCEPT ![a] = c]
    BY <1>6, <2>1, <2>2
  <2>7. /\ Growth(attempts, attempts') /\ RunInv'
        /\ AttemptsIn(attempts', Batch) /\ ActionsIn(actions, attempts', Batch)
    BY <1>2, <1>6, AttemptsStay
  <2>8. ActionsIn(actions', attempts', Batch) /\ DOMAIN actions' = DOMAIN actions
    BY <1>3, <2>1, <2>5, <2>6, <2>7, OneAmended
  <2>9. PICK p : /\ driver' = [driver EXCEPT ![d] = p] /\ IsDriver(p) /\ p.pc = "execute"
                 /\ p.att = driver[d].att /\ p.act = a
    BY <1>1, <1>6, GotoMoves DEF Steps
  <2>10. DriverIn(p, attempts', actions')
    BY <1>2, <1>3, <2>8, <2>9 DEF DriverIn
  <2> QED BY <1>2, <2>7, <2>8, <2>9, <2>10, DriverKeeps
<1> QED BY <1>1, <1>4, <1>5, <1>6 DEF Act

LEMMA ExecuteKeeps ==
  ASSUME RecoveryInv, NEW d \in Drivers, Execute(d)
  PROVE  RecoveryInv'
<1>1. PICK q : q = driver[d]
  OBVIOUS
<1>2. /\ MayRun(d) /\ q.pc \in {"execute", "poll"}
      /\ UNCHANGED <<setup, run, attempts, actions, applications>>
  BY <1>1 DEF Execute, At
<1>3. IsFailed(q.att, attempts) /\ q.act \in DOMAIN actions /\ IsDriver(q)
  BY <1>1, <1>2, DriverIs DEF DriverIn, Acting
<1>4. CASE Stop(d) \/ Escalate(d)
  BY <1>2, <1>4, PassStops
<1>5. CASE driver' = [driver EXCEPT ![d].pc = "select", ![d].snap = <<Inputs(q.att)>>]
  <2>1. PICK s : s = <<Inputs(q.att)>>
    OBVIOUS
  <2>2. PICK p : p = [q EXCEPT !.pc = "select", !.snap = s]
    OBVIOUS
  <2>3. p \in [pc : {"select"}, att : {q.att}, fam : {q.fam}, plan : {q.plan}, snap : {s},
               tries : {q.tries}, act : {q.act}, from : {q.from},
               directives : {q.directives}, escalated : {q.escalated}]
    BY <1>3, <2>2 DEF IsDriver
  <2>4. driver' = [driver EXCEPT ![d] = p]
    BY <1>1, <1>5, <2>1, <2>2, DriverIs
  <2>5. IsDriver(p) /\ p.pc = "select" /\ p.att = q.att /\ p.act = q.act
    BY <1>3, <2>3 DEF IsDriver, Steps
  <2>6. DriverIn(p, attempts, actions)
    BY <1>3, <2>5 DEF DriverIn
  <2> QED BY <1>2, <2>4, <2>5, <2>6, PassMoves
<1> QED BY <1>1, <1>4, <1>5 DEF Execute

LEMMA SelectKeeps ==
  ASSUME RecoveryInv, NEW d \in Drivers, Select(d)
  PROVE  RecoveryInv'
<1>1. PICK q : q = driver[d]
  OBVIOUS
<1>2. /\ MayRun(d) /\ q.pc = "select" /\ UNCHANGED <<setup, attempts, applications>>
  BY <1>1 DEF Select, At
<1>3. /\ IsFailed(q.att, attempts) /\ q.act \in DOMAIN actions /\ IsDriver(q)
      /\ q.att \in DOMAIN attempts
  BY <1>1, <1>2, DriverIs DEF DriverIn, Acting, IsFailed
<1>4. CASE (Stop(d) \/ Escalate(d)) /\ UNCHANGED <<run, actions>>
  BY <1>2, <1>4, PassStops
<1>5. CASE Abandonable(q.act) /\ Abandon(q.act) /\ Stop(d)
  BY <1>2, <1>3, <1>5, AbandonKeeps
<1>6. ASSUME NEW c \in Restorable(q.att, q.snap[1].accepted), NEW dirs,
             driver' = [driver EXCEPT ![d].pc = "commit", ![d].from = c,
                                      ![d].directives = dirs],
             UNCHANGED <<run, actions>>
      PROVE  RecoveryInv'
  <2>1. PICK p : p = [q EXCEPT !.pc = "commit", !.from = c, !.directives = dirs]
    OBVIOUS
  <2>2. p \in [pc : {"commit"}, att : {q.att}, fam : {q.fam}, plan : {q.plan},
               snap : {q.snap}, tries : {q.tries}, act : {q.act}, from : {c},
               directives : {dirs}, escalated : {q.escalated}]
    BY <1>3, <2>1 DEF IsDriver
  <2>3. driver' = [driver EXCEPT ![d] = p]
    BY <1>1, <1>6, <2>1, DriverIs
  <2>4. IsDriver(p) /\ p.pc = "commit" /\ p.att = q.att /\ p.act = q.act /\ p.from = c
    BY <1>3, <2>2 DEF IsDriver, Steps
  <2>5. c \in Checkpoints(q.att) /\ Recorded(c)
    BY DEF Restorable
  <2>6. c[1] \in DOMAIN attempts /\ RecordedIn(c, attempts)
    <3>1. c[1] \in 1 .. q.att
      BY <2>5 DEF Checkpoints
    <3> QED BY <1>3, <2>5, <3>1, LatestIs DEF Recorded, RecordedIn
  <2>7. DriverIn(p, attempts, actions)
    BY <1>3, <2>4, <2>6 DEF DriverIn
  <2> QED BY <1>2, <1>6, <2>3, <2>4, <2>7, PassMoves
<1> QED BY <1>1, <1>4, <1>5, <1>6 DEF Select

\* A successor comes from an action on the open episode, and closes it.
LEMMA SuccessorIn ==
  ASSUME NEW at, NEW batch, AttemptsIn(at, batch), NEW acts, ActionsIn(acts, at, batch),
         NEW a \in DOMAIN acts, acts[a].att = Len(at),
         at[Len(at)].plans[acts[a].plan] = at[Len(at)].accepted,
         NEW y, IsAttempt(y), IsEpisode(y), y.src = Len(at),
         y.micro = acts[a].micro, y.accum = acts[a].accum,
         y.from[1] \in DOMAIN at, RecordedIn(y.from, at),
         EligibleIn(y.from, Len(at), at[Len(at)].accepted, at),
         NEW c, c \in [fam : {acts[a].fam}, att : {acts[a].att}, plan : {acts[a].plan},
                       micro : {acts[a].micro}, accum : {acts[a].accum},
                       prev : {acts[a].prev}, rate : {acts[a].rate}, status : {"executing"},
                       receipt : {"executed"}, intervened : {acts[a].intervened}]
  PROVE  /\ Growth(at, Append(at, y)) /\ AttemptsIn(Append(at, y), batch)
         /\ ActionsIn([acts EXCEPT ![a] = c], Append(at, y), batch)
         /\ DOMAIN [acts EXCEPT ![a] = c] = DOMAIN acts
<1>1. PICK b, l, new : b = acts[a] /\ l = Len(at) /\ new = Append(at, y)
  OBVIOUS
<1>2. ActionIn(b, at, batch) /\ b.att = l /\ at[l].plans[b.plan] = at[l].accepted
  BY <1>1 DEF ActionsIn
<1>3. IsFailed(l, at) /\ b.plan \in DOMAIN at[l].plans /\ b.micro * b.accum = batch
  BY <1>2 DEF ActionIn, IsProposed
<1>4. l \in Nat /\ l \in DOMAIN at
  BY <1>1, <1>3, SequenceShape DEF AttemptsIn, IsFailed
<1>5. at[l].status = "failed" /\ at[l].known
  <2>1. IsAttempt(at[l]) /\ IsEpisode(at[l])
    BY <1>4 DEF AttemptsIn, AttemptIn
  <2>2. Len(at[l].plans) \in Nat /\ DOMAIN at[l].plans = 1 .. Len(at[l].plans)
    BY <2>1, SequenceShape DEF IsAttempt
  <2>3. Len(at[l].plans) > 0
    BY <1>3, <2>2
  <2> QED BY <1>3, <2>1, <2>3 DEF IsFailed, IsEpisode
<1>6. /\ Growth(at, new) /\ AttemptsIn(new, batch) /\ Len(new) = l + 1
      /\ \A m \in DOMAIN at : new[m] = at[m]
      /\ new[l + 1] = y
  BY <1>1, <1>3, <1>5, AttemptAdded
<1>7. ActionsIn(acts, new, batch)
  BY <1>6, ActionsStand
<1>8. /\ c.fam = b.fam /\ c.att = b.att /\ c.plan = b.plan /\ c.micro = b.micro
      /\ c.accum = b.accum /\ c.status = "executing" /\ c.receipt = "executed"
  BY <1>1
<1>9. IsAction(c)
  BY <1>1, <1>2 DEF ActionIn, IsAction
<1>10. IsProposed(c, new, batch)
  <2>1. IsProposed(b, new, batch)
    BY <1>1, <1>7 DEF ActionsIn, ActionIn
  <2> QED BY <1>8, <2>1 DEF IsProposed
<1>11. IsExecuted(c, new)
  <2>1. b.att < Len(new) /\ new[b.att] = at[l] /\ new[b.att + 1] = y
    BY <1>2, <1>4, <1>6
  <2> QED BY <1>1, <1>2, <1>8, <2>1 DEF IsExecuted
<1>12. ActionIn(c, new, batch)
  BY <1>9, <1>10, <1>11 DEF ActionIn
<1>13. PICK more : more = [acts EXCEPT ![a] = c]
  OBVIOUS
<1>14. /\ IsSequence(more) /\ DOMAIN more = DOMAIN acts /\ more[a] = c
       /\ \A e \in DOMAIN acts : e # a => more[e] = acts[e]
  BY <1>13, UpdateShape DEF ActionsIn
<1>15. \A e \in DOMAIN more : ActionIn(more[e], new, batch)
  BY <1>7, <1>12, <1>14 DEF ActionsIn
<1>16. ASSUME NEW e \in DOMAIN acts, acts[e].receipt = "executed" PROVE acts[e].att # l
  <2>1. IsExecuted(acts[e], at)
    BY <1>16 DEF ActionsIn, ActionIn
  <2> QED BY <1>1, <1>4, <2>1 DEF IsExecuted
<1>17. Once(more)
  <2> SUFFICES ASSUME NEW e \in DOMAIN more, NEW f \in DOMAIN more,
                      more[e].receipt = "executed", more[f].receipt = "executed",
                      more[e].att = more[f].att, e # f
               PROVE  FALSE
    BY DEF Once
  <2>1. CASE e = a
    BY <1>2, <1>8, <1>14, <1>16, <2>1
  <2>2. CASE f = a
    BY <1>2, <1>8, <1>14, <1>16, <2>2
  <2>3. CASE e # a /\ f # a
    <3>1. Once(acts)
      BY DEF ActionsIn
    <3> QED BY <1>14, <2>3, <3>1 DEF Once
  <2> QED BY <2>1, <2>2, <2>3
<1>18. ActionsIn(more, new, batch)
  BY <1>14, <1>15, <1>17 DEF ActionsIn
<1> QED BY <1>1, <1>6, <1>13, <1>14, <1>18

LEMMA Succeeds ==
  ASSUME RecoveryInv, NEW a \in DOMAIN actions, NEW c, NEW dirs, Admits(a, c, dirs),
         c[1] \in DOMAIN attempts, RecordedIn(c, attempts),
         attempts' = Append(attempts, Successor(a, c, dirs)),
         actions' = [actions EXCEPT ![a].status = "executing", ![a].receipt = "executed"]
  PROVE  /\ Growth(attempts, attempts') /\ AttemptsIn(attempts', Batch)
         /\ ActionsIn(actions', attempts', Batch) /\ DOMAIN actions' = DOMAIN actions
<1>1. PICK at, acts, batch : at = attempts /\ acts = actions /\ batch = Batch
  OBVIOUS
<1>2. PICK b, y, l : b = acts[a] /\ y = Successor(a, c, dirs) /\ l = Len(at)
  OBVIOUS
<1>3. AttemptsIn(at, batch) /\ ActionsIn(acts, at, batch) /\ a \in DOMAIN acts
  BY <1>1 DEF RecoveryInv
<1>4. ActionIn(b, at, batch)
  BY <1>2, <1>3 DEF ActionsIn
<1>5. /\ FreshPlan(b.att, b.plan) /\ Eligible(c, b.att, attempts[b.att].accepted)
  BY <1>1, <1>2 DEF Admits
<1>6. b.att = l
  BY <1>1, <1>2, <1>5 DEF FreshPlan, Open, Latest
<1>7. at[l].plans[b.plan] = at[l].accepted
  <2>1. /\ b.plan = Len(at[l].plans) /\ Through(l) = at[l].accepted /\ b.plan # 0
    BY <1>1, <1>5, <1>6 DEF FreshPlan
  <2>2. at[l].plans # <<>>
    BY <2>1, EmptyShape
  <2> QED BY <1>1, <2>1, <2>2 DEF Through
<1>8. EligibleIn(c, l, at[l].accepted, at)
  <2>1. PICK k : k = at[l].accepted
    OBVIOUS
  <2>2. Eligible(c, l, k)
    BY <1>1, <1>5, <1>6, <2>1
  <2>3. EligibleIn(c, l, k, at)
    BY <1>1, <2>2, IncidentsAre DEF Eligible, EligibleIn, CheckpointOf
  <2> QED BY <2>1, <2>3
<1>9. b.micro \in Nat /\ b.accum \in Nat
  BY <1>4 DEF ActionIn, IsAction
<1>10. y \in [src : {l}, status : {"created"}, micro : {b.micro}, accum : {b.accum},
              from : {c}, directives : {dirs}, obs : {<<>>}, step : {y.step},
              known : {FALSE}, accepted : {0}, plans : {<<>>}, mark : {y.mark}]
  BY <1>1, <1>2, <1>6 DEF Successor
<1>11. /\ y.src = l /\ y.micro = b.micro /\ y.accum = b.accum /\ y.from = c
       /\ y.obs = <<>> /\ y.plans = <<>> /\ y.known = FALSE /\ y.accepted = 0
  BY <1>10
<1>12. IsAttempt(y)
  <2>1. IsSequence(y.obs) /\ IsSequence(y.plans) /\ DOMAIN y.obs = {}
    BY <1>11, EmptyShape
  <2>2. y \in [src : {y.src}, status : {"created", "live", "failed", "succeeded"},
               micro : Nat, accum : Nat, from : {y.from}, directives : {y.directives},
               obs : {y.obs}, step : {y.step}, known : BOOLEAN, accepted : Nat,
               plans : {y.plans}, mark : {y.mark}]
    <3>1. PICK k : k = y.known
      OBVIOUS
    <3>2. k \in BOOLEAN /\ y.micro \in Nat /\ y.accum \in Nat
      BY <1>9, <1>11, <3>1
    <3>3. y \in [src : {y.src}, status : {"created"}, micro : {y.micro}, accum : {y.accum},
                 from : {y.from}, directives : {y.directives}, obs : {y.obs}, step : {y.step},
                 known : {k}, accepted : {0}, plans : {y.plans}, mark : {y.mark}]
      BY <1>10, <3>1
    <3> QED BY <3>2, <3>3
  <2> QED BY <2>1, <2>2 DEF IsAttempt
<1>13. IsEpisode(y)
  <2>1. Cardinality(Incidents(<<>>)) \in Nat
    BY EmptyShape, IncidentsFinite
  <2> QED BY <1>11, <2>1, EmptyShape DEF IsEpisode
<1>14. PICK e : e = [b EXCEPT !.status = "executing", !.receipt = "executed"]
  OBVIOUS
<1>15. e \in [fam : {b.fam}, att : {b.att}, plan : {b.plan}, micro : {b.micro},
              accum : {b.accum}, prev : {b.prev}, rate : {b.rate}, status : {"executing"},
              receipt : {"executed"}, intervened : {b.intervened}]
  BY <1>4, <1>14 DEF ActionIn, IsAction
<1>16. actions' = [acts EXCEPT ![a] = e] /\ attempts' = Append(at, y)
  BY <1>1, <1>2, <1>14
<1>17. RecordedIn(y.from, at) /\ y.from[1] \in DOMAIN at
       /\ EligibleIn(y.from, l, at[l].accepted, at)
  BY <1>1, <1>8, <1>11
<1>18. /\ Growth(at, Append(at, y)) /\ AttemptsIn(Append(at, y), batch)
       /\ ActionsIn([acts EXCEPT ![a] = e], Append(at, y), batch)
       /\ DOMAIN [acts EXCEPT ![a] = e] = DOMAIN acts
  <2>1. /\ acts[a].att = Len(at) /\ at[Len(at)].plans[acts[a].plan] = at[Len(at)].accepted
        /\ y.src = Len(at) /\ y.micro = acts[a].micro /\ y.accum = acts[a].accum
        /\ EligibleIn(y.from, Len(at), at[Len(at)].accepted, at)
    BY <1>2, <1>6, <1>7, <1>11, <1>17
  <2>2. e \in [fam : {acts[a].fam}, att : {acts[a].att}, plan : {acts[a].plan},
               micro : {acts[a].micro}, accum : {acts[a].accum},
               prev : {acts[a].prev}, rate : {acts[a].rate}, status : {"executing"},
               receipt : {"executed"}, intervened : {acts[a].intervened}]
    BY <1>2, <1>15
  <2> QED BY <1>3, <1>12, <1>13, <1>17, <2>1, <2>2, SuccessorIn
<1> QED BY <1>1, <1>16, <1>18

LEMMA CommitKeeps ==
  ASSUME RecoveryInv, NEW d \in Drivers, Commit(d)
  PROVE  RecoveryInv'
<1>1. PICK q : q = driver[d]
  OBVIOUS
<1>2. PICK a, c, dirs : a = q.act /\ c = q.from /\ dirs = q.directives
  OBVIOUS
<1>3. MayRun(d) /\ q.pc = "commit" /\ UNCHANGED <<setup, applications>>
  BY <1>1 DEF Commit, At
<1>4. /\ IsFailed(q.att, attempts) /\ a \in DOMAIN actions
      /\ c[1] \in DOMAIN attempts /\ RecordedIn(c, attempts)
  BY <1>1, <1>2, <1>3, DriverIs DEF DriverIn, Acting
<1>5. CASE /\ Admits(a, c, dirs)
           /\ attempts' = Append(attempts, Successor(a, c, dirs))
           /\ actions' = [actions EXCEPT ![a].status = "executing", ![a].receipt = "executed"]
           /\ Stop(d) /\ UNCHANGED run
  <2>1. /\ Growth(attempts, attempts') /\ AttemptsIn(attempts', Batch)
        /\ ActionsIn(actions', attempts', Batch) /\ DOMAIN actions' = DOMAIN actions
    BY <1>4, <1>5, Succeeds
  <2>2. run' = "active" /\ IsSequence(applications')
    BY <1>3, <1>5 DEF Admits, RecoveryInv, RunInv
  <2>3. RunInv'
    BY <2>2 DEF RunInv, RunStatuses, SuccessVouchedFor, RunEndsWithItsWork
  <2> QED BY <1>3, <1>5, <2>1, <2>3, StopKeeps
<1>6. CASE Goto(d, "poll") /\ UNCHANGED <<run, attempts, actions>>
  <2>1. PICK p : /\ driver' = [driver EXCEPT ![d] = p] /\ IsDriver(p) /\ p.pc = "poll"
                 /\ p.att = q.att /\ p.act = a
    BY <1>1, <1>2, <1>6, GotoMoves DEF Steps
  <2>2. DriverIn(p, attempts, actions)
    BY <1>4, <2>1 DEF DriverIn
  <2> QED BY <1>3, <1>6, <2>1, <2>2, PassMoves
<1>7. CASE Abandonable(a) /\ Abandon(a) /\ Stop(d) /\ UNCHANGED attempts
  BY <1>3, <1>4, <1>7, AbandonKeeps
<1>8. CASE (Stop(d) \/ Escalate(d)) /\ UNCHANGED <<run, attempts, actions>>
  BY <1>3, <1>8, PassStops
<1> QED BY <1>1, <1>2, <1>5, <1>6, <1>7, <1>8 DEF Commit

-----------------------------------------------------------------------------
(* The human, the environment, and the theorems. *)

\* An action a human answered.
LEMMA AnsweredIn ==
  ASSUME NEW at, NEW batch, ActionsIn(actions, at, batch), NEW a \in DOMAIN actions,
         actions[a].status = "pending", NEW s \in {"approved", "rejected"},
         actions' = [actions EXCEPT ![a].status = s]
  PROVE  ActionsIn(actions', at, batch) /\ DOMAIN actions' = DOMAIN actions
<1>1. PICK b : b = actions[a]
  OBVIOUS
<1>2. PICK c : c = [b EXCEPT !.status = s]
  OBVIOUS
<1>3. ActionIn(b, at, batch) /\ b.status = "pending"
  BY <1>1 DEF ActionsIn
<1>4. b.receipt # "executed"
  BY <1>3 DEF ActionIn, IsExecuted
<1>5. c \in [fam : {b.fam}, att : {b.att}, plan : {b.plan}, micro : {b.micro},
             accum : {b.accum}, prev : {b.prev}, rate : {b.rate}, status : {s},
             receipt : {b.receipt}, intervened : {b.intervened}]
  BY <1>2, <1>3 DEF ActionIn, IsAction
<1>6. Amends(b, c)
  BY <1>4, <1>5 DEF Amends
<1>7. actions' = [actions EXCEPT ![a] = c]
  BY <1>1, <1>2
<1>8. PICK acts : acts = actions
  OBVIOUS
<1>9. ActionsIn(acts, at, batch) /\ a \in DOMAIN acts /\ Amends(acts[a], c)
  BY <1>1, <1>6, <1>8
<1>10. ActionsIn([acts EXCEPT ![a] = c], at, batch)
       /\ DOMAIN [acts EXCEPT ![a] = c] = DOMAIN acts
  BY <1>9, OneAmended
<1> QED BY <1>7, <1>8, <1>10

\* An action's attempt is one whose recovery is under way.
LEMMA ActionsAttempt ==
  ASSUME RecoveryInv, NEW a \in DOMAIN actions
  PROVE  IsFailed(actions[a].att, attempts) /\ actions[a].fam \in {"oom", "nan"}
BY DEF RecoveryInv, ActionsIn, ActionIn, IsProposed, IsAction

LEMMA ApproveKeeps ==
  ASSUME RecoveryInv, NEW d \in Drivers, NEW a \in DOMAIN actions, Approve(d, a)
  PROVE  RecoveryInv'
<1>1. /\ MayRun(d) /\ actions[a].status = "pending"
      /\ actions' = [actions EXCEPT ![a].status = "approved"]
      /\ Drive(d, actions[a].att, actions[a].fam)
      /\ UNCHANGED <<setup, run, attempts, applications>>
  BY DEF Approve, At
<1>2. /\ Growth(attempts, attempts') /\ RunInv'
      /\ AttemptsIn(attempts', Batch) /\ ActionsIn(actions, attempts', Batch)
  BY <1>1, AttemptsStay
<1>3. ActionsIn(actions', attempts', Batch) /\ DOMAIN actions' = DOMAIN actions
  BY <1>1, <1>2, AnsweredIn
<1>4. PICK n : n = actions[a].att
  OBVIOUS
<1>5. PICK fam \in {"oom", "nan"} : fam = actions[a].fam
  BY ActionsAttempt
<1>6. IsFailed(n, attempts')
  BY <1>1, <1>4, ActionsAttempt
<1> QED BY <1>1, <1>2, <1>3, <1>4, <1>5, <1>6, DriveKeeps

LEMMA RejectKeeps ==
  ASSUME RecoveryInv, NEW d \in Drivers, NEW a \in DOMAIN actions, Reject(d, a)
  PROVE  RecoveryInv'
<1>1. /\ MayRun(d) /\ actions[a].status = "pending"
      /\ actions' = [actions EXCEPT ![a].status = "rejected"]
      /\ UNCHANGED <<setup, run, attempts, applications>>
  BY DEF Reject, At
<1>2. /\ Growth(attempts, attempts') /\ RunInv'
      /\ AttemptsIn(attempts', Batch) /\ ActionsIn(actions, attempts', Batch)
  BY <1>1, AttemptsStay
<1>3. ActionsIn(actions', attempts', Batch) /\ DOMAIN actions' = DOMAIN actions
  BY <1>1, <1>2, AnsweredIn
<1>4. PICK e : e = driver[d].escalated
  OBVIOUS
<1>5. PICK p : p = [Idle EXCEPT !.pc = "abandon", !.act = a, !.escalated = e]
  OBVIOUS
<1>6. p \in [pc : {"abandon"}, att : {0}, fam : {"oom"}, plan : {0}, snap : {<<>>},
             tries : {0}, act : {a}, from : {<<>>}, directives : {<<>>}, escalated : {e}]
  BY <1>5 DEF Idle
<1>7. IsDriver(p) /\ p.pc = "abandon" /\ p.act = a
  BY <1>6 DEF IsDriver, Steps
<1>8. DriverIn(p, attempts', actions')
  BY <1>3, <1>7 DEF DriverIn
<1>9. driver' = [driver EXCEPT ![d] = p]
  BY <1>4, <1>5 DEF Reject
<1> QED BY <1>1, <1>2, <1>3, <1>7, <1>8, <1>9, DriverKeeps

LEMMA CarryOnRejectionKeeps ==
  ASSUME RecoveryInv, NEW d \in Drivers, CarryOnRejection(d)
  PROVE  RecoveryInv'
<1>1. PICK a : a = driver[d].act
  OBVIOUS
<1>2. /\ MayRun(d) /\ driver[d].pc = "abandon" /\ UNCHANGED <<setup, attempts, applications>>
  BY DEF CarryOnRejection, At
<1>3. a \in DOMAIN actions
  BY <1>1, <1>2, DriverIs DEF DriverIn, Acting
<1>4. CASE Abandonable(a) /\ Abandon(a) /\ Stop(d)
  BY <1>2, <1>3, <1>4, AbandonKeeps
<1>5. CASE Drive(d, actions[a].att, actions[a].fam) /\ UNCHANGED <<run, actions>>
  <2>1. PICK n : n = actions[a].att
    OBVIOUS
  <2>2. PICK fam \in {"oom", "nan"} : fam = actions[a].fam
    BY <1>3, ActionsAttempt
  <2>3. IsFailed(n, attempts')
    BY <1>2, <1>3, <2>1, ActionsAttempt
  <2>4. /\ Growth(attempts, attempts') /\ RunInv'
        /\ AttemptsIn(attempts', Batch) /\ ActionsIn(actions', attempts', Batch)
        /\ DOMAIN actions \subseteq DOMAIN actions'
    BY <1>2, <1>5, AttemptsStay
  <2> QED BY <1>2, <1>5, <2>1, <2>2, <2>3, <2>4, DriveKeeps
<1>6. CASE Stop(d) /\ UNCHANGED <<run, actions>>
  BY <1>2, <1>6, PassStops
<1> QED BY <1>1, <1>4, <1>5, <1>6 DEF CarryOnRejection

\* What a driver at rest knows is nothing.
LEMMA IdleIn ==
  ASSUME NEW at, NEW acts
  PROVE  DriverIn(Idle, at, acts) /\ Idle.pc = "idle"
<1>1. PICK p : p = Idle
  OBVIOUS
<1>2. p \in [pc : {"idle"}, att : {0}, fam : {"oom"}, plan : {0}, snap : {<<>>}, tries : {0},
             act : {0}, from : {<<>>}, directives : {<<>>}, escalated : {p.escalated}]
  BY <1>1 DEF Idle
<1>3. IsDriver(p) /\ p.pc = "idle"
  BY <1>2 DEF IsDriver, Steps
<1>4. DriverIn(p, at, acts)
  BY <1>3 DEF DriverIn, Acting
<1> QED BY <1>1, <1>3, <1>4

LEMMA CrashKeeps ==
  ASSUME RecoveryInv, NEW d \in Drivers, Crash(d)
  PROVE  RecoveryInv'
<1>1. /\ driver' = [e \in Drivers |-> IF setup.alone \/ e = d THEN Idle ELSE driver[e]]
      /\ UNCHANGED <<setup, run, attempts, actions, applications>>
  BY DEF Crash
<1>2. /\ AttemptsIn(attempts', Batch) /\ ActionsIn(actions', attempts', Batch) /\ RunInv'
  BY <1>1, AttemptsStay
<1>3. DriversIn(driver', attempts', actions')
  <2>1. \A e \in Drivers : DriverIn(driver[e], attempts, actions)
    BY DriverIs
  <2>2. \A e \in Drivers : driver'[e] = Idle \/ driver'[e] = driver[e]
    BY <1>1
  <2>3. driver' = [e \in Drivers |-> driver'[e]]
    BY <1>1
  <2> QED BY <1>1, <2>1, <2>2, <2>3, IdleIn DEF DriversIn
<1>4. setup.alone => AloneIn(driver', Latest')
  BY <1>1, IdleIn DEF AloneIn, Awaits
<1>5. Batch' = Batch
  BY <1>1 DEF Batch
<1>6. Vouching'
  <2>1. \A e \in Drivers : driver'[e] = Idle \/ driver'[e] = driver[e]
    BY <1>1
  <2>2. \A n : Unconfirmed(n)' = Unconfirmed(n)
    BY <1>1 DEF Unconfirmed, Confirmed
  <2>3. Vouching
    BY DEF RecoveryInv
  <2> QED BY <2>1, <2>2, <2>3, IdleIn DEF Vouching
<1> QED BY <1>1, <1>2, <1>3, <1>4, <1>5, <1>6 DEF RecoveryInv

LEMMA RecoveryUnchanged ==
  ASSUME RecoveryInv, UNCHANGED <<setup, run, attempts, actions, applications, driver>>
  PROVE  RecoveryInv'
<1>1. /\ AttemptsIn(attempts', Batch) /\ ActionsIn(actions', attempts', Batch) /\ RunInv'
      /\ Growth(attempts, attempts') /\ Len(attempts') = Len(attempts)
      /\ DOMAIN actions \subseteq DOMAIN actions'
  BY AttemptsStay
<1> QED BY <1>1, AppsStay, OthersKeep

LEMMA RecoveryInit == Init => RecoveryInv
<1> SUFFICES ASSUME Init PROVE RecoveryInv
  OBVIOUS
<1>1. PICK x, at, batch : x = Fresh1 /\ at = attempts /\ batch = Batch
  OBVIOUS
<1>2. setup \in Setups /\ setup.micro \in Nat /\ setup.accum \in Nat
  BY SetupsAssumption DEF Init, SetupOK
<1>3. x \in [src : {0}, status : {"live"}, micro : {setup.micro}, accum : {setup.accum},
             from : {<<>>}, directives : {<<>>}, obs : {<<>>}, step : {0},
             known : {FALSE}, accepted : {0}, plans : {<<>>}, mark : {0}]
  BY <1>1 DEF Fresh1
<1>4. /\ x.src = 0 /\ x.micro = setup.micro /\ x.accum = setup.accum
      /\ x.obs = <<>> /\ x.plans = <<>> /\ x.known = FALSE /\ x.accepted = 0
  BY <1>3
<1>5. IsAttempt(x)
  <2>1. IsSequence(x.obs) /\ IsSequence(x.plans) /\ DOMAIN x.obs = {}
    BY <1>4, EmptyShape
  <2>2. x \in [src : {x.src}, status : {"created", "live", "failed", "succeeded"},
               micro : Nat, accum : Nat, from : {x.from}, directives : {x.directives},
               obs : {x.obs}, step : {x.step}, known : BOOLEAN, accepted : Nat,
               plans : {x.plans}, mark : {x.mark}]
    <3>1. PICK k : k = x.known
      OBVIOUS
    <3>2. k \in BOOLEAN /\ x.micro \in Nat /\ x.accum \in Nat
      BY <1>2, <1>4, <3>1
    <3>3. x \in [src : {x.src}, status : {"live"}, micro : {x.micro}, accum : {x.accum},
                 from : {x.from}, directives : {x.directives}, obs : {x.obs}, step : {x.step},
                 known : {k}, accepted : {0}, plans : {x.plans}, mark : {x.mark}]
      BY <1>3, <3>1
    <3> QED BY <3>2, <3>3
  <2> QED BY <2>1, <2>2 DEF IsAttempt
<1>6. IsEpisode(x)
  <2>1. Cardinality(Incidents(<<>>)) \in Nat
    BY EmptyShape, IncidentsFinite
  <2> QED BY <1>4, <2>1, EmptyShape DEF IsEpisode
<1>7. at = <<x>> /\ Len(at) = 1 /\ DOMAIN at = {1} /\ at[1] = x
  BY <1>1 DEF Init
<1>8. IsSequence(at)
  BY <1>7 DEF IsSequence
<1>9. x.micro * x.accum = batch
  BY <1>1, <1>4 DEF Batch
<1>10. AttemptIn(1, at, batch)
  BY <1>4, <1>5, <1>6, <1>7, <1>9 DEF AttemptIn
<1>11. AttemptsIn(attempts, Batch)
  BY <1>1, <1>7, <1>8, <1>10 DEF AttemptsIn
<1>12. ActionsIn(actions, attempts, Batch)
  BY EmptyShape DEF Init, ActionsIn, Once
<1>13. driver = [d \in Drivers |-> Idle]
  BY DEF Init
<1>14. DriversIn(driver, attempts, actions)
  BY <1>13, IdleIn DEF DriversIn
<1>15. AloneIn(driver, Latest)
  BY <1>13, IdleIn DEF AloneIn, Awaits
<1>16. RunInv
  BY EmptyShape DEF Init, RunInv, RunStatuses, SuccessVouchedFor, RunEndsWithItsWork
<1>17. Vouching
  BY <1>13, IdleIn DEF Vouching
<1> QED BY <1>2, <1>11, <1>12, <1>14, <1>15, <1>16, <1>17 DEF RecoveryInv

LEMMA RecoveryStep == RecoveryInv /\ [Next]_vars => RecoveryInv'
<1> SUFFICES ASSUME RecoveryInv, [Next]_vars PROVE RecoveryInv'
  OBVIOUS
<1>1. ASSUME NEW d \in Drivers, DriverStep(d) PROVE RecoveryInv'
  BY <1>1, DriveUnmanagedKeeps, GiveUpKeeps, SucceedKeeps, PlanRoundKeeps, RecordPlanKeeps, CheckPlanKeeps,
     FindBindingKeeps, ProposeKeeps, ActKeeps, ExecuteKeeps, SelectKeeps, CommitKeeps,
     CarryOnRejectionKeeps DEF DriverStep
<1>2. ASSUME NEW d \in Drivers, Ends(d) \/ Human(d) PROVE RecoveryInv'
  BY <1>2, EndSucceededKeeps, EndFailedKeeps, SettleRefusedKeeps, ApproveKeeps, RejectKeeps DEF Ends, Human
<1>3. ASSUME NEW d \in Drivers, Attach(d) \/ Crash(d) PROVE RecoveryInv'
  BY <1>3, AttachKeeps, CrashKeeps
<1>4. ASSUME NEW n \in DOMAIN attempts, Worker(n) PROVE RecoveryInv'
  BY <1>4, RecordCheckpointKeeps, RecordIncidentKeeps, RecordApplicationKeeps, ConfirmKeeps,
     RefuseKeeps, RotKeeps DEF Worker
<1>5. CASE ReleaseSlot
  BY <1>5, RecoveryUnchanged DEF ReleaseSlot
<1>6. CASE UNCHANGED vars
  BY <1>6, RecoveryUnchanged DEF vars
<1> QED BY <1>1, <1>2, <1>3, <1>4, <1>5, <1>6 DEF Next

\* An attempt has one successor, from one action.
LEMMA InvOneSuccessor ==
  ASSUME RecoveryInv
  PROVE  RecoveryTypeOK /\ OneSuccessor
<1>1. \A n \in DOMAIN attempts : AttemptIn(n, attempts, Batch) /\ IsAttempt(attempts[n])
                                 /\ IsEpisode(attempts[n])
  BY DEF RecoveryInv, AttemptsIn, AttemptIn
<1>2. \A a \in Executed : ActionIn(actions[a], attempts, Batch) /\ IsExecuted(actions[a], attempts)
  BY DEF RecoveryInv, ActionsIn, ActionIn, Executed
<1>3. RecoveryTypeOK
  <2>1. run \in RunStatuses
    BY DEF RecoveryInv, RunInv
  <2>2. \A n \in DOMAIN attempts :
          attempts[n].status \in {"created", "live", "failed", "succeeded"}
    BY <1>1 DEF IsAttempt
  <2>3. \A n \in DOMAIN attempts : \A q \in DOMAIN attempts[n].plans :
            /\ attempts[n].plans[q] \in 1 .. attempts[n].accepted
            /\ q > 1 => attempts[n].plans[q] = attempts[n].plans[q - 1] + 1
    BY <1>1 DEF IsEpisode
  <2>4. \A a \in Executed : actions[a].status \in {"executing", "succeeded", "failed"}
    BY <1>2 DEF IsExecuted
  <2> QED BY <2>1, <2>2, <2>3, <2>4 DEF RecoveryTypeOK
<1>4. \A n \in DOMAIN attempts : /\ attempts[n].src = n - 1
                                 /\ n < Latest => attempts[n].status \in {"failed", "succeeded"}
  BY <1>1 DEF AttemptIn, Latest, Over
<1>5. \A a, b \in Executed : actions[a].att = actions[b].att => a = b
  BY DEF RecoveryInv, ActionsIn, Once, Executed
<1> QED BY <1>3, <1>4, <1>5 DEF OneSuccessor

\* It was decided on all the evidence.
LEMMA InvDecided ==
  ASSUME RecoveryInv
  PROVE  DecidedOnAllEvidence
<1> SUFFICES ASSUME NEW a \in Executed
             PROVE  /\ attempts[actions[a].att].plans[actions[a].plan]
                         = attempts[actions[a].att].accepted
                    /\ Categories(actions[a].att, attempts[actions[a].att].accepted)
                         \subseteq {actions[a].fam, "transient"}
  BY DEF DecidedOnAllEvidence
<1>1. PICK b, n, k : b = actions[a] /\ n = b.att /\ k = attempts[n].accepted
  OBVIOUS
<1>2. IsExecuted(b, attempts) /\ IsProposed(b, attempts, Batch)
  BY <1>1 DEF RecoveryInv, ActionsIn, ActionIn, Executed
<1>3. attempts[n].plans[b.plan] = k
  BY <1>1, <1>2 DEF IsExecuted
<1>4. CategoriesIn(attempts[n].obs, k) \subseteq {b.fam, "transient"}
  BY <1>1, <1>2, <1>3 DEF IsProposed
<1> QED BY <1>1, <1>3, <1>4, CategoriesAre

\* It restores a state from before the evidence.
LEMMA InvRestores ==
  ASSUME RecoveryInv
  PROVE  RestoresBeforeIncident
<1> SUFFICES ASSUME NEW n \in 2 .. Latest,
                    NEW i \in Evidence(attempts[n].src, attempts[attempts[n].src].accepted)
             PROVE  /\ attempts[n].from[1] = attempts[n].src => attempts[n].from[2] < i
                    /\ CarriesStep(attempts[attempts[n].src].obs[i].cat) =>
                         CheckpointOf(attempts[n].from).step
                           <= attempts[attempts[n].src].obs[i].step
  BY DEF RestoresBeforeIncident
<1>1. n \in DOMAIN attempts /\ n > 1
  BY LatestIs
<1>2. attempts[n].src = n - 1 /\ IsRestored(n, attempts)
  BY <1>1 DEF RecoveryInv, AttemptsIn, AttemptIn
<1>3. PICK c, m, k : c = attempts[n].from /\ m = n - 1 /\ k = attempts[m].accepted
  OBVIOUS
<1>4. EligibleIn(c, m, k, attempts)
  BY <1>2, <1>3 DEF IsRestored
<1>5. i \in EvidenceIn(attempts[m].obs, k)
  BY <1>2, <1>3, IncidentsAre
<1> QED BY <1>2, <1>3, <1>4, <1>5 DEF EligibleIn, CheckpointOf

\* It trains the same effective batch, and a resize a smaller micro batch.
LEMMA InvBatch ==
  ASSUME RecoveryInv
  PROVE  BatchPreserved
<1>1. \A n \in DOMAIN attempts : attempts[n].micro * attempts[n].accum = setup.micro * setup.accum
  BY DEF RecoveryInv, AttemptsIn, AttemptIn, Batch
<1>2. ASSUME NEW n \in DOMAIN attempts, NEW a \in Executed,
             actions[a].att = n - 1, actions[a].fam = "oom"
      PROVE  attempts[n].micro < attempts[n - 1].micro
  <2>1. PICK b : b = actions[a]
    OBVIOUS
  <2>2. IsExecuted(b, attempts) /\ IsProposed(b, attempts, Batch)
    BY <2>1 DEF RecoveryInv, ActionsIn, ActionIn, Executed
  <2>3. n - 1 + 1 = n
    BY LatestIs
  <2>4. attempts[n].micro = b.micro
    BY <1>2, <2>1, <2>2, <2>3 DEF IsExecuted
  <2>5. b.micro < attempts[n - 1].micro
    BY <1>2, <2>1, <2>2 DEF IsProposed
  <2> QED BY <2>4, <2>5
<1> QED BY <1>1, <1>2 DEF BatchPreserved

LEMMA RecoveryAlways == Spec => []RecoveryInv
BY RecoveryInit, RecoveryStep, PTL DEF Spec

\* A successor is the only one, consumed from one action; the action covered
\* every incident accepted before the successor existed; the checkpoint it
\* restores was reported before all of them and is not beyond the step that
\* one of them names; and the effective batch is that of the run.  For any number of drivers, processes, approvals and crashes, and
\* whatever evidence arrives while one of them awaits.
THEOREM SuccessorTrue == Spec => []SuccessorSound
<1>1. RecoveryInv => SuccessorSound
  BY InvOneSuccessor, InvDecided, InvRestores, InvBatch DEF SuccessorSound
<1> QED BY <1>1, RecoveryAlways, PTL

\* A run that succeeded has a last attempt that succeeded and confirmed its
\* directives; with one controller process a run that ended has no attempt
\* that is created or at work.
THEOREM RunEndsTrue == Spec => []RunEndsHonestly
<1>1. RecoveryInv => RunEndsHonestly
  BY DEF RecoveryInv, RunInv, RunEndsHonestly
<1> QED BY <1>1, RecoveryAlways, PTL

=============================================================================
