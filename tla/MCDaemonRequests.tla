-------------------------- MODULE MCDaemonRequests --------------------------
EXTENDS DaemonRequests, TLC

Absent == [status |-> "none", host |-> "", att |-> "none", more |-> 0]
Theirs == [Absent EXCEPT !.status = "active", !.host = "embedded", !.att = "confirmed"]
Stopped == [Absent EXCEPT !.status = "active", !.host = "daemon"]
NoAct == [exp |-> "", type |-> "none", st |-> "none", eff |-> "none", ans |-> 0, bound |-> FALSE]
Awaiting == [NoAct EXCEPT !.exp = "e", !.type = "governed", !.st = "pending", !.bound = TRUE]

Asks(kind, exp, act) == [kind |-> kind, exp |-> exp, act |-> act, good |-> TRUE, who |-> "x"]
Plain(q, es, as) ==
    [asks |-> q, exps |-> es, acts |-> as, verdict |-> "pending", upgrade |-> FALSE,
     forgets |-> FALSE, decides |-> TRUE, breaks |-> {},
     may |-> {"end", "error", "retry"}]

Submitted == Plain(<<Asks("submit", "e", ""), Asks("cancel", "e", "a")>>,
                   "e" :> [Absent EXCEPT !.more = 1], "a" :> NoAct)
Refused == Plain(<<[Asks("submit", "e", "") EXCEPT !.good = FALSE], Asks("attach", "e", "")>>,
                 "e" :> Absent, "a" :> NoAct)
Twins == Plain(<<Asks("submit", "e", ""), Asks("submit", "e", "")>>, "e" :> Absent, "a" :> NoAct)
Adopted2 == Plain(<<Asks("attach", "e", ""), Asks("propose", "e", "a")>>, "e" :> Theirs, "a" :> NoAct)
Replaced == [Adopted2 EXCEPT !.upgrade = TRUE]
Cancelled2 == Plain(<<Asks("cancel", "e", "a"), Asks("cancel", "e", "b")>>,
                    "e" :> Theirs, "a" :> NoAct @@ "b" :> NoAct)
Answered == Plain(<<Asks("approve", "e", "a"), [Asks("reject", "e", "a") EXCEPT !.who = "y"]>>,
                  "e" :> Stopped, "a" :> Awaiting)
Agreed == Plain(<<Asks("approve", "e", "a"), Asks("approve", "e", "a")>>,
                "e" :> Stopped, "a" :> Awaiting)
Upgraded == [Plain(<<Asks("attach", "e", ""), Asks("cancel", "e", "a")>>, "e" :> Theirs, "a" :> NoAct)
             EXCEPT !.upgrade = TRUE]
Released == [Plain(<<Asks("approve", "e", "a")>>, "e" :> Stopped, "a" :> Awaiting)
             EXCEPT !.upgrade = TRUE]
Forgotten == [Plain(<<Asks("submit", "e", "")>>, "e" :> [Absent EXCEPT !.more = 1], "a" :> NoAct)
              EXCEPT !.forgets = TRUE]
Mistaken == Plain(<<Asks("approve", "f", "a"), [Asks("propose", "e", "b") EXCEPT !.good = FALSE]>>,
                  "e" :> Stopped @@ "f" :> Stopped, "a" :> Awaiting @@ "b" :> NoAct)
Proposed == [Plain(<<Asks("propose", "e", "a"), Asks("approve", "e", "a")>>, "e" :> Theirs, "a" :> NoAct)
             EXCEPT !.decides = FALSE]

With(may, s) == [s EXCEPT !.may = may]
Broken == With({"end", "error"}, [Plain(<<Asks("attach", "e", "")>>, "e" :> Theirs, "a" :> NoAct)
                                  EXCEPT !.breaks = {"observer", "sweep"}])
MailSetups == {Broken, Refused}
              \cup {With({"end", "error"}, s) : s \in {Submitted, Adopted2, Released, Forgotten}}
              \cup {With({"end", "retry"}, s) : s \in {Cancelled2, Proposed}}
              \cup {With({"end"}, s) : s \in {Twins, Answered, Upgraded, Mistaken, Replaced}}
              \cup {With({"reject"}, Submitted), With({"end", "reject"}, Agreed)}
ReplacedSetups == {Replaced}
BrokenSetups == {Broken}
=============================================================================
