------------------------- MODULE MCIncidentRecovery -------------------------
(***************************************************************************)
(* Small instances of IncidentRecovery.                                    *)
(***************************************************************************)
EXTENDS IncidentRecovery

CONSTANTS d1, d2

Base ==
    [micro |-> 4, accum |-> 1, floor |-> 2, verdict |-> "allow", attempts |-> 3,
     recoveries |-> 2, managed |-> {d1, d2}, alone |-> TRUE, cats |-> {"oom"},
     late |-> FALSE, rots |-> 0, crashes |-> 0, slot |-> FALSE, budget |-> FALSE]

(* Two tasks of one process; the rate is lowered twice, bytes get lost.    *)
Rates == [Base EXCEPT !.cats = {"nan"}, !.rots = 1]

(* Both recoveries on one run, one after the other.                        *)
Mixed == [Base EXCEPT !.cats = {"oom", "nan"}, !.floor = 1]

(* A human answers while evidence of other kinds arrives.                  *)
Reviewed ==
    [Base EXCEPT !.verdict = "approval", !.attempts = 2, !.cats = {"oom", "fatal"},
                 !.late = TRUE]

ReviewedRate ==
    [Base EXCEPT !.verdict = "approval", !.attempts = 2, !.cats = {"nan", "transient"},
                 !.crashes = 1]

(* Two processes; in the second case one has no checkpoint manager.        *)
Processes ==
    [Base EXCEPT !.alone = FALSE, !.verdict = "approval", !.cats = {"oom", "nan"}, !.attempts = 2]

Unmanaged ==
    [Base EXCEPT !.alone = FALSE, !.managed = {d1}, !.cats = {"oom", "nan"},
                 !.attempts = 2, !.late = TRUE]

Denied == [Base EXCEPT !.verdict = "deny"]

(* The last slot is taken and the budget runs out.                         *)
Contended ==
    [Base EXCEPT !.slot = TRUE, !.budget = TRUE, !.attempts = 2,
                 !.cats = {"oom", "transient"}]

(* The process dies, also between an attempt's commit and its run's.       *)
Dies == [Base EXCEPT !.crashes = 1, !.cats = {"oom", "fatal"}, !.attempts = 2]

(* An effective batch of 5 has no smaller micro batch of half the size.    *)
Odd == [Base EXCEPT !.micro = 5]

MCSetups ==
    {Base, Rates, Mixed, Reviewed, ReviewedRate, Processes, Unmanaged, Denied, Contended, Odd,
     Dies}
=============================================================================
