--------------------------- MODULE RuntimeContract ---------------------------
(***************************************************************************)
(* What every RuntimeBackend promises the controller (the Protocol in      *)
(* runtimes/__init__.py): a workload per submit operation, started at most *)
(* once by submit_or_get, looked up, observed and asked to stop under the  *)
(* operation's id.  The controller modules extend it; a runtime implements *)
(* it.  One promise is optional: a runtime whose ResilienceCapabilities do *)
(* not say reports_completed_operations may forget an operation whose      *)
(* workload has ended.                                                     *)
(***************************************************************************)
EXTENDS Naturals

CONSTANTS
  Operations,        \* ids of submit operations
  ReportsCompleted   \* ResilienceCapabilities.reports_completed_operations

ASSUME ContractAssumption == ReportsCompleted \in BOOLEAN

VARIABLES
  wl,        \* what became of each operation's workload
  starts,    \* history: how often a workload was started for it
  forgot,    \* the runtime no longer has any record of the operation
  asked      \* cancel() has been called for the workload

runtimeVars == <<wl, starts, forgot, asked>>

\* The endings of RuntimeState.  A live workload is pending to running;
\* "lost" is one that is gone and whose ending nobody observed.
Endings == {"succeeded", "failed", "cancelled", "preempted"}
Gone == Endings \cup {"lost"}
Workloads == {"absent", "rejected", "live"} \cup Gone

RuntimeTypeOK ==
  /\ wl \in [Operations -> Workloads]
  /\ starts \in [Operations -> Nat]
  /\ forgot \in [Operations -> BOOLEAN]
  /\ asked \in [Operations -> BOOLEAN]

RuntimeInit ==
  /\ wl = [o \in Operations |-> "absent"]
  /\ starts = [o \in Operations |-> 0]
  /\ forgot = [o \in Operations |-> FALSE]
  /\ asked = [o \in Operations |-> FALSE]

-----------------------------------------------------------------------------
(* What the runtime answers. *)

\* The operation is unknown to the runtime: submit_or_get would start it.
Unknown(o) == wl[o] = "absent" \/ forgot[o]

\* lookup_operation: None, a rejection, or the workload's reference
\* (dispositions accepted and completed, which the controller treats alike).
Lookup(o) ==
  IF Unknown(o) THEN "none"
  ELSE IF wl[o] = "rejected" THEN "rejected" ELSE "found"

\* get_status, for an operation that has a reference.  "unknown" is a real
\* answer: a backend may have lost track of a workload that still runs.
Statuses(o) ==
  IF forgot[o] \/ wl[o] = "lost" THEN {"unknown"}
  ELSE IF wl[o] = "live" THEN {"live", "unknown"} ELSE {wl[o]}

-----------------------------------------------------------------------------
(* What the runtime does. *)

\* submit_or_get accepted: get-or-create, never create.
SubmitOrGet(o) ==
  /\ wl[o] # "rejected"
  /\ IF Unknown(o)
       THEN /\ wl' = [wl EXCEPT ![o] = "live"]
            /\ starts' = [starts EXCEPT ![o] = @ + 1]
            /\ forgot' = [forgot EXCEPT ![o] = FALSE]
       ELSE UNCHANGED <<wl, starts, forgot>>
  /\ UNCHANGED asked

\* submit_or_get refused (UnsupportedPlanError): a refusal is recorded, so a
\* later lookup learns that nothing was started, and repeated.
Refuse(o) ==
  /\ \/ Unknown(o)
     \/ wl[o] = "rejected"
  /\ wl' = [wl EXCEPT ![o] = "rejected"]
  /\ forgot' = [forgot EXCEPT ![o] = FALSE]
  /\ UNCHANGED <<starts, asked>>

\* cancel: a request, never a state.
Cancel(o) ==
  /\ starts[o] > 0
  /\ asked' = [asked EXCEPT ![o] = TRUE]
  /\ UNCHANGED <<wl, starts, forgot>>

\* A workload leaves the live states.  It may finish, be stopped by the
\* controller's request or by something else, or vanish unobserved.
End(o, s) ==
  /\ wl[o] = "live"
  /\ s \in Gone
  /\ wl' = [wl EXCEPT ![o] = s]
  /\ UNCHANGED <<starts, forgot, asked>>

Forget(o) ==
  /\ ~ReportsCompleted
  /\ wl[o] \in Gone
  /\ ~forgot[o]
  /\ forgot' = [forgot EXCEPT ![o] = TRUE]
  /\ UNCHANGED <<wl, starts, asked>>

RuntimeNext ==
  \E o \in Operations :
    \/ SubmitOrGet(o)
    \/ Refuse(o)
    \/ Cancel(o)
    \/ \E s \in Gone : End(o, s)
    \/ Forget(o)

RuntimeSpec == RuntimeInit /\ [][RuntimeNext]_runtimeVars
=============================================================================
