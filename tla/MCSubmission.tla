---------------------------- MODULE MCSubmission ----------------------------
(***************************************************************************)
(* Small instances of Submission: a training and an evaluation attempt,    *)
(* two controllers.  LiveSpec follows one of the two attempts at a time,   *)
(* the one `follows' names: the training attempt of an experiment that     *)
(* does not get to its evaluation, or the evaluation attempt of one whose  *)
(* training is settled.                                                    *)
(***************************************************************************)
EXTENDS Submission

CONSTANTS c1, c2, train, eval

VARIABLE follows

\* f with the training attempt's entry set, when its training is behind it.
Past(f, v) == IF follows = eval THEN [f EXCEPT ![train] = v] ELSE f

LiveInit ==
  /\ follows \in Operations
  /\ wl = Past([o \in Operations |-> "absent"], "succeeded")
  /\ starts = Past([o \in Operations |-> 0], 1)
  /\ forgot = [o \in Operations |-> FALSE]
  /\ asked = [o \in Operations |-> FALSE]
  /\ sub = Past([o \in Operations |-> "none"], "confirmed")
  /\ att = Past([o \in Operations |-> "none"], "succeeded")
  /\ run = Past([o \in Operations |-> "none"], "succeeded")
  /\ report = [o \in Operations |-> "none"]
  /\ degraded = [o \in Operations |-> FALSE]
  /\ up = [c \in Controllers |-> ~Fenced]
  /\ owner \in Controllers
  /\ pc = [c \in Controllers |-> [o \in Operations |-> "idle"]]
  /\ seen = [c \in Controllers |-> [o \in Operations |-> "failed"]]
  /\ transit = {}
  /\ crashes = 0
  /\ errors = 0

LiveNext ==
  /\ UNCHANGED follows
  /\ Next
  /\ follows = train => run'[eval] = "none"

LiveSpec == LiveInit /\ [][LiveNext]_<<vars, follows>> /\ Fairness
=============================================================================
