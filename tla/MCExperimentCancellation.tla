---------------------- MODULE MCExperimentCancellation ----------------------
(* Small instances: an attempt of one experiment that is cancelled. *)
EXTENDS ExperimentCancellation, TLC

CONSTANTS c1, c2, train, eval
=============================================================================
