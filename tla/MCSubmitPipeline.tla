-------------------------- MODULE MCSubmitPipeline ---------------------------
(* Model checking SubmitPipeline; the configurations give the constants.     *)
EXTENDS SubmitPipeline
=============================================================================
