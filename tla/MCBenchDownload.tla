---------------------------- MODULE MCBenchDownload --------------------------
(* Model checking BenchDownload; bench.cfg gives the constants.              *)
EXTENDS BenchDownload

(* No --to-height, one before --from-height, and one inside a range.         *)
Requests == {NoHeight, 0, 6}
=============================================================================
