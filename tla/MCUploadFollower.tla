--------------------------- MODULE MCUploadFollower --------------------------
(* UploadFollower on chains of a few blocks, for TLC.                      *)
EXTENDS UploadFollower
=============================================================================
