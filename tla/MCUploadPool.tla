---------------------------- MODULE MCUploadPool -----------------------------
(* UploadPool on a few heights, the first of them stored before.           *)
EXTENDS UploadPool

FirstStored == {From}
=============================================================================
