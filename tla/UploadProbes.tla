----------------------------- MODULE UploadProbes ----------------------------
(***************************************************************************)
(* Which heights an uploader probes before it uploads from .. to, and      *)
(* where the upload starts, given the lowest probe that is not stored      *)
(* (findUploadStart of sync.go and its helpers).                           *)
(***************************************************************************)
EXTENDS Integers

CONSTANT ProbeStep  \* distance of the probed heights (uploadMissingProbeStep)

ASSUME ProbeAssumption == ProbeStep \in Nat \ {0}

(* Mutant: the probe loop runs one height too far.                         *)
UploadProbeHeightsPast(from, to) == {h \in from..(to + 1) : (h - from) % ProbeStep = 0}

UploadProbeHeights(from, to) == {h \in from..to : (h - from) % ProbeStep = 0}

(* Mutant: upload from the missing probe on.                               *)
FromMissingProbe(from, missingHeight) == missingHeight

PreviousUploadWindowStart(from, missingHeight) ==
  IF missingHeight - from <= ProbeStep THEN from ELSE missingHeight - ProbeStep

FinalUploadWindowStart(from, to) ==
  IF to - from < ProbeStep THEN from ELSE to - ProbeStep + 1
=============================================================================
