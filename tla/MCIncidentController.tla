------------------------ MODULE MCIncidentController ------------------------
(***************************************************************************)
(* Instances of IncidentController for TLC.                                *)
(***************************************************************************)
EXTENDS IncidentController, TLC

\* The two digests are interchangeable in every safety property.
DigestSymmetry == Permutations(Digest)

AllFaults == FaultKind
CrashOnly == {"crash"}
=============================================================================
