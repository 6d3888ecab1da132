------------------------ MODULE MCDeliveryEvidence -------------------------
(***************************************************************************)
(* DeliveryEvidence for TLC.  The patches are interchangeable.             *)
(***************************************************************************)
EXTENDS DeliveryEvidence, TLC

PatchSymmetry == Permutations(Patch)
=============================================================================
