------------------------ MODULE MCConcurrentCleanup ------------------------
(***************************************************************************)
(* Instances of ConcurrentCleanup for TLC.                                 *)
(***************************************************************************)
EXTENDS ConcurrentCleanup, TLC

\* The two digests are interchangeable in every property.
DigestSymmetry == Permutations(Digest)

CrashOnly == {"crash"}
=============================================================================
