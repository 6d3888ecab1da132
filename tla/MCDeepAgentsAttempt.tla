------------------------- MODULE MCDeepAgentsAttempt -------------------------
(***************************************************************************)
(* DeepAgentsAttempt for TLC: every kind of fault may happen.              *)
(***************************************************************************)
EXTENDS DeepAgentsAttempt

EveryFault == FaultKind
===============================================================================
