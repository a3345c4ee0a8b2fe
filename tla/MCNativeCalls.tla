---------------------------- MODULE MCNativeCalls ----------------------------
(***************************************************************************)
(* The instance of NativeCalls that TLC checks: two callers, which nothing *)
(* in the module tells apart.  A behaviour is followed up to the first     *)
(* thread or handle that is taken from its owner by a restart or a close.  *)
(***************************************************************************)
EXTENDS NativeCalls, TLC

CallerSymmetry == Permutations(Callers)

UntilTaken == clash \cap {"restart", "close"} = {}
=============================================================================
