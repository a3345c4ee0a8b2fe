--------------------------- MODULE MCProcessTable ---------------------------
(***************************************************************************)
(* ProcessTable for TLC.  Windows gives out the lowest free handle value,  *)
(* so a value that was just closed comes back at once.                     *)
(***************************************************************************)
EXTENDS ProcessTable, FiniteSetsExt

LowestFirst ==
  [free \in SUBSET Handles |-> IF free = {} THEN {} ELSE {Min(free)}]
=============================================================================
