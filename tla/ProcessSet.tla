----------------------------- MODULE ProcessSet -----------------------------
(***************************************************************************)
(* What the process table promises its host: a set of live processes, each *)
(* under an id that no process had before.  A creation takes the next id   *)
(* and then either brings its process to life or gives up; a live process  *)
(* dies once, by a termination or in a shutdown.                           *)
(***************************************************************************)
EXTENDS Naturals

VARIABLES
  live,     \* ids of the processes the host may work with
  lastPid,  \* the last id taken
  pending   \* a creation has taken lastPid and has not ended

setVars == <<live, lastPid, pending>>

SetInit == live = {} /\ lastPid = 0 /\ pending = FALSE

TakeId == ~pending /\ pending' /\ lastPid' = lastPid + 1 /\ UNCHANGED live
GiveUp == pending /\ ~pending' /\ UNCHANGED <<live, lastPid>>
Born   == pending /\ ~pending' /\ live' = live \cup {lastPid} /\ UNCHANGED lastPid
Dies   == \E p \in live : live' = live \ {p} /\ UNCHANGED <<lastPid, pending>>

SetNext == TakeId \/ GiveUp \/ Born \/ Dies

SetSpec == SetInit /\ [][SetNext]_setVars
=============================================================================
