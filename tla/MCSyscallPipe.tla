--------------------------- MODULE MCSyscallPipe ---------------------------
(***************************************************************************)
(* SyscallPipe for TLC: a kernel message of two cells, a sandbox message   *)
(* of five (72 and 160 bytes in the code).                                 *)
(***************************************************************************)
EXTENDS SyscallPipe

Cells == [p \in Protocols |-> IF p = "kernel" THEN 2 ELSE 5]
=============================================================================
