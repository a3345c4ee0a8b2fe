---------------------------- MODULE MCHostBridge ----------------------------
(* HostBridge with one name of each kind: a kernel32 call the bridge        *)
(* forwards, one it does not, an ntdll call and an undocumented call.       *)
EXTENDS HostBridge

MCApis   == {"CreateFileA", "ExitProcess", "NtClose"}
MCUndocs == {"NtCreateKey"}
MCSyscalls == {"NtClose"}
MCCalled == {"CreateFileA"}
MCDllOf  == [n \in MCApis |-> IF n = "NtClose" THEN "ntdll" ELSE "kernel32"]
=============================================================================
