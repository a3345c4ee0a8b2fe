----------------------------- MODULE HostBridge -----------------------------
(***************************************************************************)
(* The life of the host around the process table.  NTOS2NDInitialize and   *)
(* NTOS2NDShutdown (ntos2nd.c) bring up and take down three parts, of      *)
(* which two can fail: the kernel, the API bridge (apibridge.c) and the    *)
(* layer of undocumented calls (undocumented.c).  The host registers its   *)
(* own implementations (kernel.c), patches bridge entries and resolves     *)
(* names before, between and after those calls.  One thread does all this. *)
(*                                                                         *)
(* The machine's part is which of kernel32 and ntdll are loaded, which     *)
(* names they export, and whether the one that is not can be loaded.  What *)
(* they export is fixed for a run.                                         *)
(***************************************************************************)
EXTENDS Naturals, Sequences

CONSTANTS
  Apis,         \* names in g_ApiDatabase
  Undocs,       \* names in g_UndocumentedAPIs, all of ntdll
  Syscalls,     \* names NTOS2NDCallHostSyscall has a case for
  DllOf,        \* DllName of each name of Apis
  Called,       \* names of Apis the switch of NTOS2NDForwardAPICall calls
  Impls,        \* addresses of the host's own implementations
  MaxBridges,   \* NTOS2ND_MAX_API_BRIDGES
  MaxProcesses  \* NTOS2ND_MAX_PROCESSES

Dlls == {"kernel32", "ntdll"}

ASSUME HostBridgeAssumption ==
  /\ DllOf \in [Apis -> Dlls] /\ Called \subseteq Apis
  /\ MaxBridges \in Nat /\ MaxProcesses \in Nat

VARIABLES
  loaded,       \* what GetModuleHandleA finds
  exported,     \* what GetProcAddress finds
  kernelUp,     \* g_bKernelInitialized
  running,      \* g_bKernelRunning
  processes,    \* how many slots of g_ProcessTable are taken
  address,      \* names of Apis with a FunctionAddress
  patched,      \* names of Apis with a ForwardAddress
  undocModule,  \* g_hNtdll of undocumented.c is set
  undocAddress, \* names of Undocs with a HostAddress
  bridges       \* the first g_ApiBridgeCount entries of g_ApiBridges

machine == <<loaded, exported>>
bridge  == <<address, patched>>
undoc   == <<undocModule, undocAddress>>
vars == <<machine, kernelUp, running, processes, bridge, undoc, bridges>>

NoBridge == [name |-> "NULL", impl |-> "NULL"]

TypeOK ==
  /\ loaded \subseteq Dlls /\ exported \subseteq Apis \cup Undocs
  /\ kernelUp \in BOOLEAN /\ running \in BOOLEAN /\ undocModule \in BOOLEAN
  /\ processes \in 0..MaxProcesses
  /\ address \subseteq Apis /\ patched \subseteq Apis /\ undocAddress \subseteq Undocs
  /\ bridges \in Seq({NoBridge} \cup [name : Apis, impl : Impls])
  /\ Len(bridges) <= MaxBridges

Init ==
  /\ loaded \in SUBSET Dlls /\ exported \in SUBSET (Apis \cup Undocs)
  /\ kernelUp = FALSE /\ running = FALSE /\ processes = 0
  /\ address = {} /\ patched = {}
  /\ undocModule = FALSE /\ undocAddress = {}
  /\ bridges = <<>>

FoundApis   == {n \in Apis \cap exported : DllOf[n] \in loaded}
FoundUndocs == Undocs \cap exported

-----------------------------------------------------------------------------
(***************************************************************************)
(* Starting and stopping.                                                  *)
(***************************************************************************)
BridgeStarts == Dlls \subseteq loaded
UndocStarts  == "ntdll" \in loaded

\* Bringing the kernel up zeroes the registry's entries; their count stays.
Zeroed(entries) == [i \in DOMAIN entries |-> NoBridge]

\* The bridge and the undocumented layer each write the address of every
\* name they find; the latter keeps what it had found before.
PartsResolved ==
  /\ address' = IF BridgeStarts THEN FoundApis ELSE address
  /\ undocModule' = IF BridgeStarts THEN UndocStarts ELSE undocModule
  /\ undocAddress' = IF BridgeStarts THEN undocAddress \cup FoundUndocs ELSE undocAddress

\* A mutant of Initialize: a part that fails to start leaves the kernel up.
InitializeNoRollback ==
  /\ kernelUp' = TRUE
  /\ bridges' = IF kernelUp THEN bridges ELSE Zeroed(bridges)
  /\ PartsResolved
  /\ running' = (running \/ BridgeStarts)
  /\ UNCHANGED <<machine, processes, patched>>

\* NTOS2NDInitialize: when a part fails, those before it are taken down
\* again.  A machine on which the bridge starts has the ntdll that the
\* undocumented layer asks for, so only the bridge can fail.
Initialize ==
  /\ kernelUp' = BridgeStarts
  /\ bridges' = IF kernelUp THEN bridges ELSE Zeroed(bridges)
  /\ PartsResolved
  /\ running' = (running \/ BridgeStarts)
  /\ processes' = IF BridgeStarts THEN processes ELSE 0
  /\ UNCHANGED <<machine, patched>>

\* A mutant of Shutdown: the addresses of the bridge are left in place.
ShutdownKeepsAddresses ==
  /\ running
  /\ running' = FALSE /\ kernelUp' = FALSE /\ processes' = 0
  /\ UNCHANGED <<machine, bridge, undoc, bridges>>

\* NTOS2NDShutdown leaves the undocumented layer, the patches and the
\* registry as they are.
Shutdown ==
  /\ running
  /\ running' = FALSE /\ kernelUp' = FALSE /\ processes' = 0 /\ address' = {}
  /\ UNCHANGED <<machine, patched, undoc, bridges>>

-----------------------------------------------------------------------------
(***************************************************************************)
(* What the host calls in between.                                         *)
(***************************************************************************)
\* NTOS2NDRunProgram: both of its branches create a process, which may fail.
RunProgram ==
  /\ running /\ processes < MaxProcesses
  /\ processes' = processes + 1
  /\ UNCHANGED <<machine, kernelUp, running, bridge, undoc, bridges>>

\* NTOS2NDTerminateProcess frees a slot.
EndProgram ==
  /\ processes > 0
  /\ processes' = processes - 1
  /\ UNCHANGED <<machine, kernelUp, running, bridge, undoc, bridges>>

InstallHotPatch(n) ==
  /\ patched' = patched \cup {n}
  /\ UNCHANGED <<machine, kernelUp, running, processes, address, undoc, bridges>>

RemoveHotPatch(n) ==
  /\ patched' = patched \ {n}
  /\ UNCHANGED <<machine, kernelUp, running, processes, address, undoc, bridges>>

\* A mutant of RegisterAPI: the table's last entry is not the limit.
RegisterAPIOneTooMany(n, impl) ==
  /\ Len(bridges) <= MaxBridges
  /\ bridges' = Append(bridges, [name |-> n, impl |-> impl])
  /\ UNCHANGED <<machine, kernelUp, running, processes, bridge, undoc>>

\* A mutant of RegisterAPI: a name that is registered gets the new implementation.
RegisterAPIReplaces(n, impl) ==
  /\ Len(bridges) < MaxBridges
  /\ bridges' = IF \E i \in DOMAIN bridges : bridges[i].name = n
                THEN [i \in DOMAIN bridges |->
                        IF bridges[i].name = n THEN [name |-> n, impl |-> impl]
                                               ELSE bridges[i]]
                ELSE Append(bridges, [name |-> n, impl |-> impl])
  /\ UNCHANGED <<machine, kernelUp, running, processes, bridge, undoc>>

RegisterAPI(n, impl) ==
  /\ Len(bridges) < MaxBridges
  /\ bridges' = Append(bridges, [name |-> n, impl |-> impl])
  /\ UNCHANGED <<machine, kernelUp, running, processes, bridge, undoc>>

\* NTOS2NDInitializeUndocumentedAPI, called by itself.
InitializeUndocumentedAPI ==
  /\ undocModule' = UndocStarts
  /\ undocAddress' = IF UndocStarts THEN undocAddress \cup FoundUndocs ELSE undocAddress
  /\ UNCHANGED <<machine, kernelUp, running, processes, bridge, bridges>>

\* The name has an address, or ntdll has it.  Without a module GetProcAddress
\* looks in the host's own image, which exports no name.
Resolvable(n) == n \in Undocs /\ (n \in undocAddress \/ (undocModule /\ n \in exported))

\* NTOS2NDResolveUndocumentedAPI writes the address it finds into the table.
ResolveUndocumentedAPI(n) ==
  /\ undocAddress' = IF Resolvable(n) THEN undocAddress \cup {n} ELSE undocAddress
  /\ UNCHANGED <<machine, kernelUp, running, processes, bridge, undocModule, bridges>>

\* NTOS2NDResolveDynamicAPI loads a module that is not loaded, when the machine has
\* it, and leaves it loaded.
ResolveDynamicAPI(dll) ==
  /\ loaded' \in {loaded, loaded \cup {dll}}
  /\ UNCHANGED <<exported, kernelUp, running, processes, bridge, undoc, bridges>>

-----------------------------------------------------------------------------
(***************************************************************************)
(* What a call answers.                                                    *)
(***************************************************************************)
\* NTOS2NDResolveAPI, by name or by the number of a table entry, answers a function
\* or NULL.
ResolveAPI(n) == n \in address

\* NTOS2NDForwardAPICall: the name is resolved, then its first letter picks
\* the call to make; names with another letter are not forwarded.
ForwardAPICall(n) ==
  IF ~ResolveAPI(n) THEN "not found" ELSE IF n \in Called THEN "success" ELSE "not implemented"

\* NTOS2NDForwardUnknownAPI, by name or by the number of a table entry.
ForwardUnknownAPI(n) == IF Resolvable(n) THEN "success" ELSE "not found"

\* NTOS2NDCallHostSyscall looks its names up in the table of undocumented calls.
CallHostSyscall(n) ==
  IF n \in Syscalls /\ Resolvable(n) THEN "success" ELSE "not implemented"

\* NTOS2NDGetAPIImplementation compares the name with every entry in order
\* until one is equal; comparing with the NULL of a zeroed entry faults.
GetAPIImplementation(n) ==
  LET Stops(i) == bridges[i].name \in {"NULL", n}
      First(i) == Stops(i) /\ \A j \in 1..(i - 1) : ~Stops(j)
  IN  IF \E i \in DOMAIN bridges : First(i)
        THEN LET i == CHOOSE i \in DOMAIN bridges : First(i)
             IN  IF bridges[i] = NoBridge THEN "fault" ELSE bridges[i].impl
        ELSE "NULL"

Next ==
  \/ Initialize \/ Shutdown \/ RunProgram \/ EndProgram
  \/ InitializeUndocumentedAPI
  \/ \E n \in Undocs \cup Syscalls : ResolveUndocumentedAPI(n)
  \/ \E dll \in Dlls : ResolveDynamicAPI(dll)
  \/ \E n \in Apis : InstallHotPatch(n)
  \/ \E n \in Apis : RemoveHotPatch(n)
  \/ \E n \in Apis, impl \in Impls : RegisterAPI(n, impl)

Spec == Init /\ [][Next]_vars

-----------------------------------------------------------------------------
(***************************************************************************)
(* Properties.                                                             *)
(***************************************************************************)
\* The flags of ntos2nd.c and kernel.c agree between the host's calls: a failed or
\* a repeated start, and a stop, move both.  While the host runs, every function
\* the machine has is at hand, in the bridge and in the undocumented layer; no
\* process outlives the host.
ReadyWhenRunning ==
  /\ running <=> kernelUp
  /\ running => /\ undocModule
                /\ address = FoundApis /\ FoundUndocs \subseteq undocAddress
  /\ processes > 0 => running

\* The bridge forwards a call to the machine only while the host runs, and only to
\* a function the machine has: an address of an earlier start is gone with the stop.
\* A test of the repository asks for the opposite: tests/simple_test.c:43-50 resolves
\* CreateFileA after NTOS2NDShutdown and counts NULL, which this property says it gets,
\* as a failure.  The undocumented calls do outlive a stop: they go only to what ntdll
\* has, and only with ntdll loaded.
ForwardsOnlyWhenRunning ==
  /\ \A n \in Apis : ForwardAPICall(n) = "success" => running /\ n \in FoundApis
  /\ \A n \in Undocs \cup Syscalls :
       "success" \in {ForwardUnknownAPI(n), CallHostSyscall(n)} =>
         UndocStarts /\ n \in FoundUndocs

\* Among registrations of one name the first one answers for as long as the kernel
\* is not started anew, whatever else is registered, patched, started or stopped.
\* A start leaves every lookup that had an answer reading through NULL, for good:
\* no later registration repairs it.
FirstRegistrationAnswers ==
  [][\A n \in Apis :
       GetAPIImplementation(n) # "NULL" =>
         GetAPIImplementation(n)' = IF bridges' = Zeroed(bridges) THEN "fault"
                                    ELSE GetAPIImplementation(n)]_vars
=============================================================================
