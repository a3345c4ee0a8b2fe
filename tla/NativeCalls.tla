----------------------------- MODULE NativeCalls -----------------------------
(***************************************************************************)
(* What the kernel offers natively, without any lock: the thread table of  *)
(* kernel.c, its second system call handler NTOS2NDHandleSyscall with the  *)
(* wrappers of NTCall.c on top of it, and the counting filter of           *)
(* sandbox.c.  Callers are threads of the host process; each step ends     *)
(* where another caller can see or change what the call works on.          *)
(*                                                                         *)
(* object is what each Win32 handle value refers to; a new object gets the *)
(* lowest free value.  A caller passes NTOS2NDTerminateThread only pointers*)
(* NTOS2NDCreateThread gave it; CLOSE_HANDLE takes whatever value it is    *)
(* given, of another caller or executed twice as well.                     *)
(***************************************************************************)
EXTENDS Naturals, FiniteSets, FiniteSetsExt

CONSTANTS
    Callers,     \* threads of the host
    NSlots,      \* length of g_ThreadTable
    NHandles,    \* bound on Win32 handle values
    MaxThreads,  \* bound on creations of threads
    MaxFiltered  \* bound on calls through the filter

ASSUME NativeCallsAssumption ==
    /\ IsFiniteSet(Callers)
    /\ NSlots \in Nat \ {0} /\ NHandles \in Nat \ {0}
    /\ MaxThreads \in Nat /\ MaxFiltered \in Nat

None == 0

VARIABLES
    slot,         \* g_ThreadTable
    g_NextThreadId,
    object,       \* what a handle value refers to: a thread, a file or nothing
    caller,       \* where each caller is, with its local variables
    held,         \* the thread slots a caller was given and has not terminated
    opened,       \* the files a caller has opened and not closed
    created,      \* creations so far
    bEnableSyscallFiltering, \* of the sandbox's Config
    calls,        \* calls through the filter
    filtered,     \* ... of which since the sandbox was last zeroed
    SyscallCount,
    RestrictedSyscallCount,
    clash         \* history: what the code does not guard against and has happened

threads == <<slot, g_NextThreadId, held, created>>
filter == <<bEnableSyscallFiltering, calls, filtered, SyscallCount,
            RestrictedSyscallCount>>
vars == <<threads, object, caller, filter, opened, clash>>

Slots == 1..NSlots
Handles == 1..NHandles

FreeSlot == [signature |-> FALSE, id |-> 0, handle |-> None]
Idle == [at |-> "idle", slot |-> None, id |-> 0]

\* The numbers of NTOS2NDHandleSyscall (kernel.h) ...
NTOS2ND_SYS == [OPEN_PROCESS |-> 1, CLOSE_HANDLE |-> 2, READ_FILE |-> 3,
                WRITE_FILE |-> 4, CREATE_FILE |-> 5]

\* ... and those its wrappers in NTCall.c pass to it (syscall.h).
SYSCALL == [NtClose |-> 0, NtOpenProcess |-> 16, NtReadFile |-> 25,
            NtWriteFile |-> 40, NtAllocateVirtualMemory |-> 42]

\* Two creations, or two calls of the filter, that overlap in time; a kernel that
\* starts again with threads in its table; a handle closed that is not one's own.
Clashes == {"create", "filter", "restart", "close"}

NtOpenThread == 17
NtCreateSection == 2

TypeOK ==
    /\ slot \in [Slots -> [signature: BOOLEAN, id: 0..MaxThreads,
                           handle: Handles \cup {None}]]
    /\ g_NextThreadId \in 1..MaxThreads + 1
    /\ object \in [Handles -> {"thread", "file", "nothing"}]
    /\ caller \in [Callers -> [at: {"idle", "take", "id", "start", "close",
                                    "clear", "count", "refuse"},
                               slot: Slots \cup {None}, id: Nat]]
    /\ held \in [Callers -> SUBSET Slots]
    /\ opened \in [Callers -> SUBSET Handles]
    /\ created \in 0..MaxThreads
    /\ bEnableSyscallFiltering \in BOOLEAN
    /\ calls \in 0..MaxFiltered
    /\ filtered \in 0..calls
    /\ SyscallCount \in 0..calls
    /\ RestrictedSyscallCount \in 0..calls
    /\ clash \subseteq Clashes

Init ==
    /\ slot = [s \in Slots |-> FreeSlot]
    /\ g_NextThreadId = 1
    /\ object = [h \in Handles |-> "nothing"]
    /\ caller = [c \in Callers |-> Idle]
    /\ held = [c \in Callers |-> {}]
    /\ opened = [c \in Callers |-> {}]
    /\ created = 0
    /\ bEnableSyscallFiltering = TRUE
    /\ calls = 0
    /\ filtered = 0
    /\ SyscallCount = 0
    /\ RestrictedSyscallCount = 0
    /\ clash = {}

Unused == {h \in Handles : object[h] = "nothing"}

At(c, step) == caller[c].at = step

\* A clash of a kind where another caller than c is at one of these steps.
Overlaps(c, kind, steps) ==
    clash' = IF \E d \in Callers \ {c} : caller[d].at \in steps
               THEN clash \cup {kind} ELSE clash

----------------------------------------------------------------------------
(* The thread table *)

\* NTOS2NDCreateThread: the search of NTOS2NDFindFreeThreadSlot, up to the first
\* entry without the signature; NULL when there is none.
FindSlot(c) ==
    LET free == {s \in Slots : ~slot[s].signature}
    IN /\ At(c, "idle")
       /\ created < MaxThreads
       /\ free # {}
       /\ caller' = [caller EXCEPT ![c] = [at |-> "take", slot |-> Min(free), id |-> 0]]
       /\ created' = created + 1
       /\ Overlaps(c, "create", {"take", "id", "start"})
       /\ UNCHANGED <<slot, g_NextThreadId, held, object, filter, opened>>

\* The entry is zeroed and signed, and g_NextThreadId++ reads the counter ...
TakeSlot(c) ==
    /\ At(c, "take")
    /\ slot' = [slot EXCEPT ![caller[c].slot] = [FreeSlot EXCEPT !.signature = TRUE]]
    /\ caller' = [caller EXCEPT ![c].at = "id", ![c].id = g_NextThreadId]
    /\ UNCHANGED <<g_NextThreadId, held, created, object, filter, opened, clash>>

\* A mutant of NumberThread: the id is the incremented counter (++g_NextThreadId).
PreIncrement(c) ==
    /\ At(c, "id")
    /\ g_NextThreadId' = caller[c].id + 1
    /\ slot' = [slot EXCEPT ![caller[c].slot].id = caller[c].id + 1]
    /\ caller' = [caller EXCEPT ![c].at = "start"]
    /\ UNCHANGED <<held, created, object, filter, opened, clash>>

\* ... and writes it back.
NumberThread(c) ==
    /\ At(c, "id")
    /\ g_NextThreadId' = caller[c].id + 1
    /\ slot' = [slot EXCEPT ![caller[c].slot].id = caller[c].id]
    /\ caller' = [caller EXCEPT ![c].at = "start"]
    /\ UNCHANGED <<held, created, object, filter, opened, clash>>

\* A mutant of StartThread: the error path leaves the signature in place and
\* returns the entry.
KeepSlotOnError(c, ok) ==
    /\ At(c, "start")
    /\ ok => Unused # {}
    /\ slot' = IF ok THEN [slot EXCEPT ![caller[c].slot].handle = Min(Unused)] ELSE slot
    /\ object' = IF ok THEN [object EXCEPT ![Min(Unused)] = "thread"] ELSE object
    /\ held' = [held EXCEPT ![c] = @ \cup {caller[c].slot}]
    /\ caller' = [caller EXCEPT ![c] = Idle]
    /\ UNCHANGED <<g_NextThreadId, created, filter, opened, clash>>

\* CreateThread of Win32; without a handle the entry is given back.
StartThread(c, ok) ==
    LET s == caller[c].slot
    IN /\ At(c, "start")
       /\ IF ok
          THEN /\ Unused # {}
               /\ object' = [object EXCEPT ![Min(Unused)] = "thread"]
               /\ slot' = [slot EXCEPT ![s].handle = Min(Unused)]
               /\ held' = [held EXCEPT ![c] = @ \cup {s}]
          ELSE /\ slot' = [slot EXCEPT ![s].signature = FALSE]
               /\ UNCHANGED <<object, held>>
       /\ caller' = [caller EXCEPT ![c] = Idle]
       /\ UNCHANGED <<g_NextThreadId, created, filter, opened, clash>>

\* NTOS2NDTerminateThread: the signature is tested ...
TerminateThread(c, s) ==
    /\ At(c, "idle")
    /\ s \in held[c]
    /\ held' = [held EXCEPT ![c] = @ \ {s}]
    /\ caller' = IF slot[s].signature
                 THEN [caller EXCEPT ![c] = [at |-> "close", slot |-> s, id |-> 0]]
                 ELSE caller
    /\ UNCHANGED <<slot, g_NextThreadId, created, object, filter, opened, clash>>

\* ... the thread is ended and its handle closed ...
CloseThread(c) ==
    LET h == slot[caller[c].slot].handle
    IN /\ At(c, "close")
       /\ object' = IF h = None THEN object ELSE [object EXCEPT ![h] = "nothing"]
       /\ caller' = [caller EXCEPT ![c].at = "clear"]
       /\ UNCHANGED <<threads, filter, opened, clash>>

\* ... and the entry is free again.
ClearSlot(c) ==
    /\ At(c, "clear")
    /\ slot' = [slot EXCEPT ![caller[c].slot].signature = FALSE]
    /\ caller' = [caller EXCEPT ![c] = Idle]
    /\ UNCHANGED <<g_NextThreadId, held, created, object, filter, opened, clash>>

\* NTOS2NDInitializeKernel after a shutdown, which leaves the table alone: all entries
\* are zeroed, whoever has a thread in one.
InitializeKernel(c) ==
    /\ At(c, "idle")
    /\ slot' = [s \in Slots |-> FreeSlot]
    /\ clash' = IF \E s \in Slots : slot[s].signature
                THEN clash \cup {"restart"} ELSE clash
    /\ UNCHANGED <<g_NextThreadId, held, created, object, caller, filter, opened>>

----------------------------------------------------------------------------
(* NTOS2NDHandleSyscall and its wrappers *)

\* OpenProcess and CreateFileA, where they succeed.
OpenObject(c) ==
    /\ Unused # {}
    /\ object' = [object EXCEPT ![Min(Unused)] = "file"]
    /\ opened' = [opened EXCEPT ![c] = @ \cup {Min(Unused)}]

\* CloseHandle of the value the caller passes, whatever it refers to.
CloseObject(c) ==
    \E h \in Handles :
        /\ object' = [object EXCEPT ![h] = "nothing"]
        /\ opened' = [opened EXCEPT ![c] = @ \ {h}]
        /\ clash' = IF object[h] # "nothing" /\ h \notin opened[c]
                    THEN clash \cup {"close"} ELSE clash

\* Reading, writing, an error of Win32 and a number without a case leave the
\* handles alone.
NTOS2NDHandleSyscall(c, number) ==
    /\ At(c, "idle")
    /\ \/ /\ number \in {NTOS2ND_SYS.OPEN_PROCESS, NTOS2ND_SYS.CREATE_FILE}
          /\ OpenObject(c) /\ UNCHANGED clash
       \/ number = NTOS2ND_SYS.CLOSE_HANDLE /\ CloseObject(c)
       \/ number # NTOS2ND_SYS.CLOSE_HANDLE /\ UNCHANGED <<object, opened, clash>>
    /\ UNCHANGED <<threads, caller, filter>>

\* The kernel's worker calls it with the numbers of a message, the wrappers with
\* their own.
KernelCall(c) ==
    \E name \in DOMAIN NTOS2ND_SYS : NTOS2NDHandleSyscall(c, NTOS2ND_SYS[name])

NtWrap(c) == \E name \in DOMAIN SYSCALL : NTOS2NDHandleSyscall(c, SYSCALL[name])

----------------------------------------------------------------------------
(* The filter *)

NTOS2NDIsSyscallAllowed(number) ==
    bEnableSyscallFiltering =>
        number \notin {SYSCALL.NtOpenProcess, NtOpenThread, NtCreateSection}

\* NTOS2NDFilterSyscall: one of the two counters is read ...
FilterSyscall(c, number) ==
    /\ At(c, "idle")
    /\ calls < MaxFiltered
    /\ calls' = calls + 1
    /\ filtered' = filtered + 1
    /\ caller' = [caller EXCEPT ![c] =
                    IF NTOS2NDIsSyscallAllowed(number)
                    THEN [at |-> "count", slot |-> None, id |-> SyscallCount]
                    ELSE [at |-> "refuse", slot |-> None, id |-> RestrictedSyscallCount]]
    /\ Overlaps(c, "filter", {"count", "refuse"})
    /\ UNCHANGED <<threads, object, bEnableSyscallFiltering, SyscallCount,
                   RestrictedSyscallCount, opened>>

\* A mutant of CountSyscall: a refused call is counted with the others as well.
CountTwice(c) ==
    /\ caller[c].at \in {"count", "refuse"}
    /\ IF At(c, "count")
       THEN SyscallCount' = caller[c].id + 1 /\ UNCHANGED RestrictedSyscallCount
       ELSE /\ RestrictedSyscallCount' = caller[c].id + 1
            /\ SyscallCount' = SyscallCount + 1
    /\ caller' = [caller EXCEPT ![c] = Idle]
    /\ UNCHANGED <<threads, object, bEnableSyscallFiltering, calls, filtered, opened,
                   clash>>

\* ... and written back; what is not refused goes to the dispatcher (HandleTable).
CountSyscall(c) ==
    /\ caller[c].at \in {"count", "refuse"}
    /\ IF At(c, "count")
       THEN SyscallCount' = caller[c].id + 1 /\ UNCHANGED RestrictedSyscallCount
       ELSE RestrictedSyscallCount' = caller[c].id + 1 /\ UNCHANGED SyscallCount
    /\ caller' = [caller EXCEPT ![c] = Idle]
    /\ UNCHANGED <<threads, object, bEnableSyscallFiltering, calls, filtered, opened,
                   clash>>

\* NTOS2NDInitializeSandbox (default or given Config) and NTOS2NDShutdownSandbox (all
\* zeros: nothing is refused any more) zero the counters under whoever is inside.
ZeroSandbox(c, filtering) ==
    /\ At(c, "idle")
    /\ bEnableSyscallFiltering' = filtering
    /\ filtered' = 0
    /\ SyscallCount' = 0
    /\ RestrictedSyscallCount' = 0
    /\ Overlaps(c, "filter", {"count", "refuse"})
    /\ UNCHANGED <<threads, object, caller, calls, opened>>

InitializeSandbox(c) == \E filtering \in BOOLEAN : ZeroSandbox(c, filtering)
ShutdownSandbox(c) == ZeroSandbox(c, FALSE)

----------------------------------------------------------------------------

Next ==
    \E c \in Callers :
        \/ FindSlot(c)
        \/ TakeSlot(c)
        \/ NumberThread(c)
        \/ \E ok \in BOOLEAN : StartThread(c, ok)
        \/ \E s \in Slots : TerminateThread(c, s)
        \/ CloseThread(c)
        \/ ClearSlot(c)
        \/ InitializeKernel(c)
        \/ KernelCall(c)
        \/ NtWrap(c)
        \/ \E number \in {SYSCALL.NtClose, SYSCALL.NtOpenProcess} :
              FilterSyscall(c, number)
        \/ CountSyscall(c)
        \/ InitializeSandbox(c)
        \/ ShutdownSandbox(c)

Spec == Init /\ [][Next]_vars

----------------------------------------------------------------------------
(* Properties *)

\* The entry a termination has closed the handle of, and not yet cleared.
Closing(s) == \E c \in Callers : At(c, "clear") /\ caller[c].slot = s

\* Nothing locks the table and nothing says whose a handle is. Threads get lost, and
\* handles closed under their owners, only by two creations that overlap, a restart of
\* the kernel over live threads, or a CLOSE_HANDLE of another's handle: otherwise every
\* thread handle is in exactly one entry, what a creation returned names a thread that
\* is there until its termination closes it, ids are never shared, and no termination
\* closes a file another caller has open.
LostOnlyByClash ==
    clash \subseteq {"filter"} =>
        /\ \A h \in Handles : object[h] = "thread" =>
             Cardinality({s \in Slots : slot[s].signature /\ slot[s].handle = h
                                                          /\ ~Closing(s)}) = 1
        /\ \A c \in Callers : \A s \in held[c] :
             slot[s].signature /\ slot[s].handle # None
                               /\ object[slot[s].handle] = "thread"
        /\ \A s, t \in Slots :
             slot[s].signature /\ slot[t].signature /\ slot[s].id = slot[t].id
                               /\ slot[s].id # 0 => s = t
        /\ \A c \in Callers : \A h \in opened[c] : object[h] = "file"

\* As long as no two calls of the filter, and no call and a reset of the sandbox, have
\* overlapped, each call since the reset is in exactly one counter: what is counted
\* but not dispatched, or twice, or lost comes from nothing but an clash.
CountsAddUp ==
    LET inside == {c \in Callers : caller[c].at \in {"count", "refuse"}}
    IN "filter" \notin clash =>
           SyscallCount + RestrictedSyscallCount + Cardinality(inside) = filtered
=============================================================================
