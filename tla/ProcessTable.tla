---------------------------- MODULE ProcessTable ----------------------------
(***************************************************************************)
(* The process table of ntos2nd/kernel.c: NTOS2NDCreateProcess,            *)
(* NTOS2NDTerminateProcess, NTOS2NDInitializeKernel and                    *)
(* NTOS2NDShutdownKernel as the host's threads (Callers) run them, and one *)
(* NTOS2NDWorkerThread for each process created with a pipe, with what the *)
(* system calls it carries out do to the hosting process's handles.  A     *)
(* step is what a thread does between two points at which another thread   *)
(* can see or change what it works on.  A critical section is modelled by  *)
(* its owner, the Win32 handles of the hosting process by what each value  *)
(* refers to: values are given out again, as Windows does.  What fills the *)
(* pipes is the subject of SyscallPipe.                                    *)
(***************************************************************************)
EXTENDS Naturals, FiniteSets

CONSTANTS
  Callers,   \* threads of the host that call the kernel's functions
  NSlots,    \* NTOS2ND_MAX_PROCESSES
  MaxPid,    \* bound on the processes created in a behaviour
  MaxBoots,  \* bound on the calls of NTOS2NDInitializeKernel that do the work
  MaxGuest,  \* bound on the guests' calls that open or close a host handle
  Handles,   \* Win32 handle values
  NoHandle,  \* the NULL handle
  Recycle,   \* the values Windows may give out next, for each set of free ones
  NoCaller   \* no thread owns the critical section

ASSUME ProcessTableAssumption ==
  /\ NSlots \in Nat \ {0} /\ MaxPid \in Nat /\ MaxBoots \in Nat
  /\ MaxGuest \in Nat
  /\ NoHandle \notin Handles
  /\ \A free \in SUBSET Handles : Recycle[free] \subseteq free
  /\ NoCaller \notin Callers
  /\ "dead" \notin Callers \cup {NoCaller}

Slots == 1..NSlots
Pids  == 1..MaxPid

VARIABLES
  initialized,  \* g_bKernelInitialized
  boots,        \* how often the kernel was initialized (bound only)
  kernelLock,   \* owner of g_KernelLock
  nextPid,      \* g_NextProcessId
  table,        \* g_ProcessTable
  published,    \* slots whose address a call of CreateProcess returned
  object,       \* what each Win32 handle value refers to
  caller,       \* where each host thread is, and the slot it works on
  worker,       \* the worker started for each process: where it is, the slot
                \* in its lpParameter, the pipe its ReadFile or WriteFile waits on
  child,        \* the pipe ends each child process holds: those it inherited
  robbed,       \* a guest's CLOSE_HANDLE closed a handle the kernel opened
  served        \* how often a guest opened or closed a handle (bound only)

guests == <<child, robbed, served>>

vars == <<initialized, boots, kernelLock, nextPid, table, published, object,
          caller, worker, guests>>

\* A zeroed NTOS2ND_PROCESS: its critical section is not initialized ("dead").
NoEntry == [signature |-> FALSE, pid |-> 0, state |-> "Created",
            process |-> NoHandle, read |-> NoHandle, write |-> NoHandle,
            lock |-> "dead"]

Idle == [pc |-> "idle", slot |-> 0, call |-> "none"]

\* Win32 objects belong to the process id they were made for.  What a guest
\* opened is a handle to the child named by "of", or to anything else (0).
\* The handles of a child's first thread and of the worker's thread are closed
\* in the step that opens them and are left out.
Object   == [kind : {"process", "read", "write", "guest"}, of : Nat]
NoObject == [kind |-> "none", of |-> 0]
Kernels  == {"process", "read", "write"}

ObjectOf(h) == IF h = NoHandle THEN NoObject ELSE object[h]
FreeHandles == {h \in Handles : object[h] = NoObject}

\* An end of a pipe is open while the host or a child has a handle to it.
\* CreatePipe makes both ends inheritable (bInheritHandle TRUE), so a child
\* gets a copy of every end the host has open when the child is created.
End     == [kind : {"read", "write"}, of : Pids]
HostEnds == {object[h] : h \in Handles} \cap End
IsOpen(end) == end \in HostEnds \/ \E q \in Pids : end \in child[q]
HasReader(p) == IsOpen([kind |-> "read",  of |-> p])
HasWriter(p) == IsOpen([kind |-> "write", of |-> p])

\* CloseHandle on a NULL or closed value is an error that changes nothing.
Closed(hs) == [h \in Handles |-> IF h \in hs THEN NoObject ELSE object[h]]

CreateSteps == {"claim", "enter", "bump", "pipe", "spawn", "run"}
LockedSteps == {"bump", "pipe", "spawn", "run"}
TermSteps   == {"process", "read", "write", "mark", "free"}

At(c, step) == caller[c].pc = step
GoTo(c, step) == caller' = [caller EXCEPT ![c].pc = step]
Return(c) == caller' = [caller EXCEPT ![c] = Idle]

\* No thread is inside NTOS2NDShutdownKernel: the host stops its other
\* threads before it shuts the kernel down.
NotShutting == \A c \in Callers : caller[c].call # "shutdown"

-----------------------------------------------------------------------------
(***************************************************************************)
(* NTOS2NDCreateProcess                                                    *)
(***************************************************************************)
\* Callers that may still take an id (for the bound MaxPid).
Creating == {c \in Callers : caller[c].pc \in {"claim", "enter", "bump"}}

\* A mutant of FindFreeProcessSlot: the loop counts the slots from one.
FindSlotFromOne(c, kind) ==
  /\ initialized /\ NotShutting /\ At(c, "idle")
  /\ nextPid + Cardinality(Creating) <= MaxPid
  /\ \E s \in 2..(NSlots + 1) :
       /\ \A t \in 2..(s - 1) : table[t].signature
       /\ s \in Slots => ~table[s].signature
       /\ caller' = [caller EXCEPT ![c] = [pc |-> "claim", slot |-> s, call |-> kind]]
  /\ UNCHANGED <<initialized, boots, kernelLock, nextPid, table, published, object, worker, guests>>

\* NTOS2NDFindFreeProcessSlot finds the first slot without a signature.  When
\* there is none the call returns NULL and changes nothing.
FindFreeProcessSlot(c, kind) ==
  /\ initialized /\ NotShutting /\ At(c, "idle")
  /\ nextPid + Cardinality(Creating) <= MaxPid
  /\ \E s \in Slots :
       /\ \A t \in 1..(s - 1) : table[t].signature
       /\ ~table[s].signature
       /\ caller' = [caller EXCEPT ![c] = [pc |-> "claim", slot |-> s, call |-> kind]]
  /\ UNCHANGED <<initialized, boots, kernelLock, nextPid, table, published, object, worker, guests>>

\* memset and Signature = 'PROC': no lock is held.
ClaimSlot(c) ==
  /\ At(c, "claim") /\ GoTo(c, "enter")
  /\ table' = [table EXCEPT ![caller[c].slot] = [NoEntry EXCEPT !.signature = TRUE]]
  /\ UNCHANGED <<initialized, boots, kernelLock, nextPid, published, object, worker, guests>>

\* A mutant of EnterKernel: the critical section keeps nobody out.
EnterKernelUnguarded(c) ==
  /\ At(c, "enter") /\ GoTo(c, "bump")
  /\ kernelLock' = c
  /\ table' = [table EXCEPT ![caller[c].slot].pid = nextPid]
  /\ UNCHANGED <<initialized, boots, nextPid, published, object, worker, guests>>

\* EnterCriticalSection; ProcessId = g_NextProcessId++ reads the counter ...
EnterKernel(c) ==
  /\ At(c, "enter") /\ GoTo(c, "bump")
  /\ kernelLock = NoCaller /\ kernelLock' = c
  /\ table' = [table EXCEPT ![caller[c].slot].pid = nextPid]
  /\ UNCHANGED <<initialized, boots, nextPid, published, object, worker, guests>>

\* A mutant of BumpProcessId: the process lock is not initialized.
BumpProcessIdNoLock(c) ==
  /\ At(c, "bump") /\ GoTo(c, IF caller[c].call = "sandboxed" THEN "pipe" ELSE "run")
  /\ nextPid' = nextPid + 1
  /\ UNCHANGED <<initialized, boots, kernelLock, table, published, object, worker, guests>>

\* ... and writes it back; State = Created and the process lock follow.
BumpProcessId(c) ==
  /\ At(c, "bump") /\ GoTo(c, IF caller[c].call = "sandboxed" THEN "pipe" ELSE "run")
  /\ nextPid' = nextPid + 1
  /\ table' = [table EXCEPT ![caller[c].slot].state = "Created",
                            ![caller[c].slot].lock = NoCaller]
  /\ UNCHANGED <<initialized, boots, kernelLock, published, object, worker, guests>>

\* The id this call took: the kernel lock is still held.
IssuedPid == nextPid - 1

\* A mutant of MakePipe: the two ends are stored the wrong way round.
MakePipeSwapped(c) ==
  /\ At(c, "pipe") /\ GoTo(c, "spawn")
  /\ \E r \in Recycle[FreeHandles] : \E w \in Recycle[FreeHandles \ {r}] :
       /\ table' = [table EXCEPT ![caller[c].slot].read = w, ![caller[c].slot].write = r]
       /\ object' = [object EXCEPT ![r] = [kind |-> "read",  of |-> IssuedPid],
                                   ![w] = [kind |-> "write", of |-> IssuedPid]]
  /\ UNCHANGED <<initialized, boots, kernelLock, nextPid, published, worker, guests>>

\* CreatePipe: the host keeps both ends, and both can be inherited.
MakePipe(c) ==
  /\ At(c, "pipe") /\ GoTo(c, "spawn")
  /\ \E r \in Recycle[FreeHandles] : \E w \in Recycle[FreeHandles \ {r}] :
       /\ table' = [table EXCEPT ![caller[c].slot].read = r, ![caller[c].slot].write = w]
       /\ object' = [object EXCEPT ![r] = [kind |-> "read",  of |-> IssuedPid],
                                   ![w] = [kind |-> "write", of |-> IssuedPid]]
  /\ UNCHANGED <<initialized, boots, kernelLock, nextPid, published, worker, guests>>

\* CreateProcessA (suspended, bInheritHandles TRUE), then
\* CreateThread(NTOS2NDWorkerThread): the worker may run at once, and nobody
\* notices when it could not be started.
SpawnChild(c) ==
  /\ At(c, "spawn") /\ GoTo(c, "run")
  /\ \E h \in Recycle[FreeHandles] :
       /\ table' = [table EXCEPT ![caller[c].slot].process = h]
       /\ object' = [object EXCEPT ![h] = [kind |-> "process", of |-> IssuedPid]]
  /\ \/ worker' = [worker EXCEPT ![IssuedPid] =
                     [pc |-> "check", slot |-> caller[c].slot, pipe |-> 0]]
     \/ UNCHANGED worker
  /\ child' = [child EXCEPT ![IssuedPid] = HostEnds]
  /\ UNCHANGED <<initialized, boots, kernelLock, nextPid, published, robbed, served>>

\* ResumeThread, State = Running (a sandboxed process only), then
\* LeaveCriticalSection and return Process.
FinishCreate(c) ==
  /\ At(c, "run") /\ Return(c)
  /\ table' = IF caller[c].call = "sandboxed"
                THEN [table EXCEPT ![caller[c].slot].state = "Running"] ELSE table
  /\ kernelLock' = NoCaller
  /\ published' = published \cup {caller[c].slot}
  /\ UNCHANGED <<initialized, boots, nextPid, object, worker, guests>>

\* A mutant of CreateFails: an error path returns with the lock held.
CreateFailsLocked(c) ==
  /\ \/ At(c, "pipe") /\ UNCHANGED object
     \/ At(c, "spawn") /\ object' = Closed({table[caller[c].slot].read, table[caller[c].slot].write})
  /\ Return(c)
  /\ UNCHANGED <<initialized, boots, kernelLock, nextPid, table, published, worker, guests>>

\* CreatePipe fails, or CreateProcessA fails and both ends are closed.  The
\* call leaves the critical section and returns NULL; the slot keeps its
\* signature and the values of the closed handles.
CreateFails(c) ==
  /\ \/ At(c, "pipe") /\ UNCHANGED object
     \/ At(c, "spawn") /\ object' = Closed({table[caller[c].slot].read, table[caller[c].slot].write})
  /\ kernelLock' = NoCaller
  /\ Return(c)
  /\ UNCHANGED <<initialized, boots, nextPid, table, published, worker, guests>>

-----------------------------------------------------------------------------
(***************************************************************************)
(* NTOS2NDTerminateProcess, called with a process the host was given.  A   *)
(* slot without the signature is refused with STATUS_INVALID_PARAMETER.    *)
(***************************************************************************)
TerminateProcess(c) ==
  /\ initialized /\ NotShutting /\ At(c, "idle")
  /\ \E s \in published :
       /\ table[s].signature
       /\ caller' = [caller EXCEPT ![c] = [pc |-> "process", slot |-> s, call |-> "terminate"]]
  /\ UNCHANGED <<initialized, boots, kernelLock, nextPid, table, published, object, worker, guests>>

\* Whom TerminateProcess may end, given a handle to object o: the child it
\* names; with a handle a guest opened perhaps nobody, for want of access.
Terminated(o) ==
  {{q \in Pids : q = o.of /\ o.kind \in kinds} : kinds \in {{"process"}, {"process", "guest"}}}

\* EnterCriticalSection(&Process->Lock), TerminateProcess and CloseHandle.
\* Entering a deleted section is undefined: nothing then keeps the thread out.
CloseProcess(c) ==
  LET s == caller[c].slot IN
  /\ At(c, "process") /\ GoTo(c, "read")
  /\ table[s].lock \in {NoCaller, "dead"}
  /\ object' = Closed({table[s].process})
  /\ table' = [table EXCEPT ![s].lock = c, ![s].process = NoHandle]
  /\ \E killed \in Terminated(ObjectOf(table[s].process)) :
       child' = [q \in Pids |-> IF q \in killed THEN {} ELSE child[q]]
  /\ UNCHANGED <<initialized, boots, kernelLock, nextPid, published, worker, robbed, served>>

ClosePipeRead(c) ==
  LET s == caller[c].slot IN
  /\ At(c, "read") /\ GoTo(c, "write")
  /\ object' = Closed({table[s].read})
  /\ table' = [table EXCEPT ![s].read = NoHandle]
  /\ UNCHANGED <<initialized, boots, kernelLock, nextPid, published, worker, guests>>

\* A mutant of ClosePipeWrite: the value is cleared and never closed.
ForgetPipeWrite(c) ==
  /\ At(c, "write") /\ GoTo(c, "mark")
  /\ table' = [table EXCEPT ![caller[c].slot].write = NoHandle]
  /\ UNCHANGED <<initialized, boots, kernelLock, nextPid, published, object, worker, guests>>

ClosePipeWrite(c) ==
  LET s == caller[c].slot IN
  /\ At(c, "write") /\ GoTo(c, "mark")
  /\ object' = Closed({table[s].write})
  /\ table' = [table EXCEPT ![s].write = NoHandle]
  /\ UNCHANGED <<initialized, boots, kernelLock, nextPid, published, worker, guests>>

\* A mutant of MarkTerminated: State is left as it was.
MarkTerminatedKeepsState(c) ==
  /\ At(c, "mark") /\ GoTo(c, "free")
  /\ table' = [table EXCEPT ![caller[c].slot].lock = NoCaller]
  /\ UNCHANGED <<initialized, boots, kernelLock, nextPid, published, object, worker, guests>>

\* State = ProcessStateTerminated; LeaveCriticalSection.
MarkTerminated(c) ==
  /\ At(c, "mark") /\ GoTo(c, "free")
  /\ table' = [table EXCEPT ![caller[c].slot].state = "Terminated",
                            ![caller[c].slot].lock = NoCaller]
  /\ UNCHANGED <<initialized, boots, kernelLock, nextPid, published, object, worker, guests>>

\* DeleteCriticalSection and Signature = 0; inside a shutdown the loop goes on.
FreeSlot(c) ==
  /\ At(c, "free")
  /\ IF caller[c].call = "shutdown" THEN GoTo(c, "next") ELSE Return(c)
  /\ table' = [table EXCEPT ![caller[c].slot].lock = "dead",
                            ![caller[c].slot].signature = FALSE]
  /\ published' = published \ {caller[c].slot}
  /\ UNCHANGED <<initialized, boots, kernelLock, nextPid, object, worker, guests>>

-----------------------------------------------------------------------------
(***************************************************************************)
(* NTOS2NDInitializeKernel and NTOS2NDShutdownKernel.  Both return at once *)
(* when there is nothing to do.  g_NextProcessId is not reset.             *)
(***************************************************************************)
\* A mutant of InitializeKernel: the ids start again from 1.
InitializeKernelRestartsIds(c) ==
  /\ ~initialized /\ initialized' = TRUE
  /\ boots < MaxBoots /\ boots' = boots + 1
  /\ \A d \in Callers : At(d, "idle")
  /\ table' = [s \in Slots |-> NoEntry]
  /\ nextPid' = 1
  /\ UNCHANGED <<kernelLock, published, object, caller, worker, guests>>

InitializeKernel(c) ==
  /\ ~initialized /\ initialized' = TRUE
  /\ boots < MaxBoots /\ boots' = boots + 1
  /\ \A d \in Callers : At(d, "idle")
  /\ table' = [s \in Slots |-> NoEntry]
  /\ UNCHANGED <<kernelLock, nextPid, published, object, caller, worker, guests>>

ShutdownKernel(c) ==
  /\ initialized
  /\ \A d \in Callers : At(d, "idle")
  /\ caller' = [caller EXCEPT ![c] = [pc |-> "next", slot |-> 0, call |-> "shutdown"]]
  /\ UNCHANGED <<initialized, boots, kernelLock, nextPid, table, published, object, worker, guests>>

\* The loop terminates every slot that has the signature, in index order,
\* those a failed creation left behind included.
Remaining(c) == {s \in Slots : s > caller[c].slot /\ table[s].signature}

ShutdownNext(c) ==
  /\ At(c, "next")
  /\ \E s \in Remaining(c) :
       /\ \A t \in Remaining(c) : s <= t
       /\ caller' = [caller EXCEPT ![c] = [pc |-> "process", slot |-> s, call |-> "shutdown"]]
  /\ UNCHANGED <<initialized, boots, kernelLock, nextPid, table, published, object, worker, guests>>

ShutdownDone(c) ==
  /\ At(c, "next") /\ Remaining(c) = {} /\ Return(c)
  /\ initialized' = FALSE
  /\ UNCHANGED <<boots, kernelLock, nextPid, table, published, object, worker, guests>>

-----------------------------------------------------------------------------
(***************************************************************************)
(* NTOS2NDWorkerThread: while State = Running, read a request from the     *)
(* pipe in the slot, handle it and write the response to the pipe in the   *)
(* slot.  The slot is read anew at each of these points, without a lock.   *)
(***************************************************************************)
WorkerAt(w, step) == worker[w].pc = step

WorkerGoTo(w, step, pipe) ==
  worker' = [worker EXCEPT ![w] = [pc |-> step, slot |-> @.slot, pipe |-> pipe]]

WorkerMove(w, step, pipe) ==
  /\ WorkerGoTo(w, step, pipe)
  /\ UNCHANGED <<initialized, boots, kernelLock, nextPid, table, published, object,
                 caller, guests>>

WorkerCheck(w) ==
  /\ WorkerAt(w, "check")
  /\ WorkerMove(w, IF table[worker[w].slot].state = "Running" THEN "read" ELSE "done", 0)

\* ReadFile on an open read end waits.  The value may meanwhile name what a
\* guest opened, a file say (no pipe, 0); on anything else ReadFile fails.
WorkerRead(w) ==
  /\ WorkerAt(w, "read")
  /\ LET o == ObjectOf(table[worker[w].slot].read) IN
       \/ o.kind = "read"  /\ WorkerMove(w, "wait", o.of)
       \/ o.kind = "guest" /\ WorkerMove(w, "wait", 0)
       \/ o.kind \notin {"read", "guest"} /\ WorkerMove(w, "check", 0)

\* Less than a message arrives: the read succeeds and is not served.
WorkerShortRead(w) == WorkerAt(w, "wait") /\ WorkerMove(w, "check", 0)

\* WriteFile to whatever PipeWrite names; its result is not tested.  It waits
\* when that is a pipe without room.
Respond(w) ==
  LET o == ObjectOf(table[worker[w].slot].write) IN
  \/ o.kind = "write" /\ WorkerMove(w, "answering", o.of)
  \/ WorkerMove(w, "check", 0)

\* A message arrives, from whoever has the other end or had it, and
\* NTOS2NDHandleSyscall carries out a call that opens and closes nothing.
\* READ_FILE and WRITE_FILE take any handle of the host's and may wait.
WorkerServe(w) ==
  /\ WorkerAt(w, "wait")
  /\ \/ Respond(w)
     \/ \E h \in Handles :
          \/ object[h].kind = "read"  /\ WorkerMove(w, "reading", object[h].of)
          \/ object[h].kind = "write" /\ WorkerMove(w, "writing", object[h].of)

\* OPEN_PROCESS on a child or on another process, CREATE_FILE: the handle is
\* the host's, no slot holds it and only a guest's CLOSE_HANDLE closes it.
GuestOpens(w) ==
  /\ WorkerAt(w, "wait") /\ WorkerGoTo(w, "respond", 0)
  /\ served < MaxGuest /\ served' = served + 1
  /\ \E h \in Recycle[FreeHandles] : \E q \in Pids \cup {0} :
       object' = [object EXCEPT ![h] = [kind |-> "guest", of |-> q]]
  /\ UNCHANGED <<initialized, boots, kernelLock, nextPid, table, published, caller,
                 child, robbed>>

\* CLOSE_HANDLE closes whatever the value names in the hosting process.
GuestCloses(w) ==
  /\ WorkerAt(w, "wait") /\ WorkerGoTo(w, "respond", 0)
  /\ served < MaxGuest /\ served' = served + 1
  /\ \E h \in Handles :
       /\ object' = Closed({h})
       /\ robbed' = (robbed \/ object[h].kind \in Kernels)
  /\ UNCHANGED <<initialized, boots, kernelLock, nextPid, table, published, caller, child>>

WorkerRespond(w) == WorkerAt(w, "respond") /\ Respond(w)

\* The guest's ReadFile gets data or its WriteFile room; so does the response.
WorkerServed(w) ==
  \/ worker[w].pc \in {"reading", "writing"} /\ Respond(w)
  \/ WorkerAt(w, "answering") /\ WorkerMove(w, "check", 0)

\* The last write end is closed: ReadFile fails with ERROR_BROKEN_PIPE.
WorkerBrokenPipe(w) ==
  /\ ~HasWriter(worker[w].pipe)
  /\ \/ WorkerAt(w, "wait")    /\ WorkerMove(w, "check", 0)
     \/ WorkerAt(w, "reading") /\ Respond(w)

\* The last read end is closed: WriteFile fails with ERROR_NO_DATA.
WorkerNoReader(w) ==
  /\ ~HasReader(worker[w].pipe)
  /\ \/ WorkerAt(w, "writing")   /\ Respond(w)
     \/ WorkerAt(w, "answering") /\ WorkerMove(w, "check", 0)

\* A child ends by itself, and its handles with it.
ChildEnds(q) ==
  /\ child[q] # {} /\ child' = [child EXCEPT ![q] = {}]
  /\ UNCHANGED <<initialized, boots, kernelLock, nextPid, table, published, object,
                 caller, worker, robbed, served>>

-----------------------------------------------------------------------------
Init ==
  /\ initialized = FALSE /\ boots = 0
  /\ kernelLock = NoCaller
  /\ nextPid = 1
  /\ table = [s \in Slots |-> NoEntry]
  /\ published = {}
  /\ object = [h \in Handles |-> NoObject]
  /\ caller = [c \in Callers |-> Idle]
  /\ worker = [w \in Pids |-> [pc |-> "none", slot |-> 0, pipe |-> 0]]
  /\ child = [q \in Pids |-> {}] /\ robbed = FALSE /\ served = 0

Begin(c) ==
  \/ \E kind \in {"sandboxed", "plain"} : FindFreeProcessSlot(c, kind)
  \/ TerminateProcess(c) \/ InitializeKernel(c) \/ ShutdownKernel(c)

\* The part of a call that follows its first step.
Continue(c) ==
  \/ ClaimSlot(c) \/ EnterKernel(c) \/ BumpProcessId(c) \/ MakePipe(c)
  \/ SpawnChild(c) \/ FinishCreate(c) \/ CreateFails(c)
  \/ CloseProcess(c) \/ ClosePipeRead(c) \/ ClosePipeWrite(c)
  \/ MarkTerminated(c) \/ FreeSlot(c) \/ ShutdownNext(c) \/ ShutdownDone(c)

Work(w) ==
  \/ WorkerCheck(w) \/ WorkerRead(w) \/ WorkerRespond(w)
  \/ WorkerBrokenPipe(w) \/ WorkerNoReader(w)

\* What takes somebody else to fill or empty a pipe.
Receive(w) ==
  \/ WorkerShortRead(w) \/ WorkerServe(w) \/ GuestOpens(w) \/ GuestCloses(w)
  \/ WorkerServed(w)

Next ==
  \/ \E c \in Callers : Begin(c) \/ Continue(c)
  \/ \E w \in Pids : Work(w) \/ Receive(w)
  \/ \E q \in Pids : ChildEnds(q)

Spec == Init /\ [][Next]_vars

\* A thread inside a call and a worker are scheduled by the operating system;
\* the host is never obliged to begin a call, nor anyone to fill or to empty
\* a pipe, nor a child to end.
FairSpec ==
  /\ Spec
  /\ \A c \in Callers : WF_vars(Continue(c))
  /\ \A w \in Pids : WF_vars(Work(w))

-----------------------------------------------------------------------------
(***************************************************************************)
(* Properties.                                                             *)
(***************************************************************************)
Entry == [signature : BOOLEAN, pid : Nat, state : {"Created", "Running", "Terminated"},
          process : Handles \cup {NoHandle}, read : Handles \cup {NoHandle},
          write : Handles \cup {NoHandle}, lock : Callers \cup {NoCaller, "dead"}]

CallerState == [pc : {"idle", "next"} \cup CreateSteps \cup TermSteps, slot : 0..NSlots,
                call : {"none", "sandboxed", "plain", "terminate", "shutdown"}]

WorkerState == [pc : {"none", "check", "read", "wait", "reading", "writing",
                      "respond", "answering", "done"},
                slot : 0..NSlots, pipe : Nat]

\* Every variable has its type (the fields of NTOS2ND_PROCESS, the globals
\* of kernel.c and the places its functions can be at).
TypeOK ==
  /\ initialized \in BOOLEAN
  /\ boots \in 0..MaxBoots
  /\ kernelLock \in Callers \cup {NoCaller}
  /\ nextPid \in Nat \ {0}
  /\ table \in [Slots -> Entry]
  /\ published \subseteq Slots
  /\ object \in [Handles -> Object \cup {NoObject}]
  /\ caller \in [Callers -> CallerState]
  /\ worker \in [Pids -> WorkerState]
  /\ child \in [Pids -> SUBSET End]
  /\ robbed \in BOOLEAN
  /\ served \in 0..MaxGuest

\* No two occupied slots ever show the same process id, whatever the callers
\* interleave: the counter is read and written under g_KernelLock, and it is
\* not reset when the kernel is initialized again.
PidsDistinct ==
  \A s, t \in Slots :
    s # t /\ table[s].signature /\ table[t].signature /\ table[s].pid # 0
      => table[s].pid # table[t].pid

\* g_KernelLock is owned exactly while its owner is between the Enter and the
\* Leave of NTOS2NDCreateProcess: every early return gives it back.
KernelLockMatchesCode ==
  \A c \in Callers : kernelLock = c <=> caller[c].pc \in LockedSteps

\* Every call of NTOS2NDCreateProcess returns, whatever fails in it and
\* whoever else is in it.
CreateReturns ==
  \A c \in Callers : caller[c].pc \in CreateSteps ~> At(c, "idle")

Terminating(s) == \E c \in Callers : caller[c].slot = s /\ caller[c].pc \in TermSteps

\* Until a guest's CLOSE_HANDLE hits a handle of the kernel's (nothing stops
\* it), and while the host neither terminates it nor shuts down, a running
\* process owns three open handles: its child and both ends of its own pipe,
\* though values closed elsewhere are given out again, to guests as well.  In
\* a shutdown the code does not keep this: the loop also closes the values a
\* failed creation left in its slot, and they may be another process's by then.
RunningOwnsHandles ==
  \A s \in Slots :
    LET p == table[s] IN
    ~robbed /\ p.signature /\ p.state = "Running" /\ NotShutting /\ ~Terminating(s) =>
      /\ ObjectOf(p.process) = [kind |-> "process", of |-> p.pid]
      /\ ObjectOf(p.read)    = [kind |-> "read",    of |-> p.pid]
      /\ ObjectOf(p.write)   = [kind |-> "write",   of |-> p.pid]

\* Every Win32 handle the kernel opened for a process is, until it is closed,
\* in a slot that a termination or the next shutdown will close, whatever the
\* guests open and close: no early return, no stale value and no reuse of a
\* slot forgets an open handle.  What a guest opened is nobody's: the kernel
\* neither records nor closes it.
NoHandleLeak ==
  \A h \in Handles : object[h].kind \in Kernels =>
    \E s \in Slots : table[s].signature /\ h \in {table[s].process, table[s].read, table[s].write}

\* NTOS2NDTerminateProcess never enters a critical section that is not
\* initialized, also for the slots a failed creation left behind.
LockUsable == \A c \in Callers : At(c, "process") => table[caller[c].slot].lock # "dead"

\* Once the kernel is shut down for good and the children that hold pipe ends
\* have ended too, every worker thread comes to its end, whatever its guest's
\* last call waits for.  The shutdown itself ends only the children whose
\* handles are still in their slots.
WorkersDrain ==
  <>[](~initialized /\ \A q \in Pids : child[q] = {})
    => <>[](\A w \in Pids : worker[w].pc \in {"none", "done"})

\* The step from the table to the abstract set: a process lives while its
\* slot is in the host's hands.
Promise == INSTANCE ProcessSet WITH
  live    <- {table[s].pid : s \in published},
  lastPid <- nextPid - 1,
  pending <- \E c \in Callers : caller[c].pc \in {"pipe", "spawn", "run"}

\* With one thread in the kernel's functions the table is the abstract set of
\* live processes: no id is used twice, no process comes back to life, each
\* dies once, and a slot that is used again is a new process.
KeepsPromise == Promise!SetSpec

\* The worker of a process is there as long as the process runs
\* (NTOS2NDCreateProcess starts it "for IPC" before it sets State = Running).
WorkerServesWhileRunning ==
  \A s \in Slots :
    LET p == table[s] IN
    p.signature /\ p.state = "Running" /\ ~Terminating(s) => worker[p.pid].pc # "done"
=============================================================================
