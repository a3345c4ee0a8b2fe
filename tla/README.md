# A TLA+ verification of LibreNT

This directory specifies the parts of LibreNT that keep state, checks them with TLC
and proves theorems about them with TLAPS. The modules are translated from the
sources: every definition that models code is listed in `PROJECT.json` (`map`) with
the lines it stands for.

To repeat a run: `tlc -config <cfg> <module>` with the pairs of section 4. To repeat
the proofs: `tlapm <module>_proofs.tla`.

## 1. The system

LibreNT is a Windows derivative. The repository holds several programs that share no
code and no process: they meet on a built system.

| part | where | state it keeps | operations | hard behaviour |
|---|---|---|---|---|
| **kernel: process table and workers** | `ntos2nd/ntos2nd/kernel.c` | `g_ProcessTable`, `g_NextProcessId`, `g_KernelLock`, a lock and three handles for each process, a worker thread for each | initialize, shut down, create, terminate, wait | a slot search outside the lock, early returns under it, slots used again while an old worker still points to them, guests that close the host's handles, children that inherit them, recycled handle values |
| **kernel: thread table** | `kernel.c` | `g_ThreadTable`, `g_NextThreadId` | create, terminate | no lock at all, a restart that zeroes the table |
| **native calls** | `kernel.c`, `NTCall.c` | none beyond Win32 handles | the handler of the kernel's messages, five wrappers on top of it | two numberings of the calls |
| **message pipe** | `kernel.c`, `sandbox.c` | the bytes in a process's pipe | send and receive (two message formats), the two worker loops | both ends in one process, four parties on one pipe, a full pipe, short reads |
| **API registry** | `kernel.c` | `g_ApiBridges`, `g_ApiBridgeCount` | register, look up | a restart zeroes the entries and not the count |
| **system calls and handle table** | `syscall.c` | `g_HandleTable`, `g_NextHandle` | the `Nt*` handlers behind `NTOS2NDDispatchSyscall` | no lock, three look-ups in one `NtClose`, an entry freed before it is cleared, a full table |
| **host** | `ntos2nd.c` | `g_bKernelRunning` | initialize, shut down, run a program | a part that fails to start, starting twice |
| **API bridge** | `apibridge.c` | a `FunctionAddress` and a `ForwardAddress` for each name | initialize, shut down, resolve, forward, patch | stale addresses after a stop |
| **undocumented API layer** | `undocumented.c` | a `HostAddress` for each name | initialize, resolve, forward, load a module | it is never stopped |
| **sandbox configuration** | `sandbox.c` | one configuration, two counters | initialize, shut down, filter a call | counters without the lock that was made for them |
| **ELF loader** | `ntos2nd/winelf` | mapped regions, the heap's end | parse, map, allocate | overlaps, 64-bit sums |
| **kernel drivers** | `ntos2nd/winelf/driver`, `ntos2nd/posix` | none | answer "not implemented" | none |
| **installer** | `adk/ossetup` | the engine's cancel flag, images and hive as they are mounted, the volume under `X:`, the boot files and entry, the patcher's pending values, the injector's list of drivers | install, cancel, mount, unmount, import hives, inject drivers, install the bootloader, patch | cancelling between a test and its command, cleaning up after it, copies that break off, a drive letter nobody assigns |
| **installer's window** | `adk/ossetup` | choices and messages | one frame | none worth a model |
| **daemon** | `libredaemon` | environment, registry, started processes | parse and execute a script | a command that fails in the middle, a start on what an earlier one left |
| **platform builder** | `utils/libreplatformbuilder` | a work directory: extracted ISO, two unpacked images, output | `build` and its eleven steps | every step may fail, be killed or pass something over, nothing is cleaned up |
| **builder's interfaces** | `.../src/ui` | the current screen and choices | key events | screens nothing leads out of |
| **shell, welcome, winver, tools** | `mswindows`, `tools` | windows | event handlers | none worth a model |

How they interact. In `ntos2nd`, `NTOS2NDInitialize` brings up the kernel, the
bridge and the undocumented layer, in this order, and takes down what is up when one
fails. The host's threads call the kernel's functions directly. A sandboxed process
gets a pipe and a worker thread; the host writes requests to the pipe, the worker
reads them, calls the dispatcher of `syscall.c`, which works on the handle table,
and writes the answer. The bridge and the registry are tables the host looks names
up in. The builder's steps call one another in sequence and communicate through the
directories alone. The installer's window does not call its engine in this version
of the code; engine, injector and patcher meet on the mounted image and on drive
`X:`. The daemon's commands act on the machine, and what they did is there when it
is started again.

What makes each part correct:

- process table: ids are never shared, a running process owns its handles until a
  guest closes one, the kernel forgets no handle it opened, the lock is given back
  on every path, every worker ends after the shutdown and its children's end;
- pipe: messages stay whole, each request is in one place; until the host has more
  in flight than the pipe holds, the worker does not wait for itself and each
  request is served;
- handle table: a call acts on the object its guest opened, a held handle is valid,
  an object is dropped only if there was no room, a handle never comes back - as
  long as two calls do not meet on one entry, which nothing prevents;
- host and bridge: the flags agree, what is resolved is what the machine has,
  nothing is forwarded through a stopped bridge, the first registration of a name
  keeps its answer until the kernel is started anew;
- threads, native calls and filter: what is lost is lost only where two unlocked
  operations overlap, a restart zeroes the table or a guest closes a handle that is
  not its own;
- installer: what is reported installed was committed, what was mounted is released
  unless somebody cancelled or killed it, at most one command follows a
  cancellation, the boot entry names files that were copied whole;
- daemon: its effects are those of a prefix of its script;
- builder: what is reported finished is what was asked for, but for the components
  its patterns passed over, made of the first image of each WIM of the ISO that was
  given, whatever failed before.

`PROJECT.json` lists each hazard at its line, with the properties that would catch
it or the reason why none does.

## 2. Modules

| module | models | composition |
|---|---|---|
| `ProcessTable` | `kernel.c`: process table, kernel lock, workers, Win32 handles and what the workers' calls do to them | instantiates `ProcessSet` as its abstract specification |
| `ProcessSet` | what the table promises: live processes under fresh ids | |
| `SyscallPipe` | the pipe of one process: `kernel.c`, `sandbox.c` | |
| `HandleTable` | `syscall.c`: the table and the calls that use it | |
| `HostBridge` | `ntos2nd.c`, `apibridge.c`, `undocumented.c` and the API registry of `kernel.c` | one module, for they live and die together |
| `NativeCalls` | the thread table and `NTOS2NDHandleSyscall` of `kernel.c`, `NTCall.c`, the filter of `sandbox.c` | one module, for they share the callers and their Win32 handles |
| `Installer` | `adk/ossetup`: `DeploymentEngine`, `DriverInjector`, `RegistryPatcher` | one module, for they work on the same disks |
| `InitScript` | `libredaemon` | |
| `PlatformBuild` | `libreplatformbuilder`: `builder`, `iso`, `wim`, `components`, `programs`, `registry` | |
| `MC*` | the constants of the runs that a `.cfg` cannot write | extend the module they are named for |
| `*_proofs` | theorems | extend the module they are named for, and `TLAPS` |

A definition whose comment begins "A mutant of" is a plausible bug in the definition
that follows it. No specification uses it; it is there to show that a property
notices the bug.

### ProcessTable and ProcessSet

`table[s]` is a slot of `g_ProcessTable` with the fields the code tests: `signature`
(the value `'PROC'`), `pid`, `state`, the three handles, and `lock`, which is the
owner of the process's critical section or `"dead"` when it is not initialized.
`caller[c]` says where a thread of the host is in a kernel function, `worker[p]`
where the worker started for process `p` is and which slot its `lpParameter` points
to. A step ends where another thread can see or change what the function works on:
the slot search, the claim, the entry into the lock, the read and the write of
`g_NextProcessId`, each Win32 call.

`object` is the handle table of the hosting Windows process: what each value refers
to. Windows gives a closed value out again, and the kernel keeps values of closed
handles (a creation that fails leaves them in the slot), so a later close may hit
something else. The worker's dispatcher works on the same handles for its guest:
`OPEN_PROCESS` and `CREATE_FILE` open values no slot holds (`GuestOpens`),
`CLOSE_HANDLE` closes whatever the guest names (`GuestCloses`), `READ_FILE` and
`WRITE_FILE` wait in a pipe (`"reading"`, `"writing"`). `robbed` is a history
variable: a guest has closed a handle the kernel had opened. `RunningOwnsHandles`
holds until then, and outside a shutdown: the shutdown closes the stale values of
failed creations too, which may name the handles of a process it has not come to
yet. `NoHandleLeak` holds throughout for what the kernel opened; what a guest opened
stays open until a guest closes it.

A pipe's ends are inheritable and `CreateProcessA` passes them on, so `child[p]` is
the set of ends the child of process `p` got from the host as it was then. A pipe is
at its end when neither the host nor a child holds the other end (`HasReader`,
`HasWriter`). A shutdown ends the children whose handles are still in their slots,
and a child may end by itself (`ChildEnds`). Which is why `WorkersDrain` needs both:
a kernel that is down and children that are gone. Left out are the handles of a
child's first thread and of the worker's thread: they are opened and closed within
one step of the model.

With one thread in the kernel's functions the table implements `ProcessSet`
(`KeepsPromise`): a process is live while the host holds its slot, an id is taken
once, and a creation that fails has used its id up.

`ProcessTable` assumes of the host what the code cannot do without: it terminates
only processes it was given (`published`), and initializes and shuts down with no
other of its threads inside a kernel function.

### SyscallPipe

The pipe is a sequence of cells; a message is a run of cells whose first one is the
header. `Send` and `Receive` are the host's calls, `ReadMessage`, `Serve` and
`Reply` the turn of a worker's loop, each for both formats. The two worker threads
test the length of what they read and drop a short message; the host's receive does
not. That the worker's answer goes into the pipe it reads from is what the code
does, and what makes `ServedOnce` false. Nothing limits what a host sends. A send
that does not fit waits, and so does an answer, and since the worker is the only
reader it then waits for itself. `overrun` is a history variable: the host once had
more cells in flight (sent and not received by it) than the pipe holds.
`RoomToReply` and `ServedInTheEnd` say that it takes an overrun to get there. The
run reaches the overrun and the deadlock behind it.

### HandleTable

`entry` is `g_HandleTable`, `thread[t]` a dispatching thread with its local
variables. The search of `NTOS2NDCreateHandle` is one step per entry, the increment
of `g_NextHandle` a read and a write, the filling of an entry two writes
(`NameEntry`, `StorePointer`). `NtClose` is validity, pointer, `CloseHandle`, a
third look-up (`FindToClear`) and the `memset`, which clears `Handle` (`WipeHandle`)
before `Pointer` (`WipePointer`). A full table makes a creation return handle 0 with
success; the guest keeps it, uses it and closes it like any other, and it names the
first free entry. The guest closes a handle of its own once and not while another of
its threads uses it; nothing else is assumed of it.

Two things go wrong without a lock even if one thread creates, and `clash` is the
history variable that marks them: a creation takes an entry whose `memset` is
between its two writes, and loses its pointer; or a look-up of handle 0 finds in a
free entry a pointer that is about to be cleared or has just been stored. The three
properties about objects hold until then, and the run reaches both. The test in the
loop of `NTOS2NDCloseHandle` and the `memset` behind it are steps of their own too;
that gap does no harm, since nobody takes an entry that still has a handle.

### HostBridge

The machine (`loaded`, `exported`) is chosen in the initial state; what it exports
is fixed, and `NTOS2NDResolveDynamicAPI` may load a module it has. One action per
call of the host: the calls are made by one thread and run to their end. A second
`NTOS2NDInitialize` on a running host goes through all the parts again and is in the
model, as are patches and registrations before a start. The undocumented layer keeps
its addresses through a stop, so its calls can be forwarded when the host is down;
`ForwardsOnlyWhenRunning` says to what. A start zeroes the registry's entries and
leaves their count, so `bridges` becomes a sequence of `NoBridge` of the same
length, and a look-up that meets one of them reads through NULL ("fault").
`FirstRegistrationAnswers` says what that leaves of a registration: the first one of
a name answers until the next start, and from then on a look-up that had an answer
faults. `tests/simple_test.c:43-50` resolves a name after `NTOS2NDShutdown` and
requires an address; the code does the opposite, and `ForwardsOnlyWhenRunning` says
so: the bridge answers nothing once it is down (section 6).

### NativeCalls

`slot` is `g_ThreadTable`; nothing locks it. `caller[c]` is where a thread of the
host is in one of the functions, with the slot it has found and the counter it has
read. A creation is four steps: the search, the claim with the read of
`g_NextThreadId`, its write, and `CreateThread`; a termination three: the test of
the signature, the closing of the handle, the signature. `KernelCall` and `NtWrap`
are the two ways into `NTOS2NDHandleSyscall`: with the numbers of `kernel.h`, and
with those of `syscall.h`, which it does not know. The filter reads one of two
counters and writes it back; `ZeroSandbox` is what initializing and shutting down do
to them. `InitializeKernel` is the start of the kernel, whose `memset` zeroes the
thread table (`kernel.c:84`) and leaves the threads running. `CLOSE_HANDLE` closes
any open value: the worker executes returned answers again and a guest may name what
it likes.

`clash` is a history variable, the set of what has happened that the code does not
guard against: `"create"`, two creations in progress together; `"filter"`, two calls
of the filter, or one and a reset; `"restart"`, a start that zeroed an entry in use;
`"close"`, a handle closed by one whose it is not. `LostOnlyByClash` says that
without the first, third and fourth, thread handles and entries are one to one, ids
are distinct and a termination closes its own thread; `CountsAddUp` that without the
second every call is counted once. The damage is done there and nowhere else. The
caller terminates only threads it was given, once.

### Installer

`image[p]` is what became of the image at mount path `p`: path 0 is one that a
caller mounts with `MountImage`, path `n` that of the `n`-th `InstallLibreNT`.
`RunDISM`, `RunCommand` and `RunRegCommand` put a command line together and return
true without starting it; the model gives each command the effect the command line
would have, so the properties are about the order of the commands and the conditions
they are under. A command of the engine is two steps: `RunDISM` tests `m_cancelled`,
and lets `command` through or refuses it; `Execute` gives it its effect. `Cancel` is
an action of its own and may come between any two steps, these two included. `late`
counts the commands executed since the flag was set: `AtMostOneAfterCancel` says
that it is the one the test had let through. `InstallLibreNT` is a test and a
command for the mount, for each turn of its loop and for the commit. `Kill` ends the
program anywhere: locals and members are gone, disks and mounts stay, and what was
being copied or written may be there in part. `Copied` is `fs::copy` without
`overwrite_existing`: it throws at the first file that is there. `stopped` is a
history variable: the installations that were cancelled or killed, for these are the
ones that may leave something mounted.

`MountEFIPartition` builds a script that would assign `X:` and runs `diskpart /s`
without it (`DriverInjector.cpp:123-127`). So `x` is whatever volume the letter
names when the bootloader is copied - the EFI partition, another one or none - and
`bootFiles[v]` what is in `\EFI\Boot` of volume `v`. `BootEntryHasItsFiles` cannot
say that the files are on the EFI partition; it says that all files of the directory
are on one volume, and the entry is written after them. A bootloader directory
without files satisfies it as it satisfies the code: the directory is all that is
asked for.

### InitScript

A line is its first word and the words behind it; `parse_line` is the parser as it
is, `splitn(2, ' ')` included. One action for each line without effect, two for a
`spawn` (create suspended, resume), two for a `regset` (key, value), for a failure
or a kill may come in between. `processes` and `registry` are the machine's and
outlive the daemon. `Spawns` are the lines of the prefix that create a process,
`Mine` the processes of this run; the k-th of one belongs to the k-th of the other
(`Rank`). `data_bytes` is the conversion of a value that `registry.rs` makes; which
bytes become of a word is a constant (`LowBytes`). `EffectsOfPrefix` is about what
the latest run did. It does not repair: a process an earlier run left suspended
stays so. And it is about accepted lines: `setenv` is refused by the parser
(`init.rs:61`), so the variables of `system/init.rc:13-14` are never set and the run
is a success all the same. The property cannot notice that `data_bytes` is wrong for
the value meant, because it stands on both sides; both facts are in section 6.

### PlatformBuild

A directory, an image and an ISO are functions from file names to contents, a WIM is
the sequence of its images. The builder extracts index 1 and captures a new WIM over
the file (`builder/mod.rs:92`, `:122`), so the first image is what survives: the
other editions of an `install.wim`, and Setup in `boot.wim` index 2, are lost.
`BuiltFromGivenIso` says so. `Written(dir, files)` puts files over those of a
directory: that is what 7z, wimlib, `fs::copy` and `fs::write` do. `PartlyWritten`
is what they leave when they fail or are killed: some of the files, and one of them
torn. `build` is a program counter over its steps; `Fail` is an error or a kill in
any of them, with the directories as they are then. `RemoveComponents` may pass over
a file that is there: a pattern matches nothing when the work directory's path has
special characters, and entries that cannot be read are skipped
(`components/mod.rs:73-78`). `missed` is what the latest build passed over;
`FinishedHoldsRequest` is about the others, and `RetryIsClean` compares with a new
build that passes over the same. `source` is what `programs/winui3` is: absent (a
placeholder is written), there with the DLL, or there without it, in which case
nothing is added (`components/mod.rs:159-165`). `AddedToInstall` and `AddedToBoot`
are the names a request adds to an image, `KeptOf` those it leaves as the ISO has
them. Directories outlive builds. A rename to the same name and log output are left
out.

## 3. Assumptions on what is outside `src/`

- Windows: `CloseHandle` returns at once, also on a pipe another thread reads from
  (if it waited for that read, a shutdown would not complete and `WorkersDrain`
  would say nothing of it: a hazard of its own in the list); a handle value is
  reused only after it was closed; `ReadFile` on a pipe takes what is there and
  fails when the last writer is closed, `WriteFile` when the last reader is, the
  host's and the children's handles alike; a critical section that is not
  initialized keeps nobody out.
- Children hand the pipe ends they inherited to nobody, and a file a guest opened
  answers when it is read or written.
- `g_NextHandle` does not wrap: its 32 bits outlast the objects a behaviour opens
  (`HandleTableAssumption`).
- Handle values: the theorems hold for every policy (`Recycle` is any function); the
  runs use the sharpest one, the lowest free value, which returns a value just
  closed at once.
- Builder's tools: they overwrite files of the same name, keep the others, and may
  stop anywhere. It runs on Windows (backslashes separate), and no two builds share
  a work directory at the same time.
- The installer's operations are called by one thread; `Cancel` by any. Its tick
  counts are distinct, so each installation has a mount path of its own. `mountvol`,
  `bcdedit`, `reg` and DISM do what their command line says. What `X:` names is left
  open.
- A process created suspended stays so until it is resumed, also when all its
  handles are closed and its creator is gone.
- In `NativeCalls` a new Win32 handle gets the lowest free value.
- Names and shapes: what a build adds is not named like a component it removes, the
  programs of a request are a sequence, the first image of each WIM is a directory
  (`PlatformBuildAssumption`); the mark of a dead object is not the name of a caller
  (`ProcessTableAssumption`); the callers of the native functions are finitely many
  (`NativeCallsAssumption`).

## 4. Runs

| run | module, cfg | shows |
|---|---|---|
| `process_one_caller` | `MCProcessTable`, `ProcessOneCaller.cfg` | creation, every failure of it, termination, shutdown and restart against two slots whose workers run on and serve calls that open, close and wait on host handles: `RunningOwnsHandles`, `NoHandleLeak`, `LockUsable`, the refinement `KeepsPromise`, and `WorkersDrain` |
| `process_two_callers` | `MCProcessTable`, `ProcessTwoCallers.cfg` | two threads race in the kernel: `PidsDistinct` and `KernelLockMatchesCode` survive the unlocked slot search, `CreateReturns` on every path |
| `worker_gone` (violation) | `MCProcessTable`, `WorkerGone.cfg` | a worker scheduled before `State = Running` ends at once |
| `handle_table` | `HandleTable`, `HandleTable.cfg` | two dispatching threads on the unlocked table |
| `syscall_pipe` | `MCSyscallPipe`, `SyscallPipe.cfg` | framing, one place for each request; until the host overruns the pipe, room to reply and service in the end |
| `served_once` (violation) | `MCSyscallPipe`, `ServedOnce.cfg` | the worker executes its own answer |
| `host_bridge` | `MCHostBridge`, `HostBridge.cfg` | starts, failed starts, stops, restarts, modules loaded late, patches and registrations on every machine |
| `native_calls` | `MCNativeCalls`, `NativeCalls.cfg` | two callers in the unlocked thread table, with restarts of the kernel, the native calls and the filter |
| `installer` | `MCInstaller`, `Installer.cfg` | two installations and three other calls, cancelled or killed at any step, with `X:` on any volume or none |
| `init_script` | `MCInitScript`, `InitScript.cfg` | every script of up to three lines, run twice, failing or killed anywhere |
| `platform_build` | `MCPlatformBuild`, `PlatformBuild.cfg` | three builds in one work directory, each failing anywhere and passing over any components |
| `registry_file` (violation) | `MCPlatformBuild`, `RegistryFile.cfg` | only the last registry modification reaches the image |

Bounds, and why they are enough:

- **Process table.** Two slots give a free one beside a taken one; a creation that
  fails leaves a slot taken, so two of them fill the table; two initializations give
  a restart, and a slot used again while its old worker runs on. Seven handle values
  are the six of two processes and one of a guest's; every failure and termination
  makes the values of a slot come back to somebody else. One guest call opens a
  value or closes one of the kernel's, of any process, at any step. With two
  callers, the race for one free slot and the race for the lock need two ids and no
  restart; three handle values are one process's, so a second creation fails where
  they run out, and guests' calls (`MaxGuest = 0`) touch neither lock nor ids.
- **Handle table.** Two entries let a search pass over a taken entry and find the
  table full; five objects fill it, lose one and are closed and opened again, so
  that handle 0 is issued, used, closed and meets a free entry. Three Win32 values
  are enough for both entries and a lost object, and come back at once. Two threads,
  of which one creates: two creating threads do take the same entry (a hazard listed
  without a property), so the properties are those the code has with one.
- **Pipe.** A kernel message of two cells distinguishes header and body; a capacity
  of seven cells, odd, leaves room for a message that fits only in part; five
  requests of two cells are more than the pipe holds, so the host overruns it, with
  worker, answers and further requests in it at once.
- **Host.** One name of each kind: forwarded, resolved but not forwarded, of
  `ntdll`, undocumented; two implementations, so that a second registration of a
  name differs. Two registry entries and two processes reach both limits. All
  sixty-four machines are initial states.
- **Native calls.** Two slots and three creations fill the table and use a slot
  again; two handle values are used up by threads, by files and by both; two callers
  and two filtered calls overlap in every way. `UntilTaken` follows a behaviour to
  the first restart on an entry in use or foreign close and no further (the state
  with it is still checked): from there the invariant says nothing. The callers are
  interchangeable (`SYMMETRY`); no property is a liveness property.
- **Installer.** Two installations are one that is cancelled and one after it; two
  components and two hives give a cancellation before, between and after; three
  other calls are enough to initialize, break a copy off and try again, or to
  initialize twice and inject. A driver directory with two files can be copied in
  part. Two volumes tell the one that got the files from another.
- **Init script.** Three lines give a command that fails between two others, and two
  settings of one key around something else; two runs give a start on what a failed
  or killed one left. The twelve lines have each command accepted and refused, two
  keys and two values, a key under a root that is not accepted, a line that cannot
  be read.
- **Builder.** Two ISOs that differ, one with `install.esd`, a call without an ISO;
  WIMs of one and of two images; the three states of `programs/winui3`;
  configurations with and without each option, a program that is there and one that
  is not. Three builds allow a failure, a build of another configuration and a
  repetition. Half-written states are all subsets of files with one torn.

**Deadlock** is checked for the handle table, the host and the native calls. The
other systems may stop: the bounds on ids, requests, builds, calls and starts end
them.

**Fairness.** Weak fairness for every thread inside a kernel function and for every
worker: they are operating system threads that are scheduled while they can run. The
only step another thread can disable is the entry into a lock; it is disabled only
finitely often, because a behaviour has finitely many creations (`MaxPid`), so weak
fairness is enough. A host that creates processes without end from several threads
would need a fair lock, which Windows does not promise. None for the host's calls
and none for the arrival of requests: nobody has to create a process or send a
message. Nor need anybody fill or empty the pipe a worker waits on, nor a child end
(`Receive` and `ChildEnds` are not fair, `Work` is). `WorkersDrain` speaks of a
kernel that is shut down for good and whose children have ended; `ServedInTheEnd`
allows the host to read the request first, or to have overrun the pipe.

## 5. Proofs

All theorems hold for every value of the constants that satisfies the module's named
assumption.

| theorem | says | argument |
|---|---|---|
| `ProcessTable_proofs!TypeCorrect` | `[]TypeOK` | `TypeOK` is not inductive: a step uses `caller[c].slot` as an index. `SlotHeld` adds that a caller inside a call, and a started worker, have a slot |
| `ProcessTable_proofs!LockDiscipline` | `[]KernelLockMatchesCode` | inductive with `TypeOK`: only `EnterKernel` takes the lock, and `FinishCreate` and `CreateFails` are the only ways out of `LockedSteps` |
| `ProcessTable_proofs!ProcessIdsDistinct` | `[]PidsDistinct` | `PidInv`: ids shown are below the counter, except the one the lock's owner has read and not yet written back. It needs the lock invariant: that owner is alone |
| `ProcessTable_proofs!RunningHasHandles`, `HandlesKept`, `LockAlwaysUsable` | with `OneCaller`: `[]RunningOwnsHandles`, `[]NoHandleLeak`, `[]LockUsable` | `CoreInv`, see below; what a worker does for its guest leaves it alone (`GuestCore`) |
| `ProcessTable_proofs!TableKeepsPromise` | with `OneCaller`: the table implements `ProcessSet` | see below |
| `HandleTable_proofs!TypeCorrect` | `[]TypeOK`, for any number of creators | inductive as it stands; the entry a lookup finds is the least of a set that is not empty (`Least`) |
| `HandleTable_proofs!ActsRight`, `HandlesStayValid`, `HandlesFresh` | with `OneCreator`: `[]ActsOnItsObject`, `[]HeldHandleValid`, `NeverReissued` | `TableInv`, see below |
| `HandleTable_proofs!NothingForgotten`, `LostToFullTable` | with `OneCreator`: `[]NoObjectForgotten`, `[]LostOnlyWhenFull` | `ObjectInv`, until a clash: an open object has an entry that no `NtClose` is about to clear, or its creation is still under way, or it is among the lost. `SearchInv`: a search that has passed an entry began with a full table or still has a free entry before it, as nobody else takes one |
| `SyscallPipe_proofs!PipeTypeCorrect` | `[]TypeOK` | with the lengths of what the workers hold |
| `SyscallPipe_proofs!AlwaysRoomToReply` | `[]RoomToReply` | `Credit`: what is in the pipe and in the workers' hands is at most what the host has in flight, which is at most the capacity as long as it never was more. Nothing is assumed of the host; for both formats at once, which the run does not try |
| `SyscallPipe_proofs!WholeMessagesServed` | with `OneFormat`: `[]ServesWholeMessages` | `Blocks`: every cell of the pipe lies in a run of as many cells as a message has, numbered from the first and of one request. A read takes the front run, a write that fits appends one |
| `SyscallPipe_proofs!RequestsInOnePlace` | with `OneFormat`: `[]OnePlace` | `Places`: a request that was sent is in the pipe, with the worker or at the host, in exactly one of them, and has one header in the pipe. It needs `Blocks`: the front run carries one header |
| `HostBridge_proofs!TypeCorrect` | `[]TypeOK` | inductive as it stands |
| `HostBridge_proofs!ReadyWhileRunning`, `ForwardsNothingStale` | `[]ReadyWhenRunning`, `[]ForwardsOnlyWhenRunning` | `BridgeInv` adds that the bridge has no address while the host is down, that a running host is on a machine on which its bridge starts (otherwise a second start could fail and leave `running` set), and that the undocumented layer knows nothing, or exactly what `ntdll` has |
| `HostBridge_proofs!FirstAnswers` | `FirstRegistrationAnswers` | a step leaves the table, zeroes it or appends to it; a look-up has one first entry at which it stops (`AnswerOfFirst`), and an appended entry is behind it |
| `NativeCalls_proofs!TypeCorrect` | `[]TypeOK` | the bounds on ids and counts need those who are about to raise them: `IdsBound` and `CountsBound` count the callers at these steps (`Cardinality` of a set one caller enters or leaves) |
| `NativeCalls_proofs!EachCallCounted` | `[]CountsAddUp` | `FilterAlone`: without a clash a caller inside the filter is the only one, with the counter's present value in hand |
| `NativeCalls_proofs!ThreadsFound` | `[]LostOnlyByClash` | `Table`, while `clash` has no more than filter calls in it: one creator, no entry or handle in the hands of two callers (`OwnersApart`), entries that name threads one to one (`NamesOK`), ids below the counter and distinct (`IdsOK`). Terminations may overlap with everything; a start of the kernel on an empty table changes nothing (`KernelTable`) |
| `Installer_proofs!TypeCorrect`, `Invariants` | `[]TypeOK`, the conjunction below | `LoopInv`: the bootloader being copied is a quibble directory, no more hives are left than there are |
| `Installer_proofs!ReportsTruthfully`, `MountsReleased` | `[]ReportedIsCommitted`, `[]ReleasesWhatItMounts` | `InstallInv` follows each installation: not yet begun, in progress with its image as its step says, or over. A flag that is set during one means that it is among the stopped, and a commit that was let through before is executed and reported (`Committing`). `HiveInv` is the same for the hive |
| `Installer_proofs!BootEntrySafe` | `[]BootEntryHasItsFiles` | `NextBoot`: every volume only gains files, and the entry is written after a complete copy to the one `X:` names (`BootloaderCopied`) |
| `Installer_proofs!CancelStopsCommands`, `BrokenCopyStays` | `[]AtMostOneAfterCancel`, `BrokenCopyIsFinal` | `LateInv`: while a command is let through none has been executed late, and with the flag set the test lets no other through; the one step that writes the entry needs a copy that does not throw |
| `InitScript_proofs!TypeCorrect` | `[]TypeOK` | `LineInv` ties the place in a command to a line that leads there |
| `InitScript_proofs!SuspendedIsReported` | `[]SuspendedEndsItsRun` | `SuspendedInv`: runs are numbered in order, and a suspended process of the latest run is either the last, about to be resumed, or the run is over |
| `InitScript_proofs!EffectsAreThoseOfThePrefix` | `[]EffectsOfPrefix` | `KeysOfPrefix`: only the line that has just been done can be the last to set its key. `ProcessInv`: between commands this run has as many processes as its prefix has `spawn` lines, one more while a process waits to be resumed; a number behind all others of a set has the next rank in it and leaves their ranks alone (`RankOfNew`) |
| `PlatformBuild_proofs!TypeCorrect` | `[]TypeOK` | `ImagesTyped`: an image is captured under the name it was extracted from, and holds no other names than its directory could |
| `PlatformBuild_proofs!FinishedIsAsAsked` | `[]FinishedHoldsRequest` | `BuildInv` follows the build: each step's effect, but for what is `missed`, is there until its image is captured, and in the captured image until the ISO is written. Nothing is said of the directories when a build begins, so whatever earlier builds left cannot break it |
| `PlatformBuild_proofs!MadeOfTheGivenIso` | `[]BuiltFromGivenIso` | `GivenInv` follows the files a build neither removes nor replaces (`KeptOf`) from the first image of each WIM through the unpacked one into the captured one |
| `PlatformBuild_proofs!RetriesLeaveNoTrace` | `[]RetryIsClean` | `PastOK`: as long as all builds were asked for the same, what is left in the directories has no names but those the request gives or adds. `NowOK`: how near each step has brought the images to those of a new work directory. With both, each capture is exact |

**One caller, one creator, one format.** Three groups of theorems have a hypothesis
that the run on the same module meets, and without which the property is false: two
callers of the kernel can claim the same slot or end the same process twice, two
creating threads can take the same free entry of the handle table, and a read of the
kernel's format takes the front of a sandbox message. The hazards name the lines.
`OneCaller` leaves all workers running beside the caller, `OneCreator` any number of
threads that use and close handles beside the creator.

**`CoreInv`.** A slot the host was given has all three handles of its own process
or, when it is not running, none (that they still refer to the process's objects is
said only while no guest has closed a handle of the kernel's: `ChildOpen`,
`ReadOpen`, `WriteOpen`); a slot that says it runs was given to the host. A creation
and a termination own what is between: `CreateOK` and `EndOK` say which of a slot's
handles are open at each of their steps. `NoHandleLeak` is part of the induction,
because a value that Windows gives out again must not be one that a table entry
still has: what a step closes is its own. A shutdown goes through the slots in order
(`ShutdownOK`: those behind it have no signature), so that a kernel that is down has
no slot in use (`DownOK`) and a restart with dead locks (`LocksOK`) meets nobody who
would enter one.

**The refinement.** The processes of `ProcessSet` are the ids of the slots given to
the host, its flag whether a creation has an id and no verdict yet. Each action of
the table is one of the set or leaves it alone (`TableStutters`, `BumpTakesId`,
`FailGivesUp`, `FinishGivesLife`, `FreeKills`): freeing a slot is the death of a
process only if the host had it, and it takes one id out of the set because ids are
distinct.

**`TableInv` of the handle table.** It is said until a clash. The guest's handles,
handle 0 aside, those on their way through `NtClose` and the one a creation has just
written are all different, are of different objects, and each has an entry with the
Win32 value of its object. The counter is above all of them and has not wrapped
(`MaxObjects`), so the next handle is new.

`FinishedIsAsAsked` alone assumes `TornIsNoFunction`: the mark of a torn file is not
a directory. It is an assumption of the theorem and not of the module because TLC
cannot evaluate it (the mark is a model value).

Every invariant and action property of the passing runs is stated by one of these
theorems, with the hypotheses and history variables named here. Only model-checked:
liveness (`WorkersDrain`, `CreateReturns`, `ServedInTheEnd`), which needs `ENABLED`
and is out of the prover's reach, and the three violations of section 6.

## 6. What the checks found

Three properties that the repository's comments state are violated by the code; each
has a run:

1. `kernel.c:58`, `:149`, `:158`: the worker tests `State` before its creator sets
   it, and the process runs with nobody to serve it.
2. `kernel.c:70`: the answer goes into the pipe the worker itself reads, and the
   system call is executed again.
3. `registry/mod.rs:114`: each modification overwrites the file of the one before.

Facts met while modelling, recorded as hazards or here only:

- Kernel: a guest's `CLOSE_HANDLE` closes any handle of the daemon, those in the
  process table included (`kernel.c:279`); a shutdown closes the stale values a
  failed creation left (`kernel.c:104`, `:162`), which may be another process's by
  then; children inherit the pipe ends of every process created before them, so a
  worker may wait for the end of children the kernel has forgotten; a restart zeroes
  the thread table under its threads.
- Host: a stop clears the addresses (`apibridge.c:57`), while
  `tests/simple_test.c:43-50` stops the host, resolves `CreateFileA` and requires an
  address: the code fails that test of its own. No run is spent on it; the trace is
  a start and a stop. A start zeroes the registry and not its count, and a look-up
  that had an answer reads through NULL from then on (`kernel.c:85`, `:366`);
  `ExitProcess` and the `Nt*` names are resolved and never forwarded; hot patches
  are stored and never read; `simple_test.c:67` resolves `NtClose` in the
  undocumented layer, whose table has no such name (`undocumented.h:50`), so that
  the test fails and `NTOS2NDCallHostSyscall` never succeeds; a module that is to be
  loaded "temporarily" (`undocumented.c:145`) stays loaded.
- System calls: `NtTerminateProcess` takes a Win32 handle for a pointer; handle 0 is
  returned with success by a full table and "valid" while an entry is free; an entry
  is free before its pointer is cleared (`syscall.c:90`); five of sixteen arguments
  travel in a message; the wrappers of `NTCall.c` pass `SYSCALL_*` numbers (0, 16,
  25, 40, 42) to a handler that knows 1 to 5, so each of them answers "not
  implemented", although `ntos2nd/README.md:152` lists the call; the sandbox's
  worker never asks the filter that `ntos2nd/README.md:174` lists.
- Installer: `X:` is never assigned (`DriverInjector.cpp:123-127`), so the
  bootloader goes to whatever volume has the letter, and the letter is taken from
  it; the image of a cancelled installation stays mounted, because the command that
  would unmount it is refused (`DeploymentEngine.cpp:101`, `:155`); a second
  `Initialize` lists the drivers twice and the injection then fails; a copy that
  broke off makes every later one throw; every value is written as `REG_SZ`,
  `REG_DWORD` ones included; values are never taken off the pending list.
- Daemon: a `setenv` is never accepted (`init.rs:61`), although
  `system/init.rc:13-14` uses it twice, and the run is reported a success; the
  arguments of a `start` or `spawn` become part of the executable's name; a registry
  value is stored with one byte for each UTF-16 unit and without a terminator
  (`registry.rs:58`).
- Builder: it never reads `programs_dir`; of each WIM it keeps the first image only;
  it passes silently over components it cannot see, and over a `programs/winui3`
  without the DLL; an ISO with an `install.esd` is built from an earlier build's
  `install.wim` when there is one, and fails otherwise; in the text interface `q`
  does not quit and nothing leads from "Building" to "Complete".

## 7. Not modelled

- The ELF loader (`winelf`): it does not compile (`loader/mod.rs:67` passes a
  read-only map where `memory.rs:48` takes a writable one, `elf/mod.rs:97` moves
  `inner` and reads it again) and `run` executes nothing. The driver stubs answer
  "not implemented".
- The installer's window, `main.cpp` and the Direct3D glue: drawing, and fields
  nothing else reads; the window calls none of the operations modelled.
- The builder's text and graphical interface: screens with one key each way.
- `NTOS2NDSandboxMemoryAccess`, a test of two arguments, and
  `NTOS2NDLoadSandboxProcess`, which changes the token of a process: state of
  Windows.
- `NtAllocateVirtualMemory`, `NtTerminateProcess` and what a forwarded call does:
  state of the machine.
- `NTMain.c` and `MSWindows.c`: the host's calls in one fixed order, and printing.
- Builder: `add_components`, `load_hive` and `export_reg_file`, which nothing calls.
- Daemon: `environment.rs`, which no accepted command reaches.
- Shell, welcome, winver, `mkpe` and build tools: event handlers, drawing and
  straight-line commands.

## 8. Plan

Done: the modules of section 2, their runs and the theorems of section 5. Left:

1. Composition of `SyscallPipe` and `HandleTable`: a request executed twice closes a
   handle twice.
2. The builder's text interface, when its screens lead to a build.
3. What the theorems need of two callers and two creators: which of their properties
   hold until the first collision, as `NativeCalls` says it with `clash`.
