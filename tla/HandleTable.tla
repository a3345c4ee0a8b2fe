---------------------------- MODULE HandleTable ----------------------------
(***************************************************************************)
(* The handle table of ntos2nd/syscall.c and the system calls that work on *)
(* it, as the threads that run NTOS2NDDispatchSyscall interleave them: the *)
(* table has no lock.  A guest holds the handles it was given, closes each *)
(* once and not while it uses it; handle 0, which a full table answers as  *)
(* a success, it uses and closes as it likes.  Win32 handle values stand   *)
(* for the file, process or thread they were last opened for ("the         *)
(* object") and are given out again once closed.                           *)
(***************************************************************************)
EXTENDS Naturals, FiniteSets

CONSTANTS
  Threads,     \* threads that dispatch system calls
  Creators,    \* those of them that make calls that create handles
  NEntries,    \* entries of g_HandleTable (8192)
  FirstHandle, \* initial g_NextHandle (0x1000)
  HandleLimit, \* 2^32
  MaxObjects,  \* bound on the objects opened in a behaviour
  Values       \* Win32 handle values; 0 is the NULL handle

ASSUME HandleTableAssumption ==
  /\ Creators \subseteq Threads
  /\ NEntries \in Nat \ {0}
  /\ FirstHandle \in Nat \ {0} /\ MaxObjects \in Nat
  /\ HandleLimit \in Nat /\ FirstHandle + MaxObjects < HandleLimit
  /\ Values \subseteq Nat \ {0}

Entries == 1..NEntries

VARIABLES
  entry,       \* g_HandleTable: Handle and Pointer of each entry
  nextHandle,  \* g_NextHandle
  object,      \* the object each Win32 value refers to, 0 when it is closed
  opened,      \* objects opened so far (bound and identity of the next)
  lost,        \* open objects of creations that got handle 0
  held,        \* what the guest was told: which handle names which object
  thread,      \* where each thread is in its system call, and its locals
  clash        \* two calls have met on one entry: see NameEntry and Meets

vars == <<entry, nextHandle, object, opened, lost, held, thread, clash>>

NoEntry == [handle |-> 0, pointer |-> 0]

\* handle, value and i are locals of the code; "of" is the object the guest
\* means, "full" whether every entry was taken when the search began.
Idle == [pc |-> "idle", call |-> "none", handle |-> 0, of |-> 0,
         value |-> 0, i |-> 0, full |-> FALSE]

At(t, step)  == thread[t].pc = step
GoTo(t, step) == thread' = [thread EXCEPT ![t].pc = step]
Return(t)    == thread' = [thread EXCEPT ![t] = Idle]

InUse(r) == r.handle # 0 /\ \E t \in Threads : thread[t].handle = r.handle

\* What the guest may pass: the handles it holds, and 0 once it was given it.
Told == held \cup {[handle |-> 0, of |-> 0] : l \in lost}

IsValidHandle(h) == \E i \in Entries : entry[i].handle = h

\* The first entry with the handle, as the loops over the table find it.
First(h) == CHOOSE i \in Entries :
  entry[i].handle = h /\ \A j \in 1..(i - 1) : entry[j].handle # h

GetHandlePointer(h) == IF IsValidHandle(h) THEN entry[First(h)].pointer ELSE 0

\* A look-up of 0 finds a free entry.  It meets a close there when the close has
\* cleared Handle and not yet Pointer.
Meets(t) == thread[t].handle = 0 /\ GetHandlePointer(0) # 0

\* A close has found entry i and has not yet cleared its Pointer.
Wiping(i) == \E t \in Threads : thread[t].pc \in {"wipe", "wipe2"} /\ thread[t].i = i

-----------------------------------------------------------------------------
(***************************************************************************)
(* NtCreateFile, NtOpenProcess and, past its look-up, NtCreateThread.      *)
(***************************************************************************)
NtCreate(t) ==
  /\ t \in Creators /\ At(t, "idle")
  /\ thread' = [thread EXCEPT ![t] = [Idle EXCEPT !.pc = "open", !.call = "create"]]
  /\ UNCHANGED <<entry, nextHandle, object, opened, lost, held, clash>>

\* CreateFileA, OpenProcess or CreateThread; when it fails its error is the
\* status of the call.
OpenObject(t) ==
  /\ At(t, "open")
  /\ \/ /\ opened < MaxObjects /\ opened' = opened + 1
        /\ \E v \in Values :
             /\ object[v] = 0
             /\ object' = [object EXCEPT ![v] = opened']
             /\ thread' = [thread EXCEPT ![t] =
                  [Idle EXCEPT !.pc = "find", !.call = "create", !.of = opened',
                               !.value = v, !.i = 1]]
     \/ Return(t) /\ UNCHANGED <<object, opened>>
  /\ UNCHANGED <<entry, nextHandle, lost, held, clash>>

\* Two mutants of FindEntry: the loop ends one entry late, or early.
FindEntryOneTooFar(t) ==
  LET i == thread[t].i
      full == IF i = 1 THEN \A j \in Entries : entry[j].handle # 0 ELSE thread[t].full
  IN
  /\ At(t, "find")
  /\ \/ entry[i].handle = 0 /\ GoTo(t, "count")
     \/ /\ entry[i].handle # 0
        /\ thread' = [thread EXCEPT ![t].i = i + 1, ![t].full = full]
  /\ UNCHANGED <<entry, nextHandle, object, opened, lost, held, clash>>

FindEntryStopsEarly(t) ==
  LET i == thread[t].i
      full == IF i = 1 THEN \A j \in Entries : entry[j].handle # 0 ELSE thread[t].full
  IN
  /\ At(t, "find")
  /\ \/ entry[i].handle = 0 /\ GoTo(t, "count") /\ UNCHANGED lost
     \/ /\ entry[i].handle # 0 /\ i < NEntries - 1
        /\ thread' = [thread EXCEPT ![t].i = i + 1, ![t].full = full]
        /\ UNCHANGED lost
     \/ /\ entry[i].handle # 0 /\ i >= NEntries - 1
        /\ lost' = lost \cup {[object |-> thread[t].of, full |-> full]}
        /\ Return(t)
  /\ UNCHANGED <<entry, nextHandle, object, opened, held, clash>>

\* One turn of the loop of NTOS2NDCreateHandle.  Past the last entry it
\* returns 0, which the system call stores and reports as a success.
FindEntry(t) ==
  LET i == thread[t].i
      full == IF i = 1 THEN \A j \in Entries : entry[j].handle # 0 ELSE thread[t].full
  IN
  /\ At(t, "find")
  /\ \/ entry[i].handle = 0 /\ GoTo(t, "count") /\ UNCHANGED lost
     \/ /\ entry[i].handle # 0 /\ i < NEntries
        /\ thread' = [thread EXCEPT ![t].i = i + 1, ![t].full = full]
        /\ UNCHANGED lost
     \/ /\ entry[i].handle # 0 /\ i = NEntries
        /\ lost' = lost \cup {[object |-> thread[t].of, full |-> full]}
        /\ Return(t)
  /\ UNCHANGED <<entry, nextHandle, object, opened, held, clash>>

\* A mutant of TakeHandle: the handle is the entry's index.
TakeHandleIndex(t) ==
  /\ At(t, "count")
  /\ thread' = [thread EXCEPT ![t].pc = "name", ![t].handle = FirstHandle + thread[t].i]
  /\ UNCHANGED <<entry, nextHandle, object, opened, lost, held, clash>>

\* NewHandle = g_NextHandle++: the read ...
TakeHandle(t) ==
  /\ At(t, "count")
  /\ thread' = [thread EXCEPT ![t].pc = "name", ![t].handle = nextHandle]
  /\ UNCHANGED <<entry, nextHandle, object, opened, lost, held, clash>>

\* A mutant of NameEntry: the counter is not written back.
NameEntryNoCount(t) ==
  /\ At(t, "name") /\ GoTo(t, "store")
  /\ entry' = [entry EXCEPT ![thread[t].i].handle = thread[t].handle]
  /\ clash' = (clash \/ Wiping(thread[t].i))
  /\ UNCHANGED <<nextHandle, object, opened, lost, held>>

\* ... and the write, and Handle, which makes the entry taken.  It clashes with a
\* close that is still clearing the entry and will clear what is stored next.
NameEntry(t) ==
  /\ At(t, "name") /\ GoTo(t, "store")
  /\ nextHandle' = (thread[t].handle + 1) % HandleLimit
  /\ entry' = [entry EXCEPT ![thread[t].i].handle = thread[t].handle]
  /\ clash' = (clash \/ Wiping(thread[t].i))
  /\ UNCHANGED <<object, opened, lost, held>>

\* Type, Pointer and Win32Handle; the call returns the handle to the guest.
StorePointer(t) ==
  /\ At(t, "store") /\ Return(t)
  /\ entry' = [entry EXCEPT ![thread[t].i].pointer = thread[t].value]
  /\ held' = held \cup {[handle |-> thread[t].handle, of |-> thread[t].of]}
  /\ UNCHANGED <<nextHandle, object, opened, lost, clash>>

-----------------------------------------------------------------------------
(***************************************************************************)
(* The calls that take a handle.                                           *)
(***************************************************************************)
Take(t, call, r, step) ==
  thread' = [thread EXCEPT ![t] = [Idle EXCEPT !.pc = step, !.call = call,
                                               !.handle = r.handle, !.of = r.of]]

\* NtReadFile, NtWriteFile, NtWaitForSingleObject ("use") and NtCreateThread
\* ("thread", with its process handle).
NtUse(t) ==
  /\ At(t, "idle")
  /\ \E r \in Told : \E call \in IF t \in Creators THEN {"use", "thread"} ELSE {"use"} :
       Take(t, call, r, "lookup")
  /\ UNCHANGED <<entry, nextHandle, object, opened, lost, held, clash>>

\* An unknown handle ends the call with an error.
LookUp(t) ==
  LET p == GetHandlePointer(thread[t].handle) IN
  /\ At(t, "lookup")
  /\ IF p = 0 THEN Return(t)
     ELSE thread' = [thread EXCEPT ![t].pc = IF thread[t].call = "thread" THEN "open" ELSE "act",
                                   ![t].value = p]
  /\ clash' = (clash \/ Meets(t))
  /\ UNCHANGED <<entry, nextHandle, object, opened, lost, held>>

\* ReadFile, WriteFile or WaitForSingleObject on the value found.
Act(t) ==
  /\ At(t, "act") /\ Return(t)
  /\ UNCHANGED <<entry, nextHandle, object, opened, lost, held, clash>>

NtClose(t) ==
  /\ At(t, "idle")
  /\ \E r \in Told :
       /\ ~InUse(r)
       /\ Take(t, "close", r, "check")
       /\ held' = held \ {r}
  /\ UNCHANGED <<entry, nextHandle, object, opened, lost, clash>>

CheckHandle(t) ==
  /\ At(t, "check")
  /\ IF IsValidHandle(thread[t].handle) THEN GoTo(t, "get") ELSE Return(t)
  /\ UNCHANGED <<entry, nextHandle, object, opened, lost, held, clash>>

GetPointer(t) ==
  /\ At(t, "get")
  /\ thread' = [thread EXCEPT ![t].pc = "close", ![t].value = GetHandlePointer(thread[t].handle)]
  /\ clash' = (clash \/ Meets(t))
  /\ UNCHANGED <<entry, nextHandle, object, opened, lost, held>>

\* A mutant of CloseWin32: the Win32 object stays open.
CloseNothing(t) ==
  /\ At(t, "close") /\ GoTo(t, "clear")
  /\ UNCHANGED <<entry, nextHandle, object, opened, lost, held, clash>>

\* CloseHandle on the Win32 value, when there is one.
CloseWin32(t) ==
  /\ At(t, "close") /\ GoTo(t, "clear")
  /\ object' = [v \in Values |-> IF v = thread[t].value THEN 0 ELSE object[v]]
  /\ UNCHANGED <<entry, nextHandle, opened, lost, held, clash>>

\* A mutant of FindToClear: the index is off by one.
FindPreviousToClear(t) ==
  LET h == thread[t].handle IN
  /\ At(t, "clear")
  /\ \/ \E i \in Entries :
          /\ entry[i].handle = h
          /\ thread' = [thread EXCEPT ![t].pc = "wipe", ![t].i = IF i > 1 THEN i - 1 ELSE 1]
     \/ ~IsValidHandle(h) /\ Return(t)
  /\ UNCHANGED <<entry, nextHandle, object, opened, lost, held, clash>>

\* The loop of NTOS2NDCloseHandle looks the handle up again ...
FindToClear(t) ==
  LET h == thread[t].handle IN
  /\ At(t, "clear")
  /\ \/ \E i \in Entries :
          /\ entry[i].handle = h
          /\ thread' = [thread EXCEPT ![t].pc = "wipe", ![t].i = i]
     \/ ~IsValidHandle(h) /\ Return(t)
  /\ UNCHANGED <<entry, nextHandle, object, opened, lost, held, clash>>

\* ... and its memset clears Handle, which frees the entry ...
WipeHandle(t) ==
  /\ At(t, "wipe") /\ GoTo(t, "wipe2")
  /\ entry' = [entry EXCEPT ![thread[t].i].handle = 0]
  /\ UNCHANGED <<nextHandle, object, opened, lost, held, clash>>

\* ... and then Pointer.
WipePointer(t) ==
  /\ At(t, "wipe2") /\ Return(t)
  /\ entry' = [entry EXCEPT ![thread[t].i].pointer = 0]
  /\ UNCHANGED <<nextHandle, object, opened, lost, held, clash>>

-----------------------------------------------------------------------------
Init ==
  /\ entry = [i \in Entries |-> NoEntry]
  /\ nextHandle = FirstHandle
  /\ object = [v \in Values |-> 0]
  /\ opened = 0 /\ lost = {} /\ held = {}
  /\ thread = [t \in Threads |-> Idle] /\ clash = FALSE

\* The system calls of NTOS2NDDispatchSyscall that use the table.
Dispatch(t) == NtCreate(t) \/ NtUse(t) \/ NtClose(t)

Continue(t) ==
  \/ OpenObject(t) \/ FindEntry(t) \/ TakeHandle(t) \/ NameEntry(t) \/ StorePointer(t)
  \/ LookUp(t) \/ Act(t)
  \/ CheckHandle(t) \/ GetPointer(t) \/ CloseWin32(t)
  \/ FindToClear(t) \/ WipeHandle(t) \/ WipePointer(t)

Next == \E t \in Threads : Dispatch(t) \/ Continue(t)

Spec == Init /\ [][Next]_vars

-----------------------------------------------------------------------------
ThreadState ==
  [pc : {"idle", "open", "find", "count", "name", "store", "lookup", "act",
         "check", "get", "close", "clear", "wipe", "wipe2"},
   call : {"none", "create", "use", "thread", "close"}, handle : Nat, of : Nat,
   value : Values \cup {0}, i : Entries \cup {0}, full : BOOLEAN]

\* The table, the counter and the calls in progress have their types.
TypeOK ==
  /\ entry \in [Entries -> [handle : Nat, pointer : Values \cup {0}]]
  /\ nextHandle \in Nat /\ opened \in Nat
  /\ object \in [Values -> Nat]
  /\ lost \subseteq [object : Nat, full : BOOLEAN]
  /\ held \subseteq [handle : Nat, of : Nat]
  /\ thread \in [Threads -> ThreadState] /\ clash \in BOOLEAN

\* A system call works on the object its guest opened under that handle, and
\* NtClose closes that one: never an object that another call has since
\* opened under the same Win32 value, though the call looks the handle up
\* several times and holds no lock.  A call with handle 0 closes nothing.
\* It goes wrong only after two calls have met on one entry: a creation took
\* an entry that NTOS2NDCloseHandle was still clearing, or handle 0 found it.
ActsOnItsObject ==
  ~clash => \A t \in Threads : thread[t].pc \in {"act", "close"} =>
    IF thread[t].handle = 0 THEN thread[t].value = 0
    ELSE thread[t].value # 0 /\ object[thread[t].value] = thread[t].of

\* Until two calls meet like that, a handle of the guest stays valid until the
\* guest closes it, whatever the other threads open and close, also when they
\* close the handle 0 of a full table, which names any free entry.
HeldHandleValid ==
  ~clash => \A r \in held :
    LET p == GetHandlePointer(r.handle) IN p # 0 /\ object[p] = r.of

\* Until two calls meet like that, no object is left open without a handle that
\* names it, other than those of the creations that were given handle 0.
NoObjectForgotten ==
  ~clash => \A v \in Values : object[v] # 0 =>
    \/ \E i \in Entries : entry[i].handle # 0 /\ entry[i].pointer = v
    \/ \E t \in Threads : thread[t].pc \in {"find", "count", "name", "store"} /\ thread[t].value = v
    \/ \E l \in lost : l.object = object[v]

\* A creation loses its object only if at some moment of its search every
\* entry was taken, also when other threads close handles behind it.
LostOnlyWhenFull == \A l \in lost : l.full

\* A handle that was closed never becomes valid again.
NeverReissued ==
  [][\A i \in Entries : entry'[i].handle # entry[i].handle /\ entry'[i].handle # 0
       => entry'[i].handle >= nextHandle]_vars
=============================================================================
