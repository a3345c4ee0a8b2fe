------------------------ MODULE ProcessTable_proofs ------------------------
(***************************************************************************)
(* What holds of the process table for every number of callers, slots,     *)
(* processes and handle values, and for every policy by which Windows      *)
(* gives handle values out again: types, the kernel's lock and process ids *)
(* for any number of callers; for one caller also who owns the handles     *)
(* while no guest closes them, that the kernel forgets none, whatever the  *)
(* guests do, that no dead lock is entered, and that the table implements  *)
(* ProcessSet.                                                             *)
(***************************************************************************)
EXTENDS ProcessTable, TLAPS

\* A caller that is past the choice of its slot has one (NTOS2NDCreateProcess
\* after FindFreeProcessSlot, NTOS2NDTerminateProcess after its check), and so
\* has a worker that was started.
SlotHeld ==
  /\ \A c \in Callers : caller[c].pc \notin {"idle", "next"} => caller[c].slot \in Slots
  /\ \A w \in Pids : worker[w].pc # "none" => worker[w].slot \in Slots

TypeInv == TypeOK /\ SlotHeld

\* What the children and their calls change is seen variable by variable.
USE DEF guests

\* Values given out again are handle values.
LEMMA RecycledHandles ==
  ASSUME NEW free \in SUBSET Handles
  PROVE  Recycle[free] \subseteq Handles
<1>1. Recycle[free] \subseteq free
  BY ProcessTableAssumption, Zenon
<1> QED
  BY <1>1

\* A caller's record keeps its type when its program counter moves, and when
\* its call returns.
LEMMA CallerMoves ==
  ASSUME caller \in [Callers -> CallerState], NEW c \in Callers,
         \/ \E step \in {"idle", "next"} \cup CreateSteps \cup TermSteps : GoTo(c, step)
         \/ Return(c)
  PROVE  caller' \in [Callers -> CallerState]
<1>1. Idle \in CallerState
  BY ProcessTableAssumption DEF Idle, CallerState
<1> QED
  BY <1>1 DEF GoTo, Return, CallerState

\* Closing handles leaves every value with a legal object.
LEMMA ClosedTypes ==
  ASSUME object \in [Handles -> Object \cup {NoObject}], NEW hs
  PROVE  Closed(hs) \in [Handles -> Object \cup {NoObject}]
  BY DEF Closed

\* So is an entry with one field changed, or two.
LEMMA EntryWrites ==
  ASSUME table \in [Slots -> Entry], NEW s \in Slots,
         NEW l \in Callers \cup {NoCaller, "dead"}, NEW h \in Handles \cup {NoHandle},
         NEW g \in Handles \cup {NoHandle}
  PROVE  /\ [table EXCEPT ![s].state = "Created", ![s].lock = l] \in [Slots -> Entry]
         /\ [table EXCEPT ![s].state = "Terminated", ![s].lock = l] \in [Slots -> Entry]
         /\ [table EXCEPT ![s].lock = l, ![s].signature = FALSE] \in [Slots -> Entry]
         /\ [table EXCEPT ![s].lock = l, ![s].process = h] \in [Slots -> Entry]
         /\ [table EXCEPT ![s].read = h, ![s].write = g] \in [Slots -> Entry]
         /\ [table EXCEPT ![s].read = h] \in [Slots -> Entry]
         /\ [table EXCEPT ![s].write = h] \in [Slots -> Entry]
<1>1. /\ [table[s] EXCEPT !.state = "Created"] \in Entry
      /\ [table[s] EXCEPT !.state = "Terminated"] \in Entry
      /\ [table[s] EXCEPT !.lock = l] \in Entry
      /\ [table[s] EXCEPT !.read = h] \in Entry
      /\ [table[s] EXCEPT !.write = h] \in Entry
  BY DEF Entry
<1>2. [[table[s] EXCEPT !.state = "Created"] EXCEPT !.lock = l] \in Entry
  BY <1>1 DEF Entry
<1>3. [[table[s] EXCEPT !.state = "Terminated"] EXCEPT !.lock = l] \in Entry
  BY <1>1 DEF Entry
<1>4. [[table[s] EXCEPT !.lock = l] EXCEPT !.signature = FALSE] \in Entry
  BY <1>1 DEF Entry
<1>5. [[table[s] EXCEPT !.lock = l] EXCEPT !.process = h] \in Entry
  BY <1>1 DEF Entry
<1>6. [[table[s] EXCEPT !.read = h] EXCEPT !.write = g] \in Entry
  BY <1>1 DEF Entry
<1> DEFINE Put(e) == [table EXCEPT ![s] = e]
<1>7. /\ Put([[table[s] EXCEPT !.state = "Created"] EXCEPT !.lock = l]) \in [Slots -> Entry]
      /\ Put([[table[s] EXCEPT !.state = "Terminated"] EXCEPT !.lock = l]) \in [Slots -> Entry]
      /\ Put([[table[s] EXCEPT !.lock = l] EXCEPT !.signature = FALSE]) \in [Slots -> Entry]
      /\ Put([[table[s] EXCEPT !.lock = l] EXCEPT !.process = h]) \in [Slots -> Entry]
      /\ Put([[table[s] EXCEPT !.read = h] EXCEPT !.write = g]) \in [Slots -> Entry]
      /\ Put([table[s] EXCEPT !.read = h]) \in [Slots -> Entry]
      /\ Put([table[s] EXCEPT !.write = h]) \in [Slots -> Entry]
  BY <1>1, <1>2, <1>3, <1>4, <1>5, <1>6
<1> QED
  BY <1>7

\* The pipe a worker comes to wait on has a number.
LEMMA PipeNumber ==
  ASSUME TypeOK, NEW h \in Handles \cup {NoHandle}
  PROVE  ObjectOf(h).of \in Nat
<1>1. CASE h = NoHandle
  BY <1>1 DEF ObjectOf, NoObject
<1>2. CASE h # NoHandle
  <2>1. object[h] \in Object \cup {NoObject}
    BY <1>2 DEF TypeOK
  <2> QED
    BY <1>2, <2>1 DEF ObjectOf, NoObject, Object
<1> QED
  BY <1>1, <1>2

\* Where a worker can be once it is started, and a step to there.
Places == {"check", "read", "wait", "reading", "writing", "respond", "answering", "done"}

WorkerGoes(w) == \E step \in Places : \E pipe \in Nat : WorkerGoTo(w, step, pipe)

\* What a worker's step that is no guest's call leaves alone.
Quiet == UNCHANGED <<initialized, boots, kernelLock, nextPid, table, published, object,
                     caller, guests>>

\* A worker moves from place to place, and only its guest's calls touch more.
LEMMA WorkerSteps ==
  ASSUME TypeOK, SlotHeld, NEW w \in Pids, Work(w) \/ Receive(w)
  PROVE  /\ worker[w].pc # "none" /\ WorkerGoes(w)
         /\ Quiet \/ GuestOpens(w) \/ GuestCloses(w)
<1>1. worker[w].pc # "none"
  BY DEF Work, Receive, WorkerAt, WorkerCheck, WorkerRead, WorkerRespond, WorkerBrokenPipe,
     WorkerNoReader, WorkerShortRead, WorkerServe, GuestOpens, GuestCloses, WorkerServed
<1>2. table[worker[w].slot] \in Entry
  BY <1>1 DEF SlotHeld, TypeOK
<1>3. /\ ObjectOf(table[worker[w].slot].read).of \in Nat
      /\ ObjectOf(table[worker[w].slot].write).of \in Nat
  <2>1. /\ table[worker[w].slot].read \in Handles \cup {NoHandle}
        /\ table[worker[w].slot].write \in Handles \cup {NoHandle}
    BY <1>2 DEF Entry
  <2> QED
    BY <2>1, PipeNumber, Zenon
<1>4. \A h \in Handles : object[h].of \in Nat
  BY DEF TypeOK, Object, NoObject
<1>5. ASSUME NEW step \in Places, NEW pipe \in Nat, WorkerMove(w, step, pipe)
      PROVE  WorkerGoes(w) /\ Quiet
  BY <1>5 DEF WorkerMove, WorkerGoes, Quiet
<1> HIDE DEF guests
<1>6. ASSUME Respond(w) PROVE WorkerGoes(w) /\ Quiet
  BY <1>3, <1>5, <1>6, Zenon DEF Respond, Places
<1>7. CASE WorkerCheck(w)
  BY <1>1, <1>5, <1>7 DEF WorkerCheck, Places
<1>8. CASE WorkerRead(w)
  BY <1>1, <1>3, <1>5, <1>8 DEF WorkerRead, Places
<1>9. CASE WorkerRespond(w) \/ WorkerBrokenPipe(w) \/ WorkerNoReader(w) \/ WorkerServed(w)
  BY <1>1, <1>5, <1>6, <1>9
     DEF WorkerRespond, WorkerBrokenPipe, WorkerNoReader, WorkerServed, Places
<1>10. CASE WorkerShortRead(w)
  BY <1>1, <1>5, <1>10 DEF WorkerShortRead, Places
<1>11. CASE WorkerServe(w)
  BY <1>1, <1>4, <1>5, <1>6, <1>11 DEF WorkerServe, Places
<1>12. CASE GuestOpens(w) \/ GuestCloses(w)
  BY <1>1, <1>12 DEF GuestOpens, GuestCloses, WorkerGoes, Places
<1> QED
  BY <1>7, <1>8, <1>9, <1>10, <1>11, <1>12 DEF Work, Receive

\* Every step keeps the types.
LEMMA TypeStep == TypeOK /\ SlotHeld /\ [Next]_vars => TypeOK'
<1> SUFFICES ASSUME TypeOK, SlotHeld, [Next]_vars PROVE TypeOK'
  OBVIOUS
<1> USE ProcessTableAssumption DEF TypeOK
<1>steps. CreateSteps \cup TermSteps = {"claim", "enter", "bump", "pipe", "spawn", "run",
                                        "process", "read", "write", "mark", "free"}
  BY DEF CreateSteps, TermSteps
<1>held. \A c \in Callers : caller[c].pc \notin {"idle", "next"} => caller[c].slot \in Slots
  BY DEF SlotHeld
<1>1. ASSUME NEW c \in Callers, NEW kind \in {"sandboxed", "plain"}, FindFreeProcessSlot(c, kind) PROVE TypeOK'
  <2>1. caller' \in [Callers -> CallerState]
    BY <1>1, <1>steps DEF FindFreeProcessSlot, CallerState, Slots
  <2> QED
    BY <1>1, <2>1 DEF FindFreeProcessSlot
<1>2. ASSUME NEW c \in Callers, TerminateProcess(c) PROVE TypeOK'
  <2>1. caller' \in [Callers -> CallerState]
    BY <1>2 DEF TerminateProcess, TermSteps, CallerState, Slots
  <2> QED
    BY <1>2, <2>1 DEF TerminateProcess
<1>3. ASSUME NEW c \in Callers, InitializeKernel(c) PROVE TypeOK'
  <2>1. table' \in [Slots -> Entry]
    BY <1>3 DEF InitializeKernel, NoEntry, Entry
  <2> QED
    BY <1>3, <2>1 DEF InitializeKernel
<1>4. ASSUME NEW c \in Callers, ShutdownKernel(c) PROVE TypeOK'
  <2>1. caller' \in [Callers -> CallerState]
    BY <1>4 DEF ShutdownKernel, CallerState, Slots
  <2> QED
    BY <1>4, <2>1 DEF ShutdownKernel
<1>5. ASSUME NEW c \in Callers, ClaimSlot(c) PROVE TypeOK'
  <2>1. caller' \in [Callers -> CallerState]
    BY <1>5, CallerMoves, <1>steps DEF ClaimSlot
  <2>2. table' \in [Slots -> Entry]
    BY <1>5, <1>held DEF ClaimSlot, At, Entry, NoEntry
  <2> QED
    BY <1>5, <2>1, <2>2 DEF ClaimSlot
<1>6. ASSUME NEW c \in Callers, EnterKernel(c) PROVE TypeOK'
  <2>1. caller' \in [Callers -> CallerState]
    BY <1>6, CallerMoves, <1>steps DEF EnterKernel
  <2>2. table' \in [Slots -> Entry]
    BY <1>6, <1>held DEF EnterKernel, At, Entry
  <2> QED
    BY <1>6, <2>1, <2>2 DEF EnterKernel
<1>7. ASSUME NEW c \in Callers, BumpProcessId(c) PROVE TypeOK'
  <2>1. caller' \in [Callers -> CallerState]
    BY <1>7, CallerMoves, <1>steps DEF BumpProcessId
  <2>2. table' \in [Slots -> Entry]
    BY <1>7, <1>held, EntryWrites, ZenonT(40) DEF BumpProcessId, At
  <2> QED
    BY <1>7, <2>1, <2>2 DEF BumpProcessId
<1>8. ASSUME NEW c \in Callers, MakePipe(c) PROVE TypeOK'
  <2>1. PICK r \in Handles, w \in Handles :
           /\ table' = [table EXCEPT ![caller[c].slot].read = r, ![caller[c].slot].write = w]
           /\ object' = [object EXCEPT ![r] = [kind |-> "read",  of |-> IssuedPid],
                                       ![w] = [kind |-> "write", of |-> IssuedPid]]
    <3>1. FreeHandles \in SUBSET Handles /\ \A r : FreeHandles \ {r} \in SUBSET Handles
      BY DEF FreeHandles
    <3> HIDE DEF FreeHandles
    <3>2. /\ Recycle[FreeHandles] \subseteq Handles
          /\ \A r : Recycle[FreeHandles \ {r}] \subseteq Handles
      BY <3>1, RecycledHandles, Zenon
    <3> QED
      BY <1>8, <3>2 DEF MakePipe
  <2>2. table' \in [Slots -> Entry]
    BY <2>1, EntryWrites, <1>8, <1>held, ZenonT(40) DEF MakePipe, At
  <2>3. /\ [kind |-> "read",  of |-> IssuedPid] \in Object
        /\ [kind |-> "write", of |-> IssuedPid] \in Object
    BY DEF IssuedPid, Object
  <2>4. object' \in [Handles -> Object \cup {NoObject}]
    BY <2>1, <2>3
  <2>5. caller' \in [Callers -> CallerState]
    BY <1>8, CallerMoves, <1>steps DEF MakePipe
  <2> QED
    BY <1>8, <2>2, <2>4, <2>5 DEF MakePipe
<1>9. ASSUME NEW c \in Callers, SpawnChild(c) PROVE TypeOK'
  <2>1. PICK h \in Handles :
           /\ table' = [table EXCEPT ![caller[c].slot].process = h]
           /\ object' = [object EXCEPT ![h] = [kind |-> "process", of |-> IssuedPid]]
    <3>1. FreeHandles \in SUBSET Handles
      BY DEF FreeHandles
    <3> HIDE DEF FreeHandles
    <3>2. Recycle[FreeHandles] \subseteq Handles
      BY <3>1, RecycledHandles, Zenon
    <3> QED
      BY <1>9, <3>2 DEF SpawnChild
  <2>2. table' \in [Slots -> Entry]
    BY <2>1, <1>9, <1>held, SMTT(30) DEF SpawnChild, At, Entry
  <2>3. [kind |-> "process", of |-> IssuedPid] \in Object
    BY DEF IssuedPid, Object
  <2>4. object' \in [Handles -> Object \cup {NoObject}]
    BY <2>1, <2>3
  <2>5. caller' \in [Callers -> CallerState]
    BY <1>9, CallerMoves, <1>steps DEF SpawnChild
  <2>6. worker' \in [Pids -> WorkerState]
    BY <1>9 DEF SpawnChild, WorkerState, CallerState
  <2>7. child' \in [Pids -> SUBSET End]
    BY <1>9 DEF SpawnChild, HostEnds
  <2> QED
    BY <1>9, <2>2, <2>4, <2>5, <2>6, <2>7 DEF SpawnChild
<1>10. ASSUME NEW c \in Callers, FinishCreate(c) PROVE TypeOK'
  <2>1. caller' \in [Callers -> CallerState]
    BY <1>10, CallerMoves, <1>steps DEF FinishCreate
  <2>2. table' \in [Slots -> Entry]
    BY <1>10, <1>held DEF FinishCreate, At, Entry
  <2>3. published' \subseteq Slots
    BY <1>10 DEF FinishCreate, SlotHeld, At
  <2> QED
    BY <1>10, <2>1, <2>2, <2>3 DEF FinishCreate
<1>11. ASSUME NEW c \in Callers, CreateFails(c) PROVE TypeOK'
  <2>1. caller' \in [Callers -> CallerState]
    BY <1>11, CallerMoves DEF CreateFails
  <2>2. object' \in [Handles -> Object \cup {NoObject}]
    BY <1>11, ClosedTypes DEF CreateFails
  <2> QED
    BY <1>11, <2>1, <2>2 DEF CreateFails
<1>12. ASSUME NEW c \in Callers, CloseProcess(c) PROVE TypeOK'
  <2>1. caller' \in [Callers -> CallerState]
    BY <1>12, CallerMoves, <1>steps DEF CloseProcess
  <2>2. table' \in [Slots -> Entry]
    BY <1>12, <1>held, EntryWrites DEF CloseProcess, At
  <2>3. object' \in [Handles -> Object \cup {NoObject}]
    BY <1>12, ClosedTypes DEF CloseProcess
  <2>4. child' \in [Pids -> SUBSET End]
    BY <1>12 DEF CloseProcess
  <2> QED
    BY <1>12, <2>1, <2>2, <2>3, <2>4 DEF CloseProcess
<1>13. ASSUME NEW c \in Callers, ClosePipeRead(c) PROVE TypeOK'
  <2>1. caller' \in [Callers -> CallerState]
    BY <1>13, CallerMoves, <1>steps DEF ClosePipeRead
  <2>2. table' \in [Slots -> Entry]
    BY <1>13, <1>held, EntryWrites DEF ClosePipeRead, At
  <2>3. object' \in [Handles -> Object \cup {NoObject}]
    BY <1>13, ClosedTypes DEF ClosePipeRead
  <2> QED
    BY <1>13, <2>1, <2>2, <2>3 DEF ClosePipeRead
<1>14. ASSUME NEW c \in Callers, ClosePipeWrite(c) PROVE TypeOK'
  <2>1. caller' \in [Callers -> CallerState]
    BY <1>14, CallerMoves, <1>steps DEF ClosePipeWrite
  <2>2. table' \in [Slots -> Entry]
    BY <1>14, <1>held, EntryWrites DEF ClosePipeWrite, At
  <2>3. object' \in [Handles -> Object \cup {NoObject}]
    BY <1>14, ClosedTypes DEF ClosePipeWrite
  <2> QED
    BY <1>14, <2>1, <2>2, <2>3 DEF ClosePipeWrite
<1>15. ASSUME NEW c \in Callers, MarkTerminated(c) PROVE TypeOK'
  <2>1. caller' \in [Callers -> CallerState]
    BY <1>15, CallerMoves, <1>steps DEF MarkTerminated
  <2>2. table' \in [Slots -> Entry]
    BY <1>15, <1>held, EntryWrites, ZenonT(40) DEF MarkTerminated, At
  <2> QED
    BY <1>15, <2>1, <2>2 DEF MarkTerminated
<1>16. ASSUME NEW c \in Callers, FreeSlot(c) PROVE TypeOK'
  <2>1. caller' \in [Callers -> CallerState]
    BY <1>16, CallerMoves, <1>steps DEF FreeSlot
  <2>2. table' \in [Slots -> Entry]
    BY <1>16, <1>held, EntryWrites, ZenonT(40) DEF FreeSlot, At
  <2> QED
    BY <1>16, <2>1, <2>2 DEF FreeSlot
<1>17. ASSUME NEW c \in Callers, ShutdownNext(c) PROVE TypeOK'
  <2>1. caller' \in [Callers -> CallerState]
    BY <1>17 DEF ShutdownNext, Remaining, TermSteps, CallerState, Slots
  <2> QED
    BY <1>17, <2>1 DEF ShutdownNext
<1>18. ASSUME NEW c \in Callers, ShutdownDone(c) PROVE TypeOK'
  <2>1. caller' \in [Callers -> CallerState]
    BY <1>18, CallerMoves DEF ShutdownDone
  <2> QED
    BY <1>18, <2>1 DEF ShutdownDone
<1>19. ASSUME NEW w \in Pids, Work(w) \/ Receive(w) PROVE TypeOK'
  <2> HIDE DEF TypeOK
  <2>0. worker[w].pc # "none" /\ WorkerGoes(w) /\ (Quiet \/ GuestOpens(w) \/ GuestCloses(w))
    BY <1>19, WorkerSteps
  <2> USE DEF TypeOK
  <2>1. worker' \in [Pids -> WorkerState]
    BY <2>0 DEF WorkerGoes, WorkerGoTo, Places, WorkerState
  <2>2. CASE Quiet
    BY <2>1, <2>2 DEF Quiet
  <2>3. CASE GuestOpens(w)
    <3>1. PICK h \in Recycle[FreeHandles], q \in Pids \cup {0} :
             object' = [object EXCEPT ![h] = [kind |-> "guest", of |-> q]]
      BY <2>3 DEF GuestOpens
    <3>2. [kind |-> "guest", of |-> q] \in Object
      BY DEF Pids, Object
    <3>3. object' \in [Handles -> Object \cup {NoObject}]
      BY <3>1, <3>2
    <3>4. served' \in 0..MaxGuest
      BY <2>3 DEF GuestOpens
    <3> QED
      BY <2>1, <2>3, <3>3, <3>4 DEF GuestOpens
  <2>4. CASE GuestCloses(w)
    <3>1. PICK h \in Handles : /\ object' = Closed({h})
                              /\ robbed' = (robbed \/ object[h].kind \in Kernels)
      BY <2>4 DEF GuestCloses
    <3>2. object' \in [Handles -> Object \cup {NoObject}]
      BY <3>1, ClosedTypes
    <3>3. robbed' \in BOOLEAN
      BY <3>1
    <3>4. served' \in 0..MaxGuest
      BY <2>4 DEF GuestCloses
    <3> QED
      BY <2>1, <2>4, <3>2, <3>3, <3>4 DEF GuestCloses
  <2> QED
    BY <2>0, <2>2, <2>3, <2>4
<1>20. ASSUME NEW q \in Pids, ChildEnds(q) PROVE TypeOK'
  BY <1>20 DEF ChildEnds
<1>24. CASE UNCHANGED vars
  BY <1>24 DEF vars
<1> HIDE DEF TypeOK
<1> QED
  BY <1>1, <1>2, <1>3, <1>4, <1>5, <1>6, <1>7, <1>8, <1>9, <1>10, <1>11,
     <1>12, <1>13, <1>14, <1>15, <1>16, <1>17, <1>18, <1>19, <1>20, <1>24
     DEF Next, Begin, Continue

\* A caller takes its slot when it leaves "idle" or "next" and keeps it.
LEMMA SlotStep == TypeOK /\ SlotHeld /\ [Next]_vars => SlotHeld'
<1> SUFFICES ASSUME caller \in [Callers -> CallerState], worker \in [Pids -> WorkerState],
                    published \subseteq Slots, SlotHeld, TypeOK, [Next]_vars
             PROVE SlotHeld'
  BY DEF TypeOK
<1> USE DEF SlotHeld, CallerState, WorkerState, At, GoTo, Return, Idle
<1>1. ASSUME NEW c \in Callers, NEW kind \in {"sandboxed", "plain"}, FindFreeProcessSlot(c, kind)
      PROVE  SlotHeld'
  BY <1>1 DEF FindFreeProcessSlot
<1>2. ASSUME NEW c \in Callers, TerminateProcess(c) PROVE SlotHeld'
  BY <1>2 DEF TerminateProcess
<1>3. ASSUME NEW c \in Callers, InitializeKernel(c) PROVE SlotHeld'
  BY <1>3 DEF InitializeKernel
<1>4. ASSUME NEW c \in Callers, ShutdownKernel(c) PROVE SlotHeld'
  BY <1>4 DEF ShutdownKernel
<1>5. ASSUME NEW c \in Callers, ClaimSlot(c) PROVE SlotHeld'
  BY <1>5 DEF ClaimSlot
<1>6. ASSUME NEW c \in Callers, EnterKernel(c) PROVE SlotHeld'
  BY <1>6 DEF EnterKernel
<1>7. ASSUME NEW c \in Callers, BumpProcessId(c) PROVE SlotHeld'
  BY <1>7 DEF BumpProcessId
<1>8. ASSUME NEW c \in Callers, MakePipe(c) PROVE SlotHeld'
  BY <1>8 DEF MakePipe
<1>9. ASSUME NEW c \in Callers, SpawnChild(c) PROVE SlotHeld'
  BY <1>9 DEF SpawnChild
<1>10. ASSUME NEW c \in Callers, FinishCreate(c) PROVE SlotHeld'
  BY <1>10 DEF FinishCreate
<1>11. ASSUME NEW c \in Callers, CreateFails(c) PROVE SlotHeld'
  BY <1>11 DEF CreateFails
<1>12. ASSUME NEW c \in Callers, CloseProcess(c) PROVE SlotHeld'
  BY <1>12 DEF CloseProcess
<1>13. ASSUME NEW c \in Callers, ClosePipeRead(c) PROVE SlotHeld'
  BY <1>13 DEF ClosePipeRead
<1>14. ASSUME NEW c \in Callers, ClosePipeWrite(c) PROVE SlotHeld'
  BY <1>14 DEF ClosePipeWrite
<1>15. ASSUME NEW c \in Callers, MarkTerminated(c) PROVE SlotHeld'
  BY <1>15 DEF MarkTerminated
<1>16. ASSUME NEW c \in Callers, FreeSlot(c) PROVE SlotHeld'
  BY <1>16 DEF FreeSlot
<1>17. ASSUME NEW c \in Callers, ShutdownNext(c) PROVE SlotHeld'
  BY <1>17 DEF ShutdownNext, Remaining
<1>18. ASSUME NEW c \in Callers, ShutdownDone(c) PROVE SlotHeld'
  BY <1>18 DEF ShutdownDone
<1>19. ASSUME NEW w \in Pids, Work(w) \/ Receive(w) PROVE SlotHeld'
  <2>1. worker[w].pc # "none" /\ WorkerGoes(w) /\ (Quiet \/ GuestOpens(w) \/ GuestCloses(w))
    BY <1>19, WorkerSteps
  <2>2. caller' = caller
    BY <2>1 DEF Quiet, GuestOpens, GuestCloses
  <2>3. worker'[w].slot = worker[w].slot /\ \A v \in Pids \ {w} : worker'[v] = worker[v]
    BY <2>1 DEF WorkerGoes, WorkerGoTo
  <2> QED
    BY <2>1, <2>2, <2>3
<1>20. CASE (\E q \in Pids : ChildEnds(q)) \/ UNCHANGED vars
  BY <1>20 DEF ChildEnds, vars
<1> HIDE DEF SlotHeld
<1> QED
  BY <1>1, <1>2, <1>3, <1>4, <1>5, <1>6, <1>7, <1>8, <1>9, <1>10, <1>11,
     <1>12, <1>13, <1>14, <1>15, <1>16, <1>17, <1>18, <1>19, <1>20
     DEF Next, Begin, Continue

LEMMA TypeInvariant == Spec => []TypeInv
<1>1. ASSUME Init PROVE TypeOK
  <2> USE <1>1, ProcessTableAssumption DEF Init
  <2>0. initialized \in BOOLEAN
    OBVIOUS
  <2>1. /\ boots \in 0..MaxBoots
        /\ kernelLock \in Callers \cup {NoCaller} /\ nextPid \in Nat \ {0}
        /\ published \subseteq Slots
    OBVIOUS
  <2>2. table \in [Slots -> Entry]
    BY DEF NoEntry, Entry
  <2>3. object \in [Handles -> Object \cup {NoObject}]
    OBVIOUS
  <2>4. caller \in [Callers -> CallerState] /\ worker \in [Pids -> WorkerState]
    BY DEF CallerState, WorkerState, Idle
  <2>5. child \in [Pids -> SUBSET End]
    BY Zenon
  <2>6. robbed \in BOOLEAN
    BY Zenon
  <2>7. served \in 0..MaxGuest
    OBVIOUS
  <2> QED
    BY <2>0, <2>1, <2>2, <2>3, <2>4, <2>5, <2>6, <2>7 DEF TypeOK
<1>2. Init => SlotHeld
  BY DEF Init, SlotHeld, Idle
<1> QED
  BY <1>1, <1>2, TypeStep, SlotStep, PTL DEF Spec, TypeInv

\* Type correctness of the process table, whatever the host's threads do.
THEOREM TypeCorrect == Spec => []TypeOK
<1>1. TypeInv => TypeOK
  BY DEF TypeInv
<1> QED
  BY <1>1, TypeInvariant, PTL
-----------------------------------------------------------------------------
\* What no worker and no child that ends can change.
LEMMA WorkerFrame ==
  ASSUME TypeInv, NEW w \in Pids, Work(w) \/ Receive(w) \/ ChildEnds(w)
  PROVE  /\ UNCHANGED <<initialized, kernelLock, nextPid, table, published, caller>>
         /\ UNCHANGED <<object, robbed>> \/ GuestOpens(w) \/ GuestCloses(w)
<1>1. CASE Work(w) \/ Receive(w)
  BY <1>1, WorkerSteps DEF TypeInv, Quiet, GuestOpens, GuestCloses
<1>2. CASE ChildEnds(w)
  BY <1>2 DEF ChildEnds
<1> QED
  BY <1>1, <1>2

\* The kernel lock follows the program counters.
LEMMA LockStep == TypeInv /\ KernelLockMatchesCode /\ [Next]_vars => KernelLockMatchesCode'
<1> SUFFICES ASSUME TypeInv, caller \in [Callers -> CallerState], NoCaller \notin Callers,
                    KernelLockMatchesCode, [Next]_vars
             PROVE KernelLockMatchesCode'
  BY ProcessTableAssumption DEF TypeInv, TypeOK
<1> USE DEF KernelLockMatchesCode, LockedSteps, CallerState, At, GoTo, Return, Idle
<1>1. ASSUME NEW c \in Callers, NEW kind \in {"sandboxed", "plain"}, FindFreeProcessSlot(c, kind)
      PROVE  KernelLockMatchesCode'
  BY <1>1 DEF FindFreeProcessSlot
<1>2. ASSUME NEW c \in Callers, TerminateProcess(c) PROVE KernelLockMatchesCode'
  BY <1>2 DEF TerminateProcess
<1>3. ASSUME NEW c \in Callers, InitializeKernel(c) PROVE KernelLockMatchesCode'
  BY <1>3 DEF InitializeKernel
<1>4. ASSUME NEW c \in Callers, ShutdownKernel(c) PROVE KernelLockMatchesCode'
  BY <1>4 DEF ShutdownKernel
<1>5. ASSUME NEW c \in Callers, ClaimSlot(c) PROVE KernelLockMatchesCode'
  BY <1>5 DEF ClaimSlot
<1>6. ASSUME NEW c \in Callers, EnterKernel(c) PROVE KernelLockMatchesCode'
  BY <1>6 DEF EnterKernel
<1>7. ASSUME NEW c \in Callers, BumpProcessId(c) PROVE KernelLockMatchesCode'
  BY <1>7 DEF BumpProcessId
<1>8. ASSUME NEW c \in Callers, MakePipe(c) PROVE KernelLockMatchesCode'
  BY <1>8 DEF MakePipe
<1>9. ASSUME NEW c \in Callers, SpawnChild(c) PROVE KernelLockMatchesCode'
  BY <1>9 DEF SpawnChild
<1>10. ASSUME NEW c \in Callers, FinishCreate(c) PROVE KernelLockMatchesCode'
  BY <1>10 DEF FinishCreate
<1>11. ASSUME NEW c \in Callers, CreateFails(c) PROVE KernelLockMatchesCode'
  BY <1>11 DEF CreateFails
<1>12. ASSUME NEW c \in Callers, CloseProcess(c) PROVE KernelLockMatchesCode'
  BY <1>12 DEF CloseProcess
<1>13. ASSUME NEW c \in Callers, ClosePipeRead(c) PROVE KernelLockMatchesCode'
  BY <1>13 DEF ClosePipeRead
<1>14. ASSUME NEW c \in Callers, ClosePipeWrite(c) PROVE KernelLockMatchesCode'
  BY <1>14 DEF ClosePipeWrite
<1>15. ASSUME NEW c \in Callers, MarkTerminated(c) PROVE KernelLockMatchesCode'
  BY <1>15 DEF MarkTerminated
<1>16. ASSUME NEW c \in Callers, FreeSlot(c) PROVE KernelLockMatchesCode'
  BY <1>16 DEF FreeSlot
<1>17. ASSUME NEW c \in Callers, ShutdownNext(c) PROVE KernelLockMatchesCode'
  BY <1>17 DEF ShutdownNext
<1>18. ASSUME NEW c \in Callers, ShutdownDone(c) PROVE KernelLockMatchesCode'
  BY <1>18 DEF ShutdownDone
<1>19. ASSUME NEW w \in Pids, Work(w) \/ Receive(w) \/ ChildEnds(w)
       PROVE  KernelLockMatchesCode'
  <2>1. UNCHANGED <<kernelLock, caller>>
    BY <1>19, WorkerFrame
  <2> QED
    BY <2>1
<1>20. CASE UNCHANGED vars
  BY <1>20 DEF vars
<1> HIDE DEF KernelLockMatchesCode
<1> QED
  BY <1>1, <1>2, <1>3, <1>4, <1>5, <1>6, <1>7, <1>8, <1>9, <1>10, <1>11,
     <1>12, <1>13, <1>14, <1>15, <1>16, <1>17, <1>18, <1>19, <1>20
     DEF Next, Begin, Continue

\* g_KernelLock is given back on every way out of NTOS2NDCreateProcess, for
\* any number of callers.
THEOREM LockDiscipline == Spec => []KernelLockMatchesCode
<1>1. Init => KernelLockMatchesCode
  BY ProcessTableAssumption DEF Init, KernelLockMatchesCode, LockedSteps, Idle
<1> QED
  BY <1>1, TypeInvariant, LockStep, PTL DEF Spec

-----------------------------------------------------------------------------
(***************************************************************************)
(* Ids are distinct because every id in the table is below the counter,    *)
(* but for the one just read by the caller that is about to write the      *)
(* counter back; the lock makes that caller unique.                        *)
(***************************************************************************)
Issuing(s) == \E c \in Callers : At(c, "bump") /\ caller[c].slot = s

PidBelow ==
  \A s \in Slots : table[s].pid < nextPid \/ (table[s].pid = nextPid /\ Issuing(s))

\* PidsDistinct also of slots whose process is gone.
PidsNeverShared ==
  \A s, t \in Slots : s # t /\ table[s].pid # 0 => table[s].pid # table[t].pid

PidInv == PidBelow /\ PidsNeverShared

\* A step that leaves the ids, the counter and the issuing callers alone.
PidFrame ==
  /\ \A s \in Slots : table'[s].pid = table[s].pid
  /\ nextPid' = nextPid
  /\ \A c \in Callers : At(c, "bump") => caller'[c] = caller[c]

LEMMA PidFrameStep == PidInv /\ PidFrame => PidInv'
  BY DEF PidInv, PidFrame, PidBelow, PidsNeverShared, Issuing, At

LEMMA PidStep == TypeInv /\ KernelLockMatchesCode /\ PidInv /\ [Next]_vars => PidInv'
<1> SUFFICES ASSUME TypeInv, KernelLockMatchesCode, PidInv, [Next]_vars PROVE PidInv'
  OBVIOUS
<1> USE DEF PidInv
<1>types. /\ caller \in [Callers -> CallerState] /\ table \in [Slots -> Entry]
          /\ nextPid \in Nat \ {0}
  BY DEF TypeInv, TypeOK
<1>pids. \A s \in Slots : table[s].pid \in Nat
  BY <1>types DEF Entry
<1>held. \A c \in Callers : caller[c].pc \notin {"idle", "next"} => caller[c].slot \in Slots
  BY DEF TypeInv, SlotHeld
<1>claim. ASSUME NEW c \in Callers, ClaimSlot(c) PROVE PidInv'
  <2>1. /\ \A s \in Slots : table'[s].pid = IF s = caller[c].slot THEN 0 ELSE table[s].pid
        /\ nextPid' = nextPid
        /\ \A d \in Callers : At(d, "bump") => caller'[d] = caller[d]
    BY <1>claim, <1>types DEF ClaimSlot, At, GoTo, Entry, NoEntry
  <2>2. PidBelow'
    BY <2>1, <1>types DEF PidBelow, Issuing, At
  <2>3. PidsNeverShared'
    BY <2>1, <1>types DEF PidsNeverShared
  <2> QED
    BY <2>2, <2>3
<1>load. ASSUME NEW c \in Callers, EnterKernel(c) PROVE PidInv'
  <2>1. /\ \A s \in Slots : table'[s].pid = IF s = caller[c].slot THEN nextPid ELSE table[s].pid
        /\ nextPid' = nextPid /\ kernelLock = NoCaller
        /\ caller'[c].pc = "bump" /\ caller'[c].slot = caller[c].slot
        /\ caller[c].slot \in Slots
    BY <1>load, <1>types, <1>held DEF EnterKernel, At, GoTo, Entry, CallerState
  <2>2. \A d \in Callers : ~At(d, "bump")
    BY <2>1, ProcessTableAssumption DEF KernelLockMatchesCode, LockedSteps, At
  <2>3. \A s \in Slots : table[s].pid < nextPid
    BY <2>2 DEF PidBelow, Issuing
  <2>4. PidBelow'
    BY <2>1, <2>3, <1>types DEF PidBelow, Issuing, At
  <2>5. PidsNeverShared'
    BY <2>1, <2>3, <1>types, <1>pids DEF PidsNeverShared
  <2> QED
    BY <2>4, <2>5
<1>bump. ASSUME NEW c \in Callers, BumpProcessId(c) PROVE PidInv'
  <2>1. (\A s \in Slots : table'[s].pid = table[s].pid) /\ nextPid' = nextPid + 1
    BY <1>bump, <1>types DEF BumpProcessId, Entry
  <2>2. PidBelow'
    BY <2>1, <1>types, <1>pids DEF PidBelow
  <2>3. PidsNeverShared'
    BY <2>1 DEF PidsNeverShared
  <2> QED
    BY <2>2, <2>3
<1>boot. ASSUME NEW c \in Callers, InitializeKernel(c) PROVE PidInv'
  <2>1. (\A s \in Slots : table'[s].pid = 0) /\ nextPid' = nextPid
    BY <1>boot DEF InitializeKernel, NoEntry
  <2> QED
    BY <2>1, <1>types DEF PidBelow, PidsNeverShared
<1>find. ASSUME NEW c \in Callers, NEW kind \in {"sandboxed", "plain"}, FindFreeProcessSlot(c, kind)
         PROVE  PidFrame
  BY <1>find, <1>types DEF FindFreeProcessSlot, PidFrame, At
<1>1. ASSUME NEW c \in Callers, TerminateProcess(c) PROVE PidFrame
  BY <1>1, <1>types DEF TerminateProcess, PidFrame, At, GoTo, Return, Entry
<1>2. ASSUME NEW c \in Callers, ShutdownKernel(c) PROVE PidFrame
  BY <1>2, <1>types DEF ShutdownKernel, PidFrame, At, GoTo, Return, Entry
<1>3. ASSUME NEW c \in Callers, MakePipe(c) PROVE PidFrame
  BY <1>3, <1>types DEF MakePipe, PidFrame, At, GoTo, Return, Entry
<1>4. ASSUME NEW c \in Callers, SpawnChild(c) PROVE PidFrame
  BY <1>4, <1>types DEF SpawnChild, PidFrame, At, GoTo, Return, Entry
<1>5. ASSUME NEW c \in Callers, FinishCreate(c) PROVE PidFrame
  BY <1>5, <1>types DEF FinishCreate, PidFrame, At, GoTo, Return, Entry
<1>6. ASSUME NEW c \in Callers, CreateFails(c) PROVE PidFrame
  BY <1>6, <1>types DEF CreateFails, PidFrame, At, GoTo, Return, Entry
<1>7. ASSUME NEW c \in Callers, CloseProcess(c) PROVE PidFrame
  BY <1>7, <1>types DEF CloseProcess, PidFrame, At, GoTo, Return, Entry
<1>8. ASSUME NEW c \in Callers, ClosePipeRead(c) PROVE PidFrame
  BY <1>8, <1>types DEF ClosePipeRead, PidFrame, At, GoTo, Return, Entry
<1>9. ASSUME NEW c \in Callers, ClosePipeWrite(c) PROVE PidFrame
  BY <1>9, <1>types DEF ClosePipeWrite, PidFrame, At, GoTo, Return, Entry
<1>10. ASSUME NEW c \in Callers, MarkTerminated(c) PROVE PidFrame
  BY <1>10, <1>types DEF MarkTerminated, PidFrame, At, GoTo, Return, Entry
<1>11. ASSUME NEW c \in Callers, FreeSlot(c) PROVE PidFrame
  BY <1>11, <1>types DEF FreeSlot, PidFrame, At, GoTo, Return, Entry
<1>12. ASSUME NEW c \in Callers, ShutdownNext(c) PROVE PidFrame
  BY <1>12, <1>types DEF ShutdownNext, PidFrame, At, GoTo, Return, Entry
<1>13. ASSUME NEW c \in Callers, ShutdownDone(c) PROVE PidFrame
  BY <1>13, <1>types DEF ShutdownDone, PidFrame, At, GoTo, Return, Entry
<1>14. ASSUME NEW w \in Pids, Work(w) \/ Receive(w) \/ ChildEnds(w) PROVE PidFrame
  <2>1. UNCHANGED <<nextPid, table, caller>>
    BY <1>14, WorkerFrame
  <2> QED
    BY <2>1 DEF PidFrame
<1>15. CASE UNCHANGED vars
  <2>1. PidFrame
    BY <1>15 DEF vars, PidFrame
  <2> QED
    BY <2>1, PidFrameStep
<1> HIDE DEF PidInv
<1> QED
  BY PidFrameStep, <1>claim, <1>load, <1>bump, <1>boot, <1>find, <1>1, <1>2,
     <1>3, <1>4, <1>5, <1>6, <1>7, <1>8, <1>9, <1>10, <1>11, <1>12, <1>13,
     <1>14, <1>15
     DEF Next, Begin, Continue

\* No two processes in the table ever have the same id, for any number of
\* concurrent callers and across any number of restarts of the kernel.
THEOREM ProcessIdsDistinct == Spec => []PidsDistinct
<1>1. Init => PidInv
  <2>1. ASSUME Init PROVE PidBelow /\ PidsNeverShared
    BY <2>1 DEF Init, PidBelow, PidsNeverShared, NoEntry
  <2> QED
    BY <2>1 DEF PidInv
<1>2. PidInv => PidsDistinct
  BY DEF PidInv, PidsNeverShared, PidsDistinct
<1> QED
  BY <1>1, <1>2, TypeInvariant, LockDiscipline, PidStep, PTL DEF Spec

-----------------------------------------------------------------------------
(***************************************************************************)
(* What holds with one thread in the kernel's functions.  With two it does *)
(* not: they can claim the same slot, or end the same process twice.       *)
(***************************************************************************)
OneCaller == \E c : Callers = {c}

\* The three handles of a slot's own process are open.  Nothing is claimed of them once a
\* guest has closed a handle of the kernel's.
ChildOpen(s) == robbed \/ ObjectOf(table[s].process) = [kind |-> "process", of |-> table[s].pid]
ReadOpen(s)  == robbed \/ ObjectOf(table[s].read)    = [kind |-> "read",    of |-> table[s].pid]
WriteOpen(s) == robbed \/ ObjectOf(table[s].write)   = [kind |-> "write",   of |-> table[s].pid]
AllOpen(s)   == ChildOpen(s) /\ ReadOpen(s) /\ WriteOpen(s)

Empty(s) == table[s].process = NoHandle /\ table[s].read = NoHandle /\ table[s].write = NoHandle

Values(s) == {table[s].process, table[s].read, table[s].write}

Making(c, s) == caller[c].pc \in CreateSteps /\ caller[c].slot = s
Ending(c, s) == caller[c].pc \in TermSteps /\ caller[c].slot = s

\* What the host was given is a process with its handles, or one without any.
Intact(s) == AllOpen(s) \/ (table[s].state # "Running" /\ Empty(s))

PublishedOK(c) ==
  \A s \in published :
    /\ table[s].signature /\ table[s].pid \in 1..(nextPid - 1)
    /\ ~Making(c, s)
    /\ caller[c].call # "shutdown" /\ ~Ending(c, s) => Intact(s)

RunningPublished ==
  \A s \in Slots : table[s].signature /\ table[s].state = "Running" => s \in published

\* How far a creation is with its slot.
CreateOK(c) ==
  \A s \in Slots : Making(c, s) =>
    /\ initialized /\ caller[c].call \in {"sandboxed", "plain"}
    /\ table[s].signature <=> ~At(c, "claim")
    /\ caller[c].pc \in {"enter", "bump", "pipe"} => Empty(s)
    /\ At(c, "bump") => table[s].pid = nextPid
    /\ caller[c].pc \in {"pipe", "spawn", "run"} => table[s].pid = nextPid - 1 /\ nextPid > 1
    /\ caller[c].pc \in {"pipe", "spawn"} => caller[c].call = "sandboxed"
    /\ At(c, "spawn") => table[s].process = NoHandle /\ ReadOpen(s) /\ WriteOpen(s)
    /\ At(c, "run") /\ caller[c].call = "sandboxed" => AllOpen(s)
    /\ At(c, "run") /\ caller[c].call = "plain" => Empty(s)

\* How far a termination is with its slot, and that what it closes is its own when it is
\* not part of a shutdown.
EndOK(c) ==
  \A s \in Slots : Ending(c, s) =>
    /\ initialized /\ caller[c].call \in {"terminate", "shutdown"} /\ table[s].signature
    /\ caller[c].pc # "process" => table[s].process = NoHandle
    /\ caller[c].pc \notin {"process", "read"} => table[s].read = NoHandle
    /\ caller[c].pc \in {"mark", "free"} => table[s].write = NoHandle
    /\ caller[c].call = "terminate" =>
         /\ s \in published
         /\ ChildOpen(s) \/ table[s].process = NoHandle
         /\ ReadOpen(s) \/ table[s].read = NoHandle
         /\ WriteOpen(s) \/ table[s].write = NoHandle

\* A shutdown leaves no signature behind it.
ShutdownOK(c) ==
  /\ At(c, "idle") => caller[c].call = "none"
  /\ At(c, "next") => caller[c].call = "shutdown" /\ initialized
  /\ caller[c].call = "shutdown" =>
       \A t \in Slots : table[t].signature =>
         t >= caller[c].slot /\ (At(c, "next") => t > caller[c].slot)

LocksOK(c) ==
  \A s \in Slots : table[s].signature /\ table[s].lock = "dead" =>
    caller[c].pc \in {"enter", "bump"} /\ caller[c].slot = s

DownOK == ~initialized => \A s \in Slots : ~table[s].signature

CoreInv(c) ==
  /\ PublishedOK(c)
  /\ RunningPublished
  /\ CreateOK(c) /\ EndOK(c) /\ ShutdownOK(c)
  /\ LocksOK(c)
  /\ DownOK
  /\ NoHandleLeak

AllInv(c) == TypeInv /\ PidInv /\ CoreInv(c)

-----------------------------------------------------------------------------
LEMMA Moved ==
  ASSUME TypeInv, NEW c \in Callers
  PROVE  /\ \A step : GoTo(c, step) =>
              caller'[c].pc = step /\ caller'[c].slot = caller[c].slot /\ caller'[c].call = caller[c].call
         /\ Return(c) => caller'[c].pc = "idle" /\ caller'[c].call = "none"
         /\ caller[c].pc \notin {"idle", "next"} => caller[c].slot \in Slots
  BY DEF TypeInv, TypeOK, SlotHeld, GoTo, Return, Idle, CallerState

\* The handles of a process stay open when only those of another are closed, and free
\* values given out.
LEMMA OthersOpen ==
  ASSUME TypeInv, NEW t \in Slots, NEW p, table[t].pid # 0, table[t].pid # p,
         table'[t] = table[t], robbed' = robbed,
         ~robbed => \A k \in Handles : \/ object'[k] = object[k]
                                       \/ object[k].of = p \/ object[k] = NoObject
  PROVE  /\ ChildOpen(t) => ChildOpen(t)'
         /\ ReadOpen(t) => ReadOpen(t)'
         /\ WriteOpen(t) => WriteOpen(t)'
<1>0. CASE robbed
  BY <1>0 DEF ChildOpen, ReadOpen, WriteOpen
<1>1. ASSUME NEW v \in Handles \cup {NoHandle}, NEW kind \in {"process", "read", "write"},
             ~robbed, ObjectOf(v) = [kind |-> kind, of |-> table[t].pid]
      PROVE  ObjectOf(v)' = [kind |-> kind, of |-> table[t].pid]
  <2>1. ObjectOf(v).kind = kind /\ ObjectOf(v).of = table[t].pid
    BY <1>1
  <2>2. v # NoHandle /\ v \in Handles /\ object[v] = ObjectOf(v) /\ object[v] # NoObject
    BY <2>1 DEF ObjectOf, NoObject
  <2>3. object'[v] = object[v]
    BY <1>1, <2>1, <2>2
  <2> QED
    BY <1>1, <2>2, <2>3 DEF ObjectOf
<1>2. /\ table[t].process \in Handles \cup {NoHandle}
      /\ table[t].read \in Handles \cup {NoHandle}
      /\ table[t].write \in Handles \cup {NoHandle}
  BY DEF TypeInv, TypeOK, Entry
<1>3. ASSUME ~robbed, ChildOpen(t) PROVE ChildOpen(t)'
  <2>1. PICK v \in Handles \cup {NoHandle} : v = table[t].process
    BY <1>2
  <2>2. ObjectOf(v)' = [kind |-> "process", of |-> table[t].pid]
    BY <1>1, <1>3, <2>1 DEF ChildOpen
  <2> QED
    BY <2>1, <2>2 DEF ChildOpen, ObjectOf
<1>4. ASSUME ~robbed, ReadOpen(t) PROVE ReadOpen(t)'
  <2>1. PICK v \in Handles \cup {NoHandle} : v = table[t].read
    BY <1>2
  <2>2. ObjectOf(v)' = [kind |-> "read", of |-> table[t].pid]
    BY <1>1, <1>4, <2>1 DEF ReadOpen
  <2> QED
    BY <2>1, <2>2 DEF ReadOpen, ObjectOf
<1>5. ASSUME ~robbed, WriteOpen(t) PROVE WriteOpen(t)'
  <2>1. PICK v \in Handles \cup {NoHandle} : v = table[t].write
    BY <1>2
  <2>2. ObjectOf(v)' = [kind |-> "write", of |-> table[t].pid]
    BY <1>1, <1>5, <2>1 DEF WriteOpen
  <2> QED
    BY <2>1, <2>2 DEF WriteOpen, ObjectOf
<1> QED
  BY <1>0, <1>3, <1>4, <1>5

\* A step inside a call leaves the other slots in the host's hands as they are.
LEMMA OthersIntact ==
  ASSUME NEW c \in Callers, AllInv(c), NEW s \in Slots, Making(c, s) \/ Ending(c, s),
         \A t \in Slots \ {s} : table'[t] = table[t],
         nextPid' = nextPid \/ nextPid' = nextPid + 1, robbed' = robbed,
         caller[c].call # "shutdown" /\ ~robbed =>
           \A k \in Handles : \/ object'[k] = object[k] \/ object[k] = NoObject
                              \/ object[k].of = table[s].pid /\ table[s].pid # 0
  PROVE  \A t \in published \ {s} :
           /\ table'[t].signature /\ table'[t].pid \in 1..(nextPid' - 1)
           /\ caller[c].call # "shutdown" => Intact(t)'
<1> SUFFICES ASSUME NEW t \in published, t # s
             PROVE  /\ table'[t].signature /\ table'[t].pid \in 1..(nextPid' - 1)
                    /\ caller[c].call # "shutdown" => Intact(t)'
  OBVIOUS
<1>1. t \in Slots /\ nextPid \in Nat \ {0}
  BY DEF AllInv, TypeInv, TypeOK
<1>2. /\ table[t].signature /\ table[t].pid \in 1..(nextPid - 1) /\ ~Ending(c, t)
      /\ caller[c].call # "shutdown" => Intact(t)
  BY DEF AllInv, CoreInv, PublishedOK, Making, Ending
<1>3. table'[t].signature /\ table'[t].pid \in 1..(nextPid' - 1)
  BY <1>1, <1>2
<1>4. ASSUME caller[c].call # "shutdown" PROVE Intact(t)'
  <2>1. CASE AllOpen(t)
    <3>1. table[t].pid # 0 /\ table[t].pid # table[s].pid
      BY <1>1, <1>2 DEF AllInv, PidInv, PidsNeverShared
    <3>2. PICK p : p = table[s].pid
      OBVIOUS
    <3>3. table'[t] = table[t] /\ TypeInv
      BY <1>1 DEF AllInv
    <3>4. ~robbed => \A k \in Handles : \/ object'[k] = object[k]
                                        \/ object[k].of = p \/ object[k] = NoObject
      BY <1>4, <3>2
    <3> QED
      BY <1>1, <2>1, <3>1, <3>2, <3>3, <3>4, OthersOpen DEF Intact, AllOpen
  <2>2. CASE table[t].state # "Running" /\ Empty(t)
    BY <1>1, <2>2 DEF Intact, Empty
  <2> QED
    BY <1>2, <1>4, <2>1, <2>2 DEF Intact
<1> QED
  BY <1>3, <1>4

\* No handle is forgotten when those that stay open stay in their slot.
LEMMA NoneForgotten ==
  ASSUME NoHandleLeak, NEW s \in Slots,
         \A t \in Slots \ {s} : table'[t] = table[t],
         \A h \in Handles : object'[h].kind \in Kernels =>
           \/ table'[s].signature /\ h \in Values(s)'
           \/ object[h].kind \in Kernels /\ ~(table[s].signature /\ h \in Values(s))
  PROVE  NoHandleLeak'
<1> SUFFICES ASSUME NEW h \in Handles, object'[h].kind \in Kernels
             PROVE  \E t \in Slots : table'[t].signature
                                   /\ h \in {table'[t].process, table'[t].read, table'[t].write}
  BY DEF NoHandleLeak
<1>1. CASE table'[s].signature /\ h \in Values(s)'
  BY <1>1 DEF Values
<1>2. CASE object[h].kind \in Kernels /\ ~(table[s].signature /\ h \in Values(s))
  <2>1. PICK t \in Slots : table[t].signature /\ h \in {table[t].process, table[t].read, table[t].write}
    BY <1>2 DEF NoHandleLeak
  <2>2. t # s
    BY <1>2, <2>1 DEF Values
  <2> QED
    BY <2>1, <2>2
<1> QED
  BY <1>1, <1>2

-----------------------------------------------------------------------------
(* The steps at which a call begins or goes on to another slot *)

LEMMA SameTable ==
  ASSUME UNCHANGED <<table, object, robbed>>, NEW t \in Slots
  PROVE  /\ ChildOpen(t)' <=> ChildOpen(t)
         /\ ReadOpen(t)' <=> ReadOpen(t)
         /\ WriteOpen(t)' <=> WriteOpen(t)
         /\ AllOpen(t)' <=> AllOpen(t)
         /\ Empty(t)' <=> Empty(t)
         /\ Intact(t)' <=> Intact(t)
<1>1. ChildOpen(t)' <=> ChildOpen(t)
  BY DEF ChildOpen, ObjectOf
<1>2. ReadOpen(t)' <=> ReadOpen(t)
  BY DEF ReadOpen, ObjectOf
<1>3. WriteOpen(t)' <=> WriteOpen(t)
  BY DEF WriteOpen, ObjectOf
<1>4. Empty(t)' <=> Empty(t)
  BY DEF Empty
<1>5. AllOpen(t)' <=> AllOpen(t)
  BY <1>1, <1>2, <1>3 DEF AllOpen
<1> QED
  BY <1>1, <1>2, <1>3, <1>4, <1>5 DEF Intact

LEMMA Fixed ==
  ASSUME NEW c \in Callers, AllInv(c), UNCHANGED <<table, object, published, robbed>>
  PROVE  /\ RunningPublished' /\ NoHandleLeak' /\ published \subseteq Slots
         /\ \A t \in Slots : Intact(t) => Intact(t)'
<1>1. published \subseteq Slots
  BY DEF AllInv, TypeInv, TypeOK
<1> QED
  BY <1>1, SameTable DEF AllInv, CoreInv, RunningPublished, NoHandleLeak

LEMMA FindCore ==
  ASSUME NEW c \in Callers, AllInv(c), NEW kind \in {"sandboxed", "plain"},
         FindFreeProcessSlot(c, kind)
  PROVE  CoreInv(c)'
<1>1. PICK s \in Slots : ~table[s].signature
         /\ caller' = [caller EXCEPT ![c] = [pc |-> "claim", slot |-> s, call |-> kind]]
  BY DEF FindFreeProcessSlot
<1>2. /\ caller'[c].pc = "claim" /\ caller'[c].slot = s /\ caller'[c].call = kind
      /\ caller[c].pc = "idle" /\ initialized
      /\ UNCHANGED <<initialized, nextPid, table, object, published, robbed>>
  BY <1>1 DEF FindFreeProcessSlot, At, AllInv, TypeInv, TypeOK
<1>3. caller[c].call = "none" /\ kind # "shutdown"
  BY <1>2 DEF AllInv, CoreInv, ShutdownOK, At
<1>4. PublishedOK(c)'
  BY <1>1, <1>2, <1>3, Fixed
     DEF AllInv, CoreInv, PublishedOK, Making, Ending, CreateSteps, TermSteps
<1>5. CreateOK(c)' /\ EndOK(c)'
  BY <1>1, <1>2 DEF CreateOK, EndOK, Making, Ending, CreateSteps, TermSteps, At
<1>6. ShutdownOK(c)' /\ LocksOK(c)'
  BY <1>2, <1>3 DEF AllInv, CoreInv, ShutdownOK, LocksOK, At
<1>7. DownOK'
  BY <1>2 DEF DownOK
<1> QED
  BY <1>2, <1>4, <1>5, <1>6, <1>7, Fixed DEF AllInv, CoreInv

LEMMA TerminateCore ==
  ASSUME NEW c \in Callers, AllInv(c), TerminateProcess(c) PROVE CoreInv(c)'
<1>1. PICK s \in published : table[s].signature
         /\ caller' = [caller EXCEPT ![c] = [pc |-> "process", slot |-> s, call |-> "terminate"]]
  BY DEF TerminateProcess
<1>2. /\ caller'[c].pc = "process" /\ caller'[c].slot = s /\ caller'[c].call = "terminate"
      /\ caller[c].pc = "idle" /\ initialized /\ s \in Slots
      /\ UNCHANGED <<initialized, nextPid, table, object, published, robbed>>
  BY <1>1 DEF TerminateProcess, At, AllInv, TypeInv, TypeOK
<1>3. caller[c].call = "none"
  BY <1>2 DEF AllInv, CoreInv, ShutdownOK, At
<1>4. PublishedOK(c)'
  BY <1>1, <1>2, <1>3, Fixed
     DEF AllInv, CoreInv, PublishedOK, Making, Ending, CreateSteps, TermSteps
<1>5. EndOK(c)'
  <2>1. AllOpen(s) \/ Empty(s)
    BY <1>2, <1>3 DEF AllInv, CoreInv, PublishedOK, Ending, TermSteps, Intact
  <2>2. /\ ChildOpen(s)' \/ table'[s].process = NoHandle
        /\ ReadOpen(s)' \/ table'[s].read = NoHandle
        /\ WriteOpen(s)' \/ table'[s].write = NoHandle
    BY <1>2, <2>1, SameTable DEF AllOpen, Empty
  <2> QED
    BY <1>1, <1>2, <2>2 DEF EndOK, Ending, TermSteps
<1>6. CreateOK(c)'
  BY <1>2 DEF CreateOK, Making, CreateSteps
<1>7. ShutdownOK(c)' /\ LocksOK(c)'
  BY <1>2 DEF AllInv, CoreInv, ShutdownOK, LocksOK, At
<1>8. DownOK'
  BY <1>2 DEF DownOK
<1> QED
  BY <1>2, <1>4, <1>5, <1>6, <1>7, <1>8, Fixed DEF AllInv, CoreInv

LEMMA ShutdownCore ==
  ASSUME NEW c \in Callers, AllInv(c),
         ShutdownKernel(c) \/ ShutdownNext(c) \/ ShutdownDone(c)
  PROVE  CoreInv(c)'
<1>t. caller[c].slot \in 0..NSlots /\ NSlots \in Nat
  BY ProcessTableAssumption DEF AllInv, TypeInv, TypeOK, CallerState
<1>1. /\ UNCHANGED <<nextPid, table, object, published, robbed>>
      /\ caller[c].pc \in {"idle", "next"}
  BY DEF ShutdownKernel, ShutdownNext, ShutdownDone, At
<1>2. \A s \in published : table[s].signature /\ s \in Slots /\ table[s].pid \in 1..(nextPid - 1)
  BY DEF AllInv, CoreInv, PublishedOK, TypeInv, TypeOK
<1>3. LocksOK(c)'
  BY <1>1 DEF AllInv, CoreInv, LocksOK
<1>4. CASE ShutdownKernel(c)
  <2>1. /\ caller'[c].pc = "next" /\ caller'[c].slot = 0 /\ caller'[c].call = "shutdown"
        /\ initialized /\ initialized'
    BY <1>4 DEF ShutdownKernel, AllInv, TypeInv, TypeOK
  <2>2. PublishedOK(c)' /\ CreateOK(c)' /\ EndOK(c)' /\ DownOK'
    BY <1>1, <1>2, <2>1
       DEF PublishedOK, CreateOK, EndOK, DownOK, Making, Ending, CreateSteps, TermSteps
  <2>3. ShutdownOK(c)'
    BY <1>1, <2>1, ProcessTableAssumption DEF ShutdownOK, At, Slots
  <2> QED
    BY <1>1, <1>3, <2>2, <2>3, Fixed DEF AllInv, CoreInv
<1>5. CASE ShutdownNext(c)
  <2>1. PICK s \in Remaining(c) : (\A t \in Remaining(c) : s <= t)
           /\ caller' = [caller EXCEPT ![c] = [pc |-> "process", slot |-> s, call |-> "shutdown"]]
    BY <1>5 DEF ShutdownNext
  <2>2. /\ caller'[c].pc = "process" /\ caller'[c].slot = s /\ caller'[c].call = "shutdown"
        /\ caller[c].pc = "next" /\ s \in Slots /\ table[s].signature
        /\ UNCHANGED initialized
    BY <1>5, <2>1 DEF ShutdownNext, At, Remaining, AllInv, TypeInv, TypeOK
  <2>3. caller[c].call = "shutdown" /\ initialized
    BY <2>2 DEF AllInv, CoreInv, ShutdownOK, At
  <2>4. PublishedOK(c)' /\ CreateOK(c)' /\ DownOK'
    BY <1>1, <1>2, <2>2, <2>3
       DEF PublishedOK, CreateOK, DownOK, Making, Ending, CreateSteps, TermSteps
  <2>5. EndOK(c)'
    BY <1>1, <2>2, <2>3 DEF EndOK, Ending, TermSteps
  <2>6. \A t \in Slots : table[t].signature => t \in Remaining(c)
    BY <2>2, <2>3 DEF AllInv, CoreInv, ShutdownOK, At, Remaining
  <2>7. ShutdownOK(c)'
    BY <1>1, <2>1, <2>2, <2>6 DEF ShutdownOK, At, Slots
  <2> QED
    BY <1>1, <1>3, <2>4, <2>5, <2>7, Fixed DEF AllInv, CoreInv
<1>6. CASE ShutdownDone(c)
  <2>1. /\ caller'[c].pc = "idle" /\ caller'[c].call = "none" /\ caller[c].pc = "next"
        /\ Remaining(c) = {} /\ TypeInv
    BY <1>6, Moved DEF ShutdownDone, At, AllInv
  <2>2. \A t \in Slots : ~table[t].signature
    BY <2>1 DEF AllInv, CoreInv, ShutdownOK, At, Remaining
  <2>3. PublishedOK(c)' /\ CreateOK(c)' /\ EndOK(c)' /\ DownOK'
    BY <1>1, <1>2, <2>1, <2>2
       DEF PublishedOK, CreateOK, EndOK, DownOK, Making, Ending, CreateSteps, TermSteps
  <2>4. ShutdownOK(c)'
    BY <2>1 DEF ShutdownOK, At
  <2> QED
    BY <1>1, <1>3, <2>3, <2>4, Fixed DEF AllInv, CoreInv
<1> QED
  BY <1>4, <1>5, <1>6

LEMMA InitializeCore ==
  ASSUME NEW c \in Callers, AllInv(c), InitializeKernel(c) PROVE CoreInv(c)'
<1>1. /\ \A s \in Slots : table'[s] = NoEntry
      /\ ~initialized /\ initialized' /\ UNCHANGED <<nextPid, published, object, caller, robbed>>
      /\ caller[c].pc = "idle"
  BY DEF InitializeKernel, At
<1>2. \A s \in Slots : ~table[s].signature
  BY <1>1 DEF AllInv, CoreInv, DownOK
<1>3. published = {}
  <2>1. published \subseteq Slots
    BY DEF AllInv, TypeInv, TypeOK
  <2> QED
    BY <1>2, <2>1 DEF AllInv, CoreInv, PublishedOK
<1>4. \A s \in Slots : ~table'[s].signature
  BY <1>1 DEF NoEntry
<1>5. \A h \in Handles : object[h].kind \notin Kernels
  BY <1>2 DEF AllInv, CoreInv, NoHandleLeak
<1>6. PublishedOK(c)' /\ RunningPublished' /\ LocksOK(c)' /\ DownOK' /\ NoHandleLeak'
  BY <1>1, <1>3, <1>4, <1>5 DEF PublishedOK, RunningPublished, LocksOK, DownOK, NoHandleLeak
<1>7. CreateOK(c)' /\ EndOK(c)'
  BY <1>1 DEF CreateOK, EndOK, Making, Ending, CreateSteps, TermSteps
<1>8. ShutdownOK(c)'
  BY <1>1, <1>4 DEF AllInv, CoreInv, ShutdownOK, At
<1> QED
  BY <1>6, <1>7, <1>8 DEF CoreInv

-----------------------------------------------------------------------------
(* The steps of a creation *)

LEMMA MakeFacts ==
  ASSUME NEW c \in Callers, AllInv(c), caller[c].pc \in CreateSteps
  PROVE  \E s \in Slots :
           /\ caller[c].slot = s /\ Making(c, s) /\ s \notin published
           /\ caller[c].call \in {"sandboxed", "plain"} /\ initialized
           /\ table[s].signature => table[s].state # "Running"
           /\ table[s] \in Entry /\ nextPid \in Nat \ {0}
<1>1. caller[c].slot \in Slots
  BY Moved DEF AllInv, CreateSteps
<1>2. PICK s \in Slots : s = caller[c].slot
  BY <1>1
<1>3. Making(c, s)
  BY <1>2 DEF Making
<1>4. s \notin published /\ caller[c].call \in {"sandboxed", "plain"} /\ initialized
  BY <1>3 DEF AllInv, CoreInv, PublishedOK, CreateOK
<1>5. table[s].signature => table[s].state # "Running"
  BY <1>4 DEF AllInv, CoreInv, RunningPublished
<1> QED
  BY <1>2, <1>3, <1>4, <1>5 DEF AllInv, TypeInv, TypeOK

\* What a step of a creation on slot s leaves true.
LEMMA MakeStep ==
  ASSUME NEW c \in Callers, AllInv(c), NEW s \in Slots, Making(c, s),
         UNCHANGED <<initialized, published, robbed>>,
         nextPid' = nextPid \/ nextPid' = nextPid + 1,
         \A t \in Slots \ {s} : table'[t] = table[t],
         ~robbed => \A k \in Handles : \/ object'[k] = object[k] \/ object[k] = NoObject
                                       \/ object[k].of = table[s].pid /\ table[s].pid # 0,
         \/ /\ caller'[c].pc \in CreateSteps /\ caller'[c].slot = s
            /\ caller'[c].call = caller[c].call
         \/ caller'[c].pc = "idle" /\ caller'[c].call = "none",
         table'[s].signature => table'[s].state # "Running",
         table'[s].signature /\ table'[s].lock = "dead" =>
           caller'[c].pc \in {"enter", "bump"} /\ caller'[c].slot = s
  PROVE  /\ PublishedOK(c)' /\ RunningPublished' /\ EndOK(c)' /\ ShutdownOK(c)'
         /\ LocksOK(c)' /\ DownOK'
<1>1. /\ s \notin published /\ caller[c].call \in {"sandboxed", "plain"} /\ initialized
      /\ caller[c].pc \in CreateSteps /\ caller[c].slot = s
  BY MakeFacts DEF Making
<1>2. published \subseteq Slots
  BY DEF AllInv, TypeInv, TypeOK
<1>3. \A t \in published : t # s /\ table'[t].signature /\ table'[t].pid \in 1..(nextPid' - 1)
                            /\ Intact(t)'
  <2>1. \A t \in published \ {s} :
           /\ table'[t].signature /\ table'[t].pid \in 1..(nextPid' - 1)
           /\ caller[c].call # "shutdown" => Intact(t)'
    BY OthersIntact
  <2> QED
    BY <1>1, <2>1
<1>4. caller'[c].pc \notin TermSteps /\ caller'[c].call # "shutdown"
  BY <1>1 DEF CreateSteps, TermSteps
<1>5. PublishedOK(c)'
  <2>1. \A t \in published : ~Making(c, t)'
    BY <1>1, <1>3 DEF Making, CreateSteps
  <2> QED
    BY <1>3, <2>1 DEF PublishedOK
<1>6. RunningPublished'
  BY DEF AllInv, CoreInv, RunningPublished
<1>7. EndOK(c)' /\ ShutdownOK(c)' /\ DownOK'
  BY <1>1, <1>4 DEF EndOK, Ending, ShutdownOK, DownOK, At, CreateSteps
<1>8. LocksOK(c)'
  BY <1>1 DEF AllInv, CoreInv, LocksOK
<1> QED
  BY <1>5, <1>6, <1>7, <1>8

LEMMA ClaimCore ==
  ASSUME NEW c \in Callers, AllInv(c), ClaimSlot(c) PROVE CoreInv(c)'
<1>1. caller[c].pc = "claim" /\ caller[c].pc \in CreateSteps
  BY DEF ClaimSlot, At, CreateSteps
<1>2. PICK s \in Slots :
         /\ caller[c].slot = s /\ Making(c, s)
         /\ caller[c].call \in {"sandboxed", "plain"} /\ initialized
  BY <1>1, MakeFacts
<1>3. /\ caller'[c].pc = "enter" /\ caller'[c].slot = s /\ caller'[c].call = caller[c].call
      /\ UNCHANGED <<initialized, published, nextPid, object, robbed>>
      /\ table'[s] = [NoEntry EXCEPT !.signature = TRUE]
      /\ \A t \in Slots \ {s} : table'[t] = table[t]
  BY <1>2, Moved DEF ClaimSlot, AllInv, TypeInv, TypeOK
<1>4. /\ table'[s].signature /\ table'[s].state = "Created" /\ table'[s].process = NoHandle
      /\ table'[s].read = NoHandle /\ table'[s].write = NoHandle
  BY <1>3 DEF NoEntry
<1>5. ~table[s].signature
  BY <1>1, <1>2 DEF AllInv, CoreInv, CreateOK, At
<1>6. /\ PublishedOK(c)' /\ RunningPublished' /\ EndOK(c)' /\ ShutdownOK(c)'
      /\ LocksOK(c)' /\ DownOK'
  BY <1>2, <1>3, <1>4, MakeStep DEF CreateSteps
<1>7. CreateOK(c)'
  BY <1>2, <1>3, <1>4 DEF CreateOK, Making, At, Empty
<1>8. NoHandleLeak'
  BY <1>3, <1>5, NoneForgotten DEF AllInv, CoreInv
<1> QED
  BY <1>6, <1>7, <1>8 DEF CoreInv

LEMMA EnterCore ==
  ASSUME NEW c \in Callers, AllInv(c), EnterKernel(c) PROVE CoreInv(c)'
<1>1. caller[c].pc = "enter" /\ caller[c].pc \in CreateSteps
  BY DEF EnterKernel, At, CreateSteps
<1>2. PICK s \in Slots :
         /\ caller[c].slot = s /\ Making(c, s) /\ table[s] \in Entry
         /\ caller[c].call \in {"sandboxed", "plain"} /\ initialized
         /\ table[s].signature => table[s].state # "Running"
  BY <1>1, MakeFacts
<1>3. /\ caller'[c].pc = "bump" /\ caller'[c].slot = s /\ caller'[c].call = caller[c].call
      /\ UNCHANGED <<initialized, published, nextPid, object, robbed>>
      /\ table'[s] = [table[s] EXCEPT !.pid = nextPid]
      /\ \A t \in Slots \ {s} : table'[t] = table[t]
  BY <1>2, Moved DEF EnterKernel, AllInv, TypeInv, TypeOK
<1>4. table[s].signature /\ Empty(s)
  BY <1>1, <1>2 DEF AllInv, CoreInv, CreateOK, At
<1>5. /\ table'[s].signature /\ table'[s].state = table[s].state /\ table'[s].pid = nextPid
      /\ table'[s].process = NoHandle /\ table'[s].read = NoHandle /\ table'[s].write = NoHandle
  BY <1>2, <1>3, <1>4 DEF Entry, Empty
<1>6. /\ PublishedOK(c)' /\ RunningPublished' /\ EndOK(c)' /\ ShutdownOK(c)'
      /\ LocksOK(c)' /\ DownOK'
  BY <1>2, <1>3, <1>4, <1>5, MakeStep DEF CreateSteps
<1>7. CreateOK(c)'
  BY <1>2, <1>3, <1>5 DEF CreateOK, Making, At, Empty
<1>8. NoHandleLeak'
  <2>1. \A h \in Handles : h \notin Values(s)
    BY <1>4, ProcessTableAssumption DEF Values, Empty
  <2> QED
    BY <1>3, <2>1, NoneForgotten DEF AllInv, CoreInv
<1> QED
  BY <1>6, <1>7, <1>8 DEF CoreInv

LEMMA BumpCore ==
  ASSUME NEW c \in Callers, AllInv(c), BumpProcessId(c) PROVE CoreInv(c)'
<1>1. caller[c].pc = "bump" /\ caller[c].pc \in CreateSteps
  BY DEF BumpProcessId, At, CreateSteps
<1>2. PICK s \in Slots :
         /\ caller[c].slot = s /\ Making(c, s) /\ table[s] \in Entry /\ nextPid \in Nat \ {0}
         /\ caller[c].call \in {"sandboxed", "plain"} /\ initialized
         /\ table[s].signature => table[s].state # "Running"
  BY <1>1, MakeFacts
<1>3. /\ caller'[c].pc = IF caller[c].call = "sandboxed" THEN "pipe" ELSE "run"
      /\ caller'[c].slot = s /\ caller'[c].call = caller[c].call
      /\ UNCHANGED <<initialized, published, object, robbed>> /\ nextPid' = nextPid + 1
      /\ table' = [table EXCEPT ![s].state = "Created", ![s].lock = NoCaller]
      /\ \A t \in Slots \ {s} : table'[t] = table[t]
  BY <1>2, Moved DEF BumpProcessId, AllInv, TypeInv, TypeOK
<1>4. table[s].signature /\ Empty(s) /\ table[s].pid = nextPid
  BY <1>1, <1>2 DEF AllInv, CoreInv, CreateOK, At
<1>5. /\ table'[s].signature /\ table'[s].state = "Created" /\ table'[s].lock = NoCaller
      /\ table'[s].pid = nextPid
      /\ table'[s].process = NoHandle /\ table'[s].read = NoHandle /\ table'[s].write = NoHandle
  BY <1>2, <1>3, <1>4 DEF Entry, Empty, AllInv, TypeInv, TypeOK
<1>6. /\ PublishedOK(c)' /\ RunningPublished' /\ EndOK(c)' /\ ShutdownOK(c)'
      /\ LocksOK(c)' /\ DownOK'
  BY <1>2, <1>3, <1>5, MakeStep, ProcessTableAssumption DEF CreateSteps
<1>7. CreateOK(c)'
  BY <1>2, <1>3, <1>5 DEF CreateOK, Making, At, Empty
<1>8. NoHandleLeak'
  <2>1. \A h \in Handles : h \notin Values(s)
    BY <1>4, ProcessTableAssumption DEF Values, Empty
  <2> QED
    BY <1>3, <2>1, NoneForgotten DEF AllInv, CoreInv
<1> QED
  BY <1>6, <1>7, <1>8 DEF CoreInv

LEMMA PipeCore ==
  ASSUME NEW c \in Callers, AllInv(c), MakePipe(c) PROVE CoreInv(c)'
<1>1. caller[c].pc = "pipe" /\ caller[c].pc \in CreateSteps
  BY DEF MakePipe, At, CreateSteps
<1>2. PICK s \in Slots :
         /\ caller[c].slot = s /\ Making(c, s) /\ table[s] \in Entry /\ nextPid \in Nat \ {0}
         /\ caller[c].call \in {"sandboxed", "plain"} /\ initialized
         /\ table[s].signature => table[s].state # "Running"
  BY <1>1, MakeFacts
<1>3. /\ table[s].signature /\ Empty(s) /\ table[s].pid = nextPid - 1 /\ nextPid > 1
      /\ caller[c].call = "sandboxed"
  BY <1>1, <1>2 DEF AllInv, CoreInv, CreateOK, At
<1>4. table[s].lock # "dead"
  BY <1>1, <1>3 DEF AllInv, CoreInv, LocksOK
<1>5. PICK r \in FreeHandles, w \in FreeHandles :
         /\ r # w
         /\ table' = [table EXCEPT ![s].read = r, ![s].write = w]
         /\ object' = [object EXCEPT ![r] = [kind |-> "read",  of |-> IssuedPid],
                                     ![w] = [kind |-> "write", of |-> IssuedPid]]
  <2>1. FreeHandles \in SUBSET Handles /\ \A r : FreeHandles \ {r} \in SUBSET Handles
    BY DEF FreeHandles
  <2> HIDE DEF FreeHandles
  <2>2. /\ Recycle[FreeHandles] \subseteq FreeHandles
        /\ \A r : Recycle[FreeHandles \ {r}] \subseteq FreeHandles \ {r}
    BY <2>1, ProcessTableAssumption, Zenon DEF ProcessTableAssumption
  <2> QED
    BY <1>2, <2>2 DEF MakePipe
<1>6. /\ r \in Handles /\ w \in Handles /\ r # w /\ object[r] = NoObject /\ object[w] = NoObject
      /\ r # NoHandle /\ w # NoHandle
  BY <1>5, ProcessTableAssumption DEF FreeHandles, ProcessTableAssumption
<1>7. /\ caller'[c].pc = "spawn" /\ caller'[c].slot = s /\ caller'[c].call = caller[c].call
      /\ UNCHANGED <<initialized, published, nextPid, robbed>>
      /\ \A t \in Slots \ {s} : table'[t] = table[t]
  BY <1>2, <1>5, Moved DEF MakePipe, AllInv, TypeInv, TypeOK
<1>8. /\ table'[s].signature /\ table'[s].state = table[s].state /\ table'[s].pid = table[s].pid
      /\ table'[s].lock = table[s].lock /\ table'[s].process = NoHandle
      /\ table'[s].read = r /\ table'[s].write = w
  BY <1>2, <1>3, <1>5 DEF Entry, Empty, AllInv, TypeInv, TypeOK
<1>9. /\ object'[r] = [kind |-> "read",  of |-> nextPid - 1]
      /\ object'[w] = [kind |-> "write", of |-> nextPid - 1]
      /\ \A k \in Handles : k = r \/ k = w \/ object'[k] = object[k]
  BY <1>5, <1>6 DEF IssuedPid, AllInv, TypeInv, TypeOK
<1>10. /\ PublishedOK(c)' /\ RunningPublished' /\ EndOK(c)' /\ ShutdownOK(c)'
       /\ LocksOK(c)' /\ DownOK'
  <2>1. \A k \in Handles : \/ object'[k] = object[k] \/ object[k] = NoObject
                           \/ object[k].of = table[s].pid /\ table[s].pid # 0
    BY <1>6, <1>9
  <2>2. /\ table'[s].state # "Running" /\ table'[s].lock # "dead"
        /\ caller'[c].pc \in CreateSteps
    BY <1>2, <1>3, <1>4, <1>7, <1>8 DEF CreateSteps
  <2> QED
    BY <1>2, <1>7, <2>1, <2>2, MakeStep
<1>11. CreateOK(c)'
  <2>1. ReadOpen(s)' /\ WriteOpen(s)'
    BY <1>3, <1>6, <1>8, <1>9 DEF ReadOpen, WriteOpen, ObjectOf
  <2> QED
    BY <1>2, <1>3, <1>7, <1>8, <2>1 DEF CreateOK, Making, At
<1>12. NoHandleLeak'
  <2>1. \A h \in Handles : h \notin Values(s)
    BY <1>3, ProcessTableAssumption DEF Values, Empty
  <2>2. \A h \in Handles : object'[h].kind \in Kernels => h \in Values(s)' \/ object[h].kind \in Kernels
    BY <1>8, <1>9 DEF Values
  <2> QED
    BY <1>7, <1>8, <2>1, <2>2, NoneForgotten DEF AllInv, CoreInv
<1> QED
  BY <1>10, <1>11, <1>12 DEF CoreInv

LEMMA SpawnCore ==
  ASSUME NEW c \in Callers, AllInv(c), SpawnChild(c) PROVE CoreInv(c)'
<1>1. caller[c].pc = "spawn" /\ caller[c].pc \in CreateSteps
  BY DEF SpawnChild, At, CreateSteps
<1>2. PICK s \in Slots :
         /\ caller[c].slot = s /\ Making(c, s) /\ table[s] \in Entry /\ nextPid \in Nat \ {0}
         /\ caller[c].call \in {"sandboxed", "plain"} /\ initialized
         /\ table[s].signature => table[s].state # "Running"
  BY <1>1, MakeFacts
<1>3. /\ table[s].signature /\ table[s].process = NoHandle /\ ReadOpen(s) /\ WriteOpen(s)
      /\ table[s].pid = nextPid - 1 /\ nextPid > 1 /\ caller[c].call = "sandboxed"
  BY <1>1, <1>2 DEF AllInv, CoreInv, CreateOK, At
<1>4. table[s].lock # "dead"
  BY <1>1, <1>3 DEF AllInv, CoreInv, LocksOK
<1>5. PICK h \in FreeHandles :
         /\ table' = [table EXCEPT ![s].process = h]
         /\ object' = [object EXCEPT ![h] = [kind |-> "process", of |-> IssuedPid]]
  <2>1. FreeHandles \in SUBSET Handles
    BY DEF FreeHandles
  <2> HIDE DEF FreeHandles
  <2>2. Recycle[FreeHandles] \subseteq FreeHandles
    BY <2>1, ProcessTableAssumption, Zenon DEF ProcessTableAssumption
  <2> QED
    BY <1>2, <2>2 DEF SpawnChild
<1>6. h \in Handles /\ object[h] = NoObject /\ h # NoHandle
  BY <1>5, ProcessTableAssumption DEF FreeHandles, ProcessTableAssumption
<1>7. /\ caller'[c].pc = "run" /\ caller'[c].slot = s /\ caller'[c].call = caller[c].call
      /\ UNCHANGED <<initialized, published, nextPid, robbed>>
      /\ \A t \in Slots \ {s} : table'[t] = table[t]
  BY <1>2, <1>5, Moved DEF SpawnChild, AllInv, TypeInv, TypeOK
<1>8. /\ table'[s].signature /\ table'[s].state = table[s].state /\ table'[s].pid = table[s].pid
      /\ table'[s].lock = table[s].lock /\ table'[s].process = h
      /\ table'[s].read = table[s].read /\ table'[s].write = table[s].write
  BY <1>2, <1>3, <1>5 DEF Entry, AllInv, TypeInv, TypeOK
<1>9. /\ object'[h] = [kind |-> "process", of |-> nextPid - 1]
      /\ \A k \in Handles : k = h \/ object'[k] = object[k]
  BY <1>5, <1>6 DEF IssuedPid, AllInv, TypeInv, TypeOK
<1>10. /\ PublishedOK(c)' /\ RunningPublished' /\ EndOK(c)' /\ ShutdownOK(c)'
       /\ LocksOK(c)' /\ DownOK'
  <2>1. \A k \in Handles : \/ object'[k] = object[k] \/ object[k] = NoObject
                           \/ object[k].of = table[s].pid /\ table[s].pid # 0
    BY <1>6, <1>9
  <2>2. /\ table'[s].state # "Running" /\ table'[s].lock # "dead"
        /\ caller'[c].pc \in CreateSteps
    BY <1>2, <1>3, <1>4, <1>7, <1>8 DEF CreateSteps
  <2> QED
    BY <1>2, <1>7, <2>1, <2>2, MakeStep
<1>11. AllOpen(s)'
  <2>1. ChildOpen(s)'
    BY <1>3, <1>6, <1>8, <1>9 DEF ChildOpen, ObjectOf
  <2>2. ASSUME NEW v \in Handles \cup {NoHandle}, ObjectOf(v).kind \in {"read", "write"}
        PROVE  ObjectOf(v)' = ObjectOf(v)
    BY <1>6, <1>9, <2>2 DEF ObjectOf, NoObject
  <2>3. PICK v \in Handles \cup {NoHandle} : v = table[s].read
    BY <1>2 DEF Entry
  <2>4. PICK u \in Handles \cup {NoHandle} : u = table[s].write
    BY <1>2 DEF Entry
  <2>r. CASE robbed
    BY <1>7, <2>r DEF AllOpen, ChildOpen, ReadOpen, WriteOpen
  <2> SUFFICES ASSUME ~robbed PROVE AllOpen(s)'
    BY <2>r
  <2>5. /\ ObjectOf(v) = [kind |-> "read", of |-> table[s].pid]
        /\ ObjectOf(u) = [kind |-> "write", of |-> table[s].pid]
    BY <1>3, <2>3, <2>4 DEF ReadOpen, WriteOpen
  <2>6. /\ ObjectOf(v)' = [kind |-> "read", of |-> table[s].pid]
        /\ ObjectOf(u)' = [kind |-> "write", of |-> table[s].pid]
    BY <2>2, <2>5
  <2>7. ReadOpen(s)' /\ WriteOpen(s)'
    BY <1>8, <2>3, <2>4, <2>6 DEF ReadOpen, WriteOpen, ObjectOf
  <2> QED
    BY <2>1, <2>7 DEF AllOpen
<1>12. CreateOK(c)'
  BY <1>2, <1>3, <1>7, <1>8, <1>11 DEF CreateOK, Making, At
<1>13. NoHandleLeak'
  <2>1. \A k \in Handles : k \in Values(s) => k \in Values(s)'
    BY <1>3, <1>8, ProcessTableAssumption DEF Values
  <2>2. \A k \in Handles : object'[k].kind \in Kernels => k \in Values(s)' \/ object[k].kind \in Kernels
    BY <1>8, <1>9 DEF Values
  <2> QED
    BY <1>7, <1>8, <2>1, <2>2, NoneForgotten DEF AllInv, CoreInv
<1> QED
  BY <1>10, <1>12, <1>13 DEF CoreInv

\* CloseHandle closes these values and no other.
LEMMA ClosedOnly ==
  ASSUME NEW hs, object' = Closed(hs)
  PROVE  \A k \in Handles : object'[k] = IF k \in hs THEN NoObject ELSE object[k]
  BY DEF Closed

LEMMA FailCore ==
  ASSUME NEW c \in Callers, AllInv(c), CreateFails(c) PROVE CoreInv(c)'
<1>1. caller[c].pc \in {"pipe", "spawn"} /\ caller[c].pc \in CreateSteps
  BY DEF CreateFails, At, CreateSteps
<1>2. PICK s \in Slots :
         /\ caller[c].slot = s /\ Making(c, s) /\ table[s] \in Entry /\ nextPid \in Nat \ {0}
         /\ caller[c].call \in {"sandboxed", "plain"} /\ initialized
         /\ table[s].signature => table[s].state # "Running"
  BY <1>1, MakeFacts
<1>3. /\ table[s].signature /\ table[s].pid = nextPid - 1 /\ nextPid > 1
      /\ At(c, "spawn") => ReadOpen(s) /\ WriteOpen(s)
  BY <1>1, <1>2 DEF AllInv, CoreInv, CreateOK, At
<1>4. table[s].lock # "dead"
  BY <1>1, <1>3 DEF AllInv, CoreInv, LocksOK
<1>5. /\ caller'[c].pc = "idle" /\ caller'[c].call = "none"
      /\ UNCHANGED <<initialized, published, nextPid, table, robbed>>
  BY Moved DEF CreateFails, AllInv
<1>6. \A k \in Handles : object'[k] = object[k] \/ object'[k] = NoObject
  BY ClosedOnly DEF CreateFails
<1>r. ~robbed => \A k \in Handles : object'[k] = object[k] \/ object[k].of = table[s].pid
  <2> SUFFICES ASSUME ~robbed
               PROVE  \A k \in Handles : object'[k] = object[k] \/ object[k].of = table[s].pid
    OBVIOUS
  <2>1. CASE UNCHANGED object
    BY <2>1
  <2>2. CASE At(c, "spawn") /\ object' = Closed({table[s].read, table[s].write})
    <3>1. /\ ObjectOf(table[s].read).of = table[s].pid /\ ObjectOf(table[s].write).of = table[s].pid
      BY <1>3, <2>2 DEF ReadOpen, WriteOpen
    <3>2. \A k \in Handles : k \in {table[s].read, table[s].write} => object[k].of = table[s].pid
      BY <3>1, ProcessTableAssumption DEF ObjectOf
    <3> QED
      BY <2>2, <3>2, ClosedOnly
  <2> QED
    BY <1>2, <2>1, <2>2 DEF CreateFails
<1>7. /\ PublishedOK(c)' /\ RunningPublished' /\ EndOK(c)' /\ ShutdownOK(c)'
      /\ LocksOK(c)' /\ DownOK'
  BY <1>2, <1>3, <1>4, <1>5, <1>r, MakeStep
<1>8. CreateOK(c)'
  BY <1>5 DEF CreateOK, Making, CreateSteps
<1>9. NoHandleLeak'
  BY <1>5, <1>6 DEF NoHandleLeak, AllInv, CoreInv, NoObject, Kernels
<1> QED
  BY <1>7, <1>8, <1>9 DEF CoreInv

LEMMA FinishCore ==
  ASSUME NEW c \in Callers, AllInv(c), FinishCreate(c) PROVE CoreInv(c)'
<1>1. caller[c].pc = "run" /\ caller[c].pc \in CreateSteps
  BY DEF FinishCreate, At, CreateSteps
<1>2. PICK s \in Slots :
         /\ caller[c].slot = s /\ Making(c, s) /\ table[s] \in Entry /\ nextPid \in Nat \ {0}
         /\ caller[c].call \in {"sandboxed", "plain"} /\ initialized
         /\ table[s].signature => table[s].state # "Running"
  BY <1>1, MakeFacts
<1>3. /\ table[s].signature /\ table[s].pid = nextPid - 1 /\ nextPid > 1
      /\ caller[c].call = "sandboxed" => AllOpen(s)
      /\ caller[c].call = "plain" => Empty(s)
  BY <1>1, <1>2 DEF AllInv, CoreInv, CreateOK, At
<1>4. table[s].lock # "dead"
  BY <1>1, <1>3 DEF AllInv, CoreInv, LocksOK
<1>5. /\ caller'[c].pc = "idle" /\ caller'[c].call = "none"
      /\ UNCHANGED <<initialized, nextPid, object, robbed>> /\ published' = published \cup {s}
      /\ \A t \in Slots \ {s} : table'[t] = table[t]
  BY <1>2, Moved DEF FinishCreate, AllInv, TypeInv, TypeOK
<1>6. /\ table'[s].signature /\ table'[s].pid = table[s].pid /\ table'[s].lock = table[s].lock
      /\ table'[s].process = table[s].process /\ table'[s].read = table[s].read
      /\ table'[s].write = table[s].write
      /\ caller[c].call = "plain" => table'[s].state = table[s].state
  BY <1>2, <1>3 DEF FinishCreate, Entry, AllInv, TypeInv, TypeOK
<1>7. Intact(s)'
  <2>1. CASE caller[c].call = "sandboxed"
    <3>1. AllOpen(s)'
      BY <1>3, <1>5, <1>6, <2>1 DEF AllOpen, ChildOpen, ReadOpen, WriteOpen, ObjectOf
    <3> QED
      BY <3>1 DEF Intact
  <2>2. CASE caller[c].call = "plain"
    <3>1. Empty(s)' /\ table'[s].state # "Running"
      BY <1>2, <1>3, <1>6, <2>2 DEF Empty
    <3> QED
      BY <3>1 DEF Intact
  <2> QED
    BY <1>2, <2>1, <2>2
<1>8. \A t \in published \ {s} : /\ table'[t].signature /\ table'[t].pid \in 1..(nextPid' - 1)
                                 /\ Intact(t)'
  <2>1. \A t \in published \ {s} :
           /\ table'[t].signature /\ table'[t].pid \in 1..(nextPid' - 1)
           /\ caller[c].call # "shutdown" => Intact(t)'
    BY <1>2, <1>5, OthersIntact
  <2> QED
    BY <1>2, <2>1
<1>9. PublishedOK(c)'
  <2>1. table'[s].signature /\ table'[s].pid \in 1..(nextPid' - 1)
    BY <1>2, <1>3, <1>5, <1>6
  <2>2. \A t \in published' : /\ table'[t].signature /\ table'[t].pid \in 1..(nextPid' - 1)
                              /\ Intact(t)'
    BY <1>5, <1>7, <1>8, <2>1
  <2> QED
    BY <1>5, <2>2 DEF PublishedOK, Making, CreateSteps
<1>10. RunningPublished'
  BY <1>5 DEF AllInv, CoreInv, RunningPublished
<1>11. CreateOK(c)' /\ EndOK(c)' /\ ShutdownOK(c)' /\ DownOK'
  BY <1>2, <1>5 DEF CreateOK, EndOK, ShutdownOK, DownOK, Making, Ending, At, CreateSteps, TermSteps
<1>12. LocksOK(c)'
  BY <1>1, <1>4, <1>5, <1>6 DEF AllInv, CoreInv, LocksOK
<1>13. NoHandleLeak'
  <2>1. Values(s)' = Values(s)
    BY <1>6 DEF Values
  <2> QED
    BY <1>5, <1>6, <2>1, NoneForgotten DEF AllInv, CoreInv
<1> QED
  BY <1>9, <1>10, <1>11, <1>12, <1>13 DEF CoreInv

-----------------------------------------------------------------------------
(* The steps of a termination *)

LEMMA EndFacts ==
  ASSUME NEW c \in Callers, AllInv(c), caller[c].pc \in TermSteps
  PROVE  \E s \in Slots :
           /\ caller[c].slot = s /\ Ending(c, s) /\ table[s].signature
           /\ caller[c].call \in {"terminate", "shutdown"} /\ initialized
           /\ caller[c].call = "terminate" => s \in published /\ table[s].pid # 0
           /\ table[s] \in Entry
<1>1. caller[c].slot \in Slots
  BY Moved DEF AllInv, TermSteps
<1>2. PICK s \in Slots : s = caller[c].slot
  BY <1>1
<1>3. Ending(c, s)
  BY <1>2 DEF Ending
<1>4. /\ table[s].signature /\ caller[c].call \in {"terminate", "shutdown"} /\ initialized
      /\ caller[c].call = "terminate" => s \in published
  BY <1>3 DEF AllInv, CoreInv, EndOK
<1>5. s \in published => table[s].pid # 0
  BY DEF AllInv, CoreInv, PublishedOK
<1> QED
  BY <1>2, <1>3, <1>4, <1>5 DEF AllInv, TypeInv, TypeOK

\* What a step of a termination of slot s leaves true.
LEMMA EndStep ==
  ASSUME NEW c \in Callers, AllInv(c), NEW s \in Slots, Ending(c, s),
         UNCHANGED <<initialized, published, nextPid, robbed>>,
         \A t \in Slots \ {s} : table'[t] = table[t],
         table'[s].signature, table'[s].pid = table[s].pid, table'[s].lock # "dead",
         table'[s].state = table[s].state \/ table'[s].state = "Terminated",
         caller'[c].pc \in TermSteps, caller'[c].slot = s, caller'[c].call = caller[c].call,
         caller[c].call # "shutdown" /\ ~robbed =>
           \A k \in Handles : object'[k] = object[k] \/ object[k].of = table[s].pid
  PROVE  /\ PublishedOK(c)' /\ RunningPublished' /\ CreateOK(c)' /\ ShutdownOK(c)'
         /\ LocksOK(c)' /\ DownOK'
<1>1. /\ caller[c].pc \in TermSteps /\ caller[c].slot = s /\ table[s].signature
      /\ caller[c].call \in {"terminate", "shutdown"} /\ initialized
      /\ caller[c].call = "terminate" => s \in published /\ table[s].pid # 0
  BY EndFacts DEF Ending
<1>2. published \subseteq Slots
  BY DEF AllInv, TypeInv, TypeOK
<1>3. \A t \in published \ {s} :
         /\ table'[t].signature /\ table'[t].pid \in 1..(nextPid' - 1)
         /\ caller[c].call # "shutdown" => Intact(t)'
  <2>1. caller[c].call # "shutdown" /\ ~robbed =>
           \A k \in Handles : \/ object'[k] = object[k] \/ object[k] = NoObject
                              \/ object[k].of = table[s].pid /\ table[s].pid # 0
    BY <1>1
  <2> QED
    BY <2>1, OthersIntact
<1>4. s \in published => table'[s].signature /\ table'[s].pid \in 1..(nextPid' - 1)
  BY DEF AllInv, CoreInv, PublishedOK
<1>5. PublishedOK(c)'
  <2>1. \A t \in Slots : ~Making(c, t)'
    BY DEF Making, CreateSteps, TermSteps
  <2>2. Ending(c, s)'
    BY DEF Ending
  <2>3. \A t \in published' : /\ table'[t].signature /\ table'[t].pid \in 1..(nextPid' - 1)
                              /\ caller'[c].call # "shutdown" /\ t # s => Intact(t)'
    BY <1>3, <1>4
  <2> QED
    BY <1>2, <2>1, <2>2, <2>3 DEF PublishedOK
<1>6. RunningPublished'
  BY <1>1 DEF AllInv, CoreInv, RunningPublished
<1>7. CreateOK(c)' /\ DownOK'
  BY <1>1 DEF CreateOK, Making, DownOK, CreateSteps, TermSteps
<1>8. ShutdownOK(c)'
  <2>1. ~At(c, "idle")' /\ ~At(c, "next")' /\ ~At(c, "next")
    BY <1>1 DEF At, TermSteps
  <2>2. \A t \in Slots : table'[t].signature => table[t].signature
    BY <1>1
  <2> QED
    BY <1>1, <2>1, <2>2 DEF AllInv, CoreInv, ShutdownOK
<1>9. LocksOK(c)'
  <2>1. caller[c].pc \notin {"enter", "bump"}
    BY <1>1 DEF TermSteps
  <2> QED
    BY <2>1 DEF AllInv, CoreInv, LocksOK
<1> QED
  BY <1>5, <1>6, <1>7, <1>8, <1>9

\* Closing a value leaves what refers to another object open.
LEMMA OtherOpen ==
  ASSUME NEW v \in Handles \cup {NoHandle}, NEW u \in Handles \cup {NoHandle},
         object' = Closed({v}), v = NoHandle \/ ObjectOf(v) # ObjectOf(u)
  PROVE  ObjectOf(u)' = ObjectOf(u)
<1>1. CASE u = NoHandle
  BY <1>1 DEF ObjectOf
<1>2. CASE u # NoHandle
  <2>1. u \in Handles /\ u # v
    BY <1>2
  <2>2. object'[u] = object[u]
    BY <2>1 DEF Closed
  <2> QED
    BY <1>2, <2>2 DEF ObjectOf
<1> QED
  BY <1>1, <1>2

\* The values of a slot, as constants a step does not change.
LEMMA SlotValues ==
  ASSUME TypeInv, NEW s \in Slots
  PROVE  \E p, r, w \in Handles \cup {NoHandle} :
           table[s].process = p /\ table[s].read = r /\ table[s].write = w
  BY DEF TypeInv, TypeOK, Entry

\* A termination closes what belongs to its own process, or nothing.
LEMMA ClosesOwn ==
  ASSUME NEW v \in Handles \cup {NoHandle}, NEW p, object' = Closed({v}),
         v = NoHandle \/ ObjectOf(v).of = p
  PROVE  \A k \in Handles : object'[k] = object[k] \/ object[k].of = p
<1> SUFFICES ASSUME NEW k \in Handles, k = v
             PROVE  object[k].of = p
  BY ClosedOnly
<1> QED
  BY ProcessTableAssumption DEF ObjectOf, ProcessTableAssumption

\* After a value of the slot is closed and cleared, every open handle still has its place.
LEMMA ClearedLeak ==
  ASSUME NoHandleLeak, NEW s \in Slots, NEW v, object' = Closed({v}),
         \A t \in Slots \ {s} : table'[t] = table[t],
         table[s].signature, table'[s].signature,
         \A h \in Handles : h \in Values(s) => h = v \/ h \in Values(s)'
  PROVE  NoHandleLeak'
<1>1. \A h \in Handles : object'[h].kind \in Kernels => h # v /\ object[h].kind \in Kernels
  BY ClosedOnly DEF NoObject, Kernels
<1> QED
  BY <1>1, NoneForgotten

LEMMA CloseProcessCore ==
  ASSUME NEW c \in Callers, AllInv(c), CloseProcess(c) PROVE CoreInv(c)'
<1>1. caller[c].pc = "process" /\ caller[c].pc \in TermSteps
  BY DEF CloseProcess, At, TermSteps
<1>2. PICK s \in Slots :
         /\ caller[c].slot = s /\ Ending(c, s) /\ table[s].signature
         /\ caller[c].call \in {"terminate", "shutdown"} /\ initialized
         /\ caller[c].call = "terminate" => s \in published /\ table[s].pid # 0
         /\ table[s] \in Entry
  BY <1>1, EndFacts
<1>3. PICK p, r, w \in Handles \cup {NoHandle} :
         table[s].process = p /\ table[s].read = r /\ table[s].write = w
  BY SlotValues DEF AllInv
<1>4. /\ object' = Closed({p})
      /\ table' = [table EXCEPT ![s].lock = c, ![s].process = NoHandle]
      /\ UNCHANGED <<initialized, nextPid, published, robbed>>
  BY <1>2, <1>3 DEF CloseProcess
<1>5. /\ caller'[c].pc = "read" /\ caller'[c].slot = s /\ caller'[c].call = caller[c].call
      /\ \A t \in Slots \ {s} : table'[t] = table[t]
  BY <1>2, <1>4, Moved DEF CloseProcess, AllInv, TypeInv, TypeOK
<1>6. /\ table'[s].signature /\ table'[s].pid = table[s].pid /\ table'[s].state = table[s].state
      /\ table'[s].lock = c /\ table'[s].process = NoHandle
      /\ table'[s].read = r /\ table'[s].write = w
  BY <1>2, <1>3, <1>4 DEF Entry, AllInv, TypeInv, TypeOK
<1>7. c # "dead" /\ "read" \in TermSteps
  BY ProcessTableAssumption DEF ProcessTableAssumption, TermSteps
<1>8. caller[c].call = "terminate" /\ ~robbed =>
         /\ p = NoHandle \/ ObjectOf(p) = [kind |-> "process", of |-> table[s].pid]
         /\ r = NoHandle \/ ObjectOf(r) = [kind |-> "read", of |-> table[s].pid]
         /\ w = NoHandle \/ ObjectOf(w) = [kind |-> "write", of |-> table[s].pid]
  BY <1>2, <1>3 DEF AllInv, CoreInv, EndOK, ChildOpen, ReadOpen, WriteOpen
<1>9. caller[c].call # "shutdown" /\ ~robbed =>
         \A k \in Handles : object'[k] = object[k] \/ object[k].of = table[s].pid
  <2>1. caller[c].call # "shutdown" /\ ~robbed => p = NoHandle \/ ObjectOf(p).of = table[s].pid
    BY <1>2, <1>8
  <2>2. PICK q : q = table[s].pid
    OBVIOUS
  <2> QED
    BY <1>4, <2>1, <2>2, ClosesOwn
<1>10. /\ PublishedOK(c)' /\ RunningPublished' /\ CreateOK(c)' /\ ShutdownOK(c)'
       /\ LocksOK(c)' /\ DownOK'
  BY <1>2, <1>4, <1>5, <1>6, <1>7, <1>9, EndStep
<1>11. EndOK(c)'
  <2>0. CASE robbed
    BY <1>2, <1>4, <1>5, <1>6, <2>0 DEF EndOK, Ending, ChildOpen, ReadOpen, WriteOpen
  <2>1. ASSUME caller[c].call = "terminate", ~robbed
        PROVE  /\ ReadOpen(s)' \/ table'[s].read = NoHandle
               /\ WriteOpen(s)' \/ table'[s].write = NoHandle
    <3>1. /\ r = NoHandle \/ ObjectOf(r)' = [kind |-> "read", of |-> table[s].pid]
          /\ w = NoHandle \/ ObjectOf(w)' = [kind |-> "write", of |-> table[s].pid]
      <4>1. \A a, b, d : [kind |-> a, of |-> d] = [kind |-> b, of |-> d] => a = b
        OBVIOUS
      <4>2. p = NoHandle \/ r = NoHandle \/ ObjectOf(p) # ObjectOf(r)
        BY <1>8, <2>1
      <4>3. p = NoHandle \/ w = NoHandle \/ ObjectOf(p) # ObjectOf(w)
        BY <1>8, <2>1
      <4>4. r = NoHandle \/ ObjectOf(r)' = ObjectOf(r)
        BY <1>4, <4>2, OtherOpen
      <4>5. w = NoHandle \/ ObjectOf(w)' = ObjectOf(w)
        BY <1>4, <4>3, OtherOpen
      <4> QED
        BY <1>8, <2>1, <4>4, <4>5
    <3> QED
      BY <1>6, <3>1 DEF ReadOpen, WriteOpen, ObjectOf
  <2> QED
    BY <1>2, <1>4, <1>5, <1>6, <2>0, <2>1 DEF EndOK, Ending
<1>12. NoHandleLeak'
  <2>1. \A h \in Handles : h \in Values(s) => h = p \/ h \in Values(s)'
    BY <1>3, <1>6 DEF Values
  <2> QED
    BY <1>2, <1>4, <1>5, <1>6, <2>1, ClearedLeak DEF AllInv, CoreInv
<1> QED
  BY <1>10, <1>11, <1>12 DEF CoreInv

LEMMA ClosePipeReadCore ==
  ASSUME NEW c \in Callers, AllInv(c), ClosePipeRead(c) PROVE CoreInv(c)'
<1>1. caller[c].pc = "read" /\ caller[c].pc \in TermSteps
  BY DEF ClosePipeRead, At, TermSteps
<1>2. PICK s \in Slots :
         /\ caller[c].slot = s /\ Ending(c, s) /\ table[s].signature
         /\ caller[c].call \in {"terminate", "shutdown"} /\ initialized
         /\ caller[c].call = "terminate" => s \in published /\ table[s].pid # 0
         /\ table[s] \in Entry
  BY <1>1, EndFacts
<1>3. PICK p, r, w \in Handles \cup {NoHandle} :
         table[s].process = p /\ table[s].read = r /\ table[s].write = w
  BY SlotValues DEF AllInv
<1>4. /\ object' = Closed({r})
      /\ table' = [table EXCEPT ![s].read = NoHandle]
      /\ UNCHANGED <<initialized, nextPid, published, robbed>>
  BY <1>2, <1>3 DEF ClosePipeRead
<1>5. /\ caller'[c].pc = "write" /\ caller'[c].slot = s /\ caller'[c].call = caller[c].call
      /\ \A t \in Slots \ {s} : table'[t] = table[t]
  BY <1>2, <1>4, Moved DEF ClosePipeRead, AllInv, TypeInv, TypeOK
<1>6. /\ table'[s].signature /\ table'[s].pid = table[s].pid /\ table'[s].state = table[s].state
      /\ table'[s].lock = table[s].lock /\ table'[s].process = p
      /\ table'[s].read = NoHandle /\ table'[s].write = w
  BY <1>2, <1>3, <1>4 DEF Entry, AllInv, TypeInv, TypeOK
<1>7. table[s].lock # "dead" /\ "write" \in TermSteps /\ p = NoHandle
  BY <1>1, <1>2, <1>3 DEF AllInv, CoreInv, LocksOK, EndOK, TermSteps
<1>8. caller[c].call = "terminate" /\ ~robbed =>
         /\ r = NoHandle \/ ObjectOf(r) = [kind |-> "read", of |-> table[s].pid]
         /\ w = NoHandle \/ ObjectOf(w) = [kind |-> "write", of |-> table[s].pid]
  BY <1>2, <1>3 DEF AllInv, CoreInv, EndOK, ReadOpen, WriteOpen
<1>9. caller[c].call # "shutdown" /\ ~robbed =>
         \A k \in Handles : object'[k] = object[k] \/ object[k].of = table[s].pid
  <2>1. caller[c].call # "shutdown" /\ ~robbed => r = NoHandle \/ ObjectOf(r).of = table[s].pid
    BY <1>2, <1>8
  <2>2. PICK q : q = table[s].pid
    OBVIOUS
  <2> QED
    BY <1>4, <2>1, <2>2, ClosesOwn
<1>10. /\ PublishedOK(c)' /\ RunningPublished' /\ CreateOK(c)' /\ ShutdownOK(c)'
       /\ LocksOK(c)' /\ DownOK'
  BY <1>2, <1>4, <1>5, <1>6, <1>7, <1>9, EndStep
<1>11. EndOK(c)'
  <2>0. CASE robbed
    BY <1>2, <1>4, <1>5, <1>6, <1>7, <2>0 DEF EndOK, Ending, ChildOpen, ReadOpen, WriteOpen
  <2>1. ASSUME caller[c].call = "terminate", ~robbed
        PROVE  WriteOpen(s)' \/ table'[s].write = NoHandle
    <3>1. w = NoHandle \/ ObjectOf(w)' = [kind |-> "write", of |-> table[s].pid]
      <4>1. r = NoHandle \/ w = NoHandle \/ ObjectOf(r) # ObjectOf(w)
        BY <1>8, <2>1
      <4>2. w = NoHandle \/ ObjectOf(w)' = ObjectOf(w)
        BY <1>4, <4>1, OtherOpen
      <4> QED
        BY <1>8, <2>1, <4>2
    <3> QED
      BY <1>6, <3>1 DEF WriteOpen, ObjectOf
  <2> QED
    BY <1>2, <1>4, <1>5, <1>6, <1>7, <2>0, <2>1 DEF EndOK, Ending
<1>12. NoHandleLeak'
  <2>1. \A h \in Handles : h \in Values(s) => h = r \/ h \in Values(s)'
    BY <1>3, <1>6 DEF Values
  <2> QED
    BY <1>2, <1>4, <1>5, <1>6, <2>1, ClearedLeak DEF AllInv, CoreInv
<1> QED
  BY <1>10, <1>11, <1>12 DEF CoreInv

LEMMA ClosePipeWriteCore ==
  ASSUME NEW c \in Callers, AllInv(c), ClosePipeWrite(c) PROVE CoreInv(c)'
<1>1. caller[c].pc = "write" /\ caller[c].pc \in TermSteps
  BY DEF ClosePipeWrite, At, TermSteps
<1>2. PICK s \in Slots :
         /\ caller[c].slot = s /\ Ending(c, s) /\ table[s].signature
         /\ caller[c].call \in {"terminate", "shutdown"} /\ initialized
         /\ caller[c].call = "terminate" => s \in published /\ table[s].pid # 0
         /\ table[s] \in Entry
  BY <1>1, EndFacts
<1>3. PICK p, r, w \in Handles \cup {NoHandle} :
         table[s].process = p /\ table[s].read = r /\ table[s].write = w
  BY SlotValues DEF AllInv
<1>4. /\ object' = Closed({w})
      /\ table' = [table EXCEPT ![s].write = NoHandle]
      /\ UNCHANGED <<initialized, nextPid, published, robbed>>
  BY <1>2, <1>3 DEF ClosePipeWrite
<1>5. /\ caller'[c].pc = "mark" /\ caller'[c].slot = s /\ caller'[c].call = caller[c].call
      /\ \A t \in Slots \ {s} : table'[t] = table[t]
  BY <1>2, <1>4, Moved DEF ClosePipeWrite, AllInv, TypeInv, TypeOK
<1>6. /\ table'[s].signature /\ table'[s].pid = table[s].pid /\ table'[s].state = table[s].state
      /\ table'[s].lock = table[s].lock /\ table'[s].process = p
      /\ table'[s].read = r /\ table'[s].write = NoHandle
  BY <1>2, <1>3, <1>4 DEF Entry, AllInv, TypeInv, TypeOK
<1>7. table[s].lock # "dead" /\ "mark" \in TermSteps /\ p = NoHandle /\ r = NoHandle
  BY <1>1, <1>2, <1>3 DEF AllInv, CoreInv, LocksOK, EndOK, TermSteps
<1>8. caller[c].call # "shutdown" /\ ~robbed =>
         \A k \in Handles : object'[k] = object[k] \/ object[k].of = table[s].pid
  <2>a. caller[c].call = "terminate" /\ ~robbed =>
           w = NoHandle \/ ObjectOf(w) = [kind |-> "write", of |-> table[s].pid]
    BY <1>2, <1>3 DEF AllInv, CoreInv, EndOK, WriteOpen
  <2>1. caller[c].call # "shutdown" /\ ~robbed => w = NoHandle \/ ObjectOf(w).of = table[s].pid
    BY <1>2, <2>a
  <2>2. PICK q : q = table[s].pid
    OBVIOUS
  <2> QED
    BY <1>4, <2>1, <2>2, ClosesOwn
<1>9. /\ PublishedOK(c)' /\ RunningPublished' /\ CreateOK(c)' /\ ShutdownOK(c)'
      /\ LocksOK(c)' /\ DownOK'
  BY <1>2, <1>4, <1>5, <1>6, <1>7, <1>8, EndStep
<1>10. EndOK(c)'
  BY <1>2, <1>4, <1>5, <1>6, <1>7 DEF EndOK, Ending
<1>11. NoHandleLeak'
  <2>1. \A h \in Handles : h \in Values(s) => h = w \/ h \in Values(s)'
    BY <1>3, <1>6 DEF Values
  <2> QED
    BY <1>2, <1>4, <1>5, <1>6, <2>1, ClearedLeak DEF AllInv, CoreInv
<1> QED
  BY <1>9, <1>10, <1>11 DEF CoreInv

LEMMA MarkCore ==
  ASSUME NEW c \in Callers, AllInv(c), MarkTerminated(c) PROVE CoreInv(c)'
<1>1. caller[c].pc = "mark" /\ caller[c].pc \in TermSteps
  BY DEF MarkTerminated, At, TermSteps
<1>2. PICK s \in Slots :
         /\ caller[c].slot = s /\ Ending(c, s) /\ table[s].signature
         /\ caller[c].call \in {"terminate", "shutdown"} /\ initialized
         /\ caller[c].call = "terminate" => s \in published /\ table[s].pid # 0
         /\ table[s] \in Entry
  BY <1>1, EndFacts
<1>3. table[s].process = NoHandle /\ table[s].read = NoHandle /\ table[s].write = NoHandle
  BY <1>1, <1>2 DEF AllInv, CoreInv, EndOK, TermSteps
<1>4. /\ table' = [table EXCEPT ![s].state = "Terminated", ![s].lock = NoCaller]
      /\ UNCHANGED <<initialized, nextPid, published, object, robbed>>
  BY <1>2 DEF MarkTerminated
<1>5. /\ caller'[c].pc = "free" /\ caller'[c].slot = s /\ caller'[c].call = caller[c].call
      /\ \A t \in Slots \ {s} : table'[t] = table[t]
  BY <1>2, <1>4, Moved DEF MarkTerminated, AllInv, TypeInv, TypeOK
<1>6. /\ table'[s].signature /\ table'[s].pid = table[s].pid /\ table'[s].state = "Terminated"
      /\ table'[s].lock = NoCaller /\ table'[s].process = NoHandle
      /\ table'[s].read = NoHandle /\ table'[s].write = NoHandle
  BY <1>2, <1>3, <1>4 DEF Entry, AllInv, TypeInv, TypeOK
<1>7. NoCaller # "dead" /\ "free" \in TermSteps
  BY ProcessTableAssumption DEF ProcessTableAssumption, TermSteps
<1>8. /\ PublishedOK(c)' /\ RunningPublished' /\ CreateOK(c)' /\ ShutdownOK(c)'
      /\ LocksOK(c)' /\ DownOK'
  <2>1. \A k \in Handles : object'[k] = object[k] \/ object[k].of = table[s].pid
    BY <1>4
  <2> QED
    BY <1>2, <1>4, <1>5, <1>6, <1>7, <2>1, EndStep
<1>9. EndOK(c)'
  BY <1>2, <1>4, <1>5, <1>6 DEF EndOK, Ending
<1>10. NoHandleLeak'
  <2>1. Values(s)' = Values(s)
    BY <1>3, <1>6 DEF Values
  <2> QED
    BY <1>2, <1>4, <1>5, <1>6, <2>1, NoneForgotten DEF AllInv, CoreInv
<1> QED
  BY <1>8, <1>9, <1>10 DEF CoreInv

LEMMA FreeCore ==
  ASSUME NEW c \in Callers, AllInv(c), FreeSlot(c) PROVE CoreInv(c)'
<1>1. caller[c].pc = "free" /\ caller[c].pc \in TermSteps
  BY DEF FreeSlot, At, TermSteps
<1>2. PICK s \in Slots :
         /\ caller[c].slot = s /\ Ending(c, s) /\ table[s].signature
         /\ caller[c].call \in {"terminate", "shutdown"} /\ initialized
         /\ caller[c].call = "terminate" => s \in published /\ table[s].pid # 0
         /\ table[s] \in Entry
  BY <1>1, EndFacts
<1>3. table[s].process = NoHandle /\ table[s].read = NoHandle /\ table[s].write = NoHandle
  BY <1>1, <1>2 DEF AllInv, CoreInv, EndOK, TermSteps
<1>4. /\ table' = [table EXCEPT ![s].lock = "dead", ![s].signature = FALSE]
      /\ UNCHANGED <<initialized, nextPid, object, robbed>> /\ published' = published \ {s}
  BY <1>2 DEF FreeSlot
<1>5. ~table'[s].signature /\ \A t \in Slots \ {s} : table'[t] = table[t]
  BY <1>2, <1>4 DEF Entry, AllInv, TypeInv, TypeOK
<1>6. \/ /\ caller[c].call = "shutdown" /\ caller'[c].pc = "next"
         /\ caller'[c].slot = s /\ caller'[c].call = "shutdown"
      \/ caller[c].call # "shutdown" /\ caller'[c].pc = "idle" /\ caller'[c].call = "none"
  BY <1>2, Moved DEF FreeSlot, AllInv
<1>7. caller'[c].pc \notin CreateSteps \cup TermSteps /\ published \subseteq Slots
  BY <1>6 DEF CreateSteps, TermSteps, AllInv, TypeInv, TypeOK
<1>8. PublishedOK(c)'
  <2>1. caller[c].call # "shutdown" =>
           \A k \in Handles : \/ object'[k] = object[k] \/ object[k] = NoObject
                              \/ object[k].of = table[s].pid /\ table[s].pid # 0
    BY <1>4
  <2>2. \A t \in published \ {s} :
           /\ table'[t].signature /\ table'[t].pid \in 1..(nextPid' - 1)
           /\ caller[c].call # "shutdown" => Intact(t)'
    BY <1>2, <1>4, <1>5, <2>1, OthersIntact
  <2> QED
    BY <1>4, <1>6, <1>7, <2>2 DEF PublishedOK, Making, Ending
<1>9. RunningPublished'
  BY <1>4, <1>5 DEF AllInv, CoreInv, RunningPublished
<1>10. CreateOK(c)' /\ EndOK(c)' /\ DownOK'
  BY <1>2, <1>4, <1>7 DEF CreateOK, EndOK, DownOK, Making, Ending
<1>11. ShutdownOK(c)'
  <2>1. \A t \in Slots : table'[t].signature => table[t].signature /\ t # s
    BY <1>5
  <2>2. caller[c].call = "shutdown" => \A t \in Slots : table[t].signature => t >= s
    BY <1>2 DEF AllInv, CoreInv, ShutdownOK
  <2>3. \A t \in Slots : t >= s /\ t # s => t > s
    BY ProcessTableAssumption DEF ProcessTableAssumption, Slots
  <2> QED
    BY <1>2, <1>4, <1>6, <2>1, <2>2, <2>3 DEF ShutdownOK, At
<1>12. LocksOK(c)'
  <2>1. caller[c].pc \notin {"enter", "bump"}
    BY <1>1
  <2> QED
    BY <1>5, <2>1 DEF AllInv, CoreInv, LocksOK
<1>13. NoHandleLeak'
  <2>1. \A h \in Handles : h \notin Values(s)
    BY <1>3, ProcessTableAssumption DEF Values, ProcessTableAssumption
  <2> QED
    BY <1>4, <1>5, <2>1, NoneForgotten DEF AllInv, CoreInv
<1> QED
  BY <1>8, <1>9, <1>10, <1>11, <1>12, <1>13 DEF CoreInv

-----------------------------------------------------------------------------
(* The invariant, and what follows from it *)

\* A guest's calls, and every step that is not the host's: handles that are not the
\* kernel's come and go, and what else is closed counts as robbed.
LEMMA CoreFrame ==
  ASSUME NEW c \in Callers, AllInv(c),
         UNCHANGED <<initialized, nextPid, table, published, caller>>,
         robbed => robbed',
         \A h \in Handles : \/ object'[h] = object[h]
                            \/ /\ object'[h].kind \notin Kernels
                               /\ object[h].kind \in Kernels => robbed'
  PROVE  CoreInv(c)'
<1>0. CoreInv(c) /\ TypeInv /\ published \subseteq Slots
  BY DEF AllInv, TypeInv, TypeOK
<1>1. ASSUME NEW v \in Handles \cup {NoHandle}, NEW kind \in Kernels, NEW p,
             ObjectOf(v) = [kind |-> kind, of |-> p], ~robbed'
      PROVE  ObjectOf(v)' = [kind |-> kind, of |-> p]
  <2>1. v \in Handles /\ v # NoHandle /\ object[v].kind \in Kernels
    BY <1>1 DEF ObjectOf, NoObject, Kernels
  <2>2. object'[v] = object[v]
    BY <1>1, <2>1
  <2> QED
    BY <1>1, <2>1, <2>2 DEF ObjectOf
<1>2. \A s \in Slots : /\ ChildOpen(s) => ChildOpen(s)'
                       /\ ReadOpen(s) => ReadOpen(s)'
                       /\ WriteOpen(s) => WriteOpen(s)'
  <2> SUFFICES ASSUME NEW s \in Slots, ~robbed'
               PROVE  /\ ChildOpen(s) => ChildOpen(s)'
                      /\ ReadOpen(s) => ReadOpen(s)'
                      /\ WriteOpen(s) => WriteOpen(s)'
    BY DEF ChildOpen, ReadOpen, WriteOpen
  <2>1. PICK p, r, w \in Handles \cup {NoHandle} :
           table[s].process = p /\ table[s].read = r /\ table[s].write = w
    BY <1>0, SlotValues
  <2>2. PICK q : q = table[s].pid
    OBVIOUS
  <2>3. /\ ObjectOf(p) = [kind |-> "process", of |-> q] => ObjectOf(p)' = [kind |-> "process", of |-> q]
        /\ ObjectOf(r) = [kind |-> "read", of |-> q] => ObjectOf(r)' = [kind |-> "read", of |-> q]
        /\ ObjectOf(w) = [kind |-> "write", of |-> q] => ObjectOf(w)' = [kind |-> "write", of |-> q]
    BY <1>1 DEF Kernels
  <2> QED
    BY <2>1, <2>2, <2>3 DEF ChildOpen, ReadOpen, WriteOpen, ObjectOf
<1>3. \A s \in Slots : (Empty(s)' <=> Empty(s)) /\ (Intact(s) => Intact(s)')
                       /\ (AllOpen(s) => AllOpen(s)')
  BY <1>2 DEF Empty, Intact, AllOpen
<1>4. PublishedOK(c)'
  BY <1>0, <1>3 DEF CoreInv, PublishedOK, Making, Ending
<1>5. CreateOK(c)'
  BY <1>0, <1>2, <1>3 DEF CoreInv, CreateOK, Making, At
<1>6. EndOK(c)'
  BY <1>0, <1>2 DEF CoreInv, EndOK, Ending
<1>7. RunningPublished' /\ ShutdownOK(c)' /\ LocksOK(c)' /\ DownOK'
  BY <1>0 DEF CoreInv, RunningPublished, ShutdownOK, LocksOK, DownOK, At
<1>8. NoHandleLeak'
  BY <1>0 DEF CoreInv, NoHandleLeak
<1> QED
  BY <1>4, <1>5, <1>6, <1>7, <1>8 DEF CoreInv

\* What a guest opens takes a free value; what it closes is the kernel's or not.
LEMMA GuestCore ==
  ASSUME NEW c \in Callers, AllInv(c), NEW w \in Pids, GuestOpens(w) \/ GuestCloses(w)
  PROVE  CoreInv(c)'
<1>1. UNCHANGED <<initialized, nextPid, table, published, caller>> /\ (robbed => robbed')
  <2>1. UNCHANGED <<initialized, nextPid, table, published, caller>>
    BY DEF GuestOpens, GuestCloses
  <2>2. GuestOpens(w) => robbed' = robbed
    BY DEF GuestOpens
  <2>3. GuestCloses(w) => (robbed => robbed')
    BY Zenon DEF GuestCloses
  <2> QED
    BY <2>1, <2>2, <2>3
<1>2. CASE GuestOpens(w)
  <2>1. FreeHandles \in SUBSET Handles
    BY DEF FreeHandles
  <2>2. Recycle[FreeHandles] \subseteq FreeHandles
    <3> HIDE DEF FreeHandles
    <3> QED
      BY <2>1, ProcessTableAssumption, Zenon DEF ProcessTableAssumption
  <2>3. PICK h \in FreeHandles, q \in Pids \cup {0} :
           object' = [object EXCEPT ![h] = [kind |-> "guest", of |-> q]]
    BY <1>2, <2>2 DEF GuestOpens
  <2>4. object[h] = NoObject /\ object \in [Handles -> Object \cup {NoObject}] /\ h \in Handles
    BY <2>3 DEF FreeHandles, AllInv, TypeInv, TypeOK
  <2>5. /\ object'[h].kind \notin Kernels /\ object[h].kind \notin Kernels
        /\ \A k \in Handles \ {h} : object'[k] = object[k]
    BY <2>3, <2>4 DEF NoObject, Kernels
  <2> QED
    BY <1>1, <2>5, CoreFrame
<1>3. CASE GuestCloses(w)
  <2>1. PICK h \in Handles : /\ object' = Closed({h})
                            /\ robbed' = (robbed \/ object[h].kind \in Kernels)
    BY <1>3 DEF GuestCloses
  <2>2. \A k \in Handles : object'[k] = IF k = h THEN NoObject ELSE object[k]
    BY <2>1 DEF Closed
  <2>3. NoObject.kind \notin Kernels
    BY DEF NoObject, Kernels
  <2> QED
    BY <1>1, <2>1, <2>2, <2>3, CoreFrame
<1> QED
  BY <1>2, <1>3

LEMMA InitCore == Init => \A c \in Callers : CoreInv(c)
<1> SUFFICES ASSUME Init, NEW c \in Callers PROVE CoreInv(c)
  OBVIOUS
<1>1. /\ caller[c].pc = "idle" /\ caller[c].call = "none" /\ published = {}
      /\ \A s \in Slots : ~table[s].signature
      /\ \A h \in Handles : object[h] = NoObject
  BY DEF Init, Idle, NoEntry
<1> QED
  BY <1>1 DEF CoreInv, PublishedOK, RunningPublished, CreateOK, EndOK, ShutdownOK, LocksOK,
     DownOK, NoHandleLeak, Making, Ending, CreateSteps, TermSteps, At, NoObject, Kernels

LEMMA CoreStep ==
  ASSUME NEW c \in Callers, Callers = {c}, AllInv(c), [Next]_vars
  PROVE  CoreInv(c)'
<1>0. CoreInv(c)
  BY DEF AllInv
<1>1. ASSUME Begin(c) PROVE CoreInv(c)'
  BY <1>1, FindCore, TerminateCore, InitializeCore, ShutdownCore DEF Begin
<1>2. ASSUME Continue(c) PROVE CoreInv(c)'
  BY <1>2, ClaimCore, EnterCore, BumpCore, PipeCore, SpawnCore, FinishCore, FailCore,
     CloseProcessCore, ClosePipeReadCore, ClosePipeWriteCore, MarkCore, FreeCore, ShutdownCore
     DEF Continue
<1>3. ASSUME NEW w \in Pids, Work(w) \/ Receive(w) \/ ChildEnds(w) PROVE CoreInv(c)'
  <2>1. /\ UNCHANGED <<initialized, nextPid, table, published, caller>>
        /\ UNCHANGED <<object, robbed>> \/ GuestOpens(w) \/ GuestCloses(w)
    BY <1>3, WorkerFrame DEF AllInv
  <2> QED
    BY <2>1, CoreFrame, GuestCore
<1>4. ASSUME UNCHANGED vars PROVE CoreInv(c)'
  <2>1. UNCHANGED <<initialized, nextPid, table, published, object, caller, robbed>>
    BY <1>4 DEF vars
  <2> QED
    BY <2>1, CoreFrame
<1> QED
  BY <1>1, <1>2, <1>3, <1>4 DEF Next

LEMMA AllInvariant ==
  ASSUME NEW c, Callers = {c} PROVE Spec => []AllInv(c)
<1>0. c \in Callers
  OBVIOUS
<1>1. Init => CoreInv(c)
  BY <1>0, InitCore
<1>2. Init => PidInv
  BY DEF Init, PidInv, PidBelow, PidsNeverShared, NoEntry
<1>3. TypeInv /\ PidInv /\ CoreInv(c) /\ [Next]_vars => CoreInv(c)'
  BY <1>0, CoreStep DEF AllInv
<1>4. TypeInv /\ PidInv /\ CoreInv(c) => AllInv(c)
  BY DEF AllInv
<1> QED
  BY <1>1, <1>2, <1>3, <1>4, TypeInvariant, LockDiscipline, PidStep, PTL DEF Spec

\* Until a guest's CLOSE_HANDLE hits a handle of the kernel's, a running process that nobody
\* ends owns its child and both ends of its own pipe, for any number of slots and handle
\* values, whichever value Windows gives out again and whatever the guests open.
THEOREM RunningHasHandles ==
  ASSUME OneCaller PROVE Spec => []RunningOwnsHandles
<1>1. PICK c : Callers = {c}
  BY DEF OneCaller
<1>2. AllInv(c) => RunningOwnsHandles
  <2> SUFFICES ASSUME AllInv(c), NEW s \in Slots, table[s].signature,
                      table[s].state = "Running", NotShutting, ~Terminating(s), ~robbed
               PROVE  AllOpen(s)
    BY DEF RunningOwnsHandles, AllOpen, ChildOpen, ReadOpen, WriteOpen
  <2>1. c \in Callers /\ caller[c].call # "shutdown" /\ ~Ending(c, s)
    BY <1>1 DEF NotShutting, Terminating, Ending
  <2>2. s \in published
    BY DEF AllInv, CoreInv, RunningPublished
  <2> QED
    BY <2>1, <2>2 DEF AllInv, CoreInv, PublishedOK, Intact
<1>3. Spec => []AllInv(c)
  BY <1>1, AllInvariant
<1> QED
  BY <1>2, <1>3, PTL

\* No early return, no reuse of a slot, no failed creation and no call of a guest makes the
\* kernel forget a handle it opened: while it is open it stays in a slot that a termination or
\* the next shutdown closes.
THEOREM HandlesKept ==
  ASSUME OneCaller PROVE Spec => []NoHandleLeak
<1>1. PICK c : Callers = {c}
  BY DEF OneCaller
<1>2. AllInv(c) => NoHandleLeak
  BY DEF AllInv, CoreInv
<1>3. Spec => []AllInv(c)
  BY <1>1, AllInvariant
<1> QED
  BY <1>2, <1>3, PTL

\* A termination never enters a critical section that is not initialized, the slots a
\* failed creation left behind included.
THEOREM LockAlwaysUsable ==
  ASSUME OneCaller PROVE Spec => []LockUsable
<1>1. PICK c : Callers = {c}
  BY DEF OneCaller
<1>2. AllInv(c) => LockUsable
  <2> SUFFICES ASSUME AllInv(c), At(c, "process")
               PROVE  table[caller[c].slot].lock # "dead"
    BY <1>1 DEF LockUsable
  <2>1. c \in Callers /\ caller[c].pc = "process" /\ caller[c].pc \in TermSteps
    BY <1>1 DEF At, TermSteps
  <2>2. PICK s \in Slots : caller[c].slot = s /\ table[s].signature
    BY <2>1, EndFacts
  <2> QED
    BY <2>1, <2>2 DEF AllInv, CoreInv, LocksOK
<1>3. Spec => []AllInv(c)
  BY <1>1, AllInvariant
<1> QED
  BY <1>2, <1>3, PTL

-----------------------------------------------------------------------------
(* The table implements the set of live processes *)

\* The abstract state behind a state of the table, with one thread in the kernel.
LivePids == {table[s].pid : s \in published}
Pending(c) == caller[c].pc \in {"pipe", "spawn", "run"}

LEMMA SetStutter ==
  ASSUME NEW c, Callers = {c}, UNCHANGED <<nextPid, published>>,
         \A t \in published : table'[t].pid = table[t].pid,
         Pending(c)' <=> Pending(c)
  PROVE  UNCHANGED Promise!setVars
<1>1. LivePids' = LivePids
  BY Zenon DEF LivePids
<1>2. (\E d \in Callers : caller'[d].pc \in {"pipe", "spawn", "run"})
         = (\E d \in Callers : caller[d].pc \in {"pipe", "spawn", "run"})
  BY DEF Pending
<1> QED
  BY <1>1, <1>2 DEF Promise!setVars, LivePids

\* The facts of AllInv(c) that the steps of the abstract set rest on.
LEMMA PromiseFacts ==
  ASSUME NEW c \in Callers, AllInv(c)
  PROVE  /\ nextPid \in Nat \ {0} /\ published \subseteq Slots
         /\ table \in [Slots -> Entry] /\ caller \in [Callers -> CallerState]
         /\ \A s \in Slots : Making(c, s) => s \notin published
         /\ \A s, t \in published : s # t => table[s].pid # table[t].pid
<1>1. \A s \in published : table[s].pid # 0 /\ table[s].signature /\ s \in Slots
  BY DEF AllInv, TypeInv, TypeOK, CoreInv, PublishedOK
<1>2. \A s \in Slots : Making(c, s) => s \notin published
  BY DEF AllInv, CoreInv, PublishedOK
<1>3. \A s, t \in published : s # t => table[s].pid # table[t].pid
  BY <1>1 DEF AllInv, PidInv, PidsNeverShared
<1> QED
  BY <1>2, <1>3 DEF AllInv, TypeInv, TypeOK

\* A creation works on a slot the host was not given.
LEMMA MakingApart ==
  ASSUME NEW c \in Callers, AllInv(c), caller[c].pc \in CreateSteps,
         \A t \in Slots : t # caller[c].slot => table'[t] = table[t]
  PROVE  \A t \in published : table'[t].pid = table[t].pid
<1>1. PICK s \in Slots : caller[c].slot = s /\ s \notin published
  BY MakeFacts
<1> QED
  BY <1>1, PromiseFacts

\* The steps at which nothing of the set changes.
LEMMA TableStutters ==
  ASSUME NEW c \in Callers, Callers = {c}, AllInv(c),
         \/ \E kind \in {"sandboxed", "plain"} : FindFreeProcessSlot(c, kind)
         \/ TerminateProcess(c) \/ InitializeKernel(c) \/ ShutdownKernel(c)
         \/ ClaimSlot(c) \/ EnterKernel(c) \/ MakePipe(c) \/ SpawnChild(c)
         \/ CloseProcess(c) \/ ClosePipeRead(c) \/ ClosePipeWrite(c)
         \/ MarkTerminated(c) \/ ShutdownNext(c) \/ ShutdownDone(c)
  PROVE  UNCHANGED Promise!setVars
<1>1. nextPid' = nextPid /\ published' = published
  BY DEF FindFreeProcessSlot, TerminateProcess, InitializeKernel, ShutdownKernel, ClaimSlot,
     EnterKernel, MakePipe, SpawnChild, CloseProcess, ClosePipeRead, ClosePipeWrite,
     MarkTerminated, ShutdownNext, ShutdownDone
<1>2. caller \in [Callers -> CallerState] /\ table \in [Slots -> Entry] /\ published \subseteq Slots
  BY PromiseFacts
<1>3. Pending(c)' <=> Pending(c)
  <2>1. CASE \/ \E kind \in {"sandboxed", "plain"} : FindFreeProcessSlot(c, kind)
             \/ TerminateProcess(c) \/ InitializeKernel(c) \/ ShutdownKernel(c)
    BY <1>2, <2>1 DEF Pending, FindFreeProcessSlot, TerminateProcess, InitializeKernel,
       ShutdownKernel, At
  <2>2. CASE ClaimSlot(c) \/ EnterKernel(c) \/ MakePipe(c) \/ SpawnChild(c)
    <3>1. CASE ClaimSlot(c) \/ EnterKernel(c)
      <4>1. caller[c].pc \in {"claim", "enter"} /\ caller'[c].pc \in {"enter", "bump"}
        BY <3>1, Moved DEF ClaimSlot, EnterKernel, At, AllInv
      <4> QED
        BY <4>1 DEF Pending
    <3>2. CASE MakePipe(c) \/ SpawnChild(c)
      <4>1. caller[c].pc \in {"pipe", "spawn"} /\ caller'[c].pc \in {"spawn", "run"}
        BY <3>2, Moved DEF MakePipe, SpawnChild, At, AllInv
      <4> QED
        BY <4>1 DEF Pending
    <3> QED
      BY <2>2, <3>1, <3>2
  <2>3. CASE \/ CloseProcess(c) \/ ClosePipeRead(c) \/ ClosePipeWrite(c)
             \/ MarkTerminated(c) \/ ShutdownNext(c) \/ ShutdownDone(c)
    <3>1. CASE CloseProcess(c) \/ ClosePipeRead(c) \/ ClosePipeWrite(c) \/ MarkTerminated(c)
      <4>1. caller[c].pc \in TermSteps /\ caller'[c].pc \in TermSteps
        BY <3>1, Moved
           DEF CloseProcess, ClosePipeRead, ClosePipeWrite, MarkTerminated, At, AllInv, TermSteps
      <4> QED
        BY <4>1 DEF Pending, TermSteps
    <3>2. CASE ShutdownNext(c) \/ ShutdownDone(c)
      <4>1. caller[c].pc = "next" /\ caller'[c].pc \in {"process", "idle"}
        BY <1>2, <3>2, Moved DEF ShutdownNext, ShutdownDone, At, AllInv
      <4> QED
        BY <4>1 DEF Pending
    <3> QED
      BY <2>3, <3>1, <3>2
  <2> QED
    BY <2>1, <2>2, <2>3
<1>4. \A t \in published : table'[t].pid = table[t].pid
  <2>1. CASE \/ \E kind \in {"sandboxed", "plain"} : FindFreeProcessSlot(c, kind)
             \/ TerminateProcess(c) \/ ShutdownKernel(c) \/ ShutdownNext(c) \/ ShutdownDone(c)
    BY <2>1 DEF FindFreeProcessSlot, TerminateProcess, ShutdownKernel, ShutdownNext, ShutdownDone
  <2>2. CASE InitializeKernel(c)
    <3>1. \A s \in Slots : ~table[s].signature
      BY <2>2 DEF InitializeKernel, AllInv, CoreInv, DownOK
    <3> QED
      BY <1>2, <3>1 DEF AllInv, CoreInv, PublishedOK
  <2>3. CASE ClaimSlot(c) \/ EnterKernel(c) \/ MakePipe(c) \/ SpawnChild(c)
    <3>1. caller[c].pc \in CreateSteps
      BY <2>3 DEF ClaimSlot, EnterKernel, MakePipe, SpawnChild, At, CreateSteps
    <3>2. \A t \in Slots : t # caller[c].slot => table'[t] = table[t]
      BY <1>2, <2>3 DEF ClaimSlot, EnterKernel, MakePipe, SpawnChild
    <3> QED
      BY <3>1, <3>2, MakingApart
  <2>4. CASE CloseProcess(c) \/ ClosePipeRead(c) \/ ClosePipeWrite(c) \/ MarkTerminated(c)
    <3>1. \A t \in Slots : table[t] \in Entry
      BY <1>2
    <3>2. \A t \in Slots : table'[t].pid = table[t].pid
      <4>1. CASE CloseProcess(c)
        BY <1>2, <3>1, <4>1 DEF CloseProcess, Entry
      <4>2. CASE ClosePipeRead(c)
        BY <1>2, <3>1, <4>2 DEF ClosePipeRead, Entry
      <4>3. CASE ClosePipeWrite(c)
        BY <1>2, <3>1, <4>3 DEF ClosePipeWrite, Entry
      <4>4. CASE MarkTerminated(c)
        BY <1>2, <3>1, <4>4 DEF MarkTerminated, Entry
      <4> QED
        BY <2>4, <4>1, <4>2, <4>3, <4>4
    <3> QED
      BY <1>2, <3>2
  <2> QED
    BY <2>1, <2>2, <2>3, <2>4
<1> QED
  BY <1>1, <1>3, <1>4, SetStutter

\* g_NextProcessId++ takes an id.
LEMMA BumpTakesId ==
  ASSUME NEW c \in Callers, Callers = {c}, AllInv(c), BumpProcessId(c)
  PROVE  Promise!TakeId
<1>1. caller[c].pc = "bump" /\ nextPid' = nextPid + 1 /\ published' = published /\ nextPid \in Nat
  BY PromiseFacts DEF BumpProcessId, At
<1>2. caller'[c].pc \in {"pipe", "run"}
  BY PromiseFacts DEF BumpProcessId, GoTo
<1>3. \A t \in published : table'[t].pid = table[t].pid
  <2>1. \A t \in Slots : t # caller[c].slot => table'[t] = table[t]
    BY PromiseFacts DEF BumpProcessId
  <2> QED
    BY <1>1, <2>1, MakingApart DEF CreateSteps
<1>4. LivePids' = LivePids
  BY <1>1, <1>3, Zenon DEF LivePids
<1>5. (nextPid - 1)' = (nextPid - 1) + 1
  BY <1>1
<1>6. ~(\E d \in Callers : caller[d].pc \in {"pipe", "spawn", "run"})
  BY <1>1
<1>7. \E d \in Callers : caller'[d].pc \in {"pipe", "spawn", "run"}
  BY <1>2
<1> QED
  BY <1>4, <1>5, <1>6, <1>7 DEF Promise!TakeId, LivePids

\* A creation that fails gives its id up.
LEMMA FailGivesUp ==
  ASSUME NEW c \in Callers, Callers = {c}, AllInv(c), CreateFails(c)
  PROVE  Promise!GiveUp
<1>1. /\ caller[c].pc \in {"pipe", "spawn"} /\ UNCHANGED <<nextPid, published, table>>
      /\ caller'[c].pc = "idle"
  BY PromiseFacts DEF CreateFails, At, Return, Idle
<1>2. LivePids' = LivePids
  BY <1>1 DEF LivePids
<1>3. \E d \in Callers : caller[d].pc \in {"pipe", "spawn", "run"}
  BY <1>1
<1>4. ~(\E d \in Callers : caller'[d].pc \in {"pipe", "spawn", "run"})
  BY <1>1
<1> QED
  BY <1>1, <1>2, <1>3, <1>4 DEF Promise!GiveUp, LivePids

\* A creation that returns its process brings the id it took to life.
LEMMA FinishGivesLife ==
  ASSUME NEW c \in Callers, Callers = {c}, AllInv(c), FinishCreate(c)
  PROVE  Promise!Born
<1>1. /\ caller[c].pc = "run" /\ caller[c].pc \in CreateSteps /\ nextPid' = nextPid
      /\ caller'[c].pc = "idle"
  BY PromiseFacts DEF FinishCreate, At, Return, Idle, CreateSteps
<1>2. PICK s \in Slots : caller[c].slot = s /\ Making(c, s) /\ s \notin published
  BY <1>1, MakeFacts
<1>3. table[s].pid = nextPid - 1
  BY <1>1, <1>2 DEF AllInv, CoreInv, CreateOK
<1>4. table[s] \in Entry /\ table \in [Slots -> Entry]
  BY PromiseFacts
<1>5. /\ published' = published \cup {s} /\ table'[s].pid = nextPid - 1
      /\ \A t \in Slots \ {s} : table'[t] = table[t]
  BY <1>2, <1>3, <1>4 DEF FinishCreate, Entry
<1>6. \A t \in published : table'[t].pid = table[t].pid
  BY <1>2, <1>5, PromiseFacts
<1>7. LivePids' = LivePids \cup {nextPid - 1}
  BY <1>5, <1>6 DEF LivePids
<1>8. \E d \in Callers : caller[d].pc \in {"pipe", "spawn", "run"}
  BY <1>1
<1>9. ~(\E d \in Callers : caller'[d].pc \in {"pipe", "spawn", "run"})
  BY <1>1
<1> QED
  BY <1>1, <1>7, <1>8, <1>9 DEF Promise!Born, LivePids

\* A slot that is freed takes its process with it, or had none the host was given.
LEMMA FreeKills ==
  ASSUME NEW c \in Callers, Callers = {c}, AllInv(c), FreeSlot(c)
  PROVE  Promise!Dies \/ UNCHANGED Promise!setVars
<1>1. /\ caller[c].pc = "free" /\ caller[c].pc \in TermSteps /\ nextPid' = nextPid
      /\ caller'[c].pc \in {"idle", "next"}
  BY Moved DEF FreeSlot, At, TermSteps, AllInv
<1>2. PICK s \in Slots : caller[c].slot = s
  BY <1>1, EndFacts
<1>3. table[s] \in Entry /\ table \in [Slots -> Entry] /\ published \subseteq Slots
  BY PromiseFacts
<1>4. /\ published' = published \ {s}
      /\ \A t \in Slots \ {s} : table'[t] = table[t]
  BY <1>2, <1>3 DEF FreeSlot
<1>5. ~Pending(c) /\ ~Pending(c)'
  BY <1>1 DEF Pending
<1>6. CASE s \in published
  <2>1. \A t \in published \ {s} : table'[t].pid = table[t].pid /\ table[t].pid # table[s].pid
    BY <1>3, <1>4, <1>6, PromiseFacts
  <2>2. LivePids' = LivePids \ {table[s].pid} /\ table[s].pid \in LivePids
    BY <1>4, <1>6, <2>1 DEF LivePids
  <2>3. (\E d \in Callers : caller'[d].pc \in {"pipe", "spawn", "run"})
           = (\E d \in Callers : caller[d].pc \in {"pipe", "spawn", "run"})
    BY <1>5 DEF Pending
  <2> QED
    BY <1>1, <2>2, <2>3 DEF Promise!Dies, LivePids
<1>7. CASE s \notin published
  <2>1. published' = published /\ \A t \in published : table'[t].pid = table[t].pid
    BY <1>3, <1>4, <1>7
  <2> QED
    BY <1>1, <1>5, <2>1, SetStutter
<1> QED
  BY <1>6, <1>7

\* With one thread in the kernel's functions the table is the abstract set of live
\* processes: no id is used twice, none comes back to life, and each process dies once.
THEOREM TableKeepsPromise ==
  ASSUME OneCaller PROVE Spec => KeepsPromise
<1>1. PICK c : Callers = {c}
  BY DEF OneCaller
<1>2. c \in Callers
  BY <1>1
<1>3. Init => Promise!SetInit
  <2> SUFFICES ASSUME Init PROVE Promise!SetInit
    OBVIOUS
  <2>1. nextPid = 1 /\ published = {} /\ \A d \in Callers : caller[d].pc = "idle"
    BY DEF Init, Idle
  <2>2. {table[s].pid : s \in published} = {} /\ nextPid - 1 = 0
    BY <2>1
  <2>3. ~(\E d \in Callers : caller[d].pc \in {"pipe", "spawn", "run"})
    BY <2>1
  <2> QED
    BY <2>2, <2>3 DEF Promise!SetInit
<1>4. AllInv(c) /\ [Next]_vars => [Promise!SetNext]_(Promise!setVars)
  <2> SUFFICES ASSUME AllInv(c), [Next]_vars
               PROVE  Promise!SetNext \/ UNCHANGED Promise!setVars
    OBVIOUS
  <2>1. ASSUME Begin(c) \/ Continue(c) PROVE Promise!SetNext \/ UNCHANGED Promise!setVars
    BY <1>1, <1>2, <2>1, TableStutters, BumpTakesId, FailGivesUp, FinishGivesLife, FreeKills
       DEF Begin, Continue, Promise!SetNext
  <2>2. ASSUME UNCHANGED <<nextPid, published, table, caller>>
        PROVE  UNCHANGED Promise!setVars
    BY <2>2 DEF Promise!setVars
  <2>3. ASSUME NEW w \in Pids, Work(w) \/ Receive(w) \/ ChildEnds(w)
        PROVE  UNCHANGED <<nextPid, published, table, caller>>
    BY <2>3, WorkerFrame DEF AllInv
  <2> QED
    BY <1>1, <2>1, <2>2, <2>3 DEF Next, vars
<1>5. Spec => []AllInv(c)
  BY <1>1, AllInvariant
<1> QED
  BY <1>3, <1>4, <1>5, PTL DEF Spec, KeepsPromise, Promise!SetSpec
=============================================================================
