-------------------------- MODULE HandleTable_proofs --------------------------
(***************************************************************************)
(* Theorems about the handle table, for any number of threads, entries,    *)
(* objects and Win32 values.  Two creating threads take the same free      *)
(* entry, so all but the first theorem are about tables with one creator   *)
(* and any number of threads that use and close what it opened.  What is   *)
(* said of the entries and the objects holds until two calls clash; the    *)
(* counter, the creators and the search are in order whatever happens.     *)
(***************************************************************************)
EXTENDS HandleTable, WellFoundedInduction, TLAPS

OneCreator == \A s, t \in Creators : s = t

Opening  == {"open", "find", "count", "name", "store"}
Filing   == {"find", "count", "name", "store"}
Named    == {"name", "store"}
Closing  == {"check", "get", "close", "clear", "wipe"}
Using    == {"lookup", "act"}

Names(i, h)      == i \in Entries /\ entry[i].handle = h
Holds(i, h, obj) == Names(i, h) /\ entry[i].pointer \in Values
                                /\ object[entry[i].pointer] = obj

\* What the guest means by a call in progress.
Means(t) == [handle |-> thread[t].handle, of |-> thread[t].of]

\* A close of a handle other than 0, until it has freed the entry.
Closes(t) == thread[t].pc \in Closing /\ thread[t].handle # 0

\* The handle counter never reaches its limit.
CountInv ==
  /\ nextHandle \in Nat \ {0} /\ opened \in 0..MaxObjects
  /\ nextHandle <= FirstHandle + opened
  /\ \A t \in Threads : thread[t].pc \in {"find", "count", "name"} =>
       nextHandle + 1 <= FirstHandle + opened

\* What holds of a creation whatever the closes do.
CreatorCtl(t) ==
  /\ thread[t].pc \in Opening => t \in Creators
  /\ thread[t].call = "thread" => t \in Creators
  /\ thread[t].pc \in Filing => thread[t].i \in Entries
  /\ thread[t].pc = "name" => thread[t].handle = nextHandle

CreateInv == CountInv /\ \A t \in Threads : CreatorCtl(t)

\* A creation works on the newest object, under the newest handle, in an entry
\* that stays free until it is named.
CreatorOK(t) ==
  /\ thread[t].pc \in Opening => t \in Creators
  /\ thread[t].call = "thread" => t \in Creators
  /\ thread[t].pc \in Filing =>
       /\ thread[t].of = opened /\ opened > 0 /\ thread[t].value \in Values
       /\ object[thread[t].value] = opened /\ thread[t].i \in Entries
  /\ thread[t].pc \in {"count", "name"} => entry[thread[t].i].handle = 0
  /\ thread[t].pc = "name" => thread[t].handle = nextHandle
  /\ thread[t].pc = "store" => /\ thread[t].handle \in 1..(nextHandle - 1)
                               /\ Names(thread[t].i, thread[t].handle)

\* No two entries have the same handle, and none has one that is still to come.
EntryInv ==
  /\ \A i \in Entries : entry[i].handle < nextHandle
  /\ \A i, j \in Entries : entry[i].handle = entry[j].handle /\ entry[i].handle # 0 => i = j

\* Each handle of the guest, or on its way through NtClose, has an entry with the
\* Win32 value of its object.
HeldInv ==
  \A r \in held :
    /\ r.handle \in 1..(nextHandle - 1) /\ r.of \in 1..opened
    /\ \E i \in Entries : Holds(i, r.handle, r.of)

\* A call that uses a handle knows the Win32 value of its object before it acts.
\* Handle 0 is as good as unknown.
UseOK(t) ==
  thread[t].pc \in Using =>
    IF thread[t].handle = 0 THEN thread[t].pc = "lookup"
    ELSE /\ Means(t) \in held
         /\ thread[t].pc = "act" =>
              \E i \in Entries : Names(i, thread[t].handle) /\ entry[i].pointer = thread[t].value

\* A close knows the Win32 value of its object before it closes it, and the entry
\* before it clears it.  With handle 0 there is no such value.
CloseOK(t) ==
  /\ Closes(t) =>
       /\ thread[t].handle \in 1..(nextHandle - 1) /\ thread[t].of \in 1..opened
       /\ \E i \in Entries :
            /\ Names(i, thread[t].handle)
            /\ thread[t].pc \in {"check", "get", "close"} =>
                 Holds(i, thread[t].handle, thread[t].of)
            /\ thread[t].pc \in {"close", "clear"} => entry[i].pointer = thread[t].value
            /\ thread[t].pc = "wipe" => i = thread[t].i
  /\ thread[t].pc = "close" /\ thread[t].handle = 0 => thread[t].value = 0

\* An entry that is being cleared, or that handle 0 found, is free and stays so.
WipeOK(t) ==
  thread[t].pc = "wipe2" \/ (thread[t].pc = "wipe" /\ thread[t].handle = 0) =>
    thread[t].i \in Entries /\ entry[thread[t].i].handle = 0

CallInv == \A t \in Threads : CreatorOK(t) /\ UseOK(t) /\ CloseOK(t) /\ WipeOK(t)

\* All these handles and objects are distinct.
DistinctInv ==
  /\ \A r, s \in held : r.handle = s.handle \/ r.of = s.of => r = s
  /\ \A r \in held, t \in Threads :
       /\ Closes(t) => r.handle # thread[t].handle /\ r.of # thread[t].of
       /\ thread[t].pc \in Filing => r.of # thread[t].of
       /\ thread[t].pc \in Named => r.handle # thread[t].handle
  /\ \A s, t \in Threads : Closes(s) /\ s # t =>
       /\ Closes(t) => thread[s].handle # thread[t].handle
                                      /\ thread[s].of # thread[t].of
       /\ thread[t].pc \in Filing => thread[s].of # thread[t].of
       /\ thread[t].pc \in Named => thread[s].handle # thread[t].handle

TableInv == CountInv /\ EntryInv /\ HeldInv /\ CallInv /\ DistinctInv

\* An open object has an entry that no NtClose is about to clear, or a creation in
\* progress, or is lost.
Kept(v) ==
  \/ \E i \in Entries : /\ entry[i].handle # 0 /\ entry[i].pointer = v
                        /\ \A t \in Threads : thread[t].pc \in {"clear", "wipe"} =>
                             thread[t].handle # entry[i].handle
  \/ \E t \in Threads : thread[t].pc \in Filing /\ thread[t].value = v
  \/ \E l \in lost : l.object = object[v]

\* An entry that is free, or named and not yet filled, points to nothing, unless a
\* close is still clearing it.
ObjectInv ==
  /\ \A v \in Values : object[v] # 0 => Kept(v)
  /\ \A i \in Entries : entry[i].handle = 0 =>
       \/ entry[i].pointer = 0
       \/ \E t \in Threads : thread[t].pc = "wipe2" /\ thread[t].i = i
  /\ \A t \in Threads : thread[t].pc = "store" => entry[thread[t].i].pointer = 0

\* A search that has passed an entry began with a full table or has a free entry
\* ahead of it.
SearchInv ==
  \A t \in Threads : thread[t].pc = "find" /\ thread[t].i > 1 =>
    thread[t].full \/ \E j \in Entries : j >= thread[t].i /\ entry[j].handle = 0

AllInv ==
  /\ TypeOK /\ CreateInv /\ SearchInv /\ LostOnlyWhenFull
  /\ ~clash => TableInv /\ ObjectInv

-----------------------------------------------------------------------------
(***************************************************************************)
(* Types.                                                                  *)
(***************************************************************************)
Less == {ss \in Nat \X Nat : ss[1] < ss[2]}

\* A set of numbers has a least one.
LEMMA Least == ASSUME NEW S \in SUBSET Nat, S # {} PROVE \E m \in S : \A n \in S : m <= n
<1>1. IsWellFoundedOn(Less, Nat)
  BY NatLessThanWellFounded DEF Less, OpToRel
<1>2. PICK m \in S : \A n \in S : <<n, m>> \notin Less
  BY <1>1, WFMin
<1>3. \A n \in S : m \in Nat /\ n \in Nat /\ ~(n < m)
  BY <1>2 DEF Less
<1> QED
  BY <1>3

\* The loops over the table find an entry with the handle when there is one.
LEMMA FirstFound ==
  ASSUME NEW h, IsValidHandle(h)
  PROVE  First(h) \in Entries /\ entry[First(h)].handle = h
<1> DEFINE S == {i \in Entries : entry[i].handle = h}
<1>1. S \in SUBSET Nat /\ S # {}
  BY HandleTableAssumption DEF HandleTableAssumption, Entries, IsValidHandle
<1>2. PICK m \in S : \A n \in S : m <= n
  BY <1>1, Least
<1>3. m \in Entries /\ entry[m].handle = h /\ \A j \in 1..(m - 1) : entry[j].handle # h
  BY <1>2, HandleTableAssumption DEF HandleTableAssumption, Entries
<1> QED
  BY <1>3 DEF First

LEMMA PointerType ==
  ASSUME TypeOK, NEW h PROVE GetHandlePointer(h) \in Values \cup {0}
  BY FirstFound DEF GetHandlePointer, TypeOK

LEMMA InitType == Init => TypeOK
<1> SUFFICES ASSUME Init PROVE TypeOK
  OBVIOUS
<1>1. Idle \in ThreadState /\ NoEntry \in [handle : Nat, pointer : Values \cup {0}]
  BY DEF Idle, ThreadState, NoEntry
<1> QED
  BY <1>1, HandleTableAssumption DEF HandleTableAssumption, Init, TypeOK

LEMMA CreateType ==
  ASSUME TypeOK, NEW t \in Threads,
         \/ NtCreate(t) \/ OpenObject(t) \/ FindEntry(t) \/ TakeHandle(t)
         \/ NameEntry(t) \/ StorePointer(t)
  PROVE  TypeOK'
<1> USE DEF TypeOK, GoTo, Return, At
<1>0. Idle \in ThreadState /\ thread[t] \in ThreadState
  BY DEF Idle, ThreadState
<1>1. CASE NtCreate(t)
  <2>1. [Idle EXCEPT !.pc = "open", !.call = "create"] \in ThreadState
    BY DEF Idle, ThreadState
  <2> QED
    BY <1>1, <2>1 DEF NtCreate
<1>2. CASE OpenObject(t)
  <2>1. CASE Return(t) /\ UNCHANGED <<object, opened>>
    BY <1>0, <1>2, <2>1 DEF OpenObject
  <2>2. ASSUME NEW v \in Values, opened' = opened + 1,
               object' = [object EXCEPT ![v] = opened'],
               thread' = [thread EXCEPT ![t] =
                  [Idle EXCEPT !.pc = "find", !.call = "create", !.of = opened',
                               !.value = v, !.i = 1]]
        PROVE  TypeOK'
    <3>1. opened' \in Nat /\ 1 \in Entries
      BY <2>2, HandleTableAssumption DEF HandleTableAssumption, Entries
    <3>2. [Idle EXCEPT !.pc = "find", !.call = "create", !.of = opened',
                       !.value = v, !.i = 1] \in ThreadState
      BY <3>1 DEF Idle, ThreadState
    <3>3. thread' \in [Threads -> ThreadState] /\ object' \in [Values -> Nat]
      BY <2>2, <3>1, <3>2
    <3> QED
      BY <1>2, <3>1, <3>3 DEF OpenObject
  <2> QED
    BY <1>2, <2>1, <2>2 DEF OpenObject
<1>3. CASE FindEntry(t)
  <2> DEFINE full == IF thread[t].i = 1 THEN \A j \in Entries : entry[j].handle # 0
                                        ELSE thread[t].full
  <2>1. full \in BOOLEAN /\ thread[t].of \in Nat
    BY <1>0 DEF ThreadState
  <2> HIDE DEF full
  <2>2. CASE GoTo(t, "count") /\ UNCHANGED lost
    <3>1. thread' \in [Threads -> ThreadState]
      BY <1>0, <2>2 DEF ThreadState
    <3> QED
      BY <1>3, <2>2, <3>1 DEF FindEntry
  <2>3. CASE /\ thread[t].i < NEntries /\ UNCHANGED lost
             /\ thread' = [thread EXCEPT ![t].i = thread[t].i + 1, ![t].full = full]
    <3>0. thread[t].i \in Entries \cup {0} /\ NEntries \in Nat \ {0}
      BY <1>0, HandleTableAssumption DEF HandleTableAssumption, ThreadState
    <3>1. thread[t].i + 1 \in Entries
      BY ONLY <2>3, <3>0 DEF Entries
    <3>2. thread' \in [Threads -> ThreadState]
      BY <1>0, <2>1, <2>3, <3>1 DEF ThreadState
    <3> QED
      BY <1>3, <2>3, <3>2 DEF FindEntry
  <2>4. CASE lost' = lost \cup {[object |-> thread[t].of, full |-> full]} /\ Return(t)
    BY <1>0, <1>3, <2>1, <2>4 DEF FindEntry
  <2> QED
    BY <1>3, <2>2, <2>3, <2>4 DEF FindEntry, full
<1>4. CASE TakeHandle(t)
  <2>1. thread' \in [Threads -> ThreadState]
    BY <1>0, <1>4 DEF TakeHandle, ThreadState
  <2> QED
    BY <1>4, <2>1 DEF TakeHandle
<1>5. CASE NameEntry(t)
  <2>1. thread[t].handle \in Nat
    BY <1>0 DEF ThreadState
  <2>2. thread' \in [Threads -> ThreadState]
    BY <1>0, <1>5 DEF NameEntry, ThreadState
  <2>3. (thread[t].handle + 1) % HandleLimit \in Nat
    BY <2>1, HandleTableAssumption DEF HandleTableAssumption
  <2>4. entry' \in [Entries -> [handle : Nat, pointer : Values \cup {0}]]
    BY <1>5, <2>1 DEF NameEntry
  <2> QED
    BY <1>5, <2>2, <2>3, <2>4 DEF NameEntry
<1>6. CASE StorePointer(t)
  <2>1. thread[t].handle \in Nat /\ thread[t].of \in Nat /\ thread[t].value \in Values \cup {0}
    BY <1>0 DEF ThreadState
  <2>2. entry' \in [Entries -> [handle : Nat, pointer : Values \cup {0}]]
    BY <1>6, <2>1 DEF StorePointer
  <2>3. held' \subseteq [handle : Nat, of : Nat]
    BY <1>6, <2>1 DEF StorePointer
  <2> QED
    BY <1>0, <1>6, <2>2, <2>3 DEF StorePointer
<1> QED
  BY <1>1, <1>2, <1>3, <1>4, <1>5, <1>6

LEMMA UseType ==
  ASSUME TypeOK, NEW t \in Threads,
         \/ NtUse(t) \/ LookUp(t) \/ Act(t) \/ NtClose(t) \/ CheckHandle(t)
         \/ GetPointer(t) \/ CloseWin32(t) \/ FindToClear(t) \/ WipeHandle(t)
         \/ WipePointer(t)
  PROVE  TypeOK'
<1> USE DEF TypeOK, GoTo, Return, At
<1>0. Idle \in ThreadState /\ thread[t] \in ThreadState
  BY DEF Idle, ThreadState
<1>a. ASSUME NEW call \in {"use", "thread", "close"}, NEW r \in Told,
             NEW step \in {"lookup", "check"}, Take(t, call, r, step)
      PROVE  thread' \in [Threads -> ThreadState]
  <2>0. r.handle \in Nat /\ r.of \in Nat
    BY DEF Told
  <2>1. [Idle EXCEPT !.pc = step, !.call = call, !.handle = r.handle, !.of = r.of] \in ThreadState
    BY <2>0 DEF Idle, ThreadState
  <2> QED
    BY <1>a, <2>1 DEF Take
<1>1. CASE NtUse(t)
  BY <1>a, <1>1 DEF NtUse
<1>2. CASE LookUp(t)
  <2>1. GetHandlePointer(thread[t].handle) \in Values \cup {0}
    BY PointerType
  <2>2. thread' \in [Threads -> ThreadState]
    BY <1>0, <1>2, <2>1 DEF LookUp, ThreadState
  <2> QED
    BY <1>2, <2>2 DEF LookUp
<1>3. CASE Act(t)
  BY <1>0, <1>3 DEF Act
<1>4. CASE NtClose(t)
  BY <1>a, <1>4 DEF NtClose
<1>5. CASE CheckHandle(t)
  <2>1. thread' \in [Threads -> ThreadState]
    BY <1>0, <1>5, SMTT(30) DEF CheckHandle, ThreadState
  <2> QED
    BY <1>5, <2>1 DEF CheckHandle
<1>6. CASE GetPointer(t)
  <2>1. GetHandlePointer(thread[t].handle) \in Values \cup {0}
    BY PointerType
  <2>2. thread' \in [Threads -> ThreadState]
    BY <1>0, <1>6, <2>1 DEF GetPointer, ThreadState
  <2> QED
    BY <1>6, <2>2 DEF GetPointer
<1>7. CASE CloseWin32(t)
  <2>1. thread' \in [Threads -> ThreadState]
    BY <1>0, <1>7 DEF CloseWin32, ThreadState
  <2> QED
    BY <1>7, <2>1 DEF CloseWin32
<1>8. CASE FindToClear(t)
  <2>1. thread' \in [Threads -> ThreadState]
    BY <1>0, <1>8 DEF FindToClear, ThreadState
  <2> QED
    BY <1>8, <2>1 DEF FindToClear
<1>9. CASE WipeHandle(t)
  <2>1. thread' \in [Threads -> ThreadState]
    BY <1>0, <1>9 DEF WipeHandle, ThreadState
  <2>2. entry' \in [Entries -> [handle : Nat, pointer : Values \cup {0}]]
    BY <1>9 DEF WipeHandle
  <2> QED
    BY <1>9, <2>1, <2>2 DEF WipeHandle
<1>10. CASE WipePointer(t)
  <2>1. entry' \in [Entries -> [handle : Nat, pointer : Values \cup {0}]]
    BY <1>10 DEF WipePointer
  <2> QED
    BY <1>0, <1>10, <2>1 DEF WipePointer
<1> QED
  BY <1>1, <1>2, <1>3, <1>4, <1>5, <1>6, <1>7, <1>8, <1>9, <1>10

LEMMA NextType == TypeOK /\ [Next]_vars => TypeOK'
<1>1. ASSUME TypeOK, UNCHANGED vars PROVE TypeOK'
  BY <1>1 DEF vars, TypeOK
<1> QED
  BY <1>1, CreateType, UseType DEF Next, Dispatch, Continue

\* Every reachable state of the table is well typed, for any number of creators.
THEOREM TypeCorrect == Spec => []TypeOK
<1> QED
  BY InitType, NextType, PTL DEF Spec

-----------------------------------------------------------------------------
(***************************************************************************)
(* One creator.                                                            *)
(***************************************************************************)
\* Every look-up of a handle finds its one entry.
LEMMA LookedUp ==
  ASSUME EntryInv, NEW i, NEW h, Names(i, h), h # 0
  PROVE  IsValidHandle(h) /\ First(h) = i /\ GetHandlePointer(h) = entry[i].pointer
<1>1. IsValidHandle(h)
  BY DEF IsValidHandle, Names
<1>2. First(h) = i
  BY <1>1, FirstFound DEF EntryInv, Names
<1> QED
  BY <1>1, <1>2 DEF GetHandlePointer

\* A step of t that changes nothing but its locals, and begins no close and no name
\* but the newest.
LEMMA LocalStep ==
  ASSUME TableInv, NEW t \in Threads,
         UNCHANGED <<entry, nextHandle, object, opened, held>>,
         \A u \in Threads \ {t} : thread'[u] = thread[u],
         CreatorOK(t)', UseOK(t)', CloseOK(t)', WipeOK(t)',
         thread'[t].pc \in {"find", "count", "name"} =>
           thread[t].pc \in {"find", "count", "name"} /\ thread'[t].of = thread[t].of,
         thread'[t].pc # "store",
         Closes(t)' => Closes(t) /\ Means(t)' = Means(t)
  PROVE  TableInv'
<1>1. CountInv' /\ EntryInv'
  BY DEF TableInv, CountInv, EntryInv
<1>2. HeldInv'
  BY DEF TableInv, HeldInv, Holds, Names
<1>3. CallInv'
  BY DEF TableInv, CallInv, CreatorOK, UseOK, CloseOK, WipeOK, Closes, Means, Holds, Names
<1>4. DistinctInv'
  <2>1. thread'[t].pc \in Named => thread'[t].handle = nextHandle
    BY DEF CreatorOK, Named
  <2>2. \A r \in held : r.handle # nextHandle
    BY DEF TableInv, HeldInv, CountInv
  <2>3. \A u \in Threads : Closes(u) => thread[u].handle # nextHandle
    BY DEF TableInv, CallInv, CloseOK, CountInv
  <2>4. thread'[t].pc \in Filing => thread[t].pc \in Filing /\ thread'[t].of = thread[t].of
    BY DEF Filing
  <2>5. Closes(t)' =>
          Closes(t) /\ thread'[t].handle = thread[t].handle
                                  /\ thread'[t].of = thread[t].of
    BY DEF Means
  <2>6. \A u \in Threads \ {t} : Closes(u)' <=> Closes(u)
    BY DEF Closes
  <2> QED
    BY <2>1, <2>2, <2>3, <2>4, <2>5, <2>6 DEF TableInv, DistinctInv
<1> QED
  BY <1>1, <1>2, <1>3, <1>4 DEF TableInv

\* What a return does to a call: nothing is left of it.
LEMMA ReturnStep ==
  ASSUME TypeOK, TableInv, NEW t \in Threads, Return(t),
         UNCHANGED <<entry, nextHandle, object, opened, held>>
  PROVE  TableInv'
<1>1. thread'[t] = Idle /\ \A u \in Threads \ {t} : thread'[u] = thread[u]
  BY DEF Return, TypeOK
<1>2. CreatorOK(t)' /\ UseOK(t)' /\ CloseOK(t)' /\ WipeOK(t)'
  BY <1>1 DEF CreatorOK, UseOK, CloseOK, WipeOK, Idle, Opening, Filing, Using, Closing, Closes
<1> QED
  BY <1>1, <1>2, LocalStep DEF Idle, Closing, Closes

LEMMA LocalCreateSteps ==
  ASSUME TypeOK, TableInv, NEW t \in Threads,
         NtCreate(t) \/ FindEntry(t) \/ TakeHandle(t)
  PROVE  TableInv'
<1> USE DEF At, GoTo
<1>c. CreatorOK(t) /\ thread[t] \in ThreadState
  BY DEF TableInv, CallInv, TypeOK
<1>1. CASE NtCreate(t)
  <2>1. /\ thread'[t] = [Idle EXCEPT !.pc = "open", !.call = "create"]
        /\ \A u \in Threads \ {t} : thread'[u] = thread[u]
    BY <1>1 DEF NtCreate, TypeOK
  <2>2. thread'[t].pc = "open" /\ thread'[t].call = "create"
    BY <2>1 DEF Idle
  <2>3. CreatorOK(t)' /\ UseOK(t)' /\ CloseOK(t)' /\ WipeOK(t)'
    BY <1>1, <2>2 DEF NtCreate, CreatorOK, UseOK, CloseOK, WipeOK, Opening, Filing, Using, Closing, Closes
  <2> QED
    BY <1>1, <2>1, <2>2, <2>3, LocalStep DEF NtCreate, Closing, Closes
<1>2. CASE FindEntry(t)
  <2>0. UNCHANGED <<entry, nextHandle, object, opened, held>>
    BY <1>2 DEF FindEntry
  <2>1. CASE entry[thread[t].i].handle = 0 /\ GoTo(t, "count")
    <3>1. /\ thread'[t] = [thread[t] EXCEPT !.pc = "count"]
          /\ \A u \in Threads \ {t} : thread'[u] = thread[u]
      BY <2>1 DEF TypeOK
    <3>2. /\ thread'[t].pc = "count" /\ thread'[t].of = thread[t].of
          /\ thread'[t].value = thread[t].value /\ thread'[t].i = thread[t].i
          /\ thread'[t].call = thread[t].call
      BY <1>c, <3>1 DEF ThreadState
    <3>3. CreatorOK(t)' /\ UseOK(t)' /\ CloseOK(t)' /\ WipeOK(t)'
      BY <1>2, <1>c, <2>0, <2>1, <3>2
      DEF FindEntry, CreatorOK, UseOK, CloseOK, WipeOK, Opening, Filing, Using, Closing, Closes
    <3> QED
      BY <1>2, <2>0, <3>1, <3>2, <3>3, LocalStep DEF FindEntry, Closing, Closes
  <2>2. ASSUME NEW full, thread[t].i < NEntries,
               thread' = [thread EXCEPT ![t].i = thread[t].i + 1, ![t].full = full]
        PROVE  TableInv'
    <3>1. /\ thread'[t] = [thread[t] EXCEPT !.i = thread[t].i + 1, !.full = full]
          /\ \A u \in Threads \ {t} : thread'[u] = thread[u]
      BY <2>2 DEF TypeOK
    <3>2. /\ thread'[t].pc = "find" /\ thread'[t].of = thread[t].of
          /\ thread'[t].value = thread[t].value /\ thread'[t].i = thread[t].i + 1
          /\ thread'[t].call = thread[t].call
      BY <1>2, <1>c, <3>1 DEF FindEntry, ThreadState
    <3>3. thread[t].i + 1 \in Entries
      BY <1>c, <2>2, HandleTableAssumption DEF HandleTableAssumption, Entries, ThreadState
    <3>4. CreatorOK(t)' /\ UseOK(t)' /\ CloseOK(t)' /\ WipeOK(t)'
      BY <1>2, <1>c, <2>0, <3>2, <3>3
      DEF FindEntry, CreatorOK, UseOK, CloseOK, WipeOK, Opening, Filing, Using, Closing, Closes
    <3> QED
      BY <1>2, <2>0, <3>1, <3>2, <3>4, LocalStep DEF FindEntry, Closing, Closes
  <2>3. CASE Return(t)
    BY <2>0, <2>3, ReturnStep
  <2> QED
    BY <1>2, <2>1, <2>2, <2>3 DEF FindEntry
<1>3. CASE TakeHandle(t)
  <2>1. /\ thread'[t] = [thread[t] EXCEPT !.pc = "name", !.handle = nextHandle]
        /\ \A u \in Threads \ {t} : thread'[u] = thread[u]
    BY <1>3 DEF TakeHandle, TypeOK
  <2>2. /\ thread'[t].pc = "name" /\ thread'[t].of = thread[t].of
        /\ thread'[t].value = thread[t].value /\ thread'[t].i = thread[t].i
        /\ thread'[t].handle = nextHandle /\ thread'[t].call = thread[t].call
    BY <1>c, <2>1 DEF ThreadState
  <2>3. CreatorOK(t)' /\ UseOK(t)' /\ CloseOK(t)' /\ WipeOK(t)'
    BY <1>3, <1>c, <2>2
    DEF TakeHandle, CreatorOK, UseOK, CloseOK, WipeOK, Opening, Filing, Using, Closing, Closes
  <2> QED
    BY <1>3, <2>1, <2>2, <2>3, LocalStep DEF TakeHandle, Closing, Closes
<1> QED
  BY <1>1, <1>2, <1>3

\* A close that goes on to its next step and has learnt the Win32 value, or the entry,
\* of its handle.
LEMMA CloseGoesOn ==
  ASSUME TypeOK, TableInv, NEW t \in Threads, NEW step \in {"get", "close", "wipe"},
         UNCHANGED <<entry, nextHandle, object, opened, held>>,
         \A u \in Threads \ {t} : thread'[u] = thread[u],
         thread[t].pc \in {"check", "get", "clear"}, step = "wipe" <=> thread[t].pc = "clear",
         thread'[t].pc = step, Means(t)' = Means(t), thread'[t].call = thread[t].call,
         step = "close" => thread'[t].value = GetHandlePointer(thread[t].handle)
                           /\ (thread[t].handle = 0 => thread'[t].value = 0),
         step = "wipe" => Names(thread'[t].i, thread[t].handle)
  PROVE  TableInv'
<1>0. /\ CreatorOK(t) /\ CloseOK(t) /\ EntryInv
      /\ thread'[t].handle = thread[t].handle /\ thread'[t].of = thread[t].of
  BY DEF TableInv, CallInv, Means
<1>1. CreatorOK(t)' /\ UseOK(t)'
  BY <1>0 DEF CreatorOK, UseOK, Opening, Filing, Using
<1>2. WipeOK(t)'
  BY <1>0 DEF WipeOK, Names
<1>3. CloseOK(t)'
  <2>1. CASE thread[t].handle = 0
    BY <1>0, <2>1 DEF CloseOK, Closes
  <2>2. CASE thread[t].handle # 0
    <3>1. /\ thread[t].handle \in 1..(nextHandle - 1) /\ thread[t].of \in 1..opened
          /\ Closes(t)
      BY <1>0, <2>2 DEF CloseOK, Closes, Closing
    <3>2. PICK i \in Entries :
             /\ Names(i, thread[t].handle)
             /\ thread[t].pc \in {"check", "get", "close"} => Holds(i, thread[t].handle, thread[t].of)
      BY <1>0, <3>1 DEF CloseOK
    <3>3. GetHandlePointer(thread[t].handle) = entry[i].pointer
      BY <1>0, <2>2, <3>2, LookedUp
    <3>4. step = "wipe" => i = thread'[t].i
      BY <1>0, <2>2, <3>2 DEF EntryInv, Names
    <3> QED
      BY <1>0, <2>2, <3>1, <3>2, <3>3, <3>4 DEF CloseOK, Closes, Names, Holds
  <2> QED
    BY <2>1, <2>2
<1>4. Closes(t)' => Closes(t) /\ Means(t)' = Means(t)
  BY <1>0 DEF Closes, Closing
<1> QED
  BY <1>1, <1>2, <1>3, <1>4, LocalStep

LEMMA LocalUseSteps ==
  ASSUME TypeOK, TableInv, NEW t \in Threads, ~clash',
         NtUse(t) \/ LookUp(t) \/ Act(t) \/ CheckHandle(t) \/ GetPointer(t) \/ FindToClear(t)
  PROVE  TableInv'
<1> USE DEF At, GoTo
<1>c. /\ CreatorOK(t) /\ UseOK(t) /\ CloseOK(t) /\ thread[t] \in ThreadState /\ EntryInv
  BY DEF TableInv, CallInv, TypeOK
<1>1. CASE NtUse(t)
  <2>1. PICK r \in Told, call \in (IF t \in Creators THEN {"use", "thread"} ELSE {"use"}) :
             Take(t, call, r, "lookup")
    BY <1>1 DEF NtUse
  <2>2. /\ thread'[t] = [Idle EXCEPT !.pc = "lookup", !.call = call,
                                     !.handle = r.handle, !.of = r.of]
        /\ \A u \in Threads \ {t} : thread'[u] = thread[u]
    BY <2>1 DEF Take, TypeOK
  <2>3. /\ thread'[t].pc = "lookup" /\ thread'[t].call = call
        /\ thread'[t].handle = r.handle /\ thread'[t].of = r.of
    BY <2>2 DEF Idle
  <2>4. r \in held \/ r.handle = 0
    BY DEF Told
  <2>5. UseOK(t)'
    <3>1. r \in held => Means(t)' = r
      BY <2>3 DEF Means, TypeOK
    <3> QED
      BY <1>1, <2>3, <2>4, <3>1 DEF NtUse, UseOK
  <2>6. CreatorOK(t)' /\ CloseOK(t)' /\ WipeOK(t)'
    BY <2>3 DEF CreatorOK, CloseOK, WipeOK, Closes, Opening, Filing, Closing
  <2>7. ~Closes(t)'
    BY <2>3 DEF Closes, Closing
  <2> QED
    BY <1>1, <2>2, <2>3, <2>5, <2>6, <2>7, LocalStep DEF NtUse
<1>2. CASE LookUp(t)
  <2> DEFINE p == GetHandlePointer(thread[t].handle)
  <2>0. UNCHANGED <<entry, nextHandle, object, opened, held>>
    BY <1>2 DEF LookUp
  <2>1. CASE Return(t)
    BY <2>0, <2>1, ReturnStep
  <2>2. CASE /\ p # 0
             /\ thread' = [thread EXCEPT
                  ![t].pc = IF thread[t].call = "thread" THEN "open" ELSE "act", ![t].value = p]
    <3>0. thread[t].handle # 0
      BY <1>2, <2>2 DEF LookUp, Meets
    <3>1. PICK i \in Entries : Names(i, thread[t].handle) /\ thread[t].handle # 0
      <4>1. Means(t) \in held
        BY <1>2, <1>c, <3>0 DEF LookUp, UseOK, Using
      <4>2. PICK i \in Entries : Holds(i, Means(t).handle, Means(t).of)
        BY <4>1 DEF TableInv, HeldInv
      <4>3. Means(t).handle # 0 /\ Means(t).handle = thread[t].handle
        BY <4>1 DEF TableInv, HeldInv, Means
      <4> QED
        BY <4>2, <4>3 DEF Holds
    <3>2. p = entry[i].pointer
      BY <1>c, <3>1, LookedUp
    <3> HIDE DEF p
    <3>3. /\ thread'[t] = [thread[t] EXCEPT
               !.pc = IF thread[t].call = "thread" THEN "open" ELSE "act", !.value = p]
          /\ \A u \in Threads \ {t} : thread'[u] = thread[u]
      BY <2>2 DEF TypeOK
    <3>4. /\ thread'[t].pc = IF thread[t].call = "thread" THEN "open" ELSE "act"
          /\ thread'[t].of = thread[t].of /\ thread'[t].handle = thread[t].handle
          /\ thread'[t].value = p /\ thread'[t].call = thread[t].call
      BY <1>c, <3>3 DEF ThreadState
    <3>5. CreatorOK(t)' /\ CloseOK(t)' /\ WipeOK(t)' /\ ~Closes(t)'
      BY <1>c, <3>4 DEF CreatorOK, CloseOK, WipeOK, Closes, Opening, Filing, Closing
    <3>6. UseOK(t)'
      <4>1. Means(t)' = Means(t) /\ Means(t) \in held
        BY <1>2, <1>c, <3>0, <3>4 DEF LookUp, Means, UseOK, Using
      <4> QED
        BY <2>0, <3>0, <3>1, <3>2, <3>4, <4>1 DEF UseOK, Names
    <3> QED
      BY <2>0, <3>3, <3>4, <3>5, <3>6, LocalStep
  <2> QED
    BY <1>2, <2>1, <2>2 DEF LookUp
<1>3. CASE Act(t)
  BY <1>3, ReturnStep DEF Act
<1>4. CASE CheckHandle(t)
  <2>1. CASE Return(t)
    BY <1>4, <2>1, ReturnStep DEF CheckHandle
  <2>2. CASE GoTo(t, "get")
    <3>1. /\ thread'[t] = [thread[t] EXCEPT !.pc = "get"]
          /\ \A u \in Threads \ {t} : thread'[u] = thread[u]
      BY <2>2 DEF TypeOK
    <3>2. /\ thread'[t].pc = "get" /\ Means(t)' = Means(t)
          /\ thread'[t].call = thread[t].call
      BY <1>c, <3>1 DEF ThreadState, Means
    <3> QED
      BY <1>4, <3>1, <3>2, CloseGoesOn DEF CheckHandle
  <2> QED
    BY <1>4, <2>1, <2>2 DEF CheckHandle
<1>5. CASE GetPointer(t)
  <2> DEFINE p == GetHandlePointer(thread[t].handle)
  <2>1. thread[t].handle = 0 => p = 0
    BY <1>5 DEF GetPointer, Meets
  <2>2. thread' = [thread EXCEPT ![t].pc = "close", ![t].value = p]
    BY <1>5 DEF GetPointer
  <2> HIDE DEF p
  <2>3. /\ thread'[t] = [thread[t] EXCEPT !.pc = "close", !.value = p]
        /\ \A u \in Threads \ {t} : thread'[u] = thread[u]
    BY <2>2 DEF TypeOK
  <2>4. /\ thread'[t].pc = "close" /\ Means(t)' = Means(t)
        /\ thread'[t].call = thread[t].call /\ thread'[t].value = p
    BY <1>c, <2>3 DEF ThreadState, Means
  <2>5. p = GetHandlePointer(thread[t].handle)
    BY DEF p
  <2> QED
    BY <1>5, <2>1, <2>3, <2>4, <2>5, CloseGoesOn DEF GetPointer
<1>6. CASE FindToClear(t)
  <2>1. CASE Return(t)
    BY <1>6, <2>1, ReturnStep DEF FindToClear
  <2>2. ASSUME NEW i \in Entries, entry[i].handle = thread[t].handle,
               thread' = [thread EXCEPT ![t].pc = "wipe", ![t].i = i]
        PROVE  TableInv'
    <3>1. /\ thread'[t] = [thread[t] EXCEPT !.pc = "wipe", !.i = i]
          /\ \A u \in Threads \ {t} : thread'[u] = thread[u]
      BY <2>2 DEF TypeOK
    <3>2. /\ thread'[t].pc = "wipe" /\ Means(t)' = Means(t)
          /\ thread'[t].call = thread[t].call /\ thread'[t].i = i
      BY <1>c, <3>1 DEF ThreadState, Means
    <3> QED
      BY <1>6, <2>2, <3>1, <3>2, CloseGoesOn DEF FindToClear, Names
  <2> QED
    BY <1>6, <2>1, <2>2 DEF FindToClear
<1> QED
  BY <1>1, <1>2, <1>3, <1>4, <1>5, <1>6

\* The other threads create nothing while one does.
LEMMA OthersCreateNothing ==
  ASSUME OneCreator, CreateInv, NEW t \in Threads, t \in Creators, NEW u \in Threads \ {t}
  PROVE  thread[u].pc \notin Opening /\ thread[u].call # "thread"
  BY DEF CreateInv, CreatorCtl, OneCreator

LEMMA TableCreates == TableInv => CreateInv
  BY DEF TableInv, CallInv, CreatorOK, CreateInv, CreatorCtl

\* A step of another thread that leaves the entry of u's handle, and the Win32 value
\* of its object, keeps what a close by u knows.
LEMMA CloseKept ==
  ASSUME TypeOK, TableInv, NEW u \in Threads, thread'[u] = thread[u],
         nextHandle' \in Nat, opened' \in Nat, nextHandle <= nextHandle', opened <= opened',
         Closes(u) => \A i \in Entries : entry[i].handle = thread[u].handle => entry'[i] = entry[i],
         Closes(u) => \A v \in Values : object[v] = thread[u].of => object'[v] = object[v]
  PROVE  CloseOK(u)'
<1>1. SUFFICES ASSUME Closes(u) PROVE CloseOK(u)'
  BY DEF CloseOK, Closes, TableInv, CallInv
<1>2. /\ thread[u].handle \in 1..(nextHandle - 1) /\ thread[u].of \in 1..opened
      /\ nextHandle \in Nat /\ opened \in Nat /\ thread[u].handle # 0
  BY <1>1 DEF TableInv, CallInv, CloseOK, TypeOK, Closes
<1>3. PICK i \in Entries :
         /\ Names(i, thread[u].handle)
         /\ thread[u].pc \in {"check", "get", "close"} =>
              Holds(i, thread[u].handle, thread[u].of)
         /\ thread[u].pc \in {"close", "clear"} => entry[i].pointer = thread[u].value
         /\ thread[u].pc = "wipe" => i = thread[u].i
  BY <1>1 DEF TableInv, CallInv, CloseOK
<1>4. entry'[i] = entry[i]
  BY <1>1, <1>3 DEF Names
<1>5. Names(i, thread[u].handle)'
  BY <1>3, <1>4 DEF Names
<1>6. Holds(i, thread[u].handle, thread[u].of) => Holds(i, thread[u].handle, thread[u].of)'
  BY <1>1, <1>4, <1>5 DEF Holds
<1>7. thread[u].handle \in 1..(nextHandle' - 1) /\ thread[u].of \in 1..opened'
  BY <1>2
<1> QED
  BY <1>2, <1>3, <1>4, <1>5, <1>6, <1>7 DEF CloseOK

LEMMA OpenObjectKeeps ==
  ASSUME OneCreator, TypeOK, TableInv, NEW t \in Threads, OpenObject(t) PROVE TableInv'
<1> USE DEF At
<1>1. CASE Return(t) /\ UNCHANGED <<object, opened>>
  BY <1>1, ReturnStep DEF OpenObject
<1>2. ASSUME NEW v \in Values, opened < MaxObjects, opened' = opened + 1, object[v] = 0,
             object' = [object EXCEPT ![v] = opened'],
             thread' = [thread EXCEPT ![t] =
                [Idle EXCEPT !.pc = "find", !.call = "create", !.of = opened',
                             !.value = v, !.i = 1]]
      PROVE  TableInv'
  <2>1. /\ thread'[t].pc = "find" /\ thread'[t].call = "create" /\ thread'[t].of = opened'
        /\ thread'[t].value = v /\ thread'[t].i = 1
    BY <1>2 DEF TypeOK, Idle
  <2>2. \A u \in Threads \ {t} : thread'[u] = thread[u]
    BY <1>2 DEF TypeOK
  <2>3. UNCHANGED <<entry, nextHandle, held>> /\ t \in Creators
    BY DEF OpenObject, TableInv, CallInv, CreatorOK, Opening
  <2>4. \A u \in Threads \ {t} : thread[u].pc \notin Opening /\ thread[u].call # "thread"
    BY <2>3, TableCreates, OthersCreateNothing
  <2>5. opened \in Nat /\ 1 \in Entries /\ MaxObjects \in Nat /\ FirstHandle \in Nat
    BY HandleTableAssumption DEF HandleTableAssumption, Entries, TypeOK
  <2>6. \A i, h, obj : Holds(i, h, obj) /\ obj # 0 => Holds(i, h, obj)'
    BY <1>2, <2>3 DEF Holds, Names, TypeOK
  <2>7. CountInv'
    BY <1>2, <2>1, <2>2, <2>3, <2>5 DEF TableInv, CountInv
  <2>8. EntryInv'
    BY <2>3 DEF TableInv, EntryInv
  <2>9. HeldInv'
    BY <1>2, <2>3, <2>5, <2>6 DEF TableInv, HeldInv
  <2>10. CallInv'
    <3>1. CreatorOK(t)' /\ UseOK(t)' /\ CloseOK(t)' /\ WipeOK(t)'
      BY <1>2, <2>1, <2>3, <2>5
      DEF CreatorOK, UseOK, CloseOK, WipeOK, Opening, Filing, Using, Closing, Closes, TypeOK
    <3>2. ASSUME NEW u \in Threads \ {t} PROVE CreatorOK(u)' /\ UseOK(u)' /\ CloseOK(u)' /\ WipeOK(u)'
      <4>1. CreatorOK(u)'
        BY <2>2, <2>4 DEF CreatorOK, Opening, Filing
      <4>2. UseOK(u)'
        BY <2>2, <2>3 DEF TableInv, CallInv, UseOK, Means, Names
      <4>3. CloseOK(u)'
        <5>1. Closes(u) => thread[u].of # 0
          BY DEF TableInv, CallInv, CloseOK
        <5>2. \A w \in Values : object[w] # 0 => object'[w] = object[w]
          BY <1>2 DEF TypeOK
        <5>3. Closes(u) => \A w \in Values : object[w] = thread[u].of => object'[w] = object[w]
          BY <5>1, <5>2
        <5>4. opened' \in Nat /\ opened <= opened' /\ nextHandle' \in Nat /\ nextHandle <= nextHandle'
          BY <1>2, <2>3, <2>5 DEF TypeOK
        <5> QED
          BY <2>2, <2>3, <5>3, <5>4, CloseKept
      <4>4. WipeOK(u)'
        BY <2>2, <2>3 DEF TableInv, CallInv, WipeOK
      <4> QED
        BY <4>1, <4>2, <4>3, <4>4
    <3> QED
      BY <3>1, <3>2 DEF CallInv
  <2>11. DistinctInv'
    <3>1. \A r \in held : r.of # opened'
      BY <1>2, <2>5 DEF TableInv, HeldInv
    <3>2. \A u \in Threads : Closes(u) => thread[u].of # opened'
      BY <1>2, <2>5 DEF TableInv, CallInv, CloseOK
    <3>3. thread'[t].pc \in Filing /\ thread'[t].pc \notin Named /\ ~Closes(t)'
      BY <2>1 DEF Filing, Named, Closing, Closes
    <3>4. \A u \in Threads \ {t} : Closes(u)' <=> Closes(u)
      BY <2>2 DEF Closes
    <3> QED
      BY <2>1, <2>2, <2>3, <3>1, <3>2, <3>3, <3>4 DEF TableInv, DistinctInv
  <2> QED
    BY <2>7, <2>8, <2>9, <2>10, <2>11 DEF TableInv
<1> QED
  BY <1>1, <1>2 DEF OpenObject

LEMMA NameEntryKeeps ==
  ASSUME OneCreator, TypeOK, TableInv, NEW t \in Threads, NameEntry(t), ~clash'
  PROVE  TableInv'
<1> USE DEF At, GoTo
<1> DEFINE e == thread[t].i
<1>c. CreatorOK(t) /\ thread[t] \in ThreadState
  BY DEF TableInv, CallInv, TypeOK
<1>1. /\ thread'[t] = [thread[t] EXCEPT !.pc = "store"]
      /\ \A u \in Threads \ {t} : thread'[u] = thread[u]
  BY DEF NameEntry, TypeOK
<1>2. /\ thread'[t].pc = "store" /\ thread'[t].of = thread[t].of
      /\ thread'[t].value = thread[t].value /\ thread'[t].i = e
      /\ thread'[t].handle = thread[t].handle /\ thread'[t].call = thread[t].call
  BY <1>c, <1>1 DEF ThreadState
<1>3. /\ t \in Creators /\ e \in Entries /\ entry[e].handle = 0
      /\ thread[t].handle = nextHandle /\ thread[t].of = opened /\ opened > 0
      /\ thread[t].value \in Values /\ object[thread[t].value] = opened
  BY <1>c DEF NameEntry, CreatorOK, Opening, Filing
<1>4. \A u \in Threads \ {t} : thread[u].pc \notin Opening /\ thread[u].call # "thread"
  BY <1>3, TableCreates, OthersCreateNothing
<1>5. nextHandle' = nextHandle + 1 /\ UNCHANGED <<object, opened, held>>
  <2>1. nextHandle \in Nat /\ nextHandle + 1 < HandleLimit /\ HandleLimit \in Nat
    BY HandleTableAssumption DEF HandleTableAssumption, NameEntry, TableInv, CountInv
  <2>2. (nextHandle + 1) % HandleLimit = nextHandle + 1
    BY <2>1
  <2> QED
    BY <1>3, <2>2 DEF NameEntry
<1>6. /\ entry'[e].handle = nextHandle /\ entry'[e].pointer = entry[e].pointer
      /\ \A j \in Entries \ {e} : entry'[j] = entry[j]
  BY <1>3 DEF NameEntry, TypeOK
<1>w. \A u \in Threads : thread[u].pc \in {"wipe", "wipe2"} => thread[u].i # e
  BY DEF NameEntry, Wiping
<1> HIDE DEF e
<1>n. nextHandle \in Nat \ {0} /\ nextHandle' \in Nat \ {0}
  BY <1>5 DEF TableInv, CountInv
<1>7. \A i, h : Names(i, h) /\ h # 0 => Names(i, h)' /\ entry'[i] = entry[i]
  BY <1>3, <1>6 DEF Names
<1>8. \A i, h, obj : Holds(i, h, obj) /\ h # 0 => Holds(i, h, obj)'
  BY <1>5, <1>7 DEF Holds
<1>9. CountInv'
  BY <1>1, <1>2, <1>4, <1>5 DEF TableInv, CountInv, Opening, NameEntry
<1>10. EntryInv'
  BY <1>3, <1>5, <1>6, <1>n DEF TableInv, EntryInv, TypeOK
<1>11. HeldInv'
  BY <1>5, <1>8, <1>n DEF TableInv, HeldInv
<1>12. CallInv'
  <2>1. Names(thread[t].i, thread[t].handle)'
    BY <1>2, <1>3, <1>6 DEF Names
  <2>2. CreatorOK(t)' /\ UseOK(t)' /\ CloseOK(t)' /\ WipeOK(t)'
    BY <1>2, <1>3, <1>5, <1>n, <2>1
    DEF CreatorOK, UseOK, CloseOK, WipeOK, Opening, Filing, Using, Closing, Closes, Names
  <2>3. ASSUME NEW u \in Threads \ {t} PROVE CreatorOK(u)' /\ UseOK(u)' /\ CloseOK(u)' /\ WipeOK(u)'
    <3>1. CreatorOK(u)'
      BY <1>1, <1>4 DEF CreatorOK, Opening, Filing
    <3>2. UseOK(u)'
      <4>1. UseOK(u)
        BY DEF TableInv, CallInv
      <4>2. thread'[u] = thread[u] /\ Means(u)' = Means(u)
        BY <1>1 DEF Means
      <4> QED
        BY <1>5, <1>7, <4>1, <4>2 DEF UseOK
    <3>3. CloseOK(u)'
      <4>1. Closes(u) => \A i \in Entries : entry[i].handle = thread[u].handle => entry'[i] = entry[i]
        BY <1>7 DEF Closes, Names
      <4>2. opened' \in Nat /\ opened <= opened' /\ nextHandle' \in Nat /\ nextHandle <= nextHandle'
        BY <1>5, <1>n DEF TypeOK
      <4> QED
        BY <1>1, <1>5, <4>1, <4>2, CloseKept
    <3>4. WipeOK(u)'
      <4>1. thread[u].pc \in {"wipe", "wipe2"} => thread[u].i # e
        BY <1>w
      <4> QED
        BY <1>1, <1>6, <4>1 DEF TableInv, CallInv, WipeOK
    <3> QED
      BY <3>1, <3>2, <3>3, <3>4
  <2> QED
    BY <2>2, <2>3 DEF CallInv
<1>13. DistinctInv'
  <2>1. /\ thread[t].pc \in Filing /\ thread[t].pc \in Named
        /\ thread'[t].pc \in Filing /\ thread'[t].pc \in Named /\ ~Closes(t)'
    BY <1>2 DEF NameEntry, Filing, Named, Closing, Closes
  <2>2. \A u \in Threads : Closes(u)' => u # t /\ thread'[u] = thread[u] /\ Closes(u)
    BY <1>1, <2>1 DEF Closes
  <2>3. \A u \in Threads :
         /\ thread'[u].pc \in Filing => thread[u].pc \in Filing
         /\ thread'[u].pc \in Named => thread[u].pc \in Named
         /\ thread'[u].of = thread[u].of /\ thread'[u].handle = thread[u].handle
    BY <1>1, <1>2, <2>1
  <2> QED
    BY <1>5, <2>2, <2>3 DEF TableInv, DistinctInv
<1> QED
  BY <1>9, <1>10, <1>11, <1>12, <1>13 DEF TableInv

\* A step of t that changes entries of no handle but its own, and Win32 values of no
\* object but its own, keeps what the other calls know.
LEMMA OthersKept ==
  ASSUME TypeOK, TableInv, NEW t \in Threads, NEW u \in Threads \ {t},
         UNCHANGED <<nextHandle, opened>>, thread'[u] = thread[u],
         Closes(t) \/ thread[t].pc \in Filing,
         \A i \in Entries : entry[i].handle # thread[t].handle => entry'[i] = entry[i],
         \A i \in Entries : entry'[i].handle \in {0, entry[i].handle},
         \A v \in Values : object[v] # thread[t].of => object'[v] = object[v],
         \A r \in held : r.handle # thread[t].handle => r \in held',
         thread[u].pc \in Opening => Closes(t),
         thread[t].pc \in Filing => thread[t].pc \in Named
  PROVE  CreatorOK(u)' /\ UseOK(u)' /\ CloseOK(u)' /\ WipeOK(u)'
<1>0. CreatorOK(u) /\ UseOK(u) /\ CloseOK(u) /\ WipeOK(u) /\ DistinctInv /\ HeldInv
  BY DEF TableInv, CallInv
<1>1. \A i \in Entries : entry[i].handle = 0 => entry'[i].handle = 0
  OBVIOUS
<1>2. CreatorOK(u)'
  <2>1. thread[u].pc \in Filing => thread[u].of # thread[t].of
    BY <1>0 DEF DistinctInv, Filing, Opening
  <2>2. thread[u].pc = "store" => thread[u].handle # thread[t].handle
    BY <1>0 DEF DistinctInv, Named, Opening
  <2>3. thread[u].pc \in Filing =>
          /\ thread[u].of = opened' /\ opened' > 0 /\ thread[u].value \in Values
          /\ object'[thread[u].value] = opened' /\ thread[u].i \in Entries
    BY <1>0, <2>1 DEF CreatorOK
  <2>4. thread[u].pc \in {"count", "name"} => entry'[thread[u].i].handle = 0
    BY <1>0, <1>1, <2>3 DEF CreatorOK, Filing
  <2>5. thread[u].pc = "store" => /\ thread[u].handle \in 1..(nextHandle' - 1)
                                 /\ Names(thread[u].i, thread[u].handle)'
    BY <1>0, <2>2 DEF CreatorOK, Names
  <2> QED
    BY <1>0, <2>3, <2>4, <2>5 DEF CreatorOK
<1>3. UseOK(u)'
  <2>1. SUFFICES ASSUME thread[u].pc \in Using, thread[u].handle # 0 PROVE UseOK(u)'
    BY <1>0 DEF UseOK
  <2>2. Means(u) \in held /\ Means(u).handle = thread[u].handle /\ Means(u)' = Means(u)
    BY <1>0, <2>1 DEF UseOK, Means
  <2>3. thread[u].handle # thread[t].handle
    BY <1>0, <2>2 DEF DistinctInv
  <2>4. Means(u) \in held'
    BY <2>2, <2>3
  <2> QED
    BY <1>0, <2>1, <2>2, <2>3, <2>4 DEF UseOK, Names
<1>4. CloseOK(u)'
  <2>1. Closes(u) => thread[u].handle # thread[t].handle /\ thread[u].of # thread[t].of
    BY <1>0 DEF DistinctInv
  <2>2. nextHandle \in Nat /\ opened \in Nat
    BY DEF TypeOK
  <2> QED
    BY <2>1, <2>2, CloseKept
<1>5. WipeOK(u)'
  BY <1>0 DEF WipeOK
<1> QED
  BY <1>2, <1>3, <1>4, <1>5

LEMMA HeldKept ==
  ASSUME TypeOK, TableInv, NEW t \in Threads,
         UNCHANGED <<nextHandle, opened>>, Closes(t) \/ thread[t].pc \in Named,
         \A i \in Entries : entry[i].handle # thread[t].handle => entry'[i] = entry[i],
         \A v \in Values : object[v] # thread[t].of => object'[v] = object[v],
         NEW r \in held
  PROVE  /\ r.handle \in 1..(nextHandle' - 1) /\ r.of \in 1..opened'
         /\ \E i \in Entries : Holds(i, r.handle, r.of)'
<1>1. r.handle # thread[t].handle /\ r.of # thread[t].of
  BY DEF TableInv, DistinctInv, Filing, Named
<1>2. PICK i \in Entries : Holds(i, r.handle, r.of)
  BY DEF TableInv, HeldInv
<1>3. entry'[i] = entry[i] /\ object'[entry[i].pointer] = object[entry[i].pointer]
  BY <1>1, <1>2 DEF Holds, Names
<1> QED
  BY <1>2, <1>3 DEF Holds, Names, TableInv, HeldInv

LEMMA StorePointerKeeps ==
  ASSUME OneCreator, TypeOK, TableInv, NEW t \in Threads, StorePointer(t) PROVE TableInv'
<1> USE DEF At
<1> DEFINE e == thread[t].i
           new == [handle |-> thread[t].handle, of |-> thread[t].of]
<1>c. CreatorOK(t) /\ thread[t] \in ThreadState /\ DistinctInv
  BY DEF TableInv, CallInv, TypeOK
<1>1. /\ thread'[t] = Idle /\ \A u \in Threads \ {t} : thread'[u] = thread[u]
      /\ UNCHANGED <<nextHandle, object, opened, lost>> /\ held' = held \cup {new}
  BY DEF StorePointer, Return, TypeOK
<1>2. /\ t \in Creators /\ e \in Entries /\ entry[e].handle = thread[t].handle
      /\ thread[t].handle \in 1..(nextHandle - 1) /\ thread[t].of = opened
      /\ thread[t].value \in Values /\ object[thread[t].value] = opened /\ opened > 0
  BY <1>c DEF StorePointer, CreatorOK, Opening, Filing, Names
<1>3. /\ entry'[e].pointer = thread[t].value /\ entry'[e].handle = entry[e].handle
      /\ \A j \in Entries \ {e} : entry'[j] = entry[j]
  BY <1>2 DEF StorePointer, TypeOK
<1>4. thread[t].pc \in Filing /\ thread[t].pc \in Named /\ ~Closes(t)
  BY DEF StorePointer, Filing, Named, Closing, Closes
<1>n. nextHandle \in Nat \ {0} /\ opened \in Nat
  BY DEF TableInv, CountInv
<1> HIDE DEF e
<1>5. \A u \in Threads \ {t} : thread[u].pc \notin Opening /\ thread[u].call # "thread"
  BY <1>2, TableCreates, OthersCreateNothing
<1>6. \A i \in Entries : entry[i].handle # thread[t].handle => entry'[i] = entry[i]
  BY <1>2, <1>3
<1>7. \A i \in Entries : entry'[i].handle = entry[i].handle
  BY <1>2, <1>3
<1>8. CountInv' /\ EntryInv'
  <2>1. CountInv'
    BY <1>1, <1>5 DEF TableInv, CountInv, Opening, Idle
  <2>2. EntryInv'
    BY <1>1, <1>7 DEF TableInv, EntryInv
  <2> QED
    BY <2>1, <2>2
<1>9. HeldInv'
  <2>1. \A r \in held : /\ r.handle \in 1..(nextHandle' - 1) /\ r.of \in 1..opened'
                        /\ \E i \in Entries : Holds(i, r.handle, r.of)'
    BY <1>1, <1>4, <1>6, HeldKept
  <2>2. /\ new.handle \in 1..(nextHandle' - 1) /\ new.of \in 1..opened'
        /\ e \in Entries /\ entry'[e].handle = new.handle
        /\ entry'[e].pointer \in Values /\ object'[entry'[e].pointer] = new.of
    BY <1>1, <1>2, <1>3, <1>n
  <2> HIDE DEF new
  <2>3. ASSUME NEW r \in held'
        PROVE  /\ r.handle \in 1..(nextHandle' - 1) /\ r.of \in 1..opened'
               /\ \E i \in Entries : Holds(i, r.handle, r.of)'
    <3>1. CASE r \in held
      BY <2>1, <3>1
    <3>2. CASE r = new
      BY <2>2, <3>2 DEF Holds, Names
    <3> QED
      BY <1>1, <3>1, <3>2
  <2> QED
    BY <2>3 DEF HeldInv
<1>10. CallInv'
  <2>1. CreatorOK(t)' /\ UseOK(t)' /\ CloseOK(t)' /\ WipeOK(t)'
    BY <1>1 DEF Idle, CreatorOK, UseOK, CloseOK, WipeOK, Opening, Filing, Using, Closing, Closes
  <2>2. ASSUME NEW u \in Threads \ {t} PROVE CreatorOK(u)' /\ UseOK(u)' /\ CloseOK(u)' /\ WipeOK(u)'
    BY <1>1, <1>4, <1>5, <1>6, <1>7, OthersKept
  <2> QED
    BY <2>1, <2>2 DEF CallInv
<1>11. DistinctInv'
  <2>1. \A r \in held : r.handle # new.handle /\ r.of # new.of
    BY <1>c, <1>4 DEF DistinctInv
  <2>2. \A r, s \in held' : r.handle = s.handle \/ r.of = s.of => r = s
    BY <1>1, <1>c, <2>1 DEF DistinctInv
  <2>3. ~Closes(t)' /\ thread'[t].pc \notin Filing /\ thread'[t].pc \notin Named
    BY <1>1 DEF Idle, Closing, Closes, Filing, Named
  <2>c. \A u \in Threads \ {t} : Closes(u)' <=> Closes(u)
    BY <1>1 DEF Closes
  <2>4. ASSUME NEW u \in Threads \ {t}
        PROVE  /\ Closes(u) => new.handle # thread[u].handle /\ new.of # thread[u].of
               /\ thread[u].pc \notin Filing /\ thread[u].pc \notin Named
    BY <1>c, <1>4, <1>5 DEF DistinctInv, Opening, Filing, Named
  <2>5. \A r \in held', u \in Threads :
         /\ Closes(u)' => r.handle # thread'[u].handle /\ r.of # thread'[u].of
         /\ thread'[u].pc \in Filing => r.of # thread'[u].of
         /\ thread'[u].pc \in Named => r.handle # thread'[u].handle
    BY <1>1, <1>c, <2>3, <2>c, <2>4 DEF DistinctInv
  <2>6. \A v, u \in Threads : Closes(v)' /\ v # u =>
         /\ Closes(u)' => thread'[v].handle # thread'[u].handle
                                        /\ thread'[v].of # thread'[u].of
         /\ thread'[u].pc \in Filing => thread'[v].of # thread'[u].of
         /\ thread'[u].pc \in Named => thread'[v].handle # thread'[u].handle
    BY <1>1, <1>c, <2>3, <2>c DEF DistinctInv
  <2> QED
    BY <2>2, <2>5, <2>6 DEF DistinctInv
<1> QED
  BY <1>8, <1>9, <1>10, <1>11 DEF TableInv

LEMMA NtCloseKeeps ==
  ASSUME TypeOK, TableInv, NEW t \in Threads, NtClose(t) PROVE TableInv'
<1> USE DEF At
<1>1. PICK r \in Told : ~InUse(r) /\ Take(t, "close", r, "check") /\ held' = held \ {r}
  BY DEF NtClose
<1>2. /\ thread'[t] = [Idle EXCEPT !.pc = "check", !.call = "close",
                                   !.handle = r.handle, !.of = r.of]
      /\ \A u \in Threads \ {t} : thread'[u] = thread[u]
  BY <1>1 DEF Take, TypeOK
<1>3. /\ thread'[t].pc = "check" /\ thread'[t].call = "close"
      /\ thread'[t].handle = r.handle /\ thread'[t].of = r.of
  BY <1>2 DEF Idle
<1>4. UNCHANGED <<entry, nextHandle, object, opened>> /\ DistinctInv
  BY DEF NtClose, TableInv
<1>z. CASE r.handle = 0
  <2>1. held' = held
    BY <1>1, <1>z DEF TableInv, HeldInv
  <2>2. CreatorOK(t)' /\ UseOK(t)' /\ CloseOK(t)' /\ WipeOK(t)' /\ ~Closes(t)'
    BY <1>3, <1>z DEF CreatorOK, UseOK, CloseOK, WipeOK, Closes, Opening, Filing, Using
  <2> QED
    BY <1>2, <1>3, <1>4, <2>1, <2>2, LocalStep
<1>h. SUFFICES ASSUME r.handle # 0 PROVE TableInv'
  BY <1>z
<1>r. r \in held
  BY <1>h DEF Told
<1>5. \A u \in Threads : thread[u].handle # r.handle
  BY <1>1, <1>h DEF InUse
<1>6. CountInv'
  BY <1>2, <1>3, <1>4 DEF TableInv, CountInv
<1>7. EntryInv' /\ HeldInv'
  BY <1>1, <1>4 DEF TableInv, EntryInv, HeldInv, Holds, Names
<1>8. CallInv'
  <2>1. CreatorOK(t)' /\ UseOK(t)' /\ WipeOK(t)'
    BY <1>3, <1>h DEF CreatorOK, UseOK, WipeOK, Opening, Filing, Using
  <2>2. CloseOK(t)'
    BY <1>3, <1>4, <1>r DEF CloseOK, TableInv, HeldInv, Holds, Names
  <2>3. ASSUME NEW u \in Threads \ {t} PROVE CreatorOK(u)' /\ UseOK(u)' /\ CloseOK(u)' /\ WipeOK(u)'
    <3>1. Means(u) # r /\ Means(u)' = Means(u)
      BY <1>2, <1>5 DEF Means
    <3> QED
      BY <1>1, <1>2, <1>4, <3>1 DEF TableInv, CallInv, CreatorOK, UseOK, CloseOK, WipeOK, Closes, Holds, Names
  <2> QED
    BY <2>1, <2>2, <2>3 DEF CallInv
<1>9. DistinctInv'
  <2>1. \A s \in held' : s \in held /\ s.handle # r.handle /\ s.of # r.of
    BY <1>1, <1>4, <1>r DEF DistinctInv
  <2>c. \A u \in Threads \ {t} : Closes(u)' <=> Closes(u)
    BY <1>2 DEF Closes
  <2>2. thread'[t].pc \notin Filing /\ thread'[t].pc \notin Named
    BY <1>3 DEF Filing, Named
  <2>3. \A s \in held', u \in Threads :
         /\ Closes(u)' => s.handle # thread'[u].handle /\ s.of # thread'[u].of
         /\ thread'[u].pc \in Filing => s.of # thread'[u].of
         /\ thread'[u].pc \in Named => s.handle # thread'[u].handle
    <3> SUFFICES ASSUME NEW s \in held', NEW u \in Threads
                 PROVE  /\ Closes(u)' => s.handle # thread'[u].handle /\ s.of # thread'[u].of
                        /\ thread'[u].pc \in Filing => s.of # thread'[u].of
                        /\ thread'[u].pc \in Named => s.handle # thread'[u].handle
      OBVIOUS
    <3>1. CASE u = t
      BY <1>3, <2>1, <2>2, <3>1
    <3>2. CASE u # t
      BY <1>2, <1>4, <2>1, <2>c, <3>2 DEF DistinctInv
    <3> QED
      BY <3>1, <3>2
  <2>4. \A v, u \in Threads : Closes(v)' /\ v # u =>
         /\ Closes(u)' => thread'[v].handle # thread'[u].handle
                                        /\ thread'[v].of # thread'[u].of
         /\ thread'[u].pc \in Filing => thread'[v].of # thread'[u].of
         /\ thread'[u].pc \in Named => thread'[v].handle # thread'[u].handle
    <3>1. ASSUME NEW u \in Threads \ {t}
          PROVE  /\ Closes(u) => r.handle # thread[u].handle /\ r.of # thread[u].of
                 /\ thread[u].pc \in Filing => r.of # thread[u].of
                 /\ thread[u].pc \in Named => r.handle # thread[u].handle
      BY <1>4, <1>r DEF DistinctInv
    <3> SUFFICES ASSUME NEW v \in Threads, NEW u \in Threads, Closes(v)', v # u
                 PROVE  /\ Closes(u)' => thread'[v].handle # thread'[u].handle
                                                       /\ thread'[v].of # thread'[u].of
                        /\ thread'[u].pc \in Filing => thread'[v].of # thread'[u].of
                        /\ thread'[u].pc \in Named => thread'[v].handle # thread'[u].handle
      OBVIOUS
    <3>2. CASE v = t
      BY <1>2, <1>3, <2>c, <3>1, <3>2
    <3>3. CASE u = t
      BY <1>2, <1>3, <2>2, <2>c, <3>1, <3>3
    <3>4. CASE v # t /\ u # t
      BY <1>2, <1>4, <2>c, <3>4 DEF DistinctInv
    <3> QED
      BY <3>2, <3>3, <3>4
  <2> QED
    BY <2>1, <2>3, <2>4, <1>4 DEF DistinctInv
<1> QED
  BY <1>6, <1>7, <1>8, <1>9 DEF TableInv

\* A step of t that goes on with its close and changes at most the entry of its handle
\* and the Win32 value of its object.
LEMMA CloseStep ==
  ASSUME TypeOK, TableInv, NEW t \in Threads, Closes(t),
         UNCHANGED <<nextHandle, opened, held>>,
         \A u \in Threads \ {t} : thread'[u] = thread[u],
         Means(t)' = Means(t), thread'[t].call = thread[t].call,
         thread'[t].pc \in {"clear", "wipe2"},
         CloseOK(t)', WipeOK(t)',
         \A i \in Entries : entry[i].handle # thread[t].handle => entry'[i] = entry[i],
         \A i \in Entries : entry'[i].handle \in {0, entry[i].handle},
         \A v \in Values : object[v] # thread[t].of => object'[v] = object[v]
  PROVE  TableInv'
<1>0. /\ thread'[t].handle = thread[t].handle /\ thread'[t].of = thread[t].of
      /\ DistinctInv /\ EntryInv
  BY DEF Means, TableInv
<1>1. CountInv' /\ EntryInv'
  <2>1. CountInv'
    BY DEF TableInv, CountInv
  <2>2. EntryInv'
    BY <1>0 DEF EntryInv, TableInv, CountInv
  <2> QED
    BY <2>1, <2>2
<1>2. HeldInv'
  <2>1. \A r \in held : /\ r.handle \in 1..(nextHandle' - 1) /\ r.of \in 1..opened'
                        /\ \E j \in Entries : Holds(j, r.handle, r.of)'
    BY HeldKept
  <2> QED
    BY <2>1 DEF HeldInv, Holds, Names
<1>3. CallInv'
  <2>1. CreatorOK(t)' /\ UseOK(t)'
    BY DEF CreatorOK, UseOK, Opening, Filing, Using, TableInv, CallInv
  <2>2. ASSUME NEW u \in Threads \ {t} PROVE CreatorOK(u)' /\ UseOK(u)' /\ CloseOK(u)' /\ WipeOK(u)'
    <3>1. \A r \in held : r.handle # thread[t].handle => r \in held'
      OBVIOUS
    <3>2. thread[t].pc \notin Filing
      BY DEF Closes, Closing, Filing
    <3> QED
      BY <3>1, <3>2, OthersKept
  <2> QED
    BY <2>1, <2>2 DEF CallInv
<1>4. DistinctInv'
  <2>1. \A u \in Threads :
         /\ Closes(u)' => Closes(u)
         /\ thread'[u].pc \in Filing => thread[u].pc \in Filing
         /\ thread'[u].pc \in Named => thread[u].pc \in Named
         /\ thread'[u].of = thread[u].of /\ thread'[u].handle = thread[u].handle
    BY <1>0 DEF Filing, Named, Closes
  <2> QED
    BY <1>0, <2>1 DEF DistinctInv
<1> QED
  BY <1>1, <1>2, <1>3, <1>4 DEF TableInv

LEMMA CloseWin32Keeps ==
  ASSUME TypeOK, TableInv, NEW t \in Threads, CloseWin32(t) PROVE TableInv'
<1> USE DEF At, GoTo
<1>c. CloseOK(t) /\ thread[t] \in ThreadState /\ CreatorOK(t)
  BY DEF TableInv, CallInv, TypeOK
<1>1. /\ thread'[t] = [thread[t] EXCEPT !.pc = "clear"]
      /\ \A u \in Threads \ {t} : thread'[u] = thread[u]
      /\ UNCHANGED <<entry, nextHandle, opened, lost, held>>
  BY DEF CloseWin32, TypeOK
<1>2. /\ thread'[t].pc = "clear" /\ Means(t)' = Means(t)
      /\ thread'[t].value = thread[t].value /\ thread'[t].call = thread[t].call
      /\ thread'[t].handle = thread[t].handle /\ thread'[t].of = thread[t].of
  BY <1>c, <1>1 DEF ThreadState, Means
<1>3. CASE thread[t].handle = 0
  <2>1. thread[t].value = 0
    BY <1>3, <1>c DEF CloseWin32, CloseOK
  <2>2. object' = object
    BY <2>1, HandleTableAssumption DEF HandleTableAssumption, CloseWin32, TypeOK
  <2>3. CreatorOK(t)' /\ UseOK(t)' /\ CloseOK(t)' /\ WipeOK(t)' /\ ~Closes(t)'
    BY <1>2, <1>3, <1>c
    DEF CreatorOK, UseOK, CloseOK, WipeOK, Closes, Opening, Filing, Using
  <2> QED
    BY <1>1, <1>2, <2>2, <2>3, LocalStep
<1>4. CASE thread[t].handle # 0
  <2>0. Closes(t)
    BY <1>4 DEF Closes, Closing, CloseWin32
  <2>1. PICK i \in Entries : /\ Holds(i, thread[t].handle, thread[t].of)
                             /\ entry[i].pointer = thread[t].value
    BY <1>c, <2>0 DEF CloseWin32, CloseOK
  <2>2. thread[t].handle \in 1..(nextHandle - 1) /\ thread[t].of \in 1..opened
    BY <1>c, <2>0 DEF CloseOK
  <2>3. \A v \in Values : object[v] # thread[t].of => object'[v] = object[v]
    BY <2>1 DEF CloseWin32, Holds
  <2>4. CloseOK(t)' /\ WipeOK(t)'
    BY <1>1, <1>2, <1>4, <2>1, <2>2 DEF CloseOK, WipeOK, Holds, Names
  <2> QED
    BY <1>1, <1>2, <2>0, <2>3, <2>4, CloseStep
<1> QED
  BY <1>3, <1>4

LEMMA WipeHandleKeeps ==
  ASSUME TypeOK, TableInv, NEW t \in Threads, WipeHandle(t) PROVE TableInv'
<1> USE DEF At, GoTo
<1> DEFINE i == thread[t].i
<1>c. /\ CloseOK(t) /\ WipeOK(t) /\ CreatorOK(t) /\ EntryInv
      /\ thread[t] \in ThreadState
  BY DEF TableInv, CallInv, TypeOK
<1>1. /\ thread'[t] = [thread[t] EXCEPT !.pc = "wipe2"]
      /\ \A u \in Threads \ {t} : thread'[u] = thread[u]
      /\ UNCHANGED <<nextHandle, object, opened, lost, held>>
      /\ entry' = [entry EXCEPT ![i].handle = 0]
  BY DEF WipeHandle, TypeOK
<1>2. /\ thread'[t].pc = "wipe2" /\ Means(t)' = Means(t) /\ thread'[t].i = i
      /\ thread'[t].value = thread[t].value /\ thread'[t].call = thread[t].call
      /\ thread'[t].handle = thread[t].handle /\ thread'[t].of = thread[t].of
  BY <1>c, <1>1 DEF ThreadState, Means
<1>3. /\ i \in Entries /\ entry[i].handle = thread[t].handle
  BY <1>c DEF WipeHandle, CloseOK, WipeOK, Closes, Closing, Names
<1>4. /\ entry'[i].handle = 0 /\ \A j \in Entries \ {i} : entry'[j] = entry[j]
  BY <1>1, <1>3 DEF TypeOK
<1>5. CloseOK(t)' /\ WipeOK(t)' /\ ~Closes(t)'
  BY <1>2, <1>3, <1>4 DEF CloseOK, WipeOK, Closes, Closing
<1>6. CASE thread[t].handle = 0
  <2>1. entry' = entry
    BY <1>1, <1>3, <1>6 DEF TypeOK
  <2>2. CreatorOK(t)' /\ UseOK(t)'
    BY <1>2, <1>c DEF CreatorOK, UseOK, Opening, Filing, Using
  <2> QED
    BY <1>1, <1>2, <1>5, <2>1, <2>2, LocalStep
<1>7. CASE thread[t].handle # 0
  <2>1. Closes(t)
    BY <1>7 DEF Closes, Closing, WipeHandle
  <2>2. \A j \in Entries : entry[j].handle # thread[t].handle => entry'[j] = entry[j]
    BY <1>3, <1>4
  <2>3. \A j \in Entries : entry'[j].handle \in {0, entry[j].handle}
    BY <1>4
  <2> HIDE DEF i
  <2> QED
    BY <1>1, <1>2, <1>5, <2>1, <2>2, <2>3, CloseStep
<1> QED
  BY <1>6, <1>7

\* The entry that WipePointer clears is free, so nobody looks at it.
LEMMA WipePointerKeeps ==
  ASSUME TypeOK, TableInv, NEW t \in Threads, WipePointer(t) PROVE TableInv'
<1> USE DEF At
<1> DEFINE i == thread[t].i
<1>c. WipeOK(t) /\ DistinctInv
  BY DEF TableInv, CallInv
<1>1. /\ thread'[t] = Idle /\ \A u \in Threads \ {t} : thread'[u] = thread[u]
      /\ UNCHANGED <<nextHandle, object, opened, lost, held>>
  BY DEF WipePointer, Return, TypeOK
<1>2. i \in Entries /\ entry[i].handle = 0 /\ entry' = [entry EXCEPT ![i].pointer = 0]
  BY <1>c DEF WipePointer, WipeOK
<1>3. /\ \A j \in Entries : entry'[j].handle = entry[j].handle
      /\ \A j \in Entries : entry[j].handle # 0 => entry'[j] = entry[j]
  BY <1>2 DEF TypeOK
<1> HIDE DEF i
<1>4. \A j, h : Names(j, h)' <=> Names(j, h)
  BY <1>3 DEF Names
<1>5. \A j, h, obj : h # 0 /\ Holds(j, h, obj) => Holds(j, h, obj)'
  BY <1>1, <1>3, <1>4 DEF Holds, Names
<1>6. CountInv' /\ EntryInv'
  BY <1>1, <1>3 DEF TableInv, CountInv, EntryInv, Idle
<1>7. HeldInv'
  <2>1. \A r \in held : r.handle # 0
    BY DEF TableInv, HeldInv
  <2> QED
    BY <1>1, <1>5, <2>1 DEF TableInv, HeldInv
<1>8. CallInv'
  <2>1. CreatorOK(t)' /\ UseOK(t)' /\ CloseOK(t)' /\ WipeOK(t)'
    BY <1>1 DEF Idle, CreatorOK, UseOK, CloseOK, WipeOK, Opening, Filing, Using, Closing, Closes
  <2>2. ASSUME NEW u \in Threads \ {t} PROVE CreatorOK(u)' /\ UseOK(u)' /\ CloseOK(u)' /\ WipeOK(u)'
    <3>0. CreatorOK(u) /\ UseOK(u) /\ CloseOK(u) /\ WipeOK(u) /\ thread'[u] = thread[u]
      BY <1>1 DEF TableInv, CallInv
    <3>1. CreatorOK(u)'
      BY <1>1, <1>3, <1>4, <3>0 DEF CreatorOK, Filing
    <3>2. UseOK(u)'
      BY <1>1, <1>3, <1>4, <3>0 DEF UseOK, Means, Names
    <3>3. CloseOK(u)'
      <4>1. Closes(u) => \A j \in Entries : entry[j].handle = thread[u].handle => entry'[j] = entry[j]
        BY <1>3 DEF Closes
      <4> QED
        BY <1>1, <3>0, <4>1, CloseKept DEF TypeOK
    <3>4. WipeOK(u)'
      BY <1>3, <3>0 DEF WipeOK
    <3> QED
      BY <3>1, <3>2, <3>3, <3>4
  <2> QED
    BY <2>1, <2>2 DEF CallInv
<1>9. DistinctInv'
  <2>1. ~Closes(t)' /\ thread'[t].pc \notin Filing /\ thread'[t].pc \notin Named
    BY <1>1 DEF Idle, Closing, Closes, Filing, Named
  <2>2. \A u \in Threads \ {t} : Closes(u)' <=> Closes(u)
    BY <1>1 DEF Closes
  <2> QED
    BY <1>1, <1>c, <2>1, <2>2 DEF DistinctInv
<1> QED
  BY <1>6, <1>7, <1>8, <1>9 DEF TableInv

LEMMA TableStep ==
  ASSUME OneCreator, TypeOK, TableInv, [Next]_vars, ~clash' PROVE TableInv'
<1>1. CASE UNCHANGED vars
  BY <1>1 DEF vars, TableInv, CountInv, EntryInv, HeldInv, CallInv, CreatorOK, UseOK, CloseOK,
              WipeOK, DistinctInv, Closes, Holds, Names, Means
<1>2. ASSUME NEW t \in Threads, Dispatch(t) \/ Continue(t) PROVE TableInv'
  BY <1>2, LocalCreateSteps, LocalUseSteps, OpenObjectKeeps, NameEntryKeeps, StorePointerKeeps,
     NtCloseKeeps, CloseWin32Keeps, WipeHandleKeeps, WipePointerKeeps DEF Dispatch, Continue
<1> QED
  BY <1>1, <1>2 DEF Next

-----------------------------------------------------------------------------
(***************************************************************************)
(* No object is forgotten.                                                 *)
(***************************************************************************)
\* A step that leaves the entries and the objects, begins no clearing and ends no
\* creation.
LEMMA ObjectsUntouched ==
  ASSUME ObjectInv, UNCHANGED <<entry, object, lost>>,
         \A u \in Threads :
           /\ thread'[u].pc \in {"clear", "wipe"} =>
                thread[u].pc \in {"clear", "wipe"} /\ thread'[u].handle = thread[u].handle
           /\ thread[u].pc = "wipe2" => thread'[u].pc = "wipe2" /\ thread'[u].i = thread[u].i
           /\ thread[u].pc \in Filing =>
                thread'[u].pc \in Filing /\ thread'[u].value = thread[u].value
           /\ thread'[u].pc = "store" => thread[u].pc = "store" /\ thread'[u].i = thread[u].i
  PROVE  ObjectInv'
<1>1. ASSUME NEW v \in Values, Kept(v) PROVE Kept(v)'
  BY <1>1 DEF Kept
<1> QED
  BY <1>1 DEF ObjectInv

\* The steps of t that change no more than its own call.
LEMMA ObjectsOfLocalSteps ==
  ASSUME TypeOK, ObjectInv, NEW t \in Threads,
         \/ NtCreate(t) \/ TakeHandle(t) \/ NtUse(t) \/ LookUp(t) \/ Act(t)
         \/ NtClose(t) \/ CheckHandle(t) \/ GetPointer(t) \/ FindToClear(t)
  PROVE  ObjectInv'
<1> USE DEF At, GoTo, Return
<1>0. thread[t] \in ThreadState
  BY DEF TypeOK
<1>1. UNCHANGED <<entry, object, lost>> /\ \A u \in Threads \ {t} : thread'[u] = thread[u]
  BY DEF NtCreate, TakeHandle, NtUse, LookUp, Act, NtClose, CheckHandle, GetPointer, FindToClear,
         Take, TypeOK
<1>2. CASE NtCreate(t) \/ NtUse(t) \/ NtClose(t)
  <2>1. thread[t].pc = "idle"
    BY <1>2 DEF NtCreate, NtUse, NtClose
  <2>2. thread'[t].pc \in {"open", "lookup", "check"}
    BY <1>2, ZenonT(40) DEF NtCreate, NtUse, NtClose, Take, Idle, TypeOK
  <2> QED
    BY <1>1, <2>1, <2>2, ObjectsUntouched DEF Filing
<1>3. CASE TakeHandle(t)
  <2>1. thread'[t].pc = "name" /\ thread'[t].value = thread[t].value
    BY <1>0, <1>3 DEF TakeHandle, TypeOK, ThreadState
  <2> QED
    BY <1>1, <1>3, <2>1, ObjectsUntouched DEF TakeHandle, Filing
<1>4. CASE LookUp(t) \/ Act(t) \/ CheckHandle(t) \/ GetPointer(t)
  <2>1. thread[t].pc \in {"lookup", "act", "check", "get"}
    BY <1>4 DEF LookUp, Act, CheckHandle, GetPointer
  <2>2. thread'[t].pc \in {"idle", "open", "act", "get", "close"}
    <3>1. CASE LookUp(t)
      BY <1>0, <3>1 DEF LookUp, Idle, TypeOK, ThreadState
    <3>2. CASE Act(t)
      BY <3>2 DEF Act, Idle, TypeOK
    <3>3. CASE CheckHandle(t)
      BY <1>0, <3>3 DEF CheckHandle, Idle, TypeOK, ThreadState
    <3>4. CASE GetPointer(t)
      BY <1>0, <3>4 DEF GetPointer, TypeOK, ThreadState
    <3> QED
      BY <1>4, <3>1, <3>2, <3>3, <3>4
  <2> QED
    BY <1>1, <2>1, <2>2, ObjectsUntouched DEF Filing
<1>5. CASE FindToClear(t)
  <2>1. thread[t].pc = "clear"
    BY <1>5 DEF FindToClear
  <2>2. \/ thread'[t].pc = "wipe" /\ thread'[t].handle = thread[t].handle
        \/ thread'[t].pc = "idle"
    BY <1>0, <1>5 DEF FindToClear, Idle, TypeOK, ThreadState
  <2> QED
    BY <1>1, <2>1, <2>2, ObjectsUntouched DEF Filing
<1> QED
  BY <1>2, <1>3, <1>4, <1>5

LEMMA ObjectsOfCreation ==
  ASSUME OneCreator, TypeOK, TableInv, ObjectInv, NEW t \in Threads,
         OpenObject(t) \/ FindEntry(t) \/ NameEntry(t) \/ StorePointer(t), ~clash'
  PROVE  ObjectInv'
<1> USE DEF At, GoTo, Return
<1>0. thread[t] \in ThreadState /\ CreatorOK(t) /\ DistinctInv
  BY DEF TypeOK, TableInv, CallInv
<1>1. \A u \in Threads \ {t} : thread'[u] = thread[u]
  BY DEF OpenObject, FindEntry, NameEntry, StorePointer, TypeOK
<1>2. \A u \in Threads \ {t} : thread[u].pc # "store"
  BY <1>0, TableCreates, OthersCreateNothing
  DEF OpenObject, FindEntry, NameEntry, StorePointer, CreatorOK, Opening
<1>3. CASE OpenObject(t)
  <2>1. CASE thread' = [thread EXCEPT ![t] = Idle] /\ UNCHANGED <<object, opened>>
    <3>1. thread'[t].pc = "idle"
      BY <2>1 DEF Idle, TypeOK
    <3> QED
      BY <1>1, <1>3, <2>1, <3>1, ObjectsUntouched DEF OpenObject, Filing
  <2>2. ASSUME NEW v \in Values, object' = [object EXCEPT ![v] = opened'],
               thread' = [thread EXCEPT ![t] =
                 [Idle EXCEPT !.pc = "find", !.call = "create", !.of = opened',
                              !.value = v, !.i = 1]]
        PROVE  ObjectInv'
    <3>1. thread'[t].pc = "find" /\ thread'[t].value = v
      BY <2>2 DEF Idle, TypeOK
    <3>2. UNCHANGED <<entry, lost>>
      BY <1>3 DEF OpenObject
    <3>3. ASSUME NEW w \in Values, object'[w] # 0 PROVE Kept(w)'
      <4>1. CASE w = v
        BY <3>1, <4>1 DEF Kept, Filing
      <4>2. CASE w # v
        <5>1. object'[w] = object[w] /\ Kept(w)
          BY <2>2, <3>3, <4>2 DEF ObjectInv, TypeOK
        <5>2. thread[t].pc \notin Filing
          BY <1>3 DEF OpenObject, Filing
        <5> QED
          BY <1>1, <3>1, <3>2, <5>1, <5>2 DEF Kept
      <4> QED
        BY <4>1, <4>2
    <3>4. \A u \in Threads : thread[u].pc = "wipe2" => thread'[u] = thread[u]
      BY <1>1, <1>3 DEF OpenObject
    <3> QED
      BY <1>1, <3>1, <3>2, <3>3, <3>4 DEF ObjectInv
  <2> QED
    BY <1>3, <2>1, <2>2 DEF OpenObject
<1>4. CASE FindEntry(t)
  <2>0. UNCHANGED <<entry, object>> /\ thread[t].pc = "find"
    BY <1>4 DEF FindEntry
  <2>1. CASE thread'[t].pc \in {"find", "count"} /\ thread'[t].value = thread[t].value /\ UNCHANGED lost
    BY <1>1, <2>0, <2>1, ObjectsUntouched DEF Filing
  <2>2. ASSUME NEW full, lost' = lost \cup {[object |-> thread[t].of, full |-> full]},
               thread' = [thread EXCEPT ![t] = Idle]
        PROVE  ObjectInv'
    <3>1. thread'[t].pc = "idle"
      BY <2>2 DEF Idle, TypeOK
    <3>2. object[thread[t].value] = thread[t].of
      BY <1>0, <2>0 DEF CreatorOK, Filing
    <3>3. \E l \in lost' : l.object = thread[t].of
      <4>1. [object |-> thread[t].of, full |-> full].object = thread[t].of
        OBVIOUS
      <4> QED
        BY <2>2, <4>1
    <3>4. ASSUME NEW v \in Values, Kept(v) PROVE Kept(v)'
      BY <1>1, <2>0, <2>2, <3>1, <3>2, <3>3, <3>4 DEF Kept
    <3> QED
      BY <1>1, <2>0, <3>1, <3>4 DEF ObjectInv
  <2>3. \/ thread'[t].pc \in {"find", "count"} /\ thread'[t].value = thread[t].value /\ UNCHANGED lost
        \/ \E full : /\ lost' = lost \cup {[object |-> thread[t].of, full |-> full]}
                     /\ thread' = [thread EXCEPT ![t] = Idle]
    <3>1. CASE thread' = [thread EXCEPT ![t].pc = "count"] /\ UNCHANGED lost
      BY <1>0, <3>1 DEF TypeOK, ThreadState
    <3>2. ASSUME NEW full, thread' = [thread EXCEPT ![t].i = thread[t].i + 1, ![t].full = full],
                 UNCHANGED lost
          PROVE  thread'[t].pc = "find" /\ thread'[t].value = thread[t].value
      BY <1>0, <2>0, <3>2 DEF TypeOK, ThreadState
    <3> QED
      BY <1>4, <3>1, <3>2 DEF FindEntry
  <2> QED
    BY <2>1, <2>2, <2>3
<1>5. CASE NameEntry(t)
  <2>1. /\ thread'[t].pc = "store" /\ thread'[t].value = thread[t].value
        /\ thread'[t].handle = thread[t].handle /\ thread'[t].i = thread[t].i
    BY <1>0, <1>5 DEF NameEntry, TypeOK, ThreadState
  <2>2. UNCHANGED <<object, lost>> /\ thread[t].i \in Entries /\ entry[thread[t].i].handle = 0
    BY <1>0, <1>5 DEF NameEntry, CreatorOK, Filing
  <2>3. /\ \A j \in Entries : j # thread[t].i => entry'[j] = entry[j]
        /\ entry'[thread[t].i].pointer = entry[thread[t].i].pointer
        /\ entry'[thread[t].i].handle # 0
    <3>1. thread[t].handle # 0
      BY <1>0, <1>5 DEF NameEntry, CreatorOK, TableInv, CountInv
    <3> QED
      BY <1>5, <2>2, <3>1 DEF NameEntry, TypeOK
  <2>4. ASSUME NEW v \in Values, Kept(v) PROVE Kept(v)'
    <3>1. \A j \in Entries : entry[j].handle # 0 => entry'[j] = entry[j]
      BY <2>2, <2>3
    <3> QED
      BY <1>1, <2>1, <2>2, <2>4, <3>1 DEF Kept, Filing
  <2>5. \A u \in Threads : thread[u].pc = "wipe2" => thread'[u] = thread[u]
    BY <1>1, <1>5 DEF NameEntry
  <2>6. entry[thread[t].i].pointer = 0
    BY <1>5, <2>2 DEF NameEntry, Wiping, ObjectInv
  <2> QED
    BY <1>1, <1>2, <2>1, <2>2, <2>3, <2>4, <2>5, <2>6 DEF ObjectInv
<1>6. CASE StorePointer(t)
  <2>1. thread'[t].pc = "idle" /\ UNCHANGED <<object, lost>>
    BY <1>6 DEF StorePointer, Idle, TypeOK
  <2>2. /\ thread[t].i \in Entries /\ entry[thread[t].i].handle = thread[t].handle
        /\ entry[thread[t].i].pointer = 0 /\ thread[t].handle # 0
    BY <1>0, <1>6 DEF StorePointer, CreatorOK, Filing, Names, ObjectInv
  <2>3. /\ \A j \in Entries : j # thread[t].i => entry'[j] = entry[j]
        /\ entry'[thread[t].i].pointer = thread[t].value
        /\ entry'[thread[t].i].handle = thread[t].handle
    BY <1>6, <2>2 DEF StorePointer, TypeOK
  <2>4. \A u \in Threads : thread'[u].pc \in {"clear", "wipe"} =>
          thread[u].pc \in {"clear", "wipe"} /\ thread'[u].handle = thread[u].handle
                               /\ thread[u].handle # thread[t].handle
    BY <1>0, <1>1, <1>6, <2>1, <2>2 DEF StorePointer, DistinctInv, Closes, Closing, Named
  <2>5. ASSUME NEW v \in Values, Kept(v) PROVE Kept(v)'
    <3>0. v # 0
      BY HandleTableAssumption DEF HandleTableAssumption
    <3>1. CASE \E j \in Entries : /\ entry[j].handle # 0 /\ entry[j].pointer = v
                                  /\ \A u \in Threads : thread[u].pc \in {"clear", "wipe"} =>
                                       thread[u].handle # entry[j].handle
      BY <2>2, <2>3, <2>4, <3>0, <3>1 DEF Kept
    <3>2. CASE \E u \in Threads : thread[u].pc \in Filing /\ thread[u].value = v
      <4>1. CASE thread[t].value = v
        BY <2>2, <2>3, <2>4, <4>1 DEF Kept
      <4>2. CASE thread[t].value # v
        BY <1>1, <3>2, <4>2 DEF Kept
      <4> QED
        BY <4>1, <4>2
    <3>3. CASE \E l \in lost : l.object = object[v]
      BY <2>1, <3>3 DEF Kept
    <3> QED
      BY <2>5, <3>1, <3>2, <3>3 DEF Kept
  <2> QED
    BY <1>1, <1>2, <2>1, <2>2, <2>3, <2>5 DEF ObjectInv
<1> QED
  BY <1>3, <1>4, <1>5, <1>6

LEMMA ObjectsOfClose ==
  ASSUME TypeOK, TableInv, ObjectInv, NEW t \in Threads,
         CloseWin32(t) \/ WipeHandle(t) \/ WipePointer(t)
  PROVE  ObjectInv'
<1> USE DEF At, GoTo, Return
<1>0. thread[t] \in ThreadState /\ CloseOK(t) /\ WipeOK(t) /\ DistinctInv /\ EntryInv
  BY DEF TypeOK, TableInv, CallInv
<1>1. (\A u \in Threads \ {t} : thread'[u] = thread[u]) /\ UNCHANGED lost
  BY DEF CloseWin32, WipeHandle, WipePointer, TypeOK
<1>2. CASE CloseWin32(t)
  <2>1. /\ thread'[t].pc = "clear" /\ thread'[t].handle = thread[t].handle
        /\ UNCHANGED entry /\ thread[t].pc = "close"
    BY <1>0, <1>2 DEF CloseWin32, TypeOK, ThreadState
  <2>2. thread[t].handle # 0 =>
          \E i \in Entries : entry[i].handle = thread[t].handle /\ entry[i].pointer = thread[t].value
    BY <1>0, <2>1 DEF CloseOK, Closes, Closing, Names
  <2>3. ASSUME NEW v \in Values, object'[v] # 0 PROVE Kept(v)'
    <3>1. v # thread[t].value /\ object'[v] = object[v] /\ Kept(v)
      BY <1>2, <2>3 DEF CloseWin32, ObjectInv
    <3>2. \A j \in Entries : entry[j].pointer = v /\ entry[j].handle # 0 =>
            entry[j].handle # thread[t].handle
      BY <1>0, <2>2, <3>1 DEF EntryInv
    <3>3. thread[t].pc \notin Filing
      BY <2>1 DEF Filing
    <3> QED
      BY <1>1, <2>1, <3>1, <3>2, <3>3 DEF Kept
  <2> QED
    BY <1>1, <2>1, <2>3 DEF ObjectInv
<1>3. CASE WipeHandle(t)
  <2> DEFINE i == thread[t].i
  <2>1. /\ thread'[t].pc = "wipe2" /\ thread'[t].i = i /\ UNCHANGED object
        /\ thread[t].pc = "wipe"
    BY <1>0, <1>3 DEF WipeHandle, TypeOK, ThreadState
  <2>2. i \in Entries /\ entry[i].handle = thread[t].handle
    BY <1>0, <2>1 DEF CloseOK, WipeOK, Closes, Closing, Names
  <2>3. /\ entry'[i].handle = 0 /\ entry'[i].pointer = entry[i].pointer
        /\ \A j \in Entries \ {i} : entry'[j] = entry[j]
    BY <1>3, <2>2 DEF WipeHandle, TypeOK
  <2> HIDE DEF i
  <2>4. ASSUME NEW v \in Values, Kept(v) PROVE Kept(v)'
    <3>1. thread[t].pc \notin Filing
      BY <2>1 DEF Filing
    <3> QED
      BY <1>1, <2>1, <2>2, <2>3, <2>4, <3>1 DEF Kept
  <2>5. \A j \in Entries : entry'[j].handle = 0 =>
          \/ entry'[j].pointer = 0
          \/ \E u \in Threads : thread'[u].pc = "wipe2" /\ thread'[u].i = j
    BY <1>1, <2>1, <2>3 DEF ObjectInv
  <2>6. \A u \in Threads : thread'[u].pc = "store" => entry'[thread'[u].i].pointer = 0
    <3>1. SUFFICES ASSUME NEW u \in Threads, thread'[u].pc = "store"
                   PROVE  entry'[thread'[u].i].pointer = 0
      OBVIOUS
    <3>2. u # t /\ thread'[u] = thread[u]
      BY <1>1, <2>1, <3>1
    <3>3. thread[u].i \in Entries
      BY <3>1, <3>2 DEF TableInv, CallInv, CreatorOK, Filing
    <3> QED
      BY <2>3, <3>1, <3>2, <3>3 DEF ObjectInv
  <2> QED
    BY <2>1, <2>4, <2>5, <2>6 DEF ObjectInv
<1>4. CASE WipePointer(t)
  <2> DEFINE i == thread[t].i
  <2>1. thread'[t].pc = "idle" /\ UNCHANGED object /\ thread[t].pc = "wipe2"
    BY <1>4 DEF WipePointer, Idle, TypeOK
  <2>2. i \in Entries /\ entry[i].handle = 0
    BY <1>0, <2>1 DEF WipeOK
  <2>3. /\ entry'[i].handle = 0 /\ entry'[i].pointer = 0
        /\ \A j \in Entries \ {i} : entry'[j] = entry[j]
    BY <1>4, <2>2 DEF WipePointer, TypeOK
  <2>4. ASSUME NEW v \in Values, Kept(v) PROVE Kept(v)'
    <3>1. thread[t].pc \notin Filing
      BY <2>1 DEF Filing
    <3>2. \A j \in Entries : entry[j].handle # 0 => entry'[j] = entry[j]
      BY <2>2, <2>3
    <3> QED
      BY <1>1, <2>1, <2>4, <3>1, <3>2 DEF Kept
  <2>5. \A j \in Entries : entry'[j].handle = 0 =>
          \/ entry'[j].pointer = 0
          \/ \E u \in Threads : thread'[u].pc = "wipe2" /\ thread'[u].i = j
    <3> SUFFICES ASSUME NEW j \in Entries, j # i, entry[j].handle = 0, entry[j].pointer # 0
                 PROVE  \E u \in Threads : thread'[u].pc = "wipe2" /\ thread'[u].i = j
      BY <2>3
    <3>1. PICK u \in Threads : thread[u].pc = "wipe2" /\ thread[u].i = j
      BY DEF ObjectInv
    <3> QED
      BY <1>1, <3>1
  <2>6. \A u \in Threads : thread'[u].pc = "store" => entry'[thread'[u].i].pointer = 0
    <3>1. SUFFICES ASSUME NEW u \in Threads, thread'[u].pc = "store"
                   PROVE  entry'[thread'[u].i].pointer = 0
      OBVIOUS
    <3>2. u # t /\ thread'[u] = thread[u]
      BY <1>1, <2>1, <3>1
    <3>3. thread[u].i \in Entries
      BY <3>1, <3>2 DEF TableInv, CallInv, CreatorOK, Filing
    <3> QED
      BY <2>3, <3>1, <3>2, <3>3 DEF ObjectInv
  <2> QED
    BY <2>1, <2>4, <2>5, <2>6 DEF ObjectInv
<1> QED
  BY <1>2, <1>3, <1>4

LEMMA ObjectStep ==
  ASSUME OneCreator, TypeOK, TableInv, ObjectInv, [Next]_vars, ~clash' PROVE ObjectInv'
<1>1. CASE UNCHANGED vars
  BY <1>1, ObjectsUntouched DEF vars
<1>2. ASSUME NEW t \in Threads, Dispatch(t) \/ Continue(t) PROVE ObjectInv'
  BY <1>2, ObjectsOfLocalSteps, ObjectsOfCreation, ObjectsOfClose DEF Dispatch, Continue
<1> QED
  BY <1>1, <1>2 DEF Next

-----------------------------------------------------------------------------
(***************************************************************************)
(* A search misses no entry that is free when it begins.                   *)
(***************************************************************************)
LEMMA SearchOn ==
  ASSUME TypeOK, CreateInv, SearchInv, NEW t \in Threads, FindEntry(t)
  PROVE  SearchInv' /\ (LostOnlyWhenFull => LostOnlyWhenFull')
<1> USE DEF At, GoTo, Return
<1> DEFINE i == thread[t].i
           full == IF i = 1 THEN \A j \in Entries : entry[j].handle # 0 ELSE thread[t].full
<1>0. thread[t] \in ThreadState /\ thread[t].pc = "find"
  BY DEF TypeOK, FindEntry
<1>1. \A u \in Threads \ {t} : thread'[u] = thread[u]
  BY DEF FindEntry, TypeOK
<1>2. UNCHANGED entry
  BY DEF FindEntry
<1>3. NEntries \in Nat \ {0} /\ Entries = 1..NEntries /\ i \in Entries
  BY <1>0, HandleTableAssumption
  DEF HandleTableAssumption, Entries, CreateInv, CreatorCtl, Filing
<1>4. CASE thread' = [thread EXCEPT ![t].pc = "count"] /\ UNCHANGED lost
  <2>1. thread'[t].pc # "find"
    BY <1>0, <1>4 DEF TypeOK, ThreadState
  <2> QED
    BY <1>1, <1>2, <1>4, <2>1 DEF SearchInv, LostOnlyWhenFull
<1>5. CASE /\ entry[i].handle # 0 /\ UNCHANGED lost
           /\ thread' = [thread EXCEPT ![t].i = i + 1, ![t].full = full]
  <2>1. thread'[t].i = i + 1 /\ thread'[t].full = full
    BY <1>0, <1>5 DEF TypeOK, ThreadState
  <2>2. full \/ \E j \in Entries : j >= i + 1 /\ entry[j].handle = 0
    <3>1. CASE i = 1
      BY <1>3, <1>5, <3>1
    <3>2. CASE i > 1
      BY <1>0, <1>3, <1>5, <3>2 DEF SearchInv
    <3> QED
      BY <1>3, <3>1, <3>2
  <2> QED
    BY <1>1, <1>2, <1>5, <2>1, <2>2, ZenonT(40) DEF SearchInv, LostOnlyWhenFull
<1>6. CASE /\ entry[i].handle # 0 /\ i = NEntries
           /\ lost' = lost \cup {[object |-> thread[t].of, full |-> full]}
           /\ thread' = [thread EXCEPT ![t] = Idle]
  <2>1. full
    <3>1. CASE i = 1
      BY <1>3, <1>6, <3>1
    <3>2. CASE i > 1
      BY <1>0, <1>3, <1>6, <3>2 DEF SearchInv
    <3> QED
      BY <1>3, <1>6, <3>1, <3>2
  <2>2. thread'[t].pc # "find"
    BY <1>6 DEF Idle, TypeOK
  <2> HIDE DEF full
  <2>3. [object |-> thread[t].of, full |-> full].full
    BY <2>1
  <2>4. LostOnlyWhenFull => LostOnlyWhenFull'
    BY <1>6, <2>3 DEF LostOnlyWhenFull
  <2>5. SearchInv'
    BY <1>1, <1>2, <2>2 DEF SearchInv
  <2> QED
    BY <2>4, <2>5
<1> QED
  BY <1>4, <1>5, <1>6 DEF FindEntry

LEMMA SearchStep ==
  ASSUME OneCreator, TypeOK, CreateInv, SearchInv, LostOnlyWhenFull, [Next]_vars
  PROVE  SearchInv' /\ LostOnlyWhenFull'
<1> USE DEF At, GoTo, Return
<1>1. CASE UNCHANGED vars
  BY <1>1 DEF vars, SearchInv, LostOnlyWhenFull
<1>2. ASSUME NEW t \in Threads, FindEntry(t) PROVE SearchInv' /\ LostOnlyWhenFull'
  BY <1>2, SearchOn
<1>3. ASSUME NEW t \in Threads, Dispatch(t) \/ Continue(t), ~FindEntry(t)
      PROVE  SearchInv' /\ LostOnlyWhenFull'
  <2>0. thread[t] \in ThreadState /\ UNCHANGED lost
    BY <1>3 DEF Dispatch, Continue, NtCreate, NtUse, NtClose, OpenObject, TakeHandle, NameEntry,
                StorePointer, LookUp, Act, CheckHandle, GetPointer, CloseWin32, FindToClear,
                WipeHandle, WipePointer, TypeOK
  <2>1. \A u \in Threads \ {t} : thread'[u] = thread[u]
    BY <1>3 DEF Dispatch, Continue, NtCreate, NtUse, NtClose, OpenObject, TakeHandle, NameEntry,
                StorePointer, LookUp, Act, CheckHandle, GetPointer, CloseWin32, FindToClear,
                WipeHandle, WipePointer, Take, TypeOK
  <2>2. thread'[t].pc # "find" \/ thread'[t].i = 1
    <3>1. CASE NtCreate(t) \/ NtUse(t) \/ NtClose(t)
      BY <3>1, ZenonT(40) DEF NtCreate, NtUse, NtClose, Take, Idle, TypeOK
    <3>2. CASE OpenObject(t)
      <4>1. CASE thread' = [thread EXCEPT ![t] = Idle]
        BY <4>1 DEF Idle, TypeOK
      <4>2. ASSUME NEW v, thread' = [thread EXCEPT ![t] =
                     [Idle EXCEPT !.pc = "find", !.call = "create", !.of = opened',
                                  !.value = v, !.i = 1]]
            PROVE  thread'[t].i = 1
        BY <4>2 DEF Idle, TypeOK
      <4> QED
        BY <3>2, <4>1, <4>2 DEF OpenObject
    <3>3. CASE StorePointer(t) \/ Act(t) \/ WipePointer(t)
      BY <3>3 DEF StorePointer, Act, WipePointer, Idle, TypeOK
    <3>4. CASE TakeHandle(t) \/ NameEntry(t) \/ GetPointer(t) \/ CloseWin32(t) \/ WipeHandle(t)
      BY <2>0, <3>4 DEF TakeHandle, NameEntry, GetPointer, CloseWin32, WipeHandle, TypeOK, ThreadState
    <3>5. CASE LookUp(t) \/ CheckHandle(t) \/ FindToClear(t)
      BY <2>0, <3>5 DEF LookUp, CheckHandle, FindToClear, Idle, TypeOK, ThreadState
    <3> QED
      BY <1>3, <3>1, <3>2, <3>3, <3>4, <3>5 DEF Dispatch, Continue
  <2>3. ASSUME NEW u \in Threads \ {t}, thread[u].pc = "find", NEW j \in Entries, entry[j].handle = 0
        PROVE  entry'[j].handle = 0
    <3>1. ~NameEntry(t) /\ ~StorePointer(t)
      <4>1. thread[u].pc \in Opening
        BY <2>3 DEF Opening
      <4>2. t \notin Creators
        BY <4>1, OthersCreateNothing
      <4> QED
        BY <4>2 DEF CreateInv, CreatorCtl, Opening, NameEntry, StorePointer
    <3>2. CASE WipeHandle(t) \/ WipePointer(t)
      BY <2>3, <3>2 DEF WipeHandle, WipePointer, TypeOK
    <3>3. CASE ~WipeHandle(t) /\ ~WipePointer(t)
      <4>1. UNCHANGED entry
        BY <1>3, <3>1, <3>3 DEF Dispatch, Continue, NtCreate, NtUse, NtClose, OpenObject, TakeHandle,
                  LookUp, Act, CheckHandle, GetPointer, CloseWin32, FindToClear
      <4> QED
        BY <2>3, <4>1
    <3> QED
      BY <3>2, <3>3
  <2> QED
    BY <2>0, <2>1, <2>2, <2>3 DEF SearchInv, LostOnlyWhenFull
<1> QED
  BY <1>1, <1>2, <1>3 DEF Next

-----------------------------------------------------------------------------
(***************************************************************************)
(* The theorems.                                                           *)
(***************************************************************************)
LEMMA InitAll == Init => AllInv
<1> SUFFICES ASSUME Init PROVE AllInv
  OBVIOUS
<1>1. /\ \A i \in Entries : entry[i].handle = 0 /\ entry[i].pointer = 0
      /\ \A t \in Threads : thread[t].pc = "idle" /\ thread[t].call = "none"
  BY DEF Init, NoEntry, Idle
<1>2. CountInv
  BY <1>1, HandleTableAssumption DEF HandleTableAssumption, Init, CountInv
<1>3. EntryInv /\ HeldInv /\ DistinctInv
  BY <1>1, <1>2 DEF Init, CountInv, EntryInv, HeldInv, DistinctInv, Closing, Closes
<1>4. CallInv
  BY <1>1 DEF CallInv, CreatorOK, UseOK, CloseOK, WipeOK, Opening, Filing, Using, Closing, Closes
<1>5. ObjectInv /\ SearchInv /\ LostOnlyWhenFull
  BY <1>1 DEF Init, ObjectInv, SearchInv, LostOnlyWhenFull
<1> QED
  BY <1>2, <1>3, <1>4, <1>5, InitType, TableCreates DEF AllInv, TableInv

\* The counter and the creator are in order whatever the closes do to the table.
LEMMA CreateStep == ASSUME OneCreator, TypeOK, CreateInv, [Next]_vars PROVE CreateInv'
<1> USE DEF At, GoTo, Return
<1>1. CASE UNCHANGED vars
  BY <1>1 DEF vars, CreateInv, CountInv, CreatorCtl
<1>2. ASSUME NEW t \in Threads, OpenObject(t) PROVE CreateInv'
  <2>0. thread[t] \in ThreadState /\ t \in Creators
    BY <1>2 DEF TypeOK, OpenObject, CreateInv, CreatorCtl, Opening
  <2>1. \A u \in Threads \ {t} : thread'[u] = thread[u] /\ thread[u].pc \notin Opening
    BY <1>2, <2>0, OthersCreateNothing DEF OpenObject, TypeOK
  <2>2. UNCHANGED nextHandle /\ opened \in Nat
    BY <1>2 DEF OpenObject, TypeOK
  <2>3. CASE thread' = [thread EXCEPT ![t] = Idle] /\ UNCHANGED opened
    <3>1. thread'[t] = Idle
      BY <2>3 DEF TypeOK
    <3> QED
      BY <2>1, <2>2, <2>3, <3>1 DEF CreateInv, CountInv, CreatorCtl, Idle, Opening, Filing
  <2>4. ASSUME NEW v, opened < MaxObjects, opened' = opened + 1,
               thread' = [thread EXCEPT ![t] = [Idle EXCEPT !.pc = "find", !.call = "create",
                                                  !.of = opened', !.value = v, !.i = 1]]
        PROVE  CreateInv'
    <3>1. /\ thread'[t].pc = "find" /\ thread'[t].call = "create" /\ thread'[t].i = 1
      BY <2>4 DEF TypeOK, Idle
    <3>2. 1 \in Entries /\ MaxObjects \in Nat /\ FirstHandle \in Nat
      BY HandleTableAssumption DEF HandleTableAssumption, Entries
    <3>3. CountInv'
      BY <2>1, <2>2, <2>4, <3>1, <3>2 DEF CreateInv, CountInv
    <3> QED
      BY <2>0, <2>1, <2>2, <3>1, <3>2, <3>3 DEF CreateInv, CreatorCtl, Opening, Filing
  <2> QED
    BY <1>2, <2>3, <2>4 DEF OpenObject
<1>3. ASSUME NEW t \in Threads, NameEntry(t) PROVE CreateInv'
  <2>0. thread[t] \in ThreadState /\ t \in Creators /\ thread[t].handle = nextHandle
    BY <1>3 DEF TypeOK, NameEntry, CreateInv, CreatorCtl, Opening
  <2>1. \A u \in Threads \ {t} : thread'[u] = thread[u] /\ thread[u].pc \notin Opening
    BY <1>3, <2>0, OthersCreateNothing DEF NameEntry, TypeOK
  <2>2. nextHandle' = nextHandle + 1 /\ UNCHANGED opened /\ nextHandle \in Nat
    <3>1. nextHandle \in Nat /\ nextHandle + 1 < HandleLimit /\ HandleLimit \in Nat
      BY <1>3, HandleTableAssumption DEF HandleTableAssumption, NameEntry, CreateInv, CountInv
    <3>2. (nextHandle + 1) % HandleLimit = nextHandle + 1
      BY <3>1
    <3> QED
      BY <1>3, <2>0, <3>1, <3>2 DEF NameEntry
  <2>3. /\ thread'[t].pc = "store" /\ thread'[t].call = thread[t].call
        /\ thread'[t].i = thread[t].i /\ thread[t].pc = "name"
    BY <1>3, <2>0 DEF NameEntry, TypeOK, ThreadState
  <2>4. CountInv'
    BY <2>1, <2>2, <2>3 DEF CreateInv, CountInv, Opening
  <2> QED
    BY <2>0, <2>1, <2>2, <2>3, <2>4 DEF CreateInv, CreatorCtl, Opening, Filing
<1>4. ASSUME NEW t \in Threads, UNCHANGED <<nextHandle, opened>>,
             \A u \in Threads \ {t} : thread'[u] = thread[u],
             thread'[t].pc \in {"find", "count", "name"} =>
               thread[t].pc \in {"find", "count", "name"},
             CreatorCtl(t)'
      PROVE  CreateInv'
  BY <1>4 DEF CreateInv, CountInv, CreatorCtl
<1>5. ASSUME NEW t \in Threads, Dispatch(t) \/ Continue(t), ~OpenObject(t), ~NameEntry(t)
      PROVE  CreateInv'
  <2>0. thread[t] \in ThreadState /\ CreatorCtl(t)
    BY DEF TypeOK, CreateInv
  <2>1. UNCHANGED <<nextHandle, opened>> /\ \A u \in Threads \ {t} : thread'[u] = thread[u]
    BY <1>5 DEF Dispatch, Continue, NtCreate, NtUse, NtClose, FindEntry, TakeHandle,
                StorePointer, LookUp, Act, CheckHandle, GetPointer, CloseWin32, FindToClear,
                WipeHandle, WipePointer, Take, TypeOK
  <2>2. CASE NtCreate(t)
    <3>1. thread'[t].pc = "open" /\ thread'[t].call = "create" /\ t \in Creators
      BY <2>2 DEF NtCreate, Idle, TypeOK
    <3> QED
      BY <1>4, <2>1, <3>1 DEF CreatorCtl, Filing
  <2>3. CASE NtUse(t) \/ NtClose(t)
    <3>1. /\ thread'[t].pc \in {"lookup", "check"}
          /\ thread'[t].call = "thread" => t \in Creators
      <4>1. CASE NtUse(t)
        <5>1. PICK r \in Told, call \in (IF t \in Creators THEN {"use", "thread"} ELSE {"use"}) :
                   Take(t, call, r, "lookup")
          BY <4>1 DEF NtUse
        <5>2. thread'[t].pc = "lookup" /\ thread'[t].call = call
          BY <5>1 DEF Take, Idle, TypeOK
        <5> QED
          BY <5>2
      <4>2. CASE NtClose(t)
        BY <4>2 DEF NtClose, Take, Idle, TypeOK
      <4> QED
        BY <2>3, <4>1, <4>2
    <3> QED
      BY <1>4, <2>1, <3>1 DEF CreatorCtl, Opening, Filing
  <2>4. CASE FindEntry(t)
    <3>1. CASE thread' = [thread EXCEPT ![t].pc = "count"]
      <4>1. thread'[t].pc = "count" /\ thread'[t].i = thread[t].i /\ thread'[t].call = thread[t].call
        BY <2>0, <3>1 DEF TypeOK, ThreadState
      <4> QED
        BY <1>4, <2>0, <2>1, <2>4, <4>1 DEF FindEntry, CreatorCtl, Opening, Filing
    <3>2. ASSUME NEW full, thread[t].i < NEntries,
                 thread' = [thread EXCEPT ![t].i = thread[t].i + 1, ![t].full = full]
          PROVE  CreateInv'
      <4>1. /\ thread'[t].pc = "find" /\ thread'[t].i = thread[t].i + 1
            /\ thread'[t].call = thread[t].call
        BY <2>0, <2>4, <3>2 DEF FindEntry, TypeOK, ThreadState
      <4>2. thread[t].i + 1 \in Entries
        BY <2>0, <3>2, HandleTableAssumption DEF HandleTableAssumption, Entries, ThreadState
      <4> QED
        BY <1>4, <2>0, <2>1, <2>4, <4>1, <4>2 DEF FindEntry, CreatorCtl, Opening, Filing
    <3>3. CASE thread' = [thread EXCEPT ![t] = Idle]
      <4>1. thread'[t] = Idle
        BY <3>3 DEF TypeOK
      <4> QED
        BY <1>4, <2>1, <4>1 DEF Idle, CreatorCtl, Opening, Filing
    <3> QED
      BY <2>4, <3>1, <3>2, <3>3 DEF FindEntry
  <2>5. CASE TakeHandle(t)
    <3>1. /\ thread'[t].pc = "name" /\ thread'[t].i = thread[t].i /\ thread[t].pc = "count"
          /\ thread'[t].call = thread[t].call /\ thread'[t].handle = nextHandle
      BY <2>0, <2>5 DEF TakeHandle, TypeOK, ThreadState
    <3> QED
      BY <1>4, <2>0, <2>1, <3>1 DEF CreatorCtl, Opening, Filing
  <2>6. CASE StorePointer(t) \/ Act(t) \/ WipePointer(t)
    <3>1. thread'[t] = Idle
      BY <2>6 DEF StorePointer, Act, WipePointer, TypeOK
    <3> QED
      BY <1>4, <2>1, <3>1 DEF Idle, CreatorCtl, Opening, Filing
  <2>7. CASE LookUp(t) \/ CheckHandle(t) \/ GetPointer(t) \/ CloseWin32(t)
             \/ FindToClear(t) \/ WipeHandle(t)
    <3>1. \/ thread'[t] = Idle
          \/ /\ thread'[t].pc \in {"open", "act", "get", "close", "clear", "wipe", "wipe2"}
             /\ thread'[t].pc = "open" => thread[t].call = "thread"
             /\ thread'[t].call = thread[t].call
      <4>1. CASE LookUp(t)
        BY <2>0, <4>1 DEF LookUp, TypeOK, ThreadState
      <4>2. CASE CheckHandle(t) \/ FindToClear(t)
        BY <2>0, <4>2 DEF CheckHandle, FindToClear, TypeOK, ThreadState
      <4>3. CASE GetPointer(t) \/ CloseWin32(t) \/ WipeHandle(t)
        BY <2>0, <4>3 DEF GetPointer, CloseWin32, WipeHandle, TypeOK, ThreadState
      <4> QED
        BY <2>7, <4>1, <4>2, <4>3
    <3> QED
      BY <1>4, <2>0, <2>1, <3>1 DEF Idle, CreatorCtl, Opening, Filing
  <2> QED
    BY <1>5, <2>2, <2>3, <2>4, <2>5, <2>6, <2>7 DEF Dispatch, Continue
<1> QED
  BY <1>1, <1>2, <1>3, <1>5 DEF Next

\* A clash is never forgotten.
LEMMA ClashStays == ASSUME TypeOK, [Next]_vars, ~clash' PROVE ~clash
<1>1. CASE UNCHANGED vars
  BY <1>1 DEF vars
<1>2. ASSUME NEW t \in Threads, Dispatch(t) \/ Continue(t) PROVE ~clash
  BY <1>2 DEF Dispatch, Continue, NtCreate, NtUse, NtClose, OpenObject, FindEntry, TakeHandle,
              NameEntry, StorePointer, LookUp, Act, CheckHandle, GetPointer, CloseWin32,
              FindToClear, WipeHandle, WipePointer
<1> QED
  BY <1>1, <1>2 DEF Next

LEMMA NextAll == OneCreator => (AllInv /\ [Next]_vars => AllInv')
<1> SUFFICES ASSUME OneCreator, AllInv, [Next]_vars PROVE AllInv'
  OBVIOUS
<1>1. TypeOK' /\ CreateInv' /\ SearchInv' /\ LostOnlyWhenFull'
  BY NextType, CreateStep, SearchStep DEF AllInv
<1>2. ~clash' => TableInv' /\ ObjectInv'
  BY ClashStays, TableStep, ObjectStep DEF AllInv
<1> QED
  BY <1>1, <1>2 DEF AllInv

LEMMA CallsActRight == AllInv => ActsOnItsObject
<1> SUFFICES ASSUME AllInv, ~clash, NEW t \in Threads, thread[t].pc \in {"act", "close"}
             PROVE  IF thread[t].handle = 0 THEN thread[t].value = 0
                    ELSE thread[t].value # 0 /\ object[thread[t].value] = thread[t].of
  BY DEF ActsOnItsObject
<1>0. 0 \notin Values /\ TableInv /\ EntryInv /\ UseOK(t) /\ CloseOK(t)
  BY HandleTableAssumption DEF HandleTableAssumption, AllInv, TableInv, CallInv
<1>1. CASE thread[t].pc = "act"
  <2>0. thread[t].handle # 0
    BY <1>0, <1>1 DEF UseOK, Using
  <2>1. PICK i \in Entries : Names(i, thread[t].handle) /\ entry[i].pointer = thread[t].value
    BY <1>0, <1>1 DEF UseOK, Using
  <2>2. Means(t) \in held /\ Means(t).handle = thread[t].handle /\ Means(t).of = thread[t].of
    BY <1>0, <1>1 DEF UseOK, Using, Means
  <2>3. \E j \in Entries : Holds(j, thread[t].handle, thread[t].of)
    BY <1>0, <2>2 DEF TableInv, HeldInv
  <2> QED
    BY <1>0, <2>0, <2>1, <2>3 DEF Holds, Names, EntryInv
<1>2. CASE thread[t].pc = "close"
  BY <1>0, <1>2 DEF CloseOK, Closes, Closing, Holds
<1> QED
  BY <1>1, <1>2

LEMMA HandlesValid == AllInv => HeldHandleValid
<1> SUFFICES ASSUME AllInv, ~clash, NEW r \in held
             PROVE  /\ GetHandlePointer(r.handle) # 0
                    /\ object[GetHandlePointer(r.handle)] = r.of
  BY DEF HeldHandleValid
<1>0. TableInv /\ 0 \notin Values
  BY HandleTableAssumption DEF HandleTableAssumption, AllInv
<1>1. PICK i \in Entries : Holds(i, r.handle, r.of)
  BY <1>0 DEF TableInv, HeldInv
<1>2. r.handle # 0
  BY <1>0 DEF TableInv, HeldInv
<1>3. GetHandlePointer(r.handle) = entry[i].pointer
  BY <1>0, <1>1, <1>2, LookedUp DEF TableInv, Holds
<1> QED
  BY <1>0, <1>1, <1>3 DEF Holds

LEMMA ObjectsKept == AllInv => NoObjectForgotten
  BY DEF AllInv, ObjectInv, Kept, NoObjectForgotten, Filing

\* With one creator, and until a creation takes an entry that a close is clearing or
\* handle 0 finds one, a call acts on the object its guest opened, though the handle
\* is looked up several times without a lock.
THEOREM ActsRight == ASSUME OneCreator PROVE Spec => []ActsOnItsObject
<1>1. AllInv /\ [Next]_vars => AllInv'
  BY NextAll
<1> QED
  BY <1>1, InitAll, CallsActRight, PTL DEF Spec

\* With one creator, and until two calls meet like that, a handle stays valid, and
\* keeps its object, until its guest closes it.
THEOREM HandlesStayValid == ASSUME OneCreator PROVE Spec => []HeldHandleValid
<1>1. AllInv /\ [Next]_vars => AllInv'
  BY NextAll
<1> QED
  BY <1>1, InitAll, HandlesValid, PTL DEF Spec

\* With one creator, and until two calls meet like that, the only objects without a
\* handle are those of the creations that were given handle 0.
THEOREM NothingForgotten == ASSUME OneCreator PROVE Spec => []NoObjectForgotten
<1>1. AllInv /\ [Next]_vars => AllInv'
  BY NextAll
<1> QED
  BY <1>1, InitAll, ObjectsKept, PTL DEF Spec

\* With one creator, whatever the calls do to each other, an object is lost only to a table that was full when its
\* search began, also when other threads close handles behind the search.
THEOREM LostToFullTable == ASSUME OneCreator PROVE Spec => []LostOnlyWhenFull
<1>1. AllInv /\ [Next]_vars => AllInv'
  BY NextAll
<1>2. AllInv => LostOnlyWhenFull
  BY DEF AllInv
<1> QED
  BY <1>1, <1>2, InitAll, PTL DEF Spec

\* With one creator, whatever the calls do to each other, no handle is given out twice.
THEOREM HandlesFresh == ASSUME OneCreator PROVE Spec => NeverReissued
<1>1. AllInv /\ [Next]_vars => AllInv'
  BY NextAll
<1>2. AllInv /\ [Next]_vars =>
        [\A i \in Entries : entry'[i].handle # entry[i].handle /\ entry'[i].handle # 0
           => entry'[i].handle >= nextHandle]_vars
  <2> SUFFICES ASSUME AllInv, Next, NEW i \in Entries,
                      entry'[i].handle # entry[i].handle, entry'[i].handle # 0
               PROVE  entry'[i].handle >= nextHandle
    OBVIOUS
  <2>1. PICK t \in Threads : Dispatch(t) \/ Continue(t)
    BY DEF Next
  <2>2. ~WipeHandle(t) /\ ~WipePointer(t)
    BY DEF WipeHandle, WipePointer, AllInv, TypeOK
  <2>3. ~StorePointer(t)
    BY DEF StorePointer, AllInv, TypeOK
  <2>4. NameEntry(t)
    BY <2>1, <2>2, <2>3
    DEF Dispatch, Continue, NtCreate, NtUse, NtClose, OpenObject, FindEntry, TakeHandle,
        LookUp, Act, CheckHandle, GetPointer, CloseWin32, FindToClear
  <2>5. thread[t].handle = nextHandle /\ nextHandle \in Nat
    BY <2>4 DEF NameEntry, At, AllInv, CreateInv, CreatorCtl, CountInv
  <2>6. entry'[i].handle = thread[t].handle
    BY <2>4 DEF NameEntry, AllInv, TypeOK
  <2> QED
    BY <2>5, <2>6
<1> QED
  BY <1>1, <1>2, InitAll, PTL DEF Spec, NeverReissued
=============================================================================
