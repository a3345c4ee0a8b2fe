------------------------- MODULE NativeCalls_proofs -------------------------
(***************************************************************************)
(* Theorems about the thread table, the native calls and the counters of   *)
(* the filter, for any number of callers, entries, handles and calls.      *)
(***************************************************************************)
EXTENDS NativeCalls, FiniteSetTheorems, WellFoundedInduction, TLAPS

CreateSteps == {"take", "id", "start"}
CloseSteps == {"close", "clear"}
FilterSteps == {"count", "refuse"}

\* Who is at one of these steps.
In(A) == {c \in Callers : caller[c].at \in A}

\* A caller inside a call about a thread has the entry it works on.
SlotKnown ==
    \A c \in Callers : caller[c].at \in CreateSteps \cup CloseSteps => caller[c].slot \in Slots

\* The ids given out, and those about to be, are no more than the creations.
IdsBound ==
    /\ g_NextThreadId + Cardinality(In({"take", "id"})) <= created + 1
    /\ \A c \in In({"id"}) :
          /\ caller[c].id >= 1
          /\ caller[c].id + Cardinality(In({"take", "id"})) <= created + 1

\* What is counted, and what is about to be, is no more than the calls.
CountsBound ==
    /\ SyscallCount + Cardinality(In(FilterSteps)) <= calls
    /\ RestrictedSyscallCount + Cardinality(In(FilterSteps)) <= calls
    /\ \A c \in In(FilterSteps) : caller[c].id + Cardinality(In(FilterSteps)) <= calls

TypeInv == TypeOK /\ SlotKnown /\ IdsBound /\ CountsBound

\* Without an overlap a call is alone in the filter, with the value of its counter.
FilterAlone ==
    "filter" \notin clash =>
        /\ \A c, d \in In(FilterSteps) : c = d
        /\ \A c \in Callers : At(c, "count") => caller[c].id = SyscallCount
        /\ \A c \in Callers : At(c, "refuse") => caller[c].id = RestrictedSyscallCount

FilterInv == FilterAlone /\ CountsAddUp

\* A caller in the middle of a call about an entry it has taken.
Works(c) == caller[c].at \in {"id", "start", "close", "clear"}

\* The entries in a caller's hands.
Holds(c, s) == s \in held[c] \/ (Works(c) /\ caller[c].slot = s)

\* Nothing is in the hands of two callers, or twice in those of one.
OwnersApart ==
    /\ \A c, d \in Callers : \A s \in Slots : Holds(c, s) /\ Holds(d, s) => c = d
    /\ \A c \in Callers : Works(c) => caller[c].slot \notin held[c]
    /\ \A c, d \in Callers : \A h \in Handles : h \in opened[c] /\ h \in opened[d] => c = d

OwnedSigned == \A c \in Callers : \A s \in Slots : Holds(c, s) => slot[s].signature

CreatorOK ==
    /\ \A c, d \in Callers : caller[c].at \in CreateSteps /\ caller[d].at \in CreateSteps => c = d
    /\ \A c \in Callers :
         /\ At(c, "take") => ~slot[caller[c].slot].signature
         /\ At(c, "id") => caller[c].id = g_NextThreadId /\ slot[caller[c].slot].id = 0
         /\ At(c, "id") \/ At(c, "start") => slot[caller[c].slot].handle = None

Thread(s) == slot[s].handle # None /\ object[slot[s].handle] = "thread"

HandlesOK ==
    /\ \A c \in Callers : \A s \in held[c] : Thread(s)
    /\ \A c \in Callers : At(c, "close") => Thread(caller[c].slot)
    /\ \A c \in Callers : \A h \in opened[c] : object[h] = "file"

\* The entries that name a thread.
Naming(s) == slot[s].signature /\ slot[s].handle # None /\ ~Closing(s)

\* Naming is one to one between entries and threads.
NamesOK ==
    /\ \A s \in Slots : Naming(s) => object[slot[s].handle] = "thread"
    /\ \A s, t \in Slots : Naming(s) /\ Naming(t) /\ slot[s].handle = slot[t].handle => s = t
    /\ \A h \in Handles : object[h] = "thread" => \E s \in Slots : Naming(s) /\ slot[s].handle = h

IdsOK ==
    /\ \A s \in Slots : slot[s].signature => slot[s].id < g_NextThreadId
    /\ \A s, t \in Slots : slot[s].signature /\ slot[t].signature /\ slot[s].id = slot[t].id
                             /\ slot[s].id # 0 => s = t

Table == OwnersApart /\ OwnedSigned /\ CreatorOK /\ HandlesOK /\ NamesOK /\ IdsOK

\* What only a clash brings out of order: creations apart, no restart over live
\* threads, nobody's handle closed by another.
Clean == clash \subseteq {"filter"}

TableInv == Clean => Table

-----------------------------------------------------------------------------
(* Least elements, and how many callers are at some steps *)

\* The least number of a set of numbers is one of them.
LEMMA MinIn ==
  ASSUME NEW T \in SUBSET Nat, T # {}
  PROVE  Min(T) \in T
<1> DEFINE Less == {ss \in Nat \X Nat : ss[1] < ss[2]}
<1>1. IsWellFoundedOn(Less, Nat)
  BY NatLessThanWellFounded DEF Less, OpToRel
<1>2. PICK x \in T : \A y \in T : <<y, x>> \notin Less
  BY <1>1, WFMin
<1>3. \A y \in T : x \in Nat /\ y \in Nat /\ ~(y < x)
  BY <1>2 DEF Less
<1>4. \A y \in T : x <= y
  BY <1>3
<1> QED
  BY <1>4 DEF Min

LEMMA InFinite ==
  ASSUME NEW A
  PROVE  /\ IsFiniteSet(In(A)) /\ Cardinality(In(A)) \in Nat
         /\ IsFiniteSet(In(A)') /\ Cardinality(In(A)') \in Nat
<1>1. In(A) \in SUBSET Callers /\ In(A)' \in SUBSET Callers
  BY DEF In
<1>2. IsFiniteSet(Callers)
  BY NativeCallsAssumption DEF NativeCallsAssumption
<1> QED
  BY <1>1, <1>2, FS_Subset, FS_CardinalityType

OthersKept(c) == \A d \in Callers \ {c} : caller'[d] = caller[d]

\* A caller that moves into these steps is one more, one that leaves is one less.
LEMMA CountMoves ==
  ASSUME NEW A, NEW c \in Callers, OthersKept(c)
  PROVE  /\ (caller[c].at \in A <=> caller'[c].at \in A) => In(A)' = In(A)
         /\ caller[c].at \in A /\ caller'[c].at \notin A =>
              Cardinality(In(A)') = Cardinality(In(A)) - 1
         /\ caller[c].at \notin A /\ caller'[c].at \in A =>
              Cardinality(In(A)') = Cardinality(In(A)) + 1
         /\ caller[c].at \in A => Cardinality(In(A)) >= 1
<1>1. ASSUME caller[c].at \in A <=> caller'[c].at \in A PROVE In(A)' = In(A)
  BY <1>1 DEF In, OthersKept
<1>2. ASSUME caller[c].at \in A, caller'[c].at \notin A
      PROVE  Cardinality(In(A)') = Cardinality(In(A)) - 1
  <2>1. In(A)' = In(A) \ {c} /\ c \in In(A)
    BY <1>2 DEF In, OthersKept
  <2> QED
    BY <2>1, InFinite, FS_RemoveElement
<1>3. ASSUME caller[c].at \notin A, caller'[c].at \in A
      PROVE  Cardinality(In(A)') = Cardinality(In(A)) + 1
  <2>1. In(A)' = In(A) \cup {c} /\ c \notin In(A)
    BY <1>3 DEF In, OthersKept
  <2> QED
    BY <2>1, InFinite, FS_AddElement
<1>4. ASSUME caller[c].at \in A PROVE Cardinality(In(A)) >= 1
  <2>1. In(A) # {}
    BY <1>4 DEF In
  <2>2. Cardinality(In(A)) # 0
    BY <2>1, InFinite, FS_EmptySet
  <2> QED
    BY <2>2, InFinite
<1> QED
  BY <1>1, <1>2, <1>3, <1>4

-----------------------------------------------------------------------------
(* Types *)

Record == [at: {"idle", "take", "id", "start", "close", "clear", "count", "refuse"},
           slot: Slots \cup {None}, id: Nat]

Entry == [signature: BOOLEAN, id: 0..MaxThreads, handle: Handles \cup {None}]

\* What one caller's step does to the places of all.
LEMMA OneMoves ==
  ASSUME TypeInv, NEW c \in Callers, NEW r \in Record, caller' = [caller EXCEPT ![c] = r]
  PROVE  /\ caller'[c] = r /\ OthersKept(c)
         /\ caller' \in [Callers -> Record]
  BY DEF TypeInv, TypeOK, OthersKept, Record

\* A step that keeps the counters, of a caller that is not and does not get inside.
LEMMA CountsKept ==
  ASSUME TypeInv, NEW c \in Callers, OthersKept(c),
         caller[c].at \notin FilterSteps, caller'[c].at \notin FilterSteps,
         UNCHANGED <<SyscallCount, RestrictedSyscallCount, calls>>
  PROVE  CountsBound'
<1>1. In(FilterSteps)' = In(FilterSteps)
  BY CountMoves
<1>2. \A d \in In(FilterSteps) : caller'[d] = caller[d]
  BY DEF In, OthersKept
<1> HIDE DEF FilterSteps
<1> QED
  BY <1>1, <1>2 DEF CountsBound, TypeInv

LEMMA IdsKept ==
  ASSUME TypeInv, NEW c \in Callers, OthersKept(c),
         caller[c].at \notin {"take", "id"}, caller'[c].at \notin {"take", "id"},
         UNCHANGED <<g_NextThreadId, created>>
  PROVE  IdsBound'
<1>1. In({"take", "id"})' = In({"take", "id"}) /\ In({"id"})' = In({"id"})
  BY CountMoves
<1>2. \A d \in In({"id"}) : caller'[d] = caller[d]
  BY DEF In, OthersKept
<1> QED
  BY <1>1, <1>2 DEF IdsBound, TypeInv

LEMMA SlotsKnownStill ==
  ASSUME TypeInv, NEW c \in Callers, OthersKept(c),
         caller'[c].at \in CreateSteps \cup CloseSteps => caller'[c].slot \in Slots
  PROVE  SlotKnown'
  BY DEF TypeInv, SlotKnown, OthersKept

\* What a write to one field of an entry leaves.
LEMMA EntryEdits ==
  ASSUME TypeInv, NEW s \in Slots
  PROVE  /\ slot \in [Slots -> Entry]
         /\ \A v \in 0..MaxThreads : [slot EXCEPT ![s].id = v] \in [Slots -> Entry]
         /\ \A v \in Handles : [slot EXCEPT ![s].handle = v] \in [Slots -> Entry]
         /\ \A v \in BOOLEAN : [slot EXCEPT ![s].signature = v] \in [Slots -> Entry]
<1>1. slot \in [Slots -> Entry]
  BY DEF TypeInv, TypeOK, Entry
<1>2. slot[s] \in Entry
  BY <1>1
<1>3. \A v \in 0..MaxThreads : [slot[s] EXCEPT !.id = v] \in Entry
  BY <1>2 DEF Entry
<1>4. \A v \in Handles : [slot[s] EXCEPT !.handle = v] \in Entry
  BY <1>2 DEF Entry
<1>5. \A v \in BOOLEAN : [slot[s] EXCEPT !.signature = v] \in Entry
  BY <1>2 DEF Entry
<1> HIDE DEF Entry
<1> QED
  BY <1>1, <1>3, <1>4, <1>5

LEMMA InitType == Init => TypeInv
<1> SUFFICES ASSUME Init PROVE TypeInv
  OBVIOUS
<1>1. Idle \in Record /\ FreeSlot \in Entry
  BY NativeCallsAssumption DEF NativeCallsAssumption, Idle, FreeSlot, Record, Entry
<1>2. TypeOK
  BY <1>1, NativeCallsAssumption DEF NativeCallsAssumption, Init, TypeOK, Record, Entry
<1>3. \A c \in Callers : caller[c].at = "idle"
  BY DEF Init, Idle
<1>4. /\ In({"take", "id"}) = {} /\ In({"id"}) = {} /\ In(FilterSteps) = {}
  BY <1>3 DEF In, FilterSteps
<1>5. Cardinality({}) = 0
  BY FS_EmptySet
<1>6. SlotKnown
  BY <1>3 DEF SlotKnown, CreateSteps, CloseSteps
<1> QED
  BY <1>2, <1>4, <1>5, <1>6 DEF TypeInv, IdsBound, CountsBound, Init

LEMMA FindType == ASSUME TypeInv, NEW c \in Callers, FindSlot(c) PROVE TypeInv'
<1> DEFINE free == {s \in Slots : ~slot[s].signature}
<1> DEFINE r == [at |-> "take", slot |-> Min(free), id |-> 0]
<1>1. free \in SUBSET Nat /\ free # {}
  BY DEF FindSlot, Slots
<1>2. Min(free) \in Slots
  BY <1>1, MinIn
<1> HIDE DEF free
<1>3. r \in Record /\ r.at = "take" /\ r.slot \in Slots
  BY <1>2 DEF Record
<1>4. caller[c].at = "idle" /\ caller' = [caller EXCEPT ![c] = r]
  BY DEF FindSlot, At, free
<1> HIDE DEF r
<1>5. caller'[c] = r /\ OthersKept(c) /\ caller' \in [Callers -> Record]
  BY <1>3, <1>4, OneMoves
<1>6. clash' \subseteq Clashes
  BY DEF FindSlot, Overlaps, Clashes, TypeInv, TypeOK
<1>7. TypeOK'
  BY <1>5, <1>6, NativeCallsAssumption
     DEF FindSlot, TypeInv, TypeOK, Record, filter, NativeCallsAssumption
<1>8. SlotKnown'
  BY <1>3, <1>5, SlotsKnownStill
<1>9. IdsBound'
  <2>1. /\ Cardinality(In({"take", "id"})') = Cardinality(In({"take", "id"})) + 1
        /\ Cardinality(In({"take", "id"})) \in Nat
        /\ In({"id"})' = In({"id"})
    BY <1>3, <1>4, <1>5, CountMoves, InFinite
  <2>2. \A d \in In({"id"}) : caller'[d] = caller[d] /\ caller[d].id \in Nat
    BY <1>4, <1>5 DEF In, OthersKept, TypeInv, TypeOK
  <2>3. created \in Nat /\ g_NextThreadId \in Nat
    BY NativeCallsAssumption DEF NativeCallsAssumption, TypeInv, TypeOK
  <2>4. created' = created + 1 /\ g_NextThreadId' = g_NextThreadId
    BY DEF FindSlot
  <2>5. g_NextThreadId' + Cardinality(In({"take", "id"})') <= created' + 1
    BY <2>1, <2>3, <2>4 DEF IdsBound, TypeInv
  <2>6. ASSUME NEW d \in In({"id"})'
        PROVE  /\ caller'[d].id >= 1
               /\ caller'[d].id + Cardinality(In({"take", "id"})') <= created' + 1
    BY <2>1, <2>2, <2>3, <2>4 DEF IdsBound, TypeInv
  <2> QED
    BY <2>5, <2>6 DEF IdsBound
<1>10. CountsBound'
  BY <1>3, <1>4, <1>5, CountsKept DEF FilterSteps, FindSlot, filter
<1> QED
  BY <1>7, <1>8, <1>9, <1>10 DEF TypeInv

LEMMA TakeType == ASSUME TypeInv, NEW c \in Callers, TakeSlot(c) PROVE TypeInv'
<1> DEFINE r == [caller[c] EXCEPT !.at = "id", !.id = g_NextThreadId]
<1>1. caller[c] \in Record /\ caller[c].at = "take" /\ caller[c].slot \in Slots
  BY DEF TakeSlot, At, TypeInv, TypeOK, SlotKnown, CreateSteps, Record
<1>2. g_NextThreadId \in Nat /\ g_NextThreadId >= 1
  BY NativeCallsAssumption DEF NativeCallsAssumption, TypeInv, TypeOK
<1>3. r \in Record /\ r.at = "id" /\ r.slot = caller[c].slot /\ r.id = g_NextThreadId
  BY <1>1, <1>2 DEF Record
<1>4. caller' = [caller EXCEPT ![c] = r]
  BY DEF TakeSlot, TypeInv, TypeOK
<1> HIDE DEF r
<1>5. caller'[c] = r /\ OthersKept(c) /\ caller' \in [Callers -> Record]
  BY <1>3, <1>4, OneMoves
<1>6. [FreeSlot EXCEPT !.signature = TRUE] \in Entry
  <2>1. 0 \in 0..MaxThreads
    BY NativeCallsAssumption DEF NativeCallsAssumption
  <2>2. FreeSlot \in Entry
    BY <2>1 DEF FreeSlot, Entry
  <2> QED
    BY <2>2 DEF Entry
<1>7. slot' \in [Slots -> Entry]
  BY <1>1, <1>6 DEF TakeSlot, TypeInv, TypeOK, Entry
<1>8. TypeOK'
  BY <1>5, <1>7 DEF TakeSlot, TypeInv, TypeOK, Record, Entry, filter
<1>9. SlotKnown'
  BY <1>1, <1>3, <1>5, SlotsKnownStill
<1>10. IdsBound'
  <2>1. In({"take", "id"})' = In({"take", "id"}) /\ Cardinality(In({"take", "id"})) \in Nat
    BY <1>1, <1>3, <1>5, CountMoves, InFinite
  <2>2. ASSUME NEW d \in In({"id"})'
        PROVE  /\ caller'[d].id >= 1
               /\ caller'[d].id + Cardinality(In({"take", "id"})) <= created + 1
    <3>1. CASE d = c
      BY <1>2, <1>3, <1>5, <3>1 DEF IdsBound, TypeInv
    <3>2. CASE d # c
      BY <1>5, <3>2 DEF In, OthersKept, IdsBound, TypeInv
    <3> QED
      BY <3>1, <3>2
  <2> QED
    BY <2>1, <2>2 DEF TakeSlot, IdsBound, TypeInv
<1>11. CountsBound'
  BY <1>1, <1>3, <1>5, CountsKept DEF FilterSteps, TakeSlot, filter
<1> QED
  BY <1>8, <1>9, <1>10, <1>11 DEF TypeInv

LEMMA NumberType == ASSUME TypeInv, NEW c \in Callers, NumberThread(c) PROVE TypeInv'
<1> DEFINE r == [caller[c] EXCEPT !.at = "start"]
<1>1. /\ caller[c] \in Record /\ caller[c].at = "id" /\ caller[c].slot \in Slots
      /\ caller[c].id \in Nat
  BY DEF NumberThread, At, TypeInv, TypeOK, SlotKnown, CreateSteps, Record
<1>2. r \in Record /\ r.at = "start" /\ r.slot = caller[c].slot
  BY <1>1 DEF Record
<1>3. caller' = [caller EXCEPT ![c] = r]
  BY DEF NumberThread, TypeInv, TypeOK
<1> HIDE DEF r
<1>4. caller'[c] = r /\ OthersKept(c) /\ caller' \in [Callers -> Record]
  BY <1>2, <1>3, OneMoves
<1> DEFINE k == Cardinality(In({"take", "id"}))
<1>5. /\ k \in Nat /\ k >= 1 /\ Cardinality(In({"take", "id"})') = k - 1
      /\ created \in Nat /\ created <= MaxThreads /\ MaxThreads \in Nat
      /\ caller[c].id >= 1 /\ caller[c].id + k <= created + 1
  <2>1. c \in In({"id"})
    BY <1>1 DEF In
  <2>2. created \in Nat /\ created <= MaxThreads /\ MaxThreads \in Nat
    BY NativeCallsAssumption DEF NativeCallsAssumption, TypeInv, TypeOK
  <2> QED
    BY <1>1, <1>2, <1>4, <2>1, <2>2, CountMoves, InFinite DEF IdsBound, TypeInv
<1> HIDE DEF k
<1>6. caller[c].id \in 0..MaxThreads /\ caller[c].id + 1 \in 1..MaxThreads + 1
  BY <1>1, <1>5
<1>7. slot' \in [Slots -> Entry]
  BY <1>1, <1>6, EntryEdits DEF NumberThread
<1>8. TypeOK'
  BY <1>4, <1>6, <1>7 DEF NumberThread, TypeInv, TypeOK, Record, Entry, filter
<1>9. SlotKnown'
  BY <1>1, <1>2, <1>4, SlotsKnownStill
<1>10. IdsBound'
  <2>1. g_NextThreadId' = caller[c].id + 1 /\ created' = created
    BY DEF NumberThread
  <2>2. g_NextThreadId' + Cardinality(In({"take", "id"})') <= created' + 1
    BY <1>1, <1>5, <2>1
  <2>3. ASSUME NEW d \in In({"id"})'
        PROVE  /\ caller'[d].id >= 1
               /\ caller'[d].id + Cardinality(In({"take", "id"})') <= created' + 1
    <3>1. d # c /\ d \in In({"id"}) /\ caller'[d] = caller[d] /\ caller[d].id \in Nat
      BY <1>2, <1>4 DEF In, OthersKept, TypeInv, TypeOK
    <3>2. caller[d].id >= 1 /\ caller[d].id + k <= created + 1
      BY <3>1 DEF IdsBound, TypeInv, k
    <3> QED
      BY <1>5, <2>1, <3>1, <3>2
  <2> QED
    BY <2>2, <2>3 DEF IdsBound
<1>11. CountsBound'
  BY <1>1, <1>2, <1>4, CountsKept DEF FilterSteps, NumberThread, filter
<1> QED
  BY <1>8, <1>9, <1>10, <1>11 DEF TypeInv

LEMMA StartType ==
  ASSUME TypeInv, NEW c \in Callers, NEW ok \in BOOLEAN, StartThread(c, ok)
  PROVE  TypeInv'
<1>1. caller[c].at = "start" /\ caller[c].slot \in Slots
  BY DEF StartThread, At, TypeInv, TypeOK, SlotKnown, CreateSteps
<1>2. Idle \in Record /\ Idle.at = "idle"
  BY DEF Idle, Record
<1>3. caller'[c] = Idle /\ OthersKept(c) /\ caller' \in [Callers -> Record]
  BY <1>2, OneMoves DEF StartThread
<1>4. /\ slot' \in [Slots -> Entry] /\ held' \in [Callers -> SUBSET Slots]
      /\ object' \in [Handles -> {"thread", "file", "nothing"}]
  <2>1. CASE ok
    <3>1. Unused \in SUBSET Nat /\ Unused # {} /\ Unused \subseteq Handles
      BY <2>1 DEF StartThread, Unused, Handles
    <3>2. Min(Unused) \in Handles
      BY <3>1, MinIn
    <3> DEFINE h == Min(Unused)
    <3>3. /\ slot' = [slot EXCEPT ![caller[c].slot].handle = h]
          /\ object' = [object EXCEPT ![h] = "thread"]
          /\ held' = [held EXCEPT ![c] = @ \cup {caller[c].slot}]
      BY <2>1 DEF StartThread
    <3> HIDE DEF h
    <3>4. h \in Handles
      BY <3>2 DEF h
    <3>5. slot' \in [Slots -> Entry]
      BY <1>1, <3>3, <3>4, EntryEdits
    <3> QED
      BY <1>1, <3>3, <3>4, <3>5 DEF TypeInv, TypeOK
  <2>2. CASE ~ok
    BY <1>1, <2>2, EntryEdits DEF StartThread, TypeInv, TypeOK
  <2> QED
    BY <2>1, <2>2
<1>5. TypeOK'
  BY <1>3, <1>4 DEF StartThread, TypeInv, TypeOK, Record, Entry, filter
<1>6. SlotKnown'
  BY <1>2, <1>3, SlotsKnownStill DEF CreateSteps, CloseSteps
<1>7. IdsBound'
  BY <1>1, <1>2, <1>3, IdsKept DEF StartThread
<1>8. CountsBound'
  BY <1>1, <1>2, <1>3, CountsKept DEF FilterSteps, StartThread, filter
<1> QED
  BY <1>5, <1>6, <1>7, <1>8 DEF TypeInv

LEMMA TerminateType ==
  ASSUME TypeInv, NEW c \in Callers, NEW s \in Slots, TerminateThread(c, s)
  PROVE  TypeInv'
<1> DEFINE r == IF slot[s].signature THEN [at |-> "close", slot |-> s, id |-> 0] ELSE caller[c]
<1>1. caller[c].at = "idle" /\ caller[c] \in Record
  BY DEF TerminateThread, At, TypeInv, TypeOK, Record
<1>2. /\ r \in Record /\ r.at \in {"close", "idle"}
      /\ r.at = "close" => r.slot \in Slots
  BY <1>1 DEF Record
<1>3. caller' = [caller EXCEPT ![c] = r]
  BY DEF TerminateThread, TypeInv, TypeOK
<1> HIDE DEF r
<1>4. caller'[c] = r /\ OthersKept(c) /\ caller' \in [Callers -> Record]
  BY <1>2, <1>3, OneMoves
<1>5. TypeOK'
  BY <1>4 DEF TerminateThread, TypeInv, TypeOK, Record, filter
<1>6. SlotKnown'
  BY <1>2, <1>4, SlotsKnownStill DEF CreateSteps, CloseSteps
<1>7. IdsBound'
  BY <1>1, <1>2, <1>4, IdsKept DEF TerminateThread
<1>8. CountsBound'
  BY <1>1, <1>2, <1>4, CountsKept DEF FilterSteps, TerminateThread, filter
<1> QED
  BY <1>5, <1>6, <1>7, <1>8 DEF TypeInv

LEMMA CloseType == ASSUME TypeInv, NEW c \in Callers, CloseThread(c) PROVE TypeInv'
<1> DEFINE r == [caller[c] EXCEPT !.at = "clear"]
<1>1. /\ caller[c] \in Record /\ caller[c].at = "close" /\ caller[c].slot \in Slots
  BY DEF CloseThread, At, TypeInv, TypeOK, SlotKnown, CloseSteps, Record
<1>2. r \in Record /\ r.at = "clear" /\ r.slot = caller[c].slot
  BY <1>1 DEF Record
<1>3. caller' = [caller EXCEPT ![c] = r]
  BY DEF CloseThread, TypeInv, TypeOK
<1> HIDE DEF r
<1>4. caller'[c] = r /\ OthersKept(c) /\ caller' \in [Callers -> Record]
  BY <1>2, <1>3, OneMoves
<1>5. object' \in [Handles -> {"thread", "file", "nothing"}]
  BY DEF CloseThread, TypeInv, TypeOK
<1>6. TypeOK'
  BY <1>4, <1>5 DEF CloseThread, TypeInv, TypeOK, Record, filter, threads
<1>7. SlotKnown'
  BY <1>1, <1>2, <1>4, SlotsKnownStill
<1>8. IdsBound'
  BY <1>1, <1>2, <1>4, IdsKept DEF CloseThread, threads
<1>9. CountsBound'
  BY <1>1, <1>2, <1>4, CountsKept DEF FilterSteps, CloseThread, filter
<1> QED
  BY <1>6, <1>7, <1>8, <1>9 DEF TypeInv

LEMMA ClearType == ASSUME TypeInv, NEW c \in Callers, ClearSlot(c) PROVE TypeInv'
<1>1. caller[c].at = "clear" /\ caller[c].slot \in Slots
  BY DEF ClearSlot, At, TypeInv, TypeOK, SlotKnown, CloseSteps
<1>2. Idle \in Record /\ Idle.at = "idle"
  BY DEF Idle, Record
<1>3. caller'[c] = Idle /\ OthersKept(c) /\ caller' \in [Callers -> Record]
  BY <1>2, OneMoves DEF ClearSlot
<1>4. slot' \in [Slots -> Entry]
  BY <1>1, EntryEdits DEF ClearSlot
<1>5. TypeOK'
  BY <1>3, <1>4 DEF ClearSlot, TypeInv, TypeOK, Record, Entry, filter
<1>6. SlotKnown'
  BY <1>2, <1>3, SlotsKnownStill DEF CreateSteps, CloseSteps
<1>7. IdsBound'
  BY <1>1, <1>2, <1>3, IdsKept DEF ClearSlot
<1>8. CountsBound'
  BY <1>1, <1>2, <1>3, CountsKept DEF FilterSteps, ClearSlot, filter
<1> QED
  BY <1>5, <1>6, <1>7, <1>8 DEF TypeInv

LEMMA CallType ==
  ASSUME TypeInv, NEW c \in Callers, NEW number, NTOS2NDHandleSyscall(c, number)
  PROVE  TypeInv'
<1>1. /\ object' \in [Handles -> {"thread", "file", "nothing"}]
      /\ opened' \in [Callers -> SUBSET Handles]
      /\ clash' \subseteq Clashes
  <2>1. CASE OpenObject(c) /\ UNCHANGED clash
    <3>1. Unused \in SUBSET Nat /\ Unused # {} /\ Unused \subseteq Handles
      BY <2>1 DEF OpenObject, Unused, Handles
    <3>2. Min(Unused) \in Handles
      BY <3>1, MinIn
    <3> QED
      BY <2>1, <3>2 DEF OpenObject, TypeInv, TypeOK
  <2>2. CASE CloseObject(c)
    BY <2>2 DEF CloseObject, Clashes, TypeInv, TypeOK
  <2>3. CASE UNCHANGED <<object, opened, clash>>
    BY <2>3 DEF TypeInv, TypeOK
  <2> QED
    BY <2>1, <2>2, <2>3 DEF NTOS2NDHandleSyscall
<1>2. UNCHANGED <<threads, caller, filter>>
  BY DEF NTOS2NDHandleSyscall
<1>3. \A A : In(A)' = In(A)
  BY <1>2 DEF In
<1> QED
  BY <1>1, <1>2, <1>3
     DEF TypeInv, TypeOK, SlotKnown, IdsBound, CountsBound, threads, filter

LEMMA FilterType ==
  ASSUME TypeInv, NEW c \in Callers, NEW number, FilterSyscall(c, number)
  PROVE  TypeInv'
<1> DEFINE r == IF NTOS2NDIsSyscallAllowed(number)
                THEN [at |-> "count", slot |-> None, id |-> SyscallCount]
                ELSE [at |-> "refuse", slot |-> None, id |-> RestrictedSyscallCount]
<1>1. /\ calls \in Nat /\ filtered \in Nat /\ filtered <= calls /\ SyscallCount \in Nat
      /\ RestrictedSyscallCount \in Nat /\ SyscallCount <= calls
      /\ RestrictedSyscallCount <= calls /\ calls + 1 <= MaxFiltered /\ MaxFiltered \in Nat
  BY NativeCallsAssumption DEF NativeCallsAssumption, FilterSyscall, TypeInv, TypeOK
<1>2. /\ r \in Record /\ r.at \in FilterSteps
      /\ r.id = SyscallCount \/ r.id = RestrictedSyscallCount
  BY <1>1 DEF Record, FilterSteps
<1>3. caller[c].at = "idle" /\ caller' = [caller EXCEPT ![c] = r]
  BY DEF FilterSyscall, At
<1> HIDE DEF r
<1>4. caller'[c] = r /\ OthersKept(c) /\ caller' \in [Callers -> Record]
  BY <1>2, <1>3, OneMoves
<1>5. /\ calls' = calls + 1 /\ filtered' = filtered + 1
      /\ UNCHANGED <<threads, object, bEnableSyscallFiltering, SyscallCount,
                     RestrictedSyscallCount, opened>>
      /\ clash' \subseteq Clashes
  BY DEF FilterSyscall, Overlaps, Clashes, TypeInv, TypeOK
<1>6. TypeOK'
  <2>1. /\ calls' \in 0..MaxFiltered /\ filtered' \in 0..calls'
        /\ SyscallCount' \in 0..calls' /\ RestrictedSyscallCount' \in 0..calls'
    BY <1>1, <1>5
  <2> QED
    BY <1>4, <1>5, <2>1 DEF TypeInv, TypeOK, Record, threads
<1>7. SlotKnown'
  BY <1>2, <1>4, SlotsKnownStill DEF FilterSteps, CreateSteps, CloseSteps
<1>8. IdsBound'
  BY <1>2, <1>3, <1>4, <1>5, IdsKept DEF FilterSteps, threads
<1>9. CountsBound'
  <2>1. /\ Cardinality(In(FilterSteps)') = Cardinality(In(FilterSteps)) + 1
        /\ Cardinality(In(FilterSteps)) \in Nat
    BY <1>2, <1>3, <1>4, CountMoves, InFinite DEF FilterSteps
  <2>2. /\ SyscallCount' + Cardinality(In(FilterSteps)') <= calls'
        /\ RestrictedSyscallCount' + Cardinality(In(FilterSteps)') <= calls'
    BY <1>1, <1>5, <2>1 DEF CountsBound, TypeInv
  <2>3. ASSUME NEW d \in In(FilterSteps)'
        PROVE  caller'[d].id + Cardinality(In(FilterSteps)') <= calls'
    <3>1. CASE d = c
      BY <1>2, <1>4, <1>5, <2>2, <3>1
    <3>2. CASE d # c
      <4>1. d \in In(FilterSteps) /\ caller'[d] = caller[d] /\ caller[d].id \in Nat
        BY <1>4, <3>2 DEF In, OthersKept, TypeInv, TypeOK
      <4>2. caller[d].id + Cardinality(In(FilterSteps)) <= calls
        BY <4>1 DEF CountsBound, TypeInv
      <4> QED
        BY <1>1, <1>5, <2>1, <4>1, <4>2
    <3> QED
      BY <3>1, <3>2
  <2> QED
    BY <2>2, <2>3 DEF CountsBound
<1> QED
  BY <1>6, <1>7, <1>8, <1>9 DEF TypeInv

LEMMA CountType == ASSUME TypeInv, NEW c \in Callers, CountSyscall(c) PROVE TypeInv'
<1>1. caller[c].at \in FilterSteps /\ caller[c].id \in Nat /\ c \in In(FilterSteps)
  BY DEF CountSyscall, FilterSteps, In, TypeInv, TypeOK
<1>2. Idle \in Record /\ Idle.at = "idle"
  BY DEF Idle, Record
<1>3. caller'[c] = Idle /\ OthersKept(c) /\ caller' \in [Callers -> Record]
  BY <1>2, OneMoves DEF CountSyscall
<1> DEFINE k == Cardinality(In(FilterSteps))
<1>4. k \in Nat /\ k >= 1 /\ Cardinality(In(FilterSteps)') = k - 1
  BY <1>1, <1>2, <1>3, CountMoves, InFinite DEF FilterSteps
<1>5. /\ calls \in Nat /\ SyscallCount \in Nat /\ RestrictedSyscallCount \in Nat
      /\ SyscallCount + k <= calls /\ RestrictedSyscallCount + k <= calls
      /\ caller[c].id + k <= calls
  BY <1>1, NativeCallsAssumption DEF NativeCallsAssumption, TypeInv, TypeOK, CountsBound
<1> HIDE DEF k
<1>6. /\ SyscallCount' = caller[c].id + 1 \/ SyscallCount' = SyscallCount
      /\ \/ RestrictedSyscallCount' = caller[c].id + 1
         \/ RestrictedSyscallCount' = RestrictedSyscallCount
      /\ UNCHANGED <<threads, object, bEnableSyscallFiltering, calls, filtered, opened,
                     clash>>
  BY DEF CountSyscall
<1>7. TypeOK'
  <2>1. SyscallCount' \in 0..calls' /\ RestrictedSyscallCount' \in 0..calls'
    BY <1>1, <1>4, <1>5, <1>6
  <2> QED
    BY <1>3, <1>6, <2>1 DEF TypeInv, TypeOK, Record, threads
<1>8. SlotKnown'
  BY <1>2, <1>3, SlotsKnownStill DEF CreateSteps, CloseSteps
<1>9. IdsBound'
  BY <1>1, <1>2, <1>3, <1>6, IdsKept DEF FilterSteps, threads
<1>10. CountsBound'
  <2>1. SyscallCount' + (k - 1) <= calls' /\ RestrictedSyscallCount' + (k - 1) <= calls'
    BY <1>1, <1>4, <1>5, <1>6
  <2>2. ASSUME NEW d \in In(FilterSteps)' PROVE caller'[d].id + (k - 1) <= calls'
    <3>1. d # c /\ d \in In(FilterSteps) /\ caller'[d] = caller[d] /\ caller[d].id \in Nat
      BY <1>2, <1>3 DEF In, OthersKept, FilterSteps, TypeInv, TypeOK
    <3>2. caller[d].id + k <= calls
      BY <3>1 DEF CountsBound, TypeInv, k
    <3> QED
      BY <1>4, <1>5, <1>6, <3>1, <3>2
  <2> QED
    BY <1>4, <2>1, <2>2 DEF CountsBound
<1> QED
  BY <1>7, <1>8, <1>9, <1>10 DEF TypeInv

LEMMA ZeroType ==
  ASSUME TypeInv, NEW c \in Callers, NEW filtering \in BOOLEAN, ZeroSandbox(c, filtering)
  PROVE  TypeInv'
<1>1. /\ UNCHANGED <<threads, object, caller, calls, opened>>
      /\ bEnableSyscallFiltering' = filtering /\ filtered' = 0
      /\ SyscallCount' = 0 /\ RestrictedSyscallCount' = 0
      /\ clash' \subseteq Clashes
  BY DEF ZeroSandbox, Overlaps, Clashes, TypeInv, TypeOK
<1>2. calls \in Nat
  BY NativeCallsAssumption DEF NativeCallsAssumption, TypeInv, TypeOK
<1>3. TypeOK'
  <2>1. 0 \in 0..calls'
    BY <1>1, <1>2
  <2> QED
    BY <1>1, <2>1 DEF TypeInv, TypeOK, threads
<1>4. \A A : In(A)' = In(A)
  BY <1>1 DEF In
<1>5. SlotKnown' /\ IdsBound'
  BY <1>1, <1>4 DEF TypeInv, SlotKnown, IdsBound, threads
<1>6. CountsBound'
  <2>1. Cardinality(In(FilterSteps)) <= calls
    BY <1>2, InFinite DEF TypeInv, TypeOK, CountsBound
  <2>2. 0 + Cardinality(In(FilterSteps)) <= calls
    BY <2>1, InFinite
  <2> QED
    BY <1>1, <1>4, <2>2 DEF CountsBound, TypeInv
<1> QED
  BY <1>3, <1>5, <1>6 DEF TypeInv

LEMMA KernelType == ASSUME TypeInv, NEW c \in Callers, InitializeKernel(c) PROVE TypeInv'
<1>1. /\ UNCHANGED <<g_NextThreadId, held, created, object, caller, filter, opened>>
      /\ slot' = [s \in Slots |-> FreeSlot] /\ clash' \subseteq Clashes
  BY DEF InitializeKernel, Clashes, TypeInv, TypeOK
<1>2. FreeSlot \in Entry
  BY NativeCallsAssumption DEF NativeCallsAssumption, FreeSlot, Entry
<1>3. slot' \in [Slots -> Entry]
  BY <1>1, <1>2
<1>4. TypeOK'
  BY <1>1, <1>3 DEF TypeInv, TypeOK, Entry, filter
<1>5. \A A : In(A)' = In(A)
  BY <1>1 DEF In
<1> QED
  BY <1>1, <1>4, <1>5 DEF TypeInv, SlotKnown, IdsBound, CountsBound, filter

LEMMA NextType == TypeInv /\ [Next]_vars => TypeInv'
<1> SUFFICES ASSUME TypeInv, [Next]_vars PROVE TypeInv'
  OBVIOUS
<1>1. ASSUME UNCHANGED vars PROVE TypeInv'
  <2>1. \A A : In(A)' = In(A)
    BY <1>1 DEF In, vars
  <2> QED
    BY <1>1, <2>1
       DEF vars, TypeInv, TypeOK, SlotKnown, IdsBound, CountsBound, threads, filter
<1>2. ASSUME NEW c \in Callers, KernelCall(c) \/ NtWrap(c) PROVE TypeInv'
  BY <1>2, CallType DEF KernelCall, NtWrap
<1>3. ASSUME NEW c \in Callers, InitializeSandbox(c) \/ ShutdownSandbox(c) PROVE TypeInv'
  BY <1>3, ZeroType DEF InitializeSandbox, ShutdownSandbox
<1> QED
  BY <1>1, <1>2, <1>3, FindType, TakeType, NumberType, StartType, TerminateType, CloseType,
     ClearType, KernelType, FilterType, CountType DEF Next

\* Every reachable state is well typed, for any number of callers at once.
THEOREM TypeCorrect == Spec => []TypeOK
<1>1. TypeInv => TypeOK
  BY DEF TypeInv
<1> QED
  BY <1>1, InitType, NextType, PTL DEF Spec

-----------------------------------------------------------------------------
(* The counters of the filter *)

LEMMA Inside == {c \in Callers : caller[c].at \in {"count", "refuse"}} = In(FilterSteps)
  BY DEF In, FilterSteps

LEMMA FilterKept ==
  ASSUME TypeInv, FilterInv, NEW c \in Callers, OthersKept(c),
         caller[c].at \notin FilterSteps, caller'[c].at \notin FilterSteps,
         UNCHANGED filter, "filter" \notin clash' => "filter" \notin clash
  PROVE  FilterInv'
<1>1. In(FilterSteps)' = In(FilterSteps)
  BY CountMoves
<1>2. \A d \in Callers : caller'[d].at \in FilterSteps => caller'[d] = caller[d]
  BY DEF OthersKept
<1>3. FilterAlone'
  BY <1>1, <1>2 DEF FilterInv, FilterAlone, At, FilterSteps, filter
<1>4. CountsAddUp'
  BY <1>1, Inside DEF FilterInv, CountsAddUp, filter, In, FilterSteps
<1> QED
  BY <1>3, <1>4 DEF FilterInv

LEMMA NobodyInside ==
  ASSUME TypeInv, NEW c \in Callers, caller[c].at \notin FilterSteps,
         Overlaps(c, "filter", {"count", "refuse"}), "filter" \notin clash'
  PROVE  /\ In(FilterSteps) = {} /\ Cardinality(In(FilterSteps)) = 0
         /\ "filter" \notin clash
<1>1. In(FilterSteps) = {} /\ "filter" \notin clash
  BY DEF Overlaps, In, FilterSteps
<1> QED
  BY <1>1, FS_EmptySet

LEMMA FilterCounts ==
  ASSUME TypeInv, FilterInv, NEW c \in Callers, NEW number, FilterSyscall(c, number)
  PROVE  FilterInv'
<1> DEFINE r == IF NTOS2NDIsSyscallAllowed(number)
                THEN [at |-> "count", slot |-> None, id |-> SyscallCount]
                ELSE [at |-> "refuse", slot |-> None, id |-> RestrictedSyscallCount]
<1>1. /\ r.at \in FilterSteps
      /\ r.at = "count" => r.id = SyscallCount
      /\ r.at = "refuse" => r.id = RestrictedSyscallCount
  BY DEF FilterSteps
<1>2. /\ caller[c].at = "idle" /\ caller' = [caller EXCEPT ![c] = r]
      /\ caller \in [Callers -> Record]
  BY DEF FilterSyscall, At, TypeInv, TypeOK, Record
<1> HIDE DEF r
<1>3. caller'[c] = r /\ OthersKept(c)
  BY <1>2 DEF OthersKept
<1> SUFFICES ASSUME "filter" \notin clash' PROVE FilterInv'
  BY DEF FilterInv, FilterAlone, CountsAddUp
<1>4. /\ In(FilterSteps) = {} /\ Cardinality(In(FilterSteps)) = 0
      /\ "filter" \notin clash
  BY <1>2, NobodyInside DEF FilterSyscall, FilterSteps
<1>5. \A d \in Callers : caller'[d].at \in FilterSteps => d = c
  BY <1>3, <1>4 DEF In, OthersKept
<1>6. FilterAlone'
  BY <1>1, <1>3, <1>5 DEF FilterAlone, In, At, FilterSteps, FilterSyscall
<1>7. Cardinality(In(FilterSteps)') = 1
  BY <1>1, <1>2, <1>3, <1>4, CountMoves DEF FilterSteps
<1>8. SyscallCount + RestrictedSyscallCount + 0 = filtered
  BY <1>4, Inside DEF FilterInv, CountsAddUp
<1>9. /\ SyscallCount' = SyscallCount /\ RestrictedSyscallCount' = RestrictedSyscallCount
      /\ filtered' = filtered + 1
      /\ SyscallCount \in Nat /\ RestrictedSyscallCount \in Nat /\ filtered \in Nat
  BY DEF FilterSyscall, TypeInv, TypeOK
<1>10. SyscallCount' + RestrictedSyscallCount' + Cardinality(In(FilterSteps)') = filtered'
  BY <1>7, <1>8, <1>9
<1>11. CountsAddUp'
  BY <1>10 DEF CountsAddUp, In, FilterSteps
<1> QED
  BY <1>6, <1>11 DEF FilterInv

LEMMA CountCounts ==
  ASSUME TypeInv, FilterInv, NEW c \in Callers, CountSyscall(c)
  PROVE  FilterInv'
<1>1. /\ caller[c].at \in FilterSteps /\ c \in In(FilterSteps)
      /\ caller'[c] = Idle /\ OthersKept(c) /\ clash' = clash
  BY DEF CountSyscall, FilterSteps, In, OthersKept, TypeInv, TypeOK
<1> SUFFICES ASSUME "filter" \notin clash PROVE FilterInv'
  BY <1>1 DEF FilterInv, FilterAlone, CountsAddUp
<1>2. In(FilterSteps) = {c}
  BY <1>1 DEF FilterInv, FilterAlone
<1>3. In(FilterSteps)' = {}
  BY <1>1, <1>2 DEF In, OthersKept, Idle, FilterSteps
<1>4. Cardinality(In(FilterSteps)) = 1 /\ Cardinality(In(FilterSteps)') = 0
  BY <1>2, <1>3, FS_Singleton, FS_EmptySet
<1>5. FilterAlone'
  BY <1>3 DEF FilterAlone, In, At, FilterSteps
<1>6. SyscallCount + RestrictedSyscallCount + 1 = filtered
  BY <1>4, Inside DEF FilterInv, CountsAddUp
<1>7. /\ \/ /\ SyscallCount' = SyscallCount + 1
            /\ RestrictedSyscallCount' = RestrictedSyscallCount
         \/ /\ SyscallCount' = SyscallCount
            /\ RestrictedSyscallCount' = RestrictedSyscallCount + 1
      /\ filtered' = filtered
      /\ SyscallCount \in Nat /\ RestrictedSyscallCount \in Nat /\ filtered \in Nat
  BY <1>1 DEF CountSyscall, FilterInv, FilterAlone, At, FilterSteps, TypeInv, TypeOK
<1>8. SyscallCount' + RestrictedSyscallCount' + Cardinality(In(FilterSteps)') = filtered'
  BY <1>4, <1>6, <1>7
<1>9. CountsAddUp'
  BY <1>8 DEF CountsAddUp, In, FilterSteps
<1> QED
  BY <1>5, <1>9 DEF FilterInv

LEMMA ZeroCounts ==
  ASSUME TypeInv, FilterInv, NEW c \in Callers, NEW filtering, ZeroSandbox(c, filtering)
  PROVE  FilterInv'
<1> SUFFICES ASSUME "filter" \notin clash' PROVE FilterInv'
  BY DEF FilterInv, FilterAlone, CountsAddUp
<1>1. In(FilterSteps) = {} /\ Cardinality(In(FilterSteps)) = 0
  BY NobodyInside DEF ZeroSandbox, At, FilterSteps
<1>2. In(FilterSteps)' = In(FilterSteps)
  BY DEF ZeroSandbox, In
<1>3. FilterAlone'
  BY <1>1, <1>2 DEF FilterAlone, In, At, FilterSteps
<1>4. SyscallCount' + RestrictedSyscallCount' + Cardinality(In(FilterSteps)') = filtered'
  BY <1>1, <1>2 DEF ZeroSandbox
<1>5. CountsAddUp'
  BY <1>4 DEF CountsAddUp, In, FilterSteps
<1> QED
  BY <1>3, <1>5 DEF FilterInv

\* The steps of the thread calls do not touch the filter.
ThreadStep(c) ==
    \/ FindSlot(c) \/ TakeSlot(c) \/ NumberThread(c)
    \/ \E ok \in BOOLEAN : StartThread(c, ok)
    \/ \E s \in Slots : TerminateThread(c, s)
    \/ CloseThread(c) \/ ClearSlot(c)

LEMMA ThreadStepsOutside ==
  ASSUME TypeInv, NEW c \in Callers, ThreadStep(c)
  PROVE  /\ OthersKept(c) /\ UNCHANGED filter
         /\ caller[c].at \notin FilterSteps /\ caller'[c].at \notin FilterSteps
         /\ "filter" \notin clash' => "filter" \notin clash
<1>1. caller \in [Callers -> Record]
  BY DEF TypeInv, TypeOK, Record
<1>2. OthersKept(c)
  <2>1. CASE FindSlot(c) \/ TakeSlot(c) \/ NumberThread(c)
    BY <1>1, <2>1 DEF OthersKept, FindSlot, TakeSlot, NumberThread
  <2>2. ASSUME NEW ok \in BOOLEAN, StartThread(c, ok) PROVE OthersKept(c)
    BY <1>1, <2>2 DEF OthersKept, StartThread
  <2>3. ASSUME NEW s \in Slots, TerminateThread(c, s) PROVE OthersKept(c)
    BY <1>1, <2>3 DEF OthersKept, TerminateThread
  <2>4. CASE CloseThread(c) \/ ClearSlot(c)
    BY <1>1, <2>4 DEF OthersKept, CloseThread, ClearSlot
  <2> QED
    BY <2>1, <2>2, <2>3, <2>4 DEF ThreadStep
<1>3. UNCHANGED filter /\ caller[c].at \notin FilterSteps
  BY DEF FilterSteps, At, ThreadStep, FindSlot, TakeSlot, NumberThread, StartThread,
         TerminateThread, CloseThread, ClearSlot
<1>4. "filter" \notin clash' => "filter" \notin clash
  BY DEF ThreadStep, FindSlot, TakeSlot, NumberThread, StartThread, Overlaps,
         TerminateThread, CloseThread, ClearSlot
<1>5. caller'[c].at \in {"idle", "take", "id", "start", "close", "clear"}
  BY <1>1 DEF At, Idle, Record, ThreadStep, FindSlot, TakeSlot, NumberThread, StartThread,
         TerminateThread, CloseThread, ClearSlot
<1> QED
  BY <1>2, <1>3, <1>4, <1>5 DEF FilterSteps

LEMMA NextCounts == TypeInv /\ FilterInv /\ [Next]_vars => FilterInv'
<1> SUFFICES ASSUME TypeInv, FilterInv, [Next]_vars PROVE FilterInv'
  OBVIOUS
<1>1. ASSUME UNCHANGED <<caller, filter>>, "filter" \notin clash' => "filter" \notin clash
      PROVE  FilterInv'
  BY <1>1 DEF FilterInv, FilterAlone, CountsAddUp, In, At, filter
<1>2. ASSUME NEW c \in Callers, KernelCall(c) \/ NtWrap(c) PROVE FilterInv'
  <2>1. "filter" \notin clash' => "filter" \notin clash
    BY <1>2 DEF KernelCall, NtWrap, NTOS2NDHandleSyscall, CloseObject
  <2>2. UNCHANGED <<caller, filter>>
    BY <1>2 DEF KernelCall, NtWrap, NTOS2NDHandleSyscall
  <2> QED
    BY <1>1, <2>1, <2>2
<1>3. ASSUME NEW c \in Callers, InitializeSandbox(c) \/ ShutdownSandbox(c) PROVE FilterInv'
  BY <1>3, ZeroCounts DEF InitializeSandbox, ShutdownSandbox
<1>4. ASSUME NEW c \in Callers, ThreadStep(c) PROVE FilterInv'
  BY <1>4, ThreadStepsOutside, FilterKept
<1>5. CASE UNCHANGED vars
  BY <1>1, <1>5 DEF vars
<1>6. ASSUME NEW c \in Callers, InitializeKernel(c) PROVE FilterInv'
  <2>1. /\ UNCHANGED <<caller, filter>>
        /\ "filter" \notin clash' => "filter" \notin clash
    BY <1>6 DEF InitializeKernel
  <2> QED
    BY <1>1, <2>1
<1> QED
  BY <1>2, <1>3, <1>4, <1>5, <1>6, FilterCounts, CountCounts DEF Next, ThreadStep

\* As long as no calls through the filter have overlapped, each is in one counter.
THEOREM EachCallCounted == Spec => []CountsAddUp
<1>1. Init => FilterInv
  <2> SUFFICES ASSUME Init PROVE FilterInv
    OBVIOUS
  <2>1. In(FilterSteps) = {}
    BY DEF Init, Idle, In, FilterSteps
  <2>2. Cardinality(In(FilterSteps)) = 0
    BY <2>1, FS_EmptySet
  <2>3. FilterAlone
    BY <2>1 DEF FilterAlone, In, At, FilterSteps
  <2> QED
    BY <2>2, <2>3, Inside DEF FilterInv, CountsAddUp, Init
<1>2. FilterInv => CountsAddUp
  BY DEF FilterInv
<1> QED
  BY <1>1, <1>2, InitType, NextType, NextCounts, PTL DEF Spec

-----------------------------------------------------------------------------
(* The thread table *)

LEMMA OwnedNaming ==
  ASSUME TypeInv, Table, NEW c \in Callers, NEW s \in Slots, Holds(c, s),
         slot[s].handle # None, s \notin held[c] => ~At(c, "clear")
  PROVE  Naming(s)
<1>1. ASSUME Closing(s) PROVE FALSE
  <2>1. PICK d \in Callers : At(d, "clear") /\ caller[d].slot = s
    BY <1>1 DEF Closing
  <2>2. Works(d) /\ Holds(d, s)
    BY <2>1 DEF Works, Holds, At
  <2>3. d = c
    BY <2>2 DEF Table, OwnersApart
  <2> QED
    BY <2>1, <2>2, <2>3 DEF Table, OwnersApart
<1> QED
  BY <1>1 DEF Naming, Table, OwnedSigned

\* The others keep what is in their hands.
LEMMA OthersHold ==
  ASSUME NEW c \in Callers, OthersKept(c), UNCHANGED held
  PROVE  \A d \in Callers \ {c} :
           /\ caller'[d] = caller[d] /\ (Works(d)' <=> Works(d))
           /\ \A s \in Slots : Holds(d, s)' <=> Holds(d, s)
<1>1. \A d \in Callers \ {c} : caller'[d] = caller[d]
  BY DEF OthersKept
<1>2. \A d \in Callers \ {c} : Works(d)' <=> Works(d)
  BY <1>1 DEF Works
<1> QED
  BY <1>1, <1>2 DEF Holds

LEMMA HeldSlots ==
  ASSUME TypeInv, NEW c \in Callers
  PROVE  /\ \A s \in held[c] : s \in Slots /\ Holds(c, s)
         /\ Works(c) => caller[c].slot \in Slots /\ Holds(c, caller[c].slot)
<1>1. \A s \in held[c] : s \in Slots
  BY DEF TypeInv, TypeOK
<1> QED
  BY <1>1 DEF Holds, Works, TypeInv, SlotKnown, CreateSteps, CloseSteps

\* No new holder of anything: still nothing has two.
LEMMA FewerHeld ==
  ASSUME Table, UNCHANGED opened,
         \A d \in Callers : \A s \in Slots : Holds(d, s)' => Holds(d, s),
         \A d \in Callers : Works(d)' => caller'[d].slot \notin held'[d]
  PROVE  OwnersApart'
  BY DEF Table, OwnersApart

\* Entries and threads that name each other as before.
LEMMA NamesKept ==
  ASSUME Table, UNCHANGED object,
         \A s \in Slots : /\ Naming(s)' <=> Naming(s)
                          /\ Naming(s) => slot'[s].handle = slot[s].handle
  PROVE  NamesOK'
<1>1. \A s \in Slots : Naming(s)' => object'[slot'[s].handle] = "thread"
  BY DEF Table, NamesOK
<1>2. \A s, t \in Slots : Naming(s)' /\ Naming(t)' /\ slot'[s].handle = slot'[t].handle => s = t
  BY DEF Table, NamesOK
<1>3. ASSUME NEW h \in Handles, object'[h] = "thread"
      PROVE  \E s \in Slots : Naming(s)' /\ slot'[s].handle = h
  <2>1. PICK s \in Slots : Naming(s) /\ slot[s].handle = h
    BY <1>3 DEF Table, NamesOK
  <2> QED
    BY <2>1
<1> QED
  BY <1>1, <1>2, <1>3 DEF NamesOK

\* Handles that name their threads as before.
LEMMA HandlesKept ==
  ASSUME Table, UNCHANGED <<object, opened>>,
         \A d \in Callers : \A s \in held'[d] : s \in held[d] /\ slot'[s].handle = slot[s].handle,
         \A d \in Callers : At(d, "close")' =>
             At(d, "close") /\ slot'[caller'[d].slot].handle = slot[caller[d].slot].handle
  PROVE  HandlesOK'
  BY DEF Table, HandlesOK, Thread

LEMMA TakeTable ==
  ASSUME TypeInv, Table, NEW c \in Callers, TakeSlot(c) PROVE Table'
<1> DEFINE s == caller[c].slot
<1>1. s \in Slots /\ caller[c].at = "take" /\ ~slot[s].signature
  BY DEF TakeSlot, At, TypeInv, TypeOK, SlotKnown, CreateSteps, Table, CreatorOK
<1>2. /\ caller'[c].at = "id" /\ caller'[c].slot = s /\ caller'[c].id = g_NextThreadId
      /\ OthersKept(c)
  BY DEF TakeSlot, OthersKept, TypeInv, TypeOK
<1>3. /\ slot'[s] = [FreeSlot EXCEPT !.signature = TRUE]
      /\ \A t \in Slots \ {s} : slot'[t] = slot[t]
  BY <1>1 DEF TakeSlot, TypeInv, TypeOK
<1>4. slot'[s].signature /\ slot'[s].id = 0 /\ slot'[s].handle = None
  BY <1>3 DEF FreeSlot
<1>5. UNCHANGED <<g_NextThreadId, held, object, opened>>
  BY DEF TakeSlot
<1>6. g_NextThreadId \in Nat /\ g_NextThreadId >= 1
  BY NativeCallsAssumption DEF NativeCallsAssumption, TypeInv, TypeOK
<1> HIDE DEF s
<1>7. \A d \in Callers : ~Holds(d, s)
  BY <1>1 DEF Table, OwnedSigned
<1>8. \A d \in Callers : \A t \in Slots : Holds(d, t)' <=> Holds(d, t) \/ (d = c /\ t = s)
  <2>1. ~Works(c) /\ Works(c)'
    BY <1>1, <1>2 DEF Works
  <2>2. \A t \in Slots : Holds(c, t)' <=> Holds(c, t) \/ t = s
    BY <1>2, <1>5, <2>1 DEF Holds
  <2> QED
    BY <1>2, <1>5, <2>2, OthersHold
<1>9. OwnersApart'
  <2>1. \A d, e \in Callers : \A t \in Slots : Holds(d, t)' /\ Holds(e, t)' => d = e
    BY <1>7, <1>8 DEF Table, OwnersApart
  <2>2. \A d \in Callers : Works(d)' => caller'[d].slot \notin held'[d]
    <3>1. s \notin held[c]
      BY <1>7 DEF Holds
    <3> QED
      BY <1>2, <1>5, <3>1, OthersHold DEF Table, OwnersApart
  <2> QED
    BY <1>5, <2>1, <2>2 DEF Table, OwnersApart
<1>10. OwnedSigned'
  BY <1>3, <1>4, <1>8 DEF Table, OwnedSigned
<1>11. CreatorOK'
  BY <1>1, <1>2, <1>4, <1>5 DEF Table, CreatorOK, At, CreateSteps, OthersKept
<1>12. HandlesOK'
  <2>1. \A d \in Callers : \A t \in held[d] : t # s /\ t \in Slots
    BY <1>7, HeldSlots
  <2>2. \A d \in Callers : At(d, "close") => caller[d].slot \in Slots \ {s}
    BY <1>7, HeldSlots DEF Works, At
  <2> QED
    BY <1>2, <1>3, <1>5, <2>1, <2>2 DEF Table, HandlesOK, At, Thread, OthersKept
<1>13. NamesOK'
  <2>1. \A t \in Slots : Closing(t)' <=> Closing(t)
    BY <1>1, <1>2 DEF Closing, At, OthersKept
  <2>2. \A t \in Slots : (Naming(t)' <=> Naming(t)) /\ (Naming(t) => t # s /\ slot'[t] = slot[t])
    BY <1>1, <1>3, <1>4, <2>1 DEF Naming
  <2> QED
    BY <1>5, <2>2 DEF Table, NamesOK
<1>14. IdsOK'
  <2>1. \A t \in Slots : slot'[t].signature => slot'[t].id < g_NextThreadId
    <3>1. \A t \in Slots \ {s} : slot'[t].signature => slot'[t].id < g_NextThreadId
      BY <1>3 DEF Table, IdsOK
    <3>2. slot'[s].id < g_NextThreadId
      BY <1>4, <1>6
    <3> QED
      BY <3>1, <3>2
  <2>2. \A t \in Slots : slot'[t].signature /\ slot'[t].id # 0 => t # s /\ slot'[t] = slot[t]
    BY <1>3, <1>4
  <2> QED
    BY <1>5, <2>1, <2>2 DEF Table, IdsOK
<1> QED
  BY <1>9, <1>10, <1>11, <1>12, <1>13, <1>14 DEF Table

LEMMA FindTable ==
  ASSUME TypeInv, Table, NEW c \in Callers, FindSlot(c), Clean'
  PROVE  Table'
<1> DEFINE free == {s \in Slots : ~slot[s].signature}
<1>1. free \in SUBSET Nat /\ free # {}
  BY DEF FindSlot, Slots
<1>2. Min(free) \in free
  BY <1>1, MinIn
<1> DEFINE m == Min(free)
<1>3. m \in Slots /\ ~slot[m].signature
  BY <1>2
<1>4. /\ caller[c].at = "idle" /\ caller'[c] = [at |-> "take", slot |-> m, id |-> 0]
      /\ OthersKept(c) /\ UNCHANGED <<slot, g_NextThreadId, held, object, opened>>
  BY DEF FindSlot, At, OthersKept, filter, TypeInv, TypeOK
<1> HIDE DEF free, m
<1>5. caller'[c].at = "take" /\ caller'[c].slot = m
  BY <1>4
<1>6. ~Works(c) /\ ~Works(c)'
  BY <1>4, <1>5 DEF Works
<1>7. \A d \in Callers : \A s \in Slots : Holds(d, s)' <=> Holds(d, s)
  BY <1>4, <1>6, OthersHold DEF Holds
<1>8. OwnersApart'
  BY <1>4, <1>6, <1>7, OthersHold, FewerHeld DEF Table, OwnersApart
<1>9. OwnedSigned'
  BY <1>4, <1>7 DEF Table, OwnedSigned
<1>10. CreatorOK'
  <2>1. \A d \in Callers : caller'[d].at \in CreateSteps => d = c
    BY <1>4 DEF FindSlot, Overlaps, OthersKept, CreateSteps, Clean
  <2> QED
    BY <1>3, <1>4, <1>5, <2>1 DEF CreatorOK, At, CreateSteps
<1>11. HandlesOK'
  BY <1>4, <1>5, HandlesKept DEF At, OthersKept
<1>12. NamesOK'
  <2>1. \A t \in Slots : Naming(t)' <=> Naming(t)
    BY <1>4, <1>5 DEF Naming, Closing, At, OthersKept
  <2> QED
    BY <1>4, <2>1, NamesKept
<1>13. IdsOK'
  BY <1>4 DEF Table, IdsOK
<1> QED
  BY <1>8, <1>9, <1>10, <1>11, <1>12, <1>13 DEF Table

LEMMA NumberTable ==
  ASSUME TypeInv, Table, NEW c \in Callers, NumberThread(c) PROVE Table'
<1> DEFINE s == caller[c].slot
<1> DEFINE g == g_NextThreadId
<1>1. /\ s \in Slots /\ caller[c].at = "id" /\ caller[c].id = g /\ Works(c) /\ Holds(c, s)
  BY HeldSlots DEF NumberThread, At, Works, Table, CreatorOK
<1>2. /\ caller'[c].at = "start" /\ caller'[c].slot = s /\ OthersKept(c) /\ Works(c)'
  BY DEF NumberThread, OthersKept, Works, TypeInv, TypeOK
<1>3. /\ slot'[s].signature = slot[s].signature /\ slot'[s].handle = slot[s].handle
      /\ slot'[s].id = g /\ \A t \in Slots \ {s} : slot'[t] = slot[t]
      /\ UNCHANGED <<held, object, opened>> /\ g_NextThreadId' = g + 1
  BY <1>1 DEF NumberThread, TypeInv, TypeOK
<1>4. g \in Nat /\ \A t \in Slots : slot[t].id \in Nat
  BY NativeCallsAssumption DEF NativeCallsAssumption, TypeInv, TypeOK
<1> HIDE DEF s, g
<1>5. \A d \in Callers : \A t \in Slots : Holds(d, t)' <=> Holds(d, t)
  <2>1. \A t \in Slots : Holds(c, t)' <=> Holds(c, t)
    BY <1>1, <1>2, <1>3 DEF Holds, s
  <2> QED
    BY <1>2, <1>3, <2>1, OthersHold
<1>6. \A t \in Slots : slot'[t].signature = slot[t].signature /\ slot'[t].handle = slot[t].handle
  BY <1>3
<1>7. OwnersApart'
  <2>1. \A d \in Callers : Works(d)' => caller'[d].slot \notin held'[d]
    BY <1>1, <1>2, <1>3, OthersHold DEF Table, OwnersApart, s
  <2> QED
    BY <1>3, <1>5, <2>1, FewerHeld
<1>8. OwnedSigned'
  BY <1>5, <1>6 DEF Table, OwnedSigned
<1>9. CreatorOK'
  <2>1. \A d \in Callers : caller'[d].at \in CreateSteps => d = c
    BY <1>1, <1>2 DEF Table, CreatorOK, CreateSteps, OthersKept
  <2>2. slot[s].handle = None
    BY <1>1 DEF Table, CreatorOK, At, s
  <2> QED
    BY <1>2, <1>3, <2>1, <2>2 DEF CreatorOK, At, CreateSteps
<1>10. HandlesOK'
  <2>1. \A d \in Callers : At(d, "close")' => At(d, "close") /\ caller'[d] = caller[d]
    BY <1>2 DEF At, OthersKept
  <2>2. \A d \in Callers : At(d, "close") => caller[d].slot \in Slots
    BY HeldSlots DEF At, Works
  <2> QED
    BY <1>3, <1>6, <2>1, <2>2, HeldSlots, HandlesKept
<1>11. NamesOK'
  <2>1. \A t \in Slots : Closing(t)' <=> Closing(t)
    BY <1>1, <1>2 DEF Closing, At, OthersKept
  <2>2. \A t \in Slots : Naming(t)' <=> Naming(t)
    BY <1>6, <2>1 DEF Naming
  <2> QED
    BY <1>3, <1>6, <2>2, NamesKept
<1>12. IdsOK'
  <2>1. \A t \in Slots \ {s} : slot'[t].signature => slot'[t].id < g
    BY <1>3 DEF Table, IdsOK, g
  <2>2. \A t \in Slots : slot'[t].signature => slot'[t].id < g + 1
    BY <1>3, <1>4, <2>1
  <2>3. \A t, u \in Slots : slot'[t].signature /\ slot'[u].signature /\ slot'[t].id = slot'[u].id
                             /\ slot'[t].id # 0 => t = u
    <3> SUFFICES ASSUME NEW t \in Slots, NEW u \in Slots, slot'[t].signature, slot'[u].signature,
                        slot'[t].id = slot'[u].id, slot'[t].id # 0
                 PROVE  t = u
      OBVIOUS
    <3>1. CASE t = s /\ u # s
      BY <1>3, <1>4, <2>1, <3>1
    <3>2. CASE t # s /\ u = s
      BY <1>3, <1>4, <2>1, <3>2
    <3>3. CASE t # s /\ u # s
      BY <1>3, <3>3 DEF Table, IdsOK
    <3> QED
      BY <3>1, <3>2, <3>3
  <2> QED
    BY <1>3, <2>2, <2>3 DEF IdsOK
<1> QED
  BY <1>7, <1>8, <1>9, <1>10, <1>11, <1>12 DEF Table

\* Where the creator is when it starts its thread.
LEMMA Starting ==
  ASSUME TypeInv, Table, NEW c \in Callers, NEW ok \in BOOLEAN, StartThread(c, ok)
  PROVE  /\ caller[c].slot \in Slots /\ caller[c].at = "start" /\ Works(c)
         /\ Holds(c, caller[c].slot) /\ caller[c].slot \notin held[c]
         /\ slot[caller[c].slot].signature /\ slot[caller[c].slot].handle = None
         /\ caller'[c].at = "idle" /\ ~Works(c)' /\ OthersKept(c)
         /\ UNCHANGED <<g_NextThreadId, opened>>
<1>1. /\ caller[c].slot \in Slots /\ caller[c].at = "start" /\ Works(c)
      /\ Holds(c, caller[c].slot)
  BY HeldSlots DEF StartThread, At, Works
<1>2. /\ caller[c].slot \notin held[c]
      /\ slot[caller[c].slot].signature /\ slot[caller[c].slot].handle = None
  BY <1>1 DEF Table, OwnersApart, OwnedSigned, CreatorOK, At
<1>3. caller' = [caller EXCEPT ![c] = Idle] /\ UNCHANGED <<g_NextThreadId, opened>>
  BY DEF StartThread
<1>4. caller'[c].at = "idle" /\ ~Works(c)' /\ OthersKept(c)
  BY <1>3 DEF Idle, Works, OthersKept, TypeInv, TypeOK
<1> QED
  BY <1>1, <1>2, <1>3, <1>4

LEMMA StartedTable ==
  ASSUME TypeInv, Table, NEW c \in Callers, StartThread(c, TRUE) PROVE Table'
<1>0. PICK s \in Slots : s = caller[c].slot
  BY Starting
<1> DEFINE h == Min(Unused)
<1>1. /\ s \in Slots /\ caller[c].at = "start" /\ Works(c) /\ Holds(c, s) /\ s \notin held[c]
      /\ slot[s].signature /\ slot[s].handle = None
      /\ caller'[c].at = "idle" /\ ~Works(c)' /\ OthersKept(c)
      /\ UNCHANGED <<g_NextThreadId, opened>>
  BY <1>0, Starting
<1>2. h \in Handles /\ object[h] = "nothing"
  <2>1. Unused \in SUBSET Nat /\ Unused # {}
    BY DEF StartThread, Unused, Handles
  <2>2. h \in Unused
    BY <2>1, MinIn
  <2> QED
    BY <2>2 DEF Unused
<1>3. /\ slot' = [slot EXCEPT ![s].handle = h] /\ object' = [object EXCEPT ![h] = "thread"]
      /\ held' = [held EXCEPT ![c] = @ \cup {s}]
  BY <1>0 DEF StartThread
<1> HIDE DEF h
<1>4. /\ slot'[s].handle = h /\ slot'[s].signature /\ slot'[s].id = slot[s].id
      /\ \A t \in Slots \ {s} : slot'[t] = slot[t]
      /\ object'[h] = "thread" /\ \A k \in Handles \ {h} : object'[k] = object[k]
      /\ held'[c] = held[c] \cup {s} /\ \A d \in Callers \ {c} : held'[d] = held[d]
  BY <1>1, <1>2, <1>3 DEF TypeInv, TypeOK
<1>5. h # None
  BY <1>2 DEF None, Handles
<1>6. \A d \in Callers : \A t \in Slots : Holds(d, t)' <=> Holds(d, t)
  <2>1. \A t \in Slots : Holds(c, t)' <=> Holds(c, t)
    BY <1>0, <1>1, <1>4 DEF Holds
  <2>2. \A d \in Callers \ {c} : \A t \in Slots : Holds(d, t)' <=> Holds(d, t)
    BY <1>1, <1>4 DEF Holds, OthersKept, Works
  <2> QED
    BY <2>1, <2>2
<1>7. OwnersApart'
  <2>1. \A d \in Callers : Works(d)' => d # c /\ caller'[d].slot \notin held'[d]
    BY <1>1, <1>4 DEF Table, OwnersApart, OthersKept, Works
  <2> QED
    BY <1>1, <1>6, <2>1, FewerHeld
<1>8. OwnedSigned'
  BY <1>1, <1>4, <1>6 DEF Table, OwnedSigned
<1>9. CreatorOK'
  <2>1. \A d \in Callers : caller'[d].at \notin CreateSteps
    BY <1>1 DEF Table, CreatorOK, OthersKept, CreateSteps
  <2> QED
    BY <2>1 DEF CreatorOK, CreateSteps, At
<1>10. HandlesOK'
  <2>1. ASSUME NEW t \in Slots, t # s, Thread(t) PROVE Thread(t)'
    BY <1>2, <1>4, <2>1 DEF Thread, TypeInv, TypeOK
  <2>2. Thread(s)'
    BY <1>4, <1>5 DEF Thread
  <2>3. ASSUME NEW d \in Callers, NEW t \in held'[d] PROVE Thread(t)'
    <3>1. t = s \/ t \in held[d]
      BY <1>4, <2>3
    <3>2. t \in held[d] => t \in Slots /\ Thread(t)
      BY HeldSlots DEF Table, HandlesOK
    <3> QED
      BY <2>1, <2>2, <3>1, <3>2
  <2>4. ASSUME NEW d \in Callers, At(d, "close")' PROVE Thread(caller[d].slot)' /\ caller'[d] = caller[d]
    <3>1. d # c /\ caller'[d] = caller[d] /\ At(d, "close") /\ Works(d)
      BY <1>1, <2>4 DEF At, OthersKept, Works
    <3>2. Thread(caller[d].slot) /\ caller[d].slot \in Slots /\ Holds(d, caller[d].slot)
      BY <3>1, HeldSlots DEF Table, HandlesOK
    <3>3. caller[d].slot # s
      BY <1>1, <3>1, <3>2 DEF Table, OwnersApart
    <3>4. slot'[caller[d].slot] = slot[caller[d].slot]
      BY <1>4, <3>2, <3>3
    <3>5. slot[caller[d].slot].handle \in Handles
      BY <3>2 DEF Thread, TypeInv, TypeOK
    <3> QED
      BY <1>2, <1>4, <3>1, <3>2, <3>4, <3>5 DEF Thread
  <2>5. \A d \in Callers : \A k \in opened'[d] : object'[k] = "file"
    BY <1>1, <1>2, <1>4 DEF Table, HandlesOK, TypeInv, TypeOK
  <2> QED
    BY <2>3, <2>4, <2>5 DEF HandlesOK, Thread
<1>11. NamesOK'
  <2>1. \A t \in Slots : Closing(t)' <=> Closing(t)
    BY <1>1 DEF Closing, At, OthersKept
  <2>2. ~Closing(s)
    <3>1. ASSUME NEW d \in Callers, At(d, "clear"), caller[d].slot = s PROVE FALSE
      <4>1. Holds(d, s) /\ d # c
        BY <1>1, <3>1 DEF Holds, Works, At
      <4> QED
        BY <1>1, <4>1 DEF Table, OwnersApart
    <3> QED
      BY <3>1 DEF Closing
  <2>3. Naming(s)' /\ ~Naming(s)
    BY <1>1, <1>4, <1>5, <2>1, <2>2 DEF Naming
  <2>4. \A t \in Slots \ {s} : Naming(t)' <=> Naming(t)
    BY <1>4, <2>1 DEF Naming
  <2>5. \A t \in Slots : Naming(t) => slot[t].handle \in Handles \ {h}
    BY <1>2 DEF Table, NamesOK, Naming, TypeInv, TypeOK
  <2>6. \A t \in Slots : Naming(t)' => object'[slot'[t].handle] = "thread"
    BY <1>4, <2>4, <2>5 DEF Table, NamesOK
  <2>7. \A t, u \in Slots : Naming(t)' /\ Naming(u)' /\ slot'[t].handle = slot'[u].handle => t = u
    BY <1>4, <2>4, <2>5 DEF Table, NamesOK
  <2>8. ASSUME NEW k \in Handles, object'[k] = "thread"
        PROVE  \E t \in Slots : Naming(t)' /\ slot'[t].handle = k
    <3>1. CASE k = h
      BY <1>1, <1>4, <2>3, <3>1
    <3>2. CASE k # h
      <4>1. PICK t \in Slots : Naming(t) /\ slot[t].handle = k
        BY <1>4, <2>8, <3>2 DEF Table, NamesOK
      <4> QED
        BY <1>4, <2>3, <2>4, <4>1
    <3> QED
      BY <3>1, <3>2
  <2> QED
    BY <2>6, <2>7, <2>8 DEF NamesOK
<1>12. IdsOK'
  <2>1. \A t \in Slots : slot'[t].id = slot[t].id /\ (slot'[t].signature <=> slot[t].signature)
    BY <1>1, <1>4
  <2> QED
    BY <1>1, <2>1 DEF Table, IdsOK
<1> QED
  BY <1>7, <1>8, <1>9, <1>10, <1>11, <1>12 DEF Table

\* Giving an entry back that names no thread: an error of CreateThread, or the end of
\* a termination.
LEMMA FreedTable ==
  ASSUME TypeInv, Table, NEW c \in Callers, Works(c), OthersKept(c), caller'[c].at = "idle",
         slot' = [slot EXCEPT ![caller[c].slot].signature = FALSE],
         ~Naming(caller[c].slot),
         UNCHANGED <<g_NextThreadId, held, object, opened>>
  PROVE  Table'
<1>0. PICK s \in Slots : s = caller[c].slot
  BY HeldSlots
<1>1. s \in Slots /\ Holds(c, s) /\ s \notin held[c] /\ ~Works(c)'
  BY <1>0, HeldSlots DEF Table, OwnersApart, Works
<1>2. /\ ~slot'[s].signature /\ slot'[s].handle = slot[s].handle
      /\ \A t \in Slots \ {s} : slot'[t] = slot[t]
  BY <1>0, <1>1 DEF TypeInv, TypeOK
<1>3. \A d \in Callers : \A t \in Slots : Holds(d, t)' => Holds(d, t) /\ t # s
  <2>1. \A t \in Slots : Holds(c, t)' => Holds(c, t) /\ t # s
    BY <1>0, <1>1 DEF Holds
  <2>2. \A d \in Callers \ {c} : ~Holds(d, s)
    BY <1>1 DEF Table, OwnersApart
  <2> QED
    BY <2>1, <2>2, OthersHold
<1>4. OwnersApart'
  <2>1. \A d \in Callers : Works(d)' => caller'[d].slot \notin held'[d]
    BY <1>1, OthersHold DEF Table, OwnersApart
  <2> QED
    BY <1>3, <2>1, FewerHeld
<1>5. OwnedSigned'
  BY <1>2, <1>3 DEF Table, OwnedSigned
<1>6. CreatorOK'
  <2>1. ASSUME NEW d \in Callers, caller'[d].at \in CreateSteps
        PROVE  caller'[d] = caller[d] /\ caller[d].slot \in Slots
    BY <2>1 DEF OthersKept, CreateSteps, TypeInv, SlotKnown
  <2>2. ASSUME NEW d \in Callers, At(d, "id")' \/ At(d, "start")'
        PROVE  caller'[d] = caller[d] /\ slot'[caller[d].slot] = slot[caller[d].slot]
    <3>1. caller'[d] = caller[d] /\ d # c /\ Works(d)
      BY <2>2 DEF OthersKept, At, Works
    <3>2. caller[d].slot \in Slots /\ caller[d].slot # s
      BY <1>1, <3>1, HeldSlots DEF Table, OwnersApart
    <3> QED
      BY <1>2, <3>1, <3>2
  <2>3. \A d \in Callers : At(d, "take")' => At(d, "take") /\ ~slot'[caller'[d].slot].signature
    BY <1>2, <2>1 DEF At, CreateSteps, Table, CreatorOK
  <2> QED
    BY <2>1, <2>2, <2>3 DEF Table, CreatorOK, At
<1>7. HandlesOK'
  <2>1. \A t \in Slots : slot'[t].handle = slot[t].handle
    BY <1>2
  <2>2. \A d \in Callers : At(d, "close")' =>
             At(d, "close") /\ caller'[d] = caller[d] /\ caller[d].slot \in Slots
    BY HeldSlots DEF At, OthersKept, Works
  <2> QED
    BY <2>1, <2>2, HeldSlots, HandlesKept
<1>8. NamesOK'
  <2>1. \A t \in Slots \ {s} : Closing(t)' <=> Closing(t)
    BY <1>0 DEF Closing, At, OthersKept
  <2>2. ~Naming(s)'
    BY <1>2 DEF Naming
  <2>3. \A t \in Slots : Naming(t)' <=> Naming(t)
    BY <1>0, <1>2, <2>1, <2>2 DEF Naming
  <2> QED
    BY <1>2, <2>3, NamesKept
<1>9. IdsOK'
  BY <1>2 DEF Table, IdsOK
<1> QED
  BY <1>4, <1>5, <1>6, <1>7, <1>8, <1>9 DEF Table

LEMMA StartTable ==
  ASSUME TypeInv, Table, NEW c \in Callers, NEW ok \in BOOLEAN, StartThread(c, ok)
  PROVE  Table'
<1>1. CASE ok
  BY <1>1, StartedTable
<1>2. CASE ~ok
  <2>1. ~Naming(caller[c].slot)
    BY Starting DEF Naming
  <2> QED
    BY <1>2, <2>1, Starting, FreedTable DEF StartThread
<1> QED
  BY <1>1, <1>2

LEMMA ClearTable == ASSUME TypeInv, Table, NEW c \in Callers, ClearSlot(c) PROVE Table'
<1>1. /\ Works(c) /\ OthersKept(c) /\ caller'[c].at = "idle"
      /\ ~Naming(caller[c].slot)
  BY DEF ClearSlot, At, Works, OthersKept, Idle, Naming, Closing, TypeInv, TypeOK
<1> QED
  BY <1>1, FreedTable DEF ClearSlot

LEMMA TerminateTable ==
  ASSUME TypeInv, Table, NEW c \in Callers, NEW s \in Slots, TerminateThread(c, s)
  PROVE  Table'
<1>1. /\ s \in held[c] /\ Holds(c, s) /\ caller[c].at = "idle" /\ ~Works(c)
  BY DEF TerminateThread, At, Holds, Works
<1>2. slot[s].signature /\ Thread(s)
  BY <1>1 DEF Table, OwnedSigned, HandlesOK
<1>3. /\ caller'[c] = [at |-> "close", slot |-> s, id |-> 0] /\ OthersKept(c)
      /\ held'[c] = held[c] \ {s} /\ \A d \in Callers \ {c} : held'[d] = held[d]
      /\ UNCHANGED <<slot, g_NextThreadId, object, opened>>
  BY <1>2 DEF TerminateThread, OthersKept, TypeInv, TypeOK
<1>4. caller'[c].at = "close" /\ caller'[c].slot = s /\ Works(c)'
  BY <1>3 DEF Works
<1>5. \A d \in Callers : \A t \in Slots : Holds(d, t)' <=> Holds(d, t)
  <2>1. \A t \in Slots : Holds(c, t)' <=> Holds(c, t)
    BY <1>1, <1>3, <1>4 DEF Holds
  <2>2. \A d \in Callers \ {c} : \A t \in Slots : Holds(d, t)' <=> Holds(d, t)
    BY <1>3 DEF Holds, OthersKept, Works
  <2> QED
    BY <2>1, <2>2
<1>6. OwnersApart'
  <2>1. \A d \in Callers : Works(d)' => caller'[d].slot \notin held'[d]
    BY <1>3, <1>4 DEF Table, OwnersApart, OthersKept, Works
  <2> QED
    BY <1>3, <1>5, <2>1, FewerHeld
<1>7. OwnedSigned'
  BY <1>3, <1>5 DEF Table, OwnedSigned
<1>8. CreatorOK'
  BY <1>3, <1>4 DEF Table, CreatorOK, CreateSteps, At, OthersKept
<1>9. HandlesOK'
  BY <1>2, <1>3, <1>4 DEF Table, HandlesOK, Thread, At, OthersKept
<1>10. NamesOK'
  <2>1. \A t \in Slots : Closing(t)' <=> Closing(t)
    BY <1>1, <1>3, <1>4 DEF Closing, At, OthersKept
  <2> QED
    BY <1>3, <2>1, NamesKept DEF Naming
<1>11. IdsOK'
  BY <1>3 DEF Table, IdsOK
<1> QED
  BY <1>6, <1>7, <1>8, <1>9, <1>10, <1>11 DEF Table

LEMMA CloseTable == ASSUME TypeInv, Table, NEW c \in Callers, CloseThread(c) PROVE Table'
<1>1. PICK s \in Slots : s = caller[c].slot
  BY HeldSlots DEF CloseThread, At, Works
<1>2. PICK h \in Handles : h = slot[s].handle /\ object[h] = "thread"
  BY <1>1 DEF CloseThread, At, Table, HandlesOK, Thread, TypeInv, TypeOK
<1>3. /\ caller[c].at = "close" /\ Works(c) /\ Holds(c, s) /\ s \notin held[c] /\ h # None
  BY <1>1, <1>2 DEF CloseThread, At, Works, Holds, Table, OwnersApart, Handles, None
<1>4. /\ caller'[c].at = "clear" /\ caller'[c].slot = s /\ OthersKept(c) /\ Works(c)'
  BY <1>1 DEF CloseThread, OthersKept, Works, TypeInv, TypeOK
<1>5. /\ object'[h] = "nothing" /\ \A k \in Handles \ {h} : object'[k] = object[k]
      /\ UNCHANGED <<slot, held, g_NextThreadId, opened>>
  BY <1>1, <1>2, <1>3 DEF CloseThread, threads, TypeInv, TypeOK
<1>6. Naming(s)
  BY <1>2, <1>3, OwnedNaming DEF At
<1>7. \A t \in Slots : Naming(t) /\ t # s => slot[t].handle \in Handles \ {h}
  BY <1>2, <1>6 DEF Table, NamesOK, Naming, TypeInv, TypeOK
<1>8. OwnersApart' /\ OwnedSigned'
  <2>1. \A t \in Slots : Holds(c, t)' <=> Holds(c, t)
    BY <1>1, <1>3, <1>4, <1>5 DEF Holds
  <2>2. \A d \in Callers : \A t \in Slots : Holds(d, t)' <=> Holds(d, t)
    BY <1>4, <1>5, <2>1, OthersHold
  <2>3. \A d \in Callers : Works(d)' => caller'[d].slot \notin held'[d]
    BY <1>3, <1>4, <1>5, OthersHold DEF Table, OwnersApart
  <2> QED
    BY <1>5, <2>2, <2>3, FewerHeld DEF Table, OwnedSigned
<1>9. CreatorOK'
  BY <1>4, <1>5 DEF Table, CreatorOK, CreateSteps, At, OthersKept
<1>10. ASSUME NEW t \in Slots, Thread(t), Naming(t), t # s PROVE Thread(t)'
  BY <1>5, <1>7, <1>10 DEF Thread
<1>11. HandlesOK'
  <2>1. ASSUME NEW d \in Callers, NEW t \in held'[d] PROVE Thread(t)'
    <3>1. t \in held[d] /\ t \in Slots /\ Thread(t) /\ Holds(d, t)
      BY <1>5, <2>1, HeldSlots DEF Table, HandlesOK
    <3>2. t # s
      BY <1>3, <3>1 DEF Table, OwnersApart
    <3>3. Naming(t)
      BY <3>1, OwnedNaming DEF Thread
    <3> QED
      BY <1>10, <3>1, <3>2, <3>3
  <2>2. ASSUME NEW d \in Callers, At(d, "close")'
        PROVE  Thread(caller[d].slot)' /\ caller'[d] = caller[d]
    <3>1. d # c /\ caller'[d] = caller[d] /\ At(d, "close") /\ ~At(d, "clear")
      BY <1>4, <2>2 DEF At, OthersKept
    <3>2. PICK t \in Slots : t = caller[d].slot
      BY <3>1, HeldSlots DEF At, Works
    <3>3. Thread(t) /\ Holds(d, t)
      BY <3>1, <3>2 DEF Table, HandlesOK, Holds, Works, At
    <3>4. t # s
      BY <1>3, <3>1, <3>3 DEF Table, OwnersApart
    <3>5. Naming(t)
      BY <3>1, <3>3, OwnedNaming DEF Thread
    <3>6. Thread(t)'
      BY <1>10, <3>3, <3>4, <3>5
    <3> QED
      BY <1>5, <3>1, <3>2, <3>6 DEF Thread
  <2>3. \A d \in Callers : \A k \in opened'[d] : object'[k] = "file"
    BY <1>2, <1>5 DEF Table, HandlesOK, TypeInv, TypeOK
  <2> QED
    BY <2>1, <2>2, <2>3 DEF HandlesOK, Thread
<1>12. NamesOK'
  <2>1. ~Naming(s)'
    BY <1>4 DEF Naming, Closing, At
  <2>2. \A t \in Slots \ {s} : Closing(t)' <=> Closing(t)
    BY <1>3, <1>4 DEF Closing, At, OthersKept
  <2>3. \A t \in Slots \ {s} : Naming(t)' <=> Naming(t)
    BY <1>5, <2>2 DEF Naming
  <2>4. \A t \in Slots : Naming(t)' => object'[slot'[t].handle] = "thread"
    BY <1>5, <1>7, <2>1, <2>3 DEF Table, NamesOK
  <2>5. \A t, u \in Slots : Naming(t)' /\ Naming(u)' /\ slot'[t].handle = slot'[u].handle => t = u
    BY <1>5, <2>1, <2>3 DEF Table, NamesOK
  <2>6. ASSUME NEW k \in Handles, object'[k] = "thread"
        PROVE  \E t \in Slots : Naming(t)' /\ slot'[t].handle = k
    <3>1. k # h /\ object[k] = "thread"
      BY <1>5, <2>6
    <3>2. PICK t \in Slots : Naming(t) /\ slot[t].handle = k
      BY <3>1 DEF Table, NamesOK
    <3> QED
      BY <1>2, <1>5, <2>3, <3>1, <3>2
  <2> QED
    BY <2>4, <2>5, <2>6 DEF NamesOK
<1>13. IdsOK'
  BY <1>5 DEF Table, IdsOK
<1> QED
  BY <1>8, <1>9, <1>11, <1>12, <1>13 DEF Table

\* A step that changes no entry and no thread.
LEMMA EntriesKept ==
  ASSUME TypeInv, Table, UNCHANGED <<slot, held, g_NextThreadId>>,
         \A d \in Callers : caller'[d] = caller[d]
             \/ ({caller[d].at, caller'[d].at} \cap (CreateSteps \cup CloseSteps) = {}),
         \A h \in Handles : object'[h] = "thread" <=> object[h] = "thread",
         \A d \in Callers : \A h \in opened'[d] : h \in Handles /\ object'[h] = "file",
         \A d, e \in Callers : \A h \in Handles : h \in opened'[d] /\ h \in opened'[e] => d = e
  PROVE  Table'
<1>1. \A d \in Callers : \/ caller'[d] = caller[d]
                         \/ /\ caller[d].at \notin CreateSteps \cup CloseSteps
                            /\ caller'[d].at \notin CreateSteps \cup CloseSteps
  OBVIOUS
<1>2. \A d \in Callers : Works(d)' <=> Works(d)
  BY <1>1 DEF Works, CreateSteps, CloseSteps
<1>3. \A d \in Callers : Works(d) => caller'[d] = caller[d]
  BY <1>1 DEF Works, CreateSteps, CloseSteps
<1>4. \A d \in Callers : \A t \in Slots : Holds(d, t)' <=> Holds(d, t)
  BY <1>2, <1>3 DEF Holds
<1>5. OwnersApart' /\ OwnedSigned'
  BY <1>2, <1>3, <1>4 DEF Table, OwnersApart, OwnedSigned
<1>6. CreatorOK'
  BY <1>1 DEF Table, CreatorOK, CreateSteps, CloseSteps, At
<1>7. \A t \in Slots : slot[t].handle \in Handles \/ slot[t].handle = None
  BY DEF TypeInv, TypeOK
<1>8. HandlesOK'
  <2>1. \A t \in Slots : Thread(t)' <=> Thread(t)
    BY <1>7 DEF Thread
  <2>2. \A d \in Callers : At(d, "close")' => At(d, "close") /\ caller'[d] = caller[d]
    BY <1>1 DEF At, CreateSteps, CloseSteps
  <2>3. \A d \in Callers : At(d, "close") => Thread(caller[d].slot) /\ caller[d].slot \in Slots
    BY HeldSlots DEF Table, HandlesOK, At, Works
  <2>4. \A d \in Callers : \A t \in held'[d] : Thread(t)'
    BY <2>1, HeldSlots DEF Table, HandlesOK
  <2>5. ASSUME NEW d \in Callers, At(d, "close")'
        PROVE  slot'[caller'[d].slot].handle # None /\ object'[slot'[caller'[d].slot].handle] = "thread"
    <3>1. PICK t \in Slots : t = caller[d].slot /\ t = caller'[d].slot
      BY <2>2, <2>3, <2>5
    <3>2. Thread(t)'
      BY <2>1, <2>2, <2>3, <2>5, <3>1
    <3> QED
      BY <3>1, <3>2 DEF Thread
  <2> QED
    BY <2>4, <2>5 DEF HandlesOK, Thread
<1>9. NamesOK'
  <2>1. \A t \in Slots : Closing(t)' <=> Closing(t)
    BY <1>1 DEF Closing, At, CreateSteps, CloseSteps
  <2>2. \A t \in Slots : Naming(t)' <=> Naming(t)
    BY <2>1 DEF Naming
  <2> QED
    BY <1>7, <2>2 DEF Table, NamesOK, Naming
<1>10. IdsOK'
  BY DEF Table, IdsOK
<1> QED
  BY <1>5, <1>6, <1>8, <1>9, <1>10 DEF Table

\* A restart without a thread in the table changes nothing that anyone has.
LEMMA KernelTable ==
  ASSUME TypeInv, Table, Clean', NEW c \in Callers, InitializeKernel(c) PROVE Table'
<1>1. /\ UNCHANGED <<g_NextThreadId, held, object, caller, opened>>
      /\ \A s \in Slots : ~slot[s].signature
      /\ \A s \in Slots : slot'[s] = FreeSlot
  BY DEF InitializeKernel, Clean
<1>2. \A s \in Slots : ~slot'[s].signature /\ slot'[s].handle = None
  BY <1>1 DEF FreeSlot
<1>3. \A d \in Callers : \A s \in Slots : ~Holds(d, s)
  BY <1>1 DEF Table, OwnedSigned
<1>4. \A d \in Callers : ~Works(d) /\ held[d] = {}
  BY <1>3, HeldSlots
<1>5. OwnersApart'
  BY <1>1 DEF Table, OwnersApart, Holds, Works
<1>6. OwnedSigned'
  BY <1>1, <1>3 DEF OwnedSigned, Holds, Works
<1>7. CreatorOK'
  <2>1. \A d \in Callers : At(d, "take") => caller[d].slot \in Slots
    BY DEF At, TypeInv, SlotKnown, CreateSteps
  <2>2. \A d \in Callers : ~At(d, "id") /\ ~At(d, "start")
    BY <1>4 DEF Works, At
  <2> QED
    BY <1>1, <1>2, <2>1, <2>2 DEF Table, CreatorOK, At
<1>8. HandlesOK'
  BY <1>1, <1>4 DEF Table, HandlesOK, Works, At
<1>9. NamesOK'
  <2>1. \A h \in Handles : object[h] # "thread"
    BY <1>1 DEF Table, NamesOK, Naming
  <2> QED
    BY <1>1, <1>2, <2>1 DEF NamesOK, Naming
<1>10. IdsOK'
  BY <1>2 DEF IdsOK
<1> QED
  BY <1>5, <1>6, <1>7, <1>8, <1>9, <1>10 DEF Table

\* What is opened and closed is a file of its caller, never a thread.
LEMMA CallTable ==
  ASSUME TypeInv, Table, Clean', NEW c \in Callers, NEW number, NTOS2NDHandleSyscall(c, number)
  PROVE  Table'
<1>1. UNCHANGED <<slot, held, g_NextThreadId, caller>>
  BY DEF NTOS2NDHandleSyscall, threads
<1>2. /\ \A d \in Callers : \A k \in opened[d] : k \in Handles /\ object[k] = "file"
      /\ \A d, e \in Callers : \A k \in Handles : k \in opened[d] /\ k \in opened[e] => d = e
  BY DEF Table, HandlesOK, OwnersApart, TypeInv, TypeOK
<1>3. CASE UNCHANGED <<object, opened>>
  BY <1>1, <1>2, <1>3, EntriesKept
<1>4. CASE OpenObject(c)
  <2>1. Unused \in SUBSET Nat /\ Unused # {}
    BY <1>4 DEF OpenObject, Unused, Handles
  <2>2. PICK h \in Unused : h = Min(Unused)
    BY <2>1, MinIn
  <2>3. h \in Handles /\ object[h] = "nothing"
    BY DEF Unused
  <2>4. /\ object'[h] = "file" /\ \A k \in Handles \ {h} : object'[k] = object[k]
        /\ opened'[c] = opened[c] \cup {h} /\ \A d \in Callers \ {c} : opened'[d] = opened[d]
    BY <1>4, <2>2, <2>3 DEF OpenObject, TypeInv, TypeOK
  <2>5. \A d \in Callers : \A k \in opened[d] : k # h
    BY <1>2, <2>3
  <2>6. \A k \in Handles : object'[k] = "thread" <=> object[k] = "thread"
    BY <2>3, <2>4
  <2>7. \A d \in Callers : \A k \in opened'[d] : k \in Handles /\ object'[k] = "file"
    BY <1>2, <2>3, <2>4, <2>5
  <2>8. \A d, e \in Callers : \A k \in Handles : k \in opened'[d] /\ k \in opened'[e] => d = e
    BY <1>2, <2>4, <2>5
  <2> QED
    BY <1>1, <2>6, <2>7, <2>8, EntriesKept
<1>5. CASE CloseObject(c)
  <2>1. PICK h \in Handles : /\ object' = [object EXCEPT ![h] = "nothing"]
                             /\ opened' = [opened EXCEPT ![c] = @ \ {h}]
                             /\ clash' = IF object[h] # "nothing" /\ h \notin opened[c]
                                         THEN clash \cup {"close"} ELSE clash
    BY <1>5 DEF CloseObject
  <2>2. object[h] # "thread" /\ \A d \in Callers \ {c} : h \notin opened[d]
    <3>1. CASE object[h] = "nothing"
      BY <1>2, <3>1
    <3>2. CASE h \in opened[c]
      BY <1>2, <3>2
    <3>3. "close" \notin clash'
      BY DEF Clean
    <3> QED
      BY <2>1, <3>1, <3>2, <3>3
  <2>3. /\ object'[h] = "nothing" /\ \A k \in Handles \ {h} : object'[k] = object[k]
        /\ opened'[c] = opened[c] \ {h} /\ \A d \in Callers \ {c} : opened'[d] = opened[d]
    BY <2>1, <2>2 DEF TypeInv, TypeOK
  <2>4. \A k \in Handles : object'[k] = "thread" <=> object[k] = "thread"
    BY <2>2, <2>3
  <2>5. \A d \in Callers : h \notin opened'[d]
    BY <1>2, <2>2, <2>3
  <2>6. \A d \in Callers : \A k \in opened'[d] : k \in opened[d]
    BY <2>3
  <2>7. \A d \in Callers : \A k \in opened'[d] : k \in Handles /\ object'[k] = "file"
    BY <1>2, <2>3, <2>5, <2>6
  <2> QED
    BY <1>1, <1>2, <2>4, <2>6, <2>7, EntriesKept
<1> QED
  BY <1>3, <1>4, <1>5 DEF NTOS2NDHandleSyscall

LEMMA FilterTable ==
  ASSUME TypeInv, Table, NEW c \in Callers,
         \/ \E number \in Nat : FilterSyscall(c, number)
         \/ CountSyscall(c)
         \/ \E filtering \in BOOLEAN : ZeroSandbox(c, filtering)
  PROVE  Table'
<1>1. /\ UNCHANGED <<slot, held, g_NextThreadId, object, opened>>
      /\ \A d \in Callers : d # c => caller'[d] = caller[d]
  BY DEF FilterSyscall, CountSyscall, ZeroSandbox, threads, TypeInv, TypeOK
<1>2. \/ caller'[c] = caller[c]
      \/ /\ caller[c].at \notin CreateSteps \cup CloseSteps
         /\ caller'[c].at \notin CreateSteps \cup CloseSteps
  BY DEF FilterSyscall, CountSyscall, ZeroSandbox, At, Idle, CreateSteps, CloseSteps, TypeInv, TypeOK
<1>3. \A d \in Callers : caller'[d] = caller[d]
          \/ ({caller[d].at, caller'[d].at} \cap (CreateSteps \cup CloseSteps) = {})
  BY <1>1, <1>2
<1>4. /\ \A d \in Callers : \A k \in opened[d] : k \in Handles /\ object[k] = "file"
      /\ \A d, e \in Callers : \A k \in Handles : k \in opened[d] /\ k \in opened[e] => d = e
  BY DEF Table, HandlesOK, OwnersApart, TypeInv, TypeOK
<1> QED
  BY <1>1, <1>3, <1>4, EntriesKept

LEMMA NextTable == TypeInv /\ TableInv /\ [Next]_vars => TableInv'
<1> SUFFICES ASSUME TypeInv, TableInv, [Next]_vars, Clean' PROVE Table'
  BY DEF TableInv
<1>1. Clean
  <2>1. ASSUME NEW c \in Callers, ThreadStep(c) PROVE Clean
    BY <2>1 DEF ThreadStep, FindSlot, TakeSlot, NumberThread, StartThread, Overlaps,
                TerminateThread, CloseThread, ClearSlot, Clean
  <2>2. ASSUME NEW c \in Callers, KernelCall(c) \/ NtWrap(c) PROVE Clean
    BY <2>2 DEF KernelCall, NtWrap, NTOS2NDHandleSyscall, CloseObject, Clean
  <2>3. ASSUME NEW c \in Callers, NEW number, FilterSyscall(c, number) PROVE Clean
    BY <2>3 DEF FilterSyscall, Overlaps, Clean
  <2>4. ASSUME NEW c \in Callers, CountSyscall(c) PROVE Clean
    BY <2>4 DEF CountSyscall, Clean
  <2>5. ASSUME NEW c \in Callers, InitializeSandbox(c) \/ ShutdownSandbox(c)
        PROVE  Clean
    BY <2>5 DEF InitializeSandbox, ShutdownSandbox, ZeroSandbox, Overlaps, Clean
  <2>6. CASE UNCHANGED vars
    BY <2>6 DEF vars, Clean
  <2>7. ASSUME NEW c \in Callers, InitializeKernel(c) PROVE Clean
    BY <2>7 DEF InitializeKernel, Clean
  <2> QED
    BY <2>1, <2>2, <2>3, <2>4, <2>5, <2>6, <2>7 DEF Next, ThreadStep
<1>2. Table
  BY <1>1 DEF TableInv
<1>3. ASSUME UNCHANGED vars PROVE Table'
  <2>1. /\ \A d \in Callers : \A k \in opened[d] : k \in Handles /\ object[k] = "file"
        /\ \A d, e \in Callers : \A k \in Handles : k \in opened[d] /\ k \in opened[e] => d = e
    BY <1>2 DEF Table, HandlesOK, OwnersApart, TypeInv, TypeOK
  <2> QED
    BY <1>2, <1>3, <2>1, EntriesKept DEF vars, threads
<1>4. ASSUME NEW c \in Callers, ThreadStep(c) PROVE Table'
  BY <1>2, <1>4, FindTable, TakeTable, NumberTable, StartTable, TerminateTable, CloseTable,
     ClearTable DEF ThreadStep
<1>5. ASSUME NEW c \in Callers, KernelCall(c) \/ NtWrap(c) PROVE Table'
  BY <1>2, <1>5, CallTable DEF KernelCall, NtWrap
<1>6. ASSUME NEW c \in Callers, InitializeSandbox(c) \/ ShutdownSandbox(c) PROVE Table'
  BY <1>2, <1>6, FilterTable DEF InitializeSandbox, ShutdownSandbox
<1>7. ASSUME NEW c \in Callers, CountSyscall(c) PROVE Table'
  BY <1>2, <1>7, FilterTable
<1>8. ASSUME NEW c \in Callers,
             NEW number \in {SYSCALL.NtClose, SYSCALL.NtOpenProcess}, FilterSyscall(c, number)
      PROVE  Table'
  <2>1. number \in Nat
    BY DEF SYSCALL
  <2> QED
    BY <1>2, <1>8, <2>1, FilterTable
<1>9. ASSUME NEW c \in Callers, InitializeKernel(c) PROVE Table'
  BY <1>2, <1>9, KernelTable
<1> QED
  BY <1>3, <1>4, <1>5, <1>6, <1>7, <1>8, <1>9 DEF Next, ThreadStep

LEMMA InitTable == Init => TableInv
<1> SUFFICES ASSUME Init PROVE Table
  BY DEF TableInv
<1>1. /\ \A c \in Callers : caller[c].at = "idle" /\ held[c] = {} /\ opened[c] = {}
      /\ \A s \in Slots : ~slot[s].signature
      /\ \A h \in Handles : object[h] = "nothing"
  BY DEF Init, Idle, FreeSlot
<1>2. \A c \in Callers : \A s \in Slots : ~Holds(c, s)
  BY <1>1 DEF Holds, Works
<1>3. OwnersApart /\ OwnedSigned
  BY <1>1, <1>2 DEF OwnersApart, OwnedSigned, Works
<1>4. CreatorOK /\ HandlesOK
  BY <1>1 DEF CreatorOK, CreateSteps, HandlesOK, At
<1>5. NamesOK /\ IdsOK
  BY <1>1 DEF NamesOK, Naming, IdsOK
<1> QED
  BY <1>3, <1>4, <1>5 DEF Table

LEMMA TableMeans == TypeInv /\ TableInv => LostOnlyByClash
<1> SUFFICES ASSUME TypeInv, Table PROVE
        /\ \A h \in Handles : object[h] = "thread" =>
             Cardinality({s \in Slots : slot[s].signature /\ slot[s].handle = h
                                                          /\ ~Closing(s)}) = 1
        /\ \A c \in Callers : \A s \in held[c] :
             slot[s].signature /\ slot[s].handle # None
                               /\ object[slot[s].handle] = "thread"
        /\ \A s, t \in Slots :
             slot[s].signature /\ slot[t].signature /\ slot[s].id = slot[t].id
                               /\ slot[s].id # 0 => s = t
        /\ \A c \in Callers : \A h \in opened[c] : object[h] = "file"
  BY DEF TableInv, Clean, LostOnlyByClash
<1>1. ASSUME NEW h \in Handles, object[h] = "thread"
      PROVE  Cardinality({s \in Slots : slot[s].signature /\ slot[s].handle = h
                                                          /\ ~Closing(s)}) = 1
  <2>1. PICK s \in Slots : Naming(s) /\ slot[s].handle = h
    BY <1>1 DEF Table, NamesOK
  <2>2. h # None
    BY DEF Handles, None
  <2>3. {t \in Slots : slot[t].signature /\ slot[t].handle = h /\ ~Closing(t)} = {s}
    BY <2>1, <2>2 DEF Table, NamesOK, Naming
  <2> QED
    BY <2>3, FS_Singleton
<1>2. ASSUME NEW c \in Callers, NEW s \in held[c]
      PROVE  slot[s].signature /\ slot[s].handle # None /\ object[slot[s].handle] = "thread"
  BY HeldSlots DEF Table, OwnedSigned, HandlesOK, Thread
<1> QED
  BY <1>1, <1>2 DEF Table, IdsOK, HandlesOK

\* As long as no two creations have overlapped, no restart has zeroed a live thread's
\* entry and nobody has closed another's handle, entries and threads are one to one,
\* and what a creation returned names a thread, in the midst of any calls of the others.
THEOREM ThreadsFound == Spec => []LostOnlyByClash
  BY InitType, NextType, InitTable, NextTable, TableMeans, PTL DEF Spec
=============================================================================
