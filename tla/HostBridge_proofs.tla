-------------------------- MODULE HostBridge_proofs --------------------------
(***************************************************************************)
(* Theorems about the host, for every machine and any number of names,     *)
(* implementations, registry entries and processes.                        *)
(***************************************************************************)
EXTENDS HostBridge, TLAPS

Entry == {NoBridge} \cup [name : Apis, impl : Impls]

LEMMA ZeroedType ==
  ASSUME NEW b \in Seq(Entry)
  PROVE  Zeroed(b) \in Seq(Entry) /\ Len(Zeroed(b)) = Len(b)
<1>1. NoBridge \in Entry
  BY DEF Entry
<1> QED
  <2> HIDE DEF Entry
  <2> QED
    BY <1>1 DEF Zeroed

\* The types, with the entries by their name.
LEMMA Types ==
  TypeOK => /\ bridges \in Seq(Entry) /\ Len(bridges) \in Nat
            /\ Zeroed(bridges) \in Seq(Entry) /\ Len(Zeroed(bridges)) = Len(bridges)
            /\ processes \in Nat /\ MaxProcesses \in Nat /\ MaxBridges \in Nat
<1> SUFFICES ASSUME TypeOK PROVE
        /\ bridges \in Seq(Entry) /\ Len(bridges) \in Nat
        /\ Zeroed(bridges) \in Seq(Entry) /\ Len(Zeroed(bridges)) = Len(bridges)
        /\ processes \in Nat /\ MaxProcesses \in Nat /\ MaxBridges \in Nat
  OBVIOUS
<1>1. bridges \in Seq(Entry)
  BY DEF TypeOK, Entry
<1>2. Zeroed(bridges) \in Seq(Entry) /\ Len(Zeroed(bridges)) = Len(bridges)
  BY <1>1, ZeroedType
<1> QED
  BY <1>1, <1>2, HostBridgeAssumption DEF HostBridgeAssumption, TypeOK

-----------------------------------------------------------------------------
LEMMA InitType == Init => TypeOK
<1> SUFFICES ASSUME Init PROVE TypeOK
  OBVIOUS
<1>1. bridges \in Seq({NoBridge} \cup [name : Apis, impl : Impls]) /\ Len(bridges) = 0
  BY DEF Init
<1>2. processes \in 0..MaxProcesses /\ Len(bridges) <= MaxBridges
  BY <1>1, HostBridgeAssumption DEF HostBridgeAssumption, Init
<1> QED
  BY <1>1, <1>2 DEF Init, TypeOK

LEMMA NextType == TypeOK /\ [Next]_vars => TypeOK'
<1> SUFFICES ASSUME TypeOK, [Next]_vars PROVE TypeOK'
  OBVIOUS
<1>t. /\ bridges \in Seq(Entry) /\ Len(bridges) \in Nat
      /\ Zeroed(bridges) \in Seq(Entry) /\ Len(Zeroed(bridges)) = Len(bridges)
      /\ processes \in Nat /\ MaxProcesses \in Nat /\ MaxBridges \in Nat
  BY Types
<1>b. ASSUME bridges' \in Seq(Entry), Len(bridges') <= MaxBridges
      PROVE  /\ bridges' \in Seq({NoBridge} \cup [name : Apis, impl : Impls])
             /\ Len(bridges') <= MaxBridges
  BY <1>b DEF Entry
<1>1. CASE Initialize
  <2>1. bridges' \in Seq(Entry) /\ Len(bridges') <= MaxBridges
    BY <1>1, <1>t DEF Initialize, TypeOK
  <2>2. FoundApis \subseteq Apis /\ FoundUndocs \subseteq Undocs
    BY DEF FoundApis, FoundUndocs
  <2>3. /\ address' \subseteq Apis /\ undocAddress' \subseteq Undocs
        /\ undocModule' \in BOOLEAN
    <3>1. UndocStarts \in BOOLEAN
      BY DEF UndocStarts
    <3>2. CASE BridgeStarts
      BY <1>1, <2>2, <3>1, <3>2 DEF Initialize, PartsResolved, TypeOK
    <3>3. CASE ~BridgeStarts
      BY <1>1, <3>3 DEF Initialize, PartsResolved, TypeOK
    <3> QED
      BY <3>2, <3>3
  <2>4. /\ kernelUp' \in BOOLEAN /\ running' \in BOOLEAN /\ processes' \in 0..MaxProcesses
    BY <1>1, <1>t DEF Initialize, BridgeStarts, TypeOK
  <2> QED
    BY <1>1, <1>b, <2>1, <2>3, <2>4 DEF Initialize, machine, TypeOK
<1>2. CASE Shutdown
  <2>1. bridges' \in Seq({NoBridge} \cup [name : Apis, impl : Impls]) /\ Len(bridges') <= MaxBridges
    BY <1>2 DEF Shutdown, TypeOK
  <2> QED
    <3>1. processes' \in 0..MaxProcesses
      BY <1>2, <1>t DEF Shutdown
    <3>2. kernelUp' \in BOOLEAN /\ running' \in BOOLEAN /\ address' \subseteq Apis
      BY <1>2 DEF Shutdown
    <3> QED
      BY <1>2, <2>1, <3>1, <3>2 DEF Shutdown, machine, undoc, TypeOK
<1>3. CASE RunProgram
  BY <1>3, <1>t DEF RunProgram, machine, bridge, undoc, TypeOK
<1>4. CASE EndProgram
  BY <1>4, <1>t DEF EndProgram, machine, bridge, undoc, TypeOK
<1>5. CASE InitializeUndocumentedAPI
  BY <1>5 DEF InitializeUndocumentedAPI, UndocStarts, FoundUndocs, machine, bridge, TypeOK
<1>6. ASSUME NEW n \in Apis, InstallHotPatch(n) PROVE TypeOK'
  BY <1>6 DEF InstallHotPatch, machine, undoc, TypeOK
<1>7. ASSUME NEW n \in Apis, RemoveHotPatch(n) PROVE TypeOK'
  BY <1>7 DEF RemoveHotPatch, machine, undoc, TypeOK
<1>8. ASSUME NEW n \in Apis, NEW impl \in Impls, RegisterAPI(n, impl) PROVE TypeOK'
  <2>1. [name |-> n, impl |-> impl] \in Entry
    BY DEF Entry
  <2>2. bridges' \in Seq(Entry) /\ Len(bridges') <= MaxBridges
    <3> HIDE DEF Entry
    <3> QED
      BY <1>8, <1>t, <2>1 DEF RegisterAPI
  <2> QED
    BY <1>8, <1>b, <2>2 DEF RegisterAPI, machine, bridge, undoc, TypeOK
<1>9. ASSUME NEW n, ResolveUndocumentedAPI(n) PROVE TypeOK'
  <2>1. undocAddress' \subseteq Undocs
    BY <1>9 DEF ResolveUndocumentedAPI, Resolvable, TypeOK
  <2> QED
    BY <1>9, <2>1 DEF ResolveUndocumentedAPI, machine, bridge, TypeOK
<1>10. ASSUME NEW dll \in Dlls, ResolveDynamicAPI(dll) PROVE TypeOK'
  <2>1. loaded' \subseteq Dlls
    BY <1>10 DEF ResolveDynamicAPI, TypeOK
  <2> QED
    BY <1>10, <2>1 DEF ResolveDynamicAPI, bridge, undoc, TypeOK
<1>11. CASE UNCHANGED vars
  BY <1>11 DEF vars, machine, bridge, undoc, TypeOK
<1> QED
  BY <1>1, <1>2, <1>3, <1>4, <1>5, <1>6, <1>7, <1>8, <1>9, <1>10, <1>11 DEF Next

\* Every reachable state of the host is well typed.
THEOREM TypeCorrect == Spec => []TypeOK
<1> QED
  BY InitType, NextType, PTL DEF Spec

-----------------------------------------------------------------------------
\* Without the host the bridge has no address, and the host runs on no machine on
\* which its bridge does not start.  The undocumented layer knows nothing but what
\* ntdll has, and all of it once it has found ntdll.
BridgeInv ==
  /\ ReadyWhenRunning
  /\ ~running => address = {}
  /\ running => BridgeStarts
  /\ undocAddress \subseteq FoundUndocs
  /\ undocAddress # {} => undocModule
  /\ undocModule => UndocStarts /\ undocAddress = FoundUndocs

LEMMA NextBridge == TypeOK /\ BridgeInv /\ [Next]_vars => BridgeInv'
<1> SUFFICES ASSUME TypeOK, BridgeInv, [Next]_vars PROVE BridgeInv'
  OBVIOUS
<1> USE DEF BridgeInv, ReadyWhenRunning, machine, bridge, undoc
<1>t. processes \in Nat
  BY Types
<1>f. UNCHANGED machine => FoundApis' = FoundApis /\ FoundUndocs' = FoundUndocs
  BY DEF FoundApis, FoundUndocs
<1>s. UNCHANGED machine => BridgeStarts' = BridgeStarts /\ UndocStarts' = UndocStarts
  BY DEF BridgeStarts, UndocStarts
<1>u. BridgeStarts => UndocStarts
  BY DEF BridgeStarts, UndocStarts, Dlls
<1>1. CASE Initialize
  <2>1. CASE BridgeStarts
    <3>1. undocModule' = TRUE /\ undocAddress' = FoundUndocs
      BY <1>1, <2>1, <1>u DEF Initialize, PartsResolved, UndocStarts
    <3>2. kernelUp' = TRUE /\ running' = TRUE /\ address' = FoundApis
      BY <1>1, <2>1 DEF Initialize, PartsResolved, BridgeStarts
    <3>3. UNCHANGED machine
      BY <1>1 DEF Initialize
    <3> QED
      BY <2>1, <3>1, <3>2, <3>3, <1>f, <1>s, <1>u
  <2>2. CASE ~BridgeStarts
    <3>1. running = FALSE
      BY <2>2 DEF TypeOK
    <3>2. kernelUp' = FALSE /\ running' = FALSE
      BY <1>1, <2>2, <3>1 DEF Initialize, BridgeStarts
    <3>3. processes' = 0 /\ address' = {}
      BY <1>1, <2>2, <3>1 DEF Initialize, PartsResolved
    <3>4. UNCHANGED <<machine, undoc>>
      BY <1>1, <2>2 DEF Initialize, PartsResolved
    <3> QED
      BY <3>2, <3>3, <3>4, <1>f, <1>s
  <2> QED
    BY <2>1, <2>2
<1>2. CASE Shutdown
  BY <1>2, <1>t, <1>f, <1>s DEF Shutdown
<1>3. CASE RunProgram
  BY <1>3, <1>f, <1>s DEF RunProgram
<1>4. CASE EndProgram
  BY <1>4, <1>f, <1>s, <1>t DEF EndProgram
<1>5. CASE InitializeUndocumentedAPI
  BY <1>5, <1>f, <1>s, <1>u DEF InitializeUndocumentedAPI
<1>6. ASSUME NEW n \in Apis, InstallHotPatch(n) PROVE BridgeInv'
  BY <1>6, <1>f, <1>s DEF InstallHotPatch
<1>7. ASSUME NEW n \in Apis, RemoveHotPatch(n) PROVE BridgeInv'
  BY <1>7, <1>f, <1>s DEF RemoveHotPatch
<1>8. ASSUME NEW n \in Apis, NEW impl \in Impls, RegisterAPI(n, impl) PROVE BridgeInv'
  BY <1>8, <1>f, <1>s DEF RegisterAPI
<1>9. ASSUME NEW n, ResolveUndocumentedAPI(n) PROVE BridgeInv'
  <2>1. undocAddress' = undocAddress
    BY <1>9 DEF ResolveUndocumentedAPI, Resolvable, FoundUndocs
  <2> QED
    BY <1>9, <2>1, <1>f, <1>s DEF ResolveUndocumentedAPI
<1>10. ASSUME NEW dll \in Dlls, ResolveDynamicAPI(dll) PROVE BridgeInv'
  <2>1. FoundUndocs' = FoundUndocs /\ (UndocStarts => UndocStarts')
    BY <1>10 DEF ResolveDynamicAPI, FoundUndocs, UndocStarts
  <2>2. CASE running
    <3>1. loaded' = loaded
      BY <1>10, <2>2 DEF ResolveDynamicAPI, TypeOK, BridgeStarts
    <3> QED
      BY <1>10, <3>1, <1>f, <1>s DEF ResolveDynamicAPI
  <2>3. CASE ~running
    BY <1>10, <2>1, <2>3 DEF ResolveDynamicAPI
  <2> QED
    BY <2>2, <2>3
<1>11. CASE UNCHANGED vars
  BY <1>11, <1>f, <1>s DEF vars
<1> QED
  BY <1>1, <1>2, <1>3, <1>4, <1>5, <1>6, <1>7, <1>8, <1>9, <1>10, <1>11 DEF Next

\* The host's flags agree, everything the machine has is at hand while the host runs,
\* and no process outlives it, through failed and repeated starts.
THEOREM ReadyWhileRunning == Spec => []ReadyWhenRunning
<1>1. Init => BridgeInv
  BY DEF Init, BridgeInv, ReadyWhenRunning
<1>2. BridgeInv => ReadyWhenRunning
  BY DEF BridgeInv
<1> QED
  BY <1>1, <1>2, InitType, NextType, NextBridge, PTL DEF Spec

\* No call is forwarded to a function the machine has not, and none through the
\* bridge while the host is down.
THEOREM ForwardsNothingStale == Spec => []ForwardsOnlyWhenRunning
<1>1. Init => BridgeInv
  BY DEF Init, BridgeInv, ReadyWhenRunning
<1>2. BridgeInv => ForwardsOnlyWhenRunning
  <2> SUFFICES ASSUME BridgeInv PROVE ForwardsOnlyWhenRunning
    OBVIOUS
  <2>1. \A n \in Apis : ForwardAPICall(n) = "success" => running /\ n \in FoundApis
    BY DEF BridgeInv, ReadyWhenRunning, ForwardAPICall, ResolveAPI
  <2>2. ASSUME NEW n, "success" \in {ForwardUnknownAPI(n), CallHostSyscall(n)}
        PROVE  UndocStarts /\ n \in FoundUndocs
    <3>1. Resolvable(n)
      BY <2>2 DEF ForwardUnknownAPI, CallHostSyscall
    <3> QED
      BY <3>1 DEF Resolvable, FoundUndocs, BridgeInv
  <2> QED
    BY <2>1, <2>2 DEF ForwardsOnlyWhenRunning
<1> QED
  BY <1>1, <1>2, InitType, NextType, NextBridge, PTL DEF Spec

-----------------------------------------------------------------------------
\* What a look-up answers in a table b, as GetAPIImplementation finds it.
Stops(b, n, i) == b[i].name \in {"NULL", n}
IsFirst(b, n, i) ==
  i \in DOMAIN b /\ Stops(b, n, i) /\ \A j \in 1..(i - 1) : ~Stops(b, n, j)
Read(e) == IF e = NoBridge THEN "fault" ELSE e.impl

\* There is one first entry at which a look-up stops, and it decides the answer.
LEMMA AnswerOfFirst ==
  ASSUME NEW n, bridges \in Seq(Entry), NEW i, IsFirst(bridges, n, i)
  PROVE  GetAPIImplementation(n) = Read(bridges[i])
<1>1. DOMAIN bridges \subseteq Nat \ {0}
  BY DEF Entry
<1>2. ASSUME NEW k, IsFirst(bridges, n, k) PROVE k = i
  <2>1. i \in Nat /\ k \in Nat /\ i >= 1 /\ k >= 1
    BY <1>1, <1>2 DEF IsFirst
  <2>2. ~(i < k) /\ ~(k < i)
    BY <1>2, <2>1 DEF IsFirst
  <2> QED
    BY <2>1, <2>2
<1> QED
  BY <1>2 DEF GetAPIImplementation, IsFirst, Stops, Read

\* A look-up that has an answer has stopped somewhere.
LEMMA FirstOfAnswer ==
  ASSUME NEW n, GetAPIImplementation(n) # "NULL"
  PROVE  \E i : IsFirst(bridges, n, i)
  BY DEF GetAPIImplementation, IsFirst, Stops

LEMMA NextRegistration == TypeOK /\ TypeOK' /\ [Next]_vars =>
  \A n \in Apis :
       GetAPIImplementation(n) # "NULL" =>
         GetAPIImplementation(n)' = IF bridges' = Zeroed(bridges) THEN "fault"
                                    ELSE GetAPIImplementation(n)
<1> SUFFICES ASSUME TypeOK, TypeOK', [Next]_vars, NEW n \in Apis,
                    GetAPIImplementation(n) # "NULL"
             PROVE  GetAPIImplementation(n)' = IF bridges' = Zeroed(bridges) THEN "fault"
                                               ELSE GetAPIImplementation(n)
  OBVIOUS
<1>1. /\ bridges \in Seq(Entry) /\ bridges' \in Seq(Entry)
  BY DEF TypeOK, Entry
<1>2. PICK i : IsFirst(bridges, n, i)
  BY FirstOfAnswer
<1>3. i \in 1..Len(bridges) /\ Len(bridges) \in Nat
  <2> HIDE DEF Entry
  <2> QED
    BY <1>1, <1>2 DEF IsFirst
<1>4. GetAPIImplementation(n) = Read(bridges[i])
  BY <1>1, <1>2, AnswerOfFirst
<1>a. ASSUME NEW k, IsFirst(bridges', n, k) PROVE GetAPIImplementation(n)' = Read(bridges'[k])
  <2>1. DOMAIN bridges' \subseteq Nat \ {0}
    BY <1>1 DEF Entry
  <2>2. ASSUME NEW l, IsFirst(bridges', n, l) PROVE l = k
    <3>1. k \in Nat /\ l \in Nat /\ k >= 1 /\ l >= 1
      BY <2>1, <2>2, <1>a DEF IsFirst
    <3>2. ~(k < l) /\ ~(l < k)
      BY <1>a, <2>2, <3>1 DEF IsFirst
    <3> QED
      BY <3>1, <3>2
  <2> QED
    BY <1>a, <2>2 DEF GetAPIImplementation, IsFirst, Stops, Read
<1>5. CASE bridges' = Zeroed(bridges)
  <2>1. 1 \in DOMAIN bridges' /\ bridges'[1] = NoBridge
    <3> HIDE DEF Entry
    <3> QED
      BY <1>1, <1>3, <1>5 DEF Zeroed
  <2>2. IsFirst(bridges', n, 1)
    BY <2>1 DEF IsFirst, Stops, NoBridge
  <2> QED
    BY <1>a, <1>5, <2>1, <2>2 DEF Read
<1>6. CASE bridges' = bridges /\ bridges' # Zeroed(bridges)
  BY <1>6, <1>a, <1>2, <1>4
<1>7. ASSUME NEW e \in Entry, bridges' = Append(bridges, e), bridges' # Zeroed(bridges)
      PROVE  GetAPIImplementation(n)' = GetAPIImplementation(n)
  <2>1. \A j \in 1..Len(bridges) : j \in DOMAIN bridges' /\ bridges'[j] = bridges[j]
    <3> HIDE DEF Entry
    <3> QED
      BY <1>1, <1>7
  <2>2. IsFirst(bridges', n, i)
    BY <1>2, <1>3, <2>1 DEF IsFirst, Stops
  <2> QED
    BY <1>a, <1>3, <1>4, <2>1, <2>2
<1>8. ASSUME NEW m \in Apis, NEW impl \in Impls, RegisterAPI(m, impl)
      PROVE  \E e \in Entry : bridges' = Append(bridges, e)
  <2>1. [name |-> m, impl |-> impl] \in Entry
    BY DEF Entry
  <2> QED
    BY <1>8, <2>1 DEF RegisterAPI
<1>9. \/ bridges' = bridges \/ bridges' = Zeroed(bridges)
      \/ \E e \in Entry : bridges' = Append(bridges, e)
  BY <1>8 DEF Next, vars, Initialize, Shutdown, RunProgram, EndProgram,
              InitializeUndocumentedAPI, ResolveUndocumentedAPI, ResolveDynamicAPI,
              InstallHotPatch, RemoveHotPatch
<1> QED
  BY <1>5, <1>6, <1>7, <1>9

\* Among registrations of a name the first answers until the kernel is started anew;
\* from then on every look-up that had an answer reads through NULL.
THEOREM FirstAnswers == Spec => FirstRegistrationAnswers
<1>1. TypeOK /\ TypeOK' /\ [Next]_vars =>
        [\A n \in Apis :
           GetAPIImplementation(n) # "NULL" =>
             GetAPIImplementation(n)' = IF bridges' = Zeroed(bridges) THEN "fault"
                                        ELSE GetAPIImplementation(n)]_vars
  BY NextRegistration
<1> QED
  BY <1>1, InitType, NextType, PTL DEF Spec, FirstRegistrationAnswers
=============================================================================
