-------------------------- MODULE InitScript_proofs --------------------------
(***************************************************************************)
(* Theorems about the daemon, for any set of scripts of any length and any *)
(* number of starts.                                                       *)
(***************************************************************************)
EXTENDS InitScript, FiniteSetTheorems, TLAPS

\* Where the daemon is inside a command, the line is one that led there.
LineInv ==
    /\ at # "off" => runs >= 1 /\ outcome = "none"
    /\ at \in {"resume", "value"} => pos <= Len(script)
    /\ at = "resume" => Len(processes) > 0 /\ Commands[pos].do = "spawn"
    /\ at = "value" => /\ Commands[pos].do = "regset"
                       /\ Commands[pos].path \in DOMAIN registry
    /\ outcome = "ok" => pos = Len(script) + 1

\* What a command's fields are.
LEMMA CommandFields ==
    ASSUME script \in Scripts, NEW i \in 1..Len(script)
    PROVE  /\ Commands[i] = parse_line(script[i])
           /\ script[i].args \in Seq(DOMAIN LowBytes)
           /\ script[i].kind \in STRING
<1>1. script \in Seq([kind : STRING, args : Seq(DOMAIN LowBytes)])
  BY InitScriptAssumption DEF InitScriptAssumption
<1>2. script[i] \in [kind : STRING, args : Seq(DOMAIN LowBytes)]
  <2> DEFINE Line == [kind : STRING, args : Seq(DOMAIN LowBytes)]
  <2>1. script \in Seq(Line)
    BY <1>1
  <2>2. script[i] \in Line
    <3> HIDE DEF Line
    <3> QED
      BY <2>1
  <2> QED
    BY <2>2
<1>3. Commands[i] = parse_line(script[i])
  BY DEF Commands
<1> QED
  BY <1>2, <1>3

LEMMA Spawned ==
    ASSUME script \in Scripts, NEW i \in 1..Len(script), Commands[i].do = "spawn"
    PROVE  Commands[i].exe \in UNION {{s[j].args : j \in 1..Len(s)} : s \in Scripts}
<1>1. Commands[i] = parse_line(script[i])
  BY CommandFields
<1>2. Commands[i].exe = script[i].args
  BY <1>1 DEF parse_line, Nothing
<1> QED
  BY <1>2

LEMMA Bytes ==
    ASSUME script \in Scripts, NEW i \in 1..Len(script), Commands[i].do = "regset"
    PROVE  data_bytes(Commands[i].value) \in Seq({LowBytes[w] : w \in DOMAIN LowBytes})
<1>1. Commands[i] = parse_line(script[i]) /\ script[i].args \in Seq(DOMAIN LowBytes)
  BY CommandFields
<1>2. Commands[i].value = Tail(script[i].args) /\ Len(script[i].args) >= 2
  BY <1>1 DEF parse_line, Nothing
<1>3. Commands[i].value \in Seq(DOMAIN LowBytes)
  <2> DEFINE S == DOMAIN LowBytes
             a == script[i].args
  <2>1. a \in Seq(S) /\ Len(a) >= 2
    BY <1>1, <1>2
  <2>2. Tail(a) \in Seq(S)
    <3> HIDE DEF S, a
    <3> QED
      BY <2>1
  <2> QED
    BY <1>2, <2>2
<1> QED
  BY <1>3 DEF data_bytes

LEMMA InitType == Init => TypeOK /\ LineInv
<1> SUFFICES ASSUME Init PROVE TypeOK /\ LineInv
  OBVIOUS
<1> USE InitScriptAssumption DEF InitScriptAssumption
<1>1. script \in Seq([kind : STRING, args : Seq(DOMAIN LowBytes)])
  BY DEF Init
<1>2. Len(script) \in Nat
  BY <1>1
<1> QED
  BY <1>2 DEF Init, TypeOK, LineInv

LEMMA NextTypeLine == TypeOK /\ LineInv /\ [Next]_vars => TypeOK' /\ LineInv'
<1> SUFFICES ASSUME TypeOK, LineInv, [Next]_vars PROVE TypeOK' /\ LineInv'
  OBVIOUS
<1>s. script \in Seq([kind : STRING, args : Seq(DOMAIN LowBytes)])
  BY InitScriptAssumption DEF InitScriptAssumption, TypeOK
<1>l. Len(script) \in Nat /\ pos \in Nat /\ runs \in Nat /\ MaxRuns \in Nat
  BY <1>s, InitScriptAssumption DEF InitScriptAssumption, TypeOK
<1>1. CASE Start
  BY <1>1, <1>l DEF Start, End, TypeOK, LineInv
<1>2. CASE ReadLine
  <2> script' = script
    BY <1>2 DEF ReadLine
  <2> QED
    BY <1>2, <1>l DEF ReadLine, End, NextLine, TypeOK, LineInv
<1>3. ASSUME NEW ok \in BOOLEAN, CreateProcess(ok) PROVE TypeOK' /\ LineInv'
  <2>1. Commands[pos].exe \in UNION {{s[j].args : j \in 1..Len(s)} : s \in Scripts}
    BY <1>3, <1>l, Spawned DEF CreateProcess, AtCommand, TypeOK
  <2>2. [exe |-> Commands[pos].exe, state |-> "suspended", run |-> runs] \in Process
    BY <1>3, <1>l, <2>1, SMTT(30) DEF Process, CreateProcess, AtCommand, TypeOK, LineInv
  <2>3. processes' \in Seq(Process) /\ (ok => Len(processes') > 0)
    BY <1>3, <2>2, SMTT(30) DEF CreateProcess, TypeOK
  <2>4. Commands' = Commands
    BY <1>3 DEF CreateProcess, Commands
  <2> QED
    BY <1>3, <1>l, <2>3, <2>4 DEF CreateProcess, AtCommand, End, TypeOK, LineInv
<1>4. ASSUME NEW ok \in BOOLEAN, ResumeThread(ok) PROVE TypeOK' /\ LineInv'
  <2> DEFINE n == Len(processes)
  <2>1. n \in 1..Len(processes) /\ at = "resume" /\ pos <= Len(script)
    BY <1>4 DEF ResumeThread, TypeOK, LineInv
  <2>2. processes[n] \in Process
    BY <2>1 DEF TypeOK
  <2>3. [processes[n] EXCEPT !.state = "running"] \in Process
    BY <2>2 DEF Process
  <2>4. processes' \in Seq(Process)
    BY <1>4, <2>1, <2>3 DEF ResumeThread, TypeOK
  <2> QED
    BY <1>4, <1>l, <2>1, <2>4 DEF ResumeThread, End, NextLine, TypeOK, LineInv
<1>5. ASSUME NEW ok \in BOOLEAN, CreateKey(ok) PROVE TypeOK' /\ LineInv'
  <2> DEFINE p == Commands[pos].path
  <2>1. DOMAIN registry' \subseteq ValidPaths
          /\ registry' \in [DOMAIN registry' -> Seq({LowBytes[w] : w \in DOMAIN LowBytes})]
    <3>1. CASE ok /\ p \in ValidPaths
      <4>1. registry' = [q \in DOMAIN registry \cup {p} |->
                                IF q \in DOMAIN registry THEN registry[q] ELSE Unset]
        BY <1>5, <3>1 DEF CreateKey
      <4>2. Unset \in Seq({LowBytes[w] : w \in DOMAIN LowBytes})
        BY DEF Unset
      <4> QED
        BY <3>1, <4>1, <4>2 DEF TypeOK
    <3>2. CASE ~(ok /\ p \in ValidPaths)
      BY <1>5, <3>2 DEF CreateKey, TypeOK
    <3> QED
      BY <3>1, <3>2
  <2>2. at' = "value" => p \in DOMAIN registry'
    BY <1>5 DEF CreateKey, End
  <2>3. Commands' = Commands
    BY <1>5 DEF CreateKey, Commands
  <2> QED
    BY <1>5, <1>l, <2>1, <2>2, <2>3 DEF CreateKey, AtCommand, End, TypeOK, LineInv
<1>6. ASSUME NEW ok \in BOOLEAN, SetValue(ok) PROVE TypeOK' /\ LineInv'
  <2>1. data_bytes(Commands[pos].value) \in Seq({LowBytes[w] : w \in DOMAIN LowBytes})
    BY <1>6, <1>l, Bytes DEF SetValue, TypeOK, LineInv
  <2>2. DOMAIN registry' = DOMAIN registry
          /\ registry' \in [DOMAIN registry -> Seq({LowBytes[w] : w \in DOMAIN LowBytes})]
    BY <1>6, <2>1 DEF SetValue, TypeOK
  <2> QED
    BY <1>6, <1>l, <2>2 DEF SetValue, End, NextLine, TypeOK, LineInv
<1>7. CASE Kill
  BY <1>7, <1>l DEF Kill, End, TypeOK, LineInv
<1>8. CASE UNCHANGED vars
  BY <1>8 DEF vars, TypeOK, LineInv, Commands
<1> QED
  BY <1>1, <1>2, <1>3, <1>4, <1>5, <1>6, <1>7, <1>8 DEF Next

\* Every reachable state of the daemon is well typed.
THEOREM TypeCorrect == Spec => []TypeOK
<1> QED
  BY InitType, NextTypeLine, PTL DEF Spec

----------------------------------------------------------------------------
(* Suspended processes *)

\* Runs are numbered in order, and a suspended process is the last of its run.
SuspendedInv ==
    /\ \A i \in 1..Len(processes) : processes[i].run <= runs
    /\ at = "resume" => processes[Len(processes)].run = runs
    /\ \A i \in 1..Len(processes) : processes[i].state = "suspended" =>
        /\ \A j \in i + 1..Len(processes) : processes[j].run # processes[i].run
        /\ processes[i].run = runs =>
             /\ outcome # "ok"
             /\ at = "off" \/ (at = "resume" /\ i = Len(processes))

LEMMA NextSuspended ==
    TypeOK /\ LineInv /\ SuspendedInv /\ [Next]_vars => SuspendedInv'
<1> SUFFICES ASSUME TypeOK, LineInv, SuspendedInv, [Next]_vars PROVE SuspendedInv'
  OBVIOUS
<1>p. /\ Len(processes) \in Nat /\ runs \in Nat
      /\ \A i \in 1..Len(processes) : processes[i] \in Process /\ processes[i].run \in Nat
  <2>1. runs \in Nat /\ processes \in Seq(Process)
    BY InitScriptAssumption DEF InitScriptAssumption, TypeOK
  <2>2. Len(processes) \in Nat /\ \A i \in 1..Len(processes) : processes[i] \in Process
    BY <2>1
  <2>3. \A p \in Process : p.run \in Nat
    BY InitScriptAssumption DEF InitScriptAssumption, Process
  <2> QED
    BY <2>1, <2>2, <2>3
<1>1. CASE Start
  BY <1>1, <1>p, SMTT(30) DEF Start, End, SuspendedInv
<1>2. CASE ReadLine
  BY <1>2, <1>p DEF ReadLine, End, NextLine, SuspendedInv
<1>3. ASSUME NEW ok \in BOOLEAN, CreateProcess(ok) PROVE SuspendedInv'
  <2>1. CASE ok
    <3> DEFINE new == [exe |-> Commands[pos].exe, state |-> "suspended", run |-> runs]
    <3>1. /\ processes' = Append(processes, new) /\ at = "line" /\ at' = "resume"
          /\ outcome' = outcome /\ runs' = runs
      BY <1>3, <2>1 DEF CreateProcess, AtCommand
    <3>2. /\ Len(processes') = Len(processes) + 1
          /\ processes'[Len(processes) + 1] = new
          /\ \A i \in 1..Len(processes) : processes'[i] = processes[i]
      BY <3>1, <1>p DEF TypeOK
    <3>3. outcome # "ok"
      BY <3>1 DEF LineInv
    <3>4. \A i \in 1..Len(processes) :
             processes[i].state = "suspended" => processes[i].run # runs
      BY <3>1 DEF SuspendedInv
    <3>5. \A i \in 1..Len(processes') : processes'[i].run <= runs
      BY <3>2, <1>p DEF SuspendedInv
    <3>6. ASSUME NEW i \in 1..Len(processes'), processes'[i].state = "suspended"
          PROVE  /\ \A j \in i + 1..Len(processes') : processes'[j].run # processes'[i].run
                 /\ processes'[i].run = runs => i = Len(processes')
      <4>1. CASE i = Len(processes) + 1
        BY <4>1, <3>2, <1>p
      <4>2. CASE i \in 1..Len(processes)
        <5>1. processes[i].state = "suspended" /\ processes[i].run # runs
          BY <4>2, <3>2, <3>4, <3>6
        <5>2. \A j \in i + 1..Len(processes) : processes[j].run # processes[i].run
          BY <4>2, <5>1 DEF SuspendedInv
        <5>3. \A j \in i + 1..Len(processes') :
                 j = Len(processes) + 1 \/ j \in i + 1..Len(processes)
          BY <4>2, <3>2, <1>p
        <5>4. ASSUME NEW j \in i + 1..Len(processes')
              PROVE  processes'[j].run # processes'[i].run
          <6>1. CASE j = Len(processes) + 1
            BY <6>1, <5>1, <3>2, <4>2
          <6>2. CASE j \in i + 1..Len(processes)
            <7>1. j \in 1..Len(processes)
              BY <6>2, <4>2, <1>p
            <7> QED
              BY <6>2, <7>1, <5>2, <3>2, <4>2
          <6> QED
            BY <6>1, <6>2, <5>3
        <5> QED
          BY <5>1, <5>4, <3>2, <4>2
      <4> QED
        BY <4>1, <4>2, <3>2, <1>p
    <3> QED
      BY <3>1, <3>2, <3>3, <3>5, <3>6, <1>p DEF SuspendedInv
  <2>2. CASE ~ok
    BY <1>3, <2>2, <1>p DEF CreateProcess, AtCommand, End, SuspendedInv
  <2> QED
    BY <2>1, <2>2
<1>4. ASSUME NEW ok \in BOOLEAN, ResumeThread(ok) PROVE SuspendedInv'
  <2>1. CASE ok
    <3> DEFINE n == Len(processes)
    <3>1. /\ n \in 1..Len(processes) /\ at = "resume" /\ at' = "line" /\ outcome = "none"
          /\ outcome' = outcome /\ runs' = runs
          /\ processes' = [processes EXCEPT ![n].state = "running"]
      BY <1>4, <2>1 DEF ResumeThread, NextLine, TypeOK, LineInv
    <3>2. /\ Len(processes') = Len(processes)
          /\ \A i \in 1..n : processes'[i].run = processes[i].run
          /\ processes'[n].state = "running"
          /\ \A i \in 1..n : i # n => processes'[i] = processes[i]
      BY <3>1, <1>p DEF TypeOK, Process
    <3> QED
      BY <3>1, <3>2, <1>p DEF SuspendedInv
  <2>2. CASE ~ok
    BY <1>4, <2>2, <1>p DEF ResumeThread, End, SuspendedInv
  <2> QED
    BY <2>1, <2>2
<1>5. ASSUME NEW ok \in BOOLEAN, CreateKey(ok) PROVE SuspendedInv'
  BY <1>5, <1>p DEF CreateKey, AtCommand, End, SuspendedInv
<1>6. ASSUME NEW ok \in BOOLEAN, SetValue(ok) PROVE SuspendedInv'
  BY <1>6, <1>p DEF SetValue, NextLine, End, SuspendedInv
<1>7. CASE Kill
  BY <1>7, <1>p DEF Kill, End, SuspendedInv
<1>8. CASE UNCHANGED vars
  BY <1>8 DEF vars, SuspendedInv
<1> QED
  BY <1>1, <1>2, <1>3, <1>4, <1>5, <1>6, <1>7, <1>8 DEF Next

\* A process that is never resumed is the last one of its run, and that run is not
\* reported as a success, whatever fails and whenever the daemon is killed.
THEOREM SuspendedIsReported == Spec => []SuspendedEndsItsRun
<1>1. Init => SuspendedInv
  BY DEF Init, SuspendedInv
<1>2. SuspendedInv => SuspendedEndsItsRun
  BY DEF SuspendedInv, SuspendedEndsItsRun
<1> QED
  BY <1>1, <1>2, InitType, NextTypeLine, NextSuspended, PTL DEF Spec

----------------------------------------------------------------------------
(* Registry values *)

LEMMA NextKeys == TypeOK /\ LineInv /\ KeysOfPrefix /\ [Next]_vars => KeysOfPrefix'
<1> SUFFICES ASSUME TypeOK, LineInv, KeysOfPrefix, [Next]_vars PROVE KeysOfPrefix'
  OBVIOUS
<1>p. pos \in Nat /\ pos >= 1
  BY DEF TypeOK
<1>c. script' = script => Commands' = Commands
  BY DEF Commands
<1>n. ASSUME script' = script, pos' = pos + 1, registry' = registry,
             \A p \in ValidPaths : ~Setting(pos, p)
      PROVE  KeysOfPrefix'
  BY <1>n, <1>p, <1>c DEF KeysOfPrefix, Setting, done
<1>1. CASE Start
  BY <1>1 DEF Start, KeysOfPrefix, done
<1>2. CASE ReadLine
  BY <1>2, <1>n, <1>c DEF ReadLine, End, NextLine, KeysOfPrefix, Setting, done
<1>3. ASSUME NEW ok \in BOOLEAN, CreateProcess(ok) PROVE KeysOfPrefix'
  BY <1>3, <1>c DEF CreateProcess, KeysOfPrefix, Setting, done
<1>4. ASSUME NEW ok \in BOOLEAN, ResumeThread(ok) PROVE KeysOfPrefix'
  BY <1>4, <1>n, <1>c DEF ResumeThread, NextLine, KeysOfPrefix, Setting, done, LineInv
<1>5. ASSUME NEW ok \in BOOLEAN, CreateKey(ok) PROVE KeysOfPrefix'
  <2>1. \A q \in DOMAIN registry : q \in DOMAIN registry' /\ registry'[q] = registry[q]
    BY <1>5 DEF CreateKey
  <2> QED
    BY <1>5, <1>c, <2>1 DEF CreateKey, KeysOfPrefix, Setting, done
<1>6. ASSUME NEW ok \in BOOLEAN, SetValue(ok) PROVE KeysOfPrefix'
  <2>1. CASE ok
    <3> DEFINE path == Commands[pos].path
    <3>1. /\ script' = script /\ pos' = pos + 1 /\ Setting(pos, path)
          /\ registry' = [registry EXCEPT ![path] = data_bytes(Commands[pos].value)]
          /\ path \in DOMAIN registry
      BY <1>6, <2>1 DEF SetValue, NextLine, LineInv, Setting
    <3> SUFFICES ASSUME NEW p \in ValidPaths, NEW i \in 1..pos, Setting(i, p),
                        \A j \in i + 1..pos : ~Setting(j, p)
                 PROVE  p \in DOMAIN registry' /\ registry'[p] = data_bytes(Commands[i].value)
      BY <3>1, <1>c, <1>p DEF KeysOfPrefix, Setting, done, data_bytes
    <3>2. CASE i = pos
      BY <3>1, <3>2 DEF Setting
    <3>3. CASE i # pos
      <4>1. p # path /\ i \in 1..done /\ \A j \in i + 1..done : ~Setting(j, p)
        BY <3>1, <3>3, <1>p DEF done
      <4>2. p \in DOMAIN registry /\ registry[p] = data_bytes(Commands[i].value)
        BY <4>1 DEF KeysOfPrefix
      <4> QED
        BY <3>1, <4>1, <4>2
    <3> QED
      BY <3>2, <3>3
  <2>2. CASE ~ok
    BY <1>6, <2>2, <1>c DEF SetValue, End, KeysOfPrefix, Setting, done
  <2> QED
    BY <2>1, <2>2
<1>7. CASE Kill
  BY <1>7, <1>c DEF Kill, KeysOfPrefix, Setting, done
<1>8. CASE UNCHANGED vars
  BY <1>8, <1>c DEF vars, KeysOfPrefix, Setting, done
<1> QED
  BY <1>1, <1>2, <1>3, <1>4, <1>5, <1>6, <1>7, <1>8 DEF Next

----------------------------------------------------------------------------
(* Processes *)

\* Ranks in a finite set of numbers.
LEMMA RankType ==
    ASSUME NEW S \in SUBSET Nat, IsFiniteSet(S), NEW i \in S
    PROVE  /\ Rank(i, S) \in Nat /\ Cardinality(S) \in Nat /\ Rank(i, S) <= Cardinality(S)
           /\ Rank(i, S) = Cardinality(S) => \A j \in S : j <= i
<1> DEFINE T == {j \in S : j <= i}
<1>1. T \in SUBSET S
  OBVIOUS
<1>2. IsFiniteSet(T) /\ Cardinality(T) <= Cardinality(S) /\ (Cardinality(S) = Cardinality(T) => S = T)
  BY <1>1, FS_Subset
<1>3. Cardinality(T) \in Nat /\ Cardinality(S) \in Nat
  BY <1>2, FS_CardinalityType
<1>4. S = T => \A j \in S : j <= i
  OBVIOUS
<1> QED
  BY <1>2, <1>3, <1>4 DEF Rank

\* A new number behind all others has the next rank and changes no other.
LEMMA RankOfNew ==
    ASSUME NEW S \in SUBSET Nat, IsFiniteSet(S), NEW m \in Nat, \A j \in S : j < m
    PROVE  /\ IsFiniteSet(S \cup {m}) /\ Cardinality(S \cup {m}) = Cardinality(S) + 1
           /\ Rank(m, S \cup {m}) = Cardinality(S) + 1
           /\ \A i \in S : Rank(i, S \cup {m}) = Rank(i, S)
<1>1. m \notin S
  OBVIOUS
<1>2. IsFiniteSet(S \cup {m}) /\ Cardinality(S \cup {m}) = Cardinality(S) + 1
  BY <1>1, FS_AddElement
<1>3. {j \in S \cup {m} : j <= m} = S \cup {m}
  <2>1. \A j \in S \cup {m} : j <= m
    OBVIOUS
  <2> QED
    BY <2>1, Zenon
<1>4. \A i \in S : {j \in S \cup {m} : j <= i} = {j \in S : j <= i}
  OBVIOUS
<1> QED
  BY <1>2, <1>3, <1>4 DEF Rank

LEMMA SpawnsAndMine ==
    ASSUME TypeOK
    PROVE  /\ Spawns \in SUBSET Nat /\ IsFiniteSet(Spawns) /\ Mine \in SUBSET Nat /\ IsFiniteSet(Mine)
           /\ Cardinality(Spawns) \in Nat /\ Cardinality(Mine) \in Nat
           /\ done \in Nat /\ Len(processes) \in Nat
<1>1. done \in Nat /\ Len(processes) \in Nat
  BY InitScriptAssumption DEF InitScriptAssumption, TypeOK, done
<1>2. IsFiniteSet(1..done) /\ IsFiniteSet(1..Len(processes))
  BY <1>1, FS_Interval
<1>3. Spawns \in SUBSET (1..done) /\ Mine \in SUBSET (1..Len(processes))
  BY DEF Spawns, Mine
<1>4. IsFiniteSet(Spawns) /\ IsFiniteSet(Mine)
  BY <1>2, <1>3, FS_Subset
<1> QED
  BY <1>1, <1>3, <1>4, FS_CardinalityType

\* Between commands the run has as many processes as its commands created; in the
\* middle of a spawn, one more.
ProcessInv ==
    /\ ProcessesOfPrefix
    /\ at \in {"line", "value"} => Cardinality(Mine) = Cardinality(Spawns)
    /\ at = "resume" => Cardinality(Mine) = Cardinality(Spawns) + 1

LEMMA NextProcesses ==
    TypeOK /\ LineInv /\ SuspendedInv /\ ProcessInv /\ [Next]_vars => ProcessInv'
<1> SUFFICES ASSUME TypeOK, LineInv, SuspendedInv, ProcessInv, [Next]_vars PROVE ProcessInv'
  OBVIOUS
<1>s. /\ Spawns \in SUBSET Nat /\ IsFiniteSet(Spawns) /\ Mine \in SUBSET Nat /\ IsFiniteSet(Mine)
      /\ Cardinality(Spawns) \in Nat /\ Cardinality(Mine) \in Nat
      /\ done \in Nat /\ Len(processes) \in Nat /\ pos = done + 1
  BY SpawnsAndMine DEF TypeOK, done
<1>p. ProcessesOfPrefix
  BY DEF ProcessInv
<1>r. /\ \A q \in Mine : Rank(q, Mine) \in Nat /\ Rank(q, Mine) <= Cardinality(Mine)
      /\ \A i \in Spawns : Rank(i, Spawns) \in Nat /\ Rank(i, Spawns) <= Cardinality(Spawns)
  BY <1>s, RankType
<1>c. script' = script => Commands' = Commands
  BY DEF Commands
\* A step inside a command, or one that ends the run.
<1>stay. ASSUME script' = script, pos' = pos, runs' = runs, processes' = processes,
                at' \in {"off", at} \/ (at = "line" /\ at' = "value")
         PROVE  ProcessInv'
  <2>1. Spawns' = Spawns /\ Mine' = Mine
    BY <1>stay, <1>c DEF Spawns, Mine, done
  <2>2. ProcessesOfPrefix'
    BY <1>stay, <1>c, <1>p, <2>1 DEF ProcessesOfPrefix, Rank
  <2> QED
    BY <1>stay, <2>1, <2>2 DEF ProcessInv
\* A line that creates no process is done.
<1>next. ASSUME script' = script, pos' = pos + 1, runs' = runs, processes' = processes,
                at' = "line", at \in {"line", "value"}, Commands[pos].do # "spawn"
         PROVE  ProcessInv'
  <2>1. Spawns' = Spawns
    BY <1>next, <1>c, <1>s DEF Spawns, done
  <2>2. Mine' = Mine
    BY <1>next DEF Mine
  <2>3. Cardinality(Mine) = Cardinality(Spawns)
    BY <1>next DEF ProcessInv
  <2>4. \A q \in Mine : ~(Rank(q, Mine) > Cardinality(Spawns))
    BY <1>r, <1>s, <2>3
  <2>5. ProcessesOfPrefix'
    BY <1>next, <1>c, <1>p, <2>1, <2>2, <2>4 DEF ProcessesOfPrefix, Rank
  <2> QED
    BY <1>next, <2>1, <2>2, <2>3, <2>5 DEF ProcessInv
<1>1. CASE Start
  <2>1. done' = 0 /\ runs' = runs + 1 /\ processes' = processes /\ at' \in {"line", "off"}
    BY <1>1 DEF Start, End, done
  <2>2. Spawns' = {}
    BY <2>1 DEF Spawns
  <2>3. \A q \in 1..Len(processes) : processes[q].run <= runs /\ processes[q].run \in Nat
    <3>1. \A q \in 1..Len(processes) : processes[q] \in Process
      BY <1>s DEF TypeOK
    <3> QED
      BY <3>1, InitScriptAssumption DEF InitScriptAssumption, SuspendedInv, Process
  <2>4. Mine' = {}
    BY <2>1, <2>3, InitScriptAssumption DEF InitScriptAssumption, TypeOK, Mine
  <2> QED
    BY <2>1, <2>2, <2>4, FS_EmptySet DEF ProcessInv, ProcessesOfPrefix
<1>2. CASE ReadLine
  <2>1. CASE UNCHANGED pos
    BY <1>2, <1>stay, <2>1 DEF ReadLine, End, NextLine
  <2>2. CASE pos' = pos + 1
    BY <1>2, <1>next, <1>s, <2>2 DEF ReadLine, End, NextLine
  <2> QED
    BY <1>2, <2>1, <2>2 DEF ReadLine, NextLine
<1>3. ASSUME NEW ok \in BOOLEAN, CreateProcess(ok) PROVE ProcessInv'
  <2>1. CASE ~ok
    BY <1>3, <1>stay, <2>1 DEF CreateProcess, End
  <2>2. CASE ok
    <3> DEFINE new == [exe |-> Commands[pos].exe, state |-> "suspended", run |-> runs]
               n   == Len(processes) + 1
    <3>1. /\ processes' = Append(processes, new) /\ at = "line" /\ at' = "resume"
          /\ script' = script /\ pos' = pos /\ runs' = runs
      BY <1>3, <2>2 DEF CreateProcess, AtCommand
    <3>2. /\ Len(processes') = n /\ processes'[n] = new
          /\ \A q \in 1..Len(processes) : processes'[q] = processes[q]
      BY <3>1, <1>s DEF TypeOK
    <3>3. Mine' = Mine \cup {n}
      BY <1>s, <3>1, <3>2 DEF Mine
    <3>4. Spawns' = Spawns
      BY <1>c, <3>1 DEF Spawns, done
    <3>5. \A q \in Mine : q < n /\ processes'[q] = processes[q]
      BY <1>s, <3>2 DEF Mine
    <3>6. /\ Cardinality(Mine \cup {n}) = Cardinality(Mine) + 1
          /\ Rank(n, Mine \cup {n}) = Cardinality(Mine) + 1
          /\ \A q \in Mine : Rank(q, Mine \cup {n}) = Rank(q, Mine)
      <4>1. n \in Nat /\ Mine \in SUBSET Nat /\ IsFiniteSet(Mine) /\ \A q \in Mine : q < n
        BY <1>s, <3>5
      <4> HIDE DEF n
      <4> QED
        BY <4>1, RankOfNew, Zenon
    <3>7. Cardinality(Mine) = Cardinality(Spawns)
      BY <3>1 DEF ProcessInv
    <3>8. Cardinality(Mine') = Cardinality(Spawns') + 1
      BY <3>3, <3>4, <3>6, <3>7
    <3>9. ASSUME NEW q \in Mine'
          PROVE  /\ \A i \in Spawns : Rank(q, Mine') = Rank(i, Spawns) =>
                      processes'[q].exe = Commands[i].exe /\ processes'[q].state = "running"
                 /\ Rank(q, Mine') > Cardinality(Spawns) =>
                      processes'[q].exe = Commands[pos].exe /\ processes'[q].state = "suspended"
      <4>1. CASE q = n
        BY <1>r, <1>s, <3>2, <3>3, <3>6, <3>7, <4>1
      <4>2. CASE q \in Mine
        <5>1. Rank(q, Mine') = Rank(q, Mine)
          BY <3>3, <3>6, <4>2
        <5> QED
          BY <1>p, <3>5, <4>2, <5>1 DEF ProcessesOfPrefix
      <4> QED
        BY <3>3, <4>1, <4>2
    <3>10. ProcessesOfPrefix'
      BY <1>c, <3>1, <3>4, <3>8, <3>9 DEF ProcessesOfPrefix, Rank
    <3> QED
      BY <3>1, <3>8, <3>10 DEF ProcessInv
  <2> QED
    BY <2>1, <2>2
<1>4. ASSUME NEW ok \in BOOLEAN, ResumeThread(ok) PROVE ProcessInv'
  <2>1. CASE ~ok
    BY <1>4, <1>stay, <2>1 DEF ResumeThread, End
  <2>2. CASE ok
    <3> DEFINE n == Len(processes)
    <3>1. /\ n \in 1..Len(processes) /\ at = "resume" /\ at' = "line" /\ pos' = pos + 1
          /\ script' = script /\ runs' = runs /\ Commands[pos].do = "spawn"
          /\ processes' = [processes EXCEPT ![n].state = "running"]
      BY <1>4, <1>s, <2>2 DEF ResumeThread, NextLine, LineInv
    <3>2. processes[n] \in Process
      BY <3>1 DEF TypeOK
    <3>3. /\ Len(processes') = n
          /\ processes'[n].exe = processes[n].exe /\ processes'[n].state = "running"
          /\ \A q \in 1..n : processes'[q].run = processes[q].run
          /\ \A q \in 1..n : q # n => processes'[q] = processes[q]
      <4>1. Len(processes') = n /\ \A q \in 1..n : q # n => processes'[q] = processes[q]
        BY <1>s, <3>1 DEF TypeOK
      <4>2. processes'[n] = [processes[n] EXCEPT !.state = "running"]
        BY <1>s, <3>1 DEF TypeOK
      <4>3. /\ processes'[n].exe = processes[n].exe /\ processes'[n].state = "running"
            /\ processes'[n].run = processes[n].run
        BY <3>2, <4>2 DEF Process
      <4> QED
        BY <1>s, <4>1, <4>3
    <3>4. Mine' = Mine
      BY <1>s, <3>1, <3>3 DEF Mine
    <3>5. Spawns' = Spawns \cup {pos}
      BY <1>c, <1>s, <3>1 DEF Spawns, done
    <3>6. \A i \in Spawns : i < pos
      BY <1>s DEF Spawns
    <3>7. /\ Cardinality(Spawns \cup {pos}) = Cardinality(Spawns) + 1
          /\ Rank(pos, Spawns \cup {pos}) = Cardinality(Spawns) + 1
          /\ \A i \in Spawns : Rank(i, Spawns \cup {pos}) = Rank(i, Spawns)
      <4>1. pos \in Nat /\ Spawns \in SUBSET Nat /\ IsFiniteSet(Spawns) /\ \A i \in Spawns : i < pos
        BY <1>s, <3>6
      <4> QED
        BY <4>1, RankOfNew, Zenon
    <3>8. Cardinality(Mine) = Cardinality(Spawns) + 1
      BY <3>1 DEF ProcessInv
    <3>9. n \in Mine /\ \A q \in Mine : q <= n
      BY <1>s, <3>1 DEF SuspendedInv, Mine
    \* The process just resumed is the last of the run.
    <3>10. \A q \in Mine : Rank(q, Mine) = Cardinality(Mine) <=> q = n
      <4>1. ASSUME NEW q \in Mine, Rank(q, Mine) = Cardinality(Mine) PROVE q = n
        <5>1. \A j \in Mine : j <= q
          BY <1>s, <4>1, RankType
        <5> QED
          BY <1>s, <3>9, <5>1
      <4>2. {j \in Mine : j <= n} = Mine
        BY <3>9
      <4> QED
        BY <3>9, <4>1, <4>2 DEF Rank
    <3>11. ASSUME NEW q \in Mine, NEW i \in Spawns \cup {pos},
                  Rank(q, Mine) = Rank(i, Spawns \cup {pos})
           PROVE  processes'[q].exe = Commands[i].exe /\ processes'[q].state = "running"
      <4>1. CASE i = pos
        <5>1. Rank(q, Mine) = Cardinality(Mine) /\ Rank(q, Mine) > Cardinality(Spawns)
          BY <1>s, <3>7, <3>8, <3>11, <4>1
        <5>2. q = n /\ processes[q].exe = Commands[pos].exe
          BY <1>p, <3>10, <5>1 DEF ProcessesOfPrefix
        <5> QED
          BY <3>3, <4>1, <5>2
      <4>2. CASE i \in Spawns
        <5>1. Rank(q, Mine) = Rank(i, Spawns) /\ Rank(i, Spawns) <= Cardinality(Spawns)
          BY <1>r, <3>7, <3>11, <4>2
        <5>2. q # n
          BY <1>r, <1>s, <3>8, <3>10, <4>2, <5>1
        <5>3. processes'[q] = processes[q]
          BY <3>3, <5>2 DEF Mine
        <5> QED
          BY <1>p, <4>2, <5>1, <5>3 DEF ProcessesOfPrefix
      <4> QED
        BY <4>1, <4>2
    <3>12. Cardinality(Mine') = Cardinality(Spawns')
      BY <3>4, <3>5, <3>7, <3>8
    <3>13. \A q \in Mine : ~(Rank(q, Mine) > Cardinality(Spawns'))
      BY <1>r, <1>s, <3>4, <3>12
    <3>14. ProcessesOfPrefix'
      <4>1. Commands' = Commands /\ \A q \in Mine : Rank(q, Mine)' = Rank(q, Mine')
        BY <1>c, <3>1, <3>4 DEF Rank
      <4>2. ASSUME NEW q \in Mine'
            PROVE  /\ \A i \in Spawns' : Rank(q, Mine') = Rank(i, Spawns') =>
                        processes'[q].exe = Commands'[i].exe /\ processes'[q].state = "running"
                   /\ ~(Rank(q, Mine') > Cardinality(Spawns'))
        BY <3>4, <3>5, <3>11, <3>13, <4>1
      <4> QED
        BY <3>12, <4>2 DEF ProcessesOfPrefix, Rank
    <3> QED
      BY <3>1, <3>12, <3>14 DEF ProcessInv
  <2> QED
    BY <2>1, <2>2
<1>5. ASSUME NEW ok \in BOOLEAN, CreateKey(ok) PROVE ProcessInv'
  BY <1>5, <1>stay DEF CreateKey, AtCommand, End
<1>6. ASSUME NEW ok \in BOOLEAN, SetValue(ok) PROVE ProcessInv'
  <2>1. CASE ~ok
    BY <1>6, <1>stay, <2>1 DEF SetValue, End
  <2>2. CASE ok
    BY <1>6, <1>next, <2>2 DEF SetValue, NextLine, LineInv
  <2> QED
    BY <2>1, <2>2
<1>7. CASE Kill
  BY <1>7, <1>stay DEF Kill, End
<1>8. CASE UNCHANGED vars
  BY <1>8, <1>stay DEF vars
<1> QED
  BY <1>1, <1>2, <1>3, <1>4, <1>5, <1>6, <1>7, <1>8 DEF Next

\* What the latest run did to the machine is what the commands of a prefix of its
\* script do, the whole of it if the run ended well, whatever earlier runs left.
THEOREM EffectsAreThoseOfThePrefix == Spec => []EffectsOfPrefix
<1>1. Init => KeysOfPrefix /\ SuspendedInv
  BY DEF Init, KeysOfPrefix, done, SuspendedInv
<1>2. Init => ProcessInv
  <2> SUFFICES ASSUME Init PROVE ProcessInv
    OBVIOUS
  <2>1. Spawns = {} /\ Mine = {}
    BY DEF Init, Spawns, Mine, done
  <2> QED
    BY <2>1, FS_EmptySet DEF Init, ProcessInv, ProcessesOfPrefix
<1>3. TypeOK /\ LineInv => (outcome = "ok" => done = Len(script))
  BY InitScriptAssumption DEF InitScriptAssumption, LineInv, TypeOK, done
<1>4. KeysOfPrefix /\ ProcessInv /\ (outcome = "ok" => done = Len(script)) => EffectsOfPrefix
  BY DEF EffectsOfPrefix, ProcessInv
<1> QED
  BY <1>1, <1>2, <1>3, <1>4, InitType, NextTypeLine, NextSuspended, NextKeys, NextProcesses, PTL DEF Spec
=============================================================================
