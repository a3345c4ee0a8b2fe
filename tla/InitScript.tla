----------------------------- MODULE InitScript -----------------------------
(***************************************************************************)
(* The daemon (libredaemon): it reads an init script line by line, parses  *)
(* each line and executes it at once, and ends at the first command that   *)
(* fails.  Every Win32 call may fail, the daemon may be killed between any *)
(* two of them, and it may be started again on the same script: what it    *)
(* did to the machine stays.                                               *)
(*                                                                         *)
(* A line is [kind, args]: its first word in lower case (blank lines,      *)
(* comments and unknown commands are of kind "other", a line that is not   *)
(* UTF-8 "unreadable") and the words behind it.                            *)
(***************************************************************************)
EXTENDS Naturals, Sequences, FiniteSets

CONSTANTS
    Scripts,     \* the scripts considered
    ValidPaths,  \* registry paths of three parts or more under HKCU or HKLM
    LowBytes,    \* what is left of a word when each of its UTF-16 units is cut to
                 \* a byte and the bytes are read as UTF-16 again
    MaxRuns      \* bound on the daemon's starts

ASSUME InitScriptAssumption ==
    /\ \A s \in Scripts : s \in Seq([kind : STRING, args : Seq(DOMAIN LowBytes)])
    /\ MaxRuns \in Nat

VARIABLES
    script,
    at,        \* "off", or where the daemon is: "line" between two commands,
               \* "resume" and "value" in the middle of one
    pos,       \* the line it reads or executes
    outcome,   \* how the latest run ended
    runs,      \* starts so far
    processes, \* the processes started: command line, state and run, in order
    registry   \* the default value, a sequence of words, of each key there is

vars == <<script, at, pos, outcome, runs, processes, registry>>

Unset == <<>>  \* the default value of a new key

\* What RegSetValueExW is given of a value: data_bytes, one byte per unit.
data_bytes(value) == [i \in 1..Len(value) |-> LowBytes[value[i]]]

----------------------------------------------------------------------------
(* parse_line *)

Nothing == [do |-> "nothing"]

\* splitn(2, ' ') gives the command and the whole rest: never three parts.
Parts(line) == IF line.args = <<>> THEN 1 ELSE 2

\* The rest of a start or spawn is the executable, arguments included.  A setenv
\* wants three parts, and so is never accepted.  A regset splits its rest again.
parse_line(line) ==
    CASE line.kind \in {"start", "spawn"} /\ Parts(line) >= 2 ->
           [do |-> "spawn", exe |-> line.args]
      [] line.kind = "setenv" /\ Parts(line) >= 3 ->
           [do |-> "setenv", key |-> line.args[1], value |-> line.args[2]]
      [] line.kind = "regset" /\ Len(line.args) >= 2 ->
           [do |-> "regset", path |-> line.args[1], value |-> Tail(line.args)]
      [] line.kind = "log" /\ Parts(line) >= 2 -> [do |-> "log"]
      [] OTHER -> Nothing

Commands == [i \in 1..Len(script) |-> parse_line(script[i])]

----------------------------------------------------------------------------

Process == [exe: UNION {{s[i].args : i \in 1..Len(s)} : s \in Scripts},
            state: {"suspended", "running"}, run: 1..MaxRuns]

TypeOK ==
    /\ script \in Scripts
    /\ at \in {"off", "line", "resume", "value"}
    /\ pos \in 1..Len(script) + 1
    /\ outcome \in {"none", "ok", "failed", "killed"}
    /\ runs \in 0..MaxRuns
    /\ processes \in Seq(Process)
    /\ DOMAIN registry \subseteq ValidPaths
    /\ registry \in [DOMAIN registry -> Seq({LowBytes[w] : w \in DOMAIN LowBytes})]

Init ==
    /\ script \in Scripts
    /\ at = "off"
    /\ pos = 1
    /\ outcome = "none"
    /\ runs = 0
    /\ processes = <<>>
    /\ registry = [p \in {} |-> Unset]

\* The end of main: the exit code tells "ok" from "failed".
End(how) == at' = "off" /\ outcome' = how

\* The line is done.
NextLine == at' = "line" /\ pos' = pos + 1 /\ UNCHANGED outcome

\* main; the script file may not open.
Start ==
    /\ at = "off"
    /\ runs < MaxRuns
    /\ runs' = runs + 1
    /\ pos' = 1
    /\ \/ at' = "line" /\ outcome' = "none"
       \/ End("failed")
    /\ UNCHANGED <<script, processes, registry>>

\* A mutant of ReadLine: the end of the script is not noticed.
ReadLinePastEnd ==
    /\ at = "line"
    /\ IF pos > Len(script) THEN NextLine
       ELSE IF script[pos].kind = "unreadable" THEN End("failed") /\ UNCHANGED pos
       ELSE Commands[pos].do \in {"nothing", "log"} /\ NextLine
    /\ UNCHANGED <<script, runs, processes, registry>>

\* The end of the script, a line that is not UTF-8, or one that has no effect: it
\* is not accepted, or it is a log command.
ReadLine ==
    /\ at = "line"
    /\ IF pos > Len(script) THEN End("ok") /\ UNCHANGED pos
       ELSE IF script[pos].kind = "unreadable" THEN End("failed") /\ UNCHANGED pos
       ELSE Commands[pos].do \in {"nothing", "log"} /\ NextLine
    /\ UNCHANGED <<script, runs, processes, registry>>

AtCommand(do) ==
    /\ at = "line"
    /\ pos <= Len(script)
    /\ script[pos].kind # "unreadable"
    /\ Commands[pos].do = do

\* spawn_process: the process is created suspended ...
CreateProcess(ok) ==
    /\ AtCommand("spawn")
    /\ IF ok
       THEN /\ processes' = Append(processes, [exe |-> Commands[pos].exe,
                                               state |-> "suspended", run |-> runs])
            /\ at' = "resume"
            /\ UNCHANGED outcome
       ELSE End("failed") /\ UNCHANGED processes
    /\ UNCHANGED <<script, pos, runs, registry>>

\* A mutant of ResumeThread: a failure is logged and the script goes on.
ResumeThreadUnchecked(ok) ==
    /\ at = "resume"
    /\ processes' = IF ok THEN [processes EXCEPT ![Len(processes)].state = "running"]
                          ELSE processes
    /\ NextLine
    /\ UNCHANGED <<script, runs, registry>>

\* ... and then resumed.  When that fails its handles are closed and it stays as it is.
ResumeThread(ok) ==
    /\ at = "resume"
    /\ IF ok
       THEN /\ processes' = [processes EXCEPT ![Len(processes)].state = "running"]
            /\ NextLine
       ELSE End("failed") /\ UNCHANGED <<pos, processes>>
    /\ UNCHANGED <<script, runs, registry>>

\* set_registry_value opens or creates the key ...
CreateKey(ok) ==
    /\ AtCommand("regset")
    /\ LET p == Commands[pos].path
       IN IF ok /\ p \in ValidPaths
          THEN /\ registry' = [q \in DOMAIN registry \cup {p} |->
                                IF q \in DOMAIN registry THEN registry[q] ELSE Unset]
               /\ at' = "value"
               /\ UNCHANGED outcome
          ELSE End("failed") /\ UNCHANGED registry
    /\ UNCHANGED <<script, pos, runs, processes>>

\* A mutant of SetValue: a value that cannot be set does not end the script.
SetValueUnchecked(ok) ==
    /\ at = "value"
    /\ registry' = IF ok
                   THEN [registry EXCEPT ![Commands[pos].path] =
                                            data_bytes(Commands[pos].value)]
                   ELSE registry
    /\ NextLine
    /\ UNCHANGED <<script, runs, processes>>

\* ... and then gives it its value.
SetValue(ok) ==
    /\ at = "value"
    /\ IF ok
       THEN /\ registry' = [registry EXCEPT ![Commands[pos].path] =
                                                data_bytes(Commands[pos].value)]
            /\ NextLine
       ELSE End("failed") /\ UNCHANGED <<pos, registry>>
    /\ UNCHANGED <<script, runs, processes>>

Kill ==
    /\ at # "off"
    /\ End("killed")
    /\ UNCHANGED <<script, pos, runs, processes, registry>>

Next ==
    \/ Start
    \/ ReadLine
    \/ \E ok \in BOOLEAN : CreateProcess(ok)
    \/ \E ok \in BOOLEAN : ResumeThread(ok)
    \/ \E ok \in BOOLEAN : CreateKey(ok)
    \/ \E ok \in BOOLEAN : SetValue(ok)
    \/ Kill

Spec == Init /\ [][Next]_vars

----------------------------------------------------------------------------
(* Properties *)

Setting(i, p) == Commands[i].do = "regset" /\ Commands[i].path = p

done == pos - 1

\* Each key that the first done commands set has the bytes of the last value they
\* give it.
KeysOfPrefix ==
    \A p \in ValidPaths, i \in 1..done :
        Setting(i, p) /\ (\A j \in i + 1..done : ~Setting(j, p)) =>
            p \in DOMAIN registry /\ registry[p] = data_bytes(Commands[i].value)

Spawns == {i \in 1..done : Commands[i].do = "spawn"}

\* The processes of the latest run.
Mine == {q \in 1..Len(processes) : processes[q].run = runs}

Rank(i, S) == Cardinality({j \in S : j <= i})

\* The processes of the first done commands run, in their order; at most the one of
\* the next command is there as well, suspended.
ProcessesOfPrefix ==
    /\ Cardinality(Mine) \in {Cardinality(Spawns), Cardinality(Spawns) + 1}
    /\ \A q \in Mine :
         /\ \A i \in Spawns : Rank(q, Mine) = Rank(i, Spawns) =>
              processes[q].exe = Commands[i].exe /\ processes[q].state = "running"
         /\ Rank(q, Mine) > Cardinality(Spawns) =>
              processes[q].exe = Commands[pos].exe /\ processes[q].state = "suspended"

\* What the latest run did to the machine is what the accepted commands of a prefix of
\* the script do, of the whole script if the run ended well: so a failed run is a run
\* cut short, and a later good one sets every key again whatever the earlier runs
\* left.  It repairs nothing else: a process an earlier run left suspended stays so.
\* Accepted is what parse_line takes, which setenv is not: the settings of
\* system/init.rc:13-14 have no effect in a run that reports success.
EffectsOfPrefix ==
    /\ KeysOfPrefix
    /\ ProcessesOfPrefix
    /\ outcome = "ok" => done = Len(script)

\* A process that was created and never resumed is the last one of its run, and
\* the daemon does not report that run as a success.
SuspendedEndsItsRun ==
    \A i \in 1..Len(processes) : processes[i].state = "suspended" =>
        /\ \A j \in i + 1..Len(processes) : processes[j].run # processes[i].run
        /\ processes[i].run = runs => outcome # "ok"
=============================================================================
