----------------------------- MODULE Installer -----------------------------
(***************************************************************************)
(* The installer's back end (adk/ossetup): DeploymentEngine, which mounts  *)
(* a Windows image and commits it, DriverInjector, which copies drivers    *)
(* into a mounted image and the bootloader to what it takes for the EFI    *)
(* partition, and RegistryPatcher, which writes pending values into the    *)
(* image's hive.  RunDISM, RunCommand and RunRegCommand build a command    *)
(* line and answer true without starting it, "to indicate the command      *)
(* would be executed": the model gives each command the effect that line   *)
(* would have.                                                             *)
(*                                                                         *)
(* One thread makes the calls.  Cancel may come between any two steps of a *)
(* call, from a progress callback or from another thread, and so between   *)
(* the test of m_cancelled and the command it lets through; the program    *)
(* may be ended at any moment (Kill) and started again; what is on the     *)
(* disks, and what is mounted there, outlives it.                          *)
(***************************************************************************)
EXTENDS Naturals, Sequences, FiniteSets, SequencesExt

CONSTANTS
    BtrfsDrivers,    \* directories of driverSourcePath whose name has "btrfs"
    QuibbleDrivers,  \* those whose name has "quibble"
    FilesOf,         \* the files of each of these directories
    Settings,        \* what the five setters push: records [key, value, type]
    MaxComponents,   \* bound on components.size()
    NHives,          \* number of hive files of one ApplyRegistryHives
    MaxInstalls,     \* bound on calls of InstallLibreNT
    MaxCalls         \* bound on calls of the other operations

Drivers == BtrfsDrivers \cup QuibbleDrivers

ASSUME InstallerAssumption ==
    /\ BtrfsDrivers \cap QuibbleDrivers = {}
    /\ IsFiniteSet(Drivers)
    /\ FilesOf \in [Drivers -> SUBSET UNION {FilesOf[d] : d \in Drivers}]
    /\ \A s \in Settings : DOMAIN s = {"key", "value", "type"}
    /\ MaxComponents \in Nat /\ NHives \in Nat
    /\ MaxInstalls \in Nat /\ MaxCalls \in Nat

VARIABLES
    at,          \* the step the thread is at, "idle" between two calls
    m_cancelled,
    command,     \* at "dism": the command that passed the test of m_cancelled
    late,        \* history: commands executed since m_cancelled was set
    image,       \* what became of the image at each mount path
    installs,    \* calls of InstallLibreNT so far; call n mounts at path n
    left,        \* components, hives or drivers the call still has to go through,
                 \* or the driver it takes the bootloader from
    result,      \* what each call of InstallLibreNT returned
    imported,    \* hive files imported into the image of path 0
    m_drivers,
    driverFiles, \* files in Windows\System32\Drivers of the image of path 0
    x,           \* the volume the letter X: names
    bootFiles,   \* files in \EFI\Boot of each volume
    bcd,         \* the bootloader directories {bootmgr} was set to quibble.efi for
    m_pendingValues,
    hive,        \* the values of the image's SOFTWARE hive
    loaded,      \* the hive is loaded as HKLM\LibreNTHive
    calls,       \* calls of other operations so far
    stopped      \* history: calls of InstallLibreNT that were cancelled or killed,
                 \* and 0 once the program was ended in another operation

dism == <<command, late, image, imported>>
engine == <<m_cancelled, dism, installs, result, stopped>>
injector == <<m_drivers, driverFiles, x, bootFiles, bcd>>
patcher == <<m_pendingValues, hive, loaded>>
vars == <<at, left, calls, engine, injector, patcher>>

\* Path 0 is one a caller mounts itself; InstallLibreNT names a new one each
\* time, after the tick count.
Paths == 0..MaxInstalls

Files == UNION {FilesOf[d] : d \in Drivers}

\* The partition the bootloader is meant for, and any other volume.
Volumes == {"efi", "other"}

\* What a command does to its image; "hive" imports a hive file into it.
Outcomes == {"mounted", "committed", "discarded", "hive"}

\* The value of command while none is let through.
NoCommand == [path |-> 0, outcome |-> "mounted"]

\* A mutant of Stored: the value keeps the type it was pushed with.
StoredWithType(s) == s

\* WriteRegistryValue gives every value the type REG_SZ.
Stored(s) == [s EXCEPT !.type = "REG_SZ"]

TypeOK ==
    /\ at \in {"idle", "mount", "components", "commit", "hives", "dism",
               "inject", "efi", "patch"}
    /\ m_cancelled \in BOOLEAN
    /\ command \in [path : Paths, outcome : Outcomes]
    /\ late \in Nat
    /\ image \in [Paths -> {"none", "mounted", "committed", "discarded"}]
    /\ installs \in 0..MaxInstalls
    /\ left \in Nat
    /\ result \in [1..MaxInstalls -> {"none", "true", "false"}]
    /\ imported \in 0..NHives
    /\ m_drivers \in Seq(Drivers)
    /\ driverFiles \subseteq Files
    /\ x \in Volumes \cup {"nothing"}
    /\ bootFiles \in [Volumes -> SUBSET Files]
    /\ bcd \subseteq QuibbleDrivers
    /\ m_pendingValues \in Seq(Settings)
    /\ hive \subseteq {[s EXCEPT !.type = "REG_SZ"] : s \in Settings}
    /\ loaded \in BOOLEAN
    /\ calls \in 0..MaxCalls
    /\ stopped \subseteq Paths

Init ==
    /\ at = "idle"
    /\ m_cancelled = FALSE
    /\ command = NoCommand
    /\ late = 0
    /\ image = [p \in Paths |-> "none"]
    /\ installs = 0
    /\ left = 0
    /\ result = [n \in 1..MaxInstalls |-> "none"]
    /\ imported = 0
    /\ m_drivers = <<>>
    /\ driverFiles = {}
    /\ x \in Volumes \cup {"nothing"}
    /\ bootFiles = [v \in Volumes |-> {}]
    /\ bcd = {}
    /\ m_pendingValues = <<>>
    /\ hive = {}
    /\ loaded = FALSE
    /\ calls = 0
    /\ stopped = {}

\* A call of an operation other than InstallLibreNT.
Call ==
    /\ at = "idle"
    /\ calls < MaxCalls
    /\ calls' = calls + 1

----------------------------------------------------------------------------
(* DeploymentEngine *)

\* A mutant of RunDISM: the test of m_cancelled is forgotten.
RunDISMAnyway(path, outcome) ==
    /\ at' = "dism"
    /\ command' = [path |-> path, outcome |-> outcome]

\* The test at the head of RunDISM lets a command through; it is executed later, in
\* Execute.  Where m_cancelled refuses it, the caller has an alternative of its own.
RunDISM(path, outcome) ==
    /\ ~m_cancelled
    /\ at' = "dism"
    /\ command' = [path |-> path, outcome |-> outcome]

\* The thread is in InstallLibreNT.
Installing ==
    \/ at \in {"mount", "components", "commit"}
    \/ at = "dism" /\ command.path # 0

\* InstallLibreNT returns r.
Return(r) ==
    /\ result' = [result EXCEPT ![installs] = r]
    /\ at' = "idle"

\* What the command let through does.
Effect ==
    IF command.outcome = "hive"
    THEN imported' = NHives - left + 1 /\ UNCHANGED image
    ELSE /\ image' = [image EXCEPT ![command.path] = command.outcome]
         /\ UNCHANGED imported

\* The command is executed, whatever m_cancelled is by now, and RunDISM returns true.
Execute ==
    /\ at = "dism"
    /\ Effect
    /\ command' = NoCommand
    /\ late' = IF m_cancelled THEN late + 1 ELSE 0
    /\ \/ /\ command.outcome = "hive"
          /\ at' = "hives" /\ left' = left - 1 /\ UNCHANGED result
       \/ /\ command.outcome # "hive" /\ command.path = 0
          /\ at' = "idle" /\ UNCHANGED <<left, result>>
       \/ /\ command.path # 0 /\ command.outcome = "mounted"
          /\ at' = "components" /\ UNCHANGED <<left, result>>
       \/ /\ command.path # 0 /\ command.outcome = "committed"
          /\ Return("true") /\ UNCHANGED left
    /\ UNCHANGED <<m_cancelled, installs, stopped, calls, injector, patcher>>

\* The call forgets an earlier Cancel; without an install.wim or install.esd on
\* the drive it returns false before it mounts anything.
InstallLibreNT(n) ==
    /\ at = "idle"
    /\ installs < MaxInstalls
    /\ installs' = installs + 1
    /\ m_cancelled' = FALSE
    /\ late' = 0
    /\ left' = n
    /\ \/ at' = "mount" /\ UNCHANGED result
       \/ /\ result' = [result EXCEPT ![installs + 1] = "false"]
          /\ at' = "idle"
    /\ UNCHANGED <<command, image, imported, stopped, calls, injector, patcher>>

InstallMount ==
    /\ at = "mount"
    /\ \/ RunDISM(installs, "mounted") /\ UNCHANGED result
       \/ m_cancelled /\ Return("false") /\ UNCHANGED command
    /\ UNCHANGED <<m_cancelled, late, image, imported, installs, left, stopped, calls,
                   injector, patcher>>

\* One turn of the loop.  A cancelled installation asks for its image to be
\* unmounted, which RunDISM refuses: the flag is still set.
InstallComponent ==
    /\ at = "components"
    /\ \/ left = 0 /\ at' = "commit" /\ UNCHANGED <<left, result>>
       \/ left # 0 /\ m_cancelled /\ Return("false") /\ UNCHANGED left
       \/ left # 0 /\ ~m_cancelled /\ left' = left - 1 /\ UNCHANGED <<at, result>>
    /\ UNCHANGED <<m_cancelled, dism, installs, stopped, calls, injector, patcher>>

\* A mutant of InstallCommit: the result of the commit is not looked at.
InstallCommitUnchecked ==
    /\ at = "commit"
    /\ \/ RunDISM(installs, "committed") /\ UNCHANGED result
       \/ m_cancelled /\ Return("true") /\ UNCHANGED command
    /\ UNCHANGED <<m_cancelled, late, image, imported, installs, left, stopped, calls,
                   injector, patcher>>

InstallCommit ==
    /\ at = "commit"
    /\ \/ RunDISM(installs, "committed") /\ UNCHANGED result
       \/ m_cancelled /\ Return("false") /\ UNCHANGED command
    /\ UNCHANGED <<m_cancelled, late, image, imported, installs, left, stopped, calls,
                   injector, patcher>>

\* MountImage and UnmountImage, called from outside.
MountImage ==
    /\ Call
    /\ image[0] # "mounted"
    /\ RunDISM(0, "mounted") \/ (m_cancelled /\ UNCHANGED <<at, command>>)
    /\ UNCHANGED <<left, m_cancelled, late, image, imported, installs, result, stopped,
                   injector, patcher>>

UnmountImage(commit) ==
    /\ Call
    /\ image[0] = "mounted"
    /\ \/ RunDISM(0, IF commit THEN "committed" ELSE "discarded")
       \/ m_cancelled /\ UNCHANGED <<at, command>>
    /\ UNCHANGED <<left, m_cancelled, late, image, imported, installs, result, stopped,
                   injector, patcher>>

ApplyRegistryHives ==
    /\ Call
    /\ image[0] = "mounted"
    /\ at' = "hives"
    /\ left' = NHives
    /\ UNCHANGED <<engine, injector, patcher>>

\* The next hive file; the first one RunDISM refuses ends the call.
ImportHive ==
    /\ at = "hives"
    /\ \/ left # 0 /\ RunDISM(0, "hive")
       \/ (left = 0 \/ m_cancelled) /\ at' = "idle" /\ UNCHANGED command
    /\ UNCHANGED <<left, m_cancelled, late, image, imported, installs, result, stopped,
                   calls, injector, patcher>>

\* An installation whose commit has been let through is no longer stopped.
Cancel ==
    /\ ~m_cancelled
    /\ m_cancelled' = TRUE
    /\ stopped' = IF Installing /\ ~(at = "dism" /\ command.outcome = "committed")
                  THEN stopped \cup {installs} ELSE stopped
    /\ UNCHANGED <<at, left, dism, installs, result, calls, injector, patcher>>

\* A mutant of Copied: files that are there are overwritten.
CopiedOver(have, files, ok) ==
    IF ok THEN {have \cup files} ELSE {have \cup part : part \in SUBSET files}

\* What fs::copy of files into a directory that holds have can do: it does not
\* overwrite, so it throws at the first file that is there; an I/O error can end
\* it as well.  The files copied before stay.
Copied(have, files, ok) ==
    IF ok
    THEN IF have \cap files = {} THEN {have \cup files} ELSE {}
    ELSE {have \cup part : part \in SUBSET files}

\* The exception of a failed copy becomes the result false.
CopyFilesToImage(d) ==
    /\ Call
    /\ \E ok \in BOOLEAN : driverFiles' \in Copied(driverFiles, FilesOf[d], ok)
    /\ UNCHANGED <<at, left, engine, m_drivers, x, bootFiles, bcd, patcher>>

----------------------------------------------------------------------------
(* DriverInjector *)

IsQuibble(d) == d \in QuibbleDrivers

IsBtrfs(d) == d \in BtrfsDrivers

\* The directory is listed in any order; what an earlier call found stays.
Initialize ==
    /\ Call
    /\ \E found \in SetToSeqs(Drivers) : m_drivers' = m_drivers \o found
    /\ UNCHANGED <<at, left, engine, driverFiles, x, bootFiles, bcd, patcher>>

InjectBtrfsDrivers ==
    /\ Call
    /\ at' = "inject"
    /\ left' = Len(m_drivers)
    /\ UNCHANGED <<engine, injector, patcher>>

\* One turn of the loop; a copy that fails ends the call.
CopyDriverFiles ==
    LET d == m_drivers[Len(m_drivers) - left + 1]
    IN /\ at = "inject"
       /\ IF left = 0
          THEN at' = "idle" /\ UNCHANGED <<left, driverFiles>>
          ELSE IF ~IsBtrfs(d)
          THEN left' = left - 1 /\ UNCHANGED <<at, driverFiles>>
          ELSE \E ok \in BOOLEAN :
                 /\ driverFiles' \in Copied(driverFiles, FilesOf[d], ok)
                 /\ at' = IF ok THEN at ELSE "idle"
                 /\ left' = IF ok THEN left - 1 ELSE 0
       /\ UNCHANGED <<calls, engine, m_drivers, x, bootFiles, bcd, patcher>>

\* The volume X: names, if any, is what the machine's user or another program made it.
AssignLetter(v) ==
    /\ at = "idle"
    /\ x # v
    /\ x' = v
    /\ UNCHANGED <<at, left, calls, engine, m_drivers, driverFiles, bootFiles, bcd,
                   patcher>>

\* The first quibble directory of the list; without one the call returns false.
\* MountEFIPartition builds a script that assigns X: to the partition and runs
\* "diskpart /s" without it: X: goes on naming what it named.
InstallQuibbleBootloader ==
    /\ Call
    /\ \E i \in 1..Len(m_drivers) :
         /\ IsQuibble(m_drivers[i])
         /\ \A j \in 1..i - 1 : ~IsQuibble(m_drivers[j])
         /\ left' = i
    /\ at' = "efi"
    /\ UNCHANGED <<engine, injector, patcher>>

Bootloader == m_drivers[left]

\* The \EFI\Boot directories after a copy of the bootloader to X:.  Without a volume
\* of that name no file is copied, which fails unless there is none to copy.
BootCopied(ok) ==
    IF x = "nothing"
    THEN IF ok /\ FilesOf[Bootloader] # {} THEN {} ELSE {bootFiles}
    ELSE {[bootFiles EXCEPT ![x] = now] :
             now \in Copied(bootFiles[x], FilesOf[Bootloader], ok)}

\* A mutant of CopyBootloader: the boot entry is written before the files are copied.
UpdateBCDFirst ==
    /\ at = "efi"
    /\ \E ok \in BOOLEAN : bootFiles' \in BootCopied(ok)
    /\ bcd' = bcd \cup {Bootloader}
    /\ x' = "nothing"
    /\ at' = "idle"
    /\ UNCHANGED <<left, calls, engine, m_drivers, driverFiles, patcher>>

\* The copy, UpdateBCD unless the copy threw, and mountvol X: /D either way.
CopyBootloader ==
    /\ at = "efi"
    /\ \E ok \in BOOLEAN :
         /\ bootFiles' \in BootCopied(ok)
         /\ bcd' = IF ok THEN bcd \cup {Bootloader} ELSE bcd
    /\ x' = "nothing"
    /\ at' = "idle"
    /\ UNCHANGED <<left, calls, engine, m_drivers, driverFiles, patcher>>

----------------------------------------------------------------------------
(* RegistryPatcher *)

\* SetShell, DisableWindowsDefender, EnableVerboseBoot, DisableTelemetry and
\* SetPerformanceOptions.
SetValue(s) ==
    /\ Call
    /\ m_pendingValues' = Append(m_pendingValues, s)
    /\ UNCHANGED <<at, left, engine, injector, hive, loaded>>

ApplyPatches ==
    /\ Call
    /\ at' = "patch"
    /\ loaded' = TRUE
    /\ UNCHANGED <<left, engine, injector, m_pendingValues, hive>>

\* The hive once these values are written, in their order: the last one of a key stays.
Written(values) ==
    LET later(i) == {values[j].key : j \in i + 1..Len(values)}
    IN {s \in hive : s.key \notin later(0)} \cup
       {Stored(values[i]) : i \in {j \in 1..Len(values) : values[j].key \notin later(j)}}

\* A mutant of WriteAndUnload: with nothing to write the call returns at once, and
\* leaves the hive loaded.
WriteIfAny ==
    /\ at = "patch"
    /\ hive' = Written(m_pendingValues)
    /\ loaded' = (m_pendingValues = <<>>)
    /\ at' = "idle"
    /\ UNCHANGED <<left, calls, engine, injector, m_pendingValues>>

\* None of the values is taken off the list.
WriteAndUnload ==
    /\ at = "patch"
    /\ hive' = Written(m_pendingValues)
    /\ loaded' = FALSE
    /\ at' = "idle"
    /\ UNCHANGED <<left, calls, engine, injector, m_pendingValues>>

----------------------------------------------------------------------------

\* The program is ended and started again.  What it was at may be done in part: some
\* files copied, the boot entry written but not the letter taken away, some values
\* written; the command let through may have been carried out and not reported.
Kill ==
    /\ at' = "idle"
    /\ m_cancelled' = FALSE
    /\ command' = NoCommand
    /\ late' = 0
    /\ left' = 0
    /\ m_drivers' = <<>>
    /\ m_pendingValues' = <<>>
    /\ \/ UNCHANGED <<bootFiles, bcd, x>>
       \/ \E ok \in BOOLEAN :
             /\ at = "efi"
             /\ bootFiles' \in BootCopied(ok)
             /\ bcd' = IF ok THEN bcd \cup {Bootloader} ELSE bcd
             /\ x' \in {x, "nothing"}
    /\ hive' \in IF at = "patch"
                 THEN {Written(SubSeq(m_pendingValues, 1, n)) :
                          n \in 0..Len(m_pendingValues)}
                 ELSE {hive}
    /\ stopped' = IF at = "idle" THEN stopped
                  ELSE stopped \cup {IF Installing THEN installs ELSE 0}
    /\ \/ UNCHANGED <<image, imported>>
       \/ at = "dism" /\ Effect
    /\ UNCHANGED <<calls, installs, result, driverFiles, loaded>>

Next ==
    \/ \E n \in 0..MaxComponents : InstallLibreNT(n)
    \/ InstallMount
    \/ InstallComponent
    \/ InstallCommit
    \/ Execute
    \/ MountImage
    \/ \E commit \in BOOLEAN : UnmountImage(commit)
    \/ ApplyRegistryHives
    \/ ImportHive
    \/ Cancel
    \/ \E d \in Drivers : CopyFilesToImage(d)
    \/ Initialize
    \/ InjectBtrfsDrivers
    \/ CopyDriverFiles
    \/ \E v \in Volumes \cup {"nothing"} : AssignLetter(v)
    \/ InstallQuibbleBootloader
    \/ CopyBootloader
    \/ \E s \in Settings : SetValue(s)
    \/ ApplyPatches
    \/ WriteAndUnload
    \/ Kill

Spec == Init /\ [][Next]_vars

----------------------------------------------------------------------------
(* Properties *)

\* InstallLibreNT tells the truth: it returns true only for an image that was
\* committed and false only for one that was not, and an installation that was
\* cancelled before its commit was let through is not reported installed.
ReportedIsCommitted ==
    \A n \in 1..MaxInstalls :
        /\ result[n] = "true" => image[n] = "committed" /\ n \notin stopped
        /\ result[n] = "false" => image[n] # "committed"

\* Neither the image of an installation that is over nor the hive stays mounted
\* behind an operation that was neither cancelled nor killed.  (A cancelled
\* installation does leave its image mounted: RunDISM refuses to unmount it.)
ReleasesWhatItMounts ==
    /\ \A n \in 1..MaxInstalls :
         image[n] = "mounted" /\ ~(Installing /\ n = installs) => n \in stopped
    /\ loaded /\ at # "patch" => 0 \in stopped

\* From Cancel until the next installation at most one command is executed, the one
\* the test of m_cancelled had let through; every later call of any operation, and
\* the rest of this one, leaves the images alone.
AtMostOneAfterCancel == late <= 1

\* {bootmgr} is set to quibble.efi only for a bootloader directory all of whose files
\* are in \EFI\Boot of one volume, whichever copies failed or were killed before:
\* the one X: named, which nothing makes the EFI partition.
BootEntryHasItsFiles ==
    \A d \in bcd : \E v \in Volumes : FilesOf[d] \subseteq bootFiles[v]

\* fs::copy does not overwrite: while X: names no volume, or one that has a file of
\* the bootloader already, of a copy that broke off for instance, no call sets
\* {bootmgr} for that bootloader.
BrokenCopyIsFinal ==
    [][\A d \in QuibbleDrivers :
          FilesOf[d] # {} /\ (x = "nothing" \/ FilesOf[d] \cap bootFiles[x] # {}) =>
              (d \in bcd' => d \in bcd)]_vars
=============================================================================
