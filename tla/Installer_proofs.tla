-------------------------- MODULE Installer_proofs --------------------------
(***************************************************************************)
(* What the installer's back end reports, what it leaves mounted and what  *)
(* its boot entry is set for, for any drivers, files, settings and number  *)
(* of installations, calls, cancellations and ends of the program.  Three  *)
(* invariants carry the theorems: the state of the installation in         *)
(* progress and those before it, the bootloader in progress, and the       *)
(* commands executed since the last cancellation.                          *)
(***************************************************************************)
EXTENDS Installer, FiniteSetTheorems, TLAPS

\* A commit has been let through and not yet been executed.
Committing == at = "dism" /\ command.outcome = "committed"

\* The installation in progress has reported nothing and committed nothing; those
\* to come have not begun; those that are over left no image mounted unless they
\* were cancelled or killed.
InstallInv ==
    /\ Installing =>
         /\ installs \in 1..MaxInstalls
         /\ result[installs] = "none"
         /\ image[installs] # "committed"
         /\ at = "mount" => image[installs] = "none"
         /\ installs \in stopped <=> m_cancelled /\ ~Committing
    /\ at = "dism" =>
         /\ command.path \in {0, installs}
         /\ command.path # 0 => command.outcome \in {"mounted", "committed"}
    /\ \A n \in 1..MaxInstalls : n > installs =>
         result[n] = "none" /\ image[n] = "none" /\ n \notin stopped
    /\ ReportedIsCommitted
    /\ \A n \in 1..MaxInstalls :
         image[n] = "mounted" /\ ~(Installing /\ n = installs) => n \in stopped

\* The steps that leave the engine as it is.
OtherSteps ==
    \/ ApplyRegistryHives
    \/ \E d \in Drivers : CopyFilesToImage(d)
    \/ Initialize \/ InjectBtrfsDrivers \/ CopyDriverFiles
    \/ \E v \in Volumes \cup {"nothing"} : AssignLetter(v)
    \/ InstallQuibbleBootloader \/ CopyBootloader
    \/ \E s \in Settings : SetValue(s)
    \/ ApplyPatches \/ WriteAndUnload

\* The hive is in use by the call in progress, or was left behind by one that was
\* killed.
HiveInv == loaded /\ at # "patch" => 0 \in stopped

\* No command was executed since m_cancelled was set while one that was let through
\* before waits to be.
LateInv ==
    /\ late <= 1
    /\ ~m_cancelled \/ at = "dism" => late = 0

\* The bootloader in progress comes from a quibble directory; no more hives are
\* left than there are.
LoopInv ==
    /\ at = "efi" => m_drivers[left] \in QuibbleDrivers
    /\ at = "hives" => left <= NHives
    /\ at = "dism" /\ command.outcome = "hive" => left \in 1..NHives

----------------------------------------------------------------------------
(* Types *)

\* A directory listing is a sequence of drivers.
LEMMA ListingType ==
    ASSUME NEW found \in SetToSeqs(Drivers) PROVE found \in Seq(Drivers)
<1>1. IsFiniteSet(Drivers)
  BY InstallerAssumption DEF InstallerAssumption
<1>2. Cardinality(Drivers) \in Nat
  BY <1>1, FS_CardinalityType
<1>3. found \in [1..Cardinality(Drivers) -> Drivers]
  BY DEF SetToSeqs
<1> QED
  BY <1>2, <1>3

\* A copy adds files of its own only, and all of them when it succeeds.
LEMMA CopiedFacts ==
    ASSUME NEW have, NEW files, NEW ok \in BOOLEAN, NEW now \in Copied(have, files, ok)
    PROVE  /\ have \subseteq now
           /\ now \subseteq have \cup files
           /\ ok => files \subseteq now
  BY DEF Copied

\* The files of a driver are files.
LEMMA DriverFiles == \A d \in Drivers : FilesOf[d] \subseteq Files
  BY DEF Files

\* What a command does to the images and hives.
LEMMA EffectType ==
    ASSUME TypeOK, LoopInv, at = "dism", Effect
    PROVE  /\ image' \in [Paths -> {"none", "mounted", "committed", "discarded"}]
           /\ imported' \in 0..NHives
<1>1. command.path \in Paths /\ command.outcome \in Outcomes
  BY DEF TypeOK
<1>2. CASE command.outcome = "hive"
  <2>1. /\ left \in 1..NHives /\ NHives \in Nat
        /\ imported' = NHives - left + 1 /\ image' = image
    BY <1>2, InstallerAssumption DEF Effect, LoopInv, InstallerAssumption
  <2> QED
    BY <2>1 DEF TypeOK
<1>3. CASE command.outcome # "hive"
  <2>1. /\ image' = [image EXCEPT ![command.path] = command.outcome] /\ imported' = imported
        /\ command.outcome \in {"none", "mounted", "committed", "discarded"}
    BY <1>1, <1>3 DEF Effect, Outcomes
  <2> QED
    BY <1>1, <2>1 DEF TypeOK
<1> QED
  BY <1>2, <1>3

\* A test that lets a command through.
LEMMA RunDISMType ==
    ASSUME TypeOK, NEW path \in Paths, NEW outcome \in Outcomes, RunDISM(path, outcome)
    PROVE  command' \in [path : Paths, outcome : Outcomes] /\ at' = "dism"
  BY DEF RunDISM

\* What a call that asks for a command, or is refused it, leaves well typed.
LEMMA AskType ==
    ASSUME TypeOK, NEW path \in Paths, NEW outcome \in Outcomes, NEW then \in {"idle", "hives"},
           \/ RunDISM(path, outcome) /\ result' = result
           \/ command' = command /\ Return("false")
           \/ command' = command /\ result' = result /\ at' = then
    PROVE  /\ command' \in [path : Paths, outcome : Outcomes]
           /\ at' \in {"dism", "idle", "hives"}
           /\ result' \in [1..MaxInstalls -> {"none", "true", "false"}]
  BY RunDISMType DEF TypeOK, Return

LEMMA InitType == Init => TypeOK
  BY InstallerAssumption
     DEF Init, TypeOK, InstallerAssumption, Paths, Volumes, NoCommand, Outcomes

\* The bootloader is found before its partition is mounted, and nothing touches the
\* list until it is copied; the hives left only get fewer.
LEMMA NextLoop == TypeOK /\ LoopInv /\ [Next]_vars => LoopInv'
<1> SUFFICES ASSUME TypeOK, LoopInv, [Next]_vars PROVE LoopInv'
  OBVIOUS
<1> USE InstallerAssumption DEF InstallerAssumption
<1>1. CASE InstallQuibbleBootloader
  BY <1>1 DEF InstallQuibbleBootloader, LoopInv, IsQuibble, injector
<1>2. CASE ApplyRegistryHives
  BY <1>2 DEF ApplyRegistryHives, LoopInv
<1>3. CASE ImportHive
  BY <1>3 DEF ImportHive, RunDISM, LoopInv, TypeOK
<1>4. CASE Execute
  BY <1>4 DEF Execute, Return, LoopInv, TypeOK
<1>5. CASE InstallMount \/ InstallCommit \/ MountImage \/ \E c \in BOOLEAN : UnmountImage(c)
  <2>1. at' \notin {"efi", "hives"} /\ (at' = "dism" => command'.outcome # "hive")
    BY <1>5 DEF InstallMount, InstallCommit, MountImage, UnmountImage, Return, Call, RunDISM
  <2> QED
    BY <2>1 DEF LoopInv
<1>6. CASE Cancel \/ UNCHANGED vars
  BY <1>6 DEF Cancel, vars, injector, engine, dism, LoopInv
<1>7. CASE (\E n \in 0..MaxComponents : InstallLibreNT(n)) \/ InstallComponent \/ Kill
  <2>1. at' \notin {"efi", "hives", "dism"}
    BY <1>7 DEF InstallLibreNT, InstallComponent, Kill, Return
  <2> QED
    BY <2>1 DEF LoopInv
<1>8. CASE OtherSteps /\ ~ApplyRegistryHives /\ ~InstallQuibbleBootloader
  <2>1. at' \notin {"efi", "hives", "dism"}
    BY <1>8 DEF OtherSteps, Call, CopyFilesToImage, Initialize, InjectBtrfsDrivers,
         CopyDriverFiles, AssignLetter, CopyBootloader, SetValue, ApplyPatches,
         WriteAndUnload
  <2> QED
    BY <2>1 DEF LoopInv
<1> QED
  BY <1>1, <1>2, <1>3, <1>4, <1>5, <1>6, <1>7, <1>8 DEF Next, OtherSteps

\* What a copy of the bootloader, finished or not, leaves on the volumes.
LEMMA BootloaderCopied ==
    ASSUME TypeOK, LoopInv, at = "efi", NEW ok \in BOOLEAN,
           bootFiles' \in BootCopied(ok)
    PROVE  /\ Bootloader \in QuibbleDrivers
           /\ bootFiles' \in [Volumes -> SUBSET Files]
           /\ \A v \in Volumes : bootFiles[v] \subseteq bootFiles'[v]
           /\ ok => \E v \in Volumes : FilesOf[Bootloader] \subseteq bootFiles'[v]
<1>1. Bootloader \in QuibbleDrivers /\ Bootloader \in Drivers
  BY DEF LoopInv, Bootloader, Drivers
<1>2. bootFiles \in [Volumes -> SUBSET Files] /\ "efi" \in Volumes
  BY DEF TypeOK, Volumes
<1>3. CASE x = "nothing"
  <2>1. bootFiles' = bootFiles /\ (ok => FilesOf[Bootloader] = {})
    BY <1>3 DEF BootCopied
  <2> QED
    BY <1>1, <1>2, <2>1
<1>4. CASE x # "nothing"
  <2>1. x \in Volumes
    BY <1>4 DEF TypeOK
  <2>2. PICK now \in Copied(bootFiles[x], FilesOf[Bootloader], ok) :
          bootFiles' = [bootFiles EXCEPT ![x] = now]
    BY <1>4 DEF BootCopied
  <2>3. /\ bootFiles[x] \subseteq now
        /\ now \subseteq bootFiles[x] \cup FilesOf[Bootloader]
        /\ ok => FilesOf[Bootloader] \subseteq now
    BY <2>2, CopiedFacts
  <2>4. now \subseteq Files
    BY <1>1, <1>2, <2>1, <2>3, DriverFiles
  <2>5. bootFiles'[x] = now /\ \A v \in Volumes : v # x => bootFiles'[v] = bootFiles[v]
    BY <1>2, <2>1, <2>2
  <2> QED
    BY <1>1, <1>2, <2>1, <2>2, <2>3, <2>4, <2>5
<1> QED
  BY <1>3, <1>4

\* The values written are stored values of the settings pushed.
LEMMA HiveType ==
    ASSUME TypeOK, NEW values \in Seq(Settings)
    PROVE  Written(values) \subseteq {[s EXCEPT !.type = "REG_SZ"] : s \in Settings}
<1>1. \A i \in 1..Len(values) : values[i] \in Settings
  OBVIOUS
<1> QED
  BY <1>1, Zenon DEF TypeOK, Written, Stored

\* A step keeps the types; the files of the bootloader in progress are files
\* because it is one of the drivers.
LEMMA NextType == TypeOK /\ LoopInv /\ [Next]_vars => TypeOK'
<1> SUFFICES ASSUME TypeOK, LoopInv, [Next]_vars PROVE TypeOK'
  OBVIOUS
<1> USE InstallerAssumption
    DEF InstallerAssumption, engine, dism, injector, patcher, Paths, Outcomes, NoCommand
<1>1. CASE \E n \in 0..MaxComponents : InstallLibreNT(n)
  <2> PICK n \in 0..MaxComponents : InstallLibreNT(n)
    BY <1>1
  <2>1. installs' \in 0..MaxInstalls /\ left' \in Nat
    BY DEF InstallLibreNT, TypeOK
  <2>2. result' \in [1..MaxInstalls -> {"none", "true", "false"}]
    BY DEF InstallLibreNT, TypeOK
  <2> QED
    BY <2>1, <2>2 DEF InstallLibreNT, TypeOK
<1>2. CASE InstallMount
  <2>1. installs \in Paths /\ "mounted" \in Outcomes
    BY DEF TypeOK
  <2>2. /\ command' \in [path : Paths, outcome : Outcomes]
        /\ at' \in {"dism", "idle", "hives"}
        /\ result' \in [1..MaxInstalls -> {"none", "true", "false"}]
    BY <1>2, <2>1, AskType DEF InstallMount
  <2> QED
    BY <1>2, <2>2 DEF InstallMount, TypeOK
<1>3. CASE InstallComponent
  <2>1. /\ at' \in {"commit", "idle", "components"} /\ left' \in Nat
        /\ result' \in [1..MaxInstalls -> {"none", "true", "false"}]
    BY <1>3 DEF InstallComponent, Return, TypeOK
  <2> QED
    BY <1>3, <2>1 DEF InstallComponent, TypeOK
<1>4. CASE InstallCommit
  <2>1. installs \in Paths /\ "committed" \in Outcomes
    BY DEF TypeOK
  <2>2. /\ command' \in [path : Paths, outcome : Outcomes]
        /\ at' \in {"dism", "idle", "hives"}
        /\ result' \in [1..MaxInstalls -> {"none", "true", "false"}]
    BY <1>4, <2>1, AskType DEF InstallCommit
  <2> QED
    BY <1>4, <2>2 DEF InstallCommit, TypeOK
<1>5. CASE MountImage
  <2>1. 0 \in Paths /\ "mounted" \in Outcomes
    OBVIOUS
  <2>2. command' \in [path : Paths, outcome : Outcomes] /\ at' \in {"dism", "idle", "hives"}
    BY <1>5, <2>1, AskType DEF MountImage, Call
  <2> QED
    BY <1>5, <2>2 DEF MountImage, Call, TypeOK
<1>6. CASE \E commit \in BOOLEAN : UnmountImage(commit)
  <2> PICK commit \in BOOLEAN : UnmountImage(commit)
    BY <1>6
  <2>1. 0 \in Paths /\ (IF commit THEN "committed" ELSE "discarded") \in Outcomes
    OBVIOUS
  <2>2. command' \in [path : Paths, outcome : Outcomes] /\ at' \in {"dism", "idle", "hives"}
    BY <2>1, AskType DEF UnmountImage, Call
  <2> QED
    BY <2>2 DEF UnmountImage, Call, TypeOK
<1>21. CASE Execute
  <2>1. image' \in [Paths -> {"none", "mounted", "committed", "discarded"}]
        /\ imported' \in 0..NHives
    BY <1>21, EffectType DEF Execute
  <2>2. left' \in Nat /\ late' \in Nat
    BY <1>21 DEF Execute, TypeOK, LoopInv
  <2>3. result' \in [1..MaxInstalls -> {"none", "true", "false"}]
    BY <1>21 DEF Execute, Return, TypeOK
  <2> QED
    BY <1>21, <2>1, <2>2, <2>3 DEF Execute, Return, TypeOK
<1>7. CASE ApplyRegistryHives
  BY <1>7 DEF ApplyRegistryHives, Call, TypeOK
<1>8. CASE ImportHive
  BY <1>8, RunDISMType, 0 \in Paths DEF ImportHive, TypeOK
<1>9. CASE Cancel
  BY <1>9 DEF Cancel, TypeOK
<1>10. CASE \E d \in Drivers : CopyFilesToImage(d)
  BY <1>10, CopiedFacts, DriverFiles DEF CopyFilesToImage, Call, TypeOK
<1>11. CASE Initialize
  BY <1>11, ListingType, SMTT(30) DEF Initialize, Call, TypeOK
<1>12. CASE InjectBtrfsDrivers
  BY <1>12 DEF InjectBtrfsDrivers, Call, TypeOK
<1>13. CASE CopyDriverFiles
  <2>1. left' \in Nat
    BY <1>13 DEF CopyDriverFiles, TypeOK
  <2>2. CASE left # 0 /\ IsBtrfs(m_drivers[Len(m_drivers) - left + 1])
    <3> DEFINE d == m_drivers[Len(m_drivers) - left + 1]
    <3>1. d \in Drivers
      BY <2>2 DEF IsBtrfs, Drivers
    <3>2. PICK ok \in BOOLEAN : driverFiles' \in Copied(driverFiles, FilesOf[d], ok)
      BY <1>13, <2>2 DEF CopyDriverFiles
    <3>3. driverFiles' \subseteq driverFiles \cup FilesOf[d]
      BY <3>2, CopiedFacts
    <3> QED
      BY <1>13, <2>1, <3>1, <3>3, DriverFiles DEF CopyDriverFiles, TypeOK
  <2> QED
    BY <1>13, <2>1, <2>2 DEF CopyDriverFiles, TypeOK
<1>14. CASE InstallQuibbleBootloader
  <2>1. left' \in Nat /\ at' = "efi" /\ calls' \in 0..MaxCalls
    BY <1>14 DEF InstallQuibbleBootloader, Call, TypeOK
  <2> QED
    BY <1>14, <2>1 DEF InstallQuibbleBootloader, TypeOK
<1>15. CASE CopyBootloader
  <2>1. bootFiles' \in [Volumes -> SUBSET Files] /\ bcd' \subseteq QuibbleDrivers
    BY <1>15, BootloaderCopied DEF CopyBootloader, TypeOK
  <2> QED
    BY <1>15, <2>1 DEF CopyBootloader, TypeOK
<1>22. CASE \E v \in Volumes \cup {"nothing"} : AssignLetter(v)
  BY <1>22 DEF AssignLetter, TypeOK
<1>16. CASE \E s \in Settings : SetValue(s)
  BY <1>16 DEF SetValue, Call, TypeOK
<1>17. CASE ApplyPatches
  BY <1>17 DEF ApplyPatches, Call, TypeOK
<1>18. CASE WriteAndUnload
  <2>1. hive' \subseteq {[s EXCEPT !.type = "REG_SZ"] : s \in Settings}
    BY <1>18, HiveType DEF WriteAndUnload, TypeOK
  <2> QED
    BY <1>18, <2>1 DEF WriteAndUnload, TypeOK
<1>19. CASE Kill
  <2>1. image' \in [Paths -> {"none", "mounted", "committed", "discarded"}]
        /\ imported' \in 0..NHives
    BY <1>19, EffectType DEF Kill, TypeOK
  <2>2. /\ bootFiles' \in [Volumes -> SUBSET Files] /\ bcd' \subseteq QuibbleDrivers
        /\ x' \in Volumes \cup {"nothing"}
    BY <1>19, BootloaderCopied DEF Kill, TypeOK
  <2>3. stopped' \subseteq Paths /\ m_drivers' \in Seq(Drivers) /\ m_pendingValues' \in Seq(Settings)
    BY <1>19 DEF Kill, TypeOK
  <2>4. command' \in [path : Paths, outcome : Outcomes]
    BY <1>19 DEF Kill
  <2>5. hive' \subseteq {[s EXCEPT !.type = "REG_SZ"] : s \in Settings}
    <3>1. CASE at = "patch"
      <4>1. PICK n \in 0..Len(m_pendingValues) :
              hive' = Written(SubSeq(m_pendingValues, 1, n))
        BY <1>19, <3>1 DEF Kill
      <4>2. SubSeq(m_pendingValues, 1, n) \in Seq(Settings)
        BY DEF TypeOK
      <4> QED
        BY <4>1, <4>2, HiveType
    <3> QED
      BY <1>19, <3>1 DEF Kill, TypeOK
  <2> QED
    BY <1>19, <2>1, <2>2, <2>3, <2>4, <2>5 DEF Kill, TypeOK
<1>20. CASE UNCHANGED vars
  BY <1>20 DEF vars, TypeOK
<1> QED
  BY <1>1, <1>2, <1>3, <1>4, <1>5, <1>6, <1>7, <1>8, <1>9, <1>10, <1>11, <1>12, <1>13, <1>14, <1>15, <1>16, <1>17, <1>18, <1>19, <1>20,
     <1>21, <1>22 DEF Next

\* Every reachable state of the installer is well typed.
THEOREM TypeCorrect == Spec => []TypeOK
<1>1. Init => LoopInv
  BY DEF Init, LoopInv
<1> QED
  BY <1>1, InitType, NextType, NextLoop, PTL DEF Spec
----------------------------------------------------------------------------
(* Installations *)

\* A step of a call that is no installation leaves the installations alone.
LEMMA OtherCall ==
    ASSUME TypeOK, InstallInv, ~Installing, ~Installing',
           UNCHANGED <<installs, result>>,
           \A n \in 1..MaxInstalls : image'[n] = image[n],
           \A n \in 1..MaxInstalls : n \in stopped' <=> n \in stopped,
           at' = "dism" => command'.path = 0
    PROVE  InstallInv'
  BY DEF InstallInv, ReportedIsCommitted

\* What the steps of an installation have in common: only the image of this
\* installation and its result change.
LEMMA InstallStep ==
    ASSUME TypeOK, InstallInv, Installing,
           UNCHANGED <<m_cancelled, installs, stopped>>,
           \E outcome \in {"mounted", "committed"} :
               image' = [image EXCEPT ![installs] = outcome] \/ image' = image,
           \/ /\ Installing' /\ at' # "mount"
              /\ result' = result
              /\ image'[installs] # "committed"
              /\ installs \in stopped <=> m_cancelled /\ ~Committing'
              /\ at' = "dism" => /\ command'.path = installs
                                 /\ command'.outcome \in {"mounted", "committed"}
           \/ /\ at' = "idle"
              /\ \E r \in {"true", "false"} : result' = [result EXCEPT ![installs] = r]
              /\ result'[installs] = "true" =>
                   image'[installs] = "committed" /\ installs \notin stopped
              /\ result'[installs] = "false" => image'[installs] # "committed"
              /\ image'[installs] = "mounted" => installs \in stopped
    PROVE  InstallInv'
<1> USE InstallerAssumption DEF InstallerAssumption
<1>1. installs \in 1..MaxInstalls
  BY DEF InstallInv
<1>2. \A n \in 1..MaxInstalls : n # installs => image'[n] = image[n] /\ result'[n] = result[n]
  BY <1>1, SMTT(30) DEF TypeOK, Paths
<1>3. \A n \in 1..MaxInstalls : n > installs =>
        result'[n] = "none" /\ image'[n] = "none" /\ n \notin stopped'
  BY <1>1, <1>2 DEF InstallInv
<1>4. ReportedIsCommitted'
  <2> SUFFICES ASSUME NEW n \in 1..MaxInstalls
               PROVE  /\ result'[n] = "true" => image'[n] = "committed" /\ n \notin stopped'
                      /\ result'[n] = "false" => image'[n] # "committed"
    BY DEF ReportedIsCommitted
  <2>1. CASE n # installs
    BY <1>2, <2>1 DEF InstallInv, ReportedIsCommitted
  <2>2. CASE n = installs
    BY <2>2 DEF InstallInv
  <2> QED
    BY <2>1, <2>2
<1>5. \A n \in 1..MaxInstalls :
        image'[n] = "mounted" /\ ~(Installing' /\ n = installs') => n \in stopped'
  BY <1>1, <1>2, <1>3 DEF InstallInv, Installing
<1>6. Installing' =>
        /\ installs' \in 1..MaxInstalls
        /\ result'[installs'] = "none"
        /\ image'[installs'] # "committed"
        /\ at' = "mount" => image'[installs'] = "none"
        /\ installs' \in stopped' <=> m_cancelled' /\ ~Committing'
  BY <1>1 DEF InstallInv, Installing
<1> QED
  BY <1>3, <1>4, <1>5, <1>6 DEF InstallInv

\* An installation asks for its image to be mounted or committed: the test lets the
\* command through, or the call returns false.
LEMMA AskStep ==
    ASSUME TypeOK, InstallInv, at \in {"mount", "commit"},
           NEW outcome \in {"mounted", "committed"},
           \/ RunDISM(installs, outcome) /\ UNCHANGED result
           \/ m_cancelled /\ Return("false"),
           UNCHANGED <<m_cancelled, image, installs, stopped>>
    PROVE  InstallInv'
<1>1. /\ Installing /\ installs \in 1..MaxInstalls /\ image[installs] # "committed"
      /\ installs \in stopped <=> m_cancelled
  BY DEF InstallInv, Installing, Committing
<1>2. CASE RunDISM(installs, outcome) /\ UNCHANGED result
  <2>1. /\ at' = "dism" /\ command'.path = installs /\ command'.outcome = outcome
        /\ ~m_cancelled
    BY <1>2 DEF RunDISM
  <2>2. Installing' /\ installs \in stopped <=> m_cancelled /\ ~Committing'
    BY <1>1, <2>1 DEF Installing
  <2> QED
    BY <1>1, <1>2, <2>1, <2>2, InstallStep DEF Installing
<1>3. CASE m_cancelled /\ Return("false")
  <2>1. /\ at' = "idle" /\ result' = [result EXCEPT ![installs] = "false"]
        /\ result'[installs] = "false"
    BY <1>1, <1>3 DEF Return, TypeOK
  <2> QED
    BY <1>1, <1>3, <2>1, InstallStep
<1> QED
  BY <1>2, <1>3

\* Every step keeps the invariant of the installations.
LEMMA NextInstall == TypeOK /\ InstallInv /\ [Next]_vars => InstallInv'
<1> SUFFICES ASSUME TypeOK, InstallInv, [Next]_vars PROVE InstallInv'
  OBVIOUS
<1> USE InstallerAssumption DEF InstallerAssumption
<1>1. CASE \E n \in 0..MaxComponents : InstallLibreNT(n)
  <2> PICK n \in 0..MaxComponents : InstallLibreNT(n)
    BY <1>1
  <2>1. /\ ~Installing
        /\ installs \in Nat /\ installs + 1 \in 1..MaxInstalls /\ installs' = installs + 1
        /\ UNCHANGED <<image, stopped>> /\ m_cancelled' = FALSE
        /\ \/ at' = "mount" /\ result' = result
           \/ at' = "idle" /\ result' = [result EXCEPT ![installs + 1] = "false"]
    BY DEF InstallLibreNT, Installing, TypeOK
  <2>2. \A m \in 1..MaxInstalls : m # installs + 1 => result'[m] = result[m]
    BY <2>1 DEF TypeOK
  <2>3. /\ image[installs + 1] = "none" /\ result[installs + 1] = "none"
        /\ installs + 1 \notin stopped
    BY <2>1 DEF InstallInv
  <2>4. result'[installs + 1] # "true"
    BY <2>1, <2>3 DEF TypeOK
  <2>5. ReportedIsCommitted'
    BY <2>1, <2>2, <2>3, <2>4 DEF InstallInv, ReportedIsCommitted
  <2>6. \A m \in 1..MaxInstalls : m > installs' =>
          result'[m] = "none" /\ image'[m] = "none" /\ m \notin stopped'
    BY <2>1, <2>2 DEF InstallInv
  <2>7. \A m \in 1..MaxInstalls :
          image'[m] = "mounted" /\ ~(Installing' /\ m = installs') => m \in stopped'
    BY <2>1, <2>3 DEF InstallInv
  <2>8. Installing' => /\ result'[installs'] = "none" /\ image'[installs'] = "none"
                       /\ installs' \in 1..MaxInstalls
                       /\ ~m_cancelled' /\ installs' \notin stopped'
    BY <2>1, <2>3 DEF Installing
  <2>9. at' # "dism"
    BY <2>1
  <2> QED
    BY <2>5, <2>6, <2>7, <2>8, <2>9 DEF InstallInv
<1>2. CASE InstallMount
  BY <1>2, AskStep DEF InstallMount
<1>3. CASE InstallComponent
  <2>1. /\ Installing /\ installs \in Paths /\ image[installs] # "committed"
        /\ installs \in stopped <=> m_cancelled
    BY <1>3 DEF InstallComponent, Installing, InstallInv, Paths, Committing
  <2>2. UNCHANGED <<m_cancelled, image, installs, stopped>>
    BY <1>3 DEF InstallComponent, dism
  <2>3. CASE left # 0 /\ m_cancelled
    <3>1. at' = "idle" /\ result' = [result EXCEPT ![installs] = "false"]
      BY <1>3, <2>3 DEF InstallComponent, Return
    <3>2. result'[installs] = "false"
      BY <2>1, <3>1 DEF InstallInv, TypeOK
    <3> QED
      BY <2>1, <2>2, <2>3, <3>1, <3>2, InstallStep
  <2>4. CASE ~(left # 0 /\ m_cancelled)
    <3>1. result' = result /\ at' \in {"components", "commit"}
      BY <1>3, <2>4 DEF InstallComponent
    <3>2. Installing' /\ ~Committing'
      BY <3>1 DEF Installing, Committing
    <3> QED
      BY <2>1, <2>2, <3>1, <3>2, InstallStep
  <2> QED
    BY <2>3, <2>4
<1>4. CASE InstallCommit
  BY <1>4, AskStep DEF InstallCommit
<1>5. CASE Execute
  <2>1. UNCHANGED <<m_cancelled, installs, stopped>> /\ at = "dism"
    BY <1>5 DEF Execute
  <2>2. CASE Installing
    <3>1. /\ command.path = installs /\ installs \in 1..MaxInstalls
          /\ command.outcome \in {"mounted", "committed"}
          /\ installs \in stopped <=> m_cancelled /\ ~Committing
      BY <2>1, <2>2 DEF InstallInv, Installing
    <3>2. image' = [image EXCEPT ![installs] = command.outcome]
          /\ image'[installs] = command.outcome
      BY <1>5, <3>1 DEF Execute, Effect, TypeOK, Paths
    <3>3. CASE command.outcome = "mounted"
      <4>1. at' = "components" /\ result' = result
        BY <1>5, <3>1, <3>3 DEF Execute
      <4>2. Installing' /\ (installs \in stopped <=> m_cancelled /\ ~Committing')
        BY <3>1, <3>3, <4>1 DEF Installing, Committing
      <4> QED
        BY <2>1, <2>2, <3>2, <3>3, <4>1, <4>2, InstallStep
    <3>4. CASE command.outcome = "committed"
      <4>1. /\ at' = "idle" /\ result' = [result EXCEPT ![installs] = "true"]
            /\ result'[installs] = "true"
        BY <1>5, <3>1, <3>4 DEF Execute, Return, TypeOK
      <4>2. installs \notin stopped
        BY <2>1, <3>1, <3>4 DEF Committing
      <4> QED
        BY <2>1, <2>2, <3>2, <3>4, <4>1, <4>2, InstallStep
    <3> QED
      BY <3>1, <3>3, <3>4
  <2>3. CASE ~Installing
    <3>1. command.path = 0
      BY <2>1, <2>3 DEF Installing
    <3>2. /\ at' \in {"hives", "idle"} /\ result' = result
          /\ \A n \in 1..MaxInstalls : image'[n] = image[n]
      BY <1>5, <3>1 DEF Execute, Effect, TypeOK, Paths
    <3> QED
      BY <2>1, <2>3, <3>2, OtherCall DEF Installing
  <2> QED
    BY <2>2, <2>3
<1>6. CASE ImportHive \/ MountImage \/ \E commit \in BOOLEAN : UnmountImage(commit)
  <2>1. /\ at \in {"hives", "idle"} /\ at' \in {"hives", "idle", "dism"}
        /\ at' = "dism" => command'.path = 0
        /\ UNCHANGED <<installs, result, stopped, image>>
    BY <1>6 DEF ImportHive, MountImage, UnmountImage, Call, RunDISM
  <2> QED
    BY <2>1, OtherCall DEF Installing
<1>7. CASE Cancel
  <2>0. UNCHANGED <<at, command, image, installs, result>> /\ m_cancelled' = TRUE /\ ~m_cancelled
    BY <1>7 DEF Cancel, dism
  <2>1. CASE Installing /\ ~Committing
    <3>1. stopped' = stopped \cup {installs}
      BY <1>7, <2>1 DEF Cancel, Committing
    <3>2. installs \in 1..MaxInstalls /\ result[installs] = "none"
      BY <2>1 DEF InstallInv
    <3> QED
      BY <2>0, <2>1, <3>1, <3>2 DEF InstallInv, ReportedIsCommitted, Installing, Committing
  <2>2. CASE Installing /\ Committing
    <3>1. stopped' = stopped
      BY <1>7, <2>2 DEF Cancel, Committing
    <3> QED
      BY <2>0, <2>2, <3>1 DEF InstallInv, ReportedIsCommitted, Installing, Committing
  <2>3. CASE ~Installing
    <3>1. stopped' = stopped
      BY <1>7, <2>3 DEF Cancel
    <3> QED
      BY <2>0, <2>3, <3>1, OtherCall DEF Installing, InstallInv
  <2> QED
    BY <2>1, <2>2, <2>3
<1>8. CASE Kill
  <2>1. at' = "idle" /\ ~Installing' /\ UNCHANGED <<installs, result>>
    BY <1>8 DEF Kill, Installing
  <2>2. CASE Installing
    <3>1. installs \in 1..MaxInstalls /\ result[installs] = "none"
      BY <2>2 DEF InstallInv
    <3>2. stopped' = stopped \cup {installs}
      BY <1>8, <2>2 DEF Kill, Installing
    <3>3. \A n \in 1..MaxInstalls : n # installs => image'[n] = image[n]
      <4>1. CASE UNCHANGED image
        BY <4>1
      <4>2. CASE at = "dism" /\ Effect
        <5>1. command.path = installs
          BY <2>2, <4>2 DEF InstallInv, Installing
        <5> QED
          BY <3>1, <4>2, <5>1 DEF Effect, TypeOK, Paths
      <4> QED
        BY <1>8, <4>1, <4>2 DEF Kill
    <3> QED
      BY <2>1, <2>2, <3>1, <3>2, <3>3 DEF InstallInv, ReportedIsCommitted
  <2>3. CASE ~Installing
    <3>1. stopped' = stopped \/ stopped' = stopped \cup {0}
      BY <1>8, <2>3 DEF Kill
    <3>2. \A n \in 1..MaxInstalls : image'[n] = image[n]
      <4>1. CASE UNCHANGED image
        BY <4>1
      <4>2. CASE at = "dism" /\ Effect
        BY <2>3, <4>2 DEF Effect, TypeOK, Paths, Installing
      <4> QED
        BY <1>8, <4>1, <4>2 DEF Kill
    <3> QED
      BY <2>1, <2>3, <3>1, <3>2, OtherCall
  <2> QED
    BY <2>2, <2>3
<1>9. CASE OtherSteps
  <2>1. /\ UNCHANGED <<image, installs, result, stopped>>
        /\ ~Installing /\ ~Installing' /\ at' # "dism"
    BY <1>9
       DEF OtherSteps, ApplyRegistryHives, CopyFilesToImage, Initialize, InjectBtrfsDrivers,
           CopyDriverFiles, AssignLetter, InstallQuibbleBootloader, CopyBootloader, SetValue,
           ApplyPatches, WriteAndUnload, Call, Installing, engine, dism
  <2> QED
    BY <2>1, OtherCall
<1>10. CASE UNCHANGED vars
  BY <1>10 DEF vars, engine, dism, InstallInv, ReportedIsCommitted, Installing, Committing
<1> QED
  BY <1>1, <1>2, <1>3, <1>4, <1>5, <1>6, <1>7, <1>8, <1>9, <1>10 DEF Next, OtherSteps
----------------------------------------------------------------------------
(* What is mounted, what the boot entry is set for, what a cancellation stops *)

\* A step keeps the hive accounted for.
LEMMA NextHive == HiveInv /\ [Next]_vars => HiveInv'
<1> SUFFICES ASSUME HiveInv, [Next]_vars PROVE HiveInv'
  OBVIOUS
<1>1. CASE ApplyPatches \/ WriteAndUnload \/ Kill
  BY <1>1 DEF ApplyPatches, WriteAndUnload, Kill, HiveInv, Installing
<1>2. CASE Cancel \/ UNCHANGED vars
  BY <1>2 DEF Cancel, vars, engine, patcher, HiveInv
<1>3. CASE Next /\ ~ApplyPatches /\ ~WriteAndUnload /\ ~Kill /\ ~Cancel
  <2>1. UNCHANGED <<loaded, stopped>> /\ at # "patch"
    BY <1>3 DEF Next, InstallLibreNT, InstallMount, InstallComponent, InstallCommit, Execute,
         Call, MountImage, UnmountImage, ApplyRegistryHives, ImportHive, CopyFilesToImage,
         Initialize, InjectBtrfsDrivers, CopyDriverFiles, AssignLetter,
         InstallQuibbleBootloader, CopyBootloader, SetValue, engine, patcher
  <2> QED
    BY <2>1 DEF HiveInv
<1> QED
  BY <1>1, <1>2, <1>3

\* A step keeps the files of the bootloaders the boot entry is set for.
LEMMA NextBoot ==
    TypeOK /\ LoopInv /\ BootEntryHasItsFiles /\ [Next]_vars => BootEntryHasItsFiles'
<1> SUFFICES ASSUME TypeOK, LoopInv, BootEntryHasItsFiles, [Next]_vars
             PROVE  BootEntryHasItsFiles'
  OBVIOUS
<1>1. ASSUME NEW ok \in BOOLEAN, at = "efi", bootFiles' \in BootCopied(ok),
             bcd' = IF ok THEN bcd \cup {Bootloader} ELSE bcd
      PROVE  BootEntryHasItsFiles'
  <2>1. /\ \A v \in Volumes : bootFiles[v] \subseteq bootFiles'[v]
        /\ ok => \E v \in Volumes : FilesOf[Bootloader] \subseteq bootFiles'[v]
    BY <1>1, BootloaderCopied
  <2> QED
    BY <1>1, <2>1 DEF BootEntryHasItsFiles
<1>2. CASE UNCHANGED <<bootFiles, bcd>>
  BY <1>2 DEF BootEntryHasItsFiles
<1>3. CASE CopyBootloader \/ Kill
  BY <1>1, <1>2, <1>3 DEF CopyBootloader, Kill
<1>4. CASE (Next /\ ~CopyBootloader /\ ~Kill) \/ UNCHANGED vars
  <2>1. UNCHANGED <<bootFiles, bcd>>
    BY <1>4 DEF Next, InstallLibreNT, InstallMount, InstallComponent, InstallCommit, Execute,
         MountImage, UnmountImage, ApplyRegistryHives, ImportHive, Cancel,
         CopyFilesToImage, Initialize, InjectBtrfsDrivers, CopyDriverFiles, AssignLetter,
         InstallQuibbleBootloader, SetValue, ApplyPatches, WriteAndUnload, injector, vars
  <2> QED
    BY <1>2, <2>1
<1> QED
  BY <1>3, <1>4

\* A command is let through only while the flag is clear, and only one at a time.
LEMMA NextLate == TypeOK /\ LateInv /\ [Next]_vars => LateInv'
<1> SUFFICES ASSUME TypeOK, LateInv, [Next]_vars PROVE LateInv'
  OBVIOUS
<1>1. CASE Execute
  <2>1. late' = IF m_cancelled THEN late + 1 ELSE 0
    BY <1>1 DEF Execute
  <2>2. late = 0 /\ at' # "dism" /\ m_cancelled' = m_cancelled
    BY <1>1 DEF Execute, Return, LateInv
  <2> QED
    BY <2>1, <2>2 DEF LateInv
<1>2. CASE Kill \/ \E n \in 0..MaxComponents : InstallLibreNT(n)
  <2>1. late' = 0
    BY <1>2 DEF Kill, InstallLibreNT
  <2> QED
    BY <2>1 DEF LateInv
<1>3. CASE Cancel \/ UNCHANGED vars
  BY <1>3 DEF Cancel, vars, engine, dism, LateInv
<1>4. CASE InstallMount \/ InstallCommit \/ MountImage \/ ImportHive
           \/ \E commit \in BOOLEAN : UnmountImage(commit)
  <2>1. UNCHANGED <<late, m_cancelled>> /\ (at' = "dism" => ~m_cancelled \/ at = "dism")
    BY <1>4 DEF InstallMount, InstallCommit, MountImage, ImportHive, UnmountImage, Call,
         RunDISM, Return
  <2> QED
    BY <2>1 DEF LateInv
<1>5. CASE InstallComponent \/ OtherSteps
  <2>1. UNCHANGED <<late, m_cancelled>> /\ at' # "dism"
    BY <1>5 DEF InstallComponent, Return, OtherSteps, ApplyRegistryHives, CopyFilesToImage,
         Initialize, InjectBtrfsDrivers, CopyDriverFiles, AssignLetter,
         InstallQuibbleBootloader, CopyBootloader, SetValue, ApplyPatches, WriteAndUnload,
         Call, engine, dism
  <2> QED
    BY <2>1 DEF LateInv
<1> QED
  BY <1>1, <1>2, <1>3, <1>4, <1>5 DEF Next, OtherSteps

InstallerInv ==
    TypeOK /\ LoopInv /\ InstallInv /\ HiveInv /\ LateInv /\ BootEntryHasItsFiles

\* The conjunction of the invariants holds in every reachable state.
THEOREM Invariants == Spec => []InstallerInv
<1>1. Init => LoopInv /\ InstallInv /\ HiveInv /\ LateInv /\ BootEntryHasItsFiles
  BY InstallerAssumption DEF InstallerAssumption, Init, LoopInv, InstallInv, Installing,
     ReportedIsCommitted, HiveInv, LateInv, BootEntryHasItsFiles, Paths
<1>2. InstallerInv /\ [Next]_vars => InstallerInv'
  BY NextType, NextLoop, NextInstall, NextHive, NextLate, NextBoot DEF InstallerInv
<1> QED
  BY <1>1, <1>2, InitType, PTL DEF Spec, InstallerInv

\* What InstallLibreNT returns agrees with what became of the image, for any number
\* of installations and whenever they are cancelled, between a test of m_cancelled
\* and the command it lets through as well, or the program is ended.
THEOREM ReportsTruthfully == Spec => []ReportedIsCommitted
<1>1. InstallerInv => ReportedIsCommitted
  BY DEF InstallerInv, InstallInv
<1> QED
  BY <1>1, Invariants, PTL

\* Only a cancellation or an end of the program leaves an image mounted by an
\* installation or the hive loaded.
THEOREM MountsReleased == Spec => []ReleasesWhatItMounts
<1>1. InstallerInv => ReleasesWhatItMounts
  BY DEF InstallerInv, InstallInv, HiveInv, ReleasesWhatItMounts
<1> QED
  BY <1>1, Invariants, PTL

\* The boot entry is set only for bootloaders that are all there on one volume,
\* whatever X: names and whatever copies failed or were killed.
THEOREM BootEntrySafe == Spec => []BootEntryHasItsFiles
<1>1. InstallerInv => BootEntryHasItsFiles
  BY DEF InstallerInv
<1> QED
  BY <1>1, Invariants, PTL

\* After Cancel only a command that had passed the test before reaches an image,
\* until the next installation.
THEOREM CancelStopsCommands == Spec => []AtMostOneAfterCancel
<1>1. InstallerInv => AtMostOneAfterCancel
  BY DEF InstallerInv, LateInv, AtMostOneAfterCancel
<1> QED
  BY <1>1, Invariants, PTL

\* A broken copy of a bootloader is in the way of all later ones to the same volume.
THEOREM BrokenCopyStays == Spec => BrokenCopyIsFinal
<1>1. LoopInv /\ [Next]_vars =>
        \A d \in QuibbleDrivers :
            FilesOf[d] # {} /\ (x = "nothing" \/ FilesOf[d] \cap bootFiles[x] # {}) =>
                (d \in bcd' => d \in bcd)
  <2> SUFFICES ASSUME LoopInv, [Next]_vars, NEW d \in QuibbleDrivers, FilesOf[d] # {},
                      x = "nothing" \/ FilesOf[d] \cap bootFiles[x] # {},
                      d \in bcd', d \notin bcd
               PROVE  FALSE
    OBVIOUS
  <2>1. bcd' # bcd
    OBVIOUS
  <2>2. CopyBootloader \/ Kill
    BY <2>1 DEF Next, InstallLibreNT, InstallMount, InstallComponent, InstallCommit, Execute,
       MountImage, UnmountImage, ApplyRegistryHives, ImportHive, Cancel,
       CopyFilesToImage, Initialize, InjectBtrfsDrivers, CopyDriverFiles, AssignLetter,
       InstallQuibbleBootloader, SetValue, ApplyPatches, WriteAndUnload, injector, vars
  <2>3. bootFiles' \in BootCopied(TRUE) /\ d = Bootloader
    BY <2>2 DEF CopyBootloader, Kill
  <2>4. BootCopied(TRUE) = {}
    BY <2>3 DEF BootCopied, Copied
  <2> QED
    BY <2>3, <2>4
<1>2. InstallerInv => LoopInv
  BY DEF InstallerInv
<1> QED
  BY <1>1, <1>2, Invariants, PTL DEF Spec, BrokenCopyIsFinal
=============================================================================
