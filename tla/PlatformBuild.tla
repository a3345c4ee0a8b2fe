---------------------------- MODULE PlatformBuild ----------------------------
(***************************************************************************)
(* The platform builder (utils/libreplatformbuilder): one call of build    *)
(* after the other in one work directory.  A build extracts an             *)
(* installation ISO, unpacks its install image, takes components out of it *)
(* and puts others in, captures it again, does the same with the boot      *)
(* image, and writes the new ISO.  Every step may fail, and the program    *)
(* may be killed in the middle of one; nothing is cleaned up, neither then *)
(* nor before the next build, so a build may find the files of every       *)
(* earlier one.  The property is that what a build calls finished is what  *)
(* it was asked for.                                                       *)
(*                                                                         *)
(* A directory, an image and an ISO are functions from the files they hold *)
(* to the files' contents, a WIM file is the sequence of its images.  7z,  *)
(* wimlib and mkisofs are external: they replace files of the same name,   *)
(* keep the others, and may stop halfway with one file torn.               *)
(***************************************************************************)
EXTENDS Naturals, Sequences, SequencesExt

CONSTANTS
  Requests,     \* the configurations a build may be run with
  Media,        \* Media[iso]: the WIM files in the ISO's sources directory
  Components,   \* the files of the Microsoft components, in order of removal
  Available,    \* the programs whose directory is there
  Mods,         \* the registry modifications, in order
  NoIso,        \* no --iso given
  NoInstaller,  \* no custom installer given
  Torn,         \* the content of a file that was not written to its end
  MaxBuilds     \* bound on the number of builds

(* Lists are sequences, the first image of a WIM is a directory, and what  *)
(* a build adds has names of its own.                                      *)
ASSUME PlatformBuildAssumption ==
  /\ Components \in Seq(ToSet(Components)) /\ Mods \in Seq(ToSet(Mods))
  /\ \A r \in Requests :
       /\ r.programs \in Seq(ToSet(r.programs))
       /\ r.iso # NoIso => \A w \in DOMAIN Media[r.iso] :
            Media[r.iso][w][1] = [f \in DOMAIN Media[r.iso][w][1] |-> Media[r.iso][w][1][f]]
  /\ {"Microsoft.UI.Xaml.dll", "librent_registry.reg"} \cap Available = {}
  /\ ({"Microsoft.UI.Xaml.dll", "librent_registry.reg"} \cup Available) \cap ToSet(Components) = {}
  /\ MaxBuilds \in Nat

WinUI     == "Microsoft.UI.Xaml.dll"
RegFile   == "librent_registry.reg"
Setup     == "setup.exe"
Bcd       == "bcd"

VARIABLES
  pc,           \* the step the build is at, "idle" between builds
  request,      \* the configuration of the latest build
  requests,     \* the configurations of all builds so far
  builds,       \* how many builds were started
  isoDir,       \* iso_work/iso_extracted/sources: the WIM files
  installDir,   \* install_work/install_extracted: the unpacked install image
  bootDir,      \* boot_work/boot_extracted: the unpacked boot image
  output,       \* output/: ISO name -> its WIM files
  missed,       \* the component files the latest build's patterns passed over
  result        \* what the latest build returned: "none" while it runs

dirs == <<isoDir, installDir, bootDir, output>>
vars == <<pc, request, requests, builds, isoDir, installDir, bootDir, output, missed, result>>

Nothing == [f \in {} |-> Torn]

Init ==
  /\ pc = "idle" /\ request \in Requests /\ requests = {}
  /\ builds = 0 /\ result = "none" /\ missed = {}
  /\ isoDir = Nothing /\ installDir = Nothing /\ bootDir = Nothing /\ output = Nothing
-----------------------------------------------------------------------------
(* Writing files over those of a directory, to the end or only some.       *)

File(name, content) == [f \in {name} |-> content]

Written(dir, files) ==
  [f \in DOMAIN dir \cup DOMAIN files |-> IF f \in DOMAIN files THEN files[f] ELSE dir[f]]

Only(files, S) == [f \in DOMAIN files \cap S |-> files[f]]

PartlyWritten(dir, files) ==
  UNION {{Written(dir, Only(files, S))} \cup
         {Written(dir, Written(Only(files, S), File(f, Torn))) : f \in DOMAIN files \ S} :
         S \in SUBSET DOMAIN files}

Without(dir, files) == [f \in DOMAIN dir \ files |-> dir[f]]

(* A WIM can be unpacked when it is there and whole; what is unpacked is   *)
(* its first image, and a captured WIM holds one image.                    *)
Readable(wim) == wim \in DOMAIN isoDir /\ isoDir[wim] # Torn

FirstImage(wim) == isoDir[wim][1]

Enter(step) == pc' = step /\ UNCHANGED <<request, requests, builds, result>>

Goto(step) == Enter(step) /\ UNCHANGED missed

Return(r) == pc' = "idle" /\ result' = r /\ UNCHANGED <<request, requests, builds, missed>>
-----------------------------------------------------------------------------
(* build: called with some configuration; without an ISO it fails at once. *)
StartBuild(r) ==
  /\ pc = "idle" /\ builds < MaxBuilds
  /\ builds' = builds + 1 /\ request' = r /\ requests' = requests \cup {r} /\ missed' = {}
  /\ IF r.iso = NoIso THEN pc' = "idle" /\ result' = "failed"
                      ELSE pc' = "extract" /\ result' = "none"
  /\ UNCHANGED dirs

(* A mutant of ExtractIso: 7z is told to skip the files that exist.        *)
ExtractIsoKeeping ==
  /\ pc = "extract" /\ isoDir' = Written(Media[request.iso], isoDir)
  /\ Goto("install") /\ UNCHANGED <<installDir, bootDir, output>>

(* IsoHandler::extract.                                                    *)
ExtractIso ==
  /\ pc = "extract" /\ isoDir' = Written(isoDir, Media[request.iso])
  /\ Goto("install") /\ UNCHANGED <<installDir, bootDir, output>>

(* InstallWim::extract: get_wim_paths names install.wim, never install.esd.*)
ApplyInstall ==
  /\ pc = "install" /\ Readable("install.wim")
  /\ installDir' = Written(installDir, FirstImage("install.wim"))
  /\ Goto("remove") /\ UNCHANGED <<isoDir, bootDir, output>>

(* A mutant of RemoveComponents: a file that cannot be removed is skipped. *)
RemoveComponentsLenient ==
  /\ pc = "remove"
  /\ \E passed \in SUBSET ToSet(Components), n \in 0 .. Len(Components) :
       /\ missed' = passed
       /\ installDir' = Without(installDir, ToSet(SubSeq(Components, 1, n)) \ passed)
  /\ Enter("winui") /\ UNCHANGED <<isoDir, bootDir, output>>

(* ComponentManager::remove_components: the files its patterns match.  A   *)
(* pattern is joined to the work directory, so that characters of that     *)
(* directory's name can keep it from matching, and what cannot be read or  *)
(* is not a file is passed over without an error.                          *)
RemoveComponents ==
  /\ pc = "remove"
  /\ \E passed \in SUBSET ToSet(Components) :
       /\ missed' = passed
       /\ installDir' = Without(installDir, ToSet(Components) \ passed)
  /\ Enter("winui") /\ UNCHANGED <<isoDir, bootDir, output>>

(* add_winui3: the files of programs/winui3 if that directory is there,    *)
(* which need not have the library among them; without the directory, a    *)
(* placeholder where there is no such file yet.                            *)
WinUIFiles ==
  IF request.source = "runtime" THEN File(WinUI, "runtime")
  ELSE IF request.source = "other" \/ WinUI \in DOMAIN installDir THEN Nothing
  ELSE File(WinUI, "placeholder")

AddWinUI3 ==
  /\ pc = "winui"
  /\ installDir' = IF request.winui3 THEN Written(installDir, WinUIFiles) ELSE installDir
  /\ Goto("registry") /\ UNCHANGED <<isoDir, bootDir, output>>

(* A mutant of RegFileAfter: the file is opened for appending.             *)
RegFileAppended(dir, mods) ==
  Written(dir, File(RegFile, IF RegFile \notin DOMAIN dir THEN mods
                             ELSE IF dir[RegFile] = Torn THEN Torn
                             ELSE dir[RegFile] \o mods))

(* apply_modification for each of some modifications: each writes the same *)
(* file anew.                                                              *)
RegFileAfter(dir, mods) ==
  IF mods = <<>> THEN dir ELSE Written(dir, File(RegFile, <<Last(mods)>>))

ApplyModifications ==
  /\ pc = "registry"
  /\ installDir' = IF request.registry THEN RegFileAfter(installDir, Mods) ELSE installDir
  /\ Goto("programs") /\ UNCHANGED <<isoDir, bootDir, output>>

(* inject_programs: a program that is not available is passed over.        *)
ProgramFiles(programs) == [p \in ToSet(programs) \cap Available |-> "whole"]

InjectPrograms ==
  /\ pc = "programs"
  /\ installDir' = Written(installDir, ProgramFiles(request.programs))
  /\ Goto("captureInstall") /\ UNCHANGED <<isoDir, bootDir, output>>

(* InstallWim::repack: the new image replaces the extracted one.           *)
CaptureInstall ==
  /\ pc = "captureInstall" /\ isoDir' = Written(isoDir, File("install.wim", <<installDir>>))
  /\ Goto("boot") /\ UNCHANGED <<installDir, bootDir, output>>

(* BootWim::extract.                                                       *)
ApplyBoot ==
  /\ pc = "boot" /\ Readable("boot.wim")
  /\ bootDir' = Written(bootDir, FirstImage("boot.wim"))
  /\ Goto("installer") /\ UNCHANGED <<isoDir, installDir, output>>

(* BootWim::inject_installer and modify_boot_config.                       *)
InstallerFiles == [f \in {Setup, Bcd} |-> IF f = Setup THEN request.installer ELSE "LibreNT"]

InjectInstaller ==
  /\ pc = "installer"
  /\ bootDir' = IF request.installer = NoInstaller THEN bootDir
                ELSE Written(bootDir, InstallerFiles)
  /\ Goto("captureBoot") /\ UNCHANGED <<isoDir, installDir, output>>

(* BootWim::repack.                                                        *)
CaptureBoot ==
  /\ pc = "captureBoot" /\ isoDir' = Written(isoDir, File("boot.wim", <<bootDir>>))
  /\ Goto("repack") /\ UNCHANGED <<installDir, bootDir, output>>

(* A mutant of RepackIso: the file keeps the name of the working directory.*)
RepackIsoUnnamed ==
  /\ pc = "repack" /\ output' = Written(output, File("iso_extracted.iso", isoDir))
  /\ Return("ok") /\ UNCHANGED <<isoDir, installDir, bootDir>>

(* IsoHandler::repack.  The name asked for is the name it gives, so there  *)
(* is nothing to rename.                                                   *)
RepackIso ==
  /\ pc = "repack" /\ output' = Written(output, File(request.name, isoDir))
  /\ Return("ok") /\ UNCHANGED <<isoDir, installDir, bootDir>>
-----------------------------------------------------------------------------
(* A step fails or the program is killed in it: what it wrote stays.       *)

FailInSources ==
  /\ \/ pc = "extract" /\ isoDir' \in PartlyWritten(isoDir, Media[request.iso])
     \/ pc = "captureInstall" /\ isoDir' \in PartlyWritten(isoDir, File("install.wim", <<installDir>>))
     \/ pc = "captureBoot" /\ isoDir' \in PartlyWritten(isoDir, File("boot.wim", <<bootDir>>))
  /\ UNCHANGED <<installDir, bootDir, output>>

(* The loops over components, modifications and programs stop at one of    *)
(* them; the program it stops at may be copied in part.  A placeholder is  *)
(* an empty file, so it is there or not.                                   *)
FailInInstallDir ==
  /\ \/ /\ pc = "install"
        /\ installDir' \in (IF Readable("install.wim")
                            THEN PartlyWritten(installDir, FirstImage("install.wim"))
                            ELSE {installDir})
     \/ pc = "remove" /\ \E passed \in SUBSET ToSet(Components), n \in 0 .. Len(Components) :
          installDir' = Without(installDir, ToSet(SubSeq(Components, 1, n)) \ passed)
     \/ /\ pc = "winui" /\ request.winui3
        /\ installDir' \in IF request.source = "runtime" THEN PartlyWritten(installDir, WinUIFiles)
                          ELSE {installDir, Written(installDir, WinUIFiles)}
     \/ /\ pc = "registry" /\ request.registry
        /\ \E n \in DOMAIN Mods :
             LET done == RegFileAfter(installDir, SubSeq(Mods, 1, n - 1))
             IN  installDir' \in PartlyWritten(done, File(RegFile, <<Mods[n]>>))
     \/ pc = "programs" /\ UNCHANGED installDir
     \/ pc = "programs" /\ \E n \in DOMAIN request.programs :
          LET done == Written(installDir, ProgramFiles(SubSeq(request.programs, 1, n - 1)))
          IN  installDir' \in PartlyWritten(done, ProgramFiles(<<request.programs[n]>>))
  /\ UNCHANGED <<isoDir, bootDir, output>>

FailInBootDir ==
  /\ \/ /\ pc = "boot"
        /\ bootDir' \in (IF Readable("boot.wim")
                         THEN PartlyWritten(bootDir, FirstImage("boot.wim")) ELSE {bootDir})
     \/ /\ pc = "installer" /\ request.installer # NoInstaller
        /\ bootDir' \in PartlyWritten(bootDir, InstallerFiles)
  /\ UNCHANGED <<isoDir, installDir, output>>

FailInOutput ==
  /\ pc = "repack" /\ output' \in PartlyWritten(output, File(request.name, isoDir))
  /\ UNCHANGED <<isoDir, installDir, bootDir>>

Fail ==
  /\ pc # "idle" /\ Return("failed")
  /\ FailInSources \/ FailInInstallDir \/ FailInBootDir \/ FailInOutput

Step ==
  \/ ExtractIso \/ ApplyInstall \/ RemoveComponents \/ AddWinUI3
  \/ ApplyModifications \/ InjectPrograms \/ CaptureInstall
  \/ ApplyBoot \/ InjectInstaller \/ CaptureBoot \/ RepackIso

Next == (\E r \in Requests : StartBuild(r)) \/ Step \/ Fail

Spec == Init /\ [][Next]_vars
-----------------------------------------------------------------------------
(***************************************************************************)
(* Properties.                                                             *)
(***************************************************************************)
Steps == {"idle", "extract", "install", "remove", "winui", "registry", "programs",
          "captureInstall", "boot", "installer", "captureBoot", "repack"}

Names == {r.name : r \in Requests}

(* Every variable has its type: in particular the directories hold nothing *)
(* but what the ISOs and the steps of a build put there.                   *)
TypeOK ==
  LET isos   == {r.iso : r \in Requests} \ {NoIso}
      inIsos == UNION {DOMAIN Media[i] : i \in isos}
      ofIsos == UNION {UNION {DOMAIN Media[i][w][1] : w \in DOMAIN Media[i]} : i \in isos}
  IN
  /\ pc \in Steps /\ builds \in 0 .. MaxBuilds
  /\ request \in Requests /\ requests \subseteq Requests
  /\ result \in {"none", "ok", "failed"}
  /\ DOMAIN isoDir \subseteq inIsos
  /\ DOMAIN installDir \subseteq ofIsos \cup {WinUI, RegFile} \cup Available
  /\ DOMAIN bootDir \subseteq ofIsos \cup {Setup, Bcd}
  /\ DOMAIN output \subseteq Names /\ missed \subseteq ToSet(Components)

Finished == pc = "idle" /\ result = "ok"
Iso      == output[request.name]

Image(wim) == Iso[wim][1]

NoComponents(image) == DOMAIN image \cap ToSet(Components) \subseteq missed

HasWinUI(image) ==
  request.winui3 /\ request.source # "other" =>
    /\ WinUI \in DOMAIN image
    /\ request.source = "runtime" => image[WinUI] = "runtime"

HasRegFile(image) == request.registry /\ Mods # <<>> => RegFile \in DOMAIN image

HasPrograms(image) ==
  \A p \in ToSet(request.programs) \cap Available : p \in DOMAIN image /\ image[p] = "whole"

HasInstaller(image) ==
  request.installer # NoInstaller => Setup \in DOMAIN image /\ image[Setup] = request.installer

InstallAsAsked(image) ==
  NoComponents(image) /\ HasWinUI(image) /\ HasRegFile(image) /\ HasPrograms(image)

(* What build() reports finished is an ISO with what it was asked for and  *)
(* without the Microsoft components its patterns matched, whatever failed  *)
(* in earlier builds and whatever they left in the work directory.  It is  *)
(* no more than that: a component the patterns pass over stays, a WinUI    *)
(* directory without the library adds none, and a program that is not      *)
(* there is not injected, all in a build that returns Ok.                  *)
FinishedHoldsRequest ==
  Finished =>
    /\ Iso # Torn /\ Iso["install.wim"] # Torn /\ Iso["boot.wim"] # Torn
    /\ InstallAsAsked(Image("install.wim")) /\ HasInstaller(Image("boot.wim"))

(* What a build puts over the files of the install image, and of the boot  *)
(* image.                                                                  *)
AddedToInstall(r) ==
  (IF r.winui3 /\ r.source # "other" THEN {WinUI} ELSE {})
  \cup (IF r.registry /\ Mods # <<>> THEN {RegFile} ELSE {})
  \cup (ToSet(r.programs) \cap Available)

AddedToBoot(r) == IF r.installer = NoInstaller THEN {} ELSE {Setup, Bcd}

KeptOf(r, w) ==
  DOMAIN Media[r.iso][w][1] \ (IF w = "install.wim" THEN ToSet(Components) \cup AddedToInstall(r)
                                                    ELSE AddedToBoot(r))

(* The system in the new ISO is that of the ISO the builder was given, not *)
(* of one it was given earlier: of the first image of its install.wim and  *)
(* of its boot.wim, every file that was not taken out or replaced.  These  *)
(* are the only images left: the other editions of install.wim and the     *)
(* setup image of boot.wim are gone.  (The builder does not look for       *)
(* install.esd, so an ISO need not have an install.wim.)                   *)
BuiltFromGivenIso ==
  Finished =>
    \A w \in {"install.wim", "boot.wim"} \cap DOMAIN Media[request.iso] :
      /\ Len(Iso[w]) = 1
      /\ \A f \in KeptOf(request, w) :
           f \in DOMAIN Image(w) /\ Image(w)[f] = Media[request.iso][w][1][f]

(* The images a configuration gives in a new work directory, as a          *)
(* definition of its own: those of the ISO without the components, but for *)
(* the ones passed over, and with what is asked.                           *)
CleanInstall(r, passed) ==
  LET image == Media[r.iso]["install.wim"][1]
      kept  == DOMAIN image \ (ToSet(Components) \ passed)
      added == AddedToInstall(r)
  IN [f \in kept \cup added |->
        CASE f = WinUI /\ r.winui3 /\ r.source = "runtime" -> "runtime"
          [] f = WinUI /\ r.source # "runtime" /\ f \notin kept -> "placeholder"
          [] f = RegFile /\ f \in added -> <<Mods[Len(Mods)]>>
          [] f \in Available \cap added -> "whole"
          [] OTHER -> image[f]]

CleanBoot(r) ==
  LET image == Media[r.iso]["boot.wim"][1] IN
  IF r.installer = NoInstaller THEN image
  ELSE [f \in DOMAIN image \cup AddedToBoot(r) |->
          CASE f = Setup -> r.installer [] f = Bcd -> "LibreNT" [] OTHER -> image[f]]

(* A build that is repeated until it succeeds gives the very images a      *)
(* build without failures gives in a new work directory: the half-written  *)
(* files of the failed attempts, and the components they removed or passed *)
(* over, leave no trace.                                                   *)
RetryIsClean ==
  Finished /\ requests = {request} =>
    /\ Iso["install.wim"] = <<CleanInstall(request, missed)>>
    /\ Iso["boot.wim"] = <<CleanBoot(request)>>

(* "Apply all registry modifications to the image" (registry/mod.rs:29):   *)
(* a finished ISO carries every one of them.                               *)
AllModificationsApplied ==
  Finished /\ request.registry => ToSet(Image("install.wim")[RegFile]) = ToSet(Mods)
=============================================================================
