------------------------ MODULE PlatformBuild_proofs ------------------------
(***************************************************************************)
(* What a build guarantees for all requests, media, components, programs   *)
(* and any number of builds, however they end:                             *)
(*  - FinishedHoldsRequest.  The invariant follows the build: each step's  *)
(*    effect is there from the step to the capture of its image, and in    *)
(*    the captured image until the new ISO is written.  Nothing is said    *)
(*    about the directories at the beginning of a build, so whatever       *)
(*    earlier builds left in them cannot break it.                         *)
(*  - BuiltFromGivenIso, along the same lines, for the files the build     *)
(*    neither takes out nor replaces.                                      *)
(*  - TypeOK, for which captured images must be known to hold no other     *)
(*    names than the directories they were captured from.                  *)
(*  - RetryIsClean, which adds to these what builds of one configuration   *)
(*    can have left behind (PastOK) and how near each step has brought the *)
(*    images to those of a new work directory (NowOK).                     *)
(***************************************************************************)
EXTENDS PlatformBuild, TLAPS

\* The mark of an unfinished file is no directory and no image.
TornIsNoFunction == Torn # [f \in DOMAIN Torn |-> Torn[f]]

Edited     == {"winui", "registry", "programs", "captureInstall"}
BootSteps  == {"boot", "installer", "captureBoot", "repack"}

DirsWhole == isoDir # Torn /\ installDir # Torn /\ bootDir # Torn

\* What is true of the unpacked images at each step.
Unpacked ==
  /\ pc \in Edited => NoComponents(installDir)
  /\ pc \in Edited \ {"winui"} => HasWinUI(installDir)
  /\ pc \in Edited \ {"winui", "registry"} => HasRegFile(installDir)
  /\ pc = "captureInstall" => HasPrograms(installDir)
  /\ pc = "captureBoot" => HasInstaller(bootDir)

\* What is true of the captured ones.
Captured ==
  /\ pc \in BootSteps => /\ "install.wim" \in DOMAIN isoDir /\ isoDir["install.wim"] # Torn
                         /\ InstallAsAsked(isoDir["install.wim"][1])
  /\ pc = "repack" => isoDir["boot.wim"] # Torn /\ HasInstaller(isoDir["boot.wim"][1])

BuildInv == DirsWhole /\ Unpacked /\ Captured /\ FinishedHoldsRequest

-----------------------------------------------------------------------------
\* What is in a directory after files were written to it.
LEMMA WrittenFacts ==
  ASSUME NEW dir, NEW files
  PROVE  /\ DOMAIN Written(dir, files) = DOMAIN dir \cup DOMAIN files
         /\ \A f \in DOMAIN files : Written(dir, files)[f] = files[f]
         /\ \A f \in DOMAIN dir \ DOMAIN files : Written(dir, files)[f] = dir[f]
  BY DEF Written

LEMMA FileFacts ==
  ASSUME NEW name, NEW content
  PROVE  DOMAIN File(name, content) = {name} /\ File(name, content)[name] = content
  BY DEF File

\* A directory is a function, so it is not the mark of a torn file.
LEMMA WrittenWhole ==
  ASSUME TornIsNoFunction, NEW dir, NEW files PROVE Written(dir, files) # Torn
  BY DEF TornIsNoFunction, Written

\* Neither is a WIM with an image in it.
LEMMA CapturedWhole ==
  ASSUME TornIsNoFunction, NEW image PROVE <<image>> # Torn
<1>1. <<image>> = [i \in DOMAIN <<image>> |-> <<image>>[i]]
  OBVIOUS
<1> QED
  BY <1>1 DEF TornIsNoFunction

LEMMA WithoutWhole ==
  ASSUME TornIsNoFunction, NEW dir, NEW files PROVE Without(dir, files) # Torn
  BY DEF TornIsNoFunction, Without

LEMMA PartlyWrittenWhole ==
  ASSUME TornIsNoFunction, NEW dir, NEW files, NEW d \in PartlyWritten(dir, files)
  PROVE  d # Torn
  BY WrittenWhole DEF PartlyWritten

-----------------------------------------------------------------------------
\* The additions keep what is already right with the install image.

LEMMA ComponentsStayOut ==
  ASSUME NEW dir, NEW files, NoComponents(dir), DOMAIN files \cap ToSet(Components) = {}
  PROVE  NoComponents(Written(dir, files))
  BY WrittenFacts DEF NoComponents

LEMMA WinUIStays ==
  ASSUME NEW dir, NEW files, HasWinUI(dir), WinUI \notin DOMAIN files
  PROVE  HasWinUI(Written(dir, files))
<1>1. /\ DOMAIN dir \subseteq DOMAIN Written(dir, files)
      /\ WinUI \in DOMAIN dir => Written(dir, files)[WinUI] = dir[WinUI]
  BY WrittenFacts
<1> QED
  BY <1>1 DEF HasWinUI

LEMMA RegFileStays ==
  ASSUME NEW dir, NEW files, HasRegFile(dir) PROVE HasRegFile(Written(dir, files))
<1>1. DOMAIN dir \subseteq DOMAIN Written(dir, files)
  BY WrittenFacts
<1> QED
  BY <1>1 DEF HasRegFile

-----------------------------------------------------------------------------
(***************************************************************************)
(* Each step keeps the invariant.                                          *)
(***************************************************************************)
LEMMA StartKeeps ==
  ASSUME BuildInv, NEW r \in Requests, StartBuild(r) PROVE BuildInv'
<1> USE DEF StartBuild, dirs
<1>1. DirsWhole'
  BY DEF BuildInv, DirsWhole
<1>2. Unpacked' /\ Captured' /\ FinishedHoldsRequest'
  BY DEF Unpacked, Captured, FinishedHoldsRequest, Finished, Edited, BootSteps
<1> QED
  BY <1>1, <1>2 DEF BuildInv

LEMMA FailKeeps ==
  ASSUME TornIsNoFunction, BuildInv, Fail PROVE BuildInv'
<1>1. pc' = "idle" /\ result' = "failed"
  BY DEF Fail, Return
<1>2. Unpacked' /\ Captured' /\ FinishedHoldsRequest'
  BY <1>1 DEF Unpacked, Captured, FinishedHoldsRequest, Finished, Edited, BootSteps
<1>3. DirsWhole'
  <2> USE DEF BuildInv, DirsWhole
  <2>1. CASE FailInSources
    BY <2>1, PartlyWrittenWhole DEF FailInSources
  <2>2. CASE FailInInstallDir
    <3>1. installDir' # Torn
      BY <2>2, PartlyWrittenWhole, WrittenWhole, WithoutWhole DEF FailInInstallDir
    <3> QED
      BY <2>2, <3>1 DEF FailInInstallDir
  <2>3. CASE FailInBootDir
    BY <2>3, PartlyWrittenWhole DEF FailInBootDir
  <2>4. CASE FailInOutput
    BY <2>4 DEF FailInOutput
  <2> QED
    BY <2>1, <2>2, <2>3, <2>4 DEF Fail
<1> QED
  BY <1>2, <1>3 DEF BuildInv

LEMMA InstallStepsKeep ==
  ASSUME TornIsNoFunction, BuildInv,
         \/ ExtractIso \/ ApplyInstall \/ RemoveComponents \/ AddWinUI3
         \/ ApplyModifications \/ InjectPrograms
  PROVE  BuildInv'
<1> USE DEF Edited, BootSteps, Goto, Enter
<1>1. CASE ExtractIso
  <2>1. isoDir' # Torn
    BY <1>1, WrittenWhole DEF ExtractIso
  <2> QED
    BY <1>1, <2>1 DEF ExtractIso, BuildInv, DirsWhole, Unpacked, Captured, FinishedHoldsRequest, Finished
<1>2. CASE ApplyInstall
  <2>1. installDir' # Torn
    BY <1>2, WrittenWhole DEF ApplyInstall
  <2> QED
    BY <1>2, <2>1 DEF ApplyInstall, BuildInv, DirsWhole, Unpacked, Captured, FinishedHoldsRequest, Finished
<1>3. CASE RemoveComponents
  <2>1. installDir' # Torn /\ NoComponents(installDir)'
    BY <1>3, WithoutWhole DEF RemoveComponents, NoComponents, Without
  <2> QED
    BY <1>3, <2>1 DEF RemoveComponents, BuildInv, DirsWhole, Unpacked, Captured, FinishedHoldsRequest, Finished, NoComponents
<1>4. CASE AddWinUI3
  <2> USE <1>4 DEF AddWinUI3
  <2>1. DOMAIN WinUIFiles \subseteq {WinUI}
    BY FileFacts DEF WinUIFiles, Nothing
  <2>2. NoComponents(installDir)
    BY DEF BuildInv, Unpacked
  <2>3. NoComponents(installDir')
    BY <2>1, <2>2, ComponentsStayOut, PlatformBuildAssumption DEF WinUI
  <2>4. ASSUME request.winui3, request.source # "other" PROVE WinUI \in DOMAIN installDir'
    BY <2>4 DEF WinUIFiles, Nothing, Written, File
  <2>5. ASSUME request.winui3, request.source = "runtime" PROVE installDir'[WinUI] = "runtime"
    <3>1. installDir' = Written(installDir, File(WinUI, "runtime"))
      BY <2>5 DEF WinUIFiles
    <3> QED
      BY <3>1 DEF Written, File
  <2>6. installDir' # Torn
    BY WrittenWhole DEF BuildInv, DirsWhole
  <2> QED
    BY <2>3, <2>4, <2>5, <2>6 DEF BuildInv, DirsWhole, Unpacked, Captured, FinishedHoldsRequest, Finished, NoComponents, HasWinUI
<1>5. CASE ApplyModifications
  <2> USE <1>5 DEF ApplyModifications
  <2>1. NoComponents(installDir) /\ HasWinUI(installDir)
    BY DEF BuildInv, Unpacked
  <2>2. CASE request.registry /\ Mods # <<>>
    <3>1. installDir' = Written(installDir, File(RegFile, <<Last(Mods)>>))
      BY <2>2 DEF RegFileAfter
    <3>2. DOMAIN File(RegFile, <<Last(Mods)>>) = {RegFile}
      BY FileFacts
    <3>3. NoComponents(installDir')
      BY <2>1, <3>1, <3>2, ComponentsStayOut, PlatformBuildAssumption DEF RegFile
    <3>4. HasWinUI(Written(installDir, File(RegFile, <<Last(Mods)>>)))
      BY <2>1, <3>2, WinUIStays DEF WinUI, RegFile
    <3>5. RegFile \in DOMAIN installDir'
      BY <3>1, <3>2 DEF Written
    <3>6. installDir' # Torn
      BY <3>1, WrittenWhole
    <3> QED
      BY <3>1, <3>3, <3>4, <3>5, <3>6 DEF BuildInv, DirsWhole, Unpacked, Captured, FinishedHoldsRequest, Finished, NoComponents, HasWinUI, HasRegFile
  <2>3. CASE ~(request.registry /\ Mods # <<>>)
    <3>1. installDir' = installDir
      BY <2>3 DEF RegFileAfter
    <3> QED
      BY <2>1, <2>3, <3>1 DEF BuildInv, DirsWhole, Unpacked, Captured, FinishedHoldsRequest, Finished, NoComponents, HasWinUI, HasRegFile
  <2> QED
    BY <2>2, <2>3
<1>6. CASE InjectPrograms
  <2> USE <1>6 DEF InjectPrograms
  <2>1. NoComponents(installDir) /\ HasWinUI(installDir) /\ HasRegFile(installDir)
    BY DEF BuildInv, Unpacked
  <2>2. DOMAIN ProgramFiles(request.programs) = ToSet(request.programs) \cap Available
    BY DEF ProgramFiles
  <2>3. NoComponents(installDir')
    BY <2>1, <2>2, ComponentsStayOut, PlatformBuildAssumption
  <2>4. HasWinUI(installDir') /\ HasRegFile(installDir')
    BY <2>1, <2>2, WinUIStays, RegFileStays, PlatformBuildAssumption DEF WinUI
  <2>5. \A p \in ToSet(request.programs) \cap Available :
          p \in DOMAIN installDir' /\ installDir'[p] = "whole"
    BY DEF ProgramFiles, Written
  <2>6. installDir' # Torn
    BY WrittenWhole
  <2> QED
    BY <2>3, <2>4, <2>5, <2>6 DEF BuildInv, DirsWhole, Unpacked, Captured, FinishedHoldsRequest, Finished, NoComponents, HasWinUI, HasRegFile, HasPrograms
<1> QED
  BY <1>1, <1>2, <1>3, <1>4, <1>5, <1>6

LEMMA CaptureInstallKeeps ==
  ASSUME TornIsNoFunction, BuildInv, CaptureInstall PROVE BuildInv'
<1> USE DEF CaptureInstall, Goto, Enter
<1>1. installDir # Torn /\ InstallAsAsked(installDir)
  BY DEF BuildInv, DirsWhole, Unpacked, Edited, InstallAsAsked
<1>2. "install.wim" \in DOMAIN isoDir' /\ isoDir'["install.wim"] = <<installDir>>
  BY DEF Written, File
<1>3. isoDir' # Torn
  BY WrittenWhole
<1>4. DirsWhole'
  BY <1>3 DEF BuildInv, DirsWhole
<1>5. InstallAsAsked(isoDir["install.wim"][1])'
  BY <1>1, <1>2 DEF InstallAsAsked, NoComponents, HasWinUI, HasRegFile, HasPrograms
<1>6. Captured'
  BY <1>2, <1>5, CapturedWhole DEF Captured, BootSteps
<1> QED
  BY <1>4, <1>6 DEF BuildInv, Unpacked, Edited, FinishedHoldsRequest, Finished

LEMMA BootStepsKeep ==
  ASSUME TornIsNoFunction, BuildInv, ApplyBoot \/ InjectInstaller PROVE BuildInv'
<1> USE DEF Edited, BootSteps, Goto, Enter
<1>1. UNCHANGED <<isoDir, installDir, request, missed>> /\ pc \in {"boot", "installer"}
      /\ pc' \in {"installer", "captureBoot"}
  BY DEF ApplyBoot, InjectInstaller
<1>2. /\ "install.wim" \in DOMAIN isoDir /\ isoDir["install.wim"] # Torn
      /\ InstallAsAsked(isoDir["install.wim"][1])
  BY <1>1 DEF BuildInv, Captured
<1>3. Captured'
  BY <1>1, <1>2 DEF Captured, InstallAsAsked, NoComponents, HasWinUI, HasRegFile, HasPrograms
<1>4. bootDir' # Torn
  BY WrittenWhole DEF ApplyBoot, InjectInstaller, BuildInv, DirsWhole
<1>5. pc' = "captureBoot" => HasInstaller(bootDir)'
  BY DEF ApplyBoot, InjectInstaller, HasInstaller, Written, InstallerFiles
<1> QED
  BY <1>1, <1>3, <1>4, <1>5 DEF BuildInv, DirsWhole, Unpacked, FinishedHoldsRequest, Finished

LEMMA CaptureBootKeeps ==
  ASSUME TornIsNoFunction, BuildInv, CaptureBoot PROVE BuildInv'
<1> USE DEF CaptureBoot, Goto, Enter
<1>1. /\ bootDir # Torn /\ HasInstaller(bootDir)
      /\ "install.wim" \in DOMAIN isoDir /\ isoDir["install.wim"] # Torn
      /\ InstallAsAsked(isoDir["install.wim"][1])
  BY DEF BuildInv, DirsWhole, Unpacked, Captured, BootSteps
<1>2. isoDir'["boot.wim"] = <<bootDir>>
  BY DEF Written, File
<1>3. "install.wim" \in DOMAIN isoDir' /\ isoDir'["install.wim"] = isoDir["install.wim"]
  BY <1>1 DEF Written, File
<1>4. isoDir' # Torn
  BY WrittenWhole
<1>5. InstallAsAsked(isoDir["install.wim"][1])' /\ HasInstaller(isoDir["boot.wim"][1])'
  BY <1>1, <1>2, <1>3
     DEF InstallAsAsked, NoComponents, HasWinUI, HasRegFile, HasPrograms, HasInstaller
<1>6. Captured'
  BY <1>1, <1>2, <1>3, <1>5, CapturedWhole DEF Captured, BootSteps
<1> QED
  BY <1>4, <1>6 DEF BuildInv, DirsWhole, Unpacked, Edited, FinishedHoldsRequest, Finished

LEMMA RepackKeeps ==
  ASSUME TornIsNoFunction, BuildInv, RepackIso PROVE BuildInv'
<1> USE DEF RepackIso, Return
<1>1. /\ isoDir # Torn /\ isoDir["install.wim"] # Torn /\ InstallAsAsked(isoDir["install.wim"][1])
      /\ isoDir["boot.wim"] # Torn /\ HasInstaller(isoDir["boot.wim"][1])
  BY DEF BuildInv, DirsWhole, Captured, BootSteps
<1>2. Iso' = isoDir
  BY DEF Iso, Written, File
<1>3. InstallAsAsked(Iso["install.wim"][1])' /\ HasInstaller(Iso["boot.wim"][1])'
  BY <1>1, <1>2
     DEF InstallAsAsked, NoComponents, HasWinUI, HasRegFile, HasPrograms, HasInstaller
<1>4. FinishedHoldsRequest'
  BY <1>1, <1>2, <1>3 DEF FinishedHoldsRequest, Image
<1> QED
  BY <1>4 DEF BuildInv, DirsWhole, Unpacked, Captured, Edited, BootSteps

-----------------------------------------------------------------------------
\* What a build calls finished is what it was asked for, whatever the
\* requests, the ISOs and the history of failed builds are.
THEOREM FinishedIsAsAsked ==
  ASSUME TornIsNoFunction PROVE Spec => []FinishedHoldsRequest
<1>1. Init => BuildInv
  <2> SUFFICES ASSUME Init PROVE BuildInv
    OBVIOUS
  <2>1. Nothing # Torn
    BY DEF TornIsNoFunction, Nothing
  <2> QED
    BY <2>1 DEF Init, BuildInv, DirsWhole, Unpacked, Captured, FinishedHoldsRequest, Finished,
                Edited, BootSteps
<1>2. BuildInv /\ [Next]_vars => BuildInv'
  <2> SUFFICES ASSUME BuildInv, [Next]_vars PROVE BuildInv'
    OBVIOUS
  <2>1. ASSUME NEW r \in Requests, StartBuild(r) PROVE BuildInv'
    BY <2>1, StartKeeps
  <2>2. CASE Fail
    BY <2>2, FailKeeps
  <2>3. CASE Step
    BY <2>3, InstallStepsKeep, CaptureInstallKeeps, BootStepsKeep, CaptureBootKeeps, RepackKeeps
       DEF Step
  <2>4. CASE UNCHANGED vars
    BY <2>4 DEF vars, BuildInv, DirsWhole, Unpacked, Captured, FinishedHoldsRequest, Finished,
                Iso, Image, InstallAsAsked, NoComponents, HasWinUI, HasRegFile, HasPrograms, HasInstaller
  <2> QED
    BY <2>1, <2>2, <2>3, <2>4 DEF Next
<1>3. BuildInv => FinishedHoldsRequest
  BY DEF BuildInv
<1> QED
  BY <1>1, <1>2, <1>3, PTL DEF Spec

-----------------------------------------------------------------------------
(***************************************************************************)
(* BuiltFromGivenIso.  Nothing of the directories at the beginning of a    *)
(* build is used: extraction puts the images of the ISO in place, and from *)
(* there the kept files are followed through the unpacked images into the  *)
(* captured ones.                                                          *)
(***************************************************************************)
Given(w) == w \in DOMAIN Media[request.iso]

InPlace(w) == w \in DOMAIN isoDir /\ isoDir[w] = Media[request.iso][w]

OfGiven(image, w) ==
  \A f \in KeptOf(request, w) : f \in DOMAIN image /\ image[f] = Media[request.iso][w][1][f]

InstallGiven ==
  Given("install.wim") =>
    /\ pc = "install" => InPlace("install.wim")
    /\ pc \in Edited \cup {"remove"} => OfGiven(installDir, "install.wim")
    /\ pc \in BootSteps => /\ "install.wim" \in DOMAIN isoDir
                           /\ OfGiven(isoDir["install.wim"][1], "install.wim")
                           /\ Len(isoDir["install.wim"]) = 1

BootGiven ==
  Given("boot.wim") =>
    /\ pc \in Edited \cup {"install", "remove", "boot"} => InPlace("boot.wim")
    /\ pc \in {"installer", "captureBoot"} => OfGiven(bootDir, "boot.wim")
    /\ pc = "repack" => /\ OfGiven(isoDir["boot.wim"][1], "boot.wim")
                        /\ Len(isoDir["boot.wim"]) = 1

GivenInv == InstallGiven /\ BootGiven /\ BuiltFromGivenIso

\* Files that are written over or taken out leave the others as they were.
LEMMA GivenStays ==
  ASSUME NEW dir, NEW files, NEW w, OfGiven(dir, w), DOMAIN files \cap KeptOf(request, w) = {}
  PROVE  OfGiven(Written(dir, files), w)
<1>1. ASSUME NEW f \in KeptOf(request, w)
      PROVE  f \in DOMAIN Written(dir, files) /\ Written(dir, files)[f] = Media[request.iso][w][1][f]
  <2>1. f \in DOMAIN dir \ DOMAIN files /\ dir[f] = Media[request.iso][w][1][f]
    BY DEF OfGiven
  <2> QED
    BY <2>1, WrittenFacts
<1> QED
  BY <1>1 DEF OfGiven

LEMMA GivenWritten ==
  ASSUME NEW dir, NEW w PROVE OfGiven(Written(dir, Media[request.iso][w][1]), w)
<1>1. ASSUME NEW f \in DOMAIN Media[request.iso][w][1]
      PROVE  /\ f \in DOMAIN Written(dir, Media[request.iso][w][1])
             /\ Written(dir, Media[request.iso][w][1])[f] = Media[request.iso][w][1][f]
  BY DEF Written
<1>2. KeptOf(request, w) \subseteq DOMAIN Media[request.iso][w][1]
  BY DEF KeptOf
<1> QED
  BY <1>1, <1>2 DEF OfGiven

LEMMA GivenInstallKeeps ==
  ASSUME GivenInv, ApplyInstall \/ RemoveComponents \/ AddWinUI3 \/ ApplyModifications \/ InjectPrograms
  PROVE  GivenInv'
<1> USE DEF Goto, Enter
<1>1. /\ UNCHANGED <<request, isoDir, bootDir>> /\ ~Finished'
      /\ pc \in {"install", "remove", "winui", "registry", "programs"}
      /\ pc' \in {"remove", "winui", "registry", "programs", "captureInstall"}
  BY DEF ApplyInstall, RemoveComponents, AddWinUI3, ApplyModifications, InjectPrograms, Finished
<1>2. BootGiven'
  BY <1>1 DEF GivenInv, BootGiven, Given, InPlace, Edited
<1>3. ASSUME Given("install.wim") PROVE OfGiven(installDir', "install.wim")
  <2>1. CASE ApplyInstall
    <3>1. isoDir["install.wim"][1] = Media[request.iso]["install.wim"][1]
      BY <1>3, <2>1 DEF ApplyInstall, FirstImage, GivenInv, InstallGiven, InPlace
    <3> QED
      BY <2>1, <3>1, GivenWritten DEF ApplyInstall, FirstImage
  <2>2. CASE pc # "install"
    <3>1. OfGiven(installDir, "install.wim")
      BY <1>1, <1>3, <2>2 DEF GivenInv, InstallGiven, Edited
    <3>2. CASE RemoveComponents
      BY <3>1, <3>2 DEF RemoveComponents, OfGiven, KeptOf, Without
    <3>3. CASE AddWinUI3
      <4>1. DOMAIN WinUIFiles \subseteq {WinUI}
        BY FileFacts DEF WinUIFiles, Nothing
      <4>2. request.winui3 => DOMAIN WinUIFiles \subseteq AddedToInstall(request)
        <5>1. request.source = "other" => DOMAIN WinUIFiles = {}
          BY DEF WinUIFiles, Nothing
        <5> QED
          BY <4>1, <5>1 DEF AddedToInstall
      <4>3. request.winui3 => DOMAIN WinUIFiles \cap KeptOf(request, "install.wim") = {}
        BY <4>1, <4>2 DEF KeptOf
      <4> QED
        BY <3>1, <3>3, <4>3, GivenStays DEF AddWinUI3
    <3>4. CASE ApplyModifications
      <4>1. CASE request.registry /\ Mods # <<>>
        <5>1. installDir' = Written(installDir, File(RegFile, <<Last(Mods)>>))
          BY <3>4, <4>1 DEF ApplyModifications, RegFileAfter
        <5>2. DOMAIN File(RegFile, <<Last(Mods)>>) = {RegFile} /\ RegFile \in AddedToInstall(request)
          BY <4>1, FileFacts DEF AddedToInstall
        <5> QED
          BY <3>1, <5>1, <5>2, GivenStays DEF KeptOf
      <4>2. CASE ~(request.registry /\ Mods # <<>>)
        BY <3>1, <3>4, <4>2 DEF ApplyModifications, RegFileAfter
      <4> QED
        BY <4>1, <4>2
    <3>5. CASE InjectPrograms
      <4>1. DOMAIN ProgramFiles(request.programs) \subseteq AddedToInstall(request)
        BY DEF ProgramFiles, AddedToInstall
      <4> QED
        BY <3>1, <3>5, <4>1, GivenStays DEF InjectPrograms, KeptOf
    <3> QED
      BY <2>2, <3>2, <3>3, <3>4, <3>5 DEF ApplyInstall
  <2> QED
    BY <1>1, <2>1, <2>2 DEF RemoveComponents, AddWinUI3, ApplyModifications, InjectPrograms
<1>4. InstallGiven'
  BY <1>1, <1>3 DEF InstallGiven, Given, OfGiven, BootSteps
<1> QED
  BY <1>1, <1>2, <1>4 DEF GivenInv, BuiltFromGivenIso

LEMMA GivenBootKeeps ==
  ASSUME GivenInv, ExtractIso \/ CaptureInstall \/ ApplyBoot \/ InjectInstaller \/ CaptureBoot
  PROVE  GivenInv'
<1> USE DEF Goto, Enter
<1>1. UNCHANGED <<request, output>> /\ ~Finished'
      /\ pc' \in {"install", "boot", "installer", "captureBoot", "repack"}
  BY DEF ExtractIso, CaptureInstall, ApplyBoot, InjectInstaller, CaptureBoot, Finished
<1>2. CASE ExtractIso
  <2>1. \A w \in DOMAIN Media[request.iso] : InPlace(w)'
    <3> SUFFICES ASSUME NEW w \in DOMAIN Media[request.iso] PROVE InPlace(w)'
      OBVIOUS
    <3>1. /\ w \in DOMAIN Written(isoDir, Media[request.iso])
          /\ Written(isoDir, Media[request.iso])[w] = Media[request.iso][w]
      BY DEF Written
    <3> QED
      BY <1>1, <1>2, <3>1 DEF ExtractIso, InPlace
  <2> QED
    BY <1>1, <1>2, <2>1
       DEF ExtractIso, GivenInv, InstallGiven, BootGiven, Given, Edited, BootSteps, BuiltFromGivenIso
<1>3. CASE CaptureInstall
  <2>1. /\ "install.wim" \in DOMAIN isoDir' /\ isoDir'["install.wim"] = <<installDir>>
        /\ InPlace("boot.wim") => InPlace("boot.wim")'
    BY <1>3 DEF CaptureInstall, Written, File, InPlace
  <2> QED
    BY <1>1, <1>3, <2>1
       DEF CaptureInstall, GivenInv, InstallGiven, BootGiven, Given, OfGiven, Edited, BootSteps,
           BuiltFromGivenIso
<1>4. CASE ApplyBoot
  <2>1. ASSUME Given("boot.wim") PROVE OfGiven(bootDir', "boot.wim")
    <3>1. isoDir["boot.wim"][1] = Media[request.iso]["boot.wim"][1]
      BY <1>4, <2>1 DEF ApplyBoot, GivenInv, BootGiven, InPlace
    <3> QED
      BY <1>4, <3>1, GivenWritten DEF ApplyBoot, FirstImage
  <2> QED
    BY <1>1, <1>4, <2>1
       DEF ApplyBoot, GivenInv, InstallGiven, BootGiven, Given, OfGiven, Edited, BootSteps,
           BuiltFromGivenIso
<1>5. CASE InjectInstaller
  <2>1. ASSUME Given("boot.wim") PROVE OfGiven(bootDir', "boot.wim")
    <3>1. OfGiven(bootDir, "boot.wim")
      BY <1>5, <2>1 DEF InjectInstaller, GivenInv, BootGiven
    <3>2. request.installer # NoInstaller => DOMAIN InstallerFiles \cap KeptOf(request, "boot.wim") = {}
      BY DEF InstallerFiles, KeptOf, AddedToBoot
    <3> QED
      BY <1>5, <3>1, <3>2, GivenStays DEF InjectInstaller
  <2> QED
    BY <1>1, <1>5, <2>1
       DEF InjectInstaller, GivenInv, InstallGiven, BootGiven, Given, OfGiven, Edited, BootSteps,
           BuiltFromGivenIso
<1>6. CASE CaptureBoot
  <2>1. isoDir'["boot.wim"] = <<bootDir>>
    BY <1>6 DEF CaptureBoot, Written, File
  <2>2. Given("install.wim") =>
          /\ "install.wim" \in DOMAIN isoDir' /\ isoDir'["install.wim"] = isoDir["install.wim"]
          /\ OfGiven(isoDir["install.wim"][1], "install.wim") /\ Len(isoDir["install.wim"]) = 1
    BY <1>6 DEF CaptureBoot, GivenInv, InstallGiven, BootSteps, Written, File
  <2>3. InstallGiven'
    BY <1>1, <1>6, <2>2 DEF CaptureBoot, InstallGiven, Given, OfGiven, Edited
  <2>4. BootGiven'
    BY <1>1, <1>6, <2>1 DEF CaptureBoot, GivenInv, BootGiven, Given, OfGiven, Edited
  <2> QED
    BY <1>1, <2>3, <2>4 DEF GivenInv, BuiltFromGivenIso
<1> QED
  BY <1>2, <1>3, <1>4, <1>5, <1>6

LEMMA GivenRepackKeeps ==
  ASSUME GivenInv, RepackIso PROVE GivenInv'
<1> USE DEF RepackIso, Return
<1>1. Iso' = isoDir
  BY DEF Iso, Written, File
<1>2. \A w \in {"install.wim", "boot.wim"} : Given(w) => OfGiven(isoDir[w][1], w) /\ Len(isoDir[w]) = 1
  BY DEF GivenInv, InstallGiven, BootGiven, BootSteps
<1>3. BuiltFromGivenIso'
  BY <1>1, <1>2 DEF BuiltFromGivenIso, Image, Given, OfGiven
<1> QED
  BY <1>3 DEF GivenInv, InstallGiven, BootGiven, Edited, BootSteps

LEMMA GivenNext == ASSUME GivenInv, [Next]_vars PROVE GivenInv'
<1>1. ASSUME NEW r \in Requests, StartBuild(r) PROVE GivenInv'
  BY <1>1 DEF StartBuild, GivenInv, InstallGiven, BootGiven, BuiltFromGivenIso, Finished, Edited,
              BootSteps
<1>2. CASE Fail
  BY <1>2 DEF Fail, Return, GivenInv, InstallGiven, BootGiven, BuiltFromGivenIso, Finished, Edited,
              BootSteps
<1>3. CASE Step
  BY <1>3, GivenInstallKeeps, GivenBootKeeps, GivenRepackKeeps DEF Step
<1>4. CASE UNCHANGED vars
  BY <1>4 DEF vars, GivenInv, InstallGiven, BootGiven, Given, InPlace, OfGiven, BuiltFromGivenIso,
              Finished, Iso, Image, Edited, BootSteps
<1> QED
  BY <1>1, <1>2, <1>3, <1>4 DEF Next

\* A finished ISO holds the files of the ISO this build was given, whatever
\* other ISOs earlier builds unpacked in the same directories.
THEOREM MadeOfTheGivenIso == Spec => []BuiltFromGivenIso
<1>1. Init => GivenInv
  BY DEF Init, GivenInv, InstallGiven, BootGiven, BuiltFromGivenIso, Finished, Edited, BootSteps
<1>2. GivenInv /\ [Next]_vars => GivenInv'
  BY GivenNext
<1>3. GivenInv => BuiltFromGivenIso
  BY DEF GivenInv
<1> QED
  BY <1>1, <1>2, <1>3, PTL DEF Spec

-----------------------------------------------------------------------------
(***************************************************************************)
(* TypeOK and RetryIsClean.                                                *)
(***************************************************************************)
InIsos == UNION {DOMAIN Media[i] : i \in {r.iso : r \in Requests} \ {NoIso}}
OfIsos == UNION {UNION {DOMAIN Media[i][w][1] : w \in DOMAIN Media[i]} : i \in {r.iso : r \in Requests} \ {NoIso}}

InstallNames == OfIsos \cup {WinUI, RegFile} \cup Available
BootNames    == OfIsos \cup {Setup, Bcd}

\* What unpacking and writing files leave: a function from names to contents.
IsDir(d) == d = [f \in DOMAIN d |-> d[f]]

\* An image is captured under the name it was extracted from, with the names
\* of the directory it was captured from.
ImagesTyped ==
  /\ pc # "idle" => request.iso # NoIso
  /\ pc \in Edited \cup {"remove"} => "install.wim" \in DOMAIN isoDir
  /\ pc \in {"installer", "captureBoot"} => "boot.wim" \in DOMAIN isoDir
  /\ Readable("install.wim") => DOMAIN isoDir["install.wim"][1] \subseteq InstallNames
  /\ Readable("boot.wim") => DOMAIN isoDir["boot.wim"][1] \subseteq BootNames
  /\ IsDir(installDir) /\ IsDir(bootDir)

TypeInv == TypeOK /\ ImagesTyped

\* dir holds the files S as image has them.
Holds(dir, image, S) == \A f \in S : f \in DOMAIN dir /\ dir[f] = image[f]

FilesGiven(w) == IF Given(w) THEN DOMAIN Media[request.iso][w][1] ELSE {}

\* All builds so far were asked for the same.
OneRequest == requests = {request} /\ request.iso # NoIso

\* What builds of one configuration can have left behind, however they ended.
PastOK ==
  /\ requests # {} => request \in requests
  /\ requests = {} => pc = "idle" /\ isoDir = Nothing /\ installDir = Nothing /\ bootDir = Nothing
  /\ OneRequest =>
       /\ \A w \in {"install.wim", "boot.wim"} \cap DOMAIN isoDir : Given(w)
       /\ DOMAIN installDir \subseteq FilesGiven("install.wim") \cup AddedToInstall(request)
       /\ WinUI \in DOMAIN installDir \ FilesGiven("install.wim") =>
            request.source = "runtime" \/ installDir[WinUI] = "placeholder"
       /\ DOMAIN bootDir \subseteq FilesGiven("boot.wim") \cup AddedToBoot(request)

\* What is still to be put in the install image at each step.
ToAdd ==
  CASE pc = "registry" -> AddedToInstall(request) \ {WinUI}
    [] pc = "programs" -> AddedToInstall(request) \ {WinUI, RegFile}
    [] OTHER -> {}

\* What the build at hand has done so far.
NowOK ==
  OneRequest =>
    /\ pc = "remove" => Holds(installDir, Media[request.iso]["install.wim"][1], FilesGiven("install.wim"))
    /\ pc = "winui"  => Holds(installDir, Media[request.iso]["install.wim"][1],
                              FilesGiven("install.wim") \ (ToSet(Components) \ missed))
    /\ pc \in {"registry", "programs", "captureInstall"} =>
         Holds(installDir, CleanInstall(request, missed), DOMAIN CleanInstall(request, missed) \ ToAdd)
    /\ pc \in Edited => NoComponents(installDir)
    /\ pc \in BootSteps => /\ "install.wim" \in DOMAIN isoDir
                           /\ isoDir["install.wim"] = <<CleanInstall(request, missed)>>
    /\ pc = "installer" => Holds(bootDir, Media[request.iso]["boot.wim"][1], FilesGiven("boot.wim"))
    /\ pc = "captureBoot" => bootDir = CleanBoot(request)
    /\ pc = "repack" => isoDir["boot.wim"] = <<CleanBoot(request)>>

RetryInv == TypeInv /\ GivenInv /\ PastOK /\ NowOK /\ RetryIsClean

\* What is in a directory after some of the files were written, the last of
\* them perhaps torn.
LEMMA PartlyWrittenFacts ==
  ASSUME NEW dir, NEW files, NEW d \in PartlyWritten(dir, files)
  PROVE  /\ DOMAIN dir \subseteq DOMAIN d /\ DOMAIN d \subseteq DOMAIN dir \cup DOMAIN files
         /\ IsDir(d)
         /\ \A f \in DOMAIN dir \ DOMAIN files : d[f] = dir[f]
         /\ \A f \in DOMAIN files \cap DOMAIN d :
              d[f] = Torn \/ d[f] = files[f] \/ (f \in DOMAIN dir /\ d[f] = dir[f])
<1>1. PICK S \in SUBSET DOMAIN files :
        \/ d = Written(dir, Only(files, S))
        \/ \E f \in DOMAIN files \ S : d = Written(dir, Written(Only(files, S), File(f, Torn)))
  BY DEF PartlyWritten
<1>2. CASE d = Written(dir, Only(files, S))
  BY <1>2 DEF Written, Only, IsDir
<1>3. CASE \E f \in DOMAIN files \ S : d = Written(dir, Written(Only(files, S), File(f, Torn)))
  <2>1. PICK t \in DOMAIN files \ S : d = Written(dir, Written(Only(files, S), File(t, Torn)))
    BY <1>3
  <2> DEFINE some == Written(Only(files, S), File(t, Torn))
  <2>2. /\ DOMAIN some \subseteq DOMAIN files
        /\ \A f \in DOMAIN some : some[f] = Torn \/ some[f] = files[f]
    BY DEF Written, Only, File
  <2>3. d = Written(dir, some)
    BY <2>1
  <2> HIDE DEF some
  <2> QED
    BY <2>2, <2>3 DEF Written, IsDir
<1> QED
  BY <1>1, <1>2, <1>3

LEMMA WrittenIsDir ==
  ASSUME NEW dir, NEW files PROVE IsDir(Written(dir, files))
  BY DEF Written, IsDir

LEMMA RequestType ==
  ASSUME request \in Requests
  PROVE  /\ AddedToInstall(request) \subseteq {WinUI, RegFile} \cup Available
         /\ AddedToBoot(request) \subseteq {Setup, Bcd}
         /\ AddedToInstall(request) \cap ToSet(Components) = {}
<1>1. AddedToInstall(request) \subseteq {WinUI, RegFile} \cup Available
  BY DEF AddedToInstall
<1>2. ({WinUI, RegFile} \cup Available) \cap ToSet(Components) = {}
  BY PlatformBuildAssumption DEF WinUI, RegFile
<1>3. AddedToBoot(request) \subseteq {Setup, Bcd}
  BY DEF AddedToBoot
<1> QED
  BY <1>1, <1>2, <1>3

\* The programs before one that fails are programs of the request.
LEMMA SomePrograms ==
  ASSUME request \in Requests, NEW n \in DOMAIN request.programs
  PROVE  /\ ToSet(SubSeq(request.programs, 1, n - 1)) \subseteq ToSet(request.programs)
         /\ ToSet(<<request.programs[n]>>) \subseteq ToSet(request.programs)
<1>1. request.programs \in Seq(ToSet(request.programs))
  BY PlatformBuildAssumption
<1>2. PICK s : s = request.programs
  OBVIOUS
<1>3. s \in Seq(ToSet(s)) /\ n \in 1 .. Len(s)
  BY <1>1, <1>2
<1>4. ToSet(SubSeq(s, 1, n - 1)) \subseteq ToSet(s)
  BY <1>3 DEF ToSet
<1>5. ToSet(<<s[n]>>) \subseteq ToSet(s)
  BY <1>3 DEF ToSet
<1> QED
  BY <1>2, <1>4, <1>5

\* What a step, finished or not, can do to the unpacked install image.
LEMMA InstallDirSteps ==
  ASSUME request \in Requests, IsDir(installDir), Step \/ Fail
  PROVE  /\ IsDir(installDir')
         /\ \/ /\ DOMAIN installDir' \subseteq DOMAIN installDir \cup AddedToInstall(request)
               /\ WinUI \in DOMAIN installDir' =>
                    \/ request.source = "runtime" \/ installDir'[WinUI] = "placeholder"
                    \/ WinUI \in DOMAIN installDir /\ installDir'[WinUI] = installDir[WinUI]
            \/ /\ pc = "install" /\ Readable("install.wim")
               /\ DOMAIN installDir' \subseteq DOMAIN installDir \cup DOMAIN isoDir["install.wim"][1]
               /\ WinUI \in DOMAIN installDir' \ DOMAIN isoDir["install.wim"][1] =>
                    WinUI \in DOMAIN installDir /\ installDir'[WinUI] = installDir[WinUI]
<1> DEFINE added   == AddedToInstall(request)
           sameUI  == WinUI \in DOMAIN installDir' =>
                        \/ request.source = "runtime" \/ installDir'[WinUI] = "placeholder"
                        \/ WinUI \in DOMAIN installDir /\ installDir'[WinUI] = installDir[WinUI]
           within  == DOMAIN installDir' \subseteq DOMAIN installDir \cup added
<1>1. CASE UNCHANGED installDir
  BY <1>1
<1>2. CASE \/ ApplyInstall
           \/ pc = "install" /\ Readable("install.wim")
              /\ installDir' \in PartlyWritten(installDir, isoDir["install.wim"][1])
  <2>1. CASE ApplyInstall
    <3>1. installDir' = Written(installDir, isoDir["install.wim"][1]) /\ pc = "install" /\ Readable("install.wim")
      BY <2>1 DEF ApplyInstall, FirstImage
    <3> QED
      BY <3>1, WrittenIsDir DEF Written
  <2>2. CASE pc = "install" /\ Readable("install.wim")
             /\ installDir' \in PartlyWritten(installDir, isoDir["install.wim"][1])
    BY <2>2, PartlyWrittenFacts
  <2> QED
    BY <1>2, <2>1, <2>2
<1>3. CASE \E files : installDir' = Without(installDir, files)
  BY <1>3 DEF Without, IsDir
<1>4. WinUI # RegFile /\ WinUI \notin Available
  BY PlatformBuildAssumption DEF WinUI, RegFile
<1>5. ASSUME NEW done, NEW files, IsDir(done), DOMAIN done \subseteq DOMAIN installDir \cup added,
             DOMAIN files \subseteq added, WinUI \notin DOMAIN files,
             WinUI \in DOMAIN done => WinUI \in DOMAIN installDir /\ done[WinUI] = installDir[WinUI],
             installDir' = Written(done, files) \/ installDir' \in PartlyWritten(done, files)
      PROVE  IsDir(installDir') /\ within /\ sameUI
  <2>1. CASE installDir' = Written(done, files)
    <3>1. IsDir(installDir')
      BY <2>1, WrittenIsDir
    <3>2. within /\ sameUI
      BY <1>5, <2>1 DEF Written
    <3> QED
      BY <3>1, <3>2
  <2>2. CASE installDir' \in PartlyWritten(done, files)
    <3>1. /\ IsDir(installDir') /\ DOMAIN installDir' \subseteq DOMAIN done \cup DOMAIN files
          /\ \A f \in DOMAIN done \ DOMAIN files : installDir'[f] = done[f]
      BY <2>2, PartlyWrittenFacts
    <3> QED
      BY <1>5, <3>1
  <2> QED
    BY <1>5, <2>1, <2>2
<1>6. CASE request.winui3 /\ \/ installDir' = Written(installDir, WinUIFiles)
                             \/ request.source = "runtime" /\ installDir' \in PartlyWritten(installDir, WinUIFiles)
  <2>1. DOMAIN WinUIFiles \subseteq added \cap {WinUI}
    <3>1. request.source = "other" => DOMAIN WinUIFiles = {}
      BY DEF WinUIFiles, Nothing
    <3>2. DOMAIN WinUIFiles \subseteq {WinUI}
      BY FileFacts DEF WinUIFiles, Nothing
    <3> QED
      BY <1>6, <3>1, <3>2 DEF AddedToInstall
  <2>2. CASE request.source = "runtime" /\ installDir' \in PartlyWritten(installDir, WinUIFiles)
    BY <2>1, <2>2, PartlyWrittenFacts
  <2>3. CASE installDir' = Written(installDir, WinUIFiles)
    <3>1. IsDir(installDir') /\ within
      BY <2>1, <2>3, WrittenIsDir, WrittenFacts
    <3>2. CASE request.source \notin {"runtime", "other"} /\ WinUI \notin DOMAIN installDir
      <4>1. WinUIFiles = File(WinUI, "placeholder")
        BY <3>2 DEF WinUIFiles
      <4>2. installDir'[WinUI] = "placeholder"
        BY <2>3, <4>1 DEF File, Written
      <4> QED
        BY <3>1, <4>2
    <3>3. CASE request.source = "other" \/ (request.source # "runtime" /\ WinUI \in DOMAIN installDir)
      <4>1. WinUIFiles = Nothing
        BY <3>3 DEF WinUIFiles
      <4>2. \A f \in DOMAIN installDir' : f \in DOMAIN installDir /\ installDir'[f] = installDir[f]
        BY <2>3, <4>1 DEF Nothing, Written
      <4> QED
        BY <3>1, <4>2
    <3>4. CASE request.source = "runtime"
      BY <3>1, <3>4
    <3>5. \/ request.source \notin {"runtime", "other"} /\ WinUI \notin DOMAIN installDir
          \/ request.source = "other" \/ (request.source # "runtime" /\ WinUI \in DOMAIN installDir)
          \/ request.source = "runtime"
      OBVIOUS
    <3> HIDE DEF within, sameUI
    <3> QED
      BY <3>2, <3>3, <3>4, <3>5
  <2> QED
    BY <1>6, <2>2, <2>3
<1>7. CASE \E mods, n : request.registry /\ Mods # <<>>
             /\ \/ installDir' = RegFileAfter(installDir, Mods)
                \/ installDir' \in PartlyWritten(RegFileAfter(installDir, mods), File(RegFile, n))
  <2>1. PICK mods, n :
          \/ installDir' = RegFileAfter(installDir, Mods)
          \/ installDir' \in PartlyWritten(RegFileAfter(installDir, mods), File(RegFile, n))
    BY <1>7
  <2>2. RegFile \in added
    BY <1>7 DEF AddedToInstall
  <2>3. \A c : DOMAIN File(RegFile, c) = {RegFile}
    BY FileFacts
  <2>4. installDir' = RegFileAfter(installDir, Mods) =>
          installDir' = Written(installDir, File(RegFile, <<Last(Mods)>>))
    BY <1>7 DEF RegFileAfter
  <2> DEFINE done == RegFileAfter(installDir, mods)
  <2>5. /\ IsDir(done) /\ DOMAIN done \subseteq DOMAIN installDir \cup added
        /\ WinUI \in DOMAIN done => WinUI \in DOMAIN installDir /\ done[WinUI] = installDir[WinUI]
    <3>1. CASE mods = <<>>
      BY <3>1 DEF RegFileAfter
    <3>2. CASE mods # <<>>
      <4>1. done = Written(installDir, File(RegFile, <<Last(mods)>>))
        BY <3>2 DEF RegFileAfter
      <4>2. IsDir(done)
        BY <4>1, WrittenIsDir
      <4> QED
        BY <1>4, <2>2, <2>3, <4>1, <4>2 DEF Written
    <3> QED
      BY <3>1, <3>2
  <2> HIDE DEF done
  <2>6. CASE installDir' = RegFileAfter(installDir, Mods)
    BY <1>4, <1>5, <2>2, <2>3, <2>4, <2>6
  <2>7. CASE installDir' \in PartlyWritten(done, File(RegFile, n))
    BY <1>4, <1>5, <2>2, <2>3, <2>5, <2>7
  <2> QED
    BY <2>1, <2>6, <2>7 DEF done
<1>8. CASE InjectPrograms
  <2>1. DOMAIN ProgramFiles(request.programs) \subseteq added /\ WinUI \notin DOMAIN ProgramFiles(request.programs)
    BY <1>4 DEF ProgramFiles, AddedToInstall
  <2>2. installDir' = Written(installDir, ProgramFiles(request.programs))
    BY <1>8 DEF InjectPrograms
  <2> QED
    BY <1>5, <2>1, <2>2
<1>9. CASE \E n \in DOMAIN request.programs :
             installDir' \in PartlyWritten(
               Written(installDir, ProgramFiles(SubSeq(request.programs, 1, n - 1))),
               ProgramFiles(<<request.programs[n]>>))
  <2>1. PICK n \in DOMAIN request.programs :
             installDir' \in PartlyWritten(
               Written(installDir, ProgramFiles(SubSeq(request.programs, 1, n - 1))),
               ProgramFiles(<<request.programs[n]>>))
    BY <1>9
  <2> DEFINE before == ProgramFiles(SubSeq(request.programs, 1, n - 1))
             this   == ProgramFiles(<<request.programs[n]>>)
             done   == Written(installDir, before)
  <2>2. /\ DOMAIN before \subseteq added /\ WinUI \notin DOMAIN before
        /\ DOMAIN this \subseteq added /\ WinUI \notin DOMAIN this
    BY <1>4, SomePrograms DEF ProgramFiles, AddedToInstall
  <2>3. installDir' \in PartlyWritten(done, this)
    BY <2>1
  <2> HIDE DEF before, this
  <2>4. /\ IsDir(done) /\ DOMAIN done \subseteq DOMAIN installDir \cup added
        /\ WinUI \in DOMAIN done => WinUI \in DOMAIN installDir /\ done[WinUI] = installDir[WinUI]
    <3>1. IsDir(done)
      BY WrittenIsDir
    <3> QED
      BY <2>2, <3>1 DEF Written
  <2> HIDE DEF done
  <2> QED
    BY <1>5, <2>2, <2>3, <2>4
<1>10. CASE Step
  <2>1. RemoveComponents => \E files : installDir' = Without(installDir, files)
    BY DEF RemoveComponents
  <2>2. AddWinUI3 => UNCHANGED installDir \/ (request.winui3 /\ installDir' = Written(installDir, WinUIFiles))
    BY DEF AddWinUI3
  <2>3. ApplyModifications =>
          \/ UNCHANGED installDir
          \/ request.registry /\ Mods # <<>> /\ installDir' = RegFileAfter(installDir, Mods)
    BY DEF ApplyModifications, RegFileAfter
  <2>4. ExtractIso \/ CaptureInstall \/ ApplyBoot \/ InjectInstaller \/ CaptureBoot \/ RepackIso
          => UNCHANGED installDir
    BY DEF ExtractIso, CaptureInstall, ApplyBoot, InjectInstaller, CaptureBoot, RepackIso
  <2> QED
    BY <1>1, <1>2, <1>3, <1>6, <1>7, <1>8, <1>10, <2>1, <2>2, <2>3, <2>4 DEF Step
<1>11. CASE Fail
  <2>1. FailInSources \/ FailInBootDir \/ FailInOutput => UNCHANGED installDir
    BY DEF FailInSources, FailInBootDir, FailInOutput
  <2>2. CASE FailInInstallDir
    <3> USE <2>2 DEF FailInInstallDir
    <3>1. CASE pc = "install"
      BY <1>1, <1>2, <3>1 DEF FirstImage
    <3>2. CASE pc = "remove"
      BY <1>3, <3>2
    <3>3. CASE pc = "winui"
      BY <1>1, <1>6, <3>3
    <3>4. CASE pc = "registry"
      <4>1. request.registry
        BY <3>4
      <4>2. PICK n \in DOMAIN Mods :
              installDir' \in PartlyWritten(RegFileAfter(installDir, SubSeq(Mods, 1, n - 1)),
                                            File(RegFile, <<Mods[n]>>))
        BY <3>4
      <4>3. Mods # <<>>
        OBVIOUS
      <4> QED
        BY <1>7, <4>1, <4>2, <4>3
    <3>5. CASE pc = "programs"
      BY <1>1, <1>9, <3>5
    <3> QED
      BY <3>1, <3>2, <3>3, <3>4, <3>5
  <2> QED
    BY <1>1, <1>11, <2>1, <2>2 DEF Fail
<1> QED
  BY <1>10, <1>11

\* What a step can do to the unpacked boot image.
LEMMA BootDirSteps ==
  ASSUME IsDir(bootDir), Step \/ Fail
  PROVE  /\ IsDir(bootDir')
         /\ \/ DOMAIN bootDir' \subseteq DOMAIN bootDir \cup AddedToBoot(request)
            \/ /\ pc = "boot" /\ Readable("boot.wim")
               /\ DOMAIN bootDir' \subseteq DOMAIN bootDir \cup DOMAIN isoDir["boot.wim"][1]
<1>1. CASE UNCHANGED bootDir
  BY <1>1
<1>2. ASSUME NEW files, bootDir' = Written(bootDir, files) \/ bootDir' \in PartlyWritten(bootDir, files)
      PROVE  IsDir(bootDir') /\ DOMAIN bootDir' \subseteq DOMAIN bootDir \cup DOMAIN files
  <2>1. CASE bootDir' = Written(bootDir, files)
    BY <2>1, WrittenIsDir, WrittenFacts
  <2>2. CASE bootDir' \in PartlyWritten(bootDir, files)
    BY <2>2, PartlyWrittenFacts
  <2> QED
    BY <1>2, <2>1, <2>2
<1>3. CASE pc = "boot" /\ Readable("boot.wim")
           /\ \/ bootDir' = Written(bootDir, isoDir["boot.wim"][1])
              \/ bootDir' \in PartlyWritten(bootDir, isoDir["boot.wim"][1])
  BY <1>2, <1>3
<1>4. CASE request.installer # NoInstaller
           /\ \/ bootDir' = Written(bootDir, InstallerFiles)
              \/ bootDir' \in PartlyWritten(bootDir, InstallerFiles)
  <2>1. DOMAIN InstallerFiles = AddedToBoot(request)
    BY <1>4 DEF InstallerFiles, AddedToBoot
  <2> QED
    BY <1>2, <1>4, <2>1
<1>5. CASE Step
  <2>1. CASE ApplyBoot
    BY <1>3, <2>1 DEF ApplyBoot, FirstImage
  <2>2. CASE InjectInstaller
    BY <1>1, <1>4, <2>2 DEF InjectInstaller
  <2>3. CASE ~(ApplyBoot \/ InjectInstaller)
    <3>1. UNCHANGED bootDir
      BY <1>5, <2>3 DEF Step, ExtractIso, ApplyInstall, RemoveComponents, AddWinUI3, ApplyModifications,
                        InjectPrograms, CaptureInstall, CaptureBoot, RepackIso
    <3> QED
      BY <1>1, <3>1
  <2> QED
    BY <2>1, <2>2, <2>3
<1>6. CASE Fail
  <2>1. FailInSources \/ FailInInstallDir \/ FailInOutput => UNCHANGED bootDir
    BY DEF FailInSources, FailInInstallDir, FailInOutput
  <2>2. CASE FailInBootDir
    BY <1>1, <1>3, <1>4, <2>2 DEF FailInBootDir, FirstImage
  <2> QED
    BY <1>1, <1>6, <2>1, <2>2 DEF Fail
<1> QED
  BY <1>5, <1>6

\* Which image a step puts into the sources directory, if any.
Put(files) ==
  /\ DOMAIN isoDir \subseteq DOMAIN isoDir' /\ DOMAIN isoDir' \subseteq DOMAIN isoDir \cup DOMAIN files
  /\ \A w \in DOMAIN isoDir' :
       \/ isoDir'[w] = Torn
       \/ w \in DOMAIN files /\ isoDir'[w] = files[w]
       \/ w \in DOMAIN isoDir /\ isoDir'[w] = isoDir[w]

LEMMA SourcesSteps ==
  ASSUME Step \/ Fail
  PROVE  \/ UNCHANGED isoDir
         \/ pc = "extract" /\ Put(Media[request.iso])
         \/ pc = "captureInstall" /\ Put(File("install.wim", <<installDir>>))
         \/ pc = "captureBoot" /\ Put(File("boot.wim", <<bootDir>>))
<1>1. ASSUME NEW files, isoDir' = Written(isoDir, files) \/ isoDir' \in PartlyWritten(isoDir, files)
      PROVE  Put(files)
  <2>1. CASE isoDir' = Written(isoDir, files)
    BY <2>1 DEF Written, Put
  <2>2. CASE isoDir' \in PartlyWritten(isoDir, files)
    <3>1. /\ DOMAIN isoDir \subseteq DOMAIN isoDir' /\ DOMAIN isoDir' \subseteq DOMAIN isoDir \cup DOMAIN files
          /\ \A f \in DOMAIN isoDir \ DOMAIN files : isoDir'[f] = isoDir[f]
          /\ \A f \in DOMAIN files \cap DOMAIN isoDir' :
               isoDir'[f] = Torn \/ isoDir'[f] = files[f] \/ (f \in DOMAIN isoDir /\ isoDir'[f] = isoDir[f])
      BY <2>2, PartlyWrittenFacts
    <3> QED
      BY <3>1 DEF Put
  <2> QED
    BY <1>1, <2>1, <2>2
<1>2. CASE Step
  <2>1. CASE ExtractIso
    BY <1>1, <2>1 DEF ExtractIso
  <2>2. CASE CaptureInstall
    BY <1>1, <2>2 DEF CaptureInstall
  <2>3. CASE CaptureBoot
    BY <1>1, <2>3 DEF CaptureBoot
  <2>4. CASE ~(ExtractIso \/ CaptureInstall \/ CaptureBoot)
    BY <1>2, <2>4 DEF Step, ApplyInstall, RemoveComponents, AddWinUI3, ApplyModifications,
                      InjectPrograms, ApplyBoot, InjectInstaller, RepackIso
  <2> QED
    BY <2>1, <2>2, <2>3, <2>4
<1>3. CASE Fail
  <2>1. FailInInstallDir \/ FailInBootDir \/ FailInOutput => UNCHANGED isoDir
    BY DEF FailInInstallDir, FailInBootDir, FailInOutput
  <2>2. CASE FailInSources
    BY <1>1, <2>2 DEF FailInSources
  <2> QED
    BY <1>3, <2>1, <2>2 DEF Fail
<1> QED
  BY <1>2, <1>3

\* The steps in their order; a finished build ends with the ISO written.
LEMMA ProgramOrder ==
  ASSUME pc \in Steps, Step \/ Fail
  PROVE  /\ UNCHANGED <<request, requests, builds>> /\ pc # "idle" /\ pc' \in Steps
         /\ result' \in {result, "ok", "failed"}
         /\ missed' = missed \/ missed' \subseteq ToSet(Components)
         /\ pc' \in Edited \cup {"remove"} =>
              \/ pc \in Edited \cup {"remove"} /\ UNCHANGED isoDir
              \/ pc = "install" /\ Readable("install.wim") /\ UNCHANGED isoDir
         /\ pc' \in {"installer", "captureBoot"} =>
              \/ pc = "installer" /\ UNCHANGED isoDir
              \/ pc = "boot" /\ Readable("boot.wim") /\ UNCHANGED isoDir
         /\ UNCHANGED output \/ DOMAIN output' \subseteq DOMAIN output \cup {request.name}
<1> USE DEF Steps, Edited
<1>1. CASE Fail
  <2>1. UNCHANGED <<request, requests, builds, missed>> /\ pc # "idle" /\ pc' = "idle" /\ result' = "failed"
    BY <1>1 DEF Fail, Return
  <2>2. UNCHANGED output \/ DOMAIN output' \subseteq DOMAIN output \cup {request.name}
    <3>1. CASE FailInOutput
      <4>1. output' \in PartlyWritten(output, File(request.name, isoDir))
        BY <3>1 DEF FailInOutput
      <4> QED
        BY <4>1, PartlyWrittenFacts DEF File
    <3> QED
      BY <1>1, <3>1 DEF Fail, FailInSources, FailInInstallDir, FailInBootDir
  <2> QED
    BY <2>1, <2>2
<1>2. CASE RepackIso
  <2>1. DOMAIN output' \subseteq DOMAIN output \cup {request.name}
    BY <1>2 DEF RepackIso, Written, File
  <2> QED
    BY <1>2, <2>1 DEF RepackIso, Return
<1>3. CASE Step /\ ~RepackIso
  BY <1>3 DEF Step, Goto, Enter, ExtractIso, ApplyInstall, RemoveComponents, AddWinUI3, ApplyModifications,
              InjectPrograms, CaptureInstall, ApplyBoot, InjectInstaller, CaptureBoot
<1> QED
  BY <1>1, <1>2, <1>3

-----------------------------------------------------------------------------
\* An ISO's image has the names the ISOs have.
LEMMA MediaNames ==
  ASSUME request \in Requests, request.iso # NoIso
  PROVE  /\ DOMAIN Media[request.iso] \subseteq InIsos
         /\ \A w \in DOMAIN Media[request.iso] : DOMAIN Media[request.iso][w][1] \subseteq OfIsos
<1>1. request.iso \in {r.iso : r \in Requests} \ {NoIso}
  OBVIOUS
<1>2. DOMAIN Media[request.iso] \subseteq InIsos
  BY <1>1 DEF InIsos
<1>3. ASSUME NEW w \in DOMAIN Media[request.iso] PROVE DOMAIN Media[request.iso][w][1] \subseteq OfIsos
  <2>1. DOMAIN Media[request.iso][w][1] \in {DOMAIN Media[request.iso][v][1] : v \in DOMAIN Media[request.iso]}
    OBVIOUS
  <2>2. DOMAIN Media[request.iso][w][1] \subseteq UNION {DOMAIN Media[request.iso][v][1] : v \in DOMAIN Media[request.iso]}
    BY <2>1, Zenon
  <2>3. UNION {DOMAIN Media[request.iso][v][1] : v \in DOMAIN Media[request.iso]}
          \in {UNION {DOMAIN Media[i][v][1] : v \in DOMAIN Media[i]} : i \in {r.iso : r \in Requests} \ {NoIso}}
    BY <1>1, Zenon
  <2>4. UNION {DOMAIN Media[request.iso][v][1] : v \in DOMAIN Media[request.iso]} \subseteq OfIsos
    BY <2>3, Zenon DEF OfIsos
  <2> QED
    BY <2>2, <2>4
<1> QED
  BY <1>2, <1>3

\* TypeOK with the names written out.
LEMMA TypeOKIs ==
  TypeOK <=>
    /\ pc \in Steps /\ builds \in 0 .. MaxBuilds
    /\ request \in Requests /\ requests \subseteq Requests
    /\ result \in {"none", "ok", "failed"}
    /\ DOMAIN isoDir \subseteq InIsos
    /\ DOMAIN installDir \subseteq InstallNames
    /\ DOMAIN bootDir \subseteq BootNames
    /\ DOMAIN output \subseteq Names /\ missed \subseteq ToSet(Components)
  BY DEF TypeOK, InIsos, OfIsos, InstallNames, BootNames

LEMMA TypeKeeps ==
  ASSUME TypeInv, Step \/ Fail PROVE TypeInv'
<1>1. /\ pc \in Steps /\ request \in Requests
      /\ DOMAIN isoDir \subseteq InIsos /\ DOMAIN installDir \subseteq InstallNames
      /\ DOMAIN bootDir \subseteq BootNames /\ DOMAIN output \subseteq Names /\ missed \subseteq ToSet(Components)
  BY TypeOKIs DEF TypeInv
<1>2. /\ UNCHANGED <<request, requests, builds>> /\ pc # "idle" /\ pc' \in Steps
      /\ result' \in {result, "ok", "failed"} /\ request.iso # NoIso
      /\ missed' = missed \/ missed' \subseteq ToSet(Components)
      /\ UNCHANGED output \/ DOMAIN output' \subseteq DOMAIN output \cup {request.name}
  BY <1>1, ProgramOrder DEF TypeInv, ImagesTyped
<1>3. /\ DOMAIN Media[request.iso] \subseteq InIsos
      /\ \A w \in DOMAIN Media[request.iso] : DOMAIN Media[request.iso][w][1] \subseteq OfIsos
  BY <1>1, <1>2, MediaNames
<1>4. /\ IsDir(installDir) /\ IsDir(bootDir)
      /\ Readable("install.wim") => DOMAIN isoDir["install.wim"][1] \subseteq InstallNames
      /\ Readable("boot.wim") => DOMAIN isoDir["boot.wim"][1] \subseteq BootNames
      /\ pc = "captureInstall" => "install.wim" \in DOMAIN isoDir
      /\ pc = "captureBoot" => "boot.wim" \in DOMAIN isoDir
  BY DEF TypeInv, ImagesTyped, Edited
<1>5. IsDir(installDir') /\ DOMAIN installDir' \subseteq InstallNames
  <2>1. IsDir(installDir')
    BY <1>1, <1>4, InstallDirSteps
  <2>2. AddedToInstall(request) \subseteq InstallNames
    BY <1>1, RequestType DEF InstallNames
  <2>3. \/ DOMAIN installDir' \subseteq DOMAIN installDir \cup AddedToInstall(request)
        \/ /\ Readable("install.wim")
           /\ DOMAIN installDir' \subseteq DOMAIN installDir \cup DOMAIN isoDir["install.wim"][1]
    BY <1>1, <1>4, InstallDirSteps
  <2> QED
    BY <1>1, <1>4, <2>1, <2>2, <2>3
<1>6. IsDir(bootDir') /\ DOMAIN bootDir' \subseteq BootNames
  <2>1. AddedToBoot(request) \subseteq BootNames
    BY <1>1, RequestType DEF BootNames
  <2>2. IsDir(bootDir')
    BY <1>4, BootDirSteps
  <2>3. \/ DOMAIN bootDir' \subseteq DOMAIN bootDir \cup AddedToBoot(request)
        \/ Readable("boot.wim") /\ DOMAIN bootDir' \subseteq DOMAIN bootDir \cup DOMAIN isoDir["boot.wim"][1]
    BY <1>4, BootDirSteps
  <2> QED
    BY <1>1, <1>4, <2>1, <2>2, <2>3
<1>7. /\ DOMAIN isoDir' \subseteq InIsos
      /\ Readable("install.wim")' => DOMAIN isoDir'["install.wim"][1] \subseteq InstallNames
      /\ Readable("boot.wim")' => DOMAIN isoDir'["boot.wim"][1] \subseteq BootNames
  <2> USE DEF Readable
  <2>0. "install.wim" # "boot.wim" /\ OfIsos \subseteq InstallNames /\ OfIsos \subseteq BootNames
    BY DEF InstallNames, BootNames
  <2>1. CASE UNCHANGED isoDir
    BY <1>1, <1>4, <2>1
  <2>2. CASE pc = "extract" /\ Put(Media[request.iso])
    BY <1>1, <1>3, <1>4, <2>0, <2>2 DEF Put
  <2>3. CASE pc = "captureInstall" /\ Put(File("install.wim", <<installDir>>))
    <3>1. /\ DOMAIN File("install.wim", <<installDir>>) = {"install.wim"}
          /\ File("install.wim", <<installDir>>)["install.wim"] = <<installDir>>
      BY FileFacts
    <3> QED
      BY <1>1, <1>4, <2>0, <2>3, <3>1 DEF Put
  <2>4. CASE pc = "captureBoot" /\ Put(File("boot.wim", <<bootDir>>))
    <3>1. /\ DOMAIN File("boot.wim", <<bootDir>>) = {"boot.wim"}
          /\ File("boot.wim", <<bootDir>>)["boot.wim"] = <<bootDir>>
      BY FileFacts
    <3> QED
      BY <1>1, <1>4, <2>0, <2>4, <3>1 DEF Put
  <2> QED
    BY <2>1, <2>2, <2>3, <2>4, SourcesSteps
<1>8. DOMAIN output' \subseteq Names
  BY <1>1, <1>2 DEF Names
<1>9. TypeOK'
  <2>1. (/\ pc \in Steps /\ builds \in 0 .. MaxBuilds
         /\ request \in Requests /\ requests \subseteq Requests
         /\ result \in {"none", "ok", "failed"}
         /\ DOMAIN isoDir \subseteq InIsos
         /\ DOMAIN installDir \subseteq InstallNames
         /\ DOMAIN bootDir \subseteq BootNames
         /\ DOMAIN output \subseteq Names /\ missed \subseteq ToSet(Components))'
    BY <1>1, <1>2, <1>5, <1>6, <1>7, <1>8, TypeOKIs DEF TypeInv
  <2> QED
    BY <2>1 DEF TypeOK, InIsos, OfIsos, InstallNames, BootNames
<1>10. ImagesTyped'
  <2>1. pc' \in Edited \cup {"remove"} => "install.wim" \in DOMAIN isoDir'
    BY <1>1, ProgramOrder DEF TypeInv, ImagesTyped, Readable
  <2>2. pc' \in {"installer", "captureBoot"} => "boot.wim" \in DOMAIN isoDir'
    BY <1>1, ProgramOrder DEF TypeInv, ImagesTyped, Readable
  <2> QED
    BY <1>2, <1>5, <1>6, <1>7, <2>1, <2>2 DEF ImagesTyped
<1> QED
  BY <1>9, <1>10 DEF TypeInv

LEMMA TypeInitially == ASSUME Init PROVE TypeInv
<1> USE DEF Init, Nothing
<1>1. TypeOK
  BY PlatformBuildAssumption, TypeOKIs DEF Steps
<1>2. ImagesTyped
  BY DEF ImagesTyped, Edited, Readable, IsDir
<1> QED
  BY <1>1, <1>2 DEF TypeInv

LEMMA TypeStarts ==
  ASSUME TypeInv, NEW r \in Requests, StartBuild(r) PROVE TypeInv'
<1> USE DEF StartBuild, dirs
<1>1. builds' \in 0 .. MaxBuilds /\ pc' \in {"idle", "extract"} /\ (pc' # "idle" => r.iso # NoIso)
  BY PlatformBuildAssumption, TypeOKIs DEF TypeInv
<1>2. TypeOK'
  <2>1. (/\ pc \in Steps /\ builds \in 0 .. MaxBuilds
         /\ request \in Requests /\ requests \subseteq Requests
         /\ result \in {"none", "ok", "failed"}
         /\ DOMAIN isoDir \subseteq InIsos
         /\ DOMAIN installDir \subseteq InstallNames
         /\ DOMAIN bootDir \subseteq BootNames
         /\ DOMAIN output \subseteq Names /\ missed \subseteq ToSet(Components))'
    BY <1>1, TypeOKIs DEF TypeInv, Steps
  <2> QED
    BY <2>1 DEF TypeOK, InIsos, OfIsos, InstallNames, BootNames
<1>3. ImagesTyped'
  BY <1>1 DEF TypeInv, ImagesTyped, Edited, Readable
<1> QED
  BY <1>2, <1>3 DEF TypeInv

\* Every reachable state is well typed, for any requests and ISOs: nothing
\* gets into the directories but what the ISOs and the steps put there.
THEOREM TypeCorrect == Spec => []TypeOK
<1>1. Init => TypeInv
  BY TypeInitially
<1>2. TypeInv /\ [Next]_vars => TypeInv'
  <2> SUFFICES ASSUME TypeInv, [Next]_vars PROVE TypeInv'
    OBVIOUS
  <2>1. CASE Next
    BY <2>1, TypeStarts, TypeKeeps DEF Next
  <2>2. CASE UNCHANGED vars
    BY <2>2 DEF vars, TypeInv, TypeOK, ImagesTyped, Readable
  <2> QED
    BY <2>1, <2>2
<1>3. TypeInv => TypeOK
  BY DEF TypeInv
<1> QED
  BY <1>1, <1>2, <1>3, PTL DEF Spec

-----------------------------------------------------------------------------
InstallImage(r) == Media[r.iso]["install.wim"][1]

KeptInstall(r, left) == DOMAIN InstallImage(r) \ (ToSet(Components) \ left)

\* The file in a freshly built install image, one kind of file after the other.
LEMMA CleanInstallFacts ==
  ASSUME NEW r, NEW left
  PROVE  /\ DOMAIN CleanInstall(r, left) = KeptInstall(r, left) \cup AddedToInstall(r)
         /\ WinUI \in AddedToInstall(r) /\ r.source = "runtime" => CleanInstall(r, left)[WinUI] = "runtime"
         /\ WinUI \in AddedToInstall(r) /\ r.source # "runtime" /\ WinUI \notin KeptInstall(r, left) => CleanInstall(r, left)[WinUI] = "placeholder"
         /\ WinUI \in AddedToInstall(r) /\ r.source # "runtime" /\ WinUI \in KeptInstall(r, left) => CleanInstall(r, left)[WinUI] = InstallImage(r)[WinUI]
         /\ RegFile \in AddedToInstall(r) => CleanInstall(r, left)[RegFile] = <<Mods[Len(Mods)]>>
         /\ \A p \in AddedToInstall(r) \cap Available : CleanInstall(r, left)[p] = "whole"
         /\ \A f \in KeptInstall(r, left) \ AddedToInstall(r) : CleanInstall(r, left)[f] = InstallImage(r)[f]
         /\ IsDir(CleanInstall(r, left))
<1> DEFINE image == InstallImage(r)
           kept  == KeptInstall(r, left)
           added == AddedToInstall(r)
<1> USE DEF InstallImage, KeptInstall
<1>1. WinUI \notin Available /\ RegFile \notin Available /\ WinUI # RegFile
  BY PlatformBuildAssumption DEF WinUI, RegFile
<1>2. WinUI \in added <=> r.winui3 /\ r.source # "other"
  BY <1>1 DEF AddedToInstall
<1>3. DOMAIN CleanInstall(r, left) = kept \cup added
  BY DEF CleanInstall
<1>4. ASSUME NEW f \in kept \cup added
      PROVE  CleanInstall(r, left)[f] =
               CASE f = WinUI /\ r.winui3 /\ r.source = "runtime" -> "runtime"
                 [] f = WinUI /\ r.source # "runtime" /\ f \notin kept -> "placeholder"
                 [] f = RegFile /\ f \in added -> <<Mods[Len(Mods)]>>
                 [] f \in Available \cap added -> "whole"
                 [] OTHER -> image[f]
  BY <1>4 DEF CleanInstall
<1>5. WinUI \in added /\ r.source = "runtime" => CleanInstall(r, left)[WinUI] = "runtime"
  BY <1>1, <1>2, <1>4
<1>6. WinUI \in added /\ r.source # "runtime" /\ WinUI \notin kept => CleanInstall(r, left)[WinUI] = "placeholder"
  BY <1>1, <1>4
<1>7. WinUI \in added /\ r.source # "runtime" /\ WinUI \in kept => CleanInstall(r, left)[WinUI] = image[WinUI]
  BY <1>1, <1>4
<1>8. RegFile \in added => CleanInstall(r, left)[RegFile] = <<Mods[Len(Mods)]>>
  BY <1>1, <1>4
<1>9. \A p \in added \cap Available : CleanInstall(r, left)[p] = "whole"
  BY <1>1, <1>4
<1>10. \A f \in kept \ added : CleanInstall(r, left)[f] = image[f]
  BY <1>1, <1>2, <1>4
<1>11. IsDir(CleanInstall(r, left))
  BY DEF IsDir, CleanInstall
<1> QED
  BY <1>3, <1>5, <1>6, <1>7, <1>8, <1>9, <1>10, <1>11

\* A directory with the very names and contents of another is that one.
LEMMA SameDir ==
  ASSUME NEW d, NEW image, IsDir(d), IsDir(image), DOMAIN d \subseteq DOMAIN image,
         Holds(d, image, DOMAIN image)
  PROVE  d = image
<1>1. DOMAIN d = DOMAIN image /\ \A f \in DOMAIN image : d[f] = image[f]
  BY DEF Holds
<1>2. [f \in DOMAIN d |-> d[f]] = [f \in DOMAIN image |-> image[f]]
  BY <1>1
<1> QED
  BY <1>2 DEF IsDir

\* What an unfinished or finished step leaves is what a later build of the
\* same configuration can cope with.
LEMMA PastKeeps ==
  ASSUME RetryInv, Step \/ Fail PROVE PastOK'
<1>1. /\ pc \in Steps /\ request \in Requests /\ IsDir(installDir) /\ IsDir(bootDir)
      /\ pc = "captureInstall" => "install.wim" \in DOMAIN isoDir
      /\ pc = "captureBoot" => "boot.wim" \in DOMAIN isoDir
  BY TypeOKIs DEF RetryInv, TypeInv, ImagesTyped, Edited
<1>2. UNCHANGED <<request, requests>> /\ pc # "idle"
  BY <1>1, ProgramOrder
<1>3. requests # {} /\ request \in requests
  BY <1>2 DEF RetryInv, PastOK
<1>4. SUFFICES ASSUME OneRequest
      PROVE  (/\ \A w \in {"install.wim", "boot.wim"} \cap DOMAIN isoDir : Given(w)
              /\ DOMAIN installDir \subseteq FilesGiven("install.wim") \cup AddedToInstall(request)
              /\ WinUI \in DOMAIN installDir \ FilesGiven("install.wim") =>
                   request.source = "runtime" \/ installDir[WinUI] = "placeholder"
              /\ DOMAIN bootDir \subseteq FilesGiven("boot.wim") \cup AddedToBoot(request))'
  BY <1>2, <1>3 DEF PastOK, OneRequest
<1>5. /\ \A w \in {"install.wim", "boot.wim"} \cap DOMAIN isoDir : Given(w)
      /\ DOMAIN installDir \subseteq FilesGiven("install.wim") \cup AddedToInstall(request)
      /\ WinUI \in DOMAIN installDir \ FilesGiven("install.wim") =>
           request.source = "runtime" \/ installDir[WinUI] = "placeholder"
      /\ DOMAIN bootDir \subseteq FilesGiven("boot.wim") \cup AddedToBoot(request)
  BY <1>4 DEF RetryInv, PastOK
<1>6. \A w \in {"install.wim", "boot.wim"} \cap DOMAIN isoDir' : Given(w)
  <2>1. CASE UNCHANGED isoDir
    BY <1>5, <2>1
  <2>2. CASE pc = "extract" /\ Put(Media[request.iso])
    BY <1>5, <2>2 DEF Put, Given
  <2>3. CASE pc = "captureInstall" /\ Put(File("install.wim", <<installDir>>))
    <3>1. DOMAIN File("install.wim", <<installDir>>) = {"install.wim"}
      BY DEF File
    <3> QED
      BY <1>1, <1>5, <2>3, <3>1 DEF Put
  <2>4. CASE pc = "captureBoot" /\ Put(File("boot.wim", <<bootDir>>))
    <3>1. DOMAIN File("boot.wim", <<bootDir>>) = {"boot.wim"}
      BY DEF File
    <3> QED
      BY <1>1, <1>5, <2>4, <3>1 DEF Put
  <2> QED
    BY <2>1, <2>2, <2>3, <2>4, SourcesSteps
<1>7. /\ pc = "install" /\ Readable("install.wim") =>
           DOMAIN isoDir["install.wim"][1] = FilesGiven("install.wim")
      /\ pc = "boot" /\ Readable("boot.wim") => DOMAIN isoDir["boot.wim"][1] = FilesGiven("boot.wim")
  <2>1. /\ Given("install.wim") /\ pc = "install" => InPlace("install.wim")
        /\ Given("boot.wim") /\ pc = "boot" => InPlace("boot.wim")
    BY DEF RetryInv, GivenInv, InstallGiven, BootGiven
  <2> QED
    BY <1>5, <2>1 DEF Readable, InPlace, FilesGiven
<1>8. /\ DOMAIN installDir' \subseteq FilesGiven("install.wim") \cup AddedToInstall(request)
      /\ WinUI \in DOMAIN installDir' \ FilesGiven("install.wim") =>
           request.source = "runtime" \/ installDir'[WinUI] = "placeholder"
  <2>1. CASE /\ DOMAIN installDir' \subseteq DOMAIN installDir \cup AddedToInstall(request)
             /\ WinUI \in DOMAIN installDir' =>
                    \/ request.source = "runtime" \/ installDir'[WinUI] = "placeholder"
                    \/ WinUI \in DOMAIN installDir /\ installDir'[WinUI] = installDir[WinUI]
    BY <1>5, <2>1
  <2>2. CASE /\ pc = "install" /\ Readable("install.wim")
             /\ DOMAIN installDir' \subseteq DOMAIN installDir \cup DOMAIN isoDir["install.wim"][1]
             /\ WinUI \in DOMAIN installDir' \ DOMAIN isoDir["install.wim"][1] =>
                  WinUI \in DOMAIN installDir /\ installDir'[WinUI] = installDir[WinUI]
    BY <1>5, <1>7, <2>2
  <2> QED
    BY <1>1, <2>1, <2>2, InstallDirSteps
<1>9. DOMAIN bootDir' \subseteq FilesGiven("boot.wim") \cup AddedToBoot(request)
  <2>1. \/ DOMAIN bootDir' \subseteq DOMAIN bootDir \cup AddedToBoot(request)
        \/ /\ pc = "boot" /\ Readable("boot.wim")
           /\ DOMAIN bootDir' \subseteq DOMAIN bootDir \cup DOMAIN isoDir["boot.wim"][1]
    BY <1>1, BootDirSteps
  <2> QED
    BY <1>5, <1>7, <2>1
<1> QED
  BY <1>2, <1>6, <1>8, <1>9 DEF Given, FilesGiven

LEMMA PastStarts ==
  ASSUME RetryInv, NEW r \in Requests, StartBuild(r) PROVE PastOK'
<1> USE DEF StartBuild, dirs
<1>1. PastOK /\ requests \subseteq Requests
  BY TypeOKIs DEF RetryInv, TypeInv
<1>2. requests' # {} /\ request' \in requests'
  OBVIOUS
<1>3. CASE requests = {}
  <2>1. DOMAIN isoDir' = {} /\ DOMAIN installDir' = {} /\ DOMAIN bootDir' = {}
    BY <1>1, <1>3 DEF PastOK, Nothing
  <2> QED
    BY <1>2, <2>1 DEF PastOK
<1>4. CASE requests # {}
  <2>1. request \in requests
    BY <1>1, <1>4 DEF PastOK
  <2>2. OneRequest' => requests = {request} /\ request' = request /\ request.iso # NoIso
    BY <2>1 DEF OneRequest
  <2> QED
    BY <1>1, <1>2, <2>2 DEF PastOK, OneRequest, Given, FilesGiven
<1> QED
  BY <1>3, <1>4

-----------------------------------------------------------------------------
\* Each step of a build of the same configuration as all before it brings the
\* images nearer to those a new work directory would give.

LEMMA HoldsMore ==
  ASSUME NEW dir, NEW files, NEW image, NEW S, NEW T, Holds(dir, image, S),
         \A f \in DOMAIN files \cap T : files[f] = image[f], T \subseteq S \cup DOMAIN files
  PROVE  Holds(Written(dir, files), image, T)
<1>1. ASSUME NEW f \in T
      PROVE  f \in DOMAIN Written(dir, files) /\ Written(dir, files)[f] = image[f]
  <2>1. CASE f \in DOMAIN files
    BY <2>1 DEF Written
  <2>2. CASE f \notin DOMAIN files
    BY <2>2 DEF Written, Holds
  <2> QED
    BY <2>1, <2>2
<1> QED
  BY <1>1 DEF Holds

\* What the step before a given one has done, when there was only one request.
LEMMA NowInstall ==
  ASSUME RetryInv, ApplyInstall \/ RemoveComponents \/ AddWinUI3 \/ ApplyModifications \/ InjectPrograms
  PROVE  NowOK'
<1> DEFINE image == Media[request.iso]["install.wim"][1]
           added == AddedToInstall(request)
           kept  == DOMAIN image \ (ToSet(Components) \ missed)
           clean == CleanInstall(request, missed)
<1>1. /\ UNCHANGED <<request, requests, isoDir, bootDir>>
      /\ pc \in {"install", "remove", "winui", "registry", "programs"}
      /\ pc' \in {"remove", "winui", "registry", "programs", "captureInstall"}
      /\ pc = "install" => pc' = "remove"
      /\ pc = "remove" => pc' = "winui"
      /\ pc # "remove" => UNCHANGED missed /\ pc' # "winui"
  BY DEF ApplyInstall, RemoveComponents, AddWinUI3, ApplyModifications, InjectPrograms, Goto, Enter
<1>2. SUFFICES ASSUME OneRequest
      PROVE  /\ pc' = "remove" => Holds(installDir', image, FilesGiven("install.wim"))
             /\ pc' = "winui"  => Holds(installDir', image, FilesGiven("install.wim") \ (ToSet(Components) \ missed'))
             /\ pc' \in {"registry", "programs", "captureInstall"} =>
                  Holds(installDir', clean, DOMAIN clean \ ToAdd')
             /\ pc' \in Edited => NoComponents(installDir)'
  <2>1. FilesGiven("install.wim")' = FilesGiven("install.wim") /\ OneRequest' = OneRequest
    BY <1>1 DEF FilesGiven, Given, OneRequest
  <2>2. pc' \notin BootSteps /\ pc' \notin {"installer", "captureBoot", "repack"}
    BY <1>1 DEF BootSteps
  <2>3. image' = image /\ (pc # "remove" => CleanInstall(request, missed)' = CleanInstall(request, missed))
    BY <1>1 DEF CleanInstall, AddedToInstall
  <2>4. pc = "remove" => pc' \notin {"registry", "programs", "captureInstall", "remove"}
    BY <1>1
  <2> HIDE DEF image, clean
  <2> QED
    BY <1>1, <2>1, <2>2, <2>3, <2>4 DEF NowOK, NoComponents, image, clean
<1>3. request \in Requests /\ PastOK /\ NowOK /\ GivenInv
  BY TypeOKIs DEF RetryInv, TypeInv
<1>4. Given("install.wim") /\ FilesGiven("install.wim") = DOMAIN image
  <2>1. "install.wim" \in DOMAIN isoDir
    BY <1>1 DEF RetryInv, TypeInv, ImagesTyped, Edited, ApplyInstall, Readable,
                RemoveComponents, AddWinUI3, ApplyModifications, InjectPrograms
  <2> QED
    BY <1>2, <1>3, <2>1 DEF PastOK, FilesGiven
<1>5. /\ added \cap ToSet(Components) = {} /\ WinUI \notin Available /\ WinUI # RegFile
      /\ RegFile \notin Available /\ (WinUI \in added <=> request.winui3 /\ request.source # "other")
      /\ (RegFile \in added <=> request.registry /\ Mods # <<>>)
      /\ added \subseteq {WinUI, RegFile} \cup Available
      /\ added \cap Available = ToSet(request.programs) \cap Available
  BY <1>3, RequestType, PlatformBuildAssumption DEF AddedToInstall, WinUI, RegFile
<1>6. /\ DOMAIN clean = kept \cup added
      /\ WinUI \in added /\ request.source = "runtime" => clean[WinUI] = "runtime"
      /\ WinUI \in added /\ request.source # "runtime" /\ WinUI \notin kept => clean[WinUI] = "placeholder"
      /\ WinUI \in added /\ request.source # "runtime" /\ WinUI \in kept => clean[WinUI] = image[WinUI]
      /\ RegFile \in added => clean[RegFile] = <<Mods[Len(Mods)]>>
      /\ \A p \in added \cap Available : clean[p] = "whole"
      /\ \A f \in kept \ added : clean[f] = image[f]
  BY CleanInstallFacts DEF InstallImage, KeptInstall
<1>7. pc' \in Edited => NoComponents(installDir)'
  <2>1. pc # "remove" /\ pc' \in Edited => NoComponents(installDir)
    BY <1>1, <1>2, <1>3 DEF NowOK, Edited
  <2>2. CASE RemoveComponents
    BY <2>2 DEF RemoveComponents, NoComponents, Without
  <2>3. ASSUME NEW files, NoComponents(installDir), installDir' = Written(installDir, files),
               DOMAIN files \subseteq added, UNCHANGED missed
        PROVE  NoComponents(installDir)'
    <3>1. NoComponents(Written(installDir, files))
      BY <1>5, <2>3, ComponentsStayOut
    <3> QED
      BY <2>3, <3>1 DEF NoComponents
  <2>4. CASE AddWinUI3
    <3>1. request.winui3 => DOMAIN WinUIFiles \subseteq added
      BY <1>5 DEF WinUIFiles, File, Nothing
    <3>2. NoComponents(installDir)
      BY <2>1, <2>4 DEF AddWinUI3, Goto, Enter, Edited
    <3> QED
      BY <2>3, <2>4, <3>1, <3>2 DEF AddWinUI3, Goto, NoComponents
  <2>5. CASE ApplyModifications
    <3>1. request.registry /\ Mods # <<>> => DOMAIN File(RegFile, <<Last(Mods)>>) \subseteq added
      BY <1>5 DEF File
    <3>2. NoComponents(installDir)
      BY <2>1, <2>5 DEF ApplyModifications, Goto, Enter, Edited
    <3> QED
      BY <2>3, <2>5, <3>1, <3>2 DEF ApplyModifications, RegFileAfter, Goto, NoComponents
  <2>6. CASE InjectPrograms
    <3>1. DOMAIN ProgramFiles(request.programs) \subseteq added
      BY <1>5 DEF ProgramFiles
    <3>2. NoComponents(installDir)
      BY <2>1, <2>6 DEF InjectPrograms, Goto, Enter, Edited
    <3> QED
      BY <2>3, <2>6, <3>1, <3>2 DEF InjectPrograms, Goto
  <2>7. CASE ApplyInstall
    BY <2>7 DEF ApplyInstall, Goto, Enter, Edited
  <2> QED
    BY <2>2, <2>4, <2>5, <2>6, <2>7
<1>8. CASE ApplyInstall
  <2>1. isoDir["install.wim"][1] = image
    BY <1>3, <1>4, <1>8 DEF ApplyInstall, GivenInv, InstallGiven, InPlace
  <2>2. installDir' = Written(installDir, image) /\ pc' = "remove"
    BY <1>8, <2>1 DEF ApplyInstall, FirstImage, Goto, Enter
  <2>3. Holds(installDir', image, DOMAIN image)
    BY <2>2 DEF Holds, Written
  <2> QED
    BY <1>4, <1>7, <2>2, <2>3
<1>9. CASE RemoveComponents
  <2>1. Holds(installDir, image, DOMAIN image) /\ pc' = "winui"
        /\ installDir' = Without(installDir, ToSet(Components) \ missed')
    BY <1>2, <1>3, <1>4, <1>9 DEF NowOK, RemoveComponents, Goto, Enter
  <2>2. Holds(installDir', image, DOMAIN image \ (ToSet(Components) \ missed'))
    BY <2>1 DEF Holds, Without
  <2> QED
    BY <1>4, <1>7, <2>1, <2>2
<1>10. CASE AddWinUI3
  <2>1. Holds(installDir, image, kept) /\ pc' = "registry"
    BY <1>2, <1>3, <1>4, <1>10 DEF NowOK, AddWinUI3, Goto, Enter
  <2>2. ToAdd' = added \ {WinUI}
    BY <1>1, <2>1 DEF ToAdd, AddedToInstall
  <2>3. DOMAIN clean \ ToAdd' \subseteq (kept \ added) \cup (added \cap {WinUI})
    BY <1>6, <2>2
  <2> HIDE DEF clean, kept, image, added
  <2>4. ASSUME NEW f \in kept \ added PROVE f \in DOMAIN installDir' /\ installDir'[f] = clean[f]
    <3>1. f \in DOMAIN installDir /\ installDir[f] = clean[f]
      BY <1>6, <2>1 DEF Holds
    <3>2. request.winui3 => f \notin DOMAIN WinUIFiles
      BY <1>5 DEF WinUIFiles, File, Nothing
    <3> QED
      BY <1>10, <3>1, <3>2 DEF AddWinUI3, Written
  <2>5. ASSUME WinUI \in added PROVE WinUI \in DOMAIN installDir' /\ installDir'[WinUI] = clean[WinUI]
    <3>1. installDir' = Written(installDir, WinUIFiles)
      BY <1>5, <1>10, <2>5 DEF AddWinUI3
    <3>2. CASE request.source = "runtime"
      <4>1. WinUIFiles = File(WinUI, "runtime")
        BY <3>2 DEF WinUIFiles
      <4> QED
        BY <1>6, <2>5, <3>1, <3>2, <4>1 DEF Written, File
    <3>3. CASE request.source # "runtime" /\ WinUI \notin DOMAIN installDir
      <4>1. WinUIFiles = File(WinUI, "placeholder")
        BY <1>5, <2>5, <3>3 DEF WinUIFiles
      <4>2. WinUI \notin kept
        BY <2>1, <3>3 DEF Holds
      <4> QED
        BY <1>6, <2>5, <3>1, <3>3, <4>1, <4>2 DEF Written, File
    <3>4. CASE request.source # "runtime" /\ WinUI \in DOMAIN installDir
      <4>1. WinUIFiles = Nothing
        BY <3>4 DEF WinUIFiles
      <4>2. WinUI \in DOMAIN installDir' /\ installDir'[WinUI] = installDir[WinUI]
        BY <3>1, <3>4, <4>1 DEF Written, Nothing
      <4>3. CASE WinUI \in kept
        BY <1>6, <2>1, <2>5, <3>4, <4>2, <4>3 DEF Holds
      <4>4. CASE WinUI \notin kept
        <5>1. WinUI \notin DOMAIN image
          BY <1>5, <2>5, <4>4 DEF kept
        <5>2. installDir[WinUI] = "placeholder"
          BY <1>2, <1>3, <1>4, <3>4, <5>1 DEF PastOK
        <5> QED
          BY <1>6, <2>5, <3>4, <4>2, <4>4, <5>2
      <4> QED
        BY <4>3, <4>4
    <3> QED
      BY <3>2, <3>3, <3>4
  <2>6. Holds(installDir', clean, DOMAIN clean \ ToAdd')
    BY <2>3, <2>4, <2>5 DEF Holds
  <2> QED
    BY <1>7, <2>1, <2>6
<1>11. CASE ApplyModifications
  <2>1. Holds(installDir, clean, DOMAIN clean \ (added \ {WinUI})) /\ pc' = "programs"
    BY <1>2, <1>3, <1>11 DEF NowOK, ApplyModifications, Goto, Enter, ToAdd
  <2>2. ToAdd' = added \ {WinUI, RegFile}
    BY <1>1, <2>1 DEF ToAdd, AddedToInstall
  <2>3. CASE RegFile \in added
    <3>1. installDir' = Written(installDir, File(RegFile, <<Last(Mods)>>))
      BY <1>5, <1>11, <2>3 DEF ApplyModifications, RegFileAfter
    <3>2. File(RegFile, <<Last(Mods)>>)[RegFile] = clean[RegFile]
      BY <1>6, <2>3 DEF File, Last
    <3>3. DOMAIN File(RegFile, <<Last(Mods)>>) = {RegFile}
      BY DEF File
    <3> HIDE DEF clean, added
    <3>4. Holds(Written(installDir, File(RegFile, <<Last(Mods)>>)), clean, DOMAIN clean \ ToAdd')
      BY <2>1, <2>2, <3>2, <3>3, HoldsMore
    <3> QED
      BY <1>7, <2>1, <3>1, <3>4
  <2>4. CASE RegFile \notin added
    <3>1. installDir' = installDir
      BY <1>5, <1>11, <2>4 DEF ApplyModifications, RegFileAfter
    <3> QED
      BY <1>7, <2>1, <2>2, <2>4, <3>1 DEF Holds
  <2> QED
    BY <2>3, <2>4
<1>12. CASE InjectPrograms
  <2>1. Holds(installDir, clean, DOMAIN clean \ (added \ {WinUI, RegFile})) /\ pc' = "captureInstall"
        /\ installDir' = Written(installDir, ProgramFiles(request.programs))
    BY <1>2, <1>3, <1>12 DEF NowOK, InjectPrograms, Goto, Enter, ToAdd
  <2>2. ToAdd' = {}
    BY <1>1, <2>1 DEF ToAdd
  <2>3. /\ DOMAIN ProgramFiles(request.programs) = added \cap Available
        /\ \A p \in added \cap Available : ProgramFiles(request.programs)[p] = clean[p]
    BY <1>5, <1>6 DEF ProgramFiles
  <2> HIDE DEF clean, added
  <2>4. DOMAIN clean \ ToAdd' \subseteq (DOMAIN clean \ (added \ {WinUI, RegFile})) \cup DOMAIN ProgramFiles(request.programs)
    BY <1>5, <2>2, <2>3
  <2>5. Holds(Written(installDir, ProgramFiles(request.programs)), clean, DOMAIN clean \ ToAdd')
    BY <2>1, <2>3, <2>4, HoldsMore
  <2> QED
    BY <1>7, <2>1, <2>5
<1> QED
  BY <1>8, <1>9, <1>10, <1>11, <1>12

LEMMA NowBoot ==
  ASSUME RetryInv, ExtractIso \/ CaptureInstall \/ ApplyBoot \/ InjectInstaller \/ CaptureBoot \/ RepackIso
  PROVE  NowOK'
<1> DEFINE image == Media[request.iso]["boot.wim"][1]
           clean == CleanBoot(request)
<1>1. /\ UNCHANGED <<request, requests, installDir, missed>>
      /\ pc' \in {"install", "boot", "installer", "captureBoot", "repack", "idle"}
  BY DEF ExtractIso, CaptureInstall, ApplyBoot, InjectInstaller, CaptureBoot, RepackIso, Goto, Enter, Return
<1>2. SUFFICES ASSUME OneRequest
      PROVE  /\ pc' \in BootSteps => /\ "install.wim" \in DOMAIN isoDir'
                                     /\ isoDir'["install.wim"] = <<CleanInstall(request, missed)>>
             /\ pc' = "installer" => Holds(bootDir', image, FilesGiven("boot.wim"))
             /\ pc' = "captureBoot" => bootDir' = clean
             /\ pc' = "repack" => isoDir'["boot.wim"] = <<clean>>
  <2>1. FilesGiven("boot.wim")' = FilesGiven("boot.wim") /\ OneRequest' = OneRequest
    BY <1>1 DEF FilesGiven, Given, OneRequest
  <2>2. pc' \notin Edited
    BY <1>1 DEF Edited
  <2>3. CleanInstall(request, missed)' = CleanInstall(request, missed) /\ clean' = clean /\ image' = image
    BY <1>1 DEF CleanInstall, CleanBoot, AddedToInstall, AddedToBoot
  <2> QED
    BY <1>1, <2>1, <2>2, <2>3 DEF NowOK
<1>3. request \in Requests /\ PastOK /\ NowOK /\ GivenInv /\ IsDir(bootDir) /\ IsDir(installDir)
  BY TypeOKIs DEF RetryInv, TypeInv, ImagesTyped
<1>4. CASE ExtractIso
  BY <1>4 DEF ExtractIso, Goto, Enter, BootSteps
<1>5. CASE CaptureInstall
  <2>1. "install.wim" \in DOMAIN isoDir' /\ isoDir'["install.wim"] = <<installDir>> /\ pc' = "boot"
    BY <1>5 DEF CaptureInstall, Goto, Enter, Written, File
  <2>2. "install.wim" \in DOMAIN isoDir
    BY <1>5 DEF CaptureInstall, RetryInv, TypeInv, ImagesTyped, Edited
  <2>3. FilesGiven("install.wim") = DOMAIN InstallImage(request)
    BY <1>2, <1>3, <2>2 DEF PastOK, FilesGiven, InstallImage
  <2>4. DOMAIN CleanInstall(request, missed) = KeptInstall(request, missed) \cup AddedToInstall(request)
        /\ IsDir(CleanInstall(request, missed))
    BY CleanInstallFacts
  <2>5. DOMAIN installDir \subseteq DOMAIN InstallImage(request) \cup AddedToInstall(request)
    BY <1>2, <1>3, <2>3 DEF PastOK
  <2>6. DOMAIN installDir \cap ToSet(Components) \subseteq missed
    BY <1>2, <1>3, <1>5 DEF NowOK, NoComponents, CaptureInstall, Edited
  <2>7. DOMAIN installDir \subseteq DOMAIN CleanInstall(request, missed)
    BY <2>4, <2>5, <2>6 DEF KeptInstall
  <2>8. Holds(installDir, CleanInstall(request, missed), DOMAIN CleanInstall(request, missed))
    <3>1. pc = "captureInstall" /\ ToAdd = {}
      BY <1>5 DEF CaptureInstall, ToAdd
    <3>2. Holds(installDir, CleanInstall(request, missed), DOMAIN CleanInstall(request, missed) \ ToAdd)
      BY <1>2, <1>3, <3>1 DEF NowOK
    <3> QED
      BY <3>1, <3>2
  <2>9. installDir = CleanInstall(request, missed)
    BY <1>3, <2>4, <2>7, <2>8, SameDir
  <2> QED
    BY <2>1, <2>9
<1>6. CASE ApplyBoot
  <2>1. "boot.wim" \in DOMAIN isoDir /\ pc = "boot" /\ pc' = "installer" /\ UNCHANGED isoDir
        /\ bootDir' = Written(bootDir, isoDir["boot.wim"][1])
    BY <1>6 DEF ApplyBoot, FirstImage, Readable, Goto, Enter
  <2>2. Given("boot.wim") /\ FilesGiven("boot.wim") = DOMAIN image
    BY <1>2, <1>3, <2>1 DEF PastOK, FilesGiven
  <2>3. isoDir["boot.wim"][1] = image
    BY <1>3, <2>1, <2>2 DEF GivenInv, BootGiven, InPlace
  <2>4. Holds(bootDir', image, DOMAIN image)
    BY <2>1, <2>3 DEF Holds, Written
  <2>5. "install.wim" \in DOMAIN isoDir /\ isoDir["install.wim"] = <<CleanInstall(request, missed)>>
    BY <1>2, <1>3, <2>1 DEF NowOK, BootSteps
  <2> QED
    BY <2>1, <2>2, <2>4, <2>5
<1>7. CASE InjectInstaller
  <2>1. pc = "installer" /\ pc' = "captureBoot" /\ UNCHANGED isoDir
    BY <1>7 DEF InjectInstaller, Goto, Enter
  <2>2. "boot.wim" \in DOMAIN isoDir
    BY <2>1 DEF RetryInv, TypeInv, ImagesTyped
  <2>3. Given("boot.wim") /\ FilesGiven("boot.wim") = DOMAIN image
    BY <1>2, <1>3, <2>2 DEF PastOK, FilesGiven
  <2>4. Holds(bootDir, image, DOMAIN image) /\ DOMAIN bootDir \subseteq DOMAIN image \cup AddedToBoot(request)
    BY <1>2, <1>3, <2>1, <2>3 DEF NowOK, PastOK
  <2>5. IsDir(image)
    BY <1>2, <1>3, <2>3, PlatformBuildAssumption DEF OneRequest, Given, IsDir
  <2>6. CASE request.installer = NoInstaller
    <3>1. bootDir' = bootDir /\ clean = image /\ AddedToBoot(request) = {}
      BY <1>7, <2>6 DEF InjectInstaller, CleanBoot, AddedToBoot
    <3>2. bootDir = image
      BY <1>3, <2>4, <2>5, <3>1, SameDir
    <3>3. "install.wim" \in DOMAIN isoDir /\ isoDir["install.wim"] = <<CleanInstall(request, missed)>>
      BY <1>2, <1>3, <2>1 DEF NowOK, BootSteps
    <3> QED
      BY <2>1, <3>1, <3>2, <3>3
  <2>7. CASE request.installer # NoInstaller
    <3>1. bootDir' = Written(bootDir, InstallerFiles) /\ AddedToBoot(request) = {Setup, Bcd}
      BY <1>7, <2>7 DEF InjectInstaller, AddedToBoot
    <3>2. clean = [f \in DOMAIN image \cup {Setup, Bcd} |->
                     CASE f = Setup -> request.installer [] f = Bcd -> "LibreNT" [] OTHER -> image[f]]
      BY <2>7, <3>1 DEF CleanBoot
    <3>3. Setup # Bcd
      BY DEF Setup, Bcd
    <3>4. IsDir(clean) /\ DOMAIN clean = DOMAIN image \cup {Setup, Bcd}
      BY <3>2 DEF IsDir
    <3>5. /\ DOMAIN InstallerFiles = {Setup, Bcd}
          /\ InstallerFiles[Setup] = request.installer /\ InstallerFiles[Bcd] = "LibreNT"
      BY <3>3 DEF InstallerFiles
    <3>6. clean[Setup] = request.installer /\ clean[Bcd] = "LibreNT"
      BY <3>2, <3>3
    <3>7. \A f \in DOMAIN image \ {Setup, Bcd} : clean[f] = image[f]
      BY <3>2
    <3> HIDE DEF clean, image
    <3>8. Holds(bootDir, clean, DOMAIN image \ {Setup, Bcd})
      BY <2>4, <3>7 DEF Holds
    <3>9. Holds(Written(bootDir, InstallerFiles), clean, DOMAIN clean)
      BY <3>4, <3>5, <3>6, <3>8, HoldsMore
    <3>10. DOMAIN Written(bootDir, InstallerFiles) \subseteq DOMAIN clean
      <4>1. DOMAIN Written(bootDir, InstallerFiles) = DOMAIN bootDir \cup DOMAIN InstallerFiles
        BY DEF Written
      <4> QED
        BY <2>4, <3>1, <3>4, <3>5, <4>1
    <3>11. IsDir(Written(bootDir, InstallerFiles))
      BY WrittenIsDir
    <3>12. bootDir' = clean
      BY <3>1, <3>4, <3>9, <3>10, <3>11, SameDir
    <3>13. "install.wim" \in DOMAIN isoDir /\ isoDir["install.wim"] = <<CleanInstall(request, missed)>>
      BY <1>2, <1>3, <2>1 DEF NowOK, BootSteps
    <3> QED
      BY <2>1, <3>12, <3>13
  <2> QED
    BY <2>6, <2>7
<1>8. CASE CaptureBoot
  <2>1. pc = "captureBoot" /\ pc' = "repack" /\ isoDir'["boot.wim"] = <<bootDir>>
    BY <1>8 DEF CaptureBoot, Goto, Enter, Written, File
  <2>2. /\ "install.wim" \in DOMAIN isoDir /\ isoDir["install.wim"] = <<CleanInstall(request, missed)>>
        /\ bootDir = clean
    BY <1>2, <1>3, <2>1 DEF NowOK, BootSteps
  <2>3. "install.wim" \in DOMAIN isoDir' /\ isoDir'["install.wim"] = isoDir["install.wim"]
    BY <1>8, <2>2 DEF CaptureBoot, Written, File
  <2> QED
    BY <2>1, <2>2, <2>3
<1>9. CASE RepackIso
  BY <1>9 DEF RepackIso, Return, BootSteps
<1> QED
  BY <1>4, <1>5, <1>6, <1>7, <1>8, <1>9

LEMMA CleanWhenFinished ==
  ASSUME RetryInv, RepackIso PROVE RetryIsClean'
<1>1. /\ pc = "repack" /\ UNCHANGED <<request, requests, missed>> /\ Iso' = isoDir
  BY DEF RepackIso, Return, Iso, Written, File
<1>2. request.iso # NoIso
  BY <1>1 DEF RetryInv, TypeInv, ImagesTyped
<1>3. requests = {request} =>
        isoDir["install.wim"] = <<CleanInstall(request, missed)>> /\ isoDir["boot.wim"] = <<CleanBoot(request)>>
  BY <1>1, <1>2 DEF RetryInv, NowOK, OneRequest, BootSteps
<1>4. CleanInstall(request, missed)' = CleanInstall(request, missed) /\ CleanBoot(request)' = CleanBoot(request)
  BY <1>1 DEF CleanInstall, CleanBoot, AddedToInstall, AddedToBoot
<1> QED
  BY <1>1, <1>3, <1>4 DEF RetryIsClean

\* A build that is repeated until it succeeds gives the very ISO that a build
\* without failures gives in a new work directory, for any configuration and
\* however often and wherever the earlier attempts broke off.
THEOREM RetriesLeaveNoTrace == Spec => []RetryIsClean
<1>1. Init => RetryInv
  <2> SUFFICES ASSUME Init PROVE RetryInv
    OBVIOUS
  <2>1. TypeInv
    BY TypeInitially
  <2>2. GivenInv
    BY DEF Init, GivenInv, InstallGiven, BootGiven, BuiltFromGivenIso, Finished, Edited, BootSteps
  <2>3. PastOK /\ NowOK /\ RetryIsClean
    BY DEF Init, PastOK, NowOK, RetryIsClean, Finished, OneRequest, Edited, BootSteps
  <2> QED
    BY <2>1, <2>2, <2>3 DEF RetryInv
<1>2. RetryInv /\ [Next]_vars => RetryInv'
  <2> SUFFICES ASSUME RetryInv, [Next]_vars PROVE RetryInv'
    OBVIOUS
  <2>1. TypeInv /\ GivenInv
    BY DEF RetryInv
  <2>2. CASE UNCHANGED vars
    <3>1. TypeInv'
      BY <2>1, <2>2 DEF vars, TypeInv, TypeOK, ImagesTyped, Readable
    <3>2. GivenInv'
      BY <2>1, <2>2, GivenNext
    <3>3. CleanInstall(request, missed)' = CleanInstall(request, missed) /\ CleanBoot(request)' = CleanBoot(request)
      BY <2>2 DEF vars, CleanInstall, CleanBoot, AddedToInstall, AddedToBoot
    <3>4. PastOK' /\ NowOK' /\ RetryIsClean'
      BY <2>2, <3>3 DEF vars, RetryInv, PastOK, NowOK, RetryIsClean, Finished, Iso, OneRequest, Given,
                        FilesGiven, ToAdd, NoComponents
    <3> QED
      BY <3>1, <3>2, <3>4 DEF RetryInv
  <2>3. CASE Next
    <3>1. TypeInv' /\ GivenInv'
      BY <2>1, <2>3, TypeStarts, TypeKeeps, GivenNext DEF Next
    <3>2. PastOK'
      BY <2>3, PastStarts, PastKeeps DEF Next
    <3>3. NowOK' /\ RetryIsClean'
      <4>1. ASSUME NEW r \in Requests, StartBuild(r) PROVE NowOK' /\ RetryIsClean'
        BY <4>1 DEF StartBuild, NowOK, RetryIsClean, Finished, Edited, BootSteps
      <4>2. CASE Fail
        BY <4>2 DEF Fail, Return, NowOK, RetryIsClean, Finished, Edited, BootSteps
      <4>3. CASE Step
        <5>1. NowOK'
          BY <4>3, NowInstall, NowBoot DEF Step
        <5>2. ~RepackIso => RetryIsClean'
          BY <4>3 DEF Step, Goto, Enter, RetryIsClean, Finished, ExtractIso, ApplyInstall, RemoveComponents,
                      AddWinUI3, ApplyModifications, InjectPrograms, CaptureInstall, ApplyBoot,
                      InjectInstaller, CaptureBoot
        <5> QED
          BY <5>1, <5>2, CleanWhenFinished
      <4> QED
        BY <2>3, <4>1, <4>2, <4>3 DEF Next
    <3> QED
      BY <3>1, <3>2, <3>3 DEF RetryInv
  <2> QED
    BY <2>2, <2>3
<1>3. RetryInv => RetryIsClean
  BY DEF RetryInv
<1> QED
  BY <1>1, <1>2, <1>3, PTL DEF Spec
=============================================================================
