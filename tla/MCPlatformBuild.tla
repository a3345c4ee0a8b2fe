--------------------------- MODULE MCPlatformBuild ---------------------------
\* Two ISOs with an install.wim and one with an install.esd, each with a
\* boot.wim of two images; two component files to remove, one of which the
\* second ISO has not; two registry modifications; a program that is there and
\* a program that is not; each of the three states of programs/winui3.
EXTENDS PlatformBuild, TLC

CONSTANTS isoA, isoB, isoEsd, custom

Boot(i) == <<"winpe" :> i, "setup" :> i>>
MCMedia ==
  isoA   :> [w \in {"install.wim", "boot.wim"} |->
               IF w = "boot.wim" THEN Boot(isoA)
               ELSE <<[f \in {"explorer.exe", "msedge.exe", "ntoskrnl.exe"} |-> isoA],
                      "ntoskrnl.exe" :> isoA>>] @@
  isoB   :> [w \in {"install.wim", "boot.wim"} |->
               IF w = "boot.wim" THEN Boot(isoB)
               ELSE <<[f \in {"explorer.exe", "ntoskrnl.exe"} |-> isoB]>>] @@
  isoEsd :> [w \in {"install.esd", "boot.wim"} |->
               IF w = "boot.wim" THEN Boot(isoEsd) ELSE <<"ntoskrnl.exe" :> isoEsd>>]

MCComponents == <<"explorer.exe", "msedge.exe">>
MCMods       == <<"Shell", "ProductName">>
MCAvailable  == {"firefox"}

Request(i, ui, src, reg, progs, inst) ==
  [name |-> "LibreNT-1.0-001-dev.iso", iso |-> i, winui3 |-> ui, source |-> src,
   registry |-> reg, programs |-> progs, installer |-> inst]

MCRequests ==
  {Request(isoA,   TRUE,  "runtime", TRUE,  <<"firefox">>, custom),
   Request(isoB,   TRUE,  "none",    TRUE,  <<"vlc", "firefox">>, NoInstaller),
   Request(isoA,   TRUE,  "other",   FALSE, <<>>, custom),
   Request(isoEsd, FALSE, "none",    FALSE, <<"firefox">>, NoInstaller),
   Request(NoIso,  TRUE,  "none",    TRUE,  <<>>, NoInstaller)}
=============================================================================
