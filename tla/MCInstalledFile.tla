--------------------------- MODULE MCInstalledFile ---------------------------
(* InstalledFile with two contents: the installed bytes and an update.      *)
EXTENDS InstalledFile
==============================================================================
