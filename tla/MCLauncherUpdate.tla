--------------------------- MODULE MCLauncherUpdate ---------------------------
(* LauncherUpdate with three releases, the second of which has a backend   *)
(* that does not survive 20 seconds.                                       *)
EXTENDS LauncherUpdate

Parts(b, f, u, s) ==
  [c \in Component |-> CASE c = "backend" -> b [] c = "frontend" -> f
                         [] c = "updater" -> u [] c = "shell" -> s]

(* Release 3 repairs the backend of release 2 and renews the updater.      *)
MCBuild == << Parts(1, 1, 1, 1), Parts(2, 2, 1, 2), Parts(3, 2, 3, 2) >>

(* Release 3 renews the frontend and keeps the backend of release 2.       *)
MCBuildKept == << Parts(1, 1, 1, 1), Parts(2, 2, 1, 2), Parts(2, 3, 1, 2) >>
===============================================================================
