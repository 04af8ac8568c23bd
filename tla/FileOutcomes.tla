----------------------------- MODULE FileOutcomes -----------------------------
(***************************************************************************)
(* What replacing, rolling back or completing ONE file of the launcher may *)
(* leave behind.  A pair <<d, p>> is what lies under the file's real name  *)
(* and under its ".previous" backup; each operator maps the pair found by  *)
(* a call to the set of pairs it may leave.                                *)
(*                                                                         *)
(* FileContract makes a specification of these outcomes and InstalledFile  *)
(* implements it call by call; LauncherUpdate builds on them.              *)
(***************************************************************************)
CONSTANT None    \* the file does not exist

(* Replacing file d (backup p) by image n succeeded.                       *)
ReplaceDone(d, p, n) == {<<n, IF d = None THEN p ELSE d>>}

(* It returned an error: the file is what it was, its older backup may be  *)
(* gone.                                                                   *)
ReplaceKept(d, p) == {<<d, p>>, <<d, IF d = None THEN p ELSE None>>}

(* The process died in the middle of it.                                   *)
ReplaceCut(d, p, n) ==
  ReplaceKept(d, p) \union ReplaceDone(d, p, n)
    \union (IF d = None THEN {} ELSE {<<None, d>>})

(* Three failures in a row: the file is gone, and its backup may be too.   *)
ReplaceLost(d) == IF d = None THEN {} ELSE {<<None, d>>, <<None, None>>}

(* Rolling back without a backup, or without the file itself, changes      *)
(* nothing; otherwise the backup returns under the real name.              *)
RollbackDone(d, p) == IF d = None \/ p = None THEN {<<d, p>>} ELSE {<<p, None>>}

(* A rollback cut between its two renames, or whose undo failed.           *)
RollbackCut(d, p) ==
  {<<d, p>>} \union (IF d = None \/ p = None THEN {} ELSE {<<None, p>>, <<p, None>>})

(* Completing a ".new" file at start: an update like any other, but the    *)
(* backup goes first, also when the file itself is missing.                *)
CompleteCut(d, p, n) ==
  IF d = None
    THEN {<<None, p>>, <<None, None>>, <<n, p>>, <<n, None>>}
    ELSE {<<d, p>>, <<d, None>>, <<None, d>>, <<n, d>>}
===============================================================================
