----------------------------- MODULE FileContract -----------------------------
(***************************************************************************)
(* The abstract life of one file of the launcher, seen between two calls:  *)
(* every call takes it to one of the outcomes FileOutcomes lists.          *)
(***************************************************************************)
EXTENDS Naturals, FileOutcomes

CONSTANT Image    \* complete contents a file can have

VARIABLES
  file,     \* what lies under the real name between two calls
  backup,   \* what lies under ".previous" between two calls
  harmed    \* failed file-system operations so far

contractVars == <<file, backup, harmed>>

Observe(S) == <<file', backup'>> \in S

ContractInit == file \in Image /\ backup = None /\ harmed = 0

(* One more file-system operation may have failed.                         *)
Harm == harmed' \in {harmed, harmed + 1}

Replaced ==
  /\ Harm
  /\ \/ \E n \in Image : Observe(ReplaceCut(file, backup, n))
     \/ harmed' >= 3 /\ Observe(ReplaceLost(file))

RolledBack == Harm /\ Observe(RollbackCut(file, backup))

Completed == Harm /\ \E n \in Image : Observe(CompleteCut(file, backup, n))

Undisturbed == Harm /\ UNCHANGED <<file, backup>>

ContractNext == Replaced \/ RolledBack \/ Completed \/ Undisturbed

ContractSpec == ContractInit /\ [][ContractNext]_contractVars
===============================================================================
