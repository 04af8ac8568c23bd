----------------------------- MODULE TrialLedger -----------------------------
(***************************************************************************)
(* What update-state.json promises, whatever happens to the process that   *)
(* keeps it: an installed version is on trial until it is confirmed, is    *)
(* given up after Limit starts without a confirmation, or gives way to a   *)
(* version at least as high; the highest version seen never sinks.         *)
(* LauncherUpdate implements this specification.                           *)
(***************************************************************************)
EXTENDS Naturals

CONSTANTS
  Version,    \* versions, positive numbers
  Required,   \* versions that are installed even when they failed before
  Limit       \* starts a version may have without a confirmation

ASSUME VersionNat == Version \subseteq Nat \ {0}
ASSUME LimitNat == Limit \in Nat \ {0}

VARIABLES
  phase,      \* "none", "swapped" (on trial) or "committed"
  pending,    \* the version last installed (0: none yet)
  attempts,   \* starts of it without a confirmation
  highest,    \* the highest version ever installed (0: none yet)
  failed,     \* the version last given up (0: none yet)
  banned      \* every version ever given up

ledgerVars == <<phase, pending, attempts, highest, failed, banned>>

LedgerTypeOK ==
  /\ phase \in {"none", "swapped", "committed"}
  /\ pending \in Version \union {0}
  /\ attempts \in 0..(Limit - 1)
  /\ highest \in Version \union {0}
  /\ failed \in Version \union {0}
  /\ banned \subseteq Version

LedgerInit ==
  /\ phase = "none" /\ pending = 0 /\ attempts = 0
  /\ highest = 0 /\ failed = 0 /\ banned = {}

(* mutant: an older version may be installed                               *)
BeginLower(v) ==
  /\ v = failed => v \in Required
  /\ phase' = "swapped" /\ pending' = v /\ attempts' = 0
  /\ highest' = v
  /\ UNCHANGED <<failed, banned>>

(* Version v is installed.                                                 *)
Begin(v) ==
  /\ v >= highest
  /\ v = failed => v \in Required
  /\ phase' = "swapped" /\ pending' = v /\ attempts' = 0
  /\ highest' = v
  /\ UNCHANGED <<failed, banned>>

(* The version on trial reported that it works.                            *)
Confirm ==
  /\ phase = "swapped"
  /\ phase' = "committed" /\ attempts' = 0
  /\ UNCHANGED <<pending, highest, failed, banned>>

(* One more start without a report.                                        *)
Count ==
  /\ phase = "swapped"
  /\ attempts + 1 < Limit
  /\ attempts' = attempts + 1
  /\ UNCHANGED <<phase, pending, highest, failed, banned>>

(* mutant: the version that failed is not noted                            *)
GiveUpForgets ==
  /\ phase = "swapped"
  /\ attempts + 1 = Limit
  /\ phase' = "none" /\ attempts' = 0
  /\ banned' = banned \union {pending}
  /\ UNCHANGED <<pending, highest, failed>>

(* The last start it may have: its predecessor returns.                    *)
GiveUp ==
  /\ phase = "swapped"
  /\ attempts + 1 = Limit
  /\ phase' = "none" /\ attempts' = 0 /\ failed' = pending
  /\ banned' = banned \union {pending}
  /\ UNCHANGED <<pending, highest>>

LedgerNext == (\E v \in Version : Begin(v)) \/ Confirm \/ Count \/ GiveUp

LedgerSpec == LedgerInit /\ [][LedgerNext]_ledgerVars
-------------------------------------------------------------------------------
(* One field for the last failure and one for the highest version are      *)
(* enough: every version given up is one of them or lies below.            *)
BannedCovered ==
  /\ \A b \in banned : b = failed \/ b < highest
  /\ phase = "swapped" => pending = highest

(* No version begins a trial after it was once given up, however many      *)
(* others came and failed since (state.go:37-39); a required one may.      *)
NoSecondTrial ==
  [][\A v \in banned \ Required : ~Begin(v)]_ledgerVars
===============================================================================
