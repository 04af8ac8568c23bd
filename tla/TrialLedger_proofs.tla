-------------------------- MODULE TrialLedger_proofs --------------------------
(***************************************************************************)
(* Theorems of TrialLedger, for every set of versions and every limit.     *)
(***************************************************************************)
EXTENDS TrialLedger, TLAPS

(* BannedCovered is not inductive alone: that the failed version and the   *)
(* banned ones lie below the highest seen, and that a trial is of a        *)
(* version, has to be carried along.                                       *)
LedgerInv ==
  /\ LedgerTypeOK
  /\ BannedCovered
  /\ phase = "swapped" => pending \in Version
  /\ failed <= highest
  /\ \A b \in banned : b <= highest

(* The invariant holds of an empty ledger.                                 *)
LEMMA LedgerInvInit == LedgerInit => LedgerInv
BY LimitNat DEF LedgerInit, LedgerInv, LedgerTypeOK, BannedCovered

(* Every step of the ledger keeps the invariant.                           *)
LEMMA LedgerInvStep == LedgerInv /\ [LedgerNext]_ledgerVars => LedgerInv'
<1> SUFFICES ASSUME LedgerInv, [LedgerNext]_ledgerVars PROVE LedgerInv'
  OBVIOUS
<1> USE VersionNat, LimitNat DEF LedgerInv, LedgerTypeOK, BannedCovered
<1>1. ASSUME NEW v \in Version, Begin(v) PROVE LedgerInv'
  BY <1>1 DEF Begin
<1>2. CASE Confirm
  BY <1>2 DEF Confirm
<1>3. CASE Count
  BY <1>3 DEF Count
<1>4. CASE GiveUp
  BY <1>4 DEF GiveUp
<1>5. CASE UNCHANGED ledgerVars
  BY <1>5 DEF ledgerVars
<1> QED
  BY <1>1, <1>2, <1>3, <1>4, <1>5 DEF LedgerNext

(* The ledger's fields stay in their types: at most Limit - 1 starts are   *)
(* counted, and every version given up is covered by two fields.           *)
THEOREM LedgerSafe == LedgerSpec => [](LedgerTypeOK /\ BannedCovered)
<1>1. LedgerInv => LedgerTypeOK /\ BannedCovered
  BY DEF LedgerInv
<1> QED
  BY <1>1, LedgerInvInit, LedgerInvStep, PTL DEF LedgerSpec

(* A version given up once never begins another trial unless required.     *)
THEOREM FailedNeverTriedAgain == LedgerSpec => NoSecondTrial
<1>1. LedgerInv => \A v \in banned \ Required : ~Begin(v)
  <2> SUFFICES ASSUME LedgerInv, NEW v \in banned \ Required, Begin(v)
               PROVE FALSE
    OBVIOUS
  <2>1. v \in Nat /\ highest \in Nat
    BY VersionNat DEF LedgerInv, LedgerTypeOK
  <2>2. v # failed /\ v >= highest
    BY DEF Begin
  <2>3. v < highest
    BY <2>2 DEF LedgerInv, BannedCovered
  <2> QED
    BY <2>1, <2>2, <2>3
<1> QED
  BY <1>1, LedgerInvInit, LedgerInvStep, PTL DEF LedgerSpec, NoSecondTrial
===============================================================================
