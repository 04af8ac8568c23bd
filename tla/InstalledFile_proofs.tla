------------------------- MODULE InstalledFile_proofs -------------------------
(***************************************************************************)
(* Theorems of InstalledFile, for every set of contents and every number   *)
(* of failing file-system calls.                                           *)
(***************************************************************************)
EXTENDS InstalledFile, TLAPS

Copying == {"copyClean", "copyWrite", "copyFill", "copyDrop", "copyMove"}
Looping == {"clear", "backup", "place", "restore"}
Staging == {"stClear", "stMove"}
Rolling == {"rbAside", "rbPlace", "rbUndo", "rbClean"}
Completing == {"pdClear", "pdBackup", "pdPlace", "pdUndo"}

Pair(d, p) == fs["dest"] = d /\ fs["previous"] = p

(* The bytes a call installs are whole until they reach the real name.     *)
BytesWhole ==
  /\ pc \in {"fresh"} \union Looping \union Copying \union Staging =>
       fs["src"] \in Image
  /\ pc \in {"copyDrop", "copyMove"} => fs["tmp"] \in Image

TornInv == TypeOK /\ NeverTorn /\ BytesWhole

(* The initial state has the types and nothing half-written.               *)
LEMMA TornInvInit == Init => TornInv
<1> SUFFICES ASSUME Init PROVE TornInv
  OBVIOUS
<1>1. PICK first \in Image :
        fs = [s \in Slot |-> IF s = "dest" THEN first ELSE None]
  BY DEF Init
<1>2. fs \in [Slot -> Content] /\ fs["dest"] = first
  BY <1>1 DEF Slot, Content
<1>3. FilesOK
  <2>1. faults = 0
    BY DEF Init
  <2>2. 0 \in 0..MaxFaults
    BY MaxFaultsNat
  <2> QED BY <1>2, <2>1, <2>2 DEF FilesOK
<1>4. CallOK
  <2>1. was \in [dest : Content, previous : Content]
    BY <1>2 DEF Init, Content
  <2> QED BY <2>1 DEF Init, CallOK
<1>5. NeverTorn
  BY <1>1, ContentsDiffer DEF NeverTorn, Slot
<1>6. BytesWhole
  BY DEF Init, BytesWhole, Looping, Copying, Staging
<1> QED BY <1>3, <1>4, <1>5, <1>6 DEF TornInv, TypeOK

(* What one file-system call leaves, slot by slot.                         *)
LEMMA Moved ==
  ASSUME FilesOK, NEW a \in Slot, NEW b \in Slot, a # b, Renamed(a, b)
  PROVE  /\ FilesOK' /\ fs[a] # None
         /\ fs'[b] = fs[a] /\ fs'[a] = None
         /\ \A s \in Slot : s \in {a, b} \/ fs'[s] = fs[s]
         /\ UNCHANGED faults
BY DEF FilesOK, Renamed, NoFault, Content

LEMMA Dropped ==
  ASSUME FilesOK, NEW a \in Slot, Removed(a)
  PROVE  /\ FilesOK'
         /\ fs'[a] = None /\ \A s \in Slot : s = a \/ fs'[s] = fs[s]
         /\ UNCHANGED faults
BY DEF FilesOK, Removed, NoFault, Content

LEMMA Written ==
  ASSUME FilesOK, NEW a \in Slot, NEW n \in Content,
         fs' = [fs EXCEPT ![a] = n]
  PROVE  /\ fs' \in [Slot -> Content]
         /\ fs'[a] = n /\ \A s \in Slot : s = a \/ fs'[s] = fs[s]
BY DEF FilesOK

LEMMA Failed ==
  ASSUME FilesOK, Fail
  PROVE  FilesOK' /\ UNCHANGED fs /\ faults' = faults + 1
BY MaxFaultsNat DEF Fail, FilesOK

LEMMA NotRenamed ==
  ASSUME FilesOK, NEW a \in Slot, RenameFails(a)
  PROVE  /\ FilesOK' /\ UNCHANGED fs
         /\ IF fs[a] = None THEN UNCHANGED faults ELSE faults' = faults + 1
BY Failed DEF RenameFails, NoFault, FilesOK

LEMMA NotRemoved ==
  ASSUME FilesOK, NEW a \in Slot, RemoveFails(a)
  PROVE  FilesOK' /\ UNCHANGED fs /\ faults' = faults + 1
BY Failed DEF RemoveFails

(* A copy that fails late changes its temporary file at most.              *)
LEMMA Cleaned ==
  ASSUME FilesOK, TmpLost
  PROVE  /\ FilesOK' /\ faults' = faults + 1
         /\ \A s \in Slot : s = "tmp" \/ fs'[s] = fs[s]
BY MaxFaultsNat DEF FilesOK, TmpLost, Slot, Content

(* Every step keeps the types of the call in progress.                     *)
LEMMA CallStep == TornInv /\ [Next]_vars => CallOK'
<1> SUFFICES ASSUME TornInv, [Next]_vars PROVE CallOK'
  OBVIOUS
<1> USE DEF TornInv, TypeOK, CallOK
<1>1. ASSUME NEW n \in Image, BeginReplace(n) \/ BeginStage(n) PROVE CallOK'
  BY <1>1 DEF BeginReplace, BeginStage, Begin, FilesOK, Slot
<1>2. CASE BeginRollback \/ BeginComplete
  BY <1>2 DEF BeginRollback, BeginComplete, Begin, FilesOK, Slot, NeverTorn,
     Content
<1> USE DEF Unmoved, Return, Goto, CopyError
<1>3. CASE Fresh \/ Expire \/ Clear \/ Backup \/ Place \/ Restore
  BY <1>3 DEF Fresh, Expire, Clear, Backup, Place, Restore
<1>4. CASE CopyClean \/ CopyWrite \/ CopyFill \/ CopyDrop \/ CopyMove
  BY <1>4 DEF CopyClean, CopyWrite, CopyFill, CopyDrop, CopyMove
<1>5. CASE RollbackAside \/ RollbackPlace \/ RollbackUndo \/ RollbackClean
  BY <1>5 DEF RollbackAside, RollbackPlace, RollbackUndo, RollbackClean
<1>6. CASE StageClear \/ StageMove \/ CompleteClear \/ CompleteBackup
          \/ CompletePlace \/ CompleteUndo
  BY <1>6 DEF StageClear, StageMove, CompleteClear, CompleteBackup,
     CompletePlace, CompleteUndo
<1>7. CASE Crash \/ UNCHANGED vars
  BY <1>7 DEF Crash, vars
<1> QED BY <1>1, <1>2, <1>3, <1>4, <1>5, <1>6, <1>7 DEF Next, Step

(* Every step keeps the types, and nothing half-written where it counts.   *)
LEMMA TornInvStep == TornInv /\ [Next]_vars => TornInv'
<1> SUFFICES ASSUME TornInv, [Next]_vars
             PROVE  FilesOK' /\ NeverTorn' /\ BytesWhole'
  BY CallStep DEF TornInv, TypeOK
<1> USE ContentsDiffer, Moved, Dropped, NotRenamed, NotRemoved, Failed
    DEF TornInv, TypeOK, NeverTorn, BytesWhole, Slot, Looping, Copying, Staging
<1>1. ASSUME NEW n \in Image, BeginReplace(n) PROVE FilesOK' /\ NeverTorn' /\ BytesWhole'
  BY <1>1 DEF BeginReplace, Begin, FilesOK, Content
<1>2. ASSUME NEW n \in Image, BeginStage(n) PROVE FilesOK' /\ NeverTorn' /\ BytesWhole'
  BY <1>2 DEF BeginStage, Begin, FilesOK, Content
<1>3. CASE BeginRollback \/ BeginComplete
  BY <1>3 DEF BeginRollback, BeginComplete, Begin, FilesOK, Content
<1>4. CASE Fresh
  <2>1. CASE Renamed("src", "dest") /\ Return("ok")
    BY <2>1, <1>4 DEF Fresh, Return
  <2>2. CASE RenameFails("src") /\ Goto("copyClean")
    BY <2>2, <1>4 DEF Fresh, Goto
  <2> QED BY <1>4, <2>1, <2>2 DEF Fresh
<1>5. CASE Expire
  BY <1>5 DEF Expire, Return, NoFault, FilesOK
<1>6. CASE Clear
  BY <1>6 DEF Clear, Goto
<1>7. CASE Backup
  BY <1>7 DEF Backup, Goto
<1>8. CASE Place
  BY <1>8 DEF Place, Return, Goto
<1>9. CASE Restore
  BY <1>9 DEF Restore, Goto
<1>10. CASE CopyClean
  BY <1>10 DEF CopyClean, Goto, CopyError, Return
<1>11. CASE CopyWrite
  <2>1. CASE fs' = [fs EXCEPT !["tmp"] = Torn] /\ NoFault
    <3>1. Torn \in Content
      BY DEF Content
    <3>2. FilesOK'
      BY <2>1, <3>1, Written DEF FilesOK, NoFault
    <3>3. fs'["tmp"] = Torn /\ \A s \in Slot : s = "tmp" \/ fs'[s] = fs[s]
      BY <2>1, <3>1, Written
    <3> QED BY <2>1, <3>2, <3>3, <1>11 DEF CopyWrite, Goto, CopyError, Return, NoFault
  <2>2. CASE Fail /\ CopyError
    BY <2>2, <1>11 DEF CopyWrite, Goto, CopyError, Return
  <2> QED BY <1>11, <2>1, <2>2 DEF CopyWrite
<1>12. CASE CopyFill
  <2>1. CASE fs' = [fs EXCEPT !["tmp"] = fs["src"]] /\ NoFault /\ Goto("copyDrop")
    <3>1. fs["src"] \in Content
      BY DEF FilesOK
    <3>2. FilesOK'
      BY <2>1, <3>1, Written DEF FilesOK, NoFault
    <3>3. /\ fs'["tmp"] = fs["src"]
          /\ \A s \in Slot : s = "tmp" \/ fs'[s] = fs[s]
      BY <2>1, <3>1, Written
    <3> QED BY <2>1, <3>2, <3>3, <1>12 DEF CopyFill, Goto, NoFault
  <2>2. CASE TmpLost /\ CopyError
    BY <2>2, Cleaned, <1>12 DEF CopyFill, Goto, CopyError, Return
  <2> QED BY <1>12, <2>1, <2>2 DEF CopyFill
<1>13. CASE CopyDrop
  BY <1>13 DEF CopyDrop, Goto, CopyTarget
<1>14. CASE CopyMove
  <2>1. CASE Renamed("tmp", CopyTarget) /\ Return("ok")
    BY <2>1, <1>14 DEF CopyMove, CopyTarget, Return
  <2>2. CASE TmpLost /\ CopyError
    BY <2>2, Cleaned, <1>14 DEF CopyMove, Goto, CopyError, Return
  <2> QED BY <1>14, <2>1, <2>2 DEF CopyMove
<1>15. CASE RollbackAside
  BY <1>15 DEF RollbackAside, Return, Goto
<1>16. CASE RollbackPlace
  BY <1>16 DEF RollbackPlace, Goto
<1>17. CASE RollbackUndo
  BY <1>17 DEF RollbackUndo, Return
<1>18. CASE RollbackClean
  BY <1>18 DEF RollbackClean, Return
<1>19. CASE StageClear
  BY <1>19 DEF StageClear, Goto
<1>20. CASE StageMove
  <2>1. CASE Renamed("src", "new") /\ Return("ok")
    BY <2>1, <1>20 DEF StageMove, Return
  <2>2. CASE RenameFails("src") /\ Goto("copyClean")
    BY <2>2, <1>20 DEF StageMove, Goto
  <2> QED BY <1>20, <2>1, <2>2 DEF StageMove
<1>21. CASE CompleteClear
  BY <1>21 DEF CompleteClear, Goto
<1>22. CASE CompleteBackup
  BY <1>22 DEF CompleteBackup, Return, Goto, NoFault, FilesOK
<1>23. CASE CompletePlace
  <2>1. CASE Renamed("new", "dest") /\ Return("ok")
    BY <2>1, <1>23 DEF CompletePlace, Return
  <2>2. CASE RenameFails("new")
    BY <2>2, <1>23 DEF CompletePlace, Goto, Return
  <2> QED BY <1>23, <2>1, <2>2 DEF CompletePlace
<1>24. CASE CompleteUndo
  BY <1>24 DEF CompleteUndo, Return
<1>25. CASE Crash
  BY <1>25 DEF Crash, NoFault, FilesOK
<1>26. CASE UNCHANGED vars
  BY <1>26 DEF vars, FilesOK
<1> QED BY <1>1, <1>2, <1>3, <1>4, <1>5, <1>6, <1>7, <1>8, <1>9, <1>10,
       <1>11, <1>12, <1>13, <1>14, <1>15, <1>16, <1>17, <1>18, <1>19, <1>20,
       <1>21, <1>22, <1>23, <1>24, <1>25, <1>26 DEF Next, Step

(* Where a replacement stands: what it found (was) against what now lies   *)
(* under the two names, and how many calls failed to get there.            *)
ReplaceProgress ==
  /\ pc = "fresh" \/ (pc \in Copying /\ from = "fresh") =>
       was.dest = None /\ Pair(None, was.previous)
  /\ pc \in {"clear", "backup"} =>
       /\ was.dest # None
       /\ \/ fs["dest"] = was.dest /\ fs["previous"] \in {was.previous, None}
          \/ faults >= 3 /\ fs["dest"] = None /\ fs["previous"] \in {was.dest, None}
  /\ pc \in {"place", "restore"} \/ (pc \in Copying /\ from = "loop") =>
       was.dest # None /\ Pair(None, was.dest)
  /\ pc \in Copying /\ from = "loop" => faults >= 1
  /\ pc = "restore" => faults >= 2

(* A staging leaves the file alone.                                        *)
StageProgress ==
  pc \in Staging \/ (pc \in Copying /\ from = "stage") =>
    was.dest # None /\ Pair(was.dest, was.previous)

RollbackProgress ==
  /\ pc \in Rolling => was.previous # None
  /\ pc = "rbAside" => Pair(was.dest, was.previous)
  /\ pc \in {"rbPlace", "rbUndo"} =>
       /\ was.dest # None /\ fs["aside"] = was.dest
       /\ Pair(None, was.previous)
  /\ pc = "rbClean" => was.dest # None /\ Pair(was.previous, None)

CompleteProgress ==
  /\ pc \in Completing => fs["new"] \in Image
  /\ pc = "pdClear" => Pair(was.dest, was.previous)
  /\ pc = "pdBackup" =>
       fs["dest"] = was.dest /\ fs["previous"] \in {was.previous, None}
  /\ pc = "pdPlace" =>
       /\ fs["dest"] = None
       /\ \/ was.dest = None /\ fs["previous"] \in {was.previous, None}
          \/ was.dest # None /\ fs["previous"] = was.dest
  /\ pc = "pdUndo" => was.dest # None /\ Pair(None, was.dest)

(* The bytes on their way are the ones the replacement was asked for.      *)
Carried ==
  /\ pc \in {"fresh"} \union Looping \/ (pc \in Copying /\ from # "stage") =>
       op = "replace" /\ fs["src"] = incoming
  /\ pc \in {"copyDrop", "copyMove"} /\ from # "stage" => fs["tmp"] = incoming
  /\ pc \in Staging \union Rolling \union Completing
       \/ (pc \in Copying /\ from = "stage") => op # "replace"

Progress == ReplaceProgress /\ StageProgress /\ RollbackProgress
              /\ CompleteProgress /\ Carried

ProgressInv == TornInv /\ Progress

(* Nothing is in progress at first.                                        *)
LEMMA ProgressInit == Init => ProgressInv
BY TornInvInit DEF Init, ProgressInv, Progress, ReplaceProgress,
   StageProgress, RollbackProgress, CompleteProgress, Carried, Looping,
   Copying, Staging, Rolling, Completing

(* Every step takes a call from one of those points to the next.           *)
LEMMA ProgressStep == ProgressInv /\ [Next]_vars => Progress'
<1> SUFFICES ASSUME ProgressInv, [Next]_vars
             PROVE  Progress'
  OBVIOUS
<1> USE ContentsDiffer, Moved, Dropped, NotRenamed, NotRemoved, Failed
    DEF ProgressInv, Progress, ReplaceProgress, StageProgress,
        RollbackProgress, CompleteProgress, Carried, TornInv, TypeOK,
        BytesWhole, Slot, Looping, Copying, Staging, Rolling, Completing,
        Pair, Unmoved
<1>f. faults \in Nat
  BY MaxFaultsNat DEF FilesOK
<1>1. ASSUME NEW n \in Image, BeginReplace(n) PROVE Progress'
  BY <1>1 DEF BeginReplace, Begin, FilesOK, Content
<1>2. ASSUME NEW n \in Image, BeginStage(n) PROVE Progress'
  BY <1>2 DEF BeginStage, Begin, FilesOK, Content
<1>3. CASE BeginRollback \/ BeginComplete
  BY <1>3 DEF BeginRollback, BeginComplete, Begin, FilesOK, Content,
     NeverTorn
<1>4. CASE Fresh
  <2>1. CASE Renamed("src", "dest") /\ Return("ok")
    BY <1>f, <2>1, <1>4 DEF Fresh, Return
  <2>2. CASE RenameFails("src") /\ Goto("copyClean")
    BY <1>f, <2>2, <1>4 DEF Fresh, Goto
  <2> QED BY <1>f, <1>4, <2>1, <2>2 DEF Fresh
<1>5. CASE Expire
  BY <1>5, <1>f DEF Expire, Return, NoFault, FilesOK
<1>6. CASE Clear
  BY <1>6, <1>f DEF Clear, Goto
<1>7. CASE Backup
  BY <1>7, <1>f DEF Backup, Goto
<1>8. CASE Place
  BY <1>8, <1>f DEF Place, Return, Goto
<1>9. CASE Restore
  BY <1>9, <1>f DEF Restore, Goto
<1>10. CASE CopyClean
  BY <1>10, <1>f DEF CopyClean, Goto, CopyError, Return
<1>11. CASE CopyWrite
  <2>1. CASE fs' = [fs EXCEPT !["tmp"] = Torn] /\ NoFault
    <3>1. Torn \in Content
      BY DEF Content
    <3>2. FilesOK'
      BY <1>f, <2>1, <3>1, Written DEF FilesOK, NoFault
    <3>3. fs'["tmp"] = Torn /\ \A s \in Slot : s = "tmp" \/ fs'[s] = fs[s]
      BY <1>f, <2>1, <3>1, Written
    <3> QED BY <1>f, <2>1, <3>2, <3>3, <1>11 DEF CopyWrite, Goto, CopyError, Return, NoFault
  <2>2. CASE Fail /\ CopyError
    BY <1>f, <2>2, <1>11 DEF CopyWrite, Goto, CopyError, Return
  <2> QED BY <1>f, <1>11, <2>1, <2>2 DEF CopyWrite
<1>12. CASE CopyFill
  <2>1. CASE fs' = [fs EXCEPT !["tmp"] = fs["src"]] /\ NoFault /\ Goto("copyDrop")
    <3>1. fs["src"] \in Content
      BY DEF FilesOK
    <3>2. FilesOK'
      BY <1>f, <2>1, <3>1, Written DEF FilesOK, NoFault
    <3>3. /\ fs'["tmp"] = fs["src"]
          /\ \A s \in Slot : s = "tmp" \/ fs'[s] = fs[s]
      BY <1>f, <2>1, <3>1, Written
    <3> QED BY <1>f, <2>1, <3>2, <3>3, <1>12 DEF CopyFill, Goto, NoFault
  <2>2. CASE TmpLost /\ CopyError
    BY <1>f, <2>2, Cleaned, <1>12 DEF CopyFill, Goto, CopyError, Return
  <2> QED BY <1>f, <1>12, <2>1, <2>2 DEF CopyFill
<1>13. CASE CopyDrop
  BY <1>13, <1>f DEF CopyDrop, Goto, CopyTarget
<1>14. CASE CopyMove
  <2>1. CASE Renamed("tmp", CopyTarget) /\ Return("ok")
    BY <1>f, <2>1, <1>14 DEF CopyMove, CopyTarget, Return
  <2>2. CASE TmpLost /\ CopyError
    BY <1>f, <2>2, Cleaned, <1>14 DEF CopyMove, Goto, CopyError, Return
  <2> QED BY <1>f, <1>14, <2>1, <2>2 DEF CopyMove
<1>15. CASE RollbackAside
  BY <1>15, <1>f DEF RollbackAside, Return, Goto
<1>16. CASE RollbackPlace
  BY <1>16, <1>f DEF RollbackPlace, Goto
<1>17. CASE RollbackUndo
  BY <1>17, <1>f DEF RollbackUndo, Return
<1>18. CASE RollbackClean
  BY <1>18, <1>f DEF RollbackClean, Return
<1>19. CASE StageClear
  BY <1>19, <1>f DEF StageClear, Goto
<1>20. CASE StageMove
  <2>1. CASE Renamed("src", "new") /\ Return("ok")
    BY <1>f, <2>1, <1>20 DEF StageMove, Return
  <2>2. CASE RenameFails("src") /\ Goto("copyClean")
    BY <1>f, <2>2, <1>20 DEF StageMove, Goto
  <2> QED BY <1>f, <1>20, <2>1, <2>2 DEF StageMove
<1>21. CASE CompleteClear
  BY <1>21, <1>f DEF CompleteClear, Goto
<1>22. CASE CompleteBackup
  BY <1>22, <1>f DEF CompleteBackup, Return, Goto, NoFault, FilesOK
<1>23. CASE CompletePlace
  <2>1. CASE Renamed("new", "dest") /\ Return("ok")
    BY <1>f, <2>1, <1>23 DEF CompletePlace, Return
  <2>2. CASE RenameFails("new")
    BY <1>f, <2>2, <1>23 DEF CompletePlace, Goto, Return
  <2> QED BY <1>f, <1>23, <2>1, <2>2 DEF CompletePlace
<1>24. CASE CompleteUndo
  BY <1>24, <1>f DEF CompleteUndo, Return
<1>25. CASE Crash
  BY <1>25, <1>f DEF Crash, NoFault, FilesOK
<1>26. CASE UNCHANGED vars
  BY <1>26 DEF vars
<1> QED BY <1>1, <1>2, <1>3, <1>4, <1>5, <1>6, <1>7, <1>8, <1>9, <1>10,
       <1>11, <1>12, <1>13, <1>14, <1>15, <1>16, <1>17, <1>18, <1>19, <1>20,
       <1>21, <1>22, <1>23, <1>24, <1>25, <1>26 DEF Next, Step

(* One step meets one failing call at most.                                *)
LEMMA FaultsCounted == TypeOK /\ [Next]_vars => faults' \in {faults, faults + 1}
<1> SUFFICES ASSUME TypeOK, [Next]_vars PROVE faults' \in {faults, faults + 1}
  OBVIOUS
<1> USE NotRenamed, NotRemoved, Failed, Cleaned
    DEF TypeOK, Slot, NoFault, Renamed, Removed
<1>1. ASSUME NEW n \in Image, BeginReplace(n) \/ BeginStage(n) PROVE faults' \in {faults, faults + 1}
  BY <1>1 DEF BeginReplace, BeginStage, Begin, FilesOK, Slot, Content
<1>2. CASE BeginRollback \/ BeginComplete
  BY <1>2 DEF BeginRollback, BeginComplete, Begin, FilesOK, Slot
<1>3. CASE Fresh \/ Place
  BY <1>3 DEF Fresh, Place, Return, Goto
<1>4. CASE Expire \/ Crash
  BY <1>4 DEF Expire, Crash, Return, NoFault, FilesOK
<1>5. CASE Clear \/ Backup \/ Restore
  BY <1>5 DEF Clear, Backup, Restore, Goto
<1>6. CASE CopyClean \/ CopyWrite
  BY <1>6 DEF CopyClean, CopyWrite, Goto, CopyError, Return, CopyTarget,
     NoFault
<1>7. CASE CopyFill \/ CopyDrop \/ CopyMove
  BY <1>7 DEF CopyFill, CopyDrop, CopyMove, Goto, CopyError, Return,
     NoFault, CopyTarget
<1>8. CASE RollbackAside \/ RollbackPlace
  BY <1>8 DEF RollbackAside, RollbackPlace, Return, Goto
<1>9. CASE RollbackUndo \/ RollbackClean
  BY <1>9 DEF RollbackUndo, RollbackClean, Return
<1>10. CASE StageClear \/ StageMove
  BY <1>10 DEF StageClear, StageMove, Goto, Return
<1>11. CASE CompleteClear \/ CompleteBackup
  BY <1>11 DEF CompleteClear, CompleteBackup, Goto, Return, NoFault, FilesOK
<1>12. CASE CompletePlace \/ CompleteUndo
  BY <1>12 DEF CompletePlace, CompleteUndo, Return, Goto
<1>13. CASE UNCHANGED vars
  BY <1>13 DEF vars
<1> QED BY <1>1, <1>2, <1>3, <1>4, <1>5, <1>6, <1>7, <1>8, <1>9, <1>10,
       <1>11, <1>12, <1>13 DEF Next, Step

(* A call in progress keeps what it found and what it was asked for; a     *)
(* call that begins notes what it finds and moves nothing.                 *)
LEMMA CallKept ==
  ASSUME TypeOK, [Next]_vars
  PROVE  IF pc = "idle"
           THEN \/ UNCHANGED vars
                \/ /\ pc' # "idle"
                   /\ fs'["dest"] = fs["dest"] /\ fs'["previous"] = fs["previous"]
                   /\ was' = [dest |-> fs["dest"], previous |-> fs["previous"]]
           ELSE UNCHANGED <<was, incoming>>
<1>1. ASSUME NEW n \in Image, BeginReplace(n) \/ BeginStage(n)
      PROVE  /\ pc = "idle" /\ pc' # "idle"
             /\ fs'["dest"] = fs["dest"] /\ fs'["previous"] = fs["previous"]
             /\ was' = [dest |-> fs["dest"], previous |-> fs["previous"]]
  BY <1>1 DEF BeginReplace, BeginStage, Begin, TypeOK, FilesOK, Slot
<1>2. ASSUME BeginRollback \/ BeginComplete
      PROVE  /\ pc = "idle" /\ pc' # "idle" /\ UNCHANGED fs
             /\ was' = [dest |-> fs["dest"], previous |-> fs["previous"]]
  BY <1>2 DEF BeginRollback, BeginComplete, Begin
<1>3. ASSUME Expire \/ Step \/ Crash
      PROVE  pc # "idle" /\ UNCHANGED <<was, incoming>>
  BY <1>3 DEF Expire, Step, Crash, Fresh, Clear, Backup, Place, Restore,
     CopyClean, CopyWrite, CopyFill, CopyDrop, CopyMove, RollbackAside,
     RollbackPlace, RollbackUndo, RollbackClean, StageClear, StageMove,
     CompleteClear, CompleteBackup, CompletePlace, CompleteUndo, Unmoved
<1> QED BY <1>1, <1>2, <1>3 DEF Next, vars

(* What a call leaves when it returns or dies.                             *)
Ended ==
  LET pair == <<fs'["dest"], fs'["previous"]>> IN
  \/ \E n \in Image :
       \/ pair \in Contract!ReplaceCut(was.dest, was.previous, n)
       \/ pair \in Contract!CompleteCut(was.dest, was.previous, n)
  \/ pair \in Contract!RollbackCut(was.dest, was.previous)
  \/ faults' >= 3 /\ pair \in Contract!ReplaceLost(was.dest)

LEMMA Outcome ==
  ASSUME ProgressInv, [Next]_vars, pc # "idle", pc' = "idle"
  PROVE  Ended
<1> USE ContentsDiffer, Moved, Dropped, NotRenamed, NotRemoved, Failed
    DEF ProgressInv, Progress, ReplaceProgress, StageProgress,
        RollbackProgress, CompleteProgress, Carried, TornInv, TypeOK,
        BytesWhole, Slot, Looping, Copying, Staging, Rolling, Completing,
        Pair, Unmoved, CallOK, Ended, Contract!ReplaceCut, Contract!CompleteCut,
        Contract!RollbackCut, Contract!ReplaceLost, Contract!ReplaceKept,
        Contract!ReplaceDone
<1>f. faults \in Nat
  BY MaxFaultsNat DEF FilesOK
<1>1. ASSUME NEW n \in Image, BeginReplace(n) \/ BeginStage(n) PROVE Ended
  BY <1>1, <1>f, Cleaned DEF BeginReplace, BeginStage, Begin, FilesOK, Slot,
     Content
<1>2. CASE BeginRollback \/ BeginComplete
  BY <1>2, <1>f, Cleaned DEF BeginRollback, BeginComplete, Begin, FilesOK,
     Slot
<1>3. CASE Fresh
  BY <1>3, <1>f, Cleaned DEF Fresh, Return, Goto
<1>4. CASE Expire
  BY <1>4, <1>f, Cleaned DEF Expire, Return, NoFault, FilesOK
<1>5. CASE Clear
  BY <1>5, <1>f, Cleaned DEF Clear, Goto
<1>6. CASE Backup
  BY <1>6, <1>f, Cleaned DEF Backup, Goto
<1>7. CASE Place
  BY <1>7, <1>f, Cleaned DEF Place, Return, Goto
<1>8. CASE Restore
  BY <1>8, <1>f, Cleaned DEF Restore, Goto
<1>9. CASE CopyClean
  BY <1>9, <1>f, Cleaned DEF CopyClean, Goto, CopyError, Return, CopyTarget
<1>10. CASE CopyWrite
  BY <1>10, <1>f, Cleaned DEF CopyWrite, Goto, CopyError, Return, NoFault,
     CopyTarget
<1>11. CASE CopyFill
  BY <1>11, <1>f, Cleaned DEF CopyFill, Goto, CopyError, Return, NoFault,
     CopyTarget
<1>12. CASE CopyDrop
  BY <1>12, <1>f, Cleaned DEF CopyDrop, Goto, CopyTarget, Return, CopyError
<1>13. CASE CopyMove
  BY <1>13, <1>f, Cleaned DEF CopyMove, Return, CopyError, Goto, CopyTarget
<1>14. CASE RollbackAside
  BY <1>14, <1>f, Cleaned DEF RollbackAside, Return, Goto
<1>15. CASE RollbackPlace
  BY <1>15, <1>f, Cleaned DEF RollbackPlace, Goto
<1>16. CASE RollbackUndo
  BY <1>16, <1>f, Cleaned DEF RollbackUndo, Return
<1>17. CASE RollbackClean
  BY <1>17, <1>f, Cleaned DEF RollbackClean, Return
<1>18. CASE StageClear
  BY <1>18, <1>f, Cleaned DEF StageClear, Goto
<1>19. CASE StageMove
  BY <1>19, <1>f, Cleaned DEF StageMove, Return, Goto
<1>20. CASE CompleteClear
  BY <1>20, <1>f, Cleaned DEF CompleteClear, Goto
<1>21. CASE CompleteBackup
  BY <1>21, <1>f, Cleaned DEF CompleteBackup, Return, Goto, NoFault, FilesOK
<1>22. CASE CompletePlace
  BY <1>22, <1>f, Cleaned DEF CompletePlace, Return, Goto
<1>23. CASE CompleteUndo
  BY <1>23, <1>f, Cleaned DEF CompleteUndo, Return
<1>24. CASE Crash
  BY <1>24, <1>f, Cleaned DEF Crash, NoFault, FilesOK
<1>25. CASE UNCHANGED vars
  BY <1>25, <1>f, Cleaned DEF vars
<1> QED BY <1>1, <1>2, <1>3, <1>4, <1>5, <1>6, <1>7, <1>8, <1>9, <1>10,
       <1>11, <1>12, <1>13, <1>14, <1>15, <1>16, <1>17, <1>18, <1>19, <1>20,
       <1>21, <1>22, <1>23, <1>24, <1>25 DEF Next, Step

(* A complete copy stays on the disk through every step.                   *)
LEMMA CopyStep ==
  ASSUME ProgressInv, CopySurvives, [Next]_vars
  PROVE  CopySurvives'
<1> USE ContentsDiffer, Moved, Dropped, NotRenamed, NotRemoved, Failed, Cleaned
    DEF ProgressInv, Progress, ReplaceProgress, StageProgress,
        RollbackProgress, CompleteProgress, Carried, TornInv, TypeOK, CallOK,
        NeverTorn, BytesWhole, Slot, Looping, Copying, Staging, Rolling,
        Completing, Pair, Unmoved, CopySurvives, Copies
<1>f. faults \in Nat /\ \A s \in Slot : fs[s] \in Image \union {None, Torn}
  BY MaxFaultsNat DEF FilesOK, Content
<1>1. ASSUME NEW n \in Image, BeginReplace(n) \/ BeginStage(n) PROVE CopySurvives'
  BY <1>1, <1>f DEF BeginReplace, BeginStage, Begin, FilesOK, Slot, Content
<1>2. CASE BeginRollback \/ BeginComplete
  BY <1>2, <1>f DEF BeginRollback, BeginComplete, Begin, FilesOK, Slot
<1>3. CASE Fresh
  BY <1>3, <1>f DEF Fresh, Return, Goto
<1>4. CASE Expire
  BY <1>4, <1>f DEF Expire, Return, NoFault, FilesOK
<1>5. CASE Clear
  BY <1>5, <1>f DEF Clear, Goto
<1>6. CASE Backup
  BY <1>6, <1>f DEF Backup, Goto
<1>7. CASE Place
  BY <1>7, <1>f DEF Place, Return, Goto
<1>8. CASE Restore
  BY <1>8, <1>f DEF Restore, Goto
<1>9. CASE CopyClean
  BY <1>9, <1>f DEF CopyClean, Goto, CopyError, Return, CopyTarget
<1>10. CASE CopyWrite
  BY <1>10, <1>f DEF CopyWrite, Goto, CopyError, Return, NoFault,
     CopyTarget, FilesOK
<1>11. CASE CopyFill
  BY <1>11, <1>f DEF CopyFill, Goto, CopyError, Return, NoFault, CopyTarget,
     FilesOK
<1>12. CASE CopyDrop
  BY <1>12, <1>f DEF CopyDrop, Goto, CopyTarget, Return, CopyError
<1>13. CASE CopyMove
  BY <1>13, <1>f DEF CopyMove, Return, CopyError, Goto, CopyTarget
<1>14. CASE RollbackAside
  BY <1>14, <1>f DEF RollbackAside, Return, Goto
<1>15. CASE RollbackPlace
  BY <1>15, <1>f DEF RollbackPlace, Goto
<1>16. CASE RollbackUndo
  BY <1>16, <1>f DEF RollbackUndo, Return
<1>17. CASE RollbackClean
  BY <1>17, <1>f DEF RollbackClean, Return
<1>18. CASE StageClear
  BY <1>18, <1>f DEF StageClear, Goto
<1>19. CASE StageMove
  BY <1>19, <1>f DEF StageMove, Return, Goto
<1>20. CASE CompleteClear
  BY <1>20, <1>f DEF CompleteClear, Goto
<1>21. CASE CompleteBackup
  BY <1>21, <1>f DEF CompleteBackup, Return, Goto, NoFault, FilesOK
<1>22. CASE CompletePlace
  BY <1>22, <1>f DEF CompletePlace, Return, Goto
<1>23. CASE CompleteUndo
  BY <1>23, <1>f DEF CompleteUndo, Return
<1>24. CASE Crash
  BY <1>24, <1>f DEF Crash, NoFault, FilesOK
<1>25. CASE UNCHANGED vars
  BY <1>25, <1>f DEF vars
<1> QED BY <1>1, <1>2, <1>3, <1>4, <1>5, <1>6, <1>7, <1>8, <1>9, <1>10,
       <1>11, <1>12, <1>13, <1>14, <1>15, <1>16, <1>17, <1>18, <1>19, <1>20,
       <1>21, <1>22, <1>23, <1>24, <1>25 DEF Next, Step

(* What a replacement reports stays true, and is true when it reports it.  *)
LEMMA ReportStep ==
  ASSUME ProgressInv, ReplaceReports, [Next]_vars
  PROVE  ReplaceReports'
<1> USE ContentsDiffer, Moved, Dropped, NotRenamed, NotRemoved, Failed, Cleaned
    DEF ProgressInv, Progress, ReplaceProgress, StageProgress,
        RollbackProgress, CompleteProgress, Carried, TornInv, TypeOK, CallOK,
        NeverTorn, BytesWhole, Slot, Looping, Copying, Staging, Rolling,
        Completing, Pair, Unmoved, ReplaceReports
<1>f. faults \in Nat
  BY MaxFaultsNat DEF FilesOK
<1>1. ASSUME NEW n \in Image, BeginReplace(n) \/ BeginStage(n) PROVE ReplaceReports'
  BY <1>1, <1>f DEF BeginReplace, BeginStage, Begin, FilesOK, Slot, Content
<1>2. CASE BeginRollback \/ BeginComplete
  BY <1>2, <1>f DEF BeginRollback, BeginComplete, Begin, FilesOK, Slot
<1>3. CASE Fresh
  BY <1>3, <1>f DEF Fresh, Return, Goto
<1>4. CASE Expire
  BY <1>4, <1>f DEF Expire, Return, NoFault, FilesOK
<1>5. CASE Clear
  BY <1>5, <1>f DEF Clear, Goto
<1>6. CASE Backup
  BY <1>6, <1>f DEF Backup, Goto
<1>7. CASE Place
  BY <1>7, <1>f DEF Place, Return, Goto
<1>8. CASE Restore
  BY <1>8, <1>f DEF Restore, Goto
<1>9. CASE CopyClean
  BY <1>9, <1>f DEF CopyClean, Goto, CopyError, Return, CopyTarget
<1>10. CASE CopyWrite
  BY <1>10, <1>f DEF CopyWrite, Goto, CopyError, Return, NoFault, CopyTarget
<1>11. CASE CopyFill
  BY <1>11, <1>f DEF CopyFill, Goto, CopyError, Return, NoFault, CopyTarget
<1>12. CASE CopyDrop
  BY <1>12, <1>f DEF CopyDrop, Goto, CopyTarget, Return, CopyError
<1>13. CASE CopyMove
  BY <1>13, <1>f DEF CopyMove, Return, CopyError, Goto, CopyTarget
<1>14. CASE RollbackAside
  BY <1>14, <1>f DEF RollbackAside, Return, Goto
<1>15. CASE RollbackPlace
  BY <1>15, <1>f DEF RollbackPlace, Goto
<1>16. CASE RollbackUndo
  BY <1>16, <1>f DEF RollbackUndo, Return
<1>17. CASE RollbackClean
  BY <1>17, <1>f DEF RollbackClean, Return
<1>18. CASE StageClear
  BY <1>18, <1>f DEF StageClear, Goto
<1>19. CASE StageMove
  BY <1>19, <1>f DEF StageMove, Return, Goto
<1>20. CASE CompleteClear
  BY <1>20, <1>f DEF CompleteClear, Goto
<1>21. CASE CompleteBackup
  BY <1>21, <1>f DEF CompleteBackup, Return, Goto, NoFault, FilesOK
<1>22. CASE CompletePlace
  BY <1>22, <1>f DEF CompletePlace, Return, Goto
<1>23. CASE CompleteUndo
  BY <1>23, <1>f DEF CompleteUndo, Return
<1>24. CASE Crash
  BY <1>24, <1>f DEF Crash, NoFault, FilesOK
<1>25. CASE UNCHANGED vars
  BY <1>25, <1>f DEF vars
<1> QED BY <1>1, <1>2, <1>3, <1>4, <1>5, <1>6, <1>7, <1>8, <1>9, <1>10,
       <1>11, <1>12, <1>13, <1>14, <1>15, <1>16, <1>17, <1>18, <1>19, <1>20,
       <1>21, <1>22, <1>23, <1>24, <1>25 DEF Next, Step

(* Where the calls stand is invariant.                                     *)
LEMMA ProgressAlways == Spec => []ProgressInv
<1>1. ProgressInv /\ [Next]_vars => ProgressInv'
  BY TornInvStep, ProgressStep DEF ProgressInv
<1> QED BY <1>1, ProgressInit, PTL DEF Spec

(* The disk and the call in progress stay in their types.                  *)
THEOREM TypeCorrect == Spec => []TypeOK
<1>1. ProgressInv => TypeOK
  BY DEF ProgressInv, TornInv
<1> QED BY <1>1, ProgressAlways, PTL

(* However many file-system calls fail and wherever the process dies, no   *)
(* half-written file lies under a name that is loaded or restored.         *)
THEOREM NoTornFile == Spec => []NeverTorn
<1>1. ProgressInv => NeverTorn
  BY DEF ProgressInv, TornInv
<1> QED BY <1>1, ProgressAlways, PTL

(* Until the third failed call a complete copy of the file exists.         *)
THEOREM ACopySurvives == Spec => []CopySurvives
<1>1. Init => CopySurvives
  BY DEF Init, CopySurvives, Copies, Slot
<1>2. ProgressInv /\ CopySurvives /\ [Next]_vars => CopySurvives'
  BY CopyStep
<1> QED BY <1>1, <1>2, ProgressAlways, PTL DEF Spec

(* A replacement's report is the truth about the file and its backup.      *)
THEOREM ReportsTruly == Spec => []ReplaceReports
<1>1. Init => ReplaceReports
  BY DEF Init, ReplaceReports
<1>2. ProgressInv /\ ReplaceReports /\ [Next]_vars => ReplaceReports'
  BY ReportStep
<1> QED BY <1>1, <1>2, ProgressAlways, PTL DEF Spec

(* Call by call, failure by failure and crash by crash, the file lives the *)
(* life that FileContract describes.                                       *)
THEOREM Implements == Spec => ImplementsContract
<1>1. Init => Contract!ContractInit
  <2> SUFFICES ASSUME Init PROVE Contract!ContractInit
    OBVIOUS
  <2>1. fs["dest"] \in Image /\ fs["previous"] = None
    BY DEF Init, Slot
  <2> QED BY <2>1 DEF Init, Contract!ContractInit
<1>2. ProgressInv /\ [Next]_vars => [Contract!ContractNext]_(Contract!contractVars)
  <2> SUFFICES ASSUME ProgressInv, [Next]_vars
               PROVE  [Contract!ContractNext]_(Contract!contractVars)
    OBVIOUS
  <2>1. TypeOK
    BY DEF ProgressInv, TornInv
  <2>2. Contract!Harm
    BY <2>1, FaultsCounted DEF Contract!Harm
  <2>3. CASE pc = "idle"
    BY <2>1, <2>2, <2>3, CallKept DEF vars, Contract!contractVars,
       Contract!ContractNext, Contract!Undisturbed
  <2>4. CASE pc # "idle" /\ pc' # "idle"
    BY <2>1, <2>2, <2>4, CallKept DEF Contract!ContractNext, Contract!Undisturbed
  <2>5. CASE pc # "idle" /\ pc' = "idle"
    <3>1. Ended
      BY <2>5, Outcome
    <3> QED BY <2>2, <2>5, <3>1 DEF Ended, Contract!ContractNext,
            Contract!Replaced, Contract!RolledBack, Contract!Completed,
            Contract!Observe
  <2> QED BY <2>3, <2>4, <2>5
<1> QED BY <1>1, <1>2, ProgressAlways, PTL
       DEF Spec, ImplementsContract, Contract!ContractSpec
===============================================================================
