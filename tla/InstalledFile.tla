----------------------------- MODULE InstalledFile -----------------------------
(***************************************************************************)
(* One file of an installed launcher (backend.dll, or updater.dll, which   *)
(* belongs to the running process) under the operations that move new      *)
(* bytes into it, one file-system call per step:                           *)
(*                                                                         *)
(*   replace   replaceFileRoot and copyFileRoot of                         *)
(*             updater-backend/internal/install/install.go                 *)
(*   rollback  Rollback of the same file                                   *)
(*   stage     the IsLockedComponent branch of Apply (the ".new" file)     *)
(*   complete  applyPendingUpdates of shell/updater_phase.go               *)
(*                                                                         *)
(* Any call may fail (an antivirus holds the handle) and the process may   *)
(* die before any call.  A file is either replaced in place or "locked"    *)
(* (it belongs to the running process): locked is fixed for a behaviour.   *)
(***************************************************************************)
EXTENDS Naturals

CONSTANTS
  Image,      \* complete contents a file can have
  None,       \* the file does not exist
  Torn,       \* a half-written file
  MaxFaults   \* bound: file-system calls that fail in a behaviour

ASSUME ContentsDiffer == None \notin Image /\ Torn \notin Image /\ None # Torn
ASSUME MaxFaultsNat == MaxFaults \in Nat

VARIABLES
  fs,         \* slot -> content
  locked,     \* does the file belong to the running process?
  pc,         \* next file-system call of the call in progress, or "idle"
  from,       \* who called copyFileRoot
  op,         \* the call in progress, or the last one
  result,     \* how the last call ended
  was,        \* [dest, previous] when the call began
  incoming,   \* the bytes the call installs (None for a rollback)
  faults      \* calls that failed so far

vars == <<fs, locked, pc, from, op, result, was, incoming, faults>>

Slot == {"dest", "previous", "src", "tmp", "aside", "new"}

Content == Image \union {None, Torn}

FilesOK ==
  /\ fs \in [Slot -> Content]
  /\ faults \in 0..MaxFaults

CallOK ==
  /\ locked \in BOOLEAN
  /\ from \in {"fresh", "loop", "stage"}
  /\ op \in {"none", "replace", "rollback", "stage", "complete"}
  /\ result \in {"none", "ok", "error", "crash"}
  /\ was \in [dest : Content, previous : Content]
  /\ incoming \in Image \union {None}
  /\ pc \in {"idle", "fresh", "clear", "backup", "place", "restore",
             "copyClean", "copyWrite", "copyFill", "copyDrop", "copyMove",
             "rbAside", "rbPlace", "rbUndo", "rbClean", "stClear", "stMove",
             "pdClear", "pdBackup", "pdPlace", "pdUndo"}

TypeOK == FilesOK /\ CallOK

Init ==
  /\ \E first \in Image : fs = [s \in Slot |-> IF s = "dest" THEN first ELSE None]
  /\ locked \in BOOLEAN
  /\ pc = "idle" /\ from = "loop"
  /\ op = "none" /\ result = "none"
  /\ was = [dest |-> fs["dest"], previous |-> None]
  /\ incoming = None
  /\ faults = 0

-------------------------------------------------------------------------------
(* File-system calls.                                                      *)

Fail ==
  /\ faults < MaxFaults
  /\ faults' = faults + 1
  /\ UNCHANGED fs

NoFault == UNCHANGED faults

(* os.Root.Rename: overwrites its target, needs its source.                *)
Renamed(a, b) ==
  /\ fs[a] # None
  /\ fs' = [fs EXCEPT ![b] = fs[a], ![a] = None]
  /\ NoFault

RenameFails(a) ==
  \/ fs[a] = None /\ UNCHANGED fs /\ NoFault
  \/ fs[a] # None /\ Fail

Removed(a) == fs' = [fs EXCEPT ![a] = None] /\ NoFault

RemoveFails(a) == fs[a] # None /\ Fail

Goto(label) == pc' = label /\ UNCHANGED <<op, result>>

(* The call returns; its temporary directory goes with it (newflow.go:273).*)
Return(r) == pc' = "idle" /\ result' = r /\ UNCHANGED op

Unmoved == UNCHANGED <<locked, was, incoming>>

Begin(name, label, n) ==
  /\ pc = "idle"
  /\ op' = name
  /\ pc' = label
  /\ result' = "none"
  /\ was' = [dest |-> fs["dest"], previous |-> fs["previous"]]
  /\ incoming' = n
  /\ UNCHANGED <<locked, from, faults>>

-------------------------------------------------------------------------------
(* replaceFileRoot: the downloaded bytes n wait in the temporary directory.*)
BeginReplace(n) ==
  /\ ~locked
  /\ Begin("replace", IF fs["dest"] = None THEN "fresh" ELSE "clear", n)
  /\ fs' = [fs EXCEPT !["src"] = n]

(* Nothing to replace yet: move, or copy when the move fails.              *)
Fresh ==
  /\ pc = "fresh"
  /\ \/ Renamed("src", "dest") /\ Return("ok") /\ UNCHANGED from
     \/ RenameFails("src") /\ Goto("copyClean") /\ from' = "fresh"
  /\ Unmoved

(* mutant: the deadline is looked at only while there is a file to replace *)
ExpireWithFile ==
  /\ pc = "clear" /\ fs["dest"] # None
  /\ Return("error")
  /\ UNCHANGED <<fs, from>> /\ NoFault /\ Unmoved

(* The 15 s deadline passed, or the context was cancelled.                 *)
Expire ==
  /\ pc = "clear"
  /\ Return("error")
  /\ UNCHANGED <<fs, from>> /\ NoFault /\ Unmoved

(* Step 1: drop the older backup; the error is ignored.                    *)
Clear ==
  /\ pc = "clear"
  /\ Removed("previous") \/ RemoveFails("previous")
  /\ Goto("backup") /\ UNCHANGED from /\ Unmoved

(* mutant: the old file is deleted, not kept as .previous                  *)
BackupDeletes ==
  /\ pc = "backup"
  /\ \/ Removed("dest") /\ Goto("place")
     \/ RemoveFails("dest") /\ Goto("clear")
  /\ UNCHANGED from /\ Unmoved

(* Step 2: the old file becomes .previous, or the loop tries again.        *)
Backup ==
  /\ pc = "backup"
  /\ \/ Renamed("dest", "previous") /\ Goto("place")
     \/ RenameFails("dest") /\ Goto("clear")
  /\ UNCHANGED from /\ Unmoved

(* Step 3: the new file under the real name, or copied there.              *)
Place ==
  /\ pc = "place"
  /\ \/ Renamed("src", "dest") /\ Return("ok") /\ UNCHANGED from
     \/ RenameFails("src") /\ Goto("copyClean") /\ from' = "loop"
  /\ Unmoved

(* mutant: the next try begins without the old file put back               *)
RestoreNothing ==
  /\ pc = "restore"
  /\ UNCHANGED fs /\ NoFault
  /\ Goto("clear") /\ UNCHANGED from /\ Unmoved

(* Neither worked: the old file back; the error is ignored.                *)
Restore ==
  /\ pc = "restore"
  /\ Renamed("previous", "dest") \/ RenameFails("previous")
  /\ Goto("clear") /\ UNCHANGED from /\ Unmoved

-------------------------------------------------------------------------------
(* copyFileRoot(src, CopyTarget): through a temporary file.                *)
CopyTarget == IF from = "stage" THEN "new" ELSE "dest"

CopyError ==
  IF from = "loop" THEN Goto("restore") ELSE Return("error")

(* A copy that fails late removes its temporary file, if it can.           *)
TmpLost ==
  /\ faults < MaxFaults
  /\ faults' = faults + 1
  /\ fs' \in {fs, [fs EXCEPT !["tmp"] = None]}

CopyClean ==
  /\ pc = "copyClean"
  /\ \/ Removed("tmp") /\ Goto("copyWrite")
     \/ RemoveFails("tmp") /\ CopyError
  /\ UNCHANGED from /\ Unmoved

(* mutant: the bytes go straight to the target                             *)
CopyInPlace ==
  /\ pc = "copyWrite"
  /\ \/ /\ fs' = [fs EXCEPT ![CopyTarget] = Torn]
        /\ NoFault /\ Goto("copyFill")
     \/ Fail /\ CopyError
  /\ UNCHANGED from /\ Unmoved

(* The temporary file exists and is not yet whole; it, or the bytes to     *)
(* copy, could not be opened.                                              *)
CopyWrite ==
  /\ pc = "copyWrite"
  /\ \/ /\ fs' = [fs EXCEPT !["tmp"] = Torn]
        /\ NoFault /\ Goto("copyFill")
     \/ Fail /\ CopyError
  /\ UNCHANGED from /\ Unmoved

(* Copied, synced and closed; on an error the temporary file is removed.   *)
CopyFill ==
  /\ pc = "copyFill"
  /\ \/ /\ fs' = [fs EXCEPT !["tmp"] = fs["src"]]
        /\ NoFault /\ Goto("copyDrop")
     \/ TmpLost /\ CopyError
  /\ UNCHANGED from /\ Unmoved

CopyDrop ==
  /\ pc = "copyDrop"
  /\ Removed(CopyTarget) \/ RemoveFails(CopyTarget)
  /\ Goto("copyMove") /\ UNCHANGED from /\ Unmoved

CopyMove ==
  /\ pc = "copyMove"
  /\ \/ Renamed("tmp", CopyTarget) /\ Return("ok")
     \/ TmpLost /\ CopyError
  /\ UNCHANGED from /\ Unmoved

-------------------------------------------------------------------------------
(* Rollback: without a backup it returns at once and changes nothing.      *)
BeginRollback ==
  /\ ~locked
  /\ fs["previous"] # None
  /\ Begin("rollback", "rbAside", None)
  /\ UNCHANGED fs

RollbackAside ==
  /\ pc = "rbAside"
  /\ \/ Renamed("dest", "aside") /\ Goto("rbPlace")
     \/ RenameFails("dest") /\ Return("error")
  /\ UNCHANGED from /\ Unmoved

(* mutant: the backup is copied back and stays under .previous             *)
RollbackCopies ==
  /\ pc = "rbPlace"
  /\ \/ /\ fs' = [fs EXCEPT !["dest"] = fs["previous"]]
        /\ NoFault /\ Goto("rbClean")
     \/ RenameFails("previous") /\ Goto("rbUndo")
  /\ UNCHANGED from /\ Unmoved

RollbackPlace ==
  /\ pc = "rbPlace"
  /\ \/ Renamed("previous", "dest") /\ Goto("rbClean")
     \/ RenameFails("previous") /\ Goto("rbUndo")
  /\ UNCHANGED from /\ Unmoved

RollbackUndo ==
  /\ pc = "rbUndo"
  /\ Renamed("aside", "dest") \/ RenameFails("aside")
  /\ Return("error") /\ UNCHANGED from /\ Unmoved

RollbackClean ==
  /\ pc = "rbClean"
  /\ Removed("aside") \/ RemoveFails("aside")
  /\ Return("ok") /\ UNCHANGED from /\ Unmoved

-------------------------------------------------------------------------------
(* A locked file: Apply puts the new bytes beside it.  The code runs from  *)
(* the file, so it is there.                                               *)
BeginStage(n) ==
  /\ locked
  /\ fs["dest"] # None
  /\ Begin("stage", "stClear", n)
  /\ fs' = [fs EXCEPT !["src"] = n]

StageClear ==
  /\ pc = "stClear"
  /\ Removed("new") \/ RemoveFails("new")
  /\ Goto("stMove") /\ UNCHANGED from /\ Unmoved

StageMove ==
  /\ pc = "stMove"
  /\ \/ Renamed("src", "new") /\ Return("ok") /\ UNCHANGED from
     \/ RenameFails("src") /\ Goto("copyClean") /\ from' = "stage"
  /\ Unmoved

(* applyPendingUpdates, at the next start of the shell.                    *)
BeginComplete ==
  /\ locked
  /\ fs["new"] # None
  /\ Begin("complete", "pdClear", fs["new"])
  /\ UNCHANGED fs

CompleteClear ==
  /\ pc = "pdClear"
  /\ Removed("previous") \/ RemoveFails("previous")
  /\ Goto("pdBackup") /\ UNCHANGED from /\ Unmoved

(* A missing file is no obstacle, a file that cannot be moved is.          *)
CompleteBackup ==
  /\ pc = "pdBackup"
  /\ \/ Renamed("dest", "previous") /\ Goto("pdPlace")
     \/ fs["dest"] = None /\ UNCHANGED fs /\ NoFault /\ Goto("pdPlace")
     \/ fs["dest"] # None /\ Fail /\ Return("error")
  /\ UNCHANGED from /\ Unmoved

CompletePlace ==
  /\ pc = "pdPlace"
  /\ \/ Renamed("new", "dest") /\ Return("ok")
     \/ /\ RenameFails("new")
        /\ IF was.dest # None THEN Goto("pdUndo") ELSE Return("error")
  /\ UNCHANGED from /\ Unmoved

CompleteUndo ==
  /\ pc = "pdUndo"
  /\ Renamed("previous", "dest") \/ RenameFails("previous")
  /\ Return("error") /\ UNCHANGED from /\ Unmoved

-------------------------------------------------------------------------------
(* The process dies: the disk stays, the temporary directory is orphaned.  *)
Crash ==
  /\ pc # "idle"
  /\ pc' = "idle" /\ result' = "crash"
  /\ UNCHANGED <<fs, from, op>> /\ NoFault /\ Unmoved

Step ==
  \/ Fresh \/ Clear \/ Backup \/ Place \/ Restore
  \/ CopyClean \/ CopyWrite \/ CopyFill \/ CopyDrop \/ CopyMove
  \/ RollbackAside \/ RollbackPlace \/ RollbackUndo \/ RollbackClean
  \/ StageClear \/ StageMove
  \/ CompleteClear \/ CompleteBackup \/ CompletePlace \/ CompleteUndo

Next ==
  \/ \E n \in Image : BeginReplace(n) \/ BeginStage(n)
  \/ BeginRollback \/ BeginComplete
  \/ Expire \/ Step \/ Crash

(* A call keeps running and its clock keeps ticking; a crash is never owed.*)
Spec == Init /\ [][Next]_vars /\ WF_vars(Step) /\ SF_vars(Expire)
-------------------------------------------------------------------------------
(* A half-written file never lies where it would be loaded or restored:    *)
(* copyFileRoot writes to a temporary name and renames (install.go:343).   *)
NeverTorn == \A s \in {"dest", "previous", "aside", "new"} : fs[s] # Torn

Copies == {"dest", "previous", "aside", "new"}

(* Through any calls, crashes and restarts, and with up to two failed      *)
(* file-system calls, a complete copy of the file stays on the disk.       *)
CopySurvives == faults < 3 => \E s \in Copies : fs[s] \in Image

(* What one call may change, seen between calls: every replace, rollback   *)
(* and completion, finished, failed or cut by a crash, is one step of the  *)
(* contract.                                                               *)
Contract == INSTANCE FileContract WITH
  file   <- IF pc = "idle" THEN fs["dest"] ELSE was.dest,
  backup <- IF pc = "idle" THEN fs["previous"] ELSE was.previous,
  harmed <- faults

ImplementsContract == Contract!ContractSpec

(* A replace that reports success installed its bytes and kept the file it *)
(* replaced for a rollback; one that reports failure with fewer than three *)
(* failed calls left the file as it found it.                              *)
ReplaceReports ==
  pc = "idle" /\ op = "replace" =>
    /\ result = "ok" => /\ fs["dest"] = incoming
                        /\ was.dest # None => fs["previous"] = was.dest
    /\ result = "error" /\ faults < 3 => fs["dest"] = was.dest

(* Every call ends: the retry loop has a deadline (install.go:40, 274).    *)
CallEnds == pc # "idle" ~> pc = "idle"
===============================================================================
