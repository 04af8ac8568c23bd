------------------------- MODULE LauncherUpdate_proofs -------------------------
(***************************************************************************)
(* Theorems of LauncherUpdate, for every number of versions, every content *)
(* of every version and every bound on the troubles.                       *)
(***************************************************************************)
EXTENDS LauncherUpdate, TLAPS

(* What the process has in hand while it installs, gives up or runs.       *)
InHand ==
  /\ pc \in {"apply", "record"} =>
       /\ proc.target \in Version
       /\ proc.target >= ledger.highest
       /\ proc.target = ledger.failed => proc.target \in Required
  /\ pc \in {"forget", "commit"} => Watched /\ Confirmed
  /\ pc \in {"rollback", "restore", "giveup"} =>
       Watched /\ ledger.attempts + 1 = maxHealthAttempts
  /\ pc = "backend" => proc.runs \in Version

(* What update-state.json says of the versions seen so far.                *)
Covered ==
  /\ Watched => ledger.pending \in Version /\ ledger.pending = ledger.highest
  /\ ledger.failed <= ledger.highest
  /\ \A b \in banned :
       b <= ledger.highest /\ (b = ledger.failed \/ b < ledger.highest)

IInv == TypeOK /\ InHand /\ Covered

(* A component of a version is an image.                                   *)
LEMMA BuildImage == \A v \in Version, c \in Component : Build[v][c] \in Image
BY DEF Image

(* The outcomes of replacing and rolling back are pairs of contents.       *)
LEMMA OutcomePairs ==
  ASSUME NEW d \in Content, NEW p \in Content, NEW n \in Content
  PROVE  /\ ReplaceDone(d, p, n) \subseteq Content \X Content
         /\ ReplaceKept(d, p) \subseteq Content \X Content
         /\ ReplaceCut(d, p, n) \subseteq Content \X Content
         /\ RollbackDone(d, p) \subseteq Content \X Content
         /\ RollbackCut(d, p) \subseteq Content \X Content
BY DEF Content, ReplaceDone, ReplaceKept, ReplaceCut, RollbackDone, RollbackCut

(* Taking one of those pairs keeps the types of the backend's files.       *)
LEMMA BackendPair ==
  ASSUME FilesOK, NEW S \in SUBSET (Content \X Content), Backend(S)
  PROVE  disk' \in [Component -> Content] /\ backup' \in Content
BY DEF FilesOK, Backend, Component

(* Swapping the shell keeps the types.                                     *)
LEMMA ShellSwapped ==
  ASSUME FilesOK, SwapShell \/ KeepShell
  PROVE  disk' \in [Component -> Content] /\ staged' \in [Locked -> Content]
<1>1. CASE SwapShell
  <2>1. staged["shell"] \in Content
    BY DEF FilesOK, Locked
  <2> QED BY <1>1, <2>1 DEF FilesOK, SwapShell, Content
<1>2. CASE KeepShell
  BY <1>2 DEF FilesOK, KeepShell
<1> QED BY <1>1, <1>2

(* What an unfinished replacement leaves has the types of files.           *)
LEMMA LeftBehindFiles ==
  ASSUME FilesOK, NEW c \in Component,
         NEW S \in SUBSET (Content \X Content), LeftBehind(c, S)
  PROVE  FilesOK'
<1>1. CASE c = "backend" /\ Backend(S) /\ UNCHANGED staged
  BY <1>1, BackendPair DEF FilesOK
<1>2. CASE c = "frontend" /\ UNCHANGED files
  BY <1>2 DEF FilesOK, files
<1>3. CASE c \in Locked
           /\ staged' \in {staged, [staged EXCEPT ![c] = None]}
           /\ UNCHANGED <<disk, backup>>
  BY <1>3 DEF FilesOK, Content
<1> QED BY <1>1, <1>2, <1>3 DEF LeftBehind

(* A trouble stays within its bound and its kinds.                         *)
LEMMA TroubleCounted ==
  ASSUME GhostsOK, NEW kind \in Harm, Trouble(kind)
  PROVE  trouble' \in 0..MaxTrouble /\ harm' \subseteq Harm
BY MaxTroubleNat DEF GhostsOK, Trouble

(* The initial state satisfies the invariant.                              *)
LEMMA IInvInit == Init => IInv
BY BuildImage, NewestNat, MaxTroubleNat
   DEF Init, IInv, TypeOK, FilesOK, RecordsOK, ProcessOK, GhostsOK, InHand,
       Covered, Watched, Version, Component, Locked, Content, Phase, Ledger, Memory,
       FreshProcess, maxHealthAttempts

(* Every step keeps the files' types.                                      *)
LEMMA FilesStep == IInv /\ [Next]_vars => FilesOK'
<1> SUFFICES ASSUME IInv, [Next]_vars PROVE FilesOK'
  OBVIOUS
<1> USE DEF IInv, TypeOK
<1>a. disk["backend"] \in Content /\ backup \in Content
  BY DEF FilesOK, Component
<1>b. pc = "apply" => \A c \in Component : Build[proc.target][c] \in Content
  BY BuildImage DEF InHand, Content
<1>c. \A c \in Component : Build[released][c] \in Content
  BY BuildImage DEF RecordsOK, Content
<1>1. CASE ApplyPending
  BY <1>1 DEF ApplyPending, FilesOK, Component, Locked, Content
<1>2. CASE ApplyShell
  BY <1>2, ShellSwapped DEF ApplyShell, FilesOK
<1>3. CASE BootstrapDone
  BY <1>3, <1>c DEF BootstrapDone, FilesOK
<1>4. CASE BootstrapFails
  BY <1>4, <1>c DEF BootstrapFails, FilesOK
<1>5. CASE OpenCommit
  BY <1>5 DEF OpenCommit, FilesOK, Content
<1>6. CASE RollBack
  BY <1>6, <1>a, OutcomePairs, BackendPair DEF RollBack, FilesOK
<1>7. ASSUME NEW c \in Component, ApplyOne(c) PROVE FilesOK'
  BY <1>7, <1>a, <1>b, OutcomePairs, BackendPair DEF ApplyOne, FilesOK
<1>8. CASE ApplyFails
  BY <1>8, <1>a, OutcomePairs, LeftBehindFiles DEF ApplyFails, FilesOK, ProcessOK, Memory, files
<1>9. CASE HandOver
  BY <1>9, ShellSwapped DEF HandOver, FilesOK
<1>10. CASE Crash
  <2>1. CASE UNCHANGED files
    BY <2>1 DEF FilesOK, files
  <2>2. CASE /\ disk' = [disk EXCEPT !["updater"] = None]
             /\ UNCHANGED <<backup, staged>>
    BY <2>2 DEF FilesOK, Content
  <2>3. CASE Backend(RollbackCut(disk["backend"], backup)) /\ UNCHANGED staged
    BY <2>3, <1>a, OutcomePairs, BackendPair DEF FilesOK
  <2>4. ASSUME pc = "apply", NEW c \in proc.todo,
               LeftBehind(c, ReplaceCut(disk["backend"], backup,
                                        Build[proc.target]["backend"]))
        PROVE  FilesOK'
    <3>1. c \in Component
      BY DEF ProcessOK, Memory
    <3>2. Build[proc.target]["backend"] \in Content
      BY <2>4, <1>b DEF Component
    <3> QED BY <2>4, <3>1, <3>2, <1>a, OutcomePairs, LeftBehindFiles
  <2> QED BY <1>10, <2>1, <2>2, <2>3, <2>4 DEF Crash
<1>11. ASSUME NEW c \in Component, Remove(c) PROVE FilesOK'
  BY <1>11 DEF Remove, FilesOK, Content
<1>12. CASE Launch \/ Enter \/ OpenQuiet \/ ForgetManifest \/ SaveCommit
           \/ OpenCount \/ OpenGiveUp \/ RestoreManifest \/ SaveGiveUp \/ Decline \/ WriteManifest \/ Record \/ Retry
           \/ CloseUpdater \/ HandOverLoaded \/ LoadBackend \/ MarkHealthy
           \/ ManualUpdate \/ Quit \/ Publish
           \/ (\E v \in Version : Accept(v)) \/ UNCHANGED vars
  BY <1>12 DEF Launch, Enter, OpenQuiet, ForgetManifest, SaveCommit, OpenCount,
     OpenGiveUp, RestoreManifest, SaveGiveUp, Accept, Decline, WriteManifest, Record, Retry,
     CloseUpdater, HandOverLoaded, LoadBackend, MarkHealthy, ManualUpdate,
     Quit, Publish, files, FilesOK, vars
<1> QED BY <1>1, <1>2, <1>3, <1>4, <1>5, <1>6, <1>7, <1>8, <1>9, <1>10, <1>11,
       <1>12 DEF Next, Proceed, Shell, Open, Install

(* The ways update-state.json is rewritten keep its type.                  *)
LEMMA LedgerWritten ==
  ASSUME NEW l \in Ledger
  PROVE  /\ \A f \in Phase : [l EXCEPT !.phase = f, !.attempts = 0] \in Ledger
         /\ \A f \in Phase, g \in 0..Newest :
              [l EXCEPT !.phase = f, !.attempts = 0, !.failed = g] \in Ledger
         /\ \A v \in 0..Newest, h \in 0..Newest, s \in BOOLEAN :
              [l EXCEPT !.phase = "swapped", !.pending = v, !.swaps = s,
                        !.attempts = 0, !.highest = h] \in Ledger
<1>1. 0 \in 0..(maxHealthAttempts - 1) /\ "swapped" \in Phase
  BY DEF maxHealthAttempts, Phase
<1> QED BY <1>1 DEF Ledger

(* Every step keeps the records' types.                                    *)
LEMMA RecordsStep == IInv /\ [Next]_vars => RecordsOK'
<1> SUFFICES ASSUME IInv, [Next]_vars PROVE RecordsOK'
  OBVIOUS
<1> USE NewestNat DEF IInv, TypeOK
<1>a. ledger \in Ledger
  BY DEF RecordsOK
<1>b. {"none", "committed"} \subseteq Phase
  BY DEF Phase
<1>c. ledger.pending \in 0..Newest
  BY DEF RecordsOK, Ledger
<1>1. CASE BootstrapDone
  BY <1>1 DEF BootstrapDone, RecordsOK
<1>2. CASE OpenQuiet
  BY <1>2 DEF OpenQuiet, Saves, Saved, KeysetFails, RecordsOK
<1>3. CASE SaveCommit
  <2>1. [ledger EXCEPT !.phase = "committed", !.attempts = 0] \in Ledger
    BY <1>a, <1>b, LedgerWritten
  <2> QED BY <1>3, <2>1 DEF SaveCommit, Saves, Saved, KeysetFails, RecordsOK
<1>4. CASE OpenCount
  BY <1>4 DEF OpenCount, Ledger, maxHealthAttempts, Saves, Saved,
     KeysetFails, RecordsOK
<1>5. CASE SaveGiveUp
  <2>1. [ledger EXCEPT !.phase = "none", !.attempts = 0,
                       !.failed = ledger.pending] \in Ledger
    BY <1>a, <1>b, <1>c, LedgerWritten
  <2> QED BY <1>5, <2>1 DEF SaveGiveUp, Saved, KeysetFails, RecordsOK
<1>6. ASSUME NEW v \in Version, Accept(v) PROVE RecordsOK'
  BY <1>6 DEF Accept, RecordsOK
<1>7. CASE WriteManifest \/ ForgetManifest \/ RestoreManifest
  BY <1>7 DEF WriteManifest, ForgetManifest, RestoreManifest, InHand, RecordsOK
<1>8. CASE Record
  <2>1. proc.target \in 0..Newest /\ proc.swaps \in BOOLEAN
    BY DEF ProcessOK, Memory
  <2>2. ledger.highest \in 0..Newest
    BY DEF RecordsOK, Ledger
  <2> DEFINE h == IF proc.target > ledger.highest THEN proc.target
                    ELSE ledger.highest
  <2>3. h \in 0..Newest
    BY <2>1, <2>2
  <2>5. [ledger EXCEPT !.phase = "swapped", !.pending = proc.target,
                       !.swaps = proc.swaps, !.attempts = 0, !.highest = h]
          \in Ledger
    <3> HIDE DEF h
    <3> QED BY <1>a, <2>1, <2>3, LedgerWritten
  <2>6. ledger' \in Ledger
    BY <1>8, <1>a, <2>5 DEF Record
  <2>4. health' \in [version : 0..Newest, fresh : BOOLEAN]
    BY <1>8 DEF Record, RecordsOK
  <2> QED BY <1>8, <2>6, <2>4 DEF Record, RecordsOK
<1>9. CASE MarkHealthy
  BY <1>9 DEF MarkHealthy, InHand, RecordsOK, Version
<1>10. CASE Publish
  <2>1. released \in 1..Newest /\ released < Newest /\ released' = released + 1
    BY <1>10 DEF Publish, RecordsOK, Version
  <2>2. released' \in Version
    BY <2>1 DEF Version
  <2> QED BY <1>10, <2>2 DEF Publish, RecordsOK, records
<1>11. CASE Launch \/ ApplyPending \/ ApplyShell \/ Enter \/ BootstrapFails
           \/ OpenCommit \/ OpenGiveUp \/ RollBack \/ Decline \/ ApplyFails
           \/ Retry \/ CloseUpdater \/ HandOver \/ HandOverLoaded \/ LoadBackend
           \/ ManualUpdate \/ Quit \/ Crash
           \/ (\E c \in Component : ApplyOne(c))
           \/ (\E c \in Component : Remove(c)) \/ UNCHANGED vars
  BY <1>11 DEF Launch, ApplyPending, ApplyShell, Enter, BootstrapFails,
     OpenCommit, OpenGiveUp, RollBack, Decline, ApplyOne, ApplyFails, Retry,
     CloseUpdater, HandOver, HandOverLoaded, LoadBackend, ManualUpdate, Quit,
     Crash, Remove, records, RecordsOK, vars
<1> QED BY <1>1, <1>2, <1>3, <1>4, <1>5, <1>6, <1>7, <1>8, <1>9, <1>10, <1>11
       DEF Next, Proceed, Shell, Open, Install

(* A new process remembers nothing.                                        *)
LEMMA FreshProcessOK ==
  FreshProcess \in Memory
BY NewestNat DEF FreshProcess, Memory, Content

(* Every step keeps the type of the process's memory.                      *)
LEMMA ProcessStep == IInv /\ [Next]_vars => ProcessOK'
<1> SUFFICES ASSUME IInv, [Next]_vars PROVE ProcessOK'
  OBVIOUS
<1> USE NewestNat, FreshProcessOK DEF IInv, TypeOK
<1>a. manifest \in 0..Newest
  BY DEF RecordsOK, Version
<1>b. disk["backend"] \in Content
  BY DEF FilesOK, Component
<1>1. CASE Launch
  BY <1>1 DEF Launch, Relaunch, ProcessOK
<1>2. CASE ApplyShell
  BY <1>2 DEF ApplyShell, Relaunch, ProcessOK
<1>3. CASE BootstrapDone
  BY <1>3 DEF BootstrapDone, Relaunch, ProcessOK
<1>4. CASE OpenQuiet
  BY <1>4, <1>a DEF OpenQuiet, ReadsLocal, Saves, Saved, KeysetFails,
     ProcessOK, Memory
<1>5. CASE OpenCommit
  BY <1>5, <1>a DEF OpenCommit, ReadsLocal, ProcessOK, Memory
<1>6. CASE OpenCount
  BY <1>6, <1>a DEF OpenCount, ReadsLocal, Saves, Saved, KeysetFails,
     ProcessOK, Memory
<1>7. CASE OpenGiveUp
  BY <1>7, <1>a DEF OpenGiveUp, ReadsLocal, ProcessOK, Memory
<1>8. CASE ForgetManifest \/ SaveCommit \/ RestoreManifest \/ SaveGiveUp
  BY <1>8 DEF ForgetManifest, SaveCommit, RestoreManifest, SaveGiveUp, Saves, Saved,
     KeysetFails, ProcessOK
<1>9. ASSUME NEW v \in Version, Accept(v) PROVE ProcessOK'
  <2>1. PICK extra \in {Missing, {}} :
          proc' = [proc EXCEPT !.target = v,
                               !.todo = Diff(proc.local, v) \union extra,
                               !.swaps = "backend" \in Diff(proc.local, v) \union extra]
    BY <1>9 DEF Accept
  <2>2. v \in 0..Newest /\ Diff(proc.local, v) \union extra \in SUBSET Component
    BY DEF Diff, Missing, Version
  <2>3. ("backend" \in Diff(proc.local, v) \union extra) \in BOOLEAN
    OBVIOUS
  <2>4. proc' \in Memory
    BY <2>1, <2>2, <2>3 DEF ProcessOK, Memory
  <2> QED BY <1>9, <2>4 DEF Accept, ProcessOK
<1>10. ASSUME NEW c \in Component, ApplyOne(c) PROVE ProcessOK'
  BY <1>10 DEF ApplyOne, ProcessOK, Memory
<1>11. CASE HandOver
  BY <1>11 DEF HandOver, Relaunch, ProcessOK
<1>12. CASE HandOverLoaded
  BY <1>12 DEF HandOverLoaded, Relaunch, ProcessOK
<1>13. CASE LoadBackend
  BY <1>13, <1>a, <1>b DEF LoadBackend, ProcessOK, Memory
<1>14. CASE ManualUpdate
  BY <1>14, <1>a DEF ManualUpdate, ProcessOK, Memory
<1>15. CASE Quit
  BY <1>15 DEF Quit, ProcessOK
<1>16. CASE Crash
  BY <1>16 DEF Crash, ProcessOK
<1>17. CASE ApplyPending \/ Enter \/ BootstrapFails \/ RollBack \/ Decline
           \/ ApplyFails \/ WriteManifest \/ Record \/ Retry \/ CloseUpdater
           \/ MarkHealthy \/ Publish \/ (\E c \in Component : Remove(c))
           \/ UNCHANGED vars
  BY <1>17 DEF ApplyPending, Enter, BootstrapFails, RollBack, Decline,
     ApplyFails, WriteManifest, Record, Retry, CloseUpdater, MarkHealthy,
     Publish, Remove, ProcessOK, vars
<1> QED BY <1>1, <1>2, <1>3, <1>4, <1>5, <1>6, <1>7, <1>8, <1>9, <1>10,
       <1>11, <1>12, <1>13, <1>14, <1>15, <1>16, <1>17 DEF Next, Proceed,
       Shell, Open, Install

(* Every step keeps the ghosts' types and the bound on the troubles.       *)
LEMMA GhostsStep == IInv /\ [Next]_vars => GhostsOK'
<1> SUFFICES ASSUME IInv, [Next]_vars PROVE GhostsOK'
  OBVIOUS
<1> USE DEF IInv, TypeOK
<1>1. CASE ApplyPending
  BY <1>1, TroubleCounted DEF ApplyPending, Quiet, GhostsOK, Harm
<1>2. CASE ApplyShell
  BY <1>2, TroubleCounted DEF ApplyShell, KeepShell, Quiet, GhostsOK, Harm
<1>3. CASE BootstrapDone
  BY <1>3, MaxTroubleNat DEF BootstrapDone, GhostsOK, Harm
<1>4. CASE BootstrapFails
  BY <1>4 DEF BootstrapFails, GhostsOK, Harm
<1>5. CASE OpenQuiet
  BY <1>5, TroubleCounted DEF OpenQuiet, Saves, Saved, KeysetFails, Quiet,
     GhostsOK, Harm
<1>6. CASE OpenCommit \/ ForgetManifest \/ SaveCommit
  BY <1>6, TroubleCounted DEF OpenCommit, ForgetManifest, SaveCommit, Saves, Saved,
     KeysetFails, Quiet, GhostsOK, Harm
<1>7. CASE OpenCount
  BY <1>7, TroubleCounted DEF OpenCount, Saves, Saved, KeysetFails, Quiet,
     GhostsOK, Harm
<1>8. CASE RollBack
  BY <1>8, TroubleCounted DEF RollBack, Quiet, GhostsOK, Harm
<1>9. CASE RestoreManifest \/ SaveGiveUp
  BY <1>9, TroubleCounted DEF RestoreManifest, SaveGiveUp, Saved, KeysetFails, Quiet,
     InHand, Covered, GhostsOK, Harm
<1>10. ASSUME NEW v \in Version, Accept(v) PROVE GhostsOK'
  BY <1>10 DEF Accept, GhostsOK, Harm
<1>11. CASE ApplyFails
  BY <1>11, TroubleCounted DEF ApplyFails, GhostsOK, Harm
<1>12. CASE Record
  BY <1>12, TroubleCounted DEF Record, GhostsOK, Harm
<1>13. CASE HandOver
  BY <1>13, TroubleCounted DEF HandOver, KeepShell, Quiet, GhostsOK, Harm
<1>14. CASE HandOverLoaded
  BY <1>14, TroubleCounted DEF HandOverLoaded, Quiet, GhostsOK, Harm
<1>15. CASE MarkHealthy
  BY <1>15 DEF MarkHealthy, InHand, Quiet, GhostsOK
<1>16. CASE Crash
  BY <1>16, TroubleCounted DEF Crash, GhostsOK, Harm
<1>17. ASSUME NEW c \in Component, Remove(c) PROVE GhostsOK'
  BY <1>17, TroubleCounted DEF Remove, GhostsOK, Harm
<1>18. CASE Launch \/ Enter \/ OpenGiveUp \/ Decline \/ WriteManifest \/ Retry
           \/ CloseUpdater \/ LoadBackend \/ ManualUpdate \/ Quit \/ Publish
           \/ (\E c \in Component : ApplyOne(c)) \/ UNCHANGED vars
  BY <1>18 DEF Launch, Enter, OpenGiveUp, Decline, ApplyOne, WriteManifest,
     Retry, CloseUpdater, LoadBackend, ManualUpdate, Quit, Publish, Quiet,
     GhostsOK, ghosts, vars
<1> QED BY <1>1, <1>2, <1>3, <1>4, <1>5, <1>6, <1>7, <1>8, <1>9, <1>10,
       <1>11, <1>12, <1>13, <1>14, <1>15, <1>16, <1>17, <1>18 DEF Next,
       Proceed, Shell, Open, Install

(* Every step keeps what the process has in hand.                          *)
LEMMA InHandStep == IInv /\ [Next]_vars => InHand'
<1> SUFFICES ASSUME IInv, [Next]_vars PROVE InHand'
  OBVIOUS
<1> USE DEF IInv, TypeOK
<1>1. ASSUME NEW v \in Version, Accept(v) PROVE InHand'
  <2>1. proc'.target = v /\ pc' = "apply" /\ UNCHANGED ledger
    BY <1>1 DEF Accept, ProcessOK, Memory
  <2> QED BY <1>1, <2>1 DEF Accept, Acceptable, InHand
<1>2. ASSUME NEW c \in Component, ApplyOne(c) PROVE InHand'
  <2>1. proc'.target = proc.target /\ UNCHANGED <<pc, ledger>> /\ pc = "apply"
    BY <1>2 DEF ApplyOne, ProcessOK, Memory, records
  <2> QED BY <2>1 DEF InHand
<1>3. CASE WriteManifest
  BY <1>3 DEF WriteManifest, InHand
<1>4. CASE OpenGiveUp
  <2>1. ledger.attempts \in 0..(maxHealthAttempts - 1)
    BY DEF RecordsOK, Ledger
  <2>2. ledger.attempts + 1 = maxHealthAttempts
    BY <1>4, <2>1 DEF OpenGiveUp, maxHealthAttempts
  <2> QED BY <1>4, <2>2 DEF OpenGiveUp, InHand, Watched, records
<1>5. CASE RollBack \/ RestoreManifest
  BY <1>5 DEF RollBack, RestoreManifest, InHand, Watched, records
<1>9. CASE OpenCommit \/ ForgetManifest
  BY <1>9 DEF OpenCommit, ForgetManifest, InHand, Watched, Confirmed, records
<1>6. CASE LoadBackend
  <2>1. proc'.runs = manifest /\ pc' \in {"fatal", "backend"}
    BY <1>6 DEF LoadBackend, ProcessOK, Memory
  <2> QED BY <2>1 DEF InHand, RecordsOK
<1>7. CASE MarkHealthy \/ Publish \/ (\E c \in Component : Remove(c))
          \/ UNCHANGED vars
  <2>1. UNCHANGED <<pc, proc, ledger>>
    BY <1>7 DEF MarkHealthy, Publish, Remove, records, vars
  <2>2. (pc \in {"forget", "commit"} /\ Confirmed) => Confirmed'
    BY <1>7, <2>1 DEF MarkHealthy, Publish, Remove, Confirmed, records, vars
  <2> QED BY <2>1, <2>2 DEF InHand, Watched
<1>8. CASE Launch \/ ApplyPending \/ ApplyShell \/ Enter \/ BootstrapDone
          \/ BootstrapFails \/ OpenQuiet \/ SaveCommit \/ OpenCount
          \/ SaveGiveUp \/ Decline \/ ApplyFails \/ Record \/ Retry
          \/ CloseUpdater \/ HandOver \/ HandOverLoaded \/ ManualUpdate
          \/ Quit \/ Crash
  <2>1. pc' \notin {"apply", "record", "forget", "commit", "rollback", "restore",
                   "giveup", "backend"}
    BY <1>8 DEF Launch, ApplyPending, ApplyShell, Enter, BootstrapDone,
       BootstrapFails, OpenQuiet, SaveCommit, OpenCount, SaveGiveUp,
       Decline, ApplyFails, Record, Retry, CloseUpdater, HandOver,
       HandOverLoaded, ManualUpdate, Quit, Crash, Relaunch, Saves, Saved,
       KeysetFails
  <2> QED BY <2>1 DEF InHand
<1> QED BY <1>1, <1>2, <1>3, <1>4, <1>5, <1>6, <1>7, <1>8, <1>9 DEF Next, Proceed,
       Shell, Open, Install

(* The steps that leave update-state.json alone, and the five that do not. *)
LEMMA LedgerChanges ==
  ASSUME [Next]_vars
  PROVE  \/ UNCHANGED <<ledger, banned>>
         \/ OpenQuiet \/ SaveCommit \/ OpenCount \/ SaveGiveUp \/ Record
<1>1. CASE Launch \/ ApplyPending \/ ApplyShell \/ Enter \/ BootstrapDone
          \/ BootstrapFails \/ HandOver \/ HandOverLoaded \/ LoadBackend
          \/ OpenCommit \/ ForgetManifest \/ OpenGiveUp \/ RollBack
          \/ RestoreManifest
  BY <1>1 DEF Launch, ApplyPending, ApplyShell, Enter, BootstrapDone,
     BootstrapFails, HandOver, HandOverLoaded, LoadBackend, OpenCommit,
     ForgetManifest, OpenGiveUp, RollBack, RestoreManifest, records
<1>2. CASE (\E v \in Version : Accept(v)) \/ Decline
          \/ (\E c \in Component : ApplyOne(c)) \/ ApplyFails \/ WriteManifest
  BY <1>2 DEF Accept, Decline, ApplyOne, ApplyFails, WriteManifest, records
<1>3. CASE Retry \/ CloseUpdater \/ MarkHealthy \/ ManualUpdate \/ Quit
          \/ Crash \/ Publish \/ (\E c \in Component : Remove(c))
          \/ UNCHANGED vars
  BY <1>3 DEF Retry, CloseUpdater, MarkHealthy, ManualUpdate, Quit, Crash,
     Publish, Remove, records, ghosts, vars
<1> QED BY <1>1, <1>2, <1>3 DEF Next, Proceed, Shell, Open, Install

(* How update-state.json itself may change.                                *)
Began(v) ==
  /\ v \in Version /\ v >= ledger.highest
  /\ v = ledger.failed => v \in Required
  /\ ledger'.phase = "swapped" /\ ledger'.pending = v /\ ledger'.attempts = 0
  /\ ledger'.highest = v /\ ledger'.failed = ledger.failed
  /\ UNCHANGED banned

Committed ==
  /\ Watched
  /\ ledger'.phase = "committed" /\ ledger'.pending = ledger.pending
  /\ ledger'.attempts = 0 /\ ledger'.highest = ledger.highest
  /\ ledger'.failed = ledger.failed
  /\ UNCHANGED banned

Counted ==
  /\ Watched
  /\ ledger.attempts + 1 < maxHealthAttempts
  /\ ledger'.phase = ledger.phase /\ ledger'.pending = ledger.pending
  /\ ledger'.attempts = ledger.attempts + 1
  /\ ledger'.highest = ledger.highest /\ ledger'.failed = ledger.failed
  /\ UNCHANGED banned

GivenUp ==
  /\ Watched
  /\ ledger.attempts + 1 = maxHealthAttempts
  /\ ledger'.phase = "none" /\ ledger'.pending = ledger.pending
  /\ ledger'.attempts = 0 /\ ledger'.highest = ledger.highest
  /\ ledger'.failed = ledger.pending
  /\ banned' = banned \union {ledger.pending}

(* Every step leaves update-state.json, or begins a trial, commits, counts *)
(* a start or gives up: the crashes, failed saves and reinstallations too. *)
LEMMA LedgerMoves ==
  ASSUME IInv, [Next]_vars
  PROVE  \/ UNCHANGED <<ledger, banned>>
         \/ (\E v \in Version : Began(v)) \/ Committed \/ Counted \/ GivenUp
<1> USE DEF IInv, TypeOK
<1>a. ledger \in Ledger
  BY DEF RecordsOK
<1>1. CASE OpenQuiet
  BY <1>1 DEF OpenQuiet, Saves, Saved, KeysetFails
<1>2. CASE SaveCommit
  <2>1. ASSUME ledger' = [ledger EXCEPT !.phase = "committed", !.attempts = 0]
        PROVE  Committed
    BY <1>2, <1>a, <2>1 DEF SaveCommit, InHand, Committed, Ledger
  <2> QED BY <1>2, <2>1 DEF SaveCommit, Saves, Saved, KeysetFails
<1>3. CASE OpenCount
  <2>1. ASSUME ledger' = [ledger EXCEPT !.attempts = ledger.attempts + 1]
        PROVE  Counted
    BY <1>3, <1>a, <2>1 DEF OpenCount, Counted, Ledger
  <2> QED BY <1>3, <2>1 DEF OpenCount, Saves, Saved, KeysetFails
<1>4. CASE SaveGiveUp
  <2>1. pc = "giveup"
    BY <1>4 DEF SaveGiveUp
  <2>2. CASE ledger' = [ledger EXCEPT !.phase = "none", !.attempts = 0,
                                      !.failed = ledger.pending]
             /\ banned' = banned \union {ledger.pending}
    BY <1>a, <2>1, <2>2 DEF GivenUp, Ledger, InHand
  <2> QED BY <1>4, <2>2 DEF SaveGiveUp, Saved, KeysetFails
<1>5. CASE Record
  <2>1. /\ proc.target \in Version /\ proc.target >= ledger.highest
        /\ proc.target = ledger.failed => proc.target \in Required
    BY <1>5 DEF Record, InHand
  <2>2. ledger.highest \in Nat /\ proc.target \in Nat
    BY <1>a, <2>1, NewestNat DEF Ledger, Version
  <2>3. (IF proc.target > ledger.highest THEN proc.target ELSE ledger.highest)
          = proc.target
    BY <2>1, <2>2
  <2>4. CASE ledger' = [ledger EXCEPT !.phase = "swapped",
                                      !.pending = proc.target,
                                      !.swaps = proc.swaps, !.attempts = 0,
                                      !.highest = proc.target]
             /\ UNCHANGED banned
    BY <1>a, <2>1, <2>4 DEF Began, Ledger
  <2> QED BY <1>5, <2>3, <2>4 DEF Record
<1> QED BY <1>1, <1>2, <1>3, <1>4, <1>5, LedgerChanges

(* Every step keeps what update-state.json says of the versions seen.      *)
LEMMA CoveredStep == IInv /\ [Next]_vars => Covered'
<1> SUFFICES ASSUME IInv, [Next]_vars PROVE Covered'
  OBVIOUS
<1> USE DEF IInv, TypeOK
<1>a. /\ ledger.highest \in Nat /\ ledger.failed \in Nat
      /\ ledger.pending \in Nat /\ Version \subseteq Nat
      /\ banned \subseteq Version
  BY NewestNat DEF RecordsOK, GhostsOK, Ledger, Version
<1>1. CASE UNCHANGED <<ledger, banned>>
  BY <1>1 DEF Covered, Watched
<1>2. ASSUME NEW v \in Version, Began(v) PROVE Covered'
  BY <1>2, <1>a DEF Began, Covered, Watched
<1>3. CASE Committed \/ Counted
  BY <1>3, <1>a DEF Committed, Counted, Covered, Watched
<1>4. CASE GivenUp
  BY <1>4, <1>a DEF GivenUp, Covered, Watched
<1> QED BY <1>1, <1>2, <1>3, <1>4, LedgerMoves

(* The invariant is inductive.                                             *)
LEMMA IInvStep == IInv /\ [Next]_vars => IInv'
BY FilesStep, RecordsStep, ProcessStep, GhostsStep, InHandStep, CoveredStep
   DEF IInv, TypeOK

(* Files, records and memory stay in their types; the counter of starts    *)
(* stays below its limit and every version handled is a real one.          *)
THEOREM TypeCorrect == Spec => []TypeOK
<1>1. IInv => TypeOK
  BY DEF IInv
<1> QED BY <1>1, IInvInit, IInvStep, PTL DEF Spec

(* A version once rolled back from is never installed again, unless its    *)
(* manifest requires it, whatever crashes, lost files, failed writes,      *)
(* reinstallations and newer versions came in between.                     *)
THEOREM NeverAgain == Spec => FailedStaysOut
<1>1. ASSUME IInv, [Next]_vars
      PROVE  [\A v \in banned \ Required : ~InstallsVersion(v)]_vars
  <2> SUFFICES ASSUME NEW w \in banned \ Required, InstallsVersion(w)
               PROVE  FALSE
    OBVIOUS
  <2> USE DEF IInv, TypeOK
  <2>1. pc = "check" /\ pc' = "apply" /\ proc'.target = w
    BY DEF InstallsVersion
  <2>2. PICK v \in Version : Accept(v)
    <3>1. ASSUME ~(\E v \in Version : Accept(v)) PROVE pc' # "apply" \/ pc # "check"
      BY <1>1, <3>1 DEF Next, Proceed, Shell, Open, Install, vars, Launch,
         ApplyPending, ApplyShell, Enter, BootstrapDone, BootstrapFails,
         OpenQuiet, OpenCommit, ForgetManifest, SaveCommit, OpenCount,
         OpenGiveUp, RollBack, RestoreManifest, SaveGiveUp, Decline, ApplyOne, ApplyFails, WriteManifest,
         Record, Retry, CloseUpdater, HandOver, HandOverLoaded, LoadBackend,
         MarkHealthy, ManualUpdate, Quit, Crash, Publish, Remove, Saves, Saved,
         KeysetFails
    <3> QED BY <2>1, <3>1
  <2>3. proc'.target = v
    BY <1>1, <2>2 DEF Accept, ProcessOK, Memory
  <2>4. /\ w >= ledger.highest
        /\ w = ledger.failed => w \in Required
    BY <2>1, <2>2, <2>3 DEF Accept, Acceptable
  <2>5. w <= ledger.highest /\ (w = ledger.failed \/ w < ledger.highest)
    BY <1>1 DEF Covered
  <2>6. w \in Nat /\ ledger.highest \in Nat
    BY <1>1, NewestNat DEF RecordsOK, GhostsOK, Ledger, Version
  <2> QED BY <2>4, <2>5, <2>6
<1> QED BY <1>1, IInvInit, IInvStep, PTL DEF Spec, FailedStaysOut

(* The many-start, crashing, file-moving launcher keeps in                 *)
(* update-state.json a history that the abstract ledger allows.            *)
THEOREM KeepsLedger == Spec => LedgerPromise
<1>1. Init => Trial!LedgerInit
  BY DEF Init, Trial!LedgerInit
<1>2. ASSUME IInv, [Next]_vars PROVE [Trial!LedgerNext]_(Trial!ledgerVars)
  <2>1. ASSUME UNCHANGED <<ledger, banned>> PROVE UNCHANGED Trial!ledgerVars
    BY <2>1 DEF Trial!ledgerVars
  <2>2. ASSUME NEW v \in Version, Began(v) PROVE Trial!LedgerNext
    BY <2>2 DEF Began, Trial!LedgerNext, Trial!Begin
  <2>3. ASSUME Committed PROVE Trial!LedgerNext
    BY <2>3 DEF Committed, Watched, Trial!LedgerNext, Trial!Confirm
  <2>4. ASSUME Counted PROVE Trial!LedgerNext
    BY <2>4 DEF Counted, Watched, Trial!LedgerNext, Trial!Count
  <2>5. ASSUME GivenUp PROVE Trial!LedgerNext
    BY <2>5 DEF GivenUp, Watched, Trial!LedgerNext, Trial!GiveUp
  <2> QED BY <1>2, <2>1, <2>2, <2>3, <2>4, <2>5, LedgerMoves
<1> QED BY <1>1, <1>2, IInvInit, IInvStep, PTL
       DEF Spec, LedgerPromise, Trial!LedgerSpec
===============================================================================
