-------------------------- MODULE LauncherFiles_proofs --------------------------
(***************************************************************************)
(* Theorems of LauncherUpdate about the files: as long as no write was cut *)
(* short, lost or skipped, the manifests tell the truth about the backend, *)
(* about the backup beside it and about the other components, for every    *)
(* content of every version.                                               *)
(***************************************************************************)
EXTENDS LauncherUpdate_proofs

(* No write failed so far; Mild: and every process that had to start did.  *)
Calm == harm \subseteq {"keyset", "overlap", "died", "stuck"}
Mild == harm \subseteq {"keyset", "overlap", "died"}

BackendOf(v) == Build[v]["backend"]

(* The way back from version v: the manifest before it, and the backend    *)
(* that manifest describes, under .previous or never replaced.             *)
WayBack(v, swaps) ==
  /\ manifestPrev \in Version /\ manifestPrev < v
  /\ IF swaps THEN backup = BackendOf(manifestPrev)
              ELSE BackendOf(manifestPrev) = BackendOf(v)

(* A trial is on; or it was confirmed, or given up, and that is not saved  *)
(* yet, or could not be, so that the next start finds it on again.         *)
TrialOn == manifest = ledger.pending /\ WayBack(manifest, ledger.swaps)

TrialOver == manifest = ledger.pending /\ Confirmed

TrialLost ==
  /\ manifest < ledger.pending /\ manifestPrev = manifest
  /\ ledger.swaps => backup = None
  /\ ~Confirmed
  /\ ledger.attempts + 1 = maxHealthAttempts
  /\ pc # "check"

TrialState ==
  Watched /\ pc \notin {"apply", "record", "restore"}
    => TrialOn \/ TrialOver \/ TrialLost

(* A trial given up: half way through a rollback.                          *)
GivingUp ==
  /\ pc \in {"rollback", "restore", "giveup"} => ~Confirmed
  /\ pc = "giveup" => manifest < ledger.pending
  /\ pc = "restore" =>
       /\ manifestPrev \in Version /\ manifestPrev < ledger.pending
       /\ ledger.swaps => backup = None

(* The manifest names the installed backend, but for the steps between.    *)
DiskState ==
  /\ pc \notin {"apply", "restore"} => disk["backend"] = BackendOf(manifest)
  /\ pc = "restore" => disk["backend"] = BackendOf(manifestPrev)
  /\ pc = "apply" =>
       disk["backend"] = IF "backend" \in proc.todo THEN BackendOf(manifest)
                                                    ELSE BackendOf(proc.target)

(* The way back is laid while the new version is put in place.             *)
Installing ==
  /\ pc = "apply" =>
       /\ manifestPrev = manifest /\ manifest < proc.target
       /\ "backend" \in proc.todo => proc.swaps
       /\ "backend" \notin proc.todo /\ proc.swaps => backup = BackendOf(manifest)
       /\ ~proc.swaps => BackendOf(manifest) = BackendOf(proc.target)
  /\ pc = "record" => manifest = proc.target /\ WayBack(proc.target, proc.swaps)

(* The loaded library is the backend of the manifest it was loaded under.  *)
HasLoaded(v) == proc.loaded # None => v \in Version /\ proc.loaded = BackendOf(v)

Running ==
  /\ pc # "failed"
  /\ pc \in {"off", "libs", "shell", "entry", "bootstrap"} => proc.loaded = None
  /\ pc = "backend" => proc.runs = manifest
  /\ Mild =>
       /\ pc \in {"backend", "loading"} => HasLoaded(manifest)
       /\ pc = "backend" => proc.loaded # None
       /\ pc \in {"updater", "forget", "commit", "rollback", "restore", "giveup",
                  "check", "apply", "record", "handover"} => HasLoaded(proc.before)
       /\ health.fresh => health.version \in proved

(* The other components stand as version v says, installed or staged.      *)
StandsAs(c, v) ==
  IF c \in Locked /\ staged[c] # None THEN staged[c] = Build[v][c]
                                      ELSE disk[c] = Build[v][c]

Others == Component \ {"backend"}

Whole ==
  banned = {} =>
    /\ pc = "apply" => \A c \in Others :
         StandsAs(c, IF c \in proc.todo THEN manifest ELSE proc.target)
    /\ pc # "apply" /\ (Watched /\ pc # "record" => manifest >= ledger.pending)
         => \A c \in Others : StandsAs(c, manifest)

Backends == TrialState /\ GivingUp /\ DiskState /\ Installing

CInv == Calm => Backends /\ Running /\ Whole

(* Troubles are never forgotten.                                           *)
LEMMA HarmGrows == ASSUME [Next]_vars PROVE harm \subseteq harm'
<1>1. CASE Shell
  BY <1>1 DEF Shell, ApplyPending, ApplyShell, KeepShell, Enter,
     BootstrapFails, HandOver, HandOverLoaded, LoadBackend, Quiet, Trouble
<1>2. CASE Open
  BY <1>2 DEF Open, OpenQuiet, OpenCommit, ForgetManifest, SaveCommit, OpenCount,
     OpenGiveUp, RollBack, RestoreManifest, SaveGiveUp, Saves, Saved, KeysetFails,
     Quiet, Trouble
<1>3. CASE Install
  BY <1>3 DEF Install, Accept, Decline, ApplyOne, ApplyFails, WriteManifest,
     Record, Quiet, Trouble
<1>4. CASE BootstrapDone \/ Launch \/ Retry \/ CloseUpdater \/ MarkHealthy
           \/ ManualUpdate \/ Quit \/ Crash \/ Publish
           \/ (\E c \in Component : Remove(c)) \/ UNCHANGED vars
  BY <1>4 DEF BootstrapDone, Launch, Retry, CloseUpdater, MarkHealthy,
     ManualUpdate, Quit, Crash, Publish, Remove, Quiet, Trouble, vars, ghosts
<1> QED BY <1>1, <1>2, <1>3, <1>4 DEF Next, Proceed

(* A step between two places where nothing is half done, which leaves the  *)
(* backend, its backup and the records alone.                              *)
Between == {"off", "libs", "shell", "entry", "bootstrap", "updater", "failed",
            "handover", "loading", "backend", "fatal"}

Leaving == Between \union {"check", "forget", "commit"}

LEMMA IdleStep ==
  ASSUME Backends,
         pc \in Leaving, pc' \in Between,
         UNCHANGED <<disk["backend"], backup, manifest, manifestPrev, ledger, health>>
  PROVE  Backends'
<1> USE DEF Backends, Between, Leaving
<1>1. TrialState'
  BY DEF TrialState, Watched, TrialOn, TrialOver, TrialLost, WayBack, Confirmed
<1>2. GivingUp' /\ DiskState' /\ Installing'
  BY DEF GivingUp, DiskState, Installing
<1> QED BY <1>1, <1>2

(* A step that only changes what the process remembers of other things.    *)
LEMMA SameStep ==
  ASSUME Backends, harm' = harm, pc' = pc, proc' = proc,
         UNCHANGED <<disk["backend"], backup, manifest, manifestPrev, ledger, health>>
  PROVE  Backends'
BY DEF Backends, TrialState, Watched, TrialOn, TrialOver, TrialLost, WayBack,
   Confirmed, GivingUp, DiskState, Installing

(* The steps between such places.                                          *)
Moving ==
  \/ Launch \/ ApplyPending \/ ApplyShell \/ Enter \/ BootstrapFails \/ Decline
  \/ Retry \/ CloseUpdater \/ HandOver \/ HandOverLoaded \/ LoadBackend
  \/ ManualUpdate \/ Quit \/ Crash

(* They leave the backend and the records alone, while no write fails.     *)
LEMMA MovingIsIdle ==
  ASSUME IInv, Moving, Calm'
  PROVE  /\ pc \in Leaving /\ pc' \in Between
         /\ UNCHANGED <<disk["backend"], backup, manifest, manifestPrev, ledger, health>>
         /\ UNCHANGED <<proved, banned>>
<1> USE DEF Between, Leaving, Locked, Component, files, records
<1>f. FilesOK /\ pc \in {"off", "libs", "shell", "entry", "bootstrap", "updater",
         "forget", "commit", "rollback", "restore", "giveup", "check", "apply", "record", "failed", "handover",
         "loading", "backend", "fatal"}
  BY DEF IInv, TypeOK, ProcessOK
<1>1. CASE Launch \/ Enter \/ Decline \/ Retry \/ CloseUpdater \/ HandOverLoaded
           \/ LoadBackend \/ ManualUpdate
  BY <1>1 DEF Launch, Enter, Decline, Retry, CloseUpdater, HandOverLoaded,
     LoadBackend, ManualUpdate, Relaunch
<1>2. CASE ApplyPending
  BY <1>2, <1>f DEF ApplyPending, FilesOK
<1>3. CASE ApplyShell
  BY <1>3, <1>f DEF ApplyShell, SwapShell, KeepShell, FilesOK, Relaunch
<1>4. CASE HandOver
  BY <1>4, <1>f DEF HandOver, SwapShell, KeepShell, FilesOK, Relaunch
<1>5. CASE BootstrapFails
  BY <1>5, <1>f DEF BootstrapFails, FilesOK, Calm
<1>6. CASE Quit
  BY <1>6 DEF Quit, Waiting
<1>7. CASE Crash
  <2>1. Trouble(IF pc \in {"entry", "updater", "forget", "commit", "loading"} THEN "died" ELSE "cut")
    BY <1>7 DEF Crash
  <2>2. pc \in {"entry", "updater", "forget", "commit", "loading"}
    BY <2>1 DEF Trouble, Calm
  <2> QED BY <1>7, <2>2 DEF Crash
<1> QED BY <1>1, <1>2, <1>3, <1>4, <1>5, <1>6, <1>7 DEF Moving

(* The files and the records stay in step at every start and end.          *)
LEMMA MovingBackends ==
  ASSUME IInv, [Next]_vars, Backends, Moving, Calm'
  PROVE  Backends'
BY MovingIsIdle, IdleStep

(* Quiet start, commit, count.                                             *)
Committing == OpenCommit \/ ForgetManifest \/ SaveCommit

LEMMA OpeningBackends ==
  ASSUME IInv, Backends, OpenQuiet \/ Committing \/ OpenCount \/ OpenGiveUp
  PROVE  Backends'
<1> USE DEF Backends
<1>a. ledger \in Ledger
  BY DEF IInv, TypeOK, RecordsOK
<1>1. CASE OpenQuiet
  <2>1. /\ UNCHANGED <<disk, backup, manifest, manifestPrev, ledger, health>>
        /\ pc = "updater" /\ pc' \in {"check", "handover"} /\ ~Watched
    BY <1>1 DEF OpenQuiet, Saves, Saved, KeysetFails, files
  <2> QED BY <2>1 DEF TrialState, Watched, GivingUp, DiskState, Installing
<1>2. CASE OpenCount
  <2>1. /\ UNCHANGED <<disk, backup, manifest, manifestPrev, health>>
        /\ pc = "updater" /\ pc' \in {"check", "handover"}
        /\ ~Confirmed /\ ledger.attempts + 1 # maxHealthAttempts
        /\ harm \subseteq harm'
    BY <1>2, <1>a DEF OpenCount, Saves, Saved, KeysetFails, files, Ledger, Quiet,
       Trouble, maxHealthAttempts
  <2>2. /\ ledger'.pending = ledger.pending /\ ledger'.swaps = ledger.swaps
        /\ ledger'.phase = ledger.phase /\ Watched
    BY <1>2, <1>a DEF OpenCount, Saves, Saved, KeysetFails, Ledger
  <2>3. TrialOn
    BY <2>1, <2>2 DEF TrialState, TrialOver, TrialLost
  <2>4. TrialState'
    BY <2>1, <2>2, <2>3 DEF TrialState, TrialOn, WayBack
  <2> QED BY <2>1, <2>4 DEF GivingUp, DiskState, Installing
<1>3. CASE Committing
  <2>1. /\ UNCHANGED <<disk, manifest, health>> /\ Watched /\ Confirmed
        /\ pc \in {"updater", "forget", "commit"}
        /\ pc' \in {"forget", "commit", "check", "handover"}
    BY <1>3 DEF Committing, OpenCommit, ForgetManifest, SaveCommit, IInv, InHand, Saves,
       Saved, KeysetFails, files, records
  <2>2. manifest = ledger.pending
    BY <2>1 DEF TrialState, TrialOn, TrialOver, TrialLost
  <2>3. ~Watched' \/ ledger' = ledger
    BY <1>3, <1>a DEF Committing, OpenCommit, ForgetManifest, SaveCommit, Saves, Saved,
       KeysetFails, records, Watched, Ledger
  <2> QED BY <2>1, <2>2, <2>3 DEF TrialState, TrialOver, Confirmed, GivingUp,
          DiskState, Installing
<1>4. CASE OpenGiveUp
  <2>1. /\ UNCHANGED <<disk, backup, manifest, manifestPrev, ledger, health, harm>>
        /\ pc = "updater" /\ pc' = "rollback" /\ ~Confirmed
    BY <1>4 DEF OpenGiveUp, Quiet, files, records
  <2> QED BY <2>1 DEF TrialState, Watched, TrialOn, TrialOver, TrialLost, WayBack,
          GivingUp, DiskState, Installing, Confirmed
<1> QED BY <1>1, <1>2, <1>3, <1>4

(* Images are never absent.                                                *)
LEMMA BackendIsImage == \A v \in Version : BackendOf(v) # None
BY BuildImage, NoneIsNoImage DEF BackendOf, Component

(* An outcome that is the only one.                                        *)
LEMMA OnePair ==
  ASSUME NEW d, NEW p, Backend({<<d, p>>})
  PROVE  disk' = [disk EXCEPT !["backend"] = d] /\ backup' = p
<1>1. PICK pair \in {<<d, p>>} :
        disk' = [disk EXCEPT !["backend"] = pair[1]] /\ backup' = pair[2]
  BY DEF Backend
<1>2. pair = <<d, p>>
  BY <1>1
<1>3. pair[1] = d /\ pair[2] = p
  BY <1>2
<1> QED BY <1>1, <1>3

(* The rollback returns the backend of the manifest that will come back.   *)
LEMMA RollBackBackends ==
  ASSUME IInv, Backends, RollBack, Calm'
  PROVE  Backends'
<1> USE DEF Backends
<1>1. /\ pc = "rollback" /\ pc' = "restore" /\ ~Confirmed
      /\ UNCHANGED <<manifest, manifestPrev, ledger, health, harm>>
  BY DEF RollBack, GivingUp, records, Quiet, Trouble, Calm
<1>2. Watched /\ manifest \in Version /\ disk \in [Component -> Content]
  BY <1>1 DEF IInv, TypeOK, InHand, RecordsOK, FilesOK
<1>3. TrialOn \/ TrialLost
  BY <1>1, <1>2 DEF TrialState, TrialOver
<1>4. disk["backend"] = BackendOf(manifest) /\ disk["backend"] # None
  BY <1>1, <1>2, BackendIsImage DEF DiskState
<1>5. /\ manifestPrev \in Version /\ manifestPrev < ledger.pending
  BY <1>2, <1>3 DEF TrialOn, TrialLost, WayBack
<1>6. CASE ~ledger.swaps
  <2>1. UNCHANGED <<disk, backup>>
    BY <1>6 DEF RollBack
  <2>2. BackendOf(manifestPrev) = BackendOf(manifest)
    BY <1>3, <1>6 DEF TrialOn, TrialLost, WayBack
  <2> QED BY <1>1, <1>4, <1>5, <1>6, <2>1, <2>2 DEF TrialState, GivingUp,
          DiskState, Installing, Confirmed
<1>7. CASE ledger.swaps
  <2>1. Backend(RollbackDone(disk["backend"], backup))
    BY <1>1, <1>7 DEF RollBack, Trouble, Calm
  <2>2. disk'["backend"] = BackendOf(manifestPrev) /\ backup' = None
    <3>1. CASE backup = None
      <4>1. disk' = [disk EXCEPT !["backend"] = disk["backend"]] /\ backup' = None
        <5>1. RollbackDone(disk["backend"], backup) = {<<disk["backend"], None>>}
          BY <3>1 DEF RollbackDone
        <5> QED BY <2>1, <5>1, OnePair
      <4>2. manifestPrev = manifest
        BY <1>3, <1>5, <1>7, <3>1, BackendIsImage DEF TrialOn, TrialLost, WayBack
      <4> QED BY <1>2, <1>4, <4>1, <4>2 DEF Component
    <3>2. CASE backup # None
      <4>1. disk' = [disk EXCEPT !["backend"] = backup] /\ backup' = None
        <5>1. RollbackDone(disk["backend"], backup) = {<<backup, None>>}
          BY <1>4, <3>2 DEF RollbackDone
        <5> QED BY <2>1, <5>1, OnePair
      <4>2. backup = BackendOf(manifestPrev)
        BY <1>3, <1>7, <3>2 DEF TrialOn, TrialLost, WayBack
      <4> QED BY <1>2, <4>1, <4>2 DEF Component
    <3> QED BY <3>1, <3>2
  <2> QED BY <1>1, <1>5, <2>2 DEF TrialState, GivingUp, DiskState, Installing,
          Confirmed
<1> QED BY <1>6, <1>7

(* The manifest follows its backend back, and the trial is given up.       *)
LEMMA RestoreBackends ==
  ASSUME IInv, Backends, RestoreManifest, Calm'
  PROVE  Backends'
<1> USE DEF Backends
<1>1. /\ pc = "restore" /\ ~Confirmed /\ manifestPrev \in Version
      /\ manifestPrev < ledger.pending /\ (ledger.swaps => backup = None)
      /\ disk["backend"] = BackendOf(manifestPrev)
  BY DEF RestoreManifest, GivingUp, DiskState
<1>2. Watched /\ ledger.attempts + 1 = maxHealthAttempts /\ ledger \in Ledger
  BY <1>1 DEF IInv, TypeOK, RecordsOK, InHand
<1>3. manifestPrev # 0
  BY <1>1 DEF Version
<1>4. /\ UNCHANGED <<disk, backup, manifestPrev, ledger, health>>
      /\ manifest' = manifestPrev /\ pc' = "giveup"
  BY <1>3 DEF RestoreManifest, files, Trouble, Calm
<1> QED BY <1>1, <1>2, <1>4 DEF TrialState, TrialLost, Confirmed, GivingUp, DiskState,
        Installing

LEMMA GiveUpBackends ==
  ASSUME IInv, Backends, SaveGiveUp
  PROVE  Backends'
<1> USE DEF Backends
<1>1. /\ pc = "giveup" /\ pc' \in {"check", "handover"}
      /\ UNCHANGED <<disk, backup, manifest, manifestPrev, health>>
  BY DEF SaveGiveUp, files, Saved, KeysetFails
<1>2. Watched /\ manifest < ledger.pending /\ ledger \in Ledger
  BY <1>1 DEF GivingUp, IInv, InHand, TypeOK, RecordsOK
<1>3. TrialLost
  BY <1>1, <1>2, NewestNat DEF TrialState, TrialOn, TrialOver, IInv, TypeOK, RecordsOK,
     Ledger, Version
<1>4. ~Watched' \/ (ledger' = ledger /\ pc' = "handover")
  BY <1>2 DEF SaveGiveUp, Saved, KeysetFails, Watched, Ledger
<1> QED BY <1>1, <1>3, <1>4 DEF TrialState, TrialLost, Confirmed, GivingUp, DiskState,
        Installing

(* Acceptance begins an installation over a truthful manifest.             *)
LEMMA AcceptBackends ==
  ASSUME IInv, Backends, NEW v \in Version, Accept(v), Calm'
  PROVE  Backends'
<1> USE DEF Backends
<1>1. /\ pc = "check" /\ pc' = "apply" /\ UNCHANGED <<disk, backup, manifest, ledger, health>>
      /\ manifestPrev' = manifest /\ proc.local = manifest /\ v > manifest
  BY DEF Accept, Acceptable, files, Calm
<1>2. PICK extra \in {Missing, {}} :
        proc' = [proc EXCEPT !.target = v,
                             !.todo = Diff(proc.local, v) \union extra,
                             !.swaps = "backend" \in Diff(proc.local, v) \union extra]
  BY DEF Accept
<1>3. /\ proc'.target = v /\ proc'.todo = Diff(manifest, v) \union extra
      /\ proc'.swaps = ("backend" \in Diff(manifest, v) \union extra)
  BY <1>1, <1>2 DEF IInv, TypeOK, ProcessOK, Memory
<1>4. disk["backend"] = BackendOf(manifest)
  BY <1>1 DEF DiskState
<1>5. "backend" \notin proc'.todo => BackendOf(manifest) = BackendOf(v)
  BY <1>3 DEF Diff, Component, BackendOf
<1>6. proc'.swaps <=> "backend" \in proc'.todo
  BY <1>3
<1>7. manifest < v
  BY <1>1, NewestNat DEF IInv, TypeOK, RecordsOK, Version
<1> QED BY <1>1, <1>3, <1>4, <1>5, <1>6, <1>7 DEF TrialState, GivingUp, DiskState,
        Installing, BackendOf

(* Each component put in place keeps the way back.                         *)
LEMMA ApplyOneBackends ==
  ASSUME IInv, Backends, NEW c \in Component, ApplyOne(c)
  PROVE  Backends'
<1> USE DEF Backends
<1>1. /\ pc = "apply" /\ pc' = "apply" /\ c \in proc.todo
      /\ UNCHANGED <<manifest, manifestPrev, ledger, health>>
      /\ proc'.todo = proc.todo \ {c} /\ proc'.target = proc.target
      /\ proc'.swaps = proc.swaps
  BY DEF ApplyOne, records, IInv, TypeOK, ProcessOK, Memory
<1>2. disk \in [Component -> Content] /\ manifest \in Version /\ proc.target \in Version
  BY <1>1 DEF IInv, TypeOK, FilesOK, RecordsOK, InHand
<1>3. CASE c = "backend"
  <2>1. Backend(ReplaceDone(disk[c], backup, BackendOf(proc.target)))
    BY <1>3 DEF ApplyOne, BackendOf, Locked
  <2>2. disk[c] = BackendOf(manifest) /\ disk[c] # None
    BY <1>1, <1>2, <1>3, BackendIsImage DEF DiskState
  <2>3. ReplaceDone(disk[c], backup, BackendOf(proc.target))
          = {<<BackendOf(proc.target), BackendOf(manifest)>>}
    BY <2>2 DEF ReplaceDone
  <2>4. /\ disk' = [disk EXCEPT !["backend"] = BackendOf(proc.target)]
        /\ backup' = BackendOf(manifest)
    BY <2>1, <2>3, OnePair
  <2>5. disk'["backend"] = BackendOf(proc.target)
    BY <1>2, <2>4 DEF Component
  <2> QED BY <1>1, <1>3, <2>4, <2>5 DEF TrialState, GivingUp, DiskState, Installing,
          BackendOf
<1>4. CASE c # "backend"
  <2>1. UNCHANGED <<disk["backend"], backup>>
    BY <1>2, <1>4 DEF ApplyOne, Component, Locked
  <2>2. "backend" \in proc'.todo <=> "backend" \in proc.todo
    BY <1>1, <1>4
  <2> QED BY <1>1, <2>1, <2>2 DEF TrialState, GivingUp, DiskState, Installing,
          BackendOf
<1> QED BY <1>3, <1>4

(* The new manifest comes last, and then the trial.                        *)
LEMMA WriteBackends ==
  ASSUME IInv, Backends, WriteManifest
  PROVE  Backends'
<1> USE DEF Backends
<1>1. /\ pc = "apply" /\ pc' = "record" /\ proc.todo = {} /\ manifest' = proc.target
      /\ UNCHANGED <<disk, backup, manifestPrev, ledger, proc>>
  BY DEF WriteManifest, files
<1>2. manifest \in Version
  BY DEF IInv, TypeOK, RecordsOK
<1> QED BY <1>1, <1>2 DEF TrialState, GivingUp, DiskState, Installing, WayBack, BackendOf

(* From there on the version is on trial, with its way back.               *)
LEMMA RecordBackends ==
  ASSUME IInv, Backends, Record, Calm'
  PROVE  Backends'
<1> USE DEF Backends
<1>1. /\ pc = "record" /\ pc' = "handover"
      /\ UNCHANGED <<disk, backup, manifest, manifestPrev, proc>>
  BY DEF Record, files
<1>2. /\ ledger'.phase = "swapped" /\ ledger'.pending = proc.target
      /\ ledger'.swaps = proc.swaps
  <2>1. ledger \in Ledger
    BY DEF IInv, TypeOK, RecordsOK
  <2>2. ~Trouble("unsaved")
    BY DEF Trouble, Calm
  <2>3. \E h : ledger' = [ledger EXCEPT !.phase = "swapped", !.pending = proc.target,
                                       !.swaps = proc.swaps, !.attempts = 0, !.highest = h]
    BY <2>2 DEF Record
  <2> QED BY <2>1, <2>3 DEF Ledger
<1>3. manifest = proc.target /\ WayBack(proc.target, proc.swaps)
  BY <1>1 DEF Installing
<1>4. TrialOn'
  BY <1>1, <1>2, <1>3 DEF TrialOn, WayBack
<1> QED BY <1>1, <1>4 DEF TrialState, GivingUp, DiskState, Installing

(* A report of the running version does not touch what a trial waits for.  *)
LEMMA MarkBackends ==
  ASSUME IInv, Backends, Running, MarkHealthy
  PROVE  Backends'
<1> USE DEF Backends
<1>1. /\ pc = "backend" /\ pc' = "backend" /\ harm' = harm
      /\ UNCHANGED <<disk, backup, manifest, manifestPrev, ledger>>
      /\ health'.version = manifest /\ health'.fresh
  BY DEF MarkHealthy, files, Running, Quiet
<1>2. manifest \in Nat /\ ledger.pending \in Nat
  BY NewestNat DEF IInv, TypeOK, RecordsOK, Ledger, Version
<1> QED BY <1>1, <1>2 DEF TrialState, Watched, TrialOn, TrialOver, TrialLost, WayBack,
        Confirmed, GivingUp, DiskState, Installing, BackendOf

(* The backends, the manifests and the trial stay in step.                 *)
LEMMA BackendsStep ==
  ASSUME IInv, [Next]_vars, Backends, Running, Calm'
  PROVE  Backends'
<1>1. CASE Moving
  BY <1>1, MovingBackends
<1>2. CASE OpenQuiet \/ Committing \/ OpenCount \/ OpenGiveUp
  BY <1>2, OpeningBackends
<1>3. CASE RollBack \/ RestoreManifest \/ SaveGiveUp
  BY <1>3, RollBackBackends, RestoreBackends, GiveUpBackends
<1>4. CASE (\E v \in Version : Accept(v)) \/ (\E c \in Component : ApplyOne(c))
  BY <1>4, AcceptBackends, ApplyOneBackends
<1>5. CASE WriteManifest \/ Record \/ MarkHealthy
  BY <1>5, WriteBackends, RecordBackends, MarkBackends
<1>6. CASE Publish \/ UNCHANGED vars
  BY <1>6, SameStep DEF Publish, Quiet, vars, files, records, ghosts
<1>7. CASE BootstrapDone \/ ApplyFails \/ (\E c \in Component : Remove(c))
  BY <1>7 DEF BootstrapDone, ApplyFails, Remove, Trouble, Calm
<1> QED BY <1>1, <1>2, <1>3, <1>4, <1>5, <1>6, <1>7 DEF Next, Proceed, Shell, Open,
        Install, Moving, Committing

(* What the process has loaded, and what was reported of it.               *)
LEMMA RunningStep ==
  ASSUME IInv, [Next]_vars, Backends, Running, Calm'
  PROVE  Running'
<1> DEFINE Updating == {"updater", "forget", "commit", "rollback", "restore", "giveup",
                        "check", "apply", "record", "handover"}
<1>a. proc \in Memory /\ pc \in Between \union Updating
  BY DEF IInv, TypeOK, ProcessOK, Between
<1>b. manifest \in Version /\ harm \subseteq harm'
  BY HarmGrows DEF IInv, TypeOK, RecordsOK
<1>f. FreshProcess.loaded = None
  BY DEF FreshProcess
<1>1. CASE /\ proc' = FreshProcess /\ pc' \in {"off", "libs"}
           /\ UNCHANGED <<health, proved>>
  BY <1>1, <1>b, <1>f DEF Running, Mild, HasLoaded
<1>2. CASE /\ proc'.loaded = proc.loaded /\ proc'.before = proc.before
           /\ UNCHANGED <<proved>> /\ (health'.fresh => health' = health)
           /\ pc \in Updating /\ pc' \in Updating
  BY <1>2, <1>b DEF Running, Mild, HasLoaded
<1>3. CASE /\ UNCHANGED <<proc, health, proved, manifest>>
           /\ pc' = pc \/ (pc \in {"libs", "shell", "entry", "bootstrap"}
                           /\ pc' \in {"shell", "entry", "bootstrap", "updater"})
  BY <1>3, <1>b DEF Running, Mild, HasLoaded
<1>4. CASE Launch \/ Quit \/ Crash
  BY <1>1, <1>4 DEF Launch, Quit, Crash, Relaunch, records
<1>5. CASE ApplyPending \/ Enter \/ Publish
  BY <1>3, <1>5 DEF ApplyPending, Enter, Publish, records
<1>6. CASE ApplyShell
  BY <1>1, <1>3, <1>6 DEF ApplyShell, Relaunch, records
<1>7. CASE BootstrapFails
  <2>1. pc = "bootstrap" /\ pc' \in {"fatal", "loading"} /\ UNCHANGED <<proc, health, proved>>
    BY <1>7 DEF BootstrapFails, records
  <2> QED BY <2>1, <1>b DEF Running, Mild, HasLoaded
<1>8. CASE OpenQuiet \/ Committing \/ OpenCount \/ OpenGiveUp \/ RollBack
           \/ RestoreManifest \/ SaveGiveUp \/ Decline
  <2>1. pc \in Updating /\ pc' \in Updating /\ UNCHANGED <<health, proved>>
    BY <1>8 DEF OpenQuiet, Committing, OpenCommit, ForgetManifest, SaveCommit,
       OpenCount, OpenGiveUp, RollBack, RestoreManifest, SaveGiveUp, Decline, Saves, Saved, KeysetFails, records
  <2>2. proc'.loaded = proc.loaded /\ proc'.before = proc.before
    BY <1>8, <1>a DEF OpenQuiet, Committing, OpenCommit, ForgetManifest, SaveCommit,
       OpenCount, OpenGiveUp, RollBack, RestoreManifest, SaveGiveUp, Decline, ReadsLocal,
       Memory
  <2> QED BY <1>2, <2>1, <2>2
<1>9. CASE (\E v \in Version : Accept(v)) \/ (\E c \in Component : ApplyOne(c))
           \/ WriteManifest \/ Record
  <2>1. /\ pc \in Updating /\ pc' \in Updating /\ UNCHANGED proved
        /\ health'.fresh => health' = health
    BY <1>9 DEF Accept, ApplyOne, WriteManifest, Record, records, IInv, TypeOK,
       RecordsOK
  <2>2. proc'.loaded = proc.loaded /\ proc'.before = proc.before
    BY <1>9, <1>a DEF Accept, ApplyOne, WriteManifest, Record, Memory
  <2> QED BY <1>2, <2>1, <2>2
<1>10. CASE Retry \/ CloseUpdater
  BY <1>10 DEF Retry, CloseUpdater, Running
<1>11. CASE HandOver \/ HandOverLoaded
  <2>1. CASE Relaunch
    BY <1>1, <1>11, <2>1 DEF HandOver, HandOverLoaded, Relaunch, records
  <2>2. CASE Trouble("stuck") /\ pc' = "loading"
    BY <1>11, <2>2, <1>b DEF HandOver, HandOverLoaded, Trouble, Running, Mild, records
  <2>3. CASE /\ proc.loaded = None \/ manifest = proc.before
             /\ pc = "handover" /\ pc' = "loading" /\ UNCHANGED <<records, proc, proved>>
    BY <2>3, <1>b DEF Running, Mild, HasLoaded, records
  <2> QED BY <1>11, <2>1, <2>2, <2>3 DEF HandOver, HandOverLoaded
<1>12. CASE LoadBackend
  <2>1. /\ pc = "loading" /\ pc' \in {"fatal", "backend"}
        /\ UNCHANGED <<records, proved, harm>>
        /\ proc'.loaded = IF proc.loaded = None THEN disk["backend"] ELSE proc.loaded
        /\ pc' = "backend" => proc'.loaded # None
        /\ proc'.runs = manifest
    BY <1>12, <1>a DEF LoadBackend, Memory, Quiet
  <2>2. disk["backend"] = BackendOf(manifest)
    BY <2>1 DEF Backends, DiskState
  <2> QED BY <2>1, <2>2, <1>b DEF Running, Mild, HasLoaded, records, BackendOf
<1>13. CASE MarkHealthy
  <2>1. /\ pc = "backend" /\ pc' = "backend" /\ UNCHANGED <<proc, manifest, harm>>
        /\ health'.version = manifest /\ proc.runs = manifest
        /\ proved' = IF proc.loaded = BackendOf(manifest) THEN proved \union {manifest}
                                                          ELSE proved
    BY <1>13 DEF MarkHealthy, Running, Quiet, BackendOf
  <2> QED BY <2>1, <1>b DEF Running, Mild, HasLoaded, BackendOf
<1>14. CASE ManualUpdate
  <2>1. /\ pc = "backend" /\ pc' = "updater" /\ UNCHANGED <<records, proved, harm>>
        /\ proc'.loaded = proc.loaded /\ proc'.before = manifest
    BY <1>14, <1>a DEF ManualUpdate, Memory, Quiet
  <2> QED BY <2>1, <1>b DEF Running, Mild, HasLoaded, records
<1>15. CASE BootstrapDone \/ ApplyFails \/ (\E c \in Component : Remove(c))
  BY <1>15 DEF BootstrapDone, ApplyFails, Remove, Trouble, Calm
<1>16. CASE UNCHANGED vars
  BY <1>3, <1>16 DEF vars, records, ghosts
<1> QED BY <1>4, <1>5, <1>6, <1>7, <1>8, <1>9, <1>10, <1>11, <1>12, <1>13, <1>14,
        <1>15, <1>16 DEF Next, Proceed, Shell, Open, Install, Committing

(* A component that is staged takes its place and still stands the same.   *)
LEMMA KeptWhole ==
  ASSUME Whole, banned \subseteq banned',
         pc \notin {"apply", "record"}, pc' \notin {"apply", "record"},
         UNCHANGED <<manifest, ledger>>,
         \A c \in Others : StandsAs(c, manifest) => StandsAs(c, manifest)'
  PROVE  Whole'
BY DEF Whole, Watched

(* A step that moves none of the other files.                              *)
LEMMA SameFilesWhole ==
  ASSUME Whole, banned \subseteq banned',
         pc \notin {"apply", "record"}, pc' \notin {"apply", "record"},
         UNCHANGED <<manifest, ledger, staged>>,
         \A c \in Others : disk'[c] = disk[c]
  PROVE  Whole'
<1>1. \A c \in Others : StandsAs(c, manifest) => StandsAs(c, manifest)'
  BY DEF StandsAs
<1> QED BY <1>1, KeptWhole

(* Taking the place of the installed file changes what is installed, not   *)
(* how the component stands.                                               *)
LEMMA SwappedStands ==
  ASSUME FilesOK, NEW l \in Locked, NEW v, UNCHANGED v, staged[l] # None,
         disk' = [disk EXCEPT ![l] = staged[l]],
         staged' = [staged EXCEPT ![l] = None]
  PROVE  \A c \in Others : StandsAs(c, v) => StandsAs(c, v)'
<1> SUFFICES ASSUME NEW c \in Others, StandsAs(c, v) PROVE StandsAs(c, v)'
  OBVIOUS
<1>1. c \in Component /\ l \in Component
  BY DEF Others, Locked, Component
<1>2. CASE c = l
  <2>1. disk'[c] = staged[l] /\ staged'[c] = None
    BY <1>1, <1>2 DEF FilesOK
  <2> QED BY <1>2, <2>1 DEF StandsAs
<1>3. CASE c # l
  <2>1. disk'[c] = disk[c] /\ (c \in Locked => staged'[c] = staged[c])
    BY <1>1, <1>3 DEF FilesOK
  <2> QED BY <2>1 DEF StandsAs
<1> QED BY <1>2, <1>3

(* A shell swapped or kept.                                                *)
LEMMA ShellWhole ==
  ASSUME FilesOK, Whole, SwapShell \/ KeepShell, banned \subseteq banned',
         pc \notin {"apply", "record"}, pc' \notin {"apply", "record"},
         UNCHANGED <<manifest, ledger>>
  PROVE  Whole'
<1>1. CASE SwapShell
  <2>1. "shell" \in Locked
    BY DEF Locked
  <2>2. \A c \in Others : StandsAs(c, manifest) => StandsAs(c, manifest)'
    BY <1>1, <2>1, SwappedStands DEF SwapShell
  <2> QED BY <2>2, KeptWhole
<1>2. CASE KeepShell
  BY <1>2, SameFilesWhole DEF KeepShell
<1> QED BY <1>1, <1>2

(* Starts, ends and the steps between them, for the other components.      *)
LEMMA MovingWhole ==
  ASSUME IInv, Whole, Moving, Calm'
  PROVE  Whole'
<1>a. /\ pc \notin {"apply", "record"} /\ pc' \notin {"apply", "record"}
      /\ banned \subseteq banned' /\ UNCHANGED <<manifest, ledger>>
  BY MovingIsIdle DEF Between, Leaving
<1>f. FilesOK
  BY DEF IInv, TypeOK
<1>1. CASE Launch \/ Enter \/ Decline \/ Retry \/ CloseUpdater \/ HandOverLoaded
           \/ LoadBackend \/ ManualUpdate \/ Quit
  BY <1>1, <1>a, SameFilesWhole DEF Launch, Enter, Decline, Retry, CloseUpdater,
     HandOverLoaded, LoadBackend, ManualUpdate, Quit, files
<1>2. CASE ApplyShell \/ HandOver
  BY <1>2, <1>a, <1>f, ShellWhole DEF ApplyShell, HandOver
<1>3. CASE ApplyPending
  <2>1. CASE UNCHANGED <<disk, staged>>
    BY <2>1, <1>a, SameFilesWhole
  <2>2. CASE /\ staged["updater"] # None
             /\ disk' = [disk EXCEPT !["updater"] = staged["updater"]]
             /\ staged' = [staged EXCEPT !["updater"] = None]
    <3>1. "updater" \in Locked
      BY DEF Locked
    <3>2. \A c \in Others : StandsAs(c, manifest) => StandsAs(c, manifest)'
      BY <1>a, <1>f, <2>2, <3>1, SwappedStands
    <3> QED BY <1>a, <3>2, KeptWhole
  <2> QED BY <1>3, <2>1, <2>2 DEF ApplyPending
<1>4. CASE BootstrapFails
  <2>1. PICK done \in SUBSET {"updater", "backend", "frontend"} :
          /\ disk' = [c \in Component |->
                       IF c \in done THEN Build[released][c] ELSE disk[c]]
          /\ harm' = IF done = {} THEN harm ELSE harm \union {"bootstrap"}
    BY <1>4 DEF BootstrapFails
  <2>2. done = {}
    BY <2>1 DEF Calm
  <2>3. \A c \in Component : disk'[c] = disk[c]
    BY <2>1, <2>2
  <2> QED BY <1>4, <1>a, <2>3, SameFilesWhole DEF BootstrapFails, Others
<1>5. CASE Crash
  <2>1. Trouble(IF pc \in {"entry", "updater", "forget", "commit", "loading"} THEN "died" ELSE "cut")
    BY <1>5 DEF Crash
  <2>2. pc \in {"entry", "updater", "forget", "commit", "loading"}
    BY <2>1 DEF Trouble, Calm
  <2>3. UNCHANGED files
    BY <1>5, <2>2 DEF Crash
  <2> QED BY <1>a, <2>3, SameFilesWhole DEF files
<1> QED BY <1>1, <1>2, <1>3, <1>4, <1>5 DEF Moving

(* Closing the previous update, for the other components: after a rollback  *)
(* nothing more is claimed.                                                *)
LEMMA OpeningWhole ==
  ASSUME IInv, Backends, Whole, Calm',
         OpenQuiet \/ Committing \/ OpenCount \/ OpenGiveUp \/ RestoreManifest
           \/ SaveGiveUp
  PROVE  Whole'
<1>a. ledger \in Ledger /\ manifest \in Nat /\ ledger.pending \in Nat
      /\ manifestPrev \in Nat
  BY NewestNat DEF IInv, TypeOK, RecordsOK, Ledger, Version
<1>1. CASE OpenQuiet \/ OpenGiveUp
  BY <1>1, SameFilesWhole DEF OpenQuiet, OpenGiveUp, Saves, Saved, KeysetFails, files,
     records
<1>2. CASE OpenCount
  <2>1. /\ ledger'.pending = ledger.pending /\ ledger'.phase = ledger.phase
        /\ pc \notin {"apply", "record"} /\ pc' \notin {"apply", "record"}
        /\ UNCHANGED <<disk, staged, manifest, banned>>
    BY <1>2, <1>a DEF OpenCount, Saves, Saved, KeysetFails, files, Ledger
  <2> QED BY <2>1 DEF Whole, Watched, StandsAs
<1>3. CASE Committing
  <2>1. /\ pc \in {"updater", "forget", "commit"} /\ pc' \notin {"apply", "record"}
        /\ UNCHANGED <<disk, staged, manifest, banned>> /\ Watched /\ Confirmed
    BY <1>3 DEF Committing, OpenCommit, ForgetManifest, SaveCommit, IInv, InHand, Saves,
       Saved, KeysetFails, files, records
  <2>2. manifest >= ledger.pending
    BY <1>a, <2>1 DEF Backends, TrialState, TrialOn, TrialOver, TrialLost
  <2> QED BY <2>1, <2>2 DEF Whole, StandsAs
<1>4. CASE RestoreManifest
  <2>1. /\ pc = "restore" /\ pc' = "giveup" /\ Watched /\ ledger' = ledger
        /\ manifestPrev < ledger.pending /\ manifestPrev # 0
    BY <1>4 DEF RestoreManifest, Backends, GivingUp, Version, IInv, InHand
  <2>2. manifest' = manifestPrev
    BY <1>4, <2>1 DEF RestoreManifest, Trouble, Calm
  <2> QED BY <1>a, <2>1, <2>2 DEF Whole, Watched
<1>5. CASE SaveGiveUp
  <2>1. CASE banned' = banned \union {ledger.pending}
    BY <2>1 DEF Whole
  <2>2. CASE KeysetFails
    <3>1. /\ Watched /\ ledger' = ledger /\ pc' = "handover" /\ manifest' = manifest
          /\ manifest < ledger.pending
      BY <1>5, <2>2 DEF SaveGiveUp, KeysetFails, Backends, GivingUp, IInv, InHand
    <3> QED BY <1>a, <3>1 DEF Whole, Watched
  <2> QED BY <1>5, <2>1, <2>2 DEF SaveGiveUp
<1> QED BY <1>1, <1>2, <1>3, <1>4, <1>5

(* A rollback moves the backend only.                                      *)
LEMMA RollBackWhole ==
  ASSUME IInv, Whole, RollBack
  PROVE  Whole'
<1>1. \A c \in Others : disk'[c] = disk[c]
  BY DEF RollBack, Backend, Others, IInv, TypeOK, FilesOK
<1> QED BY <1>1, SameFilesWhole DEF RollBack, records

(* What Diff leaves out stands already as the new version says.            *)
LEMMA AcceptWhole ==
  ASSUME IInv, Backends, Whole, NEW v \in Version, Accept(v), Calm'
  PROVE  Whole'
<1>1. /\ pc = "check" /\ pc' = "apply" /\ UNCHANGED <<disk, staged, manifest, ledger, banned>>
      /\ proc.local = manifest
  BY DEF Accept, files, Calm
<1>2. PICK extra \in {Missing, {}} :
        proc' = [proc EXCEPT !.target = v,
                             !.todo = Diff(proc.local, v) \union extra,
                             !.swaps = "backend" \in Diff(proc.local, v) \union extra]
  BY DEF Accept
<1>3. proc'.target = v /\ proc'.todo = Diff(manifest, v) \union extra
  BY <1>1, <1>2 DEF IInv, TypeOK, ProcessOK, Memory
<1>4. Watched => manifest >= ledger.pending
  BY <1>1, NewestNat DEF Backends, TrialState, TrialOn, TrialOver, TrialLost, IInv, TypeOK,
     RecordsOK, Ledger, Version
<1>5. \A c \in Component : c \notin proc'.todo => Build[manifest][c] = Build[v][c]
  BY <1>3 DEF Diff
<1>6. banned = {} => \A c \in Others : StandsAs(c, manifest)
  BY <1>1, <1>4 DEF Whole
<1>7. ASSUME banned = {}, NEW c \in Others
      PROVE  StandsAs(c, IF c \in proc.todo THEN manifest ELSE proc.target)'
  BY <1>1, <1>3, <1>5, <1>6, <1>7 DEF StandsAs, Others
<1> QED BY <1>1, <1>7 DEF Whole

(* A component put in place, or beside it, stands as the new version says. *)
LEMMA ApplyOneWhole ==
  ASSUME IInv, Whole, NEW d \in Component, ApplyOne(d)
  PROVE  Whole'
<1>1. /\ pc = "apply" /\ pc' = "apply" /\ d \in proc.todo
      /\ UNCHANGED <<manifest, ledger, banned>>
      /\ proc'.todo = proc.todo \ {d} /\ proc'.target = proc.target
  BY DEF ApplyOne, records, IInv, TypeOK, ProcessOK, Memory
<1>2. disk \in [Component -> Content] /\ staged \in [Locked -> Content]
  BY DEF IInv, TypeOK, FilesOK
<1>3. ASSUME NEW c \in Others, c # d
      PROVE  disk'[c] = disk[c] /\ (c \in Locked => staged'[c] = staged[c])
  BY <1>2, <1>3 DEF ApplyOne, Backend, Others, Component, Locked
<1>4. ASSUME d \in Others
      PROVE  StandsAs(d, proc.target)'
  <2>1. CASE d = "frontend"
    BY <1>1, <1>2, <2>1 DEF ApplyOne, StandsAs, Locked, Component
  <2>2. CASE d \in Locked
    <3>1. staged'[d] = Build[proc.target][d]
      BY <1>2, <2>2 DEF ApplyOne, Locked
    <3>2. Build[proc.target][d] # None
      BY <1>1, BuildImage, NoneIsNoImage DEF IInv, InHand
    <3> QED BY <1>1, <2>2, <3>1, <3>2 DEF StandsAs
  <2> QED BY <1>4, <2>1, <2>2 DEF Others, Component, Locked
<1>5. ASSUME banned = {}, NEW c \in Others
      PROVE  StandsAs(c, IF c \in proc.todo THEN manifest ELSE proc.target)'
  <2>1. StandsAs(c, IF c \in proc.todo THEN manifest ELSE proc.target)
    BY <1>1, <1>5 DEF Whole
  <2>2. CASE c = d
    BY <1>1, <1>4, <2>2
  <2>3. CASE c # d
    BY <1>1, <1>3, <2>1, <2>3 DEF StandsAs
  <2> QED BY <2>2, <2>3
<1> QED BY <1>1, <1>5 DEF Whole

(* With nothing left to install, all stand as the new manifest says.       *)
LEMMA WriteWhole ==
  ASSUME IInv, Backends, Whole, WriteManifest \/ Record, Calm'
  PROVE  Whole'
<1>1. CASE WriteManifest
  <2>1. /\ pc = "apply" /\ pc' = "record" /\ proc.todo = {} /\ manifest' = proc.target
        /\ UNCHANGED <<disk, staged, banned>>
    BY <1>1 DEF WriteManifest, files
  <2> QED BY <2>1 DEF Whole, StandsAs
<1>2. CASE Record
  <2>1. pc = "record" /\ pc' = "handover" /\ UNCHANGED <<disk, staged, manifest, banned>>
    BY <1>2 DEF Record, files
  <2> QED BY <2>1 DEF Whole, StandsAs
<1> QED BY <1>1, <1>2

(* The other components stay in step too.                                  *)
LEMMA WholeStep ==
  ASSUME IInv, [Next]_vars, Backends, Whole, Calm'
  PROVE  Whole'
<1>1. CASE Moving
  BY <1>1, MovingWhole
<1>2. CASE OpenQuiet \/ Committing \/ OpenCount \/ OpenGiveUp \/ RestoreManifest
           \/ SaveGiveUp
  BY <1>2, OpeningWhole
<1>3. CASE RollBack
  BY <1>3, RollBackWhole
<1>4. CASE (\E v \in Version : Accept(v)) \/ (\E c \in Component : ApplyOne(c))
  BY <1>4, AcceptWhole, ApplyOneWhole
<1>5. CASE WriteManifest \/ Record
  BY <1>5, WriteWhole
<1>6. CASE MarkHealthy \/ Publish \/ UNCHANGED vars
  <2>1. UNCHANGED <<disk, staged, manifest, ledger, banned, pc, proc>>
    BY <1>6 DEF MarkHealthy, Publish, vars, files, records, ghosts
  <2> QED BY <2>1 DEF Whole, Watched, StandsAs
<1>7. CASE BootstrapDone \/ ApplyFails \/ (\E c \in Component : Remove(c))
  BY <1>7 DEF BootstrapDone, ApplyFails, Remove, Trouble, Calm
<1> QED BY <1>1, <1>2, <1>3, <1>4, <1>5, <1>6, <1>7 DEF Next, Proceed, Shell, Open,
        Install, Moving, Committing

(* The installed launcher is in step.                                      *)
LEMMA CInvInit == Init => CInv
BY NewestNat DEF Init, CInv, Backends, TrialState, Watched, GivingUp, DiskState, Installing,
   Running, HasLoaded, FreshProcess, Whole, StandsAs, Others, Component, Locked, BackendOf,
   Version

(* The truth of the records is inductive, while no write fails.            *)
LEMMA CInvStep == IInv /\ CInv /\ [Next]_vars => CInv'
<1> SUFFICES ASSUME IInv, CInv, [Next]_vars, Calm' PROVE (Backends /\ Running /\ Whole)'
  BY DEF CInv
<1>1. Calm
  BY HarmGrows DEF Calm
<1> QED BY <1>1, BackendsStep, RunningStep, WholeStep DEF CInv

(* Both invariants hold of every behaviour.                                *)
LEMMA CInvHolds == Spec => [](IInv /\ CInv)
BY IInvInit, IInvStep, CInvInit, CInvStep, PTL DEF Spec

(* Until a version on trial reports itself the backend before it lies      *)
(* under .previous, beside the manifest that describes it.                 *)
THEOREM CanRollBack == Spec => []RollbackReady
<1>1. IInv /\ CInv => RollbackReady
  <2> SUFFICES ASSUME IInv, CInv, OnTrial(manifest), ledger.swaps, ~Confirmed,
                      pc \notin {"apply", "record", "restore"},
                      harm \subseteq {"stuck", "overlap", "died", "keyset"}
               PROVE  manifestPrev # 0 /\ backup = Build[manifestPrev]["backend"]
    BY DEF RollbackReady
  <2>0. manifest \in Nat
    BY NewestNat DEF IInv, TypeOK, RecordsOK, Version
  <2>1. TrialOn
    BY <2>0 DEF CInv, Calm, Backends, TrialState, TrialOver, TrialLost, OnTrial
  <2> QED BY <2>1 DEF TrialOn, WayBack, BackendOf, Version
<1> QED BY <1>1, CInvHolds, PTL

(* The backend that opens is the one the manifest describes, whatever      *)
(* trials, rollbacks and unsaved decisions came before.                    *)
THEOREM OpensItsBackend == Spec => []BackendIsManifests
<1>1. IInv /\ CInv => BackendIsManifests
  BY DEF BackendIsManifests, CInv, Calm, Running, Mild, HasLoaded, BackendOf
<1> QED BY <1>1, CInvHolds, PTL

(* Without a rollback every component stands as the manifest says.         *)
THEOREM OpensOneVersion == Spec => []WholeVersion
<1>1. IInv /\ CInv => WholeVersion
  <2> SUFFICES ASSUME IInv, CInv, pc = "backend", Mild, banned = {},
                      manifest >= ledger.highest, NEW c \in Component
               PROVE  Stands(c)
    BY DEF WholeVersion, Mild
  <2>1. Backends /\ Whole
    BY DEF CInv, Calm, Mild
  <2>2. Watched => manifest >= ledger.pending
    BY DEF IInv, Covered
  <2>3. CASE c = "backend"
    BY <2>1, <2>3 DEF Backends, DiskState, Stands, BackendOf
  <2>4. CASE c # "backend"
    BY <2>1, <2>2, <2>4 DEF Whole, Others, StandsAs, Stands
  <2> QED BY <2>3, <2>4
<1> QED BY <1>1, CInvHolds, PTL

(* A version is committed only after its own backend ran for 20 seconds.   *)
THEOREM CommitsAreEarned == Spec => CommitEarned
<1>1. ASSUME IInv, CInv, [Next]_vars
      PROVE  [ledger.phase = "swapped" /\ ledger'.phase = "committed"
                /\ harm \subseteq {"keyset", "overlap", "died"}
              => ledger.pending \in proved]_vars
  <2> SUFFICES ASSUME ledger.phase = "swapped", ledger'.phase = "committed", Mild
               PROVE  ledger.pending \in proved
    BY DEF Mild
  <2>1. ledger \in Ledger
    BY <1>1 DEF IInv, TypeOK, RecordsOK
  <2>2. SaveCommit
    BY <1>1, <2>1, LedgerChanges DEF OpenQuiet, OpenCount, SaveGiveUp, Record, Saves,
       Saved, KeysetFails, Ledger
  <2>3. Confirmed
    BY <1>1, <2>2 DEF SaveCommit, IInv, InHand
  <2> QED BY <1>1, <2>3 DEF CInv, Calm, Mild, Running, Confirmed
<1> QED BY <1>1, CInvHolds, PTL DEF Spec, CommitEarned
-------------------------------------------------------------------------------
(* Nothing went wrong but starts that ended early and decisions that could *)
(* not be saved, and no version was installed over one still on trial.     *)
Clear == harm \subseteq {"keyset", "died"}

(* The versions a user can rely on: the first one, and those whose own     *)
(* backend ran for 20 seconds.                                             *)
Sure == proved \union {1}

(* The launcher stands on such a version or has one to go back to.         *)
Trust ==
  /\ Watched /\ pc \notin {"apply", "record"} /\ manifestPrev # 0 => manifestPrev \in Sure
  /\ ~Watched /\ pc \in {"apply", "record"} => manifestPrev \in Sure
  /\ pc # "record" => manifest \in Sure \/ OnTrial(manifest)

(* A step that is not part of an install and leaves the records alone.     *)
LEMMA SureStays ==
  ASSUME Trust, proved \subseteq proved', UNCHANGED <<manifest, manifestPrev, ledger>>,
         pc' = pc \/ {pc, pc'} \cap {"apply", "record"} = {}
  PROVE  Trust'
<1>1. Sure \subseteq Sure'
  BY DEF Sure
<1> QED BY <1>1 DEF Trust, Watched, OnTrial

LEMMA ClearStays == ASSUME [Next]_vars, Clear' PROVE Clear /\ Calm /\ Calm' /\ Mild
BY HarmGrows DEF Clear, Calm, Mild

(* Closing the previous update: a version that leaves its trial is one to  *)
(* rely on, or the launcher goes back to such a one.                       *)
LEMMA OpeningTrust ==
  ASSUME IInv, Backends, Running, Mild, Trust,
         OpenQuiet \/ Committing \/ OpenCount \/ OpenGiveUp \/ RollBack
           \/ RestoreManifest \/ SaveGiveUp, Calm'
  PROVE  Trust'
<1>l. ledger \in Ledger /\ proved' = proved
  BY DEF IInv, TypeOK, RecordsOK, OpenQuiet, Committing, OpenCommit, ForgetManifest,
     SaveCommit, OpenCount, OpenGiveUp, RollBack, RestoreManifest, SaveGiveUp
<1>p. pc \notin {"apply", "record"} /\ pc' \notin {"apply", "record"}
  BY DEF OpenQuiet, Committing, OpenCommit, ForgetManifest, SaveCommit, OpenCount,
     OpenGiveUp, RollBack, RestoreManifest, SaveGiveUp, Saves, Saved, KeysetFails
<1>1. CASE OpenQuiet \/ OpenCommit \/ OpenGiveUp \/ RollBack
  <2>1. UNCHANGED <<manifest, manifestPrev, ledger>>
    BY <1>1 DEF OpenQuiet, OpenCommit, OpenGiveUp, RollBack, records, Saves, Saved,
       KeysetFails
  <2> QED BY <1>l, <1>p, <2>1, SureStays
<1>2. CASE OpenCount
  <2>1. /\ UNCHANGED <<manifest, manifestPrev>>
        /\ ledger'.phase = ledger.phase /\ ledger'.pending = ledger.pending
    BY <1>2, <1>l DEF OpenCount, Saves, Saved, KeysetFails, Ledger
  <2> QED BY <1>l, <1>p, <2>1 DEF Trust, Sure, Watched, OnTrial
<1>3. CASE ForgetManifest
  <2>1. UNCHANGED <<manifest, ledger>> /\ manifestPrev' \in {0, manifestPrev}
    BY <1>3 DEF ForgetManifest
  <2> QED BY <1>l, <1>p, <2>1 DEF Trust, Sure, Watched, OnTrial
<1>4. CASE SaveCommit
  <2>1. Confirmed /\ UNCHANGED <<manifest, manifestPrev>> /\ (~Watched' \/ ledger' = ledger)
    BY <1>4, <1>l DEF SaveCommit, IInv, InHand, Saves, Saved, KeysetFails, Watched, Ledger
  <2>2. ledger.pending \in proved
    BY <2>1 DEF Running, Confirmed
  <2>3. manifest \in Sure
    BY <1>p, <2>2 DEF Trust, OnTrial, Sure
  <2> QED BY <1>l, <1>p, <2>1, <2>3 DEF Trust, Sure, Watched
<1>5. CASE RestoreManifest
  <2>1. pc = "restore" /\ Watched /\ manifestPrev \in Version /\ manifestPrev # 0
    BY <1>5, NewestNat DEF RestoreManifest, IInv, InHand, Backends, GivingUp, Version
  <2>2. manifestPrev \in Sure
    BY <2>1 DEF Trust
  <2>3. manifest' = manifestPrev /\ manifestPrev' = manifestPrev
    BY <1>5, <2>1 DEF RestoreManifest, Trouble, Calm
  <2> QED BY <1>l, <1>p, <2>2, <2>3 DEF Trust, Sure
<1>6. CASE SaveGiveUp
  <2>1. /\ manifest < ledger.pending /\ UNCHANGED <<manifest, manifestPrev>>
        /\ (~Watched' \/ ledger' = ledger)
    BY <1>6, <1>l DEF SaveGiveUp, Backends, GivingUp, Saved, KeysetFails, Watched, Ledger
  <2>2. manifest \in Nat /\ ledger.pending \in Nat
    BY NewestNat DEF IInv, TypeOK, RecordsOK, Ledger, Version
  <2>3. manifest \in Sure
    BY <1>p, <2>1, <2>2 DEF Trust, OnTrial
  <2> QED BY <1>l, <1>p, <2>1, <2>3 DEF Trust, Sure, Watched
<1> QED BY <1>1, <1>2, <1>3, <1>4, <1>5, <1>6 DEF Committing

(* Installing: the version before the new one is the one to go back to.    *)
LEMMA InstallingTrust ==
  ASSUME IInv, Backends, Trust, Clear',
         (\E v \in Version : Accept(v)) \/ WriteManifest \/ Record
  PROVE  Trust'
<1>l. ledger \in Ledger /\ proved' = proved
  BY DEF IInv, TypeOK, RecordsOK, Accept, WriteManifest, Record
<1>1. ASSUME NEW v \in Version, Accept(v) PROVE Trust'
  <2>1. /\ pc = "check" /\ pc' = "apply" /\ manifestPrev' = manifest
        /\ UNCHANGED <<manifest, ledger>>
    BY <1>1 DEF Accept
  <2> QED BY <1>l, <2>1 DEF Trust, Sure, Watched, OnTrial
<1>2. CASE WriteManifest
  <2>1. /\ pc = "apply" /\ pc' = "record" /\ UNCHANGED <<manifestPrev, ledger>>
    BY <1>2 DEF WriteManifest
  <2> QED BY <1>l, <2>1 DEF Trust, Sure, Watched
<1>3. CASE Record
  <2>a. /\ pc = "record" /\ pc' = "handover" /\ UNCHANGED <<manifest, manifestPrev>>
    BY <1>3 DEF Record
  <2>b. "unsaved" \notin harm' /\ "overlap" \notin harm'
    BY DEF Clear
  <2>c. ~Trouble("unsaved")
    BY <2>b DEF Trouble
  <2>d. /\ ledger' = [ledger EXCEPT
                         !.phase = "swapped", !.pending = proc.target,
                         !.swaps = proc.swaps, !.attempts = 0,
                         !.highest = IF proc.target > @ THEN proc.target ELSE @]
        /\ harm' = IF Watched THEN harm \union {"overlap"} ELSE harm
    BY <1>3, <2>c DEF Record
  <2>e. ~Watched
    BY <2>b, <2>d
  <2>f. ledger'.phase = "swapped" /\ ledger'.pending = proc.target
    BY <1>l, <2>d DEF Ledger
  <2>1. /\ pc = "record" /\ pc' = "handover" /\ UNCHANGED <<manifest, manifestPrev>>
        /\ ~Watched /\ ledger'.phase = "swapped" /\ ledger'.pending = proc.target
    BY <2>a, <2>e, <2>f
  <2>2. manifest = proc.target
    BY <2>1 DEF Backends, Installing
  <2> QED BY <1>l, <2>1, <2>2 DEF Trust, Sure, Watched, OnTrial
<1> QED BY <1>1, <1>2, <1>3

LEMMA TrustStep ==
  ASSUME IInv, CInv, [Next]_vars, Clear => Trust
  PROVE  Clear' => Trust'
<1> SUFFICES ASSUME Clear' PROVE Trust'
  OBVIOUS
<1>0. Trust /\ Mild /\ Calm' /\ Backends /\ Running
  BY ClearStays DEF CInv
<1>1. CASE Moving
  <2>1. /\ pc \in Leaving /\ pc' \in Between
        /\ UNCHANGED <<manifest, manifestPrev, ledger, proved>>
    BY <1>0, <1>1, MovingIsIdle
  <2> QED BY <1>0, <2>1, SureStays DEF Between, Leaving
<1>2. CASE OpenQuiet \/ Committing \/ OpenCount \/ OpenGiveUp \/ RollBack
           \/ RestoreManifest \/ SaveGiveUp
  BY <1>0, <1>2, OpeningTrust
<1>3. CASE (\E v \in Version : Accept(v)) \/ WriteManifest \/ Record
  BY <1>0, <1>3, InstallingTrust
<1>4. CASE (\E c \in Component : ApplyOne(c)) \/ MarkHealthy \/ Publish \/ UNCHANGED vars
  <2>1. /\ pc' = pc /\ proved \subseteq proved'
        /\ UNCHANGED <<manifest, manifestPrev, ledger>>
    BY <1>4 DEF ApplyOne, MarkHealthy, Publish, vars, records, ghosts
  <2> QED BY <1>0, <2>1, SureStays
<1>5. CASE BootstrapDone \/ ApplyFails \/ (\E c \in Component : Remove(c))
  BY <1>5 DEF BootstrapDone, ApplyFails, Remove, Trouble, Clear
<1> QED BY <1>1, <1>2, <1>3, <1>4, <1>5 DEF Next, Proceed, Shell, Open, Install, Moving,
        Committing

LEMMA TrustHolds == Spec => [](IInv /\ CInv /\ (Clear => Trust))
<1>1. Init => (Clear => Trust)
  BY DEF Init, Trust, Watched, Sure
<1> QED BY <1>1, IInvInit, IInvStep, CInvInit, CInvStep, TrustStep, PTL DEF Spec

(* The version that opens is one the user can rely on, or it is on trial:  *)
(* a bad release is never left in place unwatched (engine.go:93-128).      *)
OpensSureOrWatched ==
  pc = "backend" /\ harm \subseteq {"keyset", "died"}
    => manifest \in proved \union {1} \/ OnTrial(manifest)

(* The same for any versions, contents, starts and rollbacks.              *)
THEOREM NeverUnwatched == Spec => []OpensSureOrWatched
<1>1. (Clear => Trust) => OpensSureOrWatched
  BY DEF OpensSureOrWatched, Clear, Trust, Sure
<1> QED BY <1>1, TrustHolds, PTL

(* A launcher that goes back goes back to a version it can rely on, not to *)
(* another one that never ran (engine.go:107-113).                         *)
GoesBackToSure ==
  [][manifest' < manifest /\ harm' \subseteq {"keyset", "died"}
     => manifest' \in proved \union {1}]_vars

(* The same for any versions, contents, starts and rollbacks.              *)
THEOREM RollbackIsSafe == Spec => GoesBackToSure
<1>1. ASSUME IInv, CInv, Clear => Trust, [Next]_vars
      PROVE  [manifest' < manifest /\ harm' \subseteq {"keyset", "died"}
              => manifest' \in proved \union {1}]_vars
  <2> SUFFICES ASSUME manifest' < manifest, Clear'
               PROVE  manifest' \in Sure
    BY DEF Clear, Sure
  <2>0. Trust /\ Backends /\ Calm' /\ Calm
    BY <1>1, ClearStays DEF CInv
  <2>1. manifest \in Nat /\ manifest' # manifest
    BY <1>1, NewestNat DEF IInv, TypeOK, RecordsOK, Version
  <2>2. ~Moving
    BY <1>1, <2>0, <2>1, MovingIsIdle
  <2>3. RestoreManifest \/ WriteManifest
    <3>1. ~(OpenQuiet \/ Committing \/ OpenCount \/ OpenGiveUp \/ RollBack \/ SaveGiveUp)
      BY <2>1 DEF OpenQuiet, Committing, OpenCommit, ForgetManifest, SaveCommit, OpenCount,
         OpenGiveUp, RollBack, SaveGiveUp, records
    <3>2. ~((\E v \in Version : Accept(v)) \/ (\E c \in Component : ApplyOne(c)) \/ Record)
      BY <2>1 DEF Accept, ApplyOne, Record, records
    <3>3. ~(MarkHealthy \/ Publish \/ UNCHANGED vars)
      BY <2>1 DEF MarkHealthy, Publish, vars, records
    <3>4. ~(BootstrapDone \/ ApplyFails \/ (\E c \in Component : Remove(c)))
      BY DEF BootstrapDone, ApplyFails, Remove, Trouble, Clear
    <3> QED BY <1>1, <2>2, <3>1, <3>2, <3>3, <3>4 DEF Next, Proceed, Shell, Open, Install,
            Moving, Committing
  <2>4. CASE RestoreManifest
    <3>1. pc = "restore" /\ Watched /\ manifestPrev \in Version /\ manifestPrev # 0
      BY <1>1, <2>0, <2>4, NewestNat DEF RestoreManifest, IInv, InHand, Backends, GivingUp,
         Version
    <3>2. manifestPrev \in Sure /\ manifest' = manifestPrev
      BY <2>0, <2>4, <3>1 DEF Trust, RestoreManifest, Trouble, Calm
    <3> QED BY <3>2
  <2>5. CASE WriteManifest
    <3>1. pc = "apply" /\ manifest' = proc.target
      BY <2>5 DEF WriteManifest
    <3>2. manifest < proc.target /\ proc.target \in Nat
      BY <1>1, <2>0, <3>1, NewestNat DEF Backends, Installing, IInv, InHand, Version
    <3> QED BY <2>1, <3>1, <3>2
  <2> QED BY <2>3, <2>4, <2>5
<1> QED BY <1>1, TrustHolds, PTL DEF Spec, GoesBackToSure
===============================================================================
