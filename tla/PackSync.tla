------------------------------ MODULE PackSync ------------------------------
(***************************************************************************)
(* The synchronisation of an official build with the manifest that its     *)
(* server publishes: DownloadPack (app_shaurma_full.go), the sync.Manager  *)
(* that lets one Runner of a build work at a time, the plan the Runner     *)
(* makes of manifest, records and disk, its queues, the files that are     *)
(* installed only when missing ("gifts"), the unpacking of archives, the   *)
(* removal of orphans, pause, cancel, a crash anywhere, the launch that    *)
(* waits for all this (app.go) and the removal of the build (builds.go).   *)
(*                                                                         *)
(* A manifest gives each of its keys a stamp, a content and whether it is  *)
(* a gift.  A path holds the whole or a half of one content; Own stands    *)
(* for anything the user or the game wrote.  What a record says beside the *)
(* stamp, progress, hashes and the cache of hashes are left out.           *)
(***************************************************************************)
EXTENDS Integers, Sequences, FiniteSets

CONSTANTS
  Key,          \* keys of a manifest: file names and object names
  Path,         \* paths in the folder of the build
  Where,        \* [Key -> Path]
  Folder,       \* the keys that are archives, unpacked into a folder
  Mods,         \* the paths that match mods/*.jar
  UserData,     \* servers.dat, options.txt ...: never removed
  Content,      \* what manifests deliver
  Own,          \* what the user or the game wrote
  Listing,      \* [Content \cup {Own} -> the files of it, each with its size]
  Session,      \* goroutines of DownloadPack, numbers from 1
  Cases,        \* histories to check: manifests in order, paths the user changes,
                \* foreign mods on the whitelist, may the game be started, may the
                \* build be removed, how many sessions at once
  MaxHarm,      \* crashes, failed unpackings and locked files
  MaxTouch      \* changes by the user, removal of the build included

NoRec == -1     \* no FileRecord
Blank == 0      \* a FileRecord with an empty UpdatedAt (the folders of gifts)

Absent   == [of |-> Own, whole |-> FALSE]
Whole(c) == [of |-> c, whole |-> TRUE]
Half(c)  == [of |-> c, whole |-> FALSE]

Entry   == [at : Nat \ {0}, of : Content, gift : BOOLEAN]
Records == [Key -> Nat \cup {NoRec}]

IsManifest(m) == DOMAIN m \subseteq Key /\ \A k \in DOMAIN m : m[k] \in Entry

ASSUME SyncAssumption ==
  /\ Where \in [Key -> Path] /\ Folder \subseteq Key /\ Own \notin Content
  /\ Mods \subseteq Path /\ UserData \subseteq Path
  /\ \A k \in Folder : Where[k] \notin Mods
  /\ DOMAIN Listing = Content \cup {Own} /\ \A c \in Content : IsFiniteSet(Listing[c])
  /\ Session \subseteq Nat /\ 0 \notin Session
  /\ MaxHarm \in Nat /\ MaxTouch \in Nat
  /\ \A c \in Cases : /\ DOMAIN c.man = 1 .. Len(c.man) /\ Len(c.man) \in Nat \ {0}
                      /\ \A v \in DOMAIN c.man : IsManifest(c.man[v])
                      /\ c.touch \subseteq Path /\ c.spared \subseteq Path
                      /\ c.play \in BOOLEAN /\ c.goes \in BOOLEAN /\ c.asks \in Nat

(***************************************************************************)
(* What the pack manager, which is not part of this repository, sees to: a *)
(* manifest names a path once, gifts are not mods, and the stamp of a path *)
(* grows with each change of its content and never otherwise.              *)
(***************************************************************************)
ASSUME ManifestAssumption ==
  \A c \in Cases : \A v \in DOMAIN c.man :
    /\ \A j, k \in DOMAIN c.man[v] : Where[j] = Where[k] => j = k
    /\ \A k \in DOMAIN c.man[v] : c.man[v][k].gift => Where[k] \notin Mods
    /\ \A w \in DOMAIN c.man : \A j \in DOMAIN c.man[v], k \in DOMAIN c.man[w] :
         v <= w /\ Where[j] = Where[k] =>
           /\ c.man[v][j].at <= c.man[w][k].at
           /\ c.man[v][j].at = c.man[w][k].at => c.man[v][j].of = c.man[w][k].of

\* What CompleteIsCurrent needs beyond that.  A path keeps its key: the code
\* removes what the old key of a moved mod points to.
KeysKeepPaths == \A j, k \in Key : Where[j] = Where[k] => j = k

VARIABLES
  story,    \* the case at hand; never changes
  latest,   \* number of the newest published manifest
  disk,     \* the folder of the build
  zip,      \* .override-archives: content of the archive of a key, Own for none
  saved,    \* install-state/<pack>.json
  run,      \* what each goroutine of DownloadPack holds
  active,   \* Manager.active: the session that works, 0 for none
  failed,   \* App.syncFailures
  launch,   \* LaunchInstance: "off", "poll", "join", "game"
  del,      \* DeletePack is between the files and the state
  excused,  \* not in the program: paths that the sync does not answer for, because
            \* the user wrote there, a folder was cut short under its record or a
            \* file was in use; until it is written anew, looked into or missing
  seen,     \* not in the program: the newest manifest a Runner was started with
  overtaken, \* not in the program: a Runner was started with an older one than that
  harm, touches

vars == <<story, latest, disk, zip, saved, run, active, failed, launch, del,
          excused, seen, overtaken, harm, touches>>

world == <<story, latest, seen, overtaken, harm, touches>>
files == <<disk, zip, excused>>
app   == <<failed, launch, del>>

Exists(p) == disk[p] # Absent
NoRecs    == [k \in Key |-> NoRec]
Fresh     == [stage |-> "none", man |-> 1, recs |-> NoRecs]
Going(i, recs) == [stage |-> "going", man |-> run[i].man, recs |-> recs]

Idle == [at |-> "off", man |-> 1, recs |-> NoRecs, white |-> {}, todo |-> {},
         packs |-> {}, gifts |-> {}, opening |-> {}, landed |-> {}, orphans |-> {},
         made |-> {}, kept |-> {}, stop |-> "no", bad |-> FALSE]

M(i) == story.man[run[i].man]

-----------------------------------------------------------------------------
(* The plan.                                                               *)

NeedsCheck(recs, m, k) ==
  recs[k] = NoRec \/ m[k].at > recs[k] \/ ~Exists(Where[k])

\* A file that matches its hash is left out, and stays without a new record.
Tasks(recs, m) ==
  {k \in DOMAIN m : /\ ~m[k].gift /\ NeedsCheck(recs, m, k)
                    /\ k \in Folder \/ disk[Where[k]] # Whole(m[k].of)}

Gifts(m) == {k \in DOMAIN m : m[k].gift /\ ~Exists(Where[k])}

GiftPaths(m) == {Where[k] : k \in {j \in DOMAIN m : m[j].gift}}
Unprotected(m) == {}                                             \* mutant
Protected(m) == UserData \cup GiftPaths(m)

Gone(recs, m) == {Where[k] : k \in {j \in Key \ DOMAIN m : recs[j] # NoRec}}

ModPaths(m) == {Where[k] : k \in {j \in DOMAIN m : ~m[j].gift}} \cap Mods

NothingForeign(m, white) == {}                                   \* mutant
Foreign(m, white) == {p \in Mods : Exists(p)} \ (ModPaths(m) \cup white)

Orphans(recs, m, white) == (Gone(recs, m) \ Protected(m)) \cup Foreign(m, white)

-----------------------------------------------------------------------------
(* The server, the user, the game.                                         *)

Publish ==
  /\ latest < Len(story.man)
  /\ latest' = latest + 1
  /\ UNCHANGED <<files, app, story, saved, run, active, seen, overtaken, harm, touches>>

\* Somebody removes a path or writes another content there.
Touch(p) ==
  /\ touches < MaxTouch /\ p \in story.touch
  /\ \E d \in {Absent, Whole(Own)} \ {disk[p]} : disk' = [disk EXCEPT ![p] = d]
  /\ excused' = excused \cup {p}
  /\ touches' = touches + 1
  /\ UNCHANGED <<app, story, latest, zip, saved, run, active, seen, overtaken, harm>>

\* A goroutine of DownloadPack begins; they are alike, so the first idle one does.
Begins(i) ==
  /\ i <= story.asks
  /\ run[i].at = "off" /\ \A j \in Session : j < i => run[j].at # "off"
  /\ run' = [run EXCEPT ![i].at = "fetch"]

Ask(i) ==
  /\ Begins(i)
  /\ UNCHANGED <<world, files, app, saved, active>>

Play(i) ==
  /\ story.play /\ launch = "off" /\ Begins(i)
  /\ launch' = "poll"
  /\ UNCHANGED <<world, files, saved, active, failed, del>>

\* Manager.Pause and Manager.Cancel set flags that the Runner reads later.
Stop(s) ==
  /\ active # 0 /\ run[active].stop \in {"no", "pause"} \ {s}
  /\ run' = [run EXCEPT ![active].stop = s]
  /\ UNCHANGED <<world, files, app, saved, active>>

\* DeletePack asks the Runner to stop, does not wait for it, ends the game and
\* removes the folder; the state goes in a later step.
DeleteFiles ==
  /\ story.goes /\ touches < MaxTouch /\ ~del
  /\ run' = IF active = 0 THEN run ELSE [run EXCEPT ![active].stop = "cancel"]
  /\ disk' = [p \in Path |-> Absent] /\ zip' = [k \in Key |-> Own]
  /\ launch' = IF launch = "game" THEN "off" ELSE launch
  /\ del' = TRUE /\ excused' = Path /\ touches' = touches + 1
  /\ UNCHANGED <<story, latest, saved, active, failed, seen, overtaken, harm>>

DeleteState ==
  /\ del /\ del' = FALSE /\ saved' = Fresh
  /\ UNCHANGED <<world, files, run, active, failed, launch>>

-----------------------------------------------------------------------------
(* DownloadPack up to the start of the Runner.                             *)

FetchFails(i) ==
  /\ run[i].at = "fetch"
  /\ run' = [run EXCEPT ![i] = Idle] /\ failed' = TRUE
  /\ UNCHANGED <<world, files, saved, active, launch, del>>

Fetch(i) ==
  /\ run[i].at = "fetch"
  /\ run' = [run EXCEPT ![i].at = "load", ![i].man = latest]
  /\ UNCHANGED <<world, files, app, saved, active>>

\* The records are read before the wait; without a network the whitelist is empty.
Load(i) ==
  /\ run[i].at = "load"
  /\ \E w \in {story.spared, {}} :
       run' = [run EXCEPT ![i].at = "ask", ![i].recs = saved.recs, ![i].white = w]
  /\ UNCHANGED <<world, files, app, saved, active>>

WaitsForNobody(i) ==                                             \* mutant
  /\ run[i].at = "ask" /\ run' = [run EXCEPT ![i].at = "wait"]
  /\ UNCHANGED <<world, files, app, saved, active>>

WaitFor(i) ==
  /\ run[i].at = "ask"
  /\ run' = [run EXCEPT ![i].at = IF active = 0 THEN "start" ELSE "wait"]
  /\ UNCHANGED <<world, files, app, saved, active>>

\* Manager.Start refuses when another session was faster.
Refused(i) ==
  /\ run[i].at = "start" /\ active # 0
  /\ run' = [run EXCEPT ![i] = Idle]
  /\ UNCHANGED <<world, files, app, saved, active>>

\* Manager.Start and the first lines of Run: the state is saved, the plan made.
\* A path that is not there is fetched again: from now on it is answered for.
Start(i) ==
  LET m == M(i)
      jobs == Tasks(run[i].recs, m)
  IN
  /\ run[i].at = "start" /\ active = 0
  /\ active' = i /\ saved' = Going(i, run[i].recs)
  /\ run' = [run EXCEPT ![i] = [run[i] EXCEPT
       !.at = IF jobs \cup Gifts(m) = {} THEN "sweep" ELSE "queues",
       !.todo = jobs, !.packs = jobs \cap Folder, !.gifts = Gifts(m),
       !.orphans = Orphans(run[i].recs, m, run[i].white),
       !.kept = {p \in GiftPaths(m) : Exists(p)}]]
  /\ excused' = {p \in excused : Exists(p)}
  /\ seen' = IF run[i].man > seen THEN run[i].man ELSE seen
  /\ overtaken' = (overtaken \/ run[i].man < seen)
  /\ UNCHANGED <<app, story, latest, disk, zip, harm, touches>>

-----------------------------------------------------------------------------
(* The Runner.                                                             *)

\* Run returns: Manager forgets the session and wakes whoever waits for it.
Ends(i) ==
  /\ run' = [j \in Session |-> IF j = i THEN Idle
            ELSE IF run[j].at = "wait" THEN [run[j] EXCEPT !.at = "start"] ELSE run[j]]
  /\ active' = 0
  /\ launch' = IF launch = "join" THEN "game" ELSE launch

\* What Run does where it looks at the flags: a cancel removes the folders that
\* this session made and the stage, a pause saves.
Halts(i) ==
  /\ \/ /\ run[i].stop = "cancel"
        /\ disk' = [p \in Path |-> IF p \in run[i].made THEN Absent ELSE disk[p]]
        /\ saved' = [Going(i, run[i].recs) EXCEPT !.stage = "none"]
     \/ /\ run[i].stop = "pause" /\ disk' = disk /\ saved' = Going(i, run[i].recs)
  /\ Ends(i)
  /\ UNCHANGED <<world, zip, failed, del, excused>>

Lands(p, c) ==
  /\ disk' = [disk EXCEPT ![p] = Whole(c)]
  /\ excused' = excused \ {p}

LandRecorded(i, k) ==                                            \* mutant
  /\ run[i].at = "queues" /\ k \in run[i].todo
  /\ IF k \in Folder
     THEN zip' = [zip EXCEPT ![k] = M(i)[k].of] /\ UNCHANGED <<disk, excused>>
     ELSE Lands(Where[k], M(i)[k].of) /\ UNCHANGED zip
  /\ run' = [run EXCEPT ![i].todo = @ \ {k}, ![i].landed = @ \cup {k}]
  /\ UNCHANGED <<world, app, saved, active>>

\* A task of the queues has its file, or its archive, under the final name.
Land(i, k) ==
  /\ run[i].at = "queues" /\ k \in run[i].todo
  /\ IF k \in Folder
     THEN /\ zip' = [zip EXCEPT ![k] = M(i)[k].of]
          /\ run' = [run EXCEPT ![i].todo = @ \ {k}]
          /\ UNCHANGED <<disk, excused>>
     ELSE /\ Lands(Where[k], M(i)[k].of)
          /\ run' = [run EXCEPT ![i].todo = @ \ {k}, ![i].landed = @ \cup {k}]
          /\ UNCHANGED zip
  /\ UNCHANGED <<world, app, saved, active>>

\* All tries of a task fail; the other tasks of both queues go on.
TaskFails(i, k) ==
  /\ run[i].at = "queues" /\ k \in run[i].todo
  /\ run' = [run EXCEPT ![i].todo = @ \ {k}, ![i].bad = TRUE]
  /\ UNCHANGED <<world, files, app, saved, active>>

\* markTaskComplete, markArchiveComplete, markOnMissingComplete.
Note(i, k) ==
  LET m == M(i)
      stamp == IF ~m[k].gift THEN m[k].at
               ELSE IF k \in Folder THEN Blank ELSE run[i].recs[k]
      recs == [run[i].recs EXCEPT ![k] = stamp]
  IN
  /\ run[i].at \in {"queues", "gifts", "unzip"} /\ k \in run[i].landed
  /\ run' = [run EXCEPT ![i].landed = @ \ {k}, ![i].recs = recs]
  /\ saved' = Going(i, recs)
  /\ UNCHANGED <<world, files, app, active>>

QueuesOver(i) ==
  /\ run[i].at = "queues" /\ run[i].landed = {}
  /\ run[i].todo = {} \/ run[i].stop # "no"

QueuesHalt(i) == QueuesOver(i) /\ Halts(i)

QueuesFail(i) ==
  /\ QueuesOver(i) /\ run[i].stop = "no" /\ run[i].bad
  /\ Ends(i)
  /\ UNCHANGED <<world, files, saved, failed, del>>

QueuesEnd(i) ==
  /\ QueuesOver(i) /\ run[i].stop = "no" /\ ~run[i].bad
  /\ run' = [run EXCEPT ![i].at = "gifts"]
  /\ UNCHANGED <<world, files, app, saved, active>>

\* Between two gifts; while one is downloaded nobody looks at the flags but the
\* reader of the body, and that is an error.
NextGift(i) == run[i].at = "gifts" /\ run[i].opening = {} /\ run[i].landed = {}

GiftsHalt(i) == NextGift(i) /\ run[i].gifts # {} /\ Halts(i)

GiftLand(i, k) ==
  /\ NextGift(i) /\ k \in run[i].gifts
  /\ IF k \in Folder
     THEN /\ zip' = [zip EXCEPT ![k] = M(i)[k].of]
          /\ run' = [run EXCEPT ![i].gifts = @ \ {k}, ![i].opening = {k}]
          /\ UNCHANGED <<disk, excused>>
     ELSE /\ Lands(Where[k], M(i)[k].of)
          /\ run' = [run EXCEPT ![i].gifts = @ \ {k}, ![i].landed = {k}]
          /\ UNCHANGED zip
  /\ UNCHANGED <<world, app, saved, active>>

GiftFails(i) ==
  /\ NextGift(i) /\ run[i].gifts # {}
  /\ Ends(i)
  /\ UNCHANGED <<world, files, saved, failed, del>>

GiftsEnd(i) ==
  /\ NextGift(i) /\ run[i].gifts = {}
  /\ run' = [run EXCEPT ![i].at = "unzip"]
  /\ saved' = Going(i, run[i].recs)
  /\ UNCHANGED <<world, files, app, active>>

NextPack(i) == run[i].at = "unzip" /\ run[i].landed = {}

PacksHalt(i) == NextPack(i) /\ run[i].packs # {} /\ Halts(i)

\* The archives that extractOverrideFolder may be at work on.
Open(i) == Folder \cap IF NextPack(i) THEN run[i].packs
                       ELSE IF run[i].at = "gifts" THEN run[i].opening ELSE {}

\* The files, with their sizes, that a folder may be found with: of a half one
\* nobody knows which.  "Unpacked already" says the code when every file of the
\* archive is among them; it asks for neither their bytes nor what else is there.
Found(d) == IF d.whole THEN {Listing[d.of]}
            ELSE IF d = Absent THEN {{}} ELSE SUBSET Listing[d.of] \ {Listing[d.of]}

Fits(c, found) == Listing[c] \subseteq found

Unpack(i, k) ==
  LET p == Where[k]
      new == M(i)[k].of
  IN
  /\ k \in Open(i) /\ zip[k] # Own
  /\ \E found \in Found(disk[p]) :
       IF Fits(new, found) THEN disk' = disk /\ excused' = excused \ {p} ELSE Lands(p, new)
  /\ zip' = [zip EXCEPT ![k] = Own]
  /\ run' = [run EXCEPT ![i] = [run[i] EXCEPT
       !.packs = @ \ {k}, !.opening = {}, !.landed = {k},
       !.made = IF Exists(p) \/ disk' = disk THEN @ ELSE @ \cup {p}]]
  /\ UNCHANGED <<world, app, saved, active>>

\* An unpacking stops while it removes the old folder, before it has written, or
\* half-way.  A folder that the next plan will find and not look into, because it
\* is a gift or has its record, stays like that.
CutShort(i, k) ==
  LET p == Where[k]
      Skips(recs) == \E j \in Key : Where[j] = p /\ recs[j] >= M(i)[k].at
  IN
  /\ k \in Open(i) /\ zip[k] # Own
  /\ \E found \in Found(disk[p]) : ~Fits(M(i)[k].of, found)
  /\ \E d \in {Absent, Half(disk[p].of), Half(M(i)[k].of)} : disk' = [disk EXCEPT ![p] = d]
  /\ excused' = IF \/ M(i)[k].gift \/ Skips(saved.recs)
                   \/ \E j \in Session : Skips(run[j].recs)
                THEN excused \cup {p} ELSE excused

UnpackFails(i, k) ==
  /\ harm < MaxHarm /\ CutShort(i, k)
  /\ harm' = harm + 1 /\ Ends(i)
  /\ UNCHANGED <<story, latest, zip, saved, failed, del, seen, overtaken, touches>>

\* DeletePack took the archive away.
ArchiveGone(i, k) ==
  /\ k \in Open(i) /\ zip[k] = Own
  /\ Ends(i)
  /\ UNCHANGED <<world, files, saved, failed, del>>

PacksEnd(i) ==
  /\ NextPack(i) /\ run[i].packs = {}
  /\ run' = [run EXCEPT ![i].at = "sweep"]
  /\ zip' = [k \in Key |-> Own] /\ saved' = Going(i, run[i].recs)
  /\ UNCHANGED <<world, app, disk, active, excused>>

\* removeOrphans; the records of what was removed go with it.
Removes(i, p) ==
  /\ run[i].at = "sweep" /\ p \in run[i].orphans
  /\ Exists(p) /\ \A k \in Folder : Where[k] # p
  /\ disk' = [disk EXCEPT ![p] = Absent] /\ excused' = excused \ {p}
  /\ run' = [run EXCEPT ![i].orphans = @ \ {p},
                        ![i].recs = [k \in Key |-> IF Where[k] = p THEN NoRec ELSE @[k]]]
  /\ UNCHANGED <<world, app, zip, saved, active>>

\* Nothing there, a folder, which os.Remove refuses, or a file that is in use.
Leaves(i, p) ==
  /\ run[i].at = "sweep" /\ p \in run[i].orphans
  /\ \/ (~Exists(p) \/ \E k \in Folder : Where[k] = p) /\ UNCHANGED <<excused, harm>>
     \/ /\ harm < MaxHarm /\ harm' = harm + 1
        /\ Exists(p) /\ excused' = excused \cup {p}
  /\ run' = [run EXCEPT ![i].orphans = @ \ {p}]
  /\ UNCHANGED <<app, story, latest, disk, zip, saved, active, seen, overtaken, touches>>

Completes(i) ==
  /\ run[i].at = "sweep" /\ run[i].orphans = {}
  /\ saved' = [Going(i, run[i].recs) EXCEPT !.stage = "complete"]
  /\ Ends(i)
  /\ UNCHANGED <<world, files, failed, del>>

\* The launcher dies, in the middle of an unpacking or not.
Crash ==
  /\ harm < MaxHarm /\ harm' = harm + 1
  /\ \/ UNCHANGED <<disk, excused>>
     \/ active # 0 /\ \E k \in Key : CutShort(active, k)
  /\ run' = [i \in Session |-> Idle] /\ active' = 0 /\ failed' = FALSE
  /\ launch' = "off" /\ del' = FALSE
  /\ UNCHANGED <<story, latest, zip, saved, seen, overtaken, touches>>

-----------------------------------------------------------------------------
(* waitForSyncStartThenFinish.                                             *)

PollSees ==
  /\ launch = "poll" /\ active # 0
  /\ launch' = "join" /\ failed' = FALSE
  /\ UNCHANGED <<world, files, saved, run, active, del>>

PollGivesUp ==
  /\ launch = "poll" /\ active = 0 /\ failed
  /\ launch' = "game"
  /\ UNCHANGED <<world, files, saved, run, active, failed, del>>

WaitsForEver == FALSE                                            \* mutant

\* Twenty seconds without a Runner.
PollTimesOut ==
  /\ launch = "poll" /\ active = 0 /\ ~failed
  /\ launch' = "game"
  /\ UNCHANGED <<world, files, saved, run, active, failed, del>>

GameEnds ==
  /\ launch = "game" /\ launch' = "off"
  /\ UNCHANGED <<world, files, saved, run, active, failed, del>>

-----------------------------------------------------------------------------
Before(i) == FetchFails(i) \/ Fetch(i) \/ Load(i) \/ WaitFor(i) \/ Refused(i) \/ Start(i)

Works(i) ==
  \/ \E k \in Key : \/ Land(i, k) \/ TaskFails(i, k) \/ Note(i, k) \/ GiftLand(i, k)
                    \/ Unpack(i, k) \/ UnpackFails(i, k) \/ ArchiveGone(i, k)
  \/ QueuesHalt(i) \/ QueuesFail(i) \/ QueuesEnd(i)
  \/ GiftsHalt(i) \/ GiftFails(i) \/ GiftsEnd(i)
  \/ PacksHalt(i) \/ PacksEnd(i)
  \/ \E p \in Path : Removes(i, p) \/ Leaves(i, p)
  \/ Completes(i)

Polls == PollSees \/ PollGivesUp \/ PollTimesOut

Init ==
  /\ story \in Cases /\ latest = 1
  /\ disk = [p \in Path |-> Absent] /\ zip = [k \in Key |-> Own]
  /\ saved = Fresh /\ run = [i \in Session |-> Idle] /\ active = 0
  /\ failed = FALSE /\ launch = "off" /\ del = FALSE
  /\ excused = {} /\ seen = 1 /\ overtaken = FALSE /\ harm = 0 /\ touches = 0

Next ==
  \/ Publish \/ \E p \in Path : Touch(p)
  \/ \E i \in Session : Ask(i) \/ Play(i)
  \/ \E s \in {"pause", "cancel"} : Stop(s)
  \/ DeleteFiles \/ DeleteState
  \/ \E i \in Session : Before(i) \/ Works(i)
  \/ Crash \/ Polls \/ GameEnds

Spec == /\ Init /\ [][Next]_vars
        /\ \A i \in Session : WF_vars(Before(i) \/ Works(i))
        /\ WF_vars(Polls)

-----------------------------------------------------------------------------
Run ==
  [at : {"off", "fetch", "load", "ask", "wait", "start", "queues", "gifts", "unzip",
         "sweep"},
   man : Nat \ {0}, recs : Records, white : SUBSET Path, todo : SUBSET Key,
   packs : SUBSET Key, gifts : SUBSET Key, opening : SUBSET Key, landed : SUBSET Key,
   orphans : SUBSET Path, made : SUBSET Path, kept : SUBSET Path,
   stop : {"no", "pause", "cancel"}, bad : BOOLEAN]

\* Types; a Runner knows only published manifests, and one that works is active.
TypeOK ==
  /\ story \in Cases /\ latest \in DOMAIN story.man
  /\ disk \in [Path -> [of : Content \cup {Own}, whole : BOOLEAN]]
  /\ zip \in [Key -> Content \cup {Own}]
  /\ saved \in [stage : {"none", "going", "complete"}, man : 1 .. latest, recs : Records]
  /\ run \in [Session -> Run] /\ active \in Session \cup {0}
  /\ \A i \in Session :
       /\ run[i].man <= latest
       /\ i = active <=> run[i].at \in {"queues", "gifts", "unzip", "sweep"}
  /\ failed \in BOOLEAN /\ launch \in {"off", "poll", "join", "game"}
  /\ del \in BOOLEAN /\ excused \subseteq Path
  /\ seen \in 1 .. latest /\ overtaken \in BOOLEAN
  /\ harm \in 0 .. MaxHarm /\ touches \in 0 .. MaxTouch

\* What the sync sees to when c is due at path p, and d is there: a file is c itself;
\* a folder has every file of the archive c, with its size.
Holds(d, p, c) ==
  \/ d = Whole(c)
  \/ /\ \E k \in Folder : Where[k] = p
     /\ \E found \in Found(d) : Fits(c, found)

Newest == story.man[seen]

\* A set of records that calls a key of the newest manifest in use current is right:
\* what a plan would skip without reading it is there and complete.
Backed(recs) ==
  \A k \in DOMAIN Newest :
    /\ ~Newest[k].gift /\ recs[k] >= Newest[k].at
    /\ Exists(Where[k]) /\ Where[k] \notin excused
    => Holds(disk[Where[k]], Where[k], Newest[k].of)

RecordsBacked ==
  ~overtaken => Backed(saved.recs) /\ \A i \in Session : Backed(run[i].recs)

\* "complete, safe to play": every file and folder of the manifest is there and
\* complete, and mods/ holds nothing else.
CompleteIsCurrent ==
  ~overtaken /\ saved.stage = "complete" =>
    LET m == story.man[saved.man] IN
    /\ \A k \in DOMAIN m :
         ~m[k].gift /\ Where[k] \notin excused
           => Holds(disk[Where[k]], Where[k], m[k].of)
    /\ \A p \in Mods : Exists(p) => p \in ModPaths(m) \cup excused \cup story.spared

\* What the comments of the code promise beyond that: an update fully replaces what
\* a folder holds, so where nothing went wrong and the user changed nothing, every
\* file and every folder is the one of the manifest.
CompleteIsManifest ==
  saved.stage = "complete" /\ ~overtaken /\ harm = 0 /\ touches = 0 =>
    LET m == story.man[saved.man] IN
    \A k \in DOMAIN m : ~m[k].gift => disk[Where[k]] = Whole(m[k].of)

\* A file or folder of the on_missing rules that is there when a Runner makes its
\* plan is never written or removed by that Runner, an update, a cancel and the
\* removal of orphans included.
GiftsKept ==
  [][\A i \in Session : \A p \in run[i].kept :
       disk'[p] = disk[p] \/ Touch(p) \/ DeleteFiles]_vars

\* Every DownloadPack comes to an end.
RunEnds == \A i \in Session : run[i].at # "off" ~> run[i].at = "off"

\* A launch never waits for ever for the sync it asked for.
LaunchEnds == launch \in {"poll", "join"} ~> launch \in {"game", "off"}
=============================================================================
