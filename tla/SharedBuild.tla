------------------------------ MODULE SharedBuild ------------------------------
(***************************************************************************)
(* A friend's build (or game server) is received into a stage folder and   *)
(* installed from there: share/client.go fetches and verifies its files,   *)
(* share/journal.go remembers what is done, share_shaurma.go moves the     *)
(* verified tree to its place and registers it, and share/install.go       *)
(* brings an installation that was cut short to one of two clean states.   *)
(*                                                                         *)
(* The state is what lies on the disk and what the goroutine of the one    *)
(* transfer holds in memory.  The launcher may be killed, or the power     *)
(* cut, at any moment, also in the middle of a removal or of a copy        *)
(* between two disks; a failing call of the file system is a fault.  The   *)
(* network appears as the bytes that come, may be wrong and may be lost,   *)
(* and as the friend who may be gone.                                      *)
(***************************************************************************)
EXTENDS Integers, FiniteSets

CONSTANTS
    File,          \* the files of the build
    Big,           \* those that are fetched one by one, not in bundles
    Dsts,          \* folders it can be installed in, in the order they are tried
    Absent,        \* no folder
    maxHashFails,  \* how often one file may arrive with wrong bytes
    MaxHarm        \* bound: crashes, power cuts, failing calls, discards on the way;
                   \* none after a power cut that harmed what was complete

Stage == 0                         \* FilesDir(stage)
Places == Dsts \cup {Stage}
Content == {"none", "good", "bad"}
Tree == [File -> Content]
Empty == [f \in File |-> "none"]

ASSUME ConstantsAreGiven ==
    /\ IsFiniteSet(File) /\ Big \subseteq File
    /\ Dsts \subseteq Nat \ {Stage}
    /\ Absent \notin Tree
    /\ maxHashFails \in Nat \ {0}
    /\ MaxHarm \in Nat

VARIABLES
    kind,       \* "build" or "server"
    up,         \* the launcher runs
    harm,       \* how many of those so far
    \* on the disk
    tree,       \* [Places -> Tree or Absent]: a folder and its complete files
    part,       \* [File -> Content]: what a ".part" holds, "good" for a right beginning
    journal,    \* journal.json: indices that are done, and whether all are
    manifest,   \* manifest.json can be read
    card,       \* card.json is there
    marker,     \* install.json: the folder of an installation under way
    book,       \* folders the launcher knows as builds or servers
    \* in memory
    pc,         \* where the goroutine of the transfer, or shareBoot, is
    job,        \* "boot", "accept" or "discard"
    dst,        \* the folder it installs in or takes back from
    mem,        \* Downloader.done
    dirty,      \* Downloader.dirty
    fails,      \* Downloader.hashFails
    gone,       \* nobody answers this transfer any more
    \* ghosts
    owed,       \* a complete transfer has not been registered yet
    trouble     \* what has happened that the code does not recover from

diskVars == <<tree, part>>
noteVars == <<journal, manifest, card, marker>>
loadVars == <<mem, dirty, fails, gone>>
vars == <<kind, up, harm, diskVars, noteVars, book, pc, job, dst, loadVars, owed, trouble>>

Journal == [done : SUBSET File, complete : BOOLEAN]
NoJournal == [done |-> {}, complete |-> FALSE]
Marker == [dst : Places, reg : BOOLEAN]
NoMarker == [dst |-> Stage, reg |-> FALSE]
Troubles == {"torn", "stuck", "swept", "power", "discarded", "unasked"}
Good == [f \in File |-> "good"]
Whole(p) == tree[p] = Good

Init ==
    /\ kind \in {"build", "server"}
    /\ up = TRUE /\ harm = 0
    /\ tree = [p \in Places |-> Absent]
    /\ part = [f \in File |-> "none"]
    /\ journal = NoJournal /\ manifest = FALSE /\ card = FALSE /\ marker = NoMarker
    /\ book = {}
    /\ pc = "off" /\ job = "boot" /\ dst = Stage
    /\ mem = {} /\ dirty = FALSE /\ fails = [f \in File |-> 0] /\ gone = FALSE
    /\ owed = FALSE /\ trouble = {}

---------------------------------------------------------------------------
(* Steps                                                                   *)

Harm == harm < MaxHarm /\ "power" \notin trouble /\ harm' = harm + 1
Fine == harm' = harm

Forgotten == /\ pc' = "off" /\ job' = "boot"
             /\ dst' = Stage /\ mem' = {} /\ dirty' = FALSE
             /\ fails' = [f \in File |-> 0] /\ gone' = FALSE

\* The goroutine goes on to its next call ...
Goes(from, to) == /\ up /\ pc = from /\ pc' = to
                  /\ UNCHANGED <<kind, up, job>>

\* ... or ends, with or without an error.
Ends(from) == /\ up /\ pc = from /\ Forgotten
              /\ UNCHANGED <<kind, up>>

\* The process dies at the call.
Dies(from) == /\ up /\ pc = from /\ Forgotten
              /\ up' = FALSE /\ Harm
              /\ kind' = kind

Troubled(S) == trouble' = trouble \cup S

---------------------------------------------------------------------------
(* Folders                                                                 *)

\* What a removal that was cut short leaves of t ...
Less(t) == {u \in Tree : \A f \in File : u[f] \in {t[f], "none"}}

\* ... and a copy: the file being copied is cut, those after it are missing.
Started(t) == {u \in Tree :
                 /\ \A f \in File : u[f] \in {t[f], "none"} \/ (u[f] = "bad" /\ t[f] # "none")
                 /\ \A f, g \in File : u[f] = "bad" /\ u[g] = "bad" /\ f # g
                                         => t[f] = "bad" \/ t[g] = "bad"}

Gone(p) == tree' = [tree EXCEPT ![p] = Absent]

\* MoveTree: by a rename, or by a copy and the removal of the source.
Moved(p, q) == /\ tree[p] # Absent /\ tree[q] = Absent
               /\ tree' = [tree EXCEPT ![q] = tree[p], ![p] = Absent]

Half(p, q) == /\ tree[p] # Absent /\ tree[q] = Absent
              /\ \/ \E t \in Started(tree[p]) : tree' = [tree EXCEPT ![q] = t]
                 \/ \E t \in Less(tree[p]) : tree' = [tree EXCEPT ![q] = tree[p], ![p] = t]

\* The stage holds a part of the tree and the rest is only somewhere else.
Torn(p) == IF tree'[Stage] \in {tree[p], Absent} THEN {} ELSE {"torn"}

MoveCut(p, q) == Half(p, q) /\ Troubled(Torn(p))

\* MoveTree returns an error.  The half copy of a failed copying is removed;
\* when this, or the removal of the source, fails as well both are left.
Unmoved(p, q) ==
    \/ (tree[p] = Absent \/ tree[q] # Absent) /\ Fine /\ tree' = tree
    \/ tree[p] # Absent /\ tree[q] = Absent /\ Harm /\ tree' = tree
    \/ Half(p, q) /\ Harm

---------------------------------------------------------------------------
(* The user and the start of the launcher                                  *)

\* A build is known by a file beside its folder, a server by one inside it;
\* the folders of the servers are read when the launcher starts.
Listed == IF kind = "server" THEN {d \in book : tree[d] # Absent} ELSE book

\* The first call of the frontend brings the stages in order (shareBoot).
Boot ==
    /\ ~up /\ up' = TRUE
    /\ book' = Listed
    /\ pc' = "recover" /\ job' = "boot"
    /\ UNCHANGED <<kind, harm, diskVars, noteVars, dst, loadVars, owed, trouble>>

Free(d) == tree[d] = Absent /\ (kind = "build" => d \notin book)

Accept ==
    /\ up /\ pc = "off" /\ \E d \in Dsts : Free(d)
    /\ pc' = "recover" /\ job' = "accept"
    /\ card' = TRUE
    /\ UNCHANGED <<kind, up, harm, diskVars, journal, manifest, marker, book, dst, loadVars,
                   owed, trouble>>

\* ShareDiscard and ShareDiscardRecovered, when no transfer is running ...
Discard ==
    /\ up /\ pc = "off"
    /\ pc' = "clean" /\ job' = "discard"
    /\ UNCHANGED <<kind, up, harm, diskVars, noteVars, book, dst, loadVars, owed, trouble>>

Erased == /\ Gone(Stage) /\ part' = Empty
          /\ journal' = NoJournal /\ manifest' = FALSE /\ card' = FALSE /\ marker' = NoMarker

\* ... and when one is, and has not stopped within three seconds.
DiscardUnderway ==
    /\ up /\ pc \notin {"off", "clean"} /\ job = "accept"
    /\ Harm /\ Erased /\ Troubled({"discarded"})
    /\ UNCHANGED <<kind, up, book, pc, job, dst, loadVars, owed>>

---------------------------------------------------------------------------
(* RecoverInstall                                                          *)

KnownByMarker == marker.reg                   \* mutant: the launcher's lists are not asked
Known == marker.reg \/ (kind = "build" /\ marker.dst \in book)

\* The marker of a server has no id until it says registered: nobody is asked.
Unasked == IF kind = "server" /\ marker.dst \in book THEN {"unasked"} ELSE {}

Nothing == marker = NoMarker

RecoverNothing ==
    /\ Nothing
    /\ Goes("recover", "ready") /\ Fine
    /\ UNCHANGED <<diskVars, noteVars, book, dst, loadVars, owed, trouble>>

RecoverDone ==
    /\ ~Nothing /\ Known
    /\ Goes("recover", "clean") /\ Fine
    /\ UNCHANGED <<diskVars, noteVars, book, dst, loadVars, owed, trouble>>

\* Originals in the stage and something in the folder: that is a half copy.
\* Only in the folder: it has to come back.  Otherwise nothing was moved.
WaysBack(m) == IF tree[m] = Absent THEN "clear"
               ELSE IF tree[Stage] # Absent THEN "wipe" ELSE "back"
WaysBackInHaste(m) == IF tree[m] # Absent THEN "wipe" ELSE "clear"   \* mutant
RecoverBack(m) == WaysBack(m)

Recover ==
    /\ ~Nothing /\ ~Known
    /\ Goes("recover", RecoverBack(marker.dst)) /\ Fine
    /\ dst' = marker.dst
    /\ Troubled(Unasked)
    /\ UNCHANGED <<diskVars, noteVars, book, loadVars, owed>>

Wipe ==
    /\ Goes("wipe", "clear") /\ Fine
    /\ Gone(dst)
    /\ UNCHANGED <<part, noteVars, book, dst, loadVars, owed, trouble>>

WipeCut ==
    /\ Dies("wipe")
    /\ tree[dst] # Absent
    /\ \E t \in Less(tree[dst]) : tree' = [tree EXCEPT ![dst] = t]
    /\ UNCHANGED <<part, noteVars, book, owed, trouble>>

Back ==
    /\ Goes("back", "clear") /\ Fine
    /\ Moved(dst, Stage)
    /\ UNCHANGED <<part, noteVars, book, dst, loadVars, owed, trouble>>

BackCut ==
    /\ Dies("back")
    /\ MoveCut(dst, Stage)
    /\ UNCHANGED <<part, noteVars, book, owed>>

\* After an error the marker stays; shareBoot goes on to look at the stage.
RecoverFails ==
    /\ \/ /\ pc = "wipe" /\ Harm /\ Troubled({"stuck"})
          /\ tree[dst] # Absent
          /\ \E t \in Less(tree[dst]) : tree' = [tree EXCEPT ![dst] = t]
       \/ /\ pc = "back" /\ Unmoved(dst, Stage) /\ Troubled({"stuck"} \cup Torn(dst))
    /\ \/ job = "boot" /\ Goes(pc, "ready") /\ UNCHANGED <<dst, loadVars>>
       \/ job = "accept" /\ Ends(pc)
    /\ UNCHANGED <<part, noteVars, book, owed>>

Clear ==
    /\ Goes("clear", "ready") /\ Fine
    /\ marker' = NoMarker /\ dst' = Stage
    /\ UNCHANGED <<diskVars, journal, manifest, card, book, loadVars, owed, trouble>>

---------------------------------------------------------------------------
(* The stage is in order                                                   *)

\* shareBoot removes a stage without a card, or one that is too old.
BootKeeps ==
    /\ job = "boot" /\ card
    /\ Ends("ready") /\ Fine
    /\ UNCHANGED <<diskVars, noteVars, book, owed, trouble>>

BootRemoves ==
    /\ job = "boot"
    /\ Goes("ready", "clean") /\ Fine
    /\ UNCHANGED <<diskVars, noteVars, book, dst, loadVars, owed, trouble>>

\* Everything was received before: no friend is needed to install it.
Offline == journal.complete /\ manifest

InstallOffline ==
    /\ job = "accept" /\ Offline
    /\ Goes("ready", "begin") /\ Fine
    /\ UNCHANGED <<diskVars, noteVars, book, dst, loadVars, owed, trouble>>

\* The friend is not reached, or has closed the access.
NoTransfer ==
    /\ job = "accept" /\ ~Offline
    /\ Ends("ready") /\ Fine
    /\ UNCHANGED <<diskVars, noteVars, book, owed, trouble>>

---------------------------------------------------------------------------
(* Downloader.Run                                                          *)

Held == IF tree[Stage] = Absent THEN Empty ELSE tree[Stage]

VerifiedBySize == {f \in journal.done : Held[f] # "none"}          \* mutant
Verified == {f \in journal.done : Held[f] = "good"}

\* What the journal calls done is hashed again, what fails is removed.
Prepared == tree' = [tree EXCEPT ![Stage] = [f \in File |-> IF f \in journal.done \ Verified
                                                           THEN "none" ELSE Held[f]]]

Prepare ==
    /\ job = "accept" /\ ~Offline
    /\ Goes("ready", "fetch") /\ Fine
    /\ mem' = Verified /\ dirty' = (Verified # {})
    /\ fails' = [f \in File |-> 0] /\ gone' = FALSE
    /\ Prepared
    /\ manifest' = TRUE
    /\ UNCHANGED <<part, journal, card, marker, book, dst, owed, trouble>>

\* manifest.json is not written atomically.
PrepareCut ==
    /\ job = "accept" /\ ~Offline
    /\ Dies("ready")
    /\ Prepared
    /\ manifest' = FALSE
    /\ UNCHANGED <<part, journal, card, marker, book, owed, trouble>>

\* There is not enough space for what is missing.
NoRoom ==
    /\ job = "accept" /\ ~Offline
    /\ Ends("ready") /\ Fine
    /\ Prepared
    /\ manifest' = TRUE
    /\ UNCHANGED <<part, journal, card, marker, book, owed, trouble>>

\* Bytes come from the friend, or from the CDN, right or wrong.
Grow(f) ==
    /\ ~gone /\ f \notin mem /\ part[f] = "none"
    /\ Goes("fetch", "fetch") /\ Fine
    /\ tree' = [tree EXCEPT ![Stage] = Held]
    /\ \E c \in {"good", "bad"} : part' = [part EXCEPT ![f] = c]
    /\ UNCHANGED <<noteVars, book, dst, loadVars, owed, trouble>>

\* finishFile: the hash of all bytes is right, the ".part" becomes the file.
Finish(f) ==
    /\ ~gone /\ f \notin mem /\ part[f] = "good"
    /\ Goes("fetch", "fetch") /\ Fine
    /\ tree' = [tree EXCEPT ![Stage] = [Held EXCEPT ![f] = "good"]]
    /\ part' = [part EXCEPT ![f] = "none"]
    /\ mem' = mem \cup {f} /\ dirty' = TRUE
    /\ UNCHANGED <<noteVars, book, dst, fails, gone, owed, trouble>>

FinishCut(f) ==
    /\ f \notin mem /\ part[f] = "good"
    /\ Dies("fetch")
    /\ tree' = [tree EXCEPT ![Stage] = [Held EXCEPT ![f] = "none"]]
    /\ UNCHANGED <<part, noteVars, book, owed, trouble>>

RejectUncounted(f) ==                    \* mutant
    /\ ~gone /\ f \notin mem /\ part[f] = "bad"
    /\ Goes("fetch", "fetch") /\ Fine
    /\ part' = [part EXCEPT ![f] = "none"]
    /\ UNCHANGED <<tree, noteVars, book, dst, loadVars, owed, trouble>>

RejectForEver(f) ==                      \* mutant: counted, but never too often
    /\ ~gone /\ f \notin mem /\ part[f] = "bad"
    /\ Goes("fetch", "fetch") /\ Fine
    /\ part' = [part EXCEPT ![f] = "none"]
    /\ fails' = [fails EXCEPT ![f] = @ + 1]
    /\ UNCHANGED <<tree, noteVars, book, dst, mem, dirty, gone, owed, trouble>>

\* Run ends and writes the journal once more.
Stops ==
    /\ Ends("fetch")
    /\ journal' = IF dirty THEN [done |-> mem, complete |-> FALSE] ELSE journal

\* dropBad: a file that has come wrong too often ends the transfer.
Reject(f) ==
    /\ ~gone /\ f \notin mem /\ part[f] = "bad"
    /\ Fine
    /\ part' = [part EXCEPT ![f] = "none"]
    /\ \/ /\ fails[f] + 1 < maxHashFails
          /\ Goes("fetch", "fetch")
          /\ fails' = [fails EXCEPT ![f] = @ + 1]
          /\ UNCHANGED <<journal, dst, mem, dirty, gone>>
       \/ fails[f] + 1 >= maxHashFails /\ Stops
    /\ UNCHANGED <<tree, manifest, card, marker, book, owed, trouble>>

\* What has come of a file is dropped and counted nowhere: more bytes than it
\* has, a bundle that breaks off, other bytes from the CDN.
Lose(f) ==
    /\ ~gone /\ f \notin mem /\ part[f] # "none"
    /\ Goes("fetch", "fetch") /\ Fine
    /\ part' = [part EXCEPT ![f] = "none"]
    /\ UNCHANGED <<tree, noteVars, book, dst, loadVars, owed, trouble>>

\* From now on no answer comes, from the friend or the CDN.
FriendGoes ==
    /\ ~gone /\ gone' = TRUE
    /\ Goes("fetch", "fetch") /\ Fine
    /\ UNCHANGED <<diskVars, noteVars, book, dst, mem, dirty, fails, owed, trouble>>

\* retry gives a bundle up when nothing has come for long enough.  It never gives
\* up a big file: each attempt begins with setCounted, which counts as progress.
GiveUp(f) ==
    /\ f \notin mem /\ f \notin Big
    /\ Stops /\ Fine
    /\ UNCHANGED <<diskVars, manifest, card, marker, book, owed, trouble>>

\* Cancelled, the access is closed, the disk is full: the transfer ends.
StopFetching ==
    /\ Stops /\ Fine
    /\ UNCHANGED <<diskVars, manifest, card, marker, book, owed, trouble>>

\* The ticker writes the journal every two seconds.
Persist ==
    /\ dirty
    /\ Goes("fetch", "fetch") /\ Fine
    /\ journal' = [done |-> mem, complete |-> FALSE] /\ dirty' = FALSE
    /\ UNCHANGED <<diskVars, manifest, card, marker, book, dst, mem, fails, gone, owed, trouble>>

\* Everything is there; an error of writing the journal is ignored.
Complete ==
    /\ mem = File
    /\ Goes("fetch", "begin")
    /\ \/ Fine /\ journal' = [done |-> mem, complete |-> TRUE]
       \/ Harm /\ journal' = journal
    /\ dirty' = FALSE /\ gone' = FALSE
    /\ owed' = TRUE
    /\ UNCHANGED <<diskVars, manifest, card, marker, book, dst, mem, fails, trouble>>

---------------------------------------------------------------------------
(* finalizeShareIn: installSharedBuild, installSharedServer                *)

BeginUnmarked ==                         \* mutant: the marker is only written at the end
    /\ \E d \in Dsts : Free(d) /\ dst' = d
    /\ Goes("begin", "move") /\ Fine
    /\ UNCHANGED <<diskVars, noteVars, book, loadVars, owed, trouble>>

\* The marker is written before anything moves.  The first free name is taken,
\* but a build's is not free again when its folder was emptied.
Begin ==
    /\ \E d \in Dsts :
         /\ Free(d) /\ (kind = "build" \/ \A e \in Dsts : e < d => ~Free(e))
         /\ dst' = d
         /\ marker' = [dst |-> d, reg |-> FALSE]
    /\ Goes("begin", "move") /\ Fine
    /\ UNCHANGED <<diskVars, journal, manifest, card, book, loadVars, owed, trouble>>

BeginFails ==
    /\ Ends("begin") /\ Harm
    /\ UNCHANGED <<diskVars, noteVars, book, owed, trouble>>

Move ==
    /\ Goes("move", "save") /\ Fine
    /\ Moved(Stage, dst)
    /\ UNCHANGED <<part, noteVars, book, dst, loadVars, owed, trouble>>

MoveFails ==
    /\ Goes("move", "drop") /\ Unmoved(Stage, dst)
    /\ Troubled(IF tree' = tree THEN {} ELSE {"stuck"} \cup Torn(Stage))
    /\ UNCHANGED <<part, noteVars, book, dst, loadVars, owed>>

MoveDies ==
    /\ Dies("move")
    /\ MoveCut(Stage, dst)
    /\ UNCHANGED <<part, noteVars, book, owed>>

\* The launcher knows the build: customPacks.Save, AddServerFromFolder.
Save ==
    /\ Goes("save", "mark") /\ Fine
    /\ book' = book \cup {dst}
    /\ owed' = FALSE
    /\ UNCHANGED <<diskVars, noteVars, dst, loadVars, trouble>>

SaveFails ==
    /\ Goes("save", "undo") /\ Harm
    /\ UNCHANGED <<diskVars, noteVars, book, dst, loadVars, owed, trouble>>

AfterUndo == IF kind = "build" THEN "wipePack" ELSE "drop"

Undo ==
    /\ Goes("undo", AfterUndo) /\ Fine
    /\ Moved(dst, Stage)
    /\ UNCHANGED <<part, noteVars, book, dst, loadVars, owed, trouble>>

\* What made Save fail may make this MoveTree fail as well.  Its error is ignored,
\* and a build's folder goes all the same.
UndoFails ==
    /\ Goes("undo", AfterUndo) /\ Fine
    /\ tree' = tree \/ Half(dst, Stage)
    /\ Troubled({"stuck", "torn"})
    /\ UNCHANGED <<part, noteVars, book, dst, loadVars, owed>>

UndoCut ==
    /\ Dies("undo")
    /\ MoveCut(dst, Stage)
    /\ UNCHANGED <<part, noteVars, book, owed>>

WipePack ==
    /\ Goes("wipePack", "drop")
    /\ \/ Gone(dst) /\ Fine /\ trouble' = trouble
       \/ /\ tree[dst] # Absent /\ Harm /\ Troubled({"stuck"})
          /\ \E t \in Less(tree[dst]) : tree' = [tree EXCEPT ![dst] = t]
    /\ UNCHANGED <<part, noteVars, book, dst, loadVars, owed>>

WipePackCut ==
    /\ Dies("wipePack")
    /\ tree[dst] # Absent
    /\ \E t \in Less(tree[dst]) : tree' = [tree EXCEPT ![dst] = t]
    /\ UNCHANGED <<part, noteVars, book, owed, trouble>>

Drop ==
    /\ Ends("drop") /\ Fine
    /\ marker' = NoMarker
    /\ UNCHANGED <<diskVars, journal, manifest, card, book, owed, trouble>>

\* MarkInstalled: its error is ignored.
MarkInstalled ==
    /\ Goes("mark", "clean")
    /\ \/ Fine /\ marker' = [dst |-> dst, reg |-> TRUE]
       \/ Harm /\ marker' = marker
    /\ UNCHANGED <<diskVars, journal, manifest, card, book, dst, loadVars, owed, trouble>>

Clean ==
    /\ Ends("clean") /\ Fine
    /\ Erased
    /\ UNCHANGED <<book, owed, trouble>>

\* What is left when RemoveAll(stage) gets no further.
Swept == /\ \/ tree' = tree
            \/ tree[Stage] # Absent /\ \E t \in Less(tree[Stage]) \cup {Absent} :
                                            tree' = [tree EXCEPT ![Stage] = t]
         /\ part' = IF tree'[Stage] = Absent THEN Empty ELSE part
         /\ journal' \in {journal, NoJournal}
         /\ manifest' \in {manifest, FALSE}
         /\ card' \in {card, FALSE}
         /\ marker' \in {marker, NoMarker}

CleanCut ==
    /\ (Dies("clean")) \/ (Ends("clean") /\ Harm)
    /\ Swept /\ Troubled({"swept"})
    /\ UNCHANGED <<book, owed>>

---------------------------------------------------------------------------
(* The end of the process                                                  *)

Kill ==
    /\ Dies(pc)
    /\ UNCHANGED <<diskVars, noteVars, book, owed, trouble>>

\* Files that were not flushed are bad afterwards, and so may the notes be ...
PowerCut ==
    /\ Dies(pc)
    /\ \E S \in SUBSET File :
         /\ tree' = [p \in Places |->
                       IF p \in {Stage, marker.dst} /\ tree[p] # Absent
                       THEN [f \in File |-> IF f \in S /\ tree[p][f] # "none" THEN "bad" ELSE tree[p][f]]
                       ELSE tree[p]]
         /\ part' = [f \in File |-> IF f \in S /\ part[f] # "none" THEN "bad" ELSE part[f]]
    /\ journal' \in {journal, NoJournal}
    /\ manifest' \in {manifest, FALSE}
    /\ marker' \in {marker, NoMarker}
    /\ Troubled(IF journal.complete \/ marker # NoMarker THEN {"power"} ELSE {})
    /\ UNCHANGED <<card, book, owed>>

\* ... or folders that are registered, and the launcher's lists.
PowerCutAfter ==
    /\ Dies(pc)
    /\ book # {}
    /\ \E R \in SUBSET book : tree' = [p \in Places |-> IF p \in R /\ tree[p] # Absent
                                                     THEN [f \in File |-> "bad"] ELSE tree[p]]
    /\ book' \in {book, {}}
    /\ Troubled({"power"})
    /\ UNCHANGED <<part, noteVars, owed>>

---------------------------------------------------------------------------
Recovery == RecoverNothing \/ RecoverDone \/ Recover \/ Wipe \/ Back \/ RecoverFails \/ Clear
Fetch == Prepare \/ NoRoom \/ NoTransfer \/ Persist \/ Complete
Install == \/ InstallOffline \/ Begin \/ BeginFails \/ Move \/ MoveFails \/ Save \/ SaveFails
           \/ Undo \/ UndoFails \/ WipePack \/ Drop \/ MarkInstalled \/ Clean

\* What the goroutine, or shareBoot, does by itself when nothing kills it ...
Work == Recovery \/ BootKeeps \/ BootRemoves \/ Fetch \/ Install

\* ... and what it does when an answer comes, or none, or it is told to stop.
Answer(f) == Finish(f) \/ Reject(f)
Network == \/ FriendGoes \/ StopFetching
           \/ \E f \in File : Grow(f) \/ Answer(f) \/ Lose(f) \/ GiveUp(f)

Death == \/ Kill \/ PowerCut \/ PowerCutAfter \/ WipeCut \/ BackCut \/ PrepareCut \/ (\E f \in File : FinishCut(f))
         \/ MoveDies \/ UndoCut \/ WipePackCut \/ CleanCut

User == Boot \/ Accept \/ Discard \/ DiscardUnderway

Next == User \/ Work \/ Network \/ Death

\* While anybody answers bytes come, and again and again those of some file come
\* to their end.  When nobody does, the clock of retry runs out unless a big file
\* sets it back.
GoesOn == \/ Work
          \/ \E f \in File : Grow(f)
          \/ gone /\ Big \subseteq mem /\ \E f \in File : GiveUp(f)

Fairness == WF_vars(GoesOn) /\ SF_vars(\E f \in File : Answer(f))

Spec == Init /\ [][Next]_vars /\ Fairness

---------------------------------------------------------------------------
(* Properties                                                              *)

\* The shape of the state.
TypeOK ==
    /\ kind \in {"build", "server"} /\ up \in BOOLEAN
    /\ harm \in Nat
    /\ tree \in [Places -> Tree \cup {Absent}]
    /\ part \in [File -> Content]
    /\ journal \in Journal /\ manifest \in BOOLEAN /\ card \in BOOLEAN
    /\ marker \in Marker
    /\ book \in SUBSET Dsts
    /\ pc \in {"off", "recover", "wipe", "back", "clear", "ready", "fetch", "begin", "move",
               "save", "undo", "wipePack", "drop", "mark", "clean"}
    /\ job \in {"boot", "accept", "discard"}
    /\ dst \in Places
    /\ mem \in SUBSET File /\ dirty \in BOOLEAN
    /\ fails \in [File -> 0..maxHashFails] /\ gone \in BOOLEAN
    /\ owed \in BOOLEAN
    /\ trouble \in SUBSET Troubles

\* A build or server the launcher knows has every file, each with the right
\* bytes, whatever call was interrupted on the way by the end of the process, and
\* by a power cut that came before anything was complete (Downloader.Run,
\* RecoverInstall).
RegisteredWhole ==
    trouble \subseteq {"stuck"} => \A d \in book : Whole(d)

\* What the journal calls complete can still be installed without the friend:
\* the tree is whole in the stage, or in the folder the marker names.
FilesSurvive ==
    journal.complete /\ trouble = {} => Whole(Stage) \/ (marker # NoMarker /\ Whole(marker.dst))

\* What is registered is never taken back (RecoverInstall asks whether the
\* launcher knows it, because the marker may not say so yet).
RegisteredIsKept == pc \in {"wipe", "back"} => dst \notin book

\* At rest no folder is left that the launcher does not know: the clean states
\* RecoverInstall promises are reached.
NoLeftovers ==
    up /\ pc = "off" /\ trouble \subseteq {"torn"} =>
        marker = NoMarker /\ \A d \in Dsts : tree[d] # Absent => d \in book

\* One complete transfer gives one build, although its installation may be
\* begun again after every crash (InstallMarker, shareInstallRegistered).
InstalledOnce ==
    [][~(book' \subseteq book) /\ trouble \subseteq {"torn", "stuck"} => owed]_vars

\* A transfer ends, also when what comes is wrong or lost again and again
\* (maxHashFails), and when the friend is gone (StallTimeout, SenderGone) - but
\* not when he is gone and a big file is still to come: that is tried for ever.
TransferEnds == pc # "off" ~> pc = "off" \/ (gone /\ ~(Big \subseteq mem))
===============================================================================
