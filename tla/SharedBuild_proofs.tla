--------------------------- MODULE SharedBuild_proofs ---------------------------
(***************************************************************************)
(* What SharedBuild promises, for all sets of files and folders and any    *)
(* number of crashes, power cuts and failing calls.                        *)
(***************************************************************************)
EXTENDS SharedBuild, TLAPS

---------------------------------------------------------------------------
(* Types                                                                   *)

TreeOK == tree \in [Places -> Tree \cup {Absent}]
PartOK == part \in [File -> Content]
RestOK ==
    /\ kind \in {"build", "server"} /\ up \in BOOLEAN
    /\ harm \in Nat
    /\ journal \in Journal /\ manifest \in BOOLEAN /\ card \in BOOLEAN
    /\ marker \in Marker
    /\ book \in SUBSET Dsts
    /\ job \in {"boot", "accept", "discard"}
    /\ dst \in Places
    /\ mem \in SUBSET File /\ dirty \in BOOLEAN /\ gone \in BOOLEAN
    /\ owed \in BOOLEAN
    /\ trouble \in SUBSET Troubles
PcOK == pc \in {"off", "recover", "wipe", "back", "clear", "ready", "fetch", "begin", "move",
                "save", "undo", "wipePack", "drop", "mark", "clean"}
FailsOK == /\ fails \in [File -> 0..maxHashFails]
           /\ pc = "fetch" => \A f \in File : fails[f] < maxHashFails

\* An empty tree and a cut one are trees.
LEMMA EmptyIsATree == Empty \in Tree /\ Good \in Tree
  BY DEF Empty, Good, Tree, Content

LEMMA CutIsATree == \A t \in Tree : Less(t) \subseteq Tree /\ Started(t) \subseteq Tree
  BY DEF Less, Started


LEMMA TreeStep == TypeOK /\ [Next]_vars => TreeOK'
<1> SUFFICES ASSUME TypeOK, [Next]_vars PROVE TreeOK'
  OBVIOUS
<1>0. /\ TreeOK /\ dst \in Places /\ marker.dst \in Places /\ Stage \in Places
      /\ journal.done \subseteq File
  BY DEF TypeOK, TreeOK, Marker, Places, Journal
<1>1. Held \in Tree
  BY <1>0, EmptyIsATree DEF Held, TreeOK
<1>2. \A p \in Places : tree' = [tree EXCEPT ![p] = Absent] => TreeOK'
  BY <1>0 DEF TreeOK
<1>3. \A p \in Places, t \in Tree : tree' = [tree EXCEPT ![p] = t] => TreeOK'
  BY <1>0 DEF TreeOK
<1>4. \A p, q \in Places : Moved(p, q) => TreeOK'
  BY <1>0 DEF TreeOK, Moved
<1>5. \A p, q \in Places : Half(p, q) => TreeOK'
  BY <1>0, CutIsATree DEF TreeOK, Half
<1>6. \A p, q \in Places : Unmoved(p, q) => TreeOK'
  BY <1>0, <1>5 DEF Unmoved, TreeOK
<1>7. tree' = tree => TreeOK'
  BY <1>0 DEF TreeOK
<1>8. CASE Recovery
  <2>1. CASE Wipe \/ Back
    BY <2>1, <1>0, <1>2, <1>4 DEF Wipe, Back, Gone
  <2>2. CASE RecoverFails
    BY <2>2, <1>0, <1>3, <1>6, CutIsATree DEF RecoverFails, TreeOK
  <2>3. CASE RecoverNothing \/ RecoverDone \/ Recover \/ Clear
    BY <2>3, <1>7 DEF RecoverNothing, RecoverDone, Recover, Clear, diskVars
  <2>. QED
    BY <1>8, <2>1, <2>2, <2>3 DEF Recovery
<1>9. [f \in File |-> IF f \in journal.done \ Verified THEN "none" ELSE Held[f]] \in Tree
  BY <1>1 DEF Tree, Content
<1>10. \A f \in File, c \in Content : [Held EXCEPT ![f] = c] \in Tree
  BY <1>1 DEF Tree
<1>11. CASE Fetch \/ Network
  <2>1. CASE Prepare \/ NoRoom
    BY <2>1, <1>0, <1>3, <1>9 DEF Prepare, NoRoom, Prepared
  <2>2. ASSUME NEW f \in File, Grow(f) \/ Finish(f) PROVE TreeOK'
    BY <2>2, <1>0, <1>1, <1>3, <1>10 DEF Grow, Finish, Content
  <2>3. ASSUME NEW f \in File, Reject(f) \/ Lose(f) PROVE TreeOK'
    BY <2>3, <1>7 DEF Reject, Lose
  <2>4. CASE NoTransfer \/ StopFetching \/ FriendGoes \/ (\E f \in File : GiveUp(f)) \/ Persist \/ Complete
    BY <2>4, <1>7 DEF NoTransfer, StopFetching, FriendGoes, GiveUp, Persist, Stops, Complete, diskVars
  <2>. QED
    BY <1>11, <2>1, <2>2, <2>3, <2>4 DEF Fetch, Network, Answer
<1>12. CASE Install
  <2>1. CASE Move \/ MoveFails \/ Undo \/ UndoFails
    BY <2>1, <1>0, <1>4, <1>5, <1>6, <1>7 DEF Move, MoveFails, Undo, UndoFails
  <2>2. CASE WipePack
    BY <2>2, <1>0, <1>2, <1>3, CutIsATree DEF WipePack, Gone, TreeOK
  <2>3. CASE Clean
    BY <2>3, <1>0, <1>2 DEF Clean, Erased, Gone
  <2>4. CASE InstallOffline \/ Begin \/ BeginFails \/ Save \/ SaveFails \/ Drop \/ MarkInstalled
    BY <2>4, <1>7 DEF InstallOffline, Begin, BeginFails, Save, SaveFails, Drop, MarkInstalled, diskVars
  <2>. QED
    BY <1>12, <2>1, <2>2, <2>3, <2>4 DEF Install
<1>13. CASE Death
  <2>1. CASE Kill
    BY <2>1, <1>7 DEF Kill, diskVars
  <2>2. CASE PowerCut
    <3>1. PICK S \in SUBSET File :
            tree' = [p \in Places |->
                       IF p \in {Stage, marker.dst} /\ tree[p] # Absent
                       THEN [f \in File |-> IF f \in S /\ tree[p][f] # "none" THEN "bad" ELSE tree[p][f]]
                       ELSE tree[p]]
      BY <2>2 DEF PowerCut
    <3>2. \A t \in Tree : [f \in File |-> IF f \in S /\ t[f] # "none" THEN "bad" ELSE t[f]] \in Tree
      BY DEF Tree, Content
    <3>. QED
      BY <1>0, <3>1, <3>2 DEF TreeOK
  <2>3. CASE WipeCut \/ WipePackCut
    BY <2>3, <1>0, <1>3, CutIsATree DEF WipeCut, WipePackCut, TreeOK
  <2>4. CASE BackCut \/ MoveDies \/ UndoCut
    BY <2>4, <1>0, <1>5 DEF BackCut, MoveDies, UndoCut, MoveCut
  <2>5. CASE PrepareCut
    BY <2>5, <1>0, <1>3, <1>9 DEF PrepareCut, Prepared
  <2>6. ASSUME NEW f \in File, FinishCut(f) PROVE TreeOK'
    BY <2>6, <1>0, <1>3, <1>10 DEF FinishCut, Content
  <2>8. CASE PowerCutAfter
    <3>1. [f \in File |-> "bad"] \in Tree
      BY DEF Tree, Content
    <3>. QED
      BY <2>8, <3>1, <1>0 DEF PowerCutAfter, TreeOK
  <2>7. CASE CleanCut
    BY <2>7, <1>0, <1>2, <1>3, <1>7, CutIsATree DEF CleanCut, Swept, TreeOK
  <2>. QED
    BY <1>13, <2>1, <2>2, <2>3, <2>4, <2>5, <2>6, <2>7, <2>8 DEF Death
<1>14. CASE User
  BY <1>14, <1>0, <1>2, <1>7 DEF User, Boot, Listed, Accept, Discard, DiscardUnderway, Erased, Gone, diskVars
<1>15. CASE BootKeeps \/ BootRemoves \/ UNCHANGED vars
  BY <1>15, <1>7 DEF BootKeeps, BootRemoves, vars, diskVars
<1>. QED
  BY <1>8, <1>11, <1>12, <1>13, <1>14, <1>15 DEF Next, Work

LEMMA PartStep == TypeOK /\ [Next]_vars => PartOK'
<1> SUFFICES ASSUME TypeOK, [Next]_vars PROVE PartOK'
  OBVIOUS
<1>1. PartOK
  BY DEF TypeOK, PartOK
<1>2. part' = part \/ part' = Empty => PartOK'
  BY <1>1, EmptyIsATree DEF PartOK, Tree
<1>3. CASE Recovery
  BY <1>3, <1>2 DEF Recovery, RecoverNothing, RecoverDone, Recover, Wipe, Back, RecoverFails, Clear, diskVars
<1>4. CASE Fetch \/ Network
  <2>1. ASSUME NEW f \in File, Grow(f) \/ Finish(f) \/ Reject(f) \/ Lose(f) PROVE PartOK'
    BY <2>1, <1>1 DEF Grow, Finish, Reject, Lose, PartOK, Content
  <2>2. CASE Prepare \/ NoRoom \/ NoTransfer \/ StopFetching \/ FriendGoes \/ (\E f \in File : GiveUp(f)) \/ Persist \/ Complete
    BY <2>2, <1>2 DEF Prepare, NoRoom, NoTransfer, StopFetching, FriendGoes, GiveUp, Persist, Stops, Complete, diskVars
  <2>. QED
    BY <1>4, <2>1, <2>2 DEF Fetch, Network, Answer
<1>5. CASE Install
  BY <1>5, <1>2 DEF Install, InstallOffline, Begin, BeginFails, Move, MoveFails, Save, SaveFails, Undo, UndoFails,
                    WipePack, Drop, MarkInstalled, Clean, Erased, diskVars
<1>6. CASE Death
  <2>1. CASE PowerCut
    BY <2>1, <1>1 DEF PowerCut, PartOK, Content
  <2>2. CASE CleanCut
    BY <2>2, <1>2 DEF CleanCut, Swept
  <2>3. CASE Kill \/ PowerCutAfter \/ WipeCut \/ BackCut \/ PrepareCut \/ (\E f \in File : FinishCut(f))
             \/ MoveDies \/ UndoCut \/ WipePackCut
    BY <2>3, <1>2 DEF Kill, PowerCutAfter, WipeCut, BackCut, PrepareCut, FinishCut, MoveDies, UndoCut, WipePackCut, diskVars
  <2>. QED
    BY <1>6, <2>1, <2>2, <2>3 DEF Death
<1>7. CASE User
  BY <1>7, <1>2 DEF User, Boot, Listed, Accept, Discard, DiscardUnderway, Erased, diskVars
<1>8. CASE BootKeeps \/ BootRemoves \/ UNCHANGED vars
  BY <1>8, <1>2 DEF BootKeeps, BootRemoves, vars, diskVars
<1>. QED
  BY <1>3, <1>4, <1>5, <1>6, <1>7, <1>8 DEF Next, Work

LEMMA FailsStep == TypeOK /\ FailsOK /\ [Next]_vars => FailsOK'
<1> SUFFICES ASSUME TypeOK, FailsOK, [Next]_vars PROVE FailsOK'
  OBVIOUS
<1>0. maxHashFails \in Nat \ {0}
  BY ConstantsAreGiven
<1>1. fails' = [f \in File |-> 0] => FailsOK'
  BY <1>0 DEF FailsOK
<1>2. fails' = fails /\ (pc' = "fetch" => pc = "fetch") => FailsOK'
  BY DEF FailsOK
<1> USE DEF Goes, Ends, Dies, Forgotten
<1>3. CASE Recovery
  BY <1>3, <1>1, <1>2 DEF Recovery, RecoverNothing, RecoverDone, Recover, Wipe, Back, RecoverFails, Clear,
                          loadVars, RecoverBack, WaysBack
<1>4. CASE Fetch \/ Network
  <2>1. ASSUME NEW f \in File, Reject(f) PROVE FailsOK'
    <3>1. pc = "fetch" /\ fails[f] \in Nat /\ fails[f] < maxHashFails
      BY <2>1 DEF Reject, Stops, FailsOK
    <3>2. CASE fails' = [fails EXCEPT ![f] = @ + 1] /\ fails[f] + 1 < maxHashFails
      BY <1>0, <3>1, <3>2 DEF FailsOK
    <3>. QED
      BY <2>1, <3>2, <1>1 DEF Reject, Stops
  <2>2. CASE Prepare \/ NoRoom \/ NoTransfer \/ StopFetching \/ FriendGoes \/ (\E f \in File : GiveUp(f)) \/ Persist \/ Complete
    BY <2>2, <1>1, <1>2 DEF Prepare, NoRoom, NoTransfer, StopFetching, FriendGoes, GiveUp, Persist, Stops, Complete, loadVars
  <2>3. ASSUME NEW f \in File, Grow(f) \/ Finish(f) \/ Lose(f) PROVE FailsOK'
    BY <2>3, <1>2 DEF Grow, Finish, Lose, loadVars
  <2>. QED
    BY <1>4, <2>1, <2>2, <2>3 DEF Fetch, Network, Answer
<1>5. CASE Install
  BY <1>5, <1>1, <1>2 DEF Install, InstallOffline, Begin, BeginFails, Move, MoveFails, Save, SaveFails, Undo,
                          UndoFails, AfterUndo, WipePack, Drop, MarkInstalled, Clean, loadVars
<1>6. CASE Death
  BY <1>6, <1>1 DEF Death, Kill, PowerCut, PowerCutAfter, WipeCut, BackCut, PrepareCut, FinishCut, MoveDies, UndoCut,
                    WipePackCut, CleanCut
<1>7. CASE User
  BY <1>7, <1>2 DEF User, Boot, Listed, Accept, Discard, DiscardUnderway, loadVars
<1>8. CASE BootKeeps \/ BootRemoves \/ UNCHANGED vars
  BY <1>8, <1>1, <1>2 DEF BootKeeps, BootRemoves, vars, loadVars
<1>. QED
  BY <1>3, <1>4, <1>5, <1>6, <1>7, <1>8 DEF Next, Work

LEMMA PcStep == PcOK /\ [Next]_vars => PcOK'
<1> SUFFICES ASSUME PcOK, [Next]_vars PROVE PcOK'
  OBVIOUS
<1> USE DEF PcOK, Goes, Ends, Dies, Forgotten
<1>1. CASE Recovery
  BY <1>1 DEF Recovery, RecoverNothing, RecoverDone, Recover, Wipe, Back, RecoverFails, Clear,
              RecoverBack, WaysBack
<1>2. CASE Fetch \/ Network
  BY <1>2 DEF Fetch, Network, Answer, Prepare, NoRoom, NoTransfer, StopFetching, FriendGoes, GiveUp, Persist, Stops,
              Complete, Grow, Finish, Reject, Lose
<1>3. CASE Install
  BY <1>3 DEF Install, InstallOffline, Begin, BeginFails, Move, MoveFails, Save, SaveFails, Undo,
              UndoFails, AfterUndo, WipePack, Drop, MarkInstalled, Clean
<1>4. CASE Death
  BY <1>4 DEF Death, Kill, PowerCut, PowerCutAfter, WipeCut, BackCut, PrepareCut, FinishCut, MoveDies, UndoCut,
              WipePackCut, CleanCut
<1>5. CASE User
  BY <1>5 DEF User, Boot, Listed, Accept, Discard, DiscardUnderway
<1>6. CASE BootKeeps \/ BootRemoves \/ UNCHANGED vars
  BY <1>6 DEF BootKeeps, BootRemoves, vars
<1>. QED
  BY <1>1, <1>2, <1>3, <1>4, <1>5, <1>6 DEF Next, Work

\* Only a folder that is being installed in, or taken back from, is touched ...
Busy == {"wipe", "back", "clear", "move", "save", "undo", "wipePack", "drop"}

InDsts == /\ pc \in Busy \cup {"mark"} => dst \in Dsts
          /\ marker.reg => marker.dst \in Dsts

\* ... and it is unknown to the launcher until it is registered, unless it is a
\* server the launcher was not asked for or the lists are lost.  A marker that says registered speaks
\* the truth.
Asked == trouble \cap {"unasked", "power"} = {}

Hands == Asked =>
    /\ pc \in Busy => dst \in Dsts \ book
    /\ pc = "mark" => dst \in book
    /\ marker.reg => marker.dst \in book

\* What the launcher knows has its folder.
Kept == Asked =>
    /\ \A d \in book : tree[d] # Absent
    /\ pc = "save" => tree[dst] # Absent

\* The notes, the flags and the ghosts.
LEMMA RestStep == TypeOK /\ InDsts /\ [Next]_vars => RestOK'
<1> SUFFICES ASSUME TypeOK, InDsts, [Next]_vars PROVE RestOK'
  OBVIOUS
<1>0. /\ RestOK
      /\ NoJournal \in Journal /\ NoMarker \in Marker
      /\ \A S \in SUBSET File, b \in BOOLEAN : [done |-> S, complete |-> b] \in Journal
      /\ \A d \in Places, b \in BOOLEAN : [dst |-> d, reg |-> b] \in Marker
      /\ Stage \in Places /\ Dsts \subseteq Places /\ marker.dst \in Places
      /\ Verified \subseteq File
  BY DEF TypeOK, RestOK, NoJournal, Journal, NoMarker, Marker, Places, Verified
<1>1. harm' = harm \/ harm' = harm + 1 => harm' \in Nat
  BY <1>0 DEF RestOK
<1>2. \A S \in SUBSET Troubles : Troubled(S) => trouble' \in SUBSET Troubles
  BY <1>0 DEF RestOK, Troubled
<1>3. \A p : Torn(p) \subseteq Troubles
  BY DEF Torn, Troubles
<1> USE DEF Goes, Ends, Dies, Forgotten, Fine, Harm, RestOK
<1>4. CASE Recovery
  <2>1. CASE RecoverNothing \/ RecoverDone \/ Recover
    BY <2>1, <1>0, <1>2 DEF RecoverNothing, RecoverDone, Recover, Unasked, loadVars, noteVars,
         Troubles
  <2>2. CASE Wipe \/ Back \/ Clear
    BY <2>2, <1>0 DEF Wipe, Back, Clear, loadVars, noteVars
  <2>3. CASE RecoverFails
    BY <2>3, <1>0, <1>1, <1>2, <1>3 DEF RecoverFails, loadVars, noteVars, Unmoved, Troubles
  <2>. QED
    BY <1>4, <2>1, <2>2, <2>3 DEF Recovery
<1>5. CASE Fetch \/ Network
  <2>1. ASSUME NEW f \in File, Reject(f) PROVE RestOK'
    BY <2>1, <1>0, <1>1 DEF Reject, Stops
  <2>2. CASE StopFetching \/ FriendGoes \/ (\E f \in File : GiveUp(f))
    BY <2>2, <1>0, <1>1 DEF StopFetching, FriendGoes, GiveUp, Stops, noteVars
  <2>3. CASE Prepare \/ NoRoom \/ NoTransfer
    BY <2>3, <1>0 DEF Prepare, NoRoom, NoTransfer, noteVars
  <2>4. CASE Persist \/ Complete
    BY <2>4, <1>0, <1>1 DEF Persist, Complete
  <2>5. ASSUME NEW f \in File, Grow(f) \/ Finish(f) \/ Lose(f) PROVE RestOK'
    BY <2>5, <1>0, <1>1 DEF Grow, Finish, Lose, loadVars, noteVars
  <2>. QED
    BY <1>5, <2>1, <2>2, <2>3, <2>4, <2>5 DEF Fetch, Network, Answer
<1>6. CASE Install
  <2>1. CASE InstallOffline \/ Begin \/ BeginFails
    BY <2>1, <1>0, <1>1 DEF InstallOffline, Begin, BeginFails, loadVars, noteVars
  <2>2. CASE Move \/ MoveFails
    BY <2>2, <1>0, <1>1, <1>2, <1>3 DEF Move, MoveFails, loadVars, noteVars, Unmoved, Troubles
  <2>3. CASE Save \/ SaveFails
    <3>1. Save => dst \in Dsts
      BY DEF Save, InDsts, Busy
    <3>. QED
      BY <2>3, <3>1, <1>0, <1>1 DEF Save, SaveFails, loadVars, noteVars
  <2>4. CASE Undo \/ UndoFails \/ WipePack
    BY <2>4, <1>0, <1>1, <1>2, <1>3 DEF Undo, UndoFails, WipePack, loadVars, noteVars, Unmoved, Troubles
  <2>5. CASE Drop \/ MarkInstalled \/ Clean
    BY <2>5, <1>0, <1>1 DEF Drop, MarkInstalled, Clean, Erased, loadVars, noteVars
  <2>. QED
    BY <1>6, <2>1, <2>2, <2>3, <2>4, <2>5 DEF Install
<1>7. CASE Death
  BY <1>7, <1>0, <1>1, <1>2, <1>3 DEF Death, Kill, PowerCut, PowerCutAfter, WipeCut, BackCut, PrepareCut, FinishCut, MoveDies, UndoCut,
       WipePackCut, CleanCut, Swept, MoveCut, noteVars, Troubles
<1>8. CASE User
  BY <1>8, <1>0, <1>1, <1>2 DEF User, Boot, Listed, Accept, Discard, DiscardUnderway, Erased, loadVars, noteVars, Troubles
<1>9. CASE BootKeeps \/ BootRemoves \/ UNCHANGED vars
  BY <1>9, <1>0, <1>1 DEF BootKeeps, BootRemoves, vars, loadVars, noteVars
<1>. QED
  BY <1>4, <1>5, <1>6, <1>7, <1>8, <1>9 DEF Next, Work


LEMMA TypeStep == TypeOK /\ FailsOK /\ InDsts /\ [Next]_vars => TypeOK' /\ FailsOK'
<1> SUFFICES ASSUME TypeOK, FailsOK, InDsts, [Next]_vars PROVE TypeOK' /\ FailsOK'
  OBVIOUS
<1>1. PcOK
  BY DEF TypeOK, PcOK
<1>2. TreeOK' /\ PartOK' /\ FailsOK' /\ PcOK' /\ RestOK'
  BY <1>1, TreeStep, PartStep, FailsStep, PcStep, RestStep
<1>. QED
  BY <1>2 DEF TypeOK, TreeOK, PartOK, FailsOK, PcOK, RestOK

LEMMA InDstsStep == TypeOK /\ InDsts /\ [Next]_vars => InDsts'
<1> SUFFICES ASSUME TypeOK, InDsts, [Next]_vars PROVE InDsts'
  OBVIOUS
<1> USE DEF InDsts, Busy, Goes, Ends, Dies, Forgotten, Fine, Harm
<1>1. CASE UNCHANGED vars
  BY <1>1 DEF vars, noteVars, diskVars, loadVars
<1>2. CASE Recovery
  BY <1>2 DEF Recovery, RecoverNothing, RecoverDone, Recover, Wipe, Back, RecoverFails, Clear, noteVars, loadVars, Nothing, Known, RecoverBack, WaysBack, TypeOK, Marker, NoMarker, Places
<1>3. CASE BootKeeps \/ BootRemoves
  BY <1>3 DEF BootKeeps, BootRemoves, noteVars
<1>4. CASE Fetch \/ Network
  BY <1>4 DEF Fetch, Network, Answer, Prepare, NoRoom, NoTransfer, StopFetching, FriendGoes, GiveUp, Persist, Stops,
              Complete, Grow, Finish, Reject, Lose, noteVars, loadVars
<1>5. CASE Install
  BY <1>5 DEF Install, InstallOffline, Begin, BeginFails, Move, MoveFails, Save, SaveFails, Undo, UndoFails, WipePack, Drop, MarkInstalled, Clean, Erased, Free, AfterUndo, noteVars, loadVars, TypeOK, NoMarker
<1>6. CASE Death
  <2>1. CASE Kill \/ PowerCutAfter
    BY <2>1 DEF Kill, PowerCutAfter, noteVars
  <2>5. CASE PowerCut
    <3>1. pc' = "off" /\ book' = book /\ marker' \in {marker, NoMarker}
      BY <2>5 DEF PowerCut
    <3>. QED
      BY <3>1 DEF NoMarker
  <2>2. CASE WipeCut \/ BackCut \/ PrepareCut \/ \E f \in File : FinishCut(f)
    BY <2>2 DEF WipeCut, BackCut, PrepareCut, FinishCut, noteVars
  <2>3. CASE MoveDies \/ UndoCut \/ WipePackCut
    BY <2>3 DEF MoveDies, UndoCut, WipePackCut, noteVars
  <2>4. CASE CleanCut
    BY <2>4 DEF CleanCut, Swept, NoMarker
  <2>. QED
    BY <1>6, <2>1, <2>2, <2>3, <2>4, <2>5 DEF Death
<1>7. CASE User
  BY <1>7 DEF User, Boot, Listed, Accept, Discard, DiscardUnderway, Erased, noteVars, NoMarker, loadVars
<1>. QED
  BY <1>1, <1>2, <1>3, <1>4, <1>5, <1>6, <1>7 DEF Next, Work

\* What has gone wrong stays known.
LEMMA TroubleGrows == [Next]_vars => trouble \subseteq trouble'
<1> SUFFICES ASSUME [Next]_vars PROVE trouble' = trouble \/ \E S : Troubled(S)
  BY DEF Troubled
<1>1. CASE Recovery
  BY <1>1 DEF Recovery, RecoverNothing, RecoverDone, Recover, Wipe, Back, RecoverFails, Clear
<1>2. CASE Fetch \/ Network
  BY <1>2 DEF Fetch, Network, Answer, Prepare, NoRoom, NoTransfer, StopFetching, FriendGoes, GiveUp, Persist, Stops,
              Complete, Grow, Finish, Reject, Lose
<1>3. CASE Install
  BY <1>3 DEF Install, InstallOffline, Begin, BeginFails, Move, MoveFails, Save, SaveFails, Undo,
              UndoFails, WipePack, Drop, MarkInstalled, Clean
<1>4. CASE Death
  BY <1>4 DEF Death, Kill, PowerCut, PowerCutAfter, WipeCut, BackCut, PrepareCut, FinishCut, MoveDies, UndoCut,
              WipePackCut, CleanCut, MoveCut
<1>5. CASE User
  BY <1>5 DEF User, Boot, Listed, Accept, Discard, DiscardUnderway
<1>6. CASE BootKeeps \/ BootRemoves \/ UNCHANGED vars
  BY <1>6 DEF BootKeeps, BootRemoves, vars
<1>. QED
  BY <1>1, <1>2, <1>3, <1>4, <1>5, <1>6 DEF Next, Work

\* Then the list that is read again is the one that was there.
LEMMA ListedIsBook == Kept /\ Asked => Listed = book
  BY DEF Kept, Listed

LEMMA HandsStep == TypeOK /\ InDsts /\ Hands /\ Kept /\ [Next]_vars => Hands'
<1> SUFFICES ASSUME TypeOK, InDsts, Hands, Kept, [Next]_vars, Asked' PROVE Hands'
  BY DEF Hands
<1>0. Asked
  BY TroubleGrows DEF Asked
<1> USE <1>0 DEF InDsts, Hands, Kept, Busy, Goes, Ends, Dies, Forgotten, Fine, Harm
<1>1. CASE UNCHANGED vars
  BY <1>1 DEF vars, noteVars, diskVars, loadVars
<1>2. CASE Recovery
  <2>1. CASE Recover
    <3>1. marker.dst \in Dsts /\ marker.reg = FALSE
      BY <2>1 DEF Recover, Nothing, Known, TypeOK, Marker, NoMarker, Places
    <3>2. marker.dst \notin book
      BY <2>1 DEF Recover, Known, Unasked, Troubled, Asked, TypeOK
    <3>. QED
      BY <2>1, <3>1, <3>2 DEF Recover, RecoverBack, WaysBack, noteVars
  <2>2. CASE RecoverNothing \/ RecoverDone \/ Wipe \/ Back \/ RecoverFails \/ Clear
    BY <2>2 DEF RecoverNothing, RecoverDone, Wipe, Back, RecoverFails, Clear, noteVars, loadVars, TypeOK, NoMarker
  <2>. QED
    BY <1>2, <2>1, <2>2 DEF Recovery
<1>3. CASE BootKeeps \/ BootRemoves
  BY <1>3 DEF BootKeeps, BootRemoves, noteVars
<1>4. CASE Fetch \/ Network
  BY <1>4 DEF Fetch, Network, Answer, Prepare, NoRoom, NoTransfer, StopFetching, FriendGoes, GiveUp, Persist, Stops,
              Complete, Grow, Finish, Reject, Lose, noteVars, loadVars
<1>5. CASE Install
  BY <1>5 DEF Install, InstallOffline, Begin, BeginFails, Move, MoveFails, Save, SaveFails, Undo, UndoFails, WipePack, Drop, MarkInstalled, Clean, Erased, Free, AfterUndo, noteVars, loadVars, TypeOK, NoMarker
<1>6. CASE Death
  <2>1. CASE Kill
    BY <2>1 DEF Kill, noteVars
  <2>6. ~PowerCutAfter
    BY DEF PowerCutAfter, Troubled, Asked
  <2>5. CASE PowerCut
    <3>1. pc' = "off" /\ book' = book /\ marker' \in {marker, NoMarker}
      BY <2>5 DEF PowerCut
    <3>. QED
      BY <3>1 DEF NoMarker
  <2>2. CASE WipeCut \/ BackCut \/ PrepareCut \/ \E f \in File : FinishCut(f)
    BY <2>2 DEF WipeCut, BackCut, PrepareCut, FinishCut, noteVars
  <2>3. CASE MoveDies \/ UndoCut \/ WipePackCut
    BY <2>3 DEF MoveDies, UndoCut, WipePackCut, noteVars
  <2>4. CASE CleanCut
    BY <2>4 DEF CleanCut, Swept, NoMarker
  <2>. QED
    BY <1>6, <2>1, <2>2, <2>3, <2>4, <2>5, <2>6 DEF Death
<1>7. CASE User
  BY <1>7 DEF User, Boot, Listed, Accept, Discard, DiscardUnderway, Erased, noteVars, NoMarker, loadVars
<1>. QED
  BY <1>1, <1>2, <1>3, <1>4, <1>5, <1>6, <1>7 DEF Next, Work

---------------------------------------------------------------------------
(* The marker names the folder in hand                                     *)

Marked == "discarded" \notin trouble =>
    /\ pc \in Busy \cup {"mark"} => marker = [dst |-> dst, reg |-> FALSE]
    /\ pc \in {"fetch", "begin"} \/ (pc = "ready" /\ job = "accept") => marker = NoMarker

Sound == trouble \subseteq {"stuck"} =>
    /\ \A d \in book : Whole(d)
    /\ pc = "fetch" => /\ tree[Stage] # Absent /\ manifest /\ ~journal.complete
                      /\ \A f \in mem : tree[Stage][f] = "good"
    /\ pc = "begin" => manifest
    /\ journal.complete => manifest
    /\ pc \in {"begin", "move", "wipePack", "drop"} => Whole(Stage)
    /\ pc \in {"save", "undo", "mark"} => Whole(dst) /\ tree[Stage] = Absent
    /\ pc = "wipe" => tree[Stage] # Absent
    /\ pc = "clear" /\ journal.complete => Whole(Stage)
    /\ pc = "back" => tree[Stage] = Absent /\ tree[dst] # Absent
    /\ journal.complete => \/ Whole(Stage)
                           \/ tree[Stage] = Absent /\ marker # NoMarker /\ Whole(marker.dst)

Owing == trouble \subseteq {"torn", "stuck"} =>
    /\ pc \in {"begin", "move", "save", "undo", "wipePack", "drop"} => owed
    /\ journal.complete => owed \/ (marker # NoMarker /\ marker.dst \in book)

Tidy == trouble \subseteq {"torn"} =>
    /\ \A d \in Dsts : tree[d] # Absent => d \in book \/ (marker # NoMarker /\ marker.dst = d)
    /\ pc \in {"clear", "move", "drop"} => tree[dst] = Absent
    /\ pc = "ready" \/ (up /\ pc = "off") => marker = NoMarker
    /\ pc = "clean" => marker = NoMarker \/ marker.dst \in book
    /\ pc = "back" => tree[Stage] = Absent /\ tree[dst] # Absent
    /\ pc \in {"save", "undo"} => tree[dst] # Absent /\ tree[Stage] = Absent

LEMMA MarkedStep == TypeOK /\ Hands /\ Marked /\ [Next]_vars => Marked'
<1> SUFFICES ASSUME TypeOK, Hands, Marked, [Next]_vars, "discarded" \notin trouble' PROVE Marked'
  BY DEF Marked
<1>0. "discarded" \notin trouble
  BY TroubleGrows
<1> USE <1>0 DEF Marked, Busy, Goes, Ends, Dies, Forgotten
<1>1. CASE Recovery
  <2>1. CASE Recover
    <3>1. marker = [dst |-> marker.dst, reg |-> FALSE]
      BY <2>1 DEF Recover, Known, TypeOK, Marker
    <3>. QED
      BY <2>1, <3>1 DEF Recover, RecoverBack, WaysBack, noteVars
  <2>2. CASE RecoverNothing \/ RecoverDone \/ Wipe \/ Back \/ RecoverFails \/ Clear
    BY <2>2 DEF RecoverNothing, RecoverDone, Wipe, Back, RecoverFails, Clear, noteVars, Nothing
  <2>. QED
    BY <1>1, <2>1, <2>2 DEF Recovery
<1>2. CASE Fetch \/ Network
  BY <1>2 DEF Fetch, Network, Answer, Prepare, NoRoom, NoTransfer, StopFetching, FriendGoes, GiveUp, Persist, Stops,
              Complete, Grow, Finish, Reject, Lose, noteVars
<1>3. CASE Install
  BY <1>3 DEF Install, InstallOffline, Begin, BeginFails, Move, MoveFails, Save, SaveFails, Undo,
              UndoFails, AfterUndo, WipePack, Drop, MarkInstalled, Clean, noteVars
<1>4. CASE Death
  BY <1>4 DEF Death, Kill, PowerCut, PowerCutAfter, WipeCut, BackCut, PrepareCut, FinishCut, MoveDies, UndoCut,
              WipePackCut, CleanCut
<1>5. CASE User
  BY <1>5 DEF User, Boot, Listed, Accept, Discard, DiscardUnderway, Troubled, noteVars
<1>6. CASE BootKeeps \/ BootRemoves \/ UNCHANGED vars
  BY <1>6 DEF BootKeeps, BootRemoves, vars, noteVars
<1>. QED
  BY <1>1, <1>2, <1>3, <1>4, <1>5, <1>6 DEF Next, Work

LEMMA OwingStep == TypeOK /\ Hands /\ Kept /\ Marked /\ Owing /\ [Next]_vars => Owing'
<1> SUFFICES ASSUME TypeOK, Hands, Kept, Marked, Owing, [Next]_vars, trouble' \subseteq {"torn", "stuck"}
             PROVE Owing'
  BY DEF Owing
<1>0. trouble \subseteq {"torn", "stuck"} /\ "discarded" \notin trouble /\ Asked
  BY TroubleGrows DEF Asked
<1> USE <1>0 DEF Owing, Hands, Marked, Busy, Goes, Ends, Dies, Forgotten
<1>1. CASE Recovery
  BY <1>1 DEF Recovery, RecoverNothing, RecoverDone, Recover, Wipe, Back, RecoverFails, Clear, noteVars,
              Nothing, Known, RecoverBack, WaysBack
<1>2. CASE Fetch \/ Network
  BY <1>2 DEF Fetch, Network, Answer, Prepare, NoRoom, NoTransfer, StopFetching, FriendGoes, GiveUp, Persist, Stops,
              Complete, Grow, Finish, Reject, Lose, noteVars
<1>7. \A d \in Dsts, b \in BOOLEAN : [dst |-> d, reg |-> b] # NoMarker
  BY ConstantsAreGiven DEF NoMarker
<1>3. CASE Install
  <2>1. CASE InstallOffline
    BY <2>1 DEF InstallOffline, Offline, noteVars
  <2>2. CASE Begin
    BY <2>2, <1>7 DEF Begin, Free
  <2>3. CASE BeginFails \/ Move \/ MoveFails \/ SaveFails \/ Undo \/ UndoFails \/ WipePack
    BY <2>3 DEF BeginFails, Move, MoveFails, SaveFails, Undo, UndoFails, AfterUndo, WipePack, noteVars
  <2>4. CASE Save
    <3>1. /\ marker' = [dst |-> dst, reg |-> FALSE] /\ dst \in Dsts
          /\ dst \in book' /\ pc' = "mark"
      BY <2>4 DEF Save, noteVars
    <3>2. marker' # NoMarker /\ marker'.dst \in book'
      BY <3>1, <1>7
    <3>. QED
      BY <3>1, <3>2
  <2>5. CASE Drop
    BY <2>5 DEF Drop
  <2>6. CASE MarkInstalled
    <3>1. /\ marker = [dst |-> dst, reg |-> FALSE] /\ dst \in book /\ dst \in Dsts
          /\ book' = book /\ pc' = "clean"
      BY <2>6 DEF MarkInstalled, TypeOK
    <3>2. marker' \in {[dst |-> dst, reg |-> b] : b \in BOOLEAN}
      BY <2>6, <3>1 DEF MarkInstalled
    <3>3. marker' # NoMarker /\ marker'.dst \in book'
      BY <3>1, <3>2, <1>7
    <3>. QED
      BY <3>1, <3>3
  <2>7. CASE Clean
    BY <2>7 DEF Clean, Erased, NoJournal
  <2>. QED
    BY <1>3, <2>1, <2>2, <2>3, <2>4, <2>5, <2>6, <2>7 DEF Install
<1>4. CASE Death
  <2>5. ~PowerCutAfter
    BY DEF PowerCutAfter, Troubled
  <2>1. CASE PowerCut
    <3>1. ~journal.complete /\ pc' = "off"
      BY <2>1 DEF PowerCut, Troubled
    <3>2. ~journal'.complete
      BY <2>1, <3>1 DEF PowerCut, NoJournal
    <3>. QED
      BY <3>1, <3>2
  <2>2. CASE CleanCut
    BY <2>2 DEF CleanCut, Troubled
  <2>3. CASE Kill \/ WipeCut \/ BackCut \/ MoveDies \/ UndoCut \/ WipePackCut
    BY <2>3 DEF Kill, WipeCut, BackCut, MoveDies, UndoCut, WipePackCut, noteVars
  <2>4. CASE PrepareCut \/ \E f \in File : FinishCut(f)
    BY <2>4 DEF PrepareCut, FinishCut, noteVars
  <2>. QED
    BY <1>4, <2>1, <2>2, <2>3, <2>4, <2>5 DEF Death
<1>5. CASE User
  BY <1>5, ListedIsBook DEF User, Boot, Accept, Discard, DiscardUnderway, Troubled, noteVars
<1>6. CASE BootKeeps \/ BootRemoves \/ UNCHANGED vars
  BY <1>6 DEF BootKeeps, BootRemoves, vars, noteVars
<1>. QED
  BY <1>1, <1>2, <1>3, <1>4, <1>5, <1>6 DEF Next, Work

\* A folder that holds a tree is there.
LEMMA GoodIsThere == Good # Absent /\ \A t \in Tree : Good # Absent /\ t # Absent
  BY EmptyIsATree, ConstantsAreGiven

\* What a step does to the folders it names, and that it leaves the others.
LEMMA MovedFacts ==
  ASSUME TypeOK, NEW p \in Places, NEW q \in Places, p # q, Moved(p, q)
  PROVE  /\ tree'[q] = tree[p] /\ tree'[p] = Absent
         /\ \A r \in Places \ {p, q} : tree'[r] = tree[r]
  BY DEF Moved, TypeOK

LEMMA HalfFacts ==
  ASSUME TypeOK, NEW p \in Places, NEW q \in Places, p # q, Half(p, q)
  PROVE  /\ tree'[p] # Absent /\ tree'[q] # Absent /\ tree[p] # Absent /\ tree[q] = Absent
         /\ tree'[p] = tree[p] \/ tree'[q] = tree[p]
         /\ \A r \in Places \ {p, q} : tree'[r] = tree[r]
<1>1. tree[p] \in Tree /\ tree[q] = Absent
  BY DEF Half, TypeOK
<1>2. CASE \E t \in Started(tree[p]) : tree' = [tree EXCEPT ![q] = t]
  <2>1. PICK t \in Tree : tree' = [tree EXCEPT ![q] = t]
    BY <1>2, <1>1, CutIsATree
  <2>. QED
    BY <2>1, <1>1, GoodIsThere DEF TypeOK
<1>3. CASE \E t \in Less(tree[p]) : tree' = [tree EXCEPT ![q] = tree[p], ![p] = t]
  <2>1. PICK t \in Tree : tree' = [tree EXCEPT ![q] = tree[p], ![p] = t]
    BY <1>3, <1>1, CutIsATree
  <2>. QED
    BY <2>1, <1>1, GoodIsThere DEF TypeOK
<1>. QED
  BY <1>2, <1>3 DEF Half

\* Out of the stage: nothing is lost from it without being torn.
LEMMA CutOut ==
  ASSUME TypeOK, NEW q \in Dsts, Half(Stage, q), Torn(Stage) = {}
  PROVE  tree'[Stage] = tree[Stage] /\ \A r \in Places \ {q} : tree'[r] = tree[r]
<1>1. q # Stage /\ q \in Places /\ Stage \in Places
  BY ConstantsAreGiven DEF Places
<1>2. tree'[Stage] # Absent /\ \A r \in Places \ {Stage, q} : tree'[r] = tree[r]
  BY <1>1, HalfFacts
<1>3. tree'[Stage] \in {tree[Stage], Absent}
  BY DEF Torn
<1>. QED
  BY <1>2, <1>3

\* Back into the stage: all of it has come.
LEMMA CutBack ==
  ASSUME TypeOK, NEW p \in Dsts, Half(p, Stage), Torn(p) = {}
  PROVE  tree'[Stage] = tree[p] /\ \A r \in Places \ {p, Stage} : tree'[r] = tree[r]
<1>1. p # Stage /\ p \in Places /\ Stage \in Places
  BY ConstantsAreGiven DEF Places
<1>2. tree'[Stage] # Absent /\ \A r \in Places \ {Stage, p} : tree'[r] = tree[r]
  BY <1>1, HalfFacts
<1>3. tree'[Stage] \in {tree[p], Absent}
  BY DEF Torn
<1>. QED
  BY <1>2, <1>3

LEMMA SoundStep == TypeOK /\ FailsOK /\ InDsts /\ Hands /\ Marked /\ Sound /\ [Next]_vars => Sound'
<1> SUFFICES ASSUME TypeOK, TypeOK', Hands, Marked, Sound, [Next]_vars, trouble' \subseteq {"stuck"}
             PROVE Sound'
  BY TypeStep DEF Sound
<1>0. trouble \subseteq {"stuck"} /\ "discarded" \notin trouble /\ Asked
  BY TroubleGrows DEF Asked
<1>7. \A d \in Dsts, b \in BOOLEAN : [dst |-> d, reg |-> b] # NoMarker
  BY ConstantsAreGiven DEF NoMarker
<1>8. /\ Dsts \subseteq Places /\ Stage \in Places /\ Stage \notin Dsts /\ book \subseteq Dsts
      /\ tree \in [Places -> Tree \cup {Absent}]
      /\ dst \in Places /\ marker.dst \in Places
  BY ConstantsAreGiven DEF Places, TypeOK, Marker
<1>9. Good # Absent /\ \A t \in Tree : t # Absent
  BY GoodIsThere
<1> USE <1>0 DEF Sound, Hands, Marked, Busy, Whole, Goes, Ends, Dies, Forgotten
<1>1. CASE Recovery
  <2>1. CASE RecoverNothing \/ RecoverDone
    BY <2>1 DEF RecoverNothing, RecoverDone, noteVars, diskVars, loadVars
  <2>2. CASE Recover
    BY <2>2, <1>9 DEF Recover, noteVars, diskVars, loadVars, Nothing, RecoverBack, WaysBack
  <2>3. CASE Wipe
    <3>1. /\ \A r \in Places : r # dst => tree'[r] = tree[r]
          /\ dst \in Dsts \ book /\ tree[Stage] # Absent
      BY <2>3, <1>8 DEF Wipe, Gone
    <3>2. journal.complete => Whole(Stage)
      BY <3>1
    <3>. QED
      BY <2>3, <3>1, <3>2, <1>8 DEF Wipe, noteVars
  <2>4. CASE Back
    <3>1. /\ dst \in Dsts \ book /\ marker = [dst |-> dst, reg |-> FALSE] /\ tree[Stage] = Absent
          /\ Moved(dst, Stage) /\ pc' = "clear" /\ book' = book
          /\ journal' = journal /\ marker' = marker /\ manifest' = manifest
      BY <2>4 DEF Back, noteVars
    <3>2. tree'[Stage] = tree[dst] /\ \A r \in Dsts \ {dst} : tree'[r] = tree[r]
      BY <3>1, <1>8, MovedFacts
    <3>3. journal.complete => Whole(dst)
      BY <3>1, <1>9
    <3>. QED
      BY <3>1, <3>2, <3>3, <1>8
  <2>5. CASE RecoverFails
    <3>1. /\ dst \in Dsts \ book /\ marker = [dst |-> dst, reg |-> FALSE]
          /\ pc' \in {"ready", "off"} /\ book' = book
          /\ journal' = journal /\ marker' = marker /\ manifest' = manifest
      BY <2>5 DEF RecoverFails, noteVars
    <3>2. CASE pc = "wipe"
      <4>1. tree'[Stage] = tree[Stage] /\ \A d \in book : tree'[d] = tree[d]
        BY <2>5, <3>1, <3>2, <1>8 DEF RecoverFails
      <4>2. journal.complete => Whole(Stage)
        BY <3>2
      <4>. QED
        BY <3>1, <4>1, <4>2
    <3>3. CASE pc = "back"
      <4>1. Unmoved(dst, Stage) /\ Torn(dst) = {} /\ tree[Stage] = Absent /\ tree[dst] # Absent
        BY <2>5, <3>3 DEF RecoverFails, Troubled, Torn
      <4>2. CASE tree' = tree
        BY <3>1, <3>3, <4>2
      <4>3. CASE Half(dst, Stage)
        <5>1. tree'[Stage] = tree[dst] /\ \A r \in Places \ {dst, Stage} : tree'[r] = tree[r]
          BY <3>1, <4>1, <4>3, CutBack
        <5>2. journal.complete => Whole(dst)
          BY <3>1, <4>1, <1>9
        <5>. QED
          BY <3>1, <5>1, <5>2, <1>8
      <4>. QED
        BY <4>1, <4>2, <4>3 DEF Unmoved
    <3>. QED
      BY <2>5, <3>2, <3>3 DEF RecoverFails
  <2>6. CASE Clear
    BY <2>6 DEF Clear, noteVars, diskVars, loadVars
  <2>. QED
    BY <1>1, <2>1, <2>2, <2>3, <2>4, <2>5, <2>6 DEF Recovery
<1>2. CASE Fetch \/ Network
  <2>0. tree[Stage] # Absent => Held = tree[Stage]
    BY DEF Held
  <2>1. CASE Prepare
    <3>1. /\ pc' = "fetch" /\ manifest' /\ journal' = journal /\ marker' = marker /\ book' = book
          /\ ~journal.complete \/ ~manifest
          /\ \A d \in Dsts : tree'[d] = tree[d]
          /\ tree'[Stage] = [f \in File |-> IF f \in journal.done \ Verified THEN "none" ELSE Held[f]]
          /\ mem' = Verified
      BY <2>1, <1>8 DEF Prepare, Prepared, Offline
    <3>2. \A f \in mem' : tree'[Stage][f] = "good"
      BY <3>1 DEF Verified, TypeOK, Journal
    <3>3. tree'[Stage] # Absent
      <4>1. Held \in Tree
        BY <1>8, EmptyIsATree DEF Held
      <4>2. tree'[Stage] \in Tree
        BY <3>1, <4>1 DEF Tree, Content
      <4>. QED
        BY <4>2, <1>9
    <3>. QED
      BY <3>1, <3>2, <3>3, <1>8
  <2>7. CASE NoRoom
    <3>1. /\ pc' = "off" /\ journal' = journal /\ book' = book /\ ~journal.complete
          /\ \A d \in Dsts : tree'[d] = tree[d]
      BY <2>7, <1>8 DEF NoRoom, Prepared, Offline
    <3>. QED
      BY <3>1, <1>8
  <2>2. ASSUME NEW f \in File, Grow(f) PROVE Sound'
    BY <2>2, <2>0, <1>8 DEF Grow, noteVars, loadVars
  <2>3. ASSUME NEW f \in File, Finish(f) PROVE Sound'
    <3>1. /\ pc' = "fetch" /\ pc = "fetch" /\ manifest' = manifest /\ journal' = journal
          /\ book' = book /\ mem' = mem \cup {f} /\ mem \subseteq File
          /\ tree' = [tree EXCEPT ![Stage] = [tree[Stage] EXCEPT ![f] = "good"]]
          /\ tree[Stage] \in Tree
      BY <2>3, <2>0, <1>8 DEF Finish, noteVars, TypeOK
    <3>2. /\ \A d \in Dsts : tree'[d] = tree[d]
          /\ tree'[Stage] = [tree[Stage] EXCEPT ![f] = "good"]
      BY <3>1, <1>8
    <3>3. \A g \in mem' : tree'[Stage][g] = "good"
      BY <3>1, <3>2 DEF Tree
    <3>4. tree'[Stage] # Absent
      BY <3>1, <3>2, <1>9 DEF Tree, Content
    <3>. QED
      BY <3>1, <3>2, <3>3, <3>4, <1>8
  <2>4. ASSUME NEW f \in File, Reject(f) \/ Lose(f) PROVE Sound'
    BY <2>4 DEF Reject, Stops, Lose, noteVars, loadVars
  <2>5. CASE Complete
    <3>1. /\ tree[Stage] \in Tree /\ \A f \in File : tree[Stage][f] = "good"
      BY <2>5, <1>8 DEF Complete
    <3>2. Whole(Stage)
      BY <3>1 DEF Good, Tree
    <3>. QED
      BY <2>5, <3>2 DEF Complete, diskVars
  <2>6. CASE NoTransfer \/ StopFetching \/ FriendGoes \/ (\E f \in File : GiveUp(f)) \/ Persist
    BY <2>6 DEF NoTransfer, StopFetching, FriendGoes, GiveUp, Persist, Stops, noteVars, diskVars, loadVars
  <2>. QED
    BY <1>2, <2>1, <2>2, <2>3, <2>4, <2>5, <2>6, <2>7 DEF Fetch, Network, Answer
<1>3. CASE Install
  <2>1. CASE InstallOffline
    BY <2>1 DEF InstallOffline, Offline, noteVars, diskVars, loadVars
  <2>2. CASE Begin \/ BeginFails
    BY <2>2 DEF Begin, BeginFails, noteVars, diskVars, loadVars
  <2>3. CASE Move
    <3>1. /\ dst \in Dsts \ book /\ marker = [dst |-> dst, reg |-> FALSE] /\ Whole(Stage)
          /\ Moved(Stage, dst) /\ pc' = "save" /\ book' = book /\ dst' = dst
          /\ journal' = journal /\ marker' = marker /\ manifest' = manifest
      BY <2>3 DEF Move, noteVars
    <3>2. tree'[dst] = tree[Stage] /\ tree'[Stage] = Absent /\ \A r \in Dsts \ {dst} : tree'[r] = tree[r]
      BY <3>1, <1>8, MovedFacts
    <3>. QED
      BY <3>1, <3>2, <1>7, <1>8
  <2>4. CASE MoveFails
    <3>1. /\ dst \in Dsts \ book /\ Whole(Stage)
          /\ Unmoved(Stage, dst) /\ pc' = "drop" /\ book' = book
          /\ journal' = journal /\ marker' = marker /\ manifest' = manifest
          /\ tree' # tree => Torn(Stage) = {}
      BY <2>4 DEF MoveFails, noteVars, Troubled, Torn
    <3>2. tree'[Stage] = tree[Stage] /\ \A d \in book : tree'[d] = tree[d]
      <4>1. CASE tree' = tree
        BY <4>1
      <4>2. CASE tree' # tree
        <5>1. Half(Stage, dst) /\ Torn(Stage) = {}
          BY <3>1, <4>2 DEF Unmoved
        <5>. QED
          BY <5>1, <3>1, <1>8, CutOut
      <4>. QED
        BY <4>1, <4>2
    <3>. QED
      BY <3>1, <3>2
  <2>5. CASE Save
    <3>1. /\ pc = "save" /\ pc' = "mark" /\ tree' = tree /\ book' = book \cup {dst} /\ dst' = dst
          /\ journal' = journal /\ marker' = marker /\ manifest' = manifest
      BY <2>5 DEF Save, noteVars, diskVars
    <3>. QED
      BY <3>1
  <2>6. CASE SaveFails
    BY <2>6 DEF SaveFails, noteVars, diskVars
  <2>7. CASE Undo
    <3>1. /\ dst \in Dsts \ book /\ Whole(dst)
          /\ Moved(dst, Stage) /\ pc' \in {"wipePack", "drop"} /\ book' = book /\ dst' = dst
          /\ journal' = journal /\ marker' = marker /\ manifest' = manifest
      BY <2>7 DEF Undo, noteVars, AfterUndo
    <3>2. tree'[Stage] = tree[dst] /\ \A r \in Dsts \ {dst} : tree'[r] = tree[r]
      BY <3>1, <1>8, MovedFacts
    <3>. QED
      BY <3>1, <3>2, <1>8
  <2>8. CASE UndoFails
    BY <2>8 DEF UndoFails, Troubled
  <2>9. CASE WipePack
    <3>1. /\ dst \in Dsts \ book /\ Whole(Stage) /\ pc' = "drop" /\ book' = book
          /\ journal' = journal /\ marker' = marker /\ manifest' = manifest
          /\ tree'[Stage] = tree[Stage] /\ \A d \in book : tree'[d] = tree[d]
      BY <2>9, <1>8 DEF WipePack, noteVars, Gone
    <3>. QED
      BY <3>1
  <2>10. CASE Drop
    BY <2>10 DEF Drop, diskVars
  <2>11. CASE MarkInstalled
    <3>1. /\ Whole(dst) /\ tree[Stage] = Absent /\ tree' = tree /\ book' = book /\ pc' = "clean"
          /\ journal' = journal /\ manifest' = manifest /\ dst \in Dsts
          /\ marker = [dst |-> dst, reg |-> FALSE]
      BY <2>11, <1>8 DEF MarkInstalled, diskVars
    <3>2. marker' \in {[dst |-> dst, reg |-> b] : b \in BOOLEAN}
      BY <2>11, <3>1 DEF MarkInstalled
    <3>3. marker' # NoMarker /\ marker'.dst = dst
      BY <3>1, <3>2, <1>7
    <3>. QED
      BY <3>1, <3>3
  <2>12. CASE Clean
    <3>1. /\ pc' = "off" /\ ~journal'.complete /\ book' = book
          /\ \A d \in book : tree'[d] = tree[d]
      BY <2>12, <1>8 DEF Clean, Erased, Gone, NoJournal
    <3>. QED
      BY <3>1
  <2>. QED
    BY <1>3, <2>1, <2>2, <2>3, <2>4, <2>5, <2>6, <2>7, <2>8, <2>9, <2>10, <2>11, <2>12 DEF Install
<1>4. CASE Death
  <2>8. ~PowerCutAfter
    BY DEF PowerCutAfter, Troubled
  <2>0. Death => pc' = "off" /\ book' = book
    BY <2>8 DEF Death, Kill, PowerCut, WipeCut, BackCut, PrepareCut, FinishCut, MoveDies, UndoCut,
           WipePackCut, CleanCut
  <2>1. CASE Kill
    BY <2>1, <1>8, <1>9 DEF Kill, noteVars, diskVars
  <2>2. CASE PowerCut
    <3>1. ~journal.complete /\ marker = NoMarker
      BY <2>2 DEF PowerCut, Troubled
    <3>2. ~journal'.complete
      BY <2>2, <3>1 DEF PowerCut, NoJournal
    <3>3. \A d \in book : tree'[d] = tree[d]
      BY <2>2, <3>1, <1>8 DEF PowerCut, NoMarker
    <3>. QED
      BY <2>0, <2>2, <3>2, <3>3 DEF Death
  <2>3. CASE WipeCut \/ WipePackCut
    <3>1. /\ dst \in Dsts \ book /\ tree'[Stage] = tree[Stage] /\ \A d \in book : tree'[d] = tree[d]
          /\ journal' = journal /\ manifest' = manifest
      BY <2>3, <1>8 DEF WipeCut, WipePackCut, noteVars
    <3>2. journal.complete => Whole(Stage)
      BY <2>3 DEF WipeCut, WipePackCut
    <3>. QED
      BY <2>0, <2>3, <3>1, <3>2 DEF Death
  <2>4. CASE BackCut \/ UndoCut
    <3>1. /\ dst \in Dsts \ book /\ Half(dst, Stage) /\ Torn(dst) = {}
          /\ marker = [dst |-> dst, reg |-> FALSE]
          /\ journal' = journal /\ manifest' = manifest
          /\ tree[Stage] = Absent
      BY <2>4 DEF BackCut, UndoCut, MoveCut, Torn, Troubled, noteVars
    <3>2. tree'[Stage] = tree[dst] /\ \A r \in Places \ {dst, Stage} : tree'[r] = tree[r]
      BY <3>1, CutBack
    <3>3. journal.complete => Whole(dst)
      BY <3>1, <1>9
    <3>. QED
      BY <2>0, <2>4, <3>1, <3>2, <3>3, <1>8 DEF Death
  <2>5. CASE MoveDies
    <3>1. /\ dst \in Dsts \ book /\ Half(Stage, dst) /\ Torn(Stage) = {} /\ Whole(Stage)
          /\ journal' = journal /\ manifest' = manifest
      BY <2>5 DEF MoveDies, MoveCut, Torn, Troubled, noteVars
    <3>2. tree'[Stage] = tree[Stage] /\ \A r \in Places \ {dst} : tree'[r] = tree[r]
      BY <3>1, CutOut
    <3>. QED
      BY <2>0, <2>5, <3>1, <3>2, <1>8 DEF Death
  <2>6. CASE PrepareCut \/ \E f \in File : FinishCut(f)
    <3>1. /\ ~journal.complete /\ journal' = journal /\ \A d \in book : tree'[d] = tree[d]
      BY <2>6, <1>8 DEF PrepareCut, Prepared, FinishCut, Offline, noteVars
    <3>. QED
      BY <2>0, <2>6, <3>1 DEF Death
  <2>7. CASE CleanCut
    BY <2>7 DEF CleanCut, Troubled
  <2>. QED
    BY <1>4, <2>1, <2>2, <2>3, <2>4, <2>5, <2>6, <2>7, <2>8 DEF Death
<1>5. CASE User
  BY <1>5 DEF User, Boot, Listed, Accept, Discard, DiscardUnderway, Troubled, noteVars, diskVars, loadVars
<1>6. CASE BootKeeps \/ BootRemoves \/ UNCHANGED vars
  BY <1>6 DEF BootKeeps, BootRemoves, vars, noteVars, diskVars, loadVars
<1>. QED
  BY <1>1, <1>2, <1>3, <1>4, <1>5, <1>6 DEF Next, Work

LEMMA KeptStep == TypeOK /\ InDsts /\ Hands /\ Kept /\ [Next]_vars => Kept'
<1> SUFFICES ASSUME TypeOK, InDsts, Hands, Kept, [Next]_vars, Asked' PROVE Kept'
  BY DEF Kept
<1>0. Asked
  BY TroubleGrows DEF Asked
<1>8. /\ Dsts \subseteq Places /\ Stage \in Places /\ Stage \notin Dsts /\ book \subseteq Dsts
      /\ tree \in [Places -> Tree \cup {Absent}]
      /\ dst \in Places /\ marker.dst \in Places
  BY ConstantsAreGiven DEF Places, TypeOK, Marker
<1>9. \A t \in Tree : t # Absent
  BY GoodIsThere
<1> USE <1>0 DEF Kept, Hands, InDsts, Busy, Goes, Ends, Dies, Forgotten
\* Steps that leave the folders the launcher knows.
<1>10. book' = book /\ pc' # "save" /\ (\A d \in book : tree'[d] = tree[d]) => Kept'
  OBVIOUS
<1>1. CASE Recovery
  <2>1. CASE Wipe
    BY <2>1, <1>8, <1>10 DEF Wipe, Gone
  <2>2. CASE Back
    BY <2>2, <1>8, <1>10, MovedFacts DEF Back
  <2>3. CASE RecoverFails
    <3>1. dst \in Dsts \ book /\ book' = book /\ pc' \in {"ready", "off"}
      BY <2>3 DEF RecoverFails
    <3>2. CASE pc = "wipe"
      BY <2>3, <3>1, <3>2, <1>8, <1>10 DEF RecoverFails
    <3>3. CASE Unmoved(dst, Stage)
      BY <3>1, <3>3, <1>8, <1>10, HalfFacts DEF Unmoved
    <3>. QED
      BY <2>3, <3>2, <3>3 DEF RecoverFails
  <2>4. CASE RecoverNothing \/ RecoverDone \/ Recover \/ Clear
    BY <2>4, <1>10 DEF RecoverNothing, RecoverDone, Recover, Clear, RecoverBack, WaysBack, diskVars
  <2>. QED
    BY <1>1, <2>1, <2>2, <2>3, <2>4 DEF Recovery
<1>2. CASE Fetch \/ Network
  <2>1. CASE Prepare \/ NoRoom
    BY <2>1, <1>8, <1>10 DEF Prepare, NoRoom, Prepared
  <2>2. ASSUME NEW f \in File, Grow(f) \/ Finish(f) \/ Reject(f) \/ Lose(f) PROVE Kept'
    BY <2>2, <1>8, <1>10 DEF Grow, Finish, Reject, Stops, Lose
  <2>3. CASE NoTransfer \/ StopFetching \/ FriendGoes \/ (\E f \in File : GiveUp(f)) \/ Persist \/ Complete
    BY <2>3, <1>10 DEF NoTransfer, StopFetching, FriendGoes, GiveUp, Persist, Stops, Complete, diskVars
  <2>. QED
    BY <1>2, <2>1, <2>2, <2>3 DEF Fetch, Network, Answer
<1>3. CASE Install
  <2>1. CASE Move
    <3>1. dst \in Dsts \ book /\ dst' = dst /\ book' = book /\ Moved(Stage, dst) /\ tree[Stage] # Absent
      BY <2>1 DEF Move, Moved
    <3>2. tree'[dst] # Absent /\ \A d \in book : tree'[d] = tree[d]
      BY <3>1, <1>8, MovedFacts
    <3>. QED
      BY <3>1, <3>2
  <2>2. CASE MoveFails
    <3>1. dst \in Dsts \ book /\ book' = book /\ pc' = "drop" /\ Unmoved(Stage, dst)
      BY <2>2 DEF MoveFails
    <3>. QED
      BY <3>1, <1>8, <1>10, HalfFacts DEF Unmoved
  <2>3. CASE Save
    BY <2>3 DEF Save, diskVars
  <2>4. CASE Undo
    BY <2>4, <1>8, <1>10, MovedFacts DEF Undo, AfterUndo
  <2>5. CASE UndoFails
    <3>1. dst \in Dsts \ book /\ book' = book /\ pc' # "save" /\ (tree' = tree \/ Half(dst, Stage))
      BY <2>5 DEF UndoFails, AfterUndo
    <3>. QED
      BY <3>1, <1>8, <1>10, HalfFacts
  <2>6. CASE WipePack
    BY <2>6, <1>8, <1>10 DEF WipePack, Gone
  <2>7. CASE Clean
    BY <2>7, <1>8, <1>10 DEF Clean, Erased, Gone
  <2>8. CASE InstallOffline \/ Begin \/ BeginFails \/ SaveFails \/ Drop \/ MarkInstalled
    BY <2>8, <1>10 DEF InstallOffline, Begin, BeginFails, SaveFails, Drop, MarkInstalled, diskVars
  <2>. QED
    BY <1>3, <2>1, <2>2, <2>3, <2>4, <2>5, <2>6, <2>7, <2>8 DEF Install
<1>4. CASE Death
  <2>7. ~PowerCutAfter
    BY DEF PowerCutAfter, Troubled, Asked
  <2>0. pc' = "off" /\ book' = book
    BY <1>4, <2>7 DEF Death, Kill, PowerCut, WipeCut, BackCut, PrepareCut, FinishCut, MoveDies, UndoCut,
                WipePackCut, CleanCut
  <2>1. CASE Kill
    BY <2>0, <2>1, <1>10 DEF Kill, diskVars
  <2>2. CASE PowerCut
    <3>1. PICK S \in SUBSET File :
            tree' = [p \in Places |->
                       IF p \in {Stage, marker.dst} /\ tree[p] # Absent
                       THEN [f \in File |-> IF f \in S /\ tree[p][f] # "none" THEN "bad" ELSE tree[p][f]]
                       ELSE tree[p]]
      BY <2>2 DEF PowerCut
    <3>2. \A t \in Tree : [f \in File |-> IF f \in S /\ t[f] # "none" THEN "bad" ELSE t[f]] # Absent
      <4>1. \A t \in Tree : [f \in File |-> IF f \in S /\ t[f] # "none" THEN "bad" ELSE t[f]] \in Tree
        BY DEF Tree, Content
      <4>. QED
        BY <4>1, <1>9
    <3>3. \A d \in book : tree'[d] # Absent
      BY <3>1, <3>2, <1>8
    <3>. QED
      BY <2>0, <3>3
  <2>3. CASE WipeCut \/ WipePackCut
    BY <2>0, <2>3, <1>8, <1>10 DEF WipeCut, WipePackCut
  <2>4. CASE BackCut \/ UndoCut \/ MoveDies
    <3>1. /\ dst \in Dsts \ book
          /\ Half(dst, Stage) \/ Half(Stage, dst)
      BY <2>4 DEF BackCut, UndoCut, MoveDies, MoveCut
    <3>2. \A d \in book : tree'[d] = tree[d]
      BY <3>1, <1>8, HalfFacts
    <3>. QED
      BY <2>0, <3>2
  <2>5. CASE PrepareCut \/ \E f \in File : FinishCut(f)
    BY <2>0, <2>5, <1>8, <1>10 DEF PrepareCut, Prepared, FinishCut
  <2>6. CASE CleanCut
    BY <2>0, <2>6, <1>8, <1>10 DEF CleanCut, Swept
  <2>. QED
    BY <1>4, <2>1, <2>2, <2>3, <2>4, <2>5, <2>6, <2>7 DEF Death
<1>5. CASE User
  BY <1>5, <1>8, <1>10, ListedIsBook DEF User, Boot, Accept, Discard, DiscardUnderway, Erased, Gone, diskVars
<1>6. CASE BootKeeps \/ BootRemoves \/ UNCHANGED vars
  BY <1>6 DEF BootKeeps, BootRemoves, vars, diskVars
<1>. QED
  BY <1>1, <1>2, <1>3, <1>4, <1>5, <1>6 DEF Next, Work

LEMMA TidyStep == TypeOK /\ Hands /\ Marked /\ Tidy /\ [Next]_vars => Tidy'
<1> SUFFICES ASSUME TypeOK, Hands, Marked, Tidy, [Next]_vars, trouble' \subseteq {"torn"}
             PROVE Tidy'
  BY DEF Tidy
<1>0. trouble \subseteq {"torn"} /\ "discarded" \notin trouble /\ Asked
  BY TroubleGrows DEF Asked
<1>7. \A d \in Dsts, b \in BOOLEAN : [dst |-> d, reg |-> b] # NoMarker
  BY ConstantsAreGiven DEF NoMarker
<1>8. /\ Dsts \subseteq Places /\ Stage \in Places /\ Stage \notin Dsts /\ book \subseteq Dsts
      /\ tree \in [Places -> Tree \cup {Absent}]
      /\ dst \in Places /\ marker.dst \in Places
  BY ConstantsAreGiven DEF Places, TypeOK, Marker
<1> DEFINE Named(m) == \A d \in Dsts : tree[d] # Absent => d \in book \/ (m # NoMarker /\ m.dst = d)
<1> USE <1>0 DEF Tidy, Hands, Marked, Busy, Goes, Ends, Dies, Forgotten
\* Steps that fill no folder and leave the marker and the books.
<1>9. /\ marker' = marker /\ book' = book
      /\ \A d \in Dsts : tree'[d] # Absent => tree[d] # Absent
      => Named(marker)'
  OBVIOUS
\* Steps that only touch the folder in hand, which the marker names.
<1>10. /\ dst \in Dsts /\ marker = [dst |-> dst, reg |-> FALSE] /\ marker' = marker /\ book' = book
       /\ \A d \in Dsts \ {dst} : tree'[d] = tree[d]
       => Named(marker)'
  <2> SUFFICES ASSUME dst \in Dsts, marker = [dst |-> dst, reg |-> FALSE], marker' = marker, book' = book,
                      \A d \in Dsts \ {dst} : tree'[d] = tree[d],
                      NEW d \in Dsts, tree'[d] # Absent
               PROVE  d \in book' \/ (marker' # NoMarker /\ marker'.dst = d)
    OBVIOUS
  <2>1. marker' # NoMarker /\ marker'.dst = dst
    BY <1>7
  <2>2. CASE d # dst
    <3>1. tree'[d] = tree[d]
      BY <2>2
    <3>. QED
      BY <3>1
  <2>. QED
    BY <2>1, <2>2
<1>1. CASE Recovery
  <2>1. CASE RecoverNothing \/ RecoverDone
    BY <2>1 DEF RecoverNothing, RecoverDone, Nothing, Known, noteVars, diskVars
  <2>2. CASE Recover
    <3>1. /\ marker' = marker /\ book' = book /\ tree' = tree /\ dst' = marker.dst
          /\ pc' = WaysBack(marker.dst)
      BY <2>2 DEF Recover, RecoverBack, noteVars, diskVars
    <3>. QED
      BY <3>1, <1>9 DEF WaysBack
  <2>3. CASE Wipe
    <3>1. /\ dst \in Dsts /\ marker = [dst |-> dst, reg |-> FALSE] /\ marker' = marker /\ book' = book
          /\ tree' = [tree EXCEPT ![dst] = Absent] /\ pc' = "clear" /\ dst' = dst
      BY <2>3 DEF Wipe, Gone, noteVars
    <3>. QED
      BY <3>1, <1>8, <1>10
  <2>4. CASE Back
    <3>1. /\ dst \in Dsts /\ marker = [dst |-> dst, reg |-> FALSE] /\ marker' = marker /\ book' = book
          /\ Moved(dst, Stage) /\ pc' = "clear" /\ dst' = dst
      BY <2>4 DEF Back, noteVars
    <3>2. tree'[dst] = Absent /\ \A d \in Dsts \ {dst} : tree'[d] = tree[d]
      BY <3>1, <1>8, MovedFacts
    <3>. QED
      BY <3>1, <3>2, <1>10
  <2>5. CASE RecoverFails
    BY <2>5 DEF RecoverFails, Troubled
  <2>6. CASE Clear
    <3>1. /\ marker.dst = dst /\ tree[dst] = Absent /\ marker' = NoMarker /\ book' = book
          /\ tree' = tree /\ pc' = "ready"
      BY <2>6 DEF Clear, diskVars
    <3>. QED
      BY <3>1
  <2>. QED
    BY <1>1, <2>1, <2>2, <2>3, <2>4, <2>5, <2>6 DEF Recovery
<1>2. CASE Fetch \/ Network
  <2>1. ASSUME NEW f \in File, Grow(f) \/ Finish(f) \/ Reject(f) \/ Lose(f) PROVE Tidy'
    <3>1. /\ marker' = marker /\ book' = book /\ (pc' = "fetch" \/ (pc' = "off" /\ marker = NoMarker))
          /\ \A d \in Dsts : tree'[d] = tree[d]
      BY <2>1, <1>8 DEF Grow, Finish, Reject, Stops, Lose, noteVars
    <3>. QED
      BY <3>1, <1>9
  <2>2. CASE Prepare \/ NoRoom
    <3>1. /\ marker' = marker /\ book' = book /\ pc' \in {"fetch", "off"}
          /\ up' = up /\ pc = "ready"
          /\ \A d \in Dsts : tree'[d] = tree[d]
      BY <2>2, <1>8 DEF Prepare, NoRoom, Prepared
    <3>. QED
      BY <3>1, <1>9
  <2>3. CASE NoTransfer \/ StopFetching \/ FriendGoes \/ (\E f \in File : GiveUp(f)) \/ Persist \/ Complete
    BY <2>3, <1>9 DEF NoTransfer, StopFetching, FriendGoes, GiveUp, Persist, Stops, Complete, noteVars, diskVars
  <2>. QED
    BY <1>2, <2>1, <2>2, <2>3 DEF Fetch, Network, Answer
<1>3. CASE Install
  <2>1. CASE InstallOffline \/ BeginFails
    BY <2>1, <1>9 DEF InstallOffline, BeginFails, noteVars, diskVars
  <2>2. CASE Begin
    <3>1. PICK d \in Dsts : tree[d] = Absent /\ dst' = d /\ marker' = [dst |-> d, reg |-> FALSE]
      BY <2>2 DEF Begin, Free
    <3>2. tree' = tree /\ book' = book /\ pc' = "move" /\ marker = NoMarker
      BY <2>2 DEF Begin, diskVars
    <3>. QED
      BY <3>1, <3>2
  <2>3. CASE Move
    <3>1. /\ dst \in Dsts /\ marker = [dst |-> dst, reg |-> FALSE] /\ marker' = marker /\ book' = book
          /\ Moved(Stage, dst) /\ pc' = "save" /\ dst' = dst /\ tree[Stage] # Absent
      BY <2>3 DEF Move, Moved, noteVars
    <3>2. /\ tree'[dst] = tree[Stage] /\ tree'[Stage] = Absent
          /\ \A d \in Dsts \ {dst} : tree'[d] = tree[d]
      BY <3>1, <1>8, MovedFacts
    <3>. QED
      BY <3>1, <3>2, <1>10
  <2>4. CASE MoveFails
    <3>1. tree' = tree /\ marker' = marker /\ book' = book /\ pc' = "drop" /\ dst' = dst /\ pc = "move"
      BY <2>4 DEF MoveFails, Troubled, noteVars
    <3>. QED
      BY <3>1, <1>9
  <2>5. CASE Save \/ SaveFails
    BY <2>5 DEF Save, SaveFails, noteVars, diskVars
  <2>6. CASE Undo
    <3>1. /\ dst \in Dsts /\ marker = [dst |-> dst, reg |-> FALSE] /\ marker' = marker /\ book' = book
          /\ Moved(dst, Stage) /\ pc' \in {"wipePack", "drop"} /\ dst' = dst
      BY <2>6 DEF Undo, AfterUndo, noteVars
    <3>2. tree'[dst] = Absent /\ \A d \in Dsts \ {dst} : tree'[d] = tree[d]
      BY <3>1, <1>8, MovedFacts
    <3>. QED
      BY <3>1, <3>2, <1>10
  <2>7. CASE UndoFails
    BY <2>7 DEF UndoFails, Troubled
  <2>8. CASE WipePack
    <3>1. /\ dst \in Dsts /\ marker' = marker /\ book' = book /\ pc' = "drop" /\ dst' = dst
          /\ tree' = [tree EXCEPT ![dst] = Absent]
      BY <2>8 DEF WipePack, Gone, Troubled, noteVars
    <3>. QED
      BY <3>1, <1>8, <1>9
  <2>9. CASE Drop
    <3>1. /\ marker.dst = dst /\ tree[dst] = Absent /\ marker' = NoMarker /\ book' = book
          /\ tree' = tree /\ pc' = "off"
      BY <2>9 DEF Drop, diskVars
    <3>. QED
      BY <3>1
  <2>10. CASE MarkInstalled
    <3>1. /\ dst \in Dsts /\ dst \in book /\ marker = [dst |-> dst, reg |-> FALSE] /\ book' = book
          /\ tree' = tree /\ pc' = "clean"
      BY <2>10, <1>8 DEF MarkInstalled, diskVars
    <3>2. marker' \in {[dst |-> dst, reg |-> b] : b \in BOOLEAN}
      BY <2>10, <3>1 DEF MarkInstalled
    <3>. QED
      BY <3>1, <3>2
  <2>11. CASE Clean
    <3>1. /\ marker' = NoMarker /\ book' = book /\ pc' = "off" /\ pc = "clean"
          /\ \A d \in Dsts : tree'[d] = tree[d]
      BY <2>11, <1>8 DEF Clean, Erased, Gone
    <3>. QED
      BY <3>1
  <2>. QED
    BY <1>3, <2>1, <2>2, <2>3, <2>4, <2>5, <2>6, <2>7, <2>8, <2>9, <2>10, <2>11 DEF Install
<1>4. CASE Death
  <2>7. ~PowerCutAfter
    BY DEF PowerCutAfter, Troubled
  <2>0. pc' = "off" /\ ~up' /\ book' = book
    <3>1. CASE CleanCut
      BY <3>1 DEF CleanCut, Troubled
    <3>2. CASE Kill \/ PowerCut \/ WipeCut \/ BackCut \/ PrepareCut
      BY <3>2 DEF Kill, PowerCut, WipeCut, BackCut, PrepareCut
    <3>3. CASE (\E f \in File : FinishCut(f)) \/ MoveDies \/ UndoCut \/ WipePackCut
      BY <3>3 DEF FinishCut, MoveDies, UndoCut, WipePackCut
    <3>. QED
      BY <1>4, <2>7, <3>1, <3>2, <3>3 DEF Death
  <2>1. CASE Kill
    BY <2>1, <1>9 DEF Kill, noteVars, diskVars
  <2>2. CASE PowerCut
    <3>1. marker = NoMarker
      BY <2>2 DEF PowerCut, Troubled
    <3>2. \A d \in Dsts : tree'[d] = tree[d]
      BY <2>2, <3>1, <1>8 DEF PowerCut, NoMarker
    <3>. QED
      BY <2>0, <3>1, <3>2
  <2>3. CASE WipeCut \/ WipePackCut
    <3>1. /\ dst \in Dsts /\ marker = [dst |-> dst, reg |-> FALSE] /\ marker' = marker
          /\ \A d \in Dsts \ {dst} : tree'[d] = tree[d]
      BY <2>3, <1>8 DEF WipeCut, WipePackCut, noteVars
    <3>. QED
      BY <2>0, <3>1, <1>10
  <2>4. CASE BackCut \/ UndoCut \/ MoveDies
    <3>1. /\ dst \in Dsts /\ marker = [dst |-> dst, reg |-> FALSE] /\ marker' = marker
          /\ Half(dst, Stage) \/ Half(Stage, dst)
      BY <2>4 DEF BackCut, UndoCut, MoveDies, MoveCut, noteVars
    <3>2. \A d \in Dsts \ {dst} : tree'[d] = tree[d]
      BY <3>1, <1>8, HalfFacts
    <3>. QED
      BY <2>0, <3>1, <3>2, <1>10
  <2>5. CASE PrepareCut \/ \E f \in File : FinishCut(f)
    <3>1. marker' = marker /\ \A d \in Dsts : tree'[d] = tree[d]
      BY <2>5, <1>8 DEF PrepareCut, Prepared, FinishCut, noteVars
    <3>. QED
      BY <2>0, <3>1, <1>9
  <2>6. CASE CleanCut
    BY <2>6 DEF CleanCut, Troubled
  <2>. QED
    BY <1>4, <2>1, <2>2, <2>3, <2>4, <2>5, <2>6, <2>7 DEF Death
<1>5. CASE User
  BY <1>5, <1>9 DEF User, Boot, Listed, Accept, Discard, DiscardUnderway, Troubled, noteVars, diskVars
<1>6. CASE BootKeeps \/ BootRemoves \/ UNCHANGED vars
  BY <1>6, <1>9 DEF BootKeeps, BootRemoves, vars, noteVars, diskVars
<1>. QED
  BY <1>1, <1>2, <1>3, <1>4, <1>5, <1>6 DEF Next, Work

---------------------------------------------------------------------------
(* The theorems                                                            *)

IInv == TypeOK /\ FailsOK /\ InDsts /\ Hands /\ Kept /\ Marked /\ Sound /\ Owing /\ Tidy

LEMMA Initially == Init => IInv
<1> SUFFICES ASSUME Init PROVE IInv
  OBVIOUS
<1>1. TypeOK
  <2>1. tree \in [Places -> Tree \cup {Absent}] /\ part \in [File -> Content]
    BY DEF Init, Content
  <2>2. 0 \in 0..maxHashFails
    BY ConstantsAreGiven
  <2>3. fails \in [File -> 0..maxHashFails]
    BY <2>2 DEF Init
  <2>4. journal \in Journal /\ marker \in Marker
    BY DEF Init, NoJournal, Journal, NoMarker, Marker, Places
  <2>. QED
    BY <2>1, <2>3, <2>4 DEF Init, TypeOK, Places
<1>2. FailsOK
  BY ConstantsAreGiven DEF Init, FailsOK
<1>3. InDsts /\ Hands /\ Kept /\ Marked /\ Owing
  BY DEF Init, InDsts, Hands, Kept, Marked, Owing, Busy, NoMarker, NoJournal
<1>4. Sound
  BY DEF Init, Sound, NoJournal
<1>5. Tidy
  BY DEF Init, Tidy, Places
<1>. QED
  BY <1>1, <1>2, <1>3, <1>4, <1>5 DEF IInv

LEMMA Stepwise == IInv /\ [Next]_vars => IInv'
  BY TypeStep, InDstsStep, HandsStep, KeptStep, MarkedStep, SoundStep, OwingStep, TidyStep DEF IInv

LEMMA Always == Spec => []IInv
  BY Initially, Stepwise, PTL DEF Spec

\* Every state has its type, and no file comes wrong more often than the
\* downloader allows (dropBad, maxHashFails).
THEOREM TypeCorrect == Spec => []TypeOK
<1>1. IInv => TypeOK
  BY DEF IInv
<1>. QED
  BY <1>1, Always, PTL

\* What the launcher knows as a build or server is whole (Downloader.Run,
\* RecoverInstall, finalizeShareIn), wherever the launcher was killed.
THEOREM RegisteredIsWhole == Spec => []RegisteredWhole
<1>1. IInv => RegisteredWhole
  BY DEF IInv, Sound, RegisteredWhole
<1>. QED
  BY <1>1, Always, PTL

\* What the journal calls complete is somewhere whole (MoveTree,
\* RecoverInstall).
THEOREM CompleteSurvives == Spec => []FilesSurvive
<1>1. IInv => FilesSurvive
  BY DEF IInv, Sound, FilesSurvive
<1>. QED
  BY <1>1, Always, PTL

\* At rest every folder is one the launcher knows (RecoverInstall, shareBoot).
THEOREM LeavesNothing == Spec => []NoLeftovers
<1>1. IInv => NoLeftovers
  BY DEF IInv, Tidy, NoLeftovers
<1>. QED
  BY <1>1, Always, PTL

\* The book grows only in Save, and then the transfer is still owed a build
\* (InstallMarker, shareInstallRegistered).
THEOREM OneInstallation == Spec => InstalledOnce
<1>1. IInv /\ Asked /\ [Next]_vars => book' \subseteq book \/ Save
  <2> SUFFICES ASSUME IInv, Asked, [Next]_vars PROVE book' \subseteq book \/ Save
    OBVIOUS
  <2>1. CASE Recovery
    BY <2>1 DEF Recovery, RecoverNothing, RecoverDone, Recover, Wipe, Back, RecoverFails, Clear
  <2>2. CASE Fetch \/ Network
    BY <2>2 DEF Fetch, Network, Answer, Prepare, NoRoom, NoTransfer, StopFetching, FriendGoes, GiveUp, Persist, Stops,
              Complete, Grow, Finish, Reject, Lose
  <2>3. CASE Install
    BY <2>3 DEF Install, InstallOffline, Begin, BeginFails, Move, MoveFails, SaveFails, Undo,
                UndoFails, WipePack, Drop, MarkInstalled, Clean
  <2>4. CASE Death
    BY <2>4 DEF Death, Kill, PowerCut, PowerCutAfter, WipeCut, BackCut, PrepareCut, FinishCut, MoveDies, UndoCut,
                WipePackCut, CleanCut
  <2>5. CASE User \/ BootKeeps \/ BootRemoves \/ UNCHANGED vars
    BY <2>5, ListedIsBook DEF IInv, User, Boot, Accept, Discard, DiscardUnderway, BootKeeps, BootRemoves, vars
  <2>. QED
    BY <2>1, <2>2, <2>3, <2>4, <2>5 DEF Next, Work
<1>2. IInv /\ [Next]_vars
      => [~(book' \subseteq book) /\ trouble \subseteq {"torn", "stuck"} => owed]_vars
  BY <1>1 DEF IInv, Owing, Save, Goes, Asked
<1>. QED
  BY <1>2, Always, PTL DEF Spec, InstalledOnce
================================================================================
