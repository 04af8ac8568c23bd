--------------------------- MODULE PackSync_proofs ---------------------------
(***************************************************************************)
(* What PackSync promises, for all manifests, sessions, paths and any      *)
(* number of crashes and changes by the user.                              *)
(***************************************************************************)
EXTENDS PackSync, TLAPS

-----------------------------------------------------------------------------
(* Types                                                                   *)

WorldOK == /\ story \in Cases /\ latest \in DOMAIN story.man
           /\ seen \in 1 .. latest /\ overtaken \in BOOLEAN
           /\ harm \in 0 .. MaxHarm /\ touches \in 0 .. MaxTouch
DiskOK  == disk \in [Path -> [of : Content \cup {Own}, whole : BOOLEAN]]
ZipOK   == zip \in [Key -> Content \cup {Own}]
SavedOK == saved \in [stage : {"none", "going", "complete"}, man : 1 .. latest, recs : Records]
RunOK   == run \in [Session -> Run] /\ \A i \in Session : run[i].man <= latest
AppOK   == /\ failed \in BOOLEAN /\ launch \in {"off", "poll", "join", "game"}
           /\ del \in BOOLEAN /\ excused \subseteq Path

Busy(i)  == run[i].at \in {"queues", "gifts", "unzip", "sweep"}
ActiveOK == active \in Session \cup {0} /\ \A i \in Session : i = active <=> Busy(i)

\* What a Runner has to do comes from its manifest; whoever is not at work has
\* nothing to do.
Jobs(i) == run[i].todo \cup run[i].packs \cup run[i].gifts \cup run[i].opening
             \cup run[i].landed
JobsOK  == \A i \in Session :
             /\ Jobs(i) \subseteq DOMAIN M(i)
             /\ ~Busy(i) => /\ Jobs(i) = {} /\ run[i].orphans = {}
                            /\ run[i].made = {} /\ run[i].kept = {}

Shape == /\ WorldOK /\ DiskOK /\ ZipOK /\ SavedOK /\ RunOK /\ AppOK /\ ActiveOK
         /\ JobsOK

LEMMA ShapeIsTypeOK == Shape => TypeOK
  BY DEF Shape, TypeOK, WorldOK, DiskOK, ZipOK, SavedOK, RunOK, AppOK, ActiveOK, Busy

\* The assumptions, for the case at hand.
LEMMA StoryOK ==
  ASSUME WorldOK
  PROVE  /\ Len(story.man) \in Nat \ {0} /\ DOMAIN story.man = 1 .. Len(story.man)
         /\ latest \in 1 .. Len(story.man)
         /\ \A v \in 1 .. Len(story.man) :
              /\ DOMAIN story.man[v] \subseteq Key
              /\ \A k \in DOMAIN story.man[v] : story.man[v][k] \in Entry
         /\ story.spared \subseteq Path /\ story.touch \subseteq Path
  BY SyncAssumption DEF WorldOK, IsManifest

LEMMA ManifestOK ==
  ASSUME WorldOK, RunOK, NEW i \in Session
  PROVE  /\ run[i].man \in 1 .. Len(story.man) /\ run[i].man \in 1 .. latest
         /\ DOMAIN M(i) \subseteq Key
         /\ \A k \in DOMAIN M(i) : /\ M(i)[k] \in Entry /\ M(i)[k].of \in Content
                                   /\ M(i)[k].at \in Nat \ {0} /\ M(i)[k].gift \in BOOLEAN
                                   /\ Where[k] \in Path
<1>1. run[i].man \in 1 .. latest /\ latest \in 1 .. Len(story.man)
  BY StoryOK DEF RunOK, Run, WorldOK
<1>2. run[i].man \in 1 .. Len(story.man)
  BY <1>1, StoryOK
<1>. QED
  BY <1>1, <1>2, StoryOK, SyncAssumption DEF M, Entry

LEMMA IdleIsRun == Idle \in Run /\ NoRecs \in Records
  BY DEF Idle, Run, Records, NoRecs, NoRec

-----------------------------------------------------------------------------
LEMMA InitShape == Init => Shape
<1> SUFFICES ASSUME Init PROVE Shape
  OBVIOUS
<1>1. WorldOK
  <2>1. latest = 1 /\ seen = 1 /\ latest \in DOMAIN story.man
    BY SyncAssumption DEF Init
  <2>2. seen \in 1 .. latest
    BY <2>1
  <2>3. harm \in 0 .. MaxHarm /\ touches \in 0 .. MaxTouch
    BY SyncAssumption DEF Init
  <2>. QED
    BY <2>1, <2>2, <2>3 DEF Init, WorldOK
<1>2. DiskOK /\ ZipOK /\ AppOK
  BY DEF Init, DiskOK, ZipOK, AppOK, Absent
<1>3. SavedOK
  <2>1. latest = 1 /\ saved = [stage |-> "none", man |-> 1, recs |-> NoRecs]
    BY DEF Init, Fresh
  <2>2. 1 \in 1 .. latest
    BY <2>1
  <2>. QED
    BY <2>1, <2>2, IdleIsRun DEF SavedOK
<1>4. RunOK /\ ActiveOK /\ JobsOK
  BY <1>1, IdleIsRun, SyncAssumption DEF Init, RunOK, ActiveOK, JobsOK, Jobs, Busy, Idle
<1>. QED
  BY <1>1, <1>2, <1>3, <1>4 DEF Shape

Grown == WorldOK' /\ story' = story /\ latest <= latest' /\ seen <= seen'

LEMMA WorldStep == Shape /\ [Next]_vars => Grown
<1> SUFFICES ASSUME Shape, [Next]_vars PROVE Grown
  OBVIOUS
<1>0. latest \in Nat /\ latest <= latest /\ seen \in Nat /\ seen <= seen
  BY StoryOK DEF Shape, WorldOK
<1>1. CASE UNCHANGED world
  BY <1>0, <1>1 DEF Shape, WorldOK, world, Grown
<1>2. CASE Publish
  BY <1>0, <1>2, StoryOK DEF Shape, WorldOK, Publish, Grown
<1>3. CASE story' = story /\ latest' = latest /\ harm' = harm /\ touches' = touches + 1
           /\ touches < MaxTouch /\ seen' = seen /\ overtaken' = overtaken
  BY <1>0, <1>3, SyncAssumption DEF Shape, WorldOK, Grown
<1>4. CASE story' = story /\ latest' = latest /\ harm' = harm + 1 /\ touches' = touches
           /\ harm < MaxHarm /\ seen' = seen /\ overtaken' = overtaken
  BY <1>0, <1>4, SyncAssumption DEF Shape, WorldOK, Grown
<1>5. CASE (\E p \in Path : Touch(p)) \/ DeleteFiles
  BY <1>5, <1>3 DEF Touch, DeleteFiles
<1>6. CASE Crash \/ \E i \in Session : \E k \in Key : UnpackFails(i, k)
  BY <1>6, <1>4 DEF Crash, UnpackFails
<1>7. CASE \E i \in Session : \E p \in Path : Leaves(i, p)
  BY <1>7, <1>1, <1>4 DEF Leaves, world
<1>8. CASE \/ \E i \in Session : \/ Ask(i) \/ Play(i) \/ FetchFails(i) \/ Fetch(i) \/ Load(i)
                                  \/ WaitFor(i) \/ Refused(i)
           \/ \E s \in {"pause", "cancel"} : Stop(s)
           \/ DeleteState \/ Polls \/ GameEnds
  BY <1>8, <1>1 DEF Ask, Play, Stop, DeleteState, FetchFails, Fetch, Load, WaitFor,
     Refused, Polls, PollSees, PollGivesUp, PollTimesOut, GameEnds
<1>12. ASSUME NEW i \in Session, Start(i) PROVE Grown
  <2>1. run[i].man \in 1 .. latest
    BY ManifestOK DEF Shape
  <2>2. /\ story' = story /\ latest' = latest /\ harm' = harm /\ touches' = touches
        /\ seen' \in {run[i].man, seen} /\ seen <= seen' /\ overtaken' \in BOOLEAN
    BY <1>0, <1>12, <2>1 DEF Start, Shape, WorldOK
  <2>. QED
    BY <1>0, <2>1, <2>2 DEF Shape, WorldOK, Grown
<1>9. ASSUME NEW i \in Session, NEW k \in Key,
             Land(i, k) \/ TaskFails(i, k) \/ Note(i, k) \/ GiftLand(i, k) \/ Unpack(i, k)
               \/ ArchiveGone(i, k)
      PROVE  Grown
  BY <1>9, <1>1 DEF Land, TaskFails, Note, GiftLand, Unpack, ArchiveGone
<1>10. ASSUME NEW i \in Session,
              \/ QueuesHalt(i) \/ QueuesFail(i) \/ QueuesEnd(i) \/ GiftsHalt(i) \/ GiftFails(i)
              \/ GiftsEnd(i) \/ PacksHalt(i) \/ PacksEnd(i) \/ Completes(i)
              \/ \E p \in Path : Removes(i, p)
       PROVE  Grown
  BY <1>10, <1>1 DEF QueuesHalt, QueuesFail, QueuesEnd, GiftsHalt, GiftFails, GiftsEnd,
     PacksHalt, PacksEnd, Completes, Removes, Halts
<1>11. CASE UNCHANGED vars
  BY <1>11, <1>1 DEF vars, world
<1>. QED
  BY <1>2, <1>5, <1>6, <1>7, <1>8, <1>9, <1>10, <1>11, <1>12 DEF Next, Works, Before

LEMMA LatestGrows ==
  ASSUME WorldOK, Grown
  PROVE  latest \in Nat \ {0} /\ latest' \in Nat \ {0} /\ latest <= latest'
<1>1. latest' \in DOMAIN story.man
  BY DEF Grown, WorldOK
<1>. QED
  BY <1>1, StoryOK DEF Grown

\* How a step may change what the goroutines hold.
LEMMA RunChanged ==
  ASSUME RunOK, latest' >= latest, latest \in Nat, latest' \in Nat, NEW i \in Session,
         NEW r \in Run, r.man <= latest', run' = [run EXCEPT ![i] = r]
  PROVE  RunOK'
  BY DEF RunOK, Run

LEMMA RunEnded ==
  ASSUME RunOK, WorldOK, latest' = latest, NEW i \in Session, Ends(i)
  PROVE  RunOK'
<1>1. latest \in Nat \ {0} /\ Idle \in Run /\ Idle.man = 1
  BY StoryOK, IdleIsRun DEF Idle
<1>2. \A r \in Run : [r EXCEPT !.at = "start"] \in Run /\ [r EXCEPT !.at = "start"].man = r.man
  BY DEF Run
<1>. QED
  BY <1>1, <1>2 DEF RunOK, Ends

LEMMA NotedRecs ==
  ASSUME NEW r \in Records, NEW k \in Key, NEW n \in Nat \cup {NoRec}
  PROVE  [r EXCEPT ![k] = n] \in Records
  BY DEF Records

\* What a Runner holds once it has made its plan.
Planned(q, a, t, g, o, p) ==
  [q EXCEPT !.at = a, !.todo = t, !.packs = t \cap Folder, !.gifts = g,
            !.orphans = o, !.kept = p]

\* A plan made of keys and paths makes a session that is still well typed, and it
\* keeps its manifest.
LEMMA PlannedRun ==
  ASSUME NEW q \in Run, NEW a \in {"sweep", "queues"},
         NEW t \in SUBSET Key, NEW g \in SUBSET Key,
         NEW o \in SUBSET Path, NEW p \in SUBSET Path
  PROVE  Planned(q, a, t, g, o, p) \in Run /\ Planned(q, a, t, g, o, p).man = q.man
<1> DEFINE u == [q EXCEPT !.at = a, !.todo = t]
           v == [u EXCEPT !.packs = t \cap Folder, !.gifts = g]
           w == [v EXCEPT !.orphans = o, !.kept = p]
<1>1. u \in Run /\ u.man = q.man
  BY DEF Run
<1>2. v \in Run /\ v.man = u.man
  <2> HIDE DEF u
  <2>1. t \cap Folder \in SUBSET Key
    OBVIOUS
  <2>. QED
    BY <1>1, <2>1 DEF Run
<1>3. w \in Run /\ w.man = v.man
  <2> HIDE DEF v
  <2>. QED
    BY <1>2 DEF Run
<1>4. Planned(q, a, t, g, o, p) = w
  BY DEF Planned
<1>. QED
  BY <1>1, <1>2, <1>3, <1>4

LEMMA RunStep == Shape /\ [Next]_vars => RunOK'
<1> SUFFICES ASSUME Shape, [Next]_vars PROVE RunOK'
  OBVIOUS
<1>0. /\ RunOK /\ WorldOK /\ SavedOK /\ JobsOK /\ ActiveOK
      /\ latest \in Nat \ {0} /\ latest' \in Nat /\ latest <= latest'
  BY WorldStep, LatestGrows DEF Shape
<1>1. ASSUME run' = run PROVE RunOK'
  BY <1>0, <1>1 DEF RunOK, Run
<1>2. ASSUME NEW i \in Session, Ends(i), latest' = latest PROVE RunOK'
  BY <1>0, <1>2, RunEnded
<1>3. ASSUME NEW i \in Session, Ask(i) \/ Play(i) \/ FetchFails(i) \/ Load(i) \/ WaitFor(i)
               \/ Refused(i) \/ Fetch(i)
      PROVE  RunOK'
  <2>1. run[i] \in Run /\ run[i].man <= latest /\ latest' = latest /\ saved.recs \in Records
    BY <1>0, <1>3 DEF RunOK, SavedOK, Ask, Play, FetchFails, Load, WaitFor, Refused, Fetch, world
  <2>2. \A w \in SUBSET Path :
          [run[i] EXCEPT !.at = "ask", !.recs = saved.recs, !.white = w] \in Run
    BY <2>1 DEF Run
  <2>3. [run[i] EXCEPT !.at = "load", !.man = latest] \in Run
    BY <2>1, <1>0 DEF Run
  <2>4. \A a \in {"fetch", "wait", "start"} : [run[i] EXCEPT !.at = a] \in Run
    BY <2>1 DEF Run
  <2>5. \E r \in Run : r.man <= latest /\ run' = [run EXCEPT ![i] = r]
    <3>1. CASE Load(i)
      <4>1. PICK w \in {story.spared, {}} :
              run' = [run EXCEPT ![i].at = "ask", ![i].recs = saved.recs, ![i].white = w]
        BY <3>1 DEF Load
      <4>2. run' = [run EXCEPT ![i] = [run[i] EXCEPT !.at = "ask", !.recs = saved.recs,
                                                     !.white = w]]
        BY <4>1, <1>0 DEF RunOK, Run
      <4>3. w \in SUBSET Path
        BY <4>1, <1>0, StoryOK
      <4>. QED
        BY <4>2, <4>3, <2>1, <2>2 DEF Run
    <3>2. CASE Fetch(i)
      <4>1. run' = [run EXCEPT ![i] = [run[i] EXCEPT !.at = "load", !.man = latest]]
        BY <3>2, <1>0 DEF Fetch, RunOK, Run
      <4>. QED
        BY <4>1, <2>1, <2>3, <1>0 DEF Run
    <3>3. CASE FetchFails(i) \/ Refused(i)
      <4>1. Idle \in Run /\ Idle.man <= latest
        BY <1>0, IdleIsRun DEF Idle
      <4>. QED
        BY <3>3, <4>1 DEF FetchFails, Refused
    <3>4. CASE Ask(i) \/ Play(i) \/ WaitFor(i)
      <4>1. \E a \in {"fetch", "start", "wait"} : run' = [run EXCEPT ![i].at = a]
        BY <3>4 DEF Ask, Play, Begins, WaitFor
      <4>2. \E a \in {"fetch", "start", "wait"} :
               run' = [run EXCEPT ![i] = [run[i] EXCEPT !.at = a]]
        BY <4>1, <1>0 DEF RunOK
      <4>. QED
        BY <4>2, <2>1 DEF Run
    <3>. QED
      BY <1>3, <3>1, <3>2, <3>3, <3>4
  <2>. QED
    BY <1>0, <2>1, <2>5, RunChanged
<1>4. ASSUME NEW i \in Session, Start(i) PROVE RunOK'
  <2>1. run[i] \in Run /\ run[i].man <= latest /\ latest' = latest
    BY <1>0, <1>4 DEF RunOK, Start, world
  <2>2. /\ Tasks(run[i].recs, M(i)) \subseteq Key /\ Gifts(M(i)) \subseteq Key
        /\ Orphans(run[i].recs, M(i), run[i].white) \subseteq Path
        /\ GiftPaths(M(i)) \subseteq Path
    BY <1>0, ManifestOK, SyncAssumption DEF Tasks, Gifts, Orphans, Gone, Foreign, GiftPaths
  <2> DEFINE a == IF Tasks(run[i].recs, M(i)) \cup Gifts(M(i)) = {} THEN "sweep" ELSE "queues"
             t == Tasks(run[i].recs, M(i))
             g == Gifts(M(i))
             o == Orphans(run[i].recs, M(i), run[i].white)
             p == {x \in GiftPaths(M(i)) : Exists(x)}
  <2>3. run' = [run EXCEPT ![i] = Planned(run[i], a, t, g, o, p)]
    BY <1>4 DEF Start, Planned
  <2>4. a \in {"sweep", "queues"} /\ t \in SUBSET Key /\ g \in SUBSET Key
        /\ o \in SUBSET Path /\ p \in SUBSET Path
    BY <2>2
  <2> HIDE DEF a, t, g, o, p
  <2>5. Planned(run[i], a, t, g, o, p) \in Run
        /\ Planned(run[i], a, t, g, o, p).man = run[i].man
    BY <2>1, <2>4, PlannedRun
  <2>. QED
    BY <1>0, <2>1, <2>3, <2>5, RunChanged
<1>5. ASSUME NEW i \in Session, NEW k \in Key,
             Land(i, k) \/ TaskFails(i, k) \/ Note(i, k) \/ GiftLand(i, k) \/ Unpack(i, k)
      PROVE  RunOK'
  <2>1. run[i] \in Run /\ run[i].man <= latest /\ latest' = latest
    BY <1>0, <1>5 DEF RunOK, Land, TaskFails, Note, GiftLand, Unpack, world
  <2>2. CASE Land(i, k) \/ TaskFails(i, k) \/ GiftLand(i, k)
    BY <1>0, <2>1, <2>2, RunChanged DEF Land, TaskFails, GiftLand, RunOK, Run
  <2>3. CASE Note(i, k)
    <3>1. k \in DOMAIN M(i) /\ M(i)[k].at \in Nat
      BY <1>0, <2>3, ManifestOK DEF Note, JobsOK, Jobs
    <3>2. run[i].recs[k] \in Nat \cup {NoRec} /\ Blank \in Nat
      BY <2>1 DEF Run, Records, Blank
    <3>3. PICK n \in Nat \cup {NoRec} :
            run' = [run EXCEPT ![i].landed = @ \ {k}, ![i].recs = [run[i].recs EXCEPT ![k] = n]]
      BY <2>3, <3>1, <3>2 DEF Note
    <3>4. [run[i].recs EXCEPT ![k] = n] \in Records
      BY <2>1, NotedRecs DEF Run
    <3>5. run' = [run EXCEPT ![i] = [run[i] EXCEPT !.landed = @ \ {k},
                                                   !.recs = [run[i].recs EXCEPT ![k] = n]]]
      BY <3>3, <1>0 DEF RunOK, Run
    <3>6. [run[i] EXCEPT !.landed = @ \ {k}, !.recs = [run[i].recs EXCEPT ![k] = n]] \in Run
      BY <2>1, <3>4 DEF Run
    <3>. QED
      BY <1>0, <2>1, <3>5, <3>6, RunChanged DEF Run
  <2>4. CASE Unpack(i, k)
    <3> DEFINE r(b) == [run[i] EXCEPT !.packs = @ \ {k}, !.opening = {}, !.landed = {k},
                                      !.made = b]
    <3>1. run' = [run EXCEPT ![i] = r(IF Exists(Where[k]) \/ disk' = disk THEN run[i].made
                                      ELSE run[i].made \cup {Where[k]})]
      BY <2>1, <2>4 DEF Unpack, Run
    <3>2. \A b \in SUBSET Path : r(b) \in Run /\ r(b).man = run[i].man
      BY <2>1 DEF Run
    <3>3. Where[k] \in Path /\ run[i].made \in SUBSET Path
      BY <2>1, SyncAssumption DEF Run
    <3> HIDE DEF r
    <3>. QED
      BY <1>0, <2>1, <3>1, <3>2, <3>3, RunChanged
  <2>. QED
    BY <1>5, <2>2, <2>3, <2>4
<1>6. ASSUME NEW i \in Session, QueuesEnd(i) \/ GiftsEnd(i) \/ PacksEnd(i) PROVE RunOK'
  <2>1. run[i] \in Run /\ run[i].man <= latest /\ latest' = latest
    BY <1>0, <1>6 DEF RunOK, QueuesEnd, GiftsEnd, PacksEnd, world
  <2>. QED
    BY <1>0, <1>6, <2>1, RunChanged DEF QueuesEnd, GiftsEnd, PacksEnd, RunOK, Run
<1>7. ASSUME NEW i \in Session, NEW p \in Path, Removes(i, p) \/ Leaves(i, p) PROVE RunOK'
  <2>1. run[i] \in Run /\ run[i].man <= latest /\ latest' = latest
    BY <1>0, <1>7 DEF RunOK, Removes, Leaves, world
  <2>2. [k \in Key |-> IF Where[k] = p THEN NoRec ELSE run[i].recs[k]] \in Records
    BY <2>1 DEF Run, Records
  <2>3. CASE Removes(i, p)
    <3>1. run' = [run EXCEPT ![i] = [run[i] EXCEPT !.orphans = @ \ {p},
                    !.recs = [k \in Key |-> IF Where[k] = p THEN NoRec ELSE run[i].recs[k]]]]
      BY <1>0, <2>3 DEF Removes, RunOK, Run
    <3>. QED
      BY <1>0, <2>1, <2>2, <3>1, RunChanged DEF Run
  <2>4. CASE Leaves(i, p)
    <3>1. run' = [run EXCEPT ![i] = [run[i] EXCEPT !.orphans = @ \ {p}]]
      BY <1>0, <2>4 DEF Leaves, RunOK, Run
    <3>. QED
      BY <1>0, <2>1, <3>1, RunChanged DEF Run
  <2>. QED
    BY <1>7, <2>3, <2>4
<1>8. CASE DeleteFiles \/ \E s \in {"pause", "cancel"} : Stop(s)
  <2>1. CASE run' = run
    BY <1>1, <2>1
  <2>2. ASSUME NEW s \in {"pause", "cancel"}, active # 0, latest' = latest,
               run' = [run EXCEPT ![active].stop = s]
        PROVE  RunOK'
    <3>1. active \in Session
      BY <1>0, <2>2 DEF ActiveOK
    <3>2. run[active] \in Run /\ run[active].man <= latest
      BY <1>0, <3>1 DEF RunOK
    <3>3. run' = [run EXCEPT ![active] = [run[active] EXCEPT !.stop = s]]
      BY <1>0, <2>2, <3>1, <3>2 DEF RunOK, Run
    <3>4. /\ [run[active] EXCEPT !.stop = s] \in Run
          /\ [run[active] EXCEPT !.stop = s].man = run[active].man
      BY <3>2 DEF Run
    <3>. QED
      BY <1>0, <2>2, <3>1, <3>2, <3>3, <3>4, RunChanged
  <2>. QED
    BY <1>8, <2>1, <2>2 DEF DeleteFiles, Stop, world
<1>9. CASE Crash
  BY <1>0, <1>9, IdleIsRun DEF Crash, RunOK, Idle
<1>10. CASE \/ Publish \/ \E p \in Path : Touch(p)
            \/ DeleteState \/ Polls \/ GameEnds \/ UNCHANGED vars
  BY <1>1, <1>10 DEF Publish, Touch, DeleteState, Polls, PollSees, PollGivesUp, PollTimesOut,
     GameEnds, vars
<1>11. ASSUME NEW i \in Session,
              \/ QueuesHalt(i) \/ QueuesFail(i) \/ GiftsHalt(i) \/ GiftFails(i)
              \/ PacksHalt(i) \/ Completes(i)
              \/ \E k \in Key : UnpackFails(i, k) \/ ArchiveGone(i, k)
       PROVE  RunOK'
  BY <1>2, <1>11 DEF QueuesHalt, QueuesFail, GiftsHalt, GiftFails, PacksHalt, Completes,
     Halts, UnpackFails, ArchiveGone, world
<1>. QED
  BY <1>3, <1>4, <1>5, <1>6, <1>7, <1>8, <1>9, <1>10, <1>11 DEF Next, Works, Before

LEMMA WholeIsFile ==
  /\ Absent \in [of : Content \cup {Own}, whole : BOOLEAN]
  /\ \A c \in Content \cup {Own} : /\ Whole(c) \in [of : Content \cup {Own}, whole : BOOLEAN]
                                   /\ Half(c) \in [of : Content \cup {Own}, whole : BOOLEAN]
  BY DEF Absent, Whole, Half

LEMMA OpenIsJob ==
  ASSUME RunOK, WorldOK, JobsOK, NEW i \in Session, NEW k \in Key,
         \/ k \in Open(i) \/ k \in run[i].todo \/ k \in run[i].gifts \/ k \in run[i].landed
  PROVE  k \in Jobs(i) /\ k \in DOMAIN M(i) /\ M(i)[k].of \in Content /\ Where[k] \in Path
<1>1. k \in Jobs(i)
  BY DEF Open, Jobs
<1>. QED
  BY <1>1, ManifestOK DEF JobsOK

LEMMA DiskStep == Shape /\ [Next]_vars => DiskOK' /\ excused' \subseteq Path
<1> SUFFICES ASSUME Shape, [Next]_vars PROVE DiskOK' /\ excused' \subseteq Path
  OBVIOUS
<1>0. DiskOK /\ excused \subseteq Path /\ RunOK /\ WorldOK /\ JobsOK
  BY DEF Shape, AppOK
<1>1. CASE UNCHANGED <<disk, excused>>
  BY <1>0, <1>1 DEF DiskOK
<1>2. ASSUME NEW p \in Path, NEW c \in Content, Lands(p, c)
      PROVE  DiskOK' /\ excused' \subseteq Path
  BY <1>0, <1>2, WholeIsFile DEF Lands, DiskOK
<1>3. ASSUME NEW p \in Path, Touch(p) PROVE DiskOK' /\ excused' \subseteq Path
  BY <1>0, <1>3, WholeIsFile DEF Touch, DiskOK
<1>4. ASSUME NEW i \in Session, NEW k \in Key, CutShort(i, k)
      PROVE  DiskOK' /\ excused' \subseteq Path
  <2>1. Where[k] \in Path /\ M(i)[k].of \in Content
    BY <1>0, <1>4, OpenIsJob DEF CutShort
  <2>. QED
    BY <1>0, <1>4, <2>1, WholeIsFile DEF CutShort, DiskOK
<1>5. ASSUME NEW i \in Session, Halts(i) PROVE DiskOK' /\ excused' \subseteq Path
  BY <1>0, <1>5, WholeIsFile DEF Halts, DiskOK
<1>6. ASSUME NEW i \in Session, NEW k \in Key, Land(i, k) \/ GiftLand(i, k) \/ Unpack(i, k)
      PROVE  DiskOK' /\ excused' \subseteq Path
  <2>1. Where[k] \in Path /\ M(i)[k].of \in Content
    BY <1>0, <1>6, OpenIsJob DEF Land, GiftLand, Unpack
  <2>2. \/ disk' = disk /\ (excused' = excused \/ excused' = excused \ {Where[k]})
        \/ Lands(Where[k], M(i)[k].of)
    BY <1>6 DEF Land, GiftLand, Unpack
  <2>. QED
    BY <1>0, <1>1, <1>2, <2>1, <2>2 DEF DiskOK
<1>7. ASSUME NEW i \in Session, NEW p \in Path, Removes(i, p) \/ Leaves(i, p)
      PROVE  DiskOK' /\ excused' \subseteq Path
  BY <1>0, <1>7, WholeIsFile DEF Removes, Leaves, DiskOK
<1>8. CASE DeleteFiles \/ \E i \in Session : Start(i) \/ PacksEnd(i)
  BY <1>0, <1>8, WholeIsFile DEF DeleteFiles, Start, PacksEnd, DiskOK
<1>9. CASE Crash \/ \E i \in Session, k \in Key : UnpackFails(i, k)
  <2>1. active # 0 => active \in Session
    BY DEF Shape, ActiveOK
  <2>. QED
    BY <1>1, <1>4, <1>9, <2>1 DEF Crash, UnpackFails
<1>10. CASE \/ Publish \/ \E i \in Session : Ask(i) \/ Play(i) \/ FetchFails(i) \/ Fetch(i)
            \/ \E i \in Session : Load(i) \/ WaitFor(i) \/ Refused(i)
            \/ \E s \in {"pause", "cancel"} : Stop(s)
            \/ DeleteState \/ Polls \/ GameEnds \/ UNCHANGED vars
  BY <1>1, <1>10 DEF Publish, Ask, Play, FetchFails, Fetch, Load, WaitFor, Refused, Stop,
     DeleteState, Polls, PollSees, PollGivesUp, PollTimesOut, GameEnds, files, vars
<1>11. CASE \E i \in Session, k \in Key : TaskFails(i, k) \/ Note(i, k) \/ ArchiveGone(i, k)
  BY <1>1, <1>11 DEF TaskFails, Note, ArchiveGone, files
<1>12. CASE \E i \in Session : \/ QueuesFail(i) \/ QueuesEnd(i) \/ GiftFails(i) \/ GiftsEnd(i)
                               \/ Completes(i)
  BY <1>1, <1>12 DEF QueuesFail, QueuesEnd, GiftFails, GiftsEnd, Completes, files
<1>13. CASE \E i \in Session : QueuesHalt(i) \/ GiftsHalt(i) \/ PacksHalt(i)
  BY <1>5, <1>13 DEF QueuesHalt, GiftsHalt, PacksHalt
<1>. QED
  BY <1>3, <1>6, <1>7, <1>8, <1>9, <1>10, <1>11, <1>12, <1>13 DEF Next, Works, Before

LEMMA ZipStep == Shape /\ [Next]_vars => ZipOK'
<1> SUFFICES ASSUME Shape, [Next]_vars PROVE ZipOK'
  OBVIOUS
<1>0. ZipOK /\ RunOK /\ WorldOK /\ JobsOK
  BY DEF Shape
<1>1. CASE UNCHANGED zip
  BY <1>0, <1>1 DEF ZipOK
<1>2. ASSUME NEW i \in Session, NEW k \in Key, Land(i, k) \/ GiftLand(i, k) \/ Unpack(i, k)
      PROVE  ZipOK'
  <2>1. M(i)[k].of \in Content
    BY <1>0, <1>2, OpenIsJob DEF Land, GiftLand, Unpack
  <2>. QED
    BY <1>0, <1>2, <2>1 DEF Land, GiftLand, Unpack, ZipOK
<1>3. CASE DeleteFiles \/ \E i \in Session : PacksEnd(i)
  BY <1>3 DEF DeleteFiles, PacksEnd, ZipOK
<1>4. CASE \/ Publish \/ \E p \in Path : Touch(p)
           \/ \E i \in Session : Ask(i) \/ Play(i) \/ Before(i)
           \/ \E s \in {"pause", "cancel"} : Stop(s)
           \/ DeleteState \/ Crash \/ Polls \/ GameEnds \/ UNCHANGED vars
  BY <1>1, <1>4 DEF Publish, Touch, Ask, Play, Before, FetchFails, Fetch, Load, WaitFor,
     Refused, Start, Stop, DeleteState, Crash, Polls, PollSees, PollGivesUp, PollTimesOut,
     GameEnds, files, vars
<1>5. CASE \E i \in Session, k \in Key : \/ TaskFails(i, k) \/ Note(i, k) \/ ArchiveGone(i, k)
                                         \/ UnpackFails(i, k)
  BY <1>1, <1>5 DEF TaskFails, Note, ArchiveGone, UnpackFails, files
<1>6. CASE \E i \in Session : \/ QueuesFail(i) \/ QueuesEnd(i) \/ GiftFails(i) \/ GiftsEnd(i)
                              \/ Completes(i) \/ QueuesHalt(i) \/ GiftsHalt(i) \/ PacksHalt(i)
  BY <1>1, <1>6 DEF QueuesFail, QueuesEnd, GiftFails, GiftsEnd, Completes, QueuesHalt,
     GiftsHalt, PacksHalt, Halts, files
<1>7. CASE \E i \in Session, p \in Path : Removes(i, p) \/ Leaves(i, p)
  BY <1>1, <1>7 DEF Removes, Leaves
<1>. QED
  BY <1>2, <1>3, <1>4, <1>5, <1>6, <1>7 DEF Next, Works

LEMMA GoingOK ==
  ASSUME RunOK, WorldOK, latest' = latest, NEW i \in Session, NEW recs \in Records,
         NEW s \in {"none", "going", "complete"}, saved' = [Going(i, recs) EXCEPT !.stage = s]
  PROVE  SavedOK'
<1>1. run[i].man \in 1 .. latest'
  BY ManifestOK
<1>2. saved' = [stage |-> s, man |-> run[i].man, recs |-> recs]
  BY DEF Going
<1>3. [stage |-> s, man |-> run[i].man, recs |-> recs]
        \in [stage : {"none", "going", "complete"}, man : 1 .. latest', recs : Records]
  BY <1>1
<1>. QED
  BY <1>2, <1>3 DEF SavedOK

LEMMA SavedStep == Shape /\ [Next]_vars => SavedOK'
<1> SUFFICES ASSUME Shape, [Next]_vars PROVE SavedOK'
  OBVIOUS
<1>0. /\ SavedOK /\ RunOK /\ WorldOK /\ JobsOK
      /\ latest \in Nat \ {0} /\ latest' \in Nat /\ latest <= latest'
  BY WorldStep, LatestGrows DEF Shape
<1>1. CASE UNCHANGED saved
  <2>1. 1 .. latest \subseteq 1 .. latest'
    BY <1>0
  <2>. QED
    BY <1>0, <1>1, <2>1 DEF SavedOK
<1>2. ASSUME NEW i \in Session, NEW recs \in Records, latest' = latest, saved' = Going(i, recs)
      PROVE  SavedOK'
  <2>1. saved' = [Going(i, recs) EXCEPT !.stage = "going"]
    BY <1>2 DEF Going
  <2>. QED
    BY <1>0, <1>2, <2>1, GoingOK
<1>3. CASE DeleteState
  <2>1. saved' = [stage |-> "none", man |-> 1, recs |-> NoRecs] /\ 1 \in 1 .. latest'
    BY <1>3, <1>0 DEF DeleteState, Fresh
  <2>. QED
    BY <2>1, IdleIsRun DEF SavedOK
<1>4. ASSUME NEW i \in Session, Start(i) \/ GiftsEnd(i) \/ PacksEnd(i) PROVE SavedOK'
  <2>1. saved' = Going(i, run[i].recs) /\ latest' = latest /\ run[i].recs \in Records
    BY <1>0, <1>4 DEF Start, GiftsEnd, PacksEnd, world, RunOK, Run
  <2>. QED
    BY <1>2, <2>1
<1>5. ASSUME NEW i \in Session, NEW k \in Key, Note(i, k) PROVE SavedOK'
  <2>1. k \in DOMAIN M(i) /\ M(i)[k].at \in Nat \cup {NoRec} /\ run[i].recs \in Records
    BY <1>0, <1>5, ManifestOK DEF Note, JobsOK, Jobs, RunOK, Run
  <2>2. run[i].recs[k] \in Nat \cup {NoRec} /\ Blank \in Nat \cup {NoRec}
    BY <2>1 DEF Records, Blank
  <2>3. PICK n \in Nat \cup {NoRec} : saved' = Going(i, [run[i].recs EXCEPT ![k] = n])
    BY <1>5, <2>1, <2>2 DEF Note
  <2>4. [run[i].recs EXCEPT ![k] = n] \in Records /\ latest' = latest
    BY <1>5, <2>1, NotedRecs DEF Note, world
  <2>. QED
    BY <1>2, <2>3, <2>4
<1>6. ASSUME NEW i \in Session, Halts(i) PROVE SavedOK'
  <2>1. run[i].recs \in Records /\ latest' = latest
    BY <1>0, <1>6 DEF Halts, world, RunOK, Run
  <2>2. \/ saved' = Going(i, run[i].recs)
        \/ saved' = [Going(i, run[i].recs) EXCEPT !.stage = "none"]
    BY <1>6 DEF Halts
  <2>. QED
    BY <1>0, <1>2, <2>1, <2>2, GoingOK
<1>7. ASSUME NEW i \in Session, Completes(i) PROVE SavedOK'
  <2>1. run[i].recs \in Records /\ latest' = latest
    BY <1>0, <1>7 DEF Completes, world, RunOK, Run
  <2>2. saved' = [Going(i, run[i].recs) EXCEPT !.stage = "complete"]
    BY <1>7 DEF Completes
  <2>. QED
    BY <1>0, <2>1, <2>2, GoingOK
<1>8. CASE \/ Publish \/ \E p \in Path : Touch(p)
           \/ \E i \in Session : Ask(i) \/ Play(i)
           \/ \E s \in {"pause", "cancel"} : Stop(s)
           \/ DeleteFiles \/ Crash \/ Polls \/ GameEnds \/ UNCHANGED vars
  BY <1>1, <1>8 DEF Publish, Touch, Ask, Play, Stop, DeleteFiles, Crash, Polls, PollSees,
     PollGivesUp, PollTimesOut, GameEnds, vars
<1>9. CASE \E i \in Session : \/ FetchFails(i) \/ Fetch(i) \/ Load(i) \/ WaitFor(i) \/ Refused(i)
                              \/ QueuesFail(i) \/ QueuesEnd(i) \/ GiftFails(i)
                              \/ \E p \in Path : Removes(i, p) \/ Leaves(i, p)
  BY <1>1, <1>9 DEF FetchFails, Fetch, Load, WaitFor, Refused, QueuesFail, QueuesEnd,
     GiftFails, Removes, Leaves
<1>10. CASE \E i \in Session, k \in Key :
              \/ Land(i, k) \/ TaskFails(i, k) \/ GiftLand(i, k) \/ Unpack(i, k)
              \/ UnpackFails(i, k) \/ ArchiveGone(i, k)
  BY <1>1, <1>10 DEF Land, TaskFails, GiftLand, Unpack, UnpackFails, ArchiveGone
<1>11. CASE \E i \in Session : QueuesHalt(i) \/ GiftsHalt(i) \/ PacksHalt(i)
  BY <1>6, <1>11 DEF QueuesHalt, GiftsHalt, PacksHalt
<1>. QED
  BY <1>3, <1>4, <1>5, <1>7, <1>8, <1>9, <1>10, <1>11 DEF Next, Works, Before

\* How a step may change the flags of the App and the launch.
AppChange ==
  /\ failed' = failed \/ failed' = TRUE \/ failed' = FALSE
  /\ del' = del \/ del' = TRUE \/ del' = FALSE
  /\ launch' \in {launch, "off", "poll", "join", "game"}

LEMMA AppChanges == [Next]_vars => AppChange
<1> SUFFICES ASSUME [Next]_vars PROVE AppChange
  OBVIOUS
<1>1. CASE UNCHANGED app
  BY <1>1 DEF AppChange, app
<1>2. CASE \/ Publish \/ \E p \in Path : Touch(p)
           \/ \E s \in {"pause", "cancel"} : Stop(s)
           \/ UNCHANGED vars
  BY <1>1, <1>2 DEF Publish, Touch, Stop, vars, app
<1>3. CASE \E i \in Session : \/ Ask(i) \/ Fetch(i) \/ Load(i) \/ WaitFor(i) \/ Refused(i)
                              \/ Start(i) \/ QueuesEnd(i) \/ GiftsEnd(i) \/ PacksEnd(i)
  BY <1>1, <1>3 DEF Ask, Fetch, Load, WaitFor, Refused, Start, QueuesEnd, GiftsEnd, PacksEnd
<1>4. CASE \E i \in Session, k \in Key : \/ Land(i, k) \/ TaskFails(i, k) \/ Note(i, k)
                                         \/ GiftLand(i, k) \/ Unpack(i, k)
  BY <1>1, <1>4 DEF Land, TaskFails, Note, GiftLand, Unpack
<1>5. CASE \E i \in Session, p \in Path : Removes(i, p) \/ Leaves(i, p)
  BY <1>1, <1>5 DEF Removes, Leaves
<1>6. ASSUME NEW i \in Session, Ends(i), failed' = failed, del' = del PROVE AppChange
  BY <1>6 DEF Ends, AppChange
<1>7. CASE \E i \in Session : \/ QueuesHalt(i) \/ GiftsHalt(i) \/ PacksHalt(i) \/ QueuesFail(i)
                              \/ GiftFails(i) \/ Completes(i)
  BY <1>6, <1>7 DEF QueuesHalt, GiftsHalt, PacksHalt, Halts, QueuesFail, GiftFails, Completes
<1>8. CASE \E i \in Session, k \in Key : UnpackFails(i, k) \/ ArchiveGone(i, k)
  BY <1>6, <1>8 DEF UnpackFails, ArchiveGone
<1>9. CASE \E i \in Session : Play(i) \/ FetchFails(i)
  <2>1. CASE \E i \in Session : Play(i)
    BY <2>1 DEF Play, AppChange
  <2>2. CASE \E i \in Session : FetchFails(i)
    BY <2>2 DEF FetchFails, AppChange
  <2>. QED
    BY <1>9, <2>1, <2>2
<1>10. CASE DeleteFiles
  BY <1>10 DEF DeleteFiles, AppChange
<1>11. CASE DeleteState
  BY <1>11 DEF DeleteState, AppChange
<1>12. CASE Crash
  BY <1>12 DEF Crash, AppChange
<1>13. CASE Polls \/ GameEnds
  BY <1>13 DEF Polls, PollSees, PollGivesUp, PollTimesOut, GameEnds, AppChange
<1>. QED
  BY <1>2, <1>3, <1>4, <1>5, <1>7, <1>8, <1>9, <1>10, <1>11, <1>12, <1>13
     DEF Next, Works, Before

LEMMA AppStep == Shape /\ [Next]_vars => AppOK'
<1> SUFFICES ASSUME Shape, [Next]_vars PROVE AppOK'
  OBVIOUS
<1>1. failed' \in BOOLEAN
  BY AppChanges, Zenon DEF AppChange, Shape, AppOK
<1>2. del' \in BOOLEAN
  BY AppChanges, Zenon DEF AppChange, Shape, AppOK
<1>3. launch' \in {"off", "poll", "join", "game"}
  BY AppChanges DEF AppChange, Shape, AppOK
<1>. QED
  BY <1>1, <1>2, <1>3, DiskStep DEF AppOK

LEMMA ActiveStep == Shape /\ [Next]_vars => ActiveOK'
<1> SUFFICES ASSUME Shape, [Next]_vars PROVE ActiveOK'
  OBVIOUS
<1>0. ActiveOK /\ run \in [Session -> Run] /\ 0 \notin Session
  BY SyncAssumption DEF Shape, RunOK
<1>1. ASSUME UNCHANGED <<run, active>> PROVE ActiveOK'
  BY <1>0, <1>1 DEF ActiveOK, Busy
<1>2. ASSUME NEW i \in Session, UNCHANGED active, \A j \in Session \ {i} : run'[j] = run[j],
             (run[i].at \in {"queues", "gifts", "unzip", "sweep"})
               <=> (run'[i].at \in {"queues", "gifts", "unzip", "sweep"})
      PROVE  ActiveOK'
  BY <1>0, <1>2 DEF ActiveOK, Busy
<1>3. ASSUME NEW i \in Session, Busy(i), Ends(i) PROVE ActiveOK'
  <2>1. active = i /\ active' = 0 /\ \A j \in Session \ {i} : ~Busy(j)
    BY <1>0, <1>3 DEF ActiveOK, Ends
  <2>2. \A j \in Session \ {i} : run'[j].at \in {run[j].at, "start"}
    BY <1>0, <1>3 DEF Ends, Run
  <2>3. run'[i].at = "off"
    BY <1>0, <1>3 DEF Ends, Idle
  <2>. QED
    BY <1>0, <2>1, <2>2, <2>3 DEF ActiveOK, Busy
<1>4. ASSUME NEW i \in Session, \/ Ask(i) \/ Play(i) \/ FetchFails(i) \/ Fetch(i) \/ Load(i)
                                \/ WaitFor(i) \/ Refused(i)
      PROVE  ActiveOK'
  <2>1. run[i].at \in {"off", "fetch", "load", "ask", "start"} /\ active' = active
    BY <1>4 DEF Ask, Play, Begins, FetchFails, Fetch, Load, WaitFor, Refused
  <2>2. \A j \in Session \ {i} : run'[j] = run[j]
    BY <1>0, <1>4 DEF Ask, Play, Begins, FetchFails, Fetch, Load, WaitFor, Refused
  <2>3. run'[i].at \in {"off", "fetch", "load", "ask", "wait", "start"}
    <3>1. CASE Ask(i) \/ Play(i) \/ Fetch(i)
      BY <1>0, <3>1 DEF Ask, Play, Begins, Fetch, Run
    <3>2. CASE FetchFails(i) \/ Refused(i)
      BY <1>0, <3>2 DEF FetchFails, Refused, Idle
    <3>3. CASE Load(i)
      BY <1>0, <3>3 DEF Load, Run
    <3>4. CASE WaitFor(i)
      BY <1>0, <3>4 DEF WaitFor, Run
    <3>. QED
      BY <1>4, <3>1, <3>2, <3>3, <3>4
  <2>. QED
    BY <1>2, <2>1, <2>2, <2>3
<1>5. ASSUME NEW i \in Session, Start(i) PROVE ActiveOK'
  <2>1. active = 0 /\ active' = i /\ run'[i].at \in {"queues", "sweep"}
    BY <1>0, <1>5 DEF Start, Run
  <2>2. \A j \in Session \ {i} : run'[j] = run[j]
    BY <1>0, <1>5 DEF Start
  <2>. QED
    BY <1>0, <2>1, <2>2 DEF ActiveOK, Busy
<1>6. ASSUME NEW i \in Session, NEW k \in Key,
             Land(i, k) \/ TaskFails(i, k) \/ Note(i, k) \/ GiftLand(i, k) \/ Unpack(i, k)
      PROVE  ActiveOK'
  <2>1. active' = active /\ \A j \in Session \ {i} : run'[j] = run[j]
    BY <1>0, <1>6 DEF Land, TaskFails, Note, GiftLand, Unpack
  <2>2. run'[i].at = run[i].at
    <3>1. CASE Land(i, k) \/ TaskFails(i, k)
      BY <1>0, <3>1 DEF Land, TaskFails, Run
    <3>2. CASE Note(i, k)
      BY <1>0, <3>2 DEF Note, Run
    <3>3. CASE GiftLand(i, k)
      BY <1>0, <3>3 DEF GiftLand, Run
    <3>4. CASE Unpack(i, k)
      BY <1>0, <3>4 DEF Unpack, Run
    <3>. QED
      BY <1>6, <3>1, <3>2, <3>3, <3>4
  <2>. QED
    BY <1>2, <2>1, <2>2
<1>7. ASSUME NEW i \in Session, \/ QueuesEnd(i) \/ GiftsEnd(i) \/ PacksEnd(i)
                                \/ \E p \in Path : Removes(i, p) \/ Leaves(i, p)
      PROVE  ActiveOK'
  <2>1. active' = active /\ \A j \in Session \ {i} : run'[j] = run[j]
    BY <1>0, <1>7 DEF QueuesEnd, GiftsEnd, PacksEnd, Removes, Leaves
  <2>2. run[i].at \in {"queues", "gifts", "unzip", "sweep"}
    BY <1>7 DEF QueuesEnd, QueuesOver, GiftsEnd, NextGift, PacksEnd, NextPack, Removes, Leaves
  <2>3. run'[i].at \in {"gifts", "unzip", "sweep"}
    <3>1. CASE QueuesEnd(i) \/ GiftsEnd(i) \/ PacksEnd(i)
      BY <1>0, <3>1 DEF QueuesEnd, GiftsEnd, PacksEnd, Run
    <3>2. CASE \E p \in Path : Removes(i, p) \/ Leaves(i, p)
      BY <1>0, <3>2 DEF Removes, Leaves, Run
    <3>. QED
      BY <1>7, <3>1, <3>2
  <2>. QED
    BY <1>2, <2>1, <2>2, <2>3
<1>8. CASE DeleteFiles \/ \E s \in {"pause", "cancel"} : Stop(s)
  <2>1. CASE run' = run /\ active' = active
    BY <1>1, <2>1
  <2>2. ASSUME NEW s \in {"pause", "cancel"}, active # 0, active' = active,
               run' = [run EXCEPT ![active].stop = s]
        PROVE  ActiveOK'
    <3>1. active \in Session
      BY <1>0, <2>2 DEF ActiveOK
    <3>2. /\ \A j \in Session \ {active} : run'[j] = run[j]
          /\ run'[active].at = run[active].at
      BY <1>0, <2>2, <3>1 DEF Run
    <3>. QED
      BY <1>2, <2>2, <3>1, <3>2
  <2>. QED
    BY <1>8, <2>1, <2>2 DEF DeleteFiles, Stop
<1>9. CASE Crash
  BY <1>0, <1>9 DEF Crash, ActiveOK, Busy, Idle
<1>10. CASE \/ Publish \/ \E p \in Path : Touch(p)
            \/ DeleteState \/ Polls \/ GameEnds \/ UNCHANGED vars
  BY <1>1, <1>10 DEF Publish, Touch, DeleteState, Polls, PollSees, PollGivesUp, PollTimesOut,
     GameEnds, vars
<1>11. ASSUME NEW i \in Session,
              \/ QueuesHalt(i) \/ QueuesFail(i) \/ GiftsHalt(i) \/ GiftFails(i)
              \/ PacksHalt(i) \/ Completes(i)
       PROVE  ActiveOK'
  <2>1. Busy(i)
    BY <1>11 DEF QueuesHalt, QueuesFail, QueuesOver, GiftsHalt, GiftFails, NextGift, PacksHalt,
       NextPack, Completes, Busy
  <2>. QED
    BY <1>3, <1>11, <2>1 DEF QueuesHalt, QueuesFail, GiftsHalt, GiftFails, PacksHalt,
       Completes, Halts
<1>12. ASSUME NEW i \in Session, NEW k \in Key, UnpackFails(i, k) \/ ArchiveGone(i, k)
       PROVE  ActiveOK'
  BY <1>3, <1>12 DEF UnpackFails, ArchiveGone, CutShort, Open, NextPack, Busy
<1>. QED
  BY <1>4, <1>5, <1>6, <1>7, <1>8, <1>9, <1>10, <1>11, <1>12 DEF Next, Works, Before

LEMMA JobsStep == Shape /\ [Next]_vars => JobsOK'
<1> SUFFICES ASSUME Shape, [Next]_vars PROVE JobsOK'
  OBVIOUS
<1>0. /\ JobsOK /\ ActiveOK /\ RunOK /\ WorldOK /\ run \in [Session -> Run] /\ 0 \notin Session
      /\ story' = story
  BY SyncAssumption, WorldStep DEF Shape, RunOK, Grown
<1> DEFINE JobsOf(r) == r.todo \cup r.packs \cup r.gifts \cup r.opening \cup r.landed
           Calm(r)   == JobsOf(r) = {} /\ r.orphans = {} /\ r.made = {} /\ r.kept = {}
           Fine(r)   == /\ JobsOf(r) \subseteq DOMAIN story.man[r.man]
                        /\ r.at \notin {"queues", "gifts", "unzip", "sweep"} => Calm(r)
<1>1. JobsOK <=> \A i \in Session : Fine(run[i])
  BY DEF JobsOK, Jobs, M, Busy
<1>2. JobsOK' <=> \A i \in Session : Fine(run'[i])
  BY <1>0 DEF JobsOK, Jobs, M, Busy
<1>3. \A r \in Run : Calm(r) => Fine(r)
  OBVIOUS
<1>4. Calm(Idle)
  BY DEF Idle
<1> HIDE DEF Fine
<1>5. ASSUME run' = run PROVE JobsOK'
  BY <1>0, <1>1, <1>2, <1>5
<1>6. ASSUME NEW i \in Session, NEW r, Fine(r), run' = [run EXCEPT ![i] = r] PROVE JobsOK'
  BY <1>0, <1>1, <1>2, <1>6
\* A step of session i that leaves it its manifest and gives it no new job.
<1>7. ASSUME NEW i \in Session, Ends(i) PROVE JobsOK'
  <2>1. Fine(Idle)
    BY <1>3, <1>4, IdleIsRun
  <2>2. \A r \in Run : Fine(r) /\ r.at = "wait" => Fine([r EXCEPT !.at = "start"])
    BY DEF Fine, Run
  <2>. QED
    BY <1>0, <1>1, <1>2, <1>7, <2>1, <2>2 DEF Ends
<1>8. ASSUME NEW i \in Session, \A j \in Session \ {i} : run'[j] = run[j],
             run'[i].man = run[i].man, JobsOf(run'[i]) \subseteq JobsOf(run[i]),
             run'[i].at \in {"queues", "gifts", "unzip", "sweep"}
      PROVE  JobsOK'
  BY <1>0, <1>1, <1>2, <1>8 DEF Fine
<1>9. ASSUME NEW i \in Session, ~Busy(i), \A j \in Session \ {i} : run'[j] = run[j],
             JobsOf(run'[i]) = JobsOf(run[i]), run'[i].orphans = run[i].orphans,
             run'[i].made = run[i].made, run'[i].kept = run[i].kept
      PROVE  JobsOK'
  <2>1. run'[i] \in Run
    BY RunStep DEF RunOK
  <2>2. Calm(run[i])
    BY <1>0, <1>1, <1>9 DEF Fine, Busy
  <2>3. Fine(run'[i])
    BY <1>3, <1>9, <2>1, <2>2
  <2>. QED
    BY <1>0, <1>1, <1>2, <1>9, <2>3
<1>10. ASSUME NEW i \in Session, \/ Ask(i) \/ Play(i) \/ FetchFails(i) \/ Fetch(i) \/ Load(i)
                                 \/ WaitFor(i) \/ Refused(i)
       PROVE  JobsOK'
  <2>1. ~Busy(i) /\ run[i] \in Run
    BY <1>0, <1>10 DEF Busy, Ask, Play, Begins, FetchFails, Fetch, Load, WaitFor, Refused
  <2>2. CASE FetchFails(i) \/ Refused(i)
    BY <1>3, <1>4, <1>6, <2>2, IdleIsRun DEF FetchFails, Refused
  <2>3. CASE Ask(i) \/ Play(i) \/ WaitFor(i)
    BY <1>0, <1>9, <2>1, <2>3 DEF Ask, Play, Begins, WaitFor, Run
  <2>4. CASE Fetch(i)
    BY <1>0, <1>9, <2>1, <2>4 DEF Fetch, Run
  <2>5. CASE Load(i)
    BY <1>0, <1>9, <2>1, <2>5 DEF Load, Run
  <2>. QED
    BY <1>10, <2>2, <2>3, <2>4, <2>5
<1>11. ASSUME NEW i \in Session, Start(i) PROVE JobsOK'
  <2> DEFINE m == M(i)
             jobs == Tasks(run[i].recs, m)
             r == [run[i] EXCEPT
                     !.at = IF jobs \cup Gifts(m) = {} THEN "sweep" ELSE "queues",
                     !.todo = jobs, !.packs = jobs \cap Folder, !.gifts = Gifts(m),
                     !.orphans = Orphans(run[i].recs, m, run[i].white),
                     !.kept = {p \in GiftPaths(m) : Exists(p)}]
  <2>1. run' = [run EXCEPT ![i] = r]
    BY <1>11 DEF Start
  <2>2. jobs \subseteq DOMAIN m /\ Gifts(m) \subseteq DOMAIN m
    BY DEF Tasks, Gifts
  <2>3. Fine(run[i]) /\ run[i] \in Run /\ run[i].at = "start"
    BY <1>0, <1>1, <1>11 DEF Start
  <2>4. /\ r.man = run[i].man /\ r.at \in {"queues", "sweep"}
        /\ r.todo = jobs /\ r.packs = jobs \cap Folder /\ r.gifts = Gifts(m)
        /\ r.opening = run[i].opening /\ r.landed = run[i].landed
    BY <2>3 DEF Run
  <2> HIDE DEF r, jobs, m
  <2>5. JobsOf(r) \subseteq DOMAIN story.man[r.man]
    BY <2>2, <2>3, <2>4 DEF Fine, M, m
  <2>6. Fine(r)
    BY <2>4, <2>5 DEF Fine
  <2>. QED
    BY <1>6, <2>1, <2>6
<1>12. ASSUME NEW i \in Session, NEW k \in Key,
              Land(i, k) \/ TaskFails(i, k) \/ Note(i, k) \/ GiftLand(i, k) \/ Unpack(i, k)
       PROVE  JobsOK'
  <2>1. run[i] \in Run /\ run[i].at \in {"queues", "gifts", "unzip", "sweep"}
    BY <1>0, <1>12 DEF Land, TaskFails, Note, GiftLand, NextGift, Unpack, Open, NextPack
  <2>2. \A j \in Session \ {i} : run'[j] = run[j]
    BY <1>0, <1>12 DEF Land, TaskFails, Note, GiftLand, Unpack
  <2>3. run'[i].man = run[i].man /\ run'[i].at = run[i].at
    <3>1. CASE Land(i, k) \/ TaskFails(i, k)
      BY <1>0, <3>1 DEF Land, TaskFails, Run
    <3>2. CASE Note(i, k)
      BY <1>0, <3>2 DEF Note, Run
    <3>3. CASE GiftLand(i, k)
      BY <1>0, <3>3 DEF GiftLand, Run
    <3>4. CASE Unpack(i, k)
      BY <1>0, <3>4 DEF Unpack, Run
    <3>. QED
      BY <1>12, <3>1, <3>2, <3>3, <3>4
  <2>4. JobsOf(run'[i]) \subseteq JobsOf(run[i])
    <3>1. CASE Land(i, k)
      BY <1>0, <3>1 DEF Land, Run
    <3>2. CASE TaskFails(i, k)
      BY <1>0, <3>2 DEF TaskFails, Run
    <3>3. CASE Note(i, k)
      BY <1>0, <3>3 DEF Note, Run
    <3>4. CASE GiftLand(i, k)
      BY <1>0, <3>4 DEF GiftLand, Run
    <3>5. CASE Unpack(i, k)
      <4>1. k \in run[i].packs \cup run[i].opening
        BY <3>5 DEF Unpack, Open
      <4>. QED
        BY <1>0, <3>5, <4>1 DEF Unpack, Run
    <3>. QED
      BY <1>12, <3>1, <3>2, <3>3, <3>4, <3>5
  <2>. QED
    BY <1>8, <2>1, <2>2, <2>3, <2>4
<1>13. ASSUME NEW i \in Session, \/ QueuesEnd(i) \/ GiftsEnd(i) \/ PacksEnd(i)
                                 \/ \E p \in Path : Removes(i, p) \/ Leaves(i, p)
       PROVE  JobsOK'
  <2>1. \A j \in Session \ {i} : run'[j] = run[j]
    BY <1>0, <1>13 DEF QueuesEnd, GiftsEnd, PacksEnd, Removes, Leaves
  <2>2. /\ run'[i].man = run[i].man /\ run'[i].at \in {"gifts", "unzip", "sweep"}
        /\ JobsOf(run'[i]) \subseteq JobsOf(run[i])
    <3>1. CASE QueuesEnd(i) \/ GiftsEnd(i) \/ PacksEnd(i)
      BY <1>0, <3>1 DEF QueuesEnd, GiftsEnd, PacksEnd, Run
    <3>2. CASE \E p \in Path : Removes(i, p)
      BY <1>0, <3>2 DEF Removes, Run
    <3>3. CASE \E p \in Path : Leaves(i, p)
      BY <1>0, <3>3 DEF Leaves, Run
    <3>. QED
      BY <1>13, <3>1, <3>2, <3>3
  <2>. QED
    BY <1>8, <2>1, <2>2
<1>14. CASE DeleteFiles \/ \E s \in {"pause", "cancel"} : Stop(s)
  <2>1. CASE run' = run
    BY <1>5, <2>1
  <2>2. ASSUME NEW s \in {"pause", "cancel"}, active # 0,
               run' = [run EXCEPT ![active].stop = s]
        PROVE  JobsOK'
    <3>1. active \in Session /\ Busy(active)
      BY <1>0, <2>2 DEF ActiveOK
    <3>2. /\ \A j \in Session \ {active} : run'[j] = run[j]
          /\ run'[active].man = run[active].man /\ run'[active].at = run[active].at
          /\ JobsOf(run'[active]) \subseteq JobsOf(run[active])
      BY <1>0, <2>2, <3>1 DEF Run
    <3>. QED
      BY <1>8, <3>1, <3>2 DEF Busy
  <2>. QED
    BY <1>14, <2>1, <2>2 DEF DeleteFiles, Stop
<1>15. CASE Crash
  BY <1>2, <1>3, <1>4, <1>15, IdleIsRun DEF Crash
<1>16. CASE \/ Publish \/ \E p \in Path : Touch(p)
            \/ DeleteState \/ Polls \/ GameEnds \/ UNCHANGED vars
  BY <1>5, <1>16 DEF Publish, Touch, DeleteState, Polls, PollSees, PollGivesUp, PollTimesOut,
     GameEnds, vars
<1>17. ASSUME NEW i \in Session,
              \/ QueuesHalt(i) \/ QueuesFail(i) \/ GiftsHalt(i) \/ GiftFails(i)
              \/ PacksHalt(i) \/ Completes(i)
              \/ \E k \in Key : UnpackFails(i, k) \/ ArchiveGone(i, k)
       PROVE  JobsOK'
  BY <1>7, <1>17 DEF QueuesHalt, QueuesFail, GiftsHalt, GiftFails, PacksHalt, Completes,
     Halts, UnpackFails, ArchiveGone
<1>. QED
  BY <1>10, <1>11, <1>12, <1>13, <1>14, <1>15, <1>16, <1>17 DEF Next, Works, Before

LEMMA ShapeStep == Shape /\ [Next]_vars => Shape'
<1> SUFFICES ASSUME Shape, [Next]_vars PROVE Shape'
  OBVIOUS
<1>1. WorldOK'
  BY WorldStep DEF Grown
<1>. QED
  BY <1>1, DiskStep, ZipStep, SavedStep, RunStep, AppStep, ActiveStep, JobsStep DEF Shape

LEMMA ShapeHolds == Spec => []Shape
<1>1. Init => Shape
  BY InitShape
<1>2. Shape /\ [Next]_vars => Shape'
  BY ShapeStep
<1>. QED
  BY <1>1, <1>2, PTL DEF Spec

\* The types; a session knows only published manifests, and Manager.active names
\* exactly the one session that is at work.
THEOREM TypeCorrect == Spec => []TypeOK
  BY ShapeHolds, ShapeIsTypeOK, PTL

-----------------------------------------------------------------------------
(* Gifts are kept.  What a Runner may still write or remove never includes *)
(* a gift that it found: the tasks are no gifts, and no two keys of one    *)
(* manifest share a path; the gifts it will fetch were missing; the        *)
(* orphans were cleared of gifts; and a cancel removes what it made.       *)

ReachOf(r) == {Where[k] : k \in r.todo \cup r.packs \cup r.gifts \cup r.opening}
                \cup r.orphans \cup r.made

KeptOK == \A i \in Session : run[i].kept \cap ReachOf(run[i]) = {}

LEMMA KeptStart ==
  ASSUME Shape, NEW i \in Session, Start(i)
  PROVE  run'[i].kept \cap ReachOf(run'[i]) = {}
<1> DEFINE m == M(i)
           jobs == Tasks(run[i].recs, m)
           kept == {p \in GiftPaths(m) : Exists(p)}
           orph == Orphans(run[i].recs, m, run[i].white)
<1>1. /\ run'[i].todo = jobs /\ run'[i].packs = jobs \cap Folder /\ run'[i].gifts = Gifts(m)
      /\ run'[i].opening = run[i].opening /\ run'[i].made = run[i].made
      /\ run'[i].orphans = orph /\ run'[i].kept = kept
  BY DEF Shape, RunOK, Start, Run
<1>2. run[i].opening = {} /\ run[i].made = {}
  BY DEF Shape, JobsOK, Jobs, Busy, Start
<1>3. /\ story \in Cases /\ run[i].man \in DOMAIN story.man /\ m = story.man[run[i].man]
      /\ DOMAIN m \subseteq Key
  BY StoryOK, ManifestOK DEF Shape, WorldOK, M
<1>4. /\ \A j, k \in DOMAIN m : Where[j] = Where[k] => j = k
      /\ \A k \in DOMAIN m : m[k].gift => Where[k] \notin Mods
  BY <1>3, ManifestAssumption
<1>5. \A k \in jobs : k \in DOMAIN m /\ ~m[k].gift
  BY DEF Tasks
<1>6. \A k \in jobs : Where[k] \notin GiftPaths(m)
  BY <1>4, <1>5 DEF GiftPaths
<1>7. \A k \in Gifts(m) : ~Exists(Where[k])
  BY DEF Gifts
<1>8. orph \cap GiftPaths(m) = {}
  <2>1. GiftPaths(m) \cap Mods = {}
    BY <1>4 DEF GiftPaths
  <2>2. Foreign(m, run[i].white) \subseteq Mods
    BY DEF Foreign
  <2>. QED
    BY <2>1, <2>2 DEF Orphans, Protected
<1> HIDE DEF m, jobs, kept, orph
<1>9. kept \subseteq GiftPaths(m) /\ \A p \in kept : Exists(p)
  BY DEF kept
<1>. QED
  BY <1>1, <1>2, <1>6, <1>7, <1>8, <1>9 DEF ReachOf

LEMMA KeptStep == Shape /\ KeptOK /\ [Next]_vars => KeptOK'
<1> SUFFICES ASSUME Shape, KeptOK, [Next]_vars PROVE KeptOK'
  OBVIOUS
<1>0. /\ run \in [Session -> Run] /\ run' \in [Session -> Run]
      /\ \A i \in Session : ~Busy(i) => run[i].kept = {}
      /\ active # 0 => active \in Session
  BY RunStep DEF Shape, RunOK, JobsOK, ActiveOK
<1>1. ASSUME UNCHANGED run PROVE KeptOK'
  BY <1>1 DEF KeptOK
<1>2. ASSUME NEW i \in Session, \A j \in Session \ {i} : run'[j] = run[j],
             \/ run'[i].kept = {}
             \/ run'[i].kept = run[i].kept /\ ReachOf(run'[i]) \subseteq ReachOf(run[i])
      PROVE  KeptOK'
  BY <1>2 DEF KeptOK
<1>3. ASSUME NEW i \in Session, Ends(i) PROVE KeptOK'
  <2>1. run'[i].kept = {}
    BY <1>0, <1>3 DEF Ends, Idle
  <2>2. \A j \in Session \ {i} :
          run'[j].kept = run[j].kept /\ ReachOf(run'[j]) = ReachOf(run[j])
    BY <1>0, <1>3 DEF Ends, ReachOf, Run
  <2>. QED
    BY <2>1, <2>2 DEF KeptOK
<1>4. ASSUME NEW i \in Session, \/ Ask(i) \/ Play(i) \/ FetchFails(i) \/ Fetch(i) \/ Load(i)
                                \/ WaitFor(i) \/ Refused(i)
      PROVE  KeptOK'
  <2>1. ~Busy(i) /\ \A j \in Session \ {i} : run'[j] = run[j]
    BY <1>0, <1>4 DEF Busy, Ask, Play, Begins, FetchFails, Fetch, Load, WaitFor, Refused
  <2>2. ~Busy(i)'
    <3>1. CASE FetchFails(i) \/ Refused(i)
      BY <1>0, <3>1 DEF FetchFails, Refused, Idle, Busy
    <3>2. CASE Ask(i) \/ Play(i) \/ WaitFor(i)
      BY <1>0, <3>2 DEF Ask, Play, Begins, WaitFor, Run, Busy
    <3>3. CASE Fetch(i) \/ Load(i)
      BY <1>0, <3>3 DEF Fetch, Load, Run, Busy
    <3>. QED
      BY <1>4, <3>1, <3>2, <3>3
  <2>3. run'[i].kept = {}
    BY <2>2, JobsStep DEF JobsOK
  <2>. QED
    BY <1>2, <2>1, <2>3
<1>5. ASSUME NEW i \in Session, Start(i) PROVE KeptOK'
  <2>1. \A j \in Session \ {i} : run'[j] = run[j]
    BY <1>0, <1>5 DEF Start
  <2>. QED
    BY <1>5, <2>1, KeptStart DEF KeptOK
<1>6. ASSUME NEW i \in Session, NEW k \in Key,
             Land(i, k) \/ TaskFails(i, k) \/ Note(i, k) \/ GiftLand(i, k) \/ Unpack(i, k)
      PROVE  KeptOK'
  <2>1. \A j \in Session \ {i} : run'[j] = run[j]
    BY <1>0, <1>6 DEF Land, TaskFails, Note, GiftLand, Unpack
  <2>2. run'[i].kept = run[i].kept /\ ReachOf(run'[i]) \subseteq ReachOf(run[i])
    <3>1. CASE Land(i, k) \/ TaskFails(i, k)
      BY <1>0, <3>1 DEF Land, TaskFails, Run, ReachOf
    <3>2. CASE Note(i, k)
      <4>1. /\ run'[i].kept = run[i].kept /\ run'[i].todo = run[i].todo
            /\ run'[i].packs = run[i].packs /\ run'[i].gifts = run[i].gifts
            /\ run'[i].opening = run[i].opening
            /\ run'[i].orphans = run[i].orphans /\ run'[i].made = run[i].made
        BY <1>0, <3>2 DEF Note, Run
      <4>. QED
        BY <4>1 DEF ReachOf
    <3>3. CASE GiftLand(i, k)
      <4>1. k \in run[i].gifts
        BY <3>3 DEF GiftLand
      <4>2. /\ run'[i].kept = run[i].kept /\ run'[i].todo = run[i].todo
            /\ run'[i].packs = run[i].packs /\ run'[i].gifts = run[i].gifts \ {k}
            /\ run'[i].opening \in {run[i].opening, {k}}
            /\ run'[i].orphans = run[i].orphans /\ run'[i].made = run[i].made
        BY <1>0, <3>3 DEF GiftLand, Run
      <4>. QED
        BY <4>1, <4>2 DEF ReachOf
    <3>4. CASE Unpack(i, k)
      <4>1. k \in run[i].packs \cup run[i].opening
        BY <3>4 DEF Unpack, Open
      <4>2. /\ run'[i].kept = run[i].kept /\ run'[i].todo = run[i].todo
            /\ run'[i].packs = run[i].packs \ {k} /\ run'[i].gifts = run[i].gifts
            /\ run'[i].opening = {} /\ run'[i].orphans = run[i].orphans
            /\ run'[i].made \subseteq run[i].made \cup {Where[k]}
        BY <1>0, <3>4 DEF Unpack, Run
      <4>. QED
        BY <4>1, <4>2 DEF ReachOf
    <3>. QED
      BY <1>6, <3>1, <3>2, <3>3, <3>4
  <2>. QED
    BY <1>2, <2>1, <2>2
<1>7. ASSUME NEW i \in Session, \/ QueuesEnd(i) \/ GiftsEnd(i) \/ PacksEnd(i)
                                \/ \E p \in Path : Removes(i, p) \/ Leaves(i, p)
      PROVE  KeptOK'
  <2>1. \A j \in Session \ {i} : run'[j] = run[j]
    BY <1>0, <1>7 DEF QueuesEnd, GiftsEnd, PacksEnd, Removes, Leaves
  <2>2. run'[i].kept = run[i].kept /\ ReachOf(run'[i]) \subseteq ReachOf(run[i])
    <3>1. CASE QueuesEnd(i) \/ GiftsEnd(i) \/ PacksEnd(i)
      <4>1. /\ run'[i].kept = run[i].kept /\ run'[i].todo = run[i].todo
            /\ run'[i].packs = run[i].packs /\ run'[i].gifts = run[i].gifts
            /\ run'[i].opening = run[i].opening
            /\ run'[i].orphans = run[i].orphans /\ run'[i].made = run[i].made
        BY <1>0, <3>1 DEF QueuesEnd, GiftsEnd, PacksEnd, Run
      <4>. QED
        BY <4>1 DEF ReachOf
    <3>2. CASE \E p \in Path : Removes(i, p)
      <4>1. /\ run'[i].kept = run[i].kept /\ run'[i].todo = run[i].todo
            /\ run'[i].packs = run[i].packs /\ run'[i].gifts = run[i].gifts
            /\ run'[i].opening = run[i].opening
            /\ run'[i].orphans \subseteq run[i].orphans /\ run'[i].made = run[i].made
        <5>1. \E p \in Path : \E a : run' = [run EXCEPT ![i].orphans = @ \ {p}, ![i].recs = a]
          BY <3>2 DEF Removes
        <5>. QED
          BY <1>0, <5>1 DEF Run
      <4>. QED
        BY <4>1 DEF ReachOf
    <3>3. CASE \E p \in Path : Leaves(i, p)
      <4>1. /\ run'[i].kept = run[i].kept /\ run'[i].todo = run[i].todo
            /\ run'[i].packs = run[i].packs /\ run'[i].gifts = run[i].gifts
            /\ run'[i].opening = run[i].opening
            /\ run'[i].orphans \subseteq run[i].orphans /\ run'[i].made = run[i].made
        BY <1>0, <3>3 DEF Leaves, Run
      <4>. QED
        BY <4>1 DEF ReachOf
    <3>. QED
      BY <1>7, <3>1, <3>2, <3>3
  <2>. QED
    BY <1>2, <2>1, <2>2
<1>8. CASE DeleteFiles \/ \E s \in {"pause", "cancel"} : Stop(s)
  <2>1. CASE run' = run
    BY <1>1, <2>1
  <2>2. ASSUME NEW s \in {"pause", "cancel"}, active # 0,
               run' = [run EXCEPT ![active].stop = s]
        PROVE  KeptOK'
    <3>1. /\ \A j \in Session \ {active} : run'[j] = run[j]
          /\ run'[active].kept = run[active].kept
          /\ ReachOf(run'[active]) \subseteq ReachOf(run[active])
      BY <1>0, <2>2 DEF Run, ReachOf
    <3>. QED
      BY <1>0, <1>2, <2>2, <3>1
  <2>. QED
    BY <1>8, <2>1, <2>2 DEF DeleteFiles, Stop
<1>9. CASE Crash
  BY <1>9 DEF Crash, KeptOK, Idle
<1>10. CASE \/ Publish \/ \E p \in Path : Touch(p)
            \/ DeleteState \/ Polls \/ GameEnds \/ UNCHANGED vars
  BY <1>1, <1>10 DEF Publish, Touch, DeleteState, Polls, PollSees, PollGivesUp, PollTimesOut,
     GameEnds, vars
<1>11. ASSUME NEW i \in Session,
              \/ QueuesHalt(i) \/ QueuesFail(i) \/ GiftsHalt(i) \/ GiftFails(i)
              \/ PacksHalt(i) \/ Completes(i)
              \/ \E k \in Key : UnpackFails(i, k) \/ ArchiveGone(i, k)
       PROVE  KeptOK'
  BY <1>3, <1>11 DEF QueuesHalt, QueuesFail, GiftsHalt, GiftFails, PacksHalt, Completes,
     Halts, UnpackFails, ArchiveGone
<1>. QED
  BY <1>4, <1>5, <1>6, <1>7, <1>8, <1>9, <1>10, <1>11 DEF Next, Works, Before

\* The paths that a step of the Runner i may change.
Spares == \A i \in Session : \A p \in run[i].kept :
            disk'[p] = disk[p] \/ Touch(p) \/ DeleteFiles

LEMMA SparesStep == Shape /\ KeptOK /\ Shape' /\ Next => Spares
<1> SUFFICES ASSUME Shape, KeptOK, Shape', Next PROVE Spares
  OBVIOUS
<1>0. /\ disk \in [Path -> [of : Content \cup {Own}, whole : BOOLEAN]]
      /\ run \in [Session -> Run]
      /\ \A i \in Session : Busy(i) \/ run[i].kept = {}
      /\ \A i, j \in Session : Busy(i) /\ Busy(j) => i = j
      /\ \A i \in Session : run[i].kept \subseteq Path
  BY DEF Shape, DiskOK, RunOK, JobsOK, ActiveOK, Run
<1>1. CASE UNCHANGED disk
  BY <1>1 DEF Spares
\* The Runner i changes at most the paths q, all of which it may reach.
<1>2. ASSUME NEW i \in Session, Busy(i), NEW q \in SUBSET ReachOf(run[i]),
             \A p \in Path \ q : disk'[p] = disk[p]
      PROVE  Spares
  BY <1>0, <1>2 DEF Spares, KeptOK
<1>3. ASSUME NEW i \in Session, NEW k \in Key, CutShort(i, k) PROVE Spares
  <2>1. Busy(i) /\ k \in run[i].packs \cup run[i].opening
    BY <1>3 DEF CutShort, Open, NextPack, Busy
  <2>2. {Where[k]} \in SUBSET ReachOf(run[i])
    BY <2>1 DEF ReachOf
  <2>3. \A p \in Path \ {Where[k]} : disk'[p] = disk[p]
    BY <1>0, <1>3 DEF CutShort
  <2>. QED
    BY <1>2, <2>1, <2>2, <2>3
<1>4. ASSUME NEW i \in Session, Busy(i), Halts(i) PROVE Spares
  <2>1. run[i].made \in SUBSET ReachOf(run[i])
    BY DEF ReachOf
  <2>2. \A p \in Path \ run[i].made : disk'[p] = disk[p]
    BY <1>0, <1>4 DEF Halts
  <2>. QED
    BY <1>2, <1>4, <2>1, <2>2
<1>5. ASSUME NEW i \in Session, NEW k \in Key, Land(i, k) \/ GiftLand(i, k) \/ Unpack(i, k)
      PROVE  Spares
  <2>1. Busy(i) /\ k \in run[i].todo \cup run[i].gifts \cup run[i].packs \cup run[i].opening
    BY <1>5 DEF Land, GiftLand, NextGift, Unpack, Open, NextPack, Busy
  <2>2. {Where[k]} \in SUBSET ReachOf(run[i])
    BY <2>1 DEF ReachOf
  <2>3. \A p \in Path \ {Where[k]} : disk'[p] = disk[p]
    BY <1>0, <1>5 DEF Land, GiftLand, Unpack, Lands
  <2>. QED
    BY <1>2, <2>1, <2>2, <2>3
<1>6. ASSUME NEW i \in Session, NEW p \in Path, Removes(i, p) PROVE Spares
  <2>1. Busy(i) /\ {p} \in SUBSET ReachOf(run[i])
    BY <1>6 DEF Removes, Busy, ReachOf
  <2>2. \A q \in Path \ {p} : disk'[q] = disk[q]
    BY <1>0, <1>6 DEF Removes
  <2>. QED
    BY <1>2, <2>1, <2>2
<1>7. ASSUME NEW q \in Path, Touch(q) PROVE Spares
  BY <1>0, <1>7 DEF Touch, Spares
<1>8. CASE DeleteFiles
  BY <1>8 DEF Spares
<1>9. CASE Crash \/ \E i \in Session, k \in Key : UnpackFails(i, k)
  <2>1. active # 0 => active \in Session
    BY DEF Shape, ActiveOK
  <2>. QED
    BY <1>1, <1>3, <1>9, <2>1 DEF Crash, UnpackFails
<1>10. CASE \/ Publish \/ \E i \in Session : \/ Ask(i) \/ Play(i) \/ FetchFails(i) \/ Fetch(i)
                                             \/ Load(i) \/ WaitFor(i) \/ Refused(i) \/ Start(i)
            \/ \E s \in {"pause", "cancel"} : Stop(s)
            \/ DeleteState \/ Polls \/ GameEnds
  BY <1>1, <1>10 DEF Publish, Ask, Play, FetchFails, Fetch, Load, WaitFor, Refused, Start, Stop,
     DeleteState, Polls, PollSees, PollGivesUp, PollTimesOut, GameEnds, files
<1>11. CASE \E i \in Session, k \in Key : TaskFails(i, k) \/ Note(i, k) \/ ArchiveGone(i, k)
  BY <1>1, <1>11 DEF TaskFails, Note, ArchiveGone, files
<1>12. CASE \E i \in Session : \/ QueuesFail(i) \/ QueuesEnd(i) \/ GiftFails(i) \/ GiftsEnd(i)
                               \/ PacksEnd(i) \/ Completes(i)
                               \/ \E p \in Path : Leaves(i, p)
  BY <1>1, <1>12 DEF QueuesFail, QueuesEnd, GiftFails, GiftsEnd, PacksEnd, Completes, Leaves,
     files
<1>13. CASE \E i \in Session : QueuesHalt(i) \/ GiftsHalt(i) \/ PacksHalt(i)
  BY <1>4, <1>13 DEF QueuesHalt, QueuesOver, GiftsHalt, NextGift, PacksHalt, NextPack, Busy
<1>. QED
  BY <1>5, <1>6, <1>7, <1>8, <1>9, <1>10, <1>11, <1>12, <1>13 DEF Next, Works, Before

\* No Runner writes or removes a file of the on_missing rules that was there when
\* it made its plan: not by a task, an unpacking, a cancel or the orphans.
THEOREM GiftsKeptHolds == Spec => GiftsKept
<1>1. Init => KeptOK
  BY DEF Init, KeptOK, Idle
<1>2. Shape /\ KeptOK /\ [Next]_vars => KeptOK'
  BY KeptStep
<1>3. Shape /\ Shape' /\ KeptOK /\ [Next]_vars =>
        [\A i \in Session : \A p \in run[i].kept :
           disk'[p] = disk[p] \/ Touch(p) \/ DeleteFiles]_vars
  BY SparesStep DEF Spares
<1>. QED
  BY <1>1, <1>2, <1>3, ShapeHolds, PTL DEF Spec, GiftsKept

-----------------------------------------------------------------------------
(* Records are backed.  As long as no Runner was started with an older     *)
(* manifest than one before it, whoever works has the newest that was ever *)
(* in use.  Records are honest: each bears a stamp that such a manifest    *)
(* gave the key, and where none of them is later the path holds what the   *)
(* stamp stands for, unless it is missing or not answered for.  And what   *)
(* has landed and is not yet noted is there.                               *)

Newer == \A i \in Session : Busy(i) => run[i].man = seen

Topical(r, k, st, la) == \A v \in 1 .. la : \A j \in DOMAIN st.man[v] :
                           Where[j] = Where[k] => st.man[v][j].at <= r[k]

Right(r, k, st, la, d) == \E v \in 1 .. la : \E j \in DOMAIN st.man[v] :
                            /\ Where[j] = Where[k] /\ st.man[v][j].at = r[k]
                            /\ Holds(d[Where[k]], Where[k], st.man[v][j].of)

Stamped(r, k, st, la) == \E v \in 1 .. la : k \in DOMAIN st.man[v] /\ st.man[v][k].at = r[k]

HonestIn(r, st, la, d, x) ==
  \A k \in Key : r[k] >= 1 =>
    /\ Stamped(r, k, st, la)
    /\ Topical(r, k, st, la) /\ d[Where[k]] # Absent /\ Where[k] \notin x
         => Right(r, k, st, la, d)

Honest(r) == HonestIn(r, story, seen, disk, excused)

Answered(p) == Exists(p) /\ p \notin excused

LandedOK == \A i \in Session : \A k \in run[i].landed :
              Answered(Where[k]) => Holds(disk[Where[k]], Where[k], M(i)[k].of)

RecordsOK == /\ Newer /\ LandedOK /\ Honest(saved.recs)
             /\ \A i \in Session : Honest(run[i].recs)

\* The assumption on manifests, for the case at hand.
LEMMA StampsGrow ==
  ASSUME WorldOK, NEW v \in 1 .. latest, NEW w \in 1 .. latest, v <= w,
         NEW j \in DOMAIN story.man[v], NEW k \in DOMAIN story.man[w], Where[j] = Where[k]
  PROVE  /\ story.man[v][j].at <= story.man[w][k].at
         /\ story.man[v][j].at = story.man[w][k].at => story.man[v][j].of = story.man[w][k].of
<1>1. story \in Cases /\ v \in DOMAIN story.man /\ w \in DOMAIN story.man
  BY StoryOK DEF WorldOK
<1>. QED
  BY <1>1, ManifestAssumption

\* The same towards the manifest la.
LEMMA StampsUpTo ==
  ASSUME WorldOK, NEW la \in 1 .. latest, NEW k \in DOMAIN story.man[la]
  PROVE  /\ la \in 1 .. la /\ 1 .. la \subseteq 1 .. latest /\ k \in Key
         /\ story.man[la][k].at \in Nat \ {0} /\ story.man[la][k].of \in Content
         /\ \A v \in 1 .. la : \A j \in DOMAIN story.man[v] :
              /\ story.man[v][j].at \in Nat \ {0}
              /\ Where[j] = Where[k] =>
                   /\ story.man[v][j].at <= story.man[la][k].at
                   /\ story.man[v][j].at = story.man[la][k].at
                        => story.man[v][j].of = story.man[la][k].of
<1>1. latest \in 1 .. Len(story.man) /\ Len(story.man) \in Nat
  BY StoryOK
<1>2. la \in 1 .. la /\ 1 .. la \subseteq 1 .. latest /\ latest \in 1 .. Len(story.man)
  BY <1>1
<1>3. /\ k \in Key /\ story.man[la][k].at \in Nat \ {0} /\ story.man[la][k].of \in Content
      /\ \A v \in 1 .. la : \A j \in DOMAIN story.man[v] :
           story.man[v][j].at \in Nat \ {0}
  BY <1>1, <1>2, StoryOK DEF Entry
<1>. QED
  BY <1>2, <1>3, StampsGrow

LEMMA NewestOK ==
  ASSUME WorldOK, NEW k \in DOMAIN Newest
  PROVE  /\ seen \in 1 .. seen /\ Newest = story.man[seen] /\ k \in Key
         /\ Newest[k].at \in Nat \ {0} /\ Newest[k].of \in Content
         /\ \A v \in 1 .. seen : \A j \in DOMAIN story.man[v] :
              /\ story.man[v][j].at \in Nat \ {0}
              /\ Where[j] = Where[k] =>
                   /\ story.man[v][j].at <= Newest[k].at
                   /\ story.man[v][j].at = Newest[k].at => story.man[v][j].of = Newest[k].of
  BY StampsUpTo DEF WorldOK, Newest

LEMMA RightIsNewest ==
  ASSUME WorldOK, NEW la \in 1 .. latest, NEW d, NEW x, NEW r \in Records,
         HonestIn(r, story, la, d, x), NEW k \in DOMAIN story.man[la],
         r[k] >= story.man[la][k].at, d[Where[k]] # Absent, Where[k] \notin x
  PROVE  Holds(d[Where[k]], Where[k], story.man[la][k].of)
<1>1. r[k] \in Int /\ r[k] >= 1 /\ k \in Key
  BY StampsUpTo DEF Records, NoRec
<1>2. Topical(r, k, story, la)
  BY <1>1, StampsUpTo DEF Topical
<1>3. Right(r, k, story, la, d)
  BY <1>1, <1>2 DEF HonestIn
<1>4. PICK v \in 1 .. la : \E j \in DOMAIN story.man[v] :
               /\ Where[j] = Where[k] /\ story.man[v][j].at = r[k]
               /\ Holds(d[Where[k]], Where[k], story.man[v][j].of)
  BY <1>3 DEF Right
<1>5. PICK j \in DOMAIN story.man[v] :
               /\ Where[j] = Where[k] /\ story.man[v][j].at = r[k]
               /\ Holds(d[Where[k]], Where[k], story.man[v][j].of)
  BY <1>4
<1>6. /\ story.man[v][j].at <= story.man[la][k].at
      /\ story.man[v][j].at = story.man[la][k].at => story.man[v][j].of = story.man[la][k].of
      /\ story.man[la][k].at \in Nat
  BY <1>5, StampsUpTo
<1>7. story.man[v][j].of = story.man[la][k].of
  BY <1>1, <1>5, <1>6
<1>. QED
  BY <1>5, <1>7

LEMMA RecordsOKBacks == Shape /\ RecordsOK => RecordsBacked
<1> SUFFICES ASSUME Shape, RecordsOK PROVE RecordsBacked
  OBVIOUS
<1>1. \A r \in Records : Honest(r) => Backed(r)
  BY RightIsNewest DEF Shape, WorldOK, Backed, Honest, Newest, Exists
<1>2. saved.recs \in Records /\ \A i \in Session : run[i].recs \in Records
  BY DEF Shape, SavedOK, RunOK, Run
<1>. QED
  BY <1>1, <1>2 DEF RecordsBacked, RecordsOK

-----------------------------------------------------------------------------
\* The session that works holds the same manifest until it ends.
LEMMA ManStays ==
  ASSUME Shape, [Next]_vars, active # 0, active' # 0
  PROVE  active' = active /\ run'[active].man = run[active].man
<1> DEFINE Same == active' = active /\ run'[active].man = run[active].man
<1>0. run \in [Session -> Run] /\ active \in Session /\ Busy(active)
  BY DEF Shape, RunOK, ActiveOK
<1>1. ASSUME NEW i \in Session, active' = active, \A j \in Session \ {i} : run'[j] = run[j],
             ~Busy(i) \/ run'[i].man = run[i].man
      PROVE  Same
  BY <1>0, <1>1
<1>2. CASE UNCHANGED <<run, active>>
  BY <1>2
<1>3. ASSUME NEW i \in Session, \/ QueuesHalt(i) \/ GiftsHalt(i) \/ PacksHalt(i) \/ QueuesFail(i)
                                \/ GiftFails(i) \/ Completes(i)
                                \/ \E k \in Key : UnpackFails(i, k) \/ ArchiveGone(i, k)
      PROVE  Same
  BY <1>3 DEF QueuesHalt, GiftsHalt, PacksHalt, Halts, QueuesFail, GiftFails, Completes,
     UnpackFails, ArchiveGone, Ends
<1>4. CASE Publish \/ DeleteState \/ Polls \/ GameEnds \/ UNCHANGED vars \/ \E p \in Path : Touch(p)
  BY <1>2, <1>4 DEF Publish, DeleteState, Polls, PollSees, PollGivesUp, PollTimesOut, GameEnds,
     vars, Touch
<1>5. CASE Crash \/ \E i \in Session : Start(i)
  BY <1>5 DEF Crash, Start
<1>6. ASSUME NEW i \in Session, \/ Ask(i) \/ Play(i) \/ FetchFails(i) \/ Fetch(i) \/ Load(i)
                                \/ WaitFor(i) \/ Refused(i)
      PROVE  Same
  <2>1. active' = active /\ \A j \in Session \ {i} : run'[j] = run[j]
    BY <1>0, <1>6 DEF Ask, Play, Begins, FetchFails, Fetch, Load, WaitFor, Refused
  <2>2. run[i].at \in {"off", "fetch", "load", "ask", "start"}
    BY <1>6 DEF Ask, Play, Begins, FetchFails, Fetch, Load, WaitFor, Refused
  <2>. QED
    BY <1>1, <2>1, <2>2 DEF Busy
<1>7. ASSUME NEW s \in {"pause", "cancel"}, Stop(s) PROVE Same
  BY <1>0, <1>7 DEF Stop, Run
<1>8. CASE DeleteFiles
  <2>1. run' = [run EXCEPT ![active].stop = "cancel"] /\ active' = active
    BY <1>8 DEF DeleteFiles
  <2>. QED
    BY <1>0, <2>1 DEF Run
<1>9. ASSUME NEW i \in Session, NEW k \in Key,
             Land(i, k) \/ TaskFails(i, k) \/ Note(i, k) \/ GiftLand(i, k) \/ Unpack(i, k)
      PROVE  Same
  <2>1. active' = active /\ \A j \in Session \ {i} : run'[j] = run[j]
    BY <1>0, <1>9 DEF Land, TaskFails, Note, GiftLand, Unpack
  <2>2. run'[i].man = run[i].man
    <3>1. CASE Land(i, k)
      BY <1>0, <3>1 DEF Land, Run
    <3>2. CASE TaskFails(i, k)
      BY <1>0, <3>2 DEF TaskFails, Run
    <3>3. CASE Note(i, k)
      BY <1>0, <3>3 DEF Note, Run
    <3>4. CASE GiftLand(i, k)
      BY <1>0, <3>4 DEF GiftLand, Run
    <3>5. CASE Unpack(i, k)
      BY <1>0, <3>5 DEF Unpack, Run
    <3>. QED
      BY <1>9, <3>1, <3>2, <3>3, <3>4, <3>5
  <2>. QED
    BY <1>1, <2>1, <2>2
<1>10. ASSUME NEW i \in Session, QueuesEnd(i) \/ GiftsEnd(i) \/ PacksEnd(i) PROVE Same
  <2>1. active' = active /\ \A j \in Session \ {i} : run'[j] = run[j]
    BY <1>0, <1>10 DEF QueuesEnd, GiftsEnd, PacksEnd
  <2>2. run'[i].man = run[i].man
    BY <1>0, <1>10 DEF QueuesEnd, GiftsEnd, PacksEnd, Run
  <2>. QED
    BY <1>1, <2>1, <2>2
<1>11. ASSUME NEW i \in Session, NEW p \in Path, Removes(i, p) \/ Leaves(i, p) PROVE Same
  <2>1. active' = active /\ \A j \in Session \ {i} : run'[j] = run[j]
    BY <1>0, <1>11 DEF Removes, Leaves
  <2>2. run'[i].man = run[i].man
    <3>1. CASE Removes(i, p)
      BY <1>0, <3>1 DEF Removes, Run
    <3>2. CASE Leaves(i, p)
      BY <1>0, <3>2 DEF Leaves, Run
    <3>. QED
      BY <1>11, <3>1, <3>2
  <2>. QED
    BY <1>1, <2>1, <2>2
<1>. QED
  BY <1>3, <1>4, <1>5, <1>6, <1>7, <1>8, <1>9, <1>10, <1>11 DEF Next, Works, Before

\* Only Start makes a session active.
LEMMA ActiveBegins ==
  ASSUME [Next]_vars, active = 0, active' # 0
  PROVE  \E i \in Session : Start(i)
<1>1. CASE \/ Publish \/ (\E p \in Path : Touch(p)) \/ UNCHANGED vars
           \/ (\E s \in {"pause", "cancel"} : Stop(s)) \/ DeleteFiles \/ DeleteState \/ Crash
           \/ Polls \/ GameEnds
  BY <1>1 DEF Publish, Touch, vars, Stop, DeleteFiles, DeleteState, Crash, Polls, PollSees,
     PollGivesUp, PollTimesOut, GameEnds
<1>2. CASE \E i \in Session : \/ Ask(i) \/ Play(i) \/ FetchFails(i) \/ Fetch(i) \/ Load(i)
                              \/ WaitFor(i) \/ Refused(i)
  BY <1>2 DEF Ask, Play, FetchFails, Fetch, Load, WaitFor, Refused
<1>3. CASE \E i \in Session : \/ QueuesHalt(i) \/ GiftsHalt(i) \/ PacksHalt(i) \/ QueuesFail(i)
                              \/ GiftFails(i) \/ Completes(i)
                              \/ \E k \in Key : UnpackFails(i, k) \/ ArchiveGone(i, k)
  BY <1>3 DEF QueuesHalt, GiftsHalt, PacksHalt, Halts, QueuesFail, GiftFails, Completes,
     UnpackFails, ArchiveGone, Ends
<1>4. CASE \E i \in Session : \/ QueuesEnd(i) \/ GiftsEnd(i) \/ PacksEnd(i)
                              \/ \E p \in Path : Removes(i, p) \/ Leaves(i, p)
  BY <1>4 DEF QueuesEnd, GiftsEnd, PacksEnd, Removes, Leaves
<1>5. CASE \E i \in Session, k \in Key : \/ Land(i, k) \/ TaskFails(i, k) \/ Note(i, k)
                                        \/ GiftLand(i, k) \/ Unpack(i, k)
  BY <1>5 DEF Land, TaskFails, Note, GiftLand, Unpack
<1>. QED
  BY <1>1, <1>2, <1>3, <1>4, <1>5 DEF Next, Works, Before

\* Only Start looks at the manifests in use.
LEMMA SeenMoves ==
  ASSUME [Next]_vars, \A i \in Session : ~Start(i)
  PROVE  seen' = seen /\ overtaken' = overtaken
<1>1. CASE \/ Publish \/ (\E p \in Path : Touch(p)) \/ UNCHANGED vars
           \/ (\E s \in {"pause", "cancel"} : Stop(s)) \/ DeleteFiles \/ DeleteState \/ Crash
           \/ Polls \/ GameEnds
  BY <1>1 DEF Publish, Touch, vars, Stop, DeleteFiles, DeleteState, Crash, Polls, PollSees,
     PollGivesUp, PollTimesOut, GameEnds, world
<1>2. CASE \E i \in Session : \/ Ask(i) \/ Play(i) \/ FetchFails(i) \/ Fetch(i) \/ Load(i)
                              \/ WaitFor(i) \/ Refused(i)
  BY <1>2 DEF Ask, Play, FetchFails, Fetch, Load, WaitFor, Refused, world
<1>3. CASE \E i \in Session : \/ QueuesHalt(i) \/ GiftsHalt(i) \/ PacksHalt(i) \/ QueuesFail(i)
                              \/ GiftFails(i) \/ Completes(i)
                              \/ \E k \in Key : UnpackFails(i, k) \/ ArchiveGone(i, k)
  BY <1>3 DEF QueuesHalt, GiftsHalt, PacksHalt, Halts, QueuesFail, GiftFails, Completes,
     UnpackFails, ArchiveGone, world
<1>4. CASE \E i \in Session : \/ QueuesEnd(i) \/ GiftsEnd(i) \/ PacksEnd(i)
                              \/ \E p \in Path : Removes(i, p) \/ Leaves(i, p)
  BY <1>4 DEF QueuesEnd, GiftsEnd, PacksEnd, Removes, Leaves, world
<1>5. CASE \E i \in Session, k \in Key : \/ Land(i, k) \/ TaskFails(i, k) \/ Note(i, k)
                                        \/ GiftLand(i, k) \/ Unpack(i, k)
  BY <1>5 DEF Land, TaskFails, Note, GiftLand, Unpack, world
<1>. QED
  BY <1>1, <1>2, <1>3, <1>4, <1>5 DEF Next, Works, Before

\* As long as no session starts with an older manifest than one before it, the one
\* that starts has the newest in use.
LEMMA StartIsNewest ==
  ASSUME Shape, NEW i \in Session, Start(i), ~overtaken'
  PROVE  /\ ~overtaken /\ run'[i].man = run[i].man /\ seen' = run[i].man
         /\ Newest' = M(i) /\ seen' \in 1 .. latest
<1>1. run[i].man \in 1 .. latest /\ seen \in 1 .. latest /\ latest \in Nat
  BY ManifestOK, StoryOK DEF Shape, WorldOK
<1>2. run'[i].man = run[i].man
  BY DEF Start, Shape, RunOK, Run
<1>3. ~overtaken /\ ~(run[i].man < seen) /\ seen' = IF run[i].man > seen THEN run[i].man ELSE seen
  BY DEF Start, Shape, WorldOK
<1>4. seen' = run[i].man
  BY <1>1, <1>3
<1>5. story' = story
  BY DEF Start
<1>. QED
  BY <1>1, <1>2, <1>3, <1>4, <1>5 DEF Newest, M

LEMMA NewerStep ==
  ASSUME Shape, Newer, [Next]_vars, ~overtaken'
  PROVE  Newer' /\ ~overtaken
<1>0. /\ run \in [Session -> Run] /\ active \in Session \cup {0} /\ 0 \notin Session
      /\ \A i \in Session : i = active <=> Busy(i)
      /\ \A i \in Session : i = active' <=> Busy(i)'
  BY ActiveStep, SyncAssumption DEF Shape, RunOK, ActiveOK
<1>1. ASSUME NEW i \in Session, Start(i) PROVE Newer' /\ ~overtaken
  <2>1. active' = i
    BY <1>1 DEF Start
  <2>. QED
    BY <1>0, <1>1, <2>1, StartIsNewest DEF Newer
<1>2. CASE \A i \in Session : ~Start(i)
  <2>1. seen' = seen /\ overtaken' = overtaken
    BY <1>2, SeenMoves
  <2>2. ASSUME NEW i \in Session, Busy(i)' PROVE run'[i].man = seen'
    <3>1. active # 0 /\ active' # 0 /\ active' = i
      BY <1>0, <1>2, <2>2, ActiveBegins
    <3>2. active = i /\ run'[i].man = run[i].man
      BY <1>2, <3>1, ManStays
    <3>. QED
      BY <1>0, <2>1, <3>2 DEF Newer
  <2>. QED
    BY <2>1, <2>2 DEF Newer
<1>. QED
  BY <1>1, <1>2

-----------------------------------------------------------------------------
(* What a step may do to a path: leave what is answered for, put the       *)
(* newest content there, or cut its folder short; then every session that  *)
(* worked is over, and no record calls the path current.                   *)

Kept(p) == Answered(p)' => Answered(p) /\ disk'[p] = disk[p]

Written(p) == /\ seen' = seen
              /\ \E k \in DOMAIN Newest : Where[k] = p /\ Holds(disk'[p], p, Newest[k].of)

Outdated(r, p) == \E k \in DOMAIN Newest :
                    Where[k] = p /\ \A j \in Key : Where[j] = p => r[j] < Newest[k].at

Cut(p) == /\ seen' = seen /\ \A i \in Session : run'[i].landed = {}
          /\ Outdated(saved.recs, p) /\ \A i \in Session : Outdated(run[i].recs, p)

DiskMoved == \A p \in Path : Kept(p) \/ Written(p) \/ Cut(p)

LEMMA CutShortMoves ==
  ASSUME Shape, Newer, NEW i \in Session, NEW k \in Key, CutShort(i, k), seen' = seen,
         \A j \in Session : run'[j].landed = {}
  PROVE  DiskMoved
<1>0. /\ disk \in [Path -> [of : Content \cup {Own}, whole : BOOLEAN]]
      /\ saved.recs \in Records /\ \A j \in Session : run[j].recs \in Records
  BY DEF Shape, DiskOK, SavedOK, RunOK, Run
<1>1. /\ Busy(i) /\ M(i) = Newest /\ k \in DOMAIN Newest /\ Where[k] \in Path
      /\ Newest[k].at \in Nat
  <2>1. Busy(i)
    BY DEF CutShort, Open, NextPack, Busy
  <2>2. k \in DOMAIN M(i) /\ Where[k] \in Path
    BY OpenIsJob DEF Shape, CutShort
  <2>3. M(i) = Newest
    BY <2>1 DEF Newer, Busy, M, Newest
  <2>. QED
    BY <2>1, <2>2, <2>3, NewestOK DEF Shape
<1>2. \A p \in Path \ {Where[k]} : Kept(p)
  BY <1>0 DEF CutShort, Kept, Answered, Exists
<1>3. CASE Where[k] \in excused'
  BY <1>2, <1>3 DEF DiskMoved, Kept, Answered
<1>4. CASE Where[k] \notin excused'
  <2>1. /\ \A j \in Key : Where[j] = Where[k] => ~(saved.recs[j] >= Newest[k].at)
        /\ \A l \in Session, j \in Key :
             Where[j] = Where[k] => ~(run[l].recs[j] >= Newest[k].at)
    BY <1>1, <1>4 DEF CutShort
  <2>2. \A r \in Records : (\A j \in Key : Where[j] = Where[k] => ~(r[j] >= Newest[k].at))
                             => Outdated(r, Where[k])
    BY <1>1 DEF Outdated, Records, NoRec
  <2>3. Cut(Where[k])
    BY <1>0, <2>1, <2>2 DEF Cut
  <2>. QED
    BY <1>2, <2>3 DEF DiskMoved
<1>. QED
  BY <1>3, <1>4

\* The path of an archive is found in order, or put in order.
Settled(k) ==
  /\ excused' = excused \ {Where[k]} /\ \A p \in Path \ {Where[k]} : disk'[p] = disk[p]
  /\ Holds(disk'[Where[k]], Where[k], Newest[k].of)

LEMMA LandsSettles ==
  ASSUME Shape, NEW k \in DOMAIN Newest, Where[k] \in Path, Lands(Where[k], Newest[k].of)
  PROVE  Settled(k)
<1>1. disk'[Where[k]] = Whole(Newest[k].of) /\ excused' = excused \ {Where[k]}
      /\ \A p \in Path \ {Where[k]} : disk'[p] = disk[p]
  BY DEF Lands, Shape, DiskOK
<1>. QED
  BY <1>1 DEF Settled, Holds

LEMMA UnpackSettles ==
  ASSUME Shape, NEW i \in Session, NEW k \in Key, Unpack(i, k), M(i) = Newest
  PROVE  Settled(k)
<1>1. k \in DOMAIN Newest /\ Where[k] \in Path /\ k \in Folder
  BY OpenIsJob DEF Shape, Unpack, Open
<1>2. PICK found \in Found(disk[Where[k]]) :
         IF Fits(Newest[k].of, found) THEN disk' = disk /\ excused' = excused \ {Where[k]}
         ELSE Lands(Where[k], Newest[k].of)
  BY DEF Unpack
<1>3. CASE Fits(Newest[k].of, found)
  BY <1>1, <1>2, <1>3 DEF Settled, Holds
<1>4. CASE ~Fits(Newest[k].of, found)
  BY <1>1, <1>2, <1>4, LandsSettles
<1>. QED
  BY <1>3, <1>4

LEMMA DiskMoves == Shape /\ Newer /\ [Next]_vars => DiskMoved
<1> SUFFICES ASSUME Shape, Newer, [Next]_vars PROVE DiskMoved
  OBVIOUS
<1>0. disk \in [Path -> [of : Content \cup {Own}, whole : BOOLEAN]] /\ excused \subseteq Path
  BY DEF Shape, DiskOK, AppOK
<1>1. CASE UNCHANGED <<disk, excused>>
  BY <1>1 DEF DiskMoved, Kept, Answered, Exists
<1>2. ASSUME NEW i \in Session, Ends(i) PROVE \A j \in Session : run'[j].landed = {}
  <2>1. \A j \in Session : ~Busy(j)'
    BY <1>2, ActiveStep, SyncAssumption DEF ActiveOK, Ends
  <2>. QED
    BY <2>1, JobsStep DEF JobsOK, Jobs
<1>3. ASSUME NEW i \in Session, NEW k \in Key, UnpackFails(i, k) PROVE DiskMoved
  BY <1>2, <1>3, CutShortMoves DEF UnpackFails
<1>4. CASE Crash
  <2>1. seen' = seen /\ \A j \in Session : run'[j].landed = {}
    BY <1>4 DEF Crash, Idle
  <2>2. active # 0 => active \in Session
    BY DEF Shape, ActiveOK
  <2>. QED
    BY <1>1, <1>4, <2>1, <2>2, CutShortMoves DEF Crash
<1>5. ASSUME NEW i \in Session, NEW k \in Key, Land(i, k) \/ GiftLand(i, k) \/ Unpack(i, k)
      PROVE  DiskMoved
  <2>1. Busy(i) /\ seen' = seen
    BY <1>5 DEF Land, GiftLand, NextGift, Unpack, Open, NextPack, Busy, world
  <2>2. k \in DOMAIN M(i) /\ Where[k] \in Path /\ M(i) = Newest
    BY <1>5, <2>1, OpenIsJob DEF Shape, Land, GiftLand, Unpack, Newer, M, Newest
  <2>3. UNCHANGED <<disk, excused>> \/ Lands(Where[k], Newest[k].of) \/ Unpack(i, k)
    BY <1>5, <2>2 DEF Land, GiftLand
  <2>4. CASE Settled(k)
    <3>1. \A p \in Path \ {Where[k]} : Kept(p)
      BY <1>0, <2>4 DEF Settled, Kept, Answered, Exists
    <3>2. Written(Where[k])
      BY <2>1, <2>2, <2>4 DEF Settled, Written
    <3>. QED
      BY <3>1, <3>2 DEF DiskMoved
  <2>. QED
    BY <1>1, <2>2, <2>3, <2>4, LandsSettles, UnpackSettles
<1>6. ASSUME NEW p \in Path, Touch(p) PROVE DiskMoved
  BY <1>0, <1>6 DEF Touch, DiskMoved, Kept, Answered, Exists
<1>7. CASE DeleteFiles
  BY <1>7 DEF DeleteFiles, DiskMoved, Kept, Answered
<1>8. ASSUME NEW i \in Session, Start(i) PROVE DiskMoved
  BY <1>8 DEF Start, DiskMoved, Kept, Answered, Exists
<1>9. ASSUME NEW i \in Session, Halts(i) PROVE DiskMoved
  BY <1>0, <1>9 DEF Halts, DiskMoved, Kept, Answered, Exists
<1>10. ASSUME NEW i \in Session, NEW p \in Path, Removes(i, p) \/ Leaves(i, p)
       PROVE  DiskMoved
  BY <1>0, <1>10 DEF Removes, Leaves, DiskMoved, Kept, Answered, Exists
<1>11. CASE \/ Publish \/ \E i \in Session : \/ Ask(i) \/ Play(i) \/ FetchFails(i) \/ Fetch(i)
                                             \/ Load(i) \/ WaitFor(i) \/ Refused(i)
            \/ \E s \in {"pause", "cancel"} : Stop(s)
            \/ DeleteState \/ Polls \/ GameEnds \/ UNCHANGED vars
  BY <1>1, <1>11 DEF Publish, Ask, Play, FetchFails, Fetch, Load, WaitFor, Refused, Stop,
     DeleteState, Polls, PollSees, PollGivesUp, PollTimesOut, GameEnds, files, vars
<1>12. CASE \E i \in Session, k \in Key : TaskFails(i, k) \/ Note(i, k) \/ ArchiveGone(i, k)
  BY <1>1, <1>12 DEF TaskFails, Note, ArchiveGone, files
<1>13. CASE \E i \in Session : \/ QueuesFail(i) \/ QueuesEnd(i) \/ GiftFails(i) \/ GiftsEnd(i)
                               \/ PacksEnd(i) \/ Completes(i)
  BY <1>1, <1>13 DEF QueuesFail, QueuesEnd, GiftFails, GiftsEnd, PacksEnd, Completes, files
<1>14. CASE \E i \in Session : QueuesHalt(i) \/ GiftsHalt(i) \/ PacksHalt(i)
  BY <1>9, <1>14 DEF QueuesHalt, GiftsHalt, PacksHalt
<1>. QED
  BY <1>3, <1>4, <1>5, <1>6, <1>7, <1>8, <1>10, <1>11, <1>12, <1>13, <1>14
     DEF Next, Works, Before

\* Records that were honest stay honest over such a step.
LEMMA HonestKept ==
  ASSUME Shape, Grown, DiskMoved, NEW r \in Records, Honest(r),
         \A p \in Path : Cut(p) => Outdated(r, p)
  PROVE  HonestIn(r, story', seen', disk', excused')
<1> SUFFICES ASSUME NEW k \in Key, r[k] >= 1
             PROVE  /\ Stamped(r, k, story', seen')
                    /\ /\ Topical(r, k, story', seen') /\ disk'[Where[k]] # Absent
                       /\ Where[k] \notin excused'
                       => Right(r, k, story', seen', disk')
  BY DEF HonestIn
<1>0. /\ story' = story /\ seen \in Nat /\ seen' \in Nat /\ seen <= seen'
      /\ 1 .. seen \subseteq 1 .. seen' /\ Where[k] \in Path /\ r[k] \in Int
  BY SyncAssumption DEF Grown, Shape, WorldOK, Records, NoRec
<1>1. Stamped(r, k, story, seen)
  BY DEF Honest, HonestIn
<1>2. Stamped(r, k, story', seen')
  BY <1>0, <1>1 DEF Stamped
<1>3. SUFFICES ASSUME Topical(r, k, story, seen'), disk'[Where[k]] # Absent,
                      Where[k] \notin excused'
               PROVE  Right(r, k, story, seen', disk')
  BY <1>0, <1>2
<1>4. Topical(r, k, story, seen)
  BY <1>0, <1>3 DEF Topical
<1>5. CASE Kept(Where[k])
  <2>1. Answered(Where[k]) /\ disk'[Where[k]] = disk[Where[k]]
    BY <1>3, <1>5 DEF Kept, Answered, Exists
  <2>2. Right(r, k, story, seen, disk)
    BY <1>4, <2>1 DEF Honest, HonestIn, Answered, Exists
  <2>. QED
    BY <1>0, <2>1, <2>2 DEF Right
<1>6. CASE Written(Where[k])
  <2>1. PICK n \in DOMAIN Newest :
               Where[n] = Where[k] /\ Holds(disk'[Where[k]], Where[k], Newest[n].of)
    BY <1>6 DEF Written
  <2>2. PICK v \in 1 .. seen : k \in DOMAIN story.man[v] /\ story.man[v][k].at = r[k]
    BY <1>1 DEF Stamped
  <2>3. r[k] <= Newest[n].at /\ Newest = story.man[seen] /\ seen \in 1 .. seen
    BY <2>1, <2>2, NewestOK DEF Shape
  <2>4. Newest[n].at <= r[k]
    BY <1>4, <2>1, <2>3 DEF Topical
  <2>5. Newest[n].at = r[k]
    BY <1>0, <2>1, <2>3, <2>4, NewestOK DEF Shape
  <2>. QED
    BY <1>0, <1>6, <2>1, <2>3, <2>5 DEF Right, Written
<1>7. CASE Cut(Where[k])
  <2>1. PICK n \in DOMAIN Newest : Where[n] = Where[k] /\ r[k] < Newest[n].at
    BY <1>0, <1>7 DEF Outdated
  <2>2. Newest[n].at <= r[k] /\ Newest[n].at \in Nat
    BY <1>4, <2>1, NewestOK DEF Shape, Topical
  <2>. QED
    BY <1>0, <2>1, <2>2
<1>. QED
  BY <1>0, <1>5, <1>6, <1>7 DEF DiskMoved

LEMMA NoRecsHonest == \A st, la, d, x : HonestIn(NoRecs, st, la, d, x)
  BY DEF HonestIn, NoRecs, NoRec

\* A note that the newest stamp is there, or a gift is.
LEMMA NoteHonest ==
  ASSUME Shape, RecordsOK, NEW i \in Session, NEW k \in Key, Note(i, k)
  PROVE  Honest(run'[i].recs) /\ run'[i].recs = saved'.recs
<1> DEFINE r == run[i].recs
           stamp == IF ~M(i)[k].gift THEN M(i)[k].at ELSE IF k \in Folder THEN Blank ELSE r[k]
           n == [r EXCEPT ![k] = stamp]
<1>1. run'[i].recs = n /\ saved'.recs = n
  BY DEF Note, Shape, RunOK, Run, Going
<1>2. /\ r \in Records /\ M(i) = Newest /\ k \in DOMAIN Newest /\ Newest[k].gift \in BOOLEAN
  <2>1. k \in DOMAIN M(i) /\ run[i].recs \in Records
    BY OpenIsJob DEF Shape, Note, RunOK, Run
  <2>2. M(i) = Newest
    BY DEF Note, RecordsOK, Newer, Busy, M, Newest
  <2>. QED
    BY <2>1, <2>2, ManifestOK DEF Shape
<1>3. Honest(r)
  BY DEF RecordsOK
<1>4. \A j \in Key \ {k} : n[j] = r[j]
  BY <1>2 DEF Records
<1>5. n[k] = stamp
  BY <1>2 DEF Records
<1> HIDE DEF n
<1>6. ASSUME NEW j \in Key, n[j] >= 1, n[j] = r[j]
      PROVE  /\ Stamped(n, j, story, seen)
             /\ Topical(n, j, story, seen) /\ disk[Where[j]] # Absent /\ Where[j] \notin excused
                  => Right(n, j, story, seen, disk)
  BY <1>3, <1>6 DEF Honest, HonestIn, Stamped, Topical, Right
<1>7. ASSUME ~Newest[k].gift
      PROVE  /\ Stamped(n, k, story, seen)
             /\ disk[Where[k]] # Absent /\ Where[k] \notin excused
                  => Right(n, k, story, seen, disk)
  <2>1. n[k] = Newest[k].at /\ Newest = story.man[seen] /\ seen \in 1 .. seen
    BY <1>2, <1>5, <1>7, NewestOK DEF Shape
  <2>2. Answered(Where[k]) => Holds(disk[Where[k]], Where[k], Newest[k].of)
    BY <1>2 DEF Note, RecordsOK, LandedOK
  <2>. QED
    BY <1>2, <2>1, <2>2 DEF Stamped, Right, Answered, Exists
<1>8. n[k] = r[k] \/ n[k] = Blank \/ ~Newest[k].gift
  BY <1>2, <1>5
<1>9. ASSUME NEW j \in Key, n[j] >= 1
      PROVE  /\ Stamped(n, j, story, seen)
             /\ Topical(n, j, story, seen) /\ disk[Where[j]] # Absent /\ Where[j] \notin excused
                  => Right(n, j, story, seen, disk)
  BY <1>4, <1>6, <1>7, <1>8, <1>9 DEF Blank
<1>. QED
  BY <1>1, <1>9 DEF Honest, HonestIn

\* Fewer records are as honest.
LEMMA FewerHonest ==
  ASSUME NEW r \in Records, NEW n \in Records, NEW st, NEW la, NEW d, NEW x,
         \A k \in Key : n[k] \in {r[k], NoRec}, HonestIn(r, st, la, d, x)
  PROVE  HonestIn(n, st, la, d, x)
<1> SUFFICES ASSUME NEW k \in Key, n[k] >= 1
             PROVE  /\ Stamped(n, k, st, la)
                    /\ Topical(n, k, st, la) /\ d[Where[k]] # Absent /\ Where[k] \notin x
                         => Right(n, k, st, la, d)
  BY DEF HonestIn
<1>1. n[k] = r[k]
  BY DEF NoRec
<1>. QED
  BY <1>1 DEF HonestIn, Stamped, Topical, Right

\* Where the records after a step come from.
OldRecs == {saved.recs, NoRecs} \cup {run[i].recs : i \in Session}

RecsMoved == saved'.recs \in OldRecs /\ \A i \in Session : run'[i].recs \in OldRecs

LEMMA RecsMove ==
  ASSUME Shape, [Next]_vars
  PROVE  \/ RecsMoved
         \/ \E i \in Session : \/ \E k \in Key : Note(i, k)
                               \/ \E p \in Path : Removes(i, p)
<1>0. run \in [Session -> Run] /\ (active # 0 => active \in Session)
  BY DEF Shape, RunOK, ActiveOK
<1>1. ASSUME saved'.recs \in OldRecs, UNCHANGED run PROVE RecsMoved
  BY <1>1 DEF RecsMoved, OldRecs
<1>2. ASSUME saved'.recs \in OldRecs, NEW i \in Session,
             \A j \in Session \ {i} : run'[j] = run[j], run'[i].recs \in OldRecs
      PROVE  RecsMoved
  BY <1>2 DEF RecsMoved, OldRecs
<1>3. ASSUME saved'.recs \in OldRecs, NEW i \in Session, Ends(i) PROVE RecsMoved
  <2>1. run'[i].recs = NoRecs
    BY <1>0, <1>3 DEF Ends, Idle
  <2>2. \A j \in Session \ {i} : run'[j].recs = run[j].recs
    BY <1>0, <1>3 DEF Ends, Run
  <2>. QED
    BY <1>3, <2>1, <2>2 DEF RecsMoved, OldRecs
<1>4. ASSUME NEW i \in Session, \/ Ask(i) \/ Play(i) \/ FetchFails(i) \/ Fetch(i) \/ Load(i)
                                \/ WaitFor(i) \/ Refused(i) \/ Start(i)
      PROVE  RecsMoved
  <2>1. \A j \in Session \ {i} : run'[j] = run[j]
    BY <1>0, <1>4 DEF Ask, Play, Begins, FetchFails, Fetch, Load, WaitFor, Refused, Start
  <2>2. saved'.recs \in {saved.recs, run[i].recs}
    BY <1>4 DEF Ask, Play, FetchFails, Fetch, Load, WaitFor, Refused, Start, Going
  <2>3. run'[i].recs \in {run[i].recs, saved.recs, NoRecs}
    <3>1. CASE Ask(i) \/ Play(i) \/ WaitFor(i)
      BY <1>0, <3>1 DEF Ask, Play, Begins, WaitFor, Run
    <3>2. CASE FetchFails(i) \/ Refused(i)
      BY <1>0, <3>2 DEF FetchFails, Refused, Idle
    <3>3. CASE Fetch(i) \/ Load(i)
      BY <1>0, <3>3 DEF Fetch, Load, Run
    <3>4. CASE Start(i)
      BY <1>0, <3>4 DEF Start, Run
    <3>. QED
      BY <1>4, <3>1, <3>2, <3>3, <3>4
  <2>. QED
    BY <1>2, <2>1, <2>2, <2>3 DEF OldRecs
<1>5. ASSUME NEW i \in Session, NEW k \in Key,
             Land(i, k) \/ TaskFails(i, k) \/ GiftLand(i, k) \/ Unpack(i, k)
      PROVE  RecsMoved
  <2>1. saved' = saved /\ \A j \in Session \ {i} : run'[j] = run[j]
    BY <1>0, <1>5 DEF Land, TaskFails, GiftLand, Unpack
  <2>2. run'[i].recs = run[i].recs
    <3>1. CASE Land(i, k) \/ TaskFails(i, k)
      BY <1>0, <3>1 DEF Land, TaskFails, Run
    <3>2. CASE GiftLand(i, k)
      BY <1>0, <3>2 DEF GiftLand, Run
    <3>3. CASE Unpack(i, k)
      BY <1>0, <3>3 DEF Unpack, Run
    <3>. QED
      BY <1>5, <3>1, <3>2, <3>3
  <2>. QED
    BY <1>2, <2>1, <2>2 DEF OldRecs
<1>6. ASSUME NEW i \in Session, \/ QueuesEnd(i) \/ GiftsEnd(i) \/ PacksEnd(i)
                                \/ \E p \in Path : Leaves(i, p)
      PROVE  RecsMoved
  <2>1. \A j \in Session \ {i} : run'[j] = run[j]
    BY <1>0, <1>6 DEF QueuesEnd, GiftsEnd, PacksEnd, Leaves
  <2>2. saved'.recs \in {saved.recs, run[i].recs}
    BY <1>6 DEF QueuesEnd, GiftsEnd, PacksEnd, Leaves, Going
  <2>3. run'[i].recs = run[i].recs
    <3>1. CASE QueuesEnd(i) \/ GiftsEnd(i) \/ PacksEnd(i)
      BY <1>0, <3>1 DEF QueuesEnd, GiftsEnd, PacksEnd, Run
    <3>2. CASE \E p \in Path : Leaves(i, p)
      BY <1>0, <3>2 DEF Leaves, Run
    <3>. QED
      BY <1>6, <3>1, <3>2
  <2>. QED
    BY <1>2, <2>1, <2>2, <2>3 DEF OldRecs
<1>7. CASE DeleteFiles \/ \E s \in {"pause", "cancel"} : Stop(s)
  <2>0. saved' = saved
    BY <1>7 DEF DeleteFiles, Stop
  <2>1. CASE run' = run
    BY <1>1, <2>0, <2>1 DEF OldRecs
  <2>2. ASSUME NEW s \in {"pause", "cancel"}, active # 0,
               run' = [run EXCEPT ![active].stop = s]
        PROVE  RecsMoved
    <3>1. /\ \A j \in Session \ {active} : run'[j] = run[j]
          /\ run'[active].recs = run[active].recs
      BY <1>0, <2>2 DEF Run
    <3>. QED
      BY <1>0, <1>2, <2>0, <2>2, <3>1 DEF OldRecs
  <2>. QED
    BY <1>7, <2>1, <2>2 DEF DeleteFiles, Stop
<1>8. CASE Crash
  BY <1>8 DEF Crash, RecsMoved, OldRecs, Idle
<1>9. CASE \/ Publish \/ \E p \in Path : Touch(p)
           \/ DeleteState \/ Polls \/ GameEnds \/ UNCHANGED vars
  BY <1>1, <1>9 DEF Publish, Touch, DeleteState, Fresh, Polls, PollSees, PollGivesUp,
     PollTimesOut, GameEnds, vars, OldRecs
<1>10. ASSUME NEW i \in Session,
              \/ QueuesHalt(i) \/ QueuesFail(i) \/ GiftsHalt(i) \/ GiftFails(i)
              \/ PacksHalt(i) \/ Completes(i)
              \/ \E k \in Key : UnpackFails(i, k) \/ ArchiveGone(i, k)
       PROVE  RecsMoved
  <2>1. Ends(i) /\ saved'.recs \in {saved.recs, run[i].recs}
    <3>1. CASE Halts(i)
      BY <3>1 DEF Halts, Going
    <3>2. CASE Completes(i)
      BY <3>2 DEF Completes, Going
    <3>. QED
      BY <1>10, <3>1, <3>2 DEF QueuesHalt, QueuesFail, GiftsHalt, GiftFails, PacksHalt,
         UnpackFails, ArchiveGone
  <2>. QED
    BY <1>3, <2>1 DEF OldRecs
<1>. QED
  BY <1>4, <1>5, <1>6, <1>7, <1>8, <1>9, <1>10 DEF Next, Works, Before

LEMMA HonestStep ==
  ASSUME Shape, RecordsOK, [Next]_vars
  PROVE  Honest(saved.recs)' /\ \A i \in Session : Honest(run[i].recs)'
<1> DEFINE Fine(r) == HonestIn(r, story', seen', disk', excused')
<1> SUFFICES Fine(saved'.recs) /\ \A i \in Session : Fine(run'[i].recs)
  BY DEF Honest
<1>0. Grown /\ DiskMoved /\ run \in [Session -> Run] /\ saved.recs \in Records
  BY WorldStep, DiskMoves DEF RecordsOK, Shape, RunOK, SavedOK
<1>1. Fine(saved.recs)
  BY <1>0, HonestKept DEF RecordsOK, Cut
<1>2. \A i \in Session : Fine(run[i].recs)
  <2> TAKE i \in Session
  <2>1. run[i].recs \in Records
    BY <1>0 DEF Run
  <2>. QED
    BY <1>0, <2>1, HonestKept DEF RecordsOK, Cut
<1>3. Fine(NoRecs)
  BY NoRecsHonest
<1> HIDE DEF Fine
<1>4. CASE RecsMoved
  BY <1>1, <1>2, <1>3, <1>4 DEF RecsMoved, OldRecs
<1>5. ASSUME NEW i \in Session, NEW k \in Key, Note(i, k)
      PROVE  Fine(saved'.recs) /\ \A j \in Session : Fine(run'[j].recs)
  <2>1. /\ story' = story /\ seen' = seen /\ disk' = disk /\ excused' = excused
        /\ \A j \in Session \ {i} : run'[j] = run[j]
    BY <1>0, <1>5 DEF Note, world, files
  <2>2. Fine(run'[i].recs) /\ run'[i].recs = saved'.recs
    BY <1>5, <2>1, NoteHonest DEF Fine, Honest
  <2>. QED
    BY <1>2, <2>1, <2>2
<1>6. ASSUME NEW i \in Session, NEW p \in Path, Removes(i, p)
      PROVE  Fine(saved'.recs) /\ \A j \in Session : Fine(run'[j].recs)
  <2>1. saved' = saved /\ \A j \in Session \ {i} : run'[j] = run[j]
    BY <1>0, <1>6 DEF Removes
  <2>2. run'[i].recs = [k \in Key |-> IF Where[k] = p THEN NoRec ELSE run[i].recs[k]]
    BY <1>0, <1>6 DEF Removes, Run
  <2>3. run[i].recs \in Records /\ run'[i].recs \in Records
    BY <1>0, <2>2 DEF Run, Records
  <2>4. Fine(run'[i].recs)
    BY <1>2, <2>2, <2>3, FewerHonest DEF Fine
  <2>. QED
    BY <1>1, <1>2, <2>1, <2>4
<1>. QED
  BY <1>4, <1>5, <1>6, RecsMove

\* Where the landed keys after a step come from.
Lands1(i, k) == \/ (Land(i, k) \/ GiftLand(i, k)) /\ k \notin Folder
                \/ Unpack(i, k)

LandedFrom(i) == run'[i].landed # {} =>
  /\ run'[i].man = run[i].man
  /\ \A k \in run'[i].landed : k \in run[i].landed \/ Lands1(i, k)

LEMMA LandedMove ==
  ASSUME Shape, [Next]_vars
  PROVE  \A i \in Session : LandedFrom(i)
<1>0. /\ run \in [Session -> Run] /\ (active # 0 => active \in Session)
      /\ \A i \in Session : Busy(i) \/ run[i].landed = {}
      /\ \A i \in Session : Busy(i)' \/ run'[i].landed = {}
  BY JobsStep DEF Shape, RunOK, ActiveOK, JobsOK, Jobs
<1>1. ASSUME UNCHANGED run PROVE \A i \in Session : LandedFrom(i)
  BY <1>1 DEF LandedFrom
<1>2. ASSUME NEW i \in Session, \A j \in Session \ {i} : run'[j] = run[j],
             run'[i].man = run[i].man, run'[i].landed \subseteq run[i].landed
      PROVE  \A j \in Session : LandedFrom(j)
  BY <1>2 DEF LandedFrom
<1>3. ASSUME NEW i \in Session, Ends(i) PROVE \A j \in Session : LandedFrom(j)
  <2>1. \A j \in Session : ~Busy(j)'
    BY <1>3, ActiveStep, SyncAssumption DEF ActiveOK, Ends
  <2>. QED
    BY <1>0, <2>1 DEF LandedFrom
<1>4. ASSUME NEW i \in Session, \/ Ask(i) \/ Play(i) \/ FetchFails(i) \/ Fetch(i) \/ Load(i)
                                \/ WaitFor(i) \/ Refused(i) \/ Start(i)
      PROVE  \A j \in Session : LandedFrom(j)
  <2>1. \A j \in Session \ {i} : run'[j] = run[j]
    BY <1>0, <1>4 DEF Ask, Play, Begins, FetchFails, Fetch, Load, WaitFor, Refused, Start
  <2>2. run[i].landed = {} /\ run[i] \in Run
    BY <1>0, <1>4 DEF Ask, Play, Begins, FetchFails, Fetch, Load, WaitFor, Refused, Start, Busy
  <2>3. run'[i].landed = {}
    <3>1. CASE Ask(i) \/ Play(i) \/ WaitFor(i)
      <4>1. \E a : run' = [run EXCEPT ![i].at = a]
        BY <3>1 DEF Ask, Play, Begins, WaitFor
      <4>. QED
        BY <1>0, <2>2, <4>1 DEF Run
    <3>2. CASE FetchFails(i) \/ Refused(i)
      BY <1>0, <3>2 DEF FetchFails, Refused, Idle
    <3>3. CASE Fetch(i) \/ Load(i)
      BY <1>0, <2>2, <3>3 DEF Fetch, Load, Run
    <3>4. CASE Start(i)
      BY <1>0, <2>2, <3>4 DEF Start, Run
    <3>. QED
      BY <1>4, <3>1, <3>2, <3>3, <3>4
  <2>. QED
    BY <2>1, <2>3 DEF LandedFrom
<1>5. ASSUME NEW i \in Session, NEW k \in Key,
             Land(i, k) \/ TaskFails(i, k) \/ Note(i, k) \/ GiftLand(i, k) \/ Unpack(i, k)
      PROVE  \A j \in Session : LandedFrom(j)
  <2>1. \A j \in Session \ {i} : run'[j] = run[j]
    BY <1>0, <1>5 DEF Land, TaskFails, Note, GiftLand, Unpack
  <2>2. /\ run'[i].man = run[i].man
        /\ run'[i].landed \subseteq run[i].landed \cup {l \in {k} : Lands1(i, l)}
    <3>1. CASE Land(i, k)
      BY <1>0, <3>1 DEF Land, Run, Lands1
    <3>2. CASE TaskFails(i, k)
      BY <1>0, <3>2 DEF TaskFails, Run
    <3>3. CASE Note(i, k)
      BY <1>0, <3>3 DEF Note, Run
    <3>4. CASE GiftLand(i, k)
      BY <1>0, <3>4 DEF GiftLand, Run, Lands1
    <3>5. CASE Unpack(i, k)
      <4>1. run'[i].landed = {k} /\ run'[i].man = run[i].man
        BY <1>0, <3>5 DEF Unpack, Run
      <4>. QED
        BY <3>5, <4>1 DEF Lands1
    <3>. QED
      BY <1>5, <3>1, <3>2, <3>3, <3>4, <3>5
  <2>. QED
    BY <2>1, <2>2 DEF LandedFrom
<1>6. ASSUME NEW i \in Session, \/ QueuesEnd(i) \/ GiftsEnd(i) \/ PacksEnd(i)
                                \/ \E p \in Path : Removes(i, p) \/ Leaves(i, p)
      PROVE  \A j \in Session : LandedFrom(j)
  <2>1. \A j \in Session \ {i} : run'[j] = run[j]
    BY <1>0, <1>6 DEF QueuesEnd, GiftsEnd, PacksEnd, Removes, Leaves
  <2>2. run'[i].man = run[i].man /\ run'[i].landed = run[i].landed
    <3>1. CASE QueuesEnd(i) \/ GiftsEnd(i) \/ PacksEnd(i)
      BY <1>0, <3>1 DEF QueuesEnd, GiftsEnd, PacksEnd, Run
    <3>2. CASE \E p \in Path : Removes(i, p)
      <4>1. \E p \in Path : \E a : run' = [run EXCEPT ![i].orphans = @ \ {p}, ![i].recs = a]
        BY <3>2 DEF Removes
      <4>. QED
        BY <1>0, <4>1 DEF Run
    <3>3. CASE \E p \in Path : Leaves(i, p)
      BY <1>0, <3>3 DEF Leaves, Run
    <3>. QED
      BY <1>6, <3>1, <3>2, <3>3
  <2>. QED
    BY <1>2, <2>1, <2>2
<1>7. CASE DeleteFiles \/ \E s \in {"pause", "cancel"} : Stop(s)
  <2>1. CASE run' = run
    BY <1>1, <2>1
  <2>2. ASSUME NEW s \in {"pause", "cancel"}, active # 0,
               run' = [run EXCEPT ![active].stop = s]
        PROVE  \A j \in Session : LandedFrom(j)
    <3>1. /\ \A j \in Session \ {active} : run'[j] = run[j]
          /\ run'[active].man = run[active].man /\ run'[active].landed = run[active].landed
      BY <1>0, <2>2 DEF Run
    <3>. QED
      BY <1>0, <1>2, <2>2, <3>1
  <2>. QED
    BY <1>7, <2>1, <2>2 DEF DeleteFiles, Stop
<1>8. CASE Crash
  BY <1>8 DEF Crash, LandedFrom, Idle
<1>9. CASE \/ Publish \/ \E p \in Path : Touch(p)
           \/ DeleteState \/ Polls \/ GameEnds \/ UNCHANGED vars
  BY <1>1, <1>9 DEF Publish, Touch, DeleteState, Polls, PollSees, PollGivesUp,
     PollTimesOut, GameEnds, vars
<1>10. ASSUME NEW i \in Session,
              \/ QueuesHalt(i) \/ QueuesFail(i) \/ GiftsHalt(i) \/ GiftFails(i)
              \/ PacksHalt(i) \/ Completes(i)
              \/ \E k \in Key : UnpackFails(i, k) \/ ArchiveGone(i, k)
       PROVE  \A j \in Session : LandedFrom(j)
  BY <1>3, <1>10 DEF QueuesHalt, QueuesFail, GiftsHalt, GiftFails, PacksHalt, Completes,
     Halts, UnpackFails, ArchiveGone
<1>. QED
  BY <1>4, <1>5, <1>6, <1>7, <1>8, <1>9, <1>10 DEF Next, Works, Before

\* A manifest names a path once.
LEMMA PathsOnce ==
  ASSUME WorldOK, NEW j \in DOMAIN Newest, NEW k \in DOMAIN Newest, Where[j] = Where[k]
  PROVE  j = k
<1>1. story \in Cases /\ seen \in DOMAIN story.man
  BY StoryOK DEF WorldOK
<1>. QED
  BY <1>1, ManifestAssumption DEF Newest

LEMMA LandedStep ==
  ASSUME Shape, RecordsOK, [Next]_vars
  PROVE  LandedOK'
<1> SUFFICES ASSUME NEW i \in Session, NEW k \in run'[i].landed, Answered(Where[k])'
             PROVE  Holds(disk'[Where[k]], Where[k], story'.man[run'[i].man][k].of)
  BY DEF LandedOK, M
<1>0. /\ Newer /\ DiskMoved /\ LandedOK /\ Grown
  BY DiskMoves, WorldStep DEF RecordsOK
<1>1. run'[i].man = run[i].man /\ (k \in run[i].landed \/ Lands1(i, k))
  BY LandedMove DEF LandedFrom
<1>2. Busy(i) /\ k \in DOMAIN M(i) /\ k \in Key /\ Where[k] \in Path
  <2>1. CASE k \in run[i].landed
    <3>1. k \in Jobs(i) /\ Busy(i)
      BY <2>1 DEF Shape, JobsOK, Jobs
    <3>. QED
      BY <3>1, ManifestOK DEF Shape, JobsOK
  <2>2. CASE Lands1(i, k)
    <3>1. Busy(i) /\ (k \in run[i].todo \/ k \in run[i].gifts \/ k \in Open(i))
      BY <2>2 DEF Lands1, Land, GiftLand, NextGift, Unpack, Open, NextPack, Busy
    <3>2. k \in Jobs(i)
      BY <3>1 DEF Jobs, Open
    <3>. QED
      BY <3>1, <3>2, ManifestOK DEF Shape, JobsOK
  <2>. QED
    BY <1>1, <2>1, <2>2
<1>3. M(i) = Newest /\ story'.man[run'[i].man] = Newest
  BY <1>0, <1>1, <1>2 DEF Newer, Busy, M, Newest, Grown
<1>4. CASE Lands1(i, k)
  <2>1. CASE (Land(i, k) \/ GiftLand(i, k)) /\ k \notin Folder
    BY <1>2, <1>3, <2>1, LandsSettles DEF Land, GiftLand, Settled
  <2>2. CASE Unpack(i, k)
    BY <1>2, <1>3, <2>2, UnpackSettles DEF Settled
  <2>. QED
    BY <1>4, <2>1, <2>2 DEF Lands1
<1>5. CASE k \in run[i].landed
  <2>1. CASE Kept(Where[k])
    BY <1>0, <1>2, <1>3, <1>5, <2>1 DEF Kept, LandedOK
  <2>2. CASE Written(Where[k])
    BY <1>2, <1>3, <2>2, PathsOnce DEF Written, Shape
  <2>3. CASE Cut(Where[k])
    BY <2>3 DEF Cut
  <2>. QED
    BY <1>0, <1>2, <2>1, <2>2, <2>3 DEF DiskMoved
<1>. QED
  BY <1>1, <1>4, <1>5

RecordsInv == ~overtaken => RecordsOK

LEMMA RecordsStep ==
  ASSUME Shape, RecordsInv, [Next]_vars, ~overtaken'
  PROVE  RecordsOK /\ RecordsOK' /\ ~overtaken
<1>1. ~overtaken
  <2>1. CASE \E i \in Session : Start(i)
    BY <2>1, StartIsNewest
  <2>2. CASE \A i \in Session : ~Start(i)
    BY <2>2, SeenMoves
  <2>. QED
    BY <2>1, <2>2
<1>2. RecordsOK
  BY <1>1 DEF RecordsInv
<1>. QED
  BY <1>1, <1>2, NewerStep, HonestStep, LandedStep DEF RecordsOK

\* No record that calls a key of the newest manifest in use current is wrong, in a
\* crash, with several sessions, or after any number of updates, published at any
\* time: until a session starts with an older manifest than one before it.
THEOREM RecordsBackedHolds == Spec => []RecordsBacked
<1>1. Init => RecordsInv
  BY NoRecsHonest
     DEF Init, RecordsInv, RecordsOK, Newer, Busy, LandedOK, Honest, Idle, Fresh
<1>2. Shape /\ RecordsInv /\ [Next]_vars => RecordsInv'
  BY RecordsStep DEF RecordsInv
<1>3. Shape /\ RecordsInv => RecordsBacked
  BY RecordsOKBacks DEF RecordsInv, RecordsBacked
<1>. QED
  BY <1>1, <1>2, <1>3, ShapeHolds, PTL DEF Spec

-----------------------------------------------------------------------------
(* "Complete" is true.  While a session works, each file of the newest     *)
(* manifest is in place, still to be done, or the session is doomed to     *)
(* fail; a mod that should not be there is an orphan; and no orphan is the *)
(* path of a file of the manifest, which needs that a path keeps its key.  *)
(* The session that saved "complete" had nothing left of all that, and     *)
(* nothing but the user changes the folder until the next one starts.      *)

WorkOK(r, d, x, m, sp) ==
  /\ \A k \in DOMAIN m : ~m[k].gift =>
       /\ \/ Holds(d[Where[k]], Where[k], m[k].of) \/ Where[k] \in x
          \/ k \in r.todo \/ k \in r.packs \/ r.bad
       /\ Where[k] \notin r.orphans
  /\ \A p \in Mods : d[p] # Absent => p \in ModPaths(m) \cup x \cup sp \cup r.orphans
  /\ r.todo \cap Folder \subseteq r.packs
  /\ r.at # "queues" => r.todo = {} /\ ~r.bad
  /\ r.at = "sweep" => r.packs = {}

WorksOK == \A i \in Session : Busy(i) => WorkOK(run[i], disk, excused, Newest, story.spared)
StageOK == active # 0 => saved.stage # "complete"
\* The whitelist of a session, and: nobody is doomed before the start.
Whites  == \A i \in Session : run[i].white \subseteq story.spared /\ (run[i].bad => Busy(i))

CompleteInv == WorksOK /\ StageOK /\ CompleteIsCurrent

\* The user takes paths over.
LEMMA WorkTouched ==
  ASSUME NEW r, NEW d, NEW x \in SUBSET Path, NEW m, NEW sp, WorkOK(r, d, x, m, sp),
         IsManifest(m), NEW e, NEW y, x \subseteq y, \A p \in Path : p \in y \/ e[p] = d[p]
  PROVE  WorkOK(r, e, y, m, sp)
<1>1. \A k \in DOMAIN m : Where[k] \in Path
  BY SyncAssumption DEF IsManifest
<1>2. Mods \subseteq Path
  BY SyncAssumption
<1>. QED
  BY <1>1, <1>2 DEF WorkOK

LEMMA NewestIsManifest == ASSUME WorldOK PROVE IsManifest(Newest)
  BY SyncAssumption DEF WorldOK, Newest

\* The plan of a session leaves out nothing that is not in place.
LEMMA WorkStart ==
  ASSUME KeysKeepPaths, Shape, RecordsOK, Whites, NEW i \in Session, Start(i), ~overtaken',
         DiskMoved, Grown
  PROVE  WorkOK(run'[i], disk', excused', Newest', story.spared)
<1> DEFINE m == M(i)
           r == run[i].recs
           jobs == Tasks(r, m)
           orph == Orphans(r, m, run[i].white)
<1>0. /\ run[i] \in Run /\ r \in Records /\ m = Newest' /\ IsManifest(m)
      /\ disk \in [Path -> [of : Content \cup {Own}, whole : BOOLEAN]]
      /\ seen' \in 1 .. latest /\ m = story.man[seen']
  BY StartIsNewest, ManifestOK DEF Shape, RunOK, Run, DiskOK, M, IsManifest
<1>1. /\ run'[i].todo = jobs /\ run'[i].packs = jobs \cap Folder /\ run'[i].orphans = orph
      /\ run'[i].at = IF jobs \cup Gifts(m) = {} THEN "sweep" ELSE "queues"
      /\ run'[i].bad = run[i].bad
  BY <1>0 DEF Shape, RunOK, Start, Run
<1>2. disk' = disk /\ excused' = {p \in excused : Exists(p)}
  BY DEF Start
<1>3. ASSUME NEW k \in DOMAIN m, ~m[k].gift, k \notin jobs
      PROVE  Holds(disk[Where[k]], Where[k], m[k].of) \/ Where[k] \in excused'
  <2>1. k \in Key /\ Where[k] \in Path /\ r[k] \in Int /\ m[k].at \in Nat
    BY <1>0, ManifestOK, SyncAssumption DEF Records, NoRec, Shape
  <2>2. CASE NeedsCheck(r, m, k)
    BY <1>3, <2>2 DEF Tasks, Holds
  <2>3. CASE ~NeedsCheck(r, m, k)
    <3>1. Exists(Where[k]) /\ r[k] >= m[k].at
      BY <2>1, <2>3 DEF NeedsCheck
    <3>2. HonestIn(r, story, seen', disk, excused')
      BY <1>0, <1>2, HonestKept DEF RecordsOK, Cut, Start
    <3>. QED
      BY <1>0, <3>1, <3>2, RightIsNewest DEF Shape, Exists
  <2>. QED
    BY <2>2, <2>3
<1>4. ASSUME NEW k \in DOMAIN m, ~m[k].gift PROVE Where[k] \notin orph
  <2>1. k \in Key /\ Where[k] \in Path
    BY <1>0, SyncAssumption DEF IsManifest
  <2>2. Where[k] \notin Gone(r, m)
    BY <2>1 DEF Gone, KeysKeepPaths
  <2>3. Where[k] \notin Foreign(m, run[i].white)
    BY <1>4, <2>1 DEF Foreign, ModPaths
  <2>. QED
    BY <2>2, <2>3 DEF Orphans
<1>5. ASSUME NEW p \in Mods, disk[p] # Absent
      PROVE  p \in ModPaths(m) \cup story.spared \cup orph
  BY <1>5 DEF Orphans, Foreign, Exists, Whites
<1>6. ~run[i].bad
  BY DEF Start, Whites, Busy
<1> HIDE DEF m, jobs, orph
<1>7. WorkOK(run'[i], disk', excused', m, story.spared)
  <2>1. \A k \in DOMAIN m : ~m[k].gift =>
          /\ \/ Holds(disk'[Where[k]], Where[k], m[k].of) \/ Where[k] \in excused'
             \/ k \in run'[i].todo
          /\ Where[k] \notin run'[i].orphans
    BY <1>1, <1>2, <1>3, <1>4
  <2>2. \A p \in Mods : disk'[p] # Absent
                          => p \in ModPaths(m) \cup story.spared \cup run'[i].orphans
    BY <1>1, <1>2, <1>5
  <2>3. /\ run'[i].todo \cap Folder \subseteq run'[i].packs /\ ~run'[i].bad
        /\ run'[i].at # "queues" => run'[i].todo = {}
        /\ run'[i].at = "sweep" => run'[i].packs = {}
    BY <1>1, <1>6
  <2>. QED
    BY <2>1, <2>2, <2>3 DEF WorkOK
<1>. QED
  BY <1>0, <1>7

LEMMA WhitesStep == Shape /\ Whites /\ [Next]_vars => Whites'
<1> SUFFICES ASSUME Shape, Whites, [Next]_vars PROVE Whites'
  OBVIOUS
<1>0. /\ run \in [Session -> Run] /\ (active # 0 => active \in Session) /\ story' = story
      /\ Idle.white = {} /\ Idle.bad = FALSE
  BY WorldStep DEF Shape, RunOK, ActiveOK, Grown, Idle
<1>1. ASSUME UNCHANGED run PROVE Whites'
  BY <1>0, <1>1 DEF Whites, Busy
<1>2. ASSUME NEW i \in Session, \A j \in Session \ {i} : run'[j] = run[j],
             run'[i].white \subseteq story.spared, run'[i].bad => Busy(i)'
      PROVE  Whites'
  BY <1>0, <1>2 DEF Whites, Busy
<1>3. ASSUME NEW i \in Session, Ends(i) PROVE Whites'
  <2>1. run'[i].white \subseteq story.spared /\ ~run'[i].bad
    BY <1>0, <1>3 DEF Ends
  <2>2. ASSUME NEW j \in Session \ {i}
        PROVE  run'[j].white \subseteq story.spared /\ (run'[j].bad => Busy(j)')
    <3>1. run'[j] = run[j] \/ run[j].at = "wait"
      BY <1>3 DEF Ends
    <3>2. run'[j].white = run[j].white /\ run'[j].bad = run[j].bad
      BY <1>0, <1>3 DEF Ends, Run
    <3>. QED
      BY <3>1, <3>2 DEF Whites, Busy
  <2>. QED
    BY <1>0, <2>1, <2>2 DEF Whites
<1>4. ASSUME NEW i \in Session, \/ Ask(i) \/ Play(i) \/ FetchFails(i) \/ Fetch(i) \/ Load(i)
                                \/ WaitFor(i) \/ Refused(i) \/ Start(i)
      PROVE  Whites'
  <2>1. \A j \in Session \ {i} : run'[j] = run[j]
    BY <1>0, <1>4 DEF Ask, Play, Begins, FetchFails, Fetch, Load, WaitFor, Refused, Start
  <2>2. ~run[i].bad /\ run[i].white \subseteq story.spared
    BY <1>4 DEF Ask, Play, Begins, FetchFails, Fetch, Load, WaitFor, Refused, Start, Busy, Whites
  <2>3. run'[i].bad \in {run[i].bad, Idle.bad} /\ run'[i].white \subseteq story.spared
    <3>1. CASE Ask(i) \/ Play(i) \/ WaitFor(i)
      <4>1. \E a : run' = [run EXCEPT ![i].at = a]
        BY <3>1 DEF Ask, Play, Begins, WaitFor
      <4>. QED
        BY <1>0, <2>2, <4>1 DEF Run
    <3>2. CASE FetchFails(i) \/ Refused(i)
      BY <1>0, <3>2 DEF FetchFails, Refused
    <3>3. CASE Fetch(i) \/ Load(i)
      BY <1>0, <2>2, <3>3 DEF Fetch, Load, Run
    <3>4. CASE Start(i)
      BY <1>0, <2>2, <3>4 DEF Start, Run
    <3>. QED
      BY <1>4, <3>1, <3>2, <3>3, <3>4
  <2>. QED
    BY <1>0, <1>2, <2>1, <2>2, <2>3
<1>5. ASSUME NEW i \in Session, \A j \in Session \ {i} : run'[j] = run[j], active' = active,
             Busy(i), run'[i].white = run[i].white
      PROVE  Whites'
  <2>1. Busy(i)'
    BY <1>5, ActiveStep DEF Shape, ActiveOK
  <2>. QED
    BY <1>2, <1>5, <2>1 DEF Whites
<1>6. ASSUME NEW i \in Session, NEW k \in Key,
             Land(i, k) \/ TaskFails(i, k) \/ Note(i, k) \/ GiftLand(i, k) \/ Unpack(i, k)
      PROVE  Whites'
  <2>1. active' = active /\ \A j \in Session \ {i} : run'[j] = run[j]
    BY <1>0, <1>6 DEF Land, TaskFails, Note, GiftLand, Unpack
  <2>2. Busy(i)
    BY <1>6 DEF Land, TaskFails, Note, GiftLand, NextGift, Unpack, Open, NextPack, Busy
  <2>3. run'[i].white = run[i].white
    <3>1. CASE Land(i, k) \/ TaskFails(i, k)
      BY <1>0, <3>1 DEF Land, TaskFails, Run
    <3>2. CASE Note(i, k)
      BY <1>0, <3>2 DEF Note, Run
    <3>3. CASE GiftLand(i, k)
      BY <1>0, <3>3 DEF GiftLand, Run
    <3>4. CASE Unpack(i, k)
      BY <1>0, <3>4 DEF Unpack, Run
    <3>. QED
      BY <1>6, <3>1, <3>2, <3>3, <3>4
  <2>. QED
    BY <1>5, <2>1, <2>2, <2>3
<1>7. ASSUME NEW i \in Session, \/ QueuesEnd(i) \/ GiftsEnd(i) \/ PacksEnd(i)
                                \/ \E p \in Path : Removes(i, p) \/ Leaves(i, p)
      PROVE  Whites'
  <2>1. active' = active /\ \A j \in Session \ {i} : run'[j] = run[j]
    BY <1>0, <1>7 DEF QueuesEnd, GiftsEnd, PacksEnd, Removes, Leaves
  <2>2. Busy(i)
    BY <1>7 DEF QueuesEnd, QueuesOver, GiftsEnd, NextGift, PacksEnd, NextPack, Removes, Leaves,
       Busy
  <2>3. run'[i].white = run[i].white
    <3>1. CASE QueuesEnd(i) \/ GiftsEnd(i) \/ PacksEnd(i)
      BY <1>0, <3>1 DEF QueuesEnd, GiftsEnd, PacksEnd, Run
    <3>2. CASE \E p \in Path : Removes(i, p)
      <4>1. \E p \in Path : \E a : run' = [run EXCEPT ![i].orphans = @ \ {p}, ![i].recs = a]
        BY <3>2 DEF Removes
      <4>. QED
        BY <1>0, <4>1 DEF Run
    <3>3. CASE \E p \in Path : Leaves(i, p)
      BY <1>0, <3>3 DEF Leaves, Run
    <3>. QED
      BY <1>7, <3>1, <3>2, <3>3
  <2>. QED
    BY <1>5, <2>1, <2>2, <2>3
<1>8. CASE DeleteFiles \/ \E s \in {"pause", "cancel"} : Stop(s)
  <2>1. CASE run' = run
    BY <1>1, <2>1
  <2>2. ASSUME NEW s \in {"pause", "cancel"}, active # 0, active' = active,
               run' = [run EXCEPT ![active].stop = s]
        PROVE  Whites'
    <3>1. /\ \A j \in Session \ {active} : run'[j] = run[j]
          /\ run'[active].white = run[active].white /\ Busy(active)
      BY <1>0, <2>2 DEF Run, Shape, ActiveOK
    <3>. QED
      BY <1>0, <1>5, <2>2, <3>1
  <2>. QED
    BY <1>8, <2>1, <2>2 DEF DeleteFiles, Stop
<1>9. CASE Crash
  BY <1>0, <1>9 DEF Crash, Whites
<1>10. CASE \/ Publish \/ \E p \in Path : Touch(p)
            \/ DeleteState \/ Polls \/ GameEnds \/ UNCHANGED vars
  BY <1>1, <1>10 DEF Publish, Touch, DeleteState, Polls, PollSees, PollGivesUp,
     PollTimesOut, GameEnds, vars
<1>11. ASSUME NEW i \in Session,
              \/ QueuesHalt(i) \/ QueuesFail(i) \/ GiftsHalt(i) \/ GiftFails(i)
              \/ PacksHalt(i) \/ Completes(i)
              \/ \E k \in Key : UnpackFails(i, k) \/ ArchiveGone(i, k)
       PROVE  Whites'
  BY <1>3, <1>11 DEF QueuesHalt, QueuesFail, GiftsHalt, GiftFails, PacksHalt, Completes,
     Halts, UnpackFails, ArchiveGone
<1>. QED
  BY <1>4, <1>6, <1>7, <1>8, <1>9, <1>10, <1>11 DEF Next, Works, Before

\* A key of the newest manifest is written, or found in order.
LEMMA WorkLands ==
  ASSUME Shape, NEW r, NEW sp, WorkOK(r, disk, excused, Newest, sp), NEW k \in DOMAIN Newest,
         Settled(k)
  PROVE  WorkOK(r, disk', excused', Newest, sp)
<1>0. /\ disk \in [Path -> [of : Content \cup {Own}, whole : BOOLEAN]] /\ IsManifest(Newest)
      /\ Mods \subseteq Path
  BY NewestIsManifest, SyncAssumption DEF Shape, DiskOK
<1>1. \A j \in DOMAIN Newest : Where[j] \in Path /\ (Where[j] = Where[k] => j = k)
  BY <1>0, PathsOnce, SyncAssumption DEF Shape, IsManifest
<1>2. /\ Holds(disk'[Where[k]], Where[k], Newest[k].of) /\ excused' = excused \ {Where[k]}
      /\ \A p \in Path \ {Where[k]} : disk'[p] = disk[p]
  BY DEF Settled
<1>3. Where[k] \in Mods => Where[k] \in ModPaths(Newest)
  <2>1. story \in Cases /\ seen \in DOMAIN story.man
    BY StoryOK DEF Shape, WorldOK
  <2>2. Newest[k].gift => Where[k] \notin Mods
    BY <2>1, ManifestAssumption DEF Newest
  <2>. QED
    BY <2>2 DEF ModPaths
<1>. QED
  BY <1>0, <1>1, <1>2, <1>3 DEF WorkOK

\* A key that is in place is done.
LEMMA WorkDone ==
  ASSUME NEW r, NEW n, NEW d, NEW x, NEW m, NEW sp, NEW k, WorkOK(r, d, x, m, sp),
         n.orphans = r.orphans, n.at = r.at, n.bad = r.bad,
         \/ n.todo = r.todo /\ n.packs = r.packs
         \/ /\ Holds(d[Where[k]], Where[k], m[k].of) \/ n.todo \cup n.packs = r.todo \cup r.packs
            /\ \/ n.todo = r.todo \ {k} /\ n.packs = r.packs
               \/ n.todo = r.todo /\ r.at # "queues" /\ n.packs = r.packs \ {k}
  PROVE  WorkOK(n, d, x, m, sp)
  BY DEF WorkOK

LEMMA WorkKeys ==
  ASSUME Shape, Newer, NEW i \in Session, NEW k \in Key,
         Land(i, k) \/ TaskFails(i, k) \/ Note(i, k) \/ GiftLand(i, k) \/ Unpack(i, k),
         WorkOK(run[i], disk, excused, Newest, story.spared)
  PROVE  WorkOK(run'[i], disk', excused', Newest, story.spared)
<1>0. /\ run \in [Session -> Run] /\ run[i] \in Run
      /\ disk \in [Path -> [of : Content \cup {Own}, whole : BOOLEAN]]
  BY DEF Shape, RunOK, DiskOK
<1>1. M(i) = Newest
  BY DEF Land, TaskFails, Note, GiftLand, NextGift, Unpack, Open, NextPack, Newer, Busy, M, Newest
<1>2. ASSUME k \in run[i].todo \/ k \in run[i].gifts \/ k \in Open(i)
      PROVE  k \in DOMAIN Newest /\ Where[k] \in Path
  BY <1>1, <1>2, OpenIsJob DEF Shape
<1>3. CASE Land(i, k)
  <2>1. /\ run'[i].orphans = run[i].orphans /\ run'[i].at = run[i].at /\ run'[i].bad = run[i].bad
        /\ run'[i].todo = run[i].todo \ {k} /\ run'[i].packs = run[i].packs
    BY <1>0, <1>3 DEF Land, Run
  <2>2. CASE k \in Folder
    <3>1. k \in run[i].packs /\ disk' = disk /\ excused' = excused
      BY <1>3, <2>2 DEF Land, WorkOK
    <3>. QED
      BY <2>1, <3>1 DEF WorkOK
  <2>3. CASE k \notin Folder
    <3>1. Lands(Where[k], Newest[k].of) /\ k \in DOMAIN Newest
      BY <1>1, <1>2, <1>3, <2>3 DEF Land
    <3>2. Settled(k)
      BY <1>2, <1>3, <3>1, LandsSettles DEF Land
    <3>3. /\ WorkOK(run[i], disk', excused', Newest, story.spared)
          /\ Holds(disk'[Where[k]], Where[k], Newest[k].of)
      BY <3>1, <3>2, WorkLands DEF Settled
    <3>. QED
      BY <2>1, <3>3, WorkDone
  <2>. QED
    BY <2>2, <2>3
<1>4. CASE TaskFails(i, k)
  <2>1. /\ run'[i].orphans = run[i].orphans /\ run'[i].at = "queues" /\ run'[i].bad = TRUE
        /\ run'[i].todo = run[i].todo \ {k} /\ run'[i].packs = run[i].packs
        /\ disk' = disk /\ excused' = excused
    BY <1>0, <1>4 DEF TaskFails, Run, files
  <2>. QED
    BY <2>1 DEF WorkOK
<1>5. CASE Note(i, k)
  <2>1. /\ run'[i].orphans = run[i].orphans /\ run'[i].at = run[i].at /\ run'[i].bad = run[i].bad
        /\ run'[i].todo = run[i].todo /\ run'[i].packs = run[i].packs
        /\ disk' = disk /\ excused' = excused
    BY <1>0, <1>5 DEF Note, Run, files
  <2>. QED
    BY <2>1, WorkDone
<1>6. CASE GiftLand(i, k)
  <2>1. /\ run'[i].orphans = run[i].orphans /\ run'[i].at = run[i].at /\ run'[i].bad = run[i].bad
        /\ run'[i].todo = run[i].todo /\ run'[i].packs = run[i].packs
    BY <1>0, <1>6 DEF GiftLand, Run
  <2>2. \/ UNCHANGED <<disk, excused>>
        \/ Settled(k) /\ k \in DOMAIN Newest
    BY <1>1, <1>2, <1>6, LandsSettles DEF GiftLand
  <2>3. WorkOK(run[i], disk', excused', Newest, story.spared)
    BY <2>2, WorkLands
  <2>. QED
    BY <2>1, <2>3, WorkDone
<1>7. CASE Unpack(i, k)
  <2>1. /\ run'[i].orphans = run[i].orphans /\ run'[i].at = run[i].at /\ run'[i].bad = run[i].bad
        /\ run'[i].todo = run[i].todo /\ run'[i].packs = run[i].packs \ {k}
    BY <1>0, <1>7 DEF Unpack, Run
  <2>2. run[i].at # "queues" /\ k \in Open(i) /\ k \in DOMAIN Newest
    BY <1>2, <1>7 DEF Unpack, Open, NextPack
  <2>3. Settled(k)
    BY <1>1, <1>7, UnpackSettles
  <2>4. /\ WorkOK(run[i], disk', excused', Newest, story.spared)
        /\ Holds(disk'[Where[k]], Where[k], Newest[k].of)
    BY <2>2, <2>3, WorkLands DEF Settled
  <2>. QED
    BY <2>1, <2>2, <2>4, WorkDone
<1>. QED
  BY <1>3, <1>4, <1>5, <1>6, <1>7

LEMMA WorkPhases ==
  ASSUME Shape, NEW i \in Session, WorkOK(run[i], disk, excused, Newest, story.spared),
         \/ QueuesEnd(i) \/ GiftsEnd(i) \/ PacksEnd(i)
         \/ \E p \in Path : Removes(i, p) \/ Leaves(i, p)
  PROVE  WorkOK(run'[i], disk', excused', Newest, story.spared)
<1>0. /\ run \in [Session -> Run] /\ run[i] \in Run
      /\ disk \in [Path -> [of : Content \cup {Own}, whole : BOOLEAN]] /\ Mods \subseteq Path
      /\ IsManifest(Newest)
  BY SyncAssumption, NewestIsManifest DEF Shape, RunOK, DiskOK
<1>1. CASE QueuesEnd(i) \/ GiftsEnd(i) \/ PacksEnd(i)
  <2>1. /\ run'[i].orphans = run[i].orphans /\ run'[i].bad = run[i].bad
        /\ run'[i].todo = run[i].todo /\ run'[i].packs = run[i].packs
        /\ run'[i].at \in {"gifts", "unzip", "sweep"} /\ disk' = disk /\ excused' = excused
    BY <1>0, <1>1 DEF QueuesEnd, GiftsEnd, PacksEnd, Run, files
  <2>2. run[i].todo = {} /\ ~run[i].bad
    BY <1>1 DEF QueuesEnd, QueuesOver, GiftsEnd, NextGift, PacksEnd, NextPack, WorkOK
  <2>3. run'[i].at = "sweep" => run[i].packs = {}
    BY <1>0, <1>1 DEF QueuesEnd, GiftsEnd, PacksEnd, Run
  <2>. QED
    BY <2>1, <2>2, <2>3 DEF WorkOK
<1>2. ASSUME NEW p \in Path, Removes(i, p)
      PROVE  WorkOK(run'[i], disk', excused', Newest, story.spared)
  <2>1. /\ run'[i].orphans = run[i].orphans \ {p} /\ run'[i].bad = run[i].bad
        /\ run'[i].todo = run[i].todo /\ run'[i].packs = run[i].packs
        /\ run'[i].at = run[i].at
    <3>1. \E a : run' = [run EXCEPT ![i].orphans = @ \ {p}, ![i].recs = a]
      BY <1>2 DEF Removes
    <3>. QED
      BY <1>0, <3>1 DEF Run
  <2>2. /\ disk'[p] = Absent /\ \A q \in Path \ {p} : disk'[q] = disk[q]
        /\ excused' = excused \ {p} /\ p \in run[i].orphans
    BY <1>0, <1>2 DEF Removes
  <2>3. \A k \in DOMAIN Newest : Where[k] \in Path
    BY <1>0, SyncAssumption DEF IsManifest
  <2>. QED
    BY <1>0, <2>1, <2>2, <2>3 DEF WorkOK
<1>3. ASSUME NEW p \in Path, Leaves(i, p)
      PROVE  WorkOK(run'[i], disk', excused', Newest, story.spared)
  <2>1. /\ run'[i].orphans = run[i].orphans \ {p} /\ run'[i].bad = run[i].bad
        /\ run'[i].todo = run[i].todo /\ run'[i].packs = run[i].packs
        /\ run'[i].at = run[i].at
    BY <1>0, <1>3 DEF Leaves, Run
  <2>2. disk' = disk /\ excused \subseteq excused'
    BY <1>3 DEF Leaves
  <2>3. p \in Mods => disk[p] = Absent \/ p \in excused'
    BY <1>3, SyncAssumption DEF Leaves, Exists
  <2>. QED
    BY <1>0, <2>1, <2>2, <2>3 DEF WorkOK
<1>. QED
  BY <1>1, <1>2, <1>3

\* The user may take paths over; "complete" then speaks of the others.
Touched == excused \subseteq excused' /\ \A p \in Path : p \in excused' \/ disk'[p] = disk[p]

LEMMA CompleteTouched ==
  ASSUME Shape, CompleteIsCurrent, ~overtaken, story' = story, saved' = saved, Touched
  PROVE  CompleteIsCurrent'
<1> SUFFICES ASSUME saved.stage = "complete"
             PROVE  LET m == story.man[saved.man] IN
                    /\ \A k \in DOMAIN m : ~m[k].gift /\ Where[k] \notin excused' =>
                                             Holds(disk'[Where[k]], Where[k], m[k].of)
                    /\ \A p \in Mods : disk'[p] # Absent =>
                                         p \in ModPaths(m) \cup excused' \cup story.spared
  BY DEF CompleteIsCurrent, Exists
<1> DEFINE m == story.man[saved.man]
<1>1. saved.man \in 1 .. Len(story.man)
  BY StoryOK DEF Shape, SavedOK, WorldOK
<1>2. /\ \A k \in DOMAIN m : k \in Key /\ Where[k] \in Path
      /\ Mods \subseteq Path
  BY <1>1, StoryOK, SyncAssumption DEF Shape
<1>3. /\ \A k \in DOMAIN m : ~m[k].gift /\ Where[k] \notin excused =>
                               Holds(disk[Where[k]], Where[k], m[k].of)
      /\ \A p \in Mods : disk[p] # Absent => p \in ModPaths(m) \cup excused \cup story.spared
  BY DEF CompleteIsCurrent, Exists
<1> HIDE DEF m
<1>4. /\ \A k \in DOMAIN m : ~m[k].gift /\ Where[k] \notin excused' =>
                               Holds(disk'[Where[k]], Where[k], m[k].of)
      /\ \A p \in Mods : disk'[p] # Absent => p \in ModPaths(m) \cup excused' \cup story.spared
  BY <1>2, <1>3 DEF Touched
<1>. QED
  BY <1>4 DEF m

LEMMA CompletesOK ==
  ASSUME Shape, Newer, NEW i \in Session, Completes(i),
         WorkOK(run[i], disk, excused, Newest, story.spared)
  PROVE  CompleteIsCurrent'
<1>1. /\ run[i].todo = {} /\ run[i].packs = {} /\ run[i].orphans = {} /\ ~run[i].bad
      /\ run[i].at = "sweep"
  BY DEF Completes, WorkOK
<1>2. /\ saved' = [Going(i, run[i].recs) EXCEPT !.stage = "complete"]
      /\ story' = story /\ disk' = disk /\ excused' = excused
  BY DEF Completes, world, files
<1>3. saved'.man = seen /\ story'.man[saved'.man] = Newest
  BY <1>1, <1>2 DEF Newer, Busy, Going, Newest
<1>4. /\ \A k \in DOMAIN Newest : ~Newest[k].gift /\ Where[k] \notin excused =>
                                    Holds(disk[Where[k]], Where[k], Newest[k].of)
      /\ \A p \in Mods : disk[p] # Absent => p \in ModPaths(Newest) \cup excused \cup story.spared
  BY <1>1 DEF WorkOK
<1> HIDE DEF Newest
<1>. QED
  BY <1>2, <1>3, <1>4 DEF CompleteIsCurrent, Exists

LEMMA CompleteStep ==
  ASSUME KeysKeepPaths, Shape, RecordsOK, Whites, CompleteInv, ~overtaken, ~overtaken',
         [Next]_vars
  PROVE  CompleteInv'
<1>0. /\ WorksOK /\ StageOK /\ CompleteIsCurrent /\ Newer
      /\ run \in [Session -> Run] /\ 0 \notin Session
      /\ active \in Session \cup {0} /\ \A i \in Session : i = active <=> Busy(i)
      /\ active' \in Session \cup {0} /\ \A i \in Session : i = active' <=> Busy(i)'
      /\ story' = story /\ IsManifest(Newest) /\ excused \subseteq Path
  BY ActiveStep, WorldStep, NewestIsManifest, SyncAssumption
     DEF CompleteInv, RecordsOK, Shape, RunOK, ActiveOK, Grown, AppOK
\* Nobody is at work after the step.
<1>1. ASSUME active' = 0, CompleteIsCurrent' PROVE CompleteInv'
  BY <1>0, <1>1 DEF CompleteInv, WorksOK, StageOK
\* The session i is at work after the step.
<1>2. ASSUME NEW i \in Session, active' = i, saved'.stage # "complete",
             WorkOK(run'[i], disk', excused', Newest', story.spared)
      PROVE  CompleteInv'
  <2>1. WorksOK'
    BY <1>0, <1>2 DEF WorksOK
  <2>. QED
    BY <1>2, <2>1 DEF CompleteInv, StageOK, CompleteIsCurrent
\* The user takes paths over; whoever is at work goes on.
<1>3. ASSUME Touched, active' = active, seen' = seen, saved' = saved,
             active # 0 => \/ run'[active] = run[active]
                           \/ \E s : run'[active] = [run[active] EXCEPT !.stop = s]
      PROVE  CompleteInv'
  <2>1. CASE active = 0
    BY <1>0, <1>1, <1>3, <2>1, CompleteTouched
  <2>2. CASE active # 0
    <3>1. active \in Session /\ saved.stage # "complete" /\ run[active] \in Run
          /\ WorkOK(run[active], disk, excused, Newest, story.spared)
      BY <1>0, <2>2 DEF WorksOK, StageOK
    <3>2. WorkOK(run[active], disk', excused', Newest, story.spared)
      BY <1>0, <1>3, <3>1, WorkTouched DEF Touched
    <3>3. /\ run'[active].todo = run[active].todo /\ run'[active].packs = run[active].packs
          /\ run'[active].orphans = run[active].orphans /\ run'[active].at = run[active].at
          /\ run'[active].bad = run[active].bad
      BY <1>3, <2>2, <3>1 DEF Run
    <3>4. WorkOK(run'[active], disk', excused', Newest, story.spared)
      BY <3>2, <3>3, WorkDone
    <3>5. Newest' = Newest
      BY <1>0, <1>3 DEF Newest
    <3>. QED
      BY <1>2, <1>3, <3>1, <3>4, <3>5
  <2>. QED
    BY <2>1, <2>2
<1>4. CASE \/ Polls \/ GameEnds \/ UNCHANGED vars
  <2>1. /\ disk' = disk /\ excused' = excused /\ active' = active /\ run' = run
        /\ saved' = saved /\ seen' = seen
    BY <1>4 DEF Polls, PollSees, PollGivesUp, PollTimesOut, GameEnds, files, world, vars
  <2>. QED
    BY <1>3, <2>1 DEF Touched
<1>5. CASE Publish
  <2>1. /\ disk' = disk /\ excused' = excused /\ active' = active /\ saved' = saved
        /\ run' = run /\ seen' = seen
    BY <1>5 DEF Publish, files
  <2>. QED
    BY <1>3, <2>1 DEF Touched
<1>6. ASSUME NEW p \in Path, Touch(p) PROVE CompleteInv'
  <2>1. Touched /\ active' = active /\ run' = run /\ saved' = saved /\ seen' = seen
    BY <1>6 DEF Touch, Touched, Shape, DiskOK
  <2>. QED
    BY <1>3, <2>1
<1>7. CASE DeleteFiles \/ \E s \in {"pause", "cancel"} : Stop(s)
  <2>1. /\ Touched /\ active' = active /\ saved' = saved /\ seen' = seen
    BY <1>0, <1>7 DEF DeleteFiles, Stop, Touched, files, world
  <2>2. active # 0 => \E s : run'[active] = [run[active] EXCEPT !.stop = s]
    BY <1>0, <1>7 DEF DeleteFiles, Stop
  <2>. QED
    BY <1>3, <2>1, <2>2
<1>8. CASE DeleteState
  <2>1. /\ disk' = disk /\ excused' = excused /\ active' = active /\ run' = run
        /\ seen' = seen /\ saved'.stage = "none"
    BY <1>8 DEF DeleteState, Fresh, files, world
  <2>2. Newest' = Newest
    BY <1>0, <2>1 DEF Newest
  <2>. QED
    BY <1>0, <2>1, <2>2 DEF CompleteInv, WorksOK, StageOK, CompleteIsCurrent, Busy
<1>9. ASSUME NEW i \in Session, \/ Ask(i) \/ Play(i) \/ FetchFails(i) \/ Fetch(i) \/ Load(i)
                                 \/ WaitFor(i) \/ Refused(i)
       PROVE  CompleteInv'
  <2>1. /\ disk' = disk /\ excused' = excused /\ active' = active /\ saved' = saved
        /\ seen' = seen
    BY <1>9 DEF Ask, Play, FetchFails, Fetch, Load, WaitFor, Refused, files, world
  <2>2. ~Busy(i) /\ \A j \in Session \ {i} : run'[j] = run[j]
    BY <1>0, <1>9 DEF Ask, Play, Begins, FetchFails, Fetch, Load, WaitFor, Refused, Busy
  <2>3. active # 0 => run'[active] = run[active]
    BY <1>0, <2>2
  <2>. QED
    BY <1>3, <2>1, <2>3 DEF Touched
<1>10. ASSUME NEW i \in Session, Start(i) PROVE CompleteInv'
  <2>1. active' = i /\ saved'.stage = "going"
    BY <1>10 DEF Start, Going
  <2>2. DiskMoved /\ Grown
    BY <1>0, DiskMoves, WorldStep
  <2>. QED
    BY <1>2, <1>10, <2>1, <2>2, WorkStart
<1>11. ASSUME NEW i \in Session, Busy(i), active' = active, seen' = seen,
              saved' = saved \/ saved'.stage = "going",
              WorkOK(run[i], disk, excused, Newest, story.spared) =>
                WorkOK(run'[i], disk', excused', Newest, story.spared)
       PROVE  CompleteInv'
  <2>1. Newest' = Newest
    BY <1>0, <1>11 DEF Newest
  <2>. QED
    BY <1>0, <1>2, <1>11, <2>1 DEF WorksOK, StageOK
<1>12. ASSUME NEW i \in Session, NEW k \in Key,
              Land(i, k) \/ TaskFails(i, k) \/ Note(i, k) \/ GiftLand(i, k) \/ Unpack(i, k)
       PROVE  CompleteInv'
  <2>1. /\ active' = active /\ seen' = seen
        /\ saved' = saved \/ saved'.stage = "going"
    BY <1>12 DEF Land, TaskFails, Note, Going, GiftLand, Unpack, world
  <2>2. Busy(i)
    BY <1>12 DEF Land, TaskFails, Note, GiftLand, NextGift, Unpack, Open, NextPack, Busy
  <2>3. /\ Shape /\ Newer
        /\ WorkOK(run[i], disk, excused, Newest, story.spared)
    BY <1>0, <2>2 DEF WorksOK
  <2>4. WorkOK(run'[i], disk', excused', Newest, story.spared)
    BY <1>12, <2>3, WorkKeys
  <2>. QED
    BY <1>11, <2>1, <2>2, <2>4
<1>13. ASSUME NEW i \in Session, \/ QueuesEnd(i) \/ GiftsEnd(i) \/ PacksEnd(i)
                                 \/ \E p \in Path : Removes(i, p) \/ Leaves(i, p)
       PROVE  CompleteInv'
  <2>1. /\ active' = active /\ seen' = seen
        /\ saved' = saved \/ saved'.stage = "going"
    <3>1. CASE QueuesEnd(i) \/ GiftsEnd(i) \/ PacksEnd(i)
      BY <3>1 DEF QueuesEnd, GiftsEnd, PacksEnd, Going, world
    <3>2. CASE \E p \in Path : Removes(i, p)
      BY <3>2 DEF Removes, world
    <3>3. CASE \E p \in Path : Leaves(i, p)
      BY <3>3 DEF Leaves
    <3>. QED
      BY <1>13, <3>1, <3>2, <3>3
  <2>2. Busy(i)
    BY <1>13 DEF QueuesEnd, QueuesOver, GiftsEnd, NextGift, PacksEnd, NextPack, Removes,
       Leaves, Busy
  <2>. QED
    BY <1>11, <1>13, <2>1, <2>2, WorkPhases
<1>14. ASSUME NEW i \in Session, Completes(i) PROVE CompleteInv'
  <2>1. Busy(i) /\ active' = 0
    BY <1>14 DEF Completes, Ends, Busy
  <2>. QED
    BY <1>0, <1>1, <1>14, <2>1, CompletesOK DEF WorksOK
\* Whoever was at work ends without success.
<1>15. ASSUME NEW i \in Session, Busy(i), active' = 0,
              saved' = saved \/ saved'.stage # "complete"
       PROVE  CompleteInv'
  <2>1. saved'.stage # "complete"
    BY <1>0, <1>15 DEF StageOK
  <2>. QED
    BY <1>1, <1>15, <2>1 DEF CompleteIsCurrent
<1>16. ASSUME NEW i \in Session,
              \/ QueuesHalt(i) \/ QueuesFail(i) \/ GiftsHalt(i) \/ GiftFails(i) \/ PacksHalt(i)
              \/ \E k \in Key : UnpackFails(i, k) \/ ArchiveGone(i, k)
       PROVE  CompleteInv'
  <2>1. Busy(i)
    BY <1>16 DEF QueuesHalt, QueuesFail, QueuesOver, GiftsHalt, GiftFails, NextGift, PacksHalt,
       NextPack, UnpackFails, ArchiveGone, CutShort, Open, Busy
  <2>2. active' = 0
    BY <1>16 DEF QueuesHalt, QueuesFail, GiftsHalt, GiftFails, PacksHalt, UnpackFails,
       ArchiveGone, Halts, Ends
  <2>3. saved' = saved \/ saved'.stage # "complete"
    BY <1>16 DEF QueuesHalt, QueuesFail, GiftsHalt, GiftFails, PacksHalt, UnpackFails,
       ArchiveGone, Halts, Going
  <2>. QED
    BY <1>15, <2>1, <2>2, <2>3
<1>17. CASE Crash
  <2>1. active' = 0 /\ saved' = saved
    BY <1>17 DEF Crash
  <2>2. CASE active = 0
    <3>1. disk' = disk /\ excused' = excused
      BY <1>17, <2>2 DEF Crash
    <3>. QED
      BY <1>0, <1>1, <2>1, <3>1, CompleteTouched DEF Touched
  <2>3. CASE active # 0
    BY <1>0, <1>15, <2>1, <2>3
  <2>. QED
    BY <2>2, <2>3
<1>. QED
  BY <1>4, <1>5, <1>6, <1>7, <1>8, <1>9, <1>10, <1>12, <1>13, <1>14, <1>16, <1>17
     DEF Next, Works, Before

\* A state "complete" is never wrong, whatever crashed, failed, was paused, cancelled
\* or run twice before, and whenever manifests were published: provided that a path
\* keeps its key, and until a session starts with an older manifest than one before it.
THEOREM CompleteIsCurrentHolds == KeysKeepPaths => (Spec => []CompleteIsCurrent)
<1> SUFFICES ASSUME KeysKeepPaths PROVE Spec => []CompleteIsCurrent
  OBVIOUS
<1> DEFINE Inv == RecordsInv /\ Whites /\ (~overtaken => CompleteInv)
<1>1. Init => Inv
  <2> SUFFICES ASSUME Init PROVE RecordsInv /\ Whites /\ CompleteInv
    OBVIOUS
  <2>1. RecordsInv
    BY NoRecsHonest
       DEF Init, RecordsInv, RecordsOK, Newer, Busy, LandedOK, Honest, Idle, Fresh
  <2>2. Whites
    BY DEF Init, Whites, Idle
  <2>3. CompleteInv
    BY DEF Init, CompleteInv, WorksOK, Busy, StageOK, CompleteIsCurrent, Idle, Fresh
  <2>. QED
    BY <2>1, <2>2, <2>3
<1>2. Shape /\ Inv /\ [Next]_vars => Inv'
  BY RecordsStep, WhitesStep, CompleteStep DEF RecordsInv
<1>3. Inv => CompleteIsCurrent
  BY DEF CompleteInv, CompleteIsCurrent
<1>. QED
  BY <1>1, <1>2, <1>3, ShapeHolds, PTL DEF Spec

-----------------------------------------------------------------------------
(* Nobody waits for nobody.  Manager.active is looked at before a session  *)
(* or a launch begins to wait, under the lock that Run holds to wake them: *)
(* so whoever waits, waits for a session that works, and its last step     *)
(* wakes all of them, whatever it ended with.                              *)

Waiting == {i \in Session : run[i].at = "wait"}

NoLostWakeup == Waiting # {} \/ launch = "join" => active # 0

LEMMA WakeStep == Shape /\ NoLostWakeup /\ [Next]_vars => NoLostWakeup'
<1> SUFFICES ASSUME Shape, NoLostWakeup, [Next]_vars PROVE NoLostWakeup'
  OBVIOUS
<1>0. run \in [Session -> Run] /\ 0 \notin Session
  BY SyncAssumption DEF Shape, RunOK
<1>1. ASSUME active' = active, launch' = "join" => launch = "join" \/ active # 0,
             \A j \in Session : run'[j].at = "wait" => run[j].at = "wait" \/ active # 0
      PROVE  NoLostWakeup'
  BY <1>1 DEF NoLostWakeup, Waiting
<1>2. ASSUME NEW i \in Session, active' = active, launch' = launch,
             \A j \in Session \ {i} : run'[j] = run[j], run'[i].at # "wait"
      PROVE  NoLostWakeup'
  BY <1>1, <1>2
<1>3. CASE UNCHANGED <<run, active, launch>>
  BY <1>1, <1>3
<1>4. ASSUME NEW i \in Session, Ends(i) PROVE NoLostWakeup'
  <2>1. \A j \in Session : run'[j].at # "wait"
    BY <1>0, <1>4 DEF Ends, Idle, Run
  <2>2. launch' # "join"
    BY <1>4 DEF Ends
  <2>. QED
    BY <2>1, <2>2 DEF NoLostWakeup, Waiting
<1>5. CASE \E i \in Session : \/ QueuesHalt(i) \/ GiftsHalt(i) \/ PacksHalt(i) \/ QueuesFail(i)
                              \/ GiftFails(i) \/ Completes(i)
                              \/ \E k \in Key : UnpackFails(i, k) \/ ArchiveGone(i, k)
  BY <1>4, <1>5 DEF QueuesHalt, GiftsHalt, PacksHalt, Halts, QueuesFail, GiftFails, Completes,
     UnpackFails, ArchiveGone
<1>6. CASE Publish \/ DeleteState \/ UNCHANGED vars \/ \E p \in Path : Touch(p)
  BY <1>3, <1>6 DEF Publish, DeleteState, vars, Touch, app
<1>7. CASE Polls \/ GameEnds
  BY <1>1, <1>7 DEF Polls, PollSees, PollGivesUp, PollTimesOut, GameEnds
<1>8. ASSUME NEW i \in Session, \/ Ask(i) \/ Play(i) \/ FetchFails(i) \/ Fetch(i) \/ Load(i)
                                \/ Refused(i)
      PROVE  NoLostWakeup'
  <2>1. active' = active /\ (launch' = "join" => launch = "join")
    BY <1>8 DEF Ask, Play, FetchFails, Fetch, Load, Refused, app
  <2>2. \A j \in Session \ {i} : run'[j] = run[j]
    BY <1>0, <1>8 DEF Ask, Play, Begins, FetchFails, Fetch, Load, Refused
  <2>3. run'[i].at # "wait"
    <3>1. CASE Ask(i) \/ Play(i) \/ Fetch(i)
      BY <1>0, <3>1 DEF Ask, Play, Begins, Fetch, Run
    <3>2. CASE FetchFails(i) \/ Refused(i)
      BY <1>0, <3>2 DEF FetchFails, Refused, Idle
    <3>3. CASE Load(i)
      BY <1>0, <3>3 DEF Load, Run
    <3>. QED
      BY <1>8, <3>1, <3>2, <3>3
  <2>. QED
    BY <1>1, <2>1, <2>2, <2>3
<1>9. ASSUME NEW i \in Session, WaitFor(i) PROVE NoLostWakeup'
  <2>1. active' = active /\ launch' = launch /\ \A j \in Session \ {i} : run'[j] = run[j]
    BY <1>0, <1>9 DEF WaitFor, app
  <2>2. run'[i].at = "wait" => active # 0
    BY <1>0, <1>9 DEF WaitFor, Run
  <2>. QED
    BY <1>1, <2>1, <2>2
<1>10. ASSUME NEW i \in Session, Start(i) PROVE NoLostWakeup'
  BY <1>0, <1>10 DEF Start, NoLostWakeup
<1>11. CASE Crash
  <2>1. launch' # "join" /\ \A j \in Session : run'[j].at # "wait"
    BY <1>11 DEF Crash, Idle
  <2>. QED
    BY <2>1 DEF NoLostWakeup, Waiting
<1>12. ASSUME NEW s \in {"pause", "cancel"}, Stop(s) PROVE NoLostWakeup'
  <2>1. active # 0 /\ active' = active
    BY <1>12 DEF Stop
  <2>. QED
    BY <2>1 DEF NoLostWakeup
<1>13. CASE DeleteFiles
  <2>1. active' = active /\ (launch' = "join" => launch = "join")
    BY <1>13 DEF DeleteFiles
  <2>2. active = 0 => run' = run
    BY <1>13 DEF DeleteFiles
  <2>. QED
    BY <1>1, <2>1, <2>2
<1>14. ASSUME NEW i \in Session, NEW k \in Key,
              Land(i, k) \/ TaskFails(i, k) \/ Note(i, k) \/ GiftLand(i, k) \/ Unpack(i, k)
       PROVE  NoLostWakeup'
  <2>1. active' = active /\ launch' = launch /\ \A j \in Session \ {i} : run'[j] = run[j]
    BY <1>0, <1>14 DEF Land, TaskFails, Note, GiftLand, Unpack, app
  <2>2. run'[i].at = run[i].at /\ run[i].at # "wait"
    <3>1. CASE Land(i, k)
      BY <1>0, <3>1 DEF Land, Run
    <3>2. CASE TaskFails(i, k)
      BY <1>0, <3>2 DEF TaskFails, Run
    <3>3. CASE Note(i, k)
      BY <1>0, <3>3 DEF Note, Run
    <3>4. CASE GiftLand(i, k)
      BY <1>0, <3>4 DEF GiftLand, NextGift, Run
    <3>5. CASE Unpack(i, k)
      <4>1. run[i].at # "wait"
        BY <3>5 DEF Unpack, Open, NextPack
      <4>2. run'[i].at = run[i].at
        BY <1>0, <3>5 DEF Unpack, Run
      <4>. QED
        BY <4>1, <4>2
    <3>. QED
      BY <1>14, <3>1, <3>2, <3>3, <3>4, <3>5
  <2>. QED
    BY <1>2, <2>1, <2>2
<1>15. ASSUME NEW i \in Session, QueuesEnd(i) \/ GiftsEnd(i) \/ PacksEnd(i) PROVE NoLostWakeup'
  <2>1. active' = active /\ launch' = launch /\ \A j \in Session \ {i} : run'[j] = run[j]
    BY <1>0, <1>15 DEF QueuesEnd, GiftsEnd, PacksEnd, app
  <2>2. run'[i].at # "wait"
    BY <1>0, <1>15 DEF QueuesEnd, GiftsEnd, PacksEnd, Run
  <2>. QED
    BY <1>2, <2>1, <2>2
<1>16. ASSUME NEW i \in Session, NEW p \in Path, Removes(i, p) \/ Leaves(i, p)
       PROVE  NoLostWakeup'
  <2>1. active' = active /\ launch' = launch /\ \A j \in Session \ {i} : run'[j] = run[j]
    BY <1>0, <1>16 DEF Removes, Leaves, app
  <2>2. run'[i].at # "wait"
    <3>1. CASE Removes(i, p)
      BY <1>0, <3>1 DEF Removes, Run
    <3>2. CASE Leaves(i, p)
      BY <1>0, <3>2 DEF Leaves, Run
    <3>. QED
      BY <1>16, <3>1, <3>2
  <2>. QED
    BY <1>2, <2>1, <2>2
<1>. QED
  BY <1>5, <1>6, <1>7, <1>8, <1>9, <1>10, <1>11, <1>12, <1>13, <1>14, <1>15, <1>16
     DEF Next, Works, Before

\* Whoever waits, a second DownloadPack or a launch, waits for a session that is at
\* work: no wake-up is lost, however a session ends and whoever deletes the build.
THEOREM NoWakeupIsLost == Spec => []NoLostWakeup
<1>1. Init => NoLostWakeup
  BY DEF Init, NoLostWakeup, Waiting, Idle
<1>. QED
  BY <1>1, WakeStep, ShapeHolds, PTL DEF Spec

-----------------------------------------------------------------------------
(* The state of a build is written by one session at a time, and never     *)
(* taken back under it: while a session works it has saved its own         *)
(* manifest, or the build was removed in the meantime.                     *)

OwnsState == active # 0 => saved.man <= run[active].man

\* Who saves the state, and what: a session that starts, the one that works, the
\* removal of the build.
LEMMA SavedMoves ==
  ASSUME Shape, [Next]_vars
  PROVE  \/ saved' = saved \/ DeleteState
         \/ \E i \in Session : Start(i)
         \/ active # 0 /\ saved'.man = run[active].man
<1> SUFFICES ASSUME saved' # saved, ~DeleteState, \A i \in Session : ~Start(i)
             PROVE  active # 0 /\ saved'.man = run[active].man
  OBVIOUS
<1>1. ~ \/ Publish \/ (\E p \in Path : Touch(p)) \/ UNCHANGED vars
        \/ (\E s \in {"pause", "cancel"} : Stop(s)) \/ DeleteFiles \/ Crash \/ Polls \/ GameEnds
        \/ \E i \in Session : Ask(i) \/ Play(i)
  BY DEF Publish, Touch, vars, Stop, DeleteFiles, Crash, Polls, PollSees, PollGivesUp,
     PollTimesOut, GameEnds, Ask, Play
<1>2. ~ \E i \in Session : \/ FetchFails(i) \/ Fetch(i) \/ Load(i) \/ WaitFor(i) \/ Refused(i)
                           \/ QueuesFail(i) \/ QueuesEnd(i) \/ GiftFails(i)
                           \/ \E p \in Path : Removes(i, p) \/ Leaves(i, p)
  BY DEF FetchFails, Fetch, Load, WaitFor, Refused, QueuesFail, QueuesEnd, GiftFails,
     Removes, Leaves
<1>3. ASSUME NEW i \in Session, NEW k \in Key
      PROVE  ~ \/ Land(i, k) \/ TaskFails(i, k) \/ GiftLand(i, k)
               \/ Unpack(i, k) \/ UnpackFails(i, k) \/ ArchiveGone(i, k)
  <2>1. ~(Land(i, k) \/ TaskFails(i, k) \/ GiftLand(i, k))
    BY DEF Land, TaskFails, GiftLand
  <2>2. ~Unpack(i, k) /\ ~ArchiveGone(i, k)
    BY DEF Unpack, ArchiveGone
  <2>3. ~UnpackFails(i, k)
    BY DEF UnpackFails
  <2>. QED
    BY <2>1, <2>2, <2>3
<1>4. PICK i \in Session : \/ GiftsEnd(i) \/ PacksEnd(i) \/ Completes(i)
                           \/ QueuesHalt(i) \/ GiftsHalt(i) \/ PacksHalt(i)
                           \/ \E k \in Key : Note(i, k)
  BY <1>1, <1>2, <1>3 DEF Next, Before, Works
<1>5. Busy(i)
  BY <1>4 DEF Busy, GiftsEnd, NextGift, PacksEnd, NextPack, Completes, QueuesHalt, QueuesOver,
     GiftsHalt, PacksHalt, Note
<1>6. active = i /\ active # 0
  BY <1>5, SyncAssumption DEF Shape, ActiveOK
<1>7. \E recs, st : saved' = [Going(i, recs) EXCEPT !.stage = st]
  <2>1. CASE GiftsEnd(i) \/ PacksEnd(i)
    <3>1. saved' = [Going(i, run[i].recs) EXCEPT !.stage = "going"]
      BY <2>1 DEF GiftsEnd, PacksEnd, Going
    <3>. QED
      BY <3>1
  <2>2. CASE Completes(i)
    BY <2>2 DEF Completes
  <2>3. CASE QueuesHalt(i) \/ GiftsHalt(i) \/ PacksHalt(i)
    <3>1. \/ saved' = [Going(i, run[i].recs) EXCEPT !.stage = "none"]
          \/ saved' = [Going(i, run[i].recs) EXCEPT !.stage = "going"]
      BY <2>3 DEF QueuesHalt, GiftsHalt, PacksHalt, Halts, Going
    <3>. QED
      BY <3>1
  <2>4. ASSUME NEW k \in Key, Note(i, k)
        PROVE  \E recs, st : saved' = [Going(i, recs) EXCEPT !.stage = st]
    <3>1. PICK recs : saved' = Going(i, recs)
      BY <2>4 DEF Note
    <3>2. saved' = [Going(i, recs) EXCEPT !.stage = "going"]
      BY <3>1 DEF Going
    <3>. QED
      BY <3>2
  <2>. QED
    BY <1>4, <2>1, <2>2, <2>3, <2>4
<1>8. saved'.man = run[i].man
  BY <1>7 DEF Going
<1>. QED
  BY <1>6, <1>8

LEMMA OwnsStep == Shape /\ OwnsState /\ [Next]_vars => OwnsState'
<1> SUFFICES ASSUME Shape, OwnsState, [Next]_vars, active' # 0
             PROVE  saved'.man <= run'[active'].man
  BY DEF OwnsState
<1>0. /\ run \in [Session -> Run] /\ \A i \in Session : run[i].man \in Nat \ {0}
      /\ active # 0 => active \in Session
  BY DEF Shape, RunOK, ActiveOK, Run
<1>1. ASSUME NEW i \in Session, Start(i) PROVE saved'.man <= run'[active'].man
  <2>1. active' = i /\ saved'.man = run[i].man
    BY <1>1 DEF Start, Going
  <2>2. run'[i].man = run[i].man
    BY <1>0, <1>1 DEF Start, Run
  <2>. QED
    BY <1>0, <2>1, <2>2
<1>2. CASE active = 0
  <2>1. \E i \in Session : Start(i)
    BY <1>2, ActiveBegins
  <2>. QED
    BY <1>1, <2>1
<1>3. CASE active # 0 /\ \A i \in Session : ~Start(i)
  <2>1. active' = active /\ run'[active].man = run[active].man
    BY <1>3, ManStays
  <2>2. CASE saved' = saved
    BY <1>3, <2>1, <2>2 DEF OwnsState
  <2>3. CASE DeleteState
    BY <1>0, <1>3, <2>1, <2>3 DEF DeleteState, Fresh
  <2>4. CASE saved'.man = run[active].man
    BY <1>0, <1>3, <2>1, <2>4
  <2>. QED
    BY <1>3, <2>2, <2>3, <2>4, SavedMoves
<1>. QED
  BY <1>1, <1>2, <1>3

\* The state of a build goes back to an older manifest only when the build is removed
\* or when a session starts, with a manifest that it read before it waited for another
\* one: never while a session works, whoever else was asked for, paused or cancelled.
BackOnlyAtStart ==
  [][saved'.man < saved.man => DeleteState \/ \E i \in Session : Start(i)]_vars

\* The same for any number of sessions and manifests, published at any time.
THEOREM StateGoesForward == Spec => BackOnlyAtStart
<1>1. Init => OwnsState
  BY DEF Init, OwnsState
<1>2. Shape /\ OwnsState /\ [Next]_vars
        => [saved'.man < saved.man => DeleteState \/ \E i \in Session : Start(i)]_vars
  <2> SUFFICES ASSUME Shape, OwnsState, [Next]_vars, saved'.man < saved.man,
                      ~DeleteState, \A i \in Session : ~Start(i)
               PROVE  FALSE
    OBVIOUS
  <2>1. saved.man \in Nat
    BY WorldStep, LatestGrows DEF Shape, SavedOK
  <2>2. CASE saved' = saved
    BY <2>1, <2>2
  <2>3. CASE active # 0 /\ saved'.man = run[active].man
    <3>1. run[active].man \in Nat
      BY <2>3 DEF Shape, RunOK, ActiveOK, Run
    <3>. QED
      BY <2>1, <2>3, <3>1 DEF OwnsState
  <2>. QED
    BY <2>2, <2>3, SavedMoves
<1>. QED
  BY <1>1, <1>2, OwnsStep, ShapeHolds, PTL DEF Spec, BackOnlyAtStart
=============================================================================
