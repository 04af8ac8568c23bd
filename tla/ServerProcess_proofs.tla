------------------------- MODULE ServerProcess_proofs -------------------------
(***************************************************************************)
(* Theorems of ServerProcess, for every number of starts, stops and runs.  *)
(***************************************************************************)
EXTENDS ServerProcess, TLAPS

InStart(t) == start[t].at \in {"registered", "spawned"}

(* What lets the table name another run than the one at work: two starts   *)
(* overlapped, or a live process was taken for dead.                       *)
Overlap == {"raced", "mistaken"} \cap harm # {}

(* Runs are numbered in the order of their beginning.                      *)
Numbered ==
  /\ entry <= used /\ record <= used
  /\ \A i \in Run : i > used =>
       ~Alive(i) /\ watch[i] = "none" /\ i \notin closed
  /\ \A t \in Starter : InStart(t) => start[t].run \in 1..used

(* Without a launcher nothing is remembered and nobody is at work.         *)
Gone ==
  ~up =>
    /\ entry = 0 /\ closed = {}
    /\ \A t \in Starter : start[t] = Idle
    /\ \A i \in Run : watch[i] = "none"

(* A start that has registered owns its run, which no record names yet.    *)
Starts ==
  \A t \in Starter : InStart(t) =>
    /\ watch[start[t].run] = "none"
    /\ record # start[t].run
    /\ start[t].at = "registered" => ~Alive(start[t].run)
    /\ ~Overlap => entry = start[t].run
    /\ \A s \in Starter \ {t} : InStart(s) => start[s].run # start[t].run

(* Watchers and the books they close.                                      *)
Watchers ==
  \A i \in Run :
    /\ ~Overlap /\ watch[i] \in {"own", "adopted"} => entry = i
    /\ watch[i] = "finishing" =>
         /\ burying[i] \in Run \ closed /\ burying[i] <= used
         /\ entry # burying[i]
         /\ ~Overlap => burying[i] = i /\ ~Alive(i)
         /\ \A k \in Run \ {i} : watch[k] = "finishing" => burying[k] # burying[i]

(* What a watcher will remove is not the record of a live process.         *)
Removable == harm = {} /\ BooksOpen => ~Alive(record)

IInv ==
  /\ TypeOK /\ Numbered /\ Gone /\ Starts /\ Watchers /\ Removable
  /\ WokenAfterTheEnd /\ AliveIsKnown /\ AliveIsRecorded
-------------------------------------------------------------------------------
(* Every step keeps the types; what a watcher buries is a run.             *)
LEMMA Typing == TypeOK /\ Watchers /\ [Next]_vars => TypeOK'
<1> SUFFICES ASSUME TypeOK, Watchers, [Next]_vars PROVE TypeOK'
  OBVIOUS
<1> USE MaxRunsNat DEF TypeOK, Run, memory, callers, watchers
<1>a. ASSUME NEW t \in Starter, NEW i \in 0..MaxRuns,
             NEW at \in {"idle", "asked", "passed", "registered", "spawned"},
             StartAt(t, at, i)
      PROVE  start' \in [Starter -> StarterState]
  BY <1>a DEF StartAt, StarterState
<1>b. ASSUME NEW i \in 0..MaxRuns, NEW at \in {"idle", "waiting", "kill", "killed"}
      PROVE  [at |-> at, run |-> i] \in StopperState
  BY DEF StopperState
<1>c. ASSUME NEW t \in Stopper,
             NEW at \in {"idle", "waiting", "kill", "killed"}, StopAt(t, at)
      PROVE  stop' \in [Stopper -> StopperState]
  BY <1>c DEF StopAt, StopperState
<1>d. \A t \in Starter : start[t].run \in 0..MaxRuns
  BY DEF StarterState
<1>e. /\ entry \in 0..MaxRuns /\ java \in [Run -> JavaState] /\ status \in [Run -> Status]
      /\ closed \subseteq Run /\ stop \in [Stopper -> StopperState]
      /\ watch \in [Run -> WatcherState] /\ burying \in [Run -> 0..MaxRuns]
  OBVIOUS
<1>1. ASSUME NEW t \in Starter, Ask(t) PROVE TypeOK'
  BY <1>1, <1>a DEF Ask
<1>2. ASSUME NEW t \in Starter, Begin(t) PROVE TypeOK'
  BY <1>2, <1>a DEF Begin
<1>3. ASSUME NEW t \in Starter, Register(t) PROVE TypeOK'
  <2>1. used' \in 0..MaxRuns /\ entry' \in 0..MaxRuns
    BY <1>3 DEF Register
  <2>2. start' \in [Starter -> StarterState]
    BY <1>3, <2>1, <1>a DEF Register
  <2>3. status' \in [Run -> Status] /\ harm' \subseteq Harm
    BY <1>3 DEF Register, Status, Harm
  <2> QED
    BY <1>3, <2>1, <2>2, <2>3 DEF Register
<1>4. ASSUME NEW t \in Starter, Spawn(t) PROVE TypeOK'
  <2>1. start' \in [Starter -> StarterState]
    BY <1>4, <1>a, <1>d DEF Spawn
  <2>2. java' \in [Run -> JavaState] /\ entry' \in 0..MaxRuns
    <3> HIDE DEF TypeOK
    <3>1. /\ java' = java \/ java' = [java EXCEPT ![start[t].run] = "booting"]
          /\ entry' = entry \/ entry' = 0
      BY <1>4 DEF Spawn
    <3> QED
      BY <1>e, <3>1, MaxRunsNat DEF JavaState
  <2> QED
    BY <1>4, <2>1, <2>2 DEF Spawn
<1>5. ASSUME NEW t \in Starter, Announce(t) PROVE TypeOK'
  <2>1. start' \in [Starter -> StarterState]
    BY <1>5, <1>a DEF Announce
  <2>2. status' \in [Run -> Status] /\ watch' \in [Run -> WatcherState]
    BY <1>5, <1>d DEF Announce, Status, WatcherState
  <2>3. record' \in 0..MaxRuns /\ harm' \subseteq Harm
    <3> DEFINE i == start[t].run
    <3>1. record' \in {0, record, i} /\ harm' \subseteq harm \union {"unrecorded"}
      BY <1>5 DEF Announce, Recorded
    <3>2. i \in 0..MaxRuns
      BY <1>d
    <3> HIDE DEF i
    <3> QED
      BY <3>1, <3>2 DEF Harm
  <2> QED
    BY <1>5, <2>1, <2>2, <2>3 DEF Announce
<1>6. ASSUME NEW t \in Stopper, AskStop(t) PROVE TypeOK'
  <2>1. stop' \in [Stopper -> StopperState]
    <3> HIDE DEF TypeOK
    <3>1. PICK at \in {"waiting", "kill"} :
            stop' = [stop EXCEPT ![t] = [at |-> at, run |-> entry]]
      BY <1>6 DEF AskStop
    <3>2. [at |-> at, run |-> entry] \in StopperState
      BY <1>b, <1>e
    <3> QED
      BY <1>e, <3>1, <3>2
  <2>2. status' \in [Run -> Status]
    BY <1>6 DEF AskStop, Status
  <2> QED
    BY <1>6, <2>1, <2>2 DEF AskStop
<1>7. ASSUME NEW t \in Stopper, StopWoken(t) \/ StopGivesUp(t) PROVE TypeOK'
  <2>1. Idle \in StopperState
    BY DEF Idle, StopperState
  <2> QED
    BY <1>7, <2>1 DEF StopWoken, StopGivesUp
<1>8. ASSUME NEW t \in Stopper, StopWaited(t) PROVE TypeOK'
  BY <1>8, <1>c DEF StopWaited
<1>9. ASSUME NEW t \in Stopper, Kill(t) PROVE TypeOK'
  <2>1. stop' \in [Stopper -> StopperState]
    BY <1>9, <1>c DEF Kill
  <2>2. timers' \subseteq Run
    <3>1. CASE ~HasProcess
      BY <1>9, <3>1 DEF Kill
    <3>2. CASE HasProcess
      <4>1. timers' = timers \/ timers' = timers \union {entry}
        BY <1>9, <3>2 DEF Kill
      <4>2. entry \in Run
        BY <3>2 DEF HasProcess
      <4> QED
        BY <4>1, <4>2
    <3> QED
      BY <3>1, <3>2
  <2>3. java' \in [Run -> JavaState]
    BY <1>9 DEF Kill, JavaState
  <2> QED
    BY <1>9, <2>1, <2>2, <2>3 DEF Kill
<1>10. ASSUME NEW i \in Run, Ready(i) PROVE TypeOK'
  BY <1>10 DEF Ready, Status
<1>11. ASSUME NEW i \in Run, Notice(i) \/ Mistake(i) PROVE TypeOK'
  <2>0. LeavesTable(i)
    BY <1>11 DEF Notice, Mistake
  <2>1. watch' \in [Run -> WatcherState] /\ burying' \in [Run -> 0..MaxRuns]
    <3> HIDE DEF TypeOK
    <3>1. /\ \E state \in {"gone", "finishing"} : watch' = [watch EXCEPT ![i] = state]
          /\ burying' = burying \/ burying' = [burying EXCEPT ![i] = entry]
      BY <2>0 DEF LeavesTable
    <3>2. watch' \in [Run -> WatcherState]
      BY <1>e, <3>1 DEF WatcherState
    <3> QED
      BY <1>e, <3>1, <3>2
  <2>2. status' \in [Run -> Status]
    BY <2>0 DEF LeavesTable, Status
  <2>3. entry' = entry \/ entry' = 0
    BY <2>0 DEF LeavesTable
  <2>4. adopted' \subseteq adopted
    BY <2>0 DEF LeavesTable
  <2>5. UNCHANGED <<platform, up, used, java, closed, record, start, stop, timers,
                    fileWork>>
    <3> HIDE DEF TypeOK
    <3> QED
      BY <2>0 DEF LeavesTable
  <2>6. entry' \in 0..MaxRuns /\ adopted' \subseteq Run
    BY <2>3, <2>4
  <2>7. harm' \subseteq Harm
    BY <1>11 DEF Notice, Mistake, Harm
  <2> QED
    BY <2>1, <2>2, <2>5, <2>6, <2>7
<1>12. ASSUME NEW i \in Run, Bury(i) PROVE TypeOK'
  <2>1. watch' \in [Run -> WatcherState] /\ burying' \in [Run -> 0..MaxRuns]
    <3> HIDE DEF TypeOK
    <3>1. watch' = [watch EXCEPT ![i] = "gone"] /\ burying' = [burying EXCEPT ![i] = 0]
      BY <1>12 DEF Bury
    <3> QED
      BY <1>e, <3>1, MaxRunsNat DEF WatcherState
  <2>2. harm' \subseteq Harm
    BY <1>12 DEF Bury, Harm
  <2>3. closed' \subseteq Run
    <3> HIDE DEF TypeOK
    <3>1. burying[i] \in Run
      BY <1>12 DEF Bury, Watchers
    <3> QED
      BY <1>12, <1>e, <3>1 DEF Bury
  <2>4. UNCHANGED <<platform, up, used, java, entry, status, adopted, start, stop,
                    timers, fileWork>> /\ record' \in {0, record}
    <3> HIDE DEF TypeOK
    <3> QED
      BY <1>12 DEF Bury
  <2> QED
    BY <2>1, <2>2, <2>3, <2>4
<1>13. ASSUME NEW i \in Run, KillTimer(i) PROVE TypeOK'
  BY <1>13 DEF KillTimer, JavaState
<1>14. ASSUME NEW i \in Run, Bind(i) \/ End(i) PROVE TypeOK'
  BY <1>14 DEF Bind, End, Alive, JavaState
<1>15. CASE Crash
  <2>1. start' \in [Starter -> StarterState] /\ stop' \in [Stopper -> StopperState]
    BY <1>15 DEF Crash, StarterState, StopperState, Idle
  <2>2. /\ status' \in [Run -> Status] /\ watch' \in [Run -> WatcherState]
        /\ burying' \in [Run -> 0..MaxRuns]
    BY <1>15 DEF Crash, NoRuns, Status, WatcherState
  <2>3. harm' \subseteq Harm
    BY <1>15 DEF Crash, Harm
  <2>4. /\ entry' \in 0..MaxRuns /\ up' \in BOOLEAN /\ fileWork' \in BOOLEAN
        /\ closed' \subseteq Run /\ adopted' \subseteq Run /\ timers' \subseteq Run
    <3>1. entry' = 0 /\ closed' = {} /\ adopted' = {} /\ timers' = {}
      BY <1>15 DEF Crash
    <3>2. up' \in BOOLEAN /\ fileWork' \in BOOLEAN
      BY <1>15 DEF Crash
    <3> QED
      BY <3>1, <3>2
  <2>5. UNCHANGED <<platform, used, java, record>>
    BY <1>15 DEF Crash
  <2> QED
    BY <2>1, <2>2, <2>3, <2>4, <2>5
<1>16. CASE Boot
  <2>1. status' \in [Run -> Status] /\ watch' \in [Run -> WatcherState]
    BY <1>16 DEF Boot, Status, WatcherState
  <2>2. up' = TRUE /\ UNCHANGED record /\ entry' = record
    BY <1>16 DEF Boot
  <2>3. adopted' \subseteq Run
    BY <1>16 DEF Boot, Alive
  <2> QED
    BY <1>16, <2>1, <2>2, <2>3 DEF Boot
<1>19. CASE BootAlone
  <2>1. up' = TRUE /\ record' \in {0, record} /\ harm' \subseteq Harm
    BY <1>19 DEF BootAlone, Harm
  <2> QED
    BY <1>19, <2>1 DEF BootAlone
<1>17. CASE BeginFileWork \/ EndFileWork
  BY <1>17 DEF BeginFileWork, EndFileWork
<1>18. CASE UNCHANGED vars
  BY <1>18 DEF vars
<1> QED
  BY <1>1, <1>2, <1>3, <1>4, <1>5, <1>6, <1>7, <1>8, <1>9, <1>10, <1>11, <1>12,
     <1>13, <1>14, <1>15, <1>16, <1>17, <1>18, <1>19
  DEF Next, Starting, Stopping, Watching, World
-------------------------------------------------------------------------------
(* A step that starts no process and leaves alone who is in control.       *)
LEMMA Fewer ==
  ASSUME IInv, TypeOK',
         UNCHANGED <<up, used, entry, closed, record, start, watch, burying, harm>>,
         \A i \in Run : Alive(i)' => Alive(i)
  PROVE  IInv'
<1>1. Numbered' /\ Gone'
  BY DEF IInv, Numbered, Gone, InStart
<1>2. Starts'
  <2>1. \A i : Alive(i)' => Alive(i)
    BY DEF Alive
  <2> QED
    BY <2>1 DEF IInv, Starts, InStart, Overlap
<1>3. Watchers'
  BY DEF IInv, Watchers, Overlap
<1>4. WokenAfterTheEnd'
  BY DEF IInv, WokenAfterTheEnd, TypeOK
<1>5. AliveIsKnown'
  BY DEF IInv, AliveIsKnown
<1>6. AliveIsRecorded'
  BY DEF IInv, AliveIsRecorded, Announced
<1>7. Removable'
  <2>1. Alive(record)' => Alive(record)
    BY DEF Alive
  <2> QED
    BY <2>1 DEF IInv, Removable, BooksOpen
<1> QED
  BY <1>1, <1>2, <1>3, <1>4, <1>5, <1>6, <1>7 DEF IInv

(* Steps of a start that hold no run.                                      *)
LEMMA Waiting ==
  ASSUME IInv, TypeOK', NEW t \in Starter, Ask(t) \/ Begin(t)
  PROVE  IInv'
<1> DEFINE early == {"idle", "asked", "passed"}
<1>1. /\ start[t].at \in early /\ start'[t].at \in early /\ start'[t].run = 0
      /\ \A s \in Starter \ {t} : start'[s] = start[s]
  <2>1. CASE Ask(t)
    <3>1. StartAt(t, "asked", 0) /\ start[t].at = "idle"
      BY <2>1 DEF Ask
    <3> QED
      BY <3>1 DEF IInv, TypeOK, StartAt
  <2>2. CASE Begin(t)
    <3>1. start[t].at = "asked" /\ (StartAt(t, "idle", 0) \/ StartAt(t, "passed", 0))
      BY <2>2 DEF Begin
    <3> QED
      BY <3>1 DEF IInv, TypeOK, StartAt
  <2> QED
    BY <2>1, <2>2
<1>2. \A s \in Starter : InStart(s)' <=> InStart(s)
  BY <1>1 DEF InStart
<1>3. \A s \in Starter : InStart(s) => start'[s] = start[s]
  BY <1>1 DEF InStart
<1>4. up /\ UNCHANGED <<up, used, java, entry, closed, record, watch, burying, harm>>
  BY DEF Ask, Begin, IInv, Gone, memory, watchers, Idle
<1>5. Numbered' /\ Gone'
  BY <1>2, <1>3, <1>4 DEF IInv, Numbered, Gone, Alive
<1>6. Starts'
  BY <1>2, <1>3, <1>4 DEF IInv, Starts, Overlap, Alive
<1>7. Watchers' /\ WokenAfterTheEnd' /\ AliveIsKnown'
  BY <1>4 DEF IInv, Watchers, WokenAfterTheEnd, AliveIsKnown, Overlap, Alive
<1>9. Removable'
  BY <1>4 DEF IInv, Removable, BooksOpen, Alive
<1>8. AliveIsRecorded'
  <2>1. \A i \in Run : Announced(i)' => Announced(i)
    BY <1>1 DEF Announced
  <2> QED
    BY <1>4, <2>1 DEF IInv, AliveIsRecorded, Alive
<1> QED
  BY <1>5, <1>6, <1>7, <1>8, <1>9 DEF IInv

(* A new run takes the place in the table.                                 *)
LEMMA Registering ==
  ASSUME IInv, TypeOK', NEW t \in Starter, Register(t)
  PROVE  IInv'
<1>1. /\ start[t].at = "passed" /\ up /\ up'
      /\ UNCHANGED <<java, closed, record, watch, burying>>
      /\ used \in Nat /\ entry \in Nat
  BY MaxRunsNat DEF Register, IInv, Gone, Idle, TypeOK, watchers
<1>2. \A s \in Starter \ {t} : start'[s] = start[s]
  BY DEF Register, StartAt, IInv, TypeOK
<1>3. \A i \in Run : Announced(i)' => Announced(i)
  BY <1>1, <1>2 DEF Announced
<1>4. Gone' /\ Removable'
  <2>1. harm' = {} => harm = {}
    BY DEF Register
  <2> QED
    BY <1>1, <2>1 DEF Gone, IInv, Removable, BooksOpen, Alive
<1>5. CASE StartAt(t, "idle", 0) /\ UNCHANGED <<used, entry, status, harm>>
  <2>1. start'[t].at = "idle"
    BY <1>5 DEF StartAt, IInv, TypeOK
  <2>2. \A s \in Starter : InStart(s)' => InStart(s) /\ start'[s] = start[s]
    BY <1>2, <2>1 DEF InStart
  <2>3. Numbered'
    BY <1>1, <1>5, <2>2 DEF IInv, Numbered, Alive
  <2>4. Starts'
    BY <1>1, <1>5, <2>2 DEF IInv, Starts, Overlap, Alive
  <2>5. Watchers' /\ WokenAfterTheEnd' /\ AliveIsKnown'
    BY <1>1, <1>5 DEF IInv, Watchers, WokenAfterTheEnd, AliveIsKnown, Overlap, Alive
  <2>6. AliveIsRecorded'
    BY <1>1, <1>3, <1>5 DEF IInv, AliveIsRecorded, Alive
  <2> QED
    BY <1>4, <2>3, <2>4, <2>5, <2>6 DEF IInv
<1>6. ASSUME used < MaxRuns, used' = used + 1, entry' = used',
             StartAt(t, "registered", used'),
             harm' = IF entry = 0 THEN harm ELSE harm \union {"raced"}
      PROVE  IInv'
  <2>1. start'[t] = [at |-> "registered", run |-> used + 1]
    BY <1>6 DEF StartAt, IInv, TypeOK
  <2>2. used + 1 \in Run /\ used + 1 > used
    BY <1>1, <1>6, MaxRunsNat DEF Run
  <2>3. harm \subseteq harm' /\ (~Overlap' => entry = 0 /\ harm' = harm)
    BY <1>6 DEF Overlap
  <2>4. ~Alive(used + 1) /\ watch[used + 1] = "none"
    BY <2>2 DEF IInv, Numbered
  <2>5. \A s \in Starter \ {t} : InStart(s)' <=> InStart(s)
    BY <1>2 DEF InStart
  <2>6. \A s \in Starter \ {t} : InStart(s) => start[s].run \in 1..used
    BY DEF IInv, Numbered
  <2>7. Numbered'
    <3>1. record' <= used'
      BY <1>1, <1>6, MaxRunsNat DEF IInv, Numbered, TypeOK
    <3>2. \A i \in Run : i > used' => i > used
      BY <1>1, <1>6 DEF Run
    <3>3. \A s \in Starter : InStart(s)' => start'[s].run \in 1..used'
      BY <1>1, <1>2, <1>6, <2>1, <2>5, <2>6
    <3> QED
      BY <1>1, <1>6, <3>1, <3>2, <3>3 DEF IInv, Numbered, Alive
  <2>8. Starts'
    <3>1. /\ \A s \in Starter \ {t} : InStart(s) => start[s].run # used + 1
          /\ record # used + 1
      BY <1>1, <2>6, MaxRunsNat DEF IInv, Numbered, TypeOK
    <3>2. Overlap' \/ (\A s \in Starter \ {t} : ~InStart(s))
      BY <2>3, <2>6 DEF IInv, Starts, Overlap
    <3>3. SUFFICES ASSUME NEW s \in Starter, InStart(s)'
                   PROVE  /\ watch'[start'[s].run] = "none"
                          /\ record' # start'[s].run
                          /\ start'[s].at = "registered" => ~Alive(start[s].run)'
                          /\ ~Overlap' => entry' = start'[s].run
                          /\ \A r \in Starter \ {s} :
                               InStart(r)' => start'[r].run # start'[s].run
      BY DEF Starts
    <3>4. CASE s = t
      BY <1>1, <1>2, <1>6, <2>1, <2>4, <2>5, <3>1, <3>4 DEF Alive
    <3>5. CASE s # t
      BY <1>1, <1>2, <2>1, <2>5, <3>1, <3>2, <3>3, <3>5 DEF IInv, Starts, Alive
    <3> QED
      BY <3>4, <3>5
  <2>9. Watchers'
    <3>1. \A i \in Run : ~Overlap' => watch[i] \notin {"own", "adopted"}
      BY <2>3 DEF IInv, Watchers, Overlap, Run
    <3>2. ASSUME NEW i \in Run, watch[i] = "finishing"
          PROVE  burying[i] <= used' /\ burying[i] # entry'
      <4>1. burying[i] \in Run /\ burying[i] <= used
        BY <3>2 DEF IInv, Watchers
      <4> QED
        BY <1>1, <1>6, <4>1, MaxRunsNat DEF Run
    <3>3. ~Overlap' => ~Overlap
      BY <2>3 DEF Overlap
    <3> QED
      BY <1>1, <3>1, <3>2, <3>3 DEF IInv, Watchers, Alive
  <2>10. WokenAfterTheEnd'
    <3>1. \A i \in closed : i <= used
      BY <1>1 DEF IInv, Numbered, TypeOK, Run
    <3> QED
        BY <1>1, <1>6, <2>3, <3>1
      DEF IInv, WokenAfterTheEnd, Overlap, Alive, TypeOK, Run
  <2>11. harm' = {} => entry = 0 /\ harm = {}
    BY <1>6
  <2>12. AliveIsKnown'
    BY <1>1, <2>11 DEF IInv, AliveIsKnown, Alive, Run
  <2>13. AliveIsRecorded'
    BY <1>1, <1>3, <2>11 DEF IInv, AliveIsRecorded, Alive
  <2> QED
    BY <1>4, <2>7, <2>8, <2>9, <2>10, <2>12, <2>13 DEF IInv
<1> QED
  BY <1>5, <1>6 DEF Register

(* cmd.Start, with or without a process.                                   *)
LEMMA Spawning ==
  ASSUME IInv, TypeOK', NEW t \in Starter, Spawn(t)
  PROVE  IInv'
<1> DEFINE i == start[t].run
<1>1. /\ start[t].at = "registered" /\ up /\ up' /\ i \in 1..used /\ i \in Run
      /\ UNCHANGED <<used, closed, record, watch, burying, harm>>
      /\ used \in Nat /\ entry \in Nat
  <2>1. /\ start[t].at = "registered"
        /\ UNCHANGED <<up, used, closed, record, watch, burying, harm>>
    BY DEF Spawn, watchers
  <2>2. InStart(t) /\ start[t] # Idle
    BY <2>1 DEF InStart, Idle
  <2>3. up /\ i \in 1..used
    BY <2>2 DEF IInv, Gone, Numbered
  <2> QED
    BY <2>1, <2>3, MaxRunsNat DEF IInv, TypeOK, Run
<1>2. \A s \in Starter \ {t} : start'[s] = start[s]
  BY DEF Spawn, StartAt, IInv, TypeOK
<1>3. /\ watch[i] = "none" /\ ~Alive(i) /\ (~Overlap => entry = i) /\ record # i
      /\ \A s \in Starter \ {t} : InStart(s) => start[s].run # i
  BY <1>1 DEF IInv, Starts, InStart
<1>4. \A s \in Starter \ {t} : InStart(s)' <=> InStart(s)
  BY <1>2 DEF InStart
<1>5. Gone'
  BY <1>1 DEF Gone
<1>6. ASSUME java' = [java EXCEPT ![i] = "booting"], StartAt(t, "spawned", i),
             UNCHANGED entry
      PROVE  IInv'
  <2>1. start'[t] = [at |-> "spawned", run |-> i]
    BY <1>6 DEF StartAt, IInv, TypeOK
  <2>2. \A k : k # i => (Alive(k)' <=> Alive(k))
    BY <1>6 DEF Alive, IInv, TypeOK
  <2>3. Numbered'
    <3>1. \A k \in Run : k > used => k # i
      BY <1>1 DEF Run
    <3>2. \A s \in Starter : InStart(s)' => start'[s].run \in 1..used
      BY <1>1, <1>2, <1>4, <2>1 DEF IInv, Numbered
    <3> QED
      BY <1>1, <1>6, <2>2, <3>1, <3>2 DEF IInv, Numbered
  <2>4. Starts'
    <3> SUFFICES ASSUME NEW s \in Starter, InStart(s)'
                 PROVE  /\ watch'[start'[s].run] = "none"
                        /\ record' # start'[s].run
                        /\ start'[s].at = "registered" => ~Alive(start[s].run)'
                        /\ ~Overlap' => entry' = start'[s].run
                        /\ \A r \in Starter \ {s} :
                             InStart(r)' => start'[r].run # start'[s].run
      BY DEF Starts
    <3>1. CASE s = t
      BY <1>1, <1>2, <1>3, <1>4, <1>6, <2>1, <3>1 DEF Overlap
    <3>2. CASE s # t
      <4>1. InStart(s) /\ start'[s] = start[s] /\ start[s].run # i
        BY <1>2, <1>3, <1>4, <3>2
      <4> QED
        BY <1>1, <1>2, <1>4, <1>6, <2>1, <2>2, <3>2, <4>1 DEF IInv, Starts, Overlap
    <3> QED
      BY <3>1, <3>2
  <2>5. Watchers'
    BY <1>1, <1>3, <1>6, <2>2 DEF IInv, Watchers, Overlap
  <2>6. WokenAfterTheEnd'
    BY <1>1, <1>3, <1>6, <2>2 DEF IInv, WokenAfterTheEnd, Overlap
  <2>7. AliveIsKnown'
    BY <1>1, <1>3, <1>6, <2>2 DEF IInv, AliveIsKnown, Overlap
  <2>9. Removable'
    BY <1>1, <1>3, <2>2 DEF IInv, Removable, BooksOpen
  <2>8. AliveIsRecorded'
    <3>1. \A k \in Run : Announced(k)' => k # i
      BY <2>1 DEF Announced
    <3>2. \A k \in Run : Announced(k)' => Announced(k)
      BY <1>1, <1>2 DEF Announced
    <3> QED
      BY <1>1, <2>2, <3>1, <3>2 DEF IInv, AliveIsRecorded
  <2> QED
    BY <1>5, <2>3, <2>4, <2>5, <2>6, <2>7, <2>8, <2>9 DEF IInv
<1>7. ASSUME entry' = 0, StartAt(t, "idle", 0), UNCHANGED java
      PROVE  IInv'
  <2>1. start'[t].at = "idle"
    BY <1>7 DEF StartAt, IInv, TypeOK
  <2>2. \A s \in Starter : InStart(s)' => s # t /\ InStart(s) /\ start'[s] = start[s]
    BY <1>2, <2>1 DEF InStart
  <2>3. \A k \in Run : Announced(k)' => Announced(k)
    BY <1>1, <1>2 DEF Announced
  <2>4. Numbered'
    BY <1>1, <1>7, <2>2 DEF IInv, Numbered, Alive
  <2>5. \A s \in Starter : InStart(s)' => Overlap
    BY <1>1, <1>3, <2>2 DEF IInv, Starts
  <2>6. Starts'
    BY <1>1, <1>7, <2>2, <2>5 DEF IInv, Starts, Alive, Overlap
  <2>7. Watchers'
    <3>1. \A k \in Run : ~Overlap => watch[k] \notin {"own", "adopted"}
      BY <1>3 DEF IInv, Watchers
    <3>2. \A k \in Run : watch[k] = "finishing" => burying[k] # 0
      BY MaxRunsNat DEF IInv, Watchers, Run
    <3> QED
      BY <1>1, <1>7, <3>1, <3>2 DEF IInv, Watchers, Overlap, Alive
  <2>8. WokenAfterTheEnd'
    BY <1>1, <1>7 DEF IInv, WokenAfterTheEnd, Overlap, Alive, TypeOK, Run
  <2>9. AliveIsKnown'
    BY <1>1, <1>3, <1>7 DEF IInv, AliveIsKnown, Overlap, Alive
  <2>10. AliveIsRecorded'
    BY <1>1, <1>7, <2>3 DEF IInv, AliveIsRecorded, Alive
  <2>11. Removable'
    BY <1>1, <1>7 DEF IInv, Removable, BooksOpen, Alive
  <2> QED
    BY <1>5, <2>4, <2>6, <2>7, <2>8, <2>9, <2>10, <2>11 DEF IInv
<1> QED
  BY <1>6, <1>7 DEF Spawn

(* The record and the watcher.                                             *)
LEMMA Announcing ==
  ASSUME IInv, TypeOK', NEW t \in Starter, Announce(t)
  PROVE  IInv'
<1> DEFINE i == start[t].run
<1>1. /\ start[t].at = "spawned" /\ up /\ up' /\ i \in 1..used /\ i \in Run
      /\ watch' = [watch EXCEPT ![i] = "own"]
      /\ UNCHANGED <<java, used, entry, closed, burying>>
      /\ used \in Nat /\ record \in Nat
  <2>1. /\ start[t].at = "spawned"
        /\ watch' = [watch EXCEPT ![i] = "own"]
        /\ UNCHANGED <<java, up, used, entry, closed, burying>>
    BY DEF Announce
  <2>2. InStart(t) /\ start[t] # Idle
    BY <2>1 DEF InStart, Idle
  <2>3. up /\ i \in 1..used
    BY <2>2 DEF IInv, Gone, Numbered
  <2> QED
    BY <2>1, <2>3, MaxRunsNat DEF IInv, TypeOK, Run
<1>0. /\ record' \in {0, record, i}
      /\ harm' = {} => record' = i /\ harm = {} /\ ~BooksOpen
      /\ Overlap' <=> Overlap
  <2>1. Recorded(i)
    BY DEF Announce
  <2> QED
    BY <2>1 DEF Recorded, Overlap
<1>2. start'[t].at = "idle" /\ \A s \in Starter \ {t} : start'[s] = start[s]
  BY DEF Announce, StartAt, IInv, TypeOK
<1>3. /\ watch[i] = "none" /\ (~Overlap => entry = i)
      /\ \A s \in Starter \ {t} : InStart(s) => start[s].run # i
  BY <1>1 DEF IInv, Starts, InStart
<1>4. \A s \in Starter : InStart(s)' => s # t /\ InStart(s) /\ start'[s] = start[s]
  BY <1>2 DEF InStart
<1>5. watch'[i] = "own" /\ \A k \in Run : k # i => watch'[k] = watch[k]
  BY <1>1 DEF IInv, TypeOK
<1>6. \A k : Alive(k)' <=> Alive(k)
  BY <1>1 DEF Alive
<1>7. Gone'
  BY <1>1 DEF Gone
<1>8. Numbered'
  <2>1. record' <= used'
    BY <1>0, <1>1 DEF IInv, Numbered
  <2>2. \A k \in Run : k > used => k # i
    BY <1>1 DEF Run
  <2> QED
    BY <1>1, <1>4, <1>5, <1>6, <2>1, <2>2 DEF IInv, Numbered
<1>9. Starts'
  <2>1. \A s \in Starter : InStart(s)' =>
          start[s].run # i /\ start[s].run \in Run /\ start[s].run # 0
    BY <1>1, <1>3, <1>4, MaxRunsNat DEF IInv, Numbered, Run, TypeOK
  <2> QED
    BY <1>0, <1>1, <1>4, <1>5, <1>6, <2>1 DEF IInv, Starts
<1>10. Watchers'
  BY <1>0, <1>1, <1>3, <1>5, <1>6 DEF IInv, Watchers
<1>11. WokenAfterTheEnd' /\ AliveIsKnown'
  BY <1>0, <1>1, <1>6 DEF IInv, WokenAfterTheEnd, AliveIsKnown, Overlap
<1>12. AliveIsRecorded'
  <2>1. harm = {} => \A k \in Run : Alive(k) => k = i
    BY <1>1, <1>3 DEF IInv, AliveIsKnown, Overlap
  <2> QED
    BY <1>0, <1>1, <1>6, <2>1 DEF AliveIsRecorded
<1>13. Removable'
  BY <1>0, <1>5 DEF Removable, BooksOpen
<1> QED
  BY <1>7, <1>8, <1>9, <1>10, <1>11, <1>12, <1>13 DEF IInv

(* A watcher finds its process ended, or believes so.                      *)
LEMMA Noticing ==
  ASSUME IInv, TypeOK', NEW i \in Run, Notice(i) \/ Mistake(i)
  PROVE  IInv'
<1>0. LeavesTable(i)
  BY DEF Notice, Mistake
<1>1. /\ watch[i] \in {"own", "adopted"} /\ up /\ up'
      /\ UNCHANGED <<used, java, closed, record, start>>
      /\ harm' = {} => harm = {} /\ ~Overlap'
      /\ ~Overlap' => ~Overlap /\ ~Alive(i) /\ entry = i
  <2>1. /\ watch[i] \in {"own", "adopted"}
        /\ UNCHANGED <<up, used, java, closed, record, start>>
    BY DEF Notice, Mistake, LeavesTable, callers
  <2>2. up
    BY <2>1 DEF IInv, Gone
  <2>3. harm \subseteq harm' /\ (~Overlap' => java[i] = "dead")
    BY DEF Notice, Mistake, Overlap
  <2> QED
    BY <2>1, <2>2, <2>3 DEF IInv, Watchers, Alive, Overlap
<1>2. /\ \A k : Alive(k)' <=> Alive(k)
      /\ \A s \in Starter : InStart(s)' <=> InStart(s)
      /\ \A k : Announced(k)' <=> Announced(k)
  BY <1>1 DEF Alive, InStart, Announced
<1>3. Gone' /\ AliveIsRecorded'
  BY <1>1, <1>2 DEF IInv, Gone, AliveIsRecorded
<1>9. Removable'
  <2>1. harm' = {} => \A k \in Run : ~Alive(k)
    BY <1>1 DEF IInv, AliveIsKnown
  <2> QED
    BY <1>2, <2>1 DEF Removable, Alive
<1>4. /\ watch'[i] \in {"finishing", "gone"}
      /\ \A k \in Run \ {i} : watch'[k] = watch[k]
  BY <1>0 DEF LeavesTable, IInv, TypeOK
<1>5. \A s \in Starter : InStart(s) => watch'[start[s].run] = "none"
  <2>1. \A s \in Starter : InStart(s) => start[s].run \in Run
    BY MaxRunsNat DEF IInv, Numbered, TypeOK, Run
  <2>2. \A s \in Starter : InStart(s) => watch[start[s].run] = "none"
    BY DEF IInv, Starts
  <2> QED
    BY <1>1, <1>4, <2>1, <2>2
<1>6. Numbered'
  <2>1. entry' = entry \/ entry' = 0
    BY <1>0 DEF LeavesTable
  <2> QED
    BY <1>1, <1>2, <1>4, <2>1 DEF IInv, Numbered, TypeOK
<1>7. CASE entry = 0 /\ UNCHANGED <<entry, burying>> /\ watch'[i] = "gone"
  <2>1. Starts'
    BY <1>1, <1>2, <1>7, <1>5 DEF IInv, Starts
  <2>2. Watchers'
    BY <1>1, <1>2, <1>4, <1>7 DEF IInv, Watchers
  <2>3. WokenAfterTheEnd' /\ AliveIsKnown'
    BY <1>1, <1>2, <1>7 DEF IInv, WokenAfterTheEnd, AliveIsKnown, Overlap
  <2> QED
    BY <1>3, <1>6, <1>9, <2>1, <2>2, <2>3 DEF IInv
<1>8. CASE /\ entry # 0 /\ entry' = 0 /\ watch'[i] = "finishing"
           /\ burying' = [burying EXCEPT ![i] = entry]
  <2>1. entry \in Run \ closed
    BY <1>8 DEF IInv, WokenAfterTheEnd, TypeOK, Run
  <2>2. burying'[i] = entry /\ \A k \in Run \ {i} : burying'[k] = burying[k]
    BY <1>8 DEF IInv, TypeOK
  <2>3. \A s \in Starter : InStart(s) => Overlap'
    BY <1>1 DEF IInv, Starts
  <2>4. Starts'
    BY <1>1, <1>2, <1>5, <2>3 DEF IInv, Starts
  <2>5. Watchers'
    <3>1. \A k \in Run : ~Overlap' => watch'[k] \notin {"own", "adopted"}
      BY <1>1, <1>4 DEF IInv, Watchers
    <3>2. /\ burying'[i] \in Run \ closed' /\ burying'[i] <= used'
          /\ entry' # burying'[i]
          /\ ~Overlap' => burying'[i] = i
      BY <1>1, <1>8, <2>1, <2>2, MaxRunsNat DEF IInv, Numbered, Run
    <3>3. \A k \in Run \ {i} : watch[k] = "finishing" => burying[k] # entry
      BY DEF IInv, Watchers
    <3>4. \A k \in Run \ {i} : watch[k] = "finishing" => burying[k] # 0
      BY MaxRunsNat DEF IInv, Watchers, Run
    <3> QED
      BY <1>1, <1>2, <1>4, <1>8, <2>2, <3>1, <3>2, <3>3, <3>4
      DEF IInv, Watchers
  <2>6. WokenAfterTheEnd'
    <3>1. \A k \in closed : k # 0
      BY MaxRunsNat DEF IInv, TypeOK, Run
    <3> QED
      BY <1>1, <1>2, <1>8, <3>1 DEF IInv, WokenAfterTheEnd, Overlap
  <2>7. AliveIsKnown'
    BY <1>1, <1>2 DEF IInv, AliveIsKnown
  <2> QED
    BY <1>3, <1>6, <1>9, <2>4, <2>5, <2>6, <2>7 DEF IInv
<1> QED
  <2>1. watch'[i] = IF entry = 0 THEN "gone" ELSE "finishing"
    BY <1>0 DEF LeavesTable, IInv, TypeOK
  <2> QED
    BY <1>0, <1>7, <1>8, <2>1 DEF LeavesTable

(* The books of a run are closed.                                          *)
LEMMA Burying ==
  ASSUME IInv, TypeOK', NEW i \in Run, Bury(i)
  PROVE  IInv'
<1> DEFINE b == burying[i]
<1>1. /\ watch[i] = "finishing" /\ up /\ up'
      /\ record' \in {0, record}
      /\ closed' = closed \union {b}
      /\ UNCHANGED <<used, java, entry, start, harm>>
  <2>1. /\ watch[i] = "finishing" /\ record' \in {0, record}
        /\ closed' = closed \union {b}
        /\ UNCHANGED <<up, used, java, entry, start, harm>>
    BY DEF Bury, callers
  <2>2. up
    BY <2>1 DEF IInv, Gone
  <2> QED
    BY <2>1, <2>2
<1>2. /\ b \in Run \ closed /\ b <= used /\ entry # b
      /\ ~Overlap => b = i /\ ~Alive(i)
      /\ \A k \in Run \ {i} : watch[k] = "finishing" => burying[k] # b
  BY <1>1 DEF IInv, Watchers
<1>3. /\ watch'[i] = "gone"
      /\ \A k \in Run \ {i} : watch'[k] = watch[k] /\ burying'[k] = burying[k]
  BY DEF Bury, IInv, TypeOK
<1>4. /\ \A k : Alive(k)' <=> Alive(k)
      /\ \A s \in Starter : InStart(s)' <=> InStart(s)
      /\ \A k : Announced(k)' <=> Announced(k)
      /\ Overlap' <=> Overlap
  BY <1>1 DEF Alive, InStart, Announced, Overlap
<1>5. Gone'
  BY <1>1 DEF Gone
<1>6. Numbered'
  <2>1. record' <= used' /\ entry' <= used' /\ used \in Nat
    BY <1>1, MaxRunsNat DEF IInv, Numbered, TypeOK
  <2>2. \A k \in Run : k > used => k # i /\ k # b
    BY <1>1, <1>2, <2>1 DEF IInv, Numbered, Run
  <2> QED
    BY <1>1, <1>3, <1>4, <2>1, <2>2 DEF IInv, Numbered
<1>7. Starts'
  <2>2. \A s \in Starter : InStart(s) => start[s].run # 0
    BY DEF IInv, Numbered
  <2>1. \A s \in Starter : InStart(s) => watch'[start[s].run] = "none"
    <3>1. \A s \in Starter : InStart(s) => start[s].run \in Run
      BY MaxRunsNat DEF IInv, Numbered, TypeOK, Run
    <3>2. \A s \in Starter : InStart(s) => watch[start[s].run] = "none"
      BY DEF IInv, Starts
    <3> QED
      BY <1>1, <1>3, <3>1, <3>2
  <2> QED
    BY <1>1, <1>4, <2>1, <2>2 DEF IInv, Starts
<1>8. Watchers'
  BY <1>1, <1>2, <1>3, <1>4 DEF IInv, Watchers
<1>9. WokenAfterTheEnd'
  BY <1>1, <1>2, <1>4 DEF IInv, WokenAfterTheEnd, Overlap
<1>10. harm = {} => ~Alive(record)
  BY <1>1 DEF IInv, Removable, BooksOpen
<1>11. AliveIsKnown'
  BY <1>1, <1>4 DEF IInv, AliveIsKnown
<1>12. AliveIsRecorded'
  BY <1>1, <1>4, <1>10 DEF IInv, AliveIsRecorded
<1>13. Removable'
  BY <1>1, <1>4, <1>10, MaxRunsNat DEF Removable, Alive, Run
<1> QED
  BY <1>5, <1>6, <1>7, <1>8, <1>9, <1>11, <1>12, <1>13 DEF IInv

(* The launcher goes.                                                      *)
LEMMA Crashing ==
  ASSUME IInv, TypeOK', Crash
  PROVE  IInv'
<1>1. /\ ~up' /\ entry' = 0 /\ closed' = {}
      /\ \A t \in Starter : start'[t] = Idle
      /\ \A i \in Run : watch'[i] = "none"
      /\ UNCHANGED <<used, java, record>>
  BY DEF Crash, NoRuns
<1>2. /\ \A k : Alive(k)' <=> Alive(k)
      /\ \A s \in Starter : ~InStart(s)'
  BY <1>1 DEF Alive, InStart, Idle
<1>3. Numbered' /\ Gone' /\ Starts' /\ Watchers' /\ WokenAfterTheEnd'
  BY <1>1, <1>2, MaxRunsNat
  DEF IInv, TypeOK, Numbered, Gone, Starts, Watchers, WokenAfterTheEnd
<1>4. AliveIsKnown'
  BY <1>1 DEF AliveIsKnown
<1>5. harm' = {} => harm = {} /\ \A t \in Starter : start[t].at # "spawned"
  BY DEF Crash
<1>6. harm' = {} => harm = {} /\ \A k : Announced(k)
  BY <1>5 DEF Announced
<1>7. AliveIsRecorded'
  BY <1>1, <1>2, <1>6 DEF IInv, AliveIsRecorded
<1>8. Removable'
  BY <1>1 DEF Removable, BooksOpen
<1> QED
  BY <1>3, <1>4, <1>7, <1>8 DEF IInv

(* The next one comes, and takes over what the record names.               *)
LEMMA Booting ==
  ASSUME IInv, TypeOK', Boot
  PROVE  IInv'
<1>1. /\ ~up /\ up' /\ entry = 0 /\ closed = {}
      /\ \A t \in Starter : start[t] = Idle
      /\ \A i \in Run : watch[i] = "none"
      /\ UNCHANGED <<used, java, closed, start, burying, harm>>
  BY DEF Boot, IInv, Gone, callers
<1>2. /\ \A k : Alive(k)' <=> Alive(k)
      /\ \A s \in Starter : ~InStart(s)'
      /\ \A k : Announced(k)
  BY <1>1 DEF Alive, InStart, Idle, Announced
<1>3. harm = {} => \A k \in Run : Alive(k) => record = k
  BY <1>2 DEF IInv, AliveIsRecorded
<1>4. Gone' /\ Starts' /\ WokenAfterTheEnd'
  BY <1>1, <1>2 DEF Gone, Starts, WokenAfterTheEnd
<1>5. /\ Alive(record) /\ entry' = record /\ UNCHANGED record
      /\ watch' = [watch EXCEPT ![record] = "adopted"]
  BY DEF Boot
<1>6. \A k \in Run : watch'[k] = IF k = record THEN "adopted" ELSE "none"
  BY <1>1, <1>5 DEF IInv, TypeOK
<1>7. Watchers'
  BY <1>1, <1>5, <1>6 DEF Watchers
<1>8. record <= used /\ record \in Nat /\ used \in Nat
  BY MaxRunsNat DEF IInv, TypeOK, Numbered
<1>9. Numbered'
  BY <1>1, <1>2, <1>5, <1>6, <1>8 DEF IInv, Numbered, Run
<1>10. AliveIsKnown' /\ AliveIsRecorded'
  BY <1>1, <1>2, <1>3, <1>5 DEF AliveIsKnown, AliveIsRecorded
<1>11. Removable'
  BY <1>6 DEF Removable, BooksOpen
<1> QED
  BY <1>4, <1>7, <1>9, <1>10, <1>11 DEF IInv

(* It takes nothing over.                                                  *)
LEMMA BootingAlone ==
  ASSUME IInv, TypeOK', BootAlone
  PROVE  IInv'
<1>1. /\ ~up /\ up' /\ entry = 0 /\ closed = {}
      /\ \A t \in Starter : start[t] = Idle
      /\ \A i \in Run : watch[i] = "none"
      /\ UNCHANGED <<used, java, entry, closed, start, watch, burying>>
      /\ record' \in {0, record}
  BY DEF BootAlone, IInv, Gone, callers, memory, watchers
<1>2. /\ \A k : Alive(k)' <=> Alive(k)
      /\ \A s \in Starter : ~InStart(s)'
      /\ \A k : Announced(k)
  BY <1>1 DEF Alive, InStart, Idle, Announced
<1>3. harm' = {} => harm = {} /\ ~Alive(record)
  BY DEF BootAlone
<1>4. harm' = {} => \A k \in Run : ~Alive(k)
  BY <1>2, <1>3 DEF IInv, AliveIsRecorded
<1>5. Gone' /\ Starts' /\ WokenAfterTheEnd' /\ Watchers'
  BY <1>1, <1>2 DEF Gone, Starts, WokenAfterTheEnd, Watchers
<1>6. Numbered'
  BY <1>1, <1>2, MaxRunsNat DEF IInv, TypeOK, Numbered
<1>7. AliveIsKnown' /\ AliveIsRecorded'
  BY <1>2, <1>4 DEF AliveIsKnown, AliveIsRecorded
<1>8. Removable'
  BY <1>1 DEF Removable, BooksOpen
<1> QED
  BY <1>5, <1>6, <1>7, <1>8 DEF IInv
-------------------------------------------------------------------------------
LEMMA Initially == Init => IInv
<1> SUFFICES ASSUME Init PROVE IInv
  OBVIOUS
<1> USE MaxRunsNat DEF Init, NoRuns, Run
<1>1. TypeOK
  <2>1. /\ start \in [Starter -> StarterState] /\ stop \in [Stopper -> StopperState]
    <3>1. Idle \in StarterState /\ Idle \in StopperState
      BY DEF StarterState, StopperState, Idle
    <3> QED
      BY <3>1
  <2>2. /\ java \in [Run -> JavaState] /\ status \in [Run -> Status]
        /\ watch \in [Run -> WatcherState] /\ burying \in [Run -> 0..MaxRuns]
    BY DEF JavaState, Status, WatcherState
  <2>3. up \in BOOLEAN /\ fileWork \in BOOLEAN
    OBVIOUS
  <2>4. /\ closed \subseteq Run /\ adopted \subseteq Run /\ timers \subseteq Run
        /\ harm \subseteq Harm
    OBVIOUS
  <2>5. used \in 0..MaxRuns /\ entry \in 0..MaxRuns /\ record \in 0..MaxRuns
    OBVIOUS
  <2>6. platform \in {"windows", "unix"}
    OBVIOUS
  <2> QED
    BY ONLY <2>1, <2>2, <2>3, <2>4, <2>5, <2>6 DEF TypeOK
<1>2. /\ \A i \in Run : ~Alive(i)
      /\ \A t \in Starter : ~InStart(t)
  BY DEF Alive, InStart, Idle
<1>3. Numbered /\ Gone /\ Starts /\ Watchers /\ Removable
  BY <1>2 DEF Numbered, Gone, Starts, Watchers, Removable, BooksOpen
<1>4. WokenAfterTheEnd /\ AliveIsKnown /\ AliveIsRecorded
  BY <1>2 DEF WokenAfterTheEnd, AliveIsKnown, AliveIsRecorded
<1> QED
  BY <1>1, <1>3, <1>4 DEF IInv

LEMMA Inductive == IInv /\ [Next]_vars => IInv'
<1> SUFFICES ASSUME IInv, [Next]_vars PROVE IInv'
  OBVIOUS
<1>1. TypeOK'
  BY Typing DEF IInv
<1> DEFINE same == UNCHANGED <<up, used, entry, closed, record, start, watch,
                               burying, harm>>
           fewer == \A i \in Run : Alive(i)' => Alive(i)
<1>2. ASSUME NEW t \in Starter, Begin(t) \/ Register(t) \/ Spawn(t) \/ Announce(t)
      PROVE  IInv'
  BY <1>1, <1>2, Waiting, Registering, Spawning, Announcing
<1>3. ASSUME NEW t \in Starter, Ask(t) PROVE IInv'
  BY <1>1, <1>3, Waiting
<1>4. ASSUME NEW t \in Stopper, StopWoken(t) \/ StopWaited(t) \/ StopGivesUp(t)
                                \/ AskStop(t)
      PROVE  IInv'
  <2>1. same /\ UNCHANGED java
    BY <1>4 DEF StopWoken, StopWaited, StopGivesUp, AskStop, memory, watchers
  <2>2. fewer
    BY <2>1 DEF Alive
  <2> QED
    BY <1>1, <2>1, <2>2, Fewer
<1>5. ASSUME NEW t \in Stopper, Kill(t) PROVE IInv'
  <2>1. same /\ (java' = java \/ java' = [java EXCEPT ![entry] = "dead"])
    BY <1>5 DEF Kill, memory, watchers
  <2>2. fewer
    BY <2>1 DEF Alive, IInv, TypeOK
  <2> QED
    BY <1>1, <2>1, <2>2, Fewer
<1>6. ASSUME NEW i \in Run, Ready(i) PROVE IInv'
  <2>1. same /\ UNCHANGED java
    BY <1>6 DEF Ready, callers, watchers
  <2>2. fewer
    BY <2>1 DEF Alive
  <2> QED
    BY <1>1, <2>1, <2>2, Fewer
<1>7. ASSUME NEW i \in Run, KillTimer(i) PROVE IInv'
  <2>1. same /\ (java' = java \/ java' = [java EXCEPT ![i] = "dead"])
    BY <1>7 DEF KillTimer, memory, callers, watchers
  <2>2. fewer
    BY <2>1 DEF Alive, IInv, TypeOK
  <2> QED
    BY <1>1, <2>1, <2>2, Fewer
<1>8. ASSUME NEW i \in Run, Bind(i) \/ End(i) PROVE IInv'
  <2>1. same /\ Alive(i) /\ \E last : java' = [java EXCEPT ![i] = last]
    BY <1>8 DEF Bind, End, Alive, memory, callers, watchers
  <2>2. fewer
    BY <2>1 DEF Alive, IInv, TypeOK
  <2> QED
    BY <1>1, <2>1, <2>2, Fewer
<1>9. ASSUME NEW i \in Run, Notice(i) \/ Mistake(i) \/ Bury(i) PROVE IInv'
  BY <1>1, <1>9, Noticing, Burying
<1>10. CASE Crash \/ Boot \/ BootAlone
  BY <1>1, <1>10, Crashing, Booting, BootingAlone
<1>11. CASE BeginFileWork \/ EndFileWork \/ UNCHANGED vars
  <2>1. same /\ UNCHANGED java
    BY <1>11 DEF BeginFileWork, EndFileWork, vars, memory, callers, watchers
  <2>2. fewer
    BY <2>1 DEF Alive
  <2> QED
    BY <1>1, <2>1, <2>2, Fewer
<1> QED
  BY <1>2, <1>3, <1>4, <1>5, <1>6, <1>7, <1>8, <1>9, <1>10, <1>11
  DEF Next, Starting, Stopping, Watching, World

(* The inductive invariant holds in every behaviour.                       *)
THEOREM Invariance == Spec => []IInv
<1> QED
  BY Initially, Inductive, PTL DEF Spec

(* Every variable keeps its type.                                          *)
THEOREM TypeCorrect == Spec => []TypeOK
<1>1. IInv => TypeOK
  BY DEF IInv
<1> QED
  BY <1>1, Invariance, PTL

(* No java process is forgotten while the launcher runs, however many      *)
(* starts, stops, crashes and restarts there are (recover.go:3-17).        *)
THEOREM NoneForgotten == Spec => []AliveIsKnown
<1>1. IInv => AliveIsKnown
  BY DEF IInv
<1> QED
  BY <1>1, Invariance, PTL

(* The record lets the next launcher find the live process, but for the    *)
(* ways to lose it that Harm names: there are no others.                   *)
THEOREM AllRecorded == Spec => []AliveIsRecorded
<1>1. IInv => AliveIsRecorded
  BY DEF IInv
<1> QED
  BY <1>1, Invariance, PTL

(* A Stop is woken by exited only after the run it waits for is over.      *)
THEOREM WokenLate == Spec => []WokenAfterTheEnd
<1>1. IInv => WokenAfterTheEnd
  BY DEF IInv
<1> QED
  BY <1>1, Invariance, PTL

(* exited is closed at most once per run, even when starts overlap, so the *)
(* close in watchProcess never panics (process.go:481).                    *)
THEOREM NoDoubleClose == Spec => []ClosedOnce
<1>1. IInv => ClosedOnce
  BY DEF IInv, Watchers, ClosedOnce
<1> QED
  BY <1>1, Invariance, PTL
-------------------------------------------------------------------------------
(* The table Manager.running over a run's whole life.                      *)

(* The run in the table is not one whose end was written down already.     *)
Listed == entry # 0 => status[entry] \in {"starting", "running", "stopping"}

(* Somebody at work will take the run out of the table: its watcher, or    *)
(* the start that is about to set one to it.                               *)
Tended ==
  entry # 0 => \/ watch[entry] \in {"own", "adopted"}
               \/ \E t \in Starter : InStart(t) /\ start[t].run = entry

(* A Stop whose process is alive finds that process by the server's id.    *)
Aimed ==
  ~Overlap => \A t \in Stopper :
    stop[t].at # "idle" /\ Alive(stop[t].run) => entry = stop[t].run

NoStops == ~up => \A t \in Stopper : stop[t].at = "idle"

Table == Listed /\ Tended /\ Aimed /\ NoStops

(* A step of the world that leaves the table, its starts and its stops.    *)
LEMMA TableStays ==
  ASSUME Table, UNCHANGED <<up, entry, status, watch, start, stop>>,
         harm \subseteq harm', \A i : Alive(i)' => Alive(i)
  PROVE  Table'
<1>1. Listed' /\ NoStops'
  BY DEF Table, Listed, NoStops
<1>2. Tended'
  BY DEF Table, Tended, InStart
<1>3. Aimed'
  BY DEF Table, Aimed, Overlap
<1> QED
  BY <1>1, <1>2, <1>3 DEF Table

LEMMA TableStarting ==
  ASSUME IInv, Table, NEW t \in Starter,
         Ask(t) \/ Begin(t) \/ Register(t) \/ Spawn(t) \/ Announce(t)
  PROVE  Table'
<1>1. /\ up' = up /\ stop' = stop
      /\ \A s \in Starter \ {t} : start'[s] = start[s]
  BY DEF IInv, TypeOK, StartAt, Ask, Begin, Register, Spawn, Announce, callers
<1>2. NoStops'
  BY <1>1 DEF Table, NoStops
<1>3. ASSUME ~InStart(t), UNCHANGED <<java, entry, status, watch, harm>>
      PROVE  Table'
  <2>1. Tended'
    BY <1>1, <1>3 DEF Table, Tended, InStart
  <2>2. Listed' /\ Aimed'
    BY <1>1, <1>3 DEF Table, Listed, Aimed, Overlap, Alive
  <2> QED
    BY <1>2, <2>1, <2>2 DEF Table
<1>4. CASE Ask(t) \/ Begin(t)
  BY <1>3, <1>4 DEF Ask, Begin, InStart, memory, watchers
<1>5. CASE Register(t)
  <2>1. ~InStart(t) /\ java' = java /\ watch' = watch
    BY <1>5 DEF Register, InStart, watchers
  <2>2. CASE UNCHANGED <<used, entry, status, harm>>
    BY <1>3, <2>1, <2>2
  <2>3. ASSUME used < MaxRuns, used' = used + 1, entry' = used',
               status' = [status EXCEPT ![used'] = "starting"],
               StartAt(t, "registered", used'),
               harm' = IF entry = 0 THEN harm ELSE harm \union {"raced"}
        PROVE  Table'
    <3>1. used' \in Run
      BY <2>3, MaxRunsNat DEF IInv, TypeOK, Run
    <3>2. Listed'
      BY <2>3, <3>1 DEF Listed, IInv, TypeOK
    <3>3. start'[t] = [at |-> "registered", run |-> used']
      BY <2>3 DEF StartAt, IInv, TypeOK
    <3>4. Tended'
      BY <2>3, <3>3 DEF Tended, InStart
    <3>5. Overlap' \/ (~Overlap /\ entry = 0)
      BY <2>3 DEF Overlap
    <3>6. Aimed'
      BY <1>1, <2>1, <3>5, MaxRunsNat DEF Table, Aimed, Alive, Run
    <3> QED
      BY <1>2, <3>2, <3>4, <3>6 DEF Table
  <2> QED
    BY <1>5, <2>2, <2>3 DEF Register
<1>6. CASE Spawn(t)
  <2> DEFINE i == start[t].run
  <2>1. InStart(t) /\ UNCHANGED <<status, watch, harm>>
    BY <1>6 DEF Spawn, InStart, watchers
  <2>2. i \in Run /\ (~Overlap => entry = i)
    BY <2>1, MaxRunsNat DEF IInv, TypeOK, Numbered, Starts, Run
  <2>3. CASE java' = [java EXCEPT ![i] = "booting"] /\ StartAt(t, "spawned", i)
             /\ UNCHANGED entry
    <3>1. start'[t] = [at |-> "spawned", run |-> i]
      BY <2>3 DEF StartAt, IInv, TypeOK
    <3>2. Tended'
      BY <1>1, <2>1, <2>3, <3>1 DEF Table, Tended, InStart
    <3>3. \A k : k # i => (Alive(k)' <=> Alive(k))
      BY <2>3 DEF Alive, IInv, TypeOK
    <3>4. Listed' /\ Aimed'
      BY <1>1, <2>1, <2>2, <2>3, <3>3 DEF Table, Listed, Aimed, Overlap
    <3> QED
      BY <1>2, <3>2, <3>4 DEF Table
  <2>4. CASE entry' = 0 /\ StartAt(t, "idle", 0) /\ UNCHANGED java
    <3>1. Listed' /\ Tended'
      BY <2>4 DEF Listed, Tended
    <3>2. ~Alive(i) /\ \A k : Alive(k)' <=> Alive(k)
      BY <1>6, <2>1, <2>4 DEF IInv, Starts, Spawn, Alive
    <3>3. Aimed'
      BY <1>1, <2>1, <2>2, <3>2 DEF Table, Aimed, Overlap
    <3> QED
      BY <1>2, <3>1, <3>3 DEF Table
  <2> QED
    BY <1>6, <2>3, <2>4 DEF Spawn
<1>7. CASE Announce(t)
  <2> DEFINE i == start[t].run
  <2>1. /\ InStart(t) /\ UNCHANGED <<java, entry>>
        /\ status' = [status EXCEPT ![i] = "starting"]
        /\ watch' = [watch EXCEPT ![i] = "own"]
        /\ harm \subseteq harm'
    BY <1>7 DEF Announce, Recorded, InStart
  <2>2. i \in Run
    BY <2>1, MaxRunsNat DEF IInv, TypeOK, Numbered, Run
  <2>3. /\ status'[i] = "starting" /\ watch'[i] = "own"
        /\ \A k \in Run : k # i => status'[k] = status[k] /\ watch'[k] = watch[k]
    BY <2>1, <2>2 DEF IInv, TypeOK
  <2>4. entry # 0 => entry \in Run
    BY MaxRunsNat DEF IInv, TypeOK, Run
  <2>5. Listed'
    BY <2>1, <2>3, <2>4 DEF Table, Listed
  <2>6. Tended'
    BY <1>1, <2>1, <2>3, <2>4 DEF Table, Tended, InStart
  <2>7. Aimed'
    BY <1>1, <2>1 DEF Table, Aimed, Overlap, Alive
  <2> QED
    BY <1>2, <2>5, <2>6, <2>7 DEF Table
<1> QED
  BY <1>4, <1>5, <1>6, <1>7

LEMMA TableStopping ==
  ASSUME IInv, Table, NEW t \in Stopper,
         AskStop(t) \/ StopWoken(t) \/ StopWaited(t) \/ Kill(t) \/ StopGivesUp(t)
  PROVE  Table'
<1>1. UNCHANGED <<up, entry, start, watch, harm>>
  BY DEF AskStop, StopWoken, StopWaited, Kill, StopGivesUp, memory, watchers
<1>2. Tended'
  BY <1>1 DEF Table, Tended, InStart
<1>3. CASE AskStop(t)
  <2>1. /\ up /\ entry # 0 /\ java' = java
        /\ status' = [status EXCEPT ![entry] = "stopping"]
        /\ \E label : stop' = [stop EXCEPT ![t] = [at |-> label, run |-> entry]]
    BY <1>3 DEF AskStop
  <2>2. Listed'
    BY <1>1, <2>1, MaxRunsNat DEF Listed, IInv, TypeOK, Run
  <2>3. stop'[t].run = entry /\ \A s \in Stopper \ {t} : stop'[s] = stop[s]
    BY <2>1 DEF IInv, TypeOK
  <2>4. Aimed' /\ NoStops'
    BY <1>1, <2>1, <2>3 DEF Table, Aimed, NoStops, Overlap, Alive
  <2> QED
    BY <1>2, <2>2, <2>4 DEF Table
<1>4. CASE StopWoken(t) \/ StopWaited(t) \/ Kill(t) \/ StopGivesUp(t)
  <2>1. status' = status /\ stop[t].at # "idle"
    BY <1>4 DEF StopWoken, StopWaited, Kill, StopGivesUp, memory
  <2>2. up
    BY <2>1 DEF Table, NoStops
  <2>3. /\ stop'[t].at = "idle" \/ stop'[t].run = stop[t].run
        /\ \A s \in Stopper \ {t} : stop'[s] = stop[s]
    <3>1. stop \in [Stopper -> StopperState]
      BY DEF IInv, TypeOK
    <3>2. \/ stop' = [stop EXCEPT ![t] = Idle]
          \/ \E label : stop' = [stop EXCEPT ![t].at = label]
      BY <1>4 DEF StopWoken, StopWaited, Kill, StopGivesUp, StopAt
    <3>3. CASE stop' = [stop EXCEPT ![t] = Idle]
      BY <3>1, <3>3 DEF Idle
    <3>4. CASE \E label : stop' = [stop EXCEPT ![t].at = label]
      BY <3>1, <3>4 DEF StopperState
    <3> QED
      BY <3>2, <3>3, <3>4
  <2>4. java' = java \/ java' = [java EXCEPT ![entry] = "dead"]
    BY <1>4 DEF StopWoken, StopWaited, Kill, StopGivesUp
  <2>5. \A k : Alive(k)' => Alive(k)
    BY <2>4 DEF Alive, IInv, TypeOK
  <2>6. Listed' /\ NoStops'
    BY <1>1, <2>1, <2>2 DEF Table, Listed, NoStops
  <2>7. Aimed'
    BY <1>1, <2>1, <2>3, <2>5 DEF Table, Aimed, Overlap
  <2> QED
    BY <1>2, <2>6, <2>7 DEF Table
<1> QED
  BY <1>3, <1>4

LEMMA TableWatching ==
  ASSUME IInv, Table, NEW i \in Run, Ready(i) \/ Notice(i) \/ Mistake(i) \/ Bury(i)
  PROVE  Table'
<1>1. UNCHANGED <<up, java, start, stop>> /\ harm \subseteq harm'
  BY DEF Ready, Notice, Mistake, LeavesTable, Bury, callers
<1>2. NoStops' /\ \A k : Alive(k)' <=> Alive(k)
  BY <1>1 DEF Table, NoStops, Alive
<1>3. CASE Ready(i)
  <2>1. /\ entry = i /\ UNCHANGED <<entry, watch>>
        /\ status' = [status EXCEPT ![i] = "running"]
    BY <1>3 DEF Ready, watchers
  <2>2. Listed'
    BY <2>1 DEF Listed, IInv, TypeOK
  <2>3. Tended' /\ Aimed'
    BY <1>1, <1>2, <2>1 DEF Table, Tended, Aimed, Overlap, InStart
  <2> QED
    BY <1>2, <2>2, <2>3 DEF Table
<1>4. CASE Notice(i) \/ Mistake(i)
  <2>1. watch[i] \in {"own", "adopted"} /\ entry' = 0
    BY <1>4 DEF Notice, Mistake, LeavesTable
  <2>2. ~Overlap' => ~Overlap /\ ~Alive(i) /\ entry = i
    <3>1. ~Overlap' => ~Overlap /\ ~Alive(i)
      BY <1>4 DEF Notice, Mistake, Overlap, Alive
    <3> QED
      BY <2>1, <3>1 DEF IInv, Watchers
  <2>3. Listed' /\ Tended'
    BY <2>1 DEF Listed, Tended
  <2>4. Aimed'
    BY <1>1, <1>2, <2>1, <2>2 DEF Table, Aimed
  <2> QED
    BY <1>2, <2>3, <2>4 DEF Table
<1>5. CASE Bury(i)
  <2>1. /\ watch[i] = "finishing" /\ watch' = [watch EXCEPT ![i] = "gone"]
        /\ UNCHANGED <<entry, status>>
    BY <1>5 DEF Bury
  <2>2. entry # 0 => entry \in Run
    BY MaxRunsNat DEF IInv, TypeOK, Run
  <2>3. \A k \in Run : watch[k] \in {"own", "adopted"} => watch'[k] = watch[k]
    BY <2>1 DEF IInv, TypeOK
  <2>4. Tended'
    BY <1>1, <2>1, <2>2, <2>3 DEF Table, Tended, InStart
  <2>5. Listed' /\ Aimed'
    BY <1>1, <1>2, <2>1 DEF Table, Listed, Aimed, Overlap
  <2> QED
    BY <1>2, <2>4, <2>5 DEF Table
<1> QED
  BY <1>3, <1>4, <1>5

LEMMA TableInductive == IInv /\ Table /\ [Next]_vars => Table'
<1> SUFFICES ASSUME IInv, Table, [Next]_vars PROVE Table'
  OBVIOUS
<1> DEFINE same == UNCHANGED <<up, entry, status, watch, start, stop, harm>>
           fewer == \A i : Alive(i)' => Alive(i)
<1>1. ASSUME NEW i \in Run, KillTimer(i) \/ Bind(i) \/ End(i) PROVE Table'
  <2>1. same
    BY <1>1 DEF KillTimer, Bind, End, memory, callers, watchers
  <2>2. \/ java' = java \/ java' = [java EXCEPT ![i] = "dead"]
        \/ Alive(i) /\ java' = [java EXCEPT ![i] = "serving"]
    BY <1>1 DEF KillTimer, Bind, End, Alive
  <2>3. fewer
    BY <2>2 DEF Alive, IInv, TypeOK
  <2> QED
    BY <2>1, <2>3, TableStays
<1>2. CASE BeginFileWork \/ EndFileWork \/ UNCHANGED vars
  <2>1. same /\ UNCHANGED java
    BY <1>2 DEF BeginFileWork, EndFileWork, vars, memory, callers, watchers
  <2>2. fewer
    BY <2>1 DEF Alive
  <2> QED
    BY <2>1, <2>2, TableStays
<1>3. CASE Crash
  <2>1. entry' = 0 /\ \A t \in Stopper : stop'[t].at = "idle"
    BY <1>3 DEF Crash, Idle
  <2> QED
    BY <2>1 DEF Table, Listed, Tended, Aimed, NoStops
<1>4. CASE Boot
  <2>1. ~up /\ up' /\ entry = 0 /\ UNCHANGED <<java, start, stop, harm>>
    BY <1>4 DEF Boot, callers, IInv, Gone
  <2>2. \A t \in Stopper : stop'[t].at = "idle"
    BY <2>1 DEF Table, NoStops
  <2>3. Listed' /\ Tended'
    <3>1. /\ entry' \in Run /\ status'[entry'] = "running"
          /\ watch'[entry'] = "adopted"
      BY <1>4, <2>1 DEF Boot, Alive, IInv, TypeOK
    <3> QED
      BY <3>1 DEF Listed, Tended
  <2> QED
    BY <2>1, <2>2, <2>3 DEF Table, Aimed, NoStops
<1>5. CASE BootAlone
  <2>1. up' /\ entry = 0 /\ UNCHANGED <<entry, stop>> /\ ~up
    BY <1>5 DEF BootAlone, memory, callers, IInv, Gone
  <2>2. Listed' /\ Tended' /\ NoStops'
    BY <2>1 DEF Listed, Tended, NoStops
  <2>3. Aimed'
    BY <2>1 DEF Table, NoStops, Aimed
  <2> QED
    BY <2>2, <2>3 DEF Table
<1> QED
  BY <1>1, <1>2, <1>3, <1>4, <1>5, TableStarting, TableStopping, TableWatching
  DEF Next, Starting, Stopping, Watching, World

LEMMA TableHolds == Spec => []Table
<1>1. Init => Table
  BY DEF Init, Table, Listed, Tended, Aimed, NoStops, Idle
<1> QED
  BY <1>1, TableInductive, Invariance, PTL DEF Spec

(* At most one java process of the server is alive at any time, the times  *)
(* without a launcher included: two would write the same world.            *)
OneAtATime == harm = {} => \A i, j \in Run : Alive(i) /\ Alive(j) => i = j

(* The same for any number of starts, stops, runs and restarts.            *)
THEOREM OneProcess == Spec => []OneAtATime
<1>1. IInv => OneAtATime
  <2> SUFFICES ASSUME IInv, harm = {} PROVE \A i, j \in Run : Alive(i) /\ Alive(j) => i = j
    BY DEF OneAtATime
  <2>1. CASE up
    BY <2>1 DEF IInv, AliveIsKnown
  <2>2. CASE ~up
    <3>1. \A t \in Starter : start[t] = Idle
      BY <2>2 DEF IInv, Gone
    <3>2. ASSUME NEW i, NEW t \in Starter PROVE start[t] # [at |-> "spawned", run |-> i]
      <4>1. Idle.at = "idle" /\ [at |-> "spawned", run |-> i].at = "spawned"
        BY DEF Idle
      <4> QED
        BY <3>1, <4>1
    <3> QED
      BY <3>2 DEF IInv, AliveIsRecorded, Announced
  <2> QED
    BY <2>1, <2>2
<1> QED
  BY <1>1, Invariance, PTL

(* The run in the table always has a watcher, or a start about to set one, *)
(* however starts, stops and crashes fall together: what the liveness      *)
(* DeadIsNoticed needs of the code, but for a scheduler that is fair.      *)
THEOREM AlwaysTended == Spec => []Tended
<1>1. Table => Tended
  BY DEF Table
<1> QED
  BY <1>1, TableHolds, PTL

(* killProcess looks a process up by the server's id and not by the run it *)
(* was called for: while that run lives, it is nevertheless the one found. *)
THEOREM StopsAreAimed == Spec => []Aimed
<1>1. Table => Aimed
  BY DEF Table
<1> QED
  BY <1>1, TableHolds, PTL

(* FilesAtRest is violated.  What is left of it: file work begins beside a *)
(* live process only when that process is one the launcher has told to     *)
(* stop (IsRunning calls such a server stopped).                           *)
OnlyStoppingIsMet ==
  [][~fileWork /\ fileWork' /\ harm = {} =>
       \A i \in Run : Alive(i) => entry = i /\ status[i] = "stopping"]_vars

(* The same for any number of starts, stops, runs and restarts.            *)
THEOREM FileWorkMeetsStopping == Spec => OnlyStoppingIsMet
<1>1. ASSUME IInv, Table, [Next]_vars
      PROVE  [~fileWork /\ fileWork' /\ harm = {} =>
                \A i \in Run : Alive(i) => entry = i /\ status[i] = "stopping"]_vars
  <2> SUFFICES ASSUME ~fileWork, fileWork', harm = {}, NEW i \in Run, Alive(i)
               PROVE  entry = i /\ status[i] = "stopping"
    OBVIOUS
  <2>1. BeginFileWork
    <3>1. fileWork' # fileWork
      OBVIOUS
    <3>2. \A t \in Starter :
            ~Ask(t) /\ ~Begin(t) /\ ~Register(t) /\ ~Spawn(t) /\ ~Announce(t)
      BY <3>1 DEF Ask, Begin, Register, Spawn, Announce
    <3>3. \A t \in Stopper :
            ~AskStop(t) /\ ~StopWoken(t) /\ ~StopWaited(t) /\ ~Kill(t) /\ ~StopGivesUp(t)
      BY <3>1 DEF AskStop, StopWoken, StopWaited, Kill, StopGivesUp
    <3>4. \A k \in Run :
            /\ ~Ready(k) /\ ~Notice(k) /\ ~Mistake(k) /\ ~Bury(k)
            /\ ~KillTimer(k) /\ ~Bind(k) /\ ~End(k)
      BY <3>1 DEF Ready, Notice, Mistake, LeavesTable, Bury, KillTimer, Bind, End
    <3>5. ~Crash /\ ~Boot /\ ~BootAlone /\ ~EndFileWork /\ ~UNCHANGED vars
      BY <3>1 DEF Crash, Boot, BootAlone, EndFileWork, vars
    <3> QED
      BY <1>1, <3>2, <3>3, <3>4, <3>5 DEF Next, Starting, Stopping, Watching, World
  <2>2. up /\ ~IsRunning
    BY <2>1 DEF BeginFileWork
  <2>3. entry = i
    BY <1>1, <2>2 DEF IInv, AliveIsKnown
  <2> QED
    BY <1>1, <2>2, <2>3, MaxRunsNat DEF Table, Listed, IsRunning, Run
<1> QED
  BY <1>1, Invariance, TableHolds, PTL DEF Spec, OnlyStoppingIsMet
===============================================================================
