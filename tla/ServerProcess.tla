----------------------------- MODULE ServerProcess -----------------------------
(***************************************************************************)
(* One game server of the launcher (backend/internal/servers): its java    *)
(* processes, the table Manager.running that says which of them the        *)
(* launcher controls, the record on the disk that lets the next launcher   *)
(* take over what this one leaves behind, and the goroutines that start,   *)
(* stop and watch it.  A step runs from one lock to the next.              *)
(***************************************************************************)
EXTENDS Naturals

CONSTANTS
  Starter,   \* goroutines that may be starting the server
  Stopper,   \* goroutines that may be stopping it
  MaxRuns    \* bound: java processes started in a behaviour

ASSUME MaxRunsNat == MaxRuns \in Nat

VARIABLES
  platform,  \* "windows" or "unix"
  up,        \* is there a launcher?
  used,      \* runs 1..used have been begun
  java,      \* run -> what its process does
  entry,     \* Manager.running: the run in control (0: none)
  status,    \* run -> status of its processInfo
  closed,    \* runs whose channel exited is closed
  adopted,   \* runs taken over from an earlier launcher: their stdin is lost
  record,    \* the run server_runtime.json names (0: no file)
  start,     \* starter -> where it is, for which run
  stop,      \* stopper -> where it is, for which run
  watch,     \* run -> its watcher
  burying,   \* run -> the run its watcher is closing the books of (0: none)
  timers,    \* runs a kill timer was set for (not on Windows)
  fileWork,  \* is the API replacing files of the server?
  harm       \* ghost: kinds of trouble met (Harm)

callers == <<start, stop>>
memory == <<entry, status, closed, adopted>>
watchers == <<watch, burying>>
vars == <<platform, up, used, java, memory, record, callers, watchers, timers,
          fileWork, harm>>

Run == 1..MaxRuns

(* raced       a start registered its run over another one                 *)
(* unrecorded  a live process may have no record that is of use: the       *)
(*             launcher died before it wrote it, could not write it, or    *)
(*             wrote it while the watcher of an older run was still to     *)
(*             remove the file; or a launcher at start could not read it,  *)
(*             or not recognise the process                                *)
(* mistaken    a live adopted process was taken for dead by its watcher    *)
Harm == {"raced", "unrecorded", "mistaken"}

Idle == [at |-> "idle", run |-> 0]

JavaState == {"none", "booting", "serving", "dead"}
Status == {"none", "starting", "running", "stopping", "stopped"}
WatcherState == {"none", "own", "adopted", "finishing", "gone"}
StarterState == [at : {"idle", "asked", "passed", "registered", "spawned"},
                 run : 0..MaxRuns]
StopperState == [at : {"idle", "waiting", "kill", "killed"}, run : 0..MaxRuns]

TypeOK ==
  /\ platform \in {"windows", "unix"}
  /\ up \in BOOLEAN /\ fileWork \in BOOLEAN
  /\ used \in 0..MaxRuns /\ entry \in 0..MaxRuns /\ record \in 0..MaxRuns
  /\ java \in [Run -> JavaState] /\ status \in [Run -> Status]
  /\ closed \subseteq Run /\ adopted \subseteq Run /\ timers \subseteq Run
  /\ start \in [Starter -> StarterState] /\ stop \in [Stopper -> StopperState]
  /\ watch \in [Run -> WatcherState] /\ burying \in [Run -> 0..MaxRuns]
  /\ harm \subseteq Harm

NoRuns(value) == [i \in Run |-> value]

Init ==
  /\ platform \in {"windows", "unix"}
  /\ up = TRUE /\ used = 0
  /\ java = NoRuns("none")
  /\ record = 0
  /\ entry = 0 /\ status = NoRuns("none") /\ closed = {} /\ adopted = {}
  /\ start = [t \in Starter |-> Idle] /\ stop = [t \in Stopper |-> Idle]
  /\ watch = NoRuns("none") /\ burying = NoRuns(0)
  /\ timers = {} /\ fileWork = FALSE
  /\ harm = {}

Alive(i) == i \in Run /\ java[i] \in {"booting", "serving"}

IsRunning == entry # 0 /\ status[entry] \in {"starting", "running"}

-------------------------------------------------------------------------------
(* Starting: StartServer and the network's starts, then Manager.Start.     *)

StartAt(t, label, i) == start' = [start EXCEPT ![t] = [at |-> label, run |-> i]]

(* The server is not running; from here to Begin java and the core are     *)
(* downloaded.  (StartServer looks at the port as well, startAutoMembers   *)
(* does not.)                                                              *)
Ask(t) ==
  /\ up /\ start[t].at = "idle"
  /\ ~IsRunning
  /\ StartAt(t, "asked", 0)
  /\ UNCHANGED <<platform, up, used, java, memory, record, stop, watchers,
                 timers, fileWork, harm>>

(* Preparing failed, or the server is in the table; else the lock is given *)
(* back before the table is written.                                       *)
Begin(t) ==
  /\ start[t].at = "asked"
  /\ \/ StartAt(t, "idle", 0)
     \/ entry = 0 /\ StartAt(t, "passed", 0)
  /\ UNCHANGED <<platform, up, used, java, memory, record, stop, watchers,
                 timers, fileWork, harm>>

(* No command line or no console file; else a new processInfo takes the    *)
(* place in the table.                                                     *)
Register(t) ==
  /\ start[t].at = "passed"
  /\ \/ /\ StartAt(t, "idle", 0)
        /\ UNCHANGED <<used, entry, status, harm>>
     \/ /\ used < MaxRuns
        /\ used' = used + 1
        /\ entry' = used'
        /\ status' = [status EXCEPT ![used'] = "starting"]
        /\ StartAt(t, "registered", used')
        /\ harm' = IF entry = 0 THEN harm ELSE harm \union {"raced"}
  /\ UNCHANGED <<platform, up, java, closed, adopted, record, stop, watchers,
                 timers, fileWork>>

(* cmd.Start: a process, or the place in the table is given up.            *)
Spawn(t) ==
  /\ start[t].at = "registered"
  /\ LET i == start[t].run IN
     \/ /\ java' = [java EXCEPT ![i] = "booting"]
        /\ StartAt(t, "spawned", i) /\ UNCHANGED entry
     \/ entry' = 0 /\ StartAt(t, "idle", 0) /\ UNCHANGED java
  /\ UNCHANGED <<platform, up, used, status, closed, adopted, record, stop,
                 watchers, timers, fileWork, harm>>

(* mutant: the run is not recorded on the disk                             *)
AnnounceOnly(t) ==
  /\ start[t].at = "spawned"
  /\ LET i == start[t].run IN
     /\ status' = [status EXCEPT ![i] = "starting"]
     /\ watch' = [watch EXCEPT ![i] = "own"]
  /\ StartAt(t, "idle", 0)
  /\ UNCHANGED <<platform, up, used, java, entry, closed, adopted, record, stop,
                 burying, timers, fileWork, harm>>

BooksOpen == \E k \in Run : watch[k] = "finishing"

(* writeRuntimeRecord ignores its errors: the file it could not write is   *)
(* as it was, or empty.                                                    *)
Recorded(i) ==
  \/ /\ record' = i
     /\ harm' = IF BooksOpen THEN harm \union {"unrecorded"} ELSE harm
  \/ record' \in {0, record} /\ harm' = harm \union {"unrecorded"}

(* The status, the console, the record, the statistics and the watcher.    *)
Announce(t) ==
  /\ start[t].at = "spawned"
  /\ LET i == start[t].run IN
     /\ status' = [status EXCEPT ![i] = "starting"]
     /\ Recorded(i)
     /\ watch' = [watch EXCEPT ![i] = "own"]
  /\ StartAt(t, "idle", 0)
  /\ UNCHANGED <<platform, up, used, java, entry, closed, adopted, stop,
                 burying, timers, fileWork>>

(* followLogFile and markServerReady: java wrote "Done" and may have ended  *)
(* since.                                                                  *)
Ready(i) ==
  /\ watch[i] = "own" /\ java[i] \in {"serving", "dead"}
  /\ entry = i /\ i \notin closed
  /\ status[i] = "starting"
  /\ status' = [status EXCEPT ![i] = "running"]
  /\ UNCHANGED <<platform, up, used, java, entry, closed, adopted, record,
                 callers, watchers, timers, fileWork, harm>>

-------------------------------------------------------------------------------
(* Stopping.                                                               *)

StopAt(t, label) == stop' = [stop EXCEPT ![t].at = label]

(* Stop: "stopping", then the command on stdin, which may fail and does    *)
(* for an adopted process; a forced stop goes on to the kill.              *)
AskStop(t) ==
  /\ up /\ stop[t].at = "idle"
  /\ entry # 0
  /\ status[entry] \notin {"stopping", "stopped"}
  /\ status' = [status EXCEPT ![entry] = "stopping"]
  /\ \E label \in {"waiting", "kill"} :
       /\ entry \in adopted => label = "kill"
       /\ stop' = [stop EXCEPT ![t] = [at |-> label, run |-> entry]]
  /\ UNCHANGED <<platform, up, used, java, entry, closed, adopted, record,
                 start, watchers, timers, fileWork, harm>>

(* The channel exited woke it.                                             *)
StopWoken(t) ==
  /\ stop[t].at \in {"waiting", "killed"}
  /\ stop[t].run \in closed
  /\ stop' = [stop EXCEPT ![t] = Idle]
  /\ UNCHANGED <<platform, up, used, java, memory, record, start, watchers,
                 timers, fileWork, harm>>

(* 30 seconds passed.                                                      *)
StopWaited(t) ==
  /\ stop[t].at = "waiting"
  /\ StopAt(t, "kill")
  /\ UNCHANGED <<platform, up, used, java, memory, record, start, watchers,
                 timers, fileWork, harm>>

HasProcess == entry # 0 /\ java[entry] # "none"

(* killProcess finds the process by the server's id: taskkill, which may   *)
(* fail, or an interrupt and a timer.                                      *)
Kill(t) ==
  /\ stop[t].at = "kill"
  /\ StopAt(t, "killed")
  /\ \/ ~HasProcess /\ UNCHANGED <<java, timers>>
     \/ /\ HasProcess /\ platform = "windows"
        /\ java' \in {java, [java EXCEPT ![entry] = "dead"]}
        /\ UNCHANGED timers
     \/ /\ HasProcess /\ platform = "unix"
        /\ timers' = timers \union {entry}
        /\ UNCHANGED java
  /\ UNCHANGED <<platform, up, used, memory, record, start, watchers, fileWork,
                 harm>>

(* Three seconds later: nothing when the server is no longer running.      *)
KillTimer(i) ==
  /\ i \in timers
  /\ timers' = timers \ {i}
  /\ java' = IF IsRunning THEN [java EXCEPT ![i] = "dead"] ELSE java
  /\ UNCHANGED <<platform, up, used, memory, record, callers, watchers,
                 fileWork, harm>>

(* mutant: the wait for a killed process has no end                        *)
StopWaitsOn(t) ==
  /\ stop[t].at = "killed" /\ stop[t].run \in closed
  /\ stop' = [stop EXCEPT ![t] = Idle]
  /\ UNCHANGED <<platform, up, used, java, memory, record, start, watchers,
                 timers, fileWork, harm>>

(* Ten seconds after the kill it returns in any case.                      *)
StopGivesUp(t) ==
  /\ stop[t].at = "killed"
  /\ stop' = [stop EXCEPT ![t] = Idle]
  /\ UNCHANGED <<platform, up, used, java, memory, record, start, watchers,
                 timers, fileWork, harm>>

-------------------------------------------------------------------------------
(* Watching: watchProcess and watchAdopted.  Both close the books of       *)
(* whatever run is in the table by then.                                   *)

(* mutant: an adopted process is not polled                                *)
NoticeOwn(i) ==
  /\ watch[i] = "own"
  /\ java[i] = "dead"
  /\ IF entry = 0
       THEN watch' = [watch EXCEPT ![i] = "gone"] /\ UNCHANGED <<memory, burying>>
       ELSE /\ status' = [status EXCEPT ![entry] = "stopped"]
            /\ entry' = 0
            /\ adopted' = adopted \ {entry}
            /\ watch' = [watch EXCEPT ![i] = "finishing"]
            /\ burying' = [burying EXCEPT ![i] = entry]
            /\ UNCHANGED closed
  /\ UNCHANGED <<platform, up, used, java, record, callers, timers, fileWork, harm>>

(* mutant: the run leaves the table after its books are closed             *)
NoticeKeepsEntry(i) ==
  /\ watch[i] \in {"own", "adopted"}
  /\ java[i] = "dead" /\ entry # 0
  /\ watch' = [watch EXCEPT ![i] = "finishing"]
  /\ burying' = [burying EXCEPT ![i] = entry]
  /\ UNCHANGED <<platform, up, used, java, memory, record, callers, timers,
                 fileWork, harm>>

(* mutant: waiting stops are woken while the table still names the run     *)
NoticeEarly(i) ==
  /\ watch[i] \in {"own", "adopted"}
  /\ java[i] = "dead" /\ entry # 0
  /\ closed' = closed \union {entry}
  /\ watch' = [watch EXCEPT ![i] = "finishing"]
  /\ UNCHANGED <<platform, up, used, java, entry, status, adopted, record,
                 callers, burying, timers, fileWork, harm>>

(* The run that is in the table leaves it, stopped or crashed: nothing     *)
(* here tells the two apart.                                               *)
LeavesTable(i) ==
  /\ \/ /\ entry = 0
        /\ watch' = [watch EXCEPT ![i] = "gone"]
        /\ UNCHANGED <<entry, status, adopted, burying>>
     \/ /\ entry # 0
        /\ status' = [status EXCEPT ![entry] = "stopped"]
        /\ entry' = 0
        /\ adopted' = adopted \ {entry}
        /\ watch' = [watch EXCEPT ![i] = "finishing"]
        /\ burying' = [burying EXCEPT ![i] = entry]
  /\ UNCHANGED <<platform, up, used, java, closed, record, callers, timers,
                 fileWork>>

(* The process of run i has ended.                                         *)
Notice(i) ==
  /\ watch[i] \in {"own", "adopted"}
  /\ java[i] = "dead"
  /\ LeavesTable(i)
  /\ UNCHANGED harm

(* snapshotProcess fails for a process that is alive.                      *)
Mistake(i) ==
  /\ watch[i] = "adopted" /\ Alive(i)
  /\ LeavesTable(i)
  /\ harm' = harm \union {"mistaken"}

(* The record (unless its removal fails), the statistics and the players   *)
(* go, and those who wait for the end are woken.                           *)
Bury(i) ==
  /\ watch[i] = "finishing"
  /\ record' \in {0, record}
  /\ closed' = closed \union {burying[i]}
  /\ watch' = [watch EXCEPT ![i] = "gone"]
  /\ burying' = [burying EXCEPT ![i] = 0]
  /\ UNCHANGED <<platform, up, used, java, entry, status, adopted, callers,
                 timers, fileWork, harm>>

-------------------------------------------------------------------------------
(* Work on the server's files that asks for a stopped server: restoring a  *)
(* world, changing the core, renaming the folder.                          *)
BeginFileWork ==
  /\ up /\ ~fileWork
  /\ ~IsRunning
  /\ fileWork' = TRUE
  /\ UNCHANGED <<platform, up, used, java, memory, record, callers, watchers,
                 timers, harm>>

EndFileWork ==
  /\ fileWork
  /\ fileWork' = FALSE
  /\ UNCHANGED <<platform, up, used, java, memory, record, callers, watchers,
                 timers, harm>>

-------------------------------------------------------------------------------
(* The world.                                                              *)

(* java binds its port, which no other process of the server holds.        *)
Bind(i) ==
  /\ java[i] = "booting"
  /\ \A k \in Run : java[k] # "serving"
  /\ java' = [java EXCEPT ![i] = "serving"]
  /\ UNCHANGED <<platform, up, used, memory, record, callers, watchers, timers,
                 fileWork, harm>>

(* java ends: as told, on an interrupt, or by itself.                      *)
End(i) ==
  /\ Alive(i)
  /\ java' = [java EXCEPT ![i] = "dead"]
  /\ UNCHANGED <<platform, up, used, memory, record, callers, watchers, timers,
                 fileWork, harm>>

(* The launcher dies, or is closed; the java processes go on.              *)
Crash ==
  /\ up
  /\ up' = FALSE
  /\ entry' = 0 /\ status' = NoRuns("none") /\ closed' = {} /\ adopted' = {}
  /\ start' = [t \in Starter |-> Idle] /\ stop' = [t \in Stopper |-> Idle]
  /\ watch' = NoRuns("none") /\ burying' = NoRuns(0)
  /\ timers' = {} /\ fileWork' = FALSE
  /\ harm' = IF \E t \in Starter : start[t].at = "spawned"
               THEN harm \union {"unrecorded"} ELSE harm
  /\ UNCHANGED <<platform, used, java, record>>

(* mutant: the record goes with the launcher that read it                  *)
BootForgets ==
  /\ ~up
  /\ up' = TRUE
  /\ record' = 0
  /\ UNCHANGED <<platform, used, java, entry, status, closed, adopted, callers,
                 watchers, timers, fileWork, harm>>

(* AdoptOrphanedServers: the recorded process if it is alive, known by its *)
(* creation time.                                                          *)
Boot ==
  /\ ~up
  /\ up' = TRUE
  /\ Alive(record)
  /\ entry' = record
  /\ status' = [status EXCEPT ![record] = "running"]
  /\ adopted' = {record}
  /\ watch' = [watch EXCEPT ![record] = "adopted"]
  /\ UNCHANGED <<platform, used, java, record, closed, callers, burying, timers,
                 fileWork, harm>>

(* Nothing is taken over: the record is stale and removed, or cannot be    *)
(* read and is skipped; or its live process is not recognised.             *)
BootAlone ==
  /\ ~up
  /\ up' = TRUE
  /\ record' \in {0, record}
  /\ harm' = IF Alive(record) THEN harm \union {"unrecorded"} ELSE harm
  /\ UNCHANGED <<platform, used, java, memory, callers, watchers, timers,
                 fileWork>>

-------------------------------------------------------------------------------
Starting == \E t \in Starter : Begin(t) \/ Register(t) \/ Spawn(t) \/ Announce(t)

Stopping == \E t \in Stopper : StopWoken(t) \/ StopWaited(t) \/ Kill(t)
                               \/ StopGivesUp(t)

Watching == \E i \in Run : Ready(i) \/ Notice(i) \/ Mistake(i) \/ Bury(i)
                            \/ KillTimer(i)

World == (\E i \in Run : Bind(i) \/ End(i)) \/ Crash \/ Boot \/ BootAlone

Next ==
  \/ Starting \/ Stopping \/ Watching \/ World
  \/ \E t \in Starter : Ask(t)
  \/ \E t \in Stopper : AskStop(t)
  \/ BeginFileWork \/ EndFileWork

(* Goroutines run on and clocks tick; nobody has to start, stop or die.    *)
Spec ==
  /\ Init /\ [][Next]_vars
  /\ \A t \in Starter : WF_vars(Begin(t) \/ Register(t) \/ Spawn(t) \/ Announce(t))
  /\ \A t \in Stopper : WF_vars(StopWoken(t) \/ StopWaited(t) \/ Kill(t)
                                \/ StopGivesUp(t))
  /\ \A i \in Run : WF_vars(Notice(i) \/ Bury(i))
-------------------------------------------------------------------------------
(* A java process of the server that is alive while the launcher runs is   *)
(* the one the launcher controls: it shows as running and can be stopped,  *)
(* before and after any restart of the launcher (recover.go:3-17); unless  *)
(* two starts overlapped, a record was lost, or the process was not        *)
(* recognised (recover.go:132-156 and 236-239).                            *)
AliveIsKnown ==
  up /\ harm = {} => \A i \in Run : Alive(i) => entry = i

(* A live process, once announced, is the one the record on the disk       *)
(* names, so a launcher that starts now would find it: no watcher, stop or *)
(* restart takes that record away but in the cases Harm names (a file that *)
(* was not written, recover.go:53-63; a start while an older watcher is on *)
(* its way to process.go:467; a process not recognised, 132-156).          *)
Announced(i) == \A t \in Starter : start[t] # [at |-> "spawned", run |-> i]

AliveIsRecorded ==
  harm = {} => \A i \in Run : Alive(i) /\ Announced(i) => record = i

(* exited wakes a Stop only when the run has left the table and its        *)
(* process is gone (process.go:314-316 and 478-481); unless two starts     *)
(* overlapped or the process was taken for dead.                           *)
WokenAfterTheEnd ==
  \A i \in closed :
    entry # i /\ ({"raced", "mistaken"} \cap harm = {} => ~Alive(i))

(* No channel is closed twice, which would be a panic, whatever runs       *)
(* overlap (process.go:35-38).                                             *)
ClosedOnce ==
  \A i \in Run : watch[i] = "finishing" =>
    /\ burying[i] \in Run \ closed
    /\ \A k \in Run \ {i} : watch[k] = "finishing" => burying[k] # burying[i]

(* A dead process does not stay in the table: no server is stopping, or    *)
(* running, for ever (recover.go:242-245).                                 *)
DeadIsNoticed == \A i \in Run : entry = i /\ java[i] = "dead" ~> entry # i

(* Every Stop returns, however the process behaves.                        *)
StopReturns == \A t \in Stopper : stop[t].at # "idle" ~> stop[t].at = "idle"

(* api.go:1240-1243 says the server must be stopped before a world is      *)
(* restored, and that the check there is the last line of defence: it lets *)
(* the work begin only when no process of the server is alive.             *)
FilesAtRest ==
  [][~fileWork /\ fileWork' /\ harm = {} => \A i \in Run : ~Alive(i)]_vars

(* process.go:384 says an interrupt is followed, three seconds later, by a *)
(* kill if the process did not react.                                      *)
TimerKills ==
  [][\A i \in timers : i \notin timers' /\ up' => ~Alive(i)']_vars
===============================================================================
