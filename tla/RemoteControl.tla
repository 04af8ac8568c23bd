--------------------------- MODULE RemoteControl ---------------------------
(***************************************************************************)
(* A friend steers one game server of the owner.  The friend's launcher    *)
(* (remotehost/client.go) sends commands over a direct encrypted channel,  *)
(* or through the VPS when it has none; the owner's launcher               *)
(* (remotehost/host.go) recognises repeated commands, asks its own book of *)
(* rights (remotectl/store.go), acts, and streams the server's console to  *)
(* the sessions that were opened.                                          *)
(*                                                                         *)
(* Cryptography, names and texts are left out (a console line without a    *)
(* printable character, which sanitizeLine drops, is no line here).  A     *)
(* request is a model value, a console line is the place at which it was   *)
(* printed, counted over all buffers the console ever had, and time is     *)
(* counted in units that the windows of the code are multiples of.  The    *)
(* VPS is not trusted to deliver: it may lose, delay, repeat and reorder   *)
(* what it relays.                                                         *)
(***************************************************************************)
EXTENDS Integers, FiniteSets, Sequences, SequencesExt, FiniteSetsExt

CONSTANTS
    Req,          \* the requests the friend makes
    Op,           \* [Req -> {"start", "stop", "open", "exec", "close"}]
    Sid,          \* [Req -> Req]: the console session a request is about
    StopVerbs,    \* the "exec" requests whose text stops the server
    Channels,     \* direct channels, numbered in the order the friend opens them
    Grants,       \* the sets of rights the owner may give
    Limits,       \* bounds on time, lines, changes, channels and requests, see below
    Window,       \* tsWindow: age at which a command is too old
    ReplayTTL,    \* replayTTL: age at which a seen command is forgotten
    SeenCap,      \* 2048: size at which all seen commands are forgotten
    Drift,        \* how far the clocks of the two launchers are apart
    StaleSkew,    \* staleSkewMs: how much older than the friendship a grant may be
    SessionMax,   \* sessionMax: lifetime of a console session
    MaxSessions,  \* maxSessionsPerFriend
    MaxPending,   \* maxPending: lines kept for a session between two flushes
    Backlog       \* backlogLines: old lines a new session begins with

Rights == {"start", "stop", "console", "exec"}
Relay == 0
Routes == Channels \cup {Relay}
Times == Nat \ {0}
Sids == {r \in Req : Op[r] = "open"}

ASSUME RequestsAreGiven ==
    /\ IsFiniteSet(Req)
    /\ Op \in [Req -> {"start", "stop", "open", "exec", "close"}]
    /\ Sid \in [Req -> Req]
    /\ \A r \in Req : Op[r] = "open" => Sid[r] = r
    /\ \A r \in Req : Op[r] \in {"exec", "close"} => Op[Sid[r]] = "open"
    /\ StopVerbs \subseteq Req
    /\ Relay \notin Channels

ASSUME BoundsAreNumbers ==
    /\ {Window, ReplayTTL, SeenCap, Drift, StaleSkew, SessionMax, MaxSessions,
        MaxPending, Backlog} \subseteq Nat
    /\ Channels \subseteq Nat
    /\ Grants \subseteq SUBSET Rights

\* A behaviour keeps to one of these: a run covers the union of small
\* instances, each of which lets another part of the system move.
Limit == [clock : Nat, lines : Nat, fails : BOOLEAN, changes : Nat,
          channels : SUBSET Channels, reqs : SUBSET Req]
ASSUME LimitsAreLimits == Limits \subseteq Limit

\* A command is remembered for as long as a copy of it can pass as fresh.
ASSUME MemoryOutlivesFreshness == ReplayTTL >= 2 * Window

\* The friends do not send so much that the memory of commands overflows.
ASSUME MemoryIsLargeEnough == Cardinality(Req) <= SeenCap

VARIABLES
    limit,        \* the bounds of this behaviour
    clock,
    \* the owner's list of friends and book of rights
    isFriend, since, rights, added, paused,
    purging,      \* Remove has left the list of friends, RemoveFriend is to come
    ending,       \* EndAll is to come after a change of the rights
    changes,      \* changes so far (limit.changes)
    \* commands on their way
    sent,         \* [Req -> 0 or the friend's time in the envelope]
    relayed,      \* requests handed to the VPS
    toHost,       \* [Channels -> Seq(Req)]: commands in a direct channel
    \* the two ends of the direct channels
    dialing,      \* channels whose handshake has begun
    current,      \* Client.chs: the channel commands are sent over, or Relay
    reading,      \* channels whose UseChannel loop runs
    closed,       \* channels the friend's launcher has closed
    serving,      \* channels whose ServeChannel loop runs
    \* the owner's Host
    seen,         \* Host.seenIDs: [Req -> time, 0 when not remembered]
    task,         \* [Req -> stage of the handler]
    via,          \* [Req -> route of the handler's answers]
    sess,         \* Host.sessions: [Sids -> session or NoSession]
    held,         \* [Flushers -> what it took from a session and has not sent]
    \* the console of the server and what the friend sees of it
    log,          \* number of lines printed so far
    base,         \* those of them that went to earlier buffers
    number,       \* ConsoleLine.ID of each line: its number in its own buffer
    due,          \* lines in the buffer whose OnLine call is still to come
    view,         \* Client.sess: [Sids -> "none", "on" or "ended"]
    shown,        \* [Sids -> lines shown to the friend, in order]
    \* ghosts
    acted,        \* [Req -> how often the request took effect]
    givenNow,     \* the owner gave the grant in the present friendship
    mark,         \* number of lines when the console was last taken from the friend
    lost          \* [Sids -> lines the friend does not get for a reason: too old
                  \* for the session, dropped from a full queue, too long for a
                  \* chunk, lost in sending, or taken for old by their number]

rightVars == <<isFriend, since, rights, added, paused, purging, ending, changes, givenNow, mark>>
wireVars == <<sent, relayed, toHost>>
chanVars == <<dialing, current, reading, closed, serving>>
hostVars == <<seen, task, via, acted>>
logVars == <<log, base, number>>
streamVars == <<sess, held, logVars, due, view, shown, lost>>
vars == <<limit, clock, rightVars, wireVars, chanVars, hostVars, streamVars>>

Lines == Nat \ {0}
Stages == {"none", "seen", "allowed", "flush", "done"}
Session == [tag : Routes, expires : Nat, pending : Seq(Lines)]
NoSession == [tag |-> Relay, expires |-> 0, pending |-> <<>>]
Live(s) == sess[s] # NoSession
Flushers == {"ticker"} \cup Sids
Batch == [sid : Sids, tag : Routes, lines : Seq(Lines) \ {<<>>}]
Nothing == [sid |-> "none", tag |-> Relay, lines |-> <<>>]

Init ==
    /\ limit \in Limits
    /\ clock = 1
    /\ isFriend = TRUE /\ since = 1 /\ givenNow = TRUE
    /\ rights \in Grants /\ added = 1 /\ paused = FALSE
    /\ purging = FALSE /\ ending = FALSE /\ changes = 0
    /\ sent = [r \in Req |-> 0]
    /\ relayed = {}
    /\ toHost = [g \in Channels |-> <<>>]
    /\ dialing = {} /\ current = Relay
    /\ reading = {} /\ closed = {} /\ serving = {}
    /\ seen = [r \in Req |-> 0]
    /\ task = [r \in Req |-> "none"]
    /\ via = [r \in Req |-> Relay]
    /\ acted = [r \in Req |-> 0]
    /\ sess = [s \in Sids |-> NoSession]
    /\ held = [p \in Flushers |-> Nothing]
    /\ log = 0 /\ base = 0 /\ number = <<>> /\ due = {}
    /\ view = [s \in Sids |-> "none"]
    /\ shown = [s \in Sids |-> <<>>]
    /\ lost = [s \in Sids |-> {}]
    /\ mark = 0

Tick == /\ clock < limit.clock
        /\ clock' = clock + 1
        /\ UNCHANGED <<limit, rightVars, wireVars, chanVars, hostVars, streamVars>>

---------------------------------------------------------------------------
(* The owner's book of rights                                              *)

Stale == since > added + StaleSkew

\* The friend has, or should have, no console: the owner has paused, ended the
\* friendship, or given no such right in it, the tolerance for the clocks apart.
Deprived == \/ paused \/ ~isFriend \/ "console" \notin rights
            \/ ~givenNow /\ since > added + StaleSkew

Mark == mark' = IF Deprived' /\ ~Deprived THEN log ELSE mark

\* SetGrantFull: an existing grant keeps the time it was first given at, a
\* grant without start, stop and console is no grant.
SetGrant(R) ==
    /\ changes < limit.changes /\ isFriend
    /\ LET new == IF "console" \in R THEN R ELSE R \ {"exec"}
       IN /\ rights' = new
          /\ added' = IF rights = {} THEN clock ELSE added
          /\ ending' = (ending \/ new = {} \/ paused)
          /\ givenNow' = TRUE
    /\ changes' = changes + 1
    /\ UNCHANGED <<limit, clock, isFriend, since, paused, purging, wireVars, chanVars, hostVars, streamVars>>
    /\ Mark

SetPaused(v) ==
    /\ changes < limit.changes /\ paused # v
    /\ paused' = v
    /\ ending' = (ending \/ v)
    /\ changes' = changes + 1
    /\ UNCHANGED <<limit, clock, isFriend, since, rights, added, purging, givenNow,
                   wireVars, chanVars, hostVars, streamVars>>
    /\ Mark

\* The owner removes the friend: the list changes first, the rights go after.
RemoveFriend ==
    /\ changes < limit.changes /\ isFriend
    /\ isFriend' = FALSE
    /\ purging' = TRUE
    /\ changes' = changes + 1
    /\ UNCHANGED <<limit, clock, since, rights, added, paused, ending, givenNow,
                   wireVars, chanVars, hostVars, streamVars>>
    /\ Mark

PurgeRights ==
    /\ purging
    /\ purging' = FALSE
    /\ rights' = {}
    /\ ending' = (ending \/ rights # {})
    /\ UNCHANGED <<limit, clock, isFriend, since, added, paused, changes, givenNow,
                   wireVars, chanVars, hostVars, streamVars>>
    /\ Mark

\* The other side ends the friendship: only the list is told.
FriendLeaves ==
    /\ changes < limit.changes /\ isFriend
    /\ isFriend' = FALSE
    /\ changes' = changes + 1
    /\ UNCHANGED <<limit, clock, since, rights, added, paused, purging, ending, givenNow,
                   wireVars, chanVars, hostVars, streamVars>>
    /\ Mark

Befriend ==
    /\ changes < limit.changes /\ ~isFriend
    /\ isFriend' = TRUE
    /\ since' = clock
    /\ givenNow' = FALSE
    /\ changes' = changes + 1
    /\ UNCHANGED <<limit, clock, rights, added, paused, purging, ending,
                   wireVars, chanVars, hostVars, streamVars>>
    /\ Mark

Needs(op) == CASE op = "start" -> {"start"}
               [] op = "stop" -> {"stop"}
               [] op = "exec" -> {"console", "exec"}
               [] OTHER -> {"console"}

MayUse(op) == /\ ~paused /\ isFriend /\ rights # {} /\ ~Stale
              /\ Needs(op) \subseteq rights

\* Authorize deletes a grant that is older than the friendship.
FindsStale == ~paused /\ isFriend /\ rights # {} /\ Stale

HasConsoleOfOld == ~paused /\ isFriend /\ "console" \in rights   \* mutant: whenever it was given
HasConsole == ~paused /\ isFriend /\ "console" \in rights /\ ~Stale

---------------------------------------------------------------------------
(* The direct channels                                                     *)

\* remoteConnectSecure, begun when the friend has no channel ...
Dial(g) ==
    /\ g \in limit.channels /\ current = Relay /\ g \notin dialing
    /\ \A h \in limit.channels : h < g => h \in dialing
    /\ dialing' = dialing \cup {g}
    /\ UNCHANGED <<limit, clock, rightVars, wireVars, current, reading, closed, serving, hostVars, streamVars>>

\* ... and completed: UseChannel closes the channel it replaces.
Connect(g) ==
    /\ g \in dialing \ (reading \cup closed)
    /\ closed' = closed \cup ({current} \ {Relay})
    /\ current' = g
    /\ reading' = reading \cup {g}
    /\ serving' = serving \cup {g}
    /\ UNCHANGED <<limit, clock, rightVars, wireVars, dialing, hostVars, streamVars>>

\* mutant: the table of channels is cleared, whichever channel is in it
ReadingEndsAll(g) ==
    /\ g \in reading
    /\ reading' = reading \ {g}
    /\ closed' = closed \cup {g}
    /\ current' = Relay
    /\ UNCHANGED <<limit, clock, rightVars, wireVars, dialing, serving, hostVars, streamVars>>

\* The friend's loop ends: the channel failed, was idle or was closed.
ReadingEnds(g) ==
    /\ g \in reading
    /\ reading' = reading \ {g}
    /\ closed' = closed \cup {g}
    /\ current' = IF current = g THEN Relay ELSE current
    /\ UNCHANGED <<limit, clock, rightVars, wireVars, dialing, serving, hostVars, streamVars>>

IdleOrNot(g) == g \in serving   \* mutant: every command is handled in the background

\* The loop handles one command at a time.
Idle(g) == \A r \in Req : via[r] = g => task[r] \in {"none", "done"}

\* The owner's loop ends between two commands and drops the sessions of the channel.
ServingEnds(g) ==
    /\ g \in serving
    /\ Idle(g)
    /\ serving' = serving \ {g}
    /\ toHost' = [toHost EXCEPT ![g] = <<>>]
    /\ sess' = [s \in Sids |-> IF sess[s].tag = g THEN NoSession ELSE sess[s]]
    /\ UNCHANGED <<limit, clock, rightVars, sent, relayed, dialing, current, reading, closed,
                   hostVars, held, logVars, due, view, shown, lost>>

---------------------------------------------------------------------------
(* The friend sends a command                                              *)

Age(r) == IF clock < sent[r] THEN sent[r] - clock ELSE clock - sent[r]
Fresh(r) == sent[r] # 0 /\ Age(r) <= Window

Stamp(r) == \E t \in (clock - Drift)..(clock + Drift) :
                t > 0 /\ sent' = [sent EXCEPT ![r] = t]

\* The session is registered before the command leaves, and forgotten before
\* its closing leaves.
MayAsk(r) == /\ r \in limit.reqs /\ sent[r] = 0
             /\ Op[r] = "open" => view[r] = "none"
             /\ Op[r] \in {"exec", "close"} => view[Sid[r]] = "on"

ViewAfterSend(r) == CASE Op[r] = "open" -> [view EXCEPT ![r] = "on"]
                      [] Op[r] = "close" -> [view EXCEPT ![Sid[r]] = "ended"]
                      [] OTHER -> view

\* Over the channel; nobody reads it any more when the owner's loop is gone.
SendDirect(r) ==
    /\ MayAsk(r) /\ current # Relay
    /\ Stamp(r)
    /\ toHost' = IF current \in serving
                 THEN [toHost EXCEPT ![current] = Append(@, r)] ELSE toHost
    /\ view' = ViewAfterSend(r)
    /\ UNCHANGED <<limit, clock, rightVars, relayed, chanVars, hostVars, sess, held, logVars, due, shown, lost>>

\* Without a channel, or when it fails: then it is given up for the VPS.
SendRelayed(r) ==
    /\ MayAsk(r)
    /\ Stamp(r)
    /\ current' = Relay
    /\ closed' = closed \cup ({current} \ {Relay})
    /\ \/ relayed' = relayed \cup {r} /\ view' = ViewAfterSend(r)
       \/ relayed' = relayed /\ view' = [ViewAfterSend(r) EXCEPT ![Sid[r]] =
                                            IF Op[r] = "open" THEN "ended" ELSE @]
    /\ UNCHANGED <<limit, clock, rightVars, toHost, dialing, reading, serving, hostVars,
                   sess, held, logVars, due, shown, lost>>

---------------------------------------------------------------------------
(* The owner's launcher handles a command                                  *)

\* Frames of the VPS may come again; a channel gives each frame once, in order.
Arrives(r, v) == \/ v = Relay /\ r \in relayed
                 \/ v \in serving /\ toHost[v] # <<>> /\ Head(toHost[v]) = r /\ Idle(v)

\* mutant: a command is remembered as long as it is fresh by its own clock
KeptFresh == [q \in Req |-> IF seen[q] # 0 /\ clock - seen[q] > Window THEN 0 ELSE seen[q]]

Kept == [q \in Req |-> IF seen[q] # 0 /\ clock - seen[q] > ReplayTTL THEN 0 ELSE seen[q]]
Room == Cardinality({q \in Req : Kept[q] # 0}) <= SeenCap

Receive(r, v) ==
    /\ Arrives(r, v) /\ Fresh(r)
    /\ IF Kept[r] # 0
       THEN seen' = Kept /\ UNCHANGED <<task, via>>
       ELSE /\ seen' = [q \in Req |-> IF q = r THEN clock ELSE IF Room THEN Kept[q] ELSE 0]
            /\ task' = [task EXCEPT ![r] = "seen"]
            /\ via' = [via EXCEPT ![r] = v]
    /\ toHost' = IF v = Relay THEN toHost ELSE [toHost EXCEPT ![v] = Tail(@)]
    /\ UNCHANGED <<limit, clock, rightVars, sent, relayed, chanVars, acted, streamVars>>

\* The answer may be lost; a refused "open" ends the session on the friend's side.
Answer(r, ok) == \/ view' = view
                 \/ /\ ~ok /\ Op[r] = "open" /\ view[r] = "on"
                    /\ via[r] \in reading \cup {Relay}
                    /\ view' = [view EXCEPT ![r] = "ended"]

Acts(r) == acted' = [acted EXCEPT ![r] = @ + 1]
Enters(r, from, to) == task[r] = from /\ task' = [task EXCEPT ![r] = to]

ForgetStale == /\ rights' = IF FindsStale THEN {} ELSE rights
               /\ UNCHANGED <<isFriend, since, added, paused, purging, ending, changes, givenNow>>
               /\ Mark

\* Even a permitted request may be refused: the rates are limited.
Authorize(r) ==
    /\ \/ MayUse(Op[r]) /\ Enters(r, "seen", "allowed") /\ view' = view
       \/ Enters(r, "seen", "done") /\ Answer(r, FALSE)
    /\ ForgetStale
    /\ UNCHANGED <<limit, clock, wireVars, chanVars, seen, via, acted, sess, held, logVars, due, shown, lost>>

\* doStart, doStop: the state of the server and its players may forbid it.
StartOrStop(r) ==
    /\ Op[r] \in {"start", "stop"}
    /\ Enters(r, "allowed", "done")
    /\ Acts(r) \/ UNCHANGED acted
    /\ UNCHANGED <<limit, clock, rightVars, wireVars, chanVars, seen, via, streamVars>>

Min2(m, n) == IF m < n THEN m ELSE n
LastOf(k) == [i \in 1..k |-> i + log - k]
LinesFromZero == [i \in 1..Min2(log - base, Backlog) |-> i - 1]   \* mutant
LinesButNewest == [i \in 1..(IF log = base THEN 0 ELSE log - base - 1) |-> base + i]  \* mutant

\* Tail of the present buffer.
LastLines == LastOf(Min2(log - base, Backlog))

Full == Cardinality({s \in Sids : Live(s)}) >= MaxSessions

OpenConsole(r) ==
    /\ Op[r] = "open"
    /\ IF ~Live(r) /\ Full
       THEN Enters(r, "allowed", "done") /\ Answer(r, FALSE) /\ UNCHANGED <<sess, acted, lost>>
       ELSE /\ Enters(r, "allowed", "flush") /\ Answer(r, TRUE) /\ Acts(r)
            /\ sess' = [sess EXCEPT ![r] = [tag |-> via[r], expires |-> clock + SessionMax,
                                            pending |-> LastLines]]
            /\ lost' = [lost EXCEPT ![r] = @ \cup 1..(log - Len(LastLines))]
    /\ UNCHANGED <<limit, clock, rightVars, wireVars, chanVars, seen, via, held, logVars, due, shown>>

\* A text that stops the server needs the right to stop it as well.
Execute(r) ==
    LET s == Sid[r]
        runs == Live(s) /\ clock < sess[s].expires
        stops == runs /\ r \in StopVerbs
    IN /\ Op[r] = "exec"
       /\ Enters(r, "allowed", "done")
       /\ \/ runs /\ (stops => MayUse("stop")) /\ Acts(r)
          \/ UNCHANGED acted
       /\ IF stops THEN ForgetStale ELSE UNCHANGED rightVars
       /\ UNCHANGED <<limit, clock, wireVars, chanVars, seen, via, streamVars>>

CloseConsole(r) ==
    /\ Op[r] = "close"
    /\ Enters(r, "allowed", "done") /\ Acts(r)
    /\ sess' = [sess EXCEPT ![Sid[r]] = NoSession]
    /\ UNCHANGED <<limit, clock, rightVars, wireVars, chanVars, seen, via, held, logVars, due, view, shown, lost>>

Handle(r) == Authorize(r) \/ StartOrStop(r) \/ OpenConsole(r) \/ Execute(r) \/ CloseConsole(r)

---------------------------------------------------------------------------
(* The console stream                                                      *)

\* A line goes into the buffer under the buffer's lock and to OnLine after it.
PrintLine ==
    /\ log < limit.lines
    /\ log' = log + 1
    /\ number' = Append(number, log + 1 - base)
    /\ due' = due \cup {log + 1}
    /\ UNCHANGED <<limit, clock, rightVars, wireVars, chanVars, hostVars, base, sess, held, view, shown, lost>>

\* A start of the server fails at cmd.Start and takes the buffer with it: the
\* numbers begin at 1 again, the sessions of the Host go on.
StartFails ==
    /\ limit.fails
    /\ base' = log
    /\ UNCHANGED <<limit, clock, rightVars, wireVars, chanVars, hostVars, log, number,
                   sess, held, due, view, shown, lost>>

Overflow(s) == Live(s) /\ Len(sess[s].pending) >= MaxPending

OnLine(n) ==
    /\ n \in due
    /\ due' = due \ {n}
    /\ sess' = [s \in Sids |->
                  IF ~Live(s) THEN sess[s]
                  ELSE [sess[s] EXCEPT !.pending =
                          IF Overflow(s) THEN SubSeq(Append(@, n), Len(@) + 2 - MaxPending, Len(@) + 1)
                          ELSE Append(@, n)]]
    /\ lost' = [s \in Sids |->
                  IF Overflow(s)
                  THEN lost[s] \cup ToSet(SubSeq(Append(sess[s].pending, n), 1,
                                                 Len(sess[s].pending) + 1 - MaxPending))
                  ELSE lost[s]]
    /\ UNCHANGED <<limit, clock, rightVars, wireVars, chanVars, hostVars, held, logVars, view, shown>>

MayFlush(p) == held[p] = Nothing /\ (p \in Sids => task[p] = "flush")

\* The friend is told that the session is over, unless the news is lost.
TellEnd(ends) == \E told \in SUBSET {s \in ends : view[s] = "on"} :
                    view' = [s \in Sids |-> IF s \in told THEN "ended" ELSE view[s]]

\* flushOne ends a session whose time or right is over ...
OverInTime(s) == clock >= sess[s].expires   \* mutant: the right is not asked for again
Over(s) == ~HasConsole \/ clock >= sess[s].expires

Expel(p, s) ==
    /\ MayFlush(p) /\ Live(s)
    /\ Over(s)
    /\ sess' = [sess EXCEPT ![s] = NoSession]
    /\ TellEnd({s})
    /\ UNCHANGED <<limit, clock, rightVars, wireVars, chanVars, hostVars, held, logVars, due, shown, lost>>

\* ... takes lines from another under the lock of the Host, in chunks, without
\* those that fit into no chunk (here a row of them, from i + 1 to j) ...
Take(p, s) ==
    /\ MayFlush(p) /\ Live(s)
    /\ ~Over(s)
    /\ \E n \in 1..Len(sess[s].pending) : \E j \in 0..n : \E i \in 0..j :
         LET all == sess[s].pending
             fit == SubSeq(all, 1, i) \o SubSeq(all, j + 1, n)
         IN /\ i = j => j = 0
            /\ held' = IF fit = <<>> THEN held
                       ELSE [held EXCEPT ![p] = [sid |-> s, tag |-> sess[s].tag, lines |-> fit]]
            /\ lost' = [lost EXCEPT ![s] = @ \cup {all[k] : k \in (i + 1)..j}]
            /\ sess' = [sess EXCEPT ![s].pending = SubSeq(@, n + 1, Len(@))]
    /\ UNCHANGED <<limit, clock, rightVars, wireVars, chanVars, hostVars, logVars, due, view, shown>>

\* Client.applyOut shows only lines whose number is above that of the last one
\* it has shown; after a new buffer it takes new lines for old ones.
NotBefore(s, n) == shown[s] = <<>> \/ number[n] >= number[Last(shown[s])]   \* mutant: off by one
Newer(s, n) == shown[s] = <<>> \/ number[n] > number[Last(shown[s])]
TakenForOld(s, n) == view[s] = "on" /\ ~Newer(s, n) /\ n > Last(shown[s])

\* ... and sends them without the lock, chunk by chunk (here: line by line).  A
\* chunk may be lost on its way; when sending fails the rest is given up.
Put(p) ==
    LET b == held[p]
        s == b.sid
        n == Head(b.lines)
    IN /\ b # Nothing
       /\ \/ /\ b.tag \in reading \cup {Relay}
             /\ shown' = IF view[s] = "on" /\ Newer(s, n) THEN [shown EXCEPT ![s] = Append(@, n)] ELSE shown
             /\ lost' = IF TakenForOld(s, n) THEN [lost EXCEPT ![s] = @ \cup {n}] ELSE lost
             /\ held' = [held EXCEPT ![p] = IF Tail(b.lines) = <<>> THEN Nothing
                                            ELSE [b EXCEPT !.lines = Tail(@)]]
          \/ \E gone \in {{n}, ToSet(b.lines)} :
             /\ lost' = [lost EXCEPT ![s] = @ \cup gone]
             /\ shown' = shown
             /\ held' = [held EXCEPT ![p] = IF gone = ToSet(b.lines) THEN Nothing
                                            ELSE [b EXCEPT !.lines = Tail(@)]]
       /\ UNCHANGED <<limit, clock, rightVars, wireVars, chanVars, hostVars, sess, logVars, due, view>>

FlushDone(r) ==
    /\ held[r] = Nothing
    /\ Enters(r, "flush", "done")
    /\ UNCHANGED <<limit, clock, rightVars, wireVars, chanVars, seen, via, acted, streamVars>>

\* Host.EndAll, after a pause or when nothing is shared any more.
EndAll ==
    /\ ending
    /\ ending' = FALSE
    /\ sess' = [s \in Sids |-> NoSession]
    /\ TellEnd({s \in Sids : Live(s)})
    /\ UNCHANGED <<limit, clock, isFriend, since, rights, added, paused, purging, changes, givenNow, mark,
                   wireVars, chanVars, hostVars, held, logVars, due, shown, lost>>

\* The VPS ends a session it relays; each side may miss the news.
RelayEnds(s) ==
    /\ s \in relayed
    /\ \/ sess' = [sess EXCEPT ![s] = NoSession] /\ view' = view
       \/ sess' = sess /\ view[s] = "on" /\ view' = [view EXCEPT ![s] = "ended"]
    /\ UNCHANGED <<limit, clock, rightVars, wireVars, chanVars, hostVars, held, logVars, due, shown, lost>>

---------------------------------------------------------------------------
Owner == \/ \E R \in Grants : SetGrant(R)
         \/ \E v \in BOOLEAN : SetPaused(v)
         \/ RemoveFriend \/ PurgeRights \/ FriendLeaves \/ Befriend \/ EndAll

Wire == \/ \E g \in Channels : Dial(g) \/ Connect(g) \/ ReadingEnds(g) \/ ServingEnds(g)
        \/ \E r \in Req : SendDirect(r) \/ SendRelayed(r) \/ \E v \in Routes : Receive(r, v)

Stream == \/ PrintLine \/ StartFails \/ \E n \in due : OnLine(n)
          \/ \E p \in Flushers : Put(p) \/ \E s \in Sids : Expel(p, s) \/ Take(p, s)
          \/ \E s \in Sids : RelayEnds(s) \/ FlushDone(s)

Next == Tick \/ Owner \/ Wire \/ (\E r \in Req : Handle(r)) \/ Stream

\* The ticker of Flush always comes again, and its sending returns.
Ticker == Put("ticker") \/ \E s \in Sids : Expel("ticker", s) \/ Take("ticker", s)

Spec == Init /\ [][Next]_vars /\ WF_vars(Ticker)

---------------------------------------------------------------------------
(* Properties                                                              *)

\* The shape of the state.
TypeOK ==
    /\ limit \in Limits /\ clock \in Times
    /\ isFriend \in BOOLEAN /\ since \in Times /\ givenNow \in BOOLEAN
    /\ rights \in SUBSET Rights /\ added \in Times
    /\ paused \in BOOLEAN /\ purging \in BOOLEAN /\ ending \in BOOLEAN
    /\ changes \in Nat
    /\ sent \in [Req -> Nat]
    /\ relayed \in SUBSET Req
    /\ toHost \in [Channels -> Seq(Req)]
    /\ current \in Routes
    /\ dialing \in SUBSET Channels /\ reading \in SUBSET Channels
    /\ closed \in SUBSET Channels /\ serving \in SUBSET Channels
    /\ seen \in [Req -> Nat]
    /\ task \in [Req -> Stages] /\ via \in [Req -> Routes]
    /\ acted \in [Req -> Nat]
    /\ sess \in [Sids -> [tag : Routes, expires : Nat, pending : Seq(Lines)]]
    /\ held \in [Flushers -> Batch \cup {Nothing}]
    /\ mark \in Nat /\ log \in Nat /\ base \in 0..log /\ due \in SUBSET Lines
    /\ number \in Seq(Lines) /\ Len(number) = log
    /\ view \in [Sids -> {"none", "on", "ended"}]
    /\ shown \in [Sids -> Seq(Lines)]
    /\ lost \in [Sids -> SUBSET Lines]

\* A command takes effect once, however often the VPS repeats it and although
\* the memory of commands forgets (Host.seen: replayTTL against tsWindow).
ActsOnce == \A r \in Req : acted[r] <= 1

\* No session of the Host outlives the channel it was opened over: what
\* ServeChannel drops at its end is all there is.
NoOrphanSession == \A s \in Sids : sess[s].tag \in serving \cup {Relay}

\* A channel the friend has neither closed nor lost is the one that is used:
\* the end of an older loop never takes it out of the table (dropChannel).
ChannelKept == \A g \in reading \ closed : current = g

\* The friend sees the lines in the order of their numbers, so none twice and
\* those of one buffer as they were printed, although the backlog and OnLine
\* may both bring the same line.
ShownInOrder == \A s \in Sids : \A i, j \in 1..Len(shown[s]) :
                    i < j => number[shown[s][i]] < number[shown[s][j]]

\* No line falls between the backlog of doOpen and OnLine: a line printed
\* since the session began is on its way, was lost for one of the reasons
\* named at "lost", or was shown or passed over by a later one.
PassedBy(s, n) == \E i \in 1..Len(shown[s]) : n <= shown[s][i]
NoGap == \A s \in Sids : Live(s) =>
    \A n \in 1..log :
        \/ n \in due \cup ToSet(sess[s].pending) \cup lost[s]
        \/ \E p \in Flushers : held[p].sid = s /\ n \in ToSet(held[p].lines)
        \/ PassedBy(s, n)
        \/ view[s] # "on"

\* A line printed after the console was taken from the friend is not sent,
\* whatever handlers and flushes were on their way, and an earlier friendship
\* does not help (flushOne, HasConsole, Grant.Added against Friend.Since).
NothingAfterLoss == Deprived =>
    /\ \A s \in Sids : \A i \in 1..Len(shown[s]) : shown[s][i] <= mark
    /\ \A p \in Flushers : \A i \in 1..Len(held[p].lines) : held[p].lines[i] <= mark

\* A console whose right is gone is closed by the next rounds of Flush,
\* whatever became of the handlers that were on their way.
ConsoleCloses == \A s \in Sids : (Live(s) /\ ~HasConsole) ~> (~Live(s) \/ HasConsole)
===========================================================================
