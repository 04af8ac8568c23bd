------------------------ MODULE RemoteControl_proofs ------------------------
(***************************************************************************)
(* Theorems of RemoteControl, for every set of requests, channels, grants  *)
(* and limits.                                                             *)
(***************************************************************************)
EXTENDS RemoteControl, SequenceTheorems, FiniteSetTheorems, TLAPS

(* The types, one group of variables each.                                 *)
FlagsOK == /\ isFriend \in BOOLEAN /\ givenNow \in BOOLEAN
           /\ paused \in BOOLEAN /\ purging \in BOOLEAN /\ ending \in BOOLEAN

RightsOK == /\ FlagsOK
            /\ rights \in SUBSET Rights /\ since \in Times /\ added \in Times
            /\ changes \in Nat /\ mark \in Nat

WireOK == /\ sent \in [Req -> Nat]
          /\ relayed \in SUBSET Req
          /\ toHost \in [Channels -> Seq(Req)]

ChannelsOK == /\ current \in Routes
              /\ dialing \in SUBSET Channels /\ reading \in SUBSET Channels
              /\ closed \in SUBSET Channels /\ serving \in SUBSET Channels

HostOK == /\ seen \in [Req -> Nat]
          /\ task \in [Req -> Stages] /\ via \in [Req -> Routes]
          /\ acted \in [Req -> Nat]

StreamOK == /\ sess \in [Sids -> Session]
            /\ held \in [Flushers -> Batch \cup {Nothing}]
            /\ log \in Nat /\ base \in 0..log /\ due \in SUBSET Lines
            /\ number \in Seq(Lines) /\ Len(number) = log
            /\ view \in [Sids -> {"none", "on", "ended"}]
            /\ shown \in [Sids -> Seq(Lines)]
            /\ lost \in [Sids -> SUBSET Lines]

LEMMA TypeParts == TypeOK <=> /\ limit \in Limits /\ clock \in Times
                              /\ RightsOK /\ WireOK /\ ChannelsOK /\ HostOK /\ StreamOK
  BY DEF TypeOK, RightsOK, FlagsOK, WireOK, ChannelsOK, HostOK, StreamOK, Session
-----------------------------------------------------------------------------
(* Who moves what: every step is quiet on a group of variables or is one   *)
(* of the few actions that are not.                                        *)
OwnerMoves == \/ \E R \in Grants : SetGrant(R)
              \/ \E v \in BOOLEAN : SetPaused(v)
              \/ RemoveFriend \/ PurgeRights \/ FriendLeaves \/ Befriend

LEMMA RightsMove ==
  ASSUME [Next]_vars
  PROVE  \/ UNCHANGED rightVars
         \/ OwnerMoves /\ UNCHANGED <<limit, clock, wireVars, chanVars, hostVars, streamVars>>
         \/ EndAll
         \/ \E r \in Req : Authorize(r) \/ Execute(r)
<1>1. CASE UNCHANGED vars  BY <1>1 DEF vars
<1>2. CASE Tick            BY <1>2 DEF Tick
<1>3. CASE Owner
  BY <1>3 DEF Owner, OwnerMoves, SetGrant, SetPaused, RemoveFriend, PurgeRights,
              FriendLeaves, Befriend
<1>4. CASE Wire
  BY <1>4 DEF Wire, Dial, Connect, ReadingEnds, ServingEnds, SendDirect, SendRelayed, Receive
<1>5. CASE \E r \in Req : Handle(r)
  BY <1>5 DEF Handle, StartOrStop, OpenConsole, CloseConsole
<1>6. CASE Stream
  BY <1>6 DEF Stream, PrintLine, StartFails, OnLine, Put, Expel, Take, RelayEnds, FlushDone
<1> QED BY <1>1, <1>2, <1>3, <1>4, <1>5, <1>6 DEF Next

LEMMA WireMove ==
  ASSUME [Next]_vars
  PROVE  \/ UNCHANGED wireVars
         \/ \E g \in Channels : ServingEnds(g)
         \/ \E r \in Req : SendDirect(r) \/ SendRelayed(r) \/ \E v \in Routes : Receive(r, v)
<1>1. CASE UNCHANGED vars  BY <1>1 DEF vars
<1>2. CASE Tick            BY <1>2 DEF Tick
<1>3. CASE Owner
  BY <1>3 DEF Owner, SetGrant, SetPaused, RemoveFriend, PurgeRights,
              FriendLeaves, Befriend, EndAll
<1>4. CASE Wire
  BY <1>4 DEF Wire, Dial, Connect, ReadingEnds
<1>5. CASE \E r \in Req : Handle(r)
  BY <1>5 DEF Handle, Authorize, Execute, StartOrStop, OpenConsole, CloseConsole
<1>6. CASE Stream
  BY <1>6 DEF Stream, PrintLine, StartFails, OnLine, Put, Expel, Take, RelayEnds, FlushDone
<1> QED BY <1>1, <1>2, <1>3, <1>4, <1>5, <1>6 DEF Next

LEMMA ChannelsMove ==
  ASSUME [Next]_vars
  PROVE  \/ UNCHANGED chanVars
         \/ \E g \in Channels : Dial(g) \/ Connect(g) \/ ReadingEnds(g) \/ ServingEnds(g)
         \/ \E r \in Req : SendRelayed(r)
<1>1. CASE UNCHANGED vars  BY <1>1 DEF vars
<1>2. CASE Tick            BY <1>2 DEF Tick
<1>3. CASE Owner
  BY <1>3 DEF Owner, SetGrant, SetPaused, RemoveFriend, PurgeRights,
              FriendLeaves, Befriend, EndAll
<1>4. CASE Wire
  BY <1>4 DEF Wire, SendDirect, Receive
<1>5. CASE \E r \in Req : Handle(r)
  BY <1>5 DEF Handle, Authorize, Execute, StartOrStop, OpenConsole, CloseConsole
<1>6. CASE Stream
  BY <1>6 DEF Stream, PrintLine, StartFails, OnLine, Put, Expel, Take, RelayEnds, FlushDone
<1> QED BY <1>1, <1>2, <1>3, <1>4, <1>5, <1>6 DEF Next

LEMMA HostMove ==
  ASSUME [Next]_vars
  PROVE  \/ UNCHANGED hostVars
         \/ \E r \in Req : (\E v \in Routes : Receive(r, v)) \/ Handle(r)
         \/ \E s \in Sids : FlushDone(s)
<1>1. CASE UNCHANGED vars  BY <1>1 DEF vars
<1>2. CASE Tick            BY <1>2 DEF Tick
<1>3. CASE Owner
  BY <1>3 DEF Owner, SetGrant, SetPaused, RemoveFriend, PurgeRights,
              FriendLeaves, Befriend, EndAll
<1>4. CASE Wire
  BY <1>4 DEF Wire, Dial, Connect, ReadingEnds, ServingEnds, SendDirect, SendRelayed
<1>5. CASE \E r \in Req : Handle(r)
  BY <1>5
<1>6. CASE Stream
  BY <1>6 DEF Stream, PrintLine, StartFails, OnLine, Put, Expel, Take, RelayEnds
<1> QED BY <1>1, <1>2, <1>3, <1>4, <1>5, <1>6 DEF Next

LEMMA ClockMove == ASSUME [Next]_vars PROVE UNCHANGED <<limit, clock>> \/ Tick
<1>1. CASE UNCHANGED vars  BY <1>1 DEF vars
<1>2. CASE Tick            BY <1>2
<1>3. CASE Owner
  BY <1>3 DEF Owner, SetGrant, SetPaused, RemoveFriend, PurgeRights,
              FriendLeaves, Befriend, EndAll
<1>4. CASE Wire
  BY <1>4 DEF Wire, Dial, Connect, ReadingEnds, ServingEnds, SendDirect, SendRelayed, Receive
<1>5. CASE \E r \in Req : Handle(r)
  BY <1>5 DEF Handle, Authorize, Execute, StartOrStop, OpenConsole, CloseConsole
<1>6. CASE Stream
  BY <1>6 DEF Stream, PrintLine, StartFails, OnLine, Put, Expel, Take, RelayEnds, FlushDone
<1> QED BY <1>1, <1>2, <1>3, <1>4, <1>5, <1>6 DEF Next

LEMMA StreamMove ==
  ASSUME [Next]_vars
  PROVE  \/ UNCHANGED streamVars
         \/ EndAll \/ Stream
         \/ \E g \in Channels : ServingEnds(g)
         \/ \E r \in Req : \/ SendDirect(r) \/ SendRelayed(r) \/ Authorize(r)
                           \/ OpenConsole(r) \/ CloseConsole(r)
<1>1. CASE UNCHANGED vars  BY <1>1 DEF vars
<1>2. CASE Tick            BY <1>2 DEF Tick
<1>3. CASE Owner
  BY <1>3 DEF Owner, SetGrant, SetPaused, RemoveFriend, PurgeRights, FriendLeaves, Befriend
<1>4. CASE Wire
  BY <1>4 DEF Wire, Dial, Connect, ReadingEnds, Receive
<1>5. CASE \E r \in Req : Handle(r)
  BY <1>5 DEF Handle, Execute, StartOrStop
<1> QED BY <1>1, <1>2, <1>3, <1>4, <1>5 DEF Next
-----------------------------------------------------------------------------
(* The types.                                                              *)
LEMMA SidsAreRequests == Sids \subseteq Req /\ \A r \in Req : Op[r] = "open" => r \in Sids
  BY DEF Sids

LEMMA KeptType == HostOK /\ clock \in Times => Kept \in [Req -> Nat]
  BY DEF HostOK, Kept

LEMMA FlagsTyped == ASSUME TypeOK, [Next]_vars PROVE FlagsOK'
<1>0. FlagsOK  BY TypeParts DEF RightsOK
<1>1. CASE UNCHANGED rightVars  BY <1>0, <1>1 DEF rightVars, FlagsOK
<1>2. CASE OwnerMoves
  <2>1. ASSUME NEW R \in Grants, SetGrant(R) PROVE FlagsOK'
    <3>1. ending' \in BOOLEAN  BY <2>1 DEF SetGrant
    <3> QED BY <1>0, <2>1, <3>1, Zenon DEF SetGrant, FlagsOK
  <2>2. ASSUME NEW v \in BOOLEAN, SetPaused(v) PROVE FlagsOK'
    <3>1. ending' \in BOOLEAN  BY <2>2 DEF SetPaused
    <3> QED BY <1>0, <2>2, <3>1, Zenon DEF SetPaused, FlagsOK
  <2>3. CASE RemoveFriend  BY <1>0, <2>3, Zenon DEF RemoveFriend, FlagsOK
  <2>4. CASE PurgeRights
    <3>1. ending' \in BOOLEAN  BY <2>4 DEF PurgeRights
    <3> QED BY <1>0, <2>4, <3>1, Zenon DEF PurgeRights, FlagsOK
  <2>5. CASE FriendLeaves  BY <1>0, <2>5, Zenon DEF FriendLeaves, FlagsOK
  <2>6. CASE Befriend      BY <1>0, <2>6, Zenon DEF Befriend, FlagsOK
  <2> QED BY <1>2, <2>1, <2>2, <2>3, <2>4, <2>5, <2>6 DEF OwnerMoves
<1>3. CASE EndAll  BY <1>0, <1>3, Zenon DEF EndAll, FlagsOK
<1>4. ASSUME NEW r \in Req, Authorize(r) \/ Execute(r) PROVE FlagsOK'
  BY <1>0, <1>4, Zenon DEF Authorize, Execute, ForgetStale, FlagsOK, rightVars
<1> QED BY <1>1, <1>2, <1>3, <1>4, RightsMove

LEMMA RightsTyped == ASSUME TypeOK, [Next]_vars PROVE RightsOK'
<1>0. RightsOK /\ clock \in Times /\ log \in Nat
  BY TypeParts DEF StreamOK
<1>f. FlagsOK'  BY FlagsTyped
<1>m. (Mark => mark' \in Nat) /\ (UNCHANGED mark => mark' \in Nat)
  BY <1>0 DEF Mark, RightsOK
<1>n. changes + 1 \in Nat /\ \A R \in Grants : R \in SUBSET Rights /\ R \ {"exec"} \in SUBSET Rights
  BY <1>0, BoundsAreNumbers DEF RightsOK
<1>1. CASE UNCHANGED rightVars  BY <1>0, <1>1, <1>f DEF RightsOK, rightVars
<1>2. CASE OwnerMoves
  <2>1. ASSUME NEW R \in Grants, SetGrant(R) PROVE RightsOK'
    <3>1. rights' \in SUBSET Rights /\ since' = since /\ changes' = changes + 1
      BY <2>1, <1>n DEF SetGrant
    <3>2. added' \in Times /\ mark' \in Nat
      BY <2>1, <1>0, <1>m DEF SetGrant, RightsOK
    <3> QED BY <1>0, <1>f, <1>n, <3>1, <3>2 DEF RightsOK
  <2>2. CASE \E v \in BOOLEAN : SetPaused(v)
    <3>1. rights' = rights /\ since' = since /\ added' = added /\ changes' = changes + 1 /\ Mark
      BY <2>2 DEF SetPaused
    <3> QED BY <1>0, <1>f, <1>m, <1>n, <3>1 DEF RightsOK
  <2>3. CASE RemoveFriend
    <3>1. rights' = rights /\ since' = since /\ added' = added /\ changes' = changes + 1 /\ Mark
      BY <2>3 DEF RemoveFriend
    <3> QED BY <1>0, <1>f, <1>m, <1>n, <3>1 DEF RightsOK
  <2>4. CASE PurgeRights
    <3>1. rights' = {} /\ since' = since /\ added' = added /\ changes' = changes /\ Mark
      BY <2>4 DEF PurgeRights
    <3> QED BY <1>0, <1>f, <1>m, <3>1 DEF RightsOK
  <2>5. CASE FriendLeaves
    <3>1. rights' = rights /\ since' = since /\ added' = added /\ changes' = changes + 1 /\ Mark
      BY <2>5 DEF FriendLeaves
    <3> QED BY <1>0, <1>f, <1>m, <1>n, <3>1 DEF RightsOK
  <2>6. CASE Befriend
    <3>1. rights' = rights /\ since' = clock /\ added' = added /\ changes' = changes + 1 /\ Mark
      BY <2>6 DEF Befriend
    <3> QED BY <1>0, <1>f, <1>m, <1>n, <3>1 DEF RightsOK
  <2> QED BY <1>2, <2>1, <2>2, <2>3, <2>4, <2>5, <2>6 DEF OwnerMoves
<1>3. CASE EndAll
  <2>1. UNCHANGED <<rights, since, added, changes, mark>>  BY <1>3 DEF EndAll
  <2> QED BY <1>0, <1>f, <2>1 DEF RightsOK
<1>4. ASSUME ForgetStale PROVE RightsOK'
  <2>1. rights' \in {rights, {}} /\ UNCHANGED <<since, added, changes>> /\ Mark
    BY <1>4 DEF ForgetStale
  <2> QED BY <1>0, <1>f, <1>m, <2>1 DEF RightsOK
<1>5. ASSUME NEW r \in Req, Authorize(r) \/ Execute(r) PROVE RightsOK'
  BY <1>1, <1>4, <1>5 DEF Authorize, Execute
<1> QED BY <1>1, <1>2, <1>3, <1>5, RightsMove

LEMMA WireTyped == ASSUME TypeOK, [Next]_vars PROVE WireOK'
<1> USE TypeParts DEF WireOK, wireVars, ChannelsOK, Routes
<1>1. CASE UNCHANGED wireVars  BY <1>1
<1>2. ASSUME NEW g \in Channels, ServingEnds(g) PROVE WireOK'
  BY <1>2 DEF ServingEnds
<1>3. ASSUME NEW r \in Req, Stamp(r) PROVE sent' \in [Req -> Nat]
  BY <1>3 DEF Stamp
<1>4. ASSUME NEW r \in Req, SendDirect(r) PROVE WireOK'
  <2>1. toHost' \in [Channels -> Seq(Req)]
    BY <1>4 DEF SendDirect
  <2> QED BY <2>1, <1>3, <1>4 DEF SendDirect
<1>5. ASSUME NEW r \in Req, SendRelayed(r) PROVE WireOK'
  BY <1>3, <1>5 DEF SendRelayed
<1>6. ASSUME NEW r \in Req, NEW v \in Routes, Receive(r, v) PROVE WireOK'
  <2>1. toHost' \in [Channels -> Seq(Req)]
    BY <1>6 DEF Receive, Arrives
  <2> QED BY <2>1, <1>6 DEF Receive
<1> QED BY <1>1, <1>2, <1>4, <1>5, <1>6, WireMove

LEMMA ChannelsTyped == ASSUME TypeOK, [Next]_vars PROVE ChannelsOK'
<1> USE TypeParts DEF ChannelsOK, chanVars, Routes
<1>1. CASE UNCHANGED chanVars  BY <1>1
<1>2. ASSUME NEW g \in Channels, Dial(g) PROVE ChannelsOK'         BY <1>2 DEF Dial
<1>3. ASSUME NEW g \in Channels, Connect(g) PROVE ChannelsOK'      BY <1>3 DEF Connect
<1>4. ASSUME NEW g \in Channels, ReadingEnds(g) PROVE ChannelsOK'  BY <1>4 DEF ReadingEnds
<1>5. ASSUME NEW g \in Channels, ServingEnds(g) PROVE ChannelsOK'  BY <1>5 DEF ServingEnds
<1>6. ASSUME NEW r \in Req, SendRelayed(r) PROVE ChannelsOK'       BY <1>6 DEF SendRelayed
<1> QED BY <1>1, <1>2, <1>3, <1>4, <1>5, <1>6, ChannelsMove

LEMMA HostTyped == ASSUME TypeOK, [Next]_vars PROVE HostOK'
<1> USE TypeParts DEF HostOK, hostVars, Stages
<1>1. CASE UNCHANGED hostVars  BY <1>1
<1>2. ASSUME NEW r \in Req, NEW v \in Routes, Receive(r, v) PROVE HostOK'
  <2>1. seen' \in [Req -> Nat]
    <3>1. Kept \in [Req -> Nat] /\ clock \in Nat  BY KeptType DEF Times
    <3>2. \/ seen' = Kept
          \/ seen' = [q \in Req |-> IF q = r THEN clock ELSE IF Room THEN Kept[q] ELSE 0]
      BY <1>2 DEF Receive
    <3> HIDE DEF HostOK
    <3> QED BY <3>1, <3>2
  <2> QED BY <2>1, <1>2 DEF Receive
<1>3. ASSUME NEW r \in Req, NEW to \in Stages, task' = [task EXCEPT ![r] = to],
             Acts(r) \/ UNCHANGED acted, UNCHANGED <<seen, via>>
      PROVE  HostOK'
  BY <1>3 DEF Acts
<1>4. ASSUME NEW r \in Req, Handle(r) PROVE HostOK'
  <2>1. CASE Authorize(r)     BY <2>1, <1>3 DEF Authorize, Enters
  <2>2. CASE StartOrStop(r)   BY <2>2, <1>3 DEF StartOrStop, Enters
  <2>3. CASE OpenConsole(r)   BY <2>3, <1>3 DEF OpenConsole, Enters
  <2>4. CASE Execute(r)       BY <2>4, <1>3 DEF Execute, Enters
  <2>5. CASE CloseConsole(r)  BY <2>5, <1>3 DEF CloseConsole, Enters
  <2> QED BY <1>4, <2>1, <2>2, <2>3, <2>4, <2>5 DEF Handle
<1>5. ASSUME NEW s \in Sids, FlushDone(s) PROVE HostOK'
  BY <1>3, <1>5, SidsAreRequests DEF FlushDone, Enters
<1> QED BY <1>1, <1>2, <1>4, <1>5, HostMove

Views == [Sids -> {"none", "on", "ended"}]

(* What the sessions of a healthy Host look like after each operation.     *)
LEMMA NoSessionType == NoSession \in Session
  BY DEF NoSession, Session, Routes

LEMMA NothingType == Nothing.sid \notin Sids => Nothing.lines = <<>>
  BY DEF Nothing

LEMMA LastLinesType ==
  ASSUME log \in Nat, base \in 0..log
  PROVE  /\ LastLines \in Seq(Lines) /\ Len(LastLines) \in Nat
         /\ Len(LastLines) <= Backlog /\ Len(LastLines) <= log
         /\ \A i \in 1..Len(LastLines) : LastLines[i] \in 1..log
         /\ \A n \in 1..log : n > log - Len(LastLines) =>
                                \E i \in 1..Len(LastLines) : LastLines[i] = n
<1> DEFINE k == Min2(log - base, Backlog)
           d == log - k
<1>1. k \in Nat /\ d \in Nat /\ k + d = log /\ k <= Backlog /\ k <= log
  BY BoundsAreNumbers DEF Min2
<1>2. LastLines = [i \in 1..k |-> i + log - k]
  BY DEF LastLines, LastOf
<1> HIDE DEF k
<1>3. \A i \in 1..k : i + log - k = i + d /\ i + d \in Lines /\ i + d \in 1..log
  BY <1>1 DEF Lines
<1>4. LastLines \in Seq(Lines) /\ Len(LastLines) = k
  <2>1. LastLines \in [1..k -> Lines]  BY <1>2, <1>3
  <2>2. LastLines \in Seq(Lines)       BY <1>1, <2>1, SeqDef
  <2>3. Len(LastLines) \in Nat /\ DOMAIN LastLines = 1..Len(LastLines)
    BY <2>2, LenProperties
  <2> QED BY <1>1, <2>1, <2>2, <2>3
<1> HIDE DEF d
<1>5. \A n \in 1..log : n > log - k => n - d \in 1..k /\ (n - d) + d = n
  BY <1>1
<1> QED BY <1>1, <1>2, <1>3, <1>4, <1>5

LEMMA SubSeqType ==
  ASSUME NEW q \in Seq(Lines), NEW i \in 1..(Len(q) + 1), NEW j \in Nat, j <= Len(q)
  PROVE  /\ SubSeq(q, i, j) \in Seq(Lines)
         /\ \A k \in 1..Len(SubSeq(q, i, j)) : \E m \in 1..Len(q) : SubSeq(q, i, j)[k] = q[m]
<1>1. CASE i <= j
  BY <1>1, SubSeqProperties
<1>2. CASE i > j
  BY <1>2, SubSeqProperties
<1> QED BY <1>1, <1>2

Among(q, n) == \E i \in 1..Len(q) : q[i] = n

(* What appending, cutting and sending do to the lines of a sequence.      *)
LEMMA AmongParts ==
  ASSUME NEW q \in Seq(Lines), NEW n
  PROVE  /\ Among(q, n) <=> n \in ToSet(q)
         /\ \A m \in Lines : m = n \/ Among(q, n) => Among(Append(q, m), n)
         /\ \A k \in 0..Len(q) : Among(q, n) =>
              Among(SubSeq(q, 1, k), n) \/ Among(SubSeq(q, k + 1, Len(q)), n)
         /\ q # <<>> /\ Among(q, n) => n = Head(q) \/ Among(Tail(q), n)
<1>0. Len(q) \in Nat /\ DOMAIN q = 1..Len(q)  BY LenProperties
<1>1. Among(q, n) <=> n \in ToSet(q)  BY <1>0 DEF Among, ToSet
<1>2. ASSUME NEW m \in Lines, m = n \/ Among(q, n) PROVE Among(Append(q, m), n)
  <2>1. /\ Len(Append(q, m)) = Len(q) + 1 /\ Append(q, m)[Len(q) + 1] = m
        /\ \A i \in 1..Len(q) : Append(q, m)[i] = q[i]
    OBVIOUS
  <2> DEFINE k == Len(q)
             a == Append(q, m)
  <2>2. k \in Nat /\ k + 1 \in 1..(k + 1) /\ \A i \in 1..k : i \in 1..(k + 1)  BY <1>0
  <2> QED BY <1>2, <2>1, <2>2 DEF Among
<1>3. ASSUME NEW k \in 0..Len(q), Among(q, n)
      PROVE  Among(SubSeq(q, 1, k), n) \/ Among(SubSeq(q, k + 1, Len(q)), n)
  <2>1. PICK i \in 1..Len(q) : q[i] = n  BY <1>3 DEF Among
  <2>0. /\ k \in Int /\ k + 1 \in Int /\ Len(q) \in Int
        /\ \A j \in 1..Len(q) : q[j] \in Lines
    BY <1>0
  <2>2. /\ Len(SubSeq(q, 1, k)) = k
        /\ \A j \in 1..k : SubSeq(q, 1, k)[j] = q[j]
    <3>1. \A j \in 1..k : q[j] \in Lines  BY <1>0, <2>0
    <3> QED BY <1>0, <2>0, <3>1, SubSeqProperties
  <2>3. /\ Len(SubSeq(q, k + 1, Len(q))) = Len(q) - k
        /\ \A j \in 1..(Len(q) - k) : SubSeq(q, k + 1, Len(q))[j] = q[k + j]
    <3> DEFINE m == k + 1
               l == Len(q)
               r == SubSeq(q, m, l)
    <3>1. m \in Int /\ l \in Int /\ \A j \in m..l : q[j] \in Lines  BY <1>0, <2>0
    <3> HIDE DEF m, l
    <3>2. /\ Len(r) = IF m <= l THEN l - m + 1 ELSE 0
          /\ \A j \in 1..(l - m + 1) : r[j] = q[m + j - 1]
      BY <3>1, SubSeqProperties
    <3> HIDE DEF r
    <3>3. m = k + 1 /\ l = Len(q) /\ k \in 0..l  BY DEF m, l
    <3>4. Len(r) = l - k  BY <3>1, <3>2, <3>3
    <3>5. \A j \in 1..(l - k) : r[j] = q[k + j]
      <4>1. \A j \in 1..(l - k) : j \in 1..(l - m + 1) /\ m + j - 1 = k + j  BY <3>1, <3>3
      <4> QED BY <3>2, <4>1
    <3> QED BY <3>4, <3>5 DEF r, m, l
  <2>4. CASE i <= k
    <3> DEFINE r == SubSeq(q, 1, k)
    <3>1. i \in 1..k  BY <1>0, <2>4
    <3>2. Len(r) = k /\ r[i] = n  BY <2>1, <2>2, <3>1
    <3> HIDE DEF r
    <3>3. Among(r, n)  BY <3>1, <3>2 DEF Among
    <3> QED BY <3>3 DEF r
  <2>5. CASE i > k
    <3> DEFINE m == Len(q)
    <3>0. m \in Nat /\ k \in 0..m /\ i \in 1..m  BY <1>0
    <3> HIDE DEF m
    <3>1. i - k \in 1..(m - k) /\ k + (i - k) = i  BY <3>0, <2>5
    <3> QED BY <2>1, <2>3, <3>1 DEF Among, m
  <2> QED BY <1>0, <2>4, <2>5
<1>4. ASSUME q # <<>>, Among(q, n) PROVE n = Head(q) \/ Among(Tail(q), n)
  <2>1. /\ Len(Tail(q)) = Len(q) - 1 /\ Head(q) = q[1]
        /\ \A i \in 1..Len(Tail(q)) : Tail(q)[i] = q[i + 1]
    BY <1>4, HeadTailProperties
  <2>2. PICK i \in 1..Len(q) : q[i] = n  BY <1>4 DEF Among
  <2>3. CASE i = 1  BY <2>1, <2>2, <2>3
  <2>4. CASE i # 1
    <3>1. i - 1 \in 1..Len(Tail(q)) /\ (i - 1) + 1 = i  BY <1>0, <2>1, <2>4
    <3> QED BY <2>1, <2>2, <3>1 DEF Among
  <2> QED BY <2>3, <2>4
<1> QED BY <1>1, <1>2, <1>3, <1>4

(* What Take takes, leaves and gives up.                                   *)
Taken(p, s, fit, rest, gone) ==
  LET q == sess[s].pending
  IN /\ fit \in Seq(Lines) /\ rest \in Seq(Lines) /\ gone \in SUBSET Lines
     /\ Len(fit) <= Len(q) /\ Len(rest) <= Len(q)
     /\ held' = IF fit = <<>> THEN held
                ELSE [held EXCEPT ![p] = [sid |-> s, tag |-> sess[s].tag, lines |-> fit]]
     /\ sess' = [sess EXCEPT ![s].pending = rest]
     /\ lost' = [lost EXCEPT ![s] = @ \cup gone]
     /\ \A x : Among(fit, x) \/ Among(rest, x) => Among(q, x)
     /\ \A x : Among(q, x) => Among(fit, x) \/ Among(rest, x) \/ x \in gone

LEMMA CutParts ==
  ASSUME NEW q \in Seq(Lines), NEW k \in 0..Len(q), NEW n \in k..Len(q)
  PROVE  LET c == SubSeq(q, k + 1, n)
         IN /\ c \in Seq(Lines) /\ Len(c) = n - k
            /\ \A i \in 1..(n - k) : c[i] = q[k + i]
            /\ \A m \in (k + 1)..n : c[m - k] = q[m]
            /\ \A x : Among(c, x) => Among(q, x)
<1> DEFINE m == k + 1
           c == SubSeq(q, m, n)
<1>0. Len(q) \in Nat /\ k \in Nat /\ n \in Nat /\ k <= n /\ n <= Len(q)  OBVIOUS
<1>1. m \in Int /\ n \in Int /\ \A i \in m..n : q[i] \in Lines
  BY <1>0
<1> HIDE DEF m
<1>2. /\ c \in Seq(Lines) /\ Len(c) = IF m <= n THEN n - m + 1 ELSE 0
      /\ \A i \in 1..(n - m + 1) : c[i] = q[m + i - 1]
  BY <1>1, SubSeqProperties
<1> HIDE DEF c
<1>3. n - m + 1 = n - k /\ Len(c) = n - k /\ \A i \in 1..(n - k) : m + i - 1 = k + i
  BY <1>0, <1>2 DEF m
<1>4. \A i \in 1..(n - k) : c[i] = q[k + i]  BY <1>2, <1>3
<1>5. \A j \in (k + 1)..n : c[j - k] = q[j]
  <2> SUFFICES ASSUME NEW j \in (k + 1)..n PROVE c[j - k] = q[j]
    OBVIOUS
  <2>1. j - k \in 1..(n - k) /\ k + (j - k) = j  BY <1>0
  <2> QED BY <1>4, <2>1
<1>6. ASSUME NEW x, Among(c, x) PROVE Among(q, x)
  <2>1. PICK i \in 1..(n - k) : c[i] = x  BY <1>3, <1>6 DEF Among
  <2>2. k + i \in 1..Len(q)  BY <1>0
  <2> QED BY <1>4, <2>1, <2>2 DEF Among
<1> QED BY <1>2, <1>3, <1>4, <1>5, <1>6 DEF c, m

TakenAs(p, s, n, j, i) ==
  LET q == sess[s].pending
      fit == SubSeq(q, 1, i) \o SubSeq(q, j + 1, n)
  IN /\ held' = IF fit = <<>> THEN held
                ELSE [held EXCEPT ![p] = [sid |-> s, tag |-> sess[s].tag, lines |-> fit]]
     /\ lost' = [lost EXCEPT ![s] = @ \cup {q[k] : k \in (i + 1)..j}]
     /\ sess' = [sess EXCEPT ![s].pending = SubSeq(q, n + 1, Len(q))]

LEMMA TakeShape ==
  ASSUME TypeOK, NEW p \in Flushers, NEW s \in Sids, Take(p, s)
  PROVE  \E fit, rest, gone : Taken(p, s, fit, rest, gone)
<1> DEFINE q == sess[s].pending
<1>0. q \in Seq(Lines) /\ Len(q) \in Nat  BY TypeParts DEF StreamOK, Session
<1>1. PICK n \in 1..Len(q) : \E j \in 0..n : \E i \in 0..j : TakenAs(p, s, n, j, i)
  BY DEF Take, TakenAs
<1>a. PICK j \in 0..n : \E i \in 0..j : TakenAs(p, s, n, j, i)  BY <1>1
<1>b. PICK i \in 0..j : TakenAs(p, s, n, j, i)  BY <1>a
<1> DEFINE b == SubSeq(q, 1, i)
           c == SubSeq(q, j + 1, n)
           rest == SubSeq(q, n + 1, Len(q))
           gone == {q[k] : k \in (i + 1)..j}
           fit == b \o c
<1> HIDE DEF q
<1>n. /\ n \in Nat /\ j \in Nat /\ i \in Nat /\ i <= j /\ j <= n /\ n <= Len(q)
      /\ i \in 0..Len(q) /\ j \in 0..Len(q) /\ n \in 0..Len(q) /\ n \in j..Len(q)
      /\ i \in 0..Len(q) /\ Len(q) \in n..Len(q) /\ 0 \in 0..Len(q)
  BY <1>0
<1>2. /\ b \in Seq(Lines) /\ Len(b) = i
      /\ \A k \in 1..i : b[k] = q[k]
      /\ \A x : Among(b, x) => Among(q, x)
  <2>1. LET d == SubSeq(q, 0 + 1, i)
        IN /\ d \in Seq(Lines) /\ Len(d) = i - 0
           /\ \A k \in 1..(i - 0) : d[k] = q[0 + k]
           /\ \A x : Among(d, x) => Among(q, x)
    BY <1>0, <1>n, CutParts
  <2>2. 0 + 1 = 1 /\ i - 0 = i /\ \A k \in 1..i : 0 + k = k  BY <1>n
  <2> QED BY <2>1, <2>2
<1>3. /\ c \in Seq(Lines) /\ Len(c) = n - j
      /\ \A k \in (j + 1)..n : c[k - j] = q[k]
      /\ \A x : Among(c, x) => Among(q, x)
  BY <1>0, <1>n, CutParts
<1>4. /\ rest \in Seq(Lines) /\ Len(rest) = Len(q) - n
      /\ \A k \in (n + 1)..Len(q) : rest[k - n] = q[k]
      /\ \A x : Among(rest, x) => Among(q, x)
  BY <1>0, <1>n, CutParts
<1> HIDE DEF b, c, rest
<1>5. /\ fit \in Seq(Lines) /\ Len(fit) = i + (n - j)
      /\ \A k \in 1..(i + (n - j)) : fit[k] = IF k <= i THEN b[k] ELSE c[k - i]
  <2>1. /\ b \o c \in Seq(Lines) /\ Len(b \o c) = Len(b) + Len(c)
        /\ \A k \in 1..(Len(b) + Len(c)) :
              (b \o c)[k] = IF k <= Len(b) THEN b[k] ELSE c[k - Len(b)]
    BY <1>2, <1>3, ConcatProperties, Zenon
  <2>2. fit = b \o c  OBVIOUS
  <2> HIDE DEF fit
  <2> QED BY <1>2, <1>3, <2>1, <2>2
<1> HIDE DEF fit
<1>6. ASSUME NEW x, Among(fit, x) PROVE Among(q, x)
  <2>1. PICK k \in 1..(i + (n - j)) : fit[k] = x  BY <1>5, <1>6 DEF Among
  <2>2. CASE k <= i
    <3>1. k \in 1..i /\ b[k] = x  BY <1>5, <1>n, <2>1, <2>2
    <3>2. Among(b, x)  BY <1>2, <3>1 DEF Among
    <3> QED BY <1>2, <3>2
  <2>3. CASE k > i
    <3>1. k - i \in 1..(n - j) /\ c[k - i] = x  BY <1>5, <1>n, <2>1, <2>3
    <3>2. Among(c, x)  BY <1>3, <3>1 DEF Among
    <3> QED BY <1>3, <3>2
  <2> QED BY <1>n, <2>2, <2>3
<1>7. ASSUME NEW x, Among(q, x) PROVE Among(fit, x) \/ Among(rest, x) \/ x \in gone
  <2>1. PICK k \in 1..Len(q) : q[k] = x  BY <1>7 DEF Among
  <2>2. CASE k <= i
    <3>1. k \in 1..i /\ k \in 1..(i + (n - j))  BY <1>n, <2>2
    <3>2. fit[k] = x  BY <1>2, <1>5, <2>1, <2>2, <3>1
    <3> QED BY <1>5, <3>1, <3>2 DEF Among
  <2>3. CASE k > i /\ k <= j
    <3>1. k \in (i + 1)..j  BY <1>n, <2>3
    <3> QED BY <2>1, <3>1
  <2>4. CASE k > j /\ k <= n
    <3> DEFINE m == i + (k - j)
    <3>1. /\ k \in (j + 1)..n /\ m \in 1..(i + (n - j)) /\ ~(m <= i) /\ m - i = k - j
      BY <1>n, <2>4
    <3> HIDE DEF m
    <3>2. fit[m] = x  BY <1>3, <1>5, <2>1, <3>1
    <3> QED BY <1>5, <3>1, <3>2 DEF Among
  <2>5. CASE k > n
    <3>1. k \in (n + 1)..Len(q) /\ k - n \in 1..(Len(q) - n)  BY <1>0, <1>n, <2>5
    <3> QED BY <1>4, <2>1, <3>1 DEF Among
  <2> QED BY <1>0, <1>n, <2>2, <2>3, <2>4, <2>5
<1>8. gone \in SUBSET Lines
  <2>1. \A k \in (i + 1)..j : k \in 1..Len(q)  BY <1>0, <1>n
  <2> QED BY <1>0, <2>1
<1>9. Len(fit) <= Len(q) /\ Len(rest) <= Len(q)  BY <1>0, <1>n, <1>4, <1>5
<1>10. /\ held' = IF fit = <<>> THEN held
                   ELSE [held EXCEPT ![p] = [sid |-> s, tag |-> sess[s].tag, lines |-> fit]]
       /\ lost' = [lost EXCEPT ![s] = @ \cup gone]
       /\ sess' = [sess EXCEPT ![s].pending = rest]
  BY <1>b DEF TakenAs, fit, b, c, rest, q
<1> HIDE DEF gone
<1>11. Taken(p, s, fit, rest, gone)
  BY <1>4, <1>5, <1>6, <1>7, <1>8, <1>9, <1>10 DEF Taken, q
<1> QED BY <1>11

LEMMA LastTail ==
  ASSUME NEW q \in Seq(Lines), q # <<>>, Tail(q) = <<>>
  PROVE  DOMAIN q = {1} /\ Head(q) = q[1]
<1> DEFINE n == Len(Tail(q))
           k == Len(q)
<1>1. n = k - 1 /\ k \in Nat /\ DOMAIN q = 1..k /\ Head(q) = q[1]
  BY HeadTailProperties, LenProperties
<1>2. n = 0  BY EmptySeq, Zenon
<1> HIDE DEF n, k
<1> QED BY <1>1, <1>2

LEMMA ViewTyped == ASSUME TypeOK, [Next]_vars PROVE view' \in Views
<1> USE TypeParts DEF StreamOK, Views, streamVars
<1>1. CASE UNCHANGED view  BY <1>1
<1>2. ASSUME NEW r \in Req, SendDirect(r) \/ SendRelayed(r) PROVE view' \in Views
  <2>1. ViewAfterSend(r) \in Views
    BY DEF ViewAfterSend
  <2> QED BY <1>2, <2>1 DEF SendDirect, SendRelayed
<1>3. ASSUME NEW r \in Req, NEW ok \in BOOLEAN, Answer(r, ok) PROVE view' \in Views
  BY <1>3 DEF Answer
<1>4. ASSUME NEW r \in Req, Authorize(r) \/ OpenConsole(r) PROVE view' \in Views
  BY <1>3, <1>4 DEF Authorize, OpenConsole
<1>5. ASSUME NEW S, TellEnd(S) PROVE view' \in Views
  BY <1>5 DEF TellEnd
<1>6. CASE EndAll  BY <1>5, <1>6 DEF EndAll
<1>7. CASE Stream
  <2>1. ASSUME NEW p \in Flushers, NEW s \in Sids, Expel(p, s) PROVE view' \in Views
    BY <1>5, <2>1 DEF Expel
  <2> QED BY <1>1, <1>7, <2>1 DEF Stream, PrintLine, StartFails, OnLine, Put, Take, RelayEnds, FlushDone
<1> QED BY <1>1, <1>2, <1>4, <1>6, <1>7, StreamMove DEF ServingEnds, CloseConsole

LEMMA StreamTyped == ASSUME TypeOK, [Next]_vars PROVE StreamOK'
<1>0. StreamOK /\ HostOK /\ clock \in Times  BY TypeParts
<1>1. view' \in Views  BY ViewTyped
<1> DEFINE SessOK == sess \in [Sids -> Session]
           HeldOK == held \in [Flushers -> Batch \cup {Nothing}]
           ShownOK == shown \in [Sids -> Seq(Lines)]
           LostOK == lost \in [Sids -> SUBSET Lines]
           LogOK == /\ log \in Nat /\ base \in 0..log /\ due \in SUBSET Lines
                    /\ number \in Seq(Lines) /\ Len(number) = log
<1>2. SessOK /\ HeldOK /\ ShownOK /\ LostOK /\ LogOK
  BY <1>0 DEF StreamOK
<1>3. SessOK' /\ HeldOK' /\ ShownOK' /\ LostOK' /\ LogOK' => StreamOK'
  BY <1>1 DEF StreamOK, Views
<1>q. UNCHANGED <<sess, held, logVars, due, shown, lost>> => StreamOK'
  BY <1>2, <1>3 DEF logVars
<1>c. ASSUME NEW D \in SUBSET Sids, UNCHANGED <<held, logVars, due, shown, lost>>,
             sess' = [s \in Sids |-> IF s \in D THEN NoSession ELSE sess[s]]
      PROVE  StreamOK'
  <2>1. SessOK'  BY <1>2, <1>c, NoSessionType
  <2> QED BY <1>2, <1>3, <1>c, <2>1 DEF logVars
<1>s. ASSUME NEW s \in Sids, UNCHANGED <<held, logVars, due, shown, lost>>,
             sess' = [sess EXCEPT ![s] = NoSession]
      PROVE  StreamOK'
  <2>1. SessOK'  BY <1>2, <1>s, NoSessionType
  <2> QED BY <1>2, <1>3, <1>s, <2>1 DEF logVars
<1>4. CASE UNCHANGED streamVars  BY <1>4, <1>q DEF streamVars
<1>5. CASE EndAll
  <2>1. sess' = [s \in Sids |-> IF s \in Sids THEN NoSession ELSE sess[s]]
    BY <1>5 DEF EndAll
  <2> QED BY <1>5, <1>c, <2>1 DEF EndAll
<1>6. ASSUME NEW g \in Channels, ServingEnds(g) PROVE StreamOK'
  <2> DEFINE D == {s \in Sids : sess[s].tag = g}
  <2>1. sess' = [s \in Sids |-> IF s \in D THEN NoSession ELSE sess[s]]
    BY <1>6 DEF ServingEnds
  <2>2. D \in SUBSET Sids  OBVIOUS
  <2> HIDE DEF D
  <2> QED BY <1>6, <1>c, <2>1, <2>2 DEF ServingEnds
<1>7. ASSUME NEW r \in Req, SendDirect(r) \/ SendRelayed(r) \/ Authorize(r) PROVE StreamOK'
  BY <1>q, <1>7 DEF SendDirect, SendRelayed, Authorize
<1>8. ASSUME NEW r \in Req, OpenConsole(r) PROVE StreamOK'
  <2>1. CASE UNCHANGED <<sess, lost>>
    BY <1>q, <1>8, <2>1 DEF OpenConsole
  <2>2. CASE /\ sess' = [sess EXCEPT ![r] = [tag |-> via[r], expires |-> clock + SessionMax,
                                            pending |-> LastLines]]
             /\ lost' = [lost EXCEPT ![r] = @ \cup 1..(log - Len(LastLines))]
    <3>1. [tag |-> via[r], expires |-> clock + SessionMax, pending |-> LastLines] \in Session
      BY <1>0, <1>2, LastLinesType, BoundsAreNumbers DEF Session, HostOK, Times
    <3>2. SessOK'  BY <1>2, <2>2, <3>1
    <3>3. 1..(log - Len(LastLines)) \subseteq Lines
      <4>1. Len(LastLines) \in Nat  BY <1>2, LastLinesType
      <4> QED BY <1>2, <4>1 DEF Lines
    <3>4. LostOK'  BY <1>2, <2>2, <3>3
    <3> QED BY <1>2, <1>3, <1>8, <3>2, <3>4 DEF OpenConsole, logVars
  <2> QED BY <1>8, <2>1, <2>2 DEF OpenConsole
<1>9. ASSUME NEW r \in Req, CloseConsole(r) PROVE StreamOK'
  <2>1. Sid[r] \in Sids
    BY <1>9, RequestsAreGiven DEF CloseConsole, Sids
  <2> QED BY <1>s, <1>9, <2>1 DEF CloseConsole
<1>10. CASE Stream
  <2>1. CASE PrintLine
    <3>1. log + 1 - base \in Lines /\ log' = log + 1 /\ base' = base
      BY <1>2, <2>1 DEF PrintLine, Lines
    <3>2. number' = Append(number, log + 1 - base)
      BY <2>1 DEF PrintLine
    <3>3. number' \in Seq(Lines) /\ Len(number') = log'
      BY <1>2, <3>1, <3>2, AppendProperties
    <3>4. due' \in SUBSET Lines  BY <1>2, <2>1 DEF PrintLine, Lines
    <3>5. LogOK'  BY <1>2, <3>1, <3>3, <3>4
    <3> QED BY <1>2, <1>3, <2>1, <3>5 DEF PrintLine
  <2>8. CASE StartFails
    <3>1. LogOK'  BY <1>2, <2>8 DEF StartFails
    <3> QED BY <1>2, <1>3, <2>8, <3>1 DEF StartFails
  <2>2. ASSUME NEW n \in due, OnLine(n) PROVE StreamOK'
    <3>1. n \in Lines /\ LogOK'  BY <1>2, <2>2 DEF OnLine, logVars
    <3>2. ASSUME NEW s \in Sids
          PROVE  /\ sess'[s] \in Session
                 /\ lost'[s] \in SUBSET Lines
      <4> DEFINE q == sess[s].pending
                 a == Append(q, n)
      <4>1. q \in Seq(Lines) /\ a \in Seq(Lines) /\ Len(a) = Len(q) + 1
        BY <1>2, <3>1 DEF Session
      <4>0. Len(q) \in Nat /\ MaxPending \in Nat  BY <4>1, BoundsAreNumbers
      <4> HIDE DEF a, q
      <4>2. CASE Overflow(s)
        <5>1. Len(q) >= MaxPending /\ Live(s)  BY <4>2 DEF Overflow, q
        <5>2. Len(q) + 2 - MaxPending \in 1..(Len(a) + 1) /\ Len(q) + 1 = Len(a)
          BY <4>0, <4>1, <5>1
        <5>3. SubSeq(a, Len(q) + 2 - MaxPending, Len(q) + 1) \in Seq(Lines)
          BY <4>1, <5>2, SubSeqType
        <5>4. SubSeq(a, 1, Len(q) + 1 - MaxPending) \in Seq(Lines)
          BY <4>0, <4>1, <5>1, SubSeqType
        <5>5. sess'[s] = [sess[s] EXCEPT !.pending = SubSeq(a, Len(q) + 2 - MaxPending, Len(q) + 1)]
          BY <2>2, <4>2, <5>1 DEF OnLine, a, q
        <5>6. lost'[s] = lost[s] \cup ToSet(SubSeq(a, 1, Len(q) + 1 - MaxPending))
          BY <2>2, <4>2 DEF OnLine, a, q
        <5>7. ToSet(SubSeq(a, 1, Len(q) + 1 - MaxPending)) \subseteq Lines
          BY <5>4 DEF ToSet
        <5> QED BY <1>2, <5>3, <5>5, <5>6, <5>7 DEF Session
      <4>3. CASE ~Overflow(s)
        BY <1>2, <2>2, <4>1, <4>3 DEF OnLine, Session, a, q
      <4> QED BY <4>2, <4>3
    <3>3. SessOK'  BY <2>2, <3>2 DEF OnLine
    <3>4. LostOK'  BY <2>2, <3>2 DEF OnLine
    <3> QED BY <1>2, <1>3, <2>2, <3>1, <3>3, <3>4 DEF OnLine, logVars
  <2>3. ASSUME NEW p \in Flushers, NEW s \in Sids, Expel(p, s) PROVE StreamOK'
    BY <1>s, <2>3 DEF Expel
  <2>4. ASSUME NEW p \in Flushers, NEW s \in Sids, Take(p, s) PROVE StreamOK'
    <3>1. PICK fit, rest, gone : Taken(p, s, fit, rest, gone)
      BY <2>4, TakeShape
    <3>2. sess[s] \in Session  BY <1>2
    <3>3. fit \in Seq(Lines) /\ rest \in Seq(Lines) /\ gone \in SUBSET Lines
      BY <3>1 DEF Taken
    <3>4. HeldOK'
      <4>1. fit # <<>> => [sid |-> s, tag |-> sess[s].tag, lines |-> fit] \in Batch
        BY <3>2, <3>3 DEF Batch, Session
      <4> QED BY <1>2, <3>1, <4>1 DEF Taken
    <3>5. SessOK'  BY <1>2, <3>1, <3>2, <3>3 DEF Taken, Session
    <3>6. LostOK'  BY <1>2, <3>1, <3>3 DEF Taken
    <3> QED BY <1>2, <1>3, <2>4, <3>4, <3>5, <3>6 DEF Take, logVars
  <2>5. ASSUME NEW p \in Flushers, Put(p) PROVE StreamOK'
    <3> DEFINE b == held[p]
    <3>1. b \in Batch /\ b.sid \in Sids /\ b.lines \in Seq(Lines) /\ b.lines # <<>>
      BY <1>2, <2>5 DEF Put, Batch
    <3>2. Head(b.lines) \in Lines /\ Tail(b.lines) \in Seq(Lines)
      BY <3>1
    <3>3. HeldOK'
      <4>1. Tail(b.lines) # <<>> => [b EXCEPT !.lines = Tail(@)] \in Batch
        BY <3>1, <3>2 DEF Batch
      <4>2. ASSUME Tail(b.lines) = <<>> PROVE ToSet(b.lines) = {Head(b.lines)}
        <5>1. DOMAIN b.lines = {1} /\ Head(b.lines) = b.lines[1]
          BY <3>1, <4>2, LastTail
        <5> QED BY <5>1 DEF ToSet
      <4>3. PICK x \in {Nothing, [b EXCEPT !.lines = Tail(@)]} :
              /\ held' = [held EXCEPT ![p] = x]
              /\ x # Nothing => Tail(b.lines) # <<>>
        BY <2>5, <4>2 DEF Put
      <4>4. x \in Batch \cup {Nothing}  BY <4>1, <4>3
      <4> QED BY <1>2, <4>3, <4>4
    <3>4. ShownOK'
      <4>1. \/ shown' = shown
            \/ shown' = [shown EXCEPT ![b.sid] = Append(@, Head(b.lines))]
        BY <2>5 DEF Put
      <4>2. Append(shown[b.sid], Head(b.lines)) \in Seq(Lines)
        BY <1>2, <3>1, <3>2
      <4> QED BY <1>2, <3>1, <4>1, <4>2
    <3>5. LostOK'
      <4>1. ToSet(b.lines) \subseteq Lines /\ {Head(b.lines)} \subseteq Lines
        BY <3>1, <3>2 DEF ToSet
      <4>2. \/ lost' = lost
            \/ lost' = [lost EXCEPT ![b.sid] = @ \cup {Head(b.lines)}]
            \/ \E gone \in {{Head(b.lines)}, ToSet(b.lines)} :
                  lost' = [lost EXCEPT ![b.sid] = @ \cup gone]
        BY <2>5 DEF Put
      <4>3. ASSUME NEW gone \in {{Head(b.lines)}, ToSet(b.lines)}
            PROVE  [lost EXCEPT ![b.sid] = @ \cup gone] \in [Sids -> SUBSET Lines]
        BY <1>2, <3>1, <4>1
      <4> QED BY <1>2, <4>2, <4>3
    <3> QED BY <1>2, <1>3, <2>5, <3>3, <3>4, <3>5 DEF Put, logVars
  <2>6. ASSUME NEW s \in Sids, RelayEnds(s) PROVE StreamOK'
    BY <1>q, <1>s, <2>6 DEF RelayEnds
  <2>7. ASSUME NEW s \in Sids, FlushDone(s) PROVE StreamOK'
    BY <1>4, <2>7 DEF FlushDone
  <2> QED BY <1>10, <2>1, <2>2, <2>3, <2>4, <2>5, <2>6, <2>7, <2>8 DEF Stream
<1> QED BY <1>4, <1>5, <1>6, <1>7, <1>8, <1>9, <1>10, StreamMove

LEMMA TypeStart == Init => TypeOK
<1> SUFFICES ASSUME Init PROVE TypeOK
  OBVIOUS
<1> USE LimitsAreLimits, BoundsAreNumbers DEF Init, Times, Routes
<1>1. FlagsOK     BY DEF FlagsOK
<1>2. RightsOK    BY <1>1 DEF RightsOK, Rights
<1>3. WireOK      BY DEF WireOK
<1>4. ChannelsOK  BY DEF ChannelsOK
<1>5. HostOK      BY DEF HostOK, Stages
<1>6. StreamOK
  <2>1. <<>> \in Seq(Lines) /\ Len(<<>>) = 0  BY EmptySeq
  <2> QED BY <2>1, NoSessionType DEF StreamOK
<1> QED BY <1>2, <1>3, <1>4, <1>5, <1>6, TypeParts

LEMMA TypeStep == TypeOK /\ [Next]_vars => TypeOK'
<1> SUFFICES ASSUME TypeOK, [Next]_vars PROVE TypeOK'
  OBVIOUS
<1>1. limit' \in Limits /\ clock' \in Times
  BY TypeParts, ClockMove DEF Tick, Times
<1>2. RightsOK' /\ WireOK' /\ ChannelsOK' /\ HostOK' /\ StreamOK'
  BY RightsTyped, WireTyped, ChannelsTyped, HostTyped, StreamTyped
<1> QED
  BY <1>1, <1>2 DEF TypeOK, RightsOK, FlagsOK, WireOK, ChannelsOK, HostOK, StreamOK, Session

(* Every variable of the two launchers stays within its type.              *)
THEOREM TypeCorrect == Spec => []TypeOK
  BY TypeStart, TypeStep, PTL DEF Spec
-----------------------------------------------------------------------------
(* Channels.                                                               *)

(* The channel the friend reads and has not closed is the one in the table:*)
(* opening another one or giving it up closes it first.                    *)
LEMMA ChannelKeptStep == TypeOK /\ ChannelKept /\ [Next]_vars => ChannelKept'
<1> SUFFICES ASSUME TypeOK, ChannelKept, [Next]_vars PROVE ChannelKept'
  OBVIOUS
<1> USE TypeParts, RequestsAreGiven DEF ChannelKept, ChannelsOK, Routes
<1>1. CASE UNCHANGED chanVars  BY <1>1 DEF chanVars
<1>2. ASSUME NEW g \in Channels, Dial(g) PROVE ChannelKept'         BY <1>2 DEF Dial
<1>3. ASSUME NEW g \in Channels, Connect(g) PROVE ChannelKept'      BY <1>3 DEF Connect
<1>4. ASSUME NEW g \in Channels, ReadingEnds(g) PROVE ChannelKept'  BY <1>4 DEF ReadingEnds
<1>5. ASSUME NEW g \in Channels, ServingEnds(g) PROVE ChannelKept'  BY <1>5 DEF ServingEnds
<1>6. ASSUME NEW r \in Req, SendRelayed(r) PROVE ChannelKept'       BY <1>6 DEF SendRelayed
<1> QED BY <1>1, <1>2, <1>3, <1>4, <1>5, <1>6, ChannelsMove

(* The end of an older channel's loop never takes the newer channel out of *)
(* use.                                                                    *)
THEOREM ChannelIsKept == Spec => []ChannelKept
<1>1. Init => ChannelKept  BY DEF Init, ChannelKept
<1> QED BY <1>1, ChannelKeptStep, TypeCorrect, PTL DEF Spec

(* A handler at work answers over a channel that is still served: the loop *)
(* of a channel ends only between two commands.                            *)
AtWork(r) == task[r] \in {"seen", "allowed", "flush"}
HandlersServed == \A r \in Req : AtWork(r) => via[r] \in serving \cup {Relay}

Owned == HandlersServed /\ NoOrphanSession

LEMMA ServedStep == TypeOK /\ HandlersServed /\ [Next]_vars => HandlersServed'
<1> SUFFICES ASSUME TypeOK, HandlersServed, [Next]_vars PROVE HandlersServed'
  OBVIOUS
<1> USE TypeParts DEF HandlersServed, AtWork, HostOK, ChannelsOK, Routes, Stages
<1>1. ASSUME NEW r \in Req, NEW v \in Routes, Receive(r, v) PROVE HandlersServed'
  BY <1>1 DEF Receive, Arrives, chanVars
<1>2. ASSUME NEW r \in Req, NEW from \in Stages \ {"none", "done"}, NEW to \in Stages,
             Enters(r, from, to), UNCHANGED <<via, chanVars>>
      PROVE  HandlersServed'
  BY <1>2 DEF Enters, chanVars
<1>3. ASSUME NEW r \in Req, Handle(r) PROVE HandlersServed'
  <2>1. CASE Authorize(r)     BY <2>1, <1>2 DEF Authorize
  <2>2. CASE StartOrStop(r)   BY <2>2, <1>2 DEF StartOrStop
  <2>3. CASE OpenConsole(r)   BY <2>3, <1>2 DEF OpenConsole
  <2>4. CASE Execute(r)       BY <2>4, <1>2 DEF Execute
  <2>5. CASE CloseConsole(r)  BY <2>5, <1>2 DEF CloseConsole
  <2> QED BY <1>3, <2>1, <2>2, <2>3, <2>4, <2>5 DEF Handle
<1>4. ASSUME NEW s \in Sids, FlushDone(s) PROVE HandlersServed'
  BY <1>2, <1>4, SidsAreRequests DEF FlushDone
<1>5. CASE UNCHANGED hostVars
  <2>1. CASE UNCHANGED serving
    BY <1>5, <2>1 DEF hostVars
  <2>2. ASSUME NEW g \in Channels, Dial(g) \/ Connect(g) \/ ReadingEnds(g) PROVE HandlersServed'
    BY <1>5, <2>2 DEF Dial, Connect, ReadingEnds, hostVars
  <2>3. ASSUME NEW g \in Channels, ServingEnds(g) PROVE HandlersServed'
    BY <1>5, <2>3 DEF ServingEnds, Idle, hostVars
  <2> QED BY <2>1, <2>2, <2>3, ChannelsMove DEF SendRelayed, chanVars
<1> QED BY <1>1, <1>3, <1>4, <1>5, HostMove

LEMMA OrphanStep == TypeOK /\ Owned /\ [Next]_vars => NoOrphanSession'
<1> SUFFICES ASSUME TypeOK, Owned, [Next]_vars PROVE NoOrphanSession'
  OBVIOUS
<1> USE TypeParts DEF NoOrphanSession, Owned, StreamOK, ChannelsOK, Routes
<1>1. ASSUME serving \subseteq serving',
             \A s \in Sids : sess'[s] = NoSession \/ sess'[s].tag = sess[s].tag
      PROVE  NoOrphanSession'
  <2>1. NoSession.tag = Relay  BY DEF NoSession
  <2> QED BY <1>1, <2>1
<1>4. ASSUME NEW g \in Channels, ServingEnds(g) PROVE NoOrphanSession'
  <2>1. NoSession.tag = Relay  BY DEF NoSession
  <2> QED BY <1>4, <2>1, RequestsAreGiven DEF ServingEnds
<1>2. CASE UNCHANGED streamVars
  <2>1. \/ serving \subseteq serving'
        \/ \E g \in Channels : ServingEnds(g)
    BY ChannelsMove DEF Dial, Connect, ReadingEnds, SendRelayed, chanVars
  <2> QED BY <1>1, <1>2, <1>4, <2>1 DEF streamVars
<1>3. CASE EndAll
  BY <1>1, <1>3 DEF EndAll, chanVars
<1>5. ASSUME NEW r \in Req, SendDirect(r) \/ SendRelayed(r) \/ Authorize(r) PROVE NoOrphanSession'
  BY <1>1, <1>5 DEF SendDirect, SendRelayed, Authorize, chanVars
<1>6. ASSUME NEW r \in Req, OpenConsole(r) PROVE NoOrphanSession'
  <2>1. via[r] \in serving \cup {Relay} /\ serving' = serving
    BY <1>6 DEF OpenConsole, HandlersServed, AtWork, Enters, chanVars, Owned
  <2>2. CASE UNCHANGED sess  BY <1>1, <2>1, <2>2
  <2>3. CASE sess' = [sess EXCEPT ![r] = [tag |-> via[r], expires |-> clock + SessionMax,
                                          pending |-> LastLines]]
    BY <2>1, <2>3
  <2> QED BY <1>6, <2>2, <2>3 DEF OpenConsole
<1>7. ASSUME NEW r \in Req, CloseConsole(r) PROVE NoOrphanSession'
  BY <1>1, <1>7 DEF CloseConsole, chanVars
<1>8. CASE Stream
  <2>1. CASE PrintLine \/ StartFails  BY <1>1, <2>1 DEF PrintLine, StartFails, chanVars
  <2>2. ASSUME NEW n \in due, OnLine(n) PROVE NoOrphanSession'
    BY <1>1, <2>2 DEF OnLine, chanVars, Session
  <2>3. ASSUME NEW p \in Flushers, NEW s \in Sids, Expel(p, s) PROVE NoOrphanSession'
    BY <1>1, <2>3 DEF Expel, chanVars
  <2>4. ASSUME NEW p \in Flushers, NEW s \in Sids, Take(p, s) PROVE NoOrphanSession'
    BY <1>1, <2>4 DEF Take, chanVars, Session
  <2>5. ASSUME NEW p \in Flushers, Put(p) PROVE NoOrphanSession'
    BY <1>1, <2>5 DEF Put, chanVars
  <2>6. ASSUME NEW s \in Sids, RelayEnds(s) PROVE NoOrphanSession'
    BY <1>1, <2>6 DEF RelayEnds, chanVars
  <2>7. ASSUME NEW s \in Sids, FlushDone(s) PROVE NoOrphanSession'
    BY <1>2, <2>7 DEF FlushDone
  <2> QED BY <1>8, <2>1, <2>2, <2>3, <2>4, <2>5, <2>6, <2>7 DEF Stream
<1> QED BY <1>2, <1>3, <1>4, <1>5, <1>6, <1>7, <1>8, StreamMove

(* A console session does not outlive the channel it was opened over.      *)
THEOREM SessionsHaveAChannel == Spec => []NoOrphanSession
<1>1. Init => Owned
  BY DEF Init, Owned, HandlersServed, AtWork, NoOrphanSession, NoSession
<1>2. TypeOK /\ Owned /\ [Next]_vars => Owned'
  BY ServedStep, OrphanStep DEF Owned
<1>3. Owned => NoOrphanSession  BY DEF Owned
<1> QED BY <1>1, <1>2, <1>3, TypeCorrect, PTL DEF Spec
-----------------------------------------------------------------------------
(* Repeated commands.                                                      *)

(* A request that was handled is remembered, or no copy of it is fresh.    *)
Once(r) ==
  /\ acted[r] <= 1
  /\ task[r] \in {"none", "seen", "allowed"} => acted[r] = 0
  /\ task[r] # "none" => sent[r] # 0 /\ (seen[r] # 0 \/ clock > sent[r] + Window)
  /\ seen[r] # 0 => sent[r] # 0 /\ sent[r] <= seen[r] + Window /\ seen[r] <= clock

OnceInv == \A r \in Req : Once(r)

LEMMA RoomAlways == HostOK => Room
<1> DEFINE S == {q \in Req : Kept[q] # 0}
<1>1. IsFiniteSet(Req) /\ S \subseteq Req  BY RequestsAreGiven
<1>2. Cardinality(S) <= Cardinality(Req) /\ Cardinality(S) \in Nat /\ Cardinality(Req) \in Nat
  BY <1>1, FS_Subset, FS_CardinalityType
<1>3. SeenCap \in Nat  BY BoundsAreNumbers
<1> HIDE DEF S
<1>4. Cardinality(S) <= SeenCap  BY <1>2, <1>3, MemoryIsLargeEnough
<1> QED BY <1>4 DEF Room, S

(* What makes a fresh copy of a handled request impossible to miss.        *)
LEMMA ForgottenIsOld ==
  ASSUME TypeOK, NEW r \in Req, Once(r)
  PROVE  /\ seen[r] # 0 /\ Kept[r] = 0 => clock > sent[r] + Window
         /\ Fresh(r) /\ Kept[r] = 0 => task[r] = "none"
<1>1. /\ clock \in Nat /\ sent[r] \in Nat /\ seen[r] \in Nat
      /\ Window \in Nat /\ ReplayTTL \in Nat
  BY TypeParts, BoundsAreNumbers DEF WireOK, HostOK, Times
<1>2. Kept[r] = IF seen[r] # 0 /\ clock - seen[r] > ReplayTTL THEN 0 ELSE seen[r]
  BY DEF Kept
<1>3. seen[r] # 0 /\ Kept[r] = 0 => clock > sent[r] + Window
  BY <1>1, <1>2, MemoryOutlivesFreshness DEF Once
<1>4. Fresh(r) => clock <= sent[r] + Window
  BY <1>1 DEF Fresh, Age
<1>5. seen[r] = 0 \/ seen[r] # 0  OBVIOUS
<1> QED BY <1>1, <1>3, <1>4 DEF Once

LEMMA OnceStep == TypeOK /\ OnceInv /\ [Next]_vars => OnceInv'
<1> SUFFICES ASSUME TypeOK, OnceInv, [Next]_vars, NEW r \in Req PROVE Once(r)'
  BY DEF OnceInv
<1>0. /\ clock \in Nat /\ sent \in [Req -> Nat] /\ seen \in [Req -> Nat]
      /\ task \in [Req -> Stages] /\ acted \in [Req -> Nat] /\ Window \in Nat
  BY TypeParts, BoundsAreNumbers DEF WireOK, HostOK, Times
<1>1. Once(r)  BY DEF OnceInv
<1>2. clock' \in Nat /\ clock' >= clock
  BY <1>0, ClockMove DEF Tick
<1>3. UNCHANGED <<hostVars, sent>> => Once(r)'
  BY <1>0, <1>1, <1>2 DEF Once, hostVars
<1>4. ASSUME NEW q \in Req, SendDirect(q) \/ SendRelayed(q) PROVE Once(r)'
  <2>1. /\ sent[q] = 0 /\ UNCHANGED <<hostVars, clock>>
        /\ Stamp(q)
    BY <1>4 DEF SendDirect, SendRelayed, MayAsk
  <2>2. PICK t \in (clock - Drift)..(clock + Drift) : t > 0 /\ sent' = [sent EXCEPT ![q] = t]
    BY <2>1 DEF Stamp
  <2>3. CASE q = r
    BY <1>0, <1>1, <2>1, <2>2, <2>3 DEF Once, hostVars
  <2>4. CASE q # r
    BY <1>0, <1>1, <2>1, <2>2, <2>4 DEF Once, hostVars
  <2> QED BY <2>3, <2>4
<1>5. ASSUME NEW q \in Req, NEW v \in Routes, Receive(q, v) PROVE Once(r)'
  <2>1. UNCHANGED <<clock, sent, acted>>  BY <1>5 DEF Receive
  <2>2. Fresh(q) /\ sent[q] # 0 /\ sent[q] <= clock + Window /\ clock # 0
    BY <1>0, <1>5, TypeParts DEF Receive, Fresh, Age, Times
  <2>3. /\ Kept[r] = 0 \/ Kept[r] = seen[r]
        /\ Kept \in [Req -> Nat]
    BY <1>0 DEF Kept
  <2>4. seen[r] # 0 /\ Kept[r] = 0 => clock > sent[r] + Window
    BY <1>1, ForgottenIsOld
  <2>5. CASE seen' = Kept /\ UNCHANGED <<task, via>>
    BY <1>0, <1>1, <2>1, <2>3, <2>4, <2>5 DEF Once
  <2>6. CASE /\ Kept[q] = 0
             /\ seen' = [p \in Req |-> IF p = q THEN clock ELSE IF Room THEN Kept[p] ELSE 0]
             /\ task' = [task EXCEPT ![q] = "seen"]
    <3>1. Room  BY RoomAlways, TypeParts
    <3>2. CASE q = r
      <4>1. task[r] = "none"  BY <1>1, <2>2, <2>6, <3>2, ForgottenIsOld
      <4>2. seen'[r] = clock /\ task'[r] = "seen"  BY <1>0, <2>6, <3>2
      <4> QED BY <1>0, <1>1, <2>1, <2>2, <3>2, <4>1, <4>2 DEF Once
    <3>3. CASE q # r
      <4>1. seen'[r] = Kept[r] /\ task'[r] = task[r]  BY <1>0, <2>6, <3>1, <3>3
      <4> QED BY <1>0, <1>1, <2>1, <2>3, <2>4, <4>1 DEF Once
    <3> QED BY <3>2, <3>3
  <2> QED BY <1>5, <2>5, <2>6 DEF Receive
<1>6. ASSUME NEW q \in Req, NEW from \in Stages \ {"none"}, NEW to \in Stages \ {"none"},
             Enters(q, from, to),
             \/ UNCHANGED acted /\ (to \in {"seen", "allowed"} => from \in {"seen", "allowed"})
             \/ Acts(q) /\ from = "allowed" /\ to \in {"flush", "done"},
             UNCHANGED <<seen, sent, clock>>
      PROVE  Once(r)'
  <2>1. CASE q = r
    <3>1. task[r] = from /\ task'[r] = to  BY <1>0, <1>6, <2>1 DEF Enters
    <3>2. CASE UNCHANGED acted /\ (to \in {"seen", "allowed"} => from \in {"seen", "allowed"})
      BY <1>0, <1>1, <1>6, <3>1, <3>2 DEF Once
    <3>3. CASE Acts(q) /\ from = "allowed" /\ to \in {"flush", "done"}
      <4>1. acted'[r] = acted[r] + 1 /\ acted[r] = 0
        BY <1>0, <1>1, <2>1, <3>1, <3>3 DEF Acts, Once
      <4> QED BY <1>0, <1>1, <1>6, <3>1, <3>3, <4>1 DEF Once
    <3> QED BY <1>6, <3>2, <3>3
  <2>2. CASE q # r
    <3>1. task'[r] = task[r] /\ acted'[r] = acted[r]
      BY <1>0, <1>6, <2>2 DEF Enters, Acts
    <3> QED BY <1>0, <1>1, <1>6, <3>1 DEF Once
  <2> QED BY <2>1, <2>2
<1>7. ASSUME NEW q \in Req, Handle(q) PROVE Once(r)'
  <2> USE DEF Stages, wireVars
  <2>1. CASE Authorize(q)     BY <2>1, <1>6 DEF Authorize
  <2>2. CASE StartOrStop(q)   BY <2>2, <1>6 DEF StartOrStop
  <2>3. CASE OpenConsole(q)   BY <2>3, <1>6 DEF OpenConsole
  <2>4. CASE Execute(q)       BY <2>4, <1>6 DEF Execute
  <2>5. CASE CloseConsole(q)  BY <2>5, <1>6 DEF CloseConsole
  <2> QED BY <1>7, <2>1, <2>2, <2>3, <2>4, <2>5 DEF Handle
<1>8. ASSUME NEW s \in Sids, FlushDone(s) PROVE Once(r)'
  BY <1>6, <1>8, SidsAreRequests DEF FlushDone, Stages, wireVars
<1>9. CASE UNCHANGED hostVars
  BY <1>3, <1>4, <1>5, <1>9, WireMove DEF wireVars, ServingEnds
<1> QED BY <1>5, <1>7, <1>8, <1>9, HostMove

(* A command takes effect at most once, whatever the VPS repeats, for any  *)
(* clock drift: the memory of commands outlives their freshness.           *)
THEOREM CommandsActOnce == Spec => []ActsOnce
<1>1. Init => OnceInv
  BY BoundsAreNumbers DEF Init, OnceInv, Once
<1>2. OnceInv => ActsOnce  BY DEF OnceInv, Once, ActsOnce
<1> QED BY <1>1, <1>2, OnceStep, TypeCorrect, PTL DEF Spec
-----------------------------------------------------------------------------
(* The console stream.                                                     *)
UpTo(q, m) == \A i \in 1..Len(q) : q[i] <= m

(* Only printed lines are on their way.                                    *)
Waiting == /\ \A s \in Sids : UpTo(sess[s].pending, log)
           /\ \A n \in due : n <= log
OnTheWay(m) == /\ \A s \in Sids : UpTo(shown[s], m)
               /\ \A p \in Flushers : UpTo(held[p].lines, m)

Printed == Waiting /\ OnTheWay(log)

LEMMA UpToParts ==
  ASSUME NEW q \in Seq(Lines), NEW m \in Nat, UpTo(q, m)
  PROVE  /\ \A n \in Lines : n <= m => UpTo(Append(q, n), m)
         /\ q # <<>> => Head(q) <= m /\ UpTo(Tail(q), m)
         /\ \A i \in 1..(Len(q) + 1), j \in 0..Len(q) : UpTo(SubSeq(q, i, j), m)
         /\ \A k \in Nat : k >= m => UpTo(q, k)
<1>1. ASSUME NEW n \in Lines, n <= m PROVE UpTo(Append(q, n), m)
  BY <1>1 DEF UpTo
<1>2. ASSUME q # <<>> PROVE Head(q) <= m /\ UpTo(Tail(q), m)
  <2>1. /\ Len(Tail(q)) = Len(q) - 1 /\ Len(q) \in Nat \ {0} /\ Head(q) = q[1]
        /\ \A i \in 1..Len(Tail(q)) : Tail(q)[i] = q[i + 1]
    BY <1>2, HeadTailProperties, EmptySeq
  <2> QED BY <2>1 DEF UpTo
<1>3. ASSUME NEW i \in 1..(Len(q) + 1), NEW j \in 0..Len(q) PROVE UpTo(SubSeq(q, i, j), m)
  BY SubSeqType DEF UpTo
<1>4. ASSUME NEW k \in Nat, k >= m PROVE UpTo(q, k)
  <2>1. \A i \in 1..Len(q) : q[i] \in Nat  BY DEF Lines
  <2> QED BY <1>4, <2>1 DEF UpTo
<1> QED BY <1>1, <1>2, <1>3, <1>4

LEMMA HeldLines == TypeOK => \A p \in Flushers : held[p].lines \in Seq(Lines)
<1> SUFFICES ASSUME TypeOK, NEW p \in Flushers PROVE held[p].lines \in Seq(Lines)
  OBVIOUS
<1>1. held[p] \in Batch \/ held[p] = Nothing  BY TypeParts DEF StreamOK
<1>2. CASE held[p] \in Batch  BY <1>2 DEF Batch
<1>3. CASE held[p] = Nothing
  <2>1. Nothing.lines = <<>>  BY DEF Nothing
  <2> QED BY <1>3, <2>1, EmptySeq
<1> QED BY <1>1, <1>2, <1>3

(* Sending shows and keeps only what was taken.                            *)
LEMMA PutBound ==
  ASSUME TypeOK, NEW m \in Nat, OnTheWay(m), NEW p \in Flushers, Put(p)
  PROVE  OnTheWay(m)'
<1> DEFINE b == held[p]
<1>1. b \in Batch /\ b.sid \in Sids /\ b.lines \in Seq(Lines) /\ b.lines # <<>>
  BY TypeParts DEF Put, Batch, StreamOK
<1>2. Head(b.lines) \in Lines /\ Head(b.lines) <= m /\ UpTo(Tail(b.lines), m)
  BY <1>1, UpToParts DEF OnTheWay
<1>3. \A s \in Sids : UpTo(shown'[s], m)
  <2>1. \/ shown' = shown
        \/ shown' = [shown EXCEPT ![b.sid] = Append(@, Head(b.lines))]
    BY DEF Put
  <2>2. shown \in [Sids -> Seq(Lines)]  BY TypeParts DEF StreamOK
  <2>3. UpTo(Append(shown[b.sid], Head(b.lines)), m)
    BY <1>1, <1>2, <2>2, UpToParts DEF OnTheWay
  <2> QED BY <1>1, <2>1, <2>2, <2>3 DEF OnTheWay
<1>4. \A q \in Flushers : UpTo(held'[q].lines, m)
  <2>1. PICK x \in {Nothing, [b EXCEPT !.lines = Tail(@)]} : held' = [held EXCEPT ![p] = x]
    BY DEF Put
  <2>2. Nothing.lines = <<>>  BY DEF Nothing
  <2>3. UpTo(<<>>, m)  BY EmptySeq DEF UpTo
  <2>4. [b EXCEPT !.lines = Tail(@)].lines = Tail(b.lines)  BY <1>1 DEF Batch
  <2>5. UpTo(x.lines, m)  BY <1>2, <2>2, <2>3, <2>4
  <2>6. held \in [Flushers -> Batch \cup {Nothing}]  BY TypeParts DEF StreamOK
  <2> QED BY <2>1, <2>5, <2>6 DEF OnTheWay
<1> QED BY <1>3, <1>4 DEF OnTheWay

LEMMA PrintedStep == TypeOK /\ Printed /\ [Next]_vars => Printed'
<1> SUFFICES ASSUME TypeOK, Printed, [Next]_vars PROVE Printed'
  OBVIOUS
<1>0. /\ StreamOK /\ log \in Nat /\ sess \in [Sids -> Session]
      /\ held \in [Flushers -> Batch \cup {Nothing}]
  BY TypeParts DEF StreamOK
<1>n. NoSession.pending = <<>> /\ UpTo(<<>>, log)
  BY EmptySeq DEF UpTo, NoSession
<1>b. base \in 0..log  BY <1>0 DEF StreamOK
<1>1. ASSUME UNCHANGED <<held, log, due, shown>>,
             \A s \in Sids : sess'[s] = sess[s] \/ sess'[s] = NoSession
      PROVE  Printed'
  <2>1. Waiting'  BY <1>1, <1>n DEF Printed, Waiting
  <2> QED BY <1>1, <2>1 DEF Printed, OnTheWay
<1> USE DEF logVars
<1>2. CASE UNCHANGED streamVars  BY <1>1, <1>2 DEF streamVars
<1>3. CASE EndAll  BY <1>1, <1>3 DEF EndAll
<1>4. ASSUME NEW g \in Channels, ServingEnds(g) PROVE Printed'
  BY <1>1, <1>4 DEF ServingEnds
<1>5. ASSUME NEW r \in Req, SendDirect(r) \/ SendRelayed(r) \/ Authorize(r) PROVE Printed'
  BY <1>1, <1>5 DEF SendDirect, SendRelayed, Authorize
<1>6. ASSUME NEW r \in Req, OpenConsole(r) PROVE Printed'
  <2>1. UpTo(LastLines, log)
    BY <1>0, <1>b, LastLinesType DEF UpTo
  <2>2. UNCHANGED <<held, log, due, shown>>  BY <1>6 DEF OpenConsole
  <2>3. CASE UNCHANGED sess  BY <1>1, <2>2, <2>3
  <2>4. CASE sess' = [sess EXCEPT ![r] = [tag |-> via[r], expires |-> clock + SessionMax,
                                          pending |-> LastLines]]
    <3>1. \A s \in Sids : UpTo(sess'[s].pending, log)
      BY <1>0, <2>1, <2>4 DEF Printed, Waiting
    <3>2. Waiting'  BY <2>2, <3>1 DEF Printed, Waiting
    <3> QED BY <2>2, <3>2 DEF Printed, OnTheWay
  <2> QED BY <1>6, <2>3, <2>4 DEF OpenConsole
<1>7. ASSUME NEW r \in Req, CloseConsole(r) PROVE Printed'
  BY <1>0, <1>1, <1>7 DEF CloseConsole
<1>8. CASE PrintLine
  <2>1. log' = log + 1 /\ due' = due \cup {log + 1} /\ UNCHANGED <<sess, held, shown>>
    BY <1>8 DEF PrintLine
  <2>2. ASSUME NEW q \in Seq(Lines), UpTo(q, log) PROVE UpTo(q, log')
    BY <1>0, <2>1, <2>2, UpToParts
  <2>3. Waiting'
    <3>1. \A s \in Sids : UpTo(sess[s].pending, log')
      BY <1>0, <2>2 DEF Printed, Waiting, Session
    <3>2. \A n \in due' : n <= log'
      BY <1>0, <2>1 DEF Printed, Waiting, StreamOK, Lines
    <3> QED BY <2>1, <3>1, <3>2 DEF Waiting
  <2>4. OnTheWay(log)'
    BY <1>0, <2>1, <2>2, HeldLines DEF Printed, OnTheWay, StreamOK
  <2> QED BY <2>3, <2>4 DEF Printed
<1>9. ASSUME NEW n \in due, OnLine(n) PROVE Printed'
  <2>1. UNCHANGED <<held, log, shown>> /\ due' \subseteq due /\ n \in Lines /\ n <= log
    BY <1>0, <1>9 DEF OnLine, Printed, Waiting, StreamOK
  <2>2. ASSUME NEW s \in Sids PROVE UpTo(sess'[s].pending, log)
    <3> DEFINE q == sess[s].pending
               a == Append(q, n)
    <3>1. q \in Seq(Lines) /\ UpTo(q, log)  BY <1>0 DEF Session, Printed, Waiting
    <3>2. a \in Seq(Lines) /\ Len(a) = Len(q) + 1 /\ Len(q) \in Nat  BY <2>1, <3>1
    <3>3. UpTo(a, log)  BY <1>0, <2>1, <3>1, UpToParts
    <3>4. MaxPending \in Nat  BY BoundsAreNumbers
    <3> DEFINE cut == SubSeq(a, Len(q) + 2 - MaxPending, Len(q) + 1)
    <3>5. \/ sess'[s] = sess[s]
          \/ sess'[s] = [sess[s] EXCEPT !.pending = a]
          \/ Len(q) >= MaxPending /\ sess'[s] = [sess[s] EXCEPT !.pending = cut]
      BY <1>9 DEF OnLine, Overflow
    <3>6. Len(q) >= MaxPending => UpTo(cut, log)
      <4> HIDE DEF q, a
      <4> SUFFICES ASSUME Len(q) >= MaxPending PROVE UpTo(cut, log)
        OBVIOUS
      <4>1. Len(q) + 2 - MaxPending \in 1..(Len(a) + 1) /\ Len(q) + 1 \in 0..Len(a)
        BY <3>2, <3>4
      <4> QED BY <1>0, <3>2, <3>3, <4>1, UpToParts
    <3>7. sess[s] \in Session  BY <1>0
    <3> HIDE DEF a, cut
    <3> QED BY <3>1, <3>3, <3>5, <3>6, <3>7 DEF Session
  <2>3. Waiting'  BY <2>1, <2>2 DEF Printed, Waiting
  <2> QED BY <2>1, <2>3 DEF Printed, OnTheWay
<1>10. ASSUME NEW p \in Flushers, NEW s \in Sids, Take(p, s) PROVE Printed'
  <2>1. PICK fit, rest, gone : Taken(p, s, fit, rest, gone)
    BY <1>10, TakeShape
  <2>2. sess[s] \in Session /\ UpTo(sess[s].pending, log)
    BY <1>0 DEF Printed, Waiting
  <2>3. UpTo(fit, log) /\ UpTo(rest, log)
    BY <2>1, <2>2 DEF Taken, Among, UpTo
  <2>4. UNCHANGED <<log, due, shown>>  BY <1>10 DEF Take
  <2>5. Waiting'
    <3>1. \A z \in Sids : UpTo(sess'[z].pending, log)
      BY <1>0, <2>1, <2>2, <2>3 DEF Printed, Waiting, Taken, Session
    <3> QED BY <2>4, <3>1 DEF Printed, Waiting
  <2>6. OnTheWay(log)'
    <3>1. \A f \in Flushers : UpTo(held'[f].lines, log)
      BY <1>0, <2>1, <2>3 DEF Printed, OnTheWay, Taken
    <3> QED BY <2>4, <3>1 DEF Printed, OnTheWay
  <2> QED BY <2>5, <2>6 DEF Printed
<1>11. ASSUME NEW p \in Flushers, Put(p) PROVE Printed'
  <2>1. UNCHANGED <<log, due, sess>>  BY <1>11 DEF Put
  <2>2. \A s \in Sids : UpTo(shown'[s], log)
    BY <1>0, <1>11, PutBound DEF Printed, OnTheWay
  <2>3. \A q \in Flushers : UpTo(held'[q].lines, log)
    BY <1>0, <1>11, PutBound DEF Printed, OnTheWay
  <2> QED BY <2>1, <2>2, <2>3 DEF Printed, Waiting, OnTheWay
<1>12. ASSUME NEW p \in Flushers, NEW s \in Sids, Expel(p, s) PROVE Printed'
  BY <1>0, <1>1, <1>12 DEF Expel
<1>13. ASSUME NEW s \in Sids, RelayEnds(s) PROVE Printed'
  BY <1>0, <1>1, <1>13 DEF RelayEnds
<1>14. ASSUME NEW s \in Sids, FlushDone(s) PROVE Printed'
  BY <1>2, <1>14 DEF FlushDone
<1>16. CASE StartFails  BY <1>1, <1>16 DEF StartFails
<1>15. Stream => Printed'
  BY <1>16, <1>8, <1>9, <1>10, <1>11, <1>12, <1>13, <1>14 DEF Stream
<1> QED BY <1>2, <1>3, <1>4, <1>5, <1>6, <1>7, <1>15, StreamMove

Dark == Deprived => OnTheWay(mark)

(* Who has the console is not deprived of it.                              *)
LEMMA HasItOrNot == TypeOK => ~(HasConsole /\ Deprived)
  BY TypeParts, BoundsAreNumbers DEF HasConsole, Deprived, Stale, RightsOK, Times

LEMMA MarkStep ==
  ASSUME TypeOK, [Next]_vars
  PROVE  \/ UNCHANGED rightVars
         \/ Mark /\ UNCHANGED <<log, held, shown>>
         \/ UNCHANGED <<isFriend, since, rights, added, paused, givenNow, mark, log, held, shown>>
<1>1. OwnerMoves => Mark
  BY DEF OwnerMoves, SetGrant, SetPaused, RemoveFriend, PurgeRights, FriendLeaves, Befriend
<1>2. ASSUME NEW r \in Req, Authorize(r) \/ Execute(r)
      PROVE  UNCHANGED rightVars \/ (Mark /\ UNCHANGED <<log, held, shown>>)
  BY <1>2 DEF Authorize, Execute, ForgetStale, streamVars, logVars
<1> QED BY <1>1, <1>2, RightsMove DEF EndAll, streamVars, logVars

LEMMA DarkStep == TypeOK /\ Printed /\ Dark /\ [Next]_vars => Dark'
<1> SUFFICES ASSUME TypeOK, Printed, Dark, [Next]_vars, Deprived' PROVE OnTheWay(mark)'
  BY DEF Dark
<1>0. mark \in Nat /\ log \in Nat  BY TypeParts DEF RightsOK, StreamOK
<1>1. CASE Mark /\ UNCHANGED <<log, held, shown>>
  <2>1. CASE Deprived
    <3>1. mark' = mark  BY <1>1, <2>1 DEF Mark
    <3> QED BY <1>1, <2>1, <3>1 DEF Dark, OnTheWay
  <2>2. CASE ~Deprived
    <3>1. mark' = log  BY <1>1, <2>2 DEF Mark
    <3> QED BY <1>1, <3>1 DEF Printed, OnTheWay
  <2> QED BY <2>1, <2>2
<1>2. CASE UNCHANGED <<isFriend, since, rights, added, paused, givenNow, mark, log, held, shown>>
  BY <1>2 DEF Deprived, Dark, OnTheWay
<1>3. CASE UNCHANGED rightVars
  <2>1. Deprived /\ mark' = mark /\ OnTheWay(mark)  BY <1>3 DEF Deprived, rightVars, Dark
  <2>2. CASE UNCHANGED <<held, shown>>  BY <2>1, <2>2 DEF OnTheWay
  <2>3. ASSUME NEW p \in Flushers, NEW s \in Sids, Take(p, s) PROVE FALSE
    BY <2>1, <2>3, HasItOrNot DEF Take, Over
  <2>4. ASSUME NEW p \in Flushers, Put(p) PROVE OnTheWay(mark)'
    <3>1. \A s \in Sids : UpTo(shown'[s], mark)
      BY <1>0, <2>1, <2>4, PutBound DEF OnTheWay
    <3>2. \A q \in Flushers : UpTo(held'[q].lines, mark)
      BY <1>0, <2>1, <2>4, PutBound DEF OnTheWay
    <3> QED BY <2>1, <3>1, <3>2 DEF OnTheWay
  <2>5. CASE Stream
    BY <2>2, <2>3, <2>4, <2>5 DEF Stream, PrintLine, StartFails, OnLine, Expel, RelayEnds, FlushDone, streamVars
  <2> QED
    BY <2>2, <2>5, StreamMove DEF EndAll, ServingEnds, SendDirect, SendRelayed, Authorize,
                                  OpenConsole, CloseConsole, streamVars
<1> QED BY <1>1, <1>2, <1>3, MarkStep

LEMMA PrintedStart == Init => Printed /\ Dark
<1> SUFFICES ASSUME Init PROVE Printed /\ Dark
  OBVIOUS
<1>1. UpTo(<<>>, 0)  BY EmptySeq DEF UpTo
<1>2. NoSession.pending = <<>> /\ Nothing.lines = <<>>  BY DEF NoSession, Nothing
<1> QED BY <1>1, <1>2 DEF Init, Printed, Waiting, OnTheWay, Dark

(* What is printed after the console was taken from the friend stays with  *)
(* the owner, whatever was under way.                                      *)
THEOREM NothingLeaks == Spec => []NothingAfterLoss
<1>1. Dark => NothingAfterLoss  BY DEF Dark, OnTheWay, UpTo, NothingAfterLoss
<1> QED BY <1>1, PrintedStart, PrintedStep, DarkStep, TypeCorrect, PTL DEF Spec

LEMMA InOrderStep == TypeOK /\ Printed /\ ShownInOrder /\ [Next]_vars => ShownInOrder'
<1> SUFFICES ASSUME TypeOK, Printed, ShownInOrder, [Next]_vars PROVE ShownInOrder'
  OBVIOUS
<1>0. /\ shown \in [Sids -> Seq(Lines)] /\ log \in Nat
      /\ number \in Seq(Lines) /\ Len(number) = log
      /\ number \in [1..log -> Lines]
  BY TypeParts DEF StreamOK
<1>p. ASSUME NEW s \in Sids, NEW i \in 1..Len(shown[s])
      PROVE  shown[s][i] \in 1..log /\ number[shown[s][i]] \in Nat
  <2>1. shown[s][i] \in Lines /\ shown[s][i] <= log
    BY <1>0, <1>p DEF Printed, OnTheWay, UpTo
  <2>2. shown[s][i] \in 1..log  BY <1>0, <2>1 DEF Lines
  <2> QED BY <1>0, <2>2 DEF Lines
<1>1. CASE UNCHANGED <<shown, number>>  BY <1>1 DEF ShownInOrder
<1>n. CASE PrintLine
  <2>1. shown' = shown /\ \A k \in 1..log : number'[k] = number[k]
    <3>1. log + 1 - base \in Lines  BY TypeParts DEF StreamOK, Lines
    <3>2. number' = Append(number, log + 1 - base) /\ shown' = shown  BY <1>n DEF PrintLine
    <3> QED BY <1>0, <3>1, <3>2, AppendProperties
  <2> QED BY <1>p, <2>1 DEF ShownInOrder
<1>2. ASSUME NEW p \in Flushers, Put(p) PROVE ShownInOrder'
  <2> DEFINE s == held[p].sid
             n == Head(held[p].lines)
             q == shown[s]
  <2>1. s \in Sids /\ n \in Lines /\ n \in 1..log /\ number' = number
    <3>1. held[p] \in Batch  BY <1>2, TypeParts DEF Put, StreamOK
    <3>2. held[p].lines \in Seq(Lines) /\ held[p].lines # <<>> /\ s \in Sids
      BY <3>1 DEF Batch
    <3>3. UpTo(held[p].lines, log)  BY DEF Printed, OnTheWay
    <3>4. n \in Lines /\ n <= log  BY <1>0, <3>2, <3>3, UpToParts
    <3> QED BY <1>0, <1>2, <3>2, <3>4 DEF Lines, Put, logVars
  <2>2. CASE Newer(s, n) /\ shown' = [shown EXCEPT ![s] = Append(@, n)]
    <3>1. q \in Seq(Lines) /\ Len(q) \in Nat  BY <1>0, <2>1
    <3>2. /\ Len(Append(q, n)) = Len(q) + 1
          /\ Append(q, n)[Len(q) + 1] = n
          /\ \A i \in 1..Len(q) : Append(q, n)[i] = q[i] /\ number[q[i]] \in Nat
      BY <1>p, <2>1, <3>1
    <3>3. \A i, j \in 1..Len(q) : i < j => number[q[i]] < number[q[j]]
      BY <2>1 DEF ShownInOrder
    <3>4. \A i \in 1..Len(q) : number[q[i]] < number[n]
      <4>1. CASE q = <<>>  BY <3>1, <4>1, EmptySeq
      <4>2. CASE q # <<>>
        <5>1. number[n] > number[q[Len(q)]] /\ Len(q) \in 1..Len(q)
          BY <2>2, <3>1, <4>2, EmptySeq DEF Newer, Last
        <5>2. number[n] \in Nat  BY <1>0, <2>1 DEF Lines
        <5> DEFINE k == Len(q)
        <5>3. k \in Nat /\ k \in 1..k /\ number[n] > number[q[k]]  BY <3>1, <5>1
        <5>4. ASSUME NEW i \in 1..k PROVE number[q[i]] < number[n]
          <6>1. number[q[i]] \in Nat /\ number[q[k]] \in Nat  BY <3>2, <5>3
          <6>2. i = k \/ number[q[i]] < number[q[k]]
            <7>1. i < k => number[q[i]] < number[q[k]]  BY <3>3, <5>3
            <7> QED BY <5>3, <7>1
          <6> HIDE DEF k, q, n
          <6> QED BY <5>2, <5>3, <6>1, <6>2
        <5> QED BY <5>4
      <4> QED BY <4>1, <4>2
    <3>5. \A i, j \in 1..Len(Append(q, n)) :
            i < j => number[Append(q, n)[i]] < number[Append(q, n)[j]]
      <4> DEFINE a == Append(q, n)
                 k == Len(q)
      <4> SUFFICES ASSUME NEW i \in 1..(k + 1), NEW j \in 1..(k + 1), i < j
                   PROVE  number[a[i]] < number[a[j]]
        BY <3>2
      <4>1. k \in Nat /\ i \in 1..k /\ (j \in 1..k \/ j = k + 1)  BY <3>1
      <4>2. a[i] = q[i]  BY <3>2, <4>1
      <4>3. CASE j \in 1..k  BY <3>2, <3>3, <4>1, <4>2, <4>3
      <4>4. CASE j = k + 1  BY <3>2, <3>4, <4>1, <4>2, <4>4
      <4> QED BY <4>1, <4>3, <4>4
    <3> QED BY <1>0, <2>1, <2>2, <3>5 DEF ShownInOrder
  <2> QED BY <1>1, <1>2, <2>1, <2>2 DEF Put
<1>3. CASE Stream
  BY <1>1, <1>2, <1>n, <1>3
  DEF Stream, StartFails, OnLine, Take, Expel, RelayEnds, FlushDone, streamVars, logVars
<1> QED
  BY <1>1, <1>3, StreamMove DEF EndAll, ServingEnds, SendDirect, SendRelayed, Authorize,
                                OpenConsole, CloseConsole, streamVars, logVars

(* The friend sees lines in the order of their numbers, none twice,        *)
(* although the backlog, the ticker and the opening of the console may each *)
(* send the same line and the buffer may be replaced.                      *)
THEOREM LinesInOrder == Spec => []ShownInOrder
<1>1. Init => ShownInOrder  BY EmptySeq DEF Init, ShownInOrder
<1> QED BY <1>1, InOrderStep, PrintedStart, PrintedStep, TypeCorrect, PTL DEF Spec
-----------------------------------------------------------------------------
(* Nothing falls between the backlog and the stream.                       *)
(* A session that the friend has not asked for is not there.               *)
Asked == \A s \in Sids :
  /\ view[s] = "none" => sent[s] = 0
  /\ task[s] # "none" \/ Live(s) => sent[s] # 0

(* Where a line of a session may be.                                       *)
Carried(s, n) == \E p \in Flushers : held[p].sid = s /\ Among(held[p].lines, n)

Known(s, n) ==
  \/ n \in due \/ Among(sess[s].pending, n) \/ n \in lost[s]
  \/ Carried(s, n) \/ PassedBy(s, n) \/ view[s] # "on"

Followed == \A s \in Sids : Live(s) => \A n \in 1..log : Known(s, n)

(* A console is open only when it was asked for.                           *)
LEMMA AskedStep == TypeOK /\ Asked /\ [Next]_vars => Asked'
<1> SUFFICES ASSUME TypeOK, Asked, [Next]_vars, NEW s \in Sids
             PROVE  /\ view'[s] = "none" => sent'[s] = 0
                    /\ task'[s] # "none" \/ Live(s)' => sent'[s] # 0
  BY DEF Asked
<1>0. /\ view \in Views /\ sent \in [Req -> Nat] /\ task \in [Req -> Stages]
      /\ sess \in [Sids -> Session] /\ s \in Req /\ Op[s] = "open"
  BY TypeParts DEF StreamOK, WireOK, HostOK, Views, Sids
<1>a. /\ view[s] = "none" => sent[s] = 0
      /\ task[s] # "none" \/ Live(s) => sent[s] # 0
  BY DEF Asked
<1>1. sent[s] # 0 => sent'[s] # 0
  BY <1>0, WireMove DEF wireVars, ServingEnds, SendDirect, SendRelayed, Receive, MayAsk,
                        Stamp
<1>2. view'[s] = "none" => view[s] = "none" /\ sent'[s] = sent[s]
  <2>1. ASSUME NEW r \in Req, SendDirect(r) \/ SendRelayed(r), view'[s] = "none"
        PROVE  view[s] = "none" /\ sent'[s] = sent[s]
    BY <1>0, <2>1 DEF SendDirect, SendRelayed, Stamp, ViewAfterSend, MayAsk, Views
  <2>2. ASSUME NEW r \in Req, NEW ok \in BOOLEAN, Answer(r, ok), view'[s] = "none"
        PROVE  view[s] = "none"
    BY <1>0, <2>2 DEF Answer, Views
  <2>3. ASSUME NEW S, TellEnd(S), view'[s] = "none" PROVE view[s] = "none"
    BY <2>3 DEF TellEnd
  <2>4. CASE \E r \in Req : SendDirect(r) \/ SendRelayed(r)
    BY <2>1, <2>4
  <2>5. CASE UNCHANGED wireVars \/ (\E g \in Channels : ServingEnds(g))
             \/ \E r \in Req, v \in Routes : Receive(r, v)
    <3>1. UNCHANGED sent  BY <2>5 DEF wireVars, ServingEnds, Receive
    <3>2. ASSUME NEW r \in Req, Authorize(r) \/ OpenConsole(r) \/ CloseConsole(r), view'[s] = "none"
          PROVE  view[s] = "none"
      BY <2>2, <3>2 DEF Authorize, OpenConsole, CloseConsole
    <3>3. ASSUME EndAll, view'[s] = "none" PROVE view[s] = "none"
      BY <2>3, <3>3 DEF EndAll
    <3>4. ASSUME Stream, view'[s] = "none" PROVE view[s] = "none"
      <4>1. ASSUME NEW p \in Flushers, NEW x \in Sids, Expel(p, x) PROVE view[s] = "none"
        BY <2>3, <3>4, <4>1 DEF Expel
      <4>2. ASSUME NEW x \in Sids, RelayEnds(x) PROVE view[s] = "none"
        BY <1>0, <3>4, <4>2 DEF RelayEnds, Views
      <4> QED BY <3>4, <4>1, <4>2 DEF Stream, PrintLine, StartFails, OnLine, Put, Take, FlushDone, streamVars
    <3> QED BY <2>4, <3>1, <3>2, <3>3, <3>4, StreamMove, <2>1 DEF streamVars, ServingEnds
  <2> QED BY <2>4, <2>5, WireMove
<1>3. task'[s] # "none" => task[s] # "none" \/ sent[s] # 0
  BY <1>0, HostMove DEF hostVars, Receive, Fresh, Handle, Authorize, StartOrStop, OpenConsole,
     Execute, CloseConsole, FlushDone, Enters
<1>4. Live(s)' => Live(s) \/ task[s] # "none"
  <2>1. ASSUME NEW r \in Req, OpenConsole(r), Live(s)' PROVE Live(s) \/ task[s] # "none"
    BY <1>0, <2>1 DEF OpenConsole, Live, Enters
  <2>2. ASSUME Stream, Live(s)' PROVE Live(s)
    <3>1. ASSUME NEW p \in Flushers, NEW x \in Sids, Take(p, x) PROVE Live(s)
      BY <1>0, <2>2, <3>1 DEF Take, Live
    <3> QED BY <1>0, <2>2, <3>1 DEF Stream, PrintLine, StartFails, OnLine, Put, Expel,
                                    RelayEnds, FlushDone, streamVars, Live
  <2> QED BY <1>0, <2>1, <2>2, StreamMove DEF streamVars, EndAll, ServingEnds, SendDirect,
             SendRelayed, Authorize, CloseConsole, Live
<1> QED BY <1>a, <1>1, <1>2, <1>3, <1>4

(* What the friend has closed, or lost, stays closed.                      *)
LEMMA ViewMoves ==
  ASSUME TypeOK, Asked, [Next]_vars, NEW s \in Sids, view'[s] = "on", Live(s)
  PROVE  view[s] = "on"
<1>0. /\ view \in Views /\ s \in Req /\ Op[s] = "open" /\ view[s] # "none"
      /\ sent \in [Req -> Nat]
  BY TypeParts DEF StreamOK, WireOK, Views, Sids, Asked
<1>1. ASSUME NEW r \in Req, SendDirect(r) \/ SendRelayed(r) PROVE view[s] = "on"
  <2>1. \/ view' = ViewAfterSend(r)
        \/ view' = [ViewAfterSend(r) EXCEPT ![Sid[r]] =
                       IF Op[r] = "open" THEN "ended" ELSE @]
    BY <1>1 DEF SendDirect, SendRelayed
  <2>2. Op[r] = "open" => r # s
    BY <1>0, <1>1 DEF SendDirect, SendRelayed, MayAsk
  <2>3. Op[r] = "open" => Sid[r] = r /\ r \in Sids
    BY RequestsAreGiven, SidsAreRequests
  <2> QED BY <1>0, <2>1, <2>2, <2>3 DEF ViewAfterSend, Views
<1>2. ASSUME NEW r \in Req, Authorize(r) \/ OpenConsole(r) \/ CloseConsole(r)
      PROVE  view[s] = "on"
  BY <1>0, <1>2 DEF Authorize, OpenConsole, CloseConsole, Answer, Views
<1>3. ASSUME NEW S, TellEnd(S) PROVE view[s] = "on"
  BY <1>3 DEF TellEnd
<1>4. CASE Stream
  <2>1. ASSUME NEW p \in Flushers, NEW x \in Sids, Expel(p, x) PROVE view[s] = "on"
    BY <1>3, <2>1 DEF Expel
  <2>2. ASSUME NEW x \in Sids, RelayEnds(x) PROVE view[s] = "on"
    BY <1>0, <2>2 DEF RelayEnds, Views
  <2> QED BY <1>4, <2>1, <2>2 DEF Stream, PrintLine, StartFails, OnLine, Put, Take, FlushDone, streamVars
<1> QED BY <1>1, <1>2, <1>3, <1>4, StreamMove DEF streamVars, EndAll, ServingEnds

(* A line is handed from place to place, dropped in a known way or shown.  *)
LEMMA OnLineKnown ==
  ASSUME TypeOK, NEW m \in due, OnLine(m), NEW s \in Sids, Live(s), NEW n, Known(s, n)
  PROVE  Known(s, n)'
<1> DEFINE q == sess[s].pending
           a == Append(q, m)
           k == Len(q) + 1 - MaxPending
<1>0. /\ sess[s] \in Session /\ q \in Seq(Lines) /\ m \in Lines
      /\ Len(q) \in Nat /\ MaxPending \in Nat
  BY TypeParts, BoundsAreNumbers DEF StreamOK, Session
<1>1. a \in Seq(Lines) /\ Len(a) = Len(q) + 1  BY <1>0
<1>2. m = n \/ Among(q, n) => Among(a, n)
  <2> HIDE DEF q
  <2> QED BY <1>0, AmongParts
<1>3. UNCHANGED <<held, shown, view>> /\ due' = due \ {m}
  BY DEF OnLine, logVars
<1>4. n \in lost[s] => n \in lost'[s]
  BY DEF OnLine
<1>5. m = n \/ Among(q, n) => Among(sess'[s].pending, n) \/ n \in lost'[s]
  <2>1. CASE ~Overflow(s)
    <3>1. sess'[s].pending = a  BY <1>0, <2>1 DEF OnLine, Session
    <3> HIDE DEF a, q
    <3> QED BY <1>2, <3>1
  <2>2. CASE Overflow(s)
    <3>1. /\ sess'[s].pending = SubSeq(a, Len(q) + 2 - MaxPending, Len(q) + 1)
          /\ lost'[s] = lost[s] \cup ToSet(SubSeq(a, 1, Len(q) + 1 - MaxPending))
      BY <1>0, <2>2 DEF OnLine, Session
    <3>2. Len(q) >= MaxPending  BY <2>2 DEF Overflow
    <3>3. k \in 0..Len(a) /\ Len(q) + 2 - MaxPending = k + 1 /\ Len(q) + 1 = Len(a)
      BY <1>0, <1>1, <3>2
    <3> DEFINE b == SubSeq(a, 1, k)
               c == SubSeq(a, k + 1, Len(a))
    <3>4. sess'[s].pending = c /\ lost'[s] = lost[s] \cup ToSet(b)
      BY <3>1, <3>3
    <3> HIDE DEF a, k, q
    <3>5. Among(a, n) => Among(b, n) \/ Among(c, n)
      BY <1>1, <3>3, AmongParts
    <3>6. b \in Seq(Lines)
      <4>1. Len(a) \in Nat /\ k \in Nat /\ k <= Len(a) /\ 1 \in 1..(Len(a) + 1)
        BY <1>0, <1>1, <3>3
      <4> QED BY <1>1, <4>1, SubSeqType
    <3> HIDE DEF b, c
    <3>7. Among(b, n) => n \in ToSet(b)  BY <3>6, AmongParts
    <3> QED BY <1>2, <3>4, <3>5, <3>7
  <2> QED BY <2>1, <2>2
<1>6. Carried(s, n) => Carried(s, n)'
  BY <1>3 DEF Carried
<1> QED BY <1>3, <1>4, <1>5, <1>6 DEF Known, PassedBy

(* Taking lines to send them moves them.                                   *)
LEMMA TakeKnown ==
  ASSUME TypeOK, NEW p \in Flushers, NEW x \in Sids, Take(p, x), NEW s \in Sids,
         NEW n, Known(s, n)
  PROVE  Known(s, n)'
<1>0. /\ sess \in [Sids -> Session] /\ lost \in [Sids -> SUBSET Lines]
      /\ held \in [Flushers -> Batch \cup {Nothing}]
  BY TypeParts DEF StreamOK
<1>1. PICK fit, rest, gone : Taken(p, x, fit, rest, gone)
  BY TakeShape
<1>2. UNCHANGED <<due, shown, view>> /\ held[p] = Nothing
  BY DEF Take, MayFlush
<1>3. Carried(s, n) => Carried(s, n)'
  <2> SUFFICES ASSUME NEW f \in Flushers, held[f].sid = s, Among(held[f].lines, n)
               PROVE  Carried(s, n)'
    BY DEF Carried
  <2>1. f # p
    <3>1. Nothing.lines = <<>>  BY DEF Nothing
    <3> QED BY <1>2, <3>1, EmptySeq DEF Among
  <2>2. held'[f] = held[f]  BY <1>0, <1>1, <2>1 DEF Taken
  <2> QED BY <2>2 DEF Carried
<1>4. Among(sess[s].pending, n) =>
        Among(sess'[s].pending, n) \/ Carried(s, n)' \/ n \in lost'[s]
  <2>1. CASE s # x  BY <1>0, <1>1, <2>1 DEF Taken
  <2>2. CASE s = x
    <3>1. sess'[s].pending = rest /\ lost'[s] = lost[s] \cup gone
      BY <1>0, <1>1, <2>2 DEF Taken, Session
    <3>2. Among(fit, n) => Carried(s, n)'
      <4> SUFFICES ASSUME Among(fit, n) PROVE Carried(s, n)'
        OBVIOUS
      <4>1. fit # <<>>  BY EmptySeq DEF Among
      <4>2. held'[p].sid = s /\ held'[p].lines = fit
        BY <1>0, <1>1, <2>2, <4>1 DEF Taken
      <4> QED BY <4>2 DEF Carried
    <3> QED BY <1>1, <2>2, <3>1, <3>2 DEF Taken
  <2> QED BY <2>1, <2>2
<1>5. n \in lost[s] => n \in lost'[s]
  BY <1>0, <1>1 DEF Taken
<1> QED BY <1>2, <1>3, <1>4, <1>5 DEF Known, PassedBy

(* Sending shows a line, passes it over for a later one, or loses it.      *)
LEMMA PutKnown ==
  ASSUME TypeOK, NEW p \in Flushers, Put(p), NEW s \in Sids, NEW n \in Nat, Known(s, n)
  PROVE  Known(s, n)'
<1> DEFINE b == held[p]
           x == b.sid
           h == Head(b.lines)
           t == Tail(b.lines)
<1>0. /\ held \in [Flushers -> Batch \cup {Nothing}] /\ shown \in [Sids -> Seq(Lines)]
      /\ lost \in [Sids -> SUBSET Lines]
  BY TypeParts DEF StreamOK
<1>1. b \in Batch /\ x \in Sids /\ b.lines \in Seq(Lines) /\ b.lines # <<>>
  BY <1>0 DEF Put, Batch
<1>2. h \in Lines /\ h \in Nat /\ t \in Seq(Lines)
  BY <1>1 DEF Lines
<1>3. UNCHANGED <<due, sess, view>>
  BY DEF Put, logVars
<1>4. Among(b.lines, n) => n = h \/ Among(t, n)
  BY <1>1, AmongParts
<1>5. t = <<>> => ~Among(t, n)
  <2>1. Len(<<>>) = 0  BY EmptySeq
  <2>2. ~Among(<<>>, n)  BY <2>1 DEF Among
  <2> HIDE DEF t
  <2> QED BY <2>2
<1>a. ASSUME NEW f \in Flushers, f # p PROVE held'[f] = held[f]
  <2>1. \E y : held' = [held EXCEPT ![p] = y]
    BY DEF Put
  <2> QED BY <1>0, <1>a, <2>1
<1>b. [b EXCEPT !.lines = t].lines = t /\ [b EXCEPT !.lines = t].sid = x
  BY <1>1 DEF Batch
<1>6. PassedBy(s, n) => PassedBy(s, n)'
  <2> SUFFICES ASSUME NEW i \in 1..Len(shown[s]), n <= shown[s][i] PROVE PassedBy(s, n)'
    BY DEF PassedBy
  <2>1. shown[s] \in Seq(Lines) /\ Len(shown[s]) \in Nat  BY <1>0
  <2>2. shown'[s] = shown[s] \/ shown'[s] = Append(shown[s], h)
    BY <1>0, <1>1 DEF Put
  <2>3. i \in 1..Len(shown'[s]) /\ shown'[s][i] = shown[s][i]
    <3> HIDE DEF h
    <3>1. /\ Len(Append(shown[s], h)) = Len(shown[s]) + 1
          /\ Append(shown[s], h)[i] = shown[s][i]
      BY <1>2, <2>1, AppendProperties
    <3> QED BY <2>1, <2>2, <3>1
  <2> QED BY <2>3 DEF PassedBy
<1>7. CASE /\ shown' = IF view[x] = "on" /\ Newer(x, h)
                       THEN [shown EXCEPT ![x] = Append(@, h)] ELSE shown
           /\ lost' = IF TakenForOld(x, h) THEN [lost EXCEPT ![x] = @ \cup {h}] ELSE lost
           /\ held' = [held EXCEPT ![p] = IF t = <<>> THEN Nothing
                                          ELSE [b EXCEPT !.lines = t]]
  <2>1. s = x /\ n = h => PassedBy(s, n)' \/ n \in lost'[s] \/ view[s] # "on"
    <3> SUFFICES ASSUME s = x, n = h, view[s] = "on"
                 PROVE  PassedBy(s, n)' \/ n \in lost'[s]
      OBVIOUS
    <3>0. shown[s] \in Seq(Lines) /\ Len(shown[s]) \in Nat  BY <1>0
    <3>1. CASE Newer(x, h)
      <4>1. shown'[s] = Append(shown[s], n)  BY <1>0, <1>7, <3>1
      <4>2. /\ Len(shown'[s]) = Len(shown[s]) + 1
            /\ shown'[s][Len(shown[s]) + 1] = n
        BY <1>2, <3>0, <4>1, AppendProperties
      <4>3. Len(shown[s]) + 1 \in 1..Len(shown'[s])  BY <3>0, <4>2
      <4>4. n <= n  OBVIOUS
      <4> HIDE DEF x, h
      <4> QED BY <4>2, <4>3, <4>4 DEF PassedBy
    <3>2. CASE TakenForOld(x, h)  BY <1>0, <1>7, <3>2
    <3>3. CASE ~Newer(x, h) /\ ~TakenForOld(x, h)
      <4>1. shown[s] # <<>> /\ ~(n > Last(shown[s]))  BY <3>3 DEF Newer, TakenForOld
      <4>2. Len(shown[s]) \in 1..Len(shown[s]) /\ Last(shown[s]) = shown[s][Len(shown[s])]
        BY <3>0, <4>1, EmptySeq DEF Last
      <4>3. shown[s][Len(shown[s])] \in Nat  BY <3>0, <4>2 DEF Lines
      <4>4. PassedBy(s, n)  BY <4>1, <4>2, <4>3 DEF PassedBy
      <4> QED BY <1>6, <4>4
    <3> QED BY <3>1, <3>2, <3>3
  <2>2. Carried(s, n) => Carried(s, n)' \/ (s = x /\ n = h)
    <3> SUFFICES ASSUME NEW f \in Flushers, held[f].sid = s, Among(held[f].lines, n),
                        ~(s = x /\ n = h)
                 PROVE  Carried(s, n)'
      BY DEF Carried
    <3>1. CASE f # p  BY <1>a, <3>1 DEF Carried
    <3>2. CASE f = p
      <4>1. Among(t, n) /\ t # <<>>  BY <1>4, <1>5, <3>2
      <4>2. held'[p] = [b EXCEPT !.lines = t]  BY <1>0, <1>7, <4>1
      <4> HIDE DEF b, t, x
      <4> QED BY <1>b, <3>2, <4>1, <4>2 DEF Carried, b, x
    <3> QED BY <3>1, <3>2
  <2>3. n \in lost[s] => n \in lost'[s]  BY <1>0, <1>1, <1>7
  <2> HIDE DEF x, h, b, t
  <2> QED BY <1>3, <1>6, <2>1, <2>2, <2>3 DEF Known
<1>8. ASSUME NEW gone \in {{h}, ToSet(b.lines)},
             lost' = [lost EXCEPT ![x] = @ \cup gone], shown' = shown,
             held' = [held EXCEPT ![p] = IF gone = ToSet(b.lines) THEN Nothing
                                         ELSE [b EXCEPT !.lines = t]]
      PROVE  Known(s, n)'
  <2>1. Carried(s, n) => Carried(s, n)' \/ n \in lost'[s]
    <3> SUFFICES ASSUME NEW f \in Flushers, held[f].sid = s, Among(held[f].lines, n)
                 PROVE  Carried(s, n)' \/ n \in lost'[s]
      BY DEF Carried
    <3>1. CASE f # p  BY <1>a, <3>1 DEF Carried
    <3>2. CASE f = p /\ gone = ToSet(b.lines)
      <4>1. n \in ToSet(b.lines)  BY <1>1, <3>2, AmongParts
      <4> QED BY <1>0, <1>1, <1>8, <3>2, <4>1
    <3>3. CASE f = p /\ gone # ToSet(b.lines)
      <4>1. n = h \/ Among(t, n)  BY <1>4, <3>3
      <4>2. held'[p] = [b EXCEPT !.lines = t] /\ gone = {h}  BY <1>0, <1>8, <3>3
      <4>3. n = h => n \in lost'[s]  BY <1>0, <1>1, <1>8, <3>3, <4>2
      <4> HIDE DEF b, t, x, h
      <4> QED BY <1>b, <3>3, <4>1, <4>2, <4>3 DEF Carried, b, x
    <3> QED BY <3>1, <3>2, <3>3
  <2>2. n \in lost[s] => n \in lost'[s]  BY <1>0, <1>1, <1>8
  <2> HIDE DEF x, h, b, t
  <2> QED BY <1>3, <1>6, <2>1, <2>2 DEF Known
<1> QED BY <1>7, <1>8 DEF Put

(* No step lets a line of an open console go.                              *)
LEMMA FollowedStep == TypeOK /\ Asked /\ Followed /\ [Next]_vars => Followed'
<1> SUFFICES ASSUME TypeOK, Asked, Followed, [Next]_vars, NEW s \in Sids, Live(s)',
                    NEW n \in 1..log', view'[s] = "on"
             PROVE  Known(s, n)'
  BY DEF Followed, Known
<1> USE DEF logVars
<1>0. /\ sess \in [Sids -> Session] /\ log \in Nat /\ lost \in [Sids -> SUBSET Lines]
      /\ base \in 0..log
  BY TypeParts DEF StreamOK
<1>1. ASSUME UNCHANGED <<held, log, due, shown, lost>>, sess'[s] \in {sess[s], NoSession}
      PROVE  Known(s, n)'
  <2>1. sess'[s] = sess[s] /\ Live(s)  BY <1>1 DEF Live
  <2>2. Known(s, n) /\ view[s] = "on"  BY <1>1, <2>1, ViewMoves DEF Followed
  <2> QED BY <1>1, <2>1, <2>2 DEF Known, Carried, PassedBy
<1>2. ASSUME NEW r \in Req, OpenConsole(r) PROVE Known(s, n)'
  <2>1. UNCHANGED <<held, log, due, shown>>  BY <1>2 DEF OpenConsole
  <2>2. CASE UNCHANGED <<sess, lost>>  BY <1>1, <2>1, <2>2
  <2>3. CASE /\ sess' = [sess EXCEPT ![r] = [tag |-> via[r], expires |-> clock + SessionMax,
                                             pending |-> LastLines]]
             /\ lost' = [lost EXCEPT ![r] = @ \cup 1..(log - Len(LastLines))]
    <3>1. CASE r # s
      <4>1. sess'[s] = sess[s] /\ lost'[s] = lost[s] /\ Live(s)
        BY <1>0, <2>3, <3>1 DEF Live
      <4>2. Known(s, n) /\ view[s] = "on"  BY <2>1, <4>1, ViewMoves DEF Followed
      <4> QED BY <2>1, <4>1, <4>2 DEF Known, Carried, PassedBy
    <3>2. CASE r = s
      <4> DEFINE m == log - Len(LastLines)
      <4>1. sess'[s].pending = LastLines /\ lost'[s] = lost[s] \cup 1..m
        BY <1>0, <2>3, <3>2
      <4>2. m \in Nat /\ n \in 1..log  BY <1>0, <2>1, LastLinesType
      <4>3. n > m => Among(LastLines, n)
        BY <1>0, <4>2, LastLinesType DEF Among
      <4> HIDE DEF m
      <4>4. n <= m => n \in 1..m  BY <4>2
      <4>5. n > m \/ n <= m  BY <4>2
      <4> QED BY <4>1, <4>3, <4>4, <4>5 DEF Known
    <3> QED BY <3>1, <3>2
  <2> QED BY <1>2, <2>2, <2>3 DEF OpenConsole
<1>3. CASE PrintLine
  <2>1. /\ log' = log + 1 /\ due' = due \cup {log + 1}
        /\ UNCHANGED <<sess, held, view, shown, lost>>
    BY <1>3 DEF PrintLine
  <2>2. n \in 1..log \/ n = log + 1  BY <1>0, <2>1
  <2>3. CASE n = log + 1  BY <2>1, <2>3 DEF Known
  <2>4. CASE n \in 1..log
    <3>1. Known(s, n)  BY <2>1, <2>4 DEF Followed, Live
    <3> QED BY <2>1, <3>1 DEF Known, Carried, PassedBy
  <2> QED BY <2>2, <2>3, <2>4
<1>13. CASE StartFails
  BY <1>1, <1>13 DEF StartFails
<1>4. ASSUME NEW m \in due, OnLine(m) PROVE Known(s, n)'
  <2>1. log' = log /\ Live(s)
    BY <1>4 DEF OnLine, Live
  <2>2. Known(s, n)  BY <2>1 DEF Followed
  <2> QED BY <1>4, <2>1, <2>2, OnLineKnown
<1>5. ASSUME NEW p \in Flushers, NEW x \in Sids, Take(p, x) PROVE Known(s, n)'
  <2>1. log' = log /\ Live(s)
    BY <1>0, <1>5 DEF Take, Live
  <2>2. Known(s, n)  BY <2>1 DEF Followed
  <2> QED BY <1>5, <2>2, TakeKnown
<1>6. ASSUME NEW p \in Flushers, Put(p) PROVE Known(s, n)'
  <2>1. log' = log /\ sess' = sess /\ n \in Nat
    BY <1>0, <1>6 DEF Put
  <2>2. Known(s, n)  BY <2>1 DEF Followed, Live
  <2> QED BY <1>6, <2>1, <2>2, PutKnown
<1>7. ASSUME NEW p \in Flushers, NEW x \in Sids, Expel(p, x) PROVE Known(s, n)'
  BY <1>0, <1>1, <1>7 DEF Expel
<1>8. ASSUME NEW x \in Sids, RelayEnds(x) PROVE Known(s, n)'
  BY <1>0, <1>1, <1>8 DEF RelayEnds
<1>9. ASSUME NEW x \in Sids, FlushDone(x) PROVE Known(s, n)'
  BY <1>1, <1>9 DEF FlushDone, streamVars
<1>10. Stream => Known(s, n)'
  BY <1>3, <1>4, <1>5, <1>6, <1>7, <1>8, <1>9, <1>13 DEF Stream
<1>11. ASSUME NEW r \in Req, CloseConsole(r) PROVE Known(s, n)'
  BY <1>0, <1>1, <1>11 DEF CloseConsole
<1>12. CASE UNCHANGED streamVars \/ EndAll \/ (\E g \in Channels : ServingEnds(g))
            \/ \E r \in Req : SendDirect(r) \/ SendRelayed(r) \/ Authorize(r)
  BY <1>1, <1>12 DEF streamVars, EndAll, ServingEnds, SendDirect, SendRelayed, Authorize
<1> QED BY <1>2, <1>10, <1>11, <1>12, StreamMove

(* No line is missed between the backlog a console begins with and the     *)
(* lines that follow it, for any number of flushes, sessions and lines.    *)
THEOREM NoLineIsMissed == Spec => []NoGap
<1>1. Init => Asked /\ Followed
  BY DEF Init, Asked, Followed, Live, Sids
<1>2. TypeOK /\ Followed => NoGap
  <2> SUFFICES ASSUME TypeOK, Followed, NEW s \in Sids, Live(s), NEW n \in 1..log
               PROVE  \/ n \in due \cup ToSet(sess[s].pending) \cup lost[s]
                      \/ \E p \in Flushers : held[p].sid = s /\ n \in ToSet(held[p].lines)
                      \/ PassedBy(s, n)
                      \/ view[s] # "on"
    BY DEF NoGap
  <2>1. sess[s].pending \in Seq(Lines) /\ \A p \in Flushers : held[p].lines \in Seq(Lines)
    BY TypeParts, HeldLines DEF StreamOK, Session
  <2>2. Known(s, n)  BY DEF Followed
  <2> QED BY <2>1, <2>2, AmongParts DEF Known, Carried
<1> QED BY <1>1, <1>2, AskedStep, FollowedStep, TypeCorrect, PTL DEF Spec
-----------------------------------------------------------------------------
(* What a friend can make the owner's launcher keep.                       *)
OpenSids == {s \in Sids : Live(s)}

Larger == IF Backlog > MaxPending THEN Backlog ELSE MaxPending

(* One friend has no more console sessions than he may.                    *)
FewSessions == Cardinality(OpenSids) <= MaxSessions

(* A console session holds no more lines than the larger of its backlog    *)
(* and maxPending (host.go:68-69), nor does a flush on its way.            *)
ShortQueues == /\ \A s \in Sids : Len(sess[s].pending) <= Larger
               /\ \A p \in Flushers : Len(held[p].lines) <= Larger

LEMMA LargerType == Larger \in Nat /\ Backlog <= Larger /\ MaxPending <= Larger
  BY BoundsAreNumbers DEF Larger

(* Only doOpen adds a session, and not when the friend has them all.       *)
LEMMA FewStep == TypeOK /\ FewSessions /\ [Next]_vars => FewSessions'
<1> SUFFICES ASSUME TypeOK, FewSessions, [Next]_vars PROVE FewSessions'
  OBVIOUS
<1>1. /\ sess \in [Sids -> Session]
      /\ \A S \in SUBSET Sids : IsFiniteSet(S) /\ Cardinality(S) \in Nat
      /\ MaxSessions \in Nat
  <2>1. IsFiniteSet(Sids)
    BY SidsAreRequests, RequestsAreGiven, FS_Subset
  <2> QED BY <2>1, FS_Subset, FS_CardinalityType, BoundsAreNumbers, TypeParts DEF StreamOK
<1>2. ASSUME OpenSids' \subseteq OpenSids PROVE FewSessions'
  <2>1. OpenSids \in SUBSET Sids /\ OpenSids' \in SUBSET Sids  BY DEF OpenSids
  <2>2. Cardinality(OpenSids') <= Cardinality(OpenSids)  BY <1>1, <1>2, <2>1, FS_Subset
  <2>3. Cardinality(OpenSids') \in Nat /\ Cardinality(OpenSids) \in Nat  BY <1>1, <2>1
  <2> QED BY <1>1, <2>2, <2>3 DEF FewSessions
<1>3. ASSUME NEW r \in Req, OpenConsole(r) PROVE FewSessions'
  <2>1. r \in Sids  BY <1>3, SidsAreRequests DEF OpenConsole
  <2>2. CASE sess' = sess
    BY <1>2, <2>2 DEF OpenSids, Live
  <2>3. CASE Live(r)
    <3>1. \A s \in Sids : s # r => sess'[s] = sess[s]  BY <1>1, <1>3 DEF OpenConsole
    <3> QED BY <1>2, <2>3, <3>1 DEF OpenSids, Live
  <2>4. CASE ~Live(r) /\ ~Full
    <3>1. OpenSids' \subseteq OpenSids \cup {r}
      <4>1. \A s \in Sids : s # r => sess'[s] = sess[s]  BY <1>1, <1>3 DEF OpenConsole
      <4> QED BY <4>1 DEF OpenSids, Live
    <3>2. OpenSids \in SUBSET Sids /\ OpenSids' \in SUBSET Sids /\ r \notin OpenSids
      BY <2>4 DEF OpenSids
    <3>3. /\ Cardinality(OpenSids \cup {r}) = Cardinality(OpenSids) + 1
          /\ IsFiniteSet(OpenSids \cup {r})
      BY <1>1, <3>2, FS_AddElement
    <3>4. Cardinality(OpenSids') <= Cardinality(OpenSids) + 1
      BY <3>1, <3>3, FS_Subset
    <3>5. Cardinality(OpenSids') \in Nat /\ Cardinality(OpenSids) \in Nat
      BY <1>1, <3>2
    <3>6. Cardinality(OpenSids) < MaxSessions
      BY <1>1, <2>4, <3>5 DEF Full, OpenSids
    <3> QED BY <1>1, <3>4, <3>5, <3>6 DEF FewSessions
  <2> QED BY <1>3, <2>2, <2>3, <2>4 DEF OpenConsole
<1>4. ASSUME \A s \in Sids : sess'[s] # NoSession => Live(s) PROVE FewSessions'
  BY <1>2, <1>4 DEF OpenSids, Live
<1>5. CASE UNCHANGED sess  BY <1>4, <1>5 DEF Live
<1>6. CASE EndAll  BY <1>4, <1>6 DEF EndAll
<1>7. ASSUME NEW g \in Channels, ServingEnds(g) PROVE FewSessions'
  BY <1>4, <1>7 DEF ServingEnds, Live
<1>8. ASSUME NEW r \in Req, CloseConsole(r) PROVE FewSessions'
  <2>1. \A s \in Sids : sess'[s] \in {NoSession, sess[s]}  BY <1>1, <1>8 DEF CloseConsole
  <2> QED BY <1>4, <2>1 DEF Live
<1>9. ASSUME NEW n \in due, OnLine(n) PROVE FewSessions'
  BY <1>4, <1>9 DEF OnLine, Live
<1>10. ASSUME NEW p \in Flushers, NEW s \in Sids, Expel(p, s) \/ Take(p, s) PROVE FewSessions'
  <2>1. Live(s) /\ \A z \in Sids : z # s => sess'[z] = sess[z]
    BY <1>1, <1>10 DEF Expel, Take
  <2> QED BY <1>4, <2>1 DEF Live
<1>11. ASSUME NEW s \in Sids, RelayEnds(s) PROVE FewSessions'
  <2>1. \A z \in Sids : sess'[z] \in {NoSession, sess[z]}  BY <1>1, <1>11 DEF RelayEnds
  <2> QED BY <1>4, <2>1 DEF Live
<1>12. CASE Stream
  BY <1>5, <1>9, <1>10, <1>11, <1>12 DEF Stream, PrintLine, StartFails, Put, FlushDone, streamVars
<1> QED
  BY <1>3, <1>5, <1>6, <1>7, <1>8, <1>12, StreamMove
  DEF streamVars, SendDirect, SendRelayed, Authorize

(* Whatever the friend sends, and over whichever channels, he holds no     *)
(* more console sessions than maxSessionsPerFriend (host.go:365).          *)
THEOREM SessionsAreFew == Spec => []FewSessions
<1>1. Init => FewSessions
  <2> SUFFICES ASSUME Init PROVE FewSessions
    OBVIOUS
  <2>1. OpenSids = {}  BY DEF Init, OpenSids, Live
  <2> QED BY <2>1, FS_EmptySet, BoundsAreNumbers DEF FewSessions
<1> QED BY <1>1, FewStep, TypeCorrect, PTL DEF Spec

LEMMA ShortStep == TypeOK /\ ShortQueues /\ [Next]_vars => ShortQueues'
<1> SUFFICES ASSUME TypeOK, ShortQueues, [Next]_vars PROVE ShortQueues'
  OBVIOUS
<1> DEFINE Short(f) == \A s \in Sids : Len(f[s].pending) <= Larger
           Light(f) == \A p \in Flushers : Len(f[p].lines) <= Larger
<1>1. /\ sess \in [Sids -> Session] /\ held \in [Flushers -> Batch \cup {Nothing}]
      /\ \A s \in Sids : sess[s].pending \in Seq(Lines)
      /\ Short(sess) /\ Light(held)
  BY TypeParts DEF StreamOK, Session, ShortQueues
<1>2. Short(sess') /\ Light(held') => ShortQueues'
  BY DEF ShortQueues
<1>e. Len(<<>>) <= Larger  BY LargerType, EmptySeq
<1> HIDE DEF Short, Light
<1>3. ASSUME UNCHANGED held, \A s \in Sids : sess'[s] \in {NoSession, sess[s]}
      PROVE  ShortQueues'
  <2>1. Short(sess')  BY <1>1, <1>3, <1>e DEF Short, NoSession
  <2> QED BY <1>1, <1>2, <1>3, <2>1
<1>4. CASE UNCHANGED <<sess, held>>  BY <1>3, <1>4
<1>5. CASE EndAll  BY <1>3, <1>5 DEF EndAll
<1>6. ASSUME NEW g \in Channels, ServingEnds(g) PROVE ShortQueues'
  BY <1>3, <1>6 DEF ServingEnds
<1>7. ASSUME NEW r \in Req, CloseConsole(r) PROVE ShortQueues'
  BY <1>1, <1>3, <1>7 DEF CloseConsole
<1>8. ASSUME NEW r \in Req, OpenConsole(r) PROVE ShortQueues'
  <2>1. CASE sess' = sess
    BY <1>4, <1>8, <2>1 DEF OpenConsole
  <2>2. CASE sess' = [sess EXCEPT ![r] = [tag |-> via[r], expires |-> clock + SessionMax,
                                          pending |-> LastLines]]
    <3>1. Len(LastLines) <= Larger
      <4>1. log \in Nat /\ base \in 0..log  BY TypeParts DEF StreamOK
      <4>2. Len(LastLines) \in Nat /\ Len(LastLines) <= Backlog  BY <4>1, LastLinesType
      <4> QED BY <4>2, LargerType, BoundsAreNumbers
    <3>2. \A s \in Sids : sess'[s] = sess[s] \/ sess'[s].pending = LastLines
      BY <1>1, <2>2
    <3>3. Short(sess')  BY <1>1, <3>1, <3>2 DEF Short
    <3> QED BY <1>1, <1>2, <1>8, <3>3 DEF OpenConsole
  <2> QED BY <1>8, <2>1, <2>2 DEF OpenConsole
<1>9. ASSUME NEW n \in due, OnLine(n) PROVE ShortQueues'
  <2>1. n \in Lines  BY TypeParts DEF StreamOK
  <2>2. ASSUME NEW s \in Sids PROVE Len(sess'[s].pending) <= Larger
    <3> DEFINE q == sess[s].pending
               a == Append(q, n)
    <3>1. /\ q \in Seq(Lines) /\ a \in Seq(Lines) /\ Len(a) = Len(q) + 1
          /\ Len(q) \in Nat /\ Len(q) <= Larger
      BY <1>1, <2>1, LenProperties, AppendProperties DEF Short
    <3>2. sess[s] \in Session  BY <1>1
    <3>3. sess'[s] = IF ~Live(s) THEN sess[s]
                     ELSE [sess[s] EXCEPT !.pending =
                             IF Overflow(s) THEN SubSeq(a, Len(q) + 2 - MaxPending, Len(q) + 1)
                             ELSE a]
      BY <1>9 DEF OnLine
    <3> HIDE DEF a
    <3>4. CASE ~Live(s)  BY <3>1, <3>3, <3>4
    <3>5. CASE Live(s) /\ ~Overflow(s)
      <4>1. Len(q) < MaxPending  BY <3>1, <3>5, BoundsAreNumbers DEF Overflow
      <4>2. sess'[s].pending = a  BY <3>2, <3>3, <3>5 DEF Session
      <4> QED BY <3>1, <4>1, <4>2, LargerType, BoundsAreNumbers
    <3>6. CASE Live(s) /\ Overflow(s)
      <4> DEFINE m == Len(q) + 2 - MaxPending
                 k == Len(q) + 1
      <4>1. Len(q) >= MaxPending /\ MaxPending \in Nat
        BY <3>6, BoundsAreNumbers DEF Overflow
      <4>2. m \in Int /\ k \in Int /\ m >= 1 + 1 /\ k = Len(a)  BY <3>1, <4>1
      <4>3. \A i \in m..k : a[i] \in Lines
        <5>1. a \in [1..Len(a) -> Lines]  BY <3>1, LenProperties
        <5> HIDE DEF m, k
        <5> QED BY <3>1, <4>2, <5>1
      <4>4. Len(SubSeq(a, m, k)) = IF m <= k THEN k - m + 1 ELSE 0
        <5> HIDE DEF m, k
        <5> QED BY <4>2, <4>3, SubSeqProperties
      <4>5. Len(SubSeq(a, m, k)) <= MaxPending  BY <3>1, <4>1, <4>4
      <4>6. sess'[s].pending = SubSeq(a, m, k)  BY <3>2, <3>3, <3>6 DEF Session
      <4>7. Len(SubSeq(a, m, k)) \in Nat  BY <3>1, <4>1, <4>4
      <4>8. Len(SubSeq(a, m, k)) <= Larger
        <5> DEFINE l == Len(SubSeq(a, m, k))
        <5>1. l \in Nat /\ l <= MaxPending  BY <4>5, <4>7
        <5> HIDE DEF l
        <5>2. l <= Larger  BY <4>1, <5>1, LargerType
        <5> QED BY <5>2 DEF l
      <4> QED BY <4>6, <4>8
    <3> QED BY <3>4, <3>5, <3>6
  <2>3. Short(sess')  BY <2>2 DEF Short
  <2> QED BY <1>1, <1>2, <1>9, <2>3 DEF OnLine
<1>10. ASSUME NEW p \in Flushers, NEW s \in Sids, Expel(p, s) PROVE ShortQueues'
  BY <1>1, <1>3, <1>10 DEF Expel
<1>11. ASSUME NEW p \in Flushers, NEW s \in Sids, Take(p, s) PROVE ShortQueues'
  <2>1. PICK fit, rest, gone : Taken(p, s, fit, rest, gone)
    BY <1>11, TakeShape
  <2>2. /\ Len(sess[s].pending) \in Nat /\ Len(sess[s].pending) <= Larger
        /\ sess[s] \in Session
    BY <1>1, LenProperties DEF Short
  <2>3. /\ Len(fit) \in Nat /\ Len(fit) <= Larger
        /\ Len(rest) \in Nat /\ Len(rest) <= Larger
    <3>1. fit \in Seq(Lines) /\ rest \in Seq(Lines)  BY <2>1 DEF Taken
    <3>2. Len(fit) \in Nat /\ Len(rest) \in Nat  BY <3>1, LenProperties
    <3>3. Len(fit) <= Len(sess[s].pending) /\ Len(rest) <= Len(sess[s].pending)
      BY <2>1 DEF Taken
    <3> QED BY <2>2, <3>2, <3>3, LargerType
  <2>4. Short(sess')
    <3>1. /\ \A z \in Sids \ {s} : sess'[z] = sess[z]
          /\ sess'[s].pending = rest
      BY <1>1, <2>1, <2>2 DEF Taken, Session
    <3> QED BY <1>1, <2>3, <3>1 DEF Short
  <2>5. Light(held')
    <3>1. \A z \in Flushers : held'[z] = held[z] \/ held'[z].lines = fit
      BY <1>1, <2>1 DEF Taken
    <3> QED BY <1>1, <2>3, <3>1 DEF Light
  <2> QED BY <1>2, <2>4, <2>5
<1>12. ASSUME NEW p \in Flushers, Put(p) PROVE ShortQueues'
  <2> DEFINE b == held[p]
  <2>1. b \in Batch /\ b.lines \in Seq(Lines) /\ b.lines # <<>>
    BY <1>1, <1>12 DEF Put, Batch
  <2>2. Len(b.lines) \in Nat /\ Len(b.lines) <= Larger /\ Len(Tail(b.lines)) = Len(b.lines) - 1
    BY <1>1, <2>1, LenProperties, HeadTailProperties DEF Light
  <2>3. \/ held' = [held EXCEPT ![p] = Nothing]
        \/ held' = [held EXCEPT ![p] = [b EXCEPT !.lines = Tail(@)]]
    BY <1>12 DEF Put
  <2>4. [b EXCEPT !.lines = Tail(@)].lines = Tail(b.lines)  BY <2>1 DEF Batch
  <2>5. Nothing.lines = <<>>  BY DEF Nothing
  <2>6. Light(held')
    <3>1. \A z \in Flushers : z # p => held'[z] = held[z]  BY <1>1, <2>3
    <3>2. held'[p].lines \in {<<>>, Tail(b.lines)}  BY <1>1, <2>3, <2>4, <2>5
    <3>3. Len(held'[p].lines) <= Larger
      BY <1>e, <2>2, <3>2, LargerType
    <3> QED BY <1>1, <3>1, <3>3 DEF Light
  <2>7. sess' = sess  BY <1>12 DEF Put
  <2> QED BY <1>1, <1>2, <2>6, <2>7
<1>13. ASSUME NEW s \in Sids, RelayEnds(s) PROVE ShortQueues'
  BY <1>1, <1>3, <1>13 DEF RelayEnds
<1>14. CASE Stream
  BY <1>4, <1>9, <1>10, <1>11, <1>12, <1>13, <1>14
  DEF Stream, PrintLine, StartFails, FlushDone, streamVars, logVars
<1> QED
  BY <1>4, <1>5, <1>6, <1>7, <1>8, <1>14, StreamMove
  DEF streamVars, SendDirect, SendRelayed, Authorize

(* No queue of console lines grows beyond the bound, however long the      *)
(* flushers are kept from it (onLine, host.go:512).                        *)
THEOREM QueuesAreShort == Spec => []ShortQueues
<1>1. Init => ShortQueues
  BY LargerType, EmptySeq DEF Init, ShortQueues, NoSession, Nothing
<1> QED BY <1>1, ShortStep, TypeCorrect, PTL DEF Spec
=============================================================================
