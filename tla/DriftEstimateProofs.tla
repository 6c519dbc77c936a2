------------------------- MODULE DriftEstimateProofs -------------------------
(***************************************************************************)
(* The guest's estimate of its position is exact while nothing happens to  *)
(* its player, so that it does not correct without need, for any speeds,   *)
(* threshold, interval and cooldown; and it does correct with need, so     *)
(* that the players are not apart for long, when no cooldown outlasts an   *)
(* interval.                                                               *)
(***************************************************************************)
EXTENDS DriftEstimate, SyncEngineProofs, SequenceTheorems

----------------------------------------------------------------------------
(* What the engine knows of its player *)

Same(e, f) == f.paused = e.paused /\ f.speed = e.speed /\ f.buffering = e.buffering

\* f is e with another speed.
SpeedOnly(e, f, speed) ==
    f.speed = speed /\ f.buffering = e.buffering /\ f.paused = e.paused

LEMMA SameSpeed ==
  ASSUME NEW e \in Engine, NEW f, NEW speed, Same([e EXCEPT !.speed = speed], f)
  PROVE  SpeedOnly(e, f, speed)
BY DEF Same, Engine, SpeedOnly

LEMMA SuppressionsApart ==
  ASSUME NEW e \in Engine, NEW k \in Kinds
  PROVE  Same(e, Suppress(e, k)) /\ Same(e, Consume(e, k)) /\ Same(e, Aged(e))
BY DEF Same, Suppress, Consume, Aged, Engine

LEMMA ReportedSame ==
  ASSUME NEW e \in Engine, NEW k \in Kinds, NEW message
  PROVE  Same(e, Reported(e, k, message).engine)
BY SuppressionsApart DEF Reported, Result, Same

LEMMA LocalSettings ==
  ASSUME NEW e \in Engine
  PROVE  /\ \A speed \in Speeds : Same([e EXCEPT !.speed = speed], OnLocalSpeed(e, speed).engine)
         /\ Same(e, OnLocalSeek(e).engine)
         /\ \A b \in BOOLEAN : Same([e EXCEPT !.buffering = b], OnLocalBuffering(e, b).engine)
<1>1. ASSUME NEW speed \in Speeds
      PROVE  Same([e EXCEPT !.speed = speed], OnLocalSpeed(e, speed).engine)
  <2>1. [e EXCEPT !.speed = speed] \in Engine
    BY DEF Engine
  <2> QED
    BY <2>1, KindsNamed, ReportedSame DEF OnLocalSpeed
<1>2. Same(e, OnLocalSeek(e).engine)
  BY KindsNamed, ReportedSame DEF OnLocalSeek
<1>3. \A b \in BOOLEAN : Same([e EXCEPT !.buffering = b], OnLocalBuffering(e, b).engine)
  BY DEF OnLocalBuffering, Result, Same
<1> QED
  BY <1>1, <1>2, <1>3

\* The speed that a result sets is the one its engine takes the player to have.
SpeedSet(r) == r.effects.setSpeed \in {{}, {r.engine.speed}}

LEMMA RemoteSpeedSettings ==
  ASSUME NEW e \in Engine, NEW speed \in Speeds
  PROVE  LET r == OnRemoteSpeed(e, speed)
         IN  SpeedOnly(e, r.engine, speed) /\ r.effects.setSpeed = {speed}
<1> DEFINE r == OnRemoteSpeed(e, speed)
<1>1. [e EXCEPT !.speed = speed] \in Engine
  BY DEF Engine
<1>2. Same([e EXCEPT !.speed = speed], r.engine) /\ r.effects.setSpeed = {speed}
  BY <1>1, KindsNamed, SuppressionsApart DEF OnRemoteSpeed, Result, NoEffects
<1> HIDE DEF r
<1>3. SpeedOnly(e, r.engine, speed)
  BY <1>2, SameSpeed
<1> QED
  BY <1>2, <1>3 DEF r

LEMMA RemoteSeekSettings ==
  ASSUME NEW e \in Engine
  PROVE  LET r == OnRemoteSeek(e)
         IN  Same(e, r.engine) /\ r.effects.setSpeed = {}
BY KindsNamed, SuppressionsApart DEF OnRemoteSeek, Result, NoEffects

\* A heartbeat sets the speed, and makes the player seek only if it has drifted.
LEMMA HeartbeatSettings ==
  ASSUME NEW e \in Engine, NEW m \in Message, NEW drifted \in BOOLEAN
  PROVE  LET r == OnRemoteHeartbeat(e, TRUE, Host, m, drifted)
         IN  /\ SpeedOnly(e, r.engine, m.speed)
             /\ r.effects.setSpeed = IF e.speed = m.speed THEN {} ELSE {m.speed}
             /\ r.effects.seek => drifted /\ ~e.paused /\ ~e.buffering
             /\ r.effects.setPaused = {}
<1> DEFINE t == Tracked(e, Host, m)
           f == SpeedCorrected(t, m)
<1>1. t \in Engine /\ Same(e, t)
  BY HostAssumption DEF Tracked, Engine, Same
<1>2. m.speed \in Speeds
  BY DEF Message
<1>3. /\ f.engine \in Engine /\ SpeedOnly(e, f.engine, m.speed)
      /\ f.effects.setSpeed = IF e.speed = m.speed THEN {} ELSE {m.speed}
      /\ f.effects \in Effects /\ f.effects.seek = FALSE /\ f.effects.setPaused = {}
  <2> HIDE DEF t
  <2>1. CASE t.speed = m.speed
    <3>1. f = Result(t, NoEffects)
      BY <2>1 DEF SpeedCorrected
    <3>2. e.speed = m.speed
      BY <1>1, <2>1 DEF SpeedOnly, Same
    <3>3. SpeedOnly(e, t, m.speed)
      BY <1>1, <2>1 DEF SpeedOnly, Same, Engine
    <3> HIDE DEF f
    <3> QED
      BY <1>1, <3>1, <3>2, <3>3, NoEffectsType DEF Result, NoEffects
  <2>2. CASE t.speed # m.speed
    <3> DEFINE g == [t EXCEPT !.speed = m.speed]
               x == [NoEffects EXCEPT !.setSpeed = {m.speed}]
    <3>1. g \in Engine /\ SpeedOnly(e, g, m.speed)
      BY <1>1, <1>2 DEF Engine, Same, SpeedOnly
    <3>2. x \in Effects /\ x.setSpeed = {m.speed} /\ x.seek = FALSE /\ x.setPaused = {}
      BY <1>2 DEF NoEffects, Effects
    <3>3. f = Result(Suppress(g, "speed"), x)
      BY <2>2 DEF SpeedCorrected
    <3>4. e.speed # m.speed
      BY <1>1, <2>2 DEF SpeedOnly, Same
    <3> HIDE DEF f, g, x
    <3>5. Suppress(g, "speed") \in Engine /\ Same(g, Suppress(g, "speed"))
      BY <3>1, KindsNamed, SuppressAdds, SuppressionsApart
    <3> QED
      BY <3>1, <3>2, <3>3, <3>4, <3>5 DEF Result, Same, SpeedOnly
  <2> QED
    BY <2>1, <2>2
<1>4. OnRemoteHeartbeat(e, TRUE, Host, m, drifted)
          = IF drifted /\ MayCorrect(f.engine, m) THEN Corrected(f) ELSE f
  BY DEF OnRemoteHeartbeat
<1> HIDE DEF f, t
<1>5. CASE drifted /\ MayCorrect(f.engine, m)
  <2> DEFINE g == [f.engine EXCEPT !.cooldown = Cooldown]
  <2>1. g \in Engine /\ Same(f.engine, g)
    <3>1. f.engine \in Engine /\ Cooldown \in 0..Cooldown
      BY <1>3, TimesAssumption
    <3> HIDE DEF g
    <3>2. g = [f.engine EXCEPT !.cooldown = Cooldown]
      BY DEF g
    <3> QED
      BY <3>1, <3>2 DEF Engine, Same, SpeedOnly
  <2>2. Corrected(f).engine = Suppress(g, "seek")
    BY DEF Corrected, Result
  <2> HIDE DEF g
  <2>3. Same(g, Suppress(g, "seek"))
    BY <2>1, KindsNamed, SuppressionsApart
  <2>4. SpeedOnly(e, Corrected(f).engine, m.speed)
    BY <1>3, <2>1, <2>2, <2>3 DEF SpeedOnly, Same
  <2>5. Corrected(f).effects = [f.effects EXCEPT !.seek = TRUE]
    BY DEF Corrected, Result
  <2>6. /\ Corrected(f).effects.setSpeed = f.effects.setSpeed
        /\ Corrected(f).effects.setPaused = f.effects.setPaused
    BY <1>3, <2>5 DEF Effects
  <2>7. ~e.paused /\ ~e.buffering
    BY <1>3, <1>5 DEF MayCorrect, SpeedOnly
  <2>8. OnRemoteHeartbeat(e, TRUE, Host, m, drifted) = Corrected(f)
    BY <1>4, <1>5
  <2> QED
    BY <1>3, <1>5, <2>4, <2>6, <2>7, <2>8
<1>6. CASE ~(drifted /\ MayCorrect(f.engine, m))
  BY <1>3, <1>4, <1>6
<1> QED
  BY <1>5, <1>6

----------------------------------------------------------------------------
(* The invariant *)

EventNames == {"seek", "speed", "cache"}

\* The engine refreshes its position within every interval, and plays.
Clock == elapsed + refreshIn <= Interval /\ ~engine.paused

\* What the player has not left to report, the engine knows.
Reflected ==
    /\ "speed" \notin events => engine.speed = player.speed
    /\ "cache" \notin events => engine.buffering = player.buffering

\* While nothing happens to the player, its position is where the engine last knew
\* it plus what it has played since.
Exact ==
    steady =>
        /\ target = {} /\ events = {}
        /\ positionMs = -(elapsed * Rate(player))

DInv == TypeOK /\ Clock /\ Reflected /\ Exact

LEMMA PlayType ==
  ASSUME NEW p \in Play
  PROVE  p.speed \in Speeds /\ p.buffering \in BOOLEAN /\ Rate(p) \in Nat
BY DriftAssumption DEF Play, Rate

LEMMA DInit == Init => DInv
<1> SUFFICES ASSUME Init PROVE DInv
  OBVIOUS
<1>1. /\ host \in Play /\ player = host
      /\ player.speed = NormalSpeed /\ player.buffering = FALSE
  BY SpeedsAssumption DEF Init, Play
<1>2. /\ engine \in Engine /\ ~engine.paused
      /\ engine.speed = NormalSpeed /\ engine.buffering = FALSE
  <2> DEFINE n == NewEngine
  <2>1. n \in Engine /\ n.speed = NormalSpeed /\ n.buffering = FALSE
    BY NewEngineType DEF NewEngine
  <2> HIDE DEF n
  <2>2. engine = [n EXCEPT !.paused = FALSE]
    BY DEF Init, n
  <2> QED
    BY <2>1, <2>2 DEF Engine
<1>3. TypeOK
  <2>1. inbox \in Seq([body : Message, positionMs : Int])
    BY DEF Init
  <2>2. heard \in BOOLEAN /\ steady \in BOOLEAN /\ target \subseteq Int /\ events = {}
    BY DEF Init
  <2>3. /\ positionMs = 0 /\ elapsed = 0 /\ gap = 0 /\ apart = 0 /\ acts = 0 /\ stall = 0
        /\ beatIn \in 0..Interval /\ refreshIn \in 0..Interval
    BY DriftAssumption DEF Init
  <2> QED
    BY <1>1, <1>2, <2>1, <2>2, <2>3, DriftAssumption DEF TypeOK
<1>4. Clock
  BY <1>2, DriftAssumption DEF Init, Clock
<1>5. Reflected
  BY <1>1, <1>2 DEF Reflected
<1>6. Exact
  <2>1. Rate(player) \in Nat
    BY <1>1, PlayType
  <2>2. elapsed = 0 /\ positionMs = 0
    BY DEF Init
  <2>3. elapsed * Rate(player) = 0
    BY <2>1, <2>2
  <2> QED
    BY <2>2, <2>3 DEF Init, Exact
<1> QED
  BY <1>3, <1>4, <1>5, <1>6 DEF DInv

\* What the effects of a result do to the player.
LEMMA DriveType ==
  ASSUME TypeOK, NEW effects \in Effects, NEW position \in Int, NEW s \in Speeds,
         effects.setSpeed \in {{}, {s}}, Drive(effects, position)
  PROVE  /\ player' \in Play /\ player'.buffering = player.buffering
         /\ target' \subseteq Int
         /\ events' \subseteq EventNames /\ events \subseteq events'
         /\ effects.setSpeed = {} => player' = player
         /\ effects.setSpeed = {s} =>
                player'.speed = s /\ (player.speed # s => "speed" \in events')
         /\ effects.setSpeed = {} /\ ~effects.seek => target' = target /\ events' = events
<1> DEFINE speed == IF effects.setSpeed = {} THEN player.speed
                    ELSE CHOOSE x \in effects.setSpeed : TRUE
           changes == {"speed" : x \in {speed} \ {player.speed}}
                         \cup {"seek" : x \in {effects.seek} \cap {TRUE}}
<1>1. /\ player' = [player EXCEPT !.speed = speed]
      /\ target' = IF effects.seek THEN {position} ELSE target
      /\ events' = events \cup changes
  BY DEF Drive
<1>2. /\ player \in Play /\ target \subseteq Int /\ events \subseteq EventNames
      /\ effects.seek \in BOOLEAN
  BY DEF TypeOK, EventNames, Effects
<1>3. /\ effects.setSpeed = {} => speed = player.speed
      /\ effects.setSpeed = {s} => speed = s
  OBVIOUS
<1>4. speed \in Speeds
  BY <1>2, <1>3, PlayType
<1>5. changes \subseteq EventNames
  BY DEF EventNames
<1>6. /\ speed # player.speed => "speed" \in changes
      /\ speed = player.speed /\ ~effects.seek => changes = {}
  BY <1>2
<1> HIDE DEF speed, changes
<1>7. player' \in Play /\ player'.buffering = player.buffering /\ player'.speed = speed
  BY <1>1, <1>2, <1>4 DEF Play
<1>8. effects.setSpeed = {} => player' = player
  BY <1>1, <1>2, <1>3 DEF Play
<1> QED
  BY <1>1, <1>2, <1>3, <1>5, <1>6, <1>7, <1>8

----------------------------------------------------------------------------
(* Steps.  Everything but the guest's own side is free of constraints but its type. *)

OnItsWay == [body : Message, positionMs : Int]

WorldType ==
    /\ host \in Play /\ heard \in BOOLEAN /\ gap \in Int /\ beatIn \in 0..Interval
    /\ inbox \in Seq(OnItsWay)
    /\ apart \in Nat /\ acts \in 0..MaxActs /\ stall \in 0..MaxStall

GuestType ==
    /\ player \in Play /\ target \subseteq Int /\ events \subseteq EventNames
    /\ engine \in Engine /\ positionMs \in Int /\ elapsed \in 0..Interval
    /\ refreshIn \in 0..Interval /\ steady \in BOOLEAN

LEMMA TypeParts == TypeOK <=> WorldType /\ GuestType
BY DEF TypeOK, WorldType, GuestType, OnItsWay, EventNames

LEMMA BoundsType ==
  ASSUME WorldType, Acts \/ NoAct \/ UNCHANGED bounds
  PROVE  apart' \in Nat /\ acts' \in 0..MaxActs /\ stall' \in 0..MaxStall
BY DriftAssumption DEF WorldType, Acts, NoAct, bounds

LEMMA SendsType ==
  ASSUME WorldType, NEW message \in Message, NEW position \in Int, Sends(message, position)
  PROVE  inbox' \in Seq(OnItsWay)
<1>1. Positioned(message, position) \in OnItsWay
  BY DEF Positioned, OnItsWay
<1> QED
  BY <1>1, AppendProperties DEF Sends, WorldType

LEMMA HeadType ==
  ASSUME WorldType, inbox # <<>>
  PROVE  /\ Head(inbox).body \in Message /\ Head(inbox).positionMs \in Int
         /\ Tail(inbox) \in Seq(OnItsWay)
<1>1. Head(inbox) \in OnItsWay /\ Tail(inbox) \in Seq(OnItsWay)
  BY HeadTailProperties DEF WorldType
<1> QED
  BY <1>1 DEF OnItsWay

\* What the host does leaves the guest alone.
LEMMA HostStep ==
  ASSUME DInv, HostActs \/ HostCacheChanged \/ HostHeartbeat
  PROVE  DInv'
<1>1. UNCHANGED <<player, target, events, engine, positionMs, elapsed, refreshIn, steady>>
  BY DEF HostActs, HostSetsSpeed, HostSeeks, HostRunsOut, HostHasData,
         HostCacheChanged, HostHeartbeat, guest, estimate
<1>2. WorldType /\ GuestType
  BY TypeParts DEF DInv
<1>3. apart' \in Nat /\ acts' \in 0..MaxActs /\ stall' \in 0..MaxStall
  <2>1. Acts \/ NoAct \/ UNCHANGED bounds
    BY DEF HostActs, HostSetsSpeed, HostSeeks, HostRunsOut, HostHasData,
           HostCacheChanged, HostHeartbeat
  <2> QED
    BY <1>2, <2>1, BoundsType
<1> DEFINE HostType == /\ host' \in Play /\ heard' \in BOOLEAN /\ gap' \in Int /\ beatIn' \in 0..Interval
                       /\ inbox' \in Seq(OnItsWay)
<1>4. HostType
  <2>1. ASSUME NEW speed \in Speeds, HostSetsSpeed(speed) PROVE HostType
    <3>1. SpeedMessage(speed) \in Message /\ gap \in Int
      BY <1>2, MessagesType DEF WorldType
    <3>2. inbox' \in Seq(OnItsWay)
      BY <1>2, <2>1, <3>1, SendsType DEF HostSetsSpeed
    <3> QED
      BY <1>2, <2>1, <3>2 DEF HostSetsSpeed, WorldType, Play
  <2>2. ASSUME NEW jump \in Jumps, HostSeeks(jump) \/ HostSeeks(-jump) PROVE HostType
    <3>1. gap' \in Int /\ OfType("seek") \in Message
      BY <1>2, <2>2, DriftAssumption, KindsNamed, MessagesType DEF HostSeeks, WorldType
    <3>2. Sends(OfType("seek"), gap')
      BY <2>2 DEF HostSeeks
    <3>3. inbox' \in Seq(OnItsWay)
      BY <1>2, <3>1, <3>2, SendsType
    <3> QED
      BY <1>2, <2>2, <3>1, <3>3 DEF HostSeeks, WorldType
  <2>3. CASE HostRunsOut \/ HostHasData
    BY <1>2, <2>3 DEF HostRunsOut, HostHasData, WorldType, Play
  <2>4. CASE HostHeartbeat
    <3>1. HeartbeatMessage(FALSE, host.speed, heard) \in Message /\ gap \in Int
      BY <1>2, PlayType, MessagesType DEF WorldType
    <3>2. inbox' \in Seq(OnItsWay)
      BY <1>2, <2>4, <3>1, SendsType DEF HostHeartbeat
    <3> QED
      BY <1>2, <2>4, <3>2, DriftAssumption DEF HostHeartbeat, WorldType
  <2>5. CASE HostCacheChanged
    BY <1>2, <2>5, PlayType DEF HostCacheChanged, WorldType
  <2> QED
    BY <2>1, <2>2, <2>3, <2>4, <2>5 DEF HostActs
<1>5. WorldType' /\ GuestType'
  BY <1>1, <1>2, <1>3, <1>4 DEF WorldType, GuestType
<1>6. TypeOK'
  BY <1>5 DEF TypeOK, WorldType, GuestType, OnItsWay, EventNames
<1>7. Clock' /\ Reflected' /\ Exact'
  BY <1>1 DEF DInv, Clock, Reflected, Exact, Rate
<1> QED
  BY <1>6, <1>7 DEF DInv

LEMMA GuestStep ==
  ASSUME DInv, GuestActs
  PROVE  DInv'
<1>1. WorldType /\ GuestType /\ Clock /\ Reflected
  BY TypeParts DEF DInv
<1>2. UNCHANGED <<host, heard, gap, beatIn, engine, positionMs, elapsed, inbox, refreshIn>> /\ steady' = FALSE
  BY DEF GuestActs, GuestSetsSpeed, GuestSeeks, GuestRunsOut, GuestHasData, world, estimate
<1>3. apart' \in Nat /\ acts' \in 0..MaxActs /\ stall' \in 0..MaxStall
  <2>1. Acts \/ NoAct
    BY DEF GuestActs, GuestSetsSpeed, GuestSeeks, GuestRunsOut, GuestHasData
  <2> QED
    BY <1>1, <2>1, BoundsType
<1> DEFINE PlayerType == player' \in Play /\ target' \subseteq Int /\ events' \subseteq EventNames
<1>4. PlayerType /\ Reflected'
  <2>1. ASSUME NEW speed \in Speeds, GuestSetsSpeed(speed) PROVE PlayerType /\ Reflected'
    BY <1>1, <1>2, <2>1 DEF GuestSetsSpeed, GuestType, Reflected, Play, EventNames
  <2>2. ASSUME NEW jump \in Jumps, GuestSeeks(jump) \/ GuestSeeks(-jump)
        PROVE  PlayerType /\ Reflected'
    <3>1. jump \in Int /\ -jump \in Int
      BY DriftAssumption
    <3>2. /\ target' = {jump} \/ target' = {-jump}
          /\ player' = player /\ events' = events \cup {"seek"}
      BY <2>2 DEF GuestSeeks
    <3>3. PlayerType
      BY <1>1, <3>1, <3>2 DEF GuestType, EventNames
    <3> QED
      BY <1>1, <1>2, <3>2, <3>3 DEF Reflected
  <2>3. CASE GuestRunsOut \/ GuestHasData
    BY <1>1, <1>2, <2>3 DEF GuestRunsOut, GuestHasData, GuestType, Reflected, Play, EventNames
  <2> QED
    BY <2>1, <2>2, <2>3 DEF GuestActs
<1>5. TypeOK'
  BY <1>1, <1>2, <1>3, <1>4 DEF TypeOK, WorldType, GuestType, OnItsWay, EventNames
<1> QED
  BY <1>1, <1>2, <1>4, <1>5 DEF DInv, Clock, Exact

LEMMA LandsStep ==
  ASSUME DInv, SeekLands
  PROVE  DInv'
<1>1. WorldType /\ GuestType /\ Clock /\ Reflected /\ ~steady
  BY TypeParts DEF DInv, Exact, SeekLands
<1>2. PICK jump \in target :
          /\ gap' = gap - jump
          /\ positionMs' = positionMs - jump
          /\ inbox' = [i \in DOMAIN inbox |-> [inbox[i] EXCEPT !.positionMs = @ - jump]]
  BY DEF SeekLands
<1>3. jump \in Int
  BY <1>1 DEF GuestType
<1>4. inbox' \in Seq(OnItsWay)
  <2>1. inbox \in Seq(OnItsWay) /\ Len(inbox) \in Nat /\ DOMAIN inbox = 1..Len(inbox)
    BY <1>1, LenProperties DEF WorldType
  <2>2. ASSUME NEW i \in DOMAIN inbox
        PROVE  [inbox[i] EXCEPT !.positionMs = @ - jump] \in OnItsWay
    <3>1. inbox[i] \in OnItsWay
      BY <2>1, ElementOfSeq
    <3> QED
      BY <1>3, <3>1 DEF OnItsWay
  <2>3. inbox' \in [1..Len(inbox) -> OnItsWay]
    BY <1>2, <2>1, <2>2
  <2> QED
    BY <2>1, <2>3, SeqDef
<1>5. /\ UNCHANGED <<host, heard, beatIn, player, events, engine, elapsed, refreshIn, steady>>
      /\ UNCHANGED <<apart, acts, stall>>
      /\ target' = {}
  BY DEF SeekLands, bounds
<1>6. gap' \in Int /\ positionMs' \in Int
  BY <1>1, <1>2, <1>3 DEF WorldType, GuestType
<1>7. TypeOK'
  BY <1>1, <1>4, <1>5, <1>6 DEF TypeOK, WorldType, GuestType, OnItsWay, EventNames
<1> QED
  BY <1>1, <1>5, <1>7 DEF DInv, Clock, Reflected, Exact

LEMMA SumBound ==
  \A a, b, c, d \in Int : a <= b /\ b + c <= d => a + c <= d
OBVIOUS

\* The engine knows what it has been told, and is told on the next event of the rest.
LEMMA ReportsStep ==
  ASSUME DInv, Reports
  PROVE  DInv'
<1>1. WorldType /\ GuestType /\ Clock /\ Reflected
  BY TypeParts DEF DInv
<1>2. player.speed \in Speeds /\ player.buffering \in BOOLEAN /\ engine \in Engine
  BY <1>1, PlayType DEF GuestType
<1>3. /\ UNCHANGED <<heard, beatIn, player, target, inbox, refreshIn, steady, apart, acts, stall>>
      /\ events # {} /\ events' \subseteq events
  BY DEF Reports, SpeedChanged, SeekReported, CacheChanged, Listen, bounds
<1>4. ~steady
  BY <1>3 DEF DInv, Exact
<1> DEFINE Rest == /\ engine' \in Engine /\ host' \in Play /\ gap' \in Int
                   /\ positionMs' \in Int /\ elapsed' \in 0..Interval /\ elapsed' <= elapsed
                   /\ ~engine'.paused /\ Reflected'
<1>5. Rest
  <2>1. CASE SpeedChanged
    <3> DEFINE r == OnLocalSpeed(engine, player.speed)
    <3>1. r.engine \in Engine /\ Same([engine EXCEPT !.speed = player.speed], r.engine)
      BY <1>2, LocalAnswers, LocalSettings DEF Answers
    <3>2. /\ engine' = r.engine /\ events' = events \ {"speed"}
          /\ host' = [host EXCEPT !.speed = IF r.effects.send = {} THEN @ ELSE player.speed]
          /\ UNCHANGED <<gap, positionMs, elapsed>>
      BY <2>1 DEF SpeedChanged, Listen, estimate
    <3> HIDE DEF r
    <3>3. host' \in Play
      BY <1>1, <1>2, <3>2 DEF WorldType, Play
    <3>4. /\ engine'.speed = player.speed /\ engine'.buffering = engine.buffering
          /\ engine'.paused = engine.paused
      BY <1>2, <3>1, <3>2 DEF Same, Engine
    <3>5. Reflected'
      BY <1>1, <1>3, <3>2, <3>4 DEF Reflected
    <3> QED
      BY <1>1, <3>1, <3>2, <3>3, <3>4, <3>5 DEF WorldType, GuestType, Clock
  <2>2. CASE SeekReported
    <3> DEFINE r == OnLocalSeek(engine)
    <3>1. r.engine \in Engine /\ Same(engine, r.engine)
      BY <1>2, LocalAnswers, LocalSettings DEF Answers
    <3>2. /\ engine' = r.engine /\ events' = events \ {"seek"} /\ host' = host
          /\ positionMs' = 0 /\ elapsed' = 0 /\ gap' = IF r.effects.send = {} THEN gap ELSE 0
      BY <2>2 DEF SeekReported, Listen, UpdatePosition
    <3> HIDE DEF r
    <3> QED
      BY <1>1, <1>3, <3>1, <3>2, DriftAssumption
      DEF WorldType, GuestType, Clock, Reflected, Same
  <2>3. CASE CacheChanged
    <3> DEFINE r == OnLocalBuffering(engine, player.buffering)
    <3>1. r.engine \in Engine /\ Same([engine EXCEPT !.buffering = player.buffering], r.engine)
      BY <1>2, BufferingAnswers, LocalSettings
    <3>2. /\ engine' = r.engine /\ events' = events \ {"cache"}
          /\ UNCHANGED <<host, heard, gap, positionMs, elapsed>>
      BY <2>3 DEF CacheChanged, Listen, estimate
    <3> HIDE DEF r
    <3>4. /\ engine'.speed = engine.speed /\ engine'.buffering = player.buffering
          /\ engine'.paused = engine.paused
      BY <1>2, <3>1, <3>2 DEF Same, Engine
    <3> QED
      BY <1>1, <1>3, <3>1, <3>2, <3>4 DEF WorldType, GuestType, Clock, Reflected
  <2> QED
    BY <2>1, <2>2, <2>3 DEF Reports
<1>6. TypeOK'
  <2>1. WorldType'
    BY <1>1, <1>3, <1>5 DEF WorldType
  <2>2. GuestType'
    BY <1>1, <1>3, <1>5 DEF GuestType
  <2> QED
    BY <2>1, <2>2 DEF TypeOK, WorldType, GuestType, OnItsWay, EventNames
<1>7. Clock'
  <2>1. /\ elapsed \in Int /\ elapsed' \in Int /\ Interval \in Int
        /\ refreshIn \in Int /\ refreshIn' \in Int
    BY <1>1, <1>3, <1>5, DriftAssumption DEF GuestType
  <2>2. elapsed' <= elapsed /\ refreshIn' = refreshIn /\ elapsed + refreshIn <= Interval
    BY <1>1, <1>3, <1>5 DEF Clock
  <2>3. elapsed' + refreshIn' <= Interval
    BY <2>1, <2>2, SumBound
  <2> QED
    BY <1>5, <2>3 DEF Clock
<1> QED
  BY <1>3, <1>4, <1>5, <1>6, <1>7 DEF DInv, Exact

\* What a message of the host makes of the engine, and what it sets at the player.
ReceivedResult(r, position) ==
    /\ r.engine \in Engine /\ r.effects \in Effects
    /\ r.engine.buffering = engine.buffering /\ r.engine.paused = engine.paused
    /\ r.effects.setSpeed \in {{}, {r.engine.speed}}
    /\ r.effects.setSpeed = {} => r.engine.speed = engine.speed
    /\ position \in Int
    /\ engine' = r.engine
    /\ Drive(r.effects, position)
    /\ \/ positionMs' = position /\ elapsed' = 0
       \/ UNCHANGED <<positionMs, elapsed>>

LEMMA ReceivedStep ==
  ASSUME DInv, NEW r, NEW position, ReceivedResult(r, position), inbox # <<>>,
         inbox' = Tail(inbox),
         UNCHANGED <<host, heard, gap, beatIn, refreshIn, apart, acts, stall>>,
         \/ steady' = FALSE
         \/ /\ steady' = steady /\ r.effects.setSpeed = {} /\ ~r.effects.seek
            /\ UNCHANGED <<positionMs, elapsed>>
  PROVE  DInv'
<1>1. WorldType /\ GuestType /\ Clock /\ Reflected /\ TypeOK /\ Exact
  BY TypeParts DEF DInv
<1>2. r.engine.speed \in Speeds
  BY DEF ReceivedResult, Engine
<1>3. /\ player' \in Play /\ player'.buffering = player.buffering
      /\ target' \subseteq Int
      /\ events' \subseteq EventNames /\ events \subseteq events'
      /\ r.effects.setSpeed = {} => player' = player
      /\ r.effects.setSpeed = {r.engine.speed} => player'.speed = r.engine.speed
      /\ r.effects.setSpeed = {} /\ ~r.effects.seek => target' = target /\ events' = events
  BY <1>1, <1>2, DriveType DEF ReceivedResult
<1>4. Reflected'
  BY <1>1, <1>3 DEF ReceivedResult, Reflected
<1>5. positionMs' \in Int /\ elapsed' \in 0..Interval /\ elapsed' <= elapsed
  BY <1>1, DriftAssumption DEF ReceivedResult, GuestType
<1>6. WorldType'
  <2>1. inbox' \in Seq(OnItsWay)
    BY <1>1, HeadType
  <2> QED
    BY <1>1, <2>1 DEF WorldType
<1>7. steady' \in BOOLEAN /\ engine' \in Engine /\ refreshIn' \in 0..Interval
  BY <1>1 DEF GuestType, ReceivedResult
<1>8. TypeOK'
  BY <1>3, <1>5, <1>6, <1>7 DEF TypeOK, WorldType, OnItsWay, EventNames
<1>9. Clock'
  <2>1. /\ elapsed \in Int /\ elapsed' \in Int /\ Interval \in Int
        /\ refreshIn \in Int /\ refreshIn' \in Int
    BY <1>1, <1>5, <1>7, DriftAssumption DEF GuestType
  <2>2. elapsed' <= elapsed /\ elapsed + refreshIn' <= Interval
    BY <1>1, <1>5 DEF Clock
  <2>3. elapsed' + refreshIn' <= Interval
    BY <2>1, <2>2, SumBound
  <2> QED
    BY <1>1, <2>3 DEF Clock, ReceivedResult
<1>10. Exact'
  <2>1. CASE steady' = FALSE
    BY <2>1 DEF Exact
  <2>2. CASE /\ steady' = steady /\ r.effects.setSpeed = {} /\ ~r.effects.seek
             /\ UNCHANGED <<positionMs, elapsed>>
    BY <1>1, <1>3, <2>2 DEF Exact, Rate
  <2> QED
    BY <2>1, <2>2
<1> QED
  BY <1>4, <1>8, <1>9, <1>10 DEF DInv

LEMMA ReceiveSpeedStep ==
  ASSUME DInv, ReceiveSpeed
  PROVE  DInv'
<1> DEFINE m == Head(inbox)
           r == OnRemoteSpeed(engine, m.body.speed)
<1>1. WorldType /\ engine \in Engine
  BY TypeParts DEF DInv, GuestType
<1>2. inbox # <<>> /\ m.body \in Message
  BY <1>1, HeadType DEF ReceiveSpeed, Receive
<1>3. m.body.speed \in Speeds
  BY <1>2 DEF Message
<1>4. /\ r.engine \in Engine /\ r.effects \in Effects
      /\ SpeedOnly(engine, r.engine, m.body.speed)
      /\ r.effects.setSpeed = {m.body.speed}
  BY <1>1, <1>3, RemoteSpeedExpects, RemoteSpeedSettings DEF Expects
<1>5. /\ inbox' = Tail(inbox)
      /\ UNCHANGED <<host, heard, gap, beatIn, refreshIn, apart, acts, stall, positionMs, elapsed>>
      /\ steady' = FALSE /\ engine' = r.engine /\ Drive(r.effects, 0)
  BY DEF ReceiveSpeed, Receive, world, bounds, estimate
<1> HIDE DEF r, m
<1>6. /\ r.engine.speed = m.body.speed
      /\ r.engine.buffering = engine.buffering /\ r.engine.paused = engine.paused
  BY <1>4 DEF SpeedOnly
<1>7. ReceivedResult(r, 0)
  <2>1. r.effects.setSpeed = {r.engine.speed} /\ r.effects.setSpeed # {} /\ 0 \in Int
    BY <1>4, <1>6
  <2> QED
    BY <1>4, <1>5, <1>6, <2>1 DEF ReceivedResult
<1> QED
  BY <1>2, <1>5, <1>7, ReceivedStep

LEMMA ReceiveSeekStep ==
  ASSUME DInv, ReceiveSeek
  PROVE  DInv'
<1> DEFINE m == Head(inbox)
           r == OnRemoteSeek(engine)
<1>1. WorldType /\ engine \in Engine
  BY TypeParts DEF DInv, GuestType
<1>2. inbox # <<>> /\ m.positionMs \in Int
  BY <1>1, HeadType DEF ReceiveSeek, Receive
<1>3. /\ r.engine \in Engine /\ r.effects \in Effects
      /\ Same(engine, r.engine) /\ r.effects.setSpeed = {}
  BY <1>1, RemoteSeekExpects, RemoteSeekSettings DEF Expects
<1>4. /\ inbox' = Tail(inbox)
      /\ UNCHANGED <<host, heard, gap, beatIn, refreshIn, apart, acts, stall>>
      /\ steady' = FALSE /\ engine' = r.engine /\ Drive(r.effects, m.positionMs)
      /\ positionMs' = m.positionMs /\ elapsed' = 0
  BY DEF ReceiveSeek, Receive, world, bounds, UpdatePosition
<1> HIDE DEF r, m
<1>5. ReceivedResult(r, m.positionMs)
  BY <1>2, <1>3, <1>4 DEF ReceivedResult, Same
<1> QED
  BY <1>2, <1>4, <1>5, ReceivedStep

\* The answer to a heartbeat, with what the engine took for a drift.
LEMMA HeartbeatResultType ==
  ASSUME WorldType, engine \in Engine, inbox # <<>>
  PROVE  LET m == Head(inbox)
             r == HeartbeatResult
             e == SpeedCorrected(engine, m.body).engine
         IN  /\ r.engine \in Engine /\ r.effects \in Effects
             /\ r.engine.speed = m.body.speed
             /\ r.engine.buffering = engine.buffering /\ r.engine.paused = engine.paused
             /\ r.effects.setSpeed = IF engine.speed = m.body.speed THEN {} ELSE {m.body.speed}
             /\ r.effects.seek =>
                    /\ Abs(EstimatedPosition(e) - m.positionMs) > Threshold
                    /\ ~engine.paused /\ ~engine.buffering
<1> DEFINE m == Head(inbox)
           e == SpeedCorrected(engine, m.body).engine
           d == Abs(EstimatedPosition(e) - m.positionMs) > Threshold
           r == OnRemoteHeartbeat(engine, TRUE, Host, m.body, d)
<1>1. m.body \in Message
  BY HeadType
<1>2. d \in BOOLEAN
  OBVIOUS
<1>3. HeartbeatResult = r
  BY DEF HeartbeatResult
<1> HIDE DEF d
<1>4. Expects(engine, r)
  BY <1>1, <1>2, HostAssumption, RemoteHeartbeatExpects
<1>5. /\ SpeedOnly(engine, r.engine, m.body.speed)
      /\ r.effects.setSpeed = IF engine.speed = m.body.speed THEN {} ELSE {m.body.speed}
      /\ r.effects.seek => d /\ ~engine.paused /\ ~engine.buffering
  <2>1. ASSUME NEW body \in Message, NEW drifted \in BOOLEAN
        PROVE  LET s == OnRemoteHeartbeat(engine, TRUE, Host, body, drifted)
               IN  /\ SpeedOnly(engine, s.engine, body.speed)
                   /\ s.effects.setSpeed = IF engine.speed = body.speed THEN {} ELSE {body.speed}
                   /\ s.effects.seek => drifted /\ ~engine.paused /\ ~engine.buffering
                   /\ s.effects.setPaused = {}
    BY HeartbeatSettings, ZenonT(60)
  <2> HIDE DEF m
  <2> QED
    BY <1>1, <1>2, <2>1, Zenon
<1> HIDE DEF r, m
<1>6. /\ r.engine.speed = m.body.speed
      /\ r.engine.buffering = engine.buffering /\ r.engine.paused = engine.paused
  BY <1>5 DEF SpeedOnly
<1> QED
  BY <1>3, <1>4, <1>5, <1>6 DEF Expects, d, m

LEMMA ReceiveHeartbeatStep ==
  ASSUME DInv, ReceiveHeartbeat
  PROVE  DInv'
<1> DEFINE m == Head(inbox)
           r == HeartbeatResult
<1>1. WorldType /\ engine \in Engine /\ inbox # <<>>
  BY TypeParts DEF DInv, GuestType, ReceiveHeartbeat, Receive
<1>2. m.positionMs \in Int
  BY <1>1, HeadType
<1>3. /\ r.engine \in Engine /\ r.effects \in Effects
      /\ r.engine.speed = m.body.speed
      /\ r.engine.buffering = engine.buffering /\ r.engine.paused = engine.paused
      /\ r.effects.setSpeed = IF engine.speed = m.body.speed THEN {} ELSE {m.body.speed}
  BY <1>1, HeartbeatResultType
<1>4. /\ inbox' = Tail(inbox)
      /\ UNCHANGED <<host, heard, gap, beatIn, refreshIn, apart, acts, stall>>
      /\ engine' = r.engine /\ Drive(r.effects, m.positionMs)
      /\ IF r.effects.seek THEN positionMs' = m.positionMs /\ elapsed' = 0
         ELSE UNCHANGED <<positionMs, elapsed>>
      /\ steady' = (steady /\ r.effects = NoEffects)
  BY DEF ReceiveHeartbeat, Receive, world, bounds, UpdatePosition, estimate
<1>5. NoEffects.setSpeed = {} /\ ~NoEffects.seek
  BY DEF NoEffects
<1> HIDE DEF r, m
<1>6. ReceivedResult(r, m.positionMs)
  <2>1. /\ r.effects.setSpeed \in {{}, {r.engine.speed}}
        /\ r.effects.setSpeed = {} => r.engine.speed = engine.speed
    BY <1>3
  <2> QED
    BY <1>2, <1>3, <1>4, <2>1 DEF ReceivedResult
<1>7. steady \in BOOLEAN
  BY TypeParts DEF DInv, GuestType
<1>8. CASE r.effects = NoEffects
  <2>1. /\ steady' = steady /\ r.effects.setSpeed = {} /\ ~r.effects.seek
        /\ UNCHANGED <<positionMs, elapsed>>
    BY <1>4, <1>5, <1>7, <1>8
  <2> QED
    BY <1>1, <1>4, <1>6, <2>1, ReceivedStep
<1>9. CASE r.effects # NoEffects
  <2>1. steady' = FALSE
    BY <1>4, <1>9
  <2> QED
    BY <1>1, <1>4, <1>6, <2>1, ReceivedStep
<1> QED
  BY <1>8, <1>9

LEMMA RefreshStep ==
  ASSUME DInv, Refresh
  PROVE  DInv'
<1>1. WorldType /\ GuestType /\ Clock /\ Reflected
  BY TypeParts DEF DInv
<1>2. /\ UNCHANGED <<host, heard, gap, beatIn, player, target, events, engine, inbox>>
      /\ UNCHANGED <<apart, acts, stall>>
      /\ refreshIn' = Interval /\ positionMs' = 0 /\ elapsed' = 0
      /\ steady' = (target = {} /\ events = {})
  BY DEF Refresh, world, guest, bounds, UpdatePosition
<1>3. TypeOK'
  BY <1>1, <1>2, DriftAssumption DEF TypeOK, WorldType, GuestType, OnItsWay, EventNames
<1>4. Exact'
  <2>1. Rate(player) \in Nat
    BY <1>1, PlayType DEF GuestType
  <2>2. 0 = -(0 * Rate(player))
    BY <2>1
  <2> QED
    BY <1>2, <2>2 DEF Exact, Rate
<1> QED
  BY <1>1, <1>2, <1>3, <1>4, DriftAssumption DEF DInv, Clock, Reflected

LEMMA PlayedOn ==
  \A n, rate \in Nat : -(n * rate) - rate = -((n + 1) * rate)
OBVIOUS

LEMMA TickStep ==
  ASSUME DInv, Tick
  PROVE  DInv'
<1>1. WorldType /\ GuestType /\ Clock /\ Reflected /\ Exact
  BY TypeParts DEF DInv
<1>2. /\ UNCHANGED <<host, heard, player, target, events, inbox, steady, acts>>
      /\ gap' = gap + Rate(host) - Rate(player)
      /\ positionMs' = positionMs - Rate(player)
      /\ elapsed' = elapsed + 1
      /\ beatIn' = beatIn - 1 /\ refreshIn' = refreshIn - 1
      /\ engine' = Aged(engine)
      /\ beatIn > 0 /\ refreshIn > 0
  BY DEF Tick, guest
<1>3. Rate(host) \in Nat /\ Rate(player) \in Nat
  BY <1>1, PlayType DEF WorldType, GuestType
<1>4. stall' \in 0..MaxStall /\ apart' \in Nat
  <2>1. stall < MaxStall \/ stall' = stall
    BY DEF Tick
  <2>2. stall' = stall \/ stall' = stall + 1
    BY DEF Tick
  <2>3. stall' \in 0..MaxStall
    BY <1>1, <2>1, <2>2, DriftAssumption DEF WorldType
  <2>4. apart' = apart + 1 \/ apart' = 0
    BY DEF Tick
  <2> QED
    BY <1>1, <2>3, <2>4 DEF WorldType
<1>5. engine' \in Engine /\ Same(engine, engine')
  <2>1. engine \in Engine
    BY <1>1 DEF GuestType
  <2> QED
    BY <1>2, <2>1, AgedType, KindsNamed, SuppressionsApart
<1>6. elapsed' \in 0..Interval /\ elapsed' + refreshIn' <= Interval
  BY <1>1, <1>2, DriftAssumption DEF GuestType, Clock
<1>7. gap' \in Int /\ positionMs' \in Int /\ beatIn' \in 0..Interval /\ refreshIn' \in 0..Interval
  BY <1>1, <1>2, <1>3, DriftAssumption DEF WorldType, GuestType
<1>8. TypeOK'
  BY <1>1, <1>2, <1>4, <1>5, <1>6, <1>7 DEF TypeOK, WorldType, GuestType, OnItsWay, EventNames
<1>9. Clock'
  BY <1>1, <1>5, <1>6 DEF Clock, Same
<1>10. Reflected'
  BY <1>1, <1>2, <1>5 DEF Reflected, Same
<1>11. Exact'
  <2> SUFFICES ASSUME steady' PROVE positionMs' = -(elapsed' * Rate(player))
    BY <1>1, <1>2 DEF Exact, Rate
  <2>1. positionMs = -(elapsed * Rate(player)) /\ elapsed \in Nat
    BY <1>1, <1>2 DEF Exact, GuestType
  <2>2. -(elapsed * Rate(player)) - Rate(player) = -((elapsed + 1) * Rate(player))
    BY <1>3, <2>1, PlayedOn
  <2> QED
    BY <1>2, <2>1, <2>2
<1> QED
  BY <1>8, <1>9, <1>10, <1>11 DEF DInv

LEMMA Invariance == DInv /\ [Next]_vars => DInv'
<1> SUFFICES ASSUME DInv, [Next]_vars PROVE DInv'
  OBVIOUS
<1>1. CASE HostActs \/ HostCacheChanged \/ HostHeartbeat
  BY <1>1, HostStep
<1>2. CASE GuestActs
  BY <1>2, GuestStep
<1>3. CASE SeekLands
  BY <1>3, LandsStep
<1>4. CASE Reports
  BY <1>4, ReportsStep
<1>5. CASE Received
  BY <1>5, ReceiveSpeedStep, ReceiveSeekStep, ReceiveHeartbeatStep DEF Received
<1>6. CASE Refresh
  BY <1>6, RefreshStep
<1>7. CASE Tick
  BY <1>7, TickStep
<1>8. CASE UNCHANGED vars
  BY <1>8 DEF vars, world, guest, estimate, bounds, DInv, TypeOK, Clock, Reflected, Exact, Rate
<1> QED
  BY <1>1, <1>2, <1>3, <1>4, <1>5, <1>6, <1>7, <1>8 DEF Next

\* The engine, its estimate and the players are well typed; the time since the
\* engine's last update is never longer than the heartbeat interval.
THEOREM TypeCorrect == Spec => []TypeOK
<1>1. DInv => TypeOK
  BY DEF DInv
<1> QED
  BY <1>1, DInit, Invariance, PTL DEF Spec

----------------------------------------------------------------------------
(* No correction without need *)

LEMMA NeededStep ==
  ASSUME DInv, Corrects, steady, HeartbeatResult.effects.setSpeed = {}
  PROVE  Abs(Head(inbox).positionMs) > Threshold
<1> DEFINE m == Head(inbox)
           e == SpeedCorrected(engine, m.body).engine
<1>1. WorldType /\ GuestType /\ Reflected /\ Exact
  BY TypeParts DEF DInv
<1>2. inbox # <<>> /\ engine \in Engine /\ m.positionMs \in Int
  BY <1>1, HeadType DEF GuestType, Corrects, ReceiveHeartbeat, Receive
<1>3. /\ HeartbeatResult.effects.setSpeed
             = IF engine.speed = m.body.speed THEN {} ELSE {m.body.speed}
      /\ Abs(EstimatedPosition(e) - m.positionMs) > Threshold
      /\ ~engine.paused /\ ~engine.buffering
  BY <1>1, <1>2, HeartbeatResultType DEF Corrects
<1>4. engine.speed = m.body.speed
  BY <1>3
<1>5. e = engine
  BY <1>4 DEF SpeedCorrected, Result
<1> HIDE DEF e, m
<1>6. engine.speed = player.speed /\ ~player.buffering
  BY <1>1, <1>3 DEF Reflected, Exact
<1>7. player.speed \in Nat /\ elapsed \in Nat
  <2>1. player \in Play /\ elapsed \in Nat
    BY <1>1 DEF GuestType
  <2>2. player.speed \in Speeds
    BY <2>1, PlayType
  <2> QED
    BY <2>1, <2>2, DriftAssumption
<1>8. positionMs = -(elapsed * player.speed)
  BY <1>1, <1>6 DEF Exact, Rate
<1>9. EstimatedPosition(e) = positionMs + elapsed * player.speed
  BY <1>3, <1>5, <1>6 DEF EstimatedPosition
<1>10. EstimatedPosition(e) = 0
  <2>1. elapsed * player.speed \in Nat
    BY <1>7
  <2> QED
    BY <1>8, <1>9, <2>1
<1>11. Abs(0 - m.positionMs) = Abs(m.positionMs)
  BY <1>2 DEF Abs
<1> QED
  BY <1>3, <1>10, <1>11 DEF m

\* The guest is made to jump only when it is farther from the host than the
\* threshold, unless something has happened to its player since the last refresh
\* or its speed is being corrected, for every interval, threshold and cooldown.
THEOREM CorrectionsAreNeeded == Spec => NoNeedlessCorrection
<1>1. DInv /\ [Next]_vars =>
          [Corrects => \/ Abs(Head(inbox).positionMs) > Threshold
                       \/ ~steady \/ HeartbeatResult.effects.setSpeed # {}]_vars
  BY NeededStep
<1> QED
  BY <1>1, DInit, Invariance, PTL DEF Spec, NoNeedlessCorrection

----------------------------------------------------------------------------
(* The cooldown of corrections is over when the next heartbeat comes *)

LEMMA CooldownKept ==
  ASSUME NEW e \in Engine, NEW k \in Kinds
  PROVE  /\ Suppress(e, k).cooldown = e.cooldown
         /\ \A message : Reported(e, k, message).engine.cooldown = e.cooldown
BY DEF Suppress, Consume, Reported, Result, Engine

LEMMA CommandCooldown ==
  ASSUME NEW e \in Engine
  PROVE  /\ OnLocalSeek(e).engine.cooldown = e.cooldown
         /\ OnRemoteSeek(e).engine.cooldown = e.cooldown
         /\ \A speed \in Speeds :
                /\ OnLocalSpeed(e, speed).engine.cooldown = e.cooldown
                /\ OnRemoteSpeed(e, speed).engine.cooldown = e.cooldown
         /\ \A b \in BOOLEAN : OnLocalBuffering(e, b).engine.cooldown = e.cooldown
<1>1. /\ OnLocalSeek(e).engine.cooldown = e.cooldown
      /\ OnRemoteSeek(e).engine.cooldown = e.cooldown
  BY KindsNamed, CooldownKept DEF OnLocalSeek, OnRemoteSeek, Result
<1>2. ASSUME NEW speed \in Speeds
      PROVE  /\ OnLocalSpeed(e, speed).engine.cooldown = e.cooldown
             /\ OnRemoteSpeed(e, speed).engine.cooldown = e.cooldown
  <2> DEFINE f == [e EXCEPT !.speed = speed]
  <2>1. f \in Engine /\ f.cooldown = e.cooldown
    BY DEF Engine
  <2> HIDE DEF f
  <2>2. /\ Suppress(f, "speed").cooldown = e.cooldown
        /\ Reported(f, "speed", {SpeedMessage(speed)}).engine.cooldown = e.cooldown
    BY <2>1, KindsNamed, CooldownKept
  <2> QED
    BY <2>2 DEF OnLocalSpeed, OnRemoteSpeed, Result, f
<1>3. \A b \in BOOLEAN : OnLocalBuffering(e, b).engine.cooldown = e.cooldown
  BY DEF OnLocalBuffering, Result, Engine
<1> QED
  BY <1>1, <1>2, <1>3

LEMMA HeartbeatCooldown ==
  ASSUME NEW e \in Engine, NEW m \in Message, NEW drifted \in BOOLEAN
  PROVE  OnRemoteHeartbeat(e, TRUE, Host, m, drifted).engine.cooldown \in {e.cooldown, Cooldown}
<1> DEFINE t == Tracked(e, Host, m)
           f == SpeedCorrected(t, m)
           g == [f.engine EXCEPT !.cooldown = Cooldown]
<1>1. t \in Engine /\ t.cooldown = e.cooldown /\ m.speed \in Speeds
  BY HostAssumption DEF Tracked, Engine, Message
<1>2. f.engine \in Engine /\ f.engine.cooldown = e.cooldown
  <2> HIDE DEF t
  <2>1. CASE t.speed = m.speed
    BY <1>1, <2>1 DEF SpeedCorrected, Result
  <2>2. CASE t.speed # m.speed
    <3>1. f.engine = OnRemoteSpeed(t, m.speed).engine
      BY <2>2 DEF SpeedCorrected, OnRemoteSpeed, Result
    <3>2. OnRemoteSpeed(t, m.speed).engine.cooldown = t.cooldown
      BY <1>1, CommandCooldown
    <3>3. Expects(t, OnRemoteSpeed(t, m.speed))
      BY <1>1, RemoteSpeedExpects
    <3> HIDE DEF f
    <3> QED
      BY <1>1, <3>1, <3>2, <3>3 DEF Expects
  <2> QED
    BY <2>1, <2>2
<1> HIDE DEF f, t
<1>3. g \in Engine /\ g.cooldown = Cooldown
  <2>1. Cooldown \in 0..Cooldown
    BY TimesAssumption
  <2> QED
    BY <1>2, <2>1 DEF Engine
<1>4. Corrected(f).engine = Suppress(g, "seek")
  BY DEF Corrected, Result
<1> HIDE DEF g
<1>5. Corrected(f).engine.cooldown = Cooldown
  BY <1>3, <1>4, KindsNamed, CooldownKept
<1>6. OnRemoteHeartbeat(e, TRUE, Host, m, drifted)
          = IF drifted /\ MayCorrect(f.engine, m) THEN Corrected(f) ELSE f
  BY DEF OnRemoteHeartbeat, f, t
<1> QED
  BY <1>2, <1>5, <1>6

\* A guest that has drifted and may correct does.
LEMMA HeartbeatCorrects ==
  ASSUME NEW e \in Engine, NEW m \in Message, e.speed = m.speed, MayCorrect(e, m)
  PROVE  OnRemoteHeartbeat(e, TRUE, Host, m, TRUE).effects.seek
<1> DEFINE t == Tracked(e, Host, m)
<1>1. t.speed = m.speed /\ MayCorrect(t, m)
  BY DEF Tracked, Engine, MayCorrect
<1>2. SpeedCorrected(t, m) = Result(t, NoEffects)
  BY <1>1 DEF SpeedCorrected
<1> HIDE DEF t
<1>3. OnRemoteHeartbeat(e, TRUE, Host, m, TRUE) = Corrected(Result(t, NoEffects))
  BY <1>1, <1>2 DEF OnRemoteHeartbeat, Result, t
<1>4. Corrected(Result(t, NoEffects)).effects = [NoEffects EXCEPT !.seek = TRUE]
  BY DEF Corrected, Result
<1>5. [NoEffects EXCEPT !.seek = TRUE].seek = TRUE
  BY DEF NoEffects
<1> QED
  BY <1>3, <1>4, <1>5

IsBeat(m) == m.body.type = "heartbeat"
NoBeat(q) == \A i \in 1..Len(q) : ~IsBeat(q[i])
LoneBeat(q) == \A i, j \in 1..Len(q) : IsBeat(q[i]) /\ IsBeat(q[j]) => i = j

LEMMA BeatAppended ==
  ASSUME NEW q \in Seq(OnItsWay), NEW m \in OnItsWay
  PROVE  /\ ~IsBeat(m) => /\ NoBeat(q) => NoBeat(Append(q, m))
                          /\ LoneBeat(q) => LoneBeat(Append(q, m))
         /\ NoBeat(q) => LoneBeat(Append(q, m))
<1> DEFINE n == Len(q)
           a == Append(q, m)
<1>1. n \in Nat /\ Len(a) = n + 1 /\ (\A i \in 1..n : a[i] = q[i]) /\ a[n + 1] = m
  BY LenProperties, AppendProperties
<1> HIDE DEF a, n
<1>2. \A i \in 1..Len(a) : i \in 1..n \/ i = n + 1
  BY <1>1
<1>3. ASSUME ~IsBeat(m), NoBeat(q) PROVE NoBeat(a)
  BY <1>1, <1>2, <1>3 DEF NoBeat, n
<1>4. ASSUME ~IsBeat(m), LoneBeat(q) PROVE LoneBeat(a)
  BY <1>1, <1>2, <1>4 DEF LoneBeat, n
<1>5. ASSUME NoBeat(q) PROVE LoneBeat(a)
  BY <1>1, <1>2, <1>5 DEF LoneBeat, NoBeat, n
<1> QED
  BY <1>3, <1>4, <1>5 DEF a

LEMMA BeatTaken ==
  ASSUME NEW q \in Seq(OnItsWay), q # <<>>
  PROVE  /\ NoBeat(q) => NoBeat(Tail(q))
         /\ LoneBeat(q) => LoneBeat(Tail(q))
         /\ LoneBeat(q) /\ IsBeat(Head(q)) => NoBeat(Tail(q))
<1> DEFINE n == Len(q)
           t == Tail(q)
<1>1. n \in Nat \ {0} /\ Len(t) = n - 1 /\ \A i \in 1..Len(t) : t[i] = q[i + 1]
  BY EmptySeq, HeadTailProperties
<1>2. Head(q) = q[1]
  OBVIOUS
<1> HIDE DEF n, t
<1>3. \A i \in 1..Len(t) : i + 1 \in 1..n /\ i + 1 # 1
  BY <1>1
<1>4. 1 \in 1..n
  BY <1>1
<1>5. NoBeat(q) => NoBeat(t)
  BY <1>1, <1>3 DEF NoBeat, n
<1>6. ASSUME LoneBeat(q) PROVE LoneBeat(t)
  <2> SUFFICES ASSUME NEW i \in 1..Len(t), NEW j \in 1..Len(t), IsBeat(t[i]), IsBeat(t[j])
               PROVE  i = j
    BY DEF LoneBeat
  <2>1. i + 1 = j + 1
    BY <1>1, <1>3, <1>6 DEF LoneBeat, n
  <2> QED
    BY <2>1
<1>7. ASSUME LoneBeat(q), IsBeat(Head(q)) PROVE NoBeat(t)
  BY <1>1, <1>2, <1>3, <1>4, <1>7 DEF LoneBeat, NoBeat, n
<1> QED
  BY <1>5, <1>6, <1>7 DEF t

CooldownEnds ==
    /\ engine.cooldown <= beatIn
    /\ LoneBeat(inbox)
    /\ NoBeat(inbox) \/ (engine.cooldown = 0 /\ beatIn = Interval)

\* The same messages, elsewhere.
LEMMA LandedInbox ==
  ASSUME WorldType, NEW jump \in Int,
         inbox' = [i \in DOMAIN inbox |-> [inbox[i] EXCEPT !.positionMs = @ - jump]],
         inbox' \in Seq(OnItsWay)
  PROVE  Len(inbox') = Len(inbox) /\ \A i \in 1..Len(inbox) : inbox'[i].body = inbox[i].body
<1>1. Len(inbox) \in Nat /\ DOMAIN inbox = 1..Len(inbox)
  BY LenProperties DEF WorldType
<1>2. DOMAIN inbox' = 1..Len(inbox) /\ DOMAIN inbox' = 1..Len(inbox') /\ Len(inbox') \in Nat
  BY <1>1, LenProperties
<1>3. Len(inbox') = Len(inbox)
  BY <1>1, <1>2
<1>4. ASSUME NEW i \in 1..Len(inbox) PROVE inbox'[i].body = inbox[i].body
  <2>1. inbox[i] \in OnItsWay
    BY ElementOfSeq DEF WorldType
  <2>2. inbox'[i] = [inbox[i] EXCEPT !.positionMs = @ - jump]
    BY <1>1
  <2> QED
    BY <2>1, <2>2 DEF OnItsWay
<1> QED
  BY <1>3, <1>4

LEMMA CooldownStep ==
  ASSUME DInv, DInv', CooldownEnds, [Next]_vars
  PROVE  CooldownEnds'
<1>1. /\ WorldType /\ engine \in Engine /\ player.speed \in Speeds
      /\ player.buffering \in BOOLEAN /\ engine.cooldown \in Nat /\ inbox \in Seq(OnItsWay)
      /\ beatIn \in 0..Interval
  <2>1. WorldType /\ GuestType
    BY TypeParts DEF DInv
  <2> QED
    BY <2>1, PlayType, TimesAssumption DEF GuestType, WorldType, Engine
<1>2. ASSUME NEW m \in Message, ~IsBeat(Positioned(m, 0)), NEW position \in Int,
             Sends(m, position), UNCHANGED <<engine, beatIn>>
      PROVE  CooldownEnds'
  <2>1. Positioned(m, position) \in OnItsWay /\ ~IsBeat(Positioned(m, position))
    BY <1>2 DEF Positioned, OnItsWay, IsBeat
  <2> QED
    BY <1>1, <1>2, <2>1, BeatAppended DEF Sends, CooldownEnds
<1>3. ASSUME HostActs PROVE CooldownEnds'
  <2>1. ASSUME NEW speed \in Speeds, HostSetsSpeed(speed) PROVE CooldownEnds'
    <3>1. SpeedMessage(speed) \in Message /\ ~IsBeat(Positioned(SpeedMessage(speed), 0))
      BY MessagesType DEF SpeedMessage, OfType, Positioned, IsBeat
    <3> QED
      BY <1>1, <1>2, <2>1, <3>1 DEF HostSetsSpeed, WorldType
  <2>2. ASSUME NEW jump \in Jumps, HostSeeks(jump) \/ HostSeeks(-jump) PROVE CooldownEnds'
    <3>1. OfType("seek") \in Message /\ ~IsBeat(Positioned(OfType("seek"), 0))
      BY KindsNamed, MessagesType DEF OfType, Positioned, IsBeat
    <3>2. gap' \in Int
      BY TypeParts DEF DInv, TypeOK
    <3>3. Sends(OfType("seek"), gap') /\ UNCHANGED <<engine, beatIn>>
      BY <2>2 DEF HostSeeks
    <3> QED
      BY <1>2, <3>1, <3>2, <3>3
  <2>3. CASE HostRunsOut \/ HostHasData
    BY <2>3 DEF HostRunsOut, HostHasData, CooldownEnds
  <2> QED
    BY <1>3, <2>1, <2>2, <2>3 DEF HostActs
<1>3a. ASSUME HostCacheChanged PROVE CooldownEnds'
  BY <1>3a DEF HostCacheChanged, CooldownEnds
<1>4. ASSUME HostHeartbeat PROVE CooldownEnds'
  <2>1. beatIn = 0 /\ beatIn' = Interval /\ engine' = engine
        /\ inbox' = Append(inbox, Positioned(HeartbeatMessage(FALSE, host.speed, heard), gap))
    BY <1>4 DEF HostHeartbeat, Sends
  <2>2. engine.cooldown = 0 /\ NoBeat(inbox)
    BY <1>1, <2>1, DriftAssumption DEF CooldownEnds
  <2>3. Positioned(HeartbeatMessage(FALSE, host.speed, heard), gap) \in OnItsWay
    BY <1>1, PlayType, MessagesType DEF WorldType, Positioned, OnItsWay
  <2>4. LoneBeat(inbox')
    BY <1>1, <2>1, <2>2, <2>3, BeatAppended
  <2>5. engine'.cooldown = 0 /\ beatIn' = Interval /\ 0 <= Interval
    BY <2>1, <2>2, DriftAssumption
  <2> QED
    BY <2>4, <2>5 DEF CooldownEnds
<1>5. ASSUME GuestActs PROVE CooldownEnds'
  BY <1>5 DEF GuestActs, GuestSetsSpeed, GuestSeeks, GuestRunsOut, GuestHasData, world, CooldownEnds
<1>6. ASSUME SeekLands PROVE CooldownEnds'
  <2>1. PICK jump \in target :
            inbox' = [i \in DOMAIN inbox |-> [inbox[i] EXCEPT !.positionMs = @ - jump]]
    BY <1>6 DEF SeekLands
  <2>2. jump \in Int /\ inbox' \in Seq(OnItsWay)
    BY DEF DInv, TypeOK, OnItsWay
  <2>3. Len(inbox') = Len(inbox) /\ \A i \in 1..Len(inbox) : inbox'[i].body = inbox[i].body
    BY <1>1, <2>1, <2>2, LandedInbox
  <2>4. UNCHANGED <<engine, beatIn>>
    BY <1>6 DEF SeekLands
  <2> QED
    BY <2>3, <2>4 DEF CooldownEnds, LoneBeat, NoBeat, IsBeat
<1>7. ASSUME Reports PROVE CooldownEnds'
  <2>1. UNCHANGED <<beatIn, inbox>>
    BY <1>7 DEF Reports, SpeedChanged, SeekReported, CacheChanged, Listen
  <2>2. engine'.cooldown = engine.cooldown
    BY <1>1, <1>7, CommandCooldown DEF Reports, SpeedChanged, SeekReported, CacheChanged, Listen
  <2> QED
    BY <2>1, <2>2 DEF CooldownEnds
<1>8. ASSUME Received PROVE CooldownEnds'
  <2>1. /\ inbox # <<>> /\ inbox' = Tail(inbox) /\ beatIn' = beatIn
        /\ Head(inbox).body \in Message
    BY <1>1, <1>8, HeadType DEF Received, ReceiveSpeed, ReceiveSeek, ReceiveHeartbeat, Receive, world
  <2>2. /\ NoBeat(inbox) => NoBeat(inbox')
        /\ LoneBeat(inbox')
        /\ IsBeat(Head(inbox)) => NoBeat(inbox')
    BY <1>1, <2>1, BeatTaken DEF CooldownEnds
  <2>3. CASE ReceiveSpeed \/ ReceiveSeek
    <3>1. Head(inbox).body.speed \in Speeds
      BY <2>1 DEF Message
    <3>2. engine'.cooldown = engine.cooldown
      BY <1>1, <2>3, <3>1, CommandCooldown DEF ReceiveSpeed, ReceiveSeek
    <3> QED
      BY <2>1, <2>2, <3>2 DEF CooldownEnds
  <2>4. CASE ReceiveHeartbeat
    <3>1. IsBeat(Head(inbox)) /\ engine' = HeartbeatResult.engine
      BY <2>4 DEF ReceiveHeartbeat, Receive, IsBeat
    <3>2. engine'.cooldown \in {engine.cooldown, Cooldown}
      <4> DEFINE drifted == Abs(EstimatedPosition(SpeedCorrected(engine, Head(inbox).body).engine)
                                - Head(inbox).positionMs) > Threshold
      <4>1. drifted \in BOOLEAN
        OBVIOUS
      <4>2. HeartbeatResult = OnRemoteHeartbeat(engine, TRUE, Host, Head(inbox).body, drifted)
        BY DEF HeartbeatResult
      <4> HIDE DEF drifted
      <4> QED
        BY <1>1, <2>1, <3>1, <4>1, <4>2, HeartbeatCooldown
    <3>3. ~NoBeat(inbox)
      <4>1. Len(inbox) \in Nat \ {0} /\ Head(inbox) = inbox[1]
        BY <1>1, <2>1, EmptySeq
      <4> QED
        BY <3>1, <4>1 DEF NoBeat
    <3>4. engine.cooldown = 0 /\ beatIn = Interval /\ NoBeat(inbox')
      BY <2>2, <3>1, <3>3 DEF CooldownEnds
    <3> QED
      BY <2>1, <2>2, <3>2, <3>4, CooldownAssumption, DriftAssumption DEF CooldownEnds
  <2> QED
    BY <1>8, <2>3, <2>4 DEF Received
<1>9. ASSUME Refresh PROVE CooldownEnds'
  BY <1>9 DEF Refresh, world, guest, CooldownEnds
<1>10. ASSUME Tick PROVE CooldownEnds'
  <2>1. inbox = <<>> /\ inbox' = inbox /\ beatIn > 0 /\ beatIn' = beatIn - 1 /\ engine' = Aged(engine)
    BY <1>10 DEF Tick
  <2>2. engine'.cooldown = IF engine.cooldown > 0 THEN engine.cooldown - 1 ELSE 0
    BY <1>1, <2>1 DEF Aged, Engine
  <2>3. NoBeat(inbox') /\ LoneBeat(inbox')
    BY <2>1, EmptySeq DEF NoBeat, LoneBeat
  <2> QED
    BY <1>1, <2>1, <2>2, <2>3, DriftAssumption DEF CooldownEnds
<1>11. CASE UNCHANGED vars
  BY <1>11 DEF vars, world, guest, CooldownEnds
<1> QED
  BY <1>3, <1>3a, <1>4, <1>5, <1>6, <1>7, <1>8, <1>9, <1>10, <1>11 DEF Next

----------------------------------------------------------------------------
(* The two are not apart for long *)

\* A heartbeat of the host as it is.
Beat == Positioned(HeartbeatMessage(FALSE, host.speed, FALSE), gap)

\* Ticks since a heartbeat has arrived, and since the guest's last refresh.
SinceBeat == IF inbox = <<>> THEN Interval - beatIn ELSE Interval
SinceRefresh == Interval - refreshIn

\* Since they have been apart, nothing has happened to either player except what
\* heartbeats have made the guest do.
Undisturbed ==
    /\ ~host.buffering /\ ~heard /\ ~player.buffering /\ ~engine.buffering
    /\ engine.speed = player.speed
    /\ "cache" \notin events
    /\ "seek" \in events => Live(engine, "seek") # {}
    /\ target \subseteq {gap}
    /\ inbox \in {<<>>, <<Beat>>}
    /\ inbox # <<>> => beatIn = Interval /\ target = {} /\ events = {}
    /\ target # {} \/ events # {} => beatIn = Interval /\ host.speed = player.speed

\* What the engine takes for its position is its position.
Estimated == positionMs + elapsed * engine.speed = 0

\* A heartbeat makes the speeds equal, and a refresh the estimate exact, so that
\* the next heartbeat after both corrects.
Overdue ==
    /\ apart <= 2 * Interval
    /\ apart > SinceBeat => host.speed = player.speed
    /\ target = {} /\ Abs(gap) > Threshold =>
           /\ apart <= Interval + SinceBeat
           /\ Estimated \/ apart <= SinceRefresh \/ SinceBeat < SinceRefresh

ApartInv == apart # 0 => Undisturbed /\ Overdue

\* The numbers of a state, as the provers need them.
LEMMA ClocksType ==
  ASSUME DInv
  PROVE  /\ Interval \in Nat \ {0} /\ Threshold \in Nat
         /\ beatIn \in 0..Interval /\ refreshIn \in 0..Interval /\ elapsed \in 0..Interval
         /\ elapsed + refreshIn <= Interval
         /\ apart \in Nat /\ gap \in Int /\ positionMs \in Int
         /\ host \in Play /\ player \in Play /\ engine \in Engine
         /\ engine.speed \in Nat /\ player.speed \in Nat /\ host.speed \in Nat
         /\ engine.buffering \in BOOLEAN /\ heard \in BOOLEAN
BY DriftAssumption DEF DInv, TypeOK, Clock, Play, Engine

LEMMA BeatApart ==
  ASSUME DInv, ApartInv, apart # 0, HostHeartbeat
  PROVE  ApartInv'
<1>1. /\ beatIn = 0 /\ beatIn' = Interval
      /\ inbox' = Append(inbox, Positioned(HeartbeatMessage(FALSE, host.speed, heard), gap))
      /\ UNCHANGED <<host, heard, gap, player, target, events, engine, positionMs, elapsed,
                     refreshIn, apart>>
  BY DEF HostHeartbeat, Sends, guest, estimate, bounds
<1>2. Interval \in Nat \ {0} /\ beatIn # Interval
  BY <1>1, ClocksType
<1>3. inbox = <<>> /\ target = {} /\ events = {} /\ heard = FALSE
  <2>1. heard \in BOOLEAN
    BY ClocksType
  <2> QED
    BY <1>2, <2>1 DEF ApartInv, Undisturbed
<1>4. inbox' = <<Beat>> /\ inbox' # <<>>
  <2>1. HeartbeatMessage(FALSE, host.speed, heard)
            = HeartbeatMessage(FALSE, host.speed, FALSE)
    BY <1>3 DEF HeartbeatMessage
  <2>2. inbox' = Append(<<>>, Beat)
    BY <1>1, <1>3, <2>1, Zenon DEF Beat
  <2> QED
    BY <2>2
<1>5. Beat' = Beat
  BY <1>1 DEF Beat
<1>6. Undisturbed'
  BY <1>1, <1>3, <1>4, <1>5 DEF ApartInv, Undisturbed
<1>7. SinceBeat = Interval /\ SinceBeat' = Interval /\ SinceRefresh' = SinceRefresh
  BY <1>1, <1>2, <1>3, <1>4 DEF SinceBeat, SinceRefresh
<1>8. Overdue'
  BY <1>1, <1>7 DEF ApartInv, Overdue, Estimated
<1> QED
  BY <1>6, <1>8 DEF ApartInv

LEMMA LandsApart ==
  ASSUME DInv, ApartInv, apart # 0, SeekLands
  PROVE  ApartInv'
<1>1. /\ target # {} /\ target' = {}
      /\ UNCHANGED <<host, heard, beatIn, player, events, engine, elapsed, refreshIn, apart>>
  BY DEF SeekLands, bounds
<1>2. PICK jump \in target :
          /\ gap' = gap - jump
          /\ inbox' = [i \in DOMAIN inbox |-> [inbox[i] EXCEPT !.positionMs = @ - jump]]
  BY DEF SeekLands
<1>3. jump = gap /\ gap' = 0 /\ inbox = <<>>
  BY <1>1, <1>2, ClocksType DEF ApartInv, Undisturbed
<1>4. inbox' = <<>>
  BY <1>2, <1>3
<1>5. Undisturbed'
  BY <1>1, <1>3, <1>4 DEF ApartInv, Undisturbed
<1>6. ~(Abs(gap') > Threshold)
  BY <1>3, ClocksType DEF Abs
<1>7. SinceBeat' = SinceBeat
  BY <1>1, <1>3, <1>4 DEF SinceBeat
<1>8. Overdue'
  BY <1>1, <1>6, <1>7 DEF ApartInv, Overdue, Abs
<1> QED
  BY <1>5, <1>8 DEF ApartInv

LEMMA ReportsApart ==
  ASSUME DInv, ApartInv, apart # 0, Reports
  PROVE  ApartInv'
<1>1. /\ UNCHANGED <<heard, beatIn, player, target, inbox, refreshIn, apart>>
      /\ events # {} /\ events' \subseteq events
  BY DEF Reports, SpeedChanged, SeekReported, CacheChanged, Listen, bounds
<1>2. /\ Undisturbed /\ Overdue
      /\ inbox = <<>> /\ beatIn = Interval /\ host.speed = player.speed
  BY <1>1 DEF ApartInv, Undisturbed
<1>3. ~CacheChanged
  BY <1>2 DEF CacheChanged, Listen, Undisturbed
<1>4. SinceBeat' = SinceBeat /\ SinceRefresh' = SinceRefresh
  BY <1>1 DEF SinceBeat, SinceRefresh
<1> DEFINE Kept == /\ host' = host /\ gap' = gap
                   /\ engine'.speed = engine.speed /\ engine'.buffering = engine.buffering
                   /\ "seek" \in events' => Live(engine', "seek") # {}
                   /\ Estimated => Estimated'
<1>5. Kept
  <2>1. CASE SpeedChanged
    <3> DEFINE r == OnLocalSpeed(engine, player.speed)
    <3>1. engine \in Engine /\ player.speed \in Speeds /\ host \in Play
      BY ClocksType, PlayType
    <3>2. /\ Answers(engine, "speed", r)
          /\ Same([engine EXCEPT !.speed = player.speed], r.engine)
      BY <3>1, LocalAnswers, LocalSettings
    <3>3. /\ engine' = r.engine /\ UNCHANGED <<gap, positionMs, elapsed>>
          /\ host' = [host EXCEPT !.speed = IF r.effects.send = {} THEN @ ELSE player.speed]
      BY <2>1 DEF SpeedChanged, Listen, estimate
    <3> HIDE DEF r
    <3>4. engine'.speed = player.speed /\ engine'.buffering = engine.buffering
      BY <3>1, <3>2, <3>3, SameSpeed DEF SpeedOnly
    <3>5. Live(engine', "seek") = Live(engine, "seek")
      BY <3>2, <3>3 DEF Answers, Kinds
    <3>6. host' = host
      BY <1>2, <3>1, <3>3 DEF Play
    <3>7. engine'.speed = engine.speed
      BY <1>2, <3>4 DEF Undisturbed
    <3> QED
      BY <1>1, <1>2, <3>3, <3>4, <3>5, <3>6, <3>7 DEF Undisturbed, Estimated
  <2>2. CASE SeekReported
    <3> DEFINE r == OnLocalSeek(engine)
    <3>1. engine \in Engine /\ engine.speed \in Nat
      BY ClocksType
    <3>2. Answers(engine, "seek", r) /\ Same(engine, r.engine)
      BY <3>1, LocalAnswers, LocalSettings
    <3>3. /\ "seek" \in events /\ events' = events \ {"seek"}
          /\ engine' = r.engine /\ host' = host /\ positionMs' = 0 /\ elapsed' = 0
          /\ gap' = IF r.effects.send = {} THEN gap ELSE 0
      BY <2>2 DEF SeekReported, Listen, UpdatePosition
    <3> HIDE DEF r
    <3>4. gap' = gap
      BY <1>2, <3>2, <3>3 DEF Undisturbed, Answers
    <3>5. engine'.speed = engine.speed /\ engine'.buffering = engine.buffering
      BY <3>2, <3>3 DEF Same
    <3>6. Estimated'
      BY <3>1, <3>3, <3>5 DEF Estimated
    <3> QED
      BY <3>3, <3>4, <3>5, <3>6
  <2> QED
    BY <1>3, <2>1, <2>2 DEF Reports
<1>6. Undisturbed'
  BY <1>1, <1>2, <1>5 DEF Undisturbed
<1>7. Overdue'
  <2> HIDE DEF Kept
  <2>1. gap' = gap /\ host' = host /\ (Estimated => Estimated')
    BY <1>5 DEF Kept
  <2> QED
    BY <1>1, <1>2, <1>4, <2>1 DEF Overdue
<1> QED
  BY <1>6, <1>7 DEF ApartInv

LEMMA RefreshApart ==
  ASSUME DInv, ApartInv, apart # 0, Refresh
  PROVE  ApartInv'
<1>1. /\ UNCHANGED <<host, heard, gap, beatIn, player, target, events, engine, inbox, apart>>
      /\ refreshIn = 0 /\ refreshIn' = Interval /\ positionMs' = 0 /\ elapsed' = 0
  BY DEF Refresh, world, guest, bounds, UpdatePosition
<1>2. Undisturbed'
  BY <1>1 DEF ApartInv, Undisturbed, Beat
<1>3. Estimated'
  BY <1>1, ClocksType DEF Estimated
<1>4. SinceBeat' = SinceBeat
  BY <1>1 DEF SinceBeat
<1>5. Overdue'
  BY <1>1, <1>3, <1>4 DEF ApartInv, Overdue
<1> QED
  BY <1>2, <1>5 DEF ApartInv

LEMMA PlayedOnEstimate ==
  \A p \in Int, n, rate \in Nat : p + n * rate = 0 => (p - rate) + (n + 1) * rate = 0
OBVIOUS

LEMMA TickApart ==
  ASSUME DInv, ApartInv, Tick
  PROVE  ApartInv'
<1>1. /\ inbox = <<>> /\ events = {} /\ target = {}
      /\ UNCHANGED <<host, heard, player, target, events, inbox>>
      /\ positionMs' = positionMs - Rate(player)
      /\ elapsed' = elapsed + 1
      /\ beatIn > 0 /\ beatIn' = beatIn - 1
      /\ refreshIn > 0 /\ refreshIn' = refreshIn - 1
      /\ engine' = Aged(engine)
      /\ apart' = IF Playing /\ Abs(gap) > Threshold THEN apart + 1 ELSE 0
      /\ heard = host.buffering
  BY DEF Tick, guest
<1>2. SUFFICES ASSUME Playing, Abs(gap) > Threshold, apart' = apart + 1
               PROVE  Undisturbed' /\ Overdue'
  BY <1>1 DEF ApartInv
<1>3. /\ engine.speed = player.speed /\ ~engine.buffering
      /\ ~host.buffering /\ ~player.buffering /\ ~heard
  BY <1>1, <1>2 DEF DInv, Reflected, Playing
<1>4. engine'.speed = engine.speed /\ engine'.buffering = engine.buffering
  BY <1>1, ClocksType, KindsNamed, SuppressionsApart DEF Same
<1>5. Undisturbed'
  BY <1>1, <1>3, <1>4 DEF Undisturbed
<1>6. /\ SinceBeat = Interval - beatIn /\ SinceBeat' = Interval - beatIn'
      /\ SinceRefresh = Interval - refreshIn /\ SinceRefresh' = Interval - refreshIn'
  BY <1>1 DEF SinceBeat, SinceRefresh
<1>7. /\ Interval \in Nat \ {0} /\ apart \in Nat
      /\ beatIn \in 1..Interval /\ beatIn' = beatIn - 1
      /\ refreshIn \in 1..Interval /\ refreshIn' = refreshIn - 1
  <2>1. /\ Interval \in Nat \ {0} /\ apart \in Nat
        /\ beatIn \in 0..Interval /\ refreshIn \in 0..Interval
    BY ClocksType
  <2>2. beatIn > 0 /\ beatIn' = beatIn - 1 /\ refreshIn > 0 /\ refreshIn' = refreshIn - 1
    BY <1>1
  <2> QED
    BY <2>1, <2>2
<1>8. /\ SinceBeat \in Nat /\ SinceBeat' = SinceBeat + 1 /\ SinceBeat' <= Interval
      /\ SinceRefresh \in Nat /\ SinceRefresh' = SinceRefresh + 1
  <2>1. \A i \in 1..Interval : /\ Interval - i \in Nat /\ Interval - (i - 1) <= Interval
                               /\ Interval - (i - 1) = (Interval - i) + 1
    BY <1>7
  <2> QED
    BY <1>6, <1>7, <2>1
<1>9. Estimated => Estimated'
  <2>1. /\ Rate(player) = engine.speed /\ engine'.speed = engine.speed
        /\ positionMs' = positionMs - Rate(player) /\ elapsed' = elapsed + 1
    BY <1>1, <1>3, <1>4 DEF Rate
  <2>2. engine.speed \in Nat /\ positionMs \in Int /\ elapsed \in Nat
    BY ClocksType
  <2>3. positionMs + elapsed * engine.speed = 0
            => (positionMs - engine.speed) + (elapsed + 1) * engine.speed = 0
    BY <2>2, PlayedOnEstimate
  <2> QED
    BY <2>1, <2>3 DEF Estimated
<1>10. CASE apart = 0
  <2>1. /\ apart' <= 2 * Interval /\ ~(apart' > SinceBeat') /\ apart' <= Interval + SinceBeat'
        /\ apart' <= SinceRefresh'
    BY <1>2, <1>7, <1>8, <1>10
  <2> QED
    BY <1>5, <2>1 DEF Overdue
<1>11. CASE apart # 0
  <2>1. /\ apart <= Interval + SinceBeat
        /\ Estimated \/ apart <= SinceRefresh \/ SinceBeat < SinceRefresh
        /\ apart > SinceBeat => host.speed = player.speed
    BY <1>1, <1>2, <1>11 DEF ApartInv, Overdue
  <2>2. apart' <= 2 * Interval /\ apart' <= Interval + SinceBeat'
    BY <1>2, <1>7, <1>8, <2>1
  <2>3. Estimated' \/ apart' <= SinceRefresh' \/ SinceBeat' < SinceRefresh'
    BY <1>2, <1>7, <1>8, <1>9, <2>1
  <2>4. apart' > SinceBeat' => host'.speed = player'.speed
    <3>1. apart' > SinceBeat' => apart > SinceBeat
      BY <1>2, <1>7, <1>8
    <3> QED
      BY <1>1, <2>1, <3>1
  <2> QED
    BY <1>5, <2>2, <2>3, <2>4 DEF Overdue
<1> QED
  BY <1>10, <1>11

\* Beyond an interval, the estimate is exact when a heartbeat comes.
LEMMA CorrectionComes ==
  ASSUME DInv, CooldownEnds, Undisturbed, Overdue, ReceiveHeartbeat,
         apart > Interval, Abs(gap) > Threshold
  PROVE  HeartbeatResult.effects.seek
<1> DEFINE m == Head(inbox)
           d == Abs(EstimatedPosition(SpeedCorrected(engine, m.body).engine) - m.positionMs)
                    > Threshold
<1>1. inbox = <<Beat>> /\ target = {} /\ inbox # <<>>
  BY DEF ReceiveHeartbeat, Receive, Undisturbed
<1>2. m = Beat
  BY <1>1
<1>3. /\ m.body = HeartbeatMessage(FALSE, host.speed, FALSE) /\ m.positionMs = gap
      /\ m.body.speed = host.speed /\ m.body.type = "heartbeat"
      /\ m.body.paused = FALSE /\ m.body.buffering = FALSE
  BY <1>2 DEF Beat, Positioned, HeartbeatMessage
<1>4. m.body \in Message
  BY <1>3, ClocksType, PlayType, MessagesType
<1>5. SinceBeat = Interval /\ SinceRefresh <= Interval
  BY <1>1, ClocksType DEF SinceBeat, SinceRefresh
<1>6. engine.speed = m.body.speed
  BY <1>3, <1>5 DEF Overdue, Undisturbed
<1>7. Estimated
  <2>1. SinceRefresh \in Int
    BY ClocksType DEF SinceRefresh
  <2>2. ~(apart <= SinceRefresh) /\ ~(SinceBeat < SinceRefresh)
    BY <1>5, <2>1, ClocksType
  <2> QED
    BY <1>1, <2>2 DEF Overdue
<1>8. MayCorrect(engine, m.body)
  <2>1. ~NoBeat(inbox)
    <3>1. Len(inbox) = 1 /\ inbox[1] = m
      BY <1>1
    <3> QED
      BY <1>3, <3>1 DEF NoBeat, IsBeat
  <2>2. ~engine.paused /\ ~engine.buffering /\ engine.cooldown = 0
    BY <2>1 DEF DInv, Clock, Undisturbed, CooldownEnds
  <2> QED
    BY <1>3, <2>2 DEF MayCorrect
<1>9. d
  <2>1. SpeedCorrected(engine, m.body).engine = engine
    BY <1>6 DEF SpeedCorrected, Result
  <2>2. EstimatedPosition(engine) = 0
    BY <1>7, <1>8 DEF Estimated, EstimatedPosition, MayCorrect
  <2>3. Abs(0 - gap) = Abs(gap)
    BY ClocksType DEF Abs
  <2> QED
    BY <1>3, <2>1, <2>2, <2>3
<1>10. HeartbeatResult = OnRemoteHeartbeat(engine, TRUE, Host, m.body, d)
  BY DEF HeartbeatResult
<1> HIDE DEF m, d
<1>11. d = TRUE
  BY <1>9 DEF d
<1> QED
  BY <1>4, <1>6, <1>8, <1>10, <1>11, ClocksType, HeartbeatCorrects

LEMMA HeartbeatApart ==
  ASSUME DInv, CooldownEnds, ApartInv, apart # 0, ReceiveHeartbeat
  PROVE  ApartInv'
<1> DEFINE m == Head(inbox)
           r == HeartbeatResult
<1>1. Undisturbed /\ Overdue
  BY DEF ApartInv
<1>2. inbox = <<Beat>> /\ inbox # <<>> /\ target = {} /\ events = {} /\ beatIn = Interval
  BY <1>1 DEF ReceiveHeartbeat, Receive, Undisturbed
<1>3. m = Beat /\ Tail(inbox) = <<>>
  BY <1>2
<1>4. m.body.speed = host.speed /\ m.positionMs = gap
  BY <1>3 DEF Beat, Positioned, HeartbeatMessage
<1>5. /\ r.engine \in Engine /\ r.effects \in Effects
      /\ r.engine.speed = host.speed /\ r.engine.buffering = engine.buffering
      /\ r.effects.setSpeed = IF engine.speed = host.speed THEN {} ELSE {host.speed}
  <2>1. WorldType /\ engine \in Engine
    BY TypeParts, ClocksType DEF DInv
  <2> QED
    BY <1>2, <1>4, <2>1, HeartbeatResultType
<1>6. r.effects.seek => Live(r.engine, "seek") # {}
  <2> DEFINE d == Abs(EstimatedPosition(SpeedCorrected(engine, m.body).engine) - m.positionMs)
                    > Threshold
  <2>1. d \in BOOLEAN
    OBVIOUS
  <2>2. r = OnRemoteHeartbeat(engine, TRUE, Host, m.body, d)
    BY DEF HeartbeatResult
  <2>3. m.body \in Message /\ engine \in Engine
    BY <1>2, HeadType, TypeParts, ClocksType DEF DInv
  <2> HIDE DEF d, m, r
  <2>4. Expects(engine, OnRemoteHeartbeat(engine, TRUE, Host, m.body, d))
    BY <2>1, <2>3, HostAssumption, RemoteHeartbeatExpects
  <2> QED
    BY <2>2, <2>4 DEF Expects
<1>7. /\ inbox' = <<>> /\ UNCHANGED <<host, heard, gap, beatIn, refreshIn, apart>>
      /\ engine' = r.engine /\ Drive(r.effects, gap)
      /\ ~r.effects.seek => UNCHANGED <<positionMs, elapsed>>
  BY <1>3, <1>4 DEF ReceiveHeartbeat, Receive, world, bounds, UpdatePosition, estimate
<1> HIDE DEF m, r
<1>8. /\ player'.buffering = player.buffering /\ player'.speed = host.speed
      /\ target' = IF r.effects.seek THEN {gap} ELSE {}
      /\ events' \subseteq {"speed", "seek"}
      /\ "seek" \in events' => r.effects.seek
  <2> DEFINE speed == IF r.effects.setSpeed = {} THEN player.speed
                      ELSE CHOOSE s \in r.effects.setSpeed : TRUE
             changes == {"speed" : s \in {speed} \ {player.speed}}
                            \cup {"seek" : s \in {r.effects.seek} \cap {TRUE}}
  <2>1. /\ player' = [player EXCEPT !.speed = speed]
        /\ target' = IF r.effects.seek THEN {gap} ELSE target
        /\ events' = events \cup changes
    BY <1>7 DEF Drive
  <2>2. speed = host.speed
    BY <1>1, <1>5 DEF Undisturbed
  <2>3. changes \subseteq {"speed", "seek"} /\ ("seek" \in changes => r.effects.seek)
    OBVIOUS
  <2> HIDE DEF speed, changes
  <2> QED
    BY <1>2, <2>1, <2>2, <2>3, ClocksType DEF Play
<1>9. Undisturbed'
  BY <1>1, <1>2, <1>5, <1>6, <1>7, <1>8 DEF Undisturbed
<1>10. SinceBeat = Interval /\ SinceBeat' = 0 /\ SinceRefresh' = SinceRefresh
  BY <1>2, <1>7, ClocksType DEF SinceBeat, SinceRefresh
<1>11. ASSUME target' = {}, Abs(gap') > Threshold
       PROVE  /\ apart <= Interval
              /\ Estimated' \/ 0 < SinceRefresh
  <2>1. ~r.effects.seek /\ Abs(gap) > Threshold /\ UNCHANGED <<positionMs, elapsed>>
    BY <1>7, <1>8, <1>11
  <2>2. ~(apart > Interval)
    BY <1>1, <2>1, CorrectionComes DEF r
  <2>3. SinceRefresh \in 0..Interval /\ elapsed <= SinceRefresh
    BY ClocksType DEF SinceRefresh
  <2>4. ASSUME SinceRefresh = 0 PROVE Estimated'
    <3>1. elapsed = 0
      BY <2>3, <2>4, ClocksType
    <3>2. Estimated
      <4>1. ~(apart <= SinceRefresh) /\ ~(SinceBeat < SinceRefresh)
        BY <1>10, <2>4, ClocksType
      <4> QED
        BY <1>1, <1>2, <2>1, <4>1 DEF Overdue
    <3>3. positionMs = 0
      BY <3>1, <3>2, ClocksType DEF Estimated
    <3>4. engine'.speed \in Nat
      BY <1>5, <1>7, ClocksType
    <3> QED
      BY <2>1, <3>1, <3>3, <3>4 DEF Estimated
  <2> QED
    BY <2>2, <2>3, <2>4, ClocksType
<1>12. Overdue'
  <2>1. apart <= 2 * Interval
    BY <1>1 DEF Overdue
  <2> QED
    BY <1>7, <1>8, <1>10, <1>11, <2>1, ClocksType DEF Overdue
<1> QED
  BY <1>9, <1>12 DEF ApartInv

DriftInv == DInv /\ CooldownEnds /\ ApartInv

LEMMA ApartStep ==
  ASSUME DInv, CooldownEnds, ApartInv, [Next]_vars
  PROVE  ApartInv'
<1>1. CASE HostActs \/ GuestActs
  <2>1. apart' = 0
    BY <1>1 DEF HostActs, HostSetsSpeed, HostSeeks, HostRunsOut, HostHasData,
                GuestActs, GuestSetsSpeed, GuestSeeks, GuestRunsOut, GuestHasData, Acts, NoAct
  <2> QED
    BY <2>1 DEF ApartInv
<1>2. CASE Tick
  BY <1>2, TickApart
<1>3. CASE HostCacheChanged \/ HostHeartbeat \/ SeekLands \/ Reports \/ Received \/ Refresh
  <2>1. apart' = apart
    BY <1>3 DEF HostCacheChanged, HostHeartbeat, SeekLands, Reports, SpeedChanged, SeekReported, CacheChanged, Listen,
                Received, ReceiveSpeed, ReceiveSeek, ReceiveHeartbeat, Receive, Refresh, bounds
  <2>2. CASE apart = 0
    BY <2>1, <2>2 DEF ApartInv
  <2>3. CASE apart # 0
    <3>1. ~ReceiveSpeed /\ ~ReceiveSeek
      <4> SUFFICES ASSUME inbox # <<>> PROVE Head(inbox).body.type = "heartbeat"
        BY DEF ReceiveSpeed, ReceiveSeek, Receive
      <4>1. Head(inbox) = Beat
        BY <2>3 DEF ApartInv, Undisturbed
      <4> QED
        BY <4>1 DEF Beat, Positioned, HeartbeatMessage
    <3>2. ~HostCacheChanged
      BY <2>3, ClocksType, PlayType DEF HostCacheChanged, ApartInv, Undisturbed
    <3> QED
      BY <1>3, <2>3, <3>1, <3>2, BeatApart, LandsApart, ReportsApart, RefreshApart, HeartbeatApart
      DEF Received
  <2> QED
    BY <2>2, <2>3
<1>4. CASE UNCHANGED vars
  BY <1>4 DEF vars, world, guest, estimate, bounds, ApartInv, Undisturbed, Overdue, Beat,
              Estimated, SinceBeat, SinceRefresh
<1> QED
  BY <1>1, <1>2, <1>3, <1>4 DEF Next

\* The two players, both with data, are not farther apart than the threshold for
\* more than two heartbeat intervals without an act of a user: the first heartbeat makes
\* the speeds equal, by the second the estimate is exact, so that it corrects.
THEOREM DriftEnds == Spec => []DriftIsShort
<1>1. Init => DriftInv
  <2> SUFFICES ASSUME Init PROVE DriftInv
    OBVIOUS
  <2>1. engine.cooldown = 0
    <3>1. engine = [NewEngine EXCEPT !.paused = FALSE]
      BY DEF Init
    <3> QED
      BY <3>1 DEF NewEngine
  <2>2. beatIn \in 1..Interval /\ inbox = <<>> /\ apart = 0
    BY DEF Init
  <2>3. LoneBeat(inbox) /\ NoBeat(inbox)
    BY <2>2, EmptySeq DEF LoneBeat, NoBeat
  <2> QED
    BY <2>1, <2>2, <2>3, DInit, DriftAssumption DEF DriftInv, CooldownEnds, ApartInv
<1>2. DriftInv /\ [Next]_vars => DriftInv'
  BY Invariance, CooldownStep, ApartStep DEF DriftInv
<1>3. DriftInv => DriftIsShort
  <2> SUFFICES ASSUME DriftInv PROVE apart <= 2 * Interval
    BY DEF DriftIsShort
  <2>1. apart = 0 => apart <= 2 * Interval
    BY DriftAssumption
  <2> QED
    BY <2>1 DEF DriftInv, ApartInv, Overdue
<1> QED
  BY <1>1, <1>2, <1>3, PTL DEF Spec

=============================================================================
