--------------------------- MODULE PlaybackProofs ---------------------------
(***************************************************************************)
(* Players that report within the suppression window do not echo, whatever *)
(* their users do, and they agree in the end on whether to play if their   *)
(* users leave them time: for any speeds, window and cooldown.             *)
(***************************************************************************)
EXTENDS Playback, SyncEngineProofs, SequenceTheorems

----------------------------------------------------------------------------
(* Type correctness *)

LEMMA PeerType == \A c \in Clients : Peer(c) \in Clients /\ Peer(c) # c
BY ClientsAssumption DEF Peer, Clients

LEMMA ValueType ==
  ASSUME NEW S, NEW old \in S, NEW new \in SUBSET S
  PROVE  Value(old, new) \in S
BY DEF Value

\* Sending a message that is one leaves the inboxes sequences of messages.
LEMMA DeliveredType ==
  ASSUME inbox \in [Clients -> Seq(Message)], NEW c \in Clients,
         NEW messages \in SUBSET Message
  PROVE  Delivered(c, messages) \in [Clients -> Seq(Message)]
<1>1. CASE Peer(c) \in connected /\ messages # {}
  <2>1. PICK m \in Message : m = (CHOOSE n \in messages : TRUE)
    BY <1>1
  <2>2. inbox[Peer(c)] \in Seq(Message)
    BY PeerType
  <2>3. Append(inbox[Peer(c)], m) \in Seq(Message)
    BY <2>2
  <2>4. Delivered(c, messages) = [inbox EXCEPT ![Peer(c)] = Append(@, m)]
    BY <1>1, <2>1 DEF Delivered
  <2> QED
    BY <2>3, <2>4
<1>2. CASE ~(Peer(c) \in connected /\ messages # {})
  BY <1>2 DEF Delivered
<1> QED
  BY <1>1, <1>2

LEMMA HeadTailType ==
  ASSUME TypeOK, NEW c \in Clients, inbox[c] # <<>>
  PROVE  /\ Head(inbox[c]) \in Message
         /\ Tail(inbox[c]) \in Seq(Message)
<1>1. inbox[c] \in Seq(Message)
  BY DEF TypeOK
<1> QED
  BY <1>1

\* A listener keeps the types.
LEMMA ListenType ==
  ASSUME TypeOK, NEW c \in Clients, NEW type, NEW r,
         r.engine \in Engine, r.effects.send \in SUBSET Message, Listen(c, type, r)
  PROVE  TypeOK'
<1>1. events' \in [Clients -> SUBSET EventTypes] /\ byUser' \in [Clients -> SUBSET EventTypes]
  BY DEF TypeOK, Listen
<1>2. engine' \in [Clients -> Engine]
  BY DEF TypeOK, Listen
<1>3. inbox' \in [Clients -> Seq(Message)]
  <2>1. inbox \in [Clients -> Seq(Message)]
    BY DEF TypeOK
  <2>2. Delivered(c, r.effects.send) \in [Clients -> Seq(Message)]
    BY <2>1, DeliveredType
  <2> QED
    BY <2>1, <2>2 DEF Listen
<1> QED
  BY <1>1, <1>2, <1>3 DEF TypeOK, Listen

\* So does the execution of effects after a message.
LEMMA DriveType ==
  ASSUME TypeOK, NEW c \in Clients, NEW type, NEW r,
         r.engine \in Engine, r.effects \in Effects,
         Receive(c, type), Drive(c, r)
  PROVE  TypeOK'
<1>1. inbox' \in [Clients -> Seq(Message)]
  BY HeadTailType DEF TypeOK, Receive
<1>2. engine' \in [Clients -> Engine]
  BY DEF TypeOK, Drive
<1>3. player[c] \in Player
  BY DEF TypeOK
<1>4. /\ Value(player[c].paused, r.effects.setPaused) \in BOOLEAN
      /\ Value(player[c].speed, r.effects.setSpeed) \in Speeds
  BY <1>3, ValueType DEF Player, Effects
<1>5. player' \in [Clients -> Player]
  BY <1>3, <1>4 DEF TypeOK, Drive, Player
<1>6. events' \in [Clients -> SUBSET EventTypes]
  BY DEF TypeOK, Drive, Pending, ChangedBy, EventTypes
<1> QED
  BY <1>1, <1>2, <1>5, <1>6 DEF TypeOK, Receive

LEMMA PauseAnswers ==
  ASSUME TypeOK, NEW c \in Clients
  PROVE  LET k == IF player[c].paused THEN "pause" ELSE "play"
         IN  Answers(engine[c], k, IF player[c].paused THEN OnLocalPause(engine[c])
                                   ELSE OnLocalPlay(engine[c]))
<1>1. engine[c] \in Engine
  BY DEF TypeOK
<1> QED
  BY <1>1, LocalAnswers

LEMMA PlayerEventType ==
  ASSUME TypeOK, NEW c \in Clients, PlayerEvent(c)
  PROVE  TypeOK'
<1>1. engine[c] \in Engine /\ player[c].speed \in Speeds /\ player[c].buffering \in BOOLEAN
  BY DEF TypeOK, Player
<1>2. CASE PauseChanged(c)
  <2> DEFINE r == IF player[c].paused THEN OnLocalPause(engine[c])
                  ELSE OnLocalPlay(engine[c])
  <2>1. r.engine \in Engine /\ r.effects.send \in SUBSET Message
    BY PauseAnswers DEF Answers
  <2>2. Listen(c, "pause", r)
    BY <1>2 DEF PauseChanged
  <2> HIDE DEF r
  <2> QED
    BY <2>1, <2>2, ListenType
<1>3. CASE SeekDone(c)
  BY <1>1, <1>3, LocalAnswers, ListenType DEF SeekDone, Answers
<1>4. CASE SpeedChanged(c)
  BY <1>1, <1>4, LocalAnswers, ListenType DEF SpeedChanged, Answers
<1>5. CASE CacheChanged(c)
  BY <1>1, <1>5, BufferingAnswers, ListenType DEF CacheChanged
<1> QED
  BY <1>2, <1>3, <1>4, <1>5 DEF PlayerEvent

\* What a client does with a command or a heartbeat: the effects of a result
\* that its engine expects.
LEMMA RemoteDrives ==
  ASSUME TypeOK, NEW c \in Clients, RemoteCommand(c) \/ RemoteHeartbeat(c)
  PROVE  \E type, r : Receive(c, type) /\ Expects(engine[c], r) /\ Drive(c, r)
<1> DEFINE e == engine[c]
           m == Head(inbox[c])
<1>1. e \in Engine
  BY DEF TypeOK
<1>2. m \in Message /\ m.paused \in BOOLEAN /\ m.speed \in Speeds
  <2>1. inbox[c] # <<>>
    BY DEF RemoteCommand, RemoteHeartbeat, Receive
  <2>2. m \in Message
    BY <2>1, HeadTailType
  <2> QED
    BY <2>2 DEF Message
<1>3. CASE RemoteHeartbeat(c)
  <2>1. Peer(c) \in Peers
    BY PeerType, ClientsAssumption
  <2>2. PICK drifted \in BOOLEAN :
            Drive(c, OnRemoteHeartbeat(e, c = Guest, Peer(c), m, drifted))
    BY <1>3 DEF RemoteHeartbeat
  <2>3. Receive(c, "heartbeat")
    BY <1>3 DEF RemoteHeartbeat
  <2>4. Expects(e, OnRemoteHeartbeat(e, c = Guest, Peer(c), m, drifted))
    <3>1. (c = Guest) \in BOOLEAN
      OBVIOUS
    <3> QED
      BY <1>1, <1>2, <2>1, <3>1, RemoteHeartbeatExpects
  <2> QED
    BY <2>2, <2>3, <2>4
<1>4. CASE RemoteCommand(c)
  <2>1. CASE Receive(c, "play") /\ Drive(c, OnRemotePlay(e))
    BY <1>1, <2>1, RemotePlayExpects
  <2>2. CASE Receive(c, "pause") /\ Drive(c, OnRemotePause(e))
    BY <1>1, <2>2, RemotePauseExpects
  <2>3. CASE Receive(c, "seek") /\ Drive(c, OnRemoteSeek(e))
    BY <1>1, <2>3, RemoteSeekExpects
  <2>4. CASE Receive(c, "speed") /\ Drive(c, OnRemoteSpeed(e, m.speed))
    BY <1>1, <1>2, <2>4, RemoteSpeedExpects
  <2>5. CASE Receive(c, "state") /\ Drive(c, OnRemoteState(e, m.paused, m.speed))
    BY <1>1, <1>2, <2>5, RemoteStateExpects
  <2> QED
    BY <1>4, <2>1, <2>2, <2>3, <2>4, <2>5 DEF RemoteCommand
<1> QED
  BY <1>3, <1>4

LEMMA SnapshotType ==
  ASSUME TypeOK PROVE Snapshot \in Message
<1>1. player[Host].paused \in BOOLEAN /\ player[Host].speed \in Speeds
  BY DEF TypeOK, Player, Clients
<1> QED
  BY <1>1, MessagesType DEF Snapshot

\* The inductive step of TypeOK, an action at a time.
LEMMA TypeStep ==
  ASSUME TypeOK, [Next]_vars
  PROVE  TypeOK'
<1>1. CASE UNCHANGED vars
  BY <1>1 DEF TypeOK, vars
<1>2. CASE Tick
  BY <1>2, AgedType DEF Tick, TypeOK
<1>3. ASSUME NEW c \in Clients, UserAct(c) PROVE TypeOK'
  <2>1. ASSUME NEW type \in EventTypes, UserActs(c, type), player' \in [Clients -> Player]
        PROVE  TypeOK'
    <3>1. events' \in [Clients -> SUBSET EventTypes] /\ byUser' \in [Clients -> SUBSET EventTypes]
      BY <2>1 DEF TypeOK, UserActs, Pending
    <3>2. acts' \in 0..MaxActs
      BY <2>1, BoundsAssumption DEF TypeOK, UserActs
    <3> QED
      BY <2>1, <3>1, <3>2 DEF TypeOK, UserActs
  <2>2. {"pause", "seek", "speed"} \subseteq EventTypes
    BY DEF EventTypes
  <2>3. CASE UserTogglesPause(c)
    <3>1. player' \in [Clients -> Player]
      BY <2>3 DEF UserTogglesPause, TypeOK, Player
    <3> QED
      BY <2>1, <2>2, <2>3, <3>1 DEF UserTogglesPause
  <2>4. CASE UserSeeks(c)
    <3>1. player' \in [Clients -> Player]
      BY <2>4 DEF UserSeeks, TypeOK
    <3> QED
      BY <2>1, <2>2, <2>4, <3>1 DEF UserSeeks
  <2>5. ASSUME NEW v \in Speeds, UserSetsSpeed(c, v) PROVE TypeOK'
    <3>1. player' \in [Clients -> Player]
      BY <2>5 DEF UserSetsSpeed, TypeOK, Player
    <3> QED
      BY <2>1, <2>2, <2>5, <3>1 DEF UserSetsSpeed
  <2> QED
    BY <1>3, <2>3, <2>4, <2>5 DEF UserAct
<1>4. ASSUME NEW c \in Clients, CacheChanges(c) PROVE TypeOK'
  <2>1. player' \in [Clients -> Player]
    BY <1>4 DEF CacheChanges, TypeOK, Player
  <2>2. events' \in [Clients -> SUBSET EventTypes]
    BY <1>4 DEF CacheChanges, Pending, TypeOK, EventTypes
  <2> QED
    BY <1>4, <2>1, <2>2 DEF CacheChanges, TypeOK
<1>5. ASSUME NEW c \in Clients, PlayerEvent(c) PROVE TypeOK'
  BY <1>5, PlayerEventType
<1>6. ASSUME NEW c \in Clients, RemoteCommand(c) \/ RemoteHeartbeat(c) PROVE TypeOK'
  <2>1. PICK type, r : Receive(c, type) /\ Expects(engine[c], r) /\ Drive(c, r)
    BY <1>6, RemoteDrives
  <2> QED
    BY <2>1, DriveType DEF Expects
<1>7. ASSUME NEW c \in Clients, PeerJoined(c) PROVE TypeOK'
  <2> DEFINE d == Delivered(c, IF c = Host THEN {Snapshot} ELSE {})
  <2>1. d \in [Clients -> Seq(Message)]
    BY SnapshotType, DeliveredType DEF TypeOK
  <2>2. Tail(inbox[c]) \in Seq(Message)
    BY <1>7, HeadTailType DEF PeerJoined
  <2>3. inbox' = [d EXCEPT ![c] = Tail(inbox[c])]
    BY <1>7, PeerType DEF PeerJoined, Delivered, TypeOK
  <2> HIDE DEF d
  <2>4. inbox' \in [Clients -> Seq(Message)]
    BY <2>1, <2>2, <2>3
  <2> QED
    BY <1>7, <2>4 DEF PeerJoined, TypeOK
<1>8. ASSUME NEW c \in Clients, HeartbeatDue(c) PROVE TypeOK'
  <2> DEFINE m == HeartbeatMessage(player[c].paused, player[c].speed, engine[c].buffering)
  <2>1. m \in Message
    BY MessagesType DEF TypeOK, Player, Engine
  <2> HIDE DEF m
  <2>2. Delivered(c, {m}) \in [Clients -> Seq(Message)]
    BY <2>1, DeliveredType DEF TypeOK
  <2>3. inbox' \in [Clients -> Seq(Message)]
    BY <1>8, <2>2 DEF HeartbeatDue, m
  <2> QED
    BY <1>8, <2>3 DEF HeartbeatDue, TypeOK
<1>9. ASSUME NEW c \in Clients, Connect(c) PROVE TypeOK'
  <2> DEFINE q == Append(inbox[Peer(c)], OfType("peer-joined"))
                    \o IF c = Host THEN <<Snapshot>> ELSE <<>>
  <2>1. q \in Seq(Message)
    <3>1. inbox[Peer(c)] \in Seq(Message)
      BY PeerType DEF TypeOK
    <3>2. Append(inbox[Peer(c)], OfType("peer-joined")) \in Seq(Message)
      BY <3>1, MessagesType
    <3>3. (IF c = Host THEN <<Snapshot>> ELSE <<>>) \in Seq(Message)
      BY SnapshotType
    <3> QED
      BY <3>2, <3>3
  <2>2. inbox' = inbox \/ inbox' = [inbox EXCEPT ![Peer(c)] = q]
    BY <1>9 DEF Connect
  <2> HIDE DEF q
  <2>3. inbox' \in [Clients -> Seq(Message)]
    BY <2>1, <2>2 DEF TypeOK
  <2> QED
    BY <1>9, <2>3, NewEngineType DEF Connect, TypeOK
<1>10. ASSUME NEW c \in Clients, Disconnect(c) PROVE TypeOK'
  <2>1. <<>> \in Seq(Message)
    OBVIOUS
  <2>2. drops' \in 0..MaxDrops
    BY <1>10, BoundsAssumption DEF Disconnect, TypeOK
  <2> QED
    BY <1>10, <2>1, <2>2 DEF Disconnect, TypeOK
<1> QED
  BY <1>1, <1>2, <1>3, <1>4, <1>5, <1>6, <1>7, <1>8, <1>9, <1>10
  DEF Next, ServerMessage

LEMMA TypeInit == Init => TypeOK
<1> SUFFICES ASSUME Init PROVE TypeOK
  OBVIOUS
<1>1. player \in [Clients -> Player]
  BY SpeedsAssumption DEF Init, Player
<1>2. engine \in [Clients -> Engine]
  BY NewEngineType DEF Init
<1>3. inbox \in [Clients -> Seq(Message)]
  BY DEF Init
<1>4. events \in [Clients -> SUBSET EventTypes] /\ byUser \in [Clients -> SUBSET EventTypes]
  BY DEF Init
<1>5. acts \in 0..MaxActs /\ drops \in 0..MaxDrops
  BY BoundsAssumption DEF Init
<1> QED
  BY <1>1, <1>2, <1>3, <1>4, <1>5 DEF Init, TypeOK

\* Playback is type correct, however late players report.
THEOREM TypeCorrect == Spec => []TypeOK
<1>1. TypeOK /\ [Next]_vars => TypeOK'
  BY TypeStep
<1> QED
  BY <1>1, TypeInit, PTL DEF Spec

----------------------------------------------------------------------------
(* No echo *)

\* The suppression that the event of a type consumes at c.
KindOf(c, type) ==
    IF type # "pause" THEN type ELSE IF player[c].paused THEN "pause" ELSE "play"

\* Whatever is pending at a connected client is what its user did, or is
\* expected by its engine.
Accounted ==
    \A c \in connected : \A type \in (events[c] \ byUser[c]) \ {"cache"} :
        Live(engine[c], KindOf(c, type)) # {}

LEMMA KindOfType ==
  ASSUME NEW c, NEW type \in EventTypes \ {"cache"}
  PROVE  KindOf(c, type) \in Kinds
BY DEF KindOf, EventTypes, Kinds

\* The kinds of different types differ.
LEMMA KindOfInjective ==
  ASSUME NEW c, NEW t \in EventTypes, NEW u \in EventTypes, t # u
  PROVE  KindOf(c, t) # KindOf(c, u)
BY DEF KindOf, EventTypes

\* A listener that answers as it should sends nothing but what the user did,
\* and leaves what the other events need.
LEMMA ListenAccounted ==
  ASSUME TypeOK, Accounted, NEW c \in Clients, NEW type \in EventTypes \ {"cache"}, NEW r,
         Answers(engine[c], KindOf(c, type), r), Listen(c, type, r)
  PROVE  Accounted' /\ SentByUser
<1>1. \A d \in Clients : /\ events'[d] = IF d = c THEN events[c] \ {type} ELSE events[d]
                         /\ byUser'[d] = IF d = c THEN byUser[c] \ {type} ELSE byUser[d]
  BY DEF Listen, TypeOK
<1>2. \A d \in connected : engine'[d] = IF d = c THEN r.engine ELSE engine[d]
  BY DEF Listen, TypeOK
<1>3. Accounted'
  <2> SUFFICES ASSUME NEW d \in connected, NEW t \in (events'[d] \ byUser'[d]) \ {"cache"}
               PROVE  Live(engine'[d], KindOf(d, t)) # {}
    BY DEF Accounted, Listen, KindOf
  <2>1. d \in Clients /\ t \in (events[d] \ byUser[d]) \ {"cache"} /\ t \in EventTypes
    BY <1>1 DEF TypeOK
  <2>2. Live(engine[d], KindOf(d, t)) # {}
    BY <2>1 DEF Accounted
  <2>3. CASE d = c
    <3>1. t # type
      BY <1>1, <2>1, <2>3
    <3>2. KindOf(c, t) \in Kinds \ {KindOf(c, type)}
      BY <2>1, <3>1, KindOfType, KindOfInjective
    <3> QED
      BY <1>2, <2>2, <2>3, <3>2 DEF Answers
  <2>4. CASE d # c
    BY <1>2, <2>2, <2>4
  <2> QED
    BY <2>3, <2>4
<1>4. SentByUser
  <2> SUFFICES ASSUME NEW d \in Clients, NEW t \in events[d] \ events'[d],
                      t \notin byUser[d]
               PROVE  inbox' = inbox
    BY DEF SentByUser
  <2>1. d = c /\ t = type
    BY <1>1
  <2>2. CASE c \in connected
    <3>1. r.effects.send = {}
      BY <2>1, <2>2 DEF Accounted, Answers
    <3> QED
      BY <2>2, <3>1 DEF Listen, Delivered
  <2>3. CASE c \notin connected
    BY <2>3 DEF Listen
  <2> QED
    BY <2>2, <2>3
<1> QED
  BY <1>3, <1>4

\* The same of the listener that reports whether the player waits for data.
LEMMA CacheAccounted ==
  ASSUME TypeOK, Accounted, NEW c \in Clients, CacheChanged(c)
  PROVE  Accounted' /\ SentByUser
<1> DEFINE r == OnLocalBuffering(engine[c], player[c].buffering)
<1>1. Listen(c, "cache", r)
  BY DEF CacheChanged
<1>2. /\ r.effects.send = {}
      /\ \A k \in Kinds : Live(r.engine, k) = Live(engine[c], k)
  BY BufferingAnswers DEF TypeOK, Player
<1> HIDE DEF r
<1>3. inbox' = inbox
  BY <1>1, <1>2 DEF Listen, Delivered
<1>4. \A d \in Clients : events'[d] \subseteq events[d]
                         /\ byUser[d] \ {"cache"} \subseteq byUser'[d]
  BY <1>1 DEF Listen, TypeOK
<1>5. \A d \in connected : engine'[d] = IF d = c THEN r.engine ELSE engine[d]
  BY <1>1 DEF Listen, TypeOK
<1>6. Accounted'
  <2> SUFFICES ASSUME NEW d \in connected, NEW t \in (events'[d] \ byUser'[d]) \ {"cache"}
               PROVE  Live(engine'[d], KindOf(d, t)) # {}
    BY <1>1 DEF Accounted, Listen, KindOf
  <2>1. d \in Clients
    BY DEF TypeOK
  <2>2. t \in (events[d] \ byUser[d]) \ {"cache"} /\ t \in EventTypes
    BY <1>4, <2>1 DEF TypeOK
  <2>3. Live(engine[d], KindOf(d, t)) # {} /\ KindOf(d, t) \in Kinds
    BY <2>2, KindOfType DEF Accounted
  <2> QED
    BY <1>2, <1>5, <2>3
<1> QED
  BY <1>3, <1>6 DEF SentByUser

LEMMA PlayerEventAccounted ==
  ASSUME TypeOK, Accounted, NEW c \in Clients, PlayerEvent(c)
  PROVE  Accounted' /\ SentByUser
<1>1. engine[c] \in Engine /\ player[c].speed \in Speeds
  BY DEF TypeOK, Player
<1>2. {"pause", "seek", "speed"} \subseteq EventTypes \ {"cache"}
  BY DEF EventTypes
<1>3. CASE PauseChanged(c)
  <2> DEFINE r == IF player[c].paused THEN OnLocalPause(engine[c])
                  ELSE OnLocalPlay(engine[c])
  <2>1. Answers(engine[c], KindOf(c, "pause"), r)
    BY PauseAnswers DEF KindOf
  <2>2. Listen(c, "pause", r)
    BY <1>3 DEF PauseChanged
  <2> HIDE DEF r
  <2> QED
    BY <1>2, <2>1, <2>2, ListenAccounted
<1>4. CASE SeekDone(c)
  <2>1. Answers(engine[c], KindOf(c, "seek"), OnLocalSeek(engine[c]))
    BY <1>1, LocalAnswers DEF KindOf
  <2> QED
    BY <1>2, <1>4, <2>1, ListenAccounted DEF SeekDone
<1>5. CASE SpeedChanged(c)
  <2>1. Answers(engine[c], KindOf(c, "speed"), OnLocalSpeed(engine[c], player[c].speed))
    BY <1>1, LocalAnswers DEF KindOf
  <2> QED
    BY <1>2, <1>5, <2>1, ListenAccounted DEF SpeedChanged
<1>6. CASE CacheChanged(c)
  BY <1>6, CacheAccounted
<1> QED
  BY <1>3, <1>4, <1>5, <1>6 DEF PlayerEvent

\* Effects whose reports the engine expects.
LEMMA DriveAccounted ==
  ASSUME TypeOK, Accounted, NEW c \in Clients, NEW type, NEW r,
         Receive(c, type), Expects(engine[c], r), Drive(c, r)
  PROVE  Accounted' /\ SentByUser
<1> DEFINE old == player[c].paused
           new == Value(old, r.effects.setPaused)
<1>1. c \in connected /\ connected' = connected /\ byUser' = byUser
  BY DEF Receive
<1>2. \A d \in Clients :
          /\ events'[d] = IF d = c THEN events[c] \cup ChangedBy(c, r.effects) ELSE events[d]
          /\ engine'[d] = IF d = c THEN r.engine ELSE engine[d]
          /\ player'[d].paused = IF d = c THEN new ELSE player[d].paused
  BY DEF Drive, Pending, TypeOK, Player
<1>3. new \in BOOLEAN /\ (new # old => new \in r.effects.setPaused)
  <2>1. old \in BOOLEAN /\ r.effects.setPaused \in SUBSET BOOLEAN
    BY DEF TypeOK, Player, Expects, Effects
  <2>2. new # old => new \in r.effects.setPaused
    BY DEF Value
  <2> QED
    BY <2>1, <2>2, ValueType
<1>4. ("pause" \in ChangedBy(c, r.effects) <=> new # old)
      /\ ("speed" \in ChangedBy(c, r.effects) => r.effects.setSpeed # {})
      /\ ("seek" \in ChangedBy(c, r.effects) => r.effects.seek)
  BY DEF ChangedBy, Value
<1> HIDE DEF new, old
<1>5. ASSUME NEW t \in (events'[c] \ byUser[c]) \ {"cache"}
      PROVE  Live(r.engine, KindOf(c, t)') # {}
  <2>1. t \in events[c] => Live(r.engine, KindOf(c, t)) # {}
    <3> SUFFICES ASSUME t \in events[c] PROVE Live(r.engine, KindOf(c, t)) # {}
      OBVIOUS
    <3>1. KindOf(c, t) \in Kinds
      BY KindOfType DEF TypeOK
    <3>2. Live(engine[c], KindOf(c, t)) # {}
      BY <1>1, <1>5 DEF Accounted
    <3> QED
      BY <3>1, <3>2 DEF Expects, Keeps
  <2>2. t \in events[c] \/ t \in ChangedBy(c, r.effects)
    BY <1>2, <1>5
  <2>3. CASE t = "pause"
    <3>1. KindOf(c, t)' = IF new THEN "pause" ELSE "play"
      BY <1>2, <2>3 DEF KindOf
    <3>2. CASE new = old
      <4>1. KindOf(c, t)' = KindOf(c, t) /\ t \in events[c]
        BY <1>4, <2>2, <2>3, <3>1, <3>2 DEF KindOf, old
      <4> QED
        BY <2>1, <4>1
    <3>3. CASE new # old
      <4>1. CASE new = TRUE
        BY <1>3, <3>1, <3>3, <4>1 DEF Expects
      <4>2. CASE new = FALSE
        BY <1>3, <3>1, <3>3, <4>2 DEF Expects
      <4> QED
        BY <1>3, <4>1, <4>2
    <3> QED
      BY <3>2, <3>3
  <2>4. CASE t # "pause"
    <3>1. KindOf(c, t)' = t /\ KindOf(c, t) = t
      BY <2>4 DEF KindOf
    <3>2. CASE t \in events[c]
      BY <2>1, <3>1, <3>2
    <3>3. CASE t \in ChangedBy(c, r.effects)
      <4>1. t \in {"seek", "speed"}
        BY <2>4, <3>3 DEF ChangedBy
      <4> QED
        BY <1>4, <3>1, <3>3, <4>1 DEF Expects
    <3> QED
      BY <2>2, <3>2, <3>3
  <2> QED
    BY <2>3, <2>4
<1>6. ASSUME NEW d \in connected, d # c,
             NEW t \in (events'[d] \ byUser[d]) \ {"cache"}
      PROVE  Live(engine'[d], KindOf(d, t)') # {}
  <2>1. d \in Clients /\ t \in events[d]
    BY <1>2, <1>6 DEF TypeOK
  <2>2. KindOf(d, t)' = KindOf(d, t) /\ engine'[d] = engine[d]
    BY <1>2, <1>6, <2>1 DEF KindOf
  <2> QED
    BY <1>6, <2>1, <2>2 DEF Accounted
<1>7. Accounted'
  BY <1>1, <1>2, <1>5, <1>6 DEF Accounted
<1>8. SentByUser
  BY <1>2 DEF SentByUser
<1> QED
  BY <1>7, <1>8

\* The inductive step, an action at a time: only the listeners report, and the
\* clock does not move, nor does an engine start afresh, while they have to.
LEMMA AccountedStep ==
  ASSUME TypeOK, Accounted, [PromptNext]_vars
  PROVE  Accounted' /\ [SentByUser]_vars
<1>1. CASE UNCHANGED vars
  BY <1>1 DEF vars, Accounted, KindOf
<1>2. ASSUME UNCHANGED <<connected, player, engine, byUser>>,
             \A c \in Clients : events'[c] = events[c]
      PROVE  Accounted' /\ SentByUser
  BY <1>2 DEF Accounted, KindOf, SentByUser, TypeOK
<1>3. CASE AllReported /\ Tick
  <2>1. \A c \in Clients : events'[c] = {} /\ events[c] = {}
    BY <1>3 DEF Tick, AllReported
  <2>2. connected' \subseteq Clients
    BY <1>3 DEF Tick, TypeOK
  <2> QED
    BY <2>1, <2>2 DEF Accounted, SentByUser
<1>4. ASSUME NEW c \in Clients, UserAct(c) PROVE Accounted' /\ SentByUser
  <2>1. ASSUME NEW type \in {"pause", "seek", "speed"}, UserActs(c, type),
               \A d \in Clients : d # c => player'[d] = player[d],
               type # "pause" => player'[c].paused = player[c].paused
        PROVE  Accounted' /\ SentByUser
    <3>1. \A d \in Clients :
              /\ events'[d] = IF d = c THEN events[c] \cup {type} ELSE events[d]
              /\ byUser'[d] = IF d = c THEN byUser[c] \cup {type} ELSE byUser[d]
      BY <2>1 DEF UserActs, Pending, TypeOK
    <3>2. connected' = connected /\ engine' = engine
      BY <2>1 DEF UserActs
    <3>3. ASSUME NEW d \in connected, NEW t \in (events'[d] \ byUser'[d]) \ {"cache"}
          PROVE  Live(engine[d], KindOf(d, t)') # {}
      <4>1. d \in Clients
        BY DEF TypeOK
      <4>2. t \in (events[d] \ byUser[d]) \ {"cache"} /\ (d = c => t # type)
        BY <3>1, <3>3, <4>1
      <4>3. KindOf(d, t)' = KindOf(d, t)
        BY <2>1, <4>1, <4>2 DEF KindOf
      <4> QED
        BY <4>2, <4>3 DEF Accounted
    <3>4. SentByUser
      BY <3>1 DEF SentByUser
    <3> QED
      BY <3>2, <3>3, <3>4 DEF Accounted
  <2>2. CASE UserTogglesPause(c)
    BY <2>1, <2>2 DEF UserTogglesPause, TypeOK
  <2>3. CASE UserSeeks(c)
    BY <2>1, <2>3 DEF UserSeeks
  <2>4. ASSUME NEW v \in Speeds, UserSetsSpeed(c, v) PROVE Accounted' /\ SentByUser
    <3>1. \A d \in Clients : /\ d # c => player'[d] = player[d]
                             /\ player'[c].paused = player[c].paused
      BY <2>4 DEF UserSetsSpeed, TypeOK, Player
    <3> QED
      BY <2>1, <2>4, <3>1 DEF UserSetsSpeed
  <2> QED
    BY <1>4, <2>2, <2>3, <2>4 DEF UserAct
<1>5. ASSUME NEW c \in Clients, CacheChanges(c) PROVE Accounted' /\ SentByUser
  <2>1. \A d \in Clients :
            /\ events'[d] = IF d = c THEN events[c] \cup {"cache"} ELSE events[d]
            /\ player'[d].paused = player[d].paused
    BY <1>5 DEF CacheChanges, Pending, TypeOK, Player
  <2>2. UNCHANGED <<connected, engine, byUser>>
    BY <1>5 DEF CacheChanges
  <2>3. ASSUME NEW d \in connected, NEW t \in (events'[d] \ byUser[d]) \ {"cache"}
        PROVE  Live(engine[d], KindOf(d, t)') # {}
    <3>1. d \in Clients
      BY DEF TypeOK
    <3>2. t \in (events[d] \ byUser[d]) \ {"cache"}
      BY <2>1, <2>3, <3>1
    <3>3. KindOf(d, t)' = KindOf(d, t)
      BY <2>1, <3>1 DEF KindOf
    <3> QED
      BY <3>2, <3>3 DEF Accounted
  <2>4. SentByUser
    BY <2>1 DEF SentByUser
  <2> QED
    BY <2>2, <2>3, <2>4 DEF Accounted
<1>6. ASSUME NEW c \in Clients, PlayerEvent(c) PROVE Accounted' /\ SentByUser
  BY <1>6, PlayerEventAccounted
<1>7. ASSUME NEW c \in Clients, RemoteCommand(c) \/ RemoteHeartbeat(c)
      PROVE  Accounted' /\ SentByUser
  BY <1>7, RemoteDrives, DriveAccounted
<1>8. ASSUME NEW c \in Clients, PeerJoined(c) PROVE Accounted' /\ SentByUser
  BY <1>2, <1>8 DEF PeerJoined
<1>9. ASSUME NEW c \in Clients, HeartbeatDue(c) PROVE Accounted' /\ SentByUser
  BY <1>2, <1>9 DEF HeartbeatDue
<1>10. ASSUME NEW c \in Clients, events[c] = {}, Connect(c) PROVE Accounted' /\ SentByUser
  <2>1. events[c] = {} /\ UNCHANGED <<player, events, byUser>>
    BY <1>10 DEF Connect
  <2>2. ASSUME NEW d \in connected', NEW t \in (events[d] \ byUser[d]) \ {"cache"}
        PROVE  Live(engine'[d], KindOf(d, t)) # {}
    <3>1. d # c /\ d \in connected /\ d \in Clients
      BY <1>10, <2>1, <2>2 DEF Connect, TypeOK
    <3>2. engine'[d] = engine[d]
      BY <1>10, <3>1 DEF Connect, TypeOK
    <3> QED
      BY <2>2, <3>1, <3>2 DEF Accounted
  <2> QED
    BY <2>1, <2>2 DEF Accounted, SentByUser, KindOf
<1>11. ASSUME NEW c \in Clients, Disconnect(c) PROVE Accounted' /\ SentByUser
  <2>1. connected' \subseteq connected /\ UNCHANGED <<player, events, engine, byUser>>
    BY <1>11 DEF Disconnect
  <2> QED
    BY <2>1 DEF Accounted, SentByUser, KindOf
<1> QED
  BY <1>1, <1>3, <1>4, <1>5, <1>6, <1>7, <1>8, <1>9, <1>10, <1>11
  DEF PromptNext, ServerMessage

\* If players report within the suppression window, only what a user did is
\* sent: for any speeds, window, cooldown and number of acts and drops.
THEOREM NoEchoTheorem == PromptSpec => NoEcho
<1> DEFINE IInv == TypeOK /\ Accounted
<1>1. Init => IInv
  <2>1. Init => Accounted
    BY DEF Init, Accounted
  <2> QED
    BY <2>1, TypeInit
<1>2. IInv /\ [PromptNext]_vars => IInv' /\ [SentByUser]_vars
  <2>1. [PromptNext]_vars => [Next]_vars
    BY DEF PromptNext, Next
  <2> QED
    BY <2>1, TypeStep, AccountedStep
<1> HIDE DEF IInv
<1> QED
  BY <1>1, <1>2, PTL DEF PromptSpec, NoEcho

----------------------------------------------------------------------------
(* Both play or both are paused *)

\* The messages that set a player's pause, and to what.
SetsPause(m) == m.type \in {"play", "pause", "state"}
Says(m) == m.type = "pause" \/ (m.type = "state" /\ m.paused)

Orders(q) == \E i \in DOMAIN q : SetsPause(q[i])
AllSay(q, paused) == \A i \in DOMAIN q : SetsPause(q[i]) => Says(q[i]) = paused
Joined(q) == \E i \in DOMAIN q : q[i].type = "peer-joined"

\* A change that has not been reported yet will not be sent ...
Foreseen(c) ==
    "pause" \in events[c] =>
        Live(engine[c], IF player[c].paused THEN "pause" ELSE "play") # {}

\* ... unless the user of c has just made it, and then it will.
Toggled(c) ==
    /\ "pause" \in events[c] /\ "pause" \notin events[Peer(c)]
    /\ Live(engine[c], "play") = {} /\ Live(engine[c], "pause") = {}
    /\ \A d \in Clients : ~Orders(inbox[d])
    /\ ~Joined(inbox[Host])

\* c does as its peer does, or will when it has received what is on its way or
\* what the host is about to send.
Follows(c) ==
    /\ \A d \in Clients : Foreseen(d)
    /\ ~Orders(inbox[Peer(c)])
    /\ c = Host => ~Joined(inbox[Host])
    /\ AllSay(inbox[c], player[Peer(c)].paused)
    /\ \/ player[c].paused = player[Peer(c)].paused
       \/ Orders(inbox[c])
       \/ c = Guest /\ Joined(inbox[Host])

HasData == \A c \in Clients : "cache" \notin events[c] /\ ~engine[c].buffering

AgreementInv ==
    /\ HasData
    /\ connected = Clients => \E c \in Clients : Toggled(c) \/ Follows(c)

LEMMA OrdersAtHead ==
  ASSUME NEW q \in Seq(Message), q # <<>>
  PROVE  /\ Orders(q) <=> SetsPause(Head(q)) \/ Orders(Tail(q))
         /\ \A paused : AllSay(q, paused) <=>
                (SetsPause(Head(q)) => Says(Head(q)) = paused) /\ AllSay(Tail(q), paused)
         /\ Joined(q) <=> Head(q).type = "peer-joined" \/ Joined(Tail(q))
<1>1. /\ Len(q) \in Nat \ {0} /\ DOMAIN q = 1..Len(q)
      /\ DOMAIN Tail(q) = 1..Len(q) - 1 /\ Head(q) = q[1]
      /\ \A i \in 1..Len(q) - 1 : Tail(q)[i] = q[i + 1]
  OBVIOUS
<1>2. 1 \in DOMAIN q /\ \A i \in DOMAIN Tail(q) : i + 1 \in DOMAIN q /\ Tail(q)[i] = q[i + 1]
  BY <1>1
<1>3. \A i \in DOMAIN q : i = 1 \/ (i - 1 \in DOMAIN Tail(q) /\ q[i] = Tail(q)[i - 1])
  BY <1>1
<1>4. Orders(q) <=> SetsPause(Head(q)) \/ Orders(Tail(q))
  BY <1>1, <1>2, <1>3 DEF Orders
<1>5. ASSUME NEW paused
      PROVE  AllSay(q, paused) <=>
                (SetsPause(Head(q)) => Says(Head(q)) = paused) /\ AllSay(Tail(q), paused)
  <2>1. ASSUME AllSay(q, paused)
        PROVE  (SetsPause(Head(q)) => Says(Head(q)) = paused) /\ AllSay(Tail(q), paused)
    BY <1>1, <1>2, <2>1 DEF AllSay
  <2>2. ASSUME SetsPause(Head(q)) => Says(Head(q)) = paused, AllSay(Tail(q), paused)
        PROVE  AllSay(q, paused)
    BY <1>1, <1>3, <2>2 DEF AllSay
  <2> QED
    BY <2>1, <2>2
<1>6. Joined(q) <=> Head(q).type = "peer-joined" \/ Joined(Tail(q))
  BY <1>1, <1>2, <1>3 DEF Joined
<1> QED
  BY <1>4, <1>5, <1>6

LEMMA OrdersAppended ==
  ASSUME NEW q \in Seq(Message), NEW m \in Message
  PROVE  /\ Append(q, m) \in Seq(Message)
         /\ Orders(Append(q, m)) <=> Orders(q) \/ SetsPause(m)
         /\ \A paused : AllSay(Append(q, m), paused) <=>
                AllSay(q, paused) /\ (SetsPause(m) => Says(m) = paused)
         /\ Joined(Append(q, m)) <=> Joined(q) \/ m.type = "peer-joined"
<1> DEFINE r == Append(q, m)
<1>1. r \in Seq(Message) /\ DOMAIN q = 1..Len(q) /\ DOMAIN r = 1..Len(q) + 1 /\ Len(q) \in Nat
  OBVIOUS
<1>2. r[Len(q) + 1] = m /\ \A i \in DOMAIN q : r[i] = q[i]
  OBVIOUS
<1>3. Len(q) + 1 \in DOMAIN r /\ \A i \in DOMAIN q : i \in DOMAIN r
  BY <1>1
<1>4. \A i \in DOMAIN r : i \in DOMAIN q \/ i = Len(q) + 1
  BY <1>1
<1> HIDE DEF r
<1>5. Orders(r) <=> Orders(q) \/ SetsPause(m)
  BY <1>2, <1>3, <1>4 DEF Orders
<1>6. ASSUME NEW paused
      PROVE  AllSay(r, paused) <=> AllSay(q, paused) /\ (SetsPause(m) => Says(m) = paused)
  BY <1>2, <1>3, <1>4 DEF AllSay
<1>7. Joined(r) <=> Joined(q) \/ m.type = "peer-joined"
  BY <1>2, <1>3, <1>4 DEF Joined
<1> QED
  BY <1>1, <1>5, <1>6, <1>7 DEF r

\* Where nothing but heartbeats is on its way, neither are orders.
LEMMA NothingOrdered ==
  ASSUME NEW c, NothingFor(c)
  PROVE  ~Orders(inbox[c]) /\ ~Joined(inbox[c]) /\ \A paused : AllSay(inbox[c], paused)
BY DEF NothingFor, Orders, Joined, AllSay, SetsPause

\* A suppression of one kind does not touch the others.
LEMMA SuppressOnly ==
  ASSUME NEW e \in Engine, NEW k \in Kinds, NEW j \in Kinds, j # k
  PROVE  /\ Live(Suppress(e, k), j) = Live(e, j)
         /\ Suppress(e, k).buffering = e.buffering
<1>1. e.suppressions \in [Kinds -> [1..Window -> Nat]]
  BY DEF Engine
<1>2. Suppress(e, k).suppressions[j] = e.suppressions[j]
  BY <1>1 DEF Suppress, Engine
<1> QED
  BY <1>2 DEF Live, Suppress, Engine

\* A result that has nothing to do with pausing.
LeavesPause(e, r) ==
    /\ r.engine.buffering = e.buffering
    /\ \A k \in {"play", "pause"} : Live(r.engine, k) = Live(e, k)
    /\ r.effects.setPaused = {}

LEMMA RemoteLeavesPause ==
  ASSUME NEW e \in Engine
  PROVE  /\ LeavesPause(e, OnRemoteSeek(e))
         /\ \A speed \in Speeds : LeavesPause(e, OnRemoteSpeed(e, speed))
<1>1. LeavesPause(e, OnRemoteSeek(e))
  BY SuppressOnly DEF Kinds, OnRemoteSeek, LeavesPause, Result, NoEffects
<1>2. ASSUME NEW speed \in Speeds PROVE LeavesPause(e, OnRemoteSpeed(e, speed))
  <2> DEFINE f == [e EXCEPT !.speed = speed]
  <2>1. f \in Engine /\ f.suppressions = e.suppressions /\ f.buffering = e.buffering
    BY DEF Engine
  <2>2. OnRemoteSpeed(e, speed).engine = Suppress(f, "speed")
        /\ OnRemoteSpeed(e, speed).effects.setPaused = {}
    BY DEF OnRemoteSpeed, Result, NoEffects
  <2> HIDE DEF f
  <2>3. \A k \in {"play", "pause"} : Live(f, k) = Live(e, k)
    BY <2>1 DEF Live
  <2> QED
    BY <2>1, <2>2, <2>3, SuppressOnly DEF Kinds, LeavesPause
<1> QED
  BY <1>1, <1>2

LEMMA HeartbeatLeavesPause ==
  ASSUME NEW e \in Engine, NEW guestOfHost \in BOOLEAN, NEW from \in Peers,
         NEW m \in Message, NEW drifted \in BOOLEAN
  PROVE  LeavesPause(e, OnRemoteHeartbeat(e, guestOfHost, from, m, drifted))
<1> DEFINE t == Tracked(e, from, m)
           r == SpeedCorrected(t, m)
           c == [r.engine EXCEPT !.cooldown = Cooldown]
<1>1. t \in Engine /\ LeavesPause(e, Result(t, NoEffects))
  BY DEF Tracked, Engine, LeavesPause, Live, Result, NoEffects
<1>2. m.speed \in Speeds
  BY DEF Message
<1>3. LeavesPause(e, r) /\ r.engine \in Engine
  <2>1. CASE t.speed = m.speed
    BY <1>1, <2>1 DEF SpeedCorrected, Result
  <2>2. CASE t.speed # m.speed
    <3>1. r = OnRemoteSpeed(t, m.speed)
      BY <2>2 DEF SpeedCorrected, OnRemoteSpeed
    <3>2. LeavesPause(t, OnRemoteSpeed(t, m.speed)) /\ Expects(t, OnRemoteSpeed(t, m.speed))
      BY <1>1, <1>2, RemoteLeavesPause, RemoteSpeedExpects
    <3> QED
      BY <1>1, <3>1, <3>2 DEF LeavesPause, Expects, Result
  <2> QED
    BY <2>1, <2>2
<1>4. LeavesPause(e, Corrected(r))
  <2>1. c \in Engine /\ c.suppressions = r.engine.suppressions /\ c.buffering = r.engine.buffering
    <3>1. Cooldown \in 0..Cooldown
      BY TimesAssumption
    <3>2. r.engine \in Engine
      BY <1>3
    <3> HIDE DEF r
    <3> QED
      BY <3>1, <3>2 DEF Engine
  <2>2. Corrected(r).engine = Suppress(c, "seek")
        /\ Corrected(r).effects = [r.effects EXCEPT !.seek = TRUE]
    BY DEF Corrected, Result
  <2>3. r.effects \in Effects
    BY <1>1, <1>2, NoEffectsType, SpeedExpects DEF SpeedCorrected, Result, Expects
  <2>4. Corrected(r).effects.setPaused = {}
    BY <1>3, <2>2, <2>3 DEF LeavesPause, Effects
  <2> HIDE DEF c, r
  <2>5. \A k \in {"play", "pause"} : Live(c, k) = Live(r.engine, k)
    BY <2>1 DEF Live
  <2> QED
    BY <1>3, <2>1, <2>2, <2>4, <2>5, SuppressOnly DEF Kinds, LeavesPause
<1> QED
  BY <1>1, <1>3, <1>4 DEF OnRemoteHeartbeat

\* Orders do, and the player does as they say.
Obeys(e, r, paused) ==
    /\ Expects(e, r)
    /\ r.effects.setPaused = {paused}
    /\ e.buffering = FALSE => r.engine.buffering = FALSE

LEMMA OrdersObeyed ==
  ASSUME NEW e \in Engine
  PROVE  /\ Obeys(e, OnRemotePlay(e), FALSE)
         /\ Obeys(e, OnRemotePause(e), TRUE)
         /\ \A paused \in BOOLEAN, speed \in Speeds :
                Obeys(e, OnRemoteState(e, paused, speed), paused)
<1>1. ASSUME NEW f \in Engine, NEW k \in Kinds
      PROVE  Suppress(f, k) \in Engine /\ Suppress(f, k).buffering = f.buffering
  <2>1. Suppress(f, k) \in Engine
    BY SuppressAdds
  <2>2. \E j \in Kinds : j # k
    BY DEF Kinds
  <2> QED
    BY <2>1, <2>2, SuppressOnly
<1>2. Obeys(e, OnRemotePlay(e), FALSE)
  <2> DEFINE f == [e EXCEPT !.paused = FALSE]
  <2>1. f \in Engine /\ f.buffering = e.buffering
    BY DEF Engine
  <2>2. OnRemotePlay(e).engine = Suppress(Suppress(f, "play"), "seek")
        /\ OnRemotePlay(e).effects.setPaused = {FALSE}
    BY DEF OnRemotePlay, Result, NoEffects
  <2> HIDE DEF f
  <2>3. Suppress(Suppress(f, "play"), "seek").buffering = f.buffering
    BY <1>1, <2>1 DEF Kinds
  <2> QED
    BY <2>1, <2>2, <2>3, RemotePlayExpects DEF Obeys
<1>3. Obeys(e, OnRemotePause(e), TRUE)
  <2> DEFINE f == [e EXCEPT !.paused = TRUE]
  <2>1. f \in Engine /\ f.buffering = e.buffering
    BY DEF Engine
  <2>2. OnRemotePause(e).engine = Suppress(Suppress(f, "pause"), "seek")
        /\ OnRemotePause(e).effects.setPaused = {TRUE}
    BY DEF OnRemotePause, Result, NoEffects
  <2> HIDE DEF f
  <2>3. Suppress(Suppress(f, "pause"), "seek").buffering = f.buffering
    BY <1>1, <2>1 DEF Kinds
  <2> QED
    BY <2>1, <2>2, <2>3, RemotePauseExpects DEF Obeys
<1>4. ASSUME NEW paused \in BOOLEAN, NEW speed \in Speeds
      PROVE  Obeys(e, OnRemoteState(e, paused, speed), paused)
  <2> DEFINE f == [e EXCEPT !.paused = paused, !.speed = speed, !.buffering = FALSE]
             k == IF paused THEN "pause" ELSE "play"
  <2>1. f \in Engine /\ f.buffering = FALSE
    BY DEF Engine
  <2>2. OnRemoteState(e, paused, speed).engine
            = Suppress(Suppress(Suppress(f, "seek"), k), "speed")
        /\ OnRemoteState(e, paused, speed).effects.setPaused = {paused}
    BY DEF OnRemoteState, Result, NoEffects
  <2>3. k \in Kinds
    BY KindsNamed
  <2> HIDE DEF f, k
  <2>4. Suppress(f, "seek") \in Engine /\ Suppress(f, "seek").buffering = FALSE
    BY <1>1, <2>1 DEF Kinds
  <2>5. Suppress(Suppress(f, "seek"), k) \in Engine
        /\ Suppress(Suppress(f, "seek"), k).buffering = FALSE
    BY <1>1, <2>3, <2>4
  <2>6. Suppress(Suppress(Suppress(f, "seek"), k), "speed").buffering = FALSE
    BY <1>1, <2>5 DEF Kinds
  <2> QED
    BY <2>2, <2>6, RemoteStateExpects DEF Obeys
<1> QED
  BY <1>2, <1>3, <1>4

\* Reports are local events of their kind.
LEMMA ReportsLeaveBuffering ==
  ASSUME NEW e \in Engine
  PROVE  /\ OnLocalPlay(e).engine.buffering = e.buffering
         /\ OnLocalPause(e).engine.buffering = e.buffering
         /\ OnLocalSeek(e).engine.buffering = e.buffering
         /\ OnLocalSeek(e).effects.send \subseteq {OfType("seek")}
         /\ \A speed \in Speeds :
                /\ OnLocalSpeed(e, speed).engine.buffering = e.buffering
                /\ OnLocalSpeed(e, speed).effects.send \subseteq {SpeedMessage(speed)}
<1>1. ASSUME NEW f \in Engine, NEW k \in Kinds, NEW message
      PROVE  /\ Reported(f, k, message).engine.buffering = f.buffering
             /\ Reported(f, k, message).effects.send \subseteq message
  BY DEF Reported, Result, Consume, NoEffects, Engine
<1>2. OnLocalPlay(e).engine.buffering = e.buffering
  <2> DEFINE f == [e EXCEPT !.paused = FALSE]
  <2>1. f \in Engine /\ f.buffering = e.buffering
    BY DEF Engine
  <2> HIDE DEF f
  <2> QED
    BY <1>1, <2>1, KindsNamed DEF OnLocalPlay, f
<1>3. OnLocalPause(e).engine.buffering = e.buffering
  <2> DEFINE f == [e EXCEPT !.paused = TRUE]
  <2>1. f \in Engine /\ f.buffering = e.buffering
    BY DEF Engine
  <2> HIDE DEF f
  <2> QED
    BY <1>1, <2>1, KindsNamed DEF OnLocalPause, f
<1>4. OnLocalSeek(e).engine.buffering = e.buffering
      /\ OnLocalSeek(e).effects.send \subseteq {OfType("seek")}
  BY <1>1, KindsNamed DEF OnLocalSeek
<1>5. ASSUME NEW speed \in Speeds
      PROVE  /\ OnLocalSpeed(e, speed).engine.buffering = e.buffering
             /\ OnLocalSpeed(e, speed).effects.send \subseteq {SpeedMessage(speed)}
  <2> DEFINE f == [e EXCEPT !.speed = speed]
  <2>1. f \in Engine /\ f.buffering = e.buffering
    BY DEF Engine
  <2> HIDE DEF f
  <2>2. OnLocalSpeed(e, speed) = Reported(f, "speed", {SpeedMessage(speed)})
    BY DEF OnLocalSpeed, f
  <2>3. "speed" \in Kinds
    BY DEF Kinds
  <2> QED
    BY <1>1, <2>1, <2>2, <2>3
<1> QED
  BY <1>2, <1>3, <1>4, <1>5

\* Steps that have nothing to do with pausing.
Untouched ==
    /\ connected' = connected
    /\ \A d \in Clients :
           /\ player'[d].paused = player[d].paused
           /\ "pause" \in events'[d] <=> "pause" \in events[d]
           /\ "cache" \in events'[d] => "cache" \in events[d]
           /\ engine'[d].buffering = engine[d].buffering
           /\ Live(engine'[d], "play") = Live(engine[d], "play")
           /\ Live(engine'[d], "pause") = Live(engine[d], "pause")
           /\ Orders(inbox'[d]) <=> Orders(inbox[d])
           /\ \A paused : AllSay(inbox'[d], paused) <=> AllSay(inbox[d], paused)
    /\ Joined(inbox'[Host]) <=> Joined(inbox[Host])

LEMMA UntouchedAgrees ==
  ASSUME AgreementInv, Untouched
  PROVE  AgreementInv'
<1>1. HasData'
  BY DEF AgreementInv, HasData, Untouched
<1>2. ASSUME NEW c \in Clients, Toggled(c) PROVE Toggled(c)'
  <2>1. Peer(c) \in Clients
    BY PeerType
  <2> QED
    BY <1>2, <2>1 DEF Toggled, Untouched, Peer
<1>3. ASSUME NEW c \in Clients, Follows(c) PROVE Follows(c)'
  <2>1. Peer(c) \in Clients
    BY PeerType
  <2>2. ASSUME NEW d \in Clients PROVE Foreseen(d)'
    BY <1>3 DEF Follows, Foreseen, Untouched
  <2>3. ~Orders(inbox'[Peer(c)]) /\ (c = Host => ~Joined(inbox'[Host]))
    BY <1>3, <2>1 DEF Follows, Untouched
  <2>4. AllSay(inbox'[c], player'[Peer(c)].paused)
    BY <1>3, <2>1 DEF Follows, Untouched
  <2>5. \/ player'[c].paused = player'[Peer(c)].paused
        \/ Orders(inbox'[c])
        \/ c = Guest /\ Joined(inbox'[Host])
    BY <1>3, <2>1 DEF Follows, Untouched
  <2> QED
    BY <2>2, <2>3, <2>4, <2>5 DEF Follows, Peer
<1>4. connected' = connected
  BY DEF Untouched
<1> QED
  BY <1>1, <1>2, <1>3, <1>4 DEF AgreementInv

\* The user of c acts while nothing else is going on.
LEMMA UserActAgrees ==
  ASSUME TypeOK, AgreementInv, Quiet, NoSuppressions, NEW c \in Clients, UserAct(c)
  PROVE  AgreementInv'
<1>1. ASSUME NEW type \in {"pause", "seek", "speed"}, UserActs(c, type)
      PROVE  /\ UNCHANGED <<connected, engine, inbox>>
             /\ \A d \in Clients :
                    events'[d] = IF d = c THEN events[c] \cup {type} ELSE events[d]
  BY <1>1 DEF UserActs, Pending, TypeOK
<1>2. CASE UserTogglesPause(c)
  <2>1. /\ UNCHANGED <<connected, engine, inbox>>
        /\ \A d \in Clients : events'[d] = IF d = c THEN events[c] \cup {"pause"} ELSE events[d]
    BY <1>1, <1>2 DEF UserTogglesPause
  <2>2. HasData'
    BY <2>1 DEF AgreementInv, HasData
  <2>3. \A d \in Clients : ~Orders(inbox[d]) /\ ~Joined(inbox[d])
    BY NothingOrdered DEF Quiet
  <2>4. Toggled(c)'
    <3>1. "pause" \in events'[c] /\ "pause" \notin events'[Peer(c)]
      BY <2>1, PeerType DEF Quiet, AllReported
    <3>2. Live(engine[c], "play") = {} /\ Live(engine[c], "pause") = {}
      BY KindsNamed DEF NoSuppressions
    <3> QED
      BY <2>1, <2>3, <3>1, <3>2 DEF Toggled, Peer, Clients
  <2> QED
    BY <2>2, <2>4 DEF AgreementInv
<1>3. ASSUME NEW type \in {"seek", "speed"}, UserActs(c, type),
             \A d \in Clients : player'[d].paused = player[d].paused
      PROVE  AgreementInv'
  <2>1. Untouched
    BY <1>1, <1>3 DEF Untouched
  <2> QED
    BY <2>1, UntouchedAgrees
<1>4. CASE UserSeeks(c)
  BY <1>3, <1>4 DEF UserSeeks
<1>5. ASSUME NEW speed \in Speeds, UserSetsSpeed(c, speed) PROVE AgreementInv'
  <2>1. \A d \in Clients : player'[d].paused = player[d].paused
    BY <1>5 DEF UserSetsSpeed, TypeOK, Player
  <2> QED
    BY <1>3, <1>5, <2>1 DEF UserSetsSpeed
<1> QED
  BY <1>2, <1>4, <1>5 DEF UserAct

\* What a listener sends has arrived at the peer.
LEMMA DeliveredOne ==
  ASSUME TypeOK, NEW c \in Clients, NEW m
  PROVE  /\ Delivered(c, {}) = inbox
         /\ Peer(c) \notin connected => Delivered(c, {m}) = inbox
         /\ Peer(c) \in connected =>
                \A d \in Clients :
                    Delivered(c, {m})[d] = IF d = Peer(c) THEN Append(inbox[d], m) ELSE inbox[d]
  BY PeerType DEF Delivered, TypeOK

\* Seeks and speeds are reported, and sent or not.
LEMMA OtherEventAgrees ==
  ASSUME TypeOK, AgreementInv, NEW c \in Clients, NEW type \in {"seek", "speed"}, NEW r,
         Answers(engine[c], type, r), r.engine.buffering = engine[c].buffering,
         NEW m \in Message, m.type = type, r.effects.send \subseteq {m}, Listen(c, type, r)
  PROVE  AgreementInv'
<1>1. \A d \in Clients : /\ events'[d] = IF d = c THEN events[c] \ {type} ELSE events[d]
                         /\ engine'[d] = engine[d] \/ (d = c /\ engine'[d] = r.engine)
  BY DEF Listen, TypeOK
<1>2. UNCHANGED <<connected, player>>
  BY DEF Listen
<1>3. Live(r.engine, "play") = Live(engine[c], "play")
      /\ Live(r.engine, "pause") = Live(engine[c], "pause")
  BY DEF Answers, Kinds
<1>4. ASSUME NEW d \in Clients
      PROVE  /\ Orders(inbox'[d]) <=> Orders(inbox[d])
             /\ \A paused : AllSay(inbox'[d], paused) <=> AllSay(inbox[d], paused)
             /\ Joined(inbox'[d]) <=> Joined(inbox[d])
  <2>1. r.effects.send = {} \/ r.effects.send = {m}
    OBVIOUS
  <2>2. inbox' = inbox \/ inbox'[d] = inbox[d] \/ inbox'[d] = Append(inbox[d], m)
    <3>1. inbox' = inbox \/ inbox' = Delivered(c, r.effects.send)
      BY DEF Listen
    <3>2. Delivered(c, {}) = inbox
      BY DeliveredOne
    <3>3. Delivered(c, {m}) = inbox \/ Delivered(c, {m})[d] = inbox[d]
          \/ Delivered(c, {m})[d] = Append(inbox[d], m)
      BY DeliveredOne
    <3> QED
      BY <2>1, <3>1, <3>2, <3>3
  <2>3. ~SetsPause(m) /\ m.type # "peer-joined"
    BY DEF SetsPause
  <2>4. inbox[d] \in Seq(Message)
    BY DEF TypeOK
  <2>5. CASE inbox'[d] = Append(inbox[d], m)
    BY <2>3, <2>4, <2>5, OrdersAppended
  <2> QED
    BY <2>2, <2>5
<1>5. Host \in Clients
  BY DEF Clients
<1>6. Untouched
  BY <1>1, <1>2, <1>3, <1>4, <1>5 DEF Untouched
<1> QED
  BY <1>6, UntouchedAgrees

\* A change of pause is reported: sent, if it is the user's, and then the peer has
\* been told.
LEMMA PauseEventAgrees ==
  ASSUME TypeOK, AgreementInv, NEW c \in Clients, PauseChanged(c)
  PROVE  AgreementInv'
<1> DEFINE k == IF player[c].paused THEN "pause" ELSE "play"
           r == IF player[c].paused THEN OnLocalPause(engine[c]) ELSE OnLocalPlay(engine[c])
           m == OfType(k)
           p == Peer(c)
<1>1. engine[c] \in Engine /\ engine[c].buffering = FALSE /\ player[c].paused \in BOOLEAN
  BY DEF AgreementInv, HasData, TypeOK, Player, Engine
<1>2. /\ Answers(engine[c], k, r) /\ r.engine.buffering = FALSE
  BY <1>1, PauseAnswers, ReportsLeaveBuffering
<1>3. Live(engine[c], k) = {} => r.effects.send = {m}
  BY <1>1 DEF OnLocalPause, OnLocalPlay, Reported, Result, NoEffects, Live
<1>4. m \in Message /\ SetsPause(m) /\ Says(m) = player[c].paused /\ m.type # "peer-joined"
  <2>1. k \in Kinds
    BY KindsNamed
  <2>2. m \in Message
    BY <2>1, MessagesType
  <2> QED
    BY <1>1, <2>2 DEF OfType, SetsPause, Says
<1>5. /\ "pause" \in events[c]
      /\ \A d \in Clients : events'[d] = IF d = c THEN events[c] \ {"pause"} ELSE events[d]
      /\ \A d \in Clients : engine'[d] = engine[d] \/ (d = c /\ engine'[d] = r.engine)
      /\ \A d \in Clients : d # c => engine'[d] = engine[d]
      /\ UNCHANGED <<connected, player>>
      /\ c \in connected => inbox' = Delivered(c, r.effects.send)
  BY DEF PauseChanged, Listen, TypeOK
<1> HIDE DEF k, r, m
<1>6. HasData'
  BY <1>2, <1>5 DEF AgreementInv, HasData
<1>7. p \in Clients /\ p # c /\ Peer(p) = c /\ \A d \in Clients : d = c \/ d = p
  BY ClientsAssumption DEF Peer, Clients
<1>8. ASSUME connected = Clients PROVE \E d \in Clients : Toggled(d)' \/ Follows(d)'
  <2>1. c \in connected /\ p \in connected
    BY <1>7, <1>8
  <2>2. ASSUME NEW x \in Clients, Toggled(x) PROVE Follows(p)'
    <3>1. x = c
      BY <1>5, <1>7, <2>2 DEF Toggled
    <3>2. Live(engine[c], k) = {}
      BY <2>2, <3>1 DEF Toggled, k
    <3>3. \A d \in Clients : inbox'[d] = IF d = p THEN Append(inbox[d], m) ELSE inbox[d]
      <4>1. inbox' = Delivered(c, {m})
        BY <1>3, <1>5, <2>1, <3>2
      <4> QED
        BY <2>1, <4>1, DeliveredOne
    <3>4. \A d \in Clients : inbox[d] \in Seq(Message) /\ ~Orders(inbox[d])
      BY <2>2 DEF Toggled, TypeOK
    <3>5. \A d \in Clients : "pause" \notin events'[d]
      BY <1>5, <1>7, <2>2, <3>1 DEF Toggled
    <3>6. ~Orders(inbox'[c]) /\ Orders(inbox'[p])
      BY <1>4, <1>7, <3>3, <3>4, OrdersAppended
    <3>7. AllSay(inbox'[p], player'[c].paused)
      <4>1. AllSay(inbox[p], player[c].paused)
        BY <1>7, <3>4 DEF AllSay, Orders
      <4> QED
        BY <1>4, <1>5, <1>7, <3>3, <3>4, <4>1, OrdersAppended
    <3>8. ~Joined(inbox'[Host])
      <4>1. Host \in Clients /\ ~Joined(inbox[Host])
        BY <2>2 DEF Toggled, Clients
      <4> QED
        BY <1>4, <3>3, <3>4, <4>1, OrdersAppended
    <3>9. Peer(p)' = c
      BY <1>7 DEF Peer
    <3> QED
      BY <1>7, <3>5, <3>6, <3>7, <3>8 DEF Follows, Foreseen, Peer
  <2>3. ASSUME NEW x \in Clients, Follows(x) PROVE Follows(x)'
    <3>1. Live(engine[c], k) # {}
      BY <1>5, <2>3 DEF Follows, Foreseen, k
    <3>2. inbox' = inbox
      BY <1>2, <1>5, <2>1, <3>1, DeliveredOne DEF Answers
    <3>3. ASSUME NEW d \in Clients PROVE Foreseen(d)'
      BY <1>5, <2>3 DEF Follows, Foreseen
    <3> QED
      BY <1>5, <2>3, <3>2, <3>3 DEF Follows, Peer
  <2> QED
    BY <1>7, <1>8, <2>2, <2>3 DEF AgreementInv
<1> QED
  BY <1>5, <1>6, <1>8 DEF AgreementInv

\* An order is obeyed.
LEMMA OrderAgrees ==
  ASSUME TypeOK, AgreementInv, NEW c \in Clients, NEW type \in {"play", "pause", "state"},
         NEW r, NEW paused \in BOOLEAN, Receive(c, type), Says(Head(inbox[c])) = paused,
         Obeys(engine[c], r, paused), Drive(c, r)
  PROVE  AgreementInv'
<1> DEFINE p == Peer(c)
<1>1. /\ c \in connected /\ connected' = connected
      /\ SetsPause(Head(inbox[c])) /\ Head(inbox[c]).type # "peer-joined"
      /\ inbox[c] # <<>> /\ inbox[c] \in Seq(Message)
      /\ \A d \in Clients : inbox'[d] = IF d = c THEN Tail(inbox[c]) ELSE inbox[d]
  BY DEF Receive, SetsPause, TypeOK
<1>2. Value(player[c].paused, r.effects.setPaused) = paused
  BY DEF Obeys, Value
<1>3. \A d \in Clients :
          /\ engine'[d] = IF d = c THEN r.engine ELSE engine[d]
          /\ player'[d].paused = IF d = c THEN paused ELSE player[d].paused
  BY <1>2 DEF Drive, TypeOK, Player
<1>4. /\ \A d \in Clients : "cache" \in events'[d] => "cache" \in events[d]
      /\ \A d \in Clients : d # c => events'[d] = events[d]
  BY DEF Drive, Pending, ChangedBy, TypeOK
<1>5. HasData'
  BY <1>3, <1>4 DEF AgreementInv, HasData, Obeys
<1>6. p \in Clients /\ p # c /\ Peer(p) = c /\ \A d \in Clients : d = c \/ d = p
  BY ClientsAssumption DEF Peer, Clients
<1>7. Orders(inbox[c])
  BY <1>1, OrdersAtHead
<1>8. ASSUME NEW x \in Clients, Follows(x) PROVE Follows(c)'
  <2>1. x = c
    BY <1>6, <1>7, <1>8 DEF Follows
  <2>2. paused = player[p].paused /\ AllSay(inbox'[c], player[p].paused)
    BY <1>1, <1>8, <2>1, OrdersAtHead DEF Follows
  <2>3. ASSUME NEW d \in Clients PROVE Foreseen(d)'
    <3>1. CASE d = c
      <4>1. Live(r.engine, IF paused THEN "pause" ELSE "play") # {}
        BY DEF Obeys, Expects
      <4> QED
        BY <1>3, <3>1, <4>1 DEF Foreseen
    <3>2. CASE d # c
      BY <1>3, <1>4, <1>8, <3>2 DEF Follows, Foreseen
    <3> QED
      BY <3>1, <3>2
  <2>4. ~Orders(inbox'[p])
    BY <1>1, <1>6, <1>8, <2>1 DEF Follows
  <2>5. c = Host => ~Joined(inbox'[Host])
    BY <1>1, <1>8, <2>1, OrdersAtHead DEF Follows
  <2>6. player'[c].paused = player'[p].paused
    BY <1>3, <1>6, <2>2
  <2> QED
    BY <1>3, <1>6, <2>2, <2>3, <2>4, <2>5, <2>6 DEF Follows, Peer
<1>9. \A x \in Clients : ~Toggled(x)
  BY <1>7 DEF Toggled
<1> QED
  BY <1>1, <1>5, <1>8, <1>9 DEF AgreementInv

\* What is not an order leaves the pause alone.
LEMMA OtherMessageAgrees ==
  ASSUME TypeOK, AgreementInv, NEW c \in Clients, NEW type \in {"seek", "speed", "heartbeat"},
         NEW r, Receive(c, type), LeavesPause(engine[c], r), Drive(c, r)
  PROVE  AgreementInv'
<1>1. /\ connected' = connected
      /\ ~SetsPause(Head(inbox[c])) /\ Head(inbox[c]).type # "peer-joined"
      /\ inbox[c] # <<>> /\ inbox[c] \in Seq(Message)
      /\ \A d \in Clients : inbox'[d] = IF d = c THEN Tail(inbox[c]) ELSE inbox[d]
  BY DEF Receive, SetsPause, TypeOK
<1>2. Value(player[c].paused, r.effects.setPaused) = player[c].paused
  BY DEF LeavesPause, Value
<1>3. \A d \in Clients :
          /\ engine'[d] = IF d = c THEN r.engine ELSE engine[d]
          /\ player'[d].paused = player[d].paused
  BY <1>2 DEF Drive, TypeOK, Player
<1>4. "pause" \notin ChangedBy(c, r.effects) /\ "cache" \notin ChangedBy(c, r.effects)
  BY <1>2 DEF ChangedBy
<1>5. \A d \in Clients :
          /\ "pause" \in events'[d] <=> "pause" \in events[d]
          /\ "cache" \in events'[d] => "cache" \in events[d]
  BY <1>4 DEF Drive, Pending, TypeOK
<1>6. ASSUME NEW d \in Clients
      PROVE  /\ Orders(inbox'[d]) <=> Orders(inbox[d])
             /\ \A paused : AllSay(inbox'[d], paused) <=> AllSay(inbox[d], paused)
             /\ Joined(inbox'[d]) <=> Joined(inbox[d])
  BY <1>1, OrdersAtHead
<1>7. Host \in Clients
  BY DEF Clients
<1>8. Untouched
  BY <1>1, <1>3, <1>5, <1>6, <1>7 DEF Untouched, LeavesPause
<1> QED
  BY <1>8, UntouchedAgrees

LEMMA RemoteAgrees ==
  ASSUME TypeOK, AgreementInv, NEW c \in Clients, RemoteCommand(c) \/ RemoteHeartbeat(c)
  PROVE  AgreementInv'
<1> DEFINE e == engine[c]
           m == Head(inbox[c])
<1>1. e \in Engine
  BY DEF TypeOK
<1>2. m \in Message /\ m.paused \in BOOLEAN /\ m.speed \in Speeds
  <2>1. inbox[c] # <<>>
    BY DEF RemoteCommand, RemoteHeartbeat, Receive
  <2>2. m \in Message
    BY <2>1, HeadTailType
  <2> QED
    BY <2>2 DEF Message
<1>3. CASE RemoteHeartbeat(c)
  <2>1. Peer(c) \in Peers /\ (c = Guest) \in BOOLEAN
    BY PeerType, ClientsAssumption
  <2>2. PICK drifted \in BOOLEAN :
            Drive(c, OnRemoteHeartbeat(e, c = Guest, Peer(c), m, drifted))
    BY <1>3 DEF RemoteHeartbeat
  <2>3. Receive(c, "heartbeat")
    BY <1>3 DEF RemoteHeartbeat
  <2>4. LeavesPause(e, OnRemoteHeartbeat(e, c = Guest, Peer(c), m, drifted))
    BY <1>1, <1>2, <2>1, HeartbeatLeavesPause
  <2> QED
    BY <2>2, <2>3, <2>4, OtherMessageAgrees
<1>4. CASE Receive(c, "play") /\ Drive(c, OnRemotePlay(e))
  <2>1. Says(m) = FALSE
    BY <1>4 DEF Receive, Says
  <2> QED
    BY <1>1, <1>4, <2>1, OrdersObeyed, OrderAgrees
<1>5. CASE Receive(c, "pause") /\ Drive(c, OnRemotePause(e))
  <2>1. Says(m) = TRUE
    BY <1>5 DEF Receive, Says
  <2> QED
    BY <1>1, <1>5, <2>1, OrdersObeyed, OrderAgrees
<1>6. CASE Receive(c, "seek") /\ Drive(c, OnRemoteSeek(e))
  BY <1>1, <1>6, RemoteLeavesPause, OtherMessageAgrees
<1>7. CASE Receive(c, "speed") /\ Drive(c, OnRemoteSpeed(e, m.speed))
  BY <1>1, <1>2, <1>7, RemoteLeavesPause, OtherMessageAgrees
<1>8. CASE Receive(c, "state") /\ Drive(c, OnRemoteState(e, m.paused, m.speed))
  <2>1. Says(m) = m.paused
    BY <1>2, <1>8 DEF Receive, Says
  <2>2. Obeys(e, OnRemoteState(e, m.paused, m.speed), m.paused)
    BY <1>1, <1>2, OrdersObeyed
  <2> QED
    BY <1>2, <1>8, <2>1, <2>2, OrderAgrees
<1> QED
  BY <1>3, <1>4, <1>5, <1>6, <1>7, <1>8 DEF RemoteCommand

LEMMA EventAgrees ==
  ASSUME TypeOK, AgreementInv, NEW c \in Clients, PlayerEvent(c)
  PROVE  AgreementInv'
<1>1. engine[c] \in Engine /\ player[c].speed \in Speeds
  BY DEF TypeOK, Player
<1>2. CASE SeekDone(c)
  <2>1. OfType("seek") \in Message /\ OfType("seek").type = "seek"
    BY MessagesType, KindsNamed DEF OfType
  <2> QED
    BY <1>1, <1>2, <2>1, LocalAnswers, ReportsLeaveBuffering, OtherEventAgrees DEF SeekDone
<1>3. CASE SpeedChanged(c)
  <2> DEFINE m == SpeedMessage(player[c].speed)
             r == OnLocalSpeed(engine[c], player[c].speed)
  <2>1. m \in Message /\ m.type = "speed"
    BY <1>1, MessagesType DEF SpeedMessage, OfType
  <2>2. /\ Answers(engine[c], "speed", r) /\ r.engine.buffering = engine[c].buffering
        /\ r.effects.send \subseteq {m} /\ Listen(c, "speed", r)
    BY <1>1, <1>3, LocalAnswers, ReportsLeaveBuffering DEF SpeedChanged
  <2> HIDE DEF m, r
  <2> QED
    BY <2>1, <2>2, OtherEventAgrees
<1>4. ~CacheChanged(c)
  BY DEF CacheChanged, Listen, AgreementInv, HasData
<1> QED
  BY <1>2, <1>3, <1>4, PauseEventAgrees DEF PlayerEvent

\* A heartbeat is no order.
LEMMA HeartbeatAgrees ==
  ASSUME TypeOK, AgreementInv, NEW c \in Clients, HeartbeatDue(c)
  PROVE  AgreementInv'
<1> DEFINE m == HeartbeatMessage(player[c].paused, player[c].speed, engine[c].buffering)
<1>1. m \in Message /\ ~SetsPause(m) /\ m.type # "peer-joined"
  <2>1. m \in Message
    BY MessagesType DEF TypeOK, Player, Engine
  <2> QED
    BY <2>1 DEF HeartbeatMessage, SetsPause
<1>2. inbox' = Delivered(c, {m}) /\ UNCHANGED <<connected, player, events, engine>>
  BY DEF HeartbeatDue
<1> HIDE DEF m
<1>3. ASSUME NEW d \in Clients
      PROVE  /\ Orders(inbox'[d]) <=> Orders(inbox[d])
             /\ \A paused : AllSay(inbox'[d], paused) <=> AllSay(inbox[d], paused)
             /\ Joined(inbox'[d]) <=> Joined(inbox[d])
  <2>1. inbox'[d] = inbox[d] \/ inbox'[d] = Append(inbox[d], m)
    BY <1>2, DeliveredOne
  <2>2. inbox[d] \in Seq(Message)
    BY DEF TypeOK
  <2>3. CASE inbox'[d] = Append(inbox[d], m)
    BY <1>1, <2>2, <2>3, OrdersAppended
  <2> QED
    BY <2>1, <2>3
<1>4. Host \in Clients
  BY DEF Clients
<1>5. Untouched
  BY <1>2, <1>3, <1>4 DEF Untouched
<1> QED
  BY <1>5, UntouchedAgrees

LEMMA SnapshotSays ==
  ASSUME TypeOK
  PROVE  /\ SetsPause(Snapshot) /\ Says(Snapshot) = player[Host].paused
         /\ Snapshot.type # "peer-joined"
<1>1. player[Host].paused \in BOOLEAN
  BY DEF TypeOK, Player, Clients
<1> QED
  BY <1>1 DEF Snapshot, StateMessage, OfType, SetsPause, Says

\* The host tells whoever has joined.
LEMMA PeerJoinedAgrees ==
  ASSUME TypeOK, AgreementInv, NEW c \in Clients, PeerJoined(c)
  PROVE  AgreementInv'
<1>1. /\ c \in connected /\ inbox[c] # <<>> /\ Head(inbox[c]).type = "peer-joined"
      /\ inbox' = [Delivered(c, IF c = Host THEN {Snapshot} ELSE {}) EXCEPT ![c] = Tail(inbox[c])]
      /\ UNCHANGED <<connected, player, events, engine>>
  BY PeerType DEF PeerJoined, Delivered, TypeOK
<1>2. \A d \in Clients : inbox[d] \in Seq(Message)
  BY DEF TypeOK
<1>3. Host \in Clients /\ Guest \in Clients /\ Peer(Host) = Guest /\ Peer(Guest) = Host
      /\ Clients = {Host, Guest} /\ Host # Guest
  BY ClientsAssumption DEF Clients, Peer
<1>4. ~SetsPause(Head(inbox[c]))
  BY <1>1 DEF SetsPause
<1>5. CASE c = Guest
  <2>1. \A d \in Clients : inbox'[d] = IF d = c THEN Tail(inbox[c]) ELSE inbox[d]
    <3>1. Delivered(c, IF c = Host THEN {Snapshot} ELSE {}) = inbox
      BY <1>3, <1>5, DeliveredOne
    <3> QED
      BY <1>1, <3>1 DEF TypeOK
  <2>2. ASSUME NEW d \in Clients
        PROVE  /\ Orders(inbox'[d]) <=> Orders(inbox[d])
               /\ \A paused : AllSay(inbox'[d], paused) <=> AllSay(inbox[d], paused)
    <3>1. CASE d = c
      <4>1. inbox'[d] = Tail(inbox[d]) /\ inbox[d] \in Seq(Message) /\ inbox[d] # <<>>
        BY <1>1, <1>2, <2>1, <3>1
      <4> QED
        BY <1>4, <3>1, <4>1, OrdersAtHead
    <3>2. CASE d # c
      BY <2>1, <3>2
    <3> QED
      BY <3>1, <3>2
  <2>3. Joined(inbox'[Host]) <=> Joined(inbox[Host])
    BY <1>3, <1>5, <2>1
  <2>4. Untouched
    BY <1>1, <2>2, <2>3 DEF Untouched
  <2> QED
    BY <2>4, UntouchedAgrees
<1>6. CASE c = Host
  <2>1. HasData'
    BY <1>1 DEF AgreementInv, HasData
  <2>2. Joined(inbox[Host])
    BY <1>1, <1>2, <1>6, OrdersAtHead
  <2>3. ASSUME connected = Clients, NEW x \in Clients, Follows(x) PROVE Follows(Guest)'
    <3>1. x = Guest
      BY <1>3, <2>2, <2>3 DEF Follows
    <3>2. /\ inbox'[Guest] = Append(inbox[Guest], Snapshot)
          /\ inbox'[Host] = Tail(inbox[Host])
      <4>1. Delivered(c, {Snapshot}) = [inbox EXCEPT ![Guest] = Append(@, Snapshot)]
        BY <1>3, <1>6, <2>3 DEF Delivered
      <4> QED
        BY <1>1, <1>3, <1>6, <4>1 DEF TypeOK
    <3>3. /\ Orders(inbox'[Guest])
          /\ AllSay(inbox'[Guest], player[Host].paused)
      BY <1>2, <1>3, <2>3, <3>1, <3>2, SnapshotType, SnapshotSays, OrdersAppended DEF Follows
    <3>4. ~Orders(inbox'[Host])
      BY <1>1, <1>2, <1>3, <1>6, <2>3, <3>1, <3>2, OrdersAtHead DEF Follows
    <3>5. ASSUME NEW d \in Clients PROVE Foreseen(d)'
      BY <1>1, <2>3 DEF Follows, Foreseen
    <3> QED
      BY <1>1, <1>3, <3>3, <3>4, <3>5 DEF Follows, Peer
  <2>4. \A x \in Clients : ~Toggled(x)
    BY <2>2 DEF Toggled
  <2> QED
    BY <1>1, <1>3, <2>1, <2>3, <2>4 DEF AgreementInv
<1> QED
  BY <1>3, <1>5, <1>6

\* Whoever comes second makes the host send its state.
LEMMA ConnectAgrees ==
  ASSUME TypeOK, AgreementInv, Quiet, NEW c \in Clients, Connect(c)
  PROVE  AgreementInv'
<1>1. connected' = connected \cup {c} /\ UNCHANGED <<player, events>>
  BY DEF Connect
<1>2. Host \in Clients /\ Guest \in Clients /\ Peer(Host) = Guest /\ Peer(Guest) = Host
      /\ Clients = {Host, Guest} /\ Host # Guest
  BY ClientsAssumption DEF Clients, Peer
<1>3. HasData'
  <2>1. \A d \in Clients : engine'[d] = NewEngine \/ engine'[d] = engine[d]
    BY DEF Connect, TypeOK
  <2> QED
    BY <1>1, <2>1 DEF AgreementInv, HasData, NewEngine
<1>4. ASSUME connected' = Clients PROVE Follows(Guest)'
  <2> DEFINE j == OfType("peer-joined")
  <2>1. Peer(c) \in connected
    BY <1>1, <1>2, <1>4
  <2>2. \A d \in Clients : /\ inbox[d] \in Seq(Message) /\ ~Orders(inbox[d]) /\ ~Joined(inbox[d])
                           /\ \A paused : AllSay(inbox[d], paused)
    BY NothingOrdered DEF Quiet, TypeOK
  <2>3. j \in Message /\ ~SetsPause(j) /\ j.type = "peer-joined"
    <3>1. j \in Message
      BY MessagesType
    <3> QED
      BY <3>1 DEF OfType, SetsPause
  <2> HIDE DEF j
  <2>4. \A d \in Clients : Foreseen(d)'
    BY <1>1 DEF Quiet, AllReported, Foreseen
  <2>5. inbox' = [inbox EXCEPT ![Peer(c)] =
                     Append(@, j) \o IF c = Host THEN <<Snapshot>> ELSE <<>>]
    BY <2>1 DEF Connect, j
  <2>6. CASE c = Guest
    <3>1. inbox'[Guest] = inbox[Guest] /\ inbox'[Host] = Append(inbox[Host], j)
      <4>1. inbox'[Guest] = inbox[Guest] /\ inbox'[Host] = Append(inbox[Host], j) \o <<>>
        BY <1>2, <2>5, <2>6 DEF TypeOK
      <4>2. Append(inbox[Host], j) \in Seq(Message)
        BY <1>2, <2>2, <2>3
      <4> QED
        BY <4>1, <4>2, ConcatEmptySeq
    <3>2. ~Orders(inbox'[Host]) /\ Joined(inbox'[Host])
      BY <1>2, <2>2, <2>3, <3>1, OrdersAppended
    <3> QED
      BY <1>1, <1>2, <2>2, <2>4, <3>1, <3>2 DEF Follows, Peer
  <2>7. CASE c = Host
    <3> DEFINE q == Append(inbox[Guest], j)
    <3>1. inbox'[Host] = inbox[Host] /\ inbox'[Guest] = q \o <<Snapshot>>
      BY <1>2, <2>5, <2>7 DEF TypeOK
    <3>2. q \in Seq(Message) /\ AllSay(q, player[Host].paused)
      BY <1>2, <2>2, <2>3, OrdersAppended
    <3> HIDE DEF q
    <3>3. inbox'[Guest] = Append(q, Snapshot)
      BY <3>1, <3>2, SnapshotType, AppendIsConcat
    <3>4. Orders(inbox'[Guest]) /\ AllSay(inbox'[Guest], player[Host].paused)
      <4>1. Snapshot \in Message
        BY SnapshotType
      <4>2. Orders(Append(q, Snapshot)) /\ AllSay(Append(q, Snapshot), player[Host].paused)
        BY <3>2, <4>1, SnapshotSays, OrdersAppended
      <4> QED
        BY <3>3, <4>2
    <3> QED
      BY <1>1, <1>2, <2>2, <2>4, <3>1, <3>4 DEF Follows, Peer
  <2> QED
    BY <1>2, <2>6, <2>7
<1> QED
  BY <1>2, <1>3, <1>4 DEF AgreementInv

LEMMA AgreementStep ==
  ASSUME TypeOK, AgreementInv, [UnhurriedNext]_vars
  PROVE  AgreementInv'
<1>1. CASE UNCHANGED vars
  <2>1. Untouched
    BY <1>1 DEF vars, Untouched
  <2> QED
    BY <2>1, UntouchedAgrees
<1>2. CASE AllReported /\ Tick
  <2>1. UNCHANGED <<connected, player, events, inbox>>
        /\ \A d \in Clients : events[d] = {} /\ engine'[d] = Aged(engine[d])
    BY <1>2 DEF Tick, AllReported
  <2>2. HasData'
    <3>1. \A d \in Clients : Aged(engine[d]).buffering = engine[d].buffering
      BY DEF Aged, TypeOK, Engine
    <3> QED
      BY <2>1, <3>1 DEF AgreementInv, HasData
  <2>3. ASSUME NEW x \in Clients, Follows(x) PROVE Follows(x)'
    <3>1. \A d \in Clients : Foreseen(d)'
      BY <2>1 DEF Foreseen
    <3> QED
      BY <2>1, <2>3, <3>1 DEF Follows, Peer
  <2>4. \A x \in Clients : ~Toggled(x)
    BY <2>1 DEF Toggled
  <2> QED
    BY <2>1, <2>2, <2>3, <2>4 DEF AgreementInv
<1>3. ASSUME NEW c \in Clients, Disconnect(c) PROVE AgreementInv'
  <2>1. c \notin connected' /\ UNCHANGED <<events, engine>>
    BY <1>3 DEF Disconnect
  <2> QED
    BY <2>1 DEF AgreementInv, HasData
<1> QED
  BY <1>1, <1>2, <1>3, UserActAgrees, EventAgrees, RemoteAgrees, PeerJoinedAgrees,
     HeartbeatAgrees, ConnectAgrees
  DEF UnhurriedNext, ServerMessage

\* If users leave the players time to agree, they do, whoever connects or is lost in
\* between: any two players that are connected, with nothing on its way but
\* heartbeats, both play or are both paused.
THEOREM PlayersAgree == UnhurriedSpec => []AgreeOnPause
<1> DEFINE IInv == TypeOK /\ AgreementInv
<1>1. Init => IInv
  <2>1. Init => connected # Clients
    BY DEF Init, Clients
  <2>2. Init => HasData
    BY DEF Init, HasData, NewEngine
  <2> QED
    BY <2>1, <2>2, TypeInit DEF AgreementInv
<1>2. IInv /\ [UnhurriedNext]_vars => IInv'
  <2>1. [UnhurriedNext]_vars => [Next]_vars
    BY DEF UnhurriedNext, Next
  <2> QED
    BY <2>1, TypeStep, AgreementStep
<1>3. IInv => AgreeOnPause
  <2> SUFFICES ASSUME IInv, Quiet, connected = Clients
               PROVE  player[Host].paused = player[Guest].paused
    BY DEF AgreeOnPause
  <2>1. Host \in Clients /\ Guest \in Clients /\ Peer(Host) = Guest /\ Peer(Guest) = Host
        /\ Clients = {Host, Guest}
    BY ClientsAssumption DEF Clients, Peer
  <2>2. \A d \in Clients : ~Orders(inbox[d]) /\ ~Joined(inbox[d]) /\ events[d] = {}
    BY NothingOrdered DEF Quiet, AllReported
  <2>3. PICK c \in Clients : Toggled(c) \/ Follows(c)
    BY DEF AgreementInv
  <2> QED
    BY <2>1, <2>2, <2>3 DEF Toggled, Follows
<1> HIDE DEF IInv
<1> QED
  BY <1>1, <1>2, <1>3, PTL DEF UnhurriedSpec

=============================================================================
