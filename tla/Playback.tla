------------------------------ MODULE Playback ------------------------------
(***************************************************************************)
(* Two players that watch together: the player event listeners, the        *)
(* heartbeat timer and the message handlers of plugin/src/main.ts around a *)
(* SyncEngine in each client, over a relay that may drop connections.      *)
(*                                                                         *)
(* The player (mpv) reports what happens to it later: an event is pending  *)
(* until its listener runs, which reads the player's state at that time.   *)
(* Changes that have not been reported yet are reported together.          *)
(*                                                                         *)
(* A message is on its way until it is received, in order.  Between two    *)
(* clients the queues to and from the relay are one queue.                 *)
(***************************************************************************)
EXTENDS SyncEngine, Sequences

CONSTANTS
    Host, Guest,
    MaxActs,   \* bound: what the users do to their players
    MaxDrops   \* bound: connections that end

Clients == {Host, Guest}

ASSUME ClientsAssumption == Host # Guest /\ Peers = Clients
ASSUME BoundsAssumption == MaxActs \in Nat /\ MaxDrops \in Nat

VARIABLES
    connected,  \* the clients in state "connected"
    player,     \* of each client: core.status and the flag paused-for-cache
    events,     \* pending player events
    engine,     \* syncEngine of each client
    inbox,      \* messages on their way to each client
    byUser,     \* history: pending events that the user has a part in
    acts, drops \* history: for the bounds

vars == <<connected, player, events, engine, inbox, byUser, acts, drops>>

EventTypes == {"pause", "seek", "speed", "cache"}
Player == [paused : BOOLEAN, speed : Speeds, buffering : BOOLEAN]

Peer(c) == IF c = Host THEN Guest ELSE Host

TypeOK ==
    /\ connected \subseteq Clients
    /\ player \in [Clients -> Player]
    /\ events \in [Clients -> SUBSET EventTypes]
    /\ engine \in [Clients -> Engine]
    /\ inbox \in [Clients -> Seq(Message)]
    /\ byUser \in [Clients -> SUBSET EventTypes]
    /\ acts \in 0..MaxActs
    /\ drops \in 0..MaxDrops

\* A video has been opened and is paused; nobody is in the room yet.
Init ==
    /\ connected = {}
    /\ player = [c \in Clients |->
                    [paused |-> TRUE, speed |-> NormalSpeed, buffering |-> FALSE]]
    /\ events = [c \in Clients |-> {}]
    /\ engine = [c \in Clients |-> NewEngine]
    /\ inbox = [c \in Clients |-> <<>>]
    /\ byUser = [c \in Clients |-> {}]
    /\ acts = 0
    /\ drops = 0

----------------------------------------------------------------------------
(* The player and its user *)

Pending(c, types) == events' = [events EXCEPT ![c] = @ \cup types]

UserActs(c, type) ==
    /\ acts < MaxActs
    /\ acts' = acts + 1
    /\ Pending(c, {type})
    /\ byUser' = [byUser EXCEPT ![c] = @ \cup {type}]
    /\ UNCHANGED <<connected, engine, inbox, drops>>

UserTogglesPause(c) ==
    /\ player' = [player EXCEPT ![c].paused = ~@]
    /\ UserActs(c, "pause")
UserSeeks(c) ==
    /\ UNCHANGED player
    /\ UserActs(c, "seek")
UserSetsSpeed(c, speed) ==
    /\ player[c].speed # speed
    /\ player' = [player EXCEPT ![c].speed = speed]
    /\ UserActs(c, "speed")

\* The player runs out of data, or has data again: paused-for-cache.
CacheChanges(c) ==
    /\ player' = [player EXCEPT ![c].buffering = ~@]
    /\ Pending(c, {"cache"})
    /\ UNCHANGED <<connected, engine, inbox, byUser, acts, drops>>

----------------------------------------------------------------------------
(* Executing effects *)

\* Messages to a client that is not connected go nowhere.
Delivered(c, messages) ==
    IF Peer(c) \in connected /\ messages # {}
    THEN [inbox EXCEPT ![Peer(c)] = Append(@, CHOOSE m \in messages : TRUE)]
    ELSE inbox

Value(old, new) == IF new = {} THEN old ELSE CHOOSE v \in new : TRUE

\* executeEffects at c, of what its player and engine become.
ChangedBy(c, effects) ==
    {type \in {"pause", "seek", "speed"} :
        CASE type = "pause" -> Value(player[c].paused, effects.setPaused) # player[c].paused
          [] type = "speed" -> Value(player[c].speed, effects.setSpeed) # player[c].speed
          [] OTHER -> effects.seek}

Drive(c, result) ==
    /\ engine' = [engine EXCEPT ![c] = result.engine]
    /\ player' = [player EXCEPT
                     ![c].paused = Value(@, result.effects.setPaused),
                     ![c].speed = Value(@, result.effects.setSpeed)]
    /\ Pending(c, ChangedBy(c, result.effects))

----------------------------------------------------------------------------
(* Player event listeners *)

\* The listener for an event does nothing unless connected.
Listen(c, type, result) ==
    /\ type \in events[c]
    /\ events' = [events EXCEPT ![c] = @ \ {type}]
    /\ byUser' = [byUser EXCEPT ![c] = @ \ {type}]
    /\ IF c \in connected
       THEN /\ engine' = [engine EXCEPT ![c] = result.engine]
            /\ inbox' = Delivered(c, result.effects.send)
       ELSE UNCHANGED <<engine, inbox>>
    /\ UNCHANGED <<connected, player, acts, drops>>

PauseChanged(c) ==
    Listen(c, "pause", IF player[c].paused THEN OnLocalPause(engine[c])
                       ELSE OnLocalPlay(engine[c]))
SeekDone(c) == Listen(c, "seek", OnLocalSeek(engine[c]))
SpeedChanged(c) == Listen(c, "speed", OnLocalSpeed(engine[c], player[c].speed))
CacheChanged(c) == Listen(c, "cache", OnLocalBuffering(engine[c], player[c].buffering))

PlayerEvent(c) == PauseChanged(c) \/ SeekDone(c) \/ SpeedChanged(c) \/ CacheChanged(c)

----------------------------------------------------------------------------
(* Messages *)

Receive(c, type) ==
    /\ c \in connected
    /\ inbox[c] # <<>>
    /\ Head(inbox[c]).type = type
    /\ inbox' = [inbox EXCEPT ![c] = Tail(@)]
    /\ UNCHANGED <<connected, byUser, acts, drops>>

\* onRemotePlayback
RemoteCommand(c) ==
    LET e == engine[c]
        m == Head(inbox[c])
    IN  \/ Receive(c, "play") /\ Drive(c, OnRemotePlay(e))
        \/ Receive(c, "pause") /\ Drive(c, OnRemotePause(e))
        \/ Receive(c, "seek") /\ Drive(c, OnRemoteSeek(e))
        \/ Receive(c, "speed") /\ Drive(c, OnRemoteSpeed(e, m.speed))
        \/ Receive(c, "state") /\ Drive(c, OnRemoteState(e, m.paused, m.speed))
RemoteHeartbeat(c) ==
    /\ Receive(c, "heartbeat")
    /\ \E drifted \in BOOLEAN :
           Drive(c, OnRemoteHeartbeat(engine[c], c = Guest, Peer(c), Head(inbox[c]), drifted))

\* sendStateSnapshot
Snapshot == StateMessage(player[Host].paused, player[Host].speed)

\* onPresence: a host sends its state to whoever has joined.  Bug: it does not.
BugPeerJoined(c) ==
    /\ Receive(c, "peer-joined")
    /\ UNCHANGED <<player, events, engine>>
PeerJoined(c) ==
    /\ c \in connected
    /\ inbox[c] # <<>>
    /\ Head(inbox[c]).type = "peer-joined"
    /\ inbox' = [Delivered(c, IF c = Host THEN {Snapshot} ELSE {})
                     EXCEPT ![c] = Tail(@)]
    /\ UNCHANGED <<connected, player, events, engine, byUser, acts, drops>>

\* The heartbeat timer.  Bound: one heartbeat on its way.
HeartbeatDue(c) ==
    /\ Clients \subseteq connected
    /\ \A i \in DOMAIN inbox[Peer(c)] : inbox[Peer(c)][i].type # "heartbeat"
    /\ inbox' = Delivered(c, {HeartbeatMessage(player[c].paused, player[c].speed,
                                               engine[c].buffering)})
    /\ UNCHANGED <<connected, player, events, engine, byUser, acts, drops>>

----------------------------------------------------------------------------
(* Connections *)

\* onAuthOk: a new engine.  The server announces c to the peer; a host that
\* finds somebody in the room sends its state.
Connect(c) ==
    /\ c \notin connected
    /\ connected' = connected \cup {c}
    /\ engine' = [engine EXCEPT ![c] = NewEngine]
    /\ inbox' = IF Peer(c) \notin connected THEN inbox
                ELSE [inbox EXCEPT ![Peer(c)] =
                         Append(@, OfType("peer-joined"))
                             \o IF c = Host THEN <<Snapshot>> ELSE <<>>]
    /\ UNCHANGED <<player, events, byUser, acts, drops>>

\* The connection is lost, or left: what was on its way to c is lost with it.
Disconnect(c) ==
    /\ c \in connected
    /\ drops < MaxDrops
    /\ drops' = drops + 1
    /\ connected' = connected \ {c}
    /\ inbox' = [inbox EXCEPT ![c] = <<>>]
    /\ UNCHANGED <<player, events, engine, byUser, acts>>

Tick ==
    /\ engine' = [c \in Clients |-> Aged(engine[c])]
    /\ UNCHANGED <<connected, player, events, inbox, byUser, acts, drops>>

UserAct(c) == UserTogglesPause(c) \/ UserSeeks(c) \/ \E v \in Speeds : UserSetsSpeed(c, v)
ServerMessage(c) == RemoteCommand(c) \/ RemoteHeartbeat(c) \/ PeerJoined(c)

Next ==
    \/ Tick
    \/ \E c \in Clients :
           \/ UserAct(c) \/ CacheChanges(c)
           \/ PlayerEvent(c) \/ ServerMessage(c) \/ HeartbeatDue(c)
           \/ Connect(c) \/ Disconnect(c)

Spec == Init /\ [][Next]_vars

----------------------------------------------------------------------------
(* Environments *)

\* No message but heartbeats is on its way to c.
NothingFor(c) == \A i \in DOMAIN inbox[c] : inbox[c][i].type = "heartbeat"
AllReported == \A c \in Clients : events[c] = {}
Quiet == AllReported /\ \A c \in Clients : NothingFor(c)

\* Players report within the suppression window, and a connection that was
\* lost comes back later than that (WS_BASE_DELAY is longer).
PromptNext ==
    \/ AllReported /\ Tick
    \/ \E c \in Clients :
           \/ UserAct(c) \/ CacheChanges(c)
           \/ PlayerEvent(c) \/ ServerMessage(c) \/ HeartbeatDue(c)
           \/ events[c] = {} /\ Connect(c)
           \/ Disconnect(c)
PromptSpec == Init /\ [][PromptNext]_vars

\* Users act, and clients connect, when nothing else is going on and the last
\* suppression has expired; players do not run out of data.
NoSuppressions == \A c \in Clients, k \in Kinds : Live(engine[c], k) = {}
UnhurriedNext ==
    \/ AllReported /\ Tick
    \/ \E c \in Clients :
           \/ Quiet /\ NoSuppressions /\ UserAct(c)
           \/ PlayerEvent(c) \/ ServerMessage(c) \/ HeartbeatDue(c)
           \/ Quiet /\ NoSuppressions /\ Connect(c)
           \/ Disconnect(c)
UnhurriedSpec == Init /\ [][UnhurriedNext]_vars

\* What is pending happens.  (The user need not act, data need not run out,
\* and connections need not end or come back.)
Fairness ==
    /\ WF_vars(Tick)
    /\ \A c \in Clients : /\ WF_vars(PauseChanged(c))
                          /\ WF_vars(SeekDone(c))
                          /\ WF_vars(SpeedChanged(c))
                          /\ WF_vars(CacheChanged(c))
                          /\ WF_vars(ServerMessage(c))
HeartbeatFairness == \A c \in Clients : WF_vars(HeartbeatDue(c))

----------------------------------------------------------------------------
(* Properties *)

\* Only what a user did is sent: whatever a remote command makes a player
\* report is not sent back.
SentByUser ==
    \A c \in Clients : \A type \in events[c] \ events'[c] :
        inbox'[Peer(c)] # inbox[Peer(c)] => type \in byUser[c]
NoEcho == [][SentByUser]_vars

\* When everything has been received, both players play or both are paused.
AgreeOnPause ==
    Quiet /\ connected = Clients => player[Host].paused = player[Guest].paused

\* The speed of the host prevails in the end, whatever commands crossed.
SpeedsConverge ==
    <>[](connected = Clients => player[Host].speed = player[Guest].speed)

\* Feedback dies out: once the users stop there are no more commands.
CommandsEnd == <>[](\A c \in Clients : NothingFor(c))

=============================================================================
