---------------------------- MODULE DriftEstimate ----------------------------
(***************************************************************************)
(* The guest's estimate of its own position (estimatePosition in           *)
(* shared/src/sync.ts), from which it decides on corrections, while both   *)
(* play: the engine of SyncEngine, whose argument drifted is computed here *)
(* from positions, the guest's player, its heartbeat timer, which sets the *)
(* engine's position, and a host that sends heartbeats and commands.       *)
(*                                                                         *)
(* Positions are relative to that of the guest's player and in ticks of    *)
(* normal play.  A tick is longer than messages and players take, so that  *)
(* time goes on when nothing is pending; until then any order may happen.  *)
(***************************************************************************)
EXTENDS SyncEngine, Integers, Sequences

CONSTANTS
    Host,
    Threshold,   \* driftThresholdMs, in ticks
    Interval,    \* HEARTBEAT_INTERVAL_MS, in ticks
    Jumps,       \* how far a user seeks
    MaxActs,     \* bound: what the users do, and how often data runs out
    MaxStall     \* bound: ticks without data

ASSUME HostAssumption == Host \in Peers
ASSUME DriftAssumption ==
    /\ Speeds \subseteq Nat
    /\ Threshold \in Nat /\ Interval \in Nat \ {0} /\ Jumps \subseteq Nat
    /\ MaxActs \in Nat /\ MaxStall \in Nat
\* Both are 5000 ms.
ASSUME CooldownAssumption == Cooldown <= Interval

VARIABLES
    host,        \* the host's player: speed, buffering
    heard,       \* the host's engine: state.buffering
    player,      \* the guest's player: speed, buffering
    target,      \* where the guest's player has been told to seek: at most one position
    events,      \* what the guest's player has not reported yet
    engine,      \* the guest's engine, but for the next two
    positionMs,  \* state.positionMs
    elapsed,     \* ticks since lastUpdateMs
    gap,         \* position of the host
    inbox,       \* messages on their way to the guest
    beatIn,      \* ticks until the host's next heartbeat
    refreshIn,   \* ticks until the guest's next heartbeat
    steady,      \* history: nothing has happened to the guest's player since a refresh
    apart,       \* history: ticks for which the two have been apart, with data
    acts, stall  \* history: for the bounds

world == <<host, heard, gap, beatIn>>
guest == <<player, target, events>>
estimate == <<positionMs, elapsed>>
bounds == <<apart, acts, stall>>
vars == <<world, guest, engine, estimate, inbox, refreshIn, steady, bounds>>

Play == [speed : Speeds, buffering : BOOLEAN]
Positioned(message, position) == [body |-> message, positionMs |-> position]
Abs(n) == IF n < 0 THEN -n ELSE n

TypeOK ==
    /\ host \in Play /\ player \in Play /\ heard \in BOOLEAN
    /\ target \subseteq Int
    /\ events \subseteq {"seek", "speed", "cache"}
    /\ engine \in Engine
    /\ positionMs \in Int /\ elapsed \in 0..Interval /\ gap \in Int
    /\ inbox \in Seq([body : Message, positionMs : Int])
    /\ beatIn \in 0..Interval /\ refreshIn \in 0..Interval
    /\ steady \in BOOLEAN
    /\ apart \in Nat /\ acts \in 0..MaxActs /\ stall \in 0..MaxStall

\* The guest has just been given the state of a host that plays.
Init ==
    /\ host = [speed |-> NormalSpeed, buffering |-> FALSE]
    /\ player = host /\ heard = FALSE
    /\ target = {} /\ events = {}
    /\ engine = [NewEngine EXCEPT !.paused = FALSE]
    /\ positionMs = 0 /\ elapsed = 0 /\ gap = 0
    /\ inbox = <<>>
    /\ beatIn \in 1..Interval /\ refreshIn = Interval
    /\ steady = TRUE
    /\ apart = 0 /\ acts = 0 /\ stall = 0

----------------------------------------------------------------------------
(* The host and its user *)

Acts == acts < MaxActs /\ acts' = acts + 1 /\ apart' = 0 /\ UNCHANGED stall
NoAct == apart' = 0 /\ UNCHANGED <<acts, stall>>
Sends(message, position) == inbox' = Append(inbox, Positioned(message, position))

HostSetsSpeed(speed) ==
    /\ Acts
    /\ host.speed # speed
    /\ host' = [host EXCEPT !.speed = speed]
    /\ Sends(SpeedMessage(speed), gap)
    /\ UNCHANGED <<heard, gap, beatIn, guest, engine, estimate, refreshIn, steady>>
HostSeeks(jump) ==
    /\ Acts
    /\ gap' = gap + jump
    /\ Sends(OfType("seek"), gap')
    /\ UNCHANGED <<host, heard, beatIn, guest, engine, estimate, refreshIn, steady>>
HostRunsOut ==
    /\ Acts
    /\ ~host.buffering
    /\ host' = [host EXCEPT !.buffering = TRUE]
    /\ UNCHANGED <<heard, gap, beatIn, guest, engine, estimate, inbox, refreshIn, steady>>
HostHasData ==
    /\ host.buffering
    /\ host' = [host EXCEPT !.buffering = FALSE]
    /\ NoAct
    /\ UNCHANGED <<heard, gap, beatIn, guest, engine, estimate, inbox, refreshIn, steady>>

\* The listener on paused-for-cache: the host's engine follows its player.
HostCacheChanged ==
    /\ heard # host.buffering
    /\ heard' = host.buffering
    /\ UNCHANGED <<host, gap, beatIn, guest, engine, estimate, inbox, refreshIn, steady, bounds>>

\* The speed is read from the player, the buffering flag from the engine.
HostHeartbeat ==
    /\ beatIn = 0
    /\ beatIn' = Interval
    /\ Sends(HeartbeatMessage(FALSE, host.speed, heard), gap)
    /\ UNCHANGED <<host, heard, gap, guest, engine, estimate, refreshIn, steady, bounds>>

----------------------------------------------------------------------------
(* The guest's player *)

GuestSetsSpeed(speed) ==
    /\ Acts
    /\ player.speed # speed
    /\ player' = [player EXCEPT !.speed = speed]
    /\ events' = events \cup {"speed"}
    /\ steady' = FALSE
    /\ UNCHANGED <<world, target, engine, estimate, inbox, refreshIn>>
GuestSeeks(jump) ==
    /\ Acts
    /\ target' = {jump}
    /\ events' = events \cup {"seek"}
    /\ steady' = FALSE
    /\ UNCHANGED <<world, player, engine, estimate, inbox, refreshIn>>
GuestRunsOut ==
    /\ Acts
    /\ ~player.buffering
    /\ player' = [player EXCEPT !.buffering = TRUE]
    /\ events' = events \cup {"cache"}
    /\ steady' = FALSE
    /\ UNCHANGED <<world, target, engine, estimate, inbox, refreshIn>>
GuestHasData ==
    /\ player.buffering
    /\ player' = [player EXCEPT !.buffering = FALSE]
    /\ events' = events \cup {"cache"}
    /\ steady' = FALSE
    /\ NoAct
    /\ UNCHANGED <<world, target, engine, estimate, inbox, refreshIn>>

\* The guest is elsewhere, and so all else is elsewhere relative to it.
SeekLands ==
    /\ target # {}
    /\ \E jump \in target :
           /\ gap' = gap - jump
           /\ positionMs' = positionMs - jump
           /\ inbox' = [i \in DOMAIN inbox |-> [inbox[i] EXCEPT !.positionMs = @ - jump]]
    /\ target' = {}
    /\ UNCHANGED <<host, heard, beatIn, player, events, engine, elapsed, refreshIn, steady, bounds>>

----------------------------------------------------------------------------
(* The guest's engine *)

\* updatePosition
\* (Bug operators are mutants of the definition that follows.)
\* Bug: the time of the update is not kept.
BugUpdatePosition(position) == positionMs' = position /\ UNCHANGED elapsed
UpdatePosition(position) == positionMs' = position /\ elapsed' = 0

\* estimatePosition
EstimatedPosition(e) ==
    IF e.paused \/ e.buffering THEN positionMs ELSE positionMs + elapsed * e.speed

\* executeEffects, of the effects on the player.
Drive(effects, position) ==
    LET speed == IF effects.setSpeed = {} THEN player.speed
                 ELSE CHOOSE s \in effects.setSpeed : TRUE
        changes == {"speed" : s \in {speed} \ {player.speed}}
                       \cup {"seek" : s \in {effects.seek} \cap {TRUE}}
    IN  /\ player' = [player EXCEPT !.speed = speed]
        /\ target' = IF effects.seek THEN {position} ELSE target
        /\ events' = events \cup changes

\* A listener: what a user did is sent, and the host obeys at once.
Listen(type, result) ==
    /\ type \in events
    /\ events' = events \ {type}
    /\ engine' = result.engine
    /\ UNCHANGED <<heard, beatIn, player, target, inbox, refreshIn, steady, bounds>>

SpeedChanged ==
    LET result == OnLocalSpeed(engine, player.speed)
    IN  /\ Listen("speed", result)
        /\ host' = [host EXCEPT !.speed = IF result.effects.send = {} THEN @ ELSE player.speed]
        /\ UNCHANGED <<gap, estimate>>
SeekReported ==
    LET result == OnLocalSeek(engine)
    IN  /\ Listen("seek", result)
        /\ UpdatePosition(0)
        /\ gap' = IF result.effects.send = {} THEN gap ELSE 0
        /\ UNCHANGED host
CacheChanged ==
    /\ Listen("cache", OnLocalBuffering(engine, player.buffering))
    /\ UNCHANGED <<host, gap, estimate>>

Receive(type) ==
    /\ inbox # <<>> /\ Head(inbox).body.type = type
    /\ inbox' = Tail(inbox)
    /\ UNCHANGED <<world, refreshIn, bounds>>

ReceiveSpeed ==
    LET result == OnRemoteSpeed(engine, Head(inbox).body.speed)
    IN  /\ Receive("speed")
        /\ engine' = result.engine
        /\ Drive(result.effects, 0)
        /\ steady' = FALSE
        /\ UNCHANGED estimate
ReceiveSeek ==
    LET result == OnRemoteSeek(engine)
        position == Head(inbox).positionMs
    IN  /\ Receive("seek")
        /\ engine' = result.engine
        /\ UpdatePosition(position)
        /\ Drive(result.effects, position)
        /\ steady' = FALSE

\* The estimate is made with the speed that the heartbeat has just corrected.
\* Bug: a guest that is ahead does not correct.
BugHeartbeatResult ==
    LET m == Head(inbox)
        followed == SpeedCorrected(engine, m.body).engine
    IN  OnRemoteHeartbeat(engine, TRUE, Host, m.body,
            m.positionMs - EstimatedPosition(followed) > Threshold)
HeartbeatResult ==
    LET m == Head(inbox)
        followed == SpeedCorrected(engine, m.body).engine
    IN  OnRemoteHeartbeat(engine, TRUE, Host, m.body,
            Abs(EstimatedPosition(followed) - m.positionMs) > Threshold)

ReceiveHeartbeat ==
    LET result == HeartbeatResult
        position == Head(inbox).positionMs
    IN  /\ Receive("heartbeat")
        /\ engine' = result.engine
        /\ IF result.effects.seek THEN UpdatePosition(position) ELSE UNCHANGED estimate
        /\ Drive(result.effects, position)
        /\ steady' = (steady /\ result.effects = NoEffects)

\* The heartbeat timer: "Refresh engine position from the actual player".
\* Bug: it does not.
BugRefresh ==
    /\ refreshIn = 0
    /\ refreshIn' = Interval
    /\ elapsed' = 0
    /\ steady' = (target = {} /\ events = {})
    /\ UNCHANGED <<world, guest, engine, positionMs, inbox, bounds>>
Refresh ==
    /\ refreshIn = 0
    /\ refreshIn' = Interval
    /\ UpdatePosition(0)
    /\ steady' = (target = {} /\ events = {})
    /\ UNCHANGED <<world, guest, engine, inbox, bounds>>

----------------------------------------------------------------------------
Rate(p) == IF p.buffering THEN 0 ELSE p.speed
Playing == ~host.buffering /\ ~player.buffering

\* Bound: data is missing for at most MaxStall ticks.
Tick ==
    /\ inbox = <<>> /\ events = {} /\ target = {} /\ heard = host.buffering
    /\ beatIn > 0 /\ refreshIn > 0
    /\ Playing \/ stall < MaxStall
    /\ stall' = IF Playing THEN stall ELSE stall + 1
    /\ gap' = gap + Rate(host) - Rate(player)
    /\ positionMs' = positionMs - Rate(player)
    /\ elapsed' = elapsed + 1
    /\ beatIn' = beatIn - 1 /\ refreshIn' = refreshIn - 1
    /\ engine' = Aged(engine)
    /\ apart' = IF Playing /\ Abs(gap) > Threshold THEN apart + 1 ELSE 0
    /\ UNCHANGED <<host, heard, guest, inbox, steady, acts>>

HostActs ==
    \/ (\E speed \in Speeds : HostSetsSpeed(speed)) \/ (\E jump \in Jumps : HostSeeks(jump) \/ HostSeeks(-jump))
    \/ HostRunsOut \/ HostHasData
GuestActs ==
    \/ (\E speed \in Speeds : GuestSetsSpeed(speed)) \/ (\E jump \in Jumps : GuestSeeks(jump) \/ GuestSeeks(-jump))
    \/ GuestRunsOut \/ GuestHasData
Reports == SpeedChanged \/ SeekReported \/ CacheChanged
Received == ReceiveSpeed \/ ReceiveSeek \/ ReceiveHeartbeat

Next ==
    \/ HostActs \/ HostCacheChanged \/ HostHeartbeat
    \/ GuestActs \/ SeekLands
    \/ Reports \/ Received \/ Refresh
    \/ Tick

Spec == Init /\ [][Next]_vars

\* Time goes on, what is pending happens, and data comes.
Fairness ==
    /\ WF_vars(Tick) /\ WF_vars(HostCacheChanged) /\ WF_vars(HostHeartbeat) /\ WF_vars(Refresh)
    /\ WF_vars(Received) /\ WF_vars(SeekLands)
    /\ WF_vars(SpeedChanged) /\ WF_vars(SeekReported) /\ WF_vars(CacheChanged)
    /\ WF_vars(HostHasData) /\ WF_vars(GuestHasData)
FairSpec == Spec /\ Fairness

----------------------------------------------------------------------------
(* Properties *)

Corrects == ReceiveHeartbeat /\ HeartbeatResult.effects.seek

\* The guest is made to jump only when it is away from the host, unless something
\* has happened to its player that the estimate does not follow.
NoNeedlessCorrection ==
    [][Corrects => \/ Abs(Head(inbox).positionMs) > Threshold
                   \/ ~steady \/ HeartbeatResult.effects.setSpeed # {}]_vars

\* The two are not apart for long.
DriftIsShort == apart <= 2 * Interval

\* Once the users do no more, corrections end, and the two are together.
SettledTogether == <>[](engine.cooldown = 0 /\ Abs(gap) <= Threshold)

=============================================================================
