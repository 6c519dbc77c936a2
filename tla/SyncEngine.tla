----------------------------- MODULE SyncEngine -----------------------------
(***************************************************************************)
(* SyncEngine (shared/src/sync.ts): a pure state machine.  Each action it  *)
(* is fed yields the engine that results and the effects that its caller   *)
(* (plugin/src/main.ts) executes.                                          *)
(*                                                                         *)
(* Positions are abstracted.  Whether the position of a heartbeat is       *)
(* farther from the estimate than the threshold is an argument, drifted.   *)
(*                                                                         *)
(* state.seeking is always false: main.ts never feeds local-seeking.       *)
(***************************************************************************)
EXTENDS Naturals

CONSTANTS
    Peers,        \* the participant ids a heartbeat can come from
    Speeds,       \* playback speeds
    NormalSpeed,  \* the speed of a new engine
    Window,       \* suppressionWindowMs, in ticks
    Cooldown      \* correctionCooldownMs, in ticks

ASSUME SpeedsAssumption == NormalSpeed \in Speeds
ASSUME TimesAssumption == Window \in Nat \ {0} /\ Cooldown \in Nat \ {0}

Kinds == {"play", "pause", "seek", "speed"}  \* SuppressibleAction

\* suppressions[k][t]: how many entries for k have t ticks left.
\* cooldown: ticks until the next drift correction is allowed.
Engine == [paused : BOOLEAN, speed : Speeds, buffering : BOOLEAN,
           suppressions : [Kinds -> [1..Window -> Nat]],
           cooldown : 0..Cooldown, bufferingPeers : SUBSET Peers]

\* (Bug operators are mutants of the definition that follows: the properties
\* are checked to notice them.  This one starts with a speed of zero.)
BugNewEngine == [paused |-> TRUE, speed |-> 0, buffering |-> FALSE,
                 suppressions |-> [k \in Kinds |-> [t \in 1..Window |-> 0]],
                 cooldown |-> 0, bufferingPeers |-> {}]
NewEngine == [paused |-> TRUE, speed |-> NormalSpeed, buffering |-> FALSE,
              suppressions |-> [k \in Kinds |-> [t \in 1..Window |-> 0]],
              cooldown |-> 0, bufferingPeers |-> {}]

----------------------------------------------------------------------------
(* Messages between players, without their positions; a field that a type  *)
(* does not have is at its default.  "peer-joined" stands for the presence *)
(* events that make a host send its state.                                 *)

Message == [type : Kinds \cup {"state", "heartbeat", "peer-joined"},
            paused : BOOLEAN, speed : Speeds, buffering : BOOLEAN]
OfType(type) == [type |-> type, paused |-> FALSE, speed |-> NormalSpeed,
                 buffering |-> FALSE]
SpeedMessage(speed) == [OfType("speed") EXCEPT !.speed = speed]
StateMessage(paused, speed) ==
    [OfType("state") EXCEPT !.paused = paused, !.speed = speed]
HeartbeatMessage(paused, speed, buffering) ==
    [type |-> "heartbeat", paused |-> paused, speed |-> speed, buffering |-> buffering]

\* Effects: at most one value for the player's pause and speed, whether it is
\* made to seek, and at most one message to send.
Effects == [setPaused : SUBSET BOOLEAN, setSpeed : SUBSET Speeds,
            seek : BOOLEAN, send : SUBSET Message]
NoEffects == [setPaused |-> {}, setSpeed |-> {}, seek |-> FALSE, send |-> {}]
Result(e, effects) == [engine |-> e, effects |-> effects]

----------------------------------------------------------------------------
(* Suppressions.  Time is relative, so that pruneSuppressions is Aged.     *)

\* addSuppression
Suppress(e, k) == [e EXCEPT !.suppressions[k][Window] = @ + 1]

Live(e, k) == {t \in 1..Window : e.suppressions[k][t] > 0}

\* consumeSuppression takes the first entry of the list, which is the oldest.
Oldest(e, k) == CHOOSE t \in Live(e, k) : \A u \in Live(e, k) : t <= u
Consume(e, k) == [e EXCEPT !.suppressions[k][Oldest(e, k)] = @ - 1]

\* A tick later.
Aged(e) ==
    [e EXCEPT !.suppressions =
                  [k \in Kinds |-> [t \in 1..Window |->
                      IF t = Window THEN 0 ELSE e.suppressions[k][t + 1]]],
              !.cooldown = IF @ > 0 THEN @ - 1 ELSE 0]

----------------------------------------------------------------------------
(* Local events *)

\* The event is what a remote command made the player do, or it is sent.
Reported(e, k, message) ==
    IF Live(e, k) # {} THEN Result(Consume(e, k), NoEffects)
    ELSE Result(e, [NoEffects EXCEPT !.send = message])

OnLocalPlay(e) ==
    Reported([e EXCEPT !.paused = FALSE], "play",
             IF e.buffering THEN {} ELSE {OfType("play")})
OnLocalPause(e) ==
    Reported([e EXCEPT !.paused = TRUE], "pause",
             IF e.buffering THEN {} ELSE {OfType("pause")})
OnLocalSeek(e) == Reported(e, "seek", {OfType("seek")})
OnLocalSpeed(e, speed) ==
    Reported([e EXCEPT !.speed = speed], "speed", {SpeedMessage(speed)})
OnLocalBuffering(e, buffering) ==
    Result([e EXCEPT !.buffering = buffering], NoEffects)

----------------------------------------------------------------------------
(* Remote commands *)

\* Bugs: the seek of a command, or of a play command, is not expected.
BugOnRemotePlay(e) ==
    Result(Suppress([e EXCEPT !.paused = FALSE], "play"),
           [NoEffects EXCEPT !.setPaused = {FALSE}, !.seek = TRUE])
OnRemotePlay(e) ==
    Result(Suppress(Suppress([e EXCEPT !.paused = FALSE], "play"), "seek"),
           [NoEffects EXCEPT !.setPaused = {FALSE}, !.seek = TRUE])
OnRemotePause(e) ==
    Result(Suppress(Suppress([e EXCEPT !.paused = TRUE], "pause"), "seek"),
           [NoEffects EXCEPT !.setPaused = {TRUE}, !.seek = TRUE])
BugOnRemoteSeek(e) == Result(e, [NoEffects EXCEPT !.seek = TRUE])
OnRemoteSeek(e) ==
    Result(Suppress(e, "seek"), [NoEffects EXCEPT !.seek = TRUE])
OnRemoteSpeed(e, speed) ==
    Result(Suppress([e EXCEPT !.speed = speed], "speed"),
           [NoEffects EXCEPT !.setSpeed = {speed}])

\* main.ts passes no buffering, so that the engine takes it to be over.
OnRemoteState(e, paused, speed) ==
    Result(Suppress(Suppress(Suppress(
               [e EXCEPT !.paused = paused, !.speed = speed, !.buffering = FALSE],
               "seek"), IF paused THEN "pause" ELSE "play"), "speed"),
           [NoEffects EXCEPT !.setPaused = {paused}, !.setSpeed = {speed},
                             !.seek = TRUE])

----------------------------------------------------------------------------
(* Heartbeats *)

\* Every role keeps track of who is buffering.
Tracked(e, from, m) ==
    [e EXCEPT !.bufferingPeers = IF m.buffering THEN @ \cup {from} ELSE @ \ {from}]

\* A guest follows the speed of a host ...
SpeedCorrected(e, m) ==
    IF e.speed = m.speed THEN Result(e, NoEffects)
    ELSE Result(Suppress([e EXCEPT !.speed = m.speed], "speed"),
                [NoEffects EXCEPT !.setSpeed = {m.speed}])

\* ... and its position, when both play and the last correction is long past.
MayCorrect(e, m) ==
    /\ ~e.paused /\ ~e.buffering
    /\ ~m.paused /\ ~m.buffering
    /\ e.cooldown = 0
Corrected(r) ==
    Result(Suppress([r.engine EXCEPT !.cooldown = Cooldown], "seek"),
           [r.effects EXCEPT !.seek = TRUE])

\* Bug: a host follows as well.
BugOnRemoteHeartbeat(e, guestOfHost, from, m, drifted) ==
    LET followed == SpeedCorrected(Tracked(e, from, m), m)
    IN  IF drifted /\ MayCorrect(followed.engine, m) THEN Corrected(followed)
        ELSE followed
OnRemoteHeartbeat(e, guestOfHost, from, m, drifted) ==
    LET tracked == Tracked(e, from, m)
        followed == SpeedCorrected(tracked, m)
    IN  IF ~guestOfHost THEN Result(tracked, NoEffects)
        ELSE IF drifted /\ MayCorrect(followed.engine, m) THEN Corrected(followed)
        ELSE followed

=============================================================================
