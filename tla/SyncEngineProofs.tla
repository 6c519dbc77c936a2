-------------------------- MODULE SyncEngineProofs --------------------------
(***************************************************************************)
(* What the operators of SyncEngine answer, for every engine: the lemmas   *)
(* that the proofs about its callers, Playback and DriftEstimate, rest on. *)
(***************************************************************************)
EXTENDS SyncEngine, LeastElement

----------------------------------------------------------------------------
(* The suppressions of an engine *)

LEMMA NewEngineType == NewEngine \in Engine
BY SpeedsAssumption, TimesAssumption DEF NewEngine, Engine

\* addSuppression adds one of its kind and keeps the others.
LEMMA SuppressAdds ==
  ASSUME NEW e \in Engine, NEW k \in Kinds
  PROVE  /\ Suppress(e, k) \in Engine
         /\ Live(Suppress(e, k), k) # {}
         /\ \A j \in Kinds : Live(e, j) # {} => Live(Suppress(e, k), j) # {}
<1> DEFINE s == [e.suppressions[k] EXCEPT ![Window] = @ + 1]
           ss == [e.suppressions EXCEPT ![k] = s]
<1>1. e.suppressions \in [Kinds -> [1..Window -> Nat]] /\ Window \in 1..Window
  BY TimesAssumption DEF Engine
<1>2. s \in [1..Window -> Nat] /\ s[Window] > 0
  BY <1>1
<1>3. \A t \in 1..Window : e.suppressions[k][t] > 0 => s[t] > 0
  BY <1>1
<1>4. ss \in [Kinds -> [1..Window -> Nat]]
  BY <1>1, <1>2
<1>5. Suppress(e, k) = [e EXCEPT !.suppressions = ss]
  BY <1>1 DEF Suppress, Engine
<1>6. Suppress(e, k) \in Engine /\ Suppress(e, k).suppressions = ss
  BY <1>4, <1>5 DEF Engine
<1>7. Window \in Live(Suppress(e, k), k)
  BY <1>1, <1>2, <1>6 DEF Live
<1>8. ASSUME NEW j \in Kinds, NEW t \in Live(e, j)
      PROVE  t \in Live(Suppress(e, k), j)
  BY <1>1, <1>3, <1>6 DEF Live
<1> QED
  BY <1>6, <1>7, <1>8

\* consumeSuppression takes one of its kind, if there is one.
LEMMA ConsumeTakes ==
  ASSUME NEW e \in Engine, NEW k \in Kinds, Live(e, k) # {}
  PROVE  /\ Consume(e, k) \in Engine
         /\ \A j \in Kinds \ {k} : Live(Consume(e, k), j) = Live(e, j)
<1> DEFINE o == Oldest(e, k)
           s == [e.suppressions[k] EXCEPT ![o] = @ - 1]
           ss == [e.suppressions EXCEPT ![k] = s]
<1>1. e.suppressions \in [Kinds -> [1..Window -> Nat]]
  BY DEF Engine
<1>2. o \in Live(e, k)
  <2>1. Live(e, k) \in SUBSET Nat
    BY DEF Live
  <2>2. \E t \in Live(e, k) : \A u \in Live(e, k) : t <= u
    BY <2>1, LeastNatural
  <2> QED
    BY <2>2 DEF Oldest
<1> HIDE DEF o
<1>3. o \in 1..Window /\ e.suppressions[k][o] - 1 \in Nat
  <2>1. o \in 1..Window /\ e.suppressions[k][o] > 0
    BY <1>2 DEF Live
  <2>2. e.suppressions[k] \in [1..Window -> Nat]
    BY <1>1
  <2>3. e.suppressions[k][o] \in Nat
    BY <2>1, <2>2
  <2> QED
    BY <2>1, <2>3
<1>4. s \in [1..Window -> Nat]
  BY <1>1, <1>3
<1>5. ss \in [Kinds -> [1..Window -> Nat]]
  BY <1>1, <1>4
<1>6. Consume(e, k) = [e EXCEPT !.suppressions = ss]
  BY <1>1 DEF Consume, Engine, o
<1>7. Consume(e, k) \in Engine /\ Consume(e, k).suppressions = ss
  BY <1>5, <1>6 DEF Engine
<1>8. ASSUME NEW j \in Kinds \ {k} PROVE Live(Consume(e, k), j) = Live(e, j)
  BY <1>1, <1>7 DEF Live
<1> QED
  BY <1>7, <1>8

LEMMA AgedType ==
  ASSUME NEW e \in Engine
  PROVE  Aged(e) \in Engine
<1> DEFINE ss == [k \in Kinds |-> [t \in 1..Window |->
                     IF t = Window THEN 0 ELSE e.suppressions[k][t + 1]]]
<1>1. e.suppressions \in [Kinds -> [1..Window -> Nat]] /\ e.cooldown \in 0..Cooldown
  BY DEF Engine
<1>2. ASSUME NEW k \in Kinds, NEW t \in 1..Window, t # Window
      PROVE  e.suppressions[k][t + 1] \in Nat
  <2>1. t + 1 \in 1..Window
    BY <1>2, TimesAssumption
  <2> QED
    BY <2>1, <1>1
<1>3. ss \in [Kinds -> [1..Window -> Nat]]
  BY <1>2
<1>4. (IF e.cooldown > 0 THEN e.cooldown - 1 ELSE 0) \in 0..Cooldown
  BY <1>1, TimesAssumption
<1> QED
  BY <1>3, <1>4 DEF Aged, Engine

\* That f expects all that e expects.
Keeps(e, f) == \A k \in Kinds : Live(e, k) # {} => Live(f, k) # {}

LEMMA KindsNamed == {"play", "pause", "seek", "speed"} \subseteq Kinds
BY DEF Kinds

\* Fields other than the suppressions do not matter.
LEMMA SuppressOnce ==
  ASSUME NEW e \in Engine, NEW f \in Engine, f.suppressions = e.suppressions,
         NEW k \in Kinds
  PROVE  /\ Suppress(f, k) \in Engine
         /\ Keeps(e, Suppress(f, k))
         /\ Live(Suppress(f, k), k) # {}
<1>1. \A j \in Kinds : Live(f, j) = Live(e, j)
  BY DEF Live
<1> QED
  BY <1>1, SuppressAdds DEF Keeps

LEMMA SuppressTwice ==
  ASSUME NEW e \in Engine, NEW f \in Engine, f.suppressions = e.suppressions,
         NEW j \in Kinds, NEW k \in Kinds
  PROVE  LET g == Suppress(Suppress(f, j), k)
         IN  /\ g \in Engine
             /\ Keeps(e, g)
             /\ Live(g, j) # {} /\ Live(g, k) # {}
<1> DEFINE g == Suppress(f, j)
<1>1. g \in Engine /\ Keeps(e, g) /\ Live(g, j) # {}
  BY SuppressOnce
<1> HIDE DEF g
<1>2. Suppress(g, k) \in Engine /\ Keeps(g, Suppress(g, k)) /\ Live(Suppress(g, k), k) # {}
  BY <1>1, SuppressOnce
<1> QED
  BY <1>1, <1>2 DEF Keeps, g

----------------------------------------------------------------------------
(* What the engine answers *)

\* A result that sends nothing, and whose engine expects what its effects make
\* the player report and all that e expects.
Expects(e, r) ==
    /\ r.engine \in Engine
    /\ r.effects \in Effects
    /\ r.effects.send = {}
    /\ Keeps(e, r.engine)
    /\ TRUE \in r.effects.setPaused => Live(r.engine, "pause") # {}
    /\ FALSE \in r.effects.setPaused => Live(r.engine, "play") # {}
    /\ r.effects.setSpeed # {} => Live(r.engine, "speed") # {}
    /\ r.effects.seek => Live(r.engine, "seek") # {}

LEMMA NoEffectsType == NoEffects \in Effects
BY DEF NoEffects, Effects

\* Expects, of a result that is given by its parts.
LEMMA ExpectsParts ==
  ASSUME NEW e \in Engine, NEW f \in Engine, NEW x \in Effects,
         x.send = {},
         Keeps(e, f),
         TRUE \in x.setPaused => Live(f, "pause") # {},
         FALSE \in x.setPaused => Live(f, "play") # {},
         x.setSpeed # {} => Live(f, "speed") # {},
         x.seek => Live(f, "seek") # {}
  PROVE  Expects(e, Result(f, x))
BY DEF Expects, Result

LEMMA RemotePlayExpects ==
  ASSUME NEW e \in Engine PROVE Expects(e, OnRemotePlay(e))
<1> DEFINE f == [e EXCEPT !.paused = FALSE]
           x == [NoEffects EXCEPT !.setPaused = {FALSE}, !.seek = TRUE]
<1>1. f \in Engine /\ f.suppressions = e.suppressions
  BY DEF Engine
<1>2. x \in Effects /\ x.send = {} /\ x.setSpeed = {} /\ TRUE \notin x.setPaused
  BY DEF NoEffects, Effects
<1> HIDE DEF f, x
<1>3. Expects(e, Result(Suppress(Suppress(f, "play"), "seek"), x))
  BY <1>1, <1>2, KindsNamed, SuppressTwice, ExpectsParts
<1> QED
  BY <1>3 DEF OnRemotePlay, f, x

LEMMA RemotePauseExpects ==
  ASSUME NEW e \in Engine PROVE Expects(e, OnRemotePause(e))
<1> DEFINE f == [e EXCEPT !.paused = TRUE]
           x == [NoEffects EXCEPT !.setPaused = {TRUE}, !.seek = TRUE]
<1>1. f \in Engine /\ f.suppressions = e.suppressions
  BY DEF Engine
<1>2. x \in Effects /\ x.send = {} /\ x.setSpeed = {} /\ FALSE \notin x.setPaused
  BY DEF NoEffects, Effects
<1> HIDE DEF f, x
<1>3. Expects(e, Result(Suppress(Suppress(f, "pause"), "seek"), x))
  BY <1>1, <1>2, KindsNamed, SuppressTwice, ExpectsParts
<1> QED
  BY <1>3 DEF OnRemotePause, f, x

LEMMA RemoteSeekExpects ==
  ASSUME NEW e \in Engine PROVE Expects(e, OnRemoteSeek(e))
<1> DEFINE x == [NoEffects EXCEPT !.seek = TRUE]
<1>1. x \in Effects /\ x.send = {} /\ x.setSpeed = {} /\ x.setPaused = {}
  BY DEF NoEffects, Effects
<1> HIDE DEF x
<1>2. Expects(e, Result(Suppress(e, "seek"), x))
  BY <1>1, KindsNamed, SuppressOnce, ExpectsParts
<1> QED
  BY <1>2 DEF OnRemoteSeek, x

\* Also of the speed that a heartbeat corrects.
LEMMA SpeedExpects ==
  ASSUME NEW e \in Engine, NEW f \in Engine, f.suppressions = e.suppressions,
         NEW speed \in Speeds
  PROVE  Expects(e, Result(Suppress([f EXCEPT !.speed = speed], "speed"),
                           [NoEffects EXCEPT !.setSpeed = {speed}]))
<1> DEFINE g == [f EXCEPT !.speed = speed]
           x == [NoEffects EXCEPT !.setSpeed = {speed}]
<1>1. g \in Engine /\ g.suppressions = e.suppressions
  BY DEF Engine
<1>2. x \in Effects /\ x.send = {} /\ x.setPaused = {} /\ x.seek = FALSE
  BY DEF NoEffects, Effects
<1> HIDE DEF g, x
<1>3. Expects(e, Result(Suppress(g, "speed"), x))
  BY <1>1, <1>2, KindsNamed, SuppressOnce, ExpectsParts
<1> QED
  BY <1>3 DEF g, x

LEMMA RemoteStateExpects ==
  ASSUME NEW e \in Engine, NEW paused \in BOOLEAN, NEW speed \in Speeds
  PROVE  Expects(e, OnRemoteState(e, paused, speed))
<1> DEFINE f == [e EXCEPT !.paused = paused, !.speed = speed, !.buffering = FALSE]
           x == [NoEffects EXCEPT !.setPaused = {paused}, !.setSpeed = {speed},
                                  !.seek = TRUE]
           k == IF paused THEN "pause" ELSE "play"
           g == Suppress(Suppress(f, "seek"), k)
           h == Suppress(g, "speed")
<1>1. f \in Engine /\ f.suppressions = e.suppressions
  BY DEF Engine
<1>2. x \in Effects /\ x.send = {} /\ x.setPaused = {paused}
  BY DEF NoEffects, Effects
<1>3. k \in Kinds
  BY KindsNamed
<1> HIDE DEF f, x, k
<1>4. g \in Engine /\ Keeps(e, g) /\ Live(g, "seek") # {} /\ Live(g, k) # {}
  BY <1>1, <1>3, KindsNamed, SuppressTwice
<1> HIDE DEF g
<1>5. h \in Engine /\ Keeps(g, h) /\ Live(h, "speed") # {}
  BY <1>4, KindsNamed, SuppressOnce
<1>6. Keeps(e, h) /\ Live(h, "seek") # {} /\ Live(h, k) # {}
  BY <1>3, <1>4, <1>5, KindsNamed DEF Keeps
<1> HIDE DEF h
<1>7. CASE paused
  <2>1. k = "pause" /\ FALSE \notin x.setPaused
    BY <1>2, <1>7 DEF k
  <2> QED
    BY <1>2, <1>5, <1>6, <2>1, ExpectsParts DEF OnRemoteState, f, g, h, k, x
<1>8. CASE ~paused
  <2>1. k = "play" /\ TRUE \notin x.setPaused
    BY <1>2, <1>8 DEF k
  <2> QED
    BY <1>2, <1>5, <1>6, <2>1, ExpectsParts DEF OnRemoteState, f, g, h, k, x
<1> QED
  BY <1>7, <1>8

LEMMA RemoteSpeedExpects ==
  ASSUME NEW e \in Engine, NEW speed \in Speeds
  PROVE  Expects(e, OnRemoteSpeed(e, speed))
BY SpeedExpects DEF OnRemoteSpeed

\* A correction, of whatever has been decided before.
LEMMA CorrectedExpects ==
  ASSUME NEW e \in Engine, NEW r, r = Result(r.engine, r.effects), Expects(e, r)
  PROVE  Expects(e, Corrected(r))
<1> DEFINE f == [r.engine EXCEPT !.cooldown = Cooldown]
           g == Suppress(f, "seek")
           x == [r.effects EXCEPT !.seek = TRUE]
<1>1. f \in Engine /\ f.suppressions = r.engine.suppressions
  BY TimesAssumption DEF Expects, Engine
<1>2. /\ x \in Effects /\ x.send = {} /\ x.setPaused = r.effects.setPaused
      /\ x.setSpeed = r.effects.setSpeed
  BY DEF Expects, Effects
<1> HIDE DEF f, x
<1>3. g \in Engine /\ Keeps(r.engine, g) /\ Live(g, "seek") # {}
  BY <1>1, KindsNamed, SuppressOnce DEF Expects
<1> HIDE DEF g
<1>4. Keeps(e, g)
  BY <1>3 DEF Expects, Keeps
<1>5. /\ x.send = {}
      /\ TRUE \in x.setPaused => Live(g, "pause") # {}
      /\ FALSE \in x.setPaused => Live(g, "play") # {}
      /\ x.setSpeed # {} => Live(g, "speed") # {}
  BY <1>2, <1>3, KindsNamed DEF Expects, Keeps
<1>6. Expects(e, Result(g, x))
  BY <1>2, <1>3, <1>4, <1>5, ExpectsParts
<1> QED
  BY <1>6 DEF Corrected, f, g, x

LEMMA RemoteHeartbeatExpects ==
  ASSUME NEW e \in Engine, NEW guestOfHost \in BOOLEAN, NEW from \in Peers,
         NEW m \in Message, NEW drifted \in BOOLEAN
  PROVE  Expects(e, OnRemoteHeartbeat(e, guestOfHost, from, m, drifted))
<1> DEFINE t == Tracked(e, from, m)
           r == SpeedCorrected(t, m)
<1>1. t \in Engine /\ t.suppressions = e.suppressions
  BY DEF Tracked, Engine
<1> HIDE DEF t
<1>2. Keeps(e, t)
  BY <1>1 DEF Keeps, Live
<1>3. Expects(e, Result(t, NoEffects))
  BY <1>1, <1>2, NoEffectsType, ExpectsParts DEF NoEffects
<1>4. m.speed \in Speeds
  BY DEF Message
<1>5. Expects(e, r) /\ r = Result(r.engine, r.effects)
  BY <1>1, <1>3, <1>4, SpeedExpects DEF SpeedCorrected, Result
<1> HIDE DEF r
<1>6. Expects(e, Corrected(r))
  BY <1>5, CorrectedExpects
<1> QED
  BY <1>3, <1>5, <1>6 DEF OnRemoteHeartbeat, t, r

----------------------------------------------------------------------------
(* What the listeners answer *)

\* An event that is expected is not sent; no other kind is touched.
Answers(e, k, r) ==
    /\ r.engine \in Engine
    /\ r.effects.send \in SUBSET Message
    /\ \A j \in Kinds \ {k} : Live(r.engine, j) = Live(e, j)
    /\ Live(e, k) # {} => r.effects.send = {}

LEMMA ReportedAnswers ==
  ASSUME NEW e \in Engine, NEW f \in Engine, f.suppressions = e.suppressions,
         NEW k \in Kinds, NEW message \in SUBSET Message
  PROVE  Answers(e, k, Reported(f, k, message))
<1>1. \A j \in Kinds : Live(f, j) = Live(e, j)
  BY DEF Live
<1>2. CASE Live(f, k) # {}
  BY <1>1, <1>2, ConsumeTakes DEF Reported, Result, NoEffects, Answers
<1>3. CASE Live(f, k) = {}
  BY <1>1, <1>3 DEF Reported, Result, NoEffects, Answers
<1> QED
  BY <1>2, <1>3

LEMMA MessagesType ==
  /\ \A type \in Kinds \cup {"peer-joined"} : OfType(type) \in Message
  /\ \A speed \in Speeds : SpeedMessage(speed) \in Message
  /\ \A paused \in BOOLEAN, speed \in Speeds : StateMessage(paused, speed) \in Message
  /\ \A paused \in BOOLEAN, speed \in Speeds, buffering \in BOOLEAN :
         HeartbeatMessage(paused, speed, buffering) \in Message
<1>1. ASSUME NEW type \in Kinds \cup {"state", "peer-joined"} PROVE OfType(type) \in Message
  BY SpeedsAssumption DEF OfType, Message
<1>2. ASSUME NEW speed \in Speeds PROVE SpeedMessage(speed) \in Message
  <2> DEFINE m == OfType("speed")
  <2>1. m \in Message
    BY <1>1, KindsNamed
  <2> HIDE DEF m
  <2>2. [m EXCEPT !.speed = speed] \in Message
    BY <2>1 DEF Message
  <2> QED
    BY <2>2 DEF SpeedMessage, m
<1>3. ASSUME NEW paused \in BOOLEAN, NEW speed \in Speeds
      PROVE  StateMessage(paused, speed) \in Message
  <2> DEFINE m == OfType("state")
  <2>1. m \in Message
    BY <1>1
  <2> HIDE DEF m
  <2>2. [m EXCEPT !.paused = paused, !.speed = speed] \in Message
    BY <2>1 DEF Message
  <2> QED
    BY <2>2 DEF StateMessage, m
<1>4. ASSUME NEW paused \in BOOLEAN, NEW speed \in Speeds, NEW buffering \in BOOLEAN
      PROVE  HeartbeatMessage(paused, speed, buffering) \in Message
  BY DEF HeartbeatMessage, Message
<1> QED
  BY <1>1, <1>2, <1>3, <1>4

LEMMA LocalAnswers ==
  ASSUME NEW e \in Engine
  PROVE  /\ Answers(e, "play", OnLocalPlay(e))
         /\ Answers(e, "pause", OnLocalPause(e))
         /\ Answers(e, "seek", OnLocalSeek(e))
         /\ \A speed \in Speeds : Answers(e, "speed", OnLocalSpeed(e, speed))
<1>1. Answers(e, "play", OnLocalPlay(e))
  <2> DEFINE f == [e EXCEPT !.paused = FALSE]
  <2>1. f \in Engine /\ f.suppressions = e.suppressions
    BY DEF Engine
  <2> HIDE DEF f
  <2>2. (IF e.buffering THEN {} ELSE {OfType("play")}) \in SUBSET Message
    BY MessagesType, KindsNamed
  <2>3. Answers(e, "play", Reported(f, "play", IF e.buffering THEN {} ELSE {OfType("play")}))
    BY <2>1, <2>2, KindsNamed, ReportedAnswers
  <2> QED
    BY <2>3 DEF OnLocalPlay, f
<1>2. Answers(e, "pause", OnLocalPause(e))
  <2> DEFINE f == [e EXCEPT !.paused = TRUE]
  <2>1. f \in Engine /\ f.suppressions = e.suppressions
    BY DEF Engine
  <2> HIDE DEF f
  <2>2. (IF e.buffering THEN {} ELSE {OfType("pause")}) \in SUBSET Message
    BY MessagesType, KindsNamed
  <2>3. Answers(e, "pause", Reported(f, "pause", IF e.buffering THEN {} ELSE {OfType("pause")}))
    BY <2>1, <2>2, KindsNamed, ReportedAnswers
  <2> QED
    BY <2>3 DEF OnLocalPause, f
<1>3. Answers(e, "seek", OnLocalSeek(e))
  BY MessagesType, KindsNamed, ReportedAnswers DEF OnLocalSeek
<1>4. ASSUME NEW speed \in Speeds PROVE Answers(e, "speed", OnLocalSpeed(e, speed))
  <2> DEFINE f == [e EXCEPT !.speed = speed]
  <2>1. f \in Engine /\ f.suppressions = e.suppressions
    BY DEF Engine
  <2> HIDE DEF f
  <2>2. Answers(e, "speed", Reported(f, "speed", {SpeedMessage(speed)}))
    BY <2>1, MessagesType, KindsNamed, ReportedAnswers
  <2> QED
    BY <2>2 DEF OnLocalSpeed, f
<1> QED
  BY <1>1, <1>2, <1>3, <1>4

LEMMA BufferingAnswers ==
  ASSUME NEW e \in Engine, NEW buffering \in BOOLEAN
  PROVE  /\ OnLocalBuffering(e, buffering).engine \in Engine
         /\ OnLocalBuffering(e, buffering).effects.send = {}
         /\ \A k \in Kinds : Live(OnLocalBuffering(e, buffering).engine, k) = Live(e, k)
<1> DEFINE f == [e EXCEPT !.buffering = buffering]
<1>1. f \in Engine /\ f.suppressions = e.suppressions
  BY DEF Engine
<1>2. OnLocalBuffering(e, buffering).engine = f /\ OnLocalBuffering(e, buffering).effects = NoEffects
  BY DEF OnLocalBuffering, Result
<1> QED
  BY <1>1, <1>2 DEF Live, NoEffects

=============================================================================
