----------------------------- MODULE RoomProofs -----------------------------
(***************************************************************************)
(* Safety of the Room Durable Object, for any number of clients, sockets   *)
(* and identifiers and any values of the limits.                           *)
(***************************************************************************)
EXTENDS Room, LeastElement

----------------------------------------------------------------------------
(* Helpers *)

\* scheduleNextAlarm sets a time, and one that does not miss the deadline
\* of any of its arguments by more than MinAlarmDelay.
LEMMA NextAlarmMeets ==
  ASSUME NEW expires \in Time(RoomTtl), NEW states, NEW atts,
         NEW auths \in [Sockets -> Time(AuthTimeout)],
         NEW otherwise \in Int, otherwise >= NoTime
  PROVE  LET alarm == NextAlarm(expires, states, atts, auths, otherwise)
         IN  /\ alarm \in Int /\ alarm >= NoTime
             /\ expires # NoTime =>
                    alarm # NoTime /\ (alarm <= expires \/ alarm <= MinAlarmDelay)
             /\ \A w \in Sockets :
                    states[w] # "none" /\ atts[w] = Unauth /\ auths[w] # NoTime =>
                        alarm # NoTime /\ (alarm <= auths[w] \/ alarm <= MinAlarmDelay)
<1> DEFINE pending == {w \in Sockets : states[w] # "none" /\ atts[w] = Unauth}
           deadlines == {t \in {expires} \cup {auths[w] : w \in pending} : t # NoTime}
           earliest == CHOOSE t \in deadlines : \A u \in deadlines : t <= u
<1>1. deadlines \in SUBSET Nat
  BY LimitsAssumption DEF Time, NoTime
<1>2. MinAlarmDelay \in Nat \ {0}
  BY LimitsAssumption
<1>3. CASE deadlines = {}
  <2>1. NextAlarm(expires, states, atts, auths, otherwise) = otherwise
    BY <1>3 DEF NextAlarm
  <2>2. expires = NoTime
    BY <1>3
  <2>3. \A w \in pending : auths[w] = NoTime
    BY <1>3
  <2> QED
    BY <2>1, <2>2, <2>3
<1>4. CASE deadlines # {}
  <2>1. earliest \in deadlines /\ \A u \in deadlines : earliest <= u
    <3> HIDE DEF deadlines
    <3>1. \E t \in deadlines : \A u \in deadlines : t <= u
      BY <1>1, <1>4, LeastNatural
    <3> QED
      BY <3>1
  <2>2. NextAlarm(expires, states, atts, auths, otherwise)
          = IF earliest > MinAlarmDelay THEN earliest ELSE MinAlarmDelay
    BY <1>4 DEF NextAlarm
  <2>3. /\ expires # NoTime => earliest <= expires
        /\ \A w \in pending : auths[w] # NoTime => earliest <= auths[w]
    BY <2>1
  <2>4. earliest \in Nat
    BY <1>1, <2>1
  <2> HIDE DEF earliest
  <2> QED
    BY <1>2, <2>2, <2>3, <2>4 DEF NoTime
<1> QED
  BY <1>3, <1>4

\* The same, of the end of the room and of the sockets.
LEMMA NextAlarmBounds ==
  ASSUME NEW expires \in Time(RoomTtl), NEW states, NEW atts,
         NEW auths \in [Sockets -> Time(AuthTimeout)],
         NEW otherwise \in Int, otherwise >= NoTime
  PROVE  LET alarm == NextAlarm(expires, states, atts, auths, otherwise)
         IN  /\ alarm \in Int /\ alarm >= NoTime
             /\ expires # NoTime =>
                    alarm # NoTime /\ (alarm <= expires \/ alarm <= MinAlarmDelay)
BY NextAlarmMeets

LEMMA NextAlarmCovers ==
  ASSUME NEW expires \in Time(RoomTtl), NEW states, NEW atts,
         NEW auths \in [Sockets -> Time(AuthTimeout)],
         NEW otherwise \in Int, otherwise >= NoTime
  PROVE  LET alarm == NextAlarm(expires, states, atts, auths, otherwise)
         IN  \A w \in Sockets :
                 states[w] # "none" /\ atts[w] = Unauth /\ auths[w] # NoTime =>
                     alarm # NoTime /\ (alarm <= auths[w] \/ alarm <= MinAlarmDelay)
BY NextAlarmMeets

----------------------------------------------------------------------------
(* Types *)

\* A fresh identifier is one, and nobody carries it yet.
LEMMA NewPidIsFresh ==
  ASSUME TypeOK, UsedPids # Pids
  PROVE  NewPid \in Pids /\ NewPid \notin UsedPids
<1>1. UsedPids \subseteq Pids
  BY DEF TypeOK, UsedPids, Registered, Authed, Listed, Row, Identity
<1>2. \E p \in Pids : p \notin UsedPids
  BY <1>1
<1> QED
  BY <1>2 DEF NewPid

\* Row and attachment values other than the null ones.
LEMMA RowTypes ==
  ASSUME TypeOK
  PROVE  /\ \A s \in Registered : rows[s] \in Row
         /\ \A w \in Authed : att[w] \in Identity
BY DEF TypeOK, Registered, Authed, Listed

\* Every handler keeps the state well typed.
LEMMA TypeOKStep ==
  ASSUME TypeOK, [Next]_vars
  PROVE  TypeOK'
<1> USE LimitsAssumption
<1>1. CASE HandleInit
  BY <1>1 DEF TypeOK, HandleInit, Time, NoTime
<1>2. ASSUME NEW w \in Sockets, HandleWebSocketUpgrade(w) PROVE TypeOK'
  <2>1. authIn' \in [Sockets -> Time(AuthTimeout)]
    BY <1>2 DEF TypeOK, HandleWebSocketUpgrade, Time
  <2>2. alarmIn' \in Int /\ alarmIn' >= NoTime
    BY <1>2, <2>1, NextAlarmBounds DEF TypeOK, HandleWebSocketUpgrade
  <2> QED
    BY <1>2, <2>1, <2>2 DEF TypeOK, HandleWebSocketUpgrade, ReadyStates
<1>3. ASSUME NEW w \in Sockets, RejectFirstMessage(w) PROVE TypeOK'
  BY <1>3 DEF TypeOK, RejectFirstMessage, Close, ReadyStates
<1>4. ASSUME NEW w \in Sockets, AuthWithoutRoom(w) PROVE TypeOK'
  BY <1>4 DEF TypeOK, AuthWithoutRoom, Close, ReadyStates
<1>5. ASSUME NEW w \in Sockets, NEW s \in Sessions, AuthReconnect(w, s) PROVE TypeOK'
  <2> DEFINE identity == [session |-> s, role |-> rows[s].role, pid |-> rows[s].pid]
  <2>1. PICK replaced : /\ Close(replaced)
                        /\ SetAuthenticated(w, identity)
                        /\ Announce(w, rows[s].pid, AuthedPeers(w) \ replaced)
    BY <1>5 DEF AuthReconnect
  <2>2. s \in Registered /\ UNCHANGED <<expiresIn, rows, alarmIn>>
    BY <1>5 DEF AuthReconnect
  <2>3. rows[s].pid \in Pids /\ identity \in Identity
    BY <2>2, RowTypes DEF Row, Identity, Registered
  <2>4. att' \in [Sockets -> Identity \cup {Unauth}]
    BY <2>1, <2>3 DEF TypeOK, SetAuthenticated
  <2>5. authIn' \in [Sockets -> Time(AuthTimeout)]
    BY <2>1 DEF TypeOK, SetAuthenticated, Time
  <2>6. \A v \in AuthedPeers(w) : att[v].pid \in Pids
    BY RowTypes DEF AuthedPeers, Identity
  <2>7. known' \in [Sockets -> SUBSET Pids]
    BY <2>1, <2>3, <2>6 DEF TypeOK, Announce, ClientsKnow
  <2>8. sock' \in [Sockets -> ReadyStates]
    BY <2>1 DEF TypeOK, Close, ReadyStates
  <2> QED
    BY <2>2, <2>4, <2>5, <2>7, <2>8 DEF TypeOK
<1>6. ASSUME NEW w \in Sockets, NEW s \in Sessions, AuthNew(w, s) PROVE TypeOK'
  <2> DEFINE identity == [session |-> s, role |-> NewRole, pid |-> NewPid]
  <2>1. NewPid \in Pids
    BY <1>6, NewPidIsFresh DEF AuthNew
  <2>2. identity \in Identity /\ [role |-> NewRole, pid |-> NewPid] \in Row
    BY <2>1 DEF Identity, Row, Roles, NewRole
  <2>3. RowsAfterCheck \in [Sessions -> Row \cup {NoRow}]
    BY DEF TypeOK, RowsAfterCheck, RowsIfEvicted
  <2>4. rows' \in [Sessions -> Row \cup {NoRow}]
    BY <1>6, <2>2, <2>3 DEF AuthNew
  <2>5. att' \in [Sockets -> Identity \cup {Unauth}]
    BY <1>6, <2>2 DEF TypeOK, AuthNew, SetAuthenticated
  <2>6. authIn' \in [Sockets -> Time(AuthTimeout)]
    BY <1>6 DEF TypeOK, AuthNew, SetAuthenticated, Time
  <2>7. \A v \in AuthedPeers(w) : att[v].pid \in Pids
    BY RowTypes DEF AuthedPeers, Identity
  <2>8. known' \in [Sockets -> SUBSET Pids]
    BY <1>6, <2>1, <2>7 DEF TypeOK, AuthNew, Announce, ClientsKnow
  <2>9. sock' \in [Sockets -> ReadyStates]
    BY <1>6 DEF TypeOK, AuthNew, Close, ReadyStates
  <2> QED
    BY <1>6, <2>4, <2>5, <2>6, <2>8, <2>9 DEF TypeOK, AuthNew
<1>7. ASSUME NEW w \in Sockets, NEW s \in Sessions, AuthFull(w, s) PROVE TypeOK'
  <2>1. rows' \in [Sessions -> Row \cup {NoRow}]
    BY <1>7 DEF TypeOK, AuthFull, RowsAfterCheck, RowsIfEvicted
  <2> QED
    BY <1>7, <2>1 DEF TypeOK, AuthFull, Close, ReadyStates
<1>8. ASSUME NEW w \in Sockets, Goodbye(w) PROVE TypeOK'
  <2>1. rows' \in [Sessions -> Row \cup {NoRow}]
    BY <1>8 DEF TypeOK, Goodbye
  <2>2. sock' \in [Sockets -> ReadyStates]
    BY <1>8 DEF TypeOK, Goodbye, Close, ReadyStates
  <2>3. known' \in [Sockets -> SUBSET Pids]
    BY <1>8 DEF TypeOK, Goodbye, ClientsKnow
  <2> QED
    BY <1>8, <2>1, <2>2, <2>3 DEF TypeOK, Goodbye
<1>9. ASSUME NEW w \in Sockets, WebSocketGone(w) PROVE TypeOK'
  <2>1. sock' \in [Sockets -> ReadyStates]
    BY <1>9 DEF TypeOK, WebSocketGone, ReadyStates
  <2>2. known' \in [Sockets -> SUBSET Pids]
    BY <1>9 DEF TypeOK, WebSocketGone, ClientsKnow
  <2>3. authIn' \in [Sockets -> Time(AuthTimeout)]
    BY <1>9 DEF TypeOK, WebSocketGone, Time
  <2> QED
    BY <1>9, <2>1, <2>2, <2>3 DEF TypeOK, WebSocketGone
<1>10. CASE AlarmExpired
  BY <1>10 DEF TypeOK, AlarmExpired, Close, ClientsKnow, ReadyStates, Time, NoTime
<1>11. CASE AlarmAuthTimeout
  <2>1. alarmIn' \in Int /\ alarmIn' >= NoTime
    BY <1>11, NextAlarmBounds DEF TypeOK, AlarmAuthTimeout, NoTime
  <2> QED
    BY <1>11, <2>1 DEF TypeOK, AlarmAuthTimeout, Close, ReadyStates
<1>12. CASE Tick
  <2>1. ASSUME NEW limit \in Nat, NEW t \in Time(limit)
        PROVE  Elapse(t) \in Time(limit)
    BY DEF Time, Elapse, NoTime
  <2>2. expiresIn' \in Time(RoomTtl)
    BY <1>12, <2>1 DEF TypeOK, Tick
  <2>3. authIn' \in [Sockets -> Time(AuthTimeout)]
    BY <1>12, <2>1 DEF TypeOK, Tick
  <2>4. alarmIn' \in Int /\ alarmIn' >= NoTime
    BY <1>12 DEF TypeOK, Tick, Elapse, NoTime
  <2> QED
    BY <1>12, <2>2, <2>3, <2>4 DEF TypeOK, Tick
<1>13. CASE Restart
  BY <1>13 DEF TypeOK, Restart, ReadyStates, Time
<1>14. CASE UNCHANGED vars
  BY <1>14 DEF TypeOK, vars
<1> QED
  BY <1>1, <1>2, <1>3, <1>4, <1>5, <1>6, <1>7, <1>8, <1>9, <1>10, <1>11, <1>12,
     <1>13, <1>14 DEF Next, SocketEvent, FirstMessage, Alarm

LEMMA InitTypes == Init => TypeOK
BY LimitsAssumption DEF Init, TypeOK, Time, NoTime, ReadyStates

\* Type correctness of the room's storage, sockets, attachments and timers
\* (room.ts) in every reachable state.
THEOREM TypeCorrect == Spec => []TypeOK
<1>1. TypeOK /\ [Next]_vars => TypeOK'
  BY TypeOKStep
<1> QED
  BY InitTypes, <1>1, PTL DEF Spec

----------------------------------------------------------------------------
(* Action property *)

\* Whoever is connected keeps their row until they say goodbye or the room
\* ends: the DELETEs of handleInit, of evictStaleParticipants and of the alarm
\* spare them (room.ts).
THEOREM RowsSafe == Spec => RowsOutliveConnections
<1> DEFINE P == \A s \in Registered :
                   RoomLive /\ LiveConnections(s) # {} /\ rows'[s] # rows[s]
                     => \E w \in Authed : att[w].session = s /\ Goodbye(w)
<1>1. TypeOK /\ Next => P
  <2> SUFFICES ASSUME TypeOK, Next, NEW s \in Registered, RoomLive,
                      LiveConnections(s) # {}, rows'[s] # rows[s]
               PROVE  \E w \in Authed : att[w].session = s /\ Goodbye(w)
    OBVIOUS
  <2>1. s \in Sessions /\ s \in Connected
    BY DEF Registered, LiveConnections, Connected
  <2>2. RowsAfterCheck[s] = rows[s]
    BY <2>1 DEF RowsAfterCheck, RowsIfEvicted
  <2>3. ASSUME NEW w \in Sockets, NEW t \in Sessions, AuthNew(w, t) PROVE FALSE
    <3>1. t # s
      BY <2>3 DEF AuthNew
    <3>2. rows'[s] = RowsAfterCheck[s]
      BY <2>3, <3>1, <2>1 DEF AuthNew, RowsAfterCheck, RowsIfEvicted, TypeOK
    <3> QED
      BY <3>2, <2>2
  <2>4. ASSUME NEW w \in Sockets, NEW t \in Sessions, AuthFull(w, t) PROVE FALSE
    BY <2>4, <2>2 DEF AuthFull
  <2>5. ASSUME NEW w \in Sockets, Goodbye(w)
        PROVE  w \in Authed /\ att[w].session = s
    BY <2>5, <2>1 DEF Goodbye, TypeOK
  <2>6. ~HandleInit /\ ~AlarmExpired
    BY DEF HandleInit, AlarmExpired, RoomLive
  <2>7. ASSUME NEW w \in Sockets,
               \/ HandleWebSocketUpgrade(w) \/ RejectFirstMessage(w)
               \/ AuthWithoutRoom(w) \/ WebSocketGone(w)
               \/ \E t \in Sessions : AuthReconnect(w, t)
        PROVE  FALSE
    BY <2>7 DEF HandleWebSocketUpgrade, RejectFirstMessage, AuthWithoutRoom,
                WebSocketGone, AuthReconnect
  <2>8. ~AlarmAuthTimeout /\ ~Tick /\ ~Restart
    BY DEF AlarmAuthTimeout, Tick, Restart
  <2> QED
    BY <2>3, <2>4, <2>5, <2>6, <2>7, <2>8
       DEF Next, SocketEvent, FirstMessage, Alarm
<1>2. TypeOK /\ [Next]_vars => [P]_vars
  BY <1>1
<1> QED
  BY <1>2, TypeCorrect, PTL DEF Spec, RowsOutliveConnections

----------------------------------------------------------------------------
(* The participants table *)

\* What a step can do to the table: empty it, remove rows, or (AuthNew) remove
\* rows, which leaves Remaining, and add one with a fresh identifier.
LEMMA TableSteps ==
  ASSUME TypeOK, [Next]_vars
  PROVE  \/ \A s \in Sessions : rows'[s] \in {rows[s], NoRow}
         \/ \E w \in Sockets, s \in Sessions : AuthNew(w, s)
<1> USE DEF TypeOK
<1>1. CASE HandleInit \/ AlarmExpired
  BY <1>1 DEF HandleInit, AlarmExpired
<1>2. ASSUME NEW w \in Sockets, NEW s \in Sessions, AuthFull(w, s)
      PROVE  \A t \in Sessions : rows'[t] \in {rows[t], NoRow}
  BY <1>2 DEF AuthFull, RowsAfterCheck, RowsIfEvicted
<1>3. ASSUME NEW w \in Sockets, Goodbye(w)
      PROVE  \A t \in Sessions : rows'[t] \in {rows[t], NoRow}
  BY <1>3 DEF Goodbye
<1>4. ASSUME NEW w \in Sockets,
             \/ HandleWebSocketUpgrade(w) \/ RejectFirstMessage(w)
             \/ AuthWithoutRoom(w) \/ WebSocketGone(w)
             \/ \E t \in Sessions : AuthReconnect(w, t)
      PROVE  rows' = rows
  BY <1>4 DEF HandleWebSocketUpgrade, RejectFirstMessage, AuthWithoutRoom,
              WebSocketGone, AuthReconnect
<1>5. CASE AlarmAuthTimeout \/ Tick \/ Restart \/ UNCHANGED vars
  BY <1>5 DEF AlarmAuthTimeout, Tick, Restart, vars
<1> QED
  BY <1>1, <1>2, <1>3, <1>4, <1>5 DEF Next, SocketEvent, FirstMessage, Alarm

\* The table after AuthNew, session by session.
LEMMA AuthNewRows ==
  ASSUME TypeOK, NEW w \in Sockets, NEW s \in Sessions, AuthNew(w, s)
  PROVE  /\ rows'[s] # NoRow
         /\ rows'[s].role = NewRole
         /\ rows'[s].pid = NewPid
         /\ \A t \in Sessions \ {s} :
               rows'[t] = RowsAfterCheck[t] /\ rows'[t] \in {rows[t], NoRow}
         /\ Registered' = Remaining \cup {s}
<1>1. NewPid \in Pids
  BY NewPidIsFresh DEF AuthNew
<1>2. rows'[s] # NoRow /\ rows'[s].pid = NewPid
      /\ rows'[s].role = NewRole
  BY <1>1, PidsAssumption DEF AuthNew, RowsAfterCheck, RowsIfEvicted, TypeOK, NoRow
<1>3. \A t \in Sessions \ {s} :
        rows'[t] = RowsAfterCheck[t] /\ rows'[t] \in {rows[t], NoRow}
  BY DEF AuthNew, RowsAfterCheck, RowsIfEvicted, TypeOK
<1>4. Registered' = Remaining \cup {s}
  BY <1>2, <1>3 DEF Registered, Remaining
<1> QED
  BY <1>2, <1>3, <1>4

\* handleAuth makes somebody host only when the table is empty.
LEMMA OneHostStep ==
  ASSUME TypeOK, OneHost, [Next]_vars
  PROVE  OneHost'
<1>1. CASE \A s \in Sessions : rows'[s] \in {rows[s], NoRow}
  BY <1>1 DEF OneHost, Registered
<1>2. ASSUME NEW w \in Sockets, NEW s \in Sessions, AuthNew(w, s) PROVE OneHost'
  <2>1. \A t \in Registered' \ {s} : t \in Registered /\ rows'[t] = rows[t] /\ t \in Remaining
    BY <1>2, AuthNewRows DEF Registered
  <2>2. rows'[s].role = "host" => Remaining = {}
    BY <1>2, AuthNewRows DEF NewRole
  <2> QED
    BY <2>1, <2>2 DEF OneHost
<1> QED
  BY <1>1, <1>2, TableSteps

\* handleAuth counts the rows again after the eviction.
LEMMA CapacityStep ==
  ASSUME TypeOK, Capacity, [Next]_vars
  PROVE  Capacity'
<1>1. IsFiniteSet(Registered) /\ IsFiniteSet(Registered')
  BY SessionsAssumption, FS_Subset DEF Registered
<1>2. CASE \A s \in Sessions : rows'[s] \in {rows[s], NoRow}
  <2>1. Registered' \in SUBSET Registered
    BY <1>2 DEF Registered
  <2>2. Cardinality(Registered') <= Cardinality(Registered)
    BY <1>1, <2>1, FS_Subset
  <2>3. Cardinality(Registered) \in Nat /\ Cardinality(Registered') \in Nat
    BY <1>1, FS_CardinalityType
  <2> QED
    BY <2>2, <2>3, LimitsAssumption DEF Capacity
<1>3. ASSUME NEW w \in Sockets, NEW s \in Sessions, AuthNew(w, s) PROVE Capacity'
  <2>1. Registered' = Remaining \cup {s}
    BY <1>3, AuthNewRows
  <2>2. IsFiniteSet(Remaining)
    BY SessionsAssumption, FS_Subset DEF Remaining
  <2>3. Cardinality(Remaining) \in Nat
    BY <2>2, FS_CardinalityType
  <2>4. Cardinality(Registered') <= Cardinality(Remaining) + 1
    BY <2>1, <2>2, <2>3, FS_AddElement
  <2>5. Cardinality(Remaining) < MaxParticipants
    BY <1>3 DEF AuthNew, HasPlace
  <2>6. Cardinality(Registered') \in Nat
    BY <1>1, FS_CardinalityType
  <2> QED
    BY <2>3, <2>4, <2>5, <2>6, LimitsAssumption DEF Capacity
<1> QED
  BY <1>2, <1>3, TableSteps

\* At most one participant is registered as host.
THEOREM HostIsUnique == Spec => []OneHost
<1>1. Init => OneHost
  BY DEF Init, OneHost, Registered
<1> QED
  BY <1>1, TypeCorrect, OneHostStep, PTL DEF Spec

\* The participants table stays within MAX_PARTICIPANTS.
THEOREM CapacityHolds == Spec => []Capacity
<1>1. Init => Capacity
  <2> SUFFICES ASSUME Init PROVE Registered = {}
    BY FS_EmptySet, LimitsAssumption DEF Capacity
  <2> QED
    BY DEF Init, Registered
<1> QED
  BY <1>1, TypeCorrect, CapacityStep, PTL DEF Spec

----------------------------------------------------------------------------
(* The alarm *)

LEMMA AlarmArmedStep ==
  ASSUME TypeOK, AlarmArmed, [Next]_vars
  PROVE  AlarmArmed'
<1> USE LimitsAssumption
<1>1. CASE HandleInit
  BY <1>1 DEF HandleInit, AlarmArmed, NoTime
<1>2. ASSUME NEW w \in Sockets, HandleWebSocketUpgrade(w) PROVE AlarmArmed'
  <2>1. authIn' \in [Sockets -> Time(AuthTimeout)]
    BY <1>2 DEF TypeOK, HandleWebSocketUpgrade, Time
  <2> QED
    BY <1>2, <2>1, NextAlarmBounds
       DEF TypeOK, HandleWebSocketUpgrade, AlarmArmed, RoomExists
<1>3. CASE AlarmExpired
  BY <1>3 DEF AlarmExpired, AlarmArmed, RoomExists
<1>4. CASE AlarmAuthTimeout
  BY <1>4, NextAlarmBounds
     DEF TypeOK, AlarmAuthTimeout, AlarmArmed, RoomExists, NoTime
<1>5. CASE Tick
  BY <1>5 DEF TypeOK, Tick, Elapse, AlarmArmed, RoomExists, Time, NoTime
<1>6. ASSUME UNCHANGED <<expiresIn, alarmIn>> PROVE AlarmArmed'
  BY <1>6 DEF AlarmArmed, RoomExists
<1>7. ASSUME NEW w \in Sockets,
             \/ RejectFirstMessage(w) \/ AuthWithoutRoom(w)
             \/ Goodbye(w) \/ WebSocketGone(w)
             \/ \E s \in Sessions : AuthReconnect(w, s) \/ AuthNew(w, s) \/ AuthFull(w, s)
      PROVE  UNCHANGED <<expiresIn, alarmIn>>
  BY <1>7 DEF RejectFirstMessage, AuthWithoutRoom, Goodbye,
              WebSocketGone, AuthReconnect, AuthNew, AuthFull
<1>8. CASE Restart \/ UNCHANGED vars
  BY <1>8, <1>6 DEF Restart, vars
<1> QED
  BY <1>1, <1>2, <1>3, <1>4, <1>5, <1>6, <1>7, <1>8
     DEF Next, SocketEvent, FirstMessage, Alarm

\* An existing room always has an alarm, no later than its end (or than
\* MinAlarmDelay once the end is past), whatever upgrades rescheduled it.
THEOREM AlarmAlwaysArmed == Spec => []AlarmArmed
<1>1. Init => AlarmArmed
  BY DEF Init, AlarmArmed, RoomExists
<1> QED
  BY <1>1, TypeCorrect, AlarmArmedStep, PTL DEF Spec

----------------------------------------------------------------------------
(* The end of a room *)

LEMMA RemovedStep ==
  ASSUME TypeOK, RemovedRoomIsEmpty, [Next]_vars
  PROVE  RemovedRoomIsEmpty'
<1> USE DEF RemovedRoomIsEmpty, RoomExists, Registered, Open, Listed, Authed
<1>1. CASE HandleInit
  BY <1>1, LimitsAssumption DEF HandleInit, NoTime
<1>2. ASSUME NEW w \in Sockets,
             \/ HandleWebSocketUpgrade(w)
             \/ \E s \in Sessions : AuthReconnect(w, s) \/ AuthNew(w, s) \/ AuthFull(w, s)
      PROVE  RemovedRoomIsEmpty'
  <2>1. CASE HandleWebSocketUpgrade(w)
    <3>1. RoomLive /\ expiresIn' = expiresIn
      BY <2>1 DEF HandleWebSocketUpgrade
    <3> QED
      BY <3>1 DEF RoomLive, NoTime
  <2>2. ASSUME NEW s \in Sessions, AuthReconnect(w, s) \/ AuthNew(w, s) \/ AuthFull(w, s)
        PROVE  RemovedRoomIsEmpty'
    <3>1. RoomLive /\ expiresIn' = expiresIn
      BY <2>2 DEF AuthReconnect, AuthNew, AuthFull
    <3> QED
      BY <3>1 DEF RoomLive, NoTime
  <2> QED
    BY <1>2, <2>1, <2>2
<1>3. ASSUME NEW w \in Sockets,
             RejectFirstMessage(w) \/ AuthWithoutRoom(w) \/ WebSocketGone(w)
      PROVE  RemovedRoomIsEmpty'
  BY <1>3 DEF TypeOK, RejectFirstMessage, AuthWithoutRoom, WebSocketGone, Close
<1>4. ASSUME NEW w \in Sockets, Goodbye(w) PROVE RemovedRoomIsEmpty'
  BY <1>4 DEF TypeOK, Goodbye, Close
<1>5. CASE AlarmExpired
  BY <1>5 DEF TypeOK, AlarmExpired, ClosedAtEnd, Close
<1>6. CASE AlarmAuthTimeout
  BY <1>6 DEF TypeOK, AlarmAuthTimeout, Close
<1>7. CASE Tick
  BY <1>7 DEF TypeOK, Tick, Elapse, Time, NoTime
<1>8. CASE Restart
  BY <1>8 DEF Restart
<1>9. CASE UNCHANGED vars
  BY <1>9 DEF vars
<1> QED
  BY <1>1, <1>2, <1>3, <1>4, <1>5, <1>6, <1>7, <1>8, <1>9
     DEF Next, SocketEvent, FirstMessage, Alarm

\* When the alarm has removed a room (or before there was one), its code has no row and
\* nobody connected: nobody authenticates without a room, and the alarm closes every
\* socket (alarm, handleAuth).
THEOREM RoomsLeaveNothing == Spec => []RemovedRoomIsEmpty
<1>1. Init => RemovedRoomIsEmpty
  BY DEF Init, RemovedRoomIsEmpty, RoomExists, Registered, Open
<1> QED
  BY <1>1, RemovedStep, TypeCorrect, PTL DEF Spec

----------------------------------------------------------------------------
(* Without takeover *)

\* A socket that has to authenticate has a deadline, and without a room nobody is
\* connected.
DeadlineSet == \A w \in Listed \ Authed : authIn[w] # NoTime
EmptyWithoutRoom == ~RoomExists => Open = {}
Deadlines == TypeOK /\ DeadlineSet /\ EmptyWithoutRoom /\ AuthDeadlineCovered

\* Handlers that leave the alarm alone: no socket is opened, or put back among those
\* that have to authenticate.
LEMMA AlarmUntouched ==
  ASSUME Deadlines, UNCHANGED <<expiresIn, alarmIn>>,
         Open' \subseteq Open,
         \A w \in Sockets : w \in Listed' \ Authed' =>
             w \in Listed \ Authed /\ authIn'[w] = authIn[w]
  PROVE  DeadlineSet' /\ EmptyWithoutRoom' /\ AuthDeadlineCovered'
BY DEF Deadlines, DeadlineSet, EmptyWithoutRoom, AuthDeadlineCovered, RoomExists,
       Open, Listed, Authed

LEMMA MessageDeadlines ==
  ASSUME Deadlines, NEW w \in Sockets,
         FirstMessage(w) \/ Goodbye(w) \/ WebSocketGone(w)
  PROVE  DeadlineSet' /\ EmptyWithoutRoom' /\ AuthDeadlineCovered'
<1> USE DEF Deadlines, TypeOK, Open, Listed, Authed
<1>1. CASE \/ RejectFirstMessage(w) \/ AuthWithoutRoom(w) \/ Goodbye(w)
           \/ \E s \in Sessions : AuthFull(w, s)
  <2>1. UNCHANGED <<expiresIn, alarmIn, att, authIn>> /\ Close({w})
    BY <1>1 DEF RejectFirstMessage, AuthWithoutRoom, Goodbye, AuthFull
  <2> QED
    BY <2>1, AlarmUntouched DEF Close
<1>2. CASE \E s \in Sessions : AuthReconnect(w, s) \/ AuthNew(w, s)
  <2>1. UNCHANGED <<expiresIn, alarmIn>> /\ \E S : Close(S)
    BY <1>2 DEF AuthReconnect, AuthNew
  <2>2. ASSUME NEW identity, identity.session \in Sessions, SetAuthenticated(w, identity)
        PROVE  /\ att'[w] # Unauth
               /\ \A v \in Sockets \ {w} : att'[v] = att[v] /\ authIn'[v] = authIn[v]
    <3>1. att'[w] = identity
      BY <2>2 DEF SetAuthenticated
    <3>2. Unauth.session = NoSession
      BY DEF Unauth
    <3>3. att'[w] # Unauth
      BY <2>2, <3>1, <3>2, SessionsAssumption, Zenon
    <3> QED
      BY <2>2, <3>3 DEF SetAuthenticated
  <2>3. ASSUME NEW s \in Sessions, AuthReconnect(w, s)
        PROVE  /\ att'[w] # Unauth
               /\ \A v \in Sockets \ {w} : att'[v] = att[v] /\ authIn'[v] = authIn[v]
    <3> DEFINE identity == [session |-> s, role |-> rows[s].role, pid |-> rows[s].pid]
    <3>1. SetAuthenticated(w, identity) /\ identity.session \in Sessions
      BY <2>3 DEF AuthReconnect
    <3> HIDE DEF identity
    <3> QED
      BY <2>2, <3>1
  <2>4. ASSUME NEW s \in Sessions, AuthNew(w, s)
        PROVE  /\ att'[w] # Unauth
               /\ \A v \in Sockets \ {w} : att'[v] = att[v] /\ authIn'[v] = authIn[v]
    <3> DEFINE identity == [session |-> s, role |-> NewRole, pid |-> NewPid]
    <3>1. SetAuthenticated(w, identity) /\ identity.session \in Sessions
      BY <2>4 DEF AuthNew
    <3> HIDE DEF identity
    <3> QED
      BY <2>2, <3>1
  <2>5. att'[w] # Unauth
    BY <1>2, <2>3, <2>4
  <2>6. \A v \in Sockets \ {w} : att'[v] = att[v] /\ authIn'[v] = authIn[v]
    BY <1>2, <2>3, <2>4
  <2>7. /\ Open' \subseteq Open
        /\ \A v \in Sockets : sock'[v] # "none" => sock[v] # "none"
    BY <2>1 DEF Close
  <2> QED
    BY <2>1, <2>5, <2>6, <2>7, AlarmUntouched
<1>3. CASE WebSocketGone(w)
  <2>1. UNCHANGED <<expiresIn, alarmIn>> /\ sock'[w] = "none"
    BY <1>3 DEF WebSocketGone
  <2>2. \A v \in Sockets \ {w} :
            sock'[v] = sock[v] /\ att'[v] = att[v] /\ authIn'[v] = authIn[v]
    BY <1>3 DEF WebSocketGone
  <2> QED
    BY <2>1, <2>2, AlarmUntouched
<1> QED
  BY <1>1, <1>2, <1>3 DEF FirstMessage

LEMMA DeadlinesStep ==
  ASSUME Deadlines, [NextNoTakeover]_vars
  PROVE  DeadlineSet' /\ EmptyWithoutRoom' /\ AuthDeadlineCovered'
<1> USE LimitsAssumption
<1>1. CASE ~RoomExists /\ HandleInit
  BY <1>1 DEF HandleInit, Deadlines, DeadlineSet, EmptyWithoutRoom, AuthDeadlineCovered,
              Open, Listed, Authed
<1>2. ASSUME NEW w \in Sockets, HandleWebSocketUpgrade(w)
      PROVE  DeadlineSet' /\ EmptyWithoutRoom' /\ AuthDeadlineCovered'
  <2>1. authIn' \in [Sockets -> Time(AuthTimeout)]
    BY <1>2 DEF Deadlines, TypeOK, HandleWebSocketUpgrade, Time
  <2>2. DeadlineSet'
    BY <1>2 DEF Deadlines, TypeOK, HandleWebSocketUpgrade, DeadlineSet, Listed, Authed, NoTime
  <2>3. EmptyWithoutRoom'
    BY <1>2 DEF HandleWebSocketUpgrade, EmptyWithoutRoom, RoomLive, RoomExists, NoTime
  <2>4. \A v \in Sockets :
            sock'[v] # "none" /\ att[v] = Unauth /\ authIn'[v] # NoTime =>
                alarmIn' # NoTime /\ (alarmIn' <= authIn'[v] \/ alarmIn' <= MinAlarmDelay)
    BY <1>2, <2>1, NextAlarmCovers DEF Deadlines, TypeOK, HandleWebSocketUpgrade
  <2>5. att' = att
    BY <1>2 DEF HandleWebSocketUpgrade
  <2> QED
    BY <2>2, <2>3, <2>4, <2>5 DEF DeadlineSet, AuthDeadlineCovered, Open, Listed, Authed
<1>3. ASSUME NEW w \in Sockets, FirstMessage(w) \/ Goodbye(w) \/ WebSocketGone(w)
      PROVE  DeadlineSet' /\ EmptyWithoutRoom' /\ AuthDeadlineCovered'
  BY <1>3, MessageDeadlines
<1>4. CASE AlarmExpired
  BY <1>4 DEF AlarmExpired, ClosedAtEnd, Close, Deadlines, TypeOK, DeadlineSet,
              EmptyWithoutRoom, AuthDeadlineCovered, Open, Listed, Authed
<1>5. CASE AlarmAuthTimeout
  <2>1. UNCHANGED <<expiresIn, att, authIn>> /\ Close(Overdue)
    BY <1>5 DEF AlarmAuthTimeout
  <2>2. DeadlineSet' /\ EmptyWithoutRoom'
    BY <2>1 DEF Close, Deadlines, TypeOK, DeadlineSet, EmptyWithoutRoom, RoomExists,
                Open, Listed, Authed
  <2>3. NoTime \in Int /\ NoTime >= NoTime
    BY DEF NoTime
  <2>4. \A v \in Sockets :
            sock'[v] # "none" /\ att[v] = Unauth /\ authIn[v] # NoTime =>
                alarmIn' # NoTime /\ (alarmIn' <= authIn[v] \/ alarmIn' <= MinAlarmDelay)
    BY <1>5, <2>3, NextAlarmCovers DEF Deadlines, TypeOK, AlarmAuthTimeout
  <2> QED
    BY <2>1, <2>2, <2>4 DEF DeadlineSet, AuthDeadlineCovered, Open, Listed, Authed
<1>6. CASE Tick
  <2>1. \A w \in Sockets :
            /\ authIn[w] \in Int /\ authIn[w] >= NoTime
            /\ authIn'[w] = Elapse(authIn[w])
    BY <1>6 DEF Deadlines, TypeOK, Tick, Time, NoTime
  <2>2. alarmIn # 0 /\ alarmIn' = Elapse(alarmIn) /\ alarmIn \in Int
    BY <1>6 DEF Deadlines, TypeOK, Tick
  <2>3. DeadlineSet'
    BY <1>6, <2>1 DEF Tick, Deadlines, DeadlineSet, Listed, Authed, Elapse, NoTime
  <2>4. EmptyWithoutRoom'
    BY <1>6 DEF Tick, Deadlines, TypeOK, EmptyWithoutRoom, RoomExists, Open, Elapse, Time, NoTime
  <2> QED
    BY <1>6, <2>1, <2>2, <2>3, <2>4
       DEF Tick, Deadlines, AuthDeadlineCovered, Open, Listed, Authed, Elapse, NoTime
<1>7. CASE Restart
  BY <1>7 DEF Restart, DeadlineSet, EmptyWithoutRoom, AuthDeadlineCovered, Open, Listed
<1>8. CASE UNCHANGED vars
  BY <1>8, AlarmUntouched DEF vars, Open, Listed, Authed
<1> QED
  BY <1>1, <1>2, <1>3, <1>4, <1>5, <1>6, <1>7, <1>8 DEF NextNoTakeover, SocketEvent, Alarm

LEMMA DeadlinesInvariant ==
  /\ Init => Deadlines
  /\ Deadlines /\ [NextNoTakeover]_vars => Deadlines'
<1>1. Init => Deadlines
  BY InitTypes DEF Init, Deadlines, DeadlineSet, EmptyWithoutRoom, AuthDeadlineCovered,
                   Open, Listed
<1>2. Deadlines /\ [NextNoTakeover]_vars => [Next]_vars /\ TypeOK
  BY DEF NextNoTakeover, Next, Deadlines
<1>3. Deadlines /\ [NextNoTakeover]_vars => TypeOK'
  BY <1>2, TypeOKStep
<1> QED
  BY <1>1, <1>3, DeadlinesStep DEF Deadlines

\* Unless a room is re-created over an expired one, an open socket that has not
\* authenticated always has an alarm by its deadline (or within MinAlarmDelay),
\* whichever handler set the alarm last.
THEOREM DeadlinesAreCovered == NoTakeoverSpec => []AuthDeadlineCovered
<1>1. Deadlines => AuthDeadlineCovered
  BY DEF Deadlines
<1> QED
  BY <1>1, DeadlinesInvariant, PTL DEF NoTakeoverSpec

----------------------------------------------------------------------------
(* Identities and presence *)

\* A socket that is gone left no identity behind.
SlotsClean == \A w \in Sockets : sock[w] = "none" => att[w] = Unauth

\* What a step can do to the identities of sockets: take them away, or give one
\* to a socket in handleAuth.
LEMMA SocketSteps ==
  ASSUME TypeOK, SlotsClean, [Next]_vars
  PROVE  \/ \A w \in Sockets : w \in Authed' => w \in Authed /\ att'[w] = att[w]
         \/ \E w \in Sockets, s \in Sessions : AuthReconnect(w, s) \/ AuthNew(w, s)
<1> USE DEF TypeOK, Authed, Listed
<1>1. ASSUME NEW w \in Sockets, HandleWebSocketUpgrade(w)
      PROVE  \A v \in Sockets : v \in Authed' => v \in Authed /\ att'[v] = att[v]
  BY <1>1 DEF HandleWebSocketUpgrade, SlotsClean
<1>2. ASSUME NEW w \in Sockets,
             \/ RejectFirstMessage(w) \/ AuthWithoutRoom(w)
             \/ Goodbye(w) \/ \E s \in Sessions : AuthFull(w, s)
      PROVE  \A v \in Sockets : v \in Authed' => v \in Authed /\ att'[v] = att[v]
  BY <1>2 DEF RejectFirstMessage, AuthWithoutRoom, Goodbye, AuthFull, Close
<1>3. ASSUME NEW w \in Sockets, WebSocketGone(w)
      PROVE  \A v \in Sockets : v \in Authed' => v \in Authed /\ att'[v] = att[v]
  BY <1>3 DEF WebSocketGone
<1>4. CASE HandleInit \/ AlarmExpired \/ AlarmAuthTimeout \/ Tick \/ UNCHANGED vars
  BY <1>4 DEF HandleInit, AlarmExpired, AlarmAuthTimeout, Tick, vars, Close
<1>5. CASE Restart
  BY <1>5 DEF Restart
<1> QED
  BY <1>1, <1>2, <1>3, <1>4, <1>5 DEF Next, SocketEvent, FirstMessage, Alarm

LEMMA SlotsCleanStep ==
  ASSUME TypeOK, SlotsClean, [Next]_vars
  PROVE  SlotsClean'
<1> USE DEF TypeOK, SlotsClean
<1>1. ASSUME NEW w \in Sockets, HandleWebSocketUpgrade(w) PROVE SlotsClean'
  BY <1>1 DEF HandleWebSocketUpgrade
<1>2. ASSUME NEW w \in Sockets,
             \/ RejectFirstMessage(w) \/ AuthWithoutRoom(w)
             \/ Goodbye(w) \/ \E s \in Sessions : AuthFull(w, s)
      PROVE  SlotsClean'
  BY <1>2 DEF RejectFirstMessage, AuthWithoutRoom, Goodbye, AuthFull, Close
<1>3. ASSUME NEW w \in Sockets, NEW s \in Sessions,
             AuthReconnect(w, s) \/ AuthNew(w, s)
      PROVE  SlotsClean'
  <2>1. w \in Listed /\ \E S : Close(S)
    BY <1>3 DEF AuthReconnect, AuthNew
  <2>2. \A v \in Sockets : sock'[v] = "none" => sock[v] = "none" /\ v # w
    BY <2>1 DEF Close, Listed
  <2>3. \E identity : att' = [att EXCEPT ![w] = identity]
    BY <1>3 DEF AuthReconnect, AuthNew, SetAuthenticated
  <2>4. \A v \in Sockets \ {w} : att'[v] = att[v]
    BY <2>3
  <2> QED
    BY <2>2, <2>4
<1>4. ASSUME NEW w \in Sockets, WebSocketGone(w) PROVE SlotsClean'
  BY <1>4 DEF WebSocketGone
<1>5. CASE HandleInit \/ AlarmExpired \/ AlarmAuthTimeout \/ Tick \/ UNCHANGED vars
  BY <1>5 DEF HandleInit, AlarmExpired, AlarmAuthTimeout, Tick, vars, Close
<1>6. CASE Restart
  BY <1>6 DEF Restart
<1> QED
  BY <1>1, <1>2, <1>3, <1>4, <1>5, <1>6 DEF Next, SocketEvent, FirstMessage, Alarm

\* Identities are copied from rows, and rows get fresh identifiers.
LEMMA OnePidStep ==
  ASSUME TypeOK, SlotsClean, OnePidOnePerson, [Next]_vars
  PROVE  OnePidOnePerson'
<1>1. ASSUME \A s \in Sessions : rows'[s] \in {rows[s], NoRow},
             \A w \in Sockets : w \in Authed' => w \in Authed /\ att'[w] = att[w]
      PROVE  OnePidOnePerson'
  <2>1. \A s \in Registered' : s \in Registered /\ rows'[s] = rows[s]
    BY <1>1 DEF Registered
  <2>2. \A w \in Authed' : w \in Authed /\ att'[w] = att[w]
    BY <1>1 DEF Authed, Listed
  <2> QED
    BY <2>1, <2>2 DEF OnePidOnePerson, IdentityOf
<1>2. ASSUME NEW w \in Sockets, NEW s \in Sessions, AuthReconnect(w, s)
      PROVE  OnePidOnePerson'
  <2>1. rows' = rows /\ s \in Registered
    BY <1>2 DEF AuthReconnect
  <2>2. att' = [att EXCEPT ![w] = IdentityOf(s)]
    BY <1>2 DEF AuthReconnect, SetAuthenticated, IdentityOf
  <2>3. att'[w] = IdentityOf(s) /\ att'[w].pid = rows[s].pid
    BY <2>2 DEF TypeOK, IdentityOf
  <2>4. \A v \in Authed' \ {w} : v \in Authed /\ att'[v] = att[v]
    BY <1>2, <2>2 DEF AuthReconnect, Close, Authed, Listed, TypeOK
  <2>5. \A t \in Sessions : IdentityOf(t)' = IdentityOf(t)
    BY <2>1 DEF IdentityOf
  <2>6. Registered' = Registered
    BY <2>1 DEF Registered
  <2>7. \A v \in Authed' : att'[v].pid = rows[s].pid => att'[v] = IdentityOf(s)
    BY <2>1, <2>3, <2>4 DEF OnePidOnePerson
  <2>8. \A t, u \in Registered' : rows'[t].pid = rows'[u].pid => t = u
    BY <2>1, <2>6 DEF OnePidOnePerson
  <2>9. \A v, u \in Authed' : att'[v].pid = att'[u].pid => att'[v] = att'[u]
    BY <2>3, <2>4, <2>7 DEF OnePidOnePerson
  <2>10. ASSUME NEW t \in Registered', NEW v \in Authed', rows'[t].pid = att'[v].pid
         PROVE  att'[v] = IdentityOf(t)'
    <3>1. t \in Registered /\ t \in Sessions /\ rows[t].pid = att'[v].pid
      BY <2>1, <2>6, <2>10 DEF Registered
    <3>2. CASE v = w
      BY <2>1, <2>3, <2>5, <3>1, <3>2 DEF OnePidOnePerson
    <3>3. CASE v # w
      BY <2>4, <2>5, <3>1, <3>3 DEF OnePidOnePerson
    <3> QED
      BY <3>2, <3>3
  <2> QED
    BY <2>8, <2>9, <2>10 DEF OnePidOnePerson
<1>3. ASSUME NEW w \in Sockets, NEW s \in Sessions, AuthNew(w, s)
      PROVE  OnePidOnePerson'
  <2>1. NewPid \notin UsedPids
    BY <1>3, NewPidIsFresh DEF AuthNew
  <2>2. rows'[s].pid = NewPid
    BY <1>3, AuthNewRows
  <2>3. \A t \in Registered' \ {s} :
          t \in Registered /\ rows'[t] = rows[t] /\ rows[t].pid # NewPid
    BY <1>3, <2>1, AuthNewRows DEF Registered, UsedPids
  <2>4. att'[w] = IdentityOf(s)'
    BY <1>3, AuthNewRows DEF AuthNew, SetAuthenticated, IdentityOf, TypeOK
  <2>5. \A v \in Authed' \ {w} :
          v \in Authed /\ att'[v] = att[v] /\ att[v].pid # NewPid
    BY <1>3, <2>1 DEF AuthNew, SetAuthenticated, Close, Authed, Listed, UsedPids, TypeOK
  <2>6. \A t \in Registered' \ {s} : IdentityOf(t)' = IdentityOf(t)
    BY <2>3 DEF IdentityOf
  <2>7. att'[w].pid = NewPid
    BY <2>2, <2>4 DEF IdentityOf
  <2>8. \A t, u \in Registered' : rows'[t].pid = rows'[u].pid => t = u
    BY <2>2, <2>3 DEF OnePidOnePerson
  <2>9. \A v, u \in Authed' : att'[v].pid = att'[u].pid => att'[v] = att'[u]
    BY <2>5, <2>7 DEF OnePidOnePerson
  <2>10. \A t \in Registered', v \in Authed' :
           rows'[t].pid = att'[v].pid => att'[v] = IdentityOf(t)'
    BY <2>2, <2>3, <2>4, <2>5, <2>6, <2>7 DEF OnePidOnePerson
  <2> QED
    BY <2>8, <2>9, <2>10 DEF OnePidOnePerson
<1> QED
  BY <1>1, <1>2, <1>3, TableSteps, SocketSteps

\* A participant id never stands for two people, across replacements,
\* departures, evictions and rooms: what clients key their lists by is sound.
THEOREM PidsIdentify == Spec => []OnePidOnePerson
<1>1. Init => SlotsClean /\ OnePidOnePerson
  BY DEF Init, SlotsClean, OnePidOnePerson, Registered, Authed, Listed
<1>2. TypeOK /\ SlotsClean /\ OnePidOnePerson /\ [Next]_vars
        => SlotsClean' /\ OnePidOnePerson'
  BY SlotsCleanStep, OnePidStep
<1> QED
  BY <1>1, <1>2, TypeCorrect, PTL DEF Spec

\* The ids carried by the sockets that w would hear leave.
PeerPids(w) == {att[v].pid : v \in AuthedPeers(w)}

LEMMA NoGhostStep ==
  ASSUME TypeOK, SlotsClean, NoGhostPeers, [Next]_vars
  PROVE  NoGhostPeers'
<1> USE DEF TypeOK
\* A step that takes no identity away and tells nobody anything.
<1>1. ASSUME \A w \in Sockets : w \in Authed' <=> w \in Authed,
             att' = att,
             \A w \in Open' \cap Authed' : w \in Open /\ known'[w] \subseteq known[w]
      PROVE  NoGhostPeers'
  <2>1. Authed' = Authed
    BY <1>1 DEF Authed, Listed
  <2>2. \A w \in Sockets : PeerPids(w)' = PeerPids(w)
    BY <1>1, <2>1 DEF PeerPids, AuthedPeers
  <2>3. \A w \in Open' \cap Authed' : w \in Open \cap Authed /\ w \in Sockets
    BY <1>1, <2>1 DEF Open
  <2> QED
    BY <1>1, <2>2, <2>3 DEF NoGhostPeers, PeerPids
<1>2. ASSUME NEW w \in Sockets, HandleWebSocketUpgrade(w) PROVE NoGhostPeers'
  <2>1. att' = att /\ known' = known /\ att[w] = Unauth
    BY <1>2 DEF HandleWebSocketUpgrade, SlotsClean
  <2>2. \A v \in Sockets : v \in Authed' <=> v \in Authed
    BY <1>2, <2>1 DEF HandleWebSocketUpgrade, Authed, Listed
  <2>3. \A v \in Open' \cap Authed' : v \in Open
    BY <1>2, <2>1 DEF HandleWebSocketUpgrade, Open, Authed
  <2> QED
    BY <1>1, <2>1, <2>2, <2>3
<1>3. ASSUME NEW w \in Sockets,
             \/ RejectFirstMessage(w) \/ AuthWithoutRoom(w)
             \/ \E s \in Sessions : AuthFull(w, s)
      PROVE  NoGhostPeers'
  <2>1. att' = att /\ known' = known
    BY <1>3 DEF RejectFirstMessage, AuthWithoutRoom, AuthFull
  <2>2. \A v \in Sockets : /\ v \in Listed' <=> v \in Listed
                           /\ v \in Open' => v \in Open
    BY <1>3 DEF RejectFirstMessage, AuthWithoutRoom, AuthFull,
                Close, Listed, Open
  <2> QED
    BY <1>1, <2>1, <2>2 DEF Authed, Listed, Open
<1>4. ASSUME NEW w \in Sockets, Goodbye(w) PROVE NoGhostPeers'
  <2>1. att' = att
    BY <1>4 DEF Goodbye
  <2>2. \A v \in Sockets : /\ v \in Listed' <=> v \in Listed
                           /\ v \in Open' => v \in Open
    BY <1>4 DEF Goodbye, Close, Listed, Open
  <2>3. \A v \in Sockets : known'[v] \subseteq known[v]
    BY <1>4 DEF Goodbye, ClientsKnow
  <2> QED
    BY <1>1, <2>1, <2>2, <2>3 DEF Authed, Listed, Open
<1>5. ASSUME NEW w \in Sockets, NEW pid, NEW replaced, NEW identity,
             w \in Listed \ Authed,
             identity \in Identity, identity.pid = pid,
             Close(replaced), SetAuthenticated(w, identity),
             Announce(w, pid, AuthedPeers(w) \ replaced)
      PROVE  NoGhostPeers'
  <2>1. \A v \in Sockets \ {w} : att'[v] = att[v]
    BY <1>5 DEF SetAuthenticated
  <2>2. att'[w] = identity
    BY <1>5 DEF SetAuthenticated
  <2>3. \A v \in Sockets : v \in Listed' <=> v \in Listed
    BY <1>5 DEF Close, Listed
  <2>4. identity # Unauth
    <3>1. identity.session \in Sessions
      BY <1>5 DEF Identity
    <3>2. Unauth.session = NoSession
      BY DEF Unauth
    <3> QED
      BY <3>1, <3>2, SessionsAssumption
  <2>5. \A v \in Sockets \ {w} : v \in Authed' <=> v \in Authed
    BY <2>1, <2>3 DEF Authed, Listed
  <2>6. w \in Authed'
    BY <1>5, <2>2, <2>3, <2>4 DEF Authed
  <2>7. ASSUME NEW v \in Open' \cap Authed', NEW p \in known'[v]
        PROVE  \E u \in AuthedPeers(v)' : att'[u].pid = p
    <3>1. CASE v = w
      <4>1. known'[w] = {att[u].pid : u \in AuthedPeers(w) \ replaced}
        <5>1. sock'[w] = "open"
          BY <2>7, <3>1 DEF Open
        <5>2. w \notin AuthedPeers(w) \ replaced
          BY DEF AuthedPeers
        <5> QED
          BY <1>5, <5>1, <5>2 DEF Announce, ClientsKnow
      <4>2. PICK u \in AuthedPeers(w) : att[u].pid = p
        BY <2>7, <3>1, <4>1
      <4>3. u \in Authed' /\ u # w /\ att'[u].pid = p
        BY <2>1, <2>5, <4>2 DEF AuthedPeers, Authed, Listed
      <4> QED
        BY <3>1, <4>3 DEF AuthedPeers
    <3>2. CASE v # w
      <4>1. v \in Sockets /\ v \in Authed /\ v \in Open
        BY <1>5, <2>5, <2>7, <3>2 DEF Open, Close
      <4>2. known'[v] \subseteq known[v] \cup {pid}
        BY <1>5, <3>2, <4>1 DEF Announce, ClientsKnow
      <4>3. CASE p = pid
        BY <1>5, <2>2, <2>6, <3>2, <4>3 DEF AuthedPeers
      <4>4. CASE p # pid
        <5>1. p \in known[v]
          BY <2>7, <4>2, <4>4
        <5>2. PICK u \in AuthedPeers(v) : att[u].pid = p
          BY <4>1, <5>1 DEF NoGhostPeers
        <5>3. u \in Authed' /\ u # v /\ att'[u].pid = p
          BY <1>5, <2>1, <2>5, <5>2 DEF AuthedPeers, Authed, Listed
        <5> QED
          BY <5>3 DEF AuthedPeers
      <4> QED
        BY <4>3, <4>4
    <3> QED
      BY <3>1, <3>2
  <2> QED
    BY <2>7 DEF NoGhostPeers
<1>6. ASSUME NEW w \in Sockets, NEW s \in Sessions, AuthReconnect(w, s)
      PROVE  NoGhostPeers'
  <2> DEFINE identity == [session |-> s, role |-> rows[s].role, pid |-> rows[s].pid]
  <2>1. PICK replaced : /\ Close(replaced)
                        /\ SetAuthenticated(w, identity)
                        /\ Announce(w, rows[s].pid, AuthedPeers(w) \ replaced)
    BY <1>6 DEF AuthReconnect
  <2>2. w \in Listed \ Authed /\ s \in Registered
    BY <1>6 DEF AuthReconnect
  <2>3. identity \in Identity /\ identity.pid = rows[s].pid
    BY <2>2, RowTypes DEF Row, Identity
  <2> QED
    BY <1>5, <2>1, <2>2, <2>3
<1>7. ASSUME NEW w \in Sockets, NEW s \in Sessions, AuthNew(w, s)
      PROVE  NoGhostPeers'
  <2> DEFINE identity == [session |-> s, role |-> NewRole, pid |-> NewPid]
  <2>1. /\ w \in Listed \ Authed
        /\ Close({})
        /\ SetAuthenticated(w, identity)
        /\ Announce(w, NewPid, AuthedPeers(w) \ {})
    BY <1>7 DEF AuthNew
  <2>2. identity \in Identity /\ identity.pid = NewPid
    BY <1>7, NewPidIsFresh DEF AuthNew, Identity, Roles, NewRole
  <2> QED
    BY <1>5, <2>1, <2>2
<1>8. ASSUME NEW w \in Sockets, WebSocketGone(w) PROVE NoGhostPeers'
  <2>1. ASSUME NEW v \in Sockets \ {w}
        PROVE  /\ att'[v] = att[v]
               /\ v \in Authed' <=> v \in Authed
               /\ v \in Open' => v \in Open
    <3>1. att'[v] = att[v] /\ sock'[v] = sock[v]
      BY <1>8 DEF WebSocketGone
    <3> QED
      BY <3>1 DEF Authed, Listed, Open
  <2>2. w \notin Authed' /\ w \notin Open'
    BY <1>8 DEF WebSocketGone, Authed, Listed, Open
  <2>3. ASSUME NEW v \in Open' \cap Authed', NEW p \in known'[v]
        PROVE  \E u \in AuthedPeers(v)' : att'[u].pid = p
    <3>1. v \in Sockets /\ v # w /\ v \in Authed /\ v \in Open
      <4>1. v \in Sockets /\ v # w
        BY <2>2, <2>3 DEF Open
      <4> QED
        BY <2>1, <2>3, <4>1
    <3>2. p \in known[v] /\ (w \in Authed => p # att[w].pid)
      BY <1>8, <2>3, <3>1 DEF WebSocketGone, ClientsKnow, Open, Departed
    <3>3. PICK u \in AuthedPeers(v) : att[u].pid = p
      BY <3>1, <3>2 DEF NoGhostPeers
    <3>4. u \in Sockets /\ u \in Authed /\ u # w /\ u # v
      BY <3>2, <3>3 DEF AuthedPeers, Authed, Listed
    <3> QED
      BY <2>1, <3>3, <3>4 DEF AuthedPeers
  <2> QED
    BY <2>3 DEF NoGhostPeers
<1>9. CASE AlarmExpired
  <2>1. Open' = {}
    BY <1>9 DEF AlarmExpired, ClosedAtEnd, Close, Listed, Open
  <2> QED
    BY <2>1 DEF NoGhostPeers
<1>10. CASE AlarmAuthTimeout
  <2>1. att' = att /\ known' = known
    BY <1>10 DEF AlarmAuthTimeout
  <2>2. \A v \in Sockets : /\ v \in Listed' <=> v \in Listed
                           /\ v \in Open' => v \in Open
    BY <1>10 DEF AlarmAuthTimeout, Close, Listed, Open
  <2> QED
    BY <1>1, <2>1, <2>2 DEF Authed, Listed, Open
<1>11. CASE HandleInit \/ Tick \/ UNCHANGED vars
  <2>1. sock' = sock /\ att' = att /\ known' = known
    BY <1>11 DEF HandleInit, Tick, vars
  <2> QED
    BY <1>1, <2>1 DEF Authed, Listed, Open
<1>12. CASE Restart
  <2>1. Open' = {}
    BY <1>12 DEF Restart, Open
  <2> QED
    BY <2>1 DEF NoGhostPeers
<1> QED
  BY <1>2, <1>3, <1>4, <1>6, <1>7, <1>8, <1>9, <1>10, <1>11, <1>12
     DEF Next, SocketEvent, FirstMessage, Alarm

\* Nobody's participant list names someone who is not in the room: the peer-left
\* of notifyPeerLeft reaches every list the id is in.
THEOREM NoGhosts == Spec => []NoGhostPeers
<1>1. Init => SlotsClean /\ NoGhostPeers
  BY DEF Init, SlotsClean, NoGhostPeers, Open
<1>2. TypeOK /\ SlotsClean /\ NoGhostPeers /\ [Next]_vars
        => SlotsClean' /\ NoGhostPeers'
  BY SlotsCleanStep, NoGhostStep
<1> QED
  BY <1>1, <1>2, TypeCorrect, PTL DEF Spec

----------------------------------------------------------------------------
(* A calm environment: one socket for each session *)

Present == Open \cap Authed

\* An accepted handleAuth, of a new participant or of one who is back.
LEMMA Joined ==
  ASSUME TypeOK, NEW w \in Sockets, NEW s \in Sessions,
         AuthReconnect(w, s) \/ AuthNew(w, s)
  PROVE  \E replaced :
             /\ w \in Listed \ Authed
             /\ Close(replaced)
             /\ SetAuthenticated(w, IdentityOf(s)')
             /\ Announce(w, IdentityOf(s)'.pid, AuthedPeers(w) \ replaced)
<1>1. CASE AuthReconnect(w, s)
  <2>1. rows' = rows
    BY <1>1 DEF AuthReconnect
  <2>2. IdentityOf(s)' = [session |-> s, role |-> rows[s].role, pid |-> rows[s].pid]
    BY <2>1 DEF IdentityOf
  <2>3. IdentityOf(s)'.pid = rows[s].pid
    BY <2>2
  <2> QED
    BY <1>1, <2>2, <2>3 DEF AuthReconnect
<1>2. CASE AuthNew(w, s)
  <2>1. IdentityOf(s)' = [session |-> s, role |-> NewRole, pid |-> NewPid]
    BY <1>2, AuthNewRows DEF IdentityOf
  <2>2. IdentityOf(s)'.pid = NewPid
    BY <2>1
  <2>3. Announce(w, NewPid, AuthedPeers(w) \ {})
    BY <1>2 DEF AuthNew
  <2> QED
    BY <1>2, <2>1, <2>2, <2>3 DEF AuthNew
<1> QED
  BY <1>1, <1>2

\* Who is present after it: w, and those who were, but for who is replaced.
LEMMA PresentAfterJoin ==
  ASSUME TypeOK, NEW w \in Sockets, NEW identity, NEW replaced,
         Close(replaced), SetAuthenticated(w, identity)
  PROVE  /\ att'[w] = identity
         /\ \A v \in Present' \ {w} :
                v \in Present /\ v \notin replaced /\ att'[v] = att[v]
<1>1. att'[w] = identity /\ \A v \in Sockets \ {w} : att'[v] = att[v]
  BY DEF TypeOK, SetAuthenticated
<1>2. \A v \in Open' : v \in Open /\ v \notin replaced
  BY DEF Close, Open
<1> QED
  BY <1>1, <1>2 DEF Present, Open, Authed, Listed

\* Nothing else makes anybody present.
LEMMA PresentStep ==
  ASSUME TypeOK, SlotsClean, [NextNoTakeover]_vars
  PROVE  \/ \A v \in Present' : v \in Present /\ att'[v] = att[v]
         \/ \E w \in Sockets, s \in Sessions : AuthReconnect(w, s) \/ AuthNew(w, s)
<1>1. ASSUME NEW w \in Sockets, HandleWebSocketUpgrade(w)
      PROVE  \A v \in Present' : v \in Present /\ att'[v] = att[v]
  BY <1>1 DEF HandleWebSocketUpgrade, SlotsClean, TypeOK, Present, Open, Authed, Listed
<1>2. ASSUME NEW w \in Sockets,
             \/ RejectFirstMessage(w) \/ AuthWithoutRoom(w) \/ Goodbye(w)
             \/ \E s \in Sessions : AuthFull(w, s)
      PROVE  \A v \in Present' : v \in Present /\ att'[v] = att[v]
  <2>1. att' = att /\ Close({w})
    BY <1>2 DEF RejectFirstMessage, AuthWithoutRoom, Goodbye, AuthFull
  <2> QED
    BY <2>1 DEF Close, Present, Open, Authed, Listed
<1>3. ASSUME NEW w \in Sockets, WebSocketGone(w)
      PROVE  \A v \in Present' : v \in Present /\ att'[v] = att[v]
  BY <1>3 DEF WebSocketGone, TypeOK, Present, Open, Authed, Listed
<1>4. CASE AlarmExpired \/ AlarmAuthTimeout
  <2>1. att' = att /\ \E S : Close(S)
    BY <1>4 DEF AlarmExpired, AlarmAuthTimeout
  <2> QED
    BY <2>1 DEF Close, Present, Open, Authed, Listed
<1>5. CASE HandleInit \/ Tick \/ UNCHANGED vars
  BY <1>5 DEF HandleInit, Tick, vars, Present, Open, Authed, Listed
<1>6. CASE Restart
  BY <1>6 DEF Restart, Present, Open
<1> QED
  BY <1>1, <1>2, <1>3, <1>4, <1>5, <1>6
     DEF NextNoTakeover, SocketEvent, FirstMessage, Alarm

\* The rows of those who stay are left alone: an eviction spares them, and a goodbye
\* is theirs only if they go.
LEMMA RowsOfPresent ==
  ASSUME TypeOK, SlotsClean, NoOverlap, EmptyWithoutRoom, ConnectedAreRegistered,
         [NextNoTakeover]_vars,
         NEW v \in Present, v \in Present', att'[v] = att[v]
  PROVE  rows'[att[v].session] = rows[att[v].session]
<1> DEFINE t == att[v].session
<1>1. v \in Sockets /\ v \in Open /\ v \in Authed /\ v \in Open' /\ t \in Sessions
  BY RowTypes DEF Present, Open, Identity
<1>2. rows[t] # NoRow
  <2>1. att[v] \in Identity /\ att[v] = IdentityOf(t)
    BY <1>1, RowTypes DEF ConnectedAreRegistered
  <2>2. att[v].role \in Roles /\ att[v].role = rows[t].role
    BY <2>1 DEF Identity, IdentityOf
  <2>3. NoRow.role \notin Roles
    BY DEF NoRow, Roles
  <2> QED
    BY <2>2, <2>3
<1>3. t \in Connected /\ t \in Registered
  BY <1>1, <1>2 DEF Connected, Registered
<1>4. ~HandleInit \/ RoomExists
  BY <1>1 DEF EmptyWithoutRoom
<1>5. RowsAfterCheck[t] = rows[t]
  BY <1>1, <1>3 DEF RowsAfterCheck, RowsIfEvicted
<1>6. ASSUME NEW w \in Sockets, NEW s \in Sessions, AuthNew(w, s) \/ AuthFull(w, s)
      PROVE  rows'[t] = rows[t]
  <2>1. CASE AuthFull(w, s)
    BY <1>5, <2>1 DEF AuthFull
  <2>2. CASE AuthNew(w, s)
    <3>1. s # t
      BY <1>3, <2>2 DEF AuthNew
    <3> QED
      BY <1>1, <1>5, <2>2, <3>1, AuthNewRows
  <2> QED
    BY <1>6, <2>1, <2>2
<1>7. ASSUME NEW w \in Sockets, Goodbye(w) PROVE rows'[t] = rows[t]
  <2>1. w \in Authed /\ v # w
    BY <1>1, <1>7 DEF Goodbye, Close, Open
  <2>2. att[w].session # t
    BY <1>1, <2>1 DEF NoOverlap
  <2> QED
    BY <1>7, <2>2 DEF Goodbye, TypeOK
<1>8. ~AlarmExpired
  BY <1>1 DEF AlarmExpired, ClosedAtEnd, Close, Open, Listed
<1>9. ASSUME NEW w \in Sockets,
             \/ HandleWebSocketUpgrade(w) \/ RejectFirstMessage(w)
             \/ AuthWithoutRoom(w) \/ WebSocketGone(w)
             \/ \E s \in Sessions : AuthReconnect(w, s)
      PROVE  rows' = rows
  BY <1>9 DEF HandleWebSocketUpgrade, RejectFirstMessage, AuthWithoutRoom, WebSocketGone,
              AuthReconnect
<1>10. CASE AlarmAuthTimeout \/ Tick \/ Restart \/ UNCHANGED vars
  BY <1>10 DEF AlarmAuthTimeout, Tick, Restart, vars
<1> QED
  BY <1>4, <1>6, <1>7, <1>8, <1>9, <1>10
     DEF NextNoTakeover, SocketEvent, FirstMessage, Alarm

LEMMA RegisteredStep ==
  ASSUME TypeOK, SlotsClean, NoOverlap, EmptyWithoutRoom, ConnectedAreRegistered,
         [NextNoTakeover]_vars
  PROVE  ConnectedAreRegistered'
<1>1. ASSUME NEW v \in Present', v \in Present, att'[v] = att[v]
      PROVE  att'[v] = IdentityOf(att[v].session)'
  BY <1>1, RowsOfPresent DEF ConnectedAreRegistered, IdentityOf, Present
<1>2. CASE \A v \in Present' : v \in Present /\ att'[v] = att[v]
  BY <1>1, <1>2 DEF ConnectedAreRegistered, Present
<1>3. ASSUME NEW w \in Sockets, NEW s \in Sessions, AuthReconnect(w, s) \/ AuthNew(w, s)
      PROVE  ConnectedAreRegistered'
  <2>1. PICK replaced : Close(replaced) /\ SetAuthenticated(w, IdentityOf(s)')
    BY <1>3, Joined
  <2>2. att'[w] = IdentityOf(s)' /\ IdentityOf(s)'.session = s
    BY <2>1, PresentAfterJoin DEF IdentityOf
  <2>3. \A v \in Present' \ {w} : v \in Present /\ att'[v] = att[v]
    BY <2>1, PresentAfterJoin
  <2> QED
    BY <1>1, <2>2, <2>3 DEF ConnectedAreRegistered, Present
<1> QED
  BY <1>2, <1>3, PresentStep

LEMMA PeersKnownStep ==
  ASSUME TypeOK, SlotsClean, OnePidOnePerson, NoOverlap, PeersKnown, [NextNoTakeover]_vars
  PROVE  PeersKnown'
\* A step that takes nobody away from those who stay, out of their lists.
<1>1. ASSUME \A v \in Present' : v \in Present /\ att'[v] = att[v],
             \A v, u \in Present' :
                 v # u /\ att[v].pid \in known[u] => att[v].pid \in known'[u]
      PROVE  PeersKnown'
  BY <1>1 DEF PeersKnown, Present
<1>2. ASSUME NEW w \in Sockets, Goodbye(w) \/ WebSocketGone(w) PROVE PeersKnown'
  <2>1. \A v \in Present' : v \in Present /\ att'[v] = att[v] /\ v # w
    BY <1>2 DEF Goodbye, WebSocketGone, Close, TypeOK, Present, Open, Authed, Listed
  <2>2. \A u \in Present' : known'[u] = known[u] \ Departed(w)
    BY <1>2 DEF Goodbye, WebSocketGone, ClientsKnow, Present, Open
  <2>3. \A v \in Present' : att[v].pid \notin Departed(w)
    BY <2>1 DEF Departed, Present, OnePidOnePerson, NoOverlap
  <2> QED
    BY <1>1, <2>1, <2>2, <2>3
<1>3. CASE AlarmExpired \/ Restart
  <2>1. Open' = {}
    BY <1>3 DEF AlarmExpired, ClosedAtEnd, Close, Listed, Restart, Open
  <2> QED
    BY <2>1 DEF PeersKnown
<1>4. CASE /\ known' = known
           /\ \A v \in Present' : v \in Present /\ att'[v] = att[v]
  BY <1>1, <1>4
<1>5. ASSUME NEW w \in Sockets,
             \/ HandleWebSocketUpgrade(w) \/ RejectFirstMessage(w) \/ AuthWithoutRoom(w)
             \/ \E s \in Sessions : AuthFull(w, s)
      PROVE  known' = known
  BY <1>5 DEF HandleWebSocketUpgrade, RejectFirstMessage, AuthWithoutRoom, AuthFull
<1>6. ASSUME HandleInit \/ AlarmAuthTimeout \/ Tick \/ UNCHANGED vars PROVE known' = known
  BY <1>6 DEF HandleInit, AlarmAuthTimeout, Tick, vars
<1>7. ASSUME NEW w \in Sockets, NEW s \in Sessions, AuthReconnect(w, s) \/ AuthNew(w, s)
      PROVE  PeersKnown'
  <2> DEFINE identity == IdentityOf(s)'
  <2>1. PICK replaced : /\ w \in Listed \ Authed
                        /\ Close(replaced)
                        /\ SetAuthenticated(w, identity)
                        /\ Announce(w, identity.pid, AuthedPeers(w) \ replaced)
    BY <1>7, Joined
  <2> HIDE DEF identity
  <2>2. /\ att'[w] = identity
        /\ \A v \in Present' \ {w} : v \in Present /\ v \notin replaced /\ att'[v] = att[v]
    BY <2>1, PresentAfterJoin
  <2>3. \A v \in Present' : v \in Sockets /\ sock'[v] = "open"
    BY DEF Present, Open
  <2>4. w \in Present' => known'[w] = {att[p].pid : p \in AuthedPeers(w) \ replaced}
    <3>1. w \notin AuthedPeers(w)
      BY DEF AuthedPeers
    <3> QED
      BY <2>1, <2>3, <3>1 DEF Announce, ClientsKnow
  <2>5. \A v \in Present' \ {w} : v \in AuthedPeers(w) \ replaced
    BY <2>2 DEF Present, AuthedPeers
  <2>6. \A v \in Present' \ {w} : known'[v] = known[v] \cup {identity.pid}
    BY <2>1, <2>3, <2>5 DEF Announce, ClientsKnow
  <2>7. ASSUME NEW v \in Present', NEW u \in Present', att'[v].session # att'[u].session
        PROVE  att'[v].pid \in known'[u]
    <3>1. CASE u = w
      BY <2>2, <2>4, <2>5, <2>7, <3>1
    <3>2. CASE v = w
      BY <2>2, <2>6, <2>7, <3>2
    <3>3. CASE u # w /\ v # w
      BY <2>2, <2>6, <2>7, <3>3 DEF PeersKnown, Present
    <3> QED
      BY <3>1, <3>2, <3>3
  <2> QED
    BY <2>7 DEF PeersKnown, Present
<1> QED
  BY <1>2, <1>3, <1>4, <1>5, <1>6, <1>7, PresentStep
     DEF NextNoTakeover, SocketEvent, FirstMessage, Alarm

LEMMA CalmInvariant ==
  CalmSpec => [](/\ Deadlines /\ SlotsClean /\ OneHost /\ OnePidOnePerson
                 /\ NoOverlap /\ ConnectedAreRegistered /\ PeersKnown)
<1> DEFINE Calm == /\ Deadlines /\ SlotsClean /\ OneHost /\ OnePidOnePerson
                   /\ NoOverlap /\ ConnectedAreRegistered /\ PeersKnown
<1>1. Init => Calm
  BY DeadlinesInvariant
     DEF Init, SlotsClean, OneHost, OnePidOnePerson, NoOverlap, ConnectedAreRegistered,
         PeersKnown, Registered, Open, Authed, Listed
<1>2. Calm /\ [NextNoTakeover /\ NoOverlap']_vars => Calm'
  <2> SUFFICES ASSUME Calm, [NextNoTakeover /\ NoOverlap']_vars PROVE Calm'
    OBVIOUS
  <2>1. [NextNoTakeover]_vars /\ TypeOK /\ EmptyWithoutRoom
    BY DEF Deadlines
  <2>2. [Next]_vars
    BY <2>1 DEF NextNoTakeover, Next
  <2>3. NoOverlap'
    BY DEF vars, NoOverlap, Authed, Listed
  <2>4. Deadlines'
    BY <2>1, DeadlinesInvariant
  <2> QED
    BY <2>1, <2>2, <2>3, <2>4, SlotsCleanStep, OneHostStep, OnePidStep, RegisteredStep,
       PeersKnownStep
<1> QED
  BY <1>1, <1>2, PTL DEF CalmSpec

\* If clients come back only after the server has seen them go, whoever is connected
\* has a row to come back to ...
THEOREM RowsOfTheConnected == CalmSpec => []ConnectedAreRegistered
BY CalmInvariant, PTL

\* ... everyone connected knows everyone else ...
THEOREM ListsAreComplete == CalmSpec => []PeersKnown
BY CalmInvariant, PTL

\* ... and only one party acts as the host.
THEOREM OneHostConnected == CalmSpec => []OneOpenHost
<1>1. TypeOK /\ OneHost /\ ConnectedAreRegistered => OneOpenHost
  <2> SUFFICES ASSUME TypeOK, OneHost, ConnectedAreRegistered,
                      NEW v \in Open \cap Authed, NEW w \in Open \cap Authed,
                      att[v].role = "host", att[w].role = "host"
               PROVE  att[v].session = att[w].session
    BY DEF OneOpenHost
  <2>1. ASSUME NEW u \in Open \cap Authed, att[u].role = "host"
        PROVE  att[u].session \in Registered /\ rows[att[u].session].role = "host"
    <3>1. att[u].session \in Sessions /\ att[u] = IdentityOf(att[u].session)
      BY RowTypes DEF ConnectedAreRegistered, Identity
    <3>2. rows[att[u].session].role = "host"
      BY <2>1, <3>1 DEF IdentityOf
    <3>3. NoRow.role # "host"
      BY DEF NoRow
    <3> QED
      BY <3>1, <3>2, <3>3 DEF Registered
  <2> QED
    BY <2>1 DEF OneHost
<1>2. Deadlines => TypeOK
  BY DEF Deadlines
<1> QED
  BY <1>1, <1>2, CalmInvariant, PTL

----------------------------------------------------------------------------
(* Seats: the room implements Membership *)

\* Membership has the operators of the modules it extends in its own name.
LEMMA SameCardinality ==
  ASSUME NEW S PROVE Contract!Cardinality(S) = Cardinality(S)
BY DEF Contract!Cardinality, Cardinality

LEMMA SeatFacts ==
  ASSUME TypeOK
  PROVE  /\ Contract!Seated = Registered
         /\ Here \subseteq Sessions
         /\ Here = {att[v].session : v \in Present}
<1>1. \A s \in Registered : rows[s].role # "none"
  BY RowTypes DEF Row, Roles
<1>2. Contract!Seated = Registered
  BY <1>1 DEF Contract!Seated, Seats, Registered
<1>3. \A v \in Present : att[v].session \in Sessions
  BY RowTypes DEF Present, Identity
<1> QED
  BY <1>2, <1>3 DEF Here, Present

\* Steps that leave the table alone and connect nobody.
LEMMA NobodyComes ==
  ASSUME rows' = rows, Here' \subseteq Here
  PROVE  Contract!Vanish
<1>1. Seats' = Seats
  BY DEF Seats, Registered
<1>2. Here' = Here \ (Here \ Here')
  OBVIOUS
<1> QED
  BY <1>1, <1>2 DEF Contract!Vanish

\* A newcomer is refused only when everyone who has a seat keeps it.
LEMMA RefusedLeaveAll ==
  ASSUME TypeOK, Capacity, NEW w \in Sockets, NEW s \in Sessions, AuthFull(w, s)
  PROVE  rows' = rows
<1>1. IsFiniteSet(Registered) /\ Remaining \in SUBSET Registered
  BY SessionsAssumption, FS_Subset DEF Registered, Remaining, RowsAfterCheck, RowsIfEvicted
<1>2. IsFiniteSet(Remaining) /\ Cardinality(Remaining) \in Nat /\ Cardinality(Registered) \in Nat
  BY <1>1, FS_Subset, FS_CardinalityType
<1>3. Cardinality(Remaining) = Cardinality(Registered)
  <2>1. Cardinality(Remaining) <= Cardinality(Registered)
    BY <1>1, FS_Subset
  <2>2. Cardinality(Remaining) >= MaxParticipants
    BY <1>2, LimitsAssumption DEF AuthFull, HasPlace
  <2> QED
    BY <1>2, <2>1, <2>2, LimitsAssumption DEF Capacity
<1>4. Remaining = Registered
  BY <1>1, <1>3, FS_Subset
<1>5. \A t \in Sessions : RowsAfterCheck[t] = rows[t]
  BY <1>4 DEF Remaining, Registered, RowsAfterCheck, RowsIfEvicted
<1>6. RowsAfterCheck = [t \in Sessions |-> RowsAfterCheck[t]]
  BY DEF RowsAfterCheck, RowsIfEvicted, TypeOK
<1>7. rows = [t \in Sessions |-> rows[t]]
  BY DEF TypeOK
<1> QED
  BY <1>5, <1>6, <1>7 DEF AuthFull

LEMMA ResignStep ==
  ASSUME TypeOK, NoOverlap, NEW w \in Sockets, Goodbye(w)
  PROVE  \E s \in Sessions : Contract!Resign(s)
<1> DEFINE s == att[w].session
<1>1. w \in Authed /\ s \in Sessions
  BY RowTypes DEF Goodbye, Identity
<1>2. Seats' = [Seats EXCEPT ![s] = "none"]
  <2>1. /\ rows' = [rows EXCEPT ![s] = NoRow]
        /\ \A t \in Sessions : rows'[t] = IF t = s THEN NoRow ELSE rows[t]
    BY <1>1 DEF Goodbye, TypeOK
  <2>2. \A t \in Sessions : t \in Registered' <=> t \in Registered /\ t # s
    BY <2>1 DEF Registered
  <2>3. \A t \in Sessions : Seats'[t] = IF t = s THEN "none" ELSE Seats[t]
    BY <2>1, <2>2 DEF Seats
  <2>4. Seats' = [t \in Sessions |-> Seats'[t]] /\ Seats = [t \in Sessions |-> Seats[t]]
    BY DEF Seats
  <2> QED
    BY <1>1, <2>3, <2>4
<1>3. Present' = Present \ {w} /\ att' = att
  BY <1>1 DEF Goodbye, Close, Present, Open, Authed, Listed
<1>4. Here' = Here \ {s}
  <2>1. \A v \in Present \ {w} : att[v].session # s
    BY <1>1 DEF NoOverlap, Present
  <2> QED
    BY <1>3, <2>1 DEF Here, Present
<1> QED
  BY <1>1, <1>2, <1>4 DEF Contract!Resign

\* An accepted handleAuth where nobody is replaced.
LEMMA JoinedHere ==
  ASSUME TypeOK, NoOverlap', NEW w \in Sockets, NEW s \in Sessions,
         AuthReconnect(w, s) \/ AuthNew(w, s)
  PROVE  Here' \in {Here, Here \cup {s}}
<1>1. PICK replaced : /\ w \in Listed \ Authed
                      /\ Close(replaced)
                      /\ SetAuthenticated(w, IdentityOf(s)')
  BY Joined
<1>2. att' = [att EXCEPT ![w] = IdentityOf(s)']
  BY <1>1 DEF SetAuthenticated
<1>3. /\ att'[w].session = s
      /\ \A v \in Sockets \ {w} : att'[v] = att[v]
  BY <1>2 DEF TypeOK, IdentityOf
<1>4. Listed' = Listed
  BY <1>1 DEF Close, Listed
<1>5. sock' = sock
  <2>1. CASE AuthNew(w, s)
    BY <2>1 DEF AuthNew, Close, TypeOK
  <2>2. CASE AuthReconnect(w, s)
    <3>1. ASSUME NEW p \in AuthedPeers(w), att[p].session = s PROVE FALSE
      <4>1. p \in Listed /\ p \in Sockets \ {w} /\ att[p] # Unauth
        BY <3>1 DEF AuthedPeers, Authed, Listed
      <4>2. att'[p] = att[p] /\ p \in Authed'
        BY <1>3, <1>4, <4>1 DEF Authed
      <4>3. w \in Authed'
        <5>1. Unauth.session # s
          BY SessionsAssumption DEF Unauth
        <5> QED
          BY <1>1, <1>3, <1>4, <5>1 DEF Authed
      <4> QED
        BY <1>3, <3>1, <4>1, <4>2, <4>3 DEF NoOverlap
    <3>2. Close({})
      BY <2>2, <3>1 DEF AuthReconnect
    <3> QED
      BY <3>2 DEF Close, TypeOK
  <2> QED
    BY <2>1, <2>2
<1>6. \A v \in Sockets \ {w} : v \in Present' <=> v \in Present
  BY <1>3, <1>5 DEF Present, Open, Authed, Listed
<1>7. w \notin Present
  BY <1>1 DEF Present
<1> QED
  BY <1>3, <1>6, <1>7, SeatFacts DEF Here, Present, Open, Authed, Listed

LEMMA ReturnStep ==
  ASSUME TypeOK, NoOverlap', NEW w \in Sockets, NEW s \in Sessions, AuthReconnect(w, s)
  PROVE  Contract!Return(s) \/ Contract!Vanish
<1>1. rows' = rows /\ s \in Registered
  BY DEF AuthReconnect
<1>2. Seats' = Seats
  BY <1>1 DEF Seats, Registered
<1>3. CASE Here' = Here
  BY <1>1, <1>3, NobodyComes
<1>4. CASE Here' = Here \cup {s}
  BY <1>1, <1>2, <1>4, SeatFacts DEF Contract!Return
<1> QED
  BY <1>3, <1>4, JoinedHere

LEMMA AdmitStep ==
  ASSUME TypeOK, NoOverlap', ConnectedAreRegistered,
         NEW w \in Sockets, NEW s \in Sessions, AuthNew(w, s)
  PROVE  Contract!Admit(s)
<1>1. s \notin Contract!Seated /\ Remaining \in SUBSET Contract!Seated
  BY SeatFacts DEF AuthNew, Remaining, Registered, RowsAfterCheck, RowsIfEvicted
<1>2. Here \subseteq Remaining
  <2>1. ASSUME NEW v \in Present PROVE att[v].session \in Remaining
    <3> DEFINE t == att[v].session
    <3>1. t \in Sessions /\ att[v] = IdentityOf(t) /\ att[v].role \in Roles /\ t \in Connected
      BY RowTypes DEF Present, Identity, ConnectedAreRegistered, Connected
    <3>2. rows[t].role \in Roles
      BY <3>1 DEF IdentityOf
    <3>3. NoRow.role \notin Roles
      BY DEF NoRow, Roles
    <3>4. rows[t] # NoRow
      BY <3>2, <3>3
    <3> QED
      BY <3>1, <3>4 DEF Remaining, RowsAfterCheck, RowsIfEvicted
  <2> QED
    BY <2>1, SeatFacts
<1>3. Cardinality(Contract!Seated) < MaxParticipants => Remaining = Contract!Seated
  <2>1. IsFiniteSet(Registered)
    BY SessionsAssumption, FS_Subset DEF Registered
  <2>2. Cardinality(Registered) \in Nat
    BY <2>1, FS_CardinalityType
  <2>3. Cardinality(Registered) < MaxParticipants => ~RoomIsFull
    BY <2>2, LimitsAssumption DEF RoomIsFull
  <2> QED
    BY <2>3, SeatFacts DEF Remaining, Registered, RowsAfterCheck
<1>4. Cardinality(Remaining) < MaxParticipants
  BY DEF AuthNew, HasPlace
<1>5. Seats' = [t \in Sessions |->
          CASE t = s -> IF Remaining = {} THEN "host" ELSE "guest"
            [] t \in Remaining -> Seats[t]
            [] OTHER -> "none"]
  <2>1. \A t \in Sessions \ {s} : rows'[t] = IF t \in Remaining THEN rows[t] ELSE NoRow
    BY AuthNewRows DEF Remaining, RowsAfterCheck, RowsIfEvicted
  <2>2. /\ rows'[s] # NoRow
        /\ rows'[s].role = IF Remaining = {} THEN "host" ELSE "guest"
    BY AuthNewRows DEF NewRole
  <2>3. \A t \in Remaining : t \in Registered
    BY <1>1, SeatFacts
  <2>4. ASSUME NEW t \in Sessions
        PROVE  Seats'[t] = CASE t = s -> IF Remaining = {} THEN "host" ELSE "guest"
                             [] t \in Remaining -> Seats[t]
                             [] OTHER -> "none"
    <3>1. s \notin Remaining
      BY <1>1
    <3> QED
      BY <2>1, <2>2, <2>3, <3>1 DEF Seats, Registered
  <2> QED
    BY <2>4 DEF Seats
<1>6. Here' \in {Here, Here \cup {s}}
  BY JoinedHere
<1>7. /\ Contract!Cardinality(Contract!Seated) < MaxParticipants => Remaining = Contract!Seated
      /\ Contract!Cardinality(Remaining) < MaxParticipants
  BY <1>3, <1>4, SameCardinality
<1> HIDE DEF Seats, Here, Remaining
<1> QED
  BY <1>1, <1>2, <1>5, <1>6, <1>7, Zenon DEF Contract!Admit

LEMMA FinishStep ==
  ASSUME TypeOK, EmptyWithoutRoom, AlarmExpired \/ (~RoomExists /\ HandleInit)
  PROVE  Contract!Finish
<1>1. rows' = [s \in Sessions |-> NoRow]
  BY DEF AlarmExpired, HandleInit
<1>2. Open' = {}
  BY DEF AlarmExpired, ClosedAtEnd, Close, HandleInit, EmptyWithoutRoom, Open, Listed
<1> QED
  BY <1>1, <1>2 DEF Contract!Finish, Seats, Registered, Here

\* One step of the room is one step of Membership, or none.
LEMMA SeatsStep ==
  ASSUME TypeOK, SlotsClean, NoOverlap, NoOverlap', EmptyWithoutRoom, Capacity,
         ConnectedAreRegistered, [NextNoTakeover]_vars
  PROVE  Contract!MembershipNext
<1>1. ASSUME rows' = rows, \A v \in Present' : v \in Present /\ att'[v] = att[v]
      PROVE  Contract!Vanish
  <2>1. Here' \subseteq Here
    BY <1>1 DEF Here, Present
  <2> QED
    BY <1>1, <2>1, NobodyComes
<1>2. CASE \E w \in Sockets, s \in Sessions : AuthReconnect(w, s) \/ AuthNew(w, s)
  BY <1>2, ReturnStep, AdmitStep DEF Contract!MembershipNext
<1>3. CASE \A v \in Present' : v \in Present /\ att'[v] = att[v]
  <2>1. CASE AlarmExpired \/ (~RoomExists /\ HandleInit)
    BY <2>1, FinishStep DEF Contract!MembershipNext
  <2>2. ASSUME NEW w \in Sockets, Goodbye(w) PROVE Contract!MembershipNext
    BY <2>2, ResignStep DEF Contract!MembershipNext
  <2>3. ASSUME NEW w \in Sockets,
               \/ HandleWebSocketUpgrade(w) \/ RejectFirstMessage(w)
               \/ AuthWithoutRoom(w) \/ WebSocketGone(w)
        PROVE  rows' = rows
    BY <2>3 DEF HandleWebSocketUpgrade, RejectFirstMessage, AuthWithoutRoom, WebSocketGone
  <2>4. ASSUME NEW w \in Sockets, NEW s \in Sessions, AuthFull(w, s) PROVE rows' = rows
    BY <2>4, RefusedLeaveAll
  <2>5. ASSUME AlarmAuthTimeout \/ Tick \/ Restart \/ UNCHANGED vars PROVE rows' = rows
    BY <2>5 DEF AlarmAuthTimeout, Tick, Restart, vars
  <2> QED
    BY <1>1, <1>2, <1>3, <2>1, <2>2, <2>3, <2>4, <2>5
       DEF NextNoTakeover, SocketEvent, FirstMessage, Alarm, Contract!MembershipNext
<1> QED
  BY <1>2, <1>3, PresentStep

\* If clients come back only after the server has seen them go, seats outlive
\* connections: the room implements Membership (room.ts:395-592, 851-874).
THEOREM ImplementsMembership == CalmSpec => KeepsSeats
<1>1. Init => Contract!MembershipInit
  BY DEF Init, Contract!MembershipInit, Seats, Here, Registered, Open
<1>2. [NextNoTakeover /\ NoOverlap']_vars => [Next]_vars
  BY DEF NextNoTakeover, Next
<1>3. CalmSpec => []Capacity
  <2>1. CalmSpec => Spec
    BY <1>2, PTL DEF CalmSpec, Spec
  <2> QED
    BY <2>1, CapacityHolds, PTL
<1>4. Deadlines /\ SlotsClean /\ NoOverlap /\ ConnectedAreRegistered /\ Capacity
          /\ [NextNoTakeover /\ NoOverlap']_vars
          => [Contract!MembershipNext]_Contract!membershipVars
  <2> SUFFICES ASSUME Deadlines, SlotsClean, NoOverlap, ConnectedAreRegistered, Capacity,
                      [NextNoTakeover /\ NoOverlap']_vars
               PROVE  Contract!MembershipNext
    OBVIOUS
  <2>1. NoOverlap'
    BY DEF vars, NoOverlap, Authed, Listed
  <2> QED
    BY <2>1, SeatsStep DEF Deadlines
<1> QED
  BY <1>1, <1>3, <1>4, CalmInvariant, PTL DEF CalmSpec, KeepsSeats, Contract!MembershipSpec

=============================================================================
