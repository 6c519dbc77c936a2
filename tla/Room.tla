-------------------------------- MODULE Room --------------------------------
(***************************************************************************)
(* The Room Durable Object of the relay server (worker/src/room.ts): one   *)
(* object per room code, holding the room record, the participants table,  *)
(* the alarm and the WebSockets of the room, hibernation included.         *)
(*                                                                         *)
(* The runtime runs one event handler at a time and lets no other event in *)
(* between its storage operations, so a handler is one action.  What is    *)
(* nondeterministic is which event comes next, and the order in which      *)
(* getWebSockets() lists the sockets.                                      *)
(*                                                                         *)
(* Time is relative: a deadline is the number of ticks left until it, so   *)
(* that the state space is finite without a bound on the clock.            *)
(***************************************************************************)
EXTENDS Integers, FiniteSets

CONSTANTS
    Sessions,         \* the sessionIds of the clients
    Sockets,          \* server ends of WebSockets, reused once they are gone
    Pids,             \* participant ids, the values of randomUUID().slice(0, 8)
    NoSession,        \* the "" of an attachment without a session
    MaxParticipants,  \* MAX_PARTICIPANTS
    RoomTtl,          \* ROOM_TTL_MS, in ticks
    AuthTimeout,      \* AUTH_TIMEOUT_MS, in ticks
    MinAlarmDelay     \* the 100 ms of scheduleNextAlarm, in ticks

ASSUME SessionsAssumption == IsFiniteSet(Sessions) /\ NoSession \notin Sessions
ASSUME PidsAssumption == Pids \subseteq Nat \ {0}
ASSUME LimitsAssumption == /\ MaxParticipants \in Nat \ {0}
                           /\ RoomTtl \in Nat \ {0}
                           /\ AuthTimeout \in Nat \ {0}
                           /\ MinAlarmDelay \in Nat \ {0}

VARIABLES
    expiresIn,  \* ticks to room_meta.expires_at_ms; NoTime: no room_meta row
    rows,       \* the participants table: session -> [role, pid], or NoRow
    sock,       \* readyState of each accepted socket
    att,        \* the identity in each socket's attachment, or Unauth
    authIn,     \* ticks to connectedAtMs + AUTH_TIMEOUT_MS, until authenticated
    alarmIn,    \* ticks to the storage alarm; NoTime: none is set
    known       \* the pids each client knows, once all it was sent has arrived

vars == <<expiresIn, rows, sock, att, authIn, alarmIn, known>>

----------------------------------------------------------------------------
(* Values *)

NoTime == -1
Time(limit) == {NoTime} \cup 0..limit

Roles == {"host", "guest"}
Row == [role : Roles, pid : Pids]
NoRow == [role |-> "", pid |-> 0]

Identity == [session : Sessions, role : Roles, pid : Pids]
Unauth == [session |-> NoSession, role |-> "", pid |-> 0]

\* "closing": close() was called on the server end and the close handshake is
\* not over.  Such a socket is still listed and its client's frames still
\* arrive, but send() on it throws.
ReadyStates == {"none", "open", "closing"}

TypeOK ==
    /\ expiresIn \in Time(RoomTtl)
    /\ rows \in [Sessions -> Row \cup {NoRow}]
    /\ sock \in [Sockets -> ReadyStates]
    /\ att \in [Sockets -> Identity \cup {Unauth}]
    /\ authIn \in [Sockets -> Time(AuthTimeout)]
    /\ alarmIn \in Int /\ alarmIn >= NoTime
    /\ known \in [Sockets -> SUBSET Pids]

Init ==
    /\ expiresIn = NoTime
    /\ rows = [s \in Sessions |-> NoRow]
    /\ sock = [w \in Sockets |-> "none"]
    /\ att = [w \in Sockets |-> Unauth]
    /\ authIn = [w \in Sockets |-> NoTime]
    /\ alarmIn = NoTime
    /\ known = [w \in Sockets |-> {}]

----------------------------------------------------------------------------
(* Reading the state *)

RoomExists == expiresIn # NoTime
RoomLive == expiresIn > 0

Registered == {s \in Sessions : rows[s] # NoRow}

Listed == {w \in Sockets : sock[w] # "none"}            \* getWebSockets()
Open == {w \in Sockets : sock[w] = "open"}
Authed == {w \in Listed : att[w] # Unauth}
AuthedPeers(w) == Authed \ {w}                          \* getAuthenticatedPeers
LiveConnections(s) == {w \in Open \cap Authed : att[w].session = s}

\* Identifiers drawn at random do not collide with one that is still in use.
\* (The Bug operators are mutants of the definition that follows each: the
\* properties are checked to notice them.  This one forgets the disconnected.)
BugUsedPids == {att[w].pid : w \in Authed}
UsedPids == {rows[s].pid : s \in Registered} \cup {att[w].pid : w \in Authed}
BugNewPid == NoRow.pid  \* none is drawn
NewPid == CHOOSE p \in Pids : p \notin UsedPids

----------------------------------------------------------------------------
(* Steps that handlers share *)

\* close() on the sockets of S; a second close() does nothing.
Close(S) ==
    sock' = [w \in Sockets |->
                IF w \in S /\ sock[w] = "open" THEN "closing" ELSE sock[w]]

\* What clients know after this step: ids[w] for a client that is still
\* connected.  A closing socket is told nothing more, and its client forgets.
ClientsKnow(ids) ==
    known' = [w \in Sockets |-> IF sock'[w] = "open" THEN ids[w] ELSE {}]

\* scheduleNextAlarm: the earliest deadline, at least MinAlarmDelay from now.
\* It leaves the alarm alone when there is no deadline (otherwise is then the
\* alarm that stays).  All arguments are the values after the handler's step.
\* Bugs: no alarm for sockets that have to authenticate; none for the end.
BugNextAlarmAtEnd(expires, states, atts, auths, otherwise) ==
    IF expires = NoTime THEN otherwise
    ELSE IF expires > MinAlarmDelay THEN expires ELSE MinAlarmDelay
BugNextAlarmForAuth(expires, states, atts, auths, otherwise) ==
    LET deadlines == {auths[w] : w \in {v \in Sockets : states[v] # "none" /\ atts[v] = Unauth}}
        earliest == CHOOSE t \in deadlines : \A u \in deadlines : t <= u
    IN IF deadlines = {} THEN otherwise
       ELSE IF earliest > MinAlarmDelay THEN earliest ELSE MinAlarmDelay
NextAlarm(expires, states, atts, auths, otherwise) ==
    LET pending == {w \in Sockets : states[w] # "none" /\ atts[w] = Unauth}
        deadlines == {t \in {expires} \cup {auths[w] : w \in pending} : t # NoTime}
        earliest == CHOOSE t \in deadlines : \A u \in deadlines : t <= u
    IN IF deadlines = {} THEN otherwise
       ELSE IF earliest > MinAlarmDelay THEN earliest ELSE MinAlarmDelay

\* setAuthenticated
SetAuthenticated(w, identity) ==
    /\ att' = [att EXCEPT ![w] = identity]
    /\ authIn' = [authIn EXCEPT ![w] = NoTime]

\* auth-ok to w, listing peers, and one presence event with pid to each peer.
\* Bug: the peers are not told.
BugAnnounce(w, pid, peers) ==
    ClientsKnow([known EXCEPT ![w] = {att[p].pid : p \in peers}])
Announce(w, pid, peers) ==
    ClientsKnow([v \in Sockets |->
                    CASE v = w -> {att[p].pid : p \in peers}
                      [] v \in peers -> known[v] \cup {pid}
                      [] OTHER -> known[v]])

----------------------------------------------------------------------------
(* HTTP handlers *)

\* handleInit.  A room that has not expired answers 409 and changes nothing; an
\* expired one that the alarm has not removed yet is replaced.
HandleInit ==
    /\ ~RoomLive
    /\ expiresIn' = RoomTtl
    /\ rows' = [s \in Sessions |-> NoRow]
    /\ alarmIn' = RoomTtl
    /\ UNCHANGED <<sock, att, authIn, known>>

\* handleWebSocketUpgrade
HandleWebSocketUpgrade(w) ==
    /\ RoomLive
    /\ sock[w] = "none"
    /\ sock' = [sock EXCEPT ![w] = "open"]
    /\ authIn' = [authIn EXCEPT ![w] = AuthTimeout]
    /\ alarmIn' = NextAlarm(expiresIn, sock', att, authIn', alarmIn)
    /\ UNCHANGED <<expiresIn, rows, att, known>>

----------------------------------------------------------------------------
(* webSocketMessage: the first message *)

\* A first message that is no auth message, or an auth message without a
\* sessionId: an error and close 4001 or 4003.
RejectFirstMessage(w) ==
    /\ w \in Listed \ Authed
    /\ Close({w})
    /\ UNCHANGED <<expiresIn, rows, att, authIn, alarmIn, known>>

\* handleAuth without a room (4004) or after its end (4002).
AuthWithoutRoom(w) ==
    /\ w \in Listed \ Authed
    /\ ~RoomLive
    /\ Close({w})
    /\ UNCHANGED <<expiresIn, rows, att, authIn, alarmIn, known>>

\* handleAuth for a session in the participants table: it takes its role and
\* pid back, and the first of its sockets in the list is closed (4000).
AuthReconnect(w, s) ==
    LET sameSession == {p \in AuthedPeers(w) : att[p].session = s}
        identity == [session |-> s, role |-> rows[s].role, pid |-> rows[s].pid]
        Restore(replaced) ==
            /\ Close(replaced)
            /\ SetAuthenticated(w, identity)
            /\ Announce(w, rows[s].pid, AuthedPeers(w) \ replaced)
    IN  /\ w \in Listed \ Authed
        /\ RoomLive
        /\ s \in Registered
        /\ \/ sameSession = {} /\ Restore({})
           \/ \E stale \in sameSession : Restore({stale})
        /\ UNCHANGED <<expiresIn, rows, alarmIn>>

\* evictStaleParticipants: the sessions that keep their row.
Connected == {att[w].session : w \in Authed}
BugRowsIfEvicted == [s \in Sessions |-> NoRow]  \* whoever is connected or not
RowsIfEvicted ==
    [s \in Sessions |-> IF s \in Connected THEN rows[s] ELSE NoRow]
RoomIsFull == Cardinality(Registered) >= MaxParticipants
RowsAfterCheck == IF RoomIsFull THEN RowsIfEvicted ELSE rows
Remaining == {s \in Sessions : RowsAfterCheck[s] # NoRow}

BugHasPlace == Cardinality(Remaining) <= MaxParticipants
HasPlace == Cardinality(Remaining) < MaxParticipants

\* The first of an empty table is the host.
BugNewRole == IF Authed = {} THEN "host" ELSE "guest"  \* nobody connected
NewRole == IF Remaining = {} THEN "host" ELSE "guest"

\* handleAuth for a new participant.
AuthNew(w, s) ==
    /\ w \in Listed \ Authed
    /\ RoomLive
    /\ s \in Sessions \ Registered
    /\ HasPlace
    /\ UsedPids # Pids
    /\ rows' = [RowsAfterCheck EXCEPT ![s] = [role |-> NewRole, pid |-> NewPid]]
    /\ SetAuthenticated(w, [session |-> s, role |-> NewRole, pid |-> NewPid])
    /\ Close({})
    /\ Announce(w, NewPid, AuthedPeers(w))
    /\ UNCHANGED <<expiresIn, alarmIn>>

\* handleAuth for a new participant when eviction leaves no place (4005).
AuthFull(w, s) ==
    /\ w \in Listed \ Authed
    /\ RoomLive
    /\ s \in Sessions \ Registered
    /\ ~HasPlace
    /\ rows' = RowsAfterCheck
    /\ Close({w})
    /\ UNCHANGED <<expiresIn, att, authIn, alarmIn, known>>

----------------------------------------------------------------------------
(* webSocketMessage: relay messages.  play, pause, seek, speed, heartbeat  *)
(* and state change nothing in the room, and are not modelled here.        *)

\* relayToPeer ends the handler, of which nothing but the relay is done then:
\* send() throws at a closing socket.
Blocked(w) == \E p \in AuthedPeers(w) : sock[p] = "closing"

\* notifyPeerLeft: the id that the other clients are told to forget.
BugDeparted(w) == IF w \in Authed \cap Open THEN {att[w].pid} ELSE {}  \* if still open
Departed(w) == IF w \in Authed THEN {att[w].pid} ELSE {}

\* goodbye: relay, peer-left, the row goes, close 1000.
Goodbye(w) ==
    /\ w \in Authed
    /\ ~Blocked(w)
    /\ rows' = [rows EXCEPT ![att[w].session] = NoRow]
    /\ Close({w})
    /\ ClientsKnow([v \in Sockets |-> known[v] \ Departed(w)])
    /\ UNCHANGED <<expiresIn, att, authIn, alarmIn>>

----------------------------------------------------------------------------
(* The end of connections, the alarm, the runtime *)

\* webSocketClose or webSocketError, the last event of a socket.
WebSocketGone(w) ==
    /\ w \in Listed
    /\ sock' = [sock EXCEPT ![w] = "none"]
    /\ att' = [att EXCEPT ![w] = Unauth]
    /\ authIn' = [authIn EXCEPT ![w] = NoTime]
    /\ ClientsKnow([v \in Sockets |-> known[v] \ Departed(w)])
    /\ UNCHANGED <<expiresIn, rows, alarmIn>>

Overdue == {w \in Listed \ Authed : authIn[w] = 0}

BugClosedAtEnd == Listed \ Authed
BugClosedAuthedAtEnd == Authed
ClosedAtEnd == Listed

\* alarm at or after the end of the room: every socket is told and closed
\* (4002), the storage is emptied.
AlarmExpired ==
    /\ alarmIn = 0
    /\ expiresIn = 0
    /\ Close(ClosedAtEnd)
    /\ expiresIn' = NoTime
    /\ rows' = [s \in Sessions |-> NoRow]
    /\ alarmIn' = NoTime
    /\ ClientsKnow(known)
    /\ UNCHANGED <<att, authIn>>

\* alarm before: sockets that did not authenticate in time are closed (4001),
\* then scheduleNextAlarm.
AlarmAuthTimeout ==
    /\ alarmIn = 0
    /\ expiresIn # 0
    /\ Close(Overdue)
    /\ alarmIn' = NextAlarm(expiresIn, sock', att, authIn, NoTime)
    /\ UNCHANGED <<expiresIn, rows, att, authIn, known>>

Alarm == AlarmExpired \/ AlarmAuthTimeout

\* Time passes.  An alarm that is due runs before the tick ends, but not
\* necessarily before the other events that are waiting.
Elapse(t) == IF t > 0 THEN t - 1 ELSE t
Tick ==
    /\ alarmIn # 0
    /\ expiresIn' = Elapse(expiresIn)
    /\ alarmIn' = Elapse(alarmIn)
    /\ authIn' = [w \in Sockets |-> Elapse(authIn[w])]
    /\ UNCHANGED <<rows, sock, att, known>>

\* A crash or a new deployment: the sockets are lost without an event, the
\* storage and the alarm survive.
Restart ==
    /\ Listed # {}
    /\ sock' = [w \in Sockets |-> "none"]
    /\ att' = [w \in Sockets |-> Unauth]
    /\ authIn' = [w \in Sockets |-> NoTime]
    /\ known' = [w \in Sockets |-> {}]
    /\ UNCHANGED <<expiresIn, rows, alarmIn>>

FirstMessage(w) ==
    \/ RejectFirstMessage(w)
    \/ AuthWithoutRoom(w)
    \/ \E s \in Sessions : AuthReconnect(w, s) \/ AuthNew(w, s) \/ AuthFull(w, s)

SocketEvent(w) ==
    \/ HandleWebSocketUpgrade(w)
    \/ FirstMessage(w)
    \/ Goodbye(w)
    \/ WebSocketGone(w)

Next ==
    \/ HandleInit
    \/ \E w \in Sockets : SocketEvent(w)
    \/ Alarm
    \/ Tick
    \/ Restart

Spec == Init /\ [][Next]_vars

\* Without takeover: no new room takes the place of an expired one before the
\* alarm has run.
NextNoTakeover ==
    \/ ~RoomExists /\ HandleInit
    \/ \E w \in Sockets : SocketEvent(w)
    \/ Alarm
    \/ Tick
    \/ Restart
NoTakeoverSpec == Init /\ [][NextNoTakeover]_vars

\* A calm environment: moreover, a client reconnects only after the server has
\* seen its former connection end.
NoOverlap == \A v, w \in Authed : att[v].session = att[w].session => v = w
CalmSpec == Init /\ [][NextNoTakeover /\ NoOverlap']_vars

----------------------------------------------------------------------------
(* Safety, whatever the order of events *)

\* The participants table never names two hosts: the role of handleAuth is
\* taken from a count that an eviction may have changed.
OneHost ==
    \A s, t \in Registered :
        rows[s].role = "host" /\ rows[t].role = "host" => s = t

\* The table never outgrows MAX_PARTICIPANTS.
Capacity == Cardinality(Registered) <= MaxParticipants

\* A participant id stands for one person: sockets and rows that carry the
\* same id carry the same session and role, whichever replacements, departures
\* and evictions came before.
IdentityOf(s) == [session |-> s, role |-> rows[s].role, pid |-> rows[s].pid]
OnePidOnePerson ==
    /\ \A s, t \in Registered : rows[s].pid = rows[t].pid => s = t
    /\ \A v, w \in Authed : att[v].pid = att[w].pid => att[v] = att[w]
    /\ \A s \in Registered, w \in Authed :
           rows[s].pid = att[w].pid => att[w] = IdentityOf(s)

\* No client lists somebody who is not there: the ids of its participant list
\* (auth-ok, then presence events) are carried by other sockets of the room,
\* of which it will hear when they go.
NoGhostPeers ==
    \A w \in Open \cap Authed : known[w] \subseteq {att[v].pid : v \in AuthedPeers(w)}

\* While the room exists an alarm is set that comes no later than its end, or
\* than MinAlarmDelay when the end is past: nothing else ends the room.
AlarmArmed ==
    RoomExists => /\ alarmIn # NoTime
                  /\ alarmIn <= expiresIn \/ alarmIn <= MinAlarmDelay

\* A code without a room keeps nothing of an earlier one: no row, by which somebody
\* would have a seat in the next room, and nobody who is still connected.
RemovedRoomIsEmpty == ~RoomExists => Registered = {} /\ Open \cap Authed = {}

\* Only its own goodbye, or the end of the room, unregisters a participant who
\* is connected: eviction for a new one spares it (evictStaleParticipants).
RowsOutliveConnections ==
    [][\A s \in Registered :
          RoomLive /\ LiveConnections(s) # {} /\ rows'[s] # rows[s]
              => \E w \in Authed : att[w].session = s /\ Goodbye(w)]_vars

----------------------------------------------------------------------------
(* Safety in a calm environment *)

\* Everyone connected knows everyone else who is connected.
PeersKnown ==
    \A v, w \in Open \cap Authed :
        att[v].session # att[w].session => att[v].pid \in known[w]

\* Those connected as host are one session: only one party's state messages
\* are let through.
OneOpenHost ==
    \A v, w \in Open \cap Authed :
        att[v].role = "host" /\ att[w].role = "host"
            => att[v].session = att[w].session

\* Whoever is connected has a row with the same role and id, from which a
\* reconnection restores them.
ConnectedAreRegistered ==
    \A w \in Open \cap Authed : att[w] = IdentityOf(att[w].session)

\* Seats outlive connections: the participants table and who is connected go the
\* way Membership allows, whatever the other sockets do in between.
Seats == [s \in Sessions |-> IF s \in Registered THEN rows[s].role ELSE "none"]
Here == {att[w].session : w \in Open \cap Authed}
Contract == INSTANCE Membership WITH
    Clients <- Sessions, MaxMembers <- MaxParticipants, seats <- Seats, present <- Here
KeepsSeats == Contract!MembershipSpec

----------------------------------------------------------------------------
(* Safety without takeover *)

\* An open socket that has not authenticated has an alarm by its deadline.
AuthDeadlineCovered ==
    \A w \in Open \ Authed :
        /\ alarmIn # NoTime
        /\ alarmIn <= authIn[w] \/ alarmIn <= MinAlarmDelay

----------------------------------------------------------------------------
(* Liveness *)

\* Time passes, and an alarm that keeps coming due is run eventually, even
\* though upgrades at that very moment can put it off by MinAlarmDelay.
Fairness == WF_vars(Tick) /\ SF_vars(Alarm)

\* A connection that does not authenticate does not stay.
AuthDecided == \A w \in Sockets : w \in Open \ Authed ~> w \notin Open \ Authed

\* A room that has expired is removed, with every connection to it closed.
RoomCleanedUp == expiresIn = 0 ~> ~RoomExists /\ Open = {}

=============================================================================
