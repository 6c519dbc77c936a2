# A verification development of IINA Watch Party

IINA Watch Party keeps two or more IINA players in step over the internet. A
*relay server* (Cloudflare Worker, `packages/worker`) holds one Durable Object
per room; a *plugin* (`packages/plugin`) observes and drives the player through
a *sync engine* (`packages/shared/src/sync.ts`) and reaches the server through
the WebSocket of its sidebar webview. This directory holds TLA+ modules of the
system, the TLC runs that check them on small instances, and proofs that TLAPS
checks for every value of the constants.

Run a model with `tlc -config X.cfg M` and a proof with `tlapm M.tla`.
`PROJECT.json` lists the runs, the lines each definition models, the hazards,
the theorems and, for each property, a mutant (`Bug…`) that breaks it.

## 1. The system

| Component | State it keeps | Operations | Where it is hard | What makes it correct |
|---|---|---|---|---|
| **Room Durable Object** `worker/src/room.ts` | `room_meta`, `participants` (SQLite), one alarm; per WebSocket an attachment (session, role, participant id, connection time); `wsRateLimiters` in memory | `handleInit`, `handleWebSocketUpgrade`, `webSocketMessage` (auth, relay, goodbye), `webSocketClose/Error`, `alarm` | any order of events of several sockets; sockets that are closed but still listed; reconnection with overlap; one alarm for many deadlines; eviction; hibernation and restarts | one host, capacity, identities that identify, participant lists without ghosts and without gaps, an alarm while there is a room, everything ends |
| **Rate limiters** `worker/src/rate-limit.ts` | per IP a counter and a reset time; per socket a token bucket | `check`, `prune`, `consume`, `refill` | window boundaries, pruning, laziness, loss of the limiter to hibernation | bounds on what is admitted; nobody limited without cause |
| **Router** `worker/src/index.ts` | request counter, two IP limiters | `fetch`, `handleCreateRoom`, `handleRoomStatus`, `handleWebSocketUpgrade` | concurrent creations that draw one code; pruning in between | a code is given to one creator; every creation is answered |
| **Sync engine** `shared/src/sync.ts` | player state, suppression list, last correction, buffering peers | `apply` of 12 kinds of action | events of the player that come late, never, or merged; drift correction | no echo, no seek storm, no swallowed user action; corrections when they are needed, and only then |
| **Plugin main** `plugin/src/main.ts` | connection state, room, role, session, engine, heartbeat timer, known participants | UI commands, bridge messages, player events, server messages | asynchronous replies that arrive after the state they answer | what it believes about the connection is true once nothing is on its way; every attempt ends |
| **Sidebar bridge** `plugin/ui/sidebar/index.js` | the WebSocket, the reconnection timer and attempts, UI state | fetch and WebSocket commands, reconnection with backoff | FIFO queues in both directions, sockets that outlive their owner | at most one live socket, and no timer beside it |
| **Overlay** `plugin/ui/overlay/index.js` | a near copy of the bridge | the same | (loaded but unused) | |
| **Validation** `shared/src/validation.ts`, `invite.ts`, `file-mismatch.ts` | none | pure predicates and parsers | agreement with the server's own validation | |
| **Preferences, build scripts** | none | static page, packaging | | |

How they interact: `main.ts` posts messages to the webview, the webview owns
`fetch` and the WebSocket and posts their outcomes back; both directions are
FIFO. The Worker routes HTTP requests and upgrades to the Room by code. The
Room answers, relays between authenticated sockets and announces presence. The
sync engine is called by `main.ts` with player events and relayed commands and
returns the effects to execute.

## 2. Modules

| Module | What it is | Extends / instantiates |
|---|---|---|
| `Membership` | abstract: what a room promises about seats, which outlive connections | |
| `Room` | the Room Durable Object with its storage, alarm and sockets | `Membership` by refinement |
| `MCRoom` | its symmetry for the runs, and its specification with fairness | `Room` |
| `RoomProofs` | theorems about `Room` | `Room`, `LeastElement` |
| `IpRateLimiter` | the limiter of HTTP requests, and the router's pruning | |
| `Router` | room creation: the limiter, codes drawn, objects that initialise themselves or refuse | `IpRateLimiter` |
| `RouterProofs` | theorems about both | `Router` |
| `TokenBucket` | abstract: what a limit on messages promises | |
| `ConnectionRateLimiter` | the limiter of a WebSocket in the room | `TokenBucket` by refinement |
| `MCConnectionRateLimiter`, `ConnectionRateLimiterProofs` | its instance and theorems | `ConnectionRateLimiter` |
| `SyncEngine` | the sync engine, as operators from an engine and an action to an engine and effects | |
| `SyncEngineProofs` | what these operators return, keep and add | `SyncEngine`, `LeastElement` |
| `Playback` | two clients: player, player events, engine, heartbeat timer, messages on their way | `SyncEngine` |
| `MCPlayback` | the environment of its run with fairness | `Playback` |
| `PlaybackProofs` | theorems about `Playback` | `Playback`, `SyncEngineProofs` |
| `DriftEstimate` | a guest's engine with positions: its estimate, its player, and the host's | `SyncEngine` |
| `DriftEstimateProofs` | theorems about it | `DriftEstimate`, `SyncEngineProofs` |
| `Client` | the connection state machine of the main entry, the sidebar with its WebSocket, the two queues between them, and a room that answers | |
| `ClientProofs` | theorems about it | `Client` |
| `LeastElement` | that a set of naturals has a minimum, for the two places where the code takes one | |

Operators named `Bug…` are mutants of the definition that follows them. No
specification uses them; with one of them in place of its definition, the
property listed for it in `PROJECT.json` fails.

### Room

| State | Code |
|---|---|
| `expiresIn` | `room_meta.expires_at_ms`, relative to now; `NoTime` without a row |
| `rows` | the `participants` table: session → role and participant id |
| `sock` | the ready state of each accepted socket: none, open, closing |
| `att` | the identity in the socket's attachment |
| `authIn` | `connectedAtMs + AUTH_TIMEOUT_MS`, relative to now |
| `alarmIn` | the storage alarm, relative to now |
| `known` | the `knownParticipants` map of each client, once all it was sent has arrived |

There is one action per handler and outcome: `HandleInit`,
`HandleWebSocketUpgrade`, `RejectFirstMessage`, `AuthWithoutRoom`,
`AuthReconnect`, `AuthNew` and `AuthFull` (`handleAuth`), `Goodbye`, `WebSocketGone` (`webSocketClose`/`webSocketError`), `AlarmExpired`
and `AlarmAuthTimeout`; `Tick` and `Restart` are the environment's.
A relay (whomever it reaches), a rejected message, and a message over the rate
limit change nothing in the room and are not actions of this module.

Decisions about the runtime, which is not in the repository:

- A handler is atomic. Durable Objects run one event at a time, and close their
  input gate during storage operations; the handlers await nothing else.
- After `close()` a socket stays listed by `getWebSockets()` until its close
  event, its client's frames are still delivered, and `send()` on it throws. The
  code takes the last for granted (`room.ts:304-308`, `910-912`). Exactly one
  of `webSocketClose` and `webSocketError` ends a socket.
- The order in which sockets are listed is unspecified: the socket that
  `AuthReconnect` replaces is any of its session.
- A restart drops the sockets and keeps the storage and the alarm. Hibernation
  keeps the sockets and their attachments as well, so that in `Room` it is no
  step at all.
- `deleteAll()` leaves empty tables.
- An alarm that is due runs before time goes on, but other events may come first.
- Random participant ids do not collide with ids in use.
- The row a former version of the server may have left without a participant id
  (`room.ts:469-476`) does not occur.

Time is relative (ticks to a deadline), so the state space is finite without a
bound on the clock. Names, files, mismatch warnings and log output are left out.

### Rate limiters and router

`IpRateLimiter`: the entries of the limiter, the request counter that triggers
pruning, and the history `admitted` (how many requests of each address were
admitted how many ticks ago). A count above the limit is capped one above it,
since all such counts are rejected alike.

`Router` adds the creation each address has under way, with one stage per await
of `handleCreateRoom`, and the rooms of the objects (`expiresIn`):

| Action | Code |
|---|---|
| `CreateRequest` | `handleCreateRoom` up to its loop: counted, pruned, checked |
| `DrawCode`, `OutOfAttempts` | an iteration of the loop up to `fetch`; the 503 after the last one |
| `Initialize`, `RefuseInit` | `handleInit` in the object of the code: 201, or 409 |
| `Collision`, `RespondRoom`, `InitFails` | what the router makes of the object's answer |
| `OtherRequest` | any other request: it counts, and prunes |
| `RouterTick` | time, for the limiter and for the rooms |

A request may fail at any await, with the room initialised or not. What
else happens in a room is `Room`'s subject; here it only ends.

`ConnectionRateLimiter`: one socket,
whether the `Map` of the room has a limiter for it, the limiter's tokens and the
units due since its last refill; `spent` and `earned` observe an arbitrary
window. `Hibernate` empties the `Map`; the runtime hibernates an object only
after ten seconds without events, which are worth five bursts
(`IdleAssumption`).

### SyncEngine and Playback

`SyncEngine` has one operator per action of `apply`. A suppression list is kept
as how many entries of a kind have how many ticks left; pruning is ageing.
Whether a heartbeat's position is farther off than the threshold is an argument:
`Playback` leaves it open, `DriftEstimate` computes it. `local-seeking` is not
modelled, since nothing feeds it to the engine, nor is the notice that a peer
is buffering (the set it comes from is).

`Playback` puts an engine in each of two clients, a host and a guest:

| State | Code |
|---|---|
| `connected` | `connState === "connected"` |
| `player` | `core.status.paused`, `core.status.speed`, `paused-for-cache` |
| `events` | player events whose listener has not run |
| `engine` | `syncEngine` |
| `inbox` | messages on their way to a client |
| `byUser` | history: the pending events the user has a part in |
| `acts`, `drops` | history, for the bounds |

A listener (`PauseChanged`, `SeekDone`, `SpeedChanged`, `CacheChanged`) reads the
player when it runs, not when the event came up; changes of one property that
have not been reported are reported once, as mpv does. `RemoteCommand` and
`RemoteHeartbeat` are `onRemotePlayback` with `executeEffects`, `PeerJoined` is
`onPresence`, `HeartbeatDue` the interval timer, `Connect` is `onAuthOk`. The
server is two FIFO queues: with two clients the queue to the relay and the queue
from it are one. `peer-joined` stands for that event and for `peer-replaced`,
which have the same effect on playback; `peer-left` has none.

### DriftEstimate

One guest, with its engine from `SyncEngine` and the part of it that `Playback`
leaves out: `positionMs` and the ticks since `lastUpdateMs` (`elapsed`). All positions
are relative to that of the guest's player, which keeps the state space small
without a bound on positions: when a seek lands, everything else shifts. The host
is reduced to its speed, its stalls, what its engine has heard of them (`heard`), its position
(`gap`), and what it sends. Both play;
pauses are `Playback`'s subject, and an estimate made in a pause is the position.

`Refresh` and `HostHeartbeat` are the interval timers of the two, `ReceiveSpeed`,
`ReceiveSeek` and `ReceiveHeartbeat` are `onRemotePlayback` with `executeEffects`,
`SpeedChanged`, `SeekReported`, `CacheChanged` and `HostCacheChanged` are the listeners, and `SeekLands` is the
player's. A tick (about a second) is longer than messages and reports of a
player take, so that time goes on when nothing is pending; within a tick any order is possible.
What the guest's user does reaches the host at once.

### Client

| State | Code |
|---|---|
| `conn`, `room`, `reconnecting`, `heartbeat`, `fileKnown` | `connState`, `room`, `reconnecting`, `heartbeatTimer`, `sessionFileUrl` of `main.ts` |
| `view`, `sock`, `url`, `attempt`, `timer`, `fetching` | `currentView`, `socket`, `wsConnectUrl`, `wsReconnectAttempt`, `wsReconnectTimer`, and requests under way in `sidebar/index.js` |
| `toMain`, `toSidebar` | `iina.postMessage` and `sidebar.postMessage`: FIFO queues |
| `dismissed` | history: Back has replaced the error shown last by the idle view |

There is one action per handler of a message (`Handle…` in the main entry; `ShowState`,
`ShowError`, `StartFetch`, `WsConnect`, `WsDisconnect`, `WsSend` in the sidebar), per event
of the WebSocket, the timer and a request, per button, and for `iina.file-loaded`, at any
moment (whether the player has a URL then is open).
The phase of the socket says how far the room has got with it: `RoomAccepts`,
`RoomRejects`, `AuthTimeout`, `RoomEnds` and `ServerError` are what `Room` can do to one connection.

What is assumed about time, where the code relies on it:

- People are slower than messages: they click when what has been posted to the sidebar is shown
  and their last click has been handled. Files change at any moment.
- A connection takes round trips to the server: what the main entry and the sidebar had
  posted to each other before it began has arrived before it opens (`Dial`).
- The shortest delay of the reconnection timer (750 ms) and the authentication timeout (10 s)
  are longer than such a message takes.

## 3. Runs

| Run | Specification | Properties | Size |
|---|---|---|---|
| `room_members` | every order of events; 3 sessions, 3 sockets, capacity 2 | `TypeOK`, `OneHost`, `Capacity`, `OnePidOnePerson`, `NoGhostPeers`, `RemovedRoomIsEmpty`, `RowsOutliveConnections` | 398 000 states |
| `room_calm` | no takeover, no overlap; 3 sessions, 3 sockets | `PeersKnown`, `OneOpenHost`, `ConnectedAreRegistered`, `KeepsSeats` | 9 000 |
| `room_live` | no takeover; 2 sessions, 2 sockets, distinct deadlines | `AlarmArmed`, `AuthDeadlineCovered`, `AuthDecided`, `RoomCleanedUp` | 32 000 |
| `room_replaced_peer_left` | as `Spec` | `PeersKnown` fails | |
| `router` | 2 addresses, 2 codes, 2 attempts, limit 2, window 2, pruning every 2nd request | `RouterTypeOK`, `AtMostTwoWindows`, `LimitedForCause`, `OneCreator`, `CreationAnswered` | 238 000 |
| `connection_limiter` | burst 5, cost 2, refill 1 | `TypeOK`, `RateBound`, `ImplementsBucket` | |
| `playback_prompt` | prompt players, data may run out; 1 act | `TypeOK`, `NoEcho` | 760 000 |
| `playback_converge` | prompt players; 2 acts, 2 speeds | `SpeedsConverge`, `CommandsEnd` | 150 000 |
| `playback_unhurried` | acts one at a time; 3 acts, 2 lost connections | `AgreeOnPause` | 17 000 |
| `drift` | threshold 2, heartbeat and cooldown 5, jumps of 3, speeds 1 and 2; 2 acts, 4 ticks of stall | `TypeOK`, `DriftIsShort`, `NoNeedlessCorrection`, `SettledTogether` | 189 000 |
| `client` | 2 rooms, 1 reconnection attempt, 1 request under way | `TypeOK`, `BridgeExclusive`, `HeartbeatOnlyInRoom`, `ConnectedIsTrue`, `NotThereWhenIdle`, `AuthFirst`, `ViewAgrees`, `AttemptsEnd` | 701 000 |
| `client_connecting` | 1 room | `Reauthenticates` fails | |

**Bounds.** A room for two with three sessions and three sockets is the smallest
in which somebody is rejected, evicted, replaced while a third one listens, or
takes the place of somebody who is still closing; both roles and the transition
between them need only two participants. Five participant ids are enough: at
most two are in rows, and at most two more on the sockets other than the one that
authenticates. Deadlines of one or two ticks make the auth deadline come
before, at and after the end of the room; `room_live` keeps all of them apart.
Sockets and sessions are symmetric in the safety runs; the liveness runs use no
symmetry. The limiters' bounds make several windows, and pruning in each phase
of one, occur; two codes and two attempts make both attempts collide and one of them. The connection limiter's history is bounded by constraints on the
window observed (`MaxEarned`) and idle time (`MaxAccrued`), both beyond a burst. In
`Playback` one heartbeat per direction is on its way at a time; a suppression
lasts a tick, within which any number of messages and events can happen. In `drift`
the proportions are the real ones in seconds (threshold 2, interval 5, cooldown 5), and a
stall of up to four ticks leaves a drift beyond the threshold that no seek explains. In
`client` a second room is what a late answer can confuse with the first; after one
attempt the bridge gives up on the next loss, and the counter's reset by an open and by a
disconnect are all in reach. The proofs of section 5 do not depend on any of these bounds.

**What TLC stops at.** Deadlock is checked in every run; none of the systems
stops, since time passes.

**Environments.** What holds only in some environments is stated with them:

- `NextNoTakeover` (`Room`): no room is created over one that has expired and whose alarm has
  not run. It takes a second room with the same random code at the very
  end of the first. Without it the sockets of the old room stay connected and
  authenticated in the new one (`room.ts:630-631` deletes rows only), so that two clients may
  act as host; the alarm for a socket that has yet to authenticate is replaced by that of
  the new end (`room.ts:645`); and a new alarm could be set again and again in place of the
  one that is due. `AuthDeadlineCovered`, `AuthDecided`, `RoomCleanedUp` and the properties of
  `room_calm` say nothing of this case.
- `NoOverlap` (`Room`, `CalmSpec`): a client comes back after the server has seen its old connection
  end. Without it, besides the run above, a goodbye that arrives late on a
  replaced socket unregisters the session that has come back
  (`room.ts:258`), which is a new participant, perhaps with another role, the
  next time.
- `PromptNext`: players report what happened to them before the suppression window
  (500 ms) is over, and before a reconnection, which takes longer than that
  (`WS_BASE_DELAY` of the bridge). Without it a late report is sent as the user's,
  and two slow players can make each other seek for ever.
- `UnhurriedNext`: users act, and clients connect, when everything has been received
  and reported and no suppression is left. The first is needed (section 4,
  on commands that cross). The second is, too: a snapshot that tells a paused player to pause
  leaves a suppression that no event consumes, and a pause within the next
  500 ms is taken for its echo (`sync.ts:182`).
- `ConvergeNext` and `UnhurriedNext`: moreover players do not run out of data.
  Without that `AgreeOnPause` fails although users do not hurry: the engine sends
  no play or pause while `paused-for-cache` is set, whoever caused it (`sync.ts:224`, `233`).

**Fairness.** `Room`: time passes (`WF(Tick)`), and the alarm runs, `SF(Alarm)`:
the runtime runs a due alarm as soon as it can, and the only events that disable
it are upgrades that slip in at that instant and put it off by `MinAlarmDelay`
(100 ms); it is due again after that, and runs unless this goes on for ever. No
client is assumed to do anything: `AuthDecided` and `RoomCleanedUp` hold for
silent and for hostile ones. `Playback`: timers, listeners and messages that
are due happen; in `playback_converge` also the heartbeat. Nothing is assumed
of users, networks or data. `Router`: a creation under way goes on, since each await is
answered or fails. `DriftEstimate`: time, both heartbeats, messages, seeks and reports
happen, and data comes back. `Client`: messages are delivered, an attempt to connect
succeeds or fails, a socket that has not authenticated is answered or timed out, requests
are answered, and the timer fires, strongly: clicks may put its assumption (messages have
arrived) off at any moment, but not for ever. Nothing is assumed of a connection in a room,
which may last.

## 4. What the runs found

Two runs show a disagreement between the code and what its documents, comments or tests
say of it (`findings` in `PROJECT.json`, each with the sentence it contradicts):

- `room_replaced_peer_left`. A client reconnects before the server has noticed that its old connection is
  gone. The old socket's close event then announces `peer-left` for the id that
  is connected again, and the others forget a participant who is there.
- `client_connecting`. A first connection fails. `ws-closed` resets the main entry, with the
  room, as a test expects; the bridge, which retries all the same, sends
  `ws-reconnecting` right behind it, and the main entry goes back to connecting, without a
  room. When the socket opens, `ws-open` has nothing to authenticate with (`main.ts:394`),
  although a test is named "re-authenticates on successful reconnection"; the room times the
  socket out with 4001, after which the bridge does not retry; and the main entry stays in
  state connecting for ever. The user sees the room's error and, after Back, the idle view,
  in which create and join are ignored; Cancel exists only in the connecting view. `AttemptsEnd` is
  what does hold: an attempt that knows its room ends.

Observations while modelling, which no run reports:

- `relayToPeer` (`room.ts:836-844`) stops at the first closing socket, because `send()` throws; the
  peers after it do not get the message, and a goodbye is not carried out (`Blocked`).
- A guest's play and the host's snapshot that cross swap the two players' states.
  Heartbeats correct the guest's speed and position, never its pause, so that
  the players differ until somebody acts. `AgreeOnPause` is therefore about
  unhurried users.
- Re-creating an expired room before its alarm (`NextNoTakeover` above) and a goodbye that a reconnection has
  overtaken (`NoOverlap`) do what section 3 says of them.
- A new engine, and one that has just received a snapshot, takes its player not
  to be waiting for data (`sync.ts:297`), and lets a heartbeat make it seek.
- A heartbeat or a speed command that changes the speed rescales the time since the last update
  (`sync.ts:207`): from speed 1 to 2 just before a refresh, the estimate is almost 5 s ahead,
  more than the threshold, and the guest is made to seek to where it is, which
  starts a cooldown. `NoNeedlessCorrection` excepts what has happened since the last refresh for this.
- The answer to a creation that was cancelled, arriving while another room is being joined, takes
  the client into the created room (`main.ts:348`). Client and bridge agree on it
  (`ConnectedIsTrue`); the user asked for the other one.
- A connected client whose room closes it with 4001 to 4005, at the end of the room (4002) for one, stays
  connected: `ws-closed` sets `reconnecting` (`main.ts:430`), the bridge does not retry these codes,
  and nothing else changes the state. There is no socket, heartbeat or timer then, which is the
  exception that `ConnectedIsTrue` states (`Abandoned`).
- After a server error, that of an expired room included, Back leads to the idle view of a client that is
  still connected, where create and join do nothing (`main.ts:252`, `287`) and there is no Leave;
  opening another file gets out. `ViewAgrees` states that only Back, after an error, does this
  (history variable `dismissed`).
- A file opened while the loss of a connection is on its way to the main entry makes it leave,
  and the `ws-reconnecting` behind the loss puts it into connecting, without a room. The
  `disconnect` has stopped the timer, so that nothing happens until the user cancels.
- The failure of a creation that was cancelled, arriving during a join, resets the main entry
  (`main.ts:356`) and leaves the socket or the timer of the join behind. `NotThereWhenIdle` says
  that such a socket is not authenticated; the room times it out.
- A wrong code is refused at the upgrade, which the bridge takes for a lost connection and retries ten times.
- The counter that `rate-limit.ts:5` calls a sliding window is one of fixed windows:
  `AtMostTwoWindows` states the bound it does keep.
- `GOTCHAS.md:69` says that a rate-limited socket is closed with 4003,
  while `room.ts:195-201` answers with an error and keeps it.
- `bufferingPeers` keeps a peer that left while it was buffering, so that the notice about it stays.

## 5. Proofs

All hold for every value of the constants, under the assumptions named in the
modules (limits are positive, sessions are finitely many, the normal speed is a
speed, a correction's cooldown is at most a heartbeat interval).

| Theorem | Inductive invariant | Argument |
|---|---|---|
| `RoomProofs!TypeCorrect` | `TypeOK` | one case per action; `NextAlarm` needs that a minimum exists (`LeastNatural`) |
| `RowsSafe` | `TypeOK` | action property: of the four places that delete rows, two need an ended room, one spares connected sessions, one is a goodbye |
| `HostIsUnique`, `CapacityHolds` | themselves, with `TypeOK` | `TableSteps`: a step empties the table, removes rows, or is `AuthNew`, which adds one to what the eviction left |
| `AlarmAlwaysArmed` | itself, with `TypeOK` | bounds of `NextAlarm` |
| `PidsIdentify` | itself, with `TypeOK` and `SlotsClean` | identities are copied from rows, fresh ones from unused ids. `SlotsClean` (a socket slot that is not in use carries no identity) is what makes it inductive: an upgrade must not bring an old identity back |
| `NoGhosts` | itself, with the above | an id enters a list together with a socket that carries it, and leaves it with that socket |
| `RoomsLeaveNothing` | itself, with `TypeOK` | of `Spec`: whatever adds a row or an identity needs a room that lives, and the alarm that removes the room empties the table and closes every socket |
| `DeadlinesAreCovered` | `Deadlines`: the alarm is no later than any open deadline or `MinAlarmDelay`; a deadline for whoever must authenticate, and nobody open without a room | of `NextNoTakeover`; each handler that sets a deadline reschedules, and `NextAlarm` is below all it takes the minimum of |
| `RowsOfTheConnected`, `ListsAreComplete`, `OneHostConnected` | `CalmInvariant`: these, `Deadlines`, `OneHost`, `OnePidOnePerson` and `NoOverlap` | of `CalmSpec`; `PresentStep`: a step leaves those who stay connected as they were, or lets one in. Two hosts connected would have rows, of which one is a host's |
| `ImplementsMembership` | `KeepsSeats` | of `CalmSpec`, from `CalmInvariant` and `Capacity`: each step is `Admit`, `Return`, `Resign`, `Vanish` or `Finish` under the mapping `seats <- Seats`, `present <- Here`, or changes neither. A newcomer who is refused has evicted nobody, since everyone is present |
| `RouterProofs!TypeCorrect` | `RouterInv`: with `CountedNow`, that nobody was admitted more often in this tick than their entry counts | without it the history could exceed the limit |
| `CodesAreUnique` | `RouterInv`: a code without a live room has no creators | `Initialize` is atomic from its check to its write; interleavings at the awaits cannot come between |
| `AdmissionIsBounded`, `NobodyIsLimitedEarly` | `RouterInv`, `WindowsInv`: what was admitted since an open window started is what the entry counts (capped at the limit), and of what was admitted before it the oldest is already forgotten, so that `limit - 1` at most remain | an admission adds one to the youngest age only; a tick maps the requests remembered one to one to older ages (`RequestsAged`). Requests are counted as the elements of a set, so that the lemmas are about injections and need no induction over a sum |
| `ConnectionRateLimiterProofs!Implements` | `TypeOK` | refinement step by step, with the level of the bucket mapped to `Refilled`; hibernating changes nothing because the idle time fills the bucket |
| `RateIsBounded` | `Balance` | what was admitted plus what is left is at most a burst plus what came in; `RateBound` alone is not inductive, since it does not bound what is left |
| `PlaybackProofs!TypeCorrect` | `TypeOK` | one case per action; consuming a suppression takes the oldest, whose count is positive |
| `NoEchoTheorem` | `TypeOK`, `Accounted` | see below |
| `PlayersAgree` | `TypeOK`, `AgreementInv` | of `UnhurriedSpec`. While both are connected, either one user's change is unreported and nothing else is on its way (`Toggled`), or one follows the other: every order on its way to it says what the other does, and its own pending reports are suppressed (`Follows`). Nothing is needed while one is away, because a connection starts quiet and makes the host send its state |
| `DriftEstimateProofs!TypeCorrect` | `DInv` | `Clock`: the time since an update and the time to the next refresh are an interval at most |
| `CorrectionsAreNeeded` | `DInv`: `Reflected` (what the engine knows of its player is true, or a report is on its way) and `Exact` (in a steady time the estimate is the position) | the drift computed is then the true one |
| `DriftEnds` | `DriftInv`: `DInv`, `CooldownEnds` (no cooldown outlasts the time to the next heartbeat, and one heartbeat at most is on its way) and `ApartInv` (while the two are apart, `Undisturbed` and `Overdue`) | see below |
| `ClientProofs!TypeCorrect` | `TypeOK` | one case per handler; queues are sequences of messages each side understands |
| `OneConnection` | itself, with `TypeOK` | a socket and a timer replace each other: `OpenSocket` clears the timer, `SocketLost` the socket |
| `QueuesAreOrdered` | `QueueInv`, with `TypeOK` and `BridgeExclusive` | all messages of sockets on their way to the main entry are those of one socket, since the next is opened only when they have arrived; they are in the order in which that socket produced them. See below |
| `HeartbeatsStop`, `ConnectedMeansInRoom`, `IdleMeansOut`, `AuthComesFirst` | `QueueInv` | each is what a part of `QueueInv` says of empty queues, or of the head of one |
| `ViewFollowsState` | `ViewInv`, with `QueueInv` | the last view on its way to the sidebar, or else the one shown, fits the state: the main entry posts a view together with each change of state that the old view would not fit, and the sidebar by itself only goes back from an error to the idle view |

`NoEcho` is not inductive on its own. `Accounted` says that whatever is pending at
a connected client is the user's doing or has a live suppression of its kind in
the engine. Every answer of the engine to a message satisfies `Expects`: it keeps
the suppressions there were and adds one for each effect the player will report
(one lemma per message type). Every answer to a player event satisfies
`Answers`: it uses up a suppression of that event's kind only, and sends
nothing if there was one. That the environment is `PromptNext` is used in two
places only: for `Tick`, which
ages suppressions, and for `Connect`, which drops them.

`DriftIsShort` is a bound on time, and its invariant says how the time is spent. Since the
two have been apart, nothing has happened except what heartbeats made the guest do, since
every act of a user starts the count afresh (`Undisturbed`). The first heartbeat in that time makes
the speeds equal; a refresh makes the estimate exact, and it stays exact
while the speed is. `Overdue` says that whoever has been apart for longer than an
interval has had both, unless the heartbeat came before the refresh
(`SinceBeat < SinceRefresh`), which the next heartbeat rules out. That heartbeat therefore finds
the drift, and `CooldownEnds` lets it correct: this is where the assumption
`Cooldown <= Interval` is used (`CooldownAssumption`; the code has 5000 ms for
both, `sync.ts:28` and `main.ts:71`). With a longer cooldown a correction could be refused.

The queue properties of `Client` speak of moments when nothing is on its way, and so
say nothing of the steps in between. `QueueInv` extends them to queues that are
not empty: `PhaseInv` says which messages of a socket in each phase can still be unread,
`FramesInv` which frames can be on their way to it, `OrderInv` in which order its
messages are (an `auth-ok` never before `ws-open`, an end never before an `auth-ok`, the
news of a reconnection behind that of the loss). `AuthenticatingInv`, `ConnectedInv` and
`HeartbeatInv` relate the state of the main entry, and whether it takes itself to be
reconnecting, to what it has yet to read (a connected client that is reconnecting has no socket: it was
lost, and the news of the retry is unread, or the room closed it);
`LeavingInv` that a `disconnect`, or the `connect` that replaces the socket, is on its way
whenever the main entry has left a room that the socket is in. The sidebar's messages
are never compared with each other in any other way, so that the proof is about a
few predicates on sequences (`Some`, `Then`, `Names`), with one lemma for each of
`Append`, `Tail` and concatenation. TLC checked `QueueInv` and `ViewInv` on every reachable state of
the run `client` first.

TLC checked `AgreementInv` and `DriftInv` in the same way, on instances of
`Playback` and `DriftEstimate`.

Only model-checked: liveness (`AuthDecided`, `RoomCleanedUp`, `CreationAnswered`, `SpeedsConverge`,
`CommandsEnd`, `SettledTogether`, `AttemptsEnd`), which needs fairness and `ENABLED`; and the
two disagreements of section 4. Every invariant and every action property of the runs is proved.

## 6. Not modelled, and what could follow

- **Stateless parts**: message validation (`validation.ts`), invites (`invite.ts`) and
  file mismatch (`file-mismatch.ts`). They decide on inputs; the modules above take the
  decision as a choice of the environment (`RejectFirstMessage`, an invite that parses or not)
  and warnings about files change no state.
- **Overlay**: loaded but unused, and a near copy of the sidebar's bridge.
- **Preferences page, build scripts**: no state at run time.
- **Texts, notices, log output, the participant list on show.**
- **The Workers runtime, mpv and IINA**: external; the decisions about them are in section 2.

What could follow: the composition of `Room` with several `Client`s, for a host in every room that has participants
(today the next newcomer is a guest after the host's goodbye, and the room has no
host until it empties); the agreement of the
two message validations, the client's and the room's.
