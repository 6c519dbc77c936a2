------------------------------- MODULE Client -------------------------------
(***************************************************************************)
(* A client: the connection state machine of the plugin's main entry       *)
(* (plugin/src/main.ts), and the sidebar webview                           *)
(* (plugin/ui/sidebar/index.js) that owns its buttons, its fetch requests  *)
(* and its WebSocket, with the reconnection timer.  The two exchange       *)
(* messages over two FIFO queues.  The room at the other end of the        *)
(* WebSocket is reduced to what it answers and when it closes.             *)
(***************************************************************************)
EXTENDS Naturals, Sequences, SequencesExt

CONSTANTS
    Rooms,          \* room codes
    NoRoom,         \* null
    MaxAttempts,    \* WS_MAX_ATTEMPTS
    MaxFetches      \* bound: fetch requests under way

ASSUME RoomAssumption == NoRoom \notin Rooms
ASSUME BoundAssumption == MaxAttempts \in Nat /\ MaxFetches \in Nat

VARIABLES
    \* main.ts
    conn,           \* connState
    room,           \* room.roomCode, or NoRoom
    reconnecting,
    heartbeat,      \* heartbeatTimer is set
    fileKnown,      \* sessionFileUrl is set
    \* sidebar/index.js
    view,           \* currentView
    dismissed,      \* history: the error last shown has been left with Back
    sock,           \* socket: the room it leads to, and its phase
    url,            \* wsConnectUrl: its room, or NoRoom
    attempt,        \* wsReconnectAttempt
    timer,          \* wsReconnectTimer is set
    fetching,       \* fetch requests under way
    \* messages
    toMain,
    toSidebar

main == <<conn, room, reconnecting, heartbeat, fileKnown>>
panel == <<view, dismissed>>
bridge == <<sock, url, attempt, timer>>
sidebar == <<panel, bridge, fetching>>
vars == <<main, sidebar, toMain, toSidebar>>

----------------------------------------------------------------------------
(* Messages *)

Signals == {"create-room", "leave-room", "ws-open", "ws-closed", "ws-reconnecting",
            "ws-reconnect-failed", "auth-error", "error"}
ForMain ==
    [type : Signals, arg : {NoRoom}]
        \cup [type : {"join-room", "auth-ok"}, arg : Rooms]
        \cup [type : {"sb-fetch-response"}, arg : Rooms \cup {NoRoom}]
Views == {"idle", "connecting", "connected", "error"}
Frames == {"auth", "playback", "goodbye"}
ForSidebar ==
    [type : {"sb-state"}, arg : Views]
        \cup [type : {"ws-send"}, arg : Frames]
        \cup [type : {"ws-connect"}, arg : Rooms]
        \cup [type : {"sb-error", "sb-fetch", "ws-disconnect"}, arg : {NoRoom}]

\* What a server message carries in its data, and the payloads of the bridge, are
\* left out but for the room.
Msg(type, arg) == [type |-> type, arg |-> arg]
Signal(type) == Msg(type, NoRoom)
View(name) == Msg("sb-state", name)
Frame(kind) == Msg("ws-send", kind)

Holds(queue, type) == \E i \in DOMAIN queue : queue[i].type = type
Delivered == toMain = <<>> /\ toSidebar = <<>>

\* Dialing: connecting, while messages that were under way when that began may
\* still be.  Closing: the room has closed it, and the close has not arrived.
Phases == {"none", "dialing", "connecting", "open", "authSent", "inRoom", "closing"}
NoSock == [room |-> NoRoom, phase |-> "none"]

TypeOK ==
    /\ conn \in {"idle", "connecting", "authenticating", "connected"}
    /\ room \in Rooms \cup {NoRoom}
    /\ reconnecting \in BOOLEAN /\ heartbeat \in BOOLEAN /\ fileKnown \in BOOLEAN
    /\ view \in Views /\ dismissed \in BOOLEAN
    /\ sock \in [room : Rooms, phase : Phases \ {"none"}] \cup {NoSock}
    /\ url \in Rooms \cup {NoRoom}
    /\ attempt \in 0..MaxAttempts
    /\ timer \in BOOLEAN
    /\ fetching \in Nat
    /\ toMain \in Seq(ForMain)
    /\ toSidebar \in Seq(ForSidebar)

Init ==
    /\ conn = "idle" /\ room = NoRoom
    /\ reconnecting = FALSE /\ heartbeat = FALSE /\ fileKnown = FALSE
    /\ view = "idle" /\ dismissed = FALSE
    /\ sock = NoSock /\ url = NoRoom /\ attempt = 0 /\ timer = FALSE
    /\ fetching = 0
    /\ toMain = <<>> /\ toSidebar = <<>>

----------------------------------------------------------------------------
(* Main entry.  A handler takes the first message of the queue. *)

MainReceives(type) ==
    /\ toMain # <<>> /\ Head(toMain).type = type
    /\ toMain' = Tail(toMain)
    /\ UNCHANGED sidebar
Post(msgs) == toSidebar' = toSidebar \o msgs
Ignored == UNCHANGED <<main, toSidebar>>

\* resetState, which ends by showing the idle view.
\* (Bug operators are mutants of the definition that follows.)
\* Bug: the heartbeat timer goes on.
BugResetState ==
    /\ conn' = "idle" /\ room' = NoRoom
    /\ reconnecting' = FALSE /\ fileKnown' = FALSE
    /\ UNCHANGED heartbeat
ResetState ==
    /\ conn' = "idle" /\ room' = NoRoom
    /\ reconnecting' = FALSE /\ heartbeat' = FALSE /\ fileKnown' = FALSE

\* disconnect
\* Bugs: the view stays; the socket stays.
BugDisconnectView == ResetState /\ Post(<<Signal("ws-disconnect")>>)
BugDisconnect == ResetState /\ Post(<<View("idle")>>)
Disconnect ==
    /\ ResetState
    /\ Post((IF room # NoRoom /\ conn = "connected" THEN <<Frame("goodbye")>> ELSE <<>>)
            \o <<Signal("ws-disconnect"), View("idle")>>)

\* The second disjunct: no file is open, or no backend is configured.
HandleCreateRoom ==
    /\ MainReceives("create-room")
    /\ \/ conn # "idle" /\ Ignored
       \/ conn = "idle" /\ Post(<<Signal("sb-error")>>) /\ UNCHANGED main
       \/ /\ conn = "idle"
          /\ conn' = "connecting"
          /\ Post(<<View("connecting"), Signal("sb-fetch")>>)
          /\ UNCHANGED <<room, reconnecting, heartbeat, fileKnown>>

\* The second disjunct: likewise, or the invite does not parse.
HandleJoinRoom ==
    /\ MainReceives("join-room")
    /\ \/ conn # "idle" /\ Ignored
       \/ conn = "idle" /\ Post(<<Signal("sb-error")>>) /\ UNCHANGED main
       \/ /\ conn = "idle"
          /\ conn' = "connecting"
          /\ room' = Head(toMain).arg
          /\ Post(<<View("connecting"), Msg("ws-connect", room')>>)
          /\ UNCHANGED <<reconnecting, heartbeat, fileKnown>>

HandleLeaveRoom == MainReceives("leave-room") /\ Disconnect

HandleFetchResponse ==
    /\ MainReceives("sb-fetch-response")
    /\ LET code == Head(toMain).arg
       IN  \/ conn # "connecting" /\ Ignored
           \/ /\ conn = "connecting" /\ code = NoRoom
              /\ ResetState
              /\ Post(<<View("idle"), Signal("sb-error")>>)
           \/ /\ conn = "connecting" /\ code # NoRoom
              /\ room' = code
              /\ Post(<<Msg("ws-connect", code)>>)
              /\ UNCHANGED <<conn, reconnecting, heartbeat, fileKnown>>

HandleWsOpen ==
    /\ MainReceives("ws-open")
    /\ \/ room = NoRoom /\ Ignored
       \/ /\ room # NoRoom
          /\ reconnecting' = FALSE
          /\ conn' = "authenticating"
          /\ Post(<<Frame("auth")>>)
          /\ UNCHANGED <<room, heartbeat, fileKnown>>

\* onAuthOk, with initSync.  A player that has closed its file has no URL.
\* Bug: without the early return.
BugHandleAuthOk ==
    /\ MainReceives("auth-ok")
    /\ room' = Head(toMain).arg /\ conn' = "connected"
    /\ heartbeat' = TRUE /\ fileKnown' \in BOOLEAN
    /\ Post(<<View("connected")>>)
    /\ UNCHANGED reconnecting
HandleAuthOk ==
    /\ MainReceives("auth-ok")
    /\ \/ (conn # "authenticating" \/ room = NoRoom) /\ Ignored
       \/ /\ conn = "authenticating" /\ room # NoRoom
          /\ room' = Head(toMain).arg
          /\ heartbeat' = TRUE
          /\ fileKnown' \in BOOLEAN
          /\ conn' = "connected"
          /\ Post(<<View("connected")>>)
          /\ UNCHANGED reconnecting

\* onAuthError
HandleAuthError ==
    /\ MainReceives("auth-error")
    /\ room' = NoRoom
    /\ conn' = "idle"
    /\ Post(<<Signal("ws-disconnect"), Signal("sb-error")>>)
    /\ UNCHANGED <<reconnecting, heartbeat, fileKnown>>

\* onServerError
HandleServerError ==
    /\ MainReceives("error")
    /\ Post(<<Signal("sb-error")>>)
    /\ UNCHANGED main

HandleWsClosed ==
    /\ MainReceives("ws-closed")
    /\ \/ /\ conn = "connected"
          /\ reconnecting' = TRUE
          /\ heartbeat' = FALSE
          /\ UNCHANGED <<conn, room, fileKnown, toSidebar>>
       \/ /\ conn \in {"connecting", "authenticating"} /\ ~reconnecting
          /\ ResetState
          /\ Post(<<View("idle"), Signal("sb-error")>>)
       \/ (conn = "idle" \/ (conn # "connected" /\ reconnecting)) /\ Ignored

\* Bug: the client still takes itself to be in the room.
BugHandleWsReconnecting ==
    /\ MainReceives("ws-reconnecting")
    /\ reconnecting' = TRUE
    /\ UNCHANGED <<conn, room, heartbeat, fileKnown, toSidebar>>
HandleWsReconnecting ==
    /\ MainReceives("ws-reconnecting")
    /\ reconnecting' = TRUE
    /\ conn' = "connecting"
    /\ Post(IF conn # "connecting" THEN <<View("connecting")>> ELSE <<>>)
    /\ UNCHANGED <<room, heartbeat, fileKnown>>

HandleReconnectFailed ==
    /\ MainReceives("ws-reconnect-failed")
    /\ ResetState
    /\ Post(<<View("idle"), View("error"), Signal("sb-error")>>)

\* iina.file-loaded, at any time, of the file there was (same) or of another one,
\* or of one whose URL the player does not give.
FileLoaded(same) ==
    /\ IF conn # "idle" /\ room # NoRoom /\ fileKnown
       THEN \/ same /\ Ignored
            \/ ~same /\ Disconnect
       ELSE /\ fileKnown' \in BOOLEAN
            /\ UNCHANGED <<conn, room, reconnecting, heartbeat, toSidebar>>
    /\ UNCHANGED <<sidebar, toMain>>

\* A frame of the sync engine or of the heartbeat timer; bound: one under way.
SendPlayback ==
    /\ conn = "connected"
    /\ toSidebar = <<>>
    /\ Post(<<Frame("playback")>>)
    /\ UNCHANGED <<main, sidebar, toMain>>

----------------------------------------------------------------------------
(* Sidebar: the buttons of each view.  People are slower than messages: they *)
(* see what has been posted, and their last click has been handled, before   *)
(* they click again.                                                         *)

Clicks == {"create-room", "join-room", "leave-room"}
Click(type, arg) ==
    /\ toSidebar = <<>>
    /\ \A click \in Clicks : ~Holds(toMain, click)
    /\ toMain' = Append(toMain, Msg(type, arg))
    /\ UNCHANGED <<main, sidebar, toSidebar>>

ClickCreate ==
    /\ view = "idle"
    /\ fetching < MaxFetches
    /\ Click("create-room", NoRoom)
ClickJoin(code) == view = "idle" /\ Click("join-room", code)
ClickLeave == view \in {"connecting", "connected"} /\ Click("leave-room", NoRoom)
ClickBack ==
    /\ view = "error"
    /\ view' = "idle" /\ dismissed' = TRUE
    /\ UNCHANGED <<main, bridge, fetching, toMain, toSidebar>>

----------------------------------------------------------------------------
(* Sidebar: messages of the main entry *)

SidebarReceives(type) ==
    /\ toSidebar # <<>> /\ Head(toSidebar).type = type
    /\ toSidebar' = Tail(toSidebar)
    /\ UNCHANGED main
Emit(msgs) == toMain' = toMain \o msgs

ShowState ==
    /\ SidebarReceives("sb-state")
    /\ view' = Head(toSidebar).arg /\ dismissed' = FALSE
    /\ UNCHANGED <<bridge, fetching, toMain>>

ShowError ==
    /\ SidebarReceives("sb-error")
    /\ view' = "error" /\ dismissed' = FALSE
    /\ UNCHANGED <<bridge, fetching, toMain>>

StartFetch ==
    /\ SidebarReceives("sb-fetch")
    /\ fetching' = fetching + 1
    /\ UNCHANGED <<panel, bridge, toMain>>

\* wsOpenSocket, with wsDestroySocket: the old socket and the timer go without
\* an event, their handlers being removed.
\* Bug: the timer goes on.
BugOpenSocket(code) ==
    /\ sock' = [room |-> code, phase |-> "dialing"]
    /\ url' = code
    /\ UNCHANGED <<attempt, timer>>
OpenSocket(code) ==
    /\ sock' = [room |-> code, phase |-> "dialing"]
    /\ url' = code
    /\ timer' = FALSE
    /\ UNCHANGED attempt

WsConnect ==
    /\ SidebarReceives("ws-connect")
    /\ OpenSocket(Head(toSidebar).arg)
    /\ UNCHANGED <<panel, fetching, toMain>>

\* wsIntentionalClose is left out: wsDestroySocket removes the handler that reads it.
WsDisconnect ==
    /\ SidebarReceives("ws-disconnect")
    /\ sock' = NoSock /\ url' = NoRoom /\ attempt' = 0 /\ timer' = FALSE
    /\ UNCHANGED <<panel, fetching, toMain>>

\* A frame for a socket that is not open is dropped.  The room answers an
\* unauthenticated frame other than auth with a rejection; to the others it
\* gives no answer here (RoomAccepts, RoomRejects, ServerError, SocketLost do).
WsSend ==
    /\ SidebarReceives("ws-send")
    /\ LET frame == Head(toSidebar).arg
       IN  \/ sock.phase # "open" /\ UNCHANGED <<bridge, toMain>>
           \/ /\ sock.phase = "open" /\ frame = "auth"
              /\ sock' = [sock EXCEPT !.phase = "authSent"]
              /\ UNCHANGED <<url, attempt, timer, toMain>>
           \/ /\ sock.phase = "open" /\ frame # "auth"
              /\ sock' = [sock EXCEPT !.phase = "closing"]
              /\ Emit(<<Signal("auth-error")>>)
              /\ UNCHANGED <<url, attempt, timer>>
    /\ UNCHANGED <<panel, fetching>>

----------------------------------------------------------------------------
(* Sidebar: events of the WebSocket, the timer and the requests *)

Event == UNCHANGED <<main, panel, toSidebar>>

\* A connection takes round trips to the server, which are slower than messages
\* between the two: those sent before it began arrive before it opens.
Dial ==
    /\ Event
    /\ sock.phase = "dialing" /\ Delivered
    /\ sock' = [sock EXCEPT !.phase = "connecting"]
    /\ UNCHANGED <<url, attempt, timer, fetching, toMain>>

SocketOpens ==
    /\ Event
    /\ sock.phase = "connecting"
    /\ sock' = [sock EXCEPT !.phase = "open"]
    /\ attempt' = 0
    /\ Emit(<<Signal("ws-open")>>)
    /\ UNCHANGED <<url, timer, fetching>>

\* wsScheduleReconnect
\* Bug: one attempt more.
BugAttemptsLeft == attempt <= MaxAttempts
AttemptsLeft == attempt < MaxAttempts

Retry ==
    /\ AttemptsLeft
    /\ attempt' = attempt + 1 /\ timer' = TRUE
    /\ Emit(<<Signal("ws-closed"), Signal("ws-reconnecting")>>)
    /\ UNCHANGED url

\* Bug: the main entry is not told.
BugGiveUp ==
    /\ ~AttemptsLeft
    /\ url' = NoRoom /\ attempt' = 0
    /\ Emit(<<Signal("ws-closed")>>)
    /\ UNCHANGED timer
GiveUp ==
    /\ ~AttemptsLeft
    /\ url' = NoRoom /\ attempt' = 0
    /\ Emit(<<Signal("ws-closed"), Signal("ws-reconnect-failed")>>)
    /\ UNCHANGED timer

\* onclose with any code but 4001 to 4005: a lost connection, a refused upgrade
\* (also for a code that no room has), the close that follows a goodbye.  The
\* URL is known then: BridgeExclusive.
SocketLost ==
    /\ Event
    /\ sock # NoSock /\ url # NoRoom
    /\ sock' = NoSock
    /\ Retry \/ GiveUp
    /\ UNCHANGED fetching

\* onclose with the code of a rejection, 4001 to 4005: no reconnection.
SocketClosed ==
    /\ Event
    /\ sock.phase = "closing"
    /\ sock' = NoSock
    /\ Emit(<<Signal("ws-closed")>>)
    /\ UNCHANGED <<url, attempt, timer, fetching>>

\* The shortest delay (750 ms) is longer than the delivery of a message.
TimerFires ==
    /\ Event
    /\ timer /\ Delivered
    /\ url # NoRoom /\ OpenSocket(url)
    /\ UNCHANGED <<fetching, toMain>>

\* The answer to a creation: a code, or an error.
FetchReturns ==
    /\ Event
    /\ fetching > 0
    /\ fetching' = fetching - 1
    /\ \E code \in Rooms \cup {NoRoom} : Emit(<<Msg("sb-fetch-response", code)>>)
    /\ UNCHANGED bridge

----------------------------------------------------------------------------
(* The room *)

RoomSends(type, phase) ==
    /\ Event
    /\ sock' = [sock EXCEPT !.phase = phase]
    /\ Emit(<<Msg(type, IF type = "auth-ok" THEN sock.room ELSE NoRoom)>>)
    /\ UNCHANGED <<url, attempt, timer, fetching>>

RoomAccepts == sock.phase = "authSent" /\ RoomSends("auth-ok", "inRoom")
RoomRejects == sock.phase = "authSent" /\ RoomSends("auth-error", "closing")

\* The alarm: the authentication timeout (10 s, longer than the delivery of a
\* message), and the end of the room.
AuthTimeout ==
    /\ sock.phase \in {"open", "authSent"} /\ Delivered
    /\ RoomSends("error", "closing")
RoomEnds == sock.phase = "inRoom" /\ RoomSends("error", "closing")

\* A frame is rejected (rate limit, body); bound: one error under way.
ServerError ==
    /\ sock.phase = "inRoom"
    /\ ~Holds(toMain, "error") /\ ~Holds(toSidebar, "sb-error")
    /\ RoomSends("error", "inRoom")

----------------------------------------------------------------------------
MainHandles ==
    \/ HandleCreateRoom \/ HandleJoinRoom \/ HandleLeaveRoom \/ HandleFetchResponse
    \/ HandleWsOpen \/ HandleWsClosed \/ HandleWsReconnecting \/ HandleReconnectFailed
    \/ HandleAuthOk \/ HandleAuthError \/ HandleServerError
SidebarHandles ==
    \/ ShowState \/ ShowError \/ StartFetch \/ WsConnect \/ WsDisconnect \/ WsSend
SocketEvent ==
    \/ Dial \/ SocketOpens \/ SocketLost \/ SocketClosed
    \/ RoomAccepts \/ RoomRejects \/ AuthTimeout \/ RoomEnds
User ==
    \/ ClickCreate \/ (\E code \in Rooms : ClickJoin(code)) \/ ClickLeave \/ ClickBack
    \/ (\E same \in BOOLEAN : FileLoaded(same)) \/ SendPlayback

Next ==
    \/ MainHandles \/ SidebarHandles \/ SocketEvent \/ ServerError
    \/ TimerFires \/ FetchReturns \/ User

Spec == Init /\ [][Next]_vars

\* Messages are delivered; a connection attempt succeeds or fails, an open
\* socket is authenticated or timed out, a close arrives, and a request is
\* answered.  Clicks go on and put Delivered off, but not the timer.
Fairness ==
    /\ WF_vars(MainHandles) /\ WF_vars(SidebarHandles)
    /\ WF_vars(sock.phase # "inRoom" /\ SocketEvent)
    /\ WF_vars(FetchReturns) /\ SF_vars(TimerFires)

FairSpec == Spec /\ Fairness

----------------------------------------------------------------------------
(* Properties *)

\* One connection at a time: the timer does not run beside a socket, and the
\* URL kept for the next attempt is that of the socket.
BridgeExclusive ==
    /\ timer => sock = NoSock /\ url # NoRoom
    /\ sock # NoSock => sock.room = url

\* Heartbeats stop when a connection is lost, left, rejected or given up.
HeartbeatOnlyInRoom == heartbeat => conn = "connected"

\* When nothing is on its way, a client that takes itself to be in a room is
\* authenticated in that room, or the room has just closed its socket, or closed it
\* with 4001 to 4005 before: ws-closed leaves such a client connected (main.ts:430),
\* without a socket, a heartbeat or a timer that would bring it back.
Abandoned == reconnecting /\ ~heartbeat /\ sock = NoSock /\ ~timer
ConnectedIsTrue ==
    Delivered /\ conn = "connected" =>
        \/ sock.phase \in {"inRoom", "closing"} /\ sock.room = room /\ ~reconnecting
        \/ Abandoned

\* ... and one that takes itself to be in none is in none.  (A socket that has not
\* authenticated, or a timer that will open one, may be left: the failure of a late
\* creation resets the main entry alone.  Nothing will authenticate it then.)
NotThereWhenIdle ==
    Delivered /\ conn = "idle" => sock.phase \notin {"authSent", "inRoom"}

\* The room never has to reject a client for not authenticating first: frames of an
\* old connection do not reach the socket of a new one.
AuthFirst ==
    toSidebar # <<>> /\ sock.phase = "open" => Head(toSidebar) # Frame("playback")

\* The view is that of the main entry's state, or an error; the idle view stands for
\* another state only after Back, from an error, and nothing shown since.
ViewOf(state) == IF state = "authenticating" THEN "connecting" ELSE state
ViewAgrees ==
    Delivered => \/ view \in {ViewOf(conn), "error"}
                 \/ view = "idle" /\ dismissed

Attempting == conn \in {"connecting", "authenticating"}

\* A request for a room is under way.
FetchPending ==
    \/ fetching > 0
    \/ Holds(toSidebar, "sb-fetch") \/ Holds(toMain, "sb-fetch-response")

\* An attempt that knows its room, or waits for it to be created, ends.
AttemptsEnd ==
    Attempting /\ (room # NoRoom \/ FetchPending) ~> ~Attempting

\* "re-authenticates on successful reconnection" (main.test.ts:1494): a client that
\* reconnects, and whose socket has opened, goes on to authenticate, or is reset.
Reauthenticates ==
    conn = "connecting" /\ reconnecting /\ sock.phase = "open" ~> conn # "connecting"

=============================================================================
