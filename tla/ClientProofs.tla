---------------------------- MODULE ClientProofs ----------------------------
(***************************************************************************)
(* Theorems about Client, for any codes and any number of attempts.        *)
(***************************************************************************)
EXTENDS Client, TLAPS

LEMMA Queues ==
    ASSUME NEW S, NEW q \in Seq(S)
    PROVE  /\ q # <<>> => Head(q) \in S /\ Tail(q) \in Seq(S)
           /\ \A r \in Seq(S) : q \o r \in Seq(S)
           /\ \A x \in S : Append(q, x) \in Seq(S)
  OBVIOUS

LEMMA ShortQueues ==
    ASSUME NEW S, NEW x \in S, NEW y \in S, NEW z \in S
    PROVE  <<>> \in Seq(S) /\ <<x>> \in Seq(S) /\ <<x, y>> \in Seq(S) /\ <<x, y, z>> \in Seq(S)
  OBVIOUS

LEMMA NothingMore == ASSUME NEW S, NEW q \in Seq(S) PROVE q \o <<>> = q
  OBVIOUS

LEMMA Associative ==
    ASSUME NEW S, NEW q \in Seq(S), NEW r \in Seq(S), NEW s \in Seq(S)
    PROVE  q \o (r \o s) = (q \o r) \o s
  OBVIOUS

LEMMA OneAndOne ==
    ASSUME NEW S, NEW x \in S, NEW y \in S
    PROVE  <<x>> \o <<y>> = <<x, y>>
<1> DEFINE s == <<x>> \o <<y>>
           t == <<x, y>>
<1>1. s \in Seq(S) /\ Len(s) = 2 /\ s[1] = x /\ s[2] = y
  OBVIOUS
<1>2. t \in Seq(S) /\ Len(t) = 2 /\ t[1] = x /\ t[2] = y
  OBVIOUS
<1> HIDE DEF s, t
<1>3. \A i \in 1..2 : i = 1 \/ i = 2
  OBVIOUS
<1>4. s = t
  BY <1>1, <1>2, <1>3
<1> QED  BY <1>4 DEF s, t

LEMMA TwoAndOne ==
    ASSUME NEW S, NEW x \in S, NEW y \in S, NEW z \in S
    PROVE  <<x, y>> \o <<z>> = <<x, y, z>>
<1> DEFINE s == <<x, y>> \o <<z>>
           t == <<x, y, z>>
<1>1. s \in Seq(S) /\ Len(s) = 3 /\ s[1] = x /\ s[2] = y /\ s[3] = z
  OBVIOUS
<1>2. t \in Seq(S) /\ Len(t) = 3 /\ t[1] = x /\ t[2] = y /\ t[3] = z
  OBVIOUS
<1> HIDE DEF s, t
<1>3. \A i \in 1..3 : i = 1 \/ i = 2 \/ i = 3
  OBVIOUS
<1>4. s = t
  BY <1>1, <1>2, <1>3
<1> QED  BY <1>4 DEF s, t

LEMMA OneAndTwo ==
    ASSUME NEW S, NEW x \in S, NEW y \in S, NEW z \in S
    PROVE  <<x>> \o <<y, z>> = <<x, y, z>> /\ <<>> \o <<y, z>> = <<y, z>>
<1> DEFINE s == <<x>> \o <<y, z>>
           t == <<x, y, z>>
<1>1. s \in Seq(S) /\ Len(s) = 3 /\ s[1] = x /\ s[2] = y /\ s[3] = z
  OBVIOUS
<1>2. t \in Seq(S) /\ Len(t) = 3 /\ t[1] = x /\ t[2] = y /\ t[3] = z
  OBVIOUS
<1>3. <<>> \o <<y, z>> = <<y, z>>
  OBVIOUS
<1> HIDE DEF s, t
<1>4. \A i \in 1..3 : i = 1 \/ i = 2 \/ i = 3
  OBVIOUS
<1>5. \A i \in 1..3 : s[i] = t[i]
  BY <1>1, <1>2, <1>4
<1>6. s = t
  BY <1>1, <1>2, <1>5
<1> QED  BY <1>3, <1>6 DEF s, t

\* What the codes of messages are for.
LEMMA MessagesForMain ==
    /\ \A type \in Signals : Signal(type) \in ForMain
    /\ \A code \in Rooms : Msg("join-room", code) \in ForMain /\ Msg("auth-ok", code) \in ForMain
    /\ \A code \in Rooms \cup {NoRoom} : Msg("sb-fetch-response", code) \in ForMain
    /\ \A m \in ForMain :
          /\ m.type \in {"join-room", "auth-ok"} => m.arg \in Rooms
          /\ m.type = "sb-fetch-response" => m.arg \in Rooms \cup {NoRoom}
  BY DEF Signal, Msg, ForMain, Signals

LEMMA MessagesForSidebar ==
    /\ \A name \in Views : View(name) \in ForSidebar
    /\ \A kind \in Frames : Frame(kind) \in ForSidebar
    /\ \A code \in Rooms : Msg("ws-connect", code) \in ForSidebar
    /\ Signal("sb-error") \in ForSidebar
    /\ Signal("sb-fetch") \in ForSidebar
    /\ Signal("ws-disconnect") \in ForSidebar
    /\ \A m \in ForSidebar :
          /\ m.type = "sb-state" => m.arg \in Views
          /\ m.type = "ws-connect" => m.arg \in Rooms
          /\ m.type = "ws-send" => m.arg \in Frames
  BY DEF View, Frame, Signal, Msg, ForSidebar, Views, Frames

----------------------------------------------------------------------------
(* Type correctness, in the parts that the steps of each side leave alone *)

MainOK ==
    /\ conn \in {"idle", "connecting", "authenticating", "connected"}
    /\ room \in Rooms \cup {NoRoom}
    /\ reconnecting \in BOOLEAN /\ heartbeat \in BOOLEAN /\ fileKnown \in BOOLEAN
BridgeOK ==
    /\ sock \in [room : Rooms, phase : Phases \ {"none"}] \cup {NoSock}
    /\ url \in Rooms \cup {NoRoom}
    /\ attempt \in 0..MaxAttempts
    /\ timer \in BOOLEAN
SidebarOK == BridgeOK /\ view \in Views /\ dismissed \in BOOLEAN /\ fetching \in Nat
QueuesOK == toMain \in Seq(ForMain) /\ toSidebar \in Seq(ForSidebar)

LEMMA TypeParts == TypeOK <=> MainOK /\ SidebarOK /\ QueuesOK
  BY DEF TypeOK, MainOK, BridgeOK, SidebarOK, QueuesOK

LEMMA TypeInit == Init => TypeOK
<1> SUFFICES ASSUME Init PROVE MainOK /\ SidebarOK /\ QueuesOK
  BY TypeParts
<1>1. MainOK
  BY DEF Init, MainOK
<1>2. BridgeOK
  <2>1. attempt \in 0..MaxAttempts
    BY BoundAssumption DEF Init
  <2> QED  BY <2>1 DEF Init, BridgeOK
<1>3. view \in Views /\ dismissed \in BOOLEAN /\ fetching \in Nat
  BY DEF Init, Views
<1>4. QueuesOK
  BY DEF Init, QueuesOK
<1> QED  BY <1>1, <1>2, <1>3, <1>4 DEF SidebarOK

LEMMA DisconnectTypes ==
    MainOK /\ QueuesOK /\ Disconnect => MainOK' /\ toSidebar' \in Seq(ForSidebar)
<1> SUFFICES ASSUME MainOK, QueuesOK, Disconnect
             PROVE  MainOK' /\ toSidebar' \in Seq(ForSidebar)
  OBVIOUS
<1>1. MainOK'
  BY DEF Disconnect, ResetState, MainOK
<1>2. /\ <<Frame("goodbye")>> \in Seq(ForSidebar) /\ <<>> \in Seq(ForSidebar)
      /\ <<Signal("ws-disconnect"), View("idle")>> \in Seq(ForSidebar)
  BY ShortQueues, MessagesForSidebar DEF Frames, Views
<1> DEFINE goodbye == IF room # NoRoom /\ conn = "connected" THEN <<Frame("goodbye")>> ELSE <<>>
<1>3. goodbye \in Seq(ForSidebar)
  BY <1>2
<1>4. goodbye \o <<Signal("ws-disconnect"), View("idle")>> \in Seq(ForSidebar)
  BY <1>2, <1>3, Queues
<1>5. toSidebar' = toSidebar \o (goodbye \o <<Signal("ws-disconnect"), View("idle")>>)
  BY DEF Disconnect, Post
<1>6. toSidebar' \in Seq(ForSidebar)
  BY <1>4, <1>5, Queues DEF QueuesOK
<1> QED  BY <1>1, <1>6

LEMMA MainTypes == TypeOK /\ MainHandles => TypeOK'
<1> SUFFICES ASSUME TypeOK, MainHandles PROVE MainOK' /\ SidebarOK' /\ QueuesOK'
  BY TypeParts DEF TypeOK, MainOK, SidebarOK, BridgeOK, QueuesOK
<1>1. MainOK /\ SidebarOK /\ QueuesOK
  BY TypeParts
<1>2. PICK type : MainReceives(type)
  BY DEF MainHandles, HandleCreateRoom, HandleJoinRoom, HandleLeaveRoom, HandleFetchResponse,
         HandleWsOpen, HandleWsClosed, HandleWsReconnecting, HandleReconnectFailed,
         HandleAuthOk, HandleAuthError, HandleServerError
<1>3. Head(toMain) \in ForMain /\ toMain' \in Seq(ForMain)
  BY <1>1, <1>2, Queues DEF MainReceives, QueuesOK
<1>4. SidebarOK'
  BY <1>1, <1>2 DEF MainReceives, sidebar, panel, bridge, SidebarOK, BridgeOK
<1>5. ASSUME NEW msgs \in Seq(ForSidebar), Post(msgs)
      PROVE  toSidebar' \in Seq(ForSidebar)
  BY <1>1, <1>5, Queues DEF Post, QueuesOK
<1> DEFINE Goal == MainOK' /\ toSidebar' \in Seq(ForSidebar)
<1>6. ASSUME HandleCreateRoom PROVE Goal
  <2>1. ASSUME conn = "idle", conn' = "connecting",
               Post(<<View("connecting"), Signal("sb-fetch")>>),
               UNCHANGED <<room, reconnecting, heartbeat, fileKnown>>
        PROVE  Goal
    BY <1>1, <1>5, <2>1, ShortQueues, MessagesForSidebar DEF MainOK, Views
  <2>2. ASSUME Post(<<Signal("sb-error")>>), UNCHANGED main
        PROVE  Goal
    BY <1>1, <1>5, <2>2, ShortQueues, MessagesForSidebar DEF MainOK, main
  <2>3. ASSUME Ignored PROVE Goal
    BY <1>1, <2>3 DEF Ignored, MainOK, QueuesOK, main
  <2> QED  BY <1>6, <2>1, <2>2, <2>3 DEF HandleCreateRoom
<1>7. ASSUME HandleJoinRoom PROVE Goal
  <2>1. ASSUME conn' = "connecting", room' = Head(toMain).arg,
               Post(<<View("connecting"), Msg("ws-connect", room')>>),
               UNCHANGED <<reconnecting, heartbeat, fileKnown>>
        PROVE  Goal
    <3>1. room' \in Rooms
      BY <1>3, <1>7, <2>1, MessagesForMain DEF HandleJoinRoom, MainReceives
    <3>2. <<View("connecting"), Msg("ws-connect", room')>> \in Seq(ForSidebar)
      BY <3>1, ShortQueues, MessagesForSidebar DEF Views
    <3> QED  BY <1>1, <1>5, <2>1, <3>1, <3>2 DEF MainOK
  <2>2. ASSUME Post(<<Signal("sb-error")>>), UNCHANGED main
        PROVE  Goal
    BY <1>1, <1>5, <2>2, ShortQueues, MessagesForSidebar DEF MainOK, main
  <2>3. ASSUME Ignored PROVE Goal
    BY <1>1, <2>3 DEF Ignored, MainOK, QueuesOK, main
  <2> QED  BY <1>7, <2>1, <2>2, <2>3 DEF HandleJoinRoom
<1>8. ASSUME HandleLeaveRoom PROVE Goal
  BY <1>1, <1>8, DisconnectTypes DEF HandleLeaveRoom, MainOK, QueuesOK
<1>9. ASSUME ResetState PROVE MainOK'
  BY <1>9 DEF ResetState, MainOK
<1>10. ASSUME HandleFetchResponse PROVE Goal
  <2> DEFINE code == Head(toMain).arg
  <2>1. code \in Rooms \cup {NoRoom}
    BY <1>3, <1>10, MessagesForMain DEF HandleFetchResponse, MainReceives
  <2>2. ASSUME ResetState, Post(<<View("idle"), Signal("sb-error")>>)
        PROVE  Goal
    BY <1>5, <1>9, <2>2, ShortQueues, MessagesForSidebar DEF Views
  <2>3. ASSUME code # NoRoom, room' = code, Post(<<Msg("ws-connect", code)>>),
               UNCHANGED <<conn, reconnecting, heartbeat, fileKnown>>
        PROVE  Goal
    <3>1. <<Msg("ws-connect", code)>> \in Seq(ForSidebar)
      BY <2>1, <2>3, ShortQueues, MessagesForSidebar
    <3> QED  BY <1>1, <1>5, <2>1, <2>3, <3>1 DEF MainOK
  <2>4. ASSUME Ignored PROVE Goal
    BY <1>1, <2>4 DEF Ignored, MainOK, QueuesOK, main
  <2> QED  BY <1>10, <2>2, <2>3, <2>4 DEF HandleFetchResponse
<1>11. ASSUME HandleWsOpen PROVE Goal
  <2>1. <<Frame("auth")>> \in Seq(ForSidebar)
    BY ShortQueues, MessagesForSidebar DEF Frames
  <2> QED  BY <1>1, <1>5, <1>11, <2>1 DEF HandleWsOpen, Ignored, MainOK, QueuesOK, main
<1>12. ASSUME HandleWsClosed PROVE Goal
  <2>1. <<View("idle"), Signal("sb-error")>> \in Seq(ForSidebar)
    BY ShortQueues, MessagesForSidebar DEF Views
  <2> QED  BY <1>1, <1>5, <1>9, <1>12, <2>1 DEF HandleWsClosed, Ignored, MainOK, QueuesOK, main
<1>13. ASSUME HandleWsReconnecting PROVE Goal
  <2>1. <<View("connecting")>> \in Seq(ForSidebar) /\ <<>> \in Seq(ForSidebar)
    BY ShortQueues, MessagesForSidebar DEF Views
  <2> QED  BY <1>1, <1>5, <1>13, <2>1 DEF HandleWsReconnecting, MainOK
<1>14. ASSUME HandleReconnectFailed PROVE Goal
  <2>1. <<View("idle"), View("error"), Signal("sb-error")>> \in Seq(ForSidebar)
    BY ShortQueues, MessagesForSidebar DEF Views
  <2> QED  BY <1>5, <1>9, <1>14, <2>1 DEF HandleReconnectFailed
<1>15. ASSUME HandleAuthOk PROVE Goal
  <2>1. Head(toMain).arg \in Rooms
    BY <1>3, <1>15, MessagesForMain DEF HandleAuthOk, MainReceives
  <2>2. <<View("connected")>> \in Seq(ForSidebar)
    BY ShortQueues, MessagesForSidebar DEF Views
  <2> QED  BY <1>1, <1>5, <1>15, <2>1, <2>2 DEF HandleAuthOk, Ignored, MainOK, QueuesOK, main
<1>16. ASSUME HandleAuthError PROVE Goal
  <2>1. <<Signal("ws-disconnect"), Signal("sb-error")>> \in Seq(ForSidebar)
    BY ShortQueues, MessagesForSidebar
  <2> QED  BY <1>1, <1>5, <1>16, <2>1 DEF HandleAuthError, MainOK
<1>17. ASSUME HandleServerError PROVE Goal
  <2>1. <<Signal("sb-error")>> \in Seq(ForSidebar)
    BY ShortQueues, MessagesForSidebar
  <2> QED  BY <1>1, <1>5, <1>17, <2>1 DEF HandleServerError, MainOK, main
<1>18. Goal
  BY <1>6, <1>7, <1>8, <1>10, <1>11, <1>12, <1>13, <1>14, <1>15, <1>16, <1>17 DEF MainHandles
<1> QED  BY <1>3, <1>4, <1>18 DEF QueuesOK

\* A bridge that keeps or loses its socket, or moves it to another phase.
LEMMA PhaseTypes ==
    ASSUME BridgeOK, NEW phase \in Phases \ {"none"}, sock.phase # "none"
    PROVE  /\ sock.room \in Rooms
           /\ [sock EXCEPT !.phase = phase] \in [room : Rooms, phase : Phases \ {"none"}]
           /\ [sock EXCEPT !.phase = phase].room = sock.room
  BY DEF BridgeOK, NoSock

LEMMA OpenSocketTypes ==
    ASSUME BridgeOK, NEW code \in Rooms, OpenSocket(code)
    PROVE  BridgeOK' /\ timer' = FALSE /\ sock'.room = url'
  BY DEF BridgeOK, OpenSocket, Phases

LEMMA SidebarTypes == TypeOK /\ SidebarHandles => TypeOK'
<1> SUFFICES ASSUME TypeOK, SidebarHandles PROVE MainOK' /\ SidebarOK' /\ QueuesOK'
  BY TypeParts DEF TypeOK, MainOK, SidebarOK, BridgeOK, QueuesOK
<1>1. MainOK /\ SidebarOK /\ QueuesOK
  BY TypeParts
<1>2. PICK type : SidebarReceives(type)
  BY DEF SidebarHandles, ShowState, ShowError, StartFetch, WsConnect, WsDisconnect, WsSend
<1>3. Head(toSidebar) \in ForSidebar /\ toSidebar' \in Seq(ForSidebar)
  BY <1>1, <1>2, Queues DEF SidebarReceives, QueuesOK
<1>4. MainOK'
  BY <1>1, <1>2 DEF SidebarReceives, main, MainOK
<1> DEFINE Goal == SidebarOK' /\ toMain' \in Seq(ForMain)
<1>5. ASSUME ShowState PROVE Goal
  <2>1. Head(toSidebar).arg \in Views
    BY <1>3, <1>5, MessagesForSidebar DEF ShowState, SidebarReceives
  <2> QED  BY <1>1, <1>5, <2>1 DEF ShowState, SidebarOK, BridgeOK, QueuesOK, bridge
<1>6. ASSUME ShowError PROVE Goal
  BY <1>1, <1>6 DEF ShowError, SidebarOK, BridgeOK, QueuesOK, Views, bridge
<1>7. ASSUME StartFetch PROVE Goal
  BY <1>1, <1>7 DEF StartFetch, SidebarOK, BridgeOK, QueuesOK, panel, bridge
<1>8. ASSUME WsConnect PROVE Goal
  <2>1. Head(toSidebar).arg \in Rooms
    BY <1>3, <1>8, MessagesForSidebar DEF WsConnect, SidebarReceives
  <2> QED  BY <1>1, <1>8, <2>1, OpenSocketTypes DEF WsConnect, SidebarOK, QueuesOK, panel
<1>9. ASSUME WsDisconnect PROVE Goal
  <2>1. attempt' \in 0..MaxAttempts
    BY <1>9, BoundAssumption DEF WsDisconnect
  <2> QED  BY <1>1, <1>9, <2>1 DEF WsDisconnect, SidebarOK, BridgeOK, QueuesOK, panel
<1>10. ASSUME WsSend PROVE Goal
  <2>1. ASSUME UNCHANGED <<bridge, toMain>>, UNCHANGED <<panel, fetching>> PROVE Goal
    BY <1>1, <2>1 DEF SidebarOK, BridgeOK, QueuesOK, panel, bridge
  <2>2. ASSUME NEW phase \in {"authSent", "closing"}, sock.phase = "open",
               sock' = [sock EXCEPT !.phase = phase], UNCHANGED <<url, attempt, timer>>
        PROVE  BridgeOK'
    <3>1. phase \in Phases \ {"none"}
      BY DEF Phases
    <3> QED  BY <1>1, <2>2, <3>1, PhaseTypes DEF SidebarOK, BridgeOK
  <2>3. ASSUME Emit(<<Signal("auth-error")>>) PROVE toMain' \in Seq(ForMain)
    <3>1. Signal("auth-error") \in ForMain
      BY MessagesForMain DEF Signals
    <3> QED  BY <1>1, <2>3, <3>1, ShortQueues, Queues DEF Emit, QueuesOK
  <2> QED  BY <1>1, <1>10, <2>1, <2>2, <2>3 DEF WsSend, SidebarOK, QueuesOK, panel
<1>11. Goal
  BY <1>5, <1>6, <1>7, <1>8, <1>9, <1>10 DEF SidebarHandles
<1> QED  BY <1>3, <1>4, <1>11 DEF QueuesOK

LEMMA EventTypes == TypeOK /\ (SocketEvent \/ ServerError \/ TimerFires \/ FetchReturns) => TypeOK'
<1> SUFFICES ASSUME TypeOK, SocketEvent \/ ServerError \/ TimerFires \/ FetchReturns
             PROVE  MainOK' /\ SidebarOK' /\ QueuesOK'
  BY TypeParts DEF TypeOK, MainOK, SidebarOK, BridgeOK, QueuesOK
<1>1. MainOK /\ SidebarOK /\ QueuesOK
  BY TypeParts
<1>2. Event
  BY DEF SocketEvent, ServerError, TimerFires, FetchReturns, Dial, SocketOpens, SocketLost,
         SocketClosed, RoomAccepts, RoomRejects, AuthTimeout, RoomEnds, RoomSends
<1>3. MainOK' /\ view' \in Views /\ dismissed' \in BOOLEAN /\ toSidebar' \in Seq(ForSidebar)
  BY <1>1, <1>2 DEF Event, main, panel, MainOK, SidebarOK, QueuesOK
<1>4. ASSUME NEW msgs \in Seq(ForMain), Emit(msgs)
      PROVE  toMain' \in Seq(ForMain)
  BY <1>1, <1>4, Queues DEF Emit, QueuesOK
<1>5. \A t1, t2 \in Signals : <<Signal(t1)>> \in Seq(ForMain) /\ <<Signal(t1), Signal(t2)>> \in Seq(ForMain)
  BY ShortQueues, MessagesForMain
<1> DEFINE Goal == BridgeOK' /\ fetching' \in Nat /\ toMain' \in Seq(ForMain)
<1>6. ASSUME Dial PROVE Goal
  BY <1>1, <1>6, PhaseTypes DEF Dial, SidebarOK, BridgeOK, QueuesOK, Phases
<1>7. ASSUME SocketOpens PROVE Goal
  <2>1. toMain' \in Seq(ForMain)
    BY <1>4, <1>5, <1>7 DEF SocketOpens, Signals
  <2>2. attempt' \in 0..MaxAttempts
    BY <1>7, BoundAssumption DEF SocketOpens
  <2>3. sock' \in [room : Rooms, phase : Phases \ {"none"}]
    BY <1>1, <1>7, PhaseTypes DEF SocketOpens, SidebarOK, Phases
  <2> QED  BY <1>1, <1>7, <2>1, <2>2, <2>3 DEF SocketOpens, SidebarOK, BridgeOK
<1>8. ASSUME SocketLost PROVE Goal
  <2>1. ASSUME Retry PROVE attempt' \in 0..MaxAttempts /\ timer' \in BOOLEAN /\ url' = url
    BY <1>1, <2>1, BoundAssumption DEF Retry, AttemptsLeft, SidebarOK, BridgeOK
  <2>2. ASSUME GiveUp PROVE attempt' \in 0..MaxAttempts /\ timer' = timer /\ url' = NoRoom
    BY <1>1, <2>2, BoundAssumption DEF GiveUp, SidebarOK, BridgeOK
  <2>3. toMain' \in Seq(ForMain)
    BY <1>4, <1>5, <1>8 DEF SocketLost, Retry, GiveUp, Signals
  <2> QED  BY <1>1, <1>8, <2>1, <2>2, <2>3 DEF SocketLost, SidebarOK, BridgeOK
<1>9. ASSUME SocketClosed PROVE Goal
  <2>1. toMain' \in Seq(ForMain)
    BY <1>4, <1>5, <1>9 DEF SocketClosed, Signals
  <2> QED  BY <1>1, <1>9, <2>1 DEF SocketClosed, SidebarOK, BridgeOK
<1>10. ASSUME NEW type \in {"auth-ok", "auth-error", "error"},
              NEW phase \in Phases \ {"none"}, sock.phase # "none", RoomSends(type, phase)
       PROVE  Goal
  <2>1. sock.room \in Rooms /\ sock' \in [room : Rooms, phase : Phases \ {"none"}]
    BY <1>1, <1>10, PhaseTypes DEF RoomSends, SidebarOK
  <2>2. Msg(type, IF type = "auth-ok" THEN sock.room ELSE NoRoom) \in ForMain
    BY <2>1, MessagesForMain DEF Signal, Signals
  <2>3. toMain' \in Seq(ForMain)
    BY <1>4, <1>10, <2>2, ShortQueues DEF RoomSends
  <2> QED  BY <1>1, <1>10, <2>1, <2>3 DEF RoomSends, SidebarOK, BridgeOK
<1>11. ASSUME RoomAccepts \/ RoomRejects \/ AuthTimeout \/ RoomEnds \/ ServerError PROVE Goal
  <2>1. "inRoom" \in Phases \ {"none"} /\ "closing" \in Phases \ {"none"}
    BY DEF Phases
  <2> QED  BY <1>10, <1>11, <2>1 DEF RoomAccepts, RoomRejects, AuthTimeout, RoomEnds, ServerError
<1>12. ASSUME TimerFires PROVE Goal
  <2>1. url \in Rooms
    BY <1>1, <1>12 DEF TimerFires, SidebarOK, BridgeOK
  <2> QED  BY <1>1, <1>12, <2>1, OpenSocketTypes DEF TimerFires, SidebarOK, QueuesOK
<1>13. ASSUME FetchReturns PROVE Goal
  <2>1. fetching' \in Nat
    BY <1>1, <1>13 DEF FetchReturns, SidebarOK
  <2>2. \A code \in Rooms \cup {NoRoom} : <<Msg("sb-fetch-response", code)>> \in Seq(ForMain)
    BY ShortQueues, MessagesForMain
  <2>3. toMain' \in Seq(ForMain)
    BY <1>4, <1>13, <2>2 DEF FetchReturns
  <2> QED  BY <1>1, <1>13, <2>1, <2>3 DEF FetchReturns, SidebarOK, BridgeOK, bridge
<1>14. Goal
  BY <1>6, <1>7, <1>8, <1>9, <1>11, <1>12, <1>13 DEF SocketEvent
<1> QED  BY <1>3, <1>14 DEF SidebarOK, QueuesOK

LEMMA UserTypes == TypeOK /\ User => TypeOK'
<1> SUFFICES ASSUME TypeOK, User PROVE MainOK' /\ SidebarOK' /\ QueuesOK'
  BY TypeParts DEF TypeOK, MainOK, SidebarOK, BridgeOK, QueuesOK
<1>1. MainOK /\ SidebarOK /\ QueuesOK
  BY TypeParts
<1> DEFINE Goal == MainOK' /\ SidebarOK' /\ QueuesOK'
<1>2. ASSUME NEW type, NEW arg, Msg(type, arg) \in ForMain, Click(type, arg)
      PROVE  Goal
  <2>1. toMain' \in Seq(ForMain)
    BY <1>1, <1>2, Queues DEF Click, QueuesOK
  <2> QED  BY <1>1, <1>2, <2>1
           DEF Click, main, sidebar, panel, bridge, MainOK, SidebarOK, BridgeOK, QueuesOK
<1>3. ASSUME ClickCreate \/ ClickLeave PROVE Goal
  <2>1. Msg("create-room", NoRoom) \in ForMain /\ Msg("leave-room", NoRoom) \in ForMain
    BY MessagesForMain DEF Signal, Signals
  <2> QED  BY <1>2, <1>3, <2>1 DEF ClickCreate, ClickLeave
<1>4. ASSUME NEW code \in Rooms, ClickJoin(code) PROVE Goal
  BY <1>2, <1>4, MessagesForMain DEF ClickJoin
<1>5. ASSUME ClickBack PROVE Goal
  BY <1>1, <1>5 DEF ClickBack, main, bridge, MainOK, SidebarOK, BridgeOK, QueuesOK, Views
<1>6. ASSUME NEW same \in BOOLEAN, FileLoaded(same) PROVE Goal
  <2>1. SidebarOK' /\ toMain' \in Seq(ForMain)
    BY <1>1, <1>6 DEF FileLoaded, sidebar, panel, bridge, SidebarOK, BridgeOK, QueuesOK
  <2>2. ASSUME Disconnect PROVE MainOK' /\ toSidebar' \in Seq(ForSidebar)
    BY <1>1, <2>2, DisconnectTypes
  <2>3. ASSUME fileKnown' \in BOOLEAN, UNCHANGED <<conn, room, reconnecting, heartbeat, toSidebar>>
        PROVE  MainOK' /\ toSidebar' \in Seq(ForSidebar)
    BY <1>1, <2>3 DEF MainOK, QueuesOK
  <2>4. ASSUME UNCHANGED <<main, toSidebar>> PROVE MainOK' /\ toSidebar' \in Seq(ForSidebar)
    BY <1>1, <2>4 DEF main, MainOK, QueuesOK
  <2> QED  BY <1>6, <2>1, <2>2, <2>3, <2>4 DEF FileLoaded, Ignored, QueuesOK
<1>7. ASSUME SendPlayback PROVE Goal
  <2>1. <<Frame("playback")>> \in Seq(ForSidebar)
    BY ShortQueues, MessagesForSidebar DEF Frames
  <2>2. toSidebar' \in Seq(ForSidebar)
    BY <1>1, <1>7, <2>1, Queues DEF SendPlayback, Post, QueuesOK
  <2> QED  BY <1>1, <1>7, <2>2
           DEF SendPlayback, main, sidebar, panel, bridge, MainOK, SidebarOK, BridgeOK, QueuesOK
<1> QED  BY <1>3, <1>4, <1>5, <1>6, <1>7 DEF User

\* Type correctness: among it, that the attempts are counted up to the limit, that
\* a message that names a room is taken to name one, and that a socket leads to a
\* room (main.ts, sidebar/index.js).
THEOREM TypeCorrect == Spec => []TypeOK
<1>1. TypeOK /\ [Next]_vars => TypeOK'
  <2>1. TypeOK /\ UNCHANGED vars => TypeOK'
    BY DEF TypeOK, vars, main, sidebar, panel, bridge
  <2> QED  BY <2>1, MainTypes, SidebarTypes, EventTypes, UserTypes DEF Next
<1> QED  BY <1>1, TypeInit, PTL DEF Spec

----------------------------------------------------------------------------
\* There is one connection at a time: wsOpenSocket clears the timer before it opens
\* a socket, onclose forgets the socket before it sets the timer, and both know the
\* URL of the connection that ws-connect asked for last (sidebar/index.js).
THEOREM OneConnection == Spec => []BridgeExclusive
<1>1. Init => BridgeExclusive
  BY DEF Init, BridgeExclusive
<1>2. TypeOK /\ BridgeExclusive /\ [Next]_vars => BridgeExclusive'
  <2> SUFFICES ASSUME TypeOK, BridgeExclusive, [Next]_vars PROVE BridgeExclusive'
    OBVIOUS
  <2>1. BridgeOK
    BY TypeParts DEF SidebarOK
  <2>2. ASSUME UNCHANGED bridge PROVE BridgeExclusive'
    BY <2>2 DEF BridgeExclusive, bridge
  <2>3. ASSUME NEW code \in Rooms, OpenSocket(code) PROVE BridgeExclusive'
    BY <2>1, <2>3, OpenSocketTypes DEF BridgeExclusive
  <2>4. ASSUME NEW phase \in Phases \ {"none"}, sock.phase # "none",
               sock' = [sock EXCEPT !.phase = phase], UNCHANGED <<url, timer>>
        PROVE  BridgeExclusive'
    <3>1. sock # NoSock
      BY <2>4 DEF NoSock
    <3> QED  BY <2>1, <2>4, <3>1, PhaseTypes DEF BridgeExclusive
  <2>5. \A phase \in {"connecting", "open", "authSent", "inRoom", "closing"} :
           phase \in Phases \ {"none"}
    BY DEF Phases
  <2>6. CASE MainHandles
    <3>1. UNCHANGED bridge
      BY <2>6 DEF MainHandles, HandleCreateRoom, HandleJoinRoom, HandleLeaveRoom,
         HandleFetchResponse, HandleWsOpen, HandleWsClosed, HandleWsReconnecting,
         HandleReconnectFailed, HandleAuthOk, HandleAuthError, HandleServerError,
         MainReceives, sidebar
    <3> QED  BY <2>2, <3>1
  <2>7. CASE ShowState \/ ShowError \/ StartFetch \/ FetchReturns
    BY <2>2, <2>7 DEF ShowState, ShowError, StartFetch, FetchReturns
  <2>8. CASE WsConnect
    <3>1. Head(toSidebar).arg \in Rooms
      <4>1. Head(toSidebar) \in ForSidebar
        BY <2>8, TypeParts, Queues DEF WsConnect, SidebarReceives, QueuesOK
      <4> QED  BY <2>8, <4>1, MessagesForSidebar DEF WsConnect, SidebarReceives
    <3> QED  BY <2>3, <2>8, <3>1 DEF WsConnect
  <2>9. CASE WsDisconnect
    BY <2>9 DEF WsDisconnect, BridgeExclusive
  <2>10. CASE WsSend
    BY <2>2, <2>4, <2>5, <2>10 DEF WsSend
  <2>11. CASE TimerFires
    BY <2>1, <2>3, <2>11 DEF TimerFires, BridgeOK
  <2>12. CASE Dial \/ SocketOpens
    BY <2>4, <2>5, <2>12 DEF Dial, SocketOpens
  <2>13. CASE SocketLost
    <3>1. ~timer
      BY <2>13 DEF SocketLost, BridgeExclusive
    <3> QED  BY <2>13, <3>1 DEF SocketLost, Retry, GiveUp, BridgeExclusive
  <2>14. CASE SocketClosed
    BY <2>14 DEF SocketClosed, BridgeExclusive
  <2>15. CASE RoomAccepts \/ RoomRejects \/ AuthTimeout \/ RoomEnds \/ ServerError
    BY <2>4, <2>5, <2>15
       DEF RoomAccepts, RoomRejects, AuthTimeout, RoomEnds, ServerError, RoomSends
  <2>16. CASE User
    BY <2>2, <2>16 DEF User, ClickCreate, ClickJoin, ClickLeave, ClickBack, Click,
       FileLoaded, SendPlayback, sidebar
  <2>17. CASE UNCHANGED vars
    BY <2>2, <2>17 DEF vars, sidebar
  <2> QED
    BY <2>6, <2>7, <2>8, <2>9, <2>10, <2>11, <2>12, <2>13, <2>14, <2>15, <2>16, <2>17
       DEF Next, SidebarHandles, SocketEvent
<1> QED  BY <1>1, <1>2, TypeCorrect, PTL DEF Spec

----------------------------------------------------------------------------
(* What the two queues can hold, given what the two sides believe.  All the  *)
(* messages of sockets that are in toMain are of one socket: nothing is on    *)
(* its way when a socket is dialed (Dial).                                   *)

Kind(m) == IF m.type = "ws-send" THEN m.arg ELSE m.type
Some(queue, kinds) == \E i \in DOMAIN queue : Kind(queue[i]) \in kinds
Then(queue, first, second) ==
    \E i, j \in DOMAIN queue :
        i < j /\ Kind(queue[i]) \in first /\ Kind(queue[j]) \in second
Names(queue, code) ==
    \A i \in DOMAIN queue : queue[i].type = "auth-ok" => queue[i].arg = code

Open == {"ws-open"}
Ok == {"auth-ok"}
Refused == {"auth-error"}
Closed == {"ws-closed"}
Again == {"ws-reconnecting"}
Ends == {"ws-closed", "ws-reconnecting", "ws-reconnect-failed"}
Auth == {"auth"}
Others == {"playback", "goodbye"}
Renewals == {"ws-connect", "ws-disconnect"}

\* What a socket in some phase has not said yet.
PhaseInv ==
    /\ sock.phase = "connecting" =>
           ~Some(toMain, Open) /\ ~Some(toMain, Ok) /\ ~Some(toMain, Refused) /\ ~Some(toMain, Ends)
    /\ sock.phase \in {"open", "authSent"} =>
           ~Some(toMain, Ok) /\ ~Some(toMain, Refused) /\ ~Some(toMain, Ends)
    /\ sock.phase \in {"authSent", "inRoom"} => ~Some(toMain, Open)
    /\ sock.phase = "inRoom" => ~Some(toMain, Refused) /\ ~Some(toMain, Ends)
    /\ sock.phase = "closing" => ~Some(toMain, Ends)

\* ... and what has not been posted to it.
FramesInv ==
    /\ sock.phase = "connecting" => ~Some(toSidebar, Auth)
    /\ sock.phase \in {"connecting", "open"} => ~Some(toSidebar, Others)
    /\ Some(toMain, Open) => ~Some(toSidebar, Auth)

\* The order of what one socket says.
OrderInv ==
    /\ ~Then(toMain, Open, Open)
    /\ Some(toMain, Open) => ~Some(toMain, Ok)
    /\ Some(toMain, Ok) => ~Some(toMain, Refused)
    /\ ~Then(toMain, Ends, Ok)
    /\ timer /\ Some(toMain, Ok) => Some(toMain, Again)
    /\ Some(toMain, Ok) /\ Some(toMain, Again) => Then(toMain, Closed, Again)
    /\ sock.phase \in {"inRoom", "closing"} => Names(toMain, sock.room)

\* While the main entry authenticates, it has not given the connection up; when its
\* frame has been answered, the socket is the one that was answered, or over.
AuthenticatingInv ==
    conn = "authenticating" =>
        /\ ~reconnecting
        /\ ~Then(toSidebar, Auth, Renewals)
        /\ sock.phase \in {"authSent", "inRoom"} \/ Some(toMain, Ok) => ~Some(toSidebar, Renewals)
        /\ Some(toMain, Ok) => /\ sock.phase \in {"inRoom", "closing", "none"}
                               /\ ~Then(toMain, Again, Closed)
        /\ Some(toMain, Ok) /\ sock.phase = "none" => Some(toMain, Closed)

ConnectedInv ==
    conn = "connected" =>
        /\ ~Some(toSidebar, Renewals) /\ ~Some(toMain, Open) /\ ~Some(toMain, Refused)
        /\ sock.phase \in {"inRoom", "closing", "none"}
        /\ ~Then(toMain, Again, Closed)
        /\ timer => Some(toMain, Again)
        /\ sock.phase = "none" /\ ~reconnecting => Some(toMain, Closed)
        /\ reconnecting => sock.phase = "none"
        /\ sock.phase \in {"inRoom", "closing"} => sock.room = room

HeartbeatInv ==
    heartbeat => /\ conn = "connected" /\ ~reconnecting
                 /\ Some(toMain, Again) => Then(toMain, Closed, Again)

\* Who is in a room without knowing has asked to leave it.
LeavingInv ==
    /\ conn = "idle" => room = NoRoom
    /\ conn \notin {"authenticating", "connected"} /\ sock.phase \in {"authSent", "inRoom"} =>
           Some(toSidebar, Renewals)
    /\ conn # "authenticating" /\ sock.phase = "open" /\ Some(toSidebar, Auth) =>
           Then(toSidebar, Auth, Renewals)

QueueInv ==
    /\ PhaseInv /\ FramesInv /\ OrderInv
    /\ AuthenticatingInv /\ ConnectedInv /\ HeartbeatInv /\ LeavingInv

\* The view that the last message sets, or v, the one there is.
IsView(m) == m.type \in {"sb-state", "sb-error"}
Shown(m) == IF m.type = "sb-error" THEN "error" ELSE m.arg
Agrees(name, state) == name \in {ViewOf(state), "error"}
Fits(queue, v, state) ==
    /\ (\A i \in DOMAIN queue : ~IsView(queue[i])) => Agrees(v, state)
    /\ \A i \in DOMAIN queue :
           IsView(queue[i]) /\ (\A j \in DOMAIN queue : j > i => ~IsView(queue[j]))
               => Agrees(Shown(queue[i]), state)
\* What the main entry has had shown last: Back does not count.
LastShown == IF dismissed THEN "error" ELSE view
ViewInv == Fits(toSidebar, LastShown, conn) /\ (dismissed => view = "idle")

LEMMA AtHead ==
    ASSUME NEW S, NEW q \in Seq(S), q # <<>>
    PROVE  /\ \A K : Some(q, K) <=> Kind(Head(q)) \in K \/ Some(Tail(q), K)
           /\ \A A, B : Then(q, A, B) <=>
                 (Kind(Head(q)) \in A /\ Some(Tail(q), B)) \/ Then(Tail(q), A, B)
           /\ \A code : Names(q, code) <=>
                 (Head(q).type = "auth-ok" => Head(q).arg = code) /\ Names(Tail(q), code)
<1>1. /\ Len(q) \in Nat \ {0} /\ DOMAIN q = 1..Len(q)
      /\ DOMAIN Tail(q) = 1..Len(q) - 1 /\ Head(q) = q[1]
      /\ \A i \in 1..Len(q) - 1 : Tail(q)[i] = q[i + 1]
  OBVIOUS
<1>2. \A i \in 1..Len(q) : i # 1 => i - 1 \in 1..Len(q) - 1 /\ q[i] = Tail(q)[i - 1]
  BY <1>1
<1>3. \A i \in 1..Len(q) - 1 : i + 1 \in 1..Len(q) /\ i + 1 # 1
  BY <1>1
<1>4. ASSUME NEW K PROVE Some(q, K) <=> Kind(Head(q)) \in K \/ Some(Tail(q), K)
  <2>1. ASSUME Some(q, K) PROVE Kind(Head(q)) \in K \/ Some(Tail(q), K)
    BY <1>1, <1>2, <2>1 DEF Some
  <2>2. ASSUME Kind(Head(q)) \in K PROVE Some(q, K)
    <3>1. 1 \in DOMAIN q
      BY <1>1
    <3> QED  BY <1>1, <2>2, <3>1 DEF Some
  <2>3. ASSUME Some(Tail(q), K) PROVE Some(q, K)
    BY <1>1, <1>3, <2>3 DEF Some
  <2> QED  BY <2>1, <2>2, <2>3
<1>5. ASSUME NEW A, NEW B
      PROVE  Then(q, A, B) <=>
                (Kind(Head(q)) \in A /\ Some(Tail(q), B)) \/ Then(Tail(q), A, B)
  <2>1. ASSUME Then(q, A, B)
        PROVE  (Kind(Head(q)) \in A /\ Some(Tail(q), B)) \/ Then(Tail(q), A, B)
    <3>1. PICK i \in 1..Len(q), j \in 1..Len(q) : i < j /\ Kind(q[i]) \in A /\ Kind(q[j]) \in B
      BY <1>1, <2>1 DEF Then
    <3>2. j # 1 /\ j - 1 \in DOMAIN Tail(q) /\ Kind(Tail(q)[j - 1]) \in B
      BY <1>1, <1>2, <3>1
    <3>3. CASE i = 1
      BY <1>1, <3>1, <3>2, <3>3 DEF Some
    <3>4. CASE i # 1
      <4>1. i - 1 \in DOMAIN Tail(q) /\ Kind(Tail(q)[i - 1]) \in A /\ i - 1 < j - 1
        BY <1>1, <1>2, <3>1, <3>4
      <4> QED  BY <3>2, <4>1 DEF Then
    <3> QED  BY <3>3, <3>4
  <2>2. ASSUME Kind(Head(q)) \in A, Some(Tail(q), B) PROVE Then(q, A, B)
    <3>1. PICK j \in 1..Len(q) - 1 : Kind(Tail(q)[j]) \in B
      BY <1>1, <2>2 DEF Some
    <3>2. 1 \in DOMAIN q /\ j + 1 \in DOMAIN q /\ 1 < j + 1 /\ Kind(q[j + 1]) \in B
      BY <1>1, <1>3, <3>1
    <3> QED  BY <1>1, <2>2, <3>2 DEF Then
  <2>3. ASSUME Then(Tail(q), A, B) PROVE Then(q, A, B)
    <3>1. PICK i \in 1..Len(q) - 1, j \in 1..Len(q) - 1 :
             i < j /\ Kind(Tail(q)[i]) \in A /\ Kind(Tail(q)[j]) \in B
      BY <1>1, <2>3 DEF Then
    <3>2. /\ i + 1 \in DOMAIN q /\ j + 1 \in DOMAIN q /\ i + 1 < j + 1
          /\ Kind(q[i + 1]) \in A /\ Kind(q[j + 1]) \in B
      BY <1>1, <1>3, <3>1
    <3> QED  BY <3>2 DEF Then
  <2> QED  BY <2>1, <2>2, <2>3
<1>6. ASSUME NEW code
      PROVE  Names(q, code) <=>
                (Head(q).type = "auth-ok" => Head(q).arg = code) /\ Names(Tail(q), code)
  <2>1. ASSUME Names(q, code)
        PROVE  (Head(q).type = "auth-ok" => Head(q).arg = code) /\ Names(Tail(q), code)
    <3>1. 1 \in DOMAIN q
      BY <1>1
    <3> QED  BY <1>1, <1>3, <2>1, <3>1 DEF Names
  <2>2. ASSUME Head(q).type = "auth-ok" => Head(q).arg = code, Names(Tail(q), code)
        PROVE  Names(q, code)
    <3> SUFFICES ASSUME NEW i \in 1..Len(q), q[i].type = "auth-ok" PROVE q[i].arg = code
      BY <1>1 DEF Names
    <3>1. CASE i = 1
      BY <1>1, <2>2, <3>1
    <3>2. CASE i # 1
      <4>1. i - 1 \in DOMAIN Tail(q) /\ q[i] = Tail(q)[i - 1]
        BY <1>1, <1>2, <3>2
      <4> QED  BY <2>2, <4>1 DEF Names
    <3> QED  BY <3>1, <3>2
  <2> QED  BY <2>1, <2>2
<1> QED  BY <1>4, <1>5, <1>6

LEMMA AtEnd ==
    ASSUME NEW S, NEW q \in Seq(S), NEW r \in Seq(S)
    PROVE  /\ \A K : Some(q \o r, K) <=> Some(q, K) \/ Some(r, K)
           /\ \A A, B : Then(q \o r, A, B) <=>
                 Then(q, A, B) \/ Then(r, A, B) \/ (Some(q, A) /\ Some(r, B))
           /\ \A code : Names(q \o r, code) <=> Names(q, code) /\ Names(r, code)
<1> DEFINE m == Len(q)
           n == Len(r)
           s == q \o r
<1>1. /\ m \in Nat /\ n \in Nat /\ DOMAIN q = 1..m /\ DOMAIN r = 1..n /\ DOMAIN s = 1..m + n
      /\ \A i \in 1..m : s[i] = q[i]
      /\ \A i \in 1..n : s[m + i] = r[i]
  OBVIOUS
<1> HIDE DEF m, n, s
<1>2. \A i \in 1..m + n : i \in 1..m \/ (i - m \in 1..n /\ i = m + (i - m))
  BY <1>1
<1>3. (\A i \in 1..m : i \in 1..m + n) /\ \A i \in 1..n : m + i \in 1..m + n
  BY <1>1
<1>4. ASSUME NEW K PROVE Some(s, K) <=> Some(q, K) \/ Some(r, K)
  <2>1. ASSUME Some(s, K) PROVE Some(q, K) \/ Some(r, K)
    <3>1. PICK i \in 1..m + n : Kind(s[i]) \in K
      BY <1>1, <2>1 DEF Some
    <3>2. CASE i \in 1..m
      BY <1>1, <3>1, <3>2 DEF Some
    <3>3. CASE i - m \in 1..n /\ i = m + (i - m)
      <4>1. Kind(r[i - m]) \in K
        BY <1>1, <3>1, <3>3
      <4> QED  BY <1>1, <3>3, <4>1 DEF Some
    <3> QED  BY <1>2, <3>2, <3>3
  <2>2. ASSUME Some(q, K) PROVE Some(s, K)
    BY <1>1, <1>3, <2>2 DEF Some
  <2>3. ASSUME Some(r, K) PROVE Some(s, K)
    BY <1>1, <1>3, <2>3 DEF Some
  <2> QED  BY <2>1, <2>2, <2>3
<1>5. ASSUME NEW A, NEW B
      PROVE  Then(s, A, B) <=> Then(q, A, B) \/ Then(r, A, B) \/ (Some(q, A) /\ Some(r, B))
  <2>1. ASSUME Then(s, A, B)
        PROVE  Then(q, A, B) \/ Then(r, A, B) \/ (Some(q, A) /\ Some(r, B))
    <3>1. PICK i \in 1..m + n, j \in 1..m + n : i < j /\ Kind(s[i]) \in A /\ Kind(s[j]) \in B
      BY <1>1, <2>1 DEF Then
    <3>2. CASE j \in 1..m
      <4>1. i \in 1..m
        BY <1>1, <3>1, <3>2
      <4> QED  BY <1>1, <3>1, <3>2, <4>1 DEF Then
    <3>3. CASE i \in 1..m /\ j - m \in 1..n
      <4>1. Kind(q[i]) \in A /\ Kind(r[j - m]) \in B
        BY <1>1, <1>2, <3>1, <3>3
      <4> QED  BY <1>1, <3>3, <4>1 DEF Some
    <3>4. CASE i - m \in 1..n /\ j - m \in 1..n
      <4>1. i - m < j - m /\ Kind(r[i - m]) \in A /\ Kind(r[j - m]) \in B
        BY <1>1, <1>2, <3>1, <3>4
      <4> QED  BY <1>1, <3>4, <4>1 DEF Then
    <3> QED  BY <1>2, <3>2, <3>3, <3>4
  <2>2. ASSUME Then(q, A, B) PROVE Then(s, A, B)
    BY <1>1, <1>3, <2>2 DEF Then
  <2>3. ASSUME Then(r, A, B) PROVE Then(s, A, B)
    <3>1. PICK i \in 1..n, j \in 1..n : i < j /\ Kind(r[i]) \in A /\ Kind(r[j]) \in B
      BY <1>1, <2>3 DEF Then
    <3>2. m + i < m + j /\ Kind(s[m + i]) \in A /\ Kind(s[m + j]) \in B
      BY <1>1, <3>1
    <3> QED  BY <1>1, <1>3, <3>2 DEF Then
  <2>4. ASSUME Some(q, A), Some(r, B) PROVE Then(s, A, B)
    <3>1. PICK i \in 1..m : Kind(q[i]) \in A
      BY <1>1, <2>4 DEF Some
    <3>2. PICK j \in 1..n : Kind(r[j]) \in B
      BY <1>1, <2>4 DEF Some
    <3>3. i < m + j /\ Kind(s[i]) \in A /\ Kind(s[m + j]) \in B
      BY <1>1, <3>1, <3>2
    <3> QED  BY <1>1, <1>3, <3>3 DEF Then
  <2> QED  BY <2>1, <2>2, <2>3, <2>4
<1>6. ASSUME NEW code PROVE Names(s, code) <=> Names(q, code) /\ Names(r, code)
  <2>1. ASSUME Names(s, code) PROVE Names(q, code) /\ Names(r, code)
    BY <1>1, <1>3, <2>1 DEF Names
  <2>2. ASSUME Names(q, code), Names(r, code) PROVE Names(s, code)
    <3> SUFFICES ASSUME NEW i \in 1..m + n, s[i].type = "auth-ok" PROVE s[i].arg = code
      BY <1>1 DEF Names
    <3>1. CASE i \in 1..m
      BY <1>1, <2>2, <3>1 DEF Names
    <3>2. CASE i - m \in 1..n /\ i = m + (i - m)
      <4>1. s[i] = r[i - m]
        BY <1>1, <3>2
      <4> QED  BY <1>1, <2>2, <3>2, <4>1 DEF Names
    <3> QED  BY <1>2, <3>1, <3>2
  <2> QED  BY <2>1, <2>2
<1> QED  BY <1>4, <1>5, <1>6 DEF s

LEMMA SomeShort ==
    ASSUME NEW x, NEW y, NEW z, NEW K
    PROVE  /\ ~Some(<<>>, K)
           /\ Some(<<x>>, K) <=> Kind(x) \in K
           /\ Some(<<x, y>>, K) <=> Kind(x) \in K \/ Kind(y) \in K
           /\ Some(<<x, y, z>>, K) <=> Kind(x) \in K \/ Kind(y) \in K \/ Kind(z) \in K
  BY DEF Some

LEMMA ThenShort ==
    ASSUME NEW x, NEW y, NEW z, NEW A, NEW B
    PROVE  /\ ~Then(<<>>, A, B)
           /\ ~Then(<<x>>, A, B)
           /\ Then(<<x, y>>, A, B) <=> Kind(x) \in A /\ Kind(y) \in B
           /\ Then(<<x, y, z>>, A, B) <=>
                 \/ Kind(x) \in A /\ (Kind(y) \in B \/ Kind(z) \in B)
                 \/ Kind(y) \in A /\ Kind(z) \in B
<1>1. /\ DOMAIN <<>> = {} /\ DOMAIN <<x>> = {1} /\ DOMAIN <<x, y>> = {1, 2}
      /\ DOMAIN <<x, y, z>> = {1, 2, 3}
  OBVIOUS
<1> QED  BY <1>1 DEF Then

LEMMA NamesShort ==
    ASSUME NEW x, NEW y, NEW code
    PROVE  /\ Names(<<>>, code)
           /\ Names(<<x>>, code) <=> (x.type = "auth-ok" => x.arg = code)
           /\ x.type # "auth-ok" /\ y.type # "auth-ok" => Names(<<x, y>>, code)
<1>1. DOMAIN <<>> = {} /\ DOMAIN <<x>> = {1} /\ DOMAIN <<x, y>> = {1, 2}
  OBVIOUS
<1> QED  BY <1>1 DEF Names

LEMMA ThenSome ==
    ASSUME NEW q, NEW A, NEW B, Then(q, A, B)
    PROVE  Some(q, A) /\ Some(q, B)
  BY DEF Then, Some

\* A queue with one, two, or three messages more.
LEMMA OneMore ==
    ASSUME NEW S, NEW q \in Seq(S), NEW x \in S
    PROVE  /\ \A K : Some(q \o <<x>>, K) <=> Some(q, K) \/ Kind(x) \in K
           /\ \A A, B : Then(q \o <<x>>, A, B) <=> Then(q, A, B) \/ (Some(q, A) /\ Kind(x) \in B)
           /\ \A code : Names(q \o <<x>>, code) <=>
                 Names(q, code) /\ (x.type = "auth-ok" => x.arg = code)
<1> DEFINE r == <<x>>
<1>1. r \in Seq(S)
  BY ShortQueues
<1>2. /\ \A K : Some(r, K) <=> Kind(x) \in K
      /\ \A A, B : ~Then(r, A, B)
      /\ \A code : Names(r, code) <=> (x.type = "auth-ok" => x.arg = code)
  BY SomeShort, ThenShort, NamesShort
<1> HIDE DEF r
<1>3. /\ \A K : Some(q \o r, K) <=> Some(q, K) \/ Some(r, K)
      /\ \A A, B : Then(q \o r, A, B) <=>
            Then(q, A, B) \/ Then(r, A, B) \/ (Some(q, A) /\ Some(r, B))
      /\ \A code : Names(q \o r, code) <=> Names(q, code) /\ Names(r, code)
  BY <1>1, AtEnd
<1>4. /\ \A K : Some(q \o r, K) <=> Some(q, K) \/ Kind(x) \in K
      /\ \A A, B : Then(q \o r, A, B) <=> Then(q, A, B) \/ (Some(q, A) /\ Kind(x) \in B)
      /\ \A code : Names(q \o r, code) <=>
            Names(q, code) /\ (x.type = "auth-ok" => x.arg = code)
  BY <1>2, <1>3
<1> QED  BY <1>4 DEF r

LEMMA TwoMore ==
    ASSUME NEW S, NEW q \in Seq(S), NEW x \in S, NEW y \in S
    PROVE  /\ \A K : Some(q \o <<x, y>>, K) <=> Some(q, K) \/ Kind(x) \in K \/ Kind(y) \in K
           /\ \A A, B : Then(q \o <<x, y>>, A, B) <=>
                 \/ Then(q, A, B) \/ (Some(q, A) /\ (Kind(x) \in B \/ Kind(y) \in B))
                 \/ Kind(x) \in A /\ Kind(y) \in B
           /\ \A code : x.type # "auth-ok" /\ y.type # "auth-ok" =>
                 (Names(q \o <<x, y>>, code) <=> Names(q, code))
<1> DEFINE r == <<x, y>>
<1>1. r \in Seq(S)
  BY ShortQueues
<1>2. /\ \A K : Some(r, K) <=> Kind(x) \in K \/ Kind(y) \in K
      /\ \A A, B : Then(r, A, B) <=> Kind(x) \in A /\ Kind(y) \in B
      /\ \A code : x.type # "auth-ok" /\ y.type # "auth-ok" => Names(r, code)
  BY SomeShort, ThenShort, NamesShort
<1> HIDE DEF r
<1>3. /\ \A K : Some(q \o r, K) <=> Some(q, K) \/ Some(r, K)
      /\ \A A, B : Then(q \o r, A, B) <=>
            Then(q, A, B) \/ Then(r, A, B) \/ (Some(q, A) /\ Some(r, B))
      /\ \A code : Names(q \o r, code) <=> Names(q, code) /\ Names(r, code)
  BY <1>1, AtEnd
<1>4. /\ \A K : Some(q \o r, K) <=> Some(q, K) \/ Kind(x) \in K \/ Kind(y) \in K
      /\ \A A, B : Then(q \o r, A, B) <=>
            \/ Then(q, A, B) \/ (Some(q, A) /\ (Kind(x) \in B \/ Kind(y) \in B))
            \/ Kind(x) \in A /\ Kind(y) \in B
      /\ \A code : x.type # "auth-ok" /\ y.type # "auth-ok" =>
            (Names(q \o r, code) <=> Names(q, code))
  BY <1>2, <1>3
<1> QED  BY <1>4 DEF r

LEMMA ThreeMore ==
    ASSUME NEW S, NEW q \in Seq(S), NEW x \in S, NEW y \in S, NEW z \in S
    PROVE  /\ \A K : Some(q \o <<x, y, z>>, K) <=>
                 Some(q, K) \/ Kind(x) \in K \/ Kind(y) \in K \/ Kind(z) \in K
           /\ \A A, B : Then(q \o <<x, y, z>>, A, B) <=>
                 \/ Then(q, A, B)
                 \/ Some(q, A) /\ (Kind(x) \in B \/ Kind(y) \in B \/ Kind(z) \in B)
                 \/ Kind(x) \in A /\ (Kind(y) \in B \/ Kind(z) \in B)
                 \/ Kind(y) \in A /\ Kind(z) \in B
<1> DEFINE r == <<x, y, z>>
<1>1. r \in Seq(S)
  BY ShortQueues
<1>2. /\ \A K : Some(r, K) <=> Kind(x) \in K \/ Kind(y) \in K \/ Kind(z) \in K
      /\ \A A, B : Then(r, A, B) <=>
            \/ Kind(x) \in A /\ (Kind(y) \in B \/ Kind(z) \in B)
            \/ Kind(y) \in A /\ Kind(z) \in B
  <2>1. ASSUME NEW K PROVE Some(r, K) <=> Kind(x) \in K \/ Kind(y) \in K \/ Kind(z) \in K
    BY SomeShort
  <2>2. ASSUME NEW A, NEW B
        PROVE  Then(r, A, B) <=>
                  \/ Kind(x) \in A /\ (Kind(y) \in B \/ Kind(z) \in B)
                  \/ Kind(y) \in A /\ Kind(z) \in B
    BY ThenShort
  <2> QED  BY <2>1, <2>2
<1> HIDE DEF r
<1>3. /\ \A K : Some(q \o r, K) <=> Some(q, K) \/ Some(r, K)
      /\ \A A, B : Then(q \o r, A, B) <=>
            Then(q, A, B) \/ Then(r, A, B) \/ (Some(q, A) /\ Some(r, B))
  BY <1>1, AtEnd
<1>4. /\ \A K : Some(q \o r, K) <=>
            Some(q, K) \/ Kind(x) \in K \/ Kind(y) \in K \/ Kind(z) \in K
      /\ \A A, B : Then(q \o r, A, B) <=>
            \/ Then(q, A, B)
            \/ Some(q, A) /\ (Kind(x) \in B \/ Kind(y) \in B \/ Kind(z) \in B)
            \/ Kind(x) \in A /\ (Kind(y) \in B \/ Kind(z) \in B)
            \/ Kind(y) \in A /\ Kind(z) \in B
  BY <1>2, <1>3
<1> QED  BY <1>4 DEF r

\* What the messages of the main entry are called.
LEMMA KindsForSidebar ==
    /\ \A name \in Views : Kind(View(name)) = "sb-state"
    /\ \A kind \in Frames : Kind(Frame(kind)) = kind
    /\ \A code \in Rooms : Kind(Msg("ws-connect", code)) = "ws-connect"
    /\ \A type \in {"sb-error", "sb-fetch", "ws-disconnect"} : Kind(Signal(type)) = type
  BY DEF Kind, View, Frame, Signal, Msg, Views, Frames

LEMMA KindsForMain ==
    /\ \A m \in ForMain : Kind(m) = m.type
    /\ \A type \in Signals : Kind(Signal(type)) = type
  BY DEF Kind, ForMain, Signal, Msg, Signals

LEMMA QueueFacts ==
    ASSUME NEW q
    PROVE  /\ Some(q, Closed) \/ Some(q, Again) => Some(q, Ends)
           /\ \A A, B : Then(q, A, B) => Some(q, A) /\ Some(q, B)
           /\ q \in Seq(ForMain) /\ ~Some(q, Ok) => \A code : Names(q, code)
<1>1. Some(q, Closed) \/ Some(q, Again) => Some(q, Ends)
  BY DEF Some, Closed, Again, Ends
<1>2. \A A, B : Then(q, A, B) => Some(q, A) /\ Some(q, B)
  BY ThenSome
<1>3. ASSUME q \in Seq(ForMain), ~Some(q, Ok), NEW code PROVE Names(q, code)
  <2>1. \A i \in DOMAIN q : q[i] \in ForMain
    BY <1>3
  <2> QED  BY <1>3, <2>1, KindsForMain DEF Names, Some, Ok
<1> QED  BY <1>1, <1>2, <1>3

\* The main entry takes a message.
LEMMA MainTakes ==
    ASSUME TypeOK, NEW type, MainReceives(type)
    PROVE  /\ Head(toMain) \in ForMain /\ Head(toMain).type = type
           /\ UNCHANGED <<sock, timer, url>>
           /\ Some(toMain, Open) <=> type = "ws-open" \/ Some(toMain', Open)
           /\ Some(toMain, Ok) <=> type = "auth-ok" \/ Some(toMain', Ok)
           /\ Some(toMain, Refused) <=> type = "auth-error" \/ Some(toMain', Refused)
           /\ Some(toMain, Closed) <=> type = "ws-closed" \/ Some(toMain', Closed)
           /\ Some(toMain, Again) <=> type = "ws-reconnecting" \/ Some(toMain', Again)
           /\ Some(toMain, Ends) <=> type \in Ends \/ Some(toMain', Ends)
           /\ Then(toMain, Open, Open) <=>
                 (type = "ws-open" /\ Some(toMain', Open)) \/ Then(toMain', Open, Open)
           /\ Then(toMain, Ends, Ok) <=>
                 (type \in Ends /\ Some(toMain', Ok)) \/ Then(toMain', Ends, Ok)
           /\ Then(toMain, Closed, Again) <=>
                 (type = "ws-closed" /\ Some(toMain', Again)) \/ Then(toMain', Closed, Again)
           /\ Then(toMain, Again, Closed) <=>
                 (type = "ws-reconnecting" /\ Some(toMain', Closed)) \/ Then(toMain', Again, Closed)
           /\ \A code : Names(toMain, code) =>
                 Names(toMain', code) /\ (type = "auth-ok" => Head(toMain).arg = code)
<1>1. toMain \in Seq(ForMain) /\ toMain # <<>> /\ Head(toMain).type = type /\ toMain' = Tail(toMain)
  BY DEF MainReceives, TypeOK
<1>2. Head(toMain) \in ForMain
  BY <1>1, Queues
<1>3. Kind(Head(toMain)) = type
  BY <1>1, <1>2, KindsForMain
<1>4. UNCHANGED <<sock, timer, url>>
  BY DEF MainReceives, sidebar, bridge
<1>5. /\ \A K : Some(toMain, K) <=> type \in K \/ Some(toMain', K)
      /\ \A A, B : Then(toMain, A, B) <=> (type \in A /\ Some(toMain', B)) \/ Then(toMain', A, B)
      /\ \A code : Names(toMain, code) =>
            Names(toMain', code) /\ (type = "auth-ok" => Head(toMain).arg = code)
  BY <1>1, <1>3, AtHead
<1>6. /\ \A t : t \in Open <=> t = "ws-open"
      /\ \A t : t \in Ok <=> t = "auth-ok"
      /\ \A t : t \in Refused <=> t = "auth-error"
      /\ \A t : t \in Closed <=> t = "ws-closed"
      /\ \A t : t \in Again <=> t = "ws-reconnecting"
  BY DEF Open, Ok, Refused, Closed, Again
<1> QED  BY <1>1, <1>2, <1>4, <1>5, <1>6

\* The sidebar takes a message.
LEMMA SidebarTakes ==
    ASSUME TypeOK, NEW type, SidebarReceives(type)
    PROVE  /\ Head(toSidebar) \in ForSidebar /\ Head(toSidebar).type = type
           /\ UNCHANGED <<conn, room, reconnecting, heartbeat>>
           /\ Some(toSidebar, Auth) <=> Kind(Head(toSidebar)) = "auth" \/ Some(toSidebar', Auth)
           /\ Some(toSidebar, Others) <=> Kind(Head(toSidebar)) \in Others \/ Some(toSidebar', Others)
           /\ Some(toSidebar, Renewals) <=>
                 Kind(Head(toSidebar)) \in Renewals \/ Some(toSidebar', Renewals)
           /\ Then(toSidebar, Auth, Renewals) <=>
                 \/ Kind(Head(toSidebar)) = "auth" /\ Some(toSidebar', Renewals)
                 \/ Then(toSidebar', Auth, Renewals)
<1>1. /\ toSidebar \in Seq(ForSidebar) /\ toSidebar # <<>>
      /\ Head(toSidebar).type = type /\ toSidebar' = Tail(toSidebar)
  BY DEF SidebarReceives, TypeOK
<1>2. Head(toSidebar) \in ForSidebar
  BY <1>1, Queues
<1>3. UNCHANGED <<conn, room, reconnecting, heartbeat>>
  BY DEF SidebarReceives, main
<1>4. \A t : t \in Auth <=> t = "auth"
  BY DEF Auth
<1> QED  BY <1>1, <1>2, <1>3, <1>4, AtHead

\* The main entry posts one message, two, or three.
LEMMA Posts ==
    ASSUME TypeOK, NEW x \in ForSidebar, NEW y \in ForSidebar, NEW z \in ForSidebar
    PROVE  /\ Post(<<x>>) =>
                 /\ Some(toSidebar', Auth) <=> Some(toSidebar, Auth) \/ Kind(x) = "auth"
                 /\ Some(toSidebar', Others) <=> Some(toSidebar, Others) \/ Kind(x) \in Others
                 /\ Some(toSidebar', Renewals) <=> Some(toSidebar, Renewals) \/ Kind(x) \in Renewals
                 /\ Then(toSidebar', Auth, Renewals) <=>
                       \/ Then(toSidebar, Auth, Renewals)
                       \/ Some(toSidebar, Auth) /\ Kind(x) \in Renewals
           /\ Post(<<x, y>>) /\ Kind(x) # "auth" =>
                 /\ Some(toSidebar', Auth) <=> Some(toSidebar, Auth) \/ Kind(y) = "auth"
                 /\ Some(toSidebar', Others) <=>
                       Some(toSidebar, Others) \/ Kind(x) \in Others \/ Kind(y) \in Others
                 /\ Some(toSidebar', Renewals) <=>
                       Some(toSidebar, Renewals) \/ Kind(x) \in Renewals \/ Kind(y) \in Renewals
                 /\ Then(toSidebar', Auth, Renewals) <=>
                       \/ Then(toSidebar, Auth, Renewals)
                       \/ Some(toSidebar, Auth) /\ (Kind(x) \in Renewals \/ Kind(y) \in Renewals)
           /\ Post(<<x, y, z>>) /\ Kind(x) # "auth" /\ Kind(y) # "auth" =>
                 /\ Some(toSidebar', Auth) <=> Some(toSidebar, Auth) \/ Kind(z) = "auth"
                 /\ Some(toSidebar', Others) <=>
                       \/ Some(toSidebar, Others)
                       \/ Kind(x) \in Others \/ Kind(y) \in Others \/ Kind(z) \in Others
                 /\ Some(toSidebar', Renewals) <=>
                       \/ Some(toSidebar, Renewals)
                       \/ Kind(x) \in Renewals \/ Kind(y) \in Renewals \/ Kind(z) \in Renewals
                 /\ Then(toSidebar', Auth, Renewals) <=>
                       \/ Then(toSidebar, Auth, Renewals)
                       \/ /\ Some(toSidebar, Auth)
                          /\ Kind(x) \in Renewals \/ Kind(y) \in Renewals \/ Kind(z) \in Renewals
<1>1. toSidebar \in Seq(ForSidebar)
  BY DEF TypeOK
<1>2. \A t : t \in Auth <=> t = "auth"
  BY DEF Auth
<1>3. ASSUME Post(<<x>>)
      PROVE  /\ \A K : Some(toSidebar', K) <=> Some(toSidebar, K) \/ Kind(x) \in K
             /\ \A A, B : Then(toSidebar', A, B) <=>
                   Then(toSidebar, A, B) \/ (Some(toSidebar, A) /\ Kind(x) \in B)
  BY <1>1, <1>3, OneMore DEF Post
<1>4. ASSUME Post(<<x, y>>)
      PROVE  /\ \A K : Some(toSidebar', K) <=>
                   Some(toSidebar, K) \/ Kind(x) \in K \/ Kind(y) \in K
             /\ \A A, B : Then(toSidebar', A, B) <=>
                   \/ Then(toSidebar, A, B)
                   \/ Some(toSidebar, A) /\ (Kind(x) \in B \/ Kind(y) \in B)
                   \/ Kind(x) \in A /\ Kind(y) \in B
  BY <1>1, <1>4, TwoMore DEF Post
<1>5. ASSUME Post(<<x, y, z>>)
      PROVE  /\ \A K : Some(toSidebar', K) <=>
                   Some(toSidebar, K) \/ Kind(x) \in K \/ Kind(y) \in K \/ Kind(z) \in K
             /\ \A A, B : Then(toSidebar', A, B) <=>
                   \/ Then(toSidebar, A, B)
                   \/ Some(toSidebar, A) /\ (Kind(x) \in B \/ Kind(y) \in B \/ Kind(z) \in B)
                   \/ Kind(x) \in A /\ (Kind(y) \in B \/ Kind(z) \in B)
                   \/ Kind(y) \in A /\ Kind(z) \in B
  BY <1>1, <1>5, ThreeMore DEF Post
<1> QED  BY <1>2, <1>3, <1>4, <1>5

\* The sidebar, or a socket, sends one message or two.
LEMMA Emits ==
    ASSUME TypeOK, NEW x \in ForMain
    PROVE  Emit(<<x>>) =>
              /\ Some(toMain', Open) <=> Some(toMain, Open) \/ x.type = "ws-open"
              /\ Some(toMain', Ok) <=> Some(toMain, Ok) \/ x.type = "auth-ok"
              /\ Some(toMain', Refused) <=> Some(toMain, Refused) \/ x.type = "auth-error"
              /\ Some(toMain', Closed) <=> Some(toMain, Closed) \/ x.type = "ws-closed"
              /\ Some(toMain', Again) <=> Some(toMain, Again) \/ x.type = "ws-reconnecting"
              /\ Some(toMain', Ends) <=> Some(toMain, Ends) \/ x.type \in Ends
              /\ Then(toMain', Open, Open) <=>
                    Then(toMain, Open, Open) \/ (Some(toMain, Open) /\ x.type = "ws-open")
              /\ Then(toMain', Ends, Ok) <=>
                    Then(toMain, Ends, Ok) \/ (Some(toMain, Ends) /\ x.type = "auth-ok")
              /\ Then(toMain', Closed, Again) <=>
                    Then(toMain, Closed, Again) \/ (Some(toMain, Closed) /\ x.type = "ws-reconnecting")
              /\ Then(toMain', Again, Closed) <=>
                    Then(toMain, Again, Closed) \/ (Some(toMain, Again) /\ x.type = "ws-closed")
              /\ \A code : Names(toMain', code) <=>
                    Names(toMain, code) /\ (x.type = "auth-ok" => x.arg = code)
<1>1. toMain \in Seq(ForMain) /\ Kind(x) = x.type
  BY KindsForMain DEF TypeOK
<1>2. /\ \A t : t \in Open <=> t = "ws-open"
      /\ \A t : t \in Ok <=> t = "auth-ok"
      /\ \A t : t \in Refused <=> t = "auth-error"
      /\ \A t : t \in Closed <=> t = "ws-closed"
      /\ \A t : t \in Again <=> t = "ws-reconnecting"
  BY DEF Open, Ok, Refused, Closed, Again
<1> SUFFICES ASSUME Emit(<<x>>)
             PROVE  /\ \A K : Some(toMain', K) <=> Some(toMain, K) \/ x.type \in K
                    /\ \A A, B : Then(toMain', A, B) <=>
                          Then(toMain, A, B) \/ (Some(toMain, A) /\ x.type \in B)
                    /\ \A code : Names(toMain', code) <=>
                          Names(toMain, code) /\ (x.type = "auth-ok" => x.arg = code)
  BY <1>2
<1> QED  BY <1>1, OneMore DEF Emit

\* A socket is lost.
LEMMA EmitsLoss ==
    ASSUME TypeOK, NEW type \in {"ws-reconnecting", "ws-reconnect-failed"},
           Emit(<<Signal("ws-closed"), Signal(type)>>)
    PROVE  /\ Some(toMain', Open) <=> Some(toMain, Open)
           /\ Some(toMain', Ok) <=> Some(toMain, Ok)
           /\ Some(toMain', Refused) <=> Some(toMain, Refused)
           /\ Some(toMain', Closed)
           /\ Some(toMain', Again) <=> Some(toMain, Again) \/ type = "ws-reconnecting"
           /\ Then(toMain', Open, Open) <=> Then(toMain, Open, Open)
           /\ Then(toMain', Ends, Ok) <=> Then(toMain, Ends, Ok)
           /\ Then(toMain, Closed, Again) \/ type = "ws-reconnecting" => Then(toMain', Closed, Again)
           /\ Then(toMain', Again, Closed) <=> Then(toMain, Again, Closed) \/ Some(toMain, Again)
<1>1. /\ toMain \in Seq(ForMain)
      /\ Signal("ws-closed") \in ForMain /\ Signal(type) \in ForMain
      /\ Kind(Signal("ws-closed")) = "ws-closed" /\ Kind(Signal(type)) = type
  BY KindsForMain, MessagesForMain DEF TypeOK, Signals
<1>2. /\ \A K : Some(toMain', K) <=> Some(toMain, K) \/ "ws-closed" \in K \/ type \in K
      /\ \A A, B : Then(toMain', A, B) <=>
            \/ Then(toMain, A, B) \/ (Some(toMain, A) /\ ("ws-closed" \in B \/ type \in B))
            \/ "ws-closed" \in A /\ type \in B
  BY <1>1, TwoMore DEF Emit
<1>3. /\ \A t : t \in Open <=> t = "ws-open"
      /\ \A t : t \in Ok <=> t = "auth-ok"
      /\ \A t : t \in Refused <=> t = "auth-error"
      /\ \A t : t \in Closed <=> t = "ws-closed"
      /\ \A t : t \in Again <=> t = "ws-reconnecting"
  BY DEF Open, Ok, Refused, Closed, Again
<1> QED  BY <1>2, <1>3

----------------------------------------------------------------------------
(* The queues after the steps of the main entry *)

\* The messages of the connection that are on their way stay the same.
SameForMain ==
    /\ Some(toMain', Open) <=> Some(toMain, Open)
    /\ Some(toMain', Ok) <=> Some(toMain, Ok)
    /\ Some(toMain', Refused) <=> Some(toMain, Refused)
    /\ Some(toMain', Closed) <=> Some(toMain, Closed)
    /\ Some(toMain', Again) <=> Some(toMain, Again)
    /\ Some(toMain', Ends) <=> Some(toMain, Ends)
    /\ Then(toMain', Open, Open) <=> Then(toMain, Open, Open)
    /\ Then(toMain', Ends, Ok) <=> Then(toMain, Ends, Ok)
    /\ Then(toMain', Closed, Again) <=> Then(toMain, Closed, Again)
    /\ Then(toMain', Again, Closed) <=> Then(toMain, Again, Closed)
    /\ \A code : Names(toMain, code) => Names(toMain', code)
SameForSidebar ==
    /\ Some(toSidebar', Auth) <=> Some(toSidebar, Auth)
    /\ Some(toSidebar', Others) <=> Some(toSidebar, Others)
    /\ Some(toSidebar', Renewals) <=> Some(toSidebar, Renewals)
    /\ Then(toSidebar', Auth, Renewals) <=> Then(toSidebar, Auth, Renewals)

LEMMA SameQueues ==
    ASSUME QueueInv, SameForMain, SameForSidebar,
           UNCHANGED <<conn, room, reconnecting, heartbeat, sock, timer>>
    PROVE  QueueInv'
<1>1. PhaseInv' /\ FramesInv' /\ OrderInv'
  BY DEF QueueInv, PhaseInv, FramesInv, OrderInv, SameForMain, SameForSidebar
<1>2. AuthenticatingInv' /\ ConnectedInv' /\ HeartbeatInv' /\ LeavingInv'
  BY DEF QueueInv, AuthenticatingInv, ConnectedInv, HeartbeatInv, LeavingInv, SameForMain, SameForSidebar
<1> QED  BY <1>1, <1>2 DEF QueueInv

LEMMA NothingSent == UNCHANGED toMain => SameForMain
  BY DEF SameForMain
LEMMA NothingPosted == UNCHANGED toSidebar => SameForSidebar
  BY DEF SameForSidebar

\* The requests of people, and the answers to creations.
LEMMA RequestTaken ==
    ASSUME TypeOK, NEW type \in {"create-room", "join-room", "leave-room", "sb-fetch-response", "error"},
           MainReceives(type)
    PROVE  SameForMain /\ UNCHANGED <<sock, timer, url>>
<1>1. type \notin Ends
  BY DEF Ends
<1> QED  BY <1>1, MainTakes DEF SameForMain

LEMMA RequestSent ==
    ASSUME TypeOK, NEW x \in ForMain, toMain' = toMain \o <<x>>,
           x.type \in {"create-room", "join-room", "leave-room", "sb-fetch-response", "error"}
    PROVE  SameForMain
<1>1. x.type \notin Ends /\ Emit(<<x>>)
  BY DEF Ends, Emit
<1> QED  BY <1>1, Emits DEF SameForMain

\* What is posted to the views, and the requests for rooms.
Quiet == {m \in ForSidebar : Kind(m) \in {"sb-state", "sb-error", "sb-fetch"}}
LEMMA QuietPosts ==
    ASSUME TypeOK
    PROVE  /\ \A x \in Quiet : Post(<<x>>) => SameForSidebar
           /\ \A x, y \in Quiet : Post(<<x, y>>) => SameForSidebar
           /\ \A x, y, z \in Quiet : Post(<<x, y, z>>) => SameForSidebar
<1>1. \A m \in Quiet : m \in ForSidebar /\ Kind(m) \notin Others /\ Kind(m) \notin Renewals /\ Kind(m) # "auth"
  BY DEF Quiet, Others, Renewals
<1> QED  BY <1>1, Posts DEF SameForSidebar

LEMMA QuietMessages ==
    /\ \A name \in {"idle", "connecting", "connected", "error"} : View(name) \in Quiet
    /\ \A type \in {"sb-error", "sb-fetch"} : Signal(type) \in Quiet
  BY MessagesForSidebar, KindsForSidebar DEF Views, Quiet

LEMMA DisconnectPosts ==
    Disconnect =>
        \/ /\ conn = "connected"
           /\ Post(<<Frame("goodbye"), Signal("ws-disconnect"), View("idle")>>)
        \/ Post(<<Signal("ws-disconnect"), View("idle")>>)
<1>1. /\ Frame("goodbye") \in ForSidebar /\ Signal("ws-disconnect") \in ForSidebar
      /\ View("idle") \in ForSidebar
  BY MessagesForSidebar DEF Frames, Views
<1>2. /\ <<Frame("goodbye")>> \o <<Signal("ws-disconnect"), View("idle")>>
            = <<Frame("goodbye"), Signal("ws-disconnect"), View("idle")>>
      /\ <<>> \o <<Signal("ws-disconnect"), View("idle")>>
            = <<Signal("ws-disconnect"), View("idle")>>
  BY <1>1, OneAndTwo
<1>3. CASE room # NoRoom /\ conn = "connected"
  BY <1>2, <1>3 DEF Disconnect, Post
<1>4. CASE ~(room # NoRoom /\ conn = "connected")
  BY <1>2, <1>4 DEF Disconnect, Post
<1> QED  BY <1>3, <1>4

\* disconnect, of whichever state.
LEMMA DisconnectQueues ==
    ASSUME TypeOK, QueueInv, Disconnect, SameForMain, UNCHANGED <<sock, timer>>
    PROVE  QueueInv'
<1>1. /\ Frame("goodbye") \in ForSidebar /\ Kind(Frame("goodbye")) = "goodbye"
      /\ Signal("ws-disconnect") \in ForSidebar /\ Kind(Signal("ws-disconnect")) = "ws-disconnect"
      /\ View("idle") \in ForSidebar /\ Kind(View("idle")) = "sb-state"
  BY MessagesForSidebar, KindsForSidebar DEF Frames, Views
<1>2. \/ /\ conn = "connected"
         /\ Post(<<Frame("goodbye"), Signal("ws-disconnect"), View("idle")>>)
      \/ Post(<<Signal("ws-disconnect"), View("idle")>>)
  BY DisconnectPosts
<1>3. /\ "goodbye" \in Others /\ "goodbye" \notin Renewals
      /\ "ws-disconnect" \in Renewals /\ "ws-disconnect" \notin Others
      /\ "sb-state" \notin Others /\ "sb-state" \notin Renewals
  BY DEF Others, Renewals
<1>4. /\ Some(toSidebar', Auth) <=> Some(toSidebar, Auth)
      /\ Some(toSidebar', Others) => Some(toSidebar, Others) \/ conn = "connected"
      /\ Some(toSidebar', Renewals)
      /\ Then(toSidebar', Auth, Renewals) <=> Some(toSidebar, Auth)
  BY <1>1, <1>2, <1>3, Posts, QueueFacts
<1>5. conn' = "idle" /\ room' = NoRoom /\ heartbeat' = FALSE
  BY DEF Disconnect, ResetState
<1>6. PhaseInv' /\ FramesInv' /\ OrderInv'
  BY <1>4, <1>5 DEF QueueInv, PhaseInv, FramesInv, OrderInv, ConnectedInv, SameForMain
<1>7. AuthenticatingInv' /\ ConnectedInv' /\ HeartbeatInv' /\ LeavingInv'
  BY <1>4, <1>5 DEF AuthenticatingInv, ConnectedInv, HeartbeatInv, LeavingInv
<1> QED  BY <1>6, <1>7 DEF QueueInv

\* An attempt begins, or one that has no socket yet ends.
LEMMA AttemptQueues ==
    ASSUME QueueInv, SameForMain, SameForSidebar, UNCHANGED <<sock, timer, heartbeat>>,
           conn \in {"idle", "connecting"},
           conn' = "connecting" \/ (conn' = "idle" /\ room' = NoRoom)
    PROVE  QueueInv'
<1>1. PhaseInv' /\ FramesInv' /\ OrderInv'
  BY DEF QueueInv, PhaseInv, FramesInv, OrderInv, SameForMain, SameForSidebar
<1>2. AuthenticatingInv' /\ ConnectedInv' /\ HeartbeatInv' /\ LeavingInv'
  BY DEF QueueInv, AuthenticatingInv, ConnectedInv, HeartbeatInv, LeavingInv, SameForMain, SameForSidebar
<1> QED  BY <1>1, <1>2 DEF QueueInv

\* ... or its room is known, and the sidebar is asked to connect.
LEMMA ConnectQueues ==
    ASSUME TypeOK, QueueInv, SameForMain, UNCHANGED <<sock, timer, heartbeat>>,
           conn \in {"idle", "connecting"}, conn' = "connecting",
           NEW code \in Rooms,
           Post(<<Msg("ws-connect", code)>>)
              \/ Post(<<View("connecting"), Msg("ws-connect", code)>>)
    PROVE  QueueInv'
<1>1. /\ Msg("ws-connect", code) \in ForSidebar /\ Kind(Msg("ws-connect", code)) = "ws-connect"
      /\ View("connecting") \in ForSidebar /\ Kind(View("connecting")) = "sb-state"
  BY MessagesForSidebar, KindsForSidebar DEF Views
<1>2. /\ "ws-connect" \in Renewals /\ "ws-connect" \notin Others
      /\ "sb-state" \notin Others /\ "sb-state" \notin Renewals
  BY DEF Others, Renewals
<1>3. /\ Some(toSidebar', Auth) <=> Some(toSidebar, Auth)
      /\ Some(toSidebar', Others) <=> Some(toSidebar, Others)
      /\ Some(toSidebar', Renewals)
      /\ Then(toSidebar', Auth, Renewals) <=> Some(toSidebar, Auth)
  BY <1>1, <1>2, Posts, QueueFacts
<1>4. PhaseInv' /\ FramesInv' /\ OrderInv'
  BY <1>3 DEF QueueInv, PhaseInv, FramesInv, OrderInv, SameForMain
<1>5. AuthenticatingInv' /\ ConnectedInv' /\ HeartbeatInv' /\ LeavingInv'
  BY <1>3 DEF QueueInv, AuthenticatingInv, ConnectedInv, HeartbeatInv, LeavingInv
<1> QED  BY <1>4, <1>5 DEF QueueInv

LEMMA RequestQueues ==
    TypeOK /\ QueueInv /\ (HandleCreateRoom \/ HandleJoinRoom \/ HandleLeaveRoom
                             \/ HandleFetchResponse \/ HandleServerError) => QueueInv'
<1> SUFFICES ASSUME TypeOK, QueueInv,
                    HandleCreateRoom \/ HandleJoinRoom \/ HandleLeaveRoom
                       \/ HandleFetchResponse \/ HandleServerError
             PROVE  QueueInv'
  OBVIOUS
<1>1. PICK type \in {"create-room", "join-room", "leave-room", "sb-fetch-response", "error"} :
         MainReceives(type)
  BY DEF HandleCreateRoom, HandleJoinRoom, HandleLeaveRoom, HandleFetchResponse, HandleServerError
<1>2. SameForMain /\ UNCHANGED <<sock, timer, url>>
  BY <1>1, RequestTaken
<1>3. ASSUME Ignored PROVE QueueInv'
  BY <1>2, <1>3, SameQueues, NothingPosted DEF Ignored, main
<1>4. ASSUME Post(<<Signal("sb-error")>>), UNCHANGED main PROVE QueueInv'
  <2>1. SameForSidebar
    BY <1>4, QuietMessages, QuietPosts
  <2> QED  BY <1>2, <1>4, <2>1, SameQueues DEF main
<1>5. ASSUME HandleCreateRoom PROVE QueueInv'
  <2>1. ASSUME conn = "idle", conn' = "connecting",
               Post(<<View("connecting"), Signal("sb-fetch")>>),
               UNCHANGED <<room, reconnecting, heartbeat, fileKnown>>
        PROVE  QueueInv'
    <3>1. SameForSidebar
      BY <2>1, QuietMessages, QuietPosts
    <3> QED  BY <1>2, <2>1, <3>1, AttemptQueues
  <2> QED  BY <1>3, <1>4, <1>5, <2>1 DEF HandleCreateRoom
<1>6. ASSUME HandleJoinRoom PROVE QueueInv'
  <2>1. Head(toMain).arg \in Rooms
    <3>1. Head(toMain) \in ForMain /\ Head(toMain).type = "join-room"
      BY <1>6, MainTakes DEF HandleJoinRoom
    <3> QED  BY <3>1, MessagesForMain
  <2> QED  BY <1>2, <1>3, <1>4, <1>6, <2>1, ConnectQueues DEF HandleJoinRoom
<1>7. ASSUME HandleLeaveRoom PROVE QueueInv'
  BY <1>2, <1>7, DisconnectQueues DEF HandleLeaveRoom
<1>8. ASSUME HandleFetchResponse PROVE QueueInv'
  <2>1. Head(toMain).arg \in Rooms \cup {NoRoom}
    <3>1. Head(toMain) \in ForMain /\ Head(toMain).type = "sb-fetch-response"
      BY <1>8, MainTakes DEF HandleFetchResponse
    <3> QED  BY <3>1, MessagesForMain
  <2>2. ASSUME conn = "connecting", ResetState, Post(<<View("idle"), Signal("sb-error")>>)
        PROVE  QueueInv'
    <3>1. SameForSidebar
      BY <2>2, QuietMessages, QuietPosts
    <3>2. heartbeat = FALSE
      BY <2>2 DEF QueueInv, HeartbeatInv, TypeOK
    <3> QED  BY <1>2, <2>2, <3>1, <3>2, AttemptQueues DEF ResetState
  <2> QED  BY <1>2, <1>3, <1>8, <2>1, <2>2, ConnectQueues DEF HandleFetchResponse
<1>9. ASSUME HandleServerError PROVE QueueInv'
  BY <1>4, <1>9 DEF HandleServerError
<1> QED  BY <1>5, <1>6, <1>7, <1>8, <1>9

LEMMA WsOpenQueues == TypeOK /\ QueueInv /\ HandleWsOpen => QueueInv'
<1> SUFFICES ASSUME TypeOK, QueueInv, HandleWsOpen PROVE QueueInv'
  OBVIOUS
<1>1. /\ MainReceives("ws-open") /\ UNCHANGED <<sock, timer, url>> /\ Some(toMain, Open)
      /\ Some(toMain', Ok) <=> Some(toMain, Ok)
      /\ Some(toMain', Refused) <=> Some(toMain, Refused)
      /\ Some(toMain', Closed) <=> Some(toMain, Closed)
      /\ Some(toMain', Again) <=> Some(toMain, Again)
      /\ Some(toMain', Ends) <=> Some(toMain, Ends)
      /\ Then(toMain', Ends, Ok) <=> Then(toMain, Ends, Ok)
      /\ Then(toMain', Closed, Again) <=> Then(toMain, Closed, Again)
      /\ Then(toMain', Again, Closed) <=> Then(toMain, Again, Closed)
      /\ \A code : Names(toMain, code) => Names(toMain', code)
      /\ ~Some(toMain', Open) /\ ~Then(toMain', Open, Open)
  <2>1. MainReceives("ws-open") /\ "ws-open" \notin Ends
    BY DEF HandleWsOpen, Ends
  <2> QED  BY <2>1, MainTakes DEF QueueInv, OrderInv
<1>2. CASE Ignored
  <2>1. UNCHANGED <<conn, room, reconnecting, heartbeat, toSidebar>>
    BY <1>2 DEF Ignored, main
  <2>2. PhaseInv' /\ FramesInv' /\ OrderInv'
    BY <1>1, <2>1 DEF QueueInv, PhaseInv, FramesInv, OrderInv
  <2>3. AuthenticatingInv' /\ ConnectedInv' /\ HeartbeatInv' /\ LeavingInv'
    BY <1>1, <2>1 DEF QueueInv, AuthenticatingInv, ConnectedInv, HeartbeatInv, LeavingInv
  <2> QED  BY <2>2, <2>3 DEF QueueInv
<1>3. CASE /\ room # NoRoom /\ conn' = "authenticating" /\ reconnecting' = FALSE
           /\ Post(<<Frame("auth")>>) /\ UNCHANGED <<room, heartbeat, fileKnown>>
  <2>1. /\ Frame("auth") \in ForSidebar /\ Kind(Frame("auth")) = "auth"
        /\ "auth" \notin Others /\ "auth" \notin Renewals
    BY MessagesForSidebar, KindsForSidebar DEF Frames, Others, Renewals
  <2>2. /\ Some(toSidebar', Auth)
        /\ Some(toSidebar', Others) <=> Some(toSidebar, Others)
        /\ Some(toSidebar', Renewals) <=> Some(toSidebar, Renewals)
        /\ Then(toSidebar', Auth, Renewals) <=> Then(toSidebar, Auth, Renewals)
    BY <1>3, <2>1, Posts
  <2>3. ~Then(toSidebar, Auth, Renewals)
    BY <1>1, QueueFacts DEF QueueInv, FramesInv
  <2>4. PhaseInv' /\ FramesInv' /\ OrderInv'
    BY <1>1, <2>2 DEF QueueInv, PhaseInv, FramesInv, OrderInv
  <2>5. AuthenticatingInv' /\ ConnectedInv' /\ HeartbeatInv' /\ LeavingInv'
    BY <1>1, <1>3, <2>2, <2>3 DEF QueueInv, PhaseInv, OrderInv, AuthenticatingInv, ConnectedInv,
       HeartbeatInv, LeavingInv
  <2> QED  BY <2>4, <2>5 DEF QueueInv
<1> QED  BY <1>2, <1>3 DEF HandleWsOpen

LEMMA AuthQueues == TypeOK /\ QueueInv /\ (HandleAuthOk \/ HandleAuthError) => QueueInv'
<1> SUFFICES ASSUME TypeOK, QueueInv, HandleAuthOk \/ HandleAuthError PROVE QueueInv'
  OBVIOUS
<1>1. ASSUME HandleAuthOk PROVE QueueInv'
  <2>1. MainReceives("auth-ok") /\ "auth-ok" \notin Ends
    BY <1>1 DEF HandleAuthOk, Ends
  <2>2. /\ UNCHANGED <<sock, timer, url>> /\ Some(toMain, Ok)
        /\ Some(toMain', Open) <=> Some(toMain, Open)
        /\ Some(toMain', Refused) <=> Some(toMain, Refused)
        /\ Some(toMain', Closed) <=> Some(toMain, Closed)
        /\ Some(toMain', Again) <=> Some(toMain, Again)
        /\ Some(toMain', Ends) <=> Some(toMain, Ends)
        /\ Then(toMain', Open, Open) <=> Then(toMain, Open, Open)
        /\ Then(toMain', Ends, Ok) => Then(toMain, Ends, Ok)
        /\ Then(toMain', Closed, Again) <=> Then(toMain, Closed, Again)
        /\ Then(toMain', Again, Closed) <=> Then(toMain, Again, Closed)
        /\ \A code : Names(toMain, code) => Names(toMain', code) /\ Head(toMain).arg = code
    BY <2>1, MainTakes
  <2>3. CASE Ignored
    <3>1. UNCHANGED <<conn, room, reconnecting, heartbeat, toSidebar>>
      BY <2>3 DEF Ignored, main
    <3>2. PhaseInv' /\ FramesInv' /\ OrderInv'
      BY <2>2, <3>1 DEF QueueInv, PhaseInv, FramesInv, OrderInv
    <3>3. AuthenticatingInv' /\ ConnectedInv' /\ HeartbeatInv' /\ LeavingInv'
      BY <2>2, <3>1 DEF QueueInv, AuthenticatingInv, ConnectedInv, HeartbeatInv, LeavingInv
    <3> QED  BY <3>2, <3>3 DEF QueueInv
  <2>4. CASE /\ conn = "authenticating" /\ room # NoRoom /\ room' = Head(toMain).arg
             /\ conn' = "connected" /\ Post(<<View("connected")>>) /\ UNCHANGED reconnecting
    <3>1. SameForSidebar
      BY <2>4, QuietMessages, QuietPosts
    <3>2. PhaseInv' /\ FramesInv' /\ OrderInv'
      BY <2>2, <3>1 DEF QueueInv, PhaseInv, FramesInv, OrderInv, SameForSidebar
    <3>3. AuthenticatingInv' /\ ConnectedInv'
      BY <2>2, <2>4, <3>1 DEF QueueInv, OrderInv, AuthenticatingInv, ConnectedInv, SameForSidebar
    <3>4. HeartbeatInv' /\ LeavingInv'
      BY <2>2, <2>4, <3>1 DEF QueueInv, OrderInv, AuthenticatingInv, HeartbeatInv, LeavingInv,
         SameForSidebar
    <3> QED  BY <3>2, <3>3, <3>4 DEF QueueInv
  <2> QED  BY <1>1, <2>3, <2>4 DEF HandleAuthOk
<1>2. ASSUME HandleAuthError PROVE QueueInv'
  <2>1. MainReceives("auth-error") /\ "auth-error" \notin Ends
    BY <1>2 DEF HandleAuthError, Ends
  <2>2. /\ UNCHANGED <<sock, timer, url>> /\ Some(toMain, Refused)
        /\ Some(toMain', Open) <=> Some(toMain, Open)
        /\ Some(toMain', Ok) <=> Some(toMain, Ok)
        /\ Some(toMain', Refused) => Some(toMain, Refused)
        /\ Some(toMain', Again) <=> Some(toMain, Again)
        /\ Some(toMain', Ends) <=> Some(toMain, Ends)
        /\ Then(toMain', Open, Open) <=> Then(toMain, Open, Open)
        /\ Then(toMain', Ends, Ok) <=> Then(toMain, Ends, Ok)
        /\ Then(toMain', Closed, Again) <=> Then(toMain, Closed, Again)
        /\ \A code : Names(toMain, code) => Names(toMain', code)
    BY <2>1, MainTakes
  <2>3. /\ Signal("ws-disconnect") \in ForSidebar /\ Kind(Signal("ws-disconnect")) = "ws-disconnect"
        /\ Signal("sb-error") \in ForSidebar /\ Kind(Signal("sb-error")) = "sb-error"
        /\ "ws-disconnect" \in Renewals /\ "ws-disconnect" \notin Others
        /\ "sb-error" \notin Others /\ "sb-error" \notin Renewals
    BY MessagesForSidebar, KindsForSidebar DEF Others, Renewals
  <2>4. /\ Some(toSidebar', Auth) <=> Some(toSidebar, Auth)
        /\ Some(toSidebar', Others) <=> Some(toSidebar, Others)
        /\ Some(toSidebar', Renewals)
        /\ Then(toSidebar', Auth, Renewals) <=> Some(toSidebar, Auth)
    BY <1>2, <2>3, Posts, QueueFacts DEF HandleAuthError
  <2>5. conn' = "idle" /\ room' = NoRoom /\ heartbeat' = heartbeat /\ ~heartbeat
    BY <1>2, <2>2 DEF HandleAuthError, QueueInv, HeartbeatInv, ConnectedInv
  <2>6. PhaseInv' /\ FramesInv' /\ OrderInv'
    BY <2>2, <2>4 DEF QueueInv, PhaseInv, FramesInv, OrderInv
  <2>7. AuthenticatingInv' /\ ConnectedInv' /\ HeartbeatInv' /\ LeavingInv'
    BY <2>2, <2>4, <2>5 DEF AuthenticatingInv, ConnectedInv, HeartbeatInv, LeavingInv
  <2> QED  BY <2>6, <2>7 DEF QueueInv
<1> QED  BY <1>1, <1>2

\* The socket that the main entry hears of is over.
LEMMA LossQueues ==
    TypeOK /\ QueueInv /\ (HandleWsClosed \/ HandleWsReconnecting \/ HandleReconnectFailed)
        => QueueInv'
<1> SUFFICES ASSUME TypeOK, QueueInv,
                    HandleWsClosed \/ HandleWsReconnecting \/ HandleReconnectFailed
             PROVE  QueueInv'
  OBVIOUS
<1>1. PICK type \in {"ws-closed", "ws-reconnecting", "ws-reconnect-failed"} :
         /\ MainReceives(type)
         /\ HandleWsClosed => type = "ws-closed"
         /\ HandleWsReconnecting => type = "ws-reconnecting"
         /\ HandleReconnectFailed => type = "ws-reconnect-failed"
  BY DEF HandleWsClosed, HandleWsReconnecting, HandleReconnectFailed, MainReceives
<1>2. type \in Ends
  BY DEF Ends
<1>3. /\ UNCHANGED <<sock, timer, url>> /\ Some(toMain, Ends)
      /\ Some(toMain', Open) <=> Some(toMain, Open)
      /\ Some(toMain', Ok) => Some(toMain, Ok)
      /\ Some(toMain', Refused) <=> Some(toMain, Refused)
      /\ Some(toMain', Ends) => Some(toMain, Ends)
      /\ Some(toMain', Again) => Some(toMain, Again)
      /\ Some(toMain, Again) => Some(toMain', Again) \/ type = "ws-reconnecting"
      /\ Some(toMain, Closed) => Some(toMain', Closed) \/ type = "ws-closed"
      /\ Then(toMain', Open, Open) <=> Then(toMain, Open, Open)
      /\ Then(toMain', Ends, Ok) => Then(toMain, Ends, Ok)
      /\ Some(toMain', Ok) => Then(toMain, Ends, Ok)
      /\ Then(toMain', Again, Closed) => Then(toMain, Again, Closed)
      /\ \A code : Names(toMain, code) => Names(toMain', code)
  BY <1>1, <1>2, MainTakes
<1>4. ~Some(toMain', Ok)
  BY <1>3 DEF QueueInv, OrderInv
<1>5. sock.phase \notin {"connecting", "open", "authSent", "inRoom", "closing"}
  BY <1>3 DEF QueueInv, PhaseInv
<1>6. ASSUME SameForSidebar PROVE PhaseInv' /\ FramesInv' /\ OrderInv'
  BY <1>3, <1>4, <1>5, <1>6 DEF QueueInv, PhaseInv, FramesInv, OrderInv, SameForSidebar
<1>7. ASSUME SameForSidebar, heartbeat' = FALSE,
             conn' = "connecting" \/ (conn' = "idle" /\ room' = NoRoom)
      PROVE  QueueInv'
  <2>1. AuthenticatingInv' /\ ConnectedInv' /\ HeartbeatInv' /\ LeavingInv'
    BY <1>3, <1>5, <1>7 DEF AuthenticatingInv, ConnectedInv, HeartbeatInv, LeavingInv
  <2> QED  BY <1>6, <1>7, <2>1 DEF QueueInv
<1>8. ASSUME HandleWsClosed PROVE QueueInv'
  <2>1. CASE /\ conn = "connected" /\ reconnecting' = TRUE /\ heartbeat' = FALSE
             /\ UNCHANGED <<conn, room, fileKnown, toSidebar>>
    <3>1. SameForSidebar
      BY <2>1, NothingPosted
    <3>2. type = "ws-closed"
      BY <1>1, <1>8
    <3>3. AuthenticatingInv' /\ ConnectedInv' /\ HeartbeatInv' /\ LeavingInv'
      BY <1>3, <1>5, <2>1, <3>1, <3>2
         DEF QueueInv, AuthenticatingInv, ConnectedInv, HeartbeatInv, LeavingInv, SameForSidebar
    <3> QED  BY <1>6, <3>1, <3>3 DEF QueueInv
  <2>2. CASE ResetState /\ Post(<<View("idle"), Signal("sb-error")>>)
    <3>1. SameForSidebar
      BY <2>2, QuietMessages, QuietPosts
    <3> QED  BY <1>7, <2>2, <3>1 DEF ResetState
  <2>3. CASE conn # "connected" /\ Ignored
    <3>1. UNCHANGED <<conn, room, reconnecting, heartbeat, toSidebar>> /\ SameForSidebar
      BY <2>3, NothingPosted DEF Ignored, main
    <3>2. AuthenticatingInv' /\ ConnectedInv' /\ HeartbeatInv' /\ LeavingInv'
      BY <1>3, <1>4, <1>5, <2>3, <3>1
         DEF QueueInv, AuthenticatingInv, ConnectedInv, HeartbeatInv, LeavingInv
    <3> QED  BY <1>6, <3>1, <3>2 DEF QueueInv
  <2> QED  BY <1>8, <2>1, <2>2, <2>3 DEF HandleWsClosed
<1>9. ASSUME HandleWsReconnecting PROVE QueueInv'
  <2>1. SameForSidebar
    <3>1. CASE conn # "connecting"
      BY <1>9, <3>1, QuietMessages, QuietPosts DEF HandleWsReconnecting
    <3>2. CASE conn = "connecting"
      <4>1. toSidebar' = toSidebar
        BY <1>9, <3>2, NothingMore DEF HandleWsReconnecting, Post, TypeOK
      <4> QED  BY <4>1, NothingPosted
    <3> QED  BY <3>1, <3>2
  <2>2. heartbeat = FALSE
    <3>1. type = "ws-reconnecting" /\ MainReceives("ws-reconnecting")
      BY <1>1, <1>9
    <3>2. /\ Some(toMain, Again)
          /\ Then(toMain, Closed, Again) => Some(toMain', Closed)
          /\ Some(toMain', Closed) => Then(toMain, Again, Closed)
      BY <3>1, MainTakes, QueueFacts
    <3> QED  BY <3>2 DEF QueueInv, HeartbeatInv, ConnectedInv, TypeOK
  <2> QED  BY <1>7, <1>9, <2>1, <2>2 DEF HandleWsReconnecting
<1>10. ASSUME HandleReconnectFailed PROVE QueueInv'
  <2>1. SameForSidebar
    BY <1>10, QuietMessages, QuietPosts DEF HandleReconnectFailed
  <2> QED  BY <1>7, <1>10, <2>1 DEF HandleReconnectFailed, ResetState
<1> QED  BY <1>8, <1>9, <1>10

----------------------------------------------------------------------------
(* The queues after the steps of the sidebar, its sockets and its timer *)

LEMMA SocketFacts ==
    ASSUME TypeOK, BridgeExclusive
    PROVE  /\ sock = NoSock <=> sock.phase = "none"
           /\ sock.phase # "none" => ~timer
           /\ \A phase : sock.phase # "none" /\ sock' = [sock EXCEPT !.phase = phase] =>
                 sock'.phase = phase /\ sock'.room = sock.room
           /\ NoSock.phase = "none"
<1>1. CASE sock = NoSock
  BY <1>1 DEF NoSock
<1>2. CASE sock \in [room : Rooms, phase : Phases \ {"none"}]
  <2>1. sock.phase # "none" /\ sock # NoSock
    BY <1>2 DEF NoSock
  <2>2. \A phase : sock' = [sock EXCEPT !.phase = phase] =>
           sock'.phase = phase /\ sock'.room = sock.room
    BY <1>2
  <2> QED  BY <2>1, <2>2 DEF BridgeExclusive, NoSock
<1> QED  BY <1>1, <1>2 DEF TypeOK

\* Nothing is on its way.
LEMMA NothingDelivered ==
    ASSUME Delivered
    PROVE  /\ \A K : ~Some(toMain, K) /\ ~Some(toSidebar, K)
           /\ \A A, B : ~Then(toMain, A, B) /\ ~Then(toSidebar, A, B)
           /\ \A code : Names(toMain, code)
<1>1. \A K : ~Some(<<>>, K)
  BY SomeShort
<1>2. (\A A, B : ~Then(<<>>, A, B)) /\ \A code : Names(<<>>, code)
  BY ThenShort, NamesShort
<1> QED  BY <1>1, <1>2 DEF Delivered

\* A socket is dropped, or another one dialed, for a message or by the timer.
LEMMA FreshQueues ==
    ASSUME QueueInv, UNCHANGED <<conn, room, reconnecting, heartbeat, toMain>>,
           conn # "connected", conn = "authenticating" => ~Some(toMain, Ok),
           sock'.phase \in {"none", "dialing"}, timer' = FALSE,
           Some(toSidebar', Auth) => Some(toSidebar, Auth),
           Then(toSidebar', Auth, Renewals) => Then(toSidebar, Auth, Renewals)
    PROVE  QueueInv'
<1>1. PhaseInv' /\ FramesInv' /\ OrderInv'
  BY DEF QueueInv, PhaseInv, FramesInv, OrderInv
<1>2. AuthenticatingInv' /\ ConnectedInv' /\ HeartbeatInv' /\ LeavingInv'
  BY DEF QueueInv, AuthenticatingInv, ConnectedInv, HeartbeatInv, LeavingInv
<1> QED  BY <1>1, <1>2 DEF QueueInv

LEMMA SidebarQueues == TypeOK /\ BridgeExclusive /\ QueueInv /\ SidebarHandles => QueueInv'
<1> SUFFICES ASSUME TypeOK, BridgeExclusive, QueueInv, SidebarHandles PROVE QueueInv'
  OBVIOUS
<1> DEFINE kind == Kind(Head(toSidebar))
<1>1. /\ UNCHANGED <<conn, room, reconnecting, heartbeat>>
      /\ Some(toSidebar, Auth) <=> kind = "auth" \/ Some(toSidebar', Auth)
      /\ Some(toSidebar, Others) <=> kind \in Others \/ Some(toSidebar', Others)
      /\ Some(toSidebar, Renewals) <=> kind \in Renewals \/ Some(toSidebar', Renewals)
      /\ Then(toSidebar, Auth, Renewals) <=>
            \/ kind = "auth" /\ Some(toSidebar', Renewals)
            \/ Then(toSidebar', Auth, Renewals)
      /\ Head(toSidebar) \in ForSidebar
      /\ ShowState \/ ShowError \/ StartFetch =>
            Head(toSidebar).type \in {"sb-state", "sb-error", "sb-fetch"}
      /\ WsConnect \/ WsDisconnect => Head(toSidebar).type \in {"ws-connect", "ws-disconnect"}
      /\ WsSend => Head(toSidebar).type = "ws-send"
  <2>1. PICK type : SidebarReceives(type)
    BY DEF SidebarHandles, ShowState, ShowError, StartFetch, WsConnect, WsDisconnect, WsSend
  <2>2. /\ ShowState \/ ShowError \/ StartFetch =>
              Head(toSidebar).type \in {"sb-state", "sb-error", "sb-fetch"}
        /\ WsConnect \/ WsDisconnect => Head(toSidebar).type \in {"ws-connect", "ws-disconnect"}
        /\ WsSend => Head(toSidebar).type = "ws-send"
    BY DEF ShowState, ShowError, StartFetch, WsConnect, WsDisconnect, WsSend, SidebarReceives
  <2> QED  BY <2>1, <2>2, SidebarTakes
<1>2. CASE ShowState \/ ShowError \/ StartFetch
  <2>1. kind \notin Others /\ kind \notin Renewals /\ kind # "auth"
    BY <1>1, <1>2 DEF Kind, Others, Renewals
  <2>2. SameForSidebar
    BY <1>1, <2>1 DEF SameForSidebar
  <2>3. UNCHANGED <<sock, timer, toMain>>
    BY <1>2 DEF ShowState, ShowError, StartFetch, bridge
  <2> QED  BY <1>1, <2>2, <2>3, SameQueues, NothingSent
<1>3. CASE WsConnect \/ WsDisconnect
  <2>1. kind \in Renewals
    BY <1>1, <1>3 DEF Kind, Renewals
  <2>2. conn # "connected" /\ (conn = "authenticating" => ~Some(toMain, Ok))
    BY <1>1, <2>1 DEF QueueInv, ConnectedInv, AuthenticatingInv
  <2>3. sock'.phase \in {"none", "dialing"} /\ timer' = FALSE /\ toMain' = toMain
    BY <1>3 DEF WsConnect, WsDisconnect, OpenSocket, NoSock
  <2> QED  BY <1>1, <2>2, <2>3, FreshQueues
<1>4. CASE WsSend
  <2>1. kind = Head(toSidebar).arg /\ kind \in Frames /\ kind \notin Renewals
    BY <1>1, <1>4, MessagesForSidebar DEF Kind, Frames, Renewals
  <2>2. CASE sock.phase # "open" /\ UNCHANGED <<bridge, toMain>>
    <3>1. UNCHANGED <<sock, timer, toMain>>
      BY <2>2 DEF bridge
    <3>2. PhaseInv' /\ FramesInv' /\ OrderInv'
      BY <1>1, <3>1 DEF QueueInv, PhaseInv, FramesInv, OrderInv
    <3>3. AuthenticatingInv' /\ ConnectedInv' /\ HeartbeatInv' /\ LeavingInv'
      BY <1>1, <2>1, <2>2, <3>1
         DEF QueueInv, AuthenticatingInv, ConnectedInv, HeartbeatInv, LeavingInv
    <3> QED  BY <3>2, <3>3 DEF QueueInv
  <2>3. CASE /\ sock.phase = "open" /\ kind = "auth"
             /\ sock' = [sock EXCEPT !.phase = "authSent"]
             /\ UNCHANGED <<url, attempt, timer, toMain>>
    <3>1. sock'.phase = "authSent" /\ ~timer
      BY <2>3, SocketFacts
    <3>2. conn # "connected" /\ ~Some(toMain, Open)
      BY <1>1, <2>3 DEF QueueInv, ConnectedInv, FramesInv
    <3>3. conn = "authenticating" => ~Some(toSidebar', Renewals)
      BY <1>1, <2>3 DEF QueueInv, AuthenticatingInv
    <3>4. conn # "authenticating" => Some(toSidebar', Renewals)
      BY <1>1, <2>3, QueueFacts DEF QueueInv, LeavingInv
    <3>5. PhaseInv' /\ FramesInv' /\ OrderInv'
      BY <1>1, <2>3, <3>1, <3>2 DEF QueueInv, PhaseInv, FramesInv, OrderInv
    <3>6. AuthenticatingInv' /\ ConnectedInv' /\ HeartbeatInv' /\ LeavingInv'
      BY <1>1, <2>3, <3>1, <3>2, <3>3, <3>4
         DEF QueueInv, PhaseInv, AuthenticatingInv, ConnectedInv, HeartbeatInv, LeavingInv
    <3> QED  BY <3>5, <3>6 DEF QueueInv
  <2>4. CASE sock.phase = "open" /\ kind # "auth"
    <3>1. kind \in Others
      BY <2>1, <2>4 DEF Frames, Others
    <3> QED  BY <1>1, <2>4, <3>1 DEF QueueInv, FramesInv
  <2> QED  BY <1>4, <2>1, <2>2, <2>3, <2>4 DEF WsSend
<1> QED  BY <1>2, <1>3, <1>4 DEF SidebarHandles

LEMMA SocketQueues ==
    TypeOK /\ BridgeExclusive /\ QueueInv /\ (Dial \/ SocketOpens \/ SocketLost \/ SocketClosed)
        => QueueInv'
<1> SUFFICES ASSUME TypeOK, BridgeExclusive, QueueInv,
                    Dial \/ SocketOpens \/ SocketLost \/ SocketClosed
             PROVE  QueueInv'
  OBVIOUS
<1>1. UNCHANGED <<conn, room, reconnecting, heartbeat, toSidebar>>
  BY DEF Dial, SocketOpens, SocketLost, SocketClosed, Event, main
<1>2. CASE Dial
  <2>1. sock.phase = "dialing" /\ sock'.phase = "connecting" /\ UNCHANGED <<timer, toMain>> /\ ~timer
    BY <1>2, SocketFacts DEF Dial
  <2>2. /\ \A K : ~Some(toMain, K) /\ ~Some(toSidebar, K)
        /\ \A A, B : ~Then(toMain, A, B) /\ ~Then(toSidebar, A, B)
    BY <1>2, NothingDelivered DEF Dial
  <2>3. PhaseInv' /\ FramesInv' /\ OrderInv'
    BY <1>1, <2>1, <2>2 DEF PhaseInv, FramesInv, OrderInv
  <2>4. AuthenticatingInv' /\ ConnectedInv' /\ HeartbeatInv' /\ LeavingInv'
    BY <1>1, <2>1, <2>2 DEF QueueInv, AuthenticatingInv, ConnectedInv, HeartbeatInv, LeavingInv
  <2> QED  BY <2>3, <2>4 DEF QueueInv
<1>3. CASE SocketOpens
  <2>1. sock.phase = "connecting" /\ sock'.phase = "open" /\ UNCHANGED timer /\ ~timer
    BY <1>3, SocketFacts DEF SocketOpens
  <2>2. /\ Some(toMain', Ok) <=> Some(toMain, Ok)
        /\ Some(toMain', Refused) <=> Some(toMain, Refused)
        /\ Some(toMain', Ends) <=> Some(toMain, Ends)
        /\ Then(toMain', Open, Open) <=> Then(toMain, Open, Open) \/ Some(toMain, Open)
        /\ Then(toMain', Ends, Ok) <=> Then(toMain, Ends, Ok)
    <3>1. Signal("ws-open") \in ForMain /\ Signal("ws-open").type = "ws-open" /\ "ws-open" \notin Ends
      BY MessagesForMain DEF Signal, Msg, Signals, Ends
    <3> QED  BY <1>3, <3>1, Emits DEF SocketOpens
  <2>3. /\ ~Some(toMain, Open) /\ ~Some(toMain, Ok) /\ ~Some(toMain, Refused)
        /\ ~Some(toMain, Ends) /\ ~Some(toSidebar, Auth) /\ ~Some(toSidebar, Others)
    BY <2>1 DEF QueueInv, PhaseInv, FramesInv
  <2>4. PhaseInv' /\ FramesInv' /\ OrderInv'
    BY <1>1, <2>1, <2>2, <2>3 DEF QueueInv, PhaseInv, FramesInv, OrderInv
  <2>5. AuthenticatingInv' /\ ConnectedInv' /\ HeartbeatInv' /\ LeavingInv'
    BY <1>1, <2>1, <2>2, <2>3
       DEF QueueInv, AuthenticatingInv, ConnectedInv, HeartbeatInv, LeavingInv
  <2> QED  BY <2>4, <2>5 DEF QueueInv
<1>4. CASE SocketLost
  <2>1. sock.phase # "none" /\ sock'.phase = "none" /\ ~timer
    BY <1>4, SocketFacts DEF SocketLost
  <2>2. PICK type \in {"ws-reconnecting", "ws-reconnect-failed"} :
           /\ Emit(<<Signal("ws-closed"), Signal(type)>>)
           /\ timer' => type = "ws-reconnecting"
    BY <1>4, <2>1 DEF SocketLost, Retry, GiveUp
  <2>3. /\ Some(toMain', Open) <=> Some(toMain, Open)
        /\ Some(toMain', Ok) <=> Some(toMain, Ok)
        /\ Some(toMain', Refused) <=> Some(toMain, Refused)
        /\ Some(toMain', Closed)
        /\ Some(toMain', Again) <=> Some(toMain, Again) \/ type = "ws-reconnecting"
        /\ Then(toMain', Open, Open) <=> Then(toMain, Open, Open)
        /\ Then(toMain', Ends, Ok) <=> Then(toMain, Ends, Ok)
        /\ Then(toMain, Closed, Again) \/ type = "ws-reconnecting" => Then(toMain', Closed, Again)
        /\ Then(toMain', Again, Closed) <=> Then(toMain, Again, Closed) \/ Some(toMain, Again)
    BY <2>2, EmitsLoss
  <2>4. (conn = "authenticating" /\ Some(toMain, Ok)) \/ conn = "connected" => ~Some(toMain, Again)
    <3>1. sock.phase \in {"inRoom", "closing"} => ~Some(toMain, Again)
      BY QueueFacts DEF QueueInv, PhaseInv
    <3> QED  BY <2>1, <3>1 DEF QueueInv, AuthenticatingInv, ConnectedInv
  <2>5. PhaseInv' /\ FramesInv' /\ OrderInv'
    BY <1>1, <2>1, <2>2, <2>3 DEF QueueInv, PhaseInv, FramesInv, OrderInv
  <2>6. AuthenticatingInv' /\ ConnectedInv' /\ HeartbeatInv' /\ LeavingInv'
    BY <1>1, <2>1, <2>2, <2>3, <2>4
       DEF QueueInv, AuthenticatingInv, ConnectedInv, HeartbeatInv, LeavingInv
  <2> QED  BY <2>5, <2>6 DEF QueueInv
<1>5. CASE SocketClosed
  <2>1. sock.phase = "closing" /\ sock'.phase = "none" /\ ~timer /\ timer' = timer
    BY <1>5, SocketFacts DEF SocketClosed
  <2>2. /\ Some(toMain', Open) <=> Some(toMain, Open)
        /\ Some(toMain', Ok) <=> Some(toMain, Ok)
        /\ Some(toMain', Refused) <=> Some(toMain, Refused)
        /\ Some(toMain', Closed)
        /\ Some(toMain', Again) <=> Some(toMain, Again)
        /\ Then(toMain', Open, Open) <=> Then(toMain, Open, Open)
        /\ Then(toMain', Ends, Ok) <=> Then(toMain, Ends, Ok)
        /\ Then(toMain', Closed, Again) <=> Then(toMain, Closed, Again)
        /\ Then(toMain', Again, Closed) <=> Then(toMain, Again, Closed) \/ Some(toMain, Again)
    <3>1. Signal("ws-closed") \in ForMain /\ Signal("ws-closed").type = "ws-closed"
      BY MessagesForMain DEF Signal, Msg, Signals
    <3> QED  BY <1>5, <3>1, Emits DEF SocketClosed
  <2>3. ~Some(toMain, Again)
    BY <2>1, QueueFacts DEF QueueInv, PhaseInv
  <2>4. PhaseInv' /\ FramesInv' /\ OrderInv'
    BY <1>1, <2>1, <2>2 DEF QueueInv, PhaseInv, FramesInv, OrderInv
  <2>5. AuthenticatingInv' /\ ConnectedInv' /\ HeartbeatInv' /\ LeavingInv'
    BY <1>1, <2>1, <2>2, <2>3
       DEF QueueInv, AuthenticatingInv, ConnectedInv, HeartbeatInv, LeavingInv
  <2> QED  BY <2>4, <2>5 DEF QueueInv
<1> QED  BY <1>2, <1>3, <1>4, <1>5

LEMMA RoomQueues ==
    TypeOK /\ BridgeExclusive /\ QueueInv
       /\ (RoomAccepts \/ RoomRejects \/ AuthTimeout \/ RoomEnds \/ ServerError) => QueueInv'
<1> SUFFICES ASSUME TypeOK, BridgeExclusive, QueueInv,
                    RoomAccepts \/ RoomRejects \/ AuthTimeout \/ RoomEnds \/ ServerError
             PROVE  QueueInv'
  OBVIOUS
<1>1. /\ UNCHANGED <<conn, room, reconnecting, heartbeat, toSidebar, timer>> /\ ~timer
      /\ sock.phase # "none" /\ sock'.room = sock.room
  BY SocketFacts DEF RoomAccepts, RoomRejects, AuthTimeout, RoomEnds, ServerError, RoomSends,
     Event, main
<1>2. sock.room \in Rooms
  BY <1>1 DEF TypeOK, NoSock
<1>3. CASE RoomAccepts
  <2> DEFINE answer == Msg("auth-ok", sock.room)
  <2>1. sock.phase = "authSent" /\ sock'.phase = "inRoom" /\ Emit(<<answer>>)
    BY <1>3, SocketFacts DEF RoomAccepts, RoomSends
  <2>2. /\ answer \in ForMain /\ answer.type = "auth-ok" /\ answer.arg = sock.room
        /\ "auth-ok" \notin Ends
    BY <1>2, MessagesForMain DEF Msg, Ends
  <2>3. /\ Some(toMain', Open) <=> Some(toMain, Open)
        /\ Some(toMain', Ok)
        /\ Some(toMain', Refused) <=> Some(toMain, Refused)
        /\ Some(toMain', Closed) <=> Some(toMain, Closed)
        /\ Some(toMain', Again) <=> Some(toMain, Again)
        /\ Some(toMain', Ends) <=> Some(toMain, Ends)
        /\ Then(toMain', Open, Open) <=> Then(toMain, Open, Open)
        /\ Then(toMain', Ends, Ok) <=> Then(toMain, Ends, Ok) \/ Some(toMain, Ends)
        /\ Then(toMain', Closed, Again) <=> Then(toMain, Closed, Again)
        /\ Then(toMain', Again, Closed) <=> Then(toMain, Again, Closed)
        /\ Names(toMain, sock.room) => Names(toMain', sock.room)
    <3> HIDE DEF answer
    <3> QED  BY <2>1, <2>2, Emits
  <2>4. /\ ~Some(toMain, Open) /\ ~Some(toMain, Ok) /\ ~Some(toMain, Refused)
        /\ ~Some(toMain, Ends) /\ ~Some(toMain, Again) /\ ~Then(toMain, Again, Closed)
        /\ Names(toMain, sock.room)
    BY <2>1, QueueFacts DEF QueueInv, PhaseInv, TypeOK
  <2>5. PhaseInv' /\ FramesInv' /\ OrderInv'
    BY <1>1, <2>1, <2>3, <2>4 DEF QueueInv, PhaseInv, FramesInv, OrderInv
  <2>6. AuthenticatingInv' /\ ConnectedInv' /\ HeartbeatInv' /\ LeavingInv'
    BY <1>1, <2>1, <2>3, <2>4
       DEF QueueInv, AuthenticatingInv, ConnectedInv, HeartbeatInv, LeavingInv
  <2> QED  BY <2>5, <2>6 DEF QueueInv
<1>4. CASE RoomRejects
  <2>1. /\ sock.phase = "authSent" /\ sock'.phase = "closing"
        /\ Emit(<<Signal("auth-error")>>)
    BY <1>4, SocketFacts DEF RoomRejects, RoomSends, Signal
  <2>2. /\ Signal("auth-error") \in ForMain /\ Signal("auth-error").type = "auth-error"
        /\ "auth-error" \notin Ends
    BY MessagesForMain DEF Signal, Msg, Signals, Ends
  <2>3. /\ Some(toMain', Open) <=> Some(toMain, Open)
        /\ Some(toMain', Ok) <=> Some(toMain, Ok)
        /\ Some(toMain', Closed) <=> Some(toMain, Closed)
        /\ Some(toMain', Again) <=> Some(toMain, Again)
        /\ Some(toMain', Ends) <=> Some(toMain, Ends)
        /\ Then(toMain', Open, Open) <=> Then(toMain, Open, Open)
        /\ Then(toMain', Ends, Ok) <=> Then(toMain, Ends, Ok)
        /\ Then(toMain', Closed, Again) <=> Then(toMain, Closed, Again)
        /\ Then(toMain', Again, Closed) <=> Then(toMain, Again, Closed)
        /\ Names(toMain, sock.room) => Names(toMain', sock.room)
    BY <2>1, <2>2, Emits
  <2>4. /\ ~Some(toMain, Open) /\ ~Some(toMain, Ok) /\ ~Some(toMain, Ends)
        /\ Names(toMain, sock.room)
    BY <2>1, QueueFacts DEF QueueInv, PhaseInv, TypeOK
  <2>5. PhaseInv' /\ FramesInv' /\ OrderInv'
    BY <1>1, <2>1, <2>3, <2>4 DEF QueueInv, PhaseInv, FramesInv, OrderInv
  <2>6. AuthenticatingInv' /\ ConnectedInv' /\ HeartbeatInv' /\ LeavingInv'
    BY <1>1, <2>1, <2>3, <2>4
       DEF QueueInv, AuthenticatingInv, ConnectedInv, HeartbeatInv, LeavingInv
  <2> QED  BY <2>5, <2>6 DEF QueueInv
<1>5. CASE AuthTimeout \/ RoomEnds \/ ServerError
  <2>1. toMain' = toMain \o <<Signal("error")>>
    BY <1>5 DEF AuthTimeout, RoomEnds, ServerError, RoomSends, Emit, Signal
  <2>2. Signal("error") \in ForMain /\ Signal("error").type = "error"
    BY MessagesForMain DEF Signal, Msg, Signals
  <2>3. SameForMain
    BY <2>1, <2>2, RequestSent
  <2>4. \/ sock.phase = "inRoom" /\ sock'.phase \in {"inRoom", "closing"}
        \/ sock.phase \in {"open", "authSent"} /\ sock'.phase = "closing"
    BY <1>5, SocketFacts DEF AuthTimeout, RoomEnds, ServerError, RoomSends
  <2>5. sock.phase \in {"open", "authSent"} =>
           ~Some(toMain, Ok) /\ ~Some(toMain, Ends) /\ Names(toMain, sock.room)
    BY QueueFacts DEF QueueInv, PhaseInv, TypeOK
  <2>6. PhaseInv' /\ FramesInv' /\ OrderInv'
    BY <1>1, <2>3, <2>4, <2>5 DEF QueueInv, PhaseInv, FramesInv, OrderInv, SameForMain
  <2>7. AuthenticatingInv' /\ ConnectedInv' /\ HeartbeatInv' /\ LeavingInv'
    BY <1>1, <2>3, <2>4, <2>5
       DEF QueueInv, AuthenticatingInv, ConnectedInv, HeartbeatInv, LeavingInv, SameForMain
  <2> QED  BY <2>6, <2>7 DEF QueueInv
<1> QED  BY <1>3, <1>4, <1>5

LEMMA TimerQueues == TypeOK /\ QueueInv /\ TimerFires => QueueInv'
<1> SUFFICES ASSUME TypeOK, QueueInv, TimerFires PROVE QueueInv'
  OBVIOUS
<1>1. ~Some(toMain, Ok) /\ ~Some(toMain, Again)
  BY NothingDelivered DEF TimerFires
<1>2. conn # "connected"
  BY <1>1 DEF TimerFires, QueueInv, ConnectedInv
<1> QED  BY <1>1, <1>2, FreshQueues DEF TimerFires, Event, OpenSocket, main

LEMMA FetchQueues == TypeOK /\ QueueInv /\ FetchReturns => QueueInv'
<1> SUFFICES ASSUME TypeOK, QueueInv, FetchReturns PROVE QueueInv'
  OBVIOUS
<1>1. PICK code \in Rooms \cup {NoRoom} : Emit(<<Msg("sb-fetch-response", code)>>)
  BY DEF FetchReturns
<1>2. Msg("sb-fetch-response", code) \in ForMain /\ Msg("sb-fetch-response", code).type = "sb-fetch-response"
  BY MessagesForMain DEF Msg
<1>3. SameForMain
  BY <1>1, <1>2, RequestSent DEF Emit
<1> QED  BY <1>3, SameQueues, NothingPosted DEF FetchReturns, Event, main, bridge

LEMMA ClickQueues ==
    ASSUME TypeOK, QueueInv, NEW type \in Clicks, NEW arg, Msg(type, arg) \in ForMain,
           Click(type, arg)
    PROVE  QueueInv'
<1>1. toMain' = toMain \o <<Msg(type, arg)>>
  BY DEF Click, TypeOK
<1>2. SameForMain
  BY <1>1, RequestSent DEF Msg, Clicks
<1> QED  BY <1>2, SameQueues, NothingPosted DEF Click, main, sidebar, bridge

LEMMA UserQueues == TypeOK /\ QueueInv /\ User => QueueInv'
<1> SUFFICES ASSUME TypeOK, QueueInv, User PROVE QueueInv'
  OBVIOUS
<1>1. CASE ClickCreate \/ ClickLeave
  <2>1. Msg("create-room", NoRoom) \in ForMain /\ Msg("leave-room", NoRoom) \in ForMain
    BY MessagesForMain DEF Signal, Signals
  <2> QED  BY <1>1, <2>1, ClickQueues DEF ClickCreate, ClickLeave, Clicks
<1>2. CASE \E code \in Rooms : ClickJoin(code)
  BY <1>2, MessagesForMain, ClickQueues DEF ClickJoin, Clicks
<1>3. CASE ClickBack
  BY <1>3, SameQueues, NothingSent, NothingPosted DEF ClickBack, main, bridge
<1>4. CASE \E same \in BOOLEAN : FileLoaded(same)
  <2>1. UNCHANGED <<sock, timer, toMain>>
    BY <1>4 DEF FileLoaded, sidebar, bridge
  <2>2. Disconnect \/ UNCHANGED <<conn, room, reconnecting, heartbeat, toSidebar>>
    BY <1>4 DEF FileLoaded, Ignored, main
  <2> QED  BY <2>1, <2>2, NothingSent, NothingPosted, DisconnectQueues, SameQueues
<1>5. CASE SendPlayback
  <2>1. /\ UNCHANGED <<conn, room, reconnecting, heartbeat, sock, timer, toMain>>
        /\ conn = "connected" /\ Post(<<Frame("playback")>>)
    BY <1>5 DEF SendPlayback, main, sidebar, bridge
  <2>2. /\ Frame("playback") \in ForSidebar /\ Kind(Frame("playback")) = "playback"
        /\ "playback" \notin Renewals
    BY MessagesForSidebar, KindsForSidebar DEF Frames, Renewals
  <2>3. /\ Some(toSidebar', Auth) <=> Some(toSidebar, Auth)
        /\ Some(toSidebar', Renewals) <=> Some(toSidebar, Renewals)
        /\ Then(toSidebar', Auth, Renewals) <=> Then(toSidebar, Auth, Renewals)
    BY <2>1, <2>2, Posts
  <2>4. PhaseInv' /\ FramesInv' /\ OrderInv'
    BY <2>1, <2>3 DEF QueueInv, PhaseInv, FramesInv, OrderInv, ConnectedInv
  <2>5. AuthenticatingInv' /\ ConnectedInv' /\ HeartbeatInv' /\ LeavingInv'
    BY <2>1, <2>3 DEF QueueInv, AuthenticatingInv, ConnectedInv, HeartbeatInv, LeavingInv
  <2> QED  BY <2>4, <2>5 DEF QueueInv
<1> QED  BY <1>1, <1>2, <1>3, <1>4, <1>5 DEF User

LEMMA QueueInit == Init => QueueInv
<1> SUFFICES ASSUME Init PROVE QueueInv
  OBVIOUS
<1>1. /\ \A K : ~Some(toMain, K) /\ ~Some(toSidebar, K)
      /\ \A A, B : ~Then(toMain, A, B) /\ ~Then(toSidebar, A, B)
  BY NothingDelivered DEF Init, Delivered
<1>2. conn = "idle" /\ room = NoRoom /\ heartbeat = FALSE /\ sock.phase = "none"
  BY DEF Init, NoSock
<1> QED
  BY <1>1, <1>2 DEF QueueInv, PhaseInv, FramesInv, OrderInv, AuthenticatingInv, ConnectedInv,
     HeartbeatInv, LeavingInv

LEMMA QueueNext == TypeOK /\ BridgeExclusive /\ QueueInv /\ [Next]_vars => QueueInv'
<1>1. QueueInv /\ UNCHANGED vars => QueueInv'
  BY SameQueues, NothingSent, NothingPosted DEF vars, main, sidebar, bridge
<1> QED
  BY <1>1, RequestQueues, WsOpenQueues, AuthQueues, LossQueues, SidebarQueues, SocketQueues,
     RoomQueues, TimerQueues, FetchQueues, UserQueues
     DEF Next, MainHandles, SocketEvent

\* What the queues hold fits the phase of the socket, the state and the timers: messages
\* of one socket only, in the order it sent them; no auth before the ws-open it answers,
\* no frame of an earlier connection once a socket is dialed; and a disconnect on its way
\* wherever the main entry has left a room that the socket is still in (main.ts,
\* sidebar/index.js).
THEOREM QueuesAreOrdered == Spec => []QueueInv
  BY QueueInit, QueueNext, TypeCorrect, OneConnection, PTL DEF Spec

\* Every place where the state leaves "connected" stops the heartbeat timer: loss,
\* disconnect, a rejection, and giving up; a reconnection is announced after the
\* close, by which it has stopped, and a rejection does not come when it runs (main.ts).
THEOREM HeartbeatsStop == Spec => []HeartbeatOnlyInRoom
<1>1. QueueInv => HeartbeatOnlyInRoom
  BY DEF QueueInv, HeartbeatInv, HeartbeatOnlyInRoom
<1> QED  BY <1>1, QueuesAreOrdered, PTL

\* When nothing is on its way, a client that says "connected" is in the room that it
\* names, or that room has closed its socket.  Once it has been told of that, it has no
\* socket, heartbeat or timer, and no retry is announced: a lost connection would be
\* "connecting" by then (main.ts:430, sidebar/index.js:247).
THEOREM ConnectedMeansInRoom == Spec => []ConnectedIsTrue
<1>1. TypeOK /\ QueueInv => ConnectedIsTrue
  <2> SUFFICES ASSUME TypeOK, QueueInv, Delivered, conn = "connected"
               PROVE  \/ /\ sock.phase \in {"inRoom", "closing"} /\ sock.room = room
                         /\ ~reconnecting
                      \/ Abandoned
    BY DEF ConnectedIsTrue
  <2>1. ~Some(toMain, Closed) /\ ~Some(toMain, Again)
    BY NothingDelivered
  <2>2. CASE sock.phase = "none"
    <3>1. sock = NoSock
      BY <2>2 DEF TypeOK
    <3>2. reconnecting /\ ~timer
      BY <2>1, <2>2 DEF QueueInv, ConnectedInv
    <3> QED  BY <3>1, <3>2 DEF Abandoned, QueueInv, HeartbeatInv
  <2>3. CASE sock.phase # "none"
    BY <2>3 DEF QueueInv, ConnectedInv
  <2> QED  BY <2>2, <2>3
<1> QED  BY <1>1, QueuesAreOrdered, TypeCorrect, PTL

\* When nothing is on its way, a client that says "idle" has not stayed in a room:
\* whatever made it idle has closed the socket, or asked the sidebar to
\* (main.ts, sidebar/index.js).
THEOREM IdleMeansOut == Spec => []NotThereWhenIdle
<1>1. QueueInv => NotThereWhenIdle
  BY NothingDelivered DEF QueueInv, LeavingInv, NotThereWhenIdle
<1> QED  BY <1>1, QueuesAreOrdered, PTL

\* The frame a socket is given first is auth: playback frames are sent when the state is
\* "connected", and when a socket opens none of an earlier connection is left (main.ts,
\* sidebar/index.js).
THEOREM AuthComesFirst == Spec => []AuthFirst
<1>1. TypeOK /\ QueueInv => AuthFirst
  <2> SUFFICES ASSUME TypeOK, QueueInv, toSidebar # <<>>, sock.phase = "open",
                      Head(toSidebar) = Frame("playback")
               PROVE  FALSE
    BY DEF AuthFirst
  <2>1. Kind(Head(toSidebar)) \in Others
    BY KindsForSidebar DEF Others, Frames
  <2>2. Some(toSidebar, Others)
    BY <2>1, AtHead DEF TypeOK
  <2> QED  BY <2>2 DEF QueueInv, FramesInv
<1> QED  BY <1>1, QueuesAreOrdered, TypeCorrect, PTL

----------------------------------------------------------------------------
(* The view that the messages on their way lead to *)

LEMMA FitsTaken ==
    ASSUME NEW q \in Seq(ForSidebar), q # <<>>, NEW v, NEW state, Fits(q, v, state)
    PROVE  Fits(Tail(q), IF IsView(Head(q)) THEN Shown(Head(q)) ELSE v, state)
<1> DEFINE r == Tail(q)
           w == IF IsView(Head(q)) THEN Shown(Head(q)) ELSE v
<1>1. /\ Len(q) \in Nat \ {0} /\ DOMAIN q = 1..Len(q) /\ DOMAIN r = 1..Len(q) - 1
      /\ Head(q) = q[1] /\ \A i \in 1..Len(q) - 1 : r[i] = q[i + 1]
  OBVIOUS
<1>2. \A i \in 1..Len(q) : i # 1 => i - 1 \in 1..Len(q) - 1 /\ q[i] = r[i - 1]
  BY <1>1
<1>3. \A i \in 1..Len(q) - 1 : i + 1 \in 1..Len(q) /\ i + 1 # 1
  BY <1>1
<1> HIDE DEF r
<1>4. ASSUME \A i \in DOMAIN r : ~IsView(r[i]) PROVE Agrees(w, state)
  <2>1. \A i \in DOMAIN q : i # 1 => ~IsView(q[i])
    BY <1>1, <1>2, <1>4
  <2>2. CASE IsView(Head(q))
    <3>1. 1 \in DOMAIN q /\ \A j \in DOMAIN q : j > 1 => ~IsView(q[j])
      BY <1>1, <2>1
    <3> QED  BY <1>1, <2>2, <3>1 DEF Fits
  <2>3. CASE ~IsView(Head(q))
    BY <1>1, <2>1, <2>3 DEF Fits
  <2> QED  BY <2>2, <2>3
<1>5. ASSUME NEW i \in DOMAIN r, IsView(r[i]), \A j \in DOMAIN r : j > i => ~IsView(r[j])
      PROVE  Agrees(Shown(r[i]), state)
  <2>1. i + 1 \in DOMAIN q /\ IsView(q[i + 1])
    BY <1>1, <1>3, <1>5
  <2>2. ASSUME NEW j \in DOMAIN q, j > i + 1 PROVE ~IsView(q[j])
    <3>1. j # 1 /\ j - 1 \in DOMAIN r /\ j - 1 > i /\ q[j] = r[j - 1]
      BY <1>1, <1>2, <2>2
    <3> QED  BY <1>5, <3>1
  <2>3. Agrees(Shown(q[i + 1]), state)
    BY <2>1, <2>2 DEF Fits
  <2> QED  BY <1>1, <1>5, <2>3
<1> HIDE DEF w
<1>6. Fits(r, w, state)
  BY <1>4, <1>5 DEF Fits
<1> QED  BY <1>6 DEF r, w

LEMMA FitsView ==
    ASSUME NEW q \in Seq(ForSidebar), NEW m \in ForSidebar, NEW v, NEW state,
           IsView(m), Agrees(Shown(m), state)
    PROVE  Fits(q \o <<m>>, v, state)
<1> DEFINE r == q \o <<m>>
           n == Len(q) + 1
<1>1. /\ n \in Nat \ {0} /\ DOMAIN r = 1..n /\ n \in 1..n /\ r[n] = m
  OBVIOUS
<1> HIDE DEF r, n
<1>2. ASSUME NEW i \in DOMAIN r, \A j \in DOMAIN r : j > i => ~IsView(r[j]) PROVE r[i] = m
  <2>1. ~(n > i)
    BY <1>1, <1>2
  <2>2. i = n
    BY <1>1, <2>1
  <2> QED  BY <1>1, <2>2
<1>3. Fits(r, v, state)
  BY <1>1, <1>2 DEF Fits
<1> QED  BY <1>3 DEF r

LEMMA FitsNoView ==
    ASSUME NEW q \in Seq(ForSidebar), NEW m \in ForSidebar, NEW v, NEW state,
           ~IsView(m), Fits(q, v, state)
    PROVE  Fits(q \o <<m>>, v, state)
<1> DEFINE r == q \o <<m>>
           n == Len(q) + 1
<1>1. /\ n \in Nat \ {0} /\ DOMAIN r = 1..n /\ r[n] = m
      /\ DOMAIN q = 1..n - 1 /\ \A i \in 1..n - 1 : r[i] = q[i]
  OBVIOUS
<1> HIDE DEF r, n
<1>2. (\A i \in 1..n : i = n \/ i \in 1..n - 1) /\ \A i \in 1..n - 1 : i \in 1..n
  BY <1>1
<1>3. ASSUME \A i \in DOMAIN r : ~IsView(r[i]) PROVE Agrees(v, state)
  <2>1. \A i \in DOMAIN q : ~IsView(q[i])
    BY <1>1, <1>2, <1>3
  <2> QED  BY <2>1 DEF Fits
<1>4. ASSUME NEW i \in DOMAIN r, IsView(r[i]), \A j \in DOMAIN r : j > i => ~IsView(r[j])
      PROVE  Agrees(Shown(r[i]), state)
  <2>1. i \in DOMAIN q /\ r[i] = q[i]
    BY <1>1, <1>2, <1>4
  <2>2. \A j \in DOMAIN q : j > i => ~IsView(q[j])
    BY <1>1, <1>2, <1>4
  <2> QED  BY <1>4, <2>1, <2>2 DEF Fits
<1>5. Fits(r, v, state)
  BY <1>3, <1>4 DEF Fits
<1> QED  BY <1>5 DEF r

LEMMA FitsToo ==
    ASSUME NEW q, NEW v, NEW state, NEW next, Fits(q, v, state),
           \A name : Agrees(name, state) => Agrees(name, next)
    PROVE  Fits(q, v, next)
  BY DEF Fits

LEMMA AlwaysAgree == Agrees("idle", "idle") /\ \A state : Agrees("error", state)
  BY DEF Agrees, ViewOf

LEMMA ViewMessages ==
    /\ \A name \in Views : IsView(View(name)) /\ Shown(View(name)) = name
    /\ IsView(Signal("sb-error")) /\ Shown(Signal("sb-error")) = "error"
    /\ ~IsView(Signal("sb-fetch")) /\ ~IsView(Signal("ws-disconnect"))
    /\ \A kind \in Frames : ~IsView(Frame(kind))
    /\ \A code \in Rooms : ~IsView(Msg("ws-connect", code))
  BY DEF IsView, Shown, View, Signal, Frame, Msg

LEMMA Longer ==
    ASSUME TypeOK, NEW x \in ForSidebar, NEW y \in ForSidebar, NEW z \in ForSidebar
    PROVE  /\ toSidebar \o <<x>> \in Seq(ForSidebar)
           /\ toSidebar \o <<x, y>> \in Seq(ForSidebar)
           /\ toSidebar \o <<x, y>> = (toSidebar \o <<x>>) \o <<y>>
           /\ toSidebar \o <<x, y, z>> = (toSidebar \o <<x, y>>) \o <<z>>
<1>1. toSidebar \in Seq(ForSidebar)
  BY DEF TypeOK
<1>2. <<x>> \in Seq(ForSidebar) /\ <<y>> \in Seq(ForSidebar) /\ <<z>> \in Seq(ForSidebar)
      /\ <<x, y>> \in Seq(ForSidebar)
  BY ShortQueues
<1>3. <<x>> \o <<y>> = <<x, y>> /\ <<x, y>> \o <<z>> = <<x, y, z>>
  BY OneAndOne, TwoAndOne
<1>4. \A s, t \in Seq(ForSidebar) : toSidebar \o (s \o t) = (toSidebar \o s) \o t
  BY <1>1, Associative
<1>5. toSidebar \o <<x>> \in Seq(ForSidebar) /\ toSidebar \o <<x, y>> \in Seq(ForSidebar)
  BY <1>1, <1>2, Queues
<1>6. toSidebar \o <<x, y>> = (toSidebar \o <<x>>) \o <<y>>
  <2>1. toSidebar \o (<<x>> \o <<y>>) = (toSidebar \o <<x>>) \o <<y>>
    BY <1>2, <1>4
  <2> QED  BY <1>3, <2>1, Zenon
<1>7. toSidebar \o <<x, y, z>> = (toSidebar \o <<x, y>>) \o <<z>>
  <2>1. toSidebar \o (<<x, y>> \o <<z>>) = (toSidebar \o <<x, y>>) \o <<z>>
    BY <1>2, <1>4
  <2> QED  BY <1>3, <2>1, Zenon
<1> QED  BY <1>5, <1>6, <1>7

LEMMA ViewKept == ViewInv /\ UNCHANGED <<toSidebar, panel, conn>> => ViewInv'
  BY DEF ViewInv, LastShown, panel

\* A view is posted, last or before a request; or no view is, and the one there was
\* agrees with the next state.
LEMMA ViewPosts ==
    ASSUME TypeOK, ViewInv, UNCHANGED panel
    PROVE  /\ \A m \in ForSidebar :
                 IsView(m) /\ Agrees(Shown(m), conn') =>
                    /\ Post(<<m>>) => ViewInv'
                    /\ \A x \in ForSidebar : Post(<<x, m>>) => ViewInv'
                    /\ \A x, y \in ForSidebar : Post(<<x, y, m>>) => ViewInv'
                    /\ \A x \in ForSidebar : Post(<<m, x>>) /\ ~IsView(x) => ViewInv'
           /\ \A x \in ForSidebar :
                 ~IsView(x) /\ Post(<<x>>) /\ (\A name : Agrees(name, conn) => Agrees(name, conn'))
                    => ViewInv'
<1> DEFINE now == LastShown
<1>0. LastShown' = now /\ (dismissed' => view' = "idle")
  BY DEF ViewInv, LastShown, panel
<1> HIDE DEF now
<1>1. ASSUME NEW m \in ForSidebar, IsView(m), Agrees(Shown(m), conn'),
             NEW q \in Seq(ForSidebar), toSidebar' = q \o <<m>>
      PROVE  ViewInv'
  BY <1>0, <1>1, FitsView DEF ViewInv
<1>2. ASSUME NEW m \in ForSidebar, IsView(m), Agrees(Shown(m), conn')
      PROVE  /\ Post(<<m>>) => ViewInv'
             /\ \A x \in ForSidebar : Post(<<x, m>>) => ViewInv'
             /\ \A x, y \in ForSidebar : Post(<<x, y, m>>) => ViewInv'
  <2>1. toSidebar \in Seq(ForSidebar)
    BY DEF TypeOK
  <2>2. ASSUME NEW x \in ForSidebar, NEW y \in ForSidebar
        PROVE  /\ toSidebar \o <<x>> \in Seq(ForSidebar)
               /\ toSidebar \o <<x, y>> \in Seq(ForSidebar)
               /\ toSidebar \o <<x, m>> = (toSidebar \o <<x>>) \o <<m>>
               /\ toSidebar \o <<x, y, m>> = (toSidebar \o <<x, y>>) \o <<m>>
    BY Longer
  <2>3. Post(<<m>>) => ViewInv'
    BY <1>1, <1>2, <2>1 DEF Post
  <2>4. ASSUME NEW x \in ForSidebar, Post(<<x, m>>) PROVE ViewInv'
    BY <1>1, <1>2, <2>2, <2>4 DEF Post
  <2>5. ASSUME NEW x \in ForSidebar, NEW y \in ForSidebar, Post(<<x, y, m>>)
        PROVE  ViewInv'
    BY <1>1, <1>2, <2>2, <2>5 DEF Post
  <2> QED  BY <2>3, <2>4, <2>5
<1>3. ASSUME NEW m \in ForSidebar, NEW x \in ForSidebar,
             IsView(m), Agrees(Shown(m), conn'), Post(<<m, x>>), ~IsView(x)
      PROVE  ViewInv'
  <2>1. /\ toSidebar \in Seq(ForSidebar) /\ toSidebar \o <<m>> \in Seq(ForSidebar)
        /\ toSidebar \o <<m, x>> = (toSidebar \o <<m>>) \o <<x>>
    BY Longer DEF TypeOK
  <2>2. Fits(toSidebar \o <<m>>, now, conn')
    BY <1>3, <2>1, FitsView
  <2>3. Fits((toSidebar \o <<m>>) \o <<x>>, now, conn')
    BY <1>3, <2>1, <2>2, FitsNoView
  <2> QED  BY <1>0, <1>3, <2>1, <2>3 DEF Post, ViewInv
<1>4. ASSUME NEW x \in ForSidebar, ~IsView(x), Post(<<x>>),
             \A name : Agrees(name, conn) => Agrees(name, conn')
      PROVE  ViewInv'
  <2>1. Fits(toSidebar, now, conn')
    BY <1>4, FitsToo DEF ViewInv, now
  <2>2. toSidebar \in Seq(ForSidebar)
    BY DEF TypeOK
  <2> QED  BY <1>0, <1>4, <2>1, <2>2, FitsNoView DEF Post, ViewInv
<1> QED  BY <1>2, <1>3, <1>4

LEMMA DisconnectView == TypeOK /\ ViewInv /\ UNCHANGED panel /\ Disconnect => ViewInv'
<1> SUFFICES ASSUME TypeOK, ViewInv, UNCHANGED panel, Disconnect PROVE ViewInv'
  OBVIOUS
<1>1. /\ Frame("goodbye") \in ForSidebar /\ Signal("ws-disconnect") \in ForSidebar
      /\ View("idle") \in ForSidebar /\ IsView(View("idle")) /\ Shown(View("idle")) = "idle"
  BY MessagesForSidebar, ViewMessages DEF Frames, Views
<1>2. \/ Post(<<Frame("goodbye"), Signal("ws-disconnect"), View("idle")>>)
      \/ Post(<<Signal("ws-disconnect"), View("idle")>>)
  BY DisconnectPosts
<1>3. conn' = "idle"
  BY DEF Disconnect, ResetState
<1> QED  BY <1>1, <1>2, <1>3, AlwaysAgree, ViewPosts

LEMMA MainView == TypeOK /\ QueueInv /\ ViewInv /\ MainHandles => ViewInv'
<1> SUFFICES ASSUME TypeOK, QueueInv, ViewInv, MainHandles PROVE ViewInv'
  OBVIOUS
<1>1. UNCHANGED panel
  BY DEF MainHandles, HandleCreateRoom, HandleJoinRoom, HandleLeaveRoom, HandleFetchResponse,
     HandleWsOpen, HandleWsClosed, HandleWsReconnecting, HandleReconnectFailed, HandleAuthOk,
     HandleAuthError, HandleServerError, MainReceives, sidebar
<1>2. /\ \A name \in {"idle", "connecting", "connected", "error"} :
            View(name) \in ForSidebar /\ IsView(View(name)) /\ Shown(View(name)) = name
      /\ Signal("sb-error") \in ForSidebar /\ IsView(Signal("sb-error"))
      /\ Shown(Signal("sb-error")) = "error"
      /\ Signal("sb-fetch") \in ForSidebar /\ ~IsView(Signal("sb-fetch"))
      /\ Signal("ws-disconnect") \in ForSidebar
      /\ Frame("auth") \in ForSidebar /\ ~IsView(Frame("auth"))
  BY MessagesForSidebar, ViewMessages DEF Views, Frames
<1>3. \A code \in Rooms : Msg("ws-connect", code) \in ForSidebar /\ ~IsView(Msg("ws-connect", code))
  BY MessagesForSidebar, ViewMessages
<1>4. ASSUME Ignored PROVE ViewInv'
  BY <1>1, <1>4, ViewKept DEF Ignored, main
<1>5. ASSUME NEW x \in ForSidebar,
             \/ Post(<<Signal("sb-error")>>) \/ Post(<<x, Signal("sb-error")>>)
             \/ Post(<<View("idle"), View("error"), Signal("sb-error")>>)
      PROVE  ViewInv'
  BY <1>1, <1>2, <1>5, AlwaysAgree, ViewPosts
<1>6. ASSUME conn' = "connecting", NEW x \in ForSidebar, ~IsView(x),
             Post(<<View("connecting"), x>>)
      PROVE  ViewInv'
  <2>1. Agrees("connecting", conn')
    BY <1>6 DEF Agrees, ViewOf
  <2> QED  BY <1>1, <1>2, <1>6, <2>1, ViewPosts
<1>7. CASE HandleCreateRoom
  BY <1>2, <1>4, <1>5, <1>6, <1>7 DEF HandleCreateRoom
<1>8. CASE HandleJoinRoom
  <2>1. Head(toMain).arg \in Rooms
    <3>1. Head(toMain) \in ForMain /\ Head(toMain).type = "join-room"
      BY <1>8, MainTakes DEF HandleJoinRoom
    <3> QED  BY <3>1, MessagesForMain
  <2> QED  BY <1>2, <1>3, <1>4, <1>5, <1>6, <1>8, <2>1 DEF HandleJoinRoom
<1>9. CASE HandleLeaveRoom
  BY <1>1, <1>9, DisconnectView DEF HandleLeaveRoom
<1>10. CASE HandleFetchResponse
  <2>1. Head(toMain).arg \in Rooms \cup {NoRoom}
    <3>1. Head(toMain) \in ForMain /\ Head(toMain).type = "sb-fetch-response"
      BY <1>10, MainTakes DEF HandleFetchResponse
    <3> QED  BY <3>1, MessagesForMain
  <2>2. ASSUME NEW code \in Rooms, Post(<<Msg("ws-connect", code)>>), conn' = conn
        PROVE  ViewInv'
    BY <1>1, <1>3, <2>2, ViewPosts
  <2> QED  BY <1>2, <1>4, <1>5, <1>10, <2>1, <2>2 DEF HandleFetchResponse
<1>11. CASE HandleWsOpen
  <2>1. CASE room # NoRoom /\ conn' = "authenticating" /\ Post(<<Frame("auth")>>)
    <3>1. Some(toMain, Open)
      BY <1>11, MainTakes DEF HandleWsOpen
    <3>2. conn \notin {"connected", "idle"}
      BY <2>1, <3>1 DEF QueueInv, ConnectedInv, LeavingInv
    <3>3. \A name : Agrees(name, conn) => Agrees(name, conn')
      BY <2>1, <3>2 DEF Agrees, ViewOf, TypeOK
    <3> QED  BY <1>1, <1>2, <2>1, <3>3, ViewPosts
  <2> QED  BY <1>4, <1>11, <2>1 DEF HandleWsOpen
<1>12. CASE HandleWsClosed
  <2>1. CASE UNCHANGED <<conn, toSidebar>>
    BY <1>1, <2>1, ViewKept
  <2> QED  BY <1>2, <1>4, <1>5, <1>12, <2>1 DEF HandleWsClosed
<1>13. CASE HandleWsReconnecting
  <2>1. CASE conn # "connecting"
    <3>1. Agrees("connecting", conn') /\ Post(<<View("connecting")>>)
      BY <1>13, <2>1 DEF HandleWsReconnecting, Agrees, ViewOf
    <3> QED  BY <1>1, <1>2, <3>1, ViewPosts
  <2>2. CASE conn = "connecting"
    <3>1. toSidebar' = toSidebar
      BY <1>13, <2>2, NothingMore DEF HandleWsReconnecting, Post, TypeOK
    <3> QED  BY <1>1, <1>13, <2>2, <3>1, ViewKept DEF HandleWsReconnecting
  <2> QED  BY <2>1, <2>2
<1>14. CASE HandleReconnectFailed
  BY <1>2, <1>5, <1>14 DEF HandleReconnectFailed
<1>15. CASE HandleAuthOk
  <2>1. CASE conn' = "connected" /\ Post(<<View("connected")>>)
    <3>1. Agrees("connected", conn')
      BY <2>1 DEF Agrees, ViewOf
    <3> QED  BY <1>1, <1>2, <2>1, <3>1, ViewPosts
  <2> QED  BY <1>4, <1>15, <2>1 DEF HandleAuthOk
<1>16. CASE HandleAuthError
  BY <1>2, <1>5, <1>16 DEF HandleAuthError
<1>17. CASE HandleServerError
  BY <1>2, <1>5, <1>17 DEF HandleServerError
<1> QED
  BY <1>7, <1>8, <1>9, <1>10, <1>11, <1>12, <1>13, <1>14, <1>15, <1>16, <1>17 DEF MainHandles

LEMMA SidebarView == TypeOK /\ ViewInv /\ SidebarHandles => ViewInv'
<1> SUFFICES ASSUME TypeOK, ViewInv, SidebarHandles PROVE ViewInv'
  OBVIOUS
<1>1. /\ toSidebar \in Seq(ForSidebar) /\ toSidebar # <<>> /\ toSidebar' = Tail(toSidebar)
      /\ conn' = conn
  BY DEF TypeOK, SidebarHandles, ShowState, ShowError, StartFetch, WsConnect, WsDisconnect,
     WsSend, SidebarReceives, main
<1>2. \/ /\ IsView(Head(toSidebar))
         /\ view' = Shown(Head(toSidebar)) /\ dismissed' = FALSE
      \/ ~IsView(Head(toSidebar)) /\ UNCHANGED panel
  BY DEF SidebarHandles, ShowState, ShowError, StartFetch, WsConnect, WsDisconnect,
     WsSend, SidebarReceives, IsView, Shown
<1>3. /\ LastShown' = IF IsView(Head(toSidebar)) THEN Shown(Head(toSidebar)) ELSE LastShown
      /\ dismissed' => view' = "idle"
  BY <1>2 DEF LastShown, ViewInv, panel
<1> QED  BY <1>1, <1>3, FitsTaken DEF ViewInv

LEMMA UserView == TypeOK /\ ViewInv /\ User => ViewInv'
<1> SUFFICES ASSUME TypeOK, ViewInv, User PROVE ViewInv'
  OBVIOUS
<1>1. CASE ClickCreate \/ ClickLeave \/ \E code \in Rooms : ClickJoin(code)
  BY <1>1, ViewKept DEF ClickCreate, ClickLeave, ClickJoin, Click, main, sidebar
<1>2. CASE ClickBack
  <2>1. view' = "idle" /\ dismissed' = TRUE /\ UNCHANGED <<toSidebar, conn>>
    BY <1>2 DEF ClickBack, main
  <2>2. LastShown' = "error"
    BY <2>1 DEF LastShown
  <2> QED  BY <2>1, <2>2, AlwaysAgree DEF ViewInv, Fits
<1>3. CASE \E same \in BOOLEAN : FileLoaded(same)
  <2>1. UNCHANGED panel /\ (Disconnect \/ UNCHANGED <<conn, toSidebar>>)
    BY <1>3 DEF FileLoaded, Ignored, main, sidebar
  <2> QED  BY <2>1, DisconnectView, ViewKept
<1>4. CASE SendPlayback
  <2>1. UNCHANGED panel /\ conn' = conn /\ Post(<<Frame("playback")>>)
    BY <1>4 DEF SendPlayback, sidebar, main
  <2>2. Frame("playback") \in ForSidebar /\ ~IsView(Frame("playback"))
    BY MessagesForSidebar, ViewMessages DEF Frames
  <2> QED  BY <2>1, <2>2, ViewPosts
<1> QED  BY <1>1, <1>2, <1>3, <1>4 DEF User

\* When nothing is on its way, the view is the one of the state, or an error, or the
\* idle view that Back has put in the place of an error: each handler that changes the
\* state posts its view after anything that it undoes, and a view of an earlier state is
\* not shown after it (main.ts, sidebar/index.js).
THEOREM ViewFollowsState == Spec => []ViewAgrees
<1>1. Init => ViewInv
  BY DEF Init, ViewInv, Fits, LastShown, Agrees, ViewOf
<1>2. TypeOK /\ QueueInv /\ ViewInv /\ [Next]_vars => ViewInv'
  <2>1. ViewInv /\ UNCHANGED vars => ViewInv'
    BY ViewKept DEF vars, main, sidebar
  <2>2. ViewInv /\ (SocketEvent \/ ServerError \/ TimerFires \/ FetchReturns) => ViewInv'
    BY ViewKept DEF SocketEvent, ServerError, TimerFires, FetchReturns, Dial, SocketOpens,
       SocketLost, SocketClosed, RoomAccepts, RoomRejects, AuthTimeout, RoomEnds, RoomSends,
       Event, main
  <2> QED  BY <2>1, <2>2, MainView, SidebarView, UserView DEF Next
<1>3. ViewInv => ViewAgrees
  BY DEF ViewInv, Fits, LastShown, Agrees, ViewAgrees, Delivered
<1> QED  BY <1>1, <1>2, <1>3, TypeCorrect, QueuesAreOrdered, PTL DEF Spec

=============================================================================
