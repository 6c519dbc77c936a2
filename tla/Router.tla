------------------------------- MODULE Router -------------------------------
(***************************************************************************)
(* Room creation (worker/src/index.ts): the router admits a request by the  *)
(* limiter of its address, draws a code, and asks the Durable Object of    *)
(* that code to initialise itself (worker/src/room.ts); an object that     *)
(* already has a room refuses, and the router draws again.  Requests of    *)
(* different addresses interleave at every await.                          *)
(* GET /api/rooms/:code and GET /ws/:code only read: they are              *)
(* OtherRequest of the limiter of creations, and have one of their own     *)
(* that is the same code with other limits.                                *)
(***************************************************************************)
EXTENDS IpRateLimiter

CONSTANTS
    Codes, NoCode,
    MaxCodeRetries,  \* MAX_CODE_RETRIES
    RoomTtl          \* ROOM_TTL_MS, in ticks

ASSUME CodeAssumption == NoCode \notin Codes
ASSUME RetriesAssumption == MaxCodeRetries \in Nat /\ RoomTtl \in Nat \ {0}

VARIABLES
    request,    \* the last creation of each address; bound: one at a time
    expiresIn,  \* code -> ticks to the end of its room; 0 without a live one
    creators    \* history: code -> for which requests the live room was created

routerVars == <<request, expiresIn, creators>>
allVars == <<vars, routerVars>>

Answers == {"none", "room", "limited", "unavailable", "failed"}
InProgress == {"drawing", "initializing", "created", "exists"}
Request == [stage : Answers \cup InProgress, tries : 0..MaxCodeRetries, code : Codes \cup {NoCode}]
NoRequest == [stage |-> "none", tries |-> 0, code |-> NoCode]

RouterTypeOK ==
    /\ TypeOK
    /\ request \in [Ips -> Request]
    /\ expiresIn \in [Codes -> 0..RoomTtl]
    /\ creators \in [Codes -> SUBSET Ips]

RouterInit ==
    /\ Init
    /\ request = [ip \in Ips |-> NoRequest]
    /\ expiresIn = [code \in Codes |-> 0]
    /\ creators = [code \in Codes |-> {}]

----------------------------------------------------------------------------
Live(code) == expiresIn[code] > 0
Stage(ip, from, to) ==
    /\ request[ip].stage = from
    /\ request' = [request EXCEPT ![ip].stage = to]
Answer(ip, from, answer) ==
    /\ request[ip].stage = from
    /\ request' = [request EXCEPT ![ip] = [NoRequest EXCEPT !.stage = answer]]

\* handleCreateRoom up to its loop
CreateRequest(ip) ==
    /\ request[ip].stage \in Answers
    /\ Check(ip)
    /\ request' = [request EXCEPT ![ip] = [NoRequest EXCEPT !.stage =
           IF verdict'[ip] = "limited" THEN "limited" ELSE "drawing"]]
    /\ UNCHANGED <<expiresIn, creators>>

\* (Bug operators are mutants of the definition that follows.)
\* Bug: one attempt more.
BugAttemptsLeft(ip) == request[ip].tries <= MaxCodeRetries
AttemptsLeft(ip) == request[ip].tries < MaxCodeRetries

\* generateRoomCode, and the request to the object that has the code for a name
DrawCode(ip) ==
    /\ request[ip].stage = "drawing" /\ AttemptsLeft(ip)
    /\ \E code \in Codes :
           request' = [request EXCEPT ![ip].stage = "initializing", ![ip].code = code]
    /\ UNCHANGED <<vars, expiresIn, creators>>

\* After the last attempt: 503.
OutOfAttempts(ip) ==
    /\ ~AttemptsLeft(ip)
    /\ Answer(ip, "drawing", "unavailable")
    /\ UNCHANGED <<vars, expiresIn, creators>>

\* handleInit in the object: atomic from its check to its INSERT.  A room that has
\* expired is replaced.
\* Bug: without the check.
BugInitialize(ip) ==
    LET code == request[ip].code
    IN  /\ Stage(ip, "initializing", "created")
        /\ expiresIn' = [expiresIn EXCEPT ![code] = RoomTtl]
        /\ creators' = [creators EXCEPT ![code] = @ \cup {ip}]
Initialize(ip) ==
    LET code == request[ip].code
    IN  /\ Stage(ip, "initializing", "created")
        /\ ~Live(code)
        /\ expiresIn' = [expiresIn EXCEPT ![code] = RoomTtl]
        /\ creators' = [creators EXCEPT ![code] = @ \cup {ip}]

RefuseInit(ip) ==
    /\ Stage(ip, "initializing", "exists")
    /\ Live(request[ip].code)
    /\ UNCHANGED <<expiresIn, creators>>

\* The object's answer: 409, then the next attempt ...
\* Bug: the attempt is not counted.
BugCollision(ip) ==
    /\ Stage(ip, "exists", "drawing")
    /\ UNCHANGED <<vars, expiresIn, creators>>
Collision(ip) ==
    /\ request[ip].stage = "exists"
    /\ request' = [request EXCEPT ![ip].stage = "drawing", ![ip].tries = @ + 1,
                                  ![ip].code = NoCode]
    /\ UNCHANGED <<vars, expiresIn, creators>>

\* ... or success.
RespondRoom(ip) ==
    /\ Answer(ip, "created", "room")
    /\ UNCHANGED <<vars, expiresIn, creators>>

\* ... or no answer: the object failed, with its room initialised or not.
InitFails(ip) ==
    /\ Answer(ip, "created", "failed") \/ Answer(ip, "initializing", "failed")
    /\ UNCHANGED <<vars, expiresIn, creators>>

Advance(ip) ==
    \/ DrawCode(ip) \/ OutOfAttempts(ip)
    \/ (Initialize(ip) /\ UNCHANGED vars) \/ (RefuseInit(ip) /\ UNCHANGED vars)
    \/ Collision(ip) \/ RespondRoom(ip) \/ InitFails(ip)

\* Time passes for the limiter and for the rooms.
RouterTick ==
    /\ Tick
    /\ expiresIn' = [code \in Codes |-> IF Live(code) THEN expiresIn[code] - 1 ELSE 0]
    /\ creators' = [code \in Codes |-> IF expiresIn'[code] > 0 THEN creators[code] ELSE {}]
    /\ UNCHANGED request

RouterNext ==
    \/ \E ip \in Ips : CreateRequest(ip) \/ Advance(ip)
    \/ (OtherRequest /\ UNCHANGED routerVars)
    \/ RouterTick

RouterSpec ==
    /\ RouterInit /\ [][RouterNext]_allVars
    /\ \A ip \in Ips : WF_allVars(Advance(ip))

----------------------------------------------------------------------------
(* Properties *)

\* A code leads into the room of one creation: of requests that drew the same
\* code at the same time, one gets it.
OneCreator ==
    \A code \in Codes : \A ip1, ip2 \in creators[code] : ip1 = ip2

\* Every admitted creation is answered, however many codes collide.
CreationAnswered ==
    \A ip \in Ips : request[ip].stage \in InProgress ~> request[ip].stage \in Answers

=============================================================================
