---------------------------- MODULE IpRateLimiter ----------------------------
(***************************************************************************)
(* IpRateLimiter (worker/src/rate-limit.ts): the requests of each IP       *)
(* address in one Worker isolate, and the router's periodic prune          *)
(* (worker/src/index.ts).  Time is relative, in ticks.                     *)
(***************************************************************************)
EXTENDS Integers, FiniteSets

CONSTANTS
    Ips,
    MaxRequests,    \* ROOM_CREATE_RATE_LIMIT_MAX, ROOM_LOOKUP_RATE_LIMIT_MAX
    Window,         \* ..._WINDOW_MS, in ticks
    PruneInterval   \* PRUNE_INTERVAL

ASSUME LimitsAssumption == /\ MaxRequests \in Nat \ {0}
                           /\ Window \in Nat \ {0}
                           /\ PruneInterval \in Nat \ {0}

VARIABLES
    entries,       \* ip -> [count, resetIn], or NoEntry
    requestCount,  \* modulo PRUNE_INTERVAL
    admitted,      \* history: per IP, how many were admitted how many ticks ago
    verdict        \* the answer to the last check of each IP

vars == <<entries, requestCount, admitted, verdict>>

NoEntry == [count |-> 0, resetIn |-> 0]
Ages == 0..Window - 1

\* A count above MaxRequests + 1 is rejected as that one is.
Entry == [count : 1..MaxRequests + 1, resetIn : 0..Window]

TypeOK ==
    /\ entries \in [Ips -> Entry \cup {NoEntry}]
    /\ requestCount \in 0..PruneInterval - 1
    /\ admitted \in [Ips -> [Ages -> 0..MaxRequests]]
    /\ verdict \in [Ips -> {"none", "allowed", "limited"}]

Init ==
    /\ entries = [ip \in Ips |-> NoEntry]
    /\ requestCount = 0
    /\ admitted = [ip \in Ips |-> [age \in Ages |-> 0]]
    /\ verdict = [ip \in Ips |-> "none"]

----------------------------------------------------------------------------
\* The entry of an IP is missing or its window is over: now >= resetAtMs.
Expired(entry) == entry.resetIn = 0

\* Every PRUNE_INTERVAL-th request prunes before anything else.
CountRequest == requestCount' = (requestCount + 1) % PruneInterval
Pruned ==
    IF requestCount' = 0
    THEN [ip \in Ips |-> IF Expired(entries[ip]) THEN NoEntry ELSE entries[ip]]
    ELSE entries

\* check
\* (Bug operators are mutants of the definition that follows.)
\* Bugs: counting from zero; every request restarting the window.
BugCountUp(entry) ==
    IF Expired(entry) THEN [count |-> 0, resetIn |-> Window]
    ELSE [entry EXCEPT !.count = IF @ > MaxRequests THEN @ ELSE @ + 1]
BugCountUpProlonging(entry) ==
    IF Expired(entry) THEN [count |-> 1, resetIn |-> Window]
    ELSE [count |-> IF entry.count > MaxRequests THEN entry.count ELSE entry.count + 1,
          resetIn |-> Window]
CountUp(entry) ==
    IF Expired(entry) THEN [count |-> 1, resetIn |-> Window]
    ELSE [entry EXCEPT !.count = IF @ > MaxRequests THEN @ ELSE @ + 1]

Check(ip) ==
    LET entry == CountUp(Pruned[ip])
    IN  /\ CountRequest
        /\ entries' = [Pruned EXCEPT ![ip] = entry]
        /\ IF entry.count > MaxRequests
           THEN /\ verdict' = [verdict EXCEPT ![ip] = "limited"]
                /\ UNCHANGED admitted
           ELSE /\ verdict' = [verdict EXCEPT ![ip] = "allowed"]
                /\ admitted' = [admitted EXCEPT ![ip][0] = @ + 1]

\* A request that is answered without a check.
OtherRequest ==
    /\ CountRequest
    /\ entries' = Pruned
    /\ UNCHANGED <<admitted, verdict>>

Tick ==
    /\ entries' = [ip \in Ips |-> IF Expired(entries[ip]) THEN entries[ip]
                                  ELSE [entries[ip] EXCEPT !.resetIn = @ - 1]]
    /\ admitted' = [ip \in Ips |->
           [age \in Ages |-> IF age = 0 THEN 0 ELSE admitted[ip][age - 1]]]
    /\ verdict' = [ip \in Ips |-> "none"]
    /\ UNCHANGED requestCount

----------------------------------------------------------------------------
(* Properties *)

\* Requests that were admitted at one of some ages, each with a number of its own.
Requests(history, ages) == UNION {{age} \X (1..history[age]) : age \in ages}

\* How many requests of ip were admitted in the last Window ticks.
InLastWindow(ip) == Cardinality(Requests(admitted[ip], Ages))

\* The windows are fixed, each starting at a first request: any interval as
\* long as a window overlaps two of them, and of the first one not its start.
AtMostTwoWindows ==
    \A ip \in Ips : InLastWindow(ip) <= 2 * MaxRequests - 1

\* Nobody is limited who has not used up the limit within the last window:
\* neither pruning nor rejected requests prolong a rejection.
LimitedForCause ==
    \A ip \in Ips : verdict[ip] = "limited" => InLastWindow(ip) >= MaxRequests

=============================================================================
