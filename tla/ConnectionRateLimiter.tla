------------------------ MODULE ConnectionRateLimiter ------------------------
(***************************************************************************)
(* The limit on the messages of one WebSocket: ConnectionRateLimiter       *)
(* (worker/src/rate-limit.ts) and its use in webSocketMessage              *)
(* (worker/src/room.ts), where limiters live in a Map that hibernation     *)
(* loses while the socket stays.                                           *)
(*                                                                         *)
(* Amounts are in units that make them integers (a hundredth of a token:   *)
(* one millisecond refills one unit).  The time since lastRefillMs is kept *)
(* as the units it is worth.                                               *)
(***************************************************************************)
EXTENDS Integers

CONSTANTS
    Burst,      \* WS_RATE_LIMIT_BURST tokens
    Refill,     \* WS_RATE_LIMIT_REFILL, per tick
    Cost,       \* one token
    IdleWorth   \* the units due in the idle time after which the runtime hibernates

ASSUME AmountsAssumption ==
    Burst \in Nat /\ Refill \in Nat /\ Cost \in Nat \ {0} /\ IdleWorth \in Nat

\* The runtime evicts an object from memory after ten seconds without events,
\* which are worth five bursts.
ASSUME IdleAssumption == IdleWorth >= Burst

VARIABLES
    sock,      \* "open" or "closed"
    limited,   \* whether wsRateLimiters has a limiter for the socket
    tokens,    \* its tokens
    accrued,   \* units due since its lastRefillMs
    verdict,   \* what became of the last message that reached the limiter
    spent,     \* history: units admitted in the window observed
    earned     \* history: units due in the window observed

vars == <<sock, limited, tokens, accrued, verdict, spent, earned>>

Verdicts == {"none", "admitted", "rejected"}

TypeOK ==
    /\ sock \in {"open", "closed"}
    /\ limited \in BOOLEAN
    /\ tokens \in 0..Burst
    /\ accrued \in Nat
    /\ verdict \in Verdicts
    /\ spent \in Nat
    /\ earned \in Nat

AtMost(n, limit) == IF n > limit THEN limit ELSE n

NoLimiter == limited' = FALSE /\ tokens' = Burst /\ accrued' = 0
NewWindow == spent' = 0 /\ earned' = 0

Init ==
    /\ sock = "open"
    /\ limited = FALSE
    /\ tokens = Burst
    /\ accrued = 0
    /\ verdict = "none"
    /\ spent = 0
    /\ earned = 0

----------------------------------------------------------------------------
(* Messages.  A binary, oversized or unparsable one gets an error reply     *)
(* before the limiter is asked, and changes nothing here.                   *)

\* refill: what consume finds in the bucket of a limiter, or of a new one.
\* (Bug operators are mutants of the definition that follows: this one is not
\* limited to the burst.)
BugRefilled == IF limited THEN tokens + accrued ELSE Burst
Refilled == IF limited THEN AtMost(tokens + accrued, Burst) ELSE Burst

\* consume returning true.
ConsumeOk ==
    /\ sock = "open"
    /\ Refilled >= Cost
    /\ limited' = TRUE
    /\ tokens' = Refilled - Cost
    /\ accrued' = 0
    /\ verdict' = "admitted"
    /\ spent' = spent + Cost
    /\ UNCHANGED <<sock, earned>>

\* consume returning false: an error reply, and the socket stays.  Bug: what
\* accrued since the last message is lost.
BugConsumeFails ==
    /\ sock = "open"
    /\ Refilled < Cost
    /\ limited' = TRUE
    /\ accrued' = 0
    /\ verdict' = "rejected"
    /\ UNCHANGED <<sock, tokens, spent, earned>>
ConsumeFails ==
    /\ sock = "open"
    /\ Refilled < Cost
    /\ limited' = TRUE
    /\ tokens' = Refilled
    /\ accrued' = 0
    /\ verdict' = "rejected"
    /\ UNCHANGED <<sock, spent, earned>>

\* webSocketClose and webSocketError forget the limiter.
Gone ==
    /\ sock = "open"
    /\ sock' = "closed"
    /\ NoLimiter
    /\ verdict' = "none"
    /\ NewWindow

\* The next connection of the same client.
Connect ==
    /\ sock = "closed"
    /\ sock' = "open"
    /\ UNCHANGED <<limited, tokens, accrued, verdict, spent, earned>>

\* Hibernation: the object leaves memory, and with it the Map.
Hibernate ==
    /\ limited
    /\ accrued >= IdleWorth
    /\ NoLimiter
    /\ UNCHANGED <<sock, verdict, spent, earned>>

Tick ==
    /\ accrued' = IF limited THEN accrued + Refill ELSE accrued
    /\ earned' = earned + Refill
    /\ UNCHANGED <<sock, limited, tokens, verdict, spent>>

\* History only: the window observed starts anew.
Observe == NewWindow /\ UNCHANGED <<sock, limited, tokens, accrued, verdict>>

Next ==
    \/ ConsumeOk \/ ConsumeFails
    \/ Gone \/ Connect \/ Hibernate
    \/ Tick \/ Observe

Spec == Init /\ [][Next]_vars

----------------------------------------------------------------------------
(* Properties *)

\* In any window of a connection, the messages dispatched are worth at most a
\* burst and what is refilled in the window.
RateBound == spent <= Burst + earned

\* Refilling lazily, at the next message only, and losing the limiter to
\* hibernation make no difference to what is admitted: the limiter implements
\* a bucket that fills as time passes.
Bucket == INSTANCE TokenBucket WITH level <- Refilled
ImplementsBucket == Bucket!BucketSpec

=============================================================================
