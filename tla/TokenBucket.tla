----------------------------- MODULE TokenBucket -----------------------------
(***************************************************************************)
(* What a per-connection message limit promises: a bucket of Burst units   *)
(* that fills by Refill units each tick and from which each admitted       *)
(* message takes Cost units.                                               *)
(***************************************************************************)
EXTENDS Integers

CONSTANTS Burst, Refill, Cost

VARIABLES
    level,    \* units in the bucket
    spent,    \* units taken since the start of the window observed
    earned,   \* units due since then
    verdict   \* what became of the last message

bucketVars == <<level, spent, earned, verdict>>

AtMost(n, limit) == IF n > limit THEN limit ELSE n

BucketInit == level = Burst /\ spent = 0 /\ earned = 0 /\ verdict = "none"

Admit ==
    /\ level >= Cost
    /\ level' = level - Cost
    /\ spent' = spent + Cost
    /\ verdict' = "admitted"
    /\ UNCHANGED earned

Reject ==
    /\ level < Cost
    /\ verdict' = "rejected"
    /\ UNCHANGED <<level, spent, earned>>

Fill ==
    /\ level' = AtMost(level + Refill, Burst)
    /\ earned' = earned + Refill
    /\ UNCHANGED <<spent, verdict>>

\* A window can start at any time.
Observe == spent' = 0 /\ earned' = 0 /\ UNCHANGED <<level, verdict>>

\* Another connection, another bucket.
NewBucket == level' = Burst /\ spent' = 0 /\ earned' = 0 /\ verdict' = "none"

BucketNext == Admit \/ Reject \/ Fill \/ Observe \/ NewBucket

BucketSpec == BucketInit /\ [][BucketNext]_bucketVars

=============================================================================
