--------------------- MODULE ConnectionRateLimiterProofs ---------------------
(***************************************************************************)
(* For every burst, refill rate and message cost: the limiter of a         *)
(* connection implements a token bucket, and admits no more than one.      *)
(***************************************************************************)
EXTENDS ConnectionRateLimiter, TLAPS

LEMMA TypeOKStep == TypeOK /\ [Next]_vars => TypeOK'
<1> SUFFICES ASSUME TypeOK, [Next]_vars PROVE TypeOK'
  OBVIOUS
<1> USE AmountsAssumption DEF TypeOK, Verdicts
<1>1. Refilled \in 0..Burst
  BY DEF Refilled, AtMost
<1>2. CASE ConsumeOk
  <2>1. limited' \in BOOLEAN
    BY <1>2, Zenon DEF ConsumeOk
  <2> QED
    BY <1>1, <1>2, <2>1 DEF ConsumeOk
<1>3. CASE ConsumeFails
  <2>1. limited' \in BOOLEAN
    BY <1>3, Zenon DEF ConsumeFails
  <2> QED
    BY <1>1, <1>3, <2>1 DEF ConsumeFails
<1>4. CASE Gone \/ Connect \/ Hibernate
  <2>1. limited' \in BOOLEAN
    BY <1>4, Zenon DEF Gone, Connect, Hibernate, NoLimiter
  <2> QED
    BY <1>4, <2>1 DEF Gone, Connect, Hibernate, NoLimiter, NewWindow
<1>5. CASE Tick \/ Observe
  BY <1>5 DEF Tick, Observe, NewWindow
<1>6. CASE UNCHANGED vars
  BY <1>6 DEF vars
<1> QED
  BY <1>2, <1>3, <1>4, <1>5, <1>6 DEF Next

\* The limiter's fields stay within their bounds: tokens never exceed the burst.
THEOREM TypeCorrect == Spec => []TypeOK
<1>1. ASSUME Init PROVE TypeOK
  <2>1. limited \in BOOLEAN
    BY <1>1, Zenon DEF Init
  <2> QED
    BY <1>1, <2>1, AmountsAssumption DEF Init, TypeOK, Verdicts
<1> QED
  BY <1>1, TypeOKStep, PTL DEF Spec

\* One step of the limiter is one step of the bucket, or none: refilling late
\* fills the bucket as much, and an object that hibernates has been idle for
\* long enough that the bucket of its sockets is full (rate-limit.ts:94-111).
THEOREM Implements == Spec => ImplementsBucket
<1> USE AmountsAssumption DEF TypeOK, Refilled, AtMost, Bucket!AtMost
<1>1. Init => Bucket!BucketInit
  BY DEF Init, Bucket!BucketInit
<1>2. TypeOK /\ [Next]_vars => [Bucket!BucketNext]_Bucket!bucketVars
  <2> SUFFICES ASSUME TypeOK, [Next]_vars
               PROVE  [Bucket!BucketNext]_Bucket!bucketVars
    OBVIOUS
  <2>1. CASE ConsumeOk
    BY <2>1 DEF ConsumeOk, Bucket!BucketNext, Bucket!Admit
  <2>2. CASE ConsumeFails
    BY <2>2 DEF ConsumeFails, Bucket!BucketNext, Bucket!Reject
  <2>3. CASE Gone
    BY <2>3 DEF Gone, NoLimiter, NewWindow, Bucket!BucketNext, Bucket!NewBucket
  <2>4. CASE Connect
    BY <2>4 DEF Connect, Bucket!bucketVars
  <2>5. CASE Hibernate
    BY <2>5, IdleAssumption DEF Hibernate, NoLimiter, Bucket!bucketVars
  <2>6. CASE Tick
    BY <2>6 DEF Tick, Bucket!BucketNext, Bucket!Fill
  <2>7. CASE Observe
    BY <2>7 DEF Observe, NewWindow, Bucket!BucketNext, Bucket!Observe
  <2>8. CASE UNCHANGED vars
    BY <2>8 DEF vars, Bucket!bucketVars
  <2> QED
    BY <2>1, <2>2, <2>3, <2>4, <2>5, <2>6, <2>7, <2>8 DEF Next
<1> QED
  BY <1>1, <1>2, TypeCorrect, PTL DEF Spec, ImplementsBucket, Bucket!BucketSpec

\* What was admitted in a window and what is left never exceed a burst and
\* what the window has earned: the strengthening of RateBound that is inductive.
Balance == spent + Refilled <= Burst + earned

\* The messages dispatched in any window of a connection are worth at most a
\* burst and the refill of the window (room.ts:189-202).
THEOREM RateIsBounded == Spec => []RateBound
<1> USE AmountsAssumption DEF TypeOK, Refilled, AtMost, Balance
<1>1. Init => Balance
  BY DEF Init
<1>2. TypeOK /\ Balance /\ [Next]_vars => Balance'
  <2> SUFFICES ASSUME TypeOK, Balance, [Next]_vars PROVE Balance'
    OBVIOUS
  <2>1. CASE ConsumeOk
    BY <2>1 DEF ConsumeOk
  <2>2. CASE ConsumeFails
    BY <2>2 DEF ConsumeFails
  <2>3. CASE Gone \/ Connect
    BY <2>3 DEF Gone, Connect, NoLimiter, NewWindow
  <2>4. CASE Hibernate
    BY <2>4, IdleAssumption DEF Hibernate, NoLimiter
  <2>5. CASE Tick
    BY <2>5 DEF Tick
  <2>6. CASE Observe
    BY <2>6 DEF Observe, NewWindow
  <2>7. CASE UNCHANGED vars
    BY <2>7 DEF vars
  <2> QED
    BY <2>1, <2>2, <2>3, <2>4, <2>5, <2>6, <2>7 DEF Next
<1>3. TypeOK /\ Balance => RateBound
  BY DEF RateBound
<1> QED
  BY <1>1, <1>2, <1>3, TypeCorrect, PTL DEF Spec

=============================================================================
