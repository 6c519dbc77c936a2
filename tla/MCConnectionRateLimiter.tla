----------------------- MODULE MCConnectionRateLimiter -----------------------
(***************************************************************************)
(* Bounded instance: time passes as long as neither the idle time nor the  *)
(* window observed is too long to matter.                                  *)
(***************************************************************************)
EXTENDS ConnectionRateLimiter

CONSTANT MaxAccrued, MaxEarned

Bounded == accrued' <= MaxAccrued /\ earned' <= MaxEarned /\ spent' <= Burst + MaxEarned
BoundedSpec == Init /\ [][Next /\ Bounded]_vars

=============================================================================
