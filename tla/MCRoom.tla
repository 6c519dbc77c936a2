------------------------------- MODULE MCRoom -------------------------------
(***************************************************************************)
(* Model-checking instances of Room.                                       *)
(***************************************************************************)
EXTENDS Room, TLC

Symmetry == Permutations(Sockets) \cup Permutations(Sessions)

\* Liveness needs that no room is taken over: every alarm could be overtaken that
\* way, for ever.
LiveSpec == NoTakeoverSpec /\ Fairness

=============================================================================
