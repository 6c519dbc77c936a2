----------------------------- MODULE MCPlayback -----------------------------
(***************************************************************************)
(* A model-checking instance of Playback: an environment in which commands *)
(* die out.                                                                *)
(***************************************************************************)
EXTENDS Playback

\* Prompt players that do not run out of data.
ConvergeNext ==
    \/ AllReported /\ Tick
    \/ \E c \in Clients :
           \/ UserAct(c)
           \/ PlayerEvent(c) \/ ServerMessage(c) \/ HeartbeatDue(c)
           \/ events[c] = {} /\ Connect(c)
           \/ Disconnect(c)
ConvergeSpec == Init /\ [][ConvergeNext]_vars /\ Fairness /\ HeartbeatFairness

=============================================================================
