----------------------------- MODULE Membership -----------------------------
(***************************************************************************)
(* What a room promises to clients that come back only after they have     *)
(* been seen to go: seats that outlive connections.                        *)
(***************************************************************************)
EXTENDS Naturals, FiniteSets

CONSTANTS Clients, MaxMembers

VARIABLES
    seats,    \* client -> "host", "guest", or "none"
    present   \* the clients connected

membershipVars == <<seats, present>>

Seated == {c \in Clients : seats[c] # "none"}

MembershipInit == seats = [c \in Clients |-> "none"] /\ present = {}

\* A newcomer gets a seat for as long as there is one.  If there is none, those
\* who are away may lose theirs, never those who are present.  Whoever finds the
\* room empty is the host.
Admit(c) ==
    /\ c \notin Seated
    /\ \E stay \in SUBSET Seated :
           /\ present \subseteq stay
           /\ Cardinality(Seated) < MaxMembers => stay = Seated
           /\ Cardinality(stay) < MaxMembers
           /\ seats' = [d \in Clients |->
                  CASE d = c -> IF stay = {} THEN "host" ELSE "guest"
                    [] d \in stay -> seats[d]
                    [] OTHER -> "none"]
    \* The connection may be gone by then.
    /\ present' \in {present, present \cup {c}}

\* Who has a seat has it back, with its role.
Return(c) ==
    /\ c \in Seated
    /\ present' = present \cup {c}
    /\ UNCHANGED seats

\* goodbye
Resign(c) ==
    /\ seats' = [seats EXCEPT ![c] = "none"]
    /\ present' = present \ {c}

\* Connections are lost, one or all.
Vanish ==
    /\ \E C \in SUBSET present : present' = present \ C
    /\ UNCHANGED seats

Finish ==
    /\ seats' = [c \in Clients |-> "none"]
    /\ present' = {}

MembershipNext ==
    \/ \E c \in Clients : Admit(c) \/ Return(c) \/ Resign(c)
    \/ Vanish \/ Finish

MembershipSpec == MembershipInit /\ [][MembershipNext]_membershipVars

=============================================================================
