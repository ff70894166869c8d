------------------------------ MODULE Admission ------------------------------
(***************************************************************************)
(* What np_single_proc promises about logging in: at most Active users are *)
(* logged in, the others wait in the order they arrived, and nobody waits  *)
(* while there is room.                                                    *)
(***************************************************************************)
EXTENDS Naturals, Sequences, FiniteSets

CONSTANTS Clients, Active

VARIABLES
    members,    \* the users logged in
    queue       \* the users waiting

admVars == <<members, queue>>

AdmInit == members = {} /\ queue = <<>>

Present(c) == c \in members \/ \E k \in DOMAIN queue : queue[k] = c

Arrive(c) ==
    /\ ~Present(c)
    /\ IF Cardinality(members) < Active
       THEN members' = members \cup {c} /\ UNCHANGED queue
       ELSE queue' = Append(queue, c) /\ UNCHANGED members

Leave(c) ==
    /\ c \in members
    /\ IF queue = <<>>
       THEN members' = members \ {c} /\ UNCHANGED queue
       ELSE /\ members' = (members \ {c}) \cup {Head(queue)}
            /\ queue' = Tail(queue)

AdmNext == \E c \in Clients : Arrive(c) \/ Leave(c)

AdmSpec == AdmInit /\ [][AdmNext]_admVars

=============================================================================
