------------------------------ MODULE HostLease ------------------------------
(***************************************************************************)
(* What a streaming room promises about its host, whatever the interleaving *)
(* of handlers: a room with members has exactly one host, who is a member,  *)
(* keeps the role until leaving, and is succeeded by a remaining member in  *)
(* the very step that removes it.  Room.tla is shown to implement this.     *)
(***************************************************************************)
EXTENDS Integers

CONSTANTS Members,   \* every member there can be
          None       \* "no host", not a member

VARIABLES members,   \* those in the room
          host       \* the one holding the role, or None

leaseVars == <<members, host>>

Init == members = {} /\ host = None

\* A member enters; it takes the role only if nobody holds it.
Enter(m) ==
    /\ m \notin members
    /\ members' = members \cup {m}
    /\ host' = IF host = None THEN m ELSE host

\* A member leaves; the role passes on in the same step, to None only when
\* the room is left empty.
Leave(m) ==
    /\ m \in members
    /\ members' = members \ {m}
    /\ IF host = m
       THEN \/ /\ members' # {}
               /\ host' \in members'
            \/ /\ members' = {}
               /\ host' = None
       ELSE host' = host

Next == \E m \in Members : Enter(m) \/ Leave(m)

Spec == Init /\ [][Next]_leaseVars
=============================================================================
