---------------------------- MODULE MCConnWriter ----------------------------
(***************************************************************************)
(* ConnWriter with values for TLC: two connections, every kind of          *)
(* goroutine for the first and the read loop of the second.  Two slices of *)
(* the space are explored, so that each stays small: in "once" each        *)
(* connection joins once, the first client may stop reading, and all are    *)
(* told only of those who join and leave; in "again" the first connection  *)
(* joins twice, the second never, and clients read.                        *)
(***************************************************************************)
EXTENDS ConnWriter

CONSTANTS a, b

VARIABLE slice

MCConns == {a, b}
Readers == {"reader"} \X MCConns
OnlyA == {a}
MCJoins == [c \in MCConns |-> IF c = a THEN 2 ELSE 1]
MCThreads == {<<"ping", a>>, <<"pion", a>>} \cup Readers

Asked(c, call) == todo'[<<"reader", c>>] = Calls[call]

MCInit == Init /\ slice \in {"once", "again"}
MCNext ==
    /\ Next
    /\ slice = "once" =>
         \A c \in Conns : (Asked(c, "join") => joins[c] = 0) /\ ~Asked(c, "tell")
    /\ slice = "again" => ~Asked(b, "join") /\ stalled' = {}
    /\ UNCHANGED slice

MCSpec == MCInit /\ [][MCNext]_<<vars, slice>> /\ Fairness
=============================================================================
