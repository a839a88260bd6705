------------------------------ MODULE MCSession ------------------------------
(***************************************************************************)
(* Session for TLC.  Its state space is explored in five slices, chosen at *)
(* the start.  A slice begins as if the tab had used up a part of its      *)
(* sessions and tries, and leaves out happenings that nothing makes sure:  *)
(*   all      one session, one reconnect, and everything that can happen;  *)
(*   again    two sessions and a reconnect, no freezes or failing set-ups; *)
(*   restart  one session, a reconnect and an ICE restart, no freezes;     *)
(*   freeze   two reconnects: for a freeze of the first connection, once   *)
(*            it has worked, and for a failure of ICE;                     *)
(*   tries    two reconnects for failures of ICE, the first once the       *)
(*            server has sent its offer, no freezes.                       *)
(* In the last three set-ups and the network do not fail and nobody        *)
(* leaves: sockets and peer connections end only when the server closes    *)
(* one.                                                                    *)
(***************************************************************************)
EXTENDS Session

VARIABLE slice

Has(slices) == slice \in slices
Rest(many, max) == IF many THEN 0 ELSE max - 1

MCInit ==
    /\ slice \in {"all", "again", "restart", "freeze", "tries"}
    /\ AtRest
    /\ sock = [s \in Sessions |-> IF s < MaxSessions /\ ~Has({"again"}) THEN "closed" ELSE "none"]
    /\ reconnects = Rest(Has({"freeze", "tries"}), MaxReconnects)
    /\ restarts = IF Has({"restart"}) THEN 0 ELSE MaxRestarts
    /\ retries = Rest(Has({"tries"}), MaxRetries)

FirstOffered == \E g \in PCs : stage[g] = "offered"
FirstWorks == ice /\ reconnects = 0
SetUpsWork ==
    /\ \A s \in Sessions : starting'[s] < starting[s] => peerPC' # peerPC
    /\ \A g \in open : stage'[g] \in {"aborted", "unwatched"} => stage[g] = stage'[g]
NothingEnds ==
    /\ \A s \in Sessions : sock[s] = "open" /\ sock'[s] # "open" => conn[s] = "closed"
    /\ \A s \in Sessions : loop'[s] = "gone" => loop[s] = "gone" \/ SocketEnded(s)
    /\ callback' \cap open' \subseteq callback

MCNext ==
    /\ Next
    /\ Has({"again", "restart", "tries"}) => ~poll'
    /\ Has({"freeze"}) => (poll' /\ ~poll => FirstWorks)
    /\ Has({"tries"}) => (reconnects = 0 /\ reconnects' = 1 => FirstOffered)
    /\ ~Has({"all"}) => SetUpsWork
    /\ Has({"restart", "freeze", "tries"}) => NothingEnds
    /\ UNCHANGED slice

MCSpec == MCInit /\ [][MCNext]_<<vars, slice>> /\ Fairness
=============================================================================
