------------------------------- MODULE MCInput -------------------------------
(***************************************************************************)
(* Input with values for TLC.                                              *)
(* What the tabs believe of their role, which pads they claim and what     *)
(* their data channels inject each has a slice of the behaviours of its    *)
(* own, chosen at the start: all at once is out of reach.                  *)
(***************************************************************************)
EXTENDS Input, TLC

CONSTANTS c1, c2, keyboard, ch1, ch2

MCConns == {c1, c2}
MCDevices == {keyboard}
MCChannels == {ch1, ch2}

VARIABLE slice

NoGuestPermissions == \A c \in Conns : task'[c].op # "guest"
NoReconnect == \A c \in Conns : owes'[c].kind # "reconnected"
NoInput == gate' = gate
NoKeys == \A ch \in Channels : gate'[ch].right \notin Devices
NoGamepads == \A c \in Conns : sent'[c] = <<>>
NoCrossedNews == crossed' = {}
\* One message on the way at most, and none of the mishaps that need more.
Prompt ==
    /\ doubled' = {} /\ NoCrossedNews
    /\ \A c, d \in Conns : Len(sent'[c]) + Len(replies'[d]) <= 1

\* One read loop at most is working on an answer.
OneAnswer == \E c \in Conns : \A d \in Conns \ {c} : owes'[d] = Idle

MCInit == InputInit /\ slice \in {"roles", "pads", "keys", "sticks"}
MCNext ==
    /\ InputNext
    /\ UNCHANGED slice
    /\ slice = "roles" => NoGamepads /\ NoInput
    /\ slice = "pads" => NoGuestPermissions /\ NoReconnect /\ NoInput /\ NoCrossedNews
    /\ slice = "keys" => NoGamepads /\ NoReconnect /\ Prompt
    /\ slice = "sticks" => NoGuestPermissions /\ NoReconnect /\ NoKeys /\ Prompt /\ OneAnswer
MCSpec == MCInit /\ [][MCNext]_<<allVars, slice>>

Symmetry == Permutations(MCConns) \cup Permutations(MCChannels)
=============================================================================
