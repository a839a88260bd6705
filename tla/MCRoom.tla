------------------------------- MODULE MCRoom -------------------------------
(***************************************************************************)
(* Room with values for TLC.  The settings and the gamepads touch nothing  *)
(* of each other's, and have a slice of the behaviours each, chosen at the *)
(* start, with all the rest of the room in both.                           *)
(***************************************************************************)
EXTENDS Room, TLC

CONSTANTS c1, c2, keyboard

MCConns == {c1, c2}
MCDevices == {keyboard}
MCRequests == {1, 7}
MCFlags == {3}

VARIABLE slice

MCInit == Init /\ slice \in {"pads", "settings"}
MCNext ==
    /\ Next
    /\ UNCHANGED slice
    /\ \A c \in Conns : task'[c].op # IF slice = "pads" THEN "quality" ELSE "claim"
MCSpec == MCInit /\ [][MCNext]_<<vars, slice>>

\* The fields of a removed peer that no read loop and no gamepad slot refers
\* to any more decide nothing (a connection may join again, so not even its
\* own): states that differ in them alone are one.
Seen(p) ==
    \/ p \in peers
    \/ \E c \in Conns : task[c].peer = p
    \/ \E s \in PadSlots : gamepadSlots[s] = p

LiveFields ==
    <<roomVars, task, captured, alone, slice,
      [p \in {q \in PeerIds : Seen(q)} |->
          <<conn[p], slot[p], isHost[p], enabled[p], pads[p]>>]>>

ConnSymmetry == Permutations(MCConns)
=============================================================================
