------------------------------- MODULE MCCapture -------------------------------
(***************************************************************************)
(* Capture with values for TLC: two values of each setting tell an old one *)
(* from a new one, and a mix of both from either.  Video, samples, and     *)
(* audio with the end of the server share little but the context: each has *)
(* a slice of the behaviours of its own, chosen at the start.              *)
(***************************************************************************)
EXTENDS Capture

MCValues == {1, 2}

VARIABLE slice

NoSamples == pendingNALs' = <<>> /\ sample' = <<>>
NoEnd == main' \in {"serving", "cancelled", "returning"}
OneFailure == failures' <= 1
SameRate == config'.rate = built.rate
SameSettings == UNCHANGED config /\ signal' = none

MCInit ==
    /\ CaptureInit
    /\ slice \in {"video", "samples", "audio"}
    /\ slice = "audio" <=> audio = "listen"
    /\ slice # "video" => method = "x11grab"
    /\ slice = "audio" => config.size = 1 /\ config.rate = 1

MCNext ==
    /\ CaptureNext
    /\ UNCHANGED slice
    /\ slice = "video" => NoSamples
    /\ slice = "samples" => OneFailure /\ NoEnd /\ SameRate
    /\ slice = "audio" => OneFailure /\ NoSamples /\ SameSettings

MCSpec == MCInit /\ [][MCNext]_<<allVars, slice>> /\ CaptureFairness
=============================================================================
