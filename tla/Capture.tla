-------------------------------- MODULE Capture --------------------------------
(***************************************************************************)
(* The whole of capture.go on Linux, and what main.go does with it: the    *)
(* video runner of VideoRunner.tla with the assembly of samples that       *)
(* readH264Stream does for each run, the audio goroutines, and the end of  *)
(* the server, by a signal or by log.Fatalf.                               *)
(*                                                                         *)
(* A NAL unit is its kind and the settings of the encoder that wrote it.   *)
(* The encoder and the reader of its output are one: what is in the pipe   *)
(* between them decides nothing.  A frame has one or more slices (x264     *)
(* with -tune zerolatency writes several), a keyframe's are "idr"; an      *)
(* encoder may repeat its parameter sets before each keyframe, or write    *)
(* them at its start alone.  SEI units never get out of pion's reader.     *)
(*                                                                         *)
(* The audio process sends RTP to a local socket, which another goroutine  *)
(* reads with a deadline of one second.  Sleeps are free.                  *)
(***************************************************************************)
EXTENDS VideoRunner, Sequences

CONSTANTS MaxPending   \* bound on the NAL units between two slices

ASSUME CaptureAssumption == MaxPending \in Nat

VARIABLES
    wanted,       \* the unit the encoder has to write next, or "any"
    sps, pps,     \* latestSPS and latestPPS: that unit alone, or no unit
    pendingNALs,
    sample,       \* the sample written last
    audio,        \* where runAudioCapture is
    audioAlive,   \* does its process run?
    audioCmd,     \* is Capture.audioCmd the process that runs?
    socket,       \* is the RTP socket open?
    receiver,     \* receiveAudioRTP
    main,         \* where main and its signal goroutine are
    unseen,       \* (history) what was being launched at Stop
    left          \* (history) an audio process was running when main was over

nalVars == <<wanted, sps, pps, pendingNALs, sample>>
audioVars == <<audio, audioAlive, audioCmd, socket, receiver>>
mainVars == <<main, unseen, left>>
videoVars == vars
allVars == <<videoVars, nalVars, audioVars, mainVars>>

Kinds == {"sps", "pps", "other", "idr", "slice"}
NALs == [kind : Kinds, of : Settings]
nal(kind) == [kind |-> kind, of |-> built]

CaptureTypeOK ==
    /\ TypeOK
    /\ wanted \in {"sps", "pps", "idr", "any"}
    /\ {sps, pps, pendingNALs, sample} \subseteq Seq(NALs)
    /\ Len(sps) <= 1 /\ Len(pps) <= 1 /\ Len(pendingNALs) <= MaxPending
    /\ audio \in {"off", "listen", "check", "start", "started", "waiting", "exited", "stopped"}
    /\ receiver \in {"off", "reading", "stopped"}
    /\ main \in {"serving", "cancelled", "returning", "over", "fatal"}
    /\ {audioAlive, audioCmd, socket, left} \subseteq BOOLEAN
    /\ unseen \subseteq {"audio", "video"}

\* capture.Start starts the audio goroutine unless -no-audio was given.
CaptureInit ==
    /\ Init
    /\ wanted = "sps"
    /\ sps = <<>> /\ pps = <<>>
    /\ pendingNALs = <<>> /\ sample = <<>>
    /\ audio \in {"off", "listen"}
    /\ audioAlive = FALSE /\ audioCmd = FALSE
    /\ socket = FALSE /\ receiver = "off"
    /\ main = "serving"
    /\ unseen = {} /\ left = FALSE

-----------------------------------------------------------------------------
\* readH264Stream: a run begins with nothing remembered of the run before.
KeepReading ==                        \* fault: what it remembers is in Capture
    /\ wanted' = "sps"
    /\ UNCHANGED <<sps, pps, pendingNALs, sample>>
BeginReading ==
    /\ wanted' = "sps"
    /\ sps' = <<>> /\ pps' = <<>>
    /\ pendingNALs' = <<>> /\ sample' = <<>>

\* The stream starts with both sets and a keyframe; later anything may come,
\* but the picture set after the sequence set, and both before a keyframe.
MayRead(kind) ==
    /\ up
    /\ runner = "reading" /\ OutputOf(method) \in alive
    /\ CASE wanted = "any" -> kind # "pps"
         [] wanted = "idr" -> kind \in {"idr", "other"}
         [] OTHER -> kind = wanted

Appended(set, unit) == Append(set, unit)     \* fault: append without [:0]
Replaced(set, unit) == <<unit>>

\* A unit that is no slice is remembered, and waits for the next slice.
ReadOther(kind) ==
    /\ kind \in {"sps", "pps", "other"}
    /\ MayRead(kind)
    /\ Len(pendingNALs) < MaxPending
    /\ wanted' = CASE kind = "sps" -> "pps" [] kind = "pps" -> "idr" [] OTHER -> wanted
    /\ sps' = IF kind = "sps" THEN Replaced(sps, nal(kind)) ELSE sps
    /\ pps' = IF kind = "pps" THEN Replaced(pps, nal(kind)) ELSE pps
    /\ pendingNALs' = Append(pendingNALs, nal(kind))
    /\ UNCHANGED <<videoVars, sample, audioVars, mainVars>>

\* A slice is a sample, after what was waiting; one of a keyframe also has the
\* latest sets put before it, even when they are waiting too.
ReadSlice(kind) ==
    /\ kind \in {"idr", "slice"}
    /\ MayRead(kind)
    /\ wanted' = "any"
    /\ sample' = (IF kind = "idr" THEN sps \o pps ELSE <<>>) \o pendingNALs \o <<nal(kind)>>
    /\ pendingNALs' = <<>>
    /\ UNCHANGED <<videoVars, sps, pps, audioVars, mainVars>>

\* A step of VideoRunner but those of Stop, which are main's below; Register
\* goes on into readH264Stream.
RunVideo ==
    /\ (up /\ Goroutines) \/ ByThemselves
    /\ IF Register THEN BeginReading ELSE UNCHANGED nalVars
    /\ UNCHANGED <<audioVars, mainVars>>

-----------------------------------------------------------------------------
\* runAudioCapture: the socket, then one process after another until Stop.

\* With no socket there is no audio; else its reader starts.
Listen ==
    /\ audio = "listen"
    /\ \/ audio' = "stopped" /\ UNCHANGED <<socket, receiver>>
       \/ audio' = "check" /\ socket' = TRUE /\ receiver' = "reading"
    /\ UNCHANGED <<videoVars, nalVars, audioAlive, audioCmd, mainVars>>

\* At the start of a round and after each process the context is looked at.
CheckAudio ==
    /\ audio \in {"check", "exited"}
    /\ IF done
       THEN audio' = "stopped" /\ socket' = FALSE
       ELSE audio' = (IF audio = "check" THEN "start" ELSE "check") /\ UNCHANGED socket
    /\ UNCHANGED <<videoVars, nalVars, audioAlive, audioCmd, receiver, mainVars>>

\* cmd.Start may fail; the context may be cancelled after it has looked.
StartAudio ==
    /\ audio = "start"
    /\ audio' = "started"
    /\ audioAlive' = TRUE /\ audioCmd' = FALSE
    /\ UNCHANGED <<videoVars, nalVars, socket, receiver, mainVars>>

StartAudioFails ==
    /\ audio = "start"
    /\ audio' = "check"
    /\ UNCHANGED <<videoVars, nalVars, audioAlive, audioCmd, socket, receiver, mainVars>>

RegisterAudio ==
    /\ audio = "started"
    /\ audio' = "waiting"
    /\ audioCmd' = TRUE
    /\ UNCHANGED <<videoVars, nalVars, audioAlive, socket, receiver, mainVars>>

NoRestart == "stopped"                \* fault: audio ends with its first process
AfterProcess == "exited"

AudioWaitReturns ==
    /\ audio = "waiting" /\ ~audioAlive
    /\ audio' = AfterProcess
    /\ UNCHANGED <<videoVars, nalVars, audioAlive, audioCmd, socket, receiver, mainVars>>

\* The process exits or crashes, or is killed since the context is cancelled.
AudioExit ==
    /\ audioAlive
    /\ audioAlive' = FALSE
    /\ UNCHANGED <<videoVars, nalVars, audio, audioCmd, socket, receiver, mainVars>>

KillAudio == Cancelled /\ AudioExit

\* receiveAudioRTP wakes at least once a second, and looks at the context; a
\* closed socket alone does not end it.
ReceiverEnds ==
    /\ receiver = "reading" /\ done
    /\ receiver' = "stopped"
    /\ UNCHANGED <<videoVars, nalVars, audio, audioAlive, audioCmd, socket, mainVars>>

-----------------------------------------------------------------------------
\* main.  On a signal one goroutine cancels the context, then closes the HTTP
\* server; main returns from it, and its deferred calls stop the capture.
\* When the server fails (a port in use), log.Fatalf ends the process at once.
Cancel ==
    /\ up /\ main = "serving"
    /\ main' = "cancelled"
    /\ CancelContext
    /\ UNCHANGED <<nalVars, audioVars, unseen, left>>

VideoOnly == UNCHANGED audioAlive     \* fault: Stop kills the video process alone
RegisteredKilled == audioAlive' = (audioAlive /\ ~audioCmd)

StopCapture ==
    /\ up /\ main = "cancelled"
    /\ main' = "returning"
    /\ Stop
    /\ RegisteredKilled
    /\ unseen' = (IF audio \in {"start", "started"} THEN {"audio"} ELSE {})
                \cup (IF runner \in Launching THEN {"video"} ELSE {})
    /\ UNCHANGED <<nalVars, audio, audioCmd, socket, receiver, left>>

\* The server is over with all its goroutines.
End(how) ==
    /\ EndServer
    /\ main' = how
    /\ left' = audioAlive
    /\ UNCHANGED <<nalVars, audioVars, unseen>>

Return == main = "returning" /\ End("over")
Fatal == main = "serving" /\ End("fatal")

-----------------------------------------------------------------------------
AudioGoroutines ==
    \/ Listen \/ CheckAudio
    \/ StartAudio \/ StartAudioFails \/ RegisterAudio \/ AudioWaitReturns
    \/ KillAudio
    \/ ReceiverEnds

CaptureNext ==
    \/ RunVideo
    \/ \E kind \in Kinds : ReadOther(kind) \/ ReadSlice(kind)
    \/ up /\ AudioGoroutines
    \/ AudioExit
    \/ Cancel \/ StopCapture \/ Return \/ Fatal

\* The runner's fairness is VideoRunner's.  While the server is there the audio
\* goroutine goes on; a launch may fail each time, and nothing makes a process
\* exit.
CaptureFairness ==
    /\ Fairness
    /\ WF_allVars(up /\ (Listen \/ CheckAudio \/ StartAudio \/ StartAudioFails
                         \/ RegisterAudio \/ AudioWaitReturns))

CaptureSpec == CaptureInit /\ [][CaptureNext]_allVars /\ CaptureFairness
-----------------------------------------------------------------------------
\* A sample with a slice of a keyframe can be decoded by a peer that has seen
\* nothing else: it starts with the encoder's parameter sets, whether or not
\* the encoder repeats them and in whichever slice of the frame, and never
\* mixes units of two runs, whenever RestartVideo cut the one before.
KeyframesStandAlone ==
    sample # <<>> /\ sample[Len(sample)].kind = "idr" =>
        /\ sample[1].kind = "sps" /\ sample[2].kind = "pps"
        /\ \A i \in DOMAIN sample : sample[i].of = sample[Len(sample)].of

\* No audio process outlives the server, which nothing would ever end (it
\* sends to a socket, and does not notice), but for one whose launch
\* Stop came into, before it was registered, and after log.Fatalf, which runs none of
\* main's deferred calls.
OnlyRacesLeaveAudio == left => "audio" \in unseen \/ main = "fatal"

\* Of the video, main's Stop leaves no process running that the server reads
\* from, but for one whose launch it came into.  (The process that feeds a
\* pipe Stop does not kill: ffmpeg is what it has registered.)
OnlyRacesLeaveVideo ==
    main = "over" /\ OutputOf(method) \in alive => "video" \in unseen

\* An audio process that is gone is followed by another launch, until the
\* server ends.
AudioGoesOn == (audio = "waiting" /\ ~audioAlive) ~> (audio = "start" \/ done \/ ~up)
=============================================================================
