----------------------------- MODULE VideoRunner -----------------------------
(***************************************************************************)
(* The video half of capture.go on Linux: the goroutine of runVideoCapture *)
(* that builds a pipeline, launches its processes, reads H.264 from them   *)
(* until they end and starts over; and the calls of other goroutines that  *)
(* reach into it: RestartVideo, RequestIDR and Stop.                       *)
(*                                                                         *)
(* A pipeline has one of three modes: a native helper alone, a capturing   *)
(* process piped into ffmpeg, or ffmpeg alone.  c.videoCmd and             *)
(* c.captureProc are handles on the processes of the latest run that has   *)
(* registered; once those are gone a handle does nothing, and is "none".   *)
(*                                                                         *)
(* The settings are the two numbers `size` and `rate`, for all of width,   *)
(* height, fps and bitrate: buildVideoPipeline reads them one by one, with *)
(* no lock.  Sleeps and running times are free.                            *)
(*                                                                         *)
(* When main returns, or ends by log.Fatalf, the server is gone with all   *)
(* its goroutines, exec's among them, which kill for the context.  The     *)
(* processes it launched are not: they end, if they do, for themselves.    *)
(***************************************************************************)
EXTENDS Naturals

CONSTANTS Values,       \* the values a setting may have
          MaxFailures   \* runs too short before the fallback (3 in the code)

ASSUME VideoRunnerAssumption == Values # {} /\ MaxFailures \in Nat \ {0}

Settings == [size : Values, rate : Values]
Methods == {"nvfbc_nvenc", "nvfbc_capture", "kmsgrab", "x11grab"}
Processes == {"capture", "ffmpeg"}
none == "none"

\* What buildVideoPipeline makes of a method: the processes of the pipeline,
\* the one that c.videoCmd is, and the one that c.captureProc is.
ProcessesOf(m) ==
    CASE m = "nvfbc_nvenc" -> {"capture"}
      [] m = "nvfbc_capture" -> {"capture", "ffmpeg"}
      [] OTHER -> {"ffmpeg"}
OutputOf(m) == IF m = "nvfbc_nvenc" THEN "capture" ELSE "ffmpeg"
SignalledOf(m) == IF "capture" \in ProcessesOf(m) THEN "capture" ELSE none

VARIABLES
    config,       \* Capture.config
    method,       \* cachedMethod
    failures,     \* consecutiveFailures, up to MaxFailures
    runner,       \* where the goroutine is
    built,        \* the settings in the command lines it has built
    alive,        \* the processes that run
    videoCmd, captureProc,
    signal,       \* the process a RequestIDR under way has picked, or none
    done,         \* is the context cancelled?
    up,           \* is the server still there?
    missed        \* (history) did a RestartVideo come during this launch?

runVars == <<method, failures, runner, built>>
vars == <<config, runVars, alive, videoCmd, captureProc, signal, done, up, missed>>

Launching == {"build", "start", "pipe", "started"}

TypeOK ==
    /\ config \in Settings /\ built \in Settings
    /\ method \in Methods
    /\ failures \in 0 .. MaxFailures
    /\ runner \in Launching \cup {"check", "reading", "ended", "over", "stopped"}
    /\ alive \subseteq ProcessesOf(method)
    /\ videoCmd \in Processes \cup {none} /\ captureProc \in Processes \cup {none}
    /\ signal \in Processes \cup {none}
    /\ done \in BOOLEAN /\ up \in BOOLEAN /\ missed \in BOOLEAN

\* The probe of detectCaptureMethod may choose any method.
Init ==
    /\ config \in Settings /\ built = config
    /\ method \in Methods
    /\ failures = 0
    /\ runner = "check"
    /\ alive = {}
    /\ videoCmd = none /\ captureProc = none /\ signal = none
    /\ done = FALSE /\ up = TRUE /\ missed = FALSE

-----------------------------------------------------------------------------
\* The loop of runVideoCapture begins, and buildVideoPipeline reads the width
\* and height, then the rest.
Check ==
    /\ runner = "check"
    /\ runner' = IF done THEN "stopped" ELSE "build"
    /\ built' = IF done THEN built ELSE [built EXCEPT !.size = config.size]
    /\ missed' = FALSE
    /\ UNCHANGED <<config, method, failures, alive, videoCmd, captureProc, signal, done, up>>

Build ==
    /\ runner = "build"
    /\ runner' = "start"
    /\ built' = [built EXCEPT !.rate = config.rate]
    /\ UNCHANGED <<config, method, failures, alive, videoCmd, captureProc, signal, done, up, missed>>

\* The process is launched, or the first of the two of a pipe; or it cannot be.
Launch ==
    /\ runner = "start"
    /\ runner' = IF method = "nvfbc_capture" THEN "pipe" ELSE "started"
    /\ alive' = IF method = "nvfbc_capture" THEN {"capture"} ELSE ProcessesOf(method)
    /\ videoCmd' = none /\ captureProc' = none /\ signal' = none
    /\ UNCHANGED <<config, method, failures, built, done, up, missed>>

LaunchFails ==
    /\ runner = "start"
    /\ runner' = "over"
    /\ UNCHANGED <<config, method, failures, built, alive, videoCmd, captureProc,
                   signal, done, up, missed>>

\* The second process of the pipe is launched while the first one runs; if it
\* cannot be, the first one is killed and waited for.
LaunchOutput ==
    /\ runner = "pipe"
    /\ runner' = "started"
    /\ alive' = alive \cup {"ffmpeg"}
    /\ UNCHANGED <<config, method, failures, built, videoCmd, captureProc,
                   signal, done, up, missed>>

LeftRunning == alive                  \* fault: returns, and leaves the first one
KilledAgain == {}

LaunchOutputFails ==
    /\ runner = "pipe"
    /\ runner' = "over"
    /\ alive' = KilledAgain
    /\ UNCHANGED <<config, method, failures, built, videoCmd, captureProc,
                   signal, done, up, missed>>

Register ==
    /\ runner = "started"
    /\ runner' = "reading"
    /\ videoCmd' = OutputOf(method)
    /\ captureProc' = SignalledOf(method)
    /\ UNCHANGED <<config, method, failures, built, alive, signal, done, up, missed>>

\* readH264Stream returns: the output has ended, it is no H.264, or the
\* context is cancelled.
ReadEnds ==
    /\ runner = "reading"
    /\ runner' = "ended"
    /\ UNCHANGED <<config, method, failures, built, alive, videoCmd, captureProc,
                   signal, done, up, missed>>

\* After reading, the piped mode kills both processes before it waits for
\* them; the others wait for their process to exit by itself.
KillsOutput == {"ffmpeg"}             \* fault: the capturing process lives on
KillsAtEnd == IF method = "nvfbc_capture" THEN {"capture", "ffmpeg"} ELSE {}

WaitReturns ==
    /\ runner = "ended"
    /\ method # "nvfbc_capture" => alive = {}
    /\ runner' = "over"
    /\ alive' = alive \ KillsAtEnd
    /\ UNCHANGED <<config, method, failures, built, videoCmd, captureProc, signal, done, up, missed>>

\* A run shorter than two seconds is a failure, whatever ended it; enough of
\* them in a row and handleConsecutiveFailures falls back to x11grab.
GivesUpAtLast == failures >= MaxFailures     \* fault: no more tries
GivesUp == FALSE

CountRun(short) ==
    LET n == IF failures < MaxFailures THEN failures + 1 ELSE failures
    IN  /\ runner = "over"
        /\ runner' = IF GivesUp THEN "stopped" ELSE "check"
        /\ failures' = IF short THEN n ELSE 0
        /\ method' = IF short /\ n >= MaxFailures THEN "x11grab" ELSE method
        /\ UNCHANGED <<config, built, alive, videoCmd, captureProc, signal, done, up, missed>>

-----------------------------------------------------------------------------
\* RestartVideo, on the goroutine of any handler, under c.mu.
SignalledKilled == alive \ {captureProc}     \* fault: kills the other handle
OutputKilled == alive \ {videoCmd}

RestartVideo(settings) ==
    /\ config' = settings
    /\ alive' = OutputKilled
    /\ missed' = (missed \/ runner \in Launching)
    /\ UNCHANGED <<runVars, videoCmd, captureProc, signal, done, up>>

\* RequestIDR picks the process under c.mu, and signals it without.  The
\* native helper answers with a keyframe; nvfbc_capture handles no SIGUSR1,
\* and dies of it.
PickProcess ==
    /\ captureProc # none
    /\ signal' = captureProc
    /\ UNCHANGED <<config, runVars, alive, videoCmd, captureProc, done, up, missed>>

SignalIDR ==
    /\ signal # none
    /\ alive' = IF method = "nvfbc_capture" THEN alive \ {signal} ELSE alive
    /\ signal' = none
    /\ UNCHANGED <<config, runVars, videoCmd, captureProc, done, up, missed>>

\* The context is cancelled, by main or by Stop itself; Stop then kills what
\* c.videoCmd is under c.mu.
CancelContext ==
    /\ ~done
    /\ done' = TRUE
    /\ UNCHANGED <<config, runVars, alive, videoCmd, captureProc, signal, up, missed>>

Stop ==
    /\ done
    /\ alive' = OutputKilled
    /\ UNCHANGED <<config, runVars, videoCmd, captureProc, signal, done, up, missed>>

\* The server's own process ends: main returns, or log.Fatalf.
EndServer ==
    /\ up
    /\ up' = FALSE
    /\ UNCHANGED <<config, runVars, alive, videoCmd, captureProc, signal, done, missed>>

-----------------------------------------------------------------------------
\* A process exits or crashes; ffmpeg does when its input has ended; all do
\* when the context is cancelled (exec.CommandContext).
Exit(p) ==
    /\ p \in alive
    /\ alive' = alive \ {p}
    /\ UNCHANGED <<config, runVars, videoCmd, captureProc, signal, done, up, missed>>

InputEnds ==
    /\ method = "nvfbc_capture" /\ "capture" \notin alive
    /\ Exit("ffmpeg")

NoContext == FALSE                    \* fault: exec.Command, with no context
Cancelled == done
Kill == Cancelled /\ \E p \in Processes : Exit(p)

-----------------------------------------------------------------------------
GoesOn ==
    \/ Check \/ Build \/ Launch \/ LaunchFails \/ LaunchOutput \/ LaunchOutputFails \/ Register
    \/ WaitReturns
    \/ \E short \in BOOLEAN : CountRun(short)
Run == GoesOn \/ ReadEnds

\* What goroutines of the server do, and what the processes do by themselves.
Goroutines ==
    \/ Run
    \/ \E settings \in Settings : RestartVideo(settings)
    \/ PickProcess \/ SignalIDR
    \/ Kill
ByThemselves == InputEnds \/ \E p \in Processes : Exit(p)

Next ==
    \/ up /\ Goroutines
    \/ up /\ (CancelContext \/ Stop)
    \/ EndServer
    \/ ByThemselves

Spec == Init /\ [][Next]_vars

\* While the server is there the runner goes on; it finds the end of its input
\* when the process that writes it is gone, and exec kills for the context.
\* ffmpeg ends with its input.  Nothing else makes a process exit, a handler
\* call or the server end.
Fairness ==
    /\ WF_vars(up /\ GoesOn)
    /\ WF_vars(up /\ OutputOf(method) \notin alive /\ ReadEnds)
    /\ WF_vars(InputEnds)
    /\ WF_vars(up /\ Kill)

FairSpec == Spec /\ Fairness
-----------------------------------------------------------------------------
\* No process of a run is left when the next one is built and launched, in
\* any mode and whatever ended the run: two never grab the screen at once.
NoOverlap == runner \in {"over", "check", "build", "start", "stopped"} => alive = {}

\* A RestartVideo that comes in the middle of a launch is the only one that
\* may fail to put its settings in force.
OnlyLaunchesMiss ==
    runner = "reading" /\ videoCmd \in alive /\ ~missed => built = config

\* Once the context is cancelled the runner returns and no process is left,
\* not even one that was launched after Stop had killed what was registered:
\* it takes exec's kill for the context, and the server to live that long.
StopEndsCapture == done ~> (runner = "stopped" /\ alive = {}) \/ ~up

\* A pipeline whose processes are gone is launched again, whatever ended them
\* and however often it has failed, until the server ends.
KeepsCapturing == (runner = "reading" /\ alive = {}) ~> (runner = "start" \/ done \/ ~up)

\* A pipeline that runs has the settings of the last RestartVideo ("kills the
\* current video subprocess so the runner restarts it with new
\* dimensions/bitrate", capture.go:122).
SettingsInForce == runner = "reading" /\ videoCmd \in alive => built = config
=============================================================================
