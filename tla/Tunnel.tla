-------------------------------- MODULE Tunnel --------------------------------
(***************************************************************************)
(* The supervised cloudflared tunnel of tunnel.go: the supervisor goroutine *)
(* that launches the process, waits for it and backs off; the scanners of   *)
(* its output, which publish the URL it prints; the one caller of           *)
(* WaitForURL that main.go has; the two callers of Close (the signal        *)
(* handler and main's defer); and the context they share, which kills the   *)
(* process when it is cancelled (exec.CommandContext).                      *)
(*                                                                         *)
(* A critical section of t.mu is one step.  Timers fire at any time.  The   *)
(* URLs are few and used over again, but never twice in a row.              *)
(***************************************************************************)
EXTENDS Naturals

CONSTANTS URLs,        \* the public URLs cloudflared may be given
          Closers,     \* the goroutines that call Close
          None,        \* no URL, the empty string of the code
          MaxBackoff   \* seconds (30 in the code)

ASSUME TunnelAssumption == None \notin URLs /\ MaxBackoff \in Nat \ {0}

VARIABLES
    sup,      \* where the supervisor is
    backoff,  \* its delay, in seconds
    result,   \* what runOnce returned: had a URL, failed
    seen,     \* urlSeenBefore
    process,  \* cloudflared: "none", "up", or exited with "ok" or "failed"
    printed,  \* the URL the latest process has printed
    piped,    \* is that line still in the pipe?
    cmd,      \* is Tunnel.cmd set?
    url,      \* Tunnel.url
    urlCh,    \* what the channel holds, of capacity one
    waiter,   \* where the caller of WaitForURL is
    answer,   \* what it got
    closed,   \* Tunnel.closed
    closing,  \* closer -> where it is in Close
    done      \* is the context cancelled?

procVars == <<process, printed, piped>>
supVars == <<sup, backoff, result, seen, cmd>>
waitVars == <<urlCh, waiter, answer>>
closeVars == <<closed, closing, done>>
vars == <<procVars, supVars, url, waitVars, closeVars>>

MaybeURLs == URLs \cup {None}

TypeOK ==
    /\ sup \in {"loop", "launch", "launched", "running", "reaped", "returned",
                "backoff", "stopped"}
    /\ backoff \in 1 .. MaxBackoff
    /\ result \in [hadURL : BOOLEAN, failed : BOOLEAN]
    /\ seen \in BOOLEAN /\ cmd \in BOOLEAN
    /\ process \in {"none", "up", "ok", "failed"}
    /\ printed \in MaybeURLs
    /\ piped \in BOOLEAN
    /\ url \in MaybeURLs /\ urlCh \in MaybeURLs /\ answer \in MaybeURLs
    /\ waiter \in {"calling", "checked", "blocked", "returned"}
    /\ closed \in BOOLEAN /\ done \in BOOLEAN
    /\ closing \in [Closers -> {"before", "flagged", "nothing", "waiting", "returned"}]

Init ==
    /\ sup = "loop" /\ backoff = 1
    /\ result = [hadURL |-> FALSE, failed |-> FALSE]
    /\ seen = FALSE /\ cmd = FALSE
    /\ process = "none" /\ printed = None /\ piped = FALSE
    /\ url = None /\ urlCh = None
    /\ waiter = "calling" /\ answer = None
    /\ closed = FALSE /\ done = FALSE
    /\ closing = [c \in Closers |-> "before"]

-----------------------------------------------------------------------------
\* supervise: the test at the head of its loop.
Loop ==
    /\ sup = "loop"
    /\ sup' = IF done THEN "stopped" ELSE "launch"
    /\ UNCHANGED <<procVars, backoff, result, seen, cmd, url, waitVars, closeVars>>

\* runOnce up to cmd.Start, which may fail, as it does for a cancelled
\* context; but the context may also be cancelled while it is under way.
LaunchFails ==
    /\ sup = "launch"
    /\ sup' = "returned"
    /\ result' = [hadURL |-> FALSE, failed |-> TRUE]
    /\ UNCHANGED <<procVars, backoff, seen, cmd, url, waitVars, closeVars>>

Launch ==
    /\ sup = "launch"
    /\ sup' = "launched"
    /\ process' = "up" /\ printed' = None /\ piped' = FALSE
    /\ UNCHANGED <<backoff, result, seen, cmd, url, waitVars, closeVars>>

Register ==
    /\ sup = "launched"
    /\ sup' = "running"
    /\ cmd' = TRUE
    /\ seen' = (url # None)
    /\ UNCHANGED <<procVars, backoff, result, url, waitVars, closeVars>>

\* The scanners have reached the end of the output (wg.Wait), and cmd.Wait
\* returns.
ExitedOnly == process \in {"ok", "failed"}                 \* fault: no wg.Wait
ExitedAndRead == process \in {"ok", "failed"} /\ ~piped

Reap ==
    /\ sup = "running"
    /\ ExitedAndRead
    /\ sup' = "reaped"
    /\ UNCHANGED <<procVars, backoff, result, seen, cmd, url, waitVars, closeVars>>

Record ==
    /\ sup = "reaped"
    /\ sup' = "returned"
    /\ cmd' = FALSE
    /\ result' = [hadURL |-> url # None /\ ~seen, failed |-> process = "failed" /\ ~done]
    /\ UNCHANGED <<procVars, backoff, seen, url, waitVars, closeVars>>

\* supervise again, with what runOnce returned.
EndsOnFailure == done \/ result.failed  \* fault: an error ends the supervisor
Ends == done

AfterRun ==
    LET relaunch == ~done /\ ~result.failed /\ result.hadURL
    IN  /\ sup = "returned"
        /\ sup' = IF Ends THEN "stopped" ELSE "backoff"
        /\ url' = IF relaunch THEN None ELSE url
        /\ backoff' = IF relaunch THEN 1 ELSE backoff
        /\ UNCHANGED <<procVars, result, seen, cmd, waitVars, closeVars>>

Uncapped(b) == 2 * b                 \* fault: no maximum
Doubled(b) == IF 2 * b > MaxBackoff THEN MaxBackoff ELSE 2 * b

BackOff ==
    /\ sup = "backoff"
    /\ sup' = "loop"
    /\ backoff' = IF result.hadURL THEN backoff ELSE Doubled(backoff)
    /\ UNCHANGED <<procVars, result, seen, cmd, url, waitVars, closeVars>>

BackOffCancelled ==
    /\ sup = "backoff"
    /\ done
    /\ sup' = "stopped"
    /\ UNCHANGED <<procVars, backoff, result, seen, cmd, url, waitVars, closeVars>>

-----------------------------------------------------------------------------
\* The process prints the URL it was given, at most once.
PrintURL(u) ==
    /\ process = "up" /\ printed = None
    /\ u # url
    /\ printed' = u
    /\ piped' = TRUE
    /\ UNCHANGED <<process, supVars, url, waitVars, closeVars>>

Exit(status) ==
    /\ process = "up"
    /\ process' = status
    /\ UNCHANGED <<printed, piped, supVars, url, waitVars, closeVars>>

Killed == done

Kill ==
    /\ Killed
    /\ Exit("failed")

-----------------------------------------------------------------------------
\* A send on urlCh: a goroutine that blocks in its receive gets the value,
\* else the buffer holds it, unless it is full.
SendUnbuffered(u) ==                  \* fault: make(chan string)
    IF waiter = "blocked"
    THEN waiter' = "returned" /\ answer' = u /\ UNCHANGED urlCh
    ELSE UNCHANGED waitVars
Send(u) ==
    IF waiter = "blocked"
    THEN waiter' = "returned" /\ answer' = u /\ UNCHANGED urlCh
    ELSE urlCh' = (IF urlCh = None THEN u ELSE urlCh) /\ UNCHANGED <<waiter, answer>>

\* scan finds the URL in a line; only the first one is taken.
Scan ==
    /\ piped /\ sup # "launched"
    /\ piped' = FALSE
    /\ IF url = None
       THEN url' = printed /\ Send(printed)
       ELSE UNCHANGED <<url, waitVars>>
    /\ UNCHANGED <<process, printed, supVars, closeVars>>

-----------------------------------------------------------------------------
\* WaitForURL: the look under the lock, then the select.
Check ==
    /\ waiter = "calling"
    /\ IF url # None
       THEN waiter' = "returned" /\ answer' = url
       ELSE waiter' = "checked" /\ UNCHANGED answer
    /\ UNCHANGED <<procVars, supVars, url, urlCh, closeVars>>

Select ==
    /\ waiter = "checked"
    /\ IF urlCh # None
       THEN waiter' = "returned" /\ answer' = urlCh /\ urlCh' = None
       ELSE waiter' = "blocked" /\ UNCHANGED <<answer, urlCh>>
    /\ UNCHANGED <<procVars, supVars, url, closeVars>>

\* The context is cancelled, or the timeout elapses.
GiveUp ==
    /\ waiter = "blocked"
    /\ waiter' = "returned"
    /\ UNCHANGED <<procVars, supVars, url, urlCh, answer, closeVars>>

-----------------------------------------------------------------------------
\* Close: only the first call does anything.
Close(c) ==
    /\ closing[c] = "before"
    /\ closed' = TRUE
    /\ closing' = [closing EXCEPT ![c] =
                     IF closed THEN "returned" ELSE IF cmd THEN "flagged" ELSE "nothing"]
    /\ UNCHANGED <<procVars, supVars, url, waitVars, done>>

\* t.cancel(), and with a command an interrupt that it may obey.
NotCancelled == done                  \* fault: no t.cancel()
Cancelled == TRUE

Cancel(c) ==
    /\ closing[c] \in {"flagged", "nothing"}
    /\ done' = Cancelled
    /\ closing' = [closing EXCEPT ![c] = IF @ = "flagged" THEN "waiting" ELSE "returned"]
    /\ UNCHANGED <<procVars, supVars, url, waitVars, closed>>

\* Process.Wait returns, or after three seconds Close kills the process, which
\* the cancelled context does as well.
CloseReturns(c) ==
    /\ closing[c] = "waiting"
    /\ closing' = [closing EXCEPT ![c] = "returned"]
    /\ UNCHANGED <<procVars, supVars, url, waitVars, closed, done>>

-----------------------------------------------------------------------------
Supervise ==
    \/ Loop \/ LaunchFails \/ Launch \/ Register \/ Reap \/ Record
    \/ AfterRun \/ BackOff \/ BackOffCancelled

WaitForURL == Check \/ Select \/ GiveUp

CloseStep(c) == Cancel(c) \/ CloseReturns(c)

Next ==
    \/ Supervise
    \/ \E u \in URLs : PrintURL(u)
    \/ \E status \in {"ok", "failed"} : Exit(status)
    \/ Kill
    \/ Scan
    \/ WaitForURL
    \/ \E c \in Closers : Close(c) \/ CloseStep(c)

Spec == Init /\ [][Next]_vars

\* Goroutines that can run do, timers fire, a killed process dies.  Nothing
\* makes a healthy process print or exit, or anybody call Close.
Fairness ==
    /\ WF_vars(Supervise) /\ WF_vars(Kill) /\ WF_vars(Scan)
    /\ WF_vars(WaitForURL)
    /\ \A c \in Closers : WF_vars(CloseStep(c))

FairSpec == Spec /\ Fairness
-----------------------------------------------------------------------------
\* No wake-up is lost: while a URL is known nobody stays blocked waiting for
\* it, though the look at the URL and the receive are two steps (WaitForURL
\* against scan; the capacity of urlCh is what makes it true).
NoLostURL == waiter = "blocked" => url = None

\* Once the supervisor has dealt with a process that exited cleanly, that
\* process's URL is not published any more, nor will a scanner that is late
\* publish it again (unless the URL was stale before it was launched, which
\* is what a failed process leaves behind).
CleanExitForgets ==
    sup \in {"backoff", "loop", "launch"} /\ process = "ok" /\ ~seen => url = None


\* Until it is closed the tunnel is kept up: however often cloudflared fails
\* or exits, it is launched again, or it is running.
KeepsLaunching == []<>(sup = "launch" \/ process = "up" \/ done)

\* URL "returns the current tunnel URL" (tunnel.go:204): what the running
\* process printed, once the scanners have read it.
URLIsCurrent == process = "up" /\ printed # None /\ ~piped => url = printed
=============================================================================
