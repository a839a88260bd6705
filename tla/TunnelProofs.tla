---------------------------- MODULE TunnelProofs ----------------------------
(***************************************************************************)
(* Proofs about Tunnel: no wake-up of WaitForURL is lost, and a process     *)
(* that exited cleanly leaves no URL behind.                                *)
(***************************************************************************)
EXTENDS Tunnel, TLAPS

\* A URL that came between the look and the receive is in the channel.
ChannelInv == waiter = "checked" /\ url # None => urlCh # None

\* The process and its output belong to the run the supervisor is in.
OutputInv ==
    /\ process = "up" => sup \in {"launched", "running"}
    /\ piped => sup \in {"launched", "running"} /\ printed # None

\* What runOnce returns tells of a URL that a clean exit leaves behind.
ResultInv ==
    /\ sup = "reaped" => process \in {"ok", "failed"}
    /\ sup = "returned" /\ process = "ok" /\ ~seen /\ url # None
         => result.hadURL /\ ~result.failed

IInv == TypeOK /\ NoLostURL /\ CleanExitForgets /\ ChannelInv /\ OutputInv /\ ResultInv

\* The initial state satisfies the invariant.
LEMMA InitInv == Init => IInv
<1>. SUFFICES ASSUME Init PROVE IInv
  OBVIOUS
<1>1. TypeOK
  <2>1. backoff \in 1 .. MaxBackoff
    BY TunnelAssumption DEF Init
  <2>2. result \in [hadURL : BOOLEAN, failed : BOOLEAN]
    BY DEF Init
  <2>3. seen \in BOOLEAN /\ cmd \in BOOLEAN /\ piped \in BOOLEAN /\ closed \in BOOLEAN /\ done \in BOOLEAN
    BY DEF Init
  <2>. QED BY <2>1, <2>2, <2>3 DEF Init, TypeOK, MaybeURLs
<1>. QED BY <1>1
     DEF Init, IInv, NoLostURL, CleanExitForgets, ChannelInv, OutputInv, ResultInv

\* Doubling keeps the delay within its bounds.
LEMMA DoubledInBounds ==
    ASSUME NEW b \in 1 .. MaxBackoff
    PROVE  Doubled(b) \in 1 .. MaxBackoff
BY TunnelAssumption DEF Doubled

\* Every step keeps the types.
LEMMA NextType == TypeOK /\ [Next]_vars => TypeOK'
<1>. SUFFICES ASSUME TypeOK, [Next]_vars PROVE TypeOK'
  OBVIOUS
<1>. USE DEF TypeOK, MaybeURLs, procVars, supVars, waitVars, closeVars
<1>1. CASE UNCHANGED vars
  BY <1>1 DEF vars
<1>2. CASE Loop
  BY <1>2 DEF Loop
<1>3. CASE LaunchFails
  <2>1. result' \in [hadURL : BOOLEAN, failed : BOOLEAN]
    BY <1>3 DEF LaunchFails
  <2>. QED BY <1>3, <2>1 DEF LaunchFails
<1>4. CASE Launch
  BY <1>4 DEF Launch
<1>5. CASE Register
  BY <1>5 DEF Register
<1>6. CASE Reap
  BY <1>6 DEF Reap
<1>7. CASE Record
  <2>1. result' \in [hadURL : BOOLEAN, failed : BOOLEAN]
    BY <1>7 DEF Record
  <2>. QED BY <1>7, <2>1 DEF Record
<1>8. CASE AfterRun
  BY <1>8, TunnelAssumption DEF AfterRun
<1>9. CASE BackOff
  BY <1>9, DoubledInBounds DEF BackOff
<1>10. CASE BackOffCancelled
  BY <1>10 DEF BackOffCancelled
<1>11. ASSUME NEW u \in URLs, PrintURL(u) PROVE TypeOK'
  BY <1>11 DEF PrintURL
<1>12. ASSUME NEW status \in {"ok", "failed"}, Exit(status) PROVE TypeOK'
  BY <1>12 DEF Exit
<1>13. CASE Scan
  <2>1. piped' \in BOOLEAN
    BY <1>13 DEF Scan
  <2>2. /\ url' \in MaybeURLs /\ urlCh' \in MaybeURLs /\ answer' \in MaybeURLs
        /\ waiter' \in {"calling", "checked", "blocked", "returned"}
    BY <1>13 DEF Scan, Send
  <2>. QED BY <1>13, <2>1, <2>2 DEF Scan
<1>14. CASE WaitForURL
  BY <1>14 DEF WaitForURL, Check, Select, GiveUp
<1>15. ASSUME NEW c \in Closers, Close(c) \/ CloseStep(c) PROVE TypeOK'
  <2>1. closed' \in BOOLEAN /\ done' \in BOOLEAN
    BY <1>15 DEF Close, CloseStep, Cancel, CloseReturns, Cancelled
  <2>2. closing' \in [Closers -> {"before", "flagged", "nothing", "waiting", "returned"}]
    BY <1>15 DEF Close, CloseStep, Cancel, CloseReturns
  <2>. QED BY <1>15, <2>1, <2>2 DEF Close, CloseStep, Cancel, CloseReturns
<1>. QED
  BY <1>1, <1>2, <1>3, <1>4, <1>5, <1>6, <1>7, <1>8, <1>9, <1>10, <1>11, <1>12, <1>13,
     <1>14, <1>15 DEF Next, Supervise, Kill

\* Every step keeps the invariant.
LEMMA NextInv == IInv /\ [Next]_vars => IInv'
<1>. SUFFICES ASSUME IInv, [Next]_vars PROVE IInv'
  OBVIOUS
<1>. DEFINE Rest == NoLostURL /\ CleanExitForgets /\ ChannelInv /\ OutputInv /\ ResultInv
<1>0. TypeOK /\ TypeOK'
  BY NextType DEF IInv
<1>. SUFFICES Rest'
  BY <1>0 DEF IInv
<1>. USE <1>0 DEF IInv, NoLostURL, CleanExitForgets, ChannelInv, OutputInv, ResultInv
<1>1. CASE UNCHANGED vars
  BY <1>1 DEF vars, procVars, supVars, waitVars
<1>2. CASE Loop
  BY <1>2 DEF Loop, procVars, waitVars
<1>3. CASE LaunchFails
  BY <1>3 DEF LaunchFails, procVars, waitVars
<1>4. CASE Launch
  BY <1>4 DEF Launch, waitVars
<1>5. CASE Register
  BY <1>5 DEF Register, procVars, waitVars
<1>6. CASE Reap
  BY <1>6 DEF Reap, ExitedAndRead, procVars, waitVars
<1>7. CASE Record
  BY <1>7 DEF Record, procVars, waitVars, TypeOK
<1>8. CASE AfterRun
  BY <1>8 DEF AfterRun, Ends, procVars, waitVars
<1>9. CASE BackOff
  BY <1>9 DEF BackOff, procVars, waitVars
<1>10. CASE BackOffCancelled
  BY <1>10 DEF BackOffCancelled, procVars, waitVars
<1>11. ASSUME NEW u \in URLs, PrintURL(u) PROVE Rest'
  BY <1>11, TunnelAssumption DEF PrintURL, supVars, waitVars
<1>12. ASSUME NEW status \in {"ok", "failed"}, Exit(status) PROVE Rest'
  BY <1>12 DEF Exit, supVars, waitVars
<1>13. CASE Scan
  BY <1>13 DEF Scan, Send, supVars, waitVars
<1>14. CASE WaitForURL
  BY <1>14 DEF WaitForURL, Check, Select, GiveUp, procVars, supVars
<1>15. ASSUME NEW c \in Closers, Close(c) \/ CloseStep(c) PROVE Rest'
  BY <1>15 DEF Close, CloseStep, Cancel, CloseReturns, procVars, supVars, waitVars
<1>. QED
  BY <1>1, <1>2, <1>3, <1>4, <1>5, <1>6, <1>7, <1>8, <1>9, <1>10, <1>11, <1>12, <1>13,
     <1>14, <1>15 DEF Next, Supervise, Kill

\* The invariant holds throughout.
THEOREM TunnelInvariance == Spec => []IInv
<1>. QED BY InitInv, NextInv, PTL DEF Spec

\* The tunnel's state always has its types; the delay stays within its bounds.
THEOREM TunnelTypes == Spec => []TypeOK
<1>1. IInv => TypeOK
  BY DEF IInv
<1>. QED BY <1>1, TunnelInvariance, PTL

\* Nobody is blocked in WaitForURL while a URL is known.
THEOREM NoWakeUpLost == Spec => []NoLostURL
<1>1. IInv => NoLostURL
  BY DEF IInv
<1>. QED BY <1>1, TunnelInvariance, PTL

\* A clean exit leaves no URL behind, however late the scanners are.
THEOREM CleanExitsForget == Spec => []CleanExitForgets
<1>1. IInv => CleanExitForgets
  BY DEF IInv
<1>. QED BY <1>1, TunnelInvariance, PTL
=============================================================================
