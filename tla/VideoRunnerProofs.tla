-------------------------- MODULE VideoRunnerProofs --------------------------
(***************************************************************************)
(* Proofs about VideoRunner: no two runs of the capture overlap, and a      *)
(* change of the settings is in force unless it came during a launch.       *)
(***************************************************************************)
EXTENDS VideoRunner, TLAPS

\* Between the launch and the end of a run, the handle that RestartVideo and
\* Stop kill is that of the process whose output is read.
HandleInv == runner \in {"reading", "ended"} => videoCmd = OutputOf(method)

\* What has been built so far agrees with the settings, as far as the launch
\* has read them and no RestartVideo came since.
BuiltInv ==
    ~missed =>
        /\ runner = "build" => built.size = config.size
        /\ runner \in {"start", "pipe", "started"} => built = config
        /\ runner = "reading" /\ videoCmd \in alive => built = config

\* The pipe's processes are launched one after the other.
PipeInv == runner = "pipe" => method = "nvfbc_capture"

IInv == TypeOK /\ NoOverlap /\ HandleInv /\ BuiltInv /\ PipeInv

\* Two settings with the same fields are the same.
LEMMA SameSettings ==
    ASSUME NEW s \in Settings, NEW u \in Settings, s.size = u.size, s.rate = u.rate
    PROVE  s = u
BY DEF Settings

\* The initial states satisfy the invariant.
LEMMA InitInv == Init => IInv
<1>. SUFFICES ASSUME Init PROVE IInv
  OBVIOUS
<1>1. TypeOK
  <2>1. failures \in 0 .. MaxFailures
    BY VideoRunnerAssumption DEF Init
  <2>2. done \in BOOLEAN /\ up \in BOOLEAN /\ missed \in BOOLEAN
    BY DEF Init
  <2>. QED BY <2>1, <2>2 DEF Init, TypeOK
<1>. QED BY <1>1 DEF Init, IInv, NoOverlap, HandleInv, BuiltInv, PipeInv

\* Processes that die, and nothing else, keep the invariant.
LEMMA DyingInv ==
    ASSUME IInv, alive' \subseteq alive, signal' \in Processes \cup {none}, done' \in BOOLEAN, up' \in BOOLEAN,
           UNCHANGED <<config, runVars, videoCmd, captureProc, missed>>
    PROVE  IInv'
<1>1. TypeOK'
  BY DEF IInv, TypeOK, runVars
<1>. QED BY <1>1 DEF IInv, TypeOK, NoOverlap, HandleInv, BuiltInv, PipeInv, runVars

\* Every step keeps the invariant.
LEMMA NextInv == IInv /\ [Next]_vars => IInv'
<1>. SUFFICES ASSUME IInv, [Next]_vars PROVE IInv'
  OBVIOUS
<1>. USE VideoRunnerAssumption
<1>1. CASE UNCHANGED vars
  BY <1>1 DEF vars, runVars, IInv, TypeOK, NoOverlap, HandleInv, BuiltInv, PipeInv
<1>2. CASE Check
  <2>1. TypeOK'
    BY <1>2 DEF Check, IInv, TypeOK, Settings, Launching
  <2>2. runner' = "build" => built'.size = config'.size
    BY <1>2 DEF Check, IInv, TypeOK, Settings
  <2>. QED BY <1>2, <2>1, <2>2 DEF Check, IInv, NoOverlap, HandleInv, BuiltInv, PipeInv
<1>3. CASE Build
  <2>1. TypeOK' /\ built'.size = built.size /\ built'.rate = config.rate
    BY <1>3 DEF Build, IInv, TypeOK, Settings, Launching
  <2>2. ~missed => built' = config'
    BY <1>3, <2>1, SameSettings DEF Build, IInv, BuiltInv, TypeOK
  <2>. QED BY <1>3, <2>1, <2>2 DEF Build, IInv, NoOverlap, HandleInv, BuiltInv, PipeInv
<1>4. CASE Launch
  <2>1. TypeOK'
    BY <1>4 DEF Launch, IInv, TypeOK, Launching, ProcessesOf
  <2>. QED BY <1>4, <2>1 DEF Launch, IInv, NoOverlap, HandleInv, BuiltInv, PipeInv
<1>5. CASE LaunchFails
  <2>1. TypeOK'
    BY <1>5 DEF LaunchFails, IInv, TypeOK
  <2>. QED BY <1>5, <2>1 DEF LaunchFails, IInv, NoOverlap, HandleInv, BuiltInv, PipeInv
<1>6. CASE Register
  <2>1. TypeOK'
    BY <1>6 DEF Register, IInv, TypeOK, OutputOf, SignalledOf, Processes
  <2>. QED BY <1>6, <2>1 DEF Register, IInv, NoOverlap, HandleInv, BuiltInv, PipeInv
<1>7. CASE ReadEnds
  <2>1. TypeOK'
    BY <1>7 DEF ReadEnds, IInv, TypeOK
  <2>. QED BY <1>7, <2>1 DEF ReadEnds, IInv, NoOverlap, HandleInv, BuiltInv, PipeInv
<1>8. CASE WaitReturns
  <2>1. TypeOK'
    BY <1>8 DEF WaitReturns, IInv, TypeOK
  <2>2. alive' = {}
    BY <1>8 DEF WaitReturns, KillsAtEnd, IInv, TypeOK, ProcessesOf
  <2>. QED BY <1>8, <2>1, <2>2 DEF WaitReturns, IInv, NoOverlap, HandleInv, BuiltInv, PipeInv
<1>9. ASSUME NEW short \in BOOLEAN, CountRun(short) PROVE IInv'
  <2>1. alive = {} /\ runner' = "check"
    BY <1>9 DEF CountRun, GivesUp, IInv, NoOverlap
  <2>2. TypeOK'
    BY <1>9, <2>1 DEF CountRun, IInv, TypeOK, Methods
  <2>. QED BY <1>9, <2>1, <2>2 DEF CountRun, IInv, NoOverlap, HandleInv, BuiltInv, PipeInv
<1>10. ASSUME NEW s \in Settings, RestartVideo(s) PROVE IInv'
  <2>1. TypeOK'
    BY <1>10 DEF RestartVideo, IInv, TypeOK, runVars, OutputKilled
  <2>2. videoCmd' \notin alive'
    BY <1>10 DEF RestartVideo, OutputKilled
  <2>. QED BY <1>10, <2>1, <2>2
       DEF RestartVideo, OutputKilled, runVars, IInv, TypeOK, NoOverlap, HandleInv, BuiltInv, PipeInv, Launching
<1>11. CASE PickProcess
  BY <1>11, DyingInv DEF PickProcess, IInv, TypeOK
<1>12. CASE SignalIDR
  BY <1>12, DyingInv DEF SignalIDR, IInv, TypeOK
<1>13. CASE CancelContext
  BY <1>13, DyingInv DEF CancelContext, IInv, TypeOK
<1>14. CASE Stop
  BY <1>14, DyingInv DEF Stop, OutputKilled, IInv, TypeOK
<1>15. ASSUME NEW p \in Processes, Exit(p) PROVE IInv'
  BY <1>15, DyingInv DEF Exit, IInv, TypeOK
<1>16. CASE InputEnds
  BY <1>15, <1>16 DEF InputEnds, Processes
<1>17. CASE LaunchOutput
  <2>1. TypeOK'
    BY <1>17 DEF LaunchOutput, IInv, TypeOK, Launching, PipeInv, ProcessesOf
  <2>. QED BY <1>17, <2>1 DEF LaunchOutput, IInv, NoOverlap, HandleInv, BuiltInv, PipeInv
<1>18. CASE LaunchOutputFails
  <2>1. TypeOK'
    BY <1>18 DEF LaunchOutputFails, KilledAgain, IInv, TypeOK
  <2>. QED
    BY <1>18, <2>1
    DEF LaunchOutputFails, KilledAgain, IInv, NoOverlap, HandleInv, BuiltInv, PipeInv
<1>19. CASE EndServer
  BY <1>19, DyingInv DEF EndServer, IInv, TypeOK
<1>. QED
  BY <1>1, <1>2, <1>3, <1>4, <1>5, <1>6, <1>7, <1>8, <1>9, <1>10, <1>11, <1>12, <1>13,
     <1>14, <1>15, <1>16, <1>17, <1>18, <1>19
  DEF Next, Goroutines, ByThemselves, Run, GoesOn, Kill

\* The invariant holds throughout.
THEOREM RunnerInvariance == Spec => []IInv
<1>. QED BY InitInv, NextInv, PTL DEF Spec

\* The runner's state always has its types; no process outlives its pipeline's
\* method.
THEOREM RunnerTypes == Spec => []TypeOK
<1>1. IInv => TypeOK
  BY DEF IInv
<1>. QED BY <1>1, RunnerInvariance, PTL

\* Two runs never overlap: when a pipeline is built or launched, every process
\* of those before it is gone.
THEOREM RunsDoNotOverlap == Spec => []NoOverlap
<1>1. IInv => NoOverlap
  BY DEF IInv
<1>. QED BY <1>1, RunnerInvariance, PTL

\* New settings are in force in a pipeline that runs, unless they came while it
\* was being launched.
THEOREM SettingsMissedInLaunchOnly == Spec => []OnlyLaunchesMiss
<1>1. IInv => OnlyLaunchesMiss
  BY DEF IInv, BuiltInv, OnlyLaunchesMiss
<1>. QED BY <1>1, RunnerInvariance, PTL
=============================================================================
