----------------------------- MODULE CaptureProofs -----------------------------
(***************************************************************************)
(* Proofs about Capture: it does with the video runner only what           *)
(* VideoRunner allows, so that what is proved there holds of the whole; an *)
(* audio process outlives the server only in the ways that                 *)
(* OnlyRacesLeaveAudio names; keyframes stand alone; types are kept.       *)
(***************************************************************************)
EXTENDS Capture, VideoRunnerProofs, SequenceTheorems

\* A step of Capture is one of the video runner, or leaves it alone.
LEMMA StepsOfRunner == [CaptureNext]_allVars => [Next]_vars
<1>. SUFFICES ASSUME [CaptureNext]_allVars PROVE [Next]_vars
  OBVIOUS
<1>1. CASE UNCHANGED allVars
  BY <1>1 DEF allVars, videoVars
<1>2. CASE RunVideo
  BY <1>2 DEF RunVideo, Next
<1>3. ASSUME NEW kind \in Kinds, ReadOther(kind) \/ ReadSlice(kind) PROVE UNCHANGED vars
  BY <1>3 DEF ReadOther, ReadSlice, videoVars
<1>4. CASE AudioGoroutines \/ AudioExit
  BY <1>4 DEF AudioGoroutines, Listen, CheckAudio, StartAudio, StartAudioFails, RegisterAudio,
              AudioWaitReturns, AudioExit, KillAudio, ReceiverEnds, videoVars
<1>5. CASE Cancel
  BY <1>5 DEF Cancel, Next
<1>6. CASE StopCapture
  BY <1>6 DEF StopCapture, Next
<1>7. CASE Return \/ Fatal
  BY <1>7 DEF Return, Fatal, End, Next
<1>. QED
  BY <1>1, <1>2, <1>3, <1>4, <1>5, <1>6, <1>7 DEF CaptureNext

\* Capture implements VideoRunner: samples, audio and the end of the server
\* take nothing from the runner and add nothing to it.
THEOREM CaptureRunsVideo == CaptureSpec => Spec
<1>1. CaptureInit => Init
  BY DEF CaptureInit
<1>. QED BY <1>1, StepsOfRunner, PTL DEF CaptureSpec, Spec

\* No process of a video run is left when the next pipeline is built, with
\* audio, samples and the end of the server beside it.
THEOREM NoOverlapInCapture == CaptureSpec => []NoOverlap
BY CaptureRunsVideo, RunsDoNotOverlap, PTL

\* New settings are in force in a running pipeline unless they came during
\* its launch, whatever else the server does.
THEOREM SettingsInCapture == CaptureSpec => []OnlyLaunchesMiss
BY CaptureRunsVideo, SettingsMissedInLaunchOnly, PTL

-----------------------------------------------------------------------------
\* The audio goroutine and its process: a process that runs was launched and
\* not waited for yet, and is registered while it is waited for; once Stop
\* has passed with no launch under way, there is none, and none will come.
AudioInv ==
    /\ audio \in {"off", "listen", "check", "start", "started", "waiting", "exited", "stopped"}
    /\ audioAlive \in BOOLEAN /\ audioCmd \in BOOLEAN
    /\ unseen \subseteq {"audio", "video"} /\ left \in BOOLEAN
    /\ main \in {"serving", "cancelled", "returning", "over", "fatal"}
    /\ audioAlive => audio \in {"started", "waiting"}
    /\ audio = "waiting" => audioCmd
    /\ main \in {"cancelled", "returning", "over"} => done
    /\ main = "returning" /\ "audio" \notin unseen => ~audioAlive /\ audio \notin {"start", "started"}
    /\ main \in {"serving", "cancelled", "returning"} => ~left
    /\ OnlyRacesLeaveAudio

LEMMA AudioInit == CaptureInit => AudioInv
BY DEF CaptureInit, AudioInv, OnlyRacesLeaveAudio

\* The context, once cancelled, stays so.
LEMMA DoneStays == done /\ [Next]_vars => done'
BY DEF Next, vars, Run, Check, Build, Launch, LaunchFails, Register, ReadEnds, WaitReturns,
       CountRun, RestartVideo, PickProcess, SignalIDR, CancelContext, Stop, Exit, InputEnds, Kill,
       Goroutines, ByThemselves, GoesOn, LaunchOutput, LaunchOutputFails, EndServer

\* Every step keeps the invariant.
LEMMA AudioNext == AudioInv /\ [CaptureNext]_allVars => AudioInv'
<1>. SUFFICES ASSUME AudioInv, [CaptureNext]_allVars PROVE AudioInv'
  OBVIOUS
<1>. USE DEF AudioInv, OnlyRacesLeaveAudio
<1>1. done => done'
  BY DoneStays, StepsOfRunner
<1>2. CASE UNCHANGED <<audioVars, mainVars>>
  BY <1>1, <1>2 DEF audioVars, mainVars
<1>3. ASSUME UNCHANGED <<main, unseen, left, done>>,
             \/ Listen \/ CheckAudio
             \/ StartAudio \/ StartAudioFails \/ RegisterAudio \/ AudioWaitReturns
             \/ AudioExit \/ ReceiverEnds
      PROVE  AudioInv'
  <2>1. CASE Listen
    BY <1>3, <2>1 DEF Listen
  <2>2. CASE CheckAudio /\ done
    BY <1>3, <2>2 DEF CheckAudio
  <2>3. CASE CheckAudio /\ ~done
    BY <1>3, <2>3 DEF CheckAudio
  <2>4. CASE StartAudio
    BY <1>3, <2>4 DEF StartAudio
  <2>5. CASE StartAudioFails
    BY <1>3, <2>5 DEF StartAudioFails
  <2>6. CASE RegisterAudio
    BY <1>3, <2>6 DEF RegisterAudio
  <2>7. CASE AudioWaitReturns
    BY <1>3, <2>7 DEF AudioWaitReturns, AfterProcess
  <2>8. CASE AudioExit
    BY <1>3, <2>8 DEF AudioExit
  <2>9. CASE ReceiverEnds
    BY <1>3, <2>9 DEF ReceiverEnds
  <2>. QED BY <1>3, <2>1, <2>2, <2>3, <2>4, <2>5, <2>6, <2>7, <2>8, <2>9
<1>4. CASE AudioGoroutines \/ AudioExit
  <2>1. UNCHANGED <<main, unseen, left, done>>
    BY <1>4 DEF AudioGoroutines, Listen, CheckAudio, StartAudio, StartAudioFails, RegisterAudio,
                AudioWaitReturns, AudioExit, KillAudio, ReceiverEnds, videoVars, vars, mainVars
  <2>. HIDE DEF AudioInv, OnlyRacesLeaveAudio
  <2>. QED BY <1>3, <1>4, <2>1 DEF AudioGoroutines, KillAudio
<1>5. CASE Cancel
  BY <1>5 DEF Cancel, CancelContext, audioVars
<1>6. CASE StopCapture
  <2>1. /\ main = "cancelled" /\ main' = "returning"
        /\ UNCHANGED <<audio, audioCmd, left>>
        /\ audioAlive' <=> audioAlive /\ ~audioCmd
        /\ "audio" \in unseen' <=> audio \in {"start", "started"}
    BY <1>6 DEF StopCapture, RegisteredKilled
  <2>2. audioAlive' \in BOOLEAN /\ unseen' \subseteq {"audio", "video"}
    BY <1>6 DEF StopCapture, RegisteredKilled
  <2>. QED BY <1>1, <2>1, <2>2
<1>7. CASE Return \/ Fatal
  <2>1. /\ main' \in {"over", "fatal"} /\ left' = audioAlive
        /\ main' = "over" => main = "returning"
        /\ UNCHANGED <<audio, audioAlive, audioCmd, unseen>>
    BY <1>7 DEF Return, Fatal, End, audioVars
  <2>. QED BY <1>1, <2>1
<1>8. CASE RunVideo
  BY <1>2, <1>8 DEF RunVideo
<1>9. ASSUME NEW kind \in Kinds, ReadOther(kind) \/ ReadSlice(kind) PROVE AudioInv'
  BY <1>2, <1>9 DEF ReadOther, ReadSlice
<1>10. CASE UNCHANGED allVars
  BY <1>2, <1>10 DEF allVars
<1>. QED
  BY <1>4, <1>5, <1>6, <1>7, <1>8, <1>9, <1>10 DEF CaptureNext

\* Only a launch that Stop came into, and log.Fatalf, leave an audio process
\* behind.
THEOREM AudioEndsWithServer == CaptureSpec => []OnlyRacesLeaveAudio
<1>1. AudioInv => OnlyRacesLeaveAudio
  BY DEF AudioInv
<1>. QED BY <1>1, AudioInit, AudioNext, PTL DEF CaptureSpec

-----------------------------------------------------------------------------
\* The types of what readH264Stream remembers.
NALTypes ==
    /\ wanted \in {"sps", "pps", "idr", "any"}
    /\ sps \in Seq(NALs) /\ pps \in Seq(NALs)
    /\ pendingNALs \in Seq(NALs) /\ sample \in Seq(NALs)
    /\ Len(sps) <= 1 /\ Len(pps) <= 1 /\ Len(pendingNALs) <= MaxPending

\* While it reads, what it remembers is of the run that it reads, and the
\* parameter sets are there before a keyframe may come.
OfThisRun ==
    runner = "reading" =>
        /\ sps \in {<<>>, <<nal("sps")>>} /\ pps \in {<<>>, <<nal("pps")>>}
        /\ wanted # "sps" => sps = <<nal("sps")>>
        /\ wanted \in {"idr", "any"} => pps = <<nal("pps")>>
        /\ \A n \in 1 .. Len(pendingNALs) : pendingNALs[n].of = built

SampleInv == NALTypes /\ OfThisRun /\ KeyframesStandAlone

LEMMA SampleInit == CaptureInit => SampleInv
BY CaptureAssumption
   DEF CaptureInit, Init, SampleInv, NALTypes, OfThisRun, KeyframesStandAlone

\* The encoder's settings are those it was built with as long as it is read.
LEMMA BuiltStays ==
    ASSUME [Next]_vars, ~Register, runner' = "reading"
    PROVE  runner = "reading" /\ built' = built
<1>1. CASE \/ Check \/ Build \/ Launch \/ LaunchFails \/ LaunchOutput \/ LaunchOutputFails
           \/ ReadEnds \/ WaitReturns
  BY <1>1 DEF Check, Build, Launch, LaunchFails, LaunchOutput, LaunchOutputFails, ReadEnds,
              WaitReturns
<1>2. ASSUME NEW short \in BOOLEAN, CountRun(short) PROVE FALSE
  BY <1>2 DEF CountRun
<1>3. ASSUME NEW settings \in Settings, RestartVideo(settings)
      PROVE  runner = "reading" /\ built' = built
  BY <1>3 DEF RestartVideo, runVars
<1>4. CASE PickProcess \/ SignalIDR \/ CancelContext \/ Stop \/ EndServer
  BY <1>4 DEF PickProcess, SignalIDR, CancelContext, Stop, EndServer, runVars
<1>5. CASE InputEnds \/ Kill \/ \E p \in Processes : Exit(p)
  BY <1>5 DEF InputEnds, Kill, Exit, runVars
<1>6. CASE UNCHANGED vars
  BY <1>6 DEF vars, runVars
<1>. QED
  BY <1>1, <1>2, <1>3, <1>4, <1>5, <1>6 DEF Next, Goroutines, ByThemselves, Run, GoesOn

\* Reading, audio, and the end of the server leave the runner alone.
LEMMA OthersKeepVideo ==
    /\ \A kind : ReadOther(kind) \/ ReadSlice(kind) => UNCHANGED vars
    /\ AudioGoroutines \/ AudioExit => UNCHANGED vars /\ UNCHANGED nalVars
    /\ Return \/ Fatal => UNCHANGED <<config, runVars>> /\ UNCHANGED nalVars
<1>1. \A kind : ReadOther(kind) \/ ReadSlice(kind) => UNCHANGED vars
  BY DEF ReadOther, ReadSlice, videoVars
<1>2. AudioGoroutines \/ AudioExit => UNCHANGED vars /\ UNCHANGED nalVars
  BY DEF AudioGoroutines, Listen, CheckAudio, StartAudio, StartAudioFails, RegisterAudio,
         AudioWaitReturns, AudioExit, KillAudio, ReceiverEnds, videoVars
<1>3. Return \/ Fatal => UNCHANGED <<config, runVars>> /\ UNCHANGED nalVars
  BY DEF Return, Fatal, End, EndServer
<1>. QED BY <1>1, <1>2, <1>3

\* A step that reads nothing keeps what is remembered, or a run begins.
LEMMA NoReading ==
    ASSUME SampleInv, [Next]_vars, ~Register, UNCHANGED nalVars
    PROVE  SampleInv'
<1>1. /\ wanted' = wanted /\ sps' = sps /\ pps' = pps
      /\ pendingNALs' = pendingNALs /\ sample' = sample
  BY DEF nalVars
<1>2. NALTypes' /\ KeyframesStandAlone'
  BY <1>1 DEF SampleInv, NALTypes, KeyframesStandAlone
<1>3. runner' = "reading" => runner = "reading" /\ built' = built
  BY BuiltStays
<1>4. OfThisRun'
  <2>. SUFFICES ASSUME runner' = "reading" PROVE OfThisRun'
    BY DEF OfThisRun
  <2>1. \A kind : nal(kind)' = nal(kind)
    BY <1>3 DEF nal
  <2>. QED BY <1>1, <1>3, <2>1 DEF SampleInv, OfThisRun
<1>. QED BY <1>2, <1>4 DEF SampleInv

LEMMA NewRun ==
    ASSUME SampleInv, BeginReading
    PROVE  SampleInv'
BY CaptureAssumption DEF SampleInv, NALTypes, OfThisRun, KeyframesStandAlone, BeginReading

LEMMA OtherRead ==
    ASSUME SampleInv, built \in Settings, NEW kind \in Kinds, ReadOther(kind)
    PROVE  SampleInv'
<1>. DEFINE u == nal(kind)
<1>1. u \in NALs /\ u.of = built /\ built' = built
  <2>1. built' = built
    BY OthersKeepVideo DEF vars, runVars
  <2>. QED BY <2>1 DEF nal, NALs
<1>2. /\ pendingNALs' \in Seq(NALs) /\ Len(pendingNALs') = Len(pendingNALs) + 1
      /\ \A n \in 1 .. Len(pendingNALs) : pendingNALs'[n] = pendingNALs[n]
      /\ pendingNALs'[Len(pendingNALs) + 1] = u
  <2>1. pendingNALs' = Append(pendingNALs, u)
    BY DEF ReadOther
  <2>. QED BY <1>1, <2>1, AppendProperties DEF SampleInv, NALTypes
<1>3. <<u>> \in Seq(NALs) /\ Len(<<u>>) = 1
  BY <1>1
<1>4. NALTypes'
  BY <1>2, <1>3, CaptureAssumption DEF SampleInv, NALTypes, ReadOther, Replaced
<1>5. OfThisRun'
  <2>1. \A n \in 1 .. Len(pendingNALs') : (pendingNALs'[n]).of = built'
    <3>1. \A n \in 1 .. Len(pendingNALs) : pendingNALs[n].of = built
      BY DEF SampleInv, OfThisRun, ReadOther, MayRead
    <3>2. Len(pendingNALs) \in Nat
      BY DEF SampleInv, NALTypes
    <3>. HIDE DEF u
    <3>3. ASSUME NEW n \in 1 .. Len(pendingNALs')
          PROVE  n \in 1 .. Len(pendingNALs) \/ n = Len(pendingNALs) + 1
      BY <1>2, <3>2
    <3>. QED BY <1>1, <1>2, <3>1, <3>3
  <2>2. runner = "reading" /\ runner' = runner
    BY OthersKeepVideo DEF ReadOther, MayRead, vars, runVars
  <2>3. CASE kind = "sps"
    BY <1>1, <2>1, <2>2, <2>3
       DEF SampleInv, NALTypes, OfThisRun, ReadOther, MayRead, Replaced, nal
  <2>4. CASE kind = "pps"
    BY <1>1, <2>1, <2>2, <2>4
       DEF SampleInv, NALTypes, OfThisRun, ReadOther, MayRead, Replaced, nal
  <2>5. CASE kind = "other"
    BY <1>1, <2>1, <2>2, <2>5
       DEF SampleInv, NALTypes, OfThisRun, ReadOther, MayRead, nal
  <2>. QED BY <2>3, <2>4, <2>5 DEF ReadOther
<1>6. KeyframesStandAlone'
  BY DEF SampleInv, KeyframesStandAlone, ReadOther
<1>. QED BY <1>4, <1>5, <1>6 DEF SampleInv

LEMMA SliceRead ==
    ASSUME SampleInv, built \in Settings, NEW kind \in Kinds, ReadSlice(kind)
    PROVE  SampleInv'
<1>. DEFINE u == nal(kind)
            sets == IF kind = "idr" THEN sps \o pps ELSE <<>>
            before == sets \o pendingNALs
<1>1. u \in NALs /\ u.of = built /\ u.kind = kind /\ built' = built
  <2>1. built' = built
    BY OthersKeepVideo DEF vars, runVars
  <2>. QED BY <2>1 DEF nal, NALs
<1>2. runner = "reading" /\ runner' = runner
  BY OthersKeepVideo DEF ReadSlice, MayRead, vars, runVars
<1>3. wanted \in {"idr", "any"}
  BY DEF ReadSlice, MayRead, SampleInv, NALTypes
<1>4. sps = <<nal("sps")>> /\ pps = <<nal("pps")>>
  BY <1>2, <1>3 DEF SampleInv, OfThisRun
<1>5. nal("sps") \in NALs /\ nal("pps") \in NALs
  BY DEF nal, NALs, Kinds
<1>6. /\ sets \in Seq(NALs)
      /\ kind = "idr" => Len(sets) = 2 /\ sets[1] = nal("sps") /\ sets[2] = nal("pps")
  <2>1. CASE kind = "idr"
    <3>. DEFINE a == <<nal("sps")>>
                b == <<nal("pps")>>
    <3>1. sets = a \o b
      BY <1>4, <2>1
    <3>2. /\ a \in Seq(NALs) /\ b \in Seq(NALs)
          /\ Len(a) = 1 /\ Len(b) = 1 /\ a[1] = nal("sps") /\ b[1] = nal("pps")
      BY <1>5
    <3>. HIDE DEF a, b, sets
    <3>3. /\ a \o b \in Seq(NALs) /\ Len(a \o b) = 1 + 1
          /\ \A n \in 1 .. 1 + 1 : (a \o b)[n] = IF n <= 1 THEN a[n] ELSE b[n - 1]
      BY <3>2, ConcatProperties
    <3>. QED BY <3>1, <3>2, <3>3
  <2>2. CASE kind # "idr"
    BY <2>2
  <2>. QED BY <2>1, <2>2
<1>7. /\ before \in Seq(NALs)
      /\ Len(before) = Len(sets) + Len(pendingNALs)
      /\ \A n \in 1 .. Len(sets) + Len(pendingNALs) :
            before[n] = IF n <= Len(sets) THEN sets[n] ELSE pendingNALs[n - Len(sets)]
  BY <1>6, ConcatProperties DEF SampleInv, NALTypes
<1>8. /\ sample' \in Seq(NALs)
      /\ Len(sample') = Len(before) + 1
      /\ \A n \in 1 .. Len(before) + 1 :
            sample'[n] = IF n <= Len(before) THEN before[n] ELSE <<u>>[n - Len(before)]
  <2>1. sample' = before \o <<u>>
    BY DEF ReadSlice, nal
  <2>2. <<u>> \in Seq(NALs) /\ Len(<<u>>) = 1
    BY <1>1
  <2>. HIDE DEF before, u
  <2>. QED BY <1>7, <2>1, <2>2, ConcatProperties
<1>9. NALTypes'
  BY <1>8, CaptureAssumption DEF SampleInv, NALTypes, ReadSlice
<1>10. OfThisRun'
  BY <1>1, <1>2, <1>4 DEF OfThisRun, ReadSlice, nal
<1>11. KeyframesStandAlone'
  <2>1. sample'[Len(sample')] = u
    BY <1>7, <1>8
  <2>2. CASE kind # "idr"
    BY <1>1, <2>1, <2>2 DEF KeyframesStandAlone
  <2>3. CASE kind = "idr"
    <3>. HIDE DEF u, sets, before
    <3>1. Len(pendingNALs) \in Nat
      BY DEF SampleInv, NALTypes
    <3>a. Len(sets) = 2
      BY <1>6, <2>3
    <3>b. Len(before) = 2 + Len(pendingNALs)
      BY <1>7, <3>a
    <3>2. sample'[1] = nal("sps") /\ sample'[2] = nal("pps")
      <4>1. Len(sets) = 2 /\ Len(before) = Len(pendingNALs) + 2
        BY <3>a, <3>b
      <4>2. before[1] = sets[1] /\ before[2] = sets[2]
        BY <1>7, <3>1, <4>1
      <4>3. sample'[1] = before[1] /\ sample'[2] = before[2]
        BY <1>8, <3>1, <4>1
      <4>. QED BY <1>6, <2>3, <4>2, <4>3
    <3>3. \A n \in 1 .. Len(pendingNALs) : pendingNALs[n].of = built
      BY <1>2 DEF SampleInv, OfThisRun
    <3>4. \A n \in 1 .. Len(sample') : (sample'[n]).of = built
      <4>. TAKE n \in 1 .. Len(sample')
      <4>1. CASE n = Len(sample')
        BY <1>1, <2>1, <4>1
      <4>2. CASE n \in {1, 2}
        BY <3>2, <4>2 DEF nal
      <4>3. CASE n > 2 /\ n <= Len(before)
        <5>1. Len(sets) = 2 /\ Len(before) = Len(pendingNALs) + 2
          BY <3>a, <3>b
        <5>2. n - 2 \in 1 .. Len(pendingNALs) /\ ~(n <= 2) /\ n \in 1 .. 2 + Len(pendingNALs)
          BY <3>1, <4>3, <5>1
        <5>3. sample'[n] = before[n]
          BY <1>8, <3>1, <4>3, <5>1, <5>2
        <5>4. before[n] = pendingNALs[n - 2]
          BY <1>7, <5>1, <5>2
        <5>. QED BY <3>3, <5>2, <5>3, <5>4
      <4>. QED BY <1>6, <1>7, <1>8, <2>3, <3>1, <4>1, <4>2, <4>3
    <3>5. DOMAIN sample' = 1 .. Len(sample')
      BY <1>8
    <3>. QED BY <1>1, <2>1, <3>2, <3>4, <3>5 DEF KeyframesStandAlone, nal
  <2>. QED BY <2>2, <2>3
<1>. QED BY <1>9, <1>10, <1>11 DEF SampleInv

\* Every step keeps the invariant.
LEMMA SampleNext == SampleInv /\ built \in Settings /\ [CaptureNext]_allVars => SampleInv'
<1>. SUFFICES ASSUME SampleInv, built \in Settings, [CaptureNext]_allVars PROVE SampleInv'
  OBVIOUS
<1>1. [Next]_vars
  BY StepsOfRunner
<1>2. CASE RunVideo
  <2>1. CASE Register
    BY <1>2, <2>1, NewRun DEF RunVideo
  <2>2. CASE ~Register
    BY <1>1, <1>2, <2>2, NoReading DEF RunVideo
  <2>. QED BY <2>1, <2>2
<1>3. ASSUME NEW kind \in Kinds, ReadOther(kind) \/ ReadSlice(kind) PROVE SampleInv'
  BY <1>3, OtherRead, SliceRead
<1>4. CASE UNCHANGED nalVars /\ UNCHANGED runner
  <2>1. ~Register
    BY <1>4 DEF Register
  <2>. QED BY <1>1, <1>4, <2>1, NoReading
<1>5. CASE AudioGoroutines \/ AudioExit
  <2>1. UNCHANGED vars /\ UNCHANGED nalVars
    BY <1>5, OthersKeepVideo
  <2>. QED BY <1>4, <2>1 DEF vars, runVars
<1>6. CASE Cancel \/ StopCapture \/ Return \/ Fatal
  <2>1. UNCHANGED nalVars /\ UNCHANGED runner
    BY <1>6, OthersKeepVideo DEF Cancel, CancelContext, StopCapture, Stop, runVars
  <2>. QED BY <1>4, <2>1
<1>7. CASE UNCHANGED allVars
  <2>1. UNCHANGED vars /\ UNCHANGED nalVars
    BY <1>7 DEF allVars, videoVars
  <2>. QED BY <1>4, <2>1 DEF vars, runVars
<1>. QED
  BY <1>2, <1>3, <1>5, <1>6, <1>7 DEF CaptureNext

\* A sample of a keyframe starts with the parameter sets of the encoder that
\* wrote all of it, for any number of units between two slices.
THEOREM KeyframesDecode == CaptureSpec => []KeyframesStandAlone
<1>1. SampleInv => KeyframesStandAlone
  BY DEF SampleInv
<1>2. TypeOK => built \in Settings
  BY DEF TypeOK
<1>. QED BY <1>1, <1>2, SampleInit, SampleNext, CaptureRunsVideo, RunnerTypes, PTL DEF CaptureSpec

-----------------------------------------------------------------------------
\* Once Stop has passed with no launch under way, the process whose output is
\* read is gone, and no other will be launched.
VideoEndInv ==
    /\ main \in {"cancelled", "returning", "over"} => done
    /\ main \in {"returning", "over"} /\ "video" \notin unseen =>
         OutputOf(method) \notin alive /\ runner \notin Launching

\* A step of the runner launches nothing that was not being launched.
LEMMA LaunchesEnd ==
    ASSUME IInv, [Next]_vars, done, OutputOf(method) \notin alive, runner \notin Launching
    PROVE  OutputOf(method') \notin alive' /\ runner' \notin Launching
<1>. USE DEF Launching
<1>1. CASE \/ Check \/ Build \/ Launch \/ LaunchFails \/ LaunchOutput \/ LaunchOutputFails
           \/ Register \/ ReadEnds \/ WaitReturns
  BY <1>1 DEF Check, Build, Launch, LaunchFails, LaunchOutput, LaunchOutputFails, Register,
              ReadEnds, WaitReturns
<1>2. ASSUME NEW short \in BOOLEAN, CountRun(short)
      PROVE  OutputOf(method') \notin alive' /\ runner' \notin Launching
  BY <1>2 DEF CountRun, GivesUp, IInv, NoOverlap
<1>3. CASE alive' \subseteq alive /\ UNCHANGED runVars
  BY <1>3 DEF runVars
<1>4. ASSUME NEW settings \in Settings, RestartVideo(settings)
      PROVE  alive' \subseteq alive /\ UNCHANGED runVars
  BY <1>4 DEF RestartVideo, OutputKilled
<1>5. CASE \/ PickProcess \/ SignalIDR \/ CancelContext \/ Stop \/ EndServer \/ InputEnds \/ Kill
           \/ \E p \in Processes : Exit(p)
  BY <1>3, <1>5 DEF PickProcess, SignalIDR, CancelContext, Stop, OutputKilled, EndServer,
                    InputEnds, Kill, Exit
<1>6. CASE UNCHANGED vars
  BY <1>3, <1>6 DEF vars
<1>. QED
  BY <1>1, <1>2, <1>3, <1>4, <1>5, <1>6 DEF Next, Goroutines, ByThemselves, Run, GoesOn

\* Every step keeps that.
LEMMA VideoEndNext == IInv /\ VideoEndInv /\ [CaptureNext]_allVars => VideoEndInv'
<1>. SUFFICES ASSUME IInv, VideoEndInv, [CaptureNext]_allVars PROVE VideoEndInv'
  OBVIOUS
<1>1. [Next]_vars /\ (done => done')
  BY DoneStays, StepsOfRunner
<1>2. CASE UNCHANGED <<main, unseen>>
  BY <1>1, <1>2, LaunchesEnd DEF VideoEndInv
<1>3. CASE Cancel
  BY <1>3 DEF Cancel, CancelContext, VideoEndInv
<1>4. CASE StopCapture
  <2>1. /\ main = "cancelled" /\ main' = "returning" /\ done
        /\ "video" \notin unseen' => runner \notin Launching
        /\ UNCHANGED <<runner, method>> /\ alive' = alive \ {videoCmd}
    BY <1>4 DEF StopCapture, Stop, OutputKilled, runVars, VideoEndInv
  <2>2. runner \notin Launching => OutputOf(method) \notin alive'
    BY <2>1 DEF IInv, TypeOK, NoOverlap, HandleInv, Launching
  <2>. QED BY <1>1, <2>1, <2>2 DEF VideoEndInv
<1>5. CASE Return \/ Fatal
  BY <1>5, OthersKeepVideo DEF Return, Fatal, End, EndServer, VideoEndInv, runVars
<1>6. CASE \/ RunVideo \/ AudioGoroutines \/ AudioExit \/ UNCHANGED allVars
           \/ \E kind \in Kinds : ReadOther(kind) \/ ReadSlice(kind)
  <2>1. UNCHANGED <<main, unseen>>
    BY <1>6 DEF RunVideo, AudioGoroutines, Listen, CheckAudio, StartAudio, StartAudioFails,
                RegisterAudio, AudioWaitReturns, AudioExit, KillAudio, ReceiverEnds,
                ReadOther, ReadSlice, mainVars, allVars
  <2>. QED BY <1>2, <2>1
<1>. QED BY <1>3, <1>4, <1>5, <1>6 DEF CaptureNext

\* Of the processes the server reads video from, main's Stop leaves only one
\* whose launch it came into.
THEOREM VideoEndsWithServer == CaptureSpec => []OnlyRacesLeaveVideo
<1>1. CaptureInit => VideoEndInv
  BY DEF CaptureInit, VideoEndInv
<1>2. VideoEndInv => OnlyRacesLeaveVideo
  BY DEF VideoEndInv, OnlyRacesLeaveVideo
<1>. QED
  BY <1>1, <1>2, VideoEndNext, CaptureRunsVideo, RunnerInvariance, PTL DEF CaptureSpec

-----------------------------------------------------------------------------
SocketTypes == socket \in BOOLEAN /\ receiver \in {"off", "reading", "stopped"}

LEMMA SocketNext == SocketTypes /\ [CaptureNext]_allVars => SocketTypes'
<1>. SUFFICES ASSUME SocketTypes, [CaptureNext]_allVars PROVE SocketTypes'
  OBVIOUS
<1>. USE DEF SocketTypes
<1>1. CASE UNCHANGED audioVars
  BY <1>1 DEF audioVars
<1>2. CASE RunVideo \/ UNCHANGED allVars
  BY <1>1, <1>2 DEF RunVideo, allVars
<1>3. ASSUME NEW kind \in Kinds, ReadOther(kind) \/ ReadSlice(kind) PROVE SocketTypes'
  BY <1>1, <1>3 DEF ReadOther, ReadSlice
<1>4. CASE Listen
  BY <1>4 DEF Listen
<1>5. CASE CheckAudio
  BY <1>5 DEF CheckAudio
<1>6. CASE ReceiverEnds
  BY <1>6 DEF ReceiverEnds
<1>7. CASE StartAudio \/ StartAudioFails \/ RegisterAudio \/ AudioWaitReturns \/ AudioExit \/ KillAudio
  BY <1>7 DEF StartAudio, StartAudioFails, RegisterAudio, AudioWaitReturns, AudioExit, KillAudio
<1>8. CASE StopCapture
  BY <1>8 DEF StopCapture
<1>9. CASE Cancel \/ Return \/ Fatal
  BY <1>1, <1>9 DEF Cancel, Return, Fatal, End
<1>. QED
  BY <1>2, <1>3, <1>4, <1>5, <1>6, <1>7, <1>8, <1>9 DEF CaptureNext, AudioGoroutines

\* The whole capture keeps its types, and never more than one parameter set
\* of a kind, for any settings and any number of units between two slices.
THEOREM CaptureTypes == CaptureSpec => []CaptureTypeOK
<1>1. CaptureInit => SocketTypes
  BY DEF CaptureInit, SocketTypes
<1>2. TypeOK => built \in Settings
  BY DEF TypeOK
<1>3. TypeOK /\ SampleInv /\ AudioInv /\ SocketTypes => CaptureTypeOK
  BY DEF CaptureTypeOK, SampleInv, NALTypes, AudioInv, SocketTypes
<1>. QED
  BY <1>1, <1>2, <1>3, SocketNext, SampleInit, SampleNext, AudioInit, AudioNext,
     CaptureRunsVideo, RunnerTypes, PTL DEF CaptureSpec
=============================================================================
