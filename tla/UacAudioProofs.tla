--------------------------- MODULE UacAudioProofs ---------------------------
(***************************************************************************)
(* What holds of UacAudio for every set of asking threads and every number *)
(* of messages.  The invariants of the runs are not inductive: that an     *)
(* initialisation always finds a fresh object needs the messages to be     *)
(* counted (CountInv), and that only a release disturbs a question needs   *)
(* what each position of the audio thread means for mUACAudio (PhaseInv)   *)
(* and what a thread inside mSync may rely on (UseInv).                    *)
(***************************************************************************)
EXTENDS UacAudio, TLAPS

AtRelease == at \in {"releasing", "cleared", "quit", "ended"}

CountInv == created + Len(inbox) + (IF owner \in Messages THEN 1 ELSE 0) <= sent

FreshInv == \A a \in Objects : a > created => native[a] = "none"

PhaseInv ==
  /\ owner = "new" => at = "unborn"
  /\ at \notin {"loop", "releasing"} => audio = 0
  /\ at = "loop" /\ audio # 0 => native[audio] # "freed"
  /\ at = "releasing" /\ audio # 0 => native[audio] = "freed"

UseInv == \A g \in Getters : getter[g] = "using" =>
  \/ AtRelease
  \/ at = "loop" /\ audio # 0

IInv ==
  /\ TypeOK /\ CountInv /\ FreshInv /\ PhaseInv /\ UseInv
  /\ NoRecordingLost /\ SleepersHaveNoEngine /\ OnlyReleaseDisturbs

-----------------------------------------------------------------------------
LEMMA InitInv == Init => IInv
BY AudioConstants DEF Init, IInv, TypeOK, CountInv, FreshInv, PhaseInv, UseInv,
       NoRecordingLost, SleepersHaveNoEngine, OnlyReleaseDisturbs, Objects, Messages

(* A step of the owner: it never touches the engine or a thread that asks. *)
LEMMA OwnerInv ==
  ASSUME IInv,
         CreateHandler \/ TakeHandler \/ SendToTarget \/ (\E m \in Messages : CheckReleased(m))
  PROVE  IInv'
<1> USE AudioConstants DEF IInv, TypeOK, CountInv, FreshInv, PhaseInv, UseInv, NoRecordingLost,
        SleepersHaveNoEngine, OnlyReleaseDisturbs, AtRelease, Messages, Objects, engine, thread
<1>1. CASE CreateHandler
  BY <1>1 DEF CreateHandler
<1>2. CASE TakeHandler
  BY <1>2 DEF TakeHandler
<1>3. CASE SendToTarget
  BY <1>3 DEF SendToTarget
<1>4. CASE \E m \in Messages : CheckReleased(m)
  BY <1>4 DEF CheckReleased
<1> QED
  BY <1>1, <1>2, <1>3, <1>4

(* The looper's queue when a message is taken. *)
LEMMA TakeMessage ==
  ASSUME TypeOK, NEW m \in Messages, Take(m)
  PROVE  /\ at = "loop"
         /\ inbox' \in Seq(Messages)
         /\ Len(inbox') = Len(inbox) - 1 /\ Len(inbox) \in Nat \ {0}
BY DEF TypeOK, Take

(* The initialisation: the object it takes is fresh, because every object
   stands for a message that was sent, and it wakes everybody who sleeps. *)
LEMMA HandleInitInv ==
  ASSUME IInv, NEW ok \in BOOLEAN, HandleInit(ok)
  PROVE  IInv'
<1> USE AudioConstants DEF IInv, CountInv, FreshInv, PhaseInv, UseInv, NoRecordingLost,
        SleepersHaveNoEngine, OnlyReleaseDisturbs, AtRelease, Objects
<1>1. /\ at = "loop" /\ at' = at /\ owner' = owner /\ sent' = sent
      /\ inbox' \in Seq(Messages) /\ Len(inbox') = Len(inbox) - 1
      /\ Len(inbox) \in Nat \ {0}
  BY TakeMessage, "init" \in Messages DEF HandleInit, TypeOK, client, Messages
<1>2. CASE Recording
  BY <1>1, <1>2 DEF HandleInit, TypeOK, engine, client
<1>3. CASE ~Recording
  <2>1. created + 1 \in Objects
    BY <1>1 DEF TypeOK
  <2>2. /\ created' = created + 1 /\ audio' = created + 1
        /\ status' = [status EXCEPT ![created + 1] = IF ok THEN "CREATED" ELSE "ERROR"]
        /\ native' = [native EXCEPT ![created + 1] = IF ok THEN "ready" ELSE "none"]
        /\ getter' = [g \in Getters |-> IF getter[g] = "waiting" THEN "notified" ELSE getter[g]]
    BY <1>3 DEF HandleInit, notifyAll
  <2>3. TypeOK'
    BY <1>1, <2>1, <2>2 DEF TypeOK
  <2>4. \A a \in Objects : native'[a] # "recording"
    BY <1>3, <2>1, <2>2 DEF TypeOK, Recording
  <2>5. (CountInv /\ FreshInv)'
    BY <1>1, <2>1, <2>2 DEF TypeOK
  <2>6. (PhaseInv /\ UseInv /\ SleepersHaveNoEngine /\ OnlyReleaseDisturbs)'
    BY <1>1, <2>1, <2>2 DEF TypeOK
  <2> QED
    BY <2>3, <2>4, <2>5, <2>6
<1> QED
  BY <1>2, <1>3

(* Start and stop leave the object in place and its engine in use. *)
LEMMA RecordingInv ==
  ASSUME IInv, NEW ok \in BOOLEAN, HandleStart(ok) \/ HandleStop(ok)
  PROVE  IInv'
<1> USE AudioConstants DEF IInv, CountInv, FreshInv, PhaseInv, UseInv, NoRecordingLost,
        SleepersHaveNoEngine, OnlyReleaseDisturbs, AtRelease, Objects
<1>1. ASSUME NEW m \in Messages, Take(m)
      PROVE  /\ at = "loop" /\ inbox' \in Seq(Messages)
             /\ Len(inbox') = Len(inbox) - 1 /\ Len(inbox) \in Nat \ {0}
  BY <1>1, TakeMessage
<1>2. "start" \in Messages /\ "stop" \in Messages
  BY DEF Messages
<1>3. CASE HandleStart(ok)
  <2>1. /\ at = "loop" /\ inbox' \in Seq(Messages)
        /\ Len(inbox') = Len(inbox) - 1 /\ Len(inbox) \in Nat \ {0}
    BY <1>1, <1>2, <1>3 DEF HandleStart
  <2>2. UNCHANGED <<at, owner, sent, created, audio, getter>>
    BY <1>3 DEF HandleStart, client, engine
  <2>3. CASE audio = 0
    BY <1>3, <2>1, <2>2, <2>3 DEF HandleStart, engine, TypeOK
  <2>4. CASE audio # 0
    <3>1. audio \in Objects /\ audio <= created
      BY <2>4 DEF TypeOK
    <3>2. /\ ok => native[audio] # "none"
          /\ status' = [status EXCEPT ![audio] = IF ok THEN "RUNNING" ELSE "ERROR"]
          /\ native' = [native EXCEPT ![audio] = IF ok THEN "recording" ELSE @]
      BY <1>3, <2>4 DEF HandleStart
    <3>3. TypeOK'
      BY <2>1, <2>2, <3>1, <3>2 DEF TypeOK
    <3>4. (CountInv /\ FreshInv /\ PhaseInv)'
      BY <2>1, <2>2, <3>1, <3>2 DEF TypeOK
    <3>5. (UseInv /\ NoRecordingLost /\ SleepersHaveNoEngine /\ OnlyReleaseDisturbs)'
      BY <2>1, <2>2, <3>1, <3>2 DEF TypeOK
    <3> QED
      BY <3>3, <3>4, <3>5
  <2> QED
    BY <2>3, <2>4
<1>4. CASE HandleStop(ok)
  <2>1. /\ at = "loop" /\ inbox' \in Seq(Messages)
        /\ Len(inbox') = Len(inbox) - 1 /\ Len(inbox) \in Nat \ {0}
    BY <1>1, <1>2, <1>4 DEF HandleStop
  <2>2. UNCHANGED <<at, owner, sent, created, audio, getter>>
    BY <1>4 DEF HandleStop, client
  <2>3. CASE audio # 0 /\ status[audio] = "RUNNING" /\ ok
    BY <1>4, <2>1, <2>2, <2>3 DEF HandleStop, StopRecording, TypeOK
  <2>4. CASE ~(audio # 0 /\ status[audio] = "RUNNING" /\ ok)
    <3>1. UNCHANGED <<status, native>>
      BY <1>4, <2>4 DEF HandleStop, StopRecording
    <3> QED
      BY <2>1, <2>2, <3>1 DEF TypeOK
  <2> QED
    BY <2>3, <2>4
<1> QED
  BY <1>3, <1>4

(* The release, step by step, the birth and the end of the thread. *)
LEMMA ReleaseInv ==
  ASSUME IInv,
         (\E made \in BOOLEAN : Publish(made)) \/ HandleRelease \/ ClearAudio \/ Quit \/ EndThread
  PROVE  IInv'
<1> USE AudioConstants DEF IInv, TypeOK, CountInv, FreshInv, PhaseInv, UseInv, NoRecordingLost,
        SleepersHaveNoEngine, OnlyReleaseDisturbs, AtRelease, Objects, engine, client
<1>1. CASE \E made \in BOOLEAN : Publish(made)
  BY <1>1 DEF Publish, Messages
<1>2. CASE HandleRelease
  <2>1. /\ at = "loop" /\ at' = "releasing" /\ inbox' \in Seq(Messages)
        /\ Len(inbox') = Len(inbox) - 1 /\ Len(inbox) \in Nat \ {0}
        /\ UNCHANGED <<audio, created, client, getter>>
    BY <1>2, TakeMessage, "release" \in Messages DEF HandleRelease, Messages
  <2>2. CASE audio = 0
    BY <1>2, <2>1, <2>2 DEF HandleRelease
  <2>3. CASE audio # 0
    <3>1. audio \in Objects /\ audio <= created
      BY <2>3
    <3>2. /\ status' = [status EXCEPT ![audio] = "RELEASED"]
          /\ native' = [native EXCEPT ![audio] = "freed"]
      BY <1>2, <2>3 DEF HandleRelease
    <3>3. TypeOK'
      BY <2>1, <3>1, <3>2
    <3>4. (CountInv /\ FreshInv /\ PhaseInv)'
      BY <2>1, <3>1, <3>2
    <3>5. (UseInv /\ NoRecordingLost /\ SleepersHaveNoEngine /\ OnlyReleaseDisturbs)'
      BY <2>1, <3>1, <3>2
    <3> QED
      BY <3>3, <3>4, <3>5
  <2> QED
    BY <2>2, <2>3
<1>3. CASE ClearAudio
  BY <1>3 DEF ClearAudio
<1>4. CASE Quit
  BY <1>4 DEF Quit
<1>5. CASE EndThread
  BY <1>5 DEF EndThread, notifyAll, LockFree
<1> QED
  BY <1>1, <1>2, <1>3, <1>4, <1>5

LEMMA GetterInv ==
  ASSUME IInv, NEW g \in Getters, Ask(g) \/ TimeOut(g) \/ GetterStep(g)
  PROVE  IInv'
<1> USE AudioConstants DEF IInv, TypeOK, CountInv, FreshInv, PhaseInv, UseInv, NoRecordingLost,
        SleepersHaveNoEngine, OnlyReleaseDisturbs, AtRelease, Objects, engine, client, thread, Move
<1>1. CASE Ask(g)
  BY <1>1 DEF Ask
<1>2. CASE TimeOut(g)
  BY <1>2 DEF TimeOut
<1>3. CASE EnterSync(g)
  BY <1>3 DEF EnterSync
<1>4. CASE WakeUp(g)
  BY <1>4 DEF WakeUp
<1>5. CASE UseAudio(g)
  BY <1>5 DEF UseAudio
<1> QED
  BY <1>1, <1>2, <1>3, <1>4, <1>5 DEF GetterStep

LEMMA NextInv == ASSUME IInv, [Next]_vars PROVE IInv'
<1>1. CASE UNCHANGED vars
  BY <1>1 DEF vars, thread, engine, client, IInv, TypeOK, CountInv, FreshInv, PhaseInv, UseInv,
     AtRelease, NoRecordingLost, SleepersHaveNoEngine, OnlyReleaseDisturbs
<1>2. CASE Next
  BY <1>2, OwnerInv, HandleInitInv, RecordingInv, ReleaseInv, GetterInv DEF Next, ThreadStep
<1> QED
  BY <1>1, <1>2

LEMMA Invariance == Spec => []IInv
<1>1. Init => IInv
  BY InitInv
<1>2. IInv /\ [Next]_vars => IInv'
  BY NextInv
<1> QED
  BY <1>1, <1>2, PTL DEF Spec

-----------------------------------------------------------------------------
(* Every variable keeps its type: an initialisation never runs out of objects. *)
THEOREM TypeCorrect == Spec => []TypeOK
<1>1. IInv => TypeOK
  BY DEF IInv
<1> QED
  BY <1>1, Invariance, PTL

(* handleInitAudioRecord and release never leave a recording engine behind. *)
THEOREM RecordingKept == Spec => []NoRecordingLost
<1>1. IInv => NoRecordingLost
  BY DEF IInv
<1> QED
  BY <1>1, Invariance, PTL

(* Nobody sleeps on mSync while there is an engine. *)
THEOREM SleepersWait == Spec => []SleepersHaveNoEngine
<1>1. IInv => SleepersHaveNoEngine
  BY DEF IInv
<1> QED
  BY <1>1, Invariance, PTL

(* A question fails only when a release has overtaken it. *)
THEOREM QuestionsAreSafe == Spec => []OnlyReleaseDisturbs
<1>1. IInv => OnlyReleaseDisturbs
  BY DEF IInv
<1> QED
  BY <1>1, Invariance, PTL

-----------------------------------------------------------------------------
(* The refinement of AudioRecorder: what records, in full. *)
Sounding == {a \in Objects : native[a] = "recording"}

LEMMA SoundingIs ==
  ASSUME IInv
  PROVE  /\ Sounding \subseteq {audio}
         /\ AtRelease => Sounding = {}
BY DEF IInv, TypeOK, NoRecordingLost, PhaseInv, Sounding, AtRelease, Objects

LEMMA RecorderMoves ==
  ASSUME \/ UNCHANGED <<audio, Sounding, AtRelease>>
         \/ ~AtRelease /\ ~AtRelease' /\ Sounding = {} /\ audio' \in Objects /\ UNCHANGED Sounding
         \/ /\ ~AtRelease /\ ~AtRelease' /\ Sounding = {} /\ audio # 0 /\ Sounding' = {audio}
            /\ UNCHANGED audio
         \/ Sounding # {} /\ Sounding' = {} /\ UNCHANGED <<audio, AtRelease>>
         \/ ~AtRelease /\ AtRelease' /\ Sounding' = {} /\ UNCHANGED audio
         \/ AtRelease /\ AtRelease' /\ audio' = 0 /\ UNCHANGED Sounding
  PROVE  [Recorder!Next]_(Recorder!vars)
BY DEF Recorder!Next, Recorder!vars, Recorder!Provide, Recorder!Start, Recorder!Stop,
       Recorder!Close, Recorder!Forget, Sounding, AtRelease

LEMMA RecorderStep ==
  ASSUME IInv, Next
  PROVE  [Recorder!Next]_(Recorder!vars)
<1>1. TypeOK /\ Sounding \subseteq {audio} /\ (AtRelease => Sounding = {})
  BY SoundingIs DEF IInv
<1>2. AtRelease' => Sounding' = {}
  <2>1. IInv'
    BY NextInv
  <2> QED
    BY <2>1 DEF IInv, TypeOK, NoRecordingLost, PhaseInv, Sounding, AtRelease, Objects
<1>3. CASE UNCHANGED <<audio, native, at>>
  BY <1>3, RecorderMoves DEF Sounding, AtRelease
<1>4. CASE \E ok \in BOOLEAN : HandleInit(ok)
  <2>1. CASE Recording
    <3>1. UNCHANGED <<audio, native, at>>
      BY <1>4, <2>1 DEF HandleInit, engine, client
    <3> QED
      BY <1>3, <3>1
  <2>2. CASE ~Recording
    <3>1. Sounding = {}
      BY <1>1, <2>2 DEF Recording, Sounding, Objects
    <3>2. /\ at' = at /\ \E v \in {"ready", "none"} : native' = [native EXCEPT ![created + 1] = v]
      BY <1>4, <2>2 DEF HandleInit
    <3>3. Sounding' = {}
      BY <1>1, <3>1, <3>2 DEF Sounding, TypeOK
    <3>4. audio' \in Objects
      <4>1. audio' = created + 1 /\ created' = created + 1
        BY <1>4, <2>2 DEF HandleInit
      <4>2. created' \in 0 .. MaxMessages
        BY NextInv DEF IInv, TypeOK
      <4> QED
        BY <1>1, <4>1, <4>2, AudioConstants DEF TypeOK, Objects
    <3>5. at = "loop"
      BY <1>4 DEF HandleInit, Take
    <3> QED
      BY <3>1, <3>2, <3>3, <3>4, <3>5, RecorderMoves DEF AtRelease
  <2> QED
    BY <2>1, <2>2
<1>5. CASE \E ok \in BOOLEAN : HandleStart(ok)
  <2>1. at' = at /\ at = "loop" /\ audio' = audio
    BY <1>5 DEF HandleStart, Take, engine
  <2>2. native' = native \/ (audio \in Objects /\ native' = [native EXCEPT ![audio] = "recording"])
    <3>1. CASE audio = 0
      BY <1>5, <3>1 DEF HandleStart, engine
    <3>2. CASE audio # 0
      <4>1. audio \in Objects
        BY <1>1, <3>2, AudioConstants DEF TypeOK, Objects
      <4>2. PICK ok \in BOOLEAN : native' = [native EXCEPT ![audio] = IF ok THEN "recording" ELSE @]
        BY <1>5, <3>2 DEF HandleStart
      <4>3. CASE ok
        BY <4>1, <4>2, <4>3
      <4>4. CASE ~ok
        BY <1>1, <4>1, <4>2, <4>4 DEF TypeOK
      <4> QED
        BY <4>3, <4>4
    <3> QED
      BY <3>1, <3>2
  <2>3. CASE audio \in Objects /\ native' = [native EXCEPT ![audio] = "recording"]
    <3>1. Sounding' = {audio}
      BY <1>1, <2>3 DEF Sounding, TypeOK
    <3>2. Sounding = {} \/ Sounding = {audio}
      BY <1>1
    <3>3. audio # 0
      BY <2>3 DEF Objects
    <3>4. CASE Sounding = {}
      BY <2>1, <3>1, <3>3, <3>4, RecorderMoves DEF AtRelease
    <3>5. CASE Sounding = {audio}
      BY <2>1, <3>1, <3>5, RecorderMoves DEF AtRelease
    <3> QED
      BY <3>2, <3>4, <3>5
  <2> QED
    BY <1>3, <2>1, <2>2, <2>3
<1>6. CASE \E ok \in BOOLEAN : HandleStop(ok)
  <2>1. at' = at /\ audio' = audio
    BY <1>6 DEF HandleStop
  <2>2. native' = native \/ (audio # 0 /\ native' = [native EXCEPT ![audio] = "ready"])
    BY <1>6 DEF HandleStop, StopRecording
  <2>3. CASE audio # 0 /\ native' = [native EXCEPT ![audio] = "ready"]
    <3>1. Sounding' = {}
      BY <1>1, <2>3 DEF Sounding, TypeOK, Objects
    <3>2. CASE Sounding = {}
      BY <2>1, <3>1, <3>2, RecorderMoves DEF AtRelease
    <3>3. CASE Sounding # {}
      BY <2>1, <3>1, <3>3, RecorderMoves DEF AtRelease
    <3> QED
      BY <3>2, <3>3
  <2> QED
    BY <1>3, <2>1, <2>2, <2>3
<1>7. CASE (\E made \in BOOLEAN : Publish(made)) \/ HandleRelease \/ ClearAudio \/ Quit \/ EndThread
  <2>1. CASE \E made \in BOOLEAN : Publish(made)
    BY <2>1, RecorderMoves DEF Publish, engine, Sounding, AtRelease
  <2>2. CASE HandleRelease
    <3>1. ~AtRelease /\ AtRelease' /\ audio' = audio
      BY <2>2 DEF HandleRelease, Take, AtRelease
    <3> QED
      BY <1>2, <3>1, RecorderMoves
  <2>3. CASE ClearAudio \/ Quit
    BY <2>3, RecorderMoves DEF ClearAudio, Quit, engine, Sounding, AtRelease
  <2>4. CASE EndThread
    <3>1. AtRelease' /\ native' = native /\ audio' = audio
      BY <2>4 DEF EndThread, engine, AtRelease
    <3>2. Sounding' = {}
      BY <1>2, <3>1
    <3>3. Sounding = {}
      BY <3>1, <3>2 DEF Sounding
    <3> QED
      BY <3>1, <3>2, <3>3, RecorderMoves
  <2> QED
    BY <1>7, <2>1, <2>2, <2>3, <2>4
<1>8. CASE CreateHandler
  BY <1>8, RecorderMoves DEF CreateHandler, engine, Sounding, AtRelease, IInv, PhaseInv
<1>9. CASE TakeHandler \/ SendToTarget \/ (\E m \in Messages : CheckReleased(m))
  BY <1>3, <1>9 DEF TakeHandler, SendToTarget, CheckReleased, thread, engine
<1>10. CASE \E g \in Getters : Ask(g) \/ TimeOut(g) \/ GetterStep(g)
  BY <1>3, <1>10 DEF Ask, TimeOut, GetterStep, EnterSync, WakeUp, UseAudio, Move, thread, engine
<1> QED
  BY <1>4, <1>5, <1>6, <1>7, <1>8, <1>9, <1>10 DEF Next, ThreadStep

(* Whatever its status says, the handler is a recorder: one engine at a time,
   the next only after a stop, and silence from the release on, for any number
   of messages in any order (UACAudio.java:59, UACAudioHandler.java:174-218). *)
THEOREM Refinement == Spec => IsRecorder
<1>1. Init => Recorder!Init
  BY DEF Init, Recorder!Init
<1>2. UNCHANGED vars => UNCHANGED Recorder!vars
  BY DEF vars, thread, engine, Recorder!vars
<1>3. IInv /\ [Next]_vars => [Recorder!Next]_(Recorder!vars)
  BY <1>2, RecorderStep
<1> QED
  BY <1>1, <1>3, Invariance, PTL DEF Spec, IsRecorder, Recorder!Spec

=============================================================================
