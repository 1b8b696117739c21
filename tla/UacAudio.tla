------------------------------ MODULE UacAudio ------------------------------
(***************************************************************************)
(* UACAudioHandler with its AudioThread and UACAudio                       *)
(* (libausbc/src/main/java/com/jiangdg/uac/UACAudioHandler.java): a        *)
(* thread with a looper that creates, starts, stops and releases the       *)
(* native audio engine, an owner that sends it messages (AudioStrategyUAC) *)
(* and threads that ask it for the sample rate, the channel count, the bit *)
(* resolution or the state, and sleep on mSync while there is no engine.   *)
(*                                                                         *)
(* The native library is not part of the repository: whether one of its    *)
(* calls fails is left open.  The lists of callbacks are left out.         *)
(***************************************************************************)
EXTENDS Integers, Sequences

CONSTANTS
  Timed,        (* threads that call getSampleRate, getAudioStatus or isRecording *)
  Untimed,      (* threads that call getChannelCount or getBitResolution: no time limit *)
  MaxMessages   (* bound: messages the owner sends                                *)

ASSUME AudioConstants == Timed \cap Untimed = {} /\ MaxMessages \in Nat

VARIABLES
  at,           (* what the audio thread does                              *)
  inbox,        (* the messages of its looper                              *)
  audio,        (* mUACAudio: the number of the object, 0 is null          *)
  created,      (* the number of UACAudio objects so far                   *)
  status,       (* mStatus of each UACAudio                                *)
  native,       (* the native engine behind each UACAudio                  *)
  owner,        (* what the thread that made the handler does              *)
  sent,         (* its calls so far                                        *)
  getter        (* where each thread that asks stands                      *)

thread == <<at, inbox>>
engine == <<audio, created, status, native>>
client == <<owner, sent>>
vars   == <<thread, engine, client, getter>>

Getters  == Timed \cup Untimed
Messages == {"init", "start", "stop", "release"}
Objects  == 1 .. MaxMessages

hasHandler == at \in {"loop", "releasing", "cleared", "quit"}
isReleased == at \in {"quit", "ended"}

(* Nobody is between the test of mUACAudio and its use, inside mSync. *)
LockFree == \A g \in Getters : getter[g] # "using"

notifyAll == getter' = [g \in Getters |->
  IF getter[g] = "waiting" THEN "notified" ELSE getter[g]]

Init ==
  /\ at = "unborn" /\ inbox = <<>>
  /\ audio = 0 /\ created = 0
  /\ status = [a \in Objects |-> "none"]
  /\ native = [a \in Objects |-> "none"]
  /\ owner = "new" /\ sent = 0
  /\ getter = [g \in Getters |-> "start"]

-----------------------------------------------------------------------------
(* The owner. *)

CreateHandler ==
  /\ owner = "new"
  /\ owner' = "asking" /\ at' = "born"
  /\ UNCHANGED <<inbox, engine, sent, getter>>

(* getHandler sleeps once, at most for 1.5 seconds. *)
TakeHandler ==
  /\ owner = "asking"
  /\ owner' = IF hasHandler THEN "ready" ELSE "none"
  /\ UNCHANGED <<thread, engine, sent, getter>>

(* The senders: checkReleased, then sendToTarget. *)
CheckReleased(m) ==
  /\ owner = "ready" /\ sent < MaxMessages /\ ~isReleased
  /\ owner' = m /\ sent' = sent + 1
  /\ UNCHANGED <<thread, engine, getter>>

SendToTarget ==
  /\ owner \in Messages
  /\ inbox' = IF isReleased THEN inbox ELSE Append(inbox, owner)
  /\ owner' = "ready"
  /\ UNCHANGED <<at, engine, sent, getter>>

-----------------------------------------------------------------------------
(* The audio thread. *)

(* run, up to the loop: the constructor is called by reflection. *)
Publish(made) ==
  /\ at = "born"
  /\ at' = IF made THEN "loop" ELSE "failed"
  /\ UNCHANGED <<inbox, engine, client, getter>>

Take(m) == at = "loop" /\ inbox # <<>> /\ Head(inbox) = m /\ inbox' = Tail(inbox)

(* Mutant of Recording: the status decides, not the engine. *)
RecordingByStatus == audio # 0 /\ status[audio] = "RUNNING"

Recording == audio # 0 /\ native[audio] = "recording"

(* mSync is held, but for the sleep of isRecording while there is no engine. *)
HandleInit(ok) ==
  /\ Take("init") /\ LockFree
  /\ IF Recording
     THEN UNCHANGED <<engine, getter>>
     ELSE /\ created' = created + 1 /\ audio' = created + 1
          /\ status' = [status EXCEPT ![created + 1] = IF ok THEN "CREATED" ELSE "ERROR"]
          /\ native' = [native EXCEPT ![created + 1] = IF ok THEN "ready" ELSE "none"]
          /\ notifyAll
  /\ UNCHANGED <<at, client>>

(* UACAudio.startRecording refuses only a released engine: one whose
   initialisation failed is asked to start, which the library may refuse. *)
HandleStart(ok) ==
  /\ Take("start")
  /\ IF audio = 0
     THEN UNCHANGED engine
     ELSE /\ ok => native[audio] # "none"
          /\ status' = [status EXCEPT ![audio] = IF ok THEN "RUNNING" ELSE "ERROR"]
          /\ native' = [native EXCEPT ![audio] = IF ok THEN "recording" ELSE @]
          /\ UNCHANGED <<audio, created>>
  /\ UNCHANGED <<at, client, getter>>

(* Mutant of StopRecording: it frees the engine. *)
StopFrees(ok) ==
  IF audio # 0 /\ status[audio] = "RUNNING" /\ ok
  THEN /\ status' = [status EXCEPT ![audio] = "STOPPED"]
       /\ native' = [native EXCEPT ![audio] = "freed"]
  ELSE UNCHANGED <<status, native>>

StopRecording(ok) ==
  IF audio # 0 /\ status[audio] = "RUNNING" /\ ok
  THEN /\ status' = [status EXCEPT ![audio] = "STOPPED"]
       /\ native' = [native EXCEPT ![audio] = "ready"]
  ELSE UNCHANGED <<status, native>>

HandleStop(ok) ==
  /\ Take("stop")
  /\ StopRecording(ok)
  /\ UNCHANGED <<at, audio, created, client, getter>>

(* Mutant of HandleRelease: an engine in ERROR is not released. *)
ReleaseRunning ==
  /\ Take("release")
  /\ at' = "releasing"
  /\ IF audio = 0 \/ status[audio] = "ERROR"
     THEN UNCHANGED <<status, native>>
     ELSE /\ status' = [status EXCEPT ![audio] = "RELEASED"]
          /\ native' = [native EXCEPT ![audio] = "freed"]
  /\ UNCHANGED <<audio, created, client, getter>>

(* handleReleaseAudioRecord up to UACAudio.release: it stops first, which
   leaves nothing that release does not overwrite. mSync is not held. *)
HandleRelease ==
  /\ Take("release")
  /\ at' = "releasing"
  /\ IF audio = 0
     THEN UNCHANGED <<status, native>>
     ELSE /\ status' = [status EXCEPT ![audio] = "RELEASED"]
          /\ native' = [native EXCEPT ![audio] = "freed"]
  /\ UNCHANGED <<audio, created, client, getter>>

ClearAudio ==
  /\ at = "releasing"
  /\ at' = "cleared" /\ audio' = 0
  /\ UNCHANGED <<inbox, created, status, native, client, getter>>

(* mIsReleased is set and the looper drops what is still in its queue. *)
Quit ==
  /\ at = "cleared"
  /\ at' = "quit" /\ inbox' = <<>>
  /\ UNCHANGED <<engine, client, getter>>

(* Mutant of EndThread: the last notifyAll is missing. *)
EndQuietly ==
  /\ at \in {"quit", "failed"} /\ LockFree
  /\ at' = "ended"
  /\ UNCHANGED <<inbox, engine, client, getter>>

(* The end of run. *)
EndThread ==
  /\ at \in {"quit", "failed"} /\ LockFree
  /\ at' = "ended"
  /\ notifyAll
  /\ UNCHANGED <<inbox, engine, client>>

-----------------------------------------------------------------------------
(* The threads that ask. *)

Move(g, from, to) ==
  /\ getter[g] = from
  /\ getter' = [getter EXCEPT ![g] = to]
  /\ UNCHANGED <<thread, engine, client>>

(* isReleased is read outside mSync. *)
Ask(g) == owner \in {"ready"} \cup Messages
          /\ Move(g, "start", IF isReleased THEN "done" ELSE "checked")

EnterSync(g) == LockFree /\ Move(g, "checked", IF audio = 0 THEN "waiting" ELSE "using")

TimeOut(g) == g \in Timed /\ Move(g, "waiting", "notified")

(* wait returns: an engine or -1. *)
WakeUp(g) == LockFree /\ Move(g, "notified", IF audio = 0 THEN "done" ELSE "using")

(* The engine's getter: mUACAudio is read again, and may be gone. *)
UseAudio(g) == Move(g, "using",
  IF audio # 0 /\ native[audio] # "freed" THEN "done" ELSE "failed")

-----------------------------------------------------------------------------
ThreadStep == \/ \E ok \in BOOLEAN : Publish(ok) \/ HandleInit(ok) \/ HandleStart(ok) \/ HandleStop(ok)
              \/ HandleRelease \/ ClearAudio \/ Quit \/ EndThread

GetterStep(g) == EnterSync(g) \/ WakeUp(g) \/ UseAudio(g)

Next ==
  \/ CreateHandler \/ TakeHandler \/ SendToTarget
  \/ \E m \in Messages : CheckReleased(m)
  \/ ThreadStep
  \/ \E g \in Getters : Ask(g) \/ TimeOut(g) \/ GetterStep(g)

Spec == Init /\ [][Next]_vars

(* The audio thread and the threads that ask keep running; a message whose
   sender has passed its check is sent.  Nobody has to call anything. *)
FairSpec == Spec /\ WF_vars(ThreadStep) /\ WF_vars(SendToTarget)
                 /\ \A g \in Getters : WF_vars(GetterStep(g))

-----------------------------------------------------------------------------
TypeOK ==
  /\ at \in {"unborn", "born", "failed", "loop", "releasing", "cleared", "quit", "ended"}
  /\ inbox \in Seq(Messages)
  /\ audio \in 0 .. created /\ created \in 0 .. MaxMessages
  /\ status \in [Objects -> {"none", "CREATED", "RUNNING", "STOPPED", "RELEASED", "ERROR"}]
  /\ native \in [Objects -> {"none", "ready", "recording", "freed"}]
  /\ owner \in {"new", "asking", "ready", "none"} \cup Messages
  /\ sent \in 0 .. MaxMessages
  /\ getter \in [Getters -> {"start", "checked", "waiting", "notified", "using", "done", "failed"}]

(* An engine that records is the one mUACAudio points to: initAudioRecord never
   replaces it, whatever its status says (handleInitAudioRecord asks the engine),
   and release leaves none behind. *)
NoRecordingLost == \A a \in Objects : native[a] = "recording" => audio = a

(* Nobody sleeps on mSync while there is an engine to ask. *)
SleepersHaveNoEngine == \A g \in Getters : getter[g] = "waiting" => audio = 0

(* A thread that fails in the middle of a question was overtaken by a release:
   before that, an engine found inside mSync stays there and stays usable. *)
OnlyReleaseDisturbs == \A g \in Getters :
  getter[g] = "failed" => at \in {"releasing", "cleared", "quit", "ended"}

(* A thread that sleeps without a time limit gets up once an initialisation is
   queued or the audio thread is on its way out. *)
SleepersGetUp == \A g \in Untimed :
  getter[g] = "waiting" /\ (at \in {"releasing", "cleared", "quit"}
                            \/ \E i \in DOMAIN inbox : inbox[i] = "init")
    ~> getter[g] # "waiting"

(* A release that was queued ends every recording, also one that a failed start
   has marked ERROR, and for good. *)
ReleaseSilences ==
  (\E i \in DOMAIN inbox : inbox[i] = "release")
    ~> [](\A a \in Objects : native[a] # "recording")

-----------------------------------------------------------------------------
(* The handler is an AudioRecorder: only the engine of mUACAudio records, it is
   replaced only while it is silent and silenced only by a stop or the release,
   and none records once the release has begun, though stop trusts a status
   that a failed start has set wrong. *)
Recorder ==
  INSTANCE AudioRecorder WITH
    Engines   <- Objects,
    NoEngine  <- 0,
    current   <- audio,
    recording <- {a \in Objects : native[a] = "recording"},
    closed    <- at \in {"releasing", "cleared", "quit", "ended"}

IsRecorder == Recorder!Spec

=============================================================================
