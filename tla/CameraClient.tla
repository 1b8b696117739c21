---------------------------- MODULE CameraClient ----------------------------
(***************************************************************************)
(* One camera of the app: MultiCameraClient.ICamera and CameraUVC, driven  *)
(* by CameraFragment on the main thread.  Every openCamera starts a camera *)
(* thread of its own, which handles MSG_START_PREVIEW and MSG_STOP_PREVIEW *)
(* and shares the camera's fields, without a lock, with the main thread    *)
(* and with the camera threads that have not ended yet: nobody waits for   *)
(* an old one before a new one is started.                                 *)
(*                                                                         *)
(* A camera thread stands for what its start message made, too: its        *)
(* SettableFuture, its RenderManager and its UVCCamera.                    *)
(***************************************************************************)
EXTENDS Integers, Sequences, FiniteSets

CONSTANTS
  Threads,   (* the camera threads; bounds the calls of openCamera           *)
  Main,      (* the main thread                                              *)
  None,      (* null                                                         *)
  MaxEvents  (* bound: what the app, the user and the device do              *)

ASSUME ClientConstants ==
  /\ IsFiniteSet(Threads) /\ Main \notin Threads /\ None \notin Threads
  /\ MaxEvents \in Nat

VARIABLES
  thread, handler,   (* mCameraThread, mCameraHandler, as thread             *)
  uvcCamera,         (* mUvcCamera                                           *)
  renderManager,     (* mRenderManager                                       *)
  isPreviewed,       (* isPreviewed                                          *)
  ctrlBlock,         (* mCtrlBlock # null                                    *)
  queue,             (* the messages of each thread's looper                 *)
  quitting,          (* threads that were told to quit                       *)
  at,                (* what each thread does                                *)
  goesOn,            (* threads that go on after the close of a failed open  *)
  opening,           (* the thread that openCamera has started               *)
  render,            (* each thread's RenderManager                          *)
  cam,               (* each thread's UVCCamera                              *)
  posts,             (* the monitor's runnables, posted to the main thread   *)
  reopens,           (* delayed runnables of updateResolution                *)
  told,              (* the last state that was posted to the app, and of    *)
                     (* which thread: they are handled in the order posted   *)
  listed, current,   (* is the camera in mCameraMap, is it mCurrentCamera?   *)
  plugged,           (* is the device plugged in?                            *)
  mapped,            (* does USBMonitor's map hold the control block?        *)
  monitor,           (* "running", "leaving" (unRegisterMultiCamera has      *)
                     (* begun) or "destroyed"                                *)
  events,            (* what has happened                                    *)
  permitted,         (* has the app the CAMERA permission?                   *)
  stopped, overlap   (* history: threads that got a stop after their start,  *)
                     (* threads that lived at the same time as another       *)

pointers == <<thread, handler, opening>>
fields   == <<uvcCamera, renderManager, isPreviewed>>
objects  == <<render, cam>>
loopers  == <<queue, quitting>>
app      == <<ctrlBlock, listed, current, told>>
usb      == <<plugged, mapped, monitor>>
input    == <<events, posts, reopens, permitted>>
history  == <<stopped, overlap>>
vars     == <<pointers, fields, objects, loopers, app, usb, input, history,
              at, goesOn>>

Unused == {t \in Threads : at[t] = "new"}
Alive  == {t \in Threads : at[t] \notin {"new", "ended"}}
Taken  == {t \in Threads : cam[t] \in {"open", "streaming", "stuck"}}

(* A message to a looper that is quitting is dropped. *)
Send(h, m) ==
  queue' = IF h = None \/ h \in quitting THEN queue
           ELSE [queue EXCEPT ![h] = Append(@, m)]

Post(what)     == posts' = Append(posts, what)
Tell(state, t) == told' = <<state, t>>
Go(p, place)   == at' = [at EXCEPT ![p] = place]

(* One more thing that happens, while the app runs. *)
Event ==
  /\ at[Main] # "crashed" /\ events < MaxEvents
  /\ events' = events + 1

(* The main thread takes the next runnable. *)
TakePost(kinds) ==
  /\ at[Main] = "idle"
  /\ posts # <<>> /\ Head(posts) \in kinds
  /\ posts' = Tail(posts)

-----------------------------------------------------------------------------
(* openCamera, on the main thread: a new thread, its handler, the message. *)

OpenCamera(t) ==
  /\ at[Main] = "idle" /\ t \in Unused
  /\ thread' = t /\ opening' = t
  /\ at' = [at EXCEPT ![t] = "idle", ![Main] = "make handler"]
  /\ overlap' = IF Alive = {} THEN overlap ELSE overlap \cup Alive \cup {t}

(* The looper of a HandlerThread that has ended is null, and Handler throws: *)
(* the app crashes.  (A failing thread's closeCamera can quit the new one.)  *)
MakeHandler ==
  /\ at[Main] = "make handler"
  /\ \/ at[opening] # "ended" /\ handler' = opening /\ Go(Main, "send start")
     \/ at[opening] = "ended" /\ Go(Main, "crashed") /\ UNCHANGED handler
  /\ UNCHANGED <<thread, opening, fields, objects, loopers, app, usb, input,
                 history, goesOn>>

SendStart ==
  /\ at[Main] = "send start"
  /\ Send(handler, "start")
  /\ opening' = None
  /\ Go(Main, "idle")
  /\ UNCHANGED <<thread, handler, fields, objects, quitting, app, usb, input,
                 history, goesOn>>

-----------------------------------------------------------------------------
(* closeCamera, on the main thread or on a camera thread that has failed. *)

(* Mutant of SendStop: quitSafely comes first and the message is dropped. *)
SendStopTooLate(p) ==
  /\ at[p] = "stop"
  /\ Go(p, "quit")
  /\ UNCHANGED <<pointers, fields, objects, loopers, app, usb, input, history,
                 goesOn>>

SendStop(p) ==
  /\ at[p] = "stop"
  /\ Send(handler, "stop")
  /\ stopped' = stopped \cup ({handler} \ (quitting \cup {None, opening}))
  /\ Go(p, "quit")
  /\ UNCHANGED <<pointers, fields, objects, quitting, app, usb, input,
                 overlap, goesOn>>

QuitThread(p) ==
  /\ at[p] = "quit"
  /\ quitting' = quitting \cup ({thread} \ {None})
  /\ Go(p, "clear thread")
  /\ UNCHANGED <<pointers, fields, objects, queue, app, usb, input, history,
                 goesOn>>

ClearThread(p) ==
  /\ at[p] = "clear thread"
  /\ thread' = None
  /\ Go(p, "clear handler")
  /\ UNCHANGED <<handler, opening, fields, objects, loopers, app, usb, input,
                 history, goesOn>>

ClearHandler(p) ==
  /\ at[p] = "clear handler"
  /\ handler' = None
  /\ Go(p, IF p # Main THEN "report"
           ELSE IF monitor = "leaving" THEN "destroy" ELSE "idle")
  /\ UNCHANGED <<thread, opening, fields, objects, loopers, app, usb, input,
                 history, goesOn>>

CloseStep(p) ==
  SendStop(p) \/ QuitThread(p) \/ ClearThread(p) \/ ClearHandler(p)

-----------------------------------------------------------------------------
(* The app, on the main thread. *)

(* closeCamera of the fragment, as switchCamera calls it, too. *)
CloseCamera ==
  /\ Event
  /\ at[Main] = "idle" /\ current
  /\ Go(Main, "stop")
  /\ UNCHANGED <<pointers, fields, objects, loopers, app, usb, posts, reopens,
                 permitted, history, goesOn>>

(* The runnables that will start a thread; bounded by the threads there are. *)
Openers ==
  reopens + Cardinality({i \in 1..Len(posts) : posts[i] = "connect"})

UpdateResolution ==
  /\ Event
  /\ at[Main] = "idle" /\ current
  /\ Unused # Threads                 (* mCameraRequest is not null *)
  /\ Openers < Cardinality(Unused)
  /\ reopens' = reopens + 1
  /\ Go(Main, "stop")
  /\ UNCHANGED <<pointers, fields, objects, loopers, app, usb, posts,
                 permitted, history, goesOn>>

(* The delayed runnable of updateResolution, a second later. *)
Reopen(t) ==
  /\ reopens > 0
  /\ OpenCamera(t)
  /\ reopens' = reopens - 1
  /\ UNCHANGED <<handler, fields, objects, loopers, app, usb, events, posts,
                 permitted, stopped, goesOn>>

(* unRegisterMultiCamera: the cameras in the map are closed ... *)
UnRegister ==
  /\ Event
  /\ at[Main] = "idle" /\ monitor = "running"
  /\ monitor' = "leaving"
  /\ Go(Main, IF listed THEN "stop" ELSE "destroy")
  /\ UNCHANGED <<pointers, fields, objects, loopers, app, plugged, mapped,
                 posts, reopens, permitted, history, goesOn>>

(* ... the map is cleared, and the monitor closes its block and is gone.    *)
(* mCurrentCamera keeps the camera.                                         *)
DestroyMonitor ==
  /\ at[Main] = "destroy"
  /\ monitor' = "destroyed" /\ mapped' = FALSE
  /\ listed' = FALSE
  /\ IF mapped THEN Post("disconnect") ELSE UNCHANGED posts
  /\ Go(Main, "idle")
  /\ UNCHANGED <<pointers, fields, objects, loopers, ctrlBlock, current, told,
                 plugged, events, reopens, permitted, history, goesOn>>

(* onConnectDev: openCamera, whatever camera threads there are. *)
OnConnect(t) ==
  /\ TakePost({"connect"})
  /\ listed
  /\ OpenCamera(t)
  /\ ctrlBlock' = TRUE /\ current' = TRUE
  /\ UNCHANGED <<handler, fields, objects, loopers, listed, told, usb, events,
                 reopens, permitted, stopped, goesOn>>

(* The camera is not in the map any more. *)
OnConnectOfOther ==
  /\ TakePost({"connect"})
  /\ ~listed
  /\ UNCHANGED <<pointers, fields, objects, loopers, app, usb, events,
                 reopens, permitted, history, at, goesOn>>

(* onDisConnectDec closes mCurrentCamera. *)
OnDisconnect ==
  /\ TakePost({"disconnect"})
  /\ IF current THEN Go(Main, "stop") ELSE UNCHANGED at
  /\ UNCHANGED <<pointers, fields, objects, loopers, app, usb, events,
                 reopens, permitted, history, goesOn>>

(* onDetachDec: the camera leaves the map without its control block.        *)
OnDetach ==
  /\ TakePost({"detach"})
  /\ ctrlBlock' = (ctrlBlock /\ ~listed)
  /\ listed' = FALSE /\ current' = FALSE
  /\ UNCHANGED <<pointers, fields, objects, loopers, told, usb, events,
                 reopens, permitted, history, at, goesOn>>

(* onCancelDev: the camera is no longer the current one, open or not. *)
OnCancel ==
  /\ TakePost({"cancel"})
  /\ current' = FALSE
  /\ UNCHANGED <<pointers, fields, objects, loopers, ctrlBlock, listed, told,
                 usb, events, reopens, permitted, history, at, goesOn>>

-----------------------------------------------------------------------------
(* The monitor. *)

(* processConnect, after a request for permission: the device is opened, if *)
(* it is not in the map.                                                    *)
MonitorConnect ==
  /\ Event
  /\ monitor # "destroyed" /\ plugged
  /\ Openers < Cardinality(Unused)
  /\ mapped' = TRUE
  /\ Post("connect")
  /\ UNCHANGED <<pointers, fields, objects, loopers, app, plugged, monitor,
                 reopens, permitted, history, at, goesOn>>

(* The user refuses, or the device cannot be opened; bound: one refusal at a *)
(* time.                                                                    *)
MonitorCancel ==
  /\ Event
  /\ monitor # "destroyed"
  /\ \A i \in 1..Len(posts) : posts[i] # "cancel"
  /\ Post("cancel")
  /\ UNCHANGED <<pointers, fields, objects, loopers, app, usb, reopens,
                 permitted, history, at, goesOn>>

(* The device goes: a running monitor closes the block it has in its map,   *)
(* then it announces the detach.                                            *)
Unplug ==
  /\ Event
  /\ plugged
  /\ plugged' = FALSE
  /\ IF monitor = "destroyed" THEN UNCHANGED <<posts, mapped>>
     ELSE /\ posts' = posts \o (IF mapped THEN <<"disconnect", "detach">>
                                         ELSE <<"detach">>)
          /\ mapped' = FALSE
  /\ UNCHANGED <<pointers, fields, objects, loopers, app, monitor, reopens,
                 permitted, history, at, goesOn>>

-----------------------------------------------------------------------------
(* MSG_START_PREVIEW on a camera thread. *)

TakeMessage(t, m) ==
  /\ at[t] = "idle"
  /\ queue[t] # <<>> /\ Head(queue[t]) = m
  /\ queue' = [queue EXCEPT ![t] = Tail(@)]

(* Either straight to the camera, or through OpenGL. *)
Start(t) ==
  /\ TakeMessage(t, "start")
  /\ Go(t, "open") \/ Go(t, "measure")
  /\ UNCHANGED <<pointers, fields, objects, quitting, app, usb, input,
                 history, goesOn>>

(* Mutant of MakeRenderManager: get() without a timeout; only the current   *)
(* camera is ever told a size.                                              *)
MakeRenderManagerWhenSized(t) ==
  /\ at[t] = "measure" /\ current
  /\ renderManager' = t
  /\ Go(t, "render")
  /\ UNCHANGED <<pointers, uvcCamera, isPreviewed, objects, loopers, app, usb,
                 input, history, goesOn>>

(* The wait for a size is over: it was set, or 2 seconds have passed. *)
MakeRenderManager(t) ==
  /\ at[t] = "measure"
  /\ renderManager' = t
  /\ Go(t, "render")
  /\ UNCHANGED <<pointers, uvcCamera, isPreviewed, objects, loopers, app, usb,
                 input, history, goesOn>>

(* A failure: closeCamera on this thread, and the error is reported.  Only  *)
(* a failed open goes on after that.                                        *)
Fail(t) == Go(t, "stop") /\ UNCHANGED goesOn
FailAndGoOn(t) == Go(t, "stop") /\ goesOn' = goesOn \cup {t}

(* mRenderManager?.startRenderScreen, where the field may be null by now.   *)
(* The texture comes, or 3 seconds pass.                                    *)
StartRenderScreen(t) ==
  /\ at[t] = "render"
  /\ \/ /\ renderManager = None
        /\ Go(t, "idle") /\ UNCHANGED <<render, goesOn>>
     \/ /\ renderManager # None
        /\ render' = [render EXCEPT ![renderManager] = "running"]
        /\ \/ Go(t, "open") /\ UNCHANGED goesOn
           \/ Fail(t)
  /\ UNCHANGED <<pointers, fields, cam, loopers, app, usb, input, history>>

(* The CAMERA permission or the control block may be missing; then          *)
(* new UVCCamera().open(), which clones the control block.                  *)
OpenInternal(t) ==
  /\ at[t] = "open"
  /\ \/ ~(permitted /\ ctrlBlock) /\ Fail(t) /\ UNCHANGED <<uvcCamera, cam>>
     \/ /\ permitted /\ ctrlBlock /\ plugged
        /\ uvcCamera' = t
        /\ cam' = [cam EXCEPT ![t] = "open"]
        /\ Go(t, "configure") /\ UNCHANGED goesOn
     \/ /\ permitted /\ ctrlBlock
        /\ FailAndGoOn(t) /\ UNCHANGED <<uvcCamera, cam>>
  /\ UNCHANGED <<pointers, renderManager, isPreviewed, render, loopers, app,
                 usb, input, history>>

(* A camera whose destroy hangs keeps its lock. *)
Stuck == uvcCamera # None /\ cam[uvcCamera] = "stuck"

(* getSuitableSize and setPreviewSize, in one format or the other. *)
Configure(t) ==
  /\ at[t] = "configure"
  /\ \/ ~Stuck /\ uvcCamera # None /\ Go(t, "preview") /\ UNCHANGED goesOn
     \/ ~Stuck /\ Fail(t)
     \/ Stuck /\ Go(t, "hung") /\ UNCHANGED goesOn
  /\ UNCHANGED <<pointers, fields, objects, loopers, app, usb, input,
                 history>>

(* mUvcCamera?.startPreview(), which is synchronized. *)
StartPreview(t) ==
  /\ at[t] = "preview"
  /\ \/ Stuck /\ Go(t, "hung") /\ UNCHANGED cam
     \/ /\ ~Stuck
        /\ cam' = IF uvcCamera # None /\ cam[uvcCamera] = "open"
                  THEN [cam EXCEPT ![uvcCamera] = "streaming"] ELSE cam
        /\ Go(t, "announce")
  /\ UNCHANGED <<pointers, fields, render, loopers, app, usb, input, history,
                 goesOn>>

Announce(t) ==
  /\ at[t] = "announce"
  /\ isPreviewed' = TRUE
  /\ Tell("OPENED", t)
  /\ Go(t, "idle")
  /\ UNCHANGED <<pointers, uvcCamera, renderManager, objects, loopers,
                 ctrlBlock, listed, current, usb, input, history, goesOn>>

(* After closeCamera on this thread.  (The second format reports first.) *)
ReportError(t) ==
  /\ at[t] = "report"
  /\ Tell("ERROR", t)
  /\ Go(t, IF t \in goesOn THEN "configure" ELSE "idle")
  /\ goesOn' = goesOn \ {t}
  /\ UNCHANGED <<pointers, fields, objects, loopers, ctrlBlock, listed,
                 current, usb, input, history>>

-----------------------------------------------------------------------------
(* MSG_STOP_PREVIEW on a camera thread. *)

(* Mutant of Stop: the app is told nothing of a close. *)
StopSilently(t) ==
  /\ TakeMessage(t, "stop")
  /\ isPreviewed' = FALSE
  /\ Go(t, "destroy")
  /\ UNCHANGED <<pointers, uvcCamera, renderManager, objects, quitting, app,
                 usb, input, history, goesOn>>

Stop(t) ==
  /\ TakeMessage(t, "stop")
  /\ isPreviewed' = FALSE
  /\ Tell("CLOSED", t)
  /\ Go(t, "destroy")
  /\ UNCHANGED <<pointers, uvcCamera, renderManager, objects, quitting,
                 ctrlBlock, listed, current, usb, input, history, goesOn>>

(* Mutant of DestroyCamera: mUvcCamera is dropped and not destroyed. *)
DropCamera(t) ==
  /\ at[t] = "destroy"
  /\ Go(t, "drop")
  /\ UNCHANGED <<pointers, fields, objects, loopers, app, usb, input, history,
                 goesOn>>

(* UVCCamera.destroy stops the preview, whose join may never return, and    *)
(* closes the cloned block: USBMonitor drops the device's block from its    *)
(* map and its listener posts onDisConnectDec.                              *)
DestroyCamera(t) ==
  /\ at[t] = "destroy"
  /\ \/ /\ uvcCamera \notin Taken
        /\ Go(t, "drop")
        /\ UNCHANGED <<cam, mapped, posts>>
     \/ /\ uvcCamera \in Taken /\ ~Stuck
        /\ cam' = [cam EXCEPT ![uvcCamera] = "destroyed"]
        /\ mapped' = FALSE
        /\ Post("disconnect")
        /\ Go(t, "drop")
     \/ /\ uvcCamera \in Taken /\ cam[uvcCamera] # "open"
        /\ cam' = [cam EXCEPT ![uvcCamera] = "stuck"]
        /\ Go(t, "hung")
        /\ UNCHANGED <<mapped, posts>>
  /\ UNCHANGED <<pointers, fields, render, loopers, app, plugged, monitor,
                 events, reopens, permitted, history, goesOn>>

(* mUvcCamera = null *)
ClearCamera(t) ==
  /\ at[t] = "drop"
  /\ uvcCamera' = None
  /\ Go(t, "release")
  /\ UNCHANGED <<pointers, renderManager, isPreviewed, objects, loopers, app,
                 usb, input, history, goesOn>>

StopRenderScreen(t) ==
  /\ at[t] = "release"
  /\ render' = IF renderManager # None /\ render[renderManager] = "running"
               THEN [render EXCEPT ![renderManager] = "released"] ELSE render
  /\ Go(t, "clear renderer")
  /\ UNCHANGED <<pointers, fields, cam, loopers, app, usb, input, history,
                 goesOn>>

ClearRenderManager(t) ==
  /\ at[t] = "clear renderer"
  /\ renderManager' = None
  /\ Go(t, "idle")
  /\ UNCHANGED <<pointers, uvcCamera, isPreviewed, objects, loopers, app, usb,
                 input, history, goesOn>>

(* The looper has handled all it had when quitSafely was called. *)
EndThread(t) ==
  /\ at[t] = "idle"
  /\ t \in quitting /\ queue[t] = <<>>
  /\ Go(t, "ended")
  /\ UNCHANGED <<pointers, fields, objects, loopers, app, usb, input, history,
                 goesOn>>

-----------------------------------------------------------------------------
Init ==
  /\ thread = None /\ handler = None /\ opening = None
  /\ uvcCamera = None /\ renderManager = None
  /\ isPreviewed = FALSE /\ ctrlBlock = FALSE
  /\ queue = [t \in Threads |-> <<>>] /\ quitting = {} /\ goesOn = {}
  /\ at = [p \in Threads \cup {Main} |-> IF p = Main THEN "idle" ELSE "new"]
  /\ render = [t \in Threads |-> "none"] /\ cam = [t \in Threads |-> "none"]
  /\ posts = <<>> /\ reopens = 0 /\ told = <<"nothing", None>>
  /\ listed = TRUE /\ current = FALSE /\ permitted \in BOOLEAN
  /\ plugged = TRUE /\ mapped = FALSE /\ monitor = "running" /\ events = 0
  /\ stopped = {} /\ overlap = {}

(* What may happen, and what the main thread and the camera threads do when *)
(* there is something to do.                                                *)
Environment ==
  \/ CloseCamera \/ UpdateResolution \/ UnRegister
  \/ MonitorConnect \/ MonitorCancel \/ Unplug

MainStep ==
  \/ MakeHandler \/ SendStart \/ CloseStep(Main) \/ DestroyMonitor
  \/ OnConnectOfOther \/ OnDisconnect \/ OnDetach \/ OnCancel
  \/ \E t \in Threads : OnConnect(t) \/ Reopen(t)

StartStep(t) ==
  \/ Start(t) \/ MakeRenderManager(t) \/ StartRenderScreen(t)
  \/ OpenInternal(t) \/ Configure(t) \/ StartPreview(t) \/ Announce(t)
  \/ ReportError(t)

StopStep(t) ==
  \/ Stop(t) \/ DestroyCamera(t) \/ ClearCamera(t) \/ StopRenderScreen(t)
  \/ ClearRenderManager(t)

(* A crash of the main thread ends the camera threads, too. *)
ThreadStep(t) ==
  /\ at[Main] # "crashed"
  /\ StartStep(t) \/ CloseStep(t) \/ StopStep(t) \/ EndThread(t)

Next == Environment \/ MainStep \/ \E t \in Threads : ThreadStep(t)

Spec == Init /\ [][Next]_vars

(* Camera threads run whatever they are given; so does the main thread.     *)
FairSpec ==
  Spec /\ WF_vars(MainStep) /\ \A t \in Threads : WF_vars(ThreadStep(t))

-----------------------------------------------------------------------------
Places ==
  {"new", "idle", "measure", "render", "open", "configure",
   "preview", "announce", "stop", "quit", "clear thread", "clear handler",
   "report", "destroy", "drop", "release", "clear renderer", "hung", "ended",
   "make handler", "send start", "crashed"}

States == {"OPENED", "CLOSED", "ERROR"}

(* Every variable has its type. *)
TypeOK ==
  /\ {thread, handler, uvcCamera, renderManager, opening}
       \subseteq Threads \cup {None}
  /\ queue \in [Threads -> Seq({"start", "stop"})]
  /\ quitting \subseteq Threads /\ goesOn \subseteq Threads
  /\ at \in [Threads \cup {Main} -> Places]
  /\ render \in [Threads -> {"none", "running", "released"}]
  /\ cam \in [Threads -> {"none", "open", "streaming", "stuck", "destroyed"}]
  /\ posts \in Seq({"connect", "cancel", "disconnect", "detach"})
  /\ reopens \in Nat
  /\ told \in (States \X Threads) \cup {<<"nothing", None>>}
  /\ isPreviewed \in BOOLEAN /\ ctrlBlock \in BOOLEAN /\ permitted \in BOOLEAN
  /\ listed \in BOOLEAN /\ current \in BOOLEAN
  /\ plugged \in BOOLEAN /\ mapped \in BOOLEAN
  /\ monitor \in {"running", "leaving", "destroyed"}
  /\ events \in 0..MaxEvents
  /\ stopped \subseteq Threads /\ overlap \subseteq Threads

(* A session that no other session overlapped gives back what it took: when *)
(* its thread has ended its UVCCamera is destroyed, its renderer is released *)
(* and no field points to them, whatever failed and whoever closed it, and  *)
(* whatever earlier sessions have left behind.  Sessions that overlap have  *)
(* no such promise: IsCameraOpened.                                         *)
ClosedIsReleased ==
  \A t \in Threads \ overlap :
    at[t] = "ended" =>
      /\ t \notin Taken /\ render[t] # "running"
      /\ t \notin {uvcCamera, renderManager}

(* A camera thread that got a stop tells the app of the close after it told *)
(* it of the preview, overlapped or not: once it has ended, its OPENED is   *)
(* not the last that the app hears.                                         *)
AppKnowsItIsClosed ==
  \A t \in stopped : at[t] = "ended" => told # <<"OPENED", t>>

(* A camera thread that was told to quit ends, though its start message may *)
(* wait for a size and a texture that never come; only the join of a        *)
(* preview (UVCPreviewBase.cpp:170) or the end of the app keep it from it.  *)
QuitThreadsEnd ==
  \A t \in Threads :
    t \in quitting ~> at[t] \in {"ended", "hung"} \/ at[Main] = "crashed"

(* What isCameraOpened (MultiCameraClient.kt:379) is for: with nothing      *)
(* under way it is true if and only if a UVCCamera is open.  Sessions that  *)
(* overlap break it, and so no run checks it: as an invariant it makes TLC  *)
(* show how a camera stays open that no field points to.                    *)
IsCameraOpened ==
  at[Main] = "idle" /\ posts = <<>>
    /\ (\A t \in Alive : at[t] = "idle" /\ queue[t] = <<>>)
    => (isPreviewed <=> Taken # {})

-----------------------------------------------------------------------------
(* A session as the application sees it: one UVCCamera and one renderer at  *)
(* a time, the preview is announced only with a camera open, the camera is  *)
(* closed only after the close was announced, the renderer after the        *)
(* camera, and a thread ends only when both are given back.                 *)
Lease ==
  INSTANCE CameraLease WITH
    Holders  <- Threads,
    session  <- Alive # {},
    camera   <- Taken,
    renderer <- {t \in Threads : render[t] = "running"},
    shown    <- isPreviewed

(* The client keeps CameraLease as long as no two sessions have overlapped. *)
KeepsLease ==
  Lease!Init /\ [][overlap' # {} \/ Lease!Next \/ UNCHANGED Lease!vars]_vars

=============================================================================
