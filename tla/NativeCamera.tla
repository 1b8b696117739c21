---------------------------- MODULE NativeCamera ----------------------------
(***************************************************************************)
(* One UVCCamera: the Java object                                          *)
(* (libausbc/src/main/java/com/jiangdg/uvc/UVCCamera.java), the C++ object *)
(* behind mNativePtr (jni/UVCCamera/UVCCamera.cpp, JniUVCCamera.cpp) and   *)
(* its preview (UVCPreviewJni.cpp).  Four threads meet in it: the one that *)
(* holds the Java lock, one operation at a time; one that calls            *)
(* setPreviewSize and one that calls startCapture or stopCapture, which    *)
(* take no lock; and the capture worker, which draws under preview_mutex.  *)
(*                                                                         *)
(* A device handle is named by the number of the connect that opened it, 0 *)
(* is NULL.  A call through a null pointer, or to a handle or an object    *)
(* that was freed, sets fault and ends the process.  The queue of frames   *)
(* of the worker is module UvcCapture's: here the worker finds a frame in  *)
(* it or does not, and then it waits, without another look at mIsRunning.  *)
(* The camera controls are not modelled: in this code every one of them is *)
(* commented out and returns an error.                                     *)
(***************************************************************************)
EXTENDS Integers, FiniteSets

CONSTANTS
  Windows,      (* native windows behind the surfaces of the application *)
  None,         (* no window                                             *)
  MaxOpens,     (* bound: calls of connect                               *)
  MaxRefs       (* bound: references to a window held at once            *)

ASSUME CameraConstants ==
  /\ None \notin Windows
  /\ MaxOpens \in Nat /\ MaxRefs \in Nat

VARIABLES
  ptr,            (* mNativePtr: "valid" or "null"                             *)
  block,          (* mCtrlBlock: the clone is "open", or "none"                *)
  caches,         (* the handle mControlSupports and mSupportedSize come from  *)
  op,             (* the operation of the thread that holds the Java lock      *)
  pc,             (* where it stands in it                                     *)
  cam,            (* the C++ object: mContext, mDevice, mDeviceHandle, mFd     *)
  out,            (* what the process has obtained and not given back          *)
  opened,         (* the number of handles opened so far                       *)
  previewHandle,  (* the device handle mPreview works on, 0: no mPreview and,  *)
                  (* as connect makes both, no mCameraConfig                   *)
  mask,           (* the handle mCtrlSupports of mCameraConfig comes from      *)
  window,         (* mPreviewWindow                                            *)
  refs,           (* references to each window that are not released           *)
  lost,           (* those of them nobody remembers                            *)
  running,        (* mIsRunning of the preview                                 *)
  worker,         (* the place of the capture thread                           *)
  drawn,          (* the window it has locked; preview_mutex is then taken     *)
  resizer,        (* the thread in setPreviewSize                              *)
  target,         (* the handle of the preview it works with                   *)
  capturer,       (* the thread in startCapture or stopCapture                 *)
  fault           (* which thread has touched what is not there                *)

java    == <<ptr, block, caches, op, pc>>
native  == <<cam, out, opened>>
preview == <<previewHandle, mask>>
display == <<window, refs, lost>>
capture == <<running, worker, drawn>>
unlocked == <<resizer, target, capturer>>
vars    == <<java, native, preview, display, capture, unlocked, fault>>

Operations == {"none", "open", "close", "destroy", "stopPreview"}
Steps      == {"idle", "stop", "signal", "join", "drop", "free", "clone", "connect", "delete"}
Places     == {"none", "negotiating", "listener", "looping", "taking", "asleep", "done"}
Outcomes   == {"ok", "no usb", "no uvc", "no device", "no open"}
Handles    == 1 .. MaxOpens

live(h)   == h \in out.handles
MutexFree == drawn = None
Idle      == pc = "idle" /\ ptr = "valid" /\ fault = "none"
At(step)  == pc = step /\ fault = "none"
Crash(thread) == fault' = thread

Init ==
  /\ ptr = "valid" /\ block = "none" /\ caches = 0
  /\ op = "none" /\ pc = "idle"
  /\ cam = [context |-> 0, device |-> 0, handle |-> 0, fd |-> 0]
  /\ out = [contexts |-> 0, devices |-> 0, handles |-> {}, fds |-> 0, lostContexts |-> 0]
  /\ opened = 0 /\ previewHandle = 0 /\ mask = 0
  /\ window = None
  /\ refs = [w \in Windows |-> 0] /\ lost = [w \in Windows |-> 0]
  /\ running = FALSE /\ worker = "none" /\ drawn = None
  /\ resizer = "out" /\ target = 0 /\ capturer = "out"
  /\ fault = "none"

-----------------------------------------------------------------------------
(* open, close, destroy and stopPreview, in the Java lock. *)

Begin(o) ==
  /\ Idle
  /\ o = "open" => opened < MaxOpens
  /\ op' = o /\ pc' = "stop"
  /\ UNCHANGED <<ptr, block, caches, native, preview, display, capture, unlocked, fault>>

AfterStop == IF op = "stopPreview" THEN "idle" ELSE "free"

(* Mutants of StopCapture: the worker is not told; nobody waits for it. *)
StopCaptureSilently ==
  /\ At("stop")
  /\ IF block = "open" /\ previewHandle = 0
     THEN Crash("caller") /\ UNCHANGED <<pc, running>>
     ELSE /\ pc' = IF previewHandle = 0 \/ (op = "stopPreview" /\ block = "none")
                   THEN AfterStop
                   ELSE IF running THEN "signal" ELSE "drop"
          /\ UNCHANGED <<running, fault>>
  /\ UNCHANGED <<ptr, block, caches, op, native, preview, display, worker, drawn, unlocked>>

StopCaptureDetached ==
  /\ At("stop")
  /\ IF block = "open" /\ previewHandle = 0
     THEN Crash("caller") /\ UNCHANGED <<pc, running>>
     ELSE /\ pc' = IF previewHandle = 0 THEN AfterStop ELSE "drop"
          /\ running' = FALSE
          /\ UNCHANGED fault
  /\ UNCHANGED <<ptr, block, caches, op, native, preview, display, worker, drawn, unlocked>>

(* stopPreview calls the preview when there is a block, without asking
   whether there is a preview; release, of the other operations, asks.  Both
   find the same worker, so the second call has nothing to do. *)
StopCapture ==
  /\ At("stop")
  /\ IF block = "open" /\ previewHandle = 0
     THEN Crash("caller") /\ UNCHANGED <<pc, running>>
     ELSE IF previewHandle = 0 \/ (op = "stopPreview" /\ block = "none")
     THEN pc' = AfterStop /\ UNCHANGED <<running, fault>>
     ELSE /\ pc' = IF running THEN "signal" ELSE "drop"
          /\ running' = FALSE
          /\ UNCHANGED fault
  /\ UNCHANGED <<ptr, block, caches, op, native, preview, display, worker, drawn, unlocked>>

(* The signal, without preview_mutex: it wakes a worker that waits by now. *)
SignalWorker ==
  /\ At("signal")
  /\ worker' = IF worker = "asleep" THEN "looping" ELSE worker
  /\ pc' = "join"
  /\ UNCHANGED <<ptr, block, caches, op, native, preview, display, running, drawn, unlocked, fault>>

(* The worker that goes to sleep after the signal is joined for ever. *)
JoinWorker ==
  /\ At("join") /\ worker \in {"none", "done"}
  /\ worker' = "none"
  /\ pc' = "drop"
  /\ UNCHANGED <<ptr, block, caches, op, native, preview, display, running, drawn, unlocked, fault>>

release(w) == [v \in Windows |-> IF v = w THEN refs[v] - 1 ELSE refs[v]]

(* clearDisplay, then the window is given back. *)
DropWindow ==
  /\ At("drop") /\ MutexFree
  /\ refs' = release(window)
  /\ window' = None
  /\ pc' = AfterStop
  /\ UNCHANGED <<ptr, block, caches, op, native, preview, lost, capture, unlocked, fault>>

(* Mutant of Free: the Java object keeps what it has cached. *)
FreeKeepingCaches ==
  /\ At("free")
  /\ cam' = [cam EXCEPT !.device = 0, !.handle = 0, !.fd = 0]
  /\ out' = [out EXCEPT !.devices = @ - cam.device, !.handles = @ \ {cam.handle}, !.fds = @ - cam.fd]
  /\ mask' = 0
  /\ block' = "none"
  /\ pc' = CASE op = "open" -> "clone" [] op = "destroy" -> "delete" [] OTHER -> "idle"
  /\ UNCHANGED <<ptr, caches, op, opened, previewHandle, display, capture, unlocked, fault>>

(* The rest of release, and of close.  mPreview and mCameraConfig stay. *)
Free ==
  /\ At("free")
  /\ cam' = [cam EXCEPT !.device = 0, !.handle = 0, !.fd = 0]
  /\ out' = [out EXCEPT !.devices = @ - cam.device, !.handles = @ \ {cam.handle}, !.fds = @ - cam.fd]
  /\ mask' = 0
  /\ block' = "none" /\ caches' = 0
  /\ pc' = CASE op = "open" -> "clone" [] op = "destroy" -> "delete" [] OTHER -> "idle"
  /\ UNCHANGED <<ptr, op, opened, previewHandle, display, capture, unlocked, fault>>

(* clone opens a second connection to the device, or throws. *)
CloneBlock(ok) ==
  /\ At("clone")
  /\ IF ok THEN block' = "open" /\ pc' = "connect"
           ELSE pc' = "idle" /\ UNCHANGED block
  /\ UNCHANGED <<ptr, caches, op, native, preview, display, capture, unlocked, fault>>

(* mContext is made by the first connect that gets so far. *)
MakeContext(outcome) ==
  \/ /\ cam.context = 1 \/ outcome = "no usb"
     /\ UNCHANGED <<cam, out>>
  \/ /\ cam.context = 0 /\ outcome = "no uvc"
     /\ out' = [out EXCEPT !.contexts = @ + 1, !.lostContexts = @ + 1]
     /\ UNCHANGED cam
  \/ /\ cam.context = 0 /\ outcome \notin {"no usb", "no uvc"}
     /\ cam' = [cam EXCEPT !.context = 1]
     /\ out' = [out EXCEPT !.contexts = @ + 1]

(* Mutant of ConnectFails: the descriptor stays open. *)
ConnectKeepingDescriptor(outcome) ==
  /\ At("connect") /\ outcome \notin {"ok", "no usb", "no uvc"}
  /\ cam' = [cam EXCEPT !.context = 1]
  /\ out' = [out EXCEPT !.contexts = IF cam.context = 1 THEN @ ELSE @ + 1, !.fds = @ + 1]
  /\ pc' = "idle" /\ mask' = 0
  /\ UNCHANGED <<ptr, block, caches, op, opened, previewHandle, display, capture, unlocked, fault>>

(* What a failed connect has obtained it gives back, but for the context of
   libusb when uvc_init fails.  open throws, and mCtrlBlock is still set. *)
ConnectFails(outcome) ==
  /\ At("connect") /\ outcome # "ok"
  /\ outcome \in {"no usb", "no uvc"} => cam.context = 0
  /\ MakeContext(outcome)
  /\ pc' = "idle"
  /\ mask' = IF outcome \in {"no usb", "no uvc"} THEN mask ELSE 0
  /\ UNCHANGED <<ptr, block, caches, op, opened, previewHandle, display, capture, unlocked, fault>>

(* The new preview replaces the old one, whose destructor gives its window
   back.  open then asks for the supported sizes. *)
ConnectSucceeds ==
  /\ At("connect") /\ opened < MaxOpens
  /\ LET h == opened + 1 IN
       /\ opened' = h
       /\ cam' = [context |-> 1, device |-> 1, handle |-> h, fd |-> 1]
       /\ out' = [out EXCEPT !.contexts = IF cam.context = 1 THEN @ ELSE @ + 1,
                             !.devices = @ + 1, !.handles = @ \cup {h}, !.fds = @ + 1]
       /\ previewHandle' = h /\ mask' = 0
       /\ caches' = IF caches = 0 THEN h ELSE caches
  /\ refs' = release(window) /\ window' = None
  /\ running' = FALSE
  /\ pc' = "idle"
  /\ UNCHANGED <<ptr, block, op, lost, worker, drawn, unlocked, fault>>

(* nativeDestroy: the destructor finds everything released but the context. *)
Delete ==
  /\ At("delete")
  /\ ptr' = "null"
  /\ cam' = [cam EXCEPT !.context = 0]
  /\ out' = [out EXCEPT !.contexts = @ - cam.context]
  /\ previewHandle' = 0 /\ mask' = 0
  /\ pc' = "idle"
  /\ UNCHANGED <<block, caches, op, opened, display, capture, unlocked, fault>>

Operate ==
  \/ StopCapture
  \/ SignalWorker
  \/ JoinWorker
  \/ DropWindow
  \/ Free
  \/ \E ok \in BOOLEAN : CloneBlock(ok)
  \/ \E outcome \in Outcomes : ConnectFails(outcome)
  \/ ConnectSucceeds
  \/ Delete

-----------------------------------------------------------------------------
(* The short operations in the Java lock. *)

(* startPreview asks for the block, not for the preview. *)
StartPreview ==
  /\ Idle /\ block = "open" /\ ~running
  /\ IF previewHandle = 0
     THEN Crash("caller") /\ UNCHANGED <<running, worker>>
     ELSE running' = TRUE /\ worker' = "negotiating" /\ UNCHANGED fault
  /\ UNCHANGED <<java, native, preview, display, drawn, unlocked>>

(* Mutant of SetPreviewDisplay: without preview_mutex. *)
SetPreviewDisplayUnlocked(w) ==
  /\ Idle /\ w # None => refs[w] < MaxRefs
  /\ previewHandle # 0 /\ w # window
  /\ window' = w
  /\ refs' = [v \in Windows |-> refs[v] + (IF v = w THEN 1 ELSE 0) - (IF v = window THEN 1 ELSE 0)]
  /\ UNCHANGED <<java, native, preview, lost, capture, unlocked, fault>>

(* ANativeWindow_fromSurface takes a reference for the preview to keep; with
   no preview, or with the window it has already, nobody keeps it. *)
SetPreviewDisplay(w) ==
  /\ Idle /\ MutexFree
  /\ w # None => refs[w] < MaxRefs
  /\ IF previewHandle = 0 \/ w = window
     THEN /\ refs' = [v \in Windows |-> IF v = w THEN refs[v] + 1 ELSE refs[v]]
          /\ lost' = [v \in Windows |-> IF v = w THEN lost[v] + 1 ELSE lost[v]]
          /\ UNCHANGED window
     ELSE /\ refs' = [v \in Windows |-> refs[v] + (IF v = w THEN 1 ELSE 0)
                                                - (IF v = window THEN 1 ELSE 0)]
          /\ window' = w
          /\ UNCHANGED lost
  /\ UNCHANGED <<java, native, preview, capture, unlocked, fault>>

(* updateCameraParams, which asks for the supported controls until it gets
   some.  There is no mCameraConfig before the first connect. *)
UpdateCameraParams(found) ==
  /\ Idle /\ (caches = 0 \/ mask = 0)
  /\ IF previewHandle = 0
     THEN Crash("caller") /\ UNCHANGED <<caches, mask>>
     ELSE /\ mask' = IF mask = 0 /\ found THEN cam.handle ELSE mask
          /\ caches' = IF caches = 0 THEN mask' ELSE caches
          /\ UNCHANGED fault
  /\ UNCHANGED <<ptr, block, op, pc, native, previewHandle, display, capture, unlocked>>

-----------------------------------------------------------------------------
(* The capture worker. *)

Touch(thread, h) == IF live(h) THEN UNCHANGED fault ELSE Crash(thread)

(* A negotiation that succeeds tells the listener of the size: onPrepared. *)
Negotiate(ok) ==
  /\ fault = "none" /\ worker = "negotiating"
  /\ worker' = IF ok THEN "listener" ELSE "done"
  /\ Touch("worker", previewHandle)
  /\ UNCHANGED <<java, native, preview, display, running, drawn, unlocked>>

(* draw_preview_rgb, or the geometry set by onPrepared: with preview_mutex. *)
LockWindow ==
  /\ fault = "none" /\ worker = "listener"
  /\ MutexFree /\ window # None
  /\ drawn' = window
  /\ UNCHANGED <<java, native, preview, display, running, worker, unlocked, fault>>

UnlockWindow ==
  /\ fault = "none" /\ drawn # None
  /\ drawn' = None /\ worker' = "looping"
  /\ UNCHANGED <<java, native, preview, display, running, unlocked, fault>>

(* No window, or a frame that cannot be converted or drawn. *)
DrawNothing ==
  /\ fault = "none" /\ worker = "listener" /\ MutexFree
  /\ worker' = "looping"
  /\ UNCHANGED <<java, native, preview, display, running, drawn, unlocked, fault>>

(* The test of the loop, in its two outcomes. *)
TestRunning ==
  /\ fault = "none" /\ worker = "looping" /\ running
  /\ worker' = "taking"
  /\ UNCHANGED <<java, native, preview, display, running, drawn, unlocked, fault>>

StopStreaming ==
  /\ fault = "none" /\ worker = "looping" /\ ~running
  /\ worker' = "done"
  /\ Touch("worker", previewHandle)
  /\ UNCHANGED <<java, native, preview, display, running, drawn, unlocked>>

(* The worker looks into the queue; if that is empty it waits, and if not it
   hands the frame on as long as it is to run. *)
WaitPreviewFrame(found) ==
  /\ fault = "none" /\ worker = "taking" /\ MutexFree
  /\ worker' = IF ~found THEN "asleep" ELSE IF running THEN "listener" ELSE "looping"
  /\ UNCHANGED <<java, native, preview, display, running, drawn, unlocked, fault>>

(* A wakeup by a frame, or one that is spurious. *)
WakeUp ==
  /\ fault = "none" /\ worker = "asleep" /\ MutexFree
  /\ worker' \in IF running THEN {"listener", "looping"} ELSE {"looping"}
  /\ UNCHANGED <<java, native, preview, display, running, drawn, unlocked, fault>>

(* What the worker does by itself: it does not wake up by itself. *)
Work ==
  \/ \E ok \in BOOLEAN : Negotiate(ok)
  \/ LockWindow
  \/ UnlockWindow
  \/ DrawNothing
  \/ TestRunning
  \/ StopStreaming
  \/ \E found \in BOOLEAN : WaitPreviewFrame(found)

-----------------------------------------------------------------------------
(* setPreviewSize is not synchronized: it reads mNativePtr, then the preview
   (whose shared pointer it holds), then asks the device. *)

EnterResize ==
  /\ fault = "none" /\ resizer = "out" /\ ptr = "valid"
  /\ resizer' = "entered"
  /\ UNCHANGED <<java, native, preview, display, capture, target, capturer, fault>>

LoadPreview ==
  /\ fault = "none" /\ resizer = "entered"
  /\ IF ptr = "null" \/ previewHandle = 0
     THEN Crash("resizer") /\ UNCHANGED unlocked
     ELSE resizer' = "inside" /\ target' = previewHandle /\ UNCHANGED <<capturer, fault>>
  /\ UNCHANGED <<java, native, preview, display, capture>>

(* The device is asked when the size is another than the one requested. *)
AskDevice(other) ==
  /\ fault = "none" /\ resizer = "inside"
  /\ resizer' = "out" /\ target' = 0
  /\ IF other THEN Touch("resizer", target) ELSE UNCHANGED fault
  /\ UNCHANGED <<java, native, preview, display, capture, capturer>>

(* Nor are startCapture(surface) and stopCapture: mCtrlBlock is tested, then
   mNativePtr is read. *)
StartCapture ==
  /\ fault = "none" /\ capturer = "out" /\ block = "open"
  /\ capturer' = "entered"
  /\ UNCHANGED <<java, native, preview, display, capture, resizer, target, fault>>

LoadCamera ==
  /\ fault = "none" /\ capturer = "entered"
  /\ capturer' = IF ptr = "valid" THEN "inside" ELSE "out"
  /\ UNCHANGED <<java, native, preview, display, capture, resizer, target, fault>>

(* ANativeWindow_fromSurface takes a reference before the object is asked for
   its preview.  The body of setCaptureDisplay is commented out, and with it
   whoever would keep the reference. *)
SetCaptureDisplay(w) ==
  /\ fault = "none" /\ capturer = "inside"
  /\ w # None => refs[w] < MaxRefs
  /\ refs' = [v \in Windows |-> IF v = w THEN refs[v] + 1 ELSE refs[v]]
  /\ lost' = [v \in Windows |-> IF v = w THEN lost[v] + 1 ELSE lost[v]]
  /\ capturer' = "out"
  /\ IF ptr = "null" THEN Crash("capturer") ELSE UNCHANGED fault
  /\ UNCHANGED <<java, native, preview, window, capture, resizer, target>>

-----------------------------------------------------------------------------
Next ==
  \/ \E o \in Operations \ {"none"} : Begin(o)
  \/ Operate
  \/ StartPreview
  \/ \E w \in Windows \cup {None} : SetPreviewDisplay(w)
  \/ \E found \in BOOLEAN : UpdateCameraParams(found)
  \/ Work
  \/ WakeUp
  \/ EnterResize
  \/ LoadPreview
  \/ \E other \in BOOLEAN : AskDevice(other)
  \/ StartCapture
  \/ LoadCamera
  \/ \E w \in Windows \cup {None} : SetCaptureDisplay(w)

Spec == Init /\ [][Next]_vars

(* Threads that run go on; when an application calls is its own affair, and
   a worker that waits may never be woken. *)
FairSpec == Spec /\ WF_vars(Operate) /\ WF_vars(Work)

-----------------------------------------------------------------------------
(* Every variable keeps its type. *)
TypeOK ==
  /\ ptr \in {"valid", "null"} /\ block \in {"none", "open"}
  /\ caches \in 0 .. MaxOpens
  /\ op \in Operations /\ pc \in Steps
  /\ cam \in [context : {0, 1}, device : {0, 1}, handle : 0 .. MaxOpens, fd : {0, 1}]
  /\ out \in [contexts : Nat, devices : Nat, handles : SUBSET Handles, fds : Nat, lostContexts : Nat]
  /\ opened \in 0 .. MaxOpens
  /\ previewHandle \in 0 .. MaxOpens /\ mask \in 0 .. MaxOpens
  /\ window \in Windows \cup {None}
  /\ refs \in [Windows -> Nat] /\ lost \in [Windows -> Nat]
  /\ running \in BOOLEAN
  /\ worker \in Places
  /\ drawn \in Windows \cup {None}
  /\ resizer \in {"out", "entered", "inside"} /\ target \in 0 .. MaxOpens
  /\ capturer \in {"out", "entered", "inside"}
  /\ fault \in {"none", "caller", "worker", "resizer", "capturer"}

(* The synchronized calls and the worker fail only while no camera is
   connected, and then only in the two states the code does not defend:
   after a connect that failed, which leaves mCtrlBlock set (startPreview and
   stopPreview, hence also close, destroy and a second open), or before the
   first connect (updateCameraParams).  While a camera is connected no order
   of calls touches a freed handle or a missing object. *)
SafeWhileConnected ==
  fault \in {"caller", "worker"} =>
    /\ cam.handle = 0
    /\ block = "open" \/ previewHandle = 0

(* A reference to a window is the one of mPreviewWindow or was lost by
   setPreviewDisplay or setCaptureDisplay: all other ways, the destructor
   included, give it back exactly once; and the window the worker has locked
   stays the preview's until it is unlocked, whatever setPreviewDisplay and a
   stop do meanwhile (UVCPreviewJni.cpp:29, 89, 98, 224). *)
WindowsAccounted ==
  /\ \A w \in Windows : refs[w] = lost[w] + (IF window = w THEN 1 ELSE 0)
  /\ drawn # None => drawn = window

(* What the process holds is what the object points to: no path through
   connect, with its five ways out, or release leaks a descriptor, a device
   or a handle, or gives one back twice; of the contexts only those of a
   failed uvc_init are lost (UVCCamera.cpp:76, 125). *)
ResourcesAccounted ==
  /\ out.fds = cam.fd
  /\ out.devices = cam.device
  /\ out.handles = {cam.handle} \ {0}
  /\ out.contexts = cam.context + out.lostContexts
  /\ ptr = "null" => cam = [context |-> 0, device |-> 0, handle |-> 0, fd |-> 0]

(* The sizes and controls the Java object has cached are those of the camera
   that is open now, never of the one before (UVCCamera.java:234, 889). *)
CachesAreOfThisCamera ==
  caches \in {0, cam.handle} /\ mask \in {0, cam.handle}

(* Operations on the camera go on returning until the process ends, and there
   is one way only for one of them to keep the Java lock for ever: it joins a
   worker that went to sleep after the signal it was sent, since that signal
   takes no preview_mutex and the wait does not look at mIsRunning
   (UVCPreviewBase.cpp:168-171, 249).  Neither the frames being drawn, nor a
   window being replaced, nor a connect that fails holds an operation up. *)
HangsOnlyInJoin ==
  \/ []<>(pc = "idle" \/ fault # "none")
  \/ <>[](pc = "join" /\ worker = "asleep")

=============================================================================
