------------------------- MODULE NativeCameraProofs -------------------------
(***************************************************************************)
(* NativeCamera, for any windows and any number of connects: the types,    *)
(* the accounts of windows and resources, the caches, and that no call     *)
(* fails while a camera is connected.                                      *)
(***************************************************************************)
EXTENDS NativeCamera, TLAPS

CamType ==
  [context : {0, 1}, device : {0, 1}, handle : 0 .. MaxOpens, fd : {0, 1}]
OutType ==
  [contexts : Nat, devices : Nat, handles : SUBSET Handles, fds : Nat, lostContexts : Nat]

(* What release has done is done before the next camera is touched. *)
Released == pc \in {"free", "clone", "connect", "delete"}
Emptied  == pc \in {"clone", "connect", "delete"}

(* Where the operation stands, and what that says of the rest. *)
OperationInv ==
  /\ pc # "idle" => ptr = "valid"
  /\ Released => window = None /\ worker = "none" /\ ~running /\ drawn = None
  /\ Emptied => cam.device = 0 /\ cam.handle = 0 /\ cam.fd = 0 /\ caches = 0
  /\ pc = "connect" => block = "open"
  /\ pc \in {"signal", "join", "drop"} => ~running

(* The preview belongs to the last connect, the worker to a preview with a
   block, and preview_mutex to the worker. *)
PreviewInv ==
  /\ previewHandle = 0 => window = None /\ ~running /\ worker = "none"
  /\ cam.handle # 0 => previewHandle = cam.handle /\ block = "open"
  /\ cam.handle <= opened
  /\ worker # "none" => block = "open" /\ (running \/ pc \in {"signal", "join"})
  /\ running => worker # "none"
  /\ drawn # None => worker = "listener" /\ drawn = window

IInv ==
  /\ TypeOK
  /\ OperationInv
  /\ PreviewInv
  /\ WindowsAccounted
  /\ ResourcesAccounted
  /\ CachesAreOfThisCamera
  /\ SafeWhileConnected

-----------------------------------------------------------------------------
LEMMA InitInv == Init => IInv
<1> SUFFICES ASSUME Init PROVE IInv
  OBVIOUS
<1>1. cam \in [context : {0, 1}, device : {0, 1}, handle : 0 .. MaxOpens, fd : {0, 1}]
  BY CameraConstants DEF Init
<1>2. out \in [contexts : Nat, devices : Nat, handles : SUBSET Handles, fds : Nat, lostContexts : Nat]
  BY DEF Init
<1>3. refs \in [Windows -> Nat] /\ lost \in [Windows -> Nat]
  BY DEF Init
<1>4. TypeOK
  BY <1>1, <1>2, <1>3, CameraConstants DEF Init, TypeOK, Operations, Steps, Places
<1>5. OperationInv /\ PreviewInv
  BY DEF Init, OperationInv, PreviewInv, Released, Emptied
<1>6. WindowsAccounted
  BY CameraConstants DEF Init, WindowsAccounted
<1>7. ResourcesAccounted /\ CachesAreOfThisCamera /\ SafeWhileConnected
  BY DEF Init, ResourcesAccounted, CachesAreOfThisCamera, SafeWhileConnected
<1> QED
  BY <1>4, <1>5, <1>6, <1>7 DEF IInv

(* The two records in full, from which a changed one is known in full too. *)
LEMMA Records ==
  ASSUME IInv
  PROVE  /\ cam = [context |-> cam.context, device |-> cam.device, handle |-> cam.handle,
                   fd |-> cam.fd]
         /\ out = [contexts |-> out.contexts, devices |-> out.devices,
                   handles |-> out.handles, fds |-> out.fds,
                   lostContexts |-> out.lostContexts]
         /\ cam.context \in {0, 1} /\ out.contexts \in Nat /\ out.lostContexts \in Nat
BY DEF IInv, TypeOK

(* What Free leaves behind: nothing but the context. *)
LEMMA FreeKeepsContext ==
  ASSUME IInv, Free
  PROVE  /\ cam' \in CamType /\ out' \in OutType
         /\ cam'.context = cam.context /\ cam'.device = 0 /\ cam'.handle = 0 /\ cam'.fd = 0
         /\ out'.contexts = out.contexts /\ out'.devices = 0 /\ out'.handles = {}
         /\ out'.fds = 0 /\ out'.lostContexts = out.lostContexts
<1>1. cam' = [context |-> cam.context, device |-> 0, handle |-> 0, fd |-> 0]
  BY Records DEF Free
<1>2. out' = [contexts |-> out.contexts, devices |-> 0, handles |-> {}, fds |-> 0,
              lostContexts |-> out.lostContexts]
  <2>1. out.devices - cam.device = 0 /\ out.fds - cam.fd = 0 /\ out.handles \ {cam.handle} = {}
    BY DEF IInv, TypeOK, ResourcesAccounted
  <2>2. out' = [out EXCEPT !.devices = out.devices - cam.device,
                           !.handles = out.handles \ {cam.handle}, !.fds = out.fds - cam.fd]
    BY DEF Free
  <2> QED
    BY Records, <2>1, <2>2
<1>3. cam' \in CamType /\ out' \in OutType
  BY Records, <1>1, <1>2, CameraConstants DEF CamType, OutType
<1> QED
  BY <1>1, <1>2, <1>3

(* What a connect that failed leaves behind: perhaps one more context, known
   to the object or lost. *)
LEMMA FailedConnect ==
  ASSUME IInv, NEW outcome \in Outcomes, ConnectFails(outcome)
  PROVE  /\ cam' \in CamType /\ out' \in OutType
         /\ cam'.device = 0 /\ cam'.handle = 0 /\ cam'.fd = 0
         /\ out'.devices = 0 /\ out'.handles = {} /\ out'.fds = 0
         /\ out'.contexts = cam'.context + out'.lostContexts
<1> DEFINE Cam(c)    == [context |-> c, device |-> 0, handle |-> 0, fd |-> 0]
           Out(n, l) == [contexts |-> n, devices |-> 0, handles |-> {}, fds |-> 0,
                         lostContexts |-> l]
<1>1. /\ cam = Cam(cam.context) /\ out = Out(out.contexts, out.lostContexts)
      /\ out.contexts = cam.context + out.lostContexts
  BY Records DEF IInv, ResourcesAccounted, OperationInv, Emptied, ConnectFails, At
<1>2. SUFFICES \E c \in {0, 1}, l \in Nat : cam' = Cam(c) /\ out' = Out(c + l, l)
  <2>1. PICK c \in {0, 1}, l \in Nat : cam' = Cam(c) /\ out' = Out(c + l, l)
    BY <1>2
  <2>2. cam' \in CamType /\ out' \in OutType
    BY <2>1, CameraConstants DEF CamType, OutType
  <2> QED
    BY <2>1, <2>2
<1>3. CASE cam' = cam /\ out' = out
  BY <1>1, <1>3, Records
<1>4. CASE /\ cam.context = 0 /\ cam' = cam
           /\ out' = [out EXCEPT !.contexts = out.contexts + 1,
                                 !.lostContexts = out.lostContexts + 1]
  <2>1. out.contexts + 1 = 0 + (out.lostContexts + 1) /\ out.lostContexts + 1 \in Nat
    BY <1>1, <1>4, Records
  <2>2. out' = Out(out.contexts + 1, out.lostContexts + 1)
    <3>1. out' = [contexts |-> out.contexts + 1, devices |-> out.devices,
                  handles |-> out.handles, fds |-> out.fds,
                  lostContexts |-> out.lostContexts + 1]
      BY <1>4, Records
    <3>2. out.devices = 0 /\ out.handles = {} /\ out.fds = 0
      BY <1>1
    <3> QED
      BY <3>1, <3>2
  <2>3. cam' = Cam(0) /\ out' = Out(0 + (out.lostContexts + 1), out.lostContexts + 1)
    BY <1>1, <1>4, <2>1, <2>2
  <2> HIDE DEF Cam, Out
  <2> QED
    BY <2>1, <2>3
<1>5. CASE /\ cam.context = 0 /\ cam' = [cam EXCEPT !.context = 1]
           /\ out' = [out EXCEPT !.contexts = out.contexts + 1]
  <2>1. out.contexts + 1 = 1 + out.lostContexts
    BY <1>1, <1>5, Records
  <2>2. out' = Out(out.contexts + 1, out.lostContexts)
    BY <1>1, <1>5
  <2>3. cam' = Cam(1)
    BY <1>1, <1>5
  <2> HIDE DEF Cam, Out
  <2> QED
    BY <2>1, <2>2, <2>3, Records
<1> QED
  BY <1>3, <1>4, <1>5, Records DEF ConnectFails, MakeContext

(* What a connect that succeeded holds. *)
LEMMA SuccessfulConnect ==
  ASSUME IInv, ConnectSucceeds
  PROVE  /\ opened + 1 \in Handles
         /\ cam' \in CamType /\ out' \in OutType
         /\ cam'.context = 1 /\ cam'.device = 1 /\ cam'.handle = opened + 1 /\ cam'.fd = 1
         /\ out'.contexts = 1 + out'.lostContexts /\ out'.devices = 1
         /\ out'.handles = {opened + 1} /\ out'.fds = 1
         /\ refs' = refs
<1>1. /\ out.devices = 0 /\ out.handles = {} /\ out.fds = 0
      /\ out.contexts = cam.context + out.lostContexts
  BY DEF IInv, TypeOK, ResourcesAccounted, OperationInv, Emptied, ConnectSucceeds, At
<1>2. refs' = refs
  BY CameraConstants DEF IInv, TypeOK, OperationInv, Released, ConnectSucceeds, At, release
<1>3. opened + 1 \in Handles
  BY CameraConstants DEF IInv, TypeOK, ConnectSucceeds, Handles
<1>4. cam' = [context |-> 1, device |-> 1, handle |-> opened + 1, fd |-> 1]
  BY DEF ConnectSucceeds
<1>5. out' = [contexts |-> 1 + out.lostContexts, devices |-> 1, handles |-> {opened + 1},
              fds |-> 1, lostContexts |-> out.lostContexts]
  <2>1. (IF cam.context = 1 THEN out.contexts ELSE out.contexts + 1) = 1 + out.lostContexts
    BY <1>1, Records
  <2>2. out' = [out EXCEPT
                  !.contexts = IF cam.context = 1 THEN out.contexts ELSE out.contexts + 1,
                  !.devices = out.devices + 1, !.handles = out.handles \cup {opened + 1},
                  !.fds = out.fds + 1]
    BY DEF ConnectSucceeds
  <2>3. out.devices + 1 = 1 /\ out.fds + 1 = 1 /\ out.handles \cup {opened + 1} = {opened + 1}
    BY <1>1
  <2> QED
    BY Records, <2>1, <2>2, <2>3
<1>6. cam' \in CamType /\ out' \in OutType
  BY Records, <1>3, <1>4, <1>5, CameraConstants DEF CamType, OutType, Handles
<1> QED
  BY <1>2, <1>3, <1>4, <1>5, <1>6

(* The types after the two steps that have many outcomes or change most. *)
LEMMA StopType ==
  ASSUME TypeOK, StopCapture
  PROVE  TypeOK'
<1>1. /\ pc' \in Steps /\ running' \in BOOLEAN
      /\ fault' \in {"none", "caller", "worker", "resizer", "capturer"}
  BY DEF TypeOK, StopCapture, AfterStop, Crash, At, Steps
<1>2. UNCHANGED <<ptr, block, caches, op, cam, out, opened, previewHandle, mask, window, refs,
                  lost, worker, drawn, resizer, target, capturer>>
  BY DEF StopCapture, native, preview, display, unlocked
<1> QED
  BY <1>1, <1>2 DEF TypeOK

LEMMA ConnectType ==
  ASSUME IInv, ConnectSucceeds
  PROVE  TypeOK'
<1>1. /\ cam' \in CamType /\ out' \in OutType
      /\ opened + 1 \in Handles /\ opened' = opened + 1 /\ previewHandle' = opened + 1
      /\ mask' = 0 /\ caches' \in {caches, opened + 1}
      /\ refs' = refs /\ lost' = lost /\ window' = None
      /\ running' = FALSE /\ pc' = "idle"
      /\ UNCHANGED <<ptr, block, op, worker, drawn, resizer, target, capturer, fault>>
  BY SuccessfulConnect DEF ConnectSucceeds, unlocked
<1>2. opened + 1 \in 0 .. MaxOpens /\ 0 \in 0 .. MaxOpens
  BY <1>1, CameraConstants DEF Handles
<1>3. pc' \in Steps
  BY <1>1 DEF Steps
<1>4. caches' \in 0 .. MaxOpens
  BY <1>1, <1>2 DEF IInv, TypeOK
<1> QED
  BY <1>1, <1>2, <1>3, <1>4 DEF IInv, TypeOK, CamType, OutType

(* The types. *)
LEMMA TypeInv ==
  ASSUME IInv, Next
  PROVE  TypeOK'
<1> USE CameraConstants DEF IInv, java, native, preview, display, capture, unlocked,
        TypeOK, Steps, Places, Operations, Handles, WindowsAccounted, ResourcesAccounted,
        OperationInv, Released, PreviewInv
<1>1. CASE \E o \in Operations \ {"none"} : Begin(o)
  BY <1>1 DEF Begin, Operations, Idle
<1>2. CASE StopCapture
  BY <1>2, StopType
<1>3. CASE JoinWorker
  BY <1>3 DEF JoinWorker, At
<1>4. CASE DropWindow
  BY <1>4 DEF DropWindow, AfterStop, MutexFree, release, At
<1>5. CASE Free
  BY <1>5, FreeKeepsContext DEF Free, At, CamType, OutType
<1>6. CASE \E ok \in BOOLEAN : CloneBlock(ok)
  BY <1>6 DEF CloneBlock, At
<1>7. CASE \E outcome \in Outcomes : ConnectFails(outcome)
  <2>1. PICK outcome \in Outcomes : ConnectFails(outcome)
    BY <1>7
  <2> QED
    BY <2>1, FailedConnect DEF ConnectFails, At, CamType, OutType
<1>8. CASE ConnectSucceeds
  BY <1>8, ConnectType
<1>9. CASE Delete
  BY <1>9 DEF Delete, At
<1>10. CASE StartPreview
  BY <1>10 DEF StartPreview, Crash, Idle
<1>11. CASE \E w \in Windows \cup {None} : SetPreviewDisplay(w)
  BY <1>11 DEF SetPreviewDisplay, MutexFree, Idle
<1>12. CASE \E w \in Windows \cup {None} : SetCaptureDisplay(w)
  BY <1>12 DEF SetCaptureDisplay, Crash
<1>13. CASE \E found \in BOOLEAN : UpdateCameraParams(found)
  BY <1>13 DEF UpdateCameraParams, Crash, Idle
<1>14. CASE \E ok \in BOOLEAN : Negotiate(ok)
  BY <1>14 DEF Negotiate, Touch, Crash, live
<1>15. CASE LockWindow
  BY <1>15 DEF LockWindow, MutexFree
<1>16. CASE UnlockWindow
  BY <1>16 DEF UnlockWindow
<1>17. CASE StopStreaming
  BY <1>17 DEF StopStreaming, MutexFree, Touch, Crash, live
<1>18. CASE EnterResize
  BY <1>18 DEF EnterResize
<1>19. CASE LoadPreview
  BY <1>19 DEF LoadPreview, Crash
<1>20. CASE \E other \in BOOLEAN : AskDevice(other)
  BY <1>20 DEF AskDevice, Touch, Crash, live
<1>21. CASE SignalWorker
  BY <1>21 DEF SignalWorker, At
<1>22. CASE DrawNothing
  BY <1>22 DEF DrawNothing, MutexFree
<1>23. CASE TestRunning
  BY <1>23 DEF TestRunning
<1>24. CASE \E found \in BOOLEAN : WaitPreviewFrame(found)
  BY <1>24 DEF WaitPreviewFrame, MutexFree
<1>25. CASE WakeUp
  BY <1>25 DEF WakeUp, MutexFree
<1>26. CASE StartCapture
  BY <1>26 DEF StartCapture
<1>27. CASE LoadCamera
  BY <1>27 DEF LoadCamera
<1> QED
  BY <1>1, <1>2, <1>3, <1>4, <1>5, <1>6, <1>7, <1>8, <1>9, <1>10,
     <1>11, <1>12, <1>13, <1>14, <1>15, <1>16, <1>17, <1>18, <1>19, <1>20,
     <1>21, <1>22, <1>23, <1>24, <1>25, <1>26, <1>27 DEF Next, Operate, Work

(* Where the operation stands. *)
LEMMA OperationStep ==
  ASSUME IInv, Next
  PROVE  OperationInv'
<1> USE CameraConstants DEF IInv, java, native, preview, display, capture, unlocked,
        OperationInv, PreviewInv, Released, Emptied, TypeOK
<1>1. CASE \E o \in Operations \ {"none"} : Begin(o)
  BY <1>1 DEF Begin, Operations, Idle
<1>2. CASE StopCapture
  BY <1>2 DEF StopCapture, AfterStop, Crash, At
<1>3. CASE JoinWorker
  BY <1>3 DEF JoinWorker, At
<1>4. CASE DropWindow
  BY <1>4 DEF DropWindow, AfterStop, MutexFree, release, At
<1>5. CASE Free
  BY <1>5 DEF Free, At
<1>6. CASE \E ok \in BOOLEAN : CloneBlock(ok)
  BY <1>6 DEF CloneBlock, At
<1>7. CASE \E outcome \in Outcomes : ConnectFails(outcome)
  <2>1. PICK outcome \in Outcomes : ConnectFails(outcome)
    BY <1>7
  <2> QED
    BY <2>1, FailedConnect DEF ConnectFails, At
<1>8. CASE ConnectSucceeds
  BY <1>8 DEF ConnectSucceeds, release, At
<1>9. CASE Delete
  BY <1>9 DEF Delete, At
<1>10. CASE StartPreview
  BY <1>10 DEF StartPreview, Crash, Idle
<1>11. CASE \E w \in Windows \cup {None} : SetPreviewDisplay(w)
  BY <1>11 DEF SetPreviewDisplay, MutexFree, Idle
<1>12. CASE \E w \in Windows \cup {None} : SetCaptureDisplay(w)
  BY <1>12 DEF SetCaptureDisplay, Crash
<1>13. CASE \E found \in BOOLEAN : UpdateCameraParams(found)
  BY <1>13 DEF UpdateCameraParams, Crash, Idle
<1>14. CASE \E ok \in BOOLEAN : Negotiate(ok)
  BY <1>14 DEF Negotiate, Touch, Crash, live
<1>15. CASE LockWindow
  BY <1>15 DEF LockWindow, MutexFree
<1>16. CASE UnlockWindow
  BY <1>16 DEF UnlockWindow
<1>17. CASE StopStreaming
  BY <1>17 DEF StopStreaming, MutexFree, Touch, Crash, live
<1>18. CASE EnterResize
  BY <1>18 DEF EnterResize
<1>19. CASE LoadPreview
  BY <1>19 DEF LoadPreview, Crash
<1>20. CASE \E other \in BOOLEAN : AskDevice(other)
  BY <1>20 DEF AskDevice, Touch, Crash, live
<1>21. CASE SignalWorker
  BY <1>21 DEF SignalWorker, At
<1>22. CASE DrawNothing
  BY <1>22 DEF DrawNothing, MutexFree
<1>23. CASE TestRunning
  BY <1>23 DEF TestRunning
<1>24. CASE \E found \in BOOLEAN : WaitPreviewFrame(found)
  BY <1>24 DEF WaitPreviewFrame, MutexFree
<1>25. CASE WakeUp
  BY <1>25 DEF WakeUp, MutexFree
<1>26. CASE StartCapture
  BY <1>26 DEF StartCapture
<1>27. CASE LoadCamera
  BY <1>27 DEF LoadCamera
<1> QED
  BY <1>1, <1>2, <1>3, <1>4, <1>5, <1>6, <1>7, <1>8, <1>9, <1>10,
     <1>11, <1>12, <1>13, <1>14, <1>15, <1>16, <1>17, <1>18, <1>19, <1>20,
     <1>21, <1>22, <1>23, <1>24, <1>25, <1>26, <1>27 DEF Next, Operate, Work

(* The preview and its worker. *)
LEMMA PreviewStep ==
  ASSUME IInv, Next
  PROVE  PreviewInv'
<1> USE CameraConstants DEF IInv, java, native, preview, display, capture, unlocked,
        PreviewInv, OperationInv, Released, Emptied, TypeOK, ResourcesAccounted
<1>1. CASE \E o \in Operations \ {"none"} : Begin(o)
  BY <1>1 DEF Begin, Operations, Idle
<1>2. CASE StopCapture
  BY <1>2 DEF StopCapture, AfterStop, Crash, At
<1>3. CASE JoinWorker
  BY <1>3 DEF JoinWorker, At
<1>4. CASE DropWindow
  BY <1>4 DEF DropWindow, AfterStop, MutexFree, release, At
<1>5. CASE Free
  BY <1>5 DEF Free, At
<1>6. CASE \E ok \in BOOLEAN : CloneBlock(ok)
  BY <1>6 DEF CloneBlock, At
<1>7. CASE \E outcome \in Outcomes : ConnectFails(outcome)
  <2>1. PICK outcome \in Outcomes : ConnectFails(outcome)
    BY <1>7
  <2> QED
    BY <2>1, FailedConnect DEF ConnectFails, At
<1>8. CASE ConnectSucceeds
  BY <1>8 DEF ConnectSucceeds, release, At
<1>9. CASE Delete
  BY <1>9 DEF Delete, At
<1>10. CASE StartPreview
  BY <1>10 DEF StartPreview, Crash, Idle
<1>11. CASE \E w \in Windows \cup {None} : SetPreviewDisplay(w)
  BY <1>11 DEF SetPreviewDisplay, MutexFree, Idle
<1>12. CASE \E w \in Windows \cup {None} : SetCaptureDisplay(w)
  BY <1>12 DEF SetCaptureDisplay, Crash
<1>13. CASE \E found \in BOOLEAN : UpdateCameraParams(found)
  BY <1>13 DEF UpdateCameraParams, Crash, Idle
<1>14. CASE \E ok \in BOOLEAN : Negotiate(ok)
  BY <1>14 DEF Negotiate, Touch, Crash, live
<1>15. CASE LockWindow
  BY <1>15 DEF LockWindow, MutexFree
<1>16. CASE UnlockWindow
  BY <1>16 DEF UnlockWindow
<1>17. CASE StopStreaming
  BY <1>17 DEF StopStreaming, MutexFree, Touch, Crash, live
<1>18. CASE EnterResize
  BY <1>18 DEF EnterResize
<1>19. CASE LoadPreview
  BY <1>19 DEF LoadPreview, Crash
<1>20. CASE \E other \in BOOLEAN : AskDevice(other)
  BY <1>20 DEF AskDevice, Touch, Crash, live
<1>21. CASE SignalWorker
  BY <1>21 DEF SignalWorker, At
<1>22. CASE DrawNothing
  BY <1>22 DEF DrawNothing, MutexFree
<1>23. CASE TestRunning
  BY <1>23 DEF TestRunning
<1>24. CASE \E found \in BOOLEAN : WaitPreviewFrame(found)
  BY <1>24 DEF WaitPreviewFrame, MutexFree
<1>25. CASE WakeUp
  BY <1>25 DEF WakeUp, MutexFree
<1>26. CASE StartCapture
  BY <1>26 DEF StartCapture
<1>27. CASE LoadCamera
  BY <1>27 DEF LoadCamera
<1> QED
  BY <1>1, <1>2, <1>3, <1>4, <1>5, <1>6, <1>7, <1>8, <1>9, <1>10,
     <1>11, <1>12, <1>13, <1>14, <1>15, <1>16, <1>17, <1>18, <1>19, <1>20,
     <1>21, <1>22, <1>23, <1>24, <1>25, <1>26, <1>27 DEF Next, Operate, Work

(* The windows. *)
LEMMA WindowsStep ==
  ASSUME IInv, Next
  PROVE  WindowsAccounted'
<1> USE CameraConstants DEF IInv, java, native, preview, display, capture, unlocked,
        WindowsAccounted, TypeOK, OperationInv, PreviewInv, Released
<1>1. CASE DropWindow
  BY <1>1 DEF DropWindow, AfterStop, MutexFree, release, At
<1>2. CASE ConnectSucceeds
  BY <1>2 DEF ConnectSucceeds, release, At
<1>3. CASE \E w \in Windows \cup {None} : SetPreviewDisplay(w)
  BY <1>3 DEF SetPreviewDisplay, MutexFree, Idle
<1>4. CASE \E w \in Windows \cup {None} : SetCaptureDisplay(w)
  BY <1>4 DEF SetCaptureDisplay
<1>5. CASE LockWindow
  BY <1>5 DEF LockWindow, MutexFree
<1>6. CASE UnlockWindow
  BY <1>6 DEF UnlockWindow
<1> QED
  BY <1>1, <1>2, <1>3, <1>4, <1>5, <1>6 DEF Next, Operate, Work,
       Begin, StopCapture, SignalWorker, JoinWorker, Free, CloneBlock, ConnectFails, Delete,
       StartPreview, UpdateCameraParams, Negotiate, DrawNothing, TestRunning, WaitPreviewFrame,
       WakeUp, StopStreaming, EnterResize, LoadPreview, AskDevice, StartCapture, LoadCamera,
       MutexFree, Idle, At

(* The resources. *)
LEMMA ResourcesStep ==
  ASSUME IInv, Next
  PROVE  ResourcesAccounted'
<1> USE CameraConstants DEF IInv, java, native, preview, display, capture, unlocked,
        ResourcesAccounted, TypeOK, OperationInv, Emptied
<1>1. CASE Free
  BY <1>1, FreeKeepsContext DEF Free, At
<1>2. CASE \E outcome \in Outcomes : ConnectFails(outcome)
  <2>1. PICK outcome \in Outcomes : ConnectFails(outcome)
    BY <1>2
  <2> QED
    BY <2>1, FailedConnect DEF ConnectFails, At
<1>3. CASE ConnectSucceeds
  BY <1>3, SuccessfulConnect DEF ConnectSucceeds, At
<1>4. CASE Delete
  BY <1>4 DEF Delete, At
<1> QED
  BY <1>1, <1>2, <1>3, <1>4 DEF Next, Operate, Work,
       Begin, StopCapture, SignalWorker, JoinWorker, DropWindow, CloneBlock, StartPreview,
       SetPreviewDisplay, UpdateCameraParams, Negotiate, LockWindow, UnlockWindow, DrawNothing,
       TestRunning, WaitPreviewFrame, WakeUp, StopStreaming, EnterResize, LoadPreview, AskDevice,
       StartCapture, LoadCamera, SetCaptureDisplay, Idle, At

(* The caches. *)
LEMMA CachesStep ==
  ASSUME IInv, Next
  PROVE  CachesAreOfThisCamera'
<1> USE CameraConstants DEF IInv, java, native, preview, display, capture, unlocked,
        CachesAreOfThisCamera, TypeOK, OperationInv, Emptied, PreviewInv
<1>1. CASE Free
  BY <1>1 DEF Free, At
<1>2. CASE \E outcome \in Outcomes : ConnectFails(outcome)
  <2>1. PICK outcome \in Outcomes : ConnectFails(outcome)
    BY <1>2
  <2> QED
    BY <2>1, FailedConnect DEF ConnectFails, At
<1>3. CASE ConnectSucceeds
  BY <1>3 DEF ConnectSucceeds, release, At
<1>4. CASE Delete
  BY <1>4 DEF Delete, At
<1>5. CASE \E found \in BOOLEAN : UpdateCameraParams(found)
  BY <1>5 DEF UpdateCameraParams, Crash, Idle
<1> QED
  BY <1>1, <1>2, <1>3, <1>4, <1>5 DEF Next, Operate, Work,
       Begin, StopCapture, SignalWorker, JoinWorker, DropWindow, CloneBlock, StartPreview,
       SetPreviewDisplay, Negotiate, LockWindow, UnlockWindow, DrawNothing, TestRunning,
       WaitPreviewFrame, WakeUp, StopStreaming, EnterResize, LoadPreview, AskDevice,
       StartCapture, LoadCamera, SetCaptureDisplay, Idle, At

(* The failures: the worker's handle is the camera's while there is one. *)
LEMMA SafetyStep ==
  ASSUME IInv, Next
  PROVE  SafeWhileConnected'
<1> USE CameraConstants DEF IInv, java, native, preview, display, capture, unlocked,
        SafeWhileConnected, ResourcesAccounted, OperationInv, PreviewInv, TypeOK, Released, Emptied
<1>1. CASE \E o \in Operations \ {"none"} : Begin(o)
  BY <1>1 DEF Begin, Operations, Idle
<1>2. CASE StopCapture
  BY <1>2 DEF StopCapture, AfterStop, Crash, At
<1>3. CASE JoinWorker
  BY <1>3 DEF JoinWorker, At
<1>4. CASE DropWindow
  BY <1>4 DEF DropWindow, AfterStop, MutexFree, release, At
<1>5. CASE Free
  BY <1>5 DEF Free, At
<1>6. CASE \E ok \in BOOLEAN : CloneBlock(ok)
  BY <1>6 DEF CloneBlock, At
<1>7. CASE \E outcome \in Outcomes : ConnectFails(outcome)
  <2>1. PICK outcome \in Outcomes : ConnectFails(outcome)
    BY <1>7
  <2> QED
    BY <2>1, FailedConnect DEF ConnectFails, At
<1>8. CASE ConnectSucceeds
  BY <1>8 DEF ConnectSucceeds, release, At
<1>9. CASE Delete
  BY <1>9 DEF Delete, At
<1>10. CASE StartPreview
  BY <1>10 DEF StartPreview, Crash, Idle
<1>11. CASE \E w \in Windows \cup {None} : SetPreviewDisplay(w)
  BY <1>11 DEF SetPreviewDisplay, MutexFree, Idle
<1>12. CASE \E w \in Windows \cup {None} : SetCaptureDisplay(w)
  BY <1>12 DEF SetCaptureDisplay, Crash
<1>13. CASE \E found \in BOOLEAN : UpdateCameraParams(found)
  BY <1>13 DEF UpdateCameraParams, Crash, Idle
<1>14. CASE \E ok \in BOOLEAN : Negotiate(ok)
  BY <1>14 DEF Negotiate, Touch, Crash, live
<1>15. CASE LockWindow
  BY <1>15 DEF LockWindow, MutexFree
<1>16. CASE UnlockWindow
  BY <1>16 DEF UnlockWindow
<1>17. CASE StopStreaming
  BY <1>17 DEF StopStreaming, MutexFree, Touch, Crash, live
<1>18. CASE EnterResize
  BY <1>18 DEF EnterResize
<1>19. CASE LoadPreview
  BY <1>19 DEF LoadPreview, Crash
<1>20. CASE \E other \in BOOLEAN : AskDevice(other)
  BY <1>20 DEF AskDevice, Touch, Crash, live
<1>21. CASE SignalWorker
  BY <1>21 DEF SignalWorker, At
<1>22. CASE DrawNothing
  BY <1>22 DEF DrawNothing, MutexFree
<1>23. CASE TestRunning
  BY <1>23 DEF TestRunning
<1>24. CASE \E found \in BOOLEAN : WaitPreviewFrame(found)
  BY <1>24 DEF WaitPreviewFrame, MutexFree
<1>25. CASE WakeUp
  BY <1>25 DEF WakeUp, MutexFree
<1>26. CASE StartCapture
  BY <1>26 DEF StartCapture
<1>27. CASE LoadCamera
  BY <1>27 DEF LoadCamera
<1> QED
  BY <1>1, <1>2, <1>3, <1>4, <1>5, <1>6, <1>7, <1>8, <1>9, <1>10,
     <1>11, <1>12, <1>13, <1>14, <1>15, <1>16, <1>17, <1>18, <1>19, <1>20,
     <1>21, <1>22, <1>23, <1>24, <1>25, <1>26, <1>27 DEF Next, Operate, Work

-----------------------------------------------------------------------------
LEMMA Stutter == IInv /\ UNCHANGED vars => IInv'
BY DEF IInv, TypeOK, OperationInv, PreviewInv, Released, Emptied, WindowsAccounted,
   ResourcesAccounted, CachesAreOfThisCamera, SafeWhileConnected,
   vars, java, native, preview, display, capture, unlocked

LEMMA Invariance == Spec => []IInv
<1>1. IInv /\ [Next]_vars => IInv'
  BY TypeInv, OperationStep, PreviewStep, WindowsStep, ResourcesStep, CachesStep, SafetyStep,
     Stutter DEF IInv
<1> QED
  BY InitInv, <1>1, PTL DEF Spec

(* Every variable keeps its type: no reference and no resource is given back
   that was not taken. *)
THEOREM TypeCorrect == Spec => []TypeOK
<1>1. IInv => TypeOK
  BY DEF IInv
<1> QED
  BY Invariance, <1>1, PTL

(* Every reference to a window is the preview's or one of those that
   setPreviewDisplay and setCaptureDisplay lose, and a locked window stays
   the preview's (UVCPreviewJni.cpp:29, 89, 98). *)
THEOREM WindowReferences == Spec => []WindowsAccounted
<1>1. IInv => WindowsAccounted
  BY DEF IInv
<1> QED
  BY Invariance, <1>1, PTL

(* The descriptors, devices and handles of the process are those of the
   object, through every way out of connect and release (UVCCamera.cpp:76,
   125). *)
THEOREM NothingLeaks == Spec => []ResourcesAccounted
<1>1. IInv => ResourcesAccounted
  BY DEF IInv
<1> QED
  BY Invariance, <1>1, PTL

(* What the Java object has cached belongs to the camera that is open
   (UVCCamera.java:234, 889). *)
THEOREM CachesFresh == Spec => []CachesAreOfThisCamera
<1>1. IInv => CachesAreOfThisCamera
  BY DEF IInv
<1> QED
  BY Invariance, <1>1, PTL

(* While a camera is connected no order of the synchronized calls and no
   step of the worker touches what is not there (JniUVCCamera.cpp:180, 191). *)
THEOREM ConnectedIsSafe == Spec => []SafeWhileConnected
<1>1. IInv => SafeWhileConnected
  BY DEF IInv
<1> QED
  BY Invariance, <1>1, PTL

=============================================================================
