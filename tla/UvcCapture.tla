----------------------------- MODULE UvcCapture -----------------------------
(***************************************************************************)
(* The native capture core of the library: class UVCCaptureBase of         *)
(* libausbc/src/main/jni/UVCCamera/UVCPreviewBase.{h,cpp}.                  *)
(*                                                                         *)
(* Three threads share one object:                                         *)
(*   - the controller, the thread inside the synchronized Java methods     *)
(*     startPreview, stopPreview and close (one operation at a time);      *)
(*   - the worker, the std::thread that runs previewThreadFunc;            *)
(*   - the callback thread of libuvc, which runs                           *)
(*     uvc_preview_frame_callback once per frame of the device and lives   *)
(*     from uvc_start_streaming to uvc_stop_streaming.                     *)
(* They meet at the volatile flag mIsRunning, the frame queue under        *)
(* preview_mutex (with the condition variable preview_sync) and the pool   *)
(* of frame buffers under pool_mutex.                                      *)
(*                                                                         *)
(* Atomicity.  A critical section of pool_mutex takes no other lock and    *)
(* calls nothing, so it is one step.  A critical section of preview_mutex  *)
(* that recycles frames takes pool_mutex once per frame: it is one step    *)
(* per frame and holds previewMutex between them.  Every read of           *)
(* mIsRunning outside the locks is a step of its own.                      *)
(*                                                                         *)
(* setPreviewSize takes no lock at all: any thread may call it between any *)
(* two steps.  Its two assignments are one step here; a pair half written  *)
(* is one more member of Sizes, which is any set of pairs.                 *)
(***************************************************************************)
EXTENDS Integers, Sequences, FiniteSets

CONSTANTS
  Frames,          (* the addresses uvc_allocate_frame can return           *)
  NoFrame,         (* nullptr                                               *)
  Sizes,           (* the width x height pairs a client asks for            *)
  DefaultSize,     (* DEFAULT_PREVIEW_WIDTH x DEFAULT_PREVIEW_HEIGHT        *)
  NoSize,          (* libuvc is not streaming                               *)
  FramePoolSize,   (* mFramePoolSize                                        *)
  MaxFramesQueue,  (* mMaxFramesQueue                                       *)
  MaxStamp         (* bound: frames the device delivers in a behaviour      *)

ASSUME CaptureConstants ==
  /\ NoFrame \notin Frames
  /\ DefaultSize \in Sizes
  /\ NoSize \notin Sizes
  /\ FramePoolSize \in Nat
  /\ MaxFramesQueue \in Nat \ {0}
  /\ MaxStamp \in Nat

VARIABLES
  ctl,           (* where the controller is                                  *)
  stopper,       (* who called stopCapture last                              *)
  wrk,           (* where the worker is; "none": no joinable thread          *)
  cb,            (* where the libuvc callback is                             *)
  running,       (* mIsRunning                                               *)
  request,       (* requestWidth x requestHeight                             *)
  frameSize,     (* frameWidth x frameHeight                                 *)
  negotiated,    (* the size in the worker's uvc_stream_ctrl_t               *)
  stream,        (* the size libuvc streams, NoSize when it does not         *)
  previewMutex,  (* holder of preview_mutex between steps, or "free"         *)
  queue,         (* mPreviewFrames                                           *)
  pool,          (* mFramePool                                               *)
  heap,          (* frame buffers allocated and not freed                    *)
  held,          (* the frame the worker took from the queue                 *)
  copy,          (* the frame the callback is filling                        *)
  clock,         (* steady_clock, one tick per frame of the device           *)
  phase,         (* the last lifecycle call the listener got in this session *)
  delivered,     (* timestamp of the last frame given to handleFrame         *)
  fresh          (* no frame was handled since onPrepared (auxiliary)        *)

control == <<ctl, stopper>>
sizes   == <<request, frameSize, negotiated, stream>>
frames  == <<queue, pool, heap>>
history == <<clock, phase, delivered, fresh>>
vars    == <<control, wrk, cb, running, sizes, previewMutex, frames, held,
             copy, history>>

(* A UvcPreviewFrame: the buffer, when it came, the size of its picture.  A *)
(* callback knows the last two before it has a buffer.                      *)
Entry    == [frame : Frames \cup {NoFrame}, stamp : 0..MaxStamp, size : Sizes]
Captured == [frame : Frames, stamp : 0..MaxStamp, size : Sizes]
NoEntry  == [frame |-> NoFrame, stamp |-> 0, size |-> DefaultSize]

(* Who calls stopCapture. *)
Callers == {"stopPreview", "destructor"}

-----------------------------------------------------------------------------
(* The pool. *)

(* recycle_frame(f): back to the pool while there is room, else freed. *)
Recycle(f) ==
  IF Len(pool) < FramePoolSize
    THEN pool' = Append(pool, f) /\ UNCHANGED heap
    ELSE heap' = heap \ {f} /\ UNCHANGED pool

(* recycle_frame of an entry that may hold nullptr. *)
RecycleEntry(e) ==
  \/ e.frame = NoFrame /\ UNCHANGED <<pool, heap>>
  \/ e.frame # NoFrame /\ Recycle(e.frame)

(* pthread_cond_signal(&preview_sync): only a thread that waits notices. *)
Signal == wrk' = IF wrk = "wait" THEN "woken" ELSE wrk

(* One round of the loop of clearPreviewFramesQueue, preview_mutex held. *)
ClearOne ==
  /\ queue # <<>>
  /\ Recycle(Head(queue).frame)
  /\ queue' = Tail(queue)

-----------------------------------------------------------------------------
(* The controller. *)

(* setPreviewSize: not synchronized, no lock, whatever the threads do. *)
SetPreviewSize(s) ==
  /\ ctl # "destroyed"
  /\ request # s
  /\ request' = s
  /\ UNCHANGED <<control, wrk, cb, running, frameSize, negotiated, stream,
                 previewMutex, frames, held, copy, history>>

StartCapture ==
  /\ ctl = "idle"
  /\ ~running
  /\ running' = TRUE
  /\ ctl' = "spawn"
  /\ UNCHANGED <<stopper, wrk, cb, sizes, previewMutex, frames, held, copy,
                 history>>

SpawnWorker ==
  /\ ctl = "spawn"
  /\ previewMutex = "free"
  /\ ctl' = "idle"
  /\ wrk' = "negotiate"
  /\ phase' = "started"
  /\ UNCHANGED <<stopper, cb, running, sizes, previewMutex, frames, held,
                 copy, clock, delivered, fresh>>

(* stopCapture, called by stopPreview and release or by the destructor. *)
StopCapture(caller) ==
  /\ ctl = "idle"
  /\ stopper' = caller
  /\ running' = FALSE
  /\ ctl' = IF running THEN "signal" ELSE "flush"
  /\ UNCHANGED <<wrk, cb, sizes, previewMutex, frames, held, copy, history>>

(* The signal is sent without preview_mutex. *)
SignalWorker ==
  /\ ctl = "signal"
  /\ ctl' = "join"
  /\ Signal
  /\ UNCHANGED <<stopper, cb, running, sizes, previewMutex, frames, held,
                 copy, history>>

(* Mutant of JoinWorker: stopCapture does not wait for the worker. *)
DetachWorker ==
  /\ ctl = "join"
  /\ wrk' = IF wrk = "done" THEN "none" ELSE wrk
  /\ ctl' = "flush"
  /\ UNCHANGED <<stopper, cb, running, sizes, previewMutex, frames, held,
                 copy, history>>

(* Mutant of JoinWorker: stopCapture does not clear the queue. *)
JoinAndReturn ==
  /\ ctl = "join"
  /\ wrk = "done"
  /\ wrk' = "none"
  /\ ctl' = "idle"
  /\ UNCHANGED <<stopper, cb, running, sizes, previewMutex, frames, held,
                 copy, history>>

JoinWorker ==
  /\ ctl = "join"
  /\ wrk = "done"
  /\ wrk' = "none"
  /\ ctl' = "flush"
  /\ UNCHANGED <<stopper, cb, running, sizes, previewMutex, frames, held,
                 copy, history>>

FlushLock ==
  /\ ctl = "flush"
  /\ previewMutex = "free"
  /\ previewMutex' = "ctl"
  /\ ctl' = "clear"
  /\ UNCHANGED <<stopper, wrk, cb, running, sizes, frames, held, copy,
                 history>>

FlushOne ==
  /\ ctl = "clear"
  /\ ClearOne
  /\ UNCHANGED <<control, wrk, cb, running, sizes, previewMutex, held, copy,
                 history>>

FlushUnlock ==
  /\ ctl = "clear"
  /\ queue = <<>>
  /\ previewMutex' = "free"
  /\ ctl' = IF stopper = "destructor" THEN "clearPool" ELSE "idle"
  /\ phase' = "stopped"
  /\ UNCHANGED <<stopper, wrk, cb, running, sizes, frames, held, copy,
                 clock, delivered, fresh>>

(* clear_pool and the end of the destructor. *)
ClearPool ==
  /\ ctl = "clearPool"
  /\ heap' = heap \ {pool[i] : i \in 1..Len(pool)}
  /\ pool' = <<>>
  /\ ctl' = "destroyed"
  /\ UNCHANGED <<stopper, wrk, cb, running, sizes, previewMutex, queue,
                 held, copy, history>>

-----------------------------------------------------------------------------
(* The worker: previewThreadFunc. *)

Negotiate ==
  /\ wrk = "negotiate"
  /\ \/ wrk' = "stream" /\ negotiated' = request
     \/ wrk' = "fail" /\ UNCHANGED negotiated
  /\ UNCHANGED <<control, cb, running, request, frameSize, stream,
                 previewMutex, frames, held, copy, history>>

StartStreaming ==
  /\ wrk = "stream"
  /\ \/ wrk' = "adopt" /\ stream' = negotiated
     \/ wrk' = "fail" /\ UNCHANGED stream
  /\ UNCHANGED <<control, cb, running, request, frameSize, negotiated,
                 previewMutex, frames, held, copy, history>>

(* frameWidth = requestWidth; frameHeight = requestHeight: between the two  *)
(* the callback may read a width and a height nobody asked for together.    *)
AdoptSize ==
  /\ \/ wrk = "adopt" /\ frameSize' \in Sizes /\ wrk' = "height"
     \/ wrk = "height" /\ frameSize' = request /\ wrk' = "lock"
  /\ UNCHANGED <<control, cb, running, request, negotiated, stream,
                 previewMutex, frames, held, copy, history>>

PurgeLock ==
  /\ wrk = "lock"
  /\ previewMutex = "free"
  /\ previewMutex' = "wrk"
  /\ wrk' = "purge"
  /\ UNCHANGED <<control, cb, running, sizes, frames, held, copy, history>>

PurgeOne ==
  /\ wrk = "purge"
  /\ ClearOne
  /\ UNCHANGED <<control, wrk, cb, running, sizes, previewMutex, held, copy,
                 history>>

(* Mutant of PurgeUnlock: frames measured before the size was adopted stay. *)
PurgeStopsEarly ==
  /\ wrk = "purge"
  /\ previewMutex' = "free"
  /\ wrk' = "prepared"
  /\ UNCHANGED <<control, cb, running, sizes, frames, held, copy, history>>

(* Mutant of PurgeUnlock: preview_mutex is not released. *)
PurgeKeepsLock ==
  /\ wrk = "purge"
  /\ queue = <<>>
  /\ wrk' = "prepared"
  /\ UNCHANGED <<control, cb, running, sizes, previewMutex, frames, held, copy,
                 history>>

PurgeUnlock ==
  /\ wrk = "purge"
  /\ queue = <<>>
  /\ previewMutex' = "free"
  /\ wrk' = "prepared"
  /\ UNCHANGED <<control, cb, running, sizes, frames, held, copy, history>>

(* The listener takes preview_mutex to set the geometry of its window. *)
OnPrepared ==
  /\ wrk = "prepared"
  /\ previewMutex = "free"
  /\ phase' = "prepared"
  /\ wrk' = "loop"
  /\ fresh' = TRUE
  /\ UNCHANGED <<control, cb, running, sizes, previewMutex, frames, held, copy,
                 clock, delivered>>

TestRunning ==
  /\ wrk = "loop"
  /\ wrk' = IF running THEN "get" ELSE "finish"
  /\ UNCHANGED <<control, cb, running, sizes, previewMutex, frames, held, copy,
                 history>>

(* Mutant of TakeFront: the newest frame is taken first. *)
TakeBack ==
  /\ wrk' = "check"
  /\ \/ /\ running /\ queue # <<>>
        /\ held' = queue[Len(queue)]
        /\ queue' = SubSeq(queue, 1, Len(queue) - 1)
     \/ /\ ~(running /\ queue # <<>>)
        /\ held' = NoEntry
        /\ UNCHANGED queue

(* The end of waitPreviewFrame: take the front if the capture still runs. *)
TakeFront ==
  /\ wrk' = "check"
  /\ \/ /\ running /\ queue # <<>>
        /\ held' = Head(queue)
        /\ queue' = Tail(queue)
     \/ /\ ~(running /\ queue # <<>>)
        /\ held' = NoEntry
        /\ UNCHANGED queue

(* waitPreviewFrame up to cond_wait, which does not look at mIsRunning. *)
WaitPreviewFrame ==
  /\ wrk = "get"
  /\ previewMutex = "free"
  /\ \/ queue = <<>> /\ wrk' = "wait" /\ UNCHANGED <<queue, held>>
     \/ queue # <<>> /\ TakeFront
  /\ UNCHANGED <<control, cb, running, sizes, previewMutex, pool, heap, copy,
                 history>>

(* cond_wait returns, once signalled, with preview_mutex; nothing loops. *)
WaitReturns ==
  /\ wrk = "woken"
  /\ previewMutex = "free"
  /\ TakeFront
  /\ UNCHANGED <<control, cb, running, sizes, previewMutex, pool, heap, copy,
                 history>>

(* POSIX lets cond_wait return without a signal. *)
SpuriousWakeup ==
  /\ wrk = "wait"
  /\ wrk' = "woken"
  /\ UNCHANGED <<control, cb, running, sizes, previewMutex, frames, held, copy,
                 history>>

CheckFrame ==
  /\ wrk = "check"
  /\ wrk' = IF running /\ held.frame # NoFrame THEN "handle" ELSE "recycle"
  /\ UNCHANGED <<control, cb, running, sizes, previewMutex, frames, held, copy,
                 history>>

(* handleFrame draws under preview_mutex. *)
HandleFrame ==
  /\ wrk = "handle"
  /\ previewMutex = "free"
  /\ delivered' = held.stamp
  /\ fresh' = FALSE
  /\ wrk' = "recycle"
  /\ UNCHANGED <<control, cb, running, sizes, previewMutex, frames, held, copy,
                 clock, phase>>

RecycleHeld ==
  /\ wrk = "recycle"
  /\ RecycleEntry(held)
  /\ held' = NoEntry
  /\ wrk' = "loop"
  /\ UNCHANGED <<control, cb, running, sizes, previewMutex, queue, copy,
                 history>>

OnFinished ==
  /\ wrk = "finish"
  /\ phase' = "finished"
  /\ wrk' = "halt"
  /\ UNCHANGED <<control, cb, running, sizes, previewMutex, frames, held, copy,
                 clock, delivered, fresh>>

(* uvc_stop_streaming joins the callback thread. *)
StopStreaming ==
  /\ wrk = "halt"
  /\ cb = "idle"
  /\ stream' = NoSize
  /\ wrk' = "done"
  /\ UNCHANGED <<control, cb, running, request, frameSize, negotiated,
                 previewMutex, frames, held, copy, history>>

(* Mutant of OnFailed: the listener is not told. *)
FailSilently ==
  /\ wrk = "fail"
  /\ wrk' = "done"
  /\ UNCHANGED <<control, cb, running, sizes, previewMutex, frames, held, copy,
                 history>>

(* The catch block: mIsRunning keeps its value. *)
OnFailed ==
  /\ wrk = "fail"
  /\ phase' = "failed"
  /\ wrk' = "done"
  /\ UNCHANGED <<control, cb, running, sizes, previewMutex, frames, held, copy,
                 clock, delivered, fresh>>

-----------------------------------------------------------------------------
(* The callback: uvc_preview_frame_callback and addPreviewFrame. *)

(* libuvc hands over a frame.  One that comes when the capture does not run *)
(* is dropped on the spot and leaves no trace.                              *)
FrameArrives ==
  /\ stream # NoSize
  /\ cb = "idle"
  /\ running
  /\ clock < MaxStamp
  /\ clock' = clock + 1
  /\ copy' = [frame |-> NoFrame, stamp |-> clock', size |-> stream]
  /\ cb' = "measure"
  /\ UNCHANGED <<control, wrk, running, sizes, previewMutex, frames, held,
                 phase, delivered, fresh>>

(* A frame of another size, or with a wrong number of bytes, is broken.    *)
(* Otherwise mIsRunning is read again before a buffer is asked for.        *)
MeasureFrame ==
  /\ cb = "measure"
  /\ \/ cb' = "idle" /\ copy' = NoEntry
     \/ copy.size = frameSize /\ cb' = "again" /\ UNCHANGED copy
  /\ UNCHANGED <<control, wrk, running, sizes, previewMutex, frames, held,
                 history>>

TestAgain ==
  /\ cb = "again"
  /\ \/ running /\ cb' = "get" /\ UNCHANGED copy
     \/ ~running /\ cb' = "idle" /\ copy' = NoEntry
  /\ UNCHANGED <<control, wrk, running, sizes, previewMutex, frames, held,
                 history>>

(* get_frame up to the unlock of pool_mutex. *)
GetFrame ==
  /\ cb = "get"
  /\ \/ /\ pool # <<>>
        /\ copy' = [copy EXCEPT !.frame = pool[Len(pool)]]
        /\ pool' = SubSeq(pool, 1, Len(pool) - 1)
        /\ cb' = "duplicate"
     \/ pool = <<>> /\ cb' = "allocate" /\ UNCHANGED <<pool, copy>>
  /\ UNCHANGED <<control, wrk, running, sizes, previewMutex, queue, heap, held,
                 history>>

(* uvc_allocate_frame: a new buffer, or nullptr and the callback returns. *)
AllocateFrame ==
  /\ cb = "allocate"
  /\ \/ \E f \in Frames \ heap :
          /\ heap' = heap \cup {f}
          /\ copy' = [copy EXCEPT !.frame = f]
          /\ cb' = "duplicate"
     \/ cb' = "idle" /\ copy' = NoEntry /\ UNCHANGED heap
  /\ UNCHANGED <<control, wrk, running, sizes, previewMutex, queue, pool, held,
                 history>>

(* uvc_duplicate_frame may fail; then addPreviewFrame reads mIsRunning. *)
DuplicateFrame ==
  /\ cb = "duplicate"
  /\ \/ running /\ cb' = "add"
     \/ cb' = "drop"
  /\ UNCHANGED <<control, wrk, running, sizes, previewMutex, frames, held,
                 copy, history>>

(* Mutant of AddPreviewFrame: the capacity test is off by one. *)
QueueOneTooMany ==
  /\ cb = "add"
  /\ previewMutex = "free"
  /\ \/ /\ Len(queue) <= MaxFramesQueue
        /\ queue' = Append(queue, copy)
        /\ Signal
        /\ cb' = "idle"
        /\ copy' = NoEntry
     \/ /\ Len(queue) > MaxFramesQueue
        /\ cb' = "drop"
        /\ UNCHANGED <<queue, wrk, copy>>
  /\ UNCHANGED <<control, running, sizes, previewMutex, pool, heap, held,
                 history>>

(* Mutant of AddPreviewFrame: "frame = nullptr" is missing. *)
QueueAndRecycle ==
  /\ cb = "add"
  /\ previewMutex = "free"
  /\ \/ /\ Len(queue) < MaxFramesQueue
        /\ queue' = Append(queue, copy)
        /\ Signal
        /\ cb' = "drop"
        /\ UNCHANGED copy
     \/ /\ Len(queue) >= MaxFramesQueue
        /\ cb' = "drop"
        /\ UNCHANGED <<queue, wrk, copy>>
  /\ UNCHANGED <<control, running, sizes, previewMutex, pool, heap, held,
                 history>>

(* The critical section of addPreviewFrame: queue it, or onFrameLost. *)
AddPreviewFrame ==
  /\ cb = "add"
  /\ previewMutex = "free"
  /\ \/ /\ Len(queue) < MaxFramesQueue
        /\ queue' = Append(queue, copy)
        /\ Signal
        /\ cb' = "idle"
        /\ copy' = NoEntry
     \/ /\ Len(queue) >= MaxFramesQueue
        /\ cb' = "drop"
        /\ UNCHANGED <<queue, wrk, copy>>
  /\ UNCHANGED <<control, running, sizes, previewMutex, pool, heap, held,
                 history>>

RecycleCopy ==
  /\ cb = "drop"
  /\ Recycle(copy.frame)
  /\ copy' = NoEntry
  /\ cb' = "idle"
  /\ UNCHANGED <<control, wrk, running, sizes, previewMutex, queue, held,
                 history>>

-----------------------------------------------------------------------------
Init ==
  /\ ctl = "idle" /\ stopper = "stopPreview"
  /\ wrk = "none"
  /\ cb = "idle"
  /\ running = FALSE
  /\ request = DefaultSize /\ frameSize = DefaultSize
  /\ negotiated = DefaultSize /\ stream = NoSize
  /\ previewMutex = "free"
  /\ queue = <<>> /\ pool = <<>> /\ heap = {}
  /\ held = NoEntry /\ copy = NoEntry
  /\ clock = 0 /\ phase = "stopped" /\ delivered = 0 /\ fresh = FALSE

(* What a client may ask for. *)
ClientCall ==
  \/ \E s \in Sizes : SetPreviewSize(s)
  \/ StartCapture
  \/ \E caller \in Callers : StopCapture(caller)

(* The rest of a call the client has made. *)
ControllerStep ==
  \/ SpawnWorker \/ SignalWorker \/ JoinWorker
  \/ FlushLock \/ FlushOne \/ FlushUnlock \/ ClearPool

WorkerStep ==
  \/ Negotiate \/ StartStreaming \/ AdoptSize
  \/ PurgeLock \/ PurgeOne \/ PurgeUnlock
  \/ OnPrepared \/ TestRunning \/ WaitPreviewFrame \/ WaitReturns
  \/ CheckFrame \/ HandleFrame \/ RecycleHeld
  \/ OnFinished \/ StopStreaming \/ OnFailed

CallbackStep ==
  \/ MeasureFrame \/ TestAgain \/ GetFrame \/ AllocateFrame
  \/ DuplicateFrame \/ AddPreviewFrame \/ RecycleCopy

(* The object is gone: nothing more happens. *)
Destroyed == ctl = "destroyed" /\ UNCHANGED vars

Next ==
  \/ ClientCall \/ ControllerStep
  \/ WorkerStep \/ SpuriousWakeup
  \/ FrameArrives \/ CallbackStep
  \/ Destroyed

(* A thread that can run does run.  The client, the device and the spurious *)
(* wakeups owe nothing.                                                     *)
Fairness ==
  /\ WF_vars(ControllerStep)
  /\ WF_vars(WorkerStep)
  /\ WF_vars(CallbackStep)

Spec     == Init /\ [][Next]_vars
FairSpec == Spec /\ Fairness

-----------------------------------------------------------------------------
(* Every variable has its type. *)
TypeOK ==
  /\ ctl \in {"idle", "spawn", "signal", "join", "flush", "clear",
              "clearPool", "destroyed"}
  /\ stopper \in Callers
  /\ wrk \in {"none", "negotiate", "stream", "adopt", "height", "lock",
              "purge", "prepared", "loop", "get", "wait", "woken", "check", "handle",
              "recycle", "finish", "halt", "fail", "done"}
  /\ cb \in {"idle", "measure", "again", "get", "allocate", "duplicate",
             "add", "drop"}
  /\ running \in BOOLEAN
  /\ request \in Sizes /\ frameSize \in Sizes /\ negotiated \in Sizes
  /\ stream \in Sizes \cup {NoSize}
  /\ previewMutex \in {"free", "ctl", "wrk"}
  /\ queue \in Seq(Captured)
  /\ pool \in Seq(Frames)
  /\ heap \in SUBSET Frames
  /\ held \in Captured \cup {NoEntry}
  /\ copy \in Entry
  /\ clock \in 0..MaxStamp
  /\ phase \in {"stopped", "started", "prepared", "finished", "failed"}
  /\ delivered \in 0..MaxStamp
  /\ fresh \in BOOLEAN

-----------------------------------------------------------------------------
(* Which buffers are where. *)
PoolFrames  == {pool[i] : i \in 1..Len(pool)}
QueueFrames == {queue[i].frame : i \in 1..Len(queue)}
Holding(e)  == IF e.frame = NoFrame THEN 0 ELSE 1
LiveFrames  == Len(pool) + Len(queue) + Holding(held) + Holding(copy)

(* A buffer that is allocated is in exactly one of four places: the pool,   *)
(* the queue, the worker's hands or the callback's.  None is lost, freed    *)
(* while in use, or recycled twice (get_frame, recycle_frame,               *)
(* addPreviewFrame, waitPreviewFrame, clearPreviewFramesQueue together).    *)
FramesOwnedOnce ==
  /\ heap = (PoolFrames \cup QueueFrames \cup {held.frame, copy.frame})
              \ {NoFrame}
  /\ Cardinality(heap) = LiveFrames

(* However the threads interleave, at most two buffers more than the queue  *)
(* holds are ever alive: the pool of 8 that UVCPreviewJni asks for with a   *)
(* queue of 4 can never overflow.                                           *)
LiveFrameBound == LiveFrames <= MaxFramesQueue + 2

(* The worker never sleeps on a frame: while it waits for a signal the      *)
(* queue is empty, although cond_wait is guarded by an "if" and not a loop. *)
NoSleepOnFrames == wrk = "wait" => queue = <<>>

(* Between sessions nothing is left over: no worker, no callback, no        *)
(* stream, no queued frame, every buffer in the pool (stopCapture joins and *)
(* clears; a callback may still queue a frame after onFinished).            *)
QuiescentWhenStopped ==
  ctl = "idle" /\ ~running =>
    /\ wrk = "none" /\ cb = "idle" /\ stream = NoSize
    /\ queue = <<>> /\ heap = PoolFrames

(* Sizes change under the worker: setPreviewSize may run between the        *)
(* negotiation and the adoption, and a callback may have measured its frame *)
(* against the size of the last session.  Of all that only one frame gets   *)
(* through: handleFrame gets a frame of another size than onPrepared        *)
(* announced at most once in a session, as the very first one (the frame a  *)
(* callback measured before line 306 and queued after the purge of line     *)
(* 310).                                                                    *)
OnlyFirstIsStale == wrk = "handle" /\ held.size # frameSize => fresh

(* A queued frame does not stay: it is handled or given back, also when the *)
(* capture is stopped around it.                                            *)
Queued(n) == \E i \in 1..Len(queue) : queue[i].stamp = n
EveryQueuedFrameLeaves == \A n \in 1..MaxStamp : Queued(n) ~> ~Queued(n)

(* A session that is started is prepared or fails. *)
StartIsAnswered == phase = "started" ~> phase \in {"prepared", "failed"}

(* The only place where a stop can hang is the worker's cond_wait: no lock  *)
(* order, no join of the callback thread and no full queue blocks it.       *)
StopHangsOnlyInWait == ctl = "join" ~> (ctl # "join" \/ wrk = "wait")

(* Whom each thread waits for: the owner of preview_mutex, or the thread it *)
(* joins ("free": nobody; the sleep in cond_wait is for a signal).          *)
waitsFor ==
  [ctl  |-> IF ctl = "join" /\ wrk # "done" THEN "wrk"
            ELSE IF ctl \in {"spawn", "flush"} THEN previewMutex ELSE "free",
   wrk  |-> IF wrk = "halt" /\ cb # "idle" THEN "cb"
            ELSE IF wrk \in {"lock", "prepared", "get", "woken", "handle"}
            THEN previewMutex ELSE "free",
   cb   |-> IF cb = "add" THEN previewMutex ELSE "free",
   free |-> "free"]

(* No thread waits for itself, directly or through the others: the stop     *)
(* joins the worker, which joins the callback, which takes preview_mutex,   *)
(* and so do the listener's onPrepared and handleFrame on the worker and    *)
(* the flush of the stop (UVCPreviewBase.cpp: stopCapture, addPreviewFrame).*)
NoCircularWait ==
  \A t \in {"ctl", "wrk", "cb"} :
    t \notin {waitsFor[t], waitsFor[waitsFor[t]], waitsFor[waitsFor[waitsFor[t]]]}

(* stopPreview returns ("stop preview", UVCCamera.java:380).                *)
StopReturns == ctl = "signal" ~> ctl \in {"idle", "destroyed"}

(* The capture implements CaptureSession: its channel is the frame in the   *)
(* worker's hands, until it is handled, and then the queue.                 *)
Stamps(q) == [i \in 1..Len(q) |-> q[i].stamp]
InHand == IF wrk \in {"check", "handle"} /\ held.frame # NoFrame
            THEN <<held>> ELSE <<>>
Session == INSTANCE CaptureSession
             WITH Capacity <- MaxFramesQueue + 1,
                  channel <- Stamps(InHand \o queue)
ImplementsSession == Session!Spec

=============================================================================
