# A verification project for the USB camera library

TLA+ models of the concurrent parts of this repository, the TLC configurations
that check them on small instances, and TLAPS proofs of what matters most for
every instance. Paths are relative to the repository; `jiangdg/` stands for
`libausbc/src/main/java/com/jiangdg/` and `jni/` for
`libausbc/src/main/jni/UVCCamera/`.

## 1. The system

An Android application (`app/`) shows the picture of USB cameras with the
library `libausbc`, which is Kotlin and Java over JNI over C++ over libuvc and
libusb. `linux/` holds a desktop preview on V4L2 that shares the image
conversions, and `sensor_test.py` a Bluetooth sender for tests.

    application          DemoFragment, CameraFragment            (main thread)
       |  openCamera, closeCamera, updateResolution, switchCamera
       v
    camera client        MultiCameraClient.ICamera, CameraUVC    (a camera thread per open)
       |        \  SettableFuture (size, texture)
       |         \--> rendering: RenderManager                   (render thread, codec thread)
       |                  \--> EventBus (ready, frame rate)      (posted to the main thread)
       v
    native camera        UVCCamera.java / JniUVCCamera / UVCCamera.cpp / UVCPreviewJni
       |  startCapture, stopCapture
       v
    capture core         UVCCaptureBase                          (worker + libuvc callback thread)

    USB monitor          USBMonitor, UsbControlBlock             (main, handler, camera threads)
       ^  broadcasts of the system; calls onAttach .. onDetach of the client
    UAC audio            UACAudioHandler, AudioThread, UACAudio  (audio thread, callers)

| component | state | operations | hard behaviour | correct when | status |
|---|---|---|---|---|---|
| capture core `jni/UVCPreviewBase.{h,cpp}` | `mIsRunning`, sizes, frame queue, frame pool | `setPreviewSize`, `startCapture`, `stopCapture`, destructor; worker; frame callback | three threads, two mutexes, one condition variable, a volatile flag read outside the locks | buffers have one owner and a bound; sessions are announced in order; a stop ends and leaves nothing | modelled |
| USB monitor `jiangdg/usb/USBMonitor.java` | `mCtrlBlocks`, `destroyed`, receiver, handler queue, connections | `register`, `unregister`, `requestPermission`, `destroy`, `close`, `clone`, broadcasts | a map changed by three threads without a lock; two queues in a row | one connection per device, none lost, the listener hears everything in order | partly |
| camera client `MultiCameraClient.kt`, `CameraUVC.kt`, `CameraFragment.kt` | `mCameraThread`, `mCameraHandler`, `mSizeChangedFuture`, `mUvcCamera`, `mRenderManager`, `isPreviewed`, `mCtrlBlock` | open, close, change of resolution, connect, disconnect, detach; start and stop of the preview | threads of successive sessions share the fields; waits of 2 s and 3 s; delayed reopens | a session that no other overlaps gives back what it took, a close is announced, a thread that is told to quit ends | partly |
| `utils/SettableFuture.kt` | synchronizer state, value | `set`, `cancel`, `get` | compare-and-set, publication of the value, timeout | one decision, the same for everybody | modelled |
| UAC audio `jiangdg/uac/` | looper, `mUACAudio`, its status, `mIsReleased` | init, start, stop, release; getters | getters sleep without a limit; release takes no lock | no engine records unseen, nobody sleeps beside an engine | partly |
| native camera `jni/UVCCamera.cpp`, `UVCPreviewJni.cpp`, `JniUVCCamera.cpp`, `UVCCamera.java` | `mNativePtr`, `mCtrlBlock`, caches; context, device, handle, descriptor; preview object, window | open, close, destroy, start and stop of the preview, display, sizes | failed connects; window references; a call without the lock | every reference is released once; no call touches what is not there | partly |
| Linux capture `linux/modules/sources/src/UvcCamera.cpp`, `SdlTools.cpp`, `uvccapture.cpp` | descriptor, mapped buffers, the driver's two queues | open, start, wait, read, draw, stop, close | a buffer goes back to the driver before it is converted; a failure at every call | no buffer lost, frames in order, a clean end | partly |
| sensor program `sensor_test.py` | `sock`, `connected`, the button | connect, send, close | threads share all three without a lock | somebody connects, one thread, one socket | modelled |
| distance display `DemoFragment.connectToBluetoothDevice`, `BluetoothReader` | server sockets, readers, bars | accept, read, draw | a server socket per resume; callbacks after the view is gone | what arrives is drawn | partly |
| rendering `render/RenderManager.kt` | render and codec handlers, texture | start and stop of the screen | waits of the camera thread for the render thread | the wait ends | partly: in the camera client |
| bus `utils/bus/EventBus.kt` | versions, observers | `postMessage`, `observe` | version increments from several threads | | not modelled: nobody acts on what is posted |
| `getSuitableSize` in `MultiCameraClient.kt` | none | choice of a preview size | ties and missing sizes | | not modelled: stateless choice |
| camera controls `jni/UVCCameraAdjustments.cpp` | one field | every getter and setter is commented out | | | not modelled |
| `USBVendorId.kt`, `DeviceFilter.java`, microphone audio, image conversions, benchmark, `TestSource`, views | tables, pixels, widgets | | none shared | | not modelled: tables, parsers, arithmetic, unused code, layout |
| libusb, libjpeg-turbo, libuvc | | | | | not modelled: third-party. What callers rely on is modelled and marked external |

The hazards, with their lines and the properties that cover them, are in
`PROJECT.json`. A hazard without a property says there why: most often that the
model has the bad behaviour, which no property can then exclude. Section 4 names
more of these behaviours.

## 2. The modules

| module | models | abstract specification | proofs |
|---|---|---|---|
| `UvcCapture` | capture core | `CaptureSession` | `UvcCaptureProofs` |
| `UsbMonitor` | USB monitor | | `UsbMonitorProofs` |
| `CameraClient` | camera client | `CameraLease` | `CameraClientProofs` |
| `NativeCamera` | native camera | | `NativeCameraProofs` |
| `SettableFuture` | the future | `Decision` | `SettableFutureProofs` |
| `UacAudio` | UAC audio | `AudioRecorder` | `UacAudioProofs` |
| `V4l2Capture` | Linux capture | `V4l2Protocol` | `V4l2CaptureProofs` |
| `SensorLink` | sensor program and distance display | `SensorChannel` | `SensorLinkProofs` |

The abstract specifications say what a component promises in a few actions:
`CaptureSession` a lossy first-in first-out channel inside the listener's
lifecycle, `CameraLease` what the application may count on (the camera and the
renderer are taken within a session, each by one holder at a time, shown only
while held, given back in order, and nothing is left at its end), `Decision` one
answer for all, `AudioRecorder` that only the engine in use records, is replaced
only while silent, and is silent after the release,
`V4l2Protocol` what the driver demands of its user, `SensorChannel` that no
message is shown twice. Each is a PROPERTY of the component's run and a
`Refinement` theorem.

Each `MC...` module only declares the model values of the instances. The
operators marked "Mutant of" beside a definition are bugs that would be plausible
at that place: put in the definition's stead, each of them breaks the property
it is listed with in `PROJECT.json`, which shows that the property depends on the
code.

### UvcCapture

Three threads: the *controller* (the thread in a synchronized Java method, one
operation at a time), the *worker* (`previewThreadFunc`) and the *callback
thread* of libuvc, which exists while a stream does. `ctl`, `wrk` and `cb` say
where they are; `running`, `queue`, `pool`, `request`, `frameSize` are
the fields; `heap` is what `uvc_allocate_frame` has given out and nobody has
freed; `held` and `copy` are the locals of worker and callback; `phase` and
`delivered` record what the listener was told. Steps are as fine as the locks
and the unlocked reads of `mIsRunning` make them: a section of `pool_mutex` is
one step, a section of `preview_mutex` that recycles frames is a step per frame
and holds `previewMutex` in between, each test of `mIsRunning` is a step.

`setPreviewSize` takes no lock and asks for no state: a resize may come between
any two steps of the worker, also between the negotiation and line 306, where
the worker reads `requestWidth` and `requestHeight` again, in two steps
(`AdoptSize`). So a frame of a size that was not announced can be handled, and
the model has it: a callback measures its frame against the old `frameSize`, and
queues it after the worker has purged the queue. `OnlyFirstIsStale` says that
this is all: only the first frame that a session hands to `handleFrame` can have
another size than `onPrepared` announced. `fresh` is an auxiliary variable for it
(no frame was handled since `onPrepared`); no guard reads it.

`CaptureSession` is the promise to a listener: start, then prepared or failed,
then finished, stopped; and between prepared and finished a lossy first-in
first-out channel of bounded capacity. `Session == INSTANCE CaptureSession WITH
channel <- ...` maps the channel to the frame in the worker's hands followed by
the queue. The two frame counters of the class are left out: nothing reads them.

### UsbMonitor

Threads: *main* (requests, broadcasts, `destroy`), the monitor's *handler
thread* `async` (the runnables, in order), and a *camera thread* (`clone` and
`close` of what `UVCCamera.open` makes). `ctrlBlocks` is the map, `conn` the
connection behind each block, `told` what the listener heard last. `close` is
two steps, disconnect and removal from the map, because the code removes by
device without a lock, and `processConnect` is five: lookup, open, put, check,
call.

The safety properties hold while `Undisturbed`: nothing is destroyed and no clone
has been closed. The excluded cases are not forgotten: the close of a clone is
the run `usb_clone`, and `destroy` beside a running connect leaves a connection
open in the model as in the code.

### CameraClient

The main thread (CameraFragment and the main-thread half of ICamera) and one
camera thread per `openCamera`; all share the pointers and fields of the one
`ICamera` object without a lock. A thread stands for what its start message
made: its future, its RenderManager, its UVCCamera. `at` says where each thread
is; opening (thread, handler, message) and closing (message, quit, two fields)
are a step per line, since a failing camera thread closes, too. `plugged`,
`mapped`, `monitor` and `posts` are the device, the monitor's map and life, and
its runnables on the main thread; `told` is the last state posted to the
application and the thread it came from.

Nothing in the code waits for an old camera thread before it starts a new one:
the reopen of `updateResolution` comes after 1000 ms, that of `switchCamera`
after 500 ms, and a connect whenever it is announced. Nothing in the model waits
either: any number of camera threads may be at any place when the next one
starts. Two history variables, which no guard reads, let the properties speak of
it: `overlap` are the threads that lived at the same time as another, `stopped`
those that got a stop message after their start message.

What the code promises is then: a session that no other overlapped gives back
what it took, whatever came before it (`ClosedIsReleased`); a close is announced
after the open for *every* session (`AppKnowsItIsClosed`); the client keeps the
`CameraLease` until two sessions overlap (`KeepsLease`); a thread told to quit
ends (`QuitThreadsEnd`), unless the join of its preview hangs (`DestroyCamera`
may do so, as `capture_stop` shows; later calls to that UVCCamera then wait
for its lock) or the application has crashed. Overlapping sessions have no more
than that: one may stop the other, and a UVCCamera may stay open that no field
points to while `isCameraOpened` is false. `IsCameraOpened` states the contrary;
no run checks it, and as an INVARIANT of `CameraClient.cfg` it makes TLC show how.
The application crashes when a failing thread has quit the new thread before its
handler is made (`MakeHandler`): the looper is null.

Opening leaves early without the CAMERA permission or a control block
(`OpenInternal`); `UnRegister` and `DestroyMonitor` are `unRegisterMultiCamera`,
with `clear`, the end of the monitor and what it posts. A control block cloned by an
`open` that fails is not followed.

### NativeCamera

One UVCCamera, in its three layers: the Java object (`ptr`, `block`, `caches`),
the C++ object (`cam`: context, device, handle, descriptor) and the preview
(`previewHandle`, `window`, `running`). Four threads: the one that holds the
Java lock (`op`, `pc`: open, close and destroy are made of the steps stop,
signal, join, drop, free, clone, connect, delete), the capture worker, which
waits for frames and draws them in a window under `preview_mutex`, and two that
take no Java lock, the *resizer* in `setPreviewSize` and the *capturer* in
`startCapture(surface)` or `stopCapture`. A connect has one good way out and four
bad ones (`Outcomes`), and each leaves the C++ object as the code does. `out`
and `refs` count what the process has obtained and not given back, `lost` what
nobody remembers any more. A call through a null pointer or to something freed
sets `fault`, and the process ends.

The model has these failures of the code, and the properties say they are the
only ones: after a first connect that failed, `mCtrlBlock` is set and there is
no preview, and start, stop, close, destroy or a second open go through a null
pointer; after a failed reopen the preview still points to the freed handle;
`updateCameraParams` before the first connect does the same; `setPreviewDisplay`
and `setCaptureDisplay` lose the reference to a window in two cases; a failed
`uvc_init` loses the libusb context; the resizer and the capturer may meet a
freed camera. (The shared pointer to the preview is copied in one step: that
copying it while `connect` replaces it is a race of its own is left out.)

NativeCamera and UvcCapture meet at `startCapture` and `stopCapture`. Here the
frames have no identity: the worker finds one or does not (`WaitPreviewFrame`),
and then it sleeps. What the two modules share is the stop: the signal is a step
of its own without `preview_mutex`, so that a worker which passed its test before
may go to sleep after it, and the join then keeps the Java lock for ever.
`HangsOnlyInJoin` says that this is the only way for an operation not to return.

### SettableFuture

Threads that set or cancel and threads that get, over the states RUNNING,
COMPLETING, COMPLETED, CANCELLED, INTERRUPTED of the synchronizer, with a step
for the compare-and-set, the store of the value and the release.
AbstractQueuedSynchronizer is external: it puts a thread to sleep and wakes it
when the shared acquire succeeds. `Decision` is the promise.

### UacAudio

The audio thread (`at`: its life and the four steps of a release), an owner that
creates the handler and sends messages, checking `mIsReleased` in a step before
the send, and threads that ask: those in `Timed` give up after 1.5 s, those in
`Untimed` do not. `mSync` is free unless a thread stands between the test of
`mUACAudio` and its use; a release does not take it. `native` is the engine in a
library that is not in the repository: whether its calls fail is open.

### V4l2Capture

One program (`pc`), the driver and the user. The driver has the two queues of
V4L2: `incoming`, the buffers it may fill, `outgoing`, the filled ones. A frame
is its number; it is written from its first packet (`FirstPacket`) to its last
(`LastPacket`) into the first buffer of `incoming`, so that this buffer has lost
what it held before the frame is complete. `content` says which frame each
buffer holds, whole or in part, `result` which one `readFrame` returned and
whether the driver has written over it since. Every
call may fail; an exception ends `main` and an `exit` the process, both without
cleanup, and only the normal end has to leave things in order. The user may
close the window at any moment.

### SensorLink

The sensor program: its connecting threads (`thread`, one place per line that
touches a global), the main loop in `send_values` (`gui`) and the globals `sock`,
`connected` and the button. The application: an accept per resume, a reader per
connection, the posts to the main thread. Between them the Bluetooth stack,
external: it links a socket to any registered server socket and may drop the link.
`overlapped` remembers that a send has failed while the connecting thread had
enabled the button and not yet looked at `connected` again. From then on two
threads close each other's sockets, and the program may stay connected with
`sock` None and no thread. Also in the model: a server socket accepts once and is
never closed, so a sensor may be linked to one nobody accepts on; a message that
arrives after the fragment is gone crashes the application (`requireActivity`),
and so does an `accept` that throws (`AcceptFails`).
A reader at the end of its stream spins; that changes nothing and is a stutter.

## 3. The runs

| run | question | instance | result |
|---|---|---|---|
| `capture_safety` | ownership and bound of buffers, nothing left after a stop | 5 buffers, queue 2, pool 4, 2 sizes, 5 frames, resize at any time | holds; 678,136 states |
| `capture_live` | refinement of CaptureSession; every queued frame leaves, every start is answered, where a stop can hang | 4 buffers, queue 2, pool 1, 3 frames, fair | holds; 111,056 states |
| `capture_stop` | does `stopPreview` return? | queue 1, 1 frame, fair | no: lost wakeup |
| `usb_monitor` | one connection, none lost, order and delivery of the listener's calls, is what it believes true, how long does a failed open stay | 1 device, 3 blocks, 2 requests, 1 clone, fair | holds; 22,911 states |
| `usb_clone` | does the monitor leave clones alone? | same | no |
| `usb_detach` | is `onDetach` after the disconnect? | 2 blocks, no clone | no |
| `camera_client` | what does a session give back, is a close known, does it end, refinement of CameraLease | 2 camera threads that may overlap, 2 events, fair | holds; 1,030,830 states |
| `settable_future` | one winner, same answers, no hang, refinement of Decision | 3 setters, 2 getters (one timed), 2 values, fair | holds; 82,560 states |
| `uac_audio` | refinement of AudioRecorder, sleepers get up, what disturbs a question, release silences | 4 messages, 3 asking threads (one timed), fair | holds; 221,098 states |
| `native_camera` | are all references accounted for, are the caches of the open camera, what can a call meet, where can it hang? | 3 connects, 2 windows, 2 references each, fair | holds; 205,551 states |
| `v4l2_capture` | no buffer lost, when is a frame torn, order, clean end, refinement of V4l2Protocol, every filled buffer drawn | 1 to 4 buffers, 7 frames, fair | holds; 18,155 states |
| `sensor_link` | does somebody connect, when is there one thread, refinement of SensorChannel, is what arrives drawn? | 2 threads, 2 sockets, 2 resumes, 2 messages, 1 loss, fair | holds; 237,780 states |

Some invariants of the modules are in no run, because a property of the run says
more; they are proved, for every value of the constants, in section 5.
`NoSleepOnFrames` is the safety core of `EveryQueuedFrameLeaves`,
`NoCircularWait` of `StopHangsOnlyInWait`, `WaitersAreServed` of
`GettersReturn`, `SleepersHaveNoEngine` of `SleepersGetUp`;
`NoRecordingLost` is part of `IsRecorder` (only the engine in use records), and the type
invariants are part of every inductive invariant. To look for a counterexample
to one of them, add it to the INVARIANTS of the cfg of its component.

**Bounds.** *Capture:* the queue of 2 is the least in which order, overflow and
a partial flush differ; pool = queue + 2 is the least pool that never frees (and
the shape of the 8 and 4 that UVCPreviewJni passes), pool 1 makes every path of
allocation and freeing happen; one frame more than the queue and the two hands
hold makes the overflow happen; two sizes make a stale size visible. The clock
`MaxStamp` bounds the frames of a behaviour, not of a session: sessions repeat.
*Monitor:* with one device, detach, two requests (the second finds the block of
the first or not) and a clone meet in every order; devices do not interact in
the code but through the queues. *Client:* two sessions are enough for an
overlap. Two events (connects, refusals, closes, changes of resolution, an
unregister, an unplug) make each pair of them meet; with three, which takes 8.4
million states up to symmetry and no time is left for liveness, the safety
properties hold as well, and the theorems have them for any number of events
and threads. *Future:* three completers give a winner,
one that loses before and one that loses after the publication. *Audio:* four
messages allow init, start, a second start that fails, and init or release.
*Native camera:* the first connect fails or not, the second replaces or follows
it, the third meets what the second left; two windows, each with two references,
make a reference lost and a reference replaced, by a locked call or by another. *Linux capture:* the driver
grants one to four buffers, the program asks for four; seven frames are a round
of four and most of the next, so that a frame is overwritten and drawn again.
*Sensor:* two threads are the overlap, a third would need a second failure in
the same place; two resumes make a connection to a server socket nobody accepts
on. Symmetry is used only in `capture_safety`, whose properties are invariants.

**Deadlock** is checked in the capture runs. The others say CHECK_DEADLOCK FALSE
because the system may stop: messages, requests, connects and threads are
bounded, a thread that has ended does nothing, and neither does a program that
has ended or crashed.

**Fairness.** Always weak and only of program threads: a thread that can go on
does (worker, callback, handler, camera and audio threads, a controller inside
an operation, a getter whose wait is over; timeouts do elapse where the code
sets one). Nobody is obliged to start, stop, plug in, unplug or ask. libuvc is
assumed to deliver the callback it has begun. In `native_camera` it is the
operation that has begun and the worker while it is awake (nothing wakes a
worker whose stop signal was lost), in `v4l2_capture` the program, in
`sensor_link` each connecting thread, a send that has begun, each reader and the
main thread's queue; camera, driver, user and Bluetooth stack owe nothing.
`uac_audio` needs no strong fairness for `mSync` because each thread asks once.

## 4. What the runs found

Each finding in `PROJECT.json` quotes the line that promises otherwise.

1. **A stop can hang for ever** (`capture_stop`, `jni/UVCPreviewBase.cpp:169`).
   `stopCapture` signals without the lock and the worker waits without looking at
   `mIsRunning`: a stop between the worker's test and its wait is lost, no frame
   is queued any more, `join` does not return. `StopHangsOnlyInWait` shows that
   this is the only place where a stop can hang.
2. **Closing a clone removes the original** (`usb_clone`, `USBMonitor.java:824`),
   against line 704. Every UVCCamera works on a clone, so every close does it.
3. **A detach between open and put** announces `onDetach` and leaves the device
   open (`usb_detach`, `USBMonitor.java:291`), against line 85.

Seen in the models, most of them recorded as hazards with a note: no `onFinished` after a
failed start (`StartIsAnswered` is answered by `onFailed` alone); a resize between
negotiation and adoption lets all later frames of the session be dropped as
broken, and one frame of an unannounced size reach `handleFrame`; sessions that
overlap stop each other, leave a camera open that nothing points to, or crash
the application at line 358 (section 2, CameraClient); after a change
of resolution an unplugged camera is forgotten while it runs, which is 2. seen
from the application; `destroy` beside a connect; two readers overlap, so that an
older distance may be drawn after a newer one; the control block cloned by a failed
`UVCCamera.open` is never closed; the delayed reopen is not cancelled; a getter
of the audio handler that passes `isReleased` before a release and sleeps after
the last `notifyAll` sleeps for ever; a getter in the middle of a question may
find its engine released; a second init abandons an engine that does not record;
an audio thread whose handler comes too late for `getHandler` loops with nobody to
release it;
and what sections NativeCamera and SensorLink above list.

## 5. The proofs

All theorems are about `Spec` of the module, for every value of the constants
allowed by its assumption (`CaptureConstants`, `MonitorConstants`,
`ClientConstants`, `CameraConstants`, `FutureConstants`, `AudioConstants`,
`V4l2Constants`, `SensorConstants`), which TLC evaluates in the runs. Each
module names an inductive invariant, proves a lemma per part of it (or per
action, where an action disturbs many parts), and derives the theorems from it.

**UvcCaptureProofs**: `TypeCorrect`, `FrameBound` (at most `MaxFramesQueue + 2`
buffers alive, whatever the capacities), `NeverSleepsOnFrames`. The bound is not
inductive by itself: a callback that found the pool empty is about to allocate,
so one buffer fewer may be alive there (`BoundInv`). That needs to know when
the hands of worker and callback are empty (`HoldInv`), when the queue is
(`QueueInv`: between sessions, and while the worker has not opened a stream),
and how the places of controller, worker and stream go together
(`ControlInv`). Each of the five parts has a lemma with a step per action.
`NeverSleepsOnFrames` then needs `wrk = "wait"` to be left by the action that
queues a frame.

*Frames* (the second half of the module). `OneOwner`: every allocated buffer is
in exactly one of pool, queue and the two hands. The inductive form `OwnInv`
says that neither sequence has an entry twice, that the four places are apart,
and that together they are the heap; lemmas say what pushing, popping and
shifting do to such a sequence. `StopLeavesNothing` adds `ControlInv` and
`QueueInv`. `StaleFrame`: whoever resizes when, only the first frame of a session
can have another size than was announced. `SizeInv` follows a frame of such a
size from the callback through the queue to the worker: after the purge the queue
is empty, and the one callback thread holds one copy, so such a frame is
the first of the queue and the worker has handled none yet; every later frame is
measured against the size that was adopted. `Refinement`: the module implements
`CaptureSession` for every capacity of queue and pool. Every step leaves the
channel, appends to it within its bound, drops its front or delivers it
(`ChannelStep`); `TimeInv` says that stamps increase along the channel and that
what was delivered is older than all of it, so that delivery is in order;
`PhaseInv` and `LifecycleStep` do the same for the listener's calls.

*Locks.* `StopsDoNotDeadlock`: `waitsFor` is the graph of the two joins, the
lock and the listener's use of it, and no thread waits for itself through it.
`ControlInv` suffices: the lock is taken exactly at two places, which wait for
nobody. It is the safety core of `StopHangsOnlyInWait`.

**UsbMonitorProofs**: `TypeCorrect`, `Reachable`, `OneConnection`, `DetachIsLast`,
`Stuck`, `Believed`.
`BlockInv` keeps the monitor's blocks and the clones apart; `OwnerInv` says that
between the lookup and the put of a connect the device has no entry in the map,
and that a detach in progress holds the only open connection. `OrderInv` follows
a detached device through both queues: once a detach is broadcast the device is
gone, no connect stands behind it, and this passes on to the handler's inbox and
to what the listener was told.
`Stuck` (a failed open keeps its block in the map until a detach, the close of a
clone or a destroy) needs `StuckInv`, which says that nobody puts another block
over the one the handler thread looks at, and that it calls `onConnect` only for
one that has not failed. `Believed`: what the listener was last told is
true or is being put right. `BelievedInv` follows a block from the check of its
connection to the call: a detach that closes it in between is itself on its way
to the listener (`Correcting`), and stays so until it is told.

**CameraClientProofs**, for any number of camera threads, however their sessions
overlap, and any number of events: `TypeCorrect`, `Released`, `AppKnows`,
`Refinement`. `AloneInv` is about a thread that lives and that no other has
overlapped: the pointers and the handler are its own or null, it gets its stop
before it is told to quit (`AlonePointers`), and what it has taken is in the
fields, from where its stop gives it back (`AloneHolds`). It is preserved because a
second thread that begins makes both of them members of `overlap`, for ever.
`CleanInv` carries the result over the end of the thread: what ended alone
stays clean whatever later threads do, and with an earlier overlap left behind a
new thread that lives alone still begins clean (`NewInv`). `OpenInv` is the
hand-over inside `openCamera`, where the handler is still that of the thread
before. `StopInv` holds for all threads: one that got a stop has it last in its
queue, or has handled it and was not the last to tell OPENED; with `EndedInv` it
gives `AppKnows`. `Refinement`: until two sessions overlap the client implements
`CameraLease`. `ShownInv` adds that nothing is shown while no thread lives,
`LoneThread` that at most one thread holds anything, and `LeaseMoves` maps each
of its steps to one of the lease's or to a stutter.

**NativeCameraProofs**: `TypeCorrect`, `WindowReferences`, `NothingLeaks`,
`CachesFresh` (the cached sizes and controls belong to the open camera, also
across a failed reopen), `ConnectedIsSafe`, with the threads outside the Java lock
interleaved at will. `OperationInv` says what each place of an
operation implies about worker, handle and block, `PreviewInv` that a preview
that may be used works on the handle that is open.

**V4l2CaptureProofs**: `TypeCorrect`, `Circulation`, `OverwrittenOnlyBehind`,
`DrawOrder`, `CleanEnd`, `Refinement`. `PlaceInv` and `DistinctInv` say that a buffer is in one
place, `OrderInv` that the filled buffers hold increasing frames, `TakenInv`
what must have happened since `readFrame` gave its buffer back, `FillInv` that the
frame being written is the newest and, unless the image is torn, not in the
buffer being converted, `ShownInv` that whatever waits is newer than what was
drawn, but for a torn frame. `Refinement`:
the program keeps the `V4l2Protocol`. The place of a buffer (absent, mapped,
queued, filled) is computed from the two queues and the mapping; a lemma per
group of actions shows that each moves one buffer, or starts or ends the phase.
`CountInv` says that the stream starts with two buffers or more, and that both
queues are empty when the buffers are unmapped.

**SensorLinkProofs**: `TypeCorrect`, `NeverGivesUp`, `OneThread`. `SomeoneTries` is
nearly inductive by itself; `OneThread` needs `LinkInv`, which ties the place
of the only thread and of the main loop to the globals until `overlapped`.
`Refinement`: from the Send button to the bars the system is a `SensorChannel`.
`NumberInv` says that a message is in one pipe or among the posts, and there
once; lemmas on `Append` and `Tail` say what each step does to the set of those
that travel, which is all the abstract steps see. That two readers let messages
overtake each other is allowed by `SensorChannel` and happens.

**SettableFutureProofs**: `TypeCorrect` (with it, that the exception of
`getValue` for an invalid state is never thrown), `UniqueWinner`, `Agreement`,
`Served` (who waits for a decision that has begun has a thread that makes it:
the safety core of `GettersReturn`, from `DecisionComes`) and `Refinement`: the module implements `Decision`. `SetterInv` says what each
place of a setter means for state and value (between compare-and-set and
release the state is COMPLETING and its own), `AuthorInv` that a final state
has an author who has returned true; the decision of the mapping is the outcome
of the author's call, and it changes exactly at the release.

**UacAudioProofs**: `TypeCorrect`, `RecordingKept`, `SleepersWait`,
`QuestionsAreSafe`, `Refinement`. Counting the messages (`CountInv`) shows that an
initialisation finds a fresh object (`FreshInv`); `PhaseInv` ties the position
of the audio thread to `mUACAudio` and its engine; `UseInv` says that inside
`mSync` the engine stays unless a release is under way. `Refinement`: the handler
is an `AudioRecorder` whose engine in use is `mUACAudio`. With `NoRecordingLost`
what records is that engine or nothing (`SoundingIs`), and `RecorderStep` follows
what each message does to both, a failed start included.

Only model-checked: liveness (`EveryQueuedFrameLeaves`, `StartIsAnswered`,
`StopHangsOnlyInWait`, `UnplugIsAnnounced`, `QuitThreadsEnd`, `GettersReturn`,
`SleepersGetUp`, `ReleaseSilences`, `HangsOnlyInJoin`, `FilledIsDrawn`,
`LineReachesScreen`), which is outside the prover.

## 6. Not modelled

Nearly all lines of the repository are third-party: three copies of
libjpeg-turbo and libusb. They are not this program's logic; what the program
relies on in them (a descriptor, a device, a handle obtained and released) is
external in NativeCamera. libuvc is a submodule that is not there; its thread
and its callbacks are modelled from their use.

Of the repository's own code:

- camera controls: all getters and setters are commented out;
- rendering beyond start, wait and stop: the messages of the render and codec
  threads affect nothing else, nobody sends those for the codec or a photo, and
  drawing is OpenGL;
- the event bus: only its ready message has an observer, and that does nothing;
- `getSuitableSize`, `DeviceFilter`, the vendor table, parsers and conversions:
  functions without state, which unit tests reach;
- microphone audio, `TestSource`, `uvccapture_gtk`: unused or not built;
- in the modelled parts: several devices in one client, device enumeration, preview
  callbacks (commented out natively), the result of `setPreviewSize`, the callback
  list of the audio handler, `read()` and user pointers on Linux (dead
  branches), the text of messages.

## 7. What is left

1. A composition of CameraClient with NativeCamera in place of its `cam`, which
   would show the failed connect in the application's hands.
2. Two devices at once in CameraClient, each with its own ICamera over the one
   monitor, which the library allows and this application does not do.
3. Proofs: that the messages of one sensor connection are drawn in the order in
   which they were sent, and the safety cores of `QuitThreadsEnd` and
   `HangsOnlyInJoin` (who waits has somebody to wake it), as for the future and
   the capture.
