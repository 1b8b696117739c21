-------------------------- MODULE UvcCaptureProofs --------------------------
(***************************************************************************)
(* Theorems about UvcCapture, for every set of buffers and sizes and every *)
(* capacity of the queue and of the pool.                                  *)
(***************************************************************************)
EXTENDS UvcCapture, SequenceTheorems, FiniteSetTheorems, TLAPS

(* Where each thread is tells what it owns and what the others cannot do.  *)
ControlInv ==
  /\ ctl = "spawn" => running /\ wrk = "none"
  /\ ctl \in {"signal", "join"} => ~running /\ wrk # "none"
  /\ ctl \in {"flush", "clear", "clearPool", "destroyed"}
       => ~running /\ wrk = "none"
  /\ ctl = "idle" => (running <=> wrk # "none")
  /\ stream = NoSize <=> wrk \in {"none", "negotiate", "stream", "fail", "done"}
  /\ stream = NoSize => cb = "idle"
  /\ previewMutex = "ctl" <=> ctl = "clear"
  /\ previewMutex = "wrk" <=> wrk = "purge"

(* A thread has a buffer in its hands exactly in these places.             *)
HoldInv ==
  /\ cb = "idle" => copy = NoEntry
  /\ copy.frame = NoFrame <=> cb \notin {"duplicate", "add", "drop"}
  /\ wrk \notin {"check", "handle", "recycle"} => held = NoEntry
  /\ wrk = "handle" => held.frame # NoFrame

(* The queue is empty before the stream of a session and after its flush.  *)
QueueInv ==
  /\ Len(queue) <= MaxFramesQueue
  /\ wrk = "none" /\ ctl \notin {"flush", "clear"} => queue = <<>>
  /\ wrk \in {"negotiate", "stream", "fail"} => queue = <<>>

(* The bound, and the one more buffer that a callback which found the pool *)
(* empty is about to allocate.                                             *)
BoundInv ==
  /\ LiveFrameBound
  /\ cb = "allocate" =>
       Len(pool) + Len(queue) + Holding(held) <= MaxFramesQueue + 1

IInv == TypeOK /\ ControlInv /\ HoldInv /\ QueueInv /\ BoundInv


-----------------------------------------------------------------------------
(* Taking the front of a queue and the back of the pool. *)
LEMMA ShorterQueue ==
  ASSUME NEW S, NEW q \in Seq(S), q # <<>>
  PROVE  /\ Head(q) \in S
         /\ Tail(q) \in Seq(S)
         /\ Len(q) \in Nat /\ Len(q) >= 1 /\ Len(Tail(q)) = Len(q) - 1
OBVIOUS

LEMMA DropLast ==
  ASSUME NEW S, NEW p \in Seq(S), p # <<>>
  PROVE  /\ p[Len(p)] \in S
         /\ SubSeq(p, 1, Len(p) - 1) \in Seq(S)
         /\ Len(p) \in Nat /\ Len(p) >= 1 /\ Len(SubSeq(p, 1, Len(p) - 1)) = Len(p) - 1
<1>1. Len(p) \in Nat /\ Len(p) >= 1 /\ \A i \in 1..Len(p) : p[i] \in S
  BY EmptySeq, ElementOfSeq
<1> DEFINE n == Len(p) - 1
<1>2. n \in Nat /\ n + 1 = Len(p) /\ \A i \in 1..n : p[i] \in S
  BY <1>1
<1> HIDE DEF n
<1>3. /\ SubSeq(p, 1, n) \in Seq(S)
      /\ Len(SubSeq(p, 1, n)) = IF 1 <= n THEN n - 1 + 1 ELSE 0
  BY ONLY <1>2, SubSeqProperties
<1>4. Len(SubSeq(p, 1, n)) = n
  BY ONLY <1>2, <1>3
<1>5. p[Len(p)] \in S
  BY <1>1
<1>6. QED
  BY <1>1, <1>3, <1>4, <1>5 DEF n

(* What the two kinds of entry have in common. *)
LEMMA EntryFacts ==
  /\ NoEntry \in Entry /\ NoEntry \notin Captured /\ NoEntry.frame = NoFrame
  /\ NoEntry.stamp \in 0..MaxStamp
  /\ \A e \in Captured : /\ e \in Entry /\ e.frame \in Frames /\ e.frame # NoFrame
                         /\ e.stamp \in 0..MaxStamp
  /\ \A e \in Entry : e.frame # NoFrame => e \in Captured
  /\ \A e \in Entry, f \in Frames :
       LET g == [e EXCEPT !.frame = f] IN g \in Captured /\ g.frame = f
BY CaptureConstants DEF NoEntry, Entry, Captured

(* recycle_frame never lengthens the pool by more than one. *)
LEMMA RecycleFacts ==
  ASSUME pool \in Seq(Frames), heap \in SUBSET Frames, NEW f \in Frames, Recycle(f)
  PROVE  /\ pool' \in Seq(Frames) /\ heap' \in SUBSET Frames
         /\ Len(pool) \in Nat /\ Len(pool') \in Nat
         /\ Len(pool') <= Len(pool) + 1
BY DEF Recycle

(* Types are kept; the places of the buffers matter, because only a buffer *)
(* may enter the pool.                                                     *)
LEMMA TypeStep ==
  TypeOK /\ HoldInv /\ [Next]_vars => TypeOK'
<1> SUFFICES ASSUME TypeOK /\ HoldInv, [Next]_vars
             PROVE  TypeOK'
  OBVIOUS
<1> USE CaptureConstants DEF vars, control, sizes, frames, history, TypeOK, HoldInv, Callers
<1>1. ASSUME NEW s \in Sizes, SetPreviewSize(s) PROVE TypeOK'
  BY <1>1 DEF SetPreviewSize
<1>2. CASE StartCapture
  BY <1>2 DEF StartCapture
<1>3. ASSUME NEW caller \in Callers, StopCapture(caller) PROVE TypeOK'
  <2>1. ctl' \in {"signal", "flush"} /\ running' \in BOOLEAN /\ stopper' \in Callers
    BY <1>3 DEF StopCapture
  <2>2. QED
    BY <1>3, <2>1 DEF StopCapture
<1>4. CASE SpawnWorker
  BY <1>4, SMTT(60) DEF SpawnWorker
<1>5. CASE SignalWorker
  BY <1>5 DEF SignalWorker, Signal
<1>6. CASE JoinWorker
  BY <1>6 DEF JoinWorker
<1>7. CASE FlushLock
  BY <1>7 DEF FlushLock
<1>8. CASE FlushOne
  BY <1>8, ShorterQueue, RecycleFacts, EntryFacts DEF FlushOne, ClearOne
<1>9. CASE FlushUnlock
  BY <1>9 DEF FlushUnlock
<1>10. CASE ClearPool
  BY <1>10 DEF ClearPool
<1>11. CASE Negotiate
  BY <1>11 DEF Negotiate
<1>12. CASE StartStreaming
  BY <1>12 DEF StartStreaming
<1>13. CASE AdoptSize
  BY <1>13 DEF AdoptSize
<1>14. CASE PurgeLock
  BY <1>14 DEF PurgeLock
<1>15. CASE PurgeOne
  BY <1>15, ShorterQueue, RecycleFacts, EntryFacts DEF PurgeOne, ClearOne
<1>16. CASE PurgeUnlock
  BY <1>16 DEF PurgeUnlock
<1>17. CASE OnPrepared
  BY <1>17 DEF OnPrepared
<1>18. CASE TestRunning
  BY <1>18 DEF TestRunning
<1>19. CASE WaitPreviewFrame
  <2>1. queue' \in Seq(Captured) /\ held' \in Captured \cup {NoEntry}
    <3>1. CASE queue = <<>>
      BY <1>19, <3>1 DEF WaitPreviewFrame
    <3>2. CASE queue # <<>>
      BY <1>19, <3>2, ShorterQueue DEF WaitPreviewFrame, TakeFront
    <3>3. QED
      BY <3>1, <3>2
  <2>2. wrk' \in {"wait", "check"}
    BY <1>19 DEF WaitPreviewFrame, TakeFront
  <2>3. QED
    BY <1>19, <2>1, <2>2 DEF WaitPreviewFrame
<1>20. CASE WaitReturns
  <2>1. queue' \in Seq(Captured) /\ held' \in Captured \cup {NoEntry}
    <3>1. \/ queue # <<>> /\ queue' = Tail(queue) /\ held' = Head(queue)
          \/ queue' = queue /\ held' = NoEntry
      BY <1>20 DEF WaitReturns, TakeFront
    <3>2. queue \in Seq(Captured)
      OBVIOUS
    <3>3. QED
      BY <3>1, <3>2, ShorterQueue
  <2>2. wrk' \in {"wait", "check"}
    BY <1>20 DEF WaitReturns, TakeFront
  <2>3. QED
    BY <1>20, <2>1, <2>2 DEF WaitReturns
<1>21. CASE CheckFrame
  BY <1>21, EntryFacts DEF CheckFrame
<1>22. CASE HandleFrame
  <2>1. held.stamp \in 0..MaxStamp
    BY EntryFacts
  <2>2. wrk' = "recycle" /\ fresh' \in BOOLEAN
    BY <1>22 DEF HandleFrame
  <2>3. QED
    BY <1>22, <2>1, <2>2 DEF HandleFrame
<1>23. CASE RecycleHeld
  BY <1>23, RecycleFacts, EntryFacts DEF RecycleHeld, RecycleEntry
<1>24. CASE OnFinished
  BY <1>24 DEF OnFinished
<1>25. CASE StopStreaming
  BY <1>25 DEF StopStreaming
<1>26. CASE OnFailed
  BY <1>26 DEF OnFailed
<1>27. CASE SpuriousWakeup
  BY <1>27 DEF SpuriousWakeup
<1>28. CASE FrameArrives
  BY <1>28 DEF FrameArrives, Entry
<1>29. CASE MeasureFrame
  BY <1>29, EntryFacts DEF MeasureFrame
<1>30. CASE TestAgain
  BY <1>30, EntryFacts DEF TestAgain
<1>31. CASE GetFrame
  <2>1. pool' \in Seq(Frames) /\ copy' \in Entry
    <3>1. CASE pool = <<>>
      BY <1>31, <3>1 DEF GetFrame
    <3>2. CASE pool # <<>>
      <4>1. pool[Len(pool)] \in Frames /\ SubSeq(pool, 1, Len(pool) - 1) \in Seq(Frames)
        BY <3>2, DropLast
      <4>2. QED
        BY <1>31, <3>2, <4>1, EntryFacts DEF GetFrame
    <3>3. QED
      BY <3>1, <3>2
  <2>2. cb' \in {"duplicate", "allocate"}
    BY <1>31 DEF GetFrame
  <2>3. QED
    BY <1>31, <2>1, <2>2 DEF GetFrame
<1>32. CASE AllocateFrame
  BY <1>32, EntryFacts DEF AllocateFrame
<1>33. CASE DuplicateFrame
  BY <1>33, EntryFacts DEF DuplicateFrame
<1>34. CASE AddPreviewFrame
  <2>1. copy \in Captured
    BY <1>34, EntryFacts DEF AddPreviewFrame
  <2>2. queue' \in Seq(Captured) /\ copy' \in Entry
    BY <1>34, <2>1, EntryFacts DEF AddPreviewFrame
  <2>3. wrk' \in {wrk, "woken"} /\ cb' \in {"idle", "drop"}
    BY <1>34 DEF AddPreviewFrame, Signal
  <2>4. QED
    BY <1>34, <2>2, <2>3 DEF AddPreviewFrame
<1>35. CASE RecycleCopy
  BY <1>35, RecycleFacts, EntryFacts DEF RecycleCopy
<1>36. CASE UNCHANGED vars
  BY <1>36
<1>37. QED
  BY <1>1, <1>2, <1>3, <1>4, <1>5, <1>6, <1>7, <1>8, <1>9, <1>10, <1>11, <1>12, <1>13, <1>14, <1>15, <1>16, <1>17, <1>18, <1>19, <1>20, <1>21, <1>22, <1>23, <1>24, <1>25, <1>26, <1>27, <1>28, <1>29, <1>30, <1>31, <1>32, <1>33, <1>34, <1>35, <1>36
  DEF Next, ClientCall, ControllerStep, WorkerStep, CallbackStep, Destroyed

(* Each thread gains and loses its buffer in the places HoldInv names.      *)
LEMMA HoldStep ==
  TypeOK /\ ControlInv /\ HoldInv /\ [Next]_vars => HoldInv'
<1> SUFFICES ASSUME TypeOK /\ ControlInv /\ HoldInv, [Next]_vars
             PROVE  HoldInv'
  OBVIOUS
<1> USE CaptureConstants DEF vars, control, sizes, frames, history, TypeOK, ControlInv, HoldInv
<1>1. ASSUME NEW s \in Sizes, SetPreviewSize(s) PROVE HoldInv'
  BY <1>1 DEF SetPreviewSize
<1>2. CASE StartCapture
  BY <1>2 DEF StartCapture
<1>3. ASSUME NEW caller \in Callers, StopCapture(caller) PROVE HoldInv'
  BY <1>3 DEF StopCapture
<1>4. CASE SpawnWorker
  BY <1>4 DEF SpawnWorker
<1>5. CASE SignalWorker
  BY <1>5 DEF SignalWorker, Signal
<1>6. CASE JoinWorker
  BY <1>6 DEF JoinWorker
<1>7. CASE FlushLock
  BY <1>7 DEF FlushLock
<1>8. CASE FlushOne
  BY <1>8, ShorterQueue, RecycleFacts, EntryFacts DEF FlushOne, ClearOne
<1>9. CASE FlushUnlock
  BY <1>9 DEF FlushUnlock
<1>10. CASE ClearPool
  BY <1>10 DEF ClearPool
<1>11. CASE Negotiate
  BY <1>11 DEF Negotiate
<1>12. CASE StartStreaming
  BY <1>12 DEF StartStreaming
<1>13. CASE AdoptSize
  BY <1>13 DEF AdoptSize
<1>14. CASE PurgeLock
  BY <1>14 DEF PurgeLock
<1>15. CASE PurgeOne
  BY <1>15, ShorterQueue, RecycleFacts, EntryFacts DEF PurgeOne, ClearOne
<1>16. CASE PurgeUnlock
  BY <1>16 DEF PurgeUnlock
<1>17. CASE OnPrepared
  BY <1>17 DEF OnPrepared
<1>18. CASE TestRunning
  BY <1>18 DEF TestRunning
<1>19. CASE WaitPreviewFrame
  BY <1>19, ShorterQueue, EntryFacts DEF WaitPreviewFrame, TakeFront
<1>20. CASE WaitReturns
  BY <1>20, ShorterQueue, EntryFacts DEF WaitReturns, TakeFront
<1>21. CASE CheckFrame
  BY <1>21, EntryFacts DEF CheckFrame
<1>22. CASE HandleFrame
  BY <1>22, EntryFacts DEF HandleFrame
<1>23. CASE RecycleHeld
  BY <1>23, RecycleFacts, EntryFacts DEF RecycleHeld, RecycleEntry
<1>24. CASE OnFinished
  BY <1>24 DEF OnFinished
<1>25. CASE StopStreaming
  BY <1>25 DEF StopStreaming
<1>26. CASE OnFailed
  BY <1>26 DEF OnFailed
<1>27. CASE SpuriousWakeup
  BY <1>27 DEF SpuriousWakeup
<1>28. CASE FrameArrives
  BY <1>28 DEF FrameArrives, Entry
<1>29. CASE MeasureFrame
  BY <1>29, EntryFacts DEF MeasureFrame
<1>30. CASE TestAgain
  BY <1>30, EntryFacts DEF TestAgain
<1>31. CASE GetFrame
  BY <1>31, DropLast, EntryFacts DEF GetFrame
<1>32. CASE AllocateFrame
  BY <1>32, EntryFacts DEF AllocateFrame
<1>33. CASE DuplicateFrame
  BY <1>33, EntryFacts DEF DuplicateFrame
<1>34. CASE AddPreviewFrame
  BY <1>34, EntryFacts DEF AddPreviewFrame, Signal
<1>35. CASE RecycleCopy
  BY <1>35, RecycleFacts, EntryFacts DEF RecycleCopy
<1>36. CASE UNCHANGED vars
  BY <1>36
<1>37. QED
  BY <1>1, <1>2, <1>3, <1>4, <1>5, <1>6, <1>7, <1>8, <1>9, <1>10, <1>11, <1>12, <1>13, <1>14, <1>15, <1>16, <1>17, <1>18, <1>19, <1>20, <1>21, <1>22, <1>23, <1>24, <1>25, <1>26, <1>27, <1>28, <1>29, <1>30, <1>31, <1>32, <1>33, <1>34, <1>35, <1>36
  DEF Next, ClientCall, ControllerStep, WorkerStep, CallbackStep, Destroyed

(* The threads keep to their places.                                        *)
LEMMA ControlStep ==
  TypeOK /\ ControlInv /\ [Next]_vars => ControlInv'
<1> SUFFICES ASSUME TypeOK /\ ControlInv, [Next]_vars
             PROVE  ControlInv'
  OBVIOUS
<1> USE CaptureConstants DEF vars, control, sizes, frames, history, TypeOK, ControlInv
<1>1. ASSUME NEW s \in Sizes, SetPreviewSize(s) PROVE ControlInv'
  BY <1>1 DEF SetPreviewSize
<1>2. CASE StartCapture
  BY <1>2 DEF StartCapture
<1>3. ASSUME NEW caller \in Callers, StopCapture(caller) PROVE ControlInv'
  BY <1>3 DEF StopCapture
<1>4. CASE SpawnWorker
  BY <1>4 DEF SpawnWorker
<1>5. CASE SignalWorker
  BY <1>5 DEF SignalWorker, Signal
<1>6. CASE JoinWorker
  BY <1>6 DEF JoinWorker
<1>7. CASE FlushLock
  BY <1>7 DEF FlushLock
<1>8. CASE FlushOne
  BY <1>8 DEF FlushOne, ClearOne
<1>9. CASE FlushUnlock
  BY <1>9 DEF FlushUnlock
<1>10. CASE ClearPool
  BY <1>10 DEF ClearPool
<1>11. CASE Negotiate
  BY <1>11 DEF Negotiate
<1>12. CASE StartStreaming
  BY <1>12 DEF StartStreaming
<1>13. CASE AdoptSize
  BY <1>13 DEF AdoptSize
<1>14. CASE PurgeLock
  BY <1>14 DEF PurgeLock
<1>15. CASE PurgeOne
  BY <1>15 DEF PurgeOne, ClearOne
<1>16. CASE PurgeUnlock
  BY <1>16 DEF PurgeUnlock
<1>17. CASE OnPrepared
  BY <1>17 DEF OnPrepared
<1>18. CASE TestRunning
  BY <1>18 DEF TestRunning
<1>19. CASE WaitPreviewFrame
  BY <1>19 DEF WaitPreviewFrame, TakeFront
<1>20. CASE WaitReturns
  BY <1>20 DEF WaitReturns, TakeFront
<1>21. CASE CheckFrame
  BY <1>21 DEF CheckFrame
<1>22. CASE HandleFrame
  BY <1>22 DEF HandleFrame
<1>23. CASE RecycleHeld
  BY <1>23 DEF RecycleHeld, RecycleEntry
<1>24. CASE OnFinished
  BY <1>24 DEF OnFinished
<1>25. CASE StopStreaming
  BY <1>25 DEF StopStreaming
<1>26. CASE OnFailed
  BY <1>26 DEF OnFailed
<1>27. CASE SpuriousWakeup
  BY <1>27 DEF SpuriousWakeup
<1>28. CASE FrameArrives
  BY <1>28 DEF FrameArrives, Entry
<1>29. CASE MeasureFrame
  BY <1>29 DEF MeasureFrame
<1>30. CASE TestAgain
  BY <1>30 DEF TestAgain
<1>31. CASE GetFrame
  BY <1>31 DEF GetFrame
<1>32. CASE AllocateFrame
  BY <1>32 DEF AllocateFrame
<1>33. CASE DuplicateFrame
  BY <1>33 DEF DuplicateFrame
<1>34. CASE AddPreviewFrame
  BY <1>34 DEF AddPreviewFrame, Signal
<1>35. CASE RecycleCopy
  BY <1>35 DEF RecycleCopy
<1>36. CASE UNCHANGED vars
  BY <1>36
<1>37. QED
  BY <1>1, <1>2, <1>3, <1>4, <1>5, <1>6, <1>7, <1>8, <1>9, <1>10, <1>11, <1>12, <1>13, <1>14, <1>15, <1>16, <1>17, <1>18, <1>19, <1>20, <1>21, <1>22, <1>23, <1>24, <1>25, <1>26, <1>27, <1>28, <1>29, <1>30, <1>31, <1>32, <1>33, <1>34, <1>35, <1>36
  DEF Next, ClientCall, ControllerStep, WorkerStep, CallbackStep, Destroyed

(* The queue keeps its capacity and is empty outside a session.             *)
LEMMA QueueStep ==
  TypeOK /\ ControlInv /\ HoldInv /\ QueueInv /\ [Next]_vars => QueueInv'
<1> SUFFICES ASSUME TypeOK /\ ControlInv /\ HoldInv /\ QueueInv, [Next]_vars
             PROVE  QueueInv'
  OBVIOUS
<1> USE CaptureConstants DEF vars, control, sizes, frames, history, TypeOK, ControlInv, HoldInv, QueueInv
<1>1. ASSUME NEW s \in Sizes, SetPreviewSize(s) PROVE QueueInv'
  BY <1>1 DEF SetPreviewSize
<1>2. CASE StartCapture
  BY <1>2 DEF StartCapture
<1>3. ASSUME NEW caller \in Callers, StopCapture(caller) PROVE QueueInv'
  BY <1>3 DEF StopCapture
<1>4. CASE SpawnWorker
  BY <1>4 DEF SpawnWorker
<1>5. CASE SignalWorker
  BY <1>5 DEF SignalWorker, Signal
<1>6. CASE JoinWorker
  BY <1>6 DEF JoinWorker
<1>7. CASE FlushLock
  BY <1>7 DEF FlushLock
<1>8. CASE FlushOne
  BY <1>8, ShorterQueue, RecycleFacts, EntryFacts DEF FlushOne, ClearOne
<1>9. CASE FlushUnlock
  BY <1>9 DEF FlushUnlock
<1>10. CASE ClearPool
  BY <1>10 DEF ClearPool
<1>11. CASE Negotiate
  BY <1>11 DEF Negotiate
<1>12. CASE StartStreaming
  BY <1>12 DEF StartStreaming
<1>13. CASE AdoptSize
  BY <1>13 DEF AdoptSize
<1>14. CASE PurgeLock
  BY <1>14 DEF PurgeLock
<1>15. CASE PurgeOne
  BY <1>15, ShorterQueue, RecycleFacts, EntryFacts DEF PurgeOne, ClearOne
<1>16. CASE PurgeUnlock
  BY <1>16 DEF PurgeUnlock
<1>17. CASE OnPrepared
  BY <1>17 DEF OnPrepared
<1>18. CASE TestRunning
  BY <1>18 DEF TestRunning
<1>19. CASE WaitPreviewFrame
  BY <1>19, ShorterQueue, EntryFacts DEF WaitPreviewFrame, TakeFront
<1>20. CASE WaitReturns
  BY <1>20, ShorterQueue, EntryFacts DEF WaitReturns, TakeFront
<1>21. CASE CheckFrame
  BY <1>21, EntryFacts DEF CheckFrame
<1>22. CASE HandleFrame
  BY <1>22, EntryFacts DEF HandleFrame
<1>23. CASE RecycleHeld
  BY <1>23, RecycleFacts, EntryFacts DEF RecycleHeld, RecycleEntry
<1>24. CASE OnFinished
  BY <1>24 DEF OnFinished
<1>25. CASE StopStreaming
  BY <1>25 DEF StopStreaming
<1>26. CASE OnFailed
  BY <1>26 DEF OnFailed
<1>27. CASE SpuriousWakeup
  BY <1>27 DEF SpuriousWakeup
<1>28. CASE FrameArrives
  BY <1>28 DEF FrameArrives, Entry
<1>29. CASE MeasureFrame
  BY <1>29, EntryFacts DEF MeasureFrame
<1>30. CASE TestAgain
  BY <1>30, EntryFacts DEF TestAgain
<1>31. CASE GetFrame
  BY <1>31, DropLast, EntryFacts DEF GetFrame
<1>32. CASE AllocateFrame
  BY <1>32, EntryFacts DEF AllocateFrame
<1>33. CASE DuplicateFrame
  BY <1>33, EntryFacts DEF DuplicateFrame
<1>34. CASE AddPreviewFrame
  BY <1>34, EntryFacts DEF AddPreviewFrame, Signal
<1>35. CASE RecycleCopy
  BY <1>35, RecycleFacts, EntryFacts DEF RecycleCopy
<1>36. CASE UNCHANGED vars
  BY <1>36
<1>37. QED
  BY <1>1, <1>2, <1>3, <1>4, <1>5, <1>6, <1>7, <1>8, <1>9, <1>10, <1>11, <1>12, <1>13, <1>14, <1>15, <1>16, <1>17, <1>18, <1>19, <1>20, <1>21, <1>22, <1>23, <1>24, <1>25, <1>26, <1>27, <1>28, <1>29, <1>30, <1>31, <1>32, <1>33, <1>34, <1>35, <1>36
  DEF Next, ClientCall, ControllerStep, WorkerStep, CallbackStep, Destroyed

(* The sum of the four places stays within the bound: a buffer moves from    *)
(* place to place, and one is allocated only after the pool was empty.       *)
LEMMA BoundStep ==
  TypeOK /\ ControlInv /\ HoldInv /\ QueueInv /\ BoundInv /\ [Next]_vars => BoundInv'
<1> SUFFICES ASSUME TypeOK /\ ControlInv /\ HoldInv /\ QueueInv /\ BoundInv, [Next]_vars
             PROVE  BoundInv'
  OBVIOUS
<1> USE CaptureConstants DEF vars, control, sizes, frames, history, TypeOK, HoldInv, QueueInv, BoundInv, LiveFrameBound, LiveFrames, Holding
<1>1. ASSUME NEW s \in Sizes, SetPreviewSize(s) PROVE BoundInv'
  BY <1>1 DEF SetPreviewSize
<1>2. CASE StartCapture
  BY <1>2 DEF StartCapture
<1>3. ASSUME NEW caller \in Callers, StopCapture(caller) PROVE BoundInv'
  BY <1>3 DEF StopCapture
<1>4. CASE SpawnWorker
  BY <1>4 DEF SpawnWorker
<1>5. CASE SignalWorker
  BY <1>5 DEF SignalWorker, Signal
<1>6. CASE JoinWorker
  BY <1>6 DEF JoinWorker
<1>7. CASE FlushLock
  BY <1>7 DEF FlushLock
<1>8. CASE FlushOne
  BY <1>8, ShorterQueue, RecycleFacts, EntryFacts DEF FlushOne, ClearOne
<1>9. CASE FlushUnlock
  BY <1>9 DEF FlushUnlock
<1>10. CASE ClearPool
  <2>1. Len(pool') = 0 /\ Len(pool) \in Nat
    BY <1>10, EmptySeq DEF ClearPool
  <2>2. UNCHANGED <<queue, held, copy, cb>>
    BY <1>10 DEF ClearPool
  <2>3. Len(queue) \in Nat
    OBVIOUS
  <2>4. Holding(held) \in Nat /\ Holding(copy) \in Nat
    OBVIOUS
  <2>5. cb' # "allocate"
    BY <1>10 DEF ClearPool, ControlInv
  <2>6. Len(queue) + Holding(held) + Holding(copy) <= MaxFramesQueue + 2
    <3> HIDE DEF Holding
    <3>1. MaxFramesQueue \in Nat /\ LiveFrames <= MaxFramesQueue + 2
      BY DEF CaptureConstants
    <3>2. QED
      BY ONLY <3>1, <2>1, <2>3, <2>4 DEF LiveFrames
  <2>7. LiveFrames' = Len(queue) + Holding(held) + Holding(copy)
    BY <2>1, <2>2, <2>3, <2>4
  <2>8. QED
    BY <2>5, <2>6, <2>7
<1>11. CASE Negotiate
  BY <1>11 DEF Negotiate
<1>12. CASE StartStreaming
  BY <1>12 DEF StartStreaming
<1>13. CASE AdoptSize
  BY <1>13 DEF AdoptSize
<1>14. CASE PurgeLock
  BY <1>14 DEF PurgeLock
<1>15. CASE PurgeOne
  BY <1>15, ShorterQueue, RecycleFacts, EntryFacts DEF PurgeOne, ClearOne
<1>16. CASE PurgeUnlock
  BY <1>16 DEF PurgeUnlock
<1>17. CASE OnPrepared
  BY <1>17 DEF OnPrepared
<1>18. CASE TestRunning
  BY <1>18 DEF TestRunning
<1>19. CASE WaitPreviewFrame
  BY <1>19, ShorterQueue, EntryFacts DEF WaitPreviewFrame, TakeFront
<1>20. CASE WaitReturns
  BY <1>20, ShorterQueue, EntryFacts DEF WaitReturns, TakeFront
<1>21. CASE CheckFrame
  BY <1>21, EntryFacts DEF CheckFrame
<1>22. CASE HandleFrame
  BY <1>22, EntryFacts DEF HandleFrame
<1>23. CASE RecycleHeld
  BY <1>23, RecycleFacts, EntryFacts DEF RecycleHeld, RecycleEntry
<1>24. CASE OnFinished
  BY <1>24 DEF OnFinished
<1>25. CASE StopStreaming
  BY <1>25 DEF StopStreaming
<1>26. CASE OnFailed
  BY <1>26 DEF OnFailed
<1>27. CASE SpuriousWakeup
  BY <1>27 DEF SpuriousWakeup
<1>28. CASE FrameArrives
  BY <1>28 DEF FrameArrives, Entry
<1>29. CASE MeasureFrame
  BY <1>29, EntryFacts DEF MeasureFrame
<1>30. CASE TestAgain
  BY <1>30, EntryFacts DEF TestAgain
<1>31. CASE GetFrame
  BY <1>31, DropLast, EntryFacts DEF GetFrame
<1>32. CASE AllocateFrame
  BY <1>32, EntryFacts DEF AllocateFrame
<1>33. CASE DuplicateFrame
  BY <1>33, EntryFacts DEF DuplicateFrame
<1>34. CASE AddPreviewFrame
  BY <1>34, EntryFacts DEF AddPreviewFrame, Signal
<1>35. CASE RecycleCopy
  BY <1>35, RecycleFacts, EntryFacts DEF RecycleCopy
<1>36. CASE UNCHANGED vars
  BY <1>36
<1>37. QED
  BY <1>1, <1>2, <1>3, <1>4, <1>5, <1>6, <1>7, <1>8, <1>9, <1>10, <1>11, <1>12, <1>13, <1>14, <1>15, <1>16, <1>17, <1>18, <1>19, <1>20, <1>21, <1>22, <1>23, <1>24, <1>25, <1>26, <1>27, <1>28, <1>29, <1>30, <1>31, <1>32, <1>33, <1>34, <1>35, <1>36
  DEF Next, ClientCall, ControllerStep, WorkerStep, CallbackStep, Destroyed

(* A frame is queued together with the signal, under preview_mutex.          *)
LEMMA NoSleepStep ==
  TypeOK /\ NoSleepOnFrames /\ [Next]_vars => NoSleepOnFrames'
<1> SUFFICES ASSUME TypeOK /\ NoSleepOnFrames, [Next]_vars
             PROVE  NoSleepOnFrames'
  OBVIOUS
<1> USE CaptureConstants DEF vars, control, sizes, frames, history, TypeOK, NoSleepOnFrames
<1>1. ASSUME NEW s \in Sizes, SetPreviewSize(s) PROVE NoSleepOnFrames'
  BY <1>1 DEF SetPreviewSize
<1>2. CASE StartCapture
  BY <1>2 DEF StartCapture
<1>3. ASSUME NEW caller \in Callers, StopCapture(caller) PROVE NoSleepOnFrames'
  BY <1>3 DEF StopCapture
<1>4. CASE SpawnWorker
  BY <1>4 DEF SpawnWorker
<1>5. CASE SignalWorker
  BY <1>5 DEF SignalWorker, Signal
<1>6. CASE JoinWorker
  BY <1>6 DEF JoinWorker
<1>7. CASE FlushLock
  BY <1>7 DEF FlushLock
<1>8. CASE FlushOne
  BY <1>8, ShorterQueue, RecycleFacts, EntryFacts DEF FlushOne, ClearOne
<1>9. CASE FlushUnlock
  BY <1>9 DEF FlushUnlock
<1>10. CASE ClearPool
  BY <1>10 DEF ClearPool
<1>11. CASE Negotiate
  BY <1>11 DEF Negotiate
<1>12. CASE StartStreaming
  BY <1>12 DEF StartStreaming
<1>13. CASE AdoptSize
  BY <1>13 DEF AdoptSize
<1>14. CASE PurgeLock
  BY <1>14 DEF PurgeLock
<1>15. CASE PurgeOne
  BY <1>15, ShorterQueue, RecycleFacts, EntryFacts DEF PurgeOne, ClearOne
<1>16. CASE PurgeUnlock
  BY <1>16 DEF PurgeUnlock
<1>17. CASE OnPrepared
  BY <1>17 DEF OnPrepared
<1>18. CASE TestRunning
  BY <1>18 DEF TestRunning
<1>19. CASE WaitPreviewFrame
  BY <1>19, ShorterQueue, EntryFacts DEF WaitPreviewFrame, TakeFront
<1>20. CASE WaitReturns
  BY <1>20, ShorterQueue, EntryFacts DEF WaitReturns, TakeFront
<1>21. CASE CheckFrame
  BY <1>21, EntryFacts DEF CheckFrame
<1>22. CASE HandleFrame
  BY <1>22, EntryFacts DEF HandleFrame
<1>23. CASE RecycleHeld
  BY <1>23, RecycleFacts, EntryFacts DEF RecycleHeld, RecycleEntry
<1>24. CASE OnFinished
  BY <1>24 DEF OnFinished
<1>25. CASE StopStreaming
  BY <1>25 DEF StopStreaming
<1>26. CASE OnFailed
  BY <1>26 DEF OnFailed
<1>27. CASE SpuriousWakeup
  BY <1>27 DEF SpuriousWakeup
<1>28. CASE FrameArrives
  BY <1>28 DEF FrameArrives, Entry
<1>29. CASE MeasureFrame
  BY <1>29, EntryFacts DEF MeasureFrame
<1>30. CASE TestAgain
  BY <1>30, EntryFacts DEF TestAgain
<1>31. CASE GetFrame
  BY <1>31, DropLast, EntryFacts DEF GetFrame
<1>32. CASE AllocateFrame
  BY <1>32, EntryFacts DEF AllocateFrame
<1>33. CASE DuplicateFrame
  BY <1>33, EntryFacts DEF DuplicateFrame
<1>34. CASE AddPreviewFrame
  BY <1>34, EntryFacts DEF AddPreviewFrame, Signal
<1>35. CASE RecycleCopy
  BY <1>35, RecycleFacts, EntryFacts DEF RecycleCopy
<1>36. CASE UNCHANGED vars
  BY <1>36
<1>37. QED
  BY <1>1, <1>2, <1>3, <1>4, <1>5, <1>6, <1>7, <1>8, <1>9, <1>10, <1>11, <1>12, <1>13, <1>14, <1>15, <1>16, <1>17, <1>18, <1>19, <1>20, <1>21, <1>22, <1>23, <1>24, <1>25, <1>26, <1>27, <1>28, <1>29, <1>30, <1>31, <1>32, <1>33, <1>34, <1>35, <1>36
  DEF Next, ClientCall, ControllerStep, WorkerStep, CallbackStep, Destroyed

-----------------------------------------------------------------------------
(* The conjunction is inductive. *)
LEMMA Invariance == Spec => []IInv
<1>1. Init => IInv
  <2> SUFFICES ASSUME Init PROVE IInv
    OBVIOUS
  <2> USE CaptureConstants DEF Init
  <2>1. Len(queue) = 0 /\ Len(pool) = 0
    OBVIOUS
  <2>2. TypeOK
    <3>1. queue \in Seq(Captured) /\ pool \in Seq(Frames)
      BY EmptySeq
    <3>2. held \in Captured \cup {NoEntry} /\ copy \in Entry
      BY EntryFacts
    <3>3. clock \in 0..MaxStamp /\ delivered \in 0..MaxStamp
      OBVIOUS
    <3>4. QED
      BY <3>1, <3>2, <3>3 DEF TypeOK, Callers
  <2>3. ControlInv
    BY DEF ControlInv
  <2>4. HoldInv
    BY EntryFacts DEF HoldInv
  <2>5. QueueInv
    BY <2>1 DEF QueueInv
  <2>6. BoundInv
    BY <2>1, EntryFacts DEF BoundInv, LiveFrameBound, LiveFrames, Holding
  <2>7. QED
    BY <2>2, <2>3, <2>4, <2>5, <2>6 DEF IInv
<1>2. IInv /\ [Next]_vars => IInv'
  BY TypeStep, ControlStep, HoldStep, QueueStep, BoundStep DEF IInv
<1>3. QED
  BY <1>1, <1>2, PTL DEF Spec

(* Every variable keeps its type. *)
THEOREM TypeCorrect == Spec => []TypeOK
<1>1. IInv => TypeOK
  BY DEF IInv
<1>2. QED
  BY <1>1, Invariance, PTL

(* Whatever the capacities and however the three threads interleave, no     *)
(* more than MaxFramesQueue + 2 buffers are alive.                          *)
THEOREM FrameBound == Spec => []LiveFrameBound
<1>1. IInv => LiveFrameBound
  BY DEF IInv, BoundInv
<1>2. QED
  BY <1>1, Invariance, PTL

(* No thread of the capture waits for itself, directly or through the       *)
(* others: a stop can hang only in the worker's cond_wait.                  *)
THEOREM StopsDoNotDeadlock == Spec => []NoCircularWait
<1>1. IInv => NoCircularWait
  <2> SUFFICES ASSUME TypeOK, ControlInv PROVE NoCircularWait
    BY DEF IInv
  <2>1. CASE previewMutex = "free"
    BY <2>1 DEF NoCircularWait, waitsFor
  <2>2. CASE previewMutex = "ctl"
    BY <2>2 DEF NoCircularWait, waitsFor, ControlInv
  <2>3. CASE previewMutex = "wrk"
    BY <2>3 DEF NoCircularWait, waitsFor, ControlInv
  <2> QED
    BY <2>1, <2>2, <2>3 DEF TypeOK
<1>2. QED
  BY <1>1, Invariance, PTL

(* The worker never waits while a frame is queued. *)
THEOREM NeverSleepsOnFrames == Spec => []NoSleepOnFrames
<1>1. Init => NoSleepOnFrames
  BY DEF Init, NoSleepOnFrames
<1>2. TypeOK /\ NoSleepOnFrames /\ [Next]_vars => NoSleepOnFrames'
  BY NoSleepStep
<1>3. QED
  BY <1>1, <1>2, TypeCorrect, PTL DEF Spec

-----------------------------------------------------------------------------
(* Where the frames are: each buffer has one owner, a stop leaves none     *)
(* behind, a handled frame has the size that was announced, and the        *)
(* capture implements the lossy channel of CaptureSession.                 *)

(* The entries of a sequence, and that none of them comes twice. *)
Set(s)  == {s[i] : i \in 1..Len(s)}
Once(s) == \A i, j \in 1..Len(s) : s[i] = s[j] => i = j

(* The buffers of a queue, in order. *)
FramesOf(q) == [i \in 1..Len(q) |-> q[i].frame]

(* No buffer is twice in the pool or in the queue, nor in two of the four  *)
(* places, and those hold what is allocated.                               *)
Apart ==
  /\ PoolFrames \cap QueueFrames = {}
  /\ held.frame \notin PoolFrames \cup QueueFrames
  /\ copy.frame \notin PoolFrames \cup QueueFrames
  /\ held.frame = copy.frame => held.frame = NoFrame
  /\ heap = (PoolFrames \cup QueueFrames \cup {held.frame, copy.frame}) \ {NoFrame}

OwnInv == Once(pool) /\ Once(FramesOf(queue)) /\ Apart

-----------------------------------------------------------------------------
(* How the entries change at either end. *)
LEMMA Pushed ==
  ASSUME NEW S, NEW s \in Seq(S), NEW x \in S, Once(s), x \notin Set(s)
  PROVE  /\ Once(Append(s, x))
         /\ Set(Append(s, x)) = Set(s) \cup {x}
<1> DEFINE t == Append(s, x)
<1>1. /\ Len(s) \in Nat /\ Len(t) = Len(s) + 1
      /\ \A i \in 1..Len(s) : t[i] = s[i]
      /\ t[Len(s) + 1] = x
  OBVIOUS
<1> HIDE DEF t
<1>2. \A i \in 1..Len(t) : i = Len(s) + 1 \/ i \in 1..Len(s)
  BY <1>1
<1>3. \A i \in 1..Len(s) : s[i] # x /\ i \in 1..Len(t)
  BY <1>1 DEF Set
<1>4. Len(s) + 1 \in 1..Len(t)
  BY <1>1
<1>5. Once(t)
  BY <1>1, <1>2, <1>3 DEF Once
<1>6. Set(t) = Set(s) \cup {x}
  BY <1>1, <1>2, <1>3, <1>4 DEF Set
<1> QED
  BY <1>5, <1>6 DEF t

LEMMA Popped ==
  ASSUME NEW S, NEW s \in Seq(S), s # <<>>, Once(s)
  PROVE  LET t == SubSeq(s, 1, Len(s) - 1) IN
         /\ Once(t)
         /\ Set(s) = Set(t) \cup {s[Len(s)]}
         /\ s[Len(s)] \notin Set(t)
<1> DEFINE t == SubSeq(s, 1, Len(s) - 1)
<1>1. /\ Len(s) \in Nat /\ Len(s) >= 1 /\ Len(t) = Len(s) - 1
  BY DropLast
<1>2. \A i \in 1..Len(s) - 1 : t[i] = s[i]
  OBVIOUS
<1> HIDE DEF t
<1>3. /\ \A i \in 1..Len(s) : i = Len(s) \/ i \in 1..Len(t)
      /\ \A i \in 1..Len(t) : i \in 1..Len(s) /\ i # Len(s)
      /\ Len(s) \in 1..Len(s)
  BY <1>1
<1>4. \A i \in 1..Len(t) : t[i] = s[i]
  BY <1>1, <1>2
<1>5. Once(t)
  BY <1>3, <1>4 DEF Once
<1>6. Set(s) = Set(t) \cup {s[Len(s)]}
  BY <1>3, <1>4 DEF Set
<1>7. s[Len(s)] \notin Set(t)
  BY <1>3, <1>4 DEF Once, Set
<1> QED
  BY <1>5, <1>6, <1>7 DEF t

LEMMA Shifted ==
  ASSUME NEW S, NEW s \in Seq(S), s # <<>>, Once(s)
  PROVE  /\ Once(Tail(s))
         /\ Set(s) = {Head(s)} \cup Set(Tail(s))
         /\ Head(s) \notin Set(Tail(s))
<1> DEFINE t == Tail(s)
<1>1. /\ Len(s) \in Nat /\ Len(s) >= 1 /\ Len(t) = Len(s) - 1
      /\ Head(s) = s[1]
      /\ \A i \in 1..Len(s) - 1 : t[i] = s[i + 1]
  OBVIOUS
<1> HIDE DEF t
<1>2. /\ \A i \in 1..Len(s) : i = 1 \/ i - 1 \in 1..Len(t)
      /\ \A i \in 1..Len(t) : i + 1 \in 1..Len(s) /\ i + 1 # 1 /\ t[i] = s[i + 1]
      /\ \A i \in 1..Len(s) : i # 1 => t[i - 1] = s[i]
      /\ 1 \in 1..Len(s)
  BY <1>1
<1>3. Once(t)
  <2> SUFFICES ASSUME NEW i \in 1..Len(t), NEW j \in 1..Len(t), t[i] = t[j]
               PROVE  i = j
    BY DEF Once
  <2>1. i + 1 = j + 1
    BY <1>2 DEF Once
  <2> QED
    BY <1>1, <2>1
<1>4. Set(s) = {Head(s)} \cup Set(t)
  BY <1>1, <1>2 DEF Set
<1>5. Head(s) \notin Set(t)
  BY <1>1, <1>2 DEF Once, Set
<1> QED
  BY <1>3, <1>4, <1>5 DEF t

(* A sequence without repetitions has as many entries as elements.         *)
LEMMA Counted ==
  ASSUME NEW S, NEW s \in Seq(S), Once(s)
  PROVE  /\ IsFiniteSet(Set(s)) /\ Cardinality(Set(s)) = Len(s)
         /\ Len(s) \in Nat
<1>1. Len(s) \in Nat /\ s \in [1..Len(s) -> Set(s)]
  BY DEF Set
<1>2. s \in Bijection(1..Len(s), Set(s))
  BY <1>1 DEF Once, Set, Bijection, Injection, Surjection, IsInjective
<1>3. ExistsBijection(1..Len(s), Set(s))
  BY <1>2 DEF ExistsBijection
<1>4. IsFiniteSet(Set(s))
  BY <1>1, <1>3, FS_NatBijection
<1> QED
  BY <1>1, <1>3, <1>4, FS_CountingElements

-----------------------------------------------------------------------------
(* The buffers of a queue that grows or shrinks. *)
LEMMA FramesFacts ==
  ASSUME NEW q \in Seq(Captured)
  PROVE  /\ FramesOf(q) \in Seq(Frames) /\ Len(FramesOf(q)) = Len(q)
         /\ Set(FramesOf(q)) = {q[i].frame : i \in 1..Len(q)}
         /\ Len(q) \in Nat /\ NoFrame \notin Set(FramesOf(q))
<1>1. Len(q) \in Nat /\ \A i \in 1..Len(q) : q[i] \in Captured
  OBVIOUS
<1>2. \A i \in 1..Len(q) : q[i].frame \in Frames
  BY <1>1 DEF Captured
<1>3. FramesOf(q) \in Seq(Frames) /\ Len(FramesOf(q)) = Len(q)
  BY <1>1, <1>2 DEF FramesOf
<1>4. \A i \in 1..Len(q) : FramesOf(q)[i] = q[i].frame
  BY DEF FramesOf
<1>5. Set(FramesOf(q)) = {q[i].frame : i \in 1..Len(q)}
  BY <1>3, <1>4 DEF Set
<1> QED
  BY <1>1, <1>2, <1>3, <1>5, CaptureConstants

LEMMA FramesShift ==
  ASSUME NEW q \in Seq(Captured), q # <<>>
  PROVE  /\ FramesOf(q) # <<>>
         /\ FramesOf(Tail(q)) = Tail(FramesOf(q))
         /\ Head(FramesOf(q)) = Head(q).frame
<1>1. Len(q) \in Nat /\ Len(q) >= 1 /\ Len(Tail(q)) = Len(q) - 1 /\ Tail(q) \in Seq(Captured)
  OBVIOUS
<1>2. FramesOf(q) # <<>>
  BY <1>1, FramesFacts
<1>3. Head(FramesOf(q)) = Head(q).frame
  BY <1>1, <1>2, FramesFacts DEF FramesOf
<1>4. \A i \in 1..Len(q) - 1 : FramesOf(Tail(q))[i] = Tail(FramesOf(q))[i]
  <2> SUFFICES ASSUME NEW i \in 1..Len(q) - 1
               PROVE  FramesOf(Tail(q))[i] = Tail(FramesOf(q))[i]
    OBVIOUS
  <2>1. i \in 1..Len(Tail(q)) /\ i + 1 \in 1..Len(q) /\ Tail(q)[i] = q[i + 1]
    BY <1>1
  <2>2. FramesOf(Tail(q))[i] = q[i + 1].frame
    BY <2>1 DEF FramesOf
  <2>3. Tail(FramesOf(q))[i] = FramesOf(q)[i + 1]
    BY <1>1, <1>2, FramesFacts
  <2> QED
    BY <2>1, <2>2, <2>3 DEF FramesOf
<1>5. /\ FramesOf(Tail(q)) \in Seq(Frames) /\ Tail(FramesOf(q)) \in Seq(Frames)
      /\ Len(FramesOf(Tail(q))) = Len(q) - 1 /\ Len(Tail(FramesOf(q))) = Len(q) - 1
  <2>1. FramesOf(Tail(q)) \in Seq(Frames) /\ Len(FramesOf(Tail(q))) = Len(q) - 1
    BY <1>1, FramesFacts
  <2>2. FramesOf(q) \in Seq(Frames) /\ Len(FramesOf(q)) = Len(q)
    BY FramesFacts
  <2>3. Tail(FramesOf(q)) \in Seq(Frames) /\ Len(Tail(FramesOf(q))) = Len(q) - 1
    BY <1>2, <2>2
  <2> QED
    BY <2>1, <2>3
<1> QED
  BY <1>2, <1>3, <1>4, <1>5, SeqEqual

LEMMA FramesAppend ==
  ASSUME NEW q \in Seq(Captured), NEW e \in Captured
  PROVE  FramesOf(Append(q, e)) = Append(FramesOf(q), e.frame)
<1>1. Len(q) \in Nat /\ Len(Append(q, e)) = Len(q) + 1 /\ Append(q, e) \in Seq(Captured)
  OBVIOUS
<1>2. e.frame \in Frames
  BY DEF Captured
<1>3. /\ FramesOf(Append(q, e)) \in Seq(Frames) /\ Append(FramesOf(q), e.frame) \in Seq(Frames)
      /\ Len(FramesOf(Append(q, e))) = Len(q) + 1 /\ Len(Append(FramesOf(q), e.frame)) = Len(q) + 1
  <2>1. FramesOf(Append(q, e)) \in Seq(Frames) /\ Len(FramesOf(Append(q, e))) = Len(q) + 1
    BY <1>1, FramesFacts
  <2>2. FramesOf(q) \in Seq(Frames) /\ Len(FramesOf(q)) = Len(q)
    BY FramesFacts
  <2>3. Append(FramesOf(q), e.frame) \in Seq(Frames) /\ Len(Append(FramesOf(q), e.frame)) = Len(q) + 1
    BY <1>2, <2>2
  <2> QED
    BY <2>1, <2>3
<1>4. ASSUME NEW i \in 1..Len(q) + 1
      PROVE  FramesOf(Append(q, e))[i] = Append(FramesOf(q), e.frame)[i]
  <2>1. FramesOf(Append(q, e))[i] = Append(q, e)[i].frame
    BY <1>1 DEF FramesOf
  <2>2. CASE i = Len(q) + 1
    BY <1>1, <1>2, <2>1, <2>2, FramesFacts
  <2>3. CASE i # Len(q) + 1
    <3>1. i \in 1..Len(q)
      BY <1>1, <2>3
    <3>2. Append(q, e)[i] = q[i] /\ Append(FramesOf(q), e.frame)[i] = FramesOf(q)[i]
      BY <3>1, <1>2, FramesFacts
    <3> QED
      BY <2>1, <3>1, <3>2 DEF FramesOf
  <2> QED
    BY <2>2, <2>3
<1> QED
  BY <1>3, <1>4, SeqEqual

-----------------------------------------------------------------------------
(* The steps on which the places depend. *)

(* Nothing moves. *)
LEMMA NothingMoves ==
  ASSUME OwnInv, UNCHANGED <<queue, pool, heap>>,
         held'.frame = held.frame, copy'.frame = copy.frame
  PROVE  OwnInv'
<1>1. Once(pool') /\ Once(FramesOf(queue'))
  BY DEF OwnInv
<1>2. PoolFrames' = PoolFrames /\ QueueFrames' = QueueFrames
  BY DEF PoolFrames, QueueFrames
<1> QED
  BY <1>1, <1>2 DEF OwnInv, Apart

(* recycle_frame gives a buffer to the pool or back to the system. *)
LEMMA Recycled ==
  ASSUME TypeOK, Once(pool), NEW f \in Frames, f \notin PoolFrames, Recycle(f)
  PROVE  /\ Once(pool')
         /\ \/ PoolFrames' = PoolFrames \cup {f} /\ heap' = heap
            \/ PoolFrames' = PoolFrames /\ heap' = heap \ {f}
<1>1. CASE pool' = Append(pool, f) /\ heap' = heap
  <2>1. Once(Append(pool, f)) /\ Set(Append(pool, f)) = Set(pool) \cup {f}
    BY Pushed DEF TypeOK, PoolFrames, Set
  <2>2. Set(pool) = PoolFrames /\ Set(pool') = PoolFrames'
    BY DEF Set, PoolFrames
  <2> QED
    BY <1>1, <2>1, <2>2
<1>2. CASE pool' = pool /\ heap' = heap \ {f}
  BY <1>2 DEF PoolFrames
<1> QED
  BY <1>1, <1>2 DEF Recycle

(* The front of the queue leaves it. *)
LEMMA FrontLeaves ==
  ASSUME TypeOK, OwnInv, queue # <<>>, queue' = Tail(queue)
  PROVE  /\ Once(FramesOf(queue'))
         /\ QueueFrames = {Head(queue).frame} \cup QueueFrames'
         /\ Head(queue).frame \notin QueueFrames'
         /\ Head(queue).frame \in Frames
<1>1. queue \in Seq(Captured) /\ Tail(queue) \in Seq(Captured) /\ Head(queue) \in Captured
  BY ShorterQueue DEF TypeOK
<1>2. /\ FramesOf(queue) \in Seq(Frames) /\ FramesOf(queue) # <<>>
      /\ FramesOf(Tail(queue)) = Tail(FramesOf(queue))
      /\ Head(FramesOf(queue)) = Head(queue).frame
  BY <1>1, FramesFacts, FramesShift
<1>3. /\ Once(Tail(FramesOf(queue)))
      /\ Set(FramesOf(queue)) = {Head(queue).frame} \cup Set(Tail(FramesOf(queue)))
      /\ Head(queue).frame \notin Set(Tail(FramesOf(queue)))
  BY <1>2, Shifted DEF OwnInv
<1>4. Set(FramesOf(queue)) = QueueFrames /\ Set(FramesOf(queue')) = QueueFrames'
  BY <1>1, FramesFacts DEF QueueFrames
<1>5. Head(queue).frame \in Frames
  BY <1>1 DEF Captured
<1> QED
  BY <1>2, <1>3, <1>4, <1>5

(* No place holds what is not a buffer. *)
LEMMA OnlyBuffers ==
  ASSUME TypeOK
  PROVE  /\ NoFrame \notin PoolFrames \cup QueueFrames /\ NoFrame \notin Frames
         /\ PoolFrames \subseteq Frames /\ QueueFrames \subseteq Frames
         /\ held.frame \in Frames \cup {NoFrame} /\ copy.frame \in Frames \cup {NoFrame}
         /\ NoEntry.frame = NoFrame
<1>1. \A i \in 1..Len(pool) : pool[i] \in Frames
  BY DEF TypeOK
<1>2. \A i \in 1..Len(queue) : queue[i].frame \in Frames
  <2>1. \A i \in 1..Len(queue) : queue[i] \in Captured
    BY DEF TypeOK
  <2> QED
    BY <2>1 DEF Captured
<1>3. /\ held.frame \in Frames \cup {NoFrame} /\ copy.frame \in Frames \cup {NoFrame}
      /\ NoEntry.frame = NoFrame
  BY DEF TypeOK, Captured, Entry, NoEntry
<1> QED
  BY <1>1, <1>2, <1>3, CaptureConstants DEF PoolFrames, QueueFrames

(* A flush gives the front of the queue back. *)
LEMMA ClearOneKeeps ==
  ASSUME TypeOK, OwnInv, ClearOne, UNCHANGED <<held, copy>>
  PROVE  OwnInv'
<1> DEFINE f == Head(queue).frame
<1>1. /\ Once(FramesOf(queue')) /\ QueueFrames = {f} \cup QueueFrames'
      /\ f \notin QueueFrames' /\ f \in Frames
  BY FrontLeaves DEF ClearOne
<1>2. /\ f \notin PoolFrames /\ f # NoFrame /\ f # held.frame /\ f # copy.frame
      /\ NoFrame \notin PoolFrames
  BY <1>1, OnlyBuffers DEF OwnInv, Apart
<1>3. /\ Once(pool')
      /\ \/ PoolFrames' = PoolFrames \cup {f} /\ heap' = heap
         \/ PoolFrames' = PoolFrames /\ heap' = heap \ {f}
  BY <1>1, <1>2, Recycled DEF OwnInv, ClearOne
<1> HIDE DEF f
<1> QED
  BY <1>1, <1>2, <1>3 DEF OwnInv, Apart

(* The worker takes the front of the queue into its empty hands, or not.   *)
LEMMA TakeFrontKeeps ==
  ASSUME TypeOK, OwnInv, held = NoEntry, TakeFront, UNCHANGED <<pool, heap, copy>>
  PROVE  OwnInv'
<1>1. CASE queue # <<>> /\ held' = Head(queue) /\ queue' = Tail(queue)
  <2>1. /\ Once(FramesOf(queue')) /\ QueueFrames = {held'.frame} \cup QueueFrames'
        /\ held'.frame \notin QueueFrames' /\ held'.frame \in Frames
    BY <1>1, FrontLeaves
  <2>2. held.frame = NoFrame /\ NoFrame \notin Frames /\ PoolFrames' = PoolFrames
    BY OnlyBuffers DEF PoolFrames
  <2> QED
    BY <2>1, <2>2 DEF OwnInv, Apart
<1>2. CASE held' = NoEntry /\ queue' = queue
  BY <1>2, NothingMoves
<1> QED
  BY <1>1, <1>2 DEF TakeFront

(* A thread gives the buffer in its hands back. *)
LEMMA HandedBack ==
  ASSUME TypeOK, OwnInv, NEW f \in Frames, Recycle(f), UNCHANGED queue,
         \/ f = held.frame /\ held'.frame = NoFrame /\ copy' = copy
         \/ f = copy.frame /\ copy'.frame = NoFrame /\ held' = held
  PROVE  OwnInv'
<1>1. f \notin PoolFrames \cup QueueFrames /\ NoFrame \notin PoolFrames \cup QueueFrames /\ f # NoFrame
  BY OnlyBuffers DEF OwnInv, Apart
<1>2. /\ Once(pool')
      /\ \/ PoolFrames' = PoolFrames \cup {f} /\ heap' = heap
         \/ PoolFrames' = PoolFrames /\ heap' = heap \ {f}
  BY <1>1, Recycled DEF OwnInv
<1>3. QueueFrames' = QueueFrames /\ Once(FramesOf(queue'))
  BY DEF QueueFrames, OwnInv
<1> QED
  BY <1>1, <1>2, <1>3 DEF OwnInv, Apart

-----------------------------------------------------------------------------
(* Each action keeps the owners apart. *)
LEMMA OwnStep ==
  TypeOK /\ HoldInv /\ OwnInv /\ [Next]_vars => OwnInv'
<1> SUFFICES ASSUME TypeOK, HoldInv, OwnInv, [Next]_vars
             PROVE  OwnInv'
  OBVIOUS
<1> USE DEF vars, control, sizes, frames, history
<1>0. /\ NoFrame \notin PoolFrames \cup QueueFrames /\ NoFrame \notin Frames
      /\ NoEntry.frame = NoFrame
      /\ held.frame \in Frames \cup {NoFrame} /\ copy.frame \in Frames \cup {NoFrame}
  BY OnlyBuffers
<1>1. CASE UNCHANGED <<queue, pool, heap, held, copy>>
  BY <1>1, NothingMoves
<1>2. CASE ClearPool
  <2>1. /\ PoolFrames' = {} /\ heap' = heap \ PoolFrames
        /\ Once(pool')
    BY <1>2, EmptySeq DEF ClearPool, PoolFrames, Once
  <2>2. QueueFrames' = QueueFrames /\ Once(FramesOf(queue')) /\ held' = held /\ copy' = copy
    BY <1>2 DEF ClearPool, QueueFrames, OwnInv
  <2> QED
    BY <2>1, <2>2 DEF OwnInv, Apart
<1>3. CASE FlushOne \/ PurgeOne
  BY <1>3, ClearOneKeeps DEF FlushOne, PurgeOne
<1>4. CASE WaitPreviewFrame
  <2>1. held = NoEntry
    BY <1>4 DEF WaitPreviewFrame, HoldInv
  <2> QED
    BY <1>1, <1>4, <2>1, TakeFrontKeeps DEF WaitPreviewFrame
<1>5. CASE WaitReturns
  <2>1. held = NoEntry
    BY <1>5 DEF WaitReturns, HoldInv
  <2> QED
    BY <1>5, <2>1, TakeFrontKeeps DEF WaitReturns
<1>6. CASE RecycleHeld
  <2>1. CASE held.frame = NoFrame
    BY <1>0, <1>6, <2>1, NothingMoves DEF RecycleHeld, RecycleEntry
  <2>2. CASE held.frame # NoFrame
    BY <1>0, <1>6, <2>2, HandedBack DEF RecycleHeld, RecycleEntry
  <2> QED
    BY <2>1, <2>2
<1>7. CASE FrameArrives
  <2>1. copy.frame = NoFrame /\ copy'.frame = NoFrame
    BY <1>0, <1>7 DEF FrameArrives, HoldInv
  <2> QED
    BY <1>7, <2>1, NothingMoves DEF FrameArrives
<1>8. CASE MeasureFrame \/ TestAgain
  <2>1. copy.frame = NoFrame /\ copy'.frame = NoFrame
    BY <1>0, <1>8 DEF MeasureFrame, TestAgain, HoldInv
  <2> QED
    BY <1>8, <2>1, NothingMoves DEF MeasureFrame, TestAgain
<1>9. CASE GetFrame
  <2>1. CASE pool # <<>>
    <3> DEFINE f == pool[Len(pool)]
    <3>1. /\ Once(pool') /\ PoolFrames = PoolFrames' \cup {f} /\ f \notin PoolFrames'
      <4>1. pool \in Seq(Frames) /\ Once(pool) /\ pool' = SubSeq(pool, 1, Len(pool) - 1)
        BY <1>9, <2>1 DEF GetFrame, TypeOK, OwnInv
      <4>2. Set(pool) = PoolFrames /\ Set(pool') = PoolFrames'
        BY DEF Set, PoolFrames
      <4> QED
        BY <2>1, <4>1, <4>2, Popped
    <3>2. copy.frame = NoFrame /\ f \in Frames
      BY <1>9, <2>1, DropLast DEF GetFrame, HoldInv, TypeOK
    <3>3. copy'.frame = f
      BY <1>9, <2>1, <3>2, EntryFacts DEF GetFrame, TypeOK
    <3>4. QueueFrames' = QueueFrames /\ Once(FramesOf(queue')) /\ held' = held /\ heap' = heap
      BY <1>9 DEF GetFrame, QueueFrames, OwnInv
    <3> HIDE DEF f
    <3> QED
      BY <1>0, <3>1, <3>2, <3>3, <3>4 DEF OwnInv, Apart
  <2>2. CASE pool = <<>>
    BY <1>1, <1>9, <2>2 DEF GetFrame
  <2> QED
    BY <2>1, <2>2
<1>10. CASE AllocateFrame
  <2>0. copy.frame = NoFrame
    BY <1>10 DEF AllocateFrame, HoldInv
  <2>1. CASE \E f \in Frames \ heap : heap' = heap \cup {f} /\ copy' = [copy EXCEPT !.frame = f]
    <3>1. PICK f \in Frames \ heap : heap' = heap \cup {f} /\ copy' = [copy EXCEPT !.frame = f]
      BY <2>1
    <3>2. copy'.frame = f
      BY <3>1, EntryFacts DEF TypeOK
    <3>3. /\ PoolFrames' = PoolFrames /\ QueueFrames' = QueueFrames /\ Once(pool')
          /\ Once(FramesOf(queue')) /\ held' = held
      BY <1>10 DEF AllocateFrame, PoolFrames, QueueFrames, OwnInv
    <3> QED
      BY <1>0, <2>0, <3>1, <3>2, <3>3 DEF OwnInv, Apart
  <2>2. CASE copy' = NoEntry /\ heap' = heap
    BY <1>0, <1>10, <2>0, <2>2, NothingMoves DEF AllocateFrame
  <2> QED
    BY <1>10, <2>1, <2>2 DEF AllocateFrame
<1>11. CASE AddPreviewFrame
  <2>1. CASE queue' = Append(queue, copy) /\ copy' = NoEntry
    <3>1. copy \in Captured /\ copy.frame \in Frames /\ queue \in Seq(Captured)
      BY <1>11, EntryFacts DEF AddPreviewFrame, HoldInv, TypeOK
    <3>2. copy.frame \notin Set(FramesOf(queue)) /\ FramesOf(queue) \in Seq(Frames)
          /\ Set(FramesOf(queue)) = QueueFrames
      BY <3>1, FramesFacts DEF OwnInv, Apart, QueueFrames
    <3>3. /\ Once(FramesOf(queue'))
          /\ Set(FramesOf(queue')) = QueueFrames \cup {copy.frame}
      <4>1. FramesOf(queue') = Append(FramesOf(queue), copy.frame)
        BY <2>1, <3>1, FramesAppend
      <4>2. /\ Once(Append(FramesOf(queue), copy.frame))
            /\ Set(Append(FramesOf(queue), copy.frame)) = Set(FramesOf(queue)) \cup {copy.frame}
        BY <3>1, <3>2, Pushed DEF OwnInv
      <4> QED
        BY <3>2, <4>1, <4>2
    <3>4. QueueFrames' = Set(FramesOf(queue'))
      <4>1. queue' \in Seq(Captured)
        BY <2>1, <3>1
      <4> QED
        BY <4>1, FramesFacts DEF QueueFrames
    <3>5. PoolFrames' = PoolFrames /\ Once(pool') /\ held' = held /\ heap' = heap
      BY <1>11 DEF AddPreviewFrame, PoolFrames, OwnInv
    <3> QED
      BY <1>0, <2>1, <3>1, <3>3, <3>4, <3>5 DEF OwnInv, Apart
  <2>2. CASE UNCHANGED <<queue, copy>>
    BY <1>1, <1>11, <2>2 DEF AddPreviewFrame
  <2> QED
    BY <1>11, <2>1, <2>2 DEF AddPreviewFrame
<1>12. CASE RecycleCopy
  <2>1. copy.frame \in Frames
    BY <1>0, <1>12 DEF RecycleCopy, HoldInv
  <2> QED
    BY <1>0, <1>12, <2>1, HandedBack DEF RecycleCopy
<1> QED
  BY <1>1, <1>2, <1>3, <1>4, <1>5, <1>6, <1>7, <1>8, <1>9, <1>10, <1>11, <1>12
  DEF Next, ClientCall, ControllerStep, WorkerStep, CallbackStep, Destroyed,
      SetPreviewSize, StartCapture, StopCapture, SpawnWorker, SignalWorker, JoinWorker, FlushLock,
      FlushUnlock, Negotiate, StartStreaming, AdoptSize, PurgeLock, PurgeUnlock, OnPrepared,
      TestRunning, SpuriousWakeup, CheckFrame, HandleFrame, OnFinished, StopStreaming, OnFailed,
      DuplicateFrame

LEMMA Owned == Spec => []OwnInv
<1>1. Init => OwnInv
  <2> SUFFICES ASSUME Init PROVE OwnInv
    OBVIOUS
  <2>1. Len(queue) = 0 /\ Len(pool) = 0 /\ Len(FramesOf(queue)) = 0
    BY FramesFacts, EmptySeq DEF Init
  <2>2. PoolFrames = {} /\ QueueFrames = {}
    BY <2>1 DEF PoolFrames, QueueFrames
  <2>3. held.frame = NoFrame /\ copy.frame = NoFrame /\ heap = {}
    BY EntryFacts DEF Init
  <2> QED
    BY <2>1, <2>2, <2>3 DEF OwnInv, Apart, Once
<1>2. IInv /\ OwnInv /\ [Next]_vars => OwnInv'
  BY OwnStep DEF IInv
<1> QED
  BY <1>1, <1>2, Invariance, PTL DEF Spec

(* Every buffer that is allocated has exactly one owner: the pool, the      *)
(* queue, the worker or the callback (get_frame, recycle_frame,             *)
(* addPreviewFrame, waitPreviewFrame, clearPreviewFramesQueue).             *)
THEOREM OneOwner == Spec => []FramesOwnedOnce
<1>1. TypeOK /\ OwnInv => FramesOwnedOnce
  <2> SUFFICES ASSUME TypeOK, OwnInv PROVE Cardinality(heap) = LiveFrames
    BY DEF FramesOwnedOnce, OwnInv, Apart
  <2> DEFINE base == PoolFrames \cup QueueFrames
             worker == base \cup ({held.frame} \ {NoFrame})
  <2>1. /\ IsFiniteSet(PoolFrames) /\ Cardinality(PoolFrames) = Len(pool) /\ Len(pool) \in Nat
    BY Counted DEF TypeOK, OwnInv, PoolFrames, Set
  <2>2. /\ IsFiniteSet(QueueFrames) /\ Cardinality(QueueFrames) = Len(queue) /\ Len(queue) \in Nat
    BY Counted, FramesFacts DEF TypeOK, OwnInv, QueueFrames
  <2>3. IsFiniteSet(base) /\ Cardinality(base) = Len(pool) + Len(queue)
    <3>1. PoolFrames \cap QueueFrames = {} /\ Cardinality({}) = 0
      BY FS_EmptySet DEF OwnInv, Apart
    <3>2. /\ IsFiniteSet(base)
          /\ Cardinality(base) = Cardinality(PoolFrames) + Cardinality(QueueFrames)
                                   - Cardinality(PoolFrames \cap QueueFrames)
      BY <2>1, <2>2, FS_Union
    <3>3. Cardinality(PoolFrames \cap QueueFrames) = 0
      BY <3>1
    <3> HIDE DEF base
    <3> QED
      BY <2>1, <2>2, <3>2, <3>3
  <2>4. IsFiniteSet(worker) /\ Cardinality(worker) = Len(pool) + Len(queue) + Holding(held)
    <3>1. CASE held.frame = NoFrame
      <4>1. worker = base
        BY <3>1
      <4>2. Holding(held) = 0
        BY <3>1 DEF Holding
      <4> HIDE DEF worker, base
      <4> QED
        BY <2>1, <2>2, <2>3, <4>1, <4>2
    <3>2. CASE held.frame # NoFrame
      <4>1. worker = base \cup {held.frame} /\ held.frame \notin base
        BY <3>2 DEF OwnInv, Apart
      <4>2. Holding(held) = 1
        BY <3>2 DEF Holding
      <4> HIDE DEF worker, base
      <4>3. IsFiniteSet(worker) /\ Cardinality(worker) = Cardinality(base) + 1
        BY <2>3, <4>1, FS_AddElement
      <4> QED
        BY <2>1, <2>2, <2>3, <4>2, <4>3
    <3> QED
      BY <3>1, <3>2
  <2>5. heap = worker \cup ({copy.frame} \ {NoFrame}) /\ (copy.frame # NoFrame => copy.frame \notin worker)
    BY OnlyBuffers DEF OwnInv, Apart
  <2> HIDE DEF worker
  <2>6. CASE copy.frame = NoFrame
    <3>1. heap = worker /\ Holding(copy) = 0
      BY <2>5, <2>6 DEF Holding
    <3>2. Holding(held) \in Nat
      BY DEF Holding
    <3> QED
      BY <2>1, <2>2, <2>4, <3>1, <3>2 DEF LiveFrames
  <2>7. CASE copy.frame # NoFrame
    <3>1. heap = worker \cup {copy.frame} /\ copy.frame \notin worker
      BY <2>5, <2>7
    <3>2. Cardinality(heap) = Cardinality(worker) + 1
      BY <2>4, <3>1, FS_AddElement
    <3>3. Holding(copy) = 1 /\ Holding(held) \in Nat
      BY <2>7 DEF Holding
    <3> QED
      BY <2>1, <2>2, <2>4, <3>2, <3>3 DEF LiveFrames
  <2> QED
    BY <2>6, <2>7
<1> QED
  BY <1>1, TypeCorrect, Owned, PTL

(* When stopCapture has returned, no worker, callback, stream or queued     *)
(* frame is left, and every buffer is in the pool, also when a callback     *)
(* queued a frame after onFinished.                                         *)
THEOREM StopLeavesNothing == Spec => []QuiescentWhenStopped
<1>1. IInv /\ OwnInv => QuiescentWhenStopped
  <2> SUFFICES ASSUME IInv, OwnInv, ctl = "idle", ~running
               PROVE  /\ wrk = "none" /\ cb = "idle" /\ stream = NoSize
                      /\ queue = <<>> /\ heap = PoolFrames
    BY DEF QuiescentWhenStopped
  <2>1. wrk = "none" /\ stream = NoSize /\ cb = "idle"
    BY DEF IInv, ControlInv, TypeOK
  <2>2. queue = <<>> /\ held.frame = NoFrame /\ copy.frame = NoFrame
    BY <2>1, EntryFacts DEF IInv, QueueInv, HoldInv
  <2>3. QueueFrames = {}
    BY <2>2, EmptySeq DEF QueueFrames
  <2>4. NoFrame \notin PoolFrames
    BY OnlyBuffers DEF IInv
  <2> QED
    BY <2>1, <2>2, <2>3, <2>4 DEF OwnInv, Apart
<1> QED
  BY <1>1, Invariance, Owned, PTL

-----------------------------------------------------------------------------
(* The sizes.  Of what lies between the callback's measurement and          *)
(* handleFrame only the first frame may have another size than the adopted  *)
(* one, and only while the session has handled none.                        *)
Announced == {"prepared", "loop", "get", "wait", "woken", "check", "handle", "recycle"}
Copying   == {"again", "get", "allocate", "duplicate", "add"}
Young     == wrk = "prepared" \/ fresh
InHands   == wrk \in {"check", "handle"} /\ held.frame # NoFrame

SizeInv ==
  wrk \in Announced =>
    /\ InHands /\ held.size # frameSize => Young
    /\ \A i \in 1..Len(queue) :
         queue[i].size # frameSize => i = 1 /\ Young /\ ~InHands
    /\ cb \in Copying /\ copy.size # frameSize => queue = <<>> /\ Young /\ ~InHands

LEMMA SizeStep ==
  ASSUME IInv, SizeInv, [Next]_vars
  PROVE  SizeInv'
<1> USE CaptureConstants DEF vars, control, sizes, frames, history, IInv, SizeInv
<1>a. /\ NoEntry.frame = NoFrame
      /\ \A f : \A e \in Entry : [e EXCEPT !.frame = f].size = e.size
  BY DEF NoEntry, Entry
<1>b. queue # <<>> => /\ Head(queue) = queue[1] /\ 1 \in 1..Len(queue)
                      /\ \A i \in 1..Len(Tail(queue)) :
                           Tail(queue)[i] = queue[i + 1] /\ i + 1 \in 1..Len(queue) /\ i + 1 # 1
  BY DEF TypeOK
<1>1. CASE UNCHANGED <<wrk, queue, held, copy, cb, frameSize, fresh>>
  BY <1>1 DEF Announced, Copying, Young, InHands
<1>2. CASE wrk' \notin Announced
  BY <1>2
<1>3. CASE PurgeUnlock
  <2>1. queue' = <<>> /\ wrk' = "prepared" /\ Len(queue') = 0
    BY <1>3, EmptySeq DEF PurgeUnlock
  <2> QED
    BY <2>1 DEF Announced, Copying, Young, InHands
<1>4. CASE OnPrepared \/ TestRunning
  BY <1>4 DEF OnPrepared, TestRunning, Announced, Copying, Young, InHands
<1>5. CASE WaitPreviewFrame \/ WaitReturns
  <2>1. wrk \in Announced /\ ~InHands /\ UNCHANGED <<cb, copy, frameSize, fresh>>
        /\ wrk # "prepared" /\ wrk' # "prepared"
    BY <1>5 DEF WaitPreviewFrame, WaitReturns, TakeFront, Announced, InHands
  <2>2. CASE queue # <<>> /\ held' = Head(queue) /\ queue' = Tail(queue)
    BY <1>b, <2>1, <2>2 DEF Young
  <2>3. CASE queue' = queue /\ ~InHands'
    BY <2>1, <2>3 DEF Young
  <2>4. queue' = queue => ~InHands'
    BY <1>5, <1>a, <2>1 DEF WaitPreviewFrame, WaitReturns, TakeFront, InHands, HoldInv
  <2> QED
    BY <1>5, <2>2, <2>3, <2>4 DEF WaitPreviewFrame, WaitReturns, TakeFront
<1>6. CASE SpuriousWakeup
  BY <1>6 DEF SpuriousWakeup, Announced, Copying, Young, InHands
<1>7. CASE CheckFrame
  BY <1>7 DEF CheckFrame, Announced, Copying, Young, InHands
<1>8. CASE HandleFrame
  <2>1. InHands /\ wrk \in Announced
    BY <1>8 DEF HandleFrame, HoldInv, InHands, Announced
  <2> QED
    BY <1>8, <2>1 DEF HandleFrame, InHands
<1>9. CASE RecycleHeld
  BY <1>9 DEF RecycleHeld, Announced, Copying, Young, InHands
<1>10. CASE FrameArrives
  BY <1>10 DEF FrameArrives, Announced, Copying, Young, InHands
<1>11. CASE MeasureFrame \/ TestAgain \/ AllocateFrame \/ GetFrame \/ DuplicateFrame \/ RecycleCopy
  <2>1. UNCHANGED <<wrk, frameSize, queue, held, fresh>>
    BY <1>11 DEF MeasureFrame, TestAgain, AllocateFrame, GetFrame, DuplicateFrame, RecycleCopy
  <2>2. cb' \in Copying /\ copy'.size # frameSize => cb \in Copying /\ copy.size = copy'.size
    <3>1. CASE MeasureFrame
      BY <3>1 DEF MeasureFrame, Copying
    <3>2. CASE cb \in Copying /\ \E f : copy' = [copy EXCEPT !.frame = f]
      BY <1>a, <3>2 DEF TypeOK
    <3>3. CASE (copy' = copy /\ cb \in Copying) \/ cb' \notin Copying
      BY <3>3
    <3> QED
      BY <1>11, <3>1, <3>2, <3>3
      DEF MeasureFrame, TestAgain, AllocateFrame, GetFrame, DuplicateFrame, RecycleCopy, Copying
  <2> QED
    BY <2>1, <2>2 DEF Young, InHands
<1>12. CASE AddPreviewFrame
  <2>1. /\ UNCHANGED <<frameSize, held, fresh>>
        /\ wrk' = wrk \/ (wrk = "wait" /\ wrk' = "woken")
        /\ cb' \notin Copying /\ cb \in Copying
    BY <1>12 DEF AddPreviewFrame, Signal, Copying
  <2>2. (wrk' \in Announced <=> wrk \in Announced) /\ InHands' = InHands /\ Young' = Young
    BY <2>1 DEF Announced, InHands, Young
  <2>3. CASE queue' = queue
    BY <2>1, <2>2, <2>3
  <2>4. CASE queue' = Append(queue, copy)
    <3>1. copy \in Captured /\ queue \in Seq(Captured)
      BY <1>12, EntryFacts DEF AddPreviewFrame, HoldInv, TypeOK
    <3>2. /\ Len(queue) \in Nat /\ Len(queue') = Len(queue) + 1
          /\ queue'[Len(queue) + 1] = copy /\ \A i \in 1..Len(queue) : queue'[i] = queue[i]
          /\ queue = <<>> => Len(queue) = 0
      BY <2>4, <3>1, EmptySeq
    <3>3. \A i \in 1..Len(queue') : \/ i \in 1..Len(queue) /\ queue'[i] = queue[i]
                                    \/ queue'[i] = copy /\ i = Len(queue) + 1
      BY <3>2
    <3>4. queue # <<>> /\ wrk \in Announced => copy.size = frameSize
      BY <2>1
    <3>5. CASE queue = <<>>
      BY <2>1, <2>2, <3>2, <3>3, <3>5
    <3>6. CASE queue # <<>>
      BY <2>1, <2>2, <3>3, <3>4, <3>6
    <3> QED
      BY <3>5, <3>6
  <2> QED
    BY <1>12, <2>3, <2>4 DEF AddPreviewFrame
<1>13. CASE ClientCall \/ ControllerStep
  <2>1. CASE UNCHANGED <<wrk, queue, held, copy, cb, frameSize, fresh>>
    BY <1>1, <2>1
  <2>2. CASE SignalWorker
    BY <2>2 DEF SignalWorker, Signal, Announced, Copying, Young, InHands
  <2>3. CASE SpawnWorker \/ JoinWorker \/ FlushOne \/ FlushUnlock
    BY <1>2, <2>3 DEF SpawnWorker, JoinWorker, FlushOne, FlushUnlock, ControlInv, Announced
  <2> QED
    BY <1>13, <2>1, <2>2, <2>3
    DEF ClientCall, ControllerStep, SetPreviewSize, StartCapture, StopCapture, FlushLock, ClearPool
<1>14. CASE Negotiate \/ StartStreaming \/ AdoptSize \/ PurgeLock \/ PurgeOne
            \/ OnFinished \/ StopStreaming \/ OnFailed
  <2>1. wrk' \notin Announced
    BY <1>14 DEF Negotiate, StartStreaming, AdoptSize, PurgeLock, PurgeOne, OnFinished,
                 StopStreaming, OnFailed, Announced
  <2> QED
    BY <1>2, <2>1
<1>15. CASE UNCHANGED vars
  BY <1>1, <1>15
<1> QED
  BY <1>3, <1>4, <1>5, <1>6, <1>7, <1>8, <1>9, <1>10, <1>11, <1>12, <1>13, <1>14, <1>15
  DEF Next, WorkerStep, CallbackStep, Destroyed

(* However setPreviewSize, the worker and the callback interleave,          *)
(* handleFrame gets a frame of another size than onPrepared announced at    *)
(* most once in a session, as its first (UVCPreviewBase.cpp:306-320).       *)
THEOREM StaleFrame == Spec => []OnlyFirstIsStale
<1>1. Init => SizeInv
  BY DEF Init, SizeInv, Announced
<1>2. IInv /\ SizeInv /\ [Next]_vars => SizeInv'
  BY SizeStep
<1>3. IInv /\ SizeInv => OnlyFirstIsStale
  BY DEF IInv, HoldInv, SizeInv, Announced, Young, InHands, OnlyFirstIsStale
<1> QED
  BY <1>1, <1>2, <1>3, Invariance, PTL DEF Spec

-----------------------------------------------------------------------------
(* The refinement.  What the listener was told last, by where worker and    *)
(* controller stand.                                                        *)
PhaseInv ==
  /\ wrk \in {"negotiate", "stream", "fail", "adopt", "height", "lock", "purge", "prepared"} => phase = "started"
  /\ wrk \in {"loop", "get", "wait", "woken", "check", "handle", "recycle", "finish"} => phase = "prepared"
  /\ wrk = "halt" => phase = "finished"
  /\ wrk = "done" => phase \in {"finished", "failed"}
  /\ wrk = "none" => phase \in IF ctl \in {"flush", "clear"} THEN {"stopped", "finished", "failed"}
                                ELSE {"stopped"}

LEMMA PhaseStep ==
  ASSUME IInv, PhaseInv, [Next]_vars
  PROVE  PhaseInv'
<1> USE DEF PhaseInv
<1>1. CASE UNCHANGED <<wrk, ctl, phase>>
  BY <1>1
<1>2. CASE UNCHANGED <<wrk, phase>> /\ (wrk # "none" \/ ctl \in {"idle", "flush"} \/ ctl = "clearPool")
           /\ (ctl' \in {"flush", "clear"} \/ ctl \notin {"flush", "clear"})
  BY <1>2
<1>3. CASE SpawnWorker \/ SignalWorker \/ JoinWorker \/ FlushUnlock
  BY <1>3 DEF SpawnWorker, SignalWorker, Signal, JoinWorker, FlushUnlock, IInv, ControlInv,
              control, history
<1>4. CASE Negotiate \/ StartStreaming \/ AdoptSize \/ PurgeLock \/ PurgeUnlock \/ OnPrepared
           \/ TestRunning \/ CheckFrame \/ HandleFrame \/ RecycleHeld
           \/ OnFinished \/ StopStreaming \/ OnFailed \/ SpuriousWakeup
  BY <1>4 DEF Negotiate, StartStreaming, AdoptSize, PurgeLock, PurgeUnlock, OnPrepared,
              TestRunning, CheckFrame, HandleFrame, RecycleHeld, OnFinished,
              StopStreaming, OnFailed, SpuriousWakeup, control, history
<1>5. CASE WaitPreviewFrame \/ WaitReturns
  BY <1>5 DEF WaitPreviewFrame, WaitReturns, TakeFront, control, history
<1>6. CASE AddPreviewFrame
  BY <1>6 DEF AddPreviewFrame, Signal, control, history
<1> QED
  BY <1>1, <1>2, <1>3, <1>4, <1>5, <1>6
  DEF Next, ClientCall, ControllerStep, WorkerStep, CallbackStep, Destroyed, vars, control, history,
      SetPreviewSize, StartCapture, StopCapture, FlushLock, FlushOne, ClearPool, PurgeOne,
      FrameArrives, MeasureFrame, TestAgain, GetFrame, AllocateFrame, DuplicateFrame, RecycleCopy

(* The channel: the stamps of the frame in hand and of the queue. *)
Channel == Stamps(InHand \o queue)

LEMMA StampsFacts ==
  ASSUME NEW q \in Seq(Captured)
  PROVE  /\ Stamps(q) \in Seq(0..MaxStamp) /\ Len(Stamps(q)) = Len(q) /\ Len(q) \in Nat
         /\ \A i \in 1..Len(q) : Stamps(q)[i] = q[i].stamp
<1>1. Len(q) \in Nat /\ \A i \in 1..Len(q) : q[i] \in Captured
  OBVIOUS
<1>2. \A i \in 1..Len(q) : q[i].stamp \in 0..MaxStamp
  BY <1>1 DEF Captured
<1> QED
  BY <1>1, <1>2 DEF Stamps

LEMMA StampsShift ==
  ASSUME NEW q \in Seq(Captured), q # <<>>
  PROVE  /\ Stamps(q) # <<>>
         /\ Stamps(Tail(q)) = Tail(Stamps(q))
         /\ Head(Stamps(q)) = Head(q).stamp
<1>1. /\ Len(q) \in Nat /\ Len(q) >= 1 /\ Len(Tail(q)) = Len(q) - 1 /\ Tail(q) \in Seq(Captured)
      /\ Head(q) = q[1] /\ \A i \in 1..Len(q) - 1 : Tail(q)[i] = q[i + 1]
  OBVIOUS
<1>2. /\ Stamps(q) \in Seq(0..MaxStamp) /\ Len(Stamps(q)) = Len(q)
      /\ \A i \in 1..Len(q) : Stamps(q)[i] = q[i].stamp
  BY StampsFacts
<1>3. /\ Stamps(Tail(q)) \in Seq(0..MaxStamp) /\ Len(Stamps(Tail(q))) = Len(q) - 1
      /\ \A i \in 1..Len(q) - 1 : Stamps(Tail(q))[i] = Tail(q)[i].stamp
  BY <1>1, StampsFacts
<1>4. /\ Stamps(q) # <<>> /\ Tail(Stamps(q)) \in Seq(0..MaxStamp)
      /\ Len(Tail(Stamps(q))) = Len(q) - 1 /\ Head(Stamps(q)) = Stamps(q)[1]
      /\ \A i \in 1..Len(q) - 1 : Tail(Stamps(q))[i] = Stamps(q)[i + 1]
  BY <1>1, <1>2
<1>5. \A i \in 1..Len(q) - 1 : i + 1 \in 1..Len(q) /\ 1 \in 1..Len(q)
  BY <1>1
<1>6. \A i \in 1..Len(q) - 1 : Stamps(Tail(q))[i] = Tail(Stamps(q))[i]
  BY <1>1, <1>2, <1>3, <1>4, <1>5
<1>7. Head(Stamps(q)) = Head(q).stamp
  BY <1>1, <1>2, <1>4
<1> QED
  BY <1>3, <1>4, <1>6, <1>7, SeqEqual

LEMMA StampsAppend ==
  ASSUME NEW q \in Seq(Captured), NEW e \in Captured
  PROVE  Stamps(Append(q, e)) = Append(Stamps(q), e.stamp)
<1>1. /\ Len(q) \in Nat /\ Len(Append(q, e)) = Len(q) + 1 /\ Append(q, e) \in Seq(Captured)
      /\ Append(q, e)[Len(q) + 1] = e /\ \A i \in 1..Len(q) : Append(q, e)[i] = q[i]
  OBVIOUS
<1>2. /\ Stamps(q) \in Seq(0..MaxStamp) /\ Len(Stamps(q)) = Len(q)
      /\ \A i \in 1..Len(q) : Stamps(q)[i] = q[i].stamp
  BY StampsFacts
<1>3. /\ Stamps(Append(q, e)) \in Seq(0..MaxStamp) /\ Len(Stamps(Append(q, e))) = Len(q) + 1
      /\ \A i \in 1..Len(q) + 1 : Stamps(Append(q, e))[i] = Append(q, e)[i].stamp
  BY <1>1, StampsFacts
<1>4. e.stamp \in 0..MaxStamp
  BY DEF Captured
<1>5. /\ Append(Stamps(q), e.stamp) \in Seq(0..MaxStamp)
      /\ Len(Append(Stamps(q), e.stamp)) = Len(q) + 1
      /\ Append(Stamps(q), e.stamp)[Len(q) + 1] = e.stamp
      /\ \A i \in 1..Len(q) : Append(Stamps(q), e.stamp)[i] = Stamps(q)[i]
  BY <1>2, <1>4
<1>6. \A i \in 1..Len(q) + 1 : i \in 1..Len(q) \/ i = Len(q) + 1
  BY <1>1
<1>7. \A i \in 1..Len(q) + 1 : Stamps(Append(q, e))[i] = Append(Stamps(q), e.stamp)[i]
  BY <1>1, <1>2, <1>3, <1>5, <1>6
<1> QED
  BY <1>3, <1>5, <1>7, SeqEqual

(* A frame put before a queue. *)
LEMMA Prefixed ==
  ASSUME NEW q \in Seq(Captured), NEW h \in Captured
  PROVE  /\ <<h>> \o q \in Seq(Captured) /\ <<h>> \o q # <<>>
         /\ Head(<<h>> \o q) = h /\ Tail(<<h>> \o q) = q
         /\ Len(<<h>> \o q) = Len(q) + 1
         /\ \A e \in Captured : Append(<<h>> \o q, e) = <<h>> \o Append(q, e)
OBVIOUS

LEMMA Fronted ==
  ASSUME NEW q \in Seq(Captured), q # <<>>
  PROVE  <<Head(q)>> \o Tail(q) = q /\ Head(q) \in Captured /\ Tail(q) \in Seq(Captured)
OBVIOUS

LEMMA Empty ==
  ASSUME NEW q \in Seq(Captured)
  PROVE  <<>> \o q = q
OBVIOUS

(* The channel by what the worker has in hand. *)
LEMMA ChannelFacts ==
  ASSUME TypeOK
  PROVE  /\ InHand = <<>> => InHand \o queue = queue
         /\ InHand = <<>> \/ (InHand = <<held>> /\ held \in Captured)
         /\ InHand \o queue \in Seq(Captured)
         /\ Channel \in Seq(0..MaxStamp) /\ Len(Channel) = Len(InHand \o queue)
         /\ Len(InHand \o queue) <= Len(queue) + 1
         /\ Len(queue) \in Nat
<1>1. InHand = <<>> \/ (InHand = <<held>> /\ held \in Captured)
  BY EntryFacts DEF InHand, TypeOK
<1>2. queue \in Seq(Captured) /\ Len(queue) \in Nat
  BY DEF TypeOK
<1>3. CASE InHand = <<>>
  <2>1. InHand \o queue = queue
    BY <1>2, <1>3, Empty
  <2> QED
    BY <1>1, <1>2, <2>1, StampsFacts DEF Channel
<1>4. CASE InHand = <<held>> /\ held \in Captured
  <2>1. /\ InHand \o queue \in Seq(Captured) /\ Len(InHand \o queue) = Len(queue) + 1
    BY <1>2, <1>4, Prefixed
  <2>2. InHand # <<>>
    BY <1>4
  <2>3. Channel \in Seq(0..MaxStamp) /\ Len(Channel) = Len(InHand \o queue)
    BY <2>1, StampsFacts DEF Channel
  <2> QED
    BY <1>1, <1>2, <2>1, <2>2, <2>3
<1> QED
  BY <1>1, <1>3, <1>4

(* The ways a step can change the channel. *)
Stays    == Channel' = Channel /\ delivered' = delivered
Discards == Channel # <<>> /\ Channel' = Tail(Channel) /\ delivered' = delivered
Delivers == Channel # <<>> /\ Channel' = Tail(Channel) /\ delivered' = Head(Channel)
Accepts  == /\ Channel' = Append(Channel, copy.stamp) /\ delivered' = delivered
            /\ Len(Channel) < MaxFramesQueue + 1

LEMMA TakeStays ==
  ASSUME TypeOK, wrk \in {"get", "woken"}, TakeFront, UNCHANGED delivered
  PROVE  Stays
<1>1. InHand = <<>> /\ Channel = Stamps(queue)
  BY ChannelFacts DEF InHand, Channel
<1>2. CASE queue # <<>> /\ held' = Head(queue) /\ queue' = Tail(queue)
  <2>1. queue \in Seq(Captured)
    BY DEF TypeOK
  <2>2. Head(queue) \in Captured /\ <<Head(queue)>> \o Tail(queue) = queue
    BY <1>2, <2>1, Fronted
  <2>3. InHand' = <<Head(queue)>>
    BY <1>2, <2>2, EntryFacts DEF TakeFront, InHand
  <2> QED
    BY <1>1, <1>2, <2>2, <2>3 DEF Stays, Channel
<1>3. CASE held' = NoEntry /\ queue' = queue
  <2>1. InHand' = <<>>
    BY <1>3, EntryFacts DEF InHand
  <2> QED
    BY <1>1, <1>3, <2>1, ChannelFacts DEF Stays, Channel
<1> QED
  BY <1>2, <1>3 DEF TakeFront

LEMMA ClearDiscards ==
  ASSUME TypeOK, wrk \notin {"check", "handle"}, wrk' = wrk, ClearOne, UNCHANGED delivered
  PROVE  Discards
<1>1. InHand = <<>> /\ InHand' = <<>>
  BY DEF InHand
<1>2. queue # <<>> /\ queue' = Tail(queue) /\ queue \in Seq(Captured) /\ queue' \in Seq(Captured)
  BY ShorterQueue DEF ClearOne, TypeOK
<1>3. Channel = Stamps(queue) /\ Channel' = Stamps(queue')
  BY <1>1, <1>2, Empty DEF Channel
<1> QED
  BY <1>2, <1>3, StampsShift DEF Discards

(* The frame in hand leaves it. *)
LEMMA HandEmpties ==
  ASSUME TypeOK, InHand = <<held>>, held \in Captured, InHand' = <<>>, queue' = queue
  PROVE  Channel # <<>> /\ Channel' = Tail(Channel) /\ Head(Channel) = held.stamp
<1>1. queue \in Seq(Captured)
  BY DEF TypeOK
<1>2. /\ <<held>> \o queue \in Seq(Captured) /\ <<held>> \o queue # <<>>
      /\ Head(<<held>> \o queue) = held /\ Tail(<<held>> \o queue) = queue
  BY <1>1, Prefixed
<1>3. Channel = Stamps(<<held>> \o queue) /\ Channel' = Stamps(queue)
  BY <1>1, Empty DEF Channel
<1> QED
  BY <1>2, <1>3, StampsShift

LEMMA AddAccepts ==
  ASSUME IInv, AddPreviewFrame, queue' = Append(queue, copy), Len(queue) < MaxFramesQueue
  PROVE  Accepts
<1>1. copy \in Captured /\ queue \in Seq(Captured)
  BY EntryFacts DEF AddPreviewFrame, HoldInv, TypeOK, IInv
<1>2. InHand' = InHand
  BY DEF InHand, AddPreviewFrame, Signal
<1>3. InHand' \o queue' = Append(InHand \o queue, copy)
  <2>1. CASE InHand = <<>>
    <3>1. Append(queue, copy) \in Seq(Captured)
      BY <1>1
    <3> QED
      BY <1>1, <1>2, <2>1, <3>1, Empty
  <2>2. CASE InHand = <<held>> /\ held \in Captured
    BY <1>1, <1>2, <2>2, Prefixed
  <2> QED
    BY <2>1, <2>2, ChannelFacts DEF IInv
<1>4. Channel' = Append(Channel, copy.stamp)
  BY <1>1, <1>3, ChannelFacts, StampsAppend DEF Channel, IInv
<1>5. Len(Channel) < MaxFramesQueue + 1
  BY ChannelFacts, CaptureConstants DEF IInv
<1>6. delivered' = delivered
  BY DEF AddPreviewFrame, history
<1> QED
  BY <1>4, <1>5, <1>6 DEF Accepts

(* What every step does to the channel. *)
LEMMA ChannelStep ==
  ASSUME IInv, [Next]_vars
  PROVE  \/ Stays
         \/ Discards /\ (FlushOne \/ PurgeOne \/ CheckFrame)
         \/ Delivers /\ HandleFrame
         \/ Accepts /\ AddPreviewFrame
<1> USE DEF vars, control, sizes, frames, history
<1>1. CASE UNCHANGED <<queue, held, delivered>> /\ InHand' = InHand
  BY <1>1 DEF Stays, Channel
<1>2. CASE /\ UNCHANGED <<queue, delivered>>
           /\ wrk \notin {"check", "handle"} /\ wrk' \notin {"check", "handle"}
  <2>1. InHand = <<>> /\ InHand' = <<>>
    BY <1>2 DEF InHand
  <2> QED
    BY <1>2, <2>1 DEF Stays, Channel
<1>3. CASE FlushOne \/ PurgeOne
  <2>1. wrk \notin {"check", "handle"} /\ wrk' = wrk /\ ClearOne /\ UNCHANGED delivered
    BY <1>3 DEF FlushOne, PurgeOne, IInv, ControlInv
  <2> QED
    BY <1>3, <2>1, ClearDiscards DEF IInv
<1>4. CASE WaitPreviewFrame \/ WaitReturns
  <2>1. CASE TakeFront
    BY <1>4, <2>1, TakeStays DEF WaitPreviewFrame, WaitReturns, IInv
  <2>2. CASE wrk = "get" /\ wrk' = "wait" /\ UNCHANGED <<queue, delivered>>
    BY <1>2, <2>2
  <2> QED
    BY <1>4, <2>1, <2>2 DEF WaitPreviewFrame, WaitReturns
<1>5. CASE CheckFrame
  <2>1. CASE wrk' = "handle"
    BY <1>1, <1>5, <2>1 DEF CheckFrame, InHand
  <2>2. CASE wrk' = "recycle"
    <3>1. CASE held.frame = NoFrame
      BY <1>1, <1>5, <2>2, <3>1 DEF CheckFrame, InHand
    <3>2. CASE held.frame # NoFrame
      <4>1. InHand = <<held>> /\ InHand' = <<>> /\ queue' = queue /\ delivered' = delivered
        BY <1>5, <2>2, <3>2 DEF CheckFrame, InHand
      <4>2. held \in Captured
        BY <3>2, EntryFacts DEF IInv, TypeOK
      <4> QED
        BY <1>5, <4>1, <4>2, HandEmpties DEF Discards, IInv
    <3> QED
      BY <3>1, <3>2
  <2> QED
    BY <1>5, <2>1, <2>2 DEF CheckFrame
<1>6. CASE HandleFrame
  <2>1. InHand = <<held>> /\ InHand' = <<>> /\ queue' = queue /\ delivered' = held.stamp
    BY <1>6 DEF HandleFrame, InHand, IInv, HoldInv
  <2>2. held \in Captured
    BY <1>6, EntryFacts DEF IInv, TypeOK, HandleFrame, HoldInv
  <2> QED
    BY <1>6, <2>1, <2>2, HandEmpties DEF Delivers, IInv
<1>7. CASE AddPreviewFrame
  <2>1. CASE Len(queue) < MaxFramesQueue /\ queue' = Append(queue, copy)
    BY <1>7, <2>1, AddAccepts
  <2>2. CASE UNCHANGED <<queue, wrk>>
    BY <1>1, <1>7, <2>2 DEF AddPreviewFrame, InHand
  <2> QED
    BY <1>7, <2>1, <2>2 DEF AddPreviewFrame
<1>8. CASE UNCHANGED <<queue, held, delivered, wrk>>
  BY <1>1, <1>8 DEF InHand
<1> QED
  BY <1>2, <1>3, <1>4, <1>5, <1>6, <1>7, <1>8
  DEF Next, ClientCall, ControllerStep, WorkerStep, CallbackStep, Destroyed,
      SetPreviewSize, StartCapture, StopCapture, SpawnWorker, SignalWorker, Signal, JoinWorker,
      FlushLock, FlushUnlock, ClearPool, Negotiate, StartStreaming, AdoptSize, PurgeLock, PurgeUnlock,
      OnPrepared, TestRunning, SpuriousWakeup, RecycleHeld, OnFinished, StopStreaming, OnFailed,
      FrameArrives, MeasureFrame, TestAgain, GetFrame, AllocateFrame, DuplicateFrame, RecycleCopy,
      IInv, ControlInv

(* The stamps in the channel grow, after what was delivered and before what *)
(* the callback brings.                                                     *)
TimeInv ==
  /\ delivered <= clock
  /\ \A i \in 1..Len(Channel) : delivered < Channel[i] /\ Channel[i] <= clock
  /\ \A i, j \in 1..Len(Channel) : i < j => Channel[i] < Channel[j]
  /\ cb # "idle" => /\ copy.stamp = clock /\ delivered < clock
                    /\ \A i \in 1..Len(Channel) : Channel[i] < clock

(* What the clock and the callback's stamp do. *)
LEMMA ClockStep ==
  ASSUME IInv, [Next]_vars
  PROVE  \/ clock' = clock /\ (cb' = "idle" \/ (cb # "idle" /\ copy'.stamp = copy.stamp))
         \/ clock' = clock + 1 /\ copy'.stamp = clock' /\ FrameArrives
<1> USE DEF vars, control, sizes, frames, history
<1>1. \A f : [copy EXCEPT !.frame = f].stamp = copy.stamp
  BY DEF IInv, TypeOK, Entry
<1>2. CASE GetFrame
  BY <1>1, <1>2 DEF GetFrame
<1>3. CASE AllocateFrame
  BY <1>1, <1>3 DEF AllocateFrame
<1>4. CASE UNCHANGED <<clock, cb, copy>>
  BY <1>4
<1>5. CASE FrameArrives
  BY <1>5 DEF FrameArrives
<1> QED
  BY <1>2, <1>3, <1>4, <1>5
  DEF Next, ClientCall, ControllerStep, WorkerStep, CallbackStep, Destroyed,
      SetPreviewSize, StartCapture, StopCapture, SpawnWorker, SignalWorker, JoinWorker,
      FlushLock, FlushOne, FlushUnlock, ClearPool, Negotiate, StartStreaming, AdoptSize, PurgeLock,
      PurgeOne, PurgeUnlock, OnPrepared, TestRunning, WaitPreviewFrame, WaitReturns, SpuriousWakeup,
      CheckFrame, HandleFrame, RecycleHeld, OnFinished, StopStreaming, OnFailed,
      MeasureFrame, TestAgain, DuplicateFrame, AddPreviewFrame, RecycleCopy

LEMMA TimeStep ==
  ASSUME IInv, TimeInv, [Next]_vars
  PROVE  TimeInv'
<1>1. /\ Channel \in Seq(0..MaxStamp) /\ Len(Channel) \in Nat
      /\ \A i \in 1..Len(Channel) : Channel[i] \in Nat
      /\ clock \in Nat /\ delivered \in Nat
  <2>1. Channel \in Seq(0..MaxStamp) /\ clock \in Nat /\ delivered \in Nat
    BY ChannelFacts, CaptureConstants DEF IInv, TypeOK
  <2> QED
    BY <2>1, CaptureConstants
<1>2. ASSUME Channel # <<>>
      PROVE  /\ Len(Channel) >= 1 /\ Len(Tail(Channel)) = Len(Channel) - 1 /\ Head(Channel) = Channel[1]
             /\ \A i \in 1..Len(Tail(Channel)) : i + 1 \in 1..Len(Channel) /\ Tail(Channel)[i] = Channel[i + 1]
             /\ 1 \in 1..Len(Channel)
  BY <1>1, <1>2
<1> HIDE DEF Channel
<1>3. CASE Stays
  <2>1. CASE clock' = clock
    BY <1>1, <1>3, <2>1, ClockStep DEF Stays, TimeInv
  <2>2. CASE clock' = clock + 1 /\ copy'.stamp = clock'
    BY <1>1, <1>3, <2>2 DEF Stays, TimeInv
  <2> QED
    BY <2>1, <2>2, ClockStep
<1>4. CASE Discards /\ (FlushOne \/ PurgeOne \/ CheckFrame)
  <2>1. UNCHANGED <<clock, cb, copy>>
    BY <1>4 DEF FlushOne, PurgeOne, CheckFrame, history
  <2> QED
    BY <1>1, <1>2, <1>4, <2>1 DEF Discards, TimeInv
<1>5. CASE Delivers /\ HandleFrame
  <2>1. UNCHANGED <<clock, cb, copy>>
    BY <1>5 DEF HandleFrame
  <2> QED
    BY <1>1, <1>2, <1>5, <2>1 DEF Delivers, TimeInv
<1>6. CASE Accepts /\ AddPreviewFrame
  <2>1. clock' = clock /\ cb # "idle" /\ cb' \in {"idle", "drop"}
    BY <1>6 DEF AddPreviewFrame, history
  <2>2. CASE cb' = "idle"
    <3>1. /\ Len(Channel') = Len(Channel) + 1 /\ Channel'[Len(Channel) + 1] = copy.stamp
          /\ \A i \in 1..Len(Channel) : Channel'[i] = Channel[i]
      <4>1. copy.stamp \in 0..MaxStamp
        BY DEF IInv, TypeOK, Entry
      <4> QED
        BY <1>1, <1>6, <4>1 DEF Accepts
    <3>2. \A i \in 1..Len(Channel') : i \in 1..Len(Channel) \/ i = Len(Channel) + 1
      BY <1>1, <3>1
    <3>3. copy.stamp = clock /\ delivered' = delivered
      BY <1>6, <2>1 DEF Accepts, TimeInv
    <3> QED
      BY <1>1, <2>1, <2>2, <3>1, <3>2, <3>3 DEF TimeInv
  <2>3. CASE cb' = "drop"
    <3>1. Channel' = Channel
      BY <1>6, <2>3 DEF AddPreviewFrame, Channel, InHand
    <3>2. Len(Channel') = Len(Channel) + 1
      <4>1. copy.stamp \in 0..MaxStamp
        BY DEF IInv, TypeOK, Entry
      <4> QED
        BY <1>1, <1>6, <4>1 DEF Accepts
    <3> QED
      BY <1>1, <3>1, <3>2
  <2> QED
    BY <2>1, <2>2, <2>3
<1> QED
  BY <1>3, <1>4, <1>5, <1>6, ChannelStep

(* The lifecycle of a session, by the step that makes it. *)
LEMMA LifecycleStep ==
  ASSUME IInv, PhaseInv, [Next]_vars
  PROVE  \/ phase' = phase
         \/ phase = "stopped" /\ phase' = "started" /\ Stays
         \/ phase = "started" /\ phase' = "prepared" /\ Stays
         \/ phase = "prepared" /\ phase' = "finished" /\ Stays
         \/ phase = "started" /\ phase' = "failed" /\ Stays /\ Channel = <<>>
         \/ phase \in {"finished", "failed"} /\ phase' = "stopped" /\ Stays /\ Channel = <<>>
<1> USE DEF vars, control, sizes, frames, history
<1>1. (wrk \notin {"check", "handle"} /\ queue = <<>>) => Channel = <<>>
  <2> SUFFICES ASSUME wrk \notin {"check", "handle"}, queue = <<>> PROVE Channel = <<>>
    OBVIOUS
  <2>1. InHand \o queue = <<>> /\ queue \in Seq(Captured)
    BY ChannelFacts DEF InHand, IInv, TypeOK
  <2>2. Len(Channel) = 0 /\ Channel \in Seq(0..MaxStamp)
    BY <2>1, ChannelFacts, EmptySeq DEF IInv
  <2> HIDE DEF Channel
  <2> QED
    BY <2>2, EmptySeq
<1>2. CASE UNCHANGED phase
  BY <1>2
<1>3. ASSUME SpawnWorker \/ OnPrepared \/ OnFinished \/ OnFailed \/ FlushUnlock
      PROVE  Stays
  BY <1>3, ChannelStep DEF SpawnWorker, OnPrepared, OnFinished, OnFailed, FlushUnlock,
     FlushOne, PurgeOne, CheckFrame, HandleFrame, AddPreviewFrame, ClearOne, IInv, ControlInv, Signal
<1>4. CASE SpawnWorker
  BY <1>3, <1>4 DEF SpawnWorker, PhaseInv, IInv, ControlInv
<1>5. CASE OnPrepared
  BY <1>3, <1>5 DEF OnPrepared, PhaseInv
<1>6. CASE OnFinished
  BY <1>3, <1>6 DEF OnFinished, PhaseInv
<1>7. CASE OnFailed
  BY <1>1, <1>3, <1>7 DEF OnFailed, PhaseInv, IInv, QueueInv
<1>8. CASE FlushUnlock
  <2>1. wrk = "none" /\ queue = <<>>
    BY <1>8 DEF FlushUnlock, IInv, ControlInv
  <2> QED
    BY <1>1, <1>3, <1>8, <2>1 DEF FlushUnlock, PhaseInv
<1> QED
  BY <1>2, <1>4, <1>5, <1>6, <1>7, <1>8
  DEF Next, ClientCall, ControllerStep, WorkerStep, CallbackStep, Destroyed,
      SetPreviewSize, StartCapture, StopCapture, SignalWorker, JoinWorker,
      FlushLock, FlushOne, ClearPool, Negotiate, StartStreaming, AdoptSize, PurgeLock, PurgeOne,
      PurgeUnlock, TestRunning, WaitPreviewFrame, WaitReturns, SpuriousWakeup, CheckFrame,
      HandleFrame, RecycleHeld, StopStreaming, FrameArrives, MeasureFrame, TestAgain, GetFrame,
      AllocateFrame, DuplicateFrame, AddPreviewFrame, RecycleCopy

(* Each step of the capture is a step of the session, or none of its. *)
LEMMA SessionStep ==
  ASSUME IInv, PhaseInv, TimeInv, [Next]_vars
  PROVE  [Session!Next]_(Session!vars)
<1>1. ASSUME Stays, phase' = phase PROVE UNCHANGED Session!vars
  BY <1>1 DEF Stays, Channel, Session!vars
<1>2. ASSUME Stays, phase' # phase PROVE Session!Next
  BY <1>2, LifecycleStep
  DEF Stays, Channel, Session!Next, Session!Lifecycle, Session!Start, Session!Prepare,
      Session!Finish, Session!Fail, Session!Stop
<1>3. CASE Discards /\ (FlushOne \/ PurgeOne \/ CheckFrame)
  <2>1. phase' = phase
    BY <1>3 DEF FlushOne, PurgeOne, CheckFrame, history
  <2> QED
    BY <1>3, <2>1 DEF Discards, Channel, Session!Discard, Session!Next
<1>4. CASE Delivers /\ HandleFrame
  <2>1. phase' = phase /\ phase = "prepared"
    BY <1>4 DEF HandleFrame, PhaseInv
  <2> QED
    BY <1>4, <2>1 DEF Delivers, Channel, Session!Deliver, Session!Next
<1>5. CASE Accepts /\ AddPreviewFrame
  <2>1. phase' = phase /\ cb # "idle"
    BY <1>5 DEF AddPreviewFrame, history
  <2>2. phase \in {"started", "prepared", "finished"}
    BY <2>1 DEF IInv, ControlInv, PhaseInv, TypeOK
  <2>3. /\ copy.stamp > delivered
        /\ \A i \in 1..Len(Channel) : copy.stamp > Channel[i]
    <3>1. copy.stamp = clock /\ delivered < clock /\ \A i \in 1..Len(Channel) : Channel[i] < clock
      BY <2>1 DEF TimeInv
    <3>2. clock \in Nat /\ delivered \in Nat
      BY CaptureConstants DEF IInv, TypeOK
    <3>3. \A i \in 1..Len(Channel) : Channel[i] \in Nat
      BY ChannelFacts, CaptureConstants DEF IInv
    <3> QED
      BY <3>1, <3>2, <3>3
  <2>4. copy.stamp \in 1..MaxStamp
    BY <2>3, CaptureConstants DEF IInv, TypeOK, Entry
  <2> QED
    BY <1>5, <2>1, <2>2, <2>3, <2>4 DEF Accepts, Channel, Session!Accept, Session!Next
<1> QED
  BY <1>1, <1>2, <1>3, <1>4, <1>5, ChannelStep

(* The capture implements the lossy channel of CaptureSession, for every    *)
(* capacity: sessions start, are prepared or fail, finish and stop, and     *)
(* frames are delivered in the order in which they were accepted, none      *)
(* outside a prepared session (ImplementsSession).                          *)
THEOREM Refinement == Spec => ImplementsSession
<1>1. Init => Session!Init /\ PhaseInv /\ TimeInv
  <2> SUFFICES ASSUME Init PROVE Session!Init /\ PhaseInv /\ TimeInv
    OBVIOUS
  <2>1. InHand = <<>> /\ queue = <<>>
    BY DEF Init, InHand
  <2>2. InHand \o queue = <<>>
    BY <2>1
  <2>3. Channel = <<>>
    BY <2>2, EmptySeq DEF Channel, Stamps
  <2>4. Len(Channel) = 0
    BY <2>3, EmptySeq
  <2>5. Session!Init
    BY <2>3 DEF Init, Session!Init, Channel
  <2>6. PhaseInv
    BY DEF Init, PhaseInv
  <2>7. TimeInv
    BY <2>4 DEF Init, TimeInv
  <2> QED
    BY <2>5, <2>6, <2>7
<1>2. IInv /\ PhaseInv /\ [Next]_vars => PhaseInv'
  BY PhaseStep
<1>3. IInv /\ TimeInv /\ [Next]_vars => TimeInv'
  BY TimeStep
<1>4. IInv /\ PhaseInv /\ TimeInv /\ [Next]_vars => [Session!Next]_(Session!vars)
  BY SessionStep
<1> QED
  BY <1>1, <1>2, <1>3, <1>4, Invariance, PTL DEF Spec, ImplementsSession, Session!Spec

=============================================================================
