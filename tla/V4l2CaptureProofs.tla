-------------------------- MODULE V4l2CaptureProofs --------------------------
(***************************************************************************)
(* V4l2Capture, for any number of buffers and frames: the types, where the *)
(* buffers are, when a frame is overwritten and in which order frames are  *)
(* drawn.                                                                  *)
(***************************************************************************)
EXTENDS V4l2Capture, FiniteSetTheorems, TLAPS

Looping == pc \in {"poll", "wait", "read", "requeue", "convert", "stop"}
Holding == pc \in {"requeue", "convert"}

(* Where the program stands, and what it then has of the device. *)
PhaseInv ==
  /\ ending = "none" <=> pc # "end"
  /\ pc # "end" => (streaming <=> Looping)
  /\ pc \in {"open", "init", "request"} => mapped = {} /\ incoming = <<>> /\ outgoing = <<>>
  /\ pc = "query" => /\ mapped = 1 .. i /\ i <= count
                     /\ incoming = <<>> /\ outgoing = <<>>
  /\ pc = "queue" => mapped = 1 .. count /\ i <= count /\ outgoing = <<>>
  /\ pc = "streamon" => mapped = 1 .. count /\ outgoing = <<>>
  /\ Looping => mapped = 1 .. count
  /\ pc = "unmap" => mapped = (i + 1) .. count /\ i <= count
  /\ pc = "close" => mapped = {}
  /\ pc \notin {"open", "end"} => fd = "open"

(* The buffers while the program queues them and while it streams: each is
   once in one place. *)
Queueing == pc \in {"queue", "streamon"}
Granted  == IF pc = "queue" THEN i ELSE count
HeldNow  == IF pc = "requeue" THEN {result.buffer} ELSE {}
Hand     == IF pc = "requeue" THEN 1 ELSE 0

PlaceInv ==
  (Queueing \/ (streaming /\ pc # "end")) =>
    /\ Entries(incoming) \cup Entries(outgoing) \cup HeldNow = 1 .. Granted
    /\ Len(incoming) + Len(outgoing) + Hand = Granted

DistinctInv ==
  /\ \A j, k \in 1 .. Len(incoming) : incoming[j] = incoming[k] => j = k
  /\ \A j, k \in 1 .. Len(outgoing) : outgoing[j] = outgoing[k] => j = k
  /\ \A j \in 1 .. Len(incoming), k \in 1 .. Len(outgoing) : incoming[j] # outgoing[k]
  /\ pc = "requeue" => /\ \A j \in 1 .. Len(incoming) : incoming[j] # result.buffer
                       /\ \A k \in 1 .. Len(outgoing) : outgoing[k] # result.buffer

(* The frames that wait are older than the last that came, and in order. *)
OrderInv ==
  /\ \A b \in Buffers : content[b] <= frames
  /\ \A j, k \in 1 .. Len(outgoing) :
       j <= k => content[outgoing[j]] + (k - j) <= content[outgoing[k]]

(* The frame that was taken: older than all that wait, and in its buffer
   until the driver comes round to it. *)
TakenInv ==
  Holding =>
    /\ result.buffer \in 1 .. count
    /\ result.frame <= frames
    /\ \A k \in 1 .. Len(outgoing) : result.frame + k <= content[outgoing[k]]
    /\ pc = "requeue" => ~result.torn
    /\ ~result.torn => content[result.buffer] = result.frame
    /\ pc = "convert" /\ ~result.torn =>
         /\ Len(incoming) > 0 /\ incoming[Len(incoming)] = result.buffer
         /\ \A k \in 1 .. Len(outgoing) : outgoing[k] # result.buffer
    /\ pc = "convert" /\ result.torn =>
         /\ (1 .. count) \ {result.buffer} \subseteq Entries(outgoing)
         /\ result.buffer \in Coming
         /\ frames >= result.frame + count

(* The frame that is being written is the last one, in the first buffer the
   driver has, which is not the one the program looks at unless it is torn. *)
FillInv ==
  filling =>
    /\ incoming # <<>>
    /\ pc # "end" => Looping
    /\ content[incoming[1]] = frames
    /\ \A k \in 1 .. Len(outgoing) : content[outgoing[k]] < frames
    /\ Holding => result.frame + Len(outgoing) < frames
    /\ pc = "convert" /\ ~result.torn => Len(incoming) > 1

(* The frame that was drawn last: it is still to come, drawn before its turn,
   or it is older than all that wait. *)
ShownWaits == \E b \in Coming : content[b] = shown
ShownInv ==
  /\ shown <= frames
  /\ \/ ShownWaits
     \/ Holding /\ shown <= result.frame
     \/ /\ ~Holding
        /\ \A k \in 1 .. Len(outgoing) : shown < content[outgoing[k]]
        /\ filling => shown < frames

IInv ==
  /\ TypeOK
  /\ PhaseInv
  /\ PlaceInv
  /\ DistinctInv
  /\ OrderInv
  /\ TakenInv
  /\ FillInv
  /\ ShownInv

-----------------------------------------------------------------------------
LEMMA EntriesEmpty == Entries(<<>>) = {}
BY DEF Entries

LEMMA EntriesAppend ==
  ASSUME NEW S, NEW s \in Seq(S), NEW x \in S
  PROVE  /\ Append(s, x) \in Seq(S)
         /\ Len(Append(s, x)) = Len(s) + 1 /\ Len(s) \in Nat
         /\ \A k \in 1 .. Len(s) : Append(s, x)[k] = s[k]
         /\ Append(s, x)[Len(s) + 1] = x
         /\ Entries(Append(s, x)) = Entries(s) \cup {x}
<1>1. /\ Append(s, x) \in Seq(S) /\ Len(Append(s, x)) = Len(s) + 1 /\ Len(s) \in Nat
      /\ \A k \in 1 .. Len(s) : Append(s, x)[k] = s[k]
      /\ Append(s, x)[Len(s) + 1] = x
  OBVIOUS
<1>2. ASSUME NEW y \in Entries(Append(s, x)) PROVE y \in Entries(s) \cup {x}
  <2>1. PICK k \in 1 .. Len(s) + 1 : y = Append(s, x)[k]
    BY <1>1 DEF Entries
  <2> QED
    BY <1>1, <2>1 DEF Entries
<1>3. ASSUME NEW y \in Entries(s) \cup {x} PROVE y \in Entries(Append(s, x))
  <2>1. CASE y = x
    BY <1>1, <2>1 DEF Entries
  <2>2. CASE y \in Entries(s)
    <3>1. PICK k \in 1 .. Len(s) : y = s[k]
      BY <2>2 DEF Entries
    <3>2. k \in 1 .. Len(Append(s, x)) /\ Append(s, x)[k] = y
      BY <1>1, <3>1
    <3> QED
      BY <3>2 DEF Entries
  <2> QED
    BY <2>1, <2>2, <1>3
<1> QED
  BY <1>1, <1>2, <1>3

LEMMA EntriesTail ==
  ASSUME NEW S, NEW s \in Seq(S), s # <<>>
  PROVE  /\ Tail(s) \in Seq(S) /\ Head(s) \in S /\ Head(s) = s[1]
         /\ Len(s) \in Nat /\ Len(s) > 0 /\ Len(Tail(s)) = Len(s) - 1
         /\ \A k \in 1 .. Len(s) - 1 : Tail(s)[k] = s[k + 1]
         /\ Entries(s) = {Head(s)} \cup Entries(Tail(s))
<1>1. /\ Tail(s) \in Seq(S) /\ Head(s) \in S /\ Head(s) = s[1]
      /\ Len(s) \in Nat /\ Len(s) > 0 /\ Len(Tail(s)) = Len(s) - 1
      /\ \A k \in 1 .. Len(s) - 1 : Tail(s)[k] = s[k + 1]
  OBVIOUS
<1>2. ASSUME NEW y \in Entries(s) PROVE y \in {Head(s)} \cup Entries(Tail(s))
  <2>1. PICK k \in 1 .. Len(s) : y = s[k]
    BY DEF Entries
  <2>2. CASE k = 1
    BY <1>1, <2>1, <2>2
  <2>3. CASE k # 1
    <3>1. k - 1 \in 1 .. Len(Tail(s)) /\ Tail(s)[k - 1] = y
      BY <1>1, <2>1, <2>3
    <3> QED
      BY <3>1 DEF Entries
  <2> QED
    BY <2>2, <2>3
<1>3. ASSUME NEW y \in {Head(s)} \cup Entries(Tail(s)) PROVE y \in Entries(s)
  <2>1. CASE y = Head(s)
    BY <1>1, <2>1 DEF Entries
  <2>2. CASE y \in Entries(Tail(s))
    <3>1. PICK k \in 1 .. Len(s) - 1 : y = Tail(s)[k]
      BY <1>1, <2>2 DEF Entries
    <3>2. k + 1 \in 1 .. Len(s) /\ s[k + 1] = y
      BY <1>1, <3>1
    <3> QED
      BY <3>2 DEF Entries
  <2> QED
    BY <1>3, <2>1, <2>2
<1> QED
  BY <1>1, <1>2, <1>3

-----------------------------------------------------------------------------
LEMMA InitInv == Init => IInv
<1> SUFFICES ASSUME Init PROVE IInv
  OBVIOUS
<1> USE V4l2Constants DEF Init
<1>1. content \in [Buffers -> 0 .. MaxFrames]
  BY DEF Buffers
<1>2. result \in [buffer : 0 .. MaxBuffers, frame : 0 .. MaxFrames, torn : BOOLEAN]
  BY DEF NoResult
<1>3. incoming \in Seq(Buffers) /\ outgoing \in Seq(Buffers)
  OBVIOUS
<1>4. TypeOK
  <2>1. pc \in Steps /\ ending \in {"none", "normal", "threw", "exited"} /\ fd \in {"open", "closed"}
    BY DEF Steps
  <2>2. /\ count \in 0 .. MaxBuffers /\ i \in 0 .. MaxBuffers /\ frames \in 0 .. MaxFrames
        /\ shown \in 0 .. MaxFrames
    OBVIOUS
  <2>3. /\ mapped \subseteq Buffers
        /\ streaming \in BOOLEAN /\ running \in BOOLEAN /\ quit \in BOOLEAN
        /\ filling \in BOOLEAN
    BY ZenonT(20)
  <2> QED
    BY ONLY <1>1, <1>2, <1>3, <2>1, <2>2, <2>3 DEF TypeOK
<1>5. PhaseInv /\ PlaceInv /\ DistinctInv /\ OrderInv /\ TakenInv /\ FillInv /\ ShownInv
  BY DEF PhaseInv, Looping, PlaceInv, Queueing, DistinctInv, OrderInv, TakenInv, Holding,
     FillInv, ShownInv, Buffers
<1> QED
  BY <1>4, <1>5 DEF IInv

-----------------------------------------------------------------------------
(* The steps that leave the queues, the frames and the picture alone. *)
QuietSteps ==
  \/ Open \/ InitDevice \/ RequestBuffers \/ MapBuffer \/ StreamOn \/ PollEvents
  \/ WaitNextFrame \/ UnmapBuffer \/ Close \/ CloseWindow

LEMMA QuietInv ==
  ASSUME IInv, QuietSteps
  PROVE  IInv'
<1> USE V4l2Constants DEF IInv, device, window, queues, picture
<1>1. /\ incoming' = incoming /\ outgoing' = outgoing /\ content' = content
      /\ filling' = filling /\ frames' = frames /\ result' = result /\ shown' = shown
  BY DEF QuietSteps, Open, InitDevice, RequestBuffers, MapBuffer, StreamOn, PollEvents,
     WaitNextFrame, UnmapBuffer, Close, CloseWindow
<1>2. TypeOK' /\ PhaseInv'
  <2> USE DEF TypeOK, PhaseInv, Looping
  <2>1. ASSUME pc' \in Steps, ending' \in {"none", "normal", "threw", "exited"},
               fd' \in {"open", "closed"}, count' \in 0 .. MaxBuffers, i' \in 0 .. MaxBuffers,
               mapped' \subseteq Buffers, streaming' \in BOOLEAN,
               running' \in BOOLEAN, quit' \in BOOLEAN
        PROVE  TypeOK'
    BY <1>1, <2>1
  <2>2. CASE Open
    BY <1>1, <2>1, <2>2 DEF Open, Goes, Ends, Steps
  <2>3. CASE InitDevice
    BY <1>1, <2>1, <2>3 DEF InitDevice, Goes, Ends, Steps
  <2>4. CASE RequestBuffers
    BY <1>1, <2>1, <2>4 DEF RequestBuffers, Goes, Ends, Steps
  <2>5. CASE MapBuffer
    <3>1. CASE i = count
      BY <1>1, <2>1, <2>5, <3>1 DEF MapBuffer, Goes, Steps
    <3>2. CASE i # count /\ pc' = "end"
      BY <1>1, <2>1, <2>5, <3>2 DEF MapBuffer, Goes, Ends, Steps
    <3>3. CASE i # count /\ pc' # "end"
      <4>1. /\ i + 1 <= count /\ i \in 0 .. MaxBuffers /\ i + 1 \in 1 .. MaxBuffers
            /\ 1 .. (i + 1) = 1 .. i \cup {i + 1}
        BY <2>5, <3>3 DEF MapBuffer
      <4>2. /\ pc = "query" /\ pc' = "query" /\ ending' = ending /\ i' = i + 1
            /\ mapped' = 1 .. (i + 1)
        BY <2>5, <3>3, <4>1 DEF MapBuffer, Goes, Ends
      <4>3. mapped' \subseteq Buffers
        BY <4>1, <4>2 DEF Buffers
      <4>4. fd' = fd /\ count' = count /\ streaming' = streaming /\ running' = running /\ quit' = quit
        BY <2>5 DEF MapBuffer
      <4>5. TypeOK'
        BY <2>1, <4>1, <4>2, <4>3, <4>4 DEF Steps
      <4>6. PhaseInv'
        BY <1>1, <4>1, <4>2, <4>4
      <4> QED
        BY <4>5, <4>6
    <3> QED
      BY <3>1, <3>2, <3>3
  <2>6. CASE StreamOn
    BY <1>1, <2>1, <2>6 DEF StreamOn, Goes, Ends, Steps
  <2>7. CASE PollEvents
    BY <1>1, <2>1, <2>7 DEF PollEvents, Goes, Steps
  <2>8. CASE WaitNextFrame
    BY <1>1, <2>1, <2>8 DEF WaitNextFrame, NextTurn, Goes, Ends, Steps
  <2>9. CASE UnmapBuffer
    <3>1. CASE i = count
      <4>1. mapped = {}
        BY <2>9, <3>1 DEF UnmapBuffer
      <4> QED
        BY <1>1, <2>1, <2>9, <3>1, <4>1 DEF UnmapBuffer, Goes, Steps
    <3>2. CASE i # count /\ pc' = "end"
      BY <1>1, <2>1, <2>9, <3>2 DEF UnmapBuffer, Goes, Ends, Steps
    <3>3. CASE i # count /\ pc' # "end"
      <4>1. /\ i + 1 <= count /\ i \in 0 .. MaxBuffers /\ i + 1 \in 1 .. MaxBuffers
            /\ (i + 1 + 1) .. count = ((i + 1) .. count) \ {i + 1}
        BY <2>9, <3>3 DEF UnmapBuffer
      <4>2. /\ pc = "unmap" /\ pc' = "unmap" /\ ending' = ending /\ i' = i + 1
            /\ mapped' = (i + 1 + 1) .. count
        BY <2>9, <3>3, <4>1 DEF UnmapBuffer, Goes, Ends
      <4>3. mapped' \subseteq Buffers
        BY <2>9, <3>3 DEF UnmapBuffer, Goes, Ends
      <4>4. fd' = fd /\ count' = count /\ streaming' = streaming /\ running' = running /\ quit' = quit
        BY <2>9 DEF UnmapBuffer
      <4>5. TypeOK'
        BY <2>1, <4>1, <4>2, <4>3, <4>4 DEF Steps
      <4>6. PhaseInv'
        BY <1>1, <4>1, <4>2, <4>4
      <4> QED
        BY <4>5, <4>6
    <3> QED
      BY <3>1, <3>2, <3>3
  <2>10. CASE Close
    BY <1>1, <2>1, <2>10 DEF Close, Ends, Steps
  <2>11. CASE CloseWindow
    BY <1>1, <2>1, <2>11 DEF CloseWindow, Steps
  <2> QED
    BY <2>2, <2>3, <2>4, <2>5, <2>6, <2>7, <2>8, <2>9, <2>10, <2>11 DEF QuietSteps
<1>3. /\ (pc # "requeue" /\ pc' # "requeue") \/ pc' = pc
      /\ Holding \/ Holding' => pc' = pc /\ count' = count
  <2>1. CASE CloseWindow
    BY <2>1 DEF CloseWindow
  <2>2. CASE Open \/ InitDevice \/ RequestBuffers \/ MapBuffer \/ StreamOn
    BY <2>2 DEF Open, InitDevice, RequestBuffers, MapBuffer, StreamOn, Holding, Goes, Ends
  <2>3. CASE PollEvents \/ WaitNextFrame \/ UnmapBuffer \/ Close
    BY <2>3 DEF PollEvents, WaitNextFrame, UnmapBuffer, Close, Holding, Goes, Ends, NextTurn
  <2> QED
    BY <2>1, <2>2, <2>3 DEF QuietSteps
<1>4. PlaceInv'
  <2> USE DEF PlaceInv, Queueing, Granted, HeldNow, Hand
  <2>1. CASE Open \/ InitDevice \/ RequestBuffers \/ UnmapBuffer \/ Close
    BY <2>1, <1>2 DEF Open, InitDevice, RequestBuffers, UnmapBuffer, Close, Goes, Ends, PhaseInv, Looping
  <2>2. CASE MapBuffer
    BY <1>1, <1>2, <2>2, EntriesEmpty DEF MapBuffer, Goes, Ends, PhaseInv, Looping
  <2>3. CASE StreamOn
    BY <1>1, <2>3 DEF StreamOn, Goes, Ends
  <2>4. CASE PollEvents \/ WaitNextFrame \/ CloseWindow
    BY <1>1, <2>4 DEF PollEvents, WaitNextFrame, CloseWindow, Goes, Ends, NextTurn
  <2> QED
    BY <2>1, <2>2, <2>3, <2>4 DEF QuietSteps
<1>5. DistinctInv' /\ OrderInv'
  BY <1>1, <1>3 DEF DistinctInv, OrderInv, Holding, Buffers
<1>6. Coming' = Coming
  BY <1>1 DEF Coming, Entries
<1>7. TakenInv' /\ ShownInv'
  BY <1>1, <1>3, <1>6 DEF TakenInv, ShownInv, ShownWaits, Holding
<1>8. pc \notin {"stop", "end"} /\ Looping /\ pc' # "end" => Looping'
  <2>1. CASE Open \/ InitDevice \/ RequestBuffers \/ MapBuffer \/ StreamOn \/ CloseWindow
    BY <2>1 DEF Open, InitDevice, RequestBuffers, MapBuffer, StreamOn, CloseWindow, Looping, Goes, Ends
  <2>2. CASE PollEvents \/ WaitNextFrame \/ UnmapBuffer \/ Close
    BY <2>2 DEF PollEvents, WaitNextFrame, UnmapBuffer, Close, Looping, Goes, Ends, NextTurn
  <2> QED
    BY <2>1, <2>2 DEF QuietSteps
<1>9. pc = "end" \/ pc = "stop" => pc' = pc
  BY DEF QuietSteps, Open, InitDevice, RequestBuffers, MapBuffer, StreamOn, PollEvents,
     WaitNextFrame, UnmapBuffer, Close, CloseWindow
<1>10. FillInv'
  BY <1>1, <1>3, <1>8, <1>9 DEF FillInv, Holding, Looping
<1> QED
  BY <1>2, <1>4, <1>5, <1>7, <1>10

-----------------------------------------------------------------------------
(* QBUF before the stream starts. *)
LEMMA QueueBufferInv ==
  ASSUME IInv, QueueBuffer
  PROVE  IInv'
<1> USE V4l2Constants DEF IInv, device, window, queues, picture
<1>1. /\ outgoing' = outgoing /\ content' = content /\ frames' = frames /\ filling' = filling
      /\ filling = FALSE /\ result' = result /\ shown' = shown /\ fd' = fd /\ count' = count /\ mapped' = mapped
      /\ streaming' = streaming /\ running' = running /\ quit' = quit
      /\ pc = "queue" /\ outgoing = <<>> /\ streaming = FALSE /\ fd = "open" /\ ending = "none"
      /\ mapped = 1 .. count /\ i <= count /\ count \in 0 .. MaxBuffers /\ i \in 0 .. MaxBuffers
  BY DEF QueueBuffer, PhaseInv, FillInv, Looping, TypeOK
<1>2. CASE incoming' = incoming
  <2>1. /\ i' = i
        /\ (pc' = "streamon" /\ i = count /\ ending' = ending) \/ (pc' = "end" /\ ending' = "threw")
    <3>1. CASE i = count
      BY <3>1 DEF QueueBuffer, Goes
    <3>2. CASE i # count
      <4>1. Append(incoming, i + 1) # incoming
        <5>1. i + 1 \in Buffers /\ incoming \in Seq(Buffers)
          BY <1>1, <3>2 DEF Buffers, TypeOK
        <5> QED
          BY <5>1, EntriesAppend
      <4> QED
        BY <1>2, <3>2, <4>1 DEF QueueBuffer, Ends
    <3> QED
      BY <3>1, <3>2
  <2>2. TypeOK'
    BY <1>1, <1>2, <2>1 DEF TypeOK, Steps
  <2>3. PhaseInv' /\ TakenInv' /\ FillInv' /\ ShownInv'
    BY <1>1, <1>2, <2>1 DEF PhaseInv, Looping, TakenInv, FillInv, Holding, ShownInv, ShownWaits,
       Coming, Entries
  <2>4. PlaceInv'
    BY <1>1, <1>2, <2>1 DEF PlaceInv, Queueing, Granted, HeldNow, Hand
  <2>5. DistinctInv' /\ OrderInv'
    BY <1>1, <1>2, <2>1 DEF DistinctInv, OrderInv
  <2> QED
    BY <2>2, <2>3, <2>4, <2>5
<1>3. CASE incoming' # incoming
  <2>1. /\ i + 1 <= count /\ i + 1 \in Buffers /\ incoming' = Append(incoming, i + 1)
        /\ i' = i + 1 /\ pc' = "queue" /\ ending' = ending
    BY <1>1, <1>3 DEF QueueBuffer, Goes, Buffers
  <2>2. incoming \in Seq(Buffers)
    BY DEF TypeOK
  <2>3. /\ incoming' \in Seq(Buffers) /\ Len(incoming') = Len(incoming) + 1 /\ Len(incoming) \in Nat
        /\ \A k \in 1 .. Len(incoming) : incoming'[k] = incoming[k]
        /\ incoming'[Len(incoming) + 1] = i + 1
        /\ Entries(incoming') = Entries(incoming) \cup {i + 1}
    BY <2>1, <2>2, EntriesAppend
  <2>4. Entries(incoming) = 1 .. i /\ Len(incoming) = i
    <3>1. Entries(outgoing) = {} /\ Len(outgoing) = 0
      BY <1>1, EntriesEmpty
    <3>2. HeldNow = {} /\ Hand = 0 /\ Granted = i
      BY <1>1 DEF Granted, HeldNow, Hand
    <3>3. /\ Entries(incoming) \cup Entries(outgoing) \cup HeldNow = 1 .. Granted
          /\ Len(incoming) + Len(outgoing) + Hand = Granted
      BY <1>1 DEF PlaceInv, Queueing
    <3>4. Entries(incoming) = 1 .. i
      BY ONLY <3>1, <3>2, <3>3
    <3>5. Len(incoming) \in Nat /\ i \in Int
      BY <1>1, <2>3
    <3>6. Len(incoming) = i
      BY ONLY <3>1, <3>2, <3>3, <3>5
    <3> QED
      BY ONLY <3>4, <3>6
  <2>5. TypeOK'
    BY <1>1, <2>1, <2>3 DEF TypeOK, Steps, Buffers
  <2>6. PhaseInv' /\ TakenInv' /\ FillInv' /\ ShownInv'
    BY <1>1, <2>1 DEF PhaseInv, Looping, TakenInv, FillInv, Holding, ShownInv, ShownWaits,
       Coming, Entries
  <2>7. PlaceInv'
    <3>1. Entries(incoming') = 1 .. (i + 1) /\ Entries(outgoing') = {}
      BY <1>1, <2>3, <2>4, EntriesEmpty
    <3> QED
      BY <1>1, <2>1, <2>3, <2>4, <3>1 DEF PlaceInv, Granted, HeldNow, Hand
  <2>8. \A k \in 1 .. Len(incoming) : incoming[k] # i + 1
    BY <1>1, <2>4 DEF Entries
  <2>9. DistinctInv' /\ OrderInv'
    BY <1>1, <2>1, <2>3, <2>8 DEF DistinctInv, OrderInv
  <2> QED
    BY <2>5, <2>6, <2>7, <2>9
<1> QED
  BY <1>2, <1>3

-----------------------------------------------------------------------------
(* The rest of the steps leave the device as it is, but for STREAMOFF. *)
Steady ==
  /\ fd' = fd /\ count' = count /\ mapped' = mapped /\ i' = i /\ streaming' = streaming
  /\ running' = running /\ quit' = quit

(* readFrame, DQBUF. *)
LEMMA DequeueInv ==
  ASSUME IInv, Dequeue
  PROVE  IInv'
<1> USE V4l2Constants DEF IInv, device, window, queues, picture
<1>1. /\ Steady /\ incoming' = incoming /\ content' = content /\ frames' = frames /\ shown' = shown
      /\ filling' = filling
      /\ pc = "read" /\ streaming = TRUE /\ fd = "open" /\ ending = "none" /\ mapped = 1 .. count
      /\ count \in 0 .. MaxBuffers /\ incoming \in Seq(Buffers) /\ outgoing \in Seq(Buffers)
  BY DEF Dequeue, Steady, PhaseInv, Looping, TypeOK
<1>2. CASE outgoing' = outgoing /\ result' = result
            /\ ((pc' \in {"poll", "stop"} /\ ending' = ending) \/ (pc' = "end" /\ ending' = "threw"))
  <2>1. TypeOK'
    BY <1>1, <1>2 DEF TypeOK, Steps, Steady
  <2>2. PhaseInv' /\ TakenInv' /\ FillInv' /\ ShownInv'
    BY <1>1, <1>2 DEF PhaseInv, Looping, TakenInv, FillInv, Holding, ShownInv, ShownWaits,
       Coming, Entries, Steady
  <2>3. PlaceInv'
    BY <1>1, <1>2 DEF PlaceInv, Queueing, Granted, HeldNow, Hand, Steady
  <2>4. DistinctInv' /\ OrderInv'
    BY <1>1, <1>2 DEF DistinctInv, OrderInv
  <2> QED
    BY <2>1, <2>2, <2>3, <2>4
<1>3. CASE /\ outgoing # <<>> /\ outgoing' = Tail(outgoing)
           /\ result' = [buffer |-> Head(outgoing), frame |-> content[Head(outgoing)], torn |-> FALSE]
           /\ pc' = "requeue" /\ ending' = ending
  <2> DEFINE b == Head(outgoing)
             n == Len(outgoing)
  <2>1. /\ outgoing' \in Seq(Buffers) /\ b \in Buffers /\ b = outgoing[1]
        /\ n \in Nat /\ n > 0 /\ Len(outgoing') = n - 1
        /\ \A k \in 1 .. n - 1 : outgoing'[k] = outgoing[k + 1]
        /\ Entries(outgoing) = {b} \cup Entries(outgoing')
    BY <1>1, <1>3, EntriesTail
  <2>2. /\ result'.buffer = b /\ result'.frame = content[b] /\ ~result'.torn
        /\ content[b] \in 0 .. MaxFrames /\ Len(incoming) \in Nat
    <3>1. content[b] \in 0 .. MaxFrames
      BY <2>1 DEF TypeOK
    <3>2. result'.buffer = b /\ result'.frame = content[b] /\ ~result'.torn
      BY <1>3
    <3> QED
      BY <1>1, <3>1, <3>2
  <2> HIDE DEF b, n
  <2>3. TypeOK'
    <3>1. result' \in [buffer : 0 .. MaxBuffers, frame : 0 .. MaxFrames, torn : BOOLEAN]
      BY <1>3, <2>1, <2>2 DEF Buffers, b
    <3> QED
      BY <1>1, <1>3, <2>1, <3>1 DEF TypeOK, Steps, Steady
  <2>4. PhaseInv'
    BY <1>1, <1>3 DEF PhaseInv, Looping, Steady
  <2>5. Entries(incoming) \cup Entries(outgoing) = 1 .. count /\ Len(incoming) + n = count
    BY <1>1, <2>1, <2>2 DEF PlaceInv, Queueing, Granted, HeldNow, Hand, n
  <2>6. PlaceInv'
    <3>1. HeldNow' = {b} /\ Hand' = 1 /\ Granted' = count
      BY <1>1, <1>3, <2>2 DEF HeldNow, Hand, Granted, Steady
    <3>2. Entries(incoming') \cup Entries(outgoing') \cup HeldNow' = 1 .. count
      BY <1>1, <2>1, <2>5, <3>1
    <3>3. Len(incoming') + Len(outgoing') + Hand' = count
      BY <1>1, <2>1, <2>2, <2>5, <3>1
    <3> QED
      BY <3>1, <3>2, <3>3 DEF PlaceInv
  <2>7. DistinctInv'
    <3>1. \A k \in 1 .. n - 1 : k + 1 \in 1 .. n /\ k + 1 # 1 /\ 1 \in 1 .. n
      BY <2>1
    <3>2. \A j, k \in 1 .. Len(outgoing') : outgoing'[j] = outgoing'[k] => j = k
      BY <2>1, <3>1 DEF DistinctInv, n
    <3>3. \A j \in 1 .. Len(incoming), k \in 1 .. Len(outgoing') : incoming[j] # outgoing'[k]
      BY <2>1, <3>1 DEF DistinctInv, n
    <3>4. /\ \A j \in 1 .. Len(incoming) : incoming[j] # b
          /\ \A k \in 1 .. Len(outgoing') : outgoing'[k] # b
      BY <2>1, <3>1 DEF DistinctInv, n
    <3> QED
      BY <1>1, <2>2, <3>2, <3>3, <3>4 DEF DistinctInv
  <2>8. \A k \in 1 .. Len(outgoing') : content[b] + k <= content[outgoing'[k]]
    <3> SUFFICES ASSUME NEW k \in 1 .. n - 1 PROVE content[b] + k <= content[outgoing[k + 1]]
      BY <2>1
    <3>1. k + 1 \in 1 .. n /\ 1 \in 1 .. n /\ 1 <= k + 1 /\ (k + 1) - 1 = k
      BY <2>1
    <3> QED
      BY <2>1, <3>1 DEF OrderInv, n
  <2>9. OrderInv'
    <3>1. ASSUME NEW j \in 1 .. n - 1, NEW k \in 1 .. n - 1, j <= k
          PROVE  content[outgoing[j + 1]] + (k - j) <= content[outgoing[k + 1]]
      <4>1. j + 1 \in 1 .. n /\ k + 1 \in 1 .. n /\ j + 1 <= k + 1 /\ (k + 1) - (j + 1) = k - j
        BY <2>1, <3>1
      <4> QED
        BY <4>1 DEF OrderInv, n
    <3> QED
      BY <1>1, <2>1, <3>1 DEF OrderInv
  <2>10. TakenInv'
    <3>1. b \in 1 .. count /\ content[b] <= frames
      BY <2>1, <2>5 DEF OrderInv
    <3> QED
      BY <1>1, <1>3, <2>2, <2>8, <3>1 DEF TakenInv, Steady
  <2>11. ShownInv'
    <3>1. shown <= frames /\ Holding' /\ ~Holding
      BY <1>1, <1>3 DEF ShownInv, Holding
    <3>2. CASE ShownWaits
      <4>1. PICK c \in Coming : content[c] = shown
        BY <3>2 DEF ShownWaits
      <4>2. CASE c = b
        BY <1>1, <2>1, <2>2, <3>1, <4>1, <4>2 DEF ShownInv, TypeOK
      <4>3. CASE c # b
        <5>1. c \in Coming'
          BY <1>1, <2>1, <4>1, <4>3 DEF Coming
        <5> QED
          BY <1>1, <3>1, <4>1, <5>1 DEF ShownInv, ShownWaits
      <4> QED
        BY <4>2, <4>3
    <3>3. CASE ~ShownWaits
      <4>1. shown < content[b]
        BY <2>1, <3>1, <3>3 DEF ShownInv, n
      <4> QED
        BY <1>1, <2>2, <3>1, <4>1 DEF ShownInv, TypeOK
    <3> QED
      BY <3>2, <3>3
  <2>12. FillInv'
    <3> SUFFICES ASSUME filling PROVE FillInv'
      BY <1>1 DEF FillInv
    <3>1. /\ incoming # <<>> /\ content[incoming[1]] = frames
          /\ \A k \in 1 .. n : content[outgoing[k]] < frames
      BY DEF FillInv, n
    <3>2. \A k \in 1 .. n - 1 : content[outgoing'[k]] < frames
      BY <2>1, <3>1
    <3>3. content[b] + (n - 1) < frames
      <4>1. n \in 1 .. n /\ 1 \in 1 .. n /\ outgoing[n] \in Buffers
        BY <1>1, <2>1 DEF n
      <4>2. content[b] + (n - 1) <= content[outgoing[n]] /\ content[outgoing[n]] < frames
        BY <2>1, <3>1, <4>1 DEF OrderInv, n
      <4>3. content[outgoing[n]] \in Int /\ frames \in Int /\ content[b] \in Int /\ n \in Int
        BY <2>1, <2>2, <4>1 DEF TypeOK
      <4> QED
        BY ONLY <4>2, <4>3
    <3> QED
      BY <1>1, <1>3, <2>1, <2>2, <3>1, <3>2, <3>3 DEF FillInv, Looping
  <2> QED
    BY <2>3, <2>4, <2>6, <2>7, <2>9, <2>10, <2>11, <2>12
<1> QED
  BY <1>1, <1>2, <1>3 DEF Dequeue, NextTurn, Goes, Ends

-----------------------------------------------------------------------------
(* readFrame, QBUF. *)
LEMMA RequeueInv ==
  ASSUME IInv, Requeue
  PROVE  IInv'
<1> USE V4l2Constants DEF IInv, device, window, queues, picture
<1>1. /\ Steady /\ outgoing' = outgoing /\ content' = content /\ frames' = frames
      /\ shown' = shown /\ result' = result /\ filling' = filling
      /\ pc = "requeue" /\ streaming = TRUE /\ fd = "open" /\ ending = "none" /\ mapped = 1 .. count
      /\ count \in 0 .. MaxBuffers /\ incoming \in Seq(Buffers) /\ Holding
      /\ result.buffer \in 1 .. count
  BY DEF Requeue, Steady, PhaseInv, Looping, TypeOK, TakenInv, Holding
<1>2. CASE incoming' = incoming /\ pc' = "end" /\ ending' = "threw"
  <2>1. TypeOK'
    BY <1>1, <1>2 DEF TypeOK, Steps, Steady
  <2>2. PhaseInv' /\ TakenInv' /\ FillInv'
    BY <1>1, <1>2 DEF PhaseInv, Looping, TakenInv, FillInv, Holding, Steady
  <2>3. PlaceInv'
    BY <1>1, <1>2 DEF PlaceInv, Queueing, Steady
  <2>4. DistinctInv' /\ OrderInv'
    BY <1>1, <1>2 DEF DistinctInv, OrderInv
  <2>5. ShownInv'
    <3>1. \A b \in Buffers : content[b] \in Int
      BY DEF TypeOK
    <3>2. \A k \in 1 .. Len(outgoing) : outgoing[k] \in Buffers
      BY DEF TypeOK
    <3>3. shown \in Int /\ result.frame \in Int
      BY DEF TypeOK
    <3>4. Coming' = Coming
      BY <1>1, <1>2 DEF Coming, Entries
    <3>5. Holding /\ ~Holding' /\ shown <= frames
      BY <1>1, <1>2 DEF Holding, ShownInv
    <3>6. CASE ShownWaits
      BY <1>1, <3>4, <3>5, <3>6 DEF ShownInv, ShownWaits
    <3>7. CASE shown <= result.frame
      <4>1. \A k \in 1 .. Len(outgoing) : shown < content[outgoing[k]]
        BY <3>1, <3>2, <3>3, <3>5, <3>7 DEF TakenInv
      <4>2. filling => shown < frames
        <5>1. Len(outgoing) \in Nat /\ frames \in Int
          BY DEF TypeOK
        <5> QED
          BY <3>3, <3>5, <3>7, <5>1 DEF FillInv
      <4> QED
        BY <1>1, <3>5, <4>1, <4>2 DEF ShownInv
    <3> QED
      BY <3>5, <3>6, <3>7 DEF ShownInv
  <2> QED
    BY <2>1, <2>2, <2>3, <2>4, <2>5
<1>3. CASE incoming' = Append(incoming, result.buffer) /\ pc' = "convert" /\ ending' = ending
  <2> DEFINE b == result.buffer
             n == Len(incoming)
  <2>1. b \in Buffers
    BY <1>1 DEF Buffers
  <2>2. /\ incoming' \in Seq(Buffers) /\ n \in Nat /\ Len(incoming') = n + 1
        /\ \A k \in 1 .. n : incoming'[k] = incoming[k]
        /\ incoming'[n + 1] = b
        /\ Entries(incoming') = Entries(incoming) \cup {b}
    BY <1>1, <1>3, <2>1, EntriesAppend
  <2> HIDE DEF b, n
  <2>3. TypeOK'
    BY <1>1, <1>3, <2>2 DEF TypeOK, Steps, Steady
  <2>4. PhaseInv'
    BY <1>1, <1>3 DEF PhaseInv, Looping, Steady
  <2>5. PlaceInv'
    <3>1. HeldNow = {b} /\ Hand = 1 /\ Granted = count /\ HeldNow' = {} /\ Hand' = 0 /\ Granted' = count
      BY <1>1, <1>3 DEF HeldNow, Hand, Granted, Steady, b
    <3>2. /\ Entries(incoming) \cup Entries(outgoing) \cup HeldNow = 1 .. Granted
          /\ n + Len(outgoing) + Hand = Granted
      BY <1>1 DEF PlaceInv, n
    <3>3. Entries(incoming') \cup Entries(outgoing') \cup HeldNow' = 1 .. Granted'
      BY <1>1, <2>2, <3>1, <3>2
    <3>4. Len(outgoing) \in Nat
      BY DEF TypeOK
    <3>5. Len(incoming') + Len(outgoing') + Hand' = Granted'
      BY <1>1, <2>2, <3>1, <3>2, <3>4
    <3> QED
      BY <3>3, <3>5 DEF PlaceInv
  <2>6. /\ \A j \in 1 .. n : incoming[j] # b
        /\ \A k \in 1 .. Len(outgoing) : outgoing[k] # b
    BY <1>1 DEF DistinctInv, b, n
  <2>7. \A j \in 1 .. n + 1 : j \in 1 .. n \/ j = n + 1
    BY <2>2
  <2>8. DistinctInv'
    <3>1. \A j, k \in 1 .. n + 1 : incoming'[j] = incoming'[k] => j = k
      BY <2>2, <2>6, <2>7 DEF DistinctInv, n
    <3>2. \A j \in 1 .. n + 1, k \in 1 .. Len(outgoing) : incoming'[j] # outgoing[k]
      BY <2>2, <2>6, <2>7 DEF DistinctInv, n
    <3> QED
      BY <1>1, <1>3, <2>2, <3>1, <3>2 DEF DistinctInv
  <2>9. OrderInv'
    BY <1>1 DEF OrderInv
  <2>10. TakenInv'
    <3>1. ~result.torn /\ content[b] = result.frame
      BY <1>1 DEF TakenInv, b
    <3>2. Len(incoming') > 0 /\ incoming'[Len(incoming')] = b
      BY <2>2
    <3> QED
      BY <1>1, <1>3, <2>6, <3>1, <3>2 DEF TakenInv, Steady, Holding, b
  <2>11. ShownInv'
    <3>1. filling => Head(incoming') = Head(incoming)
      BY <1>1, <1>3, <2>1, <2>2 DEF FillInv, n
    <3>2. Coming' = Coming
      BY <1>1, <3>1 DEF Coming, Entries
    <3> QED
      BY <1>1, <1>3, <3>2 DEF ShownInv, ShownWaits, Holding
  <2>12. FillInv'
    <3> SUFFICES ASSUME filling PROVE FillInv'
      BY <1>1 DEF FillInv
    <3>1. n >= 1 /\ 1 \in 1 .. n
      BY <1>1, <2>2 DEF FillInv, n
    <3>2. Len(incoming') > 1 /\ incoming'[1] = incoming[1] /\ incoming' # <<>>
      BY <2>2, <3>1
    <3> QED
      BY <1>1, <1>3, <3>2 DEF FillInv, Looping, Holding
  <2> QED
    BY <2>3, <2>4, <2>5, <2>8, <2>9, <2>10, <2>11, <2>12
<1> QED
  BY <1>1, <1>2, <1>3 DEF Requeue, Goes, Ends

(* The picture is read, whatever is in the buffer by then. *)
LEMMA ConvertInv ==
  ASSUME IInv, ConvertAndDraw
  PROVE  IInv'
<1> USE V4l2Constants DEF IInv, device, window, queues, picture
<1>1. /\ Steady /\ queues' = queues /\ content' = content /\ frames' = frames /\ Coming' = Coming
      /\ shown' = content[result.buffer] /\ result' = NoResult /\ ending' = ending
      /\ pc = "convert" /\ pc' \in {"poll", "stop"}
      /\ streaming = TRUE /\ fd = "open" /\ ending = "none" /\ mapped = 1 .. count
      /\ count \in 0 .. MaxBuffers /\ result.buffer \in 1 .. count /\ result.buffer \in Buffers
  BY DEF ConvertAndDraw, NextTurn, Goes, Steady, PhaseInv, Looping, TypeOK, TakenInv, Holding, Buffers,
     Coming, Entries
<1>2. TypeOK'
  <2>1. shown' \in 0 .. MaxFrames
    BY <1>1 DEF TypeOK
  <2>2. result' \in [buffer : 0 .. MaxBuffers, frame : 0 .. MaxFrames, torn : BOOLEAN]
    BY <1>1 DEF NoResult
  <2> QED
    BY <1>1, <2>1, <2>2 DEF TypeOK, Steps, Steady
<1>3. PhaseInv' /\ TakenInv'
  BY <1>1 DEF PhaseInv, Looping, Steady, TakenInv, Holding
<1>4. PlaceInv'
  BY <1>1 DEF PlaceInv, Queueing, Granted, HeldNow, Hand, Steady
<1>5. DistinctInv' /\ OrderInv'
  BY <1>1 DEF DistinctInv, OrderInv
<1>6. ShownInv'
  <2>1. /\ \A b \in Buffers : content[b] \in Int
        /\ \A k \in 1 .. Len(outgoing) : outgoing[k] \in Buffers
        /\ result.frame \in Int
    BY DEF TypeOK
  <2>2. shown' <= frames' /\ ~Holding'
    BY <1>1 DEF OrderInv, Holding
  <2>3. CASE result.torn
    <3>1. result.buffer \in Coming
      BY <1>1, <2>3 DEF TakenInv, Holding
    <3>2. ShownWaits'
      BY <1>1, <3>1 DEF ShownWaits
    <3> QED
      BY <2>2, <3>2 DEF ShownInv
  <2>4. CASE ~result.torn
    <3>1. \A k \in 1 .. Len(outgoing) : content[result.buffer] < content[outgoing[k]]
      BY <1>1, <2>1, <2>4 DEF TakenInv, Holding
    <3>2. filling => content[result.buffer] < frames
      <4>1. Len(outgoing) \in Nat /\ frames \in Int
        BY DEF TypeOK
      <4> QED
        BY <1>1, <2>1, <2>4, <4>1 DEF TakenInv, FillInv, Holding
    <3> QED
      BY <1>1, <2>2, <3>1, <3>2 DEF ShownInv
  <2> QED
    BY <2>3, <2>4
<1>7. FillInv'
  BY <1>1 DEF FillInv, Looping, Holding
<1> QED
  BY <1>2, <1>3, <1>4, <1>5, <1>6, <1>7

(* STREAMOFF. *)
LEMMA StopCapturingInv ==
  ASSUME IInv, StopCapturing
  PROVE  IInv'
<1> USE V4l2Constants DEF IInv, device, window, queues, picture
<1>1. /\ fd' = fd /\ count' = count /\ mapped' = mapped /\ running' = running /\ quit' = quit
      /\ content' = content /\ frames' = frames /\ result' = result /\ shown' = shown
      /\ pc = "stop" /\ fd = "open" /\ ending = "none" /\ mapped = 1 .. count
      /\ count \in 0 .. MaxBuffers
  BY DEF StopCapturing, PhaseInv, Looping, TypeOK
<1>2. CASE /\ streaming' = FALSE /\ incoming' = <<>> /\ outgoing' = <<>>
           /\ filling' = FALSE /\ i' = 0 /\ pc' = "unmap" /\ ending' = ending
  <2>1. TypeOK'
    <3>1. i' \in 0 .. MaxBuffers /\ incoming' \in Seq(Buffers) /\ outgoing' \in Seq(Buffers)
      BY <1>2
    <3>2. streaming' \in BOOLEAN /\ filling' \in BOOLEAN
      BY <1>2
    <3> QED
      BY <1>1, <1>2, <3>1, <3>2 DEF TypeOK, Steps
  <2>2. PhaseInv' /\ PlaceInv' /\ TakenInv'
    BY <1>1, <1>2 DEF PhaseInv, PlaceInv, Queueing, Looping, TakenInv, Holding
  <2>3. DistinctInv' /\ OrderInv' /\ FillInv' /\ ShownInv'
    BY <1>1, <1>2 DEF DistinctInv, OrderInv, FillInv, ShownInv, Holding
  <2> QED
    BY <2>1, <2>2, <2>3
<1>3. CASE /\ streaming' = streaming /\ incoming' = incoming /\ outgoing' = outgoing /\ i' = i
           /\ filling' = filling /\ pc' = "end" /\ ending' = "threw"
  <2>1. TypeOK'
    BY <1>1, <1>3 DEF TypeOK, Steps
  <2>2. PhaseInv' /\ PlaceInv' /\ TakenInv'
    BY <1>1, <1>3 DEF PhaseInv, PlaceInv, Queueing, Looping, TakenInv, Holding
  <2>3. DistinctInv' /\ OrderInv' /\ FillInv' /\ ShownInv'
    BY <1>1, <1>3 DEF DistinctInv, OrderInv, FillInv, ShownInv, ShownWaits, Holding, Looping,
       Coming, Entries
  <2> QED
    BY <2>1, <2>2, <2>3
<1> QED
  BY <1>1, <1>2, <1>3 DEF StopCapturing, Goes, Ends

-----------------------------------------------------------------------------
(* The driver.  Its first packet goes into a buffer that is not filled, so
   only what is written about that buffer changes. *)
LEMMA FirstPacketInv ==
  ASSUME IInv, FirstPacket
  PROVE  IInv'
<1> USE V4l2Constants DEF IInv, device, window, queues, picture
<1>1. /\ Steady /\ shown' = shown /\ pc' = pc /\ ending' = ending /\ frames' = frames + 1
      /\ incoming' = incoming /\ outgoing' = outgoing /\ filling = FALSE
      /\ streaming = TRUE /\ pc # "end" /\ Looping
      /\ incoming \in Seq(Buffers) /\ outgoing \in Seq(Buffers) /\ Len(outgoing) \in Nat
      /\ count \in 0 .. MaxBuffers /\ frames \in 0 .. MaxFrames /\ frames' \in 0 .. MaxFrames
      /\ shown \in 0 .. MaxFrames /\ result.buffer \in 0 .. MaxBuffers
      /\ result.frame \in 0 .. MaxFrames
      /\ \A c \in Buffers : content[c] \in 0 .. MaxFrames /\ content[c] <= frames
      /\ \A k \in 1 .. Len(outgoing) : outgoing[k] \in Buffers
  <2>1. /\ incoming \in Seq(Buffers) /\ outgoing \in Seq(Buffers)
        /\ count \in 0 .. MaxBuffers /\ frames \in 0 .. MaxFrames /\ frames' \in 0 .. MaxFrames
        /\ shown \in 0 .. MaxFrames /\ result.buffer \in 0 .. MaxBuffers
        /\ result.frame \in 0 .. MaxFrames /\ filling = FALSE
        /\ \A c \in Buffers : content[c] \in 0 .. MaxFrames
    BY DEF FirstPacket, TypeOK
  <2>2. Len(outgoing) \in Nat /\ \A k \in 1 .. Len(outgoing) : outgoing[k] \in Buffers
    BY <2>1
  <2>3. /\ Steady /\ shown' = shown /\ pc' = pc /\ ending' = ending /\ frames' = frames + 1
        /\ incoming' = incoming /\ outgoing' = outgoing
        /\ streaming = TRUE /\ pc # "end" /\ Looping
    BY DEF FirstPacket, Steady, PhaseInv, TypeOK
  <2>4. \A c \in Buffers : content[c] <= frames
    BY DEF OrderInv
  <2> QED
    BY <2>1, <2>2, <2>3, <2>4
<1>2. CASE incoming = <<>>
  <2>1. filling' = filling /\ content' = content /\ result' = result
    BY <1>2 DEF FirstPacket
  <2>2. TypeOK'
    BY <1>1, <2>1 DEF TypeOK, Steady
  <2>3. PhaseInv' /\ DistinctInv' /\ FillInv'
    BY <1>1, <2>1 DEF PhaseInv, Looping, DistinctInv, FillInv, Steady
  <2>4. PlaceInv'
    BY <1>1, <2>1 DEF PlaceInv, Queueing, Granted, HeldNow, Hand, Steady
  <2>5. OrderInv'
    BY <1>1, <2>1 DEF OrderInv, Buffers
  <2>6. Coming' = Coming
    BY <1>1, <2>1 DEF Coming, Entries
  <2>7. TakenInv'
    <3>1. Len(incoming) = 0
      BY <1>2
    <3>2. Entries(outgoing') = Entries(outgoing)
      BY <1>1
    <3> QED
      BY <1>1, <2>1, <2>6, <3>1, <3>2 DEF TakenInv, Holding, Steady
  <2>8. ShownInv'
    BY <1>1, <2>1, <2>6 DEF ShownInv, ShownWaits, Holding
  <2> QED
    BY <2>2, <2>3, <2>4, <2>5, <2>7, <2>8
<1>3. CASE incoming # <<>>
  <2> DEFINE b == Head(incoming)
             m == Len(incoming)
             n == Len(outgoing)
  <2>1. /\ b \in Buffers /\ b = incoming[1] /\ m \in Nat /\ m > 0 /\ 1 \in 1 .. m
        /\ n \in Nat /\ filling' = TRUE
    BY <1>1, <1>3, EntriesTail DEF FirstPacket
  <2>2. content' = [content EXCEPT ![b] = frames'] /\ content \in [Buffers -> 0 .. MaxFrames]
    BY <1>3 DEF FirstPacket, TypeOK
  <2>3. /\ result'.buffer = result.buffer /\ result'.frame = result.frame
        /\ result'.torn = (result.torn \/ result.buffer = b)
        /\ result' \in [buffer : 0 .. MaxBuffers, frame : 0 .. MaxFrames, torn : BOOLEAN]
    <3>1. result \in [buffer : 0 .. MaxBuffers, frame : 0 .. MaxFrames, torn : BOOLEAN]
      BY DEF TypeOK
    <3>2. result' = [result EXCEPT !.torn = result.torn \/ result.buffer = b]
      BY <1>3 DEF FirstPacket
    <3>3. (result.torn \/ result.buffer = b) \in BOOLEAN
      BY <3>1
    <3> HIDE DEF b
    <3> QED
      BY <3>1, <3>2, <3>3
  <2> HIDE DEF b, m, n
  <2>4. /\ content' \in [Buffers -> 0 .. MaxFrames] /\ content'[b] = frames + 1
        /\ \A c \in Buffers : c # b => content'[c] = content[c]
        /\ \A c \in Buffers : content'[c] <= frames + 1
    BY <1>1, <2>1, <2>2
  <2>5. \A k \in 1 .. n : outgoing[k] # b /\ content'[outgoing[k]] = content[outgoing[k]]
    BY <1>1, <2>1, <2>4 DEF DistinctInv, m, n
  <2>6. TypeOK'
    BY <1>1, <2>1, <2>3, <2>4 DEF TypeOK, Steady
  <2>7. PhaseInv' /\ DistinctInv'
    BY <1>1, <2>3 DEF PhaseInv, Looping, DistinctInv, Steady
  <2>8. PlaceInv'
    BY <1>1, <2>3 DEF PlaceInv, Queueing, Granted, HeldNow, Hand, Steady
  <2>9. OrderInv'
    BY <1>1, <2>4, <2>5 DEF OrderInv, n
  <2>10. Coming' = Entries(outgoing) \cup {b} /\ Coming = Entries(outgoing)
    BY <1>1, <2>1 DEF Coming, Entries, b
  <2>11. Holding => result.frame + n < frames + 1
    <3> SUFFICES ASSUME Holding PROVE result.frame + n < frames + 1
      OBVIOUS
    <3>1. CASE n = 0
      BY <1>1, <3>1 DEF TakenInv
    <3>2. CASE n # 0
      <4>1. n \in 1 .. n /\ outgoing[n] \in Buffers
        BY <1>1, <2>1, <3>2 DEF n
      <4>2. content[outgoing[n]] <= frames /\ result.frame + n <= content[outgoing[n]]
        BY <1>1, <4>1 DEF TakenInv, n
      <4>3. content[outgoing[n]] \in Int
        BY <1>1, <4>1
      <4> QED
        BY ONLY <1>1, <2>1, <4>2, <4>3
    <3> QED
      BY <3>1, <3>2
  <2>12. TakenInv'
    <3> SUFFICES ASSUME Holding PROVE TakenInv'
      BY <1>1 DEF TakenInv, Holding
    <3>1. /\ result.buffer \in 1 .. count /\ result.buffer \in Buffers /\ result.frame <= frames
          /\ \A k \in 1 .. n : result.frame + k <= content[outgoing[k]]
      BY <1>1 DEF TakenInv, Buffers, n
    <3>2. /\ result'.buffer \in 1 .. count' /\ result'.frame <= frames'
          /\ \A k \in 1 .. n : result'.frame + k <= content'[outgoing'[k]]
      BY <1>1, <2>3, <2>5, <3>1 DEF Steady
    <3>3. CASE result.torn
      <4>1. /\ pc = "convert" /\ (1 .. count) \ {result.buffer} \subseteq Entries(outgoing)
            /\ result.buffer \in Coming /\ frames >= result.frame + count
        BY <3>3 DEF TakenInv, Holding
      <4>2. frames' >= result'.frame + count' /\ result'.torn
        BY <1>1, <2>3, <3>3, <4>1 DEF Steady
      <4> QED
        BY <1>1, <2>3, <2>10, <3>2, <4>1, <4>2 DEF TakenInv, Steady, n
    <3>4. CASE ~result.torn /\ result.buffer = b
      <4>1. pc = "convert" /\ incoming[m] = b
        BY <2>1, <3>4 DEF Holding, TakenInv, DistinctInv, m
      <4>2. m = 1
        <5>1. m \in 1 .. m
          BY <2>1
        <5> QED
          BY <2>1, <4>1, <5>1 DEF DistinctInv, m
      <4>3. Entries(incoming) = {b}
        BY <2>1, <4>2 DEF Entries, m
      <4>4. Entries(incoming) \cup Entries(outgoing) = 1 .. count /\ m + n = count
        BY <1>1, <2>1, <4>1 DEF PlaceInv, HeldNow, Hand, Granted, m, n
      <4>5. (1 .. count) \ {b} \subseteq Entries(outgoing)
        BY <4>3, <4>4
      <4>6. frames + 1 >= result.frame + count
        BY <1>1, <2>1, <2>11, <4>2, <4>4
      <4> QED
        BY <1>1, <2>3, <2>10, <3>2, <3>4, <4>1, <4>5, <4>6 DEF TakenInv, Steady, n
    <3>5. CASE ~result.torn /\ result.buffer # b
      <4>1. ~result'.torn /\ content'[result'.buffer] = result'.frame
        BY <2>3, <2>4, <3>1, <3>5 DEF TakenInv
      <4>2. pc = "convert" => /\ Len(incoming) > 0 /\ incoming[Len(incoming)] = result.buffer
                              /\ \A k \in 1 .. Len(outgoing) : outgoing[k] # result.buffer
        BY <3>5 DEF TakenInv
      <4> QED
        BY <1>1, <2>3, <3>2, <4>1, <4>2 DEF TakenInv, n
    <3> QED
      BY <3>3, <3>4, <3>5
  <2>13. FillInv'
    <3>1. content'[incoming'[1]] = frames'
      BY <1>1, <2>1, <2>4
    <3>2. \A k \in 1 .. Len(outgoing') : content'[outgoing'[k]] < frames'
      BY <1>1, <2>5 DEF n
    <3>3. Holding' => result'.frame + Len(outgoing') < frames'
      BY <1>1, <2>3, <2>11 DEF Holding, n
    <3>4. pc' = "convert" /\ ~result'.torn => Len(incoming') > 1
      <4> SUFFICES ASSUME pc = "convert", ~result.torn, result.buffer # b PROVE m > 1
        BY <1>1, <2>3 DEF m
      <4>1. incoming[m] = result.buffer
        BY DEF TakenInv, Holding, m
      <4> QED
        BY <2>1, <4>1
    <3> QED
      BY <1>1, <1>3, <3>1, <3>2, <3>3, <3>4 DEF FillInv, Looping
  <2>14. ShownInv'
    <3>1. shown <= frames /\ shown' <= frames' /\ shown < frames'
      BY <1>1 DEF ShownInv
    <3>2. CASE ShownWaits
      <4>1. PICK c \in Entries(outgoing) : content[c] = shown
        BY <2>10, <3>2 DEF ShownWaits
      <4>2. PICK k \in 1 .. n : outgoing[k] = c
        BY DEF Entries, n
      <4>3. content'[c] = shown /\ c \in Coming'
        BY <2>5, <2>10, <4>1, <4>2
      <4> QED
        BY <1>1, <3>1, <4>3 DEF ShownInv, ShownWaits
    <3>3. CASE Holding /\ shown <= result.frame
      BY <1>1, <2>3, <3>1, <3>3 DEF ShownInv, Holding
    <3>4. CASE ~Holding /\ \A k \in 1 .. n : shown < content[outgoing[k]]
      BY <1>1, <2>5, <3>1, <3>4 DEF ShownInv, Holding, n
    <3> QED
      BY <3>2, <3>3, <3>4 DEF ShownInv, n
  <2> QED
    BY <2>6, <2>7, <2>8, <2>9, <2>12, <2>13, <2>14
<1> QED
  BY <1>2, <1>3

(* The last packet: the buffer waits behind all that are filled. *)
LEMMA LastPacketInv ==
  ASSUME IInv, LastPacket
  PROVE  IInv'
<1> USE V4l2Constants DEF IInv, device, window, queues, picture
<1> DEFINE b == Head(incoming)
           m == Len(incoming)
           n == Len(outgoing)
<1>1. /\ Steady /\ shown' = shown /\ pc' = pc /\ ending' = ending /\ frames' = frames
      /\ content' = content /\ result' = result /\ filling = TRUE /\ filling' = FALSE
      /\ incoming # <<>> /\ incoming' = Tail(incoming) /\ outgoing' = Append(outgoing, b)
      /\ streaming = TRUE /\ pc # "end" /\ Looping
      /\ incoming \in Seq(Buffers) /\ outgoing \in Seq(Buffers)
      /\ count \in 0 .. MaxBuffers /\ frames \in 0 .. MaxFrames
      /\ shown \in 0 .. MaxFrames /\ result.frame \in 0 .. MaxFrames
      /\ \A c \in Buffers : content[c] \in 0 .. MaxFrames
  <2>1. /\ incoming \in Seq(Buffers) /\ outgoing \in Seq(Buffers) /\ filling = TRUE
        /\ count \in 0 .. MaxBuffers /\ frames \in 0 .. MaxFrames
        /\ shown \in 0 .. MaxFrames /\ result.frame \in 0 .. MaxFrames
        /\ \A c \in Buffers : content[c] \in 0 .. MaxFrames
    BY DEF LastPacket, TypeOK
  <2>2. incoming # <<>> /\ pc # "end" /\ Looping /\ streaming = TRUE
    BY DEF LastPacket, FillInv, PhaseInv, TypeOK
  <2>3. /\ Steady /\ shown' = shown /\ pc' = pc /\ ending' = ending /\ frames' = frames
        /\ content' = content /\ result' = result /\ filling' = FALSE
        /\ incoming' = Tail(incoming) /\ outgoing' = Append(outgoing, b)
    BY DEF LastPacket, Steady
  <2> QED
    BY <2>1, <2>2, <2>3
<1>2. /\ incoming' \in Seq(Buffers) /\ b \in Buffers /\ b = incoming[1]
      /\ m \in Nat /\ m > 0 /\ Len(incoming') = m - 1 /\ 1 \in 1 .. m
      /\ \A k \in 1 .. m - 1 : incoming'[k] = incoming[k + 1]
      /\ Entries(incoming) = {b} \cup Entries(incoming')
  BY <1>1, EntriesTail
<1>3. /\ outgoing' \in Seq(Buffers) /\ Len(outgoing') = n + 1 /\ n \in Nat
      /\ \A k \in 1 .. n : outgoing'[k] = outgoing[k]
      /\ outgoing'[n + 1] = b
      /\ Entries(outgoing') = Entries(outgoing) \cup {b}
  <2> HIDE DEF b
  <2> QED
    BY <1>1, <1>2, EntriesAppend
<1> HIDE DEF b, m, n
<1>4. /\ \A j \in 1 .. m - 1 : j + 1 \in 1 .. m /\ j + 1 # 1 /\ 1 \in 1 .. m
      /\ \A k \in 1 .. n + 1 : k \in 1 .. n \/ k = n + 1
      /\ \A k \in 1 .. n : outgoing[k] \in Buffers
  BY <1>1, <1>2, <1>3 DEF n
<1>5. /\ content[b] = frames /\ \A k \in 1 .. n : content[outgoing[k]] < frames
      /\ Holding => result.frame + n < frames
      /\ pc = "convert" /\ ~result.torn => m > 1
  BY <1>1, <1>2 DEF FillInv, m, n
<1>6. /\ \A j \in 1 .. m - 1 : incoming'[j] # b
      /\ \A k \in 1 .. n : outgoing[k] # b
      /\ \A j \in 1 .. m - 1, k \in 1 .. n : incoming'[j] # outgoing[k]
      /\ \A j, k \in 1 .. m - 1 : incoming'[j] = incoming'[k] => j = k
      /\ \A j, k \in 1 .. n : outgoing[j] = outgoing[k] => j = k
      /\ pc = "requeue" => /\ result.buffer # b
                           /\ \A j \in 1 .. m - 1 : incoming'[j] # result.buffer
                           /\ \A k \in 1 .. n : outgoing[k] # result.buffer
  <2>1. \A j \in 1 .. m : \A k \in 1 .. n : incoming[j] # outgoing[k]
    BY DEF DistinctInv, m, n
  <2>2. \A j, k \in 1 .. m : incoming[j] = incoming[k] => j = k
    BY DEF DistinctInv, m
  <2>3. \A j, k \in 1 .. n : outgoing[j] = outgoing[k] => j = k
    BY DEF DistinctInv, n
  <2>4. pc = "requeue" => /\ \A j \in 1 .. m : incoming[j] # result.buffer
                          /\ \A k \in 1 .. n : outgoing[k] # result.buffer
    BY DEF DistinctInv, m, n
  <2>5. \A j, k \in 1 .. m - 1 : incoming'[j] = incoming'[k] => j = k
    <3> SUFFICES ASSUME NEW j \in 1 .. m - 1, NEW k \in 1 .. m - 1, incoming[j + 1] = incoming[k + 1]
                 PROVE  j = k
      BY <1>2
    <3>1. j + 1 = k + 1
      BY <1>4, <2>2
    <3> QED
      BY <1>2, <3>1
  <2> QED
    BY <1>2, <1>4, <2>1, <2>2, <2>3, <2>4, <2>5
<1>7. TypeOK'
  BY <1>1, <1>2, <1>3 DEF TypeOK, Steady
<1>8. PhaseInv'
  BY <1>1 DEF PhaseInv, Looping, Steady
<1>9. /\ Entries(incoming) \cup Entries(outgoing) \cup HeldNow = 1 .. Granted
      /\ m + n + Hand = Granted /\ Granted = count
      /\ HeldNow' = HeldNow /\ Hand' = Hand /\ Granted' = Granted
  <2>1. pc # "queue"
    BY <1>1 DEF Looping
  <2> QED
    BY <1>1, <2>1 DEF PlaceInv, Granted, HeldNow, Hand, Steady, m, n
<1>10. PlaceInv'
  <2>1. Entries(incoming') \cup Entries(outgoing') \cup HeldNow' = 1 .. Granted'
    BY <1>2, <1>3, <1>9
  <2>2. Hand \in Nat
    BY DEF Hand
  <2>3. Len(incoming') + Len(outgoing') + Hand' = (m - 1) + (n + 1) + Hand
    BY <1>2, <1>3, <1>9
  <2>4. (m - 1) + (n + 1) + Hand = m + n + Hand
    BY ONLY <1>2, <1>3, <2>2
  <2> QED
    BY <1>9, <2>1, <2>3, <2>4 DEF PlaceInv
<1>11. DistinctInv'
  <2>1. \A j, k \in 1 .. n + 1 : outgoing'[j] = outgoing'[k] => j = k
    BY <1>3, <1>4, <1>6
  <2>2. \A j \in 1 .. m - 1, k \in 1 .. n + 1 : incoming'[j] # outgoing'[k]
    BY <1>3, <1>4, <1>6
  <2>3. pc = "requeue" => \A k \in 1 .. n + 1 : outgoing'[k] # result.buffer
    BY <1>3, <1>4, <1>6
  <2> QED
    BY <1>1, <1>2, <1>3, <1>6, <2>1, <2>2, <2>3 DEF DistinctInv
<1>12. OrderInv'
  <2>1. ASSUME NEW j \in 1 .. n + 1, NEW k \in 1 .. n + 1, j <= k
        PROVE  content[outgoing'[j]] + (k - j) <= content[outgoing'[k]]
    <3>1. CASE k \in 1 .. n
      <4>1. j \in 1 .. n
        BY <1>3, <2>1, <3>1
      <4> QED
        BY <1>3, <2>1, <3>1, <4>1 DEF OrderInv, n
    <3>2. CASE k = n + 1 /\ j \in 1 .. n
      <4>1. n \in 1 .. n /\ j <= n
        BY <1>3, <3>2
      <4>2. content[outgoing[j]] + (n - j) <= content[outgoing[n]] /\ content[outgoing[n]] < frames
        BY <1>5, <3>2, <4>1 DEF OrderInv, n
      <4>3. content[outgoing[j]] \in Int /\ content[outgoing[n]] \in Int
        BY <1>1, <1>4, <3>2, <4>1
      <4>4. content[outgoing[j]] + (n + 1 - j) <= frames
        BY ONLY <1>1, <1>3, <3>2, <4>2, <4>3
      <4> QED
        BY <1>3, <1>5, <3>2, <4>4
    <3>3. CASE k = n + 1 /\ j = n + 1
      BY <1>1, <1>2, <1>3, <3>3
    <3> QED
      BY <1>4, <3>1, <3>2, <3>3
  <2> QED
    BY <1>1, <1>3, <2>1 DEF OrderInv
<1>13. Coming' = Coming
  BY <1>1, <1>3 DEF Coming, b
<1>14. TakenInv'
  <2> SUFFICES ASSUME Holding PROVE TakenInv'
    BY <1>1 DEF TakenInv, Holding
  <2>1. /\ result'.buffer \in 1 .. count' /\ result'.frame <= frames'
        /\ \A k \in 1 .. Len(outgoing') : result'.frame + k <= content'[outgoing'[k]]
    <3>1. \A k \in 1 .. n : result.frame + k <= content[outgoing[k]]
      BY DEF TakenInv, n
    <3>2. \A k \in 1 .. n + 1 : result.frame + k <= content[outgoing'[k]]
      BY <1>1, <1>3, <1>4, <1>5, <3>1
    <3> QED
      BY <1>1, <1>3, <3>2 DEF TakenInv, Steady
  <2>2. CASE result.torn
    BY <1>1, <1>3, <1>13, <2>1, <2>2 DEF TakenInv, Steady
  <2>3. CASE ~result.torn /\ pc = "convert"
    <3>1. /\ incoming[m] = result.buffer /\ m > 1
          /\ \A k \in 1 .. n : outgoing[k] # result.buffer
      BY <1>5, <2>3 DEF TakenInv, m, n
    <3>2. m - 1 \in 1 .. m - 1 /\ (m - 1) + 1 = m
      BY <1>2, <3>1
    <3>3. Len(incoming') > 0 /\ incoming'[Len(incoming')] = result'.buffer
      BY <1>1, <1>2, <3>1, <3>2
    <3>4. result.buffer # b
      BY <1>1, <1>6, <3>3, <3>2, <1>2
    <3>5. \A k \in 1 .. Len(outgoing') : outgoing'[k] # result'.buffer
      BY <1>1, <1>3, <1>4, <3>1, <3>4
    <3> QED
      BY <1>1, <2>1, <2>3, <3>3, <3>5 DEF TakenInv
  <2>4. CASE ~result.torn /\ pc # "convert"
    BY <1>1, <2>1, <2>4 DEF TakenInv
  <2> QED
    BY <2>2, <2>3, <2>4
<1>15. FillInv'
  BY <1>1 DEF FillInv
<1>16. ShownInv'
  <2>1. CASE ShownWaits \/ (Holding /\ shown <= result.frame)
    BY <1>1, <1>13, <2>1 DEF ShownInv, ShownWaits, Holding
  <2>2. CASE ~Holding /\ (\A k \in 1 .. n : shown < content[outgoing[k]]) /\ shown < frames
    <3>1. \A k \in 1 .. n + 1 : shown < content[outgoing'[k]]
      BY <1>3, <1>4, <1>5, <2>2
    <3> QED
      BY <1>1, <1>3, <2>2, <3>1 DEF ShownInv, Holding
  <2> QED
    BY <1>1, <2>1, <2>2 DEF ShownInv, n
<1> QED
  BY <1>7, <1>8, <1>10, <1>11, <1>12, <1>14, <1>15, <1>16

-----------------------------------------------------------------------------
LEMMA StutterInv ==
  ASSUME IInv, UNCHANGED vars
  PROVE  IInv'
<1>1. /\ UNCHANGED <<pc, ending, fd, count, mapped, streaming, i, running, quit>>
      /\ UNCHANGED <<incoming, outgoing, filling, content, frames, result, shown>>
  BY DEF vars, device, window, queues, picture
<1>2. TypeOK' /\ PhaseInv'
  BY <1>1 DEF IInv, TypeOK, PhaseInv, Looping
<1>3. PlaceInv' /\ DistinctInv' /\ OrderInv'
  BY <1>1 DEF IInv, PlaceInv, Queueing, Granted, HeldNow, Hand, DistinctInv, OrderInv
<1>4. TakenInv' /\ FillInv' /\ ShownInv'
  BY <1>1 DEF IInv, TakenInv, FillInv, Holding, Looping, ShownInv, ShownWaits, Coming, Entries
<1> QED
  BY <1>2, <1>3, <1>4 DEF IInv

LEMMA StepInv ==
  ASSUME IInv, [Next]_vars
  PROVE  IInv'
<1>1. CASE QuietSteps
  BY <1>1, QuietInv
<1>2. CASE QueueBuffer
  BY <1>2, QueueBufferInv
<1>3. CASE Dequeue
  BY <1>3, DequeueInv
<1>4. CASE Requeue
  BY <1>4, RequeueInv
<1>5. CASE ConvertAndDraw
  BY <1>5, ConvertInv
<1>6. CASE StopCapturing
  BY <1>6, StopCapturingInv
<1>7. CASE FirstPacket
  BY <1>7, FirstPacketInv
<1>8. CASE LastPacket
  BY <1>8, LastPacketInv
<1>9. CASE UNCHANGED vars
  BY <1>9, StutterInv
<1> QED
  BY <1>1, <1>2, <1>3, <1>4, <1>5, <1>6, <1>7, <1>8, <1>9 DEF Next, Program, QuietSteps

LEMMA Invariance == Spec => []IInv
<1>1. IInv /\ [Next]_vars => IInv'
  BY StepInv
<1> QED
  BY InitInv, <1>1, PTL DEF Spec

(* Every variable keeps its type, for any number of buffers and frames. *)
THEOREM TypeCorrect == Spec => []TypeOK
<1>1. IInv => TypeOK
  BY DEF IInv
<1> QED
  BY <1>1, Invariance, PTL

(* No buffer is lost or doubled: while the program streams, each of those the
   driver granted is mapped and in exactly one place (UvcCamera.cpp:431, 449). *)
THEOREM Circulation == Spec => []BuffersCirculate
<1>1. IInv => BuffersCirculate
  <2> SUFFICES ASSUME IInv, streaming, pc # "end" PROVE BuffersCirculate
    BY DEF BuffersCirculate
  <2>1. Looping /\ mapped = 1 .. count
    BY DEF IInv, PhaseInv
  <2>2. /\ Entries(incoming) \cup Entries(outgoing) \cup HeldNow = 1 .. count
        /\ Len(incoming) + Len(outgoing) + Hand = count
    BY <2>1 DEF IInv, PlaceInv, Granted, Looping
  <2>3. Cardinality(HeldNow) = Hand
    BY FS_Singleton, FS_EmptySet DEF HeldNow, Hand
  <2> QED
    BY <2>1, <2>2, <2>3 DEF BuffersCirculate, HeldNow
<1> QED
  BY <1>1, Invariance, PTL

(* A frame is overwritten under the program's eyes only when every other
   buffer has been filled since it was taken and the camera has begun one
   frame more (UvcCamera.cpp:449). *)
THEOREM OverwrittenOnlyBehind == Spec => []TornOnlyWhenBehind
<1>1. IInv => TornOnlyWhenBehind
  BY DEF IInv, TakenInv, Holding, TornOnlyWhenBehind
<1> QED
  BY <1>1, Invariance, PTL

(* A frame is drawn after a later one only when that later one was shown
   before its turn (UvcCamera.cpp:449). *)
THEOREM DrawOrder == Spec => DrawnInOrder
<1>1. ASSUME IInv, [Next]_vars, shown' < shown
      PROVE  \E b \in Coming : content[b] = shown
  <2>1. shown' # shown
    BY <1>1 DEF IInv, TypeOK
  <2>2. ConvertAndDraw
    BY <1>1, <2>1 DEF Next, Program, Open, InitDevice, RequestBuffers, MapBuffer, QueueBuffer,
       StreamOn, PollEvents, WaitNextFrame, Dequeue, Requeue, StopCapturing, UnmapBuffer, Close,
       FirstPacket, LastPacket, CloseWindow, vars, picture
  <2>3. Holding /\ shown' = content[result.buffer]
    BY <2>2 DEF ConvertAndDraw, Holding
  <2>4. /\ shown \in Int /\ result.frame \in Int
        /\ \A c \in Buffers : content[c] \in Int
        /\ \A k \in 1 .. Len(outgoing) : outgoing[k] \in Buffers
    BY <1>1 DEF IInv, TypeOK
  <2>5. result.frame <= content[result.buffer]
    <3>1. CASE ~result.torn
      BY <1>1, <2>3, <2>4, <3>1 DEF IInv, TakenInv
    <3>2. CASE result.torn
      <4>1. pc = "convert" /\ result.buffer \in Coming
        BY <1>1, <2>2, <2>3, <3>2 DEF IInv, TakenInv, ConvertAndDraw
      <4>2. CASE result.buffer \in Entries(outgoing)
        <5>1. PICK k \in 1 .. Len(outgoing) : outgoing[k] = result.buffer
          BY <4>2 DEF Entries
        <5>2. result.frame + k <= content[result.buffer] /\ content[result.buffer] \in Int
          BY <1>1, <2>3, <2>4, <5>1 DEF IInv, TakenInv
        <5> QED
          BY <2>4, <5>1, <5>2
      <4>3. CASE filling /\ result.buffer = Head(incoming)
        <5>1. content[result.buffer] = frames
          BY <1>1, <4>3 DEF IInv, FillInv, TypeOK
        <5> QED
          BY <1>1, <2>3, <5>1 DEF IInv, TakenInv
      <4> QED
        BY <4>1, <4>2, <4>3 DEF Coming
    <3> QED
      BY <3>1, <3>2
  <2>6. CASE ShownWaits
    BY <2>6 DEF ShownWaits
  <2>7. CASE shown <= result.frame
    <3>1. shown' \in Int
      BY <1>1, StepInv DEF IInv, TypeOK
    <3> QED
      BY <1>1, <2>3, <2>4, <2>5, <2>7, <3>1
  <2> QED
    BY <1>1, <2>3, <2>6, <2>7 DEF IInv, ShownInv
<1>2. IInv /\ [Next]_vars =>
        [shown' < shown => \E b \in Coming : content[b] = shown]_vars
  BY <1>1
<1> QED
  BY <1>2, Invariance, PTL DEF Spec, DrawnInOrder

(* A program that ends with 0 has stopped the stream, unmapped the buffers
   and closed the device (UvcCamera.cpp:196, 381). *)
THEOREM CleanEnd == Spec => []NormalEndIsClean
<1> DEFINE Clean == /\ ending = "normal" => fd = "closed" /\ mapped = {} /\ ~streaming
                    /\ fd = "closed" => mapped = {}
<1>1. Init => Clean
  BY DEF Init
<1>2. IInv /\ Clean /\ [Next]_vars => Clean'
  <2> SUFFICES ASSUME IInv, Clean, [Next]_vars PROVE Clean'
    OBVIOUS
  <2> USE DEF IInv, device
  <2>1. CASE Open \/ InitDevice \/ RequestBuffers
    BY <2>1 DEF Open, InitDevice, RequestBuffers, Goes, Ends, PhaseInv
  <2>2. CASE MapBuffer \/ QueueBuffer \/ UnmapBuffer
    BY <2>2 DEF MapBuffer, QueueBuffer, UnmapBuffer, Goes, Ends, PhaseInv
  <2>3. CASE StreamOn \/ WaitNextFrame \/ Dequeue \/ Requeue
    BY <2>3 DEF StreamOn, WaitNextFrame, Dequeue, Requeue, NextTurn, Goes, Ends, PhaseInv
  <2>4. CASE StopCapturing
    BY <2>4 DEF StopCapturing, Goes, Ends, PhaseInv
  <2>5. CASE Close
    BY <2>5 DEF Close, Ends, PhaseInv, Looping
  <2>6. CASE PollEvents \/ ConvertAndDraw \/ FirstPacket \/ LastPacket \/ CloseWindow
    BY <2>6 DEF PollEvents, ConvertAndDraw, FirstPacket, LastPacket, CloseWindow, NextTurn, Goes
  <2>7. CASE UNCHANGED vars
    BY <2>7 DEF vars
  <2> QED
    BY <2>1, <2>2, <2>3, <2>4, <2>5, <2>6, <2>7 DEF Next, Program
<1>3. IInv /\ Clean => NormalEndIsClean
  BY DEF IInv, PhaseInv, Looping, NormalEndIsClean
<1> HIDE DEF Clean
<1> QED
  BY <1>1, <1>2, <1>3, Invariance, PTL DEF Spec

-----------------------------------------------------------------------------
(* The phase of the device as the refinement reads it. *)
phase == IF fd = "closed" THEN "closed" ELSE IF streaming THEN "streaming" ELSE "open"

(* Of each buffer, where it is, in the words of TypeOK. *)
LEMMA PlaceOf ==
  ASSUME NEW b \in Buffers
  PROVE  /\ place[b] = IF b \notin mapped THEN "absent"
                       ELSE IF b \in Entries(incoming) THEN "queued"
                       ELSE IF b \in Entries(outgoing) THEN "filled" ELSE "mapped"
         /\ place'[b] = IF b \notin mapped' THEN "absent"
                        ELSE IF b \in Entries(incoming)' THEN "queued"
                        ELSE IF b \in Entries(outgoing)' THEN "filled" ELSE "mapped"
BY DEF place

(* A step in which one buffer changes its place is a Move. *)
LEMMA IsMove ==
  ASSUME NEW b \in Buffers, NEW from, NEW to, place[b] = from, place'[b] = to, phase' = phase,
         \A c \in Buffers : c # b => place'[c] = place[c]
  PROVE  Protocol!Move(b, from, to)
<1>1. place' = [place EXCEPT ![b] = to]
  BY DEF place
<1> QED
  BY <1>1 DEF Protocol!Move, phase

LEMMA IsStutter ==
  ASSUME UNCHANGED <<fd, streaming, mapped, incoming, outgoing>>
  PROVE  UNCHANGED Protocol!vars
<1>1. Entries(incoming)' = Entries(incoming) /\ Entries(outgoing)' = Entries(outgoing)
  BY DEF Entries
<1> QED
  BY <1>1 DEF Protocol!vars, place

(* A program that goes on has been granted two buffers; when it unmaps them *)
(* the driver has none.                                                     *)
CountInv ==
  /\ pc \in {"query", "queue", "streamon"} => count >= 2
  /\ pc = "unmap" => incoming = <<>> /\ outgoing = <<>>

LEMMA CountInvariance == Spec => []CountInv
<1>1. Init => CountInv
  BY DEF Init, CountInv
<1>2. IInv /\ CountInv /\ [Next]_vars => CountInv'
  <2> SUFFICES ASSUME IInv, CountInv, [Next]_vars PROVE CountInv'
    OBVIOUS
  <2> USE V4l2Constants DEF IInv, CountInv, device, queues, PhaseInv, Looping
  <2>1. CASE Open \/ InitDevice
    BY <2>1 DEF Open, InitDevice, Goes, Ends
  <2>2. CASE RequestBuffers
    BY <2>2 DEF RequestBuffers, Goes, Ends
  <2>3. CASE MapBuffer \/ QueueBuffer \/ StreamOn
    BY <2>3 DEF MapBuffer, QueueBuffer, StreamOn, Goes, Ends
  <2>4. CASE PollEvents \/ WaitNextFrame \/ Dequeue \/ Requeue \/ ConvertAndDraw
    BY <2>4 DEF PollEvents, WaitNextFrame, Dequeue, Requeue, ConvertAndDraw, NextTurn, Goes, Ends
  <2>5. CASE StopCapturing \/ UnmapBuffer \/ Close
    BY <2>5 DEF StopCapturing, UnmapBuffer, Close, Goes, Ends
  <2>6. CASE FirstPacket \/ LastPacket \/ CloseWindow
    BY <2>6 DEF FirstPacket, LastPacket, CloseWindow, FillInv
  <2>7. CASE UNCHANGED vars
    BY <2>7 DEF vars
  <2> QED
    BY <2>1, <2>2, <2>3, <2>4, <2>5, <2>6, <2>7 DEF Next, Program
<1> QED
  BY <1>1, <1>2, Invariance, PTL DEF Spec

(* The calls before the stream. *)
LEMMA SetupKeepsProtocol ==
  ASSUME IInv, CountInv, Open \/ InitDevice \/ RequestBuffers \/ MapBuffer \/ QueueBuffer \/ StreamOn
  PROVE  [Protocol!Next]_(Protocol!vars)
<1> USE V4l2Constants DEF IInv, device, window, queues, picture
<1>1. CASE Open
  <2>1. CASE fd' = fd
    BY <1>1, <2>1, IsStutter DEF Open
  <2>2. CASE fd' # fd
    <3>1. fd = "closed" /\ fd' = "open" /\ UNCHANGED <<streaming, mapped, incoming, outgoing>>
      BY <1>1, <2>2 DEF Open, TypeOK
    <3>2. streaming = FALSE
      BY <1>1 DEF Open, PhaseInv, Looping, TypeOK
    <3>3. phase = "closed" /\ phase' = "open" /\ place' = place
      BY <3>1, <3>2 DEF phase, place, Entries
    <3>4. Protocol!Open
      BY <3>3 DEF Protocol!Open, Protocol!Phase, phase
    <3> QED
      BY <3>4 DEF Protocol!Next
  <2> QED
    BY <2>1, <2>2
<1>2. CASE InitDevice \/ RequestBuffers
  BY <1>2, IsStutter DEF InitDevice, RequestBuffers
<1>3. CASE MapBuffer
  <2>1. CASE mapped' = mapped
    BY <1>3, <2>1, IsStutter DEF MapBuffer
  <2>2. CASE mapped' # mapped
    <3>1. /\ mapped' = mapped \cup {i + 1} /\ mapped = 1 .. i /\ i \in 0 .. MaxBuffers /\ i < count
          /\ count \in 0 .. MaxBuffers /\ incoming = <<>> /\ outgoing = <<>> /\ fd = "open"
          /\ streaming = FALSE /\ UNCHANGED <<fd, streaming, incoming, outgoing>>
      BY <1>3, <2>2 DEF MapBuffer, PhaseInv, Looping, TypeOK
    <3>2. i + 1 \in Buffers /\ i + 1 \notin mapped
      BY <3>1 DEF Buffers
    <3>3. Entries(incoming) = {} /\ Entries(outgoing) = {} /\ Entries(incoming)' = {} /\ Entries(outgoing)' = {}
      BY <3>1, EntriesEmpty
    <3>4. place[i + 1] = "absent" /\ place'[i + 1] = "mapped"
      BY <3>1, <3>2, <3>3, PlaceOf
    <3>5. \A c \in Buffers : c # i + 1 => place'[c] = place[c]
      BY <3>1, <3>3, PlaceOf
    <3>6. phase = "open" /\ phase' = phase
      BY <3>1 DEF phase
    <3>7. Protocol!Map(i + 1)
      BY <3>2, <3>4, <3>5, <3>6, IsMove DEF Protocol!Map, phase
    <3> QED
      BY <3>2, <3>7 DEF Protocol!Next
  <2> QED
    BY <2>1, <2>2
<1>4. CASE QueueBuffer
  <2>1. CASE incoming' = incoming
    BY <1>4, <2>1, IsStutter DEF QueueBuffer
  <2>2. CASE incoming' # incoming
    <3>1. /\ incoming' = Append(incoming, i + 1) /\ mapped = 1 .. count /\ i \in 0 .. MaxBuffers
          /\ i < count /\ count \in 0 .. MaxBuffers /\ outgoing = <<>> /\ fd = "open"
          /\ streaming = FALSE /\ incoming \in Seq(Buffers) /\ pc = "queue"
          /\ UNCHANGED <<fd, streaming, mapped, outgoing>>
      BY <1>4, <2>2 DEF QueueBuffer, PhaseInv, Looping, TypeOK
    <3>2. i + 1 \in Buffers /\ i + 1 \in mapped
      BY <3>1 DEF Buffers
    <3>3. /\ Entries(incoming)' = Entries(incoming) \cup {i + 1}
          /\ Entries(outgoing) = {} /\ Entries(outgoing)' = {}
      BY <3>1, <3>2, EntriesEmpty, EntriesAppend
    <3>4. i + 1 \notin Entries(incoming)
      BY <3>1, <3>3 DEF PlaceInv, Queueing, Granted, HeldNow
    <3>5. place[i + 1] = "mapped" /\ place'[i + 1] = "queued"
      BY <3>1, <3>2, <3>3, <3>4, PlaceOf
    <3>6. \A c \in Buffers : c # i + 1 => place'[c] = place[c]
      BY <3>1, <3>3, PlaceOf
    <3>7. phase = "open" /\ phase' = phase
      BY <3>1 DEF phase
    <3>8. Protocol!Queue(i + 1)
      BY <3>2, <3>5, <3>6, <3>7, IsMove DEF Protocol!Queue, phase
    <3> QED
      BY <3>2, <3>8 DEF Protocol!Next
  <2> QED
    BY <2>1, <2>2
<1>5. CASE StreamOn
  <2>1. CASE streaming' = streaming
    BY <1>5, <2>1, IsStutter DEF StreamOn
  <2>2. CASE streaming' # streaming
    <3>1. /\ streaming = FALSE /\ streaming' = TRUE /\ fd = "open" /\ mapped = 1 .. count
          /\ outgoing = <<>> /\ pc = "streamon" /\ count \in 0 .. MaxBuffers
          /\ UNCHANGED <<fd, mapped, incoming, outgoing>>
      BY <1>5, <2>2 DEF StreamOn, PhaseInv, Looping, TypeOK
    <3>2. 1 \in Buffers /\ 1 \in mapped /\ 1 \in Entries(incoming)
      BY <3>1, EntriesEmpty DEF PlaceInv, Queueing, Granted, HeldNow, CountInv, Buffers
    <3>3. place[1] = "queued"
      BY <3>2, PlaceOf
    <3>4. phase = "open" /\ phase' = "streaming" /\ place' = place
      BY <3>1 DEF phase, place, Entries
    <3>5. Protocol!StreamOn
      BY <3>2, <3>3, <3>4 DEF Protocol!StreamOn, Protocol!Phase, phase
    <3> QED
      BY <3>5 DEF Protocol!Next
  <2> QED
    BY <2>1, <2>2
<1> QED
  BY <1>1, <1>2, <1>3, <1>4, <1>5

(* The turns of the loop. *)
LEMMA LoopKeepsProtocol ==
  ASSUME IInv, PollEvents \/ WaitNextFrame \/ Dequeue \/ Requeue \/ ConvertAndDraw
  PROVE  [Protocol!Next]_(Protocol!vars)
<1> USE V4l2Constants DEF IInv, device, window, queues, picture
<1>1. CASE PollEvents \/ WaitNextFrame \/ ConvertAndDraw
  BY <1>1, IsStutter DEF PollEvents, WaitNextFrame, ConvertAndDraw
<1>2. CASE Dequeue
  <2> DEFINE b == Head(outgoing)
  <2>1. CASE outgoing' = outgoing
    BY <1>2, <2>1, IsStutter DEF Dequeue
  <2>2. CASE outgoing' # outgoing
    <3>1. /\ outgoing # <<>> /\ outgoing' = Tail(outgoing) /\ outgoing \in Seq(Buffers)
          /\ mapped = 1 .. count /\ fd = "open" /\ streaming = TRUE /\ pc = "read"
          /\ UNCHANGED <<fd, streaming, mapped, incoming>>
      BY <1>2, <2>2 DEF Dequeue, PhaseInv, Looping, TypeOK
    <3>2. /\ b \in Buffers /\ b = outgoing[1] /\ Len(outgoing) \in Nat /\ Len(outgoing) > 0
          /\ Len(outgoing') = Len(outgoing) - 1
          /\ \A k \in 1 .. Len(outgoing) - 1 : outgoing'[k] = outgoing[k + 1]
          /\ Entries(outgoing) = {b} \cup Entries(outgoing)'
      BY <3>1, EntriesTail
    <3>3. b \notin Entries(outgoing)'
      BY <3>2 DEF Entries, DistinctInv
    <3>4. b \notin Entries(incoming)
      BY <3>2 DEF Entries, DistinctInv
    <3>5. b \in mapped
      BY <3>1, <3>2 DEF PlaceInv, Granted
    <3>6. Entries(incoming)' = Entries(incoming)
      BY <3>1 DEF Entries
    <3>7. place[b] = "filled" /\ place'[b] = "mapped"
      BY <3>1, <3>2, <3>3, <3>4, <3>5, <3>6, PlaceOf
    <3>8. \A c \in Buffers : c # b => place'[c] = place[c]
      BY <3>1, <3>2, <3>6, PlaceOf
    <3>9. phase = "streaming" /\ phase' = phase
      BY <3>1 DEF phase
    <3>10. Protocol!Take(b)
      BY <3>2, <3>7, <3>8, <3>9, IsMove DEF Protocol!Take, phase
    <3> QED
      BY <3>2, <3>10 DEF Protocol!Next
  <2> QED
    BY <2>1, <2>2
<1>3. CASE Requeue
  <2> DEFINE b == result.buffer
  <2>1. CASE incoming' = incoming
    BY <1>3, <2>1, IsStutter DEF Requeue
  <2>2. CASE incoming' # incoming
    <3>1. /\ incoming' = Append(incoming, b) /\ incoming \in Seq(Buffers)
          /\ mapped = 1 .. count /\ fd = "open" /\ streaming = TRUE /\ pc = "requeue"
          /\ count \in 0 .. MaxBuffers
          /\ UNCHANGED <<fd, streaming, mapped, outgoing>>
      BY <1>3, <2>2 DEF Requeue, PhaseInv, Looping, TypeOK
    <3>2. b \in Buffers /\ b \in mapped
      BY <3>1 DEF TakenInv, Holding, Buffers
    <3>3. /\ Entries(incoming)' = Entries(incoming) \cup {b}
          /\ Entries(outgoing)' = Entries(outgoing)
      BY <3>1, <3>2, EntriesAppend DEF Entries
    <3>4. b \notin Entries(incoming) /\ b \notin Entries(outgoing)
      BY <3>1 DEF Entries, DistinctInv
    <3>5. place[b] = "mapped" /\ place'[b] = "queued"
      BY <3>1, <3>2, <3>3, <3>4, PlaceOf
    <3>6. \A c \in Buffers : c # b => place'[c] = place[c]
      BY <3>1, <3>3, PlaceOf
    <3>7. phase = "streaming" /\ phase' = phase
      BY <3>1 DEF phase
    <3>8. Protocol!Queue(b)
      BY <3>2, <3>5, <3>6, <3>7, IsMove DEF Protocol!Queue, phase
    <3> QED
      BY <3>2, <3>8 DEF Protocol!Next
  <2> QED
    BY <2>1, <2>2
<1> QED
  BY <1>1, <1>2, <1>3

(* The end of the program, the driver and the user. *)
LEMMA RestKeepsProtocol ==
  ASSUME IInv, CountInv, StopCapturing \/ UnmapBuffer \/ Close \/ FirstPacket \/ LastPacket
                            \/ CloseWindow \/ UNCHANGED vars
  PROVE  [Protocol!Next]_(Protocol!vars)
<1> USE V4l2Constants DEF IInv, device, window, queues, picture
<1>1. CASE StopCapturing
  <2>1. CASE streaming' = streaming
    BY <1>1, <2>1, IsStutter DEF StopCapturing, PhaseInv, Looping
  <2>2. CASE streaming' # streaming
    <3>1. /\ incoming' = <<>> /\ outgoing' = <<>> /\ streaming = TRUE /\ streaming' = FALSE
          /\ fd = "open" /\ UNCHANGED <<fd, mapped>>
      BY <1>1, <2>2 DEF StopCapturing, PhaseInv, Looping, TypeOK
    <3>2. Entries(incoming)' = {} /\ Entries(outgoing)' = {}
      BY <3>1, EntriesEmpty
    <3>3. ASSUME NEW b \in Buffers
          PROVE  place'[b] = IF place[b] = "absent" THEN "absent" ELSE "mapped"
      BY <3>1, <3>2, PlaceOf
    <3>4. place' = [b \in Buffers |-> IF place[b] = "absent" THEN "absent" ELSE "mapped"]
      BY <3>3 DEF place
    <3>5. phase = "streaming" /\ phase' = "open"
      BY <3>1 DEF phase
    <3>6. Protocol!StreamOff
      BY <3>4, <3>5 DEF Protocol!StreamOff, Protocol!Phase, phase
    <3> QED
      BY <3>6 DEF Protocol!Next
  <2> QED
    BY <2>1, <2>2
<1>2. CASE UnmapBuffer
  <2>1. CASE mapped' = mapped
    BY <1>2, <2>1, IsStutter DEF UnmapBuffer
  <2>2. CASE mapped' # mapped
    <3>1. /\ mapped' = mapped \ {i + 1} /\ mapped = (i + 1) .. count /\ i \in 0 .. MaxBuffers
          /\ i < count /\ count \in 0 .. MaxBuffers /\ fd = "open" /\ streaming = FALSE /\ pc = "unmap"
          /\ UNCHANGED <<fd, streaming, incoming, outgoing>>
      BY <1>2, <2>2 DEF UnmapBuffer, PhaseInv, Looping, TypeOK
    <3>2. i + 1 \in Buffers /\ i + 1 \in mapped
      BY <3>1 DEF Buffers
    <3>3. /\ Entries(incoming) = {} /\ Entries(outgoing) = {}
          /\ Entries(incoming)' = {} /\ Entries(outgoing)' = {}
      BY <3>1, EntriesEmpty DEF CountInv
    <3>4. place[i + 1] = "mapped" /\ place'[i + 1] = "absent"
      BY <3>1, <3>2, <3>3, PlaceOf
    <3>5. \A c \in Buffers : c # i + 1 => place'[c] = place[c]
      BY <3>1, <3>3, PlaceOf
    <3>6. phase = "open" /\ phase' = phase
      BY <3>1 DEF phase
    <3>7. Protocol!Unmap(i + 1)
      BY <3>2, <3>4, <3>5, <3>6, IsMove DEF Protocol!Unmap, phase
    <3> QED
      BY <3>2, <3>7 DEF Protocol!Next
  <2> QED
    BY <2>1, <2>2
<1>3. CASE Close
  <2>1. CASE fd' = fd
    BY <1>3, <2>1, IsStutter DEF Close
  <2>2. CASE fd' # fd
    <3>1. /\ fd = "open" /\ fd' = "closed" /\ streaming = FALSE /\ mapped = {}
          /\ UNCHANGED <<streaming, mapped, incoming, outgoing>>
      BY <1>3, <2>2 DEF Close, PhaseInv, Looping, TypeOK
    <3>2. phase = "open" /\ phase' = "closed" /\ place' = place
      BY <3>1 DEF phase, place, Entries
    <3>3. \A b \in Buffers : place[b] = "absent"
      BY <3>1, PlaceOf
    <3>4. Protocol!Close
      BY <3>2, <3>3 DEF Protocol!Close, Protocol!Phase, phase
    <3> QED
      BY <3>4 DEF Protocol!Next
  <2> QED
    BY <2>1, <2>2
<1>4. CASE LastPacket
  <2> DEFINE b == Head(incoming)
  <2>2. incoming # <<>>
    BY <1>4 DEF LastPacket, FillInv
  <2> QED
    <3>1. /\ incoming' = Tail(incoming) /\ outgoing' = Append(outgoing, b) /\ incoming \in Seq(Buffers)
          /\ outgoing \in Seq(Buffers) /\ mapped = 1 .. count /\ fd = "open" /\ streaming = TRUE
          /\ pc # "end" /\ Looping
          /\ UNCHANGED <<fd, streaming, mapped>>
      BY <1>4 DEF LastPacket, FillInv, PhaseInv, Looping, TypeOK
    <3>2. /\ b \in Buffers /\ b = incoming[1] /\ Len(incoming) \in Nat /\ Len(incoming) > 0
          /\ Len(incoming') = Len(incoming) - 1
          /\ \A k \in 1 .. Len(incoming) - 1 : incoming'[k] = incoming[k + 1]
          /\ Entries(incoming) = {b} \cup Entries(incoming)'
      BY <2>2, <3>1, EntriesTail
    <3>9. Entries(outgoing)' = Entries(outgoing) \cup {b}
      BY <3>1, <3>2, EntriesAppend
    <3>3. b \notin Entries(incoming)'
      BY <3>2 DEF Entries, DistinctInv
    <3>4. b \in mapped
      BY <3>1, <3>2 DEF PlaceInv, Granted, Looping
    <3>5. place[b] = "queued" /\ place'[b] = "filled"
      BY <3>1, <3>2, <3>3, <3>4, <3>9, PlaceOf
    <3>6. \A c \in Buffers : c # b => place'[c] = place[c]
      BY <3>1, <3>2, <3>9, PlaceOf
    <3>7. phase = "streaming" /\ phase' = phase
      BY <3>1 DEF phase
    <3>8. Protocol!Fill(b)
      BY <3>2, <3>5, <3>6, <3>7, IsMove DEF Protocol!Fill, phase
    <3> QED
      BY <3>2, <3>8 DEF Protocol!Next
<1>5. CASE FirstPacket \/ CloseWindow \/ UNCHANGED vars
  BY <1>5, IsStutter DEF FirstPacket, CloseWindow, vars
<1> QED
  BY <1>1, <1>2, <1>3, <1>4, <1>5

(* The program keeps V4L2's protocol, with any number of buffers, whatever  *)
(* fails (UvcCamera.cpp:100-123, 330-358, 381-451, 196-219).                *)
THEOREM Refinement == Spec => KeepsProtocol
<1>1. Init => Protocol!Init
  BY DEF Init, Protocol!Init, place
<1>2. IInv /\ CountInv /\ [Next]_vars => [Protocol!Next]_(Protocol!vars)
  BY SetupKeepsProtocol, LoopKeepsProtocol, RestKeepsProtocol DEF Next, Program
<1> QED
  BY <1>1, <1>2, Invariance, CountInvariance, PTL DEF Spec, KeepsProtocol, Protocol!Spec

=============================================================================
