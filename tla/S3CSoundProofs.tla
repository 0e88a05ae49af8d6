--------------------------- MODULE S3CSoundProofs ---------------------------
(***************************************************************************)
(* Proofs about the sound ring, for any number of periods and buffers.     *)
(***************************************************************************)
EXTENDS S3CSound, FiniteSetTheorems, SequenceTheorems, TLAPS

(***************************************************************************)
(* The invariant.  SoundInv speaks of a stream that runs and of a released *)
(* channel; what happens in between is that dma_loaded counts the buffers  *)
(* from dma_prepare's flush to the start, on a channel that is stopped.    *)
(***************************************************************************)
RingCounted ==
  /\ pcm \in {"filling", "prepared"} => dma_loaded = Len(queue)
  /\ pcm = "prepared" => dma_loaded = Periods
  /\ pcm \in {"filling", "prepared"} => moved = {}
  /\ running <=> pcm = "running"

SoundGood == SoundInv /\ RingCounted

-----------------------------------------------------------------------------
(* Facts about the abstract channel. *)

(* Queueing a buffer at the end keeps those that were queued. *)
LEMMA AppendSet ==
  ASSUME NEW q \in Seq(Buf), NEW b \in Buf
  PROVE  /\ Append(q, b) \in Seq(Buf)
         /\ Len(Append(q, b)) = Len(q) + 1
         /\ ToSet(q) \subseteq ToSet(Append(q, b))
<1>1. /\ Append(q, b) \in Seq(Buf) /\ Len(Append(q, b)) = Len(q) + 1
      /\ \A i \in 1..Len(q) : Append(q, b)[i] = q[i]
  BY AppendProperties
<1>2. DOMAIN q = 1..Len(q) /\ DOMAIN Append(q, b) = 1..(Len(q) + 1) /\ Len(q) \in Nat
  BY <1>1
<1>3. QED
  BY <1>1, <1>2 DEF ToSet

(* Taking the oldest buffer off keeps the others. *)
LEMMA TailSet ==
  ASSUME NEW q \in Seq(Buf), q # <<>>
  PROVE  /\ Tail(q) \in Seq(Buf) /\ Head(q) \in Buf
         /\ Len(Tail(q)) = Len(q) - 1
         /\ ToSet(q) \ {Head(q)} \subseteq ToSet(Tail(q))
<1>1. /\ Tail(q) \in Seq(Buf) /\ Head(q) \in Buf /\ Head(q) = q[1]
      /\ Len(Tail(q)) = Len(q) - 1 /\ Len(q) \in Nat \ {0}
      /\ \A i \in 1..Len(Tail(q)) : Tail(q)[i] = q[i + 1]
  BY HeadTailProperties, EmptySeq
<1>2. ASSUME NEW i \in 1..Len(q), q[i] # Head(q)
      PROVE  q[i] \in ToSet(Tail(q))
  <2>1. i - 1 \in 1..Len(Tail(q)) /\ Tail(q)[i - 1] = q[i]
    BY <1>1, <1>2
  <2>2. DOMAIN Tail(q) = 1..Len(Tail(q))
    BY <1>1
  <2>3. QED
    BY <2>1, <2>2 DEF ToSet
<1>3. DOMAIN q = 1..Len(q)
  OBVIOUS
<1>4. QED
  BY <1>1, <1>2, <1>3 DEF ToSet

(* What a completion does to the queue, with and without a refill. *)
LEMMA CompleteSet ==
  ASSUME queue \in Seq(Buf), moved \subseteq ToSet(queue), running \in BOOLEAN,
         told \in [Buf -> {"none", "queued", "ok", "abort"}],
         NEW stop \in BOOLEAN, NEW more \in Buf \cup {NULL}, QueueComplete(stop, more)
  PROVE  /\ queue' \in Seq(Buf) /\ moved' \subseteq ToSet(queue') /\ running' \in BOOLEAN
         /\ told' \in [Buf -> {"none", "queued", "ok", "abort"}]
         /\ Len(queue') = IF more = NULL THEN Len(queue) - 1 ELSE Len(queue)
         /\ queue # <<>> /\ Len(queue) \in Nat \ {0}
         /\ running' <=> (running /\ ~stop /\ Len(queue') # 0)
<1>1. /\ queue # <<>>
      /\ queue' = IF more = NULL THEN Tail(queue) ELSE Append(Tail(queue), more)
      /\ moved' = moved \ {Head(queue)}
      /\ running' = (running /\ ~stop /\ queue' # <<>>)
  BY DEF QueueComplete
<1>2. told' \in [Buf -> {"none", "queued", "ok", "abort"}]
  BY DEF QueueComplete
<1>3. /\ Tail(queue) \in Seq(Buf) /\ Len(Tail(queue)) = Len(queue) - 1
      /\ moved' \subseteq ToSet(Tail(queue))
  BY <1>1, TailSet
<1>4. Len(queue) \in Nat \ {0}
  BY <1>1, EmptySeq
<1>5. CASE more = NULL
  BY <1>1, <1>2, <1>3, <1>4, <1>5, EmptySeq
<1>6. CASE more # NULL
  <2>1. more \in Buf
    BY <1>6
  <2>2. /\ queue' \in Seq(Buf) /\ Len(queue') = Len(queue)
        /\ moved' \subseteq ToSet(queue')
    <3> DEFINE t == Tail(queue)
    <3>1. queue' = Append(t, more)
      BY <1>1, <1>6
    <3>2. t \in Seq(Buf) /\ Len(t) = Len(queue) - 1 /\ moved' \subseteq ToSet(t)
      BY <1>3
    <3> HIDE DEF t
    <3>3. /\ Append(t, more) \in Seq(Buf) /\ Len(Append(t, more)) = Len(t) + 1
          /\ ToSet(t) \subseteq ToSet(Append(t, more))
      BY <2>1, <3>2, AppendSet
    <3>4. QED
      BY <1>4, <3>1, <3>2, <3>3
  <2>3. QED
    BY <1>1, <1>2, <1>4, <1>6, <2>2, EmptySeq
<1>7. QED
  BY <1>5, <1>6

(* The first buffer the hardware moves is one that is queued. *)
LEMMA MoveSet ==
  ASSUME queue \in Seq(Buf), moved = {}, QueueMove
  PROVE  /\ moved' \subseteq ToSet(queue) /\ running
         /\ queue' = queue /\ told' = told /\ running' = running
<1>1. Cardinality(moved) = 0
  BY FS_EmptySet
<1>2. 1 \in 1..Len(queue) /\ moved' = {queue[1]}
  BY <1>1 DEF QueueMove
<1>3. queue[1] \in ToSet(queue)
  BY <1>2 DEF ToSet
<1>4. QED
  BY <1>2, <1>3 DEF QueueMove

-----------------------------------------------------------------------------

(* The position wraps inside the ring. *)
LEMMA NextInRing ==
  ASSUME NEW p \in Position
  PROVE  NextPosition(p) \in Position
  BY SoundAssumption DEF Position, NextPosition

(* dma_prepare: the flush, then one period after the other. *)
LEMMA PrepareStep ==
  ASSUME SoundGood, PrepareFlush \/ \E b \in Buf : PrepareEnqueue(b)
  PROVE  SoundGood'
<1>1. CASE PrepareFlush
  <2>1. /\ queue' = <<>> /\ queue' \in Seq(Buf) /\ Len(queue') = 0 /\ moved' = {} /\ running' = FALSE
        /\ told' \in [Buf -> {"none", "queued", "ok", "abort"}]
    BY <1>1, EmptySeq DEF PrepareFlush, QueueAbort, SoundGood, SoundInv, SoundTypeOK
  <2>2. Periods \in Nat \ {0, 1} /\ Periods - 1 \in Position /\ 0 \in Position
    BY SoundAssumption DEF Position
  <2>3. elapsed' \in [period: Position, pointer: Position] /\ dma_loaded' = 0
    BY <1>1, <2>2 DEF PrepareFlush
  <2>4. /\ st_running' = FALSE /\ pcm' = "filling" /\ place' \in [Buf -> Position]
        /\ dma_pos' \in Position /\ dma_loaded' \in 0..Periods
    BY <1>1, <2>2 DEF PrepareFlush, SoundGood, SoundInv, SoundTypeOK, RingFull
  <2>5. QED
    BY <2>1, <2>3, <2>4 DEF SoundGood, SoundInv, SoundTypeOK, RingFull, QuietAfterFree, RingCounted
<1>2. ASSUME NEW b \in Buf, PrepareEnqueue(b)
      PROVE  SoundGood'
  <2>1. /\ queue' \in Seq(Buf) /\ Len(queue') = Len(queue) + 1 /\ moved' \subseteq ToSet(queue')
        /\ told' \in [Buf -> {"none", "queued", "ok", "abort"}] /\ running' = running /\ moved' = moved
    BY <1>2, AppendSet DEF PrepareEnqueue, QueueAdd, SoundGood, SoundInv, SoundTypeOK
  <2>2. /\ dma_pos' \in Position /\ place' \in [Buf -> Position]
        /\ dma_loaded' = dma_loaded + 1
    BY <1>2, NextInRing DEF PrepareEnqueue, EnqueueAt, SoundGood, SoundInv, SoundTypeOK
  <2>3. QED
    BY <1>2, <2>1, <2>2, SoundAssumption
       DEF PrepareEnqueue, SoundGood, SoundInv, SoundTypeOK, RingFull, QuietAfterFree, RingCounted
<1>3. QED
  BY <1>1, <1>2

(* hw_params, the two triggers and hw_free. *)
LEMMA AlsaStep ==
  ASSUME SoundGood, HwParams \/ TriggerStart \/ TriggerStop \/ HwFree
  PROVE  SoundGood'
<1> USE DEF SoundGood, SoundInv, SoundTypeOK, RingFull, QuietAfterFree, RingCounted
<1>1. CASE HwParams
  <2>1. 0 \in 0..Periods /\ 0 \in Position
    BY SoundAssumption DEF Position
  <2>2. QED
    BY <1>1, <2>1 DEF HwParams, queuevars
<1>2. CASE TriggerStart
  BY <1>2 DEF TriggerStart, QueueStart
<1>3. CASE TriggerStop
  BY <1>3 DEF TriggerStop, QueueStop
<1>4. CASE HwFree
  <2>1. /\ queue' = <<>> /\ queue' \in Seq(Buf) /\ moved' = {} /\ running' = FALSE
        /\ told' \in [Buf -> {"none", "queued", "ok", "abort"}]
    BY <1>4, EmptySeq DEF HwFree, QueueAbort
  <2>2. QED
    BY <1>4, <2>1 DEF HwFree
<1>5. QED
  BY <1>1, <1>2, <1>3, <1>4

(* audio_buffdone, with an xrun that stops the stream inside it or not. *)
LEMMA BuffDoneStep ==
  ASSUME SoundGood, NEW b \in Buf, NEW xrun \in BOOLEAN, BuffDone(b, xrun)
  PROVE  SoundGood'
<1>1. /\ queue \in Seq(Buf) /\ moved \subseteq ToSet(queue) /\ running \in BOOLEAN
      /\ told \in [Buf -> {"none", "queued", "ok", "abort"}] /\ b \in Buf \cup {NULL}
      /\ b # NULL /\ QueueComplete(xrun, b)
      /\ st_running /\ pcm = "running" /\ running /\ dma_loaded = Periods /\ Len(queue) = Periods
  BY QueueAssumption DEF SoundGood, SoundInv, SoundTypeOK, RingFull, BuffDone
<1>2. /\ queue' \in Seq(Buf) /\ moved' \subseteq ToSet(queue') /\ running' \in BOOLEAN
      /\ told' \in [Buf -> {"none", "queued", "ok", "abort"}]
      /\ Len(queue') = Len(queue) /\ queue # <<>> /\ Len(queue) \in Nat \ {0}
      /\ running' <=> (running /\ ~xrun /\ Len(queue') # 0)
  BY <1>1, CompleteSet
<1>3. Head(queue) \in Buf
  BY <1>1, <1>2, TailSet
<1>4. /\ dma_pos' \in Position /\ place' \in [Buf -> Position]
      /\ dma_loaded' = dma_loaded - 1 + 1
      /\ elapsed' \in [period: Position, pointer: Position]
  BY <1>3, NextInRing DEF BuffDone, EnqueueAt, SoundGood, SoundInv, SoundTypeOK
<1>5. dma_loaded' = Periods /\ Periods \in 0..Periods
  BY <1>1, <1>4, SoundAssumption
<1>6. pcm' = IF xrun THEN "setup" ELSE "running"
  BY <1>1 DEF BuffDone
<1>7. st_running' = ~xrun
  BY DEF BuffDone
<1>8. QED
  BY <1>1, <1>2, <1>4, <1>5, <1>6, <1>7
     DEF SoundGood, SoundInv, SoundTypeOK, RingFull, QuietAfterFree, RingCounted

(* A completion after the stream was stopped, and the hardware. *)
LEMMA LateStep ==
  ASSUME SoundGood, BuffDoneStopped \/ PeriodMoved
  PROVE  SoundGood'
<1>1. CASE BuffDoneStopped
  <2>1. /\ queue \in Seq(Buf) /\ moved \subseteq ToSet(queue) /\ running \in BOOLEAN
        /\ told \in [Buf -> {"none", "queued", "ok", "abort"}] /\ NULL \in Buf \cup {NULL}
        /\ QueueComplete(FALSE, NULL) /\ ~st_running /\ FALSE \in BOOLEAN
    BY <1>1 DEF SoundGood, SoundInv, SoundTypeOK, BuffDoneStopped
  <2>2. queue # <<>> /\ Head(queue) \in moved
    BY <2>1 DEF QueueComplete
  <2>3. /\ queue' \in Seq(Buf) /\ moved' \subseteq ToSet(queue') /\ running' \in BOOLEAN
        /\ told' \in [Buf -> {"none", "queued", "ok", "abort"}]
        /\ running' <=> (running /\ ~FALSE /\ Len(queue') # 0)
    BY <2>1, CompleteSet
  <2>4. pcm \notin {"open", "filling", "prepared", "running"}
    BY <1>1, <2>1, <2>2 DEF SoundGood, SoundInv, RingFull, QuietAfterFree, RingCounted
  <2>5. QED
    BY <1>1, <2>1, <2>3, <2>4
       DEF SoundGood, SoundInv, SoundTypeOK, RingFull, QuietAfterFree, RingCounted, BuffDoneStopped
<1>2. CASE PeriodMoved
  <2>1. /\ moved' \subseteq ToSet(queue) /\ running
        /\ queue' = queue /\ told' = told /\ running' = running
    BY <1>2, MoveSet DEF PeriodMoved, SoundGood, SoundInv, SoundTypeOK
  <2>2. QED
    BY <1>2, <2>1
       DEF SoundGood, SoundInv, SoundTypeOK, RingFull, QuietAfterFree, RingCounted, PeriodMoved
<1>3. QED
  BY <1>1, <1>2

(* The invariant holds in every reachable state. *)
THEOREM SoundGoodAlways == SoundSpec => []SoundGood
<1>1. SoundInit => SoundGood
  <2> SUFFICES ASSUME SoundInit
               PROVE  SoundGood
    OBVIOUS
  <2>1. 0 \in Position /\ Periods - 1 \in Position /\ 0 \in 0..Periods
    BY SoundAssumption DEF Position
  <2>2. /\ queue = <<>> /\ queue \in Seq(Buf) /\ moved \subseteq ToSet(queue) /\ running = FALSE
        /\ told \in [Buf -> {"none", "queued", "ok", "abort"}]
    BY EmptySeq DEF SoundInit, QueueInit
  <2>3. /\ place \in [Buf -> Position] /\ elapsed \in [period: Position, pointer: Position]
    BY <2>1 DEF SoundInit
  <2>4. QED
    BY <2>1, <2>2, <2>3
       DEF SoundInit, SoundGood, SoundInv, SoundTypeOK, RingFull, QuietAfterFree, RingCounted
<1>2. SoundGood /\ [SoundNext]_soundvars => SoundGood'
  <2> SUFFICES ASSUME SoundGood, [SoundNext]_soundvars
               PROVE  SoundGood'
    OBVIOUS
  <2>1. CASE UNCHANGED soundvars
    BY <2>1 DEF SoundGood, SoundInv, SoundTypeOK, RingFull, QuietAfterFree, RingCounted,
                soundvars, queuevars
  <2>2. CASE SoundNext
    BY <2>2, PrepareStep, AlsaStep, BuffDoneStep, LateStep DEF SoundNext
  <2>3. QED
    BY <2>1, <2>2
<1>3. QED
  BY <1>1, <1>2, PTL DEF SoundSpec

(***************************************************************************)
(* A running stream has a full ring on a running channel and dma_hw_free   *)
(* leaves an idle, empty one, whatever is stopped inside audio_buffdone.   *)
(***************************************************************************)
THEOREM SoundRing == SoundSpec => []SoundInv
  BY SoundGoodAlways, PTL DEF SoundGood
=============================================================================
