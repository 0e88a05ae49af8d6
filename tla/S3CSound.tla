------------------------------ MODULE S3CSound ------------------------------
(***************************************************************************)
(* The ring of the sound DMA platform (sound/soc/samsung/dma.c) on the     *)
(* channel promised by S3CDmaQueue.  ALSA configures, prepares, starts,    *)
(* stops and frees the stream; the channel calls audio_buffdone for each   *)
(* finished buffer, which tells ALSA and queues another one.               *)
(*                                                                         *)
(* Positions are counted in periods: dma_open makes the ring a whole       *)
(* number of them.  The SoC has no circular DMA, so every period is queued *)
(* on its own.  Start, stop and the callback run with interrupts off and   *)
(* are single steps; dma_prepare runs in a task and queues one buffer per  *)
(* step.  A stream is stopped before the system suspends.                  *)
(***************************************************************************)
EXTENDS S3CDmaQueue

CONSTANT Periods   \* limit: the periods of the ring (periods_min is 2)

ASSUME SoundAssumption == Periods \in Nat \ {0, 1}

VARIABLES
  pcm,         \* ALSA's view: "open", "setup", "filling", "prepared", "running"
  st_running,  \* ST_RUNNING is set in prtd->state
  dma_loaded,  \* prtd->dma_loaded
  dma_pos,     \* prtd->dma_pos - prtd->dma_start, in periods
  place,       \* where in the ring each queued buffer begins
  elapsed      \* at the last period elapsed: the period finished, the pointer

soundvars == <<queuevars, pcm, st_running, dma_loaded, dma_pos, place, elapsed>>

Position == 0..Periods - 1

SoundInit ==
  /\ QueueInit
  /\ pcm = "open"
  /\ st_running = FALSE
  /\ dma_loaded = 0
  /\ dma_pos = 0
  /\ place = [b \in Buf |-> 0]
  /\ elapsed = [period |-> Periods - 1, pointer |-> 0]

(* The position after p, which wraps at dma_end. *)
NextPosition(p) == (p + 1) % Periods

(* The length of a queued transfer: dma_info.len, which s3c_dma_prepare *)
(* takes for a DMA_SLAVE transfer, is that of the whole ring.           *)
TransferLength == Periods

(***************************************************************************)
(* One turn of the loop of dma_enqueue, at position pos with loaded        *)
(* periods queued.                                                         *)
(***************************************************************************)
EnqueueAt(b, pos, loaded) ==
  /\ place' = [place EXCEPT ![b] = pos]
  /\ dma_loaded' = loaded + 1
  /\ dma_pos' = NextPosition(pos)

-----------------------------------------------------------------------------

(* An interrupt latched before the channel stopped is taken before a task *)
(* runs again.                                                            *)
TaskRuns == running \/ moved = {}

(* dma_hw_params: also claims the channel, the first time. *)
HwParams ==
  /\ TaskRuns
  /\ pcm \in {"open", "setup", "prepared"}
  /\ pcm' = "setup"
  /\ dma_loaded' = 0
  /\ dma_pos' = 0
  /\ UNCHANGED <<queuevars, st_running, place, elapsed>>

(* dma_prepare: flush the channel and begin at the start of the ring... *)
PrepareFlush ==
  /\ TaskRuns
  /\ pcm \in {"setup", "prepared"}
  /\ QueueAbort
  /\ pcm' = "filling"
  /\ dma_loaded' = 0
  /\ dma_pos' = 0
  /\ elapsed' = [period |-> Periods - 1, pointer |-> 0]
  /\ UNCHANGED <<st_running, place>>

(* ... then dma_enqueue fills it. *)
PrepareEnqueue(b) ==
  /\ pcm = "filling"
  /\ dma_loaded < Periods
  /\ running' = running
  /\ QueueAdd(b)
  /\ EnqueueAt(b, dma_pos, dma_loaded)
  /\ pcm' = IF dma_loaded + 1 = Periods THEN "prepared" ELSE "filling"
  /\ UNCHANGED <<st_running, elapsed>>

(* dma_trigger, SNDRV_PCM_TRIGGER_START *)
TriggerStart ==
  /\ pcm = "prepared"
  /\ pcm' = "running"
  /\ st_running' = TRUE
  /\ QueueStart
  /\ UNCHANGED <<dma_loaded, dma_pos, place, elapsed>>

(* dma_trigger, SNDRV_PCM_TRIGGER_STOP *)
TriggerStop ==
  /\ pcm = "running"
  /\ pcm' = "setup"
  /\ st_running' = FALSE
  /\ QueueStop
  /\ UNCHANGED <<dma_loaded, dma_pos, place, elapsed>>

(* Mutation of HwFree: no flush before the channel is released. *)
HwFreeNoFlush ==
  /\ TaskRuns
  /\ pcm \in {"setup", "prepared"}
  /\ pcm' = "open"
  /\ UNCHANGED <<queuevars, st_running, dma_loaded, dma_pos, place, elapsed>>

(* dma_hw_free: flush and release the channel. *)
HwFree ==
  /\ TaskRuns
  /\ pcm \in {"setup", "prepared"}
  /\ QueueAbort
  /\ pcm' = "open"
  /\ UNCHANGED <<st_running, dma_loaded, dma_pos, place, elapsed>>

(* Mutation of BuffDone: the finished period stays counted, none is queued. *)
BuffDoneKeepsLoaded(b, xrun) ==
  /\ st_running
  /\ QueueComplete(xrun, NULL)
  /\ dma_pos' = NextPosition(dma_pos)
  /\ elapsed' = [period |-> place[Head(queue)], pointer |-> dma_pos']
  /\ pcm' = IF xrun THEN "setup" ELSE pcm
  /\ st_running' = ~xrun
  /\ UNCHANGED <<dma_loaded, place>>

(***************************************************************************)
(* audio_buffdone of a running stream: the position advances, ALSA reads   *)
(* it through dma_pointer and, on an xrun or at the end of a drain, stops  *)
(* the stream inside snd_pcm_period_elapsed; then, stopped or not, the     *)
(* finished period is taken off and dma_enqueue queues one buffer.         *)
(***************************************************************************)
BuffDone(b, xrun) ==
  /\ st_running
  /\ QueueComplete(xrun, b)
  /\ elapsed' = [period |-> place[Head(queue)], pointer |-> NextPosition(dma_pos)]
  /\ EnqueueAt(b, NextPosition(dma_pos), dma_loaded - 1)
  /\ pcm' = IF xrun THEN "setup" ELSE pcm
  /\ st_running' = ~xrun

(* audio_buffdone after the stream was stopped does nothing. *)
BuffDoneStopped ==
  /\ ~st_running
  /\ QueueComplete(FALSE, NULL)
  /\ UNCHANGED <<pcm, st_running, dma_loaded, dma_pos, place, elapsed>>

(* The hardware finishes a buffer, the interrupt of the last one handled. *)
PeriodMoved ==
  /\ moved = {}
  /\ QueueMove
  /\ UNCHANGED <<pcm, st_running, dma_loaded, dma_pos, place, elapsed>>

SoundNext ==
  \/ HwParams
  \/ PrepareFlush
  \/ \E b \in Buf : PrepareEnqueue(b)
  \/ TriggerStart
  \/ TriggerStop
  \/ HwFree
  \/ \E b \in Buf, xrun \in BOOLEAN : BuffDone(b, xrun)
  \/ BuffDoneStopped
  \/ PeriodMoved

SoundSpec == SoundInit /\ [][SoundNext]_soundvars

(* The codec consumes what is queued and interrupts are taken. *)
FairSoundSpec ==
  /\ SoundSpec
  /\ WF_soundvars(PeriodMoved)
  /\ WF_soundvars((\E b \in Buf, xrun \in BOOLEAN : BuffDone(b, xrun)) \/ BuffDoneStopped)

-----------------------------------------------------------------------------

(* Types of the stream and its channel. *)
SoundTypeOK ==
  /\ queue \in Seq(Buf) /\ moved \subseteq ToSet(queue)
  /\ told \in [Buf -> {"none", "queued", "ok", "abort"}] /\ running \in BOOLEAN
  /\ pcm \in {"open", "setup", "filling", "prepared", "running"}
  /\ st_running \in BOOLEAN
  /\ dma_loaded \in 0..Periods
  /\ dma_pos \in Position
  /\ place \in [Buf -> Position]
  /\ elapsed \in [period: Position, pointer: Position]

(***************************************************************************)
(* While the stream runs the channel holds a full ring, dma_loaded counts  *)
(* it, and the channel was not left stopped: neither an xrun inside the    *)
(* callback nor a completion after a stop makes the count drift, which     *)
(* would queue too few periods or too many for good.                       *)
(***************************************************************************)
RingFull ==
  /\ st_running <=> pcm = "running"
  /\ st_running => running /\ dma_loaded = Periods /\ Len(queue) = Periods

(***************************************************************************)
(* Once dma_hw_free released the channel nothing of the ring is queued or  *)
(* moving: the next owner of the channel inherits an idle, empty one.      *)
(***************************************************************************)
QuietAfterFree == pcm = "open" => queue = <<>> /\ ~running

(* The ring, the channel under it and ALSA's view of the stream agree. *)
SoundInv == SoundTypeOK /\ RingFull /\ QuietAfterFree

(* A stream that keeps running keeps telling ALSA that periods elapse. *)
KeepsElapsing == <>[]st_running => []<>(moved # {}) /\ []<>(moved = {})

(***************************************************************************)
(* At each snd_pcm_period_elapsed, dma_pointer returns the hardware        *)
(* position: the end of the period that was finished.                      *)
(***************************************************************************)
PointerIsHardware == elapsed.pointer = NextPosition(elapsed.period)

(* A queued transfer lies inside the ring. *)
TransferInRing ==
  \A b \in ToSet(queue) : place[b] + TransferLength <= Periods
=============================================================================
