------------------------------- MODULE S3CDma -------------------------------
(***************************************************************************)
(* One channel of the S3C24XX DMA driver (arch/arm/mach-s3c24xx/dma.c):    *)
(* the chain of buffers a client queued, the load state the driver keeps   *)
(* about the two-stage hardware (a running transfer and the registers the  *)
(* next one is loaded from), and the hardware itself.                      *)
(*                                                                         *)
(* Every entry point of the driver runs with interrupts off on a           *)
(* uniprocessor, so it is one step; the interrupt is a step of its own,    *)
(* the client's callback included.  A transfer may complete while an entry *)
(* point holds interrupts off: its interrupt is then taken right after.    *)
(*                                                                         *)
(* A buffer is a name: its address, size and magic are left out, and a     *)
(* name is used again only when nothing refers to it any more.             *)
(***************************************************************************)
EXTENDS Naturals, Sequences, SequencesExt

CONSTANTS
  Buf,           \* names of struct s3c2410_dma_buf allocations
  NULL,
  AutoStart,     \* S3C2410_DMAF_AUTOSTART is set (the SD host sets it)
  FlushHitsSelf, \* s3c_dma_chan_map[chan->number] = chan
  Allow          \* what the client and the peripheral may do: a subset of Liberty

(***************************************************************************)
(* "race": a transfer may complete inside an entry point;                  *)
(* "slowload": the peripheral may not request data before load_timeout;    *)
(* "refill": the callback may queue a buffer when the chain is empty;      *)
(* "flushrunning": FLUSH may be asked of a running channel.                *)
(***************************************************************************)
Liberty == {"race", "slowload", "refill", "flushrunning"}

ASSUME DmaAssumption ==
  /\ NULL \notin Buf
  /\ Buf \cap {"none", "stop"} = {}
  /\ AutoStart \in BOOLEAN
  /\ FlushHitsSelf \in BOOLEAN
  /\ Allow \subseteq Liberty

VARIABLES
  chan,       \* the channel: driver fields and hardware registers
  irqpend,    \* the channel's interrupt is latched
  raced,      \* an entry point ran since the interrupt was latched
  needflush,  \* the client stopped the channel and has not flushed it yet
  status,     \* what the client was last told about each buffer
  taken,      \* how often the hardware took up each buffer since it was queued
  done        \* the buffers the hardware moved to the end since then

dmavars == <<chan, irqpend, raced, needflush, status, taken, done>>

LoadState == {"NONE", "1LOADED", "1RUNNING", "1LOADED_1RUNNING"}

(***************************************************************************)
(* q is the chain from chan->curr to chan->end; on is the ON bit of        *)
(* DMASKTRIG, init and norel the address and the reload bit the driver     *)
(* wrote, cur the transfer under way (DSTAT not zero).                     *)
(***************************************************************************)
Channel == [q: Seq(Buf), next: Buf \cup {NULL}, state: {"IDLE", "RUNNING"},
            ls: LoadState, on: BOOLEAN, init: Buf \cup {NULL},
            norel: BOOLEAN, cur: Buf \cup {NULL}]

Init ==
  /\ chan = [q |-> <<>>, next |-> NULL, state |-> "IDLE", ls |-> "NONE",
             on |-> FALSE, init |-> NULL, norel |-> FALSE, cur |-> NULL]
  /\ irqpend = FALSE
  /\ raced = FALSE
  /\ needflush = FALSE
  /\ status = [b \in Buf |-> "none"]
  /\ taken = [b \in Buf |-> 0]
  /\ done = {}

-----------------------------------------------------------------------------

(* buf->next: the buffer after b in the chain, NULL for the last one. *)
Succ(q, b) ==
  IF \E i \in 1..Len(q) - 1 : q[i] = b
  THEN q[(CHOOSE i \in 1..Len(q) - 1 : q[i] = b) + 1]
  ELSE NULL

(* Does s3c2410_dma_waitforload return 1?  slow: no request in time. *)
Loads(c, slow) ==
  c.ls = "1LOADED" /\ (c.cur # NULL \/ (c.on /\ ~slow))

(* The state s3c2410_dma_waitforload leaves when it succeeds. *)
Waited(c) ==
  [c EXCEPT !.ls = "1RUNNING", !.cur = IF c.cur = NULL THEN c.init ELSE c.cur]

(* Mutation of LoadBuffer: the reload bit is never set. *)
LoadBufferNoReload(c, b) ==
  [c EXCEPT !.init = b, !.norel = TRUE, !.next = Succ(c.q, b),
            !.ls = IF c.ls = "NONE" THEN "1LOADED" ELSE "1LOADED_1RUNNING"]

(* Mutation of LoadBuffer: chan->next is left at the loaded buffer. *)
LoadBufferKeepNext(c, b) ==
  [c EXCEPT !.init = b,
            !.norel = c.ls = "NONE" /\ Succ(c.q, b) = NULL,
            !.ls = CASE c.ls = "NONE" -> "1LOADED"
                     [] c.ls = "1RUNNING" -> "1LOADED_1RUNNING"
                     [] OTHER -> c.ls]

(***************************************************************************)
(* s3c2410_dma_loadbuffer: write the address and the reload bit (no reload *)
(* only for a last buffer on a channel with nothing loaded).  No buffer is *)
(* refused with -EINVAL, which no caller looks at.                         *)
(***************************************************************************)
LoadBuffer(c, b) ==
  IF b = NULL THEN c ELSE
  [c EXCEPT !.init = b,
            !.norel = c.ls = "NONE" /\ Succ(c.q, b) = NULL,
            !.next = Succ(c.q, b),
            !.ls = CASE c.ls = "NONE" -> "1LOADED"
                     [] c.ls = "1RUNNING" -> "1LOADED_1RUNNING"
                     [] OTHER -> c.ls]

(* The common end of s3c2410_dma_start and the whole of s3c2410_dma_started: *)
(* a second buffer is loaded once the first is known to be running.          *)
LoadSecond(c, slow) ==
  CASE c.next # NULL /\ c.ls = "1LOADED" /\ Loads(c, slow) ->
         LoadBuffer(Waited(c), c.next)
    [] c.next # NULL /\ c.ls = "1RUNNING" -> LoadBuffer(c, c.next)
    [] OTHER -> c

(* Mutation of DmaStart: nothing to load does not end it. *)
DmaStartUnchecked(c, slow) ==
  IF c.state = "RUNNING" THEN c
  ELSE LET l == IF c.ls = "NONE" THEN LoadBuffer(c, c.next) ELSE c
       IN LoadSecond([l EXCEPT !.state = "RUNNING", !.on = TRUE], slow)

(* s3c2410_dma_start; with nothing to load it fails and changes nothing. *)
DmaStart(c, slow) ==
  IF c.state = "RUNNING" \/ (c.ls = "NONE" /\ c.next = NULL) THEN c
  ELSE LET l == IF c.ls = "NONE" THEN LoadBuffer(c, c.next) ELSE c
       IN LoadSecond([l EXCEPT !.state = "RUNNING", !.on = TRUE], slow)

(* s3c2410_dma_canload *)
CanLoad(c) == c.ls \in {"NONE", "1RUNNING"}

(* Link b at the end of the chain and make it chan->next if none is. *)
Linked(c, b) ==
  [c EXCEPT !.q = Append(@, b),
            !.next = IF c.q = <<>> \/ c.next = NULL THEN b ELSE c.next]

(* Mutation of DmaEnqueue: the load state is not waited for. *)
DmaEnqueueNoWait(c, b, slow) ==
  LET l == Linked(c, b) IN
  CASE c.state = "RUNNING" -> LoadBuffer(l, l.next)
    [] c.state = "IDLE" /\ AutoStart -> DmaStart(l, slow)
    [] OTHER -> l

(* Mutation of DmaEnqueue: a running channel is not given the buffer. *)
DmaEnqueueNoLoad(c, b, slow) ==
  IF c.state = "IDLE" /\ AutoStart THEN DmaStart(Linked(c, b), slow)
  ELSE Linked(c, b)

(***************************************************************************)
(* s3c2410_dma_enqueue.  When the wait for the loaded buffer fails the     *)
(* call returns -EINVAL and leaves the buffer linked.  Loading ends        *)
(* s3c2410_dma_canload, so the loop loads at most one buffer.              *)
(***************************************************************************)
DmaEnqueue(c, b, slow) ==
  LET l == Linked(c, b)
      w == IF l.ls = "1LOADED" /\ Loads(l, slow) THEN Waited(l) ELSE l
  IN CASE c.state = "RUNNING" ->
            IF CanLoad(w) /\ w.next # NULL THEN LoadBuffer(w, w.next) ELSE w
       [] c.state = "IDLE" /\ AutoStart -> DmaStart(l, slow)
       [] OTHER -> l

(* Mutation of DoStop: the STOP bit is not written. *)
DoStopKeepsOn(c) == [c EXCEPT !.state = "IDLE", !.ls = "NONE"]

(* s3c2410_dma_dostop: the chain and chan->next are kept. *)
DoStop(c) ==
  [c EXCEPT !.on = FALSE, !.cur = NULL, !.state = "IDLE", !.ls = "NONE"]

(* Mutation of LastXfer: the reload bit is never turned off. *)
LastXferReload(c, slow) ==
  IF c.ls = "1LOADED" /\ Loads(c, slow) THEN Waited(c) ELSE c

(* s3c2410_dma_lastxfer: no reload once the last buffer is running. *)
LastXfer(c, slow) ==
  CASE c.ls = "NONE" -> [c EXCEPT !.norel = TRUE]
    [] c.ls = "1LOADED" /\ Loads(c, slow) -> [Waited(c) EXCEPT !.norel = TRUE]
    [] OTHER -> c

(* s3c2410_dma_irq up to the callback: one transfer is over. *)
Popped(c) ==
  [c EXCEPT !.ls = IF c.ls = "1LOADED_1RUNNING" THEN "1LOADED" ELSE "NONE",
            !.q = IF c.q = <<>> THEN c.q ELSE Tail(c.q)]

(* The client's callback queues the buffer cb, stops the channel, or neither. *)
Callback(c, cb, slow) ==
  CASE cb = "none" -> c
    [] cb = "stop" -> DoStop(c)
    [] OTHER -> DmaEnqueue(c, cb, slow)

(***************************************************************************)
(* s3c2410_dma_irq after the callback: load the next buffer of a channel   *)
(* that still runs, otherwise prepare to stop and stop when nothing is     *)
(* loaded.                                                                 *)
(***************************************************************************)
Reload(c, slow) ==
  IF c.next # NULL /\ c.state # "IDLE"
  THEN CASE CanLoad(c) -> LoadBuffer(c, c.next)
         [] c.ls = "1LOADED" /\ Loads(c, slow) -> LoadBuffer(Waited(c), c.next)
         [] OTHER -> c
  ELSE LET l == LastXfer(c, slow) IN IF l.ls = "NONE" THEN DoStop(l) ELSE l

(***************************************************************************)
(* s3c2410_dma_flush.  STOP is sent to chan->number read as a virtual      *)
(* channel, which names this channel only if the map says so; the channel  *)
(* is then emptied whether or not it stopped.                              *)
(***************************************************************************)
DmaFlush(c) ==
  LET s == IF c.state # "IDLE" /\ FlushHitsSelf THEN DoStop(c) ELSE c
  IN [s EXCEPT !.q = <<>>, !.next = NULL]

-----------------------------------------------------------------------------

SlowChoice == IF "slowload" \in Allow THEN BOOLEAN ELSE {FALSE}

(* An entry point runs: no interrupt is latched, or it was latched inside it. *)
EntryPoint ==
  /\ ~irqpend \/ ("race" \in Allow /\ ~raced)
  /\ raced' = irqpend
  /\ UNCHANGED irqpend

(***************************************************************************)
(* Count the transfer the step made the hardware take up, if any, starting *)
(* afresh for the buffers it queued.  Two stands for two or more.          *)
(***************************************************************************)
TakeUp(queued) ==
  /\ taken' = [b \in Buf |->
       CASE b \in queued -> 0
         [] b \notin queued /\ chan'.cur = b /\ chan.cur # b /\ taken[b] < 2 -> taken[b] + 1
         [] OTHER -> taken[b]]
  /\ done' = done \ queued

(* The names an allocation may return. *)
Unused == Buf \ (ToSet(chan.q) \cup {chan.next, chan.init, chan.cur})

Enqueue(b) ==
  /\ EntryPoint
  /\ b \in Unused
  /\ ~needflush
  /\ \E slow \in SlowChoice : chan' = DmaEnqueue(chan, b, slow)
  /\ status' = [status EXCEPT ![b] = "queued"]
  /\ TakeUp({b})
  /\ UNCHANGED needflush

Start ==
  /\ EntryPoint
  /\ ~needflush
  /\ \E slow \in SlowChoice : chan' = DmaStart(chan, slow)
  /\ TakeUp({})
  /\ UNCHANGED <<needflush, status>>

(* S3C2410_DMAOP_STARTED: sent by the AC97 driver after it triggers the stream. *)
Started ==
  /\ EntryPoint
  /\ \E slow \in SlowChoice : chan' = LoadSecond(chan, slow)
  /\ TakeUp({})
  /\ UNCHANGED <<needflush, status>>

(* S3C2410_DMAOP_STOP; a client then flushes before it uses the channel again. *)
Stop ==
  /\ EntryPoint
  /\ chan' = DoStop(chan)
  /\ needflush' = TRUE
  /\ UNCHANGED <<status, taken, done>>

(* S3C2410_DMAOP_FLUSH: every linked buffer is reported aborted and freed. *)
Flush ==
  /\ EntryPoint
  /\ chan.state = "IDLE" \/ "flushrunning" \in Allow
  /\ chan' = DmaFlush(chan)
  /\ status' = [b \in Buf |-> IF b \in ToSet(chan.q) THEN "abort" ELSE status[b]]
  /\ needflush' = FALSE
  /\ UNCHANGED <<taken, done>>

(***************************************************************************)
(* s3c2410_dma_suspend_chan, then sleep, which loses the registers, then   *)
(* s3c2410_dma_resume_chan, which rewrites the fixed ones.  The suspend    *)
(* callbacks of the devices have let the latched interrupts be handled.    *)
(***************************************************************************)
SuspendResume ==
  /\ ~irqpend
  /\ LET s == IF chan.on THEN DoStop(chan) ELSE chan
     IN chan' = [s EXCEPT !.init = NULL, !.norel = FALSE]
  /\ needflush' = (needflush \/ chan.on)
  /\ UNCHANGED <<irqpend, raced, status, taken, done>>

(* The buffers the callback of an interrupt may queue. *)
Refills ==
  IF chan.state = "RUNNING" /\ (Len(chan.q) > 1 \/ "refill" \in Allow)
  THEN Unused \ {Head(chan.q)}
  ELSE {}

(***************************************************************************)
(* s3c2410_dma_irq: the head of the chain is reported done and freed.  The *)
(* callback is made only if there was a buffer.                            *)
(***************************************************************************)
Irq ==
  /\ irqpend
  /\ irqpend' = FALSE
  /\ raced' = FALSE
  /\ \E slow1, slow2 \in SlowChoice,
        cb \in {"none", "stop"} \cup (IF chan.q = <<>> THEN {} ELSE Refills) :
       /\ chan.q = <<>> => cb = "none"
       /\ chan' = Reload(Callback(Popped(chan), cb, slow1), slow2)
       /\ status' = [b \in Buf |->
            CASE chan.q # <<>> /\ b = Head(chan.q) -> "ok"
              [] b = cb -> "queued"
              [] OTHER -> status[b]]
       /\ TakeUp({cb} \cap Buf)
       /\ needflush' = (needflush \/ cb = "stop")

(***************************************************************************)
(* The same handler when the callback stops the channel and then queues b  *)
(* on it all the same: snd_pcm_period_elapsed may stop the stream inside   *)
(* audio_buffdone, which goes on to dma_enqueue.  (The SD host, the only   *)
(* user of AUTOSTART, does nothing of the kind.)                           *)
(***************************************************************************)
IrqStopRefill(b) ==
  /\ irqpend /\ chan.q # <<>> /\ ~AutoStart
  /\ irqpend' = FALSE
  /\ raced' = FALSE
  /\ b \in Refills
  /\ chan' = Reload(DmaEnqueue(DoStop(Popped(chan)), b, FALSE), FALSE)
  /\ status' = [status EXCEPT ![Head(chan.q)] = "ok", ![b] = "queued"]
  /\ TakeUp({b})
  /\ needflush' = TRUE

(* The hardware takes up the transfer in its registers. *)
HwLoad ==
  /\ chan.on /\ chan.cur = NULL
  /\ chan' = [chan EXCEPT !.cur = chan.init]
  /\ TakeUp({})
  /\ UNCHANGED <<irqpend, raced, needflush, status>>

(***************************************************************************)
(* A transfer ends: the interrupt is latched, and without the reload bit   *)
(* the channel turns itself off.  The interrupt is handled before the next *)
(* transfer ends.                                                          *)
(***************************************************************************)
HwDone ==
  /\ chan.on /\ chan.cur # NULL /\ ~irqpend
  /\ chan' = [chan EXCEPT !.cur = NULL, !.on = ~chan.norel]
  /\ irqpend' = TRUE
  /\ done' = done \cup {chan.cur}
  /\ UNCHANGED <<raced, needflush, status, taken>>

Next ==
  \/ \E b \in Buf : Enqueue(b)
  \/ Start
  \/ Started
  \/ Stop
  \/ Flush
  \/ SuspendResume
  \/ Irq
  \/ \E b \in Buf : IrqStopRefill(b)
  \/ HwLoad
  \/ HwDone

Spec == Init /\ [][Next]_dmavars

(* The peripheral keeps requesting and the interrupt is taken. *)
FairSpec == Spec
            /\ WF_dmavars(Irq \/ \E b \in Buf : IrqStopRefill(b))
            /\ WF_dmavars(HwLoad) /\ WF_dmavars(HwDone)

-----------------------------------------------------------------------------

(* Types of the channel, its interrupt and the client's bookkeeping; the    *)
(* channel is never on with no buffer in its registers.                     *)
TypeOK ==
  /\ chan \in Channel
  /\ chan.on => chan.init \in Buf
  /\ irqpend \in BOOLEAN
  /\ raced \in BOOLEAN
  /\ needflush \in BOOLEAN
  /\ status \in [Buf -> {"none", "queued", "ok", "abort"}]
  /\ taken \in [Buf -> 0..2]
  /\ done \subseteq Buf

(***************************************************************************)
(* A buffer whose callback got S3C2410_RES_OK was moved to its end by the  *)
(* hardware and was taken up exactly once: the driver's two-stage load     *)
(* state never attributes an interrupt to the wrong buffer, and no buffer  *)
(* is begun a second time.                                                 *)
(***************************************************************************)
ReportedOnceMoved ==
  \A b \in Buf : status[b] = "ok" => taken[b] = 1 /\ b \in done

(* A buffer handed back by s3c2410_dma_flush is not being written any more, *)
(* nor ever again, where clients stop the channel before they flush it.     *)
AbortedNotMoving ==
  \A b \in Buf : status[b] = "abort" => chan.cur # b

(***************************************************************************)
(* chan->next never refers to a buffer that was freed: what START, the     *)
(* interrupt and FLUSH dereference is in the chain.                        *)
(***************************************************************************)
NextInChain == chan.next \in ToSet(chan.q) \cup {NULL}

(***************************************************************************)
(* A running channel with buffers in its chain has the hardware on, or an  *)
(* interrupt coming that will look at the chain: nothing is left behind.   *)
(***************************************************************************)
NoStall ==
  chan.state = "RUNNING" /\ chan.q # <<>> => chan.on \/ irqpend

(***************************************************************************)
(* The load state agrees with the hardware between two interrupts: the     *)
(* transfer under way is the head of the chain, and the registers hold the *)
(* head or, with one loaded behind one running, the buffer after it.       *)
(***************************************************************************)
InStep ==
  chan.state = "RUNNING" /\ ~irqpend =>
    /\ chan.q # <<>>
    /\ chan.cur \in {NULL, Head(chan.q)}
    /\ chan.init = IF chan.ls = "1LOADED_1RUNNING" THEN chan.q[2] ELSE Head(chan.q)
    /\ chan.next = Succ(chan.q, chan.init)

(***************************************************************************)
(* Every buffer queued on a running channel is completed, unless the       *)
(* channel is stopped first.                                               *)
(***************************************************************************)
Drains ==
  \A b \in Buf :
    (chan.state = "RUNNING" /\ b \in ToSet(chan.q)) ~>
      (b \notin ToSet(chan.q) \/ chan.state = "IDLE")

(***************************************************************************)
(* The channel as its client sees it: the chain, the buffers of the chain  *)
(* that were moved to their end, what was reported and the running state.  *)
(***************************************************************************)
Queue == INSTANCE S3CDmaQueue WITH
           queue <- chan.q,
           moved <- ToSet(chan.q) \cap done,
           told <- status,
           running <- chan.state = "RUNNING"

(***************************************************************************)
(* s3c2410_dma_enqueue, _ctrl and _irq over the two-stage hardware         *)
(* implement the queue: buffers are moved and reported in the order in     *)
(* which they were queued, none twice, none lost, and after FLUSH none at  *)
(* all.                                                                    *)
(***************************************************************************)
ImplementsQueue == Queue!QueueSpec
=============================================================================
