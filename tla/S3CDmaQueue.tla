---------------------------- MODULE S3CDmaQueue -----------------------------
(***************************************************************************)
(* What a DMA channel of arch/arm/mach-s3c24xx/dma.c promises its client:  *)
(* a queue of buffers that a running channel moves in the order in which   *)
(* they were queued, and that are reported done in that order and only     *)
(* once moved, or reported aborted all together by FLUSH.  The load state, *)
(* the two-stage hardware and chan->next are the business of S3CDma, which *)
(* implements this specification; S3CSound is built on it.                 *)
(***************************************************************************)
EXTENDS Naturals, Sequences, SequencesExt, FiniteSets

CONSTANTS
  Buf,    \* names of buffers
  NULL

ASSUME QueueAssumption == NULL \notin Buf

VARIABLES
  queue,    \* the buffers queued and not reported yet
  moved,    \* those the hardware has moved to their end
  told,     \* what the client was last told about each buffer
  running   \* the channel was started and not stopped since

queuevars == <<queue, moved, told, running>>

QueueInit ==
  /\ queue = <<>>
  /\ moved = {}
  /\ told = [b \in Buf |-> "none"]
  /\ running = FALSE

(* s3c2410_dma_enqueue; with S3C2410_DMAF_AUTOSTART it also starts. *)
QueueAdd(b) ==
  /\ b \notin ToSet(queue)
  /\ queue' = Append(queue, b)
  /\ told' = [told EXCEPT ![b] = "queued"]
  /\ running' \in {running, TRUE}
  /\ UNCHANGED moved

(* S3C2410_DMAOP_START *)
QueueStart ==
  /\ queue # <<>>
  /\ running' = TRUE
  /\ UNCHANGED <<queue, moved, told>>

(* S3C2410_DMAOP_STOP, and suspend: everything stays queued. *)
QueueStop ==
  /\ running' = FALSE
  /\ UNCHANGED <<queue, moved, told>>

(* S3C2410_DMAOP_FLUSH: what is queued is handed back. *)
QueueAbort ==
  /\ queue' = <<>>
  /\ moved' = {}
  /\ told' = [b \in Buf |-> IF b \in ToSet(queue) THEN "abort" ELSE told[b]]
  /\ running' = FALSE

(* The hardware finishes the oldest buffer that is not moved yet. *)
QueueMove ==
  /\ running
  /\ Cardinality(moved) < Len(queue)
  /\ moved' = moved \cup {queue[Cardinality(moved) + 1]}
  /\ UNCHANGED <<queue, told, running>>

(***************************************************************************)
(* The interrupt reports the oldest buffer done.  The client's callback    *)
(* may stop the channel and may queue the buffer more; the interrupt stops *)
(* a channel that is left with no buffer.                                  *)
(***************************************************************************)
QueueComplete(stop, more) ==
  /\ queue # <<>>
  /\ Head(queue) \in moved
  /\ more \notin ToSet(queue)
  /\ queue' = IF more = NULL THEN Tail(queue) ELSE Append(Tail(queue), more)
  /\ moved' = moved \ {Head(queue)}
  /\ told' = [b \in Buf |-> CASE b = Head(queue) -> "ok"
                              [] b = more -> "queued"
                              [] OTHER -> told[b]]
  /\ running' = (running /\ ~stop /\ queue' # <<>>)

QueueNext ==
  \/ \E b \in Buf : QueueAdd(b)
  \/ QueueStart
  \/ QueueStop
  \/ QueueAbort
  \/ QueueMove
  \/ \E stop \in BOOLEAN, more \in Buf \cup {NULL} : QueueComplete(stop, more)

QueueSpec == QueueInit /\ [][QueueNext]_queuevars
=============================================================================
