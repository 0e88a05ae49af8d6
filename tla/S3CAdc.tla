------------------------------- MODULE S3CAdc -------------------------------
(***************************************************************************)
(* The Samsung ADC core (arch/arm/plat-samsung/adc.c): one converter       *)
(* shared by the touchscreen, which has priority, and by the readers of    *)
(* s3c_adc_read (the hwmon driver), which queue in arrival order.          *)
(*                                                                         *)
(* The CPU is a uniprocessor: everything done under adc->lock with         *)
(* interrupts off, and every interrupt handler, is one step.  The steps of *)
(* s3c_adc_read that run outside the lock are actions of their own.        *)
(*                                                                         *)
(* A sample is abstracted to the client whose channel was selected when it *)
(* was converted; a result of -1 is NULL.                                  *)
(***************************************************************************)
EXTENDS Naturals, Sequences, SequencesExt

CONSTANTS
  Client,        \* the registered s3c_adc_client structures
  TsClient,      \* the one with is_ts set
  NULL,
  Samples,       \* 1 << ts.shift, the nr_samples of a touchscreen request
  Timeouts,      \* when wait_event_timeout in s3c_adc_read may expire
  RereadStale,   \* is a client read again while its timed out request is queued?
  SuspendWhen    \* when the system may suspend: "never", "idle", "any"

ASSUME AdcAssumption ==
  /\ TsClient \in Client
  /\ NULL \notin Client
  /\ Samples \in Nat \ {0}
  /\ Timeouts \in {"none", "stalled", "any"}
  /\ RereadStale \in BOOLEAN
  /\ SuspendWhen \in {"never", "idle", "any"}

Reader == Client \ {TsClient}

VARIABLES
  cur,          \* adc->cur, the client being converted
  ts_pend,      \* adc->ts_pend, the waiting touchscreen request
  adc_pending,  \* the list of waiting readers
  nr_samples,   \* client->nr_samples
  convert_cb,   \* is client->convert_cb set? (readers)
  result,       \* client->result (readers)
  reader,       \* where the client's s3c_adc_read is
  hwconv,       \* the client whose channel the hardware is converting
  irqpend,      \* the sample in ADCDAT with its interrupt latched
  susp          \* between s3c_adc_suspend and s3c_adc_resume

core == <<cur, ts_pend, adc_pending, nr_samples>>
reads == <<convert_cb, result, reader>>
adcvars == <<cur, ts_pend, adc_pending, nr_samples, convert_cb, result,
             reader, hwconv, irqpend, susp>>

(***************************************************************************)
(* Reader states: "unreg" (no client), "out" (no read in progress), "set"  *)
(* (fields set, request not queued yet), "wait" (in wait_event_timeout).   *)
(* The hwmon mutex admits one reader per client.                           *)
(***************************************************************************)
ReaderState == {"unreg", "out", "set", "wait"}

Init ==
  /\ cur = NULL
  /\ ts_pend = NULL
  /\ adc_pending = <<>>
  /\ nr_samples = [c \in Client |-> 0]
  /\ convert_cb = [c \in Reader |-> FALSE]
  /\ result = [c \in Reader |-> NULL]
  /\ reader = [c \in Reader |-> "unreg"]
  /\ hwconv = NULL
  /\ irqpend = NULL
  /\ susp = FALSE

-----------------------------------------------------------------------------

(* The choice s3c_adc_try makes: the touchscreen first, then the list head. *)
NextClient(tp, pend) ==
  IF tp # NULL THEN tp ELSE IF pend # <<>> THEN Head(pend) ELSE NULL

(* Mutation of Try: the chosen reader is not unlinked (no list_del). *)
TryNoDel(tp, pend) ==
  LET next == NextClient(tp, pend) IN
  /\ cur' = next
  /\ ts_pend' = NULL
  /\ adc_pending' = pend
  /\ hwconv' = IF next # NULL /\ ~susp THEN next ELSE hwconv

(***************************************************************************)
(* s3c_adc_try with adc->cur cleared, ts_pend = tp and adc_pending = pend: *)
(* the chosen client leaves its queue, is selected and its conversion is   *)
(* started.  With nothing to do the hardware is left alone, and with the    *)
(* clock off (after s3c_adc_suspend) the start bit has no effect.           *)
(***************************************************************************)
Try(tp, pend) ==
  LET next == NextClient(tp, pend) IN
  /\ cur' = next
  /\ ts_pend' = NULL
  /\ adc_pending' = IF tp = NULL /\ pend # <<>> THEN Tail(pend) ELSE pend
  /\ hwconv' = IF next # NULL /\ ~susp THEN next ELSE hwconv

(* Mutation of TryIfFree: the test of adc->cur is lost. *)
TryIfFreeAlways(c, tp, pend) == Try(tp, pend)

(* Run s3c_adc_try only if the converter is free, else just update the queues. *)
TryIfFree(c, tp, pend) ==
  \/ c = NULL /\ Try(tp, pend)
  \/ /\ c # NULL
     /\ cur' = c
     /\ ts_pend' = tp
     /\ adc_pending' = pend
     /\ UNCHANGED hwconv

(* s3c_adc_start: -EAGAIN for a second touchscreen request. *)
StartAgain(c) == c = TsClient /\ ts_pend # NULL

(* Mutations of Start: the touchscreen is queued like a reader; readers    *)
(* are added at the head of the list.                                      *)
StartTsQueued(c, nr) ==
  /\ ~StartAgain(c)
  /\ nr_samples' = [nr_samples EXCEPT ![c] = nr]
  /\ TryIfFree(cur, ts_pend, Append(adc_pending, c))

StartAtHead(c, nr) ==
  /\ ~StartAgain(c)
  /\ nr_samples' = [nr_samples EXCEPT ![c] = nr]
  /\ TryIfFree(cur,
               IF c = TsClient THEN c ELSE ts_pend,
               IF c = TsClient THEN adc_pending ELSE <<c>> \o adc_pending)

(* s3c_adc_start on its successful path, all of it under adc->lock. *)
Start(c, nr) ==
  /\ ~StartAgain(c)
  /\ nr_samples' = [nr_samples EXCEPT ![c] = nr]
  /\ TryIfFree(cur,
               IF c = TsClient THEN c ELSE ts_pend,
               IF c = TsClient THEN adc_pending ELSE Append(adc_pending, c))

-----------------------------------------------------------------------------

(* s3c_adc_register: a zeroed client. *)
Register(c) ==
  /\ reader[c] = "unreg"
  /\ reader' = [reader EXCEPT ![c] = "out"]
  /\ convert_cb' = [convert_cb EXCEPT ![c] = FALSE]
  /\ result' = [result EXCEPT ![c] = NULL]
  /\ nr_samples' = [nr_samples EXCEPT ![c] = 0]
  /\ UNCHANGED <<cur, ts_pend, adc_pending, hwconv, irqpend, susp>>

(* The list without c, which is on it at most once. *)
Without(pend, c) ==
  IF \E i \in DOMAIN pend : pend[i] = c
    THEN RemoveAt(pend, CHOOSE i \in DOMAIN pend : pend[i] = c)
    ELSE pend

(* Mutations of Release: the client stays on the list; no s3c_adc_try. *)
ReleaseLinked(c) ==
  /\ reader[c] = "out"
  /\ reader' = [reader EXCEPT ![c] = "unreg"]
  /\ TryIfFree(IF cur = c THEN NULL ELSE cur, ts_pend, adc_pending)
  /\ UNCHANGED <<nr_samples, convert_cb, result, irqpend, susp>>

ReleaseNoTry(c) ==
  /\ reader[c] = "out"
  /\ reader' = [reader EXCEPT ![c] = "unreg"]
  /\ cur' = IF cur = c THEN NULL ELSE cur
  /\ adc_pending' = Without(adc_pending, c)
  /\ UNCHANGED <<ts_pend, nr_samples, convert_cb, result, hwconv, irqpend, susp>>

(***************************************************************************)
(* s3c_adc_release, called by s3c_hwmon_remove after the sysfs attributes  *)
(* are gone, so with no read in progress.  (The touchscreen driver never   *)
(* releases its client.)                                                   *)
(***************************************************************************)
Release(c) ==
  /\ reader[c] = "out"
  /\ reader' = [reader EXCEPT ![c] = "unreg"]
  /\ TryIfFree(IF cur = c THEN NULL ELSE cur, ts_pend, Without(adc_pending, c))
  /\ UNCHANGED <<nr_samples, convert_cb, result, irqpend, susp>>

(* s3c_adc_read up to the call of s3c_adc_start: no lock is held. *)
ReadBegin(c) ==
  /\ reader[c] = "out"
  /\ RereadStale \/ (cur # c /\ ~Contains(adc_pending, c))
  /\ reader' = [reader EXCEPT ![c] = "set"]
  /\ convert_cb' = [convert_cb EXCEPT ![c] = TRUE]
  /\ result' = [result EXCEPT ![c] = NULL]
  /\ UNCHANGED <<core, hwconv, irqpend, susp>>

(* The call of s3c_adc_start in s3c_adc_read; the task then sleeps. *)
ReadStart(c) ==
  /\ reader[c] = "set"
  /\ Start(c, 1)
  /\ reader' = [reader EXCEPT ![c] = "wait"]
  /\ UNCHANGED <<convert_cb, result, irqpend, susp>>

(* wait_event_timeout returns with a result. *)
ReadDone(c) ==
  /\ reader[c] = "wait"
  /\ result[c] # NULL
  /\ reader' = [reader EXCEPT ![c] = "out"]
  /\ convert_cb' = [convert_cb EXCEPT ![c] = FALSE]
  /\ UNCHANGED <<core, result, hwconv, irqpend, susp>>

(***************************************************************************)
(* The half second is over: -ETIMEDOUT, with the request left where it is. *)
(* A conversion takes microseconds, so it only expires once the converter  *)
(* is stalled ("stalled"); "any" lets it expire at any time.               *)
(***************************************************************************)
ReadTimeout(c) ==
  /\ \/ Timeouts = "any"
     \/ Timeouts = "stalled" /\ hwconv = NULL /\ irqpend = NULL
  /\ reader[c] = "wait"
  /\ result[c] = NULL
  /\ reader' = [reader EXCEPT ![c] = "out"]
  /\ UNCHANGED <<core, convert_cb, result, hwconv, irqpend, susp>>

-----------------------------------------------------------------------------

(* The hardware finishes a conversion and latches the interrupt. *)
HwConvDone ==
  /\ hwconv # NULL
  /\ ~susp
  /\ irqpend' = hwconv
  /\ hwconv' = NULL
  /\ UNCHANGED <<core, reads, susp>>

(* The convert_cb of a reader is s3c_convert_done. *)
Converted(c) ==
  result' = IF c \in Reader /\ convert_cb[c]
              THEN [result EXCEPT ![c] = irqpend] ELSE result

Interrupted == irqpend # NULL /\ ~susp /\ irqpend' = NULL

(* s3c_adc_irq with no current client. *)
IrqSpurious ==
  /\ Interrupted
  /\ cur = NULL
  /\ UNCHANGED <<core, reads, hwconv, susp>>

(* Mutation of IrqMore: the next conversion is not started. *)
IrqMoreNoConvert ==
  /\ Interrupted
  /\ cur # NULL
  /\ nr_samples[cur] > 1
  /\ nr_samples' = [nr_samples EXCEPT ![cur] = @ - 1]
  /\ Converted(cur)
  /\ UNCHANGED <<cur, ts_pend, adc_pending, convert_cb, reader, hwconv, susp>>

(* s3c_adc_irq with samples left: convert again for the same client. *)
IrqMore ==
  /\ Interrupted
  /\ cur # NULL
  /\ nr_samples[cur] > 1
  /\ nr_samples' = [nr_samples EXCEPT ![cur] = @ - 1]
  /\ Converted(cur)
  /\ hwconv' = cur
  /\ UNCHANGED <<cur, ts_pend, adc_pending, convert_cb, reader, susp>>

(* Mutation of IrqLast: the next request is not tried. *)
IrqLastNoTry ==
  /\ Interrupted
  /\ cur # NULL
  /\ nr_samples[cur] <= 1
  /\ nr_samples' = [nr_samples EXCEPT ![cur] = 0]
  /\ Converted(cur)
  /\ cur' = NULL
  /\ UNCHANGED <<ts_pend, adc_pending, convert_cb, reader, hwconv, susp>>

(* s3c_adc_irq on the last sample: deselect the client and try the next. *)
IrqLast ==
  /\ Interrupted
  /\ cur # NULL
  /\ nr_samples[cur] <= 1
  /\ nr_samples' = [nr_samples EXCEPT ![cur] = 0]
  /\ Converted(cur)
  /\ Try(ts_pend, adc_pending)
  /\ UNCHANGED <<convert_cb, reader, susp>>

(***************************************************************************)
(* s3c_adc_suspend: standby, interrupt disabled, clock off; a conversion   *)
(* in progress is lost.  User tasks are frozen outside s3c_adc_read.  With *)
(* SuspendWhen = "idle" it only happens with no conversion in progress.    *)
(***************************************************************************)
Suspend ==
  /\ SuspendWhen = "any" \/ (SuspendWhen = "idle" /\ cur = NULL)
  /\ ~susp
  /\ \A c \in Reader : reader[c] \in {"unreg", "out"}
  /\ susp' = TRUE
  /\ hwconv' = NULL
  /\ UNCHANGED <<core, reads, irqpend>>

(***************************************************************************)
(* s3c_adc_resume rewrites ADCCON with no conversion started.  A latched   *)
(* interrupt is lost if the system really slept (SRCPND is acknowledged on *)
(* the way down) and survives if the suspend was aborted.                  *)
(***************************************************************************)
Resume ==
  /\ susp
  /\ susp' = FALSE
  /\ irqpend' \in {irqpend, NULL}
  /\ UNCHANGED <<core, reads, hwconv>>

-----------------------------------------------------------------------------

(* A touchscreen request, made by its driver from interrupt or timer context. *)
TsRequest ==
  /\ Start(TsClient, Samples)
  /\ UNCHANGED <<reads, irqpend, susp>>

(* The same request refused: nothing changes. *)
TsRequestAgain ==
  /\ StartAgain(TsClient)
  /\ UNCHANGED adcvars

Next ==
  \/ /\ ~susp
     /\ \E c \in Reader :
          \/ Register(c) \/ Release(c)
          \/ ReadBegin(c) \/ ReadStart(c) \/ ReadDone(c) \/ ReadTimeout(c)
  \/ TsRequest \/ TsRequestAgain
  \/ HwConvDone
  \/ IrqSpurious \/ IrqMore \/ IrqLast
  \/ Suspend \/ Resume

Spec == Init /\ [][Next]_adcvars

-----------------------------------------------------------------------------

TypeOK ==
  /\ cur \in Client \cup {NULL}
  /\ ts_pend \in {TsClient, NULL}
  /\ adc_pending \in Seq(Reader)
  /\ nr_samples \in [Client -> Nat]
  /\ convert_cb \in [Reader -> BOOLEAN]
  /\ result \in [Reader -> Client \cup {NULL}]
  /\ reader \in [Reader -> ReaderState]
  /\ hwconv \in Client \cup {NULL}
  /\ irqpend \in Client \cup {NULL}
  /\ susp \in BOOLEAN

(* No request waits while the converter is free: every path that clears    *)
(* adc->cur or queues a request ends in s3c_adc_try.                       *)
IdleImpliesEmpty == cur = NULL => ts_pend = NULL /\ adc_pending = <<>>

(* A client is linked on adc_pending at most once, as list_add_tail needs. *)
NoDoubleAdd ==
  \A i, j \in DOMAIN adc_pending : adc_pending[i] = adc_pending[j] => i = j

(* s3c_adc_release leaves no pointer to the structure it frees. *)
NoFreedClient ==
  \A c \in Reader : reader[c] = "unreg" =>
    cur # c /\ \A i \in DOMAIN adc_pending : adc_pending[i] # c

(* A current client has a conversion running or its interrupt pending, and *)
(* never both, so the converter cannot stall.                              *)
ConversionUnderway ==
  /\ cur # NULL => (hwconv # NULL) # (irqpend # NULL)
  /\ cur = NULL => hwconv = NULL /\ irqpend = NULL

(* s3c_adc_read returns a value converted on its own channel.              *)
OwnSample == \A c \in Reader : result[c] \in {c, NULL}

(* s3c_convert_done stores and wakes only while the reader, whose stack    *)
(* holds the wait queue, is waiting.  The code does not satisfy this       *)
(* (Timeouts = "any"): a read that gives up leaves its request queued and  *)
(* its convert_cb set.                                                     *)
WakeOnlyWaiting ==
  [][\A c \in Reader :
       result'[c] # NULL /\ result'[c] # result[c] => reader[c] = "wait"]_adcvars

(* The readers in service order: the one being converted, then the list. *)
Line == IF cur \in Reader THEN <<cur>> \o adc_pending ELSE adc_pending

Before(q, a, b) == \E i, j \in DOMAIN q : i < j /\ q[i] = a /\ q[j] = b

(* Readers are served in the order of their calls of s3c_adc_start: one    *)
(* that waits is overtaken neither by a reader behind it nor by one that   *)
(* arrives later, whatever the touchscreen, a timeout or a release does.   *)
ServedInOrder ==
  [][\A a, b \in Reader :
       (/\ a # b
        /\ Contains(Line, a) /\ ~Before(Line, b, a)
        /\ Contains(Line', a) /\ Contains(Line', b))
       => Before(Line', a, b)]_adcvars

=============================================================================
