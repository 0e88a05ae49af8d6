------------------------------ MODULE S3CDmaMap -----------------------------
(***************************************************************************)
(* Allocation of the four hardware channels to the virtual channels of the *)
(* drivers: s3c2410_dma_request and _free (mach-s3c24xx/dma.c), the lookup *)
(* (plat-samsung/dma.c), the wrappers the sound driver uses                *)
(* (plat-samsung/s3c-dma-ops.c) and the tables of dma-s3c2440.c.           *)
(*                                                                         *)
(* A virtual channel has one driver, so it also stands for its client.     *)
(* The transfers of a channel (module S3CDma) are reduced to whether it    *)
(* runs and whose buffers are linked to it.                                *)
(***************************************************************************)
EXTENDS Integers, Sequences, FiniteSetsExt

CONSTANTS
  Configs,      \* kernel configurations: sets of drivers that are built in
  NULL,
  FlushRunning  \* the drivers that may flush a channel while it runs

Hw == 0..3

(* enum dma_ch *)
XD0 == 0
XD1 == 1
SDI == 2
SPI0 == 3
I2S_IN == 9
I2S_OUT == 10
PCM_IN == 11
PCM_OUT == 12
MIC_IN == 13

Virt == {XD0, XD1, SDI, SPI0, I2S_IN, I2S_OUT, PCM_IN, PCM_OUT, MIC_IN}

(* The virtual channels that a driver of the tree claims: SD host, I2S and  *)
(* AC97.  Nobody asks for XD0, XD1 or SPI0.                                 *)
Claims == {SDI, I2S_IN, I2S_OUT, PCM_IN, PCM_OUT, MIC_IN}

ASSUME MapAssumption ==
  /\ Configs \subseteq SUBSET Claims
  /\ NULL \notin Hw \cup Virt
  /\ FlushRunning \subseteq Claims

(* The SD host keeps the DMACH_LOW_LEVEL number it was given; the sound     *)
(* driver, through s3c_dma_request, keeps the virtual number.              *)
LowLevel(v) == v = SDI

(* s3c2440_dma_mappings: the hardware channels a source is wired to. *)
Wired == [v \in Virt |->
  CASE v = XD0 -> {0}
    [] v \in {XD1, SPI0} -> {1}
    [] v = SDI -> Hw
    [] v = I2S_IN -> {1, 2}
    [] v \in {I2S_OUT, PCM_IN} -> {0, 2}
    [] v = PCM_OUT -> {1, 3}
    [] v = MIC_IN -> {2, 3}]

(* s3c2440_dma_order: the channels to try first. *)
Order == [v \in Virt |->
  CASE v = SDI -> <<3, 2, 1, 0>>
    [] v = I2S_IN -> <<1, 2>>
    [] v \in {I2S_OUT, PCM_IN} -> <<2, 1>>
    [] v = PCM_OUT -> <<1, 3>>
    [] v = MIC_IN -> <<3, 2>>
    [] OTHER -> <<>>]

VARIABLES
  built,     \* the drivers of this kernel
  in_use,    \* chan->in_use
  client,    \* chan->client
  req_ch,    \* chan->req_ch, whose mapping chan->dcon was selected from
  claimed,   \* chan->irq_claimed
  chan_map,  \* s3c_dma_chan_map
  run,       \* chan->state is not IDLE
  chain,     \* linked buffers: the client's "own", or "left" by an earlier one
  driver,    \* where the driver of a virtual channel is
  given,     \* the hardware channel the driver's request got
  xfer,      \* the driver has a transfer under way
  dma_list,  \* the cb_data entries of s3c-dma-ops.c; NULL when destroyed
  warned     \* channels with a "possible free from different client" logged

vars == <<built, in_use, client, req_ch, claimed, chan_map, run, chain, driver,
          given, xfer, dma_list, warned>>

table == <<in_use, client, req_ch, claimed, chan_map>>

Init ==
  /\ built \in Configs
  /\ in_use = [h \in Hw |-> FALSE]
  /\ client = [h \in Hw |-> NULL]
  /\ req_ch = [h \in Hw |-> NULL]
  /\ claimed = [h \in Hw |-> FALSE]
  /\ chan_map = [v \in Virt |-> NULL]
  /\ run = [h \in Hw |-> FALSE]
  /\ chain = [h \in Hw |-> {}]
  /\ driver = [v \in Claims |-> "out"]
  /\ given = [v \in Claims |-> NULL]
  /\ xfer = [v \in Claims |-> FALSE]
  /\ dma_list = {}
  /\ warned = {}

-----------------------------------------------------------------------------

(* Mutation of MapChannel: is_channel_valid is not asked in the search. *)
MapChannelAny(v) ==
  LET free == {h \in Hw : ~in_use[h]} IN IF free = {} THEN NULL ELSE Min(free)

(***************************************************************************)
(* s3c2410_dma_map_channel: the first free channel of the order list, then *)
(* the first free one the source is wired to.  (No DMA_CH_NEVER in this    *)
(* table, and every virtual channel is within the map.)                    *)
(***************************************************************************)
MapChannel(v) ==
  LET ordered == {i \in DOMAIN Order[v] : ~in_use[Order[v][i]]}
      wired == {h \in Wired[v] : ~in_use[h]}
  IN CASE ordered # {} -> Order[v][Min(ordered)]
       [] ordered = {} /\ wired # {} -> Min(wired)
       [] OTHER -> NULL

(* s3c_dma_lookup_channel of the number the driver of v holds. *)
Lookup(v) == IF LowLevel(v) THEN given[v] ELSE chan_map[v]

(***************************************************************************)
(* s3c2410_dma_free of channel h by the driver of v under the number it    *)
(* holds: stopped, not flushed; the map entry is cleared for a virtual     *)
(* number only.  A channel of another client is freed as well, with a      *)
(* warning.                                                                *)
(***************************************************************************)
FreeTable(h, v) ==
  /\ warned' = IF client[h] = v THEN warned ELSE warned \cup {h}
  /\ client' = [client EXCEPT ![h] = NULL]
  /\ in_use' = [in_use EXCEPT ![h] = FALSE]
  /\ claimed' = [claimed EXCEPT ![h] = FALSE]
  /\ run' = [run EXCEPT ![h] = FALSE]
  /\ chain' = [chain EXCEPT ![h] = IF @ = {} THEN {} ELSE {"left"}]
  /\ chan_map' = IF LowLevel(v) THEN chan_map ELSE [chan_map EXCEPT ![v] = NULL]
  /\ UNCHANGED req_ch

(* s3c2410_dma_free when the number resolves to h, or to nothing. *)
FreeNumber(h, v) ==
  \/ h # NULL /\ FreeTable(h, v)
  \/ h = NULL /\ UNCHANGED <<table, run, chain, warned>>

(* Mutation of Request: chan->in_use is set only after request_irq. *)
RequestLate(v) ==
  LET h == MapChannel(v) IN
  /\ driver[v] = "out"
  /\ h # NULL
  /\ client' = [client EXCEPT ![h] = v]
  /\ claimed' = [claimed EXCEPT ![h] = TRUE]
  /\ req_ch' = [req_ch EXCEPT ![h] = v]
  /\ chan_map' = [chan_map EXCEPT ![v] = h]
  /\ driver' = [driver EXCEPT ![v] = "irq"]
  /\ given' = [given EXCEPT ![v] = h]
  /\ UNCHANGED <<built, in_use, run, chain, xfer, dma_list, warned>>

(* s3c2410_dma_request up to request_irq, for which interrupts are let in. *)
Request(v) ==
  LET h == MapChannel(v) IN
  /\ driver[v] = "out"
  /\ h # NULL
  /\ client' = [client EXCEPT ![h] = v]
  /\ in_use' = [in_use EXCEPT ![h] = TRUE]
  /\ claimed' = [claimed EXCEPT ![h] = TRUE]
  /\ req_ch' = [req_ch EXCEPT ![h] = v]
  /\ chan_map' = [chan_map EXCEPT ![v] = h]
  /\ driver' = [driver EXCEPT ![v] = "irq"]
  /\ given' = [given EXCEPT ![v] = h]
  /\ UNCHANGED <<built, run, chain, xfer, dma_list, warned>>

(* Where a failed request leaves the driver: the SD host gives up, while    *)
(* s3c_dma_request goes on to free the number it asked for.                 *)
RequestFailed(v) ==
  driver' = [driver EXCEPT ![v] = IF LowLevel(v) THEN "out" ELSE "undo"]

(* s3c2410_dma_request returns -EBUSY. *)
RequestBusy(v) ==
  /\ driver[v] = "out"
  /\ MapChannel(v) = NULL
  /\ RequestFailed(v)
  /\ UNCHANGED <<built, table, run, chain, given, xfer, dma_list, warned>>

(* Mutation of RequestDone: the cb_data is not listed. *)
RequestDoneNoList(v) ==
  /\ driver[v] = "irq"
  /\ driver' = [driver EXCEPT ![v] = "held"]
  /\ UNCHANGED <<built, table, run, chain, given, xfer, dma_list, warned>>

(* request_irq succeeded; s3c_dma_request adds its cb_data. *)
RequestDone(v) ==
  /\ driver[v] = "irq"
  /\ driver' = [driver EXCEPT ![v] = "held"]
  /\ dma_list' = IF LowLevel(v) \/ dma_list = NULL THEN dma_list
                 ELSE dma_list \cup {v}
  /\ UNCHANGED <<built, table, run, chain, given, xfer, warned>>

(* request_irq failed: the channel is free again, while its client and the  *)
(* map entry stay; interrupts and other tasks are let in.                   *)
RequestIrqFailed(v) ==
  LET h == given[v] IN
  /\ driver[v] = "irq"
  /\ in_use' = [in_use EXCEPT ![h] = FALSE]
  /\ claimed' = [claimed EXCEPT ![h] = FALSE]
  /\ RequestFailed(v)
  /\ given' = [given EXCEPT ![v] = NULL]
  /\ UNCHANGED <<built, client, req_ch, chan_map, run, chain, xfer, dma_list, warned>>

(***************************************************************************)
(* s3c_dma_request after a failure: it frees what the number resolves to   *)
(* by then and returns 0, which the sound driver takes for its channel.    *)
(***************************************************************************)
RequestUndo(v) ==
  /\ driver[v] = "undo"
  /\ FreeNumber(chan_map[v], v)
  /\ driver' = [driver EXCEPT ![v] = "failed"]
  /\ UNCHANGED <<built, given, xfer, dma_list>>

(* The driver queues buffers and starts the channel (s3c2410_dma_enqueue). *)
Transfer(v) ==
  LET h == Lookup(v) IN
  /\ driver[v] = "held" /\ h # NULL /\ ~xfer[v]
  /\ run' = [run EXCEPT ![h] = TRUE]
  /\ chain' = [chain EXCEPT ![h] = @ \cup {"own"}]
  /\ xfer' = [xfer EXCEPT ![v] = TRUE]
  /\ UNCHANGED <<built, table, driver, given, dma_list, warned>>

(* The last transfer of the channel ends (s3c2410_dma_irq). *)
Complete(h) ==
  /\ run[h]
  /\ run' = [run EXCEPT ![h] = FALSE]
  /\ chain' = [chain EXCEPT ![h] = {}]
  /\ xfer' = [v \in Claims |-> xfer[v] /\ given[v] # h]
  /\ UNCHANGED <<built, table, driver, given, dma_list, warned>>

(* S3C2410_DMAOP_STOP *)
Stop(v) ==
  LET h == Lookup(v) IN
  /\ driver[v] = "held" /\ h # NULL /\ xfer[v]
  /\ run' = [run EXCEPT ![h] = FALSE]
  /\ xfer' = [xfer EXCEPT ![v] = FALSE]
  /\ UNCHANGED <<built, table, chain, driver, given, dma_list, warned>>

(* Mutation of StoppedByFlush: the stop is sent whatever the state. *)
StoppedByFlushAlways(h) == chan_map[h]

(* The channel s3c2410_dma_flush stops: chan->number is read as virtual. *)
StoppedByFlush(h) == IF run[h] THEN chan_map[h] ELSE NULL

(* S3C2410_DMAOP_FLUSH *)
Flush(v) ==
  LET h == Lookup(v)
      s == StoppedByFlush(h)
  IN
  /\ driver[v] = "held" /\ h # NULL
  /\ run[h] => v \in FlushRunning
  /\ run' = IF s = NULL THEN run ELSE [run EXCEPT ![s] = FALSE]
  /\ chain' = [chain EXCEPT ![h] = {}]
  /\ xfer' = [xfer EXCEPT ![v] = FALSE]
  /\ UNCHANGED <<built, table, driver, given, dma_list, warned>>

(* list_del of the entry the search of dma_list ended at: the list head    *)
(* itself if there is no entry for the channel.                            *)
Unlist(v) ==
  dma_list' = CASE LowLevel(v) \/ dma_list = NULL -> dma_list
                [] ~LowLevel(v) /\ dma_list # NULL /\ v \in dma_list -> dma_list \ {v}
                [] OTHER -> NULL

(* s3c_dma_release, or s3c2410_dma_free for the SD host. *)
Free(v) ==
  /\ driver[v] = "held"
  /\ Unlist(v)
  /\ FreeNumber(Lookup(v), v)
  /\ driver' = [driver EXCEPT ![v] = "out"]
  /\ given' = [given EXCEPT ![v] = NULL]
  /\ xfer' = [xfer EXCEPT ![v] = FALSE]
  /\ UNCHANGED built

(***************************************************************************)
(* dma_hw_free after a failed request, which dma_hw_params did not notice: *)
(* flush and release of number 0.  That is XD0, which nobody claims: it    *)
(* resolves to no channel and has no cb_data, so the list head itself is   *)
(* unlinked.  What the destroyed list does later is not modelled.          *)
(***************************************************************************)
ReleaseFailed(v) ==
  /\ driver[v] = "failed"
  /\ dma_list' = NULL
  /\ driver' = [driver EXCEPT ![v] = "out"]
  /\ UNCHANGED <<built, table, run, chain, given, xfer, warned>>

Next ==
  \/ \E v \in built :
       \/ Request(v) \/ RequestBusy(v) \/ RequestDone(v)
       \/ RequestIrqFailed(v) \/ RequestUndo(v)
       \/ Transfer(v) \/ Stop(v) \/ Flush(v) \/ Free(v) \/ ReleaseFailed(v)
  \/ \E h \in Hw : Complete(h)

Spec == Init /\ [][Next]_vars

-----------------------------------------------------------------------------

(***************************************************************************)
(* The list of s3c-dma-ops.c has an entry for exactly the virtual numbers  *)
(* held through it, so s3c_dma_release finds the one it unlinks, until a   *)
(* failed request is released and destroys the list.                       *)
(***************************************************************************)
ReleaseFindsEntry ==
  dma_list # NULL =>
    dma_list = {v \in Claims : driver[v] = "held" /\ ~LowLevel(v)}

(* Types of the channel table and of the drivers' state; a driver past the  *)
(* request has a channel.                                                   *)
TypeOK ==
  /\ built \in Configs
  /\ in_use \in [Hw -> BOOLEAN]
  /\ client \in [Hw -> Virt \cup {NULL}]
  /\ req_ch \in [Hw -> Virt \cup {NULL}]
  /\ claimed \in [Hw -> BOOLEAN]
  /\ chan_map \in [Virt -> Hw \cup {NULL}]
  /\ run \in [Hw -> BOOLEAN]
  /\ chain \in [Hw -> SUBSET {"own", "left"}]
  /\ driver \in [Claims -> {"out", "irq", "held", "undo", "failed"}]
  /\ given \in [Claims -> Hw \cup {NULL}]
  /\ \A v \in Claims : driver[v] \in {"irq", "held"} => given[v] \in Hw
  /\ xfer \in [Claims -> BOOLEAN]
  /\ dma_list \in (SUBSET Claims) \cup {NULL}
  /\ ReleaseFindsEntry
  /\ warned \subseteq Hw

(* The drivers the board's configuration builds. *)
OnBoard == built \subseteq {SDI, I2S_IN, I2S_OUT}

(* A failed request of another driver freed the channel, with a warning.   *)
(* It takes two drivers that can be given the same channel.                *)
Lost(h) == h \in warned /\ ~OnBoard

(***************************************************************************)
(* The number a driver holds keeps naming the channel its request got, and *)
(* that channel is its own, whatever other drivers request, fail to get,   *)
(* undo and free: it is held exclusively.  On the board that is so without *)
(* exception; elsewhere a channel is never lost without the warning.       *)
(***************************************************************************)
HeldExclusively ==
  \A v \in Claims : driver[v] = "held" =>
    /\ Lookup(v) = given[v]
    /\ \/ Lost(given[v])
       \/ /\ in_use[given[v]] /\ claimed[given[v]]
          /\ client[given[v]] = v
          /\ req_ch[given[v]] = v

(***************************************************************************)
(* The allocation connects a source to a channel it is wired to: always on *)
(* the board, and elsewhere for all sources but the two whose order list   *)
(* names a channel that they are not wired to.                             *)
(***************************************************************************)
SourceServed ==
  \A h \in Hw : in_use[h] =>
    \/ h \in Wired[req_ch[h]]
    \/ ~OnBoard /\ req_ch[h] \in {I2S_OUT, PCM_IN}

(* No driver's transfer is stopped by what another driver does, unless its  *)
(* channel was freed under it with a warning, off the board.                *)
NoForeignStop ==
  \A v \in Claims : driver[v] = "held" /\ xfer[v] =>
    run[given[v]] \/ Lost(given[v])

(***************************************************************************)
(* A channel is handed over without the previous client's buffers, as the  *)
(* comment at s3c2410_dma_free promises.  Free does not flush, so that the  *)
(* code leaves this to the driver and does not satisfy it.                 *)
(***************************************************************************)
ReadyForNext ==
  \A v \in Claims : driver[v] = "held" => "left" \notin chain[given[v]]
=============================================================================
