------------------------------- MODULE S3CMci -------------------------------
(***************************************************************************)
(* The SD host driver (drivers/mmc/host/s3cmci.c) moving data by PIO, as   *)
(* the board uses it.  The MMC core hands over one request at a time; a    *)
(* task sends it, the SDI interrupt counts what the hardware finished in   *)
(* complete_what, and pio_tasklet moves the data and ends the request.     *)
(*                                                                         *)
(* The tasklet's first statement disables the SDI interrupt line, so its   *)
(* body is one step; between the moment softirq starts it, which clears    *)
(* its scheduled bit, and that statement an interrupt can still be taken.  *)
(* A tasklet that is scheduled may be left to ksoftirqd, so a task can run *)
(* before it, though not in the middle of it.  Data is counted in units,   *)
(* of which the FIFO holds FifoSize.  SDIO interrupts and suspend are left *)
(* out.                                                                    *)
(***************************************************************************)
EXTENDS Naturals, FiniteSets, FiniteSetsExt

CONSTANTS
  FifoSize,   \* units in the FIFO
  MaxUnits,   \* limit: units of data in a request
  EarlyIrq    \* an interrupt may hit between the tasklet's start and disable_irq

ASSUME MciAssumption ==
  /\ FifoSize \in Nat \ {0, 1}
  /\ MaxUnits \in Nat \ {0}
  /\ EarlyIrq \in BOOLEAN

VARIABLES
  host,      \* the fields of struct s3cmci_host the request runs on
  hw,        \* the SDI registers, the FIFO and what is on the bus
  req,       \* the request: its error fields, how far the core and the card are
  tasklet    \* scheduled, started

mcivars == <<host, hw, req, tasklet>>

(***************************************************************************)
(* A request: a command with or without a response, with data or not; a    *)
(* request with data may have a stop command (data->stop), which has a     *)
(* response.                                                               *)
(***************************************************************************)
Request ==
  [data: {"none"}, rsp: BOOLEAN, stop: {FALSE}, units: {0}]
    \cup [data: {"read", "write"}, rsp: {TRUE}, stop: BOOLEAN, units: 1..MaxUnits]

Completion == {"NONE", "CMDSENT", "RSPFIN", "XFERFINISH", "XFERFINISH_RSPFIN", "FINALIZE"}

MciInit ==
  /\ host = [mrq |-> FALSE, cmd_is_stop |-> FALSE, complete_what |-> "NONE",
             pio_active |-> "none", left |-> 0, irq_on |-> FALSE]
  /\ hw = [imask |-> {}, csta |-> {}, dsta |-> {}, fifo |-> 0,
           cmd |-> "idle", data |-> "none", todo |-> 0]
  /\ \E r \in Request :
       req = [is |-> r, at |-> "none", error |-> {}, seen |-> {}, dones |-> 1]
  /\ tasklet = [sched |-> FALSE, begun |-> FALSE]

(* cmd->data of the command in progress: a stop command has none. *)
CmdHasData == req.is.data # "none" /\ ~host.cmd_is_stop

CmdWaitsRsp == req.is.rsp \/ host.cmd_is_stop

(* Which command an event belongs to. *)
ThisCmd == IF host.cmd_is_stop THEN "stop" ELSE "cmd"

-----------------------------------------------------------------------------

(***************************************************************************)
(* do_pio_write: fill the FIFO from the buffers; if room is left the       *)
(* buffers have ended, else wait for the FIFO to drain.                    *)
(***************************************************************************)
DoPioWrite(h, w) ==
  LET n == Min({h.left, FifoSize - w.fifo})
      more == w.fifo + n = FifoSize
  IN <<[h EXCEPT !.left = @ - n, !.pio_active = IF more THEN @ ELSE "none"],
       [w EXCEPT !.fifo = @ + n, !.imask = IF more THEN @ \cup {"tx"} ELSE @]>>

(***************************************************************************)
(* do_pio_read: empty the FIFO into the buffers; at their end the request  *)
(* is to be finalized, else wait for more.                                 *)
(***************************************************************************)
DoPioRead(h, w) ==
  LET n == Min({h.left, w.fifo})
      more == h.left > n
  IN <<[h EXCEPT !.left = @ - n,
                 !.pio_active = IF more THEN @ ELSE "none",
                 !.complete_what = IF more THEN @ ELSE "FINALIZE"],
       [w EXCEPT !.fifo = @ - n, !.imask = IF more THEN @ \cup {"rx"} ELSE @]>>

DoPio(h, w) ==
  CASE h.pio_active = "write" -> DoPioWrite(h, w)
    [] h.pio_active = "read" -> DoPioRead(h, w)
    [] OTHER -> <<h, w>>

(* s3cmci_send_request clears the status registers and resets the FIFO. *)
Cleared(w) == [w EXCEPT !.csta = {}, !.dsta = {}, !.fifo = 0]

(* s3cmci_setup_data and s3cmci_prepare_pio *)
SetupData(h, w, r) ==
  LET h1 == [h EXCEPT !.left = r.units, !.pio_active = r.data]
      w1 == [w EXCEPT !.imask = @ \cup {"data"}, !.data = r.data, !.todo = r.units]
  IN CASE r.data = "none" -> <<h, w>>
       [] r.data = "read" -> <<h1, [w1 EXCEPT !.imask = @ \cup {"rx"}]>>
       [] r.data = "write" ->
            LET hw1 == DoPioWrite(h1, w1)
            IN <<hw1[1], [hw1[2] EXCEPT !.imask = @ \cup {"tx"}]>>

(* s3cmci_send_command, then s3cmci_enable_irq(host, true) *)
SendCommand(h, w, hasData, waitsRsp) ==
  <<[h EXCEPT !.complete_what = CASE hasData -> "XFERFINISH_RSPFIN"
                                  [] ~hasData /\ waitsRsp -> "RSPFIN"
                                  [] OTHER -> "CMDSENT",
              !.irq_on = TRUE],
    [w EXCEPT !.imask = @ \cup {"cmd"}, !.cmd = "sending"]>>

-----------------------------------------------------------------------------

(***************************************************************************)
(* s3cmci_request up to the command: no medium, a set-up that fails (a     *)
(* block size PIO cannot do, a data line that does not stop), or the data  *)
(* side programmed.  The early returns complete the request and leave      *)
(* host->mrq and complete_what as they are.                                *)
(***************************************************************************)
RequestRefused(r) ==
  /\ ~tasklet.begun
  /\ req.at \in {"none", "done"}
  /\ host' = [host EXCEPT !.mrq = TRUE, !.cmd_is_stop = FALSE]
  /\ \E error \in {{"cmd"}, {"cmd", "data"}} :
       /\ IF error = {"cmd"} THEN hw' = hw                       \* no medium
          ELSE r.data # "none" /\ hw' = Cleared(hw)              \* s3cmci_setup_data
       /\ req' = [is |-> r, at |-> "done", error |-> error,
                  seen |-> {<<"cmd", "refused">>}, dones |-> 1]
  /\ UNCHANGED tasklet

RequestSetup(r) ==
  /\ ~tasklet.begun
  /\ req.at \in {"none", "done"}
  /\ LET s == SetupData([host EXCEPT !.mrq = TRUE, !.cmd_is_stop = FALSE], Cleared(hw), r)
     IN host' = s[1] /\ hw' = s[2]
  /\ req' = [is |-> r, at |-> "sending", error |-> {}, seen |-> {}, dones |-> 0]
  /\ UNCHANGED tasklet

RequestSend ==
  /\ ~tasklet.begun
  /\ req.at = "sending"
  /\ LET s == SendCommand(host, hw, CmdHasData, CmdWaitsRsp)
     IN host' = s[1] /\ hw' = s[2]
  /\ req' = [req EXCEPT !.at = "sent"]
  /\ UNCHANGED tasklet

-----------------------------------------------------------------------------

(* Sources of the SDI interrupt that are unmasked and active. *)
FifoHalfEmpty == 2 * hw.fifo <= FifoSize
FifoHalfOrLast == hw.fifo > 0 /\ (2 * hw.fifo >= FifoSize \/ hw.todo = 0)

Asserted ==
  \/ "cmd" \in hw.imask /\ hw.csta # {}
  \/ "data" \in hw.imask /\ hw.dsta # {}
  \/ "tx" \in hw.imask /\ FifoHalfEmpty
  \/ "rx" \in hw.imask /\ FifoHalfOrLast

IrqTaken ==
  /\ host.irq_on
  /\ Asserted
  /\ tasklet.begun => EarlyIrq

Working == host.complete_what \notin {"NONE", "FINALIZE"}

(* TFDET or RFDET with PIO in that direction: the tasklet has work. *)
PioDue ==
  \/ host.pio_active = "write" /\ hw.fifo < FifoSize
  \/ host.pio_active = "read" /\ hw.fifo > 0

(* Mutation of RspSeen: the response is waited for again. *)
RspSeenBoth(what) == IF what = "XFERFINISH_RSPFIN" /\ "rsp" \in hw.csta THEN "RSPFIN" ELSE what

(* complete_what after the response bit was looked at. *)
RspSeen(what) == IF what = "XFERFINISH_RSPFIN" /\ "rsp" \in hw.csta THEN "XFERFINISH" ELSE what

(* complete_what after the data finished bit was looked at. *)
FinSeen(what) == IF what = "XFERFINISH_RSPFIN" /\ "fin" \in hw.dsta THEN "RSPFIN" ELSE what

(* Mutation of CmdCloses: the response ends a request with data, too. *)
CmdClosesEarly ==
  \/ host.complete_what = "CMDSENT" /\ "sent" \in hw.csta
  \/ host.complete_what \in {"RSPFIN", "XFERFINISH_RSPFIN"} /\ "rsp" \in hw.csta

CmdCloses ==
  \/ host.complete_what = "CMDSENT" /\ "sent" \in hw.csta
  \/ host.complete_what = "RSPFIN" /\ "rsp" \in hw.csta

DataCloses ==
  CmdHasData /\ RspSeen(host.complete_what) = "XFERFINISH" /\ "fin" \in hw.dsta

DataFails == CmdHasData /\ "err" \in hw.dsta

(* s3cmci_irq with nothing to complete *)
IrqNothing ==
  /\ IrqTaken
  /\ ~Working
  /\ hw' = [hw EXCEPT !.imask = {}]
  /\ req' = [req EXCEPT !.seen = IF req.at = "sending" THEN @ \cup {<<"cmd", "cut">>} ELSE @]
  /\ UNCHANGED <<host, tasklet>>

(* ... with a command timeout, or a FIFO, CRC or timeout error of the data *)
IrqFail ==
  /\ IrqTaken
  /\ Working
  /\ \/ "timeout" \in hw.csta /\ req' = [req EXCEPT !.error = @ \cup {ThisCmd}]
     \/ "timeout" \notin hw.csta /\ ~CmdCloses /\ DataFails
        /\ req' = [req EXCEPT !.error = @ \cup {"data"}]
  /\ host' = [host EXCEPT !.complete_what = "FINALIZE", !.pio_active = "none"]
  /\ hw' = [hw EXCEPT !.imask = {}]
  /\ tasklet' = [tasklet EXCEPT !.sched = TRUE]

(* ... with the last thing complete_what waits for *)
IrqClose ==
  /\ IrqTaken
  /\ Working
  /\ "timeout" \notin hw.csta
  /\ CmdCloses \/ (~DataFails /\ DataCloses)
  /\ host' = [host EXCEPT !.complete_what = "FINALIZE"]
  /\ hw' = [hw EXCEPT !.imask = {}]
  /\ tasklet' = [tasklet EXCEPT !.sched = TRUE]
  /\ UNCHANGED req

(* ... with something less: count it, clear its bits, call the tasklet for PIO *)
IrqProgress ==
  /\ IrqTaken
  /\ Working
  /\ "timeout" \notin hw.csta
  /\ ~CmdCloses /\ ~DataFails /\ ~DataCloses
  /\ host' = [host EXCEPT !.complete_what =
                IF CmdHasData THEN FinSeen(RspSeen(@)) ELSE RspSeen(@)]
  /\ hw' = [hw EXCEPT !.csta = {},
                      !.dsta = IF CmdHasData THEN @ \ {"fin"} ELSE @,
                      !.imask = IF PioDue THEN @ \ {"tx", "rx"} ELSE @]
  /\ tasklet' = [tasklet EXCEPT !.sched = @ \/ PioDue]
  /\ UNCHANGED req

Irq == IrqNothing \/ IrqFail \/ IrqClose \/ IrqProgress

-----------------------------------------------------------------------------

(* The softirq clears the scheduled bit and calls pio_tasklet ... *)
TaskletBegin ==
  /\ tasklet.sched /\ ~tasklet.begun
  /\ tasklet' = [sched |-> FALSE, begun |-> TRUE]
  /\ UNCHANGED <<host, hw, req>>

AfterPio == DoPio(host, hw)

(* ... which moves data and waits for more, with the interrupt enabled *)
TaskletWait ==
  /\ tasklet.begun
  /\ AfterPio[1].complete_what # "FINALIZE"
  /\ host' = [AfterPio[1] EXCEPT !.irq_on = TRUE]
  /\ hw' = AfterPio[2]
  /\ tasklet' = [tasklet EXCEPT !.begun = FALSE]
  /\ UNCHANGED req

(* The errors finalize_request finds and adds. *)
FinalErrors ==
  req.error
    \cup (IF AfterPio[1].pio_active # "none" /\ req.is.data # "none" THEN {"data"} ELSE {})
    \cup (IF CmdHasData /\ "cmd" \in req.error THEN {"data"} ELSE {})

(* SDICMDCON and SDIDCON are cleared, the interrupt masks too. *)
CleanedUp(w) == [w EXCEPT !.imask = {}, !.cmd = "idle", !.data = "none"]

SendsStop == req.is.stop /\ ~host.cmd_is_stop

(* ... or finalizes the command and sends the stop command *)
TaskletStop ==
  /\ tasklet.begun
  /\ AfterPio[1].complete_what = "FINALIZE"
  /\ SendsStop
  /\ LET s == SendCommand([AfterPio[1] EXCEPT !.cmd_is_stop = TRUE],
                          Cleared(CleanedUp(AfterPio[2])), FALSE, TRUE)
     IN host' = s[1] /\ hw' = s[2]
  /\ req' = [req EXCEPT !.error = FinalErrors]
  /\ tasklet' = [tasklet EXCEPT !.begun = FALSE]

(* Mutation of TaskletDone: complete_what is not reset. *)
TaskletDoneKeepsWhat ==
  /\ tasklet.begun
  /\ AfterPio[1].complete_what = "FINALIZE"
  /\ ~SendsStop
  /\ host' = [AfterPio[1] EXCEPT !.mrq = FALSE, !.irq_on = FALSE]
  /\ hw' = [CleanedUp(AfterPio[2]) EXCEPT !.fifo = IF "data" \in FinalErrors THEN 0 ELSE @]
  /\ req' = [req EXCEPT !.error = FinalErrors, !.at = "done", !.dones = @ + 1]
  /\ tasklet' = [tasklet EXCEPT !.begun = FALSE]

(* ... or finalizes the request and completes it *)
TaskletDone ==
  /\ tasklet.begun
  /\ AfterPio[1].complete_what = "FINALIZE"
  /\ ~SendsStop
  /\ host' = [AfterPio[1] EXCEPT !.complete_what = "NONE", !.mrq = FALSE, !.irq_on = FALSE]
  /\ hw' = [CleanedUp(AfterPio[2]) EXCEPT !.fifo = IF "data" \in FinalErrors THEN 0 ELSE @]
  /\ req' = [req EXCEPT !.error = FinalErrors, !.at = "done", !.dones = @ + 1]
  /\ tasklet' = [tasklet EXCEPT !.begun = FALSE]

-----------------------------------------------------------------------------

(* The controller and the card: the command is on the wire, then answered. *)
HwSent ==
  /\ hw.cmd = "sending"
  /\ hw' = [hw EXCEPT !.csta = @ \cup {"sent"}, !.cmd = IF CmdWaitsRsp THEN "waiting" ELSE "idle"]
  /\ req' = [req EXCEPT !.seen = @ \cup {<<ThisCmd, "sent">>}]
  /\ UNCHANGED <<host, tasklet>>

HwRsp ==
  /\ hw.cmd = "waiting"
  /\ \E bit \in {"rsp", "timeout"} :
       /\ hw' = [hw EXCEPT !.csta = @ \cup {bit}, !.cmd = "idle"]
       /\ req' = [req EXCEPT !.seen = @ \cup {<<ThisCmd, bit>>}]
  /\ UNCHANGED <<host, tasklet>>

(* RXAFTERCMD: data may come before the response; TXAFTERRESP: only after it *)
DataFlows ==
  \/ hw.data = "read" /\ <<"cmd", "sent">> \in req.seen
  \/ hw.data = "write" /\ <<"cmd", "rsp">> \in req.seen

(* A unit passes between the bus and the FIFO. *)
HwMove ==
  /\ DataFlows
  /\ hw.todo > 0
  /\ \/ hw.data = "read" /\ hw.fifo < FifoSize /\ hw' = [hw EXCEPT !.todo = @ - 1, !.fifo = @ + 1]
     \/ hw.data = "write" /\ hw.fifo > 0 /\ hw' = [hw EXCEPT !.todo = @ - 1, !.fifo = @ - 1]
  /\ UNCHANGED <<host, req, tasklet>>

(* After the last unit comes its check: finished, or failed, as at any time before. *)
HwData ==
  /\ hw.data # "none" /\ <<"cmd", "sent">> \in req.seen
  /\ \E bit \in {"fin", "err"} :
       /\ bit = "fin" => DataFlows /\ hw.todo = 0
       /\ hw' = [hw EXCEPT !.dsta = @ \cup {bit}, !.data = "none"]
       /\ req' = [req EXCEPT !.seen = @ \cup {<<"data", bit>>}]
  /\ UNCHANGED <<host, tasklet>>

MciNext ==
  \/ \E r \in Request : RequestRefused(r) \/ RequestSetup(r)
  \/ RequestSend
  \/ IrqNothing \/ IrqFail \/ IrqClose \/ IrqProgress
  \/ TaskletBegin \/ TaskletWait \/ TaskletStop \/ TaskletDone
  \/ HwSent \/ HwRsp \/ HwMove \/ HwData

MciSpec == MciInit /\ [][MciNext]_mcivars

(* The task goes on, interrupts are taken, softirqs run, and the bus moves *)
(* on or times out (SDITIMER and the command timeout).                     *)
FairMciSpec ==
  /\ MciSpec
  /\ WF_mcivars(RequestSend)
  /\ WF_mcivars(Irq)
  /\ WF_mcivars(TaskletBegin \/ TaskletWait \/ TaskletStop \/ TaskletDone)
  /\ WF_mcivars(HwSent \/ HwRsp)
  /\ WF_mcivars(HwMove \/ HwData)

-----------------------------------------------------------------------------

(* Types of the driver, the hardware and the request. *)
MciTypeOK ==
  /\ host \in [mrq: BOOLEAN, cmd_is_stop: BOOLEAN, complete_what: Completion,
               pio_active: {"none", "read", "write"}, left: 0..MaxUnits, irq_on: BOOLEAN]
  /\ hw \in [imask: SUBSET {"cmd", "data", "tx", "rx"}, csta: SUBSET {"sent", "rsp", "timeout"},
             dsta: SUBSET {"fin", "err"}, fifo: 0..FifoSize,
             cmd: {"idle", "sending", "waiting"}, data: {"none", "read", "write"}, todo: 0..MaxUnits]
  /\ req.is \in Request /\ req.at \in {"none", "done", "sending", "sent"}
  /\ req.error \subseteq {"cmd", "stop", "data"} /\ req.dones \in 0..1
  /\ tasklet \in [sched: BOOLEAN, begun: BOOLEAN]

(***************************************************************************)
(* What complete_what waits for, or leaves to the tasklet, belongs to a    *)
(* request the core still waits for: no interrupt and no late tasklet acts *)
(* on a request that mmc_request_done was called for.                      *)
(***************************************************************************)
OwnRequest == host.complete_what # "NONE" => host.mrq /\ req.dones = 0

(* The driver's state is well formed and is about a live request. *)
MciInv == MciTypeOK /\ OwnRequest

Succeeded == req.at = "done" /\ "cmd" \notin req.error /\ "data" \notin req.error

(***************************************************************************)
(* A request that succeeds was really carried out, whichever of response   *)
(* and data finished first: a command was sent and answered, a write has   *)
(* left the FIFO and was accepted, a read filled its buffers, and the stop *)
(* command was answered or its error recorded.                             *)
(***************************************************************************)
SuccessExact ==
  Succeeded =>
    /\ req.is.data = "none" => <<"cmd", IF req.is.rsp THEN "rsp" ELSE "sent">> \in req.seen
    /\ req.is.data = "write" => {<<"cmd", "rsp">>, <<"data", "fin">>} \subseteq req.seen
    /\ req.is.data = "read" => host.left = 0
    /\ req.is.stop => <<"stop", "rsp">> \in req.seen \/ "stop" \in req.error

(***************************************************************************)
(* A request that fails met a fault of the card or was refused: PIO is     *)
(* never found unfinished at the end of a good transfer.  And a fault is   *)
(* reported, except on a read whose buffers were filled before it.         *)
(***************************************************************************)
FaultsExact ==
  /\ "data" \in req.error =>
       {<<"cmd", "timeout">>, <<"data", "err">>, <<"cmd", "refused">>} \cap req.seen # {}
  /\ "stop" \in req.error => <<"stop", "timeout">> \in req.seen
  /\ req.at = "done" /\ {<<"cmd", "timeout">>, <<"data", "err">>} \cap req.seen # {}
       => ~Succeeded \/ (req.is.data = "read" /\ host.left = 0)

(* The result of a request tells what happened on the bus. *)
ResultExact == SuccessExact /\ FaultsExact

(***************************************************************************)
(* A fault of the card is always reported, as COMPLETION_XFERFINISH_RSPFIN *)
(* waits for response and data both.                                       *)
(***************************************************************************)
NoSilentFault ==
  Succeeded => {<<"cmd", "timeout">>, <<"data", "err">>} \cap req.seen = {}

(***************************************************************************)
(* Every request is completed, however its interrupts and the tasklet      *)
(* interleave, unless an interrupt found nothing to complete while the     *)
(* request was being sent and cleared the mask it had set up.              *)
(***************************************************************************)
RequestCompletes ==
  (req.dones = 0) ~> (req.dones = 1 \/ <<"cmd", "cut">> \in req.seen)

(* The interrupt is disabled while there is no request and no tasklet. *)
IrqOffInIdle ==
  req.at \in {"none", "done"} /\ tasklet = [sched |-> FALSE, begun |-> FALSE] => ~host.irq_on

=============================================================================
