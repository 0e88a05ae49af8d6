---------------------------- MODULE S3CMciProofs ----------------------------
(***************************************************************************)
(* Proofs about the SD host, for any FIFO, any amount of data and either   *)
(* answer to the question of an interrupt in the tasklet's first           *)
(* instructions.                                                           *)
(***************************************************************************)
EXTENDS S3CMci, TLAPS

Event == {"cmd", "stop", "data"} \X {"sent", "rsp", "timeout", "fin", "err", "refused", "cut"}

RequestRec ==
  [is: Request, at: {"none", "done", "sending", "sent"}, error: SUBSET {"cmd", "stop", "data"},
   seen: SUBSET Event, dones: 0..1]

(* The types of MciTypeOK, with the request as one record. *)
Typed == MciTypeOK /\ req \in RequestRec

(* complete_what is set exactly while the command is out. *)
Staged ==
  /\ req.dones = 1 <=> req.at \in {"none", "done"}
  /\ host.complete_what # "NONE" <=> req.at = "sent"
  /\ req.at \in {"sending", "sent"} => host.mrq
  /\ host.cmd_is_stop /\ req.at = "sent" => req.is.stop
  /\ req.at = "sending" => ~host.cmd_is_stop

(***************************************************************************)
(* PIO conserves the data: of a read, what the buffers still miss is in    *)
(* the FIFO or to come; of a write, what is to leave is in the FIFO or the *)
(* buffers.  A transfer that finished has nothing left to move, and only   *)
(* such a one is finalized while PIO is on.                                *)
(***************************************************************************)
PioConserved ==
  /\ host.pio_active # "none" =>
       /\ req.at \in {"sending", "sent"} /\ ~host.cmd_is_stop
       /\ req.is.data = host.pio_active
  /\ host.pio_active = "read" => host.left = hw.fifo + hw.todo
  /\ host.pio_active = "write" => hw.todo = hw.fifo + host.left
  /\ req.at = "sending" /\ req.is.data = "read" => host.pio_active = "read" /\ hw.todo > 0
  /\ "fin" \in hw.dsta \/ <<"data", "fin">> \in req.seen => hw.todo = 0
  /\ host.complete_what = "FINALIZE" /\ host.pio_active # "none" => hw.todo = 0

(* The bus is used by the request, and each of its phases ends once. *)
BusOwned ==
  /\ req.at # "sent" => hw.cmd = "idle"
  /\ hw.data # "none" =>
       /\ req.at \in {"sending", "sent"} /\ ~host.cmd_is_stop
       /\ hw.data = req.is.data
       /\ <<"data", "fin">> \notin req.seen /\ <<"data", "err">> \notin req.seen
  /\ hw.cmd # "idle" /\ ~host.cmd_is_stop =>
       <<"cmd", "rsp">> \notin req.seen /\ <<"cmd", "timeout">> \notin req.seen
  /\ hw.cmd = "waiting" => CmdWaitsRsp
  /\ req.at = "sending" => req.seen \subseteq {<<"cmd", "cut">>} /\ hw.csta = {} /\ hw.dsta = {}
  /\ ~({<<"cmd", "rsp">>, <<"cmd", "timeout">>} \subseteq req.seen)
  /\ ~({<<"data", "fin">>, <<"data", "err">>} \subseteq req.seen)
  /\ ~req.is.rsp => <<"cmd", "timeout">> \notin req.seen
  /\ req.is.data = "none" => <<"data", "err">> \notin req.seen

(* A status bit, and what complete_what no longer waits for, were events. *)
BitsSeen ==
  /\ req.at = "sent" => \A bit \in hw.csta : <<ThisCmd, bit>> \in req.seen
  /\ req.at = "sent" => \A bit \in hw.dsta : <<"data", bit>> \in req.seen
  /\ host.complete_what = "CMDSENT" => ~CmdHasData /\ ~CmdWaitsRsp
  /\ host.complete_what = "RSPFIN" /\ ~CmdHasData => CmdWaitsRsp
  /\ host.complete_what = "RSPFIN" /\ CmdHasData => <<"data", "fin">> \in req.seen
  /\ host.complete_what \in {"XFERFINISH", "XFERFINISH_RSPFIN"} => CmdHasData
  /\ host.complete_what = "XFERFINISH" => <<"cmd", "rsp">> \in req.seen

(* The command and its data are over: finalized, or the stop command is out. *)
MainOver == req.at = "sent" /\ (host.complete_what = "FINALIZE" \/ host.cmd_is_stop)

NoMainError == "cmd" \notin req.error /\ "data" \notin req.error

(* What SuccessExact says of a request, while it is still being ended. *)
OutcomeSeen ==
  /\ MainOver /\ NoMainError =>
       /\ req.is.data = "none" => <<"cmd", IF req.is.rsp THEN "rsp" ELSE "sent">> \in req.seen
       /\ req.is.data = "write" => {<<"cmd", "rsp">>, <<"data", "fin">>} \subseteq req.seen
  /\ req.at = "sent" /\ req.is.data = "read" /\ host.pio_active = "none" /\ NoMainError =>
       host.left = 0
  /\ host.complete_what = "FINALIZE" /\ host.cmd_is_stop =>
       <<"stop", "rsp">> \in req.seen \/ "stop" \in req.error

(* An error has its cause. *)
ErrorCaused ==
  /\ "data" \in req.error =>
       {<<"cmd", "timeout">>, <<"data", "err">>, <<"cmd", "refused">>} \cap req.seen # {}
  /\ "cmd" \in req.error => <<"cmd", "timeout">> \in req.seen \/ <<"cmd", "refused">> \in req.seen
  /\ "stop" \in req.error => <<"stop", "timeout">> \in req.seen

MciGood ==
  /\ Typed /\ Staged /\ PioConserved /\ BusOwned
  /\ BitsSeen /\ OutcomeSeen /\ ErrorCaused /\ SuccessExact

-----------------------------------------------------------------------------
(* Facts about the operators. *)

HostRec ==
  [mrq: BOOLEAN, cmd_is_stop: BOOLEAN, complete_what: Completion,
   pio_active: {"none", "read", "write"}, left: 0..MaxUnits, irq_on: BOOLEAN]

HwRec ==
  [imask: SUBSET {"cmd", "data", "tx", "rx"}, csta: SUBSET {"sent", "rsp", "timeout"},
   dsta: SUBSET {"fin", "err"}, fifo: 0..FifoSize,
   cmd: {"idle", "sending", "waiting"}, data: {"none", "read", "write"}, todo: 0..MaxUnits]

(* The records MciTypeOK speaks of. *)
LEMMA TypedRecords ==
  Typed <=> /\ host \in HostRec /\ hw \in HwRec /\ req \in RequestRec
            /\ tasklet \in [sched: BOOLEAN, begun: BOOLEAN]
BY DEF Typed, MciTypeOK, HostRec, HwRec, RequestRec

(* The smaller of two amounts. *)
LEMMA MinOfTwo ==
  ASSUME NEW a \in Nat, NEW b \in Nat
  PROVE  Min({a, b}) = IF a <= b THEN a ELSE b
<1>1. CASE a <= b
  <2>1. a \in {a, b} /\ \A y \in {a, b} : a <= y
    BY <1>1
  <2>2. \A x \in {a, b} : (\A y \in {a, b} : x <= y) => x = a
    BY <1>1
  <2>3. QED
    BY <2>1, <2>2, <1>1 DEF Min
<1>2. CASE ~(a <= b)
  <2>1. b \in {a, b} /\ \A y \in {a, b} : b <= y
    BY <1>2
  <2>2. \A x \in {a, b} : (\A y \in {a, b} : x <= y) => x = b
    BY <1>2
  <2>3. QED
    BY <2>1, <2>2, <1>2 DEF Min
<1>3. QED
  BY <1>1, <1>2

(***************************************************************************)
(* do_pio_write moves what there is and the FIFO takes: the sum of both    *)
(* stays, and it goes on exactly if the FIFO is full.                      *)
(***************************************************************************)
LEMMA PioWriteMoves ==
  ASSUME NEW h \in HostRec, NEW w \in HwRec
  PROVE  LET r == DoPioWrite(h, w)
         IN /\ r[1] \in HostRec /\ r[2] \in HwRec
            /\ r[1].left + r[2].fifo = h.left + w.fifo
            /\ r[1].pio_active = IF r[2].fifo = FifoSize THEN h.pio_active ELSE "none"
            /\ r[2].fifo < FifoSize => r[1].left = 0
            /\ r[1].mrq = h.mrq /\ r[1].cmd_is_stop = h.cmd_is_stop
            /\ r[1].complete_what = h.complete_what /\ r[1].irq_on = h.irq_on
            /\ r[2].csta = w.csta /\ r[2].dsta = w.dsta /\ r[2].cmd = w.cmd
            /\ r[2].data = w.data /\ r[2].todo = w.todo
<1> DEFINE n == Min({h.left, FifoSize - w.fifo})
<1>1. n = IF h.left <= FifoSize - w.fifo THEN h.left ELSE FifoSize - w.fifo
  <2>1. h.left \in Nat /\ FifoSize - w.fifo \in Nat
    BY MciAssumption DEF HostRec, HwRec
  <2>2. QED
    BY <2>1, MinOfTwo
<1>2. /\ DoPioWrite(h, w)[1] = [h EXCEPT !.left = @ - n,
                                         !.pio_active = IF w.fifo + n = FifoSize THEN @ ELSE "none"]
      /\ DoPioWrite(h, w)[2] = [w EXCEPT !.fifo = @ + n,
                                         !.imask = IF w.fifo + n = FifoSize THEN @ \cup {"tx"} ELSE @]
  BY DEF DoPioWrite
<1> HIDE DEF n
<1>3. n \in Nat /\ n <= h.left /\ n <= FifoSize - w.fifo
  BY <1>1, MciAssumption DEF HostRec, HwRec
<1>4. DoPioWrite(h, w)[1] \in HostRec
  <2>1. h.left - n \in 0..MaxUnits
    BY <1>3, MciAssumption DEF HostRec
  <2>2. (IF w.fifo + n = FifoSize THEN h.pio_active ELSE "none") \in {"none", "read", "write"}
    BY DEF HostRec
  <2>3. QED
    BY <1>2, <2>1, <2>2 DEF HostRec
<1>5. DoPioWrite(h, w)[2] \in HwRec
  <2>1. w.fifo + n \in 0..FifoSize
    BY <1>3, MciAssumption DEF HwRec
  <2>2. (IF w.fifo + n = FifoSize THEN w.imask \cup {"tx"} ELSE w.imask)
          \in SUBSET {"cmd", "data", "tx", "rx"}
    BY DEF HwRec
  <2>3. QED
    BY <1>2, <2>1, <2>2 DEF HwRec
<1>6. QED
  BY <1>1, <1>2, <1>4, <1>5, MciAssumption DEF HostRec, HwRec

(***************************************************************************)
(* do_pio_read: what the buffers miss shrinks by what leaves the FIFO, and *)
(* it ends, asking for the request to be finalized, exactly if they miss   *)
(* nothing more.                                                           *)
(***************************************************************************)
LEMMA PioReadMoves ==
  ASSUME NEW h \in HostRec, NEW w \in HwRec
  PROVE  LET r == DoPioRead(h, w)
         IN /\ r[1] \in HostRec /\ r[2] \in HwRec
            /\ h.left - r[1].left = w.fifo - r[2].fifo
            /\ r[1].left = 0 \/ r[2].fifo = 0
            /\ r[1].pio_active = IF r[1].left = 0 THEN "none" ELSE h.pio_active
            /\ r[1].complete_what = IF r[1].left = 0 THEN "FINALIZE" ELSE h.complete_what
            /\ r[1].mrq = h.mrq /\ r[1].cmd_is_stop = h.cmd_is_stop /\ r[1].irq_on = h.irq_on
            /\ r[2].csta = w.csta /\ r[2].dsta = w.dsta /\ r[2].cmd = w.cmd
            /\ r[2].data = w.data /\ r[2].todo = w.todo
<1> DEFINE n == Min({h.left, w.fifo})
<1>1. n = IF h.left <= w.fifo THEN h.left ELSE w.fifo
  <2>1. h.left \in Nat /\ w.fifo \in Nat
    BY MciAssumption DEF HostRec, HwRec
  <2>2. QED
    BY <2>1, MinOfTwo
<1>2. /\ DoPioRead(h, w)[1] = [h EXCEPT !.left = @ - n,
                                        !.pio_active = IF h.left > n THEN @ ELSE "none",
                                        !.complete_what = IF h.left > n THEN @ ELSE "FINALIZE"]
      /\ DoPioRead(h, w)[2] = [w EXCEPT !.fifo = @ - n,
                                        !.imask = IF h.left > n THEN @ \cup {"rx"} ELSE @]
  BY DEF DoPioRead
<1> HIDE DEF n
<1>3. n \in Nat /\ n <= h.left /\ n <= w.fifo
  BY <1>1, MciAssumption DEF HostRec, HwRec
<1>4. DoPioRead(h, w)[1] \in HostRec
  <2>1. h.left - n \in 0..MaxUnits
    BY <1>3, MciAssumption DEF HostRec
  <2>2. /\ (IF h.left > n THEN h.pio_active ELSE "none") \in {"none", "read", "write"}
        /\ (IF h.left > n THEN h.complete_what ELSE "FINALIZE") \in Completion
    BY DEF HostRec, Completion
  <2>3. QED
    BY <1>2, <2>1, <2>2 DEF HostRec
<1>5. DoPioRead(h, w)[2] \in HwRec
  <2>1. w.fifo - n \in 0..FifoSize
    BY <1>3, MciAssumption DEF HwRec
  <2>2. (IF h.left > n THEN w.imask \cup {"rx"} ELSE w.imask)
          \in SUBSET {"cmd", "data", "tx", "rx"}
    BY DEF HwRec
  <2>3. QED
    BY <1>2, <2>1, <2>2 DEF HwRec
<1>6. QED
  BY <1>1, <1>2, <1>4, <1>5 DEF HostRec, HwRec

-----------------------------------------------------------------------------
(* Every step keeps the invariant. *)

(* The host has sent the command: only command bits change. *)
LEMMA HwSentGood ==
  ASSUME MciGood, HwSent
  PROVE  MciGood'
<1> USE DEF CmdHasData, CmdWaitsRsp, ThisCmd
<1>1. /\ host \in HostRec /\ hw \in HwRec /\ req \in RequestRec
      /\ tasklet \in [sched: BOOLEAN, begun: BOOLEAN]
  BY TypedRecords DEF MciGood
<1>2. Typed'
  <2>1. host' \in HostRec
    BY <1>1 DEF HwSent, HostRec, Completion, RspSeen, FinSeen
  <2>2. hw' \in HwRec
    BY <1>1, MciAssumption DEF HwSent, HwRec
  <2>3. req' \in RequestRec
    BY <1>1 DEF HwSent, RequestRec, Event
  <2>4. tasklet' \in [sched: BOOLEAN, begun: BOOLEAN]
    BY <1>1 DEF HwSent
  <2>5. QED
    BY <2>1, <2>2, <2>3, <2>4 DEF Typed, MciTypeOK, HostRec, HwRec, RequestRec
<1>3. Staged'
  BY DEF MciGood, Staged, HwSent
<1>4. PioConserved'
  BY <1>1, MciAssumption
     DEF MciGood, Staged, PioConserved, BusOwned, BitsSeen, OutcomeSeen, ErrorCaused, SuccessExact,
         MainOver, HwSent
<1>5. BusOwned'
  BY DEF MciGood, BusOwned, HwSent
<1>6. BitsSeen'
  BY DEF MciGood, BitsSeen, HwSent
<1>7. OutcomeSeen'
  BY DEF MciGood, OutcomeSeen, MainOver, NoMainError, HwSent
<1>8. ErrorCaused'
  BY DEF MciGood, ErrorCaused, HwSent
<1>9. SuccessExact'
  BY DEF MciGood, SuccessExact, Succeeded, HwSent
<1>10. QED
  BY <1>2, <1>3, <1>4, <1>5, <1>6, <1>7, <1>8, <1>9 DEF MciGood

(* The response arrives or times out. *)
LEMMA HwRspGood ==
  ASSUME MciGood, HwRsp
  PROVE  MciGood'
<1> USE DEF CmdHasData, CmdWaitsRsp, ThisCmd
<1>1. /\ host \in HostRec /\ hw \in HwRec /\ req \in RequestRec
      /\ tasklet \in [sched: BOOLEAN, begun: BOOLEAN]
  BY TypedRecords DEF MciGood
<1>2. Typed'
  <2>1. host' \in HostRec
    BY <1>1 DEF HwRsp, HostRec, Completion, RspSeen, FinSeen
  <2>2. hw' \in HwRec
    <3>1. PICK bit \in {"rsp", "timeout"} : hw' = [hw EXCEPT !.csta = @ \cup {bit}, !.cmd = "idle"]
      BY DEF HwRsp
    <3>2. hw.csta \cup {bit} \in SUBSET {"sent", "rsp", "timeout"}
      BY <1>1 DEF HwRec
    <3>3. QED
      BY <1>1, <3>1, <3>2 DEF HwRec
  <2>3. req' \in RequestRec
    BY <1>1 DEF HwRsp, RequestRec, Event
  <2>4. tasklet' \in [sched: BOOLEAN, begun: BOOLEAN]
    BY <1>1 DEF HwRsp
  <2>5. QED
    BY <2>1, <2>2, <2>3, <2>4 DEF Typed, MciTypeOK, HostRec, HwRec, RequestRec
<1>3. Staged'
  BY DEF MciGood, Staged, HwRsp
<1>4. PioConserved'
  BY DEF MciGood, PioConserved, HwRsp
<1>5. BusOwned'
  BY DEF MciGood, BusOwned, HwRsp
<1>6. BitsSeen'
  BY DEF MciGood, BitsSeen, HwRsp
<1>7. OutcomeSeen'
  BY DEF MciGood, OutcomeSeen, MainOver, NoMainError, HwRsp
<1>8. ErrorCaused'
  BY DEF MciGood, ErrorCaused, HwRsp
<1>9. SuccessExact'
  BY DEF MciGood, SuccessExact, Succeeded, HwRsp
<1>10. QED
  BY <1>2, <1>3, <1>4, <1>5, <1>6, <1>7, <1>8, <1>9 DEF MciGood

(* A unit passes between the bus and the FIFO. *)
LEMMA HwMoveGood ==
  ASSUME MciGood, HwMove
  PROVE  MciGood'
<1> USE DEF CmdHasData, CmdWaitsRsp, ThisCmd
<1>1. /\ host \in HostRec /\ hw \in HwRec /\ req \in RequestRec
      /\ tasklet \in [sched: BOOLEAN, begun: BOOLEAN]
  BY TypedRecords DEF MciGood
<1>2. /\ host' = host /\ req' = req /\ tasklet' = tasklet
      /\ hw.todo > 0
  BY DEF HwMove
<1>3. PICK f \in 0..FifoSize :
        /\ hw' = [hw EXCEPT !.todo = @ - 1, !.fifo = f]
        /\ \/ hw.data = "read" /\ f = hw.fifo + 1
           \/ hw.data = "write" /\ f = hw.fifo - 1
  <2>1. CASE hw.data = "read"
    <3>1. hw' = [hw EXCEPT !.todo = @ - 1, !.fifo = hw.fifo + 1] /\ hw.fifo < FifoSize
      BY <2>1 DEF HwMove
    <3>2. hw.fifo + 1 \in 0..FifoSize
      BY <1>1, <3>1, MciAssumption DEF HwRec
    <3>3. QED
      BY <2>1, <3>1, <3>2
  <2>2. CASE hw.data = "write"
    <3>1. hw' = [hw EXCEPT !.todo = @ - 1, !.fifo = hw.fifo - 1] /\ hw.fifo > 0
      BY <2>2 DEF HwMove
    <3>2. hw.fifo - 1 \in 0..FifoSize
      BY <1>1, <3>1, MciAssumption DEF HwRec
    <3>3. QED
      BY <2>2, <3>1, <3>2
  <2>3. QED
    BY <2>1, <2>2 DEF HwMove
<1>4. hw' \in HwRec
  <2>1. hw.todo - 1 \in 0..MaxUnits
    BY <1>1, <1>2, MciAssumption DEF HwRec
  <2>2. QED
    BY <1>1, <1>3, <2>1 DEF HwRec
<1>5. Typed'
  BY <1>1, <1>2, <1>4 DEF Typed, MciTypeOK, HostRec, HwRec, RequestRec
<1>6. /\ hw'.imask = hw.imask /\ hw'.csta = hw.csta /\ hw'.dsta = hw.dsta
      /\ hw'.cmd = hw.cmd /\ hw'.data = hw.data
      /\ hw'.todo = hw.todo - 1 /\ hw'.fifo = f
  BY <1>1, <1>3 DEF HwRec
<1>7. PioConserved'
  <2>1. req.is.data = hw.data /\ <<"data", "fin">> \notin req.seen /\ req.at \in {"sending", "sent"}
    BY <1>1, <1>3 DEF MciGood, BusOwned
  <2>2. req.at = "sent"
    BY <1>1, <2>1 DEF HwMove, DataFlows, MciGood, BusOwned
  <2>3. QED
    BY <1>1, <1>2, <1>3, <2>1, <2>2 DEF MciGood, PioConserved, HostRec, HwRec
<1>8. (Staged /\ BusOwned /\ BitsSeen /\ OutcomeSeen /\ ErrorCaused /\ SuccessExact)'
  BY <1>2, <1>6
     DEF MciGood, Staged, BusOwned, BitsSeen, OutcomeSeen, ErrorCaused, SuccessExact, MainOver,
         NoMainError, Succeeded
<1>9. QED
  BY <1>5, <1>7, <1>8 DEF MciGood

(* The data path reports the end of the transfer or an error. *)
LEMMA HwDataGood ==
  ASSUME MciGood, HwData
  PROVE  MciGood'
<1> USE DEF CmdHasData, CmdWaitsRsp, ThisCmd
<1>1. /\ host \in HostRec /\ hw \in HwRec /\ req \in RequestRec
      /\ tasklet \in [sched: BOOLEAN, begun: BOOLEAN]
  BY TypedRecords DEF MciGood
<1>2. Typed'
  <2>1. host' \in HostRec
    BY <1>1 DEF HwData, HostRec, Completion, RspSeen, FinSeen
  <2>2. hw' \in HwRec
    <3>1. PICK bit \in {"fin", "err"} : hw' = [hw EXCEPT !.dsta = @ \cup {bit}, !.data = "none"]
      BY DEF HwData
    <3>2. hw.dsta \cup {bit} \in SUBSET {"fin", "err"}
      BY <1>1 DEF HwRec
    <3>3. QED
      BY <1>1, <3>1, <3>2 DEF HwRec
  <2>3. req' \in RequestRec
    BY <1>1 DEF HwData, RequestRec, Event
  <2>4. tasklet' \in [sched: BOOLEAN, begun: BOOLEAN]
    BY <1>1 DEF HwData
  <2>5. QED
    BY <2>1, <2>2, <2>3, <2>4 DEF Typed, MciTypeOK, HostRec, HwRec, RequestRec
<1>3. Staged'
  BY DEF MciGood, Staged, HwData
<1>4. PioConserved'
  BY DEF MciGood, PioConserved, HwData
<1>5. BusOwned'
  BY DEF MciGood, BusOwned, HwData
<1>6. BitsSeen'
  BY DEF MciGood, BitsSeen, HwData
<1>7. OutcomeSeen'
  BY DEF MciGood, OutcomeSeen, MainOver, NoMainError, HwData
<1>8. ErrorCaused'
  BY DEF MciGood, ErrorCaused, HwData
<1>9. SuccessExact'
  BY DEF MciGood, SuccessExact, Succeeded, HwData
<1>10. QED
  BY <1>2, <1>3, <1>4, <1>5, <1>6, <1>7, <1>8, <1>9 DEF MciGood

(* The softirq calls pio_tasklet. *)
LEMMA TaskletBeginGood ==
  ASSUME MciGood, TaskletBegin
  PROVE  MciGood'
<1> USE DEF CmdHasData, CmdWaitsRsp, ThisCmd
<1>1. /\ host \in HostRec /\ hw \in HwRec /\ req \in RequestRec
      /\ tasklet \in [sched: BOOLEAN, begun: BOOLEAN]
  BY TypedRecords DEF MciGood
<1>2. Typed'
  <2>1. host' \in HostRec
    BY <1>1 DEF TaskletBegin, HostRec, Completion, RspSeen, FinSeen
  <2>2. hw' \in HwRec
    BY <1>1, MciAssumption DEF TaskletBegin, HwRec
  <2>3. req' \in RequestRec
    BY <1>1 DEF TaskletBegin, RequestRec, Event
  <2>4. tasklet' \in [sched: BOOLEAN, begun: BOOLEAN]
    BY <1>1 DEF TaskletBegin
  <2>5. QED
    BY <2>1, <2>2, <2>3, <2>4 DEF Typed, MciTypeOK, HostRec, HwRec, RequestRec
<1>3. Staged'
  BY DEF MciGood, Staged, TaskletBegin
<1>4. PioConserved'
  BY DEF MciGood, PioConserved, TaskletBegin
<1>5. BusOwned'
  BY DEF MciGood, BusOwned, TaskletBegin
<1>6. BitsSeen'
  BY DEF MciGood, BitsSeen, TaskletBegin
<1>7. OutcomeSeen'
  BY DEF MciGood, OutcomeSeen, MainOver, NoMainError, TaskletBegin
<1>8. ErrorCaused'
  BY DEF MciGood, ErrorCaused, TaskletBegin
<1>9. SuccessExact'
  BY DEF MciGood, SuccessExact, Succeeded, TaskletBegin
<1>10. QED
  BY <1>2, <1>3, <1>4, <1>5, <1>6, <1>7, <1>8, <1>9 DEF MciGood

(* An interrupt with nothing to complete masks every source. *)
LEMMA IrqNothingGood ==
  ASSUME MciGood, IrqNothing
  PROVE  MciGood'
<1> USE DEF CmdHasData, CmdWaitsRsp, ThisCmd
<1>1. /\ host \in HostRec /\ hw \in HwRec /\ req \in RequestRec
      /\ tasklet \in [sched: BOOLEAN, begun: BOOLEAN]
  BY TypedRecords DEF MciGood
<1>2. Typed'
  <2>1. host' \in HostRec
    BY <1>1 DEF IrqNothing, HostRec, Completion, RspSeen, FinSeen
  <2>2. hw' \in HwRec
    BY <1>1, MciAssumption DEF IrqNothing, HwRec
  <2>3. req' \in RequestRec
    BY <1>1 DEF IrqNothing, RequestRec, Event
  <2>4. tasklet' \in [sched: BOOLEAN, begun: BOOLEAN]
    BY <1>1 DEF IrqNothing
  <2>5. QED
    BY <2>1, <2>2, <2>3, <2>4 DEF Typed, MciTypeOK, HostRec, HwRec, RequestRec
<1>3. Staged'
  BY DEF MciGood, Staged, IrqNothing
<1>4. PioConserved'
  BY DEF MciGood, PioConserved, IrqNothing
<1>5. BusOwned'
  BY DEF MciGood, BusOwned, IrqNothing
<1>6. BitsSeen'
  BY DEF MciGood, BitsSeen, IrqNothing
<1>7. OutcomeSeen'
  BY DEF MciGood, OutcomeSeen, MainOver, NoMainError, IrqNothing
<1>8. ErrorCaused'
  BY DEF MciGood, ErrorCaused, IrqNothing
<1>9. SuccessExact'
  BY DEF MciGood, SuccessExact, Succeeded, IrqNothing
<1>10. QED
  BY <1>2, <1>3, <1>4, <1>5, <1>6, <1>7, <1>8, <1>9 DEF MciGood

(* An interrupt that ends the request with an error. *)
LEMMA IrqFailGood ==
  ASSUME MciGood, IrqFail
  PROVE  MciGood'
<1> USE DEF CmdHasData, CmdWaitsRsp, ThisCmd
<1>1. /\ host \in HostRec /\ hw \in HwRec /\ req \in RequestRec
      /\ tasklet \in [sched: BOOLEAN, begun: BOOLEAN]
  BY TypedRecords DEF MciGood
<1>2. PICK e \in {"cmd", "stop", "data"} :
        /\ req' = [req EXCEPT !.error = @ \cup {e}]
        /\ \/ "timeout" \in hw.csta /\ e = ThisCmd
           \/ e = "data" /\ CmdHasData /\ "err" \in hw.dsta
  BY DEF IrqFail, DataFails
<1>3. req'.is = req.is /\ req'.at = req.at /\ req'.seen = req.seen /\ req'.dones = req.dones
      /\ req'.error = req.error \cup {e} /\ req' \in RequestRec
  BY <1>1, <1>2 DEF RequestRec
<1>4. /\ host' \in HostRec /\ host'.mrq = host.mrq /\ host'.cmd_is_stop = host.cmd_is_stop
      /\ host'.complete_what = "FINALIZE" /\ host'.pio_active = "none" /\ host'.left = host.left
  BY <1>1 DEF IrqFail, HostRec, Completion
<1>5. /\ hw' \in HwRec /\ hw'.csta = hw.csta /\ hw'.dsta = hw.dsta /\ hw'.fifo = hw.fifo
      /\ hw'.cmd = hw.cmd /\ hw'.data = hw.data /\ hw'.todo = hw.todo
  BY <1>1 DEF IrqFail, HwRec
<1>6. tasklet' \in [sched: BOOLEAN, begun: BOOLEAN]
  BY <1>1 DEF IrqFail
<1>7. Typed'
  BY <1>3, <1>4, <1>5, <1>6 DEF Typed, MciTypeOK, HostRec, HwRec, RequestRec
<1>8. host.complete_what # "NONE" /\ req.at = "sent"
  BY DEF IrqFail, Working, MciGood, Staged
<1>9. \/ <<ThisCmd, "timeout">> \in req.seen /\ e = ThisCmd
      \/ <<"data", "err">> \in req.seen /\ e = "data" /\ CmdHasData
  <2>1. /\ \A bit \in hw.csta : <<ThisCmd, bit>> \in req.seen
        /\ \A bit \in hw.dsta : <<"data", bit>> \in req.seen
    BY <1>8 DEF MciGood, BitsSeen
  <2>2. QED
    BY <1>2, <2>1
<1>10. (Staged /\ PioConserved /\ BusOwned /\ BitsSeen)'
  <2>1. Staged'
    BY <1>3, <1>4, <1>8 DEF MciGood, Staged
  <2>2. PioConserved'
    BY <1>3, <1>4, <1>5, <1>8 DEF MciGood, PioConserved
  <2>3. BusOwned'
    BY <1>3, <1>4, <1>5 DEF MciGood, BusOwned
  <2>4. BitsSeen'
    BY <1>3, <1>4, <1>5 DEF MciGood, BitsSeen
  <2>5. QED
    BY <2>1, <2>2, <2>3, <2>4
<1>11. ErrorCaused'
  BY <1>3, <1>9 DEF MciGood, ErrorCaused
<1>12. OutcomeSeen'
  <2>1. NoMainError' => NoMainError /\ host.cmd_is_stop
    BY <1>3, <1>9 DEF NoMainError
  <2>2. host.cmd_is_stop => "stop" \in req'.error
    BY <1>3, <1>9
  <2>3. host.cmd_is_stop => host.pio_active = "none"
    BY DEF MciGood, PioConserved
  <2>4. QED
    BY <1>3, <1>4, <2>1, <2>2, <2>3 DEF MciGood, OutcomeSeen, MainOver
<1>13. SuccessExact'
  BY <1>3, <1>8 DEF SuccessExact, Succeeded
<1>14. QED
  BY <1>7, <1>10, <1>11, <1>12, <1>13 DEF MciGood

(* An interrupt that ends the request without one. *)
LEMMA IrqCloseGood ==
  ASSUME MciGood, IrqClose
  PROVE  MciGood'
<1> USE DEF CmdHasData, CmdWaitsRsp, ThisCmd
<1>1. /\ host \in HostRec /\ hw \in HwRec /\ req \in RequestRec
      /\ tasklet \in [sched: BOOLEAN, begun: BOOLEAN]
  BY TypedRecords DEF MciGood
<1>2. Typed'
  <2>1. host' \in HostRec
    BY <1>1 DEF IrqClose, HostRec, Completion, RspSeen, FinSeen
  <2>2. hw' \in HwRec
    BY <1>1, MciAssumption DEF IrqClose, HwRec
  <2>3. req' \in RequestRec
    BY <1>1 DEF IrqClose, RequestRec, Event
  <2>4. tasklet' \in [sched: BOOLEAN, begun: BOOLEAN]
    BY <1>1 DEF IrqClose
  <2>5. QED
    BY <2>1, <2>2, <2>3, <2>4 DEF Typed, MciTypeOK, HostRec, HwRec, RequestRec
<1>3. Staged'
  BY DEF MciGood, Staged, IrqClose, CmdCloses, DataCloses, RspSeen
<1>4. PioConserved'
  BY DEF MciGood, PioConserved, BitsSeen, IrqClose, CmdCloses, DataCloses
<1>5. BusOwned'
  BY DEF MciGood, BusOwned, IrqClose
<1>6. BitsSeen'
  BY DEF MciGood, BitsSeen, IrqClose
<1>7. OutcomeSeen'
  BY DEF MciGood, Staged, BitsSeen, OutcomeSeen, MainOver, NoMainError, IrqClose, CmdCloses,
         DataCloses, RspSeen
<1>8. ErrorCaused'
  BY DEF MciGood, ErrorCaused, IrqClose
<1>9. SuccessExact'
  BY DEF MciGood, SuccessExact, Succeeded, IrqClose
<1>10. QED
  BY <1>2, <1>3, <1>4, <1>5, <1>6, <1>7, <1>8, <1>9 DEF MciGood

(* An interrupt that moves the request on. *)
LEMMA IrqProgressGood ==
  ASSUME MciGood, IrqProgress
  PROVE  MciGood'
<1> USE DEF CmdHasData, CmdWaitsRsp, ThisCmd
<1>1. /\ host \in HostRec /\ hw \in HwRec /\ req \in RequestRec
      /\ tasklet \in [sched: BOOLEAN, begun: BOOLEAN]
  BY TypedRecords DEF MciGood
<1>2. Typed'
  <2>1. host' \in HostRec
    BY <1>1 DEF IrqProgress, HostRec, Completion, RspSeen, FinSeen
  <2>2. hw' \in HwRec
    BY <1>1, MciAssumption DEF IrqProgress, HwRec
  <2>3. req' \in RequestRec
    BY <1>1 DEF IrqProgress, RequestRec, Event
  <2>4. tasklet' \in [sched: BOOLEAN, begun: BOOLEAN]
    BY <1>1 DEF IrqProgress
  <2>5. QED
    BY <2>1, <2>2, <2>3, <2>4 DEF Typed, MciTypeOK, HostRec, HwRec, RequestRec
<1>3. Staged'
  BY DEF MciGood, Staged, IrqProgress, RspSeen, FinSeen
<1>4. PioConserved'
  BY DEF MciGood, PioConserved, IrqProgress, RspSeen, FinSeen
<1>5. BusOwned'
  BY DEF MciGood, BusOwned, IrqProgress
<1>6. BitsSeen'
  BY DEF MciGood, Staged, BitsSeen, IrqProgress, RspSeen, FinSeen
<1>7. OutcomeSeen'
  BY DEF MciGood, OutcomeSeen, MainOver, NoMainError, IrqProgress, RspSeen, FinSeen
<1>8. ErrorCaused'
  BY DEF MciGood, ErrorCaused, IrqProgress
<1>9. SuccessExact'
  BY DEF MciGood, SuccessExact, Succeeded, IrqProgress
<1>10. QED
  BY <1>2, <1>3, <1>4, <1>5, <1>6, <1>7, <1>8, <1>9 DEF MciGood

-----------------------------------------------------------------------------
(* pio_tasklet. *)

(***************************************************************************)
(* What do_pio_read and do_pio_write do to a request that is in the        *)
(* invariant: the conservation stays, a read that ends was out and has     *)
(* filled its buffers, and a request to be finalized has no PIO left.      *)
(***************************************************************************)
LEMMA AfterPioGood ==
  ASSUME MciGood
  PROVE  /\ AfterPio[1] \in HostRec /\ AfterPio[2] \in HwRec
         /\ AfterPio[1].mrq = host.mrq /\ AfterPio[1].cmd_is_stop = host.cmd_is_stop
         /\ AfterPio[1].irq_on = host.irq_on
         /\ AfterPio[2].csta = hw.csta /\ AfterPio[2].dsta = hw.dsta
         /\ AfterPio[2].cmd = hw.cmd /\ AfterPio[2].data = hw.data /\ AfterPio[2].todo = hw.todo
         /\ AfterPio[1].pio_active \in {"none", host.pio_active}
         /\ host.pio_active = "none" => AfterPio = <<host, hw>>
         /\ AfterPio[1].pio_active = "read" => AfterPio[1].left = AfterPio[2].fifo + hw.todo
         /\ AfterPio[1].pio_active = "write" => hw.todo = AfterPio[2].fifo + AfterPio[1].left
         /\ host.pio_active = "read" /\ AfterPio[1].pio_active = "none" =>
              AfterPio[1].left = 0 /\ hw.todo = 0
         /\ AfterPio[1].complete_what = host.complete_what
              \/ /\ AfterPio[1].complete_what = "FINALIZE" /\ AfterPio[1].left = 0
                 /\ req.at = "sent" /\ host.pio_active = "read" /\ AfterPio[1].pio_active = "none"
         /\ AfterPio[1].complete_what = "FINALIZE" => AfterPio[1].pio_active = "none"
<1>1. host \in HostRec /\ hw \in HwRec /\ req \in RequestRec
  BY TypedRecords DEF MciGood
<1>2. CASE host.pio_active = "none"
  <2>1. AfterPio = <<host, hw>>
    BY <1>2 DEF AfterPio, DoPio
  <2>2. QED
    BY <1>1, <1>2, <2>1
<1>3. CASE host.pio_active = "write"
  <2>1. AfterPio = DoPioWrite(host, hw)
    BY <1>3 DEF AfterPio, DoPio
  <2>2. host.complete_what = "FINALIZE" => hw.todo = 0
    BY <1>3 DEF MciGood, PioConserved
  <2>3. hw.todo = hw.fifo + host.left
    BY <1>3 DEF MciGood, PioConserved
  <2>4. QED
    BY <1>1, <1>3, <2>1, <2>2, <2>3, PioWriteMoves, MciAssumption DEF HostRec, HwRec
<1>4. CASE host.pio_active = "read"
  <2>1. AfterPio = DoPioRead(host, hw)
    BY <1>4 DEF AfterPio, DoPio
  <2>2. /\ host.left = hw.fifo + hw.todo
        /\ req.at \in {"sending", "sent"} /\ req.is.data = "read"
        /\ req.at = "sending" => hw.todo > 0
        /\ host.complete_what = "FINALIZE" => hw.todo = 0
    BY <1>4 DEF MciGood, PioConserved
  <2> DEFINE h == AfterPio[1]
             w == AfterPio[2]
  <2>3. /\ h \in HostRec /\ w \in HwRec
        /\ host.left - h.left = hw.fifo - w.fifo
        /\ h.left = 0 \/ w.fifo = 0
        /\ h.pio_active = IF h.left = 0 THEN "none" ELSE host.pio_active
        /\ h.complete_what = IF h.left = 0 THEN "FINALIZE" ELSE host.complete_what
        /\ h.mrq = host.mrq /\ h.cmd_is_stop = host.cmd_is_stop /\ h.irq_on = host.irq_on
        /\ w.csta = hw.csta /\ w.dsta = hw.dsta /\ w.cmd = hw.cmd
        /\ w.data = hw.data /\ w.todo = hw.todo
    BY <1>1, <2>1, PioReadMoves
  <2> HIDE DEF h, w
  <2>4. h.left = w.fifo + hw.todo /\ (h.left = 0 => hw.todo = 0)
    BY <1>1, <2>2, <2>3, MciAssumption DEF HostRec, HwRec
  <2>5. h.left = 0 => req.at = "sent"
    BY <2>2, <2>4
  <2>6. host.complete_what = "FINALIZE" => h.left = 0
    BY <1>1, <2>2, <2>3, <2>4 DEF HwRec
  <2>7. QED
    BY <1>4, <2>3, <2>4, <2>5, <2>6 DEF h, w
<1>5. QED
  BY <1>1, <1>2, <1>3, <1>4 DEF HostRec

(* pio_tasklet returns and waits for more. *)
LEMMA TaskletWaitGood ==
  ASSUME MciGood, TaskletWait
  PROVE  MciGood'
<1> USE DEF CmdHasData, CmdWaitsRsp, ThisCmd
<1> DEFINE h == AfterPio[1]
           w == AfterPio[2]
<1>1. /\ host \in HostRec /\ hw \in HwRec /\ req \in RequestRec
      /\ tasklet \in [sched: BOOLEAN, begun: BOOLEAN]
  BY TypedRecords DEF MciGood
<1>2. /\ h.complete_what # "FINALIZE" /\ host' = [h EXCEPT !.irq_on = TRUE] /\ hw' = w
      /\ tasklet' = [tasklet EXCEPT !.begun = FALSE] /\ req' = req
  BY DEF TaskletWait
<1>3. /\ h \in HostRec /\ w \in HwRec
      /\ h.mrq = host.mrq /\ h.cmd_is_stop = host.cmd_is_stop
      /\ w.csta = hw.csta /\ w.dsta = hw.dsta
      /\ w.cmd = hw.cmd /\ w.data = hw.data /\ w.todo = hw.todo
      /\ h.pio_active \in {"none", host.pio_active}
      /\ host.pio_active = "none" => h = host
      /\ h.pio_active = "read" => h.left = w.fifo + hw.todo
      /\ h.pio_active = "write" => hw.todo = w.fifo + h.left
      /\ host.pio_active = "read" /\ h.pio_active = "none" => h.left = 0 /\ hw.todo = 0
      /\ h.complete_what = host.complete_what
  BY <1>2, AfterPioGood
<1> HIDE DEF h, w
<1>4. /\ host' \in HostRec /\ host'.mrq = h.mrq /\ host'.cmd_is_stop = h.cmd_is_stop
      /\ host'.complete_what = h.complete_what /\ host'.pio_active = h.pio_active
      /\ host'.left = h.left
  BY <1>2, <1>3 DEF HostRec
<1>5. Typed'
  BY <1>1, <1>2, <1>3 DEF Typed, MciTypeOK, HostRec, HwRec, RequestRec
<1>6. Staged'
  BY <1>2, <1>3, <1>4 DEF MciGood, Staged
<1>7. PioConserved'
  BY <1>2, <1>3 DEF MciGood, PioConserved
<1>8. (BusOwned /\ BitsSeen)'
  BY <1>2, <1>3, <1>4 DEF MciGood, BusOwned, BitsSeen
<1>9. OutcomeSeen'
  <2>1. (req.is.data = "read" => host.pio_active # "write")
    BY DEF MciGood, PioConserved
  <2>2. QED
    BY <1>1, <1>2, <1>3, <2>1 DEF MciGood, OutcomeSeen, MainOver, NoMainError, HostRec
<1>10. ErrorCaused'
  BY <1>2 DEF MciGood, ErrorCaused
<1>11. SuccessExact'
  <2>1. req.at = "done" => host.pio_active = "none"
    BY <1>1 DEF MciGood, PioConserved
  <2>2. QED
    BY <1>2, <1>3, <2>1 DEF MciGood, SuccessExact, Succeeded
<1>12. QED
  BY <1>5, <1>6, <1>7, <1>8, <1>9, <1>10, <1>11 DEF MciGood

(* What both ends of pio_tasklet find when the request is to be finalized. *)
LEMMA FinalizeGood ==
  ASSUME MciGood, AfterPio[1].complete_what = "FINALIZE"
  PROVE  /\ req.at = "sent" /\ AfterPio[1].pio_active = "none"
         /\ FinalErrors \in SUBSET {"cmd", "stop", "data"}
         /\ req.error \subseteq FinalErrors /\ FinalErrors \subseteq req.error \cup {"data"}
         /\ "data" \in FinalErrors \ req.error => "cmd" \in req.error
         /\ NoMainError /\ req.is.data = "read" => AfterPio[1].left = 0
         /\ req.is.data # "read" => host.complete_what = "FINALIZE"
         /\ host.cmd_is_stop => host.complete_what = "FINALIZE"
<1> USE DEF CmdHasData
<1>1. host \in HostRec /\ hw \in HwRec /\ req \in RequestRec
  BY TypedRecords DEF MciGood
<1>2. /\ AfterPio[1].pio_active = "none"
      /\ host.pio_active = "none" => AfterPio = <<host, hw>>
      /\ host.pio_active = "read" => AfterPio[1].left = 0
      /\ host.complete_what = "FINALIZE" \/ (req.at = "sent" /\ host.pio_active = "read")
  BY AfterPioGood
<1>3. req.at = "sent"
  BY <1>2 DEF MciGood, Staged
<1>4. FinalErrors = req.error \cup (IF CmdHasData /\ "cmd" \in req.error THEN {"data"} ELSE {})
  BY <1>2 DEF FinalErrors
<1>5. /\ FinalErrors \in SUBSET {"cmd", "stop", "data"}
      /\ req.error \subseteq FinalErrors /\ FinalErrors \subseteq req.error \cup {"data"}
      /\ "data" \in FinalErrors \ req.error => "cmd" \in req.error
  BY <1>1, <1>4 DEF RequestRec
<1>6. host.pio_active # "none" => req.is.data = host.pio_active /\ ~host.cmd_is_stop
  BY DEF MciGood, PioConserved
<1>7. NoMainError /\ req.is.data = "read" => AfterPio[1].left = 0
  <2>1. CASE host.pio_active = "none"
    BY <1>2, <1>3, <2>1 DEF MciGood, OutcomeSeen
  <2>2. CASE host.pio_active # "none"
    BY <1>2, <1>6, <2>2
  <2>3. QED
    BY <2>1, <2>2
<1>8. QED
  BY <1>2, <1>3, <1>5, <1>6, <1>7

(* pio_tasklet finalizes the command and sends the stop command. *)
LEMMA TaskletStopGood ==
  ASSUME MciGood, TaskletStop
  PROVE  MciGood'
<1> USE DEF CmdHasData, CmdWaitsRsp, ThisCmd
<1> DEFINE h == AfterPio[1]
           w == AfterPio[2]
<1>1. /\ host \in HostRec /\ hw \in HwRec /\ req \in RequestRec
      /\ tasklet \in [sched: BOOLEAN, begun: BOOLEAN]
  BY TypedRecords DEF MciGood
<1>2. /\ h.complete_what = "FINALIZE" /\ req.is.stop /\ ~host.cmd_is_stop
      /\ host' = [h EXCEPT !.cmd_is_stop = TRUE, !.complete_what = "RSPFIN", !.irq_on = TRUE]
      /\ hw' = [w EXCEPT !.imask = {"cmd"}, !.cmd = "sending", !.data = "none",
                         !.csta = {}, !.dsta = {}, !.fifo = 0]
      /\ req' = [req EXCEPT !.error = FinalErrors]
      /\ tasklet' = [tasklet EXCEPT !.begun = FALSE]
  <2>1. h \in HostRec /\ w \in HwRec
    BY AfterPioGood
  <2>2. /\ host' = SendCommand([h EXCEPT !.cmd_is_stop = TRUE], Cleared(CleanedUp(w)), FALSE, TRUE)[1]
        /\ hw' = SendCommand([h EXCEPT !.cmd_is_stop = TRUE], Cleared(CleanedUp(w)), FALSE, TRUE)[2]
    BY DEF TaskletStop
  <2> HIDE DEF h, w
  <2>3. host' = [h EXCEPT !.cmd_is_stop = TRUE, !.complete_what = "RSPFIN", !.irq_on = TRUE]
    BY <2>1, <2>2 DEF SendCommand, HostRec
  <2>4. hw' = [w EXCEPT !.imask = {"cmd"}, !.cmd = "sending", !.data = "none",
                        !.csta = {}, !.dsta = {}, !.fifo = 0]
    BY <2>1, <2>2 DEF SendCommand, Cleared, CleanedUp, HwRec
  <2>5. QED
    BY <2>3, <2>4 DEF TaskletStop, SendsStop, h
<1>3. /\ h \in HostRec /\ w \in HwRec /\ h.mrq = host.mrq /\ w.todo = hw.todo
  BY AfterPioGood
<1>4. /\ req.at = "sent" /\ h.pio_active = "none"
      /\ FinalErrors \in SUBSET {"cmd", "stop", "data"}
      /\ req.error \subseteq FinalErrors /\ FinalErrors \subseteq req.error \cup {"data"}
      /\ "data" \in FinalErrors \ req.error => "cmd" \in req.error
      /\ NoMainError /\ req.is.data = "read" => h.left = 0
      /\ req.is.data # "read" => host.complete_what = "FINALIZE"
  BY <1>2, FinalizeGood
<1> HIDE DEF h, w
<1>5. /\ host' \in HostRec /\ host'.mrq = h.mrq /\ host'.cmd_is_stop = TRUE
      /\ host'.complete_what = "RSPFIN" /\ host'.pio_active = "none" /\ host'.left = h.left
  BY <1>2, <1>3, <1>4 DEF HostRec, Completion
<1>6. /\ hw' \in HwRec /\ hw'.csta = {} /\ hw'.dsta = {} /\ hw'.cmd = "sending"
      /\ hw'.data = "none" /\ hw'.todo = hw.todo
  <2>1. 0 \in 0..FifoSize
    BY MciAssumption
  <2>2. QED
    BY <1>2, <1>3, <2>1 DEF HwRec
<1>7. /\ req' \in RequestRec /\ req'.is = req.is /\ req'.at = req.at /\ req'.seen = req.seen
      /\ req'.dones = req.dones /\ req'.error = FinalErrors
  BY <1>1, <1>2, <1>4 DEF RequestRec
<1>8. tasklet' \in [sched: BOOLEAN, begun: BOOLEAN]
  BY <1>1, <1>2
<1>9. Typed'
  BY <1>5, <1>6, <1>7, <1>8 DEF Typed, MciTypeOK, HostRec, HwRec, RequestRec
<1>10. Staged'
  BY <1>2, <1>3, <1>4 DEF MciGood, Staged
<1>11. PioConserved'
  BY <1>4, <1>5, <1>6, <1>7 DEF MciGood, PioConserved
<1>12. BusOwned'
  BY <1>4, <1>5, <1>6, <1>7 DEF MciGood, BusOwned
<1>13. BitsSeen'
  BY <1>5, <1>6 DEF BitsSeen
<1>14. OutcomeSeen'
  <2>1. NoMainError' => NoMainError
    BY <1>4, <1>7 DEF NoMainError
  <2>2. req.is.data # "none"
    BY <1>1, <1>2 DEF RequestRec, Request
  <2>3. QED
    BY <1>4, <1>5, <1>7, <2>1 DEF MciGood, OutcomeSeen, MainOver
<1>15. ErrorCaused'
  BY <1>4, <1>7 DEF MciGood, ErrorCaused
<1>16. SuccessExact'
  BY <1>4, <1>7 DEF SuccessExact, Succeeded
<1>17. QED
  BY <1>9, <1>10, <1>11, <1>12, <1>13, <1>14, <1>15, <1>16 DEF MciGood

(* pio_tasklet finalizes the request and hands it back. *)
LEMMA TaskletDoneGood ==
  ASSUME MciGood, TaskletDone
  PROVE  MciGood'
<1> USE DEF CmdHasData, CmdWaitsRsp, ThisCmd
<1> DEFINE h == AfterPio[1]
           w == AfterPio[2]
<1>1. /\ host \in HostRec /\ hw \in HwRec /\ req \in RequestRec
      /\ tasklet \in [sched: BOOLEAN, begun: BOOLEAN]
  BY TypedRecords DEF MciGood
<1>2. PICK f \in {0, w.fifo} :
      /\ h.complete_what = "FINALIZE" /\ (req.is.stop => host.cmd_is_stop)
      /\ host' = [h EXCEPT !.complete_what = "NONE", !.mrq = FALSE, !.irq_on = FALSE]
      /\ hw' = [w EXCEPT !.imask = {}, !.cmd = "idle", !.data = "none", !.fifo = f]
      /\ req' = [req EXCEPT !.error = FinalErrors, !.at = "done", !.dones = @ + 1]
      /\ tasklet' = [tasklet EXCEPT !.begun = FALSE]
  BY AfterPioGood DEF TaskletDone, SendsStop, CleanedUp, HwRec
<1>3. /\ h \in HostRec /\ w \in HwRec /\ w.todo = hw.todo /\ w.dsta = hw.dsta
      /\ h.cmd_is_stop = host.cmd_is_stop
  BY AfterPioGood
<1>4. /\ req.at = "sent" /\ h.pio_active = "none"
      /\ FinalErrors \in SUBSET {"cmd", "stop", "data"}
      /\ req.error \subseteq FinalErrors /\ FinalErrors \subseteq req.error \cup {"data"}
      /\ "data" \in FinalErrors \ req.error => "cmd" \in req.error
      /\ NoMainError /\ req.is.data = "read" => h.left = 0
      /\ req.is.data # "read" => host.complete_what = "FINALIZE"
      /\ host.cmd_is_stop => host.complete_what = "FINALIZE"
  BY <1>2, FinalizeGood
<1> HIDE DEF h, w
<1>5. /\ host' \in HostRec /\ host'.cmd_is_stop = host.cmd_is_stop
      /\ host'.complete_what = "NONE" /\ host'.pio_active = "none" /\ host'.left = h.left
  BY <1>2, <1>3, <1>4 DEF HostRec, Completion
<1>6. /\ hw' \in HwRec /\ hw'.dsta = hw.dsta /\ hw'.cmd = "idle"
      /\ hw'.data = "none" /\ hw'.todo = hw.todo
  <2>1. f \in 0..FifoSize
    BY <1>3, MciAssumption DEF HwRec
  <2>2. QED
    BY <1>2, <1>3, <2>1 DEF HwRec
<1>7. req.dones = 0
  BY <1>1, <1>4 DEF MciGood, Staged, RequestRec
<1>8. /\ req' \in RequestRec /\ req'.is = req.is /\ req'.at = "done" /\ req'.seen = req.seen
      /\ req'.dones = 1 /\ req'.error = FinalErrors
  <2>1. req.dones + 1 = 1 /\ 1 \in 0..1
    BY <1>7
  <2>2. QED
    BY <1>1, <1>2, <1>4, <2>1 DEF RequestRec
<1>9. tasklet' \in [sched: BOOLEAN, begun: BOOLEAN]
  BY <1>1, <1>2
<1>10. Typed'
  BY <1>5, <1>6, <1>8, <1>9 DEF Typed, MciTypeOK, HostRec, HwRec, RequestRec
<1>11. Staged'
  BY <1>5, <1>8 DEF Staged
<1>12. PioConserved'
  BY <1>5, <1>6, <1>8 DEF MciGood, PioConserved
<1>13. BusOwned'
  BY <1>6, <1>8 DEF MciGood, BusOwned
<1>14. BitsSeen'
  BY <1>5, <1>8 DEF BitsSeen
<1>15. OutcomeSeen'
  BY <1>5, <1>8 DEF OutcomeSeen, MainOver
<1>16. ErrorCaused'
  BY <1>4, <1>8 DEF MciGood, ErrorCaused
<1>17. SuccessExact'
  <2>1. Succeeded' => NoMainError
    BY <1>4, <1>8 DEF Succeeded, NoMainError
  <2>2. QED
    BY <1>2, <1>4, <2>1 DEF MciGood, SuccessExact, OutcomeSeen, MainOver
<1>18. QED
  BY <1>10, <1>11, <1>12, <1>13, <1>14, <1>15, <1>16, <1>17 DEF MciGood

-----------------------------------------------------------------------------
(* s3cmci_request. *)

(* A request that cannot be set up is answered at once. *)
LEMMA RequestRefusedGood ==
  ASSUME MciGood, NEW r \in Request, RequestRefused(r)
  PROVE  MciGood'
<1> USE DEF CmdHasData, CmdWaitsRsp, ThisCmd
<1>1. /\ host \in HostRec /\ hw \in HwRec /\ req \in RequestRec
      /\ tasklet \in [sched: BOOLEAN, begun: BOOLEAN]
  BY TypedRecords DEF MciGood
<1>2. PICK e \in {{"cmd"}, {"cmd", "data"}} :
        /\ hw' = hw \/ hw' = Cleared(hw)
        /\ req' = [is |-> r, at |-> "done", error |-> e, seen |-> {<<"cmd", "refused">>}, dones |-> 1]
  BY DEF RequestRefused
<1>3. req.at \in {"none", "done"} /\ tasklet' = tasklet
  BY DEF RequestRefused
<1>4. /\ req' \in RequestRec /\ req'.is = r /\ req'.at = "done" /\ req'.error = e
      /\ req'.seen = {<<"cmd", "refused">>} /\ req'.dones = 1
  <2>1. /\ e \in SUBSET {"cmd", "stop", "data"} /\ 1 \in 0..1
        /\ {<<"cmd", "refused">>} \in SUBSET Event
    BY DEF Event
  <2>2. QED
    BY <1>2, <2>1 DEF RequestRec
<1>5. /\ host' \in HostRec /\ host'.complete_what = host.complete_what
      /\ host'.pio_active = host.pio_active /\ host'.cmd_is_stop = FALSE
  BY <1>1 DEF RequestRefused, HostRec
<1>6. /\ hw' \in HwRec /\ hw'.cmd = hw.cmd /\ hw'.data = hw.data /\ hw'.todo = hw.todo
      /\ hw'.dsta \subseteq hw.dsta
  <2>1. 0 \in 0..FifoSize
    BY MciAssumption
  <2>2. QED
    BY <1>1, <1>2, <2>1 DEF Cleared, HwRec
<1>7. /\ host.complete_what = "NONE" /\ host.pio_active = "none"
      /\ hw.cmd = "idle" /\ hw.data = "none"
  BY <1>3 DEF MciGood, Staged, PioConserved, BusOwned
<1>8. Typed'
  BY <1>1, <1>3, <1>4, <1>5, <1>6 DEF Typed, MciTypeOK, HostRec, HwRec
<1>9. Staged'
  BY <1>4, <1>5, <1>7 DEF Staged
<1>10. PioConserved'
  BY <1>4, <1>5, <1>6, <1>7 DEF MciGood, PioConserved
<1>11. BusOwned'
  BY <1>4, <1>6, <1>7 DEF BusOwned
<1>12. (BitsSeen /\ OutcomeSeen)'
  BY <1>4, <1>5, <1>7 DEF BitsSeen, OutcomeSeen, MainOver
<1>13. (ErrorCaused /\ SuccessExact)'
  BY <1>4, <1>2 DEF ErrorCaused, SuccessExact, Succeeded
<1>14. QED
  BY <1>8, <1>9, <1>10, <1>11, <1>12, <1>13 DEF MciGood

(***************************************************************************)
(* s3cmci_setup_data and s3cmci_prepare_pio: with data, all of it is still *)
(* to pass the bus, and a write has begun to fill the FIFO.                *)
(***************************************************************************)
LEMMA SetupDataGood ==
  ASSUME NEW h \in HostRec, NEW w \in HwRec, NEW r \in Request,
         w.fifo = 0, h.pio_active = "none", w.data = "none"
  PROVE  LET s == SetupData(h, w, r)
         IN /\ s[1] \in HostRec /\ s[2] \in HwRec
            /\ s[1].mrq = h.mrq /\ s[1].cmd_is_stop = h.cmd_is_stop
            /\ s[1].complete_what = h.complete_what
            /\ s[2].csta = w.csta /\ s[2].dsta = w.dsta /\ s[2].cmd = w.cmd
            /\ s[2].data = r.data
            /\ s[1].pio_active \in {"none", r.data}
            /\ s[1].pio_active = "read" => s[1].left = s[2].fifo + s[2].todo
            /\ s[1].pio_active = "write" => s[2].todo = s[2].fifo + s[1].left
            /\ r.data = "read" => s[1].pio_active = "read" /\ s[2].todo > 0
<1> DEFINE h1 == [h EXCEPT !.left = r.units, !.pio_active = r.data]
           w1 == [w EXCEPT !.imask = @ \cup {"data"}, !.data = r.data, !.todo = r.units]
           s == SetupData(h, w, r)
<1>1. CASE r.data = "none"
  <2>1. s = <<h, w>>
    BY <1>1 DEF SetupData
  <2>2. QED
    BY <1>1, <2>1
<1>2. CASE r.data # "none"
  <2>1. /\ r.data \in {"read", "write"} /\ r.units \in 1..MaxUnits
    BY <1>2 DEF Request
  <2>2. r.units \in 0..MaxUnits /\ r.units > 0
    BY <2>1, MciAssumption
  <2>3. /\ h1 \in HostRec /\ h1.left = r.units /\ h1.pio_active = r.data
        /\ h1.mrq = h.mrq /\ h1.cmd_is_stop = h.cmd_is_stop
        /\ h1.complete_what = h.complete_what
    BY <2>1, <2>2 DEF HostRec
  <2>4. /\ w1 \in HwRec /\ w1.todo = r.units /\ w1.data = r.data /\ w1.fifo = 0
        /\ w1.csta = w.csta /\ w1.dsta = w.dsta /\ w1.cmd = w.cmd
    BY <2>1, <2>2 DEF HwRec
  <2>5. CASE r.data = "read"
    <3>1. s[1] = h1 /\ s[2] = [w1 EXCEPT !.imask = @ \cup {"rx"}]
      BY <2>5 DEF SetupData
    <3> HIDE DEF h1, w1, s
    <3>2. /\ s[2] \in HwRec /\ s[2].csta = w1.csta /\ s[2].dsta = w1.dsta /\ s[2].cmd = w1.cmd
          /\ s[2].data = w1.data /\ s[2].todo = w1.todo /\ s[2].fifo = w1.fifo
      BY <2>4, <3>1 DEF HwRec
    <3>3. QED
      BY <2>2, <2>3, <2>4, <3>1, <3>2 DEF s
  <2>6. CASE r.data = "write"
    <3> DEFINE d == DoPioWrite(h1, w1)
    <3>1. s[1] = d[1] /\ s[2] = [d[2] EXCEPT !.imask = @ \cup {"tx"}]
      BY <2>6 DEF SetupData
    <3>2. /\ d[1] \in HostRec /\ d[2] \in HwRec
          /\ d[1].left + d[2].fifo = h1.left + w1.fifo
          /\ d[1].pio_active = IF d[2].fifo = FifoSize THEN h1.pio_active ELSE "none"
          /\ d[1].mrq = h1.mrq /\ d[1].cmd_is_stop = h1.cmd_is_stop
          /\ d[1].complete_what = h1.complete_what
          /\ d[2].csta = w1.csta /\ d[2].dsta = w1.dsta /\ d[2].cmd = w1.cmd
          /\ d[2].data = w1.data /\ d[2].todo = w1.todo
      BY <2>3, <2>4, PioWriteMoves
    <3> HIDE DEF d, h1, w1, s
    <3>3. /\ s[2] \in HwRec /\ s[2].csta = d[2].csta /\ s[2].dsta = d[2].dsta
          /\ s[2].cmd = d[2].cmd /\ s[2].data = d[2].data /\ s[2].todo = d[2].todo
          /\ s[2].fifo = d[2].fifo
      BY <3>1, <3>2 DEF HwRec
    <3>4. s[2].todo = s[2].fifo + s[1].left
      BY <2>3, <2>4, <3>1, <3>2 DEF HostRec, HwRec
    <3>5. QED
      BY <2>3, <2>4, <2>6, <3>1, <3>2, <3>3, <3>4 DEF s
  <2>7. QED
    BY <2>1, <2>5, <2>6
<1>3. QED
  BY <1>1, <1>2

(* The data side of a request is programmed. *)
LEMMA RequestSetupGood ==
  ASSUME MciGood, NEW r \in Request, RequestSetup(r)
  PROVE  MciGood'
<1> USE DEF CmdHasData, CmdWaitsRsp, ThisCmd
<1> DEFINE h == [host EXCEPT !.mrq = TRUE, !.cmd_is_stop = FALSE]
           w == Cleared(hw)
<1>1. /\ host \in HostRec /\ hw \in HwRec /\ req \in RequestRec
      /\ tasklet \in [sched: BOOLEAN, begun: BOOLEAN]
  BY TypedRecords DEF MciGood
<1>2. /\ req.at \in {"none", "done"} /\ tasklet' = tasklet
      /\ host' = SetupData(h, w, r)[1] /\ hw' = SetupData(h, w, r)[2]
      /\ req' = [is |-> r, at |-> "sending", error |-> {}, seen |-> {}, dones |-> 0]
  BY DEF RequestSetup
<1>3. /\ host.complete_what = "NONE" /\ host.pio_active = "none"
      /\ hw.cmd = "idle" /\ hw.data = "none"
  BY <1>2 DEF MciGood, Staged, PioConserved, BusOwned
<1>4. /\ h \in HostRec /\ h.complete_what = "NONE" /\ h.pio_active = "none"
      /\ h.cmd_is_stop = FALSE /\ h.mrq = TRUE
  BY <1>1, <1>3 DEF HostRec
<1>5. /\ w \in HwRec /\ w.csta = {} /\ w.dsta = {} /\ w.fifo = 0
      /\ w.cmd = "idle" /\ w.data = "none"
  <2>1. 0 \in 0..FifoSize
    BY MciAssumption
  <2>2. QED
    BY <1>1, <1>3, <2>1 DEF Cleared, HwRec
<1> HIDE DEF h, w
<1>6. /\ host' \in HostRec /\ hw' \in HwRec
      /\ host'.cmd_is_stop = FALSE /\ host'.complete_what = "NONE" /\ host'.mrq = TRUE
      /\ hw'.csta = {} /\ hw'.dsta = {} /\ hw'.cmd = "idle" /\ hw'.data = r.data
      /\ host'.pio_active \in {"none", r.data}
      /\ host'.pio_active = "read" => host'.left = hw'.fifo + hw'.todo
      /\ host'.pio_active = "write" => hw'.todo = hw'.fifo + host'.left
      /\ r.data = "read" => host'.pio_active = "read" /\ hw'.todo > 0
  BY <1>2, <1>4, <1>5, SetupDataGood
<1>7. /\ req' \in RequestRec /\ req'.is = r /\ req'.at = "sending" /\ req'.error = {}
      /\ req'.seen = {} /\ req'.dones = 0
  <2>1. 0 \in 0..1 /\ {} \in SUBSET Event
    OBVIOUS
  <2>2. QED
    BY <1>2, <2>1 DEF RequestRec
<1>8. Typed'
  BY <1>1, <1>2, <1>6 DEF Typed, MciTypeOK, HostRec, HwRec, RequestRec
<1>9. Staged'
  BY <1>6, <1>7 DEF Staged
<1>10. PioConserved'
  BY <1>6, <1>7 DEF PioConserved
<1>11. BusOwned'
  BY <1>6, <1>7 DEF BusOwned
<1>12. (BitsSeen /\ OutcomeSeen)'
  BY <1>6, <1>7 DEF BitsSeen, OutcomeSeen, MainOver
<1>13. (ErrorCaused /\ SuccessExact)'
  BY <1>7 DEF ErrorCaused, SuccessExact, Succeeded
<1>14. QED
  BY <1>8, <1>9, <1>10, <1>11, <1>12, <1>13 DEF MciGood

(* The command is sent and the interrupts enabled. *)
LEMMA RequestSendGood ==
  ASSUME MciGood, RequestSend
  PROVE  MciGood'
<1> USE DEF CmdHasData, CmdWaitsRsp, ThisCmd
<1>1. /\ host \in HostRec /\ hw \in HwRec /\ req \in RequestRec
      /\ tasklet \in [sched: BOOLEAN, begun: BOOLEAN]
  BY TypedRecords DEF MciGood
<1>2. /\ req.at = "sending" /\ tasklet' = tasklet /\ req' = [req EXCEPT !.at = "sent"]
      /\ host' = SendCommand(host, hw, CmdHasData, CmdWaitsRsp)[1]
      /\ hw' = SendCommand(host, hw, CmdHasData, CmdWaitsRsp)[2]
  BY DEF RequestSend
<1>3. ~host.cmd_is_stop
  BY <1>2 DEF MciGood, Staged
<1>4. PICK what \in {"XFERFINISH_RSPFIN", "RSPFIN", "CMDSENT"} :
        /\ host' = [host EXCEPT !.complete_what = what, !.irq_on = TRUE]
        /\ what = "XFERFINISH_RSPFIN" <=> req.is.data # "none"
        /\ what = "RSPFIN" => req.is.rsp
        /\ what = "CMDSENT" => ~req.is.rsp
  BY <1>2, <1>3 DEF SendCommand
<1>5. /\ host' \in HostRec /\ host'.cmd_is_stop = host.cmd_is_stop /\ host'.mrq = host.mrq
      /\ host'.complete_what = what /\ host'.pio_active = host.pio_active
      /\ host'.left = host.left
  BY <1>1, <1>4 DEF HostRec, Completion
<1>6. /\ hw' \in HwRec /\ hw'.csta = hw.csta /\ hw'.dsta = hw.dsta /\ hw'.fifo = hw.fifo
      /\ hw'.cmd = "sending" /\ hw'.data = hw.data /\ hw'.todo = hw.todo
  BY <1>1, <1>2 DEF SendCommand, HwRec
<1>7. /\ req' \in RequestRec /\ req'.is = req.is /\ req'.at = "sent" /\ req'.error = req.error
      /\ req'.seen = req.seen /\ req'.dones = req.dones
  BY <1>1, <1>2 DEF RequestRec
<1>8. Typed'
  BY <1>1, <1>2, <1>5, <1>6 DEF Typed, MciTypeOK, HostRec, HwRec, RequestRec
<1>9. Staged'
  BY <1>2, <1>4, <1>5, <1>7 DEF MciGood, Staged
<1>10. PioConserved'
  BY <1>5, <1>6, <1>7 DEF MciGood, PioConserved
<1>11. BusOwned'
  BY <1>2, <1>5, <1>6, <1>7 DEF MciGood, BusOwned
<1>12. BitsSeen'
  BY <1>2, <1>3, <1>4, <1>5, <1>6, <1>7 DEF MciGood, BitsSeen, BusOwned
<1>13. OutcomeSeen'
  BY <1>2, <1>3, <1>5 DEF MciGood, PioConserved, OutcomeSeen, MainOver
<1>14. (ErrorCaused /\ SuccessExact)'
  BY <1>7 DEF MciGood, ErrorCaused, SuccessExact, Succeeded
<1>15. QED
  BY <1>8, <1>9, <1>10, <1>11, <1>12, <1>13, <1>14 DEF MciGood

-----------------------------------------------------------------------------
(* The invariant, and the properties that follow from it. *)

(* The invariant holds when the driver is loaded. *)
LEMMA InitGood == MciInit => MciGood
<1> SUFFICES ASSUME MciInit PROVE MciGood
  OBVIOUS
<1>1. /\ host \in HostRec /\ host.complete_what = "NONE" /\ host.pio_active = "none"
      /\ host.cmd_is_stop = FALSE
  <2>1. 0 \in 0..MaxUnits
    BY MciAssumption
  <2>2. QED
    BY <2>1 DEF MciInit, HostRec, Completion
<1>2. /\ hw \in HwRec /\ hw.dsta = {} /\ hw.cmd = "idle" /\ hw.data = "none" /\ hw.todo = 0
  <2>1. 0 \in 0..MaxUnits /\ 0 \in 0..FifoSize
    BY MciAssumption
  <2>2. QED
    BY <2>1 DEF MciInit, HwRec
<1>3. /\ req \in RequestRec /\ req.at = "none" /\ req.error = {} /\ req.seen = {}
      /\ req.dones = 1
  <2>1. 1 \in 0..1
    OBVIOUS
  <2>2. QED
    BY <2>1 DEF MciInit, RequestRec
<1>4. tasklet \in [sched: BOOLEAN, begun: BOOLEAN]
  BY DEF MciInit
<1>5. Typed
  BY <1>1, <1>2, <1>3, <1>4 DEF Typed, MciTypeOK, HostRec, HwRec, RequestRec
<1>6. Staged /\ PioConserved /\ BusOwned
  BY <1>1, <1>2, <1>3 DEF Staged, PioConserved, BusOwned
<1>7. BitsSeen /\ OutcomeSeen /\ ErrorCaused /\ SuccessExact
  BY <1>1, <1>3 DEF BitsSeen, OutcomeSeen, MainOver, ErrorCaused, SuccessExact, Succeeded
<1>8. QED
  BY <1>5, <1>6, <1>7 DEF MciGood

(* Every step of the driver and of the hardware keeps it. *)
LEMMA NextGood == MciGood /\ [MciNext]_mcivars => MciGood'
<1> SUFFICES ASSUME MciGood, [MciNext]_mcivars PROVE MciGood'
  OBVIOUS
<1>1. CASE \E r \in Request : RequestRefused(r) \/ RequestSetup(r)
  BY <1>1, RequestRefusedGood, RequestSetupGood
<1>2. CASE RequestSend
  BY <1>2, RequestSendGood
<1>3. CASE IrqNothing \/ IrqFail \/ IrqClose \/ IrqProgress
  BY <1>3, IrqNothingGood, IrqFailGood, IrqCloseGood, IrqProgressGood
<1>4. CASE TaskletBegin \/ TaskletWait \/ TaskletStop \/ TaskletDone
  BY <1>4, TaskletBeginGood, TaskletWaitGood, TaskletStopGood, TaskletDoneGood
<1>5. CASE HwSent \/ HwRsp \/ HwMove \/ HwData
  BY <1>5, HwSentGood, HwRspGood, HwMoveGood, HwDataGood
<1>6. CASE UNCHANGED mcivars
  BY <1>6
     DEF mcivars, MciGood, Typed, MciTypeOK, Staged, PioConserved, BusOwned, BitsSeen, OutcomeSeen,
         ErrorCaused, SuccessExact, CmdHasData, CmdWaitsRsp, ThisCmd, MainOver, NoMainError,
         Succeeded
<1>7. QED
  BY <1>1, <1>2, <1>3, <1>4, <1>5, <1>6 DEF MciNext

(* MciGood holds in every state, for any size of request and of FIFO. *)
THEOREM MciGoodAlways == MciSpec => []MciGood
BY InitGood, NextGood, PTL DEF MciSpec

(***************************************************************************)
(* MciInv: the driver's fields stay well formed, and what complete_what    *)
(* waits for, or leaves to pio_tasklet, belongs to a request that          *)
(* mmc_request_done was not called for, also when an interrupt schedules   *)
(* the tasklet again before it has disabled the interrupt.                 *)
(***************************************************************************)
THEOREM MciOwnRequest == MciSpec => []MciInv
<1>1. MciGood => MciInv
  <2> SUFFICES ASSUME MciGood PROVE MciInv
    OBVIOUS
  <2>1. req \in RequestRec /\ Staged /\ MciTypeOK
    BY DEF MciGood, Typed
  <2>2. OwnRequest
    BY <2>1 DEF OwnRequest, Staged, RequestRec
  <2>3. QED
    BY <2>1, <2>2 DEF MciInv
<1>2. QED
  BY <1>1, MciGoodAlways, PTL

(***************************************************************************)
(* ResultExact: s3cmci_irq and pio_tasklet report success of exactly the   *)
(* requests that were carried out on the bus, and an error only of one the *)
(* card or the set-up failed, for any FIFO and any amount of data.         *)
(***************************************************************************)
THEOREM MciResultExact == MciSpec => []ResultExact
<1>1. MciGood => ResultExact
  <2> SUFFICES ASSUME MciGood PROVE ResultExact
    OBVIOUS
  <2>1. req \in RequestRec
    BY TypedRecords DEF MciGood
  <2>2. SuccessExact
    BY DEF MciGood
  <2>3. Succeeded /\ req.is.data # "read" =>
          <<"cmd", "timeout">> \notin req.seen /\ <<"data", "err">> \notin req.seen
    BY <2>1 DEF MciGood, BusOwned, SuccessExact, RequestRec, Request
  <2>4. Succeeded /\ req.is.data = "read" => host.left = 0
    BY <2>2 DEF SuccessExact
  <2>5. FaultsExact
    BY <2>3, <2>4 DEF FaultsExact, MciGood, ErrorCaused
  <2>6. QED
    BY <2>2, <2>5 DEF ResultExact
<1>2. QED
  BY <1>1, MciGoodAlways, PTL

=============================================================================
