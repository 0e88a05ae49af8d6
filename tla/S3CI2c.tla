------------------------------- MODULE S3CI2c -------------------------------
(***************************************************************************)
(* The I2C master (drivers/i2c/busses/i2c-s3c2410.c): the task that puts   *)
(* the first START on the bus and sleeps, the interrupt handler that walks *)
(* the messages byte by byte, the five second timeout, and the controller. *)
(*                                                                         *)
(* The I2C core holds the adapter lock around s3c24xx_i2c_xfer, so there   *)
(* is at most one call.  Addresses and data are left out: a byte on the    *)
(* bus is its kind.  The controller is external, modelled from how the     *)
(* driver drives it; it moves only while the call has its clock enabled.   *)
(***************************************************************************)
EXTENDS Integers, Sequences, SequencesExt, FiniteSetsExt

CONSTANTS
  Transfers,  \* the arrays of messages callers pass
  MayStall,   \* may a slave hold the bus for long?
  LateAnswer  \* may it let go after the call that addressed it returned?

(* struct i2c_msg: I2C_M_RD, len, I2C_M_NOSTART, I2C_M_IGNORE_NAK *)
Message == [rd: BOOLEAN, len: Nat, nostart: BOOLEAN, ign: BOOLEAN]

ASSUME I2cAssumption ==
  /\ \A t \in Transfers : t \in Seq(Message) /\ t # <<>> /\ ~t[1].nostart
  /\ {MayStall, LateAnswer} \subseteq BOOLEAN

(* Error numbers a call may return. *)
EIO == -5
ENXIO == -6
EINVAL == -22
ECONNREFUSED == -111
EREMOTEIO == -121

(* adap->retries *)
Retries == 2

VARIABLES
  i2c,       \* struct s3c24xx_i2c; msgs is the array msg points into, <<>> for NULL
  hw,        \* the controller: what it does next, and its interrupt
  call,      \* the call that holds the adapter lock, or the last one
  suspended, \* i2c->suspended
  wire,      \* what the call has put on the bus
  refused    \* the kind of byte whose missing acknowledge the call must heed

vars == <<i2c, hw, call, suspended, wire, refused>>

(***************************************************************************)
(* hw.op is what happens on the bus once the interrupt is acknowledged: a  *)
(* START with a read or a write address, a byte sent or received, a STOP.  *)
(* The bus is busy (IICSTAT bit 5) while there is one.                     *)
(***************************************************************************)
Op == {"none", "Sr", "Sw", "w", "r", "P"}

Reset == [op |-> "none", pend |-> FALSE, lastbit |-> FALSE, irqen |-> TRUE,
          acken |-> TRUE, stalled |-> FALSE]

Init ==
  /\ i2c = [state |-> "IDLE", msgs |-> <<>>, num |-> 0, idx |-> 0, ptr |-> 0]
  /\ hw = Reset
  /\ call = [pc |-> "none", msgs |-> <<>>, retry |-> 0, ret |-> 0]
  /\ suspended = FALSE
  /\ wire = <<>>
  /\ refused = "no"

-----------------------------------------------------------------------------

(* The handler and the code it calls work on the pair of driver and controller. *)
Dev == [d |-> i2c, h |-> hw]

(* i2c->msg *)
Msg(d) == d.msgs[d.idx + 1]

IsLastMsg(d) == d.idx >= d.num - 1

IsMsgLast(d) == d.ptr = Msg(d).len - 1

(* Mutation of IsMsgEnd: one byte too many. *)
IsMsgEndPast(d) == d.ptr > Msg(d).len

IsMsgEnd(d) == d.ptr >= Msg(d).len

(* s3c24xx_i2c_message_start: acknowledge enabled, START and address. *)
MessageStart(v) ==
  [d |-> [v.d EXCEPT !.state = "START"],
   h |-> [v.h EXCEPT !.acken = TRUE, !.op = IF Msg(v.d).rd THEN "Sr" ELSE "Sw"]]

(* s3c24xx_i2c_master_complete *)
MasterComplete(d, ret) ==
  [d EXCEPT !.ptr = 0, !.msgs = <<>>, !.num = 0,
            !.idx = IF ret # 0 THEN ret ELSE d.idx + 1]

(* s3c24xx_i2c_stop *)
I2cStop(v, ret) ==
  [d |-> [MasterComplete(v.d, ret) EXCEPT !.state = "STOP"],
   h |-> [v.h EXCEPT !.op = "P", !.irqen = FALSE]]

(* writeb(byte, IICDS) of the next byte of the message *)
SendByte(v) ==
  [d |-> [v.d EXCEPT !.ptr = @ + 1], h |-> [v.h EXCEPT !.op = "w"]]

(***************************************************************************)
(* From retry_write at the end of a message that is not the last: to the   *)
(* first message that needs a START, has a byte to send or is the last.    *)
(* A read cannot be continued to without a START: the handler stops with   *)
(* -EINVAL and then goes on with i2c->msg = NULL.                          *)
(***************************************************************************)
NextMessage(v) ==
  LET m == v.d.msgs
      k == Min({j \in v.d.idx + 1 .. v.d.num - 1 :
                  ~m[j + 1].nostart \/ m[j + 1].rd \/ m[j + 1].len > 0
                  \/ j = v.d.num - 1})
      n == [v EXCEPT !.d.idx = k, !.d.ptr = 0]
  IN CASE ~m[k + 1].nostart -> MessageStart(n)
       [] m[k + 1].nostart /\ m[k + 1].rd ->
            [I2cStop(n, EINVAL) EXCEPT !.d.state = "OOPS"]
       [] m[k + 1].nostart /\ ~m[k + 1].rd /\ m[k + 1].len > 0 -> SendByte(n)
       [] OTHER -> I2cStop(n, 0)

(* Not acknowledged, and the message minds. *)
Nak(v) == v.h.lastbit /\ ~Msg(v.d).ign

(* STATE_WRITE *)
Write(v) ==
  CASE Nak(v) -> I2cStop(v, ECONNREFUSED)
    [] ~Nak(v) /\ ~IsMsgEnd(v.d) -> SendByte(v)
    [] ~Nak(v) /\ IsMsgEnd(v.d) /\ ~IsLastMsg(v.d) -> NextMessage(v)
    [] OTHER -> I2cStop(v, 0)

(* Mutation of PrepareRead: the last byte is acknowledged like the others. *)
PrepareReadAcks(v) == IF IsMsgEnd(v.d) THEN I2cStop(v, 0) ELSE v

(***************************************************************************)
(* prepare_read: no acknowledge for the last byte of the last message; at  *)
(* the end of a message that is not the last there is no new START.        *)
(***************************************************************************)
PrepareRead(v) ==
  CASE IsMsgLast(v.d) -> IF IsLastMsg(v.d) THEN [v EXCEPT !.h.acken = FALSE] ELSE v
    [] ~IsMsgLast(v.d) /\ IsMsgEnd(v.d) ->
         IF IsLastMsg(v.d) THEN I2cStop(v, 0)
         ELSE [v EXCEPT !.d.idx = @ + 1, !.d.ptr = 0]
    [] OTHER -> v

(* STATE_READ *)
Read(v) == PrepareRead([v EXCEPT !.d.ptr = @ + 1])

(* STATE_START: a last message without data ends here (the probe of a bus). *)
Started(v) ==
  LET m == Msg(v.d)
      s == [v EXCEPT !.d.state = IF m.rd THEN "READ" ELSE "WRITE"]
      empty == IsLastMsg(v.d) /\ m.len = 0
  IN CASE Nak(v) -> I2cStop(v, ENXIO)
       [] ~Nak(v) /\ empty -> I2cStop(s, 0)
       [] ~Nak(v) /\ ~empty /\ m.rd -> PrepareRead(s)
       [] OTHER -> Write(s)

(***************************************************************************)
(* s3c24xx_i2c_irq and i2c_s3c_irq_nextbyte.  The messages of a call that  *)
(* returned may have been freed: what the handler does with them is not    *)
(* predicted.                                                              *)
(***************************************************************************)
NextByte(v) ==
  CASE v.d.state = "IDLE" -> v
    [] v.d.state = "STOP" -> [v EXCEPT !.h.irqen = FALSE]
    [] v.d.state \in {"START", "WRITE", "READ"} /\ call.pc \notin {"wait", "idle"} ->
         [v EXCEPT !.d.state = "OOPS"]
    [] v.d.state = "START" /\ call.pc \in {"wait", "idle"} -> Started(v)
    [] v.d.state = "WRITE" /\ call.pc \in {"wait", "idle"} -> Write(v)
    [] v.d.state = "READ" /\ call.pc \in {"wait", "idle"} -> Read(v)

-----------------------------------------------------------------------------

(* Nothing is said about what follows a wild pointer. *)
Sane == i2c.state # "OOPS"

(* The end of the handler: IRQPEND is cleared and the controller goes on. *)
Irq ==
  /\ Sane
  /\ hw.pend /\ hw.irqen
  /\ LET v == NextByte(Dev) IN
     /\ i2c' = v.d
     /\ hw' = [v.h EXCEPT !.pend = FALSE]
  /\ UNCHANGED <<call, suspended, wire, refused>>

(* s3c24xx_i2c_xfer takes the clock, or fails at once while suspended. *)
Call(t) ==
  /\ Sane
  /\ call.pc = "none"
  /\ call' = IF suspended THEN [call EXCEPT !.ret = EIO]
             ELSE [pc |-> "try", msgs |-> t, retry |-> 0, ret |-> 0]
  /\ UNCHANGED <<i2c, hw, suspended, wire, refused>>

(* s3c24xx_i2c_doxfer once s3c24xx_i2c_set_master found the bus free. *)
DoXfer ==
  /\ Sane
  /\ call.pc = "try" /\ hw.op = "none"
  /\ LET v == MessageStart(
                [d |-> [i2c EXCEPT !.msgs = call.msgs, !.num = Len(call.msgs),
                                   !.ptr = 0, !.idx = 0],
                 h |-> [hw EXCEPT !.irqen = TRUE]])
     IN i2c' = v.d /\ hw' = v.h
  /\ call' = [call EXCEPT !.pc = "wait"]
  /\ wire' = <<>>
  /\ refused' = "no"
  /\ UNCHANGED suspended

(* Mutation of BusBusy: the retries are not counted. *)
BusBusyForever ==
  /\ Sane
  /\ call.pc = "try" /\ hw.op # "none" /\ hw.stalled
  /\ UNCHANGED vars

(* s3c24xx_i2c_set_master gave up after 400 ms: try again, or -EREMOTEIO. *)
BusBusy ==
  /\ Sane
  /\ call.pc = "try" /\ hw.op # "none" /\ hw.stalled
  /\ call' = IF call.retry + 1 < Retries THEN [call EXCEPT !.retry = @ + 1]
             ELSE [call EXCEPT !.pc = "none", !.msgs = <<>>, !.ret = EREMOTEIO]
  /\ UNCHANGED <<i2c, hw, suspended, wire, refused>>

(* wait_event_timeout sees i2c->msg_num = 0. *)
Woken ==
  /\ Sane
  /\ call.pc = "wait" /\ i2c.num = 0
  /\ call' = [call EXCEPT !.pc = "idle", !.ret = i2c.idx]
  /\ UNCHANGED <<i2c, hw, suspended, wire, refused>>

(* Mutation of Timeout: the timeout is too short for the transfer. *)
TimeoutShort ==
  /\ Sane
  /\ call.pc = "wait" /\ i2c.num # 0
  /\ call' = [call EXCEPT !.pc = "idle", !.ret = i2c.idx]
  /\ UNCHANGED <<i2c, hw, suspended, wire, refused>>

(* Five seconds pass: the driver's state and the interrupt are left alone. *)
Timeout ==
  /\ Sane
  /\ call.pc = "wait" /\ i2c.num # 0 /\ hw.stalled
  /\ call' = [call EXCEPT !.pc = "idle", !.ret = i2c.idx]
  /\ UNCHANGED <<i2c, hw, suspended, wire, refused>>

(***************************************************************************)
(* s3c24xx_i2c_wait_idle saw the bus idle, or gave up after 5 ms, which a  *)
(* STOP under way needs only if the bus is held; the clock is disabled and *)
(* the call returns.                                                       *)
(***************************************************************************)
WaitIdle ==
  /\ Sane
  /\ call.pc = "idle"
  /\ hw.op # "P" \/ hw.stalled
  /\ call' = [call EXCEPT !.pc = "none", !.msgs = <<>>]
  /\ wire' = <<>>
  /\ refused' = "no"
  /\ UNCHANGED <<i2c, hw, suspended>>

(* Tasks are frozen first, so no call is under way; sleep loses the registers. *)
Suspend ==
  /\ Sane
  /\ call.pc = "none" /\ ~suspended
  /\ suspended' = TRUE
  /\ hw' = Reset
  /\ UNCHANGED <<i2c, call, wire, refused>>

(* s3c24xx_i2c_resume, s3c24xx_i2c_init *)
Resume ==
  /\ Sane
  /\ suspended
  /\ suspended' = FALSE
  /\ hw' = [hw EXCEPT !.irqen = TRUE, !.acken = TRUE]
  /\ UNCHANGED <<i2c, call, wire, refused>>

-----------------------------------------------------------------------------

ClockOn == call.pc # "none"

(* A byte is on the bus. *)
Moving == Sane /\ ClockOn /\ ~hw.pend /\ hw.op \in {"Sr", "Sw", "w", "r"}

(* The slave stretches the clock. *)
HwStall ==
  /\ MayStall
  /\ Sane /\ ClockOn /\ ~hw.pend /\ hw.op # "none" /\ ~hw.stalled
  /\ hw' = [hw EXCEPT !.stalled = TRUE]
  /\ UNCHANGED <<i2c, call, suspended, wire, refused>>

(***************************************************************************)
(* A byte ends.  The receiver acknowledges it or not, and the controller   *)
(* waits with the interrupt pending.                                       *)
(***************************************************************************)
HwByte ==
  /\ Moving
  /\ hw.stalled => LateAnswer \/ call.pc = "wait"
  /\ \E nak \in IF hw.op = "r" THEN {~hw.acken} ELSE BOOLEAN :
       /\ hw' = [hw EXCEPT !.pend = TRUE, !.lastbit = nak, !.stalled = FALSE,
                           !.op = IF hw.op \in {"Sr", "r"} THEN "r" ELSE "w"]
       /\ wire' = Append(wire, IF hw.op # "r" THEN hw.op
                               ELSE IF nak THEN "r-" ELSE "r+")
       /\ refused' = IF nak /\ hw.op # "r" /\ ~Msg(i2c).ign THEN hw.op ELSE refused
  /\ UNCHANGED <<i2c, call, suspended>>

(* The STOP condition has been through the bus. *)
HwStop ==
  /\ Sane /\ ClockOn /\ ~hw.pend /\ hw.op = "P"
  /\ hw' = [hw EXCEPT !.op = "none", !.stalled = FALSE]
  /\ wire' = Append(wire, "P")
  /\ UNCHANGED <<i2c, call, suspended, refused>>

Next ==
  \/ \E t \in Transfers : Call(t)
  \/ Irq
  \/ DoXfer
  \/ BusBusy
  \/ Woken
  \/ Timeout
  \/ WaitIdle
  \/ Suspend
  \/ Resume
  \/ HwStall
  \/ HwByte
  \/ HwStop

Spec == Init /\ [][Next]_vars

(* Interrupts are taken, the task runs, timers expire, and the bus moves    *)
(* unless a slave holds it.                                                 *)
FairSpec ==
  /\ Spec
  /\ WF_vars(Irq) /\ WF_vars(DoXfer) /\ WF_vars(BusBusy)
  /\ WF_vars(Woken) /\ WF_vars(Timeout) /\ WF_vars(WaitIdle)
  /\ WF_vars(~hw.stalled /\ (HwByte \/ HwStop))

-----------------------------------------------------------------------------

(* Types of the driver, the controller and the call.  While a transfer is   *)
(* under way the cursor is inside the array of messages, and the handler    *)
(* never follows a pointer to messages that are gone (OOPS).                *)
TypeOK ==
  /\ i2c.state \in {"IDLE", "START", "READ", "WRITE", "STOP"}
  /\ i2c.msgs \in Transfers \cup {<<>>} /\ i2c.num = Len(i2c.msgs)
  /\ i2c.state \in {"START", "READ", "WRITE"} =>
       /\ i2c.idx \in 0..i2c.num - 1
       /\ i2c.ptr \in Nat
  /\ hw.op \in Op
  /\ {hw.pend, hw.lastbit, hw.irqen, hw.acken, hw.stalled} \subseteq BOOLEAN
  /\ call.pc \in {"none", "try", "wait", "idle"}
  /\ call.msgs \in Transfers \cup {<<>>} /\ call.retry < Retries
  /\ suspended \in BOOLEAN
  /\ refused \in {"no", "Sr", "Sw", "w"}

(***************************************************************************)
(* Reference: what a transfer puts on the bus.  Each message begins with a *)
(* START unless it says otherwise, all its bytes follow, the last byte of  *)
(* a read that ends the transfer is not acknowledged, and one STOP ends    *)
(* it.                                                                     *)
(***************************************************************************)
OnWire(t, k) ==
  (IF t[k].nostart THEN <<>> ELSE <<IF t[k].rd THEN "Sr" ELSE "Sw">>)
  \o [i \in 1..t[k].len |->
        IF ~t[k].rd THEN "w"
        ELSE IF k = Len(t) /\ i = t[k].len THEN "r-" ELSE "r+"]

Bytes(t) == FlattenSeq([k \in 1..Len(t) |-> OnWire(t, k)])

(* The bus as it will be when the STOP under way is through. *)
Settled == IF hw.op = "P" THEN Append(wire, "P") ELSE wire

(* The task has its result and waits for the bus to become idle. *)
HasResult == call.pc = "idle"

(***************************************************************************)
(* A call that returns the number of its messages put exactly these        *)
(* messages on the bus, start to stop, and every byte that had to be       *)
(* acknowledged was: no timeout, stalled bus, earlier failure or suspend   *)
(* makes the handler skip, repeat or misattribute a byte.                  *)
(***************************************************************************)
SuccessExact ==
  HasResult /\ call.ret = Len(call.msgs) =>
    Settled = Append(Bytes(call.msgs), "P") /\ refused = "no"

(***************************************************************************)
(* A call that returns -ENXIO (-ECONNREFUSED) sent the messages correctly  *)
(* up to an address (a data byte) that was refused, and then only a STOP.  *)
(***************************************************************************)
RefusalExact ==
  HasResult /\ call.ret \in {ENXIO, ECONNREFUSED} =>
    LET n == Len(Settled) - 1 IN
    /\ Settled = Append(SubSeq(Bytes(call.msgs), 1, n), "P")
    /\ refused = Settled[n]
    /\ call.ret = ENXIO <=> refused \in {"Sr", "Sw"}

(* Results agree with the bus, for success and refusal. *)
ResultExact == SuccessExact /\ RefusalExact

(* A byte that arrives in STATE_READ has a place in the caller's buffer. *)
InBounds ==
  hw.pend /\ i2c.state = "READ" => i2c.ptr < Msg(i2c).len

(* A call always returns, whatever the slave does: the handler reaches the  *)
(* end of every transfer or the timeout does.                               *)
CallReturns == [](ClockOn => <>~ClockOn)
=============================================================================
