------------------------------- MODULE S3CIrq -------------------------------
(***************************************************************************)
(* One parent of the interrupt controller with its sub-interrupts          *)
(* (arch/arm/mach-s3c24xx/irq.c): UARTn with RX, TX and ERR, which are     *)
(* level interrupts, INT_ADC with TC and ADC, or EINT8-23, which are edge  *)
(* interrupts.  Devices raise the sub-interrupts at any moment, tasks      *)
(* enable and disable them, and the parent's chained handler,              *)
(* s3c_irq_demux, hands those it found pending to the flow handlers of the *)
(* generic interrupt layer.                                                *)
(*                                                                         *)
(* Interrupts are off from the demultiplexer's entry to its exit and in    *)
(* the mask and unmask calls of tasks, so neither a task nor another       *)
(* interrupt comes between; devices do.                                    *)
(***************************************************************************)
EXTENDS Naturals, FiniteSets, FiniteSetsExt

CONSTANTS
  Sub,     \* the sub-interrupts: the bits of sub_bits
  Level    \* those of type S3C_IRQTYPE_LEVEL

ASSUME IrqAssumption == Sub \subseteq Nat /\ IsFiniteSet(Sub) /\ Level \subseteq Sub

VARIABLES
  line,      \* level sub-interrupts whose device keeps its request up
  subpnd,    \* SUBSRCPND (or EINTPEND)
  submsk,    \* INTSUBMSK (or EINTMASK)
  main,      \* the parent's bits of SRCPND, INTPND and INTMSK
  desc,      \* genirq: those with IRQD_IRQ_DISABLED, those with IRQS_PENDING
  resend,    \* genirq: the bitmap irqs_resend
  src,       \* what s3c_irq_demux still has to handle
  in_demux,  \* s3c_irq_demux is running
  raised     \* requests of devices no handler has seen yet

irqvars == <<line, subpnd, submsk, main, desc, resend, src, in_demux, raised>>

(* Nothing is requested yet: irq_startup is the first IrqEnable. *)
IrqInit ==
  /\ line = {} /\ subpnd = {} /\ submsk = Sub
  /\ main = [pnd |-> FALSE, intpnd |-> FALSE, msk |-> TRUE]
  /\ desc = [disabled |-> Sub, pending |-> {}]
  /\ resend = {} /\ src = {} /\ in_demux = FALSE /\ raised = {}

-----------------------------------------------------------------------------

(* Mutation of SubAck: the register is written back as it was read. *)
SubAckAll(s) == {}

(* s3c_irq_ack of a sub-interrupt *)
SubAck(s) == subpnd \ {s}

(* s3c_irq_ack of the parent, SRCPND before INTPND *)
MainAck(m) == [m EXCEPT !.pnd = FALSE, !.intpnd = FALSE]

(* s3c_irq_mask: masking the last sub-interrupt masks the parent. *)
MainAfterMask(m, msk) == [m EXCEPT !.msk = @ \/ msk = Sub]

(* Mutation of MainAfterUnmask: the parent is left as it is. *)
MainAfterUnmaskNot(m) == m

(* s3c_irq_unmask: unmasking a sub-interrupt unmasks the parent. *)
MainAfterUnmask(m) == [m EXCEPT !.msk = FALSE]

(***************************************************************************)
(* The flow handlers.  One that is disabled is noted, masked and           *)
(* acknowledged.                                                           *)
(***************************************************************************)
FlowDisabled(s) ==
  /\ s \in desc.disabled
  /\ subpnd' = SubAck(s)
  /\ submsk' = submsk \cup {s}
  /\ main' = MainAfterMask(main, submsk')
  /\ desc' = [desc EXCEPT !.pending = @ \cup {s}]
  /\ UNCHANGED <<line, raised>>

(* handle_edge_irq: acknowledge, then call the handler. *)
FlowEdge(s) ==
  /\ s \notin desc.disabled /\ s \notin Level
  /\ subpnd' = SubAck(s)
  /\ raised' = raised \ {s}
  /\ UNCHANGED <<line, submsk, main, desc>>

(***************************************************************************)
(* handle_level_irq: mask and acknowledge, call the handler, which makes   *)
(* its device take the request back and may disable its own interrupt,     *)
(* and unmask again unless it did.                                         *)
(***************************************************************************)
FlowLevel(s, quits) ==
  /\ s \notin desc.disabled /\ s \in Level
  /\ subpnd' = SubAck(s)
  /\ line' = line \ {s}
  /\ raised' = raised \ {s}
  /\ submsk' = IF quits THEN submsk \cup {s} ELSE submsk
  /\ main' = IF quits THEN MainAfterMask(main, submsk')
             ELSE MainAfterUnmask(MainAfterMask(main, submsk \cup {s}))
  /\ desc' = [desc EXCEPT !.disabled = IF quits THEN @ \cup {s} ELSE @]

Flow(s) == FlowDisabled(s) \/ FlowEdge(s) \/ \E quits \in BOOLEAN : FlowLevel(s, quits)

-----------------------------------------------------------------------------

(***************************************************************************)
(* The CPU takes the parent's interrupt: chained_irq_enter masks and       *)
(* acknowledges it, then the unmasked pending sub-interrupts are read.     *)
(***************************************************************************)
DemuxEnter ==
  /\ main.intpnd /\ ~in_demux
  /\ main' = [MainAck(main) EXCEPT !.msk = TRUE]
  /\ src' = subpnd \ submsk
  /\ in_demux' = TRUE
  /\ UNCHANGED <<line, subpnd, submsk, desc, resend, raised>>

(* generic_handle_irq of the lowest one *)
DemuxChild ==
  /\ in_demux /\ src # {}
  /\ Flow(Min(src))
  /\ src' = src \ {Min(src)}
  /\ UNCHANGED <<resend, in_demux>>

(* Mutation of DemuxExit: the parent is acknowledged here, and stays masked. *)
DemuxExitMasked ==
  /\ in_demux /\ src = {}
  /\ main' = MainAck(main)
  /\ in_demux' = FALSE
  /\ UNCHANGED <<line, subpnd, submsk, desc, resend, src, raised>>

(* chained_irq_exit *)
DemuxExit ==
  /\ in_demux /\ src = {}
  /\ main' = MainAfterUnmask(main)
  /\ in_demux' = FALSE
  /\ UNCHANGED <<line, subpnd, submsk, desc, resend, src, raised>>

(* disable_irq only notes it: the chips have no irq_disable. *)
IrqDisable(s) ==
  /\ ~in_demux
  /\ desc' = [desc EXCEPT !.disabled = @ \cup {s}]
  /\ UNCHANGED <<line, subpnd, submsk, main, resend, src, in_demux, raised>>

(* enable_irq and irq_startup unmask, and resend what was noted meanwhile. *)
IrqEnable(s) ==
  /\ ~in_demux
  /\ s \in desc.disabled
  /\ submsk' = submsk \ {s}
  /\ main' = MainAfterUnmask(main)
  /\ desc' = [disabled |-> desc.disabled \ {s}, pending |-> desc.pending \ {s}]
  /\ resend' = resend \cup (desc.pending \cap {s})
  /\ UNCHANGED <<line, subpnd, src, in_demux, raised>>

(* The resend tasklet calls the flow handler. *)
Resend(s) ==
  /\ ~in_demux
  /\ s \in resend
  /\ resend' = resend \ {s}
  /\ Flow(s)
  /\ UNCHANGED <<src, in_demux>>

-----------------------------------------------------------------------------

(* A device requests an interrupt. *)
Raise(s) ==
  /\ raised' = raised \cup {s}
  /\ subpnd' = subpnd \cup {s}
  /\ line' = line \cup ({s} \cap Level)
  /\ UNCHANGED <<submsk, main, desc, resend, src, in_demux>>

(* A request that is still up is latched again. *)
HwLine ==
  /\ \E s \in line \ subpnd : subpnd' = subpnd \cup {s}
  /\ UNCHANGED <<line, submsk, main, desc, resend, src, in_demux, raised>>

(* Unmasked pending sub-interrupts keep setting the parent's bit of SRCPND ... *)
HwPending ==
  /\ ~main.pnd /\ subpnd \ submsk # {}
  /\ main' = [main EXCEPT !.pnd = TRUE]
  /\ UNCHANGED <<line, subpnd, submsk, desc, resend, src, in_demux, raised>>

(* ... which sets that of INTPND unless the parent is masked. *)
HwArbitrate ==
  /\ main.pnd /\ ~main.msk /\ ~main.intpnd
  /\ main' = [main EXCEPT !.intpnd = TRUE]
  /\ UNCHANGED <<line, subpnd, submsk, desc, resend, src, in_demux, raised>>

IrqNext ==
  \/ DemuxEnter \/ DemuxChild \/ DemuxExit
  \/ \E s \in Sub : IrqDisable(s) \/ IrqEnable(s) \/ Resend(s) \/ Raise(s)
  \/ HwLine \/ HwPending \/ HwArbitrate

IrqSpec == IrqInit /\ [][IrqNext]_irqvars

(***************************************************************************)
(* The controller latches, the CPU takes interrupts and finishes their     *)
(* handlers.  The resend tasklet runs when an interrupt has been handled,  *)
(* at the latest in ksoftirqd, however many interrupts there are, and      *)
(* walks the whole bitmap.                                                 *)
(***************************************************************************)
FairIrqSpec ==
  /\ IrqSpec
  /\ WF_irqvars(HwLine)
  /\ WF_irqvars(HwPending)
  /\ WF_irqvars(HwArbitrate)
  /\ WF_irqvars(DemuxEnter \/ DemuxChild \/ DemuxExit)
  /\ \A s \in Sub : SF_irqvars(Resend(s))

-----------------------------------------------------------------------------

(* Types of the registers and of what genirq remembers. *)
IrqTypeOK ==
  /\ line \subseteq Level /\ subpnd \subseteq Sub /\ submsk \subseteq Sub
  /\ main \in [pnd: BOOLEAN, intpnd: BOOLEAN, msk: BOOLEAN]
  /\ desc \in [disabled: SUBSET Sub, pending: SUBSET Sub] /\ resend \subseteq Sub
  /\ src \subseteq Sub /\ in_demux \in BOOLEAN /\ (src # {} => in_demux)
  /\ raised \subseteq Sub

(***************************************************************************)
(* The way of an enabled sub-interrupt to the CPU is open whenever no      *)
(* handler runs, although masking a sibling may mask the parent and the    *)
(* demultiplexer masks it, too.                                            *)
(***************************************************************************)
EnabledIsOpen ==
  \A s \in Sub \ desc.disabled : s \notin submsk /\ (main.msk => in_demux)

(* The masks agree with what tasks enabled. *)
IrqInv == IrqTypeOK /\ EnabledIsOpen

(***************************************************************************)
(* A request no handler has seen is still known: the device keeps it up,   *)
(* it is latched, or genirq noted it.  Neither the demultiplexer's one     *)
(* reading nor the acknowledge of a sibling drops it.                      *)
(***************************************************************************)
NoneLost == raised \subseteq line \cup subpnd \cup desc.pending \cup resend

(* Every request of a sub-interrupt that is not disabled again is handled. *)
RequestHandled ==
  \A s \in Sub : (s \in raised) ~> (s \notin raised \/ s \in desc.disabled)
=============================================================================
