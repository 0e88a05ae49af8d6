---------------------------- MODULE S3CIrqProofs ----------------------------
(***************************************************************************)
(* Proofs about the interrupt controller, for any sub-interrupts and any   *)
(* choice of those that are level interrupts.                              *)
(***************************************************************************)
EXTENDS S3CIrq, WellFoundedInduction, TLAPS

-----------------------------------------------------------------------------

(* __ffs in s3c_irq_demux picks one of the bits that are set. *)
LEMMA MinIsMember ==
  ASSUME NEW T, T \subseteq Nat, T # {}
  PROVE  Min(T) \in T
<1> DEFINE R == {ss \in Nat \X Nat : ss[1] < ss[2]}
<1>1. PICK x \in T : \A y \in T : ~ (<<y, x>> \in R)
  <2>1. IsWellFoundedOn(R, Nat)
    BY NatLessThanWellFounded DEF OpToRel
  <2> HIDE DEF R
  <2>2. QED
    BY <2>1, WFMin
<1>2. ASSUME NEW y \in T, ~(x =< y)
      PROVE  FALSE
  <2>1. x \in Nat /\ y \in Nat /\ y < x
    BY <1>2
  <2>2. <<y, x>> \in Nat \X Nat /\ <<y, x>>[1] = y /\ <<y, x>>[2] = x
    BY <2>1
  <2>3. <<y, x>> \in R
    BY <2>1, <2>2
  <2>4. QED
    BY <1>1, <2>3
<1>3. QED
  BY <1>1, <1>2 DEF Min

(* s3c_irq_mask and s3c_irq_unmask change the mask bit only. *)
LEMMA MainTyped ==
  ASSUME NEW m \in [pnd: BOOLEAN, intpnd: BOOLEAN, msk: BOOLEAN], NEW msk
  PROVE  /\ MainAfterMask(m, msk) \in [pnd: BOOLEAN, intpnd: BOOLEAN, msk: BOOLEAN]
         /\ MainAfterUnmask(m) \in [pnd: BOOLEAN, intpnd: BOOLEAN, msk: BOOLEAN]
         /\ MainAck(m) \in [pnd: BOOLEAN, intpnd: BOOLEAN, msk: BOOLEAN]
         /\ MainAfterMask(m, msk).msk <=> (m.msk \/ msk = Sub)
         /\ ~MainAfterUnmask(m).msk
         /\ MainAck(m).msk = m.msk
  BY DEF MainAfterMask, MainAfterUnmask, MainAck

(* What the flow handlers touch, with its types. *)
FlowTypeOK ==
  /\ line \subseteq Level /\ subpnd \subseteq Sub /\ submsk \subseteq Sub
  /\ main \in [pnd: BOOLEAN, intpnd: BOOLEAN, msk: BOOLEAN]
  /\ desc \in [disabled: SUBSET Sub, pending: SUBSET Sub]
  /\ raised \subseteq Sub

(* The flow handlers keep the types. *)
LEMMA FlowTyped ==
  ASSUME FlowTypeOK, NEW s \in Sub, Flow(s)
  PROVE  FlowTypeOK'
<1>1. CASE FlowDisabled(s)
  BY <1>1, MainTyped DEF FlowTypeOK, FlowDisabled, SubAck
<1>2. CASE FlowEdge(s)
  BY <1>2 DEF FlowTypeOK, FlowEdge, SubAck
<1>3. ASSUME NEW quits \in BOOLEAN, FlowLevel(s, quits)
      PROVE  FlowTypeOK'
  BY <1>3, MainTyped DEF FlowTypeOK, FlowLevel, SubAck
<1>4. QED
  BY <1>1, <1>2, <1>3 DEF Flow

(***************************************************************************)
(* The flow handlers keep the way of the enabled sub-interrupts open: one  *)
(* masks the parent only if all are masked, and then none is enabled.      *)
(***************************************************************************)
LEMMA FlowOpen ==
  ASSUME FlowTypeOK, EnabledIsOpen, in_demux \in BOOLEAN, NEW s \in Sub, Flow(s),
         in_demux' = in_demux
  PROVE  EnabledIsOpen'
<1>1. CASE FlowDisabled(s)
  BY <1>1, MainTyped DEF FlowTypeOK, EnabledIsOpen, FlowDisabled
<1>2. CASE FlowEdge(s)
  BY <1>2 DEF EnabledIsOpen, FlowEdge
<1>3. ASSUME NEW quits \in BOOLEAN, FlowLevel(s, quits)
      PROVE  EnabledIsOpen'
  <2>1. CASE quits
    <3>1. /\ desc'.disabled = desc.disabled \cup {s}
          /\ submsk' = submsk \cup {s}
          /\ main'.msk <=> (main.msk \/ submsk' = Sub)
      BY <1>3, <2>1, MainTyped DEF FlowTypeOK, FlowLevel
    <3>2. QED
      BY <3>1 DEF FlowTypeOK, EnabledIsOpen
  <2>2. CASE ~quits
    <3>1. desc'.disabled = desc.disabled /\ submsk' = submsk /\ ~main'.msk
      BY <1>3, <2>2, MainTyped DEF FlowTypeOK, FlowLevel
    <3>2. QED
      BY <3>1 DEF EnabledIsOpen
  <2>3. QED
    BY <2>1, <2>2
<1>4. QED
  BY <1>1, <1>2, <1>3 DEF Flow

(* Requests that are known: held up, latched, or noted by the generic layer. *)
Known == line \cup subpnd \cup desc.pending

(* A flow handler forgets a request only when a handler has seen it. *)
LEMMA FlowKnows ==
  ASSUME FlowTypeOK, NEW s \in Sub, Flow(s)
  PROVE  /\ raised' \subseteq raised
         /\ Known \ {s} \subseteq Known'
         /\ s \in raised' => s \in Known'
<1>1. CASE FlowDisabled(s)
  BY <1>1 DEF FlowTypeOK, Known, FlowDisabled, SubAck
<1>2. CASE FlowEdge(s)
  BY <1>2 DEF FlowTypeOK, Known, FlowEdge, SubAck
<1>3. ASSUME NEW quits \in BOOLEAN, FlowLevel(s, quits)
      PROVE  /\ raised' \subseteq raised
             /\ Known \ {s} \subseteq Known'
             /\ s \in raised' => s \in Known'
  BY <1>3 DEF FlowTypeOK, Known, FlowLevel, SubAck
<1>4. QED
  BY <1>1, <1>2, <1>3 DEF Flow

-----------------------------------------------------------------------------

(* The types that the flow handlers do not touch come on top. *)
IrqTypeAndFlow == IrqTypeOK <=> /\ FlowTypeOK /\ resend \subseteq Sub /\ src \subseteq Sub
                                /\ in_demux \in BOOLEAN /\ (src # {} => in_demux)

(* The invariant: the types, the masks and the requests that are known. *)
IrqGood == IrqInv /\ NoneLost

(* The two ways of writing the type invariant agree, in both states of a step. *)
LEMMA TypeSplit == IrqTypeAndFlow /\ IrqTypeAndFlow'
  BY DEF IrqTypeAndFlow, IrqTypeOK, FlowTypeOK

(* The demultiplexer hands the next pending sub-interrupt to its flow handler. *)
LEMMA ChildStep ==
  ASSUME IrqGood, DemuxChild
  PROVE  IrqGood'
<1>1. Min(src) \in src /\ Min(src) \in Sub
  BY MinIsMember, IrqAssumption DEF IrqGood, IrqInv, IrqTypeOK, DemuxChild
<1> DEFINE s == Min(src)
<1>2. /\ FlowTypeOK /\ EnabledIsOpen /\ in_demux \in BOOLEAN /\ NoneLost
      /\ resend \subseteq Sub /\ src \subseteq Sub
  BY TypeSplit DEF IrqGood, IrqInv, IrqTypeAndFlow
<1>3. s \in Sub /\ Flow(s) /\ src' = src \ {s} /\ in_demux /\ in_demux' = in_demux /\ resend' = resend
  BY <1>1 DEF DemuxChild
<1> HIDE DEF s
<1>4. FlowTypeOK'
  BY <1>2, <1>3, FlowTyped
<1>5. EnabledIsOpen'
  BY <1>2, <1>3, FlowOpen
<1>6. NoneLost'
  BY <1>2, <1>3, FlowKnows DEF NoneLost, Known
<1>7. IrqTypeOK'
  BY <1>2, <1>3, <1>4, TypeSplit DEF IrqTypeAndFlow
<1>8. QED
  BY <1>5, <1>6, <1>7 DEF IrqGood, IrqInv

(* A resent interrupt goes through its flow handler like any other. *)
LEMMA ResendStep ==
  ASSUME IrqGood, NEW s \in Sub, Resend(s)
  PROVE  IrqGood'
<1>1. /\ FlowTypeOK /\ EnabledIsOpen /\ in_demux \in BOOLEAN /\ NoneLost
      /\ resend \subseteq Sub /\ src \subseteq Sub /\ (src # {} => in_demux)
  BY TypeSplit DEF IrqGood, IrqInv, IrqTypeAndFlow
<1>2. Flow(s) /\ resend' = resend \ {s} /\ src' = src /\ in_demux' = in_demux
  BY DEF Resend
<1>3. FlowTypeOK'
  BY <1>1, <1>2, FlowTyped
<1>4. EnabledIsOpen'
  BY <1>1, <1>2, FlowOpen
<1>5. NoneLost'
  BY <1>1, <1>2, FlowKnows DEF NoneLost, Known
<1>6. IrqTypeOK'
  BY <1>1, <1>2, <1>3, TypeSplit DEF IrqTypeAndFlow
<1>7. QED
  BY <1>4, <1>5, <1>6 DEF IrqGood, IrqInv

(* The demultiplexer's entry and exit: the parent is masked only meanwhile. *)
LEMMA DemuxStep ==
  ASSUME IrqGood, DemuxEnter \/ DemuxExit
  PROVE  IrqGood'
<1>1. CASE DemuxEnter
  BY <1>1 DEF IrqGood, IrqInv, IrqTypeOK, EnabledIsOpen, NoneLost, DemuxEnter, MainAck
<1>2. CASE DemuxExit
  BY <1>2, MainTyped DEF IrqGood, IrqInv, IrqTypeOK, EnabledIsOpen, NoneLost, DemuxExit
<1>3. QED
  BY <1>1, <1>2

(* disable_irq and enable_irq: what was noted is resent. *)
LEMMA TaskStep ==
  ASSUME IrqGood, NEW s \in Sub, IrqDisable(s) \/ IrqEnable(s)
  PROVE  IrqGood'
<1>1. CASE IrqDisable(s)
  BY <1>1 DEF IrqGood, IrqInv, IrqTypeOK, EnabledIsOpen, NoneLost, IrqDisable
<1>2. CASE IrqEnable(s)
  <2>1. ~main'.msk /\ main' \in [pnd: BOOLEAN, intpnd: BOOLEAN, msk: BOOLEAN]
    BY <1>2, MainTyped DEF IrqGood, IrqInv, IrqTypeOK, IrqEnable
  <2>2. QED
    BY <1>2, <2>1 DEF IrqGood, IrqInv, IrqTypeOK, EnabledIsOpen, NoneLost, IrqEnable
<1>3. QED
  BY <1>1, <1>2

(* The devices and the controller. *)
LEMMA HwStep ==
  ASSUME IrqGood, (\E s \in Sub : Raise(s)) \/ HwLine \/ HwPending \/ HwArbitrate
  PROVE  IrqGood'
<1>1. ASSUME NEW s \in Sub, Raise(s)
      PROVE  IrqGood'
  BY <1>1 DEF IrqGood, IrqInv, IrqTypeOK, EnabledIsOpen, NoneLost, Raise
<1>2. CASE HwLine
  BY <1>2, IrqAssumption DEF IrqGood, IrqInv, IrqTypeOK, EnabledIsOpen, NoneLost, HwLine
<1>3. CASE HwPending
  BY <1>3 DEF IrqGood, IrqInv, IrqTypeOK, EnabledIsOpen, NoneLost, HwPending
<1>4. CASE HwArbitrate
  BY <1>4 DEF IrqGood, IrqInv, IrqTypeOK, EnabledIsOpen, NoneLost, HwArbitrate
<1>5. QED
  BY <1>1, <1>2, <1>3, <1>4

(* The invariant holds in every reachable state. *)
THEOREM IrqGoodAlways == IrqSpec => []IrqGood
<1>1. IrqInit => IrqGood
  <2> SUFFICES ASSUME IrqInit
               PROVE  IrqGood
    OBVIOUS
  <2>1. /\ main \in [pnd: BOOLEAN, intpnd: BOOLEAN, msk: BOOLEAN]
        /\ desc \in [disabled: SUBSET Sub, pending: SUBSET Sub] /\ desc.disabled = Sub
    BY DEF IrqInit
  <2>2. QED
    BY <2>1 DEF IrqInit, IrqGood, IrqInv, IrqTypeOK, EnabledIsOpen, NoneLost
<1>2. IrqGood /\ [IrqNext]_irqvars => IrqGood'
  <2> SUFFICES ASSUME IrqGood, [IrqNext]_irqvars
               PROVE  IrqGood'
    OBVIOUS
  <2>1. CASE UNCHANGED irqvars
    BY <2>1 DEF IrqGood, IrqInv, IrqTypeOK, EnabledIsOpen, NoneLost, irqvars
  <2>2. CASE IrqNext
    BY <2>2, ChildStep, ResendStep, DemuxStep, TaskStep, HwStep DEF IrqNext
  <2>3. QED
    BY <2>1, <2>2
<1>3. QED
  BY <1>1, <1>2, PTL DEF IrqSpec

(* The masks agree with what is enabled: s3c_irq_mask, s3c_irq_unmask and  *)
(* s3c_irq_demux never close the way of an enabled sub-interrupt.          *)
THEOREM IrqEnabledIsOpen == IrqSpec => []IrqInv
  BY IrqGoodAlways, PTL DEF IrqGood

(* No request of a device is dropped between the demultiplexer's reading,  *)
(* the acknowledges of s3c_irq_ack and the generic layer.                  *)
THEOREM IrqNoneLost == IrqSpec => []NoneLost
  BY IrqGoodAlways, PTL DEF IrqGood
=============================================================================
