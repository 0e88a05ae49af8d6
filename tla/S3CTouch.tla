------------------------------ MODULE S3CTouch ------------------------------
(***************************************************************************)
(* The touchscreen driver (drivers/input/touchscreen/s3c2410_ts.c) on top  *)
(* of the ADC core.  The core calls it back when it selects, converts for  *)
(* or deselects the touchscreen client; the pen interrupt and the timer    *)
(* softirq call s3c_adc_start.                                             *)
(*                                                                         *)
(* Interrupt handlers are single steps.  The timer function runs with      *)
(* interrupts enabled: it is split where a handler can observe or change   *)
(* what it reads and writes (tpc is its program counter).  Tasks run only  *)
(* when the softirq is over.  Coordinates are left out: xp and yp are      *)
(* accumulated and reset together with count.                              *)
(***************************************************************************)
EXTENDS S3CAdc

CONSTANTS
  CountCap,    \* ts.count saturates here (without suspend it stays <= Samples)
  RemoveWhen   \* when the driver may be unbound: "never", "idle", "any"

ASSUME TouchAssumption ==
  /\ CountCap \in Nat /\ CountCap > Samples
  /\ RemoveWhen \in {"never", "idle", "any"}

VARIABLES
  pen_is_down,  \* ts.pen_is_down
  count,        \* ts.count
  adctsc,       \* the mode in the ADCTSC register
  updn,         \* the latched bits of ADCUPDN; non-empty: IRQ_TC is pending
  timer,        \* touch_timer is armed
  tpc,          \* where touch_timer_fire is
  touch,        \* the last BTN_TOUCH reported
  pen,          \* is the stylus on the panel? (environment)
  ts_susp,      \* between s3c2410ts_suspend and s3c2410ts_resume
  bound         \* "yes"; "noirq" inside s3c2410ts_remove; "no" after it

driver == <<pen_is_down, count, adctsc, updn, timer, tpc, touch, ts_susp, bound>>
tsvars == <<adcvars, pen_is_down, count, adctsc, updn, timer, tpc, touch, pen,
            ts_susp, bound>>

TimerPC == {"idle", "down", "report", "start", "up", "rearm"}

(* s3c2410ts_probe, which ends in waiting_for_pen_down. *)
TouchInit ==
  /\ Init
  /\ pen_is_down = FALSE
  /\ count = 0
  /\ adctsc = "INT_DOWN"
  /\ updn = {}
  /\ timer = FALSE
  /\ tpc = "idle"
  /\ touch = FALSE
  /\ pen = FALSE
  /\ ts_susp = FALSE
  /\ bound = "yes"

-----------------------------------------------------------------------------
(* The ADC core's calls of s3c24xx_ts_select and s3c24xx_ts_conversion.    *)

(* s3c24xx_ts_select(client, 1), if the step selects the touchscreen. *)
TsSelect ==
  adctsc' = IF cur # TsClient /\ cur' = TsClient THEN "AUTOPST" ELSE adctsc

(* A step of a task in the ADC core. *)
TaskStep(A) ==
  /\ tpc = "idle"
  /\ ~ts_susp
  /\ A
  /\ TsSelect
  /\ UNCHANGED <<pen_is_down, count, updn, timer, tpc, touch, pen, ts_susp, bound>>

(* s3c24xx_ts_conversion.  Beyond Samples the value of count is never told *)
(* apart again before it is reset: it saturates at CountCap.               *)
TsConversion ==
  count' = IF cur = TsClient /\ count < CountCap THEN count + 1 ELSE count

(* s3c_adc_irq with samples left, which selects its client again. *)
TouchIrqMore ==
  /\ IrqMore
  /\ TsConversion
  /\ adctsc' = IF cur = TsClient THEN "AUTOPST" ELSE adctsc
  /\ UNCHANGED <<pen_is_down, updn, timer, tpc, touch, pen, ts_susp, bound>>

(***************************************************************************)
(* s3c_adc_irq on the last sample: s3c24xx_ts_select(client, 0) switches   *)
(* to pen up detection and arms the timer, then s3c_adc_try may select.    *)
(***************************************************************************)
TouchIrqLast ==
  /\ IrqLast
  /\ TsConversion
  /\ adctsc' = CASE cur' = TsClient -> "AUTOPST"
                 [] cur = TsClient /\ cur' # TsClient -> "INT_UP"
                 [] OTHER -> adctsc
  /\ timer' = (timer \/ cur = TsClient)
  /\ UNCHANGED <<pen_is_down, updn, tpc, touch, pen, ts_susp, bound>>

(* ADC steps the driver does not see. *)
TouchIrqSpurious == IrqSpurious /\ UNCHANGED <<driver, pen>>
TouchConvDone == HwConvDone /\ UNCHANGED <<driver, pen>>

(* The driver's call of s3c_adc_start; its result is ignored. *)
StartConversion ==
  \/ TsRequest /\ TsSelect
  \/ TsRequestAgain /\ UNCHANGED adctsc

-----------------------------------------------------------------------------
(* The pen interrupt. *)

(* The hardware latches a pen event while it is set to wait for it. *)
PenDetect ==
  /\ \/ adctsc = "INT_DOWN" /\ pen /\ "DN" \notin updn /\ updn' = updn \cup {"DN"}
     \/ adctsc = "INT_UP" /\ ~pen /\ "UP" \notin updn /\ updn' = updn \cup {"UP"}
  /\ UNCHANGED <<adcvars, pen_is_down, count, adctsc, timer, tpc, touch, pen,
                 ts_susp, bound>>

(* Mutations of StylusIrq: a bounce restarts the conversion; the handler   *)
(* switches to pen up detection itself.                                    *)
StylusIrqBounce ==
  /\ updn # {} /\ ~ts_susp /\ bound = "yes"
  /\ updn' = {}
  /\ pen_is_down' = ("DN" \in updn)
  /\ IF "DN" \in updn THEN StartConversion ELSE UNCHANGED <<adcvars, adctsc>>
  /\ UNCHANGED <<count, timer, tpc, touch, pen, ts_susp, bound>>

StylusIrqSetsMode ==
  /\ updn # {} /\ ~ts_susp /\ bound = "yes"
  /\ updn' = {}
  /\ pen_is_down' = ("DN" \in updn)
  /\ adctsc' = "INT_UP"
  /\ IF "DN" \in updn /\ ~pen_is_down
       THEN TsRequest \/ TsRequestAgain ELSE UNCHANGED adcvars
  /\ UNCHANGED <<count, timer, tpc, touch, pen, ts_susp, bound>>

(* stylus_irq: pen down (or a bounce, which is ignored) goes before pen up. *)
StylusIrq ==
  /\ updn # {}
  /\ ~ts_susp
  /\ bound = "yes"
  /\ updn' = {}
  /\ pen_is_down' = ("DN" \in updn)
  /\ IF "DN" \in updn /\ ~pen_is_down
       THEN StartConversion
       ELSE UNCHANGED <<adcvars, adctsc>>
  /\ UNCHANGED <<count, timer, tpc, touch, pen, ts_susp, bound>>

(* The stylus moves. *)
PenMove ==
  /\ pen' = ~pen
  /\ UNCHANGED <<adcvars, driver>>

-----------------------------------------------------------------------------
(* touch_timer_fire, one action per step that an interrupt can separate.   *)

TimerFire ==
  /\ timer
  /\ tpc = "idle"
  /\ timer' = FALSE
  /\ tpc' = IF pen_is_down THEN "down" ELSE "up"
  /\ UNCHANGED <<adcvars, pen_is_down, count, adctsc, updn, touch, pen, ts_susp, bound>>

TimerCheck ==
  /\ tpc = "down"
  /\ tpc' = IF count = Samples THEN "report" ELSE "start"
  /\ UNCHANGED <<adcvars, pen_is_down, count, adctsc, updn, timer, touch, pen,
                 ts_susp, bound>>

TimerReport ==
  /\ tpc = "report"
  /\ touch' = TRUE
  /\ count' = 0
  /\ tpc' = "start"
  /\ UNCHANGED <<adcvars, pen_is_down, adctsc, updn, timer, pen, ts_susp, bound>>

TimerStart ==
  /\ tpc = "start"
  /\ StartConversion
  /\ tpc' = "idle"
  /\ UNCHANGED <<pen_is_down, count, updn, timer, touch, pen, ts_susp, bound>>

(* Mutation of TimerRelease: the samples of the last touch are kept. *)
TimerReleaseKeepsCount ==
  /\ tpc = "up"
  /\ touch' = FALSE
  /\ tpc' = "rearm"
  /\ UNCHANGED <<adcvars, pen_is_down, count, adctsc, updn, timer, pen, ts_susp, bound>>

TimerRelease ==
  /\ tpc = "up"
  /\ count' = 0
  /\ touch' = FALSE
  /\ tpc' = "rearm"
  /\ UNCHANGED <<adcvars, pen_is_down, adctsc, updn, timer, pen, ts_susp, bound>>

(* Mutation of TimerRearm: the panel is left waiting for pen up. *)
TimerRearmNot ==
  /\ tpc = "rearm"
  /\ tpc' = "idle"
  /\ UNCHANGED <<adcvars, pen_is_down, count, adctsc, updn, timer, touch, pen,
                 ts_susp, bound>>

TimerRearm ==
  /\ tpc = "rearm"
  /\ adctsc' = "INT_DOWN"
  /\ tpc' = "idle"
  /\ UNCHANGED <<adcvars, pen_is_down, count, updn, timer, touch, pen, ts_susp, bound>>

TimerStep ==
  \/ TimerFire \/ TimerCheck \/ TimerReport \/ TimerStart
  \/ TimerRelease \/ TimerRearm

-----------------------------------------------------------------------------
(* Power management and removal. *)

(* Waiting for the pen: no conversion requested, no timer. *)
WaitingForPen == adctsc = "INT_DOWN" /\ ~pen_is_down

Idle == WaitingForPen /\ ~timer /\ tpc = "idle" /\ updn = {}

(***************************************************************************)
(* Devices suspend in the reverse order of their registration, with user   *)
(* tasks frozen: the touchscreen, then the ADC; they resume in order.      *)
(* s3c2410ts_suspend puts the panel to sleep and disables the interrupt.   *)
(***************************************************************************)
TsSuspend ==
  /\ SuspendWhen = "any" \/ (SuspendWhen = "idle" /\ Idle)
  /\ ~ts_susp
  /\ bound = "yes"
  /\ tpc = "idle"
  /\ \A c \in Reader : reader[c] \in {"unreg", "out"}
  /\ ts_susp' = TRUE
  /\ adctsc' = "SLEEP"
  /\ UNCHANGED <<adcvars, pen_is_down, count, updn, timer, tpc, touch, pen, bound>>

(* s3c2410ts_resume ends in waiting_for_pen_down. *)
TsResume ==
  /\ ts_susp
  /\ ~susp
  /\ tpc = "idle"
  /\ ts_susp' = FALSE
  /\ adctsc' = "INT_DOWN"
  /\ pen_is_down' = FALSE
  /\ UNCHANGED <<adcvars, count, updn, timer, tpc, touch, pen, bound>>

AdcSuspend == ts_susp /\ Suspend /\ UNCHANGED <<driver, pen>>
AdcResume == Resume /\ UNCHANGED <<driver, pen>>

(* s3c2410ts_remove: free_irq... *)
RemoveFreeIrq ==
  /\ RemoveWhen = "any" \/ (RemoveWhen = "idle" /\ Idle)
  /\ bound = "yes"
  /\ ~ts_susp
  /\ tpc = "idle"
  /\ bound' = "noirq"
  /\ updn' = {}
  /\ UNCHANGED <<adcvars, pen_is_down, count, adctsc, timer, tpc, touch, pen, ts_susp>>

(* ... then del_timer_sync, and the registers are unmapped. *)
RemoveDelTimer ==
  /\ bound = "noirq"
  /\ tpc = "idle"
  /\ timer' = FALSE
  /\ bound' = "no"
  /\ UNCHANGED <<adcvars, pen_is_down, count, adctsc, updn, tpc, touch, pen, ts_susp>>

-----------------------------------------------------------------------------

TouchNext ==
  \/ \E c \in Reader :
       \/ TaskStep(Register(c)) \/ TaskStep(Release(c))
       \/ TaskStep(ReadBegin(c)) \/ TaskStep(ReadStart(c))
       \/ TaskStep(ReadDone(c)) \/ TaskStep(ReadTimeout(c))
  \/ TouchConvDone
  \/ TouchIrqSpurious \/ TouchIrqMore \/ TouchIrqLast
  \/ PenDetect \/ StylusIrq \/ PenMove
  \/ TimerStep
  \/ TsSuspend \/ TsResume \/ AdcSuspend \/ AdcResume
  \/ RemoveFreeIrq \/ RemoveDelTimer

TouchSpec == TouchInit /\ [][TouchNext]_tsvars

(***************************************************************************)
(* The hardware finishes what it started and detects the pen (strong       *)
(* fairness: the jiffy between a conversion and the timer is there, says   *)
(* s3c24xx_ts_select, to give it the time), interrupts are taken, an    *)
(* armed timer fires and its function runs to its end, a runnable reader   *)
(* is scheduled (strong fairness: softirqs run before it again and again,  *)
(* but leave it most of each jiffy) and a suspended system is resumed.     *)
(* Nothing is assumed of the stylus or of when a read is issued.           *)
(***************************************************************************)
TouchFairness ==
  /\ WF_tsvars(TouchConvDone)
  /\ WF_tsvars(TouchIrqSpurious \/ TouchIrqMore \/ TouchIrqLast)
  /\ SF_tsvars(PenDetect)
  /\ WF_tsvars(StylusIrq)
  /\ WF_tsvars(TimerStep)
  /\ WF_tsvars(AdcResume \/ (TsResume /\ ~susp))
  /\ \A c \in Reader : SF_tsvars(TaskStep(ReadStart(c)) \/ TaskStep(ReadDone(c)))

FairTouchSpec == TouchSpec /\ TouchFairness

-----------------------------------------------------------------------------

TouchTypeOK ==
  /\ TypeOK
  /\ pen_is_down \in BOOLEAN
  /\ count \in 0..CountCap
  /\ adctsc \in {"INT_DOWN", "INT_UP", "AUTOPST", "SLEEP"}
  /\ updn \subseteq {"DN", "UP"}
  /\ timer \in BOOLEAN
  /\ tpc \in TimerPC
  /\ touch \in BOOLEAN
  /\ pen \in BOOLEAN
  /\ ts_susp \in BOOLEAN
  /\ bound \in {"yes", "noirq", "no"}

(* A touchscreen request is queued or being converted. *)
Requested == ts_pend = TsClient \/ cur = TsClient

(* The driver's activity is a token: it is in exactly one place, so that   *)
(* neither the pen interrupt nor the timer ever starts a second request    *)
(* (s3c_adc_start would refuse it, or restart the sample count of the one  *)
(* in progress), and so that the activity is never lost.                   *)
OneActivity ==
  LET places == {p \in {"timer", "softirq", "request", "pen"} :
                   \/ p = "timer" /\ timer
                   \/ p = "softirq" /\ tpc # "idle"
                   \/ p = "request" /\ Requested
                   \/ p = "pen" /\ adctsc \in {"INT_DOWN", "SLEEP"} /\ ~pen_is_down
                              /\ ~Requested /\ tpc = "idle" /\ ~timer}
  IN bound = "yes" => \E p \in places : places = {p}

(* ts.count and the samples the core still owes add up to one full set:    *)
(* count never passes 1 << ts.shift, the only value that is reported.      *)
SampleSet ==
  /\ count <= Samples
  /\ Requested => count + nr_samples[TsClient] = Samples
  /\ timer => count = Samples

(* The panel stays in automatic X/Y mode while it is converted: neither    *)
(* the pen interrupt nor the timer rewrites ADCTSC under a conversion.     *)
PanelMode == cur = TsClient <=> adctsc = "AUTOPST"

(* After s3c2410ts_remove nothing of the driver runs or is referenced.     *)
(* The code does not satisfy this (RemoveWhen = "any"): a request made     *)
(* before free_irq is converted all the same, and arms the timer.          *)
QuietAfterRemove == bound = "no" => ~timer /\ tpc = "idle" /\ ~Requested

(***************************************************************************)
(* A pen that stays up is reported released, and the panel waits for the   *)
(* next touch for good; while the pen is held, positions are reported      *)
(* again and again.                                                        *)
(***************************************************************************)
PenReported ==
  /\ <>[](~pen /\ bound = "yes" /\ ~ts_susp) => <>[](~touch /\ WaitingForPen)
  /\ <>[](pen /\ bound = "yes" /\ ~ts_susp) => []<>(tpc = "report")

(* The touchscreen does not starve the readers: each read gets its value.  *)
ReadersServed == \A c \in Reader : reader[c] = "wait" ~> result[c] # NULL

=============================================================================
