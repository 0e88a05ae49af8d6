--------------------------- MODULE S3CTouchProofs ---------------------------
(***************************************************************************)
(* Proofs about the touchscreen driver on the ADC core, for any number of  *)
(* readers and samples, whenever reads time out or are repeated.           *)
(***************************************************************************)
EXTENDS S3CTouch, S3CAdcProofs

-----------------------------------------------------------------------------
(* The composition is an ADC core with one of its clients spelled out.     *)

(* The ADC sleeps only inside the sleep of the touchscreen. *)
SleepNested == susp \in BOOLEAN /\ (susp => ts_susp)

(* What a task may do to the ADC core with the reader c, and when. *)
ReaderStep(c) ==
  \/ Register(c) \/ Release(c) \/ ReadBegin(c)
  \/ ReadStart(c) \/ ReadDone(c) \/ ReadTimeout(c)

ReaderTask(c) ==
  /\ tpc = "idle" /\ ~ts_susp /\ ReaderStep(c) /\ TsSelect
  /\ UNCHANGED <<pen_is_down, count, updn, timer, tpc, touch, pen, ts_susp, bound>>

(* The steps of the composition, those of the tasks taken together. *)
LEMMA TouchCases ==
  ASSUME TouchNext
  PROVE  \/ \E c \in Reader : ReaderTask(c)
         \/ TouchConvDone \/ TouchIrqSpurious \/ TouchIrqMore \/ TouchIrqLast
         \/ PenDetect \/ StylusIrq \/ PenMove
         \/ TimerFire \/ TimerCheck \/ TimerReport \/ TimerStart
         \/ TimerRelease \/ TimerRearm
         \/ TsSuspend \/ TsResume \/ AdcSuspend \/ AdcResume
         \/ RemoveFreeIrq \/ RemoveDelTimer
<1>1. ASSUME NEW c \in Reader,
             \/ TaskStep(Register(c)) \/ TaskStep(Release(c))
             \/ TaskStep(ReadBegin(c)) \/ TaskStep(ReadStart(c))
             \/ TaskStep(ReadDone(c)) \/ TaskStep(ReadTimeout(c))
      PROVE  ReaderTask(c)
  BY <1>1 DEF TaskStep, ReaderTask, ReaderStep
<1>2. QED BY <1>1 DEF TouchNext, TimerStep

(* No reader touches the clock of the ADC. *)
LEMMA ReaderAwake ==
  ASSUME NEW c \in Reader, ReaderStep(c)
  PROVE  susp' = susp
BY DEF ReaderStep, Register, Release, ReadBegin, ReadStart, ReadDone, ReadTimeout

(* Every step of the composition is one of the ADC core or leaves it alone. *)
LEMMA CoreStep ==
  ASSUME SleepNested, [TouchNext]_tsvars
  PROVE  [Next]_adcvars /\ SleepNested'
<1>1. ASSUME NEW c \in Reader, ReaderTask(c) PROVE [Next]_adcvars /\ SleepNested'
  <2>1. ReaderStep(c) /\ ~susp /\ ts_susp' = ts_susp BY <1>1 DEF ReaderTask, SleepNested
  <2>2. Next BY <2>1 DEF ReaderStep, Next
  <2>3. SleepNested' BY <2>1, ReaderAwake DEF SleepNested
  <2>4. QED BY <2>2, <2>3
<1>2. CASE TouchConvDone
  BY <1>2 DEF TouchConvDone, HwConvDone, Next, driver, SleepNested
<1>3. CASE TouchIrqSpurious \/ TouchIrqMore \/ TouchIrqLast
  <2>1. Next BY <1>3 DEF TouchIrqSpurious, TouchIrqMore, TouchIrqLast, Next
  <2>2. susp' = susp /\ ts_susp' = ts_susp
    BY <1>3 DEF TouchIrqSpurious, TouchIrqMore, TouchIrqLast, IrqSpurious, IrqMore, IrqLast,
                driver
  <2>3. QED BY <2>1, <2>2 DEF SleepNested
<1>4. CASE PenDetect \/ PenMove \/ TimerFire \/ TimerCheck \/ TimerReport \/ TimerRelease
             \/ TimerRearm \/ RemoveFreeIrq \/ RemoveDelTimer
  <2>1. adcvars' = adcvars /\ ts_susp' = ts_susp
    BY <1>4 DEF PenDetect, PenMove, TimerFire, TimerCheck, TimerReport, TimerRelease,
                TimerRearm, RemoveFreeIrq, RemoveDelTimer, driver
  <2>2. QED BY <2>1 DEF SleepNested, adcvars
<1>5. CASE StylusIrq \/ TimerStart
  <2>1. ts_susp' = ts_susp BY <1>5 DEF StylusIrq, TimerStart
  <2>2. (adcvars' = adcvars \/ TsRequest \/ TsRequestAgain)
    BY <1>5 DEF StylusIrq, TimerStart, StartConversion
  <2>3. susp' = susp BY <2>2 DEF adcvars, TsRequest, TsRequestAgain
  <2>4. QED BY <2>1, <2>2, <2>3 DEF Next, SleepNested
<1>6. CASE TsSuspend \/ TsResume
  <2>1. adcvars' = adcvars /\ (ts_susp' \/ ~susp) BY <1>6 DEF TsSuspend, TsResume
  <2>2. QED BY <2>1 DEF SleepNested, adcvars
<1>7. CASE AdcSuspend \/ AdcResume
  <2>1. Next BY <1>7 DEF AdcSuspend, AdcResume, Next
  <2>2. ts_susp' = ts_susp /\ susp' \in BOOLEAN /\ (susp' => ts_susp)
    BY <1>7 DEF AdcSuspend, AdcResume, Suspend, Resume, driver
  <2>3. QED BY <2>1, <2>2 DEF SleepNested
<1>8. CASE UNCHANGED tsvars
  BY <1>8 DEF tsvars, adcvars, SleepNested
<1>9. QED BY <1>1, <1>2, <1>3, <1>4, <1>5, <1>6, <1>7, <1>8, TouchCases

(***************************************************************************)
(* The driver only uses the ADC core as S3CAdc lets its clients do: what   *)
(* is proved of the core holds of it with the touchscreen on top.          *)
(***************************************************************************)
THEOREM TouchUsesCore == TouchSpec => Spec
<1>1. TouchInit => Init /\ SleepNested BY DEF TouchInit, Init, SleepNested
<1>2. SleepNested /\ [TouchNext]_tsvars => [Next]_adcvars /\ SleepNested' BY CoreStep
<1>3. QED BY <1>1, <1>2, PTL DEF TouchSpec, Spec

(* Nothing waits for a converter that is free. *)
LEMMA TouchCore == TouchSpec => [](TypeOK /\ IdleImpliesEmpty /\ SleepNested)
<1>1. TouchInit => SleepNested BY DEF TouchInit, Init, SleepNested
<1>2. SleepNested /\ [TouchNext]_tsvars => SleepNested' BY CoreStep
<1>3. TouchSpec => []SleepNested BY <1>1, <1>2, PTL DEF TouchSpec
<1>4. QED BY <1>3, TouchUsesCore, AdcTypeCorrect, AdcNeverIdleWithWork, PTL

(***************************************************************************)
(* TouchTypeOK: in particular ADCTSC is only ever in one of four modes and *)
(* ts.count stays in its range, whenever the system sleeps and whenever    *)
(* the driver is unbound.                                                  *)
(***************************************************************************)
THEOREM TouchTypeCorrect == TouchSpec => []TouchTypeOK
<1>0. CountCap \in Nat /\ Samples \in Nat BY TouchAssumption, AdcAssumption
<1>z. 0 \in 0..CountCap BY <1>0
<1>1. TouchInit => TouchTypeOK \/ ~TypeOK
  BY <1>z DEF TouchInit, TouchTypeOK, TimerPC
<1>2. TouchTypeOK /\ TypeOK' /\ [TouchNext]_tsvars => TouchTypeOK'
  <2> SUFFICES ASSUME TouchTypeOK, TypeOK', [TouchNext]_tsvars PROVE TouchTypeOK' OBVIOUS
  <2> USE DEF TouchTypeOK
  <2>1. ASSUME NEW c \in Reader, ReaderTask(c) PROVE TouchTypeOK'
    BY <2>1 DEF ReaderTask, TsSelect
  <2>2. count' = count \/ (count < CountCap /\ count' = count + 1) =>
          count' \in 0..CountCap
    BY <1>0
  <2>3. CASE TouchIrqMore
    <3>1. count' \in 0..CountCap BY <2>2, <2>3 DEF TouchIrqMore, TsConversion
    <3>2. QED BY <2>3, <3>1 DEF TouchIrqMore
  <2>4. CASE TouchIrqLast
    <3>1. count' \in 0..CountCap BY <2>2, <2>4 DEF TouchIrqLast, TsConversion
    <3>2. adctsc' \in {"INT_DOWN", "INT_UP", "AUTOPST", "SLEEP"}
      BY <2>4 DEF TouchIrqLast
    <3>3. QED BY <2>4, <3>1, <3>2 DEF TouchIrqLast
  <2>5. CASE TouchConvDone \/ TouchIrqSpurious \/ AdcSuspend \/ AdcResume
    BY <2>5 DEF TouchConvDone, TouchIrqSpurious, AdcSuspend, AdcResume, driver
  <2>6. CASE PenDetect \/ PenMove BY <2>6 DEF PenDetect, PenMove, driver
  <2>7. adctsc' \in {adctsc, "AUTOPST"} =>
          adctsc' \in {"INT_DOWN", "INT_UP", "AUTOPST", "SLEEP"}
    OBVIOUS
  <2>8. CASE StylusIrq
    <3>1. adctsc' \in {adctsc, "AUTOPST"} BY <2>8 DEF StylusIrq, StartConversion, TsSelect
    <3>2. QED BY <2>7, <2>8, <3>1 DEF StylusIrq
  <2>9. CASE TimerStart
    <3>1. adctsc' \in {adctsc, "AUTOPST"} BY <2>9 DEF TimerStart, StartConversion, TsSelect
    <3>2. QED BY <2>7, <2>9, <3>1 DEF TimerStart, TimerPC
  <2>10. CASE TimerFire \/ TimerCheck BY <2>10 DEF TimerFire, TimerCheck, TimerPC
  <2>11. CASE TimerReport \/ TimerRelease \/ TimerRearm
    BY <1>z, <2>11 DEF TimerReport, TimerRelease, TimerRearm, TimerPC
  <2>12. CASE TsSuspend \/ TsResume \/ RemoveFreeIrq \/ RemoveDelTimer
    BY <2>12 DEF TsSuspend, TsResume, RemoveFreeIrq, RemoveDelTimer
  <2>13. CASE UNCHANGED tsvars BY <2>13 DEF tsvars
  <2>14. QED
    BY <2>1, <2>3, <2>4, <2>5, <2>6, <2>8, <2>9, <2>10, <2>11, <2>12, <2>13, TouchCases
<1>3. QED BY <1>1, <1>2, TouchCore, PTL DEF TouchSpec

-----------------------------------------------------------------------------
(***************************************************************************)
(* The token.  The setting: the system sleeps only while the driver waits  *)
(* for the pen.  The driver may be unbound at any time.                    *)
(***************************************************************************)
SleepsIdle == SuspendWhen # "any"

(* No request, no timer, no softirq. *)
Resting == ~timer /\ tpc = "idle" /\ ~Requested

(* The activity is in one place. *)
Token ==
  /\ timer => tpc = "idle"
  /\ Requested => ~timer /\ tpc = "idle" /\ (cur = TsClient) # (ts_pend = TsClient)

(* The samples taken and the samples owed. *)
Owed ==
  /\ count <= Samples
  /\ Requested => nr_samples[TsClient] >= 1 /\ count + nr_samples[TsClient] = Samples
  /\ timer \/ tpc \in {"down", "report", "up"} => count = Samples
  /\ tpc \in {"start", "rearm"} => count = 0

(* The panel: automatic while it is converted, waiting for the pen to go   *)
(* up while the timer is about, and as it was while a request is queued.   *)
Panel ==
  /\ PanelMode
  /\ timer \/ tpc # "idle" => adctsc = "INT_UP"
  /\ ts_pend = TsClient => adctsc \in {"INT_DOWN", "INT_UP"}

(* What the latched pen events can still do. *)
Events ==
  /\ ts_pend = TsClient /\ adctsc = "INT_DOWN" => pen_is_down /\ "UP" \notin updn
  /\ tpc \in {"up", "rearm"} => ~pen_is_down
  /\ "DN" \in updn => pen_is_down \/ Resting

(* The driver rests only with the panel waiting for the pen. *)
Waiting ==
  Resting /\ bound # "no" => adctsc \in {"INT_DOWN", "SLEEP"} /\ ~pen_is_down /\ count = 0

(* It sleeps only at rest. *)
Asleep ==
  /\ ts_susp <=> adctsc = "SLEEP"
  /\ ts_susp => bound = "yes" /\ Resting

(* The inductive invariant. *)
TouchGood == Token /\ Owed /\ Panel /\ Events /\ Waiting /\ Asleep

(* What s3c_adc_try does to the touchscreen: its request goes first. *)
LEMMA TryTouch ==
  ASSUME NEW tp \in {TsClient, NULL}, NEW pend \in Seq(Reader), Try(tp, pend)
  PROVE  ts_pend' = NULL /\ (cur' = TsClient <=> tp = TsClient)
<1>1. TsClient # NULL /\ TsClient \notin Reader BY AdcAssumption DEF Reader
<1>2. pend # <<>> => Head(pend) \in Reader OBVIOUS
<1>3. QED BY <1>1, <1>2 DEF Try, NextClient

(* The touchscreen stays where it is, or goes from the queue to the converter. *)
Passed ==
  \/ ts_pend' = ts_pend /\ (cur' = TsClient <=> cur = TsClient)
  \/ ts_pend = TsClient /\ cur # TsClient /\ cur' = TsClient /\ ts_pend' = NULL

(* A reader leaves the touchscreen its place and its samples. *)
LEMMA ReaderEffect ==
  ASSUME TypeOK, IdleImpliesEmpty, NEW c \in Reader, ReaderStep(c)
  PROVE  Passed /\ nr_samples'[TsClient] = nr_samples[TsClient]
<1>0. TsClient # NULL /\ TsClient \notin Reader /\ TsClient \in Client /\ c # TsClient
      /\ NULL \notin Reader
  BY AdcAssumption DEF Reader
<1>1. CASE Register(c) BY <1>0, <1>1 DEF Register, Passed, TypeOK
<1>2. CASE ReadBegin(c) \/ ReadDone(c) \/ ReadTimeout(c)
  BY <1>2 DEF ReadBegin, ReadDone, ReadTimeout, core, Passed
<1>3. CASE ReadStart(c)
  <2>1. TryIfFree(cur, ts_pend, Append(adc_pending, c))
        /\ nr_samples' = [nr_samples EXCEPT ![c] = 1]
    BY <1>0, <1>3 DEF ReadStart, Start
  <2>2. nr_samples'[TsClient] = nr_samples[TsClient] BY <1>0, <2>1 DEF TypeOK
  <2>3. CASE cur = NULL
    <3>1. ts_pend = NULL /\ Try(NULL, Append(adc_pending, c))
      BY <2>1, <2>3 DEF TryIfFree, IdleImpliesEmpty
    <3>2. Append(adc_pending, c) \in Seq(Reader) BY DEF TypeOK
    <3>3. ts_pend' = NULL /\ cur' # TsClient BY <1>0, <3>1, <3>2, TryTouch
    <3>4. QED BY <1>0, <2>2, <2>3, <3>1, <3>3 DEF Passed
  <2>4. CASE cur # NULL BY <2>1, <2>2, <2>4 DEF TryIfFree, Passed
  <2>5. QED BY <2>3, <2>4
<1>4. CASE Release(c)
  <2>1. TryIfFree(IF cur = c THEN NULL ELSE cur, ts_pend, Without(adc_pending, c))
        /\ nr_samples' = nr_samples
    BY <1>4 DEF Release
  <2>2. Without(adc_pending, c) \in Seq(Reader) BY WithoutProperties DEF TypeOK
  <2>3. CASE cur = c \/ cur = NULL
    <3>1. Try(ts_pend, Without(adc_pending, c)) BY <2>1, <2>3 DEF TryIfFree
    <3>2. ts_pend' = NULL /\ (cur' = TsClient <=> ts_pend = TsClient)
      BY <2>2, <3>1, TryTouch DEF TypeOK
    <3>3. QED BY <1>0, <2>1, <2>3, <3>2 DEF Passed, TypeOK
  <2>4. CASE cur # c /\ cur # NULL BY <2>1, <2>4 DEF TryIfFree, Passed
  <2>5. QED BY <2>3, <2>4
<1>5. QED BY <1>1, <1>2, <1>3, <1>4 DEF ReaderStep

(* The driver's request, made at rest: it is converted at once or queued. *)
LEMMA RequestEffect ==
  ASSUME TypeOK, IdleImpliesEmpty, ~Requested, StartConversion
  PROVE  /\ nr_samples'[TsClient] = Samples /\ susp' = susp
         /\ \/ cur' = TsClient /\ ts_pend' = NULL /\ adctsc' = "AUTOPST"
            \/ cur' # TsClient /\ ts_pend' = TsClient /\ adctsc' = adctsc
<1>0. TsClient # NULL /\ TsClient \in Client BY AdcAssumption
<1>1. ts_pend = NULL /\ cur # TsClient BY DEF Requested, TypeOK
<1>2. ~StartAgain(TsClient) BY <1>1 DEF StartAgain
<1>3. TsRequest /\ TsSelect BY <1>2 DEF StartConversion, TsRequestAgain
<1>4. TryIfFree(cur, TsClient, adc_pending) /\ susp' = susp
      /\ nr_samples' = [nr_samples EXCEPT ![TsClient] = Samples]
  BY <1>3 DEF TsRequest, Start
<1>5. nr_samples'[TsClient] = Samples BY <1>0, <1>4 DEF TypeOK
<1>6. CASE cur = NULL
  <2>1. Try(TsClient, adc_pending) BY <1>4, <1>6 DEF TryIfFree
  <2>2. ts_pend' = NULL /\ cur' = TsClient BY <2>1, TryTouch DEF TypeOK
  <2>3. QED BY <1>1, <1>3, <1>4, <1>5, <2>2 DEF TsSelect
<1>7. CASE cur # NULL
  <2>1. cur' = cur /\ ts_pend' = TsClient BY <1>4, <1>7 DEF TryIfFree
  <2>2. QED BY <1>1, <1>3, <1>4, <1>5, <2>1 DEF TsSelect
<1>8. QED BY <1>6, <1>7

(* Steps of the ADC core that the driver only sees when it is selected. *)
LEMMA PassedGood ==
  ASSUME TouchTypeOK, TouchGood, Passed, nr_samples'[TsClient] = nr_samples[TsClient],
         adctsc' = IF cur # TsClient /\ cur' = TsClient THEN "AUTOPST" ELSE adctsc,
         UNCHANGED <<pen_is_down, count, updn, timer, tpc, ts_susp, bound>>
  PROVE  TouchGood'
<1>0. TsClient # NULL BY AdcAssumption
<1>1. CASE ts_pend' = ts_pend /\ (cur' = TsClient <=> cur = TsClient)
  <2>1. adctsc' = adctsc /\ (Requested' <=> Requested) BY <1>1 DEF Requested
  <2>2. QED
    BY <1>1, <2>1 DEF TouchGood, Token, Owed, Panel, PanelMode, Events, Waiting, Asleep, Resting
<1>2. CASE ts_pend = TsClient /\ cur # TsClient /\ cur' = TsClient /\ ts_pend' = NULL
  <2>1. Requested /\ Requested' /\ adctsc' = "AUTOPST" BY <1>2 DEF Requested
  <2>2. QED
    BY <1>0, <1>2, <2>1
    DEF TouchGood, Token, Owed, Panel, PanelMode, Events, Waiting, Asleep, Resting
<1>3. QED BY <1>1, <1>2 DEF Passed

(* A conversion with samples left. *)
LEMMA IrqMoreGood ==
  ASSUME TouchTypeOK, TouchGood, TouchIrqMore
  PROVE  TouchGood'
<1>0. TsClient \in Client /\ NULL \notin Client /\ Samples \in Nat /\ CountCap > Samples
      /\ CountCap \in Nat
  BY AdcAssumption, TouchAssumption
<1>1. /\ cur' = cur /\ ts_pend' = ts_pend /\ cur \in Client /\ nr_samples[cur] > 1
      /\ nr_samples' = [nr_samples EXCEPT ![cur] = nr_samples[cur] - 1]
      /\ count' = IF cur = TsClient /\ count < CountCap THEN count + 1 ELSE count
      /\ adctsc' = IF cur = TsClient THEN "AUTOPST" ELSE adctsc
      /\ UNCHANGED <<pen_is_down, updn, timer, tpc, ts_susp, bound>>
  BY DEF TouchIrqMore, IrqMore, TsConversion, TouchTypeOK, TypeOK
<1>2. nr_samples \in [Client -> Nat] /\ count \in 0..CountCap BY DEF TouchTypeOK, TypeOK
<1>3. CASE cur # TsClient
  <2>1. nr_samples'[TsClient] = nr_samples[TsClient] BY <1>0, <1>1, <1>2, <1>3
  <2>2. Passed BY <1>1 DEF Passed
  <2>3. QED BY <1>1, <1>3, <2>1, <2>2, PassedGood
<1>4. CASE cur = TsClient
  <2>1. nr_samples'[TsClient] = nr_samples[TsClient] - 1 BY <1>0, <1>1, <1>2, <1>4
  <2>2. Requested /\ Requested' BY <1>1, <1>4 DEF Requested
  <2>3. count + nr_samples[TsClient] = Samples /\ nr_samples[TsClient] \in Nat
    BY <1>0, <1>2, <2>2 DEF TouchGood, Owed
  <2>4. count < CountCap /\ count' = count + 1 BY <1>0, <1>1, <1>2, <1>4, <2>3
  <2>5. adctsc = "AUTOPST" /\ adctsc' = adctsc BY <1>1, <1>4 DEF TouchGood, Panel, PanelMode
  <2>6. count' <= Samples /\ nr_samples'[TsClient] >= 1
        /\ count' + nr_samples'[TsClient] = Samples
    BY <1>0, <1>1, <1>2, <1>4, <2>1, <2>3, <2>4
  <2>7. Owed' BY <1>1, <2>2, <2>6 DEF TouchGood, Token, Owed
  <2>8. QED
    BY <1>1, <2>2, <2>5, <2>7
    DEF TouchGood, Token, Panel, PanelMode, Events, Waiting, Asleep, Resting
<1>5. QED BY <1>3, <1>4

(* The last sample: the token goes from the core to the timer. *)
LEMMA IrqLastGood ==
  ASSUME TouchTypeOK, TouchGood, TouchIrqLast
  PROVE  TouchGood'
<1>0. TsClient \in Client /\ NULL \notin Client /\ Samples \in Nat /\ CountCap > Samples
      /\ CountCap \in Nat /\ TsClient # NULL
  BY AdcAssumption, TouchAssumption
<1>1. /\ Try(ts_pend, adc_pending) /\ cur \in Client /\ nr_samples[cur] <= 1
      /\ nr_samples' = [nr_samples EXCEPT ![cur] = 0]
      /\ count' = IF cur = TsClient /\ count < CountCap THEN count + 1 ELSE count
      /\ timer' = (timer \/ cur = TsClient)
      /\ UNCHANGED <<pen_is_down, updn, tpc, ts_susp, bound>>
  BY DEF TouchIrqLast, IrqLast, TsConversion, TouchTypeOK, TypeOK
<1>2. nr_samples \in [Client -> Nat] /\ count \in 0..CountCap /\ timer \in BOOLEAN
      /\ ts_pend \in {TsClient, NULL}
  BY DEF TouchTypeOK, TypeOK
<1>3. ts_pend' = NULL /\ (cur' = TsClient <=> ts_pend = TsClient)
  BY <1>1, TryTouch DEF TouchTypeOK, TypeOK
<1>4. CASE cur # TsClient
  <2>1. nr_samples'[TsClient] = nr_samples[TsClient] BY <1>0, <1>1, <1>2, <1>4
  <2>2. Passed BY <1>2, <1>3, <1>4 DEF Passed
  <2>3. timer' = timer /\ count' = count BY <1>1, <1>2, <1>4
  <2>4. adctsc' = IF cur # TsClient /\ cur' = TsClient THEN "AUTOPST" ELSE adctsc
    BY <1>4 DEF TouchIrqLast
  <2>5. QED BY <1>1, <2>1, <2>2, <2>3, <2>4, PassedGood
<1>5. CASE cur = TsClient
  <2>1. Requested BY <1>5 DEF Requested
  <2>2. /\ count + nr_samples[TsClient] = Samples /\ nr_samples[TsClient] \in Nat
        /\ nr_samples[TsClient] >= 1 /\ ts_pend # TsClient /\ tpc = "idle"
    BY <1>0, <1>2, <1>5, <2>1 DEF TouchGood, Owed, Token
  <2>3. nr_samples[TsClient] = 1 BY <1>1, <1>5, <2>2
  <2>4. count + 1 = Samples BY <2>2, <2>3
  <2>5. count < CountCap BY <1>0, <1>2, <2>4
  <2>6. count' = Samples BY <1>1, <1>5, <2>4, <2>5
  <2>7. cur' # TsClient /\ ~Requested' BY <1>0, <1>3, <2>2 DEF Requested
  <2>8. timer' = TRUE /\ adctsc' = "INT_UP" BY <1>1, <1>5, <2>7 DEF TouchIrqLast
  <2>9. adctsc = "AUTOPST" BY <1>5 DEF TouchGood, Panel, PanelMode
  <2>10. ~Resting /\ ~Resting' BY <2>1, <2>8 DEF Resting
  <2>11. Owed' BY <1>0, <1>1, <2>2, <2>6, <2>7 DEF Owed
  <2>12. Token' /\ Panel' BY <1>0, <1>1, <1>3, <2>2, <2>7, <2>8 DEF Token, Panel, PanelMode
  <2>13. Events' /\ Waiting' /\ Asleep'
    BY <1>0, <1>1, <1>3, <2>2, <2>8, <2>9, <2>10 DEF TouchGood, Events, Waiting, Asleep
  <2>14. QED BY <2>11, <2>12, <2>13 DEF TouchGood
<1>6. QED BY <1>4, <1>5

(* The pen interrupt starts a conversion only at rest. *)
LEMMA StylusGood ==
  ASSUME TouchTypeOK, IdleImpliesEmpty, TouchGood, StylusIrq
  PROVE  TouchGood'
<1>0. TsClient # NULL /\ Samples \in Nat \ {0} BY AdcAssumption
<1>1. /\ updn' = {} /\ pen_is_down' = ("DN" \in updn) /\ bound = "yes" /\ ~ts_susp
      /\ UNCHANGED <<count, timer, tpc, ts_susp, bound>>
  BY DEF StylusIrq
<1>t. TypeOK /\ pen_is_down \in BOOLEAN BY DEF TouchTypeOK
<1>2. CASE "DN" \in updn /\ ~pen_is_down
  <2>1. Resting BY <1>2 DEF TouchGood, Events
  <2>2. ~timer /\ tpc = "idle" /\ ~Requested BY <2>1 DEF Resting
  <2>3. StartConversion BY <1>2 DEF StylusIrq
  <2>4. /\ nr_samples'[TsClient] = Samples
        /\ \/ cur' = TsClient /\ ts_pend' = NULL /\ adctsc' = "AUTOPST"
           \/ cur' # TsClient /\ ts_pend' = TsClient /\ adctsc' = adctsc
    BY <1>t, <2>2, <2>3, RequestEffect
  <2>5. count = 0 /\ adctsc = "INT_DOWN"
    BY <1>1, <2>1 DEF TouchGood, Waiting, Asleep
  <2>6. Requested' /\ ~Resting' BY <2>4 DEF Requested, Resting
  <2>7. Owed' BY <1>0, <1>1, <2>2, <2>4, <2>5 DEF Owed
  <2>8. Token' /\ Panel'
    BY <1>0, <1>1, <2>2, <2>4, <2>5 DEF Token, Panel, PanelMode
  <2>9. Events' /\ Waiting' /\ Asleep'
    BY <1>1, <1>2, <2>2, <2>4, <2>5, <2>6 DEF Events, Waiting, Asleep
  <2>10. QED BY <2>7, <2>8, <2>9 DEF TouchGood
<1>3. CASE ~("DN" \in updn /\ ~pen_is_down)
  <2>1. adcvars' = adcvars /\ adctsc' = adctsc BY <1>3 DEF StylusIrq
  <2>2. cur' = cur /\ ts_pend' = ts_pend /\ nr_samples' = nr_samples BY <2>1 DEF adcvars
  <2>3. (Requested' <=> Requested) /\ (Resting' <=> Resting)
    BY <1>1, <2>2 DEF Requested, Resting
  <2>4. pen_is_down' => pen_is_down BY <1>1, <1>3
  <2>5. ts_pend = TsClient /\ adctsc = "INT_DOWN" => pen_is_down'
    BY <1>1 DEF TouchGood, Events, StylusIrq, TouchTypeOK
  <2>6. Token' /\ Owed' /\ Panel' /\ Asleep'
    BY <1>1, <2>1, <2>2, <2>3 DEF TouchGood, Token, Owed, Panel, PanelMode, Asleep
  <2>7. Events' /\ Waiting'
    BY <1>1, <2>1, <2>2, <2>3, <2>4, <2>5 DEF TouchGood, Events, Waiting
  <2>8. QED BY <2>6, <2>7 DEF TouchGood
<1>4. QED BY <1>2, <1>3

(* So does the timer function. *)
LEMMA TimerStartGood ==
  ASSUME TouchTypeOK, IdleImpliesEmpty, TouchGood, TimerStart
  PROVE  TouchGood'
<1>0. TsClient # NULL /\ Samples \in Nat \ {0} BY AdcAssumption
<1>1. /\ tpc = "start" /\ tpc' = "idle" /\ StartConversion
      /\ UNCHANGED <<pen_is_down, count, updn, timer, ts_susp, bound>>
  BY DEF TimerStart
<1>2. ~Requested /\ ~timer /\ count = 0 /\ adctsc = "INT_UP" /\ ~Resting
  BY <1>1 DEF TouchGood, Token, Owed, Panel, Resting
<1>3. /\ nr_samples'[TsClient] = Samples
      /\ \/ cur' = TsClient /\ ts_pend' = NULL /\ adctsc' = "AUTOPST"
         \/ cur' # TsClient /\ ts_pend' = TsClient /\ adctsc' = adctsc
  BY <1>1, <1>2, RequestEffect DEF TouchTypeOK
<1>4. Requested' /\ ~Resting' BY <1>3 DEF Requested, Resting
<1>5. Owed' BY <1>0, <1>1, <1>2, <1>3 DEF Owed
<1>6. Token' /\ Panel' BY <1>0, <1>1, <1>2, <1>3 DEF Token, Panel, PanelMode
<1>7. Events' /\ Waiting' /\ Asleep'
  BY <1>0, <1>1, <1>2, <1>3, <1>4 DEF TouchGood, Events, Waiting, Asleep
<1>8. QED BY <1>5, <1>6, <1>7 DEF TouchGood

(* The rest of the timer function and of the driver. *)
LEMMA QuietGood ==
  ASSUME SleepsIdle, TouchTypeOK, TouchGood,
         \/ TouchConvDone \/ TouchIrqSpurious \/ PenDetect \/ PenMove
         \/ TimerFire \/ TimerCheck \/ TimerReport \/ TimerRelease \/ TimerRearm
         \/ TsSuspend \/ TsResume \/ AdcSuspend \/ AdcResume
         \/ RemoveFreeIrq \/ RemoveDelTimer \/ UNCHANGED tsvars
  PROVE  TouchGood'
<1>0. Samples \in Nat BY AdcAssumption
<1>1. cur' = cur /\ ts_pend' = ts_pend /\ nr_samples' = nr_samples
  BY DEF TouchConvDone, HwConvDone, TouchIrqSpurious, IrqSpurious, PenDetect, PenMove,
         TimerFire, TimerCheck, TimerReport, TimerRelease, TimerRearm, TsSuspend, TsResume,
         AdcSuspend, Suspend, AdcResume, Resume, RemoveFreeIrq, RemoveDelTimer, adcvars, core,
         tsvars
<1>2. Requested' <=> Requested BY <1>1 DEF Requested
<1> USE DEF TouchGood, Token, Owed, Panel, PanelMode, Events, Waiting, Asleep, Resting
<1>3. CASE TouchConvDone \/ TouchIrqSpurious \/ PenMove \/ AdcSuspend \/ AdcResume
             \/ UNCHANGED tsvars
  <2>1. UNCHANGED driver
    BY <1>3 DEF TouchConvDone, TouchIrqSpurious, PenMove, AdcSuspend, AdcResume, driver, tsvars
  <2>2. QED BY <1>1, <1>2, <2>1 DEF driver
<1>4. CASE PenDetect
  <2>1. UNCHANGED <<pen_is_down, count, adctsc, timer, tpc, ts_susp, bound>>
        /\ \/ adctsc = "INT_DOWN" /\ updn' = updn \cup {"DN"}
           \/ adctsc = "INT_UP" /\ updn' = updn \cup {"UP"}
    BY <1>4 DEF PenDetect
  <2>2. adctsc = "INT_DOWN" => pen_is_down \/ Resting
    BY DEF Requested
  <2>3. Events' BY <1>1, <1>2, <2>1, <2>2
  <2>4. QED BY <1>1, <1>2, <2>1, <2>3
<1>5. CASE TimerFire BY <1>1, <1>2, <1>5 DEF TimerFire
<1>6. CASE TimerCheck BY <1>1, <1>2, <1>6 DEF TimerCheck
<1>7. CASE TimerReport \/ TimerRelease
  BY <1>0, <1>1, <1>2, <1>7 DEF TimerReport, TimerRelease
<1>8. CASE TimerRearm
  <2>1. /\ tpc = "rearm" /\ adctsc' = "INT_DOWN" /\ tpc' = "idle"
        /\ UNCHANGED <<pen_is_down, count, updn, timer, ts_susp, bound>>
    BY <1>8 DEF TimerRearm
  <2>2. ~Requested /\ ~timer /\ ~ts_susp /\ ts_pend # TsClient /\ cur # TsClient
    BY <2>1 DEF Requested
  <2>3. QED BY <1>1, <1>2, <2>1, <2>2
<1>9. CASE TsSuspend
  <2>1. Idle /\ bound = "yes" BY <1>9 DEF TsSuspend, SleepsIdle
  <2>2. ~timer /\ tpc = "idle" /\ updn = {} /\ adctsc = "INT_DOWN" /\ ~pen_is_down
    BY <2>1 DEF Idle, WaitingForPen
  <2>3. ~Requested BY <2>2 DEF Requested
  <2>4. cur # TsClient /\ ts_pend # TsClient BY <2>3 DEF Requested
  <2>5. /\ ts_susp' = TRUE /\ adctsc' = "SLEEP"
        /\ UNCHANGED <<pen_is_down, count, updn, timer, tpc, bound>>
    BY <1>9 DEF TsSuspend
  <2>6. QED BY <1>1, <1>2, <2>1, <2>2, <2>3, <2>4, <2>5
<1>10. CASE TsResume
  <2>1. /\ ts_susp /\ ts_susp' = FALSE /\ adctsc' = "INT_DOWN" /\ pen_is_down' = FALSE
        /\ UNCHANGED <<count, updn, timer, tpc, bound>>
    BY <1>10 DEF TsResume
  <2>2. bound = "yes" /\ ~timer /\ tpc = "idle" /\ ~Requested BY <2>1
  <2>3. cur # TsClient /\ ts_pend # TsClient BY <2>2 DEF Requested
  <2>4. QED BY <1>1, <1>2, <2>1, <2>2, <2>3
<1>11. CASE RemoveFreeIrq BY <1>1, <1>2, <1>11 DEF RemoveFreeIrq
<1>12. CASE RemoveDelTimer BY <1>1, <1>2, <1>12 DEF RemoveDelTimer
<1>13. QED BY <1>3, <1>4, <1>5, <1>6, <1>7, <1>8, <1>9, <1>10, <1>11, <1>12

(* Every step keeps the token. *)
LEMMA TouchGoodStep ==
  ASSUME SleepsIdle, TouchTypeOK, IdleImpliesEmpty, TouchGood, [TouchNext]_tsvars
  PROVE  TouchGood'
<1>1. ASSUME NEW c \in Reader, ReaderTask(c) PROVE TouchGood'
  <2>1. ReaderStep(c) /\ TsSelect
        /\ UNCHANGED <<pen_is_down, count, updn, timer, tpc, ts_susp, bound>>
    BY <1>1 DEF ReaderTask
  <2>2. Passed /\ nr_samples'[TsClient] = nr_samples[TsClient]
    BY <2>1, ReaderEffect DEF TouchTypeOK
  <2>3. adctsc' = IF cur # TsClient /\ cur' = TsClient THEN "AUTOPST" ELSE adctsc
    BY <2>1 DEF TsSelect
  <2>4. QED BY <2>1, <2>2, <2>3, PassedGood
<1>2. QED
  BY <1>1, TouchCases, IrqMoreGood, IrqLastGood, StylusGood, TimerStartGood, QuietGood

(***************************************************************************)
(* TouchGood is an invariant: the pen interrupt, the timer and the ADC     *)
(* interrupt hand one activity to each other.                              *)
(***************************************************************************)
THEOREM TouchInvariant == ASSUME SleepsIdle PROVE TouchSpec => []TouchGood
<1>1. TouchInit => TouchGood
  <2> SUFFICES ASSUME TouchInit PROVE TouchGood OBVIOUS
  <2>1. Samples \in Nat /\ TsClient # NULL BY AdcAssumption
  <2>2. cur = NULL /\ ts_pend = NULL BY DEF TouchInit, Init
  <2>3. ~Requested BY <2>1, <2>2 DEF Requested
  <2>4. QED
    BY <2>1, <2>2, <2>3
    DEF TouchInit, TouchGood, Token, Owed, Panel, PanelMode, Events, Waiting, Asleep, Resting
<1>2. TouchTypeOK /\ IdleImpliesEmpty /\ TouchGood /\ [TouchNext]_tsvars => TouchGood'
  BY TouchGoodStep
<1>3. QED BY <1>1, <1>2, TouchTypeCorrect, TouchCore, PTL DEF TouchSpec

(***************************************************************************)
(* OneActivity: neither stylus_irq nor touch_timer_fire starts a second    *)
(* request, and none is lost, while the driver is bound.                   *)
(***************************************************************************)
THEOREM TouchOneActivity == ASSUME SleepsIdle PROVE TouchSpec => []OneActivity
<1>1. TouchGood => OneActivity
  <2> SUFFICES ASSUME TouchGood, bound = "yes" PROVE OneActivity BY DEF OneActivity
  <2> DEFINE AtPen == adctsc \in {"INT_DOWN", "SLEEP"} /\ ~pen_is_down
                      /\ ~Requested /\ tpc = "idle" /\ ~timer
             places == {p \in {"timer", "softirq", "request", "pen"} :
                          \/ p = "timer" /\ timer
                          \/ p = "softirq" /\ tpc # "idle"
                          \/ p = "request" /\ Requested
                          \/ p = "pen" /\ AtPen}
  <2>1. (timer => tpc = "idle" /\ ~Requested) /\ (Requested => ~timer /\ tpc = "idle")
    BY DEF TouchGood, Token
  <2>2. ~timer /\ tpc = "idle" /\ ~Requested => AtPen BY DEF TouchGood, Waiting, Resting
  <2>3. timer => places = {"timer"} BY <2>1
  <2>4. tpc # "idle" => places = {"softirq"} BY <2>1
  <2>5. Requested => places = {"request"} BY <2>1
  <2>6. ~timer /\ tpc = "idle" /\ ~Requested => places = {"pen"} BY <2>2
  <2>7. \E p \in places : places = {p} BY <2>3, <2>4, <2>5, <2>6
  <2>8. QED BY <2>7 DEF OneActivity
<1>2. QED BY <1>1, TouchInvariant, PTL

(***************************************************************************)
(* SampleSet: ts.count and the samples s3c_adc_irq still owes make up one  *)
(* full set, so that touch_timer_fire divides by the number it summed.     *)
(***************************************************************************)
THEOREM TouchSampleSet == ASSUME SleepsIdle PROVE TouchSpec => []SampleSet
<1>1. TouchGood => SampleSet BY DEF TouchGood, Owed, SampleSet
<1>2. QED BY <1>1, TouchInvariant, PTL

(* PanelMode: ADCTSC is not rewritten under a conversion of the panel. *)
THEOREM TouchPanelMode == ASSUME SleepsIdle PROVE TouchSpec => []PanelMode
<1>1. TouchGood => PanelMode BY DEF TouchGood, Panel
<1>2. QED BY <1>1, TouchInvariant, PTL

-----------------------------------------------------------------------------
(***************************************************************************)
(* The ADC core under the touchscreen.  Where the system sleeps only while *)
(* the driver waits for the pen, nothing is requested of a sleeping ADC,   *)
(* so that, unlike for the core alone, suspend is no exception to what     *)
(* follows.  Reads may be repeated at any time (RereadStale is free).      *)
(***************************************************************************)

(* A sleeping driver requests nothing. *)
LEMMA NoneWhileAsleep ==
  ASSUME TouchGood, SleepNested, TypeOK, susp, [TouchNext]_tsvars
  PROVE  cur = NULL => cur' = NULL
<1>1. ts_susp /\ tpc = "idle"
  BY DEF SleepNested, TouchGood, Asleep, Resting
<1>2. ASSUME NEW c \in Reader PROVE ~ReaderTask(c)
  BY <1>1 DEF ReaderTask
<1>3. ~StylusIrq /\ ~TimerStart
  BY <1>1 DEF StylusIrq, TimerStart
<1>4. ~TouchIrqSpurious /\ ~TouchIrqMore /\ ~TouchIrqLast
  BY DEF TouchIrqSpurious, TouchIrqMore, TouchIrqLast, IrqSpurious, IrqMore, IrqLast,
         Interrupted
<1>5. ASSUME \/ TouchConvDone \/ PenDetect \/ PenMove \/ TimerFire \/ TimerCheck
             \/ TimerReport \/ TimerRelease \/ TimerRearm \/ TsSuspend \/ TsResume
             \/ AdcSuspend \/ AdcResume \/ RemoveFreeIrq \/ RemoveDelTimer
      PROVE  cur' = cur
  BY <1>5 DEF TouchConvDone, PenDetect, PenMove, TimerFire, TimerCheck, TimerReport,
              TimerRelease, TimerRearm, TsSuspend, TsResume, AdcSuspend, AdcResume,
              RemoveFreeIrq, RemoveDelTimer, HwConvDone, Suspend, Resume, adcvars, core
<1>6. CASE UNCHANGED tsvars BY <1>6 DEF tsvars, adcvars
<1>7. QED BY <1>2, <1>3, <1>4, <1>5, <1>6, TouchCases

LEMMA TouchUnderway ==
  ASSUME SleepsIdle, Timeouts # "any"
  PROVE  TouchSpec => [](CoreGood /\ Underway)
<1>1. TouchInit => CoreGood /\ Underway BY UnderwayInit DEF TouchInit
<1>2. ASSUME TouchGood, SleepNested, CoreGood, Underway, [TouchNext]_tsvars
      PROVE  CoreGood' /\ Underway'
  <2>1. [Next]_adcvars BY <1>2, CoreStep
  <2>2. ASSUME susp PROVE ~TsRequest
    <3>1. cur = NULL /\ cur' = NULL BY <1>2, <2>2, NoneWhileAsleep DEF Underway, CoreGood
    <3>2. TsRequest => cur' \in Client
      <4>1. SUFFICES ASSUME TsRequest PROVE cur' \in Client OBVIOUS
      <4>2. Start(TsClient, Samples) /\ TsClient \in Client /\ Samples \in Nat /\ TypeOK
        BY <1>2, <4>1, AdcAssumption DEF TsRequest, CoreGood
      <4>3. QED BY <4>2, StartEffect
    <3>3. QED BY <3>1, <3>2, AdcAssumption
  <2>3. QED BY <1>2, <2>1, <2>2, UnderwayStep DEF SleepsIdle
<1>3. QED BY <1>1, <1>2, TouchInvariant, TouchCore, PTL DEF TouchSpec

(***************************************************************************)
(* ConversionUnderway: whatever the pen, the timer and the readers do, and *)
(* across idle sleeps, adc->cur is being converted or has its interrupt    *)
(* latched: the converter does not stall, and no read waits in vain.       *)
(***************************************************************************)
THEOREM TouchConversionUnderway ==
  ASSUME SleepsIdle, Timeouts # "any" PROVE TouchSpec => []ConversionUnderway
BY TouchUnderway, UnderwayShown, PTL

(* NoDoubleAdd: a reader that may repeat its read at any time is never     *)
(* linked twice, because no read ends before its request has left the list. *)
THEOREM TouchNoDoubleAdd ==
  ASSUME SleepsIdle, Timeouts # "any" PROVE TouchSpec => []NoDoubleAdd
<1>1. CoreGood => NoDoubleAdd BY DEF CoreGood, Linkage, Distinct, NoDoubleAdd
<1>2. QED BY <1>1, TouchUnderway, PTL

(* OwnSample: between touchscreen conversions a reader gets the value of   *)
(* its own channel.                                                        *)
THEOREM TouchOwnSample ==
  ASSUME SleepsIdle, Timeouts # "any" PROVE TouchSpec => []OwnSample
<1>1. CoreGood => OwnSample BY DEF CoreGood, HwInv
<1>2. QED BY <1>1, TouchUnderway, PTL
=============================================================================
