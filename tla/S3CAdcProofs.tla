---------------------------- MODULE S3CAdcProofs ----------------------------
(***************************************************************************)
(* Proofs about the ADC core, for any number of clients and samples.       *)
(***************************************************************************)
EXTENDS S3CAdc, SequenceTheorems, TLAPS

-----------------------------------------------------------------------------
(* Facts about the two queues. *)

(* The clients on a list, and a list on which each is linked once. *)
Members(q) == {q[i] : i \in DOMAIN q}
Distinct(q) == \A i, j \in DOMAIN q : q[i] = q[j] => i = j

(* Unlinking a client removes nothing else and keeps the rest distinct:    *)
(* the list_for_each_safe loop of s3c_adc_release.                         *)
LEMMA WithoutProperties ==
  ASSUME NEW S, NEW pend \in Seq(S), NEW c \in S
  PROVE  /\ Without(pend, c) \in Seq(S)
         /\ Members(Without(pend, c)) \subseteq Members(pend)
         /\ Distinct(pend) => /\ Distinct(Without(pend, c))
                              /\ c \notin Members(Without(pend, c))
<1> DEFINE w == Without(pend, c)
<1>1. CASE ~ \E i \in DOMAIN pend : pend[i] = c
  BY <1>1 DEF Without, Members
<1>2. CASE \E i \in DOMAIN pend : pend[i] = c
  <2> DEFINE k == CHOOSE i \in DOMAIN pend : pend[i] = c
  <2>1. k \in 1..Len(pend) /\ pend[k] = c
    BY <1>2
  <2> DEFINE a == SubSeq(pend, 1, k-1)
             b == SubSeq(pend, k+1, Len(pend))
  <2>2. w = a \o b
    BY <1>2 DEF Without, RemoveAt
  <2> HIDE DEF k
  <2>a. a \in Seq(S) /\ Len(a) = k - 1 /\ \A i \in 1..(k-1) : a[i] = pend[i]
    <3>1. \A i \in 1..(k-1) : pend[i] \in S BY <2>1
    <3>2. k - 1 \in Int /\ 1 \in Int BY <2>1
    <3>3. QED BY <2>1, <3>1, <3>2, SubSeqProperties
  <2>b. /\ b \in Seq(S) /\ Len(b) = Len(pend) - k
        /\ \A i \in 1..(Len(pend)-k) : b[i] = pend[k+i]
    <3>1. \A i \in (k+1)..Len(pend) : pend[i] \in S BY <2>1
    <3>2. k + 1 \in Int /\ Len(pend) \in Int BY <2>1
    <3>3. /\ b \in Seq(S) /\ Len(b) = IF k+1 <= Len(pend) THEN Len(pend)-(k+1)+1 ELSE 0
          /\ \A i \in 1..(Len(pend)-(k+1)+1) : b[i] = pend[(k+1)+i-1]
      BY <3>1, <3>2, SubSeqProperties
    <3>4. QED BY <2>1, <3>2, <3>3
  <2> HIDE DEF a, b, w
  <2>3. w \in Seq(S) /\ Len(w) = Len(pend) - 1
    <3>1. w \in Seq(S) /\ Len(w) = Len(a) + Len(b)
      BY <2>2, <2>a, <2>b, ConcatProperties
    <3>2. QED BY <2>1, <2>a, <2>b, <3>1, LenProperties
  <2>4. \A i \in 1..Len(w) : w[i] = pend[IF i < k THEN i ELSE i + 1]
    <3>1. \A i \in 1..Len(w) : w[i] = IF i <= Len(a) THEN a[i] ELSE b[i - Len(a)]
      BY <2>2, <2>a, <2>b, <2>3, ConcatProperties
    <3>2. QED BY <2>1, <2>3, <2>a, <2>b, <3>1
  <2>5. QED
    <3>1. DOMAIN w = 1..Len(w) /\ DOMAIN pend = 1..Len(pend)
      BY <2>3
    <3>2. Members(w) \subseteq Members(pend)
      BY <2>1, <2>3, <2>4, <3>1 DEF Members
    <3>3. ASSUME Distinct(pend) PROVE c \notin Members(w)
      BY <2>1, <2>3, <2>4, <3>1, <3>3 DEF Members, Distinct
    <3>4. ASSUME Distinct(pend) PROVE Distinct(w)
      <4>1. SUFFICES ASSUME NEW i \in 1..Len(w), NEW j \in 1..Len(w), w[i] = w[j]
                     PROVE  i = j
        BY <3>1 DEF Distinct
      <4> DEFINE f(n) == IF n < k THEN n ELSE n + 1
      <4>2. f(i) \in DOMAIN pend /\ f(j) \in DOMAIN pend
        BY <2>1, <2>3, <3>1
      <4>3. pend[f(i)] = pend[f(j)]
        BY <2>4, <4>1
      <4>4. f(i) = f(j)
        BY <3>4, <4>2, <4>3 DEF Distinct
      <4>5. QED BY <2>1, <2>3, <4>4
    <3>5. QED BY <2>3, <3>2, <3>3, <3>4 DEF w
<1>3. QED BY <1>1, <1>2

(* s3c_adc_try takes the head of the list away, and nothing else. *)
LEMMA TailProperties ==
  ASSUME NEW S, NEW pend \in Seq(S), pend # <<>>
  PROVE  /\ Head(pend) \in S /\ Tail(pend) \in Seq(S)
         /\ Members(pend) = {Head(pend)} \cup Members(Tail(pend))
         /\ Distinct(pend) => Distinct(Tail(pend)) /\ Head(pend) \notin Members(Tail(pend))
<1>1. /\ Head(pend) \in S /\ Tail(pend) \in Seq(S)
      /\ Len(pend) \in Nat \ {0} /\ Head(pend) = pend[1]
      /\ Len(Tail(pend)) = Len(pend) - 1
      /\ \A i \in 1..Len(Tail(pend)) : Tail(pend)[i] = pend[i+1]
      /\ DOMAIN pend = 1..Len(pend) /\ DOMAIN Tail(pend) = 1..Len(Tail(pend))
  BY HeadTailProperties, EmptySeq
<1>2. Members(Tail(pend)) \subseteq Members(pend) /\ Head(pend) \in Members(pend)
  BY <1>1 DEF Members
<1>3. ASSUME NEW i \in DOMAIN pend, i # 1 PROVE pend[i] \in Members(Tail(pend))
  <2>1. i - 1 \in DOMAIN Tail(pend) /\ Tail(pend)[i - 1] = pend[i]
    BY <1>1, <1>3
  <2>2. QED BY <2>1 DEF Members
<1>4. Members(pend) = {Head(pend)} \cup Members(Tail(pend))
  BY <1>1, <1>2, <1>3 DEF Members
<1>5. Distinct(pend) => Distinct(Tail(pend)) /\ Head(pend) \notin Members(Tail(pend))
  BY <1>1 DEF Members, Distinct
<1>6. QED BY <1>1, <1>4, <1>5

(* list_add_tail. *)
LEMMA AppendMembers ==
  ASSUME NEW S, NEW pend \in Seq(S), NEW c \in S
  PROVE  /\ Append(pend, c) \in Seq(S) /\ Append(pend, c) # <<>>
         /\ Members(Append(pend, c)) = Members(pend) \cup {c}
         /\ Distinct(pend) /\ c \notin Members(pend) => Distinct(Append(pend, c))
<1>1. /\ Append(pend, c) \in Seq(S) /\ Append(pend, c) # <<>>
      /\ Len(pend) \in Nat /\ DOMAIN pend = 1..Len(pend)
      /\ DOMAIN Append(pend, c) = 1..(Len(pend) + 1)
      /\ \A i \in 1..Len(pend) : Append(pend, c)[i] = pend[i]
      /\ Append(pend, c)[Len(pend) + 1] = c
  BY AppendProperties, LenProperties
<1>2. \A i \in 1..(Len(pend) + 1) : i \in 1..Len(pend) \/ i = Len(pend) + 1
  BY <1>1
<1>3. Members(Append(pend, c)) = Members(pend) \cup {c}
  BY <1>1, <1>2 DEF Members
<1>4. Distinct(pend) /\ c \notin Members(pend) => Distinct(Append(pend, c))
  BY <1>1, <1>2 DEF Members, Distinct
<1>5. QED BY <1>1, <1>3, <1>4

-----------------------------------------------------------------------------
(* What s3c_adc_try does to the queues. *)

(* The readers that wait or are being converted. *)
LineSet == Members(adc_pending) \cup ({cur} \cap Reader)

(* s3c_adc_try leaves the converter idle only with both queues empty, and  *)
(* moves one request from its queue to adc->cur.                           *)
LEMMA TryEffect ==
  ASSUME NEW tp \in {TsClient, NULL}, NEW pend \in Seq(Reader), Try(tp, pend)
  PROVE  /\ cur' \in Client \cup {NULL} /\ ts_pend' \in {TsClient, NULL}
         /\ adc_pending' \in Seq(Reader)
         /\ hwconv' = IF cur' # NULL /\ ~susp THEN cur' ELSE hwconv
         /\ cur' = NULL => ts_pend' = NULL /\ adc_pending' = <<>> /\ tp = NULL /\ pend = <<>>
         /\ LineSet' = Members(pend)
         /\ Distinct(pend) => Distinct(adc_pending)' /\ cur' \notin Members(adc_pending')
<1>0. NULL \notin Reader /\ TsClient \notin Reader /\ Reader \subseteq Client
      /\ TsClient # NULL /\ TsClient \in Client
  BY AdcAssumption DEF Reader
<1>1. Members(pend) \subseteq Reader
  BY DEF Members
<1>2. hwconv' = IF cur' # NULL /\ ~susp THEN cur' ELSE hwconv
  BY DEF Try
<1>3. CASE tp # NULL
  <2>1. cur' = TsClient /\ adc_pending' = pend /\ ts_pend' = NULL
    BY <1>0, <1>3 DEF Try, NextClient
  <2>2. QED BY <1>0, <1>1, <1>2, <2>1 DEF LineSet, Distinct, Members
<1>4. CASE tp = NULL /\ pend # <<>>
  <2>1. cur' = Head(pend) /\ adc_pending' = Tail(pend) /\ ts_pend' = NULL
    BY <1>4 DEF Try, NextClient
  <2>2. /\ cur' \in Reader /\ adc_pending' \in Seq(Reader)
        /\ Members(pend) = {cur'} \cup Members(adc_pending')
        /\ Distinct(pend) => Distinct(adc_pending)' /\ cur' \notin Members(adc_pending')
    BY <1>4, <2>1, TailProperties
  <2>3. LineSet' = Members(pend)
    BY <2>2 DEF LineSet
  <2>4. QED BY <1>0, <1>2, <2>1, <2>2, <2>3
<1>5. CASE tp = NULL /\ pend = <<>>
  <2>1. cur' = NULL /\ adc_pending' = <<>> /\ ts_pend' = NULL
    BY <1>5 DEF Try, NextClient
  <2>2. Members(<<>>) = {} /\ Distinct(<<>>)
    BY DEF Members, Distinct
  <2>3. QED BY <1>0, <1>2, <1>5, <2>1, <2>2 DEF LineSet
<1>6. QED BY <1>3, <1>4, <1>5

(* The same for the callers that first test adc->cur. *)
LEMMA TryIfFreeEffect ==
  ASSUME NEW c \in Client \cup {NULL},
         NEW tp \in {TsClient, NULL}, NEW pend \in Seq(Reader), TryIfFree(c, tp, pend)
  PROVE  /\ cur' \in Client \cup {NULL} /\ ts_pend' \in {TsClient, NULL}
         /\ adc_pending' \in Seq(Reader)
         /\ hwconv' = IF c = NULL /\ cur' # NULL /\ ~susp THEN cur' ELSE hwconv
         /\ c # NULL => cur' = c
         /\ cur' = NULL => ts_pend' = NULL /\ adc_pending' = <<>> /\ tp = NULL /\ pend = <<>>
         /\ LineSet' = Members(pend) \cup ({c} \cap Reader)
         /\ Distinct(pend) /\ c \notin Members(pend) =>
              Distinct(adc_pending)' /\ cur' \notin Members(adc_pending')
<1>1. CASE c = NULL /\ Try(tp, pend)
  <2>1. {c} \cap Reader = {}
    BY <1>1, AdcAssumption DEF Reader
  <2>2. QED BY <1>1, <2>1, TryEffect
<1>2. CASE c # NULL /\ cur' = c /\ ts_pend' = tp /\ adc_pending' = pend /\ UNCHANGED hwconv
  BY <1>2 DEF LineSet, Distinct, Members
<1>3. QED BY <1>1, <1>2 DEF TryIfFree

(* And for s3c_adc_start. *)
LEMMA StartEffect ==
  ASSUME TypeOK, NEW c \in Client, NEW nr \in Nat, Start(c, nr)
  PROVE  /\ cur' \in Client /\ ts_pend' \in {TsClient, NULL}
         /\ adc_pending' \in Seq(Reader) /\ nr_samples' \in [Client -> Nat]
         /\ nr_samples' = [nr_samples EXCEPT ![c] = nr]
         /\ hwconv' = IF cur = NULL /\ ~susp THEN cur' ELSE hwconv
         /\ cur # NULL => cur' = cur
         /\ LineSet' = LineSet \cup ({c} \cap Reader)
         /\ Distinct(adc_pending) /\ cur \notin Members(adc_pending) /\ c \notin LineSet =>
              Distinct(adc_pending)' /\ cur' \notin Members(adc_pending')
<1> DEFINE tp == IF c = TsClient THEN c ELSE ts_pend
           pend == IF c = TsClient THEN adc_pending ELSE Append(adc_pending, c)
<1>1. /\ TryIfFree(cur, tp, pend)
      /\ nr_samples' = [nr_samples EXCEPT ![c] = nr] /\ nr_samples' \in [Client -> Nat]
      /\ cur \in Client \cup {NULL} /\ tp \in {TsClient, NULL} /\ NULL \notin Client
  BY AdcAssumption DEF Start, TypeOK
<1>2. /\ pend \in Seq(Reader) /\ Members(pend) = Members(adc_pending) \cup ({c} \cap Reader)
      /\ tp # NULL \/ pend # <<>>
      /\ Distinct(adc_pending) /\ cur \notin Members(adc_pending) /\ c \notin LineSet =>
           Distinct(pend) /\ cur \notin Members(pend)
  <2>1. CASE c = TsClient
    BY <2>1, <1>1 DEF TypeOK, Reader
  <2>2. CASE c # TsClient
    <3>1. c \in Reader /\ pend = Append(adc_pending, c) /\ adc_pending \in Seq(Reader)
      BY <2>2 DEF Reader, TypeOK
    <3>2. QED BY <3>1, AppendMembers DEF LineSet
  <2>3. QED BY <2>1, <2>2
<1> HIDE DEF tp, pend
<1>3. QED BY <1>1, <1>2, TryIfFreeEffect DEF LineSet

-----------------------------------------------------------------------------
(* Type correctness and the absence of a stall with requests queued.       *)

LEMMA IdleStep == TypeOK /\ IdleImpliesEmpty /\ [Next]_adcvars => TypeOK' /\ IdleImpliesEmpty'
<1> SUFFICES ASSUME TypeOK, IdleImpliesEmpty, [Next]_adcvars
             PROVE  TypeOK' /\ IdleImpliesEmpty'
  OBVIOUS
<1> USE DEF TypeOK, IdleImpliesEmpty
<1>0. NULL \notin Client /\ TsClient \in Client /\ Reader \subseteq Client /\ Samples \in Nat
  BY AdcAssumption DEF Reader
<1>1. ASSUME NEW c \in Reader, Register(c) PROVE TypeOK' /\ IdleImpliesEmpty'
  BY <1>0, <1>1 DEF Register, ReaderState
<1>2. ASSUME NEW c \in Reader, Release(c) PROVE TypeOK' /\ IdleImpliesEmpty'
  <2>1. Without(adc_pending, c) \in Seq(Reader)
    BY WithoutProperties
  <2>2. /\ TryIfFree(IF cur = c THEN NULL ELSE cur, ts_pend, Without(adc_pending, c))
        /\ reader' \in [Reader -> ReaderState]
        /\ UNCHANGED <<nr_samples, convert_cb, result, irqpend, susp>>
    BY <1>2 DEF Release, ReaderState
  <2>3. QED BY <1>0, <2>1, <2>2, TryIfFreeEffect
<1>3. ASSUME NEW c \in Reader, ReadBegin(c) PROVE TypeOK' /\ IdleImpliesEmpty'
  BY <1>0, <1>3 DEF ReadBegin, ReaderState, core
<1>4. ASSUME NEW c \in Reader, ReadStart(c) PROVE TypeOK' /\ IdleImpliesEmpty'
  <2>1. Start(c, 1) /\ UNCHANGED <<convert_cb, result, irqpend, susp>>
        /\ reader' \in [Reader -> ReaderState]
    BY <1>4 DEF ReadStart, ReaderState
  <2>2. QED BY <1>0, <2>1, StartEffect
<1>5. ASSUME NEW c \in Reader, ReadDone(c) PROVE TypeOK' /\ IdleImpliesEmpty'
  BY <1>0, <1>5 DEF ReadDone, ReaderState, core
<1>6. ASSUME NEW c \in Reader, ReadTimeout(c) PROVE TypeOK' /\ IdleImpliesEmpty'
  BY <1>0, <1>6 DEF ReadTimeout, ReaderState, core
<1>7. ASSUME TsRequest PROVE TypeOK' /\ IdleImpliesEmpty'
  <2>1. Start(TsClient, Samples) /\ UNCHANGED <<convert_cb, result, reader, irqpend, susp>>
    BY <1>7 DEF TsRequest, reads
  <2>2. QED BY <1>0, <2>1, StartEffect
<1>8. ASSUME TsRequestAgain PROVE TypeOK' /\ IdleImpliesEmpty'
  BY <1>8 DEF TsRequestAgain, adcvars
<1>9. ASSUME HwConvDone PROVE TypeOK' /\ IdleImpliesEmpty'
  BY <1>9 DEF HwConvDone, core, reads
<1>10. ASSUME IrqSpurious PROVE TypeOK' /\ IdleImpliesEmpty'
  BY <1>10 DEF IrqSpurious, Interrupted, core, reads
<1>11. ASSUME NEW c \in Client, Converted(c) PROVE result' \in [Reader -> Client \cup {NULL}]
  BY <1>11 DEF Converted
<1>12. ASSUME IrqMore PROVE TypeOK' /\ IdleImpliesEmpty'
  <2>1. cur \in Client /\ nr_samples' \in [Client -> Nat]
    BY <1>12 DEF IrqMore
  <2>2. QED BY <1>11, <1>12, <2>1 DEF IrqMore, Interrupted
<1>13. ASSUME IrqLast PROVE TypeOK' /\ IdleImpliesEmpty'
  <2>1. cur \in Client /\ nr_samples' \in [Client -> Nat] /\ Try(ts_pend, adc_pending)
        /\ UNCHANGED <<convert_cb, reader, susp>> /\ irqpend' = NULL
    BY <1>13 DEF IrqLast, Interrupted
  <2>2. result' \in [Reader -> Client \cup {NULL}]
    BY <1>11, <1>13, <2>1 DEF IrqLast
  <2>3. QED BY <1>0, <2>1, <2>2, TryEffect
<1>14. ASSUME Suspend PROVE TypeOK' /\ IdleImpliesEmpty'
  BY <1>14 DEF Suspend, core, reads
<1>15. ASSUME Resume PROVE TypeOK' /\ IdleImpliesEmpty'
  BY <1>15 DEF Resume, core, reads
<1>16. CASE UNCHANGED adcvars
  BY <1>16 DEF adcvars
<1>17. QED
  BY <1>1, <1>2, <1>3, <1>4, <1>5, <1>6, <1>7, <1>8, <1>9, <1>10, <1>12, <1>13,
     <1>14, <1>15, <1>16 DEF Next

LEMMA AdcInit == Init => TypeOK /\ IdleImpliesEmpty
<1>1. <<>> \in Seq(Reader)
  OBVIOUS
<1>2. Samples \in Nat /\ Reader \subseteq Client
  BY AdcAssumption DEF Reader
<1>3. SUFFICES ASSUME Init PROVE TypeOK /\ IdleImpliesEmpty
  OBVIOUS
<1>4. nr_samples \in [Client -> Nat] /\ convert_cb \in [Reader -> BOOLEAN]
      /\ result \in [Reader -> Client \cup {NULL}] /\ reader \in [Reader -> ReaderState]
  BY <1>3 DEF Init, ReaderState
<1>5. QED BY <1>1, <1>3, <1>4 DEF Init, TypeOK, IdleImpliesEmpty

(* The ADC core keeps its types in every reachable state: in particular    *)
(* only readers are ever linked on adc_pending.                            *)
THEOREM AdcTypeCorrect == Spec => []TypeOK
BY AdcInit, IdleStep, PTL DEF Spec

(* adc->cur is never NULL with a request queued, whatever times out, is    *)
(* released or is lost in suspend: no path forgets s3c_adc_try.            *)
THEOREM AdcNeverIdleWithWork == Spec => []IdleImpliesEmpty
BY AdcInit, IdleStep, PTL DEF Spec

-----------------------------------------------------------------------------
(* Linkage: each waiting reader is linked once and its client is alive.    *)

(* Where the task of a queued reader is: p is {"wait"} where no read times *)
(* out, and {"out", "wait"} where a timed out request is left queued.      *)
Linkage(p) ==
  /\ Distinct(adc_pending)
  /\ cur \notin Members(adc_pending)
  /\ \A c \in LineSet : reader[c] \in p

(* A queued read that is still waited for has no result yet, is called     *)
(* back, and asks for one sample.                                          *)
Unanswered(c) == result[c] = NULL /\ convert_cb[c] = TRUE

Fresh ==
  /\ \A c \in Reader : reader[c] = "set" => Unanswered(c)
  /\ \A c \in LineSet : reader[c] = "wait" => Unanswered(c)
  /\ \A c \in LineSet : nr_samples[c] = 1

LEMMA LinkageStep ==
  ASSUME NEW p \in {{"wait"}, {"out", "wait"}}, p = {"wait"} \/ ~RereadStale,
         "out" \in p \/ \A c \in Reader : ~ReadTimeout(c),
         TypeOK, Linkage(p), Fresh, [Next]_adcvars
  PROVE  Linkage(p)'
<1>0. NULL \notin Client /\ TsClient \in Client /\ TsClient \notin Reader
      /\ Reader \subseteq Client /\ Samples \in Nat /\ LineSet \subseteq Reader
      /\ adc_pending \in Seq(Reader) /\ ts_pend \in {TsClient, NULL}
      /\ cur \in Client \cup {NULL} /\ reader \in [Reader -> ReaderState]
  BY AdcAssumption DEF Reader, TypeOK, LineSet, Members
<1>a. ASSUME UNCHANGED <<cur, adc_pending, reader>> PROVE Linkage(p)'
  BY <1>a DEF Linkage, LineSet, Members, Distinct
<1>b. ASSUME NEW c \in Reader, NEW st, UNCHANGED <<cur, adc_pending>>,
             reader' = [reader EXCEPT ![c] = st], c \notin LineSet \/ st \in p
      PROVE  Linkage(p)'
  <2>1. LineSet' = LineSet /\ Distinct(adc_pending)' = Distinct(adc_pending)
        /\ Members(adc_pending') = Members(adc_pending)
    BY <1>b DEF LineSet, Members, Distinct
  <2>2. \A d \in LineSet : reader'[d] \in p
    BY <1>0, <1>b DEF Linkage
  <2>3. QED BY <1>b, <2>1, <2>2 DEF Linkage
<1>1. ASSUME NEW c \in Reader, Register(c) PROVE Linkage(p)'
  <2>1. c \notin LineSet
    BY <1>1 DEF Register, Linkage
  <2>2. QED BY <1>1, <1>b, <2>1 DEF Register
<1>2. ASSUME NEW c \in Reader, Release(c) PROVE Linkage(p)'
  <2> DEFINE cc == IF cur = c THEN NULL ELSE cur
             w == Without(adc_pending, c)
  <2>1. /\ TryIfFree(cc, ts_pend, w) /\ cc \in Client \cup {NULL}
        /\ reader' = [reader EXCEPT ![c] = "unreg"]
    BY <1>0, <1>2 DEF Release
  <2>2. w \in Seq(Reader) /\ Members(w) \subseteq Members(adc_pending)
        /\ Distinct(w) /\ c \notin Members(w)
    BY <1>0, WithoutProperties DEF Linkage
  <2>3. cc \notin Members(w)
    <3>1. Members(adc_pending) \subseteq Reader
      BY <1>0 DEF LineSet
    <3>2. QED BY <1>0, <2>2, <3>1 DEF Linkage
  <2>4. Members(w) \cup ({cc} \cap Reader) \subseteq LineSet \ {c}
    BY <1>0, <2>2 DEF LineSet
  <2> HIDE DEF w, cc
  <2>5. /\ LineSet' = Members(w) \cup ({cc} \cap Reader)
        /\ Distinct(adc_pending)' /\ cur' \notin Members(adc_pending')
    BY <1>0, <2>1, <2>2, <2>3, TryIfFreeEffect
  <2>6. \A d \in LineSet' : reader'[d] \in p
    BY <1>0, <2>1, <2>4, <2>5 DEF Linkage
  <2>7. QED BY <2>5, <2>6 DEF Linkage
<1>3. ASSUME NEW c \in Reader, ReadBegin(c) PROVE Linkage(p)'
  <2>1. c \notin LineSet
    BY <1>0, <1>3 DEF ReadBegin, Linkage, LineSet, Members, Contains
  <2>2. QED BY <1>3, <1>b, <2>1 DEF ReadBegin, core
<1>4. ASSUME NEW c \in Reader, ReadStart(c) PROVE Linkage(p)'
  <2>1. Start(c, 1) /\ reader' = [reader EXCEPT ![c] = "wait"] /\ reader[c] = "set"
    BY <1>4 DEF ReadStart
  <2>2. c \notin LineSet
    BY <2>1 DEF Linkage
  <2>3. /\ LineSet' = LineSet \cup {c}
        /\ Distinct(adc_pending)' /\ cur' \notin Members(adc_pending')
    BY <1>0, <2>1, <2>2, StartEffect DEF Linkage
  <2>4. \A d \in LineSet' : reader'[d] \in p
    BY <1>0, <2>1, <2>3 DEF Linkage
  <2>5. QED BY <2>3, <2>4 DEF Linkage
<1>5. ASSUME NEW c \in Reader, ReadDone(c) PROVE Linkage(p)'
  <2>1. c \notin LineSet
    BY <1>5 DEF ReadDone, Fresh, Unanswered
  <2>2. QED BY <1>5, <1>b, <2>1 DEF ReadDone, core
<1>6. ASSUME NEW c \in Reader, ReadTimeout(c) PROVE Linkage(p)'
  BY <1>6, <1>b DEF ReadTimeout, core
<1>7. ASSUME TsRequest PROVE Linkage(p)'
  <2>1. Start(TsClient, Samples) /\ UNCHANGED reader
    BY <1>7 DEF TsRequest, reads
  <2>2. /\ LineSet' = LineSet
        /\ Distinct(adc_pending)' /\ cur' \notin Members(adc_pending')
    <3>1. {TsClient} \cap Reader = {} /\ TsClient \notin LineSet
      BY <1>0
    <3>2. /\ LineSet' = LineSet \cup ({TsClient} \cap Reader)
          /\ Distinct(adc_pending)' /\ cur' \notin Members(adc_pending')
      BY <1>0, <2>1, <3>1, StartEffect DEF Linkage
    <3>3. QED BY <3>1, <3>2
  <2>3. QED BY <2>1, <2>2 DEF Linkage
<1>8. ASSUME TsRequestAgain \/ HwConvDone \/ IrqSpurious \/ Suspend \/ Resume PROVE Linkage(p)'
  BY <1>8, <1>a DEF TsRequestAgain, HwConvDone, IrqSpurious, Suspend, Resume, adcvars, core, reads
<1>9. ASSUME IrqMore PROVE Linkage(p)'
  BY <1>9, <1>a DEF IrqMore
<1>10. ASSUME IrqLast PROVE Linkage(p)'
  <2>1. Try(ts_pend, adc_pending) /\ UNCHANGED reader
    BY <1>10 DEF IrqLast
  <2>2. /\ LineSet' = Members(adc_pending)
        /\ Distinct(adc_pending)' /\ cur' \notin Members(adc_pending')
    BY <1>0, <2>1, TryEffect DEF Linkage
  <2>3. QED BY <2>1, <2>2 DEF Linkage, LineSet
<1>11. CASE UNCHANGED adcvars
  BY <1>11, <1>a DEF adcvars
<1>12. QED
  BY <1>1, <1>2, <1>3, <1>4, <1>5, <1>6, <1>7, <1>8, <1>9, <1>10, <1>11 DEF Next

LEMMA FreshStep ==
  ASSUME NEW p \in {{"wait"}, {"out", "wait"}},
         TypeOK, Linkage(p), Fresh, [Next]_adcvars
  PROVE  Fresh'
<1>0. NULL \notin Client /\ TsClient \in Client /\ TsClient \notin Reader
      /\ Reader \subseteq Client /\ Samples \in Nat /\ LineSet \subseteq Reader
      /\ adc_pending \in Seq(Reader) /\ ts_pend \in {TsClient, NULL}
      /\ cur \in Client \cup {NULL} /\ reader \in [Reader -> ReaderState]
      /\ result \in [Reader -> Client \cup {NULL}] /\ convert_cb \in [Reader -> BOOLEAN]
      /\ nr_samples \in [Client -> Nat]
  BY AdcAssumption DEF Reader, TypeOK, LineSet, Members
<1>00. "set" \notin p
  OBVIOUS
<1>a. ASSUME UNCHANGED <<cur, adc_pending>> PROVE LineSet' = LineSet
  BY <1>a DEF LineSet, Members
<1>b. ASSUME LineSet' \subseteq LineSet, UNCHANGED <<reader, convert_cb, result, nr_samples>>
      PROVE  Fresh'
  BY <1>b DEF Fresh, Unanswered
<1>1. ASSUME NEW c \in Reader, Register(c) PROVE Fresh'
  <2>1. c \notin LineSet
    BY <1>1 DEF Register, Linkage
  <2>2. QED BY <1>0, <1>1, <1>a, <2>1 DEF Register, Fresh, Unanswered
<1>2. ASSUME NEW c \in Reader, Release(c) PROVE Fresh'
  <2> DEFINE cc == IF cur = c THEN NULL ELSE cur
             w == Without(adc_pending, c)
  <2>1. /\ TryIfFree(cc, ts_pend, w) /\ cc \in Client \cup {NULL}
        /\ reader' = [reader EXCEPT ![c] = "unreg"]
        /\ UNCHANGED <<convert_cb, result, nr_samples>>
    BY <1>0, <1>2 DEF Release
  <2>2. w \in Seq(Reader) /\ Members(w) \subseteq Members(adc_pending)
    BY <1>0, WithoutProperties
  <2>3. Members(w) \cup ({cc} \cap Reader) \subseteq LineSet
    BY <1>0, <2>2 DEF LineSet
  <2> HIDE DEF w, cc
  <2>4. LineSet' \subseteq LineSet
    BY <1>0, <2>1, <2>2, <2>3, TryIfFreeEffect
  <2>5. QED BY <1>0, <2>1, <2>4 DEF Fresh, Unanswered
<1>3. ASSUME NEW c \in Reader, ReadBegin(c) PROVE Fresh'
  <2>1. reader' = [reader EXCEPT ![c] = "set"] /\ convert_cb' = [convert_cb EXCEPT ![c] = TRUE]
        /\ result' = [result EXCEPT ![c] = NULL] /\ UNCHANGED nr_samples /\ LineSet' = LineSet
    BY <1>3, <1>a DEF ReadBegin, core
  <2>2. QED BY <1>0, <2>1 DEF Fresh, Unanswered
<1>4. ASSUME NEW c \in Reader, ReadStart(c) PROVE Fresh'
  <2>1. Start(c, 1) /\ reader' = [reader EXCEPT ![c] = "wait"] /\ reader[c] = "set"
        /\ UNCHANGED <<convert_cb, result>>
    BY <1>4 DEF ReadStart
  <2>2. LineSet' = LineSet \cup {c} /\ nr_samples' = [nr_samples EXCEPT ![c] = 1]
    BY <1>0, <2>1, StartEffect
  <2>3. QED BY <1>0, <2>1, <2>2 DEF Fresh, Unanswered
<1>5. ASSUME NEW c \in Reader, ReadDone(c) PROVE Fresh'
  <2>1. reader' = [reader EXCEPT ![c] = "out"] /\ convert_cb' = [convert_cb EXCEPT ![c] = FALSE]
        /\ UNCHANGED <<result, nr_samples>> /\ LineSet' = LineSet
    BY <1>5, <1>a DEF ReadDone, core
  <2>2. QED BY <1>0, <2>1 DEF Fresh, Unanswered
<1>6. ASSUME NEW c \in Reader, ReadTimeout(c) PROVE Fresh'
  <2>1. reader' = [reader EXCEPT ![c] = "out"]
        /\ UNCHANGED <<convert_cb, result, nr_samples>> /\ LineSet' = LineSet
    BY <1>6, <1>a DEF ReadTimeout, core
  <2>2. QED BY <1>0, <2>1 DEF Fresh, Unanswered
<1>7. ASSUME TsRequest PROVE Fresh'
  <2>1. Start(TsClient, Samples) /\ UNCHANGED <<convert_cb, result, reader>>
    BY <1>7 DEF TsRequest, reads
  <2>2. LineSet' = LineSet /\ nr_samples' = [nr_samples EXCEPT ![TsClient] = Samples]
    <3>1. {TsClient} \cap Reader = {}
      BY <1>0
    <3>2. LineSet' = LineSet \cup ({TsClient} \cap Reader)
          /\ nr_samples' = [nr_samples EXCEPT ![TsClient] = Samples]
      BY <1>0, <2>1, StartEffect
    <3>3. QED BY <3>1, <3>2
  <2>3. QED BY <1>0, <2>1, <2>2 DEF Fresh, Unanswered
<1>8. ASSUME TsRequestAgain \/ HwConvDone \/ IrqSpurious \/ Suspend \/ Resume PROVE Fresh'
  BY <1>8, <1>a, <1>b
     DEF TsRequestAgain, HwConvDone, IrqSpurious, Suspend, Resume, adcvars, core, reads
<1>9. ASSUME IrqMore PROVE Fresh'
  <2>1. cur \in Client /\ nr_samples[cur] > 1 /\ UNCHANGED <<cur, adc_pending, reader, convert_cb>>
        /\ nr_samples' = [nr_samples EXCEPT ![cur] = @ - 1] /\ Converted(cur)
    BY <1>0, <1>9 DEF IrqMore
  <2>2. cur \notin LineSet
    BY <2>1 DEF Fresh
  <2>3. cur \notin Reader
    BY <2>2 DEF LineSet
  <2>4. UNCHANGED result
    BY <2>1, <2>3 DEF Converted
  <2>5. QED BY <1>0, <1>a, <2>1, <2>2, <2>4 DEF Fresh, Unanswered
<1>10. ASSUME IrqLast PROVE Fresh'
  <2>1. Try(ts_pend, adc_pending) /\ UNCHANGED <<reader, convert_cb>> /\ Converted(cur)
        /\ nr_samples' = [nr_samples EXCEPT ![cur] = 0] /\ cur \in Client
    BY <1>0, <1>10 DEF IrqLast
  <2>2. LineSet' \subseteq LineSet \ {cur}
    BY <1>0, <2>1, TryEffect DEF Linkage, LineSet
  <2>3. \A d \in Reader \ {cur} : result'[d] = result[d] /\ nr_samples'[d] = nr_samples[d]
    BY <1>0, <2>1 DEF Converted
  <2>4. cur \in Reader => reader[cur] # "set"
    BY <1>00 DEF Linkage, LineSet
  <2>5. QED BY <1>0, <2>1, <2>2, <2>3, <2>4 DEF Fresh, Unanswered
<1>11. CASE UNCHANGED adcvars
  BY <1>11, <1>a, <1>b DEF adcvars
<1>12. QED
  BY <1>1, <1>2, <1>3, <1>4, <1>5, <1>6, <1>7, <1>8, <1>9, <1>10, <1>11 DEF Next

LEMMA LinkageInit ==
  ASSUME Init, NEW p
  PROVE  Linkage(p) /\ Fresh
<1>1. Members(<<>>) = {} /\ Distinct(<<>>)
  BY DEF Members, Distinct
<1>2. LineSet = {}
  BY <1>1, AdcAssumption DEF Init, LineSet, Reader
<1>3. QED BY <1>1, <1>2 DEF Init, Linkage, Fresh

-----------------------------------------------------------------------------
(* The conversion in the hardware is the current client's.                 *)

HwInv ==
  /\ hwconv \in {NULL, cur}
  /\ irqpend \in {NULL, cur}
  /\ irqpend # NULL => hwconv = NULL
  /\ OwnSample

LEMMA HwStep ==
  ASSUME TypeOK, IdleImpliesEmpty, Linkage({"wait"}), HwInv, [Next]_adcvars
  PROVE  HwInv'
<1>0. NULL \notin Client /\ TsClient \in Client /\ Reader \subseteq Client /\ Samples \in Nat
      /\ adc_pending \in Seq(Reader) /\ ts_pend \in {TsClient, NULL}
      /\ cur \in Client \cup {NULL} /\ result \in [Reader -> Client \cup {NULL}]
  BY AdcAssumption DEF Reader, TypeOK
<1>a. ASSUME UNCHANGED <<cur, hwconv, irqpend, susp>>,
             \A c \in Reader : result'[c] \in {result[c], NULL}
      PROVE  HwInv'
  BY <1>a DEF HwInv, OwnSample
<1>b. ASSUME NEW c \in Client, NEW nr \in Nat, Start(c, nr), UNCHANGED <<irqpend, susp, result>>
      PROVE  HwInv'
  <2>1. /\ cur' \in Client
        /\ hwconv' = IF cur = NULL /\ ~susp THEN cur' ELSE hwconv
        /\ cur # NULL => cur' = cur
    BY <1>b, StartEffect
  <2>2. QED BY <1>0, <1>b, <2>1 DEF HwInv, OwnSample
<1>1. ASSUME NEW c \in Reader,
             Register(c) \/ ReadBegin(c) \/ ReadDone(c) \/ ReadTimeout(c)
      PROVE  HwInv'
  BY <1>0, <1>1, <1>a DEF Register, ReadBegin, ReadDone, ReadTimeout, core
<1>2. ASSUME NEW c \in Reader, Release(c) PROVE HwInv'
  <2>1. cur # c
    BY <1>2 DEF Release, Linkage, LineSet
  <2>2. TryIfFree(cur, ts_pend, Without(adc_pending, c)) /\ UNCHANGED <<irqpend, susp, result>>
    BY <1>2, <2>1 DEF Release
  <2>3. cur' = cur /\ hwconv' = hwconv
    <3>1. CASE cur # NULL
      BY <2>2, <3>1 DEF TryIfFree
    <3>2. CASE cur = NULL
      <4>1. ts_pend = NULL /\ Without(adc_pending, c) = <<>>
        BY <3>2 DEF IdleImpliesEmpty, Without
      <4>2. QED BY <2>2, <3>2, <4>1 DEF TryIfFree, Try, NextClient
    <3>3. QED BY <3>1, <3>2
  <2>4. QED BY <1>a, <2>2, <2>3
<1>3. ASSUME NEW c \in Reader, ReadStart(c) PROVE HwInv'
  BY <1>0, <1>3, <1>b DEF ReadStart
<1>4. ASSUME TsRequest PROVE HwInv'
  BY <1>0, <1>4, <1>b DEF TsRequest, reads
<1>5. ASSUME TsRequestAgain \/ IrqSpurious PROVE HwInv'
  BY <1>5, <1>a DEF TsRequestAgain, IrqSpurious, Interrupted, adcvars, core, reads, HwInv
<1>6. ASSUME HwConvDone PROVE HwInv'
  BY <1>6 DEF HwConvDone, core, reads, HwInv, OwnSample
<1>7. ASSUME Interrupted, cur # NULL, Converted(cur) PROVE irqpend' = NULL /\ hwconv = NULL /\ OwnSample'
  BY <1>0, <1>7 DEF Interrupted, Converted, HwInv, OwnSample
<1>8. ASSUME IrqMore PROVE HwInv'
  BY <1>7, <1>8 DEF IrqMore, HwInv
<1>9. ASSUME IrqLast PROVE HwInv'
  <2>1. Try(ts_pend, adc_pending) /\ UNCHANGED susp
    BY <1>9 DEF IrqLast
  <2>2. hwconv' = IF cur' # NULL /\ ~susp THEN cur' ELSE hwconv
    BY <1>0, <2>1, TryEffect
  <2>3. QED BY <1>7, <1>9, <2>1, <2>2 DEF IrqLast, HwInv
<1>10. ASSUME Suspend \/ Resume PROVE HwInv'
  BY <1>10 DEF Suspend, Resume, core, reads, HwInv, OwnSample
<1>11. CASE UNCHANGED adcvars
  BY <1>11, <1>a DEF adcvars
<1>12. QED
  BY <1>1, <1>2, <1>3, <1>4, <1>5, <1>6, <1>8, <1>9, <1>10, <1>11 DEF Next

(* What holds of the core as long as no read times out. *)
CoreGood == TypeOK /\ IdleImpliesEmpty /\ Linkage({"wait"}) /\ Fresh /\ HwInv

LEMMA CoreGoodInit == Init => CoreGood
<1>1. Init => HwInv
  BY DEF Init, HwInv, OwnSample
<1>2. QED BY <1>1, AdcInit, LinkageInit DEF CoreGood

LEMMA CoreGoodStep ==
  ASSUME CoreGood, \A c \in Reader : ~ReadTimeout(c), [Next]_adcvars
  PROVE  CoreGood'
BY IdleStep, LinkageStep, FreshStep, HwStep DEF CoreGood

(* The converter is at work for its client, does not sleep on it, and each *)
(* reader that still waits is in line.                                     *)
Underway ==
  /\ cur # NULL => hwconv # NULL \/ irqpend # NULL
  /\ susp => cur = NULL
  /\ \A c \in Reader : reader[c] = "wait" /\ result[c] = NULL => c \in LineSet

(***************************************************************************)
(* Half a second is enough: a wait that could only expire on a stalled     *)
(* converter does not, because a reader that waits is in line, somebody is *)
(* then being converted, and the interrupt will come.  This needs that the *)
(* ADC sleeps idle and that nothing is requested while it sleeps.          *)
(***************************************************************************)
LEMMA NoTimeout ==
  ASSUME Timeouts # "any", CoreGood, Underway, NEW c \in Reader
  PROVE  ~ReadTimeout(c)
<1>1. SUFFICES ASSUME reader[c] = "wait", result[c] = NULL, hwconv = NULL, irqpend = NULL
               PROVE  FALSE
  BY DEF ReadTimeout
<1>2. c \in LineSet /\ NULL \notin Reader /\ cur = NULL
  BY <1>1, AdcAssumption DEF Underway, Reader
<1>3. adc_pending = <<>>
  BY <1>2 DEF CoreGood, IdleImpliesEmpty
<1>4. LineSet = {}
  BY <1>2, <1>3 DEF LineSet, Members
<1>5. QED BY <1>2, <1>4

LEMMA UnderwayStep ==
  ASSUME Timeouts # "any", SuspendWhen # "any", CoreGood, Underway, susp => ~TsRequest,
         [Next]_adcvars
  PROVE  CoreGood' /\ Underway'
<1>0. /\ NULL \notin Client /\ TsClient \in Client /\ TsClient \notin Reader
      /\ Reader \subseteq Client /\ Samples \in Nat /\ LineSet \subseteq Reader
      /\ TypeOK /\ adc_pending \in Seq(Reader) /\ ts_pend \in {TsClient, NULL}
      /\ cur \in Client \cup {NULL} /\ reader \in [Reader -> ReaderState]
      /\ result \in [Reader -> Client \cup {NULL}] /\ convert_cb \in [Reader -> BOOLEAN]
  BY AdcAssumption DEF CoreGood, Reader, TypeOK, LineSet, Members
<1>1. \A c \in Reader : ~ReadTimeout(c)
  BY NoTimeout
<1>2. CoreGood'
  BY <1>1, CoreGoodStep
<1> DEFINE Waits(c) == reader[c] = "wait" /\ result[c] = NULL
<1>a. ASSUME UNCHANGED <<cur, adc_pending>> PROVE LineSet' = LineSet
  BY <1>a DEF LineSet, Members
<1>3. ASSUME NEW c \in Reader, Register(c) \/ ReadBegin(c) \/ ReadDone(c) PROVE Underway'
  <2>1. /\ UNCHANGED <<cur, adc_pending, hwconv, irqpend, susp>>
        /\ \A d \in Reader : Waits(d)' => Waits(d)
    BY <1>0, <1>3 DEF Register, ReadBegin, ReadDone, core
  <2>2. QED BY <1>a, <2>1 DEF Underway
<1>4. ASSUME NEW c \in Reader, Release(c), ~susp PROVE Underway'
  <2>1. c \notin LineSet
    BY <1>4 DEF Release, CoreGood, Linkage
  <2>2. cur # c /\ \A i \in DOMAIN adc_pending : adc_pending[i] # c
    BY <2>1, <1>0 DEF LineSet, Members
  <2>3. Without(adc_pending, c) = adc_pending
    BY <2>2 DEF Without
  <2>4. TryIfFree(cur, ts_pend, adc_pending) /\ UNCHANGED <<irqpend, susp, result>>
        /\ reader' = [reader EXCEPT ![c] = "unreg"]
    BY <1>4, <2>2, <2>3 DEF Release
  <2>5. UNCHANGED <<cur, adc_pending, hwconv>>
    <3>1. CASE cur # NULL
      BY <2>4, <3>1 DEF TryIfFree
    <3>2. CASE cur = NULL
      <4>1. ts_pend = NULL /\ adc_pending = <<>>
        BY <3>2 DEF CoreGood, IdleImpliesEmpty
      <4>2. QED BY <2>4, <3>2, <4>1 DEF TryIfFree, Try, NextClient
    <3>3. QED BY <3>1, <3>2
  <2>6. \A d \in Reader : Waits(d)' => Waits(d)
    BY <1>0, <2>4
  <2>7. QED BY <1>a, <2>4, <2>5, <2>6 DEF Underway
<1>5. ASSUME NEW c \in Client, NEW nr \in Nat, Start(c, nr), ~susp,
             UNCHANGED <<irqpend, susp, result>>,
             \A d \in Reader : Waits(d)' => Waits(d) \/ d = c
      PROVE  Underway'
  <2>1. /\ cur' \in Client
        /\ hwconv' = IF cur = NULL /\ ~susp THEN cur' ELSE hwconv
        /\ cur # NULL => cur' = cur
        /\ LineSet' = LineSet \cup ({c} \cap Reader)
    BY <1>0, <1>5, StartEffect
  <2>2. QED BY <1>0, <1>5, <2>1 DEF Underway
<1>6. ASSUME NEW c \in Reader, ReadStart(c), ~susp PROVE Underway'
  BY <1>0, <1>5, <1>6 DEF ReadStart
<1>7. ASSUME TsRequest PROVE Underway'
  BY <1>0, <1>5, <1>7 DEF TsRequest, reads
<1>8. ASSUME TsRequestAgain \/ HwConvDone \/ IrqSpurious \/ Suspend \/ Resume PROVE Underway'
  <2>1. UNCHANGED <<cur, adc_pending, reader, result>>
    BY <1>8 DEF TsRequestAgain, HwConvDone, IrqSpurious, Suspend, Resume, adcvars, core, reads
  <2>2. (cur # NULL => hwconv' # NULL \/ irqpend' # NULL) /\ (susp' => cur = NULL)
    BY <1>8 DEF TsRequestAgain, HwConvDone, IrqSpurious, Suspend, Resume, adcvars, Underway
  <2>3. QED BY <1>a, <2>1, <2>2 DEF Underway
<1>9. ASSUME IrqMore PROVE Underway'
  <2>1. /\ UNCHANGED <<cur, adc_pending, reader, susp>> /\ hwconv' = cur /\ Converted(cur)
        /\ irqpend # NULL
    BY <1>9 DEF IrqMore, Interrupted
  <2>2. \A d \in Reader : Waits(d)' => Waits(d)
    BY <1>0, <2>1 DEF Converted
  <2>3. QED BY <1>a, <2>1, <2>2 DEF Underway
<1>10. ASSUME IrqLast PROVE Underway'
  <2>1. /\ Try(ts_pend, adc_pending) /\ UNCHANGED <<reader, susp>> /\ Converted(cur)
        /\ irqpend # NULL /\ ~susp
    BY <1>10 DEF IrqLast, Interrupted
  <2>2. /\ LineSet' = Members(adc_pending)
        /\ hwconv' = IF cur' # NULL /\ ~susp THEN cur' ELSE hwconv
    BY <1>0, <2>1, TryEffect DEF CoreGood, Linkage
  <2>3. \A d \in Reader : Waits(d)' => Waits(d) /\ d # cur
    <3>1. ASSUME NEW d \in Reader, Waits(d)' PROVE Waits(d)
      BY <1>0, <2>1, <3>1 DEF Converted
    <3>2. ASSUME cur \in Reader, Waits(cur) PROVE result'[cur] # NULL
      <4>1. convert_cb[cur] = TRUE
        BY <3>2 DEF CoreGood, Fresh, Unanswered, LineSet
      <4>2. QED BY <1>0, <2>1, <3>2, <4>1 DEF Converted
    <3>3. QED BY <3>1, <3>2
  <2>4. QED BY <2>1, <2>2, <2>3 DEF Underway, LineSet
<1>11. CASE UNCHANGED adcvars
  <2>1. UNCHANGED <<cur, adc_pending, reader, result, hwconv, irqpend, susp>>
    BY <1>11 DEF adcvars
  <2>2. QED BY <1>2, <1>a, <2>1 DEF Underway
<1>12. QED
  BY <1>1, <1>2, <1>3, <1>4, <1>6, <1>7, <1>8, <1>9, <1>10, <1>11 DEF Next

LEMMA UnderwayInit == Init => CoreGood /\ Underway
BY CoreGoodInit DEF Init, Underway

-----------------------------------------------------------------------------
(***************************************************************************)
(* The settings.  Patient: reads do not time out, or only on a stalled     *)
(* converter where nothing stalls it (there is no suspend).  Disciplined:  *)
(* Patient, or a client is not read again while its timed out request is   *)
(* queued; otherwise list_add_tail can corrupt the list.                   *)
(***************************************************************************)
Patient == Timeouts = "none" \/ (Timeouts = "stalled" /\ SuspendWhen = "never")

Disciplined == Patient \/ ~RereadStale

LEMMA UnderwayInvariant ==
  ASSUME Timeouts # "any", SuspendWhen = "never"
  PROVE  Spec => [](CoreGood /\ Underway)
<1>1. Init => ~susp
  BY DEF Init
<1>2. ~susp /\ [Next]_adcvars => ~susp'
  BY DEF Next, Register, Release, ReadBegin, ReadStart, ReadDone, ReadTimeout, TsRequest,
         TsRequestAgain, HwConvDone, IrqSpurious, IrqMore, IrqLast, Suspend, Resume, adcvars
<1>3. CoreGood /\ Underway /\ ~susp /\ [Next]_adcvars => CoreGood' /\ Underway'
  BY UnderwayStep
<1>4. QED BY <1>1, <1>2, <1>3, UnderwayInit, PTL DEF Spec

LEMMA PatientInvariant ==
  ASSUME Patient
  PROVE  Spec => []CoreGood
<1>1. CASE Timeouts = "none"
  <2>1. CoreGood /\ [Next]_adcvars => CoreGood'
    BY <1>1, CoreGoodStep DEF ReadTimeout
  <2>2. QED BY <2>1, CoreGoodInit, PTL DEF Spec
<1>2. CASE Timeouts = "stalled" /\ SuspendWhen = "never"
  <2>1. Spec => [](CoreGood /\ Underway)
    BY <1>2, UnderwayInvariant
  <2>2. QED BY <2>1, PTL
<1>3. QED BY <1>1, <1>2 DEF Patient

LEMMA LinkageInvariant ==
  ASSUME Disciplined
  PROVE  Spec => []Linkage({"out", "wait"})
<1>1. CASE Patient
  <2>1. CoreGood => Linkage({"out", "wait"})
    BY DEF CoreGood, Linkage
  <2>2. QED BY <1>1, <2>1, PatientInvariant, PTL
<1>2. CASE ~RereadStale
  <2> DEFINE Inv == TypeOK /\ IdleImpliesEmpty /\ Linkage({"out", "wait"}) /\ Fresh
  <2>1. Init => Inv
    BY AdcInit, LinkageInit
  <2>2. Inv /\ [Next]_adcvars => Inv'
    BY <1>2, IdleStep, LinkageStep, FreshStep
  <2>3. QED BY <2>1, <2>2, PTL DEF Spec
<1>3. QED BY <1>1, <1>2 DEF Disciplined

(* list_add_tail never meets a client that is already linked.              *)
THEOREM AdcNoDoubleAdd ==
  ASSUME Disciplined
  PROVE  Spec => []NoDoubleAdd
<1>1. Linkage({"out", "wait"}) => NoDoubleAdd
  BY DEF Linkage, Distinct, NoDoubleAdd
<1>2. QED BY <1>1, LinkageInvariant, PTL

(* Neither adc->cur nor adc_pending points to a client that                *)
(* s3c_adc_release has freed, even when its read timed out.                *)
THEOREM AdcNoFreedClient ==
  ASSUME Disciplined
  PROVE  Spec => []NoFreedClient
<1>1. Linkage({"out", "wait"}) => NoFreedClient
  BY DEF Linkage, NoFreedClient, LineSet, Members
<1>2. QED BY <1>1, LinkageInvariant, PTL

(* The value s3c_adc_read returns was converted on the reader's channel.   *)
THEOREM AdcOwnSample ==
  ASSUME Patient
  PROVE  Spec => []OwnSample
<1>1. CoreGood => OwnSample
  BY DEF CoreGood, HwInv
<1>2. QED BY <1>1, PatientInvariant, PTL

(* A client at work has one conversion running or one interrupt pending. *)
LEMMA UnderwayShown == CoreGood /\ Underway => ConversionUnderway
BY DEF CoreGood, HwInv, Underway, ConversionUnderway

(* Without suspend a current client always has exactly one conversion      *)
(* running or one interrupt pending: the ADC core cannot stall.            *)
THEOREM AdcConversionUnderway ==
  ASSUME Timeouts # "any", SuspendWhen = "never"
  PROVE  Spec => []ConversionUnderway
BY UnderwayInvariant, UnderwayShown, PTL

-----------------------------------------------------------------------------
(* Service in order. *)

(* What a step from line q to line r must keep. *)
InOrder(q, r) ==
  \A a, b \in Reader :
    (/\ a # b
     /\ Contains(q, a) /\ ~Before(q, b, a)
     /\ Contains(r, a) /\ Contains(r, b))
    => Before(r, a, b)

(* r is q with some places left out. *)
Thinned(r, q) ==
  \E h \in [DOMAIN r -> DOMAIN q] :
    /\ \A i \in DOMAIN r : r[i] = q[h[i]]
    /\ \A i, j \in DOMAIN r : i < j => h[i] < h[j]

(* Leaving places out lets nobody overtake. *)
LEMMA ThinnedInOrder ==
  ASSUME NEW q \in Seq(Reader), NEW r \in Seq(Reader), Thinned(r, q)
  PROVE  InOrder(q, r)
<1>1. SUFFICES ASSUME NEW a \in Reader, NEW b \in Reader, a # b, ~Before(q, b, a),
                      Contains(r, a), Contains(r, b)
               PROVE  Before(r, a, b)
  BY DEF InOrder
<1>2. PICK h \in [DOMAIN r -> DOMAIN q] :
        /\ \A i \in DOMAIN r : r[i] = q[h[i]]
        /\ \A i, j \in DOMAIN r : i < j => h[i] < h[j]
  BY DEF Thinned
<1>3. PICK i \in DOMAIN r : r[i] = a
  BY <1>1 DEF Contains
<1>4. PICK j \in DOMAIN r : r[j] = b
  BY <1>1 DEF Contains
<1>5. ~(j < i)
  <2>1. SUFFICES ASSUME j < i PROVE FALSE
    OBVIOUS
  <2>2. h[j] \in DOMAIN q /\ h[i] \in DOMAIN q /\ h[j] < h[i] /\ q[h[j]] = b /\ q[h[i]] = a
    BY <2>1, <1>2, <1>3, <1>4
  <2>3. QED BY <2>2, <1>1 DEF Before
<1>6. i \in Nat /\ j \in Nat /\ i # j
  BY <1>1, <1>3, <1>4
<1>7. i < j
  BY <1>5, <1>6
<1>8. QED BY <1>3, <1>4, <1>7 DEF Before

(* list_add_tail lets nobody overtake. *)
LEMMA AppendInOrder ==
  ASSUME NEW q \in Seq(Reader), NEW c \in Reader
  PROVE  InOrder(q, Append(q, c))
<1> DEFINE r == Append(q, c)
<1>1. SUFFICES ASSUME NEW a \in Reader, NEW b \in Reader, a # b, ~Before(q, b, a),
                      Contains(q, a), Contains(r, b)
               PROVE  Before(r, a, b)
  BY DEF InOrder
<1>2. /\ Len(q) \in Nat /\ DOMAIN q = 1..Len(q) /\ DOMAIN r = 1..(Len(q) + 1)
      /\ \A i \in 1..Len(q) : r[i] = q[i]
      /\ r[Len(q) + 1] = c /\ Len(r) = Len(q) + 1
  BY AppendProperties, LenProperties
<1>3. PICK i \in 1..Len(q) : q[i] = a
  BY <1>1 DEF Contains
<1> HIDE DEF r
<1>4. PICK j \in 1..(Len(q) + 1) : r[j] = b
  BY <1>1, <1>2 DEF Contains
<1>5. i < j
  <2>1. CASE j = Len(q) + 1
    BY <2>1, <1>2
  <2>2. CASE j # Len(q) + 1
    <3>1. j \in 1..Len(q) /\ q[j] = b
      BY <2>2, <1>2, <1>4
    <3>2. ~(j < i) /\ i # j
      BY <3>1, <1>1, <1>2, <1>3 DEF Before
    <3>3. QED BY <3>1, <3>2, <1>2
  <2>3. QED BY <2>1, <2>2
<1>6. i \in DOMAIN r /\ j \in DOMAIN r /\ r[i] = a
  BY <1>2, <1>3
<1>7. QED BY <1>4, <1>5, <1>6 DEF Before

(* A client in front of a line. *)
LEMMA ConsProperties ==
  ASSUME NEW q \in Seq(Reader), NEW c \in Reader
  PROVE  /\ <<c>> \o q \in Seq(Reader) /\ Len(q) \in Nat
         /\ DOMAIN q = 1..Len(q) /\ DOMAIN (<<c>> \o q) = 1..(Len(q) + 1)
         /\ (<<c>> \o q)[1] = c
         /\ \A i \in 1..Len(q) : (<<c>> \o q)[i + 1] = q[i]
  OBVIOUS

LEMMA ThinnedCons ==
  ASSUME NEW q \in Seq(Reader), NEW r \in Seq(Reader), Thinned(r, q), NEW c \in Reader
  PROVE  Thinned(<<c>> \o r, <<c>> \o q) /\ Thinned(r, <<c>> \o q)
<1>1. PICK h \in [DOMAIN r -> DOMAIN q] :
        /\ \A i \in DOMAIN r : r[i] = q[h[i]]
        /\ \A i, j \in DOMAIN r : i < j => h[i] < h[j]
  BY DEF Thinned
<1>2. PICK x : x = <<c>> \o q
  OBVIOUS
<1>3. PICK y : y = <<c>> \o r
  OBVIOUS
<1>4. /\ Len(q) \in Nat /\ DOMAIN q = 1..Len(q) /\ DOMAIN x = 1..(Len(q) + 1)
      /\ x[1] = c /\ \A i \in 1..Len(q) : x[i + 1] = q[i]
  BY <1>2, ConsProperties
<1>5. /\ Len(r) \in Nat /\ DOMAIN r = 1..Len(r) /\ DOMAIN y = 1..(Len(r) + 1)
      /\ y[1] = c /\ \A i \in 1..Len(r) : y[i + 1] = r[i]
  BY <1>3, ConsProperties
<1>6. \A i \in 1..Len(r) : h[i] \in 1..Len(q)
  BY <1>1, <1>4, <1>5
<1>7. Thinned(r, x)
  <2> DEFINE g == [i \in DOMAIN r |-> h[i] + 1]
  <2>1. g \in [DOMAIN r -> DOMAIN x]
    BY <1>4, <1>5, <1>6
  <2>2. ASSUME NEW i \in DOMAIN r PROVE r[i] = x[g[i]]
    BY <1>1, <1>4, <1>5, <1>6
  <2>3. ASSUME NEW i \in DOMAIN r, NEW j \in DOMAIN r, i < j PROVE g[i] < g[j]
    BY <2>3, <1>1, <1>4, <1>5, <1>6
  <2> HIDE DEF g
  <2>4. QED BY <2>1, <2>2, <2>3 DEF Thinned
<1>8. Thinned(y, x)
  <2> DEFINE g == [i \in DOMAIN y |-> IF i = 1 THEN 1 ELSE h[i - 1] + 1]
  <2>1. \A i \in DOMAIN y : i = 1 \/ i - 1 \in 1..Len(r)
    BY <1>5
  <2>2. g \in [DOMAIN y -> DOMAIN x]
    BY <2>1, <1>4, <1>6
  <2>3. ASSUME NEW i \in DOMAIN y PROVE y[i] = x[g[i]]
    <3>1. CASE i = 1
      BY <3>1, <1>4, <1>5
    <3>2. CASE i # 1
      <4>1. PICK k : k = i - 1
        OBVIOUS
      <4>2. k \in 1..Len(r) /\ i = k + 1 /\ g[i] = h[k] + 1
        BY <2>1, <3>2, <4>1, <1>5
      <4>3. y[i] = r[k] /\ r[k] = q[h[k]] /\ h[k] \in 1..Len(q)
        BY <4>2, <1>1, <1>5, <1>6
      <4>4. x[h[k] + 1] = q[h[k]]
        BY <4>3, <1>4
      <4>5. QED BY <4>2, <4>3, <4>4
    <3>3. QED BY <3>1, <3>2
  <2>4. ASSUME NEW i \in DOMAIN y, NEW j \in DOMAIN y, i < j PROVE g[i] < g[j]
    <3>1. i \in 1..(Len(r) + 1) /\ j \in 1..(Len(r) + 1) /\ j - 1 \in 1..Len(r)
      BY <2>4, <1>5
    <3>2. g[j] = h[j - 1] + 1 /\ h[j - 1] \in 1..Len(q)
      BY <3>1, <2>4, <1>5, <1>6
    <3>3. CASE i = 1
      BY <3>2, <3>3, <1>4
    <3>4. CASE i # 1
      <4>1. i - 1 \in 1..Len(r) /\ i - 1 < j - 1 /\ g[i] = h[i - 1] + 1
        BY <3>1, <3>4, <2>4, <1>5
      <4>2. h[i - 1] < h[j - 1] /\ h[i - 1] \in 1..Len(q)
        BY <4>1, <3>1, <1>1, <1>5, <1>6
      <4>3. QED BY <4>1, <4>2, <3>2, <1>4
    <3>5. QED BY <3>3, <3>4
  <2> HIDE DEF g
  <2>5. QED BY <2>2, <2>3, <2>4 DEF Thinned
<1>9. QED BY <1>2, <1>3, <1>7, <1>8

LEMMA ThinnedSelf ==
  ASSUME NEW q \in Seq(Reader)
  PROVE  Thinned(q, q)
<1> DEFINE g == [i \in DOMAIN q |-> i]
<1>1. g \in [DOMAIN q -> DOMAIN q]
  OBVIOUS
<1>2. QED BY <1>1 DEF Thinned

(* s3c_adc_release unlinks one place. *)
LEMMA WithoutThinned ==
  ASSUME NEW q \in Seq(Reader), NEW c \in Reader
  PROVE  Thinned(Without(q, c), q)
<1>1. Thinned(q, q)
  BY ThinnedSelf
<1>2. CASE ~ \E i \in DOMAIN q : q[i] = c
  BY <1>1, <1>2 DEF Without
<1>3. CASE \E i \in DOMAIN q : q[i] = c
  <2> DEFINE k == CHOOSE i \in DOMAIN q : q[i] = c
  <2>1. k \in 1..Len(q) /\ Len(q) \in Nat
    BY <1>3
  <2>2. PICK w : w = Without(q, c)
    OBVIOUS
  <2>3. w = SubSeq(q, 1, k - 1) \o SubSeq(q, k + 1, Len(q))
    BY <1>3, <2>2 DEF Without, RemoveAt
  <2> HIDE DEF k
  <2>4. PICK a : a = SubSeq(q, 1, k - 1)
    OBVIOUS
  <2>5. PICK b : b = SubSeq(q, k + 1, Len(q))
    OBVIOUS
  <2>6. a \in Seq(Reader) /\ Len(a) = k - 1 /\ \A i \in 1..(k - 1) : a[i] = q[i]
    BY <2>1, <2>4
  <2>7. b \in Seq(Reader) /\ Len(b) = Len(q) - k /\ \A i \in 1..(Len(q) - k) : b[i] = q[k + i]
    BY <2>1, <2>5
  <2>8. /\ w \in Seq(Reader) /\ Len(w) = Len(a) + Len(b)
        /\ \A i \in 1..Len(w) : w[i] = IF i <= Len(a) THEN a[i] ELSE b[i - Len(a)]
    BY <2>3, <2>4, <2>5, <2>6, <2>7, ConcatProperties
  <2>9. DOMAIN w = 1..(Len(q) - 1) /\ Len(w) = Len(q) - 1 /\ DOMAIN q = 1..Len(q)
    BY <2>1, <2>6, <2>7, <2>8
  <2> DEFINE g == [i \in DOMAIN w |-> IF i < k THEN i ELSE i + 1]
  <2>10. g \in [DOMAIN w -> DOMAIN q]
    BY <2>1, <2>9
  <2>11. ASSUME NEW i \in DOMAIN w PROVE w[i] = q[g[i]]
    <3>1. CASE i < k
      BY <3>1, <2>1, <2>6, <2>8, <2>9
    <3>2. CASE ~(i < k)
      <4>1. i - Len(a) \in 1..(Len(q) - k) /\ k + (i - Len(a)) = i + 1 /\ ~(i <= Len(a))
        BY <3>2, <2>1, <2>6, <2>9
      <4>2. w[i] = b[i - Len(a)] /\ b[i - Len(a)] = q[k + (i - Len(a))]
        BY <4>1, <2>7, <2>8, <2>9
      <4>3. QED BY <4>1, <4>2, <3>2
    <3>3. QED BY <3>1, <3>2
  <2>12. ASSUME NEW i \in DOMAIN w, NEW j \in DOMAIN w, i < j PROVE g[i] < g[j]
    BY <2>12, <2>1, <2>9
  <2> HIDE DEF g
  <2>13. QED BY <2>2, <2>10, <2>11, <2>12 DEF Thinned
<1>4. QED BY <1>1, <1>2, <1>3

(* The line with c at the converter and the list pend. *)
Joined(c, pend) == IF c \in Reader THEN <<c>> \o pend ELSE pend

(* s3c_adc_try moves nobody. *)
LEMMA TryLine ==
  ASSUME NEW c \in Client \cup {NULL}, NEW tp \in {TsClient, NULL}, NEW pend \in Seq(Reader),
         TryIfFree(c, tp, pend)
  PROVE  Line' = Joined(c, pend)
<1>0. NULL \notin Reader /\ TsClient \notin Reader /\ TsClient # NULL
  BY AdcAssumption DEF Reader
<1>1. CASE c # NULL /\ cur' = c /\ adc_pending' = pend
  BY <1>1 DEF Line, Joined
<1>2. CASE c = NULL /\ Try(tp, pend)
  <2>1. CASE tp # NULL
    BY <2>1, <1>0, <1>2 DEF Try, NextClient, Line, Joined
  <2>2. CASE tp = NULL /\ pend = <<>>
    BY <2>2, <1>0, <1>2 DEF Try, NextClient, Line, Joined
  <2>3. CASE tp = NULL /\ pend # <<>>
    <3>1. cur' = Head(pend) /\ adc_pending' = Tail(pend)
      BY <2>3, <1>2 DEF Try, NextClient
    <3>2. Head(pend) \in Reader /\ <<Head(pend)>> \o Tail(pend) = pend
      BY <2>3
    <3>3. QED BY <3>1, <3>2, <1>0, <1>2 DEF Line, Joined
  <2>4. QED BY <2>1, <2>2, <2>3
<1>3. QED BY <1>1, <1>2 DEF TryIfFree

(* Every step keeps the order. *)
LEMMA OrderStep ==
  ASSUME TypeOK, [Next]_adcvars
  PROVE  InOrder(Line, Line')
<1>0. /\ NULL \notin Client /\ TsClient \in Client /\ TsClient \notin Reader
      /\ Reader \subseteq Client
      /\ adc_pending \in Seq(Reader) /\ ts_pend \in {TsClient, NULL}
      /\ cur \in Client \cup {NULL}
  BY AdcAssumption DEF Reader, TypeOK
<1>1. Line = Joined(cur, adc_pending) /\ Line \in Seq(Reader)
  BY <1>0 DEF Line, Joined
<1>2. ASSUME Line' = Line PROVE InOrder(Line, Line')
  BY <1>1, <1>2, ThinnedSelf, ThinnedInOrder
<1>3. ASSUME UNCHANGED <<cur, adc_pending>> PROVE InOrder(Line, Line')
  BY <1>2, <1>3 DEF Line
<1>4. ASSUME NEW c \in Reader, Release(c) PROVE InOrder(Line, Line')
  <2>1. PICK w : w = Without(adc_pending, c)
    OBVIOUS
  <2>2. w \in Seq(Reader) /\ Thinned(w, adc_pending)
    BY <2>1, <1>0, WithoutThinned, WithoutProperties
  <2>3. CASE cur = c
    <3>1. TryIfFree(NULL, ts_pend, w)
      BY <1>4, <2>1, <2>3 DEF Release
    <3>2. Line' = w
      BY <3>1, <2>2, <1>0, TryLine DEF Joined
    <3>3. Line = <<c>> \o adc_pending
      BY <2>3, <1>1 DEF Joined
    <3>4. QED BY <3>2, <3>3, <2>2, <1>0, <1>1, ThinnedCons, ThinnedInOrder
  <2>4. CASE cur # c
    <3>1. TryIfFree(cur, ts_pend, w)
      BY <1>4, <2>1, <2>4 DEF Release
    <3>2. Line' = Joined(cur, w)
      BY <3>1, <2>2, <1>0, TryLine
    <3>3. Thinned(Line', Line) /\ Line' \in Seq(Reader)
      <4>1. CASE cur \in Reader
        BY <4>1, <3>2, <2>2, <1>0, <1>1, ThinnedCons DEF Joined
      <4>2. CASE cur \notin Reader
        BY <4>2, <3>2, <2>2, <1>1 DEF Joined
      <4>3. QED BY <4>1, <4>2
    <3>4. QED BY <3>3, <1>1, ThinnedInOrder
  <2>5. QED BY <2>3, <2>4
<1>5. ASSUME NEW c \in Reader, ReadStart(c) PROVE InOrder(Line, Line')
  <2>1. PICK p : p = Append(adc_pending, c)
    OBVIOUS
  <2>2. p \in Seq(Reader)
    BY <2>1, <1>0
  <2>3. TryIfFree(cur, ts_pend, p)
    BY <1>0, <1>5, <2>1 DEF ReadStart, Start
  <2>4. Line' = Joined(cur, p)
    BY <2>2, <2>3, <1>0, TryLine
  <2>5. Line' = Append(Line, c)
    <3>1. CASE cur \in Reader
      <4>1. <<cur>> \o Append(adc_pending, c) = Append(<<cur>> \o adc_pending, c)
        BY <3>1, <1>0
      <4>2. QED BY <4>1, <3>1, <2>1, <2>4, <1>1 DEF Joined
    <3>2. CASE cur \notin Reader
      BY <3>2, <2>1, <2>4, <1>1 DEF Joined
    <3>3. QED BY <3>1, <3>2
  <2>6. QED BY <2>5, <1>1, AppendInOrder
<1>6. ASSUME TsRequest PROVE InOrder(Line, Line')
  <2>1. TryIfFree(cur, TsClient, adc_pending)
    BY <1>6 DEF TsRequest, Start
  <2>2. Line' = Joined(cur, adc_pending)
    BY <2>1, <1>0, TryLine
  <2>3. QED BY <2>2, <1>1, <1>2
<1>7. ASSUME IrqLast PROVE InOrder(Line, Line')
  <2>1. TryIfFree(NULL, ts_pend, adc_pending)
    BY <1>7 DEF IrqLast, TryIfFree
  <2>2. Line' = adc_pending
    BY <2>1, <1>0, TryLine DEF Joined
  <2>3. CASE cur \in Reader
    <3>1. Thinned(adc_pending, Line)
      BY <2>3, <1>0, <1>1, ThinnedSelf, ThinnedCons DEF Joined
    <3>2. QED BY <3>1, <2>2, <1>0, <1>1, ThinnedInOrder
  <2>4. CASE cur \notin Reader
    BY <2>2, <2>4, <1>1, <1>2 DEF Joined
  <2>5. QED BY <2>3, <2>4
<1>8. ASSUME NEW c \in Reader,
             Register(c) \/ ReadBegin(c) \/ ReadDone(c) \/ ReadTimeout(c)
      PROVE  InOrder(Line, Line')
  BY <1>3, <1>8 DEF Register, ReadBegin, ReadDone, ReadTimeout, core
<1>9. ASSUME TsRequestAgain \/ HwConvDone \/ IrqSpurious \/ IrqMore \/ Suspend \/ Resume
      PROVE  InOrder(Line, Line')
  BY <1>3, <1>9
     DEF TsRequestAgain, HwConvDone, IrqSpurious, IrqMore, Suspend, Resume, core, adcvars
<1>10. CASE UNCHANGED adcvars
  BY <1>3, <1>10 DEF adcvars
<1>11. QED
  BY <1>4, <1>5, <1>6, <1>7, <1>8, <1>9, <1>10 DEF Next

(***************************************************************************)
(* Readers are served in the order of their calls of s3c_adc_start: no     *)
(* touchscreen request, timeout, release or suspend lets a reader pass one *)
(* that waits before it.                                                   *)
(***************************************************************************)
THEOREM AdcServedInOrder == Spec => ServedInOrder
<1>1. TypeOK /\ [Next]_adcvars => [InOrder(Line, Line')]_adcvars
  BY OrderStep
<1>2. QED BY <1>1, AdcTypeCorrect, PTL DEF Spec, ServedInOrder, InOrder

=============================================================================
