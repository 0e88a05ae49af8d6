---------------------------- MODULE S3CDmaProofs ----------------------------
(***************************************************************************)
(* Proofs about one DMA channel, for any number of buffers.                *)
(***************************************************************************)
EXTENDS S3CDma, FiniteSetTheorems, SequenceTheorems, TLAPS

(***************************************************************************)
(* Three settings.  In all of them a flush that may find the channel       *)
(* running does stop it.                                                   *)
(***************************************************************************)
FlushStops == "flushrunning" \in Allow => FlushHitsSelf

(***************************************************************************)
(* A prompt peripheral requests data before load_timeout, and the callback *)
(* refills only a chain that is not empty; transfers may end at any time,  *)
(* inside an entry point too.                                              *)
(***************************************************************************)
Prompt == Allow \subseteq {"race", "flushrunning"} /\ FlushStops

(* The same without the race: transfers end outside the entry points. *)
Gentle == Prompt /\ "race" \notin Allow

(* No buffer is linked twice. *)
Distinct(q) == \A i, j \in DOMAIN q : q[i] = q[j] => i = j

(* A stopped channel. *)
Idle(c) == c.state = "IDLE" /\ c.ls = "NONE" /\ ~c.on /\ c.cur = NULL

(* The first buffer of the chain is the next to load. *)
Ready(c) == c.next = IF c.q = <<>> THEN NULL ELSE c.q[1]

(* The head of the chain is in the registers, or running out of them. *)
First(c) ==
  /\ c.state = "RUNNING" /\ c.ls \in {"1LOADED", "1RUNNING"}
  /\ Len(c.q) >= 1 /\ c.init = c.q[1] /\ c.on
  /\ c.cur = NULL \/ c.cur = c.q[1]
  /\ c.ls = "1RUNNING" => c.cur = c.q[1]
  /\ c.next = IF Len(c.q) > 1 THEN c.q[2] ELSE NULL

(* One buffer: the channel turns itself off after it. *)
One(c, pend) ==
  /\ c.state = "RUNNING" /\ c.ls \in {"1LOADED", "1RUNNING"}
  /\ Len(c.q) = 1 /\ c.init = c.q[1] /\ c.norel /\ c.next = NULL
  /\ pend => ~c.on /\ c.cur = NULL
  /\ ~pend => /\ c.on
              /\ c.cur = NULL \/ c.cur = c.q[1]
              /\ c.ls = "1RUNNING" => c.cur = c.q[1]

(* Two or more: the second is in the registers behind the first. *)
Two(c, pend) ==
  /\ c.state = "RUNNING" /\ c.ls = "1LOADED_1RUNNING"
  /\ Len(c.q) >= 2 /\ c.init = c.q[2] /\ ~c.norel /\ c.on
  /\ c.next = IF Len(c.q) > 2 THEN c.q[3] ELSE NULL
  /\ pend => c.cur = NULL \/ c.cur = c.q[2]
  /\ ~pend => c.cur = c.q[1]

(* A channel with a latched interrupt or not, waiting for a flush or not. *)
Good(c, pend, flush) ==
  /\ c \in Channel /\ Distinct(c.q)
  /\ c.state = "RUNNING" => (One(c, pend) \/ Two(c, pend)) /\ ~flush
  /\ c.state = "IDLE" => Idle(c) /\ ~pend /\ (flush \/ Ready(c))

(* Each buffer of the chain was taken up once if it is running or has run. *)
Counted(c, t, pend) ==
  \A i \in DOMAIN c.q :
    t[c.q[i]] = IF c.cur = c.q[i] \/ (i = 1 /\ pend) THEN 1 ELSE 0

(* The buffers of the chain are the client's outstanding ones. *)
Books ==
  /\ \A i \in DOMAIN chan.q : status[chan.q[i]] = "queued"
  /\ ~needflush => Counted(chan, taken, irqpend)
  /\ irqpend => chan.q[1] \in done

(* The inductive invariant. *)
DmaInv == TypeOK /\ Good(chan, irqpend, needflush) /\ Books /\ ReportedOnceMoved

(* The transfer under way is the same, or the head of the chain was begun. *)
Begins(c, d) ==
  d.cur = c.cur \/ (c.cur = NULL /\ c.q # <<>> /\ d.cur = c.q[1])

-----------------------------------------------------------------------------
(* The operators of the driver on one channel. *)

(* The cases of a length, for the provers that know no arithmetic. *)
LEMMA NumberCases ==
  ASSUME NEW n \in Nat
  PROVE  /\ n >= 1 <=> n = 1 \/ n >= 2
         /\ n = 0 \/ n = 1 \/ n >= 2
         /\ ~(n = 1 /\ n >= 2) /\ ~(n = 0 /\ n >= 1)
OBVIOUS

(* The same for the length of a chain. *)
LEMMA LengthCases ==
  ASSUME NEW q \in Seq(Buf)
  PROVE  /\ Len(q) >= 1 <=> Len(q) = 1 \/ Len(q) >= 2
         /\ q = <<>> \/ Len(q) = 1 \/ Len(q) >= 2
         /\ ~(Len(q) = 1 /\ Len(q) >= 2)
         /\ q # <<>> <=> Len(q) >= 1
<1>1. Len(q) \in Nat /\ (q = <<>> <=> Len(q) = 0) OBVIOUS
<1>2. QED BY <1>1, NumberCases, Zenon

(* The successor in a chain without repetitions is the next element. *)
LEMMA SuccAt ==
  ASSUME NEW q \in Seq(Buf), Distinct(q), NEW i \in 1..Len(q)
  PROVE  Succ(q, q[i]) = IF i < Len(q) THEN q[i + 1] ELSE NULL
<1>1. CASE i < Len(q)
  <2>1. i \in 1..Len(q) - 1 BY <1>1
  <2> DEFINE k == CHOOSE j \in 1..Len(q) - 1 : q[j] = q[i]
  <2>2. k \in 1..Len(q) - 1 /\ q[k] = q[i] BY <2>1
  <2>3. k = i BY <2>1, <2>2 DEF Distinct
  <2>4. QED BY <1>1, <2>1, <2>3 DEF Succ
<1>2. CASE ~(i < Len(q))
  <2>1. ~ \E j \in 1..Len(q) - 1 : q[j] = q[i]
    BY <1>2 DEF Distinct
  <2>2. QED BY <1>2, <2>1 DEF Succ
<1>3. QED BY <1>1, <1>2

(* Linking a buffer that is not in the chain. *)
LEMMA LinkedProperties ==
  ASSUME NEW c \in Channel, Distinct(c.q), NEW b \in Buf,
         \A i \in DOMAIN c.q : c.q[i] # b
  PROVE  LET l == Linked(c, b) IN
         /\ l \in Channel
         /\ l.q = Append(c.q, b) /\ Len(l.q) = Len(c.q) + 1
         /\ \A i \in 1..Len(c.q) : l.q[i] = c.q[i]
         /\ l.q[Len(c.q) + 1] = b
         /\ Distinct(l.q)
         /\ l.next = IF c.q = <<>> \/ c.next = NULL THEN b ELSE c.next
         /\ l.state = c.state /\ l.ls = c.ls /\ l.on = c.on
         /\ l.init = c.init /\ l.norel = c.norel /\ l.cur = c.cur
<1> DEFINE l == Linked(c, b)
<1>1. c.q \in Seq(Buf) /\ c.next \in Buf \cup {NULL} BY DEF Channel
<1>2. /\ Append(c.q, b) \in Seq(Buf) /\ Len(Append(c.q, b)) = Len(c.q) + 1
      /\ \A i \in 1..Len(c.q) : Append(c.q, b)[i] = c.q[i]
      /\ Append(c.q, b)[Len(c.q) + 1] = b
  BY <1>1, AppendProperties
<1>3. l.q = Append(c.q, b) BY DEF Linked, Channel
<1>4. Distinct(Append(c.q, b)) BY <1>1, <1>2 DEF Distinct
<1>5. l \in Channel BY <1>1, <1>2 DEF Linked, Channel
<1>6. /\ l.next = IF c.q = <<>> \/ c.next = NULL THEN b ELSE c.next
      /\ l.state = c.state /\ l.ls = c.ls /\ l.on = c.on
      /\ l.init = c.init /\ l.norel = c.norel /\ l.cur = c.cur
  BY DEF Linked, Channel
<1>7. QED BY <1>2, <1>3, <1>4, <1>5, <1>6

(* Loading the buffer after a first one that is running. *)
LEMMA LoadBehind ==
  ASSUME NEW c \in Channel, Distinct(c.q), First(c), Len(c.q) >= 2
  PROVE  LET w == IF c.ls = "1LOADED" THEN Waited(c) ELSE c
             d == LoadBuffer(w, w.next)
         IN d \in Channel /\ Two(d, FALSE) /\ d.q = c.q /\ d.cur = c.q[1]
<1> DEFINE w == IF c.ls = "1LOADED" THEN Waited(c) ELSE c
           d == LoadBuffer(w, w.next)
<1>1. c.q \in Seq(Buf) /\ c.q[1] \in Buf /\ c.q[2] \in Buf BY DEF Channel
<1>n. NULL \notin Buf BY DmaAssumption
<1>m. c.next = c.q[2] /\ c.state = "RUNNING" /\ c.ls \in {"1LOADED", "1RUNNING"}
  BY <1>1 DEF First
<1>2. /\ w \in Channel /\ w.q = c.q /\ w.next = c.q[2] /\ w.cur = c.q[1]
      /\ w.ls = "1RUNNING" /\ w.on = c.on /\ w.state = "RUNNING"
  <2>1. CASE c.ls = "1LOADED"
    <3>1. w = Waited(c) BY <2>1
    <3>2. Waited(c).cur = c.q[1] BY <1>1, <1>n DEF First, Waited, Channel
    <3>3. /\ Waited(c) \in Channel /\ Waited(c).q = c.q /\ Waited(c).next = c.next
          /\ Waited(c).ls = "1RUNNING" /\ Waited(c).on = c.on
          /\ Waited(c).state = c.state
      BY DEF Waited, Channel, LoadState
    <3>4. QED BY <1>m, <3>1, <3>2, <3>3
  <2>2. CASE c.ls = "1RUNNING"
    <3>1. w = c BY <2>2
    <3>2. c.cur = c.q[1] BY <2>2 DEF First
    <3>3. QED BY <1>m, <2>2, <3>1, <3>2
  <2>3. QED BY <1>m, <2>1, <2>2
<1> HIDE DEF w
<1>3. Succ(w.q, w.next) = IF 2 < Len(c.q) THEN c.q[3] ELSE NULL
  BY <1>1, <1>2, SuccAt
<1>4. Succ(w.q, w.next) \in Buf \cup {NULL} BY <1>1, <1>3
<1>5. d \in Channel
  BY <1>1, <1>2, <1>4 DEF LoadBuffer, Channel, LoadState
<1>6. /\ d.q = c.q /\ d.cur = c.q[1] /\ d.on = c.on /\ d.state = "RUNNING"
      /\ d.ls = "1LOADED_1RUNNING" /\ d.init = c.q[2] /\ d.norel = FALSE
      /\ d.next = Succ(w.q, w.next)
  BY <1>n, <1>1, <1>2 DEF LoadBuffer, Channel
<1>7. Two(d, FALSE)
  BY <1>1, <1>3, <1>6 DEF Two, First
<1>8. QED BY <1>5, <1>6, <1>7 DEF w

(* START of a stopped channel whose first buffer is the next to load. *)
LEMMA StartProperties ==
  ASSUME NEW c \in Channel, Distinct(c.q), Idle(c), Ready(c)
  PROVE  LET d == DmaStart(c, FALSE) IN
         /\ d \in Channel /\ d.q = c.q
         /\ c.q = <<>> => d = c
         /\ Len(c.q) = 1 => One(d, FALSE) /\ d.cur = NULL
         /\ Len(c.q) >= 2 => Two(d, FALSE) /\ d.cur = c.q[1]
<1> DEFINE d == DmaStart(c, FALSE)
<1>n. NULL \notin Buf BY DmaAssumption
<1>1. c.q \in Seq(Buf) /\ Len(c.q) \in Nat BY DEF Channel
<1>2. CASE c.q = <<>>
  <2>1. d = c BY <1>2 DEF DmaStart, Idle, Ready
  <2>2. ~(Len(c.q) = 1) /\ ~(Len(c.q) >= 2) BY <1>2
  <2>3. c \in Channel /\ c.q = c.q OBVIOUS
  <2>4. QED BY <2>1, <2>2, <2>3
<1>3. CASE c.q # <<>>
  <2>1. Len(c.q) >= 1 /\ c.q[1] \in Buf /\ c.next = c.q[1]
    BY <1>1, <1>3 DEF Ready
  <2> DEFINE l == LoadBuffer(c, c.next)
             s == [l EXCEPT !.state = "RUNNING", !.on = TRUE]
  <2>2. d = LoadSecond(s, FALSE)
    BY <1>n, <2>1 DEF DmaStart, Idle
  <2>3. Succ(c.q, c.next) = IF 1 < Len(c.q) THEN c.q[2] ELSE NULL
    BY <1>1, <2>1, SuccAt
  <2>4. Succ(c.q, c.next) \in Buf \cup {NULL} BY <1>1, <2>3
  <2>5. /\ l \in Channel /\ l.q = c.q /\ l.next = Succ(c.q, c.next)
        /\ l.ls = "1LOADED" /\ l.init = c.q[1] /\ l.cur = c.cur
    BY <1>n, <2>1, <2>4 DEF LoadBuffer, Channel, LoadState, Idle
  <2>6. l.norel <=> Succ(c.q, c.next) = NULL
    <3>1. l.norel = (c.ls = "NONE" /\ Succ(c.q, c.next) = NULL)
      BY <1>n, <2>1 DEF LoadBuffer, Channel
    <3>2. QED BY <3>1 DEF Idle
  <2> HIDE DEF l
  <2>7. /\ s \in Channel /\ s.q = c.q /\ s.next = Succ(c.q, c.next)
        /\ s.ls = "1LOADED" /\ s.init = c.q[1] /\ s.cur = c.cur
        /\ s.norel = l.norel /\ s.state = "RUNNING" /\ s.on = TRUE
    BY <2>5 DEF Channel
  <2> HIDE DEF s
  <2>8. CASE Len(c.q) = 1
    <3>1. s.next = NULL BY <2>3, <2>7, <2>8
    <3>2. LoadSecond(s, FALSE) = s BY <3>1 DEF LoadSecond
    <3>3. s.norel BY <2>3, <2>6, <2>7, <2>8
    <3>4. One(s, FALSE) BY <2>7, <2>8, <3>1, <3>3 DEF One, Idle
    <3>5. d = s BY <2>2, <3>2, Zenon
    <3>6. s.cur = NULL /\ ~(Len(c.q) >= 2) BY <2>7, <2>8 DEF Idle
    <3>7. QED BY <1>3, <2>7, <3>4, <3>5, <3>6, Zenon
  <2>9. CASE Len(c.q) >= 2
    <3>1. s.next = c.q[2] /\ c.q[2] \in Buf BY <1>1, <2>3, <2>7, <2>9
    <3>2. First(s) BY <2>1, <2>7, <2>9, <3>1 DEF First, Idle
    <3>3. Loads(s, FALSE) BY <2>7 DEF Loads
    <3>4. LoadSecond(s, FALSE) = LoadBuffer(Waited(s), s.next)
      BY <1>n, <2>7, <3>1, <3>3 DEF LoadSecond
    <3>5. Waited(s).next = s.next BY <2>7 DEF Waited, Channel
    <3>6. Distinct(s.q) /\ Len(s.q) >= 2 BY <2>7, <2>9
    <3>7. LET e == LoadBuffer(Waited(s), Waited(s).next)
          IN e \in Channel /\ Two(e, FALSE) /\ e.q = s.q /\ e.cur = s.q[1]
      BY <2>7, <3>2, <3>6, LoadBehind
    <3>8. d = LoadBuffer(Waited(s), Waited(s).next) BY <2>2, <3>4, <3>5, Zenon
    <3>9. ~(Len(c.q) = 1) BY <1>1, <2>9, LengthCases, Zenon
    <3>10. QED BY <1>3, <2>7, <3>7, <3>8, <3>9, Zenon
  <2>10. Len(c.q) = 1 \/ Len(c.q) >= 2 BY <1>1, <2>1, LengthCases, Zenon
  <2>11. QED BY <2>8, <2>9, <2>10, Zenon
<1>4. QED BY <1>2, <1>3

(* A buffer queued behind a running first one is put in the registers. *)
LEMMA EnqueueFirst ==
  ASSUME NEW c \in Channel, Distinct(c.q), First(c), NEW b \in Buf,
         \A i \in DOMAIN c.q : c.q[i] # b
  PROVE  LET d == DmaEnqueue(c, b, FALSE) IN
         /\ d \in Channel /\ Distinct(d.q) /\ d.q = Append(c.q, b)
         /\ Two(d, FALSE) /\ d.cur = c.q[1]
<1> DEFINE l == Linked(c, b)
           w == IF l.ls = "1LOADED" THEN Waited(l) ELSE l
<1>n. NULL \notin Buf BY DmaAssumption
<1>1. c.q \in Seq(Buf) /\ Len(c.q) \in Nat /\ Len(c.q) >= 1 BY DEF Channel, First
<1>2. /\ l \in Channel
      /\ l.q = Append(c.q, b) /\ Len(l.q) = Len(c.q) + 1
      /\ \A i \in 1..Len(c.q) : l.q[i] = c.q[i]
      /\ l.q[Len(c.q) + 1] = b
      /\ Distinct(l.q)
      /\ l.next = IF c.q = <<>> \/ c.next = NULL THEN b ELSE c.next
      /\ l.state = c.state /\ l.ls = c.ls /\ l.on = c.on
      /\ l.init = c.init /\ l.norel = c.norel /\ l.cur = c.cur
  BY LinkedProperties
<1> HIDE DEF l
<1>3. l.q[1] = c.q[1] BY <1>1, <1>2
<1>4. l.next = l.q[2]
  <2>1. CASE Len(c.q) = 1
    <3>1. c.next = NULL BY <2>1 DEF First
    <3>2. QED BY <1>2, <2>1, <3>1
  <2>2. CASE Len(c.q) >= 2
    <3>1. c.next = c.q[2] /\ c.q[2] \in Buf /\ c.q # <<>> BY <1>1, <2>2 DEF First
    <3>2. QED BY <1>n, <1>1, <1>2, <2>2, <3>1
  <2>3. Len(c.q) = 1 \/ Len(c.q) >= 2 BY <1>1, LengthCases, Zenon
  <2>4. QED BY <2>1, <2>2, <2>3, Zenon
<1>5. First(l) BY <1>1, <1>2, <1>3, <1>4 DEF First
<1>6. Len(l.q) >= 2 BY <1>1, <1>2
<1>7. LET d == LoadBuffer(w, w.next)
      IN d \in Channel /\ Two(d, FALSE) /\ d.q = l.q /\ d.cur = l.q[1]
  BY <1>2, <1>5, <1>6, LoadBehind
<1>8. l.ls = "1LOADED" => Loads(l, FALSE) BY <1>5 DEF Loads, First
<1>9. w.ls = "1RUNNING" /\ w.next = l.next
  BY <1>2, <1>5 DEF First, Waited, Channel
<1>10. l.next # NULL BY <1>n, <1>2, <1>4, <1>6 DEF Channel
<1>11. DmaEnqueue(c, b, FALSE) = LoadBuffer(w, w.next)
  <2>1. c.state = "RUNNING" BY DEF First
  <2>2. CanLoad(w) BY <1>9 DEF CanLoad
  <2>3. DmaEnqueue(c, b, FALSE) = IF CanLoad(w) /\ w.next # NULL THEN LoadBuffer(w, w.next) ELSE w
    BY <1>8, <2>1 DEF DmaEnqueue, l
  <2>4. QED BY <1>9, <1>10, <2>2, <2>3
<1>12. QED BY <1>2, <1>3, <1>7, <1>11

(* A buffer queued behind two is only linked. *)
LEMMA EnqueueTwo ==
  ASSUME NEW c \in Channel, Distinct(c.q), NEW p \in BOOLEAN, Two(c, p), NEW b \in Buf,
         \A i \in DOMAIN c.q : c.q[i] # b
  PROVE  LET d == DmaEnqueue(c, b, FALSE) IN
         /\ d \in Channel /\ Distinct(d.q) /\ d.q = Append(c.q, b)
         /\ Two(d, p) /\ d.cur = c.cur
<1> DEFINE l == Linked(c, b)
<1>n. NULL \notin Buf BY DmaAssumption
<1>1. c.q \in Seq(Buf) /\ Len(c.q) \in Nat /\ Len(c.q) >= 2 BY DEF Channel, Two
<1>2. /\ l \in Channel
      /\ l.q = Append(c.q, b) /\ Len(l.q) = Len(c.q) + 1
      /\ \A i \in 1..Len(c.q) : l.q[i] = c.q[i]
      /\ l.q[Len(c.q) + 1] = b
      /\ Distinct(l.q)
      /\ l.next = IF c.q = <<>> \/ c.next = NULL THEN b ELSE c.next
      /\ l.state = c.state /\ l.ls = c.ls /\ l.on = c.on
      /\ l.init = c.init /\ l.norel = c.norel /\ l.cur = c.cur
  BY LinkedProperties
<1> HIDE DEF l
<1>3. l.q[1] = c.q[1] /\ l.q[2] = c.q[2] BY <1>1, <1>2
<1>4. l.next = l.q[3]
  <2>1. CASE Len(c.q) = 2
    <3>1. c.next = NULL BY <2>1 DEF Two
    <3>2. QED BY <1>2, <2>1, <3>1
  <2>2. CASE Len(c.q) > 2
    <3>1. c.next = c.q[3] /\ c.q[3] \in Buf /\ c.q # <<>> BY <1>1, <2>2 DEF Two
    <3>2. QED BY <1>n, <1>1, <1>2, <2>2, <3>1
  <2>3. \A n \in Nat : n >= 2 => n = 2 \/ n > 2 OBVIOUS
  <2>4. QED BY <1>1, <2>1, <2>2, <2>3, Zenon
<1>5. Len(l.q) >= 2 /\ Len(l.q) > 2 BY <1>1, <1>2
<1>6. Two(l, p) BY <1>2, <1>3, <1>4, <1>5 DEF Two
<1>7. DmaEnqueue(c, b, FALSE) = l
  <2>1. c.state = "RUNNING" /\ l.ls = "1LOADED_1RUNNING" BY <1>2 DEF Two
  <2>2. ~CanLoad(l) BY <2>1 DEF CanLoad
  <2>3. QED BY <2>1, <2>2 DEF DmaEnqueue, l
<1>8. QED BY <1>2, <1>6, <1>7, Zenon

(* The end of the interrupt leaves two loaded buffers alone. *)
LEMMA ReloadTwo ==
  ASSUME NEW c \in Channel, Two(c, FALSE)
  PROVE  Reload(c, FALSE) = c
<1>1. c.ls = "1LOADED_1RUNNING" BY DEF Two
<1>2. ~CanLoad(c) BY <1>1 DEF CanLoad
<1>3. LastXfer(c, FALSE) = c BY <1>1 DEF LastXfer
<1>4. QED BY <1>1, <1>2, <1>3 DEF Reload

(* It stops a channel that has nothing loaded and nothing to load. *)
LEMMA ReloadNone ==
  ASSUME NEW c \in Channel, c.ls = "NONE", c.next = NULL \/ c.state = "IDLE"
  PROVE  LET d == Reload(c, FALSE) IN
         d \in Channel /\ Idle(d) /\ d.q = c.q /\ d.next = c.next
<1> DEFINE l == [c EXCEPT !.norel = TRUE]
<1>1. LastXfer(c, FALSE) = l BY DEF LastXfer
<1>2. l \in Channel /\ l.ls = "NONE" /\ l.q = c.q /\ l.next = c.next BY DEF Channel
<1> HIDE DEF l
<1>3. Reload(c, FALSE) = DoStop(l) BY <1>1, <1>2 DEF Reload
<1>4. DoStop(l) \in Channel /\ Idle(DoStop(l)) /\ DoStop(l).q = l.q /\ DoStop(l).next = l.next
  BY <1>2 DEF DoStop, Channel, LoadState, Idle
<1>5. QED BY <1>2, <1>3, <1>4, Zenon

(* It puts the next buffer behind the first, or ends the stream with it. *)
LEMMA ReloadFirst ==
  ASSUME NEW c \in Channel, Distinct(c.q), First(c), c.ls = "1LOADED"
  PROVE  LET d == Reload(c, FALSE) IN
         /\ d \in Channel /\ d.q = c.q /\ d.cur = c.q[1]
         /\ One(d, FALSE) \/ Two(d, FALSE)
<1>n. NULL \notin Buf BY DmaAssumption
<1>1. c.q \in Seq(Buf) /\ Len(c.q) \in Nat /\ Len(c.q) >= 1 BY DEF Channel, First
<1>2. Loads(c, FALSE) BY DEF Loads, First
<1>3. CASE Len(c.q) = 1
  <2> DEFINE l == [Waited(c) EXCEPT !.norel = TRUE]
  <2>1. c.next = NULL BY <1>3 DEF First
  <2>2. LastXfer(c, FALSE) = l BY <1>2 DEF LastXfer
  <2>3. c.q[1] \in Buf BY <1>1
  <2>4. Waited(c).cur = c.q[1] BY <1>n, <2>3 DEF First, Waited, Channel
  <2>5. /\ Waited(c) \in Channel /\ Waited(c).q = c.q /\ Waited(c).next = c.next
        /\ Waited(c).ls = "1RUNNING" /\ Waited(c).on = c.on
        /\ Waited(c).state = c.state /\ Waited(c).init = c.init
    BY DEF Waited, Channel, LoadState
  <2>6. /\ l \in Channel /\ l.q = c.q /\ l.next = NULL /\ l.ls = "1RUNNING"
        /\ l.on = c.on /\ l.state = c.state /\ l.init = c.init /\ l.norel = TRUE
        /\ l.cur = c.q[1]
    BY <2>1, <2>4, <2>5 DEF Channel
  <2> HIDE DEF l
  <2>7. Reload(c, FALSE) = l BY <2>1, <2>2, <2>6 DEF Reload
  <2>8. One(l, FALSE) BY <1>3, <2>6 DEF One, First
  <2>9. QED BY <2>6, <2>7, <2>8, Zenon
<1>4. CASE Len(c.q) >= 2
  <2>1. c.next = c.q[2] /\ c.q[2] \in Buf BY <1>1, <1>4 DEF First
  <2>2. Waited(c).next = c.next BY DEF Waited, Channel
  <2>3. ~CanLoad(c) BY DEF CanLoad
  <2>4. c.next # NULL /\ c.state # "IDLE" BY <1>n, <2>1 DEF First
  <2>5. Reload(c, FALSE) = LoadBuffer(Waited(c), c.next)
    BY <1>2, <2>3, <2>4 DEF Reload
  <2>6. LET e == LoadBuffer(Waited(c), Waited(c).next)
        IN e \in Channel /\ Two(e, FALSE) /\ e.q = c.q /\ e.cur = c.q[1]
    BY <1>4, LoadBehind
  <2>7. QED BY <2>2, <2>5, <2>6, Zenon
<1>5. QED BY <1>1, <1>3, <1>4, LengthCases, Zenon

(* s3c2410_dma_dostop leaves a stopped channel with its chain. *)
LEMMA DoStopProperties ==
  ASSUME NEW c \in Channel
  PROVE  LET d == DoStop(c) IN
         /\ d \in Channel /\ Idle(d) /\ d.q = c.q /\ d.next = c.next
         /\ d.init = c.init
BY DEF DoStop, Channel, LoadState, Idle

(* The interrupt for the last buffer leaves nothing loaded. *)
LEMMA PoppedOne ==
  ASSUME NEW c \in Channel, One(c, TRUE)
  PROVE  LET p == Popped(c) IN
         p \in Channel /\ p.q = <<>> /\ p.ls = "NONE" /\ p.next = NULL
<1>1. c.q \in Seq(Buf) /\ Len(c.q) = 1 /\ c.next = NULL /\ c.ls # "1LOADED_1RUNNING"
  BY DEF Channel, One
<1>2. c.q # <<>> BY <1>1
<1>3. Tail(c.q) \in Seq(Buf) /\ Len(Tail(c.q)) = 0 BY <1>1, <1>2
<1>t. \A t \in Seq(Buf) : Len(t) = 0 => t = <<>> OBVIOUS
<1>4. Tail(c.q) = <<>> BY <1>3, <1>t, Zenon
<1>5. QED BY <1>1, <1>2, <1>3, <1>4 DEF Popped, Channel, LoadState

(* The interrupt for an earlier one leaves the next as the first. *)
LEMMA PoppedTwo ==
  ASSUME NEW c \in Channel, Distinct(c.q), Two(c, TRUE)
  PROVE  LET p == Popped(c) IN
         /\ p \in Channel /\ Distinct(p.q) /\ p.q = Tail(c.q)
         /\ First(p) /\ p.ls = "1LOADED" /\ p.cur = c.cur
<1> DEFINE p == Popped(c)
<1>1. c.q \in Seq(Buf) /\ Len(c.q) \in Nat /\ Len(c.q) >= 2 BY DEF Channel, Two
<1>2. /\ c.q # <<>> /\ Tail(c.q) \in Seq(Buf) /\ Len(Tail(c.q)) = Len(c.q) - 1
      /\ \A i \in 1..Len(c.q) - 1 : Tail(c.q)[i] = c.q[i + 1]
  BY <1>1
<1>3. Distinct(Tail(c.q)) BY <1>1, <1>2 DEF Distinct
<1>4. /\ p \in Channel /\ p.q = Tail(c.q) /\ p.ls = "1LOADED" /\ p.cur = c.cur
      /\ p.state = c.state /\ p.init = c.init /\ p.on = c.on /\ p.next = c.next
  BY <1>2 DEF Popped, Channel, LoadState, Two
<1> HIDE DEF p
<1>5. Tail(c.q)[1] = c.q[2] /\ Len(Tail(c.q)) >= 1 BY <1>1, <1>2
<1>6. c.next = IF Len(Tail(c.q)) > 1 THEN Tail(c.q)[2] ELSE NULL
  BY <1>1, <1>2 DEF Two
<1>7. First(p) BY <1>4, <1>5, <1>6 DEF First, Two
<1>8. QED BY <1>3, <1>4, <1>7 DEF p

-----------------------------------------------------------------------------
(* The entry points, the interrupt and the hardware keep a channel good. *)

(* A lone buffer without an interrupt is a first buffer. *)
LEMMA OneIsFirst ==
  ASSUME NEW c \in Channel, One(c, FALSE)
  PROVE  First(c)
BY DEF One, First

(* A channel is running or idle. *)
LEMMA StateCases ==
  ASSUME NEW c \in Channel
  PROVE  c.state = "RUNNING" \/ c.state = "IDLE"
BY DEF Channel

(* s3c2410_dma_enqueue with no interrupt latched. *)
LEMMA GoodEnqueue ==
  ASSUME NEW c, Good(c, FALSE, FALSE), NEW b \in Buf,
         \A i \in DOMAIN c.q : c.q[i] # b
  PROVE  LET d == DmaEnqueue(c, b, FALSE) IN
         Good(d, FALSE, FALSE) /\ d.q = Append(c.q, b) /\ Begins(c, d)
<1> DEFINE d == DmaEnqueue(c, b, FALSE)
<1>n. NULL \notin Buf BY DmaAssumption
<1>1. c \in Channel /\ Distinct(c.q) BY DEF Good
<1>2. c.q \in Seq(Buf) /\ Len(c.q) \in Nat BY <1>1 DEF Channel
<1>3. CASE c.state = "RUNNING"
  <2>1. CASE One(c, FALSE)
    <3>1. First(c) BY <1>1, <2>1, OneIsFirst
    <3>2. /\ d \in Channel /\ Distinct(d.q) /\ d.q = Append(c.q, b)
          /\ Two(d, FALSE) /\ d.cur = c.q[1]
      BY <1>1, <3>1, EnqueueFirst
    <3> HIDE DEF d
    <3>3. d.state # "IDLE" BY <3>2 DEF Two
    <3>4. Good(d, FALSE, FALSE) BY <3>2, <3>3 DEF Good
    <3>5. (c.cur = NULL \/ c.cur = c.q[1]) /\ c.q # <<>> BY <1>2, <3>1 DEF First
    <3>6. Begins(c, d) BY <3>2, <3>5 DEF Begins
    <3>7. QED BY <3>2, <3>4, <3>6 DEF d
  <2>2. CASE Two(c, FALSE)
    <3>1. /\ d \in Channel /\ Distinct(d.q) /\ d.q = Append(c.q, b)
          /\ Two(d, FALSE) /\ d.cur = c.q[1]
      BY <1>1, <2>2, EnqueueTwo DEF Two
    <3> HIDE DEF d
    <3>2. d.state # "IDLE" BY <3>1 DEF Two
    <3>3. Good(d, FALSE, FALSE) BY <3>1, <3>2 DEF Good
    <3>4. Begins(c, d) BY <2>2, <3>1 DEF Begins, Two
    <3>5. QED BY <3>1, <3>3, <3>4 DEF d
  <2>3. QED BY <1>3, <2>1, <2>2 DEF Good
<1>4. CASE c.state = "IDLE"
  <2> DEFINE l == Linked(c, b)
  <2>1. Idle(c) /\ Ready(c) BY <1>4 DEF Good
  <2>2. /\ l \in Channel
        /\ l.q = Append(c.q, b) /\ Len(l.q) = Len(c.q) + 1
        /\ \A i \in 1..Len(c.q) : l.q[i] = c.q[i]
        /\ l.q[Len(c.q) + 1] = b
        /\ Distinct(l.q)
        /\ l.next = IF c.q = <<>> \/ c.next = NULL THEN b ELSE c.next
        /\ l.state = c.state /\ l.ls = c.ls /\ l.on = c.on
        /\ l.init = c.init /\ l.norel = c.norel /\ l.cur = c.cur
    BY <1>1, LinkedProperties
  <2>3. DmaEnqueue(c, b, FALSE) = IF AutoStart THEN DmaStart(l, FALSE) ELSE l
    BY <1>4 DEF DmaEnqueue
  <2> HIDE DEF l
  <2>4. Idle(l) BY <2>1, <2>2 DEF Idle
  <2>5. l.q # <<>> /\ Len(l.q) >= 1 BY <1>2, <2>2
  <2>6. l.next = l.q[1]
    <3>1. CASE c.q = <<>> BY <1>2, <2>2, <3>1
    <3>2. CASE c.q # <<>>
      <4>1. Len(c.q) >= 1 /\ c.q[1] \in Buf /\ c.next = c.q[1]
        BY <1>2, <2>1, <3>2 DEF Ready
      <4>2. QED BY <1>n, <1>2, <2>2, <3>2, <4>1
    <3>3. QED BY <3>1, <3>2
  <2>7. Ready(l) BY <2>5, <2>6 DEF Ready
  <2>8. CASE ~AutoStart
    <3>1. d = l BY <2>3, <2>8
    <3>2. Good(l, FALSE, FALSE) BY <2>2, <2>4, <2>7 DEF Good, Idle
    <3>3. Begins(c, l) BY <2>2 DEF Begins
    <3>4. QED BY <2>2, <3>1, <3>2, <3>3, Zenon
  <2>9. CASE AutoStart
    <3>1. d = DmaStart(l, FALSE) BY <2>3, <2>9
    <3>2. LET e == DmaStart(l, FALSE) IN
          /\ e \in Channel /\ e.q = l.q
          /\ l.q = <<>> => e = l
          /\ Len(l.q) = 1 => One(e, FALSE) /\ e.cur = NULL
          /\ Len(l.q) >= 2 => Two(e, FALSE) /\ e.cur = l.q[1]
      BY <2>2, <2>4, <2>7, StartProperties
    <3>3. /\ d \in Channel /\ d.q = l.q
          /\ Len(l.q) = 1 => One(d, FALSE) /\ d.cur = NULL
          /\ Len(l.q) >= 2 => Two(d, FALSE) /\ d.cur = l.q[1]
      BY <3>1, <3>2, Zenon
    <3> HIDE DEF d
    <3>4. l.q \in Seq(Buf) BY <2>2 DEF Channel
    <3>5. Len(l.q) = 1 \/ Len(l.q) >= 2 BY <2>5, <3>4, LengthCases, Zenon
    <3>6. One(d, FALSE) \/ Two(d, FALSE) BY <3>3, <3>5, Zenon
    <3>7. d.state # "IDLE" BY <3>6 DEF One, Two
    <3>8. Good(d, FALSE, FALSE) BY <2>2, <3>3, <3>6, <3>7 DEF Good
    <3>9. Len(l.q) >= 2 => c.q # <<>> /\ l.q[1] = c.q[1] BY <1>2, <2>2
    <3>10. c.cur = NULL BY <2>1 DEF Idle
    <3>11. Begins(c, d) BY <3>3, <3>5, <3>9, <3>10, Zenon DEF Begins
    <3>12. QED BY <2>2, <3>3, <3>8, <3>11 DEF d
  <2>10. QED BY <2>8, <2>9
<1>5. QED BY <1>1, <1>3, <1>4, StateCases, Zenon

(* s3c2410_dma_start with no interrupt latched. *)
LEMMA GoodStart ==
  ASSUME NEW c, Good(c, FALSE, FALSE)
  PROVE  LET d == DmaStart(c, FALSE) IN
         Good(d, FALSE, FALSE) /\ d.q = c.q /\ Begins(c, d)
<1> DEFINE d == DmaStart(c, FALSE)
<1>1. c \in Channel /\ Distinct(c.q) /\ c.q \in Seq(Buf) BY DEF Good, Channel
<1>2. CASE c.state = "RUNNING" \/ c.q = <<>>
  <2>1. d = c BY <1>2 DEF DmaStart, Good, Idle, Ready, Channel
  <2>2. Begins(c, c) BY DEF Begins
  <2>3. QED BY <2>1, <2>2, Zenon
<1>3. CASE c.state = "IDLE" /\ c.q # <<>>
  <2>1. Idle(c) /\ Ready(c) BY <1>3 DEF Good
  <2>2. /\ d \in Channel /\ d.q = c.q
        /\ Len(c.q) = 1 => One(d, FALSE) /\ d.cur = NULL
        /\ Len(c.q) >= 2 => Two(d, FALSE) /\ d.cur = c.q[1]
    BY <1>1, <2>1, StartProperties
  <2> HIDE DEF d
  <2>3. Len(c.q) = 1 \/ Len(c.q) >= 2 BY <1>1, <1>3, LengthCases, Zenon
  <2>4. One(d, FALSE) \/ Two(d, FALSE) BY <2>2, <2>3, Zenon
  <2>5. d.state # "IDLE" BY <2>4 DEF One, Two
  <2>6. Good(d, FALSE, FALSE) BY <1>1, <2>2, <2>4, <2>5 DEF Good
  <2>7. c.cur = NULL BY <2>1 DEF Idle
  <2>8. Begins(c, d) BY <1>3, <2>2, <2>3, <2>7, Zenon DEF Begins
  <2>9. QED BY <2>2, <2>6, <2>8 DEF d
<1>4. QED BY <1>1, <1>2, <1>3, StateCases, Zenon

(* s3c2410_dma_started finds nothing left to load. *)
LEMMA GoodStarted ==
  ASSUME NEW c, NEW f, Good(c, FALSE, f)
  PROVE  LoadSecond(c, FALSE) = c
<1>1. c \in Channel BY DEF Good
<1>2. c.next = NULL \/ c.ls = "1LOADED_1RUNNING" \/ c.ls = "NONE"
  BY <1>1, StateCases DEF Good, One, Two, Idle
<1>3. QED BY <1>2 DEF LoadSecond

(* s3c2410_dma_dostop leaves a channel waiting for its flush. *)
LEMMA GoodStop ==
  ASSUME NEW c \in Channel, Distinct(c.q)
  PROVE  Good(DoStop(c), FALSE, TRUE) /\ DoStop(c).q = c.q
<1>1. DoStop(c) \in Channel /\ Idle(DoStop(c)) /\ DoStop(c).q = c.q
  BY DoStopProperties
<1>2. QED BY <1>1 DEF Good, Idle

(* s3c2410_dma_flush empties a channel that is or gets stopped. *)
LEMMA GoodFlush ==
  ASSUME NEW c \in Channel, c.state = "IDLE" => Idle(c), c.state = "IDLE" \/ FlushHitsSelf
  PROVE  LET d == DmaFlush(c) IN
         Good(d, FALSE, FALSE) /\ d.q = <<>> /\ d.cur = NULL
<1> DEFINE s == IF c.state # "IDLE" /\ FlushHitsSelf THEN DoStop(c) ELSE c
           d == [s EXCEPT !.q = <<>>, !.next = NULL]
<1>2. s \in Channel /\ Idle(s)
  <2>1. CASE c.state = "IDLE"
    <3>1. s = c BY <2>1
    <3>2. Idle(c) BY <2>1
    <3>3. QED BY <3>1, <3>2, Zenon
  <2>2. CASE c.state # "IDLE"
    <3>1. s = DoStop(c) BY <2>2
    <3>2. QED BY <3>1, DoStopProperties, Zenon
  <2>3. QED BY <2>1, <2>2
<1>3. DmaFlush(c) = d BY DEF DmaFlush
<1> HIDE DEF s
<1>4. /\ d \in Channel /\ d.q = <<>> /\ d.next = NULL /\ d.cur = s.cur /\ d.on = s.on
      /\ d.ls = s.ls /\ d.state = s.state
  <2>1. <<>> \in Seq(Buf) OBVIOUS
  <2>2. QED BY <1>2, <2>1 DEF Channel
<1> HIDE DEF d
<1>5. Idle(d) BY <1>2, <1>4 DEF Idle
<1>6. Distinct(d.q) BY <1>4 DEF Distinct
<1>7. Ready(d) BY <1>4 DEF Ready
<1>8. Good(d, FALSE, FALSE) BY <1>4, <1>5, <1>6, <1>7 DEF Good, Idle
<1>9. d.cur = NULL BY <1>5 DEF Idle
<1>10. QED BY <1>3, <1>4, <1>8, <1>9, Zenon

(* Suspend stops a channel that is on; the registers are lost. *)
LEMMA GoodSuspend ==
  ASSUME NEW c, NEW f \in BOOLEAN, Good(c, FALSE, f)
  PROVE  LET s == IF c.on THEN DoStop(c) ELSE c
             d == [s EXCEPT !.init = NULL, !.norel = FALSE]
         IN Good(d, FALSE, f \/ c.on) /\ d.q = c.q /\ d.cur = NULL /\ d.state = "IDLE"
<1> DEFINE s == IF c.on THEN DoStop(c) ELSE c
           d == [s EXCEPT !.init = NULL, !.norel = FALSE]
<1>1. c \in Channel /\ Distinct(c.q) BY DEF Good
<1>2. s \in Channel /\ Idle(s) /\ s.q = c.q /\ s.next = c.next
  <2>1. CASE c.on
    <3>1. s = DoStop(c) BY <2>1
    <3>2. QED BY <1>1, <3>1, DoStopProperties, Zenon
  <2>2. CASE ~c.on
    <3>1. s = c BY <2>2
    <3>2. c.state # "RUNNING" BY <2>2 DEF Good, One, Two
    <3>3. Idle(c) BY <1>1, <3>2, StateCases DEF Good
    <3>4. QED BY <1>1, <3>1, <3>3, Zenon
  <2>3. QED BY <2>1, <2>2
<1>3. ~c.on /\ ~f => Ready(c)
  <2>1. ~c.on => c.state # "RUNNING" BY DEF Good, One, Two
  <2>2. QED BY <1>1, <2>1, StateCases DEF Good
<1> HIDE DEF s
<1>4. /\ d \in Channel /\ d.q = s.q /\ d.next = s.next /\ d.cur = s.cur /\ d.on = s.on
      /\ d.ls = s.ls /\ d.state = s.state
  BY <1>2 DEF Channel
<1> HIDE DEF d
<1>5. Idle(d) BY <1>2, <1>4 DEF Idle
<1>6. Distinct(d.q) /\ d.q = c.q BY <1>1, <1>2, <1>4
<1>7. (f \/ c.on) \/ Ready(d) BY <1>2, <1>3, <1>4, <1>6 DEF Ready
<1>8. d.cur = NULL /\ d.state = "IDLE" BY <1>5 DEF Idle
<1>9. Good(d, FALSE, f \/ c.on) BY <1>4, <1>5, <1>6, <1>7, <1>8 DEF Good
<1>10. QED BY <1>6, <1>8, <1>9 DEF d, s

(* The hardware takes up its registers: the head, or the second behind a done one. *)
LEMMA GoodHwLoad ==
  ASSUME NEW c, NEW p \in BOOLEAN, NEW f, Good(c, p, f), c.on, c.cur = NULL
  PROVE  LET d == [c EXCEPT !.cur = c.init] IN
         /\ Good(d, p, f) /\ c.state = "RUNNING" /\ d.state = "RUNNING" /\ d.q = c.q
         /\ ~p => d.cur = c.q[1]
         /\ p => Len(c.q) >= 2 /\ d.cur = c.q[2]
<1> DEFINE d == [c EXCEPT !.cur = c.init]
<1>n. NULL \notin Buf BY DmaAssumption
<1>1. c \in Channel /\ Distinct(c.q) /\ c.q \in Seq(Buf) BY DEF Good, Channel
<1>2. c.state = "RUNNING" BY <1>1, StateCases DEF Good, Idle
<1>3. /\ d \in Channel /\ d.q = c.q /\ d.next = c.next /\ d.cur = c.init /\ d.on = c.on
      /\ d.ls = c.ls /\ d.state = c.state /\ d.init = c.init /\ d.norel = c.norel
  BY <1>1 DEF Channel
<1> HIDE DEF d
<1>4. CASE One(c, p)
  <2>1. ~p BY <1>4 DEF One
  <2>2. One(d, p) /\ d.cur = c.q[1] BY <1>3, <1>4, <2>1 DEF One
  <2>3. Good(d, p, f) BY <1>1, <1>2, <1>3, <2>2 DEF Good
  <2>4. QED BY <1>2, <1>3, <2>1, <2>2, <2>3 DEF d
<1>5. CASE Two(c, p)
  <2>1. c.q[1] \in Buf BY <1>1, <1>5 DEF Two
  <2>2. p BY <1>n, <1>5, <2>1 DEF Two
  <2>3. Two(d, p) /\ d.cur = c.q[2] /\ Len(c.q) >= 2 BY <1>3, <1>5, <2>2 DEF Two
  <2>4. Good(d, p, f) BY <1>1, <1>2, <1>3, <2>3 DEF Good
  <2>5. QED BY <1>2, <1>3, <2>2, <2>3, <2>4 DEF d
<1>6. QED BY <1>2, <1>4, <1>5 DEF Good

(* The hardware ends the head of the chain. *)
LEMMA GoodHwDone ==
  ASSUME NEW c, NEW f, Good(c, FALSE, f), c.on, c.cur # NULL
  PROVE  LET d == [c EXCEPT !.cur = NULL, !.on = ~c.norel] IN
         /\ Good(d, TRUE, f) /\ c.state = "RUNNING" /\ d.state = "RUNNING" /\ d.q = c.q
         /\ Len(c.q) >= 1 /\ c.cur = c.q[1]
<1> DEFINE d == [c EXCEPT !.cur = NULL, !.on = ~c.norel]
<1>1. c \in Channel /\ Distinct(c.q) /\ c.q \in Seq(Buf) BY DEF Good, Channel
<1>2. c.state = "RUNNING" BY <1>1, StateCases DEF Good, Idle
<1>3. /\ d \in Channel /\ d.q = c.q /\ d.next = c.next /\ d.cur = NULL
      /\ d.ls = c.ls /\ d.state = c.state /\ d.init = c.init /\ d.norel = c.norel
  BY <1>1 DEF Channel
<1>o. d.on = ~c.norel BY <1>1 DEF Channel
<1> HIDE DEF d
<1>4. CASE One(c, FALSE)
  <2>1. Len(c.q) >= 1 /\ c.cur = c.q[1] BY <1>4 DEF One
  <2>2. One(d, TRUE) BY <1>3, <1>o, <1>4 DEF One
  <2>3. Good(d, TRUE, f) BY <1>1, <1>2, <1>3, <2>2 DEF Good
  <2>4. QED BY <1>2, <1>3, <2>1, <2>3 DEF d
<1>5. CASE Two(c, FALSE)
  <2>1. Len(c.q) >= 1 /\ c.cur = c.q[1] BY <1>1, <1>5 DEF Two
  <2>2. Two(d, TRUE) BY <1>3, <1>o, <1>5 DEF Two
  <2>3. Good(d, TRUE, f) BY <1>1, <1>2, <1>3, <2>2 DEF Good
  <2>4. QED BY <1>2, <1>3, <2>1, <2>3 DEF d
<1>6. QED BY <1>2, <1>4, <1>5 DEF Good

(* s3c2410_dma_irq with a callback that does nothing, stops or refills. *)
LEMMA GoodIrq ==
  ASSUME NEW c, NEW f \in BOOLEAN, Good(c, TRUE, f), NEW cb,
         \/ cb = "none"
         \/ cb = "stop"
         \/ cb \in Buf /\ Len(c.q) > 1 /\ \A i \in DOMAIN c.q : c.q[i] # cb
  PROVE  LET d == Reload(Callback(Popped(c), cb, FALSE), FALSE) IN
         /\ c.q # <<>> /\ c.state = "RUNNING" /\ ~f
         /\ Good(d, FALSE, cb = "stop")
         /\ d.q = IF cb \in Buf THEN Append(Tail(c.q), cb) ELSE Tail(c.q)
         /\ d.state = "RUNNING" => Len(c.q) >= 2 /\ d.cur = c.q[2]
         /\ d.state = "IDLE" /\ cb # "stop" => d.q = <<>>
         /\ c.cur = NULL \/ (Len(c.q) >= 2 /\ c.cur = c.q[2])
<1> DEFINE p == Popped(c)
           d == Reload(Callback(Popped(c), cb, FALSE), FALSE)
<1>b. "none" \notin Buf /\ "stop" \notin Buf /\ "none" # "stop" BY DmaAssumption
<1>1. c \in Channel /\ Distinct(c.q) /\ c.q \in Seq(Buf) /\ Len(c.q) \in Nat
  BY DEF Good, Channel
<1>2. c.state = "RUNNING" /\ ~f /\ (One(c, TRUE) \/ Two(c, TRUE))
  BY <1>1, StateCases DEF Good
<1>3. c.q # <<>> BY <1>1, <1>2 DEF One, Two
<1>c. c.cur = NULL \/ (Len(c.q) >= 2 /\ c.cur = c.q[2]) BY <1>2 DEF One, Two
<1>4. CASE cb = "stop"
  <2>1. Callback(p, cb, FALSE) = DoStop(p) BY <1>b, <1>4 DEF Callback
  <2>2. p \in Channel /\ p.q = Tail(c.q) /\ Distinct(p.q)
    <3>1. CASE One(c, TRUE)
      <4>1. Len(c.q) = 1 BY <3>1 DEF One
      <4>2. Tail(c.q) = <<>> BY <1>1, <4>1
      <4>3. p \in Channel /\ p.q = <<>> BY <1>1, <3>1, PoppedOne
      <4>4. Distinct(<<>>) BY DEF Distinct
      <4>5. QED BY <4>2, <4>3, <4>4
    <3>2. CASE Two(c, TRUE) BY <1>1, <3>2, PoppedTwo
    <3>3. QED BY <1>2, <3>1, <3>2
  <2> HIDE DEF p
  <2>3. DoStop(p) \in Channel /\ Idle(DoStop(p)) /\ DoStop(p).q = p.q
    BY <2>2, DoStopProperties
  <2> DEFINE e == DoStop(p)
  <2>4. e.ls = "NONE" /\ e.state = "IDLE" BY <2>3 DEF Idle
  <2> HIDE DEF e
  <2>5. LET r == Reload(e, FALSE) IN
        r \in Channel /\ Idle(r) /\ r.q = e.q /\ r.next = e.next
    BY <2>3, <2>4, ReloadNone DEF e
  <2>6. d = Reload(e, FALSE) BY <2>1, Zenon DEF e, p
  <2>7. d \in Channel /\ Idle(d) /\ d.q = Tail(c.q) BY <2>2, <2>3, <2>5, <2>6, Zenon DEF e
  <2> HIDE DEF d
  <2>8. d.state = "IDLE" /\ d.state # "RUNNING" BY <2>7 DEF Idle
  <2>9. Good(d, FALSE, TRUE) BY <2>2, <2>7, <2>8 DEF Good
  <2>10. (cb = "stop") = TRUE BY <1>4
  <2>11. cb \notin Buf BY <1>b, <1>4
  <2>12. QED BY <1>2, <1>3, <1>4, <1>c, <2>7, <2>8, <2>9, <2>10, <2>11, Zenon DEF d
<1>5. CASE cb = "none" /\ One(c, TRUE)
  <2>1. Callback(p, cb, FALSE) = p BY <1>5 DEF Callback
  <2>2. p \in Channel /\ p.q = <<>> /\ p.ls = "NONE" /\ p.next = NULL
    BY <1>1, <1>5, PoppedOne
  <2>3. Tail(c.q) = <<>>
    <3>1. Len(c.q) = 1 BY <1>5 DEF One
    <3>2. QED BY <1>1, <3>1
  <2> HIDE DEF p
  <2>4. LET r == Reload(p, FALSE) IN
        r \in Channel /\ Idle(r) /\ r.q = p.q /\ r.next = p.next
    BY <2>2, ReloadNone
  <2>5. d = Reload(p, FALSE) BY <2>1, Zenon DEF p
  <2>6. d \in Channel /\ Idle(d) /\ d.q = <<>> /\ d.next = NULL
    BY <2>2, <2>4, <2>5, Zenon
  <2> HIDE DEF d
  <2>7. d.state = "IDLE" /\ d.state # "RUNNING" BY <2>6 DEF Idle
  <2>8. Distinct(<<>>) BY DEF Distinct
  <2>9. Ready(d) BY <2>6 DEF Ready
  <2>10. Good(d, FALSE, FALSE) BY <2>6, <2>7, <2>8, <2>9 DEF Good
  <2>11. (cb = "stop") = FALSE /\ cb \notin Buf BY <1>b, <1>5
  <2>12. QED BY <1>2, <1>3, <1>c, <2>3, <2>6, <2>7, <2>10, <2>11, Zenon DEF d
<1>6. CASE cb # "stop" /\ Two(c, TRUE)
  <2>1. /\ p \in Channel /\ Distinct(p.q) /\ p.q = Tail(c.q)
        /\ First(p) /\ p.ls = "1LOADED"
    BY <1>1, <1>6, PoppedTwo
  <2> HIDE DEF p
  <2>2. Len(c.q) >= 2 BY <1>6 DEF Two
  <2>3. /\ Tail(c.q) \in Seq(Buf) /\ Len(Tail(c.q)) = Len(c.q) - 1
        /\ \A i \in 1..Len(c.q) - 1 : Tail(c.q)[i] = c.q[i + 1]
        /\ Tail(c.q)[1] = c.q[2]
    BY <1>1, <1>3, <2>2
  <2>4. (cb = "stop") = FALSE BY <1>6
  <2>5. /\ d \in Channel /\ Distinct(d.q) /\ (One(d, FALSE) \/ Two(d, FALSE))
        /\ d.q = IF cb \in Buf THEN Append(Tail(c.q), cb) ELSE Tail(c.q)
        /\ d.cur = c.q[2]
    <3>1. CASE cb = "none"
      <4>1. Callback(p, cb, FALSE) = p BY <3>1 DEF Callback
      <4>2. d = Reload(p, FALSE) BY <4>1, Zenon DEF p
      <4>3. LET r == Reload(p, FALSE) IN
            /\ r \in Channel /\ r.q = p.q /\ r.cur = p.q[1]
            /\ One(r, FALSE) \/ Two(r, FALSE)
        BY <2>1, ReloadFirst
      <4>4. cb \notin Buf BY <1>b, <3>1
      <4>5. QED BY <2>1, <2>3, <4>2, <4>3, <4>4, Zenon
    <3>2. CASE cb \in Buf /\ \A i \in DOMAIN c.q : c.q[i] # cb
      <4>1. \A i \in DOMAIN p.q : p.q[i] # cb BY <1>1, <2>1, <2>3, <3>2
      <4> DEFINE e == DmaEnqueue(p, cb, FALSE)
      <4>2. /\ e \in Channel /\ Distinct(e.q) /\ e.q = Append(p.q, cb)
            /\ Two(e, FALSE) /\ e.cur = p.q[1]
        BY <2>1, <3>2, <4>1, EnqueueFirst
      <4>3. Callback(p, cb, FALSE) = e BY <1>b, <3>2 DEF Callback
      <4> HIDE DEF e
      <4>4. Reload(e, FALSE) = e BY <4>2, ReloadTwo
      <4>5. d = e BY <4>3, <4>4, Zenon DEF p
      <4>6. QED BY <2>1, <2>3, <3>2, <4>2, <4>5, Zenon
    <3>3. QED BY <1>6, <3>1, <3>2
  <2> HIDE DEF d
  <2>6. d.state # "IDLE" BY <2>5 DEF One, Two
  <2>7. Good(d, FALSE, FALSE) BY <2>5, <2>6 DEF Good
  <2>8. QED BY <1>2, <1>3, <1>c, <2>2, <2>4, <2>5, <2>6, <2>7, Zenon DEF d
<1>7. CASE cb # "stop" /\ cb # "none" /\ One(c, TRUE)
  <2>1. Len(c.q) = 1 BY <1>7 DEF One
  <2>2. QED BY <1>7, <2>1
<1>8. QED BY <1>2, <1>4, <1>5, <1>6, <1>7, Zenon

(* s3c2410_dma_irq with a callback that stops the channel and then queues. *)
LEMMA GoodStopRefill ==
  ASSUME NEW c, NEW f \in BOOLEAN, Good(c, TRUE, f), ~AutoStart, NEW b \in Buf,
         Len(c.q) > 1, \A i \in DOMAIN c.q : c.q[i] # b
  PROVE  LET d == Reload(DmaEnqueue(DoStop(Popped(c)), b, FALSE), FALSE) IN
         /\ c.q # <<>> /\ c.state = "RUNNING" /\ ~f
         /\ Good(d, FALSE, TRUE) /\ d.q = Append(Tail(c.q), b)
         /\ d.cur = NULL /\ d.state = "IDLE"
<1> DEFINE p == Popped(c)
           s == DoStop(p)
           l == Linked(s, b)
           d == Reload(DmaEnqueue(DoStop(Popped(c)), b, FALSE), FALSE)
<1>1. c \in Channel /\ Distinct(c.q) /\ c.q \in Seq(Buf) /\ Len(c.q) \in Nat
  BY DEF Good, Channel
<1>2. c.state = "RUNNING" /\ ~f /\ (One(c, TRUE) \/ Two(c, TRUE))
  BY <1>1, StateCases DEF Good
<1>3. Two(c, TRUE) /\ c.q # <<>> BY <1>1, <1>2 DEF One, Two
<1>4. p \in Channel /\ Distinct(p.q) /\ p.q = Tail(c.q) BY <1>1, <1>3, PoppedTwo
<1>5. \A i \in DOMAIN p.q : p.q[i] # b
  <2>1. /\ Len(Tail(c.q)) = Len(c.q) - 1 /\ Tail(c.q) \in Seq(Buf)
        /\ \A i \in 1..Len(c.q) - 1 : Tail(c.q)[i] = c.q[i + 1]
    BY <1>1, <1>3
  <2>2. QED BY <1>1, <1>4, <2>1
<1> HIDE DEF p
<1>6. s \in Channel /\ Idle(s) /\ s.q = p.q BY <1>4, DoStopProperties
<1>7. s.state = "IDLE" /\ s.ls = "NONE" BY <1>6 DEF Idle
<1> HIDE DEF s
<1>8. Distinct(s.q) /\ \A i \in DOMAIN s.q : s.q[i] # b BY <1>4, <1>5, <1>6
<1>9. /\ l \in Channel /\ l.q = Append(s.q, b) /\ Distinct(l.q)
      /\ l.state = s.state /\ l.ls = s.ls
  BY <1>6, <1>8, LinkedProperties
<1>10. DmaEnqueue(s, b, FALSE) = l BY <1>7 DEF DmaEnqueue
<1> HIDE DEF l
<1>11. LET r == Reload(l, FALSE) IN r \in Channel /\ Idle(r) /\ r.q = l.q /\ r.next = l.next
  BY <1>7, <1>9, ReloadNone
<1>12. d = Reload(l, FALSE) BY <1>10, Zenon DEF s, p
<1>13. d \in Channel /\ Idle(d) /\ d.q = l.q BY <1>11, <1>12, Zenon
<1> HIDE DEF d
<1>14. d.state = "IDLE" /\ d.state # "RUNNING" /\ d.cur = NULL BY <1>13 DEF Idle
<1>15. Good(d, FALSE, TRUE) BY <1>9, <1>13, <1>14 DEF Good
<1>16. d.q = Append(Tail(c.q), b) BY <1>4, <1>6, <1>9, <1>13
<1>17. QED BY <1>2, <1>3, <1>14, <1>15, <1>16 DEF d

-----------------------------------------------------------------------------
(* The steps of the channel and its client. *)

(* What the prompt setting rules out. *)
LEMMA PromptChoice ==
  ASSUME Prompt
  PROVE  SlowChoice = {FALSE} /\ "refill" \notin Allow
BY DEF Prompt, SlowChoice

(* A new allocation is not in the chain and not under transfer. *)
LEMMA UnusedFresh ==
  ASSUME NEW b \in Unused
  PROVE  b \in Buf /\ (\A i \in DOMAIN chan.q : chan.q[i] # b) /\ b # chan.cur
BY DEF Unused, ToSet

(* What a step does to the count of one buffer. *)
LEMMA TakenAfter ==
  ASSUME TypeOK, NEW Q, TakeUp(Q), NEW x \in Buf
  PROVE  /\ x \in Q => taken'[x] = 0
         /\ x \notin Q /\ (chan'.cur # x \/ chan.cur = x) => taken'[x] = taken[x]
         /\ x \notin Q /\ chan'.cur = x /\ chan.cur # x /\ taken[x] = 0 => taken'[x] = 1
BY DEF TypeOK, TakeUp

(* The counts and the set of moved buffers keep their types. *)
LEMMA TakenType ==
  ASSUME TypeOK, NEW Q, TakeUp(Q)
  PROVE  taken' \in [Buf -> 0..2] /\ done' \subseteq Buf /\ done' = done \ Q
<1>1. ASSUME NEW x \in Buf
      PROVE  (CASE x \in Q -> 0
                [] x \notin Q /\ chan'.cur = x /\ chan.cur # x /\ taken[x] < 2 -> taken[x] + 1
                [] OTHER -> taken[x]) \in 0..2
  <2>1. taken[x] \in 0..2 BY DEF TypeOK
  <2>2. QED BY <2>1
<1>2. taken' \in [Buf -> 0..2] BY <1>1 DEF TakeUp
<1>3. QED BY <1>2 DEF TakeUp, TypeOK

(* Everything the registers hold is a buffer while the channel is on. *)
LEMMA GoodOn ==
  ASSUME NEW c, NEW p, NEW f, Good(c, p, f), c.on
  PROVE  c.init \in Buf
<1>1. c \in Channel /\ c.q \in Seq(Buf) BY DEF Good, Channel
<1>2. c.state = "RUNNING" BY <1>1, StateCases DEF Good, Idle
<1>3. One(c, p) \/ Two(c, p) BY <1>2 DEF Good
<1>4. QED BY <1>1, <1>3 DEF One, Two

(* The transfer under way is of one of the first two buffers. *)
LEMMA GoodCur ==
  ASSUME NEW c, NEW p \in BOOLEAN, NEW f, Good(c, p, f), c.cur # NULL
  PROVE  /\ c.state = "RUNNING"
         /\ \E i \in DOMAIN c.q : c.cur = c.q[i]
<1>1. c \in Channel /\ c.q \in Seq(Buf) BY DEF Good, Channel
<1>2. c.state = "RUNNING" BY <1>1, StateCases DEF Good, Idle
<1>3. CASE One(c, p)
  <2>1. c.cur = c.q[1] /\ 1 \in DOMAIN c.q BY <1>1, <1>3 DEF One
  <2>2. QED BY <1>2, <2>1
<1>4. CASE Two(c, p)
  <2>1. (c.cur = c.q[1] \/ c.cur = c.q[2]) /\ 1 \in DOMAIN c.q /\ 2 \in DOMAIN c.q
    BY <1>1, <1>4 DEF Two
  <2>2. QED BY <1>2, <2>1
<1>5. QED BY <1>2, <1>3, <1>4 DEF Good

(* An entry point that begins at most the head of the chain keeps the count *)
(* of the buffers that were there.                                          *)
LEMMA BeginsCounts ==
  ASSUME DmaInv, ~irqpend, ~needflush, NEW Q, TakeUp(Q), Begins(chan, chan'),
         \A i \in DOMAIN chan.q : chan.q[i] \notin Q
  PROVE  \A i \in DOMAIN chan.q :
           taken'[chan.q[i]] = IF chan'.cur = chan.q[i] THEN 1 ELSE 0
<1>n. NULL \notin Buf BY DmaAssumption
<1>1. TypeOK /\ chan.q \in Seq(Buf) /\ Distinct(chan.q)
  BY DEF DmaInv, TypeOK, Channel, Good
<1>2. SUFFICES ASSUME NEW i \in DOMAIN chan.q
               PROVE  taken'[chan.q[i]] = IF chan'.cur = chan.q[i] THEN 1 ELSE 0
  OBVIOUS
<1> DEFINE x == chan.q[i]
<1>3. x \in Buf /\ x \notin Q BY <1>1
<1>4. taken[x] = IF chan.cur = x THEN 1 ELSE 0 BY DEF DmaInv, Books, Counted
<1> HIDE DEF x
<1>5. chan'.cur = x /\ chan.cur # x => taken'[x] = 1
  BY <1>1, <1>3, <1>4, TakenAfter
<1>6. chan'.cur = x /\ chan.cur = x => taken'[x] = 1
  BY <1>1, <1>3, <1>4, TakenAfter
<1>7. chan'.cur # x => chan.cur # x BY <1>n, <1>3 DEF Begins
<1>8. chan'.cur # x => taken'[x] = 0
  BY <1>1, <1>3, <1>4, <1>7, TakenAfter
<1>9. taken'[x] = IF chan'.cur = x THEN 1 ELSE 0 BY <1>5, <1>6, <1>8
<1>10. QED BY <1>9 DEF x

(* It leaves the reported buffers alone. *)
LEMMA BeginsReports ==
  ASSUME DmaInv, NEW Q, TakeUp(Q), Begins(chan, chan'), NEW x \in Buf,
         x \notin Q, status[x] = "ok"
  PROVE  taken'[x] = 1 /\ x \in done'
<1>1. TypeOK /\ chan.q \in Seq(Buf) BY DEF DmaInv, TypeOK, Channel
<1>2. taken[x] = 1 /\ x \in done BY DEF DmaInv, ReportedOnceMoved
<1>3. \A i \in DOMAIN chan.q : chan.q[i] # x BY DEF DmaInv, Books
<1>4. chan'.cur # x \/ chan.cur = x BY <1>1, <1>3 DEF Begins
<1>5. taken'[x] = 1 BY <1>1, <1>2, <1>4, TakenAfter
<1>6. done' = done \ Q BY <1>1, TakenType
<1>7. QED BY <1>2, <1>5, <1>6

(* A good channel and typed books are a typed state. *)
LEMMA TypeAfter ==
  ASSUME Good(chan, irqpend, needflush)', irqpend' \in BOOLEAN, raced' \in BOOLEAN,
         needflush' \in BOOLEAN, status' \in [Buf -> {"none", "queued", "ok", "abort"}],
         taken' \in [Buf -> 0..2], done' \subseteq Buf
  PROVE  TypeOK'
<1>1. chan' \in Channel BY DEF Good
<1>2. chan'.on => chan'.init \in Buf BY GoodOn, Zenon
<1>3. QED BY <1>1, <1>2 DEF TypeOK

(* An entry point without a race leaves the interrupt as it is. *)
LEMMA CalmEntry ==
  ASSUME DmaInv, EntryPoint, ~irqpend
  PROVE  /\ irqpend = FALSE /\ irqpend' = FALSE /\ raced' = FALSE
         /\ Good(chan, FALSE, needflush)
<1>1. irqpend \in BOOLEAN BY DEF DmaInv, TypeOK
<1>3. irqpend = FALSE BY <1>1
<1>4. irqpend' = FALSE /\ raced' = FALSE BY <1>3 DEF EntryPoint
<1>5. Good(chan, irqpend, needflush) BY DEF DmaInv
<1>6. QED BY <1>3, <1>4, <1>5, Zenon

(* Enqueue keeps the invariant. *)
LEMMA EnqueueStep ==
  ASSUME Prompt, DmaInv, ~irqpend, NEW b \in Buf, Enqueue(b)
  PROVE  DmaInv'
<1>1. EntryPoint /\ b \in Unused /\ ~needflush /\ TakeUp({b}) /\ needflush' = needflush
      /\ status' = [status EXCEPT ![b] = "queued"]
  BY DEF Enqueue
<1>2. /\ irqpend = FALSE /\ irqpend' = FALSE /\ raced' = FALSE
      /\ Good(chan, FALSE, needflush)
  BY <1>1, CalmEntry
<1>3. needflush = FALSE /\ needflush' = FALSE BY <1>1 DEF DmaInv, TypeOK
<1>4. chan' = DmaEnqueue(chan, b, FALSE) BY PromptChoice DEF Enqueue
<1>5. (\A i \in DOMAIN chan.q : chan.q[i] # b) /\ b # chan.cur BY <1>1, UnusedFresh
<1>6. Good(chan, FALSE, FALSE) BY <1>2, <1>3, Zenon
<1>7. /\ Good(chan', FALSE, FALSE) /\ chan'.q = Append(chan.q, b)
      /\ Begins(chan, chan')
  <2>1. LET d == DmaEnqueue(chan, b, FALSE) IN
        Good(d, FALSE, FALSE) /\ d.q = Append(chan.q, b) /\ Begins(chan, d)
    BY <1>5, <1>6, GoodEnqueue
  <2>2. QED BY <1>4, <2>1, Zenon
<1>8. Good(chan, irqpend, needflush)' BY <1>2, <1>3, <1>7, Zenon
<1>t. TypeOK BY DEF DmaInv
<1>9. status' \in [Buf -> {"none", "queued", "ok", "abort"}] BY <1>1, <1>t DEF TypeOK
<1>10. TypeOK'
  BY <1>1, <1>2, <1>3, <1>8, <1>9, <1>t, TakenType, TypeAfter
<1>11. chan.q \in Seq(Buf) /\ Len(chan.q) \in Nat BY <1>t DEF TypeOK, Channel
<1>12. /\ Len(chan'.q) = Len(chan.q) + 1 /\ chan'.q \in Seq(Buf)
       /\ \A i \in 1..Len(chan.q) : chan'.q[i] = chan.q[i]
       /\ chan'.q[Len(chan.q) + 1] = b
  BY <1>7, <1>11, AppendProperties
<1>13. \A i \in DOMAIN chan'.q : status'[chan'.q[i]] = "queued"
  <2>1. SUFFICES ASSUME NEW i \in DOMAIN chan'.q PROVE status'[chan'.q[i]] = "queued"
    OBVIOUS
  <2>2. CASE i \in 1..Len(chan.q)
    <3>1. chan'.q[i] = chan.q[i] /\ chan.q[i] \in Buf /\ chan.q[i] # b
      BY <1>5, <1>11, <1>12, <2>2
    <3>2. status[chan.q[i]] = "queued" BY <1>11, <2>2 DEF DmaInv, Books
    <3>3. QED BY <1>1, <1>t, <3>1, <3>2 DEF TypeOK
  <2>3. CASE i = Len(chan.q) + 1
    BY <1>1, <1>12, <1>t, <2>3 DEF TypeOK
  <2>4. QED BY <1>11, <1>12, <2>2, <2>3
<1>14. Counted(chan', taken', FALSE)
  <2>1. \A i \in DOMAIN chan.q : taken'[chan.q[i]] = IF chan'.cur = chan.q[i] THEN 1 ELSE 0
    BY <1>1, <1>2, <1>5, <1>7, BeginsCounts
  <2>2. chan'.cur # b BY <1>5, <1>7, <1>11 DEF Begins
  <2>3. taken'[b] = 0 BY <1>1, <1>t, TakenAfter
  <2>4. SUFFICES ASSUME NEW i \in DOMAIN chan'.q
                 PROVE  taken'[chan'.q[i]] = IF chan'.cur = chan'.q[i] THEN 1 ELSE 0
    BY DEF Counted
  <2>5. CASE i \in 1..Len(chan.q) BY <1>11, <1>12, <2>1, <2>5
  <2>6. CASE i = Len(chan.q) + 1 BY <1>12, <2>2, <2>3, <2>6
  <2>7. QED BY <1>11, <1>12, <2>5, <2>6
<1>15. Books' BY <1>2, <1>13, <1>14 DEF Books
<1>16. ReportedOnceMoved'
  <2>1. SUFFICES ASSUME NEW x \in Buf, status'[x] = "ok" PROVE taken'[x] = 1 /\ x \in done'
    BY DEF ReportedOnceMoved
  <2>2. x # b /\ status[x] = "ok" BY <1>1, <1>t, <2>1 DEF TypeOK
  <2>3. QED BY <1>1, <1>7, <2>2, BeginsReports
<1>17. QED BY <1>8, <1>10, <1>15, <1>16 DEF DmaInv

(* START keeps the invariant. *)
LEMMA StartStep ==
  ASSUME Prompt, DmaInv, ~irqpend, Start
  PROVE  DmaInv'
<1>1. EntryPoint /\ ~needflush /\ TakeUp({}) /\ needflush' = needflush /\ status' = status
  BY DEF Start
<1>2. /\ irqpend = FALSE /\ irqpend' = FALSE /\ raced' = FALSE
      /\ Good(chan, FALSE, needflush)
  BY <1>1, CalmEntry
<1>3. needflush = FALSE /\ needflush' = FALSE BY <1>1 DEF DmaInv, TypeOK
<1>4. chan' = DmaStart(chan, FALSE) BY PromptChoice DEF Start
<1>5. Good(chan, FALSE, FALSE) BY <1>2, <1>3, Zenon
<1>6. Good(chan', FALSE, FALSE) /\ chan'.q = chan.q /\ Begins(chan, chan')
  <2>1. LET d == DmaStart(chan, FALSE) IN
        Good(d, FALSE, FALSE) /\ d.q = chan.q /\ Begins(chan, d)
    BY <1>5, GoodStart
  <2>2. QED BY <1>4, <2>1, Zenon
<1>7. Good(chan, irqpend, needflush)' BY <1>2, <1>3, <1>6, Zenon
<1>t. TypeOK BY DEF DmaInv
<1>8. status' \in [Buf -> {"none", "queued", "ok", "abort"}] BY <1>1, <1>t DEF TypeOK
<1>9. TypeOK'
  BY <1>1, <1>2, <1>3, <1>7, <1>8, <1>t, TakenType, TypeAfter
<1>10. \A i \in DOMAIN chan.q : taken'[chan.q[i]] = IF chan'.cur = chan.q[i] THEN 1 ELSE 0
  BY <1>1, <1>2, <1>6, BeginsCounts
<1>11. Counted(chan', taken', FALSE) BY <1>6, <1>10 DEF Counted
<1>12. Books' BY <1>1, <1>2, <1>6, <1>11 DEF DmaInv, Books
<1>13. ReportedOnceMoved'
  <2>1. SUFFICES ASSUME NEW x \in Buf, status'[x] = "ok" PROVE taken'[x] = 1 /\ x \in done'
    BY DEF ReportedOnceMoved
  <2>2. QED BY <1>1, <1>6, <2>1, BeginsReports
<1>14. QED BY <1>7, <1>9, <1>12, <1>13 DEF DmaInv

(* STARTED keeps the invariant. *)
LEMMA StartedStep ==
  ASSUME Prompt, DmaInv, ~irqpend, Started
  PROVE  DmaInv'
<1>1. EntryPoint /\ TakeUp({}) /\ needflush' = needflush /\ status' = status
  BY DEF Started
<1>2. /\ irqpend = FALSE /\ irqpend' = FALSE /\ raced' = FALSE
      /\ Good(chan, FALSE, needflush)
  BY <1>1, CalmEntry
<1>3. LoadSecond(chan, FALSE) = chan BY <1>2, GoodStarted
<1>4. chan' = chan BY <1>3, PromptChoice DEF Started
<1>5. Good(chan, irqpend, needflush)' BY <1>1, <1>2, <1>4, Zenon
<1>t. TypeOK BY DEF DmaInv
<1>6. TypeOK'
  BY <1>1, <1>2, <1>5, <1>t, TakenType, TypeAfter DEF TypeOK
<1>7. \A x \in Buf : taken'[x] = taken[x]
  <2>1. SUFFICES ASSUME NEW x \in Buf PROVE taken'[x] = taken[x] OBVIOUS
  <2>2. chan'.cur # x \/ chan.cur = x BY <1>4
  <2>3. QED BY <1>1, <1>t, <2>2, TakenAfter
<1>8. \A i \in DOMAIN chan.q : chan.q[i] \in Buf BY <1>t DEF TypeOK, Channel
<1>9. ~needflush' => Counted(chan', taken', irqpend')
  BY <1>1, <1>2, <1>4, <1>7, <1>8 DEF DmaInv, Books, Counted
<1>10. Books' BY <1>1, <1>2, <1>4, <1>9 DEF DmaInv, Books
<1>11. done' = done BY <1>1, <1>t, TakenType
<1>12. ReportedOnceMoved' BY <1>1, <1>7, <1>11 DEF DmaInv, ReportedOnceMoved
<1>13. QED BY <1>5, <1>6, <1>10, <1>12 DEF DmaInv

(* STOP keeps the invariant. *)
LEMMA StopStep ==
  ASSUME Prompt, DmaInv, ~irqpend, Stop
  PROVE  DmaInv'
<1>1. /\ EntryPoint /\ chan' = DoStop(chan) /\ needflush' = TRUE
      /\ status' = status /\ taken' = taken /\ done' = done
  BY DEF Stop
<1>2. irqpend' = FALSE /\ raced' = FALSE BY <1>1, CalmEntry
<1>t. TypeOK /\ chan \in Channel /\ Distinct(chan.q) BY DEF DmaInv, TypeOK, Good
<1>3. Good(DoStop(chan), FALSE, TRUE) /\ DoStop(chan).q = chan.q BY <1>t, GoodStop
<1>4. Good(chan, irqpend, needflush)' /\ chan'.q = chan.q BY <1>1, <1>2, <1>3, Zenon
<1>5. TypeOK' BY <1>1, <1>2, <1>4, <1>t, TypeAfter DEF TypeOK
<1>6. Books' BY <1>1, <1>2, <1>4 DEF DmaInv, Books
<1>7. ReportedOnceMoved' BY <1>1 DEF DmaInv, ReportedOnceMoved
<1>8. QED BY <1>4, <1>5, <1>6, <1>7 DEF DmaInv

(* FLUSH keeps the invariant. *)
LEMMA FlushStep ==
  ASSUME Prompt, DmaInv, ~irqpend, Flush
  PROVE  DmaInv'
<1>1. /\ EntryPoint /\ chan' = DmaFlush(chan) /\ needflush' = FALSE
      /\ status' = [b \in Buf |-> IF b \in ToSet(chan.q) THEN "abort" ELSE status[b]]
      /\ taken' = taken /\ done' = done
  BY DEF Flush
<1>2. irqpend' = FALSE /\ raced' = FALSE /\ Good(chan, FALSE, needflush) BY <1>1, CalmEntry
<1>3. chan.state = "IDLE" \/ FlushHitsSelf BY DEF Flush, Prompt, FlushStops
<1>4. LET d == DmaFlush(chan) IN Good(d, FALSE, FALSE) /\ d.q = <<>> /\ d.cur = NULL
  BY <1>2, <1>3, GoodFlush DEF Good
<1>5. Good(chan', FALSE, FALSE) /\ chan'.q = <<>> BY <1>1, <1>4, Zenon
<1>6. Good(chan, irqpend, needflush)' BY <1>1, <1>2, <1>5, Zenon
<1>t. TypeOK BY DEF DmaInv
<1>7. status' \in [Buf -> {"none", "queued", "ok", "abort"}] BY <1>1, <1>t DEF TypeOK
<1>8. TypeOK' BY <1>1, <1>2, <1>6, <1>7, <1>t, TypeAfter DEF TypeOK
<1>9. DOMAIN chan'.q = {} BY <1>5
<1>10. Books' BY <1>2, <1>9 DEF Books, Counted
<1>11. ReportedOnceMoved'
  <2>1. SUFFICES ASSUME NEW x \in Buf, status'[x] = "ok" PROVE taken'[x] = 1 /\ x \in done'
    BY DEF ReportedOnceMoved
  <2>2. status[x] = "ok" BY <1>1, <2>1
  <2>3. QED BY <1>1, <2>2 DEF DmaInv, ReportedOnceMoved
<1>12. QED BY <1>6, <1>8, <1>10, <1>11 DEF DmaInv

(* Suspend and resume keep the invariant. *)
LEMMA SuspendStep ==
  ASSUME DmaInv, SuspendResume
  PROVE  DmaInv'
<1> DEFINE s == IF chan.on THEN DoStop(chan) ELSE chan
           d == [s EXCEPT !.init = NULL, !.norel = FALSE]
<1>1. /\ ~irqpend /\ chan' = d /\ needflush' = (needflush \/ chan.on)
      /\ irqpend' = irqpend /\ raced' = raced
      /\ status' = status /\ taken' = taken /\ done' = done
  BY DEF SuspendResume
<1>t. TypeOK BY DEF DmaInv
<1>2. irqpend = FALSE /\ irqpend' = FALSE /\ needflush \in BOOLEAN
  BY <1>1, <1>t DEF TypeOK
<1>3. Good(chan, irqpend, needflush) BY DEF DmaInv
<1>4. Good(chan, FALSE, needflush) BY <1>2, <1>3, Zenon
<1>5. /\ Good(d, FALSE, needflush \/ chan.on) /\ d.q = chan.q /\ d.cur = NULL
      /\ d.state = "IDLE"
  BY <1>2, <1>4, GoodSuspend
<1> HIDE DEF d
<1>6. Good(chan, irqpend, needflush)' BY <1>1, <1>2, <1>5, Zenon
<1>7. needflush' \in BOOLEAN BY <1>1, <1>2
<1>8. TypeOK' BY <1>1, <1>2, <1>6, <1>7, <1>t, TypeAfter DEF TypeOK
<1>9. ~needflush' => chan.cur = NULL /\ ~needflush
  <2>1. ~needflush' => ~chan.on /\ ~needflush BY <1>1
  <2>2. ~chan.on => chan.state # "RUNNING" BY <1>4 DEF Good, One, Two
  <2>3. chan \in Channel BY <1>t DEF TypeOK
  <2>4. QED BY <1>4, <2>1, <2>2, <2>3, StateCases DEF Good, Idle
<1>10. ~needflush' => Counted(chan', taken', irqpend')
  BY <1>1, <1>2, <1>5, <1>9 DEF DmaInv, Books, Counted
<1>11. Books' BY <1>1, <1>2, <1>5, <1>10 DEF DmaInv, Books
<1>12. ReportedOnceMoved' BY <1>1 DEF DmaInv, ReportedOnceMoved
<1>13. QED BY <1>6, <1>8, <1>11, <1>12 DEF DmaInv

(* Taking up a transfer keeps the invariant. *)
LEMMA HwLoadStep ==
  ASSUME DmaInv, HwLoad
  PROVE  DmaInv'
<1> DEFINE d == [chan EXCEPT !.cur = chan.init]
<1>n. NULL \notin Buf BY DmaAssumption
<1>1. /\ chan.on /\ chan.cur = NULL /\ chan' = d /\ TakeUp({})
      /\ irqpend' = irqpend /\ raced' = raced /\ needflush' = needflush /\ status' = status
  BY DEF HwLoad
<1>t. TypeOK /\ irqpend \in BOOLEAN /\ needflush \in BOOLEAN BY DEF DmaInv, TypeOK
<1>2. Good(chan, irqpend, needflush) BY DEF DmaInv
<1>3. /\ Good(d, irqpend, needflush) /\ chan.state = "RUNNING" /\ d.q = chan.q
      /\ ~irqpend => d.cur = chan.q[1]
      /\ irqpend => Len(chan.q) >= 2 /\ d.cur = chan.q[2]
  BY <1>1, <1>2, <1>t, GoodHwLoad
<1> HIDE DEF d
<1>4. Good(chan, irqpend, needflush)' BY <1>1, <1>3, Zenon
<1>5. TypeOK' BY <1>1, <1>4, <1>t, TakenType, TypeAfter DEF TypeOK
<1>6. chan.q \in Seq(Buf) /\ Distinct(chan.q) BY <1>2, <1>t DEF TypeOK, Channel, Good
<1>7. ~needflush BY <1>2, <1>3 DEF Good
<1>8. \A i \in DOMAIN chan.q : taken[chan.q[i]] = IF i = 1 /\ irqpend THEN 1 ELSE 0
  BY <1>n, <1>1, <1>6, <1>7 DEF DmaInv, Books, Counted
<1>9. chan'.q = chan.q BY <1>1, <1>3
<1>10. Counted(chan', taken', irqpend')
  <2>1. SUFFICES ASSUME NEW i \in DOMAIN chan.q
                 PROVE  taken'[chan.q[i]] =
                          IF chan'.cur = chan.q[i] \/ (i = 1 /\ irqpend) THEN 1 ELSE 0
    BY <1>1, <1>9 DEF Counted
  <2> DEFINE x == chan.q[i]
  <2>2. x \in Buf /\ chan.cur # x BY <1>n, <1>1, <1>6
  <2>3. chan'.cur = x => ~(i = 1 /\ irqpend) BY <1>1, <1>3, <1>6 DEF Distinct
  <2>4. chan'.cur = x => taken[x] = 0 BY <1>8, <2>3
  <2>5. chan'.cur # x => taken'[x] = IF i = 1 /\ irqpend THEN 1 ELSE 0
    <3>1. chan'.cur # x => taken'[x] = taken[x] BY <1>1, <1>t, <2>2, TakenAfter
    <3>2. taken[x] = IF i = 1 /\ irqpend THEN 1 ELSE 0 BY <1>8
    <3>3. QED BY <3>1, <3>2
  <2> HIDE DEF x
  <2>6. chan'.cur = x => taken'[x] = 1 BY <1>1, <1>t, <2>2, <2>4, TakenAfter
  <2>7. taken'[x] = IF chan'.cur = x \/ (i = 1 /\ irqpend) THEN 1 ELSE 0
    BY <2>5, <2>6
  <2>8. QED BY <2>7 DEF x
<1>11. done' = done BY <1>1, <1>t, TakenType
<1>12. Books' BY <1>1, <1>9, <1>10, <1>11 DEF DmaInv, Books
<1>13. ReportedOnceMoved'
  <2>1. SUFFICES ASSUME NEW x \in Buf, status'[x] = "ok" PROVE taken'[x] = 1 /\ x \in done'
    BY DEF ReportedOnceMoved
  <2>2. taken[x] = 1 /\ x \in done BY <1>1, <2>1 DEF DmaInv, ReportedOnceMoved
  <2>3. \A i \in DOMAIN chan.q : chan.q[i] # x BY <1>1, <2>1 DEF DmaInv, Books
  <2>4. 1 \in DOMAIN chan.q BY <1>2, <1>3, <1>6 DEF Good, One, Two
  <2>5. chan'.cur # x BY <1>1, <1>3, <1>6, <1>t, <2>3, <2>4
  <2>6. QED BY <1>1, <1>11, <1>t, <2>2, <2>5, TakenAfter
<1>14. QED BY <1>4, <1>5, <1>12, <1>13 DEF DmaInv

(* The end of a transfer keeps the invariant. *)
LEMMA HwDoneStep ==
  ASSUME DmaInv, HwDone
  PROVE  DmaInv'
<1> DEFINE d == [chan EXCEPT !.cur = NULL, !.on = ~chan.norel]
<1>n. NULL \notin Buf BY DmaAssumption
<1>1. /\ chan.on /\ chan.cur # NULL /\ ~irqpend /\ chan' = d /\ irqpend' = TRUE
      /\ done' = done \cup {chan.cur}
      /\ raced' = raced /\ needflush' = needflush /\ status' = status /\ taken' = taken
  BY DEF HwDone
<1>t. TypeOK /\ irqpend = FALSE /\ chan.cur \in Buf BY <1>1 DEF DmaInv, TypeOK, Channel
<1>2. Good(chan, irqpend, needflush) BY DEF DmaInv
<1>g. Good(chan, FALSE, needflush) BY <1>2, <1>t, Zenon
<1>3. /\ Good(d, TRUE, needflush) /\ chan.state = "RUNNING" /\ d.q = chan.q
      /\ Len(chan.q) >= 1 /\ chan.cur = chan.q[1]
  BY <1>1, <1>g, GoodHwDone
<1>4. d.cur = NULL BY <1>t DEF TypeOK, Channel
<1> HIDE DEF d
<1>5. Good(chan, irqpend, needflush)' BY <1>1, <1>3, Zenon
<1>6. TypeOK' BY <1>1, <1>5, <1>t, TypeAfter DEF TypeOK
<1>7. chan.q \in Seq(Buf) /\ Distinct(chan.q) BY <1>2, <1>t DEF TypeOK, Channel, Good
<1>8. ~needflush BY <1>2, <1>3 DEF Good
<1>9. \A i \in DOMAIN chan.q : taken[chan.q[i]] = IF i = 1 THEN 1 ELSE 0
  <2>1. \A i \in DOMAIN chan.q : taken[chan.q[i]] = IF chan.cur = chan.q[i] THEN 1 ELSE 0
    BY <1>8, <1>t DEF DmaInv, Books, Counted
  <2>2. \A i \in DOMAIN chan.q : chan.cur = chan.q[i] <=> i = 1
    BY <1>3, <1>7 DEF Distinct
  <2>3. QED BY <2>1, <2>2
<1>10. \A i \in DOMAIN chan.q : chan'.cur # chan.q[i] BY <1>n, <1>1, <1>4, <1>7
<1>11. Counted(chan', taken', TRUE) BY <1>1, <1>3, <1>9, <1>10 DEF Counted
<1>12. Books' BY <1>1, <1>3, <1>11 DEF DmaInv, Books
<1>13. ReportedOnceMoved' BY <1>1 DEF DmaInv, ReportedOnceMoved
<1>14. QED BY <1>5, <1>6, <1>12, <1>13 DEF DmaInv

(* The interrupt keeps the invariant: the head was moved and is reported, the next is begun. *)
LEMMA IrqStep ==
  ASSUME Prompt, DmaInv, Irq
  PROVE  DmaInv'
<1>n. NULL \notin Buf BY DmaAssumption
<1>b. "none" \notin Buf /\ "stop" \notin Buf BY DmaAssumption
<1>t. TypeOK /\ irqpend = TRUE BY DEF DmaInv, TypeOK, Irq
<1>0. Good(chan, irqpend, needflush) BY DEF DmaInv
<1>1. Good(chan, TRUE, needflush) /\ needflush \in BOOLEAN BY <1>0, <1>t DEF TypeOK
<1>2. irqpend' = FALSE /\ raced' = FALSE BY DEF Irq
<1>3. PICK cb \in {"none", "stop"} \cup (IF chan.q = <<>> THEN {} ELSE Refills) :
        /\ chan' = Reload(Callback(Popped(chan), cb, FALSE), FALSE)
        /\ status' = [b \in Buf |->
             CASE chan.q # <<>> /\ b = Head(chan.q) -> "ok"
               [] b = cb -> "queued"
               [] OTHER -> status[b]]
        /\ TakeUp({cb} \cap Buf)
        /\ needflush' = (needflush \/ cb = "stop")
  BY PromptChoice DEF Irq
<1>4. /\ chan.q \in Seq(Buf) /\ Len(chan.q) \in Nat /\ Distinct(chan.q)
      /\ chan.cur \in Buf \cup {NULL}
  BY <1>0, <1>t DEF TypeOK, Channel, Good
<1>5. cb \in Buf => /\ Len(chan.q) > 1
                    /\ \A i \in DOMAIN chan.q : chan.q[i] # cb
  BY <1>b, <1>3, PromptChoice, UnusedFresh DEF Refills
<1>6. cb = "none" \/ cb = "stop" \/ cb \in Buf BY <1>3, UnusedFresh DEF Refills
<1> DEFINE d == Reload(Callback(Popped(chan), cb, FALSE), FALSE)
<1>7. /\ chan.q # <<>> /\ chan.state = "RUNNING" /\ ~needflush
      /\ Good(d, FALSE, cb = "stop")
      /\ d.q = IF cb \in Buf THEN Append(Tail(chan.q), cb) ELSE Tail(chan.q)
      /\ d.state = "RUNNING" => Len(chan.q) >= 2 /\ d.cur = chan.q[2]
      /\ d.state = "IDLE" /\ cb # "stop" => d.q = <<>>
      /\ chan.cur = NULL \/ (Len(chan.q) >= 2 /\ chan.cur = chan.q[2])
  BY <1>1, <1>5, <1>6, GoodIrq
<1>8. chan' = d BY <1>3
<1> HIDE DEF d
<1>9. needflush' = (cb = "stop") BY <1>3, <1>7
<1>10. Good(chan, irqpend, needflush)' BY <1>2, <1>7, <1>8, <1>9, Zenon
<1>11. status' \in [Buf -> {"none", "queued", "ok", "abort"}] BY <1>3, <1>t DEF TypeOK
<1>12. needflush' \in BOOLEAN BY <1>9
<1>13. taken' \in [Buf -> 0..2] /\ done' \subseteq Buf /\ done' = done \ ({cb} \cap Buf)
  BY <1>3, <1>t, TakenType
<1>14. TypeOK' BY <1>2, <1>10, <1>11, <1>12, <1>13, TypeAfter
<1>15. /\ Tail(chan.q) \in Seq(Buf) /\ Len(Tail(chan.q)) = Len(chan.q) - 1
       /\ \A i \in 1..Len(chan.q) - 1 : Tail(chan.q)[i] = chan.q[i + 1]
       /\ Head(chan.q) = chan.q[1] /\ Len(chan.q) >= 1
  BY <1>4, <1>7
(* Where a buffer of the new chain comes from. *)
<1>16. ASSUME NEW i \in DOMAIN chan'.q
       PROVE  \/ \E j \in DOMAIN chan.q : j # 1 /\ chan'.q[i] = chan.q[j]
              \/ cb \in Buf /\ chan'.q[i] = cb
  <2>1. CASE cb \in Buf
    <3>1. chan'.q = Append(Tail(chan.q), cb) BY <1>7, <1>8, <2>1
    <3>2. /\ Len(chan'.q) = Len(chan.q) /\ chan'.q \in Seq(Buf)
          /\ \A k \in 1..Len(chan.q) - 1 : chan'.q[k] = Tail(chan.q)[k]
          /\ chan'.q[Len(chan.q)] = cb
      BY <1>4, <1>15, <2>1, <3>1, AppendProperties
    <3>3. CASE i \in 1..Len(chan.q) - 1
      <4>1. i + 1 \in DOMAIN chan.q /\ i + 1 # 1 /\ chan'.q[i] = chan.q[i + 1]
        BY <1>4, <1>15, <3>2, <3>3
      <4>2. QED BY <4>1
    <3>4. CASE i = Len(chan.q) BY <2>1, <3>2, <3>4
    <3>5. i \in 1..Len(chan.q) - 1 \/ i = Len(chan.q) BY <1>4, <1>16, <3>2
    <3>6. QED BY <3>3, <3>4, <3>5
  <2>2. CASE cb \notin Buf
    <3>1. chan'.q = Tail(chan.q) BY <1>7, <1>8, <2>2
    <3>2. i \in 1..Len(chan.q) - 1 BY <1>15, <1>16, <3>1
    <3>3. i + 1 \in DOMAIN chan.q /\ i + 1 # 1 /\ chan'.q[i] = chan.q[i + 1]
      BY <1>4, <1>15, <3>1, <3>2
    <3>4. QED BY <3>3
  <2>3. QED BY <2>1, <2>2
<1>17. \A i \in DOMAIN chan'.q : status'[chan'.q[i]] = "queued"
  <2>1. SUFFICES ASSUME NEW i \in DOMAIN chan'.q PROVE status'[chan'.q[i]] = "queued"
    OBVIOUS
  <2>2. CASE cb \in Buf /\ chan'.q[i] = cb
    <3>1. cb # Head(chan.q) BY <1>4, <1>5, <1>15, <2>2
    <3>2. QED BY <1>3, <2>2, <3>1
  <2>3. ASSUME NEW j \in DOMAIN chan.q, j # 1, chan'.q[i] = chan.q[j]
        PROVE  status'[chan'.q[i]] = "queued"
    <3>1. chan.q[j] \in Buf /\ chan.q[j] # Head(chan.q) BY <1>4, <1>15, <2>3 DEF Distinct
    <3>2. chan.q[j] # cb BY <1>5, <3>1
    <3>3. status[chan.q[j]] = "queued" BY DEF DmaInv, Books
    <3>4. status'[chan.q[j]] = "queued" BY <1>3, <3>1, <3>2, <3>3
    <3>5. QED BY <2>3, <3>4
  <2>4. QED BY <1>16, <2>2, <2>3
(* The count of the buffers behind the head, before the interrupt. *)
<1>18. \A j \in DOMAIN chan.q : j # 1 => taken[chan.q[j]] = IF chan.cur = chan.q[j] THEN 1 ELSE 0
  BY <1>4, <1>7 DEF DmaInv, Books, Counted
<1>19. ~needflush' => Counted(chan', taken', FALSE)
  <2>1. SUFFICES ASSUME ~needflush', NEW i \in DOMAIN chan'.q
                 PROVE  taken'[chan'.q[i]] = IF chan'.cur = chan'.q[i] THEN 1 ELSE 0
    BY DEF Counted
  <2>2. cb # "stop" BY <1>9, <2>1
  <2>3. chan' \in Channel /\ chan'.q # <<>> BY <1>14, <2>1 DEF TypeOK
  <2>4. Len(chan.q) >= 2 /\ chan'.cur = chan.q[2]
    BY <1>7, <1>8, <2>2, <2>3, StateCases
  <2>5. CASE cb \in Buf /\ chan'.q[i] = cb
    <3>1. chan'.cur # cb BY <1>4, <1>5, <2>4, <2>5
    <3>2. taken'[cb] = 0 BY <1>3, <1>t, <2>5, TakenAfter
    <3>3. QED BY <2>5, <3>1, <3>2
  <2>6. ASSUME NEW j \in DOMAIN chan.q, j # 1, chan'.q[i] = chan.q[j]
        PROVE  taken'[chan'.q[i]] = IF chan'.cur = chan'.q[i] THEN 1 ELSE 0
    <3> DEFINE x == chan.q[j]
    <3>1. x \in Buf /\ x # cb BY <1>4, <1>5
    <3>2. taken[x] = IF chan.cur = x THEN 1 ELSE 0 BY <1>18, <2>6
    <3>3. chan.cur = NULL \/ chan.cur = chan'.cur BY <1>7, <2>4
    <3> HIDE DEF x
    <3>4. x \notin ({cb} \cap Buf) BY <3>1
    <3>5. chan'.cur = x /\ chan.cur # x => taken'[x] = 1
      BY <1>3, <1>t, <3>1, <3>2, <3>4, TakenAfter
    <3>6. chan'.cur = x /\ chan.cur = x => taken'[x] = 1
      BY <1>3, <1>t, <3>1, <3>2, <3>4, TakenAfter
    <3>7. chan'.cur # x => chan.cur # x BY <1>n, <3>1, <3>3
    <3>8. chan'.cur # x => taken'[x] = 0
      BY <1>3, <1>t, <3>1, <3>2, <3>4, <3>7, TakenAfter
    <3>9. taken'[x] = IF chan'.cur = x THEN 1 ELSE 0 BY <3>5, <3>6, <3>8
    <3>10. QED BY <2>6, <3>9 DEF x
  <2>7. QED BY <1>16, <2>5, <2>6
<1>20. Books' BY <1>2, <1>17, <1>19 DEF Books
<1>21. ReportedOnceMoved'
  <2>1. SUFFICES ASSUME NEW x \in Buf, status'[x] = "ok" PROVE taken'[x] = 1 /\ x \in done'
    BY DEF ReportedOnceMoved
  <2>2. 1 \in DOMAIN chan.q BY <1>4, <1>15
  <2>3. x # cb
    <3>1. cb \in Buf => cb # Head(chan.q) BY <1>5, <1>15, <2>2
    <3>2. QED BY <1>3, <2>1, <3>1
  <2>4. taken[x] = 1 /\ x \in done /\ \A j \in DOMAIN chan.q : j # 1 => chan.q[j] # x
    <3>1. CASE x = Head(chan.q)
      <4>1. taken[chan.q[1]] = 1 BY <1>7, <1>t, <2>2 DEF DmaInv, Books, Counted
      <4>2. chan.q[1] \in done BY <1>t DEF DmaInv, Books
      <4>3. \A j \in DOMAIN chan.q : j # 1 => chan.q[j] # chan.q[1]
        BY <1>4, <2>2 DEF Distinct
      <4>4. QED BY <1>15, <3>1, <4>1, <4>2, <4>3
    <3>2. CASE x # Head(chan.q)
      <4>1. status[x] = "ok" BY <1>3, <2>1, <2>3, <3>2
      <4>2. taken[x] = 1 /\ x \in done BY <4>1 DEF DmaInv, ReportedOnceMoved
      <4>3. \A j \in DOMAIN chan.q : chan.q[j] # x BY <4>1 DEF DmaInv, Books
      <4>4. QED BY <4>2, <4>3
    <3>3. QED BY <3>1, <3>2
  <2>5. chan'.cur # x
    <3>1. chan' \in Channel BY <1>14 DEF TypeOK
    <3>2. CASE chan'.state = "RUNNING"
      <4>1. chan'.cur = chan.q[2] /\ 2 \in DOMAIN chan.q BY <1>4, <1>7, <1>8, <3>2
      <4>2. QED BY <2>4, <4>1
    <3>3. CASE chan'.state = "IDLE"
      <4>1. chan'.cur = NULL BY <1>10, <3>3 DEF Good, Idle
      <4>2. QED BY <1>n, <4>1
    <3>4. QED BY <3>1, <3>2, <3>3, StateCases
  <2>6. x \notin ({cb} \cap Buf) BY <2>3
  <2>7. QED BY <1>3, <1>13, <1>t, <2>4, <2>5, <2>6, TakenAfter
<1>22. QED BY <1>10, <1>14, <1>20, <1>21 DEF DmaInv

(* The interrupt whose callback stops and refills keeps the invariant. *)
LEMMA StopRefillStep ==
  ASSUME Prompt, DmaInv, NEW b \in Buf, IrqStopRefill(b)
  PROVE  DmaInv'
<1>n. NULL \notin Buf BY DmaAssumption
<1>t. TypeOK /\ irqpend = TRUE BY DEF DmaInv, TypeOK, IrqStopRefill
<1>0. Good(chan, irqpend, needflush) BY DEF DmaInv
<1>1. Good(chan, TRUE, needflush) /\ needflush \in BOOLEAN BY <1>0, <1>t DEF TypeOK
<1>2. /\ irqpend' = FALSE /\ raced' = FALSE /\ needflush' = TRUE
      /\ status' = [status EXCEPT ![Head(chan.q)] = "ok", ![b] = "queued"]
      /\ TakeUp({b}) /\ ~AutoStart
  BY DEF IrqStopRefill
<1>4. chan.q \in Seq(Buf) /\ Len(chan.q) \in Nat /\ Distinct(chan.q)
  BY <1>0, <1>t DEF TypeOK, Channel, Good
<1>5. Len(chan.q) > 1 /\ \A i \in DOMAIN chan.q : chan.q[i] # b
  BY PromptChoice, UnusedFresh DEF IrqStopRefill, Refills
<1> DEFINE d == Reload(DmaEnqueue(DoStop(Popped(chan)), b, FALSE), FALSE)
<1>7. /\ chan.q # <<>> /\ ~needflush /\ Good(d, FALSE, TRUE)
      /\ d.q = Append(Tail(chan.q), b) /\ d.cur = NULL
  BY <1>1, <1>2, <1>5, GoodStopRefill
<1>8. chan' = d BY DEF IrqStopRefill
<1> HIDE DEF d
<1>10. Good(chan, irqpend, needflush)' BY <1>2, <1>7, <1>8, Zenon
<1>11. status' \in [Buf -> {"none", "queued", "ok", "abort"}] BY <1>2, <1>t DEF TypeOK
<1>13. taken' \in [Buf -> 0..2] /\ done' \subseteq Buf /\ done' = done \ {b}
  BY <1>2, <1>t, TakenType
<1>14. TypeOK' BY <1>2, <1>10, <1>11, <1>13, TypeAfter
<1>15. /\ Tail(chan.q) \in Seq(Buf) /\ Len(Tail(chan.q)) = Len(chan.q) - 1
       /\ \A i \in 1..Len(chan.q) - 1 : Tail(chan.q)[i] = chan.q[i + 1]
       /\ Head(chan.q) = chan.q[1] /\ 1 \in DOMAIN chan.q
  BY <1>4, <1>5, <1>7
<1>16. /\ Len(chan'.q) = Len(chan.q) /\ chan'.q \in Seq(Buf)
       /\ \A k \in 1..Len(chan.q) - 1 : chan'.q[k] = Tail(chan.q)[k]
       /\ chan'.q[Len(chan.q)] = b
  <2>1. chan'.q = Append(Tail(chan.q), b) BY <1>7, <1>8
  <2>2. QED BY <1>4, <1>15, <2>1, AppendProperties
<1>17. \A i \in DOMAIN chan'.q : status'[chan'.q[i]] = "queued"
  <2>1. SUFFICES ASSUME NEW i \in DOMAIN chan'.q PROVE status'[chan'.q[i]] = "queued"
    OBVIOUS
  <2>2. CASE i = Len(chan.q) BY <1>2, <1>16, <1>t, <2>2 DEF TypeOK
  <2>3. CASE i \in 1..Len(chan.q) - 1
    <3>1. i + 1 \in DOMAIN chan.q /\ i + 1 # 1 /\ chan'.q[i] = chan.q[i + 1]
      BY <1>4, <1>15, <1>16, <2>3
    <3>2. chan.q[i + 1] \in Buf /\ chan.q[i + 1] # chan.q[1] BY <1>4, <1>15, <3>1 DEF Distinct
    <3>3. status[chan.q[i + 1]] = "queued" BY <3>1 DEF DmaInv, Books
    <3>4. chan.q[i + 1] # b BY <1>5, <3>1
    <3>5. QED BY <1>2, <1>15, <1>t, <3>1, <3>2, <3>3, <3>4 DEF TypeOK
  <2>4. QED BY <1>4, <1>16, <2>2, <2>3
<1>20. Books' BY <1>2, <1>17 DEF Books
<1>21. ReportedOnceMoved'
  <2>1. SUFFICES ASSUME NEW x \in Buf, status'[x] = "ok" PROVE taken'[x] = 1 /\ x \in done'
    BY DEF ReportedOnceMoved
  <2>2. x # b BY <1>2, <1>t, <2>1 DEF TypeOK
  <2>3. taken[x] = 1 /\ x \in done
    <3>1. CASE x = chan.q[1]
      <4>1. taken[chan.q[1]] = 1 BY <1>7, <1>15, <1>t DEF DmaInv, Books, Counted
      <4>2. QED BY <1>t, <3>1, <4>1 DEF DmaInv, Books
    <3>2. CASE x # chan.q[1]
      <4>1. status[x] = "ok" BY <1>2, <1>15, <1>t, <2>1, <2>2, <3>2 DEF TypeOK
      <4>2. QED BY <4>1 DEF DmaInv, ReportedOnceMoved
    <3>3. QED BY <3>1, <3>2
  <2>4. chan'.cur # x BY <1>n, <1>7, <1>8
  <2>5. QED BY <1>2, <1>13, <1>t, <2>2, <2>3, <2>4, TakenAfter
<1>22. QED BY <1>10, <1>14, <1>20, <1>21 DEF DmaInv

-----------------------------------------------------------------------------
(* The theorems. *)

(* A channel starts stopped and empty. *)
LEMMA DmaInitially == Init => DmaInv
<1> SUFFICES ASSUME Init PROVE DmaInv OBVIOUS
<1>2. <<>> \in Seq(Buf) OBVIOUS
<1>3. TypeOK
  <2>1. chan \in Channel BY <1>2 DEF Init, Channel, LoadState
  <2>2. ~chan.on BY DEF Init
  <2>3. irqpend \in BOOLEAN /\ raced \in BOOLEAN /\ needflush \in BOOLEAN BY DEF Init
  <2>4. status \in [Buf -> {"none", "queued", "ok", "abort"}] BY DEF Init
  <2>5. taken \in [Buf -> 0..2] BY DEF Init
  <2>6. done \subseteq Buf BY DEF Init
  <2>7. QED BY <2>1, <2>2, <2>3, <2>4, <2>5, <2>6 DEF TypeOK
<1>4. chan.q = <<>> /\ DOMAIN chan.q = {} BY DEF Init
<1>5. Good(chan, irqpend, needflush)
  <2>1. chan \in Channel BY <1>3 DEF TypeOK
  <2>2. Distinct(chan.q) BY <1>4 DEF Distinct
  <2>3. Idle(chan) /\ Ready(chan) BY DEF Init, Idle, Ready
  <2>4. QED BY <2>1, <2>2, <2>3 DEF Init, Good
<1>6. Books BY <1>4 DEF Init, Books, Counted
<1>7. ReportedOnceMoved BY DEF Init, ReportedOnceMoved
<1>8. QED BY <1>3, <1>5, <1>6, <1>7 DEF DmaInv

(* A stuttering step keeps the invariant. *)
LEMMA DmaStutters ==
  ASSUME DmaInv, UNCHANGED dmavars
  PROVE  DmaInv'
BY DEF DmaInv, dmavars, TypeOK, Good, One, Two, Idle, Ready, Distinct, Books, Counted,
       ReportedOnceMoved

(***************************************************************************)
(* The driver's picture of the channel is right in every state: stopped    *)
(* and off, or with one buffer it will stop after, or with the second in   *)
(* the registers behind the first; and the client's books agree.           *)
(***************************************************************************)
THEOREM DmaInvariant == ASSUME Gentle PROVE Spec => []DmaInv
<1>1. Init => DmaInv BY DmaInitially
<1>2. DmaInv /\ [Next]_dmavars => DmaInv'
  <2>1. SUFFICES ASSUME DmaInv, [Next]_dmavars PROVE DmaInv' OBVIOUS
  <2>0. Prompt /\ (EntryPoint => ~irqpend) BY DEF Gentle, EntryPoint
  <2>2. ASSUME NEW b \in Buf, Enqueue(b) PROVE DmaInv'
    BY <2>0, <2>1, <2>2, EnqueueStep DEF Enqueue
  <2>3. CASE Start BY <2>0, <2>1, <2>3, StartStep DEF Start
  <2>4. CASE Started BY <2>0, <2>1, <2>4, StartedStep DEF Started
  <2>5. CASE Stop BY <2>0, <2>1, <2>5, StopStep DEF Stop
  <2>6. CASE Flush BY <2>0, <2>1, <2>6, FlushStep DEF Flush
  <2>7. CASE SuspendResume BY <2>1, <2>7, SuspendStep
  <2>8. CASE Irq BY <2>0, <2>1, <2>8, IrqStep
  <2>9. CASE HwLoad BY <2>1, <2>9, HwLoadStep
  <2>10. CASE HwDone BY <2>1, <2>10, HwDoneStep
  <2>11. CASE UNCHANGED dmavars BY <2>1, <2>11, DmaStutters
  <2>12. ASSUME NEW b \in Buf, IrqStopRefill(b) PROVE DmaInv'
    BY <2>0, <2>1, <2>12, StopRefillStep
  <2>13. QED
    BY <2>1, <2>2, <2>3, <2>4, <2>5, <2>6, <2>7, <2>8, <2>9, <2>10, <2>11, <2>12 DEF Next
<1>3. QED BY <1>1, <1>2, PTL DEF Spec

(***************************************************************************)
(* Between two interrupts the hardware moves the head of the chain and the *)
(* registers hold what the load state says.                                *)
(***************************************************************************)
THEOREM DmaInStep == ASSUME Gentle PROVE Spec => []InStep
<1>1. Spec => []DmaInv BY DmaInvariant
<1>2. DmaInv => InStep
  <2>1. SUFFICES ASSUME DmaInv, chan.state = "RUNNING", ~irqpend
                 PROVE  /\ chan.q # <<>>
                        /\ chan.cur \in {NULL, Head(chan.q)}
                        /\ chan.init = IF chan.ls = "1LOADED_1RUNNING" THEN chan.q[2]
                                                                      ELSE Head(chan.q)
                        /\ chan.next = Succ(chan.q, chan.init)
    BY DEF InStep
  <2>2. /\ chan \in Channel /\ Distinct(chan.q) /\ chan.q \in Seq(Buf)
        /\ Len(chan.q) \in Nat /\ irqpend = FALSE
    BY <2>1 DEF DmaInv, Good, Channel, TypeOK
  <2>3. One(chan, FALSE) \/ Two(chan, FALSE) BY <2>1, <2>2 DEF DmaInv, Good
  <2>4. CASE One(chan, FALSE)
    <3>1. /\ Len(chan.q) = 1 /\ chan.init = chan.q[1] /\ chan.next = NULL
          /\ chan.cur = NULL \/ chan.cur = chan.q[1]
          /\ chan.ls # "1LOADED_1RUNNING"
      BY <2>4 DEF One
    <3>2. chan.q # <<>> /\ Head(chan.q) = chan.q[1] BY <2>2, <3>1
    <3>3. Succ(chan.q, chan.q[1]) = NULL BY <2>2, <3>1, SuccAt
    <3>4. QED BY <3>1, <3>2, <3>3
  <2>5. CASE Two(chan, FALSE)
    <3>1. /\ Len(chan.q) >= 2 /\ chan.init = chan.q[2] /\ chan.cur = chan.q[1]
          /\ chan.next = IF Len(chan.q) > 2 THEN chan.q[3] ELSE NULL
          /\ chan.ls = "1LOADED_1RUNNING"
      BY <2>5 DEF Two
    <3>2. chan.q # <<>> /\ Head(chan.q) = chan.q[1] BY <2>2, <3>1
    <3>3. Succ(chan.q, chan.q[2]) = IF 2 < Len(chan.q) THEN chan.q[3] ELSE NULL
      BY <2>2, <3>1, SuccAt
    <3>4. chan.next = Succ(chan.q, chan.init) BY <2>2, <3>1, <3>3
    <3>5. QED BY <3>1, <3>2, <3>4
  <2>6. QED BY <2>3, <2>4, <2>5
<1>3. QED BY <1>1, <1>2, PTL

(* A running channel with buffers is on, or its interrupt is coming. *)
THEOREM DmaNoStall == ASSUME Gentle PROVE Spec => []NoStall
<1>1. Spec => []DmaInv BY DmaInvariant
<1>2. DmaInv => NoStall BY DEF DmaInv, Good, One, Two, NoStall, TypeOK
<1>3. QED BY <1>1, <1>2, PTL

-----------------------------------------------------------------------------
(***************************************************************************)
(* The chain, whatever the client and the peripheral do.  The setting is   *)
(* every liberty at once: transfers that end inside an entry point, loads  *)
(* that time out, refills of an empty chain.                               *)
(***************************************************************************)

(* chan->next is NULL or the k-th buffer of the chain or a later one. *)
From(c, k) == c.next = NULL \/ \E i \in DOMAIN c.q : i >= k /\ c.next = c.q[i]

(***************************************************************************)
(* The load state bounds what chan->next may be: what is in the hardware   *)
(* comes before it in the chain.                                           *)
(***************************************************************************)
Linkage(c) ==
  /\ c \in Channel /\ Distinct(c.q) /\ From(c, 1)
  /\ c.on => c.init \in Buf
  /\ c.ls # "NONE" => Len(c.q) >= 1 /\ From(c, 2)
  /\ c.ls = "1LOADED_1RUNNING" => Len(c.q) >= 2 /\ From(c, 3)

(* A stopped channel has nothing loaded and is off. *)
Off(c) == c.state = "IDLE" => c.ls = "NONE" /\ ~c.on

(* Between two calls a running channel has a buffer loaded. *)
Settled(c) == Linkage(c) /\ Off(c) /\ (c.state = "RUNNING" => c.ls # "NONE")

(***************************************************************************)
(* The inductive invariant.  A latched interrupt finds a running channel,  *)
(* unless an entry point came in between; even then the head it will pop   *)
(* is not chan->next.                                                      *)
(***************************************************************************)
Chained ==
  /\ TypeOK /\ Settled(chan)
  /\ irqpend => From(chan, 2) /\ (raced \/ chan.state = "RUNNING")

(* The parts of a chain whose next buffer is known. *)
LEMMA FromAt ==
  ASSUME NEW c \in Channel, NEW k \in Nat, From(c, k), c.next # NULL
  PROVE  \E i \in 1..Len(c.q) : i >= k /\ c.next = c.q[i] /\ c.q[i] \in Buf
BY DEF From, Channel

(* Loading chan->next moves chan->next on. *)
LEMMA LinkageLoad ==
  ASSUME NEW c, Linkage(c), c.next # NULL, CanLoad(c)
  PROVE  LET d == LoadBuffer(c, c.next) IN
         /\ Linkage(d) /\ d.ls # "NONE" /\ d.q = c.q /\ d.state = c.state
         /\ d.init \in Buf
<1> DEFINE k == IF c.ls = "NONE" THEN 1 ELSE 2
           d == LoadBuffer(c, c.next)
<1>1. /\ c \in Channel /\ Distinct(c.q) /\ c.q \in Seq(Buf) /\ Len(c.q) \in Nat
      /\ From(c, 1) /\ (c.ls # "NONE" => From(c, 2)) /\ k \in Nat
  BY DEF Linkage, Channel
<1>2. From(c, k) BY <1>1
<1>3. PICK i \in 1..Len(c.q) : i >= k /\ c.next = c.q[i] /\ c.q[i] \in Buf
  BY <1>1, <1>2, FromAt
<1>4. Succ(c.q, c.next) = IF i < Len(c.q) THEN c.q[i + 1] ELSE NULL BY <1>1, <1>3, SuccAt
<1>5. Succ(c.q, c.next) \in Buf \cup {NULL} BY <1>1, <1>4
<1>6. d \in Channel BY <1>1, <1>3, <1>5 DEF LoadBuffer, Channel, LoadState
<1>7. /\ d.q = c.q /\ d.next = Succ(c.q, c.next) /\ d.init = c.q[i] /\ d.state = c.state
      /\ d.ls = IF c.ls = "NONE" THEN "1LOADED" ELSE "1LOADED_1RUNNING"
  BY <1>1, <1>3 DEF LoadBuffer, Channel, CanLoad
<1> HIDE DEF d
<1>8. \A n \in {1, 2, 3} : n <= i + 1 => From(d, n)
  BY <1>1, <1>3, <1>4, <1>7 DEF From
<1>9. From(d, 1) /\ From(d, 2) /\ Len(d.q) >= 1 BY <1>1, <1>3, <1>7, <1>8
<1>10. d.ls = "1LOADED_1RUNNING" => Len(d.q) >= 2 /\ From(d, 3)
  BY <1>1, <1>3, <1>7, <1>8
<1>11. d.ls # "NONE" BY <1>7
<1>12. Linkage(d) BY <1>1, <1>3, <1>6, <1>7, <1>9, <1>10 DEF Linkage
<1>13. QED BY <1>3, <1>7, <1>11, <1>12 DEF d

(* So does the wait for a loaded buffer leave it alone. *)
LEMMA LinkageWaited ==
  ASSUME NEW c, Linkage(c), c.ls = "1LOADED"
  PROVE  LET d == Waited(c) IN
         /\ Linkage(d) /\ d.ls = "1RUNNING" /\ d.q = c.q /\ d.state = c.state
         /\ d.next = c.next /\ d.on = c.on /\ d.init = c.init
<1>1. /\ Waited(c) \in Channel /\ Waited(c).ls = "1RUNNING" /\ Waited(c).q = c.q
      /\ Waited(c).state = c.state /\ Waited(c).next = c.next
      /\ Waited(c).on = c.on /\ Waited(c).init = c.init
  BY DEF Waited, Linkage, Channel, LoadState
<1>2. QED BY <1>1 DEF Linkage, From

(* A second buffer is loaded, or nothing changes. *)
LEMMA LinkageSecond ==
  ASSUME NEW c, Linkage(c), NEW slow
  PROVE  LET d == LoadSecond(c, slow) IN
         /\ Linkage(d) /\ d.q = c.q /\ d.state = c.state
         /\ c.ls # "NONE" => d.ls # "NONE"
         /\ c.ls = "NONE" => d = c
<1> DEFINE d == LoadSecond(c, slow)
           w == Waited(c)
<1>1. CASE c.next # NULL /\ c.ls = "1LOADED" /\ Loads(c, slow)
  <2>1. d = LoadBuffer(w, c.next) BY <1>1 DEF LoadSecond
  <2>2. /\ Linkage(w) /\ w.ls = "1RUNNING" /\ w.q = c.q /\ w.state = c.state
        /\ w.next = c.next
    BY <1>1, LinkageWaited
  <2> HIDE DEF w
  <2>3. CanLoad(w) BY <2>2 DEF CanLoad
  <2>4. d = LoadBuffer(w, w.next) BY <2>1, <2>2
  <2>5. QED BY <1>1, <2>2, <2>3, <2>4, LinkageLoad
<1>2. CASE c.next # NULL /\ c.ls = "1RUNNING"
  <2>1. d = LoadBuffer(c, c.next) BY <1>2 DEF LoadSecond
  <2>2. CanLoad(c) BY <1>2 DEF CanLoad
  <2>3. QED BY <1>2, <2>1, <2>2, LinkageLoad
<1>3. CASE ~(c.next # NULL /\ c.ls = "1LOADED" /\ Loads(c, slow))
           /\ ~(c.next # NULL /\ c.ls = "1RUNNING")
  <2>1. d = c BY <1>3 DEF LoadSecond
  <2>2. QED BY <2>1
<1>4. QED BY <1>1, <1>2, <1>3

(* START *)
LEMMA SettledStart ==
  ASSUME NEW c, Settled(c), NEW slow
  PROVE  LET d == DmaStart(c, slow) IN
         /\ Settled(d) /\ d.q = c.q /\ (c.state = "RUNNING" => d = c)
<1> DEFINE d == DmaStart(c, slow)
<1>1. Linkage(c) /\ Off(c) /\ c \in Channel BY DEF Settled, Linkage
<1>2. CASE c.state = "RUNNING" \/ (c.ls = "NONE" /\ c.next = NULL)
  BY <1>2 DEF DmaStart
<1>3. CASE ~(c.state = "RUNNING" \/ (c.ls = "NONE" /\ c.next = NULL))
  <2>1. c.state = "IDLE" /\ c.ls = "NONE" /\ c.next # NULL
    BY <1>1, <1>3, StateCases DEF Off
  <2> DEFINE l == LoadBuffer(c, c.next)
             s == [l EXCEPT !.state = "RUNNING", !.on = TRUE]
  <2>2. d = LoadSecond(s, slow) BY <2>1 DEF DmaStart
  <2>3. CanLoad(c) BY <2>1 DEF CanLoad
  <2>4. Linkage(l) /\ l.ls # "NONE" /\ l.q = c.q /\ l.init \in Buf
    BY <1>1, <2>1, <2>3, LinkageLoad
  <2> HIDE DEF l
  <2>5. /\ s \in Channel /\ s.q = l.q /\ s.next = l.next /\ s.ls = l.ls
        /\ s.init = l.init /\ s.state = "RUNNING"
    BY <2>4 DEF Linkage, Channel
  <2> HIDE DEF s
  <2>6. Linkage(s) BY <2>4, <2>5 DEF Linkage, From
  <2>7. /\ Linkage(d) /\ d.q = s.q /\ d.state = s.state /\ d.ls # "NONE"
    BY <2>2, <2>4, <2>5, <2>6, LinkageSecond
  <2>8. QED BY <1>3, <2>4, <2>5, <2>7 DEF Settled, Off
<1>4. QED BY <1>2, <1>3

(* Linking a new buffer. *)
LEMMA LinkageLinked ==
  ASSUME NEW c, Linkage(c), NEW b \in Buf, \A i \in DOMAIN c.q : c.q[i] # b
  PROVE  LET l == Linked(c, b) IN
         /\ Linkage(l) /\ l.q = Append(c.q, b) /\ l.next # NULL
         /\ l.state = c.state /\ l.ls = c.ls /\ l.on = c.on /\ l.init = c.init
<1> DEFINE l == Linked(c, b)
<1>n. NULL \notin Buf BY DmaAssumption
<1>1. c \in Channel /\ Distinct(c.q) /\ c.q \in Seq(Buf) /\ Len(c.q) \in Nat
  BY DEF Linkage, Channel
<1>2. /\ l \in Channel
      /\ l.q = Append(c.q, b) /\ Len(l.q) = Len(c.q) + 1
      /\ \A i \in 1..Len(c.q) : l.q[i] = c.q[i]
      /\ l.q[Len(c.q) + 1] = b
      /\ Distinct(l.q)
      /\ l.next = IF c.q = <<>> \/ c.next = NULL THEN b ELSE c.next
      /\ l.state = c.state /\ l.ls = c.ls /\ l.on = c.on
      /\ l.init = c.init
  BY <1>1, LinkedProperties
<1> HIDE DEF l
<1>3. DOMAIN c.q = 1..Len(c.q) /\ DOMAIN l.q = 1..(Len(c.q) + 1)
  BY <1>1, <1>2 DEF Channel
<1>4. ASSUME NEW k \in 1..3, From(c, k), Len(c.q) + 1 >= k PROVE From(l, k)
  <2>1. CASE l.next = b
    BY <1>1, <1>2, <1>3, <1>4, <2>1 DEF From
  <2>2. CASE l.next # b
    <3>1. c.next # NULL /\ l.next = c.next BY <1>2, <2>2
    <3>2. PICK i \in DOMAIN c.q : i >= k /\ c.next = c.q[i] BY <1>4, <3>1 DEF From
    <3>3. i \in DOMAIN l.q /\ l.q[i] = c.q[i] BY <1>1, <1>2, <1>3, <3>2
    <3>4. QED BY <3>1, <3>2, <3>3 DEF From
  <2>3. QED BY <2>1, <2>2
<1>5. /\ From(l, 1)
      /\ c.ls # "NONE" => From(l, 2)
      /\ c.ls = "1LOADED_1RUNNING" => From(l, 3)
  BY <1>1, <1>4 DEF Linkage
<1>6. l.next # NULL BY <1>n, <1>2
<1>7. Linkage(l) BY <1>1, <1>2, <1>5 DEF Linkage
<1>8. QED BY <1>2, <1>6, <1>7 DEF l

(* s3c2410_dma_enqueue, also inside the interrupt with nothing loaded. *)
LEMMA SettledEnqueue ==
  ASSUME NEW c, Linkage(c), Off(c), NEW b \in Buf, \A i \in DOMAIN c.q : c.q[i] # b, NEW slow
  PROVE  LET d == DmaEnqueue(c, b, slow) IN
         /\ Settled(d) /\ d.q = Append(c.q, b)
         /\ c.state = "RUNNING" => d.state = "RUNNING"
<1> DEFINE l == Linked(c, b)
           w == IF l.ls = "1LOADED" /\ Loads(l, slow) THEN Waited(l) ELSE l
           d == DmaEnqueue(c, b, slow)
<1>1. /\ Linkage(l) /\ l.q = Append(c.q, b) /\ l.next # NULL
      /\ l.state = c.state /\ l.ls = c.ls /\ l.on = c.on
  BY LinkageLinked
<1>2. c \in Channel BY DEF Linkage
<1>3. CASE c.state = "RUNNING"
  <2>1. /\ Linkage(w) /\ w.q = l.q /\ w.next = l.next /\ w.state = l.state
    BY <1>1, LinkageWaited
  <2>2. d = IF CanLoad(w) /\ w.next # NULL THEN LoadBuffer(w, w.next) ELSE w
    BY <1>3 DEF DmaEnqueue
  <2> HIDE DEF w, l
  <2>3. CASE CanLoad(w)
    <3>1. d = LoadBuffer(w, w.next) BY <1>1, <2>1, <2>2, <2>3
    <3>2. Linkage(d) /\ d.ls # "NONE" /\ d.q = w.q /\ d.state = w.state
      BY <1>1, <2>1, <2>3, <3>1, LinkageLoad
    <3>3. QED BY <1>1, <1>3, <2>1, <3>2 DEF Settled, Off
  <2>4. CASE ~CanLoad(w)
    <3>1. d = w BY <2>2, <2>4
    <3>2. w.ls # "NONE" BY <2>4 DEF CanLoad
    <3>3. QED BY <1>1, <1>3, <2>1, <3>1, <3>2 DEF Settled, Off
  <2>5. QED BY <2>3, <2>4
<1>4. CASE c.state = "IDLE"
  <2>1. d = l \/ d = DmaStart(l, slow) BY <1>4 DEF DmaEnqueue
  <2> HIDE DEF l
  <2>2. Settled(l) BY <1>1, <1>4 DEF Settled, Off
  <2>3. Settled(DmaStart(l, slow)) /\ DmaStart(l, slow).q = l.q BY <2>2, SettledStart
  <2>4. Settled(d) /\ d.q = Append(c.q, b) BY <1>1, <2>1, <2>2, <2>3
  <2>5. QED BY <1>4, <2>4
<1>5. QED BY <1>2, <1>3, <1>4, StateCases

(* s3c2410_dma_dostop *)
LEMMA SettledStop ==
  ASSUME NEW c, Linkage(c)
  PROVE  LET d == DoStop(c) IN Settled(d) /\ d.q = c.q /\ d.next = c.next /\ d.state = "IDLE"
<1>1. /\ DoStop(c) \in Channel /\ DoStop(c).q = c.q /\ DoStop(c).next = c.next
      /\ DoStop(c).state = "IDLE" /\ DoStop(c).ls = "NONE" /\ DoStop(c).on = FALSE
  BY DEF DoStop, Linkage, Channel, LoadState
<1>2. QED BY <1>1 DEF Linkage, Settled, Off, From

(* The interrupt takes the head off the chain. *)
LEMMA LinkagePopped ==
  ASSUME NEW c, Linkage(c), Off(c), From(c, 2)
  PROVE  LET d == Popped(c) IN
         /\ Linkage(d) /\ Off(d) /\ d.state = c.state
         /\ d.q = IF c.q = <<>> THEN c.q ELSE Tail(c.q)
<1> DEFINE d == Popped(c)
<1>1. c \in Channel /\ Distinct(c.q) /\ c.q \in Seq(Buf) /\ Len(c.q) \in Nat
  BY DEF Linkage, Channel
<1>2. /\ d.state = c.state /\ d.next = c.next /\ d.on = c.on /\ d.init = c.init
      /\ d.q = IF c.q = <<>> THEN c.q ELSE Tail(c.q)
      /\ d.ls = IF c.ls = "1LOADED_1RUNNING" THEN "1LOADED" ELSE "NONE"
  BY <1>1 DEF Popped, Channel
<1>3. d \in Channel
  <2>1. c.q # <<>> => Tail(c.q) \in Seq(Buf) BY <1>1
  <2>2. QED BY <1>1, <2>1 DEF Popped, Channel, LoadState
<1> HIDE DEF d
<1>4. Off(d) BY <1>2 DEF Off
<1>5. CASE c.q = <<>>
  <2>1. c.next = NULL /\ c.ls = "NONE" BY <1>1, <1>5 DEF Linkage, From
  <2>2. QED BY <1>2, <1>3, <1>4, <1>5, <2>1 DEF Linkage, From, d
<1>6. CASE c.q # <<>>
  <2>1. /\ d.q = Tail(c.q) /\ d.q \in Seq(Buf) /\ Len(d.q) = Len(c.q) - 1
        /\ \A i \in 1..Len(c.q) - 1 : d.q[i] = c.q[i + 1]
    BY <1>1, <1>2, <1>6
  <2>2. Distinct(d.q) BY <1>1, <2>1 DEF Distinct
  <2>3. ASSUME NEW k \in {2, 3}, From(c, k) PROVE From(d, k - 1)
    <3>1. CASE c.next = NULL BY <1>2, <3>1 DEF From
    <3>2. CASE c.next # NULL
      <4>1. PICK i \in 1..Len(c.q) : i >= k /\ c.next = c.q[i]
        BY <1>1, <2>3, <3>2 DEF From
      <4>2. i - 1 \in DOMAIN d.q /\ i - 1 >= k - 1 /\ d.q[i - 1] = c.q[i]
        BY <1>1, <2>1, <4>1
      <4>3. QED BY <1>2, <4>1, <4>2 DEF From
    <3>3. QED BY <3>1, <3>2
  <2>4. From(d, 1) BY <2>3
  <2>5. c.ls = "1LOADED_1RUNNING" => Len(d.q) >= 1 /\ From(d, 2)
    <3>1. c.ls = "1LOADED_1RUNNING" => Len(c.q) >= 2 /\ From(c, 3) BY DEF Linkage
    <3>2. QED BY <1>1, <2>1, <2>3, <3>1
  <2>6. Linkage(d) BY <1>2, <1>3, <2>2, <2>4, <2>5 DEF Linkage
  <2>7. QED BY <1>2, <1>4, <2>6 DEF d
<1>7. QED BY <1>5, <1>6

(* The end of the interrupt. *)
LEMMA SettledReload ==
  ASSUME NEW c, Linkage(c), Off(c), NEW slow
  PROVE  Settled(Reload(c, slow)) /\ Reload(c, slow).q = c.q
<1> DEFINE d == Reload(c, slow)
           w == Waited(c)
           l == LastXfer(c, slow)
<1>1. c \in Channel BY DEF Linkage
<1>2. c.ls = "1LOADED" => /\ Linkage(w) /\ w.ls = "1RUNNING" /\ w.q = c.q
                          /\ w.state = c.state /\ w.next = c.next
  BY LinkageWaited
<1> HIDE DEF w
<1>3. CASE c.next # NULL /\ c.state # "IDLE"
  <2>1. c.state = "RUNNING" BY <1>1, <1>3, StateCases
  <2>2. CASE CanLoad(c)
    <3>1. d = LoadBuffer(c, c.next) BY <1>3, <2>2 DEF Reload, CanLoad
    <3>2. Linkage(d) /\ d.ls # "NONE" /\ d.q = c.q /\ d.state = c.state
      BY <1>3, <2>2, <3>1, LinkageLoad
    <3>3. QED BY <2>1, <3>2 DEF Settled, Off
  <2>3. CASE c.ls = "1LOADED" /\ Loads(c, slow)
    <3>1. ~CanLoad(c) BY <2>3 DEF CanLoad
    <3>2. d = LoadBuffer(w, w.next) BY <1>2, <1>3, <2>3, <3>1 DEF Reload, w
    <3>3. CanLoad(w) /\ w.next # NULL BY <1>2, <1>3, <2>3 DEF CanLoad
    <3>4. Linkage(d) /\ d.ls # "NONE" /\ d.q = w.q /\ d.state = w.state
      BY <1>2, <2>3, <3>2, <3>3, LinkageLoad
    <3>5. QED BY <1>2, <2>1, <2>3, <3>4 DEF Settled, Off
  <2>4. CASE ~CanLoad(c) /\ ~(c.ls = "1LOADED" /\ Loads(c, slow))
    <3>1. d = c BY <1>3, <2>4 DEF Reload
    <3>2. c.ls # "NONE" BY <2>4 DEF CanLoad
    <3>3. QED BY <3>1, <3>2 DEF Settled
  <2>5. QED BY <2>2, <2>3, <2>4
<1>4. CASE ~(c.next # NULL /\ c.state # "IDLE")
  <2>1. d = IF l.ls = "NONE" THEN DoStop(l) ELSE l BY <1>4 DEF Reload
  <2>2. Linkage(l) /\ l.q = c.q /\ l.state = c.state /\ (l.ls = "NONE" <=> c.ls = "NONE")
    <3>1. CASE c.ls = "NONE"
      <4>1. l = [c EXCEPT !.norel = TRUE] BY <3>1 DEF LastXfer
      <4>2. /\ l \in Channel /\ l.q = c.q /\ l.next = c.next /\ l.ls = c.ls
            /\ l.on = c.on /\ l.init = c.init /\ l.state = c.state
        BY <1>1, <4>1 DEF Channel
      <4> HIDE DEF l
      <4>3. QED BY <4>2 DEF Linkage, From
    <3>2. CASE c.ls = "1LOADED" /\ Loads(c, slow)
      <4>1. l = [w EXCEPT !.norel = TRUE] BY <3>2 DEF LastXfer, w
      <4>2. w \in Channel BY <1>2, <3>2 DEF Linkage
      <4>3. /\ l \in Channel /\ l.q = w.q /\ l.next = w.next /\ l.ls = w.ls
            /\ l.on = w.on /\ l.init = w.init /\ l.state = w.state
        BY <4>1, <4>2 DEF Channel
      <4> HIDE DEF l
      <4>4. QED BY <1>2, <3>2, <4>3 DEF Linkage, From
    <3>3. CASE c.ls # "NONE" /\ ~(c.ls = "1LOADED" /\ Loads(c, slow))
      <4>1. l = c BY <3>3 DEF LastXfer
      <4>2. QED BY <4>1
    <3>4. QED BY <3>1, <3>2, <3>3
  <2> HIDE DEF l
  <2>3. CASE l.ls = "NONE"
    <3>1. d = DoStop(l) BY <2>1, <2>3
    <3>2. Settled(DoStop(l)) /\ DoStop(l).q = l.q BY <2>2, SettledStop
    <3>3. QED BY <2>2, <3>1, <3>2
  <2>4. CASE l.ls # "NONE"
    <3>1. d = l /\ l.state = "RUNNING" BY <1>1, <2>1, <2>2, <2>4, StateCases DEF Off
    <3>2. QED BY <2>2, <2>4, <3>1 DEF Settled, Off
  <2>5. QED BY <2>3, <2>4
<1>5. QED BY <1>3, <1>4

(* FLUSH *)
LEMMA SettledFlush ==
  ASSUME NEW c, Settled(c), c.state = "IDLE" \/ FlushHitsSelf
  PROVE  LET d == DmaFlush(c) IN Settled(d) /\ d.q = <<>> /\ d.next = NULL
<1> DEFINE s == IF c.state # "IDLE" /\ FlushHitsSelf THEN DoStop(c) ELSE c
           d == DmaFlush(c)
<1>1. Settled(s) /\ s.state = "IDLE" BY SettledStop DEF Settled
<1>2. s \in Channel /\ s.ls = "NONE" /\ ~s.on BY <1>1 DEF Settled, Linkage, Off
<1>3. d = [s EXCEPT !.q = <<>>, !.next = NULL] BY DEF DmaFlush
<1> HIDE DEF s
<1>4. /\ d \in Channel /\ d.q = <<>> /\ d.next = NULL /\ d.state = s.state
      /\ d.ls = s.ls /\ d.on = s.on
  <2>1. <<>> \in Seq(Buf) OBVIOUS
  <2>2. QED BY <1>2, <1>3, <2>1 DEF Channel
<1>5. Distinct(<<>>) BY DEF Distinct
<1>6. From(d, 1) BY <1>4 DEF From
<1> HIDE DEF d
<1>7. Settled(d) BY <1>1, <1>2, <1>4, <1>5, <1>6 DEF Settled, Linkage, Off
<1>8. QED BY <1>4, <1>7 DEF d

(* Sleep loses the registers of a channel that is off. *)
LEMMA SettledSuspend ==
  ASSUME NEW c, Settled(c)
  PROVE  LET s == IF c.on THEN DoStop(c) ELSE c
         IN Settled([s EXCEPT !.init = NULL, !.norel = FALSE])
<1> DEFINE s == IF c.on THEN DoStop(c) ELSE c
           d == [s EXCEPT !.init = NULL, !.norel = FALSE]
<1>1. Settled(s) /\ ~s.on
  <2>1. c \in Channel BY DEF Settled, Linkage
  <2>2. DoStop(c).on = FALSE BY <2>1 DEF DoStop, Channel
  <2>3. Linkage(c) BY DEF Settled
  <2>4. QED BY <2>2, <2>3, SettledStop
<1>2. s \in Channel BY <1>1 DEF Settled, Linkage
<1> HIDE DEF s
<1>3. /\ d \in Channel /\ d.q = s.q /\ d.next = s.next /\ d.state = s.state
      /\ d.ls = s.ls /\ d.on = s.on
  BY <1>2 DEF Channel
<1> HIDE DEF d
<1>4. Settled(d) BY <1>1, <1>3 DEF Settled, Linkage, Off, From
<1>5. QED BY <1>4 DEF d, s

(* The types of the rest of the state, from the parts a step sets. *)
LEMMA ChainedAfter ==
  ASSUME TypeOK, Settled(chan)', irqpend' \in BOOLEAN, raced' \in BOOLEAN,
         needflush' \in BOOLEAN, status' \in [Buf -> {"none", "queued", "ok", "abort"}],
         taken' \in [Buf -> 0..2], done' \subseteq Buf,
         irqpend' => From(chan', 2) /\ (raced' \/ chan'.state = "RUNNING")
  PROVE  Chained'
BY DEF Chained, TypeOK, Settled, Linkage

(***************************************************************************)
(* What an entry point may find and has to leave: with the interrupt       *)
(* latched the channel runs, and the head still is not chan->next after.   *)
(***************************************************************************)
LEMMA ChainedEntry ==
  ASSUME Chained, EntryPoint, Settled(chan)', irqpend => From(chan', 2),
         needflush' \in BOOLEAN, status' \in [Buf -> {"none", "queued", "ok", "abort"}],
         taken' \in [Buf -> 0..2], done' \subseteq Buf
  PROVE  Chained'
<1>1. TypeOK /\ irqpend \in BOOLEAN /\ raced \in BOOLEAN BY DEF Chained, TypeOK
<1>2. irqpend' = irqpend /\ raced' = irqpend BY DEF EntryPoint
<1>3. irqpend' => From(chan', 2) /\ (raced' \/ chan'.state = "RUNNING")
  BY <1>2
<1>4. QED BY <1>1, <1>2, <1>3, ChainedAfter

(* A running channel has a head that is not chan->next. *)
LEMMA RunningFrom ==
  ASSUME NEW c, Settled(c), c.state = "RUNNING"
  PROVE  From(c, 2) /\ c.q # <<>>
<1>1. Len(c.q) >= 1 /\ From(c, 2) BY DEF Settled, Linkage
<1>2. QED BY <1>1

(* A buffer that is not in the chain is not in the rest of it. *)
LEMMA TailFresh ==
  ASSUME NEW q \in Seq(Buf), q # <<>>, NEW b, \A i \in DOMAIN q : q[i] # b
  PROVE  \A i \in DOMAIN Tail(q) : Tail(q)[i] # b
<1>1. /\ Len(q) \in Nat /\ DOMAIN Tail(q) = 1..Len(q) - 1 /\ DOMAIN q = 1..Len(q)
      /\ \A i \in 1..Len(q) - 1 : Tail(q)[i] = q[i + 1]
  OBVIOUS
<1>2. \A i \in 1..Len(q) - 1 : i + 1 \in 1..Len(q) BY <1>1
<1>3. QED BY <1>1, <1>2

(* Queueing a buffer keeps Chained. *)
LEMMA ChainedEnqueue ==
  ASSUME Chained, NEW b \in Buf, Enqueue(b)
  PROVE  Chained'
<1>1. TypeOK /\ Settled(chan) /\ Linkage(chan) /\ Off(chan) BY DEF Chained, Settled
<1>2. PICK slow \in SlowChoice : chan' = DmaEnqueue(chan, b, slow) BY DEF Enqueue
<1>3. \A i \in DOMAIN chan.q : chan.q[i] # b BY UnusedFresh DEF Enqueue
<1>4. Settled(chan)' /\ (chan.state = "RUNNING" => chan'.state = "RUNNING")
  BY <1>1, <1>2, <1>3, SettledEnqueue
<1>5. irqpend => chan.state = "RUNNING" BY DEF Enqueue, EntryPoint, Chained
<1>6. irqpend => From(chan', 2) BY <1>4, <1>5, RunningFrom
<1>7. taken' \in [Buf -> 0..2] /\ done' \subseteq Buf BY <1>1, TakenType DEF Enqueue
<1>8. EntryPoint /\ needflush' \in BOOLEAN
      /\ status' \in [Buf -> {"none", "queued", "ok", "abort"}]
  BY <1>1 DEF Enqueue, TypeOK
<1>9. QED BY <1>4, <1>6, <1>7, <1>8, ChainedEntry

(* So do START and STARTED. *)
LEMMA ChainedStart ==
  ASSUME Chained, Start \/ Started
  PROVE  Chained'
<1>1. TypeOK /\ Settled(chan) /\ Linkage(chan) BY DEF Chained, Settled
<1>2. PICK slow \in SlowChoice : chan' = DmaStart(chan, slow) \/ chan' = LoadSecond(chan, slow)
  BY DEF Start, Started
<1>3. chan \in Channel BY <1>1 DEF TypeOK
<1>4. Settled(LoadSecond(chan, slow)) /\ LoadSecond(chan, slow).state = chan.state
  <2>1. LET d == LoadSecond(chan, slow) IN
        /\ Linkage(d) /\ d.q = chan.q /\ d.state = chan.state
        /\ chan.ls # "NONE" => d.ls # "NONE"
        /\ chan.ls = "NONE" => d = chan
    BY <1>1, LinkageSecond
  <2>2. CASE chan.ls = "NONE" BY <1>1, <2>1, <2>2
  <2>3. CASE chan.ls # "NONE" BY <1>1, <2>1, <2>3 DEF Settled, Off
  <2>4. QED BY <2>2, <2>3
<1>5. Settled(chan)' /\ (chan.state = "RUNNING" => chan'.state = "RUNNING")
  BY <1>1, <1>2, <1>4, SettledStart
<1>6. irqpend => chan.state = "RUNNING" BY DEF Start, Started, EntryPoint, Chained
<1>7. irqpend => From(chan', 2) BY <1>5, <1>6, RunningFrom
<1>8. taken' \in [Buf -> 0..2] /\ done' \subseteq Buf BY <1>1, TakenType DEF Start, Started
<1>9. EntryPoint /\ needflush' \in BOOLEAN
      /\ status' \in [Buf -> {"none", "queued", "ok", "abort"}]
  BY <1>1 DEF Start, Started, TypeOK
<1>10. QED BY <1>5, <1>7, <1>8, <1>9, ChainedEntry

(* STOP keeps Chained. *)
LEMMA ChainedStop ==
  ASSUME Chained, Stop
  PROVE  Chained'
<1>1. TypeOK /\ Linkage(chan) BY DEF Chained, Settled
<1>2. /\ EntryPoint /\ chan' = DoStop(chan) /\ needflush' = TRUE
      /\ status' = status /\ taken' = taken /\ done' = done
  BY DEF Stop
<1>3. Settled(chan)' /\ chan'.q = chan.q /\ chan'.next = chan.next BY <1>1, <1>2, SettledStop
<1>4. irqpend => From(chan', 2) BY <1>3 DEF Chained, From
<1>5. QED BY <1>1, <1>2, <1>3, <1>4, ChainedEntry DEF TypeOK

(* FLUSH keeps Chained. *)
LEMMA ChainedFlush ==
  ASSUME FlushStops, Chained, Flush
  PROVE  Chained'
<1>1. TypeOK /\ Settled(chan) BY DEF Chained
<1>2. /\ EntryPoint /\ chan' = DmaFlush(chan) /\ needflush' = FALSE
      /\ status' = [b \in Buf |-> IF b \in ToSet(chan.q) THEN "abort" ELSE status[b]]
      /\ taken' = taken /\ done' = done
  BY DEF Flush
<1>3. chan.state = "IDLE" \/ FlushHitsSelf BY DEF Flush, FlushStops
<1>4. Settled(chan)' /\ chan'.next = NULL BY <1>1, <1>2, <1>3, SettledFlush
<1>5. From(chan', 2) BY <1>4 DEF From
<1>6. status' \in [Buf -> {"none", "queued", "ok", "abort"}] BY <1>1, <1>2 DEF TypeOK
<1>7. QED BY <1>1, <1>2, <1>4, <1>5, <1>6, ChainedEntry DEF TypeOK

(* Sleep keeps Chained. *)
LEMMA ChainedSuspend ==
  ASSUME Chained, SuspendResume
  PROVE  Chained'
<1>1. TypeOK /\ Settled(chan) BY DEF Chained
<1>2. Settled(chan)' BY <1>1, SettledSuspend DEF SuspendResume
<1>3. /\ ~irqpend /\ needflush' = (needflush \/ chan.on)
      /\ irqpend' = irqpend /\ raced' = raced
      /\ status' = status /\ taken' = taken /\ done' = done
  BY DEF SuspendResume
<1>4. needflush' \in BOOLEAN BY <1>1, <1>3 DEF TypeOK, Channel
<1>5. QED BY <1>1, <1>2, <1>3, <1>4, ChainedAfter DEF TypeOK

(* The interrupt keeps Chained. *)
LEMMA ChainedIrq ==
  ASSUME Chained, Irq
  PROVE  Chained'
<1>b. "none" \notin Buf /\ "stop" \notin Buf BY DmaAssumption
<1>1. TypeOK /\ Settled(chan) /\ Linkage(chan) /\ Off(chan) /\ From(chan, 2)
  BY DEF Chained, Settled, Irq
<1>2. PICK slow1 \in SlowChoice, slow2 \in SlowChoice,
           cb \in {"none", "stop"} \cup (IF chan.q = <<>> THEN {} ELSE Refills) :
        /\ chan' = Reload(Callback(Popped(chan), cb, slow1), slow2)
        /\ status' = [b \in Buf |->
             CASE chan.q # <<>> /\ b = Head(chan.q) -> "ok"
               [] b = cb -> "queued"
               [] OTHER -> status[b]]
        /\ TakeUp({cb} \cap Buf)
        /\ needflush' = (needflush \/ cb = "stop")
  BY DEF Irq
<1> DEFINE p == Popped(chan)
           e == Callback(p, cb, slow1)
<1>3. /\ Linkage(p) /\ Off(p) /\ p.state = chan.state
      /\ p.q = IF chan.q = <<>> THEN chan.q ELSE Tail(chan.q)
  BY <1>1, LinkagePopped
<1> HIDE DEF p
<1>4. Linkage(e) /\ Off(e)
  <2>1. CASE cb = "none"
    <3>1. e = p BY <2>1 DEF Callback
    <3>2. QED BY <1>3, <3>1
  <2>2. CASE cb = "stop"
    <3>1. e = DoStop(p) BY <2>2 DEF Callback
    <3>2. QED BY <1>3, <3>1, SettledStop DEF Settled
  <2>3. CASE cb # "none" /\ cb # "stop"
    <3>1. chan.q # <<>> /\ cb \in Unused BY <1>2, <2>3 DEF Refills
    <3>2. cb \in Buf /\ \A i \in DOMAIN chan.q : chan.q[i] # cb BY <3>1, UnusedFresh
    <3>3. \A i \in DOMAIN p.q : p.q[i] # cb
      <4>1. chan.q \in Seq(Buf) BY <1>1 DEF TypeOK, Channel
      <4>2. p.q = Tail(chan.q) BY <1>3, <3>1
      <4>3. QED BY <3>1, <3>2, <4>1, <4>2, TailFresh
    <3>4. e = DmaEnqueue(p, cb, slow1) BY <2>3 DEF Callback
    <3>5. Settled(DmaEnqueue(p, cb, slow1)) BY <1>3, <3>2, <3>3, SettledEnqueue
    <3>6. QED BY <3>4, <3>5 DEF Settled
  <2>4. QED BY <2>1, <2>2, <2>3
<1>5. chan' = Reload(e, slow2) BY <1>2 DEF p
<1> HIDE DEF e
<1>6. Settled(chan)' BY <1>4, <1>5, SettledReload
<1>7. status' \in [Buf -> {"none", "queued", "ok", "abort"}] BY <1>1, <1>2 DEF TypeOK
<1>8. taken' \in [Buf -> 0..2] /\ done' \subseteq Buf BY <1>1, <1>2, TakenType
<1>9. irqpend' = FALSE /\ raced' = FALSE BY DEF Irq
<1>10. needflush' \in BOOLEAN BY <1>2
<1>11. QED BY <1>1, <1>6, <1>7, <1>8, <1>9, <1>10, ChainedAfter

(* So does the interrupt whose callback stops and refills. *)
LEMMA ChainedStopRefill ==
  ASSUME Chained, NEW b \in Buf, IrqStopRefill(b)
  PROVE  Chained'
<1>1. TypeOK /\ Linkage(chan) /\ Off(chan) /\ From(chan, 2)
  BY DEF Chained, Settled, IrqStopRefill
<1> DEFINE p == Popped(chan)
           s == DoStop(p)
           e == DmaEnqueue(s, b, FALSE)
<1>2. /\ chan.q # <<>> /\ b \in Unused /\ chan' = Reload(e, FALSE) /\ TakeUp({b})
      /\ irqpend' = FALSE /\ raced' = FALSE /\ needflush' = TRUE
      /\ status' = [status EXCEPT ![Head(chan.q)] = "ok", ![b] = "queued"]
  BY DEF IrqStopRefill, Refills
<1>3. Linkage(p) /\ p.q = Tail(chan.q) BY <1>1, <1>2, LinkagePopped
<1> HIDE DEF p
<1>4. Settled(s) /\ s.q = p.q BY <1>3, SettledStop
<1> HIDE DEF s
<1>5. \A i \in DOMAIN s.q : s.q[i] # b
  <2>1. chan.q \in Seq(Buf) BY <1>1 DEF TypeOK, Channel
  <2>2. \A i \in DOMAIN chan.q : chan.q[i] # b BY <1>2, UnusedFresh
  <2>3. s.q = Tail(chan.q) BY <1>3, <1>4
  <2>4. QED BY <1>2, <2>1, <2>2, <2>3, TailFresh
<1>6. Settled(e) BY <1>4, <1>5, SettledEnqueue DEF Settled
<1> HIDE DEF e
<1>7. Settled(chan)' BY <1>2, <1>6, SettledReload DEF Settled
<1>8. status' \in [Buf -> {"none", "queued", "ok", "abort"}] BY <1>1, <1>2 DEF TypeOK
<1>9. taken' \in [Buf -> 0..2] /\ done' \subseteq Buf BY <1>1, <1>2, TakenType
<1>10. QED BY <1>1, <1>2, <1>7, <1>8, <1>9, ChainedAfter

(* The hardware keeps Chained. *)
LEMMA ChainedHw ==
  ASSUME Chained, HwLoad \/ HwDone
  PROVE  Chained'
<1>1. TypeOK /\ Settled(chan) /\ chan \in Channel /\ chan.on BY DEF Chained, TypeOK, HwLoad, HwDone
<1>2. /\ chan' \in Channel /\ chan'.q = chan.q /\ chan'.next = chan.next
      /\ chan'.state = chan.state /\ chan'.ls = chan.ls /\ chan'.init = chan.init
  BY <1>1 DEF HwLoad, HwDone, Channel, TypeOK
<1>3. chan.state = "RUNNING" BY <1>1, StateCases DEF Settled, Off
<1>4. chan.init \in Buf BY <1>1 DEF TypeOK
<1>5. Settled(chan)' BY <1>1, <1>2, <1>3, <1>4 DEF Settled, Linkage, Off, From
<1>6. From(chan', 2) /\ chan'.state = "RUNNING" BY <1>2, <1>3, <1>5, RunningFrom
<1>7. taken' \in [Buf -> 0..2] /\ done' \subseteq Buf
  BY <1>1, TakenType DEF HwLoad, HwDone, TypeOK, Channel
<1>8. /\ irqpend' \in BOOLEAN /\ raced' \in BOOLEAN /\ needflush' \in BOOLEAN
      /\ status' \in [Buf -> {"none", "queued", "ok", "abort"}]
  BY <1>1 DEF HwLoad, HwDone, TypeOK
<1>9. QED BY <1>1, <1>5, <1>6, <1>7, <1>8, ChainedAfter

(***************************************************************************)
(* Chained is an invariant for every subset of the liberties: the bound    *)
(* the load state puts on chan->next holds when waits time out, when       *)
(* transfers end inside entry points and when callbacks stop and refill.   *)
(***************************************************************************)
THEOREM DmaChained == ASSUME FlushStops PROVE Spec => []Chained
<1>1. Init => Chained
  <2>1. SUFFICES ASSUME Init PROVE Chained OBVIOUS
  <2>2. TypeOK BY <2>1, DmaInitially DEF DmaInv
  <2>3. Settled(chan)
    <3>1. chan.q = <<>> /\ chan.next = NULL BY <2>1 DEF Init
    <3>2. Distinct(chan.q) BY <3>1 DEF Distinct
    <3>3. QED BY <2>1, <2>2, <3>1, <3>2 DEF Init, TypeOK, Settled, Linkage, Off, From
  <2>4. ~irqpend BY <2>1 DEF Init
  <2>5. QED BY <2>2, <2>3, <2>4 DEF Chained
<1>2. Chained /\ [Next]_dmavars => Chained'
  <2>1. SUFFICES ASSUME Chained, [Next]_dmavars PROVE Chained' OBVIOUS
  <2>2. CASE UNCHANGED dmavars
    BY <2>1, <2>2 DEF dmavars, Chained, TypeOK, Settled, Linkage, Off, From, Distinct
  <2>3. CASE Next
    BY <2>1, <2>3, ChainedEnqueue, ChainedStart, ChainedStop, ChainedFlush, ChainedSuspend,
       ChainedIrq, ChainedStopRefill, ChainedHw DEF Next
  <2>4. QED BY <2>1, <2>2, <2>3
<1>3. QED BY <1>1, <1>2, PTL DEF Spec

(***************************************************************************)
(* TypeOK: the channel is never on without a buffer in its registers, also *)
(* across sleep, which loses them.                                         *)
(***************************************************************************)
THEOREM DmaTypeCorrect == ASSUME FlushStops PROVE Spec => []TypeOK
<1>1. Chained => TypeOK BY DEF Chained
<1>2. QED BY <1>1, DmaChained, PTL

(***************************************************************************)
(* NextInChain: chan->next, which START, the interrupt and FLUSH           *)
(* dereference, is never a buffer that s3c2410_dma_irq has freed.          *)
(***************************************************************************)
THEOREM DmaNextInChain == ASSUME FlushStops PROVE Spec => []NextInChain
<1>1. Chained => NextInChain
  BY DEF Chained, Settled, Linkage, From, NextInChain, ToSet
<1>2. QED BY <1>1, DmaChained, PTL

-----------------------------------------------------------------------------
(***************************************************************************)
(* The race: a transfer ends inside an entry point, which then works on    *)
(* what it read before.  The channel may stall, but the books stay right.  *)
(***************************************************************************)

(* The driver takes the channel to be loaded; the hardware is off. *)
Stalled(c) ==
  c.state = "RUNNING" /\ ~c.on /\ c.cur = NULL /\ c.ls = "1LOADED" /\ Len(c.q) >= 1

(* The same inside the interrupt, before the end of it loads a buffer. *)
Halted(c) ==
  /\ c.state = "RUNNING" /\ ~c.on /\ c.cur = NULL /\ Len(c.q) >= 1
  /\ c.ls = "1LOADED" \/ (c.ls = "NONE" /\ c.next = c.q[1])

(* STOP or FLUSH came before the interrupt of the transfer that ended. *)
LateIdle(c, flush) == Idle(c) /\ (flush \/ (c.q = <<>> /\ c.next = NULL))

(* A buffer was queued behind a last one that had ended. *)
LateOn(c) ==
  /\ c.state = "RUNNING" /\ ~c.on /\ c.cur = NULL /\ Len(c.q) >= 2
  /\ (c.ls = "1LOADED" /\ c.next = c.q[2]) \/ c.ls = "1LOADED_1RUNNING"

(* The buffers of the chain are outstanding. *)
Queued == \A i \in DOMAIN chan.q : status[chan.q[i]] = "queued"

StalledInv ==
  /\ Stalled(chan) /\ ~irqpend /\ ~needflush
  /\ Distinct(chan.q) /\ Queued /\ ReportedOnceMoved

LateInv ==
  /\ irqpend /\ raced
  /\ LateIdle(chan, needflush) \/ (LateOn(chan) /\ ~needflush)
  /\ chan.q # <<>> => chan.q[1] \in done /\ taken[chan.q[1]] = 1
  /\ Distinct(chan.q) /\ Queued /\ ReportedOnceMoved

(* The inductive invariant of the prompt setting, on top of Chained. *)
RaceInv == DmaInv \/ StalledInv \/ LateInv

(* Nothing is begun: the reports stay true. *)
LEMMA SameReports ==
  ASSUME TypeOK, ReportedOnceMoved, NEW Q, TakeUp(Q), chan'.cur = chan.cur,
         \A x \in Buf : status'[x] = "ok" => status[x] = "ok" /\ x \notin Q
  PROVE  ReportedOnceMoved'
<1> SUFFICES ASSUME NEW x \in Buf, status'[x] = "ok" PROVE taken'[x] = 1 /\ x \in done'
  BY DEF ReportedOnceMoved
<1>1. taken[x] = 1 /\ x \in done /\ x \notin Q BY DEF ReportedOnceMoved
<1>2. chan'.cur # x \/ chan.cur = x OBVIOUS
<1>3. taken'[x] = 1 BY <1>1, <1>2, TakenAfter
<1>4. QED BY <1>1, <1>3 DEF TakeUp

(* A step that neither begins nor queues anything leaves the counts. *)
LEMMA SameCounts ==
  ASSUME TypeOK, TakeUp({}), chan'.cur = chan.cur
  PROVE  taken' = taken /\ done' = done
<1>1. \A x \in Buf : taken'[x] = taken[x]
  <2> SUFFICES ASSUME NEW x \in Buf PROVE taken'[x] = taken[x] OBVIOUS
  <2>1. chan'.cur # x \/ chan.cur = x OBVIOUS
  <2>2. QED BY <2>1, TakenAfter
<1>2. taken' = [b \in Buf |-> taken'[b]] BY DEF TakeUp
<1>3. taken = [b \in Buf |-> taken[b]] BY DEF TypeOK
<1>4. QED BY <1>1, <1>2, <1>3 DEF TakeUp

(* A buffer queued at the end is outstanding as the others are. *)
LEMMA QueuedAppend ==
  ASSUME TypeOK, Distinct(chan.q), Queued, NEW b \in Buf, \A i \in DOMAIN chan.q : chan.q[i] # b,
         chan'.q = Append(chan.q, b), status' = [status EXCEPT ![b] = "queued"]
  PROVE  Queued' /\ Distinct(chan'.q)
<1>1. chan.q \in Seq(Buf) /\ Len(chan.q) \in Nat BY DEF TypeOK, Channel
<1>2. /\ Len(chan'.q) = Len(chan.q) + 1 /\ DOMAIN chan'.q = 1..Len(chan.q) + 1
      /\ \A i \in 1..Len(chan.q) : chan'.q[i] = chan.q[i] /\ chan.q[i] \in Buf
      /\ chan'.q[Len(chan.q) + 1] = b
  BY <1>1, AppendProperties
<1>3. \A x \in Buf : status'[x] = IF x = b THEN "queued" ELSE status[x] BY DEF TypeOK
<1>4. DOMAIN chan.q = 1..Len(chan.q) BY <1>1
<1>5. \A i \in 1..Len(chan.q) + 1 : i \in 1..Len(chan.q) \/ i = Len(chan.q) + 1 BY <1>1
<1>6. Queued' BY <1>2, <1>3, <1>4, <1>5 DEF Queued
<1>7. Distinct(chan'.q) BY <1>1, <1>2, <1>4, <1>5 DEF Distinct
<1>8. QED BY <1>6, <1>7

(* A running channel with a latched interrupt: its head was moved. *)
LEMMA LatchedHead ==
  ASSUME DmaInv, irqpend
  PROVE  /\ irqpend = TRUE /\ chan.state = "RUNNING" /\ ~needflush
         /\ Good(chan, TRUE, needflush) /\ (One(chan, TRUE) \/ Two(chan, TRUE))
         /\ chan.q \in Seq(Buf) /\ Len(chan.q) >= 1
         /\ chan.q[1] \in done /\ taken[chan.q[1]] = 1
<1>1. irqpend = TRUE /\ chan \in Channel BY DEF DmaInv, TypeOK
<1>2. Good(chan, irqpend, needflush) BY DEF DmaInv
<1>3. Good(chan, TRUE, needflush) BY <1>1, <1>2
<1>4. chan.state = "RUNNING" BY <1>1, <1>3, StateCases DEF Good
<1>5. ~needflush /\ (One(chan, TRUE) \/ Two(chan, TRUE)) BY <1>3, <1>4 DEF Good
<1>6. chan.q \in Seq(Buf) /\ Len(chan.q) >= 1 BY <1>1, <1>5 DEF Channel, One, Two
<1>7. 1 \in DOMAIN chan.q BY <1>6
<1>8. chan.q[1] \in done /\ taken[chan.q[1]] = 1
  BY <1>1, <1>5, <1>7 DEF DmaInv, Books, Counted
<1>9. QED BY <1>1, <1>3, <1>4, <1>5, <1>6, <1>8

(* A buffer queued behind a last one whose transfer has just ended. *)
LEMMA EnqueueLate ==
  ASSUME NEW c \in Channel, Distinct(c.q), One(c, TRUE), NEW b \in Buf,
         \A i \in DOMAIN c.q : c.q[i] # b
  PROVE  LET d == DmaEnqueue(c, b, FALSE) IN LateOn(d) /\ d.q = Append(c.q, b)
<1> DEFINE l == Linked(c, b)
           d == DmaEnqueue(c, b, FALSE)
<1>n. NULL \notin Buf BY DmaAssumption
<1>1. /\ c.q \in Seq(Buf) /\ Len(c.q) = 1 /\ c.state = "RUNNING" /\ c.next = NULL
      /\ c.ls \in {"1LOADED", "1RUNNING"} /\ ~c.on /\ c.cur = NULL
  BY DEF Channel, One
<1>2. /\ l \in Channel /\ l.q = Append(c.q, b) /\ Len(l.q) = Len(c.q) + 1
      /\ l.q[Len(c.q) + 1] = b
      /\ l.next = IF c.q = <<>> \/ c.next = NULL THEN b ELSE c.next
      /\ l.state = c.state /\ l.ls = c.ls /\ l.on = c.on /\ l.cur = c.cur
  BY LinkedProperties
<1> HIDE DEF l
<1>3. l.next = b /\ Len(l.q) = 2 /\ l.q[2] = b BY <1>1, <1>2
<1>4. ~Loads(l, FALSE) BY <1>1, <1>2 DEF Loads
<1>5. d = IF CanLoad(l) /\ l.next # NULL THEN LoadBuffer(l, l.next) ELSE l
  BY <1>1, <1>4 DEF DmaEnqueue, l
<1> HIDE DEF d
<1>6. CASE c.ls = "1LOADED"
  <2>1. d = l BY <1>2, <1>5, <1>6 DEF CanLoad
  <2>2. LateOn(l) BY <1>1, <1>2, <1>3, <1>6 DEF LateOn
  <2>3. QED BY <1>2, <2>1, <2>2 DEF d
<1>7. CASE c.ls = "1RUNNING"
  <2>1. d = LoadBuffer(l, b) BY <1>n, <1>2, <1>3, <1>5, <1>7 DEF CanLoad
  <2>2. /\ d.q = l.q /\ d.state = l.state /\ d.on = l.on /\ d.cur = l.cur
        /\ d.ls = "1LOADED_1RUNNING"
    BY <1>n, <1>2, <1>7, <2>1 DEF LoadBuffer, Channel
  <2>3. LateOn(d) BY <1>1, <1>2, <1>3, <2>2 DEF LateOn
  <2>4. QED BY <1>2, <2>2, <2>3 DEF d
<1>8. QED BY <1>1, <1>6, <1>7

(* Queueing in the race. *)
LEMMA RaceEnqueue ==
  ASSUME Prompt, DmaInv, irqpend, TypeOK', NEW b \in Buf, Enqueue(b)
  PROVE  RaceInv'
<1>t. TypeOK /\ chan \in Channel /\ Distinct(chan.q) /\ Queued /\ ReportedOnceMoved
  BY DEF DmaInv, TypeOK, Good, Books, Queued
<1>n. NULL \notin Buf BY DmaAssumption
<1>1. /\ irqpend = TRUE /\ chan.state = "RUNNING" /\ ~needflush
      /\ Good(chan, TRUE, needflush) /\ (One(chan, TRUE) \/ Two(chan, TRUE))
      /\ chan.q \in Seq(Buf) /\ Len(chan.q) >= 1
      /\ chan.q[1] \in done /\ taken[chan.q[1]] = 1
  BY LatchedHead
<1>2. /\ chan' = DmaEnqueue(chan, b, FALSE) /\ irqpend' = TRUE /\ raced' = TRUE
      /\ needflush' = needflush
      /\ status' = [status EXCEPT ![b] = "queued"] /\ TakeUp({b})
  BY <1>1, PromptChoice DEF Enqueue, EntryPoint
<1>3. (\A i \in DOMAIN chan.q : chan.q[i] # b) /\ b # chan.cur
  BY UnusedFresh DEF Enqueue
<1>4. chan'.q = Append(chan.q, b) /\ chan'.cur = chan.cur
      /\ (One(chan, TRUE) => LateOn(chan')) /\ (Two(chan, TRUE) => Two(chan', TRUE))
  <2>1. CASE One(chan, TRUE)
    <3>1. LateOn(chan') /\ chan'.q = Append(chan.q, b) BY <1>t, <1>2, <1>3, <2>1, EnqueueLate
    <3>2. ~Two(chan, TRUE) BY <2>1 DEF One, Two
    <3>3. chan.cur = NULL /\ chan'.cur = NULL BY <2>1, <3>1 DEF One, LateOn
    <3>4. QED BY <3>1, <3>2, <3>3
  <2>2. CASE Two(chan, TRUE)
    <3>1. chan'.q = Append(chan.q, b) /\ Two(chan', TRUE) /\ chan'.cur = chan.cur
      BY <1>t, <1>2, <1>3, <2>2, EnqueueTwo
    <3>2. ~One(chan, TRUE) BY <2>2 DEF One, Two
    <3>3. QED BY <3>1, <3>2
  <2>3. QED BY <1>1, <2>1, <2>2
<1>5. Queued' /\ Distinct(chan'.q) BY <1>t, <1>2, <1>3, <1>4, QueuedAppend
<1>6. ReportedOnceMoved'
  <2>1. \A x \in Buf : status'[x] = "ok" => status[x] = "ok" /\ x \notin {b}
    BY <1>t, <1>2 DEF TypeOK
  <2>2. QED BY <1>t, <1>2, <1>4, <2>1, SameReports
<1>7. /\ DOMAIN chan'.q = 1..Len(chan.q) + 1 /\ DOMAIN chan.q = 1..Len(chan.q)
      /\ \A i \in 1..Len(chan.q) : chan'.q[i] = chan.q[i] /\ chan.q[i] \in Buf /\ chan.q[i] # b
      /\ chan'.q[Len(chan.q) + 1] = b /\ Len(chan.q) \in Nat
  BY <1>1, <1>3, <1>4, AppendProperties
<1>8. \A x \in Buf : taken'[x] = IF x = b THEN 0 ELSE taken[x]
  <2> SUFFICES ASSUME NEW x \in Buf PROVE taken'[x] = IF x = b THEN 0 ELSE taken[x] OBVIOUS
  <2>1. chan'.cur # x \/ chan.cur = x BY <1>4
  <2>2. x = b => x \in {b} OBVIOUS
  <2>3. x # b => x \notin {b} OBVIOUS
  <2>4. QED BY <1>t, <1>2, <2>1, <2>2, <2>3, TakenAfter
<1>9. chan'.q[1] = chan.q[1] /\ chan'.q[1] \in done' /\ taken'[chan'.q[1]] = 1
  <2>1. 1 \in 1..Len(chan.q) BY <1>1
  <2>2. QED BY <1>1, <1>2, <1>7, <1>8, <2>1 DEF TakeUp
<1>10. CASE One(chan, TRUE)
  <2>1. LateInv' BY <1>1, <1>2, <1>4, <1>5, <1>6, <1>9, <1>10 DEF LateInv
  <2>2. QED BY <2>1 DEF RaceInv
<1>11. CASE Two(chan, TRUE)
  <2>1. chan'.state # "IDLE" /\ chan' \in Channel BY <1>4, <1>11 DEF Two, TypeOK
  <2>2. needflush' = FALSE BY <1>1, <1>2, <1>t DEF TypeOK
  <2>3. Good(chan, irqpend, needflush)'
    BY <1>2, <1>4, <1>5, <1>11, <2>1, <2>2 DEF Good
  <2>4. Counted(chan', taken', TRUE)
    <3>1. \A i \in DOMAIN chan.q :
            taken[chan.q[i]] = IF chan.cur = chan.q[i] \/ i = 1 THEN 1 ELSE 0
      BY <1>1 DEF DmaInv, Books, Counted
    <3>2. SUFFICES ASSUME NEW i \in 1..Len(chan.q) + 1
                   PROVE  taken'[chan'.q[i]] =
                            IF chan'.cur = chan'.q[i] \/ i = 1 THEN 1 ELSE 0
      BY <1>7 DEF Counted
    <3>3. CASE i \in 1..Len(chan.q) BY <1>4, <1>7, <1>8, <3>1, <3>3
    <3>4. CASE i = Len(chan.q) + 1
      <4>1. i # 1 BY <1>1, <1>7, <3>4
      <4>2. QED BY <1>3, <1>4, <1>7, <1>8, <3>4, <4>1
    <3>5. QED BY <1>7, <3>3, <3>4
  <2>5. Books' BY <1>2, <1>5, <1>9, <2>4 DEF Books, Queued
  <2>6. DmaInv' BY <1>6, <2>3, <2>5 DEF DmaInv
  <2>7. QED BY <2>6 DEF RaceInv
<1>12. QED BY <1>1, <1>10, <1>11

(* START and STARTED in the race find nothing to do. *)
LEMMA RaceStart ==
  ASSUME Prompt, DmaInv, irqpend, TypeOK', Start \/ Started
  PROVE  RaceInv'
<1>t. TypeOK BY DEF DmaInv
<1>1. /\ irqpend = TRUE /\ chan.state = "RUNNING" /\ (One(chan, TRUE) \/ Two(chan, TRUE))
  BY LatchedHead
<1>2. chan' = chan
  <2>1. DmaStart(chan, FALSE) = chan BY <1>1 DEF DmaStart
  <2>2. LoadSecond(chan, FALSE) = chan BY <1>1 DEF LoadSecond, One, Two
  <2>3. QED BY <2>1, <2>2, PromptChoice DEF Start, Started
<1>3. irqpend' = irqpend /\ needflush' = needflush /\ status' = status
  BY DEF Start, Started, EntryPoint
<1>4. taken' = taken /\ done' = done BY <1>t, <1>2, SameCounts DEF Start, Started
<1>5. Good(chan, irqpend, needflush)' BY <1>2, <1>3 DEF DmaInv
<1>6. Books' /\ ReportedOnceMoved'
  BY <1>2, <1>3, <1>4 DEF DmaInv, Books, Counted, ReportedOnceMoved
<1>7. QED BY <1>5, <1>6 DEF RaceInv, DmaInv

(* STOP and FLUSH in the race leave the interrupt to an idle channel. *)
LEMMA RaceStop ==
  ASSUME Prompt, DmaInv, irqpend, TypeOK', Stop \/ Flush
  PROVE  RaceInv'
<1>t. TypeOK /\ chan \in Channel /\ Distinct(chan.q) /\ Queued /\ ReportedOnceMoved
  BY DEF DmaInv, TypeOK, Good, Books, Queued
<1>1. /\ irqpend = TRUE /\ chan.state = "RUNNING"
      /\ chan.q[1] \in done /\ taken[chan.q[1]] = 1
  BY LatchedHead
<1>2. irqpend' = TRUE /\ raced' = TRUE /\ taken' = taken /\ done' = done
  BY <1>1 DEF Stop, Flush, EntryPoint
<1>3. CASE Stop
  <2>1. chan' = DoStop(chan) /\ needflush' = TRUE /\ status' = status BY <1>3 DEF Stop
  <2>2. Idle(chan') /\ chan'.q = chan.q BY <1>t, <2>1, DoStopProperties
  <2>3. LateInv'
    BY <1>t, <1>1, <1>2, <2>1, <2>2 DEF LateInv, LateIdle, Queued, ReportedOnceMoved
  <2>4. QED BY <2>3 DEF RaceInv
<1>4. CASE Flush
  <2>1. FlushHitsSelf BY <1>1, <1>4 DEF Flush, Prompt, FlushStops
  <2>2. chan' = DmaFlush(chan)
        /\ status' = [b \in Buf |-> IF b \in ToSet(chan.q) THEN "abort" ELSE status[b]]
    BY <1>4 DEF Flush
  <2>3. Good(chan', FALSE, FALSE) /\ chan'.q = <<>> BY <1>t, <1>1, <2>1, <2>2, GoodFlush
  <2>4. chan'.state = "IDLE"
    <3>1. chan' = [DoStop(chan) EXCEPT !.q = <<>>, !.next = NULL]
      BY <1>1, <2>1, <2>2 DEF DmaFlush
    <3>2. QED BY <1>t, <3>1 DEF DoStop, Channel
  <2>5. Idle(chan') /\ chan'.next = NULL BY <2>3, <2>4 DEF Good, Ready
  <2>6. DOMAIN chan'.q = {} BY <2>3
  <2>7. ReportedOnceMoved' BY <1>t, <1>2, <2>2 DEF ReportedOnceMoved, TypeOK
  <2>8. LateInv'
    BY <1>2, <2>3, <2>5, <2>6, <2>7 DEF LateInv, LateIdle, Queued, Distinct
  <2>9. QED BY <2>8 DEF RaceInv
<1>5. QED BY <1>3, <1>4

(* Queueing on a halted channel: nothing gets into the hardware. *)
LEMMA EnqueueHalted ==
  ASSUME NEW c \in Channel, Distinct(c.q), Halted(c), NEW b \in Buf,
         \A i \in DOMAIN c.q : c.q[i] # b
  PROVE  LET d == DmaEnqueue(c, b, FALSE) IN
         d \in Channel /\ Stalled(d) /\ d.q = Append(c.q, b)
<1> DEFINE l == Linked(c, b)
           d == DmaEnqueue(c, b, FALSE)
<1>n. NULL \notin Buf BY DmaAssumption
<1>1. /\ c.q \in Seq(Buf) /\ Len(c.q) >= 1 /\ Len(c.q) \in Nat /\ c.state = "RUNNING"
      /\ ~c.on /\ c.cur = NULL /\ c.q # <<>> /\ c.q[1] \in Buf
  BY DEF Channel, Halted
<1>2. /\ l \in Channel /\ l.q = Append(c.q, b) /\ Len(l.q) = Len(c.q) + 1
      /\ \A i \in 1..Len(c.q) : l.q[i] = c.q[i]
      /\ Distinct(l.q)
      /\ l.next = IF c.q = <<>> \/ c.next = NULL THEN b ELSE c.next
      /\ l.state = c.state /\ l.ls = c.ls /\ l.on = c.on /\ l.cur = c.cur
  BY LinkedProperties
<1>3. l.next # NULL BY <1>n, <1>2
<1>4. ~Loads(l, FALSE) BY <1>1, <1>2 DEF Loads
<1>5. d = IF CanLoad(l) /\ l.next # NULL THEN LoadBuffer(l, l.next) ELSE l
  BY <1>1, <1>4 DEF DmaEnqueue
<1>6. Len(l.q) >= 1 BY <1>1, <1>2
<1> HIDE DEF d, l
<1>7. d \in Channel /\ Stalled(d) /\ d.q = Append(c.q, b)
  <2>1. CASE c.ls = "1LOADED"
    <3>1. d = l BY <1>2, <1>5, <2>1 DEF CanLoad
    <3>2. Stalled(l) BY <1>1, <1>2, <1>6, <2>1 DEF Stalled
    <3>3. QED BY <1>2, <3>1, <3>2
  <2>2. CASE c.ls = "NONE" /\ c.next = c.q[1]
    <3>1. d = LoadBuffer(l, l.next) BY <1>2, <1>3, <1>5, <2>2 DEF CanLoad
    <3>2. l.next = l.q[1] /\ l.q \in Seq(Buf) /\ 1 \in 1..Len(l.q)
      BY <1>n, <1>1, <1>2, <2>2 DEF Channel
    <3>3. Succ(l.q, l.next) \in Buf \cup {NULL}
      <4>1. Distinct(l.q) /\ Len(l.q) \in Nat BY <1>1, <1>2
      <4>2. Succ(l.q, l.q[1]) = IF 1 < Len(l.q) THEN l.q[1 + 1] ELSE NULL
        BY <3>2, <4>1, SuccAt
      <4>3. 1 < Len(l.q) => l.q[1 + 1] \in Buf BY <3>2, <4>1
      <4>4. QED BY <3>2, <4>2, <4>3
    <3>4. d \in Channel BY <1>2, <1>3, <3>1, <3>3 DEF LoadBuffer, Channel, LoadState
    <3>5. /\ d.q = l.q /\ d.state = l.state /\ d.on = l.on /\ d.cur = l.cur
          /\ d.ls = "1LOADED"
      BY <1>n, <1>2, <1>3, <2>2, <3>1 DEF LoadBuffer, Channel
    <3>6. Stalled(d) BY <1>1, <1>2, <1>6, <3>5 DEF Stalled
    <3>7. QED BY <1>2, <3>4, <3>5, <3>6
  <2>3. QED BY <2>1, <2>2 DEF Halted
<1>8. QED BY <1>7 DEF d

(* The end of the interrupt leaves a stalled channel as it is. *)
LEMMA ReloadStalled ==
  ASSUME NEW c \in Channel, Stalled(c)
  PROVE  Reload(c, FALSE) = c
<1>1. ~CanLoad(c) /\ ~Loads(c, FALSE) BY DEF Stalled, CanLoad, Loads
<1>2. LastXfer(c, FALSE) = c BY <1>1 DEF LastXfer, Stalled
<1>3. c.ls # "NONE" BY DEF Stalled
<1>4. QED BY <1>1, <1>2, <1>3 DEF Reload

(* It loads the head of a halted one, which then is stalled. *)
LEMMA ReloadHalted ==
  ASSUME NEW c \in Channel, Distinct(c.q), Halted(c)
  PROVE  LET d == Reload(c, FALSE) IN d \in Channel /\ Stalled(d) /\ d.q = c.q
<1>n. NULL \notin Buf BY DmaAssumption
<1>1. CASE c.ls = "1LOADED"
  <2>1. Stalled(c) BY <1>1 DEF Halted, Stalled
  <2>2. QED BY <2>1, ReloadStalled
<1>2. CASE c.ls = "NONE" /\ c.next = c.q[1]
  <2> DEFINE d == LoadBuffer(c, c.next)
  <2>1. /\ c.q \in Seq(Buf) /\ 1 \in 1..Len(c.q) /\ c.q[1] \in Buf /\ c.state = "RUNNING"
    BY DEF Channel, Halted
  <2>2. Reload(c, FALSE) = d
    BY <1>n, <1>2, <2>1 DEF Reload, CanLoad
  <2>3. Succ(c.q, c.next) \in Buf \cup {NULL} BY <1>2, <2>1, SuccAt
  <2>4. d \in Channel BY <1>2, <2>1, <2>3 DEF LoadBuffer, Channel, LoadState
  <2>5. /\ d.q = c.q /\ d.state = c.state /\ d.on = c.on /\ d.cur = c.cur
        /\ d.ls = "1LOADED"
    BY <1>n, <1>2, <2>1 DEF LoadBuffer, Channel
  <2> HIDE DEF d
  <2>6. Stalled(d) BY <2>5 DEF Stalled, Halted
  <2>7. QED BY <2>2, <2>4, <2>5, <2>6
<1>3. QED BY <1>1, <1>2 DEF Halted

(* The interrupt on a channel a buffer was queued on too late. *)
LEMMA PoppedLate ==
  ASSUME NEW c \in Channel, Distinct(c.q), LateOn(c)
  PROVE  LET p == Popped(c) IN
         p \in Channel /\ Distinct(p.q) /\ Halted(p) /\ p.q = Tail(c.q)
<1> DEFINE p == Popped(c)
<1>1. c.q \in Seq(Buf) /\ Len(c.q) \in Nat /\ Len(c.q) >= 2 /\ c.q # <<>>
  BY DEF Channel, LateOn
<1>2. /\ Tail(c.q) \in Seq(Buf) /\ Len(Tail(c.q)) = Len(c.q) - 1
      /\ \A i \in 1..Len(c.q) - 1 : Tail(c.q)[i] = c.q[i + 1]
  BY <1>1
<1>3. Distinct(Tail(c.q)) BY <1>1, <1>2 DEF Distinct
<1>4. /\ p \in Channel /\ p.q = Tail(c.q) /\ p.cur = c.cur
      /\ p.state = c.state /\ p.on = c.on /\ p.next = c.next
      /\ p.ls = IF c.ls = "1LOADED_1RUNNING" THEN "1LOADED" ELSE "NONE"
  BY <1>1, <1>2 DEF Popped, Channel, LoadState
<1> HIDE DEF p
<1>5. Tail(c.q)[1] = c.q[2] /\ Len(Tail(c.q)) >= 1 BY <1>1, <1>2
<1>6. Halted(p) BY <1>4, <1>5 DEF LateOn, Halted
<1>7. QED BY <1>3, <1>4, <1>6 DEF p

(* An interrupt pops the head and queues at most one buffer at the end. *)
LEMMA PopQueued ==
  ASSUME TypeOK, Distinct(chan.q), Queued, chan.q # <<>>, NEW cb,
         cb \in Buf => \A i \in DOMAIN chan.q : chan.q[i] # cb,
         chan'.q = IF cb \in Buf THEN Append(Tail(chan.q), cb) ELSE Tail(chan.q),
         \A x \in Buf : status'[x] = IF x = chan.q[1] THEN "ok"
                                     ELSE IF x = cb THEN "queued" ELSE status[x]
  PROVE  Queued' /\ Distinct(chan'.q)
<1> DEFINE n == Len(chan.q) - 1
<1>1. chan.q \in Seq(Buf) /\ Len(chan.q) \in Nat /\ Len(chan.q) >= 1 BY DEF TypeOK, Channel
<1>2. /\ Tail(chan.q) \in Seq(Buf) /\ Len(Tail(chan.q)) = n /\ n \in Nat
      /\ \A i \in 1..n : Tail(chan.q)[i] = chan.q[i + 1] /\ i + 1 \in DOMAIN chan.q
      /\ 1 \in DOMAIN chan.q
  BY <1>1
<1>3. ASSUME NEW i \in 1..n
      PROVE  /\ chan.q[i + 1] \in Buf /\ chan.q[i + 1] # chan.q[1]
             /\ cb \in Buf => chan.q[i + 1] # cb
             /\ status'[chan.q[i + 1]] = "queued"
  <2>1. chan.q[i + 1] \in Buf /\ i + 1 # 1 BY <1>1, <1>2, <1>3
  <2>2. chan.q[i + 1] # chan.q[1] BY <1>2, <2>1 DEF Distinct
  <2>3. status[chan.q[i + 1]] = "queued" BY <1>2 DEF Queued
  <2>4. QED BY <1>2, <2>1, <2>2, <2>3
<1>4. ASSUME NEW i \in 1..n, NEW j \in 1..n, chan.q[i + 1] = chan.q[j + 1] PROVE i = j
  <2>1. i + 1 = j + 1 BY <1>2, <1>4 DEF Distinct
  <2>2. QED BY <1>2, <2>1
<1>5. CASE cb \notin Buf
  <2>1. chan'.q = Tail(chan.q) /\ DOMAIN chan'.q = 1..n BY <1>2, <1>5
  <2>2. QED BY <1>2, <1>3, <1>4, <2>1 DEF Queued, Distinct
<1>6. CASE cb \in Buf
  <2>1. /\ DOMAIN chan'.q = 1..n + 1 /\ chan'.q[n + 1] = cb
        /\ \A i \in 1..n : chan'.q[i] = Tail(chan.q)[i]
    BY <1>2, <1>6, AppendProperties
  <2>2. \A i \in 1..n + 1 : i \in 1..n \/ i = n + 1 BY <1>2
  <2>3. status'[cb] = "queued" /\ cb # chan.q[1] BY <1>2, <1>6
  <2>4. \A i \in 1..n : chan'.q[i] = chan.q[i + 1] BY <1>2, <2>1
  <2> HIDE DEF n
  <2>5. Queued'
    <3> SUFFICES ASSUME NEW i \in 1..n + 1 PROVE status'[chan'.q[i]] = "queued"
      BY <2>1 DEF Queued
    <3>1. CASE i \in 1..n BY <1>3, <2>4, <3>1
    <3>2. CASE i = n + 1 BY <2>1, <2>3, <3>2
    <3>3. QED BY <2>2, <3>1, <3>2
  <2>6. Distinct(chan'.q)
    <3> SUFFICES ASSUME NEW i \in 1..n + 1, NEW j \in 1..n + 1, chan'.q[i] = chan'.q[j]
                 PROVE  i = j
      BY <2>1 DEF Distinct
    <3>1. CASE i \in 1..n /\ j \in 1..n BY <1>4, <2>4, <3>1
    <3>2. CASE i = n + 1 \/ j = n + 1 BY <1>3, <1>6, <2>1, <2>2, <2>4, <3>2
    <3>3. QED BY <2>2, <3>1, <3>2
  <2>7. QED BY <2>5, <2>6
<1>7. QED BY <1>5, <1>6

(* An interrupt on a channel that is off: the head it reports was moved. *)
LEMMA PopReports ==
  ASSUME TypeOK, ReportedOnceMoved, chan.q # <<>>, NEW cb, TakeUp({cb} \cap Buf),
         cb \in Buf => \A i \in DOMAIN chan.q : chan.q[i] # cb,
         chan.q[1] \in done /\ taken[chan.q[1]] = 1, chan'.cur = NULL,
         \A x \in Buf : status'[x] = IF x = chan.q[1] THEN "ok"
                                     ELSE IF x = cb THEN "queued" ELSE status[x]
  PROVE  ReportedOnceMoved'
<1> SUFFICES ASSUME NEW x \in Buf, status'[x] = "ok" PROVE taken'[x] = 1 /\ x \in done'
  BY DEF ReportedOnceMoved
<1>1. chan.q \in Seq(Buf) /\ 1 \in DOMAIN chan.q BY DEF TypeOK, Channel
<1>2. taken[x] = 1 /\ x \in done /\ x # cb BY <1>1 DEF ReportedOnceMoved
<1>3. chan'.cur # x BY DmaAssumption
<1>4. x \notin {cb} \cap Buf BY <1>2
<1>5. taken'[x] = 1 BY <1>2, <1>3, <1>4, TakenAfter
<1>6. QED BY <1>2, <1>4, <1>5 DEF TakeUp

(* A channel that is stopped for good keeps its books. *)
LEMMA StoppedInv ==
  ASSUME TypeOK', chan' \in Channel, Idle(chan'), irqpend' = FALSE,
         needflush' = TRUE \/ (needflush' = FALSE /\ chan'.q = <<>> /\ chan'.next = NULL),
         Distinct(chan'.q), Queued', ReportedOnceMoved'
  PROVE  RaceInv'
<1>1. chan'.state = "IDLE" /\ chan'.state # "RUNNING" BY DEF Idle
<1>2. needflush' \/ Ready(chan') BY DEF Ready
<1>3. Good(chan, irqpend, needflush)' BY <1>1, <1>2 DEF Good
<1>4. ~needflush' => DOMAIN chan'.q = {} BY DEF TypeOK
<1>5. Books' BY <1>4 DEF Books, Queued, Counted
<1>6. QED BY <1>3, <1>5 DEF RaceInv, DmaInv

(* The entry points on a stalled channel. *)
LEMMA StalledStep ==
  ASSUME Prompt, TypeOK, TypeOK', StalledInv,
         (\E b \in Buf : Enqueue(b)) \/ Start \/ Started \/ Stop \/ Flush \/ SuspendResume
  PROVE  RaceInv'
<1>t. /\ chan \in Channel /\ chan.q \in Seq(Buf) /\ Len(chan.q) >= 1 /\ chan.state = "RUNNING"
      /\ chan.ls = "1LOADED" /\ chan.cur = NULL /\ ~chan.on
      /\ Stalled(chan) /\ Distinct(chan.q) /\ Queued /\ ReportedOnceMoved
      /\ irqpend = FALSE /\ needflush = FALSE
  BY DEF StalledInv, Stalled, TypeOK, Channel
<1>1. irqpend' = FALSE
  BY <1>t DEF Enqueue, Start, Started, Stop, Flush, SuspendResume, EntryPoint
<1>2. ASSUME NEW b \in Buf, Enqueue(b) PROVE RaceInv'
  <2>1. /\ chan' = DmaEnqueue(chan, b, FALSE) /\ needflush' = needflush /\ TakeUp({b})
        /\ status' = [status EXCEPT ![b] = "queued"]
    BY <1>2, PromptChoice DEF Enqueue
  <2>2. \A i \in DOMAIN chan.q : chan.q[i] # b BY <1>2, UnusedFresh DEF Enqueue
  <2>3. Halted(chan) BY <1>t DEF Halted
  <2>4. Stalled(chan') /\ chan'.q = Append(chan.q, b)
    BY <1>t, <2>1, <2>2, <2>3, EnqueueHalted
  <2>5. Queued' /\ Distinct(chan'.q) BY <1>t, <2>1, <2>2, <2>4, QueuedAppend
  <2>6. ReportedOnceMoved'
    <3>1. \A x \in Buf : status'[x] = "ok" => status[x] = "ok" /\ x \notin {b}
      BY <2>1 DEF TypeOK
    <3>2. chan'.cur = chan.cur BY <1>t, <2>4 DEF Stalled
    <3>3. QED BY <1>t, <2>1, <3>1, <3>2, SameReports
  <2>7. QED BY <1>t, <1>1, <2>1, <2>4, <2>5, <2>6 DEF RaceInv, StalledInv
<1>3. CASE Start \/ Started
  <2>1. chan' = chan
    <3>1. DmaStart(chan, FALSE) = chan BY <1>t DEF DmaStart
    <3>2. LoadSecond(chan, FALSE) = chan BY <1>t DEF LoadSecond, Loads
    <3>3. QED BY <1>3, <3>1, <3>2, PromptChoice DEF Start, Started
  <2>2. needflush' = needflush /\ status' = status BY <1>3 DEF Start, Started
  <2>3. taken' = taken /\ done' = done BY <1>3, <2>1, SameCounts DEF Start, Started
  <2>4. QED
    BY <1>t, <1>1, <2>1, <2>2, <2>3 DEF RaceInv, StalledInv, Queued, ReportedOnceMoved
<1>4. CASE Stop
  <2>1. /\ chan' = DoStop(chan) /\ needflush' = TRUE
        /\ status' = status /\ taken' = taken /\ done' = done
    BY <1>4 DEF Stop
  <2>2. chan' \in Channel /\ Idle(chan') /\ chan'.q = chan.q BY <1>t, <2>1, DoStopProperties
  <2>3. Distinct(chan'.q) /\ Queued' /\ ReportedOnceMoved'
    BY <1>t, <2>1, <2>2 DEF Queued, ReportedOnceMoved
  <2>4. QED BY <1>1, <2>1, <2>2, <2>3, StoppedInv
<1>5. CASE Flush
  <2>1. FlushHitsSelf BY <1>t, <1>5 DEF Flush, Prompt, FlushStops
  <2>2. /\ chan' = DmaFlush(chan) /\ needflush' = FALSE /\ taken' = taken /\ done' = done
        /\ status' = [b \in Buf |-> IF b \in ToSet(chan.q) THEN "abort" ELSE status[b]]
    BY <1>5 DEF Flush
  <2>3. Good(chan', FALSE, FALSE) /\ chan'.q = <<>> BY <1>t, <2>1, <2>2, GoodFlush
  <2>4. chan'.state = "IDLE"
    <3>1. chan' = [DoStop(chan) EXCEPT !.q = <<>>, !.next = NULL]
      BY <1>t, <2>1, <2>2 DEF DmaFlush
    <3>2. QED BY <1>t, <3>1 DEF DoStop, Channel
  <2>5. Idle(chan') /\ chan'.next = NULL /\ chan' \in Channel BY <2>3, <2>4 DEF Good, Ready
  <2>6. DOMAIN chan'.q = {} BY <2>3
  <2>7. ReportedOnceMoved' BY <1>t, <2>2 DEF ReportedOnceMoved, TypeOK
  <2>8. Queued' /\ Distinct(chan'.q) BY <2>6 DEF Queued, Distinct
  <2>9. QED BY <1>1, <2>2, <2>3, <2>5, <2>7, <2>8, StoppedInv
<1>6. CASE SuspendResume
  <2>1. /\ chan' = [chan EXCEPT !.init = NULL, !.norel = FALSE]
        /\ needflush' = (needflush \/ chan.on)
        /\ status' = status /\ taken' = taken /\ done' = done
    BY <1>t, <1>6 DEF SuspendResume
  <2>2. ~needflush' BY <1>t, <2>1
  <2>3. /\ chan'.q = chan.q /\ chan'.state = chan.state /\ chan'.on = chan.on
        /\ chan'.cur = chan.cur /\ chan'.ls = chan.ls
    BY <1>t, <2>1 DEF Channel
  <2>4. StalledInv'
    BY <1>t, <1>1, <2>1, <2>2, <2>3 DEF StalledInv, Stalled, Queued, ReportedOnceMoved
  <2>5. QED BY <2>4 DEF RaceInv
<1>7. QED BY <1>2, <1>3, <1>4, <1>5, <1>6

(* It reports the head and leaves the others to a channel that is off. *)
LEMMA InterruptLate ==
  ASSUME NEW c \in Channel, Distinct(c.q), LateOn(c), NEW cb,
         cb = "none" \/ (cb \in Buf /\ \A i \in DOMAIN c.q : c.q[i] # cb)
  PROVE  LET d == Reload(Callback(Popped(c), cb, FALSE), FALSE) IN
         /\ d \in Channel /\ Stalled(d)
         /\ d.q = IF cb \in Buf THEN Append(Tail(c.q), cb) ELSE Tail(c.q)
<1> DEFINE p == Popped(c)
           e == DmaEnqueue(p, cb, FALSE)
<1>b. "none" \notin Buf /\ "stop" \notin Buf BY DmaAssumption
<1>1. p \in Channel /\ Distinct(p.q) /\ Halted(p) /\ p.q = Tail(c.q) BY PoppedLate
<1>2. c.q \in Seq(Buf) /\ c.q # <<>> BY DEF Channel, LateOn
<1> HIDE DEF p
<1>3. CASE cb = "none"
  <2>1. Callback(p, cb, FALSE) = p BY <1>3 DEF Callback
  <2>2. QED BY <1>b, <1>1, <1>3, <2>1, ReloadHalted DEF p
<1>4. CASE cb \in Buf /\ \A i \in DOMAIN c.q : c.q[i] # cb
  <2>1. Callback(p, cb, FALSE) = e BY <1>b, <1>4 DEF Callback
  <2>2. \A i \in DOMAIN p.q : p.q[i] # cb BY <1>1, <1>2, <1>4, TailFresh
  <2>3. e \in Channel /\ Stalled(e) /\ e.q = Append(p.q, cb)
    BY <1>1, <1>4, <2>2, EnqueueHalted
  <2> HIDE DEF e
  <2>4. Reload(e, FALSE) = e BY <2>3, ReloadStalled
  <2>5. QED BY <1>1, <1>4, <2>1, <2>3, <2>4 DEF p
<1>5. QED BY <1>3, <1>4

(* The interrupt that an entry point came before. *)
LEMMA LateIrq ==
  ASSUME Prompt, TypeOK, TypeOK', LateInv, Irq
  PROVE  RaceInv'
<1>b. "none" \notin Buf /\ "stop" \notin Buf BY DmaAssumption
<1>t. /\ chan \in Channel /\ chan.q \in Seq(Buf) /\ Len(chan.q) \in Nat
      /\ Distinct(chan.q) /\ Queued /\ ReportedOnceMoved /\ needflush \in BOOLEAN
  BY DEF LateInv, TypeOK, Channel
<1>1. irqpend' = FALSE BY DEF Irq
<1>2. PICK cb \in {"none", "stop"} \cup (IF chan.q = <<>> THEN {} ELSE Refills) :
        /\ chan.q = <<>> => cb = "none"
        /\ chan' = Reload(Callback(Popped(chan), cb, FALSE), FALSE)
        /\ status' = [b \in Buf |->
             CASE chan.q # <<>> /\ b = Head(chan.q) -> "ok"
               [] b = cb -> "queued"
               [] OTHER -> status[b]]
        /\ TakeUp({cb} \cap Buf)
        /\ needflush' = (needflush \/ cb = "stop")
  BY PromptChoice DEF Irq
<1>3. cb # "none" /\ cb # "stop" =>
        /\ chan.state = "RUNNING" /\ cb \in Buf
        /\ \A i \in DOMAIN chan.q : chan.q[i] # cb
  BY <1>2, UnusedFresh DEF Refills
<1>4. cb \in Buf => \A i \in DOMAIN chan.q : chan.q[i] # cb BY <1>b, <1>3
<1> DEFINE p == Popped(chan)
<1>5. CASE chan.q = <<>>
  <2>1. cb = "none" /\ {cb} \cap Buf = {} BY <1>b, <1>2, <1>5
  <2>2. Idle(chan) BY <1>5 DEF LateInv, LateIdle, LateOn
  <2>3. Callback(p, cb, FALSE) = p BY <2>1 DEF Callback
  <2>4. /\ p \in Channel /\ p.q = <<>> /\ p.next = chan.next /\ p.state = "IDLE" /\ p.ls = "NONE"
    BY <1>t, <1>5, <2>2 DEF Popped, Channel, LoadState, Idle
  <2> HIDE DEF p
  <2>5. chan' \in Channel /\ Idle(chan') /\ chan'.q = <<>> /\ chan'.next = chan.next
    BY <1>2, <2>3, <2>4, ReloadNone DEF p
  <2>6. DOMAIN chan'.q = {} BY <2>5
  <2>7. Queued' /\ Distinct(chan'.q) BY <2>6 DEF Queued, Distinct
  <2>8. ReportedOnceMoved'
    <3>1. \A x \in Buf : status'[x] = "ok" => status[x] = "ok" /\ x \notin {}
      BY <1>b, <1>2, <1>5, <2>1
    <3>2. chan'.cur = chan.cur BY <2>2, <2>5 DEF Idle
    <3>3. QED BY <1>t, <1>2, <2>1, <3>1, <3>2, SameReports
  <2>9. needflush' = needflush /\ (~needflush => chan.next = NULL)
    BY <1>2, <1>t, <1>5, <2>1 DEF LateInv, LateIdle, LateOn
  <2>10. QED BY <1>1, <1>t, <2>5, <2>7, <2>8, <2>9, StoppedInv
<1>6. CASE chan.q # <<>>
  <2>1. chan.q[1] \in done /\ taken[chan.q[1]] = 1 /\ Head(chan.q) = chan.q[1]
    BY <1>6 DEF LateInv
  <2>2. \A x \in Buf : status'[x] = IF x = chan.q[1] THEN "ok"
                                    ELSE IF x = cb THEN "queued" ELSE status[x]
    <3> SUFFICES ASSUME NEW x \in Buf
                 PROVE  status'[x] = IF x = chan.q[1] THEN "ok"
                                     ELSE IF x = cb THEN "queued" ELSE status[x]
      OBVIOUS
    <3>1. status'[x] = CASE chan.q # <<>> /\ x = Head(chan.q) -> "ok"
                         [] x = cb -> "queued"
                         [] OTHER -> status[x]
      BY <1>2
    <3>2. 1 \in DOMAIN chan.q BY <1>t, <1>6
    <3>3. x = cb => x # chan.q[1] BY <1>4, <3>2
    <3>4. QED BY <1>6, <2>1, <3>1, <3>3
  <2>3. p \in Channel /\ p.q = Tail(chan.q) /\ Distinct(p.q) /\ p.state = chan.state
        /\ (Idle(chan) => p.ls = "NONE") /\ (LateOn(chan) => Halted(p))
    <3>1. /\ Tail(chan.q) \in Seq(Buf) /\ Len(Tail(chan.q)) = Len(chan.q) - 1
          /\ \A i \in 1..Len(chan.q) - 1 : Tail(chan.q)[i] = chan.q[i + 1]
      BY <1>t, <1>6
    <3>2. p \in Channel /\ p.q = Tail(chan.q) /\ p.state = chan.state
          /\ (Idle(chan) => p.ls = "NONE")
      BY <1>t, <1>6, <3>1 DEF Popped, Channel, LoadState, Idle
    <3>3. Distinct(Tail(chan.q)) BY <1>t, <3>1 DEF Distinct
    <3>4. LateOn(chan) => Halted(p) BY <1>t, PoppedLate
    <3>5. QED BY <3>2, <3>3, <3>4
  <2> HIDE DEF p
  (* Stopped by the callback, or before it. *)
  <2>4. CASE cb = "stop" \/ LateIdle(chan, needflush)
    <3>1. PICK e \in Channel : /\ Callback(p, cb, FALSE) = e /\ e.ls = "NONE"
                               /\ e.state = "IDLE" /\ e.q = p.q
      <4>1. CASE cb = "stop"
        <5>1. Callback(p, cb, FALSE) = DoStop(p) BY <4>1 DEF Callback
        <5>2. QED BY <2>3, <5>1, DoStopProperties DEF Idle
      <4>2. CASE cb # "stop" /\ LateIdle(chan, needflush)
        <5>1. chan.state = "IDLE" /\ Idle(chan) BY <4>2 DEF LateIdle, Idle
        <5>2. cb = "none" BY <1>3, <4>2, <5>1
        <5>3. Callback(p, cb, FALSE) = p BY <5>2 DEF Callback
        <5>4. QED BY <2>3, <5>1, <5>3
      <4>3. QED BY <2>4, <4>1, <4>2
    <3>2. chan' \in Channel /\ Idle(chan') /\ chan'.q = Tail(chan.q)
      BY <1>2, <2>3, <3>1, ReloadNone DEF p
    <3>3. cb \notin Buf BY <1>b, <1>3, <2>4 DEF LateIdle, Idle
    <3>4. needflush' = TRUE BY <1>2, <1>t, <1>6, <2>4 DEF LateIdle
    <3>5. Queued' /\ Distinct(chan'.q) BY <1>t, <1>4, <1>6, <2>2, <3>2, <3>3, PopQueued
    <3>6. chan'.cur = NULL BY <3>2 DEF Idle
    <3>7. ReportedOnceMoved' BY <1>t, <1>2, <1>4, <1>6, <2>1, <2>2, <3>6, PopReports
    <3>8. QED BY <1>1, <3>2, <3>4, <3>5, <3>7, StoppedInv
  (* Still running: the channel stalls. *)
  <2>5. CASE cb # "stop" /\ ~LateIdle(chan, needflush)
    <3>1. LateOn(chan) /\ needflush = FALSE BY <1>t, <2>5 DEF LateInv
    <3>2. /\ chan' \in Channel /\ Stalled(chan')
          /\ chan'.q = IF cb \in Buf THEN Append(Tail(chan.q), cb) ELSE Tail(chan.q)
      BY <1>t, <1>2, <1>3, <2>5, <3>1, InterruptLate
    <3>3. Queued' /\ Distinct(chan'.q) BY <1>t, <1>4, <1>6, <2>2, <3>2, PopQueued
    <3>4. chan'.cur = NULL BY <3>2 DEF Stalled
    <3>5. ReportedOnceMoved' BY <1>t, <1>2, <1>4, <1>6, <2>1, <2>2, <3>4, PopReports
    <3>6. ~needflush' BY <1>2, <2>5, <3>1
    <3>7. StalledInv' BY <1>1, <3>2, <3>3, <3>5, <3>6 DEF StalledInv
    <3>8. QED BY <3>7 DEF RaceInv
  <2>6. QED BY <2>4, <2>5
<1>7. QED BY <1>5, <1>6

(* The same interrupt when its callback stops the channel and then queues. *)
LEMMA LateStopRefill ==
  ASSUME Prompt, TypeOK, TypeOK', LateInv, NEW b \in Buf, IrqStopRefill(b)
  PROVE  RaceInv'
<1>t. /\ chan \in Channel /\ chan.q \in Seq(Buf) /\ Len(chan.q) \in Nat
      /\ Distinct(chan.q) /\ Queued /\ ReportedOnceMoved
  BY DEF LateInv, TypeOK, Channel
<1>1. /\ irqpend' = FALSE /\ needflush' = TRUE /\ TakeUp({b}) /\ ~AutoStart
      /\ status' = [status EXCEPT ![Head(chan.q)] = "ok", ![b] = "queued"]
      /\ chan' = Reload(DmaEnqueue(DoStop(Popped(chan)), b, FALSE), FALSE)
      /\ chan.q # <<>>
  BY DEF IrqStopRefill
<1>2. chan.state = "RUNNING" /\ \A i \in DOMAIN chan.q : chan.q[i] # b
  BY UnusedFresh DEF IrqStopRefill, Refills
<1>3. LateOn(chan) BY <1>2 DEF LateInv, LateIdle, Idle
<1>4. chan.q[1] \in done /\ taken[chan.q[1]] = 1 /\ Head(chan.q) = chan.q[1]
  BY <1>1 DEF LateInv
<1>5. \A x \in Buf : status'[x] = IF x = chan.q[1] THEN "ok"
                                  ELSE IF x = b THEN "queued" ELSE status[x]
  <2>1. 1 \in DOMAIN chan.q BY <1>t, <1>1
  <2>2. chan.q[1] # b /\ chan.q[1] \in Buf BY <1>t, <1>2, <2>1
  <2>3. QED BY <1>1, <1>4, <2>2 DEF TypeOK
<1> DEFINE p == Popped(chan)
           s == DoStop(p)
           l == Linked(s, b)
<1>6. p \in Channel /\ Distinct(p.q) /\ p.q = Tail(chan.q) BY <1>t, <1>3, PoppedLate
<1> HIDE DEF p
<1>7. s \in Channel /\ Idle(s) /\ s.q = p.q BY <1>6, DoStopProperties
<1>8. s.state = "IDLE" /\ s.ls = "NONE" BY <1>7 DEF Idle
<1> HIDE DEF s
<1>9. \A i \in DOMAIN s.q : s.q[i] # b
  BY <1>t, <1>1, <1>2, <1>6, <1>7, TailFresh
<1>10. l \in Channel /\ l.q = Append(s.q, b) /\ l.state = s.state /\ l.ls = s.ls
  BY <1>6, <1>7, <1>9, LinkedProperties
<1>11. DmaEnqueue(s, b, FALSE) = l BY <1>1, <1>8 DEF DmaEnqueue
<1> HIDE DEF l
<1>12. chan' = Reload(l, FALSE) BY <1>1, <1>11, Zenon DEF s, p
<1>13. chan' \in Channel /\ Idle(chan') /\ chan'.q = l.q BY <1>8, <1>10, <1>12, ReloadNone
<1>14. chan'.q = Append(Tail(chan.q), b) BY <1>6, <1>7, <1>10, <1>13
<1>15. Queued' /\ Distinct(chan'.q) BY <1>t, <1>1, <1>2, <1>5, <1>14, PopQueued
<1>16. chan'.cur = NULL BY <1>13 DEF Idle
<1>17. TakeUp({b} \cap Buf)
  <2>1. {b} \cap Buf = {b} OBVIOUS
  <2>2. QED BY <1>1, <2>1, Zenon
<1>18. ReportedOnceMoved'
  BY <1>t, <1>1, <1>2, <1>4, <1>5, <1>16, <1>17, PopReports
<1>19. QED BY <1>1, <1>13, <1>15, <1>18, StoppedInv

(* Every step keeps the invariant of the prompt setting. *)
LEMMA RaceStep ==
  ASSUME Prompt, TypeOK, TypeOK', RaceInv, [Next]_dmavars
  PROVE  RaceInv'
<1>1. CASE DmaInv
  <2>1. ASSUME NEW b \in Buf, Enqueue(b) PROVE RaceInv'
    BY <1>1, <2>1, EnqueueStep, RaceEnqueue DEF RaceInv
  <2>2. CASE Start BY <1>1, <2>2, StartStep, RaceStart DEF RaceInv
  <2>3. CASE Started BY <1>1, <2>3, StartedStep, RaceStart DEF RaceInv
  <2>4. CASE Stop BY <1>1, <2>4, StopStep, RaceStop DEF RaceInv
  <2>5. CASE Flush BY <1>1, <2>5, FlushStep, RaceStop DEF RaceInv
  <2>6. CASE SuspendResume BY <1>1, <2>6, SuspendStep DEF RaceInv
  <2>7. CASE Irq BY <1>1, <2>7, IrqStep DEF RaceInv
  <2>8. ASSUME NEW b \in Buf, IrqStopRefill(b) PROVE RaceInv'
    BY <1>1, <2>8, StopRefillStep DEF RaceInv
  <2>9. CASE HwLoad BY <1>1, <2>9, HwLoadStep DEF RaceInv
  <2>10. CASE HwDone BY <1>1, <2>10, HwDoneStep DEF RaceInv
  <2>11. CASE UNCHANGED dmavars BY <1>1, <2>11, DmaStutters DEF RaceInv
  <2>12. QED
    BY <2>1, <2>2, <2>3, <2>4, <2>5, <2>6, <2>7, <2>8, <2>9, <2>10, <2>11 DEF Next
<1>2. CASE StalledInv
  <2>1. ~irqpend /\ ~chan.on BY <1>2 DEF StalledInv, Stalled
  <2>2. ~Irq /\ ~HwLoad /\ ~HwDone /\ \A b \in Buf : ~IrqStopRefill(b)
    BY <2>1 DEF Irq, HwLoad, HwDone, IrqStopRefill
  <2>3. CASE UNCHANGED dmavars
    BY <1>2, <2>3 DEF RaceInv, StalledInv, Stalled, Queued, Distinct, ReportedOnceMoved, dmavars
  <2>4. QED BY <1>2, <2>2, <2>3, StalledStep DEF Next
<1>3. CASE LateInv
  <2>1. irqpend /\ raced /\ ~chan.on BY <1>3 DEF LateInv, LateIdle, LateOn, Idle
  <2>2. /\ ~Start /\ ~Started /\ ~Stop /\ ~Flush /\ ~SuspendResume /\ ~HwLoad /\ ~HwDone
        /\ \A b \in Buf : ~Enqueue(b)
    BY <2>1 DEF Start, Started, Stop, Flush, SuspendResume, HwLoad, HwDone, Enqueue, EntryPoint
  <2>3. CASE UNCHANGED dmavars
    BY <1>3, <2>3 DEF RaceInv, LateInv, LateIdle, LateOn, Idle, Queued, Distinct,
                      ReportedOnceMoved, dmavars
  <2>4. QED BY <1>3, <2>2, <2>3, LateIrq, LateStopRefill DEF Next
<1>4. QED BY <1>1, <1>2, <1>3 DEF RaceInv

(***************************************************************************)
(* Whenever transfers end, the channel is in order, or an entry point has  *)
(* come before the interrupt of the last transfer, or the channel stalls   *)
(* with nothing of the client's reported that was not moved.               *)
(***************************************************************************)
THEOREM DmaRaceInvariant == ASSUME Prompt PROVE Spec => []RaceInv
<1>1. Init => RaceInv BY DmaInitially DEF RaceInv
<1>2. Spec => []TypeOK BY DmaTypeCorrect DEF Prompt
<1>3. TypeOK /\ TypeOK' /\ RaceInv /\ [Next]_dmavars => RaceInv' BY RaceStep
<1>4. QED BY <1>1, <1>2, <1>3, PTL DEF Spec

(***************************************************************************)
(* Every buffer s3c2410_dma_irq reports done was begun once and moved to   *)
(* its end.                                                                *)
(***************************************************************************)
THEOREM DmaReportedOnceMoved == ASSUME Prompt PROVE Spec => []ReportedOnceMoved
<1>1. Spec => []RaceInv BY DmaRaceInvariant
<1>2. RaceInv => ReportedOnceMoved BY DEF RaceInv, DmaInv, StalledInv, LateInv
<1>3. QED BY <1>1, <1>2, PTL

(* A buffer handed back by s3c2410_dma_flush is not under transfer. *)
THEOREM DmaAbortedNotMoving == ASSUME Prompt PROVE Spec => []AbortedNotMoving
<1>1. Spec => []RaceInv BY DmaRaceInvariant
<1>2. RaceInv => AbortedNotMoving
  <2>1. SUFFICES ASSUME RaceInv, NEW b \in Buf, status[b] = "abort", chan.cur = b
                 PROVE  FALSE
    BY DEF AbortedNotMoving
  <2>2. chan.cur # NULL BY <2>1, DmaAssumption
  <2>3. DmaInv
    BY <2>1, <2>2 DEF RaceInv, StalledInv, Stalled, LateInv, LateIdle, LateOn, Idle
  <2>4. \E i \in DOMAIN chan.q : chan.cur = chan.q[i]
    BY <2>2, <2>3, GoodCur DEF DmaInv, TypeOK
  <2>5. QED BY <2>1, <2>3, <2>4 DEF DmaInv, Books
<1>3. QED BY <1>1, <1>2, PTL

-----------------------------------------------------------------------------
(***************************************************************************)
(* The refinement: the chain with its two-stage hardware is the queue of   *)
(* S3CDmaQueue.                                                            *)
(***************************************************************************)

(* Of the chain, only a head whose interrupt is latched was moved. *)
Moved == \A i \in DOMAIN chan.q : chan.q[i] \in done <=> (i = 1 /\ irqpend)

(* What the mapping calls moved. *)
LEMMA MovedSet ==
  ASSUME TypeOK, Moved
  PROVE  /\ ~irqpend => ToSet(chan.q) \cap done = {}
         /\ irqpend /\ chan.q # <<>> => ToSet(chan.q) \cap done = {chan.q[1]}
<1>1. chan.q \in Seq(Buf) BY DEF TypeOK, Channel
<1>2. chan.q # <<>> => 1 \in DOMAIN chan.q BY <1>1
<1>3. QED BY <1>2 DEF Moved, ToSet

(* A step that leaves the chain and the moved buffers alone. *)
LEMMA SameChain ==
  ASSUME Moved, chan'.q = chan.q, done' = done, irqpend' = irqpend
  PROVE  Moved' /\ ToSet(chan'.q) \cap done' = ToSet(chan.q) \cap done
BY DEF Moved

(* Enqueue is QueueAdd. *)
LEMMA MapEnqueue ==
  ASSUME Chained, RaceInv, Moved, NEW b \in Buf, Enqueue(b)
  PROVE  Moved' /\ Queue!QueueAdd(b)
<1>1. TypeOK /\ chan \in Channel /\ chan.q \in Seq(Buf) /\ Linkage(chan) /\ Off(chan)
  BY DEF Chained, Settled, TypeOK, Channel
<1>2. /\ b \in Unused /\ irqpend' = irqpend /\ status' = [status EXCEPT ![b] = "queued"]
      /\ done' = done \ {b} /\ (irqpend => ~raced)
  BY DEF Enqueue, EntryPoint, TakeUp
<1>3. \A i \in DOMAIN chan.q : chan.q[i] # b BY <1>2, UnusedFresh
<1>4. PICK slow \in SlowChoice : chan' = DmaEnqueue(chan, b, slow) BY DEF Enqueue
<1>5. chan'.q = Append(chan.q, b) /\ (chan.state = "RUNNING" => chan'.state = "RUNNING")
  BY <1>1, <1>3, <1>4, SettledEnqueue
<1>6. irqpend => Len(chan.q) >= 1
  <2>1. irqpend => DmaInv BY <1>2 DEF RaceInv, StalledInv, LateInv
  <2>2. QED BY <2>1, LatchedHead
<1>7. /\ Len(chan.q) \in Nat /\ DOMAIN chan.q = 1..Len(chan.q)
      /\ DOMAIN chan'.q = 1..Len(chan.q) + 1
      /\ \A i \in 1..Len(chan.q) : chan'.q[i] = chan.q[i]
      /\ chan'.q[Len(chan.q) + 1] = b
  BY <1>1, <1>5, AppendProperties
<1>8. \A i \in 1..Len(chan.q) + 1 : i \in 1..Len(chan.q) \/ i = Len(chan.q) + 1 BY <1>7
<1>9. Moved'
  <2> SUFFICES ASSUME NEW i \in 1..Len(chan.q) + 1
               PROVE  chan'.q[i] \in done' <=> (i = 1 /\ irqpend)
    BY <1>2, <1>7 DEF Moved
  <2>1. CASE i \in 1..Len(chan.q) BY <1>2, <1>3, <1>7, <2>1 DEF Moved
  <2>2. CASE i = Len(chan.q) + 1
    <3>1. irqpend => i # 1 BY <1>6, <1>7, <2>2
    <3>2. QED BY <1>2, <1>7, <2>2, <3>1
  <2>3. QED BY <1>8, <2>1, <2>2
<1>10. ToSet(chan'.q) \cap done' = ToSet(chan.q) \cap done
  BY <1>2, <1>3, <1>7, <1>8 DEF ToSet
<1>11. b \notin ToSet(chan.q) BY <1>3 DEF ToSet
<1>12. (chan'.state = "RUNNING") \in {chan.state = "RUNNING", TRUE} BY <1>5
<1>13. QED BY <1>2, <1>5, <1>9, <1>10, <1>11, <1>12 DEF Queue!QueueAdd, Queue!ToSet, ToSet

(* Start is QueueStart, or nothing when there is nothing to load. *)
LEMMA MapStart ==
  ASSUME Chained, Moved, Start
  PROVE  Moved' /\ (Queue!QueueStart \/ UNCHANGED Queue!queuevars)
<1>1. TypeOK /\ Settled(chan) /\ chan \in Channel BY DEF Chained, TypeOK
<1>2. irqpend' = irqpend /\ status' = status /\ done' = done BY DEF Start, EntryPoint, TakeUp
<1>3. PICK slow \in SlowChoice : chan' = DmaStart(chan, slow) BY DEF Start
<1>4. Settled(chan') /\ chan'.q = chan.q /\ (chan.state = "RUNNING" => chan' = chan)
  BY <1>1, <1>3, SettledStart
<1>5. Moved' /\ ToSet(chan'.q) \cap done' = ToSet(chan.q) \cap done BY <1>2, <1>4, SameChain
<1>6. CASE chan'.state = "RUNNING"
  <2>1. chan.q # <<>> BY <1>4, <1>6, RunningFrom
  <2>2. Queue!QueueStart BY <1>2, <1>4, <1>5, <1>6, <2>1 DEF Queue!QueueStart
  <2>3. QED BY <1>5, <2>2
<1>7. CASE chan'.state # "RUNNING"
  <2>1. chan.state # "RUNNING" BY <1>4, <1>7
  <2>2. QED BY <1>2, <1>4, <1>5, <1>7, <2>1 DEF Queue!queuevars
<1>8. QED BY <1>6, <1>7

(* The client sees nothing of Started and of the hardware taking up a buffer. *)
LEMMA MapLoad ==
  ASSUME Chained, Moved, Started \/ HwLoad
  PROVE  Moved' /\ UNCHANGED Queue!queuevars
<1>1. Linkage(chan) /\ chan \in Channel BY DEF Chained, Settled, TypeOK
<1>2. irqpend' = irqpend /\ status' = status /\ done' = done
  BY DEF Started, HwLoad, EntryPoint, TakeUp
<1>3. chan'.q = chan.q /\ chan'.state = chan.state
  <2>1. CASE Started
    <3>1. PICK slow \in SlowChoice : chan' = LoadSecond(chan, slow) BY <2>1 DEF Started
    <3>2. QED BY <1>1, <3>1, LinkageSecond
  <2>2. CASE HwLoad BY <1>1, <2>2 DEF HwLoad, Channel
  <2>3. QED BY <2>1, <2>2
<1>4. Moved' /\ ToSet(chan'.q) \cap done' = ToSet(chan.q) \cap done BY <1>2, <1>3, SameChain
<1>5. QED BY <1>2, <1>3, <1>4 DEF Queue!queuevars

(* Stop is QueueStop, and so is the suspend of a channel that is on. *)
LEMMA MapStop ==
  ASSUME Chained, Moved, Stop \/ SuspendResume
  PROVE  Moved' /\ (Queue!QueueStop \/ UNCHANGED Queue!queuevars)
<1>1. chan \in Channel BY DEF Chained, TypeOK
<1>2. irqpend' = irqpend /\ status' = status /\ done' = done
  BY DEF Stop, SuspendResume, EntryPoint
<1>3. chan'.q = chan.q /\ (chan'.state = "IDLE" \/ chan'.state = chan.state)
  BY <1>1 DEF Stop, SuspendResume, DoStop, Channel
<1>4. Moved' /\ ToSet(chan'.q) \cap done' = ToSet(chan.q) \cap done BY <1>2, <1>3, SameChain
<1>5. CASE chan'.state = "IDLE"
  <2>1. (chan'.state = "RUNNING") = FALSE BY <1>5
  <2>2. QED BY <1>2, <1>3, <1>4, <2>1 DEF Queue!QueueStop
<1>6. CASE chan'.state = chan.state BY <1>2, <1>3, <1>4, <1>6 DEF Queue!queuevars
<1>7. QED BY <1>3, <1>5, <1>6

(* Flush is QueueAbort. *)
LEMMA MapFlush ==
  ASSUME Prompt, Chained, Flush
  PROVE  Moved' /\ Queue!QueueAbort
<1>1. chan \in Channel BY DEF Chained, TypeOK
<1>2. /\ chan' = DmaFlush(chan)
      /\ status' = [b \in Buf |-> IF b \in ToSet(chan.q) THEN "abort" ELSE status[b]]
  BY DEF Flush
<1>3. chan.state = "IDLE" \/ FlushHitsSelf BY DEF Flush, Prompt, FlushStops
<1>4. chan'.q = <<>> /\ chan'.state = "IDLE" BY <1>1, <1>2, <1>3 DEF DmaFlush, DoStop, Channel
<1>5. DOMAIN chan'.q = {} BY <1>4
<1>6. Moved' BY <1>5 DEF Moved
<1>7. ToSet(chan'.q) \cap done' = {} BY <1>5 DEF ToSet
<1>8. (chan'.state = "RUNNING") = FALSE BY <1>4
<1>9. QED BY <1>2, <1>4, <1>6, <1>7, <1>8 DEF Queue!QueueAbort, Queue!ToSet, ToSet

(* HwDone is QueueMove. *)
LEMMA MapHwDone ==
  ASSUME Chained, RaceInv, Moved, HwDone
  PROVE  Moved' /\ Queue!QueueMove
<1>n. NULL \notin Buf BY DmaAssumption
<1>1. /\ chan.on /\ chan.cur # NULL /\ irqpend = FALSE /\ irqpend' = TRUE
      /\ chan' = [chan EXCEPT !.cur = NULL, !.on = ~chan.norel]
      /\ done' = done \cup {chan.cur} /\ status' = status
  BY DEF HwDone, Chained, TypeOK
<1>2. DmaInv BY <1>1 DEF RaceInv, StalledInv, Stalled, LateInv
<1>3. TypeOK /\ chan \in Channel /\ chan.q \in Seq(Buf) BY DEF Chained, TypeOK, Channel
<1>4. Good(chan, irqpend, needflush) BY <1>2 DEF DmaInv
<1>5. Distinct(chan.q) /\ chan.state = "RUNNING" BY <1>1, <1>3, <1>4, StateCases DEF Good, Idle
<1>6. Len(chan.q) >= 1 /\ chan.cur = chan.q[1]
  BY <1>1, <1>3, <1>4, <1>5 DEF Good, One, Two
<1>7. chan'.q = chan.q /\ chan'.state = chan.state BY <1>1, <1>3 DEF Channel
<1>8. 1 \in DOMAIN chan.q BY <1>3, <1>6
<1>9. Moved'
  <2> SUFFICES ASSUME NEW i \in DOMAIN chan.q PROVE chan.q[i] \in done' <=> i = 1
    BY <1>1, <1>7 DEF Moved
  <2>1. chan.q[i] \notin done BY <1>1 DEF Moved
  <2>2. chan.q[i] = chan.q[1] <=> i = 1 BY <1>5, <1>8 DEF Distinct
  <2>3. QED BY <1>1, <1>6, <2>1, <2>2
<1>10. ToSet(chan.q) \cap done = {} BY <1>1, <1>3, MovedSet
<1>11. ToSet(chan'.q) \cap done' = {chan.q[1]}
  BY <1>1, <1>6, <1>7, <1>8, <1>10 DEF ToSet
<1>12. Queue!Cardinality({}) = 0
  <2>1. Queue!Cardinality({}) = Cardinality({}) BY DEF Queue!Cardinality, Cardinality
  <2>2. QED BY <2>1, FS_EmptySet
<1>13. 0 < Len(chan.q) BY <1>3, <1>6
<1>14. Queue!Cardinality(ToSet(chan.q) \cap done) = 0 BY <1>10, <1>12
<1>15. ToSet(chan'.q) \cap done' =
         (ToSet(chan.q) \cap done) \cup {chan.q[Queue!Cardinality(ToSet(chan.q) \cap done) + 1]}
  <2>1. 0 + 1 = 1 OBVIOUS
  <2>2. QED BY <1>10, <1>11, <1>14, <2>1
<1>16. QED BY <1>1, <1>5, <1>7, <1>9, <1>13, <1>14, <1>15 DEF Queue!QueueMove

(* An interrupt leaves no moved buffer in the chain. *)
LEMMA PopMoved ==
  ASSUME TypeOK, Moved, chan.q # <<>>, NEW cb, irqpend' = FALSE,
         chan'.q = IF cb \in Buf THEN Append(Tail(chan.q), cb) ELSE Tail(chan.q),
         done' = done \ ({cb} \cap Buf)
  PROVE  Moved' /\ ToSet(chan'.q) \cap done' = {}
<1> DEFINE n == Len(chan.q) - 1
<1>1. chan.q \in Seq(Buf) /\ Len(chan.q) \in Nat /\ Len(chan.q) >= 1 BY DEF TypeOK, Channel
<1>2. /\ Tail(chan.q) \in Seq(Buf) /\ Len(Tail(chan.q)) = n /\ n \in Nat
      /\ \A i \in 1..n : Tail(chan.q)[i] = chan.q[i + 1] /\ i + 1 \in DOMAIN chan.q /\ i + 1 # 1
  BY <1>1
<1>3. \A i \in 1..n : Tail(chan.q)[i] \notin done BY <1>2 DEF Moved
<1>4. \A i \in DOMAIN chan'.q : chan'.q[i] \notin done'
  <2>1. CASE cb \notin Buf
    <3>1. chan'.q = Tail(chan.q) /\ DOMAIN chan'.q = 1..n BY <1>2, <2>1
    <3>2. QED BY <1>3, <3>1
  <2>2. CASE cb \in Buf
    <3>1. /\ DOMAIN chan'.q = 1..n + 1 /\ chan'.q[n + 1] = cb
          /\ \A i \in 1..n : chan'.q[i] = Tail(chan.q)[i]
      BY <1>2, <2>2, AppendProperties
    <3>2. \A i \in 1..n + 1 : i \in 1..n \/ i = n + 1 BY <1>2
    <3> HIDE DEF n
    <3>3. cb \notin done' BY <2>2
    <3>4. QED BY <1>3, <3>1, <3>2, <3>3
  <2>3. QED BY <2>1, <2>2
<1>5. QED BY <1>4 DEF Moved, ToSet

(* An interrupt that is not told to stop keeps a channel with buffers running. *)
LEMMA KeepsRunning ==
  ASSUME TypeOK, RaceInv, irqpend, chan.state = "RUNNING", NEW cb,
         cb = "none" \/ (cb \in Buf /\ Len(chan.q) > 1 /\ \A i \in DOMAIN chan.q : chan.q[i] # cb),
         chan' = Reload(Callback(Popped(chan), cb, FALSE), FALSE), chan'.q # <<>>
  PROVE  chan'.state = "RUNNING"
<1>1. CASE DmaInv
  <2>1. Good(chan, TRUE, needflush) /\ needflush \in BOOLEAN
    BY <1>1, LatchedHead DEF TypeOK
  <2>2. cb # "stop" BY DmaAssumption
  <2>3. Good(chan', FALSE, cb = "stop")
        /\ (chan'.state = "IDLE" /\ cb # "stop" => chan'.q = <<>>)
    BY <2>1, GoodIrq
  <2>4. chan' \in Channel BY <2>3 DEF Good
  <2>5. QED BY <2>2, <2>3, <2>4, StateCases
<1>2. CASE LateInv
  <2>1. chan \in Channel /\ Distinct(chan.q) /\ LateOn(chan)
    BY <1>2 DEF LateInv, LateIdle, Idle, TypeOK
  <2>2. Stalled(chan') BY <2>1, InterruptLate
  <2>3. QED BY <2>2 DEF Stalled
<1>3. QED BY <1>1, <1>2 DEF RaceInv, StalledInv

(* Irq is QueueComplete, or nothing when the chain was flushed before it. *)
LEMMA MapIrq ==
  ASSUME Prompt, Chained, RaceInv, Moved, Irq
  PROVE  /\ Moved'
         /\ \/ \E stop \in BOOLEAN, more \in Buf \cup {NULL} : Queue!QueueComplete(stop, more)
            \/ UNCHANGED Queue!queuevars
<1>n. NULL \notin Buf BY DmaAssumption
<1>b. "none" \notin Buf /\ "stop" \notin Buf BY DmaAssumption
<1>1. TypeOK /\ Settled(chan) /\ Linkage(chan) /\ Off(chan) /\ From(chan, 2)
      /\ chan \in Channel /\ chan.q \in Seq(Buf)
  BY DEF Chained, Settled, Irq, TypeOK, Channel
<1>2. irqpend = TRUE /\ irqpend' = FALSE BY <1>1 DEF Irq, TypeOK
<1>3. PICK cb \in {"none", "stop"} \cup (IF chan.q = <<>> THEN {} ELSE Refills) :
        /\ chan.q = <<>> => cb = "none"
        /\ chan' = Reload(Callback(Popped(chan), cb, FALSE), FALSE)
        /\ status' = [b \in Buf |->
             CASE chan.q # <<>> /\ b = Head(chan.q) -> "ok"
               [] b = cb -> "queued"
               [] OTHER -> status[b]]
        /\ TakeUp({cb} \cap Buf)
        /\ needflush' = (needflush \/ cb = "stop")
  BY PromptChoice DEF Irq
<1>4. done' = done \ ({cb} \cap Buf) BY <1>3 DEF TakeUp
<1>5. \/ cb = "none"
      \/ cb = "stop"
      \/ cb \in Buf /\ Len(chan.q) > 1 /\ \A i \in DOMAIN chan.q : chan.q[i] # cb
  BY <1>3, PromptChoice, UnusedFresh DEF Refills
<1> DEFINE p == Popped(chan)
           e == Callback(p, cb, FALSE)
<1>6. /\ Linkage(p) /\ Off(p) /\ p.state = chan.state
      /\ p.q = IF chan.q = <<>> THEN chan.q ELSE Tail(chan.q)
  BY <1>1, LinkagePopped
<1> HIDE DEF p
<1>7. /\ Linkage(e) /\ Off(e)
      /\ e.q = IF cb \in Buf THEN Append(p.q, cb) ELSE p.q
      /\ e.state = "IDLE" \/ cb # "stop"
      /\ cb = "none" => e = p
  <2>1. CASE cb = "none"
    <3>1. e = p BY <2>1 DEF Callback
    <3>2. QED BY <1>b, <1>6, <2>1, <3>1
  <2>2. CASE cb = "stop"
    <3>1. e = DoStop(p) BY <2>2 DEF Callback
    <3>2. QED BY <1>b, <1>6, <2>2, <3>1, SettledStop DEF Settled
  <2>3. CASE cb \in Buf /\ Len(chan.q) > 1 /\ \A i \in DOMAIN chan.q : chan.q[i] # cb
    <3>1. p.q = Tail(chan.q) /\ chan.q # <<>> BY <1>6, <2>3
    <3>2. \A i \in DOMAIN p.q : p.q[i] # cb BY <1>1, <2>3, <3>1, TailFresh
    <3>3. e = DmaEnqueue(p, cb, FALSE) BY <1>b, <2>3 DEF Callback
    <3>4. Settled(e) /\ e.q = Append(p.q, cb) BY <1>6, <2>3, <3>2, <3>3, SettledEnqueue
    <3>5. QED BY <1>b, <2>3, <3>4 DEF Settled
  <2>4. QED BY <1>5, <2>1, <2>2, <2>3
<1>8. chan' = Reload(e, FALSE) BY <1>3 DEF p
<1> HIDE DEF e
<1>9. Settled(chan') /\ chan'.q = e.q BY <1>7, <1>8, SettledReload
<1>10. e.state = "IDLE" => chan'.state = "IDLE"
  <2>1. e.state = "IDLE" => e.ls = "NONE" /\ e \in Channel BY <1>7 DEF Off, Linkage
  <2>2. QED BY <1>8, <2>1, ReloadNone DEF Idle
<1>11. chan'.state = "RUNNING" => chan'.q # <<>> BY <1>9, RunningFrom
<1>12. CASE chan.q = <<>>
  <2>1. cb = "none" /\ chan'.q = <<>> BY <1>b, <1>3, <1>6, <1>7, <1>9, <1>12
  <2>2. chan.state # "RUNNING" /\ chan'.state # "RUNNING" BY <1>1, <1>11, <1>12, <2>1, RunningFrom
  <2>3. \A b \in Buf : status'[b] = status[b] BY <1>b, <1>3, <1>12, <2>1
  <2>4. status' = status
    <3>1. status' = [b \in Buf |-> status'[b]] BY <1>3
    <3>2. status = [b \in Buf |-> status[b]] BY <1>1 DEF TypeOK
    <3>3. QED BY <2>3, <3>1, <3>2
  <2>5. DOMAIN chan.q = {} /\ DOMAIN chan'.q = {} BY <1>12, <2>1
  <2>6. ToSet(chan.q) \cap done = {} /\ ToSet(chan'.q) \cap done' = {} BY <2>5 DEF ToSet
  <2>7. Moved' BY <2>5 DEF Moved
  <2>8. QED BY <1>12, <2>1, <2>2, <2>4, <2>6, <2>7 DEF Queue!queuevars
<1>13. CASE chan.q # <<>>
  <2> DEFINE more == IF cb \in Buf THEN cb ELSE NULL
             stop == cb = "stop"
  <2>1. chan'.q = IF cb \in Buf THEN Append(Tail(chan.q), cb) ELSE Tail(chan.q)
    BY <1>6, <1>7, <1>9, <1>13
  <2>2. Moved' /\ ToSet(chan'.q) \cap done' = {} BY <1>1, <1>2, <1>4, <1>13, <2>1, PopMoved
  <2>3. ToSet(chan.q) \cap done = {chan.q[1]} BY <1>1, <1>2, <1>13, MovedSet
  <2>4. Head(chan.q) = chan.q[1] BY <1>1, <1>13
  <2>5. more \notin ToSet(chan.q)
    <3>1. \A i \in DOMAIN chan.q : chan.q[i] \in Buf BY <1>1
    <3>2. QED BY <1>n, <1>b, <1>5, <3>1 DEF ToSet
  <2>6. status' = [b \in Buf |-> CASE b = Head(chan.q) -> "ok"
                                   [] b = more -> "queued"
                                   [] OTHER -> status[b]]
    <3>1. \A b \in Buf : b = cb <=> b = more BY <1>n
    <3> HIDE DEF more
    <3>2. QED BY <1>3, <1>13, <3>1
  <2>7. (chan'.state = "RUNNING") = (chan.state = "RUNNING" /\ ~stop /\ chan'.q # <<>>)
    <3>1. chan.state = "RUNNING" /\ ~stop /\ chan'.q # <<>> => chan'.state = "RUNNING"
      BY <1>1, <1>2, <1>3, <1>5, KeepsRunning
    <3>2. stop => chan'.state # "RUNNING" BY <1>7, <1>10
    <3>3. chan.state # "RUNNING" => chan'.state # "RUNNING"
      <4>1. chan.state # "RUNNING" => cb = "none" \/ cb = "stop" BY <1>3 DEF Refills
      <4>2. chan.state # "RUNNING" => chan.state = "IDLE" BY <1>1, StateCases
      <4>3. QED BY <1>6, <1>7, <1>10, <3>2, <4>1, <4>2
    <3>4. QED BY <1>11, <3>1, <3>2, <3>3
  <2>8. more \in Buf \cup {NULL} /\ stop \in BOOLEAN OBVIOUS
  <2>9. chan'.q = IF more = NULL THEN Tail(chan.q) ELSE Append(Tail(chan.q), more)
    BY <1>n, <2>1
  <2> HIDE DEF more, stop
  <2>10. Queue!QueueComplete(stop, more)
    BY <1>13, <2>2, <2>3, <2>4, <2>5, <2>6, <2>7, <2>9
    DEF Queue!QueueComplete, Queue!ToSet, ToSet
  <2>11. QED BY <2>2, <2>8, <2>10
<1>14. QED BY <1>12, <1>13

(* So is the interrupt whose callback stops the channel and queues b. *)
LEMMA MapStopRefill ==
  ASSUME Chained, Moved, NEW b \in Buf, IrqStopRefill(b)
  PROVE  Moved' /\ Queue!QueueComplete(TRUE, b)
<1>n. NULL \notin Buf BY DmaAssumption
<1>1. TypeOK /\ Linkage(chan) /\ Off(chan) /\ From(chan, 2) /\ chan.q \in Seq(Buf)
  BY DEF Chained, Settled, IrqStopRefill, TypeOK, Channel
<1> DEFINE p == Popped(chan)
           s == DoStop(p)
           l == Linked(s, b)
<1>2. /\ irqpend = TRUE /\ irqpend' = FALSE /\ chan.q # <<>> /\ b \in Unused /\ ~AutoStart
      /\ chan' = Reload(DmaEnqueue(s, b, FALSE), FALSE) /\ done' = done \ {b}
      /\ status' = [status EXCEPT ![Head(chan.q)] = "ok", ![b] = "queued"]
  BY <1>1 DEF IrqStopRefill, Refills, TakeUp, TypeOK
<1>3. \A i \in DOMAIN chan.q : chan.q[i] # b BY <1>2, UnusedFresh
<1>4. Linkage(p) /\ p.q = Tail(chan.q) BY <1>1, <1>2, LinkagePopped
<1> HIDE DEF p
<1>5. Settled(s) /\ s.q = Tail(chan.q) /\ s.state = "IDLE" BY <1>4, SettledStop
<1> HIDE DEF s
<1>6. s \in Channel /\ s.ls = "NONE" /\ Distinct(s.q) BY <1>5 DEF Settled, Off, Linkage
<1>7. \A i \in DOMAIN s.q : s.q[i] # b BY <1>1, <1>2, <1>3, <1>5, TailFresh
<1>8. l \in Channel /\ l.q = Append(s.q, b) /\ l.state = s.state /\ l.ls = s.ls
  BY <1>6, <1>7, LinkedProperties
<1>9. DmaEnqueue(s, b, FALSE) = l BY <1>2, <1>5 DEF DmaEnqueue
<1> HIDE DEF l
<1>10. Idle(chan') /\ chan'.q = Append(Tail(chan.q), b)
  BY <1>2, <1>5, <1>6, <1>8, <1>9, ReloadNone
<1>11. {b} \cap Buf = {b} OBVIOUS
<1>12. Moved' /\ ToSet(chan'.q) \cap done' = {} BY <1>1, <1>2, <1>10, <1>11, PopMoved
<1>13. ToSet(chan.q) \cap done = {chan.q[1]} BY <1>1, <1>2, MovedSet
<1>14. Head(chan.q) = chan.q[1] /\ 1 \in DOMAIN chan.q BY <1>1, <1>2
<1>15. chan.q[1] # b /\ chan.q[1] \in Buf BY <1>1, <1>3, <1>14
<1>16. b \notin ToSet(chan.q) BY <1>3 DEF ToSet
<1>17. status' = [x \in Buf |-> CASE x = Head(chan.q) -> "ok"
                                 [] x = b -> "queued"
                                 [] OTHER -> status[x]]
  <2>1. \A x \in Buf : status'[x] = CASE x = Head(chan.q) -> "ok"
                                      [] x = b -> "queued"
                                      [] OTHER -> status[x]
    <3> SUFFICES ASSUME NEW x \in Buf
                 PROVE  status'[x] = CASE x = Head(chan.q) -> "ok"
                                       [] x = b -> "queued"
                                       [] OTHER -> status[x]
      OBVIOUS
    <3>1. CASE x = Head(chan.q) BY <1>1, <1>2, <1>14, <1>15, <3>1 DEF TypeOK
    <3>2. CASE x # Head(chan.q) BY <1>1, <1>2, <1>14, <1>15, <3>2 DEF TypeOK
    <3>3. QED BY <3>1, <3>2
  <2>2. DOMAIN status' = Buf BY <1>1, <1>2 DEF TypeOK
  <2>3. status' = [x \in Buf |-> status'[x]] BY <1>1, <1>2, <2>2 DEF TypeOK
  <2>4. QED BY <2>1, <2>3
<1>18. (chan'.state = "RUNNING") = FALSE BY <1>10 DEF Idle
<1>19. QED
  BY <1>n, <1>2, <1>10, <1>12, <1>13, <1>14, <1>16, <1>17, <1>18
  DEF Queue!QueueComplete, Queue!ToSet, ToSet

(* Every step of the channel is a step of the queue or invisible to it. *)
LEMMA MapStep ==
  ASSUME Prompt, Chained, RaceInv, Moved, [Next]_dmavars
  PROVE  Moved' /\ (Queue!QueueNext \/ UNCHANGED Queue!queuevars)
<1>1. ASSUME NEW b \in Buf, Enqueue(b) PROVE Moved' /\ Queue!QueueNext
  BY <1>1, MapEnqueue DEF Queue!QueueNext
<1>2. CASE Start BY <1>2, MapStart DEF Queue!QueueNext
<1>3. CASE Started \/ HwLoad BY <1>3, MapLoad
<1>4. CASE Stop \/ SuspendResume BY <1>4, MapStop DEF Queue!QueueNext
<1>5. CASE Flush BY <1>5, MapFlush DEF Queue!QueueNext
<1>6. CASE HwDone BY <1>6, MapHwDone DEF Queue!QueueNext
<1>7. CASE Irq BY <1>7, MapIrq DEF Queue!QueueNext
<1>8. ASSUME NEW b \in Buf, IrqStopRefill(b) PROVE Moved' /\ Queue!QueueNext
  <2>1. Moved' /\ Queue!QueueComplete(TRUE, b) BY <1>8, MapStopRefill
  <2>2. QED BY <2>1 DEF Queue!QueueNext
<1>9. CASE UNCHANGED dmavars BY <1>9 DEF dmavars, Moved, Queue!queuevars
<1>10. QED BY <1>1, <1>2, <1>3, <1>4, <1>5, <1>6, <1>7, <1>8, <1>9 DEF Next

(***************************************************************************)
(* ImplementsQueue: buffers are moved and reported in the order in which   *)
(* s3c2410_dma_enqueue was called with them, none twice and none lost,     *)
(* whenever transfers end, entry points included.                          *)
(***************************************************************************)
THEOREM DmaImplementsQueue == ASSUME Prompt PROVE Spec => ImplementsQueue
<1>1. Init => Moved /\ Queue!QueueInit
  <2> SUFFICES ASSUME Init PROVE Moved /\ Queue!QueueInit OBVIOUS
  <2>1. chan.q = <<>> /\ DOMAIN chan.q = {} /\ done = {} BY DEF Init
  <2>2. Moved BY <2>1 DEF Moved
  <2>3. chan.state = "IDLE" /\ status = [b \in Buf |-> "none"] BY DEF Init
  <2>4. QED BY <2>1, <2>2, <2>3 DEF Queue!QueueInit
<1>2. Spec => []Chained BY DmaChained DEF Prompt
<1>3. Spec => []RaceInv BY DmaRaceInvariant
<1>4. Chained /\ RaceInv /\ Moved /\ [Next]_dmavars =>
        Moved' /\ [Queue!QueueNext]_(Queue!queuevars)
  BY MapStep
<1>5. QED BY <1>1, <1>2, <1>3, <1>4, PTL DEF Spec, ImplementsQueue, Queue!QueueSpec
=============================================================================
