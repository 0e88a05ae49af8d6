-------------------------- MODULE S3CDmaMapProofs ---------------------------
(***************************************************************************)
(* Proofs about the allocation of the hardware channels, for any kernel    *)
(* configuration, with request_irq failing at any time.                    *)
(***************************************************************************)
EXTENDS S3CDmaMap, TLAPS

Claimed(v) == driver[v] \in {"irq", "held"}

(* The channel carries the marks of the driver of v. *)
Marked(h, v) == in_use[h] /\ claimed[h] /\ client[h] = v /\ req_ch[h] = v

(***************************************************************************)
(* The invariant.  From the moment the interrupts are let in again, for    *)
(* request_irq, to the release, the channel is found by the number the     *)
(* driver holds and is marked as the driver's, unless it was freed with a  *)
(* warning.  The numbers that nobody claims, 0 among them, resolve to      *)
(* nothing.                                                                *)
(***************************************************************************)
OwnChannel ==
  \A v \in Claims : Claimed(v) =>
    /\ given[v] \in Hw /\ chan_map[v] = given[v]
    /\ given[v] \in warned \/ Marked(given[v], v)

Unclaimed == \A v \in Virt \ Claims : chan_map[v] = NULL

MapGood == TypeOK /\ OwnChannel /\ Unclaimed

-----------------------------------------------------------------------------
(* Facts about the tables and the search. *)

(* A set of at most four numbers has a smallest one. *)
LEMMA MinAmongFour ==
  ASSUME NEW S \in SUBSET (0..4), S # {}
  PROVE  Min(S) \in S
<1>1. \E x \in S : \A y \in S : x <= y
  <2>1. CASE 0 \in S
    BY <2>1
  <2>2. CASE 0 \notin S /\ 1 \in S
    BY <2>2
  <2>3. CASE 0 \notin S /\ 1 \notin S /\ 2 \in S
    BY <2>3
  <2>4. CASE 0 \notin S /\ 1 \notin S /\ 2 \notin S /\ 3 \in S
    BY <2>4
  <2>5. CASE 0 \notin S /\ 1 \notin S /\ 2 \notin S /\ 3 \notin S /\ 4 \in S
    BY <2>5
  <2>6. 0 \in S \/ 1 \in S \/ 2 \in S \/ 3 \in S \/ 4 \in S
    <3>1. PICK x \in S : x \in 0..4
      OBVIOUS
    <3>2. x = 0 \/ x = 1 \/ x = 2 \/ x = 3 \/ x = 4
      BY <3>1
    <3>3. QED
      BY <3>1, <3>2
  <2>7. QED
    BY <2>1, <2>2, <2>3, <2>4, <2>5, <2>6
<1>2. QED
  BY <1>1 DEF Min

(* The tables hold hardware channels. *)
LEMMA TablesTyped ==
  ASSUME NEW v \in Virt
  PROVE  /\ Wired[v] \in SUBSET Hw
         /\ DOMAIN Order[v] \in SUBSET (1..4)
         /\ \A i \in DOMAIN Order[v] : Order[v][i] \in Hw
<1>1. Wired[v] \in SUBSET Hw
  BY DEF Wired, Hw, Virt, XD0, XD1, SDI, SPI0, I2S_IN, I2S_OUT, PCM_IN, PCM_OUT, MIC_IN
<1>2. Order[v] \in {<<3, 2, 1, 0>>, <<1, 2>>, <<2, 1>>, <<1, 3>>, <<3, 2>>, <<>>}
  BY DEF Order
<1>3. QED
  BY <1>1, <1>2 DEF Hw

(* s3c2410_dma_map_channel returns a free channel, of the lists if there is one. *)
LEMMA MapChannelFree ==
  ASSUME NEW v \in Virt, NULL \notin Hw, MapChannel(v) # NULL
  PROVE  /\ MapChannel(v) \in Hw /\ ~in_use[MapChannel(v)]
         /\ \/ MapChannel(v) \in Wired[v]
            \/ \E i \in DOMAIN Order[v] : MapChannel(v) = Order[v][i]
<1> DEFINE ordered == {i \in DOMAIN Order[v] : ~in_use[Order[v][i]]}
           wired == {h \in Wired[v] : ~in_use[h]}
<1>1. /\ Wired[v] \in SUBSET Hw /\ DOMAIN Order[v] \in SUBSET (1..4)
      /\ \A i \in DOMAIN Order[v] : Order[v][i] \in Hw
  BY TablesTyped
<1>2. CASE ordered # {}
  <2>1. MapChannel(v) = Order[v][Min(ordered)]
    BY <1>2 DEF MapChannel
  <2>2. ordered \in SUBSET (0..4)
    BY <1>1
  <2>3. Min(ordered) \in ordered
    BY <1>2, <2>2, MinAmongFour
  <2>4. QED
    BY <1>1, <2>1, <2>3
<1>3. CASE ordered = {} /\ wired # {}
  <2>1. MapChannel(v) = Min(wired)
    BY <1>3 DEF MapChannel
  <2>2. wired \in SUBSET (0..4)
    BY <1>1 DEF Hw
  <2>3. Min(wired) \in wired
    BY <1>3, <2>2, MinAmongFour
  <2>4. QED
    BY <1>1, <2>1, <2>3
<1>4. CASE ordered = {} /\ wired = {}
  BY <1>4 DEF MapChannel
<1>5. QED
  BY <1>2, <1>3, <1>4

-----------------------------------------------------------------------------
(* Every step keeps the invariant. *)

(* What MapGood says of the types, one variable at a time. *)
LEMMA GoodTypes ==
  ASSUME MapGood
  PROVE  /\ in_use \in [Hw -> BOOLEAN] /\ claimed \in [Hw -> BOOLEAN] /\ run \in [Hw -> BOOLEAN]
         /\ client \in [Hw -> Virt \cup {NULL}] /\ req_ch \in [Hw -> Virt \cup {NULL}]
         /\ chan_map \in [Virt -> Hw \cup {NULL}] /\ chain \in [Hw -> SUBSET {"own", "left"}]
         /\ driver \in [Claims -> {"out", "irq", "held", "undo", "failed"}]
         /\ given \in [Claims -> Hw \cup {NULL}] /\ xfer \in [Claims -> BOOLEAN]
         /\ dma_list \in (SUBSET Claims) \cup {NULL} /\ ReleaseFindsEntry
         /\ warned \in SUBSET Hw /\ built \in Configs /\ built \in SUBSET Claims
         /\ NULL \notin Hw /\ NULL \notin Virt /\ Claims \subseteq Virt
<1>1. Claims \subseteq Virt
  BY DEF Claims, Virt
<1>2. QED
  BY <1>1, MapAssumption DEF MapGood, TypeOK

(* Two drivers do not hold the same channel, unless it was freed with a warning. *)
LEMMA OwnersDiffer ==
  ASSUME MapGood, NEW v \in Claims, NEW u \in Claims, u # v, Claimed(v), Claimed(u),
         given[v] \notin warned
  PROVE  given[u] # given[v]
BY DEF MapGood, OwnChannel, Marked

(* The number a driver holds names the channel it was given. *)
LEMMA LookupGiven ==
  ASSUME MapGood, NEW v \in Claims, Claimed(v)
  PROVE  Lookup(v) = given[v] /\ given[v] \in Hw /\ Lookup(v) # NULL /\ chan_map[v] = given[v]
BY GoodTypes DEF MapGood, OwnChannel, Lookup

LEMMA RequestGood ==
  ASSUME MapGood, NEW v \in Claims, Request(v)
  PROVE  MapGood'
<1> DEFINE h == MapChannel(v)
<1>1. /\ driver[v] = "out" /\ h # NULL
      /\ client' = [client EXCEPT ![h] = v] /\ in_use' = [in_use EXCEPT ![h] = TRUE]
      /\ claimed' = [claimed EXCEPT ![h] = TRUE] /\ req_ch' = [req_ch EXCEPT ![h] = v]
      /\ chan_map' = [chan_map EXCEPT ![v] = h] /\ driver' = [driver EXCEPT ![v] = "irq"]
      /\ given' = [given EXCEPT ![v] = h]
      /\ UNCHANGED <<built, run, chain, xfer, dma_list, warned>>
  BY DEF Request
<1>2. v \in Virt /\ h \in Hw /\ ~in_use[h]
  BY <1>1, GoodTypes, MapChannelFree
<1> HIDE DEF h
<1>3. TypeOK'
  BY <1>1, <1>2, GoodTypes DEF MapGood, TypeOK, ReleaseFindsEntry
<1>4. OwnChannel'
  <2> SUFFICES ASSUME NEW u \in Claims, Claimed(u)'
               PROVE  /\ given'[u] \in Hw /\ chan_map'[u] = given'[u]
                      /\ given'[u] \in warned' \/ Marked(given[u], u)'
    BY DEF OwnChannel
  <2>1. CASE u = v
    BY <1>1, <1>2, <2>1, GoodTypes DEF Marked
  <2>2. CASE u # v
    <3>1. Claimed(u) /\ given'[u] = given[u]
      BY <1>1, <2>2, GoodTypes DEF Claimed
    <3>2. given[u] \in warned \/ given[u] # h
      BY <1>2, <3>1 DEF MapGood, OwnChannel, Marked
    <3>3. QED
      BY <1>1, <1>2, <2>2, <3>1, <3>2, GoodTypes DEF MapGood, OwnChannel, Marked
  <2>3. QED
    BY <2>1, <2>2
<1>5. Unclaimed'
  BY <1>1, <1>2, GoodTypes DEF MapGood, Unclaimed
<1>6. QED
  BY <1>3, <1>4, <1>5 DEF MapGood

(* Steps that leave the table and the warnings alone, and give no driver a  *)
(* channel it did not have.                                                 *)
LEMMA TableKept ==
  ASSUME MapGood, UNCHANGED <<built, table, given, warned>>,
         driver' \in [Claims -> {"out", "irq", "held", "undo", "failed"}],
         \A u \in Claims : Claimed(u)' => Claimed(u),
         dma_list' \in (SUBSET Claims) \cup {NULL}, ReleaseFindsEntry',
         run' \in [Hw -> BOOLEAN], chain' \in [Hw -> SUBSET {"own", "left"}],
         xfer' \in [Claims -> BOOLEAN]
  PROVE  MapGood'
<1>1. \A u \in Claims : driver'[u] \in {"irq", "held"} => given'[u] \in Hw
  BY DEF MapGood, OwnChannel, Claimed
<1>2. TypeOK'
  BY <1>1, GoodTypes DEF MapGood, TypeOK, table
<1>3. OwnChannel' /\ Unclaimed'
  BY GoodTypes DEF MapGood, OwnChannel, Unclaimed, Marked, table
<1>4. QED
  BY <1>2, <1>3 DEF MapGood

LEMMA RequestBusyGood ==
  ASSUME MapGood, NEW v \in Claims, RequestBusy(v)
  PROVE  MapGood'
<1>1. PICK s \in {"out", "undo"} : driver' = [driver EXCEPT ![v] = s]
  BY DEF RequestBusy, RequestFailed
<1>2. driver[v] = "out" /\ UNCHANGED <<built, table, run, chain, given, xfer, dma_list, warned>>
  BY DEF RequestBusy
<1>3. /\ driver' \in [Claims -> {"out", "irq", "held", "undo", "failed"}] /\ ReleaseFindsEntry'
      /\ \A u \in Claims : Claimed(u)' => Claimed(u)
  BY <1>1, <1>2, GoodTypes DEF Claimed, ReleaseFindsEntry
<1>4. QED
  BY <1>2, <1>3, GoodTypes, TableKept

LEMMA RequestDoneGood ==
  ASSUME MapGood, NEW v \in Claims, RequestDone(v)
  PROVE  MapGood'
<1>1. /\ driver[v] = "irq" /\ driver' = [driver EXCEPT ![v] = "held"]
      /\ dma_list' = IF LowLevel(v) \/ dma_list = NULL THEN dma_list ELSE dma_list \cup {v}
      /\ UNCHANGED <<built, table, run, chain, given, xfer, warned>>
  BY DEF RequestDone
<1>2. dma_list' \in (SUBSET Claims) \cup {NULL} /\ ReleaseFindsEntry'
  <2>1. CASE LowLevel(v) \/ dma_list = NULL
    BY <1>1, <2>1, GoodTypes DEF ReleaseFindsEntry
  <2>2. CASE ~(LowLevel(v) \/ dma_list = NULL)
    BY <1>1, <2>2, GoodTypes DEF ReleaseFindsEntry
  <2>3. QED
    BY <2>1, <2>2
<1>3. /\ driver' \in [Claims -> {"out", "irq", "held", "undo", "failed"}]
      /\ \A u \in Claims : Claimed(u)' => Claimed(u)
  BY <1>1, GoodTypes DEF Claimed
<1>4. QED
  BY <1>1, <1>2, <1>3, GoodTypes, TableKept

LEMMA RequestIrqFailedGood ==
  ASSUME MapGood, NEW v \in Claims, RequestIrqFailed(v)
  PROVE  MapGood'
<1> DEFINE h == given[v]
<1>1. PICK s \in {"out", "undo"} :
      /\ driver[v] = "irq" /\ driver' = [driver EXCEPT ![v] = s]
      /\ in_use' = [in_use EXCEPT ![h] = FALSE] /\ claimed' = [claimed EXCEPT ![h] = FALSE]
      /\ given' = [given EXCEPT ![v] = NULL]
      /\ UNCHANGED <<built, client, req_ch, chan_map, run, chain, xfer, dma_list, warned>>
  BY DEF RequestIrqFailed, RequestFailed
<1>2. h \in Hw /\ Claimed(v)
  BY <1>1, LookupGiven DEF Claimed
<1>3. TypeOK'
  BY <1>1, <1>2, GoodTypes DEF MapGood, TypeOK, ReleaseFindsEntry
<1>4. OwnChannel'
  <2> SUFFICES ASSUME NEW u \in Claims, Claimed(u)'
               PROVE  /\ given'[u] \in Hw /\ chan_map'[u] = given'[u]
                      /\ given'[u] \in warned' \/ Marked(given[u], u)'
    BY DEF OwnChannel
  <2>1. u # v /\ Claimed(u) /\ given'[u] = given[u]
    BY <1>1, GoodTypes DEF Claimed
  <2>2. given[u] \in warned \/ given[u] # h
    BY <1>2, <2>1, OwnersDiffer
  <2>3. QED
    BY <1>1, <1>2, <2>1, <2>2, GoodTypes DEF MapGood, OwnChannel, Marked
<1>5. Unclaimed'
  BY <1>1 DEF MapGood, Unclaimed
<1>6. QED
  BY <1>3, <1>4, <1>5 DEF MapGood

(***************************************************************************)
(* s3c2410_dma_free by the driver of v: another driver keeps its channel,  *)
(* or the free came from a different client than the channel's and was     *)
(* warned of.                                                              *)
(***************************************************************************)
LEMMA FreeOthers ==
  ASSUME MapGood, NEW v \in Claims, NEW h \in Hw \cup {NULL}, FreeNumber(h, v)
  PROVE  /\ in_use' \in [Hw -> BOOLEAN] /\ claimed' \in [Hw -> BOOLEAN]
         /\ client' \in [Hw -> Virt \cup {NULL}] /\ req_ch' = req_ch
         /\ chan_map' \in [Virt -> Hw \cup {NULL}] /\ run' \in [Hw -> BOOLEAN]
         /\ chain' \in [Hw -> SUBSET {"own", "left"}]
         /\ warned' \in SUBSET Hw /\ warned \subseteq warned'
         /\ Unclaimed'
         /\ \A u \in Claims : u # v /\ Claimed(u) =>
              /\ chan_map'[u] = chan_map[u]
              /\ given[u] \in warned' \/ given[u] # h
<1>1. CASE h = NULL
  <2>1. UNCHANGED <<table, run, chain, warned>>
    BY <1>1 DEF FreeNumber
  <2>2. \A u \in Claims : Claimed(u) => given[u] # h
    BY <1>1, GoodTypes, LookupGiven
  <2>3. QED
    BY <2>1, <2>2, GoodTypes DEF table, MapGood, Unclaimed
<1>2. CASE h # NULL
  <2>1. /\ h \in Hw /\ warned' = IF client[h] = v THEN warned ELSE warned \cup {h}
        /\ client' = [client EXCEPT ![h] = NULL] /\ in_use' = [in_use EXCEPT ![h] = FALSE]
        /\ claimed' = [claimed EXCEPT ![h] = FALSE] /\ run' = [run EXCEPT ![h] = FALSE]
        /\ chain' = [chain EXCEPT ![h] = IF @ = {} THEN {} ELSE {"left"}]
        /\ chan_map' = IF LowLevel(v) THEN chan_map ELSE [chan_map EXCEPT ![v] = NULL]
        /\ req_ch' = req_ch
    BY <1>2 DEF FreeNumber, FreeTable
  <2>2. \A u \in Claims : u # v /\ Claimed(u) => given[u] \in warned' \/ given[u] # h
    BY <2>1 DEF MapGood, OwnChannel, Marked
  <2>3. chain' \in [Hw -> SUBSET {"own", "left"}]
    BY <2>1, GoodTypes
  <2>4. Unclaimed'
    BY <2>1, GoodTypes DEF MapGood, Unclaimed
  <2>5. QED
    BY <2>1, <2>2, <2>3, <2>4, GoodTypes
<1>3. QED
  BY <1>1, <1>2

(* The driver of v gives its channel back, or undoes its failed request. *)
LEMMA FreeGoodStep ==
  ASSUME MapGood, NEW v \in Claims, NEW h \in Hw \cup {NULL}, FreeNumber(h, v),
         NEW s \in {"out", "failed"}, driver' = [driver EXCEPT ![v] = s],
         given' \in [Claims -> Hw \cup {NULL}], \A u \in Claims : u # v => given'[u] = given[u],
         dma_list' \in (SUBSET Claims) \cup {NULL}, ReleaseFindsEntry',
         xfer' \in [Claims -> BOOLEAN], built' = built
  PROVE  MapGood'
<1>1. \A u \in Claims : Claimed(u)' => u # v /\ Claimed(u) /\ given'[u] = given[u]
  BY GoodTypes DEF Claimed
<1>2. TypeOK'
  <2>1. \A u \in Claims : driver'[u] \in {"irq", "held"} => given'[u] \in Hw
    BY <1>1 DEF MapGood, OwnChannel, Claimed
  <2>2. driver' \in [Claims -> {"out", "irq", "held", "undo", "failed"}]
    BY GoodTypes
  <2>3. /\ in_use' \in [Hw -> BOOLEAN] /\ claimed' \in [Hw -> BOOLEAN]
        /\ client' \in [Hw -> Virt \cup {NULL}] /\ req_ch' = req_ch
        /\ chan_map' \in [Virt -> Hw \cup {NULL}] /\ run' \in [Hw -> BOOLEAN]
        /\ chain' \in [Hw -> SUBSET {"own", "left"}] /\ warned' \in SUBSET Hw
    BY FreeOthers
  <2>4. QED
    BY <2>1, <2>2, <2>3, GoodTypes DEF TypeOK
<1>3. OwnChannel'
  <2> SUFFICES ASSUME NEW u \in Claims, Claimed(u)'
               PROVE  /\ given'[u] \in Hw /\ chan_map'[u] = given'[u]
                      /\ given'[u] \in warned' \/ Marked(given[u], u)'
    BY DEF OwnChannel
  <2>1. u # v /\ Claimed(u) /\ given'[u] = given[u]
    BY <1>1
  <2>2. /\ chan_map'[u] = chan_map[u] /\ warned \subseteq warned'
        /\ given[u] \in warned' \/ given[u] # h
    BY <2>1, FreeOthers
  <2>3. /\ given[u] \in Hw /\ chan_map[u] = given[u]
        /\ given[u] \in warned \/ Marked(given[u], u)
    BY <2>1 DEF MapGood, OwnChannel
  <2>4. ASSUME given[u] # h, Marked(given[u], u) PROVE Marked(given[u], u)'
    BY <2>1, <2>3, <2>4, GoodTypes DEF FreeNumber, FreeTable, Marked, table
  <2>5. QED
    BY <2>1, <2>2, <2>3, <2>4
<1>4. QED
  BY <1>2, <1>3, FreeOthers DEF MapGood

LEMMA RequestUndoGood ==
  ASSUME MapGood, NEW v \in Claims, RequestUndo(v)
  PROVE  MapGood'
<1>1. /\ driver[v] = "undo" /\ FreeNumber(chan_map[v], v)
      /\ driver' = [driver EXCEPT ![v] = "failed"]
      /\ UNCHANGED <<built, given, xfer, dma_list>>
  BY DEF RequestUndo
<1>2. ReleaseFindsEntry' /\ chan_map[v] \in Hw \cup {NULL}
  BY <1>1, GoodTypes DEF ReleaseFindsEntry
<1>3. PICK h \in Hw \cup {NULL} : h = chan_map[v]
  BY <1>2
<1>4. FreeNumber(h, v)
  BY <1>1, <1>3
<1>5. QED
  BY <1>1, <1>2, <1>4, GoodTypes, FreeGoodStep

LEMMA TransferGood ==
  ASSUME MapGood, NEW v \in Claims, Transfer(v)
  PROVE  MapGood'
<1>1. driver[v] = "held" /\ UNCHANGED <<built, table, driver, given, dma_list, warned>>
  BY DEF Transfer
<1>2. Lookup(v) \in Hw
  BY <1>1, LookupGiven DEF Claimed
<1>3. /\ run' \in [Hw -> BOOLEAN] /\ chain' \in [Hw -> SUBSET {"own", "left"}]
      /\ xfer' \in [Claims -> BOOLEAN]
  BY <1>2, GoodTypes DEF Transfer
<1>4. ReleaseFindsEntry' /\ \A u \in Claims : Claimed(u)' => Claimed(u)
  BY <1>1, GoodTypes DEF ReleaseFindsEntry, Claimed
<1>5. QED
  BY <1>1, <1>3, <1>4, GoodTypes, TableKept

LEMMA CompleteGood ==
  ASSUME MapGood, NEW h \in Hw, Complete(h)
  PROVE  MapGood'
<1>1. UNCHANGED <<built, table, driver, given, dma_list, warned>>
  BY DEF Complete
<1>2. /\ run' \in [Hw -> BOOLEAN] /\ chain' \in [Hw -> SUBSET {"own", "left"}]
  BY GoodTypes DEF Complete
<1>3. xfer' \in [Claims -> BOOLEAN]
  BY DEF Complete
<1>4. ReleaseFindsEntry' /\ \A u \in Claims : Claimed(u)' => Claimed(u)
  BY <1>1, GoodTypes DEF ReleaseFindsEntry, Claimed
<1>5. QED
  BY <1>1, <1>2, <1>3, <1>4, GoodTypes, TableKept

LEMMA StopGood ==
  ASSUME MapGood, NEW v \in Claims, Stop(v)
  PROVE  MapGood'
<1>1. driver[v] = "held" /\ UNCHANGED <<built, table, driver, given, dma_list, warned, chain>>
  BY DEF Stop
<1>2. Lookup(v) \in Hw
  BY <1>1, LookupGiven DEF Claimed
<1>3. run' \in [Hw -> BOOLEAN] /\ xfer' \in [Claims -> BOOLEAN]
  BY <1>2, GoodTypes DEF Stop
<1>4. ReleaseFindsEntry' /\ \A u \in Claims : Claimed(u)' => Claimed(u)
  BY <1>1, GoodTypes DEF ReleaseFindsEntry, Claimed
<1>5. QED
  BY <1>1, <1>3, <1>4, GoodTypes, TableKept

LEMMA FlushGood ==
  ASSUME MapGood, NEW v \in Claims, Flush(v)
  PROVE  MapGood'
<1>1. driver[v] = "held" /\ UNCHANGED <<built, table, driver, given, dma_list, warned>>
  BY DEF Flush
<1>2. Lookup(v) \in Hw
  BY <1>1, LookupGiven DEF Claimed
<1>3. chain' \in [Hw -> SUBSET {"own", "left"}] /\ xfer' \in [Claims -> BOOLEAN]
  BY <1>2, GoodTypes DEF Flush
<1>4. run' \in [Hw -> BOOLEAN]
  BY GoodTypes DEF Flush
<1>5. ReleaseFindsEntry' /\ \A u \in Claims : Claimed(u)' => Claimed(u)
  BY <1>1, GoodTypes DEF ReleaseFindsEntry, Claimed
<1>6. QED
  BY <1>1, <1>3, <1>4, <1>5, GoodTypes, TableKept

LEMMA FreeGood ==
  ASSUME MapGood, NEW v \in Claims, Free(v)
  PROVE  MapGood'
<1>1. driver[v] = "held" /\ Claimed(v) /\ FreeNumber(Lookup(v), v) /\ Unlist(v)
  BY DEF Free, Claimed
<1>2. PICK h \in Hw \cup {NULL} : h = Lookup(v)
  BY <1>1, LookupGiven
<1>3. /\ driver' = [driver EXCEPT ![v] = "out"] /\ given' = [given EXCEPT ![v] = NULL]
      /\ xfer' = [xfer EXCEPT ![v] = FALSE] /\ built' = built
  BY DEF Free
<1>4. dma_list' \in (SUBSET Claims) \cup {NULL} /\ ReleaseFindsEntry'
  <2>1. CASE LowLevel(v) \/ dma_list = NULL
    BY <1>1, <1>3, <2>1, GoodTypes DEF ReleaseFindsEntry, Unlist
  <2>2. CASE ~LowLevel(v) /\ dma_list # NULL
    <3>1. v \in dma_list
      BY <1>1, <2>2, GoodTypes DEF ReleaseFindsEntry
    <3>2. dma_list' = dma_list \ {v}
      BY <1>1, <2>2, <3>1 DEF Unlist
    <3>3. QED
      BY <1>3, <2>2, <3>2, GoodTypes DEF ReleaseFindsEntry
  <2>3. QED
    BY <2>1, <2>2
<1>5. FreeNumber(h, v)
  BY <1>1, <1>2
<1>6. /\ given' \in [Claims -> Hw \cup {NULL}] /\ xfer' \in [Claims -> BOOLEAN]
      /\ \A u \in Claims : u # v => given'[u] = given[u]
  BY <1>3, GoodTypes
<1>7. QED
  BY <1>3, <1>4, <1>5, <1>6, FreeGoodStep

LEMMA ReleaseFailedGood ==
  ASSUME MapGood, NEW v \in Claims, ReleaseFailed(v)
  PROVE  MapGood'
<1>1. /\ driver[v] = "failed" /\ dma_list' = NULL /\ driver' = [driver EXCEPT ![v] = "out"]
      /\ UNCHANGED <<built, table, run, chain, given, xfer, warned>>
  BY DEF ReleaseFailed
<1>2. /\ driver' \in [Claims -> {"out", "irq", "held", "undo", "failed"}]
      /\ \A u \in Claims : Claimed(u)' => Claimed(u)
  BY <1>1, GoodTypes DEF Claimed
<1>3. dma_list' \in (SUBSET Claims) \cup {NULL}
  <2>1. NULL \in (SUBSET Claims) \cup {NULL}
    OBVIOUS
  <2>2. QED
    BY <1>1, <2>1
<1>4. ReleaseFindsEntry'
  BY <1>1 DEF ReleaseFindsEntry
<1>5. QED
  BY <1>1, <1>2, <1>3, <1>4, GoodTypes, TableKept

LEMMA MapInitially == Init => MapGood
<1> SUFFICES ASSUME Init PROVE MapGood
  OBVIOUS
<1>1. TypeOK
  BY MapAssumption DEF Init, TypeOK, ReleaseFindsEntry
<1>2. OwnChannel /\ Unclaimed
  BY DEF Init, OwnChannel, Unclaimed, Claimed
<1>3. QED
  BY <1>1, <1>2 DEF MapGood

LEMMA MapSteps == MapGood /\ [Next]_vars => MapGood'
<1> SUFFICES ASSUME MapGood, [Next]_vars PROVE MapGood'
  OBVIOUS
<1>1. ASSUME NEW v \in built,
             \/ Request(v) \/ RequestBusy(v) \/ RequestDone(v) \/ RequestIrqFailed(v)
             \/ RequestUndo(v) \/ Transfer(v) \/ Stop(v) \/ Flush(v) \/ Free(v)
             \/ ReleaseFailed(v)
      PROVE  MapGood'
  <2>1. v \in Claims
    BY GoodTypes
  <2>2. QED
    BY <1>1, <2>1, RequestGood, RequestBusyGood, RequestDoneGood, RequestIrqFailedGood,
       RequestUndoGood, TransferGood, StopGood, FlushGood, FreeGood, ReleaseFailedGood
<1>2. ASSUME NEW h \in Hw, Complete(h) PROVE MapGood'
  BY <1>2, CompleteGood
<1>3. CASE UNCHANGED vars
  <2>1. ReleaseFindsEntry' /\ \A u \in Claims : Claimed(u)' => Claimed(u)
    BY <1>3, GoodTypes DEF vars, ReleaseFindsEntry, Claimed
  <2>2. QED
    BY <1>3, <2>1, GoodTypes, TableKept DEF vars, table
<1>4. QED
  BY <1>1, <1>2, <1>3 DEF Next

(* The invariant holds of every behaviour. *)
LEMMA MapInvariant == Spec => []MapGood
BY MapInitially, MapSteps, PTL DEF Spec

(* Types, and the list of s3c-dma-ops.c: it has the entries its holders     *)
(* will release, whatever is built, fails and is undone.                    *)
THEOREM MapTypeCorrect == Spec => []TypeOK
<1>1. MapGood => TypeOK
  BY DEF MapGood
<1>2. QED
  BY <1>1, MapInvariant, PTL

-----------------------------------------------------------------------------
(* The board: its drivers do not compete for their first choices. *)

(***************************************************************************)
(* Each driver of the board that has a channel, or is about to undo its    *)
(* request for one, has its first choice, and the channel its name; only   *)
(* such channels are in use, and nothing was warned of.                    *)
(***************************************************************************)
FirstChoice ==
  /\ warned = {}
  /\ \A v \in built : Claimed(v) \/ driver[v] = "undo" =>
       chan_map[v] = Order[v][1] /\ client[Order[v][1]] = v
  /\ \A h \in Hw : in_use[h] =>
       req_ch[h] \in built /\ Claimed(req_ch[h]) /\ h = Order[req_ch[h]][1]

(* The first choices of the board's drivers differ and are wired. *)
LEMMA BoardOrder ==
  ASSUME OnBoard, MapGood, NEW v \in built
  PROVE  /\ Order[v][1] \in Hw /\ Order[v][1] \in Wired[v] /\ 1 \in DOMAIN Order[v]
         /\ \A u \in built : Order[u][1] = Order[v][1] => u = v
<1>1. /\ Order[SDI] = <<3, 2, 1, 0>> /\ Order[I2S_IN] = <<1, 2>> /\ Order[I2S_OUT] = <<2, 1>>
      /\ SDI \in Virt /\ I2S_IN \in Virt /\ I2S_OUT \in Virt
  BY DEF Order, Virt, SDI, I2S_IN, I2S_OUT, XD0, XD1, SPI0, PCM_IN, PCM_OUT, MIC_IN
<1>2. Wired[SDI] = Hw /\ Wired[I2S_IN] = {1, 2} /\ Wired[I2S_OUT] = {0, 2}
  BY DEF Wired, Virt, SDI, I2S_IN, I2S_OUT, XD0, XD1, SPI0, PCM_IN, PCM_OUT, MIC_IN
<1>3. Order[SDI][1] = 3 /\ Order[I2S_IN][1] = 1 /\ Order[I2S_OUT][1] = 2
  BY <1>1
<1>4. QED
  BY <1>1, <1>2, <1>3 DEF OnBoard, Hw

(* Each finds its first choice free. *)
LEMMA BoardFirst ==
  ASSUME OnBoard, MapGood, FirstChoice, NEW v \in built, driver[v] = "out"
  PROVE  MapChannel(v) = Order[v][1] /\ Order[v][1] \in Hw
<1>1. /\ Order[v][1] \in Hw /\ 1 \in DOMAIN Order[v]
      /\ \A u \in built : Order[u][1] = Order[v][1] => u = v
  BY BoardOrder
<1>2. ~in_use[Order[v][1]]
  BY <1>1 DEF FirstChoice, Claimed
<1> DEFINE ordered == {i \in DOMAIN Order[v] : ~in_use[Order[v][i]]}
<1>3. 1 \in ordered /\ ordered \in SUBSET (1..4)
  <2>1. DOMAIN Order[v] \in SUBSET (1..4)
    BY TablesTyped, GoodTypes
  <2>2. QED BY <1>1, <1>2, <2>1
<1>4. MapChannel(v) = Order[v][Min(ordered)]
  BY <1>3 DEF MapChannel
<1> HIDE DEF ordered
<1>5. Min(ordered) = 1
  <2>1. \E x \in ordered : \A y \in ordered : x <= y
    <3>1. \A y \in ordered : y \in 1..4
      BY <1>3
    <3>2. \A y \in ordered : 1 <= y
      BY <3>1
    <3>3. QED BY <1>3, <3>2
  <2>2. Min(ordered) \in ordered /\ \A y \in ordered : Min(ordered) <= y
    BY <2>1 DEF Min
  <2>3. Min(ordered) \in 1..4 /\ Min(ordered) <= 1
    BY <1>3, <2>2
  <2>4. QED BY <2>3
<1>6. QED BY <1>1, <1>4, <1>5

(* A driver that frees its first choice, as its release or as the undoing  *)
(* of a failed request, frees its own channel: there is nothing to warn of *)
(* and nobody else is concerned.                                           *)
LEMMA BoardFree ==
  ASSUME OnBoard, MapGood, FirstChoice, NEW v \in built, Claimed(v) \/ driver[v] = "undo",
         FreeNumber(chan_map[v], v), NEW s \in {"out", "failed"},
         driver' = [driver EXCEPT ![v] = s], built' = built
  PROVE  FirstChoice'
<1>1. PICK h \in Hw : h = Order[v][1]
  BY BoardOrder
<1>2. chan_map[v] = h /\ client[h] = v
  BY <1>1 DEF FirstChoice
<1>3. /\ warned' = warned /\ client' = [client EXCEPT ![h] = NULL]
      /\ in_use' = [in_use EXCEPT ![h] = FALSE] /\ req_ch' = req_ch
      /\ chan_map' = IF LowLevel(v) THEN chan_map ELSE [chan_map EXCEPT ![v] = NULL]
  BY <1>2, GoodTypes DEF FreeNumber, FreeTable
<1>4. \A u \in built : u # v => Order[u][1] # h /\ Order[u][1] \in Hw
  BY <1>1, BoardOrder
<1>5. ASSUME NEW u \in built', (Claimed(u) \/ driver[u] = "undo")'
      PROVE  chan_map'[u] = Order[u][1] /\ client'[Order[u][1]] = u
  <2>1. u \in built /\ u # v /\ (Claimed(u) \/ driver[u] = "undo") /\ u \in Virt
    BY <1>5, GoodTypes DEF Claimed
  <2>2. chan_map'[u] = chan_map[u] /\ client'[Order[u][1]] = client[Order[u][1]]
    BY <1>3, <1>4, <2>1, GoodTypes
  <2>3. QED
    BY <2>1, <2>2 DEF FirstChoice
<1>6. ASSUME NEW g \in Hw, in_use'[g]
      PROVE  req_ch'[g] \in built' /\ Claimed(req_ch[g])' /\ g = Order[req_ch'[g]][1]
  <2>1. g # h /\ in_use[g]
    BY <1>3, <1>6, GoodTypes
  <2>2. req_ch[g] \in built /\ Claimed(req_ch[g]) /\ g = Order[req_ch[g]][1]
    BY <2>1 DEF FirstChoice
  <2>3. req_ch[g] # v
    BY <1>1, <2>1, <2>2
  <2>4. QED
    BY <1>3, <2>2, <2>3, GoodTypes DEF Claimed
<1>7. QED
  BY <1>3, <1>5, <1>6 DEF FirstChoice

LEMMA BoardSteps ==
  ASSUME MapGood, OnBoard, FirstChoice, [Next]_vars
  PROVE  OnBoard' /\ FirstChoice'
<1>1. ASSUME NEW v \in built, Request(v) PROVE OnBoard' /\ FirstChoice'
  <2> DEFINE h == MapChannel(v)
  <2>1. /\ driver[v] = "out" /\ client' = [client EXCEPT ![h] = v]
        /\ in_use' = [in_use EXCEPT ![h] = TRUE] /\ req_ch' = [req_ch EXCEPT ![h] = v]
        /\ chan_map' = [chan_map EXCEPT ![v] = h] /\ driver' = [driver EXCEPT ![v] = "irq"]
        /\ UNCHANGED <<built, warned>>
    BY <1>1 DEF Request
  <2>2. h \in Hw /\ h = Order[v][1] /\ v \in Virt
    BY <2>1, BoardFirst, GoodTypes
  <2>3. \A u \in built : u # v => Order[u][1] # h /\ Order[u][1] \in Hw
    BY <2>2, BoardOrder
  <2> HIDE DEF h
  <2>4. ASSUME NEW u \in built, (Claimed(u) \/ driver[u] = "undo")'
        PROVE  chan_map'[u] = Order[u][1] /\ client'[Order[u][1]] = u
    <3>1. CASE u = v
      BY <2>1, <2>2, <3>1, GoodTypes
    <3>2. CASE u # v
      <4>1. (Claimed(u) \/ driver[u] = "undo") /\ u \in Virt
        BY <2>1, <2>4, <3>2, GoodTypes DEF Claimed
      <4>2. chan_map'[u] = chan_map[u] /\ client'[Order[u][1]] = client[Order[u][1]]
        BY <2>1, <2>2, <2>3, <3>2, <4>1, GoodTypes
      <4>3. QED
        BY <4>1, <4>2 DEF FirstChoice
    <3>3. QED
      BY <3>1, <3>2
  <2>5. ASSUME NEW g \in Hw, in_use'[g]
        PROVE  req_ch'[g] \in built /\ Claimed(req_ch[g])' /\ g = Order[req_ch'[g]][1]
    <3>1. CASE g = h
      BY <2>1, <2>2, <3>1, GoodTypes DEF Claimed
    <3>2. CASE g # h
      <4>1. in_use[g] /\ req_ch'[g] = req_ch[g]
        BY <2>1, <2>2, <2>5, <3>2, GoodTypes
      <4>2. req_ch[g] \in built /\ Claimed(req_ch[g]) /\ g = Order[req_ch[g]][1]
        BY <4>1 DEF FirstChoice
      <4>3. Claimed(req_ch[g])'
        BY <2>1, <4>1, <4>2, GoodTypes DEF Claimed
      <4>4. QED
        BY <4>1, <4>2, <4>3
    <3>3. QED
      BY <3>1, <3>2
  <2>6. QED
    BY <2>1, <2>4, <2>5 DEF FirstChoice, OnBoard
<1>2. ASSUME NEW v \in built, RequestBusy(v) PROVE FALSE
  BY <1>2, BoardFirst, GoodTypes DEF RequestBusy
<1>3. ASSUME NEW v \in built, RequestIrqFailed(v) PROVE OnBoard' /\ FirstChoice'
  <2>1. PICK s \in {"out", "undo"} :
        /\ driver[v] = "irq" /\ driver' = [driver EXCEPT ![v] = s]
        /\ in_use' = [in_use EXCEPT ![given[v]] = FALSE]
        /\ UNCHANGED <<built, client, req_ch, chan_map, warned>>
    BY <1>3 DEF RequestIrqFailed, RequestFailed
  <2>2. v \in Claims /\ Claimed(v)
    BY <2>1, GoodTypes DEF Claimed
  <2>3. given[v] = Order[v][1] /\ given[v] \in Hw
    BY <2>2, LookupGiven DEF FirstChoice
  <2>4. \A u \in built : (Claimed(u) \/ driver[u] = "undo")' => Claimed(u) \/ driver[u] = "undo"
    BY <2>1, <2>2, GoodTypes DEF Claimed
  <2>5. ASSUME NEW g \in Hw, in_use'[g]
        PROVE  req_ch[g] \in built /\ Claimed(req_ch[g])' /\ g = Order[req_ch[g]][1]
    <3>1. g # given[v] /\ in_use[g]
      BY <2>1, <2>3, <2>5, GoodTypes
    <3>2. req_ch[g] \in built /\ Claimed(req_ch[g]) /\ g = Order[req_ch[g]][1]
      BY <3>1 DEF FirstChoice
    <3>3. req_ch[g] # v
      BY <2>3, <3>1, <3>2
    <3>4. QED
      BY <2>1, <3>2, <3>3, GoodTypes DEF Claimed
  <2>6. QED
    BY <2>1, <2>4, <2>5 DEF FirstChoice, OnBoard
<1>4. ASSUME NEW v \in built, RequestUndo(v) PROVE OnBoard' /\ FirstChoice'
  <2>1. /\ driver[v] = "undo" /\ FreeNumber(chan_map[v], v) /\ built' = built
        /\ driver' = [driver EXCEPT ![v] = "failed"]
    BY <1>4 DEF RequestUndo
  <2>2. QED
    BY <2>1, BoardFree DEF OnBoard
<1>5. ASSUME NEW v \in built, Free(v) PROVE OnBoard' /\ FirstChoice'
  <2>1. /\ driver[v] = "held" /\ FreeNumber(Lookup(v), v) /\ built' = built
        /\ driver' = [driver EXCEPT ![v] = "out"]
    BY <1>5 DEF Free
  <2>2. Claimed(v) /\ Lookup(v) = chan_map[v]
    BY <2>1, LookupGiven, GoodTypes DEF Claimed
  <2>3. FreeNumber(chan_map[v], v)
    BY <2>1, <2>2
  <2>4. QED
    BY <2>1, <2>2, <2>3, BoardFree DEF OnBoard
<1>6. ASSUME UNCHANGED <<built, in_use, client, req_ch, chan_map, warned>>,
             \A u \in Claims : Claimed(u)' <=> Claimed(u),
             \A u \in Claims : driver'[u] = "undo" => driver[u] = "undo"
      PROVE  OnBoard' /\ FirstChoice'
  <2>1. \A u \in built : u \in Claims
    BY GoodTypes
  <2>2. QED
    BY <1>6, <2>1 DEF FirstChoice, OnBoard
<1>7. ASSUME NEW v \in built, RequestDone(v) \/ ReleaseFailed(v) PROVE OnBoard' /\ FirstChoice'
  <2>1. /\ UNCHANGED <<built, in_use, client, req_ch, chan_map, warned>>
        /\ \A u \in Claims : Claimed(u)' <=> Claimed(u)
        /\ \A u \in Claims : driver'[u] = "undo" => driver[u] = "undo"
    BY <1>7, GoodTypes DEF RequestDone, ReleaseFailed, table, Claimed
  <2>2. QED
    BY <1>6, <2>1
<1>8. ASSUME \/ \E v \in built : Transfer(v) \/ Stop(v) \/ Flush(v)
             \/ \E h \in Hw : Complete(h)
             \/ UNCHANGED vars
      PROVE  OnBoard' /\ FirstChoice'
  <2>1. UNCHANGED <<built, in_use, client, req_ch, chan_map, warned, driver>>
    BY <1>8 DEF Transfer, Stop, Flush, Complete, table, vars
  <2>2. QED
    BY <1>6, <2>1 DEF Claimed
<1>9. QED
  BY <1>1, <1>2, <1>3, <1>4, <1>5, <1>7, <1>8 DEF Next

(* What holds on the board in addition. *)
BoardGood == OnBoard => FirstChoice

LEMMA BoardInvariant == Spec => []BoardGood
<1>1. Init => BoardGood
  <2> SUFFICES ASSUME Init, OnBoard PROVE FirstChoice
    BY DEF BoardGood
  <2>1. warned = {} /\ \A h \in Hw : ~in_use[h]
    BY DEF Init
  <2>2. \A v \in built : driver[v] = "out"
    BY MapAssumption DEF Init
  <2>3. QED
    BY <2>1, <2>2 DEF FirstChoice, Claimed
<1>2. MapGood /\ BoardGood /\ [Next]_vars => BoardGood'
  <2>1. ASSUME [Next]_vars PROVE built' = built
    BY <2>1 DEF Next, vars, Request, RequestBusy, RequestDone, RequestIrqFailed, RequestUndo,
         Transfer, Stop, Flush, Free, ReleaseFailed, Complete
  <2>2. QED
    BY <2>1, BoardSteps DEF BoardGood, OnBoard
<1>3. QED
  BY <1>1, <1>2, MapInvariant, PTL DEF Spec

(***************************************************************************)
(* HeldExclusively, for every configuration: a driver that holds a channel *)
(* finds it under its number and holds it alone, on the board always, and  *)
(* elsewhere as long as s3c2410_dma_free has not warned of a free from a   *)
(* different client.                                                       *)
(***************************************************************************)
THEOREM MapHeldExclusively == Spec => []HeldExclusively
<1>1. MapGood /\ BoardGood => HeldExclusively
  <2> SUFFICES ASSUME MapGood, BoardGood, NEW v \in Claims, driver[v] = "held"
               PROVE  /\ Lookup(v) = given[v]
                      /\ \/ Lost(given[v])
                         \/ /\ in_use[given[v]] /\ claimed[given[v]]
                            /\ client[given[v]] = v
                            /\ req_ch[given[v]] = v
    BY DEF HeldExclusively
  <2>1. Lookup(v) = given[v] /\ (given[v] \in warned \/ Marked(given[v], v))
    BY LookupGiven DEF Claimed, MapGood, OwnChannel
  <2>2. OnBoard => warned = {}
    BY DEF BoardGood, FirstChoice
  <2>3. QED
    BY <2>1, <2>2 DEF Lost, Marked
<1>2. QED
  BY <1>1, MapInvariant, BoardInvariant, PTL

-----------------------------------------------------------------------------
(* Which channels a source is given. *)

Misordered == {I2S_OUT, PCM_IN}

(* The other order lists stay within the wiring. *)
LEMMA OrderedIsWired ==
  ASSUME NEW v \in Claims, v \notin Misordered
  PROVE  \A i \in DOMAIN Order[v] : Order[v][i] \in Wired[v]
<1>1. v = SDI \/ v = I2S_IN \/ v = PCM_OUT \/ v = MIC_IN
  BY DEF Claims, Misordered
<1>2. CASE v = SDI
  <2>1. Order[v] = <<3, 2, 1, 0>> /\ Wired[v] = 0..3
    BY <1>2 DEF Order, Wired, Hw, Virt, SDI, I2S_IN, I2S_OUT, XD0, XD1, SPI0, PCM_IN, PCM_OUT, MIC_IN
  <2>2. QED BY <2>1
<1>3. CASE v = I2S_IN
  <2>1. Order[v] = <<1, 2>> /\ Wired[v] = {1, 2}
    BY <1>3 DEF Order, Wired, Hw, Virt, SDI, I2S_IN, I2S_OUT, XD0, XD1, SPI0, PCM_IN, PCM_OUT, MIC_IN
  <2>2. QED BY <2>1
<1>4. CASE v = PCM_OUT
  <2>1. Order[v] = <<1, 3>> /\ Wired[v] = {1, 3}
    BY <1>4 DEF Order, Wired, Hw, Virt, SDI, I2S_IN, I2S_OUT, XD0, XD1, SPI0, PCM_IN, PCM_OUT, MIC_IN
  <2>2. QED BY <2>1
<1>5. CASE v = MIC_IN
  <2>1. Order[v] = <<3, 2>> /\ Wired[v] = {2, 3}
    BY <1>5 DEF Order, Wired, Hw, Virt, SDI, I2S_IN, I2S_OUT, XD0, XD1, SPI0, PCM_IN, PCM_OUT, MIC_IN
  <2>2. QED BY <2>1
<1>6. QED
  BY <1>1, <1>2, <1>3, <1>4, <1>5

(* The inductive part: a source is connected to a channel it is wired to, or *)
(* it is one of the misordered two.                                          *)
Connected == \A h \in Hw : in_use[h] => h \in Wired[req_ch[h]] \/ req_ch[h] \in Misordered

LEMMA ConnectedSteps ==
  ASSUME MapGood, Connected, [Next]_vars
  PROVE  Connected'
<1>1. ASSUME NEW v \in built, Request(v) PROVE Connected'
  <2> DEFINE h == MapChannel(v)
  <2>1. h # NULL /\ in_use' = [in_use EXCEPT ![h] = TRUE] /\ req_ch' = [req_ch EXCEPT ![h] = v]
    BY <1>1 DEF Request
  <2>2. v \in Claims /\ h \in Hw /\ (h \in Wired[v] \/ \E i \in DOMAIN Order[v] : h = Order[v][i])
    BY <2>1, GoodTypes, MapChannelFree
  <2> HIDE DEF h
  <2>3. h \in Wired[v] \/ v \in Misordered
    BY <2>2, OrderedIsWired
  <2>4. QED
    BY <2>1, <2>2, <2>3, GoodTypes DEF Connected
<1>2. ASSUME req_ch' = req_ch, \A h \in Hw : in_use'[h] => in_use[h]
      PROVE  Connected'
  BY <1>2 DEF Connected
<1>3. ASSUME NEW v \in built, RequestUndo(v) \/ Free(v) PROVE Connected'
  <2>1. v \in Claims
    BY GoodTypes
  <2>2. PICK h \in Hw \cup {NULL} : FreeNumber(h, v)
    <3>1. CASE RequestUndo(v)
      BY <2>1, <3>1, GoodTypes DEF RequestUndo
    <3>2. CASE Free(v)
      <4>1. Lookup(v) \in Hw /\ FreeNumber(Lookup(v), v)
        BY <2>1, <3>2, LookupGiven DEF Free, Claimed
      <4>2. QED
        BY <4>1
    <3>3. QED
      BY <1>3, <3>1, <3>2
  <2>3. req_ch' = req_ch /\ \A g \in Hw : in_use'[g] => in_use[g]
    BY <2>2, GoodTypes DEF FreeNumber, FreeTable, table
  <2>4. QED
    BY <1>2, <2>3
<1>4. ASSUME NEW v \in built, RequestIrqFailed(v) PROVE Connected'
  BY <1>2, <1>4, GoodTypes DEF RequestIrqFailed
<1>5. ASSUME \/ \E v \in built : \/ RequestBusy(v) \/ RequestDone(v) \/ Transfer(v)
                                 \/ Stop(v) \/ Flush(v) \/ ReleaseFailed(v)
             \/ \E h \in Hw : Complete(h)
             \/ UNCHANGED vars
      PROVE  Connected'
  <2>1. UNCHANGED <<in_use, req_ch>>
    BY <1>5 DEF RequestBusy, RequestDone, Transfer, Stop, Flush, ReleaseFailed, Complete, table, vars
  <2>2. QED
    BY <1>2, <2>1
<1>6. QED
  BY <1>1, <1>3, <1>4, <1>5 DEF Next

(***************************************************************************)
(* SourceServed, for every configuration.  The order list of I2S_OUT names *)
(* channel 1, to which it is not wired: on the board each driver finds its *)
(* first choice free, so that the wrong entry is never reached, whatever   *)
(* fails and in whatever order they come and go.  Elsewhere only I2S_OUT   *)
(* and PCM_IN can get a channel they are not wired to.                     *)
(***************************************************************************)
THEOREM MapSourceServed == Spec => []SourceServed
<1>1. Init => Connected
  BY DEF Init, Connected
<1>2. MapGood /\ Connected /\ [Next]_vars => Connected'
  BY ConnectedSteps
<1>3. MapGood /\ BoardGood /\ Connected => SourceServed
  <2> SUFFICES ASSUME MapGood, BoardGood, Connected, NEW h \in Hw, in_use[h]
               PROVE  h \in Wired[req_ch[h]] \/ (~OnBoard /\ req_ch[h] \in {I2S_OUT, PCM_IN})
    BY DEF SourceServed
  <2>1. CASE OnBoard
    <3>1. req_ch[h] \in built /\ h = Order[req_ch[h]][1]
      BY <2>1 DEF BoardGood, FirstChoice
    <3>2. QED
      BY <2>1, <3>1, BoardOrder
  <2>2. CASE ~OnBoard
    BY <2>2 DEF Connected, Misordered
  <2>3. QED
    BY <2>1, <2>2
<1>4. QED
  BY <1>1, <1>2, <1>3, MapInvariant, BoardInvariant, PTL DEF Spec

-----------------------------------------------------------------------------
(* Who stops whose transfer. *)

(* A driver with a transfer holds its channel, and that runs or was freed   *)
(* with a warning; and PCM_OUT is only ever given a channel it is wired to. *)
XferRuns ==
  /\ \A v \in Claims : xfer[v] =>
       driver[v] = "held" /\ (run[given[v]] \/ given[v] \in warned)
  /\ Claimed(PCM_OUT) => given[PCM_OUT] \in {1, 3}

(* The steps that stop nothing. *)
LEMMA NothingStopped ==
  ASSUME MapGood, XferRuns, warned' = warned,
         \A u \in Claims : xfer'[u] => driver'[u] = "held" /\ xfer[u] /\ given'[u] = given[u],
         \A h \in Hw : run[h] => run'[h],
         Claimed(PCM_OUT)' => Claimed(PCM_OUT) /\ given'[PCM_OUT] = given[PCM_OUT]
  PROVE  XferRuns'
<1>1. \A u \in Claims : xfer[u] => given[u] \in Hw
  BY LookupGiven DEF XferRuns, Claimed
<1>2. QED
  BY <1>1 DEF XferRuns

(* Stopping the channel of v, when v has no transfer any more, leaves the   *)
(* transfers of the others alone.                                           *)
LEMMA OwnStopped ==
  ASSUME MapGood, XferRuns, NEW v \in Claims, driver[v] = "held",
         run' = [run EXCEPT ![given[v]] = FALSE], xfer' = [xfer EXCEPT ![v] = FALSE],
         UNCHANGED <<driver, given, warned>>
  PROVE  XferRuns'
<1>1. ASSUME NEW u \in Claims, xfer'[u]
      PROVE  driver'[u] = "held" /\ (run'[given'[u]] \/ given'[u] \in warned')
  <2>1. u # v /\ xfer[u] /\ driver[u] = "held" /\ (run[given[u]] \/ given[u] \in warned)
    BY <1>1, GoodTypes DEF XferRuns
  <2>2. given[u] \in Hw /\ given[v] \in Hw
    BY <2>1, LookupGiven DEF Claimed
  <2>3. given[u] # given[v] \/ given[u] \in warned
    BY <2>1, OwnersDiffer DEF Claimed
  <2>4. QED
    BY <2>1, <2>2, <2>3, GoodTypes
<1>2. QED
  BY <1>1 DEF XferRuns, Claimed

(***************************************************************************)
(* The stop that s3c2410_dma_flush sends to chan->number, which is read as *)
(* a virtual number.  The numbers 0, 1 and 3 are nobody's.  Number 2 is    *)
(* SDI: the SD host on channel 2 stops itself, and PCM_OUT is never there. *)
(***************************************************************************)
LEMMA FlushStops ==
  ASSUME MapGood, XferRuns, NEW v \in {SDI, PCM_OUT}, driver[v] = "held"
  PROVE  StoppedByFlush(given[v]) \in {NULL, given[v]}
<1>1. /\ v \in Claims /\ Claimed(v) /\ given[v] \in Hw /\ chan_map[v] = given[v]
  <2>1. v \in Claims /\ Claimed(v)
    BY DEF Claims, Claimed
  <2>2. QED
    BY <2>1, LookupGiven
<1>2. chan_map[0] = NULL /\ chan_map[1] = NULL /\ chan_map[3] = NULL
  <2>1. 0 \in Virt \ Claims /\ 1 \in Virt \ Claims /\ 3 \in Virt \ Claims
    BY DEF Virt, Claims, SDI, I2S_IN, I2S_OUT, XD0, XD1, SPI0, PCM_IN, PCM_OUT, MIC_IN
  <2>2. QED
    BY <2>1 DEF MapGood, Unclaimed
<1>3. given[v] = 0 \/ given[v] = 1 \/ given[v] = 2 \/ given[v] = 3
  BY <1>1 DEF Hw
<1>4. given[v] = 2 => chan_map[given[v]] = given[v]
  <2> SUFFICES ASSUME given[v] = 2 PROVE v = SDI
    BY <1>1 DEF SDI
  <2>1. v = PCM_OUT => given[v] = 1 \/ given[v] = 3
    BY <1>1 DEF XferRuns
  <2>2. QED
    BY <2>1
<1>5. QED
  BY <1>2, <1>3, <1>4 DEF StoppedByFlush

(* A request gives PCM_OUT a channel it is wired to, and stops nothing. *)
LEMMA RequestRuns ==
  ASSUME MapGood, XferRuns, NEW v \in Claims, Request(v)
  PROVE  XferRuns'
<1>1. PICK h : h = MapChannel(v)
  OBVIOUS
<1>2. /\ driver[v] = "out" /\ h # NULL /\ driver' = [driver EXCEPT ![v] = "irq"]
      /\ given' = [given EXCEPT ![v] = h] /\ UNCHANGED <<run, xfer, warned>>
  BY <1>1 DEF Request
<1>3. \A u \in Claims : xfer[u] => u # v /\ driver'[u] = "held" /\ given'[u] = given[u]
  BY <1>2, GoodTypes DEF XferRuns
<1>4. v = PCM_OUT => h \in {1, 3}
  <2>1. h \in Wired[v] \/ \E i \in DOMAIN Order[v] : h = Order[v][i]
    BY <1>1, <1>2, GoodTypes, MapChannelFree
  <2>2. v = PCM_OUT => h \in Wired[v]
    BY <2>1, OrderedIsWired DEF Misordered, I2S_OUT, PCM_IN, PCM_OUT
  <2>3. Wired[PCM_OUT] = {1, 3}
    BY DEF Wired, Virt, SDI, I2S_IN, I2S_OUT, XD0, XD1, SPI0, PCM_IN, PCM_OUT, MIC_IN
  <2>4. QED
    BY <2>2, <2>3
<1>5. PCM_OUT \in Claims
  BY DEF Claims
<1>6. Claimed(PCM_OUT)' => given'[PCM_OUT] \in {1, 3}
  <2>1. CASE v = PCM_OUT
    BY <1>2, <1>4, <1>5, <2>1, GoodTypes
  <2>2. CASE v # PCM_OUT
    BY <1>2, <1>5, <2>2, GoodTypes DEF XferRuns, Claimed
  <2>3. QED
    BY <2>1, <2>2
<1>7. QED
  BY <1>2, <1>3, <1>6 DEF XferRuns

(* The free of a channel stops it: the other drivers' channels are others,  *)
(* or the warning is logged.                                                *)
LEMMA FreeRuns ==
  ASSUME MapGood, XferRuns, NEW v \in Claims, NEW h \in Hw \cup {NULL}, FreeNumber(h, v),
         NEW s \in {"out", "failed"}, driver' = [driver EXCEPT ![v] = s], ~xfer'[v],
         \A u \in Claims : u # v => given'[u] = given[u] /\ xfer'[u] = xfer[u]
  PROVE  XferRuns'
<1>1. ASSUME NEW u \in Claims, xfer'[u]
      PROVE  driver'[u] = "held" /\ (run'[given'[u]] \/ given'[u] \in warned')
  <2>1. u # v /\ xfer[u] /\ driver[u] = "held" /\ (run[given[u]] \/ given[u] \in warned)
    BY <1>1 DEF XferRuns
  <2>2. given'[u] = given[u] /\ driver'[u] = "held" /\ given[u] \in Hw /\ Claimed(u)
    BY <2>1, GoodTypes, LookupGiven DEF Claimed
  <2>3. warned \subseteq warned' /\ (given[u] \in warned' \/ given[u] # h)
    BY <2>1, <2>2, FreeOthers
  <2>4. given[u] # h => run'[given[u]] = run[given[u]]
    BY <2>2, GoodTypes DEF FreeNumber, FreeTable
  <2>5. QED
    BY <2>1, <2>2, <2>3, <2>4
<1>2. PCM_OUT \in Claims
  BY DEF Claims
<1>3. Claimed(PCM_OUT)' => given'[PCM_OUT] \in {1, 3}
  BY <1>2, GoodTypes DEF XferRuns, Claimed
<1>4. QED
  BY <1>1, <1>3 DEF XferRuns

LEMMA XferSteps ==
  ASSUME MapGood, XferRuns, FlushRunning \subseteq {SDI, PCM_OUT}, [Next]_vars
  PROVE  XferRuns'
<1>0. PCM_OUT \in Claims /\ built \in SUBSET Claims
  BY GoodTypes DEF Claims
<1>1. ASSUME NEW v \in built, Request(v) PROVE XferRuns'
  BY <1>0, <1>1, RequestRuns
<1>2. ASSUME NEW v \in built, RequestBusy(v) \/ RequestDone(v) \/ RequestIrqFailed(v) \/ ReleaseFailed(v)
      PROVE  XferRuns'
  <2>1. /\ driver[v] # "held" /\ UNCHANGED <<run, xfer, warned>>
        /\ \A u \in Claims : u # v => given'[u] = given[u] /\ driver'[u] = driver[u]
        /\ driver'[v] \in {"irq", "held"} => driver[v] = "irq" /\ given'[v] = given[v]
    BY <1>0, <1>2, GoodTypes DEF RequestBusy, RequestDone, RequestIrqFailed, RequestFailed,
         ReleaseFailed, table
  <2>2. \A u \in Claims : xfer'[u] => driver'[u] = "held" /\ xfer[u] /\ given'[u] = given[u]
    BY <2>1 DEF XferRuns
  <2>3. Claimed(PCM_OUT)' => Claimed(PCM_OUT) /\ given'[PCM_OUT] = given[PCM_OUT]
    BY <1>0, <2>1 DEF Claimed
  <2>4. QED
    BY <2>1, <2>2, <2>3, NothingStopped
<1>3. ASSUME NEW v \in built, RequestUndo(v) PROVE XferRuns'
  <2>1. PICK h \in Hw \cup {NULL} : h = chan_map[v]
    BY <1>0, GoodTypes
  <2>2. /\ v \in Claims /\ ~xfer[v] /\ FreeNumber(h, v)
        /\ driver' = [driver EXCEPT ![v] = "failed"] /\ UNCHANGED <<given, xfer>>
    BY <1>0, <1>3, <2>1 DEF RequestUndo, XferRuns
  <2>3. QED
    BY <2>2, FreeRuns
<1>4. ASSUME NEW v \in built, Free(v) PROVE XferRuns'
  <2>1. v \in Claims /\ driver[v] = "held" /\ Claimed(v)
    BY <1>0, <1>4 DEF Free, Claimed
  <2>2. PICK h \in Hw \cup {NULL} : h = Lookup(v)
    BY <2>1, LookupGiven
  <2>3. /\ FreeNumber(h, v) /\ driver' = [driver EXCEPT ![v] = "out"]
        /\ given' = [given EXCEPT ![v] = NULL] /\ xfer' = [xfer EXCEPT ![v] = FALSE]
    BY <1>4, <2>2 DEF Free
  <2>4. ~xfer'[v] /\ \A u \in Claims : u # v => given'[u] = given[u] /\ xfer'[u] = xfer[u]
    BY <2>1, <2>3, GoodTypes
  <2>5. QED
    BY <2>1, <2>3, <2>4, FreeRuns
<1>5. ASSUME NEW v \in built, Transfer(v) PROVE XferRuns'
  <2>1. v \in Claims /\ driver[v] = "held" /\ Lookup(v) = given[v] /\ given[v] \in Hw
    BY <1>0, <1>5, LookupGiven DEF Transfer, Claimed
  <2>2. /\ run' = [run EXCEPT ![given[v]] = TRUE] /\ xfer' = [xfer EXCEPT ![v] = TRUE]
        /\ UNCHANGED <<driver, given, warned>>
    BY <1>5, <2>1 DEF Transfer
  <2>3. \A u \in Claims : xfer[u] => given[u] \in Hw
    BY LookupGiven DEF XferRuns, Claimed
  <2>4. QED
    BY <2>1, <2>2, <2>3, GoodTypes DEF XferRuns, Claimed
<1>6. ASSUME NEW h \in Hw, Complete(h) PROVE XferRuns'
  <2>1. /\ run' = [run EXCEPT ![h] = FALSE] /\ UNCHANGED <<driver, given, warned>>
        /\ \A u \in Claims : xfer'[u] => xfer[u] /\ given[u] # h
    BY <1>6 DEF Complete
  <2>2. \A u \in Claims : xfer[u] => given[u] \in Hw
    BY LookupGiven DEF XferRuns, Claimed
  <2>3. QED
    BY <2>1, <2>2, GoodTypes DEF XferRuns, Claimed
<1>7. ASSUME NEW v \in built, Stop(v) PROVE XferRuns'
  <2>1. v \in Claims /\ driver[v] = "held" /\ Lookup(v) = given[v]
    BY <1>0, <1>7, LookupGiven DEF Stop, Claimed
  <2>2. /\ run' = [run EXCEPT ![given[v]] = FALSE] /\ xfer' = [xfer EXCEPT ![v] = FALSE]
        /\ UNCHANGED <<driver, given, warned>>
    BY <1>7, <2>1 DEF Stop
  <2>3. QED
    BY <2>1, <2>2, OwnStopped
<1>8. ASSUME NEW v \in built, Flush(v) PROVE XferRuns'
  <2>1. v \in Claims /\ driver[v] = "held" /\ Lookup(v) = given[v] /\ given[v] # NULL
    BY <1>0, <1>8, LookupGiven DEF Flush, Claimed
  <2>2. PICK t : t = StoppedByFlush(given[v])
    OBVIOUS
  <2>3. /\ run[given[v]] => v \in FlushRunning
        /\ run' = IF t = NULL THEN run ELSE [run EXCEPT ![t] = FALSE]
        /\ xfer' = [xfer EXCEPT ![v] = FALSE] /\ UNCHANGED <<driver, given, warned>>
    BY <1>8, <2>1, <2>2 DEF Flush
  <2>4. t \in {NULL, given[v]}
    <3>1. CASE run[given[v]]
      BY <2>1, <2>2, <2>3, <3>1, FlushStops
    <3>2. CASE ~run[given[v]]
      BY <2>2, <3>2 DEF StoppedByFlush
    <3>3. QED
      BY <3>1, <3>2
  <2>5. CASE t = NULL
    BY <2>3, <2>5, GoodTypes, NothingStopped DEF XferRuns, Claimed
  <2>6. CASE t = given[v]
    <3>1. run' = [run EXCEPT ![given[v]] = FALSE]
      BY <2>1, <2>3, <2>6
    <3>2. QED
      BY <2>1, <2>3, <3>1, OwnStopped
  <2>7. QED
    BY <2>4, <2>5, <2>6
<1>9. CASE UNCHANGED vars
  BY <1>9 DEF vars, XferRuns, Claimed
<1>10. QED
  BY <1>1, <1>2, <1>3, <1>4, <1>5, <1>6, <1>7, <1>8, <1>9 DEF Next

(***************************************************************************)
(* NoForeignStop, for every configuration in which only the SD host and    *)
(* the AC97 playback flush a running channel: no driver's transfer is      *)
(* stopped by another driver's stop, flush, free or undone request; off    *)
(* the board, a channel freed under its driver is one that was warned of.  *)
(***************************************************************************)
THEOREM MapNoForeignStop ==
  ASSUME FlushRunning \subseteq {SDI, PCM_OUT}
  PROVE  Spec => []NoForeignStop
<1>1. Init => XferRuns
  <2> SUFFICES ASSUME Init PROVE XferRuns
    OBVIOUS
  <2>1. PCM_OUT \in Claims /\ \A v \in Claims : ~xfer[v] /\ driver[v] = "out"
    BY DEF Init, Claims
  <2>2. QED
    BY <2>1 DEF XferRuns, Claimed
<1>2. MapGood /\ XferRuns /\ [Next]_vars => XferRuns'
  BY XferSteps
<1>3. BoardGood /\ XferRuns => NoForeignStop
  BY DEF BoardGood, FirstChoice, XferRuns, NoForeignStop, Lost
<1>4. QED
  BY <1>1, <1>2, <1>3, MapInvariant, BoardInvariant, PTL DEF Spec
=============================================================================
