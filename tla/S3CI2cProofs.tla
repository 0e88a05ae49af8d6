---------------------------- MODULE S3CI2cProofs ----------------------------
(***************************************************************************)
(* Theorems about the I2C master: the types and the cursor of the handler, *)
(* the bounds of the receive buffer, and the agreement of a call's result  *)
(* with the bus, for messages of any number and length.                    *)
(***************************************************************************)
EXTENDS S3CI2c, WellFoundedInduction, TLAPS

(* Only the last message of a transfer is a read, and it begins with a START. *)
ReadsLast ==
  \A t \in Transfers : \A k \in 1..Len(t) :
    t[k].rd => k = Len(t) /\ ~t[k].nostart

(* A slave that held the bus into the timeout stays silent afterwards. *)
Timely == ~LateAnswer

-----------------------------------------------------------------------------
(* The messages as they are on the bus, and how many bytes k of them take. *)

Kinds == {"Sr", "Sw", "w", "r+", "r-", "P"}

Pieces(t) == [k \in 1..Len(t) |-> OnWire(t, k)]

Flat(s) ==
  LET f[i \in 1..Len(s)] == IF i = 1 THEN s[i] ELSE f[i - 1] \o s[i] IN f

Off(t, k) == IF k = 0 THEN 0 ELSE Len(Flat(Pieces(t))[k])

-----------------------------------------------------------------------------
(* The inductive invariant. *)

Driver == [state: {"IDLE", "START", "READ", "WRITE", "STOP"},
           msgs: Transfers \cup {<<>>}, num: Nat, idx: Int, ptr: Nat]

Controller == [op: Op, pend: BOOLEAN, lastbit: BOOLEAN, irqen: BOOLEAN,
               acken: BOOLEAN, stalled: BOOLEAN]

Pair == [d: Driver, h: Controller]

Active(d) == d.state \in {"START", "READ", "WRITE"}

(* i2c->msg points into the messages of a transfer. *)
Cursor(d) == d.msgs \in Transfers /\ d.num = Len(d.msgs) /\ d.idx \in 0..d.num - 1

(* Types, and which call the driver works for. *)
Shape ==
  /\ i2c \in Driver /\ i2c.num = Len(i2c.msgs)
  /\ Active(i2c) => Cursor(i2c)
  /\ hw \in Controller
  /\ call \in [pc: {"none", "try", "wait", "idle"}, msgs: Transfers \cup {<<>>},
               retry: 0..Retries - 1, ret: Int]
  /\ call.pc # "none" => call.msgs \in Transfers
  /\ suspended \in BOOLEAN
  /\ suspended => call.pc = "none"
  /\ wire \in Seq(Kinds)
  /\ refused \in {"no", "Sr", "Sw", "w"}

(* A byte is on the bus only for a call that waits, or the slave holds it, *)
(* and only such a call is ever interrupted.                               *)
Held ==
  /\ hw.op \in {"Sr", "Sw", "w", "r"} => Active(i2c) /\ (call.pc = "wait" \/ hw.stalled)
  /\ hw.pend => call.pc = "wait" /\ Active(i2c) /\ ~hw.stalled
  /\ hw.op = "P" => ~Active(i2c)

(* The START of a message, if it has one. *)
HeadOf(m) == IF m.nostart THEN 0 ELSE 1

(***************************************************************************)
(* The handler's state v says that byte n + 1 of the messages is the one   *)
(* to be moved or, if p, the one just moved.                               *)
(***************************************************************************)
AtStart(v, n, p) ==
  /\ v.d.state = "START" /\ v.d.ptr = 0 /\ ~Msg(v.d).nostart /\ v.h.acken
  /\ v.h.op = IF p THEN IF Msg(v.d).rd THEN "r" ELSE "w"
              ELSE IF Msg(v.d).rd THEN "Sr" ELSE "Sw"
  /\ n = Off(v.d.msgs, v.d.idx)

AtWrite(v, n) ==
  /\ v.d.state = "WRITE" /\ ~Msg(v.d).rd /\ v.d.ptr \in 1..Msg(v.d).len
  /\ v.h.op = "w"
  /\ n = Off(v.d.msgs, v.d.idx) + HeadOf(Msg(v.d)) + v.d.ptr - 1

AtRead(v, n) ==
  /\ v.d.state = "READ" /\ Msg(v.d).rd /\ v.d.ptr \in 0..Msg(v.d).len - 1
  /\ v.h.op = "r"
  /\ v.h.acken <=> v.d.ptr # Msg(v.d).len - 1
  /\ n = Off(v.d.msgs, v.d.idx) + 1 + v.d.ptr

At(v, n, p) == v.h.irqen /\ (AtStart(v, n, p) \/ AtWrite(v, n) \/ AtRead(v, n))

(* A refused byte is known to the handler when it runs. *)
Heeded ==
  refused = IF hw.pend /\ i2c.state # "READ" /\ Nak(Dev) THEN wire[Len(wire)] ELSE "no"

(* The transfer of the call is under way. *)
Under ==
  /\ i2c.msgs = call.msgs /\ Active(i2c)
  /\ Len(wire) <= Len(Bytes(call.msgs))
  /\ wire = SubSeq(Bytes(call.msgs), 1, Len(wire))
  /\ At(Dev, Len(wire) - (IF hw.pend THEN 1 ELSE 0), hw.pend)
  /\ Heeded

(* The messages were sent, or n of their bytes and the last was refused. *)
Sent(r, t, w, f) ==
  \/ r = Len(t) /\ w = Append(Bytes(t), "P") /\ f = "no"
  \/ \E n \in 1..Len(Bytes(t)) :
       /\ w = Append(SubSeq(Bytes(t), 1, n), "P")
       /\ f = Bytes(t)[n]
       /\ \/ r = ENXIO /\ f \in {"Sr", "Sw"}
          \/ r = ECONNREFUSED /\ f = "w"

(* The transfer has ended with result r. *)
Ended(r) ==
  /\ i2c.state = "STOP" /\ i2c.num = 0 /\ hw.op \in {"P", "none"}
  /\ Sent(r, call.msgs, Settled, refused)

(* The call gave up on a slave that holds the bus. *)
TimedOut == Active(i2c) /\ hw.stalled /\ call.ret \in 0..Len(call.msgs) - 1

Progress ==
  /\ call.pc = "wait" => Under \/ Ended(i2c.idx)
  /\ call.pc = "idle" => TimedOut \/ Ended(call.ret)

I2cGood == Shape /\ Held /\ Progress

-----------------------------------------------------------------------------
(* Induction, as the provers can use it: by the least counterexample. *)

(* A set of numbers has a least one. *)
LEMMA MinOfNat ==
  ASSUME NEW T, T \subseteq Nat, T # {}
  PROVE  Min(T) \in T /\ \A y \in T : Min(T) <= y
<1> DEFINE R == {ss \in Nat \X Nat : ss[1] < ss[2]}
<1>1. PICK x \in T : \A y \in T : ~ (<<y, x>> \in R)
  <2>1. IsWellFoundedOn(R, Nat)
    BY NatLessThanWellFounded DEF OpToRel
  <2> HIDE DEF R
  <2>2. QED
    BY <2>1, WFMin
<1>2. ASSUME NEW y \in T, ~(x =< y)
      PROVE  FALSE
  <2>1. x \in Nat /\ y \in Nat /\ y < x
    BY <1>2
  <2>2. <<y, x>> \in Nat \X Nat /\ <<y, x>>[1] = y /\ <<y, x>>[2] = x
    BY <2>1
  <2>3. <<y, x>> \in R
    BY <2>1, <2>2
  <2>4. QED
    BY <1>1, <2>3
<1>3. QED
  BY <1>1, <1>2 DEF Min

(* A set that has a and with each number below b the next has all of a..b. *)
LEMMA UpTo ==
  ASSUME NEW a \in Nat, NEW b \in Nat, NEW S, a \in S,
         \A i \in a..b - 1 : i \in S => i + 1 \in S
  PROVE  \A i \in a..b : i \in S
<1> SUFFICES ASSUME ~ \A i \in a..b : i \in S PROVE FALSE
  OBVIOUS
<1> DEFINE T == {i \in a..b : i \notin S}
<1>1. T \subseteq Nat /\ T # {}
  OBVIOUS
<1>2. PICK m \in T : \A y \in T : m <= y
  BY <1>1, MinOfNat
<1>3. m \in a..b /\ m # a /\ m \notin S
  BY <1>2
<1>4. m - 1 \in a..b - 1 /\ m - 1 \notin T
  BY <1>2, <1>3
<1>5. m - 1 \in S
  BY <1>4
<1>6. m \in S
  BY <1>4, <1>5, m - 1 + 1 = m, <1>3
<1>7. QED
  BY <1>3, <1>6

-----------------------------------------------------------------------------
(* What FlattenSeq computes. *)

(* The recursive function FlattenSeq is made of exists and is the one meant. *)
LEMMA FlatUnfolds ==
  ASSUME NEW s, Len(s) \in Nat
  PROVE  Flat(s) = [i \in 1..Len(s) |->
                      IF i = 1 THEN s[i] ELSE Flat(s)[i - 1] \o s[i]]
<1> DEFINE Is(f, n) == f = [i \in 1..n |-> IF i = 1 THEN s[i] ELSE f[i - 1] \o s[i]]
           S == {n \in Nat : \E f : Is(f, n)}
<1>1. 0 \in S
  <2> DEFINE f == [i \in 1..0 |-> s[i]]
  <2>1. Is(f, 0)
    OBVIOUS
  <2>2. QED
    BY <2>1
<1>2. ASSUME NEW n \in 0..Len(s) - 1, n \in S
      PROVE  n + 1 \in S
  <2>1. PICK f : Is(f, n)
    BY <1>2
  <2> DEFINE g == [i \in 1..n + 1 |-> IF i = 1 THEN s[i]
                                      ELSE IF i = n + 1 THEN f[n] \o s[i] ELSE f[i]]
  <2>2. \A i \in 1..n : f[i] = IF i = 1 THEN s[i] ELSE f[i - 1] \o s[i]
    BY <2>1
  <2>3. \A i \in 1..n : g[i] = f[i]
    BY <2>2
  <2>4. ASSUME NEW i \in 1..n + 1
        PROVE  g[i] = IF i = 1 THEN s[i] ELSE g[i - 1] \o s[i]
    <3>1. CASE i = 1
      BY <3>1
    <3>2. CASE i # 1 /\ i = n + 1
      <4>1. n \in 1..n /\ i - 1 = n
        BY <3>2
      <4>2. QED
        BY <4>1, <3>2, <2>3
    <3>3. CASE i # 1 /\ i # n + 1
      <4>1. i \in 1..n /\ i - 1 \in 1..n
        BY <3>3
      <4>2. g[i] = f[i] /\ g[i - 1] = f[i - 1]
        BY <4>1, <2>3
      <4>3. QED
        BY <4>1, <4>2, <2>2, <3>3
    <3>4. QED
      BY <3>1, <3>2, <3>3
  <2>5. g = [i \in 1..n + 1 |-> g[i]]
    OBVIOUS
  <2>6. Is(g, n + 1)
    <3> HIDE DEF g
    <3>1. QED
      BY <2>4, <2>5
  <2>7. n + 1 \in Nat
    OBVIOUS
  <2>8. QED
    BY <2>6, <2>7
<1>3. Len(s) \in S
  <2> HIDE DEF S
  <2>1. Len(s) \in 0..Len(s)
    OBVIOUS
  <2>2. 0 \in Nat
    OBVIOUS
  <2>3. QED
    BY <1>1, <1>2, <2>1, <2>2, UpTo
<1>4. PICK f : Is(f, Len(s))
  BY <1>3
<1>5. Flat(s) = CHOOSE h : Is(h, Len(s))
  BY DEF Flat
<1>6. Is(Flat(s), Len(s))
  <2> HIDE DEF Is
  <2>1. QED
    BY <1>4, <1>5
<1>7. QED
  BY <1>6

(* The elements of a concatenation. *)
LEMMA ConcatFacts ==
  ASSUME NEW K, NEW a \in Seq(K), NEW b \in Seq(K)
  PROVE  /\ a \o b \in Seq(K)
         /\ Len(a \o b) = Len(a) + Len(b)
         /\ \A i \in 1..Len(a) : (a \o b)[i] = a[i]
         /\ \A i \in 1..Len(b) : (a \o b)[Len(a) + i] = b[i]
  OBVIOUS

(* What a message is on the bus: its START, then its bytes. *)
LEMMA OnWireFacts ==
  ASSUME NEW t \in Seq(Message), NEW k \in 1..Len(t)
  PROVE  /\ OnWire(t, k) \in Seq(Kinds)
         /\ Len(OnWire(t, k)) = HeadOf(t[k]) + t[k].len
         /\ ~t[k].nostart => OnWire(t, k)[1] = IF t[k].rd THEN "Sr" ELSE "Sw"
         /\ \A i \in 1..t[k].len :
              OnWire(t, k)[HeadOf(t[k]) + i] =
                IF ~t[k].rd THEN "w"
                ELSE IF k = Len(t) /\ i = t[k].len THEN "r-" ELSE "r+"
<1> DEFINE h == IF t[k].nostart THEN <<>> ELSE <<IF t[k].rd THEN "Sr" ELSE "Sw">>
           b == [i \in 1..t[k].len |->
                   IF ~t[k].rd THEN "w"
                   ELSE IF k = Len(t) /\ i = t[k].len THEN "r-" ELSE "r+"]
<1>0. t[k] \in Message
  OBVIOUS
<1>1. t[k].len \in Nat
  BY <1>0 DEF Message
<1>2. h \in Seq(Kinds) /\ Len(h) = HeadOf(t[k])
      /\ (~t[k].nostart => h[1] = IF t[k].rd THEN "Sr" ELSE "Sw")
  <2>1. CASE t[k].nostart
    BY <2>1 DEF HeadOf
  <2>2. CASE ~t[k].nostart /\ t[k].rd
    BY <2>2 DEF HeadOf, Kinds
  <2>3. CASE ~t[k].nostart /\ ~t[k].rd
    BY <2>3 DEF HeadOf, Kinds
  <2>4. QED
    BY <2>1, <2>2, <2>3
<1>3. b \in Seq(Kinds) /\ Len(b) = t[k].len
  BY <1>1 DEF Kinds
<1>4. \A i \in 1..t[k].len : b[i] =
        IF ~t[k].rd THEN "w"
        ELSE IF k = Len(t) /\ i = t[k].len THEN "r-" ELSE "r+"
  OBVIOUS
<1>5. OnWire(t, k) = h \o b
  BY DEF OnWire
<1>5a. PICK x : x = h
  OBVIOUS
<1>5b. PICK y : y = b
  OBVIOUS
<1> HIDE DEF h, b
<1>6. ~t[k].nostart => 1 \in 1..Len(h)
  BY <1>2 DEF HeadOf
<1>7. x \in Seq(Kinds) /\ y \in Seq(Kinds)
  BY <1>2, <1>3, <1>5a, <1>5b
<1>8. /\ x \o y \in Seq(Kinds)
      /\ Len(x \o y) = Len(x) + Len(y)
      /\ \A i \in 1..Len(x) : (x \o y)[i] = x[i]
      /\ \A i \in 1..Len(y) : (x \o y)[Len(x) + i] = y[i]
  BY <1>7, ConcatFacts
<1>9. QED
  BY <1>2, <1>3, <1>4, <1>5, <1>5a, <1>5b, <1>6, <1>8

(* How far k messages reach, and where the bytes of each are. *)
LEMMA Offsets ==
  ASSUME NEW t \in Seq(Message), t # <<>>
  PROVE  /\ Bytes(t) \in Seq(Kinds)
         /\ Off(t, 0) = 0 /\ Off(t, Len(t)) = Len(Bytes(t))
         /\ \A k \in 0..Len(t) : Off(t, k) \in Nat
         /\ \A k \in 1..Len(t) :
              /\ Off(t, k) = Off(t, k - 1) + Len(OnWire(t, k))
              /\ Off(t, k) <= Len(Bytes(t))
              /\ \A i \in 1..Len(OnWire(t, k)) :
                   Bytes(t)[Off(t, k - 1) + i] = OnWire(t, k)[i]
<1> DEFINE s == Pieces(t)
           F == Flat(s)
           n == Len(t)
<1>1. n \in Nat \ {0} /\ Len(s) = n /\ Len(s) \in Nat
  BY DEF Pieces
<1>2. \A k \in 1..n : s[k] = OnWire(t, k) /\ s[k] \in Seq(Kinds)
  BY OnWireFacts DEF Pieces
<1>3. F = [i \in 1..n |-> IF i = 1 THEN s[i] ELSE F[i - 1] \o s[i]]
  BY <1>1, FlatUnfolds
<1>4. F[1] = s[1] /\ \A i \in 1..n - 1 : F[i + 1] = F[i] \o s[i + 1]
  <2>1. \A i \in 1..n : F[i] = IF i = 1 THEN s[i] ELSE F[i - 1] \o s[i]
    <3> HIDE DEF F
    <3>1. QED
      BY <1>3
  <2> HIDE DEF F, s
  <2>2. F[1] = s[1]
    BY <2>1, <1>1
  <2>3. ASSUME NEW i \in 1..n - 1
        PROVE  F[i + 1] = F[i] \o s[i + 1]
    <3>1. i + 1 \in 1..n /\ i + 1 # 1 /\ i + 1 - 1 = i
      BY <1>1
    <3>2. PICK k : k = i + 1
      OBVIOUS
    <3>3. k \in 1..n /\ k # 1 /\ k - 1 = i
      BY <3>1, <3>2
    <3>4. F[k] = F[k - 1] \o s[k]
      BY <2>1, <3>3
    <3>5. QED
      BY <3>2, <3>3, <3>4
  <2>4. QED
    BY <2>2, <2>3
<1>5. Bytes(t) = F[n]
  <2>1. Bytes(t) = FlattenSeq(s)
    BY DEF Bytes, Pieces
  <2>2. FlattenSeq(s) = Flat(s)[Len(s)]
    <3>1. Len(s) # 0
      BY <1>1
    <3> HIDE DEF s
    <3>2. QED
      BY <3>1 DEF FlattenSeq, Flat
  <2>3. QED
    BY <2>1, <2>2, <1>1
<1>6. Off(t, 0) = 0 /\ \A k \in 1..n : Off(t, k) = Len(F[k])
  BY DEF Off
<1> HIDE DEF F, s
<1>6a. ASSUME NEW j \in 1..n - 1, F[j] \in Seq(Kinds)
      PROVE  /\ F[j + 1] \in Seq(Kinds)
             /\ Len(F[j + 1]) = Len(F[j]) + Len(s[j + 1])
             /\ \A i \in 1..Len(F[j]) : F[j + 1][i] = F[j][i]
             /\ \A i \in 1..Len(s[j + 1]) : F[j + 1][Len(F[j]) + i] = s[j + 1][i]
  <2>1. PICK a : a = F[j]
    OBVIOUS
  <2>2. PICK b : b = s[j + 1]
    OBVIOUS
  <2>3. j + 1 \in 1..n
    BY <1>1
  <2>4. a \in Seq(Kinds) /\ b \in Seq(Kinds) /\ F[j + 1] = a \o b
    BY <1>2, <1>4, <1>6a, <2>1, <2>2, <2>3
  <2>5. /\ a \o b \in Seq(Kinds)
        /\ Len(a \o b) = Len(a) + Len(b)
        /\ \A i \in 1..Len(a) : (a \o b)[i] = a[i]
        /\ \A i \in 1..Len(b) : (a \o b)[Len(a) + i] = b[i]
    BY <2>4, ConcatFacts
  <2>6. QED
    BY <2>1, <2>2, <2>4, <2>5
<1>7. \A i \in 1..n : F[i] \in Seq(Kinds)
  <2> DEFINE S == {i \in Nat : F[i] \in Seq(Kinds)}
  <2>1. 1 \in S
    BY <1>1, <1>2, <1>4
  <2>2. ASSUME NEW i \in 1..n - 1, i \in S
        PROVE  i + 1 \in S
    <3>1. i + 1 \in 1..n /\ i + 1 \in Nat
      BY <1>1
    <3>2. F[i] \in Seq(Kinds)
      BY <2>2
    <3>3. QED
      BY <3>1, <3>2, <1>6a
  <2> HIDE DEF S
  <2>3. \A i \in 1..n : i \in S
    BY <2>1, <2>2, UpTo, <1>1
  <2>4. QED
    BY <2>3 DEF S
<1>8. \A k \in 0..n : Off(t, k) \in Nat
  BY <1>6, <1>7
<1>9. ASSUME NEW k \in 1..n
      PROVE  /\ Off(t, k) = Off(t, k - 1) + Len(s[k])
             /\ \A i \in 1..Len(s[k]) : F[k][Off(t, k - 1) + i] = s[k][i]
  <2>1. CASE k = 1
    BY <2>1, <1>2, <1>4, <1>6, <1>1
  <2>2. CASE k # 1
    <3>1. k - 1 \in 1..n - 1 /\ k - 1 \in 1..n /\ k - 1 + 1 = k
      BY <2>2
    <3>2. PICK j : j = k - 1
      OBVIOUS
    <3>3. j \in 1..n - 1 /\ j \in 1..n /\ j + 1 = k
      BY <3>1, <3>2
    <3>4. Off(t, k) = Len(F[k]) /\ Off(t, j) = Len(F[j]) /\ F[j] \in Seq(Kinds)
      BY <3>3, <1>6, <1>7
    <3>5. /\ Len(F[k]) = Len(F[j]) + Len(s[k])
          /\ \A i \in 1..Len(s[k]) : F[k][Len(F[j]) + i] = s[k][i]
      BY <3>3, <3>4, <1>6a
    <3>6. QED
      BY <3>2, <3>4, <3>5
  <2>3. QED
    BY <2>1, <2>2
<1>10. ASSUME NEW k \in 1..n
       PROVE  /\ Off(t, k) <= Len(F[n])
              /\ \A i \in 1..Off(t, k) : F[n][i] = F[k][i]
  <2> DEFINE S == {j \in Nat : /\ Off(t, k) <= Len(F[j])
                               /\ \A i \in 1..Off(t, k) : F[j][i] = F[k][i]}
  <2>0. Off(t, k) = Len(F[k]) /\ F[k] \in Seq(Kinds)
    BY <1>6, <1>7
  <2>1. k \in S
    BY <2>0
  <2>2. ASSUME NEW j \in k..n - 1, j \in S
        PROVE  j + 1 \in S
    <3>1. j + 1 \in 1..n /\ j \in 1..n - 1 /\ j \in 1..n /\ j + 1 \in Nat
      BY <1>1
    <3>2. F[j] \in Seq(Kinds) /\ s[j + 1] \in Seq(Kinds)
      BY <3>1, <1>2, <1>7
    <3>3. Len(F[j + 1]) = Len(F[j]) + Len(s[j + 1])
          /\ \A i \in 1..Len(F[j]) : F[j + 1][i] = F[j][i]
      BY <3>1, <3>2, <1>6a
    <3>4. Off(t, k) <= Len(F[j]) /\ \A i \in 1..Off(t, k) : F[j][i] = F[k][i]
      BY <2>2
    <3>5. Off(t, k) <= Len(F[j + 1])
      <4>1. Len(F[j]) \in Nat /\ Len(s[j + 1]) \in Nat /\ Off(t, k) \in Nat
        BY <2>0, <3>2
      <4>2. Len(F[j + 1]) = Len(F[j]) + Len(s[j + 1]) /\ Off(t, k) <= Len(F[j])
        BY <3>3, <3>4
      <4>3. PICK x, y, z, u : x = Len(F[j]) /\ y = Len(s[j + 1]) /\ z = Off(t, k)
                             /\ u = Len(F[j + 1])
        OBVIOUS
      <4>4. x \in Nat /\ y \in Nat /\ z \in Nat /\ u = x + y /\ z <= x
        BY <4>1, <4>2, <4>3
      <4>5. z <= u
        BY <4>4
      <4>6. QED
        BY <4>3, <4>5
    <3>6. ASSUME NEW i \in 1..Off(t, k) PROVE F[j + 1][i] = F[k][i]
      <4>1. i \in 1..Len(F[j])
        BY <2>0, <3>2, <3>4
      <4>2. QED
        BY <4>1, <3>3, <3>4
    <3>7. QED
      BY <3>1, <3>5, <3>6
  <2> HIDE DEF S
  <2>3. \A j \in k..n : j \in S
    <3>1. k \in Nat /\ n \in Nat
      BY <1>1
    <3>2. QED
      BY <2>1, <2>2, UpTo, <3>1
  <2>4. n \in S
    BY <2>3, <1>1
  <2>5. QED
    BY <2>4 DEF S
<1>11. ASSUME NEW k \in 1..n, NEW i \in 1..Len(s[k])
       PROVE  F[n][Off(t, k - 1) + i] = s[k][i]
  <2>1. Off(t, k - 1) \in Nat /\ Off(t, k) = Off(t, k - 1) + Len(s[k]) /\ Len(s[k]) \in Nat
    BY <1>8, <1>9, <1>2
  <2>2. Off(t, k - 1) + i \in 1..Off(t, k)
    BY <2>1
  <2>3. QED
    BY <2>2, <1>9, <1>10
<1>12. n \in 1..n /\ Off(t, n) = Len(Bytes(t)) /\ Bytes(t) \in Seq(Kinds)
  BY <1>1, <1>5, <1>6, <1>7
<1>13. QED
  BY <1>2, <1>5, <1>6, <1>8, <1>9, <1>10, <1>11, <1>12

(* Messages without anything on the bus do not count. *)
LEMMA Stretch ==
  ASSUME NEW t \in Seq(Message), t # <<>>, NEW a \in 0..Len(t), NEW b \in a..Len(t),
         \A j \in a + 1..b : Len(OnWire(t, j)) = 0
  PROVE  Off(t, b) = Off(t, a)
<1> DEFINE S == {j \in Nat : Off(t, j) = Off(t, a)}
<1>0. a \in Nat /\ b \in Nat /\ Len(t) \in Nat /\ b \in a..b
  OBVIOUS
<1>1. a \in S
  BY <1>0
<1>2. ASSUME NEW i \in a..b - 1, i \in S
      PROVE  i + 1 \in S
  <2>1. i + 1 \in a + 1..b /\ i + 1 \in 1..Len(t) /\ i + 1 - 1 = i /\ i + 1 \in Nat
        /\ i \in 0..Len(t)
    BY <1>0
  <2>2. Off(t, i + 1) = Off(t, i) + 0 /\ Off(t, i) \in Nat
    BY <2>1, Offsets
  <2>3. QED
    BY <2>1, <2>2, <1>2
<1> HIDE DEF S
<1>3. \A i \in a..b : i \in S
  BY <1>0, <1>1, <1>2, UpTo
<1>4. QED
  BY <1>0, <1>3 DEF S

(* A prefix grows by the byte that follows it. *)
LEMMA Grow ==
  ASSUME NEW K, NEW B \in Seq(K), NEW n \in 0..Len(B) - 1
  PROVE  /\ Append(SubSeq(B, 1, n), B[n + 1]) = SubSeq(B, 1, n + 1)
         /\ Len(SubSeq(B, 1, n)) = n
         /\ B[n + 1] \in K
  OBVIOUS

(* A sequence is its longest prefix. *)
LEMMA Whole ==
  ASSUME NEW K, NEW B \in Seq(K)
  PROVE  SubSeq(B, 1, Len(B)) = B
  OBVIOUS

(* One message of a transfer on the bus. *)
LEMMA MessageOnBus ==
  ASSUME NEW t \in Transfers, NEW x \in 0..Len(t) - 1
  PROVE  /\ t \in Seq(Message) /\ Len(t) \in Nat \ {0} /\ t[x + 1] \in Message
         /\ Bytes(t) \in Seq(Kinds)
         /\ Off(t, x) \in Nat /\ Off(t, x + 1) \in Nat /\ Off(t, x + 1) <= Len(Bytes(t))
         /\ Off(t, x + 1) = Off(t, x) + HeadOf(t[x + 1]) + t[x + 1].len
         /\ x = Len(t) - 1 => Off(t, x + 1) = Len(Bytes(t))
         /\ ~t[x + 1].nostart =>
              Bytes(t)[Off(t, x) + 1] = IF t[x + 1].rd THEN "Sr" ELSE "Sw"
         /\ \A i \in 1..t[x + 1].len :
              Bytes(t)[Off(t, x) + HeadOf(t[x + 1]) + i] =
                IF ~t[x + 1].rd THEN "w"
                ELSE IF x + 1 = Len(t) /\ i = t[x + 1].len THEN "r-" ELSE "r+"
<1>1. t \in Seq(Message) /\ t # <<>>
  BY I2cAssumption
<1>2. PICK k : k = x + 1
  OBVIOUS
<1>3. k \in 1..Len(t) /\ k \in 0..Len(t) /\ x \in 0..Len(t) /\ k - 1 = x
  BY <1>1, <1>2
<1>4. /\ Bytes(t) \in Seq(Kinds)
      /\ Off(t, x) \in Nat /\ Off(t, k) \in Nat
      /\ Off(t, Len(t)) = Len(Bytes(t))
      /\ Off(t, k) = Off(t, x) + Len(OnWire(t, k))
      /\ Off(t, k) <= Len(Bytes(t))
      /\ \A i \in 1..Len(OnWire(t, k)) :
           Bytes(t)[Off(t, x) + i] = OnWire(t, k)[i]
  BY <1>1, <1>3, Offsets
<1>5. /\ Len(OnWire(t, k)) = HeadOf(t[k]) + t[k].len
      /\ ~t[k].nostart => OnWire(t, k)[1] = IF t[k].rd THEN "Sr" ELSE "Sw"
      /\ \A i \in 1..t[k].len :
           OnWire(t, k)[HeadOf(t[k]) + i] =
             IF ~t[k].rd THEN "w"
             ELSE IF k = Len(t) /\ i = t[k].len THEN "r-" ELSE "r+"
  BY <1>1, <1>3, OnWireFacts
<1>6. t[k] \in Message
  BY <1>1, <1>3
<1>7. t[k].len \in Nat /\ HeadOf(t[k]) \in {0, 1} /\ (~t[k].nostart => HeadOf(t[k]) = 1)
  BY <1>6 DEF Message, HeadOf
<1>8. Off(t, k) = Off(t, x) + HeadOf(t[k]) + t[k].len
  BY <1>4, <1>5, <1>7
<1>9. ASSUME ~t[k].nostart
      PROVE  Bytes(t)[Off(t, x) + 1] = IF t[k].rd THEN "Sr" ELSE "Sw"
  <2>1. 1 \in 1..Len(OnWire(t, k))
    BY <1>5, <1>7, <1>9
  <2>2. Bytes(t)[Off(t, x) + 1] = OnWire(t, k)[1]
    BY <2>1, <1>4
  <2>3. QED
    BY <2>2, <1>5, <1>9
<1>10. ASSUME NEW i \in 1..t[k].len
       PROVE  Bytes(t)[Off(t, x) + HeadOf(t[k]) + i] =
                IF ~t[k].rd THEN "w"
                ELSE IF k = Len(t) /\ i = t[k].len THEN "r-" ELSE "r+"
  <2>1. PICK j : j = HeadOf(t[k]) + i
    OBVIOUS
  <2>0. Len(OnWire(t, k)) = HeadOf(t[k]) + t[k].len /\ Off(t, x) \in Nat
    BY <1>4, <1>5
  <2>2. j \in 1..Len(OnWire(t, k)) /\ Off(t, x) + HeadOf(t[k]) + i = Off(t, x) + j
    BY <2>0, <2>1, <1>7
  <2>3. Bytes(t)[Off(t, x) + j] = OnWire(t, k)[j]
    BY <2>2, <1>4
  <2>4. OnWire(t, k)[j] = IF ~t[k].rd THEN "w"
                          ELSE IF k = Len(t) /\ i = t[k].len THEN "r-" ELSE "r+"
    BY <2>1, <1>5
  <2>5. QED
    BY <2>2, <2>3, <2>4
<1>11. x = Len(t) - 1 => k = Len(t)
  BY <1>1, <1>2
<1>12. Len(t) \in Nat \ {0}
  BY <1>1
<1>13. QED
  BY <1>1, <1>2, <1>4, <1>6, <1>8, <1>9, <1>10, <1>11, <1>12

-----------------------------------------------------------------------------
(* The handler.  Its result is to go on with byte n + 1 or to stop. *)

Goes(w, t, n) ==
  w \in Pair /\ Active(w.d) /\ Cursor(w.d) /\ w.d.msgs = t /\ At(w, n, FALSE)

Stops(w, r) ==
  /\ w \in Pair /\ w.d.state = "STOP" /\ w.d.msgs = <<>> /\ w.d.num = 0 /\ w.d.idx = r
  /\ w.h.op = "P"

(* All n bytes were sent and the handler stops, or it goes on after n bytes. *)
Continues(w, t, n) ==
  Goes(w, t, n) \/ (Stops(w, Len(t)) /\ n = Len(Bytes(t)))

(* s3c24xx_i2c_stop forgets the messages and reports r, or the next index. *)
LEMMA StopResult ==
  ASSUME NEW v \in Pair, NEW r \in Int
  PROVE  Stops(I2cStop(v, r), IF r # 0 THEN r ELSE v.d.idx + 1)
<1>1. v.d \in Driver /\ v.h \in Controller
  BY DEF Pair
<1>2. <<>> \in Transfers \cup {<<>>} /\ 0 \in Nat /\ 0 \in Int
  OBVIOUS
<1>3. PICK x : x = IF r # 0 THEN r ELSE v.d.idx + 1
  OBVIOUS
<1>4. PICK e : e = [MasterComplete(v.d, r) EXCEPT !.state = "STOP"]
  OBVIOUS
<1>41. MasterComplete(v.d, r) = [v.d EXCEPT !.ptr = 0, !.msgs = <<>>, !.num = 0, !.idx = x]
  BY <1>3 DEF MasterComplete
<1>42. x \in Int
  BY <1>1, <1>3 DEF Driver
<1>43. e \in Driver /\ e.state = "STOP" /\ e.msgs = <<>> /\ e.num = 0 /\ e.idx = x
  BY <1>1, <1>2, <1>4, <1>41, <1>42 DEF Driver
<1>5. [v.h EXCEPT !.op = "P", !.irqen = FALSE] \in Controller
      /\ [v.h EXCEPT !.op = "P", !.irqen = FALSE].op = "P"
  BY <1>1 DEF Controller, Op
<1>6. QED
  BY <1>3, <1>4, <1>43, <1>5 DEF I2cStop, Stops, Pair

(* s3c24xx_i2c_message_start *)
LEMMA StartResult ==
  ASSUME NEW v \in Pair, Cursor(v.d), v.h.irqen, v.d.ptr = 0, ~Msg(v.d).nostart
  PROVE  Goes(MessageStart(v), v.d.msgs, Off(v.d.msgs, v.d.idx))
<1>1. v.d \in Driver /\ v.h \in Controller
  BY DEF Pair
<1>2. PICK e : e = [v.d EXCEPT !.state = "START"]
  OBVIOUS
<1>3. /\ e \in Driver /\ e.state = "START" /\ e.msgs = v.d.msgs /\ e.num = v.d.num
      /\ e.idx = v.d.idx /\ e.ptr = v.d.ptr
  BY <1>1, <1>2 DEF Driver
<1>4. PICK o : o = IF Msg(v.d).rd THEN "Sr" ELSE "Sw"
  OBVIOUS
<1>5. PICK c : c = [v.h EXCEPT !.acken = TRUE, !.op = o]
  OBVIOUS
<1>6. c \in Controller /\ c.op = o /\ c.acken /\ c.irqen
  BY <1>1, <1>4, <1>5 DEF Controller, Op
<1>7. Msg(e) = Msg(v.d)
  BY <1>3 DEF Msg
<1>8. PICK w : w = MessageStart(v)
  OBVIOUS
<1>9. w = [d |-> e, h |-> c]
  BY <1>2, <1>4, <1>5, <1>8 DEF MessageStart
<1>10. w \in Pair /\ w.d = e /\ w.h = c
  BY <1>3, <1>6, <1>9 DEF Pair
<1>11. AtStart(w, Off(v.d.msgs, v.d.idx), FALSE)
  BY <1>3, <1>4, <1>6, <1>7, <1>10 DEF AtStart
<1>12. Cursor(w.d) /\ Active(w.d)
  BY <1>3, <1>10 DEF Cursor, Active
<1>13. QED
  BY <1>3, <1>6, <1>8, <1>10, <1>11, <1>12 DEF Goes, At

(* The next byte of a write. *)
LEMMA SendResult ==
  ASSUME NEW v \in Pair, Cursor(v.d), v.h.irqen, v.d.state = "WRITE",
         ~Msg(v.d).rd, v.d.ptr < Msg(v.d).len
  PROVE  Goes(SendByte(v), v.d.msgs,
              Off(v.d.msgs, v.d.idx) + HeadOf(Msg(v.d)) + v.d.ptr)
<1>1. v.d \in Driver /\ v.h \in Controller
  BY DEF Pair
<1>2. PICK e : e = [v.d EXCEPT !.ptr = @ + 1]
  OBVIOUS
<1>3. /\ e \in Driver /\ e.state = "WRITE" /\ e.msgs = v.d.msgs /\ e.num = v.d.num
      /\ e.idx = v.d.idx /\ e.ptr = v.d.ptr + 1
  BY <1>1, <1>2 DEF Driver
<1>4. PICK c : c = [v.h EXCEPT !.op = "w"]
  OBVIOUS
<1>5. c \in Controller /\ c.op = "w" /\ c.irqen
  BY <1>1, <1>4 DEF Controller, Op
<1>6. Msg(e) = Msg(v.d)
  BY <1>3 DEF Msg
<1>7. PICK w : w = SendByte(v)
  OBVIOUS
<1>8. w = [d |-> e, h |-> c]
  BY <1>2, <1>4, <1>7 DEF SendByte
<1>9. w \in Pair /\ w.d = e /\ w.h = c
  BY <1>3, <1>5, <1>8 DEF Pair
<1>10. v.d.idx \in 0..Len(v.d.msgs) - 1 /\ v.d.msgs \in Transfers /\ v.d.ptr \in Nat
  BY <1>1 DEF Cursor, Driver
<1>11. Msg(v.d) \in Message /\ Off(v.d.msgs, v.d.idx) \in Nat
  BY <1>10, MessageOnBus DEF Msg
<1>12. Msg(v.d).len \in Nat /\ HeadOf(Msg(v.d)) \in {0, 1}
  BY <1>11 DEF Message, HeadOf
<1>13. e.ptr \in 1..Msg(v.d).len
  BY <1>3, <1>10, <1>12
<1>14. Off(v.d.msgs, v.d.idx) + HeadOf(Msg(v.d)) + v.d.ptr
         = Off(v.d.msgs, v.d.idx) + HeadOf(Msg(v.d)) + e.ptr - 1
  BY <1>3, <1>10, <1>11, <1>12
<1>15. AtWrite(w, Off(v.d.msgs, v.d.idx) + HeadOf(Msg(v.d)) + v.d.ptr)
  BY <1>3, <1>5, <1>6, <1>9, <1>13, <1>14 DEF AtWrite
<1>16. Cursor(w.d) /\ Active(w.d)
  BY <1>3, <1>9 DEF Cursor, Active
<1>17. QED
  BY <1>3, <1>5, <1>7, <1>9, <1>15, <1>16 DEF Goes, At

(* From the end of a message that is not the last. *)
LEMMA NextResult ==
  ASSUME ReadsLast, NEW v \in Pair, Cursor(v.d), v.h.irqen, v.d.state = "WRITE",
         v.d.idx < v.d.num - 1
  PROVE  Continues(NextMessage(v), v.d.msgs, Off(v.d.msgs, v.d.idx + 1))
<1>1. v.d \in Driver /\ v.h \in Controller
  BY DEF Pair
<1>2. PICK t : t = v.d.msgs
  OBVIOUS
<1>3. PICK x : x = v.d.idx
  OBVIOUS
<1>4. /\ t \in Transfers /\ v.d.num = Len(t) /\ x \in 0..Len(t) - 1 /\ x < Len(t) - 1
      /\ Len(t) \in Nat /\ t \in Seq(Message) /\ t # <<>>
  BY <1>2, <1>3, I2cAssumption DEF Cursor
<1> DEFINE T == {j \in x + 1..Len(t) - 1 :
                   ~t[j + 1].nostart \/ t[j + 1].rd \/ t[j + 1].len > 0 \/ j = Len(t) - 1}
<1>5. T \subseteq Nat /\ Len(t) - 1 \in T
  BY <1>4
<1>6. PICK k : k = Min(T)
  OBVIOUS
<1>7. k \in T /\ \A y \in T : k <= y
  <2> HIDE DEF T
  <2>1. QED
    BY <1>5, <1>6, MinOfNat
<1>8. k \in x + 1..Len(t) - 1 /\ k \in 0..Len(t) - 1 /\ k \in Nat /\ k \in Int
  BY <1>4, <1>7
<1>9. Off(t, k) = Off(t, x + 1)
  <2>1. ASSUME NEW i \in x + 1 + 1..k
        PROVE  Len(OnWire(t, i)) = 0
    <3>1. PICK j : j = i - 1
      OBVIOUS
    <3>2. j \in x + 1..Len(t) - 1 /\ j < k /\ j + 1 = i /\ i \in 1..Len(t)
      BY <1>4, <1>8, <3>1
    <3>3. j \notin T
      <4>1. ~(k <= j)
        BY <3>2, <1>8
      <4>2. QED
        BY <4>1, <1>7
    <3>4. t[i].nostart /\ ~(t[i].len > 0)
      BY <3>2, <3>3
    <3>5. t[i] \in Message
      BY <3>2, <1>4
    <3>6. t[i].len = 0
      BY <3>4, <3>5 DEF Message
    <3>7. HeadOf(t[i]) = 0
      BY <3>4 DEF HeadOf
    <3>8. QED
      BY <1>4, <3>2, <3>6, <3>7, OnWireFacts
  <2>2. x + 1 \in 0..Len(t) /\ k \in x + 1..Len(t)
    BY <1>4, <1>8
  <2>3. QED
    BY <1>4, <2>1, <2>2, Stretch
<1>10. PICK n : n = [v EXCEPT !.d.idx = k, !.d.ptr = 0]
  OBVIOUS
<1>11. /\ n \in Pair /\ n.h = v.h
       /\ n.d.msgs = t /\ n.d.num = Len(t) /\ n.d.idx = k /\ n.d.ptr = 0
       /\ n.d.state = "WRITE"
  <2>1. n.d = [v.d EXCEPT !.idx = k, !.ptr = 0] /\ n.h = v.h /\ n = [d |-> n.d, h |-> n.h]
    BY <1>10 DEF Pair
  <2>2. PICK e : e = [v.d EXCEPT !.idx = k, !.ptr = 0]
    OBVIOUS
  <2>3. /\ e \in Driver /\ e.msgs = v.d.msgs /\ e.num = v.d.num /\ e.idx = k /\ e.ptr = 0
        /\ e.state = v.d.state
    BY <2>2, <1>1, <1>8 DEF Driver
  <2>4. n.d = e
    BY <2>1, <2>2
  <2>5. QED
    BY <2>1, <2>3, <2>4, <1>1, <1>2, <1>4 DEF Pair
<1>12. Cursor(n.d) /\ Msg(n.d) = t[k + 1] /\ n.h.irqen
  BY <1>4, <1>8, <1>11 DEF Cursor, Msg
<1>13. PICK m : m = t[k + 1]
  OBVIOUS
<1>14. m \in Message /\ m.len \in Nat
  BY <1>4, <1>8, <1>13, MessageOnBus DEF Message
<1>15. NextMessage(v) =
         CASE ~m.nostart -> MessageStart(n)
           [] m.nostart /\ m.rd -> [I2cStop(n, EINVAL) EXCEPT !.d.state = "OOPS"]
           [] m.nostart /\ ~m.rd /\ m.len > 0 -> SendByte(n)
           [] OTHER -> I2cStop(n, 0)
  BY <1>2, <1>3, <1>4, <1>6, <1>10, <1>13 DEF NextMessage
<1>16. m.rd => ~m.nostart
  <2>1. k + 1 \in 1..Len(t)
    BY <1>4, <1>8
  <2>2. QED
    BY <2>1, <1>4, <1>13 DEF ReadsLast
<1>17. CASE ~m.nostart
  <2>1. NextMessage(v) = MessageStart(n)
    BY <1>15, <1>17
  <2>2. Goes(MessageStart(n), n.d.msgs, Off(n.d.msgs, n.d.idx))
    BY <1>11, <1>12, <1>13, <1>17, StartResult
  <2>3. QED
    BY <2>1, <2>2, <1>2, <1>3, <1>9, <1>11 DEF Continues
<1>18. CASE m.nostart /\ m.len > 0
  <2>1. NextMessage(v) = SendByte(n)
    BY <1>15, <1>16, <1>18
  <2>2. Goes(SendByte(n), n.d.msgs, Off(n.d.msgs, n.d.idx) + HeadOf(Msg(n.d)) + n.d.ptr)
    BY <1>11, <1>12, <1>13, <1>16, <1>18, SendResult
  <2>3. HeadOf(Msg(n.d)) = 0 /\ Off(t, k) \in Nat
    BY <1>4, <1>8, <1>12, <1>13, <1>18, MessageOnBus DEF HeadOf
  <2>4. Off(n.d.msgs, n.d.idx) + HeadOf(Msg(n.d)) + n.d.ptr = Off(t, k)
    BY <2>3, <1>11
  <2>5. QED
    BY <2>1, <2>2, <2>4, <1>2, <1>3, <1>9, <1>11 DEF Continues
<1>19. CASE m.nostart /\ ~(m.len > 0)
  <2>1. NextMessage(v) = I2cStop(n, 0)
    BY <1>15, <1>16, <1>19
  <2>2. k = Len(t) - 1
    BY <1>7, <1>13, <1>16, <1>19
  <2>3. Stops(I2cStop(n, 0), k + 1)
    BY <1>11, StopResult
  <2>4. k + 1 = Len(t) /\ m.len = 0 /\ HeadOf(m) = 0
    BY <2>2, <1>4, <1>14, <1>19 DEF HeadOf
  <2>5. Off(t, k) \in Nat /\ Off(t, k + 1) = Off(t, k) + 0 + 0 /\ Off(t, k + 1) = Len(Bytes(t))
    BY <2>2, <2>4, <1>4, <1>8, <1>13, MessageOnBus
  <2>6. Off(t, x + 1) = Len(Bytes(t))
    BY <2>5, <1>9
  <2>7. QED
    BY <2>1, <2>3, <2>4, <2>6, <1>2, <1>3 DEF Continues
<1>20. QED
  BY <1>17, <1>18, <1>19

(* STATE_WRITE, with every byte of the message up to ptr on the bus. *)
LEMMA WriteResult ==
  ASSUME ReadsLast, NEW v \in Pair, Cursor(v.d), v.h.irqen, v.d.state = "WRITE",
         ~Msg(v.d).rd, v.d.ptr <= Msg(v.d).len
  PROVE  IF Nak(v) THEN Stops(Write(v), ECONNREFUSED)
         ELSE Continues(Write(v), v.d.msgs,
                        Off(v.d.msgs, v.d.idx) + HeadOf(Msg(v.d)) + v.d.ptr)
<1>1. v.d \in Driver /\ v.h \in Controller
  BY DEF Pair
<1>2. PICK t : t = v.d.msgs
  OBVIOUS
<1>3. PICK x : x = v.d.idx
  OBVIOUS
<1>4. t \in Transfers /\ v.d.num = Len(t) /\ x \in 0..Len(t) - 1
  BY <1>2, <1>3 DEF Cursor
<1>5. Msg(v.d) = t[x + 1] /\ v.d.ptr \in Nat
  BY <1>1, <1>2, <1>3 DEF Msg, Driver
<1>6. /\ Len(t) \in Nat /\ t[x + 1] \in Message
      /\ Off(t, x) \in Nat
      /\ Off(t, x + 1) = Off(t, x) + HeadOf(t[x + 1]) + t[x + 1].len
      /\ x = Len(t) - 1 => Off(t, x + 1) = Len(Bytes(t))
  BY <1>4, MessageOnBus
<1>7. t[x + 1].len \in Nat /\ HeadOf(t[x + 1]) \in {0, 1}
  BY <1>6 DEF Message, HeadOf
<1>8. CASE Nak(v)
  <2>1. Write(v) = I2cStop(v, ECONNREFUSED)
    BY <1>8 DEF Write
  <2>2. ECONNREFUSED \in Int /\ ECONNREFUSED # 0
    BY DEF ECONNREFUSED
  <2>3. Stops(I2cStop(v, ECONNREFUSED), ECONNREFUSED)
    BY <2>2, StopResult
  <2>4. QED
    BY <2>1, <2>3, <1>8
<1>9. CASE ~Nak(v) /\ ~IsMsgEnd(v.d)
  <2>1. Write(v) = SendByte(v)
    BY <1>9 DEF Write
  <2>2. v.d.ptr < Msg(v.d).len
    BY <1>5, <1>7, <1>9 DEF IsMsgEnd
  <2>3. QED
    BY <2>1, <2>2, <1>9, SendResult DEF Continues
<1>10. CASE ~Nak(v) /\ IsMsgEnd(v.d)
  <2>1. v.d.ptr = t[x + 1].len
    BY <1>5, <1>7, <1>10 DEF IsMsgEnd
  <2>2. Off(v.d.msgs, v.d.idx) + HeadOf(Msg(v.d)) + v.d.ptr = Off(t, x + 1)
    BY <2>1, <1>2, <1>3, <1>5, <1>6
  <2>3. CASE ~IsLastMsg(v.d)
    <3>1. Write(v) = NextMessage(v)
      BY <1>10, <2>3 DEF Write
    <3>2. v.d.idx < v.d.num - 1
      BY <2>3, <1>3, <1>4, <1>6 DEF IsLastMsg
    <3>3. Continues(NextMessage(v), v.d.msgs, Off(v.d.msgs, v.d.idx + 1))
      BY <3>2, NextResult
    <3>4. QED
      BY <3>1, <3>3, <2>2, <1>2, <1>3, <1>10
  <2>4. CASE IsLastMsg(v.d)
    <3>1. Write(v) = I2cStop(v, 0)
      BY <1>10, <2>4 DEF Write
    <3>2. x = Len(t) - 1 /\ v.d.idx + 1 = Len(t)
      BY <2>4, <1>3, <1>4, <1>6 DEF IsLastMsg
    <3>3. Stops(I2cStop(v, 0), Len(t))
      <4>1. Stops(I2cStop(v, 0), v.d.idx + 1)
        BY StopResult
      <4>2. QED
        BY <4>1, <3>2
    <3>4. QED
      BY <3>1, <3>2, <3>3, <2>2, <1>2, <1>6, <1>10 DEF Continues
  <2>5. QED
    BY <2>3, <2>4
<1>11. QED
  BY <1>8, <1>9, <1>10

(* STATE_START, with the address on the bus. *)
LEMMA StartedResult ==
  ASSUME ReadsLast, NEW v \in Pair, Cursor(v.d), v.h.irqen,
         NEW n, AtStart(v, n, TRUE)
  PROVE  IF Nak(v) THEN Stops(Started(v), ENXIO)
         ELSE Continues(Started(v), v.d.msgs, n + 1)
<1>1. v.d \in Driver /\ v.h \in Controller
  BY DEF Pair
<1>2. PICK t : t = v.d.msgs
  OBVIOUS
<1>3. PICK x : x = v.d.idx
  OBVIOUS
<1>4. t \in Transfers /\ v.d.num = Len(t) /\ x \in 0..Len(t) - 1
  BY <1>2, <1>3 DEF Cursor
<1>5. PICK m : m = t[x + 1]
  OBVIOUS
<1>6. Msg(v.d) = m /\ v.d.ptr = 0 /\ ~m.nostart /\ v.h.acken /\ n = Off(t, x)
      /\ v.h.op = IF m.rd THEN "r" ELSE "w"
  BY <1>2, <1>3, <1>5 DEF Msg, AtStart
<1>7. /\ Len(t) \in Nat /\ m \in Message /\ n \in Nat
      /\ Off(t, x + 1) = n + HeadOf(m) + m.len
      /\ x = Len(t) - 1 => Off(t, x + 1) = Len(Bytes(t))
  BY <1>4, <1>5, <1>6, MessageOnBus
<1>8. m.len \in Nat /\ HeadOf(m) = 1
  BY <1>6, <1>7 DEF Message, HeadOf
<1>9. PICK s : s = [v EXCEPT !.d.state = IF m.rd THEN "READ" ELSE "WRITE"]
  OBVIOUS
<1>10. PICK z : z = IF m.rd THEN "READ" ELSE "WRITE"
  OBVIOUS
<1>11. PICK e : e = [v.d EXCEPT !.state = z]
  OBVIOUS
<1>12. /\ e \in Driver /\ e.msgs = v.d.msgs /\ e.num = v.d.num /\ e.idx = v.d.idx
       /\ e.ptr = v.d.ptr /\ e.state = z
  BY <1>1, <1>10, <1>11 DEF Driver
<1>13. s = [d |-> e, h |-> v.h]
  BY <1>9, <1>10, <1>11 DEF Pair
<1>14. s \in Pair /\ s.d = e /\ s.h = v.h
  BY <1>1, <1>12, <1>13 DEF Pair
<1>15. Cursor(s.d) /\ Msg(s.d) = m /\ s.d.msgs = t /\ s.d.idx = x /\ s.d.ptr = 0
       /\ s.d.num = Len(t) /\ s.d.state = z
  BY <1>2, <1>3, <1>4, <1>5, <1>6, <1>12, <1>14 DEF Cursor, Msg
<1>16. CASE Nak(v)
  <2>1. Started(v) = I2cStop(v, ENXIO)
    BY <1>16 DEF Started
  <2>2. ENXIO \in Int /\ ENXIO # 0
    BY DEF ENXIO
  <2>3. Stops(I2cStop(v, ENXIO), ENXIO)
    BY <2>2, StopResult
  <2>4. QED
    BY <2>1, <2>3, <1>16
<1>17. CASE ~Nak(v) /\ IsLastMsg(v.d) /\ m.len = 0
  <2>1. Started(v) = I2cStop(s, 0)
    BY <1>6, <1>9, <1>17 DEF Started
  <2>2. Stops(I2cStop(s, 0), x + 1)
    BY <1>14, <1>15, StopResult
  <2>3. x = Len(t) - 1 /\ x + 1 = Len(t)
    BY <1>3, <1>4, <1>7, <1>17 DEF IsLastMsg
  <2>4. n + 1 = Len(Bytes(t))
    BY <2>3, <1>7, <1>8, <1>17
  <2>5. QED
    BY <2>1, <2>2, <2>3, <2>4, <1>2, <1>17 DEF Continues
<1>18. CASE ~Nak(v) /\ ~(IsLastMsg(v.d) /\ m.len = 0) /\ m.rd
  <2>1. Started(v) = PrepareRead(s)
    BY <1>6, <1>9, <1>18 DEF Started
  <2>2. x = Len(t) - 1
    <3>1. x + 1 \in 1..Len(t)
      BY <1>4, <1>7
    <3>2. x + 1 = Len(t)
      BY <3>1, <1>4, <1>5, <1>18 DEF ReadsLast
    <3>3. QED
      BY <3>2, <1>4, <1>7
  <2>3. IsLastMsg(v.d) /\ IsLastMsg(s.d)
    BY <2>2, <1>3, <1>4, <1>7, <1>15 DEF IsLastMsg
  <2>4. m.len \in Nat \ {0} /\ ~IsMsgEnd(s.d) /\ (IsMsgLast(s.d) <=> m.len = 1)
    BY <2>3, <1>8, <1>15, <1>18 DEF IsMsgEnd, IsMsgLast
  <2>5. PICK c : c = IF m.len = 1 THEN [v.h EXCEPT !.acken = FALSE] ELSE v.h
    OBVIOUS
  <2>6. c \in Controller /\ c.op = v.h.op /\ c.irqen /\ (c.acken <=> m.len # 1)
    BY <2>5, <1>1, <1>6 DEF Controller
  <2>7. PrepareRead(s) = [d |-> e, h |-> c]
    <3>1. CASE m.len = 1
      <4>1. PrepareRead(s) = [s EXCEPT !.h.acken = FALSE]
        BY <2>3, <2>4, <3>1 DEF PrepareRead
      <4>2. QED
        BY <4>1, <2>5, <3>1, <1>13
    <3>2. CASE m.len # 1
      <4>1. PrepareRead(s) = s
        BY <2>3, <2>4, <3>2 DEF PrepareRead
      <4>2. QED
        BY <4>1, <2>5, <3>2, <1>13
    <3>3. QED
      BY <3>1, <3>2
  <2>8. PICK w : w = PrepareRead(s)
    OBVIOUS
  <2>9. w \in Pair /\ w.d = e /\ w.h = c
    BY <2>6, <2>7, <2>8, <1>12 DEF Pair
  <2>10. w.d.ptr \in 0..m.len - 1 /\ (w.h.acken <=> w.d.ptr # m.len - 1)
    BY <2>4, <2>6, <2>9, <1>6, <1>12
  <2>11. n + 1 = Off(w.d.msgs, w.d.idx) + 1 + w.d.ptr
    BY <2>9, <1>2, <1>3, <1>6, <1>7, <1>12
  <2>12. AtRead(w, n + 1)
    BY <2>6, <2>9, <2>10, <2>11, <1>6, <1>10, <1>14, <1>15, <1>18 DEF AtRead
  <2>13. Goes(w, t, n + 1)
    BY <2>6, <2>9, <2>12, <1>10, <1>12, <1>14, <1>15 DEF Goes, At, Active
  <2>14. QED
    BY <2>1, <2>8, <2>13, <1>2, <1>18 DEF Continues
<1>19. CASE ~Nak(v) /\ ~(IsLastMsg(v.d) /\ m.len = 0) /\ ~m.rd
  <2>1. Started(v) = Write(s)
    BY <1>6, <1>9, <1>19 DEF Started
  <2>2. ~Nak(s) /\ s.d.ptr <= Msg(s.d).len /\ ~Msg(s.d).rd /\ s.h.irqen /\ s.d.state = "WRITE"
    BY <1>6, <1>8, <1>10, <1>14, <1>15, <1>19 DEF Nak
  <2>3. Continues(Write(s), s.d.msgs, Off(s.d.msgs, s.d.idx) + HeadOf(Msg(s.d)) + s.d.ptr)
    BY <2>2, <1>14, <1>15, WriteResult
  <2>4. Off(s.d.msgs, s.d.idx) + HeadOf(Msg(s.d)) + s.d.ptr = n + 1
    BY <1>6, <1>7, <1>8, <1>15
  <2>5. QED
    BY <2>1, <2>3, <2>4, <1>2, <1>15, <1>19
<1>20. QED
  BY <1>16, <1>17, <1>18, <1>19

(* STATE_READ, with the byte for ptr in the data register. *)
LEMMA ReadResult ==
  ASSUME ReadsLast, NEW v \in Pair, Cursor(v.d), v.h.irqen,
         NEW n, AtRead(v, n)
  PROVE  Continues(Read(v), v.d.msgs, n + 1)
<1>1. v.d \in Driver /\ v.h \in Controller
  BY DEF Pair
<1>2. PICK t : t = v.d.msgs
  OBVIOUS
<1>3. PICK x : x = v.d.idx
  OBVIOUS
<1>4. t \in Transfers /\ v.d.num = Len(t) /\ x \in 0..Len(t) - 1
  BY <1>2, <1>3 DEF Cursor
<1>5. PICK m : m = t[x + 1]
  OBVIOUS
<1>6. Msg(v.d) = m /\ m.rd /\ v.d.ptr \in 0..m.len - 1 /\ v.d.state = "READ"
      /\ v.h.op = "r" /\ (v.h.acken <=> v.d.ptr # m.len - 1)
      /\ n = Off(t, x) + 1 + v.d.ptr
  BY <1>2, <1>3, <1>5 DEF Msg, AtRead
<1>7. /\ Len(t) \in Nat /\ m \in Message /\ Off(t, x) \in Nat
      /\ Off(t, x + 1) = Off(t, x) + HeadOf(m) + m.len
      /\ x = Len(t) - 1 => Off(t, x + 1) = Len(Bytes(t))
  BY <1>4, <1>5, MessageOnBus
<1>8. x + 1 = Len(t) /\ x = Len(t) - 1 /\ HeadOf(m) = 1
  <2>1. x + 1 \in 1..Len(t)
    BY <1>4, <1>7
  <2>2. x + 1 = Len(t) /\ ~m.nostart
    BY <2>1, <1>4, <1>5, <1>6 DEF ReadsLast
  <2>3. QED
    BY <2>2, <1>4, <1>7 DEF HeadOf
<1>9. m.len \in Nat /\ v.d.ptr \in Nat
  BY <1>6, <1>7 DEF Message
<1>10. PICK s : s = [v EXCEPT !.d.ptr = @ + 1]
  OBVIOUS
<1>11. PICK e : e = [v.d EXCEPT !.ptr = @ + 1]
  OBVIOUS
<1>12. /\ e \in Driver /\ e.msgs = v.d.msgs /\ e.num = v.d.num /\ e.idx = v.d.idx
       /\ e.ptr = v.d.ptr + 1 /\ e.state = v.d.state
  BY <1>1, <1>11 DEF Driver
<1>13. s = [d |-> e, h |-> v.h]
  BY <1>10, <1>11 DEF Pair
<1>14. s \in Pair /\ s.d = e /\ s.h = v.h
  BY <1>1, <1>12, <1>13 DEF Pair
<1>15. Cursor(s.d) /\ Msg(s.d) = m /\ s.d.msgs = t /\ s.d.idx = x /\ s.d.ptr = v.d.ptr + 1
       /\ s.d.num = Len(t) /\ s.d.state = "READ"
  BY <1>2, <1>3, <1>4, <1>5, <1>6, <1>12, <1>14 DEF Cursor, Msg
<1>16. Read(v) = PrepareRead(s) /\ IsLastMsg(s.d)
  BY <1>7, <1>8, <1>10, <1>15 DEF Read, IsLastMsg
<1>17. CASE v.d.ptr = m.len - 1
  <2>1. ~IsMsgLast(s.d) /\ IsMsgEnd(s.d)
    BY <1>9, <1>15, <1>17 DEF IsMsgLast, IsMsgEnd
  <2>2. Read(v) = I2cStop(s, 0)
    BY <2>1, <1>16 DEF PrepareRead
  <2>3. Stops(I2cStop(s, 0), x + 1)
    BY <1>14, <1>15, StopResult
  <2>4. n + 1 = Len(Bytes(t))
    BY <1>6, <1>7, <1>8, <1>9, <1>17
  <2>5. QED
    BY <2>2, <2>3, <2>4, <1>2, <1>8 DEF Continues
<1>18. CASE v.d.ptr # m.len - 1
  <2>1. s.d.ptr \in 0..m.len - 1 /\ ~IsMsgEnd(s.d)
        /\ (IsMsgLast(s.d) <=> s.d.ptr = m.len - 1)
    BY <1>6, <1>9, <1>15, <1>18 DEF IsMsgLast, IsMsgEnd
  <2>2. PICK c : c = IF s.d.ptr = m.len - 1 THEN [v.h EXCEPT !.acken = FALSE] ELSE v.h
    OBVIOUS
  <2>3. c \in Controller /\ c.op = v.h.op /\ c.irqen /\ (c.acken <=> s.d.ptr # m.len - 1)
    BY <2>2, <1>1, <1>6, <1>18 DEF Controller
  <2>4. PrepareRead(s) = [d |-> e, h |-> c]
    <3>1. CASE s.d.ptr = m.len - 1
      <4>1. PrepareRead(s) = [s EXCEPT !.h.acken = FALSE]
        BY <2>1, <3>1, <1>16 DEF PrepareRead
      <4>2. QED
        BY <4>1, <2>2, <3>1, <1>13
    <3>2. CASE s.d.ptr # m.len - 1
      <4>1. PrepareRead(s) = s
        BY <2>1, <3>2, <1>16 DEF PrepareRead
      <4>2. QED
        BY <4>1, <2>2, <3>2, <1>13
    <3>3. QED
      BY <3>1, <3>2
  <2>5. PICK w : w = PrepareRead(s)
    OBVIOUS
  <2>6. w \in Pair /\ w.d = e /\ w.h = c /\ w.d = s.d
    BY <2>3, <2>4, <2>5, <1>12, <1>14 DEF Pair
  <2>7. n + 1 = Off(w.d.msgs, w.d.idx) + 1 + w.d.ptr
    BY <2>6, <1>6, <1>7, <1>9, <1>15
  <2>8. AtRead(w, n + 1)
    BY <2>1, <2>3, <2>6, <2>7, <1>6, <1>15 DEF AtRead
  <2>9. Goes(w, t, n + 1)
    BY <2>3, <2>6, <2>8, <1>15 DEF Goes, At, Active
  <2>10. QED
    BY <2>5, <2>9, <1>2, <1>16 DEF Continues
<1>19. QED
  BY <1>17, <1>18

-----------------------------------------------------------------------------
(* Every step keeps the invariant. *)

(* The next byte is commanded. *)
LEMMA HandlerGoes ==
  ASSUME I2cGood, call.pc = "wait", Under, refused = "no",
         NEW w, i2c' = w.d, hw' = [w.h EXCEPT !.pend = FALSE],
         UNCHANGED <<call, suspended, wire, refused>>,
         Goes(w, i2c.msgs, Len(wire))
  PROVE  I2cGood'
<1>1. w \in Pair /\ Active(w.d) /\ Cursor(w.d) /\ w.d.msgs = i2c.msgs /\ At(w, Len(wire), FALSE)
  BY DEF Goes
<1>2. w.d \in Driver /\ w.h \in Controller
  BY <1>1 DEF Pair
<1>3. /\ hw' \in Controller /\ ~hw'.pend /\ hw'.op = w.h.op /\ hw'.acken = w.h.acken
      /\ hw'.irqen = w.h.irqen
  BY <1>2 DEF Controller
<1>4. Shape'
  BY <1>1, <1>2, <1>3 DEF I2cGood, Shape, Cursor, Active
<1>5. Held'
  <2>1. w.h.op # "P"
    BY <1>1 DEF At, AtStart, AtWrite, AtRead
  <2>2. QED
    BY <2>1, <1>1, <1>3 DEF Held
<1>6. At(Dev', Len(wire), FALSE)
  <2>1. Dev'.d = w.d /\ Dev'.h = hw'
    BY DEF Dev
  <2>2. QED
    BY <2>1, <1>1, <1>3 DEF At, AtStart, AtWrite, AtRead
<1>7. Len(wire) \in Nat
  BY DEF I2cGood, Shape
<1>8. Len(wire') - (IF hw'.pend THEN 1 ELSE 0) = Len(wire)
  BY <1>3, <1>7
<1>9. Heeded'
  BY <1>3 DEF Heeded
<1>10. Under'
  <2>1. At(Dev', Len(wire') - (IF hw'.pend THEN 1 ELSE 0), hw'.pend)
    <3>1. hw'.pend = FALSE
      BY <1>3 DEF Controller
    <3>2. QED
      BY <1>6, <1>8, <3>1
  <2>2. i2c'.msgs = call'.msgs /\ Active(i2c')
    BY <1>1 DEF Under
  <2>3. QED
    BY <2>1, <2>2, <1>9 DEF Under
<1>11. QED
  BY <1>4, <1>5, <1>10 DEF I2cGood, Progress

(* STOP is commanded. *)
LEMMA HandlerStops ==
  ASSUME I2cGood, call.pc = "wait",
         NEW w, i2c' = w.d, hw' = [w.h EXCEPT !.pend = FALSE],
         UNCHANGED <<call, suspended, wire, refused>>,
         NEW r, Stops(w, r), Sent(r, call.msgs, Append(wire, "P"), refused)
  PROVE  I2cGood'
<1>1. /\ w \in Pair /\ w.d.state = "STOP" /\ w.d.msgs = <<>> /\ w.d.num = 0 /\ w.d.idx = r
      /\ w.h.op = "P"
  BY DEF Stops
<1>2. w.d \in Driver /\ w.h \in Controller
  BY <1>1 DEF Pair
<1>3. hw' \in Controller /\ ~hw'.pend /\ hw'.op = "P"
  BY <1>1, <1>2 DEF Controller
<1>4. Len(<<>>) = 0
  OBVIOUS
<1>5. Shape'
  BY <1>1, <1>2, <1>3, <1>4 DEF I2cGood, Shape, Active
<1>6. Held'
  BY <1>1, <1>3 DEF Held, Active
<1>7. Ended(i2c.idx)'
  BY <1>1, <1>3 DEF Ended, Settled
<1>8. QED
  BY <1>5, <1>6, <1>7 DEF I2cGood, Progress

(* Where the transfer under way stands. *)
LEMMA UnderFacts ==
  ASSUME I2cGood, call.pc = "wait", Under
  PROVE  /\ Dev \in Pair /\ Dev.d = i2c /\ Dev.h = hw /\ Cursor(i2c) /\ hw.irqen
         /\ call.msgs \in Transfers /\ i2c.msgs = call.msgs
         /\ i2c.idx \in 0..Len(call.msgs) - 1
         /\ Msg(i2c) = call.msgs[i2c.idx + 1] /\ Msg(i2c) \in Message
         /\ Bytes(call.msgs) \in Seq(Kinds) /\ wire \in Seq(Kinds) /\ Len(wire) \in Nat
         /\ hw.pend \in BOOLEAN
<1>1. i2c \in Driver /\ hw \in Controller /\ Cursor(i2c) /\ i2c.msgs = call.msgs
      /\ wire \in Seq(Kinds)
  BY DEF I2cGood, Shape, Under
<1>2. Dev \in Pair /\ Dev.d = i2c /\ Dev.h = hw
  BY <1>1 DEF Dev, Pair
<1>3. call.msgs \in Transfers /\ i2c.idx \in 0..Len(call.msgs) - 1
  BY <1>1 DEF Cursor
<1>4. Msg(i2c) = call.msgs[i2c.idx + 1]
  BY <1>1 DEF Msg
<1>5. Msg(i2c) \in Message /\ Bytes(call.msgs) \in Seq(Kinds)
  BY <1>3, <1>4, MessageOnBus
<1>6. hw.irqen /\ hw.pend \in BOOLEAN
  BY <1>1 DEF Under, At, Dev, Controller
<1>7. QED
  BY <1>1, <1>2, <1>3, <1>4, <1>5, <1>6

(* s3c24xx_i2c_irq *)
LEMMA IrqGood ==
  ASSUME ReadsLast, I2cGood, Irq
  PROVE  I2cGood'
<1>1. hw.pend /\ call.pc = "wait" /\ Active(i2c)
  BY DEF Irq, I2cGood, Held
<1>2. Under
  BY <1>1 DEF I2cGood, Progress, Ended, Active
<1>3. PICK t : t = call.msgs
  OBVIOUS
<1>4. PICK x : x = i2c.idx
  OBVIOUS
<1>5. /\ Dev \in Pair /\ Dev.d = i2c /\ Dev.h = hw /\ Cursor(i2c) /\ hw.irqen
      /\ t \in Transfers /\ i2c.msgs = t /\ x \in 0..Len(t) - 1
      /\ Msg(i2c) = t[x + 1] /\ Msg(i2c) \in Message
      /\ Bytes(t) \in Seq(Kinds) /\ wire \in Seq(Kinds) /\ Len(wire) \in Nat
  BY <1>1, <1>2, <1>3, <1>4, UnderFacts
<1>6. PICK n : n = Len(wire) - 1
  OBVIOUS
<1>7. At(Dev, n, TRUE) /\ n + 1 = Len(wire)
  <2>1. hw.pend = TRUE
    BY <1>1, <1>2, UnderFacts
  <2>2. At(Dev, Len(wire) - (IF hw.pend THEN 1 ELSE 0), hw.pend)
    BY <1>2 DEF Under
  <2>3. Len(wire) - (IF hw.pend THEN 1 ELSE 0) = n /\ n + 1 = Len(wire)
    BY <1>1, <1>5, <1>6
  <2>4. QED
    BY <2>1, <2>2, <2>3
<1>8. PICK w : w = NextByte(Dev)
  OBVIOUS
<1>9. /\ i2c' = w.d /\ hw' = [w.h EXCEPT !.pend = FALSE]
      /\ UNCHANGED <<call, suspended, wire, refused>>
  BY <1>8 DEF Irq
<1>10. Len(wire) <= Len(Bytes(t)) /\ wire = SubSeq(Bytes(t), 1, Len(wire))
  BY <1>2, <1>3 DEF Under
<1>11. refused = IF i2c.state # "READ" /\ Nak(Dev) THEN wire[Len(wire)] ELSE "no"
  BY <1>1, <1>2 DEF Under, Heeded
<1>12. /\ Off(t, x) \in Nat
       /\ ~Msg(i2c).nostart => Bytes(t)[Off(t, x) + 1] = IF Msg(i2c).rd THEN "Sr" ELSE "Sw"
       /\ \A i \in 1..Msg(i2c).len :
            Bytes(t)[Off(t, x) + HeadOf(Msg(i2c)) + i] =
              IF ~Msg(i2c).rd THEN "w"
              ELSE IF x + 1 = Len(t) /\ i = Msg(i2c).len THEN "r-" ELSE "r+"
  BY <1>5, MessageOnBus
<1>13. ASSUME Continues(w, t, Len(wire)), refused = "no"
       PROVE  I2cGood'
  <2>1. CASE Goes(w, t, Len(wire))
    BY <2>1, <1>1, <1>2, <1>5, <1>9, <1>13, HandlerGoes
  <2>2. CASE Stops(w, Len(t)) /\ Len(wire) = Len(Bytes(t))
    <3>1. wire = Bytes(t)
      BY <2>2, <1>5, <1>10, Whole
    <3>2. Sent(Len(t), t, Append(wire, "P"), refused)
      BY <3>1, <1>13 DEF Sent
    <3>3. QED
      BY <2>2, <3>2, <1>1, <1>3, <1>9, HandlerStops
  <2>3. QED
    BY <2>1, <2>2, <1>13 DEF Continues
<1>14. Len(wire) >= 1 => wire[Len(wire)] = Bytes(t)[Len(wire)] /\ Len(wire) \in 1..Len(Bytes(t))
  BY <1>5, <1>10
<1>15. ASSUME NEW r, Stops(w, r), refused = wire[Len(wire)], Len(wire) >= 1,
              \/ r = ENXIO /\ refused \in {"Sr", "Sw"}
              \/ r = ECONNREFUSED /\ refused = "w"
       PROVE  I2cGood'
  <2>1. Sent(r, t, Append(wire, "P"), refused)
    BY <1>10, <1>14, <1>15 DEF Sent
  <2>2. QED
    BY <2>1, <1>1, <1>3, <1>9, <1>15, HandlerStops
<1>16. CASE AtStart(Dev, n, TRUE)
  <2>1. i2c.state = "START" /\ n = Off(t, x) /\ ~Msg(i2c).nostart
    BY <1>4, <1>5, <1>16 DEF AtStart
  <2>2. w = Started(Dev)
    BY <2>1, <1>1, <1>5, <1>8 DEF NextByte
  <2>3. IF Nak(Dev) THEN Stops(w, ENXIO) ELSE Continues(w, t, n + 1)
    BY <2>2, <1>5, <1>16, StartedResult
  <2>4. CASE Nak(Dev)
    <3>1. Len(wire) >= 1 /\ Len(wire) = Off(t, x) + 1
      BY <2>1, <1>7, <1>12
    <3>2. refused = wire[Len(wire)] /\ refused \in {"Sr", "Sw"}
      BY <3>1, <2>1, <2>4, <1>11, <1>12, <1>14
    <3>3. QED
      BY <3>1, <3>2, <2>3, <2>4, <1>15
  <2>5. CASE ~Nak(Dev)
    BY <2>3, <2>5, <1>7, <1>11, <1>13
  <2>6. QED
    BY <2>4, <2>5
<1>17. CASE AtWrite(Dev, n)
  <2>1. /\ i2c.state = "WRITE" /\ ~Msg(i2c).rd /\ i2c.ptr \in 1..Msg(i2c).len
        /\ n = Off(t, x) + HeadOf(Msg(i2c)) + i2c.ptr - 1
    BY <1>4, <1>5, <1>17 DEF AtWrite
  <2>2. w = Write(Dev)
    BY <2>1, <1>1, <1>5, <1>8 DEF NextByte
  <2>3. Msg(i2c).len \in Nat /\ HeadOf(Msg(i2c)) \in {0, 1} /\ i2c.ptr \in Nat
    BY <2>1, <1>5 DEF Message, HeadOf
  <2>4. i2c.ptr <= Msg(i2c).len /\ Len(wire) = Off(t, x) + HeadOf(Msg(i2c)) + i2c.ptr
        /\ Len(wire) >= 1
    BY <2>1, <2>3, <1>7, <1>12
  <2>5. IF Nak(Dev) THEN Stops(w, ECONNREFUSED) ELSE Continues(w, t, Len(wire))
    BY <2>1, <2>2, <2>4, <1>4, <1>5, WriteResult
  <2>6. CASE Nak(Dev)
    <3>1. refused = wire[Len(wire)] /\ refused = "w"
      BY <2>1, <2>4, <2>6, <1>11, <1>12, <1>14
    <3>2. QED
      BY <3>1, <2>4, <2>5, <2>6, <1>15
  <2>7. CASE ~Nak(Dev)
    BY <2>5, <2>7, <1>11, <1>13
  <2>8. QED
    BY <2>6, <2>7
<1>18. CASE AtRead(Dev, n)
  <2>1. i2c.state = "READ"
    BY <1>5, <1>18 DEF AtRead
  <2>2. w = Read(Dev)
    BY <2>1, <1>1, <1>5, <1>8 DEF NextByte
  <2>3. Continues(w, t, n + 1)
    BY <2>2, <1>5, <1>18, ReadResult
  <2>4. QED
    BY <2>1, <2>3, <1>7, <1>11, <1>13
<1>19. QED
  BY <1>7, <1>16, <1>17, <1>18 DEF At

(* s3c24xx_i2c_doxfer puts the first START on the bus. *)
LEMMA DoXferGood ==
  ASSUME I2cGood, DoXfer
  PROVE  I2cGood'
<1>1. i2c \in Driver /\ hw \in Controller /\ call.msgs \in Transfers /\ ~hw.pend
      /\ call.pc = "try" /\ suspended = FALSE
  BY DEF I2cGood, Shape, Held, DoXfer
<1>2. PICK t : t = call.msgs
  OBVIOUS
<1>3. t \in Seq(Message) /\ t # <<>> /\ ~t[1].nostart /\ t \in Transfers
  BY <1>1, <1>2, I2cAssumption
<1>4. Len(t) \in Nat \ {0} /\ 0 \in 0..Len(t) - 1
  BY <1>3
<1>5. PICK e : e = [i2c EXCEPT !.msgs = t, !.num = Len(t), !.ptr = 0, !.idx = 0]
  OBVIOUS
<1>6. e \in Driver /\ e.msgs = t /\ e.num = Len(t) /\ e.ptr = 0 /\ e.idx = 0
  <2>1. PICK n : n = Len(t)
    OBVIOUS
  <2>2. e = [i2c EXCEPT !.msgs = t, !.num = n, !.ptr = 0, !.idx = 0]
    BY <2>1, <1>5
  <2>3. n \in Nat /\ t \in Transfers \cup {<<>>} /\ 0 \in Nat /\ 0 \in Int
    BY <2>1, <1>3, <1>4
  <2>4. e \in Driver /\ e.msgs = t /\ e.num = n /\ e.ptr = 0 /\ e.idx = 0
    BY <2>2, <2>3, <1>1 DEF Driver
  <2>5. QED
    BY <2>1, <2>4
<1>7. PICK c : c = [hw EXCEPT !.irqen = TRUE]
  OBVIOUS
<1>8. c \in Controller /\ c.irqen /\ ~c.pend
  BY <1>1, <1>7 DEF Controller
<1>9. PICK v : v = [d |-> e, h |-> c]
  OBVIOUS
<1>10. v \in Pair /\ v.d = e /\ v.h = c /\ Cursor(v.d) /\ ~Msg(v.d).nostart
  BY <1>3, <1>4, <1>6, <1>8, <1>9 DEF Pair, Cursor, Msg
<1>11. Goes(MessageStart(v), t, Off(t, 0))
  BY <1>6, <1>8, <1>10, StartResult
<1>12. PICK w : w = MessageStart(v)
  OBVIOUS
<1>13. i2c' = w.d /\ hw' = w.h /\ ~w.h.pend
  <2>1. i2c' = w.d /\ hw' = w.h
    BY <1>2, <1>5, <1>7, <1>9, <1>12 DEF DoXfer
  <2>2. w.h = [c EXCEPT !.acken = TRUE, !.op = IF Msg(v.d).rd THEN "Sr" ELSE "Sw"]
    BY <1>10, <1>12 DEF MessageStart
  <2>3. ~w.h.pend
    BY <2>2, <1>8 DEF Controller
  <2>4. QED
    BY <2>1, <2>3
<1>14. w \in Pair /\ Active(w.d) /\ Cursor(w.d) /\ w.d.msgs = t /\ At(w, 0, FALSE)
  BY <1>3, <1>11, <1>12, Offsets DEF Goes
<1>15. w.d \in Driver /\ w.h \in Controller
  BY <1>14 DEF Pair
<1>16. call' = [call EXCEPT !.pc = "wait"] /\ wire' = <<>> /\ refused' = "no"
       /\ suspended' = FALSE
  BY <1>1 DEF DoXfer
<1>17. call'.pc = "wait" /\ call'.msgs = t
       /\ call' \in [pc: {"none", "try", "wait", "idle"}, msgs: Transfers \cup {<<>>},
                     retry: 0..Retries - 1, ret: Int]
  BY <1>2, <1>16 DEF I2cGood, Shape
<1>18. wire' \in Seq(Kinds) /\ Len(wire') = 0
  BY <1>16
<1>19. Shape'
  BY <1>3, <1>13, <1>14, <1>15, <1>16, <1>17, <1>18 DEF Shape, Cursor, Active
<1>20. Held'
  <2>1. w.h.op # "P"
    BY <1>14 DEF At, AtStart, AtWrite, AtRead
  <2>2. QED
    BY <2>1, <1>13, <1>14, <1>17 DEF Held
<1>21. hw'.pend = FALSE
  BY <1>13, <1>15 DEF Controller
<1>22. Under'
  <2>1. Dev' = w
    BY <1>13, <1>14 DEF Dev, Pair
  <2>2. Len(wire') - (IF hw'.pend THEN 1 ELSE 0) = 0
    <3>1. (IF hw'.pend THEN 1 ELSE 0) = 0
      BY <1>21
    <3>2. 0 - 0 = 0
      OBVIOUS
    <3>3. QED
      BY <3>1, <3>2, <1>18
  <2>3. At(Dev', Len(wire') - (IF hw'.pend THEN 1 ELSE 0), hw'.pend)
    BY <2>1, <2>2, <1>14, <1>21
  <2>4. Bytes(t) \in Seq(Kinds)
    BY <1>3, Offsets
  <2>5. Len(wire') <= Len(Bytes(t)) /\ wire' = SubSeq(Bytes(t), 1, Len(wire'))
    <3>1. SubSeq(Bytes(t), 1, 0) = <<>> /\ Len(Bytes(t)) \in Nat
      BY <2>4
    <3>2. QED
      BY <3>1, <1>16, <1>18
  <2>6. Heeded'
    BY <1>16, <1>21 DEF Heeded
  <2>7. QED
    BY <2>3, <2>5, <2>6, <1>13, <1>14, <1>17 DEF Under
<1>23. QED
  BY <1>17, <1>19, <1>20, <1>22 DEF I2cGood, Progress

(* The task: calls, retries, the end of the wait and the return. *)
LEMMA TaskGood ==
  ASSUME I2cGood,
         \/ \E t \in Transfers : Call(t)
         \/ BusBusy \/ Woken \/ Timeout \/ WaitIdle
  PROVE  I2cGood'
<1> DEFINE CallType == [pc: {"none", "try", "wait", "idle"}, msgs: Transfers \cup {<<>>},
                        retry: 0..Retries - 1, ret: Int]
<1>1. Shape /\ Held /\ Progress /\ call \in CallType /\ i2c \in Driver /\ hw \in Controller
  BY DEF I2cGood, Shape
<1>2. Retries = 2 /\ 0 \in 0..Retries - 1 /\ 0 \in Int /\ EIO \in Int /\ EREMOTEIO \in Int
  BY DEF Retries, EIO, EREMOTEIO
<1>3. ASSUME NEW t \in Transfers, Call(t)
      PROVE  I2cGood'
  <2>1. call' \in CallType /\ call'.pc \in {"none", "try"} /\ call.pc = "none"
        /\ (call'.pc = "try" => ~suspended /\ call'.msgs \in Transfers)
    <3>1. CASE suspended
      BY <3>1, <1>1, <1>2, <1>3 DEF Call
    <3>2. CASE ~suspended
      BY <3>2, <1>1, <1>2, <1>3 DEF Call
    <3>3. QED
      BY <3>1, <3>2
  <2>2. UNCHANGED <<i2c, hw, suspended, wire, refused>>
    BY <1>3 DEF Call
  <2>3. Shape'
    BY <2>1, <2>2, <1>1 DEF Shape, Active, Cursor
  <2>4. Held'
    BY <2>1, <2>2, <1>1 DEF Held, Active
  <2>5. QED
    BY <2>1, <2>3, <2>4 DEF I2cGood, Progress
<1>4. CASE BusBusy
  <2>1. call' \in CallType /\ call'.pc \in {"none", "try"} /\ call.pc = "try"
        /\ (call'.pc = "try" => call'.msgs = call.msgs)
    <3>1. CASE call.retry + 1 < Retries
      <4>1. call.retry + 1 \in 0..Retries - 1
        BY <3>1, <1>1, <1>2
      <4>2. call' = [call EXCEPT !.retry = @ + 1] /\ call.pc = "try"
        BY <3>1, <1>4 DEF BusBusy
      <4>3. QED
        BY <4>1, <4>2, <1>1
    <3>2. CASE ~(call.retry + 1 < Retries)
      <4>1. call' = [call EXCEPT !.pc = "none", !.msgs = <<>>, !.ret = EREMOTEIO]
            /\ call.pc = "try"
        BY <3>2, <1>4 DEF BusBusy
      <4>2. QED
        BY <4>1, <1>1, <1>2
    <3>3. QED
      BY <3>1, <3>2
  <2>2. UNCHANGED <<i2c, hw, suspended, wire, refused>>
    BY <1>4 DEF BusBusy
  <2>3. Shape'
    BY <2>1, <2>2, <1>1 DEF Shape, Active, Cursor
  <2>4. Held'
    BY <2>1, <2>2, <1>1 DEF Held, Active
  <2>5. QED
    BY <2>1, <2>3, <2>4 DEF I2cGood, Progress
<1>5. CASE Woken
  <2>1. call' = [call EXCEPT !.pc = "idle", !.ret = i2c.idx] /\ call.pc = "wait" /\ i2c.num = 0
        /\ UNCHANGED <<i2c, hw, suspended, wire, refused>>
    BY <1>5 DEF Woken
  <2>2. i2c.idx \in Int
    BY <1>1 DEF Driver
  <2>3. call' \in CallType /\ call'.pc = "idle" /\ call'.ret = i2c.idx /\ call'.msgs = call.msgs
    BY <2>1, <2>2, <1>1
  <2>4. Ended(i2c.idx)
    <3>1. ~Under
      <4>1. SUFFICES ASSUME Under PROVE FALSE
        OBVIOUS
      <4>2. Cursor(i2c)
        BY <4>1, <1>1 DEF Under, Shape
      <4>3. i2c.idx \in 0..0 - 1
        BY <4>2, <2>1 DEF Cursor
      <4>4. QED
        BY <4>3
    <3>2. QED
      BY <3>1, <2>1, <1>1 DEF Progress
  <2>5. Shape'
    BY <2>1, <2>3, <1>1 DEF Shape, Active, Cursor
  <2>6. Held'
    BY <2>1, <2>3, <2>4, <1>1 DEF Held, Active, Ended
  <2>7. Ended(call.ret)'
    BY <2>1, <2>3, <2>4 DEF Ended, Settled
  <2>8. QED
    BY <2>3, <2>5, <2>6, <2>7 DEF I2cGood, Progress
<1>6. CASE Timeout
  <2>1. call' = [call EXCEPT !.pc = "idle", !.ret = i2c.idx] /\ call.pc = "wait" /\ i2c.num # 0
        /\ hw.stalled /\ UNCHANGED <<i2c, hw, suspended, wire, refused>>
    BY <1>6 DEF Timeout
  <2>2. i2c.idx \in Int
    BY <1>1 DEF Driver
  <2>3. call' \in CallType /\ call'.pc = "idle" /\ call'.ret = i2c.idx /\ call'.msgs = call.msgs
    BY <2>1, <2>2, <1>1
  <2>4. Under
    BY <2>1, <1>1 DEF Progress, Ended
  <2>5. Active(i2c) /\ i2c.idx \in 0..Len(call.msgs) - 1
    BY <2>1, <2>4, UnderFacts DEF Under
  <2>6. Shape'
    BY <2>1, <2>3, <1>1 DEF Shape, Active, Cursor
  <2>7. Held'
    BY <2>1, <1>1 DEF Held, Active
  <2>8. TimedOut'
    BY <2>1, <2>3, <2>5 DEF TimedOut, Active
  <2>9. QED
    BY <2>3, <2>6, <2>7, <2>8 DEF I2cGood, Progress
<1>7. CASE WaitIdle
  <2>1. call' = [call EXCEPT !.pc = "none", !.msgs = <<>>] /\ call.pc = "idle"
        /\ wire' = <<>> /\ refused' = "no" /\ UNCHANGED <<i2c, hw, suspended>>
    BY <1>7 DEF WaitIdle
  <2>2. call' \in CallType /\ call'.pc = "none"
    BY <2>1, <1>1
  <2>3. wire' \in Seq(Kinds)
    BY <2>1
  <2>4. Shape'
    BY <2>1, <2>2, <2>3, <1>1 DEF Shape, Active, Cursor
  <2>5. Held'
    BY <2>1, <1>1 DEF Held, Active
  <2>6. QED
    BY <2>2, <2>4, <2>5 DEF I2cGood, Progress
<1>8. QED
  BY <1>3, <1>4, <1>5, <1>6, <1>7

(* s3c24xx_i2c_suspend_noirq and s3c24xx_i2c_resume *)
LEMMA PowerGood ==
  ASSUME I2cGood, Suspend \/ Resume
  PROVE  I2cGood'
<1>1. Shape /\ Held /\ call.pc = "none" /\ hw \in Controller
  BY DEF I2cGood, Shape, Suspend, Resume
<1>2. UNCHANGED <<i2c, call, wire, refused>> /\ suspended' \in BOOLEAN
  BY DEF Suspend, Resume
<1>3. CASE Suspend
  <2>1. hw' = Reset /\ Reset \in Controller /\ Reset.op = "none" /\ ~Reset.pend
    BY <1>3 DEF Suspend, Reset, Controller, Op
  <2>2. Shape' /\ Held'
    BY <2>1, <1>1, <1>2 DEF Shape, Held, Active, Cursor
  <2>3. QED
    BY <2>2, <1>1, <1>2 DEF I2cGood, Progress
<1>4. CASE Resume
  <2>1. hw' = [hw EXCEPT !.irqen = TRUE, !.acken = TRUE]
    BY <1>4 DEF Resume
  <2>2. hw' \in Controller /\ hw'.op = hw.op /\ hw'.pend = hw.pend /\ hw'.stalled = hw.stalled
    BY <2>1, <1>1 DEF Controller
  <2>3. Shape' /\ Held'
    BY <2>2, <1>1, <1>2 DEF Shape, Held, Active, Cursor
  <2>4. QED
    BY <2>3, <1>1, <1>2 DEF I2cGood, Progress
<1>5. QED
  BY <1>3, <1>4

(* A byte moves: the one the handler commanded. *)
LEMMA ByteGood ==
  ASSUME ReadsLast, Timely, I2cGood, HwByte
  PROVE  I2cGood'
<1>1. Shape /\ Held /\ Progress /\ hw \in Controller /\ i2c \in Driver /\ wire \in Seq(Kinds)
  BY DEF I2cGood, Shape
<1>2. ~hw.pend /\ hw.op \in {"Sr", "Sw", "w", "r"} /\ call.pc = "wait" /\ Active(i2c)
  BY <1>1 DEF HwByte, Moving, Held, Timely
<1>3. Under
  BY <1>1, <1>2 DEF Progress, Ended, Active
<1>4. PICK t : t = call.msgs
  OBVIOUS
<1>5. PICK x : x = i2c.idx
  OBVIOUS
<1>6. PICK m : m = Msg(i2c)
  OBVIOUS
<1>7. /\ Dev.d = i2c /\ Dev.h = hw /\ Cursor(i2c) /\ hw.irqen
      /\ t \in Transfers /\ i2c.msgs = t /\ x \in 0..Len(t) - 1
      /\ m = t[x + 1] /\ m \in Message
      /\ Bytes(t) \in Seq(Kinds) /\ Len(wire) \in Nat
  BY <1>2, <1>3, <1>4, <1>5, <1>6, UnderFacts
<1>8. PICK n : n = Len(wire)
  OBVIOUS
<1>9. hw.pend = FALSE
  BY <1>1, <1>2 DEF Controller
<1>10. At(Dev, n, FALSE) /\ n \in Nat
  <2>1. At(Dev, Len(wire) - (IF hw.pend THEN 1 ELSE 0), hw.pend)
    BY <1>3 DEF Under
  <2>2. (IF hw.pend THEN 1 ELSE 0) = 0
    BY <1>9
  <2>3. n - 0 = n /\ n \in Nat
    BY <1>7, <1>8
  <2>4. QED
    BY <2>1, <2>2, <2>3, <1>8, <1>9
<1>11. wire = SubSeq(Bytes(t), 1, n) /\ refused = "no"
  BY <1>3, <1>4, <1>8, <1>9 DEF Under, Heeded
<1>12. /\ Len(t) \in Nat \ {0} /\ Off(t, x) \in Nat /\ Off(t, x + 1) <= Len(Bytes(t))
       /\ Off(t, x + 1) = Off(t, x) + HeadOf(m) + m.len
  BY <1>7, MessageOnBus
<1>13. /\ ~m.nostart => Bytes(t)[Off(t, x) + 1] = IF m.rd THEN "Sr" ELSE "Sw"
       /\ \A i \in 1..m.len :
            Bytes(t)[Off(t, x) + HeadOf(m) + i] =
              IF ~m.rd THEN "w"
              ELSE IF x + 1 = Len(t) /\ i = m.len THEN "r-" ELSE "r+"
  BY <1>7, MessageOnBus
<1>14. m.len \in Nat /\ HeadOf(m) \in {0, 1} /\ (~m.nostart => HeadOf(m) = 1)
  BY <1>7 DEF Message, HeadOf
<1>15. m.rd => x + 1 = Len(t) /\ ~m.nostart
  <2>1. x + 1 \in 1..Len(t)
    BY <1>7, <1>12
  <2>2. QED
    BY <2>1, <1>7 DEF ReadsLast
<1>16. PICK nak \in IF hw.op = "r" THEN {~hw.acken} ELSE BOOLEAN :
         /\ hw' = [hw EXCEPT !.pend = TRUE, !.lastbit = nak, !.stalled = FALSE,
                             !.op = IF hw.op \in {"Sr", "r"} THEN "r" ELSE "w"]
         /\ wire' = Append(wire, IF hw.op # "r" THEN hw.op
                                 ELSE IF nak THEN "r-" ELSE "r+")
         /\ refused' = IF nak /\ hw.op # "r" /\ ~m.ign THEN hw.op ELSE refused
  BY <1>6 DEF HwByte
<1>17. nak \in BOOLEAN /\ (hw.op = "r" => nak = ~hw.acken)
  BY <1>16, <1>1 DEF Controller
<1>18. UNCHANGED <<i2c, call, suspended>>
  BY DEF HwByte
<1>19. PICK o : o = IF hw.op \in {"Sr", "r"} THEN "r" ELSE "w"
  OBVIOUS
<1>20. /\ hw' \in Controller /\ hw'.pend = TRUE /\ hw'.lastbit = nak /\ hw'.stalled = FALSE
       /\ hw'.op = o /\ hw'.irqen = hw.irqen /\ hw'.acken = hw.acken
  <2>1. o \in Op
    BY <1>19 DEF Op
  <2>2. hw' = [hw EXCEPT !.pend = TRUE, !.lastbit = nak, !.stalled = FALSE, !.op = o]
    BY <1>16, <1>19
  <2>3. QED
    BY <2>1, <2>2, <1>1, <1>17 DEF Controller
<1>21. PICK b : b = IF hw.op # "r" THEN hw.op ELSE IF nak THEN "r-" ELSE "r+"
  OBVIOUS
<1>22. b \in Kinds /\ wire' = Append(wire, b)
  BY <1>2, <1>16, <1>21 DEF Kinds
(* It is the byte of the messages that comes next. *)
<1>23. n \in 0..Len(Bytes(t)) - 1 /\ b = Bytes(t)[n + 1]
  <2>0. Len(Bytes(t)) \in Nat
    BY <1>7
  <2>1. CASE AtStart(Dev, n, FALSE)
    <3>1. n = Off(t, x) /\ ~m.nostart /\ hw.op = IF m.rd THEN "Sr" ELSE "Sw"
      BY <2>1, <1>5, <1>6, <1>7 DEF AtStart
    <3>2. n \in 0..Len(Bytes(t)) - 1
      BY <3>1, <2>0, <1>12, <1>14
    <3>3. b = Bytes(t)[n + 1]
      BY <3>1, <1>13, <1>21
    <3>4. QED
      BY <3>2, <3>3
  <2>2. CASE AtWrite(Dev, n)
    <3>1. n = Off(t, x) + HeadOf(m) + i2c.ptr - 1 /\ ~m.rd /\ i2c.ptr \in 1..m.len
          /\ hw.op = "w"
      BY <2>2, <1>5, <1>6, <1>7 DEF AtWrite
    <3>2. n + 1 = Off(t, x) + HeadOf(m) + i2c.ptr
      BY <3>1, <1>12, <1>14
    <3>3. n \in 0..Len(Bytes(t)) - 1
      BY <3>1, <2>0, <1>12, <1>14
    <3>4. b = Bytes(t)[n + 1]
      BY <3>1, <3>2, <1>13, <1>21
    <3>5. QED
      BY <3>3, <3>4
  <2>3. CASE AtRead(Dev, n)
    <3>1. n = Off(t, x) + 1 + i2c.ptr /\ m.rd /\ i2c.ptr \in 0..m.len - 1
          /\ hw.op = "r" /\ (hw.acken <=> i2c.ptr # m.len - 1)
      BY <2>3, <1>5, <1>6, <1>7 DEF AtRead
    <3>2. PICK i : i = i2c.ptr + 1
      OBVIOUS
    <3>a. HeadOf(m) = 1 /\ i2c.ptr \in Nat
      BY <3>1, <1>14, <1>15
    <3>b. i \in 1..m.len /\ (i2c.ptr = m.len - 1 <=> i = m.len)
      BY <3>a, <3>1, <3>2, <1>14
    <3>c. n + 1 = Off(t, x) + HeadOf(m) + i
      BY <3>a, <3>1, <3>2, <1>12
    <3>3. /\ i \in 1..m.len /\ n + 1 = Off(t, x) + HeadOf(m) + i
          /\ (i2c.ptr = m.len - 1 <=> i = m.len)
      BY <3>b, <3>c
    <3>4. n \in 0..Len(Bytes(t)) - 1
      BY <3>1, <2>0, <1>12, <1>14, <1>15
    <3>5. Bytes(t)[n + 1] = IF i = m.len THEN "r-" ELSE "r+"
      BY <3>1, <3>3, <1>13, <1>15
    <3>6. nak <=> i = m.len
      BY <3>1, <3>3, <1>17
    <3>7. QED
      BY <3>1, <3>4, <3>5, <3>6, <1>21
  <2>4. QED
    BY <2>1, <2>2, <2>3, <1>10 DEF At
<1>24. /\ wire' = SubSeq(Bytes(t), 1, n + 1) /\ Len(wire') = n + 1 /\ wire' \in Seq(Kinds)
       /\ n + 1 <= Len(Bytes(t)) /\ wire'[n + 1] = b
  <2>1. wire' = SubSeq(Bytes(t), 1, n + 1)
    BY <1>7, <1>11, <1>22, <1>23, Grow
  <2>2. Len(wire') = n + 1 /\ wire' \in Seq(Kinds) /\ wire'[n + 1] = b
    BY <1>1, <1>8, <1>10, <1>22
  <2>3. Len(Bytes(t)) \in Nat
    BY <1>7
  <2>4. QED
    BY <2>1, <2>2, <2>3, <1>23
<1>25. refused' \in {"no", "Sr", "Sw", "w"}
       /\ refused' = IF nak /\ hw.op # "r" /\ ~m.ign THEN hw.op ELSE "no"
  BY <1>2, <1>11, <1>16
<1>26. Shape'
  BY <1>1, <1>18, <1>20, <1>24, <1>25 DEF Shape, Active, Cursor
<1>27. Held'
  BY <1>2, <1>18, <1>19, <1>20 DEF Held, Active
<1>28. Msg(i2c)' = m /\ Dev'.d = i2c /\ Dev'.h = hw' /\ Msg(Dev'.d) = m
  BY <1>6, <1>18 DEF Msg, Dev
<1>29. At(Dev', n, TRUE)
  <2>1. CASE AtStart(Dev, n, FALSE)
    <3>1. hw.op = IF m.rd THEN "Sr" ELSE "Sw"
      BY <2>1, <1>6, <1>7 DEF AtStart
    <3>2. o = IF m.rd THEN "r" ELSE "w"
      BY <3>1, <1>19
    <3>3. AtStart(Dev', n, TRUE)
      BY <2>1, <3>2, <1>6, <1>7, <1>20, <1>28 DEF AtStart
    <3>4. QED
      BY <3>3, <1>7, <1>20, <1>28 DEF At
  <2>2. CASE AtWrite(Dev, n)
    <3>1. o = "w"
      BY <2>2, <1>7, <1>19 DEF AtWrite
    <3>2. AtWrite(Dev', n)
      BY <2>2, <3>1, <1>6, <1>7, <1>20, <1>28 DEF AtWrite
    <3>3. QED
      BY <3>2, <1>7, <1>20, <1>28 DEF At
  <2>3. CASE AtRead(Dev, n)
    <3>1. o = "r"
      BY <2>3, <1>7, <1>19 DEF AtRead
    <3>2. AtRead(Dev', n)
      BY <2>3, <3>1, <1>6, <1>7, <1>20, <1>28 DEF AtRead
    <3>3. QED
      BY <3>2, <1>7, <1>20, <1>28 DEF At
  <2>4. QED
    BY <2>1, <2>2, <2>3, <1>10 DEF At
<1>30. i2c.state # "READ" <=> hw.op # "r"
  BY <1>7, <1>10 DEF At, AtStart, AtWrite, AtRead
<1>31. Heeded'
  <2>1. Nak(Dev)' <=> nak /\ ~m.ign
    BY <1>17, <1>20, <1>28 DEF Nak
  <2>2. hw.op # "r" => b = hw.op
    BY <1>21
  <2>3. QED
    BY <2>1, <2>2, <1>18, <1>20, <1>24, <1>25, <1>30 DEF Heeded
<1>32. Under'
  <2>1. Len(wire') - (IF hw'.pend THEN 1 ELSE 0) = n
    <3>1. (IF hw'.pend THEN 1 ELSE 0) = 1
      BY <1>20
    <3>3. Len(wire') = n + 1
      BY <1>24
    <3>4. PICK l, p : l = Len(wire') /\ p = (IF hw'.pend THEN 1 ELSE 0)
      OBVIOUS
    <3>5. l - p = n
      BY <3>1, <3>3, <3>4, <1>10
    <3>6. QED
      BY <3>4, <3>5
  <2>2. At(Dev', Len(wire') - (IF hw'.pend THEN 1 ELSE 0), hw'.pend)
    BY <2>1, <1>20, <1>29
  <2>3. QED
    BY <2>2, <1>2, <1>4, <1>7, <1>18, <1>24, <1>31 DEF Under
<1>33. QED
  BY <1>2, <1>18, <1>26, <1>27, <1>32 DEF I2cGood, Progress

(* The slave holds the bus, or the STOP is through. *)
LEMMA BusGood ==
  ASSUME I2cGood, HwStall \/ HwStop
  PROVE  I2cGood'
<1>1. Shape /\ Held /\ Progress /\ hw \in Controller /\ wire \in Seq(Kinds)
  BY DEF I2cGood, Shape
<1>2. CASE HwStall
  <2>1. hw' = [hw EXCEPT !.stalled = TRUE] /\ ~hw.pend
        /\ UNCHANGED <<i2c, call, suspended, wire, refused>>
    BY <1>2 DEF HwStall
  <2>2. /\ hw' \in Controller /\ hw'.op = hw.op /\ hw'.pend = hw.pend /\ hw'.stalled
        /\ hw'.irqen = hw.irqen /\ hw'.acken = hw.acken /\ hw'.lastbit = hw.lastbit
    BY <2>1, <1>1 DEF Controller
  <2>3. Shape'
    BY <2>1, <2>2, <1>1 DEF Shape, Active, Cursor
  <2>4. Held'
    BY <2>1, <2>2, <1>1 DEF Held, Active
  <2>5. ASSUME Under PROVE Under'
    <3>1. Dev'.d = Dev.d /\ Dev.h = hw /\ Dev'.h = hw'
      BY <2>1 DEF Dev
    <3>2. \A n : At(Dev, n, hw.pend) => At(Dev', n, hw'.pend)
      BY <3>1, <2>2 DEF At, AtStart, AtWrite, AtRead
    <3>3. Heeded'
      BY <2>1, <2>2, <2>5 DEF Under, Heeded
    <3>4. QED
      BY <2>1, <2>2, <2>5, <3>2, <3>3 DEF Under, Active
  <2>6. \A r : Ended(r) => Ended(r)'
    BY <2>1, <2>2 DEF Ended, Settled
  <2>7. Progress'
    <3>1. CASE call.pc = "wait"
      BY <3>1, <2>1, <2>5, <2>6, <1>1 DEF Progress
    <3>2. CASE call.pc = "idle"
      BY <3>2, <2>1, <2>2, <2>6, <1>1 DEF Progress, TimedOut, Active
    <3>3. QED
      BY <3>1, <3>2, <2>1 DEF Progress
  <2>8. QED
    BY <2>3, <2>4, <2>7 DEF I2cGood
<1>3. CASE HwStop
  <2>1. hw' = [hw EXCEPT !.op = "none", !.stalled = FALSE] /\ ~hw.pend /\ hw.op = "P"
        /\ wire' = Append(wire, "P") /\ UNCHANGED <<i2c, call, suspended, refused>>
    BY <1>3 DEF HwStop
  <2>2. hw' \in Controller /\ hw'.op = "none" /\ hw'.pend = hw.pend
    BY <2>1, <1>1 DEF Controller, Op
  <2>3. wire' \in Seq(Kinds)
    BY <2>1, <1>1 DEF Kinds
  <2>4. Shape'
    BY <2>1, <2>2, <2>3, <1>1 DEF Shape, Active, Cursor
  <2>5. Held'
    BY <2>1, <2>2 DEF Held
  <2>6. ~Under
    BY <2>1 DEF Under, At, AtStart, AtWrite, AtRead, Dev
  <2>7. ASSUME NEW r, Ended(r) PROVE Ended(r)'
    BY <2>1, <2>2, <2>7 DEF Ended, Settled
  <2>8. ~TimedOut
    BY <2>1, <1>1 DEF Held, TimedOut
  <2>9. Progress'
    BY <2>1, <2>6, <2>7, <2>8, <1>1 DEF Progress
  <2>10. QED
    BY <2>4, <2>5, <2>9 DEF I2cGood
<1>4. QED
  BY <1>2, <1>3

-----------------------------------------------------------------------------
(* The theorems. *)

(* The driver as probed. *)
LEMMA InitGood == Init => I2cGood
<1> SUFFICES ASSUME Init PROVE I2cGood
  OBVIOUS
<1>1. Len(<<>>) = 0 /\ <<>> \in Seq(Kinds) /\ 0 \in 0..Retries - 1
  BY DEF Retries
<1>2. i2c \in Driver /\ hw \in Controller
  BY DEF Init, Driver, Controller, Reset, Op
<1>3. Shape
  <2>1. call = [pc |-> "none", msgs |-> <<>>, retry |-> 0, ret |-> 0]
    BY DEF Init
  <2>2. call \in [pc: {"none", "try", "wait", "idle"}, msgs: Transfers \cup {<<>>},
                  retry: 0..Retries - 1, ret: Int] /\ call.pc = "none"
    BY <2>1, <1>1
  <2>3. i2c.num = Len(i2c.msgs) /\ ~Active(i2c)
    BY <1>1 DEF Init, Active
  <2>4. wire \in Seq(Kinds) /\ suspended \in BOOLEAN /\ refused \in {"no", "Sr", "Sw", "w"}
    BY <1>1 DEF Init
  <2>5. QED
    BY <2>2, <2>3, <2>4, <1>2 DEF Shape
<1>4. Held /\ Progress
  BY DEF Init, Held, Progress, Reset
<1>5. QED
  BY <1>3, <1>4 DEF I2cGood

(* The steps together. *)
LEMMA StepGood ==
  ASSUME ReadsLast, Timely, I2cGood, [Next]_vars
  PROVE  I2cGood'
<1>1. CASE UNCHANGED vars
  BY <1>1 DEF vars, I2cGood, Shape, Held, Progress, Under, Ended, TimedOut, Heeded,
              Settled, Dev
<1>2. CASE Next
  BY <1>2, IrqGood, DoXferGood, TaskGood, PowerGood, ByteGood, BusGood DEF Next
<1>3. QED
  BY <1>1, <1>2

(* I2cGood holds in every reachable state. *)
THEOREM I2cInvariant ==
  ASSUME ReadsLast, Timely
  PROVE  Spec => []I2cGood
<1>1. Init => I2cGood
  BY InitGood
<1>2. I2cGood /\ [Next]_vars => I2cGood'
  BY StepGood
<1>3. QED
  BY <1>1, <1>2, PTL DEF Spec

(***************************************************************************)
(* The handler's cursor stays inside the messages of a transfer, and the   *)
(* handler never follows a pointer to messages that are gone, for any      *)
(* messages, refusals, stalls and timeouts.                                *)
(***************************************************************************)
THEOREM I2cTypeCorrect ==
  ASSUME ReadsLast, Timely
  PROVE  Spec => []TypeOK
<1>1. I2cGood => TypeOK
  <2> SUFFICES ASSUME I2cGood PROVE TypeOK
    OBVIOUS
  <2>1. i2c \in Driver /\ hw \in Controller /\ Shape
    BY DEF I2cGood, Shape
  <2>2. /\ i2c.state \in {"IDLE", "START", "READ", "WRITE", "STOP"}
        /\ i2c.msgs \in Transfers \cup {<<>>} /\ i2c.num = Len(i2c.msgs) /\ i2c.ptr \in Nat
    BY <2>1 DEF Shape, Driver
  <2>3. hw.op \in Op /\ {hw.pend, hw.lastbit, hw.irqen, hw.acken, hw.stalled} \subseteq BOOLEAN
    BY <2>1 DEF Controller
  <2>4. call.retry < Retries
    BY <2>1 DEF Shape, Retries
  <2>5. QED
    BY <2>1, <2>2, <2>3, <2>4 DEF TypeOK, Shape, Active, Cursor
<1>2. QED
  BY <1>1, I2cInvariant, PTL

(***************************************************************************)
(* A byte the controller received while the driver reads has its place in  *)
(* the message's buffer, whatever the lengths and the slave.               *)
(***************************************************************************)
THEOREM I2cInBounds ==
  ASSUME ReadsLast, Timely
  PROVE  Spec => []InBounds
<1>1. I2cGood => InBounds
  <2> SUFFICES ASSUME I2cGood, hw.pend, i2c.state = "READ"
               PROVE  i2c.ptr < Msg(i2c).len
    BY DEF InBounds
  <2>1. call.pc = "wait"
    BY DEF I2cGood, Held
  <2>2. Under
    BY <2>1 DEF I2cGood, Progress, Ended
  <2>3. Msg(i2c) \in Message /\ i2c.ptr \in 0..Msg(i2c).len - 1
    BY <2>1, <2>2, UnderFacts DEF Under, At, AtStart, AtWrite, AtRead
  <2>4. Msg(i2c).len \in Nat
    BY <2>3 DEF Message
  <2>5. QED
    BY <2>3, <2>4
<1>2. QED
  BY <1>1, I2cInvariant, PTL

(***************************************************************************)
(* The number of messages is returned only for a transfer that was on the  *)
(* bus from its START to its STOP exactly as asked, with every byte        *)
(* acknowledged that had to be; -ENXIO and -ECONNREFUSED only for one that *)
(* was cut off by a refused address or data byte.  For transfers of any    *)
(* number of messages of any length.                                       *)
(***************************************************************************)
THEOREM I2cResultExact ==
  ASSUME ReadsLast, Timely
  PROVE  Spec => []ResultExact
<1>1. I2cGood => ResultExact
  <2> SUFFICES ASSUME I2cGood, call.pc = "idle"
               PROVE  SuccessExact /\ RefusalExact
    BY DEF ResultExact, SuccessExact, RefusalExact, HasResult
  <2>1. PICK t : t = call.msgs
    OBVIOUS
  <2>2. PICK r : r = call.ret
    OBVIOUS
  <2>3. t \in Transfers /\ t \in Seq(Message) /\ t # <<>> /\ Len(t) \in Nat
    BY <2>1, I2cAssumption DEF I2cGood, Shape
  <2>4. Bytes(t) \in Seq(Kinds)
    BY <2>3, Offsets
  <2>5. CASE TimedOut
    <3>1. r \in 0..Len(t) - 1
      BY <2>1, <2>2, <2>5 DEF TimedOut
    <3>2. r # Len(t) /\ r # ENXIO /\ r # ECONNREFUSED
      BY <3>1, <2>3 DEF ENXIO, ECONNREFUSED
    <3>3. QED
      BY <3>2, <2>1, <2>2 DEF SuccessExact, RefusalExact
  <2>6. CASE Ended(r)
    <3>1. Sent(r, t, Settled, refused)
      BY <2>1, <2>6 DEF Ended
    <3>2. CASE r = Len(t) /\ Settled = Append(Bytes(t), "P") /\ refused = "no"
      <4>1. r # ENXIO /\ r # ECONNREFUSED
        BY <3>2, <2>3 DEF ENXIO, ECONNREFUSED
      <4>2. QED
        BY <3>2, <4>1, <2>1, <2>2 DEF SuccessExact, RefusalExact
    <3>3. ASSUME NEW n \in 1..Len(Bytes(t)),
                 Settled = Append(SubSeq(Bytes(t), 1, n), "P"),
                 refused = Bytes(t)[n],
                 \/ r = ENXIO /\ refused \in {"Sr", "Sw"}
                 \/ r = ECONNREFUSED /\ refused = "w"
          PROVE  SuccessExact /\ RefusalExact
      <4>1. r # Len(t)
        BY <3>3, <2>3 DEF ENXIO, ECONNREFUSED
      <4>2. PICK B : B = Bytes(t)
        OBVIOUS
      <4>3. PICK q : q = SubSeq(B, 1, n)
        OBVIOUS
      <4>4. q \in Seq(Kinds) /\ Len(q) = n /\ q[n] = B[n] /\ n \in Nat \ {0}
        BY <4>2, <4>3, <2>4
      <4>5. Len(Append(q, "P")) = n + 1 /\ Append(q, "P")[n] = q[n]
        BY <4>4
      <4>6. Len(Settled) - 1 = n /\ Settled[n] = refused
        BY <4>2, <4>3, <4>4, <4>5, <3>3
      <4>7. r = ENXIO <=> refused \in {"Sr", "Sw"}
        BY <3>3 DEF ENXIO, ECONNREFUSED
      <4>8. SuccessExact
        BY <4>1, <2>1, <2>2 DEF SuccessExact
      <4>9. RefusalExact
        BY <4>6, <4>7, <3>3, <2>1, <2>2 DEF RefusalExact
      <4>10. QED
        BY <4>8, <4>9
    <3>4. QED
      BY <3>1, <3>2, <3>3 DEF Sent
  <2>7. QED
    BY <2>2, <2>5, <2>6 DEF I2cGood, Progress
<1>2. QED
  BY <1>1, I2cInvariant, PTL
=============================================================================
