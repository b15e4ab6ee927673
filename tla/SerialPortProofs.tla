-------------------------- MODULE SerialPortProofs ---------------------------
(***************************************************************************)
(* The serial port of darwin and linux, for every size of its buffers and  *)
(* of the caller's, and every way that reads cut what the tty holds: the   *)
(* items of the line are returned once, in their order, and before the     *)
(* next read.                                                              *)
(***************************************************************************)
EXTENDS SerialPort, SequenceTheorems, TLAPS

State == {"idle", "sawFF", "sawFF00"}

\* The state in which the decoder has to find a cell, and the one after it.
At(c) ==
  IF c.ends = <<>> THEN IF c.byte = FF THEN "idle" ELSE "sawFF"
  ELSE IF c.ends[1].mark # "none" THEN "sawFF00"
  ELSE IF c.byte = FF THEN "sawFF" ELSE "idle"

After(c) ==
  IF c.ends # <<>> THEN "idle" ELSE IF c.byte = FF THEN "sawFF" ELSE "sawFF00"

\* What a tty writes: the start of an escape, a byte of data or, where the
\* driver reports any, an event.
Written(c) ==
  \/ c.ends = <<>> /\ c.byte \in {0, FF}
  \/ c.byte \in Byte /\ c.ends = <<DataItem(c.byte)>>
  \/ /\ platform.lineEvents # {} /\ c.byte \in Byte
     /\ c.ends = <<IF c.byte = 0 THEN BreakItem ELSE ErrorItem>>

\* Cells that take the decoder from state s to state t.
Chain(u, s, t) ==
  /\ \A i \in 1..Len(u) : Written(u[i])
  /\ \A i \in 1..(Len(u) - 1) : At(u[i + 1]) = After(u[i])
  /\ IF u = <<>> THEN s = t ELSE At(u[1]) = s /\ After(u[Len(u)]) = t

Escapes == \E m \in State : Chain(undecoded, decState, m) /\ Chain(tty, m, "idle")

Flushed ==
  /\ \A i \in 1..Len(tty) : ~tty[i].flush
  /\ \A i \in 1..Len(undecoded) : undecoded[i].flush <=> (pendingBreak /\ i = Len(undecoded))
  /\ pendingBreak => undecoded # <<>>

PortInv == /\ TypeOK
           /\ Len(out) + Len(carry) <= RawBufSize
           /\ carry = BytesOf(undecoded)
           /\ Escapes
           /\ Flushed
           /\ due = Items(out, mark)

----------------------------------------------------------------------------
(* Sequences.                                                              *)

LEMMA JoinAt ==
  ASSUME NEW S, NEW s \in Seq(S), NEW t \in Seq(S)
  PROVE  /\ s \o t \in Seq(S) /\ Len(s) \in Nat /\ Len(t) \in Nat /\ Len(s \o t) = Len(s) + Len(t)
         /\ \A j \in 1..Len(s) : (s \o t)[j] = s[j]
         /\ \A j \in 1..Len(t) : (s \o t)[Len(s) + j] = t[j]
<1>1. Len(s) \in Nat /\ Len(t) \in Nat
  OBVIOUS
<1> QED BY <1>1

LEMMA Same ==
  ASSUME NEW S, NEW s \in Seq(S), NEW t \in Seq(S), Len(s) = Len(t), \A j \in 1..Len(s) : s[j] = t[j]
  PROVE  s = t
BY SeqEqual

LEMMA PartAt ==
  ASSUME NEW S, NEW s \in Seq(S), NEW m \in 1..(Len(s) + 1), NEW n \in (m - 1)..Len(s)
  PROVE  /\ SubSeq(s, m, n) \in Seq(S) /\ Len(SubSeq(s, m, n)) = n - m + 1
         /\ \A j \in 1..(n - m + 1) : SubSeq(s, m, n)[j] = s[m + j - 1]
<1>1. Len(s) \in Nat
  OBVIOUS
<1> QED BY <1>1

LEMMA TailAt ==
  ASSUME NEW S, NEW s \in Seq(S), s # <<>>
  PROVE  /\ Len(s) \in Nat /\ Len(s) > 0 /\ Head(s) = s[1] /\ Head(s) \in S
         /\ Tail(s) \in Seq(S) /\ Len(Tail(s)) = Len(s) - 1
         /\ \A j \in 1..(Len(s) - 1) : Tail(s)[j] = s[j + 1]
OBVIOUS

LEMMA EmptyOf ==
  ASSUME NEW S
  PROVE  <<>> \in Seq(S) /\ Len(<<>>) = 0 /\ \A s \in Seq(S) : s = <<>> <=> Len(s) = 0
OBVIOUS

----------------------------------------------------------------------------
(* Items.                                                                  *)

LEMMA EventAt ==
  ASSUME NEW m \in Marker
  PROVE  /\ Event(m) \in Seq(Item)
         /\ Len(Event(m)) = IF m = "none" THEN 0 ELSE 1
<1>1. Event("none") = <<>> /\ Event("break") = <<BreakItem>> /\ Event("error") = <<ErrorItem>>
  BY DEF Event
<1>2. BreakItem \in Item /\ ErrorItem \in Item
  BY DEF Item
<1>3. CASE m = "none"
  <2>1. Event(m) = <<>>
    BY <1>1, <1>3
  <2>2. <<>> \in Seq(Item) /\ Len(<<>>) = 0
    OBVIOUS
  <2>3. Event(m) \in Seq(Item) /\ Len(Event(m)) = 0
    BY <2>1, <2>2, Zenon
  <2> QED BY <1>3, <2>3
<1>4. CASE m = "break"
  <2>1. Event(m) = <<BreakItem>>
    BY <1>1, <1>4
  <2>2. <<BreakItem>> \in Seq(Item) /\ Len(<<BreakItem>>) = 1
    BY <1>2
  <2> QED BY <1>4, <2>1, <2>2
<1>5. CASE m = "error"
  <2>1. Event(m) = <<ErrorItem>>
    BY <1>1, <1>5
  <2>2. <<ErrorItem>> \in Seq(Item) /\ Len(<<ErrorItem>>) = 1
    BY <1>2
  <2> QED BY <1>5, <2>1, <2>2
<1> QED BY <1>3, <1>4, <1>5 DEF Marker

LEMMA DataAt ==
  ASSUME NEW bytes \in Seq(Byte)
  PROVE  LET data == [i \in DOMAIN bytes |-> DataItem(bytes[i])]
         IN  /\ data \in Seq(Item) /\ Len(data) = Len(bytes)
             /\ \A j \in 1..Len(bytes) : data[j] = DataItem(bytes[j])
<1> DEFINE data == [i \in DOMAIN bytes |-> DataItem(bytes[i])]
<1>1. Len(bytes) \in Nat /\ DOMAIN bytes = 1..Len(bytes) /\ \A i \in 1..Len(bytes) : bytes[i] \in Byte
  OBVIOUS
<1>2. \A i \in 1..Len(bytes) : DataItem(bytes[i]) \in Item
  BY <1>1 DEF Item
<1>3. data = [i \in 1..Len(bytes) |-> DataItem(bytes[i])]
  BY <1>1
<1> QED BY <1>1, <1>2, <1>3

LEMMA ItemsAt ==
  ASSUME NEW bytes \in Seq(Byte), NEW m \in Marker
  PROVE  /\ Items(bytes, m) \in Seq(Item) /\ Len(bytes) \in Nat
         /\ Len(Items(bytes, m)) = Len(bytes) + Len(Event(m))
         /\ Len(Event(m)) = IF m = "none" THEN 0 ELSE 1
         /\ \A j \in 1..Len(bytes) : Items(bytes, m)[j] = DataItem(bytes[j])
         /\ \A j \in 1..Len(Event(m)) : Items(bytes, m)[Len(bytes) + j] = Event(m)[j]
<1> DEFINE data == [i \in DOMAIN bytes |-> DataItem(bytes[i])]
           event == Event(m)
<1>1. data \in Seq(Item) /\ Len(data) = Len(bytes) /\ \A j \in 1..Len(bytes) : data[j] = DataItem(bytes[j])
  BY DataAt
<1>2. event \in Seq(Item) /\ Len(event) = IF m = "none" THEN 0 ELSE 1
  BY EventAt
<1>3. Items(bytes, m) = data \o event
  BY DEF Items
<1>4. Len(bytes) \in Nat
  OBVIOUS
<1> HIDE DEF data, event
<1>5. /\ data \o event \in Seq(Item) /\ Len(data \o event) = Len(data) + Len(event)
      /\ \A j \in 1..Len(data) : (data \o event)[j] = data[j]
      /\ \A j \in 1..Len(event) : (data \o event)[Len(data) + j] = event[j]
  BY <1>1, <1>2, JoinAt
<1>6. /\ Len(Items(bytes, m)) = Len(bytes) + Len(event) /\ Items(bytes, m) \in Seq(Item)
      /\ \A j \in 1..Len(bytes) : Items(bytes, m)[j] = DataItem(bytes[j])
      /\ \A j \in 1..Len(event) : Items(bytes, m)[Len(bytes) + j] = event[j]
  BY <1>1, <1>3, <1>5
<1> QED BY <1>2, <1>4, <1>6 DEF event

\* What is returned of the bytes comes first, what is left follows it.
LEMMA ItemsCut ==
  ASSUME NEW bytes \in Seq(Byte), NEW m \in Marker, NEW n \in 0..Len(bytes),
         NEW k \in Marker, NEW l \in Marker,
         (k = m /\ l = "none" /\ n = Len(bytes)) \/ (k = "none" /\ l = m)
  PROVE  LET x == Items(SubSeq(bytes, 1, n), k)
             y == Items(bytes, m)
         IN  /\ IsPrefix(x, y)
             /\ SubSeq(y, Len(x) + 1, Len(y)) = Items(SubSeq(bytes, n + 1, Len(bytes)), l)
<1> DEFINE p == SubSeq(bytes, 1, n)
           q == SubSeq(bytes, n + 1, Len(bytes))
           x == Items(p, k)
           y == Items(bytes, m)
           z == Items(q, l)
           w == SubSeq(y, Len(x) + 1, Len(y))
<1>0. Len(bytes) \in Nat /\ n \in Nat /\ n <= Len(bytes)
  OBVIOUS
<1>1. p \in Seq(Byte) /\ Len(p) = n /\ \A j \in 1..n : p[j] = bytes[j]
  <2>1. 1 \in 1..(Len(bytes) + 1) /\ n \in (1 - 1)..Len(bytes)
    BY <1>0
  <2>2. /\ p \in Seq(Byte) /\ Len(p) = n - 1 + 1
        /\ \A j \in 1..(n - 1 + 1) : p[j] = bytes[1 + j - 1]
    BY <2>1, PartAt
  <2> QED BY <1>0, <2>2
<1>2. q \in Seq(Byte) /\ Len(q) = Len(bytes) - n /\ \A j \in 1..(Len(bytes) - n) : q[j] = bytes[n + j]
  <2>1. n + 1 \in 1..(Len(bytes) + 1) /\ Len(bytes) \in (n + 1 - 1)..Len(bytes)
    BY <1>0
  <2>2. /\ q \in Seq(Byte) /\ Len(q) = Len(bytes) - (n + 1) + 1
        /\ \A j \in 1..(Len(bytes) - (n + 1) + 1) : q[j] = bytes[(n + 1) + j - 1]
    BY <2>1, PartAt
  <2> QED BY <1>0, <2>2
<1> HIDE DEF p, q
<1>3. /\ x \in Seq(Item) /\ Len(x) = n + Len(Event(k)) /\ Len(Event(k)) = IF k = "none" THEN 0 ELSE 1
      /\ \A j \in 1..n : x[j] = DataItem(bytes[j])
      /\ \A j \in 1..Len(Event(k)) : x[n + j] = Event(k)[j]
  <2>1. /\ x \in Seq(Item) /\ Len(x) = Len(p) + Len(Event(k)) /\ Len(Event(k)) = IF k = "none" THEN 0 ELSE 1
        /\ \A j \in 1..Len(p) : x[j] = DataItem(p[j])
        /\ \A j \in 1..Len(Event(k)) : x[Len(p) + j] = Event(k)[j]
    BY <1>1, ItemsAt
  <2> QED BY <1>1, <2>1
<1>4. /\ y \in Seq(Item) /\ Len(y) = Len(bytes) + Len(Event(m)) /\ Len(Event(m)) = IF m = "none" THEN 0 ELSE 1
      /\ \A j \in 1..Len(bytes) : y[j] = DataItem(bytes[j])
      /\ \A j \in 1..Len(Event(m)) : y[Len(bytes) + j] = Event(m)[j]
  BY ItemsAt
<1>5. /\ z \in Seq(Item) /\ Len(z) = Len(bytes) - n + Len(Event(l)) /\ Len(Event(l)) = IF l = "none" THEN 0 ELSE 1
      /\ \A j \in 1..(Len(bytes) - n) : z[j] = DataItem(bytes[n + j])
      /\ \A j \in 1..Len(Event(l)) : z[Len(bytes) - n + j] = Event(l)[j]
  <2>1. /\ z \in Seq(Item) /\ Len(z) = Len(q) + Len(Event(l)) /\ Len(Event(l)) = IF l = "none" THEN 0 ELSE 1
        /\ \A j \in 1..Len(q) : z[j] = DataItem(q[j])
        /\ \A j \in 1..Len(Event(l)) : z[Len(q) + j] = Event(l)[j]
    BY <1>2, ItemsAt
  <2> QED BY <1>2, <2>1
<1> HIDE DEF x, y, z
<1>6. Len(x) \in Nat /\ Len(y) \in Nat /\ Len(x) <= Len(y) /\ Len(z) = Len(y) - Len(x)
  <2>1. Len(x) = n + Len(Event(k)) /\ Len(y) = Len(bytes) + Len(Event(m)) /\ Len(z) = Len(bytes) - n + Len(Event(l))
    BY <1>3, <1>4, <1>5
  <2>2. Len(Event(k)) = IF k = "none" THEN 0 ELSE 1
    BY <1>3
  <2>3. Len(Event(m)) = IF m = "none" THEN 0 ELSE 1
    BY <1>4
  <2>4. Len(Event(l)) = IF l = "none" THEN 0 ELSE 1
    BY <1>5
  <2>5. CASE k = m /\ l = "none" /\ n = Len(bytes)
    BY <1>0, <2>1, <2>2, <2>3, <2>4, <2>5
  <2>6. CASE k = "none" /\ l = m
    BY <1>0, <2>1, <2>2, <2>3, <2>4, <2>6
  <2> QED BY <2>5, <2>6
<1>7. \A j \in 1..Len(x) : x[j] = y[j]
  <2> SUFFICES ASSUME NEW j \in 1..Len(x) PROVE x[j] = y[j]
    OBVIOUS
  <2>1. CASE j <= n
    BY <1>0, <1>3, <1>4, <2>1
  <2>2. CASE j > n
    <3>1. k = m /\ n = Len(bytes) /\ j - n \in 1..Len(Event(m)) /\ n + (j - n) = j
      BY <1>0, <1>3, <1>6, <2>2
    <3> QED BY <1>3, <1>4, <3>1
  <2> QED BY <1>0, <2>1, <2>2
<1>8. IsPrefix(x, y)
  <2> DEFINE u == SubSeq(x, 1, Len(x))
             v == SubSeq(y, 1, Len(x))
  <2>1. u \in Seq(Item) /\ Len(u) = Len(x) /\ \A j \in 1..Len(x) : u[j] = x[j]
    BY <1>3, <1>6
  <2>2. v \in Seq(Item) /\ Len(v) = Len(x) /\ \A j \in 1..Len(x) : v[j] = y[j]
    BY <1>4, <1>6
  <2> HIDE DEF u, v
  <2>3. u = v
    BY <1>6, <1>7, <2>1, <2>2, Same
  <2> QED BY <1>6, <2>3 DEF IsPrefix, u, v
<1>9. w \in Seq(Item) /\ Len(w) = Len(z) /\ \A j \in 1..Len(z) : w[j] = y[Len(x) + j]
  <2>1. Len(x) + 1 \in 1..(Len(y) + 1) /\ Len(y) \in (Len(x) + 1 - 1)..Len(y)
    BY <1>6
  <2>2. /\ w \in Seq(Item) /\ Len(w) = Len(y) - (Len(x) + 1) + 1
        /\ \A j \in 1..(Len(y) - (Len(x) + 1) + 1) : w[j] = y[(Len(x) + 1) + j - 1]
    BY <1>4, <2>1, PartAt
  <2> QED BY <1>6, <2>2
<1> HIDE DEF w
<1>10. \A j \in 1..Len(z) : y[Len(x) + j] = z[j]
  <2> SUFFICES ASSUME NEW j \in 1..Len(z) PROVE y[Len(x) + j] = z[j]
    OBVIOUS
  <2>1. k = "none" /\ l = m /\ Len(x) = n /\ Len(Event(l)) = Len(Event(m))
    BY <1>0, <1>3, <1>4, <1>5
  <2>2. CASE j <= Len(bytes) - n
    <3>1. n + j \in 1..Len(bytes) /\ j \in 1..(Len(bytes) - n)
      BY <1>0, <2>2
    <3> QED BY <1>4, <1>5, <2>1, <3>1
  <2>3. CASE j > Len(bytes) - n
    <3> DEFINE e == j - (Len(bytes) - n)
    <3>1. e \in 1..Len(Event(m)) /\ n + j = Len(bytes) + e /\ j = Len(bytes) - n + e
      BY <1>0, <1>5, <2>1, <2>3
    <3> HIDE DEF e
    <3> QED BY <1>4, <1>5, <2>1, <3>1
  <2> QED BY <1>0, <2>2, <2>3
<1>11. w = z
  BY <1>5, <1>9, <1>10, Same
<1> QED BY <1>8, <1>11 DEF w, x, y, z, p, q

LEMMA ItemsMark ==
  ASSUME NEW bytes \in Seq(Byte), NEW m \in Marker
  PROVE  Items(bytes, m) = Items(bytes, "none") \o Event(m)
<1> DEFINE data == [i \in DOMAIN bytes |-> DataItem(bytes[i])]
<1>1. data \in Seq(Item)
  BY DataAt
<1>2. Items(bytes, m) = data \o Event(m) /\ Items(bytes, "none") = data \o Event("none")
  BY DEF Items
<1>3. Event("none") = <<>>
  BY DEF Event
<1> HIDE DEF data
<1>4. data \o <<>> = data
  BY <1>1, ConcatEmptySeq
<1> QED BY <1>2, <1>3, <1>4

LEMMA ItemsNext ==
  ASSUME NEW bytes \in Seq(Byte), NEW b \in Byte
  PROVE  Items(Append(bytes, b), "none") = Items(bytes, "none") \o <<DataItem(b)>>
<1> DEFINE more == Append(bytes, b)
           x == Items(more, "none")
           y == Items(bytes, "none")
           z == <<DataItem(b)>>
           w == y \o z
<1>1. /\ more \in Seq(Byte) /\ Len(bytes) \in Nat /\ Len(more) = Len(bytes) + 1 /\ more[Len(bytes) + 1] = b
      /\ \A j \in 1..Len(bytes) : more[j] = bytes[j]
  OBVIOUS
<1>2. z \in Seq(Item) /\ Len(z) = 1 /\ z[1] = DataItem(b)
  BY DEF Item
<1>3. "none" \in Marker
  BY DEF Marker
<1> HIDE DEF more, z
<1>4. x \in Seq(Item) /\ Len(x) = Len(more) + 0 /\ \A j \in 1..Len(more) : x[j] = DataItem(more[j])
  BY <1>1, <1>3, ItemsAt
<1>5. y \in Seq(Item) /\ Len(y) = Len(bytes) + 0 /\ \A j \in 1..Len(bytes) : y[j] = DataItem(bytes[j])
  BY <1>3, ItemsAt
<1> HIDE DEF x, y
<1>6. /\ w \in Seq(Item) /\ Len(w) = Len(y) + Len(z)
      /\ \A j \in 1..Len(y) : w[j] = y[j]
      /\ \A j \in 1..Len(z) : w[Len(y) + j] = z[j]
  <2>1. y \in Seq(Item) /\ z \in Seq(Item)
    BY <1>2, <1>5
  <2> QED BY <2>1, JoinAt
<1> HIDE DEF w
<1>7. Len(x) = Len(w) /\ \A j \in 1..Len(x) : x[j] = w[j]
  <2>1. Len(x) = Len(bytes) + 1 /\ Len(w) = Len(bytes) + 1 /\ Len(y) = Len(bytes)
    BY <1>1, <1>2, <1>4, <1>5, <1>6
  <2>2. w[Len(bytes) + 1] = DataItem(b)
    <3>1. 1 \in 1..Len(z)
      BY <1>2
    <3> QED BY <1>2, <1>6, <2>1, <3>1
  <2>3. x[Len(bytes) + 1] = DataItem(b)
    BY <1>1, <1>4
  <2>4. ASSUME NEW j \in 1..Len(bytes) PROVE x[j] = w[j]
    BY <1>1, <1>4, <1>5, <1>6, <2>1
  <2> QED BY <1>1, <2>1, <2>2, <2>3, <2>4
<1>8. x = w
  BY <1>4, <1>6, <1>7, Same
<1> QED BY <1>8 DEF x, w, y, z, more

----------------------------------------------------------------------------
(* Chains of cells.                                                        *)

LEMMA ChainHead ==
  ASSUME NEW u \in Seq(Cell), NEW s \in State, NEW t \in State, u # <<>>, Chain(u, s, t)
  PROVE  Written(Head(u)) /\ At(Head(u)) = s /\ Chain(Tail(u), After(Head(u)), t)
<1> DEFINE v == Tail(u)
<1>1. /\ Len(u) \in Nat /\ Len(u) > 0 /\ Head(u) = u[1]
      /\ v \in Seq(Cell) /\ Len(v) = Len(u) - 1
      /\ \A j \in 1..(Len(u) - 1) : v[j] = u[j + 1]
  BY TailAt
<1>2. v = <<>> <=> Len(v) = 0
  BY <1>1, EmptyOf
<1> HIDE DEF v
<1>3. /\ \A i \in 1..Len(u) : Written(u[i])
      /\ \A i \in 1..(Len(u) - 1) : At(u[i + 1]) = After(u[i])
      /\ At(u[1]) = s /\ After(u[Len(u)]) = t
  BY DEF Chain
<1>4. \A i \in 1..Len(v) : Written(v[i])
  BY <1>1, <1>3
<1>5. \A i \in 1..(Len(v) - 1) : At(v[i + 1]) = After(v[i])
  <2> SUFFICES ASSUME NEW i \in 1..(Len(v) - 1) PROVE At(v[i + 1]) = After(v[i])
    OBVIOUS
  <2>1. i \in 1..(Len(u) - 1) /\ i + 1 \in 1..(Len(u) - 1)
    BY <1>1
  <2>2. v[i] = u[i + 1] /\ v[i + 1] = u[(i + 1) + 1]
    BY <1>1, <2>1
  <2> QED BY <1>3, <2>1, <2>2
<1>6. IF v = <<>> THEN After(u[1]) = t ELSE At(v[1]) = After(u[1]) /\ After(v[Len(v)]) = t
  <2>1. CASE v = <<>>
    <3>1. Len(u) = 1
      BY <1>1, <1>2, <2>1
    <3>2. After(u[1]) = t
      BY <1>3, <3>1
    <3> QED BY <2>1, <3>2
  <2>2. CASE v # <<>>
    <3>1. 1 \in 1..(Len(u) - 1) /\ Len(v) \in 1..(Len(u) - 1) /\ Len(v) + 1 = Len(u)
      BY <1>1, <1>2, <2>2
    <3>2. v[1] = u[1 + 1] /\ v[Len(v)] = u[Len(u)]
      BY <1>1, <3>1
    <3> QED BY <1>3, <2>2, <3>1, <3>2
  <2> QED BY <2>1, <2>2
<1>7. Chain(v, After(u[1]), t)
  BY <1>4, <1>5, <1>6 DEF Chain
<1>8. Written(u[1])
  BY <1>1, <1>3
<1> QED BY <1>1, <1>3, <1>7, <1>8 DEF v

\* A chain can be cut anywhere.
LEMMA ChainCut ==
  ASSUME NEW u \in Seq(Cell), NEW s \in State, NEW t \in State, NEW n \in 1..Len(u), Chain(u, s, t)
  PROVE  LET m == After(u[n])
         IN  m \in State /\ Chain(SubSeq(u, 1, n), s, m) /\ Chain(SubSeq(u, n + 1, Len(u)), m, t)
<1> DEFINE m == After(u[n])
           p == SubSeq(u, 1, n)
           q == SubSeq(u, n + 1, Len(u))
<1>0. Len(u) \in Nat /\ n \in Nat /\ n > 0 /\ n <= Len(u)
  OBVIOUS
<1>1. p \in Seq(Cell) /\ Len(p) = n /\ \A j \in 1..n : p[j] = u[j]
  <2>1. 1 \in 1..(Len(u) + 1) /\ n \in (1 - 1)..Len(u)
    BY <1>0
  <2>2. p \in Seq(Cell) /\ Len(p) = n - 1 + 1 /\ \A j \in 1..(n - 1 + 1) : p[j] = u[1 + j - 1]
    BY <2>1, PartAt
  <2> QED BY <1>0, <2>2
<1>2. q \in Seq(Cell) /\ Len(q) = Len(u) - n /\ \A j \in 1..(Len(u) - n) : q[j] = u[n + j]
  <2>1. n + 1 \in 1..(Len(u) + 1) /\ Len(u) \in (n + 1 - 1)..Len(u)
    BY <1>0
  <2>2. /\ q \in Seq(Cell) /\ Len(q) = Len(u) - (n + 1) + 1
        /\ \A j \in 1..(Len(u) - (n + 1) + 1) : q[j] = u[(n + 1) + j - 1]
    BY <2>1, PartAt
  <2> QED BY <1>0, <2>2
<1>3. (p = <<>> <=> Len(p) = 0) /\ (q = <<>> <=> Len(q) = 0) /\ (u = <<>> <=> Len(u) = 0)
  BY <1>1, <1>2, EmptyOf
<1>4. m \in State
  BY DEF After, State
<1> HIDE DEF p, q
<1>5. /\ \A i \in 1..Len(u) : Written(u[i])
      /\ \A i \in 1..(Len(u) - 1) : At(u[i + 1]) = After(u[i])
      /\ At(u[1]) = s /\ After(u[Len(u)]) = t
  BY <1>0, <1>3 DEF Chain
<1>6. Chain(p, s, m)
  <2>1. \A i \in 1..Len(p) : Written(p[i])
    BY <1>0, <1>1, <1>5
  <2>2. \A i \in 1..(Len(p) - 1) : At(p[i + 1]) = After(p[i])
    BY <1>0, <1>1, <1>5
  <2>3. p # <<>> /\ p[1] = u[1] /\ p[Len(p)] = u[n]
    BY <1>0, <1>1, <1>3
  <2> QED BY <1>5, <2>1, <2>2, <2>3 DEF Chain
<1>7. Chain(q, m, t)
  <2>1. \A i \in 1..Len(q) : Written(q[i])
    BY <1>0, <1>2, <1>5
  <2>2. \A i \in 1..(Len(q) - 1) : At(q[i + 1]) = After(q[i])
    <3> SUFFICES ASSUME NEW i \in 1..(Len(q) - 1) PROVE At(q[i + 1]) = After(q[i])
      OBVIOUS
    <3>1. /\ n + i \in 1..(Len(u) - 1) /\ i \in 1..(Len(u) - n) /\ i + 1 \in 1..(Len(u) - n)
          /\ n + (i + 1) = (n + i) + 1
      BY <1>0, <1>2
    <3>2. q[i] = u[n + i] /\ q[i + 1] = u[(n + i) + 1]
      BY <1>2, <3>1
    <3> QED BY <1>5, <3>1, <3>2
  <2>3. CASE n = Len(u)
    <3>1. q = <<>> /\ m = t
      BY <1>0, <1>2, <1>3, <1>5, <2>3
    <3> QED BY <2>1, <2>2, <3>1 DEF Chain
  <2>4. CASE n < Len(u)
    <3>1. q # <<>> /\ 1 \in 1..(Len(u) - n) /\ Len(q) \in 1..(Len(u) - n) /\ n + Len(q) = Len(u) /\ n \in 1..(Len(u) - 1)
      BY <1>0, <1>2, <1>3, <2>4
    <3>2. q[1] = u[n + 1] /\ q[Len(q)] = u[Len(u)]
      BY <1>2, <3>1
    <3>3. At(q[1]) = m /\ After(q[Len(q)]) = t
      BY <1>5, <3>1, <3>2
    <3> QED BY <2>1, <2>2, <3>1, <3>3 DEF Chain
  <2> QED BY <1>0, <2>3, <2>4
<1> QED BY <1>4, <1>6, <1>7 DEF p, q

\* One chain goes on where another ends.
LEMMA ChainJoin ==
  ASSUME NEW u \in Seq(Cell), NEW v \in Seq(Cell), NEW s \in State, NEW m \in State, NEW t \in State,
         Chain(u, s, m), Chain(v, m, t)
  PROVE  Chain(u \o v, s, t)
<1> DEFINE w == u \o v
<1>1. /\ w \in Seq(Cell) /\ Len(u) \in Nat /\ Len(v) \in Nat /\ Len(w) = Len(u) + Len(v)
      /\ \A j \in 1..Len(u) : w[j] = u[j]
      /\ \A j \in 1..Len(v) : w[Len(u) + j] = v[j]
  BY JoinAt
<1>2. (u = <<>> <=> Len(u) = 0) /\ (v = <<>> <=> Len(v) = 0) /\ (w = <<>> <=> Len(w) = 0)
  BY <1>1, EmptyOf
<1> HIDE DEF w
<1>3. /\ \A i \in 1..Len(u) : Written(u[i])
      /\ \A i \in 1..(Len(u) - 1) : At(u[i + 1]) = After(u[i])
      /\ IF u = <<>> THEN s = m ELSE At(u[1]) = s /\ After(u[Len(u)]) = m
  BY DEF Chain
<1>4. /\ \A i \in 1..Len(v) : Written(v[i])
      /\ \A i \in 1..(Len(v) - 1) : At(v[i + 1]) = After(v[i])
      /\ IF v = <<>> THEN m = t ELSE At(v[1]) = m /\ After(v[Len(v)]) = t
  BY DEF Chain
<1>5. \A i \in 1..Len(w) : Written(w[i])
  <2> SUFFICES ASSUME NEW i \in 1..Len(w) PROVE Written(w[i])
    OBVIOUS
  <2>1. CASE i <= Len(u)
    BY <1>1, <1>3, <2>1
  <2>2. CASE i > Len(u)
    <3>1. i - Len(u) \in 1..Len(v) /\ Len(u) + (i - Len(u)) = i
      BY <1>1, <2>2
    <3> QED BY <1>1, <1>4, <3>1
  <2> QED BY <1>1, <2>1, <2>2
<1>6. \A i \in 1..(Len(w) - 1) : At(w[i + 1]) = After(w[i])
  <2> SUFFICES ASSUME NEW i \in 1..(Len(w) - 1) PROVE At(w[i + 1]) = After(w[i])
    OBVIOUS
  <2>1. CASE i < Len(u)
    <3>1. i \in 1..(Len(u) - 1) /\ i \in 1..Len(u) /\ i + 1 \in 1..Len(u)
      BY <1>1, <2>1
    <3> QED BY <1>1, <1>3, <3>1
  <2>2. CASE i = Len(u)
    <3>1. i \in 1..Len(u) /\ 1 \in 1..Len(v) /\ u # <<>> /\ v # <<>>
      BY <1>1, <1>2, <2>2
    <3>2. w[i] = u[Len(u)] /\ w[i + 1] = v[1]
      BY <1>1, <2>2, <3>1
    <3> QED BY <1>3, <1>4, <3>1, <3>2
  <2>3. CASE i > Len(u)
    <3> DEFINE k == i - Len(u)
    <3>1. /\ k \in 1..(Len(v) - 1) /\ k \in 1..Len(v) /\ k + 1 \in 1..Len(v)
          /\ Len(u) + k = i /\ Len(u) + (k + 1) = i + 1
      BY <1>1, <2>3
    <3> HIDE DEF k
    <3>2. w[i] = v[k] /\ w[i + 1] = v[k + 1]
      BY <1>1, <3>1
    <3> QED BY <1>4, <3>1, <3>2
  <2> QED BY <1>1, <2>1, <2>2, <2>3
<1>7. IF w = <<>> THEN s = t ELSE At(w[1]) = s /\ After(w[Len(w)]) = t
  <2>1. CASE v = <<>>
    <3>1. Len(w) = Len(u) /\ (w = <<>> <=> u = <<>>) /\ m = t
      BY <1>1, <1>2, <1>4, <2>1
    <3>2. CASE u = <<>>
      BY <1>3, <3>1, <3>2
    <3>3. CASE u # <<>>
      <4>1. w[1] = u[1] /\ w[Len(w)] = u[Len(u)]
        BY <1>1, <1>2, <3>1, <3>3
      <4> QED BY <1>3, <3>1, <3>3, <4>1
    <3> QED BY <3>2, <3>3
  <2>2. CASE v # <<>>
    <3>1. w # <<>> /\ Len(v) \in 1..Len(v) /\ 1 \in 1..Len(v)
      BY <1>1, <1>2, <2>2
    <3>2. w[Len(w)] = v[Len(v)]
      BY <1>1, <3>1
    <3>3. At(w[1]) = s
      <4>1. CASE u = <<>>
        <5>1. Len(u) = 0 /\ s = m
          BY <1>2, <1>3, <4>1
        <5>2. 0 + 1 = 1 /\ w[0 + 1] = v[1]
          BY <1>1, <3>1, <5>1
        <5> QED BY <1>4, <2>2, <5>1, <5>2
      <4>2. CASE u # <<>>
        <5>1. 1 \in 1..Len(u)
          BY <1>1, <1>2, <4>2
        <5>2. w[1] = u[1]
          BY <1>1, <5>1
        <5> QED BY <1>3, <4>2, <5>2
      <4> QED BY <4>1, <4>2
    <3> QED BY <1>4, <2>2, <3>1, <3>2, <3>3
  <2> QED BY <2>1, <2>2
<1>8. Chain(w, s, t)
  BY <1>5, <1>6, <1>7 DEF Chain
<1> QED BY <1>8 DEF w

----------------------------------------------------------------------------
(* What the tty writes of an item.                                         *)

LEMMA CellsAt ==
  ASSUME NEW bytes \in Seq(Byte \cup {0, FF}), bytes # <<>>, NEW item \in Item
  PROVE  LET u == Cells(bytes, item)
         IN  /\ u \in Seq(Cell) /\ Len(bytes) \in Nat /\ Len(u) = Len(bytes) /\ Len(u) > 0 /\ u # <<>>
             /\ \A i \in 1..Len(bytes) :
                  /\ u[i].byte = bytes[i] /\ ~u[i].flush
                  /\ u[i].ends = IF i = Len(bytes) THEN <<item>> ELSE <<>>
<1> DEFINE u == Cells(bytes, item)
<1>1. Len(bytes) \in Nat /\ Len(bytes) > 0 /\ DOMAIN bytes = 1..Len(bytes)
      /\ \A i \in 1..Len(bytes) : bytes[i] \in Byte \cup {0, FF}
  OBVIOUS
<1> DEFINE cell(i) == [byte |-> bytes[i], ends |-> IF i = Len(bytes) THEN <<item>> ELSE <<>>, flush |-> FALSE]
<1>2. \A i \in 1..Len(bytes) : cell(i) \in Cell
  BY <1>1 DEF Cell
<1>3. \A i \in 1..Len(bytes) : cell(i).byte = bytes[i] /\ ~cell(i).flush
                               /\ cell(i).ends = IF i = Len(bytes) THEN <<item>> ELSE <<>>
  OBVIOUS
<1>4. u = [i \in 1..Len(bytes) |-> cell(i)]
  BY <1>1 DEF Cells
<1> HIDE DEF cell
<1>5. u \in Seq(Cell) /\ Len(u) = Len(bytes) /\ \A i \in 1..Len(bytes) : u[i] = cell(i)
  BY <1>1, <1>2, <1>4
<1> HIDE DEF u
<1>6. u # <<>>
  BY <1>1, <1>5, EmptyOf
<1> QED BY <1>1, <1>3, <1>5, <1>6 DEF u

LEMMA ItemTypes ==
  /\ BreakItem \in Item /\ ErrorItem \in Item /\ \A b \in Byte : DataItem(b) \in Item
  /\ BreakItem.mark # "none" /\ ErrorItem.mark # "none" /\ \A b \in Byte : DataItem(b).mark = "none"
  /\ 0 # FF /\ 0 \in Byte /\ "idle" \in State
<1>1. BreakItem \in Item /\ ErrorItem \in Item /\ \A b \in Byte : DataItem(b) \in Item
  BY DEF Item
<1>2. BreakItem.mark # "none" /\ ErrorItem.mark # "none"
  BY DEF BreakItem, ErrorItem
<1>3. \A b \in Byte : DataItem(b).mark = "none"
  BY DEF DataItem
<1>4. 0 # FF /\ 0 \in Byte
  BY SerialAssumption DEF SerialAssumption, FF
<1>5. "idle" \in State
  BY DEF State
<1> QED BY <1>1, <1>2, <1>3, <1>4, <1>5

\* From and to the idle state, whatever happens on the line.
LEMMA DataChain ==
  ASSUME NEW b \in Byte
  PROVE  DataBytes(b) \in Seq(Byte \cup {0, FF}) /\ DataBytes(b) # <<>>
         /\ Chain(Cells(DataBytes(b), DataItem(b)), "idle", "idle")
<1> DEFINE bytes == DataBytes(b)
           u == Cells(bytes, DataItem(b))
<1>1. bytes \in Seq(Byte \cup {0, FF}) /\ bytes # <<>>
  <2>1. CASE b = FF
    <3>1. bytes = <<FF, FF>>
      BY <2>1 DEF DataBytes
    <3> HIDE DEF bytes
    <3> QED BY <3>1
  <2>2. CASE b # FF
    <3>1. bytes = <<b>>
      BY <2>2 DEF DataBytes
    <3> HIDE DEF bytes
    <3> QED BY <3>1
  <2> QED BY <2>1, <2>2
<1>2. \/ b = FF /\ Len(bytes) = 2 /\ bytes[1] = FF /\ bytes[2] = FF
      \/ b # FF /\ Len(bytes) = 1 /\ bytes[1] = b
  BY DEF DataBytes
<1> HIDE DEF bytes
<1>3. /\ Len(u) = Len(bytes) /\ u # <<>>
      /\ \A i \in 1..Len(bytes) : /\ u[i].byte = bytes[i]
                                  /\ u[i].ends = IF i = Len(bytes) THEN <<DataItem(b)>> ELSE <<>>
  BY <1>1, CellsAt, ItemTypes
<1> HIDE DEF u
<1>4. ASSUME b = FF PROVE Chain(u, "idle", "idle")
  <2>1. /\ Len(u) = 2 /\ u[1].byte = FF /\ u[1].ends = <<>> /\ u[2].byte = FF /\ u[2].ends = <<DataItem(FF)>>
    BY <1>2, <1>3, <1>4
  <2>2. Written(u[1]) /\ At(u[1]) = "idle" /\ After(u[1]) = "sawFF"
    BY <2>1 DEF Written, At, After
  <2>0. u[2].ends # <<>> /\ u[2].ends[1].mark = "none" /\ FF \in Byte
    BY <1>4, <2>1, ItemTypes
  <2>3. Written(u[2]) /\ At(u[2]) = "sawFF" /\ After(u[2]) = "idle"
    BY <2>0, <2>1 DEF Written, At, After
  <2>4. \A i \in 1..Len(u) : Written(u[i])
    BY <2>1, <2>2, <2>3
  <2>5. \A i \in 1..(Len(u) - 1) : At(u[i + 1]) = After(u[i])
    BY <2>1, <2>2, <2>3
  <2> QED BY <1>3, <2>1, <2>2, <2>3, <2>4, <2>5 DEF Chain
<1>5. ASSUME b # FF PROVE Chain(u, "idle", "idle")
  <2>1. Len(u) = 1 /\ u[1].byte = b /\ u[1].ends = <<DataItem(b)>>
    BY <1>2, <1>3, <1>5
  <2>2. Written(u[1])
    BY <2>1 DEF Written
  <2>3. u[1].ends # <<>> /\ u[1].ends[1].mark = "none"
    BY <2>1, ItemTypes
  <2>4. At(u[1]) = "idle" /\ After(u[1]) = "idle"
    BY <1>5, <2>1, <2>3 DEF At, After
  <2>5. \A i \in 1..Len(u) : Written(u[i])
    BY <2>1, <2>2
  <2>6. \A i \in 1..(Len(u) - 1) : At(u[i + 1]) = After(u[i])
    BY <2>1
  <2> QED BY <1>3, <2>1, <2>4, <2>5, <2>6 DEF Chain
<1>6. Chain(u, "idle", "idle")
  BY <1>4, <1>5
<1> QED BY <1>1, <1>6 DEF u, bytes

LEMMA EventChain ==
  ASSUME platform.lineEvents # {}, NEW b \in Byte
  PROVE  LET item == IF b = 0 THEN BreakItem ELSE ErrorItem
         IN  <<FF, 0, b>> \in Seq(Byte \cup {0, FF}) /\ <<FF, 0, b>> # <<>>
             /\ Chain(Cells(<<FF, 0, b>>, item), "idle", "idle")
<1> DEFINE bytes == <<FF, 0, b>>
           item == IF b = 0 THEN BreakItem ELSE ErrorItem
           u == Cells(bytes, item)
<1>1. /\ bytes \in Seq(Byte \cup {0, FF}) /\ bytes # <<>>
      /\ Len(bytes) = 3 /\ bytes[1] = FF /\ bytes[2] = 0 /\ bytes[3] = b
  OBVIOUS
<1>2. item \in Item /\ item.mark # "none"
  BY ItemTypes
<1>0. item = IF b = 0 THEN BreakItem ELSE ErrorItem
  OBVIOUS
<1> HIDE DEF bytes, item
<1>3. /\ Len(u) = Len(bytes) /\ u # <<>>
      /\ \A i \in 1..Len(bytes) : /\ u[i].byte = bytes[i]
                                  /\ u[i].ends = IF i = Len(bytes) THEN <<item>> ELSE <<>>
  BY <1>1, <1>2, CellsAt
<1> HIDE DEF u
<1>4. /\ Len(u) = 3 /\ u[1].byte = FF /\ u[1].ends = <<>> /\ u[2].byte = 0 /\ u[2].ends = <<>>
      /\ u[3].byte = b /\ u[3].ends = <<item>>
  BY <1>1, <1>3
<1>5. Written(u[1]) /\ At(u[1]) = "idle" /\ After(u[1]) = "sawFF"
  BY <1>4 DEF Written, At, After
<1>6. Written(u[2]) /\ At(u[2]) = "sawFF" /\ After(u[2]) = "sawFF00"
  BY <1>4, ItemTypes DEF Written, At, After
<1>7. Written(u[3])
  BY <1>0, <1>4 DEF Written
<1>8. At(u[3]) = "sawFF00" /\ After(u[3]) = "idle"
  BY <1>2, <1>4 DEF At, After
<1>9. Chain(u, "idle", "idle")
  <2>1. \A i \in 1..Len(u) : Written(u[i])
    BY <1>4, <1>5, <1>6, <1>7
  <2>2. \A i \in 1..(Len(u) - 1) : At(u[i + 1]) = After(u[i])
    BY <1>4, <1>5, <1>6, <1>8
  <2> QED BY <1>3, <1>4, <1>5, <1>8, <2>1, <2>2 DEF Chain
<1> QED BY <1>1, <1>9 DEF u, item, bytes

----------------------------------------------------------------------------
(* One byte of the decoder.                                                *)

LEMMA DecodedAt ==
  ASSUME NEW c \in Cell, Written(c), NEW bytes \in Seq(Byte)
  PROVE  LET d == DecodeByte([state |-> At(c), out |-> bytes, mark |-> "none"], c.byte)
         IN  /\ d.state = After(c) /\ d.mark \in Marker
             /\ d.out \in Seq(Byte) /\ Len(d.out) <= Len(bytes) + 1
             /\ d.mark # "none" => platform.lineEvents # {}
             /\ Items(d.out, d.mark) = Items(bytes, "none") \o c.ends
<1> DEFINE r(s) == [state |-> s, out |-> bytes, mark |-> "none"]
           d == DecodeByte(r(At(c)), c.byte)
<1>0. Len(bytes) \in Nat /\ Len(Append(bytes, c.byte)) = Len(bytes) + 1
      /\ (c.byte \in Byte => Append(bytes, c.byte) \in Seq(Byte))
  OBVIOUS
<1>1. CASE c.ends = <<>> /\ c.byte \in {0, FF}
  <2>1. CASE c.byte = FF
    <3>1. At(c) = "idle" /\ After(c) = "sawFF"
      BY <1>1, <2>1 DEF At, After
    <3>2. d = [state |-> "sawFF", out |-> bytes, mark |-> "none"]
      BY <2>1, <3>1 DEF DecodeByte, Idle
    <3> QED BY <1>0, <1>1, <3>1, <3>2, ItemsAt, ConcatEmptySeq DEF Marker
  <2>2. CASE c.byte # FF
    <3>0. c.byte = 0
      BY <1>1, <2>2
    <3>1. At(c) = "sawFF" /\ After(c) = "sawFF00"
      BY <1>1, <2>2 DEF At, After
    <3>2. d = [state |-> "sawFF00", out |-> bytes, mark |-> "none"]
      BY <2>2, <3>0, <3>1 DEF DecodeByte, SawFF
    <3> QED BY <1>0, <1>1, <3>1, <3>2, ItemsAt, ConcatEmptySeq DEF Marker
  <2> QED BY <2>1, <2>2
<1>2. CASE c.byte \in Byte /\ c.ends = <<DataItem(c.byte)>>
  <2>1. After(c) = "idle" /\ At(c) = IF c.byte = FF THEN "sawFF" ELSE "idle"
    BY <1>2, ItemTypes DEF At, After
  <2>2. d = [state |-> "idle", out |-> Append(bytes, c.byte), mark |-> "none"]
    <3>1. CASE c.byte = FF
      <4>1. At(c) = "sawFF"
        BY <2>1, <3>1
      <4>2. d = SawFF(r("sawFF"), FF)
        BY <3>1, <4>1 DEF DecodeByte
      <4>3. SawFF(r("sawFF"), FF) = [r("sawFF") EXCEPT !.state = "idle", !.out = Append(@, FF)]
        BY ItemTypes DEF SawFF
      <4> QED BY <3>1, <4>2, <4>3
    <3>2. CASE c.byte # FF
      <4>1. At(c) = "idle"
        BY <2>1, <3>2
      <4> QED BY <3>2, <4>1 DEF DecodeByte, Idle
    <3> QED BY <3>1, <3>2
  <2>3. Items(Append(bytes, c.byte), "none") = Items(bytes, "none") \o c.ends
    BY <1>2, ItemsNext
  <2>4. d.state = "idle" /\ d.out = Append(bytes, c.byte) /\ d.mark = "none"
    BY <2>2
  <2> HIDE DEF d
  <2>5. d.state = After(c)
    BY <2>1, <2>4
  <2>6. d.mark \in Marker /\ ~(d.mark # "none")
    BY <2>4 DEF Marker
  <2>7. d.out \in Seq(Byte) /\ Len(d.out) <= Len(bytes) + 1
    BY <1>0, <1>2, <2>4
  <2>8. Items(d.out, d.mark) = Items(bytes, "none") \o c.ends
    BY <2>3, <2>4
  <2> QED BY <2>5, <2>6, <2>7, <2>8 DEF d
<1>3. CASE /\ platform.lineEvents # {} /\ c.byte \in Byte
           /\ c.ends = <<IF c.byte = 0 THEN BreakItem ELSE ErrorItem>>
  <2> DEFINE m == IF c.byte = 0 THEN "break" ELSE "error"
  <2>1. After(c) = "idle" /\ At(c) = "sawFF00"
    BY <1>3, ItemTypes DEF At, After
  <2>2. d = [state |-> "idle", out |-> bytes, mark |-> m]
    BY <2>1 DEF DecodeByte, SawFF00
  <2>3. m \in Marker /\ m # "none"
    BY DEF Marker
  <2>4. Event(m) = c.ends
    BY <1>3 DEF Event
  <2> HIDE DEF m
  <2>5. Items(bytes, m) = Items(bytes, "none") \o c.ends
    BY <2>3, <2>4, ItemsMark
  <2> QED BY <1>0, <1>3, <2>1, <2>2, <2>3, <2>5
<1> QED BY <1>1, <1>2, <1>3 DEF Written

----------------------------------------------------------------------------
(* The steps.                                                              *)

LEMMA CellTypes ==
  ASSUME NEW u \in Seq(Cell)
  PROVE  /\ BytesOf(u) \in Seq(Byte \cup {0, FF}) /\ Len(u) \in Nat /\ Len(BytesOf(u)) = Len(u)
         /\ \A i \in 1..Len(u) : BytesOf(u)[i] = u[i].byte
<1>1. Len(u) \in Nat /\ DOMAIN u = 1..Len(u) /\ \A i \in 1..Len(u) : u[i] \in Cell
  OBVIOUS
<1>2. \A i \in 1..Len(u) : u[i].byte \in Byte \cup {0, FF}
  BY <1>1 DEF Cell
<1>3. BytesOf(u) = [i \in 1..Len(u) |-> u[i].byte]
  BY <1>1 DEF BytesOf
<1> QED BY <1>1, <1>2, <1>3

LEMMA PortInit == Init => PortInv
<1> SUFFICES ASSUME Init PROVE PortInv
  OBVIOUS
<1>1. /\ platform \in Platforms /\ running = TRUE
      /\ tty = <<>> /\ carry = <<>> /\ out = <<>> /\ undecoded = <<>> /\ due = <<>>
      /\ decState = "idle" /\ mark = "none" /\ pendingBreak = FALSE
  BY DEF Init
<1>2. <<>> \in Seq(Cell) /\ <<>> \in Seq(Byte) /\ <<>> \in Seq(Byte \cup {0, FF}) /\ <<>> \in Seq(Item) /\ Len(<<>>) = 0
  OBVIOUS
<1>3. RawBufSize \in Nat /\ TtyMax \in Nat
  BY SerialAssumption DEF SerialAssumption
<1>4. TypeOK
  <2>1. tty \in Seq(Cell) /\ Len(tty) <= TtyMax /\ undecoded \in Seq(Cell) /\ due \in Seq(Item)
    BY <1>1, <1>2, <1>3
  <2>2. /\ carry \in Seq(Byte \cup {0, FF}) /\ Len(carry) <= RawBufSize
        /\ out \in Seq(Byte) /\ Len(out) <= RawBufSize
    BY <1>1, <1>2, <1>3
  <2> QED BY <1>1, <2>1, <2>2 DEF TypeOK, Marker
<1>5. BytesOf(<<>>) = <<>>
  BY DEF BytesOf
<1>6. Escapes
  BY <1>1, <1>2, ItemTypes DEF Escapes, Chain
<1>7. Flushed
  BY <1>1, <1>2 DEF Flushed
<1>8. Items(<<>>, "none") = <<>>
  <2>1. "none" \in Marker
    BY DEF Marker
  <2>2. Items(<<>>, "none") \in Seq(Item) /\ Len(Items(<<>>, "none")) = Len(<<>>) + 0
    BY <1>2, <2>1, ItemsAt
  <2> QED BY <1>2, <2>2, EmptyOf
<1> QED BY <1>1, <1>2, <1>3, <1>4, <1>5, <1>6, <1>7, <1>8 DEF PortInv

\* The line: an item more in the tty.
LEMMA OccurKeepsInv ==
  ASSUME PortInv, UNCHANGED platform, NEW bytes \in Seq(Byte \cup {0, FF}), bytes # <<>>, NEW item \in Item,
         Chain(Cells(bytes, item), "idle", "idle"), Occur(bytes, item)
  PROVE  PortInv'
<1> DEFINE u == Cells(bytes, item)
<1>1. /\ u \in Seq(Cell) /\ Len(bytes) \in Nat /\ Len(u) = Len(bytes)
      /\ \A i \in 1..Len(bytes) : ~u[i].flush
  BY CellsAt
<1> HIDE DEF u
<1>2. /\ Len(tty) + Len(u) <= TtyMax /\ tty' = tty \o u
      /\ UNCHANGED <<platform, running, decState, carry, out, mark, pendingBreak, undecoded, due>>
  BY <1>1 DEF Occur, portVars, u
<1>3. tty \in Seq(Cell)
  BY DEF PortInv, TypeOK
<1>4. u \in Seq(Cell)
  BY <1>1
<1>5. /\ tty' \in Seq(Cell) /\ Len(tty) \in Nat /\ Len(u) \in Nat /\ Len(tty') = Len(tty) + Len(u)
      /\ \A j \in 1..Len(tty) : tty'[j] = tty[j]
      /\ \A j \in 1..Len(u) : tty'[Len(tty) + j] = u[j]
  BY <1>2, <1>3, <1>4, JoinAt
<1>6. TypeOK'
  BY <1>2, <1>5 DEF PortInv, TypeOK
<1>7. Escapes'
  <2>1. PICK m \in State : Chain(undecoded, decState, m) /\ Chain(tty, m, "idle")
    BY DEF PortInv, Escapes
  <2>2. Chain(u, "idle", "idle")
    BY DEF u
  <2>3. Chain(tty \o u, m, "idle")
    BY <1>3, <1>4, <2>1, <2>2, ItemTypes, ChainJoin
  <2>4. Chain(tty, m, "idle")'
    BY <1>2, <2>3 DEF Chain, Written, At, After
  <2>5. Chain(undecoded, decState, m)'
    BY <1>2, <2>1 DEF Chain, Written, At, After
  <2> QED BY <2>4, <2>5 DEF Escapes
<1>8. Flushed'
  <2>1. \A i \in 1..Len(tty') : ~tty'[i].flush
    <3> SUFFICES ASSUME NEW i \in 1..Len(tty') PROVE ~tty'[i].flush
      OBVIOUS
    <3>1. CASE i <= Len(tty)
      BY <1>5, <3>1 DEF PortInv, Flushed
    <3>2. CASE i > Len(tty)
      <4>1. i - Len(tty) \in 1..Len(u) /\ Len(tty) + (i - Len(tty)) = i
        BY <1>5, <3>2
      <4> QED BY <1>1, <1>5, <4>1
    <3> QED BY <1>5, <3>1, <3>2
  <2> QED BY <1>2, <2>1 DEF PortInv, Flushed
<1> QED BY <1>2, <1>6, <1>7, <1>8 DEF PortInv

\* What the receiver is given is due no longer.
LEMMA ServeDataKeepsInv ==
  ASSUME PortInv, UNCHANGED platform, ServeData
  PROVE  PortInv'
<1> DEFINE n == IF Len(out) < BufSize THEN Len(out) ELSE BufSize
           k == MarkNow(Unserved)
<1>1. /\ out \in Seq(Byte) /\ Len(out) \in Nat /\ mark \in Marker /\ BufSize \in Nat /\ BufSize > 0
      /\ Len(out) + Len(carry) <= RawBufSize /\ Len(carry) \in Nat
      /\ RawBufSize \in Nat /\ due = Items(out, mark)
  BY SerialAssumption DEF PortInv, TypeOK, SerialAssumption
<1>2. /\ Served = SubSeq(out, 1, n) /\ n \in 0..Len(out)
      /\ k = IF Unserved = <<>> THEN mark ELSE "none"
  BY <1>1 DEF Served, MarkNow
<1>3. /\ out' = Unserved /\ mark' = (IF k = "none" THEN mark ELSE "none")
      /\ due' = SubSeq(due, Len(Items(Served, k)) + 1, Len(due))
      /\ UNCHANGED <<platform, running, tty, decState, carry, undecoded, pendingBreak>>
  BY DEF ServeData, Return
<1> HIDE DEF k
<1>4. /\ Unserved = SubSeq(out, n + 1, Len(out)) /\ Unserved \in Seq(Byte)
      /\ Len(Unserved) = Len(out) - n
  <2>1. CASE Len(out) < BufSize
    <3>1. Len(SubSeq(out, BufSize + 1, Len(out))) = 0 /\ SubSeq(out, BufSize + 1, Len(out)) \in Seq(Byte)
      BY <1>1, <2>1
    <3>2. Len(SubSeq(out, n + 1, Len(out))) = 0 /\ SubSeq(out, n + 1, Len(out)) \in Seq(Byte)
      BY <1>1, <2>1
    <3> HIDE DEF n
    <3>3. SubSeq(out, BufSize + 1, Len(out)) = <<>> /\ SubSeq(out, n + 1, Len(out)) = <<>>
      BY <3>1, <3>2, EmptyOf
    <3>4. Len(out) - n = 0
      BY <1>1, <2>1 DEF n
    <3> QED BY <3>1, <3>3, <3>4 DEF Unserved
  <2>2. CASE ~(Len(out) < BufSize)
    <3>1. n = BufSize
      BY <2>2
    <3>2. SubSeq(out, BufSize + 1, Len(out)) \in Seq(Byte) /\ Len(SubSeq(out, BufSize + 1, Len(out))) = Len(out) - BufSize
      BY <1>1, <2>2
    <3> HIDE DEF n
    <3> QED BY <3>1, <3>2 DEF Unserved
  <2> QED BY <2>1, <2>2
<1>5. k \in Marker /\ mark' \in Marker
  BY <1>1, <1>2, <1>3 DEF Marker
<1>6. (k = mark /\ mark' = "none" /\ n = Len(out)) \/ (k = "none" /\ mark' = mark)
  <2> HIDE DEF n
  <2>1. Unserved = <<>> <=> Len(Unserved) = 0
    BY <1>4, EmptyOf
  <2>2. Unserved = <<>> => n = Len(out)
    BY <1>1, <1>2, <1>4, <2>1
  <2> QED BY <1>2, <1>3, <2>2
<1> HIDE DEF n
<1>7. due' = Items(out', mark')
  <2> DEFINE x == Items(SubSeq(out, 1, n), k)
             y == Items(out, mark)
             l == mark'
  <2>1. l \in Marker /\ ((k = mark /\ l = "none" /\ n = Len(out)) \/ (k = "none" /\ l = mark))
    BY <1>5, <1>6
  <2> HIDE DEF l
  <2>2. SubSeq(y, Len(x) + 1, Len(y)) = Items(SubSeq(out, n + 1, Len(out)), l)
    <3>1. out \in Seq(Byte) /\ mark \in Marker /\ n \in 0..Len(out) /\ k \in Marker
      BY <1>1, <1>2, <1>5
    <3> QED BY <2>1, <3>1, ItemsCut
  <2> QED BY <1>1, <1>2, <1>3, <1>4, <2>2 DEF l
<1>8. due' \in Seq(Item)
  <2>1. out' \in Seq(Byte)
    BY <1>3, <1>4
  <2> QED BY <1>5, <1>7, <2>1, ItemsAt
<1>9. TypeOK'
  <2>1. out' \in Seq(Byte) /\ Len(out') <= RawBufSize
    BY <1>1, <1>2, <1>3, <1>4
  <2> QED BY <1>3, <1>5, <1>8, <2>1 DEF PortInv, TypeOK
<1>10. Escapes' /\ Flushed'
  BY <1>3 DEF PortInv, Escapes, Flushed, Chain, Written, At, After
<1>11. Len(out') + Len(carry') <= RawBufSize
  BY <1>1, <1>2, <1>3, <1>4
<1> QED BY <1>3, <1>7, <1>9, <1>10, <1>11 DEF PortInv

LEMMA ServeMarkKeepsInv ==
  ASSUME PortInv, UNCHANGED platform, ServeMark
  PROVE  PortInv'
<1>1. /\ mark \in Marker /\ out = <<>> /\ out \in Seq(Byte) /\ due = Items(out, mark)
  BY DEF PortInv, TypeOK, ServeMark
<1>2. /\ mark' = "none" /\ due' = SubSeq(due, Len(Items(<<>>, mark)) + 1, Len(due))
      /\ UNCHANGED <<platform, running, tty, decState, carry, undecoded, out, pendingBreak>>
  BY DEF ServeMark, Return
<1>3. due' = Items(out', mark')
  <2> DEFINE y == Items(out, mark)
  <2>1. due' = SubSeq(y, Len(y) + 1, Len(y))
    BY <1>1, <1>2
  <2>2. y \in Seq(Item)
    BY <1>1, ItemsAt
  <2> HIDE DEF y
  <2>3. due' = <<>>
    BY <2>1, <2>2
  <2>4. "none" \in Marker
    BY DEF Marker
  <2>5. Items(out, "none") \in Seq(Item) /\ Len(Items(out, "none")) = Len(out) + 0
    BY <1>1, <2>4, ItemsAt
  <2>6. Len(out) = 0
    BY <1>1, EmptyOf
  <2>7. Items(out, "none") = <<>>
    BY <2>5, <2>6, EmptyOf
  <2> QED BY <1>2, <2>3, <2>7
<1>4. due' \in Seq(Item)
  <2>1. "none" \in Marker
    BY DEF Marker
  <2> QED BY <1>1, <1>2, <1>3, <2>1, ItemsAt
<1>5. TypeOK'
  BY <1>2, <1>4 DEF PortInv, TypeOK, Marker
<1>6. Escapes' /\ Flushed'
  BY <1>2 DEF PortInv, Escapes, Flushed, Chain, Written, At, After
<1> QED BY <1>2, <1>3, <1>5, <1>6 DEF PortInv

LEMMA CarryOf ==
  ASSUME PortInv
  PROVE  /\ undecoded \in Seq(Cell) /\ carry \in Seq(Byte \cup {0, FF})
         /\ Len(carry) = Len(undecoded) /\ Len(carry) \in Nat
         /\ \A i \in 1..Len(undecoded) : carry[i] = undecoded[i].byte
         /\ carry = <<>> <=> undecoded = <<>>
<1>1. undecoded \in Seq(Cell) /\ carry = BytesOf(undecoded) /\ carry \in Seq(Byte \cup {0, FF})
  BY DEF PortInv, TypeOK
<1>2. /\ Len(undecoded) \in Nat /\ Len(carry) = Len(undecoded)
      /\ \A i \in 1..Len(undecoded) : carry[i] = undecoded[i].byte
  BY <1>1, CellTypes
<1> QED BY <1>1, <1>2, EmptyOf

LEMMA EndsType ==
  ASSUME NEW c \in Cell
  PROVE  c.ends \in Seq(Item)
<1>1. c.ends = <<>> \/ \E item \in Item : c.ends = <<item>>
  BY DEF Cell
<1>2. CASE c.ends = <<>>
  <2>1. <<>> \in Seq(Item)
    OBVIOUS
  <2> QED BY <1>2, <2>1, Zenon
<1>3. ASSUME NEW item \in Item, c.ends = <<item>> PROVE c.ends \in Seq(Item)
  <2>1. <<item>> \in Seq(Item)
    OBVIOUS
  <2> QED BY <1>3, <2>1, Zenon
<1> QED BY <1>1, <1>2, <1>3

\* A byte is decoded: the items that end with it are in out and mark.
LEMMA DecodeKeepsInv ==
  ASSUME PortInv, UNCHANGED platform, Decode
  PROVE  PortInv'
<1> DEFINE c == Head(undecoded)
           d == DecodeByte([state |-> decState, out |-> out, mark |-> "none"], Head(carry))
           short == d.mark = "none" /\ Tail(carry) = <<>> /\ pendingBreak
<1>1. /\ mark = "none" /\ carry # <<>>
      /\ decState' = d.state /\ carry' = Tail(carry) /\ out' = d.out
      /\ mark' = IF short THEN "break" ELSE d.mark
      /\ pendingBreak' = IF short THEN FALSE ELSE pendingBreak
      /\ due' = due \o Ended(c) /\ undecoded' = Tail(undecoded)
      /\ UNCHANGED <<platform, running, tty>>
  BY DEF Decode, Decoding, Stash
<1>2. /\ undecoded \in Seq(Cell) /\ undecoded # <<>> /\ Len(carry) = Len(undecoded)
      /\ carry \in Seq(Byte \cup {0, FF})
      /\ \A i \in 1..Len(undecoded) : carry[i] = undecoded[i].byte
  BY <1>1, CarryOf
<1>3. /\ Len(undecoded) \in Nat /\ Len(undecoded) > 0 /\ c = undecoded[1] /\ c \in Cell
      /\ undecoded' \in Seq(Cell) /\ Len(undecoded') = Len(undecoded) - 1
      /\ \A j \in 1..(Len(undecoded) - 1) : undecoded'[j] = undecoded[j + 1]
  BY <1>1, <1>2, TailAt
<1>4. /\ Head(carry) = carry[1] /\ carry' \in Seq(Byte \cup {0, FF}) /\ Len(carry') = Len(carry) - 1
      /\ \A j \in 1..(Len(carry) - 1) : carry'[j] = carry[j + 1]
  BY <1>1, <1>2, TailAt
<1>5. Head(carry) = c.byte
  BY <1>2, <1>3, <1>4
<1>6. PICK m \in State : Chain(undecoded, decState, m) /\ Chain(tty, m, "idle")
  BY DEF PortInv, Escapes
<1>7. decState \in State
  BY DEF PortInv, TypeOK, State
<1>8. Written(c) /\ At(c) = decState /\ Chain(undecoded', After(c), m)
  BY <1>1, <1>2, <1>6, <1>7, ChainHead
<1>9. out \in Seq(Byte) /\ platform \in Platforms /\ Len(out) \in Nat /\ RawBufSize \in Nat
      /\ Len(out) + Len(carry) <= RawBufSize /\ due = Items(out, "none")
  BY <1>1, SerialAssumption DEF PortInv, TypeOK, SerialAssumption
<1>10. /\ d.state = After(c) /\ d.mark \in Marker
       /\ d.out \in Seq(Byte) /\ Len(d.out) <= Len(out) + 1
       /\ d.mark # "none" => platform.lineEvents # {}
       /\ Items(d.out, d.mark) = Items(out, "none") \o c.ends
  <2> HIDE DEF c
  <2>1. c \in Cell /\ Written(c) /\ out \in Seq(Byte)
    BY <1>3, <1>8, <1>9
  <2> DEFINE e == DecodeByte([state |-> At(c), out |-> out, mark |-> "none"], c.byte)
  <2>2. /\ e.state = After(c) /\ e.mark \in Marker
        /\ e.out \in Seq(Byte) /\ Len(e.out) <= Len(out) + 1
        /\ e.mark # "none" => platform.lineEvents # {}
        /\ Items(e.out, e.mark) = Items(out, "none") \o c.ends
    BY <2>1, DecodedAt
  <2>3. d = e
    BY <1>5, <1>8
  <2> HIDE DEF d, e
  <2> QED BY <2>2, <2>3
<1>11. short <=> c.flush
  <2>1. c.flush <=> (pendingBreak /\ 1 = Len(undecoded))
    BY <1>3 DEF PortInv, Flushed
  <2>0. carry' = <<>> <=> Len(carry') = 0
    BY <1>4, EmptyOf
  <2>2. Tail(carry) = <<>> <=> Len(undecoded) = 1
    BY <1>1, <1>2, <1>3, <1>4, <2>0
  <2>3. pendingBreak => platform.lineEvents = {}
    BY <1>9, SerialAssumption DEF PortInv, TypeOK, SerialAssumption
  <2> QED BY <1>10, <2>1, <2>2, <2>3
<1>12. c.flush \in BOOLEAN /\ c.ends \in Seq(Item)
  BY <1>3, EndsType DEF Cell
<1> HIDE DEF c, d, short
<1>13. due' = Items(out', mark')
  <2> DEFINE before == Items(out, "none")
  <2>1. before \in Seq(Item)
    BY <1>9, ItemsAt DEF Marker
  <2>2. Event("break") = <<BreakItem>> /\ <<BreakItem>> \in Seq(Item)
    BY ItemTypes DEF Event
  <2> HIDE DEF before
  <2>3. ASSUME c.flush PROVE due' = Items(out', mark')
    <3>1. short /\ mark' = "break" /\ d.mark = "none"
      BY <1>1, <1>11, <2>3 DEF short
    <3>2. Items(d.out, "break") = Items(d.out, "none") \o Event("break")
      BY <1>10, ItemsMark DEF Marker
    <3>3. Items(d.out, "break") = (before \o c.ends) \o <<BreakItem>>
      BY <1>10, <2>2, <3>1, <3>2 DEF before
    <3>4. (before \o c.ends) \o <<BreakItem>> = before \o (c.ends \o <<BreakItem>>)
      <4> DEFINE x == c.ends
                 y == <<BreakItem>>
      <4>1. before \in Seq(Item) /\ x \in Seq(Item) /\ y \in Seq(Item)
        BY <1>12, <2>1, <2>2
      <4> HIDE DEF x, y
      <4>2. (before \o x) \o y = before \o (x \o y)
        BY <4>1, ConcatAssociative
      <4> QED BY <4>2 DEF x, y
    <3>5. Ended(c) = c.ends \o <<BreakItem>>
      BY <2>3 DEF Ended
    <3> QED BY <1>1, <1>9, <3>1, <3>3, <3>4, <3>5 DEF before
  <2>4. ASSUME ~c.flush PROVE due' = Items(out', mark')
    <3>1. mark' = d.mark
      BY <1>1, <1>11, <2>4
    <3>2. Ended(c) = c.ends \o <<>>
      BY <2>4 DEF Ended
    <3>3. c.ends \o <<>> = c.ends
      BY <1>12, ConcatEmptySeq
    <3> QED BY <1>1, <1>9, <1>10, <3>1, <3>2, <3>3
  <2> QED BY <1>12, <2>3, <2>4
<1>14. mark' \in Marker /\ out' \in Seq(Byte) /\ decState' \in State /\ pendingBreak' \in BOOLEAN
  <2>1. mark' \in Marker /\ out' \in Seq(Byte)
    BY <1>1, <1>10 DEF Marker
  <2>2. decState' \in State
    BY <1>1, <1>10 DEF After, State
  <2>3. pendingBreak' \in BOOLEAN
    BY <1>1 DEF PortInv, TypeOK
  <2> QED BY <2>1, <2>2, <2>3
<1>15. Len(out') + Len(carry') <= RawBufSize /\ Len(carry') \in Nat /\ Len(out') \in Nat
  BY <1>1, <1>2, <1>3, <1>4, <1>9, <1>10
<1>16. due' \in Seq(Item)
  BY <1>13, <1>14, ItemsAt
<1>17. TypeOK'
  <2>1. pendingBreak' => pendingBreak
    BY <1>1
  <2>2. Len(out') <= RawBufSize /\ Len(carry') <= RawBufSize
    BY <1>9, <1>15
  <2>3. decState' \in {"idle", "sawFF", "sawFF00"}
    BY <1>14 DEF State
  <2>4. pendingBreak' => platform'.shortReadBreaks
    BY <1>1, <2>1 DEF PortInv, TypeOK
  <2>5. platform' \in Platforms /\ running' \in BOOLEAN /\ tty' \in Seq(Cell) /\ Len(tty') <= TtyMax
    BY <1>1 DEF PortInv, TypeOK
  <2> QED BY <1>3, <1>4, <1>14, <1>16, <2>2, <2>3, <2>4, <2>5 DEF TypeOK
<1>18. carry' = BytesOf(undecoded')
  <2> DEFINE v == undecoded'
  <2>1. v \in Seq(Cell) /\ Len(v) = Len(carry')
    BY <1>2, <1>3, <1>4
  <2> HIDE DEF v
  <2>2. /\ BytesOf(v) \in Seq(Byte \cup {0, FF}) /\ Len(BytesOf(v)) = Len(v)
        /\ \A i \in 1..Len(v) : BytesOf(v)[i] = v[i].byte
    BY <2>1, CellTypes
  <2>3. \A i \in 1..Len(v) : v[i].byte = carry'[i]
    <3> SUFFICES ASSUME NEW i \in 1..Len(v) PROVE v[i].byte = carry'[i]
      OBVIOUS
    <3>1. i \in 1..(Len(undecoded) - 1) /\ i \in 1..(Len(carry) - 1) /\ i + 1 \in 1..Len(undecoded)
      BY <1>2, <1>3, <1>4, <2>1
    <3>2. v[i] = undecoded[i + 1] /\ carry'[i] = carry[i + 1]
      BY <1>3, <1>4, <3>1 DEF v
    <3> QED BY <1>2, <3>1, <3>2
  <2>4. carry' = BytesOf(v)
    BY <1>4, <2>1, <2>2, <2>3, Same
  <2> QED BY <2>4 DEF v
<1>19. Escapes'
  <2>1. Chain(undecoded, decState, m)'
    BY <1>1, <1>8, <1>10 DEF Chain, Written, At, After
  <2>2. Chain(tty, m, "idle")'
    BY <1>1, <1>6 DEF Chain, Written, At, After
  <2> QED BY <2>1, <2>2 DEF Escapes
<1>20. Flushed'
  <2>1. \A i \in 1..Len(undecoded) : undecoded[i].flush <=> (pendingBreak /\ i = Len(undecoded))
    BY DEF PortInv, Flushed
  <2>2. \A i \in 1..Len(undecoded') : undecoded'[i].flush <=> (pendingBreak' /\ i = Len(undecoded'))
    <3> SUFFICES ASSUME NEW i \in 1..Len(undecoded')
                 PROVE  undecoded'[i].flush <=> (pendingBreak' /\ i = Len(undecoded'))
      OBVIOUS
    <3>1. i + 1 \in 1..Len(undecoded) /\ i \in 1..(Len(undecoded) - 1) /\ Len(undecoded) # 1
          /\ (i + 1 = Len(undecoded) <=> i = Len(undecoded'))
      BY <1>3
    <3>2. undecoded'[i] = undecoded[i + 1]
      BY <1>3, <3>1
    <3>3. ~c.flush
      BY <1>3, <2>1, <3>1
    <3>4. pendingBreak' = pendingBreak
      BY <1>1, <1>11, <3>3
    <3> QED BY <2>1, <3>1, <3>2, <3>4
  <2>3. pendingBreak' => undecoded' # <<>>
    <3> SUFFICES ASSUME undecoded' = <<>> PROVE ~pendingBreak'
      OBVIOUS
    <3>1. Len(undecoded') = 0
      BY <1>3, EmptyOf
    <3>2. c.flush <=> pendingBreak
      BY <1>3, <2>1, <3>1
    <3>3. pendingBreak \in BOOLEAN
      BY DEF PortInv, TypeOK
    <3> QED BY <1>1, <1>11, <3>2, <3>3
  <2> QED BY <1>1, <2>2, <2>3 DEF PortInv, Flushed
<1> QED BY <1>13, <1>15, <1>17, <1>18, <1>19, <1>20 DEF PortInv

\* A chain does not depend on where the reads end.
LEMMA ChainLike ==
  ASSUME NEW u \in Seq(Cell), NEW v \in Seq(Cell), Len(v) = Len(u),
         \A i \in 1..Len(u) : v[i].byte = u[i].byte /\ v[i].ends = u[i].ends,
         NEW s \in State, NEW t \in State, Chain(u, s, t)
  PROVE  Chain(v, s, t)
<1>1. \A i \in 1..Len(u) : /\ At(v[i]) = At(u[i]) /\ After(v[i]) = After(u[i])
                           /\ Written(v[i]) <=> Written(u[i])
  BY DEF At, After, Written
<1>2. Len(u) \in Nat /\ (u = <<>> <=> v = <<>>) /\ (u = <<>> <=> Len(u) = 0)
  BY EmptyOf
<1>3. /\ \A i \in 1..Len(u) : Written(u[i])
      /\ \A i \in 1..(Len(u) - 1) : At(u[i + 1]) = After(u[i])
      /\ IF u = <<>> THEN s = t ELSE At(u[1]) = s /\ After(u[Len(u)]) = t
  BY DEF Chain
<1>4. \A i \in 1..Len(v) : Written(v[i])
  BY <1>1, <1>3
<1>5. \A i \in 1..(Len(v) - 1) : At(v[i + 1]) = After(v[i])
  <2> SUFFICES ASSUME NEW i \in 1..(Len(u) - 1) PROVE At(v[i + 1]) = After(v[i])
    OBVIOUS
  <2>1. i \in 1..Len(u) /\ i + 1 \in 1..Len(u)
    BY <1>2
  <2> QED BY <1>1, <1>3, <2>1
<1>6. IF v = <<>> THEN s = t ELSE At(v[1]) = s /\ After(v[Len(v)]) = t
  <2>1. CASE u = <<>>
    BY <1>2, <1>3, <2>1
  <2>2. CASE u # <<>>
    <3>1. 1 \in 1..Len(u) /\ Len(u) \in 1..Len(u)
      BY <1>2, <2>2
    <3> QED BY <1>1, <1>2, <1>3, <2>2, <3>1
  <2> QED BY <2>1, <2>2
<1> QED BY <1>4, <1>5, <1>6 DEF Chain

LEMMA ReadKeepsInv ==
  ASSUME PortInv, UNCHANGED platform, Read
  PROVE  PortInv'
<1>1. PICK n \in 1..Len(tty) :
        /\ Reading /\ n <= RawBufSize
        /\ carry' = BytesOf(SubSeq(tty, 1, n))
        /\ pendingBreak' = (pendingBreak \/ Short(n))
        /\ undecoded' = undecoded \o [SubSeq(tty, 1, n) EXCEPT ![n].flush = Short(n)]
        /\ tty' = SubSeq(tty, n + 1, Len(tty))
        /\ UNCHANGED <<running, decState, out, mark, due>>
  BY DEF Read
<1> DEFINE cells == SubSeq(tty, 1, n)
           read  == [cells EXCEPT ![n].flush = Short(n)]
<1>2. /\ tty \in Seq(Cell) /\ Len(tty) \in Nat /\ Len(tty) <= TtyMax /\ n \in Nat /\ n > 0 /\ n <= Len(tty)
      /\ TtyMax \in Nat /\ platform \in Platforms /\ pendingBreak \in BOOLEAN
  BY SerialAssumption DEF PortInv, TypeOK, SerialAssumption
<1>3. Short(n) \in BOOLEAN
  <2>1. platform.shortReadBreaks \in BOOLEAN
    BY <1>2, SerialAssumption DEF SerialAssumption, Platform
  <2> QED BY <2>1 DEF Short
<1>4. cells \in Seq(Cell) /\ Len(cells) = n /\ \A i \in 1..n : cells[i] = tty[i]
  <2>1. 1 \in 1..(Len(tty) + 1) /\ n \in (1 - 1)..Len(tty)
    BY <1>2
  <2>2. cells \in Seq(Cell) /\ Len(cells) = n - 1 + 1 /\ \A i \in 1..(n - 1 + 1) : cells[i] = tty[1 + i - 1]
    BY <1>2, <2>1, PartAt
  <2> QED BY <1>2, <2>2
<1> HIDE DEF cells
<1>5. /\ read \in Seq(Cell) /\ Len(read) = n
      /\ \A i \in 1..n : /\ read[i].byte = cells[i].byte /\ read[i].ends = cells[i].ends
                         /\ read[i].flush = IF i = n THEN Short(n) ELSE cells[i].flush
  <2> DEFINE cell(i) == IF i = n THEN [cells[n] EXCEPT !.flush = Short(n)] ELSE cells[i]
  <2>1. \A i \in 1..n : cells[i] \in Cell
    BY <1>4
  <2>2. \A i \in 1..n : /\ cell(i) \in Cell /\ cell(i).byte = cells[i].byte /\ cell(i).ends = cells[i].ends
                        /\ cell(i).flush = IF i = n THEN Short(n) ELSE cells[i].flush
    BY <1>3, <2>1 DEF Cell
  <2>3. DOMAIN cells = 1..n
    BY <1>4
  <2>4. read = [i \in 1..n |-> cell(i)]
    BY <1>4, <2>3
  <2> HIDE DEF cell, read
  <2>5. read \in Seq(Cell) /\ Len(read) = n /\ \A i \in 1..n : read[i] = cell(i)
    BY <1>2, <2>2, <2>4
  <2> QED BY <2>2, <2>5
<1> HIDE DEF read
<1>6. carry = <<>> /\ undecoded = <<>> /\ ~pendingBreak
  <2>1. carry = <<>> /\ undecoded = <<>>
    BY <1>1, CarryOf DEF Reading
  <2> QED BY <2>1 DEF PortInv, Flushed
<1>7. undecoded' = read
  <2>1. undecoded' = <<>> \o read
    BY <1>1, <1>6 DEF read, cells
  <2>2. <<>> \o read = read
    BY <1>5, ConcatEmptySeq
  <2> QED BY <2>1, <2>2
<1>8. pendingBreak' = Short(n)
  BY <1>1, <1>3, <1>6
<1>9. /\ tty' \in Seq(Cell) /\ Len(tty') = Len(tty) - n
      /\ \A i \in 1..(Len(tty) - n) : tty'[i] = tty[n + i]
  <2>1. n + 1 \in 1..(Len(tty) + 1) /\ Len(tty) \in (n + 1 - 1)..Len(tty)
    BY <1>2
  <2> DEFINE q == SubSeq(tty, n + 1, Len(tty))
  <2>2. /\ q \in Seq(Cell) /\ Len(q) = Len(tty) - (n + 1) + 1
        /\ \A i \in 1..(Len(tty) - (n + 1) + 1) : q[i] = tty[(n + 1) + i - 1]
    BY <1>2, <2>1, PartAt
  <2>3. tty' = q
    BY <1>1
  <2> HIDE DEF q
  <2> QED BY <1>2, <2>2, <2>3
<1>10. carry' = BytesOf(read)
  <2>1. carry' = BytesOf(cells)
    BY <1>1 DEF cells
  <2>2. /\ BytesOf(cells) \in Seq(Byte \cup {0, FF}) /\ Len(BytesOf(cells)) = n
        /\ \A i \in 1..n : BytesOf(cells)[i] = cells[i].byte
    BY <1>4, CellTypes
  <2>3. /\ BytesOf(read) \in Seq(Byte \cup {0, FF}) /\ Len(BytesOf(read)) = n
        /\ \A i \in 1..n : BytesOf(read)[i] = read[i].byte
    BY <1>5, CellTypes
  <2>4. BytesOf(cells) = BytesOf(read)
    BY <1>5, <2>2, <2>3, Same
  <2> QED BY <2>1, <2>4
<1>11. carry' \in Seq(Byte \cup {0, FF}) /\ Len(carry') = n
  BY <1>5, <1>10, CellTypes
<1>12. out = <<>> /\ Len(out) = 0 /\ mark = "none"
  BY <1>1, EmptyOf DEF Reading
<1>13. TypeOK'
  <2>1. pendingBreak' => platform'.shortReadBreaks
    BY <1>8 DEF Short
  <2>2. undecoded' \in Seq(Cell) /\ Len(tty') <= TtyMax /\ Len(carry') <= RawBufSize /\ pendingBreak' \in BOOLEAN
    <3>1. undecoded' \in Seq(Cell)
      BY <1>5, <1>7
    <3>2. Len(tty') <= TtyMax
      BY <1>2, <1>9
    <3>3. Len(carry') <= RawBufSize
      BY <1>1, <1>11
    <3>4. pendingBreak' \in BOOLEAN
      BY <1>3, <1>8
    <3> QED BY <3>1, <3>2, <3>3, <3>4
  <2>3. /\ platform' \in Platforms /\ running' \in BOOLEAN /\ decState' \in {"idle", "sawFF", "sawFF00"}
        /\ out' \in Seq(Byte) /\ Len(out') <= RawBufSize /\ mark' \in Marker /\ due' \in Seq(Item)
    BY <1>1 DEF PortInv, TypeOK
  <2> QED BY <1>9, <1>11, <2>1, <2>2, <2>3 DEF TypeOK
<1>14. Escapes'
  <2>1. PICK s \in State : Chain(undecoded, decState, s) /\ Chain(tty, s, "idle")
    BY DEF PortInv, Escapes
  <2>2. decState = s
    BY <1>6, <2>1 DEF Chain
  <2> DEFINE rest == SubSeq(tty, n + 1, Len(tty))
  <2>3. PICK m \in State : Chain(cells, s, m) /\ Chain(rest, m, "idle")
    BY <1>2, <2>1, ItemTypes, ChainCut DEF cells
  <2>4. Chain(read, s, m)
    <3>1. cells \in Seq(Cell) /\ read \in Seq(Cell) /\ Len(read) = Len(cells)
          /\ \A i \in 1..Len(cells) : read[i].byte = cells[i].byte /\ read[i].ends = cells[i].ends
      BY <1>4, <1>5
    <3> QED BY <2>3, <3>1, ChainLike
  <2>5. rest = tty'
    BY <1>1
  <2> HIDE DEF rest
  <2>6. Chain(undecoded, decState, m)'
    BY <1>1, <1>7, <2>2, <2>4 DEF Chain, Written, At, After
  <2>7. Chain(tty, m, "idle")'
    BY <2>3, <2>5 DEF Chain, Written, At, After
  <2> QED BY <2>3, <2>6, <2>7 DEF Escapes
<1>15. Flushed'
  <2>1. \A i \in 1..Len(tty) : ~tty[i].flush
    BY DEF PortInv, Flushed
  <2>2. \A i \in 1..Len(tty') : ~tty'[i].flush
    BY <1>2, <1>9, <2>1
  <2>3. \A i \in 1..Len(read) : read[i].flush <=> (pendingBreak' /\ i = Len(read))
    <3> SUFFICES ASSUME NEW i \in 1..n PROVE read[i].flush <=> (pendingBreak' /\ i = n)
      BY <1>5
    <3>1. ~cells[i].flush
      BY <1>2, <1>4, <2>1
    <3> QED BY <1>5, <1>8, <3>1
  <2>4. read # <<>>
    BY <1>2, <1>5, EmptyOf
  <2> QED BY <1>7, <2>2, <2>3, <2>4 DEF Flushed
<1>16. Len(out') + Len(carry') <= RawBufSize
  <2>1. Len(out') = 0
    BY <1>1, <1>12
  <2> QED BY <1>1, <1>2, <1>11, <2>1
<1>17. due' = Items(out', mark')
  BY <1>1 DEF PortInv
<1> QED BY <1>7, <1>10, <1>13, <1>14, <1>15, <1>16, <1>17 DEF PortInv

LEMMA PortStep == PortInv /\ [Next]_vars => PortInv'
<1> SUFFICES ASSUME PortInv, [Next]_vars PROVE PortInv'
  OBVIOUS
<1>1. CASE UNCHANGED vars
  BY <1>1 DEF vars, portVars, PortInv, TypeOK, Escapes, Flushed, Chain, Written, At, After
<1>2. ASSUME UNCHANGED platform, SlotArrives PROVE PortInv'
  <2>1. PICK b \in Byte : Occur(DataBytes(b), DataItem(b))
    BY <1>2 DEF SlotArrives
  <2>2. DataItem(b) \in Item
    BY ItemTypes
  <2> QED BY <1>2, <2>1, <2>2, DataChain, OccurKeepsInv
<1>3. ASSUME UNCHANGED platform, BreakArrives PROVE PortInv'
  <2>1. platform.lineEvents # {} /\ Occur(<<FF, 0, 0>>, BreakItem)
    BY <1>3 DEF BreakArrives, BreakBytes
  <2>2. 0 \in Byte /\ BreakItem \in Item
    BY ItemTypes
  <2>3. /\ <<FF, 0, 0>> \in Seq(Byte \cup {0, FF}) /\ <<FF, 0, 0>> # <<>>
        /\ Chain(Cells(<<FF, 0, 0>>, BreakItem), "idle", "idle")
    BY <2>1, <2>2, EventChain
  <2> QED BY <1>3, <2>1, <2>2, <2>3, OccurKeepsInv
<1>4. ASSUME UNCHANGED platform, ErrorArrives PROVE PortInv'
  <2>1. PICK b \in Byte \ {0} : Occur(<<FF, 0, b>>, ErrorItem)
    BY <1>4 DEF ErrorArrives, ErrorBytes
  <2>2. platform.lineEvents # {} /\ b \in Byte /\ b # 0 /\ ErrorItem \in Item
    BY <1>4, ItemTypes DEF ErrorArrives
  <2>3. /\ <<FF, 0, b>> \in Seq(Byte \cup {0, FF}) /\ <<FF, 0, b>> # <<>>
        /\ Chain(Cells(<<FF, 0, b>>, ErrorItem), "idle", "idle")
    BY <2>2, EventChain
  <2> QED BY <1>4, <2>1, <2>2, <2>3, OccurKeepsInv
<1>5. ASSUME UNCHANGED platform, ReadFails PROVE PortInv'
  BY <1>5 DEF ReadFails, portVars, PortInv, TypeOK, Escapes, Flushed, Chain, Written, At, After
<1>6. ReadTimesOut => UNCHANGED vars
  BY DEF ReadTimesOut
<1>7. ASSUME Next PROVE PortInv'
  <2>1. UNCHANGED platform /\ Step
    BY <1>7 DEF Next
  <2> QED BY <1>1, <1>2, <1>3, <1>4, <1>5, <1>6, <2>1, ServeDataKeepsInv, ServeMarkKeepsInv,
            DecodeKeepsInv, ReadKeepsInv DEF Step
<1> QED BY <1>1, <1>7

----------------------------------------------------------------------------
(* The theorems.                                                           *)

\* What has been decoded and not returned is what is due, what has been read
\* and not decoded is what the tty wrote, and the decoder is in the state that
\* the next byte of it takes.
THEOREM PortInvariant == Spec => []PortInv
BY PortInit, PortStep, PTL DEF Spec

\* Types: neither what has been read nor what has been decoded outgrows its
\* buffer (serial_unix.go:41), so decode's append never leaves it; only a
\* platform without a break signal takes a short read for one.
THEOREM TypeCorrect == Spec => []TypeOK
<1>1. PortInv => TypeOK
  BY DEF PortInv
<1> QED BY <1>1, PortInvariant, PTL

\* Bytes and events are returned in the order of the line, with none lost or
\* repeated, wherever the reads cut an escape (parmrk.go:42).
THEOREM InOrder == Spec => []ReturnsInOrder
<1>1. ASSUME PortInv PROVE ReturnsInOrder
  <2>1. out \in Seq(Byte) /\ Len(out) \in Nat /\ mark \in Marker /\ due = Items(out, mark)
        /\ BufSize \in Nat
    BY <1>1, SerialAssumption DEF PortInv, TypeOK, SerialAssumption
  <2>2. CASE out # <<>>
    <3> DEFINE n == IF Len(out) < BufSize THEN Len(out) ELSE BufSize
               k == MarkNow(Unserved)
               l == IF k = mark THEN "none" ELSE mark
    <3>1. n \in 0..Len(out) /\ Served = SubSeq(out, 1, n)
      BY <2>1 DEF Served
    <3>2. k \in Marker /\ (k = mark \/ k = "none")
      BY <2>1 DEF MarkNow, Marker
    <3>3. k # "none" => n = Len(out)
      <4>1. ASSUME ~(Len(out) <= BufSize) PROVE Unserved # <<>>
        <5>1. Unserved \in Seq(Byte) /\ Len(Unserved) = Len(out) - BufSize
          BY <2>1, <4>1 DEF Unserved
        <5>2. Unserved = <<>> <=> Len(Unserved) = 0
          BY <5>1, EmptyOf
        <5> QED BY <2>1, <4>1, <5>1, <5>2
      <4> QED BY <2>1, <4>1 DEF MarkNow
    <3> HIDE DEF n, k
    <3>4. IsPrefix(Items(SubSeq(out, 1, n), k), Items(out, mark))
      <4>1. CASE k = "none"
        BY <2>1, <3>1, <3>2, <4>1, ItemsCut DEF Marker
      <4>2. CASE k # "none"
        <5>1. k = mark /\ "none" \in Marker /\ n = Len(out)
          BY <3>2, <3>3, <4>2 DEF Marker
        <5> QED BY <2>1, <3>1, <3>2, <5>1, ItemsCut
      <4> QED BY <4>1, <4>2
    <3> QED BY <2>1, <2>2, <3>1, <3>4 DEF ReturnsInOrder, k
  <2>3. CASE out = <<>>
    <3> DEFINE x == Items(<<>>, mark)
    <3>1. due = x
      BY <2>1, <2>3
    <3>2. x \in Seq(Item)
      <4>1. Items(out, mark) \in Seq(Item)
        BY <2>1, ItemsAt
      <4> QED BY <2>1, <3>1, <4>1
    <3> HIDE DEF x
    <3>3. IsPrefix(x, x)
      BY <3>2 DEF IsPrefix
    <3> QED BY <2>3, <3>1, <3>3 DEF ReturnsInOrder, x
  <2> QED BY <2>2, <2>3
<1> QED BY <1>1, PortInvariant, PTL

\* Nothing of a read is left when the port reads again: carry is "empty whenever
\* we read again" (serial_unix.go:36), and so is all that came of it.
THEOREM Everything == Spec => []ReturnsEverything
<1>1. ASSUME PortInv PROVE ReturnsEverything
  <2> SUFFICES ASSUME Reading PROVE undecoded = <<>> /\ due = <<>>
    BY DEF ReturnsEverything
  <2>1. undecoded = <<>>
    BY <1>1, CarryOf DEF Reading
  <2>2. out \in Seq(Byte) /\ out = <<>> /\ mark = "none" /\ mark \in Marker /\ due = Items(out, mark)
    BY <1>1 DEF Reading, PortInv, TypeOK
  <2>3. Items(out, mark) \in Seq(Item) /\ Len(Items(out, mark)) = Len(out) + Len(Event(mark))
        /\ Len(Event(mark)) = 0
    BY <2>2, ItemsAt
  <2>4. Len(out) = 0
    BY <2>2, EmptyOf
  <2>5. Len(Items(out, mark)) = 0
    BY <2>3, <2>4
  <2>6. Items(out, mark) = <<>>
    BY <2>3, <2>5, EmptyOf
  <2> QED BY <2>1, <2>2, <2>6
<1> QED BY <1>1, PortInvariant, PTL
=============================================================================
