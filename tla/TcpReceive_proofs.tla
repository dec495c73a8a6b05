------------------------- MODULE TcpReceive_proofs -------------------------
(***************************************************************************)
(* StreamExact, QueueSound and EdgeKept for every size of the stream, the  *)
(* window and the segments, every number of sequence numbers that leaves   *)
(* the comparisons a meaning, and every sequence number to start at.       *)
(*                                                                         *)
(* The invariant is about positions in the stream, that do not go round:   *)
(* the first lemmas turn sums, differences and comparisons of sequence     *)
(* numbers into those of positions.                                        *)
(***************************************************************************)
EXTENDS TcpReceive, TLAPS, WellFoundedInduction, SequenceTheorems

\* The position of a sequence number, for a stream that starts at i.
Pos(i, x) == (x - i) % SEQ

\* NoWrap for a stream that starts at i.
Room(i) == i + StreamLen + 1 + TCP_WND < SEQ

(***************************************************************************)
(* A segment holds the bytes of its place.  It may claim to be longer than *)
(* that only if sums with the window may go round (see Append_Ooseq).      *)
(***************************************************************************)
Piece(i, seg) ==
    /\ seg \in Segment
    /\ Len(seg.p) <= seg.len
    /\ \A k \in 1 .. Len(seg.p) : seg.p[k] = Pos(i, seg.seqno) + k - 1
    /\ Len(seg.p) > 0 => Pos(i, seg.seqno) + Len(seg.p) <= StreamLen
    /\ seg.fin => Pos(i, seg.seqno) + seg.len = StreamLen
    /\ Room(i) => Len(seg.p) = seg.len

\* Where a segment ends, its FIN not counted.
Stop(i, seg) == Pos(i, seg.seqno) + seg.len

\* A segment between the positions lo and hi.
Slot(i, seg, lo, hi) ==
    Piece(i, seg) /\ lo <= Pos(i, seg.seqno) /\ Pos(i, seg.seqno) + TCP_TCPLEN(seg) <= hi

\* A queue of segments there, in order.
Queued(i, q, lo, hi) ==
    /\ q \in Seq(Segment)
    /\ \A k \in 1 .. Len(q) : Slot(i, q[k], lo, hi) /\ (q[k].fin => k = Len(q))
    /\ \A j, k \in 1 .. Len(q) : j < k => Stop(i, q[j]) <= Pos(i, q[k].seqno)

Connection == [state : {"ESTABLISHED", "CLOSE_WAIT"},
               rcv_nxt : 0 .. SEQ - 1, rcv_wnd : 0 .. TCP_WND,
               rcv_ann_wnd : 0 .. TCP_WND, rcv_ann_right_edge : 0 .. SEQ - 1,
               ack : SUBSET {"delay", "now"}, ooseq : Seq(Segment)]

\* The window: n is the position of rcv_nxt. What was announced is never taken back.
Window(i, c, n) ==
    /\ c \in Connection
    /\ n = Pos(i, c.rcv_nxt)
    /\ Pos(i, c.rcv_ann_right_edge) <= n + c.rcv_ann_wnd
    /\ n + c.rcv_ann_wnd <= TCP_WND + StreamLen

\* The data that http_recv has when rcv_nxt is at n, FIN or not.
Passed(i, data, n) ==
    /\ data \in Seq(0 .. StreamLen - 1)
    /\ Len(data) <= StreamLen /\ Len(data) <= n
    /\ Room(i) => \A k \in 1 .. Len(data) : data[k] = k - 1

\* A connection c that has given `was' to http_recv, and the FIN if `done'.
Sound(i, c, was, done) ==
    LET n == Pos(i, c.rcv_nxt)
    IN  /\ i \in ISNs /\ done \in BOOLEAN
        /\ Window(i, c, n) /\ Passed(i, was, n)
        /\ Room(i) => n = Len(was) + IF done THEN 1 ELSE 0
        /\ done => c.state = "CLOSE_WAIT" /\ n = StreamLen + 1 /\ c.ooseq = <<>>
        /\ ~done => /\ c.state = "ESTABLISHED" /\ c.rcv_ann_wnd <= c.rcv_wnd
                    /\ n + c.rcv_wnd <= TCP_WND + Len(was)
                    /\ Queued(i, c.ooseq, n + 1, n + c.rcv_wnd)

ReceiveInv == Sound(isn, pcb, passed, eof)
-----------------------------------------------------------------------------

(***************************************************************************)
(* Sequence numbers and positions                                          *)
(***************************************************************************)

Half == SEQ \div 2

LEMMA Sizes ==
    /\ SEQ \in Nat \ {0} /\ Half \in Nat /\ 2 * Half = SEQ
    /\ StreamLen \in Nat /\ TCP_MSS \in Nat \ {0} /\ TCP_WND \in Nat \ {0}
    /\ TCP_WND + StreamLen < Half
    /\ \A i \in ISNs : i \in 0 .. SEQ - 1
  BY SeqAssumption, WindowAssumption DEF Half

LEMMA ModIs ==
    ASSUME NEW a \in Int, -SEQ <= a, a < 2 * SEQ
    PROVE  a % SEQ = IF a < 0 THEN a + SEQ ELSE IF a < SEQ THEN a ELSE a - SEQ
<1>1. SEQ \in Nat \ {0}
  BY Sizes
<1>2. CASE a < 0
  BY <1>1, <1>2
<1>3. CASE a >= 0 /\ a < SEQ
  BY <1>1, <1>3
<1>4. CASE a >= SEQ
  BY <1>1, <1>4
<1> QED
  BY <1>1, <1>2, <1>3, <1>4

LEMMA PosIs ==
    ASSUME NEW i \in 0 .. SEQ - 1, NEW x \in 0 .. SEQ - 1
    PROVE  /\ Pos(i, x) = IF x >= i THEN x - i ELSE x - i + SEQ
           /\ Pos(i, x) \in 0 .. SEQ - 1
<1>1. SEQ \in Nat \ {0}
  BY Sizes
<1>2. x - i \in Int /\ -SEQ <= x - i /\ x - i < 2 * SEQ
  BY <1>1
<1> DEFINE d == x - i
<1> HIDE DEF d
<1>3. d % SEQ = IF d < 0 THEN d + SEQ ELSE IF d < SEQ THEN d ELSE d - SEQ
  BY <1>2, ModIs DEF d
<1> QED
  BY <1>1, <1>3 DEF Pos, d

LEMMA PosEq ==
    ASSUME NEW i \in 0 .. SEQ - 1, NEW x \in 0 .. SEQ - 1, NEW y \in 0 .. SEQ - 1
    PROVE  x = y <=> Pos(i, x) = Pos(i, y)
<1>1. SEQ \in Nat \ {0}
  BY Sizes
<1>2. Pos(i, x) = IF x >= i THEN x - i ELSE x - i + SEQ
  BY PosIs
<1>3. Pos(i, y) = IF y >= i THEN y - i ELSE y - i + SEQ
  BY PosIs
<1> QED
  BY <1>1, <1>2, <1>3

LEMMA AddPos ==
    ASSUME NEW i \in 0 .. SEQ - 1, NEW x \in 0 .. SEQ - 1, NEW d \in Nat,
           Pos(i, x) + d < SEQ
    PROVE  Add(x, d) \in 0 .. SEQ - 1 /\ Pos(i, Add(x, d)) = Pos(i, x) + d
<1>1. SEQ \in Nat \ {0}
  BY Sizes
<1>2. Pos(i, x) = IF x >= i THEN x - i ELSE x - i + SEQ
  BY PosIs
<1>3. x + d \in Int /\ -SEQ <= x + d /\ x + d < 2 * SEQ
  BY <1>1, <1>2
<1> DEFINE s == x + d
<1>4. Add(x, d) = s % SEQ
  BY DEF Add
<1> HIDE DEF s
<1>5. s % SEQ = IF s < 0 THEN s + SEQ ELSE IF s < SEQ THEN s ELSE s - SEQ
  BY <1>3, ModIs DEF s
<1>6. Add(x, d) = IF x + d < SEQ THEN x + d ELSE x + d - SEQ
  BY <1>1, <1>3, <1>4, <1>5 DEF s
<1>7. Add(x, d) \in 0 .. SEQ - 1
  BY <1>1, <1>3, <1>6
<1>8. Pos(i, Add(x, d)) = IF Add(x, d) >= i THEN Add(x, d) - i ELSE Add(x, d) - i + SEQ
  BY <1>7, PosIs
<1> QED
  BY <1>1, <1>2, <1>6, <1>7, <1>8

LEMMA SubPos ==
    ASSUME NEW i \in 0 .. SEQ - 1, NEW x \in 0 .. SEQ - 1, NEW y \in 0 .. SEQ - 1
    PROVE  /\ Sub(x, y) = IF Pos(i, x) >= Pos(i, y) THEN Pos(i, x) - Pos(i, y)
                          ELSE Pos(i, x) - Pos(i, y) + SEQ
           /\ Sub(x, y) \in 0 .. SEQ - 1
<1>1. SEQ \in Nat \ {0}
  BY Sizes
<1>2. Pos(i, x) = IF x >= i THEN x - i ELSE x - i + SEQ
  BY PosIs
<1>3. Pos(i, y) = IF y >= i THEN y - i ELSE y - i + SEQ
  BY PosIs
<1> DEFINE d == x - y
<1>4. Sub(x, y) = d % SEQ
  BY DEF Sub
<1>5. d \in Int /\ -SEQ <= d /\ d < SEQ
  BY <1>1
<1>6. d = x - y
  OBVIOUS
<1> HIDE DEF d
<1>7. d % SEQ = IF d < 0 THEN d + SEQ ELSE d
  BY <1>1, <1>5, ModIs
<1> QED
  BY <1>1, <1>2, <1>3, <1>4, <1>5, <1>6, <1>7

\* Positions less than half of the sequence numbers apart are compared right.
LEMMA GeqPos ==
    ASSUME NEW i \in 0 .. SEQ - 1, NEW x \in 0 .. SEQ - 1, NEW y \in 0 .. SEQ - 1,
           Pos(i, x) - Pos(i, y) < Half, Pos(i, y) - Pos(i, x) <= Half
    PROVE  /\ SEQ_GEQ(x, y) <=> Pos(i, x) >= Pos(i, y)
           /\ SEQ_LT(x, y) <=> Pos(i, x) < Pos(i, y)
           /\ SEQ_GT(x, y) <=> Pos(i, x) > Pos(i, y)
<1>1. Half \in Nat /\ 2 * Half = SEQ
  BY Sizes
<1> DEFINE a == Pos(i, x)
           b == Pos(i, y)
<1>2. a \in Int /\ b \in Int
  BY <1>1, PosIs
<1>3. Sub(x, y) = IF a >= b THEN a - b ELSE a - b + SEQ
  BY SubPos
<1>4. x = y <=> a = b
  BY PosEq
<1>5. SEQ_LT(x, y) <=> Sub(x, y) >= Half
  BY DEF SEQ_LT, Half
<1> HIDE DEF a, b
<1>6. a - b < Half /\ b - a <= Half
  BY DEF a, b
<1>7. SEQ_LT(x, y) <=> a < b
  BY <1>1, <1>2, <1>3, <1>5, <1>6
<1>8. SEQ_GEQ(x, y) <=> a >= b
  BY <1>2, <1>7 DEF SEQ_GEQ
<1>9. SEQ_GT(x, y) <=> a > b
  BY <1>2, <1>4, <1>8 DEF SEQ_GT
<1> QED
  BY <1>7, <1>8, <1>9 DEF a, b

\* Is x in the window of w sequence numbers from y on?
LEMMA WithinPos ==
    ASSUME NEW i \in 0 .. SEQ - 1, NEW x \in 0 .. SEQ - 1, NEW y \in 0 .. SEQ - 1,
           NEW w \in Nat, Pos(i, x) < Half, Pos(i, y) + w < Half
    PROVE  SEQ_BETWEEN(x, y, Sub(Add(y, w), 1)) <=>
              Pos(i, y) <= Pos(i, x) /\ Pos(i, x) < Pos(i, y) + w
<1>1. Half \in Nat /\ 2 * Half = SEQ
  BY Sizes
<1> DEFINE a == Pos(i, x)
           b == Pos(i, y)
           z == Add(y, w)
           l == Sub(z, 1)
<1>2. a \in Nat /\ b \in Nat
  BY <1>1, PosIs
<1>3. a < Half /\ b + w < Half
  OBVIOUS
<1>4. z \in 0 .. SEQ - 1 /\ Pos(i, z) = b + w
  <2>1. Pos(i, y) + w < SEQ
    BY <1>1, <1>2
  <2> QED
    BY <2>1, AddPos
<1>5. SEQ_GEQ(x, y) <=> a >= b
  <2>1. Pos(i, x) - Pos(i, y) < Half /\ Pos(i, y) - Pos(i, x) <= Half
    BY <1>1, <1>2
  <2> QED
    BY <2>1, GeqPos
<1> HIDE DEF z
<1>6. l \in 0 .. SEQ - 1 /\ Pos(i, l) = IF b + w = 0 THEN SEQ - 1 ELSE b + w - 1
  <2> DEFINE d == z - 1
  <2>1. l = d % SEQ
    BY DEF Sub
  <2>2. d \in Int /\ -SEQ <= d /\ d < SEQ /\ d = z - 1
    BY <1>1, <1>4
  <2> HIDE DEF d, l
  <2>3. l = IF d < 0 THEN d + SEQ ELSE d
    BY <1>1, <2>1, <2>2, ModIs
  <2>4. l \in 0 .. SEQ - 1 /\ l = IF z = 0 THEN SEQ - 1 ELSE z - 1
    BY <1>1, <1>4, <2>2, <2>3
  <2>5. Pos(i, l) = IF l >= i THEN l - i ELSE l - i + SEQ
    BY <2>4, PosIs
  <2>6. Pos(i, z) = IF z >= i THEN z - i ELSE z - i + SEQ
    BY <1>4, PosIs
  <2> HIDE DEF a, b
  <2> QED
    BY <1>1, <1>2, <1>4, <2>4, <2>5, <2>6
<1> HIDE DEF l
<1>7. SEQ_GEQ(l, x) <=> b + w > a
  <2>1. SEQ_LT(l, x) <=> Sub(l, x) >= Half
    BY DEF SEQ_LT, Half
  <2>2. Sub(l, x) = IF Pos(i, l) >= a THEN Pos(i, l) - a ELSE Pos(i, l) - a + SEQ
    BY <1>6, SubPos, ZenonT(60)
  <2> HIDE DEF a, b
  <2>3. SEQ_LT(l, x) <=> b + w <= a
    BY <1>1, <1>2, <1>3, <1>6, <2>1, <2>2
  <2> QED
    BY <1>2, <2>3 DEF SEQ_GEQ
<1> QED
  BY <1>2, <1>5, <1>7 DEF SEQ_BETWEEN, l, z

-----------------------------------------------------------------------------
(***************************************************************************)
(* Segments and queues                                                     *)
(***************************************************************************)

\* A set of natural numbers has a least element.
LEMMA Least ==
    ASSUME NEW S \in SUBSET Nat, NEW x \in S
    PROVE  \E m \in S : \A k \in Nat : k < m => k \notin S
<1>1. PICK m \in S : \A y \in S : ~(<<y, m>> \in OpToRel(<, Nat))
  BY NatLessThanWellFounded, WFMin
<1>2. \A k \in Nat : k < m => k \notin S
  BY <1>1 DEF OpToRel
<1> QED
  BY <1>2

\* A walk along a list stops somewhere.
LEMMA LeadingIs ==
    ASSUME NEW len \in Nat, NEW set \in SUBSET (1 .. len)
    PROVE  LET n == Leading(set, len)
           IN  n \in 0 .. len /\ 1 .. n \subseteq set /\ n + 1 \notin set
<1> DEFINE S == {k \in Nat : k + 1 \notin set}
           P(n) == 1 .. n \subseteq set /\ n + 1 \notin set
<1>1. len \in S
  OBVIOUS
<1>2. PICK m \in S : \A k \in Nat : k < m => k \notin S
  <2> HIDE DEF S
  <2>1. S \in SUBSET Nat
    BY DEF S
  <2> QED
    BY <1>1, <2>1, Least
<1>3. m \in 0 .. len
  BY <1>1, <1>2
<1>4. 1 .. m \subseteq set
  <2> SUFFICES ASSUME NEW j \in 1 .. m PROVE j \in set
    OBVIOUS
  <2>1. j - 1 \in Nat /\ j - 1 < m /\ (j - 1) + 1 = j
    BY <1>3
  <2>2. j - 1 \notin S
    BY <1>2, <2>1
  <2> QED
    BY <2>1, <2>2
<1>5. P(m)
  BY <1>2, <1>4
<1> HIDE DEF P
<1>6. (CHOOSE n \in 0 .. len : P(n)) \in 0 .. len /\ P(CHOOSE n \in 0 .. len : P(n))
  BY <1>3, <1>5
<1> QED
  BY <1>6 DEF Leading, P

LEMMA Cat ==
    ASSUME NEW s \in Seq(Segment), NEW t \in Seq(Segment)
    PROVE  /\ s \o t \in Seq(Segment) /\ Len(s \o t) = Len(s) + Len(t)
           /\ \A i \in 1 .. Len(s) + Len(t) :
                (s \o t)[i] = IF i <= Len(s) THEN s[i] ELSE t[i - Len(s)]
<1>1. \A i \in 1 .. Len(s) + Len(t) :
        (s \o t)[i] = IF i <= Len(s) THEN s[i] ELSE t[i - Len(s)]
  BY ConcatProperties, Zenon
<1>2. s \o t \in Seq(Segment) /\ Len(s \o t) = Len(s) + Len(t)
  BY ConcatProperties, Zenon
<1> QED
  BY <1>1, <1>2

LEMMA Split ==
    ASSUME NEW u \in Seq(Segment), NEW n \in 0 .. Len(u)
    PROVE  /\ SubSeq(u, 1, n) \in Seq(Segment) /\ Len(SubSeq(u, 1, n)) = n
           /\ \A i \in 1 .. n : SubSeq(u, 1, n)[i] = u[i]
           /\ SubSeq(u, n + 1, Len(u)) \in Seq(Segment)
           /\ Len(SubSeq(u, n + 1, Len(u))) = Len(u) - n
           /\ \A i \in 1 .. Len(u) - n : SubSeq(u, n + 1, Len(u))[i] = u[n + i]
<1>1. /\ SubSeq(u, 1, n) \in Seq(Segment) /\ Len(SubSeq(u, 1, n)) = n
      /\ \A i \in 1 .. n : SubSeq(u, 1, n)[i] = u[i]
  OBVIOUS
<1>2. /\ SubSeq(u, n + 1, Len(u)) \in Seq(Segment)
      /\ Len(SubSeq(u, n + 1, Len(u))) = Len(u) - n
      /\ \A i \in 1 .. Len(u) - n : SubSeq(u, n + 1, Len(u))[i] = u[n + i]
  OBVIOUS
<1> QED
  BY <1>1, <1>2

\* The fields of a segment.
LEMMA SegmentIs ==
    ASSUME NEW i \in 0 .. SEQ - 1, NEW seg \in Segment
    PROVE  /\ seg.seqno \in 0 .. SEQ - 1 /\ seg.len \in Nat /\ seg.fin \in BOOLEAN
           /\ seg.p \in Seq(0 .. StreamLen - 1) /\ Len(seg.p) \in Nat
           /\ Pos(i, seg.seqno) \in Nat /\ Pos(i, seg.seqno) < SEQ
           /\ TCP_TCPLEN(seg) = IF seg.fin THEN seg.len + 1 ELSE seg.len
           /\ TCP_TCPLEN(seg) \in Nat
<1>1. /\ seg.seqno \in 0 .. SEQ - 1 /\ seg.len \in Nat /\ seg.fin \in BOOLEAN
      /\ seg.p \in Seq(0 .. StreamLen - 1)
  BY DEF Segment
<1>2. Len(seg.p) \in Nat
  BY <1>1
<1>3. Pos(i, seg.seqno) \in 0 .. SEQ - 1 /\ SEQ \in Nat
  BY <1>1, PosIs, Sizes
<1>4. TCP_TCPLEN(seg) = IF seg.fin THEN seg.len + 1 ELSE seg.len
  BY <1>1 DEF TCP_TCPLEN
<1> QED
  BY <1>1, <1>2, <1>3, <1>4

\* Where a segment of the queue ends.
LEMMA SlotIs ==
    ASSUME NEW i \in 0 .. SEQ - 1, NEW seg, NEW lo \in Nat, NEW hi \in Nat, hi < Half,
           Slot(i, seg, lo, hi)
    PROVE  /\ Stop(i, seg) \in Nat /\ Stop(i, seg) <= hi /\ (seg.fin => Stop(i, seg) < hi)
           /\ End(seg) \in 0 .. SEQ - 1 /\ Pos(i, End(seg)) = Stop(i, seg)
           /\ Add(seg.seqno, TCP_TCPLEN(seg)) \in 0 .. SEQ - 1
           /\ Pos(i, Add(seg.seqno, TCP_TCPLEN(seg))) = Pos(i, seg.seqno) + TCP_TCPLEN(seg)
<1> DEFINE a == Pos(i, seg.seqno)
           l == seg.len
           t == TCP_TCPLEN(seg)
<1>1. seg \in Segment /\ a + t <= hi
  BY DEF Slot, Piece
<1>2. /\ seg.seqno \in 0 .. SEQ - 1 /\ l \in Nat /\ a \in Nat /\ seg.fin \in BOOLEAN
      /\ t = IF seg.fin THEN l + 1 ELSE l
      /\ t \in Nat
  BY <1>1, SegmentIs
<1>3. Half \in Nat /\ 2 * Half = SEQ
  BY Sizes
<1> HIDE DEF a, l, t
<1>4. a + l < SEQ /\ a + t < SEQ /\ a + l <= hi /\ (seg.fin => a + l < hi) /\ a + l \in Nat
  BY <1>1, <1>2, <1>3
<1>5. Add(seg.seqno, l) \in 0 .. SEQ - 1 /\ Pos(i, Add(seg.seqno, l)) = a + l
  BY <1>2, <1>4, AddPos DEF a
<1>6. Add(seg.seqno, t) \in 0 .. SEQ - 1 /\ Pos(i, Add(seg.seqno, t)) = a + t
  BY <1>2, <1>4, AddPos DEF a
<1> QED
  BY <1>4, <1>5, <1>6 DEF a, l, t, End, Stop

\* The front and the back of a queue.
LEMMA QueuedSplit ==
    ASSUME NEW i \in 0 .. SEQ - 1, NEW q, NEW lo \in Nat, NEW hi \in Nat,
           Queued(i, q, lo, hi), NEW n \in 0 .. Len(q)
    PROVE  /\ Queued(i, SubSeq(q, 1, n), lo, hi)
           /\ Queued(i, SubSeq(q, n + 1, Len(q)), lo, hi)
<1> DEFINE f == SubSeq(q, 1, n)
           b == SubSeq(q, n + 1, Len(q))
<1>1. /\ q \in Seq(Segment)
      /\ \A k \in 1 .. Len(q) : Slot(i, q[k], lo, hi) /\ (q[k].fin => k = Len(q))
      /\ \A j, k \in 1 .. Len(q) : j < k => Stop(i, q[j]) <= Pos(i, q[k].seqno)
  BY DEF Queued
<1>2. /\ f \in Seq(Segment) /\ Len(f) = n /\ (\A k \in 1 .. n : f[k] = q[k])
      /\ b \in Seq(Segment) /\ Len(b) = Len(q) - n
      /\ \A k \in 1 .. Len(q) - n : b[k] = q[n + k]
  BY <1>1, Split
<1> DEFINE l == Len(q)
<1>3. l \in Nat /\ n \in 0 .. l
  BY <1>1
<1> HIDE DEF f, b, l
<1>4. Queued(i, f, lo, hi)
  <2>1. ASSUME NEW k \in 1 .. Len(f) PROVE Slot(i, f[k], lo, hi) /\ (f[k].fin => k = Len(f))
    <3>1. k \in 1 .. n /\ k \in 1 .. l /\ (k = l => k = n)
      BY <1>2, <1>3
    <3> QED
      BY <1>1, <1>2, <3>1 DEF l
  <2>2. ASSUME NEW j \in 1 .. Len(f), NEW k \in 1 .. Len(f), j < k
        PROVE  Stop(i, f[j]) <= Pos(i, f[k].seqno)
    <3>1. k \in 1 .. n /\ k \in 1 .. l /\ j \in 1 .. n /\ j \in 1 .. l
      BY <1>2, <1>3
    <3> QED
      BY <1>1, <1>2, <2>2, <3>1 DEF l
  <2> QED
    BY <1>2, <2>1, <2>2 DEF Queued
<1>5. Queued(i, b, lo, hi)
  <2>1. ASSUME NEW k \in 1 .. Len(b) PROVE Slot(i, b[k], lo, hi) /\ (b[k].fin => k = Len(b))
    <3>1. k \in 1 .. l - n /\ n + k \in 1 .. l /\ (n + k = l => k = l - n)
      BY <1>2, <1>3 DEF l
    <3>2. b[k] = q[n + k] /\ Len(b) = l - n
      BY <1>2, <3>1 DEF l
    <3> QED
      BY <1>1, <3>1, <3>2 DEF l
  <2>2. ASSUME NEW j \in 1 .. Len(b), NEW k \in 1 .. Len(b), j < k
        PROVE  Stop(i, b[j]) <= Pos(i, b[k].seqno)
    <3>1. k \in 1 .. l - n /\ n + k \in 1 .. l /\ j \in 1 .. l - n /\ n + j \in 1 .. l
      BY <1>2, <1>3 DEF l
    <3>2. n + j < n + k
      BY <1>3, <2>2, <3>1
    <3>3. b[k] = q[n + k] /\ b[j] = q[n + j]
      BY <1>2, <3>1 DEF l
    <3> QED
      BY <1>1, <3>1, <3>2, <3>3 DEF l
  <2> QED
    BY <1>2, <2>1, <2>2 DEF Queued
<1> QED
  BY <1>4, <1>5 DEF f, b

\* Two queues, one behind the other.
LEMMA QueuedCat ==
    ASSUME NEW i \in 0 .. SEQ - 1, NEW lo \in Nat, NEW hi \in Nat, NEW f, NEW b,
           Queued(i, f, lo, hi), Queued(i, b, lo, hi),
           \A k \in 1 .. Len(f) : ~f[k].fin,
           \A j \in 1 .. Len(f), k \in 1 .. Len(b) : Stop(i, f[j]) <= Pos(i, b[k].seqno)
    PROVE  Queued(i, f \o b, lo, hi)
<1> DEFINE q == f \o b
           m == Len(f)
           n == Len(b)
<1>1. /\ f \in Seq(Segment)
      /\ \A k \in 1 .. m : Slot(i, f[k], lo, hi) /\ ~f[k].fin
      /\ \A j, k \in 1 .. m : j < k => Stop(i, f[j]) <= Pos(i, f[k].seqno)
  BY DEF Queued
<1>2. /\ b \in Seq(Segment)
      /\ \A k \in 1 .. n : Slot(i, b[k], lo, hi) /\ (b[k].fin => k = n)
      /\ \A j, k \in 1 .. n : j < k => Stop(i, b[j]) <= Pos(i, b[k].seqno)
  BY DEF Queued
<1>3. /\ q \in Seq(Segment) /\ Len(q) = m + n
      /\ \A k \in 1 .. m + n : q[k] = IF k <= m THEN f[k] ELSE b[k - m]
  BY <1>1, <1>2, Cat, Zenon
<1>4. m \in Nat /\ n \in Nat
  BY <1>1, <1>2
<1>5. \A j \in 1 .. m, k \in 1 .. n : Stop(i, f[j]) <= Pos(i, b[k].seqno)
  OBVIOUS
<1> HIDE DEF q, m, n
<1>6. ASSUME NEW k \in 1 .. m + n
      PROVE  \/ k \in 1 .. m /\ q[k] = f[k]
             \/ k - m \in 1 .. n /\ k > m /\ q[k] = b[k - m]
  <2>1. k \in 1 .. m \/ (k - m \in 1 .. n /\ k > m)
    BY <1>4
  <2> QED
    BY <1>3, <1>4, <2>1
<1>7. ASSUME NEW k \in 1 .. Len(q) PROVE Slot(i, q[k], lo, hi) /\ (q[k].fin => k = Len(q))
  <2>1. k \in 1 .. m + n
    BY <1>3
  <2>2. CASE k \in 1 .. m /\ q[k] = f[k]
    BY <1>1, <2>2
  <2>3. CASE k - m \in 1 .. n /\ q[k] = b[k - m]
    <3>1. k - m = n => k = m + n
      BY <1>4, <2>1
    <3> QED
      BY <1>2, <1>3, <2>3, <3>1
  <2> QED
    BY <1>6, <2>1, <2>2, <2>3
<1>8. ASSUME NEW j \in 1 .. Len(q), NEW k \in 1 .. Len(q), j < k
      PROVE  Stop(i, q[j]) <= Pos(i, q[k].seqno)
  <2>1. k \in 1 .. m + n /\ j \in 1 .. m + n
    BY <1>3
  <2>2. CASE k \in 1 .. m /\ q[k] = f[k]
    <3>1. j \in 1 .. m /\ ~(j > m)
      BY <1>4, <1>8, <2>1, <2>2
    <3>2. q[j] = f[j]
      BY <1>6, <2>1, <3>1
    <3> QED
      BY <1>1, <1>8, <2>2, <3>1, <3>2
  <2>3. CASE k - m \in 1 .. n /\ q[k] = b[k - m]
    <3>1. CASE j \in 1 .. m /\ q[j] = f[j]
      BY <1>5, <2>3, <3>1
    <3>2. CASE j - m \in 1 .. n /\ q[j] = b[j - m]
      <4>1. j - m < k - m
        BY <1>4, <1>8, <2>1
      <4> QED
        BY <1>2, <2>3, <3>2, <4>1
    <3> QED
      BY <1>6, <2>1, <3>1, <3>2
  <2> QED
    BY <1>6, <2>1, <2>2, <2>3
<1>9. Queued(i, q, lo, hi)
  BY <1>3, <1>7, <1>8 DEF Queued
<1> QED
  BY <1>9 DEF q

\* A queue of one.
LEMMA QueuedOne ==
    ASSUME NEW i \in 0 .. SEQ - 1, NEW lo \in Nat, NEW hi \in Nat, NEW seg,
           Slot(i, seg, lo, hi)
    PROVE  Queued(i, <<seg>>, lo, hi) /\ Len(<<seg>>) = 1 /\ <<seg>>[1] = seg
<1>1. seg \in Segment
  BY DEF Slot, Piece
<1> DEFINE q == <<seg>>
<1>2. q \in Seq(Segment) /\ Len(q) = 1 /\ q[1] = seg
  BY <1>1
<1> HIDE DEF q
<1>3. \A k \in 1 .. Len(q) : Slot(i, q[k], lo, hi) /\ (q[k].fin => k = Len(q))
  BY <1>2
<1>4. \A j, k \in 1 .. Len(q) : j < k => Stop(i, q[j]) <= Pos(i, q[k].seqno)
  BY <1>2
<1>5. Queued(i, q, lo, hi)
  BY <1>2, <1>3, <1>4 DEF Queued
<1> QED
  BY <1>2, <1>5 DEF q

\* A queue that begins later is one between wider bounds too.
LEMMA QueuedFrom ==
    ASSUME NEW i \in 0 .. SEQ - 1, NEW q, NEW lo \in Nat, NEW hi \in Nat, NEW to \in Nat,
           Queued(i, q, lo, hi), \A k \in 1 .. Len(q) : to <= Pos(i, q[k].seqno)
    PROVE  Queued(i, q, to, hi)
  BY DEF Queued, Slot

-----------------------------------------------------------------------------
(***************************************************************************)
(* Cutting and merging                                                     *)
(***************************************************************************)

LEMMA CutFields ==
    ASSUME NEW seg \in Segment, NEW n \in Nat
    PROVE  LET c == CutTo(seg, n)
           IN  /\ c \in Segment /\ c.seqno = seg.seqno /\ c.fin = seg.fin /\ c.len = n
               /\ Len(c.p) = IF n < Len(seg.p) THEN n ELSE Len(seg.p)
               /\ \A k \in 1 .. Len(c.p) : c.p[k] = seg.p[k]
<1> DEFINE c == CutTo(seg, n)
           m == IF n < Len(seg.p) THEN n ELSE Len(seg.p)
           p == SubSeq(seg.p, 1, m)
<1>1. /\ seg.seqno \in 0 .. SEQ - 1 /\ seg.fin \in BOOLEAN
      /\ seg.p \in Seq(0 .. StreamLen - 1) /\ seg.len \in Nat
  BY DEF Segment
<1>2. m \in 0 .. Len(seg.p)
  BY <1>1
<1>3. c = [seg EXCEPT !.len = n, !.p = p]
  BY DEF CutTo
<1> HIDE DEF m
<1>4. p \in Seq(0 .. StreamLen - 1) /\ Len(p) = m /\ \A k \in 1 .. m : p[k] = seg.p[k]
  <2> DEFINE D == 0 .. StreamLen - 1
             s == seg.p
  <2>1. s \in Seq(D) /\ m \in 0 .. Len(s) /\ p = SubSeq(s, 1, m)
    BY <1>1, <1>2
  <2> HIDE DEF D, s, p
  <2>2. p \in Seq(D) /\ Len(p) = m /\ \A k \in 1 .. m : p[k] = s[k]
    BY <2>1
  <2> QED
    BY <2>2 DEF D, s
<1> HIDE DEF p, c
<1>5. c \in Segment /\ c.seqno = seg.seqno /\ c.fin = seg.fin /\ c.len = n /\ c.p = p
  BY <1>3, <1>4 DEF Segment
<1> QED
  BY <1>4, <1>5 DEF c, m

\* A segment is shortened.
LEMMA CutToIs ==
    ASSUME NEW i \in 0 .. SEQ - 1, NEW lo \in Nat, NEW hi \in Nat, NEW seg,
           Slot(i, seg, lo, hi), ~seg.fin, NEW n \in Nat, n <= seg.len
    PROVE  LET c == CutTo(seg, n)
           IN  /\ Slot(i, c, lo, hi) /\ c.seqno = seg.seqno /\ ~c.fin /\ c.len = n
               /\ TCP_TCPLEN(c) = n /\ Stop(i, c) = Pos(i, seg.seqno) + n
<1> DEFINE c == CutTo(seg, n)
           a == Pos(i, seg.seqno)
           l == Len(seg.p)
           d == Len(c.p)
<1>1. /\ seg \in Segment /\ l <= seg.len
      /\ \A k \in 1 .. l : seg.p[k] = a + k - 1
      /\ l > 0 => a + l <= StreamLen
      /\ Room(i) => l = seg.len
      /\ lo <= a /\ a + TCP_TCPLEN(seg) <= hi
  BY DEF Slot, Piece
<1>2. /\ c \in Segment /\ c.seqno = seg.seqno /\ c.fin = seg.fin /\ c.len = n
      /\ d = IF n < l THEN n ELSE l
      /\ \A k \in 1 .. d : c.p[k] = seg.p[k]
  BY <1>1, CutFields
<1>3. seg.len \in Nat /\ a \in Nat /\ l \in Nat /\ TCP_TCPLEN(seg) = seg.len
  BY <1>1, SegmentIs
<1>4. TCP_TCPLEN(c) = n
  BY <1>2, SegmentIs
<1> HIDE DEF c, a, l, d
<1>5. d \in Nat /\ d <= n /\ d <= l
  BY <1>2, <1>3
<1>6. \A k \in 1 .. d : c.p[k] = a + k - 1
  BY <1>1, <1>2, <1>3, <1>5
<1>7. d > 0 => a + d <= StreamLen
  BY <1>1, <1>3, <1>5, Sizes
<1>8. Room(i) => d = n
  BY <1>1, <1>2, <1>3
<1>9. a + n <= hi
  BY <1>1, <1>3
<1> QED
  BY <1>1, <1>2, <1>4, <1>5, <1>6, <1>7, <1>8, <1>9 DEF Slot, Piece, Stop, c, a, d

\* The segments that are covered, and the first that is not.
LEMMA CoveredIs ==
    ASSUME NEW i \in 0 .. SEQ - 1, NEW lo \in Nat, NEW hi \in Nat, hi < Half, NEW q,
           Queued(i, q, lo, hi), NEW x \in 0 .. SEQ - 1, Pos(i, x) < Half
    PROVE  LET n == Covered(x, q)
           IN  /\ n \in 0 .. Len(q)
               /\ \A k \in 1 .. n : Stop(i, q[k]) <= Pos(i, x)
               /\ n < Len(q) => Stop(i, q[n + 1]) > Pos(i, x)
<1> DEFINE n == Covered(x, q)
           l == Len(q)
           S == {k \in 1 .. l : SEQ_GEQ(x, End(q[k]))}
<1>1. l \in Nat
  BY DEF Queued
<1>2. n \in 0 .. l /\ 1 .. n \subseteq S /\ n + 1 \notin S
  <2>1. S \in SUBSET (1 .. l)
    OBVIOUS
  <2>2. n = Leading(S, l)
    BY DEF Covered
  <2> HIDE DEF S, n, l
  <2> QED
    BY <1>1, <2>1, <2>2, LeadingIs
<1>3. ASSUME NEW k \in 1 .. l
      PROVE  SEQ_GEQ(x, End(q[k])) <=> Stop(i, q[k]) <= Pos(i, x)
  <2>1. Slot(i, q[k], lo, hi)
    BY DEF Queued
  <2> DEFINE e == End(q[k])
             s == Stop(i, q[k])
             a == Pos(i, x)
  <2>2. s \in Nat /\ s <= hi /\ e \in 0 .. SEQ - 1 /\ Pos(i, e) = s
    BY <2>1, SlotIs
  <2>3. a \in Nat /\ Half \in Nat
    BY PosIs, Sizes
  <2> HIDE DEF e, s, a
  <2>4. a - s < Half /\ s - a <= Half
    BY <2>2, <2>3 DEF a
  <2>5. SEQ_GEQ(x, e) <=> a >= s
    BY <2>2, <2>4, GeqPos DEF a
  <2> QED
    BY <2>2, <2>3, <2>5 DEF e, s, a
<1> HIDE DEF n, l
<1>4. ASSUME NEW k \in 1 .. n PROVE Stop(i, q[k]) <= Pos(i, x)
  <2>1. k \in S
    BY <1>2
  <2> QED
    BY <1>3, <2>1
<1>5. ASSUME n < l PROVE Stop(i, q[n + 1]) > Pos(i, x)
  <2>1. n + 1 \in 1 .. l
    BY <1>1, <1>2, <1>5
  <2>2. ~(Stop(i, q[n + 1]) <= Pos(i, x))
    BY <1>2, <1>3, <2>1
  <2>3. Slot(i, q[n + 1], lo, hi)
    BY <2>1 DEF Queued, l
  <2>4. Stop(i, q[n + 1]) \in Nat /\ Pos(i, x) \in Nat
    <3>1. Stop(i, q[n + 1]) \in Nat
      BY <2>3, SlotIs
    <3>2. Pos(i, x) \in 0 .. SEQ - 1 /\ SEQ \in Nat
      BY PosIs, Sizes
    <3> QED
      BY <3>1, <3>2
  <2> QED
    BY <2>2, <2>4
<1> QED
  BY <1>2, <1>4, <1>5 DEF n, l

\* A FIN among the first n segments is that of the last of all.
LEMMA FrontFin ==
    ASSUME NEW i \in 0 .. SEQ - 1, NEW lo \in Nat, NEW hi \in Nat, NEW q,
           Queued(i, q, lo, hi), NEW n \in 0 .. Len(q)
    PROVE  /\ HasFin(SubSeq(q, 1, n)) \in BOOLEAN
           /\ HasFin(SubSeq(q, 1, n)) => /\ n = Len(q) /\ n > 0 /\ q[n].fin
                                         /\ Stop(i, q[n]) = StreamLen
                                         /\ StreamLen + 1 <= hi
<1>1. HasFin(SubSeq(q, 1, n)) \in BOOLEAN
  BY DEF HasFin
<1> SUFFICES ASSUME HasFin(SubSeq(q, 1, n))
             PROVE  /\ n = Len(q) /\ n > 0 /\ q[n].fin
                    /\ Stop(i, q[n]) = StreamLen /\ StreamLen + 1 <= hi
  BY <1>1
<1> DEFINE f == SubSeq(q, 1, n)
           l == Len(q)
<1>2. q \in Seq(Segment) /\ \A k \in 1 .. l : Slot(i, q[k], lo, hi) /\ (q[k].fin => k = l)
  BY DEF Queued
<1>3. l \in Nat
  BY <1>2
<1>4. f \in Seq(Segment) /\ Len(f) = n /\ \A k \in 1 .. n : f[k] = q[k]
  BY <1>2, Split
<1> HIDE DEF f
<1>5. PICK k \in DOMAIN f : f[k].fin
  BY DEF HasFin, f
<1>6. k \in 1 .. n
  BY <1>4, <1>5
<1> HIDE DEF l
<1>7. k \in 1 .. l /\ n \in 0 .. l
  BY <1>3, <1>6 DEF l
<1>8. k = l /\ q[k].fin /\ Slot(i, q[k], lo, hi)
  BY <1>2, <1>4, <1>5, <1>6, <1>7
<1>9. n = l /\ n > 0 /\ k = n
  BY <1>3, <1>6, <1>7, <1>8
<1>10. Stop(i, q[n]) = StreamLen
  BY <1>8, <1>9 DEF Slot, Piece, Stop
<1>11. StreamLen + 1 <= hi
  <2>1. q[n] \in Segment /\ Pos(i, q[n].seqno) + TCP_TCPLEN(q[n]) <= hi /\ q[n].fin
    BY <1>8, <1>9 DEF Slot, Piece
  <2> DEFINE a == Pos(i, q[n].seqno)
             e == q[n].len
             t == TCP_TCPLEN(q[n])
  <2>2. a \in Nat /\ e \in Nat /\ t = e + 1
    BY <2>1, SegmentIs
  <2>3. a + e = StreamLen /\ a + t <= hi
    BY <1>10, <2>1 DEF Stop
  <2> HIDE DEF a, e, t
  <2> QED
    BY <2>2, <2>3
<1> QED
  BY <1>8, <1>9, <1>10, <1>11 DEF l

\* The FIN of a covered segment is taken over.
LEMMA WithFin ==
    ASSUME NEW i \in 0 .. SEQ - 1, NEW lo \in Nat, NEW hi \in Nat, NEW seg,
           Slot(i, seg, lo, hi), ~seg.fin, NEW fin \in BOOLEAN,
           fin => Stop(i, seg) = StreamLen /\ StreamLen + 1 <= hi
    PROVE  LET w == [seg EXCEPT !.fin = fin]
           IN  /\ Slot(i, w, lo, hi) /\ w.seqno = seg.seqno /\ w.len = seg.len /\ w.fin = fin
               /\ Stop(i, w) = Stop(i, seg) /\ TCP_TCPLEN(seg) = seg.len
               /\ TCP_TCPLEN(w) = seg.len + IF fin THEN 1 ELSE 0
<1> DEFINE w == [seg EXCEPT !.fin = fin]
           a == Pos(i, seg.seqno)
           e == seg.len
<1>1. /\ seg \in Segment /\ Piece(i, seg) /\ lo <= a /\ a + TCP_TCPLEN(seg) <= hi
  BY DEF Slot, Piece
<1>2. /\ w \in Segment /\ w.seqno = seg.seqno /\ w.len = e /\ w.fin = fin /\ w.p = seg.p
  BY <1>1 DEF Segment
<1>3. e \in Nat /\ a \in Nat /\ TCP_TCPLEN(seg) = e
  BY <1>1, SegmentIs
<1> HIDE DEF w, a, e
<1>4. TCP_TCPLEN(w) = e + IF fin THEN 1 ELSE 0
  BY <1>2 DEF TCP_TCPLEN
<1>5. Stop(i, seg) = a + e /\ Stop(i, w) = a + e
  BY <1>2 DEF Stop, a, e
<1>6. a + TCP_TCPLEN(w) <= hi
  <2>1. CASE fin
    BY <1>3, <1>4, <1>5, <2>1, Sizes
  <2>2. CASE ~fin
    BY <1>1, <1>3, <1>4, <2>2
  <2> QED
    BY <2>1, <2>2
<1>7. fin => a + e = StreamLen
  BY <1>5
<1>8. Piece(i, w)
  BY <1>1, <1>2, <1>7 DEF Piece, a, e
<1> QED
  BY <1>1, <1>2, <1>3, <1>4, <1>5, <1>6, <1>8 DEF Slot, w, a, e

\* What is left of a queue behind a new segment, and of the new segment.
Rest(seg, q) == SubSeq(q, Covered(End(seg), q) + 1, Len(q))
Whole(seg, q) == [seg EXCEPT !.fin = HasFin(SubSeq(q, 1, Covered(End(seg), q)))]
Fitted(seg, q) ==
    IF Rest(seg, q) # <<>> /\ SEQ_GT(End(seg), Head(Rest(seg, q)).seqno)
      THEN CutTo(Whole(seg, q), Sub(Head(Rest(seg, q)).seqno, seg.seqno)) ELSE Whole(seg, q)

Fits(i, seg, q, lo, hi) ==
    /\ Slot(i, Fitted(seg, q), lo, hi) /\ Fitted(seg, q).seqno = seg.seqno
    /\ Queued(i, Rest(seg, q), lo, hi)
    /\ \A k \in 1 .. Len(Rest(seg, q)) :
          Pos(i, seg.seqno) + TCP_TCPLEN(Fitted(seg, q)) <= Pos(i, Rest(seg, q)[k].seqno)
    /\ Fitted(seg, q).fin \in BOOLEAN /\ (Fitted(seg, q).fin => Rest(seg, q) = <<>>)
    /\ Rest(seg, q) # <<>> => TCP_TCPLEN(Whole(seg, q)) = seg.len

LEMMA FittedFits ==
    ASSUME NEW i \in 0 .. SEQ - 1, NEW lo \in Nat, NEW hi \in Nat, hi < Half, NEW q,
           Queued(i, q, lo, hi), NEW seg, Slot(i, seg, lo, hi), ~seg.fin,
           Stop(i, seg) <= StreamLen,
           \A k \in 1 .. Len(q) : Pos(i, seg.seqno) <= Pos(i, q[k].seqno)
    PROVE  Fits(i, seg, q, lo, hi)
<1> DEFINE n == Covered(End(seg), q)
           r == Rest(seg, q)
           w == Whole(seg, q)
           f == Fitted(seg, q)
           a == Pos(i, seg.seqno)
           s == Stop(i, seg)
           l == Len(q)
<1>1. /\ s \in Nat /\ s <= hi /\ End(seg) \in 0 .. SEQ - 1 /\ Pos(i, End(seg)) = s
  BY SlotIs
<1>2. Half \in Nat /\ s < Half /\ StreamLen \in Nat
  BY <1>1, Sizes
<1>3. /\ n \in 0 .. l /\ (\A k \in 1 .. n : Stop(i, q[k]) <= s)
      /\ n < l => Stop(i, q[n + 1]) > s
  <2>1. Pos(i, End(seg)) < Half
    BY <1>1, <1>2
  <2> QED
    BY <1>1, <2>1, CoveredIs
<1>4. /\ q \in Seq(Segment) /\ l \in Nat
      /\ \A k \in 1 .. l : Slot(i, q[k], lo, hi)
      /\ \A j, k \in 1 .. l : j < k => Stop(i, q[j]) <= Pos(i, q[k].seqno)
  BY DEF Queued
<1>5. /\ r \in Seq(Segment) /\ Len(r) = l - n /\ (\A k \in 1 .. l - n : r[k] = q[n + k])
      /\ Queued(i, r, lo, hi)
  BY <1>3, <1>4, Split, QueuedSplit DEF Rest
<1>6. /\ Slot(i, w, lo, hi) /\ w.seqno = seg.seqno /\ w.len = seg.len /\ w.fin \in BOOLEAN
      /\ (w.fin => n = l) /\ TCP_TCPLEN(w) = seg.len + IF w.fin THEN 1 ELSE 0
  <2> DEFINE fin == HasFin(SubSeq(q, 1, n))
  <2>1. /\ fin \in BOOLEAN
        /\ fin => n = l /\ n > 0 /\ Stop(i, q[n]) = StreamLen /\ StreamLen + 1 <= hi
    BY <1>3, FrontFin
  <2>2. w = [seg EXCEPT !.fin = fin]
    BY DEF Whole
  <2> HIDE DEF fin, w
  <2>3. fin => s = StreamLen /\ StreamLen + 1 <= hi
    <3>1. fin => StreamLen <= s
      <4>1. fin => n \in 1 .. n
        BY <1>3, <2>1
      <4> QED
        BY <1>3, <2>1, <4>1
    <3> QED
      BY <1>1, <1>2, <2>1, <3>1
  <2>4. /\ Slot(i, w, lo, hi) /\ w.seqno = seg.seqno /\ w.len = seg.len /\ w.fin = fin
        /\ TCP_TCPLEN(w) = seg.len + IF fin THEN 1 ELSE 0
    BY <2>1, <2>2, <2>3, WithFin
  <2> QED
    BY <2>1, <2>4
<1>7. seg \in Segment /\ seg.len \in Nat /\ a \in Nat /\ s = a + seg.len
  <2>1. seg \in Segment
    BY DEF Slot, Piece
  <2> QED
    BY <2>1, SegmentIs DEF Stop
<1>8. CASE r = <<>>
  <2>1. f = w
    BY <1>8 DEF Fitted
  <2> QED
    BY <1>5, <1>6, <1>8, <2>1 DEF Fits
<1>9. CASE r # <<>>
  <2> DEFINE h == q[n + 1].seqno
             b == Pos(i, h)
  <2>1. n < l /\ n + 1 \in 1 .. l
    BY <1>3, <1>4, <1>5, <1>9
  <2>2. Head(r) = q[n + 1]
    BY <1>4, <1>5, <1>9, <2>1
  <2>3. /\ Slot(i, q[n + 1], lo, hi) /\ h \in 0 .. SEQ - 1 /\ b \in Nat
        /\ b <= Stop(i, q[n + 1]) /\ Stop(i, q[n + 1]) <= hi /\ b <= hi
    <3>1. Slot(i, q[n + 1], lo, hi) /\ q[n + 1] \in Segment
      BY <1>4, <2>1 DEF Slot, Piece
    <3>2. h \in 0 .. SEQ - 1 /\ b \in Nat /\ q[n + 1].len \in Nat
      BY <3>1, SegmentIs
    <3>3. Stop(i, q[n + 1]) \in Nat /\ Stop(i, q[n + 1]) <= hi
      BY <3>1, SlotIs
    <3>4. Stop(i, q[n + 1]) = b + q[n + 1].len
      BY DEF Stop
    <3> HIDE DEF h, b
    <3> QED
      BY <3>1, <3>2, <3>3, <3>4
  <2>4. a <= b
    BY <2>1
  <2>5. SEQ_GT(End(seg), h) <=> s > b
    <3>1. Pos(i, End(seg)) - b < Half /\ b - Pos(i, End(seg)) <= Half
      <4> HIDE DEF b, s
      <4> QED
        BY <1>1, <1>2, <2>3
    <3> QED
      BY <1>1, <2>3, <3>1, GeqPos
  <2>6. ~w.fin
    BY <1>3, <1>6, <2>1
  <2>7. \A k \in 1 .. Len(r) : b <= Pos(i, r[k].seqno)
    <3> SUFFICES ASSUME NEW k \in 1 .. Len(r) PROVE b <= Pos(i, r[k].seqno)
      OBVIOUS
    <3>1. n + k \in 1 .. l /\ r[k] = q[n + k] /\ (k = 1 \/ n + 1 < n + k)
      BY <1>3, <1>4, <1>5
    <3>2. CASE k = 1
      BY <2>3, <3>1, <3>2
    <3>3. CASE n + 1 < n + k
      <4>1. Stop(i, q[n + 1]) <= Pos(i, r[k].seqno)
        BY <1>4, <2>1, <3>1, <3>3
      <4>2. r[k] \in Segment
        BY <1>5
      <4>3. Pos(i, r[k].seqno) \in Nat
        BY <4>2, SegmentIs
      <4>4. Stop(i, q[n + 1]) \in Nat
        BY <2>3, SlotIs
      <4> HIDE DEF b
      <4> QED
        BY <2>3, <4>1, <4>3, <4>4
    <3> QED
      BY <3>1, <3>2, <3>3
  <2>8. TCP_TCPLEN(w) = seg.len
    BY <1>6, <1>7, <2>6
  <2> HIDE DEF n, l, w, f, a, b, s, r, h
  <2>9. /\ Slot(i, f, lo, hi) /\ f.seqno = seg.seqno /\ ~f.fin /\ a + TCP_TCPLEN(f) <= b
    <3>1. CASE s > b
      <4>1. f = CutTo(w, Sub(h, seg.seqno))
        BY <1>9, <2>2, <2>5, <3>1 DEF Fitted, f, r, w, h
      <4>2. Sub(h, seg.seqno) = b - a
        <5>1. seg.seqno \in 0 .. SEQ - 1
          BY <1>7, SegmentIs
        <5>2. Sub(h, seg.seqno) = IF b >= a THEN b - a ELSE b - a + SEQ
          BY <2>3, <5>1, SubPos DEF b, a
        <5> QED
          BY <1>7, <2>3, <2>4, <5>2
      <4>3. b - a \in Nat /\ b - a <= w.len
        BY <1>6, <1>7, <2>3, <2>4, <3>1
      <4>4. /\ Slot(i, f, lo, hi) /\ f.seqno = seg.seqno /\ ~f.fin /\ TCP_TCPLEN(f) = b - a
        BY <1>6, <2>6, <4>1, <4>2, <4>3, CutToIs
      <4>5. a + (b - a) <= b
        BY <1>7, <2>3
      <4> QED
        BY <4>4, <4>5
    <3>2. CASE ~(s > b)
      <4>1. f = w
        BY <2>2, <2>5, <3>2 DEF Fitted, f, r, w, h
      <4>2. a + seg.len <= b
        BY <1>7, <2>3, <3>2
      <4> QED
        BY <1>6, <2>6, <2>8, <4>1, <4>2
    <3> QED
      BY <3>1, <3>2
  <2>10. \A k \in 1 .. Len(r) : a + TCP_TCPLEN(f) <= Pos(i, r[k].seqno)
    <3> SUFFICES ASSUME NEW k \in 1 .. Len(r)
                 PROVE  a + TCP_TCPLEN(f) <= Pos(i, r[k].seqno)
      OBVIOUS
    <3>1. r[k] \in Segment /\ f \in Segment
      BY <1>5, <2>9 DEF Slot, Piece
    <3>2. Pos(i, r[k].seqno) \in Nat /\ TCP_TCPLEN(f) \in Nat
      BY <3>1, SegmentIs
    <3> QED
      BY <1>7, <2>3, <2>7, <2>9, <3>2
  <2>11. f.fin \in BOOLEAN
    <3>1. f \in Segment
      BY <2>9 DEF Slot, Piece
    <3> QED
      BY <3>1, SegmentIs
  <2> QED
    BY <1>5, <2>8, <2>9, <2>10, <2>11 DEF Fits, r, f, a, w
<1> QED
  BY <1>8, <1>9

\* tcp_oos_insert_segment: the queue stays in order.
LEMMA InsertIs ==
    ASSUME NEW i \in 0 .. SEQ - 1, NEW lo \in Nat, NEW hi \in Nat, hi < Half, NEW q,
           Queued(i, q, lo, hi), NEW seg, Slot(i, seg, lo, hi), Stop(i, seg) <= StreamLen,
           \A k \in 1 .. Len(q) : Pos(i, seg.seqno) <= Pos(i, q[k].seqno)
    PROVE  LET o == tcp_oos_insert_segment(seg, q)
           IN  /\ Queued(i, o, lo, hi)
               /\ \A k \in 1 .. Len(o) : Pos(i, seg.seqno) <= Pos(i, o[k].seqno)
<1> DEFINE o == tcp_oos_insert_segment(seg, q)
           a == Pos(i, seg.seqno)
<1>0. seg \in Segment /\ seg.fin \in BOOLEAN /\ a \in Nat
  <2>1. seg \in Segment
    BY DEF Slot, Piece
  <2> QED
    BY <2>1, SegmentIs
<1>1. CASE seg.fin
  <2>1. o = <<seg>>
    BY <1>1 DEF tcp_oos_insert_segment
  <2>2. Queued(i, <<seg>>, lo, hi) /\ Len(<<seg>>) = 1 /\ <<seg>>[1] = seg
    BY QueuedOne
  <2> DEFINE b == <<seg>>
  <2> HIDE DEF b, a, o
  <2>3. Queued(i, b, lo, hi) /\ Len(b) = 1 /\ b[1] = seg /\ o = b
    BY <2>1, <2>2 DEF b
  <2>4. \A k \in 1 .. Len(o) : a <= Pos(i, o[k].seqno)
    <3> SUFFICES ASSUME NEW k \in 1 .. Len(o) PROVE a <= Pos(i, o[k].seqno)
      OBVIOUS
    <3>1. o[k] = seg
      <4>1. Len(o) = 1 /\ o[1] = seg
        BY <2>3
      <4>2. k = 1
        BY <4>1
      <4> QED
        BY <4>1, <4>2
    <3>2. Pos(i, o[k].seqno) = a
      BY <3>1 DEF a
    <3> QED
      BY <1>0, <3>2
  <2> QED
    BY <2>3, <2>4 DEF o, a
<1>2. CASE ~seg.fin
  <2> DEFINE f == Fitted(seg, q)
             r == Rest(seg, q)
             b == <<f>>
  <2>1. o = b \o r
    BY <1>2 DEF tcp_oos_insert_segment, Fitted, Rest, Whole
  <2>2. Fits(i, seg, q, lo, hi)
    BY <1>2, FittedFits
  <2>3. /\ Slot(i, f, lo, hi) /\ f.seqno = seg.seqno /\ Queued(i, r, lo, hi)
        /\ \A k \in 1 .. Len(r) : a + TCP_TCPLEN(f) <= Pos(i, r[k].seqno)
        /\ f.fin \in BOOLEAN /\ (f.fin => r = <<>>)
    BY <2>2 DEF Fits
  <2> HIDE DEF f, r
  <2>4. Queued(i, b, lo, hi) /\ Len(b) = 1 /\ b[1] = f
    BY <2>3, QueuedOne
  <2> HIDE DEF b
  <2>5. f.len \in Nat /\ TCP_TCPLEN(f) = (IF f.fin THEN f.len + 1 ELSE f.len)
    <3>1. f \in Segment
      BY <2>3 DEF Slot, Piece
    <3> QED
      BY <3>1, SegmentIs
  <2>6. b \in Seq(Segment) /\ r \in Seq(Segment)
    BY <2>3, <2>4 DEF Queued
  <2>7. ASSUME NEW k \in 1 .. Len(r)
        PROVE  a + f.len <= Pos(i, r[k].seqno) /\ a <= Pos(i, r[k].seqno)
    <3>1. Pos(i, r[k].seqno) \in Nat
      <4>1. r[k] \in Segment
        BY <2>6
      <4> QED
        BY <4>1, SegmentIs
    <3>2. a + TCP_TCPLEN(f) <= Pos(i, r[k].seqno)
      BY <2>3
    <3> HIDE DEF a
    <3> QED
      BY <1>0, <2>5, <3>1, <3>2
  <2>8. Stop(i, f) = a + f.len
    BY <2>3 DEF Stop
  <2>9. Queued(i, b \o r, lo, hi)
    <3>1. CASE r = <<>>
      <4>1. b \o <<>> = b
        BY <2>6, ConcatEmptySeq
      <4> QED
        BY <2>4, <3>1, <4>1
    <3>2. CASE r # <<>>
      <4>1. \A k \in 1 .. Len(b) : ~b[k].fin
        BY <2>3, <2>4, <3>2
      <4>2. \A j \in 1 .. Len(b), k \in 1 .. Len(r) : Stop(i, b[j]) <= Pos(i, r[k].seqno)
        BY <2>4, <2>7, <2>8
      <4> QED
        BY <2>3, <2>4, <4>1, <4>2, QueuedCat
    <3> QED
      BY <3>1, <3>2
  <2>10. ASSUME NEW k \in 1 .. Len(b \o r) PROVE a <= Pos(i, (b \o r)[k].seqno)
    <3>0. /\ Len(b \o r) = Len(b) + Len(r)
          /\ \A j \in 1 .. Len(b) + Len(r) :
                (b \o r)[j] = IF j <= Len(b) THEN b[j] ELSE r[j - Len(b)]
      BY <2>6, Cat, Zenon
    <3>1. /\ Len(b \o r) = 1 + Len(r)
          /\ \A j \in 1 .. Len(b) + Len(r) :
                (b \o r)[j] = IF j <= Len(b) THEN b[j] ELSE r[j - Len(b)]
      BY <2>4, <3>0, Zenon
    <3>2. Len(r) \in Nat
      BY <2>6
    <3> DEFINE br == b \o r
    <3>3. k \in 1 .. 1 + Len(r)
      BY <3>1
    <3> HIDE DEF br
    <3>4. br[k] = IF k <= 1 THEN b[k] ELSE r[k - 1]
      BY <2>4, <3>1, <3>3 DEF br
    <3>5. CASE k = 1
      BY <1>0, <2>3, <2>4, <3>4, <3>5 DEF br
    <3>6. CASE k # 1
      <4>1. k - 1 \in 1 .. Len(r) /\ ~(k <= 1)
        BY <3>2, <3>3, <3>6
      <4> QED
        BY <2>7, <3>4, <4>1 DEF br
    <3> QED
      BY <3>5, <3>6
  <2> QED
    BY <2>1, <2>9, <2>10
<1> QED
  BY <1>0, <1>1, <1>2

\* What tcp_receive makes of a segment that begins at rcv_nxt, and of the queue.
Joined(i, m, a, hi) ==
    /\ Slot(i, m.seg, a, hi) /\ Pos(i, m.seg.seqno) = a
    /\ Queued(i, m.ooseq, a, hi)
    /\ \A k \in 1 .. Len(m.ooseq) : a + TCP_TCPLEN(m.seg) <= Pos(i, m.ooseq[k].seqno)
    /\ m.seg.fin \in BOOLEAN /\ (m.seg.fin => m.ooseq = <<>>)

LEMMA MergedIs ==
    ASSUME NEW i \in 0 .. SEQ - 1, NEW lo \in Nat, NEW hi \in Nat, hi < Half, NEW q,
           Queued(i, q, lo + 1, hi), NEW seg, Slot(i, seg, lo, hi),
           Stop(i, seg) <= StreamLen, Pos(i, seg.seqno) = lo
    PROVE  Joined(i, Merged(seg, q), lo, hi)
<1> DEFINE m == Merged(seg, q)
<1>0. seg \in Segment /\ seg.fin \in BOOLEAN
  <2>1. seg \in Segment
    BY DEF Slot, Piece
  <2> QED
    BY <2>1, SegmentIs
<1>1. Queued(i, q, lo, hi) /\ \A k \in 1 .. Len(q) : lo <= Pos(i, q[k].seqno)
  <2>1. \A k \in 1 .. Len(q) : lo <= Pos(i, q[k].seqno)
    <3> SUFFICES ASSUME NEW k \in 1 .. Len(q) PROVE lo <= Pos(i, q[k].seqno)
      OBVIOUS
    <3>1. q[k] \in Segment /\ lo + 1 <= Pos(i, q[k].seqno)
      BY DEF Queued, Slot
    <3>2. Pos(i, q[k].seqno) \in Nat
      BY <3>1, SegmentIs
    <3> QED
      BY <3>1, <3>2
  <2> QED
    BY <2>1, QueuedFrom
<1>2. CASE seg.fin
  <2>1. m.seg = seg /\ m.ooseq = <<>>
    BY <1>2 DEF Merged
  <2>2. Queued(i, <<>>, lo, hi)
    BY DEF Queued
  <2> HIDE DEF m
  <2>3. \A k \in 1 .. Len(m.ooseq) : lo + TCP_TCPLEN(m.seg) <= Pos(i, m.ooseq[k].seqno)
    BY <2>1
  <2>4. Joined(i, m, lo, hi)
    BY <1>0, <2>1, <2>2, <2>3 DEF Joined
  <2> QED
    BY <2>4 DEF m
<1>3. CASE ~seg.fin
  <2> DEFINE f == Fitted(seg, q)
             r == Rest(seg, q)
  <2>1. Fits(i, seg, q, lo, hi)
    BY <1>1, <1>3, FittedFits
  <2>2. m.seg = f /\ m.ooseq = r
    <3>1. m.ooseq = r
      BY <1>3 DEF Merged, Rest
    <3>2. r # <<>> => Add(seg.seqno, TCP_TCPLEN(Whole(seg, q))) = End(seg)
      BY <2>1 DEF Fits, End
    <3>3. m.seg = IF r # <<>> /\ SEQ_GT(Add(seg.seqno, TCP_TCPLEN(Whole(seg, q))),
                                        Head(r).seqno)
                  THEN CutTo(Whole(seg, q), Sub(Head(r).seqno, seg.seqno))
                  ELSE Whole(seg, q)
      BY <1>3 DEF Merged, Rest, Whole
    <3>4. f = IF r # <<>> /\ SEQ_GT(End(seg), Head(r).seqno)
              THEN CutTo(Whole(seg, q), Sub(Head(r).seqno, seg.seqno))
              ELSE Whole(seg, q)
      BY DEF Fitted
    <3> HIDE DEF m, r, f
    <3> QED
      BY <3>1, <3>2, <3>3, <3>4
  <2> HIDE DEF m
  <2>3. Joined(i, m, lo, hi)
    BY <2>1, <2>2 DEF Fits, Joined
  <2> QED
    BY <2>3 DEF m
<1> QED
  BY <1>0, <1>2, <1>3

LEMMA BeforeIs ==
    ASSUME NEW i \in 0 .. SEQ - 1, NEW lo \in Nat, NEW hi \in Nat, hi < Half, NEW q,
           Queued(i, q, lo, hi), NEW x \in 0 .. SEQ - 1, Pos(i, x) < Half
    PROVE  LET n == Before(q, x)
           IN  /\ n \in 0 .. Len(q)
               /\ \A k \in 1 .. n : Pos(i, q[k].seqno) < Pos(i, x)
               /\ \A k \in n + 1 .. Len(q) : Pos(i, x) <= Pos(i, q[k].seqno)
<1> DEFINE n == Before(q, x)
           l == Len(q)
           S == {k \in 1 .. l : SEQ_GT(x, q[k].seqno)}
           a == Pos(i, x)
<1>1. /\ l \in Nat /\ q \in Seq(Segment) /\ \A k \in 1 .. l : Slot(i, q[k], lo, hi)
      /\ \A j, k \in 1 .. l : j < k => Stop(i, q[j]) <= Pos(i, q[k].seqno)
  BY DEF Queued
<1>2. n \in 0 .. l /\ 1 .. n \subseteq S /\ n + 1 \notin S
  <2>1. S \in SUBSET (1 .. l)
    OBVIOUS
  <2>2. n = Leading(S, l)
    BY DEF Before
  <2> HIDE DEF S, n, l
  <2> QED
    BY <1>1, <2>1, <2>2, LeadingIs
<1>3. a \in Nat /\ Half \in Nat
  BY PosIs, Sizes
<1>4. ASSUME NEW k \in 1 .. l
      PROVE  /\ SEQ_GT(x, q[k].seqno) <=> Pos(i, q[k].seqno) < a
             /\ Pos(i, q[k].seqno) \in Nat /\ Pos(i, q[k].seqno) <= Stop(i, q[k])
             /\ Stop(i, q[k]) \in Nat
  <2> DEFINE y == q[k].seqno
             b == Pos(i, y)
             e == q[k].len
  <2>1. Slot(i, q[k], lo, hi) /\ q[k] \in Segment
    BY <1>1
  <2>2. y \in 0 .. SEQ - 1 /\ b \in Nat /\ e \in Nat
    BY <2>1, SegmentIs
  <2>3. Stop(i, q[k]) <= hi /\ Stop(i, q[k]) = b + e
    BY <2>1, SlotIs DEF Stop
  <2>4. a < Half
    OBVIOUS
  <2> HIDE DEF a, b, e
  <2>5. b <= hi /\ b <= b + e /\ a - b < Half /\ b - a <= Half /\ b + e \in Nat
    BY <1>3, <2>2, <2>3, <2>4
  <2>6. SEQ_GT(x, y) <=> a > b
    BY <2>2, <2>5, GeqPos DEF a, b
  <2> QED
    BY <1>3, <2>2, <2>3, <2>5, <2>6 DEF b
<1> HIDE DEF n, l, a
<1>5. ASSUME NEW k \in 1 .. n PROVE Pos(i, q[k].seqno) < a
  <2>1. k \in S
    BY <1>2
  <2> QED
    BY <1>4, <2>1
<1>6. ASSUME NEW k \in n + 1 .. l PROVE a <= Pos(i, q[k].seqno)
  <2>1. n + 1 \in 1 .. l /\ k \in 1 .. l /\ (k = n + 1 \/ n + 1 < k)
    BY <1>1, <1>2
  <2>2. ~(Pos(i, q[n + 1].seqno) < a) /\ Pos(i, q[n + 1].seqno) \in Nat
    BY <1>2, <1>4, <2>1
  <2>3. a <= Pos(i, q[n + 1].seqno)
    BY <1>3, <2>2
  <2>4. CASE n + 1 < k
    <3>1. Stop(i, q[n + 1]) <= Pos(i, q[k].seqno)
      BY <1>1, <2>1, <2>4
    <3>2. /\ Pos(i, q[n + 1].seqno) <= Stop(i, q[n + 1]) /\ Stop(i, q[n + 1]) \in Nat
          /\ Pos(i, q[k].seqno) \in Nat
      BY <1>4, <2>1
    <3> QED
      BY <1>3, <2>2, <2>3, <3>1, <3>2
  <2> QED
    BY <2>1, <2>3, <2>4
<1> QED
  BY <1>2, <1>5, <1>6 DEF n, l, a

LEMMA CutBeforeIs ==
    ASSUME NEW i \in 0 .. SEQ - 1, NEW lo \in Nat, NEW hi \in Nat, hi < Half, NEW old,
           Slot(i, old, lo, hi), ~old.fin, NEW x \in 0 .. SEQ - 1, Pos(i, x) < Half,
           Pos(i, old.seqno) <= Pos(i, x)
    PROVE  LET c == CutBefore(old, x)
           IN  /\ Slot(i, c, lo, hi) /\ c.seqno = old.seqno /\ ~c.fin
               /\ Stop(i, c) <= Pos(i, x)
<1> DEFINE c == CutBefore(old, x)
           a == Pos(i, x)
           b == Pos(i, old.seqno)
           s == Stop(i, old)
<1>1. /\ s \in Nat /\ s <= hi /\ End(old) \in 0 .. SEQ - 1 /\ Pos(i, End(old)) = s
  BY SlotIs
<1>2. old \in Segment
  BY DEF Slot, Piece
<1>3. old.seqno \in 0 .. SEQ - 1 /\ b \in Nat /\ old.len \in Nat
  BY <1>2, SegmentIs
<1>4. a \in Nat /\ Half \in Nat
  BY PosIs, Sizes
<1>5. a < Half /\ b <= a /\ s = b + old.len
  BY DEF Stop
<1> HIDE DEF a, b, s
<1>6. SEQ_GT(End(old), x) <=> s > a
  <2>1. s - a < Half /\ a - s <= Half
    BY <1>1, <1>4, <1>5
  <2> QED
    BY <1>1, <2>1, GeqPos DEF a
<1>7. Sub(x, old.seqno) = a - b
  <2>1. Sub(x, old.seqno) = IF a >= b THEN a - b ELSE a - b + SEQ
    BY <1>3, SubPos DEF a, b
  <2> QED
    BY <1>3, <1>4, <1>5, <2>1
<1>8. CASE s > a
  <2>1. c = CutTo(old, a - b)
    BY <1>6, <1>7, <1>8 DEF CutBefore
  <2>2. a - b \in Nat /\ a - b <= old.len /\ b + (a - b) = a
    BY <1>3, <1>4, <1>5, <1>8
  <2>3. Slot(i, c, lo, hi) /\ c.seqno = old.seqno /\ ~c.fin /\ Stop(i, c) = b + (a - b)
    BY <2>1, <2>2, CutToIs DEF b
  <2> HIDE DEF c
  <2> QED
    BY <1>4, <2>2, <2>3 DEF c, a
<1>9. CASE ~(s > a)
  <2>1. c = old
    BY <1>6, <1>9 DEF CutBefore
  <2>2. s <= a
    BY <1>1, <1>4, <1>9
  <2> QED
    BY <2>1, <2>2 DEF s, a
<1> QED
  BY <1>8, <1>9

\* A queue that begins before x is made to end there.
LEMMA CutLastIs ==
    ASSUME NEW i \in 0 .. SEQ - 1, NEW lo \in Nat, NEW hi \in Nat, hi < Half, NEW q,
           Queued(i, q, lo, hi), NEW x \in 0 .. SEQ - 1, Pos(i, x) < Half,
           \A k \in 1 .. Len(q) : ~q[k].fin /\ Pos(i, q[k].seqno) < Pos(i, x)
    PROVE  LET c == CutLast(q, x)
           IN  /\ Queued(i, c, lo, hi)
               /\ \A k \in 1 .. Len(c) : ~c[k].fin /\ Stop(i, c[k]) <= Pos(i, x)
<1> DEFINE c == CutLast(q, x)
           a == Pos(i, x)
           l == Len(q)
<1>1. /\ q \in Seq(Segment) /\ l \in Nat /\ \A k \in 1 .. l : Slot(i, q[k], lo, hi)
      /\ \A j, k \in 1 .. l : j < k => Stop(i, q[j]) <= Pos(i, q[k].seqno)
  BY DEF Queued
<1>2. CASE q = <<>>
  BY <1>2 DEF CutLast
<1>3. CASE q # <<>>
  <2> DEFINE f == SubSeq(q, 1, l - 1)
             e == CutBefore(q[l], x)
             b == <<e>>
  <2>1. l \in 1 .. l /\ l - 1 \in 0 .. l
    BY <1>1, <1>3
  <2>2. f \in Seq(Segment) /\ Len(f) = l - 1 /\ \A k \in 1 .. l - 1 : f[k] = q[k]
    BY <1>1, <2>1, Split
  <2>3. Queued(i, f, lo, hi)
    BY <2>1, QueuedSplit
  <2>4. a \in Nat
    BY PosIs, Sizes
  <2>5. Pos(i, q[l].seqno) \in Nat /\ Pos(i, q[l].seqno) < a
    <3>1. q[l] \in Segment
      BY <1>1, <2>1
    <3> QED
      BY <2>1, <3>1, SegmentIs
  <2>6. Slot(i, e, lo, hi) /\ e.seqno = q[l].seqno /\ ~e.fin /\ Stop(i, e) <= a
    <3>1. Pos(i, q[l].seqno) <= Pos(i, x)
      BY <2>4, <2>5
    <3> QED
      BY <1>1, <2>1, <3>1, CutBeforeIs
  <2> HIDE DEF e
  <2>7. Queued(i, b, lo, hi) /\ Len(b) = 1 /\ b[1] = e
    BY <2>6, QueuedOne
  <2>8. c = f \o b
    <3>1. c = Append(f, e)
      BY <1>3 DEF CutLast, Front, Last, e
    <3>2. e \in Segment
      BY <2>6 DEF Slot, Piece
    <3> QED
      BY <2>2, <3>1, <3>2, AppendIsConcat
  <2> HIDE DEF f, b, l, c, a
  <2>9. ASSUME NEW k \in 1 .. Len(f)
        PROVE  ~f[k].fin /\ Stop(i, f[k]) <= Pos(i, e.seqno) /\ Stop(i, f[k]) <= a
    <3>1. k \in 1 .. l - 1 /\ k \in 1 .. l /\ k < l
      BY <1>1, <2>1, <2>2
    <3>2. f[k] = q[k] /\ ~q[k].fin
      BY <2>2, <3>1 DEF l
    <3>3. Stop(i, f[k]) <= Pos(i, e.seqno)
      BY <1>1, <2>1, <2>6, <3>1, <3>2
    <3>4. Stop(i, f[k]) \in Nat
      BY <1>1, <3>1, <3>2, SlotIs
    <3> QED
      BY <2>4, <2>5, <2>6, <3>2, <3>3, <3>4
  <2>10. Queued(i, f \o b, lo, hi)
    <3>1. \A k \in 1 .. Len(f) : ~f[k].fin
      BY <2>9
    <3>2. \A j \in 1 .. Len(f), k \in 1 .. Len(b) : Stop(i, f[j]) <= Pos(i, b[k].seqno)
      BY <2>7, <2>9
    <3> QED
      BY <2>3, <2>7, <3>1, <3>2, QueuedCat
  <2>11. ASSUME NEW k \in 1 .. Len(c) PROVE ~c[k].fin /\ Stop(i, c[k]) <= a
    <3>1. /\ Len(c) = Len(f) + 1
          /\ \A j \in 1 .. Len(f) + 1 : c[j] = IF j <= Len(f) THEN f[j] ELSE b[j - Len(f)]
      <4>1. b \in Seq(Segment)
        BY <2>7 DEF Queued
      <4>2. /\ Len(f \o b) = Len(f) + Len(b)
            /\ \A j \in 1 .. Len(f) + Len(b) :
                 (f \o b)[j] = IF j <= Len(f) THEN f[j] ELSE b[j - Len(f)]
        BY <2>2, <4>1, Cat
      <4> QED
        BY <2>7, <2>8, <4>2
    <3>2. Len(f) \in Nat /\ k \in 1 .. Len(f) + 1
      BY <2>2, <3>1
    <3>3. CASE k <= Len(f)
      <4>1. k \in 1 .. Len(f) /\ c[k] = f[k]
        BY <3>1, <3>2, <3>3
      <4> QED
        BY <2>9, <4>1
    <3>4. CASE ~(k <= Len(f))
      <4>1. k - Len(f) = 1
        BY <3>2, <3>4
      <4>2. c[k] = e
        BY <2>7, <3>1, <3>2, <3>4, <4>1
      <4> QED
        BY <2>6, <4>2
    <3> QED
      BY <3>3, <3>4
  <2> QED
    BY <2>8, <2>10, <2>11 DEF c, a
<1> QED
  BY <1>2, <1>3

\* The last segment, when the window check went wrong because a sum went round.
LEMMA OverrunIs ==
    ASSUME NEW i \in 0 .. SEQ - 1, NEW lo \in Nat, NEW hi \in Nat, hi < Half, NEW seg,
           Slot(i, seg, lo, hi), ~Room(i), NEW n \in Nat, n >= seg.len,
           Pos(i, seg.seqno) + n <= hi
    PROVE  LET c == [CutTo(seg, n) EXCEPT !.fin = FALSE]
           IN  Slot(i, c, lo, hi) /\ c.seqno = seg.seqno
<1> DEFINE d == CutTo(seg, n)
           c == [d EXCEPT !.fin = FALSE]
           a == Pos(i, seg.seqno)
<1>1. /\ seg \in Segment /\ Len(seg.p) <= seg.len /\ lo <= a
      /\ \A k \in 1 .. Len(seg.p) : seg.p[k] = a + k - 1
      /\ Len(seg.p) > 0 => a + Len(seg.p) <= StreamLen
  BY DEF Slot, Piece
<1>2. /\ d \in Segment /\ d.seqno = seg.seqno /\ d.len = n
      /\ Len(d.p) = IF n < Len(seg.p) THEN n ELSE Len(seg.p)
      /\ \A k \in 1 .. Len(d.p) : d.p[k] = seg.p[k]
  BY <1>1, CutFields
<1>3. seg.len \in Nat /\ Len(seg.p) \in Nat /\ a \in Nat
  BY <1>1, SegmentIs
<1> HIDE DEF d
<1>4. c \in Segment /\ c.seqno = seg.seqno /\ c.len = n /\ ~c.fin /\ c.p = d.p
  BY <1>2 DEF Segment
<1> HIDE DEF c
<1>5. Len(c.p) = Len(seg.p) /\ Len(c.p) <= n
  BY <1>1, <1>2, <1>3, <1>4
<1>6. \A k \in 1 .. Len(c.p) : c.p[k] = a + k - 1
  BY <1>1, <1>2, <1>4, <1>5
<1>7. TCP_TCPLEN(c) = n
  BY <1>4, SegmentIs
<1>8. Piece(i, c)
  BY <1>1, <1>4, <1>5, <1>6 DEF Piece
<1> QED
  BY <1>1, <1>4, <1>7, <1>8 DEF Slot, c, d

LEMMA AppendOoseqIs ==
    ASSUME NEW i \in 0 .. SEQ - 1, NEW lo \in Nat, NEW hi \in Nat,
           hi <= TCP_WND + StreamLen, NEW c,
           Queued(i, c.ooseq, lo, hi), c.ooseq # <<>>,
           c.rcv_nxt \in 0 .. SEQ - 1, c.rcv_wnd \in Nat, hi = Pos(i, c.rcv_nxt) + c.rcv_wnd,
           NEW seg, Slot(i, seg, lo, hi),
           \A k \in 1 .. Len(c.ooseq) : Pos(i, c.ooseq[k].seqno) < Pos(i, seg.seqno)
    PROVE  Queued(i, Append_Ooseq(c, seg), lo, hi)
<1> DEFINE q == c.ooseq
           l == Len(q)
           edge == Add(c.rcv_nxt, c.rcv_wnd)
           a == Pos(i, seg.seqno)
           t == TCP_TCPLEN(seg)
           fits == IF Add(t, seg.seqno) > edge
                   THEN [CutTo(seg, Sub(edge, seg.seqno)) EXCEPT !.fin = FALSE]
                   ELSE seg
           r == CutLast(q, seg.seqno)
           b == <<fits>>
<1>1. /\ Half \in Nat /\ 2 * Half = SEQ /\ hi < Half /\ TCP_WND \in Nat /\ StreamLen \in Nat
  BY Sizes
<1>2. /\ q \in Seq(Segment) /\ l \in Nat
      /\ \A k \in 1 .. l : Slot(i, q[k], lo, hi) /\ (q[k].fin => k = l)
  BY DEF Queued
<1>3. CASE q[l].fin
  <2>1. Append_Ooseq(c, seg) = q
    BY <1>3 DEF Append_Ooseq, Last
  <2> QED
    BY <2>1
<1>4. CASE ~q[l].fin
  <2>1. Append_Ooseq(c, seg) = r \o b
    BY <1>4 DEF Append_Ooseq, Last
  <2>2. /\ seg \in Segment /\ lo <= a /\ a + t <= hi
    BY DEF Slot, Piece
  <2>3. /\ seg.seqno \in 0 .. SEQ - 1 /\ a \in Nat /\ t \in Nat /\ seg.len \in Nat
        /\ t >= seg.len
    <3>1. /\ seg.seqno \in 0 .. SEQ - 1 /\ a \in Nat /\ t \in Nat /\ seg.len \in Nat
          /\ t = IF seg.fin THEN seg.len + 1 ELSE seg.len
      BY <2>2, SegmentIs
    <3> HIDE DEF t, a
    <3> QED
      BY <3>1
  <2>4. a < Half
    <3> HIDE DEF a, t
    <3> QED
      BY <1>1, <2>2, <2>3
  <2>5. /\ Queued(i, r, lo, hi)
        /\ \A k \in 1 .. Len(r) : ~r[k].fin /\ Stop(i, r[k]) <= a
    <3>1. \A k \in 1 .. Len(q) : ~q[k].fin /\ Pos(i, q[k].seqno) < Pos(i, seg.seqno)
      BY <1>2, <1>4
    <3> QED
      BY <1>1, <2>3, <2>4, <3>1, CutLastIs
  <2>6. edge \in 0 .. SEQ - 1 /\ Pos(i, edge) = hi
    <3>1. Pos(i, c.rcv_nxt) + c.rcv_wnd < SEQ
      BY <1>1
    <3> QED
      BY <3>1, AddPos
  <2>7. Slot(i, fits, lo, hi) /\ fits.seqno = seg.seqno
    <3>1. CASE ~(Add(t, seg.seqno) > edge)
      BY <3>1
    <3>2. CASE Add(t, seg.seqno) > edge
      <4>1. Sub(edge, seg.seqno) = hi - a
        <5>0. Sub(edge, seg.seqno) = IF Pos(i, edge) >= Pos(i, seg.seqno)
                THEN Pos(i, edge) - Pos(i, seg.seqno)
                ELSE Pos(i, edge) - Pos(i, seg.seqno) + SEQ
          <6> HIDE DEF edge
          <6> QED
            BY <2>3, <2>6, SubPos, ZenonT(60)
        <5>1. Sub(edge, seg.seqno) = IF hi >= a THEN hi - a ELSE hi - a + SEQ
          BY <2>6, <5>0, Zenon
        <5> HIDE DEF a, t, edge
        <5> QED
          BY <2>2, <2>3, <5>1
      <4>2. ~Room(i)
        <5> SUFFICES ASSUME Room(i) PROVE FALSE
          OBVIOUS
        <5>1. i + StreamLen + 1 + TCP_WND < SEQ
          BY DEF Room
        <5>2. edge = i + hi
          <6>1. hi = IF edge >= i THEN edge - i ELSE edge - i + SEQ
            BY <2>6, PosIs
          <6> HIDE DEF edge
          <6> QED
            BY <1>1, <2>6, <5>1, <6>1
        <5>3. seg.seqno = i + a
          <6>1. a = IF seg.seqno >= i THEN seg.seqno - i ELSE seg.seqno - i + SEQ
            BY <2>3, PosIs
          <6> DEFINE y == seg.seqno
          <6>2. y \in 0 .. SEQ - 1 /\ a = IF y >= i THEN y - i ELSE y - i + SEQ
            BY <2>3, <6>1
          <6>3. a + t <= hi /\ a \in Nat /\ t \in Nat
            BY <2>2, <2>3
          <6> HIDE DEF a, t, y
          <6>4. a <= TCP_WND + StreamLen
            BY <1>1, <6>3
          <6>5. a + i < SEQ /\ SEQ \in Nat
            BY <1>1, <5>1, <6>3, <6>4
          <6>6. y = i + a
            BY <6>2, <6>3, <6>5
          <6> QED
            BY <6>6 DEF y
        <5>4. t + seg.seqno <= i + hi /\ t + seg.seqno < SEQ /\ t + seg.seqno \in Nat
          <6> HIDE DEF a, t
          <6> QED
            BY <1>1, <2>2, <2>3, <5>1, <5>3, SMTT(40)
        <5>5. Add(t, seg.seqno) = t + seg.seqno
          <6> DEFINE s == t + seg.seqno
          <6>1. s \in Nat /\ s < SEQ /\ Add(t, seg.seqno) = s % SEQ
            BY <5>4 DEF Add
          <6> HIDE DEF s
          <6>2. s % SEQ = s
            <7>1. SEQ \in Nat \ {0} /\ s \in Int /\ -SEQ <= s /\ s < 2 * SEQ
              BY <1>1, <6>1, SMTT(40)
            <7>2. s % SEQ = IF s < 0 THEN s + SEQ ELSE IF s < SEQ THEN s ELSE s - SEQ
              BY <7>1, ModIs
            <7> QED
              BY <6>1, <7>2
          <6> QED
            BY <6>1, <6>2 DEF s
        <5> HIDE DEF a, t, edge
        <5> QED
          BY <2>6, <3>2, <5>2, <5>4, <5>5
      <4> DEFINE n == hi - a
      <4>3. n \in Nat /\ n >= seg.len /\ a + n <= hi
        <5> HIDE DEF a, t
        <5> QED
          BY <2>2, <2>3
      <4>4. fits = [CutTo(seg, n) EXCEPT !.fin = FALSE]
        BY <3>2, <4>1
      <4> HIDE DEF n, fits
      <4> QED
        BY <1>1, <4>2, <4>3, <4>4, OverrunIs, SMTT(40)
    <3> QED
      BY <3>1, <3>2
  <2> HIDE DEF fits, r, a
  <2>8. Queued(i, b, lo, hi) /\ Len(b) = 1 /\ b[1] = fits
    BY <2>7, QueuedOne
  <2> HIDE DEF b
  <2>9. \A j \in 1 .. Len(r), k \in 1 .. Len(b) : Stop(i, r[j]) <= Pos(i, b[k].seqno)
    BY <2>5, <2>7, <2>8 DEF a
  <2>10. \A k \in 1 .. Len(r) : ~r[k].fin
    BY <2>5
  <2>11. Queued(i, r \o b, lo, hi)
    BY <2>5, <2>8, <2>9, <2>10, QueuedCat
  <2> QED
    BY <2>1, <2>11
<1> QED
  BY <1>3, <1>4

\* A segment ahead of rcv_nxt is put on the queue.
LEMMA QueueOoseqIs ==
    ASSUME NEW i \in 0 .. SEQ - 1, NEW lo \in Nat, NEW hi \in Nat,
           hi <= TCP_WND + StreamLen, NEW c, Queued(i, c.ooseq, lo, hi),
           c.rcv_nxt \in 0 .. SEQ - 1, c.rcv_wnd \in Nat, hi = Pos(i, c.rcv_nxt) + c.rcv_wnd,
           NEW seg, Slot(i, seg, lo, hi), Stop(i, seg) <= StreamLen
    PROVE  Queued(i, QueueOoseq(c, seg), lo, hi)
<1> DEFINE q == c.ooseq
           l == Len(q)
           a == Pos(i, seg.seqno)
           n == Before(q, seg.seqno)
           f == SubSeq(q, 1, n)
           b == SubSeq(q, n + 1, l)
           o == tcp_oos_insert_segment(seg, b)
           d == CutLast(f, seg.seqno)
<1>1. /\ Half \in Nat /\ hi < Half
  BY Sizes
<1>2. /\ q \in Seq(Segment) /\ l \in Nat
      /\ \A k \in 1 .. l : Slot(i, q[k], lo, hi) /\ (q[k].fin => k = l)
      /\ \A j, k \in 1 .. l : j < k => Stop(i, q[j]) <= Pos(i, q[k].seqno)
  BY DEF Queued
<1>3. seg.seqno \in 0 .. SEQ - 1 /\ a \in Nat /\ a < Half
  <2>1. seg \in Segment /\ a + TCP_TCPLEN(seg) <= hi
    BY DEF Slot, Piece
  <2>2. seg.seqno \in 0 .. SEQ - 1 /\ a \in Nat /\ TCP_TCPLEN(seg) \in Nat
    BY <2>1, SegmentIs
  <2> HIDE DEF a
  <2> QED
    BY <1>1, <2>1, <2>2
<1>4. /\ n \in 0 .. l /\ (\A k \in 1 .. n : Pos(i, q[k].seqno) < a)
      /\ \A k \in n + 1 .. l : a <= Pos(i, q[k].seqno)
  BY <1>1, <1>3, BeforeIs
<1>5. /\ f \in Seq(Segment) /\ Len(f) = n /\ (\A k \in 1 .. n : f[k] = q[k])
      /\ b \in Seq(Segment) /\ Len(b) = l - n
      /\ \A k \in 1 .. l - n : b[k] = q[n + k]
  BY <1>2, <1>4, Split
<1>6. Queued(i, f, lo, hi) /\ Queued(i, b, lo, hi)
  BY <1>4, QueuedSplit
<1>7. QueueOoseq(c, seg) =
        CASE q = <<>> -> <<seg>>
          [] f # <<>> /\ b = <<>> -> Append_Ooseq(c, seg)
          [] b # <<>> /\ Head(b).seqno = seg.seqno ->
               IF seg.len > Head(b).len THEN f \o o ELSE q
          [] b # <<>> /\ Head(b).seqno # seg.seqno -> d \o o
  BY DEF QueueOoseq
<1>8. CASE q = <<>>
  <2>1. QueueOoseq(c, seg) = <<seg>>
    <3>1. f = <<>> /\ b = <<>>
      BY <1>4, <1>5, <1>8
    <3> QED
      BY <1>8 DEF QueueOoseq
  <2> QED
    BY <2>1, QueuedOne
<1> HIDE DEF n, l, a, f, b, o, d
<1>9. CASE q # <<>> /\ n = l
  <2>1. f # <<>> /\ b = <<>>
    BY <1>2, <1>4, <1>5, <1>9 DEF l
  <2>2. QueueOoseq(c, seg) = Append_Ooseq(c, seg)
    BY <1>7, <1>9, <2>1
  <2>3. \A k \in 1 .. Len(c.ooseq) : Pos(i, c.ooseq[k].seqno) < Pos(i, seg.seqno)
    BY <1>4, <1>9 DEF l, a
  <2>4. Queued(i, Append_Ooseq(c, seg), lo, hi)
    BY <1>9, <2>3, AppendOoseqIs
  <2> QED
    BY <2>2, <2>4
<1>10. CASE n # l
  <2>1. n + 1 \in 1 .. l /\ n < l /\ 1 \in 1 .. l - n
    BY <1>2, <1>4, <1>10
  <2>2. q # <<>> /\ b # <<>> /\ Head(b) = q[n + 1]
    <3>1. Len(b) # 0
      BY <1>2, <1>4, <1>5, <2>1
    <3>2. q # <<>>
      BY <2>1 DEF l
    <3>3. b[1] = q[n + 1]
      BY <1>5, <2>1
    <3> QED
      BY <1>5, <3>1, <3>2, <3>3
  <2>3. \A k \in 1 .. Len(b) : a <= Pos(i, b[k].seqno)
    <3> SUFFICES ASSUME NEW k \in 1 .. Len(b) PROVE a <= Pos(i, b[k].seqno)
      OBVIOUS
    <3>1. k \in 1 .. l - n /\ n + k \in n + 1 .. l
      BY <1>2, <1>4, <1>5
    <3> QED
      BY <1>4, <1>5, <3>1
  <2>4. Queued(i, o, lo, hi) /\ \A k \in 1 .. Len(o) : a <= Pos(i, o[k].seqno)
    BY <1>1, <1>6, <2>3, InsertIs DEF o, a
  <2>5. \A k \in 1 .. Len(o) : o[k] \in Segment /\ Pos(i, o[k].seqno) \in Nat
    <3> SUFFICES ASSUME NEW k \in 1 .. Len(o)
                 PROVE  o[k] \in Segment /\ Pos(i, o[k].seqno) \in Nat
      OBVIOUS
    <3>1. o[k] \in Segment
      BY <2>4 DEF Queued
    <3> QED
      BY <3>1, SegmentIs
  <2>6. \A k \in 1 .. Len(f) : ~f[k].fin /\ Pos(i, f[k].seqno) < a
    <3> SUFFICES ASSUME NEW k \in 1 .. Len(f) PROVE ~f[k].fin /\ Pos(i, f[k].seqno) < a
      OBVIOUS
    <3>1. k \in 1 .. n /\ k \in 1 .. l /\ k # l
      BY <1>2, <1>4, <1>5, <2>1
    <3> QED
      BY <1>2, <1>4, <1>5, <3>1
  <2>7. CASE q[n + 1].seqno = seg.seqno
    <3>1. QueueOoseq(c, seg) = IF seg.len > q[n + 1].len THEN f \o o ELSE q
      BY <1>7, <2>2, <2>7
    <3>2. Queued(i, f \o o, lo, hi)
      <4>1. \A j \in 1 .. Len(f), k \in 1 .. Len(o) : Stop(i, f[j]) <= Pos(i, o[k].seqno)
        <5> SUFFICES ASSUME NEW j \in 1 .. Len(f), NEW k \in 1 .. Len(o)
                     PROVE  Stop(i, f[j]) <= Pos(i, o[k].seqno)
          OBVIOUS
        <5>1. j \in 1 .. n /\ j \in 1 .. l /\ j < n + 1
          BY <1>2, <1>4, <1>5, <2>1
        <5>2. Stop(i, q[j]) <= Pos(i, q[n + 1].seqno) /\ Slot(i, q[j], lo, hi)
          BY <1>2, <2>1, <5>1
        <5>3. Stop(i, f[j]) <= a /\ Stop(i, f[j]) \in Nat
          BY <1>1, <1>5, <2>7, <5>1, <5>2, SlotIs DEF a
        <5> QED
          BY <1>3, <2>4, <2>5, <5>3
      <4>2. \A k \in 1 .. Len(f) : ~f[k].fin
        BY <2>6
      <4> QED
        BY <1>6, <2>4, <4>1, <4>2, QueuedCat
    <3> QED
      BY <3>1, <3>2
  <2>8. CASE q[n + 1].seqno # seg.seqno
    <3>1. QueueOoseq(c, seg) = d \o o
      BY <1>7, <2>2, <2>8
    <3>2. /\ Queued(i, d, lo, hi)
          /\ \A k \in 1 .. Len(d) : ~d[k].fin /\ Stop(i, d[k]) <= a
      BY <1>1, <1>3, <1>6, <2>6, CutLastIs DEF d, a
    <3>3. Queued(i, d \o o, lo, hi)
      <4>1. \A j \in 1 .. Len(d), k \in 1 .. Len(o) : Stop(i, d[j]) <= Pos(i, o[k].seqno)
        <5> SUFFICES ASSUME NEW j \in 1 .. Len(d), NEW k \in 1 .. Len(o)
                     PROVE  Stop(i, d[j]) <= Pos(i, o[k].seqno)
          OBVIOUS
        <5>1. Stop(i, d[j]) \in Nat
          <6>1. Slot(i, d[j], lo, hi)
            BY <3>2 DEF Queued
          <6> QED
            BY <1>1, <6>1, SlotIs
        <5>2. Stop(i, d[j]) <= a /\ a <= Pos(i, o[k].seqno) /\ Pos(i, o[k].seqno) \in Nat
          BY <2>4, <2>5, <3>2
        <5> QED
          BY <1>3, <5>1, <5>2
      <4>2. \A k \in 1 .. Len(d) : ~d[k].fin
        BY <3>2
      <4> QED
        BY <2>4, <3>2, <4>1, <4>2, QueuedCat
    <3> QED
      BY <3>1, <3>3
  <2> QED
    BY <2>7, <2>8
<1> QED
  BY <1>8, <1>9, <1>10

-----------------------------------------------------------------------------
(***************************************************************************)
(* The window                                                              *)
(***************************************************************************)

\* The connection while segments may follow: the window ends at hi, and the edge that
\* was announced is e or farther.
Open(i, c, n, hi, e) ==
    /\ Window(i, c, n) /\ e <= Pos(i, c.rcv_ann_right_edge)
    /\ c.rcv_ann_wnd <= c.rcv_wnd /\ n + c.rcv_wnd = hi

LEMMA ConnectionIs ==
    ASSUME NEW i \in 0 .. SEQ - 1, NEW c \in Connection
    PROVE  /\ c.rcv_nxt \in 0 .. SEQ - 1 /\ c.rcv_wnd \in Nat /\ c.rcv_wnd <= TCP_WND
           /\ c.rcv_ann_wnd \in Nat /\ c.rcv_ann_wnd <= TCP_WND
           /\ c.rcv_ann_right_edge \in 0 .. SEQ - 1
           /\ Pos(i, c.rcv_nxt) \in Nat /\ Pos(i, c.rcv_ann_right_edge) \in Nat
           /\ c.ooseq \in Seq(Segment)
<1>1. SEQ \in Nat \ {0} /\ TCP_WND \in Nat
  BY Sizes
<1>2. /\ c.rcv_nxt \in 0 .. SEQ - 1 /\ c.rcv_wnd \in 0 .. TCP_WND
      /\ c.rcv_ann_wnd \in 0 .. TCP_WND /\ c.rcv_ann_right_edge \in 0 .. SEQ - 1
      /\ c.ooseq \in Seq(Segment)
  BY DEF Connection
<1>3. /\ Pos(i, c.rcv_nxt) \in 0 .. SEQ - 1
      /\ Pos(i, c.rcv_ann_right_edge) \in 0 .. SEQ - 1
  BY <1>2, PosIs
<1> QED
  BY <1>1, <1>2, <1>3

\* tcp_update_rcv_ann_wnd never takes back what was announced, nor announces more than
\* there is.
LEMMA UpdateIs ==
    ASSUME NEW i \in 0 .. SEQ - 1, NEW c \in Connection, NEW n \in Nat, NEW hi \in Nat,
           NEW e \in Nat, hi <= TCP_WND + StreamLen, n = Pos(i, c.rcv_nxt),
           n + c.rcv_wnd = hi, e <= Pos(i, c.rcv_ann_right_edge),
           Pos(i, c.rcv_ann_right_edge) <= hi
    PROVE  LET u == tcp_update_rcv_ann_wnd(c)
           IN  /\ Open(i, u, n, hi, e) /\ u.state = c.state /\ u.ooseq = c.ooseq
               /\ u.rcv_nxt = c.rcv_nxt /\ u.rcv_wnd = c.rcv_wnd
<1> DEFINE w == c.rcv_wnd
           b == Pos(i, c.rcv_ann_right_edge)
           ann == IF WndInflation(c) > 0 THEN w
                  ELSE IF SEQ_GT(c.rcv_nxt, c.rcv_ann_right_edge) THEN 0
                  ELSE Sub(c.rcv_ann_right_edge, c.rcv_nxt)
           u == [c EXCEPT !.rcv_ann_wnd = ann]
<1>1. /\ Half \in Nat /\ 2 * Half = SEQ /\ hi < Half /\ TCP_WND \in Nat /\ StreamLen \in Nat
  BY Sizes
<1>2. /\ c.rcv_nxt \in 0 .. SEQ - 1 /\ w \in Nat /\ w <= TCP_WND
      /\ c.rcv_ann_right_edge \in 0 .. SEQ - 1 /\ b \in Nat
  BY ConnectionIs
<1>3. SEQ_GT(c.rcv_nxt, c.rcv_ann_right_edge) <=> n > b
  <2>1. n - b < Half /\ b - n <= Half
    <3>1. b <= hi
      OBVIOUS
    <3> HIDE DEF w, b
    <3> QED
      BY <1>1, <1>2, <3>1 DEF w
  <2> QED
    BY <1>2, <2>1, GeqPos
<1>4. Sub(c.rcv_ann_right_edge, c.rcv_nxt) = IF b >= n THEN b - n ELSE b - n + SEQ
  BY <1>2, SubPos
<1>5. b <= hi /\ n + w = hi
  OBVIOUS
<1>6. tcp_update_rcv_ann_wnd(c) = u
  BY DEF tcp_update_rcv_ann_wnd
<1>7. ann \in Nat /\ ann <= w /\ b <= n + ann
  <2>1. CASE WndInflation(c) > 0
    BY <1>2, <1>5, <2>1
  <2>2. CASE ~(WndInflation(c) > 0)
    <3>1. ann = IF n > b THEN 0 ELSE IF b >= n THEN b - n ELSE b - n + SEQ
      BY <1>3, <1>4, <2>2
    <3> HIDE DEF ann, b, w
    <3> QED
      BY <1>2, <1>5, <3>1
  <2> QED
    BY <2>1, <2>2
<1> HIDE DEF ann
<1>8. /\ u \in Connection /\ u.rcv_ann_wnd = ann /\ u.rcv_nxt = c.rcv_nxt
      /\ u.rcv_wnd = w /\ u.rcv_ann_right_edge = c.rcv_ann_right_edge
      /\ u.state = c.state /\ u.ooseq = c.ooseq
  <2>1. ann \in 0 .. TCP_WND
    BY <1>1, <1>2, <1>7
  <2> QED
    BY <2>1 DEF Connection
<1> HIDE DEF u
<1>9. n + ann <= TCP_WND + StreamLen
  BY <1>1, <1>2, <1>5, <1>7
<1>10. Open(i, u, n, hi, e)
  BY <1>5, <1>7, <1>8, <1>9 DEF Open, Window
<1> QED
  BY <1>6, <1>8, <1>10

\* rcv_nxt and the window move over a segment that begins at rcv_nxt.
LEMMA AdvanceIs ==
    ASSUME NEW i \in 0 .. SEQ - 1, NEW c, NEW n \in Nat, NEW hi \in Nat,
           NEW e \in Nat, hi <= TCP_WND + StreamLen, Open(i, c, n, hi, e),
           NEW seg, Slot(i, seg, n, hi), Pos(i, seg.seqno) = n
    PROVE  LET u == Advance(c, seg)
           IN  /\ Open(i, u, n + TCP_TCPLEN(seg), hi, e)
               /\ n + TCP_TCPLEN(seg) \in Nat /\ n + TCP_TCPLEN(seg) <= hi
               /\ u.state = c.state /\ u.ooseq = c.ooseq
<1> DEFINE t == TCP_TCPLEN(seg)
           x == Add(seg.seqno, t)
           w == c.rcv_wnd
           d == [c EXCEPT !.rcv_nxt = x, !.rcv_wnd = w - t]
           m == n + t
<1>1. Half \in Nat /\ hi < Half /\ TCP_WND \in Nat /\ StreamLen \in Nat
  BY Sizes
<1>2. c \in Connection /\ n + w = hi /\ e <= Pos(i, c.rcv_ann_right_edge)
      /\ Pos(i, c.rcv_ann_right_edge) <= n + c.rcv_ann_wnd /\ c.rcv_ann_wnd <= w
  BY DEF Open, Window
<1>3. /\ w \in Nat /\ w <= TCP_WND /\ c.rcv_ann_wnd \in Nat
      /\ Pos(i, c.rcv_ann_right_edge) \in Nat
  BY <1>2, ConnectionIs
<1>4. seg \in Segment /\ n + t <= hi
  BY DEF Slot, Piece
<1>5. t \in Nat
  BY <1>4, SegmentIs
<1>6. x \in 0 .. SEQ - 1 /\ Pos(i, x) = n + t
  BY <1>1, SlotIs
<1> HIDE DEF t, x
<1>7. /\ m \in Nat /\ m <= hi /\ w - t \in 0 .. TCP_WND /\ m + (w - t) = hi
  BY <1>1, <1>2, <1>3, <1>4, <1>5
<1>8. Pos(i, c.rcv_ann_right_edge) <= hi
  BY <1>2, <1>3
<1> DEFINE v == w - t
<1>9. v \in 0 .. TCP_WND /\ m + v = hi
  BY <1>7
<1>10. d = [c EXCEPT !.rcv_nxt = x, !.rcv_wnd = v]
  OBVIOUS
<1> HIDE DEF v, d
<1>11. /\ d \in Connection /\ d.rcv_nxt = x /\ d.rcv_wnd = v
       /\ d.rcv_ann_right_edge = c.rcv_ann_right_edge
       /\ d.state = c.state /\ d.ooseq = c.ooseq
  BY <1>2, <1>6, <1>9, <1>10 DEF Connection
<1>12. Advance(c, seg) = tcp_update_rcv_ann_wnd(d)
  BY <1>2 DEF Advance, d, x, t, v, Connection
<1>13. m = Pos(i, d.rcv_nxt) /\ m + d.rcv_wnd = hi
  BY <1>6, <1>9, <1>11
<1>14. e <= Pos(i, d.rcv_ann_right_edge) /\ Pos(i, d.rcv_ann_right_edge) <= hi
  BY <1>2, <1>8, <1>11
<1>15. m \in Nat /\ m <= hi
  BY <1>7
<1> HIDE DEF m
<1>16. LET u == tcp_update_rcv_ann_wnd(d)
       IN  Open(i, u, m, hi, e) /\ u.state = d.state /\ u.ooseq = d.ooseq
  BY <1>11, <1>13, <1>14, <1>15, UpdateIs
<1> QED
  BY <1>11, <1>12, <1>15, <1>16 DEF m, t

\* What an acknowledgement, sent or to be sent, leaves alone.
Alike(c, u) ==
    /\ u.state = c.state /\ u.ooseq = c.ooseq /\ u.rcv_nxt = c.rcv_nxt
    /\ u.rcv_wnd = c.rcv_wnd /\ u.rcv_ann_wnd = c.rcv_ann_wnd

\* An acknowledgement is noted, or the flags are cleared.
Flagged(c) == {tcp_ack(c), tcp_ack_now(c), [c EXCEPT !.ack = {}]}

\* An acknowledgement is sent, if there is memory and one is due.
Answered(c, mem) == {tcp_send_empty_ack(c, mem), tcp_output(c, mem)}

LEMMA FlaggedIs ==
    ASSUME NEW i, NEW c, NEW n, Window(i, c, n), NEW u \in Flagged(c)
    PROVE  /\ Window(i, u, n) /\ Alike(c, u)
           /\ u.rcv_ann_right_edge = c.rcv_ann_right_edge
<1>1. c \in Connection
  BY DEF Window
<1>2. c.ack \subseteq {"delay", "now"}
  BY <1>1 DEF Connection
<1>3. PICK f \in SUBSET {"delay", "now"} : u = [c EXCEPT !.ack = f]
  <2>1. CASE u = tcp_ack(c)
    <3> DEFINE f == IF "delay" \in c.ack THEN {"now"} ELSE c.ack \cup {"delay"}
    <3>1. f \in SUBSET {"delay", "now"}
      BY <1>2
    <3>2. u = [c EXCEPT !.ack = f]
      BY <1>1, <2>1 DEF tcp_ack, Connection
    <3> QED
      BY <3>1, <3>2
  <2>2. CASE u = tcp_ack_now(c)
    <3> DEFINE f == c.ack \cup {"now"}
    <3>1. f \in SUBSET {"delay", "now"}
      BY <1>2
    <3>2. u = [c EXCEPT !.ack = f]
      BY <1>1, <2>2 DEF tcp_ack_now, Connection
    <3> QED
      BY <3>1, <3>2
  <2>3. CASE u = [c EXCEPT !.ack = {}]
    BY <2>3
  <2> QED
    BY <2>1, <2>2, <2>3 DEF Flagged
<1>4. u \in Connection /\ u.rcv_ann_right_edge = c.rcv_ann_right_edge /\ Alike(c, u)
  BY <1>1, <1>3 DEF Connection, Alike
<1> QED
  BY <1>4 DEF Window, Alike

\* The edge only moves on.
LEMMA AnsweredIs ==
    ASSUME NEW i \in 0 .. SEQ - 1, NEW c, NEW n \in Nat, NEW e \in Nat, Window(i, c, n),
           e <= Pos(i, c.rcv_ann_right_edge), NEW mem \in BOOLEAN, NEW u \in Answered(c, mem)
    PROVE  Window(i, u, n) /\ e <= Pos(i, u.rcv_ann_right_edge) /\ Alike(c, u)
<1> DEFINE x == Add(c.rcv_nxt, c.rcv_ann_wnd)
           none == {}
           s == [c EXCEPT !.ack = none, !.rcv_ann_right_edge = x]
<1>1. /\ SEQ \in Nat \ {0} /\ Half \in Nat /\ 2 * Half = SEQ /\ TCP_WND + StreamLen < Half
      /\ TCP_WND \in Nat /\ StreamLen \in Nat
  BY Sizes
<1>2. /\ c \in Connection /\ n = Pos(i, c.rcv_nxt)
      /\ Pos(i, c.rcv_ann_right_edge) <= n + c.rcv_ann_wnd
      /\ n + c.rcv_ann_wnd <= TCP_WND + StreamLen
  BY DEF Window
<1>3. /\ c.rcv_nxt \in 0 .. SEQ - 1 /\ c.rcv_ann_wnd \in Nat
      /\ Pos(i, c.rcv_ann_right_edge) \in Nat
  BY <1>2, ConnectionIs
<1>4. x \in 0 .. SEQ - 1 /\ Pos(i, x) = n + c.rcv_ann_wnd
  <2>1. Pos(i, c.rcv_nxt) + c.rcv_ann_wnd < SEQ
    BY <1>1, <1>2, <1>3
  <2> QED
    BY <1>2, <1>3, <2>1, AddPos
<1>5. u = s \/ u = c
  BY DEF Answered, tcp_output, tcp_send_empty_ack
<1> HIDE DEF x
<1>6. /\ s \in Connection /\ s.rcv_ann_right_edge = x /\ Alike(c, s)
  BY <1>2, <1>4 DEF Connection, Alike
<1>7. Window(i, s, n) /\ e <= Pos(i, s.rcv_ann_right_edge) /\ Alike(c, s)
  <2>1. e <= Pos(i, x) /\ Pos(i, x) <= n + c.rcv_ann_wnd
    BY <1>2, <1>3, <1>4
  <2> HIDE DEF s
  <2> QED
    BY <1>2, <1>6, <2>1 DEF Window, Alike
<1> HIDE DEF s
<1> QED
  BY <1>5, <1>7 DEF Alike

LEMMA OpenFlagged ==
    ASSUME NEW i, NEW c, NEW n, NEW hi, NEW e, Open(i, c, n, hi, e), NEW u \in Flagged(c)
    PROVE  Open(i, u, n, hi, e) /\ Alike(c, u)
<1>1. Window(i, u, n) /\ Alike(c, u) /\ u.rcv_ann_right_edge = c.rcv_ann_right_edge
  BY FlaggedIs DEF Open
<1> QED
  BY <1>1 DEF Open, Alike

LEMMA OpenAnswered ==
    ASSUME NEW i \in 0 .. SEQ - 1, NEW c, NEW n \in Nat, NEW hi \in Nat, NEW e \in Nat,
           Open(i, c, n, hi, e), NEW mem \in BOOLEAN, NEW u \in Answered(c, mem)
    PROVE  Open(i, u, n, hi, e) /\ Alike(c, u)
<1>1. Window(i, u, n) /\ e <= Pos(i, u.rcv_ann_right_edge) /\ Alike(c, u)
  BY AnsweredIs DEF Open
<1> QED
  BY <1>1 DEF Open, Alike

\* tcp_recved: the window grows by what was read.
Wider(i, c, u, n, hi, len, e) ==
    \E to \in Nat : /\ Open(i, u, n, to, e) /\ hi <= to /\ to <= hi + len
                    /\ u.state = c.state /\ u.ooseq = c.ooseq

LEMMA RecvedIs ==
    ASSUME NEW i \in 0 .. SEQ - 1, NEW c, NEW n \in Nat, NEW hi \in Nat, NEW e \in Nat,
           Open(i, c, n, hi, e), NEW len \in Nat, hi + len <= TCP_WND + StreamLen
    PROVE  Wider(i, c, tcp_recved(c, len), n, hi, len, e)
<1> DEFINE w == c.rcv_wnd
           v == AtMost(w + len, TCP_WND)
           d == [c EXCEPT !.rcv_wnd = v]
           told == tcp_update_rcv_ann_wnd(d)
           to == n + v
<1>1. TCP_WND \in Nat /\ StreamLen \in Nat
  BY Sizes
<1>2. c \in Connection /\ n + w = hi /\ e <= Pos(i, c.rcv_ann_right_edge)
      /\ Pos(i, c.rcv_ann_right_edge) <= n + c.rcv_ann_wnd /\ c.rcv_ann_wnd <= w
      /\ n = Pos(i, c.rcv_nxt)
  BY DEF Open, Window
<1>3. /\ w \in Nat /\ w <= TCP_WND /\ c.rcv_ann_wnd \in Nat
      /\ Pos(i, c.rcv_ann_right_edge) \in Nat
  BY <1>2, ConnectionIs
<1>4. v \in 0 .. TCP_WND /\ w <= v /\ v <= w + len
  <2> HIDE DEF w
  <2> QED
    BY <1>1, <1>3 DEF AtMost
<1>5. d = [c EXCEPT !.rcv_wnd = v]
  OBVIOUS
<1> HIDE DEF v, d
<1>6. /\ d \in Connection /\ d.rcv_wnd = v /\ d.rcv_nxt = c.rcv_nxt
      /\ d.rcv_ann_right_edge = c.rcv_ann_right_edge
      /\ d.state = c.state /\ d.ooseq = c.ooseq
  BY <1>2, <1>4, <1>5 DEF Connection
<1>7. to \in Nat /\ hi <= to /\ to <= hi + len /\ to <= TCP_WND + StreamLen
  BY <1>1, <1>2, <1>3, <1>4
<1>8. Pos(i, d.rcv_ann_right_edge) <= to /\ e <= Pos(i, d.rcv_ann_right_edge)
  BY <1>2, <1>3, <1>6, <1>7
<1>9. n = Pos(i, d.rcv_nxt) /\ n + d.rcv_wnd = to
  BY <1>2, <1>6
<1> HIDE DEF to
<1>10. /\ Open(i, told, n, to, e) /\ told.state = d.state /\ told.ooseq = d.ooseq
       /\ told.rcv_nxt = d.rcv_nxt
  BY <1>6, <1>7, <1>8, <1>9, UpdateIs
<1>11. tcp_recved(c, len) = IF WndInflation(d) >= TCP_WND \div 4
                            THEN tcp_ack_now(told) ELSE told
  BY <1>2 DEF tcp_recved, d, v, Connection
<1> HIDE DEF told
<1>12. Open(i, tcp_ack_now(told), n, to, e) /\ Alike(told, tcp_ack_now(told))
  BY <1>10, OpenFlagged DEF Flagged
<1> DEFINE u == tcp_recved(c, len)
<1>13. Open(i, u, n, to, e) /\ u.state = c.state /\ u.ooseq = c.ooseq
  <2>1. u = told \/ u = tcp_ack_now(told)
    BY <1>11
  <2> HIDE DEF u
  <2> QED
    BY <1>6, <1>10, <1>12, <2>1 DEF Alike
<1> QED
  BY <1>7, <1>13 DEF Wider

-----------------------------------------------------------------------------
(***************************************************************************)
(* Segments in sequence                                                    *)
(***************************************************************************)

\* rcv_nxt has come to n, after `was' and the data of r; fin: over the FIN too.
Reached(i, was, r, n, hi, e, fin) ==
    /\ n \in Nat /\ n <= hi /\ Open(i, r.pcb, n, hi, e)
    /\ r.data \in Seq(0 .. StreamLen - 1) /\ Passed(i, was \o r.data, n)
    /\ Room(i) => n = Len(was \o r.data) + IF fin THEN 1 ELSE 0
    /\ fin \in BOOLEAN /\ (fin => n = StreamLen + 1)

\* The bytes of a segment are those that come next.
LEMMA PassedNext ==
    ASSUME NEW i \in 0 .. SEQ - 1, NEW d, NEW n \in Nat, Passed(i, d, n),
           Room(i) => n = Len(d), NEW seg, Piece(i, seg), Pos(i, seg.seqno) = n
    PROVE  /\ Passed(i, d \o seg.p, n + TCP_TCPLEN(seg))
           /\ Room(i) => n + TCP_TCPLEN(seg) = Len(d \o seg.p) + IF seg.fin THEN 1 ELSE 0
<1> DEFINE p == seg.p
           f == d \o p
           t == TCP_TCPLEN(seg)
<1>1. StreamLen \in Nat
  BY Sizes
<1>2. /\ d \in Seq(0 .. StreamLen - 1) /\ Len(d) <= StreamLen /\ Len(d) <= n
      /\ Room(i) => \A k \in 1 .. Len(d) : d[k] = k - 1
  BY DEF Passed
<1>3. /\ seg \in Segment /\ Len(p) <= seg.len
      /\ \A k \in 1 .. Len(p) : p[k] = n + k - 1
      /\ Len(p) > 0 => n + Len(p) <= StreamLen
      /\ Room(i) => Len(p) = seg.len
  BY DEF Piece
<1>4. /\ p \in Seq(0 .. StreamLen - 1) /\ Len(p) \in Nat /\ seg.len \in Nat
      /\ t = IF seg.fin THEN seg.len + 1 ELSE seg.len
  BY <1>3, SegmentIs
<1>5. Len(d) \in Nat
  BY <1>2
<1> HIDE DEF p, t
<1>6. /\ f \in Seq(0 .. StreamLen - 1) /\ Len(f) = Len(d) + Len(p)
      /\ \A k \in 1 .. Len(d) + Len(p) : f[k] = IF k <= Len(d) THEN d[k] ELSE p[k - Len(d)]
  <2>1. \A k \in 1 .. Len(d) + Len(p) : f[k] = IF k <= Len(d) THEN d[k] ELSE p[k - Len(d)]
    BY <1>2, <1>4, ConcatProperties, Zenon
  <2>2. f \in Seq(0 .. StreamLen - 1) /\ Len(f) = Len(d) + Len(p)
    BY <1>2, <1>4, ConcatProperties, Zenon
  <2> QED
    BY <2>1, <2>2
<1> HIDE DEF f
<1>7. Len(f) <= StreamLen /\ Len(f) <= n + t
  <2>1. Len(p) <= t /\ t \in Nat
    BY <1>3, <1>4
  <2>2. CASE Len(p) > 0
    <3>1. n + Len(p) <= StreamLen /\ Len(d) <= n /\ Len(f) = Len(d) + Len(p)
      BY <1>2, <1>3, <1>6, <2>2
    <3> QED
      BY <1>1, <1>4, <1>5, <2>1, <3>1
  <2>3. CASE Len(p) = 0
    <3>1. Len(d) <= StreamLen /\ Len(d) <= n /\ Len(f) = Len(d) + Len(p)
      BY <1>2, <1>6
    <3> QED
      BY <1>1, <1>4, <1>5, <2>1, <2>3, <3>1
  <2> QED
    BY <1>4, <2>2, <2>3
<1>8. ASSUME Room(i) PROVE \A k \in 1 .. Len(f) : f[k] = k - 1
  <2> SUFFICES ASSUME NEW k \in 1 .. Len(f) PROVE f[k] = k - 1
    OBVIOUS
  <2>1. f[k] = IF k <= Len(d) THEN d[k] ELSE p[k - Len(d)]
    BY <1>6
  <2>2. CASE k <= Len(d)
    <3>1. k \in 1 .. Len(d)
      BY <1>5, <1>6, <2>2
    <3> QED
      BY <1>2, <1>8, <2>1, <2>2, <3>1
  <2>3. CASE ~(k <= Len(d))
    <3> DEFINE j == k - Len(d)
    <3>1. j \in 1 .. Len(p) /\ k \in Nat
      BY <1>4, <1>5, <1>6, <2>3
    <3>2. p[j] = n + j - 1
      BY <1>3, <3>1
    <3>3. n = Len(d)
      BY <1>8
    <3> QED
      BY <1>5, <2>1, <2>3, <3>1, <3>2, <3>3
  <2> QED
    BY <2>2, <2>3
<1>9. Passed(i, f, n + t)
  BY <1>6, <1>7, <1>8 DEF Passed
<1>10. ASSUME Room(i) PROVE n + t = Len(f) + IF seg.fin THEN 1 ELSE 0
  <2>1. n = Len(d) /\ Len(p) = seg.len
    BY <1>3, <1>10
  <2> QED
    BY <1>4, <1>5, <1>6, <2>1
<1> QED
  BY <1>9, <1>10 DEF f, p, t

LEMMA TakenIs ==
    ASSUME NEW i \in 0 .. SEQ - 1, NEW was \in Seq(0 .. StreamLen - 1), NEW r,
           NEW n, NEW hi \in Nat, hi <= TCP_WND + StreamLen, NEW e \in Nat,
           NEW fin \in BOOLEAN, ~fin, Reached(i, was, r, n, hi, e, fin),
           NEW seg, Slot(i, seg, n, hi), Pos(i, seg.seqno) = n
    PROVE  LET u == Taken(r, seg)
           IN  /\ Reached(i, was, u, n + TCP_TCPLEN(seg), hi, e, seg.fin)
               /\ u.pcb.state = r.pcb.state
<1> DEFINE u == Taken(r, seg)
           m == n + TCP_TCPLEN(seg)
           d == was \o r.data
<1>1. /\ n \in Nat /\ n <= hi /\ Open(i, r.pcb, n, hi, e)
      /\ r.data \in Seq(0 .. StreamLen - 1) /\ Passed(i, d, n) /\ (Room(i) => n = Len(d))
  <2>1. /\ n \in Nat /\ n <= hi /\ Open(i, r.pcb, n, hi, e)
        /\ r.data \in Seq(0 .. StreamLen - 1) /\ Passed(i, d, n)
        /\ (Room(i) => n = Len(d) + 0)
    BY DEF Reached
  <2>2. Len(d) \in Nat
    BY <2>1 DEF Passed
  <2> QED
    BY <2>1, <2>2
<1>2. /\ Piece(i, seg) /\ seg \in Segment /\ (seg.fin => n + seg.len = StreamLen)
  BY DEF Slot, Piece
<1>3. /\ seg.p \in Seq(0 .. StreamLen - 1) /\ seg.fin \in BOOLEAN /\ seg.len \in Nat
      /\ TCP_TCPLEN(seg) = IF seg.fin THEN seg.len + 1 ELSE seg.len
  BY <1>2, SegmentIs
<1>4. u.pcb = Advance(r.pcb, seg) /\ u.data = r.data \o seg.p
  BY DEF Taken
<1>5. /\ Open(i, u.pcb, m, hi, e) /\ m \in Nat /\ m <= hi
      /\ u.pcb.state = r.pcb.state
  <2> DEFINE c == r.pcb
  <2>1. n \in Nat /\ Open(i, c, n, hi, e)
    BY <1>1
  <2> HIDE DEF c
  <2>2. /\ Open(i, Advance(c, seg), m, hi, e) /\ m \in Nat /\ m <= hi
        /\ Advance(c, seg).state = c.state
    BY <2>1, AdvanceIs
  <2> QED
    BY <1>4, <2>2 DEF c
<1>6. u.data \in Seq(0 .. StreamLen - 1)
  BY <1>1, <1>3, <1>4, ConcatProperties
<1>7. was \o u.data = d \o seg.p
  <2> DEFINE x == r.data
             y == seg.p
             B == 0 .. StreamLen - 1
  <2>1. was \in Seq(B) /\ x \in Seq(B) /\ y \in Seq(B)
    BY <1>1, <1>3
  <2> HIDE DEF x, y, B
  <2>2. (was \o x) \o y = was \o (x \o y)
    BY <2>1, ConcatAssociative, SMTT(40)
  <2> QED
    BY <1>4, <2>2 DEF x, y
<1>8. /\ Passed(i, d \o seg.p, m)
      /\ Room(i) => m = Len(d \o seg.p) + IF seg.fin THEN 1 ELSE 0
  <2> HIDE DEF d
  <2> QED
    BY <1>1, <1>2, PassedNext, ZenonT(60)
<1>9. seg.fin => m = StreamLen + 1
  BY <1>1, <1>2, <1>3
<1> HIDE DEF u, m, d
<1>10. Reached(i, was, u, m, hi, e, seg.fin)
  BY <1>3, <1>5, <1>6, <1>7, <1>8, <1>9 DEF Reached
<1> QED
  BY <1>5, <1>10 DEF u, m

\* The recursive function of Drain, and that there is one.
Follow(g, r, q, k) ==
    [n \in 0 .. k |-> IF n = 0 THEN r ELSE Taken(g[n - 1], q[n])]

After(r, q) == CHOOSE g : g = Follow(g, r, q, Len(q))

LEMMA FollowNext ==
    ASSUME NEW r, NEW q, NEW k \in Nat, NEW g, g = Follow(g, r, q, k)
    PROVE  \E h : h = Follow(h, r, q, k + 1)
<1> DEFINE h == [n \in 0 .. k + 1 |-> IF n = k + 1 THEN Taken(g[k], q[k + 1]) ELSE g[n]]
<1>1. \A n \in 0 .. k : g[n] = IF n = 0 THEN r ELSE Taken(g[n - 1], q[n])
  BY DEF Follow
<1>2. ASSUME NEW n \in 0 .. k + 1
      PROVE  h[n] = IF n = 0 THEN r ELSE Taken(h[n - 1], q[n])
  <2>1. CASE n = k + 1
    <3>1. h[n] = Taken(g[k], q[k + 1]) /\ n # 0 /\ n - 1 = k
      BY <2>1
    <3>2. h[k] = g[k]
      OBVIOUS
    <3> HIDE DEF h
    <3> QED
      BY <2>1, <3>1, <3>2
  <2>2. CASE n = 0
    <3>1. h[n] = g[n] /\ n \in 0 .. k
      BY <2>2
    <3> QED
      BY <1>1, <2>2, <3>1
  <2>3. CASE n # 0 /\ n # k + 1
    <3>1. h[n] = g[n] /\ n \in 0 .. k /\ n - 1 \in 0 .. k + 1 /\ n - 1 # k + 1
      BY <2>3
    <3>2. h[n - 1] = g[n - 1]
      BY <3>1
    <3> HIDE DEF h
    <3> QED
      BY <1>1, <2>3, <3>1, <3>2
  <2> QED
    BY <2>1, <2>2, <2>3
<1>3. h = [n \in 0 .. k + 1 |-> h[n]]
  OBVIOUS
<1> HIDE DEF h
<1>4. h = Follow(h, r, q, k + 1)
  BY <1>2, <1>3 DEF Follow
<1> QED
  BY <1>4

LEMMA AfterIs ==
    ASSUME NEW r, NEW q \in Seq(Segment)
    PROVE  /\ After(r, q)[0] = r
           /\ \A k \in 1 .. Len(q) : After(r, q)[k] = Taken(After(r, q)[k - 1], q[k])
<1> DEFINE P(k) == \E g : g = Follow(g, r, q, k)
           S == {k \in Nat : ~P(k)}
           l == Len(q)
<1>1. P(0)
  <2> DEFINE g == [n \in 0 .. 0 |-> r]
  <2>1. g = Follow(g, r, q, 0)
    BY DEF Follow
  <2> QED
    BY <2>1
<1>2. ASSUME NEW k \in Nat, P(k) PROVE P(k + 1)
  BY <1>2, FollowNext
<1> HIDE DEF P
<1>3. P(l)
  <2>0. l \in Nat
    OBVIOUS
  <2> SUFFICES ASSUME ~P(l) PROVE FALSE
    OBVIOUS
  <2>1. l \in S /\ S \in SUBSET Nat
    BY <2>0
  <2> HIDE DEF S
  <2>2. PICK m \in S : \A k \in Nat : k < m => k \notin S
    BY <2>1, Least
  <2>3. m \in Nat /\ ~P(m)
    BY DEF S
  <2>4. m # 0
    BY <1>1, <2>3
  <2>5. m - 1 \in Nat /\ m - 1 < m /\ (m - 1) + 1 = m
    BY <2>3, <2>4
  <2>6. P(m - 1)
    BY <2>2, <2>5 DEF S
  <2> QED
    BY <1>2, <2>3, <2>5, <2>6
<1> DEFINE a == After(r, q)
<1>4. a = Follow(a, r, q, l)
  BY <1>3 DEF After, P
<1>5. l \in Nat
  OBVIOUS
<1> HIDE DEF a, l
<1>6. \A n \in 0 .. l : a[n] = IF n = 0 THEN r ELSE Taken(a[n - 1], q[n])
  BY <1>4 DEF Follow
<1> QED
  BY <1>5, <1>6 DEF a, l

LEMMA DrainIs ==
    ASSUME NEW r, NEW q
    PROVE  LET n == Leading({k \in 1 .. Len(q) : q[k].seqno = After(r, q)[k - 1].pcb.rcv_nxt},
                            Len(q))
               last == After(r, q)[n]
           IN  Drain(r, q) = [pcb |-> [last.pcb EXCEPT !.ooseq = SubSeq(q, n + 1, Len(q))],
                              data |-> last.data, fin |-> HasFin(SubSeq(q, 1, n))]
  BY DEF Drain, After, Follow

\* rcv_nxt has come to n with the first k segments of the queue q.
Walked(i, was, a, fin, q, hi, e, state, k, n) ==
    /\ Reached(i, was, a[k], n, hi, e, fin \/ (k > 0 /\ q[k].fin))
    /\ a[k].pcb.state = state
    /\ \A j \in k + 1 .. Len(q) : n <= Pos(i, q[j].seqno)

LEMMA WalkedNext ==
    ASSUME NEW i \in 0 .. SEQ - 1, NEW was \in Seq(0 .. StreamLen - 1), NEW r,
           NEW lo \in Nat, NEW hi \in Nat, hi <= TCP_WND + StreamLen, NEW e \in Nat,
           NEW q, Queued(i, q, lo, hi), NEW fin \in BOOLEAN, fin => q = <<>>, NEW state,
           NEW k \in Nat, k < Len(q), NEW n,
           Walked(i, was, After(r, q), fin, q, hi, e, state, k, n),
           q[k + 1].seqno = After(r, q)[k].pcb.rcv_nxt
    PROVE  \E m \in Nat : Walked(i, was, After(r, q), fin, q, hi, e, state, k + 1, m)
<1> DEFINE a == After(r, q)
           s == q[k + 1]
           m == n + TCP_TCPLEN(s)
<1>1. Half \in Nat /\ hi < Half
  BY Sizes, SMTT(40)
<1>2. /\ q \in Seq(Segment) /\ Len(q) \in Nat
      /\ \A j \in 1 .. Len(q) : Slot(i, q[j], lo, hi) /\ (q[j].fin => j = Len(q))
      /\ \A x, y \in 1 .. Len(q) : x < y => Stop(i, q[x]) <= Pos(i, q[y].seqno)
  BY DEF Queued
<1>3. k + 1 \in 1 .. Len(q) /\ k + 1 > 0 /\ (k + 1) - 1 = k /\ k # Len(q) /\ ~fin
  <2>1. fin => Len(q) = 0
    BY <1>2
  <2> QED
    BY <1>2, <2>1
<1>4. ~(k > 0 /\ q[k].fin)
  <2> SUFFICES ASSUME k > 0, q[k].fin PROVE FALSE
    OBVIOUS
  <2>1. k \in 1 .. Len(q)
    BY <1>2
  <2> QED
    BY <1>2, <1>3, <2>1
<1> DEFINE fk == fin \/ (k > 0 /\ q[k].fin)
<1>5. /\ Reached(i, was, a[k], n, hi, e, fk) /\ a[k].pcb.state = state
      /\ \A j \in k + 1 .. Len(q) : n <= Pos(i, q[j].seqno)
  BY DEF Walked
<1>5a. fk \in BOOLEAN /\ ~fk
  BY <1>3, <1>4
<1> HIDE DEF fk
<1>6. Slot(i, s, lo, hi) /\ (s.fin => k + 1 = Len(q))
  BY <1>2, <1>3
<1>7. n = Pos(i, s.seqno) /\ n \in Nat
  BY <1>5 DEF Reached, Open, Window
<1>8. Slot(i, s, n, hi)
  BY <1>6, <1>7 DEF Slot
<1>9. a[k + 1] = Taken(a[k], s)
  BY <1>2, <1>3, AfterIs
<1>10. s \in Segment /\ s.fin \in BOOLEAN /\ s.len \in Nat /\ m \in Nat
       /\ TCP_TCPLEN(s) = IF s.fin THEN s.len + 1 ELSE s.len
  <2>1. s \in Segment
    BY <1>8 DEF Slot, Piece
  <2>2. s.fin \in BOOLEAN /\ s.len \in Nat /\ TCP_TCPLEN(s) \in Nat
        /\ TCP_TCPLEN(s) = IF s.fin THEN s.len + 1 ELSE s.len
    BY <2>1, SegmentIs
  <2> QED
    BY <1>7, <2>1, <2>2, SMTT(40)
<1> HIDE DEF a, s
<1>11. Reached(i, was, a[k + 1], m, hi, e, s.fin) /\ a[k + 1].pcb.state = state
  <2> DEFINE x == a[k]
  <2>1. Reached(i, was, x, n, hi, e, fk) /\ Pos(i, s.seqno) = n
    BY <1>5, <1>7
  <2> HIDE DEF x, m
  <2>2. /\ Reached(i, was, Taken(x, s), n + TCP_TCPLEN(s), hi, e, s.fin)
        /\ Taken(x, s).pcb.state = x.pcb.state
    BY <1>5a, <1>8, <2>1, TakenIs
  <2> QED
    BY <1>5, <1>9, <2>2 DEF x, m
<1>12. ASSUME NEW j \in (k + 1) + 1 .. Len(q) PROVE m <= Pos(i, q[j].seqno)
  <2>1. k + 1 \in 1 .. Len(q) /\ j \in 1 .. Len(q) /\ k + 1 < j /\ k + 1 # Len(q)
    BY <1>2, <1>3
  <2>2. Stop(i, s) <= Pos(i, q[j].seqno)
    BY <1>2, <2>1 DEF s
  <2>3. m = n + s.len
    BY <1>6, <1>10, <2>1
  <2>4. Stop(i, s) = n + s.len
    BY <1>7 DEF Stop
  <2> QED
    BY <2>2, <2>3, <2>4
<1>13. (fin \/ (k + 1 > 0 /\ q[k + 1].fin)) = s.fin
  BY <1>3, <1>10 DEF s
<1> HIDE DEF m
<1>14. Walked(i, was, a, fin, q, hi, e, state, k + 1, m)
  BY <1>11, <1>12, <1>13 DEF Walked
<1> QED
  BY <1>10, <1>14 DEF a

\* The queued segments that are in sequence are taken, and the rest is ahead of rcv_nxt.
Drained(i, was, d, hi, e, fin, state) ==
    \E n \in Nat, all \in BOOLEAN :
       /\ Reached(i, was, d, n, hi, e, all)
       /\ d.fin \in BOOLEAN /\ (all <=> fin \/ d.fin)
       /\ d.pcb.state = state
       /\ Queued(i, d.pcb.ooseq, n + 1, hi)
       /\ all => d.pcb.ooseq = <<>>

LEMMA DrainedIs ==
    ASSUME NEW i \in 0 .. SEQ - 1, NEW was \in Seq(0 .. StreamLen - 1), NEW r,
           NEW lo \in Nat, NEW hi \in Nat, hi <= TCP_WND + StreamLen, NEW e \in Nat,
           NEW q, Queued(i, q, lo, hi), NEW fin \in BOOLEAN, fin => q = <<>>,
           NEW n0 \in Nat, Reached(i, was, r, n0, hi, e, fin),
           \A k \in 1 .. Len(q) : n0 <= Pos(i, q[k].seqno)
    PROVE  Drained(i, was, Drain(r, q), hi, e, fin, r.pcb.state)
<1> DEFINE a == After(r, q)
           l == Len(q)
           set == {k \in 1 .. l : q[k].seqno = a[k - 1].pcb.rcv_nxt}
           m == Leading(set, l)
           d == Drain(r, q)
           rest == SubSeq(q, m + 1, l)
           At1(k, n) == Walked(i, was, a, fin, q, hi, e, r.pcb.state, k, n)
           S == {k \in Nat : k <= m /\ ~(\E n \in Nat : At1(k, n))}
<1>1. Half \in Nat /\ hi < Half
  BY Sizes
<1>2. /\ q \in Seq(Segment) /\ l \in Nat
      /\ \A j \in 1 .. l : Slot(i, q[j], lo, hi) /\ (q[j].fin => j = l)
      /\ \A x, y \in 1 .. l : x < y => Stop(i, q[x]) <= Pos(i, q[y].seqno)
  BY DEF Queued
<1>3. m \in 0 .. l /\ 1 .. m \subseteq set /\ m + 1 \notin set
  <2>1. set \in SUBSET (1 .. l)
    OBVIOUS
  <2> HIDE DEF set
  <2> QED
    BY <1>2, <2>1, LeadingIs
<1>4. d = [pcb |-> [a[m].pcb EXCEPT !.ooseq = rest],
           data |-> a[m].data, fin |-> HasFin(SubSeq(q, 1, m))]
  BY DrainIs
<1> HIDE DEF m
<1>5. \E n \in Nat : At1(0, n)
  <2>1. a[0] = r
    BY <1>2, AfterIs
  <2>2. (fin \/ (0 > 0 /\ q[0].fin)) = fin
    OBVIOUS
  <2>3. \A j \in 0 + 1 .. Len(q) : n0 <= Pos(i, q[j].seqno)
    OBVIOUS
  <2> HIDE DEF a
  <2>4. At1(0, n0)
    BY <2>1, <2>2, <2>3 DEF Walked
  <2> QED
    BY <2>4
<1>6. ASSUME NEW k \in Nat, k < m, NEW n \in Nat, At1(k, n) PROVE \E x \in Nat : At1(k + 1, x)
  <2>1. k + 1 \in 1 .. m /\ k < l /\ (k + 1) - 1 = k
    <3>1. m \in 0 .. l /\ k < m
      BY <1>3, <1>6
    <3> HIDE DEF l
    <3> QED
      BY <1>2, <3>1
  <2>2. q[k + 1].seqno = a[k].pcb.rcv_nxt
    <3>1. k + 1 \in set
      BY <1>3, <2>1
    <3> QED
      BY <2>1, <3>1
  <2> QED
    BY <1>6, <2>1, <2>2, WalkedNext
<1> HIDE DEF At1
<1>7. \E n \in Nat : At1(m, n)
  <2> SUFFICES ASSUME ~\E n \in Nat : At1(m, n) PROVE FALSE
    OBVIOUS
  <2>1. m \in S /\ S \in SUBSET Nat
    BY <1>2, <1>3
  <2> HIDE DEF S
  <2>2. PICK y \in S : \A k \in Nat : k < y => k \notin S
    BY <2>1, Least
  <2>3. y \in Nat /\ y <= m /\ ~(\E n \in Nat : At1(y, n))
    BY DEF S
  <2>4. y # 0
    BY <1>5, <2>3
  <2>5. y - 1 \in Nat /\ y - 1 < y /\ (y - 1) + 1 = y /\ y - 1 < m /\ y - 1 <= m
    BY <1>2, <1>3, <2>3, <2>4
  <2>6. \E n \in Nat : At1(y - 1, n)
    BY <2>2, <2>5 DEF S
  <2> QED
    BY <1>6, <2>3, <2>5, <2>6
<1>8. PICK n \in Nat : At1(m, n)
  BY <1>7
<1> DEFINE fm == fin \/ (m > 0 /\ q[m].fin)
<1>9. /\ Reached(i, was, a[m], n, hi, e, fm) /\ a[m].pcb.state = r.pcb.state
      /\ \A j \in m + 1 .. l : n <= Pos(i, q[j].seqno)
  BY <1>8 DEF At1, Walked
<1>10. /\ HasFin(SubSeq(q, 1, m)) \in BOOLEAN
       /\ HasFin(SubSeq(q, 1, m)) <=> m > 0 /\ q[m].fin
  <2>1. /\ HasFin(SubSeq(q, 1, m)) \in BOOLEAN
        /\ HasFin(SubSeq(q, 1, m)) => m > 0 /\ q[m].fin
    BY <1>3, FrontFin
  <2>2. ASSUME m > 0, q[m].fin PROVE HasFin(SubSeq(q, 1, m))
    <3> DEFINE f == SubSeq(q, 1, m)
    <3>1. f \in Seq(Segment) /\ Len(f) = m /\ \A k \in 1 .. m : f[k] = q[k]
      BY <1>2, <1>3, Split
    <3>2. m \in 1 .. m
      BY <1>2, <1>3, <2>2
    <3> HIDE DEF f
    <3>3. f[m].fin /\ m \in DOMAIN f
      BY <2>2, <3>1, <3>2
    <3>4. HasFin(f)
      BY <3>3 DEF HasFin
    <3> QED
      BY <3>4 DEF f
  <2> QED
    BY <2>1, <2>2
<1>11. /\ rest \in Seq(Segment) /\ Len(rest) = l - m
       /\ \A k \in 1 .. l - m : rest[k] = q[m + k]
  BY <1>2, <1>3, Split
<1>12. Queued(i, rest, lo, hi)
  BY <1>3, QueuedSplit
<1>13. fm => rest = <<>>
  <2>1. fm => m = l
    <3>1. fin => l = 0
      BY <1>2
    <3>2. ASSUME m > 0, q[m].fin PROVE m = l
      <4>1. m \in 1 .. l
        BY <1>2, <1>3, <3>2
      <4> QED
        BY <1>2, <3>2, <4>1
    <3> QED
      BY <1>2, <1>3, <3>1, <3>2
  <2> QED
    BY <1>2, <1>11, <2>1
<1> HIDE DEF rest, d, a
<1>14. a[m].pcb \in Connection /\ n = Pos(i, a[m].pcb.rcv_nxt)
  BY <1>9 DEF Reached, Open, Window
<1>15. ASSUME NEW k \in 1 .. Len(rest) PROVE n + 1 <= Pos(i, rest[k].seqno)
  <2>1. /\ m + 1 \in 1 .. l /\ m < l /\ (m + 1) - 1 = m
        /\ k \in 1 .. l - m /\ m + k \in m + 1 .. l
        /\ m + k \in 1 .. l /\ m + 1 \in m + 1 .. l
    BY <1>2, <1>3, <1>11
  <2>2. n <= Pos(i, q[m + 1].seqno)
    BY <1>9, <2>1
  <2>3. q[m + 1].seqno # a[m].pcb.rcv_nxt
    BY <1>3, <2>1
  <2>4. q[m + 1] \in Segment /\ q[m + k] \in Segment
    BY <1>2, <2>1
  <2>5. /\ q[m + 1].seqno \in 0 .. SEQ - 1 /\ Pos(i, q[m + 1].seqno) \in Nat
        /\ q[m + 1].len \in Nat /\ Pos(i, q[m + k].seqno) \in Nat
    BY <2>4, SegmentIs
  <2>6. Pos(i, q[m + 1].seqno) # n
    <3>1. a[m].pcb.rcv_nxt \in 0 .. SEQ - 1
      BY <1>14, ConnectionIs
    <3> QED
      <4> DEFINE x == q[m + 1].seqno
                 y == a[m].pcb.rcv_nxt
      <4>1. x \in 0 .. SEQ - 1 /\ y \in 0 .. SEQ - 1 /\ x # y /\ n = Pos(i, y)
        BY <1>14, <2>3, <2>5, <3>1
      <4> HIDE DEF x, y
      <4>2. Pos(i, x) # Pos(i, y)
        BY <4>1, PosEq
      <4> QED
        BY <4>1, <4>2 DEF x
  <2>7. Pos(i, q[m + 1].seqno) <= Pos(i, q[m + k].seqno)
    <3>1. CASE k = 1
      BY <2>5, <3>1
    <3>2. CASE k # 1
      <4>1. m + 1 < m + k
        BY <1>2, <1>3, <2>1, <3>2
      <4>2. Stop(i, q[m + 1]) <= Pos(i, q[m + k].seqno)
        BY <1>2, <2>1, <4>1
      <4> QED
        BY <2>5, <4>2 DEF Stop
    <3> QED
      BY <3>1, <3>2
  <2>8. rest[k] = q[m + k]
    BY <1>11, <2>1
  <2> QED
    BY <2>2, <2>5, <2>6, <2>7, <2>8
<1>16. Queued(i, rest, n + 1, hi)
  BY <1>12, <1>15, QueuedFrom
<1>17. d.fin \in BOOLEAN /\ fm \in BOOLEAN /\ (fm <=> fin \/ d.fin)
  BY <1>4, <1>10
<1>18. /\ d.pcb \in Connection /\ d.pcb.ooseq = rest /\ d.pcb.rcv_nxt = a[m].pcb.rcv_nxt
       /\ d.pcb.rcv_wnd = a[m].pcb.rcv_wnd /\ d.pcb.rcv_ann_wnd = a[m].pcb.rcv_ann_wnd
       /\ d.pcb.rcv_ann_right_edge = a[m].pcb.rcv_ann_right_edge
       /\ d.pcb.state = a[m].pcb.state /\ d.data = a[m].data
  BY <1>4, <1>11, <1>14 DEF Connection
<1>19. Reached(i, was, d, n, hi, e, fm)
  <2> HIDE DEF fm
  <2>1. Open(i, d.pcb, n, hi, e)
    BY <1>9, <1>18 DEF Reached, Open, Window
  <2> QED
    BY <1>9, <1>18, <2>1 DEF Reached
<1>20. /\ d.pcb.state = r.pcb.state /\ Queued(i, d.pcb.ooseq, n + 1, hi)
       /\ fm => d.pcb.ooseq = <<>>
  BY <1>9, <1>13, <1>16, <1>18
<1> HIDE DEF fm
<1> QED
  BY <1>17, <1>19, <1>20 DEF Drained, d

\* What tcp_receive leaves: the connection, the data and the FIN of r.
Received(i, was, r, hi, e, state) ==
    \E n \in Nat : /\ Reached(i, was, r, n, hi, e, r.fin)
                   /\ r.pcb.state = state
                   /\ Queued(i, r.pcb.ooseq, n + 1, hi)
                   /\ r.fin => r.pcb.ooseq = <<>>

LEMMA NothingIs ==
    ASSUME NEW i \in 0 .. SEQ - 1, NEW was \in Seq(0 .. StreamLen - 1), NEW c,
           NEW n \in Nat, NEW hi \in Nat, n <= hi, NEW e \in Nat, Open(i, c, n, hi, e),
           Passed(i, was, n), Room(i) => n = Len(was)
    PROVE  LET r == Nothing(c)
           IN  /\ Reached(i, was, r, n, hi, e, r.fin) /\ r.fin \in BOOLEAN /\ ~r.fin
               /\ r.pcb = c
<1> DEFINE r == Nothing(c)
<1>1. r.pcb = c /\ r.data = <<>> /\ r.fin = FALSE
  BY DEF Nothing
<1> HIDE DEF r
<1>2. was \o r.data = was
  BY <1>1, ConcatEmptySeq
<1>3. r.data \in Seq(0 .. StreamLen - 1)
  BY <1>1
<1>4. Len(was) \in Nat
  OBVIOUS
<1>5. Room(i) => n = Len(was) + IF r.fin THEN 1 ELSE 0
  BY <1>1, <1>4
<1>6. Reached(i, was, r, n, hi, e, r.fin)
  BY <1>1, <1>2, <1>3, <1>5 DEF Reached
<1> QED
  BY <1>1, <1>6 DEF r

\* A segment that begins at rcv_nxt, and the queued ones that follow.
LEMMA InSequenceIs ==
    ASSUME NEW i \in 0 .. SEQ - 1, NEW was \in Seq(0 .. StreamLen - 1), NEW c,
           NEW n \in Nat, NEW hi \in Nat, n <= hi, hi <= TCP_WND + StreamLen,
           NEW e \in Nat, Open(i, c, n, hi, e), Passed(i, was, n), Room(i) => n = Len(was),
           Queued(i, c.ooseq, n + 1, hi), NEW seg, Slot(i, seg, n, hi),
           Pos(i, seg.seqno) = n, Stop(i, seg) <= StreamLen
    PROVE  Received(i, was, InSequence(c, seg), hi, e, c.state)
<1> DEFINE m == Merged(seg, c.ooseq)
           s == m.seg
           q == m.ooseq
           t == Taken(Nothing(c), s)
           r == Drain(t, q)
           v == [r EXCEPT !.pcb = tcp_ack(r.pcb), !.fin = r.fin \/ s.fin]
           n0 == n + TCP_TCPLEN(s)
<1>1. Half \in Nat /\ hi < Half
  BY Sizes
<1>2. TrimToWindow(seg, c.rcv_wnd) = seg
  <2> DEFINE x == TCP_TCPLEN(seg)
             w == c.rcv_wnd
  <2>1. c \in Connection /\ n + w = hi
    BY DEF Open, Window
  <2>2. seg \in Segment /\ n + x <= hi
    BY DEF Slot, Piece
  <2>3. w \in Nat /\ x \in Nat
    BY <2>1, <2>2, ConnectionIs, SegmentIs
  <2> HIDE DEF x, w
  <2>4. ~(x > w)
    BY <2>1, <2>2, <2>3
  <2> QED
    BY <2>4 DEF TrimToWindow, x, w
<1>3. Joined(i, m, n, hi)
  BY <1>1, MergedIs
<1> HIDE DEF m
<1>4. /\ Slot(i, s, n, hi) /\ Pos(i, s.seqno) = n /\ Queued(i, q, n, hi)
      /\ \A k \in 1 .. Len(q) : n + TCP_TCPLEN(s) <= Pos(i, q[k].seqno)
      /\ s.fin \in BOOLEAN /\ (s.fin => q = <<>>)
  BY <1>3 DEF Joined
<1>5. /\ Reached(i, was, Nothing(c), n, hi, e, Nothing(c).fin)
      /\ Nothing(c).fin \in BOOLEAN /\ ~Nothing(c).fin /\ Nothing(c).pcb = c
  BY NothingIs
<1> HIDE DEF s, q
<1>6. Reached(i, was, t, n0, hi, e, s.fin) /\ t.pcb.state = c.state
  <2> DEFINE x == Nothing(c)
             f == x.fin
  <2>1. Reached(i, was, x, n, hi, e, f) /\ f \in BOOLEAN /\ ~f /\ x.pcb = c
    BY <1>5
  <2> HIDE DEF x, f
  <2>2. Reached(i, was, Taken(x, s), n0, hi, e, s.fin) /\ Taken(x, s).pcb.state = x.pcb.state
    BY <1>4, <2>1, TakenIs
  <2> QED
    BY <2>1, <2>2 DEF x
<1>7. n0 \in Nat
  BY <1>6 DEF Reached
<1> HIDE DEF t, n0
<1>8. PICK k \in Nat, all \in BOOLEAN :
              /\ Reached(i, was, r, k, hi, e, all)
              /\ r.fin \in BOOLEAN /\ (all <=> s.fin \/ r.fin)
              /\ r.pcb.state = t.pcb.state
              /\ Queued(i, r.pcb.ooseq, k + 1, hi)
              /\ all => r.pcb.ooseq = <<>>
  <2> DEFINE f == s.fin
  <2>1. /\ f \in BOOLEAN /\ (f => q = <<>>) /\ Reached(i, was, t, n0, hi, e, f)
        /\ \A k \in 1 .. Len(q) : n0 <= Pos(i, q[k].seqno)
    BY <1>4, <1>6 DEF n0
  <2>2. n \in Nat /\ n0 \in Nat /\ Queued(i, q, n, hi)
    BY <1>4, <1>7
  <2> HIDE DEF f
  <2>3. Drained(i, was, r, hi, e, f, t.pcb.state)
    BY <2>1, <2>2, DrainedIs, ZenonT(60)
  <2> HIDE DEF r
  <2> QED
    BY <2>3 DEF Drained, f
<1>9. r = [pcb |-> r.pcb, data |-> r.data, fin |-> r.fin]
  BY DEF Drain
<1>10. InSequence(c, seg) = v
  BY <1>2 DEF InSequence, m, s, q, t
<1> HIDE DEF r
<1>11. /\ v.pcb = tcp_ack(r.pcb) /\ v.data = r.data /\ v.fin = (r.fin \/ s.fin)
       /\ v.fin \in BOOLEAN
  BY <1>4, <1>8, <1>9
<1>12. v.fin = all
  BY <1>8, <1>11
<1> HIDE DEF v
<1>13. Open(i, v.pcb, k, hi, e) /\ Alike(r.pcb, v.pcb)
  <2> DEFINE x == r.pcb
  <2>1. Open(i, x, k, hi, e)
    BY <1>8 DEF Reached
  <2> HIDE DEF x
  <2>2. Open(i, tcp_ack(x), k, hi, e) /\ Alike(x, tcp_ack(x))
    BY <2>1, OpenFlagged DEF Flagged
  <2> QED
    BY <1>11, <2>2 DEF x
<1>14. Reached(i, was, v, k, hi, e, v.fin)
  <2>1. Reached(i, was, r, k, hi, e, v.fin)
    BY <1>8, <1>12
  <2> QED
    BY <1>11, <1>13, <2>1 DEF Reached
<1>15. /\ v.pcb.state = c.state /\ Queued(i, v.pcb.ooseq, k + 1, hi)
       /\ (v.fin => v.pcb.ooseq = <<>>)
  BY <1>6, <1>8, <1>12, <1>13 DEF Alike
<1> QED
  BY <1>10, <1>14, <1>15 DEF Received

-----------------------------------------------------------------------------
(***************************************************************************)
(* tcp_receive                                                             *)
(***************************************************************************)

\* A segment as the host sends it, from position a on.
Sent(i, seg, a) ==
    /\ Piece(i, seg) /\ Pos(i, seg.seqno) = a /\ Len(seg.p) = seg.len
    /\ a + seg.len <= StreamLen /\ TCP_TCPLEN(seg) > 0

\* The front that was received before is cut off.
LEMMA TrimFrontIs ==
    ASSUME NEW i \in 0 .. SEQ - 1, NEW seg, NEW a \in Nat, Sent(i, seg, a),
           NEW x \in 0 .. SEQ - 1, a < Pos(i, x), Pos(i, x) < a + TCP_TCPLEN(seg)
    PROVE  LET u == TrimFront(seg, x)
           IN  /\ Piece(i, u) /\ u.seqno = x
               /\ Pos(i, x) + TCP_TCPLEN(u) = a + TCP_TCPLEN(seg)
               /\ Pos(i, x) + u.len <= StreamLen
<1> DEFINE n == Pos(i, x)
           off == n - a
           l == seg.len
           p == seg.p
           h == SubSeq(p, off + 1, Len(p))
           u == [seg EXCEPT !.seqno = x, !.len = l - off, !.p = h]
<1>1. StreamLen \in Nat
  BY Sizes
<1>2. /\ seg \in Segment /\ (\A k \in 1 .. Len(p) : p[k] = a + k - 1) /\ Len(p) = l
      /\ Pos(i, seg.seqno) = a /\ a + l <= StreamLen
      /\ (seg.fin => a + l = StreamLen)
  BY DEF Sent, Piece
<1>3. /\ seg.seqno \in 0 .. SEQ - 1 /\ l \in Nat /\ seg.fin \in BOOLEAN
      /\ p \in Seq(0 .. StreamLen - 1)
      /\ TCP_TCPLEN(seg) = IF seg.fin THEN l + 1 ELSE l
  BY <1>2, SegmentIs
<1>4. n \in Nat /\ a < n /\ n < a + TCP_TCPLEN(seg)
  BY PosIs
<1>5. Sub(x, seg.seqno) = off
  <2>1. Sub(x, seg.seqno) = IF n >= a THEN n - a ELSE n - a + SEQ
    BY <1>2, <1>3, SubPos
  <2> HIDE DEF n
  <2> QED
    BY <1>4, <2>1
<1>6. off \in Nat /\ off <= l /\ n + (l - off) = a + l
  <2> HIDE DEF n, l
  <2> QED
    BY <1>3, <1>4
<1> DEFINE v == l - off
<1>7. v \in Nat /\ n + v = a + l /\ off + v = l
  <2> HIDE DEF off, l, n
  <2> QED
    BY <1>3, <1>4, <1>6
<1>8. TrimFront(seg, x) = u
  BY <1>2, <1>5 DEF TrimFront, Segment
<1>9. h \in Seq(0 .. StreamLen - 1) /\ Len(h) = v /\ \A k \in 1 .. v : h[k] = p[off + k]
  <2> HIDE DEF off, l, p, n
  <2>0. Len(p) = l /\ p \in Seq(0 .. StreamLen - 1) /\ off + 1 \in Nat /\ off + 1 >= 1
    BY <1>2, <1>3, <1>6
  <2>1. h = [k \in 1 .. v |-> p[off + k]]
    BY <1>3, <1>6, <2>0
  <2>2. ASSUME NEW k \in 1 .. v PROVE p[off + k] \in 0 .. StreamLen - 1
    <3> DEFINE j == off + k
               B == 0 .. StreamLen - 1
    <3>1. j \in 1 .. Len(p) /\ p \in Seq(B)
      BY <1>3, <1>6, <1>7, <2>0
    <3> HIDE DEF j, B
    <3>2. p[j] \in B
      BY <3>1
    <3> QED
      BY <3>2 DEF j, B
  <2> HIDE DEF v, h
  <2>3. h \in Seq(0 .. StreamLen - 1)
    BY <1>7, <2>1, <2>2
  <2> QED
    BY <1>7, <2>1, <2>3
<1>10. ASSUME NEW k \in 1 .. Len(h) PROVE h[k] = n + k - 1
  <2> HIDE DEF off, l, p, h, v, n
  <2>1. k \in 1 .. v /\ off + k \in 1 .. Len(p) /\ k \in Nat
    BY <1>2, <1>3, <1>6, <1>7, <1>9
  <2>2. p[off + k] = a + (off + k) - 1
    BY <1>2, <2>1
  <2>3. h[k] = p[off + k]
    BY <1>9, <2>1
  <2>4. a + off = n
    BY <1>4 DEF off
  <2> QED
    BY <1>4, <1>6, <2>1, <2>2, <2>3, <2>4
<1>11. u = [seg EXCEPT !.seqno = x, !.len = v, !.p = h]
  OBVIOUS
<1> HIDE DEF u, v, h, off
<1>12. u \in Segment /\ u.seqno = x /\ u.len = v /\ u.p = h /\ u.fin = seg.fin
  BY <1>2, <1>7, <1>9, <1>11 DEF Segment
<1>13. TCP_TCPLEN(u) = IF seg.fin THEN v + 1 ELSE v
  BY <1>12, SegmentIs
<1> HIDE DEF l, n, p
<1>14. n + TCP_TCPLEN(u) = a + TCP_TCPLEN(seg)
  BY <1>3, <1>4, <1>7, <1>13
<1>15. n + v <= StreamLen /\ (seg.fin => n + v = StreamLen) /\ v <= v
  BY <1>2, <1>7
<1>16. Piece(i, u)
  BY <1>9, <1>10, <1>12, <1>15 DEF Piece, n
<1> QED
  BY <1>8, <1>12, <1>14, <1>15, <1>16 DEF n

\* The comparisons of tcp_receive, as positions: does the segment reach back over
\* rcv_nxt, at x?
LEMMA OldIs ==
    ASSUME NEW i \in 0 .. SEQ - 1, NEW seg, NEW a \in Nat, Sent(i, seg, a),
           NEW x \in 0 .. SEQ - 1, Pos(i, x) < Half
    PROVE  SEQ_BETWEEN(x, Add(seg.seqno, 1), Add(seg.seqno, TCP_TCPLEN(seg) - 1)) <=>
              a < Pos(i, x) /\ Pos(i, x) < a + TCP_TCPLEN(seg)
<1> DEFINE n == Pos(i, x)
           t == TCP_TCPLEN(seg)
           s == seg.seqno
           y == Add(s, 1)
           z == Add(s, t - 1)
<1>1. /\ Half \in Nat /\ 2 * Half = SEQ /\ StreamLen \in Nat /\ TCP_WND \in Nat \ {0}
      /\ TCP_WND + StreamLen < Half
  BY Sizes
<1>2. seg \in Segment /\ Pos(i, s) = a /\ a + seg.len <= StreamLen /\ t > 0
  BY DEF Sent, Piece
<1>3. /\ s \in 0 .. SEQ - 1 /\ seg.len \in Nat /\ t \in Nat
      /\ t = IF seg.fin THEN seg.len + 1 ELSE seg.len
  BY <1>2, SegmentIs
<1>4. n \in Nat /\ n < Half
  BY PosIs
<1> HIDE DEF s, t
<1>5. /\ t - 1 \in Nat /\ a + t <= StreamLen + 1 /\ a + (t - 1) < Half /\ a + 1 < Half + 1
      /\ a + (t - 1) < SEQ /\ a + 1 < SEQ /\ a + 1 <= Half
  BY <1>1, <1>2, <1>3
<1>6. y \in 0 .. SEQ - 1 /\ Pos(i, y) = a + 1
  BY <1>2, <1>3, <1>5, AddPos
<1>7. z \in 0 .. SEQ - 1 /\ Pos(i, z) = a + (t - 1)
  <2> DEFINE d == t - 1
  <2>1. d \in Nat /\ Pos(i, s) + d < SEQ
    BY <1>2, <1>5
  <2> HIDE DEF d
  <2>2. Add(s, d) \in 0 .. SEQ - 1 /\ Pos(i, Add(s, d)) = a + d
    BY <1>2, <1>3, <2>1, AddPos
  <2> QED
    BY <2>2 DEF d
<1> HIDE DEF y, z
<1>8. SEQ_GEQ(x, y) <=> n >= a + 1
  <2>1. Pos(i, x) - Pos(i, y) < Half /\ Pos(i, y) - Pos(i, x) <= Half
    BY <1>1, <1>4, <1>5, <1>6
  <2>2. SEQ_GEQ(x, y) <=> Pos(i, x) >= Pos(i, y)
    BY <1>6, <2>1, GeqPos
  <2> QED
    BY <1>6, <2>2
<1>9. SEQ_GEQ(z, x) <=> a + (t - 1) >= n
  <2>1. Pos(i, z) - Pos(i, x) < Half /\ Pos(i, x) - Pos(i, z) <= Half
    BY <1>1, <1>4, <1>5, <1>7
  <2>2. SEQ_GEQ(z, x) <=> Pos(i, z) >= Pos(i, x)
    BY <1>7, <2>1, GeqPos
  <2> QED
    BY <1>7, <2>2
<1> HIDE DEF n
<1>10. SEQ_BETWEEN(x, y, z) <=> a < n /\ n < a + t
  BY <1>3, <1>4, <1>8, <1>9 DEF SEQ_BETWEEN
<1> QED
  BY <1>10 DEF n, t, y, z, s

LEMMA NothingReceived ==
    ASSUME NEW i \in 0 .. SEQ - 1, NEW was \in Seq(0 .. StreamLen - 1), NEW c,
           NEW n \in Nat, NEW hi \in Nat, n <= hi, NEW e \in Nat, Open(i, c, n, hi, e),
           Passed(i, was, n), Room(i) => n = Len(was), Queued(i, c.ooseq, n + 1, hi)
    PROVE  Received(i, was, Nothing(c), hi, e, c.state)
<1> DEFINE r == Nothing(c)
<1>1. Reached(i, was, r, n, hi, e, r.fin) /\ r.fin \in BOOLEAN /\ ~r.fin /\ r.pcb = c
  BY NothingIs
<1> HIDE DEF r
<1>2. Received(i, was, r, hi, e, c.state)
  BY <1>1 DEF Received
<1> QED
  BY <1>2 DEF r

\* tcp_receive, for any segment that the host may have sent.
LEMMA ReceiveIs ==
    ASSUME NEW i \in 0 .. SEQ - 1, NEW was \in Seq(0 .. StreamLen - 1), NEW c,
           NEW n \in Nat, NEW hi \in Nat, n <= hi, hi <= TCP_WND + StreamLen,
           NEW e \in Nat, Open(i, c, n, hi, e), Passed(i, was, n), Room(i) => n = Len(was),
           Queued(i, c.ooseq, n + 1, hi), NEW seg, NEW a \in Nat, Sent(i, seg, a),
           a + TCP_TCPLEN(seg) <= hi \/ TCP_TCPLEN(seg) = 1,
           NEW copied \in BOOLEAN, NEW mem \in BOOLEAN
    PROVE  Received(i, was, tcp_receive(c, seg, copied, mem), hi, e, c.state)
<1> DEFINE old == SEQ_BETWEEN(c.rcv_nxt, Add(seg.seqno, 1),
                              Add(seg.seqno, TCP_TCPLEN(seg) - 1))
           cut == IF old THEN TrimFront(seg, c.rcv_nxt) ELSE seg
           noted == IF ~old /\ SEQ_LT(seg.seqno, c.rcv_nxt) THEN tcp_ack_now(c) ELSE c
           within == SEQ_BETWEEN(cut.seqno, c.rcv_nxt, Sub(Add(c.rcv_nxt, c.rcv_wnd), 1))
           queue == IF copied THEN QueueOoseq(c, cut) ELSE noted.ooseq
           t == TCP_TCPLEN(seg)
           y == c.rcv_nxt
           w == c.rcv_wnd
           r == tcp_receive(c, seg, copied, mem)
<1>1. /\ Half \in Nat /\ hi < Half /\ StreamLen \in Nat /\ TCP_WND \in Nat \ {0}
      /\ TCP_WND + StreamLen < Half
  BY Sizes
<1>2. c \in Connection /\ n + w = hi /\ n = Pos(i, y)
  BY DEF Open, Window
<1>3. y \in 0 .. SEQ - 1 /\ w \in Nat
  BY <1>2, ConnectionIs
<1>4. /\ seg \in Segment /\ Piece(i, seg) /\ Pos(i, seg.seqno) = a
      /\ a + seg.len <= StreamLen /\ t > 0
  BY DEF Sent, Piece
<1>5. t \in Nat /\ seg.len \in Nat
  BY <1>4, SegmentIs
<1>6. old <=> a < n /\ n < a + t
  <2>1. Pos(i, y) < Half
    <3> HIDE DEF y
    <3> QED
      BY <1>1, <1>2
  <2> QED
    BY <1>2, <1>3, <2>1, OldIs
<1>7. Open(i, noted, n, hi, e) /\ Alike(c, noted)
  <2>1. Open(i, tcp_ack_now(c), n, hi, e) /\ Alike(c, tcp_ack_now(c))
    BY OpenFlagged DEF Flagged
  <2>2. noted = c \/ noted = tcp_ack_now(c)
    OBVIOUS
  <2> HIDE DEF noted
  <2> QED
    BY <2>1, <2>2 DEF Alike
<1>8. r = CASE ~within -> Nothing(tcp_send_empty_ack(noted, mem))
            [] within /\ cut.seqno = y -> InSequence(noted, cut)
            [] within /\ cut.seqno # y ->
                 Nothing(tcp_send_empty_ack([noted EXCEPT !.ooseq = queue], mem))
  BY <1>7 DEF tcp_receive
<1> HIDE DEF noted
<1> DEFINE b == Pos(i, cut.seqno)
           v == TCP_TCPLEN(cut)
<1>9. /\ Piece(i, cut) /\ cut.seqno \in 0 .. SEQ - 1 /\ b \in Nat /\ b < Half
      /\ b + cut.len <= StreamLen /\ v \in Nat /\ (b < hi => b + v <= hi)
  <2>1. CASE ~old
    <3>1. cut = seg
      BY <2>1
    <3> HIDE DEF cut
    <3>2. seg.seqno \in 0 .. SEQ - 1
      BY <1>4, SegmentIs
    <3>3. a < Half /\ (a < hi => a + t <= hi)
      <4> HIDE DEF t
      <4>1. a + t <= hi \/ t = 1
        BY DEF t
      <4> QED
        BY <1>1, <1>4, <1>5, <4>1
    <3> QED
      BY <1>4, <1>5, <3>1, <3>2, <3>3
  <2>2. CASE old
    <3>1. cut = TrimFront(seg, y)
      BY <2>2
    <3>2. a < n /\ n < a + t
      BY <1>6, <2>2
    <3> HIDE DEF cut, y
    <3>3. /\ Piece(i, cut) /\ cut.seqno = y /\ n + v = a + t /\ n + cut.len <= StreamLen
      BY <1>2, <1>3, <3>1, <3>2, TrimFrontIs
    <3>4. cut \in Segment
      BY <3>3 DEF Piece
    <3>5. v \in Nat
      BY <3>4, SegmentIs
    <3>6. b = n
      BY <1>2, <3>3
    <3>7. a + t <= hi
      <4> HIDE DEF t
      <4>1. a + t <= hi \/ t = 1
        BY DEF t
      <4> QED
        BY <1>1, <1>4, <1>5, <3>2, <4>1
    <3>8. n < Half
      BY <1>1
    <3> QED
      BY <1>3, <3>3, <3>5, <3>6, <3>7, <3>8
  <2> QED
    BY <2>1, <2>2
<1> HIDE DEF cut
<1>10. within <=> n <= b /\ b < hi
  <2> DEFINE x == cut.seqno
  <2>1. x \in 0 .. SEQ - 1 /\ Pos(i, x) < Half /\ Pos(i, y) + w < Half
    BY <1>1, <1>2, <1>9
  <2>2. within <=> SEQ_BETWEEN(x, y, Sub(Add(y, w), 1))
    OBVIOUS
  <2> HIDE DEF x, y, w, within
  <2>3. SEQ_BETWEEN(x, y, Sub(Add(y, w), 1)) <=>
          Pos(i, y) <= Pos(i, x) /\ Pos(i, x) < Pos(i, y) + w
    BY <1>3, <2>1, WithinPos
  <2>4. b = Pos(i, x)
    BY DEF x
  <2> QED
    BY <1>2, <2>2, <2>3, <2>4
<1> HIDE DEF within
<1>11. CASE ~within
  <2> DEFINE u == tcp_send_empty_ack(noted, mem)
  <2>1. r = Nothing(u)
    BY <1>8, <1>11
  <2>2. Open(i, u, n, hi, e) /\ Alike(noted, u)
    BY <1>7, OpenAnswered DEF Answered
  <2> HIDE DEF u
  <2>3. u.state = c.state /\ Queued(i, u.ooseq, n + 1, hi)
    BY <1>7, <2>2 DEF Alike
  <2>4. Received(i, was, Nothing(u), hi, e, u.state)
    BY <2>2, <2>3, NothingReceived
  <2> QED
    BY <2>1, <2>3, <2>4
<1>12. CASE within /\ cut.seqno = y
  <2>1. r = InSequence(noted, cut)
    BY <1>8, <1>12
  <2>2. b = n
    BY <1>2, <1>12
  <2>3. Slot(i, cut, n, hi) /\ Stop(i, cut) <= StreamLen
    BY <1>9, <1>10, <1>12, <2>2 DEF Slot, Stop
  <2>4. noted.state = c.state /\ Queued(i, noted.ooseq, n + 1, hi)
    BY <1>7 DEF Alike
  <2>5. Received(i, was, InSequence(noted, cut), hi, e, noted.state)
    BY <1>7, <2>2, <2>3, <2>4, InSequenceIs
  <2> QED
    BY <2>1, <2>4, <2>5
<1>13. CASE within /\ cut.seqno # y
  <2> DEFINE d == [noted EXCEPT !.ooseq = queue]
             u == tcp_send_empty_ack(d, mem)
  <2>1. r = Nothing(u)
    BY <1>8, <1>13
  <2>2. b # n
    <3> DEFINE x == cut.seqno
    <3>1. x \in 0 .. SEQ - 1 /\ x # y
      BY <1>9, <1>13
    <3> HIDE DEF x, y
    <3>2. Pos(i, x) # Pos(i, y)
      BY <1>3, <3>1, PosEq
    <3> QED
      BY <1>2, <3>2 DEF x
  <2>3. n + 1 <= b /\ b + v <= hi /\ n + 1 \in Nat
    <3> HIDE DEF b, v
    <3> QED
      BY <1>9, <1>10, <1>13, <2>2
  <2>4. Slot(i, cut, n + 1, hi) /\ Stop(i, cut) <= StreamLen
    BY <1>9, <2>3 DEF Slot, Stop
  <2>5. Queued(i, QueueOoseq(c, cut), n + 1, hi)
    BY <1>2, <1>3, <2>3, <2>4, QueueOoseqIs
  <2>6. Queued(i, queue, n + 1, hi)
    <3>1. noted.ooseq = c.ooseq
      BY <1>7 DEF Alike
    <3> QED
      BY <2>5, <3>1
  <2> HIDE DEF queue
  <2>7. queue \in Seq(Segment)
    BY <2>6 DEF Queued
  <2>8. Open(i, d, n, hi, e) /\ d.ooseq = queue /\ d.state = c.state
    <3>1. noted \in Connection
      BY <1>7 DEF Open, Window
    <3>2. /\ d \in Connection /\ d.ooseq = queue /\ d.rcv_nxt = noted.rcv_nxt
          /\ d.rcv_wnd = noted.rcv_wnd /\ d.rcv_ann_wnd = noted.rcv_ann_wnd
          /\ d.rcv_ann_right_edge = noted.rcv_ann_right_edge /\ d.state = noted.state
      BY <2>7, <3>1 DEF Connection
    <3> HIDE DEF d
    <3> QED
      BY <1>7, <3>2 DEF Open, Window, Alike
  <2> HIDE DEF d
  <2>9. Open(i, u, n, hi, e) /\ Alike(d, u)
    BY <2>8, OpenAnswered DEF Answered
  <2> HIDE DEF u
  <2>10. u.state = c.state /\ Queued(i, u.ooseq, n + 1, hi)
    BY <2>6, <2>8, <2>9 DEF Alike
  <2>11. Received(i, was, Nothing(u), hi, e, u.state)
    BY <2>9, <2>10, NothingReceived
  <2> QED
    BY <2>1, <2>10, <2>11
<1> QED
  BY <1>11, <1>12, <1>13

-----------------------------------------------------------------------------
(***************************************************************************)
(* The steps                                                               *)
(***************************************************************************)

LEMMA QueuedTo ==
    ASSUME NEW i \in 0 .. SEQ - 1, NEW q, NEW lo \in Nat, NEW hi \in Nat, NEW to \in Nat,
           Queued(i, q, lo, hi), hi <= to
    PROVE  Queued(i, q, lo, to)
<1>1. /\ q \in Seq(Segment)
      /\ \A k \in 1 .. Len(q) : Slot(i, q[k], lo, hi) /\ (q[k].fin => k = Len(q))
      /\ \A j, k \in 1 .. Len(q) : j < k => Stop(i, q[j]) <= Pos(i, q[k].seqno)
  BY DEF Queued
<1>2. ASSUME NEW k \in 1 .. Len(q) PROVE Slot(i, q[k], lo, to)
  <2> DEFINE s == q[k]
             x == Pos(i, s.seqno)
             t == TCP_TCPLEN(s)
  <2>1. Piece(i, s) /\ lo <= x /\ x + t <= hi /\ s \in Segment
    BY <1>1 DEF Slot, Piece
  <2> HIDE DEF s
  <2>2. x \in Nat /\ t \in Nat
    BY <2>1, SegmentIs
  <2> HIDE DEF x, t
  <2>3. x + t <= to
    BY <2>1, <2>2
  <2>4. Slot(i, s, lo, to)
    BY <2>1, <2>3 DEF Slot, x, t
  <2> QED
    BY <2>4 DEF s
<1> QED
  BY <1>1, <1>2 DEF Queued

\* What tcp_input does after tcp_receive: http_recv is given the data and the FIN.
Handed(r, mem) ==
    LET taken == IF r.data # <<>> THEN tcp_recved(r.pcb, Len(r.data)) ELSE r.pcb
        closed == IF r.fin
                  THEN FinCounted(tcp_ack_now([taken EXCEPT !.state = "CLOSE_WAIT"]))
                  ELSE taken
    IN  tcp_output(closed, mem)

LEMMA HandedIs ==
    ASSUME NEW i \in ISNs, NEW was \in Seq(0 .. StreamLen - 1), NEW r, NEW hi \in Nat,
           hi <= TCP_WND + Len(was), NEW e \in Nat,
           Received(i, was, r, hi, e, "ESTABLISHED"), NEW mem \in BOOLEAN
    PROVE  /\ Sound(i, Handed(r, mem), was \o r.data, r.fin)
           /\ e <= Pos(i, Handed(r, mem).rcv_ann_right_edge)
<1> DEFINE d == r.data
           full == was \o d
           c == r.pcb
           taken == IF d # <<>> THEN tcp_recved(c, Len(d)) ELSE c
           closed == IF r.fin
                     THEN FinCounted(tcp_ack_now([taken EXCEPT !.state = "CLOSE_WAIT"]))
                     ELSE taken
           z == tcp_output(closed, mem)
<1>0. i \in 0 .. SEQ - 1 /\ TCP_WND \in Nat /\ StreamLen \in Nat
  BY Sizes
<1>1. Handed(r, mem) = z
  BY DEF Handed
<1>2. PICK n \in Nat : /\ Reached(i, was, r, n, hi, e, r.fin) /\ c.state = "ESTABLISHED"
                       /\ Queued(i, c.ooseq, n + 1, hi) /\ (r.fin => c.ooseq = <<>>)
  BY DEF Received
<1>3. /\ n <= hi /\ Open(i, c, n, hi, e) /\ d \in Seq(0 .. StreamLen - 1)
      /\ Passed(i, full, n) /\ (Room(i) => n = Len(full) + IF r.fin THEN 1 ELSE 0)
      /\ r.fin \in BOOLEAN /\ (r.fin => n = StreamLen + 1)
  BY <1>2 DEF Reached
<1>4. /\ Len(full) = Len(was) + Len(d) /\ Len(was) \in Nat /\ Len(d) \in Nat
      /\ full \in Seq(0 .. StreamLen - 1)
  <2>1. Len(full) = Len(was) + Len(d) /\ full \in Seq(0 .. StreamLen - 1)
    BY <1>3, ConcatProperties, Zenon
  <2> QED
    BY <1>3, <2>1
<1>5. Len(full) <= StreamLen
  BY <1>3 DEF Passed
<1> HIDE DEF full, c, d
<1>6. hi + Len(d) <= TCP_WND + Len(full) /\ hi + Len(d) <= TCP_WND + StreamLen
  BY <1>0, <1>4, <1>5
<1>7. \E x \in Nat : /\ Open(i, taken, n, x, e) /\ hi <= x /\ x <= hi + Len(d)
                     /\ taken.state = c.state /\ taken.ooseq = c.ooseq
  <2>1. CASE d # <<>>
    <3>1. taken = tcp_recved(c, Len(d))
      BY <2>1
    <3> DEFINE len == Len(d)
    <3> HIDE DEF taken, len
    <3>2. len \in Nat /\ hi + len <= TCP_WND + StreamLen /\ taken = tcp_recved(c, len)
      BY <1>4, <1>6, <3>1 DEF len
    <3>3. Wider(i, c, tcp_recved(c, len), n, hi, len, e)
      BY <1>0, <1>3, <3>2, RecvedIs
    <3> QED
      BY <3>2, <3>3 DEF Wider, len
  <2>2. CASE d = <<>>
    BY <1>3, <1>4, <2>2
  <2> QED
    BY <2>1, <2>2
<1>8. PICK to \in Nat : /\ Open(i, taken, n, to, e) /\ hi <= to /\ to <= hi + Len(d)
                        /\ taken.state = c.state /\ taken.ooseq = c.ooseq
  BY <1>7
<1> HIDE DEF taken
<1>9. CASE ~r.fin
  <2>1. z = tcp_output(taken, mem)
    BY <1>9
  <2>2. Open(i, z, n, to, e) /\ Alike(taken, z)
    BY <1>0, <1>8, <2>1, OpenAnswered DEF Answered
  <2> HIDE DEF z
  <2>3. /\ z.state = "ESTABLISHED" /\ z.rcv_ann_wnd <= z.rcv_wnd /\ n + z.rcv_wnd = to
        /\ Window(i, z, n) /\ n = Pos(i, z.rcv_nxt) /\ e <= Pos(i, z.rcv_ann_right_edge)
        /\ z.ooseq = c.ooseq
    BY <1>2, <1>8, <2>2 DEF Open, Window, Alike
  <2>4. to <= TCP_WND + Len(full)
    BY <1>0, <1>4, <1>6, <1>8
  <2>5. Queued(i, z.ooseq, n + 1, to)
    BY <1>0, <1>2, <1>8, <2>3, QueuedTo
  <2>6. Sound(i, z, full, r.fin)
    BY <1>3, <1>9, <2>3, <2>4, <2>5 DEF Sound
  <2> QED
    BY <1>1, <2>3, <2>6 DEF full, d
<1>10. CASE r.fin
  <2> DEFINE x == [taken EXCEPT !.state = "CLOSE_WAIT"]
             y == tcp_ack_now(x)
             f == FinCounted(y)
  <2>1. z = tcp_output(f, mem)
    BY <1>10
  <2>2. Window(i, x, n) /\ e <= Pos(i, x.rcv_ann_right_edge) /\ x.state = "CLOSE_WAIT"
        /\ x.ooseq = <<>>
    <3>1. taken \in Connection
      BY <1>8 DEF Open, Window
    <3>2. /\ x \in Connection /\ x.state = "CLOSE_WAIT" /\ x.ooseq = taken.ooseq
          /\ x.rcv_nxt = taken.rcv_nxt /\ x.rcv_ann_wnd = taken.rcv_ann_wnd
          /\ x.rcv_ann_right_edge = taken.rcv_ann_right_edge
      BY <3>1 DEF Connection
    <3> HIDE DEF x
    <3> QED
      BY <1>2, <1>8, <1>10, <3>2 DEF Open, Window
  <2> HIDE DEF x
  <2>3. Window(i, y, n) /\ e <= Pos(i, y.rcv_ann_right_edge) /\ Alike(x, y)
    BY <2>2, FlaggedIs DEF Flagged
  <2> HIDE DEF y
  <2>4. Window(i, f, n) /\ e <= Pos(i, f.rcv_ann_right_edge) /\ f.state = "CLOSE_WAIT"
        /\ f.ooseq = <<>>
    <3> DEFINE w == y.rcv_wnd
               v == IF w # TCP_WND THEN w + 1 ELSE w
    <3>1. y \in Connection
      BY <2>3 DEF Window
    <3>2. w \in Nat /\ w <= TCP_WND
      BY <1>0, <3>1, ConnectionIs
    <3>3. v \in 0 .. TCP_WND
      BY <1>0, <3>2
    <3>4. f = [y EXCEPT !.rcv_wnd = v]
      BY <3>1 DEF FinCounted, Connection
    <3> HIDE DEF v, f
    <3>5. /\ f \in Connection /\ f.state = y.state /\ f.ooseq = y.ooseq
          /\ f.rcv_nxt = y.rcv_nxt /\ f.rcv_ann_wnd = y.rcv_ann_wnd
          /\ f.rcv_ann_right_edge = y.rcv_ann_right_edge
      BY <3>1, <3>3, <3>4 DEF Connection
    <3> QED
      BY <2>2, <2>3, <3>5 DEF Window, Alike
  <2> HIDE DEF f
  <2>5. Window(i, z, n) /\ e <= Pos(i, z.rcv_ann_right_edge) /\ Alike(f, z)
    BY <1>0, <2>1, <2>4, AnsweredIs DEF Answered
  <2> HIDE DEF z
  <2>6. z.state = "CLOSE_WAIT" /\ z.ooseq = <<>> /\ n = Pos(i, z.rcv_nxt)
    BY <2>4, <2>5 DEF Alike, Window
  <2>7. Sound(i, z, full, r.fin)
    BY <1>3, <1>10, <2>5, <2>6 DEF Sound
  <2> QED
    BY <1>1, <2>5, <2>7 DEF full, d
<1> QED
  BY <1>9, <1>10

\* The host's segments hold the bytes of their places.
LEMMA CutIs ==
    ASSUME isn \in ISNs, NEW a \in Nat, NEW len \in Nat, NEW fin \in BOOLEAN,
           a + len <= StreamLen, fin => a + len = StreamLen, len > 0 \/ fin
    PROVE  Sent(isn, Cut(a, a + len, fin), a)
<1> DEFINE s == Cut(a, a + len, fin)
           x == Add(isn, a)
           p == [k \in 1 .. len |-> a + k - 1]
<1>0. /\ isn \in 0 .. SEQ - 1 /\ SEQ \in Nat \ {0} /\ StreamLen \in Nat /\ TCP_WND \in Nat
      /\ Half \in Nat /\ 2 * Half = SEQ /\ TCP_WND + StreamLen < Half
  BY Sizes
<1>1. (a + len) - a = len
  OBVIOUS
<1>2. s = [seqno |-> x, len |-> len, p |-> p, fin |-> fin]
  BY <1>1 DEF Cut
<1>3. x \in 0 .. SEQ - 1 /\ Pos(isn, x) = a
  <2>1. Pos(isn, isn) = 0
    BY <1>0, PosIs
  <2>2. Pos(isn, isn) + a < SEQ /\ Pos(isn, isn) + a = a
    BY <1>0, <2>1
  <2> QED
    BY <1>0, <2>2, AddPos
<1>4. p \in Seq(0 .. StreamLen - 1) /\ Len(p) = len /\ \A k \in 1 .. len : p[k] = a + k - 1
  BY <1>0
<1> HIDE DEF x, p
<1>5. /\ s \in Segment /\ s.seqno = x /\ s.len = len /\ s.p = p /\ s.fin = fin
  BY <1>2, <1>3, <1>4 DEF Segment
<1> HIDE DEF s
<1>6. TCP_TCPLEN(s) = IF fin THEN len + 1 ELSE len
  BY <1>0, <1>5, SegmentIs
<1>7. TCP_TCPLEN(s) > 0
  BY <1>6
<1>8. Piece(isn, s)
  BY <1>3, <1>4, <1>5 DEF Piece
<1> QED
  BY <1>3, <1>4, <1>5, <1>7, <1>8 DEF Sent, s

\* An acknowledgement changes nothing but the announced edge.
LEMMA SoundAlike ==
    ASSUME NEW i, NEW c, NEW was, NEW done, Sound(i, c, was, done), NEW u, Alike(c, u),
           Window(i, u, Pos(i, c.rcv_nxt))
    PROVE  Sound(i, u, was, done)
  BY DEF Sound, Alike

LEMMA SoundFlagged ==
    ASSUME NEW i, NEW c, NEW was, NEW done, Sound(i, c, was, done), NEW u \in Flagged(c)
    PROVE  Sound(i, u, was, done) /\ u.rcv_ann_right_edge = c.rcv_ann_right_edge
<1> DEFINE n == Pos(i, c.rcv_nxt)
<1>1. Window(i, c, n)
  BY DEF Sound
<1> HIDE DEF n
<1>2. Window(i, u, n) /\ Alike(c, u) /\ u.rcv_ann_right_edge = c.rcv_ann_right_edge
  BY <1>1, FlaggedIs
<1> QED
  BY <1>2, SoundAlike DEF n

LEMMA SoundAnswered ==
    ASSUME NEW i, NEW c, NEW was, NEW done, Sound(i, c, was, done), NEW e \in Nat,
           e <= Pos(i, c.rcv_ann_right_edge), NEW mem \in BOOLEAN, NEW u \in Answered(c, mem)
    PROVE  Sound(i, u, was, done) /\ e <= Pos(i, u.rcv_ann_right_edge)
<1> DEFINE n == Pos(i, c.rcv_nxt)
<1>1. i \in ISNs /\ Window(i, c, n) /\ c \in Connection
  BY DEF Sound, Window
<1>2. i \in 0 .. SEQ - 1
  BY <1>1, Sizes
<1>3. n \in Nat
  BY <1>1, <1>2, ConnectionIs
<1> HIDE DEF n
<1>4. Window(i, u, n) /\ e <= Pos(i, u.rcv_ann_right_edge) /\ Alike(c, u)
  BY <1>1, <1>2, <1>3, AnsweredIs
<1> QED
  BY <1>4, SoundAlike DEF n

\* The facts of the invariant while segments may follow.
LEMMA SoundOpen ==
    ASSUME NEW i, NEW c, NEW was, NEW done, Sound(i, c, was, done), ~done
    PROVE  LET n == Pos(i, c.rcv_nxt)
               hi == n + c.rcv_wnd
               e == Pos(i, c.rcv_ann_right_edge)
           IN  /\ i \in ISNs /\ i \in 0 .. SEQ - 1 /\ was \in Seq(0 .. StreamLen - 1)
               /\ n \in Nat /\ hi \in Nat /\ e \in Nat /\ n <= hi /\ e <= hi
               /\ hi <= TCP_WND + StreamLen /\ hi <= TCP_WND + Len(was)
               /\ Open(i, c, n, hi, e) /\ c.state = "ESTABLISHED" /\ Passed(i, was, n)
               /\ (Room(i) => n = Len(was)) /\ Queued(i, c.ooseq, n + 1, hi)
<1> DEFINE n == Pos(i, c.rcv_nxt)
           w == c.rcv_wnd
           hi == n + w
           e == Pos(i, c.rcv_ann_right_edge)
<1>1. /\ i \in ISNs /\ Window(i, c, n) /\ c \in Connection /\ Passed(i, was, n)
      /\ c.state = "ESTABLISHED" /\ c.rcv_ann_wnd <= w /\ hi <= TCP_WND + Len(was)
      /\ Queued(i, c.ooseq, n + 1, hi) /\ e <= n + c.rcv_ann_wnd
      /\ (Room(i) => n = Len(was) + 0)
  BY DEF Sound, Window
<1>2. i \in 0 .. SEQ - 1 /\ TCP_WND \in Nat /\ StreamLen \in Nat
  BY <1>1, Sizes
<1>3. n \in Nat /\ w \in Nat /\ e \in Nat /\ c.rcv_ann_wnd \in Nat
  BY <1>1, <1>2, ConnectionIs
<1>4. was \in Seq(0 .. StreamLen - 1) /\ Len(was) <= StreamLen
  BY <1>1 DEF Passed
<1>5. Len(was) \in Nat
  BY <1>4
<1>6. Open(i, c, n, hi, e)
  <2>1. e <= e
    BY <1>3
  <2> QED
    BY <1>1, <2>1 DEF Open
<1> HIDE DEF n, w, e
<1>7. hi \in Nat /\ n <= hi /\ e <= hi /\ hi <= TCP_WND + StreamLen
  BY <1>1, <1>2, <1>3, <1>4, <1>5
<1>8. Room(i) => n = Len(was)
  BY <1>1, <1>5
<1> QED
  BY <1>1, <1>2, <1>3, <1>4, <1>6, <1>7, <1>8 DEF n, w, e

\* tcp_input, while segments may follow.
LEMMA InputSound ==
    ASSUME NEW i, NEW c, NEW was, NEW done, Sound(i, c, was, done), ~done,
           NEW seg, NEW a \in Nat, Sent(i, seg, a), NEW copied \in BOOLEAN, NEW mem \in BOOLEAN,
           a + TCP_TCPLEN(seg) <= Pos(i, c.rcv_ann_right_edge) \/ TCP_TCPLEN(seg) = 1
    PROVE  LET r == tcp_receive(c, seg, copied, mem)
           IN  /\ Sound(i, Handed(r, mem), was \o r.data, r.fin) /\ r.fin \in BOOLEAN
               /\ Pos(i, c.rcv_ann_right_edge) <= Pos(i, Handed(r, mem).rcv_ann_right_edge)
<1> DEFINE n == Pos(i, c.rcv_nxt)
           hi == n + c.rcv_wnd
           e == Pos(i, c.rcv_ann_right_edge)
           t == TCP_TCPLEN(seg)
           r == tcp_receive(c, seg, copied, mem)
<1>1. /\ i \in ISNs /\ i \in 0 .. SEQ - 1 /\ was \in Seq(0 .. StreamLen - 1)
      /\ n \in Nat /\ hi \in Nat /\ e \in Nat /\ n <= hi /\ e <= hi
      /\ hi <= TCP_WND + StreamLen /\ hi <= TCP_WND + Len(was)
      /\ Open(i, c, n, hi, e) /\ c.state = "ESTABLISHED" /\ Passed(i, was, n)
      /\ (Room(i) => n = Len(was)) /\ Queued(i, c.ooseq, n + 1, hi)
  BY SoundOpen
<1>2. t \in Nat
  <2>1. seg \in Segment
    BY DEF Sent, Piece
  <2> QED
    BY <1>1, <2>1, SegmentIs
<1>3. a + t <= e \/ t = 1
  OBVIOUS
<1> HIDE DEF n, hi, e, t
<1>4. a + t <= hi \/ t = 1
  BY <1>1, <1>2, <1>3
<1>5. Received(i, was, r, hi, e, c.state)
  BY <1>1, <1>4, ReceiveIs DEF t
<1>6. Received(i, was, r, hi, e, "ESTABLISHED")
  BY <1>1, <1>5
<1> HIDE DEF r
<1>7. Sound(i, Handed(r, mem), was \o r.data, r.fin) /\ e <= Pos(i, Handed(r, mem).rcv_ann_right_edge)
  BY <1>1, <1>6, HandedIs
<1>8. r.fin \in BOOLEAN
  BY <1>7 DEF Sound
<1> QED
  BY <1>7, <1>8 DEF e, r

-----------------------------------------------------------------------------
(***************************************************************************)
(* The invariant                                                           *)
(***************************************************************************)

LEMMA InitSound == Init => ReceiveInv
<1> SUFFICES ASSUME Init PROVE Sound(isn, pcb, passed, eof)
  BY DEF ReceiveInv
<1> DEFINE x == Add(isn, TCP_WND)
<1>0. /\ isn \in 0 .. SEQ - 1 /\ SEQ \in Nat \ {0} /\ StreamLen \in Nat /\ TCP_WND \in Nat
      /\ Half \in Nat /\ 2 * Half = SEQ /\ TCP_WND + StreamLen < Half /\ isn \in ISNs
  BY Sizes DEF Init
<1>1. Pos(isn, isn) = 0
  BY <1>0, PosIs
<1>2. x \in 0 .. SEQ - 1 /\ Pos(isn, x) = TCP_WND
  <2>1. Pos(isn, isn) + TCP_WND < SEQ /\ Pos(isn, isn) + TCP_WND = TCP_WND
    BY <1>0, <1>1
  <2> QED
    BY <1>0, <2>1, AddPos
<1>3. /\ pcb = [state |-> "ESTABLISHED", rcv_nxt |-> isn, rcv_wnd |-> TCP_WND,
                rcv_ann_wnd |-> TCP_WND, rcv_ann_right_edge |-> x,
                ack |-> {}, ooseq |-> <<>>]
      /\ passed = <<>> /\ eof = FALSE
  BY DEF Init
<1> HIDE DEF x
<1>4. /\ pcb \in Connection /\ pcb.state = "ESTABLISHED" /\ pcb.rcv_nxt = isn
      /\ pcb.rcv_wnd = TCP_WND /\ pcb.rcv_ann_wnd = TCP_WND
      /\ pcb.rcv_ann_right_edge = x /\ pcb.ooseq = <<>>
  BY <1>0, <1>2, <1>3 DEF Connection
<1>5. Window(isn, pcb, 0)
  BY <1>0, <1>1, <1>2, <1>4 DEF Window
<1>6. Passed(isn, passed, 0) /\ Len(passed) = 0
  BY <1>0, <1>3 DEF Passed
<1>7. Queued(isn, pcb.ooseq, 0 + 1, 0 + TCP_WND)
  BY <1>4 DEF Queued
<1>8. 0 = Len(passed) + IF eof THEN 1 ELSE 0
  BY <1>3, <1>6
<1> DEFINE n == Pos(isn, pcb.rcv_nxt)
<1>9. n = 0
  BY <1>1, <1>4
<1>10. pcb.rcv_ann_wnd <= pcb.rcv_wnd /\ n + pcb.rcv_wnd <= TCP_WND + Len(passed)
  BY <1>0, <1>4, <1>6, <1>9
<1>11. /\ Window(isn, pcb, n) /\ Passed(isn, passed, n)
       /\ Queued(isn, pcb.ooseq, n + 1, n + pcb.rcv_wnd)
       /\ n = Len(passed) + IF eof THEN 1 ELSE 0
  BY <1>4, <1>5, <1>6, <1>7, <1>8, <1>9
<1>12. eof \in BOOLEAN /\ ~eof
  BY <1>3
<1> QED
  BY <1>0, <1>4, <1>10, <1>11, <1>12 DEF Sound

\* Where the edge that the host was told is, in the stream.
Edge == Pos(isn, pcb.rcv_ann_right_edge)

LEMMA EdgeType == ReceiveInv => Edge \in Nat /\ isn \in ISNs /\ eof \in BOOLEAN
<1> SUFFICES ASSUME ReceiveInv PROVE Edge \in Nat /\ isn \in ISNs /\ eof \in BOOLEAN
  OBVIOUS
<1>1. isn \in ISNs /\ eof \in BOOLEAN /\ pcb \in Connection
  BY DEF ReceiveInv, Sound, Window
<1>2. isn \in 0 .. SEQ - 1
  BY <1>1, Sizes
<1> QED
  BY <1>1, <1>2, ConnectionIs DEF Edge

\* What the host may send, it was told.
LEMMA AllowedIs == ReceiveInv => Allowed \in Nat /\ Allowed <= Edge
<1> SUFFICES ASSUME ReceiveInv PROVE Allowed \in Nat /\ Allowed <= Edge
  OBVIOUS
<1>1. Edge \in Nat /\ StreamLen \in Nat
  BY EdgeType, Sizes
<1>2. Allowed = IF Edge < StreamLen + 1 THEN Edge ELSE StreamLen + 1
  BY DEF Allowed, AtMost, Sub, Edge, Pos
<1> QED
  BY <1>1, <1>2

\* tcp_input for a segment of the host.
LEMMA SegmentSound ==
    ASSUME ReceiveInv, NEW a \in 0 .. StreamLen, NEW len \in 0 .. TCP_MSS,
           NEW fin \in BOOLEAN, NEW copied \in BOOLEAN, NEW mem \in BOOLEAN,
           a + len <= StreamLen, fin => a + len = StreamLen, len > 0 \/ fin,
           \/ a + TCP_TCPLEN(Cut(a, a + len, fin)) <= Allowed
           \/ a = Allowed /\ TCP_TCPLEN(Cut(a, a + len, fin)) = 1,
           tcp_input(Cut(a, a + len, fin), copied, mem), isn' = isn
    PROVE  ReceiveInv' /\ Edge <= Edge'
<1> DEFINE seg == Cut(a, a + len, fin)
           t == TCP_TCPLEN(seg)
           r == tcp_receive(pcb, seg, copied, mem)
<1>0. StreamLen \in Nat /\ TCP_MSS \in Nat
  BY Sizes
<1>1. a \in Nat /\ len \in Nat
  BY <1>0
<1>2. Edge \in Nat /\ isn \in ISNs /\ eof \in BOOLEAN /\ Allowed \in Nat /\ Allowed <= Edge
  BY EdgeType, AllowedIs
<1>3. Sent(isn, seg, a)
  BY <1>1, <1>2, CutIs
<1>4. t \in Nat
  <2>1. seg \in Segment /\ isn \in 0 .. SEQ - 1
    BY <1>2, <1>3, Sizes DEF Sent, Piece
  <2> QED
    BY <2>1, SegmentIs
<1>5. a + t <= Allowed \/ t = 1
  OBVIOUS
<1>6. tcp_input(seg, copied, mem)
  OBVIOUS
<1> HIDE DEF seg
<1>7. a + t <= Edge \/ t = 1
  <2> HIDE DEF t
  <2> QED
    BY <1>1, <1>2, <1>4, <1>5
<1>8. CASE ~eof
  <2>1. pcb.state = "ESTABLISHED"
    BY <1>8 DEF ReceiveInv, Sound
  <2>2. pcb' = Handed(r, mem) /\ passed' = passed \o r.data /\ eof' = (eof \/ r.fin)
    BY <1>6, <2>1 DEF tcp_input, Handed
  <2>3. /\ Sound(isn, Handed(r, mem), passed \o r.data, r.fin) /\ r.fin \in BOOLEAN
        /\ Edge <= Pos(isn, Handed(r, mem).rcv_ann_right_edge)
    <3>1. Sound(isn, pcb, passed, eof)
      BY DEF ReceiveInv
    <3> QED
      BY <1>1, <1>3, <1>7, <1>8, <3>1, InputSound DEF Edge, t
  <2>4. eof' = r.fin
    BY <1>8, <2>2, <2>3
  <2> HIDE DEF r
  <2> QED
    BY <2>2, <2>3, <2>4 DEF ReceiveInv, Edge
<1>9. CASE eof
  <2> DEFINE u == tcp_ack_now(pcb)
             z == tcp_output(u, mem)
  <2>1. pcb.state = "CLOSE_WAIT"
    BY <1>9 DEF ReceiveInv, Sound
  <2>2. (pcb' = pcb \/ pcb' = z) /\ passed' = passed /\ eof' = eof
    BY <1>6, <2>1 DEF tcp_input
  <2>3. Sound(isn, pcb, passed, eof) /\ Edge <= Pos(isn, pcb.rcv_ann_right_edge)
    BY <1>2 DEF ReceiveInv, Edge
  <2>4. Sound(isn, u, passed, eof) /\ Edge <= Pos(isn, u.rcv_ann_right_edge)
    BY <2>3, SoundFlagged DEF Flagged
  <2> HIDE DEF u
  <2>5. Sound(isn, z, passed, eof) /\ Edge <= Pos(isn, z.rcv_ann_right_edge)
    BY <1>2, <2>4, SoundAnswered DEF Answered
  <2> HIDE DEF z
  <2> QED
    BY <2>2, <2>3, <2>5 DEF ReceiveInv, Edge
<1> QED
  BY <1>2, <1>8, <1>9

\* A step keeps the invariant, and the edge that the host was told does not come back.
LEMMA NextSound == ReceiveInv /\ [Next]_vars => ReceiveInv' /\ Edge <= Edge'
<1> SUFFICES ASSUME ReceiveInv, [Next]_vars PROVE ReceiveInv' /\ Edge <= Edge'
  OBVIOUS
<1>1. Edge \in Nat /\ isn \in ISNs /\ eof \in BOOLEAN
  BY EdgeType
<1>2. Sound(isn, pcb, passed, eof) /\ Edge <= Pos(isn, pcb.rcv_ann_right_edge)
  BY <1>1 DEF ReceiveInv, Edge
<1>3. CASE SegmentArrives
  <2>1. PICK a \in 0 .. StreamLen, len \in 0 .. TCP_MSS, fin, copied, mem \in BOOLEAN :
          /\ a + len <= StreamLen
          /\ fin => a + len = StreamLen
          /\ len > 0 \/ fin
          /\ \/ a + TCP_TCPLEN(Cut(a, a + len, fin)) <= Allowed
             \/ a = Allowed /\ TCP_TCPLEN(Cut(a, a + len, fin)) = 1
          /\ tcp_input(Cut(a, a + len, fin), copied, mem)
    BY <1>3 DEF SegmentArrives
  <2>2. isn' = isn
    BY <1>3 DEF SegmentArrives
  <2> QED
    BY <2>1, <2>2, SegmentSound
<1>4. CASE tcp_fasttmr
  <2> DEFINE noted == tcp_ack_now(pcb)
  <2>1. PICK mem \in BOOLEAN : pcb' = [tcp_output(noted, mem) EXCEPT !.ack = {}]
    BY <1>4 DEF tcp_fasttmr
  <2>2. isn' = isn /\ passed' = passed /\ eof' = eof
    BY <1>4 DEF tcp_fasttmr
  <2>3. Sound(isn, noted, passed, eof) /\ Edge <= Pos(isn, noted.rcv_ann_right_edge)
    BY <1>2, SoundFlagged DEF Flagged
  <2> HIDE DEF noted
  <2> DEFINE u == tcp_output(noted, mem)
             v == [u EXCEPT !.ack = {}]
  <2>4. Sound(isn, u, passed, eof) /\ Edge <= Pos(isn, u.rcv_ann_right_edge)
    BY <1>1, <2>3, SoundAnswered DEF Answered
  <2> HIDE DEF u
  <2>5. Sound(isn, v, passed, eof) /\ v.rcv_ann_right_edge = u.rcv_ann_right_edge
    BY <2>4, SoundFlagged DEF Flagged
  <2>6. pcb' = v
    BY <2>1 DEF u
  <2> HIDE DEF v
  <2> QED
    BY <2>2, <2>4, <2>5, <2>6 DEF ReceiveInv, Edge
<1>7. CASE DataSent
  <2> DEFINE u == tcp_send_empty_ack(pcb, TRUE)
  <2>1. pcb' = u /\ isn' = isn /\ passed' = passed /\ eof' = eof
    BY <1>7 DEF DataSent
  <2>2. Sound(isn, u, passed, eof) /\ Edge <= Pos(isn, u.rcv_ann_right_edge)
    BY <1>1, <1>2, SoundAnswered DEF Answered
  <2> HIDE DEF u
  <2> QED
    BY <2>1, <2>2 DEF ReceiveInv, Edge
<1>5. CASE OoseqTimeout
  <2> DEFINE none == <<>>
             u == [pcb EXCEPT !.ooseq = none]
             n == Pos(isn, pcb.rcv_nxt)
  <2>1. pcb' = u /\ isn' = isn /\ passed' = passed /\ eof' = eof
    BY <1>5 DEF OoseqTimeout
  <2>2. pcb \in Connection
    BY <1>2 DEF Sound, Window
  <2> HIDE DEF none
  <2>3. /\ u \in Connection /\ u.state = pcb.state /\ u.ooseq = none
        /\ u.rcv_nxt = pcb.rcv_nxt /\ u.rcv_wnd = pcb.rcv_wnd
        /\ u.rcv_ann_wnd = pcb.rcv_ann_wnd
        /\ u.rcv_ann_right_edge = pcb.rcv_ann_right_edge
    <3>1. none \in Seq(Segment)
      BY DEF none
    <3> QED
      BY <2>2, <3>1 DEF Connection
  <2> HIDE DEF u
  <2>4. Window(isn, u, n)
    BY <1>2, <2>3 DEF Sound, Window
  <2>5. Queued(isn, u.ooseq, n + 1, n + u.rcv_wnd)
    BY <2>3 DEF Queued, none
  <2>6. Sound(isn, u, passed, eof)
    BY <1>2, <2>3, <2>4, <2>5 DEF Sound, none
  <2> QED
    BY <1>2, <2>1, <2>3, <2>6 DEF ReceiveInv, Edge
<1>6. CASE UNCHANGED vars
  BY <1>2, <1>6 DEF vars, ReceiveInv, Edge
<1> QED
  BY <1>3, <1>4, <1>5, <1>6, <1>7 DEF Next

LEMMA ReceiveInvariant == Spec => []ReceiveInv
<1>1. Init => ReceiveInv
  BY InitSound
<1>2. ReceiveInv /\ [Next]_vars => ReceiveInv'
  BY NextSound, Zenon
<1> QED
  BY <1>1, <1>2, PTL DEF Spec

-----------------------------------------------------------------------------
(***************************************************************************)
(* The properties                                                          *)
(***************************************************************************)

LEMMA StreamFollows == ReceiveInv => StreamExact
<1> DEFINE n == Pos(isn, pcb.rcv_nxt)
<1> SUFFICES ASSUME ReceiveInv, NoWrap
             PROVE  /\ \A k \in DOMAIN passed : passed[k] = k - 1
                    /\ n = Len(passed) + IF eof THEN 1 ELSE 0
                    /\ eof => Len(passed) = StreamLen
  BY DEF StreamExact, At, Sub, Pos
<1>1. Room(isn)
  BY DEF Room, NoWrap
<1>2. /\ Passed(isn, passed, n) /\ n = Len(passed) + IF eof THEN 1 ELSE 0
      /\ (eof => n = StreamLen + 1)
  BY <1>1 DEF ReceiveInv, Sound
<1>3. passed \in Seq(0 .. StreamLen - 1) /\ \A k \in 1 .. Len(passed) : passed[k] = k - 1
  BY <1>1, <1>2 DEF Passed
<1>4. DOMAIN passed = 1 .. Len(passed) /\ Len(passed) \in Nat /\ StreamLen \in Nat
  BY <1>3, Sizes
<1> HIDE DEF n
<1>5. ASSUME eof PROVE Len(passed) = StreamLen
  <2> DEFINE l == Len(passed)
  <2>1. l \in Nat /\ StreamLen \in Nat
    BY <1>4
  <2>2. l + 1 = StreamLen + 1
    BY <1>2, <1>5
  <2> HIDE DEF l
  <2>3. l = StreamLen
    BY <2>1, <2>2
  <2> QED
    BY <2>3 DEF l
<1> QED
  BY <1>2, <1>3, <1>4, <1>5, Zenon

(***************************************************************************)
(* http_recv is given the host's stream in order, every byte once, and is  *)
(* told of the end after the last one (tcp_receive and tcp_input), however *)
(* long the stream, the window and the segments are and wherever the       *)
(* sequence numbers start, as long as no sum with the window goes round.   *)
(***************************************************************************)
THEOREM ReceiveStreamExact == Spec => []StreamExact
  BY ReceiveInvariant, StreamFollows, PTL

\* A queued segment, as QueueSound states it.
LEMMA SlotFollows ==
    ASSUME isn \in 0 .. SEQ - 1, NEW c \in Connection, NEW n \in Nat, NEW hi \in Nat,
           hi <= TCP_WND + StreamLen, n = Pos(isn, c.rcv_nxt), hi = n + c.rcv_wnd,
           NEW seg, Slot(isn, seg, n + 1, hi), Room(isn)
    PROVE  /\ SEQ_GT(seg.seqno, c.rcv_nxt)
           /\ SEQ_GEQ(Add(c.rcv_nxt, c.rcv_wnd), Add(seg.seqno, TCP_TCPLEN(seg)))
           /\ seg.p = [k \in 1 .. seg.len |-> At(seg.seqno) + k - 1]
           /\ seg.fin => At(End(seg)) = StreamLen
<1> DEFINE a == Pos(isn, seg.seqno)
           t == TCP_TCPLEN(seg)
           x == Add(c.rcv_nxt, c.rcv_wnd)
           y == Add(seg.seqno, t)
<1>0. Half \in Nat /\ 2 * Half = SEQ /\ hi < Half /\ n + 1 \in Nat
  BY Sizes
<1>1. c.rcv_nxt \in 0 .. SEQ - 1 /\ c.rcv_wnd \in Nat
  BY ConnectionIs
<1>2. /\ seg \in Segment /\ n + 1 <= a /\ a + t <= hi /\ Len(seg.p) <= seg.len
      /\ \A k \in 1 .. Len(seg.p) : seg.p[k] = a + k - 1
      /\ seg.fin => a + seg.len = StreamLen
      /\ Len(seg.p) = seg.len
  BY DEF Slot, Piece
<1>3. /\ seg.seqno \in 0 .. SEQ - 1 /\ a \in Nat /\ t \in Nat
      /\ seg.p \in Seq(0 .. StreamLen - 1)
  BY <1>2, SegmentIs
<1>4. /\ Stop(isn, seg) \in Nat /\ End(seg) \in 0 .. SEQ - 1
      /\ Pos(isn, End(seg)) = Stop(isn, seg) /\ y \in 0 .. SEQ - 1 /\ Pos(isn, y) = a + t
  BY <1>0, SlotIs
<1>5. x \in 0 .. SEQ - 1 /\ Pos(isn, x) = hi
  <2>1. Pos(isn, c.rcv_nxt) + c.rcv_wnd < SEQ
    BY <1>0, <1>1
  <2> QED
    BY <1>1, <2>1, AddPos
<1>6. SEQ_GT(seg.seqno, c.rcv_nxt)
  <2> DEFINE s == seg.seqno
             z == c.rcv_nxt
  <2>1. s \in 0 .. SEQ - 1 /\ z \in 0 .. SEQ - 1 /\ Pos(isn, s) = a /\ Pos(isn, z) = n
    BY <1>1, <1>3
  <2> HIDE DEF s, z, a, t
  <2>2. Pos(isn, s) - Pos(isn, z) < Half /\ Pos(isn, z) - Pos(isn, s) <= Half
        /\ Pos(isn, s) > Pos(isn, z)
    BY <1>0, <1>2, <1>3, <2>1, SMTT(40)
  <2>3. SEQ_GT(s, z)
    BY <2>1, <2>2, GeqPos
  <2> QED
    BY <2>3 DEF s, z
<1>7. SEQ_GEQ(x, y)
  <2> HIDE DEF x, y, a, t
  <2>1. Pos(isn, x) - Pos(isn, y) < Half /\ Pos(isn, y) - Pos(isn, x) <= Half
        /\ Pos(isn, x) >= Pos(isn, y)
    <3>1. Pos(isn, x) = hi /\ Pos(isn, y) = a + t /\ a + t <= hi
      BY <1>2, <1>4, <1>5
    <3> QED
      BY <1>0, <1>3, <3>1
  <2> QED
    BY <1>4, <1>5, <2>1, GeqPos
<1>8. At(seg.seqno) = a /\ At(End(seg)) = Pos(isn, End(seg))
  BY DEF At, Sub, Pos
<1>9. seg.p = [k \in 1 .. seg.len |-> At(seg.seqno) + k - 1]
  <2> DEFINE p == seg.p
             l == seg.len
  <2>1. p \in Seq(0 .. StreamLen - 1) /\ Len(p) = l /\ \A k \in 1 .. l : p[k] = a + k - 1
    BY <1>2, <1>3
  <2> HIDE DEF p, l, a
  <2>2. p = [k \in 1 .. l |-> p[k]]
    BY <2>1
  <2>3. p = [k \in 1 .. l |-> a + k - 1]
    BY <2>1, <2>2
  <2> QED
    BY <1>8, <2>3 DEF p, l
<1>10. seg.fin => At(End(seg)) = StreamLen
  BY <1>2, <1>4, <1>8 DEF Stop
<1> QED
  BY <1>6, <1>7, <1>9, <1>10 DEF x, y, t

LEMMA QueueFollows == ReceiveInv => QueueSound
<1> SUFFICES ASSUME ReceiveInv PROVE QueueSound
  OBVIOUS
<1> DEFINE n == Pos(isn, pcb.rcv_nxt)
           hi == n + pcb.rcv_wnd
           q == pcb.ooseq
           e == Pos(isn, pcb.rcv_ann_right_edge)
           x == Add(pcb.rcv_nxt, pcb.rcv_wnd)
<1>0. Half \in Nat /\ 2 * Half = SEQ /\ TCP_WND + StreamLen < Half
      /\ TCP_WND \in Nat /\ StreamLen \in Nat
  BY Sizes
<1>1. /\ Sound(isn, pcb, passed, eof) /\ pcb \in Connection /\ isn \in ISNs
      /\ eof \in BOOLEAN /\ passed \in Seq(0 .. StreamLen - 1)
  BY DEF ReceiveInv, Sound, Window, Passed
<1>2. isn \in 0 .. SEQ - 1
  BY <1>1, Sizes
<1>3. TypeOK
  BY <1>1 DEF TypeOK, Connection
<1>4. pcb.rcv_nxt \in 0 .. SEQ - 1 /\ pcb.rcv_wnd \in Nat /\ n \in Nat
      /\ pcb.rcv_ann_right_edge \in 0 .. SEQ - 1 /\ e \in Nat
  BY <1>1, <1>2, ConnectionIs
<1>5. ASSUME ~eof
      PROVE  /\ n \in Nat /\ hi \in Nat /\ e <= hi /\ hi <= TCP_WND + StreamLen
             /\ Queued(isn, q, n + 1, hi)
  BY <1>1, <1>5, SoundOpen
<1>6. ASSUME pcb.state = "ESTABLISHED" PROVE SEQ_GEQ(x, pcb.rcv_ann_right_edge)
  <2>1. ~eof
    BY <1>1, <1>6 DEF Sound
  <2>2. hi \in Nat /\ e <= hi /\ hi <= TCP_WND + StreamLen
    BY <1>5, <2>1
  <2>3. x \in 0 .. SEQ - 1 /\ Pos(isn, x) = hi
    <3>1. Pos(isn, pcb.rcv_nxt) + pcb.rcv_wnd < SEQ
      BY <1>0, <2>2
    <3> QED
      BY <1>2, <1>4, <3>1, AddPos
  <2> DEFINE z == pcb.rcv_ann_right_edge
  <2>4. z \in 0 .. SEQ - 1 /\ Pos(isn, z) = e
    BY <1>4
  <2> HIDE DEF x, z, e, hi
  <2>5. Pos(isn, x) - Pos(isn, z) < Half /\ Pos(isn, z) - Pos(isn, x) <= Half
        /\ Pos(isn, x) >= Pos(isn, z)
    BY <1>0, <1>4, <2>2, <2>3, <2>4
  <2>6. SEQ_GEQ(x, z)
    BY <1>2, <2>3, <2>4, <2>5, GeqPos
  <2> QED
    BY <2>6 DEF z
<1>7. ASSUME NoWrap, NEW k \in DOMAIN q
      PROVE  /\ SEQ_GT(q[k].seqno, pcb.rcv_nxt)
             /\ SEQ_GEQ(x, Add(q[k].seqno, TCP_TCPLEN(q[k])))
             /\ q[k].p = [j \in 1 .. q[k].len |-> At(q[k].seqno) + j - 1]
             /\ q[k].fin => k = Len(q) /\ At(End(q[k])) = StreamLen
             /\ k < Len(q) => SEQ_GEQ(q[k + 1].seqno, End(q[k]))
  <2>1. Room(isn)
    BY <1>7 DEF Room, NoWrap
  <2>2. ~eof
    <3> SUFFICES ASSUME eof PROVE FALSE
      OBVIOUS
    <3>1. q = <<>>
      BY <1>1 DEF Sound
    <3> QED
      BY <1>7, <3>1
  <2>3. n \in Nat /\ hi \in Nat /\ hi <= TCP_WND + StreamLen /\ Queued(isn, q, n + 1, hi)
    BY <1>5, <2>2
  <2>4. q \in Seq(Segment) /\ DOMAIN q = 1 .. Len(q) /\ Len(q) \in Nat
    BY <2>3 DEF Queued
  <2>5. /\ Slot(isn, q[k], n + 1, hi) /\ (q[k].fin => k = Len(q))
        /\ \A i, j \in 1 .. Len(q) : i < j => Stop(isn, q[i]) <= Pos(isn, q[j].seqno)
    BY <1>7, <2>3, <2>4 DEF Queued
  <2>6. /\ SEQ_GT(q[k].seqno, pcb.rcv_nxt)
        /\ SEQ_GEQ(x, Add(q[k].seqno, TCP_TCPLEN(q[k])))
        /\ q[k].p = [j \in 1 .. q[k].len |-> At(q[k].seqno) + j - 1]
        /\ q[k].fin => At(End(q[k])) = StreamLen
    BY <1>1, <1>2, <2>1, <2>3, <2>5, SlotFollows, SMTT(40)
  <2>7. ASSUME k < Len(q) PROVE SEQ_GEQ(q[k + 1].seqno, End(q[k]))
    <3> DEFINE s == q[k]
               z == q[k + 1].seqno
               v == End(s)
    <3>1. k \in 1 .. Len(q) /\ k + 1 \in 1 .. Len(q) /\ k < k + 1
      BY <1>7, <2>4, <2>7
    <3>2. Stop(isn, s) <= Pos(isn, z)
      BY <2>5, <3>1
    <3>3. Slot(isn, q[k + 1], n + 1, hi) /\ q[k + 1] \in Segment
      BY <2>3, <3>1 DEF Queued
    <3>4. /\ z \in 0 .. SEQ - 1 /\ Pos(isn, z) \in Nat /\ TCP_TCPLEN(q[k + 1]) \in Nat
          /\ Pos(isn, z) + TCP_TCPLEN(q[k + 1]) <= hi
      BY <1>2, <3>3, SegmentIs DEF Slot
    <3>5. Stop(isn, s) \in Nat /\ v \in 0 .. SEQ - 1 /\ Pos(isn, v) = Stop(isn, s)
      <4>1. hi < Half /\ n + 1 \in Nat
        BY <1>0, <2>3
      <4> QED
        BY <1>2, <2>3, <2>5, <4>1, SlotIs
    <3> HIDE DEF z, v, s, hi
    <3>6. Pos(isn, z) <= hi
      BY <2>3, <3>4
    <3>7. Pos(isn, z) - Pos(isn, v) < Half /\ Pos(isn, v) - Pos(isn, z) <= Half
          /\ Pos(isn, z) >= Pos(isn, v)
      BY <1>0, <2>3, <3>2, <3>4, <3>5, <3>6
    <3>8. SEQ_GEQ(z, v)
      BY <1>2, <3>4, <3>5, <3>7, GeqPos
    <3> QED
      BY <3>8 DEF z, v, s
  <2> QED
    BY <2>5, <2>6, <2>7
<1> QED
  BY <1>3, <1>6, <1>7 DEF QueueSound

(***************************************************************************)
(* The out-of-sequence queue of tcp_receive is in order, without overlaps, *)
(* ahead of rcv_nxt and inside the window, its segments hold the bytes of  *)
(* their places, and what tcp_update_rcv_ann_wnd lets the host send is in  *)
(* the window, for every size of the stream, the window and the segments.  *)
(***************************************************************************)
THEOREM ReceiveQueueSound == Spec => []QueueSound
  BY ReceiveInvariant, QueueFollows, PTL

(***************************************************************************)
(* The right edge of the window that the host was told never comes back,   *)
(* whatever arrives and whatever http_recv reads (tcp_update_rcv_ann_wnd,  *)
(* tcp_recved).                                                            *)
(***************************************************************************)
THEOREM ReceiveEdgeKept == Spec => EdgeKept
<1>1. ReceiveInv /\ [Next]_vars
        => [SEQ_GEQ(pcb'.rcv_ann_right_edge, pcb.rcv_ann_right_edge)]_vars
  <2> SUFFICES ASSUME ReceiveInv, Next
               PROVE  SEQ_GEQ(pcb'.rcv_ann_right_edge, pcb.rcv_ann_right_edge)
    OBVIOUS
  <2> DEFINE x == pcb'.rcv_ann_right_edge
             y == pcb.rcv_ann_right_edge
  <2>0. Half \in Nat /\ 2 * Half = SEQ /\ TCP_WND + StreamLen < Half
        /\ TCP_WND \in Nat /\ StreamLen \in Nat
    BY Sizes
  <2>1. ReceiveInv' /\ Edge <= Edge'
    BY NextSound
  <2>2. isn' = isn
    BY DEF Next, SegmentArrives, tcp_fasttmr, DataSent, OoseqTimeout
  <2>3. isn \in ISNs /\ pcb \in Connection /\ pcb' \in Connection
    BY <2>1 DEF ReceiveInv, Sound, Window
  <2>4. isn \in 0 .. SEQ - 1
    BY <2>3, Sizes
  <2>5. x \in 0 .. SEQ - 1 /\ y \in 0 .. SEQ - 1 /\ Pos(isn, x) \in Nat /\ Pos(isn, y) \in Nat
    BY <2>3, <2>4, ConnectionIs
  <2>6. Pos(isn, y) <= Pos(isn, x)
    BY <2>1, <2>2 DEF Edge
  <2>7. Pos(isn, x) <= TCP_WND + StreamLen
    <3> DEFINE n == Pos(isn', pcb'.rcv_nxt)
    <3>1. /\ Pos(isn', pcb'.rcv_ann_right_edge) <= n + pcb'.rcv_ann_wnd
          /\ n + pcb'.rcv_ann_wnd <= TCP_WND + StreamLen
      BY <2>1 DEF ReceiveInv, Sound, Window
    <3>2. n \in Nat /\ pcb'.rcv_ann_wnd \in Nat
      BY <2>2, <2>3, <2>4, ConnectionIs
    <3>3. Pos(isn', pcb'.rcv_ann_right_edge) = Pos(isn, x)
      BY <2>2
    <3> HIDE DEF n, x
    <3> QED
      BY <2>0, <2>5, <3>1, <3>2, <3>3
  <2> HIDE DEF x, y
  <2>8. Pos(isn, x) - Pos(isn, y) < Half /\ Pos(isn, y) - Pos(isn, x) <= Half
    BY <2>0, <2>5, <2>6, <2>7
  <2>9. SEQ_GEQ(x, y)
    BY <2>4, <2>5, <2>6, <2>8, GeqPos
  <2> QED
    BY <2>9 DEF x, y
<1> QED
  BY <1>1, ReceiveInvariant, PTL DEF Spec, EdgeKept
=============================================================================
