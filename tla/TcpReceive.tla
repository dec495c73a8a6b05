----------------------------- MODULE TcpReceive -----------------------------
(***************************************************************************)
(* How lwIP puts a connection's incoming stream together again: the data   *)
(* half of tcp_receive with its out-of-sequence queue (tcp_in.c), what     *)
(* tcp_input passes to http_recv, and the window announced to the host     *)
(* (tcp.c, tcp_out.c).                                                     *)
(*                                                                         *)
(* The host sends the stream 0, 1, ..., StreamLen - 1 and then a FIN, in   *)
(* segments cut anywhere; each may be lost, repeated, overtaken and sent   *)
(* again cut otherwise, so any segment inside the announced window may     *)
(* arrive at any time.  A payload is the sequence of its stream positions. *)
(* Sequence numbers are modulo SEQ, which stands for 2^32.                 *)
(***************************************************************************)
EXTENDS Integers, Sequences, SequencesExt

CONSTANTS
    SEQ,         \* number of sequence numbers (2^32)
    ISNs,        \* sequence numbers the stream may start at
    StreamLen,   \* bytes the host has to say before its FIN
    TCP_WND,     \* 4 * TCP_MSS
    TCP_MSS      \* the longest segment

ASSUME SeqAssumption == SEQ \in Nat /\ SEQ % 2 = 0 /\ ISNs \subseteq 0 .. SEQ - 1

ASSUME WindowAssumption == /\ StreamLen \in Nat /\ TCP_MSS \in Nat \ {0}
                           /\ TCP_WND \in Nat \ {0} /\ 2 * (TCP_WND + StreamLen) < SEQ

\* u32_t arithmetic and the comparisons of tcp_impl.h: the sign of the difference.
Add(a, b) == (a + b) % SEQ
Sub(a, b) == (a - b) % SEQ
SEQ_LT(a, b) == Sub(a, b) >= SEQ \div 2
SEQ_GEQ(a, b) == ~SEQ_LT(a, b)
SEQ_GT(a, b) == SEQ_GEQ(a, b) /\ a # b
SEQ_BETWEEN(a, b, c) == SEQ_GEQ(a, b) /\ SEQ_GEQ(c, a)

\* A tcp_seg: len is its field, p the payload, which may only be as long.
Segment == [seqno : 0 .. SEQ - 1, len : Nat, p : Seq(0 .. StreamLen - 1), fin : BOOLEAN]

TCP_TCPLEN(seg) == seg.len + IF seg.fin THEN 1 ELSE 0
End(seg) == Add(seg.seqno, seg.len)

\* Mutant: the pbuf is not cut.
CutTo_LenOnly(seg, len) == [seg EXCEPT !.len = len]

\* seg->len and pbuf_realloc, which shortens a pbuf and never lengthens it.
CutTo(seg, len) == [seg EXCEPT !.len = len,
                               !.p = SubSeq(@, 1, IF len < Len(@) THEN len ELSE Len(@))]

VARIABLES
    isn,     \* where the stream starts: never changes
    pcb,     \* the connection, see TypeOK
    passed,  \* what http_recv was given
    eof      \* http_recv was told that the host is done

vars == <<isn, pcb, passed, eof>>

TypeOK ==
    /\ isn \in ISNs
    /\ pcb \in [state : {"ESTABLISHED", "CLOSE_WAIT"},
                rcv_nxt : 0 .. SEQ - 1, rcv_wnd : 0 .. TCP_WND,
                rcv_ann_wnd : 0 .. TCP_WND, rcv_ann_right_edge : 0 .. SEQ - 1,
                ack : SUBSET {"delay", "now"},   \* TF_ACK_DELAY, TF_ACK_NOW
                ooseq : Seq(Segment)]
    /\ passed \in Seq(0 .. StreamLen - 1)
    /\ eof \in BOOLEAN

\* After the handshake: the whole window is announced.
Init ==
    /\ isn \in ISNs
    /\ pcb = [state |-> "ESTABLISHED", rcv_nxt |-> isn, rcv_wnd |-> TCP_WND,
              rcv_ann_wnd |-> TCP_WND, rcv_ann_right_edge |-> Add(isn, TCP_WND),
              ack |-> {}, ooseq |-> <<>>]
    /\ passed = <<>> /\ eof = FALSE
-----------------------------------------------------------------------------
(***************************************************************************)
(* Acknowledgements and the window                                         *)
(***************************************************************************)

tcp_ack(c) == [c EXCEPT !.ack = IF "delay" \in @ THEN {"now"} ELSE @ \cup {"delay"}]
tcp_ack_now(c) == [c EXCEPT !.ack = @ \cup {"now"}]

\* The window is announced in an ACK, or nothing happens for want of memory (mem).
tcp_send_empty_ack(c, mem) ==
    IF mem THEN [c EXCEPT !.ack = {}, !.rcv_ann_right_edge = Add(c.rcv_nxt, c.rcv_ann_wnd)]
    ELSE c

AtMost(a, b) == IF a < b THEN a ELSE b

\* How much tcp_update_rcv_ann_wnd moves the right edge: not by silly little steps.
WndInflation(c) ==
    LET edge == Add(c.rcv_nxt, c.rcv_wnd)
    IN  IF SEQ_GEQ(edge, Add(c.rcv_ann_right_edge, AtMost(TCP_WND \div 2, TCP_MSS)))
        THEN Sub(edge, c.rcv_ann_right_edge) ELSE 0

\* Mutant: no window is announced where the edge is not worth moving.
tcp_update_rcv_ann_wnd_Shuts(c) ==
    [c EXCEPT !.rcv_ann_wnd = IF WndInflation(c) > 0 THEN c.rcv_wnd ELSE 0]

tcp_update_rcv_ann_wnd(c) ==
    [c EXCEPT !.rcv_ann_wnd =
        IF WndInflation(c) > 0 THEN c.rcv_wnd
        ELSE IF SEQ_GT(c.rcv_nxt, c.rcv_ann_right_edge) THEN 0
        ELSE Sub(c.rcv_ann_right_edge, c.rcv_nxt)]

\* Mutant: the window grows but the host is not told.
tcp_recved_Untold(c, len) == [c EXCEPT !.rcv_wnd = AtMost(@ + len, TCP_WND)]

\* Called by http_recv for all it was given, before it looks at it.
tcp_recved(c, len) ==
    LET wider == [c EXCEPT !.rcv_wnd = AtMost(@ + len, TCP_WND)]
        told == tcp_update_rcv_ann_wnd(wider)
    IN  IF WndInflation(wider) >= TCP_WND \div 4 THEN tcp_ack_now(told) ELSE told

\* rcv_nxt and the window move over a segment.
Advance(c, seg) ==
    tcp_update_rcv_ann_wnd([c EXCEPT !.rcv_nxt = Add(seg.seqno, TCP_TCPLEN(seg)),
                                     !.rcv_wnd = @ - TCP_TCPLEN(seg)])
-----------------------------------------------------------------------------
(***************************************************************************)
(* The out-of-sequence queue                                               *)
(***************************************************************************)

\* Where a walk along a list of len elements stops that passes those of a set.
Leading(set, len) == CHOOSE n \in 0 .. len : 1 .. n \subseteq set /\ n + 1 \notin set

\* The segments at the front of queue that end before `end' or there.
Covered(end, queue) ==
    Leading({i \in 1 .. Len(queue) : SEQ_GEQ(end, End(queue[i]))}, Len(queue))

HasFin(queue) == \E i \in DOMAIN queue : queue[i].fin

\* The new segment goes before what is left of queue: covered segments are deleted,
\* their FIN is taken over, and the new one is cut where the next begins.
tcp_oos_insert_segment(seg, queue) ==
    IF seg.fin THEN <<seg>>
    ELSE LET n == Covered(End(seg), queue)
             rest == SubSeq(queue, n + 1, Len(queue))
             whole == [seg EXCEPT !.fin = HasFin(SubSeq(queue, 1, n))]
         IN  <<IF rest # <<>> /\ SEQ_GT(End(seg), Head(rest).seqno)
               THEN CutTo(whole, Sub(Head(rest).seqno, seg.seqno)) ELSE whole>> \o rest

\* Mutant: the queued segment is left as it is.
CutBefore_Not(old, seqno) == old

\* A queued segment is cut where the new one begins.
CutBefore(old, seqno) ==
    IF SEQ_GT(End(old), seqno) THEN CutTo(old, Sub(seqno, old.seqno)) ELSE old

\* The last segment of a queue is cut where a new one begins.
CutLast(queue, seqno) ==
    IF queue = <<>> THEN <<>>
    ELSE Append(Front(queue), CutBefore(Last(queue), seqno))

\* The segment goes to the end. The check that it does not overrun the window compares
\* sums, not sequence numbers.
Append_Ooseq(c, seg) ==
    LET edge == Add(c.rcv_nxt, c.rcv_wnd)
        fits == IF Add(TCP_TCPLEN(seg), seg.seqno) > edge
                THEN [CutTo(seg, Sub(edge, seg.seqno)) EXCEPT !.fin = FALSE]
                ELSE seg
    IN  IF Last(c.ooseq).fin THEN c.ooseq
        ELSE CutLast(c.ooseq, seg.seqno) \o <<fits>>

\* The segments at the front of queue that begin before seqno.
Before(queue, seqno) ==
    Leading({i \in 1 .. Len(queue) : SEQ_GT(seqno, queue[i].seqno)}, Len(queue))

\* Of two segments that begin alike the longer one is kept; a segment in between cuts
\* the one before it.
QueueOoseq(c, seg) ==
    LET n == Before(c.ooseq, seg.seqno)
        before == SubSeq(c.ooseq, 1, n)
        behind == SubSeq(c.ooseq, n + 1, Len(c.ooseq))
    IN  CASE c.ooseq = <<>> -> <<seg>>
          [] before # <<>> /\ behind = <<>> -> Append_Ooseq(c, seg)
          [] behind # <<>> /\ Head(behind).seqno = seg.seqno ->
               IF seg.len > Head(behind).len
                 THEN before \o tcp_oos_insert_segment(seg, behind)
                 ELSE c.ooseq
          [] behind # <<>> /\ Head(behind).seqno # seg.seqno ->
               CutLast(before, seg.seqno) \o tcp_oos_insert_segment(seg, behind)
-----------------------------------------------------------------------------
(***************************************************************************)
(* tcp_receive                                                             *)
(***************************************************************************)

\* The front that was received before is cut off.
TrimFront(seg, rcv_nxt) ==
    LET off == Sub(rcv_nxt, seg.seqno)
    IN  [seg EXCEPT !.seqno = rcv_nxt, !.len = @ - off, !.p = SubSeq(@, off + 1, Len(@))]

\* What overruns the window is cut off, and the FIN with it.
TrimToWindow(seg, rcv_wnd) ==
    IF TCP_TCPLEN(seg) > rcv_wnd THEN [CutTo(seg, rcv_wnd) EXCEPT !.fin = FALSE] ELSE seg

\* Queued segments that the new one covers are deleted, their FIN is taken over; it is
\* cut where the next queued one begins.
Merged(seg, queue) ==
    IF seg.fin THEN [seg |-> seg, ooseq |-> <<>>]
    ELSE LET n == Covered(End(seg), queue)
             rest == SubSeq(queue, n + 1, Len(queue))
             whole == [seg EXCEPT !.fin = HasFin(SubSeq(queue, 1, n))]
         IN  [seg |-> IF rest # <<>> /\ SEQ_GT(Add(seg.seqno, TCP_TCPLEN(whole)),
                                               Head(rest).seqno)
                      THEN CutTo(whole, Sub(Head(rest).seqno, seg.seqno)) ELSE whole,
              ooseq |-> rest]

Nothing(c) == [pcb |-> c, fin |-> FALSE, data |-> <<>>]

\* The connection and the data when rcv_nxt and the window have moved over a segment.
Taken(r, seg) == [pcb |-> Advance(r.pcb, seg), data |-> r.data \o seg.p]

\* The queued segments that are in sequence now follow.
Drain(r, queue) ==
    LET after[n \in 0 .. Len(queue)] == IF n = 0 THEN r ELSE Taken(after[n - 1], queue[n])
        n == Leading({i \in 1 .. Len(queue) : queue[i].seqno = after[i - 1].pcb.rcv_nxt},
                     Len(queue))
    IN  [pcb |-> [after[n].pcb EXCEPT !.ooseq = SubSeq(queue, n + 1, Len(queue))],
         data |-> after[n].data, fin |-> HasFin(SubSeq(queue, 1, n))]

\* The connection, the data and the FIN after a segment that begins at rcv_nxt.
InSequence(c, seg) ==
    LET m == Merged(TrimToWindow(seg, c.rcv_wnd), c.ooseq)
        r == Drain(Taken(Nothing(c), m.seg), m.ooseq)
    IN  [r EXCEPT !.pcb = tcp_ack(@), !.fin = @ \/ m.seg.fin]

\* tcp_seg_copy may find no memory: `copied' is FALSE and the segment is dropped.
tcp_receive(c, seg, copied, mem) ==
    LET old == SEQ_BETWEEN(c.rcv_nxt, Add(seg.seqno, 1), Add(seg.seqno, TCP_TCPLEN(seg) - 1))
        cut == IF old THEN TrimFront(seg, c.rcv_nxt) ELSE seg
        noted == IF ~old /\ SEQ_LT(seg.seqno, c.rcv_nxt) THEN tcp_ack_now(c) ELSE c
        within == SEQ_BETWEEN(cut.seqno, c.rcv_nxt, Sub(Add(c.rcv_nxt, c.rcv_wnd), 1))
    IN  CASE ~within -> Nothing(tcp_send_empty_ack(noted, mem))
          [] within /\ cut.seqno = c.rcv_nxt -> InSequence(noted, cut)
          [] within /\ cut.seqno # c.rcv_nxt ->
               Nothing(tcp_send_empty_ack(
                  [noted EXCEPT !.ooseq = IF copied THEN QueueOoseq(c, cut) ELSE @], mem))
-----------------------------------------------------------------------------
(***************************************************************************)
(* Steps                                                                   *)
(***************************************************************************)

\* tcp_output at the end of tcp_input, when nothing else is to be sent.
tcp_output(c, mem) == IF "now" \in c.ack THEN tcp_send_empty_ack(c, mem) ELSE c

\* "correct rcv_wnd as the application won't call tcp_recved() for the FIN's seqno"
FinCounted(c) == [c EXCEPT !.rcv_wnd = IF @ # TCP_WND THEN @ + 1 ELSE @]

\* tcp_input in ESTABLISHED: tcp_process, http_recv with the data, then with the FIN.
\* After the host's FIN a segment with text only draws an ACK if it is out of window.
\* An ACK that tcp_receive could not send is tried again by tcp_output if it is due now;
\* mem says whether there was memory in the end.
tcp_input(seg, copied, mem) ==
    IF pcb.state = "ESTABLISHED"
      THEN \E r \in {tcp_receive(pcb, seg, copied, mem)} :
           LET taken == IF r.data # <<>> THEN tcp_recved(r.pcb, Len(r.data)) ELSE r.pcb
               closed == IF r.fin
                         THEN FinCounted(tcp_ack_now([taken EXCEPT !.state = "CLOSE_WAIT"]))
                         ELSE taken
           IN  /\ pcb' = tcp_output(closed, mem)
               /\ passed' = passed \o r.data
               /\ eof' = (eof \/ r.fin)
      ELSE /\ pcb' = IF SEQ_BETWEEN(seg.seqno, pcb.rcv_nxt,
                                    Sub(Add(pcb.rcv_nxt, pcb.rcv_wnd), 1))
                     THEN pcb ELSE tcp_output(tcp_ack_now(pcb), mem)
           /\ UNCHANGED <<passed, eof>>

\* The stream from position a up to b, with the FIN if it reaches the end and the host
\* puts it there.
Cut(a, b, fin) == [seqno |-> Add(isn, a), len |-> b - a,
                   p |-> [i \in 1 .. b - a |-> a + i - 1], fin |-> fin]

\* How much of the stream, the FIN counted, the host may have sent: what was announced.
Allowed == AtMost(Sub(pcb.rcv_ann_right_edge, isn), StreamLen + 1)

\* Any segment that the host may have sent arrives. One octet behind the window is a
\* window probe.
SegmentArrives ==
    /\ \E a \in 0 .. StreamLen, len \in 0 .. TCP_MSS, fin, copied, mem \in BOOLEAN :
          /\ a + len <= StreamLen
          /\ fin => a + len = StreamLen
          /\ len > 0 \/ fin
          /\ LET seg == Cut(a, a + len, fin)
             IN  /\ \/ a + TCP_TCPLEN(seg) <= Allowed
                    \/ a = Allowed /\ TCP_TCPLEN(seg) = 1
                 /\ tcp_input(seg, copied, mem)
    /\ UNCHANGED isn

\* tcp_fasttmr: a delayed ACK is sent. Its flags are cleared even if it was not.
tcp_fasttmr ==
    /\ "delay" \in pcb.ack
    /\ \E mem \in BOOLEAN : pcb' = [tcp_output(tcp_ack_now(pcb), mem) EXCEPT !.ack = {}]
    /\ UNCHANGED <<isn, passed, eof>>

\* A segment with data, or sent again, acknowledges and announces the window too.
DataSent ==
    /\ pcb' = tcp_send_empty_ack(pcb, TRUE)
    /\ UNCHANGED <<isn, passed, eof>>

\* tcp_slowtmr gives up a queue that waited too long.
OoseqTimeout ==
    /\ pcb.ooseq # <<>>
    /\ pcb' = [pcb EXCEPT !.ooseq = <<>>]
    /\ UNCHANGED <<isn, passed, eof>>

Next == SegmentArrives \/ tcp_fasttmr \/ DataSent \/ OoseqTimeout

Spec == Init /\ [][Next]_vars

(***************************************************************************)
(* The host goes on repeating while it was not told how far the stream and *)
(* the window have come, or while something it may send is missing (that   *)
(* is what TCP is).  One of these segments gets through again and again,   *)
(* and meets a device that has the memory for an answer.  A host that was  *)
(* told repeats what is missing; one that was not may repeat what has long *)
(* arrived.  No timer of the device is relied on.                          *)
(***************************************************************************)
Missing == ~eof /\ Sub(pcb.rcv_nxt, isn) < Allowed
Untold == ~eof /\ pcb.rcv_ann_right_edge # Add(pcb.rcv_nxt, pcb.rcv_ann_wnd)

Retransmission ==
    /\ \E a \in 0 .. StreamLen, len \in 0 .. TCP_MSS, fin \in BOOLEAN :
          /\ a + len <= StreamLen
          /\ fin => a + len = StreamLen
          /\ len > 0 \/ fin
          /\ LET seg == Cut(a, a + len, fin)
             IN  /\ a <= Sub(pcb.rcv_nxt, isn)
                 /\ Untold \/ a + TCP_TCPLEN(seg) > Sub(pcb.rcv_nxt, isn)
                 /\ a + TCP_TCPLEN(seg) <= Allowed
                 /\ tcp_input(seg, TRUE, TRUE)
    /\ UNCHANGED isn

FairSpec == Spec /\ ([]<>~(Missing \/ Untold) \/ []<><<Retransmission>>_vars)
-----------------------------------------------------------------------------
(***************************************************************************)
(* Properties                                                              *)
(*                                                                         *)
(* They hold of lwIP, given that a buffer keeps what is in it while lwIP   *)
(* keeps it.  service_traffic frees every frame that it passed on          *)
(* (main.c:240), those of the segments in ooseq too, and the next frame    *)
(* may overwrite them: ServiceTraffic checks that, and finds it.  So in    *)
(* this firmware the properties hold until a segment arrives early.        *)
(***************************************************************************)

\* No sum of a sequence number and a window passes SEQ. Where one does, the check of
\* Append_Ooseq lengthens a queued segment beyond its data and the stream loses bytes.
NoWrap == isn + StreamLen + 1 + TCP_WND < SEQ

\* Position of a sequence number in the stream.
At(seqno) == Sub(seqno, isn)

\* http_recv is given the stream in order, every byte once, and is told of the end
\* after the last one, however the segments were cut, repeated and mixed up, given that
\* the buffers of the queued ones are left alone.
StreamExact == NoWrap =>
    /\ \A i \in DOMAIN passed : passed[i] = i - 1
    /\ At(pcb.rcv_nxt) = Len(passed) + IF eof THEN 1 ELSE 0
    /\ eof => Len(passed) = StreamLen

\* The queue of tcp_receive: in order, without overlaps, ahead of rcv_nxt and inside the
\* window; every segment holds the bytes of its place; a FIN is at the end of the stream.
\* And what the host was told it may send is not out of the window when it arrives.
\* Given that the buffers of the queued segments are left alone.
QueueSound ==
    /\ TypeOK
    /\ pcb.state = "ESTABLISHED" =>
          SEQ_GEQ(Add(pcb.rcv_nxt, pcb.rcv_wnd), pcb.rcv_ann_right_edge)
    /\ NoWrap => \A i \in DOMAIN pcb.ooseq : LET seg == pcb.ooseq[i] IN
          /\ SEQ_GT(seg.seqno, pcb.rcv_nxt)
          /\ SEQ_GEQ(Add(pcb.rcv_nxt, pcb.rcv_wnd), Add(seg.seqno, TCP_TCPLEN(seg)))
          /\ seg.p = [k \in 1 .. seg.len |-> At(seg.seqno) + k - 1]
          /\ seg.fin => i = Len(pcb.ooseq) /\ At(End(seg)) = StreamLen
          /\ i < Len(pcb.ooseq) => SEQ_GEQ(pcb.ooseq[i + 1].seqno, End(seg))

\* "keep the right edge of window constant": the edge the host was told never comes back.
EdgeKept == [][SEQ_GEQ(pcb'.rcv_ann_right_edge, pcb.rcv_ann_right_edge)]_vars

\* A host that keeps repeating gets its whole request and its FIN through, over lost
\* segments, ACKs that could not be sent (tcp_send_empty_ack, tcp_fasttmr) and dropped
\* queues, given that the buffers of the queued segments are left alone.
Delivered == NoWrap => <>eof
=============================================================================
