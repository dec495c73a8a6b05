--------------------------- MODULE HttpdConnection ---------------------------
(***************************************************************************)
(* A connection of the web server from http_accept to the freeing of its   *)
(* pcb: how httpd.c writes a page into the send queues of lwIP and closes  *)
(* behind it, how tcp_out.c sends, repeats and ends the stream, how        *)
(* tcp_in.c and tcp.c follow the states of the connection, and who frees   *)
(* the http_state and the pcb.                                             *)
(*                                                                         *)
(* The page is the stream 0, ..., PageLen - 1.  A segment that was sent    *)
(* may reach the host late, repeatedly or never, and so may its ACKs.      *)
(* What the host sends is taken in order (TcpReceive is about the rest).   *)
(* Congestion window, Nagle, round trip times and persist timer only       *)
(* decide how much of what fits the host's window tcp_output sends at      *)
(* once, and when a tick repeats or probes: both are choices.  So is the   *)
(* outcome of an allocation; the limits on snd_queuelen count as one.      *)
(***************************************************************************)
EXTENDS Integers, Sequences, SequencesExt

CONSTANTS
    PageLen,              \* length of the page
    TCP_MSS,
    TCP_SND_BUF,          \* 2 * TCP_MSS
    TCP_MAXRTX,
    U8,                   \* values of a u8_t (256)
    HTTPD_MAX_RETRIES,
    HTTPD_POLL_INTERVAL,  \* in slow ticks
    Timeout,              \* FIN-WAIT-2, LAST-ACK and TIME-WAIT timeouts, in slow ticks
    Windows,              \* windows the host may announce
    MaxData,              \* bound: segments with text that the host sends
    MaxMemErrs            \* bound: allocations that fail

ASSUME SizeAssumption == /\ {PageLen, TCP_MSS, TCP_SND_BUF} \subseteq Nat \ {0}
                         /\ {TCP_MAXRTX, HTTPD_MAX_RETRIES} \subseteq Nat \ {0}
                         /\ U8 \in Nat /\ U8 > TCP_MAXRTX
                         /\ HTTPD_POLL_INTERVAL \in Nat \ {0} /\ Timeout \in Nat
                         /\ MaxData \in Nat /\ MaxMemErrs \in Nat
                         /\ Windows \subseteq Nat

VARIABLES
    pcb,     \* struct tcp_pcb; state "CLOSED": it is free
    hs,      \* struct http_state; live: it is allocated
    host,    \* what the host did and got
    ticks,   \* tcp_ticks, its lowest bit
    wire,    \* segments sent and of use to the host
    fault    \* what was used or freed after it was free

vars == <<pcb, hs, host, ticks, wire, fault>>

Sending == {"ESTABLISHED", "CLOSE_WAIT"}
Closing == {"FIN_WAIT_1", "FIN_WAIT_2", "CLOSING", "LAST_ACK"}
Active == Sending \cup Closing

\* A segment: data are positions in the page.
Segment == [seqno : 0 .. PageLen, data : Seq(0 .. PageLen - 1), fin : BOOLEAN]
TCP_TCPLEN(seg) == Len(seg.data) + IF seg.fin THEN 1 ELSE 0
End(seg) == seg.seqno + TCP_TCPLEN(seg)

\* snd_wnd of a pcb in use, or not.
SndWnd == Windows \cup {0}

TypeOK ==
    /\ pcb \in [state : Active \cup {"TIME_WAIT", "CLOSED"},
                lastack : 0 .. PageLen + 1, snd_nxt : 0 .. PageLen + 1,
                snd_lbb : 0 .. PageLen + 1,
                unsent : Seq(Segment), unacked : Seq(Segment),
                nrtx : 0 .. U8 - 1, infr : BOOLEAN,   \* TF_INFR
                snd_wnd : SndWnd,
                unread : 0 .. 2,               \* TCP_WND - rcv_wnd: text and FIN
                rxclosed : BOOLEAN,            \* TF_RXCLOSED
                arg : BOOLEAN,                 \* callback_arg is hs, not NULL
                cb : {"http", "poll", "none"}, \* callbacks set: all, http_poll, none
                polltmr : 0 .. HTTPD_POLL_INTERVAL, age : 0 .. Timeout]
    /\ hs \in [live : BOOLEAN, handle : BOOLEAN, file : 0 .. PageLen,
               retries : 0 .. HTTPD_MAX_RETRIES]
    /\ host \in [got : Seq(0 .. PageLen - 1), eof : BOOLEAN, text : 0 .. MaxData,
                 fin : {"no", "alone", "with"}, other : BOOLEAN, errs : 0 .. MaxMemErrs]
    /\ ticks \in 0 .. 1
    /\ fault \in {"none", "stale pcb", "pcb freed twice", "stale hs", "hs freed twice"}

NoHs == [live |-> FALSE, handle |-> FALSE, file |-> 0, retries |-> 0]
NoPcb == [state |-> "CLOSED", lastack |-> 0, snd_nxt |-> 0, snd_lbb |-> 0, unsent |-> <<>>,
          unacked |-> <<>>, nrtx |-> 0, infr |-> FALSE, snd_wnd |-> 0,
          unread |-> 0, rxclosed |-> FALSE, arg |-> FALSE, cb |-> "none", polltmr |-> 0,
          age |-> 0]
NoHost == [got |-> <<>>, eof |-> FALSE, text |-> 0, fin |-> "no", other |-> FALSE,
           errs |-> 0]

Init == /\ pcb = NoPcb /\ hs = NoHs /\ host = NoHost /\ ticks = 0 /\ wire = {} /\ fault = "none"

(***************************************************************************)
(* A handler works on the whole state: a record s of pcb, hs, wire, fault, *)
(* of `other' (httpd closed for another reason than the end of the page)   *)
(* and errs (the allocations that may still fail are MaxMemErrs - errs).   *)
(***************************************************************************)
Now == [pcb |-> pcb, hs |-> hs, wire |-> wire, fault |-> fault,
        other |-> host.other, errs |-> host.errs]

\* What the host has, as a sequence number. A segment that ends before it is of no use.
HostNext == Len(host.got) + IF host.eof THEN 1 ELSE 0
OfUse(segs) == {seg \in segs : End(seg) > HostNext}

Become(s, h) ==
    /\ pcb' = s.pcb /\ hs' = s.hs /\ fault' = s.fault
    /\ wire' = IF s.pcb.state = "CLOSED" THEN {} ELSE OfUse(s.wire)
    /\ host' = [h EXCEPT !.other = s.other, !.errs = s.errs]

Blame(s, what) == [s EXCEPT !.fault = IF @ = "none" THEN what ELSE @]
-----------------------------------------------------------------------------
(***************************************************************************)
(* tcp_out.c                                                               *)
(***************************************************************************)

AtMost(a, b) == IF a < b THEN a ELSE b
SndBuf(c) == TCP_SND_BUF - (c.snd_lbb - c.lastack)

\* Does the host's window have room for a segment? Its FIN needs none.
InWindow(c, seg) == seg.seqno - c.lastack + Len(seg.data) <= c.snd_wnd

\* Nothing was sent that is not acknowledged, or it is to be sent again: neither cwnd, which
\* is never less than a segment, nor Nagle keeps the first segment back.
MustSend(c) ==
    c.unsent # <<>> /\ Head(c.unsent).seqno <= c.lastack /\ InWindow(c, Head(c.unsent))

\* How many segments tcp_output may send: as long as they fit. A window smaller than the
\* first one, zero or not, holds everything up.
Sendable(c) == {n \in 0 .. Len(c.unsent) : /\ \A i \in 1 .. n : InWindow(c, c.unsent[i])
                                          /\ MustSend(c) => n > 0}

\* seg goes before the first segment of the queue that does not begin before it.
Insert(queue, seg) ==
    LET n == CHOOSE n \in 0 .. Len(queue) :
               /\ \A i \in 1 .. n : queue[i].seqno < seg.seqno
               /\ n < Len(queue) => queue[n + 1].seqno >= seg.seqno
    IN  SubSeq(queue, 1, n) \o <<seg>> \o SubSeq(queue, n + 1, Len(queue))

InsertAll(queue, segs) ==
    LET put[k \in 0 .. Len(segs)] == IF k = 0 THEN queue ELSE Insert(put[k - 1], segs[k])
    IN  put[Len(segs)]

Highest(n, segs) == IF segs # <<>> /\ End(Last(segs)) > n THEN End(Last(segs)) ELSE n

\* The first n unsent segments are sent and wait for their ACK, in order.
tcp_output(s, n) ==
    LET now == SubSeq(s.pcb.unsent, 1, n)
    IN  [s EXCEPT !.pcb.unsent = SubSeq(@, n + 1, Len(@)),
                  !.pcb.unacked = InsertAll(@, now),
                  !.pcb.snd_nxt = Highest(@, now),
                  !.wire = @ \cup Range(now)]

\* Of n bytes from position `at', segments of TCP_MSS.
Segments(seqno, at, n) ==
    [i \in 1 .. (n + TCP_MSS - 1) \div TCP_MSS |->
        LET from == (i - 1) * TCP_MSS
        IN  [seqno |-> seqno + from, fin |-> FALSE,
             data |-> [k \in 1 .. AtMost(TCP_MSS, n - from) |-> at + from + k - 1]]]

\* n bytes from position `at' of the page: the last unsent segment is filled up (though
\* it may have been sent before, tcp_rexmit_rto), then new ones are made.
tcp_write(c, at, n) ==
    LET room == IF c.unsent = <<>> THEN 0 ELSE TCP_MSS - Len(Last(c.unsent).data)
        first == AtMost(room, n)
        filled == IF first = 0 THEN c.unsent
                  ELSE Append(Front(c.unsent), [Last(c.unsent) EXCEPT
                               !.data = @ \o [k \in 1 .. first |-> at + k - 1]])
    IN  [c EXCEPT !.unsent = filled \o Segments(c.snd_lbb + first, at + first, n - first),
                  !.snd_lbb = @ + n]

\* tcp_send_fin puts the FIN on the last unsent segment, or needs room and memory for one
\* of its own (tcp_enqueue_flags).
FinHasPlace(c, mem) == c.unsent # <<>> \/ (SndBuf(c) > 0 /\ mem)

tcp_send_fin(c) ==
    IF c.unsent # <<>>
      THEN [c EXCEPT !.unsent = Append(Front(@), [Last(@) EXCEPT !.fin = TRUE])]
      ELSE [c EXCEPT !.unsent = <<[seqno |-> c.snd_lbb, data |-> <<>>, fin |-> TRUE]>>,
                     !.snd_lbb = @ + 1]

\* Mutant: the repeated segments go behind the others.
tcp_rexmit_rto_Behind(c) ==
    [c EXCEPT !.unsent = @ \o c.unacked, !.unacked = <<>>, !.nrtx = (@ + 1) % U8]

\* Everything that is not acknowledged goes to the front of what is to be sent.
tcp_rexmit_rto(c) ==
    [c EXCEPT !.unsent = c.unacked \o @, !.unacked = <<>>, !.nrtx = (@ + 1) % U8]

\* tcp_rexmit_fast after the third duplicate ACK: the first segment only, and once.
tcp_rexmit_fast(c) ==
    IF c.unacked # <<>> /\ ~c.infr
      THEN [c EXCEPT !.unsent = Insert(@, Head(c.unacked)), !.unacked = Tail(@),
                     !.nrtx = (@ + 1) % U8, !.infr = TRUE]
      ELSE c
-----------------------------------------------------------------------------
(***************************************************************************)
(* tcp.c and httpd.c: closing                                              *)
(***************************************************************************)

\* memp_free of the pcb, what is on its queues included.
FreePcb(s) ==
    IF s.pcb.state = "CLOSED" THEN Blame(s, "pcb freed twice")
    ELSE [s EXCEPT !.pcb = [NoPcb EXCEPT !.arg = s.pcb.arg, !.cb = s.pcb.cb,
                                         !.rxclosed = s.pcb.rxclosed]]

tcp_pcb_purge(c) == [c EXCEPT !.unsent = <<>>, !.unacked = <<>>]

ToTimeWait(c) == [tcp_pcb_purge(c) EXCEPT !.state = "TIME_WAIT"]

http_state_free(s) ==
    IF s.hs.live THEN [s EXCEPT !.hs = NoHs] ELSE Blame(s, "hs freed twice")

\* The error callback: http_err while it is set.
http_err(s) == IF s.pcb.cb = "http" /\ s.pcb.arg THEN http_state_free(s) ELSE s

\* The pcb is gone and the application is told.
Gone(s) ==
    LET freed == FreePcb(http_err(s))
    IN  [freed EXCEPT !.pcb.arg = FALSE, !.pcb.cb = "none"]

\* tcp_close: with text or a FIN not taken by the application the host is reset;
\* otherwise a FIN is queued, if there is memory for it (mem).
tcp_close(s, mem) ==
    LET c == [s.pcb EXCEPT !.rxclosed = TRUE]
    IN  CASE c.state \in Sending /\ c.unread > 0 ->
               IF c.state = "ESTABLISHED" THEN [s EXCEPT !.pcb = ToTimeWait(c)]
               ELSE FreePcb([s EXCEPT !.pcb = c])
          [] c.state \in Sending /\ c.unread = 0 /\ FinHasPlace(c, mem) ->
               [s EXCEPT !.pcb = [tcp_send_fin(c) EXCEPT !.state =
                   IF @ = "ESTABLISHED" THEN "FIN_WAIT_1" ELSE "LAST_ACK"]]
          [] OTHER -> [s EXCEPT !.pcb = c, !.errs = IF mem THEN @ ELSE @ + 1]

ClosedNow(s) == s.pcb.state \notin Sending

\* Mutant: the argument stays set.
http_close_conn_KeepsArg(s, mem) ==
    LET freed == IF s.pcb.arg THEN http_state_free(s) ELSE s
        closed == tcp_close([freed EXCEPT !.pcb.cb = "none"], mem)
    IN  IF ClosedNow(closed) THEN closed ELSE [closed EXCEPT !.pcb.cb = "poll"]

\* Mutant: a close that failed is not tried again.
http_close_conn_Once(s, mem) ==
    LET freed == IF s.pcb.arg THEN http_state_free(s) ELSE s
    IN  tcp_close([freed EXCEPT !.pcb.arg = FALSE, !.pcb.cb = "none"], mem)

\* The callbacks are cleared and hs is freed before tcp_close may fail; then http_poll
\* tries again, without an hs.
http_close_conn(s, mem) ==
    LET freed == IF s.pcb.arg THEN http_state_free(s) ELSE s
        closed == tcp_close([freed EXCEPT !.pcb.arg = FALSE, !.pcb.cb = "none"], mem)
    IN  IF ClosedNow(closed) THEN closed ELSE [closed EXCEPT !.pcb.cb = "poll"]
-----------------------------------------------------------------------------
(***************************************************************************)
(* httpd.c: the page                                                       *)
(***************************************************************************)

http_eof(s, mem) == http_close_conn(s, mem)

\* What http_write gets rid of: it halves the length as long as tcp_write fails, which it
\* does `fails' times, and gives up at 1.
Written(want, fails) ==
    LET n == want \div 2^fails IN IF fails > 0 /\ n <= 1 THEN 0 ELSE n

\* What of the rest of the page http_send_data_nonssi tries to write.
Want(s) == AtMost(AtMost(SndBuf(s.pcb), PageLen - s.hs.file), 2 * TCP_MSS)

\* Mutant: the connection is closed when the send buffer is full.
http_send_Full(s, fails, mem) ==
    LET n == Written(Want(s), fails)
        sent == [s EXCEPT !.pcb = tcp_write(@, s.hs.file, n), !.hs.file = @ + n,
                          !.errs = IF n < Want(s) THEN @ + 1 ELSE @]
    IN  IF SndBuf(sent.pcb) = 0 THEN http_eof(sent, mem) ELSE sent

\* As much of the page as fits; behind its end the connection is closed.
http_send(s, fails, mem) ==
    LET n == Written(Want(s), fails)
        sent == [s EXCEPT !.pcb = tcp_write(@, s.hs.file, n), !.hs.file = @ + n,
                          !.errs = IF n < Want(s) THEN @ + 1 ELSE @]
    IN  IF sent.hs.file = PageLen THEN http_eof(sent, mem) ELSE sent

\* A callback that uses hs.
WithHs(s, then) == IF s.hs.live THEN then ELSE Blame(s, "stale hs")

http_sent(s, fails, mem) ==
    WithHs(s, http_send([s EXCEPT !.hs.retries = 0], fails, mem))

http_poll(s, fails, mem) ==
    LET again == [s EXCEPT !.hs.retries = @ + 1]
    IN  IF ~s.pcb.arg THEN http_close_conn(s, mem)
        ELSE WithHs(s,
               IF again.hs.retries = HTTPD_MAX_RETRIES
                 THEN http_close_conn([again EXCEPT !.other = TRUE], mem)
               ELSE IF s.hs.handle THEN http_send(again, fails, mem) ELSE again)

\* Text: a part of the request, its end, or nonsense (or no such page). It is taken
\* (tcp_recved) at once.
http_recv(s, text, fails, mem) ==
    LET taken == [s EXCEPT !.pcb.unread = @ - 1]
        found == [taken EXCEPT !.hs.handle = TRUE, !.hs.file = 0, !.hs.retries = 0]
    IN  WithHs(s, CASE s.hs.handle \/ text = "partial" -> taken
                    [] ~s.hs.handle /\ text = "complete" -> http_send(found, fails, mem)
                    [] ~s.hs.handle /\ text = "bad" ->
                         http_close_conn([taken EXCEPT !.other = TRUE], mem))

\* http_recv without a pbuf: the host is done.
http_recv_null(s, mem) == WithHs(s, http_close_conn([s EXCEPT !.other = TRUE], mem))
-----------------------------------------------------------------------------
(***************************************************************************)
(* tcp_in.c                                                                *)
(***************************************************************************)

\* The first segments are dropped as long as they are acknowledged.
DropAcked(queue, ackno) ==
    LET n == CHOOSE n \in 0 .. Len(queue) :
               /\ \A i \in 1 .. n : End(queue[i]) <= ackno
               /\ n < Len(queue) => End(queue[n + 1]) > ackno
    IN  SubSeq(queue, n + 1, Len(queue))

\* The ACK half of tcp_receive. third: this is the third of some duplicate ACKs. Behind
\* tcp_rexmit_rto, what was sent once is on the unsent queue. The octet of a probe is not
\* in snd_nxt, and its ACK is out of sequence.
TakeAck(c, ackno, third) ==
    IF ackno > c.lastack /\ ackno <= c.snd_nxt
      THEN [c EXCEPT !.infr = FALSE, !.nrtx = 0, !.lastack = ackno, !.polltmr = 0,
                     !.unacked = DropAcked(@, ackno), !.unsent = DropAcked(@, ackno)]
      ELSE IF third THEN tcp_rexmit_fast(c) ELSE c

\* Does an ACK call http_sent? Not if it is for a FIN only.
Acked(c, ackno) ==
    ackno <= c.snd_nxt /\
    ackno - c.lastack > IF \E i \in DOMAIN c.unacked :
                              c.unacked[i].fin /\ End(c.unacked[i]) <= ackno THEN 1 ELSE 0

\* tcp_process: the next state. An ACK of all that was sent is taken for the ACK of the
\* FIN, sent or not.
NextState(c, ackno, fin) ==
    LET all == ackno = c.snd_nxt
    IN  CASE c.state \in Sending -> IF fin THEN "CLOSE_WAIT" ELSE c.state
          [] c.state = "FIN_WAIT_1" -> IF fin /\ all THEN "TIME_WAIT"
                                       ELSE IF fin THEN "CLOSING"
                                       ELSE IF all THEN "FIN_WAIT_2" ELSE "FIN_WAIT_1"
          [] c.state = "FIN_WAIT_2" -> IF fin THEN "TIME_WAIT" ELSE "FIN_WAIT_2"
          [] c.state = "CLOSING" -> IF all THEN "TIME_WAIT" ELSE "CLOSING"
          [] c.state = "LAST_ACK" -> IF all THEN "CLOSED" ELSE "LAST_ACK"

tcp_process(c, ackno, text, fin, third, wnd) ==
    LET c1 == [TakeAck(c, ackno, third) EXCEPT !.snd_wnd = wnd,
                 !.unread = (IF text # "none" THEN 1 ELSE 0) + (IF fin THEN 1 ELSE 0),
                 !.age = IF c.rxclosed THEN @ ELSE 0]
        to == NextState(c, ackno, fin)
    IN  IF to = "TIME_WAIT" THEN ToTimeWait(c1)
        ELSE IF to = "CLOSED" THEN c1   \* TF_CLOSED: tcp_input frees it
        ELSE [c1 EXCEPT !.state = to]

\* The callbacks of tcp_input: text that comes after the close aborts.
tcp_abort(s) == IF s.pcb.state = "TIME_WAIT" THEN FreePcb(s) ELSE Gone(s)
Event_Sent(s, acked, fails, mem) ==
    IF acked /\ s.pcb.cb = "http" THEN http_sent(s, fails, mem) ELSE s
Event_Recv(s, text, fails, mem) ==
    IF text = "none" THEN s
    ELSE IF s.pcb.rxclosed THEN tcp_abort(s)
    ELSE http_recv(s, text, fails, mem)
Event_Closed(s, mem) ==
    LET counted == [s EXCEPT !.pcb.unread = IF @ > 0 THEN @ - 1 ELSE 0]
    IN  IF s.pcb.state = "CLOSED" THEN Blame(s, "stale pcb")
        ELSE IF s.pcb.cb = "http" THEN http_recv_null(counted, mem) ELSE counted

tcp_input(s, ackno, text, fin, third, wnd, fails, mem) ==
    LET s1 == [s EXCEPT !.pcb = tcp_process(@, ackno, text, fin, third, wnd)]
        s2 == Event_Sent(s1, Acked(s.pcb, ackno), fails, mem)
        s3 == Event_Recv(s2, text, fails, mem)
        s4 == IF fin THEN Event_Closed(s3, mem) ELSE s3
    IN  IF NextState(s.pcb, ackno, fin) = "CLOSED" THEN Gone(s1)
        ELSE IF text # "none" /\ s2.pcb.rxclosed THEN s3
        ELSE IF s4.pcb.state = "CLOSED" THEN Blame(s4, "stale pcb")
        ELSE s4
-----------------------------------------------------------------------------
(***************************************************************************)
(* Steps                                                                   *)
(***************************************************************************)

\* How often allocations may fail in a step: fails in http_write, ~mem in tcp_send_fin. Only
\* the callbacks of httpd lead there.
MayFail(fails, mem) ==
    /\ fails > 0 => host.errs < MaxMemErrs /\ pcb.arg
    /\ ~mem => host.errs < MaxMemErrs /\ pcb.cb # "none"

\* The handler's outcome, then the tcp_output that ends it, within the bound on failures.
Finish(s, h) ==
    /\ s.errs <= MaxMemErrs
    /\ \E n \in Sendable(s.pcb) : Become(tcp_output(s, n), h)

\* A host connects. Its first window is of two segments at least (tcp_write makes smaller
\* segments for a host that never had one). http_accept may find no memory for its hs: the
\* pcb is aborted.
http_accept ==
    /\ pcb.state = "CLOSED"
    /\ \E wnd \in Windows :
          /\ wnd >= 2 * TCP_MSS
          /\ pcb' = [NoPcb EXCEPT !.state = "ESTABLISHED", !.arg = TRUE, !.cb = "http",
                                  !.snd_wnd = wnd]
    /\ hs' = [NoHs EXCEPT !.live = TRUE]
    /\ host' = NoHost /\ ticks' = 0 /\ wire' = {} /\ fault' = "none"

\* A segment reaches the host.
HostReceives ==
    /\ ~host.eof
    /\ \E seg \in wire :
          /\ seg.seqno <= HostNext /\ HostNext < End(seg)
          /\ host' = [host EXCEPT
                !.got = @ \o SubSeq(seg.data, HostNext - seg.seqno + 1, Len(seg.data)),
                !.eof = seg.fin]
          /\ wire' = {other \in wire : End(other) > End(seg)}
    /\ UNCHANGED <<pcb, hs, ticks, fault>>

\* The host acknowledges, maybe late or again, and may send text or its FIN with it, and
\* announce any window (an old segment leaves snd_wnd as it was: snd_wl1, snd_wl2). Left
\* out: a third duplicate ACK for a segment that does not fit any more because the host
\* took back window it had announced.
HostSegment ==
    /\ pcb.state \in Active
    /\ \E ackno \in pcb.lastack .. HostNext, text \in {"none", "partial", "complete", "bad"},
          fin \in BOOLEAN, third \in BOOLEAN, wnd \in Windows,
          fails \in 0 .. 2, mem \in BOOLEAN :
          /\ MayFail(fails, mem)
          /\ text # "none" => host.text < MaxData /\ host.fin = "no"
          /\ fin => host.fin = "no"
          /\ third => /\ ackno = pcb.lastack /\ text = "none" /\ ~fin
                      /\ wnd = pcb.snd_wnd /\ pcb.unacked # <<>>
                      /\ InWindow(pcb, Head(pcb.unacked))
          /\ Finish(tcp_input(Now, ackno, text, fin, third, wnd, fails, mem),
                    [host EXCEPT !.text = IF text = "none" THEN @ ELSE @ + 1,
                                 !.fin = IF ~fin THEN @
                                         ELSE IF text = "none" /\ ackno = pcb.lastack
                                         THEN "alone" ELSE "with"])
    /\ UNCHANGED ticks

\* The host resets the connection, or tcp_alloc takes the pcb for another one.
Reset ==
    /\ pcb.state # "CLOSED"
    /\ Become(tcp_abort(Now), host)
    /\ UNCHANGED ticks

\* A segment in TIME_WAIT is acknowledged and otherwise ignored, but a FIN restarts the
\* timeout.
tcp_timewait_input ==
    /\ pcb.state = "TIME_WAIT"
    /\ pcb' = [pcb EXCEPT !.age = 0]
    /\ UNCHANGED <<hs, host, ticks, wire, fault>>

Aged(c) == [c EXCEPT !.age = AtMost(@ + 1, Timeout)]
TooOld(c) == /\ c.age = Timeout
             /\ \/ c.state \in {"LAST_ACK", "TIME_WAIT"}
                \/ c.state = "FIN_WAIT_2" /\ c.rxclosed

\* The poll of tcp_slowtmr; without a callback its interval is 0.
Event_Poll(s, fails, mem) ==
    LET due == s.pcb.cb = "none" \/ s.pcb.polltmr + 1 >= HTTPD_POLL_INTERVAL
        s1 == [s EXCEPT !.pcb.polltmr = IF due THEN 0 ELSE @ + 1]
    IN  IF ~due \/ s.pcb.cb = "none" THEN s1 ELSE http_poll(s1, fails, mem)

Polled(c) == c.polltmr = 0

\* The first octet that is not acknowledged, or the FIN if that is all there is; snd_nxt
\* stays as it is.
tcp_zero_window_probe(c) ==
    LET queue == c.unacked \o c.unsent
        seg == Head(queue)
    IN  IF queue = <<>> THEN {}
        ELSE {[seqno |-> seg.seqno, data |-> SubSeq(seg.data, 1, AtMost(1, Len(seg.data))),
               fin |-> seg.data = <<>>]}

Probed(s, probe) ==
    IF probe THEN [s EXCEPT !.wire = @ \cup tcp_zero_window_probe(s.pcb)] ELSE s

\* One slow tick. repeat: the retransmission timer runs out. With a window of 0 the persist
\* timer runs instead; probe: it runs out.
tcp_slowtmr(repeat) ==
    /\ pcb.state \in Active
    /\ ticks' = 1 - ticks
    /\ LET s == [Now EXCEPT !.pcb = Aged(@)]
       IN  IF pcb.nrtx = TCP_MAXRTX \/ TooOld(s.pcb)
           THEN ~repeat /\ Become(Gone(s), host)
           ELSE \E fails \in 0 .. 2, mem \in BOOLEAN, probe \in BOOLEAN :
                  LET s1 == [Probed(s, probe) EXCEPT !.pcb =
                               IF repeat THEN tcp_rexmit_rto(@) ELSE @]
                  IN  /\ MayFail(fails, mem)
                      /\ repeat => pcb.unacked # <<>> /\ pcb.snd_wnd # 0
                      /\ probe => pcb.snd_wnd = 0
                      /\ \E n \in IF repeat THEN Sendable(s1.pcb) ELSE {0} :
                            LET s2 == Event_Poll(tcp_output(s1, n), fails, mem)
                            IN  IF Polled(s2.pcb) THEN Finish(s2, host)
                                ELSE s2.errs <= MaxMemErrs /\ Become(s2, host)

TimeWaitTick ==
    /\ pcb.state = "TIME_WAIT"
    /\ ticks' = 1 - ticks
    /\ LET s == [Now EXCEPT !.pcb = Aged(@)]
       IN  Become(IF TooOld(s.pcb) THEN FreePcb(s) ELSE s, host)

Tick == tcp_slowtmr(FALSE) \/ tcp_slowtmr(TRUE) \/ TimeWaitTick

Next == http_accept \/ HostReceives \/ HostSegment \/ tcp_timewait_input \/ Reset \/ Tick

Spec == Init /\ [][Next]_vars

(***************************************************************************)
(* The slow timer runs, and what is unacknowledged is sent again when its  *)
(* time has come; the host owes nothing.  The conjuncts are weak fairness  *)
(* of Tick and tcp_slowtmr(TRUE) with their enabling conditions written    *)
(* out.                                                                    *)
(***************************************************************************)
Repeatable == /\ pcb.state \in Active /\ pcb.unacked # <<>> /\ pcb.snd_wnd # 0
              /\ pcb.nrtx # TCP_MAXRTX /\ ~TooOld(Aged(pcb))

FairSpec == /\ Spec
            /\ []<>(pcb.state = "CLOSED") \/ []<><<Tick>>_vars
            /\ []<>~Repeatable \/ []<><<tcp_slowtmr(TRUE)>>_vars
-----------------------------------------------------------------------------
(***************************************************************************)
(* Properties                                                              *)
(***************************************************************************)

\* The host gets the page in order and every byte once, whatever was lost and repeated;
\* and the FIN behind the whole of it, unless httpd closed for another reason: polled in
\* vain, a request it did not understand, or the host's own FIN.
PageWhole ==
    /\ \A i \in DOMAIN host.got : host.got[i] = i - 1
    /\ host.eof /\ ~host.other => Len(host.got) = PageLen

\* unacked and then unsent hold what is not acknowledged up to snd_lbb, without a gap or
\* an overlap, and a FIN at the very end: also after retransmissions, fast or not, and
\* writes and FINs that were added to segments that had been sent.
QueuesSound ==
    /\ TypeOK
    /\ pcb.state \in Active =>
         LET queue == pcb.unacked \o pcb.unsent
         IN  /\ \A i \in DOMAIN queue :
                  /\ \A k \in DOMAIN queue[i].data : queue[i].data[k] = queue[i].seqno + k - 1
                  /\ i < Len(queue) => End(queue[i]) = queue[i + 1].seqno
                  /\ queue[i].fin => i = Len(queue) /\ pcb.state \in Closing
             /\ queue # <<>> => /\ Head(queue).seqno <= pcb.lastack
                                /\ pcb.lastack < End(Head(queue))
             /\ queue = <<>> => pcb.lastack >= pcb.snd_lbb

\* The hs belongs to a live pcb and to nobody once that is gone: freed once, by
\* http_close_conn or http_err, and not used after. So is the pcb, but for a FIN of the
\* host in one segment with text or a new ACK: if httpd then closes, tcp_close finds the
\* FIN's octet not taken, frees the pcb, and tcp_input goes on with it.
FreedOnce ==
    /\ hs.live <=> pcb.arg
    /\ pcb.arg => pcb.state \in Sending /\ pcb.cb = "http"
    /\ fault # "none" => host.fin = "with" /\ fault \in {"stale pcb", "pcb freed twice"}

\* What is not acknowledged waits for the host's window: that is 0, or nothing was sent that
\* could be repeated and the first segment does not fit.
Held(c) == /\ c.unacked \o c.unsent # <<>>
           /\ \/ c.snd_wnd = 0
              \/ c.unacked = <<>> /\ ~InWindow(c, Head(c.unsent))

\* Every connection ends and gives its pcb back, also if the host is never heard of again.
\* Two hosts keep it for ever, in this code: one whose window is 0, or smaller than the
\* segment it has to take (the persist timer probes without end, and for a small window
\* not even that runs), and one that repeats its FIN again and again in TIME_WAIT.
Freed == \/ []<>(pcb.state = "CLOSED" \/ Held(pcb))
         \/ []<><<tcp_timewait_input>>_vars
=============================================================================
