---------------------- MODULE HttpdConnection_proofs ----------------------
(***************************************************************************)
(* FreedOnce, QueuesSound and PageWhole for every page length, segment     *)
(* size, send buffer, timeout and number of retries, and for every bound   *)
(* on the texts of the host and on the allocations that fail.              *)
(*                                                                         *)
(* First, who owns the http_state and the pcb.  The queues play no part in *)
(* it.  All that is needed of a record is which fields it has; the         *)
(* handlers are then followed through the five fields of the pcb that      *)
(* decide about ownership.  The second part, from Queue on, is about what  *)
(* the queues hold and what the host gets.                                 *)
(***************************************************************************)
EXTENDS HttpdConnection, TLAPS, WellFoundedInduction, SequenceTheorems

PcbFields == {"state", "lastack", "snd_nxt", "snd_lbb", "unsent", "unacked", "nrtx", "infr",
              "snd_wnd", "unread", "rxclosed", "arg", "cb", "polltmr", "age"}
IsPcb(c) == c = [f \in PcbFields |-> c[f]] /\ c.lastack \in Int

IsHs(h) == h = [f \in {"live", "handle", "file", "retries"} |-> h[f]]

IsHost(h) == h = [f \in {"got", "eof", "text", "fin", "other", "errs"} |-> h[f]]

\* What a handler works on.
IsWhole(s) == /\ s = [f \in {"pcb", "hs", "wire", "fault", "other", "errs"} |-> s[f]]
              /\ IsPcb(s.pcb) /\ IsHs(s.hs)

(***************************************************************************)
(* The hs lives as long as the pcb points to it, which is as long as all   *)
(* the callbacks are set; a pcb in use that does not point to it has been  *)
(* closed by the application, and tcp_close has noted that (TF_RXCLOSED).  *)
(***************************************************************************)
Owned(s) ==
    /\ IsWhole(s)
    /\ s.pcb.state \in Active \cup {"TIME_WAIT", "CLOSED"}
    /\ {s.pcb.arg, s.pcb.rxclosed, s.hs.live} \subseteq BOOLEAN
    /\ s.hs.live = s.pcb.arg
    /\ s.pcb.arg => s.pcb.state \in Sending
    /\ s.pcb.arg <=> s.pcb.cb = "http"
    /\ s.pcb.state # "CLOSED" => (s.pcb.rxclosed <=> ~s.pcb.arg)

\* The faults a FIN that comes with text or a new ACK may bring about.
Known == {"stale pcb", "pcb freed twice"}

OwnerInv ==
    /\ Owned(Now) /\ IsHost(host)
    /\ pcb.state = "CLOSE_WAIT" => host.fin # "no"
    /\ fault # "none" => host.fin = "with" /\ fault \in Known
-----------------------------------------------------------------------------
(***************************************************************************)
(* Steps that leave the owner alone                                        *)
(***************************************************************************)

Quiet(c, d) ==
    /\ IsPcb(d)
    /\ d.state = c.state /\ d.unread = c.unread /\ d.rxclosed = c.rxclosed
    /\ d.arg = c.arg /\ d.cb = c.cb

\* tcp_write only adds to the queue of what is to be sent.
LEMMA WriteQuiet ==
    ASSUME NEW c, IsPcb(c), NEW at, NEW n
    PROVE  Quiet(c, tcp_write(c, at, n))
<1>1. \A u, v : Quiet(c, [c EXCEPT !.unsent = u, !.snd_lbb = v])
  BY ZenonT(60) DEF IsPcb, Quiet, PcbFields
<1> QED
  BY <1>1 DEF tcp_write

\* tcp_send_fin too.
LEMMA SendFinQuiet ==
    ASSUME NEW c, IsPcb(c)
    PROVE  Quiet(c, tcp_send_fin(c))
<1>1. \A u, v : Quiet(c, [c EXCEPT !.unsent = u, !.snd_lbb = v])
  BY ZenonT(60) DEF IsPcb, Quiet, PcbFields
<1>2. \A u : Quiet(c, [c EXCEPT !.unsent = u])
  BY DEF IsPcb, Quiet, PcbFields
<1> QED
  BY <1>1, <1>2 DEF tcp_send_fin

\* Retransmissions move segments from one queue to the other.
LEMMA RexmitQuiet ==
    ASSUME NEW c, IsPcb(c)
    PROVE  Quiet(c, tcp_rexmit_rto(c)) /\ Quiet(c, tcp_rexmit_fast(c))
<1>1. ASSUME NEW u, NEW v, NEW w
      PROVE  Quiet(c, [c EXCEPT !.unsent = u, !.unacked = v, !.nrtx = w])
  BY DEF IsPcb, Quiet, PcbFields
<1>2. ASSUME NEW u, NEW v, NEW w
      PROVE  Quiet(c, [c EXCEPT !.unsent = u, !.unacked = v, !.nrtx = w, !.infr = TRUE])
  BY DEF IsPcb, Quiet, PcbFields
<1>3. Quiet(c, c)
  BY DEF Quiet
<1> QED
  BY <1>1, <1>2, <1>3 DEF tcp_rexmit_rto, tcp_rexmit_fast

\* So does an ACK, and it may move lastack.
LEMMA AckQuiet ==
    ASSUME NEW c, IsPcb(c), NEW ackno \in Int, NEW third
    PROVE  Quiet(c, TakeAck(c, ackno, third))
<1>1. ASSUME NEW u, NEW v
      PROVE  Quiet(c, [c EXCEPT !.infr = FALSE, !.nrtx = 0, !.lastack = ackno,
                                !.polltmr = 0, !.unacked = u, !.unsent = v])
  BY DEF IsPcb, Quiet, PcbFields
<1>2. Quiet(c, c)
  BY DEF Quiet
<1> QED
  BY <1>1, <1>2, RexmitQuiet DEF TakeAck

\* The same of a handler: the hs, if it is allocated, stays so.
SameOwner(s, t) == /\ IsWhole(t) /\ Quiet(s.pcb, t.pcb)
                   /\ t.hs.live = s.hs.live /\ t.fault = s.fault

LEMMA SameOwnerOwned ==
    ASSUME NEW s, NEW t, Owned(s), SameOwner(s, t)
    PROVE  Owned(t)
  BY DEF Owned, SameOwner, Quiet

\* A new pcb with the same owner, and other changes of no account.
LEMMA QuietSame ==
    ASSUME NEW s, IsWhole(s), NEW c, Quiet(s.pcb, c)
    PROVE  SameOwner(s, [s EXCEPT !.pcb = c])
  BY DEF IsWhole, SameOwner, Quiet

LEMMA WireSame ==
    ASSUME NEW s, NEW t, SameOwner(s, t), NEW w
    PROVE  SameOwner(s, [t EXCEPT !.wire = w])
  BY DEF IsWhole, SameOwner

LEMMA ErrsSame ==
    ASSUME NEW s, NEW t, SameOwner(s, t), NEW w
    PROVE  SameOwner(s, [t EXCEPT !.errs = w])
  BY DEF IsWhole, SameOwner

LEMMA FileSame ==
    ASSUME NEW s, NEW t, SameOwner(s, t), NEW w
    PROVE  SameOwner(s, [t EXCEPT !.hs.file = w])
  BY DEF IsWhole, SameOwner, IsHs

\* tcp_output moves segments to the other queue and to the host.
LEMMA OutputSame ==
    ASSUME NEW s, IsWhole(s), NEW n
    PROVE  SameOwner(s, tcp_output(s, n))
<1>1. ASSUME NEW u, NEW v, NEW x
      PROVE  Quiet(s.pcb, [s.pcb EXCEPT !.unsent = u, !.unacked = v, !.snd_nxt = x])
  BY DEF IsWhole, IsPcb, Quiet, PcbFields
<1>2. ASSUME NEW u, NEW v, NEW x, NEW w
      PROVE  SameOwner(s, [s EXCEPT !.pcb.unsent = u, !.pcb.unacked = v,
                                    !.pcb.snd_nxt = x, !.wire = w])
  <2>1. [s EXCEPT !.pcb.unsent = u, !.pcb.unacked = v, !.pcb.snd_nxt = x, !.wire = w]
          = [[s EXCEPT !.pcb = [s.pcb EXCEPT !.unsent = u, !.unacked = v, !.snd_nxt = x]]
               EXCEPT !.wire = w]
    BY DEF IsWhole
  <2> QED
    BY <1>1, <2>1, QuietSame, WireSame
<1> QED
  BY <1>2 DEF tcp_output
-----------------------------------------------------------------------------
(***************************************************************************)
(* Closing                                                                 *)
(***************************************************************************)

\* What a handler of httpd leaves behind: the owner is as it was, or the application has
\* closed. The pcb is free only if the FIN of the host was not taken.
Served(s, t) ==
    /\ Owned(t) /\ t.fault = s.fault
    /\ t.pcb.arg => t.pcb.state = s.pcb.state /\ t.pcb.unread = s.pcb.unread
    /\ t.pcb.state = "CLOSE_WAIT" => s.pcb.state = "CLOSE_WAIT"
    /\ t.pcb.state = "CLOSED" => /\ s.pcb.state = "CLOSE_WAIT" /\ s.pcb.unread > 0
                                 /\ t.pcb.rxclosed = TRUE

LEMMA SameOwnerServed ==
    ASSUME NEW s, NEW t, Owned(s), SameOwner(s, t), s.pcb.state # "CLOSED"
    PROVE  Served(s, t)
  BY SameOwnerOwned DEF Served, SameOwner, Quiet

LEMMA NoPcbIsPcb == IsPcb(NoPcb) /\ NoPcb.state = "CLOSED"
  BY DEF NoPcb, IsPcb, PcbFields

\* What memp_free leaves of a pcb: its owner.
FreedPcb(a, b, r) == [NoPcb EXCEPT !.arg = a, !.cb = b, !.rxclosed = r]

LEMMA FreeIsPcb ==
    ASSUME NEW a, NEW b, NEW r
    PROVE  /\ IsPcb(FreedPcb(a, b, r)) /\ FreedPcb(a, b, r).state = "CLOSED"
           /\ FreedPcb(a, b, r).arg = a /\ FreedPcb(a, b, r).cb = b
           /\ FreedPcb(a, b, r).rxclosed = r
  BY NoPcbIsPcb DEF IsPcb, PcbFields, FreedPcb

\* tcp_close on a pcb that the application has let go of.
LEMMA CloseServed ==
    ASSUME NEW s, IsWhole(s), NEW mem,
           s.pcb.state \in Active, s.pcb.arg = FALSE, s.hs.live = FALSE, s.pcb.cb = "none"
    PROVE  Served(s, tcp_close(s, mem)) /\ tcp_close(s, mem).pcb.arg = FALSE
<1> DEFINE c == [s.pcb EXCEPT !.rxclosed = TRUE]
           Closed(d) == /\ IsPcb(d) /\ d.rxclosed = TRUE /\ d.arg = FALSE
                        /\ d.cb = "none"
<1>1. Closed(c) /\ c.state = s.pcb.state /\ c.unread = s.pcb.unread
  BY DEF IsWhole, IsPcb, PcbFields
<1> HIDE DEF c
<1>2. ASSUME NEW d, Closed(d), d.state \in Active \cup {"TIME_WAIT"},
             d.state = "CLOSE_WAIT" => s.pcb.state = "CLOSE_WAIT"
      PROVE  Served(s, [s EXCEPT !.pcb = d]) /\ [s EXCEPT !.pcb = d].pcb.arg = FALSE
  BY <1>2 DEF Served, Owned, IsWhole, Active, Sending, Closing
<1>3. CASE c.state \in Sending /\ c.unread > 0
  <2>1. CASE c.state = "ESTABLISHED"
    <3>1. Closed(ToTimeWait(c)) /\ ToTimeWait(c).state = "TIME_WAIT"
      BY <1>1 DEF ToTimeWait, tcp_pcb_purge, IsPcb, PcbFields
    <3>2. tcp_close(s, mem) = [s EXCEPT !.pcb = ToTimeWait(c)]
      BY <1>3, <2>1 DEF tcp_close, c
    <3> QED
      BY <1>2, <3>1, <3>2
  <2>2. CASE c.state # "ESTABLISHED"
    <3> DEFINE t == [s EXCEPT !.pcb = c]
    <3>1. tcp_close(s, mem) = FreePcb(t)
      BY <1>3, <2>2 DEF tcp_close, c
    <3>2. IsWhole(t) /\ t.pcb = c /\ t.hs = s.hs /\ t.fault = s.fault
      BY <1>1 DEF IsWhole
    <3> HIDE DEF t
    <3> DEFINE f == FreedPcb(c.arg, c.cb, c.rxclosed)
    <3>3. IsPcb(f) /\ f.state = "CLOSED" /\ f.arg = FALSE /\ f.cb = "none"
                   /\ f.rxclosed = TRUE
      BY <1>1, FreeIsPcb
    <3>4. FreePcb(t) = [t EXCEPT !.pcb = f]
      BY <1>1, <1>3, <3>2 DEF FreePcb, Sending, FreedPcb
    <3> HIDE DEF f
    <3>5. s.pcb.state = "CLOSE_WAIT" /\ s.pcb.unread > 0
      BY <1>1, <1>3, <2>2 DEF Sending
    <3> QED
      BY <3>1, <3>2, <3>3, <3>4, <3>5, ZenonT(60) DEF Served, Owned, IsWhole
  <2> QED
    BY <2>1, <2>2
<1>4. CASE /\ c.state \in Sending /\ c.unread = 0 /\ FinHasPlace(c, mem)
           /\ ~(c.unread > 0)
  <2> DEFINE d == [tcp_send_fin(c) EXCEPT !.state =
                     IF @ = "ESTABLISHED" THEN "FIN_WAIT_1" ELSE "LAST_ACK"]
  <2>1. Quiet(c, tcp_send_fin(c))
    BY <1>1, SendFinQuiet
  <2>2. Closed(d) /\ d.state \in {"FIN_WAIT_1", "LAST_ACK"}
    BY <1>1, <2>1 DEF Quiet, IsPcb, PcbFields
  <2>3. tcp_close(s, mem) = [s EXCEPT !.pcb = d]
    BY <1>4 DEF tcp_close, c
  <2> HIDE DEF d
  <2> QED
    BY <1>2, <2>2, <2>3, ZenonT(60) DEF Active, Closing
<1>5. CASE /\ ~(c.state \in Sending /\ c.unread > 0)
           /\ ~(c.state \in Sending /\ c.unread = 0 /\ FinHasPlace(c, mem))
  <2> DEFINE e == IF mem THEN s.errs ELSE s.errs + 1
  <2>1. tcp_close(s, mem) = [s EXCEPT !.pcb = c, !.errs = e]
    BY <1>5 DEF tcp_close, c
  <2> HIDE DEF e
  <2>2. /\ Served(s, [s EXCEPT !.pcb = c, !.errs = e])
        /\ [s EXCEPT !.pcb = c, !.errs = e].pcb.arg = FALSE
    BY <1>1 DEF Served, Owned, IsWhole, Active, Sending, Closing
  <2> QED
    BY <2>1, <2>2
<1> QED
  BY <1>3, <1>4, <1>5, <1>1

LEMMA LetGo ==
    ASSUME NEW s, IsWhole(s)
    PROVE  LET t == [s EXCEPT !.pcb.arg = FALSE, !.pcb.cb = "none"]
           IN  /\ IsWhole(t) /\ t.pcb.arg = FALSE /\ t.pcb.cb = "none"
               /\ t.pcb.state = s.pcb.state /\ t.pcb.unread = s.pcb.unread
               /\ t.pcb.rxclosed = s.pcb.rxclosed
               /\ t.hs = s.hs /\ t.fault = s.fault
  BY DEF IsWhole, IsPcb, PcbFields

\* http_state_free of an hs that is allocated.
LEMMA StateFreed ==
    ASSUME NEW s, IsWhole(s), s.hs.live = TRUE
    PROVE  LET t == http_state_free(s)
           IN  IsWhole(t) /\ t.pcb = s.pcb /\ t.hs.live = FALSE /\ t.fault = s.fault
  BY DEF IsWhole, IsHs, http_state_free, NoHs

\* http_close_conn frees the hs if the pcb still points to it, and the pcb never points to
\* it again.
LEMMA CloseConnServed ==
    ASSUME NEW s, Owned(s), s.pcb.state \in Active, NEW mem
    PROVE  LET t == http_close_conn(s, mem)
           IN  Served(s, t) /\ t.pcb.arg = FALSE
<1> DEFINE freed == IF s.pcb.arg THEN http_state_free(s) ELSE s
           open == [freed EXCEPT !.pcb.arg = FALSE, !.pcb.cb = "none"]
           closed == tcp_close(open, mem)
           poll == [closed EXCEPT !.pcb.cb = "poll"]
<1>1. IsWhole(freed) /\ freed.pcb = s.pcb /\ freed.hs.live = FALSE /\ freed.fault = s.fault
  BY StateFreed DEF Owned
<1> HIDE DEF freed
<1>2. /\ IsWhole(open) /\ open.pcb.arg = FALSE /\ open.pcb.cb = "none"
      /\ open.pcb.state = s.pcb.state /\ open.pcb.unread = s.pcb.unread
      /\ open.hs.live = FALSE /\ open.fault = s.fault
  BY <1>1, LetGo
<1> HIDE DEF open
<1>3. Served(open, closed) /\ closed.pcb.arg = FALSE
  BY <1>2, CloseServed
<1> HIDE DEF closed
<1>5. Served(s, closed)
  BY <1>2, <1>3 DEF Served
<1>6. Served(s, poll) /\ poll.pcb.arg = FALSE
  <2>1. /\ IsWhole(poll) /\ poll.hs = closed.hs /\ poll.fault = closed.fault
        /\ poll.pcb.arg = FALSE /\ poll.pcb.cb = "poll" /\ poll.pcb.state = closed.pcb.state
        /\ poll.pcb.rxclosed = closed.pcb.rxclosed
    BY <1>3, <1>5 DEF Served, Owned, IsWhole, IsPcb, PcbFields
  <2> HIDE DEF poll
  <2> QED
    BY <2>1, <1>3, <1>5 DEF Served, Owned
<1> QED
  BY <1>3, <1>5, <1>6 DEF http_close_conn, freed, open, closed

\* Who aborts a pcb frees it; a second time is noted as a fault.
Aborted(s, t) ==
    /\ Owned(t) /\ t.pcb.state = "CLOSED"
    /\ s.pcb.state # "CLOSED" => t.fault = s.fault
    /\ t.fault = s.fault \/ t.fault \in Known

\* FreePcb of a pcb in use.
LEMMA PcbFreed ==
    ASSUME NEW s, IsWhole(s), s.pcb.state # "CLOSED"
    PROVE  LET t == FreePcb(s)
           IN  /\ IsWhole(t) /\ t.pcb = FreedPcb(s.pcb.arg, s.pcb.cb, s.pcb.rxclosed)
               /\ t.hs = s.hs /\ t.fault = s.fault
<1>1. FreePcb(s) = [s EXCEPT !.pcb = FreedPcb(s.pcb.arg, s.pcb.cb, s.pcb.rxclosed)]
  BY DEF FreePcb, FreedPcb
<1> QED
  BY <1>1, FreeIsPcb DEF IsWhole

\* Blame only notes the fault.
LEMMA BlameNotes ==
    ASSUME NEW s, IsWhole(s), NEW what
    PROVE  LET t == Blame(s, what)
           IN  /\ IsWhole(t) /\ t.pcb = s.pcb /\ t.hs = s.hs
               /\ t.fault = s.fault \/ t.fault = what
  BY DEF IsWhole, Blame

\* tcp_abort, tcp_slowtmr and the ACK of the FIN: http_err frees the hs if the pcb still
\* points to it.
LEMMA GoneAborted ==
    ASSUME NEW s, Owned(s)
    PROVE  Aborted(s, Gone(s))
<1> DEFINE told == http_err(s)
           freed == FreePcb(told)
           t == [freed EXCEPT !.pcb.arg = FALSE, !.pcb.cb = "none"]
<1>1. IsWhole(told) /\ told.pcb = s.pcb /\ told.hs.live = FALSE /\ told.fault = s.fault
  BY StateFreed DEF Owned, http_err
<1> HIDE DEF told
<1>2. /\ IsWhole(freed) /\ freed.pcb.state = "CLOSED" /\ freed.pcb.rxclosed \in BOOLEAN
      /\ freed.hs = told.hs
      /\ s.pcb.state # "CLOSED" => freed.fault = s.fault
      /\ freed.fault = s.fault \/ freed.fault \in Known
  <2>1. CASE s.pcb.state = "CLOSED"
    <3>1. freed = Blame(told, "pcb freed twice")
      BY <1>1, <2>1 DEF FreePcb
    <3> HIDE DEF freed
    <3> QED
      BY <1>1, <2>1, <3>1, BlameNotes, ZenonT(60) DEF Owned, Known
  <2>2. CASE s.pcb.state # "CLOSED"
    BY <1>1, <2>2, PcbFreed, FreeIsPcb DEF Owned
  <2> QED
    BY <2>1, <2>2
<1> HIDE DEF freed
<1>3. /\ IsWhole(t) /\ t.pcb.arg = FALSE /\ t.pcb.cb = "none" /\ t.pcb.state = "CLOSED"
      /\ t.pcb.rxclosed \in BOOLEAN /\ t.hs.live = FALSE /\ t.fault = freed.fault
  BY <1>1, <1>2, LetGo
<1>4. Gone(s) = t
  BY DEF Gone, told, freed
<1> HIDE DEF t
<1> QED
  BY <1>2, <1>3, <1>4 DEF Aborted, Owned

LEMMA FreeAborted ==
    ASSUME NEW s, Owned(s), s.pcb.state = "TIME_WAIT"
    PROVE  Aborted(s, FreePcb(s))
<1> DEFINE t == FreePcb(s)
<1>1. /\ IsWhole(t) /\ t.pcb.state = "CLOSED" /\ t.pcb.arg = s.pcb.arg
      /\ t.pcb.cb = s.pcb.cb /\ t.pcb.rxclosed = s.pcb.rxclosed
      /\ t.hs = s.hs /\ t.fault = s.fault
  BY PcbFreed, FreeIsPcb DEF Owned
<1> HIDE DEF t
<1>2. s.pcb.arg = FALSE
  BY DEF Owned, Sending
<1>3. Aborted(s, t)
  BY <1>1, <1>2 DEF Aborted, Owned
<1> QED
  BY <1>3 DEF t

LEMMA AbortAborted ==
    ASSUME NEW s, Owned(s)
    PROVE  Aborted(s, tcp_abort(s))
  BY GoneAborted, FreeAborted DEF tcp_abort
-----------------------------------------------------------------------------
(***************************************************************************)
(* The handlers of httpd.c                                                 *)
(***************************************************************************)

LEMMA ServedAfter ==
    ASSUME NEW s, NEW t, NEW u, SameOwner(s, t), Served(t, u)
    PROVE  Served(s, u)
  BY DEF Served, SameOwner, Quiet

LEMMA CloseAfter ==
    ASSUME NEW s, Owned(s), s.pcb.state \in Active, NEW t, SameOwner(s, t), NEW mem
    PROVE  Served(s, http_close_conn(t, mem))
<1>1. Owned(t) /\ t.pcb.state \in Active
  BY SameOwnerOwned DEF SameOwner, Quiet
<1> QED
  BY <1>1, CloseConnServed, ServedAfter

LEMMA SendServed ==
    ASSUME NEW s, Owned(s), s.pcb.state \in Active, NEW fails, NEW mem
    PROVE  Served(s, http_send(s, fails, mem))
<1> DEFINE n == Written(Want(s), fails)
           e == IF n < Want(s) THEN s.errs + 1 ELSE s.errs
           sent == [s EXCEPT !.pcb = tcp_write(@, s.hs.file, n), !.hs.file = @ + n,
                             !.errs = IF n < Want(s) THEN @ + 1 ELSE @]
<1>1. SameOwner(s, [s EXCEPT !.pcb = tcp_write(s.pcb, s.hs.file, n)])
  BY WriteQuiet, QuietSame DEF Owned, IsWhole
<1>2. ASSUME NEW c, SameOwner(s, [s EXCEPT !.pcb = c]), NEW w, NEW v
      PROVE  SameOwner(s, [s EXCEPT !.pcb = c, !.hs.file = w, !.errs = v])
  <2>1. [s EXCEPT !.pcb = c, !.hs.file = w, !.errs = v]
          = [[[s EXCEPT !.pcb = c] EXCEPT !.hs.file = w] EXCEPT !.errs = v]
    BY DEF Owned, IsWhole
  <2> QED
    BY <1>2, <2>1, FileSame, ErrsSame
<1>3. SameOwner(s, sent)
  <2> HIDE DEF n
  <2>1. SameOwner(s, [s EXCEPT !.pcb = tcp_write(s.pcb, s.hs.file, n),
                               !.hs.file = s.hs.file + n, !.errs = e])
    BY <1>1, <1>2
  <2> QED
    BY <2>1
<1>4. s.pcb.state # "CLOSED"
  BY DEF Active, Sending, Closing
<1>5. http_send(s, fails, mem) = sent \/ http_send(s, fails, mem) = http_close_conn(sent, mem)
  BY DEF http_send, http_eof
<1> HIDE DEF sent
<1> QED
  BY <1>3, <1>4, <1>5, SameOwnerServed, CloseAfter

\* The counters of the hs and the reason why httpd closes.
LEMMA NotesSame ==
    ASSUME NEW s, IsWhole(s), NEW r
    PROVE  /\ SameOwner(s, [s EXCEPT !.hs.retries = r])
           /\ SameOwner(s, [s EXCEPT !.other = r])
  BY DEF SameOwner, Quiet, IsWhole, IsHs

LEMMA SendAfter ==
    ASSUME NEW s, Owned(s), s.pcb.state \in Active, NEW t, SameOwner(s, t),
           NEW fails, NEW mem
    PROVE  Served(s, http_send(t, fails, mem))
<1>1. Owned(t) /\ t.pcb.state \in Active
  BY SameOwnerOwned DEF SameOwner, Quiet
<1> QED
  BY <1>1, SendServed, ServedAfter

\* http_sent finds its hs.
LEMMA SentServed ==
    ASSUME NEW s, Owned(s), s.pcb.arg = TRUE, NEW fails, NEW mem
    PROVE  Served(s, http_sent(s, fails, mem))
<1> DEFINE t == [s EXCEPT !.hs.retries = 0]
<1>1. SameOwner(s, t)
  BY NotesSame DEF Owned
<1>2. s.pcb.state \in Active
  BY DEF Owned, Active
<1>3. http_sent(s, fails, mem) = http_send(t, fails, mem)
  BY DEF http_sent, WithHs, Owned
<1> HIDE DEF t
<1> QED
  BY <1>1, <1>2, <1>3, SendAfter

\* http_poll finds its hs, or closes without it.
LEMMA PollServed ==
    ASSUME NEW s, Owned(s), s.pcb.state \in Active, NEW fails, NEW mem
    PROVE  Served(s, http_poll(s, fails, mem))
<1> DEFINE again == [s EXCEPT !.hs.retries = @ + 1]
           told == [again EXCEPT !.other = TRUE]
<1>1. SameOwner(s, again)
  BY NotesSame DEF Owned
<1>2. http_poll(s, fails, mem) \in {http_close_conn(s, mem), http_close_conn(told, mem),
                                    http_send(again, fails, mem), again}
  BY DEF http_poll, WithHs, Owned
<1> HIDE DEF again
<1>3. SameOwner(s, told)
  BY <1>1 DEF SameOwner, Quiet, IsWhole
<1> HIDE DEF told
<1>4. SameOwner(s, s)
  BY DEF SameOwner, Quiet, Owned, IsWhole
<1>5. s.pcb.state # "CLOSED"
  BY DEF Active, Sending, Closing
<1> QED
  BY <1>1, <1>2, <1>3, <1>4, <1>5, CloseAfter, SendAfter, SameOwnerServed

\* http_recv finds its hs; the text is taken before anything is closed.
LEMMA RecvServed ==
    ASSUME NEW s, Owned(s), s.pcb.arg = TRUE, NEW fails, NEW mem,
           NEW text \in {"partial", "complete", "bad"}
    PROVE  /\ Owned([s EXCEPT !.pcb.unread = @ - 1])
           /\ Served([s EXCEPT !.pcb.unread = @ - 1], http_recv(s, text, fails, mem))
<1> DEFINE taken == [s EXCEPT !.pcb.unread = @ - 1]
           told == [taken EXCEPT !.other = TRUE]
           found == [taken EXCEPT !.hs.handle = TRUE, !.hs.file = 0, !.hs.retries = 0]
<1>1. /\ IsWhole(taken) /\ taken.hs = s.hs /\ taken.fault = s.fault
      /\ taken.pcb.arg = TRUE /\ taken.pcb.cb = s.pcb.cb /\ taken.pcb.state = s.pcb.state
      /\ taken.pcb.rxclosed = s.pcb.rxclosed
  BY DEF Owned, IsWhole, IsPcb, PcbFields
<1>2. http_recv(s, text, fails, mem) \in {taken, http_send(found, fails, mem),
                                          http_close_conn(told, mem)}
  BY DEF http_recv, WithHs, Owned
<1> HIDE DEF taken
<1>3. Owned(taken) /\ taken.pcb.state \in Active /\ taken.pcb.state # "CLOSED"
  BY <1>1 DEF Owned, Active, Sending
<1>4. SameOwner(taken, taken) /\ SameOwner(taken, told)
  BY <1>1 DEF SameOwner, Quiet, IsWhole
<1>5. SameOwner(taken, found)
  BY <1>1 DEF SameOwner, Quiet, IsWhole, IsHs
<1> HIDE DEF told, found
<1>6. Served(taken, http_recv(s, text, fails, mem))
  BY <1>2, <1>3, <1>4, <1>5, CloseAfter, SendAfter, SameOwnerServed
<1> QED
  BY <1>3, <1>6 DEF taken

\* And so does http_recv without a pbuf.
LEMMA RecvNullServed ==
    ASSUME NEW s, Owned(s), s.pcb.arg = TRUE, NEW mem
    PROVE  Served(s, http_recv_null(s, mem))
<1> DEFINE told == [s EXCEPT !.other = TRUE]
<1>1. SameOwner(s, told)
  BY NotesSame DEF Owned
<1>2. s.pcb.state \in Active
  BY DEF Owned, Active
<1>3. http_recv_null(s, mem) = http_close_conn(told, mem)
  BY DEF http_recv_null, WithHs, Owned
<1> HIDE DEF told
<1> QED
  BY <1>1, <1>2, <1>3, CloseAfter
-----------------------------------------------------------------------------
(***************************************************************************)
(* tcp_in.c                                                                *)
(***************************************************************************)

\* What is not taken, after tcp_process: the text and the FIN of this segment.
NotTaken(text, fin) == (IF text # "none" THEN 1 ELSE 0) + (IF fin THEN 1 ELSE 0)

\* tcp_process follows the state and leaves the owner alone.
LEMMA ProcessOwned ==
    ASSUME NEW s, Owned(s), s.pcb.state \in Active, NEW ackno \in Int,
           NEW text, NEW fin \in BOOLEAN, NEW third, NEW wnd
    PROVE  LET t == [s EXCEPT !.pcb = tcp_process(@, ackno, text, fin, third, wnd)]
           IN  /\ Owned(t) /\ t.fault = s.fault /\ t.hs = s.hs
               /\ t.pcb.state # "CLOSED"
               /\ t.pcb.unread = NotTaken(text, fin)
               /\ t.pcb.arg = s.pcb.arg /\ t.pcb.rxclosed = s.pcb.rxclosed
               /\ t.pcb.state = "CLOSE_WAIT" => s.pcb.state = "CLOSE_WAIT" \/ fin
<1> DEFINE c == s.pcb
           c0 == TakeAck(c, ackno, third)
           c1 == [c0 EXCEPT !.snd_wnd = wnd,
                    !.unread = (IF text # "none" THEN 1 ELSE 0) + (IF fin THEN 1 ELSE 0),
                    !.age = IF c.rxclosed THEN @ ELSE 0]
           to == NextState(c, ackno, fin)
           d == tcp_process(c, ackno, text, fin, third, wnd)
<1>1. Quiet(c, c0)
  BY AckQuiet DEF Owned, IsWhole
<1> HIDE DEF c0
<1>2. /\ IsPcb(c1) /\ c1.state = c.state /\ c1.unread = NotTaken(text, fin)
      /\ c1.rxclosed = c.rxclosed /\ c1.arg = c.arg /\ c1.cb = c.cb
  <2> DEFINE Taken(o, u, a) == [c0 EXCEPT !.snd_wnd = o, !.unread = u, !.age = a]
             age == IF c.rxclosed THEN c0.age ELSE 0
  <2>1. ASSUME NEW o, NEW u, NEW a
        PROVE  /\ IsPcb(Taken(o, u, a)) /\ Taken(o, u, a).state = c.state
               /\ Taken(o, u, a).unread = u /\ Taken(o, u, a).rxclosed = c.rxclosed
               /\ Taken(o, u, a).arg = c.arg /\ Taken(o, u, a).cb = c.cb
    BY <1>1 DEF Quiet, IsPcb, PcbFields
  <2>2. c1 = Taken(wnd, NotTaken(text, fin), age)
    BY DEF NotTaken
  <2> HIDE DEF Taken, c1, age
  <2> QED
    BY <2>1, <2>2
<1> HIDE DEF c1
<1>3. d = IF to = "TIME_WAIT" THEN ToTimeWait(c1)
          ELSE IF to = "CLOSED" THEN c1 ELSE [c1 EXCEPT !.state = to]
  BY DEF tcp_process, c1, c0
<1>4. /\ to \in Active \cup {"TIME_WAIT", "CLOSED"}
      /\ c.state \in Sending => to \in Sending
      /\ to = "CLOSE_WAIT" => c.state = "CLOSE_WAIT" \/ fin
      /\ to = "CLOSED" => c.state = "LAST_ACK"
  BY DEF NextState, Active, Sending, Closing
<1> HIDE DEF to
<1>5. /\ IsPcb(d) /\ d.unread = NotTaken(text, fin)
      /\ d.rxclosed = c.rxclosed /\ d.arg = c.arg /\ d.cb = c.cb
      /\ d.state = IF to = "CLOSED" THEN c.state ELSE to
  <2>1. CASE to = "TIME_WAIT"
    <3>1. d = ToTimeWait(c1)
      BY <1>3, <2>1
    <3> QED
      BY <3>1, <1>2, <2>1 DEF ToTimeWait, tcp_pcb_purge, IsPcb, PcbFields
  <2>2. CASE to = "CLOSED"
    <3>1. d = c1
      BY <1>3, <2>2
    <3> HIDE DEF d
    <3> QED
      BY <3>1, <1>2, <2>2
  <2>3. CASE to # "TIME_WAIT" /\ to # "CLOSED"
    <3>1. d = [c1 EXCEPT !.state = to]
      BY <1>3, <2>3
    <3> HIDE DEF d
    <3> QED
      BY <3>1, <1>2, <2>3 DEF IsPcb, PcbFields
  <2> QED
    BY <2>1, <2>2, <2>3
<1> HIDE DEF d
<1> DEFINE t == [s EXCEPT !.pcb = d]
<1>6. IsWhole(t) /\ t.pcb = d /\ t.hs = s.hs /\ t.fault = s.fault
  BY <1>5 DEF Owned, IsWhole
<1> HIDE DEF t
<1>7. /\ Owned(t) /\ t.pcb.state # "CLOSED"
      /\ t.pcb.state = "CLOSE_WAIT" => s.pcb.state = "CLOSE_WAIT" \/ fin
  <2>1. d.state \in Active \cup {"TIME_WAIT"} /\ d.state # "CLOSED"
    BY <1>4, <1>5 DEF Active, Sending, Closing
  <2>2. s.pcb.arg => d.state \in Sending
    BY <1>4, <1>5 DEF Owned, Sending
  <2>3. d.state = "CLOSE_WAIT" => s.pcb.state = "CLOSE_WAIT" \/ fin
    BY <1>4, <1>5
  <2>4. s.pcb.rxclosed <=> ~s.pcb.arg
    BY DEF Owned, Active, Sending, Closing
  <2> QED
    BY <1>5, <1>6, <2>1, <2>2, <2>3, <2>4 DEF Owned
<1> QED
  BY <1>5, <1>6, <1>7 DEF t, d

(***************************************************************************)
(* The pcb is free in the middle of tcp_input only if the FIN is in the    *)
(* same segment as text or a new ACK.                                      *)
(***************************************************************************)
With(c, ackno, text, fin) == fin /\ (text # "none" \/ ackno # c.lastack)

\* Without a new ACK there is no http_sent.
LEMMA NoNewAck ==
    ASSUME NEW c, IsPcb(c), NEW ackno, ackno = c.lastack
    PROVE  Acked(c, ackno) = FALSE
<1>1. ackno \in Int /\ ackno - c.lastack = 0
  BY DEF IsPcb
<1> QED
  BY <1>1 DEF Acked

\* tcp_input calls http_sent, http_recv and http_recv without a pbuf, in this order, and
\* every one of them may close: the next finds its hs or is not called, and a pcb that is
\* gone is noted as a fault.
LEMMA InputOwned ==
    ASSUME NEW s, Owned(s), s.pcb.state \in Active, NEW ackno \in Int,
           NEW text \in {"none", "partial", "complete", "bad"}, NEW fin \in BOOLEAN,
           NEW third, NEW wnd, NEW fails, NEW mem,
           text # "none" \/ fin => s.pcb.state # "CLOSE_WAIT"
    PROVE  LET t == tcp_input(s, ackno, text, fin, third, wnd, fails, mem)
           IN  /\ Owned(t)
               /\ \/ t.fault = s.fault
                  \/ t.fault \in Known /\ With(s.pcb, ackno, text, fin)
               /\ t.pcb.state = "CLOSE_WAIT" => s.pcb.state = "CLOSE_WAIT" \/ fin
<1> DEFINE s1 == [s EXCEPT !.pcb = tcp_process(@, ackno, text, fin, third, wnd)]
           acked == Acked(s.pcb, ackno)
           s2 == Event_Sent(s1, acked, fails, mem)
           s3 == Event_Recv(s2, text, fails, mem)
           counted == [s3 EXCEPT !.pcb.unread = IF @ > 0 THEN @ - 1 ELSE 0]
           s4 == IF fin THEN Event_Closed(s3, mem) ELSE s3
           t == tcp_input(s, ackno, text, fin, third, wnd, fails, mem)
           with == With(s.pcb, ackno, text, fin)
           Fine(u) == /\ Owned(u)
                      /\ u.fault = s.fault \/ (u.fault \in Known /\ with)
                      /\ u.pcb.state = "CLOSE_WAIT" => s.pcb.state = "CLOSE_WAIT" \/ fin
<1> SUFFICES Fine(t)
  OBVIOUS
<1>0. t = IF NextState(s.pcb, ackno, fin) = "CLOSED" THEN Gone(s1)
          ELSE IF text # "none" /\ s2.pcb.rxclosed THEN s3
          ELSE IF s4.pcb.state = "CLOSED" THEN Blame(s4, "stale pcb") ELSE s4
  BY DEF tcp_input
<1>1. /\ Owned(s1) /\ s1.fault = s.fault /\ s1.hs = s.hs
      /\ s1.pcb.state # "CLOSED"
      /\ s1.pcb.unread = NotTaken(text, fin)
      /\ s1.pcb.arg = s.pcb.arg /\ s1.pcb.rxclosed = s.pcb.rxclosed
      /\ s1.pcb.state = "CLOSE_WAIT" => s.pcb.state = "CLOSE_WAIT" \/ fin
  BY ProcessOwned
<1> HIDE DEF s1, t
<1>2. acked => ackno # s.pcb.lastack
  BY NoNewAck DEF Owned, IsWhole
<1> HIDE DEF acked
\* The pcb is free behind http_sent: the FIN came with a new ACK.
<1>3. Served(s1, s2) /\ (s2.pcb.state = "CLOSED" => with)
  <2>1. CASE acked /\ s1.pcb.cb = "http"
    <3>1. s2 = http_sent(s1, fails, mem)
      BY <2>1 DEF Event_Sent
    <3>2. s1.pcb.arg = TRUE
      BY <1>1, <2>1 DEF Owned
    <3>3. Served(s1, s2)
      BY <1>1, <3>1, <3>2, SentServed
    <3>4. s2.pcb.state = "CLOSED" => with
      <4>1. SUFFICES ASSUME s2.pcb.state = "CLOSED" PROVE with
        OBVIOUS
      <4>2. s1.pcb.state = "CLOSE_WAIT" /\ s1.pcb.unread > 0
        BY <3>3, <4>1 DEF Served
      <4>3. text # "none" \/ fin
        BY <1>1, <4>2 DEF NotTaken
      <4>4. fin
        BY <1>1, <4>2, <4>3
      <4> QED
        BY <1>2, <2>1, <4>4 DEF With
    <3> QED
      BY <3>3, <3>4
  <2>2. CASE ~(acked /\ s1.pcb.cb = "http")
    <3>1. s2 = s1
      BY <2>2 DEF Event_Sent
    <3> HIDE DEF s2
    <3>2. SameOwner(s1, s1)
      BY <1>1 DEF Owned, SameOwner, Quiet, IsWhole
    <3>3. Served(s1, s2)
      BY <1>1, <3>1, <3>2, SameOwnerServed
    <3> QED
      BY <1>1, <3>1, <3>3
  <2> QED
    BY <2>1, <2>2
<1> HIDE DEF s2
<1>4. Fine(s2)
  BY <1>1, <1>3 DEF Served
<1>5. CASE NextState(s.pcb, ackno, fin) = "CLOSED"
  <2>1. Aborted(s1, t)
    BY <1>0, <1>1, <1>5, GoneAborted
  <2> QED
    BY <1>1, <2>1 DEF Aborted
\* Text behind the close of the application: the pcb is aborted.
<1>6. CASE /\ NextState(s.pcb, ackno, fin) # "CLOSED"
           /\ text # "none" /\ s2.pcb.rxclosed
  <2>1. t = tcp_abort(s2)
    BY <1>0, <1>6 DEF Event_Recv
  <2>2. Aborted(s2, t)
    BY <1>4, <2>1, AbortAborted
  <2>3. s2.fault = s.fault
    BY <1>1, <1>3 DEF Served
  <2> QED
    BY <1>3, <2>2, <2>3 DEF Aborted
<1>7. CASE /\ NextState(s.pcb, ackno, fin) # "CLOSED"
           /\ ~(text # "none" /\ s2.pcb.rxclosed)
  <2>1. t = IF s4.pcb.state = "CLOSED" THEN Blame(s4, "stale pcb") ELSE s4
    BY <1>0, <1>7
  \* Behind http_recv only the FIN is not taken.
  <2>2. /\ Fine(s3) /\ s3.fault = s.fault
        /\ s3.pcb.state = "CLOSED" => with
        /\ s3.pcb.arg => s3.pcb.unread = IF fin THEN 1 ELSE 0
    <3>1. CASE text = "none"
      <4>1. s3 = s2
        BY <3>1 DEF Event_Recv
      <4> HIDE DEF s3
      <4>2. NotTaken(text, fin) = IF fin THEN 1 ELSE 0
        BY <3>1 DEF NotTaken
      <4> QED
        BY <1>1, <1>3, <1>4, <4>1, <4>2 DEF Served
    <3>2. CASE text # "none"
      <4> DEFINE taken == [s2 EXCEPT !.pcb.unread = @ - 1]
      <4>1. s3 = http_recv(s2, text, fails, mem)
        BY <1>7, <3>2 DEF Event_Recv
      <4>2. s2.pcb.arg = TRUE
        BY <1>3, <1>7, <3>2 DEF Served, Owned
      <4>3. Owned(taken) /\ Served(taken, s3)
        BY <1>4, <3>2, <4>1, <4>2, RecvServed
      <4>4. /\ taken.pcb.state = s2.pcb.state /\ taken.fault = s2.fault
            /\ taken.pcb.unread = s2.pcb.unread - 1
        BY <1>4 DEF Owned, IsWhole, IsPcb, PcbFields
      <4>5. s2.pcb.state = s1.pcb.state /\ s2.pcb.unread = s1.pcb.unread /\ s2.fault = s.fault
        BY <1>1, <1>3, <4>2 DEF Served
      <4> HIDE DEF taken, s3
      <4>6. taken.pcb.unread = IF fin THEN 1 ELSE 0
        BY <1>1, <3>2, <4>4, <4>5 DEF NotTaken
      <4>7. s3.pcb.state = "CLOSED" => with
        BY <3>2, <4>3, <4>6 DEF Served, With
      <4> QED
        BY <1>1, <4>3, <4>4, <4>5, <4>6, <4>7 DEF Served
    <3> QED
      BY <3>1, <3>2
  <2> HIDE DEF s3
  <2>3. CASE ~fin
    <3>1. s4 = s3
      BY <2>3
    <3>2. s4.pcb.state # "CLOSED"
      BY <2>2, <2>3, <3>1 DEF With
    <3> QED
      BY <2>1, <2>2, <3>1, <3>2
  <2>4. CASE fin /\ s3.pcb.state = "CLOSED"
    <3>1. s4 = Blame(s3, "stale pcb")
      BY <2>4 DEF Event_Closed
    <3> HIDE DEF s4
    <3>2. Fine(s4) /\ s4.pcb.state = "CLOSED"
      <4>1. /\ IsWhole(s4) /\ s4.pcb = s3.pcb /\ s4.hs = s3.hs
            /\ s4.fault = s3.fault \/ s4.fault = "stale pcb"
        BY <2>2, <3>1, BlameNotes DEF Owned
      <4> QED
        BY <2>2, <2>4, <4>1 DEF Owned, Known
    <3>3. t = Blame(s4, "stale pcb")
      BY <2>1, <3>2
    <3>4. /\ IsWhole(t) /\ t.pcb = s4.pcb /\ t.hs = s4.hs
          /\ t.fault = s4.fault \/ t.fault = "stale pcb"
      BY <3>2, <3>3, BlameNotes DEF Owned
    <3> QED
      BY <2>2, <2>4, <3>2, <3>4, ZenonT(60) DEF Owned, Known
  <2>5. CASE fin /\ s3.pcb.state # "CLOSED"
    <3> DEFINE u == IF s3.pcb.unread > 0 THEN s3.pcb.unread - 1 ELSE 0
    <3>1. /\ IsWhole(counted) /\ counted.hs = s3.hs /\ counted.fault = s3.fault
          /\ counted.pcb.arg = s3.pcb.arg /\ counted.pcb.cb = s3.pcb.cb
          /\ counted.pcb.state = s3.pcb.state /\ counted.pcb.rxclosed = s3.pcb.rxclosed
          /\ counted.pcb.unread = u
      <4>1. counted = [s3 EXCEPT !.pcb.unread = u]
        OBVIOUS
      <4> HIDE DEF u, counted
      <4> QED
        BY <2>2, <4>1 DEF Owned, IsWhole, IsPcb, PcbFields
    <3>2. s4 = IF s3.pcb.cb = "http" THEN http_recv_null(counted, mem) ELSE counted
      BY <2>5 DEF Event_Closed
    <3>3. s3.pcb.arg => u = 0
      BY <2>2, <2>5
    <3> HIDE DEF u, counted, s4
    <3>4. Owned(counted)
      BY <2>2, <3>1 DEF Owned
    <3>5. CASE s3.pcb.cb = "http"
      <4>1. s3.pcb.arg = TRUE
        BY <2>2, <3>5 DEF Owned
      <4>2. Served(counted, s4)
        BY <3>1, <3>2, <3>4, <3>5, <4>1, RecvNullServed
      <4>3. s4.pcb.state # "CLOSED"
        BY <3>1, <3>3, <4>1, <4>2 DEF Served
      <4>4. t = s4
        BY <2>1, <4>3
      <4> QED
        BY <2>2, <3>1, <4>2, <4>4 DEF Served
    <3>6. CASE s3.pcb.cb # "http"
      <4>1. t = counted
        BY <2>1, <2>5, <3>1, <3>2, <3>6
      <4> QED
        BY <2>2, <3>1, <3>4, <4>1
    <3> QED
      BY <3>5, <3>6
  <2> QED
    BY <2>3, <2>4, <2>5
<1> QED
  BY <1>5, <1>6, <1>7
-----------------------------------------------------------------------------
(***************************************************************************)
(* Steps                                                                   *)
(***************************************************************************)

LEMMA NowIs ==
    ASSUME IsPcb(pcb), IsHs(hs)
    PROVE  /\ IsWhole(Now) /\ Now.pcb = pcb /\ Now.hs = hs /\ Now.fault = fault
  BY DEF IsWhole, Now

\* What OwnerInv says of the state a handler leaves, with the host as it is then.
Fits(s, h) ==
    /\ Owned(s) /\ IsHost(h)
    /\ s.pcb.state = "CLOSE_WAIT" => h.fin # "no"
    /\ s.fault # "none" => h.fin = "with" /\ s.fault \in Known

LEMMA BecomeFits ==
    ASSUME NEW s, NEW h, Fits(s, h), Become(s, h)
    PROVE  OwnerInv'
<1>1. pcb' = s.pcb /\ hs' = s.hs /\ fault' = s.fault
  BY DEF Become
<1>2. IsWhole(Now') /\ Now'.pcb = pcb' /\ Now'.hs = hs' /\ Now'.fault = fault'
  <2>1. IsPcb(pcb') /\ IsHs(hs')
    BY <1>1 DEF Fits, Owned, IsWhole
  <2> QED
    BY <2>1 DEF IsWhole, Now
<1>3. Owned(Now')
  BY <1>1, <1>2 DEF Fits, Owned
<1>4. IsHost(host') /\ host'.fin = h.fin
  BY DEF Become, Fits, IsHost
<1> QED
  BY <1>1, <1>3, <1>4 DEF Fits, OwnerInv

LEMMA FinishFits ==
    ASSUME NEW s, NEW h, Fits(s, h), Finish(s, h)
    PROVE  OwnerInv'
<1>1. PICK n \in Sendable(s.pcb) : Become(tcp_output(s, n), h)
  BY DEF Finish
<1>2. SameOwner(s, tcp_output(s, n))
  BY OutputSame DEF Fits, Owned
<1>3. Fits(tcp_output(s, n), h)
  BY <1>2, SameOwnerOwned DEF Fits, SameOwner, Quiet
<1> QED
  BY <1>1, <1>3, BecomeFits

LEMMA OwnerInit == Init => OwnerInv
<1> SUFFICES ASSUME Init PROVE OwnerInv
  OBVIOUS
<1>1. pcb = NoPcb /\ hs = NoHs /\ host = NoHost /\ fault = "none"
  BY DEF Init
<1>2. IsPcb(pcb) /\ IsHs(hs) /\ IsHost(host)
  BY <1>1, NoPcbIsPcb DEF IsHs, NoHs, IsHost, NoHost
<1>3. /\ pcb.state = "CLOSED" /\ pcb.arg = FALSE /\ pcb.rxclosed = FALSE
      /\ pcb.cb = "none" /\ hs.live = FALSE
  BY <1>1 DEF NoPcb, NoHs
<1> QED
  BY <1>1, <1>2, <1>3, NowIs DEF OwnerInv, Owned

LEMMA AcceptOwner == ASSUME OwnerInv, http_accept PROVE OwnerInv'
<1>1. PICK wnd \in Windows :
         /\ pcb' = [NoPcb EXCEPT !.state = "ESTABLISHED", !.arg = TRUE, !.cb = "http",
                                 !.snd_wnd = wnd]
         /\ hs' = [NoHs EXCEPT !.live = TRUE] /\ host' = NoHost /\ fault' = "none"
  BY DEF http_accept
<1>2. /\ IsPcb(pcb') /\ pcb'.state = "ESTABLISHED" /\ pcb'.arg = TRUE /\ pcb'.cb = "http"
      /\ pcb'.rxclosed = FALSE
  <2>1. NoPcb.rxclosed = FALSE
    BY DEF NoPcb
  <2> QED
    BY <1>1, <2>1, NoPcbIsPcb DEF IsPcb, PcbFields
<1>3. IsHs(hs') /\ hs'.live = TRUE
  BY <1>1 DEF IsHs, NoHs
<1>4. IsHost(host')
  BY <1>1 DEF IsHost, NoHost
<1>5. IsWhole(Now') /\ Now'.pcb = pcb' /\ Now'.hs = hs' /\ Now'.fault = fault'
  BY <1>2, <1>3 DEF IsWhole, Now
<1>6. Owned(Now')
  BY <1>2, <1>3, <1>5 DEF Owned, Active, Sending
<1> QED
  BY <1>1, <1>2, <1>4, <1>6 DEF OwnerInv

\* OwnerInv, of the record a handler starts from.
LEMMA NowFits ==
    ASSUME OwnerInv
    PROVE  /\ Fits(Now, host) /\ IsPcb(pcb) /\ IsHs(hs)
           /\ Now.pcb = pcb /\ Now.hs = hs /\ Now.fault = fault
<1>1. Now.pcb = pcb /\ Now.hs = hs /\ Now.fault = fault
  BY DEF Now
<1> QED
  BY <1>1 DEF OwnerInv, Fits, Owned, IsWhole

LEMMA HostReceivesOwner == ASSUME OwnerInv, HostReceives PROVE OwnerInv'
<1>1. UNCHANGED <<pcb, hs, fault>>
  BY DEF HostReceives
<1>2. PICK seg \in wire :
        host' = [host EXCEPT
                   !.got = @ \o SubSeq(seg.data, HostNext - seg.seqno + 1, Len(seg.data)),
                   !.eof = seg.fin]
  BY DEF HostReceives
<1>3. IsHost(host') /\ host'.fin = host.fin
  <2>1. \A g, e : LET h == [host EXCEPT !.got = g, !.eof = e]
                  IN  IsHost(h) /\ h.fin = host.fin
    BY DEF OwnerInv, IsHost
  <2> QED
    BY <1>2, <2>1
<1>4. IsWhole(Now') /\ Now'.pcb = pcb' /\ Now'.hs = hs' /\ Now'.fault = fault'
  BY <1>1, NowFits DEF IsWhole, Now
<1>5. Owned(Now')
  BY <1>1, <1>4, NowFits DEF Owned, Fits
<1> QED
  BY <1>1, <1>3, <1>5 DEF OwnerInv

LEMMA HostSegmentOwner == ASSUME OwnerInv, HostSegment PROVE OwnerInv'
<1>1. PICK ackno \in pcb.lastack .. HostNext, text \in {"none", "partial", "complete", "bad"},
           fin \in BOOLEAN, third \in BOOLEAN, wnd \in Windows,
           fails \in 0 .. 2, mem \in BOOLEAN :
        /\ MayFail(fails, mem)
        /\ text # "none" => host.text < MaxData /\ host.fin = "no"
        /\ fin => host.fin = "no"
        /\ third => /\ ackno = pcb.lastack /\ text = "none" /\ ~fin
                    /\ wnd = pcb.snd_wnd /\ pcb.unacked # <<>>
                    /\ InWindow(pcb, Head(pcb.unacked))
        /\ Finish(tcp_input(Now, ackno, text, fin, third, wnd, fails, mem),
                  [host EXCEPT !.text = IF text = "none" THEN @ ELSE @ + 1,
                               !.fin = IF ~fin THEN @
                                       ELSE IF text = "none" /\ ackno = pcb.lastack
                                       THEN "alone" ELSE "with"])
  BY Zenon DEF HostSegment
<1> DEFINE t == tcp_input(Now, ackno, text, fin, third, wnd, fails, mem)
           n == IF text = "none" THEN host.text ELSE host.text + 1
           f == IF ~fin THEN host.fin
                ELSE IF text = "none" /\ ackno = pcb.lastack THEN "alone" ELSE "with"
           h == [host EXCEPT !.text = n, !.fin = f]
<1>2. Finish(t, h)
  BY <1>1
<1>3. IsHost(h) /\ h.fin = f
  <2>1. \A m, g : LET e == [host EXCEPT !.text = m, !.fin = g] IN IsHost(e) /\ e.fin = g
    BY DEF OwnerInv, IsHost
  <2> QED
    BY <2>1
<1>4. ackno \in Int
  OBVIOUS
<1>5. pcb.state \in Active
  BY DEF HostSegment
<1>6. text # "none" \/ fin => pcb.state # "CLOSE_WAIT"
  BY <1>1 DEF OwnerInv
<1>7. /\ Owned(t)
      /\ t.fault = fault \/ (t.fault \in Known /\ With(pcb, ackno, text, fin))
      /\ t.pcb.state = "CLOSE_WAIT" => pcb.state = "CLOSE_WAIT" \/ fin
  BY <1>4, <1>5, <1>6, NowFits, InputOwned DEF Fits
<1> HIDE DEF t, h
<1>8. t.pcb.state = "CLOSE_WAIT" => f # "no"
  BY <1>7 DEF OwnerInv
<1>9. t.fault # "none" => f = "with" /\ t.fault \in Known
  <2>1. SUFFICES ASSUME t.fault # "none" PROVE f = "with" /\ t.fault \in Known
    OBVIOUS
  <2>2. CASE t.fault = fault
    <3>1. host.fin = "with" /\ t.fault \in Known
      BY <2>1, <2>2 DEF OwnerInv
    <3>2. ~fin
      BY <1>1, <3>1
    <3> QED
      BY <3>1, <3>2
  <2>3. CASE t.fault \in Known /\ With(pcb, ackno, text, fin)
    BY <2>3 DEF With
  <2> QED
    BY <1>7, <2>2, <2>3
<1>10. Fits(t, h)
  BY <1>3, <1>7, <1>8, <1>9 DEF Fits
<1> QED
  BY <1>2, <1>10, FinishFits

LEMMA ResetOwner == ASSUME OwnerInv, Reset PROVE OwnerInv'
<1>1. pcb.state # "CLOSED" /\ Become(tcp_abort(Now), host)
  BY DEF Reset
<1>2. Aborted(Now, tcp_abort(Now))
  BY NowFits, AbortAborted DEF Fits
<1>3. Fits(tcp_abort(Now), host)
  BY <1>1, <1>2, NowFits DEF Fits, Aborted
<1> QED
  BY <1>1, <1>3, BecomeFits

\* A tick counts the age and leaves the owner alone.
LEMMA AgedSame ==
    ASSUME OwnerInv
    PROVE  LET s == [Now EXCEPT !.pcb = Aged(@)]
           IN  SameOwner(Now, s) /\ Owned(s) /\ Fits(s, host) /\ s.pcb.state = pcb.state
<1> DEFINE s == [Now EXCEPT !.pcb = Aged(@)]
<1>1. \A a : Quiet(pcb, [pcb EXCEPT !.age = a])
  BY NowFits DEF IsPcb, Quiet, PcbFields
<1>2. Quiet(pcb, Aged(pcb))
  BY <1>1 DEF Aged
<1>3. IsWhole(Now)
  BY NowFits DEF Fits, Owned
<1>4. SameOwner(Now, s)
  BY <1>2, <1>3, NowFits, QuietSame
<1> HIDE DEF s
<1>5. Owned(s) /\ Fits(s, host) /\ s.pcb.state = pcb.state
  BY <1>4, NowFits, SameOwnerOwned DEF Fits, SameOwner, Quiet
<1> QED
  BY <1>4, <1>5 DEF s

LEMMA TimeWaitOwner == ASSUME OwnerInv, TimeWaitTick PROVE OwnerInv'
<1> DEFINE s == [Now EXCEPT !.pcb = Aged(@)]
<1>1. Owned(s) /\ Fits(s, host) /\ s.pcb.state = "TIME_WAIT"
  BY AgedSame DEF TimeWaitTick
<1>2. Become(FreePcb(s), host) \/ Become(s, host)
  BY DEF TimeWaitTick
<1> HIDE DEF s
<1>3. Aborted(s, FreePcb(s))
  BY <1>1, FreeAborted
<1>4. Fits(FreePcb(s), host)
  BY <1>1, <1>3 DEF Fits, Aborted
<1> QED
  BY <1>1, <1>2, <1>4, BecomeFits

\* The poll of a pcb in use: httpd is called or not.
LEMMA EventPollServed ==
    ASSUME NEW s, Owned(s), s.pcb.state \in Active, NEW fails, NEW mem
    PROVE  Served(s, Event_Poll(s, fails, mem))
<1> DEFINE due == s.pcb.cb = "none" \/ s.pcb.polltmr + 1 >= HTTPD_POLL_INTERVAL
           p == IF due THEN 0 ELSE s.pcb.polltmr + 1
           s1 == [s EXCEPT !.pcb.polltmr = p]
<1>1. Event_Poll(s, fails, mem) \in {s1, http_poll(s1, fails, mem)}
  BY DEF Event_Poll
<1> HIDE DEF p
<1>2. SameOwner(s, s1)
  BY DEF Owned, IsWhole, IsPcb, PcbFields, SameOwner, Quiet
<1> HIDE DEF s1
<1>3. Owned(s1) /\ s1.pcb.state \in Active /\ s.pcb.state # "CLOSED"
  BY <1>2, SameOwnerOwned DEF SameOwner, Quiet, Active, Sending, Closing
<1>4. Served(s, s1) /\ Served(s, http_poll(s1, fails, mem))
  BY <1>2, <1>3, SameOwnerServed, PollServed, ServedAfter
<1> QED
  BY <1>1, <1>4

LEMMA SlowtmrOwner ==
    ASSUME OwnerInv, NEW repeat \in BOOLEAN, tcp_slowtmr(repeat)
    PROVE  OwnerInv'
<1> DEFINE s == [Now EXCEPT !.pcb = Aged(@)]
           s1(p) == [Probed(s, p) EXCEPT !.pcb = IF repeat THEN tcp_rexmit_rto(@) ELSE @]
<1>1. Owned(s) /\ Fits(s, host) /\ s.pcb.state \in Active
  BY AgedSame DEF tcp_slowtmr
<1>2. \/ Become(Gone(s), host)
      \/ \E fails \in 0 .. 2, mem \in BOOLEAN, p \in BOOLEAN :
         \E n \in {0} \cup Sendable(s1(p).pcb) :
            LET s2 == Event_Poll(tcp_output(s1(p), n), fails, mem)
            IN  Finish(s2, host) \/ Become(s2, host)
  <2>1. CASE pcb.nrtx = TCP_MAXRTX \/ TooOld(s.pcb)
    BY <2>1 DEF tcp_slowtmr
  <2>2. CASE ~(pcb.nrtx = TCP_MAXRTX \/ TooOld(s.pcb))
    <3>1. \E fails \in 0 .. 2, mem \in BOOLEAN, probe \in BOOLEAN :
            LET r == s1(probe)
            IN  /\ MayFail(fails, mem)
                /\ repeat => pcb.unacked # <<>> /\ pcb.snd_wnd # 0
                /\ probe => pcb.snd_wnd = 0
                /\ \E n \in IF repeat THEN Sendable(r.pcb) ELSE {0} :
                      LET s2 == Event_Poll(tcp_output(r, n), fails, mem)
                      IN  IF Polled(s2.pcb) THEN Finish(s2, host)
                          ELSE s2.errs <= MaxMemErrs /\ Become(s2, host)
      BY <2>2, Zenon DEF tcp_slowtmr
    <3> HIDE DEF s1
    <3> QED
      BY <3>1
  <2> QED
    BY <2>1, <2>2
<1>3. ASSUME NEW p \in BOOLEAN PROVE SameOwner(s, s1(p))
  <2> DEFINE o == Probed(s, p)
  <2>1. SameOwner(s, o)
    <3>1. Quiet(s.pcb, s.pcb) /\ SameOwner(s, s)
      BY <1>1 DEF Owned, IsWhole, Quiet, SameOwner
    <3> HIDE DEF s
    <3> QED
      BY <3>1, WireSame DEF Probed
  <2> HIDE DEF s, o
  <2>2. Owned(o) /\ Quiet(o.pcb, o.pcb) /\ Quiet(o.pcb, tcp_rexmit_rto(o.pcb)) /\ IsWhole(o)
    BY <1>1, <2>1, SameOwnerOwned, RexmitQuiet DEF Owned, IsWhole, Quiet
  <2>3. SameOwner(o, [o EXCEPT !.pcb = IF repeat THEN tcp_rexmit_rto(@) ELSE @])
    BY <2>2, QuietSame
  <2>4. SameOwner(s, [o EXCEPT !.pcb = IF repeat THEN tcp_rexmit_rto(@) ELSE @])
    BY <2>1, <2>3 DEF SameOwner, Quiet
  <2> QED
    BY <2>4 DEF o
<1> HIDE DEF s, s1
<1>4. CASE Become(Gone(s), host)
  <2>1. Aborted(s, Gone(s))
    BY <1>1, GoneAborted
  <2>2. s.pcb.state # "CLOSED"
    BY <1>1 DEF Active, Sending, Closing
  <2>3. Fits(Gone(s), host)
    BY <1>1, <2>1, <2>2 DEF Fits, Aborted
  <2> QED
    BY <1>4, <2>3, BecomeFits
<1>5. ASSUME NEW fails, NEW mem, NEW n, NEW p \in BOOLEAN
      PROVE  Fits(Event_Poll(tcp_output(s1(p), n), fails, mem), host)
  <2> DEFINE t == tcp_output(s1(p), n)
             u == Event_Poll(t, fails, mem)
  <2>1. Owned(s1(p))
    BY <1>1, <1>3, SameOwnerOwned
  <2>2. SameOwner(s1(p), t) /\ Owned(t)
    BY <2>1, OutputSame, SameOwnerOwned DEF Owned
  <2> HIDE DEF t
  <2>3. t.pcb.state = s.pcb.state /\ t.fault = s.fault
    BY <1>3, <2>2 DEF SameOwner, Quiet
  <2>4. Served(t, u)
    BY <1>1, <2>2, <2>3, EventPollServed
  <2> HIDE DEF u
  <2>5. Fits(u, host)
    BY <1>1, <2>3, <2>4 DEF Fits, Served
  <2> QED
    BY <2>5 DEF t, u
<1>6. CASE \E fails \in 0 .. 2, mem \in BOOLEAN, p \in BOOLEAN :
           \E n \in {0} \cup Sendable(s1(p).pcb) :
              LET s2 == Event_Poll(tcp_output(s1(p), n), fails, mem)
              IN  Finish(s2, host) \/ Become(s2, host)
  BY <1>5, <1>6, BecomeFits, FinishFits
<1> QED
  BY <1>2, <1>4, <1>6

\* tcp_timewait_input: only the timer.
LEMMA TimeWaitInputOwner == ASSUME OwnerInv, tcp_timewait_input PROVE OwnerInv'
<1> DEFINE d == [pcb EXCEPT !.age = 0]
<1>1. /\ pcb' = d /\ hs' = hs /\ host' = host /\ fault' = fault /\ wire' = wire
  BY DEF tcp_timewait_input
<1>2. IsPcb(pcb) /\ IsHs(hs) /\ Fits(Now, host) /\ Now.pcb = pcb
  BY NowFits
<1>3. Quiet(pcb, d)
  BY <1>2 DEF IsPcb, Quiet, PcbFields
<1> HIDE DEF d
<1>4. Now' = [Now EXCEPT !.pcb = d]
  BY <1>1 DEF Now
<1>5. SameOwner(Now, [Now EXCEPT !.pcb = d])
  BY <1>2, <1>3, QuietSame DEF Fits, Owned
<1>6. Owned(Now')
  BY <1>2, <1>4, <1>5, SameOwnerOwned DEF Fits
<1>7. pcb'.state = pcb.state
  BY <1>1, <1>3 DEF Quiet
<1> QED
  BY <1>1, <1>6, <1>7 DEF OwnerInv

LEMMA OwnerNext == OwnerInv /\ [Next]_vars => OwnerInv'
<1> SUFFICES ASSUME OwnerInv, [Next]_vars PROVE OwnerInv'
  OBVIOUS
<1>1. CASE http_accept
  BY <1>1, AcceptOwner
<1>2. CASE HostReceives
  BY <1>2, HostReceivesOwner
<1>3. CASE HostSegment
  BY <1>3, HostSegmentOwner
<1>4. CASE Reset
  BY <1>4, ResetOwner
<1>5. CASE Tick
  BY <1>5, SlowtmrOwner, TimeWaitOwner DEF Tick
<1>6. CASE UNCHANGED vars
  <2>1. Now' = Now
    BY <1>6 DEF vars, Now
  <2>2. pcb' = pcb /\ host' = host /\ fault' = fault
    BY <1>6 DEF vars
  <2> QED
    BY <2>1, <2>2 DEF OwnerInv
<1>7. CASE tcp_timewait_input
  BY <1>7, TimeWaitInputOwner
<1> QED
  BY <1>1, <1>2, <1>3, <1>4, <1>5, <1>6, <1>7 DEF Next

(***************************************************************************)
(* The http_state is freed once and not used after, and so is the pcb,     *)
(* unless the host's FIN came with text or a new ACK: whatever the length  *)
(* of the page, however often an allocation fails, a segment is repeated   *)
(* or the connection is reset, and in every order of the callbacks         *)
(* (http_close_conn, http_err, http_poll; tcp_close, tcp_abort,            *)
(* tcp_slowtmr and tcp_input).                                             *)
(***************************************************************************)
THEOREM HttpdFreedOnce == Spec => []FreedOnce
<1>1. OwnerInv => FreedOnce
  <2> SUFFICES ASSUME OwnerInv PROVE FreedOnce
    OBVIOUS
  <2> QED
    BY NowFits DEF Fits, Owned, OwnerInv, FreedOnce, Known
<1> QED
  BY <1>1, OwnerInit, OwnerNext, PTL DEF Spec

(***************************************************************************)
(* The stream.  What is not acknowledged is on two queues; the steps of    *)
(* tcp_out.c move segments from one to the other and leave unacked \o      *)
(* unsent as it is, so the invariant speaks of that sequence only.         *)
(***************************************************************************)
Queue(c) == c.unacked \o c.unsent

\* A segment holds the part of the page that its sequence number says.
Right(seg) ==
    /\ seg \in Segment
    /\ \A k \in 1 .. Len(seg.data) : seg.data[k] = seg.seqno + k - 1
    /\ seg.seqno + Len(seg.data) <= PageLen

\* A FIN is behind the whole page, unless httpd closed for another reason.
Behind(seg, other) == seg.fin /\ ~other => seg.seqno + Len(seg.data) = PageLen

\* The segments of a queue follow one upon the other; only the last may have a FIN.
Linked(q) ==
    /\ q \in Seq(Segment)
    /\ \A i \in 1 .. Len(q) : /\ Right(q[i]) /\ Len(q[i].data) <= TCP_MSS
                              /\ q[i].seqno < End(q[i])
                              /\ q[i].fin => i = Len(q)
    /\ \A i, j \in 1 .. Len(q) : i < j => End(q[i]) <= q[j].seqno
    /\ \A i \in 1 .. Len(q) - 1 : End(q[i]) = q[i + 1].seqno

\* The sequence number behind the queue.
Top(q, lastack) == IF q = <<>> THEN lastack ELSE End(q[Len(q)])

\* The queue of a connection, of which the host has everything before hn.
Stream(c, q, other, hn) ==
    /\ Linked(q)
    /\ \A i \in 1 .. Len(q) : q[i].fin => c.state \in Closing /\ Behind(q[i], other)
    /\ q # <<>> => q[1].seqno <= c.lastack /\ c.lastack < End(q[1])
    /\ c.lastack <= hn /\ c.lastack <= c.snd_nxt /\ c.snd_nxt <= Top(q, c.lastack)
    /\ c.snd_lbb <= Top(q, c.lastack)
    /\ c.state \in Sending => /\ c.snd_lbb = Top(q, c.lastack) /\ c.snd_lbb <= PageLen
                              /\ c.snd_lbb - c.lastack <= TCP_SND_BUF

Fields(c) ==
    /\ c.lastack \in 0 .. PageLen + 1 /\ c.snd_nxt \in 0 .. PageLen + 1
    /\ c.snd_lbb \in 0 .. PageLen + 1
    /\ c.unsent \in Seq(Segment) /\ c.unacked \in Seq(Segment)
    /\ c.nrtx \in 0 .. U8 - 1 /\ c.infr \in BOOLEAN /\ c.snd_wnd \in SndWnd
    /\ c.unread \in 0 .. 2
    /\ c.cb \in {"http", "poll", "none"}
    /\ c.polltmr \in 0 .. HTTPD_POLL_INTERVAL /\ c.age \in 0 .. Timeout

\* Where httpd is in the page: at the end of what it has written.
Place(s) ==
    /\ s.hs.handle \in BOOLEAN /\ s.hs.file \in 0 .. PageLen
    /\ s.hs.retries \in 0 .. HTTPD_MAX_RETRIES - 1
    /\ s.pcb.arg => s.hs.file = s.pcb.snd_lbb /\ (~s.hs.handle => s.hs.file = 0)
    /\ s.pcb.state \in Sending /\ ~s.pcb.arg /\ ~s.other => s.pcb.snd_lbb = PageLen

\* What was sent and may still reach the host.
Sent(s) ==
    \A seg \in s.wire : Right(seg) /\ Behind(seg, s.other)

Good(s, hn) ==
    /\ Fields(s.pcb) /\ Place(s) /\ Sent(s)
    /\ s.other \in BOOLEAN /\ s.errs \in Nat
    /\ s.pcb.state \in Active => Stream(s.pcb, Queue(s.pcb), s.other, hn)
    /\ s.pcb.state \notin Active => s.pcb.unsent = <<>> /\ s.pcb.unacked = <<>>

\* What the host has of the page.
Have(h) ==
    /\ h.got \in Seq(0 .. PageLen - 1) /\ Len(h.got) <= PageLen
    /\ \A i \in 1 .. Len(h.got) : h.got[i] = i - 1
    /\ h.eof \in BOOLEAN /\ (h.eof /\ ~h.other => Len(h.got) = PageLen)
    /\ h.text \in 0 .. MaxData /\ h.fin \in {"no", "alone", "with"}
    /\ h.errs \in 0 .. MaxMemErrs

StreamInv == OwnerInv /\ Good(Now, HostNext) /\ Have(host) /\ ticks \in 0 .. 1
-----------------------------------------------------------------------------
(***************************************************************************)
(* The queues                                                              *)
(***************************************************************************)

\* A set of natural numbers has a least element.
LEMMA Least ==
    ASSUME NEW S \in SUBSET Nat, NEW x \in S
    PROVE  \E m \in S : \A k \in Nat : k < m => k \notin S
<1>1. PICK m \in S : \A y \in S : ~(<<y, m>> \in OpToRel(<, Nat))
  BY NatLessThanWellFounded, WFMin
<1>2. \A k \in Nat : k < m => k \notin S
  BY <1>1 DEF OpToRel
<1> QED
  BY <1>2

\* Two queues, one behind the other.
LEMMA Cat ==
    ASSUME NEW s \in Seq(Segment), NEW t \in Seq(Segment)
    PROVE  /\ s \o t \in Seq(Segment) /\ Len(s \o t) = Len(s) + Len(t)
           /\ \A i \in 1 .. Len(s) : (s \o t)[i] = s[i]
           /\ \A i \in 1 .. Len(t) : (s \o t)[Len(s) + i] = t[i]
           /\ \A i \in 1 .. Len(s) + Len(t) :
                (s \o t)[i] = IF i <= Len(s) THEN s[i] ELSE t[i - Len(s)]
<1>1. \A i \in 1 .. Len(s) + Len(t) :
        (s \o t)[i] = IF i <= Len(s) THEN s[i] ELSE t[i - Len(s)]
  BY ConcatProperties, Zenon
<1>2. s \o t \in Seq(Segment) /\ Len(s \o t) = Len(s) + Len(t)
  BY ConcatProperties, Zenon
<1> QED
  BY <1>1, <1>2

LEMMA CatCat ==
    ASSUME NEW s \in Seq(Segment), NEW t \in Seq(Segment), NEW u \in Seq(Segment)
    PROVE  (s \o t) \o u = s \o (t \o u)
  BY ConcatAssociative

\* A segment behind all the others is put at the end, one before all at the front.
LEMMA InsertLast ==
    ASSUME NEW q \in Seq(Segment), NEW seg \in Segment,
           \A i \in 1 .. Len(q) : q[i].seqno < seg.seqno
    PROVE  Insert(q, seg) = Append(q, seg)
<1> DEFINE P(n) == /\ \A i \in 1 .. n : q[i].seqno < seg.seqno
                   /\ n < Len(q) => q[n + 1].seqno >= seg.seqno
           m == CHOOSE n \in 0 .. Len(q) : P(n)
<1>1. P(Len(q)) /\ Len(q) \in 0 .. Len(q)
  OBVIOUS
<1>2. m \in 0 .. Len(q) /\ P(m)
  BY <1>1
<1>3. m = Len(q)
  BY <1>2
<1>4. Insert(q, seg) = SubSeq(q, 1, m) \o <<seg>> \o SubSeq(q, m + 1, Len(q))
  BY DEF Insert
<1> HIDE DEF m
<1>5. SubSeq(q, 1, Len(q)) = q /\ SubSeq(q, Len(q) + 1, Len(q)) = <<>>
  BY SubSeqFull, SubSeqEmpty
<1>6. Append(q, seg) = q \o <<seg>> /\ Append(q, seg) \in Seq(Segment)
  BY AppendIsConcat, AppendProperties
<1>7. (q \o <<seg>>) \o <<>> = q \o <<seg>>
  BY <1>6, ConcatEmptySeq
<1> QED
  BY <1>3, <1>4, <1>5, <1>6, <1>7

LEMMA InsertFirst ==
    ASSUME NEW q \in Seq(Segment), NEW seg \in Segment,
           \A i \in 1 .. Len(q) : seg.seqno <= q[i].seqno
    PROVE  Insert(q, seg) = <<seg>> \o q
<1> DEFINE P(n) == /\ \A i \in 1 .. n : q[i].seqno < seg.seqno
                   /\ n < Len(q) => q[n + 1].seqno >= seg.seqno
           m == CHOOSE n \in 0 .. Len(q) : P(n)
<1>0. seg.seqno \in Int /\ \A i \in 1 .. Len(q) : q[i].seqno \in Int
  <2>1. \A i \in 1 .. Len(q) : q[i] \in Segment
    OBVIOUS
  <2> QED
    BY <2>1 DEF Segment
<1>1. P(0) /\ 0 \in 0 .. Len(q)
  BY <1>0
<1>2. m \in 0 .. Len(q) /\ P(m)
  BY <1>1
<1>3. m = 0
  BY <1>0, <1>2
<1>4. Insert(q, seg) = SubSeq(q, 1, m) \o <<seg>> \o SubSeq(q, m + 1, Len(q))
  BY DEF Insert
<1> HIDE DEF m
<1>5. SubSeq(q, 1, Len(q)) = q /\ SubSeq(q, 1, 0) = <<>>
  BY SubSeqFull, SubSeqEmpty
<1>7. <<>> \o <<seg>> = <<seg>>
  OBVIOUS
<1> QED
  BY <1>3, <1>4, <1>5, <1>7

\* InsertAll, by a function that says what is on the queue after k segments.
LEMMA InsertAllIs ==
    ASSUME NEW queue, NEW segs \in Seq(Segment), NEW f, f[0] = queue,
           \A k \in 1 .. Len(segs) : f[k] = Insert(f[k - 1], segs[k])
    PROVE  InsertAll(queue, segs) = f[Len(segs)]
<1> DEFINE n == Len(segs)
           Put(p) == p = [k \in 0 .. n |-> IF k = 0 THEN queue ELSE Insert(p[k - 1], segs[k])]
           put == CHOOSE p : Put(p)
           g == [k \in 0 .. n |-> f[k]]
<1>1. n \in Nat
  OBVIOUS
<1>2. InsertAll(queue, segs) = put[n]
  BY DEF InsertAll
<1> HIDE DEF n
<1>3. Put(g)
  <2>1. ASSUME NEW k \in 0 .. n, k # 0
        PROVE  g[k] = Insert(g[k - 1], segs[k])
    BY <1>1, <2>1 DEF n
  <2>2. ASSUME NEW k \in 0 .. n
        PROVE  g[k] = IF k = 0 THEN queue ELSE Insert(g[k - 1], segs[k])
    BY <1>1, <2>1, <2>2
  <2> HIDE DEF g
  <2>3. g = [k \in 0 .. n |-> g[k]]
    BY DEF g
  <2> QED
    BY <2>2, <2>3
<1>4. Put(put)
  BY <1>3
<1> HIDE DEF put, g
<1>5. ASSUME NEW k \in 0 .. n, put[k] # g[k]
      PROVE  FALSE
  <2> DEFINE S == {i \in 0 .. n : put[i] # g[i]}
  <2>1. PICK m \in S : \A i \in Nat : i < m => i \notin S
    <3>1. S \in SUBSET Nat /\ k \in S
      BY <1>1, <1>5
    <3> HIDE DEF S
    <3> QED
      BY <3>1, Least
  <2>2. m # 0
    <3>1. put[0] = queue /\ g[0] = queue
      BY <1>1, <1>3, <1>4
    <3> QED
      BY <2>1, <3>1
  <2>3. m \in 1 .. n /\ m - 1 \in 0 .. n /\ m - 1 < m /\ m - 1 \in Nat
    BY <1>1, <2>1, <2>2
  <2>4. put[m - 1] = g[m - 1]
    BY <2>1, <2>3
  <2>5. put[m] = Insert(put[m - 1], segs[m]) /\ g[m] = Insert(g[m - 1], segs[m])
    BY <1>3, <1>4, <2>2, <2>3
  <2> QED
    BY <2>1, <2>4, <2>5
<1>6. put[n] = g[n]
  BY <1>1, <1>5
<1> QED
  BY <1>1, <1>2, <1>6 DEF g, n

LEMMA InsertAllLast ==
    ASSUME NEW queue \in Seq(Segment), NEW segs \in Seq(Segment),
           \A i \in 1 .. Len(queue), j \in 1 .. Len(segs) : queue[i].seqno < segs[j].seqno,
           \A i, j \in 1 .. Len(segs) : i < j => segs[i].seqno < segs[j].seqno
    PROVE  InsertAll(queue, segs) = queue \o segs
<1> DEFINE f == [k \in 0 .. Len(segs) |-> queue \o SubSeq(segs, 1, k)]
<1>1. f[0] = queue /\ f[Len(segs)] = queue \o segs
  <2>1. SubSeq(segs, 1, 0) = <<>> /\ SubSeq(segs, 1, Len(segs)) = segs
    BY SubSeqFull, SubSeqEmpty
  <2>2. queue \o <<>> = queue
    BY ConcatEmptySeq
  <2> QED
    BY <2>1, <2>2
<1>2. ASSUME NEW k \in 1 .. Len(segs)
      PROVE  f[k] = Insert(f[k - 1], segs[k])
  <2> DEFINE p == SubSeq(segs, 1, k - 1)
  <2>1. /\ p \in Seq(Segment) /\ Len(p) = k - 1
        /\ \A i \in 1 .. k - 1 : p[i] = segs[i]
    BY SubSeqProperties
  <2>2. SubSeq(segs, 1, k) = p \o <<segs[k]>>
    BY SubSeqRecursiveSecond
  <2>3. segs[k] \in Segment /\ <<segs[k]>> \in Seq(Segment)
    BY ElementOfSeq
  <2> HIDE DEF p
  <2>4. f[k - 1] = queue \o p /\ f[k] = queue \o (p \o <<segs[k]>>)
    BY <2>2, SMTT(40) DEF p
  <2> DEFINE q == queue \o p
  <2>5. /\ q \in Seq(Segment) /\ Len(q) = Len(queue) + k - 1
        /\ \A i \in 1 .. Len(q) : q[i] = IF i <= Len(queue) THEN queue[i]
                                         ELSE p[i - Len(queue)]
    BY <2>1, Cat
  <2>6. ASSUME NEW i \in 1 .. Len(q)
        PROVE  q[i].seqno < segs[k].seqno
    <3>1. CASE i <= Len(queue)
      BY <2>5, <3>1
    <3>2. CASE i > Len(queue)
      <4>1. i - Len(queue) \in 1 .. k - 1
        BY <2>5, <3>2
      <4> QED
        BY <2>1, <2>5, <3>2, <4>1, SMTT(40)
    <3> QED
      BY <2>5, <3>1, <3>2
  <2>7. (queue \o p) \o <<segs[k]>> = queue \o (p \o <<segs[k]>>)
    BY <2>1, <2>3, CatCat, Zenon
  <2>8. Insert(q, segs[k]) = Append(q, segs[k])
    <3> HIDE DEF q
    <3> QED
      BY <2>3, <2>5, <2>6, InsertLast
  <2>9. Append(q, segs[k]) = q \o <<segs[k]>>
    BY <2>3, <2>5, AppendIsConcat
  <2> QED
    BY <2>4, <2>7, <2>8, <2>9
<1> HIDE DEF f
<1> QED
  BY <1>1, <1>2, InsertAllIs

\* The segment that tcp_rexmit_fast took from the front goes back there.
LEMMA InsertAllBack ==
    ASSUME NEW h \in Segment, NEW t \in Seq(Segment), NEW r \in Seq(Segment),
           \A i \in 1 .. Len(t) : h.seqno < t[i].seqno,
           \A i \in 1 .. Len(r) : h.seqno < r[i].seqno,
           \A i \in 1 .. Len(t), j \in 1 .. Len(r) : t[i].seqno < r[j].seqno,
           \A i, j \in 1 .. Len(r) : i < j => r[i].seqno < r[j].seqno
    PROVE  InsertAll(t, <<h>> \o r) = (<<h>> \o t) \o r
<1> DEFINE segs == <<h>> \o r
           b == <<h>> \o t
           f == [k \in 0 .. Len(segs) |-> IF k = 0 THEN t ELSE b \o SubSeq(r, 1, k - 1)]
<1>0. <<h>> \in Seq(Segment) /\ Len(<<h>>) = 1 /\ <<h>>[1] = h
  OBVIOUS
<1>1. /\ segs \in Seq(Segment) /\ Len(segs) = 1 + Len(r) /\ segs[1] = h
      /\ \A i \in 1 .. Len(r) : segs[1 + i] = r[i]
  <2>1. \A i \in 1 .. Len(<<h>>) + Len(r) :
          segs[i] = IF i <= Len(<<h>>) THEN <<h>>[i] ELSE r[i - Len(<<h>>)]
    BY <1>0, ConcatProperties
  <2>2. segs \in Seq(Segment) /\ Len(segs) = 1 + Len(r)
    BY <1>0, ConcatProperties
  <2> HIDE DEF segs
  <2> QED
    BY <1>0, <2>1, <2>2
<1>2. /\ b \in Seq(Segment) /\ Len(b) = 1 + Len(t)
      /\ \A i \in 1 .. Len(b) : b[i] = IF i = 1 THEN h ELSE t[i - 1]
  <2>1. \A i \in 1 .. Len(<<h>>) + Len(t) :
          b[i] = IF i <= Len(<<h>>) THEN <<h>>[i] ELSE t[i - Len(<<h>>)]
    BY <1>0, ConcatProperties
  <2>2. b \in Seq(Segment) /\ Len(b) = 1 + Len(t)
    BY <1>0, ConcatProperties
  <2> HIDE DEF b
  <2> QED
    BY <1>0, <2>1, <2>2
<1> HIDE DEF segs, b
<1>3. f[0] = t /\ f[Len(segs)] = b \o r
  <2>1. SubSeq(r, 1, Len(r)) = r
    BY SubSeqFull
  <2> QED
    BY <1>1, <2>1
<1>4. ASSUME NEW k \in 1 .. Len(segs)
      PROVE  f[k] = Insert(f[k - 1], segs[k])
  <2>1. CASE k = 1
    <3>1. f[1] = b \o SubSeq(r, 1, 0) /\ f[0] = t
      BY <1>1
    <3>2. SubSeq(r, 1, 0) = <<>>
      BY SubSeqEmpty
    <3>3. b \o <<>> = b
      BY <1>2, ConcatEmptySeq
    <3>4. \A i \in 1 .. Len(t) : h.seqno <= t[i].seqno
      <4>1. h.seqno \in Int /\ \A i \in 1 .. Len(t) : t[i].seqno \in Int
        <5>1. \A i \in 1 .. Len(t) : t[i] \in Segment
          OBVIOUS
        <5> QED
          BY <5>1 DEF Segment
      <4> QED
        BY <4>1
    <3>5. Insert(t, h) = b
      BY <3>4, InsertFirst DEF b
    <3>6. f[k] = b /\ f[k - 1] = t /\ segs[k] = h
      <4> HIDE DEF f
      <4>1. k - 1 = 0
        BY <2>1
      <4> QED
        BY <1>1, <2>1, <3>1, <3>2, <3>3, <4>1
    <3> HIDE DEF f
    <3> QED
      BY <3>5, <3>6
  <2>2. CASE k # 1
    <3> DEFINE j == k - 1
               p == SubSeq(r, 1, j - 1)
    <3>0. j \in 1 .. Len(r) /\ k = j + 1
      BY <1>1, <2>2
    <3> HIDE DEF j
    <3>1. /\ p \in Seq(Segment) /\ Len(p) = j - 1
          /\ \A i \in 1 .. j - 1 : p[i] = r[i]
      BY <3>0, SubSeqProperties
    <3>2. SubSeq(r, 1, j) = p \o <<r[j]>>
      BY <3>0, SubSeqRecursiveSecond
    <3>3. r[j] \in Segment /\ <<r[j]>> \in Seq(Segment) /\ segs[k] = r[j]
      BY <1>1, <3>0, ElementOfSeq
    <3> HIDE DEF p
    <3>4. f[k - 1] = b \o p /\ f[k] = b \o (p \o <<r[j]>>)
      <4>1. k \in 0 .. Len(segs) /\ k - 1 \in 0 .. Len(segs) /\ k # 0 /\ k - 1 # 0
            /\ k - 1 = j /\ k - 1 - 1 = j - 1
        BY <1>1, <3>0
      <4>2. f[k - 1] = b \o SubSeq(r, 1, k - 1 - 1) /\ f[k] = b \o SubSeq(r, 1, k - 1)
        BY <4>1
      <4> HIDE DEF f
      <4> QED
        BY <3>2, <4>1, <4>2, Zenon DEF p
    <3> DEFINE q == b \o p
    <3>5. /\ q \in Seq(Segment) /\ Len(q) = Len(b) + j - 1
          /\ \A i \in 1 .. Len(q) : q[i] = IF i <= Len(b) THEN b[i] ELSE p[i - Len(b)]
      <4>1. Len(b \o p) = Len(b) + Len(p) /\ b \o p \in Seq(Segment)
        BY <1>2, <3>1, Cat, Zenon
      <4>2. \A i \in 1 .. Len(b) + Len(p) :
              (b \o p)[i] = IF i <= Len(b) THEN b[i] ELSE p[i - Len(b)]
        BY <1>2, <3>1, Cat, Zenon
      <4> HIDE DEF q
      <4>3. q = b \o p
        BY DEF q
      <4> QED
        BY <3>0, <3>1, <1>2, <4>1, <4>2, <4>3
    <3> HIDE DEF q
    <3>6. ASSUME NEW i \in 1 .. Len(q)
          PROVE  q[i].seqno < r[j].seqno
      <4>1. CASE i = 1
        BY <1>2, <3>0, <3>5, <4>1
      <4>2. CASE i # 1 /\ i <= Len(b)
        <5>1. i - 1 \in 1 .. Len(t) /\ q[i] = t[i - 1]
          BY <1>2, <3>5, <4>2
        <5> QED
          BY <3>0, <5>1
      <4>3. CASE i > Len(b)
        <5>1. i - Len(b) \in 1 .. j - 1
          BY <1>2, <3>0, <3>5, <4>3
        <5>2. q[i] = r[i - Len(b)]
          BY <1>2, <3>1, <3>5, <4>3, <5>1
        <5>3. i - Len(b) \in 1 .. Len(r) /\ i - Len(b) < j
          BY <3>0, <5>1
        <5> QED
          BY <3>0, <5>2, <5>3
      <4> QED
        BY <1>2, <3>0, <3>5, <4>1, <4>2, <4>3
    <3>7. (b \o p) \o <<r[j]>> = b \o (p \o <<r[j]>>)
      <4> DEFINE z == <<r[j]>>
      <4>1. b \in Seq(Segment) /\ p \in Seq(Segment) /\ z \in Seq(Segment)
        BY <1>2, <3>1, <3>3
      <4> HIDE DEF z
      <4>2. (b \o p) \o z = b \o (p \o z)
        BY <4>1, CatCat, ZenonT(60)
      <4> QED
        BY <4>2 DEF z
    <3>8. Insert(q, r[j]) = Append(q, r[j])
      BY <3>3, <3>5, <3>6, InsertLast
    <3>9. Append(q, r[j]) = q \o <<r[j]>>
      BY <3>3, <3>5, AppendIsConcat
    <3> QED
      BY <3>3, <3>4, <3>7, <3>8, <3>9 DEF q
  <2> QED
    BY <2>1, <2>2
<1> HIDE DEF f
<1>5. InsertAll(t, segs) = f[Len(segs)]
  BY <1>1, <1>3, <1>4, InsertAllIs
<1> QED
  BY <1>3, <1>5 DEF segs, b

LEMMA Sizes ==
    /\ PageLen \in Nat \ {0} /\ TCP_MSS \in Nat \ {0} /\ TCP_SND_BUF \in Nat \ {0}
    /\ U8 \in Nat \ {0} /\ HTTPD_MAX_RETRIES \in Nat \ {0}
    /\ HTTPD_POLL_INTERVAL \in Nat \ {0} /\ Timeout \in Nat
    /\ MaxData \in Nat /\ MaxMemErrs \in Nat
    /\ \A k \in Nat : k % U8 \in 0 .. U8 - 1
<1>1. U8 \in Nat \ {0}
  BY SizeAssumption
<1>2. \A k \in Nat : k % U8 \in 0 .. U8 - 1
  BY <1>1
<1> QED
  BY <1>1, <1>2, SizeAssumption

\* What a segment is made of.
LEMMA SegFacts ==
    ASSUME NEW seg \in Segment
    PROVE  /\ seg.seqno \in 0 .. PageLen /\ seg.data \in Seq(0 .. PageLen - 1)
           /\ seg.fin \in BOOLEAN /\ Len(seg.data) \in Nat
           /\ End(seg) = seg.seqno + Len(seg.data) + (IF seg.fin THEN 1 ELSE 0)
           /\ End(seg) \in Nat
<1>1. seg.seqno \in 0 .. PageLen /\ seg.data \in Seq(0 .. PageLen - 1) /\ seg.fin \in BOOLEAN
  BY DEF Segment
<1>2. Len(seg.data) \in Nat
  BY <1>1
<1>3. seg.seqno \in Nat
  BY <1>1, SizeAssumption
<1> DEFINE f == IF seg.fin THEN 1 ELSE 0
<1>4. f \in 0 .. 1
  OBVIOUS
<1>5. End(seg) = seg.seqno + (Len(seg.data) + f)
  BY DEF End, TCP_TCPLEN
<1> HIDE DEF f
<1>6. End(seg) = seg.seqno + Len(seg.data) + f /\ End(seg) \in Nat
  BY <1>2, <1>3, <1>4, <1>5
<1> QED
  BY <1>1, <1>2, <1>6 DEF f

\* The segments of a queue.
LEMMA QueueFacts ==
    ASSUME NEW q, Linked(q)
    PROVE  /\ Len(q) \in Nat
           /\ \A i \in 1 .. Len(q) : /\ q[i] \in Segment /\ q[i].seqno \in Nat /\ End(q[i]) \in Nat
                                     /\ Len(q[i].data) \in Nat /\ q[i].fin \in BOOLEAN
           /\ \A i, j \in 1 .. Len(q) : i < j => q[i].seqno < q[j].seqno
           /\ \A i \in 1 .. Len(q) : End(q[i]) <= End(q[Len(q)])
           /\ \A i, j \in 1 .. Len(q) : i <= j => End(q[i]) <= End(q[j])
<1>1. Len(q) \in Nat /\ \A i \in 1 .. Len(q) : q[i] \in Segment
  BY DEF Linked
<1>2. \A i \in 1 .. Len(q) : /\ q[i].seqno \in Nat /\ End(q[i]) \in Nat
                             /\ Len(q[i].data) \in Nat /\ q[i].fin \in BOOLEAN
  BY <1>1, SegFacts, SizeAssumption
<1>3. ASSUME NEW i \in 1 .. Len(q), NEW j \in 1 .. Len(q), i < j
      PROVE  q[i].seqno < q[j].seqno
  BY <1>2, <1>3 DEF Linked
<1>4. ASSUME NEW i \in 1 .. Len(q), NEW j \in 1 .. Len(q), i <= j
      PROVE  End(q[i]) <= End(q[j])
  <2>1. CASE i = j
    BY <1>2, <2>1
  <2>2. CASE i < j
    <3>1. End(q[i]) <= q[j].seqno /\ q[j].seqno < End(q[j])
      BY <2>2 DEF Linked
    <3> QED
      BY <1>2, <3>1
  <2> QED
    BY <1>4, <2>1, <2>2
<1>5. ASSUME NEW i \in 1 .. Len(q)
      PROVE  End(q[i]) <= End(q[Len(q)])
  <2>1. Len(q) \in 1 .. Len(q) /\ i <= Len(q)
    BY <1>1
  <2> QED
    BY <1>4, <2>1
<1> QED
  BY <1>1, <1>2, <1>3, <1>4, <1>5

LEMMA TopFacts ==
    ASSUME NEW q, Linked(q), NEW n \in 0 .. PageLen + 1
    PROVE  Top(q, n) \in 0 .. PageLen + 1
<1>1. CASE q = <<>>
  BY <1>1 DEF Top
<1>2. CASE q # <<>>
  <2> DEFINE g == q[Len(q)]
  <2>1. Len(q) \in 1 .. Len(q) /\ g \in Segment
    BY <1>2, QueueFacts DEF Linked
  <2>2. g.seqno + Len(g.data) <= PageLen /\ g.seqno \in 0 .. PageLen /\ Len(g.data) \in Nat
    BY <2>1, SegFacts DEF Linked, Right
  <2>3. Top(q, n) = End(g)
    BY <1>2 DEF Top
  <2> HIDE DEF g
  <2>4. End(g) \in Nat /\ End(g) = g.seqno + Len(g.data) + (IF g.fin THEN 1 ELSE 0)
    BY <2>1, SegFacts
  <2> QED
    BY <2>2, <2>3, <2>4, SizeAssumption
<1> QED
  BY <1>1, <1>2

\* Segments are sent, or move from one queue to the other.
Moved(s, t) ==
    /\ t.hs = s.hs /\ t.other = s.other /\ t.errs = s.errs
    /\ t.pcb.state = s.pcb.state /\ t.pcb.lastack = s.pcb.lastack
    /\ t.pcb.snd_lbb = s.pcb.snd_lbb /\ t.pcb.arg = s.pcb.arg /\ t.pcb.cb = s.pcb.cb
    /\ t.pcb.snd_wnd = s.pcb.snd_wnd /\ t.pcb.unread = s.pcb.unread
    /\ t.pcb.polltmr = s.pcb.polltmr /\ t.pcb.age = s.pcb.age
    /\ t.pcb.nrtx \in 0 .. U8 - 1 /\ t.pcb.infr \in BOOLEAN
    /\ t.pcb.unsent \in Seq(Segment) /\ t.pcb.unacked \in Seq(Segment)

LEMMA MovedGood ==
    ASSUME NEW s, NEW t, NEW hn \in Nat, Good(s, hn), s.pcb.state \in Active, Moved(s, t),
           Queue(t.pcb) = Queue(s.pcb),
           t.pcb.snd_nxt \in Nat, s.pcb.snd_nxt <= t.pcb.snd_nxt,
           t.pcb.snd_nxt <= Top(Queue(s.pcb), s.pcb.lastack),
           \A seg \in t.wire :
              \/ seg \in s.wire
              \/ \E i \in 1 .. Len(Queue(s.pcb)) : seg = Queue(s.pcb)[i]
    PROVE  Good(t, hn)
<1> DEFINE q == Queue(s.pcb)
<1>1. /\ Stream(s.pcb, q, s.other, hn) /\ Fields(s.pcb) /\ Linked(q)
      /\ s.pcb.snd_nxt \in Nat /\ s.pcb.lastack \in Nat
  <2>1. Stream(s.pcb, q, s.other, hn) /\ Fields(s.pcb)
    BY DEF Good
  <2>2. Linked(q)
    BY <2>1 DEF Stream
  <2>3. s.pcb.snd_nxt \in 0 .. PageLen + 1 /\ s.pcb.lastack \in 0 .. PageLen + 1
    BY <2>1 DEF Fields
  <2>4. PageLen \in Nat
    BY Sizes
  <2>5. s.pcb.snd_nxt \in Nat /\ s.pcb.lastack \in Nat
    BY <2>3, <2>4
  <2> QED
    BY <2>1, <2>2, <2>5
<1>2. Top(q, s.pcb.lastack) \in 0 .. PageLen + 1
  BY <1>1, TopFacts DEF Fields
<1>3. Stream(t.pcb, q, t.other, hn)
  BY <1>1, <1>2, SMTT(40) DEF Stream, Moved
<1>4. Fields(t.pcb)
  <2>1. t.pcb.snd_nxt \in 0 .. PageLen + 1
    BY <1>2, SizeAssumption
  <2> QED
    BY <1>1, <2>1 DEF Fields, Moved
<1>5. Place(t)
  BY DEF Good, Place, Moved
<1>6. Sent(t)
  <2>1. ASSUME NEW seg \in t.wire
        PROVE  Right(seg) /\ Behind(seg, t.other)
    <3>1. CASE seg \in s.wire
      BY <3>1 DEF Good, Sent, Moved
    <3>2. CASE \E i \in 1 .. Len(q) : seg = q[i]
      <4>1. PICK i \in 1 .. Len(q) : seg = q[i]
        BY <3>2
      <4>2. Right(q[i])
        BY <1>1 DEF Linked
      <4>3. Behind(q[i], s.other)
        BY <1>1 DEF Stream, Behind
      <4> QED
        BY <4>1, <4>2, <4>3 DEF Moved
    <3> QED
      BY <2>1, <3>1, <3>2
  <2> QED
    BY <2>1 DEF Sent
<1>7. t.pcb.state \in Active /\ t.other \in BOOLEAN /\ t.errs \in Nat
  BY DEF Moved, Good
<1> QED
  BY <1>3, <1>4, <1>5, <1>6, <1>7 DEF Good

\* A queue made of two.
LEMMA CatIs ==
    ASSUME NEW a \in Seq(Segment), NEW b \in Seq(Segment), NEW u \in Seq(Segment),
           Len(u) = Len(a) + Len(b),
           \A i \in 1 .. Len(a) : a[i] = u[i],
           \A i \in 1 .. Len(b) : b[i] = u[Len(a) + i]
    PROVE  a \o b = u
<1> DEFINE ab == a \o b
<1>1. /\ ab \in Seq(Segment) /\ Len(ab) = Len(u)
      /\ \A i \in 1 .. Len(u) : ab[i] = IF i <= Len(a) THEN a[i] ELSE b[i - Len(a)]
  <2>1. /\ ab \in Seq(Segment) /\ Len(ab) = Len(a) + Len(b)
        /\ \A i \in 1 .. Len(a) + Len(b) :
             ab[i] = IF i <= Len(a) THEN a[i] ELSE b[i - Len(a)]
    BY Cat, Zenon
  <2> HIDE DEF ab
  <2> QED
    BY <2>1
<1> HIDE DEF ab
<1>2. ASSUME NEW i \in 1 .. Len(u)
      PROVE  ab[i] = u[i]
  <2>1. CASE i <= Len(a)
    BY <1>1, <2>1
  <2>2. CASE i > Len(a)
    <3>1. i - Len(a) \in 1 .. Len(b) /\ Len(a) + (i - Len(a)) = i
      BY <2>2
    <3>2. b[i - Len(a)] = u[i]
      BY <3>1
    <3> QED
      BY <1>1, <2>2, <3>2
  <2> QED
    BY <2>1, <2>2
<1>3. ab = u
  BY <1>1, <1>2, SeqEqual
<1> QED
  BY <1>3 DEF ab

\* The first part of a queue and the rest.
LEMMA Cut ==
    ASSUME NEW u \in Seq(Segment), NEW n \in 0 .. Len(u)
    PROVE  /\ SubSeq(u, 1, n) \in Seq(Segment) /\ Len(SubSeq(u, 1, n)) = n
           /\ \A i \in 1 .. n : SubSeq(u, 1, n)[i] = u[i]
           /\ SubSeq(u, n + 1, Len(u)) \in Seq(Segment)
           /\ Len(SubSeq(u, n + 1, Len(u))) = Len(u) - n
           /\ \A i \in 1 .. Len(u) - n : SubSeq(u, n + 1, Len(u))[i] = u[n + i]
           /\ SubSeq(u, 1, n) \o SubSeq(u, n + 1, Len(u)) = u
<1> DEFINE a == SubSeq(u, 1, n)
           b == SubSeq(u, n + 1, Len(u))
<1>1. a \in Seq(Segment) /\ Len(a) = n /\ \A i \in 1 .. n : a[i] = u[i]
  OBVIOUS
<1>2. /\ b \in Seq(Segment) /\ Len(b) = Len(u) - n
      /\ \A i \in 1 .. Len(u) - n : b[i] = u[n + i]
  OBVIOUS
<1> HIDE DEF a, b
<1>3. Len(u) = Len(a) + Len(b)
  BY <1>1, <1>2
<1>4. a \o b = u
  BY <1>1, <1>2, <1>3, CatIs, ZenonT(60)
<1> QED
  BY <1>1, <1>2, <1>4 DEF a, b

\* What tcp_output changes.
Out(s, u, v, x, w) ==
    [s EXCEPT !.pcb.unsent = u, !.pcb.unacked = v, !.pcb.snd_nxt = x, !.wire = w]

LEMMA OutIs ==
    ASSUME NEW s, IsWhole(s), NEW u, NEW v, NEW x, NEW w
    PROVE  LET t == Out(s, u, v, x, w)
           IN  /\ t.pcb.unsent = u /\ t.pcb.unacked = v /\ t.pcb.snd_nxt = x /\ t.wire = w
               /\ t.pcb.nrtx = s.pcb.nrtx /\ t.pcb.infr = s.pcb.infr
               /\ t.hs = s.hs /\ t.other = s.other /\ t.errs = s.errs
               /\ t.pcb.state = s.pcb.state /\ t.pcb.lastack = s.pcb.lastack
               /\ t.pcb.snd_lbb = s.pcb.snd_lbb /\ t.pcb.arg = s.pcb.arg
               /\ t.pcb.cb = s.pcb.cb
               /\ t.pcb.snd_wnd = s.pcb.snd_wnd /\ t.pcb.unread = s.pcb.unread
               /\ t.pcb.polltmr = s.pcb.polltmr /\ t.pcb.age = s.pcb.age
  BY DEF IsWhole, IsPcb, PcbFields, Out

LEMMA OutputIs ==
    ASSUME NEW s, NEW n
    PROVE  tcp_output(s, n) = Out(s, SubSeq(s.pcb.unsent, n + 1, Len(s.pcb.unsent)),
                                  InsertAll(s.pcb.unacked, SubSeq(s.pcb.unsent, 1, n)),
                                  Highest(s.pcb.snd_nxt, SubSeq(s.pcb.unsent, 1, n)),
                                  s.wire \cup Range(SubSeq(s.pcb.unsent, 1, n)))
  BY DEF tcp_output, Out

\* The last of some sent segments decides about snd_nxt.
LEMMA HighestFacts ==
    ASSUME NEW n \in Nat, NEW segs \in Seq(Segment), NEW top \in Nat, n <= top,
           \A i \in 1 .. Len(segs) : End(segs[i]) <= top,
           \A i \in 1 .. Len(segs) : End(segs[i]) <= End(segs[Len(segs)])
    PROVE  /\ Highest(n, segs) \in Nat /\ n <= Highest(n, segs) /\ Highest(n, segs) <= top
           /\ \A i \in 1 .. Len(segs) : End(segs[i]) <= Highest(n, segs)
<1>1. \A i \in 1 .. Len(segs) : segs[i] \in Segment /\ End(segs[i]) \in Nat
  BY SegFacts
<1>2. CASE segs = <<>>
  BY <1>2 DEF Highest
<1>3. CASE segs # <<>>
  <2> DEFINE e == End(segs[Len(segs)])
  <2>1. Len(segs) \in 1 .. Len(segs)
    BY <1>3
  <2>2. Highest(n, segs) = IF e > n THEN e ELSE n
    BY <1>3 DEF Highest, Last
  <2>3. e \in Nat /\ e <= top /\ \A i \in 1 .. Len(segs) : End(segs[i]) <= e
    BY <1>1, <2>1
  <2> HIDE DEF e
  <2> QED
    BY <1>1, <2>2, <2>3
<1> QED
  BY <1>2, <1>3

\* tcp_output sends some of a queue whose first segment is not yet behind: nothing changes
\* for the two queues together.
LEMMA OutputGood ==
    ASSUME NEW s, NEW hn \in Nat, IsWhole(s), Good(s, hn),
           NEW n \in 0 .. Len(s.pcb.unsent)
    PROVE  Good(tcp_output(s, n), hn)
<1> DEFINE c == s.pcb
           now == SubSeq(c.unsent, 1, n)
           rest == SubSeq(c.unsent, n + 1, Len(c.unsent))
           put == InsertAll(c.unacked, now)
           x == Highest(c.snd_nxt, now)
           w == s.wire \cup Range(now)
           t == Out(s, rest, put, x, w)
           q == Queue(c)
<1>1. /\ c.unsent \in Seq(Segment) /\ c.unacked \in Seq(Segment) /\ c.snd_nxt \in Nat
      /\ c.lastack \in 0 .. PageLen + 1 /\ c.snd_nxt \in 0 .. PageLen + 1 /\ Fields(c)
  BY SizeAssumption DEF Good, Fields
<1>2. /\ now \in Seq(Segment) /\ Len(now) = n /\ \A i \in 1 .. n : now[i] = c.unsent[i]
      /\ rest \in Seq(Segment) /\ now \o rest = c.unsent
  BY <1>1, Cut
<1>3. tcp_output(s, n) = t
  BY OutputIs, Zenon
<1>4. /\ t.pcb.unsent = rest /\ t.pcb.unacked = put /\ t.pcb.snd_nxt = x /\ t.wire = w
      /\ t.pcb.nrtx = c.nrtx /\ t.pcb.infr = c.infr
      /\ t.hs = s.hs /\ t.other = s.other /\ t.errs = s.errs
      /\ t.pcb.state = c.state /\ t.pcb.lastack = c.lastack
      /\ t.pcb.snd_lbb = c.snd_lbb /\ t.pcb.arg = c.arg /\ t.pcb.cb = c.cb
      /\ t.pcb.snd_wnd = c.snd_wnd /\ t.pcb.unread = c.unread
      /\ t.pcb.polltmr = c.polltmr /\ t.pcb.age = c.age
  <2> HIDE DEF now, rest, put, x, w
  <2> QED
    BY OutIs
<1> HIDE DEF t
<1>5. \A seg \in Range(now) : \E i \in 1 .. n : seg = now[i]
  <2>1. DOMAIN now = 1 .. n
    BY <1>2, LenProperties
  <2> QED
    BY <2>1 DEF Range
<1>6. CASE c.state \in Active
  <2>1. Stream(c, q, s.other, hn) /\ Linked(q)
    BY <1>6 DEF Good, Stream
  <2> DEFINE m == Len(c.unacked)
             top == Top(q, c.lastack)
  <2>2. /\ q \in Seq(Segment) /\ Len(q) = m + Len(c.unsent)
        /\ \A i \in 1 .. m : q[i] = c.unacked[i]
        /\ \A i \in 1 .. Len(c.unsent) : q[m + i] = c.unsent[i]
    BY <1>1, Cat, Zenon DEF Queue
  <2>3. m \in Nat /\ Len(c.unsent) \in Nat /\ Len(q) = m + Len(c.unsent) /\ n \in Nat
    BY <1>1, <2>2
  <2> HIDE DEF q, m, now, rest, put, x, w, top
  <2>4. ASSUME NEW i \in 1 .. n
        PROVE  m + i \in 1 .. Len(q) /\ now[i] = q[m + i]
    <3>1. i \in 1 .. Len(c.unsent) /\ m + i \in 1 .. Len(q)
      BY <2>3
    <3> QED
      BY <1>2, <2>2, <3>1
  <2>5. /\ \A i, j \in 1 .. Len(q) : i < j => q[i].seqno < q[j].seqno
        /\ \A i \in 1 .. Len(q) : End(q[i]) <= End(q[Len(q)]) /\ End(q[i]) \in Nat
    BY <2>1, QueueFacts
  <2>6. put = c.unacked \o now
    <3>1. ASSUME NEW i \in 1 .. Len(c.unacked), NEW j \in 1 .. Len(now)
          PROVE  c.unacked[i].seqno < now[j].seqno
      <4>1. i \in 1 .. m /\ i \in 1 .. Len(q) /\ m + j \in 1 .. Len(q) /\ i < m + j
        <5>1. i \in 1 .. m /\ j \in 1 .. n
          BY <1>2 DEF m
        <5> QED
          BY <2>3, <5>1
      <4> QED
        BY <1>2, <2>2, <2>4, <2>5, <4>1
    <3>2. ASSUME NEW i \in 1 .. Len(now), NEW j \in 1 .. Len(now), i < j
          PROVE  now[i].seqno < now[j].seqno
      <4>1. m + i \in 1 .. Len(q) /\ m + j \in 1 .. Len(q) /\ m + i < m + j
        BY <1>2, <2>3, <2>4, <3>2
      <4> QED
        BY <1>2, <2>4, <2>5, <4>1
    <3> QED
      BY <1>1, <1>2, <3>1, <3>2, InsertAllLast DEF put
  <2>7. put \in Seq(Segment) /\ Queue(t.pcb) = q
    <3>1. put \in Seq(Segment)
      BY <1>1, <1>2, <2>6, Cat
    <3>2. (c.unacked \o now) \o rest = c.unacked \o (now \o rest)
      BY <1>1, <1>2, CatCat, Zenon
    <3> QED
      BY <1>2, <1>4, <2>6, <3>1, <3>2 DEF Queue, q
  <2>8. top \in Nat /\ \A i \in 1 .. Len(q) : End(q[i]) <= top
    <3>1. top \in Nat
      BY <1>1, <2>1, TopFacts, SizeAssumption, SMTT(40) DEF top
    <3>2. ASSUME NEW i \in 1 .. Len(q) PROVE End(q[i]) <= top
      <4>1. q # <<>>
        BY <2>3
      <4> QED
        BY <2>5, <4>1 DEF Top, top
    <3> QED
      BY <3>1, <3>2
  <2>9. /\ x \in Nat /\ c.snd_nxt <= x /\ x <= top
        /\ \A i \in 1 .. n : End(now[i]) <= x
    <3>1. \A i \in 1 .. Len(now) : End(now[i]) <= top
      BY <1>2, <2>4, <2>8
    <3>2. ASSUME NEW i \in 1 .. Len(now) PROVE End(now[i]) <= End(now[Len(now)])
      <4>1. CASE i = Len(now)
        <5>1. End(now[i]) \in Nat
          BY <1>2, <2>4, <2>5
        <5> QED
          BY <4>1, <5>1
      <4>2. CASE i # Len(now)
        <5>1. /\ m + i \in 1 .. Len(q) /\ m + n \in 1 .. Len(q) /\ m + i < m + n
              /\ now[i] = q[m + i] /\ now[n] = q[m + n]
          <6>1. i \in 1 .. n /\ n \in 1 .. n /\ i < n
            BY <1>2, <2>3, <4>2
          <6>2. m + i \in 1 .. Len(q) /\ m + n \in 1 .. Len(q) /\ m + i < m + n
            BY <2>3, <6>1
          <6> QED
            BY <2>4, <6>1, <6>2
        <5>2. End(q[m + i]) <= q[m + n].seqno /\ q[m + n].seqno < End(q[m + n])
          BY <2>1, <5>1 DEF Linked
        <5>3. End(q[m + i]) \in Nat /\ q[m + n].seqno \in Nat /\ End(q[m + n]) \in Nat
          BY <2>1, <5>1, QueueFacts
        <5> QED
          BY <1>2, <5>1, <5>2, <5>3
      <4> QED
        BY <4>1, <4>2
    <3>3. c.snd_nxt <= top
      BY <2>1 DEF Stream, top
    <3> QED
      BY <1>1, <1>2, <2>8, <3>1, <3>2, <3>3, HighestFacts DEF x
  <2>10. ASSUME NEW seg \in t.wire
         PROVE  \/ seg \in s.wire
                \/ \E i \in 1 .. Len(q) : seg = q[i]
    <3>1. SUFFICES ASSUME seg \notin s.wire
                   PROVE  \E i \in 1 .. Len(q) : seg = q[i]
      OBVIOUS
    <3>2. PICK i \in 1 .. n : seg = now[i]
      BY <1>4, <1>5, <2>10, <3>1 DEF w
    <3> QED
      BY <1>4, <2>4, <2>9, <3>2
  <2>11. Moved(s, t)
    BY <1>1, <1>2, <1>4, <2>7 DEF Moved, Fields
  <2> QED
    BY <1>3, <1>4, <1>6, <2>7, <2>9, <2>10, <2>11, MovedGood DEF q, top
<1>7. CASE c.state \notin Active
  <2>1. c.unsent = <<>> /\ c.unacked = <<>> /\ n = 0
    BY <1>7 DEF Good
  <2>2. now = <<>> /\ rest = <<>>
    BY <2>1
  <2>3. put = <<>>
    <3>1. InsertAll(c.unacked, now) = c.unacked \o now
      <4>1. Len(now) = 0
        BY <1>2, <2>1
      <4>2. /\ \A i \in 1 .. Len(c.unacked), j \in 1 .. Len(now) :
                 c.unacked[i].seqno < now[j].seqno
            /\ \A i, j \in 1 .. Len(now) : i < j => now[i].seqno < now[j].seqno
        BY <4>1
      <4> HIDE DEF now
      <4> QED
        BY <1>1, <1>2, <4>2, InsertAllLast
    <3> QED
      BY <2>1, <2>2, <3>1
  <2>4. x = c.snd_nxt
    BY <2>2 DEF Highest
  <2>5. w = s.wire
    <3>1. Range(now) = {}
      BY <1>5, <2>1
    <3> QED
      BY <3>1
  <2> HIDE DEF now, rest, put, x, w
  <2>6. Fields(t.pcb)
    BY <1>1, <1>2, <1>4, <2>3, <2>4 DEF Fields
  <2>7. Place(t) /\ Sent(t)
    BY <1>4, <1>7, <2>5 DEF Good, Place, Sent
  <2> QED
    BY <1>3, <1>4, <1>7, <2>2, <2>3, <2>6, <2>7 DEF Good
<1> QED
  BY <1>6, <1>7

\* Everything goes back to the unsent queue.
LEMMA RtoGood ==
    ASSUME NEW s, NEW hn \in Nat, IsWhole(s), Good(s, hn), s.pcb.state \in Active
    PROVE  Good([s EXCEPT !.pcb = tcp_rexmit_rto(@)], hn)
<1> DEFINE c == s.pcb
           d == tcp_rexmit_rto(c)
           t == [s EXCEPT !.pcb = d]
           u == c.unacked \o c.unsent
           r == (c.nrtx + 1) % U8
<1>1. Fields(c) /\ c.unsent \in Seq(Segment) /\ c.unacked \in Seq(Segment)
  BY DEF Good, Fields
<1>2. u \in Seq(Segment) /\ <<>> \o u = u
  <2>1. u \in Seq(Segment)
    BY <1>1, Cat
  <2> HIDE DEF u
  <2> QED
    BY <2>1, ConcatEmptySeq
<1>3. r \in 0 .. U8 - 1
  <2>1. c.nrtx + 1 \in Nat
    <3>1. c.nrtx \in 0 .. U8 - 1
      BY <1>1 DEF Fields
    <3> QED
      BY <3>1
  <2> QED
    BY <2>1, Sizes
<1>4. /\ d.unsent = u /\ d.unacked = <<>> /\ d.nrtx = r /\ d.infr = c.infr
      /\ d.state = c.state /\ d.lastack = c.lastack /\ d.snd_nxt = c.snd_nxt
      /\ d.snd_lbb = c.snd_lbb /\ d.arg = c.arg /\ d.cb = c.cb /\ d.snd_wnd = c.snd_wnd
      /\ d.unread = c.unread /\ d.polltmr = c.polltmr /\ d.age = c.age
  <2>1. ASSUME NEW x, NEW y
        PROVE  LET e == [c EXCEPT !.unsent = x, !.unacked = <<>>, !.nrtx = y]
               IN  /\ e.unsent = x /\ e.unacked = <<>> /\ e.nrtx = y /\ e.infr = c.infr
                   /\ e.state = c.state /\ e.lastack = c.lastack /\ e.snd_nxt = c.snd_nxt
                   /\ e.snd_lbb = c.snd_lbb /\ e.arg = c.arg /\ e.cb = c.cb /\ e.snd_wnd = c.snd_wnd
                   /\ e.unread = c.unread /\ e.polltmr = c.polltmr /\ e.age = c.age
    BY DEF IsWhole, IsPcb, PcbFields
  <2>2. d = [c EXCEPT !.unsent = u, !.unacked = <<>>, !.nrtx = r]
    BY DEF tcp_rexmit_rto
  <2> HIDE DEF d, u, r
  <2> QED
    BY <2>1, <2>2
<1> HIDE DEF d, u, r
<1>5. /\ t.pcb = d /\ t.hs = s.hs /\ t.other = s.other /\ t.errs = s.errs /\ t.wire = s.wire
  BY DEF IsWhole
<1> HIDE DEF t
<1>6. Moved(s, t)
  <2>1. <<>> \in Seq(Segment)
    OBVIOUS
  <2>2. t.pcb.unsent \in Seq(Segment) /\ t.pcb.unacked \in Seq(Segment)
    BY <1>2, <1>4, <1>5, <2>1
  <2> QED
    BY <1>1, <1>3, <1>4, <1>5, <2>2 DEF Moved, Fields
<1>7. Queue(t.pcb) = Queue(c)
  BY <1>2, <1>4, <1>5 DEF Queue, u
<1>8. /\ t.pcb.snd_nxt = c.snd_nxt /\ c.snd_nxt \in Nat
      /\ c.snd_nxt <= Top(Queue(c), c.lastack)
  BY <1>4, <1>5, SizeAssumption DEF Good, Fields, Stream
<1>9. Good(t, hn)
  BY <1>5, <1>6, <1>7, <1>8, MovedGood
<1> QED
  BY <1>9 DEF t, d

\* The first segment goes to the unsent queue; the tcp_output that follows sends it at
\* least, and puts it back at the front of the unacknowledged ones. (s: the pcb as it would
\* be without this, t: as it is.)
LEMMA FastGood ==
    ASSUME NEW s, NEW t, NEW hn \in Nat, Good(s, hn), s.pcb.state \in Active,
           IsWhole(t), Moved(s, t), t.wire = s.wire, t.pcb.snd_nxt = s.pcb.snd_nxt,
           s.pcb.unacked # <<>>,
           t.pcb.unacked = Tail(s.pcb.unacked),
           t.pcb.unsent = <<s.pcb.unacked[1]>> \o s.pcb.unsent,
           NEW n \in 1 .. Len(t.pcb.unsent)
    PROVE  Good(tcp_output(t, n), hn)
<1> DEFINE c == s.pcb
           u == c.unsent
           h == c.unacked[1]
           tl == Tail(c.unacked)
           r == SubSeq(u, 1, n - 1)
           now == SubSeq(t.pcb.unsent, 1, n)
           rest == SubSeq(t.pcb.unsent, n + 1, Len(t.pcb.unsent))
           put == InsertAll(t.pcb.unacked, now)
           x == Highest(c.snd_nxt, now)
           w == s.wire \cup Range(now)
           o == Out(t, rest, put, x, w)
           q == Queue(c)
           m == Len(c.unacked)
<1>1. /\ u \in Seq(Segment) /\ c.unacked \in Seq(Segment) /\ c.snd_nxt \in Nat
      /\ c.lastack \in 0 .. PageLen + 1 /\ c.snd_nxt \in 0 .. PageLen + 1 /\ Fields(c)
  BY SizeAssumption DEF Good, Fields
<1>2. /\ m \in Nat \ {0} /\ h \in Segment /\ <<h>> \in Seq(Segment)
      /\ tl \in Seq(Segment) /\ Len(tl) = m - 1
      /\ \A i \in 1 .. m - 1 : tl[i] = c.unacked[i + 1]
  BY <1>1, HeadTailProperties
<1>3. <<h>> \o tl = c.unacked
  <2>1. Len(<<h>>) = 1 /\ <<h>>[1] = h
    OBVIOUS
  <2>2. /\ m = Len(<<h>>) + Len(tl)
        /\ \A i \in 1 .. Len(<<h>>) : <<h>>[i] = c.unacked[i]
        /\ \A i \in 1 .. Len(tl) : tl[i] = c.unacked[Len(<<h>>) + i]
    <3> DEFINE b == <<h>>
    <3> HIDE DEF b, tl
    <3>1. \A i \in 1 .. Len(tl) : tl[i] = c.unacked[1 + i]
      BY <1>2
    <3>2. m = 1 + Len(tl)
      BY <1>2
    <3>3. Len(b) = 1 /\ b[1] = c.unacked[1]
      BY <2>1 DEF b
    <3>4. /\ m = Len(b) + Len(tl)
          /\ \A i \in 1 .. Len(b) : b[i] = c.unacked[i]
          /\ \A i \in 1 .. Len(tl) : tl[i] = c.unacked[Len(b) + i]
      BY <3>1, <3>2, <3>3
    <3> QED
      BY <3>4 DEF b
  <2> HIDE DEF tl, h
  <2> QED
    BY <1>1, <1>2, <2>2, CatIs
<1> DEFINE v == t.pcb.unsent
           r2 == SubSeq(u, (n - 1) + 1, Len(u))
<1>4. /\ v \in Seq(Segment) /\ Len(v) = 1 + Len(u) /\ v[1] = h
      /\ \A i \in 1 .. Len(u) : v[1 + i] = u[i]
  <2> DEFINE b == <<h>>
  <2>1. b \in Seq(Segment) /\ Len(b) = 1 /\ b[1] = h /\ v = b \o u
    BY <1>2
  <2> HIDE DEF b, h
  <2>2. /\ b \o u \in Seq(Segment) /\ Len(b \o u) = Len(b) + Len(u)
        /\ \A i \in 1 .. Len(b) : (b \o u)[i] = b[i]
        /\ \A i \in 1 .. Len(u) : (b \o u)[Len(b) + i] = u[i]
    BY <1>1, <2>1, Cat, Zenon
  <2> QED
    BY <2>1, <2>2
<1>5. n - 1 \in 0 .. Len(u) /\ n \in 0 .. Len(v) /\ Len(u) \in Nat
  BY <1>1, <1>4
<1>6. /\ now \in Seq(Segment) /\ Len(now) = n /\ \A i \in 1 .. n : now[i] = v[i]
      /\ rest \in Seq(Segment) /\ Len(rest) = Len(v) - n
      /\ \A i \in 1 .. Len(v) - n : rest[i] = v[n + i]
  BY <1>4, <1>5, Cut
<1>7. /\ r \in Seq(Segment) /\ Len(r) = n - 1 /\ \A i \in 1 .. n - 1 : r[i] = u[i]
      /\ r2 \in Seq(Segment) /\ Len(r2) = Len(u) - (n - 1)
      /\ \A i \in 1 .. Len(u) - (n - 1) : r2[i] = u[(n - 1) + i]
      /\ r \o r2 = u
  <2> DEFINE k == n - 1
  <2> HIDE DEF k
  <2>1. k \in 0 .. Len(u)
    BY <1>5 DEF k
  <2>2. /\ SubSeq(u, 1, k) \in Seq(Segment) /\ Len(SubSeq(u, 1, k)) = k
        /\ \A i \in 1 .. k : SubSeq(u, 1, k)[i] = u[i]
        /\ SubSeq(u, k + 1, Len(u)) \in Seq(Segment)
        /\ Len(SubSeq(u, k + 1, Len(u))) = Len(u) - k
        /\ \A i \in 1 .. Len(u) - k : SubSeq(u, k + 1, Len(u))[i] = u[k + i]
        /\ SubSeq(u, 1, k) \o SubSeq(u, k + 1, Len(u)) = u
    BY <1>1, <2>1, Cut
  <2> QED
    BY <2>2 DEF k
<1> HIDE DEF now, rest, r, r2, tl, m
<1>8. now = <<h>> \o r
  <2> DEFINE b == <<h>>
  <2>1. b \in Seq(Segment) /\ Len(b) = 1 /\ b[1] = h
    BY <1>2
  <2> HIDE DEF b, h, v
  <2>2. Len(now) = Len(b) + Len(r) /\ \A i \in 1 .. Len(b) : b[i] = now[i]
    BY <1>4, <1>6, <1>7, <2>1
  <2>3. ASSUME NEW i \in 1 .. Len(r) PROVE r[i] = now[Len(b) + i]
    <3>1. i \in 1 .. Len(u) /\ 1 + i \in 1 .. n
      BY <1>5, <1>7, SMTT(40)
    <3> QED
      BY <1>4, <1>6, <1>7, <2>1, <3>1, ZenonT(60)
  <2>4. b \o r = now
    BY <1>6, <1>7, <2>1, <2>2, <2>3, CatIs
  <2> QED
    BY <2>4 DEF b
<1>9. rest = r2
  <2>1. Len(rest) = Len(r2)
    BY <1>4, <1>5, <1>6, <1>7
  <2>2. ASSUME NEW i \in 1 .. Len(rest) PROVE rest[i] = r2[i]
    <3>1. /\ i \in 1 .. Len(v) - n /\ i \in 1 .. Len(u) - (n - 1)
          /\ (n - 1) + i \in 1 .. Len(u) /\ 1 + ((n - 1) + i) = n + i
      BY <1>4, <1>5, <1>6
    <3>2. rest[i] = v[n + i] /\ r2[i] = u[(n - 1) + i] /\ v[1 + ((n - 1) + i)] = u[(n - 1) + i]
      BY <1>4, <1>6, <1>7, <3>1
    <3> QED
      BY <3>1, <3>2
  <2> QED
    BY <1>6, <1>7, <2>1, <2>2, SeqEqual
<1>10. Stream(c, q, s.other, hn) /\ Linked(q)
  BY DEF Good, Stream
<1>11. /\ q \in Seq(Segment) /\ Len(q) = m + Len(u)
       /\ \A i \in 1 .. m : q[i] = c.unacked[i]
       /\ \A i \in 1 .. Len(u) : q[m + i] = u[i]
  BY <1>1, Cat, Zenon DEF Queue, m
<1> HIDE DEF q
<1>12. /\ \A i, j \in 1 .. Len(q) : i < j => q[i].seqno < q[j].seqno
       /\ \A i \in 1 .. Len(q) : End(q[i]) <= End(q[Len(q)]) /\ End(q[i]) \in Nat
  BY <1>10, QueueFacts
<1>13. /\ 1 \in 1 .. Len(q) /\ h = q[1]
       /\ \A i \in 1 .. Len(tl) : i + 1 \in 1 .. Len(q) /\ tl[i] = q[i + 1]
       /\ \A i \in 1 .. Len(r) : m + i \in 1 .. Len(q) /\ r[i] = q[m + i]
  <2>1. 1 \in 1 .. Len(q) /\ 1 \in 1 .. m
    BY <1>2, <1>5, <1>11
  <2>2. ASSUME NEW i \in 1 .. Len(tl) PROVE i + 1 \in 1 .. Len(q) /\ tl[i] = q[i + 1]
    <3>1. i \in 1 .. m - 1 /\ i + 1 \in 1 .. m /\ i + 1 \in 1 .. Len(q)
      BY <1>2, <1>5, <1>11, SMTT(40)
    <3> QED
      BY <1>2, <1>11, <3>1
  <2>3. ASSUME NEW i \in 1 .. Len(r) PROVE m + i \in 1 .. Len(q) /\ r[i] = q[m + i]
    <3>1. i \in 1 .. n - 1 /\ i \in 1 .. Len(u) /\ m + i \in 1 .. Len(q)
      <4>1. i \in 1 .. n - 1 /\ n - 1 \in 0 .. Len(u) /\ Len(u) \in Nat
        BY <1>5, <1>7
      <4>2. m \in Nat /\ Len(q) = m + Len(u)
        BY <1>2, <1>11
      <4> DEFINE a == Len(u)
                 e == Len(q)
      <4> HIDE DEF a, e
      <4>3. i \in 1 .. n - 1 /\ n - 1 \in 0 .. a /\ a \in Nat /\ m \in Nat /\ e = m + a
        BY <4>1, <4>2 DEF a, e
      <4>4. i \in 1 .. a /\ m + i \in 1 .. e
        BY <4>3
      <4> QED
        BY <4>1, <4>4 DEF a, e
    <3> QED
      BY <1>7, <1>11, <3>1
  <2> QED
    BY <1>11, <2>1, <2>2, <2>3
<1>14. put = c.unacked \o r
  <2>1. \A i \in 1 .. Len(tl) : h.seqno < tl[i].seqno
    <3>1. ASSUME NEW i \in 1 .. Len(tl) PROVE 1 < i + 1
      OBVIOUS
    <3> QED
      BY <1>12, <1>13, <3>1
  <2>2. ASSUME NEW i \in 1 .. Len(r) PROVE h.seqno < r[i].seqno
    <3>1. 1 < m + i
      BY <1>2
    <3> QED
      BY <1>12, <1>13, <3>1
  <2>3. ASSUME NEW i \in 1 .. Len(tl), NEW j \in 1 .. Len(r) PROVE tl[i].seqno < r[j].seqno
    <3>1. i + 1 < m + j
      BY <1>2
    <3> QED
      BY <1>12, <1>13, <3>1
  <2>4. ASSUME NEW i \in 1 .. Len(r), NEW j \in 1 .. Len(r), i < j
        PROVE  r[i].seqno < r[j].seqno
    <3>1. m + i < m + j
      BY <1>2, <2>4
    <3> QED
      BY <1>12, <1>13, <3>1
  <2> HIDE DEF h
  <2>5. InsertAll(tl, <<h>> \o r) = (<<h>> \o tl) \o r
    BY <1>2, <1>7, <2>1, <2>2, <2>3, <2>4, InsertAllBack
  <2> QED
    BY <1>3, <1>8, <2>5 DEF tl
<1>15. put \in Seq(Segment) /\ put \o rest = q
  <2>1. put \in Seq(Segment)
    BY <1>1, <1>7, <1>14, Cat
  <2>2. (c.unacked \o r) \o r2 = c.unacked \o (r \o r2)
    BY <1>1, <1>7, CatCat, Zenon
  <2> QED
    BY <1>7, <1>9, <1>14, <2>1, <2>2 DEF Queue, q
<1>16. tcp_output(t, n) = o
  BY OutputIs, Zenon DEF now, rest
<1>17. /\ o.pcb.unsent = rest /\ o.pcb.unacked = put /\ o.pcb.snd_nxt = x /\ o.wire = w
       /\ Moved(s, o)
  <2> HIDE DEF put, x, w
  <2>1. /\ o.pcb.unsent = rest /\ o.pcb.unacked = put /\ o.pcb.snd_nxt = x /\ o.wire = w
        /\ o.pcb.nrtx = t.pcb.nrtx /\ o.pcb.infr = t.pcb.infr
        /\ o.hs = t.hs /\ o.other = t.other /\ o.errs = t.errs
        /\ o.pcb.state = t.pcb.state /\ o.pcb.lastack = t.pcb.lastack
        /\ o.pcb.snd_lbb = t.pcb.snd_lbb /\ o.pcb.arg = t.pcb.arg
        /\ o.pcb.cb = t.pcb.cb
        /\ o.pcb.snd_wnd = t.pcb.snd_wnd /\ o.pcb.unread = t.pcb.unread
        /\ o.pcb.polltmr = t.pcb.polltmr /\ o.pcb.age = t.pcb.age
    BY OutIs
  <2> HIDE DEF o
  <2> QED
    BY <1>6, <1>15, <2>1 DEF Moved
<1> DEFINE K(i) == IF i = 1 THEN 1 ELSE m + (i - 1)
           top == Top(q, c.lastack)
<1>18. ASSUME NEW i \in 1 .. n
       PROVE  K(i) \in 1 .. Len(q) /\ now[i] = q[K(i)]
  <2>1. CASE i = 1
    BY <1>4, <1>6, <1>13, <2>1
  <2>2. CASE i # 1
    <3>1. /\ i - 1 \in 1 .. Len(r) /\ i - 1 \in 1 .. Len(u) /\ 1 + (i - 1) = i
          /\ i - 1 \in 1 .. n - 1 /\ K(i) = m + (i - 1)
      <4>1. i - 1 \in 1 .. n - 1 /\ 1 + (i - 1) = i
        BY <2>2
      <4>2. i - 1 \in 1 .. Len(u)
        BY <1>5, <4>1
      <4> QED
        BY <1>7, <2>2, <4>1, <4>2
    <3>2. now[i] = v[1 + (i - 1)] /\ v[1 + (i - 1)] = u[i - 1] /\ r[i - 1] = u[i - 1]
      BY <1>4, <1>6, <1>7, <3>1
    <3> HIDE DEF K
    <3> QED
      BY <1>13, <3>1, <3>2
  <2> QED
    BY <2>1, <2>2
<1>19. \A i, j \in 1 .. Len(q) : i <= j => End(q[i]) <= End(q[j])
  BY <1>10, QueueFacts
<1>20. ASSUME NEW i \in 1 .. n PROVE K(i) <= K(n) /\ n \in 1 .. n
  BY <1>2
<1>21. top \in Nat /\ \A i \in 1 .. Len(q) : End(q[i]) <= top
  <2>1. top \in Nat
    <3>1. top \in 0 .. PageLen + 1
      BY <1>1, <1>10, TopFacts
    <3> HIDE DEF top
    <3> QED
      BY <3>1
  <2>2. ASSUME NEW i \in 1 .. Len(q) PROVE End(q[i]) <= top
    <3>1. q # <<>>
      BY <1>11, <1>13
    <3> QED
      BY <1>12, <3>1 DEF Top
  <2> QED
    BY <2>1, <2>2
<1> HIDE DEF K, top
<1>22. /\ x \in Nat /\ c.snd_nxt <= x /\ x <= top
       /\ \A i \in 1 .. n : End(now[i]) <= x
  <2>1. \A i \in 1 .. Len(now) : End(now[i]) <= top
    BY <1>6, <1>18, <1>21
  <2>2. ASSUME NEW i \in 1 .. Len(now) PROVE End(now[i]) <= End(now[Len(now)])
    <3>1. i \in 1 .. n /\ n \in 1 .. n /\ Len(now) = n
      BY <1>6
    <3>2. K(i) \in 1 .. Len(q) /\ K(n) \in 1 .. Len(q) /\ K(i) <= K(n)
      BY <1>18, <1>20, <3>1
    <3>3. now[i] = q[K(i)] /\ now[n] = q[K(n)]
      BY <1>18, <3>1
    <3> QED
      BY <1>19, <3>1, <3>2, <3>3
  <2>3. c.snd_nxt <= top
    BY <1>10 DEF Stream, top
  <2> QED
    BY <1>1, <1>6, <1>21, <2>1, <2>2, <2>3, HighestFacts
<1>23. ASSUME NEW seg \in o.wire
       PROVE  \/ seg \in s.wire
              \/ \E i \in 1 .. Len(q) : seg = q[i]
  <2>1. SUFFICES ASSUME seg \notin s.wire
                 PROVE  \E i \in 1 .. Len(q) : seg = q[i]
    OBVIOUS
  <2> HIDE DEF o, x
  <2>2. PICK i \in 1 .. n : seg = now[i]
    <3>1. DOMAIN now = 1 .. n
      BY <1>6, LenProperties
    <3> QED
      BY <1>17, <1>23, <2>1, <3>1 DEF Range
  <2> QED
    BY <1>17, <1>18, <1>22, <2>2
<1> HIDE DEF o, x, w, put
<1>24. Queue(o.pcb) = q
  BY <1>15, <1>17 DEF Queue
<1> QED
  BY <1>16, <1>17, <1>22, <1>23, <1>24, MovedGood DEF q, top

\* What an ACK leaves of a queue.
LEMMA DropFacts ==
    ASSUME NEW u \in Seq(Segment), NEW ackno \in Int
    PROVE  \E n \in 0 .. Len(u) : /\ DropAcked(u, ackno) = SubSeq(u, n + 1, Len(u))
                                  /\ \A i \in 1 .. n : End(u[i]) <= ackno
                                  /\ n < Len(u) => End(u[n + 1]) > ackno
<1> DEFINE P(n) == /\ \A i \in 1 .. n : End(u[i]) <= ackno
                   /\ n < Len(u) => End(u[n + 1]) > ackno
           S == {n \in 0 .. Len(u) : n < Len(u) => End(u[n + 1]) > ackno}
           m == CHOOSE n \in 0 .. Len(u) : P(n)
<1>1. Len(u) \in Nat /\ \A i \in 1 .. Len(u) : End(u[i]) \in Nat
  BY SegFacts
<1>2. \E n \in 0 .. Len(u) : P(n)
  <2>1. S \in SUBSET Nat /\ Len(u) \in S
    BY <1>1
  <2>2. PICK k \in S : \A i \in Nat : i < k => i \notin S
    <3> HIDE DEF S
    <3> QED
      BY <2>1, Least
  <2>3. k \in 0 .. Len(u) /\ (k < Len(u) => End(u[k + 1]) > ackno)
    BY <2>2
  <2>4. ASSUME NEW i \in 1 .. k PROVE End(u[i]) <= ackno
    <3>1. i - 1 \in Nat /\ i - 1 < k /\ i - 1 \in 0 .. Len(u) /\ i - 1 < Len(u)
          /\ (i - 1) + 1 = i /\ i \in 1 .. Len(u)
      BY <1>1, <2>3
    <3>2. i - 1 \notin S
      BY <2>2, <3>1
    <3>3. ~(End(u[i]) > ackno)
      BY <3>1, <3>2
    <3> QED
      BY <1>1, <3>1, <3>3
  <2> QED
    BY <2>3, <2>4
<1>3. m \in 0 .. Len(u) /\ P(m)
  BY <1>2
<1>4. DropAcked(u, ackno) = SubSeq(u, m + 1, Len(u))
  BY DEF DropAcked
<1> HIDE DEF m
<1> QED
  BY <1>3, <1>4

\* Of two queues that belong together it drops the first segments.
LEMMA DropQueue ==
    ASSUME NEW a \in Seq(Segment), NEW b \in Seq(Segment), Linked(a \o b), NEW ackno \in Int
    PROVE  \E n \in 0 .. Len(a \o b) :
              /\ DropAcked(a, ackno) \o DropAcked(b, ackno) = SubSeq(a \o b, n + 1, Len(a \o b))
              /\ \A i \in 1 .. n : End((a \o b)[i]) <= ackno
              /\ n < Len(a \o b) => End((a \o b)[n + 1]) > ackno
<1> DEFINE q == a \o b
           la == Len(a)
           lb == Len(b)
<1>1. /\ q \in Seq(Segment) /\ Len(q) = la + lb /\ la \in Nat /\ lb \in Nat
      /\ \A i \in 1 .. la : q[i] = a[i]
      /\ \A i \in 1 .. lb : q[la + i] = b[i]
  <2>1. la \in Nat /\ lb \in Nat
    OBVIOUS
  <2> QED
    BY <2>1, Cat, Zenon
<1>2. PICK na \in 0 .. la : /\ DropAcked(a, ackno) = SubSeq(a, na + 1, la)
                            /\ \A i \in 1 .. na : End(a[i]) <= ackno
                            /\ na < la => End(a[na + 1]) > ackno
  BY DropFacts
<1>3. PICK nb \in 0 .. lb : /\ DropAcked(b, ackno) = SubSeq(b, nb + 1, lb)
                            /\ \A i \in 1 .. nb : End(b[i]) <= ackno
                            /\ nb < lb => End(b[nb + 1]) > ackno
  BY DropFacts
<1>4. /\ \A i, j \in 1 .. Len(q) : i <= j => End(q[i]) <= End(q[j])
      /\ \A i \in 1 .. Len(q) : End(q[i]) \in Nat
  BY QueueFacts
<1> DEFINE n == na + nb
           da == SubSeq(a, na + 1, la)
           db == SubSeq(b, nb + 1, lb)
           dq == SubSeq(q, n + 1, Len(q))
<1>5. /\ da \in Seq(Segment) /\ Len(da) = la - na
      /\ \A i \in 1 .. la - na : da[i] = a[na + i]
      /\ db \in Seq(Segment) /\ Len(db) = lb - nb
      /\ \A i \in 1 .. lb - nb : db[i] = b[nb + i]
  BY Cut
<1>6. n \in 0 .. Len(q)
  BY <1>1
<1>7. dq \in Seq(Segment) /\ Len(dq) = Len(q) - n /\ \A i \in 1 .. Len(q) - n : dq[i] = q[n + i]
  <2> HIDE DEF n, q
  <2> QED
    BY <1>1, <1>6, Cut
<1> HIDE DEF q, la, lb, da, db, dq
\* If a segment of the first queue is left, nothing of the second is acknowledged.
<1>8. na < la => nb = 0
  <2> SUFFICES ASSUME na < la, nb # 0 PROVE FALSE
    OBVIOUS
  <2>1. /\ na + 1 \in 1 .. la /\ na + 1 \in 1 .. Len(q) /\ 1 \in 1 .. nb /\ 1 \in 1 .. lb
        /\ la + 1 \in 1 .. Len(q) /\ na + 1 <= la + 1
    BY <1>1
  <2>2. End(q[na + 1]) > ackno /\ End(q[la + 1]) <= ackno
    BY <1>1, <1>2, <1>3, <2>1
  <2>3. End(q[na + 1]) <= End(q[la + 1]) /\ End(q[na + 1]) \in Nat /\ End(q[la + 1]) \in Nat
    BY <1>4, <2>1
  <2> QED
    BY <2>2, <2>3
<1>9. da \o db = dq
  <2>1. Len(dq) = Len(da) + Len(db)
    BY <1>1, <1>5, <1>7, SMTT(40)
  <2>2. ASSUME NEW i \in 1 .. Len(da) PROVE da[i] = dq[i]
    <3>1. /\ na < la /\ nb = 0 /\ n = na /\ i \in 1 .. la - na /\ na + i \in 1 .. la
          /\ i \in 1 .. Len(q) - n
      BY <1>1, <1>5, <1>8, SMTT(40)
    <3> HIDE DEF n
    <3> QED
      BY <1>1, <1>5, <1>7, <3>1
  <2>3. ASSUME NEW i \in 1 .. Len(db) PROVE db[i] = dq[Len(da) + i]
    <3>1. /\ i \in 1 .. lb - nb /\ nb + i \in 1 .. lb /\ Len(da) + i \in 1 .. Len(q) - n
          /\ n + (Len(da) + i) = la + (nb + i)
      <4>1. Len(da) = la - na /\ Len(db) = lb - nb /\ Len(q) = la + lb
        BY <1>1, <1>5
      <4>2. la \in Nat /\ lb \in Nat
        BY <1>1
      <4> QED
        BY <4>1, <4>2
    <3> HIDE DEF n
    <3>2. db[i] = b[nb + i] /\ q[la + (nb + i)] = b[nb + i]
      BY <1>1, <1>5, <3>1
    <3>3. dq[Len(da) + i] = q[n + (Len(da) + i)]
      BY <1>7, <3>1
    <3> QED
      BY <3>1, <3>2, <3>3
  <2> QED
    BY <1>5, <1>7, <2>1, <2>2, <2>3, CatIs
<1>10. ASSUME NEW i \in 1 .. n PROVE End(q[i]) <= ackno
  <2>1. CASE i <= na
    <3>1. i \in 1 .. na /\ i \in 1 .. la
      BY <1>1, <2>1
    <3> QED
      BY <1>1, <1>2, <3>1
  <2>2. CASE i > na
    <3>1. na = la /\ i - la \in 1 .. nb /\ i - la \in 1 .. lb /\ la + (i - la) = i
      BY <1>1, <1>8, <2>2
    <3>2. q[la + (i - la)] = b[i - la] /\ End(b[i - la]) <= ackno
      BY <1>1, <1>3, <3>1
    <3> QED
      BY <3>1, <3>2
  <2> QED
    BY <2>1, <2>2
<1>11. n < Len(q) => End(q[n + 1]) > ackno
  <2> SUFFICES ASSUME n < Len(q) PROVE End(q[n + 1]) > ackno
    OBVIOUS
  <2>1. CASE na < la
    <3>1. n = na /\ na + 1 \in 1 .. la
      BY <1>1, <1>8, <2>1
    <3> HIDE DEF n
    <3> QED
      BY <1>1, <1>2, <2>1, <3>1
  <2>2. CASE na = la
    <3>1. nb < lb /\ nb + 1 \in 1 .. lb /\ n + 1 = la + (nb + 1)
      BY <1>1, <2>2
    <3>2. q[la + (nb + 1)] = b[nb + 1] /\ End(b[nb + 1]) > ackno
      BY <1>1, <1>3, <3>1
    <3> HIDE DEF n
    <3> QED
      BY <3>1, <3>2
  <2> QED
    BY <1>1, <2>1, <2>2
<1> HIDE DEF n
<1>12. DropAcked(a, ackno) \o DropAcked(b, ackno) = SubSeq(q, n + 1, Len(q))
  BY <1>2, <1>3, <1>9 DEF da, db, dq, la, lb
<1> QED
  BY <1>6, <1>10, <1>11, <1>12 DEF q

\* The rest of a queue is a queue.
LEMMA SuffixLinked ==
    ASSUME NEW q, Linked(q), NEW n \in 0 .. Len(q)
    PROVE  Linked(SubSeq(q, n + 1, Len(q)))
<1> DEFINE p == SubSeq(q, n + 1, Len(q))
<1>0. q \in Seq(Segment)
  BY DEF Linked
<1>1. p \in Seq(Segment) /\ Len(p) = Len(q) - n /\ \A i \in 1 .. Len(p) : p[i] = q[n + i]
  BY <1>0, Cut
<1> HIDE DEF p
<1>2. Len(q) \in Nat /\ n \in Nat /\ Len(p) = Len(q) - n
  BY <1>0, <1>1
<1>3. ASSUME NEW i \in 1 .. Len(p)
      PROVE  /\ Right(p[i]) /\ Len(p[i].data) <= TCP_MSS
             /\ p[i].seqno < End(p[i])
             /\ p[i].fin => i = Len(p)
  <2>1. n + i \in 1 .. Len(q) /\ (n + i = Len(q) <=> i = Len(p))
    BY <1>1, <1>2
  <2> QED
    BY <1>1, <2>1 DEF Linked
<1>4. ASSUME NEW i \in 1 .. Len(p), NEW j \in 1 .. Len(p), i < j
      PROVE  End(p[i]) <= p[j].seqno
  <2>1. n + i \in 1 .. Len(q) /\ n + j \in 1 .. Len(q) /\ n + i < n + j
    BY <1>1, <1>2, <1>4
  <2> QED
    BY <1>1, <2>1 DEF Linked
<1>5. ASSUME NEW i \in 1 .. Len(p) - 1
      PROVE  End(p[i]) = p[i + 1].seqno
  <2>1. /\ n + i \in 1 .. Len(q) - 1 /\ n + (i + 1) = (n + i) + 1
        /\ i \in 1 .. Len(p) /\ i + 1 \in 1 .. Len(p)
    BY <1>2
  <2>2. End(q[n + i]) = q[(n + i) + 1].seqno
    BY <2>1 DEF Linked
  <2> QED
    BY <1>1, <2>1, <2>2
<1>6. Linked(p)
  BY <1>1, <1>3, <1>4, <1>5 DEF Linked
<1> QED
  BY <1>6 DEF p

\* An ACK, and a new state of the same kind: the queue still ends where it did.
LEMMA AckStream ==
    ASSUME NEW c, NEW d, NEW other, NEW hn \in Nat, Fields(c), Stream(c, Queue(c), other, hn),
           NEW ackno \in c.lastack .. hn, ackno <= c.snd_nxt,
           d.lastack = ackno, d.snd_nxt = c.snd_nxt, d.snd_lbb = c.snd_lbb,
           d.unacked = DropAcked(c.unacked, ackno), d.unsent = DropAcked(c.unsent, ackno),
           c.state \in Closing => d.state \in Closing,
           d.state \in Sending => c.state \in Sending
    PROVE  /\ Stream(d, Queue(d), other, hn)
           /\ d.unacked \in Seq(Segment) /\ d.unsent \in Seq(Segment)
<1> DEFINE q == Queue(c)
           p == Queue(d)
<1>1. /\ c.unacked \in Seq(Segment) /\ c.unsent \in Seq(Segment) /\ Linked(q)
      /\ ackno \in Nat /\ c.lastack \in 0 .. PageLen + 1 /\ c.lastack <= ackno /\ ackno <= hn
      /\ c.snd_nxt \in Nat /\ c.snd_lbb \in Nat /\ ackno \in Int
  <2>1. /\ c.unacked \in Seq(Segment) /\ c.unsent \in Seq(Segment)
        /\ c.lastack \in 0 .. PageLen + 1 /\ c.snd_nxt \in 0 .. PageLen + 1
        /\ c.snd_lbb \in 0 .. PageLen + 1
    BY DEF Fields
  <2>2. Linked(q)
    BY DEF Stream
  <2>3. PageLen \in Nat
    BY Sizes
  <2> HIDE DEF q
  <2>4. c.lastack \in Nat /\ c.snd_nxt \in Nat /\ c.snd_lbb \in Nat
    BY <2>1, <2>3
  <2>5. ackno \in Nat /\ c.lastack <= ackno /\ ackno <= hn /\ ackno \in Int
    BY <2>4
  <2> QED
    BY <2>1, <2>2, <2>4, <2>5
<1>2. d.unacked \in Seq(Segment) /\ d.unsent \in Seq(Segment)
  <2>1. ASSUME NEW u \in Seq(Segment) PROVE DropAcked(u, ackno) \in Seq(Segment)
    <3>1. PICK n \in 0 .. Len(u) : DropAcked(u, ackno) = SubSeq(u, n + 1, Len(u))
      BY <1>1, DropFacts
    <3> QED
      BY <3>1, Cut
  <2> QED
    BY <1>1, <2>1
<1>3. PICK n \in 0 .. Len(q) : /\ p = SubSeq(q, n + 1, Len(q))
                               /\ \A i \in 1 .. n : End(q[i]) <= ackno
                               /\ n < Len(q) => End(q[n + 1]) > ackno
  BY <1>1, DropQueue DEF Queue
<1> HIDE DEF q, p
<1>4. Linked(p)
  BY <1>1, <1>3, SuffixLinked
<1>5. /\ q \in Seq(Segment) /\ Len(q) \in Nat /\ n \in Nat /\ Len(p) = Len(q) - n
      /\ p \in Seq(Segment)
      /\ \A i \in 1 .. Len(p) : p[i] = q[n + i]
  BY <1>1, <1>3, Cut DEF Linked
<1>6. \A i \in 1 .. Len(q) : End(q[i]) \in Nat /\ q[i].seqno \in Nat
  BY <1>1, QueueFacts
<1>7. Top(p, d.lastack) = Top(q, c.lastack)
  <2>1. CASE n < Len(q)
    <3>1. Len(p) \in 1 .. Len(p) /\ n + Len(p) = Len(q) /\ p # <<>> /\ q # <<>>
      BY <1>5, <2>1
    <3>2. p[Len(p)] = q[Len(q)]
      BY <1>5, <3>1
    <3> QED
      BY <3>1, <3>2 DEF Top
  <2>2. CASE n = Len(q)
    <3>1. p = <<>> /\ Top(p, d.lastack) = ackno
      BY <1>5, <2>2 DEF Top
    <3>2. CASE q = <<>>
      <4>1. Top(q, c.lastack) = c.lastack /\ c.snd_nxt <= c.lastack
        BY <3>2 DEF Stream, Top, q
      <4> QED
        BY <1>1, <3>1, <4>1
    <3>3. CASE q # <<>>
      <4>1. Len(q) \in 1 .. n /\ Len(q) \in 1 .. Len(q)
        BY <1>5, <2>2, <3>3
      <4>2. End(q[Len(q)]) <= ackno /\ End(q[Len(q)]) \in Nat
        BY <1>3, <1>6, <4>1
      <4>3. Top(q, c.lastack) = End(q[Len(q)])
        BY <3>3 DEF Top
      <4>4. c.snd_nxt <= Top(q, c.lastack)
        BY DEF Stream, q
      <4> QED
        BY <1>1, <3>1, <4>2, <4>3, <4>4
    <3> QED
      BY <3>2, <3>3
  <2> QED
    BY <1>5, <2>1, <2>2
<1>8. p # <<>> => p[1].seqno <= ackno /\ ackno < End(p[1])
  <2> SUFFICES ASSUME p # <<>> PROVE p[1].seqno <= ackno /\ ackno < End(p[1])
    OBVIOUS
  <2>1. 1 \in 1 .. Len(p) /\ n < Len(q) /\ n + 1 \in 1 .. Len(q)
    BY <1>5
  <2>2. p[1] = q[n + 1] /\ End(q[n + 1]) > ackno
    BY <1>3, <1>5, <2>1
  <2>3. q[n + 1].seqno <= ackno
    <3>1. CASE n = 0
      <4>1. q # <<>> /\ q[n + 1].seqno <= c.lastack
        BY <1>5, <2>1, <3>1 DEF Stream, q
      <4> QED
        BY <1>1, <1>6, <2>1, <4>1
    <3>2. CASE n # 0
      <4>1. n \in 1 .. n /\ n \in 1 .. Len(q) - 1
        BY <1>5, <2>1, <3>2
      <4>2. End(q[n]) = q[n + 1].seqno /\ End(q[n]) <= ackno
        BY <1>1, <1>3, <4>1 DEF Linked
      <4> QED
        BY <4>2
    <3> QED
      BY <3>1, <3>2
  <2> QED
    BY <1>1, <1>6, <2>1, <2>2, <2>3
<1>9. ASSUME NEW i \in 1 .. Len(p), p[i].fin
      PROVE  d.state \in Closing /\ Behind(p[i], other)
  <2>1. n + i \in 1 .. Len(q) /\ p[i] = q[n + i]
    BY <1>5
  <2> QED
    BY <1>9, <2>1 DEF Stream, q
<1>10. /\ d.lastack <= hn /\ d.lastack <= d.snd_nxt /\ d.snd_nxt <= Top(p, d.lastack)
       /\ d.snd_lbb <= Top(p, d.lastack)
  BY <1>1, <1>7 DEF Stream, q
<1>11. d.state \in Sending => /\ d.snd_lbb = Top(p, d.lastack) /\ d.snd_lbb <= PageLen
                              /\ d.snd_lbb - d.lastack <= TCP_SND_BUF
  <2> SUFFICES ASSUME d.state \in Sending
               PROVE  /\ d.snd_lbb = Top(p, d.lastack) /\ d.snd_lbb <= PageLen
                      /\ d.snd_lbb - d.lastack <= TCP_SND_BUF
    OBVIOUS
  <2>1. /\ c.snd_lbb = Top(q, c.lastack) /\ c.snd_lbb <= PageLen
        /\ c.snd_lbb - c.lastack <= TCP_SND_BUF
    BY DEF Stream, q
  <2> QED
    BY <1>1, <1>7, <2>1, Sizes, SMTT(40)
<1>12. Stream(d, p, other, hn)
  BY <1>4, <1>8, <1>9, <1>10, <1>11 DEF Stream
<1> QED
  BY <1>2, <1>12 DEF p

\* The pcb after a new ACK.
AckPcb(c, ackno, u, v) ==
    [c EXCEPT !.infr = FALSE, !.nrtx = 0, !.lastack = ackno,
              !.polltmr = 0, !.unacked = u, !.unsent = v]

LEMMA AckPcbIs ==
    ASSUME NEW c, IsPcb(c), NEW ackno \in Int, NEW u, NEW v
    PROVE  LET e == AckPcb(c, ackno, u, v)
           IN  /\ IsPcb(e) /\ e.lastack = ackno /\ e.snd_nxt = c.snd_nxt
               /\ e.snd_lbb = c.snd_lbb /\ e.arg = c.arg /\ e.cb = c.cb
               /\ e.state = c.state /\ e.nrtx = 0 /\ e.infr \in BOOLEAN /\ e.polltmr = 0
               /\ e.age = c.age /\ e.unacked = u /\ e.unsent = v
  BY DEF IsPcb, PcbFields, AckPcb

\* TakeAck, but for the third of some duplicate ACKs.
LEMMA TakeAckIs ==
    ASSUME NEW c, IsPcb(c), Fields(c), NEW ackno \in Int, c.lastack <= ackno,
           NEW third, ~third
    PROVE  LET d == TakeAck(c, ackno, third)
           IN  /\ IsPcb(d) /\ d.snd_nxt = c.snd_nxt
               /\ d.snd_lbb = c.snd_lbb /\ d.arg = c.arg /\ d.cb = c.cb /\ d.state = c.state
               /\ d.nrtx \in 0 .. U8 - 1 /\ d.infr \in BOOLEAN
               /\ d.polltmr \in 0 .. HTTPD_POLL_INTERVAL /\ d.age = c.age
               /\ \/ /\ ackno > c.lastack /\ ackno <= c.snd_nxt /\ d.lastack = ackno
                     /\ d.unacked = DropAcked(c.unacked, ackno)
                     /\ d.unsent = DropAcked(c.unsent, ackno)
                  \/ /\ d.lastack = c.lastack
                     /\ d.unacked = c.unacked /\ d.unsent = c.unsent
<1> DEFINE d == TakeAck(c, ackno, third)
<1>1. c.lastack \in Int /\ 0 \in 0 .. U8 - 1 /\ 0 \in 0 .. HTTPD_POLL_INTERVAL
  <2>1. U8 \in Nat \ {0} /\ HTTPD_POLL_INTERVAL \in Nat
    BY Sizes
  <2>2. c.lastack \in Int
    BY DEF IsPcb
  <2> QED
    BY <2>1, <2>2
<1>2. CASE ackno > c.lastack /\ ackno <= c.snd_nxt
  <2> DEFINE a == DropAcked(c.unacked, ackno)
             b == DropAcked(c.unsent, ackno)
  <2>2. d = AckPcb(c, ackno, a, b)
    BY <1>2 DEF TakeAck, AckPcb
  <2> HIDE DEF d, a, b
  <2>3. /\ IsPcb(d) /\ d.lastack = ackno /\ d.snd_nxt = c.snd_nxt
        /\ d.snd_lbb = c.snd_lbb /\ d.arg = c.arg /\ d.cb = c.cb
        /\ d.state = c.state /\ d.nrtx = 0 /\ d.infr \in BOOLEAN /\ d.polltmr = 0
        /\ d.age = c.age /\ d.unacked = a /\ d.unsent = b
    BY <2>2, AckPcbIs
  <2> QED
    BY <1>1, <1>2, <2>3 DEF d, a, b
<1>3. CASE ~(ackno > c.lastack /\ ackno <= c.snd_nxt)
  <2>1. d = c
    BY <1>3 DEF TakeAck
  <2> HIDE DEF d
  <2>2. d.nrtx \in 0 .. U8 - 1 /\ d.infr \in BOOLEAN /\ d.polltmr \in 0 .. HTTPD_POLL_INTERVAL
    BY <2>1 DEF Fields
  <2> QED
    BY <2>1, <2>2 DEF d
<1> QED
  BY <1>2, <1>3

(***************************************************************************)
(* tcp_write and tcp_send_fin: the queue grows at its end.                 *)
(***************************************************************************)

\* The number of segments for n bytes.
LEMMA SegmentsCount ==
    ASSUME NEW n \in Nat, NEW M \in Nat, M > 0
    PROVE  LET m == (n + M - 1) \div M
           IN  m \in Nat /\ m * M >= n /\ (m - 1) * M < n
<1> DEFINE x == n + M - 1
           m == x \div M
<1>1. x \in Nat
  OBVIOUS
<1> HIDE DEF x
<1>2. m \in Nat /\ x = M * m + (x % M) /\ x % M \in 0 .. M - 1
  BY <1>1
<1> DEFINE r == x % M
<1> HIDE DEF m, r
<1>3. M * m = m * M /\ m * M \in Int /\ (m - 1) * M = m * M - M
  BY <1>2
<1>4. m * M = n + M - 1 - r /\ r \in 0 .. M - 1
  BY <1>2, <1>3 DEF x, r
<1> QED
  BY <1>2, <1>3, <1>4 DEF m, x

LEMMA Times ==
    ASSUME NEW i \in Nat, NEW j \in Nat, NEW M \in Nat, i <= j
    PROVE  i * M <= j * M /\ i * M \in Nat /\ j * M \in Nat
  OBVIOUS

\* Another last segment.
LEMMA LastIs ==
    ASSUME NEW u \in Seq(Segment), u # <<>>, NEW seg \in Segment
    PROVE  LET v == Append(Front(u), seg)
           IN  /\ v \in Seq(Segment) /\ Len(v) = Len(u) /\ v[Len(u)] = seg
               /\ \A i \in 1 .. Len(u) - 1 : v[i] = u[i]
<1> DEFINE n == Len(u) - 1
           w == SubSeq(u, 1, n)
           v == Append(w, seg)
<1>1. n \in 0 .. Len(u) /\ Len(u) \in Nat /\ n + 1 = Len(u) /\ n \in Nat
  OBVIOUS
<1> HIDE DEF n
<1>2. w \in Seq(Segment) /\ Len(w) = n /\ \A i \in 1 .. n : w[i] = u[i]
  BY <1>1, Cut
<1>3. Front(u) = w
  BY DEF Front, n
<1> HIDE DEF w
<1>4. /\ v \in Seq(Segment) /\ Len(v) = n + 1 /\ v[n + 1] = seg
      /\ \A i \in 1 .. n : v[i] = w[i]
  BY <1>1, <1>2, AppendProperties
<1> HIDE DEF v
<1>5. \A i \in 1 .. n : v[i] = u[i]
  BY <1>2, <1>4
<1> QED
  BY <1>1, <1>3, <1>4, <1>5 DEF v, n

LEMMA LastOfTwo ==
    ASSUME NEW a \in Seq(Segment), NEW u \in Seq(Segment), u # <<>>, NEW seg \in Segment
    PROVE  a \o Append(Front(u), seg) = Append(Front(a \o u), seg)
<1> DEFINE q == a \o u
           v == Append(Front(u), seg)
           w == Append(Front(q), seg)
           la == Len(a)
           lu == Len(u)
<1>1. /\ q \in Seq(Segment) /\ Len(q) = la + lu
      /\ \A i \in 1 .. la : q[i] = a[i]
      /\ \A i \in 1 .. lu : q[la + i] = u[i]
  BY Cat, Zenon
<1>2. la \in Nat /\ lu \in Nat \ {0}
  OBVIOUS
<1>3. /\ v \in Seq(Segment) /\ Len(v) = lu /\ v[lu] = seg
      /\ \A i \in 1 .. lu - 1 : v[i] = u[i]
  BY LastIs
<1> HIDE DEF q, v, la, lu
<1>4. q # <<>>
  BY <1>1, <1>2
<1>5. /\ w \in Seq(Segment) /\ Len(w) = Len(q) /\ w[Len(q)] = seg
      /\ \A i \in 1 .. Len(q) - 1 : w[i] = q[i]
  BY <1>1, <1>4, LastIs
<1> HIDE DEF w
<1>6. Len(w) = Len(a) + Len(v)
  BY <1>1, <1>3, <1>5 DEF la
<1>7. ASSUME NEW i \in 1 .. Len(a) PROVE a[i] = w[i]
  <2>1. i \in 1 .. la /\ i \in 1 .. Len(q) - 1
    BY <1>1, <1>2 DEF la
  <2> QED
    BY <1>1, <1>5, <2>1
<1>8. ASSUME NEW i \in 1 .. Len(v) PROVE v[i] = w[Len(a) + i]
  <2>1. CASE i = lu
    BY <1>1, <1>3, <1>5, <2>1 DEF la
  <2>2. CASE i # lu
    <3>1. i \in 1 .. lu /\ i \in 1 .. lu - 1 /\ la + i \in 1 .. Len(q) - 1
      BY <1>1, <1>2, <1>3, <2>2
    <3> QED
      BY <1>1, <1>3, <1>5, <3>1 DEF la
  <2> QED
    BY <2>1, <2>2
<1>9. a \o v = w
  BY <1>3, <1>5, <1>6, <1>7, <1>8, CatIs
<1> QED
  BY <1>9 DEF v, w, q

LEMMA LastLinked ==
    ASSUME NEW q, Linked(q), q # <<>>, NEW seg, Right(seg), Len(seg.data) <= TCP_MSS,
           seg.seqno = q[Len(q)].seqno, seg.seqno < End(seg)
    PROVE  Linked(Append(Front(q), seg))
<1> DEFINE p == Append(Front(q), seg)
           n == Len(q)
<1>1. q \in Seq(Segment) /\ seg \in Segment /\ n \in Nat \ {0}
  BY DEF Linked, Right
<1>2. p \in Seq(Segment) /\ Len(p) = n /\ p[n] = seg /\ \A i \in 1 .. n - 1 : p[i] = q[i]
  BY <1>1, LastIs
<1> HIDE DEF p, n
<1>3. ASSUME NEW i \in 1 .. n
      PROVE  /\ Right(p[i]) /\ Len(p[i].data) <= TCP_MSS
             /\ p[i].seqno < End(p[i]) /\ p[i].seqno = q[i].seqno
             /\ p[i].fin => i = n
             /\ i < n => p[i] = q[i]
  <2>1. CASE i = n
    BY <1>1, <1>2, <2>1 DEF n
  <2>2. CASE i # n
    <3>1. i \in 1 .. n - 1
      BY <1>1, <2>2
    <3>2. p[i] = q[i]
      BY <1>2, <3>1
    <3> QED
      BY <3>2 DEF Linked, n
  <2> QED
    BY <2>1, <2>2
<1>4. ASSUME NEW i \in 1 .. n, NEW j \in 1 .. n, i < j
      PROVE  End(p[i]) <= p[j].seqno
  <2>1. p[i] = q[i] /\ p[j].seqno = q[j].seqno
    BY <1>1, <1>3, <1>4
  <2>2. End(q[i]) <= q[j].seqno
    BY <1>4 DEF Linked, n
  <2> QED
    BY <2>1, <2>2
<1>5. ASSUME NEW i \in 1 .. n - 1
      PROVE  End(p[i]) = p[i + 1].seqno
  <2>1. i \in 1 .. n /\ i + 1 \in 1 .. n /\ i < n
    BY <1>1
  <2>2. p[i] = q[i] /\ p[i + 1].seqno = q[i + 1].seqno
    BY <1>3, <2>1
  <2>3. End(q[i]) = q[i + 1].seqno
    BY DEF Linked, n
  <2> QED
    BY <2>2, <2>3
<1>6. Linked(p)
  BY <1>2, <1>3, <1>4, <1>5 DEF Linked
<1> QED
  BY <1>6 DEF p

\* One queue behind another.
LEMMA CatLinked ==
    ASSUME NEW a, Linked(a), NEW b, Linked(b), \A i \in 1 .. Len(a) : ~a[i].fin,
           a # <<>> /\ b # <<>> => End(a[Len(a)]) = b[1].seqno
    PROVE  Linked(a \o b)
<1> DEFINE q == a \o b
           la == Len(a)
           lb == Len(b)
<1>1. a \in Seq(Segment) /\ b \in Seq(Segment) /\ la \in Nat /\ lb \in Nat
  BY DEF Linked
<1>2. /\ q \in Seq(Segment) /\ Len(q) = la + lb
      /\ \A i \in 1 .. la : q[i] = a[i]
      /\ \A i \in 1 .. lb : q[la + i] = b[i]
  BY <1>1, Cat, Zenon
<1>3. /\ \A i \in 1 .. la : a[i].seqno \in Nat /\ End(a[i]) \in Nat
      /\ \A i \in 1 .. la : End(a[i]) <= End(a[la])
      /\ \A i \in 1 .. lb : b[i].seqno \in Nat /\ End(b[i]) \in Nat
      /\ \A i, j \in 1 .. lb : i < j => b[i].seqno < b[j].seqno
  BY QueueFacts
<1> HIDE DEF q
<1>4. ASSUME NEW i \in 1 .. la + lb
      PROVE  \/ i \in 1 .. la /\ q[i] = a[i]
             \/ i - la \in 1 .. lb /\ q[i] = b[i - la] /\ i = la + (i - la) /\ ~(i \in 1 .. la)
  <2>1. CASE i <= la
    <3>1. i \in 1 .. la
      BY <1>1, <2>1
    <3> QED
      BY <1>2, <3>1
  <2>2. CASE i > la
    <3> DEFINE k == i - la
    <3>1. k \in 1 .. lb /\ i = la + k /\ ~(i \in 1 .. la)
      BY <1>1, <2>2
    <3> HIDE DEF k
    <3>2. q[la + k] = b[k]
      BY <1>2, <3>1
    <3>3. k \in 1 .. lb /\ q[i] = b[k] /\ i = la + k /\ ~(i \in 1 .. la)
      BY <3>1, <3>2
    <3> QED
      BY <3>3 DEF k
  <2> QED
    BY <1>1, <2>1, <2>2
<1>5. ASSUME NEW i \in 1 .. la + lb
      PROVE  /\ Right(q[i]) /\ Len(q[i].data) <= TCP_MSS
             /\ q[i].seqno < End(q[i])
             /\ q[i].fin => i = la + lb
  <2>1. CASE i \in 1 .. la /\ q[i] = a[i]
    BY <2>1 DEF Linked
  <2>2. CASE i - la \in 1 .. lb /\ q[i] = b[i - la] /\ i = la + (i - la)
    <3> DEFINE k == i - la
    <3>1. k \in 1 .. lb /\ q[i] = b[k] /\ i = la + k
      BY <2>2
    <3> HIDE DEF k
    <3> QED
      BY <3>1 DEF Linked
  <2> QED
    BY <1>4, <2>1, <2>2
\* Across the seam.
<1>6. ASSUME NEW i \in 1 .. la, NEW k \in 1 .. lb
      PROVE  End(a[i]) <= b[k].seqno
  <2>1. la \in 1 .. la /\ 1 \in 1 .. lb /\ a # <<>> /\ b # <<>>
    BY <1>1
  <2>2. End(a[i]) <= End(a[la]) /\ End(a[la]) = b[1].seqno
    BY <1>3, <2>1
  <2>3. b[1].seqno <= b[k].seqno
    <3>1. CASE k = 1
      BY <1>3, <2>1, <3>1
    <3>2. CASE k # 1
      <4>1. 1 < k /\ 1 \in 1 .. lb
        BY <1>1, <3>2
      <4>2. b[1].seqno < b[k].seqno /\ b[1].seqno \in Nat /\ b[k].seqno \in Nat
        BY <1>3, <4>1
      <4> QED
        BY <4>2
    <3> QED
      BY <3>1, <3>2
  <2>4. End(a[i]) \in Nat /\ End(a[la]) \in Nat /\ b[1].seqno \in Nat /\ b[k].seqno \in Nat
    BY <1>3, <2>1
  <2> QED
    BY <2>2, <2>3, <2>4
<1>7. ASSUME NEW i \in 1 .. la + lb, NEW j \in 1 .. la + lb, i < j
      PROVE  End(q[i]) <= q[j].seqno
  <2> DEFINE k == i - la
             m == j - la
  <2>1. CASE i \in 1 .. la /\ j \in 1 .. la
    BY <1>2, <1>7, <2>1 DEF Linked
  <2>2. CASE i \in 1 .. la /\ ~(j \in 1 .. la)
    <3>1. m \in 1 .. lb /\ q[j] = b[m] /\ q[i] = a[i]
      BY <1>2, <1>4, <2>2
    <3> QED
      BY <1>6, <2>2, <3>1
  <2>3. CASE ~(i \in 1 .. la) /\ ~(j \in 1 .. la)
    <3>1. k \in 1 .. lb /\ q[i] = b[k] /\ m \in 1 .. lb /\ q[j] = b[m] /\ k < m
      BY <1>1, <1>4, <1>7, <2>3
    <3> HIDE DEF k, m
    <3> QED
      BY <3>1 DEF Linked
  <2>4. ~(i \in 1 .. la) => ~(j \in 1 .. la)
    BY <1>1, <1>7
  <2> QED
    BY <2>1, <2>2, <2>3, <2>4
<1>8. ASSUME NEW i \in 1 .. (la + lb) - 1
      PROVE  End(q[i]) = q[i + 1].seqno
  <2>1. i \in 1 .. la + lb /\ i + 1 \in 1 .. la + lb
    BY <1>1
  <2>2. CASE i \in 1 .. la - 1
    <3>1. i \in 1 .. la /\ i + 1 \in 1 .. la
      BY <1>1, <2>2
    <3> QED
      BY <1>2, <2>2, <3>1 DEF Linked
  <2>3. CASE i = la
    <3>1. la \in 1 .. la /\ 1 \in 1 .. lb /\ a # <<>> /\ b # <<>>
      BY <1>1, <2>3
    <3> QED
      BY <1>2, <2>3, <3>1
  <2>4. CASE ~(i \in 1 .. la)
    <3> DEFINE k == i - la
    <3>1. k \in 1 .. lb - 1 /\ k + 1 \in 1 .. lb /\ i = la + k /\ i + 1 = la + (k + 1)
          /\ k \in 1 .. lb
      BY <1>1, <2>4
    <3> HIDE DEF k
    <3>2. q[i] = b[k] /\ q[i + 1] = b[k + 1]
      BY <1>2, <3>1
    <3> QED
      BY <3>1, <3>2 DEF Linked
  <2> QED
    BY <1>1, <2>2, <2>3, <2>4
<1>9. Linked(q)
  BY <1>2, <1>5, <1>7, <1>8 DEF Linked
<1> QED
  BY <1>9 DEF q

\* The new segments of tcp_write.
LEMMA SegmentsLinked ==
    ASSUME NEW x \in Nat, NEW n \in Nat, x + n <= PageLen
    PROVE  LET segs == Segments(x, x, n)
           IN  /\ Linked(segs) /\ \A i \in 1 .. Len(segs) : ~segs[i].fin
               /\ n = 0 => segs = <<>>
               /\ n > 0 => segs # <<>> /\ segs[1].seqno = x /\ End(segs[Len(segs)]) = x + n
<1> DEFINE M == TCP_MSS
           m == (n + M - 1) \div M
           From(i) == (i - 1) * M
           Size(i) == AtMost(M, n - From(i))
           data(i) == [k \in 1 .. Size(i) |-> x + From(i) + k - 1]
           Seg(i) == [seqno |-> x + From(i), fin |-> FALSE, data |-> data(i)]
           segs == Segments(x, x, n)
<1>1. M \in Nat /\ M > 0 /\ PageLen \in Nat
  BY Sizes
<1>2. m \in Nat /\ m * M >= n /\ (m - 1) * M < n
  BY <1>1, SegmentsCount
<1> HIDE DEF m
<1>3. segs = [i \in 1 .. m |-> Seg(i)]
  BY DEF Segments, m
<1> HIDE DEF Seg, segs
<1>4. ASSUME NEW i \in 1 .. m
      PROVE  /\ From(i) \in Nat /\ From(i) < n
             /\ Size(i) \in 1 .. M
             /\ i < m => Size(i) = M /\ From(i) + M = From(i + 1)
             /\ i = m => From(i) + Size(i) = n
             /\ From(i) + Size(i) <= n
  <2>1. i - 1 \in Nat /\ m - 1 \in Nat /\ i - 1 <= m - 1
    BY <1>2
  <2>2. From(i) <= (m - 1) * M /\ From(i) \in Nat /\ (m - 1) * M \in Nat
    BY <1>1, <2>1, Times
  <2>3. From(i) < n /\ From(i) \in Nat
    BY <1>2, <2>2
  <2>4. From(i) + M = From(i + 1)
    BY <1>1
  <2>5. i < m => From(i) + M <= (m - 1) * M
    <3> SUFFICES ASSUME i < m PROVE From(i) + M <= (m - 1) * M
      OBVIOUS
    <3>1. i \in Nat /\ i <= m - 1 /\ From(i) + M = i * M
      BY <1>1, <1>2
    <3> HIDE DEF From
    <3>2. i * M <= (m - 1) * M
      BY <1>1, <2>1, <3>1, Times
    <3> QED
      BY <3>1, <3>2
  <2>6. i = m => From(i) + M >= n
    <3> SUFFICES ASSUME i = m PROVE From(i) + M >= n
      OBVIOUS
    <3>1. From(i) + M = m * M
      BY <1>1, <1>2
    <3> HIDE DEF From
    <3> QED
      BY <1>2, <3>1
  <2>7. Size(i) = IF M < n - From(i) THEN M ELSE n - From(i)
    BY DEF AtMost
  <2> DEFINE y == (m - 1) * M
  <2> HIDE DEF From, Size, y
  <2>8. y \in Nat /\ y < n /\ (i < m => From(i) + M <= y)
    BY <1>2, <2>2, <2>5 DEF y
  <2> QED
    BY <1>1, <2>3, <2>4, <2>6, <2>7, <2>8
<1> HIDE DEF From, Size, M
<1>5. ASSUME NEW i \in 1 .. m
      PROVE  /\ data(i) \in Seq(0 .. PageLen - 1) /\ Len(data(i)) = Size(i)
             /\ \A k \in 1 .. Size(i) : data(i)[k] = x + From(i) + k - 1
  <2>1. Size(i) \in Nat /\ From(i) \in Nat /\ From(i) + Size(i) <= n
    BY <1>1, <1>4
  <2>2. \A k \in 1 .. Size(i) : x + From(i) + k - 1 \in 0 .. PageLen - 1
    BY <1>1, <2>1
  <2>3. data(i) \in [1 .. Size(i) -> 0 .. PageLen - 1]
    BY <2>2
  <2>4. data(i) \in Seq(0 .. PageLen - 1)
    <3> HIDE DEF data
    <3> QED
      BY <2>1, <2>3, SeqDef
  <2>5. Len(data(i)) = Size(i)
    <3>1. DOMAIN data(i) = 1 .. Size(i)
      OBVIOUS
    <3> HIDE DEF data
    <3> QED
      BY <2>1, <2>4, <3>1, LenProperties
  <2> QED
    BY <2>4, <2>5
<1> HIDE DEF data
<1>6. ASSUME NEW i \in 1 .. m
      PROVE  /\ Seg(i) \in Segment /\ Seg(i).seqno = x + From(i) /\ ~Seg(i).fin
             /\ Seg(i).data = data(i)
             /\ End(Seg(i)) = x + From(i) + Size(i)
             /\ Right(Seg(i))
  <2>1. Seg(i).seqno = x + From(i) /\ ~Seg(i).fin /\ Seg(i).fin \in BOOLEAN /\ Seg(i).data = data(i)
    BY DEF Seg
  <2>2. x + From(i) \in 0 .. PageLen /\ From(i) \in Nat /\ Size(i) \in Nat
        /\ x + From(i) + Size(i) <= PageLen
    BY <1>1, <1>4
  <2>3. Seg(i) \in Segment
    BY <1>5, <2>2 DEF Seg, Segment
  <2>4. End(Seg(i)) = x + From(i) + Size(i)
    <3>1. End(Seg(i)) = Seg(i).seqno + (Len(Seg(i).data) + 0)
      BY <2>1 DEF End, TCP_TCPLEN
    <3>2. Len(Seg(i).data) = Size(i)
      BY <1>5, <2>1
    <3> QED
      BY <2>1, <2>2, <3>1, <3>2
  <2>5. Right(Seg(i))
    BY <1>5, <2>1, <2>2, <2>3 DEF Right
  <2> QED
    BY <2>1, <2>3, <2>4, <2>5
<1>7. segs \in Seq(Segment) /\ Len(segs) = m /\ \A i \in 1 .. m : segs[i] = Seg(i)
  <2>1. segs \in [1 .. m -> Segment]
    BY <1>3, <1>6
  <2>2. segs \in Seq(Segment)
    BY <1>2, <2>1, SeqDef
  <2>3. Len(segs) = m
    <3>1. DOMAIN segs = 1 .. m
      BY <1>3
    <3> QED
      BY <1>2, <2>2, <3>1, LenProperties
  <2> QED
    BY <1>3, <2>2, <2>3
<1>8. ASSUME NEW i \in 1 .. m
      PROVE  /\ Right(segs[i]) /\ Len(segs[i].data) <= TCP_MSS
             /\ segs[i].seqno < End(segs[i]) /\ ~segs[i].fin
  <2>1. From(i) \in Nat /\ Size(i) \in 1 .. TCP_MSS /\ TCP_MSS \in Nat
    BY <1>1, <1>4 DEF M
  <2>2. segs[i] = Seg(i) /\ Right(Seg(i)) /\ ~Seg(i).fin /\ Seg(i).data = data(i)
    BY <1>6, <1>7
  <2>3. Len(data(i)) = Size(i)
    BY <1>5
  <2>4. Seg(i).seqno = x + From(i) /\ End(Seg(i)) = x + From(i) + Size(i)
    BY <1>6
  <2>5. x + From(i) < x + From(i) + Size(i) /\ Size(i) <= TCP_MSS
    BY <2>1
  <2> QED
    BY <2>2, <2>3, <2>4, <2>5
<1>9. ASSUME NEW i \in 1 .. m - 1
      PROVE  End(segs[i]) = segs[i + 1].seqno
  <2>1. i \in 1 .. m /\ i + 1 \in 1 .. m /\ i < m
    BY <1>2
  <2>2. Size(i) = M /\ From(i) + M = From(i + 1) /\ From(i) \in Nat
    BY <1>4, <2>1
  <2>3. End(segs[i]) = x + From(i) + Size(i) /\ segs[i + 1].seqno = x + From(i + 1)
    BY <1>6, <1>7, <2>1
  <2> QED
    BY <1>1, <2>2, <2>3
<1>10. ASSUME NEW i \in 1 .. m, NEW j \in 1 .. m, i < j
       PROVE  End(segs[i]) <= segs[j].seqno
  <2>1. i + 1 \in 1 .. m /\ i < m
    BY <1>2, <1>10
  <2>2. Size(i) = M /\ From(i) + M = From(i + 1) /\ From(i) \in Nat /\ From(i + 1) \in Nat
        /\ From(j) \in Nat
    BY <1>4, <2>1
  <2>3. From(i + 1) <= From(j)
    <3>1. i + 1 - 1 \in Nat /\ j - 1 \in Nat /\ i + 1 - 1 <= j - 1
      BY <1>2, <1>10
    <3> QED
      BY <1>1, <3>1, Times DEF From
  <2>4. End(segs[i]) = x + From(i) + Size(i) /\ segs[j].seqno = x + From(j)
    BY <1>6, <1>7
  <2> QED
    BY <1>1, <2>2, <2>3, <2>4
<1>11. Linked(segs)
  BY <1>7, <1>8, <1>9, <1>10 DEF Linked
<1>12. n = 0 => segs = <<>>
  <2> SUFFICES ASSUME n = 0 PROVE segs = <<>>
    OBVIOUS
  <2>1. m = 0
    <3> SUFFICES ASSUME m # 0 PROVE FALSE
      OBVIOUS
    <3>1. 1 \in 1 .. m
      BY <1>2
    <3>2. From(1) \in Nat /\ From(1) < n
      BY <1>4, <3>1
    <3> QED
      BY <3>2
  <2> QED
    BY <1>7, <2>1
<1>13. ASSUME n > 0
       PROVE  segs # <<>> /\ segs[1].seqno = x /\ End(segs[Len(segs)]) = x + n
  <2>1. m # 0
    <3> SUFFICES ASSUME m = 0 PROVE FALSE
      OBVIOUS
    <3>1. m * M = 0
      BY <1>1
    <3> QED
      BY <1>2, <1>13, <3>1
  <2>2. 1 \in 1 .. m /\ m \in 1 .. m
    BY <1>2, <2>1
  <2>3. From(1) = 0
    BY <1>1 DEF From
  <2>4. segs[1].seqno = x + From(1) /\ End(segs[m]) = x + From(m) + Size(m)
    BY <1>6, <1>7, <2>2
  <2>5. From(m) + Size(m) = n /\ From(m) \in Nat /\ Size(m) \in Nat
    BY <1>1, <1>4, <2>2
  <2> QED
    BY <1>7, <2>1, <2>3, <2>4, <2>5
<1> QED
  BY <1>7, <1>8, <1>11, <1>12, <1>13 DEF segs

\* The last segment is filled up.
Filled(seg, x, n) == [seg EXCEPT !.data = @ \o [k \in 1 .. n |-> x + k - 1]]

LEMMA FilledSegment ==
    ASSUME NEW seg, Right(seg), ~seg.fin, NEW n \in Nat, NEW at, at = End(seg),
           at + n <= PageLen
    PROVE  LET e == Filled(seg, at, n)
           IN  /\ Right(e) /\ e.seqno = seg.seqno /\ ~e.fin
               /\ Len(e.data) = Len(seg.data) + n /\ End(e) = at + n
<1> DEFINE x == at
           l == Len(seg.data)
           more == [k \in 1 .. n |-> x + k - 1]
           data == seg.data \o more
           e == [seg EXCEPT !.data = data]
           D == 0 .. PageLen - 1
<1>1. /\ seg \in Segment /\ seg.seqno \in 0 .. PageLen /\ seg.data \in Seq(D)
      /\ l \in Nat /\ PageLen \in Nat
      /\ \A k \in 1 .. l : seg.data[k] = seg.seqno + k - 1
  BY SegFacts, Sizes DEF Right
<1>2. /\ x = seg.seqno + l /\ x \in Nat /\ x + n <= PageLen /\ seg.seqno \in Nat
      /\ l \in Nat /\ PageLen \in Nat
  <2>1. x = seg.seqno + (l + 0)
    BY DEF End, TCP_TCPLEN
  <2>2. l \in Nat /\ seg.seqno \in 0 .. PageLen /\ PageLen \in Nat /\ x + n <= PageLen
    BY <1>1
  <2> HIDE DEF l, x
  <2> QED
    BY <2>1, <2>2
<1> HIDE DEF x, D, l
<1>3. more \in Seq(D) /\ Len(more) = n /\ \A k \in 1 .. n : more[k] = x + k - 1
  <2>1. \A k \in 1 .. n : x + k - 1 \in D
    BY <1>2 DEF D
  <2>2. more \in [1 .. n -> D] /\ DOMAIN more = 1 .. n /\ \A k \in 1 .. n : more[k] = x + k - 1
    BY <2>1
  <2> HIDE DEF more
  <2>3. more \in Seq(D)
    BY <2>2, SeqDef
  <2> QED
    BY <2>2, <2>3, LenProperties
<1> HIDE DEF more
<1>4. /\ data \in Seq(D) /\ Len(data) = l + n
      /\ \A k \in 1 .. l + n : data[k] = IF k <= l THEN seg.data[k] ELSE more[k - l]
  <2>1. /\ seg.data \o more \in Seq(D) /\ Len(seg.data \o more) = Len(seg.data) + Len(more)
        /\ \A k \in 1 .. Len(seg.data) + Len(more) :
             (seg.data \o more)[k]
               = IF k <= Len(seg.data) THEN seg.data[k] ELSE more[k - Len(seg.data)]
    BY <1>1, <1>3, ConcatProperties, Zenon
  <2> QED
    BY <1>3, <2>1, Zenon DEF l
<1> HIDE DEF data
<1>5. e \in Segment /\ e.seqno = seg.seqno /\ e.fin = seg.fin /\ e.data = data
  BY <1>1, <1>4 DEF Segment, D
<1> HIDE DEF e
<1>6. \A k \in 1 .. l + n : data[k] = seg.seqno + k - 1
  <2>1. ASSUME NEW k \in 1 .. l + n PROVE data[k] = seg.seqno + k - 1
    <3>1. CASE k <= l
      <4>1. k \in 1 .. l
        BY <1>1, <3>1
      <4> QED
        BY <1>1, <1>4, <3>1, <4>1
    <3>2. CASE k > l
      <4>1. k - l \in 1 .. n
        BY <1>1, <3>2
      <4>2. data[k] = x + (k - l) - 1
        BY <1>1, <1>3, <1>4, <3>2, <4>1
      <4> QED
        BY <1>2, <4>2
    <3> QED
      BY <1>1, <3>1, <3>2
  <2> QED
    BY <2>1
<1>7. End(e) = x + n
  <2>1. End(e) = seg.seqno + ((l + n) + 0)
    BY <1>4, <1>5 DEF End, TCP_TCPLEN
  <2> QED
    BY <1>2, <2>1
<1>8. seg.seqno + (l + n) <= PageLen
  BY <1>2
<1>9. Right(e)
  BY <1>4, <1>5, <1>6, <1>8 DEF Right
<1> QED
  BY <1>4, <1>5, <1>7, <1>9 DEF e, data, more, x, l, Filled

\* The queue has grown at its end.
LEMMA Grown ==
    ASSUME NEW c, NEW d, NEW q, NEW p, NEW other, NEW hn \in Nat, Fields(c),
           Stream(c, q, other, hn), Linked(p),
           d.lastack = c.lastack, d.snd_nxt = c.snd_nxt,
           p = <<>> => q = <<>>,
           q # <<>> => p[1].seqno = q[1].seqno /\ End(q[1]) <= End(p[1]),
           q = <<>> /\ p # <<>> => p[1].seqno = c.lastack,
           \A i \in 1 .. Len(p) : p[i].fin => d.state \in Closing /\ Behind(p[i], other),
           Top(q, c.lastack) <= Top(p, c.lastack), d.snd_lbb <= Top(p, c.lastack),
           d.state \in Sending => /\ d.snd_lbb = Top(p, c.lastack) /\ d.snd_lbb <= PageLen
                                  /\ d.snd_lbb - c.lastack <= TCP_SND_BUF
    PROVE  Stream(d, p, other, hn)
<1>1. /\ c.lastack \in 0 .. PageLen + 1 /\ c.snd_nxt \in 0 .. PageLen + 1
      /\ PageLen \in Nat
  <2>1. c.lastack \in 0 .. PageLen + 1 /\ c.snd_nxt \in 0 .. PageLen + 1
    BY DEF Fields
  <2> QED
    BY <2>1, Sizes
<1>2. Linked(q)
  BY DEF Stream
<1>3. Top(q, c.lastack) \in 0 .. PageLen + 1 /\ Top(p, c.lastack) \in 0 .. PageLen + 1
  BY <1>1, <1>2, TopFacts
<1>4. p # <<>> => p[1].seqno <= d.lastack /\ d.lastack < End(p[1])
  <2> SUFFICES ASSUME p # <<>> PROVE p[1].seqno <= c.lastack /\ c.lastack < End(p[1])
    OBVIOUS
  <2>1. 1 \in 1 .. Len(p) /\ p[1].seqno \in Nat /\ End(p[1]) \in Nat
    <3>1. 1 \in 1 .. Len(p)
      BY DEF Linked
    <3> QED
      BY <3>1, QueueFacts
  <2>2. CASE q # <<>>
    <3>1. 1 \in 1 .. Len(q)
      BY <1>2, <2>2 DEF Linked
    <3>2. q[1].seqno <= c.lastack /\ c.lastack < End(q[1]) /\ End(q[1]) \in Nat
      BY <1>2, <2>2, <3>1, QueueFacts DEF Stream
    <3> QED
      BY <1>1, <2>1, <2>2, <3>2
  <2>3. CASE q = <<>>
    <3>1. p[1].seqno < End(p[1])
      BY <2>1 DEF Linked
    <3> QED
      BY <1>1, <2>1, <2>3, <3>1
  <2> QED
    BY <2>2, <2>3
<1>5. /\ d.lastack <= hn /\ d.lastack <= d.snd_nxt /\ d.snd_nxt <= Top(p, d.lastack)
  <2>1. c.lastack <= hn /\ c.lastack <= c.snd_nxt /\ c.snd_nxt <= Top(q, c.lastack)
    BY DEF Stream
  <2> QED
    BY <1>1, <1>3, <2>1
<1> QED
  BY <1>4, <1>5 DEF Stream

\* What the two of them change.
Unsent(c, u, v) == [c EXCEPT !.unsent = u, !.snd_lbb = v]

\* All the other fields of a pcb are as they were.
SameButUnsent(c, d) ==
    /\ d.unacked = c.unacked /\ d.lastack = c.lastack /\ d.snd_nxt = c.snd_nxt
    /\ d.state = c.state /\ d.nrtx = c.nrtx /\ d.infr = c.infr /\ d.snd_wnd = c.snd_wnd
    /\ d.unread = c.unread /\ d.arg = c.arg /\ d.cb = c.cb /\ d.rxclosed = c.rxclosed
    /\ d.polltmr = c.polltmr /\ d.age = c.age

LEMMA UnsentIs ==
    ASSUME NEW c, IsPcb(c), NEW u, NEW v
    PROVE  LET d == Unsent(c, u, v)
           IN  IsPcb(d) /\ SameButUnsent(c, d) /\ d.unsent = u /\ d.snd_lbb = v
  BY DEF IsPcb, PcbFields, Unsent, SameButUnsent

\* The end of the queue of a connection that is not closed.
LEMMA SendingFacts ==
    ASSUME NEW c, Fields(c), NEW other, NEW hn \in Nat, Stream(c, Queue(c), other, hn),
           c.state \in Sending
    PROVE  LET q == Queue(c)
           IN  /\ c.unacked \in Seq(Segment) /\ c.unsent \in Seq(Segment)
               /\ Linked(q) /\ \A i \in 1 .. Len(q) : ~q[i].fin
               /\ c.snd_lbb = Top(q, c.lastack) /\ c.snd_lbb \in Nat /\ c.lastack \in Nat
               /\ c.lastack <= c.snd_lbb
               /\ c.snd_lbb <= PageLen /\ c.snd_lbb - c.lastack <= TCP_SND_BUF
               /\ c.unsent # <<>> => /\ q # <<>> /\ Last(c.unsent) = q[Len(q)]
                                     /\ Len(q) \in 1 .. Len(q)
                                     /\ Last(c.unsent) \in Segment
<1> DEFINE q == Queue(c)
<1>1. /\ c.unacked \in Seq(Segment) /\ c.unsent \in Seq(Segment)
      /\ c.snd_lbb \in 0 .. PageLen + 1 /\ c.lastack \in 0 .. PageLen + 1
      /\ c.snd_nxt \in 0 .. PageLen + 1
  BY DEF Fields
<1>2. PageLen \in Nat
  BY Sizes
<1>3. /\ Linked(q) /\ c.snd_lbb = Top(q, c.lastack)
      /\ c.snd_lbb <= PageLen /\ c.snd_lbb - c.lastack <= TCP_SND_BUF
      /\ c.lastack <= c.snd_nxt /\ c.snd_nxt <= Top(q, c.lastack)
  BY DEF Stream
<1>4. \A i \in 1 .. Len(q) : ~q[i].fin
  BY DEF Stream, Sending, Closing
<1>5. c.snd_lbb \in Nat /\ c.lastack \in Nat /\ c.lastack <= c.snd_lbb
  <2> HIDE DEF q
  <2> QED
    BY <1>1, <1>2, <1>3
<1>6. ASSUME c.unsent # <<>>
      PROVE  /\ q # <<>> /\ Last(c.unsent) = q[Len(q)] /\ Len(q) \in 1 .. Len(q)
             /\ Last(c.unsent) \in Segment
  <2> DEFINE u == c.unsent
             a == c.unacked
  <2>1. /\ q \in Seq(Segment) /\ Len(q) = Len(a) + Len(u)
        /\ \A i \in 1 .. Len(u) : q[Len(a) + i] = u[i]
    BY <1>1, Cat, Zenon DEF Queue
  <2> HIDE DEF q
  <2>2. Len(u) \in 1 .. Len(u) /\ Len(a) \in Nat /\ Len(u) \in Nat
    BY <1>1, <1>6
  <2>3. q[Len(q)] = u[Len(u)] /\ Len(q) \in 1 .. Len(q) /\ q # <<>>
    <3> DEFINE l == Len(u)
               m == Len(a)
    <3>1. l \in 1 .. l /\ l \in Nat /\ m \in Nat /\ Len(q) = m + l /\ q[m + l] = u[l]
      BY <2>1, <2>2
    <3> HIDE DEF l, m, u, a
    <3>2. Len(q) \in 1 .. Len(q) /\ Len(q) # 0
      BY <3>1
    <3> QED
      BY <3>1, <3>2 DEF l
  <2>4. Last(u) = u[Len(u)] /\ u[Len(u)] \in Segment
    BY <1>1, <2>2 DEF Last
  <2> QED
    BY <2>3, <2>4
<1> QED
  BY <1>1, <1>3, <1>4, <1>5, <1>6

\* There is room for n bytes, and the page has as many.
Room(c, n) == n <= SndBuf(c) /\ c.snd_lbb + n <= PageLen

\* tcp_write keeps the queue whole.
LEMMA WriteStream ==
    ASSUME NEW c, IsPcb(c), Fields(c), NEW other, NEW hn \in Nat,
           Stream(c, Queue(c), other, hn), c.state \in Sending,
           NEW n \in Nat, Room(c, n)
    PROVE  LET d == tcp_write(c, c.snd_lbb, n)
           IN  /\ IsPcb(d) /\ SameButUnsent(c, d) /\ d.unsent \in Seq(Segment)
               /\ d.snd_lbb = c.snd_lbb + n
               /\ Stream(d, Queue(d), other, hn)
<1> DEFINE q == Queue(c)
           x == c.snd_lbb
           a == c.unacked
           last == Last(c.unsent)
           room == IF c.unsent = <<>> THEN 0 ELSE TCP_MSS - Len(last.data)
           first == AtMost(room, n)
           seg == Filled(last, x, first)
           filled == IF first = 0 THEN c.unsent ELSE Append(Front(c.unsent), seg)
           segs == Segments(x + first, x + first, n - first)
           u == filled \o segs
           d == tcp_write(c, c.snd_lbb, n)
<1>1. /\ a \in Seq(Segment) /\ c.unsent \in Seq(Segment)
      /\ Linked(q) /\ \A i \in 1 .. Len(q) : ~q[i].fin
      /\ x = Top(q, c.lastack) /\ x \in Nat /\ c.lastack \in Nat
      /\ c.lastack <= x /\ x <= PageLen
      /\ c.unsent # <<>> => q # <<>> /\ last = q[Len(q)] /\ Len(q) \in 1 .. Len(q)
                            /\ last \in Segment
  BY SendingFacts
<1>2. d = Unsent(c, u, x + n)
  BY DEF tcp_write, Unsent, Filled
<1>3. PageLen \in Nat /\ TCP_MSS \in Nat /\ TCP_MSS > 0 /\ TCP_SND_BUF \in Nat
  BY Sizes
<1> HIDE DEF d, q
<1>4. first \in 0 .. n /\ (first > 0 => /\ c.unsent # <<>>
                                        /\ Len(last.data) + first <= TCP_MSS
                                        /\ Len(last.data) \in Nat)
  <2>1. c.unsent # <<>> => Len(last.data) \in Nat /\ Len(last.data) <= TCP_MSS
    <3>1. c.unsent # <<>> => Len(last.data) \in Nat
      BY <1>1, SegFacts
    <3>2. c.unsent # <<>> => Len(q[Len(q)].data) <= TCP_MSS
      BY <1>1 DEF Linked
    <3> QED
      BY <1>1, <3>1, <3>2
  <2>2. first = IF room < n THEN room ELSE n
    BY DEF AtMost
  <2>3. CASE c.unsent = <<>>
    <3>1. room = 0
      BY <2>3
    <3> HIDE DEF room, first
    <3> QED
      BY <2>2, <3>1
  <2>4. CASE c.unsent # <<>>
    <3> DEFINE l == Len(last.data)
    <3>1. room = TCP_MSS - l /\ l \in Nat /\ l <= TCP_MSS
      BY <2>1, <2>4
    <3> HIDE DEF room, first, l
    <3>2. first \in 0 .. n /\ (first > 0 => l + first <= TCP_MSS)
      BY <1>3, <2>2, <3>1
    <3> QED
      BY <2>4, <3>1, <3>2 DEF l
  <2> QED
    BY <2>3, <2>4
<1> HIDE DEF first, x, a
\* The last segment is filled up.
<1> DEFINE q1 == a \o filled
<1>5. /\ filled \in Seq(Segment) /\ Linked(q1) /\ \A i \in 1 .. Len(q1) : ~q1[i].fin
      /\ Top(q1, c.lastack) = x + first /\ (q1 = <<>> <=> q = <<>>)
      /\ q # <<>> => q1[1].seqno = q[1].seqno /\ End(q[1]) <= End(q1[1])
  <2>1. CASE first = 0
    <3>1. filled = c.unsent /\ q1 = q
      BY <2>1 DEF q, Queue, a
    <3>2. q # <<>> => End(q[1]) \in Nat
      <4>1. q # <<>> => 1 \in 1 .. Len(q)
        BY <1>1 DEF Linked
      <4> QED
        BY <1>1, <4>1, QueueFacts
    <3>3. Top(q, c.lastack) = x + first
      BY <1>1, <2>1
    <3> HIDE DEF q1, filled
    <3>4. q # <<>> => q1[1].seqno = q[1].seqno /\ End(q[1]) <= End(q1[1])
      BY <3>1, <3>2
    <3> QED
      BY <1>1, <3>1, <3>3, <3>4
  <2>2. CASE first > 0
    <3>1. /\ c.unsent # <<>> /\ q # <<>> /\ last = q[Len(q)] /\ Len(q) \in 1 .. Len(q)
          /\ last \in Segment /\ Right(last) /\ ~last.fin
      BY <1>1, <1>4, <2>2 DEF Linked
    <3> HIDE DEF last
    <3>2. End(last) = x /\ first \in Nat /\ x + first <= PageLen
      <4>1. Top(q, c.lastack) = End(q[Len(q)])
        BY <3>1 DEF Top
      <4>2. x + n <= PageLen
        BY DEF x, Room
      <4> QED
        BY <1>1, <1>3, <1>4, <3>1, <4>1, <4>2
    <3>3. /\ Right(seg) /\ seg.seqno = last.seqno /\ ~seg.fin
          /\ Len(seg.data) = Len(last.data) + first /\ End(seg) = x + first
      BY <3>1, <3>2, FilledSegment, ZenonT(60)
    <3> HIDE DEF seg
    <3>4. filled = Append(Front(c.unsent), seg) /\ seg \in Segment
      BY <1>4, <2>2, <3>3 DEF Right
    <3>5. filled \in Seq(Segment)
      BY <1>1, <3>1, <3>4, LastIs
    <3>6. q1 = Append(Front(q), seg)
      <4>1. a \o Append(Front(c.unsent), seg) = Append(Front(a \o c.unsent), seg)
        BY <1>1, <3>1, <3>4, LastOfTwo
      <4>2. q = a \o c.unsent
        BY DEF q, Queue, a
      <4> QED
        BY <3>4, <4>1, <4>2
    <3> HIDE DEF q1, filled
    <3>7. /\ Len(seg.data) <= TCP_MSS /\ seg.seqno < End(seg) /\ End(last) <= End(seg)
      <4>1. last.seqno < End(last) /\ last.seqno \in Nat /\ End(last) \in Nat
        BY <1>1, <3>1, QueueFacts DEF Linked
      <4>2. Len(last.data) + first <= TCP_MSS
        BY <1>4, <2>2
      <4> QED
        BY <2>2, <3>2, <3>3, <4>1, <4>2
    <3>8. Linked(q1)
      BY <1>1, <3>1, <3>3, <3>6, <3>7, LastLinked
    <3>9. q \in Seq(Segment)
      BY <1>1 DEF Linked
    <3>10. /\ Len(q1) = Len(q) /\ q1[Len(q)] = seg
           /\ \A i \in 1 .. Len(q) - 1 : q1[i] = q[i]
      BY <3>1, <3>4, <3>6, <3>9, LastIs
    <3>11. \A i \in 1 .. Len(q1) : ~q1[i].fin
      <4>1. ASSUME NEW i \in 1 .. Len(q) PROVE ~q1[i].fin
        <5>1. CASE i = Len(q)
          BY <3>3, <3>10, <5>1
        <5>2. CASE i # Len(q)
          <6>1. i \in 1 .. Len(q) - 1
            BY <3>9, <5>2
          <6> QED
            BY <1>1, <3>10, <6>1
        <5> QED
          BY <5>1, <5>2
      <4> QED
        BY <3>10, <4>1
    <3>12. Top(q1, c.lastack) = x + first /\ q1 # <<>>
      <4>1. q1 # <<>>
        BY <3>1, <3>8, <3>10 DEF Linked
      <4> QED
        BY <3>3, <3>10, <4>1 DEF Top
    <3>13. q1[1].seqno = q[1].seqno /\ End(q[1]) <= End(q1[1])
      <4>1. CASE Len(q) = 1
        BY <3>1, <3>3, <3>7, <3>10, <4>1
      <4>2. CASE Len(q) # 1
        <5>1. 1 \in 1 .. Len(q) - 1 /\ 1 \in 1 .. Len(q)
          <6> DEFINE l == Len(q)
          <6>1. l \in Nat /\ l \in 1 .. l /\ l # 1
            BY <3>1, <3>9, <4>2
          <6> HIDE DEF l
          <6>2. 1 \in 1 .. l - 1 /\ 1 \in 1 .. l
            BY <6>1
          <6> QED
            BY <6>2 DEF l
        <5>2. q1[1] = q[1] /\ End(q[1]) \in Nat
          BY <1>1, <3>10, <5>1, QueueFacts
        <5> QED
          BY <5>2
      <4> QED
        BY <4>1, <4>2
    <3> QED
      BY <3>1, <3>5, <3>8, <3>11, <3>12, <3>13
  <2>3. first = 0 \/ first > 0
    BY <1>4
  <2> HIDE DEF q1, filled
  <2> QED
    BY <2>1, <2>2, <2>3
<1> DEFINE y == x + first
           m == n - first
<1>6. y \in Nat /\ m \in Nat /\ y + m = x + n /\ y + m <= PageLen /\ x + n <= PageLen /\ x <= y
  <2>1. x + n <= PageLen
    BY DEF x, Room
  <2>2. x \in Nat /\ first \in 0 .. n
    BY <1>1, <1>4
  <2> QED
    BY <1>3, <2>1, <2>2
<1> HIDE DEF filled, last, y, m
\* The rest goes into new ones.
<1>7. /\ Linked(segs) /\ \A i \in 1 .. Len(segs) : ~segs[i].fin
      /\ m = 0 => segs = <<>>
      /\ m > 0 => segs # <<>> /\ segs[1].seqno = y /\ End(segs[Len(segs)]) = y + m
  BY <1>6, SegmentsLinked DEF y, m
<1> HIDE DEF segs
<1> DEFINE p == q1 \o segs
<1>8. Linked(p)
  <2>1. ASSUME q1 # <<>>, segs # <<>> PROVE End(q1[Len(q1)]) = segs[1].seqno
    <3>1. Top(q1, c.lastack) = End(q1[Len(q1)])
      BY <2>1 DEF Top
    <3>2. m > 0
      BY <1>6, <1>7, <2>1
    <3> QED
      BY <1>5, <1>7, <3>1, <3>2 DEF y
  <2> HIDE DEF q1
  <2> QED
    BY <1>5, <1>7, <2>1, CatLinked
<1>9. /\ q1 \in Seq(Segment) /\ segs \in Seq(Segment)
      /\ p \in Seq(Segment) /\ Len(p) = Len(q1) + Len(segs)
      /\ \A i \in 1 .. Len(q1) : p[i] = q1[i]
      /\ \A i \in 1 .. Len(segs) : p[Len(q1) + i] = segs[i]
  <2>1. q1 \in Seq(Segment) /\ segs \in Seq(Segment)
    BY <1>5, <1>7 DEF Linked
  <2> HIDE DEF q1
  <2> QED
    BY <2>1, Cat, Zenon
<1>10. u \in Seq(Segment) /\ a \o u = p
  <2>1. u \in Seq(Segment)
    BY <1>5, <1>9, Cat
  <2> QED
    BY <1>1, <1>5, <1>9, <2>1, CatCat, ZenonT(60)
<1> HIDE DEF p, q1, u
<1>11. Len(q1) \in Nat /\ Len(segs) \in Nat
  BY <1>9
<1>12. \A i \in 1 .. Len(p) : ~p[i].fin
  <2>1. ASSUME NEW i \in 1 .. Len(p) PROVE ~p[i].fin
    <3>1. CASE i <= Len(q1)
      <4>1. i \in 1 .. Len(q1)
        BY <1>11, <3>1
      <4> QED
        BY <1>5, <1>9, <4>1
    <3>2. CASE i > Len(q1)
      <4> DEFINE k == i - Len(q1)
      <4>1. k \in 1 .. Len(segs) /\ i = Len(q1) + k
        BY <1>9, <1>11, <3>2
      <4> HIDE DEF k
      <4> QED
        BY <1>7, <1>9, <4>1
    <3> QED
      BY <1>11, <3>1, <3>2
  <2> QED
    BY <2>1
<1>13. Top(p, c.lastack) = x + n
  <2>1. CASE m = 0
    <3>1. segs = <<>> /\ p = q1
      BY <1>7, <1>9, <2>1, ConcatEmptySeq DEF p
    <3> QED
      BY <1>5, <1>6, <2>1, <3>1 DEF y
  <2>2. CASE m > 0
    <3>1. segs # <<>> /\ End(segs[Len(segs)]) = y + m
      BY <1>7, <2>2
    <3>2. Len(segs) \in 1 .. Len(segs)
      BY <1>9, <3>1
    <3>3. p # <<>> /\ p[Len(p)] = segs[Len(segs)]
      BY <1>9, <1>11, <3>2
    <3> QED
      BY <1>6, <3>1, <3>3 DEF Top
  <2> QED
    BY <1>6, <2>1, <2>2
<1>14. /\ p = <<>> => q = <<>>
       /\ q # <<>> => p[1].seqno = q[1].seqno /\ End(q[1]) <= End(p[1])
       /\ q = <<>> /\ p # <<>> => p[1].seqno = c.lastack
  <2>1. CASE q # <<>>
    <3>1. q1 # <<>> /\ 1 \in 1 .. Len(q1) /\ 1 \in 1 .. Len(p)
      BY <1>5, <1>9, <1>11, <2>1
    <3>2. p[1] = q1[1] /\ p # <<>>
      BY <1>9, <3>1
    <3> QED
      BY <1>5, <2>1, <3>2
  <2>2. CASE q = <<>>
    <3>1. q1 = <<>> /\ Len(q1) = 0
      BY <1>5, <2>2
    <3>2. p = segs
      BY <1>9, <3>1, ConcatEmptySeq DEF p
    <3>3. p # <<>> => p[1].seqno = y
      BY <1>6, <1>7, <3>2
    <3>4. y = c.lastack
      BY <1>5, <3>1 DEF y, Top
    <3> QED
      BY <2>2, <3>3, <3>4
  <2> QED
    BY <2>1, <2>2
<1>15. /\ IsPcb(d) /\ SameButUnsent(c, d) /\ d.unsent = u /\ d.snd_lbb = x + n
  BY <1>2, UnsentIs
<1>16. Queue(d) = p
  BY <1>10, <1>15 DEF Queue, SameButUnsent, a
<1>17. x + n - c.lastack <= TCP_SND_BUF /\ x <= x + n /\ x + n <= x + n
  <2>1. n <= TCP_SND_BUF - (x - c.lastack)
    BY DEF SndBuf, x, Room
  <2>2. x \in Nat /\ c.lastack \in Nat
    BY <1>1
  <2> QED
    BY <1>3, <2>1, <2>2
<1>18. Stream(d, p, other, hn)
  <2>1. Stream(c, q, other, hn)
    BY DEF q
  <2>2. d.lastack = c.lastack /\ d.snd_nxt = c.snd_nxt
    BY <1>15 DEF SameButUnsent
  <2>3. Top(q, c.lastack) <= Top(p, c.lastack)
    BY <1>1, <1>13, <1>17
  <2>4. d.snd_lbb <= Top(p, c.lastack) /\ d.snd_lbb = Top(p, c.lastack)
        /\ d.snd_lbb <= PageLen /\ d.snd_lbb - c.lastack <= TCP_SND_BUF
    <3>1. d.snd_lbb = x + n /\ x + n <= PageLen
      BY <1>6, <1>15
    <3>2. x \in Nat /\ x + n \in Nat /\ c.lastack \in Nat
      BY <1>1
    <3> DEFINE l == d.snd_lbb
               z == x + n
    <3>3. l = z /\ z \in Nat /\ z <= PageLen /\ z - c.lastack <= TCP_SND_BUF
      BY <1>3, <1>17, <3>1, <3>2
    <3> HIDE DEF l, z
    <3>4. l <= z /\ l <= PageLen /\ l - c.lastack <= TCP_SND_BUF
      BY <3>3
    <3> QED
      BY <1>13, <3>3, <3>4 DEF l, z
  <2> QED
    BY <1>8, <1>12, <1>14, <2>1, <2>2, <2>3, <2>4, Grown
<1> QED
  BY <1>10, <1>15, <1>16, <1>18 DEF d, x

\* The last segment gets the FIN.
Finned(seg) == [seg EXCEPT !.fin = TRUE]

LEMMA FinnedSegment ==
    ASSUME NEW seg, Right(seg), ~seg.fin
    PROVE  LET e == Finned(seg)
           IN  /\ Right(e) /\ e.seqno = seg.seqno /\ e.fin /\ e.data = seg.data
               /\ End(e) = End(seg) + 1 /\ End(seg) = seg.seqno + Len(seg.data)
               /\ e.seqno < End(e)
<1> DEFINE e == Finned(seg)
           l == Len(seg.data)
<1>1. seg \in Segment /\ seg.seqno \in 0 .. PageLen /\ l \in Nat
  BY SegFacts DEF Right
<1>2. e \in Segment /\ e.seqno = seg.seqno /\ e.fin = TRUE /\ e.data = seg.data
  BY <1>1 DEF Finned, Segment
<1> HIDE DEF e
<1>3. End(e) = seg.seqno + (l + 1) /\ End(seg) = seg.seqno + (l + 0)
  BY <1>2 DEF End, TCP_TCPLEN
<1>4. seg.seqno \in Nat
  BY <1>1
<1> HIDE DEF l
<1>5. End(e) = End(seg) + 1 /\ End(seg) = seg.seqno + l /\ seg.seqno < End(e)
  BY <1>1, <1>3, <1>4
<1>6. Right(e)
  BY <1>2 DEF Right
<1> QED
  BY <1>2, <1>5, <1>6 DEF e, l

\* A FIN of its own.
LEMMA OwnFin ==
    ASSUME NEW x \in 0 .. PageLen
    PROVE  LET f == [seqno |-> x, data |-> <<>>, fin |-> TRUE]
           IN  /\ f \in Segment /\ Right(f) /\ f.fin /\ f.seqno = x /\ End(f) = x + 1
               /\ f.data = <<>> /\ Len(f.data) = 0 /\ Linked(<<f>>)
<1> DEFINE f == [seqno |-> x, data |-> <<>>, fin |-> TRUE]
<1>1. f \in Segment /\ f.seqno = x /\ f.fin = TRUE /\ f.data = <<>>
  BY DEF Segment
<1> HIDE DEF f
<1>2. x \in Nat /\ x <= PageLen
  BY Sizes
<1>3. Len(f.data) = 0
  BY <1>1
<1>4. End(f) = x + 1
  <2>1. End(f) = x + (0 + 1)
    BY <1>1, <1>3 DEF End, TCP_TCPLEN
  <2> QED
    BY <1>2, <2>1
<1>5. Right(f)
  <2>1. f.seqno + Len(f.data) <= PageLen
    BY <1>1, <1>2, <1>3, Sizes
  <2> QED
    BY <1>1, <1>3, <2>1 DEF Right
<1>6. Linked(<<f>>)
  <2> DEFINE q == <<f>>
  <2>1. q \in Seq(Segment) /\ Len(q) = 1 /\ q[1] = f
    BY <1>1
  <2> HIDE DEF q
  <2>2. f.seqno < End(f) /\ Len(f.data) <= TCP_MSS
    BY <1>1, <1>2, <1>3, <1>4, Sizes
  <2>3. Linked(q)
    BY <1>5, <2>1, <2>2 DEF Linked
  <2> QED
    BY <2>3 DEF q
<1> QED
  BY <1>1, <1>3, <1>4, <1>5, <1>6 DEF f

\* tcp_send_fin puts the FIN behind what was written.
LEMMA SendFinStream ==
    ASSUME NEW c, IsPcb(c), Fields(c), NEW other \in BOOLEAN, NEW hn \in Nat,
           Stream(c, Queue(c), other, hn), c.state \in Sending,
           ~other => c.snd_lbb = PageLen,
           NEW d, LET e == tcp_send_fin(c)
                  IN  /\ d.unacked = e.unacked /\ d.unsent = e.unsent
                      /\ d.lastack = e.lastack
                      /\ d.snd_nxt = e.snd_nxt /\ d.snd_lbb = e.snd_lbb,
           d.state \in Closing
    PROVE  /\ SameButUnsent(c, tcp_send_fin(c)) /\ d.unsent \in Seq(Segment)
           /\ d.snd_lbb \in 0 .. PageLen + 1
           /\ Stream(d, Queue(d), other, hn)
<1> DEFINE q == Queue(c)
           x == c.snd_lbb
           a == c.unacked
           last == Last(c.unsent)
           e == tcp_send_fin(c)
           p == Queue(d)
<1>1. /\ a \in Seq(Segment) /\ c.unsent \in Seq(Segment)
      /\ Linked(q) /\ \A i \in 1 .. Len(q) : ~q[i].fin
      /\ x = Top(q, c.lastack)
      /\ c.unsent # <<>> => q # <<>> /\ last = q[Len(q)] /\ Len(q) \in 1 .. Len(q)
                            /\ last \in Segment
  BY SendingFacts
<1>2. x \in Nat /\ c.lastack \in Nat /\ c.lastack <= x /\ x <= PageLen /\ PageLen \in Nat
  BY SendingFacts, Sizes
<1>3. q \in Seq(Segment) /\ q = a \o c.unsent /\ Stream(c, q, other, hn)
  BY <1>1 DEF Linked, Queue
<1> HIDE DEF q, x, a
<1>4. CASE c.unsent # <<>>
  <2> DEFINE seg == Finned(last)
             u == Append(Front(c.unsent), seg)
  <2>1. /\ q # <<>> /\ last = q[Len(q)] /\ Len(q) \in 1 .. Len(q)
        /\ last \in Segment /\ Right(last) /\ ~last.fin /\ Len(last.data) <= TCP_MSS
    BY <1>1, <1>4 DEF Linked
  <2>2. e = Unsent(c, u, x)
    <3>1. e = [c EXCEPT !.unsent = u]
      BY <1>4 DEF tcp_send_fin, Finned
    <3>2. ASSUME NEW v PROVE [c EXCEPT !.unsent = v] = Unsent(c, v, c.snd_lbb)
      BY DEF Unsent, IsPcb, PcbFields
    <3> QED
      BY <3>1, <3>2 DEF x
  <2> HIDE DEF e, last, u
  <2>3. SameButUnsent(c, e) /\ e.unsent = u /\ e.snd_lbb = x
    BY <2>2, UnsentIs
  <2>4. /\ Right(seg) /\ seg.seqno = last.seqno /\ seg.fin /\ seg.data = last.data
        /\ End(seg) = End(last) + 1 /\ End(last) = last.seqno + Len(last.data)
        /\ seg.seqno < End(seg) /\ seg \in Segment
    BY <2>1, FinnedSegment DEF Right
  <2> HIDE DEF seg
  <2>5. u \in Seq(Segment)
    BY <1>1, <1>4, <2>4, LastIs DEF u
  <2>6. p = Append(Front(q), seg)
    <3>1. a \o Append(Front(c.unsent), seg) = Append(Front(a \o c.unsent), seg)
      BY <1>1, <1>4, <2>4, LastOfTwo
    <3>2. p = a \o u
      BY <2>3 DEF Queue, SameButUnsent, a, e
    <3> QED
      BY <1>3, <3>1, <3>2 DEF u
  <2> HIDE DEF p
  <2>7. Linked(p)
    BY <1>1, <2>1, <2>4, <2>6, LastLinked
  <2>8. /\ Len(p) = Len(q) /\ p[Len(q)] = seg
        /\ \A i \in 1 .. Len(q) - 1 : p[i] = q[i]
    <3>1. q # <<>> /\ seg \in Segment
      BY <2>1, <2>4
    <3> QED
      BY <1>3, <2>6, <3>1, LastIs
  <2> DEFINE l == Len(q)
  <2>9. l \in Nat /\ l \in 1 .. l
    BY <1>3, <2>1
  <2>10. \A i \in 1 .. l : i = l \/ (i \in 1 .. l - 1 /\ ~p[i].fin)
    <3>1. ASSUME NEW i \in 1 .. l, i # l PROVE i \in 1 .. l - 1 /\ p[i] = q[i]
      <4>1. i \in 1 .. l - 1
        <5> HIDE DEF l
        <5> QED
          BY <2>9, <3>1
      <4> QED
        BY <2>8, <4>1
    <3> QED
      BY <1>1, <3>1
  <2>11. p # <<>> /\ Top(p, c.lastack) = End(seg)
    <3>1. p # <<>>
      BY <2>8, <2>9
    <3> QED
      BY <2>8, <3>1 DEF Top
  <2>12. End(last) = x
    BY <1>1, <2>1 DEF Top
  <2>13. Behind(seg, other)
    BY <2>4, <2>12 DEF Behind, x
  <2>14. p[1].seqno = q[1].seqno /\ End(q[1]) <= End(p[1])
    <3>1. CASE l = 1
      <4>1. q[1] = last /\ p[1] = seg
        BY <2>1, <2>8, <3>1
      <4>2. End(last) <= End(seg)
        BY <1>2, <2>4, <2>12
      <4> QED
        BY <2>4, <4>1, <4>2
    <3>2. CASE l # 1
      <4>1. 1 \in 1 .. l - 1 /\ 1 \in 1 .. l
        <5> HIDE DEF l
        <5> QED
          BY <2>9, <3>2
      <4>2. p[1] = q[1] /\ End(q[1]) \in Nat
        BY <1>1, <2>8, <4>1, QueueFacts
      <4> QED
        BY <4>2
    <3> QED
      BY <3>1, <3>2
  <2>15. \A i \in 1 .. Len(p) : p[i].fin => d.state \in Closing /\ Behind(p[i], other)
    BY <2>8, <2>10, <2>13
  <2>16. /\ d.lastack = c.lastack /\ d.snd_nxt = c.snd_nxt /\ d.unsent = u /\ d.snd_lbb = x
    BY <2>3 DEF SameButUnsent, e
  <2>17. Top(q, c.lastack) <= Top(p, c.lastack) /\ d.snd_lbb <= Top(p, c.lastack)
    <3>1. Top(p, c.lastack) = x + 1 /\ x <= x + 1
      BY <1>2, <2>4, <2>11, <2>12
    <3> QED
      BY <1>1, <2>16, <3>1
  <2>18. ~(d.state \in Sending)
    BY DEF Closing, Sending
  <2>19. Stream(d, p, other, hn)
    BY <1>3, <2>1, <2>7, <2>11, <2>14, <2>15, <2>16, <2>17, <2>18, Grown
  <2>20. d.snd_lbb \in 0 .. PageLen + 1
    BY <1>2, <2>16
  <2> QED
    BY <2>3, <2>5, <2>16, <2>19, <2>20 DEF p, e
<1>5. CASE c.unsent = <<>>
  <2> DEFINE f == [seqno |-> x, data |-> <<>>, fin |-> TRUE]
             b == <<f>>
  <2>1. e = Unsent(c, b, x + 1)
    BY <1>5 DEF tcp_send_fin, Unsent, x
  <2>2. /\ f \in Segment /\ Right(f) /\ f.fin /\ f.seqno = x /\ End(f) = x + 1
        /\ f.data = <<>> /\ Len(f.data) = 0 /\ Linked(b)
    BY <1>2, OwnFin
  <2>3. b \in Seq(Segment) /\ Len(b) = 1 /\ b[1] = f /\ b # <<>>
    BY <2>2
  <2> HIDE DEF e, f, b
  <2>4. SameButUnsent(c, e) /\ e.unsent = b /\ e.snd_lbb = x + 1
    BY <2>1, UnsentIs
  <2>5. q = a
    BY <1>1, <1>3, <1>5, ConcatEmptySeq
  <2>6. p = q \o b
    BY <2>4, <2>5 DEF Queue, SameButUnsent, a, e
  <2> HIDE DEF p
  <2>7. Linked(p)
    <3>1. q # <<>> => End(q[Len(q)]) = b[1].seqno
      BY <1>1, <2>2, <2>3 DEF Top
    <3> QED
      BY <1>1, <2>2, <2>6, <3>1, CatLinked
  <2>8. /\ p \in Seq(Segment) /\ Len(p) = Len(q) + Len(b)
        /\ \A i \in 1 .. Len(q) : p[i] = q[i]
        /\ \A i \in 1 .. Len(b) : p[Len(q) + i] = b[i]
    BY <1>3, <2>3, <2>6, Cat, ZenonT(60)
  <2> DEFINE l == Len(q)
  <2>9. /\ l \in Nat /\ Len(p) = l + 1 /\ p[l + 1] = f
        /\ \A i \in 1 .. l : p[i] = q[i]
    BY <1>3, <2>3, <2>8
  <2>10. \A i \in 1 .. Len(p) : p[i].fin => d.state \in Closing /\ Behind(p[i], other)
    <3>1. Behind(f, other)
      <4>1. f.seqno + Len(f.data) = x + 0
        BY <2>2
      <4>2. x + 0 = x
        BY <1>2
      <4> QED
        BY <4>1, <4>2 DEF Behind, x
    <3>2. ASSUME NEW i \in 1 .. Len(p), p[i].fin PROVE p[i] = f
      <4>1. CASE i = l + 1
        BY <2>9, <4>1
      <4>2. CASE i # l + 1
        <5>1. i \in 1 .. l
          BY <2>9, <4>2
        <5> QED
          BY <1>1, <2>9, <3>2, <5>1
      <4> QED
        BY <4>1, <4>2
    <3> QED
      BY <3>1, <3>2
  <2>11. p # <<>> /\ Top(p, c.lastack) = x + 1
    <3>1. p # <<>>
      BY <2>9
    <3> QED
      BY <2>2, <2>9, <3>1 DEF Top
  <2>12. q # <<>> => p[1].seqno = q[1].seqno /\ End(q[1]) <= End(p[1])
    <3> SUFFICES ASSUME q # <<>> PROVE p[1].seqno = q[1].seqno /\ End(q[1]) <= End(p[1])
      OBVIOUS
    <3>1. 1 \in 1 .. l
      BY <1>3, <2>9
    <3>2. p[1] = q[1] /\ End(q[1]) \in Nat
      BY <1>1, <2>9, <3>1, QueueFacts
    <3> QED
      BY <3>2
  <2>13. q = <<>> => p[1].seqno = c.lastack
    <3> SUFFICES ASSUME q = <<>> PROVE p[1].seqno = c.lastack
      OBVIOUS
    <3>1. l = 0 /\ x = c.lastack
      BY <1>1 DEF Top
    <3> QED
      BY <2>2, <2>9, <3>1
  <2>14. /\ d.lastack = c.lastack /\ d.snd_nxt = c.snd_nxt /\ d.unsent = b
         /\ d.snd_lbb = x + 1
    BY <2>4 DEF SameButUnsent, e
  <2>15. Top(q, c.lastack) <= Top(p, c.lastack) /\ d.snd_lbb <= Top(p, c.lastack)
    <3>1. x <= x + 1 /\ x + 1 <= x + 1
      BY <1>2
    <3> QED
      BY <1>1, <2>11, <2>14, <3>1
  <2>16. ~(d.state \in Sending)
    BY DEF Closing, Sending
  <2>17. Stream(d, p, other, hn)
    BY <1>3, <2>7, <2>10, <2>11, <2>12, <2>13, <2>14, <2>15, <2>16, Grown
  <2>18. d.snd_lbb \in 0 .. PageLen + 1
    BY <1>2, <2>14
  <2> QED
    BY <2>3, <2>4, <2>14, <2>17, <2>18 DEF p, e
<1> QED
  BY <1>4, <1>5

-----------------------------------------------------------------------------
(***************************************************************************)
(* Steps that leave the queues alone                                       *)
(***************************************************************************)

\* What a handler leaves behind: nobody forgets that httpd closed for another reason.
Goes(s, t, hn) == Good(t, hn) /\ (s.other => t.other)

SameQueues(c, d) ==
    /\ d.lastack = c.lastack /\ d.snd_nxt = c.snd_nxt /\ d.snd_lbb = c.snd_lbb
    /\ d.unsent = c.unsent /\ d.unacked = c.unacked

LEMMA SameStream ==
    ASSUME NEW c, NEW d, NEW q, NEW other \in BOOLEAN, NEW o \in BOOLEAN, NEW hn,
           Stream(c, q, other, hn), other => o,
           d.lastack = c.lastack, d.snd_nxt = c.snd_nxt, d.snd_lbb = c.snd_lbb,
           c.state \in Closing => d.state \in Closing,
           d.state \in Sending => c.state \in Sending
    PROVE  Stream(d, q, o, hn)
<1>1. \A i \in 1 .. Len(q) : q[i].fin => d.state \in Closing /\ Behind(q[i], o)
  BY DEF Stream, Behind
<1> QED
  BY <1>1 DEF Stream

LEMMA GoodFrom ==
    ASSUME NEW s, NEW t, NEW hn \in Nat, Good(s, hn), t.wire = s.wire,
           t.other \in BOOLEAN, s.other => t.other, t.errs \in Nat,
           Fields(t.pcb), Place(t),
           t.pcb.state \in Active => /\ s.pcb.state \in Active
                                     /\ t.pcb.snd_nxt = s.pcb.snd_nxt
                                     /\ Stream(t.pcb, Queue(t.pcb), t.other, hn),
           t.pcb.state \notin Active => t.pcb.unsent = <<>> /\ t.pcb.unacked = <<>>
    PROVE  Goes(s, t, hn)
<1>1. Sent(t)
  BY DEF Good, Sent, Behind
<1> QED
  BY <1>1 DEF Goes, Good

LEMMA SmallGood ==
    ASSUME NEW s, NEW t, NEW hn \in Nat, Good(s, hn), t.wire = s.wire,
           t.other \in BOOLEAN, s.other => t.other, t.errs \in Nat,
           SameQueues(s.pcb, t.pcb), t.pcb.state = s.pcb.state, Fields(t.pcb), Place(t)
    PROVE  Goes(s, t, hn)
<1>1. t.pcb.state \in Active => Stream(t.pcb, Queue(t.pcb), t.other, hn)
  <2> SUFFICES ASSUME t.pcb.state \in Active
               PROVE  Stream(t.pcb, Queue(t.pcb), t.other, hn)
    OBVIOUS
  <2>1. Stream(s.pcb, Queue(s.pcb), s.other, hn) /\ s.other \in BOOLEAN
    BY DEF Good
  <2>2. Queue(t.pcb) = Queue(s.pcb)
    BY DEF Queue, SameQueues
  <2> QED
    BY <2>1, <2>2, SameStream DEF SameQueues
<1>2. t.pcb.state \notin Active => t.pcb.unsent = <<>> /\ t.pcb.unacked = <<>>
  BY DEF Good, SameQueues
<1> QED
  BY <1>1, <1>2, GoodFrom DEF SameQueues

LEMMA GoesAfter ==
    ASSUME NEW s, NEW t, NEW u, NEW hn, Goes(s, t, hn), Goes(t, u, hn)
    PROVE  Goes(s, u, hn)
  BY DEF Goes

LEMMA GoesSelf ==
    ASSUME NEW s, NEW hn, Good(s, hn)
    PROVE  Goes(s, s, hn)
  BY DEF Goes

\* What is left when the queues are gone.
HsOk(h) == /\ h.handle \in BOOLEAN /\ h.file \in 0 .. PageLen
           /\ h.retries \in 0 .. HTTPD_MAX_RETRIES - 1

Kept(s) ==
    /\ \A seg \in s.wire : Right(seg) /\ Behind(seg, s.other)
    /\ s.other \in BOOLEAN /\ s.errs \in Nat /\ HsOk(s.hs)
    /\ s.pcb.cb \in {"http", "poll", "none"}

LEMMA GoodKept ==
    ASSUME NEW s, NEW hn, Good(s, hn)
    PROVE  Kept(s)
  BY DEF Good, Kept, Place, Sent, HsOk, Fields

LEMMA NoHsOk == HsOk(NoHs)
<1>1. 0 \in 0 .. PageLen /\ 0 \in 0 .. HTTPD_MAX_RETRIES - 1
  BY Sizes
<1> QED
  BY <1>1 DEF NoHs, HsOk

\* A pcb that is free.
Free(c) ==
    /\ c.state = "CLOSED" /\ c.lastack = 0 /\ c.snd_nxt = 0 /\ c.snd_lbb = 0
    /\ c.unsent = <<>> /\ c.unacked = <<>> /\ c.nrtx = 0 /\ c.infr \in BOOLEAN
    /\ c.snd_wnd \in SndWnd /\ c.unread = 0 /\ c.polltmr = 0 /\ c.age = 0

LEMMA FreedIs ==
    ASSUME NEW a, NEW b, NEW r
    PROVE  LET c == FreedPcb(a, b, r) IN Free(c) /\ c.arg = a /\ c.cb = b /\ IsPcb(c)
<1>1. Free(NoPcb)
  BY DEF Free, NoPcb, SndWnd
<1> QED
  BY <1>1, NoPcbIsPcb DEF FreedPcb, IsPcb, PcbFields, Free

LEMMA FreeFields ==
    ASSUME NEW c, Free(c), c.cb \in {"http", "poll", "none"}
    PROVE  Fields(c)
<1>1. /\ 0 \in 0 .. PageLen + 1 /\ 0 \in 0 .. U8 - 1 /\ 0 \in 0 .. HTTPD_POLL_INTERVAL
      /\ 0 \in 0 .. Timeout /\ 0 \in 0 .. 2
  <2>1. PageLen \in Nat /\ U8 \in Nat \ {0} /\ HTTPD_POLL_INTERVAL \in Nat /\ Timeout \in Nat
    BY Sizes
  <2> QED
    BY <2>1
<1>2. <<>> \in Seq(Segment)
  OBVIOUS
<1> QED
  BY <1>1, <1>2 DEF Free, Fields

LEMMA FreeGood ==
    ASSUME NEW s, NEW t, NEW hn, Kept(s), t.wire = s.wire, t.other = s.other,
           t.errs = s.errs, HsOk(t.hs), Free(t.pcb), t.pcb.cb \in {"http", "poll", "none"},
           t.pcb.arg = FALSE
    PROVE  Goes(s, t, hn)
<1>1. Fields(t.pcb)
  BY FreeFields
<1>2. t.pcb.state \notin Active /\ t.pcb.state \notin Sending
  BY DEF Free, Active, Sending, Closing
<1>3. Place(t)
  BY <1>2 DEF HsOk, Place
<1>4. Sent(t)
  BY <1>2 DEF Sent, Kept
<1>5. t.pcb.unsent = <<>> /\ t.pcb.unacked = <<>>
  BY DEF Free
<1> QED
  BY <1>1, <1>2, <1>3, <1>4, <1>5 DEF Goes, Good, Kept

\* The parts of a state that only tcp_output and httpd change.
Rest(s, t) == t.wire = s.wire /\ t.other = s.other /\ t.errs = s.errs

LEMMA BlameRest ==
    ASSUME NEW s, IsWhole(s), NEW what
    PROVE  LET t == Blame(s, what)
           IN  Rest(s, t) /\ IsWhole(t) /\ t.pcb = s.pcb /\ t.hs = s.hs
  BY DEF IsWhole, Blame, Rest

LEMMA BlameGood ==
    ASSUME NEW s, NEW hn \in Nat, IsWhole(s), Good(s, hn), NEW what
    PROVE  Goes(s, Blame(s, what), hn)
<1> DEFINE t == Blame(s, what)
<1>1. Rest(s, t) /\ t.pcb = s.pcb /\ t.hs = s.hs
  BY BlameRest
<1> HIDE DEF t
<1>2. Place(t)
  BY <1>1 DEF Good, Place, Rest
<1>3. SameQueues(s.pcb, t.pcb) /\ Fields(t.pcb)
  BY <1>1 DEF SameQueues, Good
<1>4. Goes(s, t, hn)
  BY <1>1, <1>2, <1>3, SmallGood DEF Rest, Good
<1> QED
  BY <1>4 DEF t

LEMMA StateFreedRest ==
    ASSUME NEW s, IsWhole(s), s.hs.live = TRUE
    PROVE  LET t == http_state_free(s)
           IN  Rest(s, t) /\ IsWhole(t) /\ t.pcb = s.pcb /\ t.hs = NoHs
<1>1. IsHs(NoHs)
  BY DEF IsHs, NoHs
<1>2. http_state_free(s) = [s EXCEPT !.hs = NoHs]
  BY DEF http_state_free
<1> QED
  BY <1>1, <1>2 DEF IsWhole, Rest

LEMMA PcbFreedRest ==
    ASSUME NEW s, IsWhole(s), s.pcb.state # "CLOSED"
    PROVE  LET t == FreePcb(s)
           IN  /\ IsWhole(t) /\ Rest(s, t) /\ t.hs = s.hs
               /\ t.pcb = FreedPcb(s.pcb.arg, s.pcb.cb, s.pcb.rxclosed)
<1> DEFINE f == FreedPcb(s.pcb.arg, s.pcb.cb, s.pcb.rxclosed)
<1>1. FreePcb(s) = [s EXCEPT !.pcb = f]
  BY DEF FreePcb, FreedPcb
<1>2. IsPcb(f)
  BY FreeIsPcb
<1> HIDE DEF f
<1> QED
  BY <1>1, <1>2 DEF IsWhole, Rest, f

Released(s) == [s EXCEPT !.pcb.arg = FALSE, !.pcb.cb = "none"]

LEMMA LetGoRest ==
    ASSUME NEW s, IsWhole(s)
    PROVE  LET t == Released(s)
           IN  /\ IsWhole(t) /\ Rest(s, t) /\ t.hs = s.hs /\ t.fault = s.fault
               /\ t.pcb.arg = FALSE /\ t.pcb.cb = "none" /\ t.pcb.state = s.pcb.state
               /\ SameQueues(s.pcb, t.pcb) /\ (Fields(s.pcb) => Fields(t.pcb))
               /\ (Free(s.pcb) => Free(t.pcb))
               /\ t.pcb.unread = s.pcb.unread /\ t.pcb.rxclosed = s.pcb.rxclosed
<1> DEFINE d == [s.pcb EXCEPT !.arg = FALSE, !.cb = "none"]
           t == [s EXCEPT !.pcb = d]
<1>1. Released(s) = t
  BY DEF IsWhole, Released
<1>2. /\ IsPcb(d) /\ d.arg = FALSE /\ d.cb = "none" /\ d.state = s.pcb.state
      /\ d.lastack = s.pcb.lastack /\ d.snd_nxt = s.pcb.snd_nxt /\ d.snd_lbb = s.pcb.snd_lbb
      /\ d.unsent = s.pcb.unsent /\ d.unacked = s.pcb.unacked
      /\ d.nrtx = s.pcb.nrtx /\ d.infr = s.pcb.infr /\ d.snd_wnd = s.pcb.snd_wnd
      /\ d.unread = s.pcb.unread /\ d.polltmr = s.pcb.polltmr /\ d.age = s.pcb.age
      /\ d.rxclosed = s.pcb.rxclosed
  BY DEF IsWhole, IsPcb, PcbFields
<1> HIDE DEF d
<1>3. IsWhole(t) /\ Rest(s, t) /\ t.hs = s.hs /\ t.pcb = d /\ t.fault = s.fault
  BY <1>2 DEF IsWhole, Rest
<1> HIDE DEF t
<1>4. SameQueues(s.pcb, d) /\ (Fields(s.pcb) => Fields(d)) /\ (Free(s.pcb) => Free(d))
  BY <1>2 DEF SameQueues, Fields, Free
<1> QED
  BY <1>1, <1>2, <1>3, <1>4

\* The pcb is gone, and the application is told.
LEMMA GoneGood ==
    ASSUME NEW s, Owned(s), Kept(s), NEW hn \in Nat, s.pcb.state = "CLOSED" => Good(s, hn)
    PROVE  Goes(s, Gone(s), hn)
<1> DEFINE told == http_err(s)
           freed == FreePcb(told)
           t == Released(freed)
<1>1. Gone(s) = t
  BY DEF Gone, Released
<1>2. IsWhole(told) /\ Rest(s, told) /\ told.pcb = s.pcb /\ HsOk(told.hs)
  <2>1. CASE s.pcb.cb = "http" /\ s.pcb.arg
    BY <2>1, StateFreedRest, NoHsOk DEF http_err, Owned
  <2>2. CASE ~(s.pcb.cb = "http" /\ s.pcb.arg)
    <3>1. told = s
      BY <2>2 DEF http_err
    <3> HIDE DEF told
    <3> QED
      BY <3>1 DEF Owned, Rest, Kept
  <2> QED
    BY <2>1, <2>2
<1> HIDE DEF told
<1>3. CASE s.pcb.state # "CLOSED"
  <2>1. /\ IsWhole(freed) /\ Rest(told, freed) /\ freed.hs = told.hs
        /\ freed.pcb = FreedPcb(s.pcb.arg, s.pcb.cb, s.pcb.rxclosed)
    BY <1>2, <1>3, PcbFreedRest
  <2>2. Free(freed.pcb)
    BY <2>1, FreedIs
  <2> HIDE DEF freed
  <2>3. /\ Rest(freed, t) /\ t.hs = freed.hs /\ t.pcb.arg = FALSE /\ t.pcb.cb = "none"
        /\ Free(t.pcb)
    BY <2>1, <2>2, LetGoRest
  <2> HIDE DEF t
  <2>4. Rest(s, t) /\ HsOk(t.hs)
    BY <1>2, <2>1, <2>3 DEF Rest
  <2>5. Goes(s, t, hn)
    BY <2>3, <2>4, FreeGood DEF Rest
  <2> QED
    BY <1>1, <2>5
<1>4. CASE s.pcb.state = "CLOSED"
  <2>1. freed = Blame(told, "pcb freed twice")
    BY <1>2, <1>4 DEF FreePcb
  <2> HIDE DEF freed
  <2>2. /\ IsWhole(freed) /\ Rest(told, freed) /\ freed.hs = told.hs /\ freed.pcb = s.pcb
    <3>1. IsWhole(told)
      BY <1>2
    <3> QED
      BY <1>2, <2>1, <3>1, BlameRest
  <2>3. Fields(s.pcb) /\ Good(s, hn)
    BY <1>4 DEF Good
  <2>4. /\ Rest(freed, t) /\ t.hs = freed.hs /\ t.pcb.arg = FALSE /\ t.pcb.cb = "none"
        /\ SameQueues(s.pcb, t.pcb) /\ Fields(t.pcb) /\ t.pcb.state = s.pcb.state
    BY <2>2, <2>3, LetGoRest
  <2> HIDE DEF t
  <2>5. Rest(s, t) /\ HsOk(t.hs)
    BY <1>2, <2>2, <2>4 DEF Rest
  <2>6. Place(t)
    BY <1>4, <2>4, <2>5 DEF Place, HsOk, Sending
  <2>7. Goes(s, t, hn)
    BY <2>3, <2>4, <2>5, <2>6, SmallGood DEF Rest, Kept
  <2> QED
    BY <1>1, <2>7
<1> QED
  BY <1>3, <1>4

\* Who aborts a pcb frees it.
LEMMA AbortGood ==
    ASSUME NEW s, Owned(s), NEW hn \in Nat, Good(s, hn)
    PROVE  Goes(s, tcp_abort(s), hn)
<1>1. CASE s.pcb.state = "TIME_WAIT"
  <2> DEFINE t == FreePcb(s)
  <2>1. /\ Rest(s, t) /\ t.hs = s.hs
        /\ t.pcb = FreedPcb(s.pcb.arg, s.pcb.cb, s.pcb.rxclosed)
    BY <1>1, PcbFreedRest DEF Owned
  <2> HIDE DEF t
  <2>2. Free(t.pcb) /\ t.pcb.arg = s.pcb.arg /\ t.pcb.cb = s.pcb.cb
    BY <2>1, FreedIs
  <2>3. s.pcb.arg = FALSE
    BY <1>1 DEF Owned, Sending
  <2>4. Goes(s, t, hn)
    BY <2>1, <2>2, <2>3, GoodKept, FreeGood DEF Rest, Kept
  <2>5. tcp_abort(s) = t
    BY <1>1 DEF tcp_abort, t
  <2> QED
    BY <2>4, <2>5
<1>2. CASE s.pcb.state # "TIME_WAIT"
  BY <1>2, GoodKept, GoneGood DEF tcp_abort
<1> QED
  BY <1>1, <1>2

-----------------------------------------------------------------------------
(***************************************************************************)
(* Closing                                                                 *)
(***************************************************************************)

\* The fields that no queue shares.
SameFields(c, d) ==
    /\ d.nrtx = c.nrtx /\ d.infr = c.infr /\ d.snd_wnd = c.snd_wnd /\ d.unread = c.unread
    /\ d.arg = c.arg /\ d.cb = c.cb /\ d.polltmr = c.polltmr /\ d.age = c.age

LEMMA TimeWaitIs ==
    ASSUME NEW c, IsPcb(c)
    PROVE  LET d == ToTimeWait(c)
           IN  /\ IsPcb(d) /\ d.state = "TIME_WAIT" /\ d.unsent = <<>> /\ d.unacked = <<>>
               /\ d.lastack = c.lastack /\ d.snd_nxt = c.snd_nxt /\ d.snd_lbb = c.snd_lbb
               /\ SameFields(c, d) /\ d.rxclosed = c.rxclosed
  BY DEF ToTimeWait, tcp_pcb_purge, IsPcb, PcbFields, SameFields

\* Who is in TIME-WAIT has nothing on its queues.
LEMMA TimeWaitGood ==
    ASSUME NEW s, NEW hn \in Nat, Good(s, hn), NEW c, IsPcb(c), Fields(c), c.arg = FALSE,
           NEW t, t.pcb = ToTimeWait(c), t.hs = s.hs, Rest(s, t)
    PROVE  Goes(s, t, hn)
<1>1. /\ t.pcb.state = "TIME_WAIT" /\ t.pcb.unsent = <<>> /\ t.pcb.unacked = <<>>
      /\ t.pcb.lastack = c.lastack /\ t.pcb.snd_nxt = c.snd_nxt
      /\ t.pcb.snd_lbb = c.snd_lbb /\ SameFields(c, t.pcb)
  BY TimeWaitIs
<1>2. Fields(t.pcb)
  <2>1. <<>> \in Seq(Segment)
    OBVIOUS
  <2> QED
    BY <1>1, <2>1 DEF Fields, SameFields
<1>3. t.pcb.state \notin Active /\ t.pcb.state \notin Sending
  BY <1>1 DEF Active, Sending, Closing
<1>4. t.pcb.arg = FALSE
  BY <1>1 DEF SameFields
<1>5. Place(t)
  BY <1>3, <1>4 DEF Place, Good
<1>6. t.wire = s.wire /\ t.other \in BOOLEAN /\ (s.other => t.other) /\ t.errs \in Nat
  BY DEF Rest, Good
<1> QED
  BY <1>1, <1>2, <1>3, <1>5, <1>6, GoodFrom

\* tcp_close notes that the application closed.
Shut(c) == [c EXCEPT !.rxclosed = TRUE]

LEMMA ShutIs ==
    ASSUME NEW c, IsPcb(c)
    PROVE  LET d == Shut(c)
           IN  /\ IsPcb(d) /\ d.state = c.state /\ SameQueues(c, d) /\ SameFields(c, d)
               /\ d.rxclosed = TRUE
  BY DEF IsPcb, PcbFields, Shut, SameQueues, SameFields

\* The pcb goes from the state it is in to the next, with its FIN queued.
Ending(c, state) == [c EXCEPT !.state = state]

LEMMA EndingIs ==
    ASSUME NEW c, IsPcb(c), NEW state
    PROVE  LET d == Ending(c, state)
           IN  /\ IsPcb(d) /\ d.state = state /\ SameQueues(c, d) /\ SameFields(c, d)
               /\ d.rxclosed = c.rxclosed
  BY DEF IsPcb, PcbFields, Ending, SameQueues, SameFields

LEMMA WithPcb ==
    ASSUME NEW s, IsWhole(s), NEW c, IsPcb(c)
    PROVE  LET t == [s EXCEPT !.pcb = c]
           IN  IsWhole(t) /\ t.pcb = c /\ t.hs = s.hs /\ Rest(s, t) /\ t.fault = s.fault
  BY DEF IsWhole, Rest

LEMMA SameFieldsKept ==
    ASSUME NEW c, NEW d, Fields(c), SameFields(c, d), SameQueues(c, d)
    PROVE  Fields(d)
  BY DEF Fields, SameFields, SameQueues

\* tcp_close of a pcb that the application has let go of.
LEMMA CloseGood ==
    ASSUME NEW s, IsWhole(s), NEW hn \in Nat, Good(s, hn), s.pcb.state \in Active,
           s.pcb.arg = FALSE, NEW mem
    PROVE  Goes(s, tcp_close(s, mem), hn)
<1> DEFINE c == Shut(s.pcb)
           t == tcp_close(s, mem)
<1>1. /\ IsPcb(c) /\ c.state = s.pcb.state /\ SameQueues(s.pcb, c) /\ SameFields(s.pcb, c)
  BY ShutIs DEF IsWhole
<1>2. t = CASE c.state \in Sending /\ c.unread > 0 ->
                 IF c.state = "ESTABLISHED" THEN [s EXCEPT !.pcb = ToTimeWait(c)]
                 ELSE FreePcb([s EXCEPT !.pcb = c])
            [] c.state \in Sending /\ c.unread = 0 /\ FinHasPlace(c, mem) ->
                 [s EXCEPT !.pcb = [tcp_send_fin(c) EXCEPT !.state =
                     IF @ = "ESTABLISHED" THEN "FIN_WAIT_1" ELSE "LAST_ACK"]]
            [] OTHER -> [s EXCEPT !.pcb = c, !.errs = IF mem THEN @ ELSE @ + 1]
  BY DEF tcp_close, Shut
<1> HIDE DEF c, t
<1>3. Fields(s.pcb) /\ Fields(c) /\ c.arg = FALSE /\ c.unread = s.pcb.unread
  <2>1. Fields(s.pcb)
    BY DEF Good
  <2> QED
    BY <1>1, <2>1, SameFieldsKept DEF SameFields
<1>4. CASE c.state \in Sending /\ c.unread > 0 /\ c.state = "ESTABLISHED"
  <2>1. t = [s EXCEPT !.pcb = ToTimeWait(c)]
    BY <1>2, <1>4
  <2>2. t.pcb = ToTimeWait(c) /\ t.hs = s.hs /\ Rest(s, t)
    BY <1>1, <2>1, TimeWaitIs, WithPcb
  <2>3. Goes(s, t, hn)
    BY <1>1, <1>3, <2>2, TimeWaitGood
  <2> QED
    BY <2>3 DEF t
<1>5. CASE c.state \in Sending /\ c.unread > 0 /\ c.state # "ESTABLISHED"
  <2> DEFINE u == [s EXCEPT !.pcb = c]
  <2>1. t = FreePcb(u)
    BY <1>2, <1>5
  <2>2. IsWhole(u) /\ u.pcb = c /\ u.hs = s.hs /\ Rest(s, u)
    BY <1>1, WithPcb
  <2> HIDE DEF u
  <2>3. u.pcb.state # "CLOSED"
    BY <1>5, <2>2 DEF Sending
  <2>4. Rest(u, t) /\ t.hs = u.hs /\ t.pcb = FreedPcb(c.arg, c.cb, c.rxclosed)
    BY <2>1, <2>2, <2>3, PcbFreedRest
  <2>5. Free(t.pcb) /\ t.pcb.arg = FALSE /\ t.pcb.cb \in {"http", "poll", "none"}
    BY <1>3, <2>4, FreedIs, SMTT(40) DEF Fields
  <2>6. Kept(s)
    BY GoodKept
  <2>7. /\ t.wire = s.wire /\ t.other = s.other /\ t.errs = s.errs /\ HsOk(t.hs)
    BY <2>2, <2>4, <2>6 DEF Rest, Kept
  <2>8. Goes(s, t, hn)
    BY <2>5, <2>6, <2>7, FreeGood
  <2> QED
    BY <2>8 DEF t
<1>6. CASE c.state \in Sending /\ ~(c.unread > 0) /\ c.unread = 0 /\ FinHasPlace(c, mem)
  <2> DEFINE e == tcp_send_fin(c)
             st == IF e.state = "ESTABLISHED" THEN "FIN_WAIT_1" ELSE "LAST_ACK"
             d == Ending(e, st)
  <2>1. t = [s EXCEPT !.pcb = d]
    BY <1>2, <1>6 DEF Ending
  <2>2. IsPcb(e)
    BY <1>1, SendFinQuiet DEF Quiet
  <2>3. st \in Closing
    BY DEF Closing
  <2> HIDE DEF st
  <2>4. IsPcb(d) /\ d.state = st /\ SameQueues(e, d) /\ SameFields(e, d)
    BY <2>2, EndingIs
  <2> HIDE DEF d
  <2>5. t.pcb = d /\ t.hs = s.hs /\ Rest(s, t)
    BY <2>1, <2>4, WithPcb
  <2>6. /\ d.unacked = e.unacked /\ d.unsent = e.unsent /\ d.lastack = e.lastack
        /\ d.snd_nxt = e.snd_nxt /\ d.snd_lbb = e.snd_lbb
    BY <2>4 DEF SameQueues
  <2> HIDE DEF e
  <2>7. s.other \in BOOLEAN /\ Stream(c, Queue(c), s.other, hn)
    <3>1. s.other \in BOOLEAN /\ Stream(s.pcb, Queue(s.pcb), s.other, hn)
      BY DEF Good
    <3>2. Queue(c) = Queue(s.pcb)
      BY <1>1 DEF Queue, SameQueues
    <3>3. c.lastack = s.pcb.lastack /\ c.snd_nxt = s.pcb.snd_nxt /\ c.snd_lbb = s.pcb.snd_lbb
      BY <1>1 DEF SameQueues
    <3> QED
      BY <1>1, <3>1, <3>2, <3>3, SameStream
  <2>8. ~s.other => c.snd_lbb = PageLen
    <3>1. s.pcb.state \in Sending /\ ~s.other => s.pcb.snd_lbb = PageLen
      BY DEF Good, Place
    <3> QED
      BY <1>1, <1>6, <3>1 DEF SameQueues
  <2>9. /\ SameButUnsent(c, e) /\ d.unsent \in Seq(Segment)
        /\ d.snd_lbb \in 0 .. PageLen + 1 /\ Stream(d, Queue(d), s.other, hn)
    <3>1. d.state \in Closing /\ c.state \in Sending
      BY <1>6, <2>3, <2>4
    <3> QED
      BY <1>1, <1>3, <2>6, <2>7, <2>8, <3>1, SendFinStream DEF e
  <2>10. d.state \in Active /\ d.state \notin Sending /\ d.arg = FALSE
    BY <1>3, <2>3, <2>4, <2>9 DEF Active, Closing, Sending, SameFields, SameButUnsent
  <2>11. Fields(d)
    BY <1>3, <2>4, <2>6, <2>9 DEF Fields, SameFields, SameButUnsent
  <2>12. Place(t)
    BY <2>5, <2>10 DEF Place, Good
  <2>13. t.wire = s.wire /\ t.other = s.other /\ t.other \in BOOLEAN /\ t.errs \in Nat
    BY <2>5 DEF Rest, Good
  <2>14. d.snd_nxt = s.pcb.snd_nxt
    BY <1>1, <2>6, <2>9 DEF SameButUnsent, SameQueues
  <2>15. Goes(s, t, hn)
    BY <2>5, <2>9, <2>10, <2>11, <2>12, <2>13, <2>14, GoodFrom
  <2> QED
    BY <2>15 DEF t
<1>7. CASE /\ ~(c.state \in Sending /\ c.unread > 0)
           /\ ~(c.state \in Sending /\ c.unread = 0 /\ FinHasPlace(c, mem))
  <2> DEFINE e == IF mem THEN s.errs ELSE s.errs + 1
  <2>1. t = [s EXCEPT !.pcb = c, !.errs = e]
    BY <1>2, <1>7
  <2>2. e \in Nat
    BY DEF Good
  <2> HIDE DEF e
  <2>3. t.pcb = c /\ t.hs = s.hs /\ t.wire = s.wire /\ t.other = s.other /\ t.errs = e
    BY <2>1 DEF IsWhole
  <2>4. Place(t) /\ t.other \in BOOLEAN
    BY <1>1, <1>3, <2>3 DEF Good, Place, SameQueues
  <2>5. Goes(s, t, hn)
    BY <1>1, <1>3, <2>2, <2>3, <2>4, SmallGood
  <2> QED
    BY <2>5 DEF t
<1> QED
  BY <1>3, <1>4, <1>5, <1>6, <1>7 DEF Fields

\* http_close_conn, of a state t that httpd has made of s: the hs may already be changed,
\* and httpd may have its reasons.
Leaves(s, t) ==
    /\ IsWhole(t) /\ t.pcb = s.pcb /\ t.wire = s.wire /\ t.errs = s.errs
    /\ t.other \in BOOLEAN /\ (s.other => t.other)
    /\ t.hs.live = s.hs.live /\ (~s.pcb.arg => t.hs = s.hs)
    /\ s.pcb.state \in Sending /\ ~t.other => s.pcb.snd_lbb = PageLen

LEMMA CloseConnGood ==
    ASSUME NEW s, Owned(s), NEW hn \in Nat, Good(s, hn), s.pcb.state \in Active,
           NEW t, Leaves(s, t), NEW mem
    PROVE  Goes(s, http_close_conn(t, mem), hn)
<1> DEFINE freed == IF t.pcb.arg THEN http_state_free(t) ELSE t
           let == Released(freed)
           closed == tcp_close(let, mem)
           poll == [closed EXCEPT !.pcb.cb = "poll"]
<1>1. IsWhole(t) /\ t.pcb = s.pcb
  BY DEF Leaves
<1>2. IsWhole(freed) /\ freed.pcb = s.pcb /\ Rest(t, freed) /\ HsOk(freed.hs)
  <2>1. CASE s.pcb.arg
    <3>1. t.hs.live = TRUE
      BY <2>1 DEF Owned, Leaves
    <3>2. freed = http_state_free(t)
      BY <1>1, <2>1
    <3> HIDE DEF freed
    <3> QED
      BY <1>1, <3>1, <3>2, StateFreedRest, NoHsOk
  <2>2. CASE ~s.pcb.arg
    <3>1. freed = t /\ t.hs = s.hs
      BY <1>1, <2>2 DEF Leaves
    <3> HIDE DEF freed
    <3>2. HsOk(s.hs)
      BY GoodKept DEF Kept
    <3> QED
      BY <1>1, <3>1, <3>2 DEF Rest
  <2> QED
    BY <2>1, <2>2
<1> HIDE DEF freed
<1>3. /\ IsWhole(let) /\ Rest(freed, let) /\ let.hs = freed.hs
      /\ let.pcb.arg = FALSE /\ let.pcb.cb = "none" /\ let.pcb.state = s.pcb.state
      /\ SameQueues(s.pcb, let.pcb) /\ Fields(let.pcb)
  <2>1. IsWhole(freed) /\ Fields(freed.pcb)
    BY <1>2 DEF Good
  <2> QED
    BY <1>2, <2>1, LetGoRest
<1> HIDE DEF let
<1>4. Goes(s, let, hn)
  <2>1. /\ let.wire = s.wire /\ let.other = t.other /\ let.errs = s.errs
        /\ let.other \in BOOLEAN /\ (s.other => let.other) /\ let.errs \in Nat
    BY <1>2, <1>3 DEF Rest, Leaves, Good
  <2>2. s.pcb.state \in Sending /\ ~let.other => s.pcb.snd_lbb = PageLen
    BY <2>1 DEF Leaves
  <2>3. let.pcb.snd_lbb = s.pcb.snd_lbb
    BY <1>3 DEF SameQueues
  <2>4. Place(let)
    BY <1>2, <1>3, <2>2, <2>3 DEF Place, HsOk
  <2> QED
    BY <1>3, <2>1, <2>4, SmallGood
<1>5. Goes(let, closed, hn)
  <2>1. Good(let, hn)
    BY <1>4 DEF Goes
  <2> QED
    BY <1>3, <2>1, CloseGood
<1>6. Owned(closed) /\ closed.pcb.arg = FALSE
  <2>1. let.hs.live = FALSE
    <3>1. freed.hs.live = FALSE
      BY <1>1, StateFreed DEF Owned, Leaves, freed
    <3> QED
      BY <1>3, <3>1
  <2> QED
    <3>1. let.pcb.state \in Active /\ IsWhole(let) /\ let.pcb.arg = FALSE /\ let.pcb.cb = "none"
      BY <1>3
    <3>2. Served(let, closed) /\ closed.pcb.arg = FALSE
      BY <2>1, <3>1, CloseServed
    <3> QED
      BY <3>2 DEF Served
<1> HIDE DEF closed
<1>7. Goes(closed, poll, hn)
  <2>1. /\ poll.pcb.state = closed.pcb.state /\ SameQueues(closed.pcb, poll.pcb)
        /\ poll.hs = closed.hs /\ Rest(closed, poll) /\ poll.pcb.cb = "poll"
        /\ poll.pcb.nrtx = closed.pcb.nrtx /\ poll.pcb.infr = closed.pcb.infr
        /\ poll.pcb.snd_wnd = closed.pcb.snd_wnd /\ poll.pcb.unread = closed.pcb.unread
        /\ poll.pcb.arg = closed.pcb.arg /\ poll.pcb.polltmr = closed.pcb.polltmr
        /\ poll.pcb.age = closed.pcb.age
    BY <1>6 DEF Owned, IsWhole, IsPcb, PcbFields, SameQueues, Rest
  <2> HIDE DEF poll
  <2>2. Good(closed, hn)
    BY <1>5 DEF Goes
  <2>3. Fields(poll.pcb)
    BY <2>1, <2>2 DEF Good, Fields, SameQueues
  <2>4. Place(poll)
    BY <2>1, <2>2 DEF Good, Place, SameQueues, Rest
  <2>5. /\ poll.wire = closed.wire /\ poll.other = closed.other /\ poll.other \in BOOLEAN
        /\ poll.errs \in Nat
    BY <2>1, <2>2 DEF Good, Rest
  <2> QED
    BY <2>1, <2>2, <2>3, <2>4, <2>5, SmallGood
<1>8. http_close_conn(t, mem) \in {closed, poll}
  BY DEF http_close_conn, closed, let, freed, Released
<1> QED
  BY <1>4, <1>5, <1>7, <1>8, GoesAfter
-----------------------------------------------------------------------------
(***************************************************************************)
(* The page                                                                *)
(***************************************************************************)

\* http_write gets rid of no more than it was asked to write.
LEMMA WrittenFacts ==
    ASSUME NEW want \in Nat, NEW fails \in 0 .. 2
    PROVE  Written(want, fails) \in 0 .. want
<1>1. 2^0 = 1 /\ 2^1 = 2 /\ 2^2 = 4
  <2>1. 2^0 = 1
    OBVIOUS
  <2>2. 2^1 = 2
    OBVIOUS
  <2>3. 2^2 = 4
    OBVIOUS
  <2> QED
    BY <2>1, <2>2, <2>3
<1>2. want \div 1 \in 0 .. want /\ want \div 2 \in 0 .. want /\ want \div 4 \in 0 .. want
  OBVIOUS
<1>3. want \div 2^fails \in 0 .. want
  <2>1. CASE fails = 0
    BY <1>1, <1>2, <2>1
  <2>2. CASE fails = 1
    BY <1>1, <1>2, <2>2
  <2>3. CASE fails = 2
    BY <1>1, <1>2, <2>3
  <2> QED
    BY <2>1, <2>2, <2>3
<1> DEFINE n == want \div 2^fails
<1> HIDE DEF n
<1>4. Written(want, fails) = IF fails > 0 /\ n <= 1 THEN 0 ELSE n
  BY DEF Written, n
<1>5. n \in 0 .. want
  BY <1>3 DEF n
<1> QED
  BY <1>4, <1>5

\* What is written of the page.
Sends(s, c, file, errs) == [s EXCEPT !.pcb = c, !.hs.file = file, !.errs = errs]

LEMMA SendsIs ==
    ASSUME NEW s, IsWhole(s), NEW c, IsPcb(c), NEW file, NEW errs
    PROVE  LET t == Sends(s, c, file, errs)
           IN  /\ IsWhole(t) /\ t.pcb = c /\ t.hs.file = file /\ t.errs = errs
               /\ t.hs.live = s.hs.live /\ t.hs.handle = s.hs.handle
               /\ t.hs.retries = s.hs.retries /\ t.wire = s.wire /\ t.other = s.other
               /\ t.fault = s.fault
  BY DEF IsWhole, IsHs, Sends

\* How much of the page fits.
LEMMA WantFacts ==
    ASSUME NEW s, NEW hn \in Nat, Good(s, hn), s.pcb.arg = TRUE, s.pcb.state \in Sending
    PROVE  /\ Want(s) \in Nat /\ s.hs.file = s.pcb.snd_lbb /\ s.hs.file \in Nat
           /\ \A n \in 0 .. Want(s) : Room(s.pcb, n) /\ s.hs.file + n \in 0 .. PageLen
<1> DEFINE c == s.pcb
           x == c.snd_lbb
           a == c.lastack
           b == SndBuf(c)
           w == Want(s)
<1>1. s.hs.file = x /\ Fields(c) /\ Stream(c, Queue(c), s.other, hn)
  BY DEF Good, Place, Active
<1>2. x \in Nat /\ a \in Nat /\ x <= PageLen /\ x - a <= TCP_SND_BUF /\ a <= x
  <2>1. s.pcb.state \in Sending /\ hn \in Nat
    OBVIOUS
  <2> QED
    BY <1>1, <2>1, SendingFacts
<1>3. PageLen \in Nat /\ TCP_SND_BUF \in Nat /\ TCP_MSS \in Nat
  BY Sizes
<1>4. b = TCP_SND_BUF - (x - a)
  BY DEF SndBuf
<1>5. w = AtMost(AtMost(b, PageLen - x), 2 * TCP_MSS)
  BY <1>1 DEF Want
<1> HIDE DEF x, a, b, w
<1>6. b \in Nat /\ PageLen - x \in Nat /\ 2 * TCP_MSS \in Nat
  BY <1>2, <1>3, <1>4
<1>7. w \in Nat /\ w <= b /\ w <= PageLen - x
  BY <1>5, <1>6 DEF AtMost
<1>8. ASSUME NEW n \in 0 .. w
      PROVE  n <= b /\ x + n <= PageLen /\ x + n \in 0 .. PageLen
  BY <1>2, <1>3, <1>6, <1>7
<1>9. \A n \in 0 .. w : Room(c, n) /\ x + n \in 0 .. PageLen
  BY <1>8 DEF Room, b, x
<1> QED
  BY <1>1, <1>2, <1>7, <1>9 DEF w, x

\* http_send writes on where it was, and closes behind the page.
LEMMA SendGood ==
    ASSUME NEW s, Owned(s), NEW hn \in Nat, Good(s, hn), s.pcb.arg = TRUE,
           s.hs.handle = TRUE, NEW fails \in 0 .. 2, NEW mem
    PROVE  Goes(s, http_send(s, fails, mem), hn)
<1> DEFINE w == Want(s)
           n == Written(w, fails)
           d == tcp_write(s.pcb, s.hs.file, n)
           e == IF n < w THEN s.errs + 1 ELSE s.errs
           file == s.hs.file + n
           sent == Sends(s, d, file, e)
<1>1. s.pcb.state \in Sending /\ s.pcb.state \in Active /\ IsWhole(s) /\ IsPcb(s.pcb)
  BY DEF Owned, Active, IsWhole
<1>2. /\ w \in Nat /\ s.hs.file = s.pcb.snd_lbb /\ s.hs.file \in Nat
      /\ \A m \in 0 .. w : Room(s.pcb, m) /\ s.hs.file + m \in 0 .. PageLen
  BY <1>1, WantFacts
<1>3. http_send(s, fails, mem) = IF sent.hs.file = PageLen THEN http_close_conn(sent, mem)
                                 ELSE sent
  BY DEF http_send, http_eof, Sends
<1> HIDE DEF w
<1>4. n \in 0 .. w /\ n \in Nat
  BY <1>2, WrittenFacts
<1> HIDE DEF n
<1>5. Room(s.pcb, n) /\ file \in 0 .. PageLen
  BY <1>2, <1>4
<1>6. e \in Nat
  BY DEF Good
<1> HIDE DEF e, file
<1>7. Fields(s.pcb) /\ Stream(s.pcb, Queue(s.pcb), s.other, hn)
  BY <1>1 DEF Good
<1>8. /\ IsPcb(d) /\ SameButUnsent(s.pcb, d) /\ d.unsent \in Seq(Segment)
      /\ d.snd_lbb = s.pcb.snd_lbb + n /\ Stream(d, Queue(d), s.other, hn)
  <2>1. d = tcp_write(s.pcb, s.pcb.snd_lbb, n)
    BY <1>2
  <2> HIDE DEF d
  <2> QED
    BY <1>1, <1>4, <1>5, <1>7, <2>1, WriteStream
<1> HIDE DEF d
<1>9. d.snd_lbb = file
  BY <1>2, <1>8 DEF file
<1>10. /\ IsWhole(sent) /\ sent.pcb = d /\ sent.hs.file = file /\ sent.errs = e
       /\ sent.hs.live = s.hs.live /\ sent.hs.handle = s.hs.handle
       /\ sent.hs.retries = s.hs.retries /\ sent.wire = s.wire /\ sent.other = s.other
       /\ sent.fault = s.fault
  BY <1>1, <1>8, SendsIs
<1> HIDE DEF sent
<1>11. Fields(d)
  <2>1. file \in 0 .. PageLen + 1
    BY <1>5, Sizes
  <2> QED
    BY <1>7, <1>8, <1>9, <2>1 DEF Fields, SameButUnsent
<1>12. d.state = s.pcb.state /\ d.arg = TRUE /\ d.snd_nxt = s.pcb.snd_nxt
  BY <1>8 DEF SameButUnsent
<1>13. Place(sent)
  BY <1>5, <1>9, <1>10, <1>12 DEF Place, Good
<1>14. sent.other \in BOOLEAN
  BY <1>10 DEF Good
<1>15. Goes(s, sent, hn)
  BY <1>1, <1>6, <1>8, <1>10, <1>11, <1>12, <1>13, <1>14, GoodFrom
<1>16. CASE file = PageLen
  <2>1. Owned(sent)
    <3>1. SameOwner(s, sent)
      BY <1>8, <1>10 DEF SameOwner, Quiet, SameButUnsent
    <3> QED
      BY <3>1, SameOwnerOwned
  <2>2. Leaves(sent, sent)
    BY <1>9, <1>10, <1>14, <1>16 DEF Leaves
  <2>3. Good(sent, hn) /\ sent.pcb.state \in Active
    BY <1>1, <1>10, <1>12, <1>15 DEF Goes
  <2>4. Goes(sent, http_close_conn(sent, mem), hn)
    BY <2>1, <2>2, <2>3, CloseConnGood
  <2> QED
    BY <1>3, <1>10, <1>15, <1>16, <2>4, GoesAfter
<1>17. CASE file # PageLen
  BY <1>3, <1>10, <1>15, <1>17
<1> QED
  BY <1>16, <1>17

\* Only the counters of the hs change, or the page is found.
LEMMA HsGood ==
    ASSUME NEW s, NEW hn \in Nat, Good(s, hn), NEW t, t.pcb = s.pcb, Rest(s, t), HsOk(t.hs),
           t.hs.file = s.hs.file, s.hs.handle => t.hs.handle
    PROVE  Goes(s, t, hn)
<1>1. Place(t)
  BY DEF Good, Place, HsOk, Rest
<1>2. SameQueues(s.pcb, t.pcb) /\ Fields(t.pcb)
  BY DEF SameQueues, Good
<1>3. t.wire = s.wire /\ t.other = s.other /\ t.other \in BOOLEAN /\ t.errs \in Nat
  BY DEF Good, Rest
<1> QED
  BY <1>1, <1>2, <1>3, SmallGood

Counted(s, r) == [s EXCEPT !.hs.retries = r]

LEMMA CountedIs ==
    ASSUME NEW s, IsWhole(s), NEW r
    PROVE  LET t == Counted(s, r)
           IN  /\ IsWhole(t) /\ t.pcb = s.pcb /\ Rest(s, t) /\ t.hs.retries = r
               /\ t.hs.live = s.hs.live /\ t.hs.handle = s.hs.handle
               /\ t.hs.file = s.hs.file /\ t.fault = s.fault
  BY DEF IsWhole, IsHs, Counted, Rest

LEMMA CountedGood ==
    ASSUME NEW s, Owned(s), NEW hn \in Nat, Good(s, hn),
           NEW r \in 0 .. HTTPD_MAX_RETRIES - 1
    PROVE  LET t == Counted(s, r)
           IN  /\ Goes(s, t, hn) /\ Owned(t) /\ t.pcb = s.pcb /\ t.hs.handle = s.hs.handle
<1> DEFINE t == Counted(s, r)
<1>1. /\ IsWhole(t) /\ t.pcb = s.pcb /\ Rest(s, t) /\ t.hs.retries = r
      /\ t.hs.live = s.hs.live /\ t.hs.handle = s.hs.handle
      /\ t.hs.file = s.hs.file /\ t.fault = s.fault
  BY CountedIs DEF Owned
<1> HIDE DEF t
<1>2. HsOk(t.hs)
  <2>1. HsOk(s.hs)
    BY GoodKept DEF Kept
  <2> QED
    BY <1>1, <2>1 DEF HsOk
<1>3. Goes(s, t, hn)
  BY <1>1, <1>2, HsGood
<1>4. Owned(t)
  BY <1>1 DEF Owned
<1> QED
  BY <1>1, <1>3, <1>4 DEF t

LEMMA SentGood ==
    ASSUME NEW s, Owned(s), NEW hn \in Nat, Good(s, hn), s.pcb.arg = TRUE,
           s.hs.handle = TRUE, NEW fails \in 0 .. 2, NEW mem
    PROVE  Goes(s, http_sent(s, fails, mem), hn)
<1> DEFINE t == Counted(s, 0)
<1>1. 0 \in 0 .. HTTPD_MAX_RETRIES - 1
  BY Sizes
<1>2. Goes(s, t, hn) /\ Owned(t) /\ t.pcb = s.pcb /\ t.hs.handle = s.hs.handle
  BY <1>1, CountedGood
<1>3. http_sent(s, fails, mem) = http_send(t, fails, mem)
  BY DEF http_sent, WithHs, Owned, Counted
<1> HIDE DEF t
<1>4. Goes(t, http_send(t, fails, mem), hn)
  <2>1. Good(t, hn) /\ t.pcb.arg = TRUE /\ t.hs.handle = TRUE /\ Owned(t)
    BY <1>2 DEF Goes
  <2> QED
    BY <2>1, SendGood
<1> QED
  BY <1>2, <1>3, <1>4, GoesAfter

\* httpd has a reason of its own to close.
Told(s) == [s EXCEPT !.other = TRUE]

LEMMA ToldLeaves ==
    ASSUME NEW s, NEW hn, Good(s, hn), NEW t, IsWhole(t), t.pcb = s.pcb, Rest(s, t),
           t.hs.live = s.hs.live, ~s.pcb.arg => t.hs = s.hs
    PROVE  Leaves(s, Told(t))
<1> DEFINE u == Told(t)
<1>1. /\ IsWhole(u) /\ u.pcb = t.pcb /\ u.hs = t.hs /\ u.wire = t.wire /\ u.errs = t.errs
      /\ u.other = TRUE
  BY DEF Told, IsWhole
<1> HIDE DEF u
<1>2. Leaves(s, u)
  BY <1>1 DEF Leaves, Rest
<1> QED
  BY <1>2 DEF u

LEMMA PollGood ==
    ASSUME NEW s, Owned(s), NEW hn \in Nat, Good(s, hn), s.pcb.state \in Active,
           NEW fails \in 0 .. 2, NEW mem
    PROVE  Goes(s, http_poll(s, fails, mem), hn)
<1> DEFINE r == s.hs.retries + 1
           again == Counted(s, r)
           t == http_poll(s, fails, mem)
<1>1. t = IF ~s.pcb.arg THEN http_close_conn(s, mem)
          ELSE WithHs(s,
                 IF again.hs.retries = HTTPD_MAX_RETRIES THEN http_close_conn(Told(again), mem)
                 ELSE IF s.hs.handle THEN http_send(again, fails, mem) ELSE again)
  BY DEF http_poll, Told, Counted
<1>2. /\ IsWhole(again) /\ again.pcb = s.pcb /\ Rest(s, again) /\ again.hs.retries = r
      /\ again.hs.live = s.hs.live
  BY CountedIs DEF Owned
<1>3. s.hs.retries \in 0 .. HTTPD_MAX_RETRIES - 1 /\ s.hs.handle \in BOOLEAN
  BY DEF Good, Place
<1> HIDE DEF t
<1>4. CASE ~s.pcb.arg
  <2>1. Leaves(s, s)
    <3>1. s.other \in BOOLEAN /\ (s.pcb.state \in Sending /\ ~s.other => s.pcb.snd_lbb = PageLen)
      BY <1>4 DEF Good, Place
    <3> QED
      BY <3>1 DEF Leaves, Owned
  <2>2. t = http_close_conn(s, mem)
    BY <1>1, <1>4
  <2>3. Goes(s, t, hn)
    BY <2>1, <2>2, CloseConnGood
  <2> QED
    BY <2>3 DEF t
<1>5. CASE s.pcb.arg /\ r = HTTPD_MAX_RETRIES
  <2>1. t = http_close_conn(Told(again), mem)
    BY <1>1, <1>2, <1>5 DEF WithHs, Owned
  <2> HIDE DEF again
  <2>2. Leaves(s, Told(again))
    BY <1>2, <1>5, ToldLeaves
  <2>3. Goes(s, t, hn)
    BY <2>1, <2>2, CloseConnGood
  <2> QED
    BY <2>3 DEF t
<1>6. CASE s.pcb.arg /\ r # HTTPD_MAX_RETRIES
  <2>1. t = IF s.hs.handle THEN http_send(again, fails, mem) ELSE again
    BY <1>1, <1>2, <1>6 DEF WithHs, Owned
  <2>2. r \in 0 .. HTTPD_MAX_RETRIES - 1
    <3> DEFINE k == s.hs.retries
    <3>1. HTTPD_MAX_RETRIES \in Nat
      BY Sizes
    <3>2. k \in 0 .. HTTPD_MAX_RETRIES - 1 /\ k + 1 # HTTPD_MAX_RETRIES
      BY <1>3, <1>6
    <3> HIDE DEF k
    <3>3. k + 1 \in 0 .. HTTPD_MAX_RETRIES - 1
      BY <3>1, <3>2
    <3> QED
      BY <3>3 DEF k
  <2>3. Goes(s, again, hn) /\ Owned(again) /\ again.hs.handle = s.hs.handle
    BY <2>2, CountedGood
  <2> HIDE DEF again
  <2>4. CASE s.hs.handle
    <3>1. Good(again, hn) /\ again.pcb.arg = TRUE /\ again.hs.handle = TRUE
      BY <1>2, <1>3, <1>6, <2>3, <2>4 DEF Goes, Owned
    <3>2. Goes(again, t, hn)
      BY <2>1, <2>3, <2>4, <3>1, SendGood
    <3>3. Goes(s, t, hn)
      BY <2>3, <3>2, GoesAfter
    <3> QED
      BY <3>3 DEF t
  <2>5. CASE ~s.hs.handle
    BY <2>1, <2>3, <2>5 DEF t
  <2> QED
    BY <2>4, <2>5
<1> QED
  BY <1>4, <1>5, <1>6

\* The text or the FIN is taken.
Takes(s, u) == [s EXCEPT !.pcb.unread = u]

LEMMA TakesIs ==
    ASSUME NEW s, IsWhole(s), NEW u
    PROVE  LET t == Takes(s, u)
           IN  /\ IsWhole(t) /\ t.hs = s.hs /\ Rest(s, t) /\ t.fault = s.fault
               /\ t.pcb.unread = u /\ t.pcb.state = s.pcb.state /\ SameQueues(s.pcb, t.pcb)
               /\ t.pcb.nrtx = s.pcb.nrtx /\ t.pcb.infr = s.pcb.infr
               /\ t.pcb.snd_wnd = s.pcb.snd_wnd /\ t.pcb.rxclosed = s.pcb.rxclosed
               /\ t.pcb.arg = s.pcb.arg /\ t.pcb.cb = s.pcb.cb
               /\ t.pcb.polltmr = s.pcb.polltmr /\ t.pcb.age = s.pcb.age
  BY DEF IsWhole, IsPcb, PcbFields, Takes, Rest, SameQueues

LEMMA TakesGood ==
    ASSUME NEW s, Owned(s), NEW hn \in Nat, Good(s, hn), NEW u \in 0 .. 2
    PROVE  LET t == Takes(s, u)
           IN  /\ Goes(s, t, hn) /\ Owned(t) /\ t.pcb.state = s.pcb.state
               /\ t.pcb.arg = s.pcb.arg /\ t.hs = s.hs /\ t.pcb.unread = u
               /\ t.pcb.cb = s.pcb.cb /\ t.pcb.rxclosed = s.pcb.rxclosed
<1> DEFINE t == Takes(s, u)
<1>1. /\ IsWhole(t) /\ t.hs = s.hs /\ Rest(s, t) /\ t.fault = s.fault
      /\ t.pcb.unread = u /\ t.pcb.state = s.pcb.state /\ SameQueues(s.pcb, t.pcb)
      /\ t.pcb.nrtx = s.pcb.nrtx /\ t.pcb.infr = s.pcb.infr
      /\ t.pcb.snd_wnd = s.pcb.snd_wnd /\ t.pcb.rxclosed = s.pcb.rxclosed
      /\ t.pcb.arg = s.pcb.arg /\ t.pcb.cb = s.pcb.cb
      /\ t.pcb.polltmr = s.pcb.polltmr /\ t.pcb.age = s.pcb.age
  BY TakesIs DEF Owned
<1> HIDE DEF t
<1>2. Fields(t.pcb)
  BY <1>1 DEF Good, Fields, SameQueues
<1>3. Place(t)
  BY <1>1 DEF Good, Place, SameQueues, Rest
<1>4. t.wire = s.wire /\ t.other = s.other /\ t.other \in BOOLEAN /\ t.errs \in Nat
  BY <1>1 DEF Good, Rest
<1>5. Goes(s, t, hn)
  BY <1>1, <1>2, <1>3, <1>4, SmallGood
<1>6. Owned(t)
  BY <1>1 DEF Owned
<1> QED
  BY <1>1, <1>5, <1>6 DEF t

\* The page is found.
Found(s) == [s EXCEPT !.hs.handle = TRUE, !.hs.file = 0, !.hs.retries = 0]

LEMMA FoundIs ==
    ASSUME NEW s, IsWhole(s)
    PROVE  LET t == Found(s)
           IN  /\ IsWhole(t) /\ t.pcb = s.pcb /\ Rest(s, t) /\ t.fault = s.fault
               /\ t.hs.live = s.hs.live /\ t.hs.handle = TRUE /\ t.hs.file = 0
               /\ t.hs.retries = 0
  BY DEF IsWhole, IsHs, Found, Rest

LEMMA RecvGood ==
    ASSUME NEW s, Owned(s), NEW hn \in Nat, Good(s, hn), s.pcb.arg = TRUE,
           s.pcb.unread \in 1 .. 2, NEW fails \in 0 .. 2, NEW mem,
           NEW text \in {"partial", "complete", "bad"}
    PROVE  Goes(s, http_recv(s, text, fails, mem), hn)
<1> DEFINE u == s.pcb.unread - 1
           taken == Takes(s, u)
           found == Found(taken)
           t == http_recv(s, text, fails, mem)
<1>1. t = CASE s.hs.handle \/ text = "partial" -> taken
            [] ~s.hs.handle /\ text = "complete" -> http_send(found, fails, mem)
            [] ~s.hs.handle /\ text = "bad" -> http_close_conn(Told(taken), mem)
  BY DEF http_recv, WithHs, Owned, Found, Told, Takes
<1>2. u \in 0 .. 2
  OBVIOUS
<1> HIDE DEF u, t
<1>3. /\ Goes(s, taken, hn) /\ Owned(taken) /\ taken.pcb.state = s.pcb.state
      /\ taken.pcb.arg = s.pcb.arg /\ taken.hs = s.hs
  BY <1>2, TakesGood
<1> HIDE DEF taken
<1>4. Good(taken, hn) /\ IsWhole(taken) /\ s.hs.handle \in BOOLEAN
  BY <1>3 DEF Goes, Owned, Good, Place
<1>5. CASE s.hs.handle \/ text = "partial"
  <2>1. t = taken
    BY <1>1, <1>5
  <2> QED
    BY <1>3, <2>1 DEF t
<1>6. CASE ~s.hs.handle /\ text = "complete"
  <2>1. /\ IsWhole(found) /\ found.pcb = taken.pcb /\ Rest(taken, found)
        /\ found.fault = taken.fault /\ found.hs.live = taken.hs.live
        /\ found.hs.handle = TRUE /\ found.hs.file = 0 /\ found.hs.retries = 0
    BY <1>4, FoundIs
  <2>2. t = http_send(found, fails, mem)
    BY <1>1, <1>6
  <2> HIDE DEF found
  <2>3. taken.hs.file = 0
    BY <1>3, <1>4, <1>6 DEF Good, Place
  <2>4. HsOk(found.hs)
    <3>1. 0 \in 0 .. PageLen /\ 0 \in 0 .. HTTPD_MAX_RETRIES - 1
      BY Sizes
    <3> QED
      BY <2>1, <3>1 DEF HsOk
  <2>5. Goes(taken, found, hn)
    BY <1>4, <2>1, <2>3, <2>4, HsGood
  <2>6. Owned(found) /\ found.pcb.arg = TRUE /\ Good(found, hn)
    BY <1>3, <2>1, <2>5 DEF Owned, Goes
  <2>7. Goes(found, t, hn)
    BY <2>1, <2>2, <2>6, SendGood
  <2>8. Goes(s, t, hn)
    BY <1>3, <2>5, <2>7, GoesAfter
  <2> QED
    BY <2>8 DEF t
<1>7. CASE ~s.hs.handle /\ text = "bad"
  <2>1. t = http_close_conn(Told(taken), mem)
    BY <1>1, <1>7
  <2>2. Leaves(taken, Told(taken))
    <3>1. Rest(taken, taken)
      BY DEF Rest
    <3> QED
      BY <1>4, <3>1, ToldLeaves
  <2>3. taken.pcb.state \in Active
    BY <1>3 DEF Owned, Active
  <2>4. Goes(taken, t, hn)
    BY <1>3, <1>4, <2>1, <2>2, <2>3, CloseConnGood
  <2>5. Goes(s, t, hn)
    BY <1>3, <2>4, GoesAfter
  <2> QED
    BY <2>5 DEF t
<1> QED
  BY <1>4, <1>5, <1>6, <1>7

LEMMA RecvNullGood ==
    ASSUME NEW s, Owned(s), NEW hn \in Nat, Good(s, hn), s.pcb.arg = TRUE, NEW mem
    PROVE  Goes(s, http_recv_null(s, mem), hn)
<1>1. Leaves(s, Told(s))
  <2>1. Rest(s, s)
    BY DEF Rest
  <2> QED
    BY <2>1, ToldLeaves DEF Owned
<1>2. s.pcb.state \in Active
  BY DEF Owned, Active
<1>3. http_recv_null(s, mem) = http_close_conn(Told(s), mem)
  BY DEF http_recv_null, WithHs, Owned, Told
<1> QED
  BY <1>1, <1>2, <1>3, CloseConnGood

-----------------------------------------------------------------------------
(***************************************************************************)
(* tcp_process and tcp_input                                               *)
(***************************************************************************)

\* The window, the text and the age of a segment of the host.
Heard(c, wnd, unread, age) == [c EXCEPT !.snd_wnd = wnd, !.unread = unread, !.age = age]

LEMMA HeardIs ==
    ASSUME NEW c, IsPcb(c), NEW wnd, NEW unread, NEW age
    PROVE  LET d == Heard(c, wnd, unread, age)
           IN  /\ IsPcb(d) /\ d.state = c.state /\ SameQueues(c, d)
               /\ d.snd_wnd = wnd /\ d.unread = unread /\ d.age = age
               /\ d.nrtx = c.nrtx /\ d.infr = c.infr /\ d.arg = c.arg /\ d.cb = c.cb
               /\ d.polltmr = c.polltmr /\ d.rxclosed = c.rxclosed
  BY DEF IsPcb, PcbFields, Heard, SameQueues

\* What tcp_process does behind TakeAck (c0: the pcb as that left it).
Processed(c, c0, ackno, text, fin, wnd) ==
    LET c1 == Heard(c0, wnd, NotTaken(text, fin), IF c.rxclosed THEN c0.age ELSE 0)
        to == NextState(c, ackno, fin)
    IN  IF to = "TIME_WAIT" THEN ToTimeWait(c1)
        ELSE IF to = "CLOSED" THEN c1 ELSE Ending(c1, to)

LEMMA ProcessIs ==
    ASSUME NEW c, NEW ackno, NEW text, NEW fin, NEW third, NEW wnd
    PROVE  tcp_process(c, ackno, text, fin, third, wnd)
             = Processed(c, TakeAck(c, ackno, third), ackno, text, fin, wnd)
  BY DEF tcp_process, Processed, Heard, NotTaken, Ending

Follows(c, c0, d, ackno, text, fin, wnd) ==
    /\ IsPcb(d) /\ d.lastack = c0.lastack /\ d.snd_nxt = c0.snd_nxt
    /\ d.snd_lbb = c0.snd_lbb /\ d.nrtx = c0.nrtx /\ d.infr = c0.infr
    /\ d.arg = c0.arg /\ d.cb = c0.cb /\ d.polltmr = c0.polltmr
    /\ d.snd_wnd = wnd /\ d.unread = NotTaken(text, fin)
    /\ d.age = (IF c.rxclosed THEN c0.age ELSE 0)
    /\ d.state = (IF NextState(c, ackno, fin) = "CLOSED" THEN c.state
                  ELSE NextState(c, ackno, fin))
    /\ \/ /\ NextState(c, ackno, fin) = "TIME_WAIT" /\ c.state \in Closing
          /\ d.unsent = <<>> /\ d.unacked = <<>>
       \/ /\ NextState(c, ackno, fin) # "TIME_WAIT"
          /\ d.unsent = c0.unsent /\ d.unacked = c0.unacked /\ d.state \in Active
          /\ c.state \in Closing => d.state \in Closing
          /\ d.state \in Sending => c.state \in Sending

LEMMA ProcessedIs ==
    ASSUME NEW c, c.state \in Active, NEW c0, IsPcb(c0), c0.state = c.state,
           NEW ackno, NEW text, NEW fin, NEW wnd
    PROVE  Follows(c, c0, Processed(c, c0, ackno, text, fin, wnd), ackno, text, fin, wnd)
<1> DEFINE age == IF c.rxclosed THEN c0.age ELSE 0
           n == NotTaken(text, fin)
           c1 == Heard(c0, wnd, n, age)
           to == NextState(c, ackno, fin)
           d == Processed(c, c0, ackno, text, fin, wnd)
<1>1. d = IF to = "TIME_WAIT" THEN ToTimeWait(c1)
          ELSE IF to = "CLOSED" THEN c1 ELSE Ending(c1, to)
  BY DEF Processed
<1>2. /\ IsPcb(c1) /\ c1.state = c.state /\ SameQueues(c0, c1)
      /\ c1.snd_wnd = wnd /\ c1.unread = n /\ c1.age = age
      /\ c1.nrtx = c0.nrtx /\ c1.infr = c0.infr /\ c1.arg = c0.arg /\ c1.cb = c0.cb
      /\ c1.polltmr = c0.polltmr
  BY HeardIs
<1>3. /\ to \in Active \cup {"TIME_WAIT", "CLOSED"}
      /\ c.state \in Sending => to \in Sending
      /\ to = "CLOSED" => c.state = "LAST_ACK"
      /\ c.state \in Closing => to \in Closing \cup {"TIME_WAIT", "CLOSED"}
  BY DEF NextState, Active, Sending, Closing
<1>4. d.state = (IF to = "CLOSED" THEN c.state ELSE to)
  <2> HIDE DEF c1, to, d
  <2>1. CASE to = "TIME_WAIT"
    BY <1>1, <1>2, <2>1, TimeWaitIs
  <2>2. CASE to = "CLOSED"
    BY <1>1, <1>2, <2>2
  <2>3. CASE to # "TIME_WAIT" /\ to # "CLOSED"
    BY <1>1, <1>2, <2>3, EndingIs
  <2> QED
    BY <2>1, <2>2, <2>3
<1>5. IsPcb(d) /\ SameFields(c1, d) /\ d.lastack = c1.lastack /\ d.snd_nxt = c1.snd_nxt
      /\ d.snd_lbb = c1.snd_lbb
      /\ IF to = "TIME_WAIT" THEN d.unsent = <<>> /\ d.unacked = <<>>
         ELSE d.unsent = c1.unsent /\ d.unacked = c1.unacked
  <2> HIDE DEF c1, to, d
  <2>1. CASE to = "TIME_WAIT"
    BY <1>1, <1>2, <2>1, TimeWaitIs
  <2>2. CASE to = "CLOSED"
    BY <1>1, <1>2, <2>2 DEF SameFields
  <2>3. CASE to # "TIME_WAIT" /\ to # "CLOSED"
    BY <1>1, <1>2, <2>3, EndingIs DEF SameQueues
  <2> QED
    BY <2>1, <2>2, <2>3
<1> HIDE DEF c1, d
<1>6. \/ /\ to = "TIME_WAIT" /\ c.state \in Closing /\ d.unsent = <<>> /\ d.unacked = <<>>
      \/ /\ to # "TIME_WAIT" /\ d.unsent = c0.unsent /\ d.unacked = c0.unacked
         /\ d.state \in Active /\ (c.state \in Closing => d.state \in Closing)
         /\ (d.state \in Sending => c.state \in Sending)
  <2> HIDE DEF to
  <2>1. CASE to = "TIME_WAIT"
    BY <1>3, <1>5, <2>1 DEF Active, Sending
  <2>2. CASE to # "TIME_WAIT"
    <3>1. d.unsent = c0.unsent /\ d.unacked = c0.unacked
      BY <1>2, <1>5, <2>2 DEF SameQueues
    <3>2. /\ d.state \in Active /\ (c.state \in Closing => d.state \in Closing)
          /\ (d.state \in Sending => c.state \in Sending)
      BY <1>3, <1>4, <2>2 DEF Active, Sending, Closing
    <3> QED
      BY <2>2, <3>1, <3>2
  <2> QED
    BY <2>1, <2>2
<1> HIDE DEF to, n, age
<1>7. /\ d.lastack = c0.lastack /\ d.snd_nxt = c0.snd_nxt /\ d.snd_lbb = c0.snd_lbb
      /\ d.nrtx = c0.nrtx /\ d.infr = c0.infr /\ d.arg = c0.arg /\ d.cb = c0.cb
      /\ d.polltmr = c0.polltmr /\ d.snd_wnd = wnd /\ d.unread = n /\ d.age = age
  BY <1>2, <1>5 DEF SameFields, SameQueues
<1> QED
  BY <1>4, <1>5, <1>6, <1>7 DEF Follows, d, to, n, age

\* A segment of the host that is not the third of some duplicate ACKs.
LEMMA ProcessGood ==
    ASSUME NEW s, Owned(s), NEW hn \in Nat, Good(s, hn), s.pcb.state \in Active,
           NEW ackno \in s.pcb.lastack .. hn, NEW text, NEW fin \in BOOLEAN,
           NEW wnd \in SndWnd, NEW third, ~third
    PROVE  LET d == tcp_process(s.pcb, ackno, text, fin, third, wnd)
           IN  /\ Goes(s, [s EXCEPT !.pcb = d], hn)
               /\ d.snd_lbb = s.pcb.snd_lbb
<1> DEFINE c == s.pcb
           c0 == TakeAck(c, ackno, third)
           d == tcp_process(c, ackno, text, fin, third, wnd)
           t == [s EXCEPT !.pcb = d]
<1>1. /\ IsPcb(c) /\ Fields(c) /\ Stream(c, Queue(c), s.other, hn)
      /\ c.arg \in BOOLEAN /\ (c.arg => c.state \in Sending)
  BY DEF Owned, IsWhole, Good
<1>2. /\ ackno \in Int /\ c.lastack <= ackno
      /\ ackno <= c.snd_nxt => ackno \in 0 .. PageLen + 1
  <2>1. c.lastack \in 0 .. PageLen + 1 /\ c.snd_nxt \in 0 .. PageLen + 1
    BY <1>1 DEF Fields
  <2>2. PageLen \in Nat
    BY Sizes
  <2> HIDE DEF c
  <2>3. ackno \in c.lastack .. hn
    BY DEF c
  <2> QED
    BY <2>1, <2>2, <2>3
<1>3. /\ IsPcb(c0) /\ c0.snd_nxt = c.snd_nxt
      /\ c0.snd_lbb = c.snd_lbb /\ c0.arg = c.arg /\ c0.cb = c.cb /\ c0.state = c.state
      /\ c0.nrtx \in 0 .. U8 - 1 /\ c0.infr \in BOOLEAN
      /\ c0.polltmr \in 0 .. HTTPD_POLL_INTERVAL /\ c0.age = c.age
      /\ \/ /\ ackno <= c.snd_nxt /\ c0.lastack = ackno
            /\ c0.unacked = DropAcked(c.unacked, ackno)
            /\ c0.unsent = DropAcked(c.unsent, ackno)
         \/ c0.lastack = c.lastack /\ c0.unacked = c.unacked /\ c0.unsent = c.unsent
  BY <1>1, <1>2, TakeAckIs
<1>4. d = Processed(c, c0, ackno, text, fin, wnd)
  BY ProcessIs
<1> HIDE DEF c0, d
<1>5. Follows(c, c0, d, ackno, text, fin, wnd)
  BY <1>3, <1>4, ProcessedIs
<1>6. t.pcb = d /\ t.hs = s.hs /\ Rest(s, t)
  <2>1. IsPcb(d) /\ IsWhole(s)
    BY <1>5 DEF Follows, Owned
  <2> QED
    BY <2>1, WithPcb
<1> HIDE DEF t
<1>7. /\ d.lastack = c0.lastack /\ d.snd_nxt = c.snd_nxt /\ d.snd_lbb = c.snd_lbb
      /\ d.arg = c.arg /\ d.cb = c.cb
  BY <1>3, <1>5 DEF Follows
<1>a. d.lastack \in 0 .. PageLen + 1
  BY <1>1, <1>2, <1>3, <1>7 DEF Fields
<1>8. ASSUME d.unsent \in Seq(Segment), d.unacked \in Seq(Segment)
      PROVE  Fields(d)
  <2>1. d.age \in 0 .. Timeout
    <3>1. 0 \in 0 .. Timeout /\ c.age \in 0 .. Timeout
      BY <1>1, Sizes DEF Fields
    <3> QED
      BY <1>3, <1>5, <3>1 DEF Follows
  <2>2. d.unread \in 0 .. 2
    BY <1>5 DEF Follows, NotTaken
  <2>3. /\ d.nrtx \in 0 .. U8 - 1 /\ d.infr \in BOOLEAN /\ d.snd_wnd \in SndWnd
        /\ d.polltmr \in 0 .. HTTPD_POLL_INTERVAL
    BY <1>3, <1>5 DEF Follows
  <2> QED
    BY <1>1, <1>7, <1>8, <1>a, <2>1, <2>2, <2>3 DEF Fields
<1>9. /\ t.wire = s.wire /\ t.other = s.other /\ t.other \in BOOLEAN /\ t.errs \in Nat
  BY <1>6 DEF Rest, Good
<1>10. CASE NextState(c, ackno, fin) = "TIME_WAIT"
  <2>1. /\ c.state \in Closing /\ d.unsent = <<>> /\ d.unacked = <<>>
        /\ d.state = "TIME_WAIT"
    BY <1>5, <1>10 DEF Follows
  <2>2. d.arg = FALSE
    BY <1>1, <1>7, <2>1 DEF Closing, Sending
  <2>3. d.state \notin Active /\ d.state \notin Sending
    BY <2>1 DEF Active, Sending, Closing
  <2>4. Fields(d)
    BY <1>8, <2>1
  <2>5. Place(t)
    BY <1>6, <2>2, <2>3 DEF Good, Place
  <2>6. Goes(s, t, hn)
    BY <1>6, <1>9, <2>1, <2>3, <2>4, <2>5, GoodFrom
  <2> QED
    BY <1>7, <2>6 DEF t, d
<1>11. CASE NextState(c, ackno, fin) # "TIME_WAIT"
  <2>1. /\ d.unsent = c0.unsent /\ d.unacked = c0.unacked /\ d.state \in Active
        /\ (c.state \in Closing => d.state \in Closing)
        /\ (d.state \in Sending => c.state \in Sending)
    BY <1>5, <1>11 DEF Follows
  <2>2. /\ Stream(d, Queue(d), s.other, hn)
        /\ d.unacked \in Seq(Segment) /\ d.unsent \in Seq(Segment)
    <3>1. CASE /\ ackno <= c.snd_nxt /\ c0.lastack = ackno
               /\ c0.unacked = DropAcked(c.unacked, ackno)
               /\ c0.unsent = DropAcked(c.unsent, ackno)
      <4>1. /\ d.unacked = DropAcked(c.unacked, ackno) /\ d.lastack = ackno
            /\ d.unsent = DropAcked(c.unsent, ackno)
        BY <1>7, <2>1, <3>1
      <4> QED
        BY <1>1, <1>7, <2>1, <3>1, <4>1, AckStream
    <3>2. CASE c0.lastack = c.lastack /\ c0.unacked = c.unacked /\ c0.unsent = c.unsent
      <4>1. Queue(d) = Queue(c) /\ d.lastack = c.lastack
        BY <1>7, <2>1, <3>2 DEF Queue
      <4>2. s.other \in BOOLEAN
        BY DEF Good
      <4>3. Stream(d, Queue(d), s.other, hn)
        BY <1>1, <1>7, <2>1, <4>1, <4>2, SameStream
      <4> QED
        BY <1>1, <2>1, <3>2, <4>3 DEF Fields
    <3> QED
      BY <1>3, <3>1, <3>2
  <2>3. Fields(d)
    BY <1>8, <2>2
  <2>4. Place(t)
    <3>1. t.pcb.snd_lbb = s.pcb.snd_lbb /\ t.pcb.arg = s.pcb.arg
      BY <1>6, <1>7
    <3> QED
      BY <1>6, <1>9, <2>1, <3>1 DEF Good, Place
  <2>5. Goes(s, t, hn)
    BY <1>6, <1>7, <1>9, <2>1, <2>2, <2>3, <2>4, GoodFrom
  <2> QED
    BY <1>7, <2>5 DEF t, d
<1> QED
  BY <1>10, <1>11

\* Who has sent nothing is not acknowledged: http_sent has found its page before.
LEMMA SentHasPage ==
    ASSUME NEW s, Owned(s), NEW hn \in Nat, Good(s, hn), s.pcb.arg = TRUE,
           NEW ackno \in s.pcb.lastack .. hn, ackno # s.pcb.lastack, ackno <= s.pcb.snd_nxt
    PROVE  s.hs.handle = TRUE
<1> DEFINE a == s.pcb.lastack
           x == s.pcb.snd_nxt
           l == s.pcb.snd_lbb
<1>1. s.pcb.state \in Sending /\ s.pcb.state \in Active
  BY DEF Owned, Active
<1>2. a \in 0 .. PageLen + 1 /\ l = Top(Queue(s.pcb), a) /\ x <= l
  BY <1>1 DEF Good, Stream, Fields
<1>3. x \in 0 .. PageLen + 1 /\ l \in 0 .. PageLen + 1 /\ PageLen \in Nat
  BY Sizes DEF Good, Fields
<1>4. ackno \in a .. hn /\ ackno # a /\ ackno <= x
  OBVIOUS
<1>5. s.hs.handle \in BOOLEAN /\ (~s.hs.handle => l = 0)
  BY DEF Good, Place
<1> HIDE DEF a, x, l
<1>6. l # 0
  BY <1>2, <1>3, <1>4
<1> QED
  BY <1>5, <1>6

LEMMA EventSentGood ==
    ASSUME NEW s, Owned(s), NEW hn \in Nat, Good(s, hn), s.pcb.state # "CLOSED",
           NEW acked, acked /\ s.pcb.arg => s.hs.handle = TRUE,
           NEW fails \in 0 .. 2, NEW mem
    PROVE  LET t == Event_Sent(s, acked, fails, mem) IN Goes(s, t, hn) /\ Served(s, t)
<1> DEFINE t == Event_Sent(s, acked, fails, mem)
<1>1. CASE acked /\ s.pcb.cb = "http"
  <2>1. t = http_sent(s, fails, mem)
    BY <1>1 DEF Event_Sent
  <2>2. s.pcb.arg = TRUE /\ s.hs.handle = TRUE
    BY <1>1 DEF Owned
  <2> QED
    BY <2>1, <2>2, SentGood, SentServed
<1>2. CASE ~(acked /\ s.pcb.cb = "http")
  <2>1. t = s
    BY <1>2 DEF Event_Sent
  <2> HIDE DEF t
  <2>2. SameOwner(s, s)
    BY DEF SameOwner, Quiet, Owned, IsWhole
  <2>3. Goes(s, t, hn) /\ Served(s, t)
    BY <2>1, <2>2, GoesSelf, SameOwnerServed
  <2> QED
    BY <2>3 DEF t
<1> QED
  BY <1>1, <1>2

\* http_recv with the text that tcp_process counted.
LEMMA EventRecvGood ==
    ASSUME NEW s, Owned(s), NEW hn \in Nat, Good(s, hn),
           NEW text \in {"none", "partial", "complete", "bad"}, NEW fails \in 0 .. 2, NEW mem,
           text # "none" => s.pcb.arg = TRUE /\ s.pcb.unread \in 1 .. 2
                            /\ s.pcb.rxclosed = FALSE
    PROVE  LET t == Event_Recv(s, text, fails, mem) IN Goes(s, t, hn) /\ Owned(t)
<1> DEFINE t == Event_Recv(s, text, fails, mem)
<1>1. CASE text = "none"
  <2>1. t = s
    BY <1>1 DEF Event_Recv
  <2> HIDE DEF t
  <2>2. Goes(s, t, hn) /\ Owned(t)
    BY <2>1, GoesSelf
  <2> QED
    BY <2>2 DEF t
<1>2. CASE text # "none"
  <2>1. t = http_recv(s, text, fails, mem)
    BY <1>2 DEF Event_Recv
  <2>2. text \in {"partial", "complete", "bad"}
    BY <1>2
  <2> HIDE DEF t
  <2>3. Goes(s, t, hn)
    BY <1>2, <2>1, <2>2, RecvGood
  <2>4. Owned(t)
    BY <1>2, <2>1, <2>2, RecvServed DEF Served
  <2> QED
    BY <2>3, <2>4 DEF t
<1> QED
  BY <1>1, <1>2

LEMMA EventClosedGood ==
    ASSUME NEW s, Owned(s), NEW hn \in Nat, Good(s, hn), NEW mem
    PROVE  LET t == Event_Closed(s, mem) IN Goes(s, t, hn) /\ IsWhole(t)
<1> DEFINE u == IF s.pcb.unread > 0 THEN s.pcb.unread - 1 ELSE 0
           counted == Takes(s, u)
           t == Event_Closed(s, mem)
<1>1. t = IF s.pcb.state = "CLOSED" THEN Blame(s, "stale pcb")
          ELSE IF s.pcb.cb = "http" THEN http_recv_null(counted, mem) ELSE counted
  BY DEF Event_Closed, Takes
<1>2. u \in 0 .. 2
  <2>1. s.pcb.unread \in 0 .. 2
    BY DEF Good, Fields
  <2> QED
    BY <2>1
<1> HIDE DEF u, t
<1>3. /\ Goes(s, counted, hn) /\ Owned(counted) /\ counted.pcb.arg = s.pcb.arg
  BY <1>2, TakesGood
<1> HIDE DEF counted
<1>4. CASE s.pcb.state = "CLOSED"
  <2>1. t = Blame(s, "stale pcb")
    BY <1>1, <1>4
  <2>2. IsWhole(s)
    BY DEF Owned
  <2>3. Goes(s, t, hn) /\ IsWhole(t)
    BY <2>1, <2>2, BlameGood, BlameRest
  <2> QED
    BY <2>3 DEF t
<1>5. CASE s.pcb.state # "CLOSED" /\ s.pcb.cb = "http"
  <2>1. t = http_recv_null(counted, mem)
    BY <1>1, <1>5
  <2>2. counted.pcb.arg = TRUE /\ Good(counted, hn)
    BY <1>3, <1>5 DEF Owned, Goes
  <2>3. Goes(counted, t, hn)
    BY <1>3, <2>1, <2>2, RecvNullGood
  <2>4. IsWhole(t)
    BY <1>3, <2>1, <2>2, RecvNullServed DEF Served, Owned
  <2>5. Goes(s, t, hn)
    BY <1>3, <2>3, GoesAfter
  <2> QED
    BY <2>4, <2>5 DEF t
<1>6. CASE s.pcb.state # "CLOSED" /\ s.pcb.cb # "http"
  <2>1. t = counted
    BY <1>1, <1>6
  <2> QED
    BY <1>3, <2>1 DEF t, Owned
<1> QED
  BY <1>4, <1>5, <1>6

Proc(s, ackno, text, fin, third, wnd) ==
    [s EXCEPT !.pcb = tcp_process(@, ackno, text, fin, third, wnd)]

IsProc(s, t, text, fin) ==
    /\ Owned(t) /\ t.hs = s.hs /\ t.pcb.state # "CLOSED"
    /\ t.pcb.unread = NotTaken(text, fin) /\ t.pcb.arg = s.pcb.arg

LEMMA ProcOwned ==
    ASSUME NEW s, Owned(s), s.pcb.state \in Active, NEW ackno \in Int,
           NEW text, NEW fin \in BOOLEAN, NEW third, NEW wnd
    PROVE  IsProc(s, Proc(s, ackno, text, fin, third, wnd), text, fin)
<1> DEFINE t == [s EXCEPT !.pcb = tcp_process(@, ackno, text, fin, third, wnd)]
<1>1. /\ Owned(t) /\ t.fault = s.fault /\ t.hs = s.hs
      /\ t.pcb.state # "CLOSED"
      /\ t.pcb.unread = NotTaken(text, fin)
      /\ t.pcb.arg = s.pcb.arg /\ t.pcb.rxclosed = s.pcb.rxclosed
      /\ t.pcb.state = "CLOSE_WAIT" => s.pcb.state = "CLOSE_WAIT" \/ fin
  BY ProcessOwned
<1>2. Proc(s, ackno, text, fin, third, wnd) = t
  BY DEF Proc
<1> HIDE DEF t
<1> QED
  BY <1>1, <1>2 DEF IsProc

LEMMA InputGood ==
    ASSUME NEW s, Owned(s), NEW hn \in Nat, Good(s, hn), s.pcb.state \in Active,
           NEW ackno \in s.pcb.lastack .. hn,
           NEW text \in {"none", "partial", "complete", "bad"}, NEW fin \in BOOLEAN,
           NEW third, ~third, NEW wnd \in SndWnd, NEW fails \in 0 .. 2, NEW mem
    PROVE  Goes(s, tcp_input(s, ackno, text, fin, third, wnd, fails, mem), hn)
<1> DEFINE d == tcp_process(s.pcb, ackno, text, fin, third, wnd)
           s1 == [s EXCEPT !.pcb = d]
           acked == Acked(s.pcb, ackno)
           s2 == Event_Sent(s1, acked, fails, mem)
           s3 == Event_Recv(s2, text, fails, mem)
           s4 == IF fin THEN Event_Closed(s3, mem) ELSE s3
           t == tcp_input(s, ackno, text, fin, third, wnd, fails, mem)
<1>0. t = IF NextState(s.pcb, ackno, fin) = "CLOSED" THEN Gone(s1)
          ELSE IF text # "none" /\ s2.pcb.rxclosed THEN s3
          ELSE IF s4.pcb.state = "CLOSED" THEN Blame(s4, "stale pcb") ELSE s4
  BY DEF tcp_input
<1>1. ackno \in Int
  <2>1. s.pcb.lastack \in 0 .. PageLen + 1 /\ PageLen \in Nat
    BY Sizes DEF Good, Fields
  <2> QED
    BY <2>1
<1>2. /\ Owned(s1) /\ s1.hs = s.hs /\ s1.pcb.state # "CLOSED"
      /\ s1.pcb.unread = NotTaken(text, fin) /\ s1.pcb.arg = s.pcb.arg
  <2>1. IsProc(s, Proc(s, ackno, text, fin, third, wnd), text, fin)
    BY <1>1, ProcOwned
  <2>2. Proc(s, ackno, text, fin, third, wnd) = s1
    BY DEF Proc
  <2> HIDE DEF s1
  <2> QED
    BY <2>1, <2>2 DEF IsProc
<1>3. Goes(s, s1, hn)
  BY ProcessGood
<1> HIDE DEF s1, t, d
<1>4. acked /\ s1.pcb.arg => s1.hs.handle = TRUE
  <2> SUFFICES ASSUME acked, s1.pcb.arg PROVE s1.hs.handle = TRUE
    OBVIOUS
  <2>1. ackno # s.pcb.lastack
    BY NoNewAck DEF Owned, IsWhole
  <2>2. s.pcb.arg = TRUE /\ ackno <= s.pcb.snd_nxt
    BY <1>2 DEF Owned, Acked
  <2> QED
    BY <1>2, <2>1, <2>2, SentHasPage
<1> HIDE DEF acked
<1>5. Goes(s1, s2, hn) /\ Served(s1, s2)
  <2>1. Good(s1, hn)
    BY <1>3 DEF Goes
  <2> QED
    BY <1>2, <1>4, <2>1, EventSentGood
<1> HIDE DEF s2
<1>6. Good(s1, hn) /\ Good(s2, hn) /\ Owned(s2) /\ Goes(s, s2, hn)
  <2>1. Good(s1, hn) /\ Good(s2, hn) /\ Owned(s2)
    BY <1>3, <1>5 DEF Goes, Served
  <2>2. Goes(s, s2, hn)
    BY <1>3, <1>5, GoesAfter
  <2> QED
    BY <2>1, <2>2
<1>7. CASE NextState(s.pcb, ackno, fin) = "CLOSED"
  <2>1. t = Gone(s1)
    BY <1>0, <1>7
  <2>2. Goes(s1, t, hn)
    BY <1>2, <1>6, <2>1, GoodKept, GoneGood
  <2>3. Goes(s, t, hn)
    BY <1>3, <2>2, GoesAfter
  <2> QED
    BY <2>3 DEF t
<1>8. CASE NextState(s.pcb, ackno, fin) # "CLOSED" /\ text # "none" /\ s2.pcb.rxclosed
  <2>1. t = tcp_abort(s2)
    BY <1>0, <1>8 DEF Event_Recv
  <2>2. Goes(s2, t, hn)
    BY <1>6, <2>1, AbortGood
  <2>3. Goes(s, t, hn)
    BY <1>6, <2>2, GoesAfter
  <2> QED
    BY <2>3 DEF t
<1>9. CASE NextState(s.pcb, ackno, fin) # "CLOSED" /\ ~(text # "none" /\ s2.pcb.rxclosed)
  <2>1. t = IF s4.pcb.state = "CLOSED" THEN Blame(s4, "stale pcb") ELSE s4
    BY <1>0, <1>9
  <2>2. text # "none" => s2.pcb.arg = TRUE /\ s2.pcb.unread \in 1 .. 2
                         /\ s2.pcb.rxclosed = FALSE
    <3> SUFFICES ASSUME text # "none"
                 PROVE  s2.pcb.arg = TRUE /\ s2.pcb.unread \in 1 .. 2
                        /\ s2.pcb.rxclosed = FALSE
      OBVIOUS
    <3>1. s2.pcb.rxclosed = FALSE
      BY <1>6, <1>9 DEF Owned
    <3>2. s2.pcb.arg = TRUE
      BY <1>5, <3>1 DEF Served, Owned
    <3>3. s2.pcb.unread = NotTaken(text, fin)
      BY <1>2, <1>5, <3>2 DEF Served
    <3> QED
      BY <3>1, <3>2, <3>3 DEF NotTaken
  <2>3. Goes(s2, s3, hn) /\ Owned(s3)
    BY <1>6, <2>2, EventRecvGood
  <2> HIDE DEF s3
  <2>4. Goes(s3, s4, hn) /\ IsWhole(s4)
    <3>1. Good(s3, hn) /\ IsWhole(s3)
      BY <2>3 DEF Goes, Owned
    <3>2. CASE fin
      <4>1. s4 = Event_Closed(s3, mem)
        BY <3>2
      <4> HIDE DEF s4
      <4> QED
        BY <2>3, <3>1, <4>1, EventClosedGood
    <3>3. CASE ~fin
      <4>1. s4 = s3
        BY <3>3
      <4> HIDE DEF s4
      <4> QED
        BY <3>1, <4>1, GoesSelf
    <3> QED
      BY <3>2, <3>3
  <2> HIDE DEF s4
  <2>5. Goes(s, s4, hn) /\ Good(s4, hn)
    <3>1. Goes(s, s3, hn)
      BY <1>6, <2>3, GoesAfter
    <3>2. Goes(s, s4, hn)
      BY <3>1, <2>4, GoesAfter
    <3> QED
      BY <2>4, <3>2 DEF Goes
  <2>6. Goes(s4, Blame(s4, "stale pcb"), hn)
    BY <2>4, <2>5, BlameGood
  <2>7. Goes(s, Blame(s4, "stale pcb"), hn)
    BY <2>5, <2>6, GoesAfter
  <2>8. Goes(s, t, hn)
    BY <2>1, <2>5, <2>7
  <2> QED
    BY <2>8 DEF t
<1> QED
  BY <1>7, <1>8, <1>9

-----------------------------------------------------------------------------
(***************************************************************************)
(* tcp_output behind a handler                                             *)
(***************************************************************************)

LEMMA SendableFacts ==
    ASSUME NEW c, NEW n \in Sendable(c)
    PROVE  n \in 0 .. Len(c.unsent)
  BY DEF Sendable

LEMMA OutputRest ==
    ASSUME NEW s, IsWhole(s), NEW n
    PROVE  LET t == tcp_output(s, n)
           IN  t.other = s.other /\ t.errs = s.errs /\ t.pcb.state = s.pcb.state
<1> DEFINE u == SubSeq(s.pcb.unsent, n + 1, Len(s.pcb.unsent))
           v == InsertAll(s.pcb.unacked, SubSeq(s.pcb.unsent, 1, n))
           x == Highest(s.pcb.snd_nxt, SubSeq(s.pcb.unsent, 1, n))
           w == s.wire \cup Range(SubSeq(s.pcb.unsent, 1, n))
<1>1. tcp_output(s, n) = Out(s, u, v, x, w)
  BY OutputIs
<1> HIDE DEF u, v, x, w
<1>2. LET t == Out(s, u, v, x, w)
      IN  t.other = s.other /\ t.errs = s.errs /\ t.pcb.state = s.pcb.state
  BY OutIs
<1> QED
  BY <1>1, <1>2

LEMMA OutputGoes ==
    ASSUME NEW s, IsWhole(s), NEW hn \in Nat, Good(s, hn), NEW n \in Sendable(s.pcb)
    PROVE  Goes(s, tcp_output(s, n), hn)
<1>1. n \in 0 .. Len(s.pcb.unsent)
  BY SendableFacts DEF Good
<1>2. Good(tcp_output(s, n), hn)
  BY <1>1, OutputGood
<1> QED
  BY <1>2, OutputRest DEF Goes

\* tcp_rexmit_fast puts the first segment before all that is to be sent.
Again(c, u, v, n) == [c EXCEPT !.unsent = u, !.unacked = v, !.nrtx = n, !.infr = TRUE]

LEMMA AgainIs ==
    ASSUME NEW c, IsPcb(c), NEW u, NEW v, NEW n
    PROVE  LET d == Again(c, u, v, n)
           IN  /\ IsPcb(d) /\ d.unsent = u /\ d.unacked = v /\ d.nrtx = n
               /\ d.infr \in BOOLEAN /\ d.state = c.state /\ d.lastack = c.lastack
               /\ d.snd_nxt = c.snd_nxt /\ d.snd_lbb = c.snd_lbb /\ d.arg = c.arg
               /\ d.cb = c.cb /\ d.snd_wnd = c.snd_wnd /\ d.unread = c.unread
               /\ d.polltmr = c.polltmr /\ d.age = c.age /\ d.rxclosed = c.rxclosed
  BY DEF IsPcb, PcbFields, Again

LEMMA FastIs ==
    ASSUME NEW c, IsPcb(c), Fields(c), NEW other, NEW hn \in Nat,
           Stream(c, Queue(c), other, hn), c.unacked # <<>>, ~c.infr
    PROVE  LET d == tcp_rexmit_fast(c)
           IN  /\ IsPcb(d) /\ d.unsent = <<c.unacked[1]>> \o c.unsent
               /\ d.unacked = Tail(c.unacked) /\ d.nrtx \in 0 .. U8 - 1
               /\ d.unsent \in Seq(Segment) /\ d.unacked \in Seq(Segment)
               /\ Len(d.unsent) \in Nat /\ d.unsent # <<>>
               /\ d.unsent[1] = c.unacked[1] /\ d.unsent[1].seqno <= c.lastack
               /\ d.infr \in BOOLEAN /\ d.state = c.state /\ d.lastack = c.lastack
               /\ d.snd_nxt = c.snd_nxt /\ d.snd_lbb = c.snd_lbb /\ d.arg = c.arg
               /\ d.cb = c.cb /\ d.snd_wnd = c.snd_wnd /\ d.unread = c.unread
               /\ d.polltmr = c.polltmr /\ d.age = c.age /\ d.rxclosed = c.rxclosed
<1> DEFINE a == c.unacked
           b == c.unsent
           q == Queue(c)
           h == a[1]
           u == Insert(b, h)
           r == (c.nrtx + 1) % U8
           d == tcp_rexmit_fast(c)
<1>1. a \in Seq(Segment) /\ b \in Seq(Segment) /\ Linked(q) /\ Head(a) = a[1] /\ c.nrtx \in Nat
  BY DEF Stream, Fields
<1>2. d = Again(c, u, Tail(a), r)
  BY <1>1 DEF tcp_rexmit_fast, Again
<1>3. r \in 0 .. U8 - 1
  <2>1. c.nrtx + 1 \in Nat
    BY <1>1
  <2> QED
    BY <2>1, Sizes
<1>4. h \in Segment /\ Tail(a) \in Seq(Segment) /\ Len(a) \in Nat /\ Len(a) # 0
  BY <1>1
<1>5. /\ q \in Seq(Segment) /\ Len(q) = Len(a) + Len(b)
      /\ (\A i \in 1 .. Len(a) : q[i] = a[i])
      /\ (\A i \in 1 .. Len(b) : q[Len(a) + i] = b[i])
  BY <1>1, Cat, Zenon DEF Queue
<1>6. q[1] = h /\ q # <<>> /\ h.seqno <= c.lastack
  <2>1. 1 \in 1 .. Len(a)
    BY <1>4
  <2>2. q[1] = h
    BY <1>5, <2>1
  <2>3. Len(q) # 0
    <3> DEFINE l == Len(a)
               m == Len(b)
    <3>1. l \in Nat /\ m \in Nat /\ l # 0 /\ Len(q) = l + m
      BY <1>1, <1>4, <1>5
    <3> HIDE DEF l, m
    <3> QED
      BY <3>1
  <2>4. q # <<>>
    BY <2>3
  <2> QED
    BY <2>2, <2>4 DEF Stream
<1> HIDE DEF q
<1>7. ASSUME NEW i \in 1 .. Len(b)
      PROVE  h.seqno <= b[i].seqno
  <2> DEFINE l == Len(a)
             m == Len(b)
             j == l + i
             x == q[1].seqno
             y == q[j].seqno
             e == End(q[1])
  <2>1. l \in Nat /\ l # 0 /\ m \in Nat /\ i \in 1 .. m /\ Len(q) = l + m
    BY <1>1, <1>4, <1>5
  <2> HIDE DEF l, m
  <2>2. 1 \in 1 .. Len(q) /\ j \in 1 .. Len(q) /\ 1 < j
    BY <2>1
  <2> HIDE DEF j
  <2>3. q[1] \in Segment /\ q[j] \in Segment
    <3>1. q \in Seq(Segment)
      BY <1>5
    <3> QED
      BY <2>2, <3>1
  <2>4. x \in Nat /\ y \in Nat /\ e \in Nat
    <3>1. x \in 0 .. PageLen /\ y \in 0 .. PageLen /\ e \in Nat
      BY <2>3, SegFacts
    <3> QED
      BY <3>1
  <2>5. x < e /\ e <= y
    BY <1>1, <2>2 DEF Linked
  <2>6. q[j] = b[i]
    BY <1>5 DEF j, l, m
  <2> HIDE DEF x, y, e
  <2>7. x <= y
    BY <2>4, <2>5
  <2> QED
    BY <1>6, <2>6, <2>7 DEF x, y
<1>8. u = <<h>> \o b
  BY <1>1, <1>4, <1>7, InsertFirst
<1>9. /\ u \in Seq(Segment) /\ Len(u) \in Nat /\ u # <<>> /\ u[1] = h
  <2> DEFINE w == <<h>>
  <2>1. w \in Seq(Segment) /\ Len(w) = 1 /\ w[1] = h
    BY <1>4
  <2> HIDE DEF w
  <2>2. w \o b \in Seq(Segment) /\ Len(w \o b) = 1 + Len(b) /\ (w \o b)[1] = w[1]
    <3>1. 1 \in 1 .. Len(w)
      BY <2>1
    <3> QED
      BY <1>1, <2>1, <3>1, Cat
  <2>3. u = w \o b
    BY <1>8 DEF w
  <2> HIDE DEF u
  <2>4. Len(u) = 1 + Len(b) /\ Len(b) \in Nat
    BY <1>1, <2>2, <2>3
  <2>5. Len(u) # 0 /\ Len(u) \in Nat
    <3> DEFINE m == Len(b)
    <3>1. m \in Nat /\ Len(u) = 1 + m
      BY <2>4
    <3> HIDE DEF m
    <3> QED
      BY <3>1
  <2>6. u # <<>>
    BY <2>5
  <2> QED
    BY <2>1, <2>2, <2>3, <2>5, <2>6
<1> HIDE DEF u, r, d
<1>10. /\ IsPcb(d) /\ d.unsent = u /\ d.unacked = Tail(a) /\ d.nrtx = r
       /\ d.infr \in BOOLEAN /\ d.state = c.state /\ d.lastack = c.lastack
       /\ d.snd_nxt = c.snd_nxt /\ d.snd_lbb = c.snd_lbb /\ d.arg = c.arg
       /\ d.cb = c.cb /\ d.snd_wnd = c.snd_wnd /\ d.unread = c.unread
       /\ d.polltmr = c.polltmr /\ d.age = c.age /\ d.rxclosed = c.rxclosed
  BY <1>2, AgainIs
<1> QED
  BY <1>3, <1>4, <1>6, <1>8, <1>9, <1>10 DEF d

LEMMA FollowsFields ==
    ASSUME NEW c, NEW c0, Fields(c0), NEW d, NEW ackno, NEW text, NEW fin,
           NEW wnd \in SndWnd, Follows(c, c0, d, ackno, text, fin, wnd)
    PROVE  Fields(d)
<1>1. d.unsent \in Seq(Segment) /\ d.unacked \in Seq(Segment)
  <2>1. <<>> \in Seq(Segment) /\ c0.unsent \in Seq(Segment) /\ c0.unacked \in Seq(Segment)
    BY DEF Fields
  <2> QED
    BY <2>1 DEF Follows
<1>2. d.age \in 0 .. Timeout
  <2>1. 0 \in 0 .. Timeout /\ c0.age \in 0 .. Timeout
    BY Sizes DEF Fields
  <2> QED
    BY <2>1 DEF Follows
<1>3. d.unread \in 0 .. 2 /\ d.snd_wnd \in SndWnd
  BY DEF Follows, NotTaken
<1>4. /\ d.lastack = c0.lastack /\ d.snd_nxt = c0.snd_nxt /\ d.snd_lbb = c0.snd_lbb
      /\ d.nrtx = c0.nrtx /\ d.infr = c0.infr /\ d.cb = c0.cb /\ d.polltmr = c0.polltmr
  BY DEF Follows
<1> QED
  BY <1>1, <1>2, <1>3, <1>4 DEF Fields

\* The third duplicate ACK: the first segment is sent again at once.
LEMMA ThirdGood ==
    ASSUME NEW s, Owned(s), NEW hn \in Nat, Good(s, hn), s.pcb.state \in Active,
           s.pcb.unacked # <<>>, InWindow(s.pcb, Head(s.pcb.unacked)), NEW fails, NEW mem,
           NEW t, t = tcp_input(s, s.pcb.lastack, "none", FALSE, TRUE, s.pcb.snd_wnd,
                                fails, mem),
           NEW n \in Sendable(t.pcb), IsWhole(t)
    PROVE  Goes(s, tcp_output(t, n), hn)
<1> DEFINE c == s.pcb
           a == c.lastack
           d0 == tcp_rexmit_fast(c)
           to == NextState(c, a, FALSE)
           w == c.snd_wnd
           y == Proc(s, a, "none", FALSE, TRUE, w)
           z == Proc(s, a, "none", FALSE, FALSE, w)
<1>1. /\ IsWhole(s) /\ IsPcb(c) /\ Fields(c) /\ Stream(c, Queue(c), s.other, hn)
      /\ a \in Int /\ a \in a .. hn /\ w \in SndWnd
  <2>1. IsWhole(s) /\ IsPcb(c) /\ Fields(c) /\ Stream(c, Queue(c), s.other, hn)
    BY DEF Owned, IsWhole, Good
  <2>2. a \in 0 .. PageLen + 1 /\ a <= hn /\ PageLen \in Nat
    BY <2>1, Sizes DEF Fields, Stream
  <2> HIDE DEF a
  <2>3. a \in Int /\ a \in a .. hn
    BY <2>2
  <2>4. w \in SndWnd
    BY <2>1 DEF Fields
  <2> QED
    BY <2>1, <2>3, <2>4
<1>2. IsProc(s, y, "none", FALSE) /\ IsProc(s, z, "none", FALSE)
  BY <1>1, ProcOwned
<1>3. Owned(y) /\ y.pcb.state # "CLOSED" /\ y.hs = s.hs
  BY <1>2 DEF IsProc
<1>4. t = IF to = "CLOSED" THEN Gone(y) ELSE y
  <2> DEFINE s2 == Event_Sent(y, Acked(c, a), fails, mem)
             s3 == Event_Recv(s2, "none", fails, mem)
  <2>1. t = IF to = "CLOSED" THEN Gone(y)
            ELSE IF s3.pcb.state = "CLOSED" THEN Blame(s3, "stale pcb") ELSE s3
    BY DEF tcp_input, Proc
  <2>2. Acked(c, a) = FALSE
    BY <1>1, NoNewAck
  <2>3. s2 = y
    BY <2>2 DEF Event_Sent
  <2> HIDE DEF s2
  <2>4. s3 = s2
    BY DEF Event_Recv
  <2> HIDE DEF s3, y, to
  <2> QED
    BY <1>3, <2>1, <2>3, <2>4
<1>5. Goes(s, z, hn)
  BY <1>1, ProcessGood DEF Proc
<1>6. /\ y = [s EXCEPT !.pcb = y.pcb] /\ z = [s EXCEPT !.pcb = z.pcb]
      /\ Rest(s, y) /\ Rest(s, z) /\ z.hs = s.hs
  BY <1>1 DEF Proc, IsWhole, Rest
<1>7. /\ y.pcb = Processed(c, TakeAck(c, a, TRUE), a, "none", FALSE, w)
      /\ z.pcb = Processed(c, TakeAck(c, a, FALSE), a, "none", FALSE, w)
  BY <1>1, ProcessIs DEF Proc, IsWhole
<1>8. TakeAck(c, a, TRUE) = d0 /\ TakeAck(c, a, FALSE) = c
  BY <1>1 DEF TakeAck
<1> HIDE DEF y, z, to, d0, w
\* What was sent again is not sent a second time.
<1>9. ASSUME Goes(s, t, hn)
      PROVE  Goes(s, tcp_output(t, n), hn)
  <2>1. Good(t, hn)
    BY <1>9 DEF Goes
  <2>2. Goes(t, tcp_output(t, n), hn)
    BY <2>1, OutputGoes
  <2> QED
    BY <1>9, <2>2, GoesAfter
<1>10. CASE c.infr
  <2>1. d0 = c
    BY <1>10 DEF d0, tcp_rexmit_fast
  <2>2. y = z
    BY <1>6, <1>7, <1>8, <2>1
  <2>3. Good(y, hn) /\ Goes(s, y, hn)
    BY <1>5, <2>2 DEF Goes
  <2>4. Goes(y, Gone(y), hn)
    BY <1>3, <2>3, GoodKept, GoneGood
  <2>5. Goes(s, Gone(y), hn)
    BY <2>3, <2>4, GoesAfter
  <2> QED
    BY <1>4, <1>9, <2>3, <2>5
<1>11. CASE ~c.infr
  <2>1. /\ IsPcb(d0) /\ d0.unsent = <<c.unacked[1]>> \o c.unsent
        /\ d0.unacked = Tail(c.unacked) /\ d0.nrtx \in 0 .. U8 - 1
        /\ d0.unsent \in Seq(Segment) /\ d0.unacked \in Seq(Segment)
        /\ Len(d0.unsent) \in Nat /\ d0.unsent # <<>>
        /\ d0.unsent[1] = c.unacked[1] /\ d0.unsent[1].seqno <= c.lastack
        /\ d0.infr \in BOOLEAN /\ d0.state = c.state /\ d0.lastack = c.lastack
        /\ d0.snd_nxt = c.snd_nxt /\ d0.snd_lbb = c.snd_lbb /\ d0.arg = c.arg
        /\ d0.cb = c.cb /\ d0.snd_wnd = c.snd_wnd /\ d0.unread = c.unread
        /\ d0.polltmr = c.polltmr /\ d0.age = c.age /\ d0.rxclosed = c.rxclosed
    BY <1>1, <1>11, FastIs DEF d0
  <2>2. Fields(d0)
    BY <1>1, <2>1 DEF Fields
  <2>3. /\ Follows(c, d0, y.pcb, a, "none", FALSE, w)
        /\ Follows(c, c, z.pcb, a, "none", FALSE, w)
    <3>1. Follows(c, d0, y.pcb, a, "none", FALSE, w)
      BY <1>7, <1>8, <2>1, ProcessedIs
    <3>2. Follows(c, c, z.pcb, a, "none", FALSE, w)
      BY <1>1, <1>7, <1>8, ProcessedIs
    <3> QED
      BY <3>1, <3>2
  <2>4. Fields(y.pcb)
    BY <1>1, <2>2, <2>3, FollowsFields
  <2>5. /\ y.wire = s.wire /\ y.other = s.other /\ y.errs = s.errs
        /\ y.other \in BOOLEAN /\ y.errs \in Nat /\ y.pcb.cb = c.cb
    BY <1>6, <2>1, <2>3 DEF Rest, Good, Follows
  <2>6. CASE to = "TIME_WAIT"
    <3>1. /\ y.pcb.state = "TIME_WAIT" /\ y.pcb.unsent = <<>> /\ y.pcb.unacked = <<>>
      BY <2>3, <2>6 DEF Follows, to
    <3>2. y.pcb.state \notin Active /\ y.pcb.state \notin Sending
      BY <3>1 DEF Active, Sending, Closing
    <3>3. y.pcb.arg = FALSE
      BY <1>3, <3>2 DEF Owned
    <3>4. Place(y)
      BY <1>3, <3>2, <3>3 DEF Good, Place
    <3>5. Goes(s, y, hn)
      BY <2>4, <2>5, <3>1, <3>2, <3>4, GoodFrom
    <3> QED
      BY <1>4, <1>9, <2>6, <3>5
  <2>7. CASE to = "CLOSED"
    <3>1. Kept(y)
      <4>1. Kept(s)
        BY GoodKept
      <4> QED
        BY <1>3, <2>5, <4>1 DEF Kept
    <3>2. Goes(y, Gone(y), hn)
      BY <1>3, <3>1, GoneGood
    <3>3. Goes(s, Gone(y), hn)
      BY <2>5, <3>2 DEF Goes
    <3> QED
      BY <1>4, <1>9, <2>7, <3>3
  <2>8. CASE to # "TIME_WAIT" /\ to # "CLOSED"
    <3>1. t = y
      BY <1>4, <2>8
    <3>2. /\ y.pcb.unsent = d0.unsent /\ y.pcb.unacked = d0.unacked
          /\ y.pcb.state \in Active /\ y.pcb.lastack = c.lastack /\ y.pcb.snd_wnd = w
          /\ y.pcb.snd_nxt = c.snd_nxt
      BY <2>1, <2>3, <2>8 DEF Follows, to
    <3>3. /\ z.pcb.unsent = c.unsent /\ z.pcb.unacked = c.unacked
          /\ z.pcb.state = y.pcb.state /\ z.pcb.snd_nxt = c.snd_nxt
      BY <2>3, <2>8 DEF Follows, to
    <3>4. Moved(z, y)
      <4>1. /\ y.pcb.lastack = z.pcb.lastack /\ y.pcb.snd_lbb = z.pcb.snd_lbb
            /\ y.pcb.arg = z.pcb.arg /\ y.pcb.cb = z.pcb.cb /\ y.pcb.snd_wnd = z.pcb.snd_wnd
            /\ y.pcb.unread = z.pcb.unread /\ y.pcb.polltmr = z.pcb.polltmr
            /\ y.pcb.age = z.pcb.age
        BY <2>1, <2>3, ZenonT(60) DEF Follows
      <4>2. /\ y.pcb.nrtx \in 0 .. U8 - 1 /\ y.pcb.infr \in BOOLEAN
            /\ y.pcb.unsent \in Seq(Segment) /\ y.pcb.unacked \in Seq(Segment)
        BY <2>4 DEF Fields
      <4>3. y.hs = z.hs /\ y.other = z.other /\ y.errs = z.errs
        BY <1>3, <1>6 DEF Rest
      <4> QED
        BY <3>3, <4>1, <4>2, <4>3 DEF Moved
    <3>5. n \in 1 .. Len(y.pcb.unsent)
      <4> DEFINE b == y.pcb.unsent
      <4>1. /\ b # <<>> /\ Head(b).seqno <= y.pcb.lastack /\ Len(b) \in Nat
            /\ InWindow(y.pcb, Head(b))
        <5>1. b \in Seq(Segment) /\ b # <<>> /\ b[1].seqno <= y.pcb.lastack /\ Len(b) \in Nat
          BY <2>1, <3>2
        <5> HIDE DEF b
        <5>2. Head(b) = b[1]
          BY <5>1
        <5>3. Head(b) = Head(c.unacked)
          <6>1. c.unacked \in Seq(Segment)
            BY <1>1 DEF Fields
          <6>2. Head(c.unacked) = c.unacked[1]
            BY <6>1
          <6>3. b[1] = c.unacked[1]
            BY <2>1, <3>2 DEF b
          <6> QED
            BY <5>2, <6>2, <6>3
        <5>4. InWindow(y.pcb, Head(b))
          BY <3>2, <5>3 DEF InWindow, w
        <5> QED
          BY <5>1, <5>2, <5>4
      <4>2. n \in Sendable(y.pcb)
        BY <3>1
      <4>3. MustSend(y.pcb)
        BY <4>1 DEF MustSend
      <4> QED
        BY <4>1, <4>2, <4>3 DEF Sendable
    <3>6. z.pcb.unacked # <<>> /\ y.pcb.unacked = Tail(z.pcb.unacked)
          /\ y.pcb.unsent = <<z.pcb.unacked[1]>> \o z.pcb.unsent
      BY <2>1, <3>2, <3>3
    <3>7. /\ Good(z, hn) /\ z.pcb.state \in Active /\ IsWhole(y) /\ y.wire = z.wire
          /\ y.pcb.snd_nxt = z.pcb.snd_nxt
      BY <1>3, <1>5, <1>6, <3>2, <3>3 DEF Goes, Owned, Rest
    <3>8. Good(tcp_output(y, n), hn)
      BY <3>4, <3>5, <3>6, <3>7, FastGood
    <3>9. tcp_output(y, n).other = y.other
      BY <3>7, OutputRest
    <3>10. Goes(s, tcp_output(y, n), hn)
      BY <2>5, <3>8, <3>9 DEF Goes
    <3> QED
      BY <3>1, <3>10
  <2> QED
    BY <2>6, <2>7, <2>8
<1>12. c.infr \in BOOLEAN
  BY <1>1 DEF Fields
<1> QED
  BY <1>10, <1>11, <1>12

-----------------------------------------------------------------------------
(***************************************************************************)
(* The ticks                                                               *)
(***************************************************************************)

Timed(s, p) == [s EXCEPT !.pcb.polltmr = p]

LEMMA TimedIs ==
    ASSUME NEW s, IsWhole(s), NEW p
    PROVE  LET t == Timed(s, p)
           IN  /\ IsWhole(t) /\ t.hs = s.hs /\ Rest(s, t) /\ t.fault = s.fault
               /\ t.pcb.unread = s.pcb.unread /\ t.pcb.state = s.pcb.state
               /\ SameQueues(s.pcb, t.pcb)
               /\ t.pcb.nrtx = s.pcb.nrtx /\ t.pcb.infr = s.pcb.infr
               /\ t.pcb.snd_wnd = s.pcb.snd_wnd /\ t.pcb.rxclosed = s.pcb.rxclosed
               /\ t.pcb.arg = s.pcb.arg /\ t.pcb.cb = s.pcb.cb
               /\ t.pcb.polltmr = p /\ t.pcb.age = s.pcb.age
  BY DEF IsWhole, IsPcb, PcbFields, Timed, Rest, SameQueues

LEMMA EventPollGood ==
    ASSUME NEW s, Owned(s), NEW hn \in Nat, Good(s, hn), s.pcb.state \in Active,
           NEW fails \in 0 .. 2, NEW mem
    PROVE  Goes(s, Event_Poll(s, fails, mem), hn)
<1> DEFINE due == s.pcb.cb = "none" \/ s.pcb.polltmr + 1 >= HTTPD_POLL_INTERVAL
           p == IF due THEN 0 ELSE s.pcb.polltmr + 1
           t == Timed(s, p)
<1>1. Event_Poll(s, fails, mem) \in {t, http_poll(t, fails, mem)}
  BY DEF Event_Poll, Timed
<1>2. p \in 0 .. HTTPD_POLL_INTERVAL
  <2> DEFINE k == s.pcb.polltmr
  <2>1. k \in 0 .. HTTPD_POLL_INTERVAL /\ HTTPD_POLL_INTERVAL \in Nat
    BY Sizes DEF Good, Fields
  <2>2. p = 0 \/ (~(k + 1 >= HTTPD_POLL_INTERVAL) /\ p = k + 1)
    OBVIOUS
  <2> HIDE DEF k, p
  <2> QED
    BY <2>1, <2>2
<1> HIDE DEF p
<1>3. /\ IsWhole(t) /\ t.hs = s.hs /\ Rest(s, t) /\ t.fault = s.fault
      /\ t.pcb.unread = s.pcb.unread /\ t.pcb.state = s.pcb.state
      /\ SameQueues(s.pcb, t.pcb)
      /\ t.pcb.nrtx = s.pcb.nrtx /\ t.pcb.infr = s.pcb.infr
      /\ t.pcb.snd_wnd = s.pcb.snd_wnd /\ t.pcb.rxclosed = s.pcb.rxclosed
      /\ t.pcb.arg = s.pcb.arg /\ t.pcb.cb = s.pcb.cb
      /\ t.pcb.polltmr = p /\ t.pcb.age = s.pcb.age
  BY TimedIs DEF Owned
<1> HIDE DEF t
<1>4. Fields(t.pcb)
  BY <1>2, <1>3 DEF Good, Fields, SameQueues
<1>5. Place(t)
  BY <1>3 DEF Good, Place, SameQueues, Rest
<1>6. t.wire = s.wire /\ t.other = s.other /\ t.other \in BOOLEAN /\ t.errs \in Nat
  BY <1>3 DEF Good, Rest
<1>7. Goes(s, t, hn)
  BY <1>3, <1>4, <1>5, <1>6, SmallGood
<1>8. Owned(t) /\ t.pcb.state \in Active /\ Good(t, hn)
  BY <1>3, <1>7 DEF Owned, Goes
<1>9. Goes(t, http_poll(t, fails, mem), hn)
  BY <1>8, PollGood
<1>10. Goes(s, http_poll(t, fails, mem), hn)
  BY <1>7, <1>9, GoesAfter
<1> QED
  BY <1>1, <1>7, <1>10

LEMMA AgedGood ==
    ASSUME NEW s, Owned(s), NEW hn \in Nat, Good(s, hn)
    PROVE  Goes(s, [s EXCEPT !.pcb = Aged(@)], hn)
<1> DEFINE a == AtMost(s.pcb.age + 1, Timeout)
           Old(x) == [s.pcb EXCEPT !.age = x]
           d == Old(a)
           t == [s EXCEPT !.pcb = d]
<1>1. [s EXCEPT !.pcb = Aged(@)] = t
  BY DEF Aged
<1>2. a \in 0 .. Timeout
  <2> DEFINE k == s.pcb.age
  <2>1. k \in 0 .. Timeout /\ Timeout \in Nat
    BY Sizes DEF Good, Fields
  <2>2. a = AtMost(k + 1, Timeout)
    OBVIOUS
  <2> HIDE DEF k, a
  <2> QED
    BY <2>1, <2>2 DEF AtMost
<1> HIDE DEF a
<1>3. /\ IsPcb(d) /\ d.age = a /\ d.state = s.pcb.state /\ SameQueues(s.pcb, d)
      /\ d.nrtx = s.pcb.nrtx /\ d.infr = s.pcb.infr /\ d.snd_wnd = s.pcb.snd_wnd
      /\ d.unread = s.pcb.unread /\ d.arg = s.pcb.arg /\ d.cb = s.pcb.cb
      /\ d.polltmr = s.pcb.polltmr
  BY DEF Owned, IsWhole, IsPcb, PcbFields, SameQueues
<1> HIDE DEF d
<1>4. t.pcb = d /\ t.hs = s.hs /\ Rest(s, t)
  BY <1>3, WithPcb DEF Owned
<1> HIDE DEF t
<1>5. Fields(t.pcb)
  BY <1>2, <1>3, <1>4 DEF Good, Fields, SameQueues
<1>6. Place(t)
  BY <1>3, <1>4 DEF Good, Place, SameQueues, Rest
<1>7. t.wire = s.wire /\ t.other = s.other /\ t.other \in BOOLEAN /\ t.errs \in Nat
  BY <1>4 DEF Good, Rest
<1>8. Goes(s, t, hn)
  BY <1>3, <1>4, <1>5, <1>6, <1>7, SmallGood
<1> QED
  BY <1>1, <1>8

\* Nothing is allocated when a pcb goes.
LEMMA GoneErrs ==
    ASSUME NEW s, Owned(s)
    PROVE  Gone(s).errs = s.errs /\ tcp_abort(s).errs = s.errs
<1> DEFINE told == http_err(s)
           freed == FreePcb(told)
<1>1. told.errs = s.errs /\ IsWhole(told)
  <2>1. CASE s.pcb.cb = "http" /\ s.pcb.arg
    <3>1. told = http_state_free(s) /\ s.hs.live = TRUE /\ IsWhole(s)
      BY <2>1 DEF http_err, Owned
    <3> HIDE DEF told
    <3> QED
      BY <3>1, StateFreedRest DEF Rest
  <2>2. CASE ~(s.pcb.cb = "http" /\ s.pcb.arg)
    BY <2>2 DEF http_err, Owned
  <2> QED
    BY <2>1, <2>2
<1> HIDE DEF told
<1>2. ASSUME NEW u, IsWhole(u)
      PROVE  FreePcb(u).errs = u.errs /\ IsWhole(FreePcb(u))
  <2>1. CASE u.pcb.state # "CLOSED"
    BY <1>2, <2>1, PcbFreedRest DEF Rest
  <2>2. CASE u.pcb.state = "CLOSED"
    <3>1. FreePcb(u) = Blame(u, "pcb freed twice")
      BY <2>2 DEF FreePcb
    <3> QED
      BY <1>2, <3>1, BlameRest, ZenonT(60) DEF Rest
  <2> QED
    BY <2>1, <2>2
<1>3. freed.errs = s.errs /\ IsWhole(freed)
  BY <1>1, <1>2
<1>4. Gone(s) = Released(freed)
  BY DEF Gone, Released, freed, told
<1> HIDE DEF freed
<1>5. Gone(s).errs = s.errs
  BY <1>3, <1>4, LetGoRest DEF Rest
<1>6. FreePcb(s).errs = s.errs
  BY <1>2 DEF Owned
<1> QED
  BY <1>5, <1>6 DEF tcp_abort
-----------------------------------------------------------------------------
(***************************************************************************)
(* Steps                                                                   *)
(***************************************************************************)

LEMMA HostNextNat ==
    ASSUME Have(host)
    PROVE  HostNext \in Nat
<1>1. Len(host.got) \in Nat
  BY DEF Have
<1> DEFINE l == Len(host.got)
           e == IF host.eof THEN 1 ELSE 0
<1>2. l \in Nat /\ e \in Nat /\ HostNext = l + e
  BY <1>1 DEF HostNext
<1> HIDE DEF l, e
<1> QED
  BY <1>2

\* The handler's outcome is good, and so is the state that it makes.
LEMMA BecomeStream ==
    ASSUME StreamInv, NEW s, Goes(Now, s, HostNext), s.errs <= MaxMemErrs,
           NEW h, IsHost(h), h.got = host.got, h.eof = host.eof, h.text \in 0 .. MaxData,
           h.fin \in {"no", "alone", "with"}, Become(s, h)
    PROVE  Good(Now', HostNext') /\ Have(host')
<1>1. /\ pcb' = s.pcb /\ hs' = s.hs
      /\ wire' \subseteq s.wire
      /\ host' = [h EXCEPT !.other = s.other, !.errs = s.errs]
  BY DEF Become, OfUse
<1>2. /\ host'.got = host.got /\ host'.eof = host.eof /\ host'.text = h.text
      /\ host'.fin = h.fin /\ host'.other = s.other /\ host'.errs = s.errs
  BY <1>1 DEF IsHost
<1>3. HostNext' = HostNext
  BY <1>2 DEF HostNext
<1>4. /\ Now'.pcb = s.pcb /\ Now'.hs = s.hs /\ Now'.wire = wire'
      /\ Now'.other = s.other /\ Now'.errs = s.errs
  BY <1>1, <1>2 DEF Now
<1>5. Good(s, HostNext) /\ (host.other => s.other)
  BY DEF Goes, Now
<1>6. Sent(Now')
  <2>1. wire' \subseteq s.wire
    BY <1>1
  <2> QED
    BY <1>4, <1>5, <2>1 DEF Good, Sent
<1>7. Good(Now', HostNext')
  <2>1. Place(Now')
    BY <1>4, <1>5 DEF Good, Place
  <2> QED
    BY <1>3, <1>4, <1>5, <1>6, <2>1 DEF Good
<1>8. s.errs \in 0 .. MaxMemErrs
  <2>1. s.errs \in Nat
    BY <1>5 DEF Good
  <2> QED
    BY <2>1, Sizes
<1>9. Have(host')
  <2>1. Have(host) /\ s.other \in BOOLEAN
    BY <1>5 DEF StreamInv, Good
  <2>2. host.eof /\ ~s.other => Len(host.got) = PageLen
    BY <1>5, <2>1 DEF Have
  <2> QED
    BY <1>2, <1>8, <2>1, <2>2 DEF Have
<1> QED
  BY <1>7, <1>9

LEMMA FinishStream ==
    ASSUME StreamInv, NEW s, IsWhole(s), Goes(Now, s, HostNext),
           NEW h, IsHost(h), h.got = host.got, h.eof = host.eof, h.text \in 0 .. MaxData,
           h.fin \in {"no", "alone", "with"}, Finish(s, h)
    PROVE  Good(Now', HostNext') /\ Have(host')
<1>1. PICK n \in Sendable(s.pcb) : Become(tcp_output(s, n), h)
  BY DEF Finish
<1>2. HostNext \in Nat
  BY HostNextNat DEF StreamInv
<1>3. Goes(s, tcp_output(s, n), HostNext)
  BY <1>2, OutputGoes DEF Goes
<1>4. Goes(Now, tcp_output(s, n), HostNext)
  BY <1>3, GoesAfter
<1>5. tcp_output(s, n).errs <= MaxMemErrs
  BY OutputRest DEF Finish
<1> QED
  BY <1>1, <1>4, <1>5, BecomeStream

\* StreamInv, of the record a handler starts from.
LEMMA NowGood ==
    ASSUME StreamInv
    PROVE  /\ Owned(Now) /\ Good(Now, HostNext) /\ HostNext \in Nat /\ Now.pcb = pcb
           /\ Now.errs = host.errs /\ Now.other = host.other /\ IsHost(host) /\ Have(host)
           /\ host.errs <= MaxMemErrs /\ OwnerInv
<1>1. Owned(Now) /\ Good(Now, HostNext) /\ IsHost(host) /\ Have(host) /\ OwnerInv
  BY DEF StreamInv, OwnerInv
<1>2. Now.pcb = pcb /\ Now.errs = host.errs /\ Now.other = host.other
  BY DEF Now
<1>3. host.errs <= MaxMemErrs
  <2>1. host.errs \in 0 .. MaxMemErrs
    BY <1>1 DEF Have
  <2> QED
    BY <2>1
<1> QED
  BY <1>1, <1>2, <1>3, HostNextNat

LEMMA ResetStream == ASSUME StreamInv, Reset PROVE Good(Now', HostNext') /\ Have(host')
<1> DEFINE t == tcp_abort(Now)
<1>1. Goes(Now, t, HostNext) /\ t.errs = Now.errs
  BY NowGood, AbortGood, GoneErrs
<1>2. Become(t, host)
  BY DEF Reset
<1> HIDE DEF t
<1>3. t.errs <= MaxMemErrs /\ host.text \in 0 .. MaxData /\ host.fin \in {"no", "alone", "with"}
  BY <1>1, NowGood DEF Have
<1> QED
  BY <1>1, <1>2, <1>3, NowGood, BecomeStream

LEMMA TimeWaitStream ==
    ASSUME StreamInv, TimeWaitTick PROVE Good(Now', HostNext') /\ Have(host')
<1> DEFINE s == [Now EXCEPT !.pcb = Aged(@)]
           t == FreePcb(s)
<1>1. Become(t, host) \/ Become(s, host)
  BY DEF TimeWaitTick
<1>2. Goes(Now, s, HostNext) /\ s.errs = Now.errs
  <2>1. s.errs = Now.errs
    BY DEF Now
  <2> QED
    BY <2>1, NowGood, AgedGood
<1>3. Owned(s) /\ s.pcb.state = "TIME_WAIT"
  BY NowGood, AgedSame DEF TimeWaitTick
<1>4. t = tcp_abort(s)
  BY <1>3 DEF tcp_abort
<1> HIDE DEF s, t
<1>5. Goes(s, t, HostNext) /\ t.errs = s.errs
  BY <1>2, <1>3, <1>4, NowGood, AbortGood, GoneErrs DEF Goes
<1>6. Goes(Now, t, HostNext)
  BY <1>2, <1>5, GoesAfter
<1>7. /\ t.errs <= MaxMemErrs /\ s.errs <= MaxMemErrs
      /\ host.text \in 0 .. MaxData /\ host.fin \in {"no", "alone", "with"}
  BY <1>2, <1>5, NowGood DEF Have
<1>8. CASE Become(t, host)
  BY <1>6, <1>7, <1>8, NowGood, BecomeStream
<1>9. CASE Become(s, host)
  BY <1>2, <1>7, <1>9, NowGood, BecomeStream
<1> QED
  BY <1>1, <1>8, <1>9

\* Only the timer.
LEMMA TimeWaitInputStream ==
    ASSUME StreamInv, tcp_timewait_input PROVE Good(Now', HostNext') /\ Have(host')
<1> DEFINE Old(x) == [Now.pcb EXCEPT !.age = x]
           d == Old(0)
           t == [Now EXCEPT !.pcb = d]
<1>1. /\ pcb' = [pcb EXCEPT !.age = 0] /\ hs' = hs /\ host' = host /\ fault' = fault
      /\ wire' = wire
  BY DEF tcp_timewait_input
<1>2. Now' = t /\ HostNext' = HostNext
  BY <1>1 DEF Now, HostNext
<1>3. /\ IsPcb(d) /\ d.age = 0 /\ d.state = Now.pcb.state /\ SameQueues(Now.pcb, d)
      /\ d.nrtx = Now.pcb.nrtx /\ d.infr = Now.pcb.infr /\ d.snd_wnd = Now.pcb.snd_wnd
      /\ d.unread = Now.pcb.unread /\ d.arg = Now.pcb.arg /\ d.cb = Now.pcb.cb
      /\ d.polltmr = Now.pcb.polltmr
  BY NowGood DEF Owned, IsWhole, IsPcb, PcbFields, SameQueues
<1> HIDE DEF d
<1>4. t.pcb = d /\ t.hs = Now.hs /\ Rest(Now, t)
  BY <1>3, NowGood, WithPcb DEF Owned
<1> HIDE DEF t
<1>5. Good(Now, HostNext) /\ 0 \in 0 .. Timeout
  BY NowGood, Sizes
<1>6. Fields(t.pcb)
  BY <1>3, <1>4, <1>5 DEF Good, Fields, SameQueues
<1>7. Place(t)
  BY <1>3, <1>4, <1>5 DEF Good, Place, SameQueues, Rest
<1>8. t.wire = Now.wire /\ t.other = Now.other /\ t.other \in BOOLEAN /\ t.errs \in Nat
  BY <1>4, <1>5 DEF Good, Rest
<1>9. Goes(Now, t, HostNext)
  BY <1>3, <1>4, <1>5, <1>6, <1>7, <1>8, NowGood, SmallGood
<1> QED
  BY <1>1, <1>2, <1>9, NowGood DEF Goes

LEMMA AcceptStream ==
    ASSUME StreamInv, http_accept PROVE Good(Now', HostNext') /\ Have(host')
<1>0. PICK wnd \in Windows :
        pcb' = [NoPcb EXCEPT !.state = "ESTABLISHED", !.arg = TRUE, !.cb = "http",
                             !.snd_wnd = wnd]
  BY DEF http_accept
<1>1. hs' = [NoHs EXCEPT !.live = TRUE] /\ host' = NoHost /\ wire' = {}
  BY DEF http_accept
<1>2. /\ pcb'.state = "ESTABLISHED" /\ pcb'.lastack = 0 /\ pcb'.snd_nxt = 0
      /\ pcb'.snd_lbb = 0 /\ pcb'.unsent = <<>> /\ pcb'.unacked = <<>> /\ pcb'.nrtx = 0
      /\ pcb'.infr \in BOOLEAN /\ pcb'.snd_wnd \in SndWnd /\ pcb'.unread = 0
      /\ pcb'.arg \in BOOLEAN /\ pcb'.arg /\ pcb'.cb = "http" /\ pcb'.polltmr = 0
      /\ pcb'.age = 0
  BY <1>0 DEF NoPcb, SndWnd
<1>3. hs'.handle \in BOOLEAN /\ hs'.file = 0 /\ hs'.retries = 0
  BY <1>1 DEF NoHs
<1>4. /\ host'.got = <<>> /\ ~host'.eof /\ host'.eof \in BOOLEAN /\ host'.text = 0
      /\ host'.fin = "no" /\ host'.other \in BOOLEAN /\ host'.errs = 0
  BY <1>1 DEF NoHost
<1>5. HostNext' = 0
  <2>1. Len(host'.got) = 0
    BY <1>4
  <2> QED
    BY <1>4, <2>1 DEF HostNext
<1>6. /\ Now'.pcb = pcb' /\ Now'.hs = hs' /\ Now'.wire = {} /\ Now'.other \in BOOLEAN
      /\ Now'.errs = 0
  BY <1>1, <1>4 DEF Now
<1>7. /\ 0 \in 0 .. PageLen + 1 /\ 0 \in 0 .. U8 - 1 /\ 0 \in 0 .. HTTPD_POLL_INTERVAL
      /\ 0 \in 0 .. Timeout /\ 0 \in 0 .. 2 /\ 0 \in 0 .. PageLen
      /\ 0 \in 0 .. HTTPD_MAX_RETRIES - 1 /\ 0 \in 0 .. MaxData /\ 0 \in 0 .. MaxMemErrs
      /\ 0 <= PageLen /\ 0 - 0 <= TCP_SND_BUF
  <2>1. /\ PageLen \in Nat /\ U8 \in Nat \ {0} /\ HTTPD_POLL_INTERVAL \in Nat
        /\ Timeout \in Nat /\ HTTPD_MAX_RETRIES \in Nat \ {0} /\ MaxData \in Nat
        /\ MaxMemErrs \in Nat /\ TCP_SND_BUF \in Nat
    BY Sizes
  <2> QED
    BY <2>1
<1>8. <<>> \in Seq(Segment)
  OBVIOUS
<1>9. Fields(pcb')
  BY <1>2, <1>7, <1>8 DEF Fields
<1>10. Place(Now')
  BY <1>2, <1>3, <1>6, <1>7 DEF Place
<1>11. Stream(pcb', Queue(pcb'), Now'.other, 0)
  <2> DEFINE q == Queue(pcb')
             o == Now'.other
  <2>1. q = <<>>
    BY <1>2 DEF Queue
  <2> HIDE DEF q, o
  <2>2. Linked(q) /\ Len(q) = 0
    BY <1>8, <2>1 DEF Linked
  <2>3. Top(q, pcb'.lastack) = 0
    BY <1>2, <2>1 DEF Top
  <2>4. \A i \in 1 .. Len(q) : q[i].fin => pcb'.state \in Closing /\ Behind(q[i], o)
    BY <2>2
  <2>5. /\ pcb'.lastack <= 0 /\ pcb'.lastack <= pcb'.snd_nxt /\ pcb'.snd_nxt <= 0 /\ pcb'.snd_lbb <= 0
        /\ pcb'.snd_lbb = 0 /\ pcb'.snd_lbb <= PageLen
        /\ pcb'.snd_lbb - pcb'.lastack <= TCP_SND_BUF
    BY <1>2, <1>7
  <2>6. Stream(pcb', q, o, 0)
    BY <2>1, <2>2, <2>3, <2>4, <2>5 DEF Stream
  <2> QED
    BY <2>6 DEF q, o
<1>12. Sent(Now')
  BY <1>6 DEF Sent
<1>13. pcb'.state \in Active
  BY <1>2 DEF Active, Sending
<1>14. Good(Now', HostNext')
  BY <1>5, <1>6, <1>9, <1>10, <1>11, <1>12, <1>13 DEF Good
<1>15. Have(host')
  <2>1. <<>> \in Seq(0 .. PageLen - 1) /\ Len(<<>>) = 0
    OBVIOUS
  <2>2. /\ host'.got \in Seq(0 .. PageLen - 1) /\ Len(host'.got) = 0
    BY <1>4, <2>1
  <2> QED
    BY <1>4, <1>7, <2>2 DEF Have
<1> QED
  BY <1>14, <1>15

LEMMA HostSegmentStream ==
    ASSUME StreamInv, HostSegment PROVE Good(Now', HostNext') /\ Have(host')
<1>1. PICK ackno \in pcb.lastack .. HostNext, text \in {"none", "partial", "complete", "bad"},
           fin \in BOOLEAN, third \in BOOLEAN, wnd \in Windows,
           fails \in 0 .. 2, mem \in BOOLEAN :
        /\ MayFail(fails, mem)
        /\ text # "none" => host.text < MaxData /\ host.fin = "no"
        /\ fin => host.fin = "no"
        /\ third => /\ ackno = pcb.lastack /\ text = "none" /\ ~fin
                    /\ wnd = pcb.snd_wnd /\ pcb.unacked # <<>>
                    /\ InWindow(pcb, Head(pcb.unacked))
        /\ Finish(tcp_input(Now, ackno, text, fin, third, wnd, fails, mem),
                  [host EXCEPT !.text = IF text = "none" THEN @ ELSE @ + 1,
                               !.fin = IF ~fin THEN @
                                       ELSE IF text = "none" /\ ackno = pcb.lastack
                                       THEN "alone" ELSE "with"])
  BY Zenon DEF HostSegment
<1> DEFINE t == tcp_input(Now, ackno, text, fin, third, wnd, fails, mem)
           n == IF text = "none" THEN host.text ELSE host.text + 1
           f == IF ~fin THEN host.fin
                ELSE IF text = "none" /\ ackno = pcb.lastack THEN "alone" ELSE "with"
           h == [host EXCEPT !.text = n, !.fin = f]
<1>2. Finish(t, h)
  BY <1>1
<1>3. IsHost(h) /\ h.fin = f /\ h.text = n /\ h.got = host.got /\ h.eof = host.eof
  <2>1. ASSUME NEW m, NEW g
        PROVE  LET e == [host EXCEPT !.text = m, !.fin = g]
               IN  IsHost(e) /\ e.fin = g /\ e.text = m /\ e.got = host.got /\ e.eof = host.eof
    BY NowGood DEF IsHost
  <2> HIDE DEF n, f
  <2> QED
    BY <2>1
<1>4. f \in {"no", "alone", "with"} /\ n \in 0 .. MaxData
  <2>1. host.fin \in {"no", "alone", "with"} /\ host.text \in 0 .. MaxData /\ MaxData \in Nat
    BY NowGood, Sizes DEF Have
  <2>2. f \in {"no", "alone", "with"}
    BY <2>1
  <2>3. n \in 0 .. MaxData
    <3>1. text # "none" => host.text < MaxData
      BY <1>1
    <3> DEFINE m == host.text
    <3>2. m \in 0 .. MaxData /\ (n = m \/ (n = m + 1 /\ m < MaxData))
      BY <2>1, <3>1
    <3> HIDE DEF m, n
    <3> QED
      BY <2>1, <3>2
  <2> QED
    BY <2>2, <2>3
<1> HIDE DEF h, n, f
<1>5. pcb.state \in Active /\ Now.pcb = pcb
  BY NowGood DEF HostSegment
<1>6. IsWhole(t)
  <2>1. ackno \in Int
    OBVIOUS
  <2>2. text # "none" \/ fin => pcb.state # "CLOSE_WAIT"
    BY <1>1, NowGood DEF OwnerInv
  <2>3. Owned(t)
    BY <1>5, <2>1, <2>2, NowGood, InputOwned
  <2> QED
    BY <2>3 DEF Owned
<1>7. CASE ~third
  <2>1. wnd \in SndWnd
    BY DEF SndWnd
  <2>2. Goes(Now, t, HostNext)
    BY <1>5, <1>7, <2>1, NowGood, InputGood
  <2> HIDE DEF t
  <2> QED
    BY <1>2, <1>3, <1>4, <1>6, <2>2, FinishStream
<1>8. CASE third
  <2>1. /\ ackno = pcb.lastack /\ text = "none" /\ fin = FALSE /\ wnd = pcb.snd_wnd
        /\ third = TRUE /\ pcb.unacked # <<>> /\ InWindow(pcb, Head(pcb.unacked))
    BY <1>1, <1>8
  <2>2. t = tcp_input(Now, pcb.lastack, "none", FALSE, TRUE, pcb.snd_wnd, fails, mem)
    BY <2>1
  <2>3. PICK k \in Sendable(t.pcb) : Become(tcp_output(t, k), h)
    BY <1>2 DEF Finish
  <2>4. t.errs <= MaxMemErrs
    BY <1>2 DEF Finish
  <2> HIDE DEF t
  <2>5. Goes(Now, tcp_output(t, k), HostNext)
    BY <1>5, <1>6, <2>1, <2>2, NowGood, ThirdGood
  <2>6. tcp_output(t, k).errs <= MaxMemErrs
    BY <1>6, <2>4, OutputRest
  <2> QED
    BY <1>3, <1>4, <2>3, <2>5, <2>6, BecomeStream
<1> QED
  BY <1>7, <1>8

\* The probe is a part of the first segment that is not acknowledged.
LEMMA ProbeGood ==
    ASSUME NEW s, IsWhole(s), NEW hn \in Nat, Good(s, hn), s.pcb.state \in Active,
           NEW p \in BOOLEAN
    PROVE  Goes(s, Probed(s, p), hn)
<1> DEFINE q == Queue(s.pcb)
           w == s.wire \cup tcp_zero_window_probe(s.pcb)
           More(x) == [s EXCEPT !.wire = x]
           t == More(w)
<1>1. Probed(s, p) = (IF p THEN t ELSE s)
  BY DEF Probed
<1>2. Goes(s, s, hn)
  BY GoesSelf
<1>3. ASSUME NEW e \in tcp_zero_window_probe(s.pcb)
      PROVE  Right(e) /\ Behind(e, s.other)
  <2>1. q # <<>> /\ Linked(q) /\ q \in Seq(Segment)
    BY DEF tcp_zero_window_probe, Queue, Good, Stream, Linked
  <2> DEFINE seg == q[1]
             l == Len(seg.data)
             m == AtMost(1, l)
  <2>2. 1 \in 1 .. Len(q) /\ Head(q) = seg
    BY <2>1
  <2>3. e = [seqno |-> seg.seqno, data |-> SubSeq(seg.data, 1, m), fin |-> seg.data = <<>>]
    BY <2>1, <2>2 DEF tcp_zero_window_probe, Queue
  <2>4. /\ Right(seg) /\ seg.seqno < End(seg)
        /\ seg.fin => Behind(seg, s.other)
    BY <2>1, <2>2 DEF Good, Stream, Linked
  <2> HIDE DEF q, seg
  <2>5. /\ seg.data \in Seq(0 .. PageLen - 1) /\ l \in Nat /\ seg.fin \in BOOLEAN
        /\ seg.seqno \in 0 .. PageLen /\ PageLen \in Nat
        /\ End(seg) = seg.seqno + l + IF seg.fin THEN 1 ELSE 0
    BY <2>4, SegFacts, Sizes DEF Right
  <2>6. m \in 0 .. l
    <3> HIDE DEF l
    <3> QED
      BY <2>5 DEF AtMost
  <2> HIDE DEF m
  <2>7. /\ SubSeq(seg.data, 1, m) \in Seq(0 .. PageLen - 1) /\ Len(SubSeq(seg.data, 1, m)) = m
        /\ \A k \in 1 .. m : SubSeq(seg.data, 1, m)[k] = seg.data[k]
    BY <2>5, <2>6
  <2> DEFINE part == SubSeq(seg.data, 1, m)
             none == seg.data = <<>>
             n == seg.seqno
  <2>8. e.seqno = n /\ e.data = part /\ e.fin = none
    BY <2>3
  <2>9. Right(e)
    <3>1. e \in Segment
      <4>1. part \in Seq(0 .. PageLen - 1) /\ none \in BOOLEAN /\ n \in 0 .. PageLen
        BY <2>5, <2>7
      <4>2. e = [seqno |-> n, data |-> part, fin |-> none]
        BY <2>3
      <4> HIDE DEF part, none, n
      <4> QED
        BY <4>1, <4>2 DEF Segment
    <3>2. n + m <= PageLen /\ Len(e.data) = m
      <4>1. n + l <= PageLen
        BY <2>4 DEF Right
      <4>2. Len(e.data) = m
        BY <2>7, <2>8
      <4> HIDE DEF l
      <4> QED
        BY <2>5, <2>6, <4>1, <4>2
    <3>3. ASSUME NEW k \in 1 .. m PROVE e.data[k] = n + k - 1
      <4>1. k \in 1 .. l
        <5> HIDE DEF l
        <5> QED
          BY <2>5, <2>6
      <4>2. seg.data[k] = n + k - 1
        BY <2>4, <4>1 DEF Right
      <4> QED
        BY <2>7, <2>8, <4>2
    <3> QED
      BY <2>8, <3>1, <3>2, <3>3 DEF Right
  <2>10. Behind(e, s.other)
    <3> SUFFICES ASSUME seg.data = <<>>, ~s.other PROVE n + Len(e.data) = PageLen
      BY <2>8 DEF Behind
    <3>1. l = 0
      OBVIOUS
    <3>2. seg.fin /\ m = 0 /\ Len(e.data) = m
      <4>1. Len(e.data) = m
        BY <2>7, <2>8
      <4> HIDE DEF l
      <4> QED
        BY <2>4, <2>5, <2>6, <3>1, <4>1
    <3>3. n + l = PageLen
      BY <2>4, <3>2 DEF Behind
    <3> QED
      BY <3>1, <3>2, <3>3
  <2> QED
    BY <2>9, <2>10
<1> HIDE DEF w, q
<1>4. /\ t.pcb = s.pcb /\ t.hs = s.hs /\ t.wire = w /\ t.other = s.other /\ t.errs = s.errs
  BY DEF IsWhole
<1> HIDE DEF t
<1>5. Sent(t)
  BY <1>3, <1>4 DEF Sent, Good, w
<1>6. Place(t)
  BY <1>4 DEF Good, Place
<1>7. Good(t, hn)
  BY <1>4, <1>5, <1>6 DEF Good
<1>8. Goes(s, t, hn)
  BY <1>4, <1>7 DEF Goes
<1> QED
  BY <1>1, <1>2, <1>8

LEMMA SlowtmrStream ==
    ASSUME StreamInv, NEW repeat \in BOOLEAN, tcp_slowtmr(repeat)
    PROVE  Good(Now', HostNext') /\ Have(host')
<1> DEFINE s == [Now EXCEPT !.pcb = Aged(@)]
           s1(p) == [Probed(s, p) EXCEPT !.pcb = IF repeat THEN tcp_rexmit_rto(@) ELSE @]
           hn == HostNext
<1>1. Owned(s) /\ s.pcb.state \in Active /\ s.errs = Now.errs
  <2>1. s.errs = Now.errs
    BY DEF Now
  <2> QED
    BY <2>1, NowGood, AgedSame DEF tcp_slowtmr
<1>2. Goes(Now, s, hn) /\ Good(s, hn) /\ hn \in Nat
  BY NowGood, AgedGood DEF Goes
<1>3. \/ Become(Gone(s), host)
      \/ \E fails \in 0 .. 2, mem \in BOOLEAN, p \in BOOLEAN :
         \E n \in {0} \cup Sendable(s1(p).pcb) :
            LET s2 == Event_Poll(tcp_output(s1(p), n), fails, mem)
            IN  Finish(s2, host) \/ (s2.errs <= MaxMemErrs /\ Become(s2, host))
  <2>1. CASE pcb.nrtx = TCP_MAXRTX \/ TooOld(s.pcb)
    BY <2>1 DEF tcp_slowtmr
  <2>2. CASE ~(pcb.nrtx = TCP_MAXRTX \/ TooOld(s.pcb))
    <3>1. \E fails \in 0 .. 2, mem \in BOOLEAN, probe \in BOOLEAN :
            LET r == s1(probe)
            IN  /\ MayFail(fails, mem)
                /\ repeat => pcb.unacked # <<>> /\ pcb.snd_wnd # 0
                /\ probe => pcb.snd_wnd = 0
                /\ \E n \in IF repeat THEN Sendable(r.pcb) ELSE {0} :
                      LET s2 == Event_Poll(tcp_output(r, n), fails, mem)
                      IN  IF Polled(s2.pcb) THEN Finish(s2, host)
                          ELSE s2.errs <= MaxMemErrs /\ Become(s2, host)
      BY <2>2, Zenon DEF tcp_slowtmr
    <3> HIDE DEF s1
    <3> QED
      BY <3>1
  <2> QED
    BY <2>1, <2>2
<1>4. ASSUME NEW p \in BOOLEAN PROVE SameOwner(s, s1(p)) /\ Goes(s, s1(p), hn)
  <2> DEFINE o == Probed(s, p)
             v == [o EXCEPT !.pcb = IF repeat THEN tcp_rexmit_rto(@) ELSE @]
  <2>1. SameOwner(s, o) /\ Goes(s, o, hn)
    <3>1. Quiet(s.pcb, s.pcb) /\ SameOwner(s, s) /\ IsWhole(s)
      BY <1>1 DEF Owned, IsWhole, Quiet, SameOwner
    <3> HIDE DEF s
    <3>2. SameOwner(s, o)
      BY <3>1, WireSame DEF Probed
    <3>3. Goes(s, o, hn)
      BY <1>1, <1>2, <3>1, ProbeGood
    <3> QED
      BY <3>2, <3>3
  <2> HIDE DEF s, o
  <2>2. /\ Owned(o) /\ Quiet(o.pcb, o.pcb) /\ Quiet(o.pcb, tcp_rexmit_rto(o.pcb))
        /\ IsWhole(o)
    BY <1>1, <2>1, SameOwnerOwned, RexmitQuiet DEF Owned, IsWhole, Quiet
  <2>3. SameOwner(o, v)
    BY <2>2, QuietSame
  <2>4. SameOwner(s, v)
    BY <2>1, <2>3 DEF SameOwner, Quiet
  <2>5. Good(o, hn) /\ o.pcb.state \in Active
    BY <1>1, <2>1 DEF Goes, SameOwner, Quiet
  <2>6. Goes(o, v, hn)
    <3>1. CASE repeat
      <4> DEFINE u == [o EXCEPT !.pcb = tcp_rexmit_rto(@)]
      <4>1. v = u
        BY <3>1
      <4>2. Good(u, hn)
        BY <1>2, <2>2, <2>5, RtoGood
      <4>3. u.other = o.other
        BY <2>2 DEF IsWhole
      <4> HIDE DEF u, v
      <4> QED
        BY <4>1, <4>2, <4>3 DEF Goes
    <3>2. CASE ~repeat
      <4>1. v = o
        BY <2>2, <3>2 DEF IsWhole
      <4> HIDE DEF v
      <4> QED
        BY <2>5, <4>1, GoesSelf
    <3> QED
      BY <3>1, <3>2
  <2> HIDE DEF v
  <2>7. Goes(s, v, hn)
    BY <2>1, <2>6, GoesAfter
  <2> QED
    BY <2>4, <2>7 DEF v, o
<1> HIDE DEF s, s1, hn
<1>5. /\ host.text \in 0 .. MaxData /\ host.fin \in {"no", "alone", "with"}
      /\ IsHost(host) /\ host.errs <= MaxMemErrs
  BY NowGood DEF Have
<1>6. CASE Become(Gone(s), host)
  <2>1. Goes(s, Gone(s), hn) /\ Gone(s).errs = s.errs
    BY <1>1, <1>2, GoodKept, GoneGood, GoneErrs
  <2>2. Goes(Now, Gone(s), hn)
    BY <1>2, <2>1, GoesAfter
  <2>3. Gone(s).errs <= MaxMemErrs
    BY <1>1, <1>5, <2>1, NowGood
  <2> QED
    BY <1>5, <1>6, <2>2, <2>3, BecomeStream DEF hn
<1>7. ASSUME NEW fails \in 0 .. 2, NEW mem, NEW p \in BOOLEAN,
             NEW n \in {0} \cup Sendable(s1(p).pcb)
      PROVE  LET u == Event_Poll(tcp_output(s1(p), n), fails, mem)
             IN  IsWhole(u) /\ Goes(Now, u, hn)
  <2> DEFINE z == s1(p)
             t == tcp_output(z, n)
             u == Event_Poll(t, fails, mem)
  <2>1. Owned(z) /\ IsWhole(z) /\ Good(z, hn) /\ z.pcb.state \in Active
    <3>1. SameOwner(s, z) /\ Goes(s, z, hn)
      BY <1>4
    <3> HIDE DEF z
    <3> QED
      BY <1>1, <3>1, SameOwnerOwned DEF Owned, Goes, SameOwner, Quiet
  <2>a. Goes(s, z, hn)
    BY <1>4
  <2>b. n \in {0} \cup Sendable(z.pcb)
    OBVIOUS
  <2> HIDE DEF z
  <2>2. SameOwner(z, t) /\ Owned(t)
    BY <2>1, OutputSame, SameOwnerOwned
  <2>3. Goes(z, t, hn)
    <3>1. n \in 0 .. Len(z.pcb.unsent)
      <4>1. Fields(z.pcb)
        BY <2>1 DEF Good
      <4>2. 0 \in 0 .. Len(z.pcb.unsent)
        <5>1. Len(z.pcb.unsent) \in Nat
          BY <4>1 DEF Fields
        <5> QED
          BY <5>1
      <4> QED
        BY <2>b, <4>2, SendableFacts
    <3>2. Good(t, hn)
      BY <1>2, <2>1, <3>1, OutputGood
    <3> QED
      BY <2>1, <3>2, OutputRest DEF Goes
  <2> HIDE DEF t
  <2>4. Good(t, hn) /\ t.pcb.state \in Active
    BY <2>1, <2>2, <2>3 DEF Goes, SameOwner, Quiet
  <2>5. Goes(t, u, hn) /\ Served(t, u)
    BY <1>2, <2>2, <2>4, EventPollGood, EventPollServed
  <2> HIDE DEF u
  <2>6. Goes(Now, u, hn)
    <3>1. Goes(Now, z, hn)
      BY <1>2, <2>a, GoesAfter
    <3>2. Goes(Now, t, hn)
      BY <2>3, <3>1, GoesAfter
    <3> QED
      BY <2>5, <3>2, GoesAfter
  <2>7. IsWhole(u)
    BY <2>5 DEF Served, Owned
  <2> QED
    BY <2>6, <2>7 DEF t, u, z
<1>8. CASE \E fails \in 0 .. 2, mem \in BOOLEAN, p \in BOOLEAN :
           \E n \in {0} \cup Sendable(s1(p).pcb) :
              LET s2 == Event_Poll(tcp_output(s1(p), n), fails, mem)
              IN  Finish(s2, host) \/ (s2.errs <= MaxMemErrs /\ Become(s2, host))
  <2>1. PICK fails \in 0 .. 2, mem \in BOOLEAN, p \in BOOLEAN :
           \E n \in {0} \cup Sendable(s1(p).pcb) :
              LET s2 == Event_Poll(tcp_output(s1(p), n), fails, mem)
              IN  Finish(s2, host) \/ (s2.errs <= MaxMemErrs /\ Become(s2, host))
    BY <1>8
  <2>2. PICK n \in {0} \cup Sendable(s1(p).pcb) :
              LET s2 == Event_Poll(tcp_output(s1(p), n), fails, mem)
              IN  Finish(s2, host) \/ (s2.errs <= MaxMemErrs /\ Become(s2, host))
    BY <2>1
  <2> DEFINE u == Event_Poll(tcp_output(s1(p), n), fails, mem)
  <2>3. IsWhole(u) /\ Goes(Now, u, hn)
    BY <1>7
  <2>4. Finish(u, host) \/ (u.errs <= MaxMemErrs /\ Become(u, host))
    BY <2>2
  <2> HIDE DEF u
  <2> QED
    BY <1>5, <2>3, <2>4, BecomeStream, FinishStream DEF hn
<1> QED
  BY <1>3, <1>6, <1>8

\* A segment reaches the host, that has everything before it: then it has the segment too.
LEMMA HostReceivesStream ==
    ASSUME StreamInv, HostReceives PROVE Good(Now', HostNext') /\ Have(host')
<1> DEFINE hn == HostNext
           got == host.got
<1>1. PICK seg \in wire :
        /\ seg.seqno <= hn /\ hn < End(seg)
        /\ host' = [host EXCEPT
              !.got = @ \o SubSeq(seg.data, hn - seg.seqno + 1, Len(seg.data)),
              !.eof = seg.fin]
        /\ wire' = {other \in wire : End(other) > End(seg)}
  BY DEF HostReceives
<1>2. ~host.eof /\ pcb' = pcb /\ hs' = hs
  BY DEF HostReceives
<1> DEFINE x == seg.seqno
           l == Len(seg.data)
           m == Len(got)
           e == IF seg.fin THEN 1 ELSE 0
           more == SubSeq(seg.data, hn - x + 1, l)
<1>3. Right(seg) /\ Behind(seg, host.other)
  <2>1. Now.wire = wire /\ Now.pcb = pcb /\ Now.other = host.other
    BY DEF Now
  <2> QED
    BY <2>1, NowGood DEF Good, Sent
<1>4. /\ seg.data \in Seq(0 .. PageLen - 1) /\ x \in Nat /\ l \in Nat /\ seg.fin \in BOOLEAN
      /\ End(seg) = x + l + e /\ x + l <= PageLen /\ PageLen \in Nat
  <2>1. seg \in Segment /\ x + l <= PageLen
    BY <1>3 DEF Right
  <2>2. x \in 0 .. PageLen
    BY <2>1, SegFacts
  <2>3. /\ seg.data \in Seq(0 .. PageLen - 1) /\ l \in Nat /\ seg.fin \in BOOLEAN
        /\ End(seg) = x + l + e
    BY <2>1, SegFacts
  <2>4. PageLen \in Nat
    BY Sizes
  <2> HIDE DEF x, l, e
  <2>5. x \in Nat
    BY <2>2, <2>4
  <2> QED
    BY <2>1, <2>3, <2>4, <2>5
<1>5. /\ got \in Seq(0 .. PageLen - 1) /\ m \in Nat /\ hn = m /\ hn \in Nat
      /\ \A i \in 1 .. m : got[i] = i - 1
  <2>1. got \in Seq(0 .. PageLen - 1) /\ \A i \in 1 .. m : got[i] = i - 1
    BY NowGood DEF Have
  <2>2. m \in Nat
    BY <2>1
  <2>3. hn = m + 0
    BY <1>2 DEF HostNext
  <2> HIDE DEF m, hn
  <2>4. hn = m
    BY <2>2, <2>3
  <2> QED
    BY <2>1, <2>2, <2>4
<1>6. /\ host'.got = got \o more /\ host'.eof = seg.fin /\ host'.text = host.text
      /\ host'.fin = host.fin /\ host'.other = host.other /\ host'.errs = host.errs
  <2>1. ASSUME NEW g, NEW f
        PROVE  LET h == [host EXCEPT !.got = g, !.eof = f]
               IN  /\ h.got = g /\ h.eof = f /\ h.text = host.text /\ h.fin = host.fin
                   /\ h.other = host.other /\ h.errs = host.errs
    BY NowGood DEF IsHost
  <2>2. host' = [host EXCEPT !.got = got \o more, !.eof = seg.fin]
    BY <1>1
  <2> HIDE DEF got, more
  <2> QED
    BY <2>1, <2>2
<1>7. x <= hn /\ hn - x <= l /\ hn - x \in Nat /\ hn < x + l + e
  <2>1. x <= hn /\ hn < x + l + e /\ e \in 0 .. 1
    BY <1>1, <1>4
  <2> HIDE DEF x, hn, l, e
  <2> QED
    BY <1>4, <1>5, <2>1
<1> HIDE DEF hn, x, l, m, e
<1> DEFINE k == l - (hn - x)
<1>8. /\ more \in Seq(0 .. PageLen - 1) /\ Len(more) = k /\ k \in Nat
      /\ \A i \in 1 .. k : more[i] = seg.data[hn - x + i]
  <2>1. k \in Nat /\ hn - x + 1 \in 1 .. l + 1
    BY <1>4, <1>5, <1>7
  <2>2. /\ more \in Seq(0 .. PageLen - 1)
        /\ Len(more) = (IF hn - x + 1 <= l THEN l - (hn - x + 1) + 1 ELSE 0)
        /\ \A i \in 1 .. l - (hn - x + 1) + 1 : more[i] = seg.data[hn - x + 1 + i - 1]
    <3>1. l \in Int /\ hn - x + 1 \in Int
      BY <1>4, <2>1
    <3>2. ASSUME NEW i \in hn - x + 1 .. l PROVE seg.data[i] \in 0 .. PageLen - 1
      <4>1. i \in 1 .. l
        BY <1>4, <2>1
      <4>2. i \in 1 .. Len(seg.data)
        BY <4>1 DEF l
      <4> QED
        BY <1>4, <4>2
    <3> DEFINE b == hn - x + 1
    <3> HIDE DEF b
    <3>3. \A i \in b .. l : seg.data[i] \in 0 .. PageLen - 1
      BY <3>2 DEF b
    <3>4. b \in Int /\ l \in Int
      BY <3>1 DEF b
    <3>5. /\ SubSeq(seg.data, b, l) \in Seq(0 .. PageLen - 1)
          /\ Len(SubSeq(seg.data, b, l)) = (IF b <= l THEN l - b + 1 ELSE 0)
          /\ \A i \in 1 .. l - b + 1 : SubSeq(seg.data, b, l)[i] = seg.data[b + i - 1]
      BY <3>3, <3>4, SubSeqProperties
    <3> QED
      BY <3>5 DEF b
  <2>3. l - (hn - x + 1) + 1 = k /\ (hn - x + 1 <= l \/ k = 0)
    BY <1>4, <1>5, <1>7
  <2>4. Len(more) = k
    BY <2>2, <2>3
  <2>5. ASSUME NEW i \in 1 .. k
        PROVE  more[i] = seg.data[hn - x + i]
    <3>1. hn - x + 1 + i - 1 = hn - x + i
      BY <1>4, <1>5, <2>1
    <3> QED
      BY <2>2, <2>3, <3>1
  <2> QED
    BY <2>1, <2>2, <2>4, <2>5
<1> HIDE DEF more, got
<1>9. /\ got \o more \in Seq(0 .. PageLen - 1) /\ Len(got \o more) = x + l
      /\ \A i \in 1 .. x + l : (got \o more)[i] = i - 1
  <2>1. /\ got \o more \in Seq(0 .. PageLen - 1) /\ Len(got \o more) = Len(got) + Len(more)
        /\ \A i \in 1 .. Len(got) + Len(more) :
              (got \o more)[i] = IF i <= Len(got) THEN got[i] ELSE more[i - Len(got)]
    BY <1>5, <1>8, ConcatProperties, ZenonT(60)
  <2>2. Len(got) + Len(more) = x + l
    <3>1. Len(got) = hn
      BY <1>5 DEF m
    <3>2. hn + k = x + l
      BY <1>4, <1>5, <1>7
    <3> QED
      BY <1>8, <3>1, <3>2
  <2>3. ASSUME NEW i \in 1 .. x + l
        PROVE  (got \o more)[i] = i - 1
    <3>1. (got \o more)[i] = IF i <= hn THEN got[i] ELSE more[i - hn]
      BY <1>5, <2>1, <2>2 DEF m
    <3>2. CASE i <= hn
      <4>1. i \in 1 .. m
        BY <1>4, <1>5, <3>2
      <4> QED
        BY <1>5, <3>1, <3>2, <4>1
    <3>3. CASE ~(i <= hn)
      <4>1. i - hn \in 1 .. k /\ hn - x + (i - hn) = i - x /\ i - x \in 1 .. l
        BY <1>4, <1>5, <1>7, <3>3
      <4>2. more[i - hn] = seg.data[i - x]
        BY <1>8, <4>1
      <4>3. seg.data[i - x] = x + (i - x) - 1
        BY <1>3, <4>1 DEF Right, x, l
      <4>4. x + (i - x) - 1 = i - 1
        BY <1>4
      <4> QED
        BY <3>1, <3>3, <4>2, <4>3, <4>4
    <3> QED
      BY <3>2, <3>3
  <2> QED
    BY <2>1, <2>2, <2>3
<1>10. Have(host')
  <2>1. seg.fin /\ ~host.other => x + l = PageLen
    BY <1>3 DEF Behind, x, l
  <2> DEFINE g == got \o more
  <2>2. /\ g \in Seq(0 .. PageLen - 1) /\ Len(g) = x + l /\ x + l <= PageLen
        /\ \A i \in 1 .. Len(g) : g[i] = i - 1
    BY <1>4, <1>9
  <2> HIDE DEF g
  <2>3. host'.got = g
    BY <1>6 DEF g
  <2>4. /\ host'.got \in Seq(0 .. PageLen - 1) /\ Len(host'.got) <= PageLen
        /\ \A i \in 1 .. Len(host'.got) : host'.got[i] = i - 1
    BY <2>2, <2>3
  <2>5. host'.eof /\ ~host'.other => Len(host'.got) = PageLen
    BY <1>6, <2>1, <2>2, <2>3
  <2>6. /\ host'.eof \in BOOLEAN /\ host'.text \in 0 .. MaxData
        /\ host'.fin \in {"no", "alone", "with"} /\ host'.errs \in 0 .. MaxMemErrs
    BY <1>4, <1>6, NowGood DEF Have
  <2> QED
    BY <2>4, <2>5, <2>6 DEF Have
<1>11. HostNext' = End(seg)
  <2>1. Len(host'.got) = x + l
    BY <1>6, <1>9
  <2>2. HostNext' = x + l + e
    BY <1>6, <2>1 DEF HostNext, e
  <2> QED
    BY <1>4, <2>2
<1>12. /\ Now'.pcb = pcb /\ Now'.hs = hs /\ Now'.wire = wire'
       /\ Now'.other = host.other /\ Now'.errs = host.errs
  BY <1>2, <1>6 DEF Now
<1>13. /\ Now.pcb = pcb /\ Now.hs = hs /\ Now.wire = wire
       /\ Now.other = host.other /\ Now.errs = host.errs
  BY DEF Now
<1>14. Good(Now, hn)
  BY NowGood DEF hn
<1>15. Sent(Now')
  <2>1. wire' \subseteq wire
    BY <1>1
  <2> QED
    BY <1>12, <1>13, <1>14, <2>1 DEF Good, Sent
<1>16. pcb.state \in Active => Stream(pcb, Queue(pcb), host.other, End(seg))
  <2> SUFFICES ASSUME pcb.state \in Active
               PROVE  Stream(pcb, Queue(pcb), host.other, End(seg))
    OBVIOUS
  <2>1. Stream(pcb, Queue(pcb), host.other, hn) /\ Fields(pcb)
    BY <1>13, <1>14 DEF Good
  <2>2. pcb.lastack <= End(seg)
    <3> DEFINE a == pcb.lastack
               z == End(seg)
    <3>1. a \in 0 .. PageLen + 1 /\ a <= hn /\ hn < z /\ e \in 0 .. 1 /\ z = x + l + e
      BY <1>1, <1>4, <2>1 DEF Fields, Stream, e, hn
    <3> HIDE DEF a, z
    <3>2. a <= z
      BY <1>4, <1>5, <3>1
    <3> QED
      BY <3>2 DEF a, z
  <2> QED
    BY <2>1, <2>2 DEF Stream
<1>17. Place(Now')
  BY <1>12, <1>13, <1>14 DEF Good, Place
<1>18. Good(Now', End(seg))
  BY <1>12, <1>13, <1>14, <1>15, <1>16, <1>17 DEF Good
<1> QED
  BY <1>10, <1>11, <1>18

LEMMA StreamInit == Init => StreamInv
<1> SUFFICES ASSUME Init PROVE StreamInv
  OBVIOUS
<1>1. pcb = NoPcb /\ hs = NoHs /\ host = NoHost /\ wire = {} /\ ticks = 0
  BY DEF Init
<1>2. /\ host.got = <<>> /\ ~host.eof /\ host.eof \in BOOLEAN /\ host.text = 0
      /\ host.fin = "no" /\ host.other \in BOOLEAN /\ host.errs = 0
  BY <1>1 DEF NoHost
<1>3. /\ Now.pcb = pcb /\ Now.hs = hs /\ Now.wire = {} /\ Now.other \in BOOLEAN
      /\ Now.errs = 0
  BY <1>1, <1>2 DEF Now
<1>4. Free(pcb) /\ pcb.arg = FALSE /\ pcb.cb = "none"
  BY <1>1 DEF Free, NoPcb, SndWnd
<1>5. Kept(Now)
  BY <1>1, <1>3, <1>4, NoHsOk DEF Kept
<1>6. HsOk(Now.hs)
  BY <1>1, <1>3, NoHsOk
<1>7. Good(Now, HostNext)
  BY <1>3, <1>4, <1>5, <1>6, FreeGood DEF Goes
<1>8. Have(host)
  <2>1. <<>> \in Seq(0 .. PageLen - 1) /\ Len(<<>>) = 0
    OBVIOUS
  <2>2. host.got \in Seq(0 .. PageLen - 1) /\ Len(host.got) = 0
    BY <1>2, <2>1
  <2>3. 0 \in 0 .. MaxData /\ 0 \in 0 .. MaxMemErrs /\ 0 <= PageLen
    BY Sizes
  <2> QED
    BY <1>2, <2>2, <2>3 DEF Have
<1> QED
  BY <1>1, <1>7, <1>8, OwnerInit DEF StreamInv

LEMMA StreamNext == StreamInv /\ [Next]_vars => StreamInv'
<1> SUFFICES ASSUME StreamInv, [Next]_vars PROVE StreamInv'
  OBVIOUS
<1>1. OwnerInv'
  BY OwnerNext DEF StreamInv
<1>2. ticks \in 0 .. 1
  BY DEF StreamInv
<1>3. ticks' \in 0 .. 1
  <2>1. CASE http_accept
    BY <2>1 DEF http_accept
  <2>2. CASE HostReceives
    BY <1>2, <2>2 DEF HostReceives
  <2>3. CASE HostSegment
    BY <1>2, <2>3 DEF HostSegment
  <2>4. CASE Reset
    BY <1>2, <2>4 DEF Reset
  <2>5. CASE Tick
    <3>1. ticks' = 1 - ticks
      BY <2>5 DEF Tick, tcp_slowtmr, TimeWaitTick
    <3> QED
      BY <1>2, <3>1
  <2>6. CASE UNCHANGED vars
    BY <1>2, <2>6 DEF vars
  <2>7. CASE tcp_timewait_input
    BY <1>2, <2>7 DEF tcp_timewait_input
  <2> QED
    BY <2>1, <2>2, <2>3, <2>4, <2>5, <2>6, <2>7 DEF Next
<1>4. Good(Now', HostNext') /\ Have(host')
  <2>1. CASE http_accept
    BY <2>1, AcceptStream
  <2>2. CASE HostReceives
    BY <2>2, HostReceivesStream
  <2>3. CASE HostSegment
    BY <2>3, HostSegmentStream
  <2>4. CASE Reset
    BY <2>4, ResetStream
  <2>5. CASE Tick
    BY <2>5, SlowtmrStream, TimeWaitStream DEF Tick
  <2>6. CASE UNCHANGED vars
    <3>1. Now' = Now /\ host' = host /\ HostNext' = HostNext
      BY <2>6 DEF vars, Now, HostNext
    <3> QED
      BY <3>1 DEF StreamInv
  <2>7. CASE tcp_timewait_input
    BY <2>7, TimeWaitInputStream
  <2> QED
    BY <2>1, <2>2, <2>3, <2>4, <2>5, <2>6, <2>7 DEF Next
<1> QED
  BY <1>1, <1>3, <1>4 DEF StreamInv

\* The types, of the parts the invariants speak of.
LEMMA StreamType == ASSUME StreamInv PROVE TypeOK
<1>1. Owned(Now) /\ Good(Now, HostNext) /\ IsHost(host) /\ Have(host) /\ ticks \in 0 .. 1
  BY NowGood DEF StreamInv
<1>2. Now.pcb = pcb /\ Now.hs = hs /\ Now.other = host.other
  BY DEF Now
<1>3. /\ IsPcb(pcb) /\ IsHs(hs) /\ Fields(pcb)
      /\ pcb.state \in Active \cup {"TIME_WAIT", "CLOSED"}
      /\ pcb.arg \in BOOLEAN /\ pcb.rxclosed \in BOOLEAN /\ hs.live \in BOOLEAN
      /\ host.other \in BOOLEAN
      /\ hs.handle \in BOOLEAN /\ hs.file \in 0 .. PageLen
      /\ hs.retries \in 0 .. HTTPD_MAX_RETRIES - 1
  BY <1>1, <1>2 DEF Owned, IsWhole, Good, Place
<1>4. pcb \in [state : Active \cup {"TIME_WAIT", "CLOSED"},
               lastack : 0 .. PageLen + 1, snd_nxt : 0 .. PageLen + 1,
               snd_lbb : 0 .. PageLen + 1,
               unsent : Seq(Segment), unacked : Seq(Segment),
               nrtx : 0 .. U8 - 1, infr : BOOLEAN, snd_wnd : SndWnd, unread : 0 .. 2,
               rxclosed : BOOLEAN, arg : BOOLEAN, cb : {"http", "poll", "none"},
               polltmr : 0 .. HTTPD_POLL_INTERVAL, age : 0 .. Timeout]
  BY <1>3 DEF IsPcb, PcbFields, Fields
<1>5. hs \in [live : BOOLEAN, handle : BOOLEAN, file : 0 .. PageLen,
              retries : 0 .. HTTPD_MAX_RETRIES]
  <2>1. hs.retries \in 0 .. HTTPD_MAX_RETRIES
    BY <1>3, Sizes
  <2> QED
    BY <1>3, <2>1 DEF IsHs
<1>6. host \in [got : Seq(0 .. PageLen - 1), eof : BOOLEAN, text : 0 .. MaxData,
                fin : {"no", "alone", "with"}, other : BOOLEAN, errs : 0 .. MaxMemErrs]
  BY <1>1, <1>3 DEF IsHost, Have
<1>7. fault \in {"none", "stale pcb", "pcb freed twice", "stale hs", "hs freed twice"}
  BY DEF StreamInv, OwnerInv, Known
<1> QED
  BY <1>1, <1>4, <1>5, <1>6, <1>7 DEF TypeOK

LEMMA StreamQueues == ASSUME StreamInv PROVE QueuesSound
<1>1. ASSUME pcb.state \in Active
      PROVE  LET queue == pcb.unacked \o pcb.unsent
             IN  /\ \A i \in DOMAIN queue :
                      /\ \A k \in DOMAIN queue[i].data :
                            queue[i].data[k] = queue[i].seqno + k - 1
                      /\ i < Len(queue) => End(queue[i]) = queue[i + 1].seqno
                      /\ queue[i].fin => i = Len(queue) /\ pcb.state \in Closing
                 /\ queue # <<>> => /\ Head(queue).seqno <= pcb.lastack
                                    /\ pcb.lastack < End(Head(queue))
                 /\ queue = <<>> => pcb.lastack >= pcb.snd_lbb
  <2> DEFINE q == pcb.unacked \o pcb.unsent
  <2>1. Stream(pcb, q, host.other, HostNext) /\ Fields(pcb)
    <3>1. Now.pcb = pcb /\ Now.other = host.other
      BY DEF Now
    <3> QED
      BY <1>1, <3>1, NowGood DEF Good, Queue
  <2> HIDE DEF q
  <2>2. Linked(q) /\ q \in Seq(Segment) /\ DOMAIN q = 1 .. Len(q)
    BY <2>1 DEF Stream, Linked
  <2>3. ASSUME NEW i \in DOMAIN q
        PROVE  /\ \A k \in DOMAIN q[i].data : q[i].data[k] = q[i].seqno + k - 1
               /\ i < Len(q) => End(q[i]) = q[i + 1].seqno
               /\ q[i].fin => i = Len(q) /\ pcb.state \in Closing
    <3>1. i \in 1 .. Len(q) /\ q[i] \in Segment /\ Right(q[i])
      <4>1. i \in 1 .. Len(q)
        BY <2>2, SMTT(40)
      <4>2. Right(q[i])
        BY <2>2, <4>1 DEF Linked
      <4> QED
        BY <4>1, <4>2 DEF Right
    <3>2. DOMAIN q[i].data = 1 .. Len(q[i].data)
      <4>1. q[i].data \in Seq(0 .. PageLen - 1)
        BY <3>1, SegFacts
      <4> QED
        BY <4>1
    <3>3. \A k \in DOMAIN q[i].data : q[i].data[k] = q[i].seqno + k - 1
      BY <3>1, <3>2, SMTT(40) DEF Right
    <3>4. i < Len(q) => End(q[i]) = q[i + 1].seqno
      <4>1. i < Len(q) => i \in 1 .. Len(q) - 1
        <5> DEFINE l == Len(q)
        <5>1. l \in Nat /\ i \in 1 .. l
          BY <2>2, <3>1
        <5> HIDE DEF l
        <5>2. i < l => i \in 1 .. l - 1
          BY <5>1, SMTT(40)
        <5> QED
          BY <5>2 DEF l
      <4> QED
        BY <2>2, <4>1 DEF Linked
    <3>5. q[i].fin => i = Len(q) /\ pcb.state \in Closing
      BY <2>1, <2>2, <3>1 DEF Linked, Stream
    <3> QED
      BY <3>3, <3>4, <3>5
  <2>4. q # <<>> => Head(q).seqno <= pcb.lastack /\ pcb.lastack < End(Head(q))
    <3>1. q # <<>> => Head(q) = q[1]
      BY <2>2
    <3> QED
      BY <2>1, <3>1 DEF Stream
  <2>5. q = <<>> => pcb.lastack >= pcb.snd_lbb
    <3> DEFINE a == pcb.lastack
               b == pcb.snd_lbb
    <3>1. a \in 0 .. PageLen + 1 /\ b \in 0 .. PageLen + 1 /\ b <= Top(q, a)
      BY <2>1 DEF Fields, Stream
    <3>2. q = <<>> => Top(q, a) = a
      BY DEF Top
    <3> HIDE DEF a, b
    <3>3. q = <<>> => a >= b
      BY <3>1, <3>2
    <3> QED
      BY <3>3 DEF a, b
  <2>6. \A i \in DOMAIN q :
           /\ \A k \in DOMAIN q[i].data : q[i].data[k] = q[i].seqno + k - 1
           /\ i < Len(q) => End(q[i]) = q[i + 1].seqno
           /\ q[i].fin => i = Len(q) /\ pcb.state \in Closing
    BY <2>3
  <2> QED
    BY <2>4, <2>5, <2>6 DEF q
<1> QED
  BY <1>1, StreamType DEF QueuesSound

(***************************************************************************)
(* The two send queues of a connection hold what is not acknowledged, and  *)
(* nothing else, whatever was lost, repeated or sent again in a segment    *)
(* that had grown since (tcp_write, tcp_send_fin, tcp_output,              *)
(* tcp_rexmit_rto, tcp_rexmit_fast and the ACK half of tcp_receive), for   *)
(* every page, segment size, send buffer and set of windows, and for any   *)
(* number of retransmissions and failed allocations.                       *)
(***************************************************************************)
THEOREM HttpdQueuesSound == Spec => []QueuesSound
<1>1. StreamInv => QueuesSound
  BY StreamQueues
<1> QED
  BY <1>1, StreamInit, StreamNext, PTL DEF Spec

(***************************************************************************)
(* The host gets the page, every byte of it once and in order, and a FIN   *)
(* of the server only behind the whole of it, unless httpd closed for      *)
(* another reason (http_send, http_close_conn and http_poll on top of the  *)
(* send queues); zero window probes included.                              *)
(***************************************************************************)
THEOREM HttpdPageWhole == Spec => []PageWhole
<1>1. StreamInv => PageWhole
  <2> SUFFICES ASSUME StreamInv PROVE PageWhole
    OBVIOUS
  <2>1. /\ host.got \in Seq(0 .. PageLen - 1)
        /\ \A i \in 1 .. Len(host.got) : host.got[i] = i - 1
        /\ host.eof /\ ~host.other => Len(host.got) = PageLen
    BY NowGood DEF Have
  <2>2. DOMAIN host.got = 1 .. Len(host.got)
    BY <2>1
  <2> QED
    BY <2>1, <2>2 DEF PageWhole
<1> QED
  BY <1>1, StreamInit, StreamNext, PTL DEF Spec
=============================================================================
