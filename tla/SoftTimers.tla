----------------------------- MODULE SoftTimers -----------------------------
(***************************************************************************)
(* Time and the software timer: time.c under the main loop of main.c.      *)
(* SysTick counts milliseconds in msAddition, which wraps.  The main loop  *)
(* alternates service_traffic and stmr; both may send frames, and then     *)
(* linkoutput_fn sleeps in steps of a millisecond while the driver is not  *)
(* ready.  The firmware has one timer, tcp_timer, always active.           *)
(*                                                                         *)
(* True time is kept as the milliseconds since two events (age, waited),   *)
(* so the wrap is met again and again without a bound on time.             *)
(***************************************************************************)
EXTENDS Integers

CONSTANTS
    WORD,         \* 2^32: values of the millisecond counter
    Period,       \* TCP_TMR_INTERVAL (250)
    XmitTries,    \* polls of usb_ecm_can_xmit in linkoutput_fn (200)
    MaxSends,     \* bound: frames sent by one service_traffic or one tcp_tmr
    MaxLag        \* ticks that may pass between two readings of the clock

ASSUME SizeAssumption == {WORD, Period, XmitTries, MaxLag} \subseteq Nat \ {0}

ASSUME BoundAssumption == MaxSends \in Nat

\* How long the timer may have to wait for the rest of the main loop: every poll of
\* linkoutput_fn reads the clock at least twice.
Busy == MaxLag * (2 * XmitTries * MaxSends + 2)

\* The counter does not go round while the main loop goes round once.
ASSUME WordAssumption == WORD > Period + Busy

VARIABLES
    msAddition,   \* the counter SysTick_Handler advances
    COUNTFLAG,    \* of SysTick->CTRL: a tick since it was last read
    res,          \* mtime's result
    event,        \* tcp_timer.event
    pc, ret,      \* the main loop: next step, and where mtime returns to
    job,          \* on whose behalf frames are sent
    sends, i, t,  \* frames left to send; locals of linkoutput_fn and msleep
    lag,          \* ticks since mtime last returned
    age, waited   \* milliseconds since event was stored, up to a limit that is too many, and
                  \* since linkoutput_fn began

clock == <<msAddition, lag, age, waited>>
vars == <<clock, COUNTFLAG, res, event, pc, ret, job, sends, i, t>>

Callers == {"sleep", "woken", "stmr", "event"}

TypeOK ==
    /\ {msAddition, res, event, t} \subseteq 0 .. WORD - 1
    /\ COUNTFLAG \in BOOLEAN
    /\ pc \in {"traffic", "next", "poll", "giveup", "read", "check", "proc"} \cup Callers
    /\ ret \in Callers
    /\ job \in {"service_traffic", "tcp_tmr"}
    /\ sends \in 0 .. MaxSends
    /\ i \in 0 .. XmitTries
    /\ lag \in 0 .. MaxLag
    /\ age \in 0 .. Period + Busy /\ waited \in Nat

\* After time_init and init_lwip.
Init ==
    /\ msAddition = 0 /\ COUNTFLAG = FALSE /\ res = 0 /\ event = 0 /\ t = 0
    /\ pc = "traffic" /\ ret = "stmr" /\ job = "service_traffic" /\ sends = 0 /\ i = 0
    /\ lag = 0 /\ age = 0 /\ waited = 0

\* The main loop is in linkoutput_fn, polling or asleep.
InLinkOutput == \/ pc \in {"poll", "sleep", "woken", "giveup"}
                \/ pc \in {"read", "check"} /\ ret \in {"sleep", "woken"}

\* The C difference of two uint32_t.
Minus(a, b) == (a - b) % WORD
-----------------------------------------------------------------------------
(***************************************************************************)
(* SysTick_Handler. A millisecond is longer than any stretch of the main   *)
(* loop between two readings of the clock, but for MaxLag.                 *)
(***************************************************************************)
SysTick_Handler ==
    /\ lag < MaxLag
    /\ msAddition' = (msAddition + 1) % WORD
    /\ COUNTFLAG' = TRUE
    /\ lag' = lag + 1
    /\ age' = IF age < Period + Busy THEN age + 1 ELSE age
    /\ waited' = IF InLinkOutput THEN waited + 1 ELSE 0
    /\ UNCHANGED <<res, event, pc, ret, job, sends, i, t>>

\* mtime clears COUNTFLAG by reading CTRL; it will return to caller.
mtime(caller) == pc' = "read" /\ ret' = caller /\ COUNTFLAG' = FALSE

MtimeRead ==
    /\ pc = "read"
    /\ res' = msAddition
    /\ pc' = "check"
    /\ UNCHANGED <<clock, COUNTFLAG, event, ret, job, sends, i, t>>

\* Mutant: the flag is not looked at.
MtimeCheck_Once ==
    /\ pc = "check"
    /\ COUNTFLAG' = FALSE
    /\ pc' = ret
    /\ lag' = 0
    /\ UNCHANGED <<msAddition, age, waited, res, event, ret, job, sends, i, t>>

\* A tick since CTRL was read: once more.
MtimeCheck ==
    /\ pc = "check"
    /\ COUNTFLAG' = FALSE
    /\ pc' = IF COUNTFLAG THEN "read" ELSE ret
    /\ lag' = IF COUNTFLAG THEN lag ELSE 0
    /\ UNCHANGED <<msAddition, age, waited, res, event, ret, job, sends, i, t>>

(***************************************************************************)
(* Sending frames: linkoutput_fn and msleep(1)                             *)
(***************************************************************************)

\* The next frame of the job, if any; then the main loop goes on.
NextFrame ==
    /\ pc = "next"
    /\ IF sends = 0
         THEN /\ mtime(IF job = "service_traffic" THEN "stmr" ELSE "event")
              /\ UNCHANGED sends
         ELSE /\ pc' = "poll"
              /\ sends' = sends - 1
              /\ UNCHANGED <<ret, COUNTFLAG>>
    /\ i' = 0 /\ t' = 0 /\ waited' = 0
    /\ UNCHANGED <<msAddition, lag, age, res, event, job>>

\* usb_ecm_can_xmit: ready, or msleep.
PollCanXmit ==
    /\ pc = "poll"
    /\ \/ pc' = "next" /\ UNCHANGED <<ret, COUNTFLAG>>
       \/ mtime("sleep")
    /\ UNCHANGED <<clock, res, event, job, sends, i, t>>

\* msleep remembers when it began ...
SleepBegins ==
    /\ pc = "sleep"
    /\ t' = res
    /\ mtime("woken")
    /\ UNCHANGED <<clock, res, event, job, sends, i>>

\* Mutant: the deadline is compared instead of the difference.
Slept_Deadline(t1) == t1 >= (t + 1) % WORD

\* msleep(1) is over.
Slept(t1) == Minus(t1, t) >= 1 \/ t1 < t

\* ... and reads the clock until that was a millisecond ago; linkoutput_fn polls again
\* or gives up.
SleepEnds ==
    /\ pc = "woken"
    /\ IF Slept(res)
         THEN /\ i' = i + 1
              /\ pc' = IF i + 1 = XmitTries THEN "giveup" ELSE "poll"
              /\ UNCHANGED <<ret, COUNTFLAG>>
         ELSE mtime("woken") /\ UNCHANGED i
    /\ UNCHANGED <<clock, res, event, job, sends, t>>

\* linkoutput_fn returns ERR_USE.
GiveUp ==
    /\ pc = "giveup"
    /\ pc' = "next"
    /\ UNCHANGED <<clock, COUNTFLAG, res, event, ret, job, sends, i, t>>

(***************************************************************************)
(* The main loop: service_traffic, stmr                                    *)
(***************************************************************************)

\* service_traffic, with the frames lwIP answers.
ServiceTraffic ==
    /\ pc = "traffic"
    /\ job' = "service_traffic"
    /\ sends' \in 0 .. MaxSends
    /\ pc' = "next"
    /\ UNCHANGED <<clock, COUNTFLAG, res, event, ret, i, t>>

\* Mutant: the time of the next event is compared instead of the time elapsed.
Due_Deadline(time) == time >= (event + Period) % WORD

\* Mutant: the sum does not wrap.
Due_NoWrap(time) == time >= event + Period

Due(time) == Minus(time, event) >= Period

\* stmr: the timer is due or not.
StmrWalk ==
    /\ pc = "stmr"
    /\ pc' = IF Due(res) THEN "proc" ELSE "traffic"
    /\ UNCHANGED <<clock, COUNTFLAG, res, event, ret, job, sends, i, t>>

\* t->proc(t): tcp_tmr, with the frames it sends.
TcpTmr ==
    /\ pc = "proc"
    /\ job' = "tcp_tmr"
    /\ sends' \in 0 .. MaxSends
    /\ pc' = "next"
    /\ UNCHANGED <<clock, COUNTFLAG, res, event, ret, i, t>>

\* t->event = mtime()
StmrEvent ==
    /\ pc = "event"
    /\ event' = res
    /\ age' = Minus(msAddition, res)
    /\ pc' = "traffic"
    /\ UNCHANGED <<msAddition, lag, waited, COUNTFLAG, res, ret, job, sends, i, t>>

MainLoop == \/ ServiceTraffic \/ NextFrame \/ PollCanXmit \/ SleepBegins \/ SleepEnds
            \/ GiveUp \/ StmrWalk \/ TcpTmr \/ StmrEvent \/ MtimeRead \/ MtimeCheck

Next == SysTick_Handler \/ MainLoop

Spec == Init /\ [][Next]_vars

\* main never leaves its loop, and the timer of the core runs.
FairSpec == Spec /\ WF_vars(MainLoop) /\ WF_vars(SysTick_Handler)
-----------------------------------------------------------------------------
(***************************************************************************)
(* Properties                                                              *)
(***************************************************************************)

\* tcp_tmr is not called before TCP_TMR_INTERVAL has passed since it last ended, and at
\* most the length of one round of the main loop later, a host that fetches nothing and
\* the waiting in linkoutput_fn included. The wrap of the counter makes no difference.
OnTime ==
    /\ TypeOK
    /\ pc = "proc" => age \in Period .. Period + Busy - 1

\* linkoutput_fn gives a frame up after XmitTries milliseconds, no earlier, though
\* msleep takes a counter that has wrapped for the end of the sleep, and not much later.
GivesUpInTime == pc = "giveup" => waited \in XmitTries .. MaxLag * (2 * XmitTries + 1)

\* "monotonic time with 1 ms precision" (time.h): what mtime returns is the counter at
\* the moment it returns, though ticks come between its readings.
TimeIsCurrent == [][pc = "check" /\ pc' = ret => res = msAddition]_vars

\* TCP's timer is served again and again, over every wrap, whatever the driver does.
TcpTmrServed == []<>(pc = "proc")
=============================================================================
