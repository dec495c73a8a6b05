-------------------------- MODULE SoftTimers_proofs --------------------------
(***************************************************************************)
(* The timer and the waiting in linkoutput_fn keep their times over every  *)
(* wrap of the counter, for every word size, period, number of polls and   *)
(* of frames, as long as the counter does not go round while the main loop *)
(* goes round once.                                                        *)
(***************************************************************************)
EXTENDS SoftTimers, TLAPS

-----------------------------------------------------------------------------
(***************************************************************************)
(* The inductive invariant                                                 *)
(***************************************************************************)

\* The main loop waits for mtime, which returns to caller.
Reading(caller) == pc \in {"read", "check"} /\ ret = caller

\* linkoutput_fn has yet to sleep, sleeps, or has slept a millisecond.
Polled == pc \in {"poll", "giveup"} \/ Reading("sleep")
Asleep == pc = "sleep" \/ Reading("woken") \/ (pc = "woken" /\ res = t)
Awake == pc = "woken" /\ res # t

\* What linkoutput_fn has waited at most, but for the ticks since the clock was read: two
\* readings of the clock that return, each after MaxLag ticks at most, for every poll.
Returns == IF Polled THEN 2 * i ELSE IF Asleep THEN 2 * i + 1 ELSE 2 * i + 2
Spent == MaxLag * Returns

\* The same for the frames that are sent, when left are left.
FrameTime == MaxLag * (2 * XmitTries)
SentTime(left) == FrameTime * (MaxSends - left)

\* The loop counters.
CountInv ==
    /\ InLinkOutput => sends < MaxSends
    /\ InLinkOutput /\ pc # "giveup" => i < XmitTries
    /\ pc = "giveup" => i = XmitTries

\* What the readings of the clock have to do with it.
ReadInv ==
    /\ pc = "check" /\ ~COUNTFLAG => res = msAddition
    /\ pc \in Callers => Minus(msAddition, res) = lag
    /\ Reading("woken") => Minus(msAddition, t) = lag

\* True time and the counter.
ElapsedInv ==
    /\ age >= lag
    /\ age < Period + Busy => Minus(msAddition, event) = age

\* Waiting in linkoutput_fn.
WaitInv ==
    InLinkOutput => /\ waited <= Spent + lag
                    /\ Polled => waited >= i
                    /\ Asleep => waited >= i + lag
                    /\ Awake => waited >= i + 1

\* The round of the main loop up to stmr.
AgeInv ==
    /\ pc = "traffic" => age <= Period - 1 + lag
    /\ job = "service_traffic" /\ pc = "next" => age <= Period - 1 + SentTime(sends) + lag
    /\ job = "service_traffic" /\ InLinkOutput =>
          age <= Period - 1 + SentTime(sends + 1) + Spent + lag
    /\ Reading("stmr") => age <= Period - 1 + SentTime(0) + lag
    /\ pc \in {"stmr", "proc"} => age <= Period - 1 + SentTime(0) + MaxLag + lag
    /\ pc = "proc" => age >= Period

TimerInv == TypeOK /\ CountInv /\ ReadInv /\ ElapsedInv /\ WaitInv /\ AgeInv
-----------------------------------------------------------------------------
(***************************************************************************)
(* Arithmetic                                                              *)
(***************************************************************************)

\* The difference of two words.
LEMMA MinusIs ==
    ASSUME NEW a \in 0 .. WORD - 1, NEW b \in 0 .. WORD - 1
    PROVE  Minus(a, b) = IF a >= b THEN a - b ELSE a - b + WORD
  BY SizeAssumption DEF Minus

\* The next value of the counter.
LEMMA NextWord ==
    ASSUME NEW a \in 0 .. WORD - 1
    PROVE  (a + 1) % WORD = IF a + 1 = WORD THEN 0 ELSE a + 1
  BY SizeAssumption

LEMMA TimesOfFrames ==
    /\ {WORD, Period, XmitTries, MaxLag} \subseteq Nat \ {0} /\ MaxSends \in Nat
    /\ FrameTime \in Nat /\ Busy = SentTime(0) + 2 * MaxLag
    /\ \A left \in 0 .. MaxSends : SentTime(left) \in Nat /\ SentTime(left) <= SentTime(0)
    /\ \A left \in 0 .. MaxSends - 1 : SentTime(left) = SentTime(left + 1) + FrameTime
    /\ WORD > Period + Busy
  <1>1. {WORD, Period, XmitTries, MaxLag} \subseteq Nat \ {0} /\ MaxSends \in Nat
    BY SizeAssumption, BoundAssumption
  <1>2. FrameTime \in Nat
    BY <1>1 DEF FrameTime
  <1>3. Busy = SentTime(0) + 2 * MaxLag
    <2>1. 2 * XmitTries * MaxSends = (2 * XmitTries) * MaxSends
      BY <1>1
    <2>2. MaxLag * ((2 * XmitTries) * MaxSends + 2) = (MaxLag * (2 * XmitTries)) * MaxSends + 2 * MaxLag
      BY <1>1
    <2> QED
      BY <1>1, <2>1, <2>2 DEF Busy, SentTime, FrameTime
  <1>4. ASSUME NEW left \in 0 .. MaxSends
        PROVE  SentTime(left) \in Nat /\ SentTime(left) <= SentTime(0)
    <2>1. \A f, m, l \in Nat : l <= m => f * (m - l) \in Nat /\ f * (m - l) <= f * (m - 0)
      <3> SUFFICES ASSUME NEW f \in Nat, NEW m \in Nat, NEW l \in Nat, l <= m
                   PROVE  f * (m - l) \in Nat /\ f * (m - l) <= f * (m - 0)
        OBVIOUS
      <3>1. m - l \in Nat /\ f * (m - 0) = f * (m - l) + f * l /\ f * l \in Nat
        OBVIOUS
      <3> QED
        BY <3>1
    <2> QED
      BY <1>1, <1>2, <2>1 DEF SentTime
  <1>5. ASSUME NEW left \in 0 .. MaxSends - 1
        PROVE  SentTime(left) = SentTime(left + 1) + FrameTime
    <2>1. \A f, m, l \in Nat : f * (m - l) = f * (m - (l + 1)) + f
      OBVIOUS
    <2> QED
      BY <1>1, <1>2, <2>1 DEF SentTime
  <1> QED
    BY <1>1, <1>2, <1>3, <1>4, <1>5, WordAssumption

\* Two returns of mtime for every poll.
LEMMA TimesOfPolls ==
    ASSUME NEW n \in Nat
    PROVE  /\ MaxLag * (2 * n) \in Nat
           /\ MaxLag * (2 * n + 1) = MaxLag * (2 * n) + MaxLag
           /\ MaxLag * (2 * n + 2) = MaxLag * (2 * n) + 2 * MaxLag
           /\ MaxLag * (2 * (n + 1)) = MaxLag * (2 * n) + 2 * MaxLag
           /\ n = XmitTries => MaxLag * (2 * n) = FrameTime
           /\ MaxLag * (2 * 0) = 0
  BY SizeAssumption DEF FrameTime

\* What has been spent, by the place of the main loop.
LEMMA SpentIs ==
    ASSUME TypeOK
    PROVE  /\ i \in Nat /\ MaxLag * (2 * i) \in Nat /\ MaxLag \in Nat
           /\ Polled => Spent = MaxLag * (2 * i)
           /\ Asleep => Spent = MaxLag * (2 * i) + MaxLag
           /\ Awake => Spent = MaxLag * (2 * i) + 2 * MaxLag
           /\ InLinkOutput <=> Polled \/ Asleep \/ Awake
           /\ ~(Polled /\ Asleep) /\ ~(Polled /\ Awake) /\ ~(Asleep /\ Awake)
  <1>1. i \in Nat /\ MaxLag \in Nat
    BY SizeAssumption DEF TypeOK
  <1>2. /\ ~(Polled /\ Asleep) /\ ~(Polled /\ Awake) /\ ~(Asleep /\ Awake)
        /\ InLinkOutput <=> Polled \/ Asleep \/ Awake
    BY DEF Polled, Asleep, Awake, Reading, InLinkOutput
  <1> QED
    BY <1>1, <1>2, TimesOfPolls DEF Spent, Returns

\* The words of TypeOK, one by one.
LEMMA Words ==
    TypeOK => /\ msAddition \in 0 .. WORD - 1 /\ res \in 0 .. WORD - 1
              /\ event \in 0 .. WORD - 1 /\ t \in 0 .. WORD - 1
  BY DEF TypeOK
-----------------------------------------------------------------------------
(***************************************************************************)
(* The steps                                                               *)
(***************************************************************************)

\* A tick makes everything one millisecond older, the counter modulo WORD.
LEMMA TickKeeps ==
    ASSUME TimerInv, SysTick_Handler
    PROVE  TimerInv'
  <1>1. /\ lag' = lag + 1 /\ lag < MaxLag
        /\ age' = IF age < Period + Busy THEN age + 1 ELSE age
        /\ waited' = IF InLinkOutput THEN waited + 1 ELSE 0
        /\ UNCHANGED <<res, event, pc, ret, job, sends, i, t>>
        /\ COUNTFLAG'
    BY DEF SysTick_Handler
  <1>2. /\ TypeOK /\ lag \in Nat /\ age \in Nat /\ waited \in Nat /\ Period \in Nat /\ Busy \in Nat
        /\ MaxLag \in Nat /\ WORD \in Nat /\ WORD > Period + Busy /\ MaxLag <= Busy /\ i \in Nat
        /\ age <= Period + Busy
    BY TimesOfFrames DEF TimerInv, TypeOK
  <1>3. /\ msAddition \in 0 .. WORD - 1
        /\ msAddition' = IF msAddition + 1 = WORD THEN 0 ELSE msAddition + 1
    BY <1>2, Words, NextWord DEF SysTick_Handler
  <1>4. \A b \in 0 .. WORD - 1 : Minus(msAddition, b) < WORD - 1
                                   => Minus(msAddition', b) = Minus(msAddition, b) + 1
    <2> SUFFICES ASSUME NEW b \in 0 .. WORD - 1, Minus(msAddition, b) < WORD - 1
                 PROVE  Minus(msAddition', b) = Minus(msAddition, b) + 1
      OBVIOUS
    <2>1. msAddition' \in 0 .. WORD - 1
      BY <1>2, <1>3
    <2>2. /\ Minus(msAddition, b) = IF msAddition >= b THEN msAddition - b ELSE msAddition - b + WORD
          /\ Minus(msAddition', b) = IF msAddition' >= b THEN msAddition' - b
                                     ELSE msAddition' - b + WORD
      BY <1>3, <2>1, MinusIs
    <2> QED
      BY <1>2, <1>3, <2>2
  <1>5. TypeOK'
    <2>1. msAddition' \in 0 .. WORD - 1 /\ lag' \in 0 .. MaxLag /\ age' \in 0 .. Period + Busy
          /\ waited' \in Nat
      BY <1>1, <1>2, <1>3
    <2> QED
      BY <1>1, <1>2, <2>1 DEF TypeOK
  <1>6. InLinkOutput' = InLinkOutput /\ Polled' = Polled /\ Asleep' = Asleep /\ Awake' = Awake
        /\ Spent' = Spent /\ \A c \in Callers : Reading(c)' = Reading(c)
    BY <1>1 DEF InLinkOutput, Polled, Asleep, Awake, Spent, Returns, Reading
  <1>7. CountInv'
    BY <1>1, <1>6 DEF CountInv, TimerInv
  <1>8. ReadInv'
    <2>1. pc \in Callers => Minus(msAddition, res)' = lag'
      <3> SUFFICES ASSUME pc \in Callers PROVE Minus(msAddition', res) = lag + 1
        BY <1>1 DEF Minus
      <3>1. Minus(msAddition, res) = lag /\ res \in 0 .. WORD - 1
        BY <1>2, Words DEF TimerInv, ReadInv
      <3> QED
        BY <1>1, <1>2, <1>4, <3>1
    <2>2. Reading("woken") => Minus(msAddition, t)' = lag'
      <3> SUFFICES ASSUME Reading("woken") PROVE Minus(msAddition', t) = lag + 1
        BY <1>1 DEF Minus
      <3>1. Minus(msAddition, t) = lag /\ t \in 0 .. WORD - 1
        BY <1>2, Words DEF TimerInv, ReadInv
      <3> QED
        BY <1>1, <1>2, <1>4, <3>1
    <2> QED
      BY <1>1, <1>6, <2>1, <2>2 DEF ReadInv, Callers
  <1>9. ElapsedInv'
    <2>1. age >= lag
      BY DEF TimerInv, ElapsedInv
    <2>2. age' >= lag'
      BY <1>1, <1>2, <2>1
    <2>3. ASSUME age' < Period + Busy PROVE Minus(msAddition', event) = age'
      <3>1. age < Period + Busy /\ age' = age + 1
        BY <1>1, <1>2, <2>3
      <3>2. Minus(msAddition, event) = age /\ event \in 0 .. WORD - 1
        BY <1>2, <3>1, Words DEF TimerInv, ElapsedInv
      <3> QED
        BY <1>2, <1>4, <2>3, <3>1, <3>2
    <2> QED
      BY <1>1, <2>2, <2>3 DEF ElapsedInv, Minus
  <1>10. WaitInv'
    <2>1. Spent \in Nat
      BY <1>2, SpentIs DEF Spent, Returns
    <2> QED
      BY <1>1, <1>2, <1>6, <2>1 DEF TimerInv, WaitInv
  <1>11. AgeInv'
    <2>1. age' <= age + 1 /\ age' >= age
      BY <1>1, <1>2
    <2>2. /\ Spent \in Nat /\ SentTime(0) \in Nat /\ SentTime(sends) \in Nat
          /\ InLinkOutput => SentTime(sends + 1) \in Nat
      <3>1. sends \in 0 .. MaxSends /\ 0 \in 0 .. MaxSends /\ MaxSends \in Nat
        BY <1>2, TimesOfFrames DEF TypeOK
      <3>2. InLinkOutput => sends + 1 \in 0 .. MaxSends
        BY <3>1 DEF TimerInv, CountInv
      <3> QED
        BY <1>2, <3>1, <3>2, SpentIs, TimesOfFrames DEF Spent, Returns
    <2>3. SentTime(sends)' = SentTime(sends) /\ SentTime(sends + 1)' = SentTime(sends + 1)
      BY <1>1 DEF SentTime
    <2>4. /\ pc = "traffic" => age <= Period - 1 + lag
          /\ job = "service_traffic" /\ pc = "next" => age <= Period - 1 + SentTime(sends) + lag
          /\ job = "service_traffic" /\ InLinkOutput =>
                age <= Period - 1 + SentTime(sends + 1) + Spent + lag
          /\ Reading("stmr") => age <= Period - 1 + SentTime(0) + lag
          /\ pc \in {"stmr", "proc"} => age <= Period - 1 + SentTime(0) + MaxLag + lag
          /\ pc = "proc" => age >= Period
      BY DEF TimerInv, AgeInv
    <2> HIDE DEF AgeInv
    <2>5. Reading("stmr")' = Reading("stmr")
      BY <1>6 DEF Callers
    <2>6. pc' = "traffic" => age' <= Period - 1 + lag'
      BY <1>1, <1>2, <2>1, <2>4
    <2>7. job' = "service_traffic" /\ pc' = "next" => age' <= Period - 1 + SentTime(sends)' + lag'
      BY <1>1, <1>2, <2>1, <2>2, <2>3, <2>4
    <2>8. job' = "service_traffic" /\ InLinkOutput' =>
             age' <= Period - 1 + SentTime(sends + 1)' + Spent' + lag'
      BY <1>1, <1>2, <1>6, <2>1, <2>2, <2>3, <2>4
    <2>9. Reading("stmr")' => age' <= Period - 1 + SentTime(0) + lag'
      BY <1>1, <1>2, <2>1, <2>2, <2>4, <2>5
    <2>10. /\ pc' \in {"stmr", "proc"} => age' <= Period - 1 + SentTime(0) + MaxLag + lag'
           /\ pc' = "proc" => age' >= Period
      BY <1>1, <1>2, <2>1, <2>2, <2>4
    <2> QED
      BY <2>6, <2>7, <2>8, <2>9, <2>10 DEF AgeInv, SentTime, FrameTime
  <1> QED
    BY <1>5, <1>7, <1>8, <1>9, <1>10, <1>11 DEF TimerInv

\* The numbers every step speaks of.
LEMMA Numbers ==
    ASSUME TimerInv
    PROVE  /\ TypeOK /\ lag \in Nat /\ age \in Nat /\ waited \in Nat /\ Period \in Nat /\ Period > 0
           /\ MaxLag \in Nat /\ MaxLag > 0 /\ WORD \in Nat /\ WORD > Period + Busy /\ i \in Nat
           /\ Busy = SentTime(0) + 2 * MaxLag /\ Busy \in Nat /\ lag <= MaxLag /\ MaxSends \in Nat
           /\ SentTime(0) \in Nat /\ SentTime(sends) \in Nat /\ SentTime(sends) <= SentTime(0)
           /\ sends < MaxSends => SentTime(sends + 1) \in Nat
           /\ MaxLag * (2 * i) \in Nat /\ XmitTries \in Nat /\ XmitTries > 0
           /\ sends \in 0 .. MaxSends
  <1>1. TypeOK /\ lag \in 0 .. MaxLag /\ age \in Nat /\ waited \in Nat /\ sends \in 0 .. MaxSends
        /\ i \in Nat
    BY TimesOfFrames DEF TimerInv, TypeOK
  <1>2. 0 \in 0 .. MaxSends /\ (sends < MaxSends => sends + 1 \in 0 .. MaxSends)
    BY <1>1, TimesOfFrames
  <1> QED
    BY <1>1, <1>2, TimesOfFrames, SpentIs

\* mtime reads the counter.
LEMMA ReadKeeps ==
    ASSUME TimerInv, MtimeRead
    PROVE  TimerInv'
  <1>1. /\ pc = "read" /\ pc' = "check" /\ res' = msAddition
        /\ UNCHANGED <<msAddition, lag, age, waited, COUNTFLAG, event, ret, job, sends, i, t>>
    BY DEF MtimeRead, clock
  <1>2. TypeOK'
    BY <1>1 DEF TimerInv, TypeOK
  <1>3. InLinkOutput' = InLinkOutput /\ Polled' = Polled /\ Asleep' = Asleep /\ Awake' = Awake
        /\ Spent' = Spent /\ \A c \in Callers : Reading(c)' = Reading(c)
    BY <1>1 DEF InLinkOutput, Polled, Asleep, Awake, Spent, Returns, Reading
  <1>4. "stmr" \in Callers /\ "woken" \in Callers /\ "read" \notin Callers /\ "check" \notin Callers
    BY DEF Callers
  <1>5. CountInv'
    BY <1>1, <1>3 DEF TimerInv, CountInv
  <1>6. ReadInv'
    BY <1>1, <1>3, <1>4 DEF TimerInv, ReadInv, Minus
  <1>7. ElapsedInv' /\ WaitInv'
    BY <1>1, <1>3 DEF TimerInv, ElapsedInv, WaitInv, Minus
  <1>8. AgeInv'
    BY <1>1, <1>3, <1>4 DEF TimerInv, AgeInv, SentTime, FrameTime
  <1> QED
    BY <1>2, <1>5, <1>6, <1>7, <1>8 DEF TimerInv

\* mtime returns, or reads once more.
LEMMA CheckKeeps ==
    ASSUME TimerInv, MtimeCheck
    PROVE  TimerInv'
  <1>1. /\ pc = "check" /\ COUNTFLAG' = FALSE
        /\ UNCHANGED <<msAddition, age, waited, res, event, ret, job, sends, i, t>>
    BY DEF MtimeCheck
  <1>2. ret \in Callers
    BY DEF TimerInv, TypeOK
  <1>3. CASE COUNTFLAG
    <2>1. pc' = "read" /\ lag' = lag
      BY <1>3 DEF MtimeCheck
    <2>2. InLinkOutput' = InLinkOutput /\ Polled' = Polled /\ Asleep' = Asleep /\ Awake' = Awake
          /\ Spent' = Spent /\ \A c \in Callers : Reading(c)' = Reading(c)
      BY <1>1, <2>1 DEF InLinkOutput, Polled, Asleep, Awake, Spent, Returns, Reading
    <2>3. "stmr" \in Callers /\ "woken" \in Callers /\ "read" \notin Callers
      BY DEF Callers
    <2>4. TypeOK' /\ CountInv'
      BY <1>1, <2>1, <2>2 DEF TimerInv, TypeOK, CountInv
    <2>5. ReadInv' /\ ElapsedInv' /\ WaitInv'
      BY <1>1, <2>1, <2>2, <2>3 DEF TimerInv, ReadInv, ElapsedInv, WaitInv, Minus
    <2>6. AgeInv'
      BY <1>1, <2>1, <2>2, <2>3 DEF TimerInv, AgeInv, SentTime, FrameTime
    <2> QED
      BY <2>4, <2>5, <2>6 DEF TimerInv
  <1>4. CASE ~COUNTFLAG
    <2>1. pc' = ret /\ lag' = 0 /\ res = msAddition
      BY <1>1, <1>4 DEF MtimeCheck, TimerInv, ReadInv
    <2>2. /\ lag \in Nat /\ age \in Nat /\ waited \in Nat /\ lag <= MaxLag /\ MaxLag \in Nat
          /\ i \in Nat /\ MaxLag * (2 * i) \in Nat /\ Period \in Nat /\ SentTime(0) \in Nat
          /\ sends < MaxSends => SentTime(sends + 1) \in Nat
      BY Numbers
    <2>3. Minus(msAddition, res) = 0 /\ res \in 0 .. WORD - 1 /\ t \in 0 .. WORD - 1
      BY <2>1, MinusIs, Words, TimesOfFrames DEF TimerInv
    <2>4. TypeOK'
      <3>1. pc' \in Callers /\ lag' \in 0 .. MaxLag
        BY <1>2, <2>1, <2>2
      <3> QED
        BY <1>1, <3>1 DEF TimerInv, TypeOK
    <2>5. InLinkOutput' = InLinkOutput /\ CountInv'
      BY <1>1, <1>2, <2>1 DEF TimerInv, CountInv, InLinkOutput, Callers
    <2>6. ReadInv'
      BY <1>1, <1>2, <2>1, <2>3 DEF ReadInv, Reading, Callers, Minus
    <2>7. ElapsedInv'
      BY <1>1, <2>1, <2>2 DEF TimerInv, ElapsedInv, Minus
    <2>8. CASE ret = "sleep"
      <3>1. Polled /\ Asleep' /\ ~Polled' /\ ~Awake' /\ InLinkOutput
        BY <1>1, <2>1, <2>8 DEF Polled, Asleep, Awake, Reading, InLinkOutput
      <3>2. Spent = MaxLag * (2 * i) /\ Spent' = MaxLag * (2 * i) + MaxLag
        BY <1>1, <2>2, <3>1, SpentIs, TimesOfPolls DEF TimerInv, Spent, Returns
      <3>3. waited <= Spent + lag /\ waited >= i
        BY <3>1 DEF TimerInv, WaitInv
      <3>4. WaitInv'
        BY <1>1, <2>1, <2>2, <3>1, <3>2, <3>3 DEF WaitInv
      <3>5. job = "service_traffic" => age <= Period - 1 + SentTime(sends + 1) + Spent + lag
        BY <3>1 DEF TimerInv, AgeInv
      <3>6. SentTime(sends + 1) \in Nat
        BY <2>2, <3>1 DEF TimerInv, CountInv
      <3>7. SentTime(sends + 1)' = SentTime(sends + 1)
        BY <1>1 DEF SentTime
      <3>8. job' = "service_traffic" => age' <= Period - 1 + SentTime(sends + 1)' + Spent' + lag'
        BY <1>1, <2>1, <2>2, <3>2, <3>5, <3>6, <3>7
      <3>9. AgeInv'
        BY <1>1, <2>1, <2>8, <3>8 DEF AgeInv, Reading
      <3> QED
        BY <2>4, <2>5, <2>6, <2>7, <3>4, <3>9 DEF TimerInv
    <2>9. CASE ret = "woken"
      <3>1. /\ Asleep /\ ~Polled' /\ InLinkOutput /\ (res = t <=> Asleep') /\ (res # t <=> Awake')
        BY <1>1, <2>1, <2>9 DEF Polled, Asleep, Awake, Reading, InLinkOutput
      <3>2. res = t => lag = 0
        BY <1>1, <2>1, <2>3, <2>9 DEF TimerInv, ReadInv, Reading
      <3>3. res # t => lag >= 1
        <4>1. Minus(msAddition, t) = lag
          BY <1>1, <2>9 DEF TimerInv, ReadInv, Reading
        <4> QED
          BY <2>1, <2>3, <4>1, MinusIs, TimesOfFrames
      <3>4. /\ Spent = MaxLag * (2 * i) + MaxLag
            /\ res = t => Spent' = MaxLag * (2 * i) + MaxLag
            /\ res # t => Spent' = MaxLag * (2 * i) + 2 * MaxLag
        BY <1>1, <2>2, <3>1, SpentIs, TimesOfPolls DEF TimerInv, Spent, Returns
      <3>5. waited <= Spent + lag /\ waited >= i + lag
        BY <3>1 DEF TimerInv, WaitInv
      <3>6. WaitInv'
        BY <1>1, <2>1, <2>2, <3>1, <3>2, <3>3, <3>4, <3>5 DEF WaitInv
      <3>7. job = "service_traffic" => age <= Period - 1 + SentTime(sends + 1) + Spent + lag
        BY <3>1 DEF TimerInv, AgeInv
      <3>8. SentTime(sends + 1) \in Nat
        BY <2>2, <3>1 DEF TimerInv, CountInv
      <3>9. SentTime(sends + 1)' = SentTime(sends + 1)
        BY <1>1 DEF SentTime
      <3>10. job' = "service_traffic" => age' <= Period - 1 + SentTime(sends + 1)' + Spent' + lag'
        BY <1>1, <2>1, <2>2, <3>2, <3>3, <3>4, <3>7, <3>8, <3>9
      <3>11. AgeInv'
        BY <1>1, <2>1, <2>9, <3>10 DEF AgeInv, Reading
      <3> QED
        BY <2>4, <2>5, <2>6, <2>7, <3>6, <3>11 DEF TimerInv
    <2>10. CASE ret \in {"stmr", "event"}
      <3>1. ~InLinkOutput'
        BY <2>1, <2>10 DEF InLinkOutput
      <3>2. ret = "stmr" => age <= Period - 1 + SentTime(0) + lag
        BY <1>1 DEF TimerInv, AgeInv, Reading
      <3>3. ret = "stmr" => age' <= Period - 1 + SentTime(0) + MaxLag + lag'
        BY <1>1, <2>1, <2>2, <3>2
      <3>4. AgeInv'
        BY <2>1, <2>10, <3>1, <3>3 DEF AgeInv, Reading, SentTime, FrameTime
      <3> QED
        BY <2>4, <2>5, <2>6, <2>7, <3>1, <3>4 DEF TimerInv, WaitInv
    <2> QED
      BY <1>2, <2>8, <2>9, <2>10 DEF Callers
  <1> QED
    BY <1>3, <1>4

\* The next frame, or the end of the job.
LEMMA NextFrameKeeps ==
    ASSUME TimerInv, NextFrame
    PROVE  TimerInv'
  <1>1. /\ pc = "next" /\ i' = 0 /\ t' = 0 /\ waited' = 0
        /\ UNCHANGED <<msAddition, lag, age, res, event, job>>
    BY DEF NextFrame
  <1>2. /\ lag \in Nat /\ age \in Nat /\ Period \in Nat /\ MaxSends \in Nat /\ MaxLag \in Nat
        /\ sends \in 0 .. MaxSends /\ XmitTries \in Nat /\ XmitTries > 0 /\ 0 \in 0 .. WORD - 1
    BY Numbers
  <1>3. job = "service_traffic" => age <= Period - 1 + SentTime(sends) + lag
    BY <1>1 DEF TimerInv, AgeInv
  <1>4. ElapsedInv'
    BY <1>1 DEF TimerInv, ElapsedInv, Minus
  <1>5. CASE sends = 0
    <2>1. /\ pc' = "read" /\ COUNTFLAG' = FALSE /\ sends' = 0
          /\ ret' = IF job = "service_traffic" THEN "stmr" ELSE "event"
      BY <1>5 DEF NextFrame, mtime
    <2>2. TypeOK'
      <3>1. ret' \in Callers /\ i' \in 0 .. XmitTries /\ sends' \in 0 .. MaxSends
        BY <1>1, <1>2, <2>1 DEF Callers
      <3> QED
        BY <1>1, <1>2, <2>1, <3>1 DEF TimerInv, TypeOK
    <2>3. ~InLinkOutput'
      BY <2>1 DEF InLinkOutput
    <2>4. ReadInv' /\ CountInv' /\ WaitInv'
      BY <2>1, <2>3 DEF ReadInv, CountInv, WaitInv, Reading, Callers
    <2>5. AgeInv'
      BY <1>1, <1>3, <1>5, <2>1, <2>3 DEF AgeInv, Reading, SentTime, FrameTime
    <2> QED
      BY <1>4, <2>2, <2>4, <2>5 DEF TimerInv
  <1>6. CASE sends # 0
    <2>1. pc' = "poll" /\ sends' = sends - 1 /\ UNCHANGED <<ret, COUNTFLAG>>
      BY <1>6 DEF NextFrame
    <2>2. sends' \in 0 .. MaxSends /\ sends' < MaxSends /\ sends' + 1 = sends
      BY <1>2, <1>6, <2>1
    <2>3. TypeOK'
      BY <1>1, <1>2, <2>1, <2>2 DEF TimerInv, TypeOK
    <2>4. /\ InLinkOutput' /\ Polled' /\ ~Asleep' /\ ~Awake'
      BY <2>1 DEF InLinkOutput, Polled, Asleep, Awake, Reading
    <2>5. Spent' = 0
      BY <1>1, <1>2, <2>4 DEF Spent, Returns
    <2>6. ReadInv' /\ CountInv' /\ WaitInv'
      BY <1>1, <1>2, <2>1, <2>2, <2>4, <2>5 DEF ReadInv, CountInv, WaitInv, Reading, Callers
    <2>7. SentTime(sends + 1)' = SentTime(sends)
      BY <2>2 DEF SentTime
    <2>8. SentTime(sends) \in Nat
      BY Numbers
    <2>9. job' = "service_traffic" => age' <= Period - 1 + SentTime(sends + 1)' + Spent' + lag'
      BY <1>1, <1>2, <1>3, <2>5, <2>7, <2>8
    <2>10. AgeInv'
      BY <2>1, <2>9 DEF AgeInv, Reading
    <2> QED
      BY <1>4, <2>3, <2>6, <2>10 DEF TimerInv
  <1> QED
    BY <1>5, <1>6

\* linkoutput_fn polls, sleeps, and gives up: what it has spent goes on.
LEMMA PollKeeps ==
    ASSUME TimerInv, PollCanXmit
    PROVE  TimerInv'
  <1>1. pc = "poll" /\ UNCHANGED <<msAddition, lag, age, waited, res, event, job, sends, i, t>>
    BY DEF PollCanXmit, clock
  <1>2. ElapsedInv'
    BY <1>1 DEF TimerInv, ElapsedInv, Minus
  <1>3. InLinkOutput /\ Polled /\ Spent = MaxLag * (2 * i)
    BY <1>1, SpentIs DEF TimerInv, InLinkOutput, Polled
  <1>4. CASE pc' = "next" /\ UNCHANGED <<ret, COUNTFLAG>>
    <2>1. ~InLinkOutput' /\ TypeOK'
      BY <1>1, <1>4 DEF InLinkOutput, TimerInv, TypeOK
    <2>2. ReadInv' /\ CountInv' /\ WaitInv'
      BY <1>4, <2>1 DEF ReadInv, CountInv, WaitInv, Reading, Callers
    <2>3. /\ job = "service_traffic" => age <= Period - 1 + SentTime(sends + 1) + Spent + lag
          /\ sends < MaxSends /\ i < XmitTries
      BY <1>1, <1>3 DEF TimerInv, AgeInv, CountInv
    <2>4. Spent <= FrameTime /\ Spent \in Nat /\ FrameTime \in Nat
      <3>1. i \in Nat /\ XmitTries \in Nat /\ MaxLag \in Nat /\ MaxLag > 0
        BY Numbers
      <3>2. \A m, a, b \in Nat : a < b => m * (2 * a) <= m * (2 * b)
        <4> SUFFICES ASSUME NEW m \in Nat, NEW a \in Nat, NEW b \in Nat, a < b
                     PROVE  m * (2 * a) <= m * (2 * b)
          OBVIOUS
        <4>1. m * (2 * b) = m * (2 * a) + m * (2 * (b - a)) /\ 2 * (b - a) \in Nat
          OBVIOUS
        <4> QED
          BY <4>1
      <3> QED
        BY <1>3, <2>3, <3>1, <3>2, SpentIs, TimesOfFrames DEF TimerInv, FrameTime
    <2>5. SentTime(sends) = SentTime(sends + 1) + FrameTime /\ SentTime(sends + 1) \in Nat
          /\ sends \in 0 .. MaxSends - 1
      BY <2>3, Numbers, TimesOfFrames
    <2>6. lag \in Nat /\ age \in Nat /\ Period \in Nat
      BY Numbers
    <2>7. job' = "service_traffic" => age' <= Period - 1 + SentTime(sends)' + lag'
      <3>1. SentTime(sends)' = SentTime(sends)
        BY <1>1 DEF SentTime
      <3> QED
        BY <1>1, <2>3, <2>4, <2>5, <2>6, <3>1
    <2>8. AgeInv'
      BY <1>4, <2>1, <2>7 DEF AgeInv, Reading
    <2> QED
      BY <1>2, <2>1, <2>2, <2>8 DEF TimerInv
  <1>5. CASE mtime("sleep")
    <2>1. pc' = "read" /\ ret' = "sleep" /\ COUNTFLAG' = FALSE
      BY <1>5 DEF mtime
    <2>2. InLinkOutput' /\ Polled' /\ ~Asleep' /\ ~Awake' /\ TypeOK'
      BY <1>1, <2>1 DEF InLinkOutput, Polled, Asleep, Awake, Reading, TimerInv, TypeOK, Callers
    <2>3. Spent' = Spent
      BY <1>1, <1>3, <2>2 DEF Spent, Returns
    <2>4. ReadInv' /\ CountInv' /\ WaitInv'
      BY <1>1, <1>3, <2>1, <2>2, <2>3
      DEF ReadInv, CountInv, WaitInv, Reading, Callers, TimerInv
    <2>5. AgeInv'
      BY <1>1, <1>3, <2>1, <2>2, <2>3 DEF TimerInv, AgeInv, Reading, SentTime
    <2> QED
      BY <1>2, <2>2, <2>4, <2>5 DEF TimerInv
  <1> QED
    BY <1>4, <1>5 DEF PollCanXmit

LEMMA SleepBeginsKeeps ==
    ASSUME TimerInv, SleepBegins
    PROVE  TimerInv'
  <1>1. /\ pc = "sleep" /\ t' = res /\ pc' = "read" /\ ret' = "woken" /\ COUNTFLAG' = FALSE
        /\ UNCHANGED <<msAddition, lag, age, waited, res, event, job, sends, i>>
    BY DEF SleepBegins, clock, mtime
  <1>2. ElapsedInv'
    BY <1>1 DEF TimerInv, ElapsedInv, Minus
  <1>3. InLinkOutput /\ Asleep /\ ~Polled
    BY <1>1 DEF InLinkOutput, Asleep, Polled, Reading
  <1>4. InLinkOutput' /\ Asleep' /\ ~Polled' /\ ~Awake' /\ TypeOK'
    BY <1>1 DEF InLinkOutput, Polled, Asleep, Awake, Reading, TimerInv, TypeOK, Callers
  <1>5. Spent' = Spent
    BY <1>1, <1>3, <1>4 DEF Spent, Returns
  <1>6. ReadInv'
    BY <1>1 DEF ReadInv, Reading, Callers, TimerInv, Minus
  <1>7. CountInv' /\ WaitInv'
    BY <1>1, <1>3, <1>4, <1>5 DEF CountInv, WaitInv, TimerInv
  <1>8. AgeInv'
    BY <1>1, <1>3, <1>4, <1>5 DEF TimerInv, AgeInv, Reading, SentTime
  <1> QED
    BY <1>2, <1>4, <1>6, <1>7, <1>8 DEF TimerInv

LEMMA SleepEndsKeeps ==
    ASSUME TimerInv, SleepEnds
    PROVE  TimerInv'
  <1>1. pc = "woken" /\ UNCHANGED <<msAddition, lag, age, waited, res, event, job, sends, t>>
    BY DEF SleepEnds, clock
  <1>2. ElapsedInv'
    BY <1>1 DEF TimerInv, ElapsedInv, Minus
  <1>3. Slept(res) <=> res # t
    BY MinusIs, Words, TimesOfFrames DEF Slept, TimerInv
  <1>4. InLinkOutput /\ i < XmitTries /\ i \in Nat /\ XmitTries \in Nat /\ sends < MaxSends
    BY <1>1, Numbers DEF InLinkOutput, TimerInv, CountInv
  <1>5. CASE res = t
    <2>1. pc' = "read" /\ ret' = "woken" /\ COUNTFLAG' = FALSE /\ i' = i
      BY <1>3, <1>5 DEF SleepEnds, mtime
    <2>2. Asleep /\ ~Polled /\ InLinkOutput' /\ Asleep' /\ ~Polled' /\ ~Awake' /\ TypeOK'
      BY <1>1, <1>5, <2>1
      DEF InLinkOutput, Polled, Asleep, Awake, Reading, TimerInv, TypeOK, Callers
    <2>3. Spent' = Spent
      BY <2>1, <2>2 DEF Spent, Returns
    <2>4. ReadInv'
      BY <1>1, <1>5, <2>1 DEF ReadInv, Reading, Callers, TimerInv, Minus
    <2>5. CountInv' /\ WaitInv'
      BY <1>1, <1>4, <2>1, <2>2, <2>3 DEF CountInv, WaitInv, TimerInv
    <2>6. AgeInv'
      BY <1>1, <1>4, <2>1, <2>2, <2>3 DEF TimerInv, AgeInv, Reading, SentTime
    <2> QED
      BY <1>2, <2>2, <2>4, <2>5, <2>6 DEF TimerInv
  <1>6. CASE res # t
    <2>1. /\ i' = i + 1 /\ UNCHANGED <<ret, COUNTFLAG>>
          /\ pc' = IF i + 1 = XmitTries THEN "giveup" ELSE "poll"
      BY <1>3, <1>6 DEF SleepEnds
    <2>2. i' \in 0 .. XmitTries /\ (pc' = "giveup" <=> i' = XmitTries)
      BY <1>4, <2>1
    <2>3. Awake /\ InLinkOutput' /\ Polled' /\ ~Asleep' /\ ~Awake' /\ TypeOK'
      BY <1>1, <1>6, <2>1, <2>2
      DEF InLinkOutput, Polled, Asleep, Awake, Reading, TimerInv, TypeOK
    <2>4. Spent = MaxLag * (2 * i) + 2 * MaxLag
      BY <2>3, SpentIs DEF TimerInv
    <2>5. Spent' = Spent
      BY <1>4, <2>1, <2>3, <2>4, TimesOfPolls DEF Spent, Returns
    <2>6. ReadInv'
      BY <2>1 DEF ReadInv, Reading, Callers
    <2>7. CountInv' /\ WaitInv'
      BY <1>1, <1>4, <2>1, <2>2, <2>3, <2>5 DEF CountInv, WaitInv, TimerInv
    <2>8. AgeInv'
      BY <1>1, <1>4, <2>1, <2>3, <2>5 DEF TimerInv, AgeInv, Reading, SentTime
    <2> QED
      BY <1>2, <2>3, <2>6, <2>7, <2>8 DEF TimerInv
  <1> QED
    BY <1>5, <1>6

LEMMA GiveUpKeeps ==
    ASSUME TimerInv, GiveUp
    PROVE  TimerInv'
  <1>1. /\ pc = "giveup" /\ pc' = "next"
        /\ UNCHANGED <<msAddition, lag, age, waited, COUNTFLAG, res, event, ret, job, sends, i, t>>
    BY DEF GiveUp, clock
  <1>2. ElapsedInv' /\ TypeOK' /\ ~InLinkOutput'
    BY <1>1 DEF TimerInv, ElapsedInv, TypeOK, Minus, InLinkOutput
  <1>3. ReadInv' /\ CountInv' /\ WaitInv'
    BY <1>1, <1>2 DEF ReadInv, CountInv, WaitInv, Reading, Callers
  <1>4. InLinkOutput /\ Polled /\ i = XmitTries /\ sends < MaxSends
    BY <1>1 DEF InLinkOutput, Polled, TimerInv, CountInv
  <1>5. Spent = FrameTime /\ SentTime(sends) = SentTime(sends + 1) + FrameTime
        /\ SentTime(sends + 1) \in Nat /\ FrameTime \in Nat
    <2>1. Spent = MaxLag * (2 * i) /\ i \in Nat
      BY <1>4, SpentIs DEF TimerInv
    <2>2. sends \in 0 .. MaxSends - 1 /\ SentTime(sends + 1) \in Nat
      BY <1>4, Numbers
    <2> QED
      BY <1>4, <2>1, <2>2, TimesOfFrames, TimesOfPolls
  <1>6. job = "service_traffic" => age <= Period - 1 + SentTime(sends + 1) + Spent + lag
    BY <1>4 DEF TimerInv, AgeInv
  <1>7. lag \in Nat /\ age \in Nat /\ Period \in Nat
    BY Numbers
  <1>8. job' = "service_traffic" => age' <= Period - 1 + SentTime(sends)' + lag'
    <2>1. SentTime(sends)' = SentTime(sends)
      BY <1>1 DEF SentTime
    <2> QED
      BY <1>1, <1>5, <1>6, <1>7, <2>1
  <1>9. AgeInv'
    BY <1>1, <1>2, <1>8 DEF AgeInv, Reading
  <1> QED
    BY <1>2, <1>3, <1>9 DEF TimerInv

\* The main loop outside of linkoutput_fn.
LEMMA RoundKeeps ==
    ASSUME TimerInv, ServiceTraffic \/ StmrWalk \/ TcpTmr \/ StmrEvent
    PROVE  TimerInv'
  <1>1. ~InLinkOutput' /\ pc' \in {"next", "proc", "traffic"}
    BY DEF InLinkOutput, ServiceTraffic, StmrWalk, TcpTmr, StmrEvent
  <1>2. ReadInv' /\ CountInv' /\ WaitInv'
    BY <1>1 DEF ReadInv, CountInv, WaitInv, Reading, Callers
  <1>3. /\ lag \in Nat /\ age \in Nat /\ Period \in Nat /\ Period > 0 /\ MaxSends \in Nat
        /\ lag <= MaxLag /\ MaxLag \in Nat /\ WORD \in Nat /\ WORD > Period + Busy
        /\ Busy = SentTime(0) + 2 * MaxLag /\ SentTime(0) \in Nat /\ Busy \in Nat
    BY Numbers
  <1>4. CASE ServiceTraffic
    <2>1. /\ pc = "traffic" /\ pc' = "next" /\ sends' \in 0 .. MaxSends /\ job' = "service_traffic"
          /\ UNCHANGED <<msAddition, lag, age, waited, COUNTFLAG, res, event, ret, i, t>>
      BY <1>4 DEF ServiceTraffic, clock
    <2>2. TypeOK' /\ ElapsedInv'
      BY <2>1 DEF TimerInv, TypeOK, ElapsedInv, Minus
    <2>3. age <= Period - 1 + lag
      BY <2>1 DEF TimerInv, AgeInv
    <2>4. SentTime(sends)' \in Nat
      <3>1. SentTime(sends)' = SentTime(sends')
        BY DEF SentTime, FrameTime
      <3> QED
        BY <2>1, <3>1, TimesOfFrames
    <2>5. age' <= Period - 1 + SentTime(sends)' + lag'
      BY <1>3, <2>1, <2>3, <2>4
    <2>6. AgeInv'
      BY <1>1, <2>1, <2>5 DEF AgeInv, Reading
    <2> QED
      BY <1>2, <2>2, <2>6 DEF TimerInv
  <1>5. CASE StmrWalk
    <2>1. /\ pc = "stmr" /\ pc' = IF Due(res) THEN "proc" ELSE "traffic"
          /\ UNCHANGED <<msAddition, lag, age, waited, COUNTFLAG, res, event, ret, job, sends, i, t>>
      BY <1>5 DEF StmrWalk, clock
    <2>2. TypeOK' /\ ElapsedInv'
      BY <2>1 DEF TimerInv, TypeOK, ElapsedInv, Minus
    <2>3. age <= Period - 1 + SentTime(0) + MaxLag + lag
      BY <2>1 DEF TimerInv, AgeInv
    <2>4. age < Period + Busy
      BY <1>3, <2>3
    <2>5. Minus(msAddition, event) = age /\ age >= lag /\ Minus(msAddition, res) = lag
      BY <2>1, <2>4 DEF TimerInv, ElapsedInv, ReadInv, Callers
    <2>6. /\ msAddition \in 0 .. WORD - 1 /\ res \in 0 .. WORD - 1 /\ event \in 0 .. WORD - 1
          /\ Minus(res, event) = IF res >= event THEN res - event ELSE res - event + WORD
          /\ Minus(msAddition, event) = IF msAddition >= event THEN msAddition - event
                                        ELSE msAddition - event + WORD
          /\ Minus(msAddition, res) = IF msAddition >= res THEN msAddition - res
                                      ELSE msAddition - res + WORD
      BY MinusIs, Words DEF TimerInv
    <2>7. age = Minus(res, event) + lag /\ Minus(res, event) \in Nat
      BY <1>3, <2>4, <2>5, <2>6
    <2>8. pc' = "proc" => age >= Period
      BY <1>3, <2>1, <2>7 DEF Due
    <2>9. pc' = "traffic" => age <= Period - 1 + lag
      BY <1>3, <2>1, <2>7 DEF Due
    <2>10. AgeInv'
      BY <1>1, <2>1, <2>3, <2>8, <2>9 DEF AgeInv, Reading, SentTime, FrameTime
    <2> QED
      BY <1>2, <2>2, <2>10 DEF TimerInv
  <1>6. CASE TcpTmr
    <2>1. /\ pc' = "next" /\ sends' \in 0 .. MaxSends /\ job' = "tcp_tmr"
          /\ UNCHANGED <<msAddition, lag, age, waited, COUNTFLAG, res, event, ret, i, t>>
      BY <1>6 DEF TcpTmr, clock
    <2>2. TypeOK' /\ ElapsedInv'
      BY <2>1 DEF TimerInv, TypeOK, ElapsedInv, Minus
    <2>3. AgeInv'
      BY <1>1, <2>1 DEF AgeInv, Reading
    <2> QED
      BY <1>2, <2>2, <2>3 DEF TimerInv
  <1>7. CASE StmrEvent
    <2>1. /\ pc = "event" /\ event' = res /\ age' = Minus(msAddition, res) /\ pc' = "traffic"
          /\ UNCHANGED <<msAddition, lag, waited, COUNTFLAG, res, ret, job, sends, i, t>>
      BY <1>7 DEF StmrEvent
    <2>2. age' = lag
      BY <2>1 DEF TimerInv, ReadInv, Callers
    <2>3. age' \in 0 .. Period + Busy
      BY <1>3, <2>2
    <2>4. TypeOK'
      BY <2>1, <2>3 DEF TimerInv, TypeOK
    <2>5. ElapsedInv'
      BY <1>3, <2>1, <2>2 DEF ElapsedInv, Minus
    <2>6. AgeInv'
      BY <1>1, <1>3, <2>1, <2>2 DEF AgeInv, Reading
    <2> QED
      BY <1>2, <2>4, <2>5, <2>6 DEF TimerInv
  <1> QED
    BY <1>4, <1>5, <1>6, <1>7
-----------------------------------------------------------------------------
(***************************************************************************)
(* The theorems                                                            *)
(***************************************************************************)

LEMMA TimerInvInit == Init => TimerInv
  <1> SUFFICES ASSUME Init PROVE TimerInv
    OBVIOUS
  <1>1. /\ {WORD, Period, XmitTries, MaxLag} \subseteq Nat \ {0} /\ MaxSends \in Nat /\ Busy \in Nat
    <2>1. 0 \in 0 .. MaxSends
      BY TimesOfFrames
    <2> QED
      BY <2>1, TimesOfFrames
  <1>2. TypeOK
    <2>1. /\ 0 \in 0 .. WORD - 1 /\ 0 \in 0 .. MaxSends /\ 0 \in 0 .. XmitTries
          /\ 0 \in 0 .. MaxLag /\ 0 \in 0 .. Period + Busy
      BY <1>1
    <2> QED
      BY <2>1 DEF Init, TypeOK, Callers
  <1>3. ~InLinkOutput /\ pc = "traffic"
    BY DEF Init, InLinkOutput
  <1>4. CountInv /\ ReadInv /\ WaitInv /\ AgeInv
    BY <1>1, <1>3 DEF Init, CountInv, ReadInv, WaitInv, AgeInv, Reading, Callers
  <1>5. ElapsedInv
    <2>1. Minus(0, 0) = 0
      BY <1>1, MinusIs
    <2> QED
      BY <2>1 DEF Init, ElapsedInv
  <1> QED
    BY <1>2, <1>4, <1>5 DEF TimerInv

LEMMA TimerInvNext == TimerInv /\ [Next]_vars => TimerInv'
  <1> SUFFICES ASSUME TimerInv, [Next]_vars PROVE TimerInv'
    OBVIOUS
  <1>1. CASE UNCHANGED vars
    <2>1. UNCHANGED <<msAddition, lag, age, waited, COUNTFLAG, res, event, pc, ret, job, sends, i, t>>
      BY <1>1 DEF vars, clock
    <2>2. InLinkOutput' = InLinkOutput /\ Polled' = Polled /\ Asleep' = Asleep /\ Awake' = Awake
          /\ Spent' = Spent /\ \A c : Reading(c)' = Reading(c)
      BY <2>1 DEF InLinkOutput, Polled, Asleep, Awake, Spent, Returns, Reading
    <2>3. TypeOK' /\ CountInv' /\ ReadInv' /\ ElapsedInv' /\ WaitInv'
      BY <2>1, <2>2 DEF TimerInv, TypeOK, CountInv, ReadInv, ElapsedInv, WaitInv, Minus
    <2>4. AgeInv'
      BY <2>1, <2>2 DEF TimerInv, AgeInv, SentTime, FrameTime
    <2> QED
      BY <2>3, <2>4 DEF TimerInv
  <1> QED
    BY <1>1, TickKeeps, ReadKeeps, CheckKeeps, NextFrameKeeps, PollKeeps, SleepBeginsKeeps,
       SleepEndsKeeps, GiveUpKeeps, RoundKeeps
    DEF Next, MainLoop

LEMMA TimerInvariant == Spec => []TimerInv
  BY TimerInvInit, TimerInvNext, PTL DEF Spec

\* stmr calls tcp_tmr no earlier than TCP_TMR_INTERVAL after it last ended and less than
\* one round of the main loop late, with every host and over every wrap of the counter.
THEOREM TimerOnTime == Spec => []OnTime
  <1>1. TimerInv => OnTime
    <2> SUFFICES ASSUME TimerInv PROVE OnTime
      OBVIOUS
    <2>1. pc = "proc" => age >= Period /\ age <= Period - 1 + SentTime(0) + MaxLag + lag
      BY DEF TimerInv, AgeInv
    <2>2. pc = "proc" => age \in Period .. Period + Busy - 1
      BY <2>1, Numbers
    <2> QED
      BY <2>2 DEF OnTime, TimerInv
  <1> QED
    BY <1>1, TimerInvariant, PTL

\* linkoutput_fn gives a frame up after XmitTries milliseconds at the earliest: msleep(1)
\* sleeps a whole tick though it compares wrapping counters; and after two readings of
\* the clock for every poll at the latest.
THEOREM TimerGivesUpInTime == Spec => []GivesUpInTime
  <1>1. TimerInv => GivesUpInTime
    <2> SUFFICES ASSUME TimerInv, pc = "giveup"
                 PROVE  waited \in XmitTries .. MaxLag * (2 * XmitTries + 1)
      BY DEF GivesUpInTime
    <2>1. InLinkOutput /\ Polled /\ i = XmitTries
      BY DEF InLinkOutput, Polled, TimerInv, CountInv
    <2>2. waited <= Spent + lag /\ waited >= i
      BY <2>1 DEF TimerInv, WaitInv
    <2>3. Spent = MaxLag * (2 * XmitTries)
      BY <2>1, SpentIs DEF TimerInv
    <2>4. MaxLag * (2 * XmitTries + 1) = MaxLag * (2 * XmitTries) + MaxLag
          /\ MaxLag * (2 * XmitTries) \in Nat
      BY Numbers, TimesOfPolls
    <2> QED
      BY <2>1, <2>2, <2>3, <2>4, Numbers
  <1> QED
    BY <1>1, TimerInvariant, PTL

\* What mtime returns is the counter at the moment it returns.
THEOREM TimerIsCurrent == Spec => TimeIsCurrent
  <1>1. TimerInv /\ [Next]_vars => [pc = "check" /\ pc' = ret => res = msAddition]_vars
    <2> SUFFICES ASSUME TimerInv, [Next]_vars, pc = "check", pc' = ret
                 PROVE  res = msAddition
      OBVIOUS
    <2>1. ret \in Callers /\ "check" \notin Callers /\ "read" \notin Callers
      BY DEF TimerInv, TypeOK, Callers
    <2>2. MtimeCheck
      BY <2>1 DEF Next, SysTick_Handler, MainLoop, ServiceTraffic, NextFrame, PollCanXmit,
                  SleepBegins, SleepEnds, GiveUp, StmrWalk, TcpTmr, StmrEvent, MtimeRead, vars
    <2>3. ~COUNTFLAG
      BY <2>1, <2>2 DEF MtimeCheck
    <2> QED
      BY <2>3 DEF TimerInv, ReadInv
  <1> QED
    BY <1>1, TimerInvariant, PTL DEF Spec, TimeIsCurrent
=============================================================================
