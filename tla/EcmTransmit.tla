----------------------------- MODULE EcmTransmit -----------------------------
(***************************************************************************)
(* The transmit path, lwIP to host: linkoutput_fn (main.c) waits for       *)
(* usb_ecm_can_xmit, usb_ecm_xmit_packet copies the pbuf chain to          *)
(* ecm_tx_buffer, and the interrupt sends it in chunks, one after each     *)
(* completed transfer (USBD_ECM_DataIn) or, as the start of frame handler  *)
(* counts, when a completion has not come for too long (USBD_ECM_SOF).     *)
(*                                                                         *)
(* The main loop is cut at every access to shared state.  An interrupt is  *)
(* one step per condition it serves: HAL_PCD_IRQHandler looks at CTR first *)
(* and at RESET and SOF later, so a completion that comes in between waits *)
(* (ctr) for the next round, while the main loop stands still.             *)
(* The endpoint is given packet memory of its own here: see PacketMemory.  *)
(***************************************************************************)
EXTENDS HalPcd, Sequences

CONSTANTS
    ECM_MAX_SEGMENT_SIZE,  \* bytes in ecm_tx_buffer (1514)
    FrameLens,             \* lengths of the frames lwIP sends
    BusyLimit,             \* starts of frame a completion may take (32)
    XmitTries,             \* polls of usb_ecm_can_xmit in linkoutput_fn (200)
    MaxFrames,             \* bound: frames lwIP sends
    MaxResets,             \* bound: bus resets
    MaxDeconfigs,          \* bound: SET_CONFIGURATION(0) requests
    MaxHalts,              \* bound: SET_FEATURE and CLEAR_FEATURE(ENDPOINT_HALT)
    Troubles,              \* what may go wrong together: sets of the kinds below
    NULL

ASSUME SizeAssumption == /\ ECM_MAX_SEGMENT_SIZE \in Nat
                         /\ FrameLens \subseteq 1 .. ECM_MAX_SEGMENT_SIZE

ASSUME LimitAssumption == {BusyLimit, XmitTries} \subseteq Nat \ {0}

\* A slow host, a HAL lock held by the receive path, the host's requests, and frames
\* whose length is a multiple of MaxPacket, which have no last short chunk.
TroubleKinds == {"slow", "refusals", "resets", "deconfigs", "halts", "multiples"}

ASSUME BoundAssumption ==
    /\ {MaxFrames, MaxResets, MaxDeconfigs, MaxHalts} \subseteq Nat
    /\ Troubles \subseteq SUBSET TroubleKinds

ASSUME NullAssumption == NULL \notin Seq(Nat \X Nat)

VARIABLES
    dev_state,        \* pdev->dev_state, "ADDRESSED" for all but CONFIGURED
    Lock,             \* hpcd->Lock
    in_ep,            \* the ECM_DATA_IN_EP endpoint
    pma,              \* its packet memory, as long as its transmit count
    ctr,              \* CTR_TX: "no", "raised", or "due" when it missed its round
    registered_pdev,  \* the pointer is not NULL
    can_xmit, ecm_tx_buffer, ecm_tx_ptr, ecm_tx_remaining, ecm_tx_busy,
    pc, len, i, packet_size,  \* the main loop: next step, its frame, its locals
    next,             \* number of the frame lwIP sends next
    got,              \* what the host has of the frame it is receiving
    taken,            \* number of frames the host has completed
    trouble,          \* what may go wrong in this behaviour
    resets, deconfigs, halts

tx == <<ecm_tx_ptr, ecm_tx_remaining, ecm_tx_busy>>
thread == <<pc, len, i, packet_size, next>>
host == <<got, taken>>
bounds == <<trouble, resets, deconfigs, halts>>

vars == <<dev_state, Lock, in_ep, pma, ctr, registered_pdev, can_xmit, ecm_tx_buffer,
          tx, thread, host, bounds>>

Byte == Nat \X Nat
Junk == <<0, 0>>      \* what a byte lwIP did not write holds
Cells == 0 .. ECM_MAX_SEGMENT_SIZE - 1

TypeOK ==
    /\ dev_state \in {"ADDRESSED", "CONFIGURED"}
    /\ Lock \in BOOLEAN /\ registered_pdev \in BOOLEAN /\ can_xmit \in BOOLEAN
    /\ ctr \in {"no", "raised", "due"}
    /\ in_ep \in Endpoint
    /\ pma \in Seq(Byte) /\ Len(pma) <= MaxPacket
    /\ ecm_tx_buffer \in [Cells -> Byte]
    /\ ecm_tx_ptr \in Nat /\ ecm_tx_remaining \in Nat
    /\ ecm_tx_busy \in 0 .. BusyLimit
    /\ pc \in {"idle", "poll", "check", "copy", "renew"}
    /\ len \in FrameLens
    /\ i \in 0 .. XmitTries - 1
    /\ packet_size \in 0 .. len
    /\ next \in Nat \ {0}
    /\ got \in Seq(Byte)
    /\ taken \in Nat
    /\ trouble \in Troubles
    /\ resets \in Nat /\ deconfigs \in Nat /\ halts \in Nat

\* After main() started the device and before the host configures it.
Init ==
    /\ dev_state = "ADDRESSED" /\ Lock = FALSE
    /\ in_ep = EndpointReset /\ pma = <<>> /\ ctr = "no"
    /\ registered_pdev = FALSE /\ can_xmit = FALSE
    /\ ecm_tx_buffer = [c \in Cells |-> Junk]
    /\ ecm_tx_ptr = 0 /\ ecm_tx_remaining = 0 /\ ecm_tx_busy = 0
    /\ pc = "idle" /\ len \in FrameLens /\ i = 0 /\ packet_size = 0
    /\ next = 1 /\ got = <<>> /\ taken = 0
    /\ trouble \in Troubles
    /\ resets = 0 /\ deconfigs = 0 /\ halts = 0
-----------------------------------------------------------------------------
(***************************************************************************)
(* usbd_ecm.c in interrupt context                                         *)
(***************************************************************************)

\* count bytes of ecm_tx_buffer from offset at.
Bytes(at, count) == [n \in 1 .. count |-> IF at + n - 1 \in Cells
                                          THEN ecm_tx_buffer[at + n - 1] ELSE Junk]

AtMostPacket(n) == IF n > MaxPacket THEN MaxPacket ELSE n

\* HAL_PCD_EP_Transmit with its packet memory: a refused call leaves that alone.
Transmit(ep, mem, at, count) ==
    /\ in_ep' = HAL_PCD_EP_Transmit(ep, at, count, Lock)
    /\ pma' = IF Lock THEN mem ELSE Bytes(at, AtMostPacket(count))

\* Mutant: the pointer is not moved on.
ecm_incoming_attempt_SamePtr(ep, mem, busy) ==
    LET chunk_size == AtMostPacket(ecm_tx_remaining)
    IN  IF ecm_tx_remaining = 0 \/ busy # 0
        THEN /\ in_ep' = ep
             /\ pma' = mem
             /\ ecm_tx_busy' = busy
             /\ UNCHANGED <<ecm_tx_ptr, ecm_tx_remaining>>
        ELSE /\ Transmit(ep, mem, ecm_tx_ptr, chunk_size)
             /\ ecm_tx_ptr' = ecm_tx_ptr
             /\ ecm_tx_remaining' = ecm_tx_remaining - chunk_size
             /\ ecm_tx_busy' = 1

\* ecm_incoming_attempt on endpoint state ep and packet memory mem, with busy the
\* value of ecm_tx_busy at the call. The outcome of the transmission is not read.
ecm_incoming_attempt(ep, mem, busy) ==
    LET chunk_size == AtMostPacket(ecm_tx_remaining)
    IN  IF ecm_tx_remaining = 0 \/ busy # 0
        THEN /\ in_ep' = ep
             /\ pma' = mem
             /\ ecm_tx_busy' = busy
             /\ UNCHANGED <<ecm_tx_ptr, ecm_tx_remaining>>
        ELSE /\ Transmit(ep, mem, ecm_tx_ptr, chunk_size)
             /\ ecm_tx_ptr' = ecm_tx_ptr + chunk_size
             /\ ecm_tx_remaining' = ecm_tx_remaining - chunk_size
             /\ ecm_tx_busy' = 1

\* Mutant: can_xmit is set as soon as any chunk completes.
USBD_ECM_DataIn_AnyChunk(ep, mem) ==
    /\ can_xmit' = TRUE
    /\ ecm_incoming_attempt(ep, mem, 0)

USBD_ECM_DataIn(ep, mem) ==
    /\ can_xmit' = (can_xmit \/ ecm_tx_remaining = 0)
    /\ ecm_incoming_attempt(ep, mem, 0)

\* PCD_EP_ISR_Handler, CTR_TX. The packet memory is written again from xfer_buff
\* before that moves on; a transfer with length left is continued by the HAL.
\* USBD_LL_DataInStage passes the callback on only when configured.
IsrDataIn ==
    LET count == Len(pma)
        mem == Bytes(in_ep.xfer_buff, count)
        ep == [in_ep EXCEPT !.xfer_count = count, !.xfer_buff = @ + count]
    IN  /\ ctr # "no"
        /\ ctr' = "no"
        /\ \/ /\ in_ep.xfer_len = 0
              /\ dev_state = "CONFIGURED"
              /\ USBD_ECM_DataIn(ep, mem)
           \/ /\ in_ep.xfer_len = 0
              /\ dev_state # "CONFIGURED"
              /\ in_ep' = ep
              /\ pma' = mem
              /\ UNCHANGED <<can_xmit, tx>>
           \/ /\ in_ep.xfer_len # 0
              /\ Transmit(ep, mem, ep.xfer_buff, ep.xfer_len)
              /\ UNCHANGED <<can_xmit, tx>>
        /\ UNCHANGED <<dev_state, Lock, registered_pdev, ecm_tx_buffer, thread, host,
                       bounds>>

\* Mutant: the timeout is missing.
USBD_ECM_SOF_NoTimeout ==
    /\ ecm_incoming_attempt(in_ep, pma, ecm_tx_busy)
    /\ UNCHANGED can_xmit

USBD_ECM_SOF ==
    LET timeout == ecm_tx_busy # 0 /\ ecm_tx_busy + 1 > BusyLimit
    IN  /\ ecm_incoming_attempt(in_ep, pma, IF ecm_tx_busy = 0 \/ timeout THEN 0
                                            ELSE ecm_tx_busy + 1)
        /\ can_xmit' = (can_xmit \/ (timeout /\ ecm_tx_remaining = 0))

\* The rest of an interrupt, after PCD_EP_ISR_Handler found no CTR.
RestOfInterrupt == ctr # "due" /\ ctr' = IF ctr = "no" THEN "no" ELSE "due"

\* The host may leave a chunk waiting past BusyLimit.
SlowHost == "slow" \in trouble

\* A start of frame, the part about transmission. A host that is not slow fetches
\* an armed chunk, and the interrupt handles it, before the timeout.
IsrSOF ==
    /\ dev_state = "CONFIGURED"
    /\ (in_ep.open /\ in_ep.stat = "VALID") \/ ctr # "no"
          => SlowHost \/ ecm_tx_busy < BusyLimit
    /\ RestOfInterrupt
    /\ USBD_ECM_SOF
    /\ UNCHANGED <<dev_state, Lock, registered_pdev, ecm_tx_buffer, thread, host,
                   bounds>>

\* Mutant: ecm_tx_remaining keeps what the last configuration left.
IsrConfigure_KeepsRemaining ==
    /\ dev_state = "ADDRESSED"
    /\ dev_state' = "CONFIGURED"
    /\ registered_pdev' = TRUE
    /\ in_ep' = HAL_PCD_EP_Open(in_ep, TRUE, Lock)
    /\ can_xmit' = TRUE
    /\ ecm_tx_busy' = 0
    /\ UNCHANGED <<Lock, pma, ctr, ecm_tx_buffer, ecm_tx_ptr, ecm_tx_remaining, thread,
                   host, bounds>>

\* SET_CONFIGURATION(1): USBD_ECM_Init.
IsrConfigure ==
    /\ dev_state = "ADDRESSED"
    /\ dev_state' = "CONFIGURED"
    /\ registered_pdev' = TRUE
    /\ in_ep' = HAL_PCD_EP_Open(in_ep, TRUE, Lock)
    /\ can_xmit' = TRUE
    /\ ecm_tx_busy' = 0
    /\ ecm_tx_remaining' = 0
    /\ UNCHANGED <<Lock, pma, ctr, ecm_tx_buffer, ecm_tx_ptr, thread, host, bounds>>

\* SET_CONFIGURATION(0): USBD_ECM_DeInit. The host drops what it has of a frame.
IsrDeconfigure ==
    /\ dev_state = "CONFIGURED"
    /\ "deconfigs" \in trouble /\ deconfigs < MaxDeconfigs
    /\ deconfigs' = deconfigs + 1
    /\ dev_state' = "ADDRESSED"
    /\ registered_pdev' = FALSE
    /\ in_ep' = HAL_PCD_EP_Close(in_ep, Lock)
    /\ can_xmit' = FALSE
    /\ got' = <<>>
    /\ UNCHANGED <<Lock, pma, ctr, ecm_tx_buffer, tx, thread, taken, trouble, resets,
                   halts>>

\* A bus reset: the controller clears the endpoint register but its CTR bits, and
\* USBD_LL_Reset does not reach the class (see EcmReceive).
IsrReset ==
    /\ "resets" \in trouble /\ resets < MaxResets
    /\ resets' = resets + 1
    /\ dev_state' = "ADDRESSED"
    /\ in_ep' = [in_ep EXCEPT !.open = FALSE, !.stat = "DIS"]
    /\ got' = <<>>
    /\ RestOfInterrupt
    /\ UNCHANGED <<Lock, pma, registered_pdev, can_xmit, ecm_tx_buffer, tx, thread,
                   taken, trouble, deconfigs, halts>>

quiet == <<dev_state, Lock, pma, ctr, registered_pdev, can_xmit, ecm_tx_buffer, tx,
           thread, host, trouble, resets, deconfigs>>

\* SET_FEATURE(ENDPOINT_HALT) ...
IsrSetHalt ==
    /\ dev_state = "CONFIGURED"
    /\ "halts" \in trouble /\ halts < MaxHalts
    /\ halts' = halts + 1
    /\ in_ep' = HAL_PCD_EP_SetStall(in_ep, Lock)
    /\ UNCHANGED quiet

\* ... and CLEAR_FEATURE, which offers the host whatever the packet memory holds.
IsrClearHalt ==
    /\ dev_state = "CONFIGURED"
    /\ "halts" \in trouble /\ halts < MaxHalts
    /\ halts' = halts + 1
    /\ in_ep' = HAL_PCD_EP_ClrStall(in_ep, Lock)
    /\ UNCHANGED quiet

\* The host fetches the armed chunk; one shorter than a packet ends its frame.
HostFetch ==
    /\ dev_state = "CONFIGURED"
    /\ in_ep.open /\ in_ep.stat = "VALID"
    /\ in_ep' = [in_ep EXCEPT !.stat = "NAK"]
    /\ ctr' = IF ctr = "no" THEN "raised" ELSE ctr
    /\ IF Len(pma) < MaxPacket
         THEN got' = <<>> /\ taken' = taken + 1
         ELSE got' = got \o pma /\ UNCHANGED taken
    /\ UNCHANGED <<dev_state, Lock, pma, registered_pdev, can_xmit, ecm_tx_buffer, tx,
                   thread, bounds>>
-----------------------------------------------------------------------------
(***************************************************************************)
(* The main loop                                                           *)
(***************************************************************************)

shared == <<dev_state, in_ep, pma, ctr, registered_pdev, host, bounds>>

\* No interrupt is pending.
Runs == ctr = "no"

Lens == {n \in FrameLens : n % MaxPacket # 0 \/ "multiples" \in trouble}

\* lwIP calls linkoutput_fn.
LinkOutput ==
    /\ pc = "idle"
    /\ next <= MaxFrames
    /\ len' \in Lens
    /\ i' = 0
    /\ packet_size' = 0
    /\ pc' = "poll"
    /\ UNCHANGED <<shared, Lock, can_xmit, ecm_tx_buffer, tx, next>>

\* usb_ecm_can_xmit; after XmitTries refusals the frame is given up (ERR_USE).
PollCanXmit ==
    /\ pc = "poll"
    /\ \/ /\ can_xmit
          /\ pc' = "check"
          /\ UNCHANGED i
       \/ /\ ~can_xmit
          /\ i < XmitTries - 1
          /\ i' = i + 1
          /\ UNCHANGED pc
       \/ /\ ~can_xmit
          /\ i = XmitTries - 1
          /\ pc' = "idle"
          /\ UNCHANGED i
    /\ UNCHANGED <<shared, Lock, can_xmit, ecm_tx_buffer, tx, len, packet_size, next>>

\* usb_ecm_xmit_packet looks again, and drops the frame without a word.
XmitCheck ==
    /\ pc = "check"
    /\ pc' = IF registered_pdev /\ can_xmit THEN "copy" ELSE "idle"
    /\ UNCHANGED <<shared, Lock, can_xmit, ecm_tx_buffer, tx, len, i, packet_size, next>>

\* One memcpy of the pbuf chain.
CopyPbuf ==
    /\ pc = "copy"
    /\ \E q_len \in 1 .. len - packet_size :
          /\ ecm_tx_buffer' = [c \in Cells |->
                                  IF c \in packet_size .. packet_size + q_len - 1
                                  THEN <<next, c + 1>> ELSE ecm_tx_buffer[c]]
          /\ packet_size' = packet_size + q_len
    /\ UNCHANGED <<shared, Lock, can_xmit, tx, pc, len, i, next>>

\* The __disable_irq section: the frame is the interrupt's.
XmitCommit ==
    /\ pc = "copy"
    /\ packet_size = len
    /\ can_xmit' = FALSE
    /\ ecm_tx_ptr' = 0
    /\ ecm_tx_remaining' = packet_size
    /\ next' = next + 1
    /\ pc' = "idle"
    /\ UNCHANGED <<shared, Lock, ecm_tx_buffer, ecm_tx_busy, len, i, packet_size>>

\* The main loop is inside HAL_PCD_EP_Receive for the OUT endpoint (EcmReceive).
RenewLock ==
    /\ pc = "idle"
    /\ "refusals" \in trouble
    /\ Lock' = TRUE
    /\ pc' = "renew"
    /\ UNCHANGED <<shared, can_xmit, ecm_tx_buffer, tx, len, i, packet_size, next>>

RenewUnlock ==
    /\ pc = "renew"
    /\ Lock' = FALSE
    /\ pc' = "idle"
    /\ UNCHANGED <<shared, can_xmit, ecm_tx_buffer, tx, len, i, packet_size, next>>

LinkOutputRuns == PollCanXmit \/ XmitCheck \/ CopyPbuf \/ XmitCommit

MainLoop == Runs /\ (LinkOutput \/ LinkOutputRuns \/ RenewLock \/ RenewUnlock)

Isr == \/ IsrDataIn \/ IsrSOF \/ IsrConfigure \/ IsrDeconfigure \/ IsrReset
       \/ IsrSetHalt \/ IsrClearHalt

Next == MainLoop \/ Isr \/ HostFetch

Spec == Init /\ [][Next]_vars

(***************************************************************************)
(* The main loop runs, a pending interrupt is handled, a configured bus    *)
(* has a start of frame every millisecond.  A host that is not slow        *)
(* fetches what is armed; nothing makes a slow host fetch.                 *)
(***************************************************************************)
FairSpec == /\ Spec
            /\ WF_vars(Runs /\ (LinkOutputRuns \/ RenewUnlock))
            /\ WF_vars(IsrDataIn) /\ WF_vars(IsrSOF)
            /\ WF_vars(~SlowHost /\ HostFetch)
-----------------------------------------------------------------------------
(***************************************************************************)
(* Properties                                                              *)
(***************************************************************************)

\* The chunk in the packet memory, when the host can fetch it.
Armed == IF in_ep.stat = "VALID" THEN pma ELSE <<>>

Precedes(a, b) == a[1] < b[1] \/ (a[1] = b[1] /\ a[2] < b[2])

\* Nothing goes wrong.
Calm == trouble = {}

\* No call is refused while a chunk is armed.
Unredirected == "refusals" \notin trouble \/ (~SlowHost /\ resets = 0 /\ deconfigs = 0)

\* Chunks may be lost, but ecm_incoming_attempt never sends a byte twice, out of order
\* or from an older frame: what the host has, with the armed chunk, ascends. (Clearing a
\* halt offers the last chunk again. Refused calls may break this where a chunk is still
\* armed when they come, for a slow host or after a new configuration: a refused call has
\* redirected xfer_buff, and the completion of the chunk before it goes on from there.)
HostBytesAscend ==
    LET stream == got \o Armed
    IN  halts = 0 /\ Unredirected
        => \A n \in 1 .. Len(stream) - 1 : Precedes(stream[n], stream[n + 1])

\* usb_ecm_can_xmit keeps its word: while usb_ecm_xmit_packet copies with interrupts
\* enabled, no timeout, completion, reset or new configuration offers the host a packet
\* or touches the one it is offered. (Two things do: clearing a halt offers the last
\* packet again, and a refused call has left xfer_len and xfer_buff in ecm_tx_buffer, so
\* that the late completion of the chunk before it sends from there.)
CopyUndisturbed ==
    [][pc = "copy" /\ halts' = 0 /\ (Unredirected \/ in_ep.xfer_len = 0)
         => (in_ep'.stat = "VALID" => in_ep.stat = "VALID" /\ pma' = pma)]_vars

\* "The last chunk will have a length of less than 64 (signifying a whole packet)", and
\* transmission works "as with receive packets": when the driver is ready for another
\* packet, the host has seen the end of the last one. (A frame whose length is a multiple
\* of MaxPacket has no such chunk: usb_ecm_xmit_packet sends no empty one.)
FrameEndSignified == Calm /\ can_xmit => got = <<>>

\* All of the frame that is on its way: at the host, armed, and in ecm_tx_buffer.
InFlight == got \o Armed \o Bytes(ecm_tx_ptr, ecm_tx_remaining)

\* With a prompt host and no renewal in the way, the path is a loss-free mailbox: each
\* frame of usb_ecm_xmit_packet reaches the host whole, once and in order, and no chunk
\* is ever missing from what is on its way. (In trouble the mapping shows an empty one.)
Mailbox == INSTANCE FrameMailbox
              WITH mailbox <- IF Calm /\ InFlight # <<>> THEN InFlight ELSE NULL,
                   next <- IF Calm THEN next ELSE 1,
                   taken <- IF Calm THEN taken ELSE 0
ImplementsMailbox == Mailbox!Spec

\* The "ugly hack" of USBD_ECM_SOF works: even if the host never fetches a chunk, halts
\* the endpoint, or the HAL refuses one, a configured device becomes ready for another
\* packet.
ReadyAgain == (dev_state = "CONFIGURED" /\ ~can_xmit)
                 ~> (can_xmit \/ dev_state # "CONFIGURED")
=============================================================================
