----------------------------- MODULE EcmReceive -----------------------------
(***************************************************************************)
(* The receive path, host to lwIP: usbd_ecm.c accumulates the chunks of an *)
(* Ethernet frame in ecm_rx_buffer, usb_ecm_recv_callback (main.c) moves   *)
(* a whole frame into received_frame, and service_traffic gives it to lwIP *)
(* and renews the endpoint.                                                *)
(*                                                                         *)
(* Two contexts run.  The USB interrupt is one step: nothing preempts it.  *)
(* The main loop is interrupted anywhere, so service_traffic is cut at     *)
(* every access to shared state outside its __disable_irq section; `pc'    *)
(* names its next step.  hpcd->Lock is the HAL lock: the interrupt finds   *)
(* it set exactly when it hits the main loop inside HAL_PCD_EP_Receive.    *)
(***************************************************************************)
EXTENDS HalPcd, Sequences

CONSTANTS
    ECM_MAX_SEGMENT_SIZE,  \* bytes in ecm_rx_buffer (1514)
    FrameLens,             \* lengths of the frames the host sends
    MaxFrames,             \* bound: frames the host sends
    MaxResets,             \* bound: bus resets
    MaxDeconfigs,          \* bound: SET_CONFIGURATION(0) requests
    MaxHalts,              \* bound: SET_FEATURE and CLEAR_FEATURE(ENDPOINT_HALT)
    Troubles,              \* what may go wrong together: sets of the kinds below
    NULL

ASSUME SizeAssumption == /\ ECM_MAX_SEGMENT_SIZE \in Nat
                         /\ FrameLens \subseteq 1 .. ECM_MAX_SEGMENT_SIZE

TroubleKinds == {"resets", "deconfigs", "halts", "nopbuf"}

ASSUME BoundAssumption ==
    /\ {MaxFrames, MaxResets, MaxDeconfigs, MaxHalts} \subseteq Nat
    /\ Troubles \subseteq SUBSET TroubleKinds

ASSUME NullAssumption == NULL \notin Seq(Nat \X Nat)

VARIABLES
    dev_state,        \* pdev->dev_state, "ADDRESSED" for all but CONFIGURED
    Lock,             \* hpcd->Lock
    out,              \* the ECM_DATA_OUT_EP endpoint
    registered_pdev,  \* the pointer is not NULL
    ecm_rx_index, ecm_rx_buffer, OutboundTransferNeedsRenewal,
    overrun,          \* a byte was stored past the end of ecm_rx_buffer
    received_frame,   \* main.c: the frame waiting for the main loop, or NULL
    pc, frame, pBuf, epnr, outcome,  \* the main loop: next step and locals
    taken,            \* number of frames given to ethernet_input
    host,             \* the frame the host is sending: number, length, bytes sent
    trouble,          \* what may go wrong in this behaviour
    resets, deconfigs, halts,
    refused           \* the last SET_CONFIGURATION(1) met the lock

ecm == <<registered_pdev, ecm_rx_index, ecm_rx_buffer, overrun>>
thread == <<pc, frame, pBuf, epnr, outcome, taken>>
bounds == <<trouble, resets, deconfigs, halts, refused>>
bus == <<dev_state, host, bounds>>

vars == <<bus, Lock, out, ecm, OutboundTransferNeedsRenewal, received_frame, thread>>

Byte == Nat \X Nat
Junk == <<0, 0>>      \* what a byte not sent by the host holds
Frame(id, len) == [i \in 1 .. len |-> <<id, i>>]

Cells == 0 .. ECM_MAX_SEGMENT_SIZE - 1

ThreadPc == {"idle", "input", "renew", "setup", "lock", "len", "arm", "write",
             "unlock", "flag", "fault"}

TypeOK ==
    /\ dev_state \in {"ADDRESSED", "CONFIGURED"}
    /\ Lock \in BOOLEAN
    /\ out \in Endpoint
    /\ registered_pdev \in BOOLEAN
    /\ ecm_rx_index \in Nat
    /\ ecm_rx_buffer \in [Cells -> Byte]
    /\ OutboundTransferNeedsRenewal \in BOOLEAN
    /\ overrun \in BOOLEAN
    /\ received_frame \in Seq(Byte) \cup {NULL}
    /\ pc \in ThreadPc
    /\ frame \in Seq(Byte) \cup {NULL}
    /\ pBuf \in Nat
    /\ epnr \in [open : BOOLEAN, stat : Stat]
    /\ outcome \in {"OK", "BUSY"}
    /\ taken \in Nat
    /\ host \in [id : Nat \ {0}, len : FrameLens, off : Nat]
    /\ host.off <= host.len
    /\ trouble \in Troubles
    /\ resets \in Nat /\ deconfigs \in Nat /\ halts \in Nat
    /\ refused \in BOOLEAN

\* After main() started the device and before the host configures it.
Init ==
    /\ dev_state = "ADDRESSED" /\ Lock = FALSE /\ out = EndpointReset
    /\ registered_pdev = FALSE /\ ecm_rx_index = 0 /\ overrun = FALSE
    /\ ecm_rx_buffer = [i \in Cells |-> Junk]
    /\ OutboundTransferNeedsRenewal = FALSE
    /\ received_frame = NULL
    /\ pc = "idle" /\ frame = NULL /\ pBuf = 0 /\ epnr = EPnR(out)
    /\ outcome = "OK" /\ taken = 0
    /\ \E len \in FrameLens : host = [id |-> 1, len |-> len, off |-> 0]
    /\ trouble \in Troubles
    /\ resets = 0 /\ deconfigs = 0 /\ halts = 0 /\ refused = FALSE

-----------------------------------------------------------------------------
(***************************************************************************)
(* usbd_ecm.c and main.c in interrupt context                              *)
(***************************************************************************)

\* usb_ecm_recv_renew called from the interrupt, on endpoint state ep and
\* with index the value of ecm_rx_index at the call.
usb_ecm_recv_renew(ep, index) ==
    /\ out' = HAL_PCD_EP_Receive(ep, index, MaxPacket, Lock)
    /\ OutboundTransferNeedsRenewal' = Lock

\* The size bytes usb_ecm_recv_callback copies from ecm_rx_buffer.
Accumulated(buffer, size) ==
    [i \in 1 .. size |-> IF i - 1 \in Cells THEN buffer[i - 1] ELSE Junk]

\* Mutant: the endpoint is renewed as soon as the frame is stored.
usb_ecm_recv_callback_Renews(ep, buffer, size) ==
    /\ received_frame' = Accumulated(buffer, size)
    /\ usb_ecm_recv_renew(ep, 0)

\* Mutant: the test of received_frame is missing.
usb_ecm_recv_callback_Overwrites(ep, buffer, size) ==
    /\ received_frame' = Accumulated(buffer, size)
    /\ out' = ep
    /\ UNCHANGED OutboundTransferNeedsRenewal

\* usb_ecm_recv_callback: an untaken frame wins; a frame the pool has no pbuf
\* for is dropped and the endpoint renewed here, before the index is reset.
usb_ecm_recv_callback(ep, buffer, size) ==
    \/ /\ received_frame # NULL
       /\ out' = ep
       /\ UNCHANGED <<received_frame, OutboundTransferNeedsRenewal>>
    \/ /\ received_frame = NULL
       /\ received_frame' = Accumulated(buffer, size)
       /\ out' = ep
       /\ UNCHANGED OutboundTransferNeedsRenewal
    \/ /\ received_frame = NULL
       /\ "nopbuf" \in trouble
       /\ usb_ecm_recv_renew(ep, size)
       /\ UNCHANGED received_frame

\* Mutant: ecm_rx_index is not reset at the end of a frame.
USBD_ECM_DataOut_KeepsIndex(ep, buffer) ==
    LET RxLength == ep.xfer_count
        index == ecm_rx_index + RxLength
    IN  /\ ecm_rx_index' = index
        /\ \/ /\ RxLength < MaxPacket
              /\ usb_ecm_recv_callback(ep, buffer, index)
           \/ /\ RxLength >= MaxPacket
              /\ usb_ecm_recv_renew(ep, index)
              /\ UNCHANGED received_frame

USBD_ECM_DataOut(ep, buffer) ==
    LET RxLength == ep.xfer_count
        index == ecm_rx_index + RxLength
    IN  \/ /\ RxLength < MaxPacket
           /\ usb_ecm_recv_callback(ep, buffer, index)
           /\ ecm_rx_index' = 0
        \/ /\ RxLength >= MaxPacket
           /\ ecm_rx_index' = index
           /\ usb_ecm_recv_renew(ep, index)
           /\ UNCHANGED received_frame

\* The chunk the host sends next; a short chunk, empty if need be, ends a frame.
ChunkLen == LET left == host.len - host.off
            IN  IF left < MaxPacket THEN left ELSE MaxPacket

HostStartsFrame == \E len \in FrameLens :
                      host' = [id |-> host.id + 1, len |-> len, off |-> 0]

HostSent(count) == IF count < MaxPacket THEN HostStartsFrame
                   ELSE host' = [host EXCEPT !.off = @ + count]

\* PCD_ReadPMA to ep->xfer_buff.
StoreChunk(at, count) ==
    [i \in Cells |-> IF i \in at .. at + count - 1
                     THEN <<host.id, host.off + (i - at) + 1>>
                     ELSE ecm_rx_buffer[i]]

\* The host's OUT packet and the CTR_RX interrupt it raises.
IsrDataOut ==
    LET count == ChunkLen
        ep == AfterPacket(out, count)
        buffer == StoreChunk(out.xfer_buff, count)
    IN  /\ dev_state = "CONFIGURED"
        /\ out.open /\ out.stat = "VALID"
        /\ host.id <= MaxFrames
        /\ ecm_rx_buffer' = buffer
        /\ overrun' = (overrun \/ (count > 0 /\ ep.xfer_buff > ECM_MAX_SEGMENT_SIZE))
        /\ IF RxComplete(out, count)
             THEN USBD_ECM_DataOut(ep, buffer)
             ELSE /\ out' = HAL_PCD_EP_Receive(ep, ep.xfer_buff, ep.xfer_len, Lock)
                  /\ UNCHANGED <<ecm_rx_index, received_frame,
                                 OutboundTransferNeedsRenewal>>
        /\ HostSent(count)
        /\ UNCHANGED <<dev_state, bounds, Lock, registered_pdev, thread>>

\* USBD_ECM_SOF, the part about reception: the mop-up.
IsrSOF ==
    /\ dev_state = "CONFIGURED"
    /\ IF OutboundTransferNeedsRenewal
         THEN usb_ecm_recv_renew(out, ecm_rx_index)
         ELSE UNCHANGED <<out, OutboundTransferNeedsRenewal>>
    /\ UNCHANGED <<bus, Lock, ecm, received_frame, thread>>

\* SET_CONFIGURATION(1): USBD_ECM_Init. The flag is cleared after the renewal, so a
\* request that meets the lock is refused both calls and remembers neither.
IsrConfigure ==
    /\ dev_state = "ADDRESSED"
    /\ dev_state' = "CONFIGURED"
    /\ registered_pdev' = TRUE
    /\ out' = HAL_PCD_EP_Receive(HAL_PCD_EP_Open(out, FALSE, Lock), ecm_rx_index,
                                 MaxPacket, Lock)
    /\ OutboundTransferNeedsRenewal' = FALSE
    /\ refused' = Lock
    /\ UNCHANGED <<Lock, ecm_rx_index, ecm_rx_buffer, overrun, received_frame, thread,
                   host, trouble, resets, deconfigs, halts>>

\* SET_CONFIGURATION(0): USBD_ECM_DeInit. The host drops the frame it was sending.
IsrDeconfigure ==
    /\ dev_state = "CONFIGURED"
    /\ "deconfigs" \in trouble /\ deconfigs < MaxDeconfigs
    /\ deconfigs' = deconfigs + 1
    /\ dev_state' = "ADDRESSED"
    /\ registered_pdev' = FALSE
    /\ out' = HAL_PCD_EP_Close(out, Lock)
    /\ HostStartsFrame
    /\ UNCHANGED <<Lock, ecm_rx_index, ecm_rx_buffer, overrun,
                   OutboundTransferNeedsRenewal, received_frame, thread, trouble, resets,
                   halts, refused>>

\* Mutant: the reset runs the class's DeInit, as it would with pClassData set.
IsrReset_DeInit ==
    /\ "resets" \in trouble /\ resets < MaxResets
    /\ resets' = resets + 1
    /\ dev_state' = "ADDRESSED"
    /\ out' = [out EXCEPT !.open = FALSE, !.stat = "DIS"]
    /\ registered_pdev' = FALSE
    /\ HostStartsFrame
    /\ UNCHANGED <<Lock, ecm_rx_index, ecm_rx_buffer, overrun,
                   OutboundTransferNeedsRenewal, received_frame, thread, trouble,
                   deconfigs, halts, refused>>

\* A bus reset clears the endpoint registers. USBD_LL_Reset calls the class's
\* DeInit only when pClassData is set, and this class never sets it.
IsrReset ==
    /\ "resets" \in trouble /\ resets < MaxResets
    /\ resets' = resets + 1
    /\ dev_state' = "ADDRESSED"
    /\ out' = [out EXCEPT !.open = FALSE, !.stat = "DIS"]
    /\ HostStartsFrame
    /\ UNCHANGED <<Lock, ecm, OutboundTransferNeedsRenewal, received_frame, thread,
                   trouble, deconfigs, halts, refused>>

\* SET_FEATURE(ENDPOINT_HALT): USBD_SetEPFeature does not ask the class.
IsrSetHalt ==
    /\ dev_state = "CONFIGURED"
    /\ "halts" \in trouble /\ halts < MaxHalts
    /\ halts' = halts + 1
    /\ out' = HAL_PCD_EP_SetStall(out, Lock)
    /\ UNCHANGED <<dev_state, host, trouble, resets, deconfigs, refused, Lock, ecm,
                   OutboundTransferNeedsRenewal, received_frame, thread>>

\* CLEAR_FEATURE(ENDPOINT_HALT) makes the endpoint VALID, halted or not, whoever owns
\* the frame.
IsrClearHalt ==
    /\ dev_state = "CONFIGURED"
    /\ "halts" \in trouble /\ halts < MaxHalts
    /\ halts' = halts + 1
    /\ out' = HAL_PCD_EP_ClrStall(out, Lock)
    /\ UNCHANGED <<dev_state, host, trouble, resets, deconfigs, refused, Lock, ecm,
                   OutboundTransferNeedsRenewal, received_frame, thread>>

-----------------------------------------------------------------------------
(***************************************************************************)
(* The main loop                                                           *)
(***************************************************************************)

isr == <<bus, ecm>>

\* Mutant: received_frame is not cleared.
ServiceTraffic_KeepsFrame ==
    /\ pc = "idle"
    /\ received_frame # NULL
    /\ frame' = received_frame
    /\ pc' = "input"
    /\ UNCHANGED <<isr, Lock, out, OutboundTransferNeedsRenewal, received_frame,
                   pBuf, epnr, outcome, taken>>

\* service_traffic, up to __enable_irq; without a frame it returns.
ServiceTraffic ==
    /\ pc = "idle"
    /\ received_frame # NULL
    /\ frame' = received_frame
    /\ received_frame' = NULL
    /\ pc' = "input"
    /\ UNCHANGED <<isr, Lock, out, OutboundTransferNeedsRenewal, pBuf, epnr, outcome, taken>>

\* Mutant: service_traffic ends without usb_ecm_recv_renew.
EthernetInput_NoRenew ==
    /\ pc = "input"
    /\ taken' = taken + 1
    /\ frame' = NULL
    /\ pc' = "idle"
    /\ UNCHANGED <<isr, Lock, out, OutboundTransferNeedsRenewal, received_frame,
                   pBuf, epnr, outcome>>

\* ethernet_input and pbuf_free: lwIP is done with the frame.
EthernetInput ==
    /\ pc = "input"
    /\ taken' = taken + 1
    /\ frame' = NULL
    /\ pc' = "renew"
    /\ UNCHANGED <<isr, Lock, out, OutboundTransferNeedsRenewal, received_frame,
                   pBuf, epnr, outcome>>

\* usb_ecm_recv_renew evaluates its arguments. registered_pdev may be NULL, and
\* USBD_LL_PrepareReceive reads through it: what follows is not modelled.
RenewArguments ==
    /\ pc = "renew"
    /\ pBuf' = ecm_rx_index
    /\ pc' = IF registered_pdev THEN "setup" ELSE "fault"
    /\ UNCHANGED <<isr, Lock, out, OutboundTransferNeedsRenewal, received_frame,
                   frame, epnr, outcome, taken>>

\* HAL_PCD_EP_Receive stores the transfer fields ...
RenewSetup ==
    /\ pc = "setup"
    /\ out' = XferSetup(out, pBuf, MaxPacket)
    /\ pc' = "lock"
    /\ UNCHANGED <<isr, Lock, OutboundTransferNeedsRenewal, received_frame,
                   frame, pBuf, epnr, outcome, taken>>

\* ... takes the lock ...
RenewLock ==
    /\ pc = "lock"
    /\ Lock' = TRUE
    /\ outcome' = IF Lock THEN "BUSY" ELSE "OK"
    /\ pc' = IF Lock THEN "flag" ELSE "len"
    /\ UNCHANGED <<isr, out, OutboundTransferNeedsRenewal, received_frame,
                   frame, pBuf, epnr, taken>>

\* ... computes the length ...
RenewLength ==
    /\ pc = "len"
    /\ out' = [out EXCEPT !.xfer_len = XferRemaining(out.xfer_len)]
    /\ pc' = "arm"
    /\ UNCHANGED <<isr, Lock, OutboundTransferNeedsRenewal, received_frame,
                   frame, pBuf, epnr, outcome, taken>>

\* ... reads EPnR ...
RenewArm ==
    /\ pc = "arm"
    /\ epnr' = EPnR(out)
    /\ pc' = "write"
    /\ UNCHANGED <<isr, Lock, out, OutboundTransferNeedsRenewal, received_frame,
                   frame, pBuf, outcome, taken>>

\* ... arms the endpoint: from here on a packet may arrive ...
RenewWrite ==
    /\ pc = "write"
    /\ out' = SetRxValid(out, epnr)
    /\ pc' = "unlock"
    /\ UNCHANGED <<isr, Lock, OutboundTransferNeedsRenewal, received_frame,
                   frame, pBuf, epnr, outcome, taken>>

\* Mutant: __HAL_UNLOCK is missing.
RenewUnlock_Forgets ==
    /\ pc = "unlock"
    /\ pc' = "flag"
    /\ UNCHANGED <<isr, Lock, out, OutboundTransferNeedsRenewal, received_frame,
                   frame, pBuf, epnr, outcome, taken>>

\* ... releases the lock ...
RenewUnlock ==
    /\ pc = "unlock"
    /\ Lock' = FALSE
    /\ pc' = "flag"
    /\ UNCHANGED <<isr, out, OutboundTransferNeedsRenewal, received_frame,
                   frame, pBuf, epnr, outcome, taken>>

\* ... and usb_ecm_recv_renew stores the flag; the main loop goes round.
RenewFlag ==
    /\ pc = "flag"
    /\ OutboundTransferNeedsRenewal' = (outcome # "OK")
    /\ pc' = "idle"
    /\ UNCHANGED <<isr, Lock, out, received_frame, frame, pBuf, epnr, outcome, taken>>

Renew == \/ RenewArguments \/ RenewSetup \/ RenewLock \/ RenewLength
         \/ RenewArm \/ RenewWrite \/ RenewUnlock \/ RenewFlag

MainLoop == ServiceTraffic \/ EthernetInput \/ Renew

Isr == \/ IsrDataOut \/ IsrSOF \/ IsrConfigure \/ IsrDeconfigure \/ IsrReset
       \/ IsrSetHalt \/ IsrClearHalt

Next == MainLoop \/ Isr

Spec == Init /\ [][Next]_vars

(***************************************************************************)
(* The main loop never stops and a configured bus has a start of frame     *)
(* every millisecond.  A host that was reset configures the device again   *)
(* and keeps offering what it has to send.                                 *)
(***************************************************************************)
FairSpec == /\ Spec
            /\ WF_vars(MainLoop) /\ WF_vars(IsrSOF) /\ WF_vars(IsrConfigure)
            /\ WF_vars(IsrDataOut)
-----------------------------------------------------------------------------
(***************************************************************************)
(* Properties                                                              *)
(***************************************************************************)

\* The bus is quiet: the host configures the device once, and the pool always has a
\* pbuf. The properties that need this say so.
Quiet == trouble = {}

\* The frame between the end of its last chunk and lwIP: in received_frame, or
\* in the local of service_traffic.
FrameInTransit == IF received_frame # NULL THEN received_frame
                  ELSE IF pc = "input" THEN frame ELSE NULL

\* The main loop owns a frame and has not armed the endpoint again.
MainLoopOwnsFrame ==
    \/ received_frame # NULL
    \/ pc \in {"input", "renew", "setup", "lock", "len", "arm", "write"}

\* usb_ecm_recv_renew is the only permission to receive: from the end of a frame
\* (USBD_ECM_DataOut) until service_traffic has armed the endpoint again, the
\* controller accepts no packet, so the interrupt calls neither pbuf_alloc nor
\* usb_ecm_recv_callback while the main loop is inside lwIP with that frame.
QuietWhileFrameOwned == Quiet /\ MainLoopOwnsFrame => out.stat # "VALID"

\* "The whole packet is passed to the user's usb_ecm_recv_callback function": what
\* waits for lwIP is, byte for byte, a frame the host sent in full.
WholePacket ==
    Quiet /\ FrameInTransit # NULL =>
        \E id \in 1 .. host.id - 1, len \in FrameLens : FrameInTransit = Frame(id, len)

\* No byte is stored behind ecm_rx_buffer: neither ecm_rx_index nor ep->xfer_buff
\* is ever checked against ECM_MAX_SEGMENT_SIZE, so this rests on the index
\* going back to zero between frames.
NoOverrun == Quiet => ~overrun

\* The main loop never passes a NULL registered_pdev to USBD_LL_PrepareReceive, though
\* resets come while it serves a frame. (A SET_CONFIGURATION(0) may put NULL there.)
NoNullHandle == deconfigs = 0 => pc # "fault"

\* A configured device with nothing to do in the main loop either can receive or
\* remembers that it must renew: no refused renewal is forgotten.
NoLostRenewal ==
    (dev_state = "CONFIGURED" /\ pc = "idle" /\ received_frame = NULL)
        => (out.stat = "VALID" \/ OutboundTransferNeedsRenewal)

\* A frame waiting for the main loop is never replaced by a later one or dropped,
\* whatever the host does: it leaves received_frame into service_traffic's hands.
HeldFrameKept ==
    [][received_frame # NULL /\ received_frame' # received_frame
         => received_frame' = NULL /\ frame' = received_frame]_vars

\* The path implements a loss-free one-frame mailbox: every frame the host
\* finishes reaches ethernet_input whole, once, in order, and none is accepted
\* before the one in front of it was processed. (On a bus that is not quiet the
\* mapping shows an empty mailbox.)
Mailbox == INSTANCE FrameMailbox WITH next <- IF Quiet THEN host.id ELSE 1,
                                      mailbox <- IF Quiet THEN FrameInTransit ELSE NULL,
                                      taken <- IF Quiet THEN taken ELSE 0
ImplementsMailbox == Mailbox!Spec

\* Once a frame waits, the open endpoint is armed again: neither lwIP's turn, nor a
\* bus reset or a halt in between, not even between the read and the write of EPnR,
\* leaves it as the end of the frame left it. Two things do: the host took the
\* configuration back, or its SET_CONFIGURATION after a reset met the lock.
FrameThenRearmed ==
    (received_frame # NULL) ~> \/ out.open /\ out.stat = "VALID"
                               \/ refused
                               \/ deconfigs > 0

\* All the host has to send is received, whatever the interleaving, unless a renewal
\* was lost: a refusal that is remembered is mopped up by USBD_ECM_SOF, and nothing
\* else makes reception stop.
EverythingDelivered == Quiet => <>[](taken = MaxFrames) \/ <>~NoLostRenewal
=============================================================================
