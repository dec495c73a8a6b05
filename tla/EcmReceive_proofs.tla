-------------------------- MODULE EcmReceive_proofs --------------------------
(***************************************************************************)
(* Proofs about the receive path, for every packet size, every buffer size *)
(* and every set of frame lengths.                                         *)
(***************************************************************************)
EXTENDS EcmReceive, TLAPS

\* The HAL's operators keep an endpoint an endpoint.
LEMMA EndpointOps ==
    ASSUME NEW ep \in Endpoint, NEW buf \in Nat, NEW len \in Nat, NEW locked \in BOOLEAN,
           NEW is_in \in BOOLEAN
    PROVE  /\ HAL_PCD_EP_Receive(ep, buf, len, locked) \in Endpoint
           /\ HAL_PCD_EP_Transmit(ep, buf, len, locked) \in Endpoint
           /\ HAL_PCD_EP_Open(ep, is_in, locked) \in Endpoint
           /\ HAL_PCD_EP_Close(ep, locked) \in Endpoint
           /\ AfterPacket(ep, len) \in Endpoint
           /\ XferSetup(ep, buf, len) \in Endpoint
           /\ XferArm(ep) \in Endpoint
           /\ XferRemaining(len) \in Nat
           /\ HAL_PCD_EP_SetStall(ep, locked) \in Endpoint
           /\ HAL_PCD_EP_ClrStall(ep, locked) \in Endpoint
           /\ EPnR(ep) \in [open : BOOLEAN, stat : Stat]
  <1>1. XferRemaining(len) \in Nat
    BY MaxPacketAssumption DEF XferRemaining
  <1>2. XferSetup(ep, buf, len) \in Endpoint /\ XferArm(ep) \in Endpoint
    BY DEF XferSetup, XferArm, Endpoint, Stat
  <1>3. /\ HAL_PCD_EP_Receive(ep, buf, len, locked) \in Endpoint
        /\ HAL_PCD_EP_Transmit(ep, buf, len, locked) \in Endpoint
    BY <1>1 DEF HAL_PCD_EP_Receive, HAL_PCD_EP_Transmit, XferUnlessLocked, XferSetup, XferArm,
                Endpoint, Stat
  <1>4. HAL_PCD_EP_Open(ep, is_in, locked) \in Endpoint
    BY DEF HAL_PCD_EP_Open, Endpoint, Stat
  <1>5. HAL_PCD_EP_Close(ep, locked) \in Endpoint
    BY DEF HAL_PCD_EP_Close, Endpoint, Stat
  <1>6. AfterPacket(ep, len) \in Endpoint
    <2>1. ep.xfer_count + len \in Nat /\ ep.xfer_buff + len \in Nat
      BY DEF Endpoint
    <2> QED
      BY <2>1 DEF AfterPacket, Endpoint, Stat
  <1>7. HAL_PCD_EP_SetStall(ep, locked) \in Endpoint /\ HAL_PCD_EP_ClrStall(ep, locked) \in Endpoint
    BY DEF HAL_PCD_EP_SetStall, HAL_PCD_EP_ClrStall, Endpoint, Stat
  <1>8. EPnR(ep) \in [open : BOOLEAN, stat : Stat]
    BY DEF EPnR, Endpoint
  <1> QED
    BY <1>1, <1>2, <1>3, <1>4, <1>5, <1>6, <1>7, <1>8

\* The toggling write of PCD_SET_EP_RX_STATUS is well defined whatever EPnR was read ...
LEMMA ToggledType ==
    ASSUME NEW stat \in Stat, NEW seen \in Stat
    PROVE  Toggled(stat, seen) \in Stat
  <1> DEFINE P(s) == \A b \in {1, 2} :
                        (StatBits[s][b] = StatBits[stat][b]) <=> (StatBits[seen][b] = 1)
  <1>1. \E s \in Stat : P(s)
    <2>1. CASE seen = "DIS"
      BY <2>1 DEF Stat, StatBits
    <2>2. CASE seen = "STALL"
      BY <2>2 DEF Stat, StatBits
    <2>3. CASE seen = "NAK"
      BY <2>3 DEF Stat, StatBits
    <2>4. CASE seen = "VALID"
      BY <2>4 DEF Stat, StatBits
    <2> QED
      BY <2>1, <2>2, <2>3, <2>4 DEF Stat
  <1>2. (CHOOSE s \in Stat : P(s)) \in Stat
    <2> HIDE DEF P
    <2> QED
      BY <1>1
  <1> QED
    BY <1>2 DEF Toggled

\* ... and makes the endpoint VALID when nothing changed EPnR since the read.
LEMMA ToggledSeen ==
    ASSUME NEW stat \in Stat
    PROVE  Toggled(stat, stat) = "VALID"
  <1> DEFINE P(s) == \A b \in {1, 2} :
                        (StatBits[s][b] = StatBits[stat][b]) <=> (StatBits[stat][b] = 1)
  <1>1. P("VALID") /\ "VALID" \in Stat
    BY DEF Stat, StatBits
  <1>2. ASSUME NEW s \in Stat, P(s) PROVE s = "VALID"
    BY <1>2 DEF Stat, StatBits
  <1>3. (CHOOSE s \in Stat : P(s)) = "VALID"
    <2> HIDE DEF P
    <2> QED
      BY <1>1, <1>2
  <1> QED
    BY <1>3 DEF Toggled

\* hpcd->Lock is set exactly while the main loop is inside the locked region.
LockInv == Lock <=> pc \in {"len", "arm", "write", "unlock"}

\* Until the host configures the device nothing has happened.
ConfigInv ==
    /\ registered_pdev <=> dev_state = "CONFIGURED"
    /\ dev_state = "ADDRESSED" =>
          /\ pc = "idle" /\ received_frame = NULL
          /\ ecm_rx_index = 0 /\ ~OutboundTransferNeedsRenewal
          /\ out.stat # "VALID"

\* An armed endpoint stores the next chunk where ecm_rx_index points, as a
\* transfer of one packet.
ArmedInv == out.stat = "VALID" =>
               out.xfer_buff = ecm_rx_index /\ out.xfer_len = 0 /\ out.xfer_count = 0

\* What the main loop has stored on its way to arming the endpoint.
RenewInv ==
    /\ outcome = "OK"
    /\ pc # "fault"
    /\ pc \in {"setup", "lock", "len", "arm", "write"} => pBuf = 0
    /\ pc \in {"lock", "len", "arm", "write"} => out.xfer_buff = 0 /\ out.xfer_count = 0
    /\ pc \in {"lock", "len"} => out.xfer_len = MaxPacket
    /\ pc \in {"arm", "write"} => out.xfer_len = 0
    /\ pc = "write" => epnr = EPnR(out)

\* A frame is finished only after the main loop armed the endpoint, and a refused
\* renewal is remembered only while the main loop is still in usb_ecm_recv_renew.
OwnerInv ==
    /\ MainLoopOwnsFrame => ecm_rx_index = 0
    /\ received_frame # NULL =>
          pc \in {"idle", "unlock", "flag"} /\ ~OutboundTransferNeedsRenewal
    /\ OutboundTransferNeedsRenewal => pc \in {"unlock", "flag"} /\ out.stat # "VALID"

\* The driver's index is the host's offset, and the buffer holds what was sent.
BufferInv ==
    /\ host.off = ecm_rx_index
    /\ ecm_rx_index <= host.len
    /\ \A i \in Cells : i < ecm_rx_index => ecm_rx_buffer[i] = <<host.id, i + 1>>

\* The three safety properties, as they are on a quiet bus.
Exclusion == MainLoopOwnsFrame => out.stat # "VALID"

Whole == FrameInTransit # NULL =>
            \E id \in 1 .. host.id - 1, len \in FrameLens : FrameInTransit = Frame(id, len)

InBounds == ~overrun

IInv == /\ TypeOK /\ LockInv /\ ConfigInv /\ ArmedInv /\ RenewInv /\ OwnerInv
        /\ BufferInv /\ Exclusion /\ Whole /\ InBounds

-----------------------------------------------------------------------------
(***************************************************************************)
(* Lemmas about the operators of the model                                 *)
(***************************************************************************)

\* A frame of the host fits the buffer.
LEMMA HostBounds ==
    ASSUME TypeOK
    PROVE  /\ host.len \in Nat /\ host.len <= ECM_MAX_SEGMENT_SIZE
           /\ host.off \in Nat /\ host.off <= host.len
           /\ ECM_MAX_SEGMENT_SIZE \in Nat
  <1>1. host \in [id : Nat \ {0}, len : FrameLens, off : Nat] /\ host.off <= host.len
    BY DEF TypeOK
  <1>2. host.len \in FrameLens /\ host.off \in Nat
    BY <1>1
  <1>3. host.len \in 1 .. ECM_MAX_SEGMENT_SIZE /\ ECM_MAX_SEGMENT_SIZE \in Nat
    BY <1>2, SizeAssumption
  <1> QED
    BY <1>1, <1>2, <1>3

\* A chunk is at most a packet, and no longer than what is left of the frame.
LEMMA ChunkLenBounds ==
    ASSUME TypeOK
    PROVE  /\ ChunkLen \in 0 .. MaxPacket
           /\ host.off + ChunkLen <= host.len
           /\ ChunkLen < MaxPacket => host.off + ChunkLen = host.len
  BY HostBounds, MaxPacketAssumption DEF ChunkLen

\* PCD_ReadPMA leaves a buffer of bytes.
LEMMA StoreChunkType ==
    ASSUME TypeOK, NEW at \in Nat, NEW count \in Nat
    PROVE  StoreChunk(at, count) \in [Cells -> Byte]
  <1>1. ASSUME NEW i \in Cells, i \in at .. at + count - 1
        PROVE  <<host.id, host.off + (i - at) + 1>> \in Byte
    BY <1>1 DEF TypeOK, Byte, Cells
  <1>2. ASSUME NEW i \in Cells PROVE ecm_rx_buffer[i] \in Byte
    BY DEF TypeOK
  <1> QED
    BY <1>1, <1>2 DEF StoreChunk

\* What usb_ecm_recv_callback copies is a sequence of bytes, never NULL.
LEMMA AccumulatedType ==
    ASSUME NEW buffer \in [Cells -> Byte], NEW size \in Nat
    PROVE  Accumulated(buffer, size) \in Seq(Byte) /\ Accumulated(buffer, size) # NULL
  <1>1. Junk \in Byte
    BY DEF Junk, Byte
  <1>2. Accumulated(buffer, size) \in [1 .. size -> Byte]
    BY <1>1 DEF Accumulated
  <1>3. Accumulated(buffer, size) \in Seq(Byte)
    BY <1>2
  <1> QED
    BY <1>3, NullAssumption DEF Byte

-----------------------------------------------------------------------------
(***************************************************************************)
(* Type correctness, in every environment                                  *)
(***************************************************************************)

LEMMA HostType ==
    ASSUME TypeOK, HostStartsFrame
    PROVE  host' \in [id : Nat \ {0}, len : FrameLens, off : Nat] /\ host'.off <= host'.len
  <1>1. PICK len \in FrameLens : host' = [id |-> host.id + 1, len |-> len, off |-> 0]
    BY DEF HostStartsFrame
  <1>2. host.id + 1 \in Nat \ {0}
    BY DEF TypeOK
  <1>3. len \in Nat
    BY SizeAssumption
  <1> QED
    BY <1>1, <1>2, <1>3

\* Steps of the main loop keep the types.
LEMMA MainLoopType ==
    ASSUME TypeOK, MainLoop
    PROVE  TypeOK'
  <1> USE DEF isr, bus, ecm, bounds
  <1>1. CASE ServiceTraffic
    BY <1>1 DEF TypeOK, ServiceTraffic, ThreadPc
  <1>2. CASE EthernetInput
    BY <1>2 DEF TypeOK, EthernetInput, ThreadPc
  <1>3. CASE RenewArguments
    BY <1>3 DEF TypeOK, RenewArguments, ThreadPc
  <1>4. CASE RenewSetup
    <2>1. out' \in Endpoint
      BY <1>4, EndpointOps, MaxPacketAssumption DEF TypeOK, RenewSetup
    <2> QED
      BY <1>4, <2>1 DEF TypeOK, RenewSetup, ThreadPc
  <1>5. CASE RenewLock
    BY <1>5 DEF TypeOK, RenewLock, ThreadPc
  <1>6. CASE RenewLength
    <2>1. out \in Endpoint /\ out.xfer_len \in Nat
      BY DEF TypeOK, Endpoint
    <2>2. XferRemaining(out.xfer_len) \in Nat
      BY <2>1, EndpointOps
    <2>3. out' \in Endpoint
      BY <1>6, <2>1, <2>2 DEF RenewLength, Endpoint
    <2> QED
      BY <1>6, <2>3 DEF TypeOK, RenewLength, ThreadPc
  <1>7. CASE RenewArm
    <2>1. epnr' \in [open : BOOLEAN, stat : Stat]
      BY <1>7 DEF TypeOK, RenewArm, EPnR, Endpoint
    <2> QED
      BY <1>7, <2>1 DEF TypeOK, RenewArm, ThreadPc
  <1>10. CASE RenewWrite
    <2>1. out.stat \in Stat /\ epnr.stat \in Stat /\ epnr.open \in BOOLEAN /\ out \in Endpoint
      BY DEF TypeOK, Endpoint
    <2>2. Toggled(out.stat, epnr.stat) \in Stat
      BY <2>1, ToggledType
    <2>3. out' \in Endpoint
      BY <1>10, <2>1, <2>2 DEF RenewWrite, SetRxValid, Endpoint
    <2> QED
      BY <1>10, <2>3 DEF TypeOK, RenewWrite, ThreadPc
  <1>8. CASE RenewUnlock
    BY <1>8 DEF TypeOK, RenewUnlock, ThreadPc
  <1>9. CASE RenewFlag
    BY <1>9 DEF TypeOK, RenewFlag, ThreadPc
  <1> QED
    BY <1>1, <1>2, <1>3, <1>4, <1>5, <1>6, <1>7, <1>8, <1>9, <1>10 DEF MainLoop, Renew

\* usb_ecm_recv_renew in the interrupt.
LEMMA IsrRenewType ==
    ASSUME NEW ep \in Endpoint, NEW index \in Nat, Lock \in BOOLEAN,
           usb_ecm_recv_renew(ep, index)
    PROVE  out' \in Endpoint /\ OutboundTransferNeedsRenewal' \in BOOLEAN
  BY EndpointOps, MaxPacketAssumption DEF usb_ecm_recv_renew

\* The class's handler, called with an endpoint and a buffer.
LEMMA DataOutType ==
    ASSUME TypeOK, NEW ep \in Endpoint, NEW buffer \in [Cells -> Byte],
           USBD_ECM_DataOut(ep, buffer)
    PROVE  /\ out' \in Endpoint
           /\ ecm_rx_index' \in Nat
           /\ received_frame' \in Seq(Byte) \cup {NULL}
           /\ OutboundTransferNeedsRenewal' \in BOOLEAN
  <1> DEFINE index == ecm_rx_index + ep.xfer_count
  <1>1. index \in Nat
    BY DEF TypeOK, Endpoint
  <1>2. CASE /\ ep.xfer_count < MaxPacket
             /\ usb_ecm_recv_callback(ep, buffer, index)
             /\ ecm_rx_index' = 0
    <2>1. Accumulated(buffer, index) \in Seq(Byte)
      BY <1>1, AccumulatedType
    <2>2. ASSUME usb_ecm_recv_renew(ep, index)
          PROVE  out' \in Endpoint /\ OutboundTransferNeedsRenewal' \in BOOLEAN
      BY <1>1, <2>2, IsrRenewType DEF TypeOK
    <2> HIDE DEF index
    <2> QED
      BY <1>2, <2>1, <2>2 DEF usb_ecm_recv_callback, TypeOK
  <1>3. CASE /\ ecm_rx_index' = index
             /\ usb_ecm_recv_renew(ep, index)
             /\ UNCHANGED received_frame
    BY <1>1, <1>3, IsrRenewType DEF TypeOK
  <1> QED
    BY <1>2, <1>3 DEF USBD_ECM_DataOut

LEMMA IsrDataOutType ==
    ASSUME TypeOK, IsrDataOut
    PROVE  TypeOK'
  <1> DEFINE count == ChunkLen
             ep == AfterPacket(out, count)
             buffer == StoreChunk(out.xfer_buff, count)
  <1>1. count \in Nat /\ count <= MaxPacket /\ host.off + count <= host.len
    BY ChunkLenBounds, MaxPacketAssumption
  <1>2. out \in Endpoint /\ out.xfer_buff \in Nat
    BY DEF TypeOK, Endpoint
  <1>3. ep \in Endpoint /\ ep.xfer_buff \in Nat /\ ep.xfer_len \in Nat
    <2>1. ep \in Endpoint
      BY <1>1, <1>2, EndpointOps
    <2> QED
      BY <2>1 DEF Endpoint
  <1>4. buffer \in [Cells -> Byte]
    BY <1>1, <1>2, StoreChunkType
  <1>5. /\ out' \in Endpoint
        /\ ecm_rx_index' \in Nat
        /\ received_frame' \in Seq(Byte) \cup {NULL}
        /\ OutboundTransferNeedsRenewal' \in BOOLEAN
    <2>1. CASE RxComplete(out, count)
      <3>1. USBD_ECM_DataOut(ep, buffer)
        BY <2>1 DEF IsrDataOut
      <3> QED
        BY <1>3, <1>4, <3>1, DataOutType
    <2>2. CASE ~RxComplete(out, count)
      <3>1. /\ out' = HAL_PCD_EP_Receive(ep, ep.xfer_buff, ep.xfer_len, Lock)
            /\ UNCHANGED <<ecm_rx_index, received_frame, OutboundTransferNeedsRenewal>>
        BY <2>2 DEF IsrDataOut
      <3>2. out' \in Endpoint
        BY <1>3, <3>1, EndpointOps DEF TypeOK
      <3> QED
        BY <3>1, <3>2 DEF TypeOK
    <2> QED
      BY <2>1, <2>2
  <1>6. host' \in [id : Nat \ {0}, len : FrameLens, off : Nat] /\ host'.off <= host'.len
    <2>1. CASE count < MaxPacket
      BY <2>1, HostType DEF IsrDataOut, HostSent
    <2>2. CASE ~(count < MaxPacket)
      <3>1. host' = [host EXCEPT !.off = @ + count]
        BY <2>2 DEF IsrDataOut, HostSent
      <3> QED
        BY <1>1, <3>1, SMTT(30) DEF TypeOK
    <2> QED
      BY <2>1, <2>2
  <1>7. ecm_rx_buffer' \in [Cells -> Byte] /\ overrun' \in BOOLEAN
    BY <1>4 DEF IsrDataOut, TypeOK
  <1> QED
    BY <1>5, <1>6, <1>7 DEF IsrDataOut, TypeOK, thread, bounds

LEMMA IsrType ==
    ASSUME TypeOK, Isr
    PROVE  TypeOK'
  <1> USE DEF bus, ecm, thread, bounds
  <1>1. out \in Endpoint /\ Lock \in BOOLEAN /\ ecm_rx_index \in Nat /\ MaxPacket \in Nat
    BY MaxPacketAssumption DEF TypeOK
  <1>2. CASE IsrDataOut
    BY <1>2, IsrDataOutType
  <1>3. CASE IsrSOF
    <2>1. out' \in Endpoint /\ OutboundTransferNeedsRenewal' \in BOOLEAN
      BY <1>1, <1>3, IsrRenewType DEF IsrSOF, TypeOK
    <2>2. UNCHANGED <<bus, Lock, ecm, received_frame, thread>>
      BY <1>3 DEF IsrSOF
    <2> QED
      BY <2>1, <2>2 DEF TypeOK
  <1>4. CASE IsrConfigure
    <2>1. out' \in Endpoint
      BY <1>1, <1>4, EndpointOps DEF IsrConfigure
    <2> QED
      BY <1>4, <2>1 DEF IsrConfigure, TypeOK
  <1>5. CASE IsrDeconfigure
    <2>1. out' \in Endpoint
      BY <1>1, <1>5, EndpointOps DEF IsrDeconfigure
    <2>2. host' \in [id : Nat \ {0}, len : FrameLens, off : Nat] /\ host'.off <= host'.len
      BY <1>5, HostType DEF IsrDeconfigure
    <2>3. deconfigs' \in Nat
      BY <1>5 DEF IsrDeconfigure, TypeOK
    <2>4. dev_state' \in {"ADDRESSED", "CONFIGURED"} /\ registered_pdev' \in BOOLEAN
      BY <1>5 DEF IsrDeconfigure
    <2>5. UNCHANGED <<Lock, ecm_rx_index, ecm_rx_buffer, overrun,
                      OutboundTransferNeedsRenewal, received_frame, thread, trouble, resets,
                      halts, refused>>
      BY <1>5 DEF IsrDeconfigure
    <2> QED
      BY <2>1, <2>2, <2>3, <2>4, <2>5 DEF TypeOK
  <1>6. CASE IsrReset
    <2>1. out' \in Endpoint
      BY <1>1, <1>6 DEF IsrReset, Endpoint, Stat
    <2>2. host' \in [id : Nat \ {0}, len : FrameLens, off : Nat] /\ host'.off <= host'.len
      BY <1>6, HostType DEF IsrReset
    <2> QED
      BY <1>6, <2>1, <2>2 DEF IsrReset, TypeOK
  <1>7. CASE IsrSetHalt \/ IsrClearHalt
    <2>1. out' \in Endpoint
      BY <1>1, <1>7, EndpointOps DEF IsrSetHalt, IsrClearHalt
    <2> QED
      BY <1>7, <2>1 DEF IsrSetHalt, IsrClearHalt, TypeOK
  <1> QED
    BY <1>2, <1>3, <1>4, <1>5, <1>6, <1>7 DEF Isr

LEMMA InitType == Init => TypeOK
  <1> SUFFICES ASSUME Init PROVE TypeOK
    OBVIOUS
  <1>1. out \in Endpoint
    BY DEF Init, EndpointReset, Endpoint, Stat
  <1>2. ecm_rx_buffer \in [Cells -> Byte]
    BY DEF Init, Junk, Byte
  <1>3. host \in [id : Nat \ {0}, len : FrameLens, off : Nat] /\ host.off <= host.len
    <2>1. PICK len \in FrameLens : host = [id |-> 1, len |-> len, off |-> 0]
      BY DEF Init
    <2> QED
      BY <2>1, SizeAssumption
  <1>4. epnr \in [open : BOOLEAN, stat : Stat]
    BY <1>1 DEF Init, EPnR, Endpoint
  <1> QED
    BY <1>1, <1>2, <1>3, <1>4 DEF Init, TypeOK, ThreadPc

LEMMA NextType == TypeOK /\ [Next]_vars => TypeOK'
  <1>1. ASSUME TypeOK, UNCHANGED vars PROVE TypeOK'
    BY <1>1 DEF TypeOK, vars, bus, ecm, thread, bounds
  <1> QED
    BY <1>1, MainLoopType, IsrType DEF Next

\* Type correctness of the receive path in every environment: resets,
\* reconfigurations and an empty pbuf pool included.
THEOREM TypeCorrect == Spec => []TypeOK
  BY InitType, NextType, PTL DEF Spec

-----------------------------------------------------------------------------
(***************************************************************************)
(* What holds whatever the host does                                       *)
(***************************************************************************)

\* Until the class driver was initialised for the first time there is no frame.
HandleInv == deconfigs = 0 =>
    /\ pc # "fault"
    /\ ~registered_pdev =>
          dev_state = "ADDRESSED" /\ pc = "idle" /\ received_frame = NULL

LEMMA HandleInvNext == TypeOK /\ HandleInv /\ [Next]_vars => HandleInv'
  <1> SUFFICES ASSUME TypeOK, HandleInv, [Next]_vars PROVE HandleInv'
    OBVIOUS
  <1> USE DEF HandleInv, isr, bus, bounds, ecm, thread
  <1>1. CASE MainLoop
    BY <1>1 DEF MainLoop, Renew, ServiceTraffic, EthernetInput, RenewArguments, RenewSetup,
                RenewLock, RenewLength, RenewArm, RenewWrite, RenewUnlock, RenewFlag
  <1>2. CASE IsrDataOut
    BY <1>2 DEF IsrDataOut
  <1>3. CASE IsrDeconfigure
    <2>1. deconfigs' # 0
      BY <1>3 DEF IsrDeconfigure, TypeOK
    <2> QED
      BY <2>1
  <1>4. CASE IsrSOF \/ IsrConfigure \/ IsrReset \/ IsrSetHalt \/ IsrClearHalt
    BY <1>4 DEF IsrSOF, IsrConfigure, IsrReset, IsrSetHalt, IsrClearHalt
  <1>5. CASE UNCHANGED vars
    BY <1>5 DEF vars
  <1> QED
    BY <1>1, <1>2, <1>3, <1>4, <1>5 DEF Next, Isr

\* Bus resets, halts and an empty pool never make the main loop hand a NULL
\* registered_pdev to the USB core: a reset does not run USBD_ECM_DeInit.
THEOREM ReceiveNoNullHandle == Spec => []NoNullHandle
  <1>1. Init => HandleInv
    BY DEF Init, HandleInv
  <1>2. HandleInv => NoNullHandle
    BY DEF HandleInv, NoNullHandle
  <1> QED
    BY <1>1, <1>2, InitType, NextType, HandleInvNext, PTL DEF Spec

\* The class's handler leaves a frame that waits where it is.
LEMMA DataOutKeepsFrame ==
    ASSUME IsrDataOut, received_frame # NULL
    PROVE  received_frame' = received_frame
  BY DEF IsrDataOut, USBD_ECM_DataOut, usb_ecm_recv_callback

\* usb_ecm_recv_callback gives way to a frame that waits, whatever made the host's
\* packet arrive: it leaves received_frame only into service_traffic's hands.
THEOREM ReceiveHeldFrameKept == Spec => HeldFrameKept
  <1>1. ASSUME [Next]_vars, received_frame # NULL, received_frame' # received_frame
        PROVE  received_frame' = NULL /\ frame' = received_frame
    <2>1. CASE MainLoop
      BY <1>1, <2>1 DEF MainLoop, Renew, ServiceTraffic, EthernetInput, RenewArguments,
         RenewSetup, RenewLock, RenewLength, RenewArm, RenewWrite, RenewUnlock, RenewFlag
    <2>2. CASE Isr \/ UNCHANGED vars
      BY <1>1, <2>2, DataOutKeepsFrame
      DEF Isr, IsrSOF, IsrConfigure, IsrDeconfigure, IsrReset, IsrSetHalt, IsrClearHalt, vars
    <2> QED
      BY <1>1, <2>1, <2>2 DEF Next
  <1>2. [Next]_vars => [received_frame # NULL /\ received_frame' # received_frame
                          => received_frame' = NULL /\ frame' = received_frame]_vars
    BY <1>1
  <1> QED
    BY <1>2, PTL DEF Spec, HeldFrameKept

-----------------------------------------------------------------------------
(***************************************************************************)
(* The inductive invariant, on a quiet bus                                 *)
(***************************************************************************)

\* A step that neither ends nor starts a frame keeps Whole.
LEMMA WholeKept ==
    ASSUME Whole, host'.id = host.id,
           FrameInTransit' = FrameInTransit \/ FrameInTransit' = NULL
    PROVE  Whole'
  BY DEF Whole

LEMMA IInvInit == Init => IInv
  <1> SUFFICES ASSUME Init PROVE IInv
    OBVIOUS
  <1>1. TypeOK
    BY InitType
  <1>2. LockInv /\ ConfigInv /\ ArmedInv /\ OwnerInv /\ Exclusion
    BY DEF Init, LockInv, ConfigInv, ArmedInv, OwnerInv, Exclusion,
           MainLoopOwnsFrame, EndpointReset
  <1>3. RenewInv
    BY DEF Init, RenewInv
  <1>4. Whole /\ InBounds
    BY DEF Init, Whole, InBounds, FrameInTransit
  <1>5. BufferInv
    <2>1. ecm_rx_index = 0 /\ host.off = 0 /\ host.len \in Nat
      BY SizeAssumption DEF Init
    <2> QED
      BY <2>1 DEF BufferInv, Cells
  <1> QED
    BY <1>1, <1>2, <1>3, <1>4, <1>5 DEF IInv

\* The parts of the invariant that the main loop's own steps cannot disturb.
LEMMA MainLoopFrame ==
    ASSUME BufferInv, InBounds, UNCHANGED isr
    PROVE  BufferInv' /\ InBounds'
  BY DEF BufferInv, InBounds, isr, bus, ecm

LEMMA MainLoopIInv ==
    ASSUME IInv, MainLoop
    PROVE  IInv'
  <1> USE DEF isr, bus, ecm, bounds
  <1> DEFINE Control == /\ LockInv /\ ConfigInv /\ ArmedInv /\ RenewInv /\ OwnerInv
                        /\ Exclusion
  <1>1. TypeOK'
    BY MainLoopType DEF IInv
  <1>2. UNCHANGED isr /\ host' = host
    BY DEF MainLoop, Renew, ServiceTraffic, EthernetInput, RenewArguments, RenewSetup,
           RenewLock, RenewLength, RenewArm, RenewWrite, RenewUnlock, RenewFlag
  <1>3. BufferInv' /\ InBounds'
    BY <1>2, MainLoopFrame DEF IInv
  <1>4. Whole'
    <2>1. FrameInTransit' = FrameInTransit \/ FrameInTransit' = NULL
      BY DEF FrameInTransit, MainLoop, Renew, ServiceTraffic, EthernetInput,
             RenewArguments, RenewSetup, RenewLock, RenewLength, RenewArm, RenewWrite, RenewUnlock,
             RenewFlag
    <2> QED
      BY <1>2, <2>1, WholeKept DEF IInv
  <1>5. Control'
    <2> USE DEF IInv, LockInv, ConfigInv, ArmedInv, RenewInv, OwnerInv,
                Exclusion, MainLoopOwnsFrame
    <2>1. CASE ServiceTraffic
      BY <2>1 DEF ServiceTraffic
    <2>2. CASE EthernetInput
      BY <2>2 DEF EthernetInput
    <2>3. CASE RenewArguments
      BY <2>3 DEF RenewArguments, TypeOK
    <2>4. CASE RenewSetup
      BY <2>4 DEF RenewSetup, XferSetup, TypeOK, Endpoint
    <2>5. CASE RenewLock
      BY <2>5 DEF RenewLock
    <2>6. CASE RenewLength
      BY <2>6, MaxPacketAssumption DEF RenewLength, XferRemaining, TypeOK, Endpoint
    <2>7. CASE RenewArm
      BY <2>7 DEF RenewArm
    <2>10. CASE RenewWrite
      <3>1. out \in Endpoint /\ out.stat \in Stat /\ epnr.stat = out.stat
        BY <2>10 DEF RenewWrite, TypeOK, Endpoint, EPnR
      <3>2. Toggled(out.stat, epnr.stat) = "VALID"
        BY <3>1, ToggledSeen
      <3>3. /\ out'.stat = "VALID" /\ out'.xfer_buff = 0
            /\ out'.xfer_len = 0 /\ out'.xfer_count = 0
        BY <2>10, <3>1, <3>2 DEF RenewWrite, SetRxValid, Endpoint
      <3> QED
        BY <2>10, <3>3 DEF RenewWrite
    <2>8. CASE RenewUnlock
      BY <2>8 DEF RenewUnlock
    <2>9. CASE RenewFlag
      BY <2>9 DEF RenewFlag
    <2> QED
      BY <2>1, <2>2, <2>3, <2>4, <2>5, <2>6, <2>7, <2>8, <2>9, <2>10 DEF MainLoop, Renew
  <1> QED
    BY <1>1, <1>3, <1>4, <1>5 DEF IInv

\* A one-packet HAL_PCD_EP_Receive arms the endpoint at buf, unless refused.
LEMMA ReceiveEffect ==
    ASSUME NEW ep \in Endpoint, NEW buf \in Nat, NEW locked \in BOOLEAN,
           NEW r, r = HAL_PCD_EP_Receive(ep, buf, MaxPacket, locked)
    PROVE  /\ ~locked => /\ r.stat = "VALID" /\ r.xfer_buff = buf
                         /\ r.xfer_len = 0 /\ r.xfer_count = 0
           /\ locked => r.stat = ep.stat
  <1>1. XferRemaining(MaxPacket) = 0
    BY MaxPacketAssumption DEF XferRemaining
  <1> QED
    BY <1>1 DEF HAL_PCD_EP_Receive, XferUnlessLocked, XferSetup, XferArm, Endpoint

\* The state in which a packet can arrive, and what it does to the endpoint.
LEMMA PacketArrives ==
    ASSUME IInv, IsrDataOut
    PROVE  /\ pc \in {"idle", "unlock", "flag"}
           /\ received_frame = NULL
           /\ ~OutboundTransferNeedsRenewal
           /\ out \in Endpoint
           /\ out.xfer_buff = host.off
           /\ ecm_rx_index = host.off
           /\ AfterPacket(out, ChunkLen) \in Endpoint
           /\ AfterPacket(out, ChunkLen).stat = "NAK"
           /\ AfterPacket(out, ChunkLen).xfer_count = ChunkLen
           /\ AfterPacket(out, ChunkLen).xfer_buff = host.off + ChunkLen
           /\ USBD_ECM_DataOut(AfterPacket(out, ChunkLen), StoreChunk(host.off, ChunkLen))
  <1>1. out.stat = "VALID"
    BY DEF IsrDataOut
  <1>2. ~MainLoopOwnsFrame
    BY <1>1 DEF IInv, Exclusion
  <1>3. pc \in {"idle", "unlock", "flag"} /\ received_frame = NULL
    BY <1>2 DEF MainLoopOwnsFrame, IInv, TypeOK, ThreadPc, RenewInv
  <1>4. ~OutboundTransferNeedsRenewal
    BY <1>1 DEF IInv, OwnerInv
  <1>5. /\ out \in Endpoint
        /\ out.xfer_buff = ecm_rx_index /\ out.xfer_len = 0 /\ out.xfer_count = 0
        /\ ecm_rx_index = host.off
    BY <1>1 DEF IInv, TypeOK, ArmedInv, BufferInv
  <1>6. ChunkLen \in Nat
    BY ChunkLenBounds, MaxPacketAssumption DEF IInv
  <1>7. /\ AfterPacket(out, ChunkLen).stat = "NAK"
        /\ AfterPacket(out, ChunkLen).xfer_count = ChunkLen
        /\ AfterPacket(out, ChunkLen).xfer_buff = host.off + ChunkLen
    BY <1>5, <1>6 DEF AfterPacket, Endpoint
  <1>8. AfterPacket(out, ChunkLen) \in Endpoint
    <2>1. out.xfer_buff \in Nat /\ Lock \in BOOLEAN
      BY <1>5 DEF Endpoint, IInv, TypeOK
    <2> QED
      BY <1>5, <1>6, <2>1, EndpointOps
  <1>9. RxComplete(out, ChunkLen)
    BY <1>5 DEF RxComplete
  <1>10. USBD_ECM_DataOut(AfterPacket(out, ChunkLen), StoreChunk(host.off, ChunkLen))
    BY <1>5, <1>9 DEF IsrDataOut
  <1> QED
    BY <1>3, <1>4, <1>5, <1>7, <1>8, <1>10

\* After the chunk is stored, the buffer holds the frame up to its end.
LEMMA ChunkStored ==
    ASSUME IInv, NEW i \in Cells, i < host.off + ChunkLen
    PROVE  StoreChunk(host.off, ChunkLen)[i] = <<host.id, i + 1>>
  <1>1. ChunkLen \in Nat /\ host.off \in Nat /\ i \in Nat
    BY ChunkLenBounds, MaxPacketAssumption DEF IInv, TypeOK, Cells
  <1>2. CASE i \in host.off .. host.off + ChunkLen - 1
    BY <1>1, <1>2 DEF StoreChunk
  <1>3. CASE ~(i \in host.off .. host.off + ChunkLen - 1)
    <2>1. i < host.off
      BY <1>1, <1>3
    <2>2. ecm_rx_buffer[i] = <<host.id, i + 1>>
      BY <2>1 DEF IInv, BufferInv
    <2> QED
      BY <1>3, <2>2 DEF StoreChunk
  <1> QED
    BY <1>2, <1>3

\* The chunk that ends a frame puts exactly the host's frame into received_frame.
LEMMA FrameEnds ==
    ASSUME Quiet, IInv, IsrDataOut, ChunkLen < MaxPacket
    PROVE  /\ received_frame' = Frame(host.id, host.len)
           /\ received_frame' # NULL
           /\ out' = AfterPacket(out, ChunkLen)
           /\ ecm_rx_index' = 0
           /\ HostStartsFrame
           /\ UNCHANGED OutboundTransferNeedsRenewal
  <1> DEFINE ep == AfterPacket(out, ChunkLen)
             buffer == StoreChunk(host.off, ChunkLen)
  <1>1. host.off + ChunkLen = host.len /\ host.len \in Nat /\ host.len <= ECM_MAX_SEGMENT_SIZE
    BY ChunkLenBounds, HostBounds DEF IInv
  <1>2. ep.xfer_count = ChunkLen /\ ecm_rx_index = host.off /\ received_frame = NULL
    BY PacketArrives
  <1>3. ~(ChunkLen >= MaxPacket)
    BY ChunkLenBounds, MaxPacketAssumption DEF IInv
  <1>4. usb_ecm_recv_callback(ep, buffer, host.len) /\ ecm_rx_index' = 0
    BY <1>1, <1>2, <1>3, PacketArrives DEF USBD_ECM_DataOut
  <1>5. /\ received_frame' = Accumulated(buffer, host.len)
        /\ out' = ep
        /\ UNCHANGED OutboundTransferNeedsRenewal
    BY <1>2, <1>4 DEF usb_ecm_recv_callback, Quiet
  <1>6. Accumulated(buffer, host.len) = Frame(host.id, host.len)
    <2>1. ASSUME NEW i \in 1 .. host.len
          PROVE  /\ i - 1 \in Cells
                 /\ buffer[i - 1] = <<host.id, i>>
      <3>1. i - 1 \in Cells /\ i - 1 < host.off + ChunkLen /\ (i - 1) + 1 = i
        BY <1>1, SizeAssumption DEF Cells
      <3> QED
        BY <3>1, ChunkStored
    <2> HIDE DEF buffer
    <2> QED
      BY <2>1 DEF Accumulated, Frame
  <1>7. Accumulated(buffer, host.len) # NULL
    <2>1. buffer \in [Cells -> Byte]
      <3>1. host.off \in Nat /\ ChunkLen \in Nat
        BY ChunkLenBounds, MaxPacketAssumption DEF IInv, TypeOK
      <3> QED
        BY <3>1, StoreChunkType DEF IInv
    <2> QED
      BY <1>1, <2>1, AccumulatedType
  <1>8. HostStartsFrame
    BY DEF IsrDataOut, HostSent
  <1> QED
    BY <1>4, <1>5, <1>6, <1>7, <1>8

\* A full chunk moves index and offset on, and asks for the next packet.
LEMMA FrameGoesOn ==
    ASSUME Quiet, IInv, IsrDataOut, ~(ChunkLen < MaxPacket)
    PROVE  /\ usb_ecm_recv_renew(AfterPacket(out, ChunkLen), host.off + ChunkLen)
           /\ ecm_rx_index' = host.off + ChunkLen
           /\ host' = [host EXCEPT !.off = @ + ChunkLen]
           /\ UNCHANGED received_frame
  BY PacketArrives DEF USBD_ECM_DataOut, IsrDataOut, HostSent

LEMMA IsrDataOutIInv ==
    ASSUME Quiet, IInv, IsrDataOut
    PROVE  IInv'
  <1> DEFINE ep == AfterPacket(out, ChunkLen)
  <1>1. TypeOK'
    BY IsrDataOutType DEF IInv
  <1>2. /\ UNCHANGED <<dev_state, Lock, registered_pdev, pc, frame, pBuf, epnr, outcome>>
        /\ dev_state = "CONFIGURED"
    BY DEF IsrDataOut, thread
  <1>3. InBounds'
    <2>1. ep.xfer_buff = host.off + ChunkLen
      BY PacketArrives
    <2>2. host.off + ChunkLen <= host.len /\ host.off + ChunkLen \in Nat
      BY ChunkLenBounds, MaxPacketAssumption DEF IInv, TypeOK
    <2>3. host.len \in Nat /\ host.len <= ECM_MAX_SEGMENT_SIZE /\ ECM_MAX_SEGMENT_SIZE \in Nat
      BY HostBounds DEF IInv
    <2>4. ~(ep.xfer_buff > ECM_MAX_SEGMENT_SIZE)
      BY <2>1, <2>2, <2>3
    <2> QED
      BY <2>4 DEF IsrDataOut, IInv, InBounds
  <1>4. ecm_rx_buffer' = StoreChunk(host.off, ChunkLen)
    BY PacketArrives DEF IsrDataOut
  <1>5. RenewInv' /\ LockInv'
    BY <1>2, PacketArrives DEF IInv, RenewInv, LockInv
  <1>6. CASE ChunkLen < MaxPacket
    <2>1. out'.stat = "NAK" /\ received_frame' # NULL /\ ecm_rx_index' = 0
          /\ ~OutboundTransferNeedsRenewal'
      BY <1>6, FrameEnds, PacketArrives
    <2>2. ConfigInv' /\ ArmedInv' /\ OwnerInv' /\ Exclusion'
      BY <1>2, <2>1, PacketArrives
      DEF ConfigInv, ArmedInv, OwnerInv, Exclusion, MainLoopOwnsFrame, IInv
    <2>3. PICK len \in FrameLens : host' = [id |-> host.id + 1, len |-> len, off |-> 0]
      BY <1>6, FrameEnds DEF HostStartsFrame
    <2>4. host'.id = host.id + 1 /\ host'.off = 0 /\ host'.len \in Nat
          /\ host.id \in Nat \ {0} /\ host.len \in FrameLens
      BY <2>3, SizeAssumption DEF IInv, TypeOK
    <2>5. BufferInv'
      BY <2>1, <2>4 DEF BufferInv, Cells
    <2>6. Whole'
      <3>1. FrameInTransit' = Frame(host.id, host.len)
        BY <1>6, <2>1, FrameEnds DEF FrameInTransit
      <3>2. host.id \in 1 .. host'.id - 1
        BY <2>4
      <3> QED
        BY <2>4, <3>1, <3>2 DEF Whole
    <2> QED
      BY <1>1, <1>3, <1>5, <2>2, <2>5, <2>6 DEF IInv
  <1>7. CASE ~(ChunkLen < MaxPacket)
    <2> DEFINE index == host.off + ChunkLen
    <2>1. index \in Nat /\ index <= host.len
      BY ChunkLenBounds, MaxPacketAssumption DEF IInv, TypeOK
    <2>2. /\ out' = HAL_PCD_EP_Receive(ep, index, MaxPacket, Lock)
          /\ OutboundTransferNeedsRenewal' = Lock
          /\ ecm_rx_index' = index
          /\ received_frame' = NULL
      BY <1>7, FrameGoesOn, PacketArrives DEF usb_ecm_recv_renew
    <2>3. /\ ~Lock => /\ out'.stat = "VALID" /\ out'.xfer_buff = index
                      /\ out'.xfer_len = 0 /\ out'.xfer_count = 0
          /\ Lock => out'.stat = "NAK"
      BY <2>1, <2>2, PacketArrives, ReceiveEffect DEF IInv, TypeOK
    <2>4. Lock => pc = "unlock"
      BY PacketArrives DEF IInv, LockInv
    <2>5. ConfigInv' /\ ArmedInv' /\ OwnerInv' /\ Exclusion'
      <3> HIDE DEF index, ep
      <3> QED
        BY <1>2, <2>2, <2>3, <2>4, PacketArrives
        DEF ConfigInv, ArmedInv, OwnerInv, Exclusion, MainLoopOwnsFrame, IInv,
            TypeOK
    <2>6. host'.id = host.id /\ host'.len = host.len /\ host'.off = index
      BY <1>7, FrameGoesOn DEF IInv, TypeOK
    <2>7. BufferInv'
      <3>1. ASSUME NEW i \in Cells, i < index
            PROVE  ecm_rx_buffer'[i] = <<host.id, i + 1>>
        BY <1>4, <3>1, ChunkStored
      <3> HIDE DEF index
      <3> QED
        BY <2>1, <2>2, <2>6, <3>1 DEF BufferInv
    <2>8. Whole'
      <3>1. FrameInTransit' = NULL
        BY <1>2, <2>2, PacketArrives DEF FrameInTransit
      <3> QED
        BY <3>1 DEF Whole
    <2> QED
      BY <1>1, <1>3, <1>5, <2>5, <2>7, <2>8 DEF IInv
  <1> QED
    BY <1>6, <1>7

LEMMA IsrSOFIInv ==
    ASSUME IInv, IsrSOF
    PROVE  IInv'
  <1>1. TypeOK'
    BY IsrType DEF IInv, Isr
  <1>2. /\ UNCHANGED <<dev_state, host, Lock, registered_pdev, ecm_rx_index,
                       ecm_rx_buffer, overrun, received_frame, pc, frame, pBuf, epnr, outcome, taken>>
        /\ dev_state = "CONFIGURED"
    BY DEF IsrSOF, bus, ecm, thread
  <1>3. CASE ~OutboundTransferNeedsRenewal
    <2>1. UNCHANGED <<out, OutboundTransferNeedsRenewal>>
      BY <1>3 DEF IsrSOF
    <2> QED
      BY <1>1, <1>2, <2>1
      DEF IInv, LockInv, ConfigInv, ArmedInv, RenewInv, OwnerInv, BufferInv,
          Exclusion, MainLoopOwnsFrame, Whole, FrameInTransit, InBounds
  <1>4. CASE OutboundTransferNeedsRenewal
    <2>1. /\ pc \in {"unlock", "flag"} /\ received_frame = NULL /\ out.stat # "VALID"
          /\ out \in Endpoint /\ ecm_rx_index \in Nat /\ Lock \in BOOLEAN
      BY <1>4 DEF IInv, OwnerInv, TypeOK
    <2>2. /\ out' = HAL_PCD_EP_Receive(out, ecm_rx_index, MaxPacket, Lock)
          /\ OutboundTransferNeedsRenewal' = Lock
      BY <1>4 DEF IsrSOF, usb_ecm_recv_renew
    <2>3. /\ ~Lock => /\ out'.stat = "VALID" /\ out'.xfer_buff = ecm_rx_index
                      /\ out'.xfer_len = 0 /\ out'.xfer_count = 0
          /\ Lock => out'.stat = out.stat
      BY <2>1, <2>2, ReceiveEffect
    <2>4. LockInv' /\ ConfigInv' /\ RenewInv'
      BY <1>2, <2>1 DEF IInv, LockInv, ConfigInv, RenewInv
    <2>5. ArmedInv' /\ OwnerInv' /\ Exclusion'
      BY <1>2, <2>1, <2>2, <2>3
      DEF IInv, ArmedInv, OwnerInv, Exclusion, MainLoopOwnsFrame
    <2>6. BufferInv' /\ InBounds'
      BY <1>2 DEF IInv, BufferInv, InBounds
    <2>7. Whole'
      BY <1>2 DEF IInv, Whole, FrameInTransit
    <2> QED
      BY <1>1, <2>4, <2>5, <2>6, <2>7 DEF IInv
  <1> QED
    BY <1>3, <1>4

LEMMA IsrConfigureIInv ==
    ASSUME IInv, IsrConfigure
    PROVE  IInv'
  <1>1. TypeOK'
    BY IsrType DEF IInv, Isr
  <1>2. /\ UNCHANGED <<Lock, ecm_rx_index, ecm_rx_buffer, overrun, received_frame, pc, frame,
                       pBuf, epnr, outcome, host>>
        /\ dev_state' = "CONFIGURED" /\ registered_pdev' /\ ~OutboundTransferNeedsRenewal'
    BY DEF IsrConfigure, thread
  <1>3. /\ pc = "idle" /\ received_frame = NULL /\ ecm_rx_index = 0 /\ ~Lock
        /\ out \in Endpoint
    BY DEF IsrConfigure, IInv, ConfigInv, LockInv, TypeOK
  <1>4. /\ out'.stat = "VALID" /\ out'.xfer_buff = 0
        /\ out'.xfer_len = 0 /\ out'.xfer_count = 0
    <2>1. HAL_PCD_EP_Open(out, FALSE, Lock) \in Endpoint
      BY <1>3, EndpointOps, MaxPacketAssumption DEF IInv, TypeOK
    <2>2. out' = HAL_PCD_EP_Receive(HAL_PCD_EP_Open(out, FALSE, Lock), 0, MaxPacket, Lock)
      BY <1>3 DEF IsrConfigure
    <2>3. Lock \in BOOLEAN
      BY DEF IInv, TypeOK
    <2>4. PICK ep \in Endpoint : out' = HAL_PCD_EP_Receive(ep, 0, MaxPacket, Lock)
      BY <2>1, <2>2
    <2>5. 0 \in Nat
      OBVIOUS
    <2>6. ~Lock => /\ out'.stat = "VALID" /\ out'.xfer_buff = 0
                   /\ out'.xfer_len = 0 /\ out'.xfer_count = 0
      BY <2>3, <2>4, <2>5, ReceiveEffect
    <2> QED
      BY <1>3, <2>6
  <1>5. LockInv' /\ ConfigInv' /\ RenewInv' /\ ArmedInv' /\ OwnerInv' /\ Exclusion'
    BY <1>2, <1>3, <1>4
    DEF IInv, LockInv, ConfigInv, RenewInv, ArmedInv, OwnerInv, Exclusion,
        MainLoopOwnsFrame
  <1>6. BufferInv' /\ InBounds'
    BY <1>2 DEF IInv, BufferInv, InBounds
  <1>7. Whole'
    BY <1>2 DEF IInv, Whole, FrameInTransit
  <1> QED
    BY <1>1, <1>5, <1>6, <1>7 DEF IInv

LEMMA IInvNext ==
    ASSUME Quiet, IInv, [Next]_vars
    PROVE  IInv'
  <1>1. CASE MainLoop
    BY <1>1, MainLoopIInv
  <1>2. CASE IsrDataOut
    BY <1>2, IsrDataOutIInv
  <1>3. CASE IsrSOF
    BY <1>3, IsrSOFIInv
  <1>4. CASE IsrConfigure
    BY <1>4, IsrConfigureIInv
  <1>5. CASE IsrDeconfigure \/ IsrReset \/ IsrSetHalt \/ IsrClearHalt
    BY <1>5 DEF Quiet, IsrDeconfigure, IsrReset, IsrSetHalt, IsrClearHalt
  <1>6. CASE UNCHANGED vars
    <2>1. TypeOK'
      BY <1>6, NextType DEF IInv
    <2> QED
      BY <1>6, <2>1
      DEF vars, bus, ecm, thread, IInv, LockInv, ConfigInv, ArmedInv, RenewInv, OwnerInv,
          BufferInv, Exclusion, MainLoopOwnsFrame, Whole, FrameInTransit,
          InBounds
  <1> QED
    BY <1>1, <1>2, <1>3, <1>4, <1>5, <1>6 DEF Next, Isr

\* On a quiet bus the invariant holds; trouble never changes.
QInv == Quiet => IInv

LEMMA TroubleKept == [Next]_vars => trouble' = trouble
  BY DEF Next, vars, MainLoop, Renew, ServiceTraffic, EthernetInput, RenewArguments,
         RenewSetup, RenewLock, RenewLength, RenewArm, RenewWrite, RenewUnlock, RenewFlag,
         Isr, IsrDataOut, IsrSOF, IsrConfigure, IsrDeconfigure, IsrReset, IsrSetHalt,
         IsrClearHalt, isr, bus, bounds

LEMMA QInvInit == Init => QInv
  BY IInvInit DEF QInv

LEMMA QInvNext == QInv /\ [Next]_vars => QInv'
  BY IInvNext, TroubleKept DEF QInv, Quiet

\* usb_ecm_recv_renew is the only permission to receive: on a quiet bus no
\* packet is accepted while the main loop owns a frame, so the interrupt is never
\* inside pbuf_alloc while the main loop is inside ethernet_input with that frame.
THEOREM ReceiveExclusion == Spec => []QuietWhileFrameOwned
  <1>1. QInv => QuietWhileFrameOwned
    BY DEF QInv, IInv, QuietWhileFrameOwned, Exclusion
  <1> QED
    BY <1>1, QInvInit, QInvNext, PTL DEF Spec

\* Whatever waits for lwIP is byte for byte a frame the host sent in full.
THEOREM ReceiveWholePacket == Spec => []WholePacket
  <1>1. QInv => WholePacket
    BY DEF QInv, IInv, WholePacket, Whole
  <1> QED
    BY <1>1, QInvInit, QInvNext, PTL DEF Spec

\* USBD_ECM_DataOut never lets the HAL store a byte behind ecm_rx_buffer.
THEOREM ReceiveNoOverrun == Spec => []NoOverrun
  <1>1. QInv => NoOverrun
    BY DEF QInv, IInv, NoOverrun, InBounds
  <1> QED
    BY <1>1, QInvInit, QInvNext, PTL DEF Spec

-----------------------------------------------------------------------------
(***************************************************************************)
(* The refinement: chunks, endpoint and lock are steps of FrameMailbox     *)
(***************************************************************************)

\* The frame service_traffic gives to ethernet_input is never NULL.
InputInv == pc = "input" => frame # NULL

LEMMA InputInvNext ==
    InputInv /\ [Next]_vars => InputInv'
  <1> SUFFICES ASSUME InputInv, [Next]_vars PROVE InputInv'
    OBVIOUS
  <1>1. CASE ServiceTraffic
    BY <1>1 DEF ServiceTraffic, InputInv
  <1>2. CASE EthernetInput \/ Renew
    BY <1>2 DEF EthernetInput, Renew, RenewArguments, RenewSetup, RenewLock, RenewLength,
                RenewArm, RenewWrite, RenewUnlock, RenewFlag, InputInv
  <1>3. CASE Isr \/ UNCHANGED vars
    <2>1. UNCHANGED <<pc, frame>>
      BY <1>3 DEF Isr, IsrDataOut, IsrSOF, IsrConfigure, IsrDeconfigure, IsrReset, IsrSetHalt,
                   IsrClearHalt, thread, vars
    <2> QED
      BY <2>1 DEF InputInv
  <1> QED
    BY <1>1, <1>2, <1>3 DEF Next, MainLoop

\* Steps that neither finish nor hand over a frame are invisible.
LEMMA Invisible ==
    ASSUME Quiet, Quiet', UNCHANGED <<host, received_frame, pc, frame, taken>>
    PROVE  UNCHANGED Mailbox!vars
  BY DEF Mailbox!vars, FrameInTransit

\* usb_ecm_recv_renew in the main loop touches no frame.
LEMMA RenewInvisible ==
    ASSUME Quiet, Quiet', Renew
    PROVE  UNCHANGED Mailbox!vars
  <1>1. UNCHANGED <<host, received_frame, frame, taken>> /\ pc # "input" /\ pc' # "input"
    BY DEF Renew, RenewArguments, RenewSetup, RenewLock, RenewLength, RenewArm, RenewWrite, RenewUnlock,
           RenewFlag, isr, bus
  <1> QED
    BY <1>1 DEF Mailbox!vars, FrameInTransit

\* Taking the frame out of received_frame moves it, and lwIP's turn takes it.
LEMMA HandOver ==
    ASSUME Quiet, Quiet', IInv, InputInv, ServiceTraffic \/ EthernetInput
    PROVE  [Mailbox!Next]_(Mailbox!vars)
  <1>1. CASE ServiceTraffic
    <2>1. FrameInTransit' = FrameInTransit /\ UNCHANGED <<host, taken>>
      BY <1>1 DEF ServiceTraffic, FrameInTransit, isr, bus
    <2> QED
      BY <2>1 DEF Mailbox!vars
  <1>2. CASE EthernetInput
    <2>1. received_frame = NULL
      BY <1>2 DEF EthernetInput, IInv, OwnerInv
    <2>2. FrameInTransit = frame /\ frame # NULL /\ FrameInTransit' = NULL
      BY <1>2, <2>1 DEF EthernetInput, FrameInTransit, InputInv
    <2>3. taken' = taken + 1 /\ UNCHANGED host
      BY <1>2 DEF EthernetInput, isr, bus
    <2> QED
      BY <2>2, <2>3 DEF Mailbox!Next, Mailbox!Take
  <1> QED
    BY <1>1, <1>2

\* A full chunk is invisible; the chunk that ends a frame puts it in the mailbox.
LEMMA PacketRefines ==
    ASSUME Quiet, Quiet', IInv, IsrDataOut
    PROVE  [Mailbox!Next]_(Mailbox!vars)
  <1>1. UNCHANGED <<pc, frame, taken>> /\ pc # "input" /\ received_frame = NULL
    BY PacketArrives DEF IsrDataOut, thread
  <1>2. FrameInTransit = NULL
    BY <1>1 DEF FrameInTransit
  <1>3. CASE ChunkLen < MaxPacket
    <2>1. /\ FrameInTransit' = Frame(host.id, host.len)
          /\ HostStartsFrame
      BY <1>3, FrameEnds DEF FrameInTransit
    <2>2. PICK len \in FrameLens : host' = [id |-> host.id + 1, len |-> len, off |-> 0]
      BY <2>1 DEF HostStartsFrame
    <2>3. host'.id = host.id + 1
      BY <2>2
    <2>4. host.len \in FrameLens
      BY DEF IInv, TypeOK
    <2>5. FrameInTransit' = Mailbox!Frame(host.id, host.len)
      BY <2>1 DEF Frame, Mailbox!Frame
    <2> QED
      BY <1>1, <1>2, <2>3, <2>4, <2>5 DEF Mailbox!Next, Mailbox!Put
  <1>4. CASE ~(ChunkLen < MaxPacket)
    <2>1. received_frame' = NULL /\ host' = [host EXCEPT !.off = @ + ChunkLen]
      BY <1>1, <1>4, FrameGoesOn
    <2>2. FrameInTransit' = NULL
      BY <1>1, <2>1 DEF FrameInTransit
    <2>3. host'.id = host.id
      BY <2>1 DEF IInv, TypeOK
    <2> QED
      BY <1>1, <1>2, <2>2, <2>3 DEF Mailbox!vars
  <1> QED
    BY <1>3, <1>4

LEMMA QuietStepRefines ==
    ASSUME Quiet, Quiet', IInv, InputInv, [Next]_vars
    PROVE  [Mailbox!Next]_(Mailbox!vars)
  <1>1. CASE ServiceTraffic \/ EthernetInput
    BY <1>1, HandOver
  <1>2. CASE Renew
    BY <1>2, RenewInvisible
  <1>3. CASE IsrDataOut
    BY <1>3, PacketRefines
  <1>4. CASE IsrSOF \/ IsrConfigure \/ UNCHANGED vars
    <2>1. UNCHANGED <<host, received_frame, pc, frame, taken>>
      BY <1>4 DEF IsrSOF, IsrConfigure, thread, bus, vars
    <2> QED
      BY <2>1, Invisible
  <1>5. CASE IsrDeconfigure \/ IsrReset \/ IsrSetHalt \/ IsrClearHalt
    BY <1>5 DEF Quiet, IsrDeconfigure, IsrReset, IsrSetHalt, IsrClearHalt
  <1> QED
    BY <1>1, <1>2, <1>3, <1>4, <1>5 DEF Next, MainLoop, Isr

LEMMA StepRefines ==
    QInv /\ InputInv /\ [Next]_vars => [Mailbox!Next]_(Mailbox!vars)
  <1> SUFFICES ASSUME QInv, InputInv, [Next]_vars PROVE [Mailbox!Next]_(Mailbox!vars)
    OBVIOUS
  <1>1. trouble' = trouble
    BY TroubleKept
  <1>2. CASE Quiet
    BY <1>1, <1>2, QuietStepRefines DEF QInv, Quiet
  <1>3. CASE ~Quiet
    <2>1. ~Quiet'
      BY <1>1, <1>3 DEF Quiet
    <2> QED
      BY <1>3, <2>1 DEF Mailbox!vars
  <1> QED
    BY <1>2, <1>3

\* The receive path, with its chunks, its interrupt, its HAL lock and its renewals,
\* implements the one-frame mailbox: frames reach lwIP whole, once and in order.
THEOREM ReceiveImplementsMailbox == Spec => ImplementsMailbox
  <1>1. Init => Mailbox!Init /\ InputInv
    BY DEF Init, Mailbox!Init, FrameInTransit, InputInv
  <1> QED
    BY <1>1, QInvInit, QInvNext, InputInvNext, StepRefines, PTL
    DEF Spec, ImplementsMailbox, Mailbox!Spec
=============================================================================
