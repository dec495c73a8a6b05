------------------------- MODULE EcmTransmit_proofs -------------------------
(***************************************************************************)
(* Proofs about the transmit path, for every packet size, buffer size,     *)
(* timeout and environment: slow hosts, refused transmissions, bus resets  *)
(* and reconfigurations are all allowed.                                   *)
(***************************************************************************)
EXTENDS EcmTransmit, TLAPS

\* The HAL's operators for an IN endpoint keep it an endpoint.
LEMMA EndpointOps ==
    ASSUME NEW ep \in Endpoint, NEW buf \in Nat, NEW count \in Nat, NEW locked \in BOOLEAN
    PROVE  /\ HAL_PCD_EP_Transmit(ep, buf, count, locked) \in Endpoint
           /\ HAL_PCD_EP_Open(ep, TRUE, locked) \in Endpoint
           /\ HAL_PCD_EP_Close(ep, locked) \in Endpoint
           /\ HAL_PCD_EP_SetStall(ep, locked) \in Endpoint
           /\ HAL_PCD_EP_ClrStall(ep, locked) \in Endpoint
  <1>1. XferRemaining(count) \in Nat
    BY MaxPacketAssumption DEF XferRemaining
  <1>2. HAL_PCD_EP_Transmit(ep, buf, count, locked) \in Endpoint
    BY <1>1 DEF HAL_PCD_EP_Transmit, XferUnlessLocked, XferSetup, XferArm, Endpoint, Stat
  <1>3. HAL_PCD_EP_Open(ep, TRUE, locked) \in Endpoint
    BY DEF HAL_PCD_EP_Open, Endpoint, Stat
  <1>4. HAL_PCD_EP_Close(ep, locked) \in Endpoint
    BY DEF HAL_PCD_EP_Close, Endpoint, Stat
  <1>5. HAL_PCD_EP_SetStall(ep, locked) \in Endpoint /\ HAL_PCD_EP_ClrStall(ep, locked) \in Endpoint
    BY DEF HAL_PCD_EP_SetStall, HAL_PCD_EP_ClrStall, Endpoint, Stat
  <1> QED
    BY <1>2, <1>3, <1>4, <1>5

\* What is in TypeOK about the endpoint, the packet memory and the chunk counters.
ChunkType ==
    /\ in_ep \in Endpoint
    /\ pma \in Seq(Byte) /\ Len(pma) <= MaxPacket
    /\ ecm_tx_ptr \in Nat /\ ecm_tx_remaining \in Nat
    /\ ecm_tx_busy \in 0 .. BusyLimit

\* A piece of ecm_tx_buffer is a sequence of bytes of the length asked for.
LEMMA BytesType ==
    ASSUME TypeOK, NEW at \in Nat, NEW count \in Nat
    PROVE  Bytes(at, count) \in Seq(Byte) /\ Len(Bytes(at, count)) = count
  <1>1. Junk \in Byte
    BY DEF Junk, Byte
  <1>2. Bytes(at, count) \in [1 .. count -> Byte]
    BY <1>1 DEF Bytes, TypeOK
  <1>3. Bytes(at, count) \in Seq(Byte)
    BY <1>2
  <1>4. DOMAIN Bytes(at, count) = 1 .. count
    BY DEF Bytes
  <1> QED
    BY <1>3, <1>4

\* A transmission leaves an endpoint and at most a packet in its memory.
LEMMA TransmitType ==
    ASSUME TypeOK, NEW ep \in Endpoint, NEW mem \in Seq(Byte), Len(mem) <= MaxPacket,
           NEW at \in Nat, NEW count \in Nat, Transmit(ep, mem, at, count)
    PROVE  in_ep' \in Endpoint /\ pma' \in Seq(Byte) /\ Len(pma') <= MaxPacket
  <1>1. AtMostPacket(count) \in Nat /\ AtMostPacket(count) <= MaxPacket
    BY MaxPacketAssumption DEF AtMostPacket
  <1>2. /\ Bytes(at, AtMostPacket(count)) \in Seq(Byte)
        /\ Len(Bytes(at, AtMostPacket(count))) <= MaxPacket
    BY <1>1, BytesType
  <1>3. pma' \in Seq(Byte) /\ Len(pma') <= MaxPacket
    BY <1>2 DEF Transmit
  <1>4. HAL_PCD_EP_Transmit(ep, at, count, Lock) \in Endpoint
    <2>1. Lock \in BOOLEAN /\ TRUE \in BOOLEAN
      BY DEF TypeOK
    <2> QED
      BY <2>1, EndpointOps
  <1> QED
    BY <1>3, <1>4 DEF Transmit

\* So does an attempt, and its counters stay natural.
LEMMA AttemptType ==
    ASSUME TypeOK, NEW ep \in Endpoint, NEW mem \in Seq(Byte), Len(mem) <= MaxPacket,
           NEW busy \in 0 .. BusyLimit, ecm_incoming_attempt(ep, mem, busy)
    PROVE  ChunkType'
  <1> DEFINE chunk_size == AtMostPacket(ecm_tx_remaining)
  <1>1. CASE ecm_tx_remaining = 0 \/ busy # 0
    BY <1>1 DEF ecm_incoming_attempt, ChunkType, TypeOK
  <1>2. CASE ~(ecm_tx_remaining = 0 \/ busy # 0)
    <2>1. chunk_size \in Nat /\ chunk_size <= ecm_tx_remaining
      BY MaxPacketAssumption DEF AtMostPacket, TypeOK
    <2>2. /\ Transmit(ep, mem, ecm_tx_ptr, chunk_size)
          /\ ecm_tx_ptr' = ecm_tx_ptr + chunk_size
          /\ ecm_tx_remaining' = ecm_tx_remaining - chunk_size
          /\ ecm_tx_busy' = 1
      BY <1>2 DEF ecm_incoming_attempt
    <2> HIDE DEF chunk_size
    <2>3. ecm_tx_ptr' \in Nat /\ ecm_tx_remaining' \in Nat /\ ecm_tx_busy' \in 0 .. BusyLimit
      BY <2>1, <2>2, LimitAssumption DEF TypeOK
    <2>4. in_ep' \in Endpoint /\ pma' \in Seq(Byte) /\ Len(pma') <= MaxPacket
      BY <2>1, <2>2, TransmitType DEF TypeOK
    <2> QED
      BY <2>3, <2>4 DEF ChunkType
  <1> QED
    BY <1>1, <1>2

LEMMA DataInType ==
    ASSUME TypeOK, IsrDataIn
    PROVE  TypeOK'
  <1> DEFINE count == Len(pma)
             mem == Bytes(in_ep.xfer_buff, count)
             ep == [in_ep EXCEPT !.xfer_count = count, !.xfer_buff = @ + count]
  <1>1. count \in Nat /\ count <= MaxPacket /\ in_ep.xfer_buff \in Nat /\ in_ep.xfer_len \in Nat
    BY DEF TypeOK, Endpoint
  <1>2. mem \in Seq(Byte) /\ Len(mem) <= MaxPacket
    BY <1>1, BytesType
  <1>3. ep \in Endpoint /\ ep.xfer_buff \in Nat /\ ep.xfer_len \in Nat
    <2>1. in_ep.xfer_buff + count \in Nat /\ in_ep \in Endpoint
      BY <1>1 DEF TypeOK
    <2> HIDE DEF count
    <2> QED
      BY <1>1, <2>1 DEF Endpoint
  <1>4. ChunkType' /\ can_xmit' \in BOOLEAN
    <2>1. CASE USBD_ECM_DataIn(ep, mem)
      <3>1. ecm_incoming_attempt(ep, mem, 0) /\ 0 \in 0 .. BusyLimit
        BY <2>1, LimitAssumption DEF USBD_ECM_DataIn
      <3> HIDE DEF ep, mem
      <3> QED
        BY <1>2, <1>3, <2>1, <3>1, AttemptType DEF USBD_ECM_DataIn
    <2>2. CASE in_ep' = ep /\ pma' = mem /\ UNCHANGED <<can_xmit, tx>>
      <3> HIDE DEF ep, mem
      <3> QED
        BY <1>2, <1>3, <2>2 DEF ChunkType, TypeOK, tx
    <2>3. CASE Transmit(ep, mem, ep.xfer_buff, ep.xfer_len) /\ UNCHANGED <<can_xmit, tx>>
      <3> HIDE DEF ep, mem
      <3>1. in_ep' \in Endpoint /\ pma' \in Seq(Byte) /\ Len(pma') <= MaxPacket
        BY <1>2, <1>3, <2>3, TransmitType
      <3> QED
        BY <2>3, <3>1 DEF ChunkType, TypeOK, tx
    <2> QED
      BY <2>1, <2>2, <2>3 DEF IsrDataIn
  <1> QED
    BY <1>4 DEF IsrDataIn, ChunkType, TypeOK, thread, host, bounds

LEMMA SOFType ==
    ASSUME TypeOK, IsrSOF
    PROVE  TypeOK'
  <1> DEFINE timeout == ecm_tx_busy # 0 /\ ecm_tx_busy + 1 > BusyLimit
             busy == IF ecm_tx_busy = 0 \/ timeout THEN 0 ELSE ecm_tx_busy + 1
  <1>1. busy \in 0 .. BusyLimit
    BY LimitAssumption DEF TypeOK
  <1>2. ecm_incoming_attempt(in_ep, pma, busy) /\ can_xmit' \in BOOLEAN
    BY DEF IsrSOF, USBD_ECM_SOF
  <1>3. ChunkType'
    <2> HIDE DEF busy
    <2>1. in_ep \in Endpoint /\ pma \in Seq(Byte) /\ Len(pma) <= MaxPacket
      BY DEF TypeOK
    <2> QED
      BY <1>1, <1>2, <2>1, AttemptType
  <1> QED
    BY <1>2, <1>3 DEF IsrSOF, RestOfInterrupt, ChunkType, TypeOK, thread, host, bounds

LEMMA ControlType ==
    ASSUME TypeOK, \/ IsrConfigure \/ IsrDeconfigure \/ IsrReset \/ IsrSetHalt
                   \/ IsrClearHalt \/ HostFetch
    PROVE  TypeOK'
  <1>1. in_ep' \in Endpoint
    <2>1. in_ep \in Endpoint /\ Lock \in BOOLEAN /\ TRUE \in BOOLEAN /\ 0 \in Nat
      BY DEF TypeOK
    <2>2. HAL_PCD_EP_Open(in_ep, TRUE, Lock) \in Endpoint
          /\ HAL_PCD_EP_Close(in_ep, Lock) \in Endpoint
          /\ HAL_PCD_EP_SetStall(in_ep, Lock) \in Endpoint
          /\ HAL_PCD_EP_ClrStall(in_ep, Lock) \in Endpoint
      BY <2>1, EndpointOps
    <2> QED
      BY <2>1, <2>2 DEF IsrConfigure, IsrDeconfigure, IsrReset, IsrSetHalt, IsrClearHalt,
                        HostFetch, Endpoint, Stat
  <1>2. CASE IsrConfigure
    <2>1. 0 \in 0 .. BusyLimit
      BY LimitAssumption
    <2>2. /\ ecm_tx_busy' \in 0 .. BusyLimit /\ ecm_tx_remaining' \in Nat
          /\ dev_state' \in {"ADDRESSED", "CONFIGURED"}
          /\ registered_pdev' \in BOOLEAN /\ can_xmit' \in BOOLEAN
      BY <1>2, <2>1 DEF IsrConfigure
    <2> QED
      BY <1>1, <1>2, <2>2 DEF IsrConfigure, TypeOK, thread, host, bounds
  <1> <<>> \in Seq(Byte)
    OBVIOUS
  <1>3. CASE IsrDeconfigure
    <2>1. deconfigs' \in Nat
      BY <1>3 DEF IsrDeconfigure, TypeOK
    <2> QED
      BY <1>1, <1>3, <2>1 DEF IsrDeconfigure, TypeOK, tx, thread, host, bounds
  <1>4. CASE IsrReset
    <2>1. resets' \in Nat
      BY <1>4 DEF IsrReset, TypeOK
    <2> QED
      BY <1>1, <1>4, <2>1 DEF IsrReset, RestOfInterrupt, TypeOK, tx, thread, host, bounds
  <1>5. CASE HostFetch
    <2>1. got' \in Seq(Byte) /\ taken' \in Nat
      <3>1. got \o pma \in Seq(Byte) /\ taken \in Nat
        BY DEF TypeOK
      <3>2. got' = <<>> \/ got' = got \o pma
        BY <1>5 DEF HostFetch
      <3>3. taken' = taken + 1 \/ taken' = taken
        BY <1>5 DEF HostFetch
      <3>4. got' \in Seq(Byte)
        <4> DEFINE both == got \o pma
        <4>1. both \in Seq(Byte) /\ (got' = <<>> \/ got' = both)
          BY <3>1, <3>2
        <4> HIDE DEF both
        <4> QED
          BY <4>1
      <3>5. taken' \in Nat
        BY <3>1, <3>3
      <3> QED
        BY <3>4, <3>5
    <2> QED
      BY <1>1, <1>5, <2>1 DEF HostFetch, TypeOK, tx, thread, host, bounds
  <1>6. CASE IsrSetHalt \/ IsrClearHalt
    <2>1. halts' \in Nat /\ UNCHANGED quiet
      BY <1>6 DEF IsrSetHalt, IsrClearHalt, TypeOK
    <2> QED
      BY <1>1, <2>1 DEF quiet, TypeOK, tx, thread, host
  <1> QED
    BY <1>2, <1>3, <1>4, <1>5, <1>6

LEMMA MainLoopType ==
    ASSUME TypeOK, MainLoop
    PROVE  TypeOK'
  <1>1. ASSUME NEW l \in FrameLens PROVE l \in Nat
    BY SizeAssumption
  <1>2. CASE LinkOutput
    <2>1. len' \in FrameLens /\ len' \in Nat /\ packet_size' = 0 /\ i' = 0
      BY <1>1, <1>2 DEF LinkOutput, Lens
    <2> QED
      BY <1>2, <2>1, LimitAssumption DEF LinkOutput, TypeOK, shared, tx, host, bounds
  <1>3. CASE PollCanXmit
    BY <1>3, LimitAssumption DEF PollCanXmit, TypeOK, shared, tx, host, bounds
  <1>4. CASE XmitCheck \/ RenewLock \/ RenewUnlock
    BY <1>4 DEF XmitCheck, RenewLock, RenewUnlock, TypeOK, shared, tx, host, bounds
  <1>5. CASE CopyPbuf
    <2>1. len \in Nat /\ packet_size \in Nat /\ packet_size <= len /\ next \in Nat
      BY <1>1 DEF TypeOK
    <2>2. PICK q_len \in 1 .. len - packet_size :
             /\ ecm_tx_buffer' = [c \in Cells |->
                                     IF c \in packet_size .. packet_size + q_len - 1
                                     THEN <<next, c + 1>> ELSE ecm_tx_buffer[c]]
             /\ packet_size' = packet_size + q_len
      BY <1>5 DEF CopyPbuf
    <2>3. packet_size' \in 0 .. len
      BY <2>1, <2>2
    <2>4. ASSUME NEW c \in Cells PROVE <<next, c + 1>> \in Byte /\ ecm_tx_buffer[c] \in Byte
      BY <2>1, SizeAssumption DEF TypeOK, Cells, Byte
    <2>5. ecm_tx_buffer' \in [Cells -> Byte]
      BY <2>2, <2>4
    <2> QED
      BY <1>5, <2>3, <2>5 DEF CopyPbuf, TypeOK, shared, tx, host, bounds
  <1>6. CASE XmitCommit
    <2>1. packet_size \in Nat /\ next' \in Nat \ {0}
      BY <1>1, <1>6 DEF TypeOK, XmitCommit
    <2> QED
      BY <1>6, <2>1 DEF XmitCommit, TypeOK, shared, host, bounds
  <1> QED
    BY <1>2, <1>3, <1>4, <1>5, <1>6 DEF MainLoop, LinkOutputRuns

\* Every variable of the transmit path keeps its type; in particular the busy counter
\* stays at most BusyLimit and a transmission never exceeds a packet.
THEOREM TransmitTypeCorrect == Spec => []TypeOK
  <1>1. Init => TypeOK
    <2> SUFFICES ASSUME Init PROVE TypeOK
      OBVIOUS
    <2>1. len \in FrameLens /\ len \in Nat
      BY SizeAssumption DEF Init
    <2>2. in_ep \in Endpoint /\ ecm_tx_buffer \in [Cells -> Byte]
      BY DEF Init, EndpointReset, Endpoint, Stat, Junk, Byte
    <2>3. pma \in Seq(Byte) /\ Len(pma) <= MaxPacket /\ got \in Seq(Byte)
      BY MaxPacketAssumption DEF Init
    <2>4. ecm_tx_busy \in 0 .. BusyLimit /\ i \in 0 .. XmitTries - 1 /\ packet_size \in 0 .. len
      BY <2>1, LimitAssumption DEF Init
    <2>5. /\ ecm_tx_ptr \in Nat /\ ecm_tx_remaining \in Nat /\ next \in Nat \ {0}
          /\ taken \in Nat /\ trouble \in Troubles /\ resets \in Nat /\ deconfigs \in Nat
          /\ halts \in Nat
      BY DEF Init
    <2>6. /\ dev_state \in {"ADDRESSED", "CONFIGURED"} /\ ctr \in {"no", "raised", "due"}
          /\ Lock \in BOOLEAN /\ registered_pdev \in BOOLEAN /\ can_xmit \in BOOLEAN
          /\ pc \in {"idle", "poll", "check", "copy", "renew"}
      BY DEF Init
    <2> QED
      BY <2>1, <2>2, <2>3, <2>4, <2>5, <2>6 DEF TypeOK
  <1>2. TypeOK /\ [Next]_vars => TypeOK'
    <2> SUFFICES ASSUME TypeOK, [Next]_vars PROVE TypeOK'
      OBVIOUS
    <2>1. CASE UNCHANGED vars
      BY <2>1 DEF vars, tx, thread, host, bounds, TypeOK
    <2> QED
      BY <2>1, MainLoopType, DataInType, SOFType, ControlType DEF Next, Isr
  <1> QED
    BY <1>1, <1>2, PTL DEF Spec

-----------------------------------------------------------------------------
(***************************************************************************)
(* The buffer protocol.  can_xmit is not enough: the main loop holds on to *)
(* a can_xmit it read before the interrupt changed it, so the invariant    *)
(* also speaks of the copying main loop.                                   *)
(***************************************************************************)
BufferFree == can_xmit => ecm_tx_remaining = 0

CopyFree == pc = "copy" => ecm_tx_remaining = 0

\* No completion is pending behind a packet that is offered during the copy.
CopyCalm == halts = 0 /\ pc = "copy" /\ in_ep.stat = "VALID" => ctr = "no"

FreeInv == BufferFree /\ CopyFree /\ CopyCalm

\* Nothing left to send stays so: only usb_ecm_xmit_packet adds to it.
LEMMA AttemptAddsNothing ==
    ASSUME NEW ep, NEW mem, NEW busy, ecm_incoming_attempt(ep, mem, busy)
    PROVE  ecm_tx_remaining = 0 => ecm_tx_remaining' = 0
  BY DEF ecm_incoming_attempt

LEMMA InterruptKeepsFree ==
    ASSUME BufferFree, CopyFree, Isr \/ HostFetch
    PROVE  BufferFree' /\ CopyFree'
  <1>1. ecm_tx_remaining = 0 => ecm_tx_remaining' = 0
    <2>1. CASE IsrDataIn
      BY <2>1, AttemptAddsNothing DEF IsrDataIn, USBD_ECM_DataIn, tx
    <2>2. CASE IsrSOF
      BY <2>2, AttemptAddsNothing DEF IsrSOF, USBD_ECM_SOF
    <2>3. CASE IsrConfigure \/ IsrDeconfigure \/ IsrReset \/ HostFetch
      BY <2>3 DEF IsrConfigure, IsrDeconfigure, IsrReset, HostFetch, tx
    <2>4. CASE IsrSetHalt \/ IsrClearHalt
      BY <2>4 DEF IsrSetHalt, IsrClearHalt, quiet, tx
    <2> QED
      BY <2>1, <2>2, <2>3, <2>4 DEF Isr
  <1>2. can_xmit' => can_xmit \/ ecm_tx_remaining = 0 \/ ecm_tx_remaining' = 0
    BY DEF Isr, IsrDataIn, USBD_ECM_DataIn, IsrSOF, USBD_ECM_SOF, IsrConfigure, IsrDeconfigure,
           IsrReset, IsrSetHalt, IsrClearHalt, quiet, HostFetch
  <1>3. UNCHANGED pc
    BY DEF Isr, IsrDataIn, IsrSOF, IsrConfigure, IsrDeconfigure, IsrReset, IsrSetHalt,
           IsrClearHalt, quiet, HostFetch, thread
  <1> QED
    BY <1>1, <1>2, <1>3 DEF BufferFree, CopyFree

\* With nothing to send, an attempt leaves endpoint and packet memory as they are given.
LEMMA AttemptOnEmpty ==
    ASSUME NEW ep, NEW mem, NEW busy, ecm_incoming_attempt(ep, mem, busy), ecm_tx_remaining = 0
    PROVE  in_ep' = ep /\ pma' = mem
  BY DEF ecm_incoming_attempt

\* What the interrupt does to the endpoint during the copy: only a completion that finds
\* length left makes it VALID.
LEMMA CopyStep ==
    ASSUME TypeOK, FreeInv, pc = "copy", halts' = 0, [Next]_vars, in_ep'.stat = "VALID"
    PROVE  \/ in_ep.stat = "VALID" /\ pma' = pma /\ (ctr = "no" => ctr' = "no")
           \/ ctr # "no" /\ ctr' = "no" /\ in_ep.xfer_len # 0
  <1>1. ecm_tx_remaining = 0 /\ in_ep \in Endpoint /\ halts \in Nat
    BY DEF FreeInv, CopyFree, TypeOK
  <1>2. CASE IsrDataIn
    <2> DEFINE count == Len(pma)
               mem == Bytes(in_ep.xfer_buff, count)
               ep == [in_ep EXCEPT !.xfer_count = count, !.xfer_buff = @ + count]
    <2>1. ctr # "no" /\ ctr' = "no" /\ halts' = halts
      BY <1>2 DEF IsrDataIn, bounds
    <2>2. in_ep.stat # "VALID"
      BY <2>1 DEF FreeInv, CopyCalm
    <2>3. ep.stat = in_ep.stat
      BY <1>1 DEF Endpoint
    <2>4. CASE in_ep.xfer_len = 0
      <3>1. in_ep' = ep
        BY <1>1, <1>2, <2>4, AttemptOnEmpty DEF IsrDataIn, USBD_ECM_DataIn
      <3> QED
        BY <2>2, <2>3, <3>1
    <2> QED
      BY <2>1, <2>4
  <1>3. CASE IsrSOF
    <2>1. in_ep' = in_ep /\ pma' = pma
      BY <1>1, <1>3, AttemptOnEmpty DEF IsrSOF, USBD_ECM_SOF
    <2> QED
      BY <1>3, <2>1 DEF IsrSOF, RestOfInterrupt
  <1>4. CASE IsrConfigure \/ IsrDeconfigure \/ IsrReset \/ HostFetch
    BY <1>1, <1>4 DEF IsrConfigure, IsrDeconfigure, IsrReset, HostFetch, HAL_PCD_EP_Open,
                      HAL_PCD_EP_Close, RestOfInterrupt, Endpoint
  <1>5. CASE IsrSetHalt \/ IsrClearHalt
    BY <1>1, <1>5 DEF IsrSetHalt, IsrClearHalt
  <1>6. CASE MainLoop \/ UNCHANGED vars
    BY <1>6 DEF vars, MainLoop, LinkOutputRuns, LinkOutput, PollCanXmit, XmitCheck, CopyPbuf,
                XmitCommit, RenewLock, RenewUnlock, shared
  <1> QED
    BY <1>2, <1>3, <1>4, <1>5, <1>6 DEF Next, Isr

LEMMA HaltsAdd ==
    ASSUME [Next]_vars
    PROVE  halts' = halts \/ halts' = halts + 1
  BY DEF Next, Isr, MainLoop, LinkOutputRuns, LinkOutput, PollCanXmit, XmitCheck, CopyPbuf,
         XmitCommit, RenewLock, RenewUnlock, IsrDataIn, IsrSOF, IsrConfigure, IsrDeconfigure,
         IsrReset, IsrSetHalt, IsrClearHalt, HostFetch, shared, bounds, vars

\* Without a cleared halt, no step of the copy offers a packet.
LEMMA CopyCalmStep ==
    ASSUME TypeOK, FreeInv, [Next]_vars
    PROVE  CopyCalm'
  <1> SUFFICES ASSUME halts' = 0, pc' = "copy", in_ep'.stat = "VALID"
               PROVE  ctr' = "no"
    BY DEF CopyCalm
  <1>1. CASE pc = "copy"
    <2>1. halts' = halts \/ halts' = halts + 1
      BY HaltsAdd
    <2>2. halts = 0
      BY <2>1 DEF TypeOK
    <2> QED
      BY <1>1, <2>2, CopyStep DEF FreeInv, CopyCalm
  <1>2. CASE pc # "copy"
    <2>1. MainLoop
      BY <1>2 DEF Next, Isr, IsrDataIn, IsrSOF, IsrConfigure, IsrDeconfigure, IsrReset,
                  IsrSetHalt, IsrClearHalt, HostFetch, quiet, thread, vars
    <2> QED
      BY <2>1 DEF MainLoop, Runs, LinkOutputRuns, LinkOutput, PollCanXmit, XmitCheck, CopyPbuf,
                  XmitCommit, RenewLock, RenewUnlock, shared
  <1> QED
    BY <1>1, <1>2

LEMMA TransmitFree == Spec => [](TypeOK /\ FreeInv)
  <1>1. Init => FreeInv
    BY DEF Init, FreeInv, BufferFree, CopyFree, CopyCalm
  <1>2. TypeOK /\ FreeInv /\ [Next]_vars => FreeInv'
    <2> SUFFICES ASSUME TypeOK, FreeInv, [Next]_vars
                 PROVE  BufferFree' /\ CopyFree'
      BY CopyCalmStep DEF FreeInv
    <2>1. CASE MainLoop
      BY <2>1 DEF MainLoop, LinkOutputRuns, LinkOutput, PollCanXmit, XmitCheck, CopyPbuf,
                  XmitCommit, RenewLock, RenewUnlock, tx, FreeInv, BufferFree, CopyFree
    <2>2. CASE Isr \/ HostFetch
      BY <2>2, InterruptKeepsFree DEF FreeInv
    <2>3. CASE UNCHANGED vars
      BY <2>3 DEF vars, tx, thread, FreeInv, BufferFree, CopyFree
    <2> QED
      BY <2>1, <2>2, <2>3 DEF Next
  <1> QED
    BY <1>1, <1>2, TransmitTypeCorrect, PTL DEF Spec
-----------------------------------------------------------------------------
(***************************************************************************)
(* The order of the bytes.  What the host has and what is armed lies       *)
(* behind the place ecm_incoming_attempt sends from next.                  *)
(***************************************************************************)

\* Where HostBytesAscend is stated: no halts, and refused calls only where no chunk can
\* be armed when they come.
OneTrouble == halts = 0 /\ Unredirected

Ascends(s) == \A m, n \in 1 .. Len(s) : m < n => Precedes(s[m], s[n])

\* A byte of an earlier frame, or of this one and before ecm_tx_ptr.
Behind(b) == b[1] < next /\ (ecm_tx_remaining > 0 => Precedes(b, <<next - 1, ecm_tx_ptr + 1>>))

\* What the host has, and then what is armed.
StreamInv ==
    /\ Ascends(got) /\ \A n \in 1 .. Len(got) : Behind(got[n])
    /\ in_ep.stat = "VALID" =>
          /\ Ascends(pma) /\ \A n \in 1 .. Len(pma) : Behind(pma[n])
          /\ \A m \in 1 .. Len(got), n \in 1 .. Len(pma) : Precedes(got[m], pma[n])

\* The part of ecm_tx_buffer that is still to be sent, and the part that is copied.
SendInv ==
    /\ ecm_tx_remaining > 0 => \A c \in ecm_tx_ptr .. ecm_tx_ptr + ecm_tx_remaining - 1 :
                                   c \in Cells /\ ecm_tx_buffer[c] = <<next - 1, c + 1>>
    /\ pc = "copy" => \A c \in 0 .. packet_size - 1 :
                         c \in Cells /\ ecm_tx_buffer[c] = <<next, c + 1>>
    /\ pc \in {"poll", "check"} => packet_size = 0

\* A completion finds a transfer of one packet, and in the packet memory what it will
\* write there again.
CompletionInv ==
    ctr # "no" => /\ in_ep.xfer_len = 0
                  /\ in_ep.stat = "VALID" => pma = Bytes(in_ep.xfer_buff, Len(pma))

\* Without renewals nothing is refused; with them no chunk is armed twice.
RefusalInv ==
    /\ "refusals" \notin trouble => ~Lock /\ in_ep.xfer_len = 0
    /\ "refusals" \in trouble =>
          /\ dev_state = "ADDRESSED" => ctr = "no" /\ in_ep.stat # "VALID"
          /\ ctr # "no" => in_ep.stat # "VALID" /\ ecm_tx_busy # 0
          /\ in_ep.open /\ in_ep.stat = "VALID" => in_ep.xfer_len = 0 /\ ecm_tx_busy # 0

AscendInv == StreamInv /\ SendInv /\ CompletionInv /\ RefusalInv

OAscendInv == OneTrouble => AscendInv

\* The next chunk is the next piece of the frame.
LEMMA NextChunk ==
    ASSUME TypeOK, SendInv, ecm_tx_remaining > 0,
           NEW k, k = AtMostPacket(ecm_tx_remaining)
    PROVE  /\ k \in 1 .. ecm_tx_remaining /\ k <= MaxPacket
           /\ Bytes(ecm_tx_ptr, k) \in Seq(Byte) /\ Len(Bytes(ecm_tx_ptr, k)) = k
           /\ \A n \in 1 .. k : Bytes(ecm_tx_ptr, k)[n] = <<next - 1, ecm_tx_ptr + n>>
  <1>1. k \in 1 .. ecm_tx_remaining /\ k <= MaxPacket
    BY MaxPacketAssumption DEF AtMostPacket, TypeOK
  <1>2. Bytes(ecm_tx_ptr, k) \in Seq(Byte) /\ Len(Bytes(ecm_tx_ptr, k)) = k
    BY <1>1, BytesType DEF TypeOK
  <1>3. ASSUME NEW n \in 1 .. k
        PROVE  Bytes(ecm_tx_ptr, k)[n] = <<next - 1, ecm_tx_ptr + n>>
    <2>1. /\ ecm_tx_ptr \in Nat /\ ecm_tx_remaining \in Nat
          /\ ecm_tx_ptr + n - 1 \in ecm_tx_ptr .. ecm_tx_ptr + ecm_tx_remaining - 1
          /\ (ecm_tx_ptr + n - 1) + 1 = ecm_tx_ptr + n
      BY <1>1 DEF TypeOK
    <2>2. /\ ecm_tx_ptr + n - 1 \in Cells
          /\ ecm_tx_buffer[ecm_tx_ptr + n - 1] = <<next - 1, ecm_tx_ptr + n>>
      BY <2>1 DEF SendInv
    <2> QED
      BY <2>2 DEF Bytes
  <1> QED
    BY <1>1, <1>2, <1>3

\* What is behind ecm_tx_ptr stays behind it when it moves on.
LEMMA BehindStays ==
    ASSUME TypeOK, NEW b \in Byte, Behind(b), UNCHANGED next,
           ecm_tx_remaining' \in Nat, ecm_tx_ptr' \in Nat,
           \/ ecm_tx_remaining' = 0
           \/ ecm_tx_remaining > 0 /\ ecm_tx_ptr' >= ecm_tx_ptr
    PROVE  Behind(b)'
  BY DEF Behind, Precedes, Byte, TypeOK

\* Sending a piece leaves the rest of the frame to be sent.
LEMMA RestOfFrame ==
    ASSUME TypeOK, SendInv, NEW k \in 1 .. ecm_tx_remaining,
           ecm_tx_ptr' = ecm_tx_ptr + k, ecm_tx_remaining' = ecm_tx_remaining - k,
           UNCHANGED <<next, ecm_tx_buffer, pc, packet_size>>
    PROVE  SendInv'
  <1>1. ecm_tx_ptr \in Nat /\ ecm_tx_remaining \in Nat /\ ecm_tx_remaining > 0
    BY DEF TypeOK
  <1>2. ASSUME NEW c \in ecm_tx_ptr' .. ecm_tx_ptr' + ecm_tx_remaining' - 1
        PROVE  c \in Cells /\ ecm_tx_buffer'[c] = <<next' - 1, c + 1>>
    <2>1. c \in ecm_tx_ptr .. ecm_tx_ptr + ecm_tx_remaining - 1
      BY <1>1
    <2> QED
      BY <1>1, <2>1 DEF SendInv
  <1> QED
    BY <1>2 DEF SendInv

\* An attempt keeps the order: it sends the next piece, or nothing, or it is refused and
\* a piece is lost.
LEMMA AttemptInOrder ==
    ASSUME TypeOK, StreamInv, SendInv, NEW ep \in Endpoint, NEW mem \in Seq(Byte),
           ep.stat = in_ep.stat, ep.stat = "VALID" => mem = pma,
           NEW busy, ecm_incoming_attempt(ep, mem, busy),
           UNCHANGED <<next, got, ecm_tx_buffer, pc, packet_size>>
    PROVE  StreamInv' /\ SendInv'
  <1> DEFINE k == AtMostPacket(ecm_tx_remaining)
             chunk == Bytes(ecm_tx_ptr, k)
  <1>0. /\ ecm_tx_ptr \in Nat /\ ecm_tx_remaining \in Nat /\ next \in Nat
        /\ got \in Seq(Byte) /\ pma \in Seq(Byte)
        /\ \A n \in 1 .. Len(got) : got[n] \in Byte
        /\ \A n \in 1 .. Len(pma) : pma[n] \in Byte
    BY DEF TypeOK
  <1>1. CASE ecm_tx_remaining = 0 \/ busy # 0
    <2>1. in_ep'.stat = in_ep.stat /\ pma' = mem /\ UNCHANGED <<ecm_tx_ptr, ecm_tx_remaining>>
      BY <1>1 DEF ecm_incoming_attempt
    <2>2. \A b : Behind(b)' <=> Behind(b)
      BY <2>1 DEF Behind
    <2>3. StreamInv'
      BY <2>1, <2>2 DEF StreamInv, Ascends
    <2> QED
      BY <2>1, <2>3 DEF SendInv
  <1>2. CASE ecm_tx_remaining # 0 /\ busy = 0
    <2>1. /\ Transmit(ep, mem, ecm_tx_ptr, k)
          /\ ecm_tx_ptr' = ecm_tx_ptr + k
          /\ ecm_tx_remaining' = ecm_tx_remaining - k
      BY <1>2 DEF ecm_incoming_attempt
    <2>2. /\ k \in 1 .. ecm_tx_remaining /\ k <= MaxPacket
          /\ chunk \in Seq(Byte) /\ Len(chunk) = k
          /\ \A n \in 1 .. k : chunk[n] = <<next - 1, ecm_tx_ptr + n>>
      BY <1>0, <1>2, NextChunk
    <2>3. AtMostPacket(k) = k
      BY <2>2, MaxPacketAssumption DEF AtMostPacket
    <2>4. CASE Lock
      <3>1. in_ep'.stat = in_ep.stat /\ pma' = mem
        BY <2>1, <2>4 DEF Transmit, HAL_PCD_EP_Transmit, XferUnlessLocked, XferSetup, Endpoint
      <3> QED
        <4> HIDE DEF k, chunk
        <4>1. \A b \in Byte : Behind(b) => Behind(b)'
          BY <1>0, <1>2, <2>1, <2>2, BehindStays
        <4>2. StreamInv'
          BY <1>0, <3>1, <4>1 DEF StreamInv, Ascends
        <4>3. SendInv'
          BY <2>1, <2>2, RestOfFrame
        <4> QED
          BY <4>2, <4>3
    <2>5. CASE ~Lock
      <3>1. in_ep'.stat = "VALID" /\ pma' = chunk
        BY <2>1, <2>3, <2>5 DEF Transmit, HAL_PCD_EP_Transmit, XferUnlessLocked, XferSetup, XferArm,
                          Endpoint
      <3> HIDE DEF k, chunk
      <3>2. \A b \in Byte : Behind(b) => Behind(b)'
        BY <1>0, <1>2, <2>1, <2>2, BehindStays
      <3>3. \A n \in 1 .. k : pma'[n] = <<next - 1, ecm_tx_ptr + n>>
        BY <2>2, <3>1
      <3>4. Ascends(pma)'
        BY <1>0, <2>2, <3>1, <3>3 DEF Ascends, Precedes
      <3>5. \A n \in 1 .. k : Behind(pma[n])'
        BY <1>0, <2>1, <2>2, <3>3 DEF Behind, Precedes
      <3>6. \A m \in 1 .. Len(got), n \in 1 .. k : Precedes(got[m], pma'[n])
        <4> SUFFICES ASSUME NEW m \in 1 .. Len(got), NEW n \in 1 .. k
                     PROVE  Precedes(got[m], pma'[n])
          OBVIOUS
        <4>1. Behind(got[m]) /\ got[m] \in Byte
          BY <1>0 DEF StreamInv
        <4>2. pma'[n] = <<next - 1, ecm_tx_ptr + n>> /\ n \in Nat /\ n >= 1
          BY <2>2, <3>3
        <4> QED
          BY <1>0, <1>2, <4>1, <4>2, SMTT(30) DEF Behind, Precedes, Byte
      <3>7. StreamInv'
        BY <1>0, <2>2, <3>1, <3>2, <3>4, <3>5, <3>6 DEF StreamInv, Ascends
      <3>8. SendInv'
        BY <2>1, <2>2, RestOfFrame
      <3> QED
        BY <3>7, <3>8
    <2> QED
      BY <2>4, <2>5
  <1> QED
    BY <1>1, <1>2

\* The three ways an attempt may end.
LEMMA AttemptEnds ==
    ASSUME TypeOK, NEW ep \in Endpoint, NEW mem, NEW busy,
           ecm_incoming_attempt(ep, mem, busy)
    PROVE  /\ in_ep'.open = ep.open
           /\ \/ /\ ecm_tx_remaining = 0 \/ busy # 0
                 /\ in_ep' = ep /\ pma' = mem /\ ecm_tx_busy' = busy
              \/ /\ busy = 0 /\ Lock
                 /\ in_ep'.stat = ep.stat /\ ecm_tx_busy' = 1
              \/ /\ busy = 0 /\ ~Lock
                 /\ in_ep'.stat = "VALID" /\ in_ep'.xfer_len = 0 /\ ecm_tx_busy' = 1
                 /\ in_ep'.xfer_buff = ecm_tx_ptr
                 /\ pma' = Bytes(ecm_tx_ptr, Len(pma'))
  <1> DEFINE k == AtMostPacket(ecm_tx_remaining)
  <1>1. CASE ecm_tx_remaining = 0 \/ busy # 0
    BY <1>1 DEF ecm_incoming_attempt
  <1>2. CASE ecm_tx_remaining # 0 /\ busy = 0
    <2>1. Transmit(ep, mem, ecm_tx_ptr, k) /\ ecm_tx_busy' = 1
      BY <1>2 DEF ecm_incoming_attempt
    <2>2. k \in Nat /\ k <= MaxPacket /\ AtMostPacket(k) = k /\ XferRemaining(k) = 0
      BY MaxPacketAssumption DEF AtMostPacket, XferRemaining, TypeOK
    <2>3. Len(Bytes(ecm_tx_ptr, k)) = k
      BY <2>2, BytesType DEF TypeOK
    <2> HIDE DEF k
    <2> QED
      BY <1>2, <2>1, <2>2, <2>3
      DEF Transmit, HAL_PCD_EP_Transmit, XferUnlessLocked, XferSetup, XferArm, Endpoint
  <1> QED
    BY <1>1, <1>2

\* A piece of the buffer is the same as long as the buffer is.
LEMMA SameBytes ==
    ASSUME UNCHANGED ecm_tx_buffer, NEW at, NEW count
    PROVE  Bytes(at, count)' = Bytes(at, count)
  BY DEF Bytes

\* The completion of a chunk (USBD_ECM_DataIn).
LEMMA DataInAscends ==
    ASSUME TypeOK, AscendInv, IsrDataIn
    PROVE  AscendInv'
  <1> DEFINE count == Len(pma)
             mem == Bytes(in_ep.xfer_buff, count)
             ep == [in_ep EXCEPT !.xfer_count = count, !.xfer_buff = @ + count]
  <1>1. count \in Nat /\ in_ep.xfer_buff \in Nat /\ in_ep \in Endpoint
    BY DEF TypeOK, Endpoint
  <1>2. mem \in Seq(Byte)
    BY <1>1, BytesType
  <1>3. /\ ep \in Endpoint /\ ep.stat = in_ep.stat /\ ep.open = in_ep.open
        /\ ep.xfer_len = in_ep.xfer_len
    <2>1. in_ep.xfer_buff + count \in Nat
      BY <1>1
    <2> HIDE DEF count
    <2> QED
      BY <1>1, <2>1 DEF Endpoint
  <1>4. /\ ctr # "no" /\ ctr' = "no" /\ in_ep.xfer_len = 0
        /\ in_ep.stat = "VALID" => mem = pma
    BY DEF IsrDataIn, AscendInv, CompletionInv
  <1>5. UNCHANGED <<dev_state, Lock, ecm_tx_buffer, pc, packet_size, next, got, trouble>>
    BY DEF IsrDataIn, thread, host, bounds
  <1>6. CompletionInv'
    BY <1>4 DEF CompletionInv
  <1>7. CASE USBD_ECM_DataIn(ep, mem) /\ dev_state = "CONFIGURED"
    <2>1. ecm_incoming_attempt(ep, mem, 0)
      BY <1>7 DEF USBD_ECM_DataIn
    <2> HIDE DEF ep, mem
    <2>2. StreamInv' /\ SendInv'
      BY <1>2, <1>3, <1>4, <1>5, <2>1, AttemptInOrder DEF AscendInv
    <2>3. RefusalInv'
      BY <1>3, <1>4, <1>5, <1>7, <2>1, AttemptEnds DEF AscendInv, RefusalInv
    <2> QED
      BY <1>6, <2>2, <2>3 DEF AscendInv
  <1>8. CASE dev_state # "CONFIGURED" /\ in_ep' = ep /\ pma' = mem /\ UNCHANGED tx
    <2>1. dev_state = "ADDRESSED"
      BY <1>8 DEF TypeOK
    <2> HIDE DEF ep, mem
    <2>2. \A b : Behind(b)' <=> Behind(b)
      BY <1>5, <1>8 DEF Behind, tx
    <2>3. StreamInv'
      BY <1>3, <1>4, <1>5, <1>8, <2>2 DEF AscendInv, StreamInv, Ascends
    <2>4. SendInv'
      BY <1>5, <1>8 DEF AscendInv, SendInv, tx
    <2>5. RefusalInv'
      BY <1>3, <1>4, <1>5, <1>8, <2>1 DEF AscendInv, RefusalInv
    <2> QED
      BY <1>6, <2>3, <2>4, <2>5 DEF AscendInv
  <1> QED
    BY <1>4, <1>7, <1>8 DEF IsrDataIn

\* A start of frame: the timeout strikes an armed chunk only where nothing is refused.
LEMMA SOFAscends ==
    ASSUME TypeOK, OneTrouble, AscendInv, IsrSOF
    PROVE  AscendInv'
  <1> DEFINE timeout == ecm_tx_busy # 0 /\ ecm_tx_busy + 1 > BusyLimit
             busy == IF ecm_tx_busy = 0 \/ timeout THEN 0 ELSE ecm_tx_busy + 1
  <1>1. ecm_incoming_attempt(in_ep, pma, busy) /\ in_ep \in Endpoint /\ pma \in Seq(Byte)
    BY DEF IsrSOF, USBD_ECM_SOF, TypeOK
  <1>2. UNCHANGED <<dev_state, Lock, ecm_tx_buffer, pc, packet_size, next, got, trouble>>
    BY DEF IsrSOF, thread, host, bounds
  <1>3. ctr' # "no" => ctr # "no"
    BY DEF IsrSOF, RestOfInterrupt
  <1>4. \/ "refusals" \notin trouble
        \/ (in_ep.open /\ in_ep.stat = "VALID") \/ ctr # "no" => busy # 0
    <2> SUFFICES ASSUME "refusals" \in trouble,
                        (in_ep.open /\ in_ep.stat = "VALID") \/ ctr # "no"
                 PROVE  busy # 0
      OBVIOUS
    <2>1. ecm_tx_busy < BusyLimit /\ ecm_tx_busy # 0
      BY DEF OneTrouble, Unredirected, IsrSOF, AscendInv, RefusalInv
    <2> QED
      BY <2>1, LimitAssumption DEF TypeOK
  <1>5. dev_state = "CONFIGURED"
    BY DEF IsrSOF
  <1> HIDE DEF busy
  <1>6. StreamInv' /\ SendInv'
    BY <1>1, <1>2, AttemptInOrder DEF AscendInv
  <1>7. RefusalInv'
    BY <1>1, <1>2, <1>3, <1>4, <1>5, AttemptEnds DEF AscendInv, RefusalInv
  <1>8. CompletionInv'
    <2> SUFFICES ASSUME ctr' # "no"
                 PROVE  /\ in_ep'.xfer_len = 0
                        /\ in_ep'.stat = "VALID" =>
                              pma' = Bytes(in_ep'.xfer_buff, Len(pma'))
      BY <1>2, SameBytes DEF CompletionInv
    <2>1. ctr # "no" /\ in_ep.xfer_len = 0
      BY <1>3 DEF AscendInv, CompletionInv
    <2>2. CASE in_ep' = in_ep /\ pma' = pma
      BY <2>1, <2>2 DEF AscendInv, CompletionInv
    <2>3. CASE busy = 0
      <3>1. ~Lock
        BY <1>4, <2>1, <2>3 DEF AscendInv, RefusalInv
      <3> QED
        BY <1>1, <2>1, <2>2, <2>3, <3>1, AttemptEnds
    <2> QED
      BY <1>1, <2>2, <2>3, AttemptEnds
  <1> QED
    BY <1>6, <1>7, <1>8 DEF AscendInv

\* What the host fetches joins what it has, and stays behind what is sent next.
LEMMA FetchAscends ==
    ASSUME TypeOK, AscendInv, HostFetch
    PROVE  AscendInv'
  <1>1. /\ in_ep.open /\ in_ep.stat = "VALID" /\ in_ep \in Endpoint
        /\ in_ep' = [in_ep EXCEPT !.stat = "NAK"]
        /\ UNCHANGED <<dev_state, Lock, pma, ecm_tx_buffer, ecm_tx_ptr, ecm_tx_remaining,
                       ecm_tx_busy, pc, packet_size, next, trouble>>
    BY DEF HostFetch, tx, thread, bounds, TypeOK
  <1>2. /\ in_ep'.stat = "NAK" /\ in_ep'.xfer_len = in_ep.xfer_len /\ in_ep'.open = in_ep.open
    BY <1>1 DEF Endpoint
  <1>3. \A b : Behind(b)' <=> Behind(b)
    BY <1>1 DEF Behind
  <1>4. Ascends(got)' /\ \A n \in 1 .. Len(got') : Behind(got[n])'
    <2>1. CASE got' = <<>>
      BY <2>1 DEF Ascends
    <2>2. CASE got' = got \o pma
      <3>1. got \in Seq(Byte) /\ pma \in Seq(Byte)
        BY DEF TypeOK
      <3>2. /\ Len(got) \in Nat /\ Len(pma) \in Nat /\ Len(got') = Len(got) + Len(pma)
            /\ \A n \in 1 .. Len(got') : got'[n] = IF n <= Len(got) THEN got[n]
                                                   ELSE pma[n - Len(got)]
        BY <2>2, <3>1
      <3>3. /\ Ascends(got) /\ Ascends(pma)
            /\ \A n \in 1 .. Len(got) : Behind(got[n])
            /\ \A n \in 1 .. Len(pma) : Behind(pma[n])
            /\ \A m \in 1 .. Len(got), n \in 1 .. Len(pma) : Precedes(got[m], pma[n])
        BY <1>1 DEF AscendInv, StreamInv
      <3>4. ASSUME NEW n \in 1 .. Len(got') PROVE Behind(got[n])'
        <4>1. Behind(got'[n])
          BY <3>2, <3>3
        <4> QED
          BY <1>1, <4>1 DEF Behind
      <3>5. ASSUME NEW m \in 1 .. Len(got'), NEW n \in 1 .. Len(got'), m < n
            PROVE  Precedes(got'[m], got'[n])
        <4>1. CASE n <= Len(got)
          BY <3>2, <3>3, <3>5, <4>1 DEF Ascends
        <4>2. CASE m > Len(got)
          <5>1. /\ m - Len(got) \in 1 .. Len(pma) /\ n - Len(got) \in 1 .. Len(pma)
                /\ m - Len(got) < n - Len(got)
            BY <3>2, <3>5, <4>2
          <5>2. got'[m] = pma[m - Len(got)] /\ got'[n] = pma[n - Len(got)]
            BY <3>2, <3>5, <4>2
          <5> QED
            BY <3>3, <5>1, <5>2 DEF Ascends
        <4>3. CASE m <= Len(got) /\ n > Len(got)
          BY <3>2, <3>3, <4>3, SMTT(30)
        <4> QED
          BY <3>2, <4>1, <4>2, <4>3
      <3> QED
        BY <3>4, <3>5 DEF Ascends
    <2> QED
      BY <2>1, <2>2 DEF HostFetch
  <1>5. StreamInv'
    BY <1>2, <1>4 DEF StreamInv
  <1>6. SendInv'
    BY <1>1 DEF AscendInv, SendInv
  <1>7. in_ep.xfer_len = 0 /\ ("refusals" \in trouble => ecm_tx_busy # 0)
    BY <1>1 DEF AscendInv, RefusalInv
  <1>8. CompletionInv' /\ RefusalInv'
    BY <1>1, <1>2, <1>7 DEF HostFetch, AscendInv, CompletionInv, RefusalInv
  <1> QED
    BY <1>5, <1>6, <1>8 DEF AscendInv

\* Configurations and resets disarm the endpoint or find it disarmed.
LEMMA ControlAscends ==
    ASSUME TypeOK, OneTrouble', AscendInv,
           IsrConfigure \/ IsrDeconfigure \/ IsrReset \/ IsrSetHalt \/ IsrClearHalt
    PROVE  AscendInv'
  <1>0. in_ep \in Endpoint /\ resets \in Nat /\ deconfigs \in Nat /\ halts \in Nat
    BY DEF TypeOK
  <1>1. CASE IsrConfigure
    <2>1. /\ ecm_tx_remaining' = 0 /\ dev_state = "ADDRESSED" /\ dev_state' = "CONFIGURED"
          /\ in_ep' = HAL_PCD_EP_Open(in_ep, TRUE, Lock)
          /\ UNCHANGED <<Lock, pma, ctr, ecm_tx_buffer, ecm_tx_ptr, pc, packet_size, next, got,
                         trouble>>
      BY <1>1 DEF IsrConfigure, thread, host, bounds
    <2>2. in_ep'.xfer_len = in_ep.xfer_len /\ (in_ep'.stat = "NAK" \/ (Lock /\ in_ep' = in_ep))
      BY <1>0, <2>1 DEF HAL_PCD_EP_Open, Endpoint
    <2>3. in_ep'.stat # "VALID"
      BY <2>1, <2>2 DEF AscendInv, RefusalInv
    <2>4. \A b : Behind(b) => Behind(b)'
      BY <2>1 DEF Behind
    <2>5. StreamInv'
      BY <2>1, <2>3, <2>4 DEF AscendInv, StreamInv, Ascends
    <2>6. SendInv'
      BY <2>1 DEF AscendInv, SendInv
    <2>7. CompletionInv' /\ RefusalInv'
      BY <2>1, <2>2, <2>3 DEF AscendInv, CompletionInv, RefusalInv
    <2> QED
      BY <2>5, <2>6, <2>7 DEF AscendInv
  <1>2. CASE IsrDeconfigure \/ IsrReset
    <2>1. resets' # 0 \/ deconfigs' # 0
      BY <1>0, <1>2 DEF IsrDeconfigure, IsrReset
    <2>2. "refusals" \notin trouble /\ trouble' = trouble
      BY <1>2, <2>1 DEF OneTrouble, Unredirected, IsrDeconfigure, IsrReset
    <2>3. ~Lock /\ in_ep.xfer_len = 0
      BY <2>2 DEF AscendInv, RefusalInv
    <2>4. in_ep'.stat = "DIS" /\ in_ep'.xfer_len = 0
      BY <1>0, <1>2, <2>3 DEF IsrDeconfigure, IsrReset, HAL_PCD_EP_Close, Endpoint
    <2>5. got' = <<>> /\ UNCHANGED <<Lock, ecm_tx_buffer, ecm_tx_ptr, ecm_tx_remaining, pc,
                                     packet_size, next>>
      BY <1>2 DEF IsrDeconfigure, IsrReset, tx, thread
    <2>6. StreamInv'
      BY <2>4, <2>5 DEF StreamInv, Ascends
    <2>7. SendInv'
      BY <2>5 DEF AscendInv, SendInv
    <2>8. CompletionInv' /\ RefusalInv'
      BY <2>2, <2>3, <2>4, <2>5 DEF CompletionInv, RefusalInv
    <2> QED
      BY <2>6, <2>7, <2>8 DEF AscendInv
  <1>3. CASE IsrSetHalt \/ IsrClearHalt
    BY <1>0, <1>3 DEF IsrSetHalt, IsrClearHalt, OneTrouble, Unredirected
  <1> QED
    BY <1>1, <1>2, <1>3

\* The main loop runs with no completion pending, and copies only what it sends later.
LEMMA MainLoopAscends ==
    ASSUME TypeOK, CopyFree, AscendInv, MainLoop
    PROVE  AscendInv'
  <1>1. ctr = "no" /\ UNCHANGED <<ctr, dev_state, in_ep, pma, got, trouble, ecm_tx_busy>>
    BY DEF MainLoop, Runs, LinkOutputRuns, LinkOutput, PollCanXmit, XmitCheck, CopyPbuf,
           XmitCommit, RenewLock, RenewUnlock, shared, host, bounds, tx
  <1>2. CompletionInv'
    BY <1>1 DEF CompletionInv
  <1>3. "refusals" \notin trouble => ~Lock'
    BY DEF AscendInv, RefusalInv, MainLoop, LinkOutputRuns, LinkOutput, PollCanXmit, XmitCheck,
           CopyPbuf, XmitCommit, RenewLock, RenewUnlock
  <1>4. RefusalInv'
    BY <1>1, <1>3 DEF AscendInv, RefusalInv
  <1>5. \A b \in Byte : Behind(b) => Behind(b)'
    <2>1. CASE XmitCommit
      BY <2>1 DEF XmitCommit, Behind, Precedes, Byte, TypeOK
    <2>2. CASE UNCHANGED <<next, tx>>
      BY <2>2 DEF Behind, tx
    <2> QED
      BY <2>1, <2>2 DEF MainLoop, LinkOutputRuns, LinkOutput, PollCanXmit, XmitCheck, CopyPbuf,
                        RenewLock, RenewUnlock
  <1>6. StreamInv'
    <2>1. /\ \A n \in 1 .. Len(got) : got[n] \in Byte
          /\ \A n \in 1 .. Len(pma) : pma[n] \in Byte
      BY DEF TypeOK
    <2> QED
      BY <1>1, <1>5, <2>1 DEF AscendInv, StreamInv, Ascends
  <1>7. SendInv'
    <2>0. len \in Nat /\ len <= ECM_MAX_SEGMENT_SIZE /\ packet_size \in 0 .. len
          /\ next \in Nat /\ ECM_MAX_SEGMENT_SIZE \in Nat
      BY SizeAssumption DEF TypeOK
    <2>1. CASE LinkOutput \/ PollCanXmit \/ RenewLock \/ RenewUnlock
      BY <2>1 DEF AscendInv, SendInv, LinkOutput, PollCanXmit, RenewLock, RenewUnlock, tx
    <2>2. CASE XmitCheck
      BY <2>2, <2>0 DEF AscendInv, SendInv, XmitCheck, tx
    <2>3. CASE CopyPbuf
      <3>1. PICK q_len \in 1 .. len - packet_size :
               /\ ecm_tx_buffer' = [c \in Cells |->
                                       IF c \in packet_size .. packet_size + q_len - 1
                                       THEN <<next, c + 1>> ELSE ecm_tx_buffer[c]]
               /\ packet_size' = packet_size + q_len
        BY <2>3 DEF CopyPbuf
      <3>2. ecm_tx_remaining' = 0 /\ pc = "copy" /\ pc' = "copy" /\ next' = next
        BY <2>3 DEF CopyPbuf, CopyFree, tx
      <3>3. ASSUME NEW c \in 0 .. packet_size' - 1
            PROVE  c \in Cells /\ ecm_tx_buffer'[c] = <<next', c + 1>>
        BY <2>0, <3>1, <3>2 DEF AscendInv, SendInv, Cells
      <3> QED
        BY <3>2, <3>3 DEF SendInv
    <2>4. CASE XmitCommit
      <3>1. /\ pc = "copy" /\ pc' = "idle" /\ ecm_tx_ptr' = 0 /\ ecm_tx_remaining' = packet_size
            /\ next' - 1 = next /\ ecm_tx_buffer' = ecm_tx_buffer
        BY <2>0, <2>4 DEF XmitCommit
      <3>2. \A c \in 0 .. packet_size - 1 : c \in Cells /\ ecm_tx_buffer[c] = <<next, c + 1>>
        BY <3>1 DEF AscendInv, SendInv
      <3> QED
        BY <2>0, <3>1, <3>2 DEF SendInv
    <2> QED
      BY <2>1, <2>2, <2>3, <2>4 DEF MainLoop, LinkOutputRuns
  <1> QED
    BY <1>2, <1>4, <1>6, <1>7 DEF AscendInv

LEMMA TroubleKept == [Next]_vars => trouble' = trouble
  BY DEF Next, MainLoop, LinkOutputRuns, LinkOutput, PollCanXmit, XmitCheck, CopyPbuf,
         XmitCommit, RenewLock, RenewUnlock, shared, bounds, Isr, IsrDataIn, IsrSOF,
         IsrConfigure, IsrDeconfigure, IsrReset, IsrSetHalt, IsrClearHalt, quiet, HostFetch,
         vars

LEMMA OAscendInvInit == Init => OAscendInv
  BY DEF Init, OAscendInv, AscendInv, StreamInv, Ascends, SendInv, CompletionInv, RefusalInv,
         EndpointReset

LEMMA OAscendInvNext ==
    TypeOK /\ FreeInv /\ OAscendInv /\ [Next]_vars => OAscendInv'
  <1> SUFFICES ASSUME TypeOK, FreeInv, OAscendInv, [Next]_vars, OneTrouble'
               PROVE  AscendInv'
    BY DEF OAscendInv
  <1>1. OneTrouble
    <2>1. trouble' = trouble
      BY TroubleKept
    <2>2. /\ resets' = resets \/ resets' = resets + 1
          /\ deconfigs' = deconfigs \/ deconfigs' = deconfigs + 1
          /\ halts' = halts \/ halts' = halts + 1
      BY DEF Next, MainLoop, LinkOutputRuns, LinkOutput, PollCanXmit, XmitCheck, CopyPbuf,
             XmitCommit, RenewLock, RenewUnlock, shared, bounds, Isr, IsrDataIn, IsrSOF,
             IsrConfigure, IsrDeconfigure, IsrReset, IsrSetHalt, IsrClearHalt, quiet, HostFetch,
             vars
    <2> QED
      BY <2>1, <2>2 DEF OneTrouble, Unredirected, SlowHost, TypeOK
  <1>2. AscendInv
    BY <1>1 DEF OAscendInv
  <1>3. CASE UNCHANGED vars
    <2>1. UNCHANGED <<dev_state, Lock, in_ep, pma, ctr, ecm_tx_buffer, ecm_tx_ptr,
                      ecm_tx_remaining, ecm_tx_busy, pc, packet_size, next, got, trouble>>
      BY <1>3 DEF vars, tx, thread, host, bounds
    <2>2. \A b : Behind(b)' <=> Behind(b)
      BY <2>1 DEF Behind
    <2>3. \A n, m : Bytes(n, m)' = Bytes(n, m)
      BY <2>1 DEF Bytes
    <2>4. StreamInv' /\ SendInv'
      BY <1>2, <2>1, <2>2 DEF AscendInv, StreamInv, Ascends, SendInv
    <2>5. CompletionInv' /\ RefusalInv'
      BY <1>2, <2>1, <2>3 DEF AscendInv, CompletionInv, RefusalInv
    <2> QED
      BY <2>4, <2>5 DEF AscendInv
  <1> QED
    BY <1>1, <1>2, <1>3, MainLoopAscends, DataInAscends, SOFAscends, ControlAscends, FetchAscends
    DEF Next, Isr, FreeInv

\* The host never gets a byte of a frame twice, out of order or after one of a younger
\* frame: whatever chunks the timeout of USBD_ECM_SOF gives up, whenever the host resets
\* or reconfigures the device, and whichever calls the HAL lock refuses a prompt host.
THEOREM TransmitHostBytesAscend == Spec => []HostBytesAscend
  <1>1. TypeOK /\ OAscendInv => HostBytesAscend
    <2> SUFFICES ASSUME TypeOK, OneTrouble, AscendInv,
                        NEW n \in 1 .. Len(got \o Armed) - 1
                 PROVE  Precedes((got \o Armed)[n], (got \o Armed)[n + 1])
      BY DEF HostBytesAscend, OAscendInv, OneTrouble, Unredirected
    <2>1. got \in Seq(Byte) /\ Armed \in Seq(Byte)
      BY DEF TypeOK, Armed
    <2>2. /\ Len(got) \in Nat /\ Len(Armed) \in Nat /\ Len(got \o Armed) = Len(got) + Len(Armed)
          /\ \A m \in 1 .. Len(got \o Armed) :
                (got \o Armed)[m] = IF m <= Len(got) THEN got[m] ELSE Armed[m - Len(got)]
      BY <2>1
    <2>3. /\ Ascends(got) /\ Ascends(Armed)
          /\ \A l \in 1 .. Len(got), m \in 1 .. Len(Armed) : Precedes(got[l], Armed[m])
      BY DEF AscendInv, StreamInv, Armed, Ascends
    <2> HIDE DEF Armed
    <2> QED
      BY <2>2, <2>3 DEF Ascends
  <1> QED
    BY <1>1, OAscendInvInit, OAscendInvNext, TransmitFree, PTL
    DEF Spec

\* While usb_ecm_xmit_packet copies, nothing the host, the HAL lock, the timeout, resets
\* and new configurations do offers the host a packet or changes the one it is offered,
\* where no refused call has redirected the endpoint into the buffer.
THEOREM TransmitCopyUndisturbed == Spec => CopyUndisturbed
  <1> DEFINE Undisturbed ==
               pc = "copy" /\ halts' = 0 /\ (Unredirected \/ in_ep.xfer_len = 0)
                 => (in_ep'.stat = "VALID" => in_ep.stat = "VALID" /\ pma' = pma)
  <1>1. TypeOK /\ FreeInv /\ OAscendInv /\ [Next]_vars => Undisturbed
    <2> SUFFICES ASSUME TypeOK, FreeInv, OAscendInv, [Next]_vars, pc = "copy", halts' = 0,
                        Unredirected \/ in_ep.xfer_len = 0, in_ep'.stat = "VALID"
                 PROVE  in_ep.stat = "VALID" /\ pma' = pma
      OBVIOUS
    <2>1. halts = 0
      <3>1. halts' = halts \/ halts' = halts + 1
        BY HaltsAdd
      <3> QED
        BY <3>1 DEF TypeOK
    <2>2. ctr # "no" => in_ep.xfer_len = 0
      BY <2>1 DEF OAscendInv, OneTrouble, AscendInv, CompletionInv
    <2> QED
      BY <2>2, CopyStep
  <1>2. TypeOK /\ FreeInv /\ OAscendInv /\ [Next]_vars => [Undisturbed]_vars
    BY <1>1
  <1> QED
    BY <1>2, OAscendInvInit, OAscendInvNext, TransmitFree, PTL DEF Spec, CopyUndisturbed
-----------------------------------------------------------------------------
(***************************************************************************)
(* The refinement.  In calm, the frame is in one of four places: it waits  *)
(* for the first start of frame, a chunk is offered, a chunk is fetched,   *)
(* or there is none on its way.                                            *)
(***************************************************************************)

\* Whole chunks lie before offset at.
ChunkBoundary(at) == \E k \in Nat : at = k * MaxPacket

Idle == /\ ctr = "no" /\ in_ep.stat # "VALID" /\ ecm_tx_remaining = 0 /\ ecm_tx_busy = 0
        /\ got = <<>> /\ taken = next - 1

Waiting == /\ ctr = "no" /\ in_ep.stat # "VALID" /\ ecm_tx_ptr = 0 /\ ecm_tx_busy = 0
           /\ got = <<>> /\ taken = next - 2

Offered == /\ ctr = "no" /\ in_ep.stat = "VALID" /\ ecm_tx_busy # 0
           /\ Len(pma) = MaxPacket \/ ecm_tx_remaining = 0
           /\ \E at \in Nat : /\ ecm_tx_ptr = at + Len(pma) /\ ChunkBoundary(at)
                              /\ got = Mailbox!Frame(next - 1, at)
                              /\ \A n \in 1 .. Len(pma) : pma[n] = <<next - 1, at + n>>
           /\ taken = next - 2

Fetched == /\ ctr # "no" /\ in_ep.stat # "VALID" /\ ecm_tx_busy # 0
           /\ \/ ecm_tx_remaining = 0 /\ got = <<>> /\ taken = next - 1
              \/ /\ ecm_tx_remaining # 0 /\ ChunkBoundary(ecm_tx_ptr)
                 /\ got = Mailbox!Frame(next - 1, ecm_tx_ptr) /\ taken = next - 2

CalmInv ==
    /\ ~Lock /\ halts = 0 /\ in_ep.xfer_len = 0
    /\ pc \in {"poll", "check", "copy"} => len \in Lens
    /\ pc \in {"check", "copy"} => can_xmit
    /\ can_xmit => dev_state = "CONFIGURED"
    /\ dev_state = "CONFIGURED" => in_ep.open
    /\ can_xmit \/ dev_state = "ADDRESSED" => Idle
    /\ ~can_xmit /\ dev_state = "CONFIGURED" =>
          /\ ecm_tx_ptr + ecm_tx_remaining \in Lens
          /\ Waiting \/ Offered \/ Fetched

CInv == Calm => CalmInv

\* The length of the frame on its way, 0 when the host has it all.
OnWay == IF taken = next - 1 THEN 0 ELSE ecm_tx_ptr + ecm_tx_remaining

LEMMA CalmSends == Calm /\ CalmInv /\ OAscendInv => AscendInv
  BY DEF Calm, CalmInv, OAscendInv, OneTrouble, Unredirected

\* Lengths in calm are not multiples of MaxPacket.
LEMMA LensInCalm ==
    ASSUME Calm, NEW l \in Lens
    PROVE  l \in Nat /\ l > 0 /\ ~ChunkBoundary(l) /\ l \in FrameLens
  <1>1. l \in Nat /\ l > 0 /\ l % MaxPacket # 0
    BY SizeAssumption DEF Lens, Calm
  <1>2. \A k \in Nat : (k * MaxPacket) % MaxPacket = 0
    BY MaxPacketAssumption
  <1> QED
    BY <1>1, <1>2 DEF ChunkBoundary, Lens

LEMMA Boundaries ==
    /\ ChunkBoundary(0)
    /\ \A at \in Nat : ChunkBoundary(at) => ChunkBoundary(at + MaxPacket)
  <1>1. 0 = 0 * MaxPacket
    BY MaxPacketAssumption
  <1>2. \A k \in Nat : k * MaxPacket + MaxPacket = (k + 1) * MaxPacket /\ k + 1 \in Nat
    BY MaxPacketAssumption
  <1> QED
    BY <1>1, <1>2 DEF ChunkBoundary

\* A frame followed by its next piece is a longer frame.
LEMMA JoinFrame ==
    ASSUME NEW f \in Nat, NEW a \in Nat, NEW s \in Seq(Byte),
           \A n \in 1 .. Len(s) : s[n] = <<f, a + n>>
    PROVE  Mailbox!Frame(f, a) \o s = Mailbox!Frame(f, a + Len(s))
  <1> DEFINE first == Mailbox!Frame(f, a)
             both == first \o s
             frame == Mailbox!Frame(f, a + Len(s))
  <1>1. first \in [1 .. a -> Byte]
    BY DEF Mailbox!Frame, Byte
  <1>2. first \in Seq(Byte) /\ Len(first) = a
    BY <1>1
  <1>3. \A n \in 1 .. a : first[n] = <<f, n>>
    BY DEF Mailbox!Frame
  <1>4. DOMAIN frame = 1 .. a + Len(s) /\ \A n \in 1 .. a + Len(s) : frame[n] = <<f, n>>
    BY DEF Mailbox!Frame
  <1>5. frame \in [1 .. a + Len(s) -> Byte]
    <2>1. \A n \in 1 .. a + Len(s) : <<f, n>> \in Byte
      BY DEF Byte
    <2> QED
      BY <2>1 DEF Mailbox!Frame
  <1>6. frame \in Seq(Byte) /\ Len(frame) = a + Len(s)
    <2>1. a + Len(s) \in Nat
      OBVIOUS
    <2> HIDE DEF frame
    <2> QED
      BY <1>5, <2>1
  <1> HIDE DEF first, frame
  <1>7. /\ both \in Seq(Byte) /\ Len(both) = a + Len(s)
        /\ \A n \in 1 .. a + Len(s) : both[n] = IF n <= a THEN first[n] ELSE s[n - a]
    BY <1>2
  <1> HIDE DEF both
  <1>8. ASSUME NEW n \in 1 .. a + Len(s) PROVE both[n] = frame[n]
    <2>1. n \in Nat /\ Len(s) \in Nat
      OBVIOUS
    <2>2. CASE n <= a
      <3>1. n \in 1 .. a
        BY <2>1, <2>2
      <3>2. both[n] = first[n] /\ first[n] = <<f, n>>
        BY <1>3, <1>7, <2>2, <3>1
      <3> QED
        BY <1>4, <3>2
    <2>3. CASE n > a
      <3>1. n - a \in 1 .. Len(s) /\ a + (n - a) = n
        BY <2>1, <2>3
      <3>2. both[n] = s[n - a]
        BY <1>7, <2>1, <2>3
      <3> QED
        BY <1>4, <3>1, <3>2
    <2> QED
      BY <2>1, <2>2, <2>3
  <1>9. both = frame
    BY <1>6, <1>7, <1>8
  <1> QED
    BY <1>9 DEF both, first, frame

\* The mapping: InFlight is what is on its way.
LEMMA InFlightIsFrame ==
    ASSUME Calm, TypeOK, CalmInv, SendInv
    PROVE  InFlight = Mailbox!Frame(next - 1, OnWay)
  <1> DEFINE rest == Bytes(ecm_tx_ptr, ecm_tx_remaining)
             f == next - 1
  <1>0. /\ f \in Nat /\ ecm_tx_ptr \in Nat /\ ecm_tx_remaining \in Nat /\ taken \in Nat
        /\ got \in Seq(Byte) /\ pma \in Seq(Byte) /\ Len(pma) \in Nat /\ next \in Nat
    BY DEF TypeOK
  <1>1. rest \in Seq(Byte) /\ Len(rest) = ecm_tx_remaining
    BY <1>0, BytesType
  <1>2. ASSUME NEW n \in 1 .. Len(rest) PROVE rest[n] = <<f, ecm_tx_ptr + n>>
    <2>1. /\ ecm_tx_ptr + n - 1 \in ecm_tx_ptr .. ecm_tx_ptr + ecm_tx_remaining - 1
          /\ (ecm_tx_ptr + n - 1) + 1 = ecm_tx_ptr + n /\ ecm_tx_remaining > 0
      BY <1>0, <1>1
    <2>2. /\ ecm_tx_ptr + n - 1 \in Cells
          /\ ecm_tx_buffer[ecm_tx_ptr + n - 1] = <<f, ecm_tx_ptr + n>>
      BY <2>1 DEF SendInv
    <2> QED
      BY <1>1, <2>2 DEF Bytes
  <1>3. /\ Mailbox!Frame(f, 0) = <<>>
        /\ ecm_tx_remaining = 0 => rest = <<>>
    BY <1>1 DEF Mailbox!Frame
  <1>4. InFlight = got \o Armed \o rest
    BY DEF InFlight
  <1> HIDE DEF rest, f
  <1>5. Mailbox!Frame(f, ecm_tx_ptr) \o rest = Mailbox!Frame(f, ecm_tx_ptr + ecm_tx_remaining)
    BY <1>0, <1>1, <1>2, JoinFrame
  <1>6. CASE Idle
    BY <1>3, <1>4, <1>6 DEF Idle, OnWay, Armed, f
  <1>7. CASE Waiting /\ ~(can_xmit \/ dev_state = "ADDRESSED")
    <2>1. got \o Armed \o rest = rest /\ ecm_tx_ptr = 0
      BY <1>1, <1>7 DEF Waiting, Armed
    <2>2. Mailbox!Frame(f, 0) \o rest = rest
      BY <1>1, <1>3
    <2>3. OnWay = ecm_tx_ptr + ecm_tx_remaining
      BY <1>0, <1>7 DEF Waiting, OnWay
    <2> QED
      BY <1>4, <1>5, <2>1, <2>2, <2>3 DEF f
  <1>8. CASE Offered
    <2>1. PICK at \in Nat : /\ ecm_tx_ptr = at + Len(pma)
                            /\ got = Mailbox!Frame(f, at)
                            /\ \A n \in 1 .. Len(pma) : pma[n] = <<f, at + n>>
      BY <1>8 DEF Offered, f
    <2>2. got \o pma = Mailbox!Frame(f, ecm_tx_ptr)
      <3>1. f \in Nat /\ pma \in Seq(Byte)
        BY <1>0
      <3>2. Mailbox!Frame(f, at) \o pma = Mailbox!Frame(f, at + Len(pma))
        BY <2>1, <3>1, JoinFrame, ZenonT(30)
      <3> QED
        BY <2>1, <3>2, Zenon
    <2>3. Armed = pma /\ OnWay = ecm_tx_ptr + ecm_tx_remaining
      BY <1>0, <1>8 DEF Offered, Armed, OnWay
    <2> QED
      BY <1>4, <1>5, <2>2, <2>3 DEF f
  <1>9. CASE Fetched
    <2>1. Armed = <<>> /\ got \o <<>> = got
      BY <1>0, <1>9 DEF Fetched, Armed
    <2>2. CASE taken = next - 1
      BY <1>0, <1>3, <1>4, <1>9, <2>1, <2>2 DEF Fetched, OnWay, f
    <2>3. CASE taken # next - 1
      <3>1. got = Mailbox!Frame(f, ecm_tx_ptr) /\ OnWay = ecm_tx_ptr + ecm_tx_remaining
        BY <1>9, <2>3 DEF Fetched, OnWay, f
      <3> QED
        BY <1>4, <1>5, <2>1, <3>1 DEF f
    <2> QED
      BY <2>2, <2>3
  <1> QED
    BY <1>6, <1>7, <1>8, <1>9 DEF CalmInv, TypeOK

\* ecm_incoming_attempt offers the chunk after the ones the host has.
LEMMA AttemptOffers ==
    ASSUME Calm, TypeOK, SendInv, ~Lock, NEW ep \in Endpoint, NEW mem,
           ecm_incoming_attempt(ep, mem, 0), ecm_tx_remaining # 0,
           ChunkBoundary(ecm_tx_ptr), got = Mailbox!Frame(next - 1, ecm_tx_ptr),
           taken = next - 2, ctr' = "no", UNCHANGED <<next, got, taken>>
    PROVE  /\ Offered' /\ in_ep'.open = ep.open /\ in_ep'.xfer_len = 0
           /\ ecm_tx_ptr' + ecm_tx_remaining' = ecm_tx_ptr + ecm_tx_remaining
  <1> DEFINE k == AtMostPacket(ecm_tx_remaining)
             chunk == Bytes(ecm_tx_ptr, k)
  <1>1. ecm_tx_ptr \in Nat /\ ecm_tx_remaining \in Nat /\ next \in Nat
    BY DEF TypeOK
  <1>2. /\ Transmit(ep, mem, ecm_tx_ptr, k) /\ ecm_tx_busy' = 1
        /\ ecm_tx_ptr' = ecm_tx_ptr + k
        /\ ecm_tx_remaining' = ecm_tx_remaining - k
    BY DEF ecm_incoming_attempt
  <1>3. /\ k \in 1 .. ecm_tx_remaining /\ k <= MaxPacket
        /\ chunk \in Seq(Byte) /\ Len(chunk) = k
        /\ \A n \in 1 .. k : chunk[n] = <<next - 1, ecm_tx_ptr + n>>
    BY <1>1, NextChunk
  <1>4. AtMostPacket(k) = k /\ XferRemaining(k) = 0 /\ (k = MaxPacket \/ k = ecm_tx_remaining)
    BY <1>1, <1>3, MaxPacketAssumption DEF AtMostPacket, XferRemaining
  <1>5. pma' = chunk /\ in_ep'.stat = "VALID" /\ in_ep'.open = ep.open /\ in_ep'.xfer_len = 0
    BY <1>2, <1>4
    DEF Transmit, HAL_PCD_EP_Transmit, XferUnlessLocked, XferSetup, XferArm, Endpoint
  <1> HIDE DEF k, chunk
  <1>6. Len(pma') = MaxPacket \/ ecm_tx_remaining' = 0
    BY <1>1, <1>2, <1>3, <1>4, <1>5
  <1>7. /\ ecm_tx_ptr' = ecm_tx_ptr + Len(pma')
        /\ \A n \in 1 .. Len(pma') : pma'[n] = <<next' - 1, ecm_tx_ptr + n>>
    BY <1>2, <1>3, <1>5
  <1>8. /\ got' = Mailbox!Frame(next' - 1, ecm_tx_ptr) /\ taken' = next' - 2
    OBVIOUS
  <1>9. \E at \in Nat : /\ ecm_tx_ptr' = at + Len(pma') /\ ChunkBoundary(at)
                        /\ got' = Mailbox!Frame(next' - 1, at)
                        /\ \A n \in 1 .. Len(pma') : pma'[n] = <<next' - 1, at + n>>
    BY <1>1, <1>7, <1>8
  <1>10. Offered'
    BY <1>2, <1>5, <1>6, <1>8, <1>9 DEF Offered, ChunkBoundary
  <1> QED
    BY <1>1, <1>2, <1>3, <1>5, <1>10

\* Steps of the interrupt leave the main loop alone.
LEMMA LensKept == UNCHANGED trouble => Lens' = Lens
  BY DEF Lens

\* A completion: the next chunk, or the path is ready for another frame.
LEMMA CalmDataIn ==
    ASSUME Calm, TypeOK, SendInv, CalmInv, IsrDataIn
    PROVE  CalmInv' /\ UNCHANGED <<next, taken, OnWay>>
  <1> DEFINE count == Len(pma)
             mem == Bytes(in_ep.xfer_buff, count)
             ep == [in_ep EXCEPT !.xfer_count = count, !.xfer_buff = @ + count]
  <1>1. /\ ctr # "no" /\ ctr' = "no" /\ in_ep.xfer_len = 0 /\ ~Lock
        /\ UNCHANGED <<dev_state, Lock, pc, len, next, got, taken, trouble, halts>>
    BY DEF IsrDataIn, CalmInv, thread, host, bounds
  <1>2. ~can_xmit /\ dev_state = "CONFIGURED" /\ in_ep.open
    BY <1>1 DEF CalmInv, Idle, TypeOK
  <1>3. Fetched /\ ecm_tx_ptr + ecm_tx_remaining \in Lens
    BY <1>1, <1>2 DEF CalmInv, Waiting, Offered
  <1>4. /\ ep \in Endpoint /\ ep.open = in_ep.open /\ ep.stat = in_ep.stat
        /\ ep.xfer_len = in_ep.xfer_len
    <2>1. count \in Nat /\ in_ep.xfer_buff + count \in Nat /\ in_ep \in Endpoint
      BY DEF TypeOK, Endpoint
    <2> HIDE DEF count
    <2> QED
      BY <2>1 DEF Endpoint
  <1>5. /\ can_xmit' = (can_xmit \/ ecm_tx_remaining = 0)
        /\ ecm_incoming_attempt(ep, mem, 0)
    BY <1>1, <1>2 DEF IsrDataIn, USBD_ECM_DataIn
  <1>6. Lens' = Lens
    BY <1>1, LensKept
  <1> HIDE DEF ep, mem
  <1>7. CASE ecm_tx_remaining = 0
    <2>1. /\ can_xmit' /\ in_ep' = ep /\ ecm_tx_busy' = 0
          /\ UNCHANGED <<ecm_tx_ptr, ecm_tx_remaining>>
      BY <1>5, <1>7 DEF ecm_incoming_attempt
    <2>2. Idle'
      BY <1>1, <1>3, <1>4, <1>7, <2>1 DEF Fetched, Idle
    <2> QED
      BY <1>1, <1>2, <1>4, <1>6, <2>1, <2>2 DEF CalmInv, OnWay
  <1>8. CASE ecm_tx_remaining # 0
    <2>1. /\ Offered' /\ in_ep'.open = ep.open /\ in_ep'.xfer_len = 0
          /\ ecm_tx_ptr' + ecm_tx_remaining' = ecm_tx_ptr + ecm_tx_remaining
      BY <1>1, <1>3, <1>4, <1>5, <1>8, AttemptOffers DEF Fetched
    <2> QED
      BY <1>1, <1>2, <1>3, <1>4, <1>5, <1>6, <1>8, <2>1 DEF CalmInv, OnWay
  <1> QED
    BY <1>7, <1>8

\* A start of frame: the first chunk is offered, or the host is on time.
LEMMA CalmSOF ==
    ASSUME Calm, TypeOK, SendInv, CalmInv, IsrSOF
    PROVE  CalmInv' /\ UNCHANGED <<next, taken, OnWay>>
  <1> DEFINE timeout == ecm_tx_busy # 0 /\ ecm_tx_busy + 1 > BusyLimit
             busy == IF ecm_tx_busy = 0 \/ timeout THEN 0 ELSE ecm_tx_busy + 1
  <1>1. /\ dev_state = "CONFIGURED" /\ ~Lock /\ in_ep.open /\ in_ep.xfer_len = 0
        /\ UNCHANGED <<dev_state, Lock, pc, len, next, got, taken, trouble, halts>>
        /\ ctr' = "no" <=> ctr = "no"
        /\ in_ep \in Endpoint
    BY DEF IsrSOF, RestOfInterrupt, CalmInv, thread, host, bounds, TypeOK
  <1>2. ecm_incoming_attempt(in_ep, pma, busy)
        /\ can_xmit' = (can_xmit \/ (timeout /\ ecm_tx_remaining = 0))
    BY DEF IsrSOF, USBD_ECM_SOF
  <1>3. ~timeout
    <2>1. ecm_tx_busy # 0 => in_ep.stat = "VALID" \/ ctr # "no"
      BY <1>1 DEF CalmInv, Idle, Waiting, Offered, Fetched
    <2>2. ecm_tx_busy # 0 => ecm_tx_busy < BusyLimit
      BY <1>1, <2>1 DEF IsrSOF, SlowHost, Calm
    <2> QED
      BY <2>2, LimitAssumption DEF TypeOK
  <1>4. can_xmit' = can_xmit /\ (busy = 0 <=> ecm_tx_busy = 0)
    BY <1>2, <1>3, LimitAssumption DEF TypeOK
  <1>5. Lens' = Lens
    BY <1>1, LensKept
  <1> HIDE DEF busy, timeout
  <1>6. CASE can_xmit
    <2>1. Idle
      BY <1>6 DEF CalmInv
    <2>2. in_ep' = in_ep /\ ecm_tx_busy' = 0 /\ UNCHANGED <<ecm_tx_ptr, ecm_tx_remaining>>
      BY <1>2, <1>4, <2>1 DEF Idle, ecm_incoming_attempt
    <2>3. Idle'
      BY <1>1, <2>1, <2>2 DEF Idle
    <2> QED
      BY <1>1, <1>4, <1>5, <1>6, <2>2, <2>3 DEF CalmInv, OnWay
  <1>7. CASE ~can_xmit /\ Waiting
    <2>1. ecm_tx_ptr + ecm_tx_remaining \in Lens
      BY <1>1, <1>7 DEF CalmInv
    <2>2. ecm_tx_remaining # 0 /\ ecm_tx_ptr = 0 /\ busy = 0 /\ got = <<>> /\ taken = next - 2
      BY <1>4, <1>7, <2>1, LensInCalm DEF Waiting
    <2>3. ChunkBoundary(ecm_tx_ptr) /\ got = Mailbox!Frame(next - 1, ecm_tx_ptr)
      BY <2>2, Boundaries DEF Mailbox!Frame
    <2>4. ctr' = "no"
      BY <1>1, <1>7 DEF Waiting
    <2>5. /\ Offered' /\ in_ep'.open /\ in_ep'.xfer_len = 0
          /\ ecm_tx_ptr' + ecm_tx_remaining' = ecm_tx_ptr + ecm_tx_remaining
      BY <1>1, <1>2, <2>2, <2>3, <2>4, AttemptOffers
    <2> QED
      BY <1>1, <1>4, <1>5, <1>7, <2>1, <2>5 DEF CalmInv, OnWay
  <1>8. CASE ~can_xmit /\ (Offered \/ Fetched)
    <2>1. busy # 0
      BY <1>4, <1>8 DEF Offered, Fetched
    <2>2. /\ in_ep' = in_ep /\ pma' = pma /\ ecm_tx_busy' # 0
          /\ UNCHANGED <<ecm_tx_ptr, ecm_tx_remaining>>
      BY <1>2, <2>1 DEF ecm_incoming_attempt
    <2>3. Offered => Offered'
      BY <1>1, <2>2 DEF Offered, ChunkBoundary
    <2>4. Fetched => Fetched'
      BY <1>1, <2>2 DEF Fetched, ChunkBoundary
    <2> QED
      BY <1>1, <1>4, <1>5, <1>8, <2>2, <2>3, <2>4 DEF CalmInv, OnWay
  <1> QED
    BY <1>1, <1>6, <1>7, <1>8 DEF CalmInv

\* The host fetches a chunk: a short one is the last of its frame, a full one is not.
LEMMA CalmFetch ==
    ASSUME Calm, TypeOK, CalmInv, HostFetch
    PROVE  /\ CalmInv' /\ UNCHANGED next
           /\ \/ UNCHANGED <<taken, OnWay>>
              \/ OnWay # 0 /\ taken' = taken + 1 /\ OnWay' = 0
  <1>1. /\ dev_state = "CONFIGURED" /\ in_ep.open /\ in_ep.stat = "VALID" /\ in_ep \in Endpoint
        /\ in_ep' = [in_ep EXCEPT !.stat = "NAK"]
        /\ UNCHANGED <<dev_state, Lock, pma, can_xmit, ecm_tx_ptr, ecm_tx_remaining, ecm_tx_busy,
                       pc, len, next, trouble, halts>>
        /\ ctr' # "no"
    BY DEF HostFetch, tx, thread, bounds, TypeOK
  <1>2. in_ep'.stat = "NAK" /\ in_ep'.xfer_len = in_ep.xfer_len /\ in_ep'.open = in_ep.open
    BY <1>1 DEF Endpoint
  <1>3. ~can_xmit /\ Offered /\ ecm_tx_ptr + ecm_tx_remaining \in Lens
    BY <1>1 DEF CalmInv, Idle, Waiting, Fetched
  <1>4. /\ ecm_tx_ptr \in Nat /\ ecm_tx_remaining \in Nat /\ pma \in Seq(Byte) /\ Len(pma) \in Nat
        /\ next - 1 \in Nat /\ taken \in Nat /\ next \in Nat /\ Len(pma) <= MaxPacket
    BY DEF TypeOK
  <1>5. PICK at \in Nat : /\ ecm_tx_ptr = at + Len(pma) /\ ChunkBoundary(at)
                          /\ got = Mailbox!Frame(next - 1, at)
                          /\ \A n \in 1 .. Len(pma) : pma[n] = <<next - 1, at + n>>
    BY <1>3 DEF Offered
  <1>6. OnWay = ecm_tx_ptr + ecm_tx_remaining /\ OnWay # 0 /\ taken = next - 2
    BY <1>3, <1>4, LensInCalm DEF Offered, OnWay
  <1>7. Lens' = Lens
    BY <1>1, LensKept
  <1>8. CASE Len(pma) < MaxPacket
    <2>1. ecm_tx_remaining = 0 /\ got' = <<>> /\ taken' = taken + 1
      BY <1>3, <1>4, <1>8, MaxPacketAssumption DEF Offered, HostFetch
    <2>2. taken' = next' - 1
      BY <1>1, <1>4, <1>6, <2>1
    <2>3. Fetched'
      BY <1>1, <1>2, <1>3, <2>1, <2>2 DEF Fetched, Offered
    <2> QED
      BY <1>1, <1>2, <1>3, <1>6, <1>7, <2>1, <2>2, <2>3 DEF CalmInv, OnWay
  <1>9. CASE ~(Len(pma) < MaxPacket)
    <2>1. Len(pma) = MaxPacket /\ got' = got \o pma /\ taken' = taken
      BY <1>4, <1>9, MaxPacketAssumption DEF HostFetch
    <2>2. got' = Mailbox!Frame(next - 1, ecm_tx_ptr)
      BY <1>4, <1>5, <2>1, JoinFrame
    <2>3. ChunkBoundary(ecm_tx_ptr)
      BY <1>5, <2>1, Boundaries
    <2>4. ecm_tx_remaining # 0
      <3>1. ecm_tx_ptr + 0 = ecm_tx_ptr
        BY <1>4
      <3> QED
        BY <1>3, <2>3, <3>1, LensInCalm
    <2>5. Fetched'
      BY <1>1, <1>2, <1>3, <1>6, <2>1, <2>2, <2>3, <2>4 DEF Fetched, Offered, ChunkBoundary
    <2> QED
      BY <1>1, <1>2, <1>3, <1>7, <2>1, <2>5 DEF CalmInv, OnWay
  <1> QED
    BY <1>8, <1>9

\* SET_CONFIGURATION(1) in calm comes first of all.
LEMMA CalmConfigure ==
    ASSUME Calm, TypeOK, CalmInv, IsrConfigure
    PROVE  CalmInv' /\ UNCHANGED <<next, taken, OnWay>>
  <1>1. /\ Idle /\ ~Lock /\ in_ep \in Endpoint /\ dev_state' = "CONFIGURED" /\ can_xmit'
        /\ in_ep' = HAL_PCD_EP_Open(in_ep, TRUE, Lock) /\ ecm_tx_busy' = 0 /\ ecm_tx_remaining' = 0
        /\ UNCHANGED <<Lock, ctr, pc, len, next, got, taken, trouble, halts>>
    BY DEF IsrConfigure, CalmInv, TypeOK, thread, host, bounds
  <1>2. in_ep'.open /\ in_ep'.stat = "NAK" /\ in_ep'.xfer_len = in_ep.xfer_len
    BY <1>1 DEF HAL_PCD_EP_Open, Endpoint
  <1>3. Idle' /\ OnWay = 0 /\ OnWay' = 0
    BY <1>1, <1>2 DEF Idle, OnWay
  <1>4. Lens' = Lens
    BY <1>1, LensKept
  <1> QED
    BY <1>1, <1>2, <1>3, <1>4 DEF CalmInv

\* Only XmitCommit puts a frame on its way, and nothing was on its way before.
LEMMA CalmMainLoop ==
    ASSUME Calm, TypeOK, CalmInv, MainLoop
    PROVE  /\ CalmInv' /\ UNCHANGED taken
           /\ \/ UNCHANGED <<next, OnWay>>
              \/ OnWay = 0 /\ next' = next + 1 /\ OnWay' \in FrameLens
  <1>1. UNCHANGED <<dev_state, in_ep, pma, ctr, got, taken, trouble, halts>>
    BY DEF MainLoop, LinkOutputRuns, LinkOutput, PollCanXmit, XmitCheck, CopyPbuf, XmitCommit,
           RenewLock, RenewUnlock, shared, host, bounds
  <1>2. Lens' = Lens
    BY <1>1, LensKept
  <1>3. CASE XmitCommit
    <2>1. /\ can_xmit /\ Idle /\ dev_state = "CONFIGURED" /\ in_ep.open /\ len \in Lens
          /\ ~can_xmit' /\ ecm_tx_ptr' = 0 /\ ecm_tx_remaining' = len /\ next' = next + 1
          /\ pc' = "idle" /\ ecm_tx_busy' = ecm_tx_busy /\ Lock' = Lock
      BY <1>3 DEF XmitCommit, CalmInv
    <2>2. taken \in Nat /\ next \in Nat
      BY DEF TypeOK
    <2>3. Waiting' /\ taken' = next' - 2
      BY <1>1, <2>1, <2>2 DEF Idle, Waiting
    <2>4. ecm_tx_ptr' + ecm_tx_remaining' = len /\ len \in FrameLens
      BY <2>1, LensInCalm
    <2>5. OnWay = 0 /\ OnWay' = len
      BY <2>1, <2>2, <2>3, <2>4 DEF Idle, OnWay
    <2> QED
      BY <1>1, <1>2, <2>1, <2>3, <2>4, <2>5 DEF CalmInv
  <1>4. CASE UNCHANGED <<can_xmit, tx, next>>
    <2>1. UNCHANGED <<Idle, Waiting, Offered, Fetched, OnWay, ecm_tx_ptr, ecm_tx_remaining>>
      BY <1>1, <1>4 DEF Idle, Waiting, Offered, Fetched, OnWay, ChunkBoundary, tx
    <2>2. ~Lock' /\ (pc' \in {"check", "copy"} => can_xmit)
          /\ (pc' \in {"poll", "check", "copy"} => len' \in Lens)
      BY DEF Calm, CalmInv, MainLoop, LinkOutputRuns, LinkOutput, PollCanXmit, XmitCheck, CopyPbuf,
             XmitCommit, RenewLock, RenewUnlock
    <2> QED
      BY <1>1, <1>2, <1>4, <2>1, <2>2 DEF CalmInv
  <1> QED
    BY <1>3, <1>4 DEF MainLoop, LinkOutputRuns, LinkOutput, PollCanXmit, XmitCheck, CopyPbuf,
                      RenewLock, RenewUnlock

\* A calm step keeps the invariant, and puts, takes or leaves the frame on its way.
LEMMA CalmStep ==
    ASSUME Calm, TypeOK, CalmInv, OAscendInv, [Next]_vars
    PROVE  /\ CalmInv'
           /\ \/ UNCHANGED <<next, taken, OnWay>>
              \/ OnWay = 0 /\ next' = next + 1 /\ OnWay' \in FrameLens /\ UNCHANGED taken
              \/ OnWay # 0 /\ OnWay' = 0 /\ taken' = taken + 1 /\ UNCHANGED next
  <1>1. SendInv
    BY CalmSends DEF AscendInv
  <1>2. CASE IsrDataIn \/ IsrSOF \/ IsrConfigure
    BY <1>1, <1>2, CalmDataIn, CalmSOF, CalmConfigure
  <1>3. CASE IsrDeconfigure \/ IsrReset \/ IsrSetHalt \/ IsrClearHalt
    BY <1>3 DEF Calm, IsrDeconfigure, IsrReset, IsrSetHalt, IsrClearHalt
  <1>4. CASE HostFetch \/ MainLoop
    BY <1>4, CalmFetch, CalmMainLoop
  <1>5. CASE UNCHANGED vars
    <2>1. UNCHANGED <<dev_state, Lock, in_ep, pma, ctr, can_xmit, ecm_tx_ptr, ecm_tx_remaining,
                      ecm_tx_busy, pc, len, next, got, taken, trouble, halts>>
      BY <1>5 DEF vars, tx, thread, host, bounds
    <2>2. UNCHANGED <<Idle, Waiting, Offered, Fetched, OnWay, Lens>>
      BY <2>1 DEF Idle, Waiting, Offered, Fetched, OnWay, ChunkBoundary, Lens
    <2> QED
      BY <2>1, <2>2 DEF CalmInv
  <1> QED
    BY <1>2, <1>3, <1>4, <1>5 DEF Next, Isr

LEMMA CInvInit == Init => CInv
  BY DEF Init, CInv, CalmInv, Idle, EndpointReset

LEMMA CInvNext == TypeOK /\ OAscendInv /\ CInv /\ [Next]_vars => CInv'
  BY TroubleKept, CalmStep DEF CInv, Calm

\* What the mapping shows as the mailbox, and that it is the frame on its way.
Held == IF Calm /\ InFlight # <<>> THEN InFlight ELSE NULL

HeldIsOnWay == Calm => IF OnWay = 0 THEN Held = NULL
                       ELSE Held = Mailbox!Frame(next - 1, OnWay) /\ Held # NULL

LEMMA MappingSound == TypeOK /\ OAscendInv /\ CInv => HeldIsOnWay
  <1> SUFFICES ASSUME TypeOK, OAscendInv, CalmInv, Calm
               PROVE  IF OnWay = 0 THEN Held = NULL
                      ELSE Held = Mailbox!Frame(next - 1, OnWay) /\ Held # NULL
    BY DEF CInv, HeldIsOnWay
  <1>1. InFlight = Mailbox!Frame(next - 1, OnWay)
    BY CalmSends, InFlightIsFrame DEF AscendInv
  <1>2. OnWay \in Nat /\ next - 1 \in Nat
    BY DEF OnWay, TypeOK
  <1>3. CASE OnWay = 0
    BY <1>1, <1>3 DEF Mailbox!Frame, Held
  <1>4. CASE OnWay # 0
    <2>1. Mailbox!Frame(next - 1, OnWay) \in [1 .. OnWay -> Nat \X Nat]
      BY <1>2 DEF Mailbox!Frame
    <2>2. Mailbox!Frame(next - 1, OnWay) \in Seq(Nat \X Nat)
      BY <1>2, <2>1
    <2>3. DOMAIN Mailbox!Frame(next - 1, OnWay) # {} /\ DOMAIN <<>> = {}
      BY <1>2, <1>4 DEF Mailbox!Frame
    <2> QED
      BY <1>1, <1>4, <2>2, <2>3, NullAssumption DEF Held
  <1> QED
    BY <1>3, <1>4

\* What the refinement and the readiness of the path rest on.
LEMMA TransmitInvariant == Spec => [](TypeOK /\ OAscendInv /\ CInv /\ HeldIsOnWay)
  BY CInvInit, CInvNext, OAscendInvInit, OAscendInvNext, MappingSound, TransmitFree, PTL
  DEF Spec

\* With a prompt host and frames that are no multiple of MaxPacket, usb_ecm_can_xmit says
\* yes only when the host has seen the short chunk that ends the last frame.
THEOREM TransmitFrameEndSignified == Spec => []FrameEndSignified
  <1>1. CInv => FrameEndSignified
    BY DEF CInv, CalmInv, FrameEndSignified, Idle
  <1> QED
    BY <1>1, TransmitInvariant, PTL

LEMMA TransmitStepRefines ==
    TypeOK /\ OAscendInv /\ CInv /\ HeldIsOnWay /\ HeldIsOnWay' /\ [Next]_vars
       => [Mailbox!Next]_(Mailbox!vars)
  <1> SUFFICES ASSUME TypeOK, OAscendInv, CInv, HeldIsOnWay, HeldIsOnWay', [Next]_vars
               PROVE  [Mailbox!Next]_(Mailbox!vars)
    OBVIOUS
  <1>1. Calm' = Calm
    BY TroubleKept DEF Calm
  <1>2. CASE ~Calm
    BY <1>1, <1>2 DEF Mailbox!vars
  <1>3. CASE Calm
    <2>1. /\ OnWay = 0 => Held = NULL
          /\ OnWay # 0 => Held = Mailbox!Frame(next - 1, OnWay) /\ Held # NULL
      BY <1>3 DEF HeldIsOnWay
    <2>2. /\ OnWay' = 0 => Held' = NULL
          /\ OnWay' # 0 => Held' = Mailbox!Frame(next' - 1, OnWay')
      BY <1>1, <1>3 DEF HeldIsOnWay, Mailbox!Frame
    <2>3. CASE UNCHANGED <<next, taken, OnWay>>
      <3>1. Held' = Held
        BY <2>1, <2>2, <2>3
      <3> QED
        BY <1>1, <2>3, <3>1 DEF Mailbox!vars, Held
    <2>4. CASE OnWay = 0 /\ next' = next + 1 /\ OnWay' \in FrameLens /\ UNCHANGED taken
      <3>1. OnWay' # 0 /\ next' - 1 = next
        BY <2>4, SizeAssumption DEF TypeOK
      <3>2. Held = NULL /\ Held' = Mailbox!Frame(next, OnWay')
        BY <2>1, <2>2, <2>4, <3>1
      <3>3. Mailbox!Put
        BY <1>1, <1>3, <2>4, <3>2 DEF Mailbox!Put, Held
      <3> QED
        BY <3>3 DEF Mailbox!Next
    <2>5. CASE OnWay # 0 /\ OnWay' = 0 /\ taken' = taken + 1 /\ UNCHANGED next
      <3>1. Held # NULL /\ Held' = NULL
        BY <2>1, <2>2, <2>5
      <3>2. Mailbox!Take
        BY <1>1, <1>3, <2>5, <3>1 DEF Mailbox!Take, Held
      <3> QED
        BY <3>2 DEF Mailbox!Next
    <2>6. CalmInv
      BY <1>3 DEF CInv
    <2> QED
      BY <1>3, <2>3, <2>4, <2>5, <2>6, CalmStep
  <1> QED
    BY <1>2, <1>3

\* The transmit path, with its chunks, completions and starts of frame, implements the
\* one-frame mailbox: with a prompt host each frame of usb_ecm_xmit_packet reaches the
\* host whole, once and in order.
THEOREM TransmitImplementsMailbox == Spec => ImplementsMailbox
  <1>1. Init => Mailbox!Init
    <2> SUFFICES ASSUME Init PROVE Mailbox!Init
      OBVIOUS
    <2>1. InFlight = <<>>
      BY DEF Init, InFlight, Armed, EndpointReset, Bytes
    <2> QED
      BY <2>1 DEF Init, Mailbox!Init
  <1> QED
    BY <1>1, TransmitInvariant, TransmitStepRefines, PTL
    DEF Spec, ImplementsMailbox, Mailbox!Spec
=============================================================================
