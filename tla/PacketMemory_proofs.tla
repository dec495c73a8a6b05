-------------------------- MODULE PacketMemory_proofs --------------------------
(***************************************************************************)
(* The layout of the packet memory is sound wherever the two buffers at    *)
(* Ep0Address, of endpoint 0 and of ECM_DATA_IN_EP, are not used together: *)
(* for every number of endpoints and every packet size.                    *)
(***************************************************************************)
EXTENDS PacketMemory, TLAPS

\* Where USBD_LL_Init and USBD_ECM_PMAConfig put the buffers.
LEMMA Layout ==
    /\ MaxPacket \in Nat \ {0} /\ BtableEnd \in Nat /\ Ep0Address = MaxPacket
    /\ pmaadress("EP0_IN") = MaxPacket /\ pmaadress("EP0_OUT") = MaxPacket
    /\ pmaadress("ECM_DATA_IN_EP") = MaxPacket
    /\ pmaadress("ECM_DATA_OUT_EP") = 2 * MaxPacket
    /\ pmaadress("ECM_NOTIFICATION_IN_EP") = 3 * MaxPacket
  <1>1. MaxPacket \in Nat \ {0} /\ BtableEnd \in Nat
    BY SizeAssumption DEF BtableEnd
  <1> QED
    BY <1>1 DEF pmaadress, Ep0Address, USBD_ECM_PMAConfig

\* Every buffer lies in the packet memory and behind the first MaxPacket bytes.
LEMMA BufferInMemory ==
    ASSUME NEW e \in INEP \cup OUTEP
    PROVE  /\ pmaadress(e) \in Nat /\ pmaadress(e) >= MaxPacket
           /\ \A n \in 0 .. MaxPacket - 1 : pmaadress(e) + n \in Cells
  BY Layout DEF INEP, OUTEP, Cells

\* Two endpoints share their buffer, or their buffers do not touch.
LEMMA Apart ==
    ASSUME NEW e \in INEP \cup OUTEP, NEW f \in INEP \cup OUTEP, e # f,
           ~({e, f} \subseteq {"EP0_IN", "EP0_OUT", "ECM_DATA_IN_EP"})
    PROVE  pmaadress(e) + MaxPacket <= pmaadress(f) \/ pmaadress(f) + MaxPacket <= pmaadress(e)
  BY Layout DEF INEP, OUTEP

\* FirstPacket cuts a transfer to a packet.
LEMMA FirstPacketFits ==
    ASSUME NEW len \in Nat
    PROVE  FirstPacket(len) \in 0 .. MaxPacket
  BY Layout DEF FirstPacket

PacketRecord == [number : 0 .. 1, len : 0 .. MaxPacket]

\* What Write leaves: the packet in its buffer, all else as it was.
LEMMA WriteEffect ==
    ASSUME TypeOK, NEW e \in Active, NEW p \in PacketRecord
    PROVE  /\ Write(e, p) \in [Cells -> Byte]
           /\ \A n \in 0 .. p.len - 1 :
                 Write(e, p)[pmaadress(e) + n] = [of |-> e, number |-> p.number, at |-> n]
           /\ \A c \in Cells : c < pmaadress(e) \/ c >= pmaadress(e) + MaxPacket
                 => Write(e, p)[c] = mem[c]
  <1>1. e \in INEP \cup OUTEP /\ p.len \in 0 .. MaxPacket /\ p.number \in 0 .. 1
    BY ScenarioAssumption DEF TypeOK, PacketRecord
  <1>2. pmaadress(e) \in Nat /\ MaxPacket \in Nat
    BY <1>1, BufferInMemory, Layout
  <1>3. ASSUME NEW c \in Cells
        PROVE  (IF c \in pmaadress(e) .. pmaadress(e) + p.len - 1
                  THEN [of |-> e, number |-> p.number, at |-> c - pmaadress(e)]
                  ELSE mem[c]) \in Byte
    <2>1. c \in Int
      BY Layout DEF Cells
    <2>2. CASE c \in pmaadress(e) .. pmaadress(e) + p.len - 1
      <3>1. c - pmaadress(e) \in 0 .. MaxPacket - 1
        BY <1>1, <1>2, <2>1, <2>2
      <3>2. [of |-> e, number |-> p.number, at |-> c - pmaadress(e)] \in Byte
        BY <1>1, <3>1 DEF Byte
      <3> QED
        BY <2>2, <3>2
    <2>3. CASE c \notin pmaadress(e) .. pmaadress(e) + p.len - 1
      BY <2>3 DEF TypeOK
    <2> QED
      BY <2>2, <2>3
  <1>4. Write(e, p) \in [Cells -> Byte]
    BY <1>3 DEF Write
  <1>5. ASSUME NEW n \in 0 .. p.len - 1
        PROVE  Write(e, p)[pmaadress(e) + n] = [of |-> e, number |-> p.number, at |-> n]
    <2>1. /\ n \in 0 .. MaxPacket - 1
          /\ pmaadress(e) + n \in pmaadress(e) .. pmaadress(e) + p.len - 1
          /\ (pmaadress(e) + n) - pmaadress(e) = n
      BY <1>1, <1>2
    <2>2. pmaadress(e) + n \in Cells
      BY <1>1, <2>1, BufferInMemory
    <2> QED
      BY <2>1, <2>2 DEF Write
  <1>6. ASSUME NEW c \in Cells, c < pmaadress(e) \/ c >= pmaadress(e) + MaxPacket
        PROVE  Write(e, p)[c] = mem[c]
    <2>1. c \in Int
      BY Layout DEF Cells
    <2>2. c \notin pmaadress(e) .. pmaadress(e) + p.len - 1
      BY <1>1, <1>2, <1>6, <2>1
    <2> QED
      BY <2>2 DEF Write
  <1> QED
    BY <1>4, <1>5, <1>6

\* Every step that writes stores a packet of its endpoint in its buffer.
LEMMA StepWrites ==
    ASSUME TypeOK, NEW e \in Active,
           HAL_PCD_EP_Transmit(e) \/ IsrIn(e) \/ HostOut(e)
    PROVE  /\ \E p \in PacketRecord : /\ mem' = Write(e, p) \/ mem' = mem
                                      /\ packet' = [packet EXCEPT ![e] = p]
                                      /\ IsrIn(e) \/ mem' = Write(e, p)
           /\ UNCHANGED Active
  <1>1. packet[e] \in PacketRecord /\ packet[e].number \in 0 .. 1 /\ 1 - packet[e].number \in 0 .. 1
    BY DEF TypeOK, PacketRecord
  <1>2. CASE HAL_PCD_EP_Transmit(e)
    <2>1. PICK len \in 1 .. MaxPacket + 1 :
             LET p == [number |-> 1 - packet[e].number, len |-> FirstPacket(len)]
             IN  mem' = Write(e, p) /\ packet' = [packet EXCEPT ![e] = p]
      BY <1>2 DEF HAL_PCD_EP_Transmit
    <2>2. FirstPacket(len) \in 0 .. MaxPacket
      BY FirstPacketFits, Layout
    <2>3. [number |-> 1 - packet[e].number, len |-> FirstPacket(len)] \in PacketRecord
      BY <1>1, <2>2 DEF PacketRecord
    <2> QED
      BY <1>2, <2>1, <2>3 DEF HAL_PCD_EP_Transmit
  <1>3. CASE HostOut(e)
    <2>1. PICK len \in 1 .. MaxPacket :
             LET p == [number |-> 1 - packet[e].number, len |-> len]
             IN  mem' = Write(e, p) /\ packet' = [packet EXCEPT ![e] = p]
      BY <1>3 DEF HostOut
    <2>2. [number |-> 1 - packet[e].number, len |-> len] \in PacketRecord
      BY <1>1, Layout DEF PacketRecord
    <2> QED
      BY <1>3, <2>1, <2>2 DEF HostOut
  <1>4. CASE IsrIn(e)
    <2>1. packet' = [packet EXCEPT ![e] = packet[e]]
      BY <1>4 DEF IsrIn, TypeOK
    <2> QED
      BY <1>1, <1>4, <2>1 DEF IsrIn
  <1> QED
    BY <1>2, <1>3, <1>4

\* Every byte of the packet memory belongs to a packet of an endpoint in use or was
\* never written, and no packet is longer than its buffer: HAL_PCD_EP_Transmit cuts what
\* is longer.
THEOREM PacketMemoryType == Spec => []TypeOK
  <1>1. Init => TypeOK
    <2> SUFFICES ASSUME Init PROVE TypeOK
      OBVIOUS
    <2>1. Free \in Byte /\ [number |-> 0, len |-> 0] \in PacketRecord
      BY Layout DEF Free, Byte, PacketRecord
    <2> QED
      BY <2>1 DEF Init, TypeOK, PacketRecord
  <1>2. TypeOK /\ [Next]_vars => TypeOK'
    <2> SUFFICES ASSUME TypeOK, [Next]_vars PROVE TypeOK'
      OBVIOUS
    <2>1. CASE UNCHANGED vars
      BY <2>1 DEF vars, TypeOK, Byte
    <2>2. ASSUME NEW e \in Active, HAL_PCD_EP_Transmit(e) \/ IsrIn(e) \/ HostOut(e)
          PROVE  TypeOK'
      <3>1. PICK p \in PacketRecord : /\ mem' = Write(e, p) \/ mem' = mem
                                      /\ packet' = [packet EXCEPT ![e] = p]
        BY <2>2, StepWrites
      <3>2. Active' = Active /\ Byte' = Byte
        BY <2>2, StepWrites DEF Byte
      <3>3. mem' \in [Cells -> Byte]
        BY <3>1, WriteEffect DEF TypeOK
      <3>4. packet' \in [Active -> PacketRecord]
        BY <3>1 DEF TypeOK, PacketRecord
      <3>5. stat' \in [Active -> {"NAK", "VALID", "CTR"}]
        BY <2>2 DEF HAL_PCD_EP_Transmit, IsrIn, HostOut, TypeOK
      <3> QED
        BY <3>2, <3>3, <3>4, <3>5 DEF TypeOK, PacketRecord
    <2>3. ASSUME NEW e \in Active, HostIn(e) \/ IsrOut(e)
          PROVE  TypeOK'
      BY <2>3 DEF HostIn, IsrOut, TypeOK, Byte
    <2> QED
      BY <2>1, <2>2, <2>3 DEF Next
  <1> QED
    BY <1>1, <1>2, PTL DEF Spec
-----------------------------------------------------------------------------
(***************************************************************************)
(* The packets                                                             *)
(***************************************************************************)

\* Endpoint 0 and ECM_DATA_IN_EP, which have the same address, are not used together.
NotTogether == "ECM_DATA_IN_EP" \in Active => Active \cap {"EP0_IN", "EP0_OUT"} = {}

Stored(e) == \A n \in 0 .. packet[e].len - 1 :
                mem[pmaadress(e) + n] = [of |-> e, number |-> packet[e].number, at |-> n]

BtableFree == \A c \in 0 .. BtableEnd - 1 : mem[c] = Free

\* A step that writes into the buffer of e leaves the packets of the others alone: where
\* endpoint 0 shares its buffer with itself, the other direction is not waiting.
LEMMA WriteKeepsOthers ==
    ASSUME BtableEnd <= Ep0Address, TypeOK, NotTogether, PacketIntact,
           NEW e \in Active, HAL_PCD_EP_Transmit(e) \/ IsrIn(e) \/ HostOut(e),
           NEW f \in Active, f # e, Waiting(f)'
    PROVE  Stored(f)'
  <1>1. PICK p \in PacketRecord : /\ mem' = Write(e, p) \/ mem' = mem
                                  /\ packet' = [packet EXCEPT ![e] = p]
    BY StepWrites
  <1>2. e \in INEP \cup OUTEP /\ f \in INEP \cup OUTEP /\ INEP \cap OUTEP = {}
    BY ScenarioAssumption DEF TypeOK, INEP, OUTEP
  <1>3. Waiting(f) /\ packet'[f] = packet[f] /\ packet[f] \in PacketRecord
    BY <1>1 DEF HAL_PCD_EP_Transmit, IsrIn, HostOut, TypeOK, Waiting, PacketRecord
  <1>4. Stored(f)
    BY <1>3 DEF PacketIntact, Stored
  <1>5. CASE mem' = mem
    BY <1>3, <1>4, <1>5 DEF Stored
  <1>6. CASE mem' = Write(e, p) /\ mem' # mem
    <2>1. ~({e, f} \subseteq {"EP0_IN", "EP0_OUT", "ECM_DATA_IN_EP"})
      <3>1. CASE e = "EP0_IN" /\ f = "EP0_OUT"
        <4>1. HAL_PCD_EP_Transmit(e)
          BY <1>2, <1>6, <3>1 DEF IsrIn, HostOut, INEP, OUTEP
        <4> QED
          BY <1>3, <3>1, <4>1 DEF HAL_PCD_EP_Transmit, SetupPending, Waiting, INEP
      <3>2. CASE e = "EP0_OUT" /\ f = "EP0_IN"
        <4>1. HostOut(e)
          BY <1>2, <3>2 DEF IsrIn, HAL_PCD_EP_Transmit, INEP
        <4> QED
          BY <3>2, <4>1 DEF HostOut, Waiting, INEP
      <3>3. ~(e = "ECM_DATA_IN_EP" /\ f \in {"EP0_IN", "EP0_OUT"})
            /\ ~(f = "ECM_DATA_IN_EP" /\ e \in {"EP0_IN", "EP0_OUT"})
        BY DEF NotTogether
      <3> QED
        BY <3>1, <3>2, <3>3
    <2>2. pmaadress(e) + MaxPacket <= pmaadress(f) \/ pmaadress(f) + MaxPacket <= pmaadress(e)
      BY <1>2, <2>1, Apart
    <2>3. /\ pmaadress(e) \in Nat /\ pmaadress(f) \in Nat /\ MaxPacket \in Nat
          /\ \A n \in 0 .. MaxPacket - 1 : pmaadress(f) + n \in Cells
      BY <1>2, BufferInMemory, Layout
    <2>4. ASSUME NEW n \in 0 .. packet[f].len - 1
          PROVE  mem'[pmaadress(f) + n] = mem[pmaadress(f) + n]
      <3>1. n \in 0 .. MaxPacket - 1
        BY <1>3, <2>3 DEF PacketRecord
      <3>2. pmaadress(f) + n < pmaadress(e) \/ pmaadress(f) + n >= pmaadress(e) + MaxPacket
        BY <2>2, <2>3, <3>1
      <3> QED
        BY <1>6, <2>3, <3>1, <3>2, WriteEffect
    <2> QED
      BY <1>3, <1>4, <2>4 DEF Stored
  <1> QED
    BY <1>1, <1>5, <1>6

LEMMA WriteKeepsIntact ==
    ASSUME BtableEnd <= Ep0Address, TypeOK, NotTogether, PacketIntact,
           NEW e \in Active, HAL_PCD_EP_Transmit(e) \/ IsrIn(e) \/ HostOut(e)
    PROVE  PacketIntact'
  <1>1. PICK p \in PacketRecord : /\ mem' = Write(e, p) \/ mem' = mem
                                  /\ packet' = [packet EXCEPT ![e] = p]
                                  /\ IsrIn(e) \/ mem' = Write(e, p)
    BY StepWrites
  <1>2. Active' = Active /\ e \in INEP \cup OUTEP
    BY StepWrites, ScenarioAssumption DEF TypeOK
  <1>3. BtableFree'
    <2>1. BtableFree
      BY DEF PacketIntact, BtableFree
    <2>2. ASSUME NEW c \in 0 .. BtableEnd - 1 PROVE mem'[c] = mem[c]
      <3>1. c \in Cells /\ c < pmaadress(e)
        BY <1>2, BufferInMemory, Layout DEF Cells
      <3> QED
        BY <1>1, <3>1, WriteEffect
    <2> QED
      BY <2>1, <2>2 DEF BtableFree
  <1>4. Waiting(e)' => Stored(e)'
    <2>1. CASE IsrIn(e)
      BY <2>1 DEF IsrIn, TypeOK, Waiting
    <2>2. CASE mem' = Write(e, p)
      <3>1. packet'[e] = p
        BY <1>1 DEF TypeOK
      <3> QED
        BY <2>2, <3>1, WriteEffect DEF Stored
    <2> QED
      BY <1>1, <2>1, <2>2
  <1>5. \A f \in Active : Waiting(f)' => Stored(f)'
    BY <1>4, WriteKeepsOthers
  <1> QED
    BY <1>2, <1>3, <1>5 DEF PacketIntact, BtableFree, Stored

\* With a BTABLE that ends below the first buffer (8 * 8 <= 64 here, though the address
\* computed for it is thrown away) and where the data IN endpoint and endpoint 0 do not
\* have traffic at the same time, no packet is overwritten before its reader has it.
THEOREM PacketMemoryIntact ==
    ASSUME BtableEnd <= Ep0Address,
           \A S \in Scenarios : "ECM_DATA_IN_EP" \in S => S \cap {"EP0_IN", "EP0_OUT"} = {}
    PROVE  Spec => []PacketIntact
  <1>1. TypeOK => NotTogether
    BY DEF TypeOK, NotTogether
  <1>2. Init => PacketIntact
    <2> SUFFICES ASSUME Init PROVE PacketIntact
      OBVIOUS
    <2>1. \A c \in 0 .. BtableEnd - 1 : mem[c] = Free
      BY Layout DEF Init, Cells
    <2>2. \A e \in Active : ~Waiting(e)
      BY DEF Init, Waiting, INEP, OUTEP
    <2> QED
      BY <2>1, <2>2 DEF PacketIntact
  <1>3. TypeOK /\ NotTogether /\ PacketIntact /\ [Next]_vars => PacketIntact'
    <2> SUFFICES ASSUME TypeOK, NotTogether, PacketIntact, [Next]_vars PROVE PacketIntact'
      OBVIOUS
    <2>1. CASE UNCHANGED vars
      BY <2>1 DEF vars, PacketIntact, Waiting
    <2>2. ASSUME NEW e \in Active, HostIn(e) \/ IsrOut(e)
          PROVE  PacketIntact'
      <3>1. UNCHANGED <<Active, mem, packet>> /\ \A f \in Active : Waiting(f)' => Waiting(f)
        BY <2>2 DEF HostIn, IsrOut, TypeOK, Waiting, INEP, OUTEP
      <3> QED
        BY <3>1 DEF PacketIntact
    <2> QED
      BY <2>1, <2>2, WriteKeepsIntact DEF Next
  <1> QED
    BY <1>1, <1>2, <1>3, PacketMemoryType, PTL DEF Spec
=============================================================================
