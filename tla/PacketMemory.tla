---------------------------- MODULE PacketMemory ----------------------------
(***************************************************************************)
(* The packet memory (PMA) that the controller and the driver share: where *)
(* USBD_LL_Init (usbd_conf.c) and USBD_ECM_PMAConfig (usbd_ecm.c) put the  *)
(* buffer of each endpoint, and the packets that pass through them.        *)
(*                                                                         *)
(* Which endpoints have traffic in a behaviour is one of Scenarios, so     *)
(* that a run can say between which of them the layout matters.  Interrupts*)
(* are one step each; refused calls and timeouts are in EcmTransmit and    *)
(* UsbdControl.                                                            *)
(***************************************************************************)
EXTENDS Integers

CONSTANTS
    EpEntries,   \* entries of hpcd.IN_ep and of hpcd.OUT_ep (8)
    EntrySize,   \* bytes of the BTABLE for each (8)
    MaxPacket,   \* USB_MAX_EP0_SIZE and the ECM_*_SZ, all 64
    Scenarios    \* sets of endpoints that have traffic together

ASSUME SizeAssumption == {EpEntries, EntrySize, MaxPacket} \subseteq Nat \ {0}

INEP == {"EP0_IN", "ECM_DATA_IN_EP", "ECM_NOTIFICATION_IN_EP"}
OUTEP == {"EP0_OUT", "ECM_DATA_OUT_EP"}

ASSUME ScenarioAssumption == Scenarios \subseteq SUBSET (INEP \cup OUTEP)

-----------------------------------------------------------------------------
(***************************************************************************)
(* The layout                                                              *)
(***************************************************************************)

\* The address behind the BTABLE, computed first and not used again:
\* `pma_address =+ USB_MAX_EP0_SIZE' assigns, and does so twice.
BtableEnd == EntrySize * EpEntries

Ep0Address == MaxPacket

USBD_ECM_PMAConfig(pma_address) ==
    [ECM_DATA_IN_EP         |-> pma_address,
     ECM_DATA_OUT_EP        |-> pma_address + MaxPacket,
     ECM_NOTIFICATION_IN_EP |-> pma_address + 2 * MaxPacket]

\* ep->pmaadress, as HAL_PCDEx_PMAConfig stores it.
pmaadress(e) == IF e \in {"EP0_IN", "EP0_OUT"} THEN Ep0Address
                ELSE USBD_ECM_PMAConfig(Ep0Address)[e]

Cells == 0 .. BtableEnd + 5 * MaxPacket - 1
-----------------------------------------------------------------------------
VARIABLES
    Active,  \* the endpoints that are used in this behaviour: never changes
    mem,     \* the packet memory: whose byte, of which packet, and which one
    packet,  \* number and length of the packet in each endpoint's buffer
    stat     \* "NAK", "VALID", or "CTR" while an interrupt is due

vars == <<Active, mem, packet, stat>>

\* An endpoint's packets are numbered 0, 1, 0, 1, ...: enough to tell one from the last.

Byte == [of : Active \cup {"BTABLE"}, number : 0 .. 1, at : 0 .. MaxPacket - 1]
Free == [of |-> "BTABLE", number |-> 0, at |-> 0]

TypeOK ==
    /\ Active \in Scenarios
    /\ mem \in [Cells -> Byte]
    /\ packet \in [Active -> [number : 0 .. 1, len : 0 .. MaxPacket]]
    /\ stat \in [Active -> {"NAK", "VALID", "CTR"}]

\* Opened endpoints: OUT endpoints are ready to receive.
Init ==
    /\ Active \in Scenarios
    /\ mem = [c \in Cells |-> Free]
    /\ packet = [e \in Active |-> [number |-> 0, len |-> 0]]
    /\ stat = [e \in Active |-> IF e \in OUTEP THEN "VALID" ELSE "NAK"]

\* PCD_WritePMA, or the controller storing what it received.
Write(e, p) ==
    [c \in Cells |-> IF c \in pmaadress(e) .. pmaadress(e) + p.len - 1
                     THEN [of |-> e, number |-> p.number, at |-> c - pmaadress(e)]
                     ELSE mem[c]]

\* Mutant: a transfer longer than a packet is not cut.
FirstPacket_Whole(len) == len

\* "Multi packet transfer": what is left is sent later.
FirstPacket(len) == IF len > MaxPacket THEN MaxPacket ELSE len

\* Mutant: a completion is served before a SETUP that is pending.
SetupPending_Ignored == FALSE

\* A SETUP packet that the interrupt has not seen yet.
SetupPending == "EP0_OUT" \in Active /\ stat["EP0_OUT"] = "CTR"

\* HAL_PCD_EP_Transmit. On endpoint 0 the interrupt serves a SETUP first: it looks for
\* one (pcd.c:336) some microseconds before it writes the packet (pcd.c:1108), here in
\* one step. So no SETUP arrives in between, from a host that gives up the transfer just
\* when it is answered; it would be written over, both directions having one buffer.
HAL_PCD_EP_Transmit(e) ==
    /\ e \in Active \cap INEP
    /\ stat[e] = "NAK"
    /\ e = "EP0_IN" => ~SetupPending
    /\ \E len \in 1 .. MaxPacket + 1 :
          LET p == [number |-> 1 - packet[e].number, len |-> FirstPacket(len)]
          IN  /\ mem' = Write(e, p)
              /\ packet' = [packet EXCEPT ![e] = p]
    /\ stat' = [stat EXCEPT ![e] = "VALID"]
    /\ UNCHANGED Active

\* The host fetches the packet.
HostIn(e) ==
    /\ e \in Active \cap INEP
    /\ stat[e] = "VALID"
    /\ stat' = [stat EXCEPT ![e] = "CTR"]
    /\ UNCHANGED <<Active, mem, packet>>

\* CTR_TX. On other endpoints than 0 the packet is written once more.
IsrIn(e) ==
    /\ e \in Active \cap INEP
    /\ stat[e] = "CTR"
    /\ mem' = IF e = "EP0_IN" THEN mem ELSE Write(e, packet[e])
    /\ stat' = [stat EXCEPT ![e] = "NAK"]
    /\ UNCHANGED <<Active, packet>>

\* The host sends a packet, on endpoint 0 a SETUP: always accepted there, and what
\* was to be sent is withdrawn.
HostOut(e) ==
    /\ e \in Active \cap OUTEP
    /\ stat[e] = "VALID"
    /\ \E len \in 1 .. MaxPacket :
          LET p == [number |-> 1 - packet[e].number, len |-> len]
          IN  /\ mem' = Write(e, p)
              /\ packet' = [packet EXCEPT ![e] = p]
    /\ stat' = [f \in Active |->
                   IF f = e THEN "CTR"
                   ELSE IF e = "EP0_OUT" /\ f = "EP0_IN" THEN "NAK" ELSE stat[f]]
    /\ UNCHANGED Active

\* CTR_RX: PCD_ReadPMA, and the endpoint may receive again.
IsrOut(e) ==
    /\ e \in Active \cap OUTEP
    /\ stat[e] = "CTR"
    /\ stat' = [stat EXCEPT ![e] = "VALID"]
    /\ UNCHANGED <<Active, mem, packet>>

Next == \E e \in Active :
           \/ HAL_PCD_EP_Transmit(e) \/ HostIn(e) \/ IsrIn(e)
           \/ HostOut(e) \/ IsrOut(e)

Spec == Init /\ [][Next]_vars
-----------------------------------------------------------------------------
(***************************************************************************)
(* Properties                                                              *)
(***************************************************************************)

\* A packet that waits for the reader on the other side.
Waiting(e) == stat[e] = IF e \in INEP THEN "VALID" ELSE "CTR"

\* "PMA allocation": what the host fetches, and what the interrupt reads, is the packet
\* that was put there: no traffic of another endpoint has touched it. The BTABLE, which
\* tells the controller where the buffers are, is not written over either.
PacketIntact ==
    /\ \A e \in Active : Waiting(e) =>
          \A n \in 0 .. packet[e].len - 1 :
             mem[pmaadress(e) + n] = [of |-> e, number |-> packet[e].number, at |-> n]
    /\ \A c \in 0 .. BtableEnd - 1 : mem[c] = Free
=============================================================================
