------------------------------- MODULE HalPcd -------------------------------
(***************************************************************************)
(* The endpoint operations of ST's peripheral driver, as the class driver  *)
(* sees them: stm32f0xx_hal_pcd.c under the USBD_LL_ wrappers of           *)
(* usbd_conf.c.  An endpoint is a record                                   *)
(*                                                                         *)
(*   open        the EPnR register carries the endpoint's type and address *)
(*   stat        its STAT_TX or STAT_RX bits                               *)
(*   xfer_buff, xfer_len, xfer_count   the fields of PCD_EPTypeDef         *)
(*                                                                         *)
(* xfer_buff is an offset into the class driver's buffer.  Every operator  *)
(* takes the value of hpcd->Lock its call finds: __HAL_LOCK makes the      *)
(* function return HAL_BUSY there and then, whatever it did before.  All   *)
(* bulk endpoints are single buffered (USBD_ECM_PMAConfig).                *)
(***************************************************************************)
EXTENDS Integers

CONSTANT MaxPacket   \* ep->maxpacket: ECM_DATA_IN_SZ = ECM_DATA_OUT_SZ = 64

ASSUME MaxPacketAssumption == MaxPacket \in Nat \ {0}

Stat == {"DIS", "STALL", "NAK", "VALID"}

Endpoint == [open : BOOLEAN, stat : Stat,
             xfer_buff : Nat, xfer_len : Nat, xfer_count : Nat]

\* The endpoint after a power-on or a USB bus reset of the registers.
EndpointReset == [open |-> FALSE, stat |-> "DIS",
                  xfer_buff |-> 0, xfer_len |-> 0, xfer_count |-> 0]

(***************************************************************************)
(* HAL_PCD_EP_Open: an OUT endpoint becomes VALID at once, an IN endpoint  *)
(* answers NAK.  The caller USBD_LL_OpenEP discards HAL_BUSY.              *)
(***************************************************************************)
HAL_PCD_EP_Open(ep, is_in, locked) ==
    IF locked THEN ep
    ELSE [ep EXCEPT !.open = TRUE,
                    !.stat = IF is_in THEN "NAK" ELSE "VALID"]

HAL_PCD_EP_Close(ep, locked) ==
    IF locked THEN ep ELSE [ep EXCEPT !.stat = "DIS"]

(***************************************************************************)
(* HAL_PCD_EP_Receive and HAL_PCD_EP_Transmit open alike: the transfer     *)
(* fields are stored before the lock is tried, so a refused call has       *)
(* already redirected the endpoint.                                        *)
(***************************************************************************)
XferSetup(ep, buf, len) ==
    [ep EXCEPT !.xfer_buff = buf, !.xfer_len = len, !.xfer_count = 0]

\* The "multi packet transfer" adjustment, made with the lock held.
XferRemaining(len) == IF len > MaxPacket THEN len - MaxPacket ELSE 0

\* The last two statements under the lock, in interrupt context.
XferArm(ep) == [ep EXCEPT !.stat = "VALID"]

(***************************************************************************)
(* PCD_SET_EP_RX_STATUS to VALID is a read of EPnR and a write: writing a  *)
(* one toggles a STAT bit, so the write turns over the bits that were zero *)
(* when EPnR was read, and writes the type and the address back as read.   *)
(***************************************************************************)
EPnR(ep) == [open |-> ep.open, stat |-> ep.stat]

StatBits == [DIS |-> <<0, 0>>, STALL |-> <<0, 1>>, NAK |-> <<1, 0>>, VALID |-> <<1, 1>>]

\* stat after the bits that are zero in seen are toggled.
Toggled(stat, seen) ==
    CHOOSE s \in Stat : \A b \in {1, 2} :
        (StatBits[s][b] = StatBits[stat][b]) <=> (StatBits[seen][b] = 1)

SetRxValid(ep, seen) == [ep EXCEPT !.open = seen.open, !.stat = Toggled(@, seen.stat)]

HAL_PCD_EP_SetStall(ep, locked) == IF locked THEN ep ELSE [ep EXCEPT !.stat = "STALL"]

HAL_PCD_EP_ClrStall(ep, locked) == IF locked THEN ep ELSE [ep EXCEPT !.stat = "VALID"]

XferUnlessLocked(ep, buf, len, locked) ==
    LET set == XferSetup(ep, buf, len)
    IN  IF locked THEN set
        ELSE XferArm([set EXCEPT !.xfer_len = XferRemaining(len)])

HAL_PCD_EP_Receive(ep, buf, len, locked) == XferUnlessLocked(ep, buf, len, locked)

HAL_PCD_EP_Transmit(ep, buf, len, locked) == XferUnlessLocked(ep, buf, len, locked)

(***************************************************************************)
(* PCD_EP_ISR_Handler, non-control endpoint, CTR_RX: the controller set    *)
(* the endpoint to NAK, `count' bytes are copied to xfer_buff.             *)
(***************************************************************************)
AfterPacket(ep, count) ==
    [ep EXCEPT !.stat = "NAK", !.xfer_count = @ + count, !.xfer_buff = @ + count]

\* The transfer is over and the class callback is due, else the HAL goes on.
RxComplete(ep, count) == ep.xfer_len = 0 \/ count < MaxPacket
=============================================================================
