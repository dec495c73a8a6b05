----------------------------- MODULE UsbdControl -----------------------------
(***************************************************************************)
(* Control transfers on endpoint 0: the stages of usbd_core.c, the         *)
(* standard requests of usbd_ctlreq.c, the transfers of usbd_ioreq.c, and  *)
(* their interrupts in stm32f0xx_hal_pcd.c.                                *)
(*                                                                         *)
(* The handlers run in the USB interrupt, one after the other, so each C   *)
(* function is an operator from one state of the device to the next, and a *)
(* handled interrupt is one step.  `locked' says whether it came while the *)
(* main loop held hpcd->Lock (usb_ecm_recv_renew): every HAL call in it is *)
(* then refused, and none of these callers looks.                          *)
(*                                                                         *)
(* The host is the environment: it sends requests, may give up a transfer  *)
(* for another one, and resets the bus.                                    *)
(* Endpoint 0 is given packet memory of its own here: see PacketMemory.    *)
(***************************************************************************)
EXTENDS HalPcd, FiniteSets

CONSTANTS
    DescLens,    \* lengths of the descriptors
    WLengths,    \* wLength of the requests for them
    Addresses,   \* what SET_ADDRESS may give
    HaltEps,     \* endpoints the host halts or asks about, 0 and 128 are endpoint 0
    MaxAborts,   \* bound: transfers the host gives up for another request
    MaxResets,   \* bound: bus resets
    MaxLocks,    \* bound: interrupts that find hpcd->Lock taken
    NULL

ASSUME DescAssumption == DescLens \subseteq Nat \ {0} /\ WLengths \subseteq Nat

ASSUME AddressAssumption == Addresses \subseteq 0 .. 127

ASSUME HaltAssumption == HaltEps \subseteq {0, 128, 129, 130, 3}

ASSUME BoundAssumption == {MaxAborts, MaxResets, MaxLocks} \subseteq Nat

(***************************************************************************)
(* A request: recipient, bRequest, the part of wValue that is looked at,   *)
(* the interface or endpoint in wIndex, and wLength.  The value of         *)
(* GET_DESCRIPTOR stands for the descriptor of that length, 0 for one that *)
(* does not exist.                                                         *)
(***************************************************************************)
Req(to, name, value, wIndex, wLength) ==
    [to |-> to, name |-> name, value |-> value, wIndex |-> wIndex, wLength |-> wLength]

ECM_NOTIFICATION_IN_EP == 129
ECM_DATA_IN_EP == 130
ECM_DATA_OUT_EP == 3
ClassEp == {ECM_NOTIFICATION_IN_EP, ECM_DATA_IN_EP, ECM_DATA_OUT_EP}
ControlEp == {0, 128}

REMOTE_WAKEUP == 1
EP_HALT == 0
USBD_MAX_NUM_INTERFACES == 2

\* Requests that get data, a status or a STALL in every state of the device.
AnsweredReq ==
    {Req("DEV", "GET_DESCRIPTOR", len, 0, w) :
          len \in DescLens \cup {0}, w \in WLengths \ {0}}
      \cup {Req("DEV", "SET_ADDRESS", a, 0, 0) : a \in Addresses}
      \cup {Req("DEV", "SET_ADDRESS", a, 1, 0) : a \in Addresses}
      \cup {Req("DEV", "SET_ADDRESS", a, 0, 1) : a \in Addresses}
      \cup {Req("DEV", "SET_CONFIGURATION", c, 0, 0) : c \in 0 .. 2}
      \cup {Req("DEV", "GET_CONFIGURATION", 0, 0, 1), Req("DEV", "GET_STATUS", 0, 0, 2),
            Req("DEV", "SET_FEATURE", REMOTE_WAKEUP, 0, 0),
            Req("DEV", "CLEAR_FEATURE", REMOTE_WAKEUP, 0, 0),
            Req("DEV", "OTHER", 0, 0, 0),
            Req("ITF", "SET_ETHERNET_PACKET_FILTER", 0, 0, 0),
            Req("ITF", "OTHER", 0, USBD_MAX_NUM_INTERFACES + 1, 1),
            Req("OTHER", "OTHER", 0, 0, 0)}

\* Requests that the device may leave without any answer.
SilentReq ==
    {Req("DEV", "GET_DESCRIPTOR", len, 0, 0) : len \in DescLens}
      \cup {Req("DEV", "SET_FEATURE", 0, 0, 0), Req("DEV", "CLEAR_FEATURE", 0, 0, 0)}
      \cup {Req("EP", name, feature, ep, 0) :
               name \in {"SET_FEATURE", "CLEAR_FEATURE"},
               feature \in {EP_HALT, EP_HALT + 1}, ep \in HaltEps}
      \cup {Req("EP", "GET_STATUS", 0, ep, 2) : ep \in HaltEps}
      \cup {Req("ITF", "OTHER", 0, 0, 1), Req("EP", "OTHER", 0, ECM_DATA_OUT_EP, 0)}

Requests == AnsweredReq \cup SilentReq

ASSUME NullAssumption == NULL \notin Requests

VARIABLES
    dev,         \* pdev and hpcd: see TypeOK
    ctr,         \* CTR bits of EP0R: "TX", "RX"
    setup,       \* the SETUP packet behind a CTR_RX, or NULL
    host,        \* the host's view: see TypeOK
    used,        \* the class was configured once: the main loop may hold the lock
    aborts, resets, locks,
    driver       \* "any" or "enumerates", see the end of the model: never changes

vars == <<dev, ctr, setup, host, used, aborts, resets, locks, driver>>

DevState == {"DEFAULT", "ADDRESSED", "CONFIGURED"}
Ep0State == {"IDLE", "SETUP", "DATA_IN", "STATUS_IN", "STATUS_OUT"}
OFF == 128   \* DADDR without USB_DADDR_EF: the function answers nothing
Packet == [tag : Requests \cup {NULL}, from : Nat, len : 0 .. MaxPacket]

TypeOK ==
    /\ dev \in [dev_state : DevState, dev_config : 0 .. 1, dev_remote_wakeup : 0 .. 1,
                ep0_state : Ep0State, ep0_data_len : Nat,
                total_length : Nat, rem_length : Nat,
                IN_ep0 : Endpoint, OUT_ep0 : Endpoint,
                tag : Requests \cup {NULL},       \* whose data xfer_buff points to
                pma : Packet,                     \* EP0's transmit buffer
                USB_Address : Addresses \cup {0}, DADDR : Addresses \cup {0, OFF},
                ep : [ClassEp -> [open : BOOLEAN, stat : Stat, is_stall : BOOLEAN]]]
    /\ ctr \subseteq {"TX", "RX"}
    /\ setup \in Requests \cup {NULL}
    /\ host \in [addr : Addresses \cup {0}, req : Requests \cup {NULL},
                 phase : {"idle", "data", "status_in", "status_out"},
                 got : Nat, right : BOOLEAN, step : 0 .. 3,
                 config : 0 .. 2 \cup {NULL},  \* what it configured, NULL: in doubt
                 stale : SUBSET Addresses]     \* SET_ADDRESS requests it gave up
    /\ used \in BOOLEAN
    /\ aborts \in Nat /\ resets \in Nat /\ locks \in Nat
    /\ driver \in {"any", "enumerates"}

Init ==
    /\ dev = [dev_state |-> "DEFAULT", dev_config |-> 0, dev_remote_wakeup |-> 0,
              ep0_state |-> "IDLE", ep0_data_len |-> 0, total_length |-> 0, rem_length |-> 0,
              IN_ep0 |-> EndpointReset, OUT_ep0 |-> EndpointReset, tag |-> NULL,
              pma |-> [tag |-> NULL, from |-> 0, len |-> 0], USB_Address |-> 0, DADDR |-> OFF,
              ep |-> [e \in ClassEp |-> [open |-> FALSE, stat |-> "DIS", is_stall |-> FALSE]]]
    /\ ctr = {} /\ setup = NULL /\ used = FALSE
    /\ host = [addr |-> 0, req |-> NULL, phase |-> "idle", got |-> 0, right |-> TRUE,
               step |-> 0, config |-> 0, stale |-> {}]
    /\ aborts = 0 /\ resets = 0 /\ locks = 0
    /\ driver \in {"any", "enumerates"}
-----------------------------------------------------------------------------
(***************************************************************************)
(* usbd_ioreq.c                                                            *)
(***************************************************************************)

AtMost(n, most) == IF n < most THEN n ELSE most

\* USBD_LL_Transmit on endpoint 0. A refused call has redirected xfer_buff.
Transmit(d, tag, at, len, locked) ==
    [d EXCEPT !.IN_ep0 = HAL_PCD_EP_Transmit(@, at, len, locked),
              !.tag = tag,
              !.pma = IF locked THEN @
                      ELSE [tag |-> tag, from |-> at, len |-> AtMost(len, MaxPacket)]]

USBD_CtlSendData(d, tag, len, locked) ==
    Transmit([d EXCEPT !.ep0_state = "DATA_IN", !.total_length = len, !.rem_length = len],
             tag, 0, len, locked)

USBD_CtlSendStatus(d, locked) ==
    Transmit([d EXCEPT !.ep0_state = "STATUS_IN"], NULL, 0, 0, locked)

USBD_CtlReceiveStatus(d, locked) ==
    [d EXCEPT !.ep0_state = "STATUS_OUT",
              !.OUT_ep0 = HAL_PCD_EP_Receive(@, 0, 0, locked)]

\* HAL_PCD_EP_SetStall stalls both directions of endpoint 0.
USBD_CtlError(d, locked) ==
    IF locked THEN d ELSE [d EXCEPT !.IN_ep0.stat = "STALL", !.OUT_ep0.stat = "STALL"]
-----------------------------------------------------------------------------
(***************************************************************************)
(* The class                                                               *)
(***************************************************************************)

\* is_stall is set under the lock, and cleared before the lock is tried.
USBD_LL_StallEP(ep, locked) ==
    [HAL_PCD_EP_SetStall(ep, locked) EXCEPT !.is_stall = @ \/ ~locked]

USBD_LL_ClearStallEP(ep, locked) ==
    [HAL_PCD_EP_ClrStall(ep, locked) EXCEPT !.is_stall = FALSE]

USBD_ECM_Init(d, locked) ==
    [d EXCEPT !.ep = [e \in ClassEp |->
                         HAL_PCD_EP_Open(d.ep[e], e # ECM_DATA_OUT_EP, locked)]]

USBD_ECM_DeInit(d, locked) ==
    [d EXCEPT !.ep = [e \in ClassEp |-> HAL_PCD_EP_Close(d.ep[e], locked)]]

\* The notification is put out on its endpoint.
USBD_ECM_Setup(d, req, locked) ==
    IF req.name = "SET_ETHERNET_PACKET_FILTER" /\ ~locked
      THEN [d EXCEPT !.ep[ECM_NOTIFICATION_IN_EP].stat = "VALID"]
      ELSE d
-----------------------------------------------------------------------------
(***************************************************************************)
(* usbd_ctlreq.c                                                           *)
(***************************************************************************)

\* With wLength 0 there is no answer at all.
USBD_GetDescriptor(d, req, locked) ==
    IF req.value = 0 THEN USBD_CtlError(d, locked)
    ELSE IF req.wLength # 0
           THEN USBD_CtlSendData(d, req, AtMost(req.value, req.wLength), locked)
           ELSE d

\* Mutant: the address is in force at once.
HAL_PCD_SetAddress_AtOnce(d, address, locked) ==
    IF locked THEN d ELSE [d EXCEPT !.DADDR = address]

\* Address 0 is set at once, another one after the status stage.
HAL_PCD_SetAddress(d, address, locked) ==
    IF locked THEN d
    ELSE IF address = 0 THEN [d EXCEPT !.DADDR = 0]
                        ELSE [d EXCEPT !.USB_Address = address]

USBD_SetAddress(d, req, locked) ==
    IF req.wIndex # 0 \/ req.wLength # 0 \/ d.dev_state = "CONFIGURED"
      THEN USBD_CtlError(d, locked)
    ELSE [USBD_CtlSendStatus(HAL_PCD_SetAddress(d, req.value, locked), locked)
            EXCEPT !.dev_state = IF req.value # 0 THEN "ADDRESSED" ELSE "DEFAULT"]

\* USBD_MAX_NUM_CONFIGURATION is 1; USBD_ECM_Init never fails.
USBD_SetConfig(d, req, locked) ==
    CASE req.value > 1 -> USBD_CtlError(d, locked)
      [] req.value <= 1 /\ d.dev_state = "ADDRESSED" ->
           IF req.value = 0 THEN USBD_CtlSendStatus(d, locked)
           ELSE USBD_CtlSendStatus(
                   USBD_ECM_Init([d EXCEPT !.dev_config = 1, !.dev_state = "CONFIGURED"],
                                 locked), locked)
      [] req.value <= 1 /\ d.dev_state = "CONFIGURED" ->
           IF req.value = 0
             THEN USBD_CtlSendStatus(
                     USBD_ECM_DeInit([d EXCEPT !.dev_state = "ADDRESSED", !.dev_config = 0],
                                     locked), locked)
             ELSE USBD_CtlSendStatus(d, locked)
      [] OTHER -> USBD_CtlError(d, locked)

USBD_GetConfig(d, req, locked) ==
    IF req.wLength = 1 /\ d.dev_state # "DEFAULT"
      THEN USBD_CtlSendData(d, req, 1, locked)
      ELSE USBD_CtlError(d, locked)

USBD_GetStatus(d, req, locked) ==
    IF d.dev_state # "DEFAULT" THEN USBD_CtlSendData(d, req, 2, locked)
                               ELSE USBD_CtlError(d, locked)

\* Any other feature is passed over in silence.
USBD_SetFeature(d, req, locked) ==
    IF req.value = REMOTE_WAKEUP
      THEN USBD_CtlSendStatus([d EXCEPT !.dev_remote_wakeup = 1], locked)
      ELSE d

USBD_ClrFeature(d, req, locked) ==
    CASE d.dev_state = "DEFAULT" -> USBD_CtlError(d, locked)
      [] d.dev_state # "DEFAULT" /\ req.value = REMOTE_WAKEUP ->
           USBD_CtlSendStatus([d EXCEPT !.dev_remote_wakeup = 0], locked)
      [] OTHER -> d

USBD_StdDevReq(d, req, locked) ==
    CASE req.name = "GET_DESCRIPTOR"    -> USBD_GetDescriptor(d, req, locked)
      [] req.name = "SET_ADDRESS"       -> USBD_SetAddress(d, req, locked)
      [] req.name = "SET_CONFIGURATION" -> USBD_SetConfig(d, req, locked)
      [] req.name = "GET_CONFIGURATION" -> USBD_GetConfig(d, req, locked)
      [] req.name = "GET_STATUS"        -> USBD_GetStatus(d, req, locked)
      [] req.name = "SET_FEATURE"       -> USBD_SetFeature(d, req, locked)
      [] req.name = "CLEAR_FEATURE"     -> USBD_ClrFeature(d, req, locked)
      [] OTHER                          -> USBD_CtlError(d, locked)

\* A class request with data is neither answered nor refused.
USBD_StdItfReq(d, req, locked) ==
    IF d.dev_state # "CONFIGURED" \/ req.wIndex > USBD_MAX_NUM_INTERFACES
      THEN USBD_CtlError(d, locked)
    ELSE LET c == USBD_ECM_Setup(d, req, locked)
         IN  IF req.wLength = 0 THEN USBD_CtlSendStatus(c, locked) ELSE c

\* Endpoint 0 is left alone.
StallUnlessControl(d, ep, locked) ==
    IF ep \in ControlEp THEN d ELSE [d EXCEPT !.ep[ep] = USBD_LL_StallEP(@, locked)]

ClearUnlessControl(d, ep, locked) ==
    IF ep \in ControlEp THEN d ELSE [d EXCEPT !.ep[ep] = USBD_LL_ClearStallEP(@, locked)]

\* In the ADDRESSED state each of the three halts the endpoint and answers nothing; only
\* SET_FEATURE answers for a feature that is not ENDPOINT_HALT.
USBD_StdEPReq(d, req, locked) ==
    CASE req.name = "OTHER" -> d
      [] req.name # "OTHER" /\ d.dev_state = "DEFAULT" -> USBD_CtlError(d, locked)
      [] req.name # "OTHER" /\ d.dev_state = "ADDRESSED" ->
           StallUnlessControl(d, req.wIndex, locked)
      [] req.name = "SET_FEATURE" /\ d.dev_state = "CONFIGURED" ->
           USBD_CtlSendStatus(IF req.value = EP_HALT
                              THEN StallUnlessControl(d, req.wIndex, locked) ELSE d, locked)
      [] req.name = "CLEAR_FEATURE" /\ d.dev_state = "CONFIGURED" ->
           IF req.value = EP_HALT
             THEN USBD_CtlSendStatus(ClearUnlessControl(d, req.wIndex, locked), locked)
             ELSE d
      [] req.name = "GET_STATUS" /\ d.dev_state = "CONFIGURED" ->
           USBD_CtlSendData(d, req, 2, locked)

-----------------------------------------------------------------------------
(***************************************************************************)
(* usbd_core.c and the interrupt                                           *)
(***************************************************************************)

USBD_LL_SetupStage(d, req, locked) ==
    LET s == [d EXCEPT !.ep0_state = "SETUP", !.ep0_data_len = req.wLength]
    IN  CASE req.to = "DEV" -> USBD_StdDevReq(s, req, locked)
          [] req.to = "ITF" -> USBD_StdItfReq(s, req, locked)
          [] req.to = "EP"  -> USBD_StdEPReq(s, req, locked)
          [] OTHER          -> USBD_CtlError(s, locked)

\* Mutant: a data stage that ends on a full packet is not closed by an empty one.
USBD_LL_DataInStage_NoZLP(d, locked) ==
    CASE d.ep0_state # "DATA_IN" -> d
      [] d.ep0_state = "DATA_IN" /\ d.rem_length > MaxPacket ->
           LET rem == d.rem_length - MaxPacket
           IN  Transmit([d EXCEPT !.rem_length = rem], d.tag, d.IN_ep0.xfer_buff, rem, locked)
      [] OTHER -> USBD_CtlReceiveStatus(d, locked)

\* Mutant: the next packet starts at the front of the buffer again.
USBD_LL_DataInStage_Front(d, locked) ==
    CASE d.ep0_state # "DATA_IN" -> d
      [] d.ep0_state = "DATA_IN" /\ d.rem_length > MaxPacket ->
           LET rem == d.rem_length - MaxPacket
           IN  Transmit([d EXCEPT !.rem_length = rem], d.tag, 0, rem, locked)
      [] OTHER ->
           IF /\ d.total_length % MaxPacket = 0
              /\ d.total_length >= MaxPacket
              /\ d.total_length < d.ep0_data_len
             THEN [Transmit(d, NULL, 0, 0, locked) EXCEPT !.ep0_data_len = 0]
             ELSE USBD_CtlReceiveStatus(d, locked)

\* USBD_LL_DataInStage on endpoint 0: the next packet, or the empty packet that
\* closes a data stage shorter than asked for, or the status stage.
USBD_LL_DataInStage(d, locked) ==
    CASE d.ep0_state # "DATA_IN" -> d
      [] d.ep0_state = "DATA_IN" /\ d.rem_length > MaxPacket ->
           LET rem == d.rem_length - MaxPacket
           IN  Transmit([d EXCEPT !.rem_length = rem], d.tag, d.IN_ep0.xfer_buff, rem, locked)
      [] OTHER ->
           IF /\ d.total_length % MaxPacket = 0
              /\ d.total_length >= MaxPacket
              /\ d.total_length < d.ep0_data_len
             THEN [Transmit(d, NULL, 0, 0, locked) EXCEPT !.ep0_data_len = 0]
             ELSE USBD_CtlReceiveStatus(d, locked)

\* Mutant: dev_state is kept.
USBD_LL_Reset_KeepsState(d, locked) ==
    [d EXCEPT !.OUT_ep0 = HAL_PCD_EP_Open(@, FALSE, locked),
              !.IN_ep0 = HAL_PCD_EP_Open(@, TRUE, locked)]

USBD_LL_Reset(d, locked) ==
    [d EXCEPT !.OUT_ep0 = HAL_PCD_EP_Open(@, FALSE, locked),
              !.IN_ep0 = HAL_PCD_EP_Open(@, TRUE, locked),
              !.dev_state = "DEFAULT"]

\* An interrupt that finds the lock taken: the main loop is in usb_ecm_recv_renew.
Interrupted(locked) ==
    /\ locked => driver = "enumerates" /\ used /\ locks < MaxLocks
    /\ locks' = IF locked THEN locks + 1 ELSE locks

\* CTR_RX on endpoint 0, which comes first when both are pending. A status stage
\* leaves the endpoint VALID.
IrqRx ==
    /\ "RX" \in ctr
    /\ \E locked \in BOOLEAN :
          /\ Interrupted(locked)
          /\ dev' = IF setup # NULL THEN USBD_LL_SetupStage(dev, setup, locked)
                    ELSE [dev EXCEPT !.OUT_ep0.stat = "VALID"]
    /\ ctr' = ctr \ {"RX"}
    /\ setup' = NULL
    /\ used' = (used \/ dev'.dev_state = "CONFIGURED")
    /\ UNCHANGED <<host, aborts, resets, driver>>

\* Mutant: USB_Address is not cleared.
ApplyAddress_Keeps(d) ==
    IF d.USB_Address > 0 /\ d.IN_ep0.xfer_len = 0
      THEN [d EXCEPT !.DADDR = d.USB_Address]
      ELSE d

\* After the callback: a pending address takes effect.
ApplyAddress(d) ==
    IF d.USB_Address > 0 /\ d.IN_ep0.xfer_len = 0
      THEN [d EXCEPT !.DADDR = d.USB_Address, !.USB_Address = 0]
      ELSE d

\* CTR_TX on endpoint 0: "TX COMPLETE".
IrqTx ==
    /\ ctr = {"TX"}
    /\ \E locked \in BOOLEAN :
          /\ Interrupted(locked)
          /\ dev' = ApplyAddress(USBD_LL_DataInStage(
                       [dev EXCEPT !.IN_ep0.xfer_count = dev.pma.len,
                                   !.IN_ep0.xfer_buff = @ + dev.pma.len], locked))
    /\ ctr' = {}
    /\ UNCHANGED <<setup, host, used, aborts, resets, driver>>
-----------------------------------------------------------------------------
(***************************************************************************)
(* The host and the controller                                             *)
(***************************************************************************)

\* The requests of an enumeration, one step after the other.
Script(step) ==
    CASE step = 0 -> {r \in AnsweredReq : r.name = "GET_DESCRIPTOR" /\ r.value # 0}
      [] step = 1 -> {Req("DEV", "SET_ADDRESS", a, 0, 0) : a \in Addresses \ {0}}
      [] step = 2 -> {Req("DEV", "SET_CONFIGURATION", 1, 0, 0)}
      [] step = 3 -> {Req("DEV", "GET_STATUS", 0, 0, 2)}

\* The device hears the host.
Heard == host.addr = dev.DADDR /\ dev.OUT_ep0.stat # "DIS"

\* A transfer under way is given up: what its request did to the device is in doubt.
StaleAddresses ==
    IF host.phase # "idle" /\ host.req.name = "SET_ADDRESS"
      THEN host.stale \cup ({host.req.value} \ {0}) ELSE host.stale

ConfigInDoubt == host.phase # "idle" /\ host.req.name = "SET_CONFIGURATION"

\* A SETUP packet is always accepted; both directions go to NAK.
HostSetup(req) ==
    /\ Heard
    /\ ctr = {} \/ (driver = "enumerates" /\ ctr = {"TX"})
    /\ \/ host.phase = "idle" /\ UNCHANGED aborts
       \/ host.phase # "idle" /\ aborts < MaxAborts /\ aborts' = aborts + 1
    /\ setup' = req
    /\ ctr' = ctr \cup {"RX"}
    /\ dev' = [dev EXCEPT !.IN_ep0.stat = "NAK", !.OUT_ep0.stat = "NAK"]
    /\ host' = [host EXCEPT !.req = req, !.got = 0, !.right = TRUE,
                            !.phase = IF req.wLength > 0 THEN "data" ELSE "status_in",
                            !.config = IF ConfigInDoubt THEN NULL ELSE @,
                            !.stale = StaleAddresses]
    /\ UNCHANGED <<used, resets, locks, driver>>

\* No transfer is under way.
Idle(h) == [h EXCEPT !.phase = "idle", !.req = NULL, !.got = 0, !.right = TRUE]

\* The transfer is complete. A SET_ADDRESS replaces one that was given up.
Done(h) ==
    [Idle(h) EXCEPT
              !.addr = IF h.req.name = "SET_ADDRESS" THEN h.req.value ELSE @,
              !.stale = IF h.req.name = "SET_ADDRESS" /\ h.req.value # 0 THEN {} ELSE @,
              !.config = IF h.req.name = "SET_CONFIGURATION" /\ @ # NULL THEN h.req.value
                         ELSE @,
              !.step = IF @ < 3 /\ h.req \in Script(@) THEN @ + 1 ELSE @]

\* The host fetches a packet of the data stage or of the status stage.
HostIn ==
    /\ Heard /\ dev.IN_ep0.stat = "VALID"
    /\ ctr = {}
    /\ \/ LET got == host.got + dev.pma.len
          IN  /\ host.phase = "data"
              /\ host' = [host EXCEPT
                    !.got = got,
                    !.right = /\ @
                              /\ dev.pma.len > 0 => /\ dev.pma.tag = host.req
                                                    /\ dev.pma.from = host.got,
                    !.phase = IF dev.pma.len < MaxPacket \/ got >= host.req.wLength
                              THEN "status_out" ELSE "data"]
       \/ /\ host.phase = "status_in"
          /\ host' = Done(host)
    /\ dev' = [dev EXCEPT !.IN_ep0.stat = "NAK"]
    /\ ctr' = {"TX"}
    /\ UNCHANGED <<setup, used, aborts, resets, locks, driver>>

HostStatusOut ==
    /\ host.phase = "status_out"
    /\ Heard /\ dev.OUT_ep0.stat = "VALID"
    /\ ctr = {}
    /\ host' = Done(host)
    /\ dev' = [dev EXCEPT !.OUT_ep0.stat = "NAK"]
    /\ ctr' = {"RX"} /\ setup' = NULL
    /\ UNCHANGED <<used, aborts, resets, locks, driver>>

Awaited == IF host.phase = "status_out" THEN dev.OUT_ep0.stat ELSE dev.IN_ep0.stat

\* The device refuses the request.
HostStalled ==
    /\ host.phase # "idle" /\ ctr = {}
    /\ Heard /\ Awaited = "STALL"
    /\ host' = Idle(host)
    /\ UNCHANGED <<dev, ctr, setup, used, aborts, resets, locks, driver>>

\* The bus reset: the registers are cleared, then the interrupt calls
\* USBD_LL_Reset and HAL_PCD_SetAddress(0).
BusReset ==
    /\ ctr = {}
    /\ \E locked \in BOOLEAN :
          /\ Interrupted(locked)
          /\ LET cleared == [dev EXCEPT
                    !.IN_ep0.stat = "DIS", !.OUT_ep0.stat = "DIS", !.DADDR = OFF,
                    !.ep = [e \in ClassEp |-> [dev.ep[e] EXCEPT !.open = FALSE, !.stat = "DIS"]]]
             IN  dev' = HAL_PCD_SetAddress(USBD_LL_Reset(cleared, locked), 0, locked)
    /\ host' = [Idle(host) EXCEPT !.addr = 0, !.step = 0, !.config = 0,
                                  !.stale = StaleAddresses]
    /\ UNCHANGED <<ctr, setup, used, aborts, driver>>

HostReset ==
    /\ resets < MaxResets
    /\ resets' = resets + 1
    /\ BusReset

\* A transfer that gets no answer, or a device that answers no SETUP, is reset.
Mute == /\ ctr = {}
        /\ \/ ~Heard
           \/ host.phase # "idle" /\ Awaited \notin {"VALID", "STALL"}

HostGivesUp ==
    /\ Mute
    /\ BusReset
    /\ UNCHANGED resets

(***************************************************************************)
(* The host's driver is one of two.  One asks for anything at any time, and*)
(* the interrupt of a packet is served before its next SETUP and never     *)
(* finds the lock taken.  The other enumerates the device and starts over  *)
(* when it gets stuck, with late interrupts and refused calls.  Interrupts *)
(* are served and the host's driver goes on.                               *)
(***************************************************************************)
Ask == driver = "any" /\ \E req \in Requests : HostSetup(req)

Enumerate == driver = "enumerates" /\ \E req \in Script(host.step) : HostSetup(req)

Transactions == IrqRx \/ IrqTx \/ HostIn \/ HostStatusOut \/ HostStalled \/ HostReset
                  \/ HostGivesUp

Next == Transactions \/ Ask \/ Enumerate

Spec ==
    /\ Init /\ [][Next]_vars
    /\ WF_vars(IrqRx) /\ WF_vars(IrqTx)
    /\ WF_vars(HostIn) /\ WF_vars(HostStatusOut) /\ WF_vars(HostStalled)
    /\ WF_vars(HostGivesUp) /\ WF_vars(Enumerate)
-----------------------------------------------------------------------------
(***************************************************************************)
(* Properties                                                              *)
(***************************************************************************)

\* What the host must get, by the request.
ReplyLen(req) == CASE req.name = "GET_DESCRIPTOR"    -> AtMost(req.value, req.wLength)
                   [] req.name = "GET_CONFIGURATION" -> 1
                   [] req.name = "GET_STATUS"        -> 2

\* When the host takes a data stage for finished, it has all of what it asked for,
\* in order, and nothing of an earlier transfer that it gave up: the three counters
\* (rem_length, total_length, xfer_len) and the closing empty packet agree.
DataStageExact ==
    /\ TypeOK
    /\ driver = "any" /\ host.phase = "status_out" =>
          host.right /\ host.got = ReplyLen(host.req)

\* A device that hears the host never leaves a transfer without an answer, whatever
\* transfer was given up before it: each stage ends with the next one armed, or with a
\* STALL. The requests of SilentReq are the ones it does leave so.
NeverMute == driver = "any" /\ Heard /\ Mute => host.req \in SilentReq

\* Address 0 is in force before the status stage, which a host at another address then
\* never sees.
ZeroUnderWay ==
    /\ host.phase = "status_in" /\ host.req.name = "SET_ADDRESS" /\ host.req.value = 0
    /\ dev.DADDR = 0

\* With no interrupt pending the device has the address the host uses, also in the
\* middle of a SET_ADDRESS for another address than 0, whose status stage still goes to
\* the old one, and after any transfers given up and any resets. The one other address
\* it may have is that of a SET_ADDRESS the host gave up, by a SETUP or by a reset, and
\* has not replaced: USB_Address outlives both and takes effect later.
AddressAgrees ==
    driver = "any" /\ ctr = {} =>
        dev.DADDR \in {host.addr, OFF} \cup host.stale \/ ZeroUnderWay

\* What the host takes for configured is configured, with every endpoint open and
\* enabled, and nothing else is, whatever calls were refused and interrupts late: the
\* lock that refuses USBD_ECM_Init its endpoints refuses the status stage too, so the
\* host does not take that SET_CONFIGURATION for done. (A host that gives up a
\* SET_CONFIGURATION is in doubt until it resets the bus: repeated, the request is
\* answered and opens nothing.)
ConfigurationAgrees ==
    host.phase = "idle" /\ host.config # NULL =>
        /\ host.config = 1 <=> dev.dev_state = "CONFIGURED"
        /\ host.config = 1 => \A e \in ClassEp : dev.ep[e].open /\ dev.ep[e].stat # "DIS"

\* Whatever resets, refused calls, late interrupts and abandoned transfers came before,
\* the host gets through to a configured device with its endpoints open. (They may stay
\* closed if the host repeats a SET_CONFIGURATION, instead of a reset, whose calls were
\* refused: the second one is answered and opens nothing.)
Enumerated ==
    []<>(driver = "enumerates" =>
         /\ host.step = 3
         /\ dev.dev_state = "CONFIGURED"
         /\ aborts = 0 => \A e \in ClassEp : dev.ep[e].open)
=============================================================================
