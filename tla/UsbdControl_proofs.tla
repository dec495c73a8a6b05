-------------------------- MODULE UsbdControl_proofs --------------------------
(***************************************************************************)
(* Control transfers, for every packet size, descriptor length, wLength    *)
(* and address, every order of requests and any number of transfers given  *)
(* up and of bus resets: the host gets what it asked for, is answered, and *)
(* agrees with the device on its address and on its configuration.         *)
(***************************************************************************)
EXTENDS UsbdControl, TLAPS

Any == driver = "any"

\* With this driver one interrupt is pending at a time; a pending SETUP is that of the
\* host's transfer, and what is pending in an idle host is the status stage's packet.
PendingInv ==
    /\ ctr \in {{}, {"TX"}, {"RX"}}
    /\ setup # NULL => ctr = {"RX"}
    /\ ctr = {"RX"} =>
          /\ setup = NULL => host.phase = "idle"
          /\ setup # NULL =>
                /\ setup = host.req /\ host.got = 0 /\ host.right
                /\ dev.IN_ep0.stat = "NAK" /\ dev.OUT_ep0.stat # "DIS"
                /\ host.phase = IF host.req.wLength > 0 THEN "data" ELSE "status_in"

\* The data stage of the host's request is the one the device is in.
SameData ==
    /\ dev.ep0_state = "DATA_IN" /\ host.right
    /\ host.req \in Requests /\ host.req.name # "SET_ADDRESS"
    /\ dev.total_length = ReplyLen(host.req)
    /\ dev.total_length \in 1 .. host.req.wLength

\* A packet is there to be fetched: the next one, where the host expects it, or the
\* empty one that closes the stage.
Offers ==
    \/ /\ dev.tag = host.req /\ dev.pma.tag = host.req
       /\ dev.pma.from = host.got /\ dev.IN_ep0.xfer_buff = host.got
       /\ dev.rem_length > 0 /\ host.got + dev.rem_length = dev.total_length
       /\ host.got % MaxPacket = 0
       /\ dev.pma.len = AtMost(dev.rem_length, MaxPacket)
       /\ dev.ep0_data_len = host.req.wLength
    \/ /\ dev.pma.len = 0 /\ dev.ep0_data_len = 0 /\ dev.rem_length <= MaxPacket
       /\ host.got = dev.total_length

\* A packet was fetched: there is more, or the empty packet is due, or that was all.
Owes ==
    \/ /\ host.phase = "data" /\ dev.tag = host.req
       /\ dev.pma.len = MaxPacket /\ dev.IN_ep0.xfer_buff + MaxPacket = host.got
       /\ dev.rem_length > MaxPacket
       /\ host.got + dev.rem_length = dev.total_length + MaxPacket
       /\ host.got % MaxPacket = 0
       /\ dev.ep0_data_len = host.req.wLength
    \/ /\ host.phase = "data" /\ host.got = dev.total_length
       /\ dev.rem_length <= MaxPacket
       /\ dev.total_length % MaxPacket = 0 /\ dev.total_length >= MaxPacket
       /\ dev.total_length < dev.ep0_data_len
    \/ /\ host.phase = "status_out" /\ host.got = dev.total_length
       /\ dev.rem_length <= MaxPacket
       /\ ~ /\ dev.total_length % MaxPacket = 0 /\ dev.total_length >= MaxPacket
            /\ dev.total_length < dev.ep0_data_len

DataInv ==
    /\ ctr = {} /\ host.phase = "data" /\ dev.IN_ep0.stat = "VALID" => SameData /\ Offers
    /\ ctr = {"TX"} /\ host.phase # "idle" => SameData /\ Owes
    /\ ctr = {} /\ host.phase = "status_out" =>
          /\ host.right /\ host.got = ReplyLen(host.req)
          /\ host.req.wLength > 0 /\ host.req.name # "SET_ADDRESS"
          /\ dev.OUT_ep0.stat = "VALID"

\* What the host waits for is there, or a STALL.
AnswerInv ==
    ctr = {} /\ host.phase \in {"data", "status_in"} /\ host.req \notin SilentReq =>
       dev.IN_ep0.stat \in {"VALID", "STALL"}

\* The status stage of a SET_ADDRESS is there to be fetched.
AddressAsked ==
    /\ ctr = {} /\ host.phase = "status_in"
    /\ host.req.name = "SET_ADDRESS" /\ dev.IN_ep0.stat = "VALID"

\* An address that the next "TX COMPLETE" puts in force.
AddressReady ==
    /\ dev.USB_Address # 0 /\ dev.IN_ep0.xfer_len = 0 /\ dev.ep0_state = "STATUS_IN"

\* An address is pending from the SETUP that gives it to the status stage's interrupt,
\* or from a SET_ADDRESS that was given up and not replaced.
AddressInv ==
    /\ AddressAsked => /\ host.req.value # 0 =>
                              dev.USB_Address = host.req.value /\ AddressReady
                       /\ host.req.value = 0 => dev.DADDR = 0
    /\ \/ dev.USB_Address \in {0} \cup host.stale
       \/ AddressAsked /\ dev.USB_Address = host.req.value
       \/ ctr = {"TX"} /\ dev.USB_Address = host.addr /\ AddressReady
    /\ ctr = {} => dev.DADDR \in {host.addr, OFF} \cup host.stale \/ ZeroUnderWay
    /\ ctr = {"RX"} => dev.DADDR = host.addr
    /\ ctr = {"TX"} => \/ dev.DADDR = host.addr
                       \/ dev.USB_Address = host.addr /\ AddressReady

AnyInv == PendingInv /\ DataInv /\ AnswerInv /\ AddressInv

\* The device is in configuration c, with the endpoints that go with it.
Agreed(c, d) ==
    /\ c = 1 <=> d.dev_state = "CONFIGURED"
    /\ c = 1 => \A e \in ClassEp : d.ep[e].open /\ d.ep[e].stat # "DIS"

\* A SET_CONFIGURATION was handled and its status stage is not yet fetched.
Configuring ==
    host.phase # "idle" /\ setup = NULL /\ host.req.name = "SET_CONFIGURATION"

\* With either driver: a pending SETUP is that of the host's transfer, and no late
\* interrupt goes on with a data stage after SET_CONFIGURATION.
HandshakeInv ==
    /\ setup # NULL =>
          /\ "RX" \in ctr /\ setup = host.req
          /\ host.phase = IF host.req.wLength > 0 THEN "data" ELSE "status_in"
          /\ dev.IN_ep0.stat = "NAK"
    /\ Configuring => host.phase = "status_in" /\ dev.ep0_state # "DATA_IN"

\* The host and the device agree on the configuration; while a SET_CONFIGURATION is on
\* its way they do so by what the status stage will say.
ConfigInv ==
    host.config # NULL =>
       /\ ~Configuring => Agreed(host.config, dev)
       /\ Configuring /\ dev.IN_ep0.stat = "VALID" => Agreed(host.req.value, dev)
       /\ Configuring /\ dev.IN_ep0.stat = "STALL" => Agreed(host.config, dev)

\* A transfer of the host has a request.
HostAsks == host.phase # "idle" => host.req \in Requests

ControlInv == TypeOK /\ HostAsks /\ HandshakeInv /\ ConfigInv /\ (Any => AnyInv)
-----------------------------------------------------------------------------
(***************************************************************************)
(* Requests and the types of the handlers                                  *)
(***************************************************************************)

\* The requests, one by one.
LEMMA RequestKinds ==
    ASSUME NEW r \in Requests
    PROVE  /\ r.value \in Nat /\ r.wIndex \in Nat /\ r.wLength \in Nat
           /\ r.name = "SET_ADDRESS" => r.value \in Addresses
           /\ \/ /\ r.to = "DEV"
                 /\ \/ /\ r.name = "GET_DESCRIPTOR" /\ r.value \in DescLens \cup {0}
                       /\ r.wLength = 0 => r \in SilentReq /\ r.value # 0
                    \/ r.name = "SET_ADDRESS" /\ r.value \in Addresses
                    \/ /\ r.name = "SET_CONFIGURATION" /\ r.wLength = 0
                       /\ r.value \in 0 .. 2
                    \/ r.name = "GET_CONFIGURATION" /\ r.wLength = 1
                    \/ r.name = "GET_STATUS" /\ r.wLength = 2
                    \/ /\ r.name \in {"SET_FEATURE", "CLEAR_FEATURE"} /\ r.wLength = 0
                       /\ r.value # REMOTE_WAKEUP => r \in SilentReq
                    \/ r.name = "OTHER" /\ r.wLength = 0
              \/ /\ r.to = "ITF"
                 /\ \/ r.name = "SET_ETHERNET_PACKET_FILTER" /\ r.wLength = 0
                    \/ /\ r.name = "OTHER" /\ r.wLength = 1
                       /\ r \in SilentReq \/ r.wIndex > USBD_MAX_NUM_INTERFACES
              \/ /\ r.to = "EP" /\ r.wIndex \in ClassEp \cup ControlEp /\ r \in SilentReq
                 /\ \/ r.name \in {"SET_FEATURE", "CLEAR_FEATURE", "OTHER"} /\ r.wLength = 0
                    \/ r.name = "GET_STATUS" /\ r.wLength = 2
              \/ r.to = "OTHER" /\ r.name = "OTHER" /\ r.wLength = 0
<1>0. /\ DescLens \subseteq Nat \ {0} /\ WLengths \subseteq Nat /\ Addresses \subseteq 0 .. 127
      /\ HaltEps \subseteq {0, 128, 129, 130, 3}
  BY DescAssumption, AddressAssumption, HaltAssumption
<1>1. CASE r \in AnsweredReq
  <2>1. CASE r \in {Req("DEV", "GET_DESCRIPTOR", len, 0, w) :
                       len \in DescLens \cup {0}, w \in WLengths \ {0}}
    <3>1. PICK len \in DescLens \cup {0}, w \in WLengths \ {0} :
             r = Req("DEV", "GET_DESCRIPTOR", len, 0, w)
      BY <2>1
    <3>2. /\ r.to = "DEV" /\ r.name = "GET_DESCRIPTOR" /\ r.value = len
          /\ r.wIndex = 0 /\ r.wLength = w
      BY <3>1 DEF Req
    <3>. QED  BY <1>0, <3>2
  <2>2. CASE \/ r \in {Req("DEV", "SET_ADDRESS", a, 0, 0) : a \in Addresses}
             \/ r \in {Req("DEV", "SET_ADDRESS", a, 1, 0) : a \in Addresses}
             \/ r \in {Req("DEV", "SET_ADDRESS", a, 0, 1) : a \in Addresses}
    <3>1. PICK a \in Addresses : r = Req("DEV", "SET_ADDRESS", a, 0, 0)
                                  \/ r = Req("DEV", "SET_ADDRESS", a, 1, 0)
                                  \/ r = Req("DEV", "SET_ADDRESS", a, 0, 1)
      BY <2>2
    <3>2. /\ r.to = "DEV" /\ r.name = "SET_ADDRESS" /\ r.value = a
          /\ r.wIndex \in Nat /\ r.wLength \in Nat
      BY <3>1 DEF Req
    <3>. QED  BY <1>0, <3>2
  <2>3. CASE r \in {Req("DEV", "SET_CONFIGURATION", c, 0, 0) : c \in 0 .. 2}
    BY <2>3 DEF Req
  <2>4. CASE \/ r = Req("DEV", "GET_CONFIGURATION", 0, 0, 1)
             \/ r = Req("DEV", "GET_STATUS", 0, 0, 2)
             \/ r = Req("DEV", "SET_FEATURE", REMOTE_WAKEUP, 0, 0)
             \/ r = Req("DEV", "CLEAR_FEATURE", REMOTE_WAKEUP, 0, 0)
             \/ r = Req("DEV", "OTHER", 0, 0, 0)
             \/ r = Req("ITF", "SET_ETHERNET_PACKET_FILTER", 0, 0, 0)
             \/ r = Req("ITF", "OTHER", 0, USBD_MAX_NUM_INTERFACES + 1, 1)
             \/ r = Req("OTHER", "OTHER", 0, 0, 0)
    BY <2>4 DEF Req, REMOTE_WAKEUP, USBD_MAX_NUM_INTERFACES
  <2>. QED  BY <1>1, <2>1, <2>2, <2>3, <2>4 DEF AnsweredReq
<1>2. CASE r \in SilentReq
  <2>1. CASE \/ r \in {Req("DEV", "GET_DESCRIPTOR", len, 0, 0) : len \in DescLens}
             \/ r \in {Req("DEV", "SET_FEATURE", 0, 0, 0), Req("DEV", "CLEAR_FEATURE", 0, 0, 0)}
             \/ r = Req("ITF", "OTHER", 0, 0, 1)
    BY <1>0, <1>2, <2>1 DEF Req
  <2>2. CASE \/ r \in {Req("EP", name, feature, ep, 0) :
                          name \in {"SET_FEATURE", "CLEAR_FEATURE"},
                          feature \in {EP_HALT, EP_HALT + 1}, ep \in HaltEps}
             \/ r \in {Req("EP", "GET_STATUS", 0, ep, 2) : ep \in HaltEps}
             \/ r = Req("EP", "OTHER", 0, ECM_DATA_OUT_EP, 0)
    BY <1>0, <1>2, <2>2 DEF Req, ClassEp, ControlEp, ECM_NOTIFICATION_IN_EP, ECM_DATA_IN_EP,
       ECM_DATA_OUT_EP, EP_HALT
  <2>. QED  BY <1>2, <2>1, <2>2 DEF SilentReq
<1>. QED  BY <1>1, <1>2 DEF Requests

ClassEndpoint == [open : BOOLEAN, stat : Stat, is_stall : BOOLEAN]

\* The states of the device.
Dev == [dev_state : DevState, dev_config : 0 .. 1, dev_remote_wakeup : 0 .. 1,
        ep0_state : Ep0State, ep0_data_len : Nat,
        total_length : Nat, rem_length : Nat,
        IN_ep0 : Endpoint, OUT_ep0 : Endpoint,
        tag : Requests \cup {NULL}, pma : Packet,
        USB_Address : Addresses \cup {0}, DADDR : Addresses \cup {0, OFF},
        ep : [ClassEp -> ClassEndpoint]]

\* Arming endpoint 0: what HAL_PCD_EP_Transmit and HAL_PCD_EP_Receive do to it.
LEMMA Armed ==
    ASSUME NEW ep \in Endpoint, NEW buf \in Nat, NEW len \in Nat, NEW locked \in BOOLEAN
    PROVE  LET x == XferUnlessLocked(ep, buf, len, locked)
           IN  /\ x \in Endpoint /\ x.xfer_buff = buf
               /\ ~locked => x.stat = "VALID" /\ x.xfer_len = XferRemaining(len)
               /\ locked => x.stat = ep.stat
<1> DEFINE set == XferSetup(ep, buf, len)
<1>1. set \in Endpoint /\ set.xfer_buff = buf /\ set.stat = ep.stat
  BY DEF XferSetup, Endpoint
<1>2. XferRemaining(len) \in Nat
  BY MaxPacketAssumption DEF XferRemaining
<1>3. CASE locked
  BY <1>1, <1>3 DEF XferUnlessLocked
<1>4. CASE ~locked
  <2> DEFINE x == XferArm([set EXCEPT !.xfer_len = XferRemaining(len)])
  <2>1. x \in Endpoint /\ x.xfer_buff = buf /\ x.stat = "VALID" /\ x.xfer_len = XferRemaining(len)
    BY <1>1, <1>2 DEF XferArm, Endpoint, Stat
  <2>. QED  BY <1>4, <2>1 DEF XferUnlessLocked
<1>. QED  BY <1>3, <1>4

\* What only the transfer fields of endpoint 0 may tell apart.
SameButTransfer(d, e) ==
    /\ e.dev_state = d.dev_state /\ e.ep = d.ep
    /\ e.DADDR = d.DADDR /\ e.USB_Address = d.USB_Address

LEMMA TransmitDoes ==
    ASSUME NEW d \in Dev, NEW tag \in Requests \cup {NULL}, NEW at \in Nat, NEW len \in Nat,
           NEW locked \in BOOLEAN
    PROVE  LET e == Transmit(d, tag, at, len, locked)
           IN  /\ e \in Dev /\ SameButTransfer(d, e) /\ e.OUT_ep0 = d.OUT_ep0
               /\ e.ep0_state = d.ep0_state /\ e.ep0_data_len = d.ep0_data_len
               /\ e.total_length = d.total_length /\ e.rem_length = d.rem_length
               /\ e.tag = tag /\ e.IN_ep0.xfer_buff = at
               /\ locked => e.IN_ep0.stat = d.IN_ep0.stat
               /\ ~locked => /\ e.IN_ep0.stat = "VALID"
                             /\ e.IN_ep0.xfer_len = XferRemaining(len)
                             /\ e.pma.tag = tag /\ e.pma.from = at
                             /\ e.pma.len = AtMost(len, MaxPacket)
<1> DEFINE e == Transmit(d, tag, at, len, locked)
           x == HAL_PCD_EP_Transmit(d.IN_ep0, at, len, locked)
           y == IF locked THEN d.pma
                ELSE [tag |-> tag, from |-> at, len |-> AtMost(len, MaxPacket)]
<1>1. /\ x \in Endpoint /\ x.xfer_buff = at
      /\ ~locked => x.stat = "VALID" /\ x.xfer_len = XferRemaining(len)
      /\ locked => x.stat = d.IN_ep0.stat
  <2>1. d.IN_ep0 \in Endpoint
    BY DEF Dev
  <2>. QED  BY <2>1, Armed DEF HAL_PCD_EP_Transmit
<1>2. /\ y \in Packet
      /\ ~locked => y.tag = tag /\ y.from = at /\ y.len = AtMost(len, MaxPacket)
  BY MaxPacketAssumption DEF Packet, AtMost, Dev
<1>3. e = [d EXCEPT !.IN_ep0 = x, !.tag = tag, !.pma = y]
  BY DEF Transmit, Dev
<1> HIDE DEF e, x, y
<1>4. e \in Dev
  BY <1>1, <1>2, <1>3 DEF Dev
<1>5. /\ SameButTransfer(d, e) /\ e.OUT_ep0 = d.OUT_ep0
      /\ e.ep0_state = d.ep0_state /\ e.ep0_data_len = d.ep0_data_len
      /\ e.total_length = d.total_length /\ e.rem_length = d.rem_length
      /\ e.tag = tag /\ e.IN_ep0 = x /\ e.pma = y
  BY <1>3 DEF Dev, SameButTransfer
<1>. QED  BY <1>1, <1>2, <1>4, <1>5 DEF e
-----------------------------------------------------------------------------
(***************************************************************************)
(* What a SETUP comes to: a STALL, a status stage, a data stage or, for    *)
(* the requests of SilentReq, nothing.                                     *)
(***************************************************************************)

\* d's configuration is e's, and endpoints that are open and enabled stay so.
ConfSame(d, e) ==
    /\ e.dev_state = "CONFIGURED" <=> d.dev_state = "CONFIGURED"
    /\ \A n \in ClassEp : d.ep[n].open /\ d.ep[n].stat # "DIS" =>
                            e.ep[n].open /\ e.ep[n].stat # "DIS"

\* Only SET_ADDRESS(0) changes DADDR.
DaddrKept(d, req, e) ==
    \/ e.DADDR = d.DADDR
    \/ /\ req.name = "SET_ADDRESS" /\ req.value = 0 /\ req.wLength = 0
       /\ e.DADDR = 0

\* d with the effect of the request and not yet its answer is x.
Prepared(d, req, x) ==
    /\ x \in Dev /\ x.IN_ep0 = d.IN_ep0 /\ x.OUT_ep0 = d.OUT_ep0
    /\ x.ep0_data_len = d.ep0_data_len /\ DaddrKept(d, req, x)
    /\ req.name # "SET_CONFIGURATION" => ConfSame(d, x)

Refused(d, e) == e.IN_ep0.stat = "STALL" /\ e.USB_Address = d.USB_Address

\* What SET_ADDRESS does, and no other request.
AddressGiven(d, req, e) ==
    IF req.name # "SET_ADDRESS" THEN e.USB_Address = d.USB_Address
    ELSE IF req.value # 0 THEN e.USB_Address = req.value
                          ELSE e.USB_Address = d.USB_Address /\ e.DADDR = 0

StatusStage(d, req, e) ==
    /\ req.wLength = 0
    /\ e.ep0_state = "STATUS_IN" /\ e.IN_ep0.stat = "VALID" /\ e.IN_ep0.xfer_len = 0
    /\ AddressGiven(d, req, e)

DataStage(d, req, e) ==
    /\ e.USB_Address = d.USB_Address /\ req.name # "SET_ADDRESS"
    /\ e.ep0_state = "DATA_IN" /\ e.IN_ep0.stat = "VALID"
    /\ ReplyLen(req) \in 1 .. req.wLength
    /\ e.total_length = ReplyLen(req) /\ e.rem_length = ReplyLen(req)
    /\ e.tag = req /\ e.IN_ep0.xfer_buff = 0
    /\ e.pma.tag = req /\ e.pma.from = 0 /\ e.pma.len = AtMost(ReplyLen(req), MaxPacket)

Silent(d, req, e) ==
    req \in SilentReq /\ e.IN_ep0 = d.IN_ep0 /\ e.USB_Address = d.USB_Address

Outcome(d, req, e, locked) ==
    /\ e \in Dev /\ DaddrKept(d, req, e) /\ e.ep0_data_len = d.ep0_data_len
    /\ e.OUT_ep0.stat \in {d.OUT_ep0.stat, "STALL"}
    /\ req.name # "SET_CONFIGURATION" => ConfSame(d, e)
    /\ ~locked => \/ Refused(d, e) \/ StatusStage(d, req, e)
                  \/ DataStage(d, req, e) \/ Silent(d, req, e)

LEMMA ErrorOutcome ==
    ASSUME NEW d \in Dev, NEW req, NEW locked \in BOOLEAN
    PROVE  Outcome(d, req, USBD_CtlError(d, locked), locked)
<1>1. CASE locked
  BY <1>1 DEF Outcome, USBD_CtlError, DaddrKept, ConfSame
<1>2. CASE ~locked
  <2> DEFINE e == [d EXCEPT !.IN_ep0.stat = "STALL", !.OUT_ep0.stat = "STALL"]
             x == [d.IN_ep0 EXCEPT !.stat = "STALL"]
             y == [d.OUT_ep0 EXCEPT !.stat = "STALL"]
  <2>1. x \in Endpoint /\ y \in Endpoint /\ x.stat = "STALL" /\ y.stat = "STALL"
    BY DEF Dev, Endpoint, Stat
  <2>2. e = [d EXCEPT !.IN_ep0 = x, !.OUT_ep0 = y]
    BY DEF Dev
  <2> HIDE DEF e, x, y
  <2>3. /\ e \in Dev /\ e.DADDR = d.DADDR /\ e.ep0_data_len = d.ep0_data_len
        /\ e.OUT_ep0 = y /\ e.IN_ep0 = x /\ e.USB_Address = d.USB_Address
        /\ e.dev_state = d.dev_state /\ e.ep = d.ep
    BY <2>1, <2>2 DEF Dev
  <2>4. Outcome(d, req, e, locked)
    BY <1>2, <2>1, <2>3 DEF Outcome, Refused, DaddrKept, ConfSame
  <2>. QED  BY <1>2, <2>4 DEF USBD_CtlError, e
<1>. QED  BY <1>1, <1>2

LEMMA StatusOutcome ==
    ASSUME NEW d \in Dev, NEW req \in Requests, NEW x, NEW locked \in BOOLEAN,
           Prepared(d, req, x), req.wLength = 0, ~locked => AddressGiven(d, req, x)
    PROVE  Outcome(d, req, USBD_CtlSendStatus(x, locked), locked)
<1> DEFINE y == [x EXCEPT !.ep0_state = "STATUS_IN"]
           e == Transmit(y, NULL, 0, 0, locked)
<1>1. /\ y \in Dev /\ y.ep0_state = "STATUS_IN" /\ y.IN_ep0 = x.IN_ep0 /\ y.OUT_ep0 = x.OUT_ep0
      /\ y.ep0_data_len = x.ep0_data_len /\ SameButTransfer(x, y)
  BY DEF Prepared, Dev, Ep0State, SameButTransfer
<1> HIDE DEF y
<1>2. /\ e \in Dev /\ SameButTransfer(y, e) /\ e.OUT_ep0 = y.OUT_ep0
      /\ e.ep0_state = "STATUS_IN" /\ e.ep0_data_len = y.ep0_data_len
      /\ ~locked => e.IN_ep0.stat = "VALID" /\ e.IN_ep0.xfer_len = XferRemaining(0)
  BY <1>1, TransmitDoes
<1>3. XferRemaining(0) = 0
  BY MaxPacketAssumption DEF XferRemaining
<1> HIDE DEF e
<1>4. Outcome(d, req, e, locked)
  <2>1. e.DADDR = x.DADDR /\ e.USB_Address = x.USB_Address /\ e.dev_state = x.dev_state /\ e.ep = x.ep
    BY <1>1, <1>2 DEF SameButTransfer
  <2>2. DaddrKept(d, req, e) /\ (req.name # "SET_CONFIGURATION" => ConfSame(d, e))
    BY <2>1 DEF Prepared, DaddrKept, ConfSame
  <2>3. ~locked => AddressGiven(d, req, e)
    BY <2>1 DEF AddressGiven
  <2>. QED  BY <1>1, <1>2, <1>3, <2>2, <2>3 DEF Outcome, StatusStage, Prepared
<1>. QED  BY <1>4 DEF USBD_CtlSendStatus, e, y

LEMMA DataOutcome ==
    ASSUME NEW d \in Dev, NEW req \in Requests, NEW len, NEW locked \in BOOLEAN,
           len = ReplyLen(req), len \in 1 .. req.wLength, req.name # "SET_ADDRESS"
    PROVE  Outcome(d, req, USBD_CtlSendData(d, req, len, locked), locked)
<1> DEFINE y == [d EXCEPT !.ep0_state = "DATA_IN", !.total_length = len, !.rem_length = len]
           e == Transmit(y, req, 0, len, locked)
<1>0. len \in Nat
  BY RequestKinds
<1>1. /\ y \in Dev /\ y.ep0_state = "DATA_IN" /\ y.IN_ep0 = d.IN_ep0 /\ y.OUT_ep0 = d.OUT_ep0
      /\ y.ep0_data_len = d.ep0_data_len /\ SameButTransfer(d, y)
      /\ y.total_length = len /\ y.rem_length = len
  BY <1>0 DEF Dev, Ep0State, SameButTransfer
<1> HIDE DEF y
<1>2. /\ e \in Dev /\ SameButTransfer(y, e) /\ e.OUT_ep0 = y.OUT_ep0
      /\ e.ep0_state = "DATA_IN" /\ e.ep0_data_len = y.ep0_data_len
      /\ e.total_length = len /\ e.rem_length = len
      /\ e.tag = req /\ e.IN_ep0.xfer_buff = 0
      /\ ~locked => /\ e.IN_ep0.stat = "VALID"
                    /\ e.pma.tag = req /\ e.pma.from = 0 /\ e.pma.len = AtMost(len, MaxPacket)
  BY <1>0, <1>1, TransmitDoes
<1> HIDE DEF e
<1>3. Outcome(d, req, e, locked)
  BY <1>1, <1>2 DEF Outcome, DataStage, DaddrKept, ConfSame, SameButTransfer
<1>. QED  BY <1>3 DEF USBD_CtlSendData, e, y

LEMMA SilentOutcome ==
    ASSUME NEW d \in Dev, NEW req \in SilentReq, NEW x, NEW locked \in BOOLEAN,
           Prepared(d, req, x), x.USB_Address = d.USB_Address
    PROVE  Outcome(d, req, x, locked)
BY DEF Outcome, Prepared, Silent

\* The requests for data, usbd_ctlreq.c.
LEMMA DataHandlers ==
    ASSUME NEW d \in Dev, NEW req \in Requests, NEW locked \in BOOLEAN, req.to = "DEV"
    PROVE  /\ req.name = "GET_DESCRIPTOR" =>
                 Outcome(d, req, USBD_GetDescriptor(d, req, locked), locked)
           /\ req.name = "GET_CONFIGURATION" =>
                 Outcome(d, req, USBD_GetConfig(d, req, locked), locked)
           /\ req.name = "GET_STATUS" =>
                 Outcome(d, req, USBD_GetStatus(d, req, locked), locked)
<1>0. Prepared(d, req, d)
  BY DEF Prepared, DaddrKept, ConfSame
<1>1. ASSUME req.name = "GET_DESCRIPTOR"
      PROVE  Outcome(d, req, USBD_GetDescriptor(d, req, locked), locked)
  <2>1. /\ req.value \in Nat /\ req.wLength \in Nat
        /\ req.wLength = 0 => req \in SilentReq /\ req.value # 0
    BY <1>1, RequestKinds
  <2>2. CASE req.value = 0
    BY <2>2, ErrorOutcome DEF USBD_GetDescriptor
  <2>3. CASE req.value # 0 /\ req.wLength # 0
    <3> DEFINE len == AtMost(req.value, req.wLength)
    <3>1. len = ReplyLen(req) /\ len \in 1 .. req.wLength
      BY <1>1, <2>1, <2>3 DEF ReplyLen, AtMost
    <3> HIDE DEF len
    <3>2. Outcome(d, req, USBD_CtlSendData(d, req, len, locked), locked)
      BY <1>1, <3>1, DataOutcome
    <3>. QED  BY <2>3, <3>2 DEF USBD_GetDescriptor, len
  <2>4. CASE req.value # 0 /\ req.wLength = 0
    BY <1>0, <2>1, <2>4, SilentOutcome DEF USBD_GetDescriptor
  <2>. QED  BY <2>2, <2>3, <2>4
<1>2. ASSUME req.name = "GET_CONFIGURATION"
      PROVE  Outcome(d, req, USBD_GetConfig(d, req, locked), locked)
  <2>1. ReplyLen(req) = 1 /\ req.wLength = 1
    BY <1>2, RequestKinds DEF ReplyLen
  <2>2. Outcome(d, req, USBD_CtlSendData(d, req, 1, locked), locked)
    BY <1>2, <2>1, DataOutcome
  <2>. QED  BY <2>2, ErrorOutcome DEF USBD_GetConfig
<1>3. ASSUME req.name = "GET_STATUS"
      PROVE  Outcome(d, req, USBD_GetStatus(d, req, locked), locked)
  <2>1. ReplyLen(req) = 2 /\ req.wLength = 2
    BY <1>3, RequestKinds DEF ReplyLen
  <2>2. Outcome(d, req, USBD_CtlSendData(d, req, 2, locked), locked)
    BY <1>3, <2>1, DataOutcome
  <2>. QED  BY <2>2, ErrorOutcome DEF USBD_GetStatus
<1>. QED  BY <1>1, <1>2, <1>3

LEMMA AddressHandler ==
    ASSUME NEW d \in Dev, NEW req \in Requests, NEW locked \in BOOLEAN,
           req.to = "DEV", req.name = "SET_ADDRESS"
    PROVE  Outcome(d, req, USBD_SetAddress(d, req, locked), locked)
<1>1. req.value \in Addresses /\ req.wLength \in Nat
  BY RequestKinds
<1>2. CASE req.wIndex # 0 \/ req.wLength # 0 \/ d.dev_state = "CONFIGURED"
  BY <1>2, ErrorOutcome DEF USBD_SetAddress
<1>3. CASE ~(req.wIndex # 0 \/ req.wLength # 0 \/ d.dev_state = "CONFIGURED")
  <2> DEFINE x == HAL_PCD_SetAddress(d, req.value, locked)
             y == USBD_CtlSendStatus(x, locked)
             st == IF req.value # 0 THEN "ADDRESSED" ELSE "DEFAULT"
             e == [y EXCEPT !.dev_state = st]
  <2>1. /\ x \in Dev /\ x.IN_ep0 = d.IN_ep0 /\ x.OUT_ep0 = d.OUT_ep0
        /\ x.ep0_data_len = d.ep0_data_len /\ x.dev_state = d.dev_state /\ x.ep = d.ep
        /\ x.DADDR = d.DADDR \/ (req.value = 0 /\ x.DADDR = 0)
        /\ ~locked => IF req.value # 0 THEN x.USB_Address = req.value
                      ELSE x.USB_Address = d.USB_Address /\ x.DADDR = 0
    <3>1. CASE locked
      BY <3>1 DEF HAL_PCD_SetAddress
    <3>2. CASE ~locked /\ req.value = 0
      BY <3>2 DEF HAL_PCD_SetAddress, Dev
    <3>3. CASE ~locked /\ req.value # 0
      BY <1>1, <3>3 DEF HAL_PCD_SetAddress, Dev
    <3>. QED  BY <3>1, <3>2, <3>3
  <2> HIDE DEF x
  <2>2. Prepared(d, req, x) /\ (~locked => AddressGiven(d, req, x))
    BY <1>3, <2>1 DEF Prepared, AddressGiven, DaddrKept, ConfSame
  <2>3. Outcome(d, req, y, locked)
    BY <1>3, <2>2, StatusOutcome
  <2> HIDE DEF y
  <2>4. st \in DevState /\ st # "CONFIGURED"
    BY DEF DevState
  <2> HIDE DEF st
  <2>5. /\ e \in Dev /\ e.dev_state = st /\ e.IN_ep0 = y.IN_ep0 /\ e.OUT_ep0 = y.OUT_ep0
        /\ e.DADDR = y.DADDR /\ e.ep0_data_len = y.ep0_data_len /\ e.ep = y.ep
        /\ e.USB_Address = y.USB_Address /\ e.ep0_state = y.ep0_state /\ e.tag = y.tag
        /\ e.total_length = y.total_length /\ e.rem_length = y.rem_length /\ e.pma = y.pma
    BY <2>3, <2>4 DEF Outcome, Dev
  <2> HIDE DEF e
  <2>6. Outcome(d, req, e, locked)
    <3>1. DaddrKept(d, req, e) /\ ConfSame(d, e)
      BY <1>3, <2>3, <2>4, <2>5 DEF Outcome, DaddrKept, ConfSame
    <3>2. /\ Refused(d, y) => Refused(d, e)
          /\ StatusStage(d, req, y) => StatusStage(d, req, e)
          /\ ~DataStage(d, req, y)
          /\ Silent(d, req, y) => Silent(d, req, e)
      BY <2>5 DEF Refused, StatusStage, DataStage, Silent, AddressGiven
    <3>. QED  BY <2>3, <2>5, <3>1, <3>2 DEF Outcome
  <2>. QED  BY <1>3, <2>6 DEF USBD_SetAddress, e, y, x, st
<1>. QED  BY <1>2, <1>3

\* USBD_ECM_Init and USBD_ECM_DeInit keep the endpoints' types; unless its calls are
\* refused, the first one opens them all.
LEMMA ClassInit ==
    ASSUME NEW d \in Dev, NEW locked \in BOOLEAN
    PROVE  LET x == USBD_ECM_Init(d, locked)
               y == USBD_ECM_DeInit(d, locked)
           IN  /\ x \in Dev /\ y \in Dev
               /\ x = [d EXCEPT !.ep = x.ep] /\ y = [d EXCEPT !.ep = y.ep]
               /\ ~locked => \A e \in ClassEp : x.ep[e].open /\ x.ep[e].stat # "DIS"
<1> DEFINE opened(e) == HAL_PCD_EP_Open(d.ep[e], e # ECM_DATA_OUT_EP, locked)
           closed(e) == HAL_PCD_EP_Close(d.ep[e], locked)
           f == [e \in ClassEp |-> opened(e)]
           g == [e \in ClassEp |-> closed(e)]
           x == [d EXCEPT !.ep = f]
           y == [d EXCEPT !.ep = g]
<1>1. \A e \in ClassEp : d.ep[e] \in ClassEndpoint
  BY DEF Dev
<1>2. \A e \in ClassEp : opened(e) \in ClassEndpoint /\ closed(e) \in ClassEndpoint
  BY <1>1 DEF HAL_PCD_EP_Open, HAL_PCD_EP_Close, ClassEndpoint, Stat
<1>3. ~locked => \A e \in ClassEp : opened(e).open /\ opened(e).stat # "DIS"
  BY <1>1 DEF HAL_PCD_EP_Open, ClassEndpoint
<1>4. x = USBD_ECM_Init(d, locked) /\ y = USBD_ECM_DeInit(d, locked)
  BY DEF USBD_ECM_Init, USBD_ECM_DeInit
<1> HIDE DEF opened, closed
<1>5. f \in [ClassEp -> ClassEndpoint] /\ g \in [ClassEp -> ClassEndpoint]
  BY <1>2
<1>6. ~locked => \A e \in ClassEp : f[e].open /\ f[e].stat # "DIS"
  BY <1>3
<1> HIDE DEF f, g
<1>7. x \in Dev /\ y \in Dev /\ x.ep = f /\ y.ep = g
  BY <1>5 DEF Dev
<1>8. x = [d EXCEPT !.ep = x.ep] /\ y = [d EXCEPT !.ep = y.ep]
  BY <1>7
<1> HIDE DEF x, y
<1>9. ~locked => \A e \in ClassEp : x.ep[e].open /\ x.ep[e].stat # "DIS"
  BY <1>6, <1>7
<1>. QED  BY <1>4, <1>7, <1>8, <1>9

\* SET_CONFIGURATION ends in a status stage and the new configuration, or in a STALL
\* and the old one; with its calls refused, in no answer.
LEMMA ConfigHandler ==
    ASSUME NEW d \in Dev, NEW req \in Requests, NEW locked \in BOOLEAN,
           req.to = "DEV", req.name = "SET_CONFIGURATION"
    PROVE  LET e == USBD_SetConfig(d, req, locked)
           IN  /\ Outcome(d, req, e, locked)
               /\ e.ep0_state \in {d.ep0_state, "STATUS_IN"}
               /\ locked => e.IN_ep0.stat = d.IN_ep0.stat
               /\ \A c : ~locked /\ Agreed(c, d) =>
                     \/ e.IN_ep0.stat = "VALID" /\ Agreed(req.value, e)
                     \/ e.IN_ep0.stat = "STALL" /\ Agreed(c, e)
<1> DEFINE Good(e) ==
              /\ Outcome(d, req, e, locked)
              /\ e.ep0_state \in {d.ep0_state, "STATUS_IN"}
              /\ locked => e.IN_ep0.stat = d.IN_ep0.stat
              /\ \A c : ~locked /\ Agreed(c, d) =>
                    \/ e.IN_ep0.stat = "VALID" /\ Agreed(req.value, e)
                    \/ e.IN_ep0.stat = "STALL" /\ Agreed(c, e)
<1>1. req.wLength = 0 /\ req.value \in Nat
  BY RequestKinds
<1>2. ASSUME NEW x, x \in Dev, x.IN_ep0 = d.IN_ep0, x.OUT_ep0 = d.OUT_ep0,
             x.DADDR = d.DADDR, x.ep0_data_len = d.ep0_data_len,
             x.USB_Address = d.USB_Address,
             \A c : ~locked /\ Agreed(c, d) => Agreed(req.value, x)
      PROVE  Good(USBD_CtlSendStatus(x, locked))
  <2> DEFINE y == [x EXCEPT !.ep0_state = "STATUS_IN"]
             e == Transmit(y, NULL, 0, 0, locked)
  <2>1. Prepared(d, req, x) /\ AddressGiven(d, req, x)
    BY <1>2 DEF Prepared, AddressGiven, DaddrKept
  <2>2. Outcome(d, req, USBD_CtlSendStatus(x, locked), locked)
    BY <1>1, <2>1, StatusOutcome
  <2>3. /\ y \in Dev /\ y.ep0_state = "STATUS_IN" /\ y.IN_ep0 = x.IN_ep0
        /\ y.dev_state = x.dev_state /\ y.ep = x.ep
    BY <1>2 DEF Dev, Ep0State
  <2> HIDE DEF y
  <2>4. /\ SameButTransfer(y, e) /\ e.ep0_state = "STATUS_IN"
        /\ IF locked THEN e.IN_ep0.stat = y.IN_ep0.stat ELSE e.IN_ep0.stat = "VALID"
    BY <2>3, TransmitDoes
  <2>5. e = USBD_CtlSendStatus(x, locked)
    BY DEF USBD_CtlSendStatus, y
  <2> HIDE DEF e
  <2>6. \A c : ~locked /\ Agreed(c, d) => Agreed(req.value, e)
    BY <1>2, <2>3, <2>4 DEF Agreed, SameButTransfer
  <2>. QED  BY <1>2, <2>2, <2>3, <2>4, <2>5, <2>6
<1>3. Good(USBD_CtlError(d, locked))
  <2> DEFINE e == USBD_CtlError(d, locked)
  <2>1. /\ e.ep0_state = d.ep0_state /\ e.dev_state = d.dev_state /\ e.ep = d.ep
        /\ IF locked THEN e.IN_ep0.stat = d.IN_ep0.stat ELSE e.IN_ep0.stat = "STALL"
    BY DEF USBD_CtlError, Dev, Endpoint
  <2>2. Outcome(d, req, e, locked)
    BY ErrorOutcome
  <2> HIDE DEF e
  <2>3. Good(e)
    BY <2>1, <2>2 DEF Agreed
  <2>. QED  BY <2>3 DEF e
<1>4. CASE \/ req.value = 0 /\ d.dev_state = "ADDRESSED"
           \/ req.value = 1 /\ d.dev_state = "CONFIGURED"
  <2>1. \A c : Agreed(c, d) => Agreed(req.value, d)
    BY <1>4 DEF Agreed
  <2>2. Good(USBD_CtlSendStatus(d, locked))
    BY <1>2, <2>1
  <2>3. USBD_SetConfig(d, req, locked) = USBD_CtlSendStatus(d, locked)
    BY <1>4 DEF USBD_SetConfig
  <2>. QED  BY <2>2, <2>3
<1>5. CASE req.value = 1 /\ d.dev_state = "ADDRESSED"
  <2> DEFINE y == [d EXCEPT !.dev_config = 1, !.dev_state = "CONFIGURED"]
             x == USBD_ECM_Init(y, locked)
  <2>0. USBD_SetConfig(d, req, locked) = USBD_CtlSendStatus(x, locked)
    BY <1>5 DEF USBD_SetConfig
  <2>1. /\ y \in Dev /\ y.IN_ep0 = d.IN_ep0 /\ y.OUT_ep0 = d.OUT_ep0 /\ y.DADDR = d.DADDR
        /\ y.ep0_data_len = d.ep0_data_len /\ y.USB_Address = d.USB_Address
        /\ y.dev_state = "CONFIGURED"
    <3>1. 0 \in 0 .. 1 /\ 1 \in 0 .. 1 /\ {"ADDRESSED", "CONFIGURED"} \subseteq DevState
      BY DEF DevState
    <3>. QED  BY <3>1 DEF Dev
  <2> HIDE DEF y
  <2>2. /\ x \in Dev /\ x = [y EXCEPT !.ep = x.ep]
        /\ ~locked => \A e \in ClassEp : x.ep[e].open /\ x.ep[e].stat # "DIS"
    BY <2>1, ClassInit
  <2> HIDE DEF x
  <2>3. /\ x.IN_ep0 = d.IN_ep0 /\ x.OUT_ep0 = d.OUT_ep0 /\ x.DADDR = d.DADDR
        /\ x.ep0_data_len = d.ep0_data_len /\ x.USB_Address = d.USB_Address
        /\ x.dev_state = "CONFIGURED"
    BY <2>1, <2>2 DEF Dev
  <2>4. ~locked => Agreed(req.value, x)
    BY <1>5, <2>2, <2>3 DEF Agreed
  <2>5. Good(USBD_CtlSendStatus(x, locked))
    BY <1>2, <2>2, <2>3, <2>4
  <2>. QED  BY <2>0, <2>5
<1>6. CASE req.value = 0 /\ d.dev_state = "CONFIGURED"
  <2> DEFINE y == [d EXCEPT !.dev_state = "ADDRESSED", !.dev_config = 0]
             x == USBD_ECM_DeInit(y, locked)
  <2>0. USBD_SetConfig(d, req, locked) = USBD_CtlSendStatus(x, locked)
    BY <1>6 DEF USBD_SetConfig
  <2>1. /\ y \in Dev /\ y.IN_ep0 = d.IN_ep0 /\ y.OUT_ep0 = d.OUT_ep0 /\ y.DADDR = d.DADDR
        /\ y.ep0_data_len = d.ep0_data_len /\ y.USB_Address = d.USB_Address
        /\ y.dev_state = "ADDRESSED"
    <3>1. 0 \in 0 .. 1 /\ 1 \in 0 .. 1 /\ {"ADDRESSED", "CONFIGURED"} \subseteq DevState
      BY DEF DevState
    <3>. QED  BY <3>1 DEF Dev
  <2> HIDE DEF y
  <2>2. x \in Dev /\ x = [y EXCEPT !.ep = x.ep]
    BY <2>1, ClassInit
  <2> HIDE DEF x
  <2>3. /\ x.IN_ep0 = d.IN_ep0 /\ x.OUT_ep0 = d.OUT_ep0 /\ x.DADDR = d.DADDR
        /\ x.ep0_data_len = d.ep0_data_len /\ x.USB_Address = d.USB_Address
        /\ x.dev_state = "ADDRESSED"
    BY <2>1, <2>2 DEF Dev
  <2>4. Agreed(req.value, x)
    BY <1>6, <2>3 DEF Agreed
  <2>5. Good(USBD_CtlSendStatus(x, locked))
    BY <1>2, <2>2, <2>3, <2>4
  <2>. QED  BY <2>0, <2>5
<1>7. CASE req.value > 1 \/ d.dev_state \notin {"ADDRESSED", "CONFIGURED"}
  <2>1. USBD_SetConfig(d, req, locked) = USBD_CtlError(d, locked)
    BY <1>1, <1>7 DEF USBD_SetConfig
  <2>. QED  BY <1>3, <2>1
<1>8. req.value > 1 \/ req.value = 0 \/ req.value = 1
  BY <1>1
<1>. QED  BY <1>4, <1>5, <1>6, <1>7, <1>8

LEMMA FeatureHandlers ==
    ASSUME NEW d \in Dev, NEW req \in Requests, NEW locked \in BOOLEAN, req.to = "DEV"
    PROVE  /\ req.name = "SET_FEATURE" =>
                 Outcome(d, req, USBD_SetFeature(d, req, locked), locked)
           /\ req.name = "CLEAR_FEATURE" =>
                 Outcome(d, req, USBD_ClrFeature(d, req, locked), locked)
<1> SUFFICES ASSUME req.name \in {"SET_FEATURE", "CLEAR_FEATURE"}
             PROVE  /\ Outcome(d, req, USBD_SetFeature(d, req, locked), locked)
                    /\ Outcome(d, req, USBD_ClrFeature(d, req, locked), locked)
  OBVIOUS
<1>1. req.wLength = 0 /\ (req.value # REMOTE_WAKEUP => req \in SilentReq)
  BY RequestKinds
<1>2. ASSUME NEW w \in 0 .. 1
      PROVE  Outcome(d, req, USBD_CtlSendStatus([d EXCEPT !.dev_remote_wakeup = w], locked),
                     locked)
  <2> DEFINE x == [d EXCEPT !.dev_remote_wakeup = w]
  <2>1. Prepared(d, req, x) /\ AddressGiven(d, req, x)
    BY DEF Prepared, AddressGiven, Dev, DaddrKept, ConfSame
  <2> HIDE DEF x
  <2>2. Outcome(d, req, USBD_CtlSendStatus(x, locked), locked)
    BY <1>1, <2>1, StatusOutcome
  <2>. QED  BY <2>2 DEF x
<1>3. /\ Outcome(d, req, USBD_CtlSendStatus([d EXCEPT !.dev_remote_wakeup = 0], locked), locked)
      /\ Outcome(d, req, USBD_CtlSendStatus([d EXCEPT !.dev_remote_wakeup = 1], locked), locked)
  BY <1>2
<1>4. req.value # REMOTE_WAKEUP => Outcome(d, req, d, locked)
  BY <1>1, SilentOutcome DEF Prepared, DaddrKept, ConfSame
<1>5. Outcome(d, req, USBD_CtlError(d, locked), locked)
  BY ErrorOutcome
<1>6. Outcome(d, req, USBD_SetFeature(d, req, locked), locked)
  BY <1>3, <1>4 DEF USBD_SetFeature
<1>7. Outcome(d, req, USBD_ClrFeature(d, req, locked), locked)
  <2>1. \/ USBD_ClrFeature(d, req, locked) = USBD_CtlError(d, locked)
        \/ USBD_ClrFeature(d, req, locked)
              = USBD_CtlSendStatus([d EXCEPT !.dev_remote_wakeup = 0], locked)
        \/ USBD_ClrFeature(d, req, locked) = d /\ req.value # REMOTE_WAKEUP
    BY DEF USBD_ClrFeature
  <2>. QED  BY <1>3, <1>4, <1>5, <2>1
<1>. QED  BY <1>6, <1>7

LEMMA InterfaceHandler ==
    ASSUME NEW d \in Dev, NEW req \in Requests, NEW locked \in BOOLEAN, req.to = "ITF"
    PROVE  Outcome(d, req, USBD_StdItfReq(d, req, locked), locked)
<1> DEFINE x == USBD_ECM_Setup(d, req, locked)
<1>0. req.wIndex \in Nat /\ req.name # "SET_ADDRESS"
  BY RequestKinds
<1>1. CASE d.dev_state # "CONFIGURED" \/ req.wIndex > USBD_MAX_NUM_INTERFACES
  BY <1>1, ErrorOutcome DEF USBD_StdItfReq
<1>2. CASE ~(d.dev_state # "CONFIGURED" \/ req.wIndex > USBD_MAX_NUM_INTERFACES)
  <2>1. Prepared(d, req, x) /\ x.USB_Address = d.USB_Address
    <3>1. CASE x = d
      BY <3>1 DEF Prepared, DaddrKept, ConfSame
    <3>2. CASE x = [d EXCEPT !.ep[ECM_NOTIFICATION_IN_EP].stat = "VALID"]
      <4> DEFINE n == ECM_NOTIFICATION_IN_EP
                 f == [d.ep EXCEPT ![n] = [@ EXCEPT !.stat = "VALID"]]
      <4>0. n \in ClassEp /\ d.ep \in [ClassEp -> ClassEndpoint]
        BY DEF Dev, ClassEp
      <4>1. /\ f \in [ClassEp -> ClassEndpoint]
            /\ \A e \in ClassEp : f[e].open = d.ep[e].open /\ f[e].stat \in {d.ep[e].stat, "VALID"}
        BY <4>0 DEF ClassEndpoint, Stat
      <4>2. x = [d EXCEPT !.ep = f]
        BY <3>2 DEF Dev
      <4> HIDE DEF f, x
      <4>. QED  BY <4>1, <4>2 DEF Prepared, DaddrKept, ConfSame, Dev
    <3>. QED  BY <3>1, <3>2 DEF USBD_ECM_Setup
  <2> HIDE DEF x
  <2>2. AddressGiven(d, req, x)
    BY <1>0, <2>1 DEF AddressGiven
  <2>3. req.wLength = 0 => Outcome(d, req, USBD_CtlSendStatus(x, locked), locked)
    BY <2>1, <2>2, StatusOutcome
  <2>4. req.wLength # 0 => req \in SilentReq
    BY <1>2, RequestKinds
  <2>5. req.wLength # 0 => Outcome(d, req, x, locked)
    BY <2>1, <2>4, SilentOutcome
  <2>. QED  BY <1>2, <2>3, <2>5 DEF USBD_StdItfReq, x
<1>. QED  BY <1>1, <1>2

LEMMA EndpointHandler ==
    ASSUME NEW d \in Dev, NEW req \in Requests, NEW locked \in BOOLEAN, req.to = "EP"
    PROVE  Outcome(d, req, USBD_StdEPReq(d, req, locked), locked)
<1> DEFINE v == req.wIndex
           x == StallUnlessControl(d, v, locked)
           y == ClearUnlessControl(d, v, locked)
<1>1. /\ v \in ClassEp \cup ControlEp /\ req \in SilentReq
      /\ \/ req.name \in {"SET_FEATURE", "CLEAR_FEATURE", "OTHER"} /\ req.wLength = 0
         \/ req.name = "GET_STATUS" /\ req.wLength = 2
  BY RequestKinds
<1>2. d.ep \in [ClassEp -> ClassEndpoint] /\ d.dev_state \in DevState
  BY DEF Dev
<1> DEFINE Fit(z) == Prepared(d, req, z) /\ z.USB_Address = d.USB_Address
<1>d. Fit(d)
  BY DEF Prepared, DaddrKept, ConfSame
<1>3. ASSUME v \in ClassEp, NEW g \in ClassEndpoint, g.open = d.ep[v].open, g.stat \in {d.ep[v].stat, "STALL", "VALID"}
      PROVE  Fit([d EXCEPT !.ep[v] = g])
  <2> DEFINE f == [d.ep EXCEPT ![v] = g]
             z == [d EXCEPT !.ep = f]
  <2>1. /\ f \in [ClassEp -> ClassEndpoint]
        /\ \A e \in ClassEp : f[e].open = d.ep[e].open /\ f[e].stat \in {d.ep[e].stat, "STALL", "VALID"}
    BY <1>2, <1>3
  <2>2. [d EXCEPT !.ep[v] = g] = z
    BY DEF Dev
  <2> HIDE DEF f
  <2>3. /\ z \in Dev /\ z.ep = f /\ z.IN_ep0 = d.IN_ep0 /\ z.OUT_ep0 = d.OUT_ep0
        /\ z.DADDR = d.DADDR /\ z.ep0_data_len = d.ep0_data_len /\ z.dev_state = d.dev_state
        /\ z.USB_Address = d.USB_Address
    BY <2>1 DEF Dev
  <2> HIDE DEF z
  <2>4. ConfSame(d, z)
    BY <2>1, <2>3 DEF ConfSame
  <2>5. Fit(z)
    BY <2>3, <2>4 DEF Prepared, DaddrKept
  <2>. QED  BY <2>2, <2>5
<1>4. Fit(x) /\ Fit(y)
  <2>1. CASE v \in ControlEp
    BY <1>d, <2>1 DEF StallUnlessControl, ClearUnlessControl
  <2>2. CASE v \in ClassEp /\ v \notin ControlEp
    <3> DEFINE g == USBD_LL_StallEP(d.ep[v], locked)
               h == USBD_LL_ClearStallEP(d.ep[v], locked)
    <3>1. d.ep[v] \in ClassEndpoint
      BY <1>2, <2>2
    <3>2. /\ g \in ClassEndpoint /\ g.open = d.ep[v].open /\ g.stat \in {d.ep[v].stat, "STALL", "VALID"}
          /\ h \in ClassEndpoint /\ h.open = d.ep[v].open /\ h.stat \in {d.ep[v].stat, "STALL", "VALID"}
      BY <3>1 DEF USBD_LL_StallEP, USBD_LL_ClearStallEP, HAL_PCD_EP_SetStall,
         HAL_PCD_EP_ClrStall, ClassEndpoint, Stat
    <3>3. x = [d EXCEPT !.ep[v] = g] /\ y = [d EXCEPT !.ep[v] = h]
      BY <1>2, <2>2 DEF Dev, StallUnlessControl, ClearUnlessControl
    <3> HIDE DEF g, h, x, y
    <3>. QED  BY <1>3, <2>2, <3>2, <3>3
  <2>. QED  BY <1>1, <2>1, <2>2
<1> HIDE DEF x, y
<1>5. Outcome(d, req, x, locked) /\ Outcome(d, req, d, locked)
  BY <1>1, <1>4, <1>d, SilentOutcome
<1>6. req.wLength = 0 => /\ Outcome(d, req, USBD_CtlSendStatus(x, locked), locked)
                         /\ Outcome(d, req, USBD_CtlSendStatus(y, locked), locked)
                         /\ Outcome(d, req, USBD_CtlSendStatus(d, locked), locked)
  <2>1. AddressGiven(d, req, x) /\ AddressGiven(d, req, y) /\ AddressGiven(d, req, d)
    BY <1>1, <1>4, <1>d DEF AddressGiven
  <2>. QED  BY <1>4, <1>d, <2>1, StatusOutcome
<1>7. req.name = "GET_STATUS" => Outcome(d, req, USBD_CtlSendData(d, req, 2, locked), locked)
  BY <1>1, DataOutcome DEF ReplyLen
<1>8. Outcome(d, req, USBD_CtlError(d, locked), locked)
  BY ErrorOutcome
<1> DEFINE e == USBD_StdEPReq(d, req, locked)
<1>9. \/ e = d \/ e = x \/ e = USBD_CtlError(d, locked)
      \/ req.wLength = 0 /\ e = USBD_CtlSendStatus(x, locked)
      \/ req.wLength = 0 /\ e = USBD_CtlSendStatus(y, locked)
      \/ req.wLength = 0 /\ e = USBD_CtlSendStatus(d, locked)
      \/ req.name = "GET_STATUS" /\ e = USBD_CtlSendData(d, req, 2, locked)
  <2>1. \/ d.dev_state = "DEFAULT" \/ d.dev_state = "ADDRESSED" \/ d.dev_state = "CONFIGURED"
    BY <1>2 DEF DevState
  <2>2. CASE d.dev_state = "DEFAULT"
    BY <1>1, <2>2 DEF USBD_StdEPReq
  <2>3. CASE d.dev_state = "ADDRESSED"
    BY <1>1, <2>3 DEF USBD_StdEPReq, x
  <2>4. CASE d.dev_state = "CONFIGURED"
    BY <1>1, <2>4 DEF USBD_StdEPReq, x, y
  <2>. QED  BY <2>1, <2>2, <2>3, <2>4
<1>. QED  BY <1>5, <1>6, <1>7, <1>8, <1>9

\* Every request, in every state of the device.
LEMMA SetupOutcome ==
    ASSUME NEW d \in Dev, NEW req \in Requests, NEW locked \in BOOLEAN
    PROVE  LET s == [d EXCEPT !.ep0_state = "SETUP", !.ep0_data_len = req.wLength]
           IN  /\ Outcome(s, req, USBD_LL_SetupStage(d, req, locked), locked)
               /\ s \in Dev /\ SameButTransfer(d, s) /\ s.ep0_data_len = req.wLength
               /\ s.IN_ep0 = d.IN_ep0 /\ s.OUT_ep0 = d.OUT_ep0
<1> DEFINE s == [d EXCEPT !.ep0_state = "SETUP", !.ep0_data_len = req.wLength]
           e == USBD_LL_SetupStage(d, req, locked)
<1>0. req.wLength \in Nat
  BY RequestKinds
<1>1. /\ s \in Dev /\ SameButTransfer(d, s) /\ s.ep0_data_len = req.wLength
      /\ s.IN_ep0 = d.IN_ep0 /\ s.OUT_ep0 = d.OUT_ep0
  BY <1>0 DEF Dev, Ep0State, SameButTransfer
<1>2. e = CASE req.to = "DEV" -> USBD_StdDevReq(s, req, locked)
            [] req.to = "ITF" -> USBD_StdItfReq(s, req, locked)
            [] req.to = "EP"  -> USBD_StdEPReq(s, req, locked)
            [] OTHER          -> USBD_CtlError(s, locked)
  BY DEF USBD_LL_SetupStage
<1> HIDE DEF s, e
<1>3. Outcome(s, req, USBD_CtlError(s, locked), locked)
  BY <1>1, ErrorOutcome
<1>4. CASE req.to = "DEV"
  <2>1. e = USBD_StdDevReq(s, req, locked)
    BY <1>2, <1>4
  <2>2. /\ req.name = "GET_DESCRIPTOR" => Outcome(s, req, USBD_GetDescriptor(s, req, locked), locked)
        /\ req.name = "GET_CONFIGURATION" => Outcome(s, req, USBD_GetConfig(s, req, locked), locked)
        /\ req.name = "GET_STATUS" => Outcome(s, req, USBD_GetStatus(s, req, locked), locked)
    BY <1>1, <1>4, DataHandlers
  <2>3. /\ req.name = "SET_FEATURE" => Outcome(s, req, USBD_SetFeature(s, req, locked), locked)
        /\ req.name = "CLEAR_FEATURE" => Outcome(s, req, USBD_ClrFeature(s, req, locked), locked)
    BY <1>1, <1>4, FeatureHandlers
  <2>4. /\ req.name = "SET_ADDRESS" => Outcome(s, req, USBD_SetAddress(s, req, locked), locked)
        /\ req.name = "SET_CONFIGURATION" => Outcome(s, req, USBD_SetConfig(s, req, locked), locked)
    BY <1>1, <1>4, AddressHandler, ConfigHandler, Zenon
  <2>. QED  BY <1>1, <1>3, <2>1, <2>2, <2>3, <2>4 DEF USBD_StdDevReq, s, e
<1>5. CASE req.to = "ITF"
  BY <1>1, <1>2, <1>5, InterfaceHandler DEF s, e
<1>6. CASE req.to = "EP"
  BY <1>1, <1>2, <1>6, EndpointHandler DEF s, e
<1>7. CASE req.to \notin {"DEV", "ITF", "EP"}
  BY <1>1, <1>2, <1>3, <1>7 DEF s, e
<1>. QED  BY <1>4, <1>5, <1>6, <1>7

\* SET_CONFIGURATION as the interrupt handles it.
LEMMA SetupConfigures ==
    ASSUME NEW d \in Dev, NEW req \in Requests, NEW locked \in BOOLEAN,
           req.name = "SET_CONFIGURATION"
    PROVE  LET e == USBD_LL_SetupStage(d, req, locked)
           IN  /\ e.ep0_state \in {"SETUP", "STATUS_IN"}
               /\ locked => e.IN_ep0.stat = d.IN_ep0.stat
               /\ \A c : ~locked /\ Agreed(c, d) =>
                     \/ e.IN_ep0.stat = "VALID" /\ Agreed(req.value, e)
                     \/ e.IN_ep0.stat = "STALL" /\ Agreed(c, e)
<1> DEFINE s == [d EXCEPT !.ep0_state = "SETUP", !.ep0_data_len = req.wLength]
           e == USBD_LL_SetupStage(d, req, locked)
           f == USBD_SetConfig(s, req, locked)
<1>0. req.wLength \in Nat /\ req.to = "DEV"
  BY RequestKinds
<1>1. /\ s \in Dev /\ s.ep0_state = "SETUP" /\ s.IN_ep0 = d.IN_ep0
      /\ s.dev_state = d.dev_state /\ s.ep = d.ep
  BY <1>0 DEF Dev, Ep0State
<1>2. e = f
  BY <1>0 DEF USBD_LL_SetupStage, USBD_StdDevReq
<1> HIDE DEF s, e
<1>3. /\ f.ep0_state \in {s.ep0_state, "STATUS_IN"}
      /\ locked => f.IN_ep0.stat = s.IN_ep0.stat
      /\ \A c : ~locked /\ Agreed(c, s) =>
            \/ f.IN_ep0.stat = "VALID" /\ Agreed(req.value, f)
            \/ f.IN_ep0.stat = "STALL" /\ Agreed(c, f)
  BY <1>0, <1>1, ConfigHandler
<1> HIDE DEF f
<1>4. \A c : Agreed(c, d) => Agreed(c, s)
  BY <1>1 DEF Agreed
<1>5. /\ e.ep0_state \in {"SETUP", "STATUS_IN"}
      /\ locked => e.IN_ep0.stat = d.IN_ep0.stat
      /\ \A c : ~locked /\ Agreed(c, d) =>
            \/ e.IN_ep0.stat = "VALID" /\ Agreed(req.value, e)
            \/ e.IN_ep0.stat = "STALL" /\ Agreed(c, e)
  BY <1>1, <1>2, <1>3, <1>4
<1>. QED  BY <1>5 DEF e
-----------------------------------------------------------------------------
(***************************************************************************)
(* The interrupts                                                          *)
(***************************************************************************)

\* The data stage is one packet short of what was asked for.
ClosingDue(d) == /\ d.total_length % MaxPacket = 0 /\ d.total_length >= MaxPacket
                 /\ d.total_length < d.ep0_data_len

SameCounters(d, e) ==
    e.ep0_state = d.ep0_state /\ e.total_length = d.total_length /\ e.rem_length = d.rem_length

\* USBD_LL_DataInStage: the next packet, the empty one, or the status stage.
LEMMA DataInDoes ==
    ASSUME NEW d \in Dev, NEW locked \in BOOLEAN
    PROVE  LET e == USBD_LL_DataInStage(d, locked)
           IN  /\ e \in Dev /\ SameButTransfer(d, e)
               /\ d.ep0_state # "DATA_IN" => e = d
               /\ d.ep0_state = "DATA_IN" /\ ~locked =>
                    \/ /\ d.rem_length > MaxPacket
                       /\ e.ep0_state = "DATA_IN" /\ e.total_length = d.total_length
                       /\ e.rem_length = d.rem_length - MaxPacket
                       /\ e.ep0_data_len = d.ep0_data_len
                       /\ e.IN_ep0.stat = "VALID" /\ e.tag = d.tag /\ e.pma.tag = d.tag
                       /\ e.IN_ep0.xfer_buff = d.IN_ep0.xfer_buff
                       /\ e.pma.from = d.IN_ep0.xfer_buff
                       /\ e.pma.len = AtMost(d.rem_length - MaxPacket, MaxPacket)
                    \/ /\ d.rem_length <= MaxPacket /\ ClosingDue(d) /\ SameCounters(d, e)
                       /\ e.ep0_data_len = 0 /\ e.IN_ep0.stat = "VALID" /\ e.pma.len = 0
                    \/ /\ d.rem_length <= MaxPacket /\ ~ClosingDue(d)
                       /\ e.OUT_ep0.stat = "VALID"
<1> DEFINE e == USBD_LL_DataInStage(d, locked)
<1>0. /\ d.rem_length \in Nat /\ d.tag \in Requests \cup {NULL}
      /\ d.IN_ep0 \in Endpoint /\ d.OUT_ep0 \in Endpoint /\ d.IN_ep0.xfer_buff \in Nat
      /\ MaxPacket \in Nat \ {0}
  BY MaxPacketAssumption DEF Dev, Endpoint
<1>1. CASE d.ep0_state # "DATA_IN"
  <2>1. e = d
    BY <1>1 DEF USBD_LL_DataInStage
  <2>. QED  BY <1>1, <2>1 DEF SameButTransfer
<1>2. CASE d.ep0_state = "DATA_IN" /\ d.rem_length > MaxPacket
  <2> DEFINE rem == d.rem_length - MaxPacket
             y == [d EXCEPT !.rem_length = rem]
  <2>1. e = Transmit(y, d.tag, d.IN_ep0.xfer_buff, rem, locked)
    BY <1>2 DEF USBD_LL_DataInStage
  <2>2. rem \in Nat
    BY <1>0, <1>2
  <2> HIDE DEF rem, e
  <2>3. /\ y \in Dev /\ SameButTransfer(d, y) /\ y.ep0_state = d.ep0_state
        /\ y.total_length = d.total_length /\ y.ep0_data_len = d.ep0_data_len
        /\ y.rem_length = rem
    BY <2>2 DEF Dev, SameButTransfer
  <2> HIDE DEF y
  <2>4. /\ e \in Dev /\ SameButTransfer(y, e)
        /\ e.ep0_state = y.ep0_state /\ e.ep0_data_len = y.ep0_data_len
        /\ e.total_length = y.total_length /\ e.rem_length = y.rem_length
        /\ e.tag = d.tag /\ e.IN_ep0.xfer_buff = d.IN_ep0.xfer_buff
        /\ ~locked => /\ e.IN_ep0.stat = "VALID"
                      /\ e.pma.tag = d.tag /\ e.pma.from = d.IN_ep0.xfer_buff
                      /\ e.pma.len = AtMost(rem, MaxPacket)
    <3> DEFINE at == d.IN_ep0.xfer_buff
               tag == d.tag
               z == Transmit(y, tag, at, rem, locked)
    <3>1. at \in Nat /\ tag \in Requests \cup {NULL} /\ e = z /\ y \in Dev
      BY <1>0, <2>1, <2>3
    <3> HIDE DEF at, tag
    <3>2. /\ z \in Dev /\ SameButTransfer(y, z)
          /\ z.ep0_state = y.ep0_state /\ z.ep0_data_len = y.ep0_data_len
          /\ z.total_length = y.total_length /\ z.rem_length = y.rem_length
          /\ z.tag = tag /\ z.IN_ep0.xfer_buff = at
          /\ ~locked => /\ z.IN_ep0.stat = "VALID"
                        /\ z.pma.tag = tag /\ z.pma.from = at
                        /\ z.pma.len = AtMost(rem, MaxPacket)
      BY <2>2, <3>1, TransmitDoes
    <3>. QED  BY <3>1, <3>2 DEF at, tag
  <2>. QED  BY <1>2, <2>3, <2>4 DEF SameButTransfer, e, rem
<1>3. CASE d.ep0_state = "DATA_IN" /\ ~(d.rem_length > MaxPacket) /\ ClosingDue(d)
  <2> DEFINE y == Transmit(d, NULL, 0, 0, locked)
  <2>1. e = [y EXCEPT !.ep0_data_len = 0]
    BY <1>3 DEF USBD_LL_DataInStage, ClosingDue
  <2>2. /\ y \in Dev /\ SameButTransfer(d, y) /\ SameCounters(d, y)
        /\ ~locked => y.IN_ep0.stat = "VALID" /\ y.pma.len = AtMost(0, MaxPacket)
    <3> DEFINE tag == NULL
               at == 0
               len == 0
               z == Transmit(d, tag, at, len, locked)
    <3>1. tag \in Requests \cup {NULL} /\ at \in Nat /\ len \in Nat /\ y = z
      OBVIOUS
    <3> HIDE DEF tag, at, len, y
    <3>2. /\ z \in Dev /\ SameButTransfer(d, z)
          /\ z.ep0_state = d.ep0_state
          /\ z.total_length = d.total_length /\ z.rem_length = d.rem_length
          /\ ~locked => z.IN_ep0.stat = "VALID" /\ z.pma.len = AtMost(len, MaxPacket)
      BY <3>1, TransmitDoes
    <3> HIDE DEF z
    <3>. QED  BY <3>1, <3>2 DEF SameCounters, len
  <2>3. AtMost(0, MaxPacket) = 0
    BY <1>0 DEF AtMost
  <2> HIDE DEF e, y
  <2>4. /\ e \in Dev /\ SameButTransfer(y, e) /\ SameCounters(y, e) /\ e.ep0_data_len = 0
        /\ e.IN_ep0 = y.IN_ep0 /\ e.pma = y.pma
    BY <2>1, <2>2 DEF Dev, SameButTransfer, SameCounters
  <2>. QED  BY <1>0, <1>3, <2>2, <2>3, <2>4 DEF SameButTransfer, SameCounters, e
<1>4. CASE d.ep0_state = "DATA_IN" /\ ~(d.rem_length > MaxPacket) /\ ~ClosingDue(d)
  <2> DEFINE x == HAL_PCD_EP_Receive(d.OUT_ep0, 0, 0, locked)
  <2>1. e = [d EXCEPT !.ep0_state = "STATUS_OUT", !.OUT_ep0 = x]
    BY <1>4 DEF USBD_LL_DataInStage, USBD_CtlReceiveStatus, ClosingDue, Dev
  <2>2. x \in Endpoint /\ (~locked => x.stat = "VALID")
    <3>1. d.OUT_ep0 \in Endpoint /\ 0 \in Nat
      BY <1>0
    <3>. QED  BY <3>1, Armed DEF HAL_PCD_EP_Receive
  <2> HIDE DEF e, x
  <2>3. e \in Dev /\ SameButTransfer(d, e) /\ e.OUT_ep0 = x
    BY <2>1, <2>2 DEF Dev, Ep0State, SameButTransfer
  <2>. QED  BY <1>0, <1>4, <2>2, <2>3 DEF e
<1>. QED  BY <1>1, <1>2, <1>3, <1>4

\* "TX COMPLETE" on endpoint 0, the callback and the address that was pending.
Fetched(d) == [d EXCEPT !.IN_ep0.xfer_count = d.pma.len,
                        !.IN_ep0.xfer_buff = @ + d.pma.len]

LEMMA FetchedDoes ==
    ASSUME NEW d \in Dev
    PROVE  LET e == Fetched(d)
           IN  /\ e \in Dev /\ SameButTransfer(d, e) /\ SameCounters(d, e)
               /\ e.ep0_data_len = d.ep0_data_len /\ e.tag = d.tag
               /\ e.IN_ep0.xfer_buff = d.IN_ep0.xfer_buff + d.pma.len
               /\ e.IN_ep0.xfer_len = d.IN_ep0.xfer_len /\ e.IN_ep0.stat = d.IN_ep0.stat
<1> DEFINE e == Fetched(d)
           x == [d.IN_ep0 EXCEPT !.xfer_count = d.pma.len,
                                 !.xfer_buff = d.IN_ep0.xfer_buff + d.pma.len]
<1>1. d.IN_ep0 \in Endpoint /\ d.pma.len \in Nat /\ d.IN_ep0.xfer_buff + d.pma.len \in Nat
  BY MaxPacketAssumption DEF Dev, Packet, Endpoint
<1>2. /\ x \in Endpoint /\ x.xfer_buff = d.IN_ep0.xfer_buff + d.pma.len
      /\ x.xfer_len = d.IN_ep0.xfer_len /\ x.stat = d.IN_ep0.stat
  BY <1>1 DEF Endpoint
<1>3. e = [d EXCEPT !.IN_ep0 = x]
  BY <1>1 DEF Fetched, Dev, Endpoint
<1> HIDE DEF e, x
<1>4. /\ e \in Dev /\ SameButTransfer(d, e) /\ SameCounters(d, e)
      /\ e.ep0_data_len = d.ep0_data_len /\ e.tag = d.tag /\ e.IN_ep0 = x
  BY <1>2, <1>3 DEF Dev, SameButTransfer, SameCounters
<1>. QED  BY <1>2, <1>4 DEF e

LEMMA ApplyDoes ==
    ASSUME NEW d \in Dev
    PROVE  LET e == ApplyAddress(d)
           IN  /\ e \in Dev /\ e.dev_state = d.dev_state /\ e.ep = d.ep
               /\ e.IN_ep0 = d.IN_ep0 /\ e.OUT_ep0 = d.OUT_ep0 /\ SameCounters(d, e)
               /\ e.ep0_data_len = d.ep0_data_len /\ e.tag = d.tag /\ e.pma = d.pma
               /\ \/ e.USB_Address = d.USB_Address /\ e.DADDR = d.DADDR
                  \/ e.USB_Address = 0 /\ e.DADDR = d.USB_Address
               /\ d.USB_Address # 0 /\ d.IN_ep0.xfer_len = 0 =>
                     e.USB_Address = 0 /\ e.DADDR = d.USB_Address
<1>1. d.USB_Address \in Addresses \cup {0} /\ d.USB_Address \in Nat
  <2>1. d.USB_Address \in Addresses \cup {0}
    BY DEF Dev
  <2>2. \A a \in Addresses \cup {0} : a \in Nat
    BY AddressAssumption
  <2>. QED  BY <2>1, <2>2
<1>2. CASE d.USB_Address > 0 /\ d.IN_ep0.xfer_len = 0
  <2> DEFINE e == [d EXCEPT !.DADDR = d.USB_Address, !.USB_Address = 0]
  <2>1. /\ e \in Dev /\ e.dev_state = d.dev_state /\ e.ep = d.ep
        /\ e.IN_ep0 = d.IN_ep0 /\ e.OUT_ep0 = d.OUT_ep0 /\ SameCounters(d, e)
        /\ e.ep0_data_len = d.ep0_data_len /\ e.tag = d.tag /\ e.pma = d.pma
        /\ e.USB_Address = 0 /\ e.DADDR = d.USB_Address
    BY <1>1 DEF Dev, SameCounters
  <2>. QED  BY <1>1, <1>2, <2>1 DEF ApplyAddress
<1>3. CASE ~(d.USB_Address > 0 /\ d.IN_ep0.xfer_len = 0)
  BY <1>1, <1>3 DEF ApplyAddress, SameCounters
<1>. QED  BY <1>2, <1>3
-----------------------------------------------------------------------------
(***************************************************************************)
(* Types, with either driver                                               *)
(***************************************************************************)

Host == [addr : Addresses \cup {0}, req : Requests \cup {NULL},
         phase : {"idle", "data", "status_in", "status_out"},
         got : Nat, right : BOOLEAN, step : 0 .. 3,
         config : 0 .. 2 \cup {NULL}, stale : SUBSET Addresses]

LEMMA Types == TypeOK <=> /\ dev \in Dev /\ host \in Host
                          /\ ctr \subseteq {"TX", "RX"} /\ setup \in Requests \cup {NULL}
                          /\ used \in BOOLEAN /\ driver \in {"any", "enumerates"}
                          /\ aborts \in Nat /\ resets \in Nat /\ locks \in Nat
BY DEF TypeOK, Dev, Host, ClassEndpoint

\* Endpoint 0 changes its answer and nothing else.
Answers(d, x, y) == [d EXCEPT !.IN_ep0.stat = x, !.OUT_ep0.stat = y]
AnswersIn(d, x) == [d EXCEPT !.IN_ep0.stat = x]
AnswersOut(d, x) == [d EXCEPT !.OUT_ep0.stat = x]

LEMMA StatDoes ==
    ASSUME NEW d \in Dev, NEW x \in Stat, NEW y \in Stat
    PROVE  LET e == Answers(d, x, y)
           IN  /\ e \in Dev /\ SameButTransfer(d, e) /\ SameCounters(d, e)
               /\ e.ep0_data_len = d.ep0_data_len /\ e.tag = d.tag /\ e.pma = d.pma
               /\ e.IN_ep0.stat = x /\ e.OUT_ep0.stat = y
<1> DEFINE e == Answers(d, x, y)
           i == [d.IN_ep0 EXCEPT !.stat = x]
           o == [d.OUT_ep0 EXCEPT !.stat = y]
<1>1. i \in Endpoint /\ o \in Endpoint /\ i.stat = x /\ o.stat = y
  BY DEF Dev, Endpoint
<1>2. e = [d EXCEPT !.IN_ep0 = i, !.OUT_ep0 = o]
  BY DEF Dev, Answers
<1> HIDE DEF e, i, o
<1>3. /\ e \in Dev /\ SameButTransfer(d, e) /\ SameCounters(d, e)
      /\ e.ep0_data_len = d.ep0_data_len /\ e.tag = d.tag /\ e.pma = d.pma
      /\ e.IN_ep0 = i /\ e.OUT_ep0 = o
  BY <1>1, <1>2 DEF Dev, SameButTransfer, SameCounters
<1>. QED  BY <1>1, <1>3 DEF e

LEMMA InStatDoes ==
    ASSUME NEW d \in Dev, NEW x \in Stat
    PROVE  LET e == AnswersIn(d, x)
           IN  /\ e \in Dev /\ SameButTransfer(d, e) /\ SameCounters(d, e)
               /\ e.ep0_data_len = d.ep0_data_len /\ e.tag = d.tag /\ e.pma = d.pma
               /\ e.IN_ep0.stat = x /\ e.IN_ep0.xfer_buff = d.IN_ep0.xfer_buff
               /\ e.IN_ep0.xfer_len = d.IN_ep0.xfer_len /\ e.OUT_ep0 = d.OUT_ep0
<1> DEFINE e == AnswersIn(d, x)
           i == [d.IN_ep0 EXCEPT !.stat = x]
<1>1. /\ i \in Endpoint /\ i.stat = x
      /\ i.xfer_buff = d.IN_ep0.xfer_buff /\ i.xfer_len = d.IN_ep0.xfer_len
  BY DEF Dev, Endpoint
<1>2. e = [d EXCEPT !.IN_ep0 = i]
  BY DEF Dev, AnswersIn
<1> HIDE DEF e, i
<1>3. /\ e \in Dev /\ SameButTransfer(d, e) /\ SameCounters(d, e)
      /\ e.ep0_data_len = d.ep0_data_len /\ e.tag = d.tag /\ e.pma = d.pma
      /\ e.IN_ep0 = i /\ e.OUT_ep0 = d.OUT_ep0
  BY <1>1, <1>2 DEF Dev, SameButTransfer, SameCounters
<1>. QED  BY <1>1, <1>3 DEF e

LEMMA OutStatDoes ==
    ASSUME NEW d \in Dev, NEW x \in Stat
    PROVE  LET e == AnswersOut(d, x)
           IN  /\ e \in Dev /\ SameButTransfer(d, e) /\ SameCounters(d, e)
               /\ e.ep0_data_len = d.ep0_data_len /\ e.tag = d.tag /\ e.pma = d.pma
               /\ e.OUT_ep0.stat = x /\ e.IN_ep0 = d.IN_ep0
<1> DEFINE e == AnswersOut(d, x)
           i == [d.OUT_ep0 EXCEPT !.stat = x]
<1>1. i \in Endpoint /\ i.stat = x
  BY DEF Dev, Endpoint
<1>2. e = [d EXCEPT !.OUT_ep0 = i]
  BY DEF Dev, AnswersOut
<1> HIDE DEF e, i
<1>3. /\ e \in Dev /\ SameButTransfer(d, e) /\ SameCounters(d, e)
      /\ e.ep0_data_len = d.ep0_data_len /\ e.tag = d.tag /\ e.pma = d.pma
      /\ e.OUT_ep0 = i /\ e.IN_ep0 = d.IN_ep0
  BY <1>1, <1>2 DEF Dev, SameButTransfer, SameCounters
<1>. QED  BY <1>1, <1>3 DEF e

\* The bus reset as the device sees it: with its calls not refused it is deaf to none.
Reset(d, locked) ==
    LET cleared == [d EXCEPT
           !.IN_ep0.stat = "DIS", !.OUT_ep0.stat = "DIS", !.DADDR = OFF,
           !.ep = [e \in ClassEp |-> [d.ep[e] EXCEPT !.open = FALSE, !.stat = "DIS"]]]
    IN  HAL_PCD_SetAddress(USBD_LL_Reset(cleared, locked), 0, locked)

LEMMA ResetDoes ==
    ASSUME NEW d \in Dev, NEW locked \in BOOLEAN
    PROVE  LET e == Reset(d, locked)
           IN  /\ e \in Dev /\ e.dev_state = "DEFAULT" /\ e.USB_Address = d.USB_Address
               /\ ~locked => e.DADDR = 0
<1> DEFINE f == [e \in ClassEp |-> [d.ep[e] EXCEPT !.open = FALSE, !.stat = "DIS"]]
           i == [d.IN_ep0 EXCEPT !.stat = "DIS"]
           o == [d.OUT_ep0 EXCEPT !.stat = "DIS"]
           i2 == HAL_PCD_EP_Open(i, TRUE, locked)
           o2 == HAL_PCD_EP_Open(o, FALSE, locked)
           c == [d EXCEPT !.IN_ep0 = i, !.OUT_ep0 = o, !.DADDR = OFF, !.ep = f]
           x == [c EXCEPT !.OUT_ep0 = o2, !.IN_ep0 = i2, !.dev_state = "DEFAULT"]
<1>1. i \in Endpoint /\ o \in Endpoint
  BY DEF Dev, Endpoint, Stat
<1>2. f \in [ClassEp -> ClassEndpoint]
  <2>1. \A e \in ClassEp : d.ep[e] \in ClassEndpoint
    BY DEF Dev
  <2>2. \A e \in ClassEp : [d.ep[e] EXCEPT !.open = FALSE, !.stat = "DIS"] \in ClassEndpoint
    BY <2>1 DEF ClassEndpoint, Stat
  <2>. QED  BY <2>2
<1>3. c = [d EXCEPT !.IN_ep0.stat = "DIS", !.OUT_ep0.stat = "DIS", !.DADDR = OFF, !.ep = f]
  BY DEF Dev
<1> HIDE DEF f, i, o
<1>4. i2 \in Endpoint /\ o2 \in Endpoint
  BY <1>1 DEF HAL_PCD_EP_Open, Endpoint, Stat
<1>5. c \in Dev /\ c.IN_ep0 = i /\ c.OUT_ep0 = o /\ c.USB_Address = d.USB_Address
  BY <1>1, <1>2 DEF Dev
<1>6. x = USBD_LL_Reset(c, locked)
  BY <1>5 DEF USBD_LL_Reset
<1> HIDE DEF c, i2, o2
<1>7. x \in Dev /\ x.dev_state = "DEFAULT" /\ x.USB_Address = d.USB_Address
  BY <1>4, <1>5 DEF Dev, DevState
<1> HIDE DEF x
<1> DEFINE e == HAL_PCD_SetAddress(x, 0, locked)
<1>8. /\ e \in Dev /\ e.dev_state = "DEFAULT" /\ e.USB_Address = d.USB_Address
      /\ ~locked => e.DADDR = 0
  BY <1>7 DEF HAL_PCD_SetAddress, Dev
<1>9. e = Reset(d, locked)
  BY <1>3, <1>6 DEF Reset, f
<1>. QED  BY <1>8, <1>9

\* A bus reset is that step of the device.
LEMMA BusResetIs ==
    ASSUME BusReset
    PROVE  \E locked \in BOOLEAN : Interrupted(locked) /\ dev' = Reset(dev, locked)
BY DEF BusReset, Reset

LEMMA InterruptedDoes ==
    ASSUME TypeOK, NEW locked \in BOOLEAN, Interrupted(locked)
    PROVE  locks' \in Nat /\ (Any => ~locked)
BY DEF TypeOK, Interrupted, Any

LEMMA IrqTypes ==
    ASSUME TypeOK, IrqRx \/ IrqTx
    PROVE  TypeOK'
<1>0. /\ dev \in Dev /\ host \in Host
      /\ ctr \subseteq {"TX", "RX"} /\ setup \in Requests \cup {NULL}
      /\ used \in BOOLEAN /\ driver \in {"any", "enumerates"}
      /\ aborts \in Nat /\ resets \in Nat /\ locks \in Nat
  BY Types
<1>1. CASE IrqRx
  <2>1. PICK locked \in BOOLEAN :
           /\ Interrupted(locked)
           /\ dev' = IF setup # NULL THEN USBD_LL_SetupStage(dev, setup, locked)
                     ELSE [dev EXCEPT !.OUT_ep0.stat = "VALID"]
    BY <1>1 DEF IrqRx
  <2>2. ASSUME setup # NULL  PROVE dev' \in Dev
    <3>1. setup \in Requests /\ dev' = USBD_LL_SetupStage(dev, setup, locked)
      BY <1>0, <2>1, <2>2
    <3>. QED  BY <1>0, <3>1, SetupOutcome DEF Outcome
  <2>3. ASSUME setup = NULL  PROVE dev' \in Dev
    <3>1. "VALID" \in Stat /\ dev' = AnswersOut(dev, "VALID")
      BY <2>1, <2>3 DEF Stat, AnswersOut
    <3>. QED  BY <1>0, <3>1, OutStatDoes
  <2>4. dev' \in Dev
    BY <2>2, <2>3
  <2>5. locks' \in Nat
    BY <2>1, InterruptedDoes
  <2>6. /\ host' = host /\ ctr' \subseteq {"TX", "RX"} /\ setup' = NULL /\ used' \in BOOLEAN
        /\ UNCHANGED <<aborts, resets, driver>>
    BY <1>0, <1>1 DEF IrqRx
  <2>. QED  BY <1>0, <2>4, <2>5, <2>6 DEF TypeOK, Dev, Host, ClassEndpoint
<1>2. CASE IrqTx
  <2>1. PICK locked \in BOOLEAN :
           /\ Interrupted(locked)
           /\ dev' = ApplyAddress(USBD_LL_DataInStage(Fetched(dev), locked))
    BY <1>2 DEF IrqTx, Fetched
  <2>2. dev' \in Dev
    BY <1>0, <2>1, FetchedDoes, DataInDoes, ApplyDoes
  <2>3. locks' \in Nat
    BY <2>1, InterruptedDoes
  <2>4. /\ host' = host /\ ctr' = {} /\ UNCHANGED <<setup, used, aborts, resets, driver>>
    BY <1>2 DEF IrqTx
  <2>. QED  BY <1>0, <2>2, <2>3, <2>4 DEF TypeOK, Dev, Host, ClassEndpoint
<1>. QED  BY <1>1, <1>2

\* The host's transfer is over.
LEMMA IdleDoes ==
    ASSUME NEW h \in Host
    PROVE  LET e == Idle(h)
           IN  /\ e \in Host /\ e.phase = "idle" /\ e.addr = h.addr
               /\ e.step = h.step /\ e.config = h.config /\ e.stale = h.stale
BY DEF Idle, Host

LEMMA DoneDoes ==
    ASSUME NEW h \in Host, h.req \in Requests
    PROVE  LET e == Done(h)
           IN  /\ e \in Host /\ e.phase = "idle"
               /\ e.addr = IF h.req.name = "SET_ADDRESS" THEN h.req.value ELSE h.addr
               /\ e.stale = IF h.req.name = "SET_ADDRESS" /\ h.req.value # 0 THEN {}
                            ELSE h.stale
               /\ e.config = IF h.req.name = "SET_CONFIGURATION" /\ h.config # NULL
                             THEN h.req.value ELSE h.config
<1> DEFINE i == Idle(h)
           a == IF h.req.name = "SET_ADDRESS" THEN h.req.value ELSE h.addr
           t == IF h.req.name = "SET_ADDRESS" /\ h.req.value # 0 THEN {} ELSE h.stale
           c == IF h.req.name = "SET_CONFIGURATION" /\ h.config # NULL THEN h.req.value
                ELSE h.config
           n == IF h.step < 3 /\ h.req \in Script(h.step) THEN h.step + 1 ELSE h.step
           e == [i EXCEPT !.addr = a, !.stale = t, !.config = c, !.step = n]
<1>0. /\ i \in Host /\ i.phase = "idle" /\ i.addr = h.addr
      /\ i.step = h.step /\ i.config = h.config /\ i.stale = h.stale
  BY IdleDoes
<1>1. a \in Addresses \cup {0} /\ t \in SUBSET Addresses
  BY RequestKinds DEF Host
<1>2. h.step \in 0 .. 3
  BY DEF Host
<1>3. n \in 0 .. 3
  BY <1>2
<1>4. c \in 0 .. 2 \cup {NULL}
  <2>1. h.req.name = "SET_CONFIGURATION" => h.req.value \in 0 .. 2
    BY RequestKinds
  <2>. QED  BY <2>1 DEF Host
<1> HIDE DEF i
<1>5. Done(h) = e
  BY <1>0 DEF Done, Host, i
<1> HIDE DEF a, t, c, n
<1>6. /\ e \in Host /\ e.phase = "idle" /\ e.addr = a /\ e.stale = t /\ e.config = c
  BY <1>0, <1>1, <1>3, <1>4 DEF Host
<1>. QED  BY <1>5, <1>6 DEF a, t, c

\* What the host fetches in a data stage.
Took(h, pma) ==
    [h EXCEPT !.got = h.got + pma.len,
              !.right = /\ @
                        /\ pma.len > 0 => pma.tag = h.req /\ pma.from = h.got,
              !.phase = IF pma.len < MaxPacket \/ h.got + pma.len >= h.req.wLength
                        THEN "status_out" ELSE "data"]

LEMMA TookDoes ==
    ASSUME NEW h \in Host, NEW pma \in Packet
    PROVE  LET e == Took(h, pma)
           IN  /\ e \in Host /\ e.req = h.req /\ e.addr = h.addr
               /\ e.config = h.config /\ e.stale = h.stale
               /\ e.got = h.got + pma.len
               /\ e.right = (h.right /\ (pma.len > 0 => pma.tag = h.req /\ pma.from = h.got))
               /\ e.phase = IF pma.len < MaxPacket \/ h.got + pma.len >= h.req.wLength
                            THEN "status_out" ELSE "data"
<1>1. h.got + pma.len \in Nat
  BY MaxPacketAssumption DEF Host, Packet
<1>2. (h.right /\ (pma.len > 0 => pma.tag = h.req /\ pma.from = h.got)) \in BOOLEAN
  OBVIOUS
<1>. QED  BY <1>1, <1>2 DEF Took, Host

\* What a transfer that is given up leaves in doubt.
LEMMA StaleTypes ==
    ASSUME TypeOK, HostAsks
    PROVE  StaleAddresses \in SUBSET Addresses /\ host.stale \subseteq StaleAddresses
<1>1. host.stale \in SUBSET Addresses
  BY DEF TypeOK
<1>2. host.phase # "idle" /\ host.req.name = "SET_ADDRESS" => host.req.value \in Addresses
  BY RequestKinds DEF HostAsks
<1>. QED  BY <1>1, <1>2 DEF StaleAddresses

\* The host after its SETUP packet.
Asks(h, req, c, t) ==
    [h EXCEPT !.req = req, !.got = 0, !.right = TRUE,
              !.phase = IF req.wLength > 0 THEN "data" ELSE "status_in",
              !.config = c, !.stale = t]

LEMMA AsksDoes ==
    ASSUME TypeOK, HostAsks, NEW req \in Requests, HostSetup(req)
    PROVE  /\ host' \in Host
           /\ host'.req = req /\ host'.got = 0 /\ host'.right /\ host'.addr = host.addr
           /\ host'.phase = IF req.wLength > 0 THEN "data" ELSE "status_in"
           /\ host'.config = IF ConfigInDoubt THEN NULL ELSE host.config
           /\ host'.stale = StaleAddresses
<1> DEFINE c == IF ConfigInDoubt THEN NULL ELSE host.config
           t == StaleAddresses
<1>1. host \in Host /\ t \in SUBSET Addresses
  BY Types, StaleTypes
<1>2. c \in 0 .. 2 \cup {NULL}
  BY <1>1 DEF Host
<1>3. host' = Asks(host, req, c, t)
  BY <1>1 DEF HostSetup, Asks, Host
<1> HIDE DEF c, t
<1>. QED  BY <1>1, <1>2, <1>3 DEF Asks, Host, c, t

LEMMA SetupTypes ==
    ASSUME TypeOK, HostAsks, NEW req \in Requests, HostSetup(req)
    PROVE  TypeOK' /\ HostAsks'
<1>0. /\ dev \in Dev /\ host \in Host
      /\ ctr \subseteq {"TX", "RX"} /\ setup \in Requests \cup {NULL}
      /\ used \in BOOLEAN /\ driver \in {"any", "enumerates"}
      /\ aborts \in Nat /\ resets \in Nat /\ locks \in Nat
  BY Types
<1>1. dev' \in Dev
  <2>1. "NAK" \in Stat /\ dev' = Answers(dev, "NAK", "NAK")
    BY DEF HostSetup, Stat, Answers
  <2>. QED  BY <1>0, <2>1, StatDoes
<1>2. host' \in Host /\ host'.req = req
  BY AsksDoes
<1>3. aborts' \in Nat
  BY <1>0 DEF HostSetup
<1>4. ctr' \subseteq {"TX", "RX"} /\ setup' = req /\ UNCHANGED <<used, resets, locks, driver>>
  BY <1>0 DEF HostSetup
<1>5. TypeOK'
  BY <1>0, <1>1, <1>2, <1>3, <1>4 DEF TypeOK, Dev, Host, ClassEndpoint
<1>. QED  BY <1>2, <1>5 DEF HostAsks

LEMMA HostTypes ==
    ASSUME TypeOK, HostAsks, HostIn \/ HostStatusOut \/ HostStalled
    PROVE  TypeOK' /\ HostAsks'
<1>0. /\ dev \in Dev /\ host \in Host
      /\ ctr \subseteq {"TX", "RX"} /\ setup \in Requests \cup {NULL}
      /\ used \in BOOLEAN /\ driver \in {"any", "enumerates"}
      /\ aborts \in Nat /\ resets \in Nat /\ locks \in Nat
  BY Types
<1>1. CASE HostIn
  <2>1. host.phase \in {"data", "status_in"} /\ (host' = Took(host, dev.pma) \/ host' = Done(host))
    BY <1>1 DEF HostIn, Took
  <2>2. host.req \in Requests /\ dev.pma \in Packet
    BY <1>0, <2>1 DEF HostAsks, Dev
  <2>3. host' \in Host /\ (host'.phase # "idle" => host'.req = host.req)
    BY <1>0, <2>1, <2>2, TookDoes, DoneDoes
  <2>4. dev' \in Dev
    <3>1. "NAK" \in Stat /\ dev' = AnswersIn(dev, "NAK")
      BY <1>1 DEF HostIn, Stat, AnswersIn
    <3>. QED  BY <1>0, <3>1, InStatDoes
  <2>5. ctr' = {"TX"} /\ UNCHANGED <<setup, used, aborts, resets, locks, driver>>
    BY <1>1 DEF HostIn
  <2>6. TypeOK'
    BY <1>0, <2>3, <2>4, <2>5 DEF TypeOK, Dev, Host, ClassEndpoint
  <2>. QED  BY <2>2, <2>3, <2>6 DEF HostAsks
<1>2. CASE HostStatusOut
  <2>1. host.req \in Requests /\ host' = Done(host)
    BY <1>2 DEF HostAsks, HostStatusOut
  <2>2. host' \in Host /\ host'.phase = "idle"
    BY <1>0, <2>1, DoneDoes
  <2>3. dev' \in Dev
    <3>1. "NAK" \in Stat /\ dev' = AnswersOut(dev, "NAK")
      BY <1>2 DEF HostStatusOut, Stat, AnswersOut
    <3>. QED  BY <1>0, <3>1, OutStatDoes
  <2>4. ctr' = {"RX"} /\ setup' = NULL /\ UNCHANGED <<used, aborts, resets, locks, driver>>
    BY <1>2 DEF HostStatusOut
  <2>5. TypeOK'
    BY <1>0, <2>2, <2>3, <2>4 DEF TypeOK, Dev, Host, ClassEndpoint
  <2>. QED  BY <2>1, <2>2, <2>5 DEF HostAsks
<1>3. CASE HostStalled
  <2>1. host' \in Host /\ host'.phase = "idle"
    BY <1>0, <1>3, IdleDoes DEF HostStalled
  <2>2. UNCHANGED <<dev, ctr, setup, used, aborts, resets, locks, driver>>
    BY <1>3 DEF HostStalled
  <2>3. TypeOK'
    BY <1>0, <2>1, <2>2 DEF TypeOK, Dev, Host, ClassEndpoint
  <2>. QED  BY <2>1, <2>3 DEF HostAsks
<1>. QED  BY <1>1, <1>2, <1>3

\* The host after a bus reset.
LEMMA ResetHost ==
    ASSUME TypeOK, HostAsks, BusReset
    PROVE  /\ host' \in Host /\ host'.phase = "idle" /\ host'.addr = 0
           /\ host'.config = 0 /\ host'.stale = StaleAddresses
<1> DEFINE i == Idle(host)
           t == StaleAddresses
<1>1. i \in Host /\ i.phase = "idle" /\ t \in SUBSET Addresses /\ 0 \in 0 .. 3 /\ 0 \in 0 .. 2
  BY Types, IdleDoes, StaleTypes
<1>2. host' = [i EXCEPT !.addr = 0, !.step = 0, !.config = 0, !.stale = t]
  BY DEF BusReset
<1> HIDE DEF i, t
<1>. QED  BY <1>1, <1>2 DEF Host, t

LEMMA ResetTypes ==
    ASSUME TypeOK, HostAsks, HostReset \/ HostGivesUp
    PROVE  TypeOK' /\ HostAsks'
<1>0. /\ dev \in Dev /\ host \in Host
      /\ ctr \subseteq {"TX", "RX"} /\ setup \in Requests \cup {NULL}
      /\ used \in BOOLEAN /\ driver \in {"any", "enumerates"}
      /\ aborts \in Nat /\ resets \in Nat /\ locks \in Nat
  BY Types
<1>1. BusReset /\ resets' \in Nat
  BY <1>0 DEF HostReset, HostGivesUp
<1>2. PICK locked \in BOOLEAN : Interrupted(locked) /\ dev' = Reset(dev, locked)
  BY <1>1, BusResetIs
<1>3. dev' \in Dev /\ locks' \in Nat
  BY <1>0, <1>2, ResetDoes, InterruptedDoes
<1>4. host' \in Host /\ host'.phase = "idle"
  BY <1>1, ResetHost
<1>5. UNCHANGED <<ctr, setup, used, aborts, driver>>
  BY <1>1 DEF BusReset
<1>6. TypeOK'
  BY <1>0, <1>1, <1>3, <1>4, <1>5 DEF TypeOK, Dev, Host, ClassEndpoint
<1>. QED  BY <1>4, <1>6 DEF HostAsks

\* The scripts of the enumerating driver are requests.
LEMMA ScriptIsRequests ==
    ASSUME NEW n \in 0 .. 3
    PROVE  Script(n) \subseteq Requests
<1>1. AnsweredReq \subseteq Requests
  BY DEF Requests
<1>2. Req("DEV", "SET_CONFIGURATION", 1, 0, 0) \in AnsweredReq
  <2>1. 1 \in 0 .. 2
    OBVIOUS
  <2>. QED  BY <2>1 DEF AnsweredReq
<1>3. Req("DEV", "GET_STATUS", 0, 0, 2) \in AnsweredReq
  BY DEF AnsweredReq
<1>4. n = 0 \/ n = 1 \/ n = 2 \/ n = 3
  OBVIOUS
<1>5. {Req("DEV", "SET_ADDRESS", a, 0, 0) : a \in Addresses \ {0}} \subseteq AnsweredReq
  BY DEF AnsweredReq
<1>. QED  BY <1>1, <1>2, <1>3, <1>4, <1>5 DEF Script

LEMMA ControlTypes == TypeOK /\ HostAsks /\ [Next]_vars => TypeOK' /\ HostAsks'
<1> SUFFICES ASSUME TypeOK, HostAsks, [Next]_vars
             PROVE  TypeOK' /\ HostAsks'
  OBVIOUS
<1>1. CASE IrqRx \/ IrqTx
  BY <1>1, IrqTypes DEF IrqRx, IrqTx, HostAsks
<1>2. CASE Ask
  BY <1>2, SetupTypes DEF Ask
<1>3. CASE Enumerate
  <2>1. host.step \in 0 .. 3
    BY DEF TypeOK
  <2>. QED  BY <1>3, <2>1, ScriptIsRequests, SetupTypes DEF Enumerate
<1>4. CASE UNCHANGED vars
  BY <1>4 DEF vars, TypeOK, HostAsks
<1>. QED  BY <1>1, <1>2, <1>3, <1>4, HostTypes, ResetTypes DEF Next, Transactions
-----------------------------------------------------------------------------
(***************************************************************************)
(* The configuration, with either driver                                   *)
(***************************************************************************)

LEMMA AgreedKept ==
    ASSUME NEW c, NEW d, NEW e, Agreed(c, d), ConfSame(d, e) \/ SameButTransfer(d, e)
    PROVE  Agreed(c, e)
BY DEF Agreed, ConfSame, SameButTransfer

\* A new SETUP: what was asked of the device before is in doubt, or the host agrees with it.
LEMMA ConfigSetup ==
    ASSUME TypeOK, HostAsks, HandshakeInv, ConfigInv, NEW req \in Requests, HostSetup(req)
    PROVE  HandshakeInv' /\ ConfigInv'
<1>0. dev \in Dev
  BY Types
<1>1. "RX" \notin ctr /\ "RX" \in ctr' /\ setup' = req /\ req # NULL
  BY NullAssumption DEF HostSetup
<1>2. setup = NULL
  BY <1>1 DEF HandshakeInv
<1>3. SameButTransfer(dev, dev') /\ dev'.IN_ep0.stat = "NAK"
  <2>1. "NAK" \in Stat /\ dev' = Answers(dev, "NAK", "NAK")
    BY DEF HostSetup, Stat, Answers
  <2>. QED  BY <1>0, <2>1, StatDoes
<1>4. /\ host'.req = req
      /\ host'.phase = IF req.wLength > 0 THEN "data" ELSE "status_in"
      /\ host'.config = IF ConfigInDoubt THEN NULL ELSE host.config
  BY AsksDoes
<1>5. ~Configuring'
  BY <1>1 DEF Configuring
<1>6. host'.config # NULL => Agreed(host'.config, dev')
  <2> SUFFICES ASSUME host'.config # NULL
               PROVE  Agreed(host.config, dev) /\ host'.config = host.config
    BY <1>3, AgreedKept
  <2>1. ~ConfigInDoubt /\ host'.config = host.config
    BY <1>4
  <2>2. ~Configuring
    BY <2>1 DEF Configuring, ConfigInDoubt
  <2>. QED  BY <2>1, <2>2 DEF ConfigInv
<1>7. HandshakeInv'
  BY <1>1, <1>3, <1>4, <1>5 DEF HandshakeInv
<1>. QED  BY <1>5, <1>6, <1>7 DEF ConfigInv

LEMMA ConfigRx ==
    ASSUME TypeOK, HostAsks, HandshakeInv, ConfigInv, IrqRx
    PROVE  HandshakeInv' /\ ConfigInv'
<1>0. dev \in Dev /\ host \in Host /\ setup \in Requests \cup {NULL}
  BY Types
<1>1. setup' = NULL /\ host' = host
  BY DEF IrqRx
<1>2. PICK locked \in BOOLEAN :
         dev' = IF setup # NULL THEN USBD_LL_SetupStage(dev, setup, locked)
                ELSE [dev EXCEPT !.OUT_ep0.stat = "VALID"]
  BY DEF IrqRx
<1>3. CASE setup = NULL
  <2>1. SameButTransfer(dev, dev') /\ dev'.IN_ep0 = dev.IN_ep0 /\ dev'.ep0_state = dev.ep0_state
    <3>1. "VALID" \in Stat /\ dev' = AnswersOut(dev, "VALID")
      BY <1>2, <1>3 DEF Stat, AnswersOut
    <3>. QED  BY <1>0, <3>1, OutStatDoes DEF SameCounters
  <2>2. Configuring' <=> Configuring
    BY <1>1, <1>3 DEF Configuring
  <2>3. HandshakeInv'
    BY <1>1, <2>1, <2>2 DEF HandshakeInv
  <2>4. ASSUME NEW c, Agreed(c, dev)
        PROVE  Agreed(c, dev')
    BY <2>1, <2>4, AgreedKept
  <2>5. ConfigInv'
    BY <1>1, <2>1, <2>2, <2>4 DEF ConfigInv
  <2>. QED  BY <2>3, <2>5
<1>4. CASE setup # NULL
  <2> DEFINE req == setup
             s == [dev EXCEPT !.ep0_state = "SETUP", !.ep0_data_len = req.wLength]
             e == USBD_LL_SetupStage(dev, req, locked)
  <2>1. /\ req \in Requests /\ req = host.req /\ dev.IN_ep0.stat = "NAK" /\ ~Configuring
        /\ host.phase = IF req.wLength > 0 THEN "data" ELSE "status_in"
    BY <1>0, <1>4 DEF HandshakeInv, Configuring
  <2>2. dev' = e
    BY <1>2, <1>4
  <2>3. host.config # NULL => Agreed(host.config, dev)
    BY <2>1 DEF ConfigInv
  <2>4. CASE req.name # "SET_CONFIGURATION"
    <3>1. ~Configuring'
      BY <1>1, <2>1, <2>4 DEF Configuring
    <3>2. Outcome(s, req, e, locked) /\ SameButTransfer(dev, s)
      BY <1>0, <2>1, SetupOutcome
    <3>3. ConfSame(s, e)
      BY <2>4, <3>2 DEF Outcome
    <3> HIDE DEF s, e
    <3>4. host.config # NULL => Agreed(host.config, e)
      BY <2>3, <3>2, <3>3, AgreedKept
    <3>. QED  BY <1>1, <2>2, <3>1, <3>4 DEF ConfigInv, HandshakeInv
  <2>5. CASE req.name = "SET_CONFIGURATION"
    <3>1. host.phase = "status_in" /\ req.wLength = 0
      BY <2>1, <2>5, RequestKinds
    <3>2. /\ e.ep0_state \in {"SETUP", "STATUS_IN"}
          /\ locked => e.IN_ep0.stat = dev.IN_ep0.stat
          /\ \A c : ~locked /\ Agreed(c, dev) =>
                \/ e.IN_ep0.stat = "VALID" /\ Agreed(req.value, e)
                \/ e.IN_ep0.stat = "STALL" /\ Agreed(c, e)
      BY <1>0, <2>1, <2>5, SetupConfigures
    <3> HIDE DEF e
    <3>3. Configuring'
      BY <1>1, <2>1, <2>5, <3>1 DEF Configuring
    <3>4. HandshakeInv'
      BY <1>1, <2>2, <3>1, <3>2 DEF HandshakeInv
    <3>5. host.config # NULL /\ e.IN_ep0.stat = "VALID" => Agreed(req.value, e)
      BY <2>1, <2>3, <3>2
    <3>6. host.config # NULL /\ e.IN_ep0.stat = "STALL" => Agreed(host.config, e)
      BY <2>1, <2>3, <3>2
    <3>7. ConfigInv'
      BY <1>1, <2>1, <2>2, <3>3, <3>5, <3>6 DEF ConfigInv
    <3>. QED  BY <3>4, <3>7
  <2>. QED  BY <2>4, <2>5
<1>. QED  BY <1>3, <1>4

LEMMA ConfigTx ==
    ASSUME TypeOK, HostAsks, HandshakeInv, ConfigInv, IrqTx
    PROVE  HandshakeInv' /\ ConfigInv'
<1>0. dev \in Dev
  BY Types
<1>1. setup = NULL /\ setup' = NULL /\ host' = host
  BY DEF IrqTx, HandshakeInv
<1>2. PICK locked \in BOOLEAN :
         dev' = ApplyAddress(USBD_LL_DataInStage(Fetched(dev), locked))
  BY DEF IrqTx, Fetched
<1> DEFINE f == Fetched(dev)
           g == USBD_LL_DataInStage(f, locked)
<1>3. /\ f \in Dev /\ SameButTransfer(dev, f) /\ f.ep0_state = dev.ep0_state
      /\ f.IN_ep0.stat = dev.IN_ep0.stat
  BY <1>0, FetchedDoes DEF SameCounters
<1> HIDE DEF f
<1>4. g \in Dev /\ SameButTransfer(f, g) /\ (f.ep0_state # "DATA_IN" => g = f)
  BY <1>3, DataInDoes
<1> HIDE DEF g
<1>5. /\ dev'.dev_state = g.dev_state /\ dev'.ep = g.ep
      /\ dev'.IN_ep0 = g.IN_ep0 /\ dev'.ep0_state = g.ep0_state
  BY <1>2, <1>4, ApplyDoes DEF f, g, SameCounters
<1>6. dev'.dev_state = dev.dev_state /\ dev'.ep = dev.ep
  BY <1>3, <1>4, <1>5 DEF SameButTransfer
<1>7. /\ Configuring' <=> Configuring
      /\ Configuring => /\ dev'.ep0_state = dev.ep0_state
                        /\ dev'.IN_ep0.stat = dev.IN_ep0.stat
  <2>1. Configuring' <=> Configuring
    BY <1>1 DEF Configuring
  <2>2. Configuring => g = f
    BY <1>3, <1>4 DEF HandshakeInv
  <2>. QED  BY <1>3, <1>5, <2>1, <2>2
<1>8. HandshakeInv'
  BY <1>1, <1>7 DEF HandshakeInv
<1>9. \A c : Agreed(c, dev) => Agreed(c, dev')
  BY <1>6 DEF Agreed
<1>10. ConfigInv'
  BY <1>1, <1>7, <1>9 DEF ConfigInv
<1>. QED  BY <1>8, <1>10

LEMMA ConfigHost ==
    ASSUME TypeOK, HostAsks, HandshakeInv, ConfigInv,
           HostIn \/ HostStatusOut \/ HostStalled \/ HostReset \/ HostGivesUp
    PROVE  HandshakeInv' /\ ConfigInv'
<1>0. dev \in Dev /\ host \in Host /\ dev.pma \in Packet
  BY Types DEF Dev
<1>1. setup = NULL /\ setup' = NULL
  BY DEF HostIn, HostStatusOut, HostStalled, HostReset, HostGivesUp, BusReset, HandshakeInv
<1>2. ASSUME host'.phase = "idle", host'.config # NULL => Agreed(host'.config, dev')
      PROVE  HandshakeInv' /\ ConfigInv'
  BY <1>1, <1>2 DEF HandshakeInv, ConfigInv, Configuring
<1>3. CASE HostIn
  <2>1. SameButTransfer(dev, dev') /\ dev'.ep0_state = dev.ep0_state
    <3>1. "NAK" \in Stat /\ dev' = AnswersIn(dev, "NAK")
      BY <1>3 DEF HostIn, Stat, AnswersIn
    <3>. QED  BY <1>0, <3>1, InStatDoes DEF SameCounters
  <2>2. CASE host.phase = "data" /\ host' = Took(host, dev.pma)
    <3>1. host'.config = host.config /\ host'.req = host.req
      BY <1>0, <2>2, TookDoes
    <3>2. ~Configuring
      BY <2>2 DEF HandshakeInv
    <3>3. ~Configuring'
      BY <1>1, <2>2, <3>1, <3>2 DEF Configuring
    <3>4. host.config # NULL => Agreed(host.config, dev')
      BY <2>1, <3>2, AgreedKept DEF ConfigInv
    <3>. QED  BY <1>1, <3>1, <3>3, <3>4 DEF HandshakeInv, ConfigInv
  <2>3. CASE host.phase = "status_in" /\ host' = Done(host)
    <3>1. /\ host'.phase = "idle"
          /\ host'.config = IF host.req.name = "SET_CONFIGURATION" /\ host.config # NULL
                            THEN host.req.value ELSE host.config
      BY <1>0, <2>3, DoneDoes DEF HostAsks
    <3>2. dev.IN_ep0.stat = "VALID"
      BY <1>3 DEF HostIn
    <3>3. CASE host.req.name = "SET_CONFIGURATION"
      <4>1. Configuring
        BY <1>1, <2>3, <3>3 DEF Configuring
      <4>2. host.config # NULL => Agreed(host.req.value, dev')
        BY <2>1, <3>2, <4>1, AgreedKept DEF ConfigInv
      <4>. QED  BY <1>2, <3>1, <3>3, <4>2
    <3>4. CASE host.req.name # "SET_CONFIGURATION"
      <4>1. ~Configuring
        BY <3>4 DEF Configuring
      <4>2. host.config # NULL => Agreed(host.config, dev')
        BY <2>1, <4>1, AgreedKept DEF ConfigInv
      <4>. QED  BY <1>2, <3>1, <3>4, <4>2
    <3>. QED  BY <3>3, <3>4
  <2>. QED  BY <1>3, <2>2, <2>3 DEF HostIn, Took
<1>4. CASE HostStatusOut
  <2>1. host.phase = "status_out" /\ host' = Done(host) /\ host.req \in Requests
    BY <1>4 DEF HostStatusOut, HostAsks
  <2>2. ~Configuring /\ host.req.name # "SET_CONFIGURATION"
    BY <1>1, <2>1 DEF HandshakeInv, Configuring
  <2>3. host'.phase = "idle" /\ host'.config = host.config
    BY <1>0, <2>1, <2>2, DoneDoes
  <2>4. SameButTransfer(dev, dev')
    <3>1. "NAK" \in Stat /\ dev' = AnswersOut(dev, "NAK")
      BY <1>4 DEF HostStatusOut, Stat, AnswersOut
    <3>. QED  BY <1>0, <3>1, OutStatDoes
  <2>5. host.config # NULL => Agreed(host.config, dev')
    BY <2>2, <2>4, AgreedKept DEF ConfigInv
  <2>. QED  BY <1>2, <2>3, <2>5
<1>5. CASE HostStalled
  <2>1. host'.phase = "idle" /\ host'.config = host.config /\ dev' = dev
    BY <1>0, <1>5, IdleDoes DEF HostStalled
  <2>2. Configuring => dev.IN_ep0.stat = "STALL"
    BY <1>5 DEF HostStalled, Awaited, HandshakeInv
  <2>3. host.config # NULL => Agreed(host.config, dev)
    BY <2>2 DEF ConfigInv
  <2>. QED  BY <1>2, <2>1, <2>3
<1>6. CASE HostReset \/ HostGivesUp
  <2>1. BusReset
    BY <1>6 DEF HostReset, HostGivesUp
  <2>2. host'.phase = "idle" /\ host'.config = 0
    BY <2>1, ResetHost
  <2>3. dev'.dev_state = "DEFAULT"
    BY <1>0, <2>1, BusResetIs, ResetDoes
  <2>4. Agreed(host'.config, dev')
    BY <2>2, <2>3 DEF Agreed
  <2>. QED  BY <1>2, <2>2, <2>4
<1>. QED  BY <1>3, <1>4, <1>5, <1>6

LEMMA ConfigStep ==
    TypeOK /\ HostAsks /\ HandshakeInv /\ ConfigInv /\ [Next]_vars
      => HandshakeInv' /\ ConfigInv'
<1> SUFFICES ASSUME TypeOK, HostAsks, HandshakeInv, ConfigInv, [Next]_vars
             PROVE  HandshakeInv' /\ ConfigInv'
  OBVIOUS
<1>1. CASE Ask
  BY <1>1, ConfigSetup DEF Ask
<1>2. CASE Enumerate
  <2>1. host.step \in 0 .. 3
    BY DEF TypeOK
  <2>. QED  BY <1>2, <2>1, ScriptIsRequests, ConfigSetup DEF Enumerate
<1>3. CASE UNCHANGED vars
  BY <1>3 DEF vars, HandshakeInv, ConfigInv, Configuring, Agreed
<1>. QED  BY <1>1, <1>2, <1>3, ConfigRx, ConfigTx, ConfigHost DEF Next, Transactions
-----------------------------------------------------------------------------
(***************************************************************************)
(* The driver that asks for anything                                       *)
(***************************************************************************)

LEMMA SetupStep ==
    ASSUME TypeOK, HostAsks, Any, AnyInv, NEW req \in Requests, HostSetup(req)
    PROVE  AnyInv'
<1>0. dev \in Dev /\ host \in Host /\ aborts \in Nat
  BY Types
<1>1. /\ ctr = {} /\ ctr' = {"RX"} /\ setup' = req /\ req # NULL
      /\ UNCHANGED driver /\ Heard
  BY NullAssumption DEF HostSetup, Any, AnyInv, PendingInv
<1>2. /\ SameButTransfer(dev, dev') /\ dev'.IN_ep0.stat = "NAK" /\ dev'.OUT_ep0.stat = "NAK"
  <2>1. "NAK" \in Stat /\ dev' = Answers(dev, "NAK", "NAK")
    BY DEF HostSetup, Stat, Answers
  <2>. QED  BY <1>0, <2>1, StatDoes
<1>3. /\ host'.req = req /\ host'.got = 0 /\ host'.right /\ host'.addr = host.addr
      /\ host'.phase = IF req.wLength > 0 THEN "data" ELSE "status_in"
      /\ host'.stale = StaleAddresses
  BY AsksDoes
<1>5. PendingInv'
  BY <1>1, <1>2, <1>3 DEF PendingInv
<1>6. DataInv' /\ AnswerInv'
  BY <1>1 DEF DataInv, AnswerInv
<1>7. AddressInv'
  <2>1. dev'.USB_Address \in {0} \cup host'.stale
    <3>1. dev'.USB_Address = dev.USB_Address
      BY <1>2 DEF SameButTransfer
    <3>2. \/ dev.USB_Address \in {0} \cup host.stale
          \/ AddressAsked /\ dev.USB_Address = host.req.value
      BY <1>1 DEF AnyInv, AddressInv
    <3>3. AddressAsked => host.req.value \in {0} \cup StaleAddresses
      BY DEF AddressAsked, StaleAddresses
    <3>4. host.stale \subseteq StaleAddresses
      BY StaleTypes
    <3>. QED  BY <1>3, <3>1, <3>2, <3>3, <3>4
  <2>2. dev'.DADDR = host'.addr
    BY <1>1, <1>2, <1>3 DEF Heard, SameButTransfer
  <2>3. ~AddressAsked'
    BY <1>1 DEF AddressAsked
  <2>. QED  BY <1>1, <2>1, <2>2, <2>3 DEF AddressInv
<1>. QED  BY <1>5, <1>6, <1>7 DEF AnyInv

\* The SETUP is handled: the data stage, the status stage or the STALL is there.
LEMMA RxStep ==
    ASSUME TypeOK, HostAsks, Any, AnyInv, IrqRx
    PROVE  AnyInv'
<1>0. dev \in Dev /\ host \in Host /\ setup \in Requests \cup {NULL}
  BY Types
<1>1. ctr = {"RX"} /\ ctr' = {} /\ setup' = NULL /\ UNCHANGED <<host, aborts, resets, driver>>
  BY DEF IrqRx, AnyInv, PendingInv
<1>2. /\ setup # NULL => dev' = USBD_LL_SetupStage(dev, setup, FALSE)
      /\ setup = NULL => dev' = [dev EXCEPT !.OUT_ep0.stat = "VALID"]
  <2>1. PICK locked \in BOOLEAN :
           /\ Interrupted(locked)
           /\ dev' = IF setup # NULL THEN USBD_LL_SetupStage(dev, setup, locked)
                     ELSE [dev EXCEPT !.OUT_ep0.stat = "VALID"]
    BY DEF IrqRx
  <2>2. locked = FALSE
    BY <2>1, InterruptedDoes
  <2>. QED  BY <2>1, <2>2
<1>3. PendingInv'
  BY <1>1 DEF PendingInv
<1>4. CASE setup = NULL
  <2>1. SameButTransfer(dev, dev') /\ host.phase = "idle"
    <3>1. "VALID" \in Stat /\ dev' = AnswersOut(dev, "VALID")
      BY <1>2, <1>4 DEF Stat, AnswersOut
    <3>2. SameButTransfer(dev, dev')
      BY <1>0, <3>1, OutStatDoes
    <3>. QED  BY <1>1, <1>4, <3>2 DEF AnyInv, PendingInv
  <2>2. DataInv' /\ AnswerInv'
    BY <1>1, <2>1 DEF DataInv, AnswerInv
  <2>3. /\ dev.USB_Address \in {0} \cup host.stale /\ dev.DADDR = host.addr
        /\ dev'.USB_Address = dev.USB_Address /\ dev'.DADDR = dev.DADDR
    BY <1>1, <2>1 DEF AnyInv, AddressInv, AddressAsked, SameButTransfer
  <2>4. AddressInv'
    BY <1>1, <2>1, <2>3 DEF AddressInv, AddressAsked
  <2>. QED  BY <1>3, <2>2, <2>4 DEF AnyInv
<1>5. CASE setup # NULL
  <2> DEFINE req == setup
             s == [dev EXCEPT !.ep0_state = "SETUP", !.ep0_data_len = req.wLength]
             e == USBD_LL_SetupStage(dev, req, FALSE)
  <2>1. /\ req \in Requests /\ req = host.req /\ host.got = 0 /\ host.right
        /\ dev.IN_ep0.stat = "NAK" /\ dev.OUT_ep0.stat # "DIS"
        /\ host.phase = IF req.wLength > 0 THEN "data" ELSE "status_in"
        /\ req.wLength \in Nat
    BY <1>0, <1>1, <1>5, RequestKinds DEF AnyInv, PendingInv
  <2>2. /\ Outcome(s, req, e, FALSE)
        /\ s \in Dev /\ SameButTransfer(dev, s) /\ s.ep0_data_len = req.wLength
        /\ s.IN_ep0 = dev.IN_ep0 /\ s.OUT_ep0 = dev.OUT_ep0
    BY <1>0, <2>1, SetupOutcome
  <2>3. dev' = e
    BY <1>2, <1>5
  <2> HIDE DEF s, e
  <2>4. /\ DaddrKept(s, req, e) /\ s.DADDR = dev.DADDR /\ s.USB_Address = dev.USB_Address
        /\ e.ep0_data_len = req.wLength
        /\ \/ Refused(s, e) \/ StatusStage(s, req, e)
           \/ DataStage(s, req, e) \/ Silent(s, req, e)
    BY <2>1, <2>2 DEF Outcome, SameButTransfer
  <2>5. e.IN_ep0.stat = "VALID" => StatusStage(s, req, e) \/ DataStage(s, req, e)
    BY <2>1, <2>2, <2>4 DEF Refused, Silent
  <2>6. DataInv'
    <3>1. ASSUME host.phase = "data", e.IN_ep0.stat = "VALID"
          PROVE  (SameData /\ Offers)'
      <4>1. DataStage(s, req, e)
        BY <2>1, <2>5, <3>1 DEF StatusStage
      <4>0. req.name # "SET_ADDRESS"
        BY <4>1 DEF DataStage
      <4>2. 0 % MaxPacket = 0
        BY MaxPacketAssumption
      <4>3. ReplyLen(req) \in Nat
        BY <2>1, <4>1 DEF DataStage
      <4>. QED  BY <1>1, <2>1, <2>3, <2>4, <4>0, <4>1, <4>2, <4>3 DEF DataStage, SameData, Offers
    <3>. QED  BY <1>1, <2>1, <2>3, <3>1 DEF DataInv
  <2>7. AnswerInv'
    BY <1>1, <2>1, <2>3, <2>4 DEF AnswerInv, Refused, StatusStage, DataStage, Silent
  <2>8. AddressInv'
    <3>1. dev.DADDR = host.addr /\ dev.USB_Address \in {0} \cup host.stale
      BY <1>1 DEF AnyInv, AddressInv, AddressAsked
    <3>2. ASSUME AddressAsked'
          PROVE  StatusStage(s, req, e) /\ req.name = "SET_ADDRESS"
      <4>1. host.phase = "status_in" /\ req.name = "SET_ADDRESS" /\ e.IN_ep0.stat = "VALID"
        BY <1>1, <2>1, <2>3, <3>2 DEF AddressAsked
      <4>. QED  BY <2>5, <4>1 DEF DataStage
    <3>3. AddressAsked' => /\ req.value # 0 => dev'.USB_Address = req.value /\ AddressReady'
                           /\ req.value = 0 => dev'.DADDR = 0
      BY <2>3, <3>2 DEF StatusStage, AddressGiven, AddressReady
    <3>4. \/ dev'.USB_Address \in {0} \cup host.stale
          \/ AddressAsked' /\ dev'.USB_Address = req.value
      <4>1. CASE e.USB_Address = dev.USB_Address
        BY <2>3, <3>1, <4>1
      <4>2. CASE e.USB_Address # dev.USB_Address
        <5>1. StatusStage(s, req, e)
          BY <2>4, <4>2 DEF Refused, DataStage, Silent
        <5>2. req.name = "SET_ADDRESS" /\ e.USB_Address = req.value
          BY <2>4, <4>2, <5>1 DEF StatusStage, AddressGiven
        <5>3. host.phase = "status_in" /\ e.IN_ep0.stat = "VALID"
          BY <2>1, <5>1 DEF StatusStage
        <5>. QED  BY <1>1, <2>1, <2>3, <5>2, <5>3 DEF AddressAsked
      <4>. QED  BY <4>1, <4>2
    <3>5. dev'.DADDR \in {host.addr, OFF} \cup host.stale \/ ZeroUnderWay'
      BY <1>1, <2>1, <2>3, <2>4, <3>1 DEF DaddrKept, ZeroUnderWay
    <3>. QED  BY <1>1, <2>1, <3>3, <3>4, <3>5 DEF AddressInv
  <2>. QED  BY <1>3, <2>6, <2>7, <2>8 DEF AnyInv
<1>. QED  BY <1>4, <1>5

\* A packet of the data stage was fetched: the next one, the empty one or the status stage.
LEMMA TxStep ==
    ASSUME TypeOK, HostAsks, Any, AnyInv, IrqTx
    PROVE  AnyInv'
<1> DEFINE f == Fetched(dev)
           g == USBD_LL_DataInStage(f, FALSE)
<1>0. dev \in Dev /\ host \in Host /\ dev.rem_length \in Nat /\ MaxPacket \in Nat \ {0}
  BY Types, MaxPacketAssumption DEF Dev
<1>1. /\ ctr = {"TX"} /\ ctr' = {} /\ setup = NULL
      /\ UNCHANGED <<setup, host, aborts, resets, driver>>
  BY DEF IrqTx, AnyInv, PendingInv
<1>2. dev' = ApplyAddress(g)
  <2>1. PICK locked \in BOOLEAN :
           /\ Interrupted(locked)
           /\ dev' = ApplyAddress(USBD_LL_DataInStage(Fetched(dev), locked))
    BY DEF IrqTx, Fetched
  <2>2. locked = FALSE
    BY <2>1, InterruptedDoes
  <2>. QED  BY <2>1, <2>2
<1>3. /\ f \in Dev /\ SameButTransfer(dev, f) /\ SameCounters(dev, f)
      /\ f.ep0_data_len = dev.ep0_data_len /\ f.tag = dev.tag
      /\ f.IN_ep0.xfer_buff = dev.IN_ep0.xfer_buff + dev.pma.len
      /\ f.IN_ep0.xfer_len = dev.IN_ep0.xfer_len
  BY <1>0, FetchedDoes
<1> HIDE DEF f
<1>4. /\ g \in Dev /\ SameButTransfer(f, g)
      /\ f.ep0_state # "DATA_IN" => g = f
      /\ f.ep0_state = "DATA_IN" =>
           \/ /\ f.rem_length > MaxPacket
              /\ g.ep0_state = "DATA_IN" /\ g.total_length = f.total_length
              /\ g.rem_length = f.rem_length - MaxPacket
              /\ g.ep0_data_len = f.ep0_data_len
              /\ g.IN_ep0.stat = "VALID" /\ g.tag = f.tag /\ g.pma.tag = f.tag
              /\ g.IN_ep0.xfer_buff = f.IN_ep0.xfer_buff
              /\ g.pma.from = f.IN_ep0.xfer_buff
              /\ g.pma.len = AtMost(f.rem_length - MaxPacket, MaxPacket)
           \/ /\ f.rem_length <= MaxPacket /\ ClosingDue(f) /\ SameCounters(f, g)
              /\ g.ep0_data_len = 0 /\ g.IN_ep0.stat = "VALID" /\ g.pma.len = 0
           \/ /\ f.rem_length <= MaxPacket /\ ~ClosingDue(f)
              /\ g.OUT_ep0.stat = "VALID"
  BY <1>3, DataInDoes
<1> HIDE DEF g
<1>5. /\ dev'.dev_state = g.dev_state /\ dev'.ep = g.ep
      /\ dev'.IN_ep0 = g.IN_ep0 /\ dev'.OUT_ep0 = g.OUT_ep0 /\ SameCounters(g, dev')
      /\ dev'.ep0_data_len = g.ep0_data_len /\ dev'.tag = g.tag /\ dev'.pma = g.pma
      /\ \/ dev'.USB_Address = g.USB_Address /\ dev'.DADDR = g.DADDR
         \/ dev'.USB_Address = 0 /\ dev'.DADDR = g.USB_Address
      /\ g.USB_Address # 0 /\ g.IN_ep0.xfer_len = 0 =>
            dev'.USB_Address = 0 /\ dev'.DADDR = g.USB_Address
  BY <1>2, <1>4, ApplyDoes
<1>6. PendingInv'
  BY <1>1 DEF PendingInv
<1>8. host.phase # "idle" => /\ SameData /\ Owes /\ dev.total_length \in Nat
                            /\ host.phase \in {"data", "status_out"}
  BY <1>0, <1>1 DEF AnyInv, DataInv, Owes, Dev
<1>9. ASSUME host.phase # "idle", host.phase = "data"
      PROVE  (SameData /\ Offers)' /\ dev'.IN_ep0.stat = "VALID"
  <2>1. CASE dev.rem_length > MaxPacket
    <3>1. /\ dev.tag = host.req /\ dev.pma.len = MaxPacket
          /\ dev.IN_ep0.xfer_buff + MaxPacket = host.got
          /\ host.got + dev.rem_length = dev.total_length + MaxPacket
          /\ host.got % MaxPacket = 0 /\ dev.ep0_data_len = host.req.wLength
      BY <1>0, <1>8, <1>9, <2>1 DEF Owes
    <3>2. /\ g.ep0_state = "DATA_IN" /\ g.total_length = dev.total_length
          /\ g.rem_length = dev.rem_length - MaxPacket
          /\ g.ep0_data_len = host.req.wLength
          /\ g.IN_ep0.stat = "VALID" /\ g.tag = host.req /\ g.pma.tag = host.req
          /\ g.IN_ep0.xfer_buff = host.got /\ g.pma.from = host.got
          /\ g.pma.len = AtMost(dev.rem_length - MaxPacket, MaxPacket)
      BY <1>0, <1>3, <1>4, <1>8, <1>9, <2>1, <3>1 DEF SameData, SameCounters
    <3>3. host.got \in Nat /\ dev.total_length \in Nat
      BY <1>0 DEF Host, Dev
    <3>4. g.rem_length > 0 /\ host.got + g.rem_length = g.total_length
      <4>1. /\ host.got + dev.rem_length = dev.total_length + MaxPacket
            /\ g.rem_length = dev.rem_length - MaxPacket /\ g.total_length = dev.total_length
        BY <3>1, <3>2
      <4>. QED  BY <1>0, <2>1, <3>3, <4>1
    <3>. QED  BY <1>1, <1>5, <1>8, <1>9, <3>1, <3>2, <3>4 DEF SameData, Offers, SameCounters
  <2>2. CASE ~(dev.rem_length > MaxPacket)
    <3>1. /\ host.got = dev.total_length /\ dev.rem_length <= MaxPacket
          /\ ClosingDue(f) /\ f.ep0_state = "DATA_IN"
      BY <1>0, <1>3, <1>8, <1>9, <2>2 DEF Owes, SameData, SameCounters, ClosingDue
    <3>2. /\ SameCounters(f, g) /\ g.ep0_data_len = 0 /\ g.IN_ep0.stat = "VALID" /\ g.pma.len = 0
      BY <1>0, <1>3, <1>4, <2>2, <3>1 DEF SameCounters
    <3>. QED  BY <1>1, <1>3, <1>5, <1>8, <1>9, <3>1, <3>2 DEF SameData, Offers, SameCounters
  <2>. QED  BY <2>1, <2>2
<1>10. ASSUME host.phase = "status_out"
       PROVE  /\ host.right /\ host.got = ReplyLen(host.req)
              /\ host.req.wLength > 0 /\ host.req.name # "SET_ADDRESS"
              /\ dev'.OUT_ep0.stat = "VALID"
  <2>1. /\ host.got = dev.total_length /\ dev.rem_length <= MaxPacket
        /\ ~ClosingDue(f) /\ f.ep0_state = "DATA_IN"
    BY <1>3, <1>8, <1>10 DEF Owes, SameData, SameCounters, ClosingDue
  <2>2. dev'.OUT_ep0.stat = "VALID"
    BY <1>0, <1>3, <1>4, <1>5, <2>1 DEF SameCounters
  <2>3. host.req.wLength > 0
    <3>1. host.req \in Requests /\ host.req.wLength \in Nat
      BY <1>8, <1>10, RequestKinds DEF SameData
    <3>. QED  BY <1>8, <1>10, <3>1 DEF SameData
  <2>. QED  BY <1>8, <1>10, <2>1, <2>2, <2>3 DEF SameData
<1>11. DataInv' /\ AnswerInv'
  BY <1>1, <1>8, <1>9, <1>10 DEF DataInv, AnswerInv
<1>12. AddressInv'
  <2>1. AddressInv /\ ~AddressAsked /\ g.USB_Address = dev.USB_Address /\ g.DADDR = dev.DADDR
    BY <1>1, <1>3, <1>4 DEF AnyInv, AddressAsked, SameButTransfer
  <2>2. ~AddressAsked'
    BY <1>1, <1>8 DEF AddressAsked
  <2>3. /\ dev'.USB_Address \in {0} \cup host.stale
        /\ dev'.DADDR \in {host.addr} \cup host.stale
    <3>1. CASE dev.USB_Address = host.addr /\ AddressReady
      <4>1. g = f /\ g.IN_ep0.xfer_len = 0
        BY <1>3, <1>4, <3>1 DEF AddressReady, SameCounters
      <4>. QED  BY <1>5, <2>1, <3>1, <4>1 DEF AddressReady
    <3>2. CASE ~(dev.USB_Address = host.addr /\ AddressReady)
      <4>1. dev.DADDR = host.addr /\ dev.USB_Address \in {0} \cup host.stale
        BY <1>1, <2>1, <3>2 DEF AddressInv
      <4>2. dev.USB_Address = 0 => dev'.DADDR = host.addr
        BY <1>2, <1>4, <2>1, <4>1 DEF ApplyAddress
      <4>. QED  BY <1>5, <2>1, <4>1, <4>2
    <3>. QED  BY <3>1, <3>2
  <2>. QED  BY <1>1, <2>2, <2>3 DEF AddressInv
<1>. QED  BY <1>6, <1>11, <1>12 DEF AnyInv

\* One packet further, and a short last packet.
LEMMA Packets ==
    ASSUME NEW n \in Nat, NEW m \in Nat \ {0}, n % m = 0
    PROVE  /\ (n + m) % m = 0
           /\ \A r \in 1 .. m - 1 : (n + r) % m = r
<1>1. n = m * (n \div m)
  OBVIOUS
<1>2. PICK k \in Nat : n = k * m
  BY <1>1
<1>3. n + m = (k + 1) * m
  BY <1>2
<1>4. ASSUME NEW r \in 1 .. m - 1
      PROVE  (n + r) % m = r
  BY <1>2
<1>5. ((k + 1) * m) % m = 0
  OBVIOUS
<1>6. (n + m) % m = 0
  BY <1>3, <1>5
<1>. QED  BY <1>4, <1>6

\* The host fetches a packet.
LEMMA InStep ==
    ASSUME TypeOK, HostAsks, Any, AnyInv, HostIn
    PROVE  AnyInv'
<1>0. /\ dev \in Dev /\ host \in Host /\ dev.rem_length \in Nat /\ host.got \in Nat
      /\ dev.total_length \in Nat /\ MaxPacket \in Nat \ {0} /\ dev.pma \in Packet
  BY Types, MaxPacketAssumption DEF Dev, Host
<1>1. /\ ctr = {} /\ ctr' = {"TX"} /\ setup' = NULL /\ dev.IN_ep0.stat = "VALID" /\ Heard
      /\ UNCHANGED <<aborts, resets, driver>>
      /\ \/ host.phase = "data" /\ host' = Took(host, dev.pma)
         \/ host.phase = "status_in" /\ host' = Done(host)
  BY DEF HostIn, Took, AnyInv, PendingInv
<1>2. /\ SameButTransfer(dev, dev') /\ SameCounters(dev, dev')
      /\ dev'.ep0_data_len = dev.ep0_data_len /\ dev'.tag = dev.tag /\ dev'.pma = dev.pma
      /\ dev'.IN_ep0.xfer_buff = dev.IN_ep0.xfer_buff
      /\ dev'.IN_ep0.xfer_len = dev.IN_ep0.xfer_len
  <2>1. "NAK" \in Stat /\ dev' = AnswersIn(dev, "NAK")
    BY DEF HostIn, Stat, AnswersIn
  <2>. QED  BY <1>0, <2>1, InStatDoes
<1>3. host.req \in Requests /\ host.req.wLength \in Nat
  BY <1>1, RequestKinds DEF HostAsks
<1>4. PendingInv'
  BY <1>1 DEF PendingInv
<1>5. AnswerInv'
  BY <1>1 DEF AnswerInv
<1>7. DataInv'
  <2>1. CASE host.phase = "status_in" /\ host' = Done(host)
    <3>1. host'.phase = "idle"
      BY <1>0, <1>3, <2>1, DoneDoes
    <3>. QED  BY <1>1, <3>1 DEF DataInv
  <2>2. CASE host.phase = "data" /\ host' = Took(host, dev.pma)
    <3> DEFINE len == dev.pma.len
               got == host.got + len
    <3>0. len \in Nat /\ len <= MaxPacket
      BY <1>0 DEF Packet
    <3>1. SameData /\ Offers
      BY <1>1, <2>2 DEF AnyInv, DataInv
    <3>2. /\ host'.req = host.req /\ host'.got = got
          /\ host'.right = (host.right /\ (len > 0 => /\ dev.pma.tag = host.req
                                                      /\ dev.pma.from = host.got))
          /\ host'.phase = IF len < MaxPacket \/ got >= host.req.wLength
                           THEN "status_out" ELSE "data"
      BY <1>0, <2>2, TookDoes
    <3>3. SameData'
      <4>1. host'.right
        <5>1. len > 0 => dev.pma.tag = host.req /\ dev.pma.from = host.got
          BY <3>1 DEF Offers
        <5>2. host.right
          BY <3>1 DEF SameData
        <5>3. host'.right = (host.right /\ (len > 0 => /\ dev.pma.tag = host.req
                                                       /\ dev.pma.from = host.got))
          BY <3>2
        <5> HIDE DEF len
        <5>. QED  BY <5>1, <5>2, <5>3, Zenon
      <4>. QED  BY <1>2, <3>1, <3>2, <4>1 DEF SameData, SameCounters
    <3>4. dev.total_length \in 1 .. host.req.wLength
      BY <3>1 DEF SameData
    <3>5. CASE dev.pma.len = 0 /\ dev.ep0_data_len = 0 /\ dev.rem_length <= MaxPacket
               /\ host.got = dev.total_length
      <4>1. host'.phase = "status_out" /\ host'.got = dev.total_length
        BY <1>0, <3>2, <3>5
      <4>2. ~(dev'.total_length < dev'.ep0_data_len)
        BY <1>0, <1>2, <3>5 DEF SameCounters
      <4>3. dev'.rem_length <= MaxPacket /\ dev'.total_length = dev.total_length
        BY <1>2, <3>5 DEF SameCounters
      <4>4. Owes'
        BY <4>1, <4>2, <4>3 DEF Owes
      <4>. QED  BY <1>1, <3>3, <4>4 DEF DataInv
    <3>6. CASE /\ dev.tag = host.req /\ dev.IN_ep0.xfer_buff = host.got
               /\ dev.rem_length > 0 /\ host.got + dev.rem_length = dev.total_length
               /\ host.got % MaxPacket = 0
               /\ dev.pma.len = AtMost(dev.rem_length, MaxPacket)
               /\ dev.ep0_data_len = host.req.wLength
      <4>0. /\ dev'.total_length = dev.total_length /\ dev'.rem_length = dev.rem_length
            /\ dev'.ep0_data_len = host.req.wLength /\ dev'.tag = host.req
            /\ dev'.pma.len = len /\ dev'.IN_ep0.xfer_buff = host.got
        BY <1>2, <3>6 DEF SameCounters
      <4>a. /\ dev.rem_length > 0 /\ host.got + dev.rem_length = dev.total_length
            /\ len = AtMost(dev.rem_length, MaxPacket)
        BY <3>6
      <4>b. /\ (host.got + MaxPacket) % MaxPacket = 0
            /\ \A r \in 1 .. MaxPacket - 1 : (host.got + r) % MaxPacket = r
        BY <1>0, <3>6, Packets
      <4>1. CASE dev.rem_length > MaxPacket
        <5>1. len = MaxPacket /\ got = host.got + MaxPacket /\ got < dev.total_length
          BY <1>0, <4>1, <4>a DEF AtMost
        <5>2. got < host.req.wLength
          BY <1>0, <1>3, <3>0, <3>4, <5>1
        <5>3. host'.phase = "data"
          BY <1>0, <1>3, <3>0, <3>2, <5>1, <5>2
        <5>4. got + dev.rem_length = dev.total_length + MaxPacket
          BY <1>0, <4>a, <5>1
        <5> HIDE DEF got, len
        <5>5. Owes'
          BY <3>2, <4>0, <4>1, <4>b, <5>1, <5>3, <5>4 DEF Owes
        <5>. QED  BY <1>1, <3>3, <5>5 DEF DataInv
      <4>2. CASE dev.rem_length < MaxPacket
        <5>1. len = dev.rem_length /\ got = dev.total_length /\ len < MaxPacket
          BY <1>0, <4>2, <4>a DEF AtMost
        <5>2. host'.phase = "status_out" /\ host'.got = dev.total_length
          BY <3>2, <5>1
        <5>3. dev.rem_length \in 1 .. MaxPacket - 1
          BY <1>0, <4>2, <4>a
        <5>4. dev.total_length % MaxPacket # 0
          <6>1. (host.got + dev.rem_length) % MaxPacket = dev.rem_length
            BY <4>b, <5>3
          <6>2. dev.total_length % MaxPacket = dev.rem_length
            BY <4>a, <6>1
          <6>3. dev.rem_length # 0
            BY <4>a, <1>0
          <6>. QED  BY <6>2, <6>3, Zenon
        <5>5. Owes'
          BY <1>0, <4>0, <4>2, <5>2, <5>4 DEF Owes
        <5>. QED  BY <1>1, <3>3, <5>5 DEF DataInv
      <4>3. CASE dev.rem_length = MaxPacket
        <5>1. len = MaxPacket /\ got = dev.total_length /\ dev.total_length = host.got + MaxPacket
          BY <1>0, <4>3, <4>a DEF AtMost
        <5>2. dev.total_length % MaxPacket = 0 /\ dev.total_length >= MaxPacket
          <6>1. dev.total_length % MaxPacket = 0
            BY <4>b, <5>1
          <6>. QED  BY <1>0, <5>1, <6>1
        <5>3. CASE dev.total_length < host.req.wLength
          <6>1. host'.phase = "data" /\ host'.got = dev.total_length
            BY <1>0, <1>3, <3>2, <5>1, <5>3
          <6>2. Owes'
            BY <1>0, <4>0, <4>3, <5>2, <5>3, <6>1 DEF Owes
          <6>. QED  BY <1>1, <3>3, <6>2 DEF DataInv
        <5>4. CASE ~(dev.total_length < host.req.wLength)
          <6>1. host'.phase = "status_out" /\ host'.got = dev.total_length
            BY <1>0, <1>3, <3>2, <5>1, <5>4
          <6>2. Owes'
            BY <1>0, <4>0, <4>3, <5>4, <6>1 DEF Owes
          <6>. QED  BY <1>1, <3>3, <6>2 DEF DataInv
        <5>. QED  BY <5>3, <5>4
      <4>. QED  BY <1>0, <4>1, <4>2, <4>3
    <3>. QED  BY <3>1, <3>5, <3>6 DEF Offers
  <2>. QED  BY <1>1, <2>1, <2>2
<1>8. AddressInv'
  <2>1. /\ AddressInv /\ dev.DADDR = host.addr /\ ~AddressAsked'
        /\ dev'.USB_Address = dev.USB_Address /\ dev'.DADDR = dev.DADDR
        /\ AddressReady' <=> AddressReady
    BY <1>1, <1>2 DEF AnyInv, Heard, AddressAsked, AddressReady, SameButTransfer, SameCounters
  <2>2. CASE host.phase = "data" /\ host' = Took(host, dev.pma)
    <3>1. host'.addr = host.addr /\ host'.stale = host.stale
      BY <1>0, <2>2, TookDoes
    <3>2. dev.USB_Address \in {0} \cup host.stale
      BY <1>1, <2>1, <2>2 DEF AddressInv, AddressAsked
    <3>. QED  BY <1>1, <2>1, <3>1, <3>2 DEF AddressInv
  <2>3. CASE host.phase = "status_in" /\ host' = Done(host)
    <3>1. /\ host'.addr = IF host.req.name = "SET_ADDRESS" THEN host.req.value ELSE host.addr
          /\ host'.stale = IF host.req.name = "SET_ADDRESS" /\ host.req.value # 0 THEN {}
                           ELSE host.stale
      BY <1>0, <1>3, <2>3, DoneDoes
    <3>2. CASE host.req.name = "SET_ADDRESS" /\ host.req.value # 0
      <4>1. dev.USB_Address = host.req.value /\ AddressReady
        BY <1>1, <2>1, <2>3, <3>2 DEF AddressInv, AddressAsked
      <4>. QED  BY <1>1, <2>1, <3>1, <3>2, <4>1 DEF AddressInv
    <3>3. CASE host.req.name = "SET_ADDRESS" /\ host.req.value = 0
      <4>1. dev.DADDR = 0 /\ dev.USB_Address \in {0} \cup host.stale
        BY <1>1, <2>1, <2>3, <3>3 DEF AddressInv, AddressAsked
      <4>. QED  BY <1>1, <2>1, <3>1, <3>3, <4>1 DEF AddressInv
    <3>4. CASE host.req.name # "SET_ADDRESS"
      <4>1. dev.USB_Address \in {0} \cup host.stale
        BY <1>1, <2>1, <3>4 DEF AddressInv, AddressAsked
      <4>. QED  BY <1>1, <2>1, <3>1, <3>4, <4>1 DEF AddressInv
    <3>. QED  BY <3>2, <3>3, <3>4
  <2>. QED  BY <1>1, <2>2, <2>3
<1>. QED  BY <1>4, <1>5, <1>7, <1>8 DEF AnyInv

\* The host ends its transfer: with the status stage it sends, with a STALL or a reset.
LEMMA EndStep ==
    ASSUME TypeOK, HostAsks, Any, AnyInv,
           HostStatusOut \/ HostStalled \/ HostReset \/ HostGivesUp
    PROVE  AnyInv'
<1>0. dev \in Dev /\ host \in Host /\ resets \in Nat
  BY Types
<1>1. CASE HostStatusOut
  <2>1. /\ ctr = {} /\ ctr' = {"RX"} /\ setup' = NULL /\ UNCHANGED <<aborts, resets, driver>>
        /\ host.phase = "status_out" /\ host' = Done(host) /\ Heard
    BY <1>1 DEF HostStatusOut
  <2>2. host.req \in Requests /\ host.req.name # "SET_ADDRESS"
    BY <2>1 DEF HostAsks, AnyInv, DataInv
  <2>4. host'.phase = "idle" /\ host'.addr = host.addr /\ host'.stale = host.stale
    BY <1>0, <2>1, <2>2, DoneDoes
  <2>5. SameButTransfer(dev, dev')
    <3>1. "NAK" \in Stat /\ dev' = AnswersOut(dev, "NAK")
      BY <1>1 DEF HostStatusOut, Stat, AnswersOut
    <3>. QED  BY <1>0, <3>1, OutStatDoes
  <2>6. PendingInv' /\ DataInv' /\ AnswerInv'
    BY <2>1, <2>4 DEF PendingInv, DataInv, AnswerInv
  <2>7. AddressInv'
    <3>1. dev.USB_Address \in {0} \cup host.stale /\ dev.DADDR = host.addr
      BY <2>1 DEF AnyInv, AddressInv, AddressAsked, Heard
    <3>2. ~AddressAsked'
      BY <2>1 DEF AddressAsked
    <3>. QED  BY <2>1, <2>4, <2>5, <3>1, <3>2 DEF AddressInv, SameButTransfer
  <2>. QED  BY <2>6, <2>7 DEF AnyInv
<1>2. CASE HostStalled
  <2>1. /\ ctr = {} /\ host.phase # "idle" /\ Heard /\ Awaited = "STALL"
        /\ UNCHANGED <<dev, ctr, setup, aborts, resets, driver>>
    BY <1>2 DEF HostStalled
  <2>2. host'.phase = "idle" /\ host'.addr = host.addr /\ host'.stale = host.stale
    BY <1>0, <1>2, IdleDoes DEF HostStalled
  <2>3. PendingInv' /\ DataInv' /\ AnswerInv'
    BY <2>1, <2>2 DEF AnyInv, PendingInv, DataInv, AnswerInv
  <2>4. AddressInv'
    <3>1. dev.USB_Address \in {0} \cup host.stale /\ dev.DADDR = host.addr
      BY <2>1 DEF AnyInv, AddressInv, AddressAsked, Heard, Awaited
    <3>2. ~AddressAsked'
      BY <2>2 DEF AddressAsked
    <3>. QED  BY <2>1, <2>2, <3>1, <3>2 DEF AddressInv
  <2>. QED  BY <2>3, <2>4 DEF AnyInv
<1>3. CASE HostReset \/ HostGivesUp
  <2>1. BusReset /\ ctr = {} /\ UNCHANGED <<ctr, setup, aborts, driver>>
    BY <1>3 DEF HostReset, HostGivesUp, BusReset
  <2>2. host'.phase = "idle" /\ host'.addr = 0 /\ host'.stale = StaleAddresses
    BY <2>1, ResetHost
  <2>3. PICK locked \in BOOLEAN : Interrupted(locked) /\ dev' = Reset(dev, locked)
    BY <2>1, BusResetIs
  <2>4. ~locked
    BY <2>3, InterruptedDoes
  <2>5. dev'.dev_state = "DEFAULT" /\ dev'.USB_Address = dev.USB_Address /\ dev'.DADDR = 0
    BY <1>0, <2>3, <2>4, ResetDoes
  <2>6. PendingInv' /\ DataInv' /\ AnswerInv'
    BY <2>1, <2>2 DEF AnyInv, PendingInv, DataInv, AnswerInv
  <2>7. AddressInv'
    <3>1. \/ dev.USB_Address \in {0} \cup host.stale
          \/ AddressAsked /\ dev.USB_Address = host.req.value
      BY <2>1 DEF AnyInv, AddressInv
    <3>2. AddressAsked => host.req.value \in {0} \cup StaleAddresses
      BY DEF AddressAsked, StaleAddresses
    <3>3. host.stale \subseteq StaleAddresses
      BY StaleTypes
    <3>4. dev'.USB_Address \in {0} \cup host'.stale
      BY <2>2, <2>5, <3>1, <3>2, <3>3
    <3>5. ~AddressAsked'
      BY <2>2 DEF AddressAsked
    <3>. QED  BY <2>1, <2>2, <2>5, <3>4, <3>5 DEF AddressInv
  <2>. QED  BY <2>6, <2>7 DEF AnyInv
<1>. QED  BY <1>1, <1>2, <1>3

LEMMA ControlInit == Init => ControlInv
<1> SUFFICES ASSUME Init
             PROVE  ControlInv
  OBVIOUS
<1>1. EndpointReset \in Endpoint
  BY DEF EndpointReset, Endpoint, Stat
<1>2. TypeOK
  <2>1. [tag |-> NULL, from |-> 0, len |-> 0] \in Packet
    BY MaxPacketAssumption DEF Packet
  <2>2. [e \in ClassEp |-> [open |-> FALSE, stat |-> "DIS", is_stall |-> FALSE]]
           \in [ClassEp -> ClassEndpoint]
    BY DEF ClassEndpoint, Stat
  <2>3. 0 \in 0 .. 1 /\ 0 \in 0 .. 2 /\ 0 \in 0 .. 3 /\ "DEFAULT" \in DevState /\ "IDLE" \in Ep0State
    BY DEF DevState, Ep0State
  <2>4. dev \in Dev
    BY <1>1, <2>1, <2>2, <2>3 DEF Init, Dev
  <2>5. host \in Host
    BY <2>3 DEF Init, Host
  <2>. QED  BY <2>4, <2>5, Types DEF Init
<1>3. /\ host.phase = "idle" /\ host.config = 0 /\ ctr = {} /\ setup = NULL
      /\ dev.dev_state = "DEFAULT" /\ dev.DADDR = OFF /\ dev.USB_Address = 0
  BY DEF Init
<1>4. AnyInv
  BY <1>3 DEF AnyInv, PendingInv, DataInv, AnswerInv, AddressInv, AddressAsked
<1>5. HandshakeInv /\ ConfigInv
  BY <1>3 DEF HandshakeInv, ConfigInv, Configuring, Agreed
<1>. QED  BY <1>2, <1>3, <1>4, <1>5 DEF ControlInv, HostAsks

LEMMA ControlStep == ControlInv /\ [Next]_vars => ControlInv'
<1> SUFFICES ASSUME TypeOK, HostAsks, Any => AnyInv, [Next]_vars, Any'
             PROVE  AnyInv'
  BY ControlTypes, ConfigStep DEF ControlInv
<1>0. Any /\ AnyInv /\ UNCHANGED driver
  BY DEF Any, Next, Transactions, Ask, Enumerate, HostSetup, IrqRx, IrqTx, HostIn,
     HostStatusOut, HostStalled, HostReset, HostGivesUp, BusReset, vars
<1>1. CASE Transactions
  BY <1>0, <1>1, RxStep, TxStep, InStep, EndStep DEF Transactions
<1>2. CASE Ask
  BY <1>0, <1>2, SetupStep DEF Ask
<1>3. CASE Enumerate
  BY <1>0, <1>3 DEF Enumerate, Any
<1>4. CASE UNCHANGED vars
  BY <1>0, <1>4 DEF vars, AnyInv, PendingInv, DataInv, SameData, Offers, Owes, AnswerInv,
     AddressInv, AddressAsked, AddressReady, ZeroUnderWay
<1>. QED  BY <1>1, <1>2, <1>3, <1>4 DEF Next

LEMMA ControlAlways == Spec => []ControlInv
BY ControlInit, ControlStep, PTL DEF Spec

\* When the host takes a data stage for finished, it has all of what it asked for, in
\* order, and nothing of an earlier transfer, whatever it gave up before: the three
\* counters of USBD_LL_DataInStage and the closing empty packet agree, for every length
\* of the descriptor, every wLength and every packet size.
THEOREM ControlDataExact == Spec => []DataStageExact
<1>1. ControlInv => DataStageExact
  <2> SUFFICES ASSUME ControlInv, Any, host.phase = "status_out"
               PROVE  host.right /\ host.got = ReplyLen(host.req)
    BY DEF DataStageExact, ControlInv, Any
  <2>1. PendingInv /\ DataInv
    BY DEF ControlInv, AnyInv
  <2>2. CASE ctr = {}
    BY <2>1, <2>2 DEF DataInv
  <2>3. CASE ctr = {"TX"}
    BY <2>1, <2>3 DEF DataInv, SameData, Owes
  <2>4. CASE ctr = {"RX"}
    BY <2>1, <2>4 DEF PendingInv
  <2>. QED  BY <2>1, <2>2, <2>3, <2>4 DEF PendingInv
<1>. QED  BY <1>1, ControlAlways, PTL

\* A device that hears the host never leaves a transfer without an answer: each handler
\* of usbd_ctlreq.c and each stage of usbd_core.c ends with the next stage armed or with a
\* STALL, but for the requests of SilentReq.
THEOREM ControlNeverMute == Spec => []NeverMute
<1>1. ControlInv => NeverMute
  <2> SUFFICES ASSUME ControlInv, Any, Heard, Mute, host.req \notin SilentReq
               PROVE  FALSE
    BY DEF NeverMute, Any
  <2>1. /\ DataInv /\ AnswerInv /\ host \in Host
        /\ ctr = {} /\ host.phase # "idle" /\ Awaited \notin {"VALID", "STALL"}
    BY Types DEF ControlInv, AnyInv, Mute
  <2>2. host.phase \in {"data", "status_in", "status_out"}
    BY <2>1 DEF Host
  <2>. QED  BY <2>1, <2>2 DEF DataInv, AnswerInv, Awaited
<1>. QED  BY <1>1, ControlAlways, PTL

\* What the host takes for configured is configured, with every endpoint open and
\* enabled, and nothing else is, in every order of SET_CONFIGURATION, halts and resets,
\* also when USBD_ECM_Init found the lock taken and opened nothing: its status stage is
\* refused with it, and no late interrupt sends one.
THEOREM ControlConfigurationAgrees == Spec => []ConfigurationAgrees
<1>1. ControlInv => ConfigurationAgrees
  BY DEF ControlInv, ConfigInv, Configuring, Agreed, ConfigurationAgrees
<1>. QED  BY <1>1, ControlAlways, PTL

\* With no interrupt pending the device has the address the host uses or that of a
\* SET_ADDRESS the host gave up, after any number of transfers given up and resets; a
\* SET_ADDRESS for another address than 0 takes effect after its status stage.
THEOREM ControlAddressAgrees == Spec => []AddressAgrees
<1>1. ControlInv => AddressAgrees
  BY DEF ControlInv, AnyInv, AddressInv, AddressAgrees, Any
<1>. QED  BY <1>1, ControlAlways, PTL
=============================================================================
