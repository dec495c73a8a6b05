# TLA+ models of stm32ecm

stm32ecm turns an STM32F072 into a USB Ethernet adapter (CDC-ECM) with a DHCP,
a DNS and a web server behind it. This directory models the parts in which the
order of events matters: the two data paths between the USB interrupt and the
main loop, the control transfers, the packet memory, the servers, time, and those
parts of lwIP (version 1.4.1, in the tree) through which a page is served.

    tlc -workers 2 -config EcmReceive.cfg EcmReceive     # any run of PROJECT.json
    tlapm EcmReceive_proofs.tla                          # any *_proofs module

`PROJECT.json` lists the runs, the source lines behind every definition, the
hazards and the theorems.

## 1. The system

| component | state | operations | interacts with |
|---|---|---|---|
| ECM class driver, receive (`usbd_ecm.c`) | `ecm_rx_buffer`, `ecm_rx_index`, `OutboundTransferNeedsRenewal`, `registered_pdev` | `usb_ecm_recv_renew`, `USBD_ECM_DataOut`, `_SOF`, `_Init`, `_DeInit` | called by the interrupt and, for the renewal, by the main loop; calls `usb_ecm_recv_callback` |
| ECM class driver, transmit (`usbd_ecm.c`) | `ecm_tx_buffer`, `ecm_tx_ptr`, `ecm_tx_remaining`, `ecm_tx_busy`, `can_xmit` | `usb_ecm_can_xmit`, `usb_ecm_xmit_packet`, `ecm_incoming_attempt`, `USBD_ECM_DataIn`, `_SOF` | the main loop fills, the interrupt drains |
| main loop (`main.c`) | `received_frame` | `service_traffic`, `linkoutput_fn`, `usb_ecm_recv_callback` (in the interrupt) | lwIP above, the class driver below |
| USB device core (`usbd_core.c`, `usbd_ctlreq.c`, `usbd_ioreq.c`) | `dev_state`, `dev_config`, `ep0_state`, `ep0_data_len`, `total_length`, `rem_length` | setup, data and status stages, standard requests, reset | the interrupt calls it, it calls the class and the HAL |
| peripheral driver (`stm32f0xx_hal_pcd.c`, wrappers in `usbd_conf.c`) | per endpoint `xfer_buff`, `xfer_len`, `xfer_count`, `is_stall`; `Lock`, `USB_Address`; the EPnR registers | `HAL_PCD_EP_*`, `HAL_PCD_SetAddress`, `HAL_PCD_IRQHandler` | both contexts enter it; `__HAL_LOCK` makes the second one fail with `HAL_BUSY` |
| packet memory (`usbd_conf.c`, `usbd_ecm.c`, `stm32f0xx_hal_pcd_ex.c`) | the PMA, `pmaadress` of each endpoint | `HAL_PCDEx_PMAConfig`, `PCD_WritePMA`, `PCD_ReadPMA` | shared by controller and driver |
| DHCP server (`dhcp-server/dhserver.c`) | `entries`, the static `dhcp_data` | `udp_recv_proc` | lwIP, in the main loop |
| DNS server (`dns-server/dnserver.c`) | the static `query` | `udp_recv_proc`, `parse_next_query` | lwIP, in the main loop; takes and frees pbufs |
| time (`time.c`) | `msAddition`, the list of timers | `SysTick_Handler`, `mtime`, `msleep`, `stmr` | the main loop; `linkoutput_fn` sleeps with it; calls `tcp_tmr` |
| lwIP: buffers (`memp.c`, `pbuf.c`) | the free list, `next` and `ref` of each pbuf | `memp_malloc`, `memp_free`, `pbuf_alloc`, `pbuf_free`, `pbuf_cat` | main loop and interrupt, without protection |
| lwIP: TCP (`tcp.c`, `tcp_in.c`, `tcp_out.c`) | the pcb: state, sequence numbers, windows, `unsent`, `unacked`, `ooseq`, timers | `tcp_input`, `tcp_receive`, `tcp_output`, `tcp_close`, `tcp_slowtmr`, ... | calls the web server's callbacks |
| lwIP: web server (`httpd.c`) | `http_state` of each connection | `http_accept`, `http_recv`, `http_send`, `http_sent`, `http_poll`, `http_err`, `http_close_conn` | TCP |
| ARP, IP, ICMP, UDP, heap; descriptors, clocks, web pages | | | not modelled, see section 8 |

What is hard here:

* **Two contexts.** The USB interrupt preempts the main loop anywhere except in
  three short `__disable_irq` sections. They share `received_frame`, `can_xmit`,
  the renewal flag, the endpoint's register and, in `pbuf_alloc`, lwIP's free list.
* **A lock that fails instead of waiting.** When the interrupt hits the main loop
  inside `HAL_PCD_EP_Receive`, every HAL call of the interrupt is refused, *after*
  it changed the transfer fields. Most callers discard the outcome.
* **A register with toggle bits.** A status is set by reading EPnR and writing the
  difference; an interrupt in between makes the difference a wrong one.
* **Resets, reconfigurations and halts** at any moment. A reset does not reach the
  class (`pClassData` is never set, so `USBD_LL_Reset` does not call its `DeInit`).
* **Counters at a boundary**: frames and replies of a multiple of 64 bytes, the wrap of
  the millisecond counter and of sequence numbers, a full name buffer, `nrtx` at its limit.
* **Timeouts racing completions** (`ecm_tx_busy`), and completions reported late.
* **Ownership**: `service_traffic` frees a pbuf that `ethernet_input` owns; `http_state`
  and pcb are freed by whoever finds that the connection is over.
* **An unreliable link with retransmissions** under the DHCP server and under TCP.

What makes each part correct: a frame passes whole, once and in order, and the
path never stops (receive, transmit); the buffers are used by one context at a
time; every request is answered with exactly what was asked for and the host can
always get the device configured (control); no endpoint's packet is destroyed by
another (packet memory); an address belongs to one client (DHCP); a question is
answered if and only if it should be (DNS); timers fire, neither early nor much late
(time); every buffer is free or has an owner (pbufs); a stream arrives as it was sent,
and what belongs to a connection is given back once (TCP, web server).

## 2. Modules

| module | models | extends |
|---|---|---|
| `HalPcd` | endpoint operations of the peripheral driver, with the lock as an argument | |
| `FrameMailbox` | abstract: a loss-free mailbox for one frame | |
| `EcmReceive` | receive path, interrupt and main loop | `HalPcd`; refines `FrameMailbox` |
| `EcmTransmit` | transmit path, interrupt and main loop | `HalPcd`; refines `FrameMailbox` |
| `UsbdControl` | control transfers on endpoint 0 | `HalPcd` |
| `PacketMemory` | layout of the PMA and the packets in it | |
| `Dhserver` | DHCP server, clients and link | |
| `SoftTimers` | the clock, `msleep` in `linkoutput_fn`, the timer of TCP | |
| `PbufPool` | lwIP's pool of buffers | |
| `Dnserver` | the DNS parser, and a reference definition of it | |
| `ServiceTraffic` | a frame's buffer from interrupt to renewal, through DNS server, TCP and web server | `PbufPool`, `Dnserver` |
| `MCServiceTraffic` | the names and messages of its runs | `ServiceTraffic` |
| `TcpReceive` | a connection's incoming stream | |
| `HttpdConnection` | a connection of the web server, its outgoing stream and its end | |
| `EcmReceive_proofs`, `EcmTransmit_proofs`, `UsbdControl_proofs`, `PacketMemory_proofs`, `Dhserver_proofs`, `SoftTimers_proofs`, `HttpdConnection_proofs`, `TcpReceive_proofs` | theorems | their component, `TLAPS` |

Names follow the source. A definition named `X_Something` below a comment
"Mutant" is a deliberately wrong version of `X`, kept to show that a property
notices.

In several modules a variable is chosen once, in `Init`, and never changes: `trouble`
(which faults may meet in one behaviour, from the constant `Troubles`), `driver` in
`UsbdControl`, `Active` in `PacketMemory`, `isn` in `TcpReceive`. One run covers
the undisturbed system, about which most can be said, and the disturbed one. Properties
that need an undisturbed system say so (`Quiet`, `Calm`, `Simple`).

### HalPcd

An endpoint is a record of the status bits of its register and the three transfer
fields. `HAL_PCD_EP_Receive/Transmit` store the fields first and try the lock then
(`XferSetup`, then refusal or `XferArm`), as the code does. Where the main loop
is the caller, `EcmReceive` uses the pieces as steps of their own. `Toggled` is what
a write of toggle bits makes of a status other than the one they were computed from.

### EcmReceive

An interrupt is one step (nothing preempts it): `IsrDataOut`, `IsrSOF`,
`IsrConfigure`, `IsrDeconfigure`, `IsrReset`, `IsrSetHalt`, `IsrClearHalt`. The main
loop is cut at each access to shared state: `ServiceTraffic` (the `__disable_irq`
section), `EthernetInput`, then the eight steps of `usb_ecm_recv_renew` down to
`HAL_PCD_EP_Receive` (arguments, fields, lock, length, read EPnR, write EPnR, unlock,
flag). A byte is a pair of frame number and position, so the model sees a byte of the
wrong frame or in the wrong place. `received_frame` holds the bytes copied from the
buffer. `ethernet_input` is one step that takes time, during which interrupts come;
what it does with the buffer is `ServiceTraffic`'s matter.

`IsrConfigure` may strike while the main loop holds the HAL lock (its `ethernet_input`
may have begun before the reset and waited in `linkoutput_fn` meanwhile): opening and
receiving are then refused, and the renewal flag is cleared all the same
(`usbd_ecm.c:123`). The history variable `refused` records it.

### EcmTransmit

The main loop's `linkoutput_fn` and `usb_ecm_xmit_packet` are cut at each access
(`PollCanXmit`, `XmitCheck`, `CopyPbuf` per pbuf of the chain, `XmitCommit`); in
between it may hold the lock for a renewal (`RenewLock`). An interrupt is a step
per condition served, because `HAL_PCD_IRQHandler` looks at CTR before SOF and
RESET: a completion may become pending in between (`ctr = "due"`), and then the
SOF handler runs before it.

### UsbdControl

All handlers run in the interrupt, so each C function is an operator from one
device state to the next and an interrupt is a step (`IrqRx`, `IrqTx`, the reset).
`locked` is chosen freely once the device was configured: from then on the main loop
may be inside a renewal. Requests that the code answers in every state are kept
apart from those it may leave without an answer (`SilentReq`: GET_DESCRIPTOR with
wLength 0, unknown features, class requests with data, endpoint requests before
configuration). Descriptors are their lengths. `driver` is a host that asks anything,
with its interrupts served in time, or one that enumerates, with interrupts served
late and HAL calls refused. A request is its recipient, name, the part of wValue that is
looked at, wIndex and wLength; among them are SET_ADDRESS(0), SET_ADDRESS with wIndex or
wLength set, interfaces that do not exist, features other than ENDPOINT_HALT, and halts of
endpoint 0. The host keeps what it configured (`config`, NULL while it is in doubt
because it gave up a SET_CONFIGURATION) and the addresses of SET_ADDRESS requests it gave
up (`stale`).

### PacketMemory

Memory cells hold whose packet, which packet and which byte. `Active`, fixed at the
start from `Scenarios`, selects the endpoints with traffic; there is no bound, since an
endpoint's packets alternate between two numbers. That a handler finds no SETUP pending
(`stm32f0xx_hal_pcd.c:336`) and writes its packet (line 1108) is one step: a SETUP that
arrives in the microseconds between would be overwritten in the buffer that both directions
of endpoint 0 share, and is left out.

### Dhserver

`udp_recv_proc` runs in the main loop, one message per step. `tail` is the
requested-address option an earlier, longer message left in the static
`dhcp_data`. The environment has clients that discover, repeat, renew, reboot with
an address in mind, and a link that keeps order and loses messages. `misread` records
that an address was taken from such a left-over.

### SoftTimers

SysTick may strike between any two steps. `mtime` is cut into reading the flag, reading
the counter and reading the flag again, and is called from four places (`ret`).
True time is two ghost counters, milliseconds since the timer's `event` was stored and
since `linkoutput_fn` began, so that the counter wraps without end. `MaxLag` is the
one assumption about speed: so many ticks, at most, fall between two readings of the
clock.

### PbufPool, Dnserver, ServiceTraffic

`PbufPool` keeps the first word of an element in one variable, `nxt`, because it *is*
one: `memp->next` of a free element and `pbuf->next` of a used one. That, and the
16-bit count that goes from 0 to 65535, decide what a second free does. The main
loop's calls are cut between their accesses to the list.

`Dnserver` has `parse_next_query` as it is written, byte by byte with its three bounds,
and `Questions`, which says what a message asks for without saying how to find out.

`ServiceTraffic` composes them. The `Input...` actions are what `ethernet_input` may
do with a frame: free it, answer a DNS question, keep it as part of a request in
`hs->req` or as an early segment in `pcb->ooseq`, or forget it (`http_recv` while it
sends a file). An early segment is chained behind the missing one by `pbuf_cat` and
http_recv gets the chain. What earlier messages left in the static `query.name` is guessed
from `Leftovers` when a message comes, which covers every history of messages. That the
interrupt is kept out until the renewal (`armed`) is what
`EcmReceive` shows.

### TcpReceive

`tcp_receive` as a function from a pcb and a segment to the pcb, the data and the FIN
passed on; every cut of a segment is an operator of its own, because `seg->len` and
the pbuf's length are cut separately. Sequence numbers are modulo `SEQ`, compared as
`tcp_impl.h` does. Any segment of the stream inside the announced window may arrive at
any time, which covers loss, repetition, reordering and resegmentation. An acknowledgement
may find no pbuf: `tcp_output` then leaves its flags, and `tcp_fasttmr` clears them all the
same (`tcp.c:1060-1064`), so it is lost until the host sends again.

A queued segment is taken to keep its bytes. In this firmware it does not: `main.c:240`
frees the frame that lwIP queued (run `pbuf_freed_twice`). `StreamExact`, `QueueSound` and
`Delivered` are therefore about lwIP given intact buffers, and about this firmware until a
segment arrives early.

### HttpdConnection

One connection from `http_accept` to the freeing of its pcb, and then the next one. A
state is a record `s` (pcb, hs, what went wrong), and each C function an operator from
one to the next; a step is what `tcp_input` or `tcp_slowtmr` does, with its callbacks
and the `tcp_output` at its end. What the congestion window, Nagle, the round trip time
and the persist timer's counter decide, how much of what fits the window is sent at once
and when a tick repeats or probes, is left open. The host announces any window of
`Windows`; a segment larger than the window, zero or not, is not sent (`InWindow`), and with
a window of 0 ticks probe (`tcp_zero_window_probe`) instead of repeating. In TIME_WAIT a
repeated FIN starts the timeout again (`tcp_timewait_input`). The first window is of two
segments at least: `tcp_write` never makes a segment larger than half of the largest
window seen (`tcp_out.c:373`), which the model does not follow. Left out is a
third duplicate ACK for a segment that fits no more because the host took back window it
had announced. `wire` holds what may reach the host, late, again or never. Allocations
in `tcp_write` and `tcp_send_fin` may fail; running into the limits on `snd_queuelen` has
the same outcome and counts as that.

## 3. Runs and what they show

Passing:

| run | bounds | states | shows |
|---|---|---|---|
| `receive` | packets of 2, frames of 2 and 5 bytes, 3 frames; quiet, or with a reset and 2 halts, or with a SET_CONFIGURATION(0) and failing allocations | 501 123 | quiet: whole frames, in order, no overrun, exclusion, refinement of `FrameMailbox`, everything arrives unless a renewal was lost; always: a held frame is never replaced, no NULL handle over resets, the endpoint is open and armed again, unless a SET_CONFIGURATION met the lock |
| `transmit` | packets of 2, frames of 1, 2, 5 bytes, 2 frames; calm, or slow hosts, refusals, a reset, a SET_CONFIGURATION(0), 2 halts in four combinations | 500 317 | calm: refinement of `FrameMailbox`, the end of each frame is seen; always: losses, but no byte twice or out of order (see below), no packet offered or touched while a frame is copied (see below), the driver becomes ready again |
| `control` | descriptors of 2 and 5 bytes in packets of 2, wLength 0 and 4, addresses 0 and 5, halts of the OUT endpoint and of endpoint 0, one abandoned transfer, one reset, two refused interrupts | 1 780 201 | exact data stages, always an answer; host and device agree on the address and, also with refused calls and late interrupts, on the configuration; the host gets through to a configured device |
| `packet_memory` | the class endpoints; all but ECM_DATA_IN_EP | 113 050 | packets do not touch each other; sharing a buffer within endpoint 0 is harmless |
| `dhcp` | 2 clients, pool of 2, 2 messages under way, a loss, a hurried repetition, a reboot, a reply without a pbuf, left-over options | 256 286 | no client is registered twice; acknowledged means registered; everyone is bound again and again |
| `timers` | counter modulo 32, interval 3, 2 polls per frame, up to 2 frames per job, 2 ticks between readings | 1 124 032 | TCP's timer is on time over every wrap, `linkoutput_fn` waits as long as it should, `mtime` returns the current time, the timer is served for ever |
| `pbufs` | 3 buffers, counts modulo 4, a name buffer of 4 bytes, well and badly formed DNS messages up to its edges, three left-over contents of the name buffer; frames kept, frames kept with `tcp_tmr` freeing | 507 223 | the pool comes out whole, no frame is dropped, the parser agrees with the reference, answers are right, every frame is served |
| `tcp_receive` | 10 bytes and a FIN, window 8, segments up to 4, sequence numbers modulo 64 from 5 and from 58; copies and acknowledgements that fail at any time | 13 260 | the stream passed on is the one sent, the queue is sound, the window's edge stays, a host that repeats gets through |
| `httpd` | a page of 5 bytes, segments of 2, send buffer of 4, 2 retransmissions, 2 polls, windows of 0, 1 and 4, 2 segments of text, one failed allocation | 196 250 | the page arrives whole and in order, the queues are one gapless stream, `http_state` and pcb are freed once, every connection ends unless its window holds it or its FIN is repeated for ever |

Where a property has an exception in its statement (a lost renewal, an abandoned
transfer, a silent request, a failed reply, a FIN in company), the exception is there
because the code really behaves so, and its comment says what happens then.

Violations, each a disagreement between the code and its own comments:

| run | property | what happens |
|---|---|---|
| `renewal_lost` | `NoLostRenewal` | A full chunk arrives after the main loop armed the endpoint and before it unlocked. The interrupt's renewal is refused and noted; the main loop then stores FALSE over the note. Reception stops. |
| `packet_memory_shared` | `PacketIntact` | `pma_address =+ 64` puts endpoint 0 and ECM_DATA_IN_EP at one address. |
| `pbuf_freed_twice` | `ReferencesCounted` | lwIP keeps a frame; `service_traffic` frees it under it. |

Limits that the passing runs rest on, found by relaxing them.

Receive:

* `WholePacket` fails without a pbuf: `usb_ecm_recv_callback` renews (`main.c:85`) with
  `ecm_rx_index` still behind the dropped frame, `USBD_ECM_DataOut` clears the index
  only then (`usbd_ecm.c:206`), and the next frame's first chunk is stored behind the
  dropped one. It also fails after a reset in the middle of a frame: `USBD_ECM_Init`
  does not clear `ecm_rx_index` either.
* `NoNullHandle` holds over bus resets, not over a SET_CONFIGURATION(0) between
  `ethernet_input` and the renewal of `service_traffic`.
* `FrameThenRearmed` excepts a SET_CONFIGURATION that met the lock (`refused`): the
  endpoint stays closed and nothing remembers it, so reception is off until the host
  configures the device once more. (Such a SET_CONFIGURATION gets no status stage
  either, `ConfigurationAgrees`.)
* The mop-up of `USBD_ECM_SOF` works only if a start of frame falls into the window
  in which the flag is set, that is, while the main loop is still in
  `usb_ecm_recv_renew`.

Transmit:

* A chunk that the HAL refuses is ticked off as sent: `ecm_incoming_attempt` discards
  the outcome (`usbd_ecm.c:171`), and the comment above it says why: "ST stack
  always returns a success code", which a held lock belies.
* `FrameEndSignified` fails for a frame length that is a multiple of the packet size:
  `ecm_incoming_attempt` sends no empty chunk after it.
* `HostBytesAscend` holds with slow hosts, and with refusals inside one configuration,
  but not where refusals meet a chunk that is still armed: a refused transmission has
  redirected `xfer_buff` and `xfer_len`, and the completion of the chunk before it goes
  on from there. Clearing a halt offers the last chunk a second time.
* `CopyUndisturbed` excepts the same two: the last chunk of a frame refused, then the
  timeout that lets the main loop copy the next frame, then the late completion of the
  chunk before, which sends from the buffer that is being filled
  (`stm32f0xx_hal_pcd.c:513-520`). Without the exception for a redirected transfer the run
  finds this.

Control:

* SET_CONFIGURATION served while the main loop is in a renewal marks the device configured
  and opens nothing. The status stage is refused as well, so the host does not take it for
  done, which is what `ConfigurationAgrees` rests on, and one that resets recovers. One
  that repeats the request is answered, and the endpoints stay closed: a host that gave up
  a SET_CONFIGURATION is in doubt (`config = NULL`) until it resets the bus.
* A SET_ADDRESS that the host gives up, by a reset or by another request, stays pending in
  `USB_Address` and takes effect later: `AddressAgrees` allows the device such an address
  until the host has replaced it, and no other. `Enumerated` shows that a host that starts
  over gets past it.
* SET_ADDRESS(0) is in force at once (`stm32f0xx_hal_pcd.c:814-818`), so a host that had
  given another address never sees its status stage, and has to reset the bus
  (`ZeroUnderWay`).
* `DataStageExact` needs the interrupt of a packet to be served before the next SETUP
  arrives: else the SETUP is served first, and the older CTR_TX is then taken for
  the completion of the answer to it. It also needs, as all of `UsbdControl` and
  `EcmTransmit`, that endpoint 0 and ECM_DATA_IN_EP do not have traffic at once
  (`PacketMemory`).
* `is_stall` outlives a bus reset: GET_STATUS then reports a halt that is over.

Buffers and DNS:

* The second free is harmless while lwIP keeps nothing, because a count of 0 becomes
  65535 and does not free again; and it repairs a leak, since `http_recv` forgets a
  segment that comes while it sends. `LWIP_PLATFORM_ASSERT` never stops: it tests
  its message, not the condition.
* When a request comes in two incomplete segments, the first is freed while `hs->req`
  points to it, the free list is last in, first out, and so the second arrives in the same
  buffer: `pbuf_cat` links it to itself, and `pbuf_clen` does not return (`pc = "hung"`).
* With `tcp_tmr` freeing kept segments while the endpoint is armed, the interrupt may
  take the list's head between the two steps of `memp_free`, and a pointer may be freed
  whose buffer has another owner: the free list may then run into itself.
* A message with several questions is not answered, additional records are counted in
  the reply's header and not copied, and a name ends at a zero byte inside a label.

TCP and web server:

* `Append_Ooseq`: the check of `tcp_in.c:1467` compares sums of sequence numbers with
  `>`. If the edge of the window wraps and the segment's end does not, or the other way
  round, a queued segment gets a length beyond its data, and the stream loses bytes
  (`StreamExact` fails for `ISNs = {52}` without `NoWrap`). `EdgeKept` and the window
  part of `QueueSound` hold over the wrap, which is why 58 is among the ISNs.
* A host's FIN in one segment with text or a new ACK: if httpd closes in the earlier
  callback, `tcp_close` takes the FIN's octet for unread text, resets the connection and
  frees the pcb, and `tcp_input` goes on with it (`fault`).
* `tcp_slowtmr` gives up when `nrtx` *equals* `TCP_MAXRTX` (`tcp.c:827`). A fast and a
  timed retransmission may both count between two ticks, so the limit may be stepped
  over, and `tcp_backoff[nrtx]` (`tcp.c:857`) is then read behind its end. `Freed` shows
  that the connection still ends: httpd's polls end it.
* An ACK of all that was *sent* is taken for the ACK of a FIN that is still unsent.
* A shut window has no limit: the pcb is probed for ever, until `tcp_alloc` kills it for
  another connection. A window that is not shut but smaller than the next segment is worse:
  nothing is sent (`tcp_out.c:918`, `962`), the persist timer starts only at a window of
  0 (`tcp_in.c:881`), and with nothing unacknowledged no timeout runs. `Freed` excepts
  both (`Held`).
* Each FIN that the host repeats in TIME_WAIT starts the 2 MSL again (`tcp_in.c:549-552`),
  without a limit. `Freed` excepts a host that does so for ever.
* An acknowledgement that finds no pbuf in `tcp_fasttmr` is lost with its flags; `Delivered`
  rests on a host that repeats.
* The page is cut short by the host's half-close and by `HTTPD_MAX_RETRIES` polls
  without progress (`host.other`).

## 4. Why the bounds are enough

The packet size is 2 instead of 64: the code compares lengths with it and computes
remainders, so what matters is a length below, at, above and at twice the packet size,
and all of these occur. Three frames let one be in lwIP, one waiting and one
arriving. One reset, one reconfiguration and two halts, at any step, cover each single
one and pairs of them. `BusyLimit` (32), `XmitTries` (200), `TCP_MAXRTX` and
`HTTPD_MAX_RETRIES` are 2: a counter that reaches its limit, and one that does not. Two
endpoints (`HaltEps`) are halted, one of the class, whose endpoints the handlers treat
alike, and endpoint 0, which they leave alone. A pool of two addresses
with two clients has the empty, the mixed and the full table. `MaxInFlight` of 2 lets
an old and a new message of one client, or messages of both, coexist. A counter modulo
32 is larger than the interval and the longest round together (`WordAssumption`), as
2^32 is, and wraps at every phase of both. Three buffers are one to wait, one to answer
and one to be kept; counts modulo 4 keep apart 0, 1, 2 and the value below 0. A stream
of 10 bytes with segments up to 4 in a window of 8 has room for three queued segments
with gaps, overlaps and a cut at the edge. A page of three segments, the last one short,
with room for two in the send buffer has one acknowledged, one sent and one not yet
written; windows of 0, 1 and 4 are shut, smaller than a segment and enough for all that
may be unacknowledged; and U8 of 5 lets `nrtx` pass its limit and wrap.

## 5. Fairness

* The main loop runs (`WF(MainLoop)`): `main` never leaves its `for (;;)`, and
  nothing in `service_traffic` waits for the host without a limit.
* Pending interrupts are served (`WF` of each): nothing masks them for long.
* A configured bus has a start of frame every millisecond (`WF(IsrSOF)`), and the core's
  timer ticks (`WF(SysTick_Handler)`).
* A host that reset the device configures it again (`WF(IsrConfigure)`) and keeps
  offering what it has to send (`WF(IsrDataOut)`). Halts and resets owe nothing.
* A host that is not slow fetches an armed chunk; of a slow one `EcmTransmit` assumes
  nothing: `ReadyAgain` holds if it never fetches.
* A host's control driver goes on with its transfers, and one that is stuck gives up and
  starts over (`UsbdControl`).
* A DHCP client that gets no answer discovers again; this is strong fairness because the
  link may be full in between.
* `TcpReceive`: the host repeats what is missing or probes a window it was not told of, and
  again and again one of its repetitions gets through and finds memory for its copy and its
  acknowledgement. Nothing is assumed of `tcp_fasttmr`.
* `HttpdConnection`: `tcp_slowtmr` runs, and a retransmission that stays due is made. The
  host owes nothing: `Freed` holds if it is never heard of again.

In the last two modules weak fairness is written out as "again and again disabled, or
taken", with the enabling condition as a formula.

## 6. What is proved

For every value of the constants (`MaxPacket`, buffer and frame sizes, requests,
clients, pool, word size, page, bounds):

| theorem | statement | environment |
|---|---|---|
| `TypeCorrect` | `Spec => []TypeOK` (EcmReceive) | any |
| `ReceiveNoNullHandle` | `NoNullHandle` | no SET_CONFIGURATION(0) |
| `ReceiveHeldFrameKept` | `HeldFrameKept` | any |
| `ReceiveExclusion` | `QuietWhileFrameOwned` | quiet |
| `ReceiveWholePacket` | `WholePacket` | quiet |
| `ReceiveNoOverrun` | `NoOverrun` | quiet |
| `ReceiveImplementsMailbox` | `ImplementsMailbox` | quiet |
| `TransmitTypeCorrect` | `Spec => []TypeOK` (EcmTransmit) | any |
| `TransmitCopyUndisturbed` | `CopyUndisturbed` | no halts; refusals unless a transfer is left redirected |
| `TransmitHostBytesAscend` | `HostBytesAscend` | no halts; refusals only with a prompt host, without resets and reconfigurations |
| `TransmitFrameEndSignified` | `FrameEndSignified` | calm |
| `TransmitImplementsMailbox` | `ImplementsMailbox` | calm |
| `ControlDataExact` | `DataStageExact` | transfers given up, resets |
| `ControlNeverMute` | `NeverMute` | transfers given up, resets |
| `ControlConfigurationAgrees` | `ConfigurationAgrees` | any, refused calls and late interrupts included |
| `ControlAddressAgrees` | `AddressAgrees` | transfers given up, resets |
| `PacketMemoryType` | `TypeOK` | any |
| `PacketMemoryIntact` | `PacketIntact` | hypotheses below |
| `DhcpOneLease` | `OneLeasePerClient` | any |
| `DhcpBoundIsRegistered` | `BoundIsRegistered` | replies get a pbuf, no option misread |
| `TimerOnTime` | `OnTime` | any |
| `TimerGivesUpInTime` | `GivesUpInTime` | any |
| `TimerIsCurrent` | `TimeIsCurrent` | any |
| `HttpdFreedOnce` | `FreedOnce` | any |
| `HttpdQueuesSound` | `QueuesSound` | any |
| `HttpdPageWhole` | `PageWhole` | any |
| `ReceiveStreamExact` | `StreamExact` | buffers left alone; no sum with the window goes round (`NoWrap`, in the property) |
| `ReceiveQueueSound` | `QueueSound` | buffers left alone; what it says of the queued segments under `NoWrap` |
| `ReceiveEdgeKept` | `EdgeKept` | any |

*Quiet* and *calm* mean `trouble = {}`: no resets, no SET_CONFIGURATION(0), no halts, no
failed allocation, a prompt host. Section 3 shows that it is needed for `WholePacket`.
These are conditions in the properties themselves, not assumptions on the constants.
Every inductive invariant below was first checked by TLC with the constants of its
component's run.

**Receive.** None of the properties is inductive alone. `IInv` relates the contexts:
the lock is held exactly in the locked steps of the main loop (`LockInv`); an armed
endpoint points where `ecm_rx_index` does, with nothing left to transfer
(`ArmedInv`); the arguments the main loop carries towards arming, and the EPnR it has
read, are still right when it gets there, because nothing can arrive before
(`RenewInv`, `OwnerInv`); the driver's index is the host's offset and the buffer holds
what was sent (`BufferInv`). `QInv` is `Quiet => IInv`, which the steps of a disturbed
behaviour keep because `trouble` does not change. The step lemmas go by main loop and
interrupt, with the arrival of a packet split into a full chunk and the end of a frame.
`NoOverrun` is the surprising one: there is no check in the code, and the proof shows
that what bounds the index is the host's frame length. The refinement maps `next` to
the host's frame number and `mailbox` to the frame in `received_frame` or in the
hands of `service_traffic`. `ReceiveNoNullHandle` needs `HandleInv`: while no
configuration was taken back, a frame that waits or is being served, and every step of
its renewal, come with a handle that is set. `ReceiveHeldFrameKept` is an action property
whose one hard case is the arrival of a packet (`DataOutKeepsFrame`).

**Transmit.** `CopyUndisturbed` is an action property: what an interrupt may do to the
packet on offer while the main loop copies. `ecm_tx_remaining = 0` (`BufferFree`, and
`CopyFree` for a main loop that goes on with a `can_xmit` it read before) keeps timeouts,
starts of frame and new configurations from sending. Completions need more, because a
completion with `xfer_len` left goes on by itself: `CopyCalm` says that none is pending
behind a packet on offer, and `CompletionInv` that a pending one has nothing left,
where no call was refused at an armed endpoint. `HostBytesAscend` needs to know where the next bytes come from:
`AscendInv` says that what is left of the frame in `ecm_tx_buffer` is the frame's own and
behind everything sent (`StreamInv`, `SendInv`), that the packet memory holds what a
completion will write there a second time (`CompletionInv`: `HAL_PCD_EP_Transmit`'s
transfers are one packet long, so the interrupt's "continue" writes the old packet
again), and that a refused call finds no armed chunk (`RefusalInv`). The last is where
a slow host breaks the property, and why the property excepts it. In calm, `CalmInv` adds
that the frame on its way is in one of four stages (idle, waiting for a start of frame,
offered, fetched), each with its counters; `FrameEndSignified` follows, since the path is
ready in the first only. The refinement maps `mailbox` to the bytes the host has of the
frame, then the armed chunk, then the rest of the buffer, and `MappingSound` shows these
to be one frame.

**Control transfers.** The property about data stages is about three counters
(`rem_length`, `total_length`, `ep0_data_len`) and the position `xfer_buff`, which agree
only at certain moments. `ControlInv` fixes them at two: when a packet is offered
(`Offers`: it is the next one where the host stands, or the empty one that closes the
stage) and when its completion is pending (`Owes`: what the interrupt will do with the
rest). `PendingInv` shows that one interrupt is pending at a time, so that a SETUP
always meets a device in rest whatever was given up before. Every handler of
`usbd_ctlreq.c` is then described by one lemma each (`Outcome`): it refuses, begins the
status stage, begins a data stage of the right length, or, for a request of `SilentReq`,
does nothing; `NeverMute` and `DataStageExact` follow from this in the same way for all
of them. `AddressInv` follows the pending address from the SETUP to the interrupt of the
status stage, by which HAL sets it: it is none, or one the host gave up, or that of the
SET_ADDRESS under way, or the one the host has begun to use. These are about the host that
asks for anything (`driver = "any"`), in whose behaviours no interrupt finds the HAL lock
taken; what that does to an enumeration is left to the run and to `Enumerated`.

`ConfigurationAgrees` is about both hosts, so its proof must do without all of this: a late
interrupt may be taken for the completion of another transfer. `HandshakeInv` is what
remains, that a pending SETUP is that of the host's transfer and that after a
SET_CONFIGURATION no data stage goes on. `ConfigInv` then says that device and host agree
outside of a SET_CONFIGURATION, and inside one by what its status stage will say: if it is
armed the device has done what was asked, endpoints included (`SetupConfigures`: whatever
refuses the endpoints refuses the status too), if it is stalled nothing has changed, and
otherwise the host gets no answer.

**Packet memory.** `PacketMemoryIntact` has two hypotheses. That the BTABLE ends below
the first buffer (`BtableEnd <= Ep0Address`; 64 <= 64 here) is a fact of the numbers that
the code gets right by chance, the address computed for it being overwritten. That the data IN
endpoint is not in use together with endpoint 0 is what the code does not ensure: both
have their buffer at 64, and the run that expects a violation shows a packet lost. The
theorem says that this overlap is the only one.

**DHCP.** `free_entry` frees the *first* entry with a mac, so that a client is never
registered twice rests on its having been registered at most once: `LeaseInv` is
inductive through the lemma `FreeEntry`. `BoundIsRegistered` is about messages under way.
`SessionInv` says, for each client, that its messages of the present transaction come
after all older ones (`InOrder`), that its requests are for the address it has in mind
(`AsksForOwn`), and that once the server has acknowledged, the entry is the client's and
nothing older of it is left that could make the server free it (`HoldsOwn`). That a
new transaction's xid is on no message under way is a counting argument (`FreshXidIsFresh`).

**Time.** `TimerInv` bounds, for each place in the main loop, the true time since the
last `tcp_tmr` and since `linkoutput_fn` began (`AgeInv`, `WaitInv`), and says that the
difference of two readings of the wrapping counter is the true time as long as that is
less than a whole turn (`ElapsedInv`, `ReadInv`); `WordAssumption` says that a
round of the main loop is.

**Web server: ownership.** Neither half of `FreedOnce` is inductive: http_recv is called without a
look at hs, and what tells `tcp_input` not to call it is a flag of TCP. `OwnerInv` relates
them: the callbacks are set exactly while the pcb points to the hs, and a pcb in use that
does not has `TF_RXCLOSED`, which makes `tcp_input` abort instead of calling. A pcb in
CLOSE-WAIT has had the host's FIN, so it cannot have text; therefore the pcb can be freed
in the middle of `tcp_input` only if the FIN came in the same segment as text or a new ACK
(`InputOwned`). The handlers are described by what they do to the owner (`Served`,
`Aborted`); of the queues only that they are fields of the pcb is used.

**Web server: the stream.** `tcp_output`, `tcp_rexmit_rto` and `tcp_rexmit_fast` move
segments between `unacked` and `unsent`, and neither queue has an invariant of its own:
behind a retransmission everything is unsent, and the segment a fast retransmission took
back has to find its place in `unacked` again. What they keep is `unacked \o unsent`, so
`StreamInv` speaks of that one sequence (`Queue`): each segment has the bytes its sequence
number says (`Right`), they follow one upon the other with a FIN at the end only
(`Linked`), the first is the one `lastack` points into, and `snd_nxt` and `snd_lbb` are
no further than the last one's end (`Stream`). The lemmas `InsertLast`, `InsertAllLast` and
`InsertAllBack` show that the searches for a segment's place end where it was.
`Place` says where httpd is in the page: at the end of what it has written, or, when the
hs is gone for no other reason, at the page's end. `Sent` puts everything that is under
way into the same stream, although a segment on the queue may since have grown (`tcp_write`
fills up the last one, `tcp_send_fin` gives it a FIN): each is right by itself and a
FIN is behind the whole page. With `Have`, what the host has is the front of the page.
It may be ahead of `snd_nxt` by the octet of a window probe (`ProbeGood`); `tcp_receive`
takes an ACK for that as out of sequence, which is why no ACK drops more than the queue
holds.
There is one lemma for each handler of httpd.c and each function of TCP that it calls.

**Incoming stream.** Sequence numbers are turned into positions counted from `isn`
(`Pos`), which do not go round, because stream and window together are less than half of
`SEQ`: `AddPos`, `SubPos`, `GeqPos` and `WithinPos` say what sums, differences and the
signed comparisons of `tcp_impl.h` are there. `ReceiveInv` (`Sound`) has three parts. The
edge last announced is no further than `rcv_nxt + rcv_ann_wnd`, this no further than
`rcv_nxt + rcv_wnd`, and this no further than `TCP_WND` behind what was passed on
(`Window`). Every queued segment is a piece of the stream (`Piece`) in a place between
`rcv_nxt + 1` and the end of the window, one behind the other, a FIN at the end only
(`Queued`); it may claim to be longer than its data only where a sum with the window goes
round. What was passed on is the front of the stream (`Passed`). There is one lemma for each operator
that cuts, drops or merges segments (`CutToIs`, `CutBeforeIs`, `CutLastIs`, `InsertIs`,
`MergedIs`, `AppendOoseqIs`, `QueueOoseqIs`), each for an arbitrary interval that the
result stays in, so that the same lemma serves a queue inside the window and one whose
front has just been passed. The loop that passes on what has become consecutive (`Drain`)
is a recursive function over the queue; `AfterIs` shows that it exists, by the least
position at which a function could fail to, and `WalkedNext` takes one segment, so that
`DrainedIs` follows by the same argument. `EdgeKept` comes from carrying a lower bound of
the announced edge through all of these lemmas (`Open`, `Wider`, `Reached`): the edge
the host was told moves when an acknowledgement is sent and stays when that finds no
pbuf (`AnsweredIs`, `OpenAnswered`), and `tcp_update_rcv_ann_wnd` makes the window no
smaller than what reaches it.

The lemmas about endpoint operations are at the head of `EcmReceive_proofs`, among them
that toggle bits computed from the status that is there give the status wanted
(`ToggledSeen`); those for IN endpoints are at the head of `EcmTransmit_proofs`.
Assumptions are those of the components' `ASSUME`s, evaluated by TLC in every run; they
state that sizes are positive, that NULL is no frame and no request, that the counter is
wide enough for a round of the main loop (2^32 ms against seconds), and that the
bounds are numbers.

## 7. What is only model-checked

* All liveness (`FrameThenRearmed`, `EverythingDelivered`, `ReadyAgain`, `Enumerated`,
  `EveryoneBound`, `TcpTmrServed`, `FrameServed`, `Delivered`, `Freed`): beyond the proof
  system.
* `PoolWhole`, `NeverStarved` of `ServiceTraffic`: what a chain of buffers reaches is a
  recursive function over the pool, and facts about it need induction over data.
* `ParseExact`, `AnswerExact`: the parser and its reference are recursive over the
  message, for the same reason.

## 8. Not modelled

Most lines of the tree have no model, because most of the tree is not the program:
lwIP's PPP, SNMP, IPv6, AutoIP, DNS and DHCP clients, IGMP, sockets, netconn, its
other example applications, and CMSIS and HAL headers are not built into the firmware or
do nothing in it. Of what is in the firmware:

* ARP, IP with its reassembly, ICMP, UDP and the heap: a frame gets to its protocol, an
  allocation succeeds or fails. The firmware calls neither `sys_check_timeouts` nor
  `etharp_tmr` nor `ip_reass_tmr`, so what these would time out never is.
* TCP: active open, the handshake, options, congestion window, round trip time and the
  counting of the persist timer.
* The web server: what a request says, SSI and CGI (the handlers set and print
  a few flags); POST is compiled out.
* `stmr_init`, `stmr_free`, `stmr_stop`, `stmr_run`: no caller.
* Halts outside the CONFIGURED state; suspend and resume, which is compiled out of
  `HAL_PCD_IRQHandler`; double-buffered endpoints and data OUT stages on endpoint 0,
  which are not used.
* `fill_options` of the DHCP server, descriptors, web pages: constant data.
* Clock, GPIO and NVIC set-up: straight-line register writes at start.

## 9. Plan

Done: all modules of section 2, the proofs of section 6. Next:

1. `UsbdControl`: what of `NeverMute` survives when interrupts find the lock taken.
