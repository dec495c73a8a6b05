--------------------------- MODULE ServiceTraffic ---------------------------
(***************************************************************************)
(* What becomes of a received frame's buffer: usb_ecm_recv_callback takes  *)
(* it from the pool in the interrupt, service_traffic hands it to          *)
(* ethernet_input, which owns it from then on, frees it once more and      *)
(* renews the endpoint.  In between, lwIP gives the frame to the DNS       *)
(* server, or to TCP and the web server, which may keep it: part of a      *)
(* request waits in hs->req, a segment that came early in pcb->ooseq.      *)
(*                                                                         *)
(* EcmReceive shows that the interrupt has no frame to store between the   *)
(* end of a frame and its renewal: here, armed.                            *)
(***************************************************************************)
EXTENDS PbufPool, Dnserver, FiniteSets

CONSTANTS
    Messages,    \* DNS messages: [header : HeaderKinds, bytes : Seq(Nat)]
    Leftovers,   \* what the static query.name may hold when a message comes
    Troubles     \* what lwIP does together: sets of the kinds below

\* Buffers are kept from one frame to the next; tcp_tmr frees some of these.
TroubleKinds == {"holds", "timer"}

ASSUME MessageAssumption == Messages \subseteq [header : HeaderKinds, bytes : Seq(Nat)]

ASSUME LeftoverAssumption == Leftovers \subseteq [1 .. DNS_MAX_HOST_NAME_LEN -> Nat]

ASSUME TroubleAssumption == Troubles \subseteq SUBSET TroubleKinds

VARIABLES
    armed,            \* the endpoint accepts a frame
    received_frame,   \* main.c: the frame waiting for the main loop
    frame,            \* service_traffic's local
    msg,              \* the DNS message in it, or NoMessage
    query,            \* dnserver.c: the static query, and what the parser returned
    out, answer,      \* the reply's buffer, and the length of its question, or 0
    req, ooseq,       \* hs->req of the web server, pcb->ooseq of TCP
    starved,          \* a frame was dropped for want of a buffer
    trouble

keep == <<req, ooseq>>
dns == <<msg, query, out, answer>>
vars == <<pool, call, armed, received_frame, frame, dns, keep, starved, trouble>>

NoMessage == [header |-> "none", bytes |-> <<>>]

Nothing == [ret |-> -1, name |-> <<>>]

TypeOK ==
    /\ PoolTypeOK
    /\ pc \in PoolSteps \cup {"idle", "input", "parsed", "reply", "replied", "chained",
                              "dequeue", "again", "renew", "hung"}
    /\ after \in {"idle", "reply", "replied", "dequeue", "again", "renew"}
    /\ armed \in BOOLEAN /\ starved \in BOOLEAN
    /\ {received_frame, frame, out, req, ooseq} \subseteq Pointer
    /\ msg \in Messages \cup {NoMessage}
    /\ query.ret \in Int /\ query.name \in Seq(Nat)
    /\ answer \in Nat
    /\ trouble \in Troubles

Init ==
    /\ PoolInit
    /\ pc = "idle" /\ after = "idle"
    /\ armed = TRUE /\ starved = FALSE
    /\ received_frame = NULL /\ frame = NULL /\ msg = NoMessage
    /\ query = Nothing /\ out = NULL /\ answer = 0
    /\ req = NULL /\ ooseq = NULL
    /\ trouble \in Troubles
-----------------------------------------------------------------------------
(***************************************************************************)
(* The end of a frame, in the interrupt: usb_ecm_recv_callback.  Without a *)
(* buffer the frame is dropped and the endpoint renewed.                   *)
(***************************************************************************)
IsrFrame ==
    /\ armed
    /\ \/ /\ memp_tab # NULL
          /\ received_frame = NULL
          /\ IsrTakesHead
          /\ received_frame' = memp_tab
          /\ armed' = FALSE
          /\ UNCHANGED starved
       \/ /\ memp_tab = NULL
          /\ received_frame = NULL
          /\ starved' = TRUE
          /\ UNCHANGED <<pool, armed, received_frame>>
    /\ UNCHANGED <<call, frame, dns, keep, trouble>>

main == <<armed, received_frame, starved, trouble>>

\* service_traffic takes the frame.
TakeFrame ==
    /\ pc = "idle"
    /\ received_frame # NULL
    /\ frame' = received_frame
    /\ received_frame' = NULL
    /\ pc' = "input"
    /\ UNCHANGED <<pool, p, q, after, armed, starved, trouble, dns, keep>>

\* ethernet_input: a frame that lwIP and its users are done with is freed there, with
\* the segment that tcp_receive chained to it.
InputTaken ==
    /\ pc \in {"input", "chained"}
    /\ pbuf_free(frame, "again")
    /\ UNCHANGED <<pool, main, frame, dns, keep>>

\* http_recv while it sends a file: the request is neither kept nor freed.
InputIgnored ==
    /\ pc \in {"input", "chained"}
    /\ pc' = "again"
    /\ UNCHANGED <<pool, p, q, after, main, frame, dns, keep>>

(***************************************************************************)
(* udp_recv_proc of dnserver.c                                             *)
(***************************************************************************)

\* What parse_next_query stored: a zero behind a name it could read. The rest of
\* query.name is as it was.
Stored(parsed, old) ==
    LET new == IF parsed.ret > 0 THEN Append(parsed.name, 0) ELSE parsed.name
    IN  [parsed EXCEPT !.name = new \o SubSeq(old, Len(new) + 1, Len(old))]

\* Mutant: what the parser returned is not looked at.
Parsed_Unchecked(m, old) ==
    IF m.bytes = <<>> \/ m.header # "query" THEN Failed(-1, old)
    ELSE [Stored(parse_next_query(m.bytes), old) EXCEPT !.ret = 5]

\* The header is looked at, and the question parsed.
Parsed(m, old) ==
    IF m.bytes = <<>> \/ m.header # "query" THEN Failed(-1, old)
    ELSE Stored(parse_next_query(m.bytes), old)

InputDns ==
    /\ pc = "input"
    /\ msg' \in Messages
    /\ \E old \in Leftovers : query' = Parsed(msg', old)
    /\ answer' = 0
    /\ pc' = "parsed"
    /\ UNCHANGED <<pool, p, q, after, main, frame, out, keep>>

\* A known name gets an answer, whose buffer is taken before the frame's is given back.
DnsQuery ==
    /\ pc = "parsed"
    /\ IF query.ret > 0 /\ dns_query_proc(query.name) THEN pbuf_alloc("reply")
       ELSE pbuf_free(frame, "again")
    /\ UNCHANGED <<pool, main, frame, dns, keep>>

\* The reply: the question copied, an address behind it. udp_sendto copies it to the
\* driver's buffer, and it is freed.
DnsReply ==
    /\ pc = "reply"
    /\ IF p = NULL
         THEN pbuf_free(frame, "again") /\ UNCHANGED <<out, answer>>
         ELSE pbuf_free(p, "replied") /\ out' = p /\ answer' = query.ret
    /\ UNCHANGED <<pool, main, frame, msg, query, keep>>

DnsReplied ==
    /\ pc = "replied"
    /\ out' = NULL
    /\ pbuf_free(frame, "again")
    /\ UNCHANGED <<pool, main, frame, msg, query, answer, keep>>

(***************************************************************************)
(* TCP and the web server                                                  *)
(***************************************************************************)

\* http_parse_request enqueues the segment, behind the part of the request it has.
\* pbuf_cat does not come back from a chain without end, and neither does pbuf_clen.
Enqueue ==
    IF req = NULL THEN req' = frame /\ UNCHANGED nxt
    ELSE pbuf_cat(req, frame) /\ UNCHANGED req

InputRequest ==
    /\ pc \in {"input", "chained"}
    /\ Ends(nxt, req)
    /\ Enqueue
    /\ \/ /\ "holds" \in trouble         \* ERR_INPROGRESS
          /\ pc' = IF Ends(nxt', req') THEN "again" ELSE "hung"
       \/ pc' = "dequeue"                \* a whole request, or a bad one
    /\ UNCHANGED <<memp_tab, ref, p, q, after, main, frame, dns, ooseq>>

InputRequestHangs ==
    /\ pc \in {"input", "chained"}
    /\ ~Ends(nxt, req)
    /\ pc' = "hung"
    /\ UNCHANGED <<pool, p, q, after, main, frame, dns, keep>>

\* The walk goes on for ever.
Hung == pc = "hung" /\ UNCHANGED vars

\* http_recv frees the request it has parsed.
RequestDone ==
    /\ pc = "dequeue"
    /\ pbuf_free(req, "again")
    /\ req' = NULL
    /\ UNCHANGED <<pool, main, frame, dns, ooseq>>

\* tcp_receive: a segment that came early is queued with a reference of its own, and
\* tcp_input frees the frame.
InputEarlySegment ==
    /\ pc = "input"
    /\ "holds" \in trouble
    /\ ooseq = NULL
    /\ ooseq' = frame
    /\ ref' = [ref EXCEPT ![frame] = (@ + 1) % REFS]
    /\ pbuf_free(frame, "again")
    /\ UNCHANGED <<memp_tab, nxt, main, frame, dns, req>>

\* The missing segment comes: tcp_receive chains the early one to it, and http_recv is
\* given the chain.
InputMissingSegment ==
    /\ pc = "input"
    /\ ooseq # NULL
    /\ pbuf_cat(frame, ooseq)
    /\ ooseq' = NULL
    /\ pc' = IF Ends(nxt, frame) THEN "chained" ELSE "hung"
    /\ UNCHANGED <<memp_tab, ref, p, q, after, main, frame, dns, req>>

\* tcp_slowtmr drops a segment that waited for too long, with the endpoint armed.
TcpTimer ==
    /\ pc = "idle"
    /\ "timer" \in trouble
    /\ ooseq # NULL
    /\ ooseq' = NULL
    /\ pbuf_free(ooseq, "idle")
    /\ UNCHANGED <<pool, main, frame, dns, req>>

(***************************************************************************)
(* The end of service_traffic                                              *)
(***************************************************************************)

\* Mutant: the endpoint is renewed before the frame is freed.
FreeAgain_RenewedFirst ==
    /\ pc = "again"
    /\ pbuf_free(frame, "renew")
    /\ armed' = TRUE
    /\ UNCHANGED <<pool, received_frame, starved, trouble, frame, dns, keep>>

\* Mutant: the second free is missing.
FreeAgain_Not ==
    /\ pc = "again"
    /\ pc' = "renew"
    /\ UNCHANGED <<pool, p, q, after, main, frame, dns, keep>>

\* service_traffic's own pbuf_free(frame).
FreeAgain ==
    /\ pc = "again"
    /\ pbuf_free(frame, "renew")
    /\ UNCHANGED <<pool, main, frame, dns, keep>>

\* Mutant: only a frame that got no answer is renewed.
Renew_Unanswered ==
    /\ pc = "renew"
    /\ armed' = (answer = 0)
    /\ frame' = NULL /\ msg' = NoMessage /\ answer' = 0 /\ query' = Nothing
    /\ p' = NULL /\ q' = NULL
    /\ pc' = "idle"
    /\ UNCHANGED <<pool, after, received_frame, starved, trouble, out, keep>>

\* usb_ecm_recv_renew. What is in query.name is forgotten here, and guessed by InputDns.
Renew ==
    /\ pc = "renew"
    /\ armed' = TRUE
    /\ frame' = NULL /\ msg' = NoMessage /\ answer' = 0 /\ query' = Nothing
    /\ p' = NULL /\ q' = NULL
    /\ pc' = "idle"
    /\ UNCHANGED <<pool, after, received_frame, starved, trouble, out, keep>>

Input == \/ InputTaken \/ InputIgnored \/ InputDns \/ InputRequest \/ InputRequestHangs
         \/ InputEarlySegment \/ InputMissingSegment

PoolCall == PoolStep /\ UNCHANGED <<main, frame, dns, keep>>

MainLoop == \/ TakeFrame \/ Input \/ PoolCall \/ DnsQuery \/ DnsReply \/ DnsReplied
            \/ RequestDone \/ Hung \/ TcpTimer \/ FreeAgain \/ Renew

Next == IsrFrame \/ MainLoop

Spec == Init /\ [][Next]_vars

\* The main loop runs.
FairSpec == Spec /\ WF_vars(MainLoop)
-----------------------------------------------------------------------------
(***************************************************************************)
(* Properties                                                              *)
(***************************************************************************)

\* lwIP keeps no frame beyond its turn.
Simple == trouble = {}

FreeList == Reached(nxt, memp_tab)

\* The frame is still lwIP's.
InHand == IF pc \in {"input", "parsed", "reply", "replied", "chained"} THEN {frame} ELSE {}

\* service_traffic frees a frame that lwIP has freed, or that the web server forgot,
\* and the pool comes out whole every time: between two frames each buffer is in the
\* free list, which ends, or waits in received_frame, and not both. It rests on the count
\* going round from 0 to REFS - 1 and on the interrupt being kept out until the renewal.
\* Even when lwIP keeps frames that service_traffic frees under it, the free list never
\* runs into itself: memp_free needs a count that comes down from 1, and only pbuf_alloc,
\* which takes the buffer out of the list, makes it 1. (tcp_tmr's frees are not included:
\* they meet the interrupt, and a pointer whose buffer has another owner.)
PoolWhole ==
    /\ TypeOK
    /\ "timer" \notin trouble /\ pc \notin PoolSteps => Ends(nxt, memp_tab)
    /\ Simple /\ pc \notin PoolSteps =>
          /\ received_frame \notin FreeList
          /\ pc = "idle" => FreeList \cup ({received_frame} \ {NULL}) = Pbufs
          /\ pc # "idle" => InHand \cap FreeList = {}

\* The interrupt always finds a buffer, so usb_ecm_recv_callback drops no frame.
NeverStarved == Simple => ~starved

\* parse_next_query reads exactly the questions the reference knows, whatever query.name
\* held, and never stores behind it, the terminating zero included.
ParseExact ==
    pc = "parsed" /\ msg.header = "query" =>
        /\ Len(query.name) = DNS_MAX_HOST_NAME_LEN
        /\ IF query.ret > 0
             THEN \E found \in Questions(msg.bytes) :
                     /\ found[2] = query.ret
                     /\ SubSeq(query.name, 1, Len(found[1]) + 1) = Append(found[1], 0)
             ELSE \A found \in Questions(msg.bytes) :
                     Len(found[1]) >= DNS_MAX_HOST_NAME_LEN

\* The server answers a query for one of its names, with the question it was asked,
\* and nothing else, though query is static, keeps what earlier messages left in it, and
\* the parser may leave it half written.
AnswerExact ==
    Simple /\ pc = "again" /\ msg # NoMessage =>
        LET answered == {found \in Questions(msg.bytes) :
                            /\ msg.header = "query"
                            /\ Len(found[1]) < DNS_MAX_HOST_NAME_LEN
                            /\ CString(found[1]) \in KnownNames}
        IN  {answer} \ {0} = {found[2] : found \in answered}

\* Every frame is served and the endpoint renewed, unless lwIP keeps frames.
FrameServed == Simple => [](received_frame # NULL => <>armed)

(***************************************************************************)
(* "the reference counter of a pbuf equals the number of pointers that     *)
(* refer to the pbuf" (pbuf.c): those that wait, that lwIP has in hand,    *)
(* that wait in a request or in a queue.                                   *)
(***************************************************************************)
Pointers(a) ==
    Cardinality({w \in {<<1, received_frame>>, <<2, req>>, <<3, ooseq>>} : w[2] = a})
      + Cardinality({b \in Pbufs : nxt[b] = a /\ b \in Reached(nxt, req)})

ReferencesCounted ==
    pc = "idle" => \A a \in Pbufs : Pointers(a) > 0 => ref[a] = Pointers(a)
=============================================================================
