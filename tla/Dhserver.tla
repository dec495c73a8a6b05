------------------------------ MODULE Dhserver ------------------------------
(***************************************************************************)
(* The DHCP server: dhcp-server/dhserver.c with the pool of main.c.        *)
(* udp_recv_proc runs in the main loop, one message at a time, so a        *)
(* message is one step.  Clients and the link are the environment: a link  *)
(* keeps the order of messages and may lose them (a busy mailbox, an empty *)
(* pbuf pool, ERR_USE of linkoutput_fn), clients repeat themselves.        *)
(*                                                                         *)
(* dhcp_data is a static buffer, and a message shorter than the one before *)
(* leaves the tail of that one in it, where find_dhcp_option searches too: *)
(* `tail' is the requested address it would find there.                    *)
(***************************************************************************)
EXTENDS Integers, Sequences

CONSTANTS
    Clients,       \* hardware addresses
    num_entry,     \* addresses in the pool (3)
    MaxInFlight,   \* bound: messages and replies on the link
    MaxLosses,     \* bound: messages the link loses
    MaxReboots,    \* bound: clients that start again with an address in mind
    MaxHurries,    \* bound: messages sent again while the last one is under way
    MaxNoPbuf,     \* bound: replies for which pbuf_alloc finds the pool empty
    Shapes,        \* how messages lie in dhcp_data: "short", "long", "late"
    VACANT, NONE

ASSUME PoolAssumption == num_entry \in Nat \ {0}

ASSUME NoneAssumption == VACANT \notin Clients /\ NONE \notin 0 .. num_entry

ASSUME EnvAssumption == /\ {MaxInFlight, MaxLosses, MaxReboots, MaxHurries,
                             MaxNoPbuf} \subseteq Nat
                        /\ Shapes \subseteq {"short", "long", "late"}

VARIABLES
    entries,          \* config->entries: the mac of each address of the pool
    tail,             \* an address find_dhcp_option finds behind the message
    up, down,         \* the link to the server and back
    client,           \* what each client does, and the address it has in mind
    losses, reboots, hurries, nopbuf,
    misread           \* an option 50 was taken from an earlier message

bounds == <<losses, reboots, hurries, nopbuf>>
vars == <<entries, tail, up, down, client, bounds, misread>>

Entries == 1 .. num_entry
Foreign == 0                       \* an address that is not in the pool
Address == Entries \cup {Foreign}

Xid == 0 .. MaxInFlight

Request == [type : {"DISCOVER", "REQUEST"}, chaddr : Clients, xid : Xid,
            ip : Address \cup {NONE}, shape : {"short", "long", "late"}]
Reply == [type : {"OFFER", "ACK"}, chaddr : Clients, xid : Xid, yiaddr : Entries]

TypeOK ==
    /\ entries \in [Entries -> Clients \cup {VACANT}]
    /\ tail \in Address \cup {NONE}
    /\ up \in Seq(Request) /\ down \in Seq(Reply)
    /\ client \in [Clients -> [state : {"init", "selecting", "requesting", "bound"},
                               addr : Address \cup {NONE}, xid : Xid]]
    /\ losses \in Nat /\ reboots \in Nat /\ hurries \in Nat /\ nopbuf \in Nat
    /\ misread \in BOOLEAN

\* The table of main.c, after dhserv_init.
Init ==
    /\ entries = [e \in Entries |-> VACANT]
    /\ tail = NONE
    /\ up = <<>> /\ down = <<>>
    /\ client = [c \in Clients |-> [state |-> "init", addr |-> NONE, xid |-> 0]]
    /\ losses = 0 /\ reboots = 0 /\ hurries = 0 /\ nopbuf = 0
    /\ misread = FALSE
-----------------------------------------------------------------------------
(***************************************************************************)
(* The server                                                              *)
(***************************************************************************)

First(S) == CHOOSE e \in S : \A f \in S : e <= f

entry_by_mac(table, mac) == {e \in Entries : table[e] = mac}

is_vacant(table, e) == table[e] = VACANT

\* Mutant: vacant_address does not look whether the entry is vacant.
vacant_address_Any(table) == Entries

vacant_address(table) == {e \in Entries : is_vacant(table, e)}

\* Mutant: the mac keeps its old entry.
free_entry_Not(table, mac) == table

\* free_entry on the first entry with this mac, if there is one.
free_entry(table, mac) ==
    LET held == entry_by_mac(table, mac)
    IN  IF held = {} THEN table ELSE [table EXCEPT ![First(held)] = VACANT]

\* The memcpy to dhcp_data: a short message leaves what lies behind its end, a long
\* one overwrites it, and a late one has its option 50 there.
TailAfter(m) == CASE m.shape = "short" -> tail
                  [] m.shape = "long"  -> NONE
                  [] m.shape = "late"  -> m.ip

\* find_dhcp_option(DHCP_IPADDRESS) on dhcp_data: the message's own option, or
\* what an earlier message left behind it.
find_dhcp_option(m) == IF m.ip # NONE THEN m.ip ELSE TailAfter(m)

\* The reply is written over the message: its dp_xid and dp_chaddr stay.
Send(m, type, ip) ==
    /\ down' = Append(down, [type |-> type, chaddr |-> m.chaddr, xid |-> m.xid,
                             yiaddr |-> ip])
    /\ UNCHANGED nopbuf

\* pbuf_alloc finds nothing.
NoPbuf == nopbuf < MaxNoPbuf /\ nopbuf' = nopbuf + 1 /\ UNCHANGED down

\* DHCP_DISCOVER: an offer reserves nothing. The reply clears the options.
Discover(m) ==
    LET held == entry_by_mac(entries, m.chaddr)
        entry == IF held # {} THEN held ELSE vacant_address(entries)
    IN  /\ m.type = "DISCOVER"
        /\ UNCHANGED entries
        /\ \/ /\ entry = {}
              /\ tail' = TailAfter(m)
              /\ UNCHANGED <<down, nopbuf>>
           \/ /\ entry # {}
              /\ tail' = NONE
              /\ \/ Send(m, "OFFER", First(entry))
                 \/ NoPbuf

\* The three ends of a request: the entry is freed and nothing else, or an ACK
\* registers it, or its reply gets no pbuf.
Refuse(m, table) ==
    /\ entries' = table
    /\ tail' = TailAfter(m)
    /\ UNCHANGED <<down, nopbuf>>

Register(m, table, ip) ==
    /\ tail' = NONE
    /\ \/ /\ entries' = [table EXCEPT ![ip] = m.chaddr]
          /\ Send(m, "ACK", ip)
       \/ /\ entries' = table
          /\ NoPbuf

\* Mutant: the check that the requested entry is vacant is missing.
RequestLease_Steals(m) ==
    LET ip == find_dhcp_option(m)
        table == free_entry(entries, m.chaddr)
    IN  /\ m.type = "REQUEST"
        /\ \/ ip = NONE /\ Refuse(m, entries)
           \/ ip = Foreign /\ Refuse(m, table)
           \/ ip \in Entries /\ Register(m, table, ip)

\* DHCP_REQUEST. The entry of the client is freed before the requested one is
\* looked at; it is registered again only if the reply gets a pbuf. There is
\* no DHCP_NAK.
RequestLease(m) ==
    LET ip == find_dhcp_option(m)
        table == free_entry(entries, m.chaddr)
    IN  /\ m.type = "REQUEST"
        /\ \/ ip = NONE /\ Refuse(m, entries)
           \/ ip = Foreign /\ Refuse(m, table)
           \/ ip \in Entries /\ ~is_vacant(table, ip) /\ Refuse(m, table)
           \/ ip \in Entries /\ is_vacant(table, ip) /\ Register(m, table, ip)

\* udp_recv_proc. Other message types are ignored and not sent here.
udp_recv_proc ==
    /\ up # <<>>
    /\ Discover(Head(up)) \/ RequestLease(Head(up))
    /\ up' = Tail(up)
    /\ misread' = (misread \/ (/\ Head(up).type = "REQUEST"
                              /\ Head(up).ip # find_dhcp_option(Head(up))))
    /\ UNCHANGED <<client, losses, reboots, hurries>>
-----------------------------------------------------------------------------
(***************************************************************************)
(* The clients and the link                                                *)
(***************************************************************************)

\* Option 50 is there (ip) or not (NONE).
Ask(type, c, xid, ip) ==
    \E shape \in Shapes :
       /\ shape = "late" => ip # NONE
       /\ up' = Append(up, [type |-> type, chaddr |-> c, xid |-> xid, ip |-> ip,
                            shape |-> shape])

\* A transaction id that no message under way carries.
FreshXid(c) ==
    CHOOSE x \in Xid : /\ \A n \in DOMAIN up : up[n].chaddr = c => up[n].xid # x
                      /\ \A k \in DOMAIN down : down[k].chaddr = c => down[k].xid # x

LinkFree == Len(up) + Len(down) < MaxInFlight

\* A time out: mostly nothing of this client is under way any more.
TimeOut(c) ==
    LET underway == \/ \E n \in DOMAIN up : up[n].chaddr = c
                    \/ \E k \in DOMAIN down : down[k].chaddr = c
    IN  /\ LinkFree
        /\ underway => hurries < MaxHurries
        /\ hurries' = IF underway THEN hurries + 1 ELSE hurries

ClientDiscovers(c) ==
    /\ client[c].state # "bound"
    /\ TimeOut(c)
    /\ Ask("DISCOVER", c, FreshXid(c), NONE)
    /\ client' = [client EXCEPT ![c] = [state |-> "selecting", addr |-> NONE,
                                        xid |-> FreshXid(c)]]
    /\ UNCHANGED <<entries, tail, down, losses, reboots, nopbuf, misread>>

ClientRepeats(c) ==
    /\ client[c].state = "requesting"
    /\ TimeOut(c)
    /\ Ask("REQUEST", c, client[c].xid, client[c].addr)
    /\ UNCHANGED <<entries, tail, down, client, losses, reboots, nopbuf, misread>>

\* A bound client renews with its address in ciaddr and without option 50.
ClientRenews(c) ==
    /\ client[c].state = "bound"
    /\ TimeOut(c)
    /\ Ask("REQUEST", c, client[c].xid, NONE)
    /\ UNCHANGED <<entries, tail, down, client, losses, reboots, nopbuf, misread>>

\* A client starts again and asks for an address it had, elsewhere or before the
\* device lost its table.
ClientReboots(c) ==
    /\ client[c].state \in {"init", "bound"}
    /\ LinkFree
    /\ reboots < MaxReboots
    /\ reboots' = reboots + 1
    /\ \E ip \in Address :
          /\ Ask("REQUEST", c, FreshXid(c), ip)
          /\ client' = [client EXCEPT ![c] = [state |-> "requesting", addr |-> ip,
                                              xid |-> FreshXid(c)]]
    /\ UNCHANGED <<entries, tail, down, losses, hurries, nopbuf, misread>>

\* What client m.chaddr waits for in this reply.
Offered(m) == m.type = "OFFER" /\ client[m.chaddr].state = "selecting"
                               /\ client[m.chaddr].xid = m.xid

Acknowledged(m) ==
    m.type = "ACK" /\ client[m.chaddr] = [state |-> "requesting", addr |-> m.yiaddr,
                                          xid |-> m.xid]

\* A client gets the reply at the head of the link.
ClientReceives ==
    LET m == Head(down)
    IN  /\ down # <<>>
        /\ down' = Tail(down)
        /\ \/ /\ Offered(m)
              /\ client' = [client EXCEPT ![m.chaddr] = [state |-> "requesting",
                                             addr |-> m.yiaddr, xid |-> m.xid]]
              /\ Ask("REQUEST", m.chaddr, m.xid, m.yiaddr)
           \/ /\ Acknowledged(m)
              /\ client' = [client EXCEPT ![m.chaddr].state = "bound"]
              /\ UNCHANGED up
           \/ /\ ~Offered(m) /\ ~Acknowledged(m)
              /\ UNCHANGED <<client, up>>
        /\ UNCHANGED <<entries, tail, bounds, misread>>

Lose ==
    /\ losses < MaxLosses
    /\ losses' = losses + 1
    /\ \/ up # <<>> /\ up' = Tail(up) /\ UNCHANGED down
       \/ down # <<>> /\ down' = Tail(down) /\ UNCHANGED up
    /\ UNCHANGED <<entries, tail, client, reboots, hurries, nopbuf, misread>>

Next == \/ udp_recv_proc \/ ClientReceives \/ Lose
        \/ \E c \in Clients : \/ ClientDiscovers(c) \/ ClientRepeats(c)
                              \/ ClientRenews(c) \/ ClientReboots(c)

Spec == Init /\ [][Next]_vars

(***************************************************************************)
(* The main loop runs, a reply reaches its client, and a client that gets  *)
(* no answer sooner or later discovers again.                              *)
(***************************************************************************)
FairSpec == /\ Spec
            /\ WF_vars(udp_recv_proc) /\ WF_vars(ClientReceives)
            /\ \A c \in Clients : SF_vars(ClientDiscovers(c))
-----------------------------------------------------------------------------
(***************************************************************************)
(* Properties                                                              *)
(***************************************************************************)

\* entry_by_mac has at most one answer: no sequence of requests, refusals and failed
\* replies registers a client twice, so freeing the first entry frees all it holds.
OneLeasePerClient ==
    \A e, f \in Entries : entries[e] = entries[f] /\ entries[e] # VACANT => e = f

\* A client that got its ACK is the one the table names, so no two clients use one
\* address: no message of anybody, no retransmission and no answer to an earlier
\* transaction takes the address away under a client that uses it. (It ends with the
\* first reply that gets no pbuf and with the first option read from an old message.)
BoundIsRegistered ==
    /\ TypeOK
    /\ nopbuf = 0 /\ ~misread =>
          \A c \in Clients : client[c].state = "bound" => entries[client[c].addr] = c

\* If the pool has an address for everyone, everyone gets one, though offers reserve
\* nothing, refusals are silent and messages are lost.
EveryoneBound == \A c \in Clients : []<>(client[c].state = "bound")
=============================================================================
