--------------------------- MODULE Dhserver_proofs ---------------------------
(***************************************************************************)
(* No history registers a client twice, and none takes the address away    *)
(* under a client that uses it, for any pool, any set of clients and every *)
(* environment: lost and repeated messages, and for the first of the two   *)
(* also replies without a pbuf and options left behind in dhcp_data.       *)
(***************************************************************************)
EXTENDS Dhserver, FiniteSetTheorems, TLAPS

\* The table has one mac per address of the pool.
TableOK == entries = [e \in Entries |-> entries[e]]

LeaseInv == TableOK /\ OneLeasePerClient

\* free_entry leaves the macs of the others alone and none of the client's.
LEMMA FreeEntry ==
    ASSUME LeaseInv, NEW mac, mac # VACANT,
           NEW table, table = free_entry(entries, mac)
    PROVE  /\ table = [e \in Entries |-> table[e]]
           /\ \A e \in Entries : table[e] = IF entries[e] = mac THEN VACANT ELSE entries[e]
<1> DEFINE held == entry_by_mac(entries, mac)
<1>1. CASE held = {}
  <2>1. table = entries
    BY <1>1 DEF free_entry
  <2>2. \A e \in Entries : entries[e] # mac
    BY <1>1 DEF entry_by_mac
  <2>. QED  BY <2>1, <2>2 DEF LeaseInv, TableOK
<1>2. CASE held # {}
  <2>1. PICK h \in Entries : entries[h] = mac
    BY <1>2 DEF entry_by_mac
  <2>2. held = {h}
    BY <2>1 DEF entry_by_mac, LeaseInv, OneLeasePerClient
  <2>3. First(held) = h
    BY <2>2 DEF First, Entries
  <2>4. table = [entries EXCEPT ![h] = VACANT]
    BY <1>2, <2>3 DEF free_entry
  <2>5. \A e \in Entries : entries[e] = mac <=> e = h
    BY <2>1, <2>2 DEF entry_by_mac
  <2>. QED  BY <2>4, <2>5 DEF LeaseInv, TableOK
<1>. QED  BY <1>1, <1>2


\* Freeing keeps the table's shape and no mac is there twice, VACANT being no mac.
LEMMA FreeKeeps ==
    ASSUME LeaseInv, NEW mac, NEW table, table = free_entry(entries, mac)
    PROVE  /\ table = [e \in Entries |-> table[e]]
           /\ \A e, f \in Entries : table[e] = table[f] /\ table[e] # VACANT => e = f
           /\ mac # VACANT => \A e \in Entries : table[e] # mac
<1>1. CASE mac # VACANT
  BY <1>1, FreeEntry DEF LeaseInv, OneLeasePerClient
<1>2. CASE mac = VACANT
  <2>1. PICK x : table = entries \/ table = [entries EXCEPT ![x] = VACANT]
    BY DEF free_entry
  <2>. QED  BY <1>2, <2>1 DEF LeaseInv, TableOK, OneLeasePerClient
<1>. QED  BY <1>1, <1>2

\* A request keeps the invariant, whichever way it ends.
LEMMA RequestKeeps ==
    ASSUME LeaseInv, NEW m, RequestLease(m)
    PROVE  LeaseInv'
<1> DEFINE table == free_entry(entries, m.chaddr)
           ip == find_dhcp_option(m)
<1>0. /\ table = [e \in Entries |-> table[e]]
      /\ \A e, f \in Entries : table[e] = table[f] /\ table[e] # VACANT => e = f
      /\ m.chaddr # VACANT => \A e \in Entries : table[e] # m.chaddr
  BY FreeKeeps
<1>1. CASE UNCHANGED entries
  BY <1>1 DEF LeaseInv, TableOK, OneLeasePerClient
<1>2. CASE entries' = table
  <2> HIDE DEF table
  <2>. QED  BY <1>0, <1>2 DEF LeaseInv, TableOK, OneLeasePerClient
<1>3. CASE ip \in Entries /\ entries' = [table EXCEPT ![ip] = m.chaddr]
  <2>1. ip \in Entries
    BY <1>3
  <2> HIDE DEF table, ip
  <2>2. \A e \in Entries : entries'[e] = IF e = ip THEN m.chaddr ELSE table[e]
    BY <1>0, <1>3, <2>1
  <2>3. TableOK'
    BY <1>0, <1>3 DEF TableOK
  <2>4. OneLeasePerClient'
    BY <1>0, <2>1, <2>2 DEF OneLeasePerClient
  <2>. QED  BY <2>3, <2>4 DEF LeaseInv
<1>. QED  BY <1>1, <1>2, <1>3 DEF RequestLease, Refuse, Register

\* Of all steps only a request writes the table: a discovery, a lost message and the
\* clients leave it alone.
LEMMA LeaseStep == LeaseInv /\ [Next]_vars => LeaseInv'
<1> SUFFICES ASSUME LeaseInv, [Next]_vars
             PROVE  LeaseInv'
  OBVIOUS
<1>1. CASE udp_recv_proc
  <2>1. CASE Discover(Head(up))
    BY <2>1 DEF Discover, LeaseInv, TableOK, OneLeasePerClient
  <2>2. CASE RequestLease(Head(up))
    BY <2>2, RequestKeeps
  <2>. QED  BY <1>1, <2>1, <2>2 DEF udp_recv_proc
<1>2. CASE UNCHANGED entries
  BY <1>2 DEF LeaseInv, TableOK, OneLeasePerClient
<1>. QED  BY <1>1, <1>2 DEF Next, vars, ClientReceives, Lose, ClientDiscovers,
             ClientRepeats, ClientRenews, ClientReboots

\* No sequence of messages registers one client for two addresses: udp_recv_proc frees
\* the old entry of a client before it registers the new one, also when the request
\* is refused or its reply gets no pbuf.
THEOREM DhcpOneLease == Spec => []OneLeasePerClient
<1>1. Init => LeaseInv
  BY DEF Init, LeaseInv, TableOK, OneLeasePerClient
<1>2. LeaseInv => OneLeasePerClient
  BY DEF LeaseInv
<1>. QED  BY <1>1, <1>2, LeaseStep, PTL DEF Spec
-----------------------------------------------------------------------------
(***************************************************************************)
(* A client that is bound.  The link keeps the order, so when an ACK of    *)
(* the client's transaction is under way, all that the client asked for    *)
(* before has been served, and what it asks for since is its own address.  *)
(***************************************************************************)

\* Messages of c, and those of the transaction it is in.
Of(m, c) == m.chaddr = c
Now(m, c) == m.chaddr = c /\ m.xid = client[c].xid

\* What c asked for in this transaction comes after what it asked for before.
InOrder(c) == \A n, k \in 1 .. Len(up) :
                 n < k /\ Of(up[k], c) /\ Now(up[n], c) => Now(up[k], c)

\* Requests of this transaction are for the address the client has in mind, and before
\* it has one there are none.
AsksForOwn(c) ==
    /\ \A n \in 1 .. Len(up) : Now(up[n], c) /\ up[n].type = "REQUEST" =>
          /\ up[n].ip \in {client[c].addr, NONE}
          /\ client[c].state \in {"requesting", "bound"}
    /\ \A k \in 1 .. Len(down) : Now(down[k], c) /\ down[k].type = "ACK" =>
          client[c].state \in {"requesting", "bound"}

\* The server has acknowledged this transaction.
Granted(c) == \/ client[c].state = "bound"
              \/ \E k \in 1 .. Len(down) : Now(down[k], c) /\ down[k].type = "ACK"

Undisturbed == nopbuf = 0 /\ ~misread

HoldsOwn(c) == Undisturbed /\ Granted(c) =>
                  /\ client[c].addr \in Entries /\ entries[client[c].addr] = c
                  /\ \A n \in 1 .. Len(up) : Of(up[n], c) => Now(up[n], c)

Session(c) == InOrder(c) /\ AsksForOwn(c) /\ HoldsOwn(c)

SessionInv == \A c \in Clients : Session(c)

\* A queue that loses its head, and one that gets a message at its end.
LEMMA TailOf ==
    ASSUME NEW S, NEW q \in Seq(S), q # <<>>
    PROVE  /\ Tail(q) \in Seq(S) /\ Head(q) = q[1] /\ Head(q) \in S
           /\ Len(q) \in Nat \ {0} /\ Len(Tail(q)) = Len(q) - 1
           /\ \A n \in 1 .. Len(Tail(q)) : Tail(q)[n] = q[n + 1]
OBVIOUS

LEMMA AppendOf ==
    ASSUME NEW S, NEW q \in Seq(S), NEW m \in S
    PROVE  /\ Append(q, m) \in Seq(S)
           /\ Len(q) \in Nat /\ Len(Append(q, m)) = Len(q) + 1
           /\ Append(q, m)[Len(q) + 1] = m
           /\ \A n \in 1 .. Len(q) : Append(q, m)[n] = q[n]
OBVIOUS

\* There is a transaction id that no message under way carries: the link holds fewer
\* messages than there are ids.
LEMMA FreshXidIsFresh ==
    ASSUME TypeOK, LinkFree, NEW c
    PROVE  /\ FreshXid(c) \in Xid
           /\ \A n \in 1 .. Len(up) : up[n].chaddr = c => up[n].xid # FreshXid(c)
           /\ \A k \in 1 .. Len(down) : down[k].chaddr = c => down[k].xid # FreshXid(c)
<1> DEFINE places == 1 .. Len(up) + Len(down)
           at(i) == IF i <= Len(up) THEN up[i].xid ELSE down[i - Len(up)].xid
           f == [x \in Xid |-> CHOOSE i \in places : at(i) = x]
           used(x) == \E i \in places : at(i) = x
<1>1. Len(up) \in Nat /\ Len(down) \in Nat /\ MaxInFlight \in Nat
  BY EnvAssumption DEF TypeOK
<1>2. \E x \in Xid : ~used(x)
  <2> SUFFICES ASSUME \A x \in Xid : used(x)
               PROVE  FALSE
    OBVIOUS
  <2>1. \A x \in Xid : f[x] \in places /\ at(f[x]) = x
    OBVIOUS
  <2>2. f \in [Xid -> places]
    BY <2>1
  <2>3. IsFiniteSet(Xid) /\ Cardinality(Xid) = MaxInFlight + 1
    <3>0. 0 \in Int /\ MaxInFlight \in Int
      BY <1>1
    <3>1. /\ IsFiniteSet(0 .. MaxInFlight)
          /\ Cardinality(0 .. MaxInFlight)
               = IF 0 > MaxInFlight THEN 0 ELSE MaxInFlight - 0 + 1
      BY <3>0, FS_Interval, Zenon
    <3>. QED  BY <1>1, <3>1 DEF Xid
  <2>4. IsFiniteSet(places) /\ Cardinality(places) = Len(up) + Len(down)
    <3>1. ASSUME NEW b \in Nat
          PROVE  IsFiniteSet(1 .. b) /\ Cardinality(1 .. b) = b
      <4>1. 1 \in Int /\ b \in Int
        OBVIOUS
      <4>2. /\ IsFiniteSet(1 .. b)
            /\ Cardinality(1 .. b) = IF 1 > b THEN 0 ELSE b - 1 + 1
        BY <4>1, FS_Interval, Zenon
      <4>. QED  BY <4>2
    <3>2. /\ Len(up) + Len(down) \in Nat
          /\ \A b \in Nat : IsFiniteSet(1 .. b) /\ Cardinality(1 .. b) = b
      BY <1>1, <3>1
    <3>. QED  BY <1>1, <3>2
  <2>5. Cardinality(places) < Cardinality(Xid)
    BY <1>1, <2>3, <2>4 DEF LinkFree
  <2> HIDE DEF f, at, places, used
  <2>6. \E x, y \in Xid : x # y /\ f[x] = f[y]
    BY <2>2, <2>3, <2>4, <2>5, FS_PigeonHole
  <2>. QED  BY <2>1, <2>6
<1>3. PICK x \in Xid : ~used(x)
  BY <1>2
<1>4. \A n \in 1 .. Len(up) : up[n].xid # x
  BY <1>1, <1>3
<1>5. \A k \in 1 .. Len(down) : down[k].xid # x
  <2>1. \A k \in 1 .. Len(down) : Len(up) + k \in places /\ at(Len(up) + k) = down[k].xid
    BY <1>1
  <2>. QED  BY <1>3, <2>1
<1>6. DOMAIN up = 1 .. Len(up) /\ DOMAIN down = 1 .. Len(down)
  BY DEF TypeOK
<1> HIDE DEF used
<1>. QED  BY <1>3, <1>4, <1>5, <1>6 DEF FreshXid

\* The address search finds the first of the entries it accepts.
LEMMA FirstIsIn ==
    ASSUME NEW S \in SUBSET Entries, S # {}
    PROVE  First(S) \in S
<1> DEFINE R == OpToRel(<, Nat)
<1>1. IsWellFoundedOn(R, Nat)
  BY NatLessThanWellFounded
<1>2. \A x, y \in Nat : <<y, x>> \in R <=> y < x
  BY DEF OpToRel
<1>3. S \subseteq Nat
  BY PoolAssumption DEF Entries
<1> HIDE DEF R
<1>4. PICK x \in S : \A y \in S : ~ (<<y, x>> \in R)
  BY <1>1, <1>3, WFMin
<1>5. \A y \in S : x <= y
  <2>1. \A y \in S : ~(y < x)
    BY <1>2, <1>3, <1>4
  <2>. QED  BY <1>3, <2>1
<1>. QED  BY <1>5 DEF First

\* A message of a client is a message.
LEMMA AskSends ==
    ASSUME TypeOK, NEW type \in {"DISCOVER", "REQUEST"}, NEW c \in Clients,
           NEW xid \in Xid, NEW ip \in Address \cup {NONE}, Ask(type, c, xid, ip)
    PROVE  \E m \in Request : /\ m.type = type /\ m.chaddr = c /\ m.xid = xid
                              /\ m.ip = ip /\ up' = Append(up, m)
<1>1. PICK shape \in Shapes :
         up' = Append(up, [type |-> type, chaddr |-> c, xid |-> xid, ip |-> ip,
                           shape |-> shape])
  BY DEF Ask
<1> DEFINE m == [type |-> type, chaddr |-> c, xid |-> xid, ip |-> ip, shape |-> shape]
<1>2. shape \in {"short", "long", "late"}
  BY <1>1, EnvAssumption
<1>3. m \in Request /\ m.type = type /\ m.chaddr = c /\ m.xid = xid /\ m.ip = ip
  BY <1>2 DEF Request
<1>. QED  BY <1>1, <1>3

LEMMA ServerTypes == TypeOK /\ udp_recv_proc => TypeOK'
<1> SUFFICES ASSUME TypeOK, udp_recv_proc
             PROVE  TypeOK'
  OBVIOUS
<1> DEFINE m == Head(up)
           Macs == Clients \cup {VACANT}
<1>1. m \in Request /\ up' \in Seq(Request)
  BY TailOf DEF TypeOK, udp_recv_proc
<1>2. TailAfter(m) \in Address \cup {NONE} /\ find_dhcp_option(m) \in Address \cup {NONE}
  BY <1>1 DEF TailAfter, find_dhcp_option, TypeOK, Request
<1>3. client' = client /\ UNCHANGED <<losses, reboots, hurries>> /\ misread' \in BOOLEAN
  BY DEF udp_recv_proc, TypeOK
<1> HIDE DEF m
<1>4. ASSUME NEW type \in {"OFFER", "ACK"}, NEW ip \in Entries, Send(m, type, ip)
      PROVE  down' \in Seq(Reply) /\ nopbuf' \in Nat
  <2> DEFINE r == [type |-> type, chaddr |-> m.chaddr, xid |-> m.xid, yiaddr |-> ip]
  <2>1. r \in Reply
    BY <1>1 DEF Request, Reply
  <2>2. down' = Append(down, r)
    BY <1>4 DEF Send
  <2> HIDE DEF r
  <2>. QED  BY <1>4, <2>1, <2>2, AppendOf DEF TypeOK, Send
<1>5. ASSUME NoPbuf
      PROVE  down' \in Seq(Reply) /\ nopbuf' \in Nat
  BY <1>5 DEF NoPbuf, TypeOK
<1>6. CASE Discover(m)
  <2> DEFINE held == entry_by_mac(entries, m.chaddr)
             entry == IF held # {} THEN held ELSE vacant_address(entries)
  <2>1. entry \subseteq Entries
    BY DEF entry_by_mac, vacant_address
  <2>2. entries' \in [Entries -> Macs] /\ tail' \in Address \cup {NONE}
    BY <1>2, <1>6 DEF Discover, TypeOK
  <2>3. \/ UNCHANGED <<down, nopbuf>>
        \/ entry # {} /\ Send(m, "OFFER", First(entry))
        \/ NoPbuf
    BY <1>6 DEF Discover
  <2>4. entry # {} => First(entry) \in Entries
    BY <2>1, FirstIsIn
  <2> HIDE DEF entry
  <2>5. down' \in Seq(Reply) /\ nopbuf' \in Nat
    BY <1>4, <1>5, <2>3, <2>4 DEF TypeOK
  <2>. QED  BY <1>1, <1>3, <2>2, <2>5 DEF TypeOK
<1>7. CASE RequestLease(m)
  <2> DEFINE table == free_entry(entries, m.chaddr)
             ip == find_dhcp_option(m)
  <2>1. table \in [Entries -> Macs]
    BY DEF free_entry, TypeOK
  <2>2. m.chaddr \in Clients
    BY <1>1 DEF Request
  <2> HIDE DEF table
  <2>3. \/ Refuse(m, entries) \/ Refuse(m, table)
        \/ ip \in Entries /\ Register(m, table, ip)
    BY <1>7 DEF RequestLease, table
  <2> HIDE DEF ip
  <2>4. entries' \in [Entries -> Macs] /\ tail' \in Address \cup {NONE}
    BY <1>2, <2>1, <2>2, <2>3 DEF Refuse, Register, TypeOK
  <2>5. down' \in Seq(Reply) /\ nopbuf' \in Nat
    BY <1>4, <1>5, <2>3 DEF Refuse, Register, TypeOK
  <2>. QED  BY <1>1, <1>3, <2>4, <2>5 DEF TypeOK
<1>. QED  BY <1>6, <1>7 DEF udp_recv_proc, m

\* What the clients do keeps the types: an asking client has a transaction id and an
\* address, or none yet.
LEMMA AskTypes ==
    ASSUME TypeOK, NEW type \in {"DISCOVER", "REQUEST"}, NEW c \in Clients,
           NEW xid \in Xid, NEW ip \in Address \cup {NONE}, Ask(type, c, xid, ip)
    PROVE  up' \in Seq(Request)
<1>1. PICK m \in Request : up' = Append(up, m)
  BY AskSends
<1>2. up \in Seq(Request)
  BY DEF TypeOK
<1>. QED  BY <1>1, <1>2, AppendOf

LEMMA ClientTypes ==
    ASSUME TypeOK, NEW c \in Clients,
           \/ ClientDiscovers(c) \/ ClientRepeats(c) \/ ClientRenews(c) \/ ClientReboots(c)
    PROVE  TypeOK'
<1>0. client[c].xid \in Xid /\ client[c].addr \in Address \cup {NONE}
  BY DEF TypeOK
<1>1. CASE ClientDiscovers(c)
  <2>1. FreshXid(c) \in Xid
    BY <1>1, FreshXidIsFresh DEF ClientDiscovers, TimeOut
  <2>2. up' \in Seq(Request)
    BY <1>1, <2>1, AskTypes DEF ClientDiscovers
  <2>3. hurries' \in Nat
    BY <1>1 DEF ClientDiscovers, TimeOut, TypeOK
  <2>. QED  BY <1>1, <2>1, <2>2, <2>3 DEF ClientDiscovers, TypeOK
<1>2. CASE ClientRepeats(c)
  <2>1. up' \in Seq(Request)
    BY <1>0, <1>2, AskTypes DEF ClientRepeats
  <2>2. hurries' \in Nat
    BY <1>2 DEF ClientRepeats, TimeOut, TypeOK
  <2>. QED  BY <1>2, <2>1, <2>2 DEF ClientRepeats, TypeOK
<1>3. CASE ClientRenews(c)
  <2>1. up' \in Seq(Request)
    BY <1>0, <1>3, AskTypes DEF ClientRenews
  <2>2. hurries' \in Nat
    BY <1>3 DEF ClientRenews, TimeOut, TypeOK
  <2>. QED  BY <1>3, <2>1, <2>2 DEF ClientRenews, TypeOK
<1>4. CASE ClientReboots(c)
  <2>1. FreshXid(c) \in Xid
    BY <1>4, FreshXidIsFresh DEF ClientReboots
  <2>2. PICK ip \in Address :
           /\ Ask("REQUEST", c, FreshXid(c), ip)
           /\ client' = [client EXCEPT ![c] = [state |-> "requesting", addr |-> ip,
                                               xid |-> FreshXid(c)]]
    BY <1>4 DEF ClientReboots
  <2>3. up' \in Seq(Request)
    BY <2>1, <2>2, AskTypes
  <2>. QED  BY <1>4, <2>1, <2>2, <2>3 DEF ClientReboots, TypeOK
<1>. QED  BY <1>1, <1>2, <1>3, <1>4

LEMMA ReceiveTypes == TypeOK /\ ClientReceives => TypeOK'
<1> SUFFICES ASSUME TypeOK, ClientReceives
             PROVE  TypeOK'
  OBVIOUS
<1> DEFINE m == Head(down)
<1>1. m \in Reply /\ down' \in Seq(Reply)
  BY TailOf DEF TypeOK, ClientReceives
<1>2. UNCHANGED <<entries, tail, bounds, misread>>
  BY DEF ClientReceives
<1>3. \/ /\ client' = [client EXCEPT ![m.chaddr] = [state |-> "requesting",
                                          addr |-> m.yiaddr, xid |-> m.xid]]
         /\ Ask("REQUEST", m.chaddr, m.xid, m.yiaddr)
      \/ /\ client' = [client EXCEPT ![m.chaddr].state = "bound"]
         /\ UNCHANGED up
      \/ UNCHANGED <<client, up>>
  BY DEF ClientReceives
<1> HIDE DEF m
<1>4. m.chaddr \in Clients /\ m.xid \in Xid /\ m.yiaddr \in Entries
  BY <1>1 DEF Reply
<1>5. up' \in Seq(Request)
  BY <1>3, <1>4, AskTypes DEF TypeOK, Address
<1>6. client' \in [Clients -> [state : {"init", "selecting", "requesting", "bound"},
                               addr : Address \cup {NONE}, xid : Xid]]
  BY <1>3, <1>4 DEF TypeOK, Address
<1>. QED  BY <1>1, <1>2, <1>5, <1>6 DEF TypeOK, bounds

LEMMA DhcpTypeStep == TypeOK /\ [Next]_vars => TypeOK'
<1> SUFFICES ASSUME TypeOK, [Next]_vars
             PROVE  TypeOK'
  OBVIOUS
<1>1. CASE Lose
  <2>1. up' \in Seq(Request) /\ down' \in Seq(Reply)
    <3>1. up \in Seq(Request) /\ down \in Seq(Reply)
      BY DEF TypeOK
    <3>2. /\ up # <<>> => Tail(up) \in Seq(Request)
          /\ down # <<>> => Tail(down) \in Seq(Reply)
      BY <3>1, TailOf
    <3>. QED  BY <1>1, <3>1, <3>2 DEF Lose
  <2>. QED  BY <1>1, <2>1 DEF Lose, TypeOK
<1>2. CASE UNCHANGED vars
  BY <1>2 DEF vars, bounds, TypeOK
<1>. QED  BY <1>1, <1>2, ServerTypes, ReceiveTypes, ClientTypes DEF Next

\* A message of c that belongs to its transaction and asks for nothing but its address.
Own(m, c) == Of(m, c) =>
                /\ Now(m, c)
                /\ m.type = "REQUEST" => /\ m.ip \in {client[c].addr, NONE}
                                         /\ client[c].state \in {"requesting", "bound"}

\* The link to the server lost its first s messages (none or one), and what came to its
\* end is such a message of c, or somebody else's.
UpMoves(s, c) == /\ s \in {0, 1} /\ Len(up') \in Nat
                 /\ \A n \in 1 .. Len(up') :
                       \/ n + s <= Len(up) /\ up'[n] = up[n + s]
                       \/ n = Len(up') /\ Own(up'[n], c)

\* The link to the clients got nothing.
DownMoves == \A k \in 1 .. Len(down') : \E j \in 1 .. Len(down) : down'[k] = down[j]

\* How the links move when a message leaves and when one comes.
LEMMA LinksMove ==
    ASSUME TypeOK, NEW c
    PROVE  /\ UNCHANGED up => UpMoves(0, c)
           /\ up # <<>> /\ up' = Tail(up) => UpMoves(1, c)
           /\ \A m \in Request : up' = Append(up, m) /\ Own(m, c) => UpMoves(0, c)
           /\ UNCHANGED down => DownMoves
           /\ down # <<>> /\ down' = Tail(down) => DownMoves
<1>0. up \in Seq(Request) /\ down \in Seq(Reply)
  BY DEF TypeOK
<1>1. UNCHANGED up => UpMoves(0, c)
  BY <1>0 DEF UpMoves
<1>2. up # <<>> /\ up' = Tail(up) => UpMoves(1, c)
  BY <1>0, TailOf DEF UpMoves
<1>3. ASSUME NEW m \in Request, up' = Append(up, m), Own(m, c)
      PROVE  UpMoves(0, c)
  <2>1. /\ Len(up) \in Nat /\ Len(up') = Len(up) + 1 /\ up'[Len(up) + 1] = m
        /\ \A n \in 1 .. Len(up) : up'[n] = up[n]
    BY <1>0, <1>3, AppendOf
  <2>. QED  BY <1>3, <2>1 DEF UpMoves
<1>4. UNCHANGED down => DownMoves
  BY DEF DownMoves
<1>5. down # <<>> /\ down' = Tail(down) => DownMoves
  <2> SUFFICES ASSUME down # <<>>, down' = Tail(down)
               PROVE  DownMoves
    OBVIOUS
  <2>1. /\ Len(down) \in Nat \ {0} /\ Len(down') = Len(down) - 1
        /\ \A k \in 1 .. Len(down') : down'[k] = down[k + 1]
    BY <1>0, TailOf
  <2>2. \A k \in 1 .. Len(down') : k + 1 \in 1 .. Len(down)
    BY <2>1
  <2>. QED  BY <2>1, <2>2 DEF DownMoves
<1>. QED  BY <1>1, <1>2, <1>3, <1>4, <1>5

\* The order of a client's messages and what they ask for outlive every move of the
\* links that is none of its own doing.
LEMMA OrderKept ==
    ASSUME TypeOK, NEW c, Session(c), client'[c] = client[c], NEW s, UpMoves(s, c)
    PROVE  /\ InOrder(c)'
           /\ \A n \in 1 .. Len(up') : Now(up'[n], c) /\ up'[n].type = "REQUEST" =>
                 /\ up'[n].ip \in {client[c].addr, NONE}
                 /\ client[c].state \in {"requesting", "bound"}
           /\ (\A n \in 1 .. Len(up) : Of(up[n], c) => Now(up[n], c)) =>
                 \A n \in 1 .. Len(up') : Of(up'[n], c) => Now(up'[n], c)
<1>0. Len(up) \in Nat /\ Len(up') \in Nat /\ s \in {0, 1}
  BY DEF TypeOK, UpMoves
<1>1. ASSUME NEW n \in 1 .. Len(up')
      PROVE  \/ n + s \in 1 .. Len(up) /\ up'[n] = up[n + s]
             \/ n = Len(up') /\ Own(up'[n], c)
  BY <1>0 DEF UpMoves
<1>2. ASSUME NEW n \in 1 .. Len(up'), NEW k \in 1 .. Len(up'), n < k,
             Of(up'[k], c), Now(up'[n], c)
      PROVE  Now(up'[k], c)
  <2>1. CASE k = Len(up') /\ Own(up'[k], c)
    BY <1>2, <2>1 DEF Own
  <2>2. CASE k + s \in 1 .. Len(up) /\ up'[k] = up[k + s]
    <3>1. n + s \in 1 .. Len(up) /\ up'[n] = up[n + s] /\ n + s < k + s
      BY <1>0, <1>1, <1>2, <2>2
    <3>. QED  BY <1>2, <2>2, <3>1 DEF Session, InOrder
  <2>. QED  BY <1>1, <2>1, <2>2
<1>3. InOrder(c)'
  BY <1>2 DEF InOrder, Of, Now
<1>4. \A n \in 1 .. Len(up') : Now(up'[n], c) /\ up'[n].type = "REQUEST" =>
         /\ up'[n].ip \in {client[c].addr, NONE}
         /\ client[c].state \in {"requesting", "bound"}
  BY <1>1 DEF Own, Now, Of, Session, AsksForOwn
<1>5. (\A n \in 1 .. Len(up) : Of(up[n], c) => Now(up[n], c)) =>
         \A n \in 1 .. Len(up') : Of(up'[n], c) => Now(up'[n], c)
  BY <1>1 DEF Own
<1>. QED  BY <1>3, <1>4, <1>5

\* A step that is none of the client's doing and leaves the table alone.
LEMMA SessionKept ==
    ASSUME TypeOK, NEW c \in Clients, Session(c), client'[c] = client[c],
           UNCHANGED <<entries, nopbuf, misread>>, NEW s, UpMoves(s, c), DownMoves
    PROVE  Session(c)'
<1>1. \A k \in 1 .. Len(down') : \E j \in 1 .. Len(down) : down'[k] = down[j]
  BY DEF DownMoves
<1>2. AsksForOwn(c)'
  BY <1>1, OrderKept DEF AsksForOwn, Session, Now
<1>3. Granted(c)' => Granted(c)
  BY <1>1 DEF Granted, Now
<1>4. HoldsOwn(c)'
  BY <1>3, OrderKept DEF HoldsOwn, Session, Undisturbed, Now, Of
<1>. QED  BY <1>2, <1>4, OrderKept DEF Session

\* What udp_recv_proc answers: nothing, or one reply in the transaction of the message,
\* an ACK only for a request whose address it registers.
LEMMA Answer ==
    ASSUME TypeOK, LeaseInv, udp_recv_proc, Undisturbed'
    PROVE  LET m == Head(up)
               a == m.ip
               table == free_entry(entries, m.chaddr)
           IN  /\ Undisturbed
               /\ \/ /\ \/ UNCHANGED down
                        \/ \E r : down' = Append(down, r) /\ r \in Reply /\ r.type = "OFFER"
                     /\ UNCHANGED entries
                  \/ /\ m.type = "REQUEST" /\ a # NONE
                     /\ a = Foreign \/ (a \in Entries /\ ~is_vacant(table, a))
                     /\ UNCHANGED down /\ entries' = table
                  \/ /\ m.type = "REQUEST" /\ a \in Entries /\ is_vacant(table, a)
                     /\ entries' = [table EXCEPT ![a] = m.chaddr]
                     /\ \E r : /\ down' = Append(down, r) /\ r \in Reply
                               /\ r.chaddr = m.chaddr /\ r.xid = m.xid
<1> DEFINE m == Head(up)
           a == m.ip
           table == free_entry(entries, m.chaddr)
<1>1. m \in Request
  BY TailOf DEF TypeOK, udp_recv_proc
<1>2. nopbuf' = 0 /\ ~misread /\ (m.type = "REQUEST" => find_dhcp_option(m) = a)
  BY DEF Undisturbed, udp_recv_proc
<1>3. ~NoPbuf
  BY <1>2 DEF NoPbuf, TypeOK
<1>4. UNCHANGED nopbuf
  BY <1>3 DEF udp_recv_proc, Discover, RequestLease, Refuse, Register, Send
<1>5. Undisturbed
  BY <1>2, <1>4 DEF Undisturbed
<1>6. Discover(m) \/ RequestLease(m)
  BY DEF udp_recv_proc
<1> HIDE DEF m
<1>7. ASSUME NEW type \in {"OFFER", "ACK"}, NEW ip \in Entries, Send(m, type, ip)
      PROVE  \E r : /\ down' = Append(down, r) /\ r \in Reply /\ r.type = type
                    /\ r.chaddr = m.chaddr /\ r.xid = m.xid
  <2> DEFINE r == [type |-> type, chaddr |-> m.chaddr, xid |-> m.xid, yiaddr |-> ip]
  <2>1. r \in Reply /\ r.type = type /\ r.chaddr = m.chaddr /\ r.xid = m.xid
    BY <1>1 DEF Request, Reply
  <2>2. down' = Append(down, r)
    BY <1>7 DEF Send
  <2>. QED  BY <2>1, <2>2
<1>8. CASE Discover(m)
  <2> DEFINE held == entry_by_mac(entries, m.chaddr)
             entry == IF held # {} THEN held ELSE vacant_address(entries)
  <2>1. entry \subseteq Entries
    BY DEF entry_by_mac, vacant_address
  <2>2. \/ UNCHANGED down
        \/ entry # {} /\ Send(m, "OFFER", First(entry))
    BY <1>3, <1>8 DEF Discover
  <2>3. entry # {} => First(entry) \in Entries
    BY <2>1, FirstIsIn
  <2> HIDE DEF entry
  <2>4. \/ UNCHANGED down
        \/ \E r : down' = Append(down, r) /\ r \in Reply /\ r.type = "OFFER"
    BY <1>7, <2>2, <2>3
  <2>5. UNCHANGED entries
    BY <1>8 DEF Discover
  <2>. QED  BY <1>5, <2>4, <2>5 DEF m
<1>9. CASE RequestLease(m)
  <2>1. m.type = "REQUEST" /\ find_dhcp_option(m) = a
    BY <1>2, <1>9 DEF RequestLease
  <2>2. \/ a = NONE /\ Refuse(m, entries)
        \/ a = Foreign /\ Refuse(m, table)
        \/ a \in Entries /\ ~is_vacant(table, a) /\ Refuse(m, table)
        \/ a \in Entries /\ is_vacant(table, a) /\ Register(m, table, a)
    BY <1>9, <2>1 DEF RequestLease
  <2>3. CASE a = NONE /\ Refuse(m, entries)
    BY <1>5, <2>3 DEF Refuse, m
  <2>4. a \in Entries \cup {Foreign} => a # NONE
    BY NoneAssumption, PoolAssumption DEF Entries, Foreign
  <2>5. CASE /\ a = Foreign \/ (a \in Entries /\ ~is_vacant(table, a))
             /\ Refuse(m, table)
    BY <1>5, <2>1, <2>4, <2>5 DEF Refuse, m
  <2>6. CASE a \in Entries /\ is_vacant(table, a) /\ Register(m, table, a)
    <3>1. entries' = [table EXCEPT ![a] = m.chaddr] /\ Send(m, "ACK", a)
      BY <1>3, <2>6 DEF Register
    <3>2. \E r : /\ down' = Append(down, r) /\ r \in Reply
                 /\ r.chaddr = m.chaddr /\ r.xid = m.xid
      BY <1>7, <2>6, <3>1
    <3>. QED  BY <1>5, <2>1, <2>6, <3>1, <3>2 DEF m
  <2>. QED  BY <2>2, <2>3, <2>5, <2>6
<1>. QED  BY <1>6, <1>8, <1>9

\* In any case, disturbed or not, a reply stays in the transaction of its message, and
\* it is an ACK only if that was a request.
LEMMA ReplyOfMessage ==
    ASSUME TypeOK, udp_recv_proc, NEW k \in 1 .. Len(down')
    PROVE  \/ \E j \in 1 .. Len(down) : down'[k] = down[j]
           \/ /\ down'[k].chaddr = Head(up).chaddr /\ down'[k].xid = Head(up).xid
              /\ down'[k].type = "ACK" => Head(up).type = "REQUEST"
<1> DEFINE m == Head(up)
<1>1. PICK type, ip :
         \/ UNCHANGED down
         \/ Send(m, type, ip) /\ (type = "ACK" => m.type = "REQUEST")
  BY DEF udp_recv_proc, Discover, RequestLease, Refuse, Register, NoPbuf
<1>2. CASE UNCHANGED down
  BY <1>2
<1>3. CASE Send(m, type, ip) /\ (type = "ACK" => m.type = "REQUEST")
  <2> DEFINE r == [type |-> type, chaddr |-> m.chaddr, xid |-> m.xid, yiaddr |-> ip]
  <2>1. down' = Append(down, r)
    BY <1>3 DEF Send
  <2>2. r.type = type /\ r.chaddr = m.chaddr /\ r.xid = m.xid
    OBVIOUS
  <2> HIDE DEF r, m
  <2>3. /\ Len(down) \in Nat /\ Len(down') = Len(down) + 1
        /\ down'[Len(down) + 1] = r
        /\ \A n \in 1 .. Len(down) : down'[n] = down[n]
    <3>1. down \in Seq(Reply \cup {r}) /\ r \in Reply \cup {r}
      BY DEF TypeOK
    <3>. QED  BY <2>1, <3>1, AppendOf
  <2>4. CASE k = Len(down) + 1
    BY <1>3, <2>2, <2>3, <2>4 DEF m
  <2>5. CASE k \in 1 .. Len(down)
    BY <2>3, <2>5
  <2>. QED  BY <2>3, <2>4, <2>5
<1>. QED  BY <1>1, <1>2, <1>3

\* The server keeps a client's address in the table while it may use it: what others ask
\* for is freed and registered elsewhere, and its own requests register it again.
LEMMA TableKept ==
    ASSUME TypeOK, LeaseInv, udp_recv_proc, Undisturbed',
           NEW c \in Clients, Session(c), Granted(c)
    PROVE  entries'[client[c].addr] = c
<1> DEFINE m == Head(up)
           a == m.ip
           b == client[c].addr
           table == free_entry(entries, m.chaddr)
<1>1. /\ Undisturbed
      /\ \/ UNCHANGED entries
         \/ /\ m.type = "REQUEST" /\ a # NONE
            /\ a = Foreign \/ (a \in Entries /\ ~is_vacant(table, a))
            /\ entries' = table
         \/ /\ m.type = "REQUEST" /\ a \in Entries /\ is_vacant(table, a)
            /\ entries' = [table EXCEPT ![a] = m.chaddr]
  BY Answer
<1>2. /\ b \in Entries /\ entries[b] = c
      /\ \A n \in 1 .. Len(up) : Of(up[n], c) => Now(up[n], c)
  BY <1>1 DEF Session, HoldsOwn
<1>3. m \in Request /\ m = up[1] /\ 1 \in 1 .. Len(up)
  BY TailOf DEF TypeOK, udp_recv_proc
<1>4. m.chaddr \in Clients /\ m.chaddr # VACANT /\ c # VACANT
  BY <1>3, NoneAssumption DEF Request
<1>5. /\ table = [e \in Entries |-> table[e]]
      /\ \A e \in Entries : table[e] = IF entries[e] = m.chaddr THEN VACANT ELSE entries[e]
  BY <1>4, FreeEntry
<1>6. CASE m.chaddr # c
  <2> HIDE DEF table, m
  <2>1. table[b] = c
    BY <1>2, <1>5, <1>6
  <2>. QED  BY <1>1, <1>2, <1>4, <1>5, <2>1 DEF is_vacant
<1>7. CASE m.chaddr = c /\ m.type = "REQUEST"
  <2>1. a \in {b, NONE}
    BY <1>2, <1>3, <1>7 DEF Of, Session, AsksForOwn
  <2> HIDE DEF table, m
  <2>2. is_vacant(table, b) /\ b # Foreign
    BY <1>2, <1>5, <1>7, PoolAssumption DEF is_vacant, Entries, Foreign
  <2>3. a = NONE => a \notin Entries
    BY NoneAssumption DEF Entries
  <2>. QED  BY <1>1, <1>2, <1>5, <1>7, <2>1, <2>2, <2>3
<1>. QED  BY <1>1, <1>2, <1>6, <1>7

\* When the server acknowledges, the address is in the table and what the client sent in
\* earlier transactions is served: the link keeps the order.
LEMMA ServerSession ==
    ASSUME TypeOK, LeaseInv, udp_recv_proc, NEW c \in Clients, Session(c)
    PROVE  Session(c)'
<1> DEFINE m == Head(up)
           a == m.ip
           table == free_entry(entries, m.chaddr)
<1>0. client' = client /\ up # <<>> /\ up' = Tail(up)
  BY DEF udp_recv_proc
<1>1. UpMoves(1, c)
  BY <1>0, LinksMove
<1>2. /\ m \in Request /\ m = up[1] /\ Len(up) \in Nat \ {0} /\ Len(up') = Len(up) - 1
      /\ \A n \in 1 .. Len(up') : up'[n] = up[n + 1]
  BY <1>0, TailOf DEF TypeOK
<1>3. AsksForOwn(c)'
  <2>1. ASSUME NEW k \in 1 .. Len(down'), Now(down'[k], c), down'[k].type = "ACK"
        PROVE  client[c].state \in {"requesting", "bound"}
    <3>1. CASE \E j \in 1 .. Len(down) : down'[k] = down[j]
      BY <2>1, <3>1 DEF Session, AsksForOwn
    <3>2. CASE /\ down'[k].chaddr = m.chaddr /\ down'[k].xid = m.xid
               /\ m.type = "REQUEST"
      <4>1. Now(up[1], c) /\ up[1].type = "REQUEST" /\ 1 \in 1 .. Len(up)
        BY <1>2, <2>1, <3>2 DEF Now
      <4>. QED  BY <4>1 DEF Session, AsksForOwn
    <3>. QED  BY <2>1, <3>1, <3>2, ReplyOfMessage
  <2>. QED  BY <1>0, <1>1, <2>1, OrderKept DEF AsksForOwn, Now
<1>4. ASSUME Undisturbed', Granted(c)'
      PROVE  /\ client[c].addr \in Entries /\ entries'[client[c].addr] = c
             /\ \A n \in 1 .. Len(up') : Of(up'[n], c) => Now(up'[n], c)
  <2>1. CASE Granted(c)
    <3>1. Undisturbed
      BY <1>4, Answer
    <3>2. /\ client[c].addr \in Entries
          /\ \A n \in 1 .. Len(up) : Of(up[n], c) => Now(up[n], c)
      BY <2>1, <3>1 DEF Session, HoldsOwn
    <3>3. entries'[client[c].addr] = c
      BY <1>4, <2>1, TableKept
    <3>. QED  BY <1>0, <1>1, <3>2, <3>3, OrderKept
  <2>2. CASE ~Granted(c)
    <3>1. PICK k \in 1 .. Len(down') : Now(down'[k], c) /\ down'[k].type = "ACK"
      BY <1>0, <1>4, <2>2 DEF Granted, Now
    <3>2. ~ \E j \in 1 .. Len(down) : down'[k] = down[j]
      BY <2>2, <3>1 DEF Granted
    <3>3. m.chaddr = c /\ m.xid = client[c].xid /\ m.type = "REQUEST"
      BY <3>1, <3>2, ReplyOfMessage DEF Now
    <3>4. 1 \in 1 .. Len(up) /\ Now(up[1], c) /\ a \in {client[c].addr, NONE}
      BY <1>2, <3>3 DEF Session, AsksForOwn, Now
    <3>5. /\ a \in Entries
          /\ entries' = [table EXCEPT ![a] = m.chaddr]
      <4>1. down' # down
        BY <3>2
      <4>2. ASSUME NEW r \in Reply, down' = Append(down, r), r.type = "OFFER"
            PROVE  FALSE
        <5>1. down \in Seq(Reply)
          BY DEF TypeOK
        <5>2. \/ down'[k] = r
              \/ k \in 1 .. Len(down) /\ down'[k] = down[k]
          BY <4>2, <5>1, AppendOf
        <5>. QED  BY <3>1, <3>2, <4>2, <5>2
      <4>. QED  BY <1>4, <4>1, <4>2, Answer
    <3>6. a = client[c].addr
      BY <3>4, <3>5, NoneAssumption DEF Entries
    <3>7. table = [e \in Entries |-> table[e]]
      BY FreeKeeps
    <3> HIDE DEF table, m
    <3>8. entries'[client[c].addr] = c
      BY <3>3, <3>5, <3>6, <3>7
    <3>9. ASSUME NEW n \in 1 .. Len(up'), Of(up'[n], c)
          PROVE  Now(up'[n], c)
      <4>1. n + 1 \in 1 .. Len(up) /\ 1 < n + 1 /\ up'[n] = up[n + 1]
        BY <1>2
      <4>. QED  BY <3>4, <3>9, <4>1 DEF Session, InOrder
    <3>. QED  BY <3>5, <3>6, <3>8, <3>9
  <2>. QED  BY <2>1, <2>2
<1>5. HoldsOwn(c)'
  BY <1>0, <1>4 DEF HoldsOwn, Of, Now
<1>. QED  BY <1>0, <1>1, <1>3, <1>5, OrderKept DEF Session

\* A client that starts a transaction: nothing of it is under way yet but its message.
LEMMA Starts ==
    ASSUME TypeOK, LinkFree, NEW c \in Clients, NEW m \in Request, m.chaddr = c,
           m.xid = FreshXid(c), up' = Append(up, m), UNCHANGED down,
           NEW state, NEW ip, state # "bound",
           client' = [client EXCEPT ![c] = [state |-> state, addr |-> ip,
                                            xid |-> FreshXid(c)]],
           m.type = "REQUEST" => m.ip = ip /\ state = "requesting"
    PROVE  Session(c)'
<1>0. up \in Seq(Request) /\ client'[c] = [state |-> state, addr |-> ip, xid |-> FreshXid(c)]
  BY DEF TypeOK
<1>1. client'[c].state = state /\ client'[c].addr = ip /\ client'[c].xid = FreshXid(c)
  BY <1>0
<1>2. /\ Len(up) \in Nat /\ Len(up') = Len(up) + 1 /\ up'[Len(up) + 1] = m
      /\ \A n \in 1 .. Len(up) : up'[n] = up[n]
  BY <1>0, AppendOf
<1>3. \A n \in 1 .. Len(up') :
         up'[n].chaddr = c /\ up'[n].xid = client'[c].xid => n = Len(up') /\ up'[n] = m
  BY <1>1, <1>2, FreshXidIsFresh
<1>4. \A k \in 1 .. Len(down') : ~(down'[k].chaddr = c /\ down'[k].xid = client'[c].xid)
  BY <1>1, FreshXidIsFresh
<1>5. InOrder(c)'
  BY <1>2, <1>3 DEF InOrder, Now, Of
<1>6. AsksForOwn(c)'
  BY <1>1, <1>3, <1>4 DEF AsksForOwn, Now
<1>7. ~Granted(c)'
  BY <1>1, <1>4 DEF Granted, Now
<1>. QED  BY <1>5, <1>6, <1>7 DEF Session, HoldsOwn

LEMMA ClientSession ==
    ASSUME TypeOK, SessionInv, NEW d \in Clients,
           \/ ClientDiscovers(d) \/ ClientRepeats(d) \/ ClientRenews(d) \/ ClientReboots(d)
    PROVE  SessionInv'
<1> SUFFICES ASSUME NEW c \in Clients
             PROVE  Session(c)'
  BY DEF SessionInv
<1>0. /\ Session(c) /\ UNCHANGED <<entries, nopbuf, misread, down>> /\ LinkFree
      /\ DownMoves
  BY LinksMove DEF SessionInv, ClientDiscovers, ClientRepeats, ClientRenews, ClientReboots,
     TimeOut
<1>1. client[d].xid \in Xid /\ client[d].addr \in Address \cup {NONE} /\ FreshXid(d) \in Xid
  BY <1>0, FreshXidIsFresh DEF TypeOK
<1>2. ASSUME NEW m \in Request, up' = Append(up, m), m.chaddr = d, c # d,
             client'[c] = client[c]
      PROVE  Session(c)'
  BY <1>0, <1>2, LinksMove, SessionKept DEF Own, Of
<1>3. CASE ClientDiscovers(d)
  <2>1. PICK m \in Request : /\ m.type = "DISCOVER" /\ m.chaddr = d
                             /\ m.xid = FreshXid(d) /\ up' = Append(up, m)
    BY <1>1, <1>3, AskSends DEF ClientDiscovers
  <2>2. client' = [client EXCEPT ![d] = [state |-> "selecting", addr |-> NONE,
                                         xid |-> FreshXid(d)]]
    BY <1>3 DEF ClientDiscovers
  <2>3. CASE c = d
    BY <1>0, <2>1, <2>2, <2>3, Starts
  <2>4. CASE c # d
    BY <1>2, <2>1, <2>2, <2>4 DEF TypeOK
  <2>. QED  BY <2>3, <2>4
<1>4. CASE ClientReboots(d)
  <2>1. PICK ip \in Address :
           /\ Ask("REQUEST", d, FreshXid(d), ip)
           /\ client' = [client EXCEPT ![d] = [state |-> "requesting", addr |-> ip,
                                               xid |-> FreshXid(d)]]
    BY <1>4 DEF ClientReboots
  <2>2. PICK m \in Request : /\ m.type = "REQUEST" /\ m.chaddr = d /\ m.ip = ip
                             /\ m.xid = FreshXid(d) /\ up' = Append(up, m)
    BY <1>1, <2>1, AskSends
  <2>3. CASE c = d
    BY <1>0, <2>1, <2>2, <2>3, Starts
  <2>4. CASE c # d
    BY <1>2, <2>1, <2>2, <2>4 DEF TypeOK
  <2>. QED  BY <2>3, <2>4
<1>5. CASE ClientRepeats(d) \/ ClientRenews(d)
  <2>1. client' = client /\ client[d].state \in {"requesting", "bound"}
    BY <1>5 DEF ClientRepeats, ClientRenews
  <2>2. PICK m \in Request : /\ m.chaddr = d /\ m.xid = client[d].xid
                             /\ m.ip \in {client[d].addr, NONE} /\ up' = Append(up, m)
    BY <1>1, <1>5, AskSends DEF ClientRepeats, ClientRenews
  <2>3. Own(m, c)
    BY <2>1, <2>2 DEF Own, Of, Now
  <2>. QED  BY <1>0, <2>1, <2>2, <2>3, LinksMove, SessionKept
<1>. QED  BY <1>3, <1>4, <1>5

\* A reply: an offer names the address the client asks for from now on, an ACK of its
\* transaction binds it to the address the server registered when it sent the ACK.
LEMMA ReceiveSession ==
    ASSUME TypeOK, SessionInv, ClientReceives
    PROVE  SessionInv'
<1> DEFINE r == Head(down)
           d == r.chaddr
<1> SUFFICES ASSUME NEW c \in Clients
             PROVE  Session(c)'
  BY DEF SessionInv
<1>0. /\ Session(c) /\ UNCHANGED <<entries, nopbuf, misread>> /\ DownMoves
      /\ r \in Reply /\ r = down[1] /\ 1 \in 1 .. Len(down)
  <2>1. down \in Seq(Reply) /\ down # <<>> /\ down' = Tail(down)
    BY DEF TypeOK, ClientReceives
  <2>2. r \in Reply /\ r = down[1] /\ 1 \in 1 .. Len(down)
    BY <2>1, TailOf
  <2>3. Session(c) /\ UNCHANGED <<entries, nopbuf, misread>>
    BY DEF SessionInv, ClientReceives, bounds
  <2>. QED  BY <2>1, <2>2, <2>3, LinksMove
<1>1. d \in Clients /\ r.xid \in Xid /\ r.yiaddr \in Entries
  BY <1>0 DEF Reply
<1>2. CASE /\ Offered(r)
           /\ client' = [client EXCEPT ![d] = [state |-> "requesting",
                                             addr |-> r.yiaddr, xid |-> r.xid]]
           /\ Ask("REQUEST", d, r.xid, r.yiaddr)
  <2> HIDE DEF r
  <2>1. PICK m \in Request : /\ m.type = "REQUEST" /\ m.chaddr = d /\ m.xid = r.xid
                             /\ m.ip = r.yiaddr /\ up' = Append(up, m)
    BY <1>1, <1>2, AskSends DEF Address
  <2>2. CASE c # d
    <3>1. client'[c] = client[c]
      BY <1>2, <2>2 DEF TypeOK
    <3>2. Own(m, c)
      BY <2>1, <2>2 DEF Own, Of
    <3>. QED  BY <1>0, <2>1, <3>1, <3>2, LinksMove, SessionKept
  <2>3. CASE c = d
    <3>1. client[c].state = "selecting" /\ client[c].xid = r.xid
      BY <1>2, <2>3 DEF Offered
    <3>2. client'[c] = [state |-> "requesting", addr |-> r.yiaddr, xid |-> r.xid]
      BY <1>2, <2>3 DEF TypeOK
    <3>3. /\ client'[c].state = "requesting" /\ client'[c].addr = r.yiaddr
          /\ client'[c].xid = client[c].xid
      BY <3>1, <3>2
    <3>4. /\ Len(up) \in Nat /\ Len(up') = Len(up) + 1 /\ up'[Len(up) + 1] = m
          /\ \A n \in 1 .. Len(up) : up'[n] = up[n]
      BY <2>1, AppendOf DEF TypeOK
    <3>5. InOrder(c)'
      BY <1>0, <2>1, <2>3, <3>1, <3>3, <3>4 DEF InOrder, Session, Now, Of
    <3>6. \A n \in 1 .. Len(up) : ~(Now(up[n], c) /\ up[n].type = "REQUEST")
      BY <1>0, <3>1 DEF Session, AsksForOwn
    <3>7. AsksForOwn(c)'
      BY <2>1, <3>3, <3>4, <3>6 DEF AsksForOwn, Now
    <3>8. \A k \in 1 .. Len(down) : ~(Now(down[k], c) /\ down[k].type = "ACK")
      BY <1>0, <3>1 DEF Session, AsksForOwn
    <3>9. ~Granted(c)'
      BY <1>0, <3>3, <3>8 DEF Granted, DownMoves, Now
    <3>. QED  BY <3>5, <3>7, <3>9 DEF Session, HoldsOwn
  <2>. QED  BY <2>2, <2>3
<1>3. CASE /\ Acknowledged(r)
           /\ client' = [client EXCEPT ![d].state = "bound"]
           /\ UNCHANGED up
  <2> HIDE DEF r
  <2>1. CASE c # d
    <3>1. client'[c] = client[c]
      BY <1>3, <2>1 DEF TypeOK
    <3>. QED  BY <1>0, <1>3, <3>1, LinksMove, SessionKept
  <2>2. CASE c = d
    <3>1. /\ client[c] = [state |-> "requesting", addr |-> r.yiaddr, xid |-> r.xid]
          /\ r.type = "ACK"
      BY <1>3, <2>2 DEF Acknowledged
    <3>2. /\ client'[c].state = "bound" /\ client'[c].addr = client[c].addr
          /\ client'[c].xid = client[c].xid
      BY <1>1, <1>3, <2>2 DEF TypeOK
    <3>3. Granted(c)
      BY <1>0, <2>2, <3>1 DEF Granted, Now
    <3>4. InOrder(c)'
      BY <1>0, <1>3, <3>2 DEF InOrder, Session, Now, Of
    <3>5. AsksForOwn(c)'
      BY <1>0, <1>3, <3>2 DEF AsksForOwn, Session, Now
    <3>6. HoldsOwn(c)'
      BY <1>0, <1>3, <3>2, <3>3 DEF HoldsOwn, Session, Undisturbed, Now, Of
    <3>. QED  BY <3>4, <3>5, <3>6 DEF Session
  <2>. QED  BY <2>1, <2>2
<1>4. CASE UNCHANGED <<client, up>>
  BY <1>0, <1>4, LinksMove, SessionKept
<1>. QED  BY <1>2, <1>3, <1>4 DEF ClientReceives

\* The invariant of the clients' sessions.
BoundInv == TypeOK /\ LeaseInv /\ SessionInv

LEMMA BoundInit == Init => BoundInv
<1> SUFFICES ASSUME Init
             PROVE  BoundInv
  OBVIOUS
<1>1. TypeOK
  <2>1. 0 \in Xid
    BY EnvAssumption DEF Xid
  <2>2. up \in Seq(Request) /\ down \in Seq(Reply)
    BY DEF Init
  <2>. QED  BY <2>1, <2>2 DEF Init, TypeOK
<1>2. LeaseInv
  BY DEF Init, LeaseInv, TableOK, OneLeasePerClient
<1>3. /\ 1 .. Len(up) = {} /\ 1 .. Len(down) = {}
      /\ \A c \in Clients : client[c].state = "init"
  BY DEF Init
<1>4. SessionInv
  BY <1>3 DEF SessionInv, Session, InOrder, AsksForOwn, HoldsOwn, Granted
<1>. QED  BY <1>1, <1>2, <1>4 DEF BoundInv

LEMMA BoundStep == BoundInv /\ [Next]_vars => BoundInv'
<1> SUFFICES ASSUME TypeOK, LeaseInv, SessionInv, [Next]_vars
             PROVE  SessionInv'
  BY DhcpTypeStep, LeaseStep DEF BoundInv
<1>1. CASE udp_recv_proc
  BY <1>1, ServerSession DEF SessionInv
<1>2. CASE Lose \/ UNCHANGED vars
  <2> SUFFICES ASSUME NEW c \in Clients
               PROVE  Session(c)'
    BY DEF SessionInv
  <2>1. UNCHANGED <<client, entries, nopbuf, misread>>
    BY <1>2 DEF Lose, vars, bounds
  <2>2. (UpMoves(0, c) \/ UpMoves(1, c)) /\ DownMoves
    BY <1>2, LinksMove DEF Lose, vars
  <2>. QED  BY <2>1, <2>2, SessionKept DEF SessionInv
<1>3. CASE ClientReceives
  BY <1>3, ReceiveSession
<1>4. CASE \E c \in Clients : \/ ClientDiscovers(c) \/ ClientRepeats(c)
                              \/ ClientRenews(c) \/ ClientReboots(c)
  BY <1>4, ClientSession
<1>. QED  BY <1>1, <1>2, <1>3, <1>4 DEF Next

\* A client that got its ACK is the one the table names for its address, so no two
\* clients use one address: no message of anybody, no retransmission and no answer to an
\* earlier transaction makes udp_recv_proc take the address away under a client that
\* uses it, as long as replies get a pbuf and no option is read from an old message.
THEOREM DhcpBoundIsRegistered == Spec => []BoundIsRegistered
<1>1. BoundInv => BoundIsRegistered
  BY DEF BoundInv, BoundIsRegistered, SessionInv, Session, HoldsOwn, Granted, Undisturbed
<1>. QED  BY <1>1, BoundInit, BoundStep, PTL DEF Spec
=============================================================================
