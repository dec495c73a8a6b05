------------------------------ MODULE Dnserver ------------------------------
(***************************************************************************)
(* The DNS server's parser, dnserver.c, and what it is to compute.  A      *)
(* message is the sequence of bytes behind the header; what the header     *)
(* says is a name (HeaderKinds).                                           *)
(***************************************************************************)
EXTENDS Integers, Sequences

CONSTANTS
    DNS_MAX_HOST_NAME_LEN,  \* bytes in query.name (128)
    KnownNames              \* what dns_query_proc answers: "run.stm", "www.run.stm"

ASSUME NameAssumption == /\ DNS_MAX_HOST_NAME_LEN \in Nat
                         /\ KnownNames \subseteq Seq(Nat)

DOT == 46

\* A query, a reply (qr set), a message with another number of questions.
HeaderKinds == {"query", "reply", "questions"}

(***************************************************************************)
(* parse_next_query: the loop over the labels, as a function of its        *)
(* locals.  at is the number of bytes read.  The result has the return     *)
(* value and the name buffer up to the terminating zero.                   *)
(***************************************************************************)
Failed(code, name) == [ret |-> code, name |-> name]

\* Mutant: the place of the terminating zero is not provided for.
LabelFits_NoZero(len, lable_len) == len + lable_len <= DNS_MAX_HOST_NAME_LEN

\* The label and a zero behind it fit the name buffer.
LabelFits(len, lable_len) == len + lable_len < DNS_MAX_HOST_NAME_LEN

\* The dot in front of every label but the first.
Dotted(name, lables) == IF lables > 0 THEN Append(name, DOT) ELSE name

parse_next_query(msg) ==
    LET parse[at \in 0 .. Len(msg), lables \in Nat, name \in Seq(Nat)] ==
          IF at = Len(msg) THEN Failed(-1, name)
          ELSE LET lable_len == msg[at + 1]
                   dotted == Dotted(name, lables)
               IN  IF lable_len = 0
                     THEN IF Len(msg) - at - 1 < 4 THEN Failed(-1, name)
                          ELSE [ret |-> at + 5, name |-> name]
                   ELSE IF lables > 0 /\ Len(name) = DNS_MAX_HOST_NAME_LEN
                     THEN Failed(-2, name)
                   ELSE IF lable_len > Len(msg) - at - 1 THEN Failed(-1, dotted)
                   ELSE IF ~LabelFits(Len(dotted), lable_len) THEN Failed(-2, dotted)
                   ELSE parse[at + 1 + lable_len, lables + 1,
                              dotted \o SubSeq(msg, at + 2, at + 1 + lable_len)]
    IN  parse[0, 0, <<>>]

\* A C string: the bytes before the first zero.
CString(name) == LET zeros == {i \in DOMAIN name : name[i] = 0}
                 IN  IF zeros = {} THEN name
                     ELSE SubSeq(name, 1, (CHOOSE i \in zeros : \A j \in zeros : i <= j) - 1)

\* dns_query_proc compares with strcmp.
dns_query_proc(name) == CString(name) \in KnownNames

-----------------------------------------------------------------------------
(***************************************************************************)
(* The reference: offsets C where the lengths of the labels stand, each    *)
(* one label behind the one before it, and e, the last, where a zero ends  *)
(* the name; four bytes of type and class follow.                          *)
(***************************************************************************)
IsQuestion(msg, C, e) ==
    /\ {0, e} \subseteq C
    /\ msg[e + 1] = 0 /\ Len(msg) >= e + 5
    /\ \A c \in C \ {e} : msg[c + 1] > 0 /\ c + 1 + msg[c + 1] \in C
    /\ \A c \in C \ {0} : \E b \in C : b < c /\ c = b + 1 + msg[b + 1]

\* The bytes of the name in msg, a dot in the place of each length but the first.
NameIn(msg, C, e) == [j \in 1 .. (IF e = 0 THEN 0 ELSE e - 1) |->
                         IF j \in C THEN DOT ELSE msg[j + 1]]

\* The names msg begins with a question for, and the bytes the question takes.
Questions(msg) ==
    LET Offsets == 0 .. Len(msg) - 5
    IN  UNION {{<<NameIn(msg, C, e), e + 5>> : e \in {e \in C : IsQuestion(msg, C, e)}} :
                  C \in SUBSET Offsets}
=============================================================================
