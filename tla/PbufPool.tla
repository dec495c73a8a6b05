------------------------------ MODULE PbufPool ------------------------------
(***************************************************************************)
(* lwIP's pool of packet buffers: memp.c and pbuf.c, with the protection   *)
(* macros empty (NO_SYS).  An element's first word is memp->next while it  *)
(* is free and pbuf->next while it is in use, so nxt is one variable; a    *)
(* free element keeps the reference count it was freed with.  A received   *)
(* frame and a reply fit one element (PBUF_POOL_BUFSIZE is 1514 and more); *)
(* chains come from pbuf_cat alone.                                        *)
(*                                                                         *)
(* The interrupt's pbuf_alloc is one step.  The main loop's calls are cut  *)
(* between their accesses to the list: pc is the next step, after the step *)
(* that follows the call.                                                  *)
(***************************************************************************)
EXTENDS Integers

CONSTANTS
    PBUF_POOL_SIZE,  \* elements of the pool (16)
    REFS             \* 2^16: values of the reference count

ASSUME SizeAssumption == PBUF_POOL_SIZE \in Nat \ {0} /\ REFS \in Nat /\ REFS > 2

Pbufs == 1 .. PBUF_POOL_SIZE

NULL == 0

VARIABLES
    memp_tab,   \* memp_tab[MEMP_PBUF_POOL], the first free element
    nxt, ref,   \* the first word and the reference count of each element
    p, q,       \* locals of pbuf_free, memp_free and memp_malloc
    pc, after

pool == <<memp_tab, nxt, ref>>
call == <<p, q, pc, after>>

Pointer == Pbufs \cup {NULL}

PoolSteps == {"free", "link", "head", "alloc", "unlink"}

PoolTypeOK ==
    /\ {memp_tab, p, q} \subseteq Pointer
    /\ nxt \in [Pbufs -> Pointer]
    /\ ref \in [Pbufs -> 0 .. REFS - 1]

\* memp_init puts one element after the other into the list.
PoolInit ==
    /\ memp_tab = PBUF_POOL_SIZE
    /\ nxt = [a \in Pbufs |-> a - 1]
    /\ ref = [a \in Pbufs |-> 0]
    /\ p = NULL /\ q = NULL

\* The elements reached from a along next, a included.
Reached(next, a) ==
    LET reach[n \in Nat] ==
            IF n = 0 THEN {a} \ {NULL}
            ELSE reach[n - 1] \cup ({next[b] : b \in reach[n - 1]} \ {NULL})
    IN  reach[PBUF_POOL_SIZE]

\* The walk along next from a comes to an end.
Ends(next, a) == a = NULL \/ \E b \in Reached(next, a) : next[b] = NULL

-----------------------------------------------------------------------------
\* pbuf_alloc(PBUF_RAW, ., PBUF_POOL) in the interrupt, memp_malloc included, if the
\* list is not empty.
IsrTakesHead ==
    /\ memp_tab' = nxt[memp_tab]
    /\ nxt' = [nxt EXCEPT ![memp_tab] = NULL]
    /\ ref' = [ref EXCEPT ![memp_tab] = 1]

\* The main loop calls pbuf_free(a) and goes on at k.
pbuf_free(a, k) == pc' = "free" /\ p' = a /\ after' = k /\ UNCHANGED q

\* pbuf_free: the reference of its caller is gone; the assertion that there was one
\* is compiled to nothing (LWIP_PLATFORM_ASSERT tests its message).
PbufFreeRef ==
    /\ pc = "free"
    /\ ref' = [ref EXCEPT ![p] = (@ - 1) % REFS]
    /\ q' = nxt[p]
    /\ pc' = IF ref'[p] = 0 THEN "link" ELSE after
    /\ UNCHANGED <<memp_tab, nxt, p, after>>

\* memp_free: memp->next = memp_tab[type] ...
MempFreeLink ==
    /\ pc = "link"
    /\ nxt' = [nxt EXCEPT ![p] = memp_tab]
    /\ pc' = "head"
    /\ UNCHANGED <<memp_tab, ref, p, q, after>>

\* ... memp_tab[type] = memp; and on along the chain.
MempFreeHead ==
    /\ pc = "head"
    /\ memp_tab' = p
    /\ p' = q
    /\ pc' = IF q = NULL THEN after ELSE "free"
    /\ UNCHANGED <<nxt, ref, q, after>>

\* The main loop calls pbuf_alloc(., ., PBUF_POOL) and goes on at k, with its result in p.
pbuf_alloc(k) == pc' = "alloc" /\ after' = k /\ UNCHANGED <<p, q>>

\* memp_malloc: memp = memp_tab[type] ...
MempMallocHead ==
    /\ pc = "alloc"
    /\ p' = memp_tab
    /\ pc' = IF memp_tab = NULL THEN after ELSE "unlink"
    /\ UNCHANGED <<pool, q, after>>

\* ... memp_tab[type] = memp->next; and pbuf_alloc fills in the element.
MempMallocUnlink ==
    /\ pc = "unlink"
    /\ memp_tab' = nxt[p]
    /\ nxt' = [nxt EXCEPT ![p] = NULL]
    /\ ref' = [ref EXCEPT ![p] = 1]
    /\ pc' = after
    /\ UNCHANGED <<p, q, after>>

PoolStep == \/ PbufFreeRef \/ MempFreeLink \/ MempFreeHead
            \/ MempMallocHead \/ MempMallocUnlink

\* pbuf_cat: t becomes the end of the chain at h, if the walk to it ends.
pbuf_cat(h, t) ==
    nxt' = [a \in Pbufs |-> IF a \in Reached(nxt, h) /\ nxt[a] = NULL THEN t ELSE nxt[a]]
=============================================================================
