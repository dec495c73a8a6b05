---------------------------- MODULE FrameMailbox ----------------------------
(***************************************************************************)
(* What a loss-free direction of the ECM link promises: a mailbox for one  *)
(* Ethernet frame.  Frames are numbered by their sender; each one enters   *)
(* the mailbox whole, is taken out whole, exactly once and in the order    *)
(* of their numbers, and no frame enters before the last one was taken.    *)
(***************************************************************************)
EXTENDS Naturals, Sequences

CONSTANTS FrameLens,  \* the lengths a frame may have
          NULL

VARIABLES next,       \* the number of the next frame to enter
          mailbox,    \* the frame in the mailbox, or NULL
          taken       \* the number of frames taken out

vars == <<next, mailbox, taken>>

\* Byte i of frame id is the pair <<id, i>>.
Frame(id, len) == [i \in 1 .. len |-> <<id, i>>]

Init == next = 1 /\ mailbox = NULL /\ taken = 0

Put == /\ mailbox = NULL
       /\ \E len \in FrameLens : mailbox' = Frame(next, len)
       /\ next' = next + 1
       /\ UNCHANGED taken

Take == /\ mailbox # NULL
        /\ mailbox' = NULL
        /\ taken' = taken + 1
        /\ UNCHANGED next

Next == Put \/ Take

Spec == Init /\ [][Next]_vars
=============================================================================
