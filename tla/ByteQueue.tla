----------------------------- MODULE ByteQueue -----------------------------
(***************************************************************************)
(* What a RingBuffer promises its users: a bounded first-in first-out      *)
(* queue of bytes.  A byte is its number in the stream, 1, 2, 3, ..., so   *)
(* the queue holds the bytes taken+1 .. put, and a byte that is lost,      *)
(* repeated or moved is told from the one that was expected.               *)
(***************************************************************************)
EXTENDS Integers

CONSTANT Capacity    \* BUF_SIZE - 1

VARIABLES put,       \* how many bytes have gone in
          taken,     \* how many have left
          looked,    \* how many of those held have been looked at
          out        \* the bytes last handed out

qvars == <<put, taken, looked, out>>

Held == put - taken

\* The first n bytes of the queue.
First(n) == [i \in 1..n |-> taken + i]

QInit == put = 0 /\ taken = 0 /\ looked = 0 /\ out = <<>>

Put == /\ \E n \in 1..(Capacity - Held) : put' = put + n
       /\ UNCHANGED <<taken, looked, out>>

\* The first bytes are handed out and stay: a peek, or a send under way.
Look == /\ \E n \in 0..Held : out' = First(n) /\ looked' = n
        /\ UNCHANGED <<put, taken>>

\* Bytes leave that were looked at before, no others.
Drop == /\ looked > 0
        /\ taken' = taken + looked /\ looked' = 0
        /\ UNCHANGED <<put, out>>

\* The first bytes are handed out and leave.
Get == /\ \E n \in 0..Held : out' = First(n) /\ taken' = taken + n
       /\ looked' = 0
       /\ UNCHANGED put

\* All bytes leave.
Clear == taken' = put /\ looked' = 0 /\ UNCHANGED <<put, out>>

QNext == Put \/ Look \/ Drop \/ Get \/ Clear

QSpec == QInit /\ [][QNext]_qvars
=============================================================================
