----------------------------- MODULE RingBuffer -----------------------------
(***************************************************************************)
(* RingBuffer.h and RingBuffer.cpp of "22.10.10 - MMO TCPFighter Server",  *)
(* the class behind recv_buf and send_buf of every session, as the servers *)
(* use it.                                                                 *)
(*                                                                         *)
(* Positions are offsets from begin.  One cell is kept empty, so front is  *)
(* the wall of the writer and writePos the wall of the reader.             *)
(*                                                                         *)
(*   "send": send_buf.  One thread at a time is in Enqueue (Send_Packet    *)
(*   holds Session::lock) and one posts and completes the WSASend          *)
(*   (send_flag), but the two run side by side: each reads the position    *)
(*   the other moves, without a lock.  Every such read is a step.          *)
(*   "recv": recv_buf.  recv or WSARecv writes into it, and one thread     *)
(*   takes the bytes out when it has completed.                            *)
(*                                                                         *)
(* The senders with two threads are the IOCP servers: their IOCP_Send      *)
(* ("22.11.17", Remain before Direct) sits on J_LIB's RingBuffer, whose    *)
(* source is not in the repository.  The module runs that caller on the    *)
(* ring that is: the interleavings of the TCPFighter server, which has one *)
(* thread, are among them.                                                 *)
(*                                                                         *)
(* A position that a function uses twice is read once, as an optimised     *)
(* build does.                                                             *)
(***************************************************************************)
EXTENDS Integers

CONSTANTS Size,       \* BUF_SIZE
          MaxBytes,   \* bound: bytes put in
          MaxChunk    \* bound: bytes of one Enqueue

ASSUME SizeAssumption == Size \in Nat /\ Size >= 2
ASSUME BoundsAssumption == MaxBytes \in Nat /\ MaxChunk \in Nat

VARIABLES
  use,                              \* "send" or "recv"
  buf, front, rear, readPos, writePos,
  pAt, size, free, direct, n,       \* Enqueue: statement, size, free_size, direct_size, the part being moved
  cAt, remain, directOut, sent,     \* IOCP_Send: statement, the two lengths, bytes sent
  put, taken, looked, out            \* history: ByteQueue's variables

producer == <<pAt, size, free, direct, n>>
consumer == <<cAt, remain, directOut, sent>>
ringVars == <<use, buf, front, rear, readPos, writePos, producer, consumer,
              put, taken, looked, out>>

Offsets == 0..(Size - 1)

\* MASKING_BIT of an offset below 2 * BUF_SIZE.
Masked(k) == IF k < Size THEN k ELSE k - Size

Least(a, b) == IF a < b THEN a ELSE b

\* Mutant: the wall of the writer is off by one: a full buffer has room.
DirectOverFront == IF front <= writePos THEN Size - writePos
                                        ELSE front - writePos

DirectEnqueueSize == IF front < writePos THEN Size - writePos
                                         ELSE front - writePos
RemainEnqueueSize == IF writePos <= front THEN 0 ELSE front
DirectDequeueSize == IF writePos < readPos THEN Size - readPos
                                           ELSE writePos - readPos
RemainDequeueSize == IF readPos <= writePos THEN 0 ELSE writePos

GetFreeSize == DirectEnqueueSize + RemainEnqueueSize
GetUseSize == DirectDequeueSize + RemainDequeueSize

\* b after memmove of the next k bytes of the stream to offset at.
Written(b, at, first, k) ==
  [i \in Offsets |-> IF at <= i /\ i < at + k THEN first + i - at ELSE b[i]]

\* k bytes from readPos on, and from begin on after the first d.
Gathered(d, k) ==
  [i \in 1..k |-> IF i <= d THEN buf[readPos + i - 1] ELSE buf[i - d - 1]]

RingInit ==
  /\ use \in {"send", "recv"}
  /\ buf = [i \in Offsets |-> 0]
  /\ front = 0 /\ rear = 0 /\ writePos = 1 /\ readPos = 1
  /\ pAt = "idle" /\ size = 0 /\ free = 0 /\ direct = 0 /\ n = 0
  /\ cAt = "idle" /\ remain = 0 /\ directOut = 0 /\ sent = 0
  /\ put = 0 /\ taken = 0 /\ looked = 0 /\ out = <<>>

-----------------------------------------------------------------------------
(* Enqueue, called by Send_Packet *)

EnqueueCalled ==
  /\ use = "send" /\ pAt = "idle"
  /\ \E k \in 1..MaxChunk : put + k <= MaxBytes /\ size' = k
  /\ pAt' = "free"
  /\ UNCHANGED <<use, buf, front, rear, readPos, writePos, free, direct, n,
                 consumer, put, taken, looked, out>>

\* GetFreeSize reads front for the one size and again for the other.
FreeDirect ==
  /\ pAt = "free"
  /\ free' = DirectEnqueueSize
  /\ pAt' = "freeRemain"
  /\ UNCHANGED <<use, buf, front, rear, readPos, writePos, size, direct, n,
                 consumer, put, taken, looked, out>>

FreeRemain ==
  /\ pAt = "freeRemain"
  /\ free' = free + RemainEnqueueSize
  /\ size' = Least(size, free')
  /\ pAt' = "direct"
  /\ UNCHANGED <<use, buf, front, rear, readPos, writePos, direct, n,
                 consumer, put, taken, looked, out>>

\* The part that fits before the end goes first.
DirectRead ==
  /\ pAt = "direct"
  /\ direct' = DirectEnqueueSize
  /\ n' = Least(size, direct')
  /\ pAt' = "copy"
  /\ UNCHANGED <<use, buf, front, rear, readPos, writePos, size, free,
                 consumer, put, taken, looked, out>>

\* MustEnqueue: memmove.
Copy ==
  /\ pAt = "copy"
  /\ buf' = Written(buf, writePos, put + 1, n)
  /\ pAt' = "rear"
  /\ UNCHANGED <<use, front, rear, readPos, writePos, size, free, direct, n,
                 consumer, put, taken, looked, out>>

\* MoveRear: rear.
MoveRear ==
  /\ pAt = "rear"
  /\ rear' = Masked(rear + n)
  /\ pAt' = "write"
  /\ UNCHANGED <<use, buf, front, readPos, writePos, size, free, direct, n,
                 consumer, put, taken, looked, out>>

\* MoveRear: SetWritePos, which shows the bytes to the reader; then the
\* second part, if there is one.
SetWritePos ==
  /\ pAt = "write"
  /\ writePos' = Masked(rear + 1)
  /\ put' = put + n
  /\ size' = size - n
  /\ n' = size'
  /\ pAt' = IF size' = 0 THEN "idle" ELSE "copy"
  /\ UNCHANGED <<use, buf, front, rear, readPos, free, direct, consumer,
                 taken, looked, out>>

-----------------------------------------------------------------------------
(* Post_Send, the WSASend and its completion *)

\* wsaBuf[1] comes first.
PostRemain ==
  /\ use = "send" /\ cAt = "idle"
  /\ remain' = RemainDequeueSize
  /\ cAt' = "direct"
  /\ UNCHANGED <<use, buf, front, rear, readPos, writePos, producer,
                 directOut, sent, put, taken, looked, out>>

PostDirect ==
  /\ cAt = "direct"
  /\ directOut' = DirectDequeueSize
  /\ cAt' = "sending"
  /\ UNCHANGED <<use, buf, front, rear, readPos, writePos, producer, remain,
                 sent, put, taken, looked, out>>

\* The bytes are read from the buffer up to the completion.  A WSASend takes
\* them all; send, on a socket that does not block, may take fewer.  Nothing
\* moves for a send of nothing.
Sent ==
  /\ cAt = "sending"
  /\ IF remain + directOut = 0
       THEN cAt' = "idle" /\ UNCHANGED <<sent, looked, out>>
       ELSE /\ \E k \in 1..(remain + directOut) :
                 sent' = k /\ looked' = k /\ out' = Gathered(directOut, k)
            /\ cAt' = "front"
  /\ UNCHANGED <<use, buf, front, rear, readPos, writePos, producer, remain,
                 directOut, put, taken>>

\* MoveFront: front, which frees the cells for the writer.
MoveFront ==
  /\ cAt = "front"
  /\ front' = Masked(front + sent)
  /\ taken' = taken + sent
  /\ looked' = 0
  /\ cAt' = "read"
  /\ UNCHANGED <<use, buf, rear, readPos, writePos, producer, remain,
                 directOut, sent, put, out>>

SetReadPos ==
  /\ cAt = "read"
  /\ readPos' = Masked(front + 1)
  /\ cAt' = "idle"
  /\ UNCHANGED <<use, buf, front, rear, writePos, producer, remain,
                 directOut, sent, put, taken, looked, out>>

-----------------------------------------------------------------------------
(* recv_buf: one thread at a time *)

\* recv into GetWritePos, or WSARecv with both parts, then MoveRear.
Received ==
  /\ use = "recv"
  /\ \E k \in 1..GetFreeSize :
       LET d == Least(k, DirectEnqueueSize) IN
       /\ put + k <= MaxBytes
       /\ buf' = Written(Written(buf, writePos, put + 1, d),
                         0, put + 1 + d, k - d)
       /\ rear' = Masked(rear + k)
       /\ put' = put + k
  /\ writePos' = Masked(rear' + 1)
  /\ UNCHANGED <<use, front, readPos, producer, consumer, taken, looked, out>>

\* Peek: no more than there is.
Peek ==
  /\ use = "recv"
  /\ \E k \in 1..MaxChunk :
       LET all == Least(k, GetUseSize) IN
       out' = Gathered(DirectDequeueSize, all) /\ looked' = all
  /\ UNCHANGED <<use, buf, front, rear, readPos, writePos, producer,
                 consumer, put, taken>>

\* MoveFront over a header that was peeked.
Skip ==
  /\ use = "recv" /\ looked > 0
  /\ front' = Masked(front + looked)
  /\ readPos' = Masked(front' + 1)
  /\ taken' = taken + looked
  /\ looked' = 0
  /\ UNCHANGED <<use, buf, rear, writePos, producer, consumer, put, out>>

\* Dequeue: no more than there is; front moves past each part.
Dequeue ==
  /\ use = "recv"
  /\ \E k \in 1..MaxChunk :
       LET all == Least(k, GetUseSize)
           d == Least(all, DirectDequeueSize) IN
       /\ out' = Gathered(DirectDequeueSize, all)
       /\ front' = Masked(Masked(front + d) + (all - d))
       /\ taken' = taken + all
  /\ readPos' = Masked(front' + 1)
  /\ looked' = 0
  /\ UNCHANGED <<use, buf, rear, writePos, producer, consumer, put>>

\* Clear: a pooled session is used again.
Clear ==
  /\ pAt = "idle" /\ cAt = "idle"
  /\ front' = 0 /\ rear' = 0 /\ writePos' = 1 /\ readPos' = 1
  /\ taken' = put /\ looked' = 0
  /\ UNCHANGED <<use, buf, producer, consumer, put, out>>

EnqueueStep == FreeDirect \/ FreeRemain \/ DirectRead \/ Copy \/ MoveRear
                 \/ SetWritePos
\* Mutant: wsaBuf[0] before wsaBuf[1]: the writer may wrap between the two reads.
DirectFirst ==
  /\ cAt = "direct"
  /\ directOut' = DirectDequeueSize
  /\ cAt' = "remain"
  /\ UNCHANGED <<use, buf, front, rear, readPos, writePos, producer, remain,
                 sent, put, taken, looked, out>>

RemainSecond ==
  /\ cAt = "remain"
  /\ remain' = RemainDequeueSize
  /\ cAt' = "sending"
  /\ UNCHANGED <<use, buf, front, rear, readPos, writePos, producer,
                 directOut, sent, put, taken, looked, out>>

SendSwapped == DirectFirst \/ RemainSecond \/ Sent \/ MoveFront \/ SetReadPos

SendStep == PostDirect \/ Sent \/ MoveFront \/ SetReadPos

RingNext ==
  \/ EnqueueCalled \/ EnqueueStep
  \/ PostRemain \/ SendStep
  \/ Received \/ Peek \/ Skip \/ Dequeue \/ Clear

RingSpec == RingInit /\ [][RingNext]_ringVars

-----------------------------------------------------------------------------
(* Properties *)

RingTypeOK ==
  /\ use \in {"send", "recv"}
  /\ buf \in [Offsets -> Nat]
  /\ front \in Offsets /\ rear \in Offsets
  /\ readPos \in Offsets /\ writePos \in Offsets
  /\ pAt \in {"idle", "free", "freeRemain", "direct", "copy", "rear", "write"}
  /\ size \in Nat /\ free \in Nat /\ direct \in Nat /\ n \in Nat
  /\ cAt \in {"idle", "direct", "sending", "front", "read"}
  /\ remain \in Nat /\ directOut \in Nat /\ sent \in Nat
  /\ put \in Nat /\ taken \in Nat /\ looked \in Nat

Queue == INSTANCE ByteQueue WITH Capacity <- Size - 1

\* The ring is a bounded first-in first-out queue of bytes whatever the
\* interleaving of Enqueue with a send: no byte is lost, repeated, reordered
\* or overwritten before it has left (Remain before Direct in IOCP_Send).
IsByteQueue == Queue!QSpec

\* memmove stays inside the allocation and off the bytes that have not left,
\* although Enqueue computed the room from reads of front that are old by
\* now; the send stays inside too.
CopiesInside ==
  /\ pAt = "copy" => /\ writePos + n <= Size
                     /\ n + (put - taken) <= Size - 1
  /\ cAt = "sending" => /\ readPos + directOut <= Size
                        /\ remain + directOut <= put - taken

=============================================================================
